---------------------------- MODULE SensorProfiles ----------------------------
(***************************************************************************)
(* The library of sensor profiles: a table of the SQLite database that the *)
(* API threads read and write (SensorProfileStore, routes_sensor_profiles) *)
(* and into which every read first imports the profiles of the YAML files  *)
(* that are not there yet.  A statement is atomic, a request is not.  No   *)
(* request removes a profile.  A profile that validation refuses changes   *)
(* nothing and is left out.                                                *)
(***************************************************************************)
EXTENDS Naturals

CONSTANTS
    LibraryThreads,     \* threads of the API server
    LegacyProfiles,     \* ids of the YAML files, all of them valid
    NewProfiles,        \* further ids that clients use
    MaxSaves            \* bound: requests that save something

ASSUME LibraryConstants ==
    MaxSaves \in Nat /\ LegacyProfiles # {} /\ LegacyProfiles \intersect NewProfiles = {}

ProfileIds == LegacyProfiles \union NewProfiles

VARIABLES
    profiles,   \* the table sensor_profiles, by id
    library,    \* what each thread is doing
    saves,      \* how many requests save something
    listed,     \* history: the ids of the last answer of a listing
    unknown     \* history: the ids that a request was told do not exist

libraryHistory == <<listed, unknown>>
libraryVars == <<profiles, library, saves, libraryHistory>>

-------------------------------------------------------------------------------
(* A row, by where its content comes from and which request (or the        *)
(* import) has created it: the number of a request that saves, or Yaml.    *)
Missing == [content |-> 0, created |-> 0]
Yaml == MaxSaves + 1
Profile(content, created) == [content |-> content, created |-> created]

(* known: the ids that the import has read; row: the row to be saved, or   *)
(* that was read.                                                          *)
NoProfile == CHOOSE i \in ProfileIds : TRUE
Resting == [pc |-> "idle", op |-> "none", id |-> NoProfile, source |-> NoProfile,
            number |-> 0, known |-> {}, row |-> Missing]

LibraryInit ==
    /\ profiles = [i \in ProfileIds |-> Missing]
    /\ library = [t \in LibraryThreads |-> Resting]
    /\ saves = 0 /\ unknown = {} /\ listed = LegacyProfiles

Does(t, q) == library' = [library EXCEPT ![t] = q]
DoneWith(t) == Does(t, Resting)
Table == {i \in ProfileIds : profiles[i] # Missing}

-------------------------------------------------------------------------------
(* The routes.  A request that saves has a number of its own.              *)

BeginReading(t, op, id) ==
    /\ library[t].pc = "idle"
    /\ Does(t, [Resting EXCEPT !.pc = "import", !.op = op, !.id = id])
    /\ UNCHANGED <<profiles, saves, libraryHistory>>

ListProfiles(t) == BeginReading(t, "list", NoProfile)
GetProfile(t, id) == BeginReading(t, "get", id)

BeginSaving(t, op, pc, id, source) ==
    /\ library[t].pc = "idle" /\ saves < MaxSaves
    /\ saves' = saves + 1
    /\ Does(t, [Resting EXCEPT !.pc = pc, !.op = op, !.id = id, !.source = source,
                               !.number = saves', !.row = Profile(saves', saves')])
    /\ UNCHANGED <<profiles, libraryHistory>>

CreateProfile(t, id) == BeginSaving(t, "create", "insert", id, id)
UpdateProfile(t, id) == BeginSaving(t, "update", "created", id, id)
CopyProfile(t, source, id) == BeginSaving(t, "copy", "import", id, source)

-------------------------------------------------------------------------------
(* import_legacy_yaml_profiles: the ids are read, and what is missing of   *)
(* the YAML files is created, one by one (in the order of the files; here  *)
(* in any).                                                                *)

ReadKnownIds(t) ==
    /\ library[t].pc = "import"
    /\ Does(t, [library[t] EXCEPT !.pc = "create", !.known = Table])
    /\ UNCHANGED <<profiles, saves, libraryHistory>>

(* A profile that somebody else has created since is a conflict, and that  *)
(* is the answer of the request.                                           *)
OnConflict(q) == Resting

ImportOver(i, row) == row                    \* mutant: INSERT OR REPLACE
Inserted(i, row) == IF profiles[i] = Missing THEN row ELSE profiles[i]

ImportProfile(t, i) ==
    LET q == library[t] IN
    /\ q.pc = "create" /\ i \in LegacyProfiles \ q.known
    /\ profiles' = [profiles EXCEPT ![i] = Inserted(i, Profile(Yaml, Yaml))]
    /\ Does(t, IF profiles[i] = Missing THEN [q EXCEPT !.known = @ \union {i}]
               ELSE OnConflict(q))
    /\ UNCHANGED <<saves, libraryHistory>>

ImportEnds(t) ==
    /\ library[t].pc = "create" /\ LegacyProfiles \subseteq library[t].known
    /\ Does(t, [library[t] EXCEPT !.pc = "read", !.known = {}])
    /\ UNCHANGED <<profiles, saves, libraryHistory>>

-------------------------------------------------------------------------------
(* list and get, which also ends an update and begins a copy.              *)

AnswerList(t) ==
    /\ library[t].pc = "read" /\ library[t].op = "list"
    /\ listed' = Table
    /\ DoneWith(t)
    /\ UNCHANGED <<profiles, saves, unknown>>

ReadProfile(t) ==
    LET q == library[t]
        i == IF q.op = "copy" THEN q.source ELSE q.id IN
    /\ q.pc = "read" /\ q.op # "list"
    /\ IF profiles[i] = Missing
       THEN DoneWith(t) /\ unknown' = unknown \union {i}
       ELSE /\ UNCHANGED unknown
            /\ IF q.op = "copy"
               THEN Does(t, [q EXCEPT !.pc = "insert",
                                      !.row = Profile(profiles[i].content, q.number)])
               ELSE DoneWith(t)
    /\ UNCHANGED <<profiles, saves, listed>>

(* create: an id that exists is a conflict.                                *)
InsertProfile(t) ==
    LET q == library[t] IN
    /\ q.pc = "insert"
    /\ profiles' = [profiles EXCEPT ![q.id] = Inserted(q.id, q.row)]
    /\ DoneWith(t)
    /\ UNCHANGED <<saves, libraryHistory>>

(* upsert: the SELECT does not open a transaction.                         *)
ReadCreated(t) ==
    LET q == library[t] IN
    /\ q.pc = "created"
    /\ Does(t, [q EXCEPT !.pc = "upsert",
                         !.row.created = IF profiles[q.id] = Missing THEN @
                                         ELSE profiles[q.id].created])
    /\ UNCHANGED <<profiles, saves, libraryHistory>>

Upserted(i, row) ==
    IF profiles[i] = Missing THEN row ELSE [row EXCEPT !.created = profiles[i].created]

UpsertProfile(t) ==
    LET q == library[t] IN
    /\ q.pc = "upsert"
    /\ profiles' = [profiles EXCEPT ![q.id] = Upserted(q.id, q.row)]
    /\ Does(t, [q EXCEPT !.pc = "import"])
    /\ UNCHANGED <<saves, libraryHistory>>

LibraryStep(t) ==
    \/ ReadKnownIds(t) \/ (\E i \in LegacyProfiles : ImportProfile(t, i)) \/ ImportEnds(t)
    \/ AnswerList(t) \/ ReadProfile(t) \/ InsertProfile(t)
    \/ ReadCreated(t) \/ UpsertProfile(t)

LibraryNext ==
    \E t \in LibraryThreads :
        \/ LibraryStep(t) \/ ListProfiles(t)
        \/ \E i \in ProfileIds : GetProfile(t, i) \/ CreateProfile(t, i) \/ UpdateProfile(t, i)
        \/ \E i, j \in ProfileIds : CopyProfile(t, i, j)

LibrarySpec == LibraryInit /\ [][LibraryNext]_libraryVars
-------------------------------------------------------------------------------
(* Properties.                                                             *)

Rows == [content: 0 .. Yaml, created: 0 .. Yaml]

LibraryTypeOK ==
    /\ profiles \in [ProfileIds -> Rows]
    /\ library \in [LibraryThreads ->
            [pc: {"idle", "import", "create", "read", "insert", "created", "upsert"},
             op: {"none", "list", "get", "create", "update", "copy"},
             id: ProfileIds, source: ProfileIds, number: 0 .. MaxSaves,
             known: SUBSET ProfileIds, row: Rows]]
    /\ saves \in 0 .. MaxSaves
    /\ listed \subseteq ProfileIds /\ unknown \subseteq ProfileIds

(* A listing that is answered at all has every profile of the YAML files,  *)
(* and none of them is ever said not to exist, while several threads       *)
(* import them at the same time.                                           *)
ImportedBeforeAnswer == LegacyProfiles \subseteq listed /\ LegacyProfiles \intersect unknown = {}

(* What a client has saved is never replaced by the YAML file again, and a *)
(* profile keeps the creation its row began with: no import works from a   *)
(* list of ids that is too old to be used, and no update from a row.       *)
SavedProfileIsKept ==
    [][\A i \in ProfileIds : profiles[i] # Missing =>
            /\ profiles'[i].created = profiles[i].created
            /\ profiles'[i].content = Yaml => profiles[i].content = Yaml]_libraryVars
===============================================================================
