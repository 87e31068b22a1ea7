-------------------------------- MODULE MCStores --------------------------------
(***************************************************************************)
(* Instances for TLC of four stores of the API server: the tables of       *)
(* recordings, the record of a gateway, the library of sensor profiles and *)
(* a document that is replaced when it is saved.                           *)
(* They share no variable, and so one of them moves at a time.  Launches   *)
(* of replays are explored without the listings: neither touches what the  *)
(* other reads.  The only run that records is launched by the first        *)
(* thread, as well as by any other.                                        *)
(***************************************************************************)
EXTENDS RecordingAssets, GatewayRegistry, SensorProfiles, DocumentFile

VARIABLE part

FirstLaunches == \A t \in AssetThreads \ {"t1"} : request'[t].op = "launch" =>
    request'[t].run \in ReplayRunIds

StoresInit ==
    /\ part \in {"assets", "replays", "gateway", "library", "document"}
    /\ AssetInit /\ RegistryInit /\ LibraryInit /\ Init
    /\ part # "gateway" => gateway.stored

StoresNext ==
    \/ /\ part = "assets" /\ AssetNext /\ FirstLaunches
       /\ \A t \in AssetThreads : request'[t].run \notin ReplayRunIds
       /\ UNCHANGED <<part, registryVars, libraryVars, vars>>
    \/ /\ part = "replays" /\ AssetNext /\ FirstLaunches
       /\ \A t \in AssetThreads : request'[t].op # "list"
       /\ UNCHANGED <<part, registryVars, libraryVars, vars>>
    \/ /\ part = "gateway" /\ RegistryNext
       /\ UNCHANGED <<part, assetVars, libraryVars, vars>>
    \/ /\ part = "library" /\ LibraryNext
       /\ UNCHANGED <<part, assetVars, registryVars, vars>>
    \/ /\ part = "document" /\ Next
       /\ UNCHANGED <<part, assetVars, registryVars, libraryVars>>

StoresSpec ==
    /\ StoresInit /\ [][StoresNext]_<<part, assetVars, registryVars, libraryVars, vars>>
    /\ WF_registryVars(part = "gateway" /\ SenderStep)
    /\ \A c \in Calls : WF_registryVars(part = "gateway" /\ CallStep(c))
===============================================================================
