--------------------------- MODULE MCBenchmarkTask ---------------------------
(* Instances of BenchmarkTask for TLC: the three kinds of scenarios of the *)
(* catalogue (fixed sensors, editable sensors, hidden and without sensors) *)
(* and requests that use every planning mode.                              *)
EXTENDS BenchmarkTask, TLC

Symmetry == Permutations(Threads)

MCCatalog ==
    [demo |-> [map |-> "town10", sensor |-> "front", editable |-> FALSE, timeout |-> 60, hidden |-> FALSE],
     free |-> [map |-> "town10", sensor |-> "quad", editable |-> TRUE, timeout |-> None, hidden |-> FALSE],
     xosc |-> [map |-> "town01", sensor |-> None, editable |-> FALSE, timeout |-> 120, hidden |-> TRUE]]

MCPresets == {"rain"}
MCProfiles == {"front", "quad"}

Definition(mode, candidates, duration) ==
    [mode |-> mode, candidates |-> candidates, duration |-> duration]

Request(definition, matrix, selected, auto) ==
    [definition |-> definition, matrix |-> matrix, selected |-> selected, duration |-> None,
     auto |-> auto]

Custom == Definition("custom_multi_scenario", <<>>, None)
Thermal == Definition("timed_single_scenario", <<"xosc", "demo">>, 1800)

MCRequests ==
    {Request(Custom, <<[PlainRow("free", 20) EXCEPT !.sensor = "front", !.map = "town05"],
                       [PlainRow("xosc", None) EXCEPT !.env = "rain"]>>, <<>>, TRUE),
     Request(Custom, <<[PlainRow("demo", None) EXCEPT !.sensor = "quad"]>>,
             <<>>, FALSE),
     Request(Thermal, <<>>, <<"demo">>, FALSE)}
===============================================================================
