---------------------------- MODULE MCRequestApi ----------------------------
(***************************************************************************)
(* Small instances of RequestApi.                                          *)
(***************************************************************************)
EXTENDS RequestApi, TLC

CONSTANTS d1, d2, s1

OneSilo    == [ds \in {d1, d2} |-> s1]
EveryFault == FaultKinds

\* No property is temporal; calls are alike, and so are the data sources of one silo.
Alike == Permutations(Calls) \cup Permutations(DataSources)
=============================================================================
