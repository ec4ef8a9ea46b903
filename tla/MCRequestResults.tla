------------------------- MODULE MCRequestResults -------------------------
(***************************************************************************)
(* Small instances of RequestResults.                                      *)
(***************************************************************************)
EXTENDS RequestResults, TLC

EveryFault == FaultKinds

\* Nothing tells the data sources apart, and no property is temporal.
Alike == Permutations(DataSources)
===========================================================================
