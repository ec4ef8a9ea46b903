--------------------------- MODULE MCRequestJob ---------------------------
(***************************************************************************)
(* A small instance of RequestJob: two executions of one request.          *)
(***************************************************************************)
EXTENDS RequestJob, TLC

EveryFault == FaultKinds

\* No property of the run is temporal, and no silo is handled by a person.
Alike == Permutations(Executions) \cup Permutations(Silos)
===========================================================================
