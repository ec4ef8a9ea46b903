--------------------------- MODULE MCSegmentedLog ---------------------------
(***************************************************************************)
(* A small instance of SegmentedLog: two attempts.                         *)
(***************************************************************************)
EXTENDS SegmentedLog

EveryFault == FaultKinds
=============================================================================
