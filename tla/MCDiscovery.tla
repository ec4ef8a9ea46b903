--------------------------- MODULE MCDiscovery ---------------------------
(***************************************************************************)
(* Small instances of Discovery.                                           *)
(***************************************************************************)
EXTENDS Discovery

EveryFault == FaultKinds
==========================================================================
