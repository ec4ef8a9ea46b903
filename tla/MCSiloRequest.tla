-------------------------- MODULE MCSiloRequest --------------------------
(***************************************************************************)
(* Small instances of SiloRequest.                                         *)
(***************************************************************************)
EXTENDS SiloRequest

\* Everything fails but the updates of rows, without which no row could be trusted.
AllButUpdates == FaultKinds \ {"update"}
==========================================================================
