------------------------- MODULE MCDockerProtocol -------------------------
(***************************************************************************)
(* Small instances of DockerProtocol.                                      *)
(***************************************************************************)
EXTENDS DockerProtocol

EveryActivity == DOMAIN Commands
EveryFault    == FaultKinds
===========================================================================
