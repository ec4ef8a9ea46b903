-------------------------- MODULE MCRequestSystem --------------------------
(***************************************************************************)
(* A small instance of RequestSystem: a silo with two data sources, and    *)
(* one with a single data source that a person handles.                    *)
(***************************************************************************)
EXTENDS RequestSystem

CONSTANTS s1, s2, d1, d2, d3

TwoAndOne == [s \in {s1, s2} |-> IF s = s1 THEN {d1, d2} ELSE {d3}]

\* Everything but the updates of the job, of which a failing one would leave it QUEUED.
OtherFaults == FaultKinds \ {"job"}
=============================================================================
