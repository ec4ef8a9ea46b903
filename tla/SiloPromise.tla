---------------------------- MODULE SiloPromise ----------------------------
(***************************************************************************)
(* What the execution of a request on one silo promises its caller, the    *)
(* orchestrating workflow: every data source of the silo is settled at     *)
(* most once, as a success, as a failure, or as skipped when the data      *)
(* source is no longer there; and the result that is returned summarises   *)
(* those verdicts.  An execution may also end without a result (an error   *)
(* of the workflow, or a cancellation), and then nothing is promised.      *)
(***************************************************************************)
CONSTANT DataSources   \* the data sources of the silo

VARIABLES
  verdict,    \* what the execution has settled about each data source
  result      \* what it has returned

promiseVars == <<verdict, result>>

Verdicts == {"open", "ok", "bad", "skipped"}
Results  == {"none", "lost", "FAILED", "PARTIAL_FAILED", "EXECUTED"}

SomeWith(v, w) == \E d \in DataSources : v[d] = w

\* The result that goes with settled verdicts: EXECUTED without any failure,
\* PARTIAL_FAILED when there are both successes and failures, else FAILED.
Summary(v) ==
  IF ~ SomeWith(v, "bad")   THEN "EXECUTED"
  ELSE IF SomeWith(v, "ok") THEN "PARTIAL_FAILED"
  ELSE "FAILED"

PromiseInit ==
  /\ verdict = [d \in DataSources |-> "open"]
  /\ result = "none"

\* One data source is settled; the execution may return in the same step when
\* that was the last one.
Settle(d) ==
  /\ result = "none"
  /\ verdict[d] = "open"
  /\ \E v \in {"ok", "bad"} : verdict' = [verdict EXCEPT ![d] = v]
  /\ \/ result' = "none"
     \/ ~ SomeWith(verdict', "open") /\ result' = Summary(verdict')

\* The data sources that were deleted before the execution started are left out.
Skip(S) ==
  /\ result = "none"
  /\ \A d \in S : verdict[d] = "open"
  /\ verdict' = [d \in DataSources |-> IF d \in S THEN "skipped" ELSE verdict[d]]
  /\ UNCHANGED result

Return ==
  /\ result = "none"
  /\ ~ SomeWith(verdict, "open")
  /\ result' = Summary(verdict)
  /\ UNCHANGED verdict

\* The execution cannot be started at all: every data source that is left
\* fails together.
FailWhole(S) ==
  /\ result = "none"
  /\ \A d \in DataSources : verdict[d] = "open"
  /\ verdict' = [d \in DataSources |-> IF d \in S THEN "bad" ELSE "skipped"]
  /\ result' = "FAILED"

LoseResult ==
  /\ result = "none"
  /\ result' = "lost"
  /\ UNCHANGED verdict

PromiseNext ==
  \/ \E d \in DataSources : Settle(d)
  \/ \E S \in SUBSET DataSources : Skip(S) \/ FailWhole(S)
  \/ Return
  \/ LoseResult

PromiseSpec == PromiseInit /\ [][PromiseNext]_promiseVars
=============================================================================
