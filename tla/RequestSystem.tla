--------------------------- MODULE RequestSystem ---------------------------
(***************************************************************************)
(* A whole request, from the call of the API down to the data sources:     *)
(* RequestJob with children that work.  A child is an execution on one     *)
(* silo that keeps its promise (SiloPromise, which SiloRequest             *)
(* implements): it settles the data sources of its silo one after the      *)
(* other, beside the other children, and may be lost at any point of that. *)
(***************************************************************************)
EXTENDS RequestJob

CONSTANT SourcesOf   \* the data sources of each silo

ASSUME SystemAssumption == DOMAIN SourcesOf = Silos

VARIABLE verdict     \* what the child of each silo has settled, in each execution

systemVars == <<vars, verdict>>

\* What a child has returned, if it has.
Outcome(c) == IF c \in Returned THEN c ELSE "none"

Promise(e, s) == INSTANCE SiloPromise
                   WITH DataSources <- SourcesOf[s],
                        verdict <- verdict[e][s], result <- Outcome(child[e][s])

Verdicts == {"open", "ok", "bad", "skipped"}

SystemInit ==
  /\ Init
  /\ verdict = [e \in Executions |-> [s \in Silos |-> [d \in SourcesOf[s] |-> "open"]]]

\* What may be settled next: a verdict is given once.
Further(e, s) ==
  {v \in [SourcesOf[s] -> Verdicts] : \A d \in SourcesOf[s] : verdict[e][s][d] \in {"open", v[d]}}

\* A running child settles something, returns or is lost.
ChildWorks(e, s) ==
  /\ child[e][s] = "running"
  /\ \E v \in Further(e, s), c \in Returned \cup {"running"} :
       /\ c = "lost" => "child" \in Faults \/ e \in cancelled
       /\ verdict' = [verdict EXCEPT ![e][s] = v]
       /\ child' = [child EXCEPT ![e][s] = c]
       /\ Promise(e, s)!PromiseNext
  /\ UNCHANGED <<resolver, job, link, wf, counted, status, hasSuccess, attempts,
                 cancelVars, mailVars>>

SystemNext ==
  \/ \E e \in Executions : Parent(e) /\ UNCHANGED verdict
  \/ \E s \in Silos : Signal(s) /\ UNCHANGED verdict
  \/ \E e \in Executions, s \in Silos : ChildWorks(e, s)

\* As in RequestJob; a child that nobody needs to attend to goes on until it returns.
SystemSpec ==
  /\ SystemInit /\ [][SystemNext]_systemVars
  /\ \A e \in Executions :
       /\ ParentMoves(e)
       /\ \A s \in Silos : WF_systemVars(ChildWorks(e, s) /\ Unattended(e, s))

-----------------------------------------------------------------------------
(* Properties. *)

All(e, s, V) == \A d \in SourcesOf[s] : verdict[e][s][d] \in V

\* What a child has returned is true of each of its data sources.
SummaryTrue(e, s) ==
  /\ child[e][s] \in {"none", "unstarted"} => All(e, s, {"open"})
  /\ child[e][s] = "EXECUTED" => All(e, s, {"ok", "skipped"})
  /\ child[e][s] = "PARTIAL_FAILED" =>
       /\ ~ All(e, s, {"bad", "skipped"}) /\ ~ All(e, s, {"ok", "skipped"})
       /\ All(e, s, {"ok", "bad", "skipped"})
  /\ child[e][s] = "FAILED" => All(e, s, {"bad", "skipped"})

\* The data sources of a silo are done: each is, or is no longer there.
Done(e, s) == All(e, s, {"ok", "skipped"})

TellsVerdicts(e) ==
  /\ job[e] = "COMPLETED" => \A s \in Silos : Done(e, s)
  /\ job[e] = "PARTIAL_FAILED" =>
       /\ \E s \in Silos : child[e][s] \in {"lost", "FAILED"} \/ ~ Done(e, s)
       /\ \E s \in Silos : Done(e, s) \/ ~ All(e, s, {"bad", "skipped"})
  /\ job[e] = "FAILED" /\ e \notin cancelled =>
       \A s \in Silos : child[e][s] = "lost" \/ All(e, s, {"open", "bad", "skipped"})

\* The status of the job, which is all that users are shown of an execution, is true of each
\* data source of each silo: COMPLETED when all that are left have done the request;
\* PARTIAL_FAILED when something was not done, and not everything failed; FAILED, unless
\* somebody has cancelled, when none has done it but in a child that was lost on the way.
JobTellsVerdicts == \A e \in Executions : TellsVerdicts(e)
=============================================================================
