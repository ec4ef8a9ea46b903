---------------------------- MODULE RequestJob ----------------------------
(***************************************************************************)
(* The execution of a whole user data request: the resolver that starts it *)
(* (ExecuteUserDataRequest), the workflow that runs one child per silo     *)
(* (ExecuteRequestWorkflow), the jobs row that shows its progress, and the *)
(* resolver that cancels it (CancelJob).  A child is one execution of      *)
(* SiloRequest, reduced to what SiloPromise says of it: it returns a       *)
(* result, or none.                                                        *)
(***************************************************************************)
EXTENDS Naturals, FiniteSets

CONSTANTS
  Silos,          \* the silo definitions of the workspace
  ManualSilos,    \* those whose data sources a person handles
  Executions,     \* the calls of ExecuteUserDataRequest on the request
  NoJob,          \* request.JobID = nil
  Faults,         \* what may go wrong
  MaxCancels,     \* bound: how many CancelJob calls reach the workflow
  MaxSignals      \* bound: how many marks users make

\* "commit": the transaction that inserts the job; "find": FindDBSilos;
\* "spawn": a child cannot be started; "child": a child ends without a result;
\* "job": an attempt of UpdateJobStatus.
FaultKinds == {"commit", "find", "spawn", "child", "job"}

\* UpdateJobStatus is attempted at most twice (MaximumAttempts of the options).
MaxAttempts == 2

ASSUME JobAssumption ==
  /\ IsFiniteSet(Silos)
  /\ ManualSilos \subseteq Silos
  /\ NoJob \notin Executions
  /\ Faults \subseteq FaultKinds
  /\ MaxCancels \in Nat
  /\ MaxSignals \in Nat

VARIABLES
  resolver,     \* where each ExecuteUserDataRequest call is
  job,          \* status of the jobs row of each execution
  link,         \* requests.job_id
  wf,           \* where each parent workflow is
  child,        \* the child workflow of each silo
  counted,      \* silos whose future has been handled (silosComplete)
  status,       \* the local variable status
  hasSuccess,
  attempts,     \* attempts of UpdateJobStatus made
  cancelled,    \* executions whose cancellation has been requested
  canceller,    \* CancelJob calls between CancelWorkflow and the update
  cancels,      \* CancelJob calls so far
  mail,         \* silos of the signals buffered for each parent
  told,         \* silos whose child has been sent a signal
  sent          \* marks made so far

childVars  == <<child, counted, status, hasSuccess>>
cancelVars == <<cancelled, canceller, cancels>>
mailVars   == <<mail, told, sent>>
vars == <<resolver, job, link, wf, child, counted, status, hasSuccess, attempts,
          cancelled, canceller, cancels, mail, told, sent>>

JobStatus == {"absent", "QUEUED", "COMPLETED", "PARTIAL_FAILED", "FAILED"}
Terminal  == {"COMPLETED", "PARTIAL_FAILED", "FAILED"}
Child     == {"none", "unstarted", "running", "lost", "FAILED", "PARTIAL_FAILED", "EXECUTED"}
Returned  == {"lost", "FAILED", "PARTIAL_FAILED", "EXECUTED"}

Init ==
  /\ resolver = [e \in Executions |-> "idle"]
  /\ job = [e \in Executions |-> "absent"]
  /\ link = NoJob
  /\ wf = [e \in Executions |-> "none"]
  /\ child = [e \in Executions |-> [s \in Silos |-> "none"]]
  /\ counted = [e \in Executions |-> {}]
  /\ status = [e \in Executions |-> "COMPLETED"]
  /\ hasSuccess = [e \in Executions |-> FALSE]
  /\ attempts = [e \in Executions |-> 0]
  /\ cancelled = {}
  /\ canceller = [e \in Executions |-> 0]
  /\ cancels = 0
  /\ mail = [e \in Executions |-> {}]
  /\ told = [e \in Executions |-> {}]
  /\ sent = 0

-----------------------------------------------------------------------------
(* ExecuteUserDataRequest: the workflow is started first, with the id of a *)
(* job whose row is inserted afterwards.                                   *)

StartExecution(e) ==
  /\ resolver[e] = "idle"
  /\ resolver' = [resolver EXCEPT ![e] = "started"]
  /\ wf' = [wf EXCEPT ![e] = "find"]
  /\ UNCHANGED <<job, link, childVars, attempts, cancelVars, mailVars>>

CommitJob(e) ==
  /\ resolver[e] = "started"
  /\ resolver' = [resolver EXCEPT ![e] = "done"]
  /\ job' = [job EXCEPT ![e] = "QUEUED"]
  /\ link' = e
  /\ UNCHANGED <<wf, childVars, attempts, cancelVars, mailVars>>

\* The transaction fails and the caller sees an error; the workflow runs on.
CommitFails(e) ==
  /\ "commit" \in Faults
  /\ resolver[e] = "started"
  /\ resolver' = [resolver EXCEPT ![e] = "failed"]
  /\ UNCHANGED <<job, link, wf, childVars, attempts, cancelVars, mailVars>>

-----------------------------------------------------------------------------
(* ExecuteRequestWorkflow *)

At(e, p)   == wf[e] = p
Goto(e, p) == wf' = [wf EXCEPT ![e] = p]

SilosFound(e) ==
  /\ At(e, "find") /\ e \notin cancelled
  /\ Goto(e, "spawn")
  /\ UNCHANGED <<resolver, job, link, childVars, attempts, cancelVars, mailVars>>

\* FindDBSilos fails, or the context is cancelled while it runs.
FindFails(e) ==
  /\ At(e, "find")
  /\ "find" \in Faults \/ e \in cancelled
  /\ Goto(e, "cleanup")
  /\ status' = [status EXCEPT ![e] = "FAILED"]
  /\ UNCHANGED <<resolver, job, link, child, counted, hasSuccess, attempts,
                 cancelVars, mailVars>>

\* The children are started one after the other, each awaited.  On a cancelled
\* context no child need be started.
SpawnChild(e, s) ==
  /\ At(e, "spawn")
  /\ child[e][s] = "none"
  /\ \/ child' = [child EXCEPT ![e][s] = "running"]
     \/ /\ "spawn" \in Faults \/ e \in cancelled
        /\ child' = [child EXCEPT ![e][s] = "unstarted"]
  /\ UNCHANGED <<resolver, job, link, wf, counted, status, hasSuccess, attempts,
                 cancelVars, mailVars>>

\* Mutant: signals that arrive before the handler is registered are lost.
AllSpawnedDeaf(e) ==
  /\ At(e, "spawn")
  /\ \A s \in Silos : child[e][s] # "none"
  /\ Goto(e, "select")
  /\ mail' = [mail EXCEPT ![e] = {}]
  /\ UNCHANGED <<resolver, job, link, childVars, attempts, cancelVars, told, sent>>

AllSpawned(e) ==
  /\ At(e, "spawn")
  /\ \A s \in Silos : child[e][s] # "none"
  /\ Goto(e, "select")
  /\ UNCHANGED <<resolver, job, link, childVars, attempts, cancelVars, mailVars>>

\* Mutant: only a silo that failed completely spoils the status.
StatusAfterLenient(r, old) == IF r = "FAILED" THEN "PARTIAL_FAILED" ELSE old

\* What the callback of a future does to the two local variables.
StatusAfter(r, old)  == IF r = "EXECUTED" THEN old ELSE "PARTIAL_FAILED"
SuccessAfter(r, old) == old \/ r \in {"EXECUTED", "PARTIAL_FAILED"}

\* Mutant: the callback returns early when the child has no result.
FutureReadyEarlyReturn(e, s) ==
  /\ At(e, "select")
  /\ child[e][s] \in Returned \ {"lost"} /\ s \notin counted[e]
  /\ counted' = [counted EXCEPT ![e] = @ \union {s}]
  /\ status' = [status EXCEPT ![e] = StatusAfter(child[e][s], @)]
  /\ hasSuccess' = [hasSuccess EXCEPT ![e] = SuccessAfter(child[e][s], @)]
  /\ UNCHANGED <<resolver, job, link, wf, child, attempts, cancelVars, mailVars>>

FutureReady(e, s) ==
  /\ At(e, "select")
  /\ child[e][s] \in Returned /\ s \notin counted[e]
  /\ counted' = [counted EXCEPT ![e] = @ \union {s}]
  /\ status' = [status EXCEPT ![e] = StatusAfter(child[e][s], @)]
  /\ hasSuccess' = [hasSuccess EXCEPT ![e] = SuccessAfter(child[e][s], @)]
  /\ UNCHANGED <<resolver, job, link, wf, child, attempts, cancelVars, mailVars>>

\* A signal is forwarded to the child of its silo when there is one; a child
\* that has closed does not take it, and a cancelled context sends none.
ForwardSignal(e, s) ==
  /\ At(e, "select")
  /\ s \in mail[e]
  /\ mail' = [mail EXCEPT ![e] = @ \ {s}]
  /\ told' = IF child[e][s] = "running" /\ e \notin cancelled
             THEN [told EXCEPT ![e] = @ \union {s}] ELSE told
  /\ UNCHANGED <<resolver, job, link, wf, childVars, attempts, cancelVars, sent>>

\* Mutant: the loop ends one child early.
AllCountedOffByOne(e) ==
  /\ At(e, "select")
  /\ Cardinality(counted[e]) + 1 >= Cardinality(Silos)
  /\ Goto(e, "cleanup")
  /\ UNCHANGED <<resolver, job, link, childVars, attempts, cancelVars, mailVars>>

\* for silosComplete < len(silos)
AllCounted(e) ==
  /\ At(e, "select")
  /\ Cardinality(counted[e]) = Cardinality(Silos)
  /\ Goto(e, "cleanup")
  /\ UNCHANGED <<resolver, job, link, childVars, attempts, cancelVars, mailVars>>

\* Mutant: hasSuccess is not looked at.
FinalStatusAsIs(st, success) == st

\* The deferred update, on a context that is not cancelled.
FinalStatus(st, success) ==
  IF ~ success /\ st = "PARTIAL_FAILED" THEN "FAILED" ELSE st

UpdateJob(e) ==
  /\ At(e, "cleanup")
  /\ job[e] # "absent"
  /\ job' = [job EXCEPT ![e] = FinalStatus(status[e], hasSuccess[e])]
  /\ Goto(e, "closed")
  /\ UNCHANGED <<resolver, link, childVars, attempts, cancelVars, mailVars>>

\* UpdateJobStatus looks the row up first, and its error is all there is when it
\* finds none; the last attempt ends the workflow.
UpdateJobMisses(e) ==
  /\ At(e, "cleanup")
  /\ job[e] = "absent" \/ "job" \in Faults
  /\ attempts' = [attempts EXCEPT ![e] = @ + 1]
  /\ IF attempts'[e] = MaxAttempts THEN Goto(e, "closed") ELSE UNCHANGED wf
  /\ UNCHANGED <<resolver, job, link, childVars, cancelVars, mailVars>>

-----------------------------------------------------------------------------
(* The children, users. *)

ChildReturns(e, s) ==
  /\ child[e][s] = "running"
  /\ \E r \in Returned :
       /\ r = "lost" => "child" \in Faults \/ e \in cancelled
       /\ child' = [child EXCEPT ![e][s] = r]
  /\ UNCHANGED <<resolver, job, link, wf, counted, status, hasSuccess, attempts,
                 cancelVars, mailVars>>

\* CancelJob: cancel the workflow, which is an error when it has closed, ...
CancelWorkflow(e) ==
  /\ job[e] # "absent"
  /\ wf[e] # "closed"
  /\ cancels < MaxCancels
  /\ cancels' = cancels + 1
  /\ cancelled' = cancelled \union {e}
  /\ canceller' = [canceller EXCEPT ![e] = @ + 1]
  /\ UNCHANGED <<resolver, job, link, wf, childVars, attempts, mailVars>>

\* Mutant: the update is not guarded by an open call.
CancelUpdateUnguarded(e) ==
  /\ canceller' = [canceller EXCEPT ![e] = @ - 1]
  /\ job' = [job EXCEPT ![e] = "FAILED"]
  /\ UNCHANGED <<resolver, link, wf, childVars, attempts, cancelled, cancels, mailVars>>

\* ... then set the status of the row, whatever it is by now.
CancelUpdate(e) ==
  /\ canceller[e] > 0
  /\ canceller' = [canceller EXCEPT ![e] = @ - 1]
  /\ job' = [job EXCEPT ![e] = "FAILED"]
  /\ UNCHANGED <<resolver, link, wf, childVars, attempts, cancelled, cancels, mailVars>>

\* UpdateRequestStatus signals the workflow of the job that is linked now.
Signal(s) ==
  /\ link # NoJob
  /\ sent < MaxSignals
  /\ sent' = sent + 1
  /\ mail' = IF wf[link] = "closed" THEN mail ELSE [mail EXCEPT ![link] = @ \union {s}]
  /\ UNCHANGED <<resolver, job, link, wf, childVars, attempts, cancelVars, told>>

\* The parent of an execution, and the calls that are about it.
Parent(e) ==
  \/ StartExecution(e) \/ CommitJob(e) \/ CommitFails(e)
  \/ SilosFound(e) \/ FindFails(e) \/ AllSpawned(e) \/ AllCounted(e)
  \/ UpdateJob(e) \/ UpdateJobMisses(e)
  \/ CancelWorkflow(e) \/ CancelUpdate(e)
  \/ \E s \in Silos :
       SpawnChild(e, s) \/ FutureReady(e, s) \/ ForwardSignal(e, s)

\* Everything that happens to one execution, but for the signals it is sent.
Execution(e) == Parent(e) \/ \E s \in Silos : ChildReturns(e, s)

Next ==
  \/ \E e \in Executions : Execution(e)
  \/ \E s \in Silos : Signal(s)

\* Temporal keeps the workflows moving, and an API call that has begun ends; nobody is made
\* to call the API.
ParentMoves(e) ==
  /\ WF_vars(CommitJob(e) \/ CommitFails(e)) /\ WF_vars(SilosFound(e) \/ FindFails(e))
  /\ WF_vars(AllSpawned(e)) /\ WF_vars(AllCounted(e))
  /\ WF_vars(UpdateJob(e) \/ UpdateJobMisses(e)) /\ WF_vars(CancelUpdate(e))
  /\ \A s \in Silos :
       WF_vars(SpawnChild(e, s)) /\ WF_vars(FutureReady(e, s)) /\ WF_vars(ForwardSignal(e, s))

\* A child on a silo that needs no person returns (Finishes of SiloRequest), and so does the
\* future of a cancelled one.
Unattended(e, s) == s \notin ManualSilos \/ e \in cancelled

Spec == Init /\ [][Next]_vars

-----------------------------------------------------------------------------
(* Properties. *)

TypeOK ==
  /\ resolver \in [Executions -> {"idle", "started", "done", "failed"}]
  /\ job \in [Executions -> JobStatus]
  /\ link \in Executions \union {NoJob}
  /\ wf \in [Executions -> {"none", "find", "spawn", "select", "cleanup", "closed"}]
  /\ child \in [Executions -> [Silos -> Child]]
  /\ counted \in [Executions -> SUBSET Silos]
  /\ status \in [Executions -> Terminal]
  /\ hasSuccess \in [Executions -> BOOLEAN]
  /\ attempts \in [Executions -> Nat]
  /\ cancelled \subseteq Executions
  /\ canceller \in [Executions -> Nat]
  /\ cancels \in Nat
  /\ mail \in [Executions -> SUBSET Silos]
  /\ told \in [Executions -> SUBSET Silos]
  /\ sent \in Nat

\* Success of a child, in whole or in part.
Useful(r) == r \in {"EXECUTED", "PARTIAL_FAILED"}

SoundJob(e) ==
  /\ job[e] = "COMPLETED" => \A s \in Silos : child[e][s] = "EXECUTED"
  /\ job[e] = "PARTIAL_FAILED" =>
       /\ \E s \in Silos : Useful(child[e][s])
       /\ \E s \in Silos : child[e][s] # "EXECUTED"
  /\ job[e] = "FAILED" =>
       e \in cancelled \/ \A s \in Silos : ~ Useful(child[e][s])

\* The status that users read in the job row tells what the children did:
\* COMPLETED only when each silo executed the request, PARTIAL_FAILED only when
\* some silo did something and some silo did not do everything, FAILED only when
\* no silo did anything or the job was cancelled.
JobSound == \A e \in Executions : SoundJob(e)

NoOrphan(e) ==
  wf[e] \in {"cleanup", "closed"} => \A s \in Silos : child[e][s] # "running"

\* No child is left behind: when the parent closes, which ends its children, none
\* of those it started is still at work.
NoneOrphaned == \A e \in Executions : NoOrphan(e)

\* What the parent has counted when it goes on, and what its local variables make
\* of it: the inductive strengthening of the two invariants above.
CountedReturned(e) ==
  /\ \A s \in counted[e] : child[e][s] \in Returned
  /\ wf[e] \in {"none", "find"} => \A s \in Silos : child[e][s] = "none"
  /\ wf[e] \in {"none", "find", "spawn"} => counted[e] = {}

FlagsSummarise(e) ==
  /\ hasSuccess[e] <=> \E s \in counted[e] : Useful(child[e][s])
  /\ status[e] = "COMPLETED" => \A s \in counted[e] : child[e][s] = "EXECUTED"
  /\ status[e] = "PARTIAL_FAILED" => \E s \in counted[e] : child[e][s] # "EXECUTED"
  /\ status[e] = "FAILED" => wf[e] \in {"cleanup", "closed"} /\ counted[e] = {}

EndsCounted(e) ==
  /\ wf[e] \in {"cleanup", "closed"} =>
       \/ counted[e] = Silos
       \/ status[e] = "FAILED" /\ \A s \in Silos : child[e][s] = "none"
  /\ job[e] \in Terminal => wf[e] = "closed" \/ (job[e] = "FAILED" /\ e \in cancelled)
  /\ resolver[e] = "idle" => wf[e] = "none"
  /\ resolver[e] # "done" => job[e] = "absent"
  /\ canceller[e] > 0 => e \in cancelled /\ resolver[e] = "done"

JobIInv ==
  /\ TypeOK
  /\ \A e \in Executions :
       /\ SoundJob(e) /\ NoOrphan(e)
       /\ CountedReturned(e) /\ FlagsSummarise(e) /\ EndsCounted(e)

\* The parent waits: for a child that a person has to help, or, as the code has it, for one
\* that was never started.
Waits(e) ==
  /\ wf[e] = "select"
  /\ \E s \in Silos : \/ child[e][s] = "unstarted"
                      \/ child[e][s] = "running" /\ ~ Unattended(e, s)

\* A job row that exists while its workflow is still at work gets a final status in the end,
\* whatever else fails, unless the parent comes to wait for something.
JobSettles ==
  \A e \in Executions :
    (job[e] = "QUEUED" /\ wf[e] \in {"find", "spawn", "select"})
      ~> job[e] \in Terminal \/ Waits(e)

\* A mark that reaches the parent of a running execution reaches the child too,
\* at whatever step the parent is, unless the child or the parent ends first.
SignalReachesChild ==
  \A e \in Executions, s \in Silos :
    (s \in mail[e] /\ wf[e] \in {"spawn", "select"}) ~>
      \/ s \in told[e]
      \/ child[e][s] \notin {"none", "running"}
      \/ e \in cancelled
=============================================================================
