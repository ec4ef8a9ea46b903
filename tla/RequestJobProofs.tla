-------------------------- MODULE RequestJobProofs --------------------------
(***************************************************************************)
(* The invariants of RequestJob, for any number of executions and silos,   *)
(* whatever fails and however often users cancel and mark.  The parent     *)
(* goes on when it has counted all futures; JobIInv says what the counted  *)
(* children have returned and what the two local variables make of it.     *)
(* RequestSystem implements RequestJob, and what its children have settled *)
(* is as the job says.                                                     *)
(***************************************************************************)
EXTENDS RequestSystem, FiniteSetTheorems, TLAPS

USE JobAssumption

LEMMA InitJob == Init => JobIInv
<1> SUFFICES ASSUME Init PROVE JobIInv
  OBVIOUS
<1>1. TypeOK
  BY DEF Init, TypeOK, JobStatus, Terminal, Child
<1>2. ASSUME NEW e \in Executions PROVE SoundJob(e) /\ NoOrphan(e)
  BY DEF Init, SoundJob, NoOrphan
<1>3. ASSUME NEW e \in Executions PROVE CountedReturned(e) /\ EndsCounted(e)
  BY DEF Init, CountedReturned, EndsCounted, Terminal
<1>4. ASSUME NEW e \in Executions PROVE FlagsSummarise(e)
  BY DEF Init, FlagsSummarise
<1> QED
  BY <1>1, <1>2, <1>3, <1>4 DEF JobIInv

\* Every step keeps the types.
LEMMA JobType == TypeOK /\ [Next]_vars => TypeOK'
<1> SUFFICES ASSUME TypeOK, [Next]_vars PROVE TypeOK'
  OBVIOUS
<1> USE DEF TypeOK, JobStatus, Terminal, Child, At, Goto, childVars, cancelVars, mailVars
<1>1. ASSUME NEW e \in Executions, StartExecution(e) PROVE TypeOK'
  BY <1>1 DEF StartExecution
<1>2. ASSUME NEW e \in Executions, CommitJob(e) PROVE TypeOK'
  BY <1>2 DEF CommitJob
<1>3. ASSUME NEW e \in Executions, CommitFails(e) PROVE TypeOK'
  BY <1>3 DEF CommitFails
<1>4. ASSUME NEW e \in Executions, SilosFound(e) PROVE TypeOK'
  BY <1>4 DEF SilosFound
<1>5. ASSUME NEW e \in Executions, FindFails(e) PROVE TypeOK'
  BY <1>5 DEF FindFails
<1>6. ASSUME NEW e \in Executions, AllSpawned(e) PROVE TypeOK'
  BY <1>6 DEF AllSpawned
<1>7. ASSUME NEW e \in Executions, AllCounted(e) PROVE TypeOK'
  BY <1>7 DEF AllCounted
<1>8. ASSUME NEW e \in Executions, UpdateJob(e) PROVE TypeOK'
  BY <1>8 DEF UpdateJob, FinalStatus
<1>9. ASSUME NEW e \in Executions, UpdateJobMisses(e) PROVE TypeOK'
  <2>1. attempts' = [attempts EXCEPT ![e] = attempts[e] + 1]
    BY <1>9 DEF UpdateJobMisses
  <2>2. attempts' \in [Executions -> Nat]
    BY <2>1
  <2>3. wf' = wf \/ wf' = [wf EXCEPT ![e] = "closed"]
    BY <1>9 DEF UpdateJobMisses
  <2>4. wf' \in [Executions -> {"none", "find", "spawn", "select", "cleanup", "closed"}]
    BY <2>3
  <2>5. UNCHANGED <<resolver, job, link, childVars, cancelVars, mailVars>>
    BY <1>9 DEF UpdateJobMisses
  <2> QED
    BY <2>2, <2>4, <2>5
<1>10. ASSUME NEW e \in Executions, CancelWorkflow(e) PROVE TypeOK'
  BY <1>10 DEF CancelWorkflow
<1>11. ASSUME NEW e \in Executions, CancelUpdate(e) PROVE TypeOK'
  BY <1>11 DEF CancelUpdate
<1>12. ASSUME NEW e \in Executions, NEW s \in Silos, SpawnChild(e, s) PROVE TypeOK'
  <2>1. PICK c \in {"running", "unstarted"} : child' = [child EXCEPT ![e][s] = c]
    BY <1>12 DEF SpawnChild
  <2> QED
    BY <1>12, <2>1 DEF SpawnChild
<1>13. ASSUME NEW e \in Executions, NEW s \in Silos, FutureReady(e, s) PROVE TypeOK'
  BY <1>13 DEF FutureReady, StatusAfter, SuccessAfter
<1>14. ASSUME NEW e \in Executions, NEW s \in Silos, ForwardSignal(e, s) PROVE TypeOK'
  BY <1>14 DEF ForwardSignal
<1>15. ASSUME NEW e \in Executions, NEW s \in Silos, ChildReturns(e, s) PROVE TypeOK'
  BY <1>15 DEF ChildReturns, Returned
<1>16. ASSUME NEW s \in Silos, Signal(s) PROVE TypeOK'
  BY <1>16 DEF Signal
<1>17. CASE UNCHANGED vars
  BY <1>17 DEF vars
<1> QED
  BY <1>1, <1>2, <1>3, <1>4, <1>5, <1>6, <1>7, <1>8, <1>9, <1>10, <1>11, <1>12, <1>13,
     <1>14, <1>15, <1>16, <1>17 DEF Next, Execution, Parent

-----------------------------------------------------------------------------
(* The executions do not touch one another. *)

\* What the invariants say of an execution depends on this.
View(e) == <<wf[e], child[e], counted[e], status[e], hasSuccess[e], job[e],
             resolver[e], canceller[e], e \in cancelled>>

LEMMA Frame ==
  ASSUME TypeOK, [Next]_vars, NEW e \in Executions
  PROVE  Execution(e) \/ UNCHANGED View(e)
<1>1. ASSUME NEW f \in Executions, f # e, Execution(f) PROVE UNCHANGED View(e)
  <2> USE DEF View, TypeOK, At, Goto, childVars, cancelVars, mailVars
  <2>1. CASE StartExecution(f) \/ CommitJob(f) \/ CommitFails(f)
    BY <1>1, <2>1 DEF StartExecution, CommitJob, CommitFails
  <2>2. CASE SilosFound(f) \/ FindFails(f) \/ AllSpawned(f) \/ AllCounted(f)
    BY <1>1, <2>2 DEF SilosFound, FindFails, AllSpawned, AllCounted
  <2>3. CASE UpdateJob(f) \/ UpdateJobMisses(f)
    BY <1>1, <2>3 DEF UpdateJob, UpdateJobMisses
  <2>4. CASE CancelWorkflow(f) \/ CancelUpdate(f)
    BY <1>1, <2>4 DEF CancelWorkflow, CancelUpdate
  <2>5. ASSUME NEW s \in Silos, SpawnChild(f, s) PROVE UNCHANGED View(e)
    BY <1>1, <2>5 DEF SpawnChild
  <2>6. ASSUME NEW s \in Silos, FutureReady(f, s) PROVE UNCHANGED View(e)
    BY <1>1, <2>6 DEF FutureReady
  <2>7. ASSUME NEW s \in Silos, ForwardSignal(f, s) \/ ChildReturns(f, s)
        PROVE  UNCHANGED View(e)
    BY <1>1, <2>7 DEF ForwardSignal, ChildReturns
  <2> QED
    BY <1>1, <2>1, <2>2, <2>3, <2>4, <2>5, <2>6, <2>7 DEF Execution, Parent, Parent
<1>2. ASSUME NEW s \in Silos, Signal(s) PROVE UNCHANGED View(e)
  BY <1>2 DEF Signal, View, childVars, cancelVars
<1>3. CASE UNCHANGED vars
  BY <1>3 DEF vars, View
<1> QED
  BY <1>1, <1>2, <1>3 DEF Next

-----------------------------------------------------------------------------
(* One step of an execution. *)

\* Everything that has returned stays as it is.
LEMMA ReturnedStays ==
  ASSUME TypeOK, NEW e \in Executions, Execution(e), NEW s \in Silos,
         child[e][s] \in Returned
  PROVE  child'[e][s] = child[e][s]
<1>1. ASSUME NEW t \in Silos, NEW c,
             child[e][t] \in {"none", "running"}, child' = [child EXCEPT ![e][t] = c]
      PROVE  child'[e][s] = child[e][s]
  BY <1>1 DEF TypeOK, Returned
<1>2. ASSUME NEW t \in Silos, ChildReturns(e, t) PROVE child'[e][s] = child[e][s]
  <2>1. child[e][t] = "running" /\ \E r \in Returned : child' = [child EXCEPT ![e][t] = r]
    BY <1>2 DEF ChildReturns
  <2>2. PICK r \in Returned : child' = [child EXCEPT ![e][t] = r]
    BY <2>1
  <2>3. t # s
    BY <2>1 DEF Returned
  <2> QED
    BY <2>2, <2>3 DEF TypeOK
<1>3. ASSUME NEW t \in Silos, SpawnChild(e, t) PROVE child'[e][s] = child[e][s]
  BY <1>1, <1>3 DEF SpawnChild
<1>4. ASSUME UNCHANGED child PROVE child'[e][s] = child[e][s]
  BY <1>4
<1> QED
  BY <1>2, <1>3, <1>4
  DEF Execution, Parent, StartExecution, CommitJob, CommitFails, SilosFound, FindFails,
      AllSpawned, AllCounted, UpdateJob, UpdateJobMisses, CancelWorkflow, CancelUpdate,
      FutureReady, ForwardSignal, childVars

\* The parent counts what has returned.
LEMMA CountedStep ==
  ASSUME JobIInv, NEW e \in Executions, Execution(e)
  PROVE  CountedReturned(e)'
<1> USE DEF JobIInv, CountedReturned
<1>1. \A s \in counted[e] : s \in Silos /\ child'[e][s] \in Returned
  BY ReturnedStays DEF TypeOK
<1>2. ASSUME NEW s \in Silos, FutureReady(e, s) PROVE CountedReturned(e)'
  BY <1>1, <1>2 DEF FutureReady, At, TypeOK
<1>3. CASE StartExecution(e) \/ SilosFound(e) \/ FindFails(e)
  BY <1>1, <1>3 DEF StartExecution, SilosFound, FindFails, At, Goto, childVars, EndsCounted,
                    TypeOK
<1>4. ASSUME NEW s \in Silos, SpawnChild(e, s) PROVE CountedReturned(e)'
  BY <1>1, <1>4 DEF SpawnChild, At
<1>5. ASSUME NEW s \in Silos, ChildReturns(e, s) PROVE CountedReturned(e)'
  BY <1>1, <1>5 DEF ChildReturns, TypeOK
<1>6. CASE AllSpawned(e) \/ AllCounted(e) \/ UpdateJob(e) \/ UpdateJobMisses(e)
  BY <1>6 DEF AllSpawned, AllCounted, UpdateJob, UpdateJobMisses, At, Goto, childVars, TypeOK
<1>7. CASE UNCHANGED <<wf, child, counted>>
  BY <1>7
<1> QED
  BY <1>2, <1>3, <1>4, <1>5, <1>6, <1>7
  DEF Execution, Parent, CommitJob, CommitFails, CancelWorkflow, CancelUpdate, ForwardSignal, childVars

\* The two local variables summarise what is counted.
LEMMA FlagsStep ==
  ASSUME JobIInv, NEW e \in Executions, Execution(e)
  PROVE  FlagsSummarise(e)'
<1> USE DEF JobIInv, FlagsSummarise
<1>1. \A s \in counted[e] : s \in Silos /\ child'[e][s] = child[e][s]
  BY ReturnedStays DEF TypeOK, CountedReturned
<1>2. ASSUME NEW s \in Silos, FutureReady(e, s) PROVE FlagsSummarise(e)'
  <2>1. counted'[e] = counted[e] \union {s} /\ child' = child /\ wf' = wf /\ wf[e] = "select"
    BY <1>2 DEF FutureReady, At, TypeOK
  <2>2. status'[e] = StatusAfter(child[e][s], status[e])
    BY <1>2 DEF FutureReady, TypeOK
  <2>3. hasSuccess'[e] = SuccessAfter(child[e][s], hasSuccess[e])
    BY <1>2 DEF FutureReady, TypeOK
  <2>4. hasSuccess'[e] <=> \E x \in counted'[e] : Useful(child'[e][x])
    BY <2>1, <2>3 DEF SuccessAfter, Useful
  <2>5. status'[e] = "COMPLETED" => \A x \in counted'[e] : child'[e][x] = "EXECUTED"
    BY <2>1, <2>2 DEF StatusAfter
  <2>6. status'[e] = "PARTIAL_FAILED" => \E x \in counted'[e] : child'[e][x] # "EXECUTED"
    BY <2>1, <2>2 DEF StatusAfter
  <2>7. status'[e] # "FAILED"
    BY <2>1, <2>2 DEF StatusAfter
  <2> QED
    BY <2>4, <2>5, <2>6, <2>7
<1>3. CASE FindFails(e)
  BY <1>3 DEF FindFails, At, Goto, CountedReturned, TypeOK
<1>4. CASE /\ counted'[e] = counted[e] /\ status'[e] = status[e]
           /\ hasSuccess'[e] = hasSuccess[e]
           /\ wf[e] \in {"cleanup", "closed"} => wf'[e] \in {"cleanup", "closed"}
  BY <1>1, <1>4
<1>5. CASE StartExecution(e) \/ SilosFound(e) \/ AllSpawned(e) \/ AllCounted(e)
  <2>1. status[e] # "FAILED"
    BY <1>5 DEF StartExecution, SilosFound, AllSpawned, AllCounted, At, EndsCounted
  <2> QED
    BY <1>1, <1>5, <2>1 DEF StartExecution, SilosFound, AllSpawned, AllCounted, childVars
<1> QED
  BY <1>2, <1>3, <1>4, <1>5
  DEF Execution, Parent, CommitJob, CommitFails, UpdateJob, UpdateJobMisses, CancelWorkflow,
      CancelUpdate, SpawnChild, ForwardSignal, ChildReturns, childVars, Goto, TypeOK

\* The loop ends when as many futures are counted as there are silos, which is
\* when all silos are.
LEMMA EndsStep ==
  ASSUME JobIInv, NEW e \in Executions, Execution(e)
  PROVE  EndsCounted(e)'
<1> USE DEF JobIInv, EndsCounted, Terminal
<1>1. CASE StartExecution(e) \/ CommitJob(e) \/ CommitFails(e)
  BY <1>1 DEF StartExecution, CommitJob, CommitFails, childVars, cancelVars, TypeOK
<1>2. CASE SilosFound(e) \/ AllSpawned(e)
  BY <1>2 DEF SilosFound, AllSpawned, At, Goto, childVars, cancelVars, TypeOK
<1>3. CASE FindFails(e)
  BY <1>3 DEF FindFails, At, Goto, CountedReturned, cancelVars, TypeOK
<1>4. CASE AllCounted(e)
  <2>1. counted[e] = Silos
    <3>1. counted[e] \in SUBSET Silos /\ Cardinality(counted[e]) = Cardinality(Silos)
      BY <1>4 DEF AllCounted, TypeOK
    <3> QED
      BY <3>1, FS_Subset
  <2> QED
    BY <1>4, <2>1 DEF AllCounted, At, Goto, childVars, cancelVars, TypeOK
<1>5. CASE UpdateJob(e)
  BY <1>5 DEF UpdateJob, At, Goto, childVars, cancelVars, TypeOK
<1>6. CASE UpdateJobMisses(e)
  BY <1>6 DEF UpdateJobMisses, At, Goto, childVars, cancelVars, TypeOK
<1>7. CASE CancelWorkflow(e)
  BY <1>7 DEF CancelWorkflow, childVars, TypeOK
<1>8. CASE CancelUpdate(e)
  BY <1>8 DEF CancelUpdate, childVars, TypeOK
<1>9. ASSUME NEW s \in Silos, SpawnChild(e, s) PROVE EndsCounted(e)'
  BY <1>9 DEF SpawnChild, At, cancelVars
<1>10. ASSUME NEW s \in Silos, FutureReady(e, s) PROVE EndsCounted(e)'
  BY <1>10 DEF FutureReady, At, cancelVars
<1>11. ASSUME NEW s \in Silos, ForwardSignal(e, s) PROVE EndsCounted(e)'
  BY <1>11 DEF ForwardSignal, childVars, cancelVars
<1>12. ASSUME NEW s \in Silos, ChildReturns(e, s) PROVE EndsCounted(e)'
  <2>1. wf[e] \in {"cleanup", "closed"} => FALSE
    BY <1>12 DEF ChildReturns, NoOrphan
  <2> QED
    BY <1>12, <2>1 DEF ChildReturns, cancelVars
<1> QED
  BY <1>1, <1>2, <1>3, <1>4, <1>5, <1>6, <1>7, <1>8, <1>9, <1>10, <1>11, <1>12 DEF Execution, Parent, Parent

\* By then none of the children is running, and none is started any more.
LEMMA OrphanStep ==
  ASSUME NEW e \in Executions, CountedReturned(e)', EndsCounted(e)'
  PROVE  NoOrphan(e)'
BY DEF NoOrphan, EndsCounted, CountedReturned, Returned

\* The job row is written by the parent, from the flags, and by a cancellation.
LEMMA SoundStep ==
  ASSUME JobIInv, NEW e \in Executions, Execution(e)
  PROVE  SoundJob(e)'
<1> USE DEF JobIInv, SoundJob
<1>1. CASE UpdateJob(e)
  <2>1. job'[e] = FinalStatus(status[e], hasSuccess[e]) /\ UNCHANGED <<child, cancelled>>
    BY <1>1 DEF UpdateJob, childVars, cancelVars, TypeOK
  <2>2. CASE counted[e] = Silos
    BY <2>1, <2>2 DEF FinalStatus, FlagsSummarise, TypeOK, Terminal
  <2>3. CASE status[e] = "FAILED" /\ \A s \in Silos : child[e][s] = "none"
    BY <2>1, <2>3 DEF FinalStatus, Useful
  <2> QED
    BY <1>1, <2>2, <2>3 DEF UpdateJob, At, EndsCounted
<1>2. CASE CommitJob(e)
  BY <1>2 DEF CommitJob, childVars, cancelVars, TypeOK
<1>3. CASE CancelWorkflow(e)
  BY <1>3 DEF CancelWorkflow, childVars, TypeOK
<1>4. CASE CancelUpdate(e)
  BY <1>4 DEF CancelUpdate, EndsCounted, childVars, TypeOK
<1>5. ASSUME NEW s \in Silos, SpawnChild(e, s) \/ ChildReturns(e, s) PROVE SoundJob(e)'
  <2>1. wf[e] \notin {"cleanup", "closed"}
    BY <1>5 DEF SpawnChild, ChildReturns, At, NoOrphan
  <2>2. job[e] \in Terminal => job[e] = "FAILED" /\ e \in cancelled
    BY <2>1 DEF EndsCounted
  <2> QED
    BY <1>5, <2>2 DEF SpawnChild, ChildReturns, cancelVars, Terminal
<1>6. CASE UNCHANGED <<job, child, cancelled>>
  BY <1>6
<1> QED
  BY <1>1, <1>2, <1>3, <1>4, <1>5, <1>6
  DEF Execution, Parent, StartExecution, CommitFails, SilosFound, FindFails, AllSpawned, AllCounted,
      UpdateJobMisses, FutureReady, ForwardSignal, childVars, cancelVars

-----------------------------------------------------------------------------
(* The theorems. *)

\* The inductive invariant holds in every execution of the system.
THEOREM JobInvariance == Spec => []JobIInv
<1>1. ASSUME JobIInv, [Next]_vars, NEW e \in Executions
      PROVE  /\ SoundJob(e)' /\ NoOrphan(e)' /\ CountedReturned(e)'
             /\ FlagsSummarise(e)' /\ EndsCounted(e)'
  <2>1. CASE Execution(e)
    BY <1>1, <2>1, SoundStep, OrphanStep, CountedStep, FlagsStep, EndsStep
  <2>2. CASE UNCHANGED View(e)
    BY <1>1, <2>2 DEF View, JobIInv, SoundJob, NoOrphan, CountedReturned, FlagsSummarise,
                      EndsCounted
  <2> QED
    BY <1>1, <2>1, <2>2, Frame DEF JobIInv
<1>2. JobIInv /\ [Next]_vars => JobIInv'
  BY <1>1, JobType DEF JobIInv
<1> QED
  BY <1>2, InitJob, PTL DEF Spec

\* The variables keep their types: at most two attempts at the job, and no CancelJob call or
\* mark beyond the bounds.
THEOREM JobTypes == Spec => []TypeOK
<1>1. JobIInv => TypeOK
  BY DEF JobIInv
<1> QED
  BY <1>1, JobInvariance, PTL

\* The status in the job row is what the children did, for any number of silos,
\* executions, cancellations and failures.
THEOREM JobCorrect == Spec => []JobSound
<1>1. JobIInv => JobSound
  BY DEF JobIInv, JobSound
<1> QED
  BY <1>1, JobInvariance, PTL

\* No parent closes while a child that it started is at work.
THEOREM NoOrphans == Spec => []NoneOrphaned
<1>1. JobIInv => NoneOrphaned
  BY DEF JobIInv, NoneOrphaned
<1> QED
  BY <1>1, JobInvariance, PTL

-----------------------------------------------------------------------------
(* The children at work. *)

\* A step of a child is one of RequestJob, or none.
LEMMA SystemStep ==
  ASSUME TypeOK, [SystemNext]_systemVars
  PROVE  [Next]_vars
<1>1. ASSUME NEW e \in Executions, NEW s \in Silos, ChildWorks(e, s) PROVE [Next]_vars
  <2>1. PICK c \in Returned \cup {"running"} :
          /\ c = "lost" => "child" \in Faults \/ e \in cancelled
          /\ child' = [child EXCEPT ![e][s] = c]
    BY <1>1 DEF ChildWorks
  <2>2. CASE c \in Returned
    BY <1>1, <2>1, <2>2 DEF ChildWorks, ChildReturns, Execution, Next
  <2>3. CASE c = "running"
    <3>1. child' = child
      BY <1>1, <2>1, <2>3 DEF ChildWorks, TypeOK
    <3> QED
      BY <1>1, <3>1 DEF ChildWorks, vars, cancelVars, mailVars
  <2> QED
    BY <2>1, <2>2, <2>3
<1>2. ASSUME NEW e \in Executions, Parent(e) PROVE [Next]_vars
  BY <1>2 DEF Next, Execution
<1> QED
  BY <1>1, <1>2 DEF SystemNext, systemVars, Next

\* What the children have settled has its type, and is what they have returned.
Settled(e, s) == verdict[e][s] \in [SourcesOf[s] -> Verdicts] /\ SummaryTrue(e, s)

SystemIInv ==
  /\ DOMAIN verdict = Executions
  /\ \A e \in Executions : DOMAIN verdict[e] = Silos
  /\ \A e \in Executions, s \in Silos : Settled(e, s)

\* What a running child does is true of its data sources when it returns.
LEMMA WorkStep ==
  ASSUME TypeOK, SystemIInv, NEW e \in Executions, NEW s \in Silos, ChildWorks(e, s)
  PROVE  Settled(e, s)'
<1>1. PICK v \in Further(e, s), c \in Returned \cup {"running"} :
        /\ verdict' = [verdict EXCEPT ![e][s] = v]
        /\ child' = [child EXCEPT ![e][s] = c]
        /\ Promise(e, s)!PromiseNext
  BY DEF ChildWorks
<1>2. verdict'[e][s] = v /\ v \in [SourcesOf[s] -> Verdicts]
  BY <1>1 DEF SystemIInv, Further
<1>3. child'[e][s] = c /\ child[e][s] = "running"
  BY <1>1 DEF TypeOK, ChildWorks
<1>4. Outcome(child[e][s])' = Outcome(c) /\ verdict[e][s]' = v
  BY <1>2, <1>3 DEF Outcome, Returned
<1>5. c \in {"running", "lost"} \/ c \in {"EXECUTED", "PARTIAL_FAILED", "FAILED"}
  BY DEF Returned
<1>6. CASE c \in {"running", "lost"}
  BY <1>2, <1>3, <1>6 DEF Settled, SummaryTrue
<1>7. CASE c \in {"EXECUTED", "PARTIAL_FAILED", "FAILED"}
  <2>1. Outcome(c) = c
    BY <1>7 DEF Outcome, Returned
  <2>2. \/ ~ Promise(e, s)!SomeWith(v, "open") /\ c = Promise(e, s)!Summary(v)
        \/ (\A d \in SourcesOf[s] : v[d] \in {"bad", "skipped"}) /\ c = "FAILED"
    <3>1. c # "none" /\ c # "lost" /\ Outcome(child[e][s])' = c
      BY <1>4, <1>7, <2>1
    <3>2. ASSUME NEW d \in SourcesOf[s], Promise(e, s)!Settle(d)
          PROVE  ~ Promise(e, s)!SomeWith(v, "open") /\ c = Promise(e, s)!Summary(v)
      BY <1>4, <3>1, <3>2, Zenon DEF Promise!Settle
    <3>3. ASSUME NEW S \in SUBSET SourcesOf[s], Promise(e, s)!Skip(S) PROVE FALSE
      BY <3>1, <3>3 DEF Promise!Skip
    <3>4. ASSUME Promise(e, s)!Return
          PROVE  ~ Promise(e, s)!SomeWith(v, "open") /\ c = Promise(e, s)!Summary(v)
      BY <1>4, <3>1, <3>4 DEF Promise!Return
    <3>5. ASSUME NEW S \in SUBSET SourcesOf[s], Promise(e, s)!FailWhole(S)
          PROVE  (\A d \in SourcesOf[s] : v[d] \in {"bad", "skipped"}) /\ c = "FAILED"
      BY <1>4, <3>1, <3>5 DEF Promise!FailWhole
    <3>6. ASSUME Promise(e, s)!LoseResult PROVE FALSE
      BY <3>1, <3>6 DEF Promise!LoseResult
    <3> QED
      BY <1>1, <3>2, <3>3, <3>4, <3>5, <3>6, Zenon DEF Promise!PromiseNext
  <2> QED
    BY <1>2, <1>3, <1>7, <2>2
    DEF Settled, SummaryTrue, All, Verdicts, Promise!SomeWith, Promise!Summary
<1> QED
  BY <1>5, <1>6, <1>7

LEMMA SystemInvStep ==
  ASSUME TypeOK, SystemIInv, [SystemNext]_systemVars
  PROVE  SystemIInv'
<1>1. ASSUME NEW e \in Executions, NEW s \in Silos, ChildWorks(e, s) PROVE SystemIInv'
  <2>1. PICK v \in Further(e, s), c \in Returned \cup {"running"} :
          /\ verdict' = [verdict EXCEPT ![e][s] = v]
          /\ child' = [child EXCEPT ![e][s] = c]
    BY <1>1 DEF ChildWorks
  <2>2. DOMAIN verdict' = Executions /\ \A f \in Executions : DOMAIN verdict'[f] = Silos
    BY <2>1 DEF SystemIInv
  <2>3. ASSUME NEW f \in Executions, NEW t \in Silos PROVE Settled(f, t)'
    <3>1. CASE f = e /\ t = s
      BY <1>1, <3>1, WorkStep
    <3>2. CASE f # e \/ t # s
      <4>1. verdict'[f][t] = verdict[f][t] /\ child'[f][t] = child[f][t]
        BY <2>1, <3>2 DEF SystemIInv, TypeOK
      <4>2. Settled(f, t)
        BY DEF SystemIInv
      <4> QED
        BY <4>1, <4>2 DEF Settled, SummaryTrue, All
    <3> QED
      BY <3>1, <3>2
  <2> QED
    BY <2>2, <2>3 DEF SystemIInv
<1>2. ASSUME UNCHANGED verdict,
             \A e \in Executions, s \in Silos :
               \/ child'[e][s] = child[e][s]
               \/ child[e][s] = "none" /\ child'[e][s] \in {"running", "unstarted"}
      PROVE  SystemIInv'
  <2>1. ASSUME NEW e \in Executions, NEW s \in Silos PROVE Settled(e, s)'
    <3>1. Settled(e, s)
      BY DEF SystemIInv
    <3>2. CASE child'[e][s] = child[e][s]
      BY <1>2, <3>1, <3>2 DEF Settled, SummaryTrue, All
    <3>3. CASE child[e][s] = "none" /\ child'[e][s] \in {"running", "unstarted"}
      BY <1>2, <3>1, <3>3 DEF Settled, SummaryTrue, All
    <3> QED
      BY <1>2, <3>2, <3>3
  <2> QED
    BY <1>2, <2>1 DEF SystemIInv
<1>3. ASSUME NEW e \in Executions, Parent(e), UNCHANGED verdict PROVE SystemIInv'
  <2>1. CASE UNCHANGED child
    BY <1>2, <1>3, <2>1
  <2>2. ASSUME NEW s \in Silos, SpawnChild(e, s) PROVE SystemIInv'
    <3>1. PICK c \in {"running", "unstarted"} : child' = [child EXCEPT ![e][s] = c]
      BY <2>2 DEF SpawnChild
    <3>2. child[e][s] = "none"
      BY <2>2 DEF SpawnChild
    <3>3. \A f \in Executions, t \in Silos :
            child'[f][t] = IF f = e /\ t = s THEN c ELSE child[f][t]
      BY <3>1 DEF TypeOK
    <3> QED
      BY <1>2, <1>3, <3>2, <3>3
  <2> QED
    BY <1>3, <2>1, <2>2
    DEF Parent, StartExecution, CommitJob, CommitFails, SilosFound, FindFails, AllSpawned,
        AllCounted, UpdateJob, UpdateJobMisses, CancelWorkflow, CancelUpdate, FutureReady,
        ForwardSignal, childVars
<1>4. ASSUME NEW s \in Silos, Signal(s), UNCHANGED verdict PROVE SystemIInv'
  BY <1>2, <1>4 DEF Signal, childVars
<1>5. CASE UNCHANGED systemVars
  BY <1>2, <1>5 DEF systemVars, vars
<1> QED
  BY <1>1, <1>3, <1>4, <1>5 DEF SystemNext

\* A system whose children keep their promises implements RequestJob: what is proved of the
\* one holds in the other.
THEOREM SystemImplementsJob == SystemSpec => Spec
<1>1. SystemInit => Init /\ TypeOK
  BY InitJob DEF SystemInit, JobIInv
<1>2. TypeOK /\ [SystemNext]_systemVars => TypeOK' /\ [Next]_vars
  BY SystemStep, JobType
<1> QED
  BY <1>1, <1>2, PTL DEF SystemSpec, Spec

LEMMA SystemInvariance == SystemSpec => []SystemIInv
<1>1. SystemInit => SystemIInv
  BY DEF SystemInit, Init, SystemIInv, Settled, SummaryTrue, All, Verdicts
<1>2. TypeOK /\ SystemIInv /\ [SystemNext]_systemVars => SystemIInv'
  BY SystemInvStep
<1> QED
  BY <1>1, <1>2, SystemImplementsJob, JobTypes, PTL DEF SystemSpec

\* The status of a job is true of each data source of each silo, for any number of them, of
\* executions and of failures, and in whatever order the children work.
THEOREM JobsTellVerdicts == SystemSpec => []JobTellsVerdicts
<1>1. ASSUME JobIInv, SystemIInv, NEW e \in Executions PROVE TellsVerdicts(e)
  <2>1. /\ SoundJob(e) /\ NoOrphan(e) /\ CountedReturned(e) /\ FlagsSummarise(e)
        /\ EndsCounted(e) /\ TypeOK
    BY <1>1 DEF JobIInv
  <2>2. \A s \in Silos : child[e][s] \in Child /\ SummaryTrue(e, s)
    BY <1>1, <2>1 DEF TypeOK, SystemIInv, Settled
  <2>3. ASSUME job[e] = "COMPLETED" PROVE \A s \in Silos : Done(e, s)
    BY <2>1, <2>2, <2>3 DEF SoundJob, SummaryTrue, Done
  <2>4. ASSUME job[e] = "PARTIAL_FAILED"
        PROVE  /\ \E s \in Silos : child[e][s] \in {"lost", "FAILED"} \/ ~ Done(e, s)
               /\ \E s \in Silos : Done(e, s) \/ ~ All(e, s, {"bad", "skipped"})
    <3>1. PICK s \in Silos : Useful(child[e][s])
      BY <2>1, <2>4 DEF SoundJob
    <3>2. PICK t \in Silos : child[e][t] # "EXECUTED"
      BY <2>1, <2>4 DEF SoundJob
    <3>3. child[e][t] \in Returned
      <4>1. wf[e] = "closed"
        BY <2>1, <2>4 DEF EndsCounted, Terminal
      <4>2. counted[e] = Silos
        BY <2>1, <3>1, <4>1 DEF EndsCounted, Useful
      <4> QED
        BY <2>1, <4>2 DEF CountedReturned
    <3>4. child[e][t] \in {"lost", "FAILED"} \/ ~ Done(e, t)
      BY <2>2, <3>2, <3>3 DEF Returned, SummaryTrue, Done
    <3>5. Done(e, s) \/ ~ All(e, s, {"bad", "skipped"})
      BY <2>2, <3>1 DEF Useful, SummaryTrue, Done
    <3> QED
      BY <3>4, <3>5
  <2>5. ASSUME job[e] = "FAILED", e \notin cancelled, NEW s \in Silos
        PROVE  child[e][s] = "lost" \/ All(e, s, {"open", "bad", "skipped"})
    <3>1. wf[e] = "closed"
      BY <2>1, <2>5 DEF EndsCounted, Terminal
    <3>2. child[e][s] \in {"none", "unstarted", "lost", "FAILED"}
      BY <2>1, <2>2, <2>5, <3>1 DEF SoundJob, NoOrphan, Useful, Child
    <3> QED
      BY <2>2, <3>2 DEF SummaryTrue, All
  <2> QED
    BY <2>3, <2>4, <2>5 DEF TellsVerdicts
<1>2. JobIInv /\ SystemIInv => JobTellsVerdicts
  BY <1>1 DEF JobTellsVerdicts
<1> QED
  BY <1>2, SystemImplementsJob, JobInvariance, SystemInvariance, PTL
=============================================================================
