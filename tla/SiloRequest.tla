---------------------------- MODULE SiloRequest ----------------------------
(***************************************************************************)
(* The execution of a user data request on one silo:                       *)
(* ExecuteSiloRequestWorkflow, the activities it calls, the                *)
(* request_statuses rows these read and write, the user who marks a row    *)
(* by hand (UpdateRequestStatus), the signal that carries the mark to the  *)
(* workflow, and the exports that run at the silo meanwhile.               *)
(*                                                                         *)
(* An activity takes the time between two steps: it reads the rows when an *)
(* attempt begins (variable read) and the workflow acts on what was read   *)
(* when it returns.  Between the two the user, the silo and a deletion may *)
(* move.  Updates of a row are single UPDATE statements.                   *)
(***************************************************************************)
EXTENDS Naturals, Sequences, FiniteSets

CONSTANTS
  DataSources,    \* the data sources of the silo that have a row for the request
  Manual,         \* SiloSpecification.Manual: a person does the work
  Faults,         \* the activities whose every attempt may fail
  MaxMarks,       \* bound: how often users call UpdateRequestStatus
  MaxDeletions    \* bound: how many data sources users delete meanwhile

\* "start", "status", "process", "update" are the activities; "connector" is a
\* connector that gives no usable status for a data source.
FaultKinds == {"start", "status", "process", "update", "connector"}

ASSUME SiloAssumption ==
  /\ IsFiniteSet(DataSources)
  /\ Manual \in BOOLEAN
  /\ Faults \subseteq FaultKinds
  /\ MaxMarks \in Nat
  /\ MaxDeletions \in Nat

VARIABLES
  row,          \* status column of the request_statuses rows
  deleted,      \* data sources with deleted_at set
  remote,       \* the export or deletion job behind each stored request handle
  pc,           \* where the workflow is
  read,         \* what the running activity attempt has read from the database
  item,         \* the list processing: items not yet handled in this round
  kept,         \* the list newProcessing
  extract,      \* the list resultExtractData
  hasFailures,
  res,          \* requestRes.Status
  verdict,      \* history: how the workflow has settled each data source
  signals,      \* signals buffered for the workflow, oldest first
  inflight,     \* marks whose signal is still on its way through the parent
  marks         \* how many marks users have made

wfVars   == <<item, kept, extract, hasFailures, res, verdict>>
userVars == <<inflight, marks, deleted>>
vars     == <<row, deleted, remote, pc, read, item, kept, extract, hasFailures,
              res, verdict, signals, inflight, marks>>

RowStatus == {"CREATED", "MANUAL_NEEDED", "EXECUTED", "FAILED"}
Remote    == {"idle", "running", "ready", "failed"}
Pc        == {"start", "starting", "failAll", "loop", "process", "wait",
              "refreshing", "polling", "done", "error", "stopped"}
\* A RequestStatusItem, by the branch of the workflow it takes; after
\* ProcessRequestResults, "extracted" and "unextracted" are its result items.
Item      == {"none", "error", "complete", "manual", "COMPLETE", "FAILED",
              "PROGRESS", "extracted", "unextracted"}
Verdict   == {"open", "ok", "bad", "skipped"}
NoRead    == [executed |-> {}, gone |-> {}]
Closed    == {"done", "error", "stopped"}

Init ==
  /\ row \in [DataSources -> IF Manual THEN RowStatus ELSE RowStatus \ {"MANUAL_NEEDED"}]
  /\ deleted = {}
  /\ remote = [d \in DataSources |-> "idle"]
  /\ pc = "start"
  /\ read = NoRead
  /\ item = [d \in DataSources |-> "none"]
  /\ kept = {}
  /\ extract = {}
  /\ hasFailures = FALSE
  /\ res = "FAILED"
  /\ verdict = [d \in DataSources |-> "open"]
  /\ signals = <<>>
  /\ inflight = [d \in DataSources |-> 0]
  /\ marks = 0

-----------------------------------------------------------------------------
(* Helpers of the workflow. *)

\* What an attempt that begins now reads.
Now == [executed |-> {d \in DataSources : row[d] = "EXECUTED"}, gone |-> deleted]

\* Mutant: the update is not awaited, so that it may be lost at any time.
UpdateUnawaited(d, s) == row' = [row EXCEPT ![d] = s] \/ UNCHANGED row

\* updateRequest: one UPDATE, or none when every attempt of it failed (the
\* workflow only logs that).
Update(d, s) ==
  \/ row' = [row EXCEPT ![d] = s]
  \/ "update" \in Faults /\ UNCHANGED row

Settled(d, v) == verdict' = [verdict EXCEPT ![d] = v]

\* Mutant: a success does not raise the partial result.
SucceededSilently(d) ==
  /\ Settled(d, "ok")
  /\ UNCHANGED <<res, hasFailures>>

\* A success: the whole request is, at worst, partially failed.
Succeeded(d) ==
  /\ res' = "PARTIAL_FAILED"
  /\ Settled(d, "ok")
  /\ UNCHANGED hasFailures

FailedAt(d) ==
  /\ hasFailures' = TRUE
  /\ Settled(d, "bad")
  /\ UNCHANGED res

\* Mutant: a request without failures is not promoted to EXECUTED.
FinalResultAsIs(failures, r) == r

\* The end of the loop, when nothing is left to wait for.
FinalResult(failures, r) == IF failures THEN r ELSE "EXECUTED"

-----------------------------------------------------------------------------
(* StartSiloRequestActivity *)

\* Mutant: rows that an earlier execution completed are run again.
StartItemsAgain(d) ==
  IF d \in read.gone THEN {"none"}
  ELSE IF Manual THEN {"manual"}
  ELSE {"error", "complete", "COMPLETE", "FAILED", "PROGRESS"}

\* The items the activity can return for d, from what its attempt has read: a
\* manual silo waits for a person, an executed row or a data source without an
\* identifier needs no run, and the connector answers for the others.
StartItems(d) ==
  IF d \in read.gone THEN {"none"}
  ELSE IF d \in read.executed THEN {"complete"}
  ELSE IF Manual THEN {"manual"}
  ELSE {"error", "complete", "COMPLETE", "FAILED", "PROGRESS"}

\* The job behind the handle that is stored with an item.
JobOf(i, old) ==
  CASE i = "PROGRESS" -> "running"
    [] i = "COMPLETE" -> "ready"
    [] i = "FAILED"   -> "failed"
    [] OTHER          -> old

StartAttempt ==
  /\ pc = "start"
  /\ pc' = "starting"
  /\ read' = Now
  /\ UNCHANGED <<row, remote, wfVars, signals, userVars>>

StartReturn ==
  /\ pc = "starting"
  /\ pc' = "loop"
  /\ item' \in [DataSources -> Item]
  /\ \A d \in DataSources : item'[d] \in StartItems(d)
  /\ remote' = [d \in DataSources |-> JobOf(item'[d], remote[d])]
  /\ verdict' = [d \in DataSources |-> IF d \in read.gone THEN "skipped" ELSE verdict[d]]
  /\ read' = NoRead
  /\ UNCHANGED <<row, kept, extract, hasFailures, res, signals, userVars>>

\* All attempts failed: a connector that cannot be run or exits with an error,
\* or a request without a value for one of the identifiers of the silo.
StartFail ==
  /\ "start" \in Faults
  /\ pc = "starting"
  /\ pc' = "failAll"
  /\ read' = NoRead
  /\ UNCHANGED <<row, remote, wfVars, signals, userVars>>

\* BatchUpdateRequestStatusActivity: the rows of all data sources of the silo
\* that are not deleted, whatever their status.
FailAll ==
  /\ pc = "failAll"
  /\ pc' = "done"
  /\ row' = [d \in DataSources |-> IF d \in deleted THEN row[d] ELSE "FAILED"]
  /\ verdict' = [d \in DataSources |-> IF d \in deleted THEN "skipped" ELSE "bad"]
  /\ UNCHANGED <<remote, read, item, kept, extract, hasFailures, res,
                 signals, userVars>>

FailAllFails ==
  /\ "update" \in Faults
  /\ pc = "failAll"
  /\ pc' = "error"
  /\ UNCHANGED <<row, remote, read, wfVars, signals, userVars>>

\* An attempt of an activity that reads rows fails and the next one reads anew.
Retry ==
  /\ \/ pc = "starting" /\ "start" \in Faults
     \/ pc \in {"refreshing", "polling"} /\ "status" \in Faults
  /\ read' = Now
  /\ UNCHANGED <<row, remote, pc, wfVars, signals, userVars>>

-----------------------------------------------------------------------------
(* One round of the main loop: the items are handled one after the other,  *)
(* in no fixed order (the start activity ranges over a map).               *)

Handle(d) ==
  /\ pc = "loop"
  /\ item' = [item EXCEPT ![d] = "none"]
  /\ UNCHANGED <<deleted, remote, pc, read, signals, inflight, marks>>

\* An item with an error, a request that the silo reports as failed, or
\* results that could not be extracted.
HandleFailed(d) ==
  /\ item[d] \in {"error", "FAILED", "unextracted"}
  /\ Handle(d)
  /\ Update(d, "FAILED")
  /\ FailedAt(d)
  /\ UNCHANGED <<kept, extract>>

\* FullyComplete, or results extracted.
HandleComplete(d) ==
  /\ item[d] \in {"complete", "extracted"}
  /\ Handle(d)
  /\ Update(d, "EXECUTED")
  /\ Succeeded(d)
  /\ UNCHANGED <<kept, extract>>

HandleManual(d) ==
  /\ item[d] = "manual"
  /\ Handle(d)
  /\ Update(d, "MANUAL_NEEDED")
  /\ kept' = kept \union {d}
  /\ UNCHANGED <<extract, hasFailures, res, verdict>>

HandleReady(d) ==
  /\ item[d] = "COMPLETE"
  /\ Handle(d)
  /\ extract' = extract \union {d}
  /\ UNCHANGED <<row, kept, hasFailures, res, verdict>>

\* Mutant: a request in progress is not kept.
HandleProgressDropped(d) ==
  /\ item[d] = "PROGRESS"
  /\ Handle(d)
  /\ UNCHANGED <<row, kept, extract, hasFailures, res, verdict>>

HandleProgress(d) ==
  /\ item[d] = "PROGRESS"
  /\ Handle(d)
  /\ kept' = kept \union {d}
  /\ UNCHANGED <<row, extract, hasFailures, res, verdict>>

\* The end of a round: extract what is complete, else wait for what is kept,
\* else return.
EndRound ==
  /\ pc = "loop"
  /\ \A d \in DataSources : item[d] = "none"
  /\ \/ /\ extract # {}
        /\ pc' = "process"
        /\ UNCHANGED res
     \/ /\ extract = {} /\ kept # {}
        /\ pc' = "wait"
        /\ UNCHANGED res
     \/ /\ extract = {} /\ kept = {}
        /\ pc' = "done"
        /\ res' = FinalResult(hasFailures, res)
  /\ UNCHANGED <<row, remote, read, item, kept, extract, hasFailures, verdict,
                 signals, userVars>>

\* ProcessRequestResults: all the given data sources fail when the activity
\* does (a failure of the container), or when one of them has been deleted
\* since, for then the rows no longer belong to one silo; otherwise single ones
\* may fail.
Unextracted ==
  IF extract \intersect deleted # {} THEN {extract}
  ELSE IF "process" \in Faults       THEN SUBSET extract
  ELSE {{}}

ProcessReturn ==
  /\ pc = "process"
  /\ \E failed \in Unextracted :
       item' = [d \in DataSources |->
                  IF d \in failed THEN "unextracted"
                  ELSE IF d \in extract THEN "extracted" ELSE "none"]
  /\ extract' = {}
  /\ pc' = "loop"
  /\ UNCHANGED <<row, remote, read, kept, hasFailures, res, verdict, signals, userVars>>

-----------------------------------------------------------------------------
(* Waiting: signals first, then the hourly timer (the selector takes the   *)
(* receive case whenever a signal is buffered).                            *)

\* Mutant: the status of the row is not looked at.
StatusItemsBlind(d) ==
  IF d \in read.gone THEN {"error"}
  ELSE IF Manual     THEN {"manual"}
  ELSE {"COMPLETE", "FAILED", "PROGRESS"}

\* What RequestStatusActivity returns for d.  An executed row needs no call; a
\* deleted data source has lost its silo definition; the connector reports on
\* the job behind the handle.
StatusItems(d) ==
  IF d \in read.executed  THEN {"complete"}
  ELSE IF d \in read.gone THEN {"error"}
  ELSE IF Manual          THEN {"manual"}
  ELSE (CASE remote[d] = "ready"  -> {"COMPLETE"}
          [] remote[d] = "failed" -> {"FAILED"}
          [] OTHER                -> {"PROGRESS"})
       \union (IF "connector" \in Faults THEN {"error"} ELSE {})

\* A signal about a data source that is not waited for is dropped.
IgnoreSignal ==
  /\ pc = "wait"
  /\ signals # <<>>
  /\ Head(signals) \notin kept
  /\ signals' = Tail(signals)
  /\ UNCHANGED <<row, remote, pc, read, wfVars, userVars>>

\* The signal stays at the head while its data source is looked up.
ReceiveSignal ==
  /\ pc = "wait"
  /\ signals # <<>>
  /\ Head(signals) \in kept
  /\ pc' = "refreshing"
  /\ read' = Now
  /\ UNCHANGED <<row, remote, wfVars, signals, userVars>>

\* The workflow goes on waiting unless nothing is left; K is what it still
\* waits for, f and r its flags.
WaitFor(K, f, r) ==
  /\ kept' = K
  /\ pc' = IF K = {} THEN "done" ELSE "wait"
  /\ res' = IF K = {} THEN FinalResult(f, r) ELSE r
  /\ hasFailures' = f

\* Mutant: a mark as executed does not raise the partial result.
RefreshOfSilent(d, i) ==
  \/ /\ i = "error"
     /\ Update(d, "FAILED")
     /\ Settled(d, "bad")
     /\ WaitFor(kept \ {d}, TRUE, res)
  \/ /\ i = "complete"
     /\ Update(d, "EXECUTED")
     /\ Settled(d, "ok")
     /\ WaitFor(kept \ {d}, hasFailures, res)
  \/ /\ i \notin {"error", "complete"}
     /\ WaitFor(kept, hasFailures, res)
     /\ UNCHANGED <<row, verdict>>

\* What the workflow does with the item that it is given for d.
RefreshOf(d, i) ==
  \/ /\ i = "error"
     /\ Update(d, "FAILED")
     /\ Settled(d, "bad")
     /\ WaitFor(kept \ {d}, TRUE, res)
  \/ /\ i = "complete"
     /\ Update(d, "EXECUTED")
     /\ Settled(d, "ok")
     /\ WaitFor(kept \ {d}, hasFailures, "PARTIAL_FAILED")
  \/ /\ i \notin {"error", "complete"}
     /\ WaitFor(kept, hasFailures, res)
     /\ UNCHANGED <<row, verdict>>

RefreshReturn ==
  /\ pc = "refreshing"
  /\ signals' = Tail(signals)
  /\ read' = NoRead
  /\ LET d == Head(signals) IN \E i \in StatusItems(d) : RefreshOf(d, i)
  /\ UNCHANGED <<remote, item, extract, userVars>>

\* Mutant: the selector is given the timer only while a signal is buffered.
TimerFiresWithSignal ==
  /\ pc = "wait"
  /\ signals # <<>>
  /\ pc' = "polling"
  /\ read' = Now
  /\ UNCHANGED <<row, remote, wfVars, signals, userVars>>

TimerFires ==
  /\ pc = "wait"
  /\ signals = <<>>
  /\ pc' = "polling"
  /\ read' = Now
  /\ UNCHANGED <<row, remote, wfVars, signals, userVars>>

\* The query of the poll is "id = ?" with the list of ids: it can be answered
\* only when the list has one element.
PollReturn ==
  /\ pc = "polling"
  /\ Cardinality(kept) = 1
  /\ pc' = "loop"
  /\ item' \in [DataSources -> Item]
  /\ \A d \in DataSources :
       item'[d] \in (IF d \in kept THEN StatusItems(d) ELSE {"none"})
  /\ kept' = {}
  /\ read' = NoRead
  /\ UNCHANGED <<row, remote, extract, hasFailures, res, verdict, signals, userVars>>

\* Every attempt of the status activity failed: the workflow gives up.
StatusFails ==
  /\ \/ pc = "polling" /\ Cardinality(kept) > 1
     \/ pc \in {"polling", "refreshing"} /\ "status" \in Faults
  /\ pc' = "error"
  /\ read' = NoRead
  /\ UNCHANGED <<row, remote, wfVars, signals, userVars>>

-----------------------------------------------------------------------------
(* The environment. *)

\* The silo finishes a job.
JobEnds(d) ==
  /\ remote[d] = "running"
  /\ \E r \in {"ready", "failed"} : remote' = [remote EXCEPT ![d] = r]
  /\ UNCHANGED <<row, pc, read, wfVars, signals, userVars>>

\* UpdateRequestStatus: the row first, then the signal to the parent workflow
\* (which cannot be forwarded when the data source is deleted).
Mark(d, s) ==
  /\ marks < MaxMarks
  /\ marks' = marks + 1
  /\ row' = [row EXCEPT ![d] = s]
  /\ inflight' = IF d \in deleted THEN inflight
                 ELSE [inflight EXCEPT ![d] = @ + 1]
  /\ UNCHANGED <<deleted, remote, pc, read, wfVars, signals>>

\* Mutant: a signal is forwarded that nobody sent.
ForwardUnsent(d) ==
  /\ inflight' = [inflight EXCEPT ![d] = @ - 1]
  /\ signals' = IF pc \in Closed THEN signals ELSE Append(signals, d)
  /\ UNCHANGED <<row, deleted, remote, pc, read, wfVars, marks>>

\* The parent forwards the signal to this workflow.
Forward(d) ==
  /\ inflight[d] > 0
  /\ inflight' = [inflight EXCEPT ![d] = @ - 1]
  /\ signals' = IF pc \in Closed THEN signals ELSE Append(signals, d)
  /\ UNCHANGED <<row, deleted, remote, pc, read, wfVars, marks>>

\* A signal that never arrives: the job row did not exist yet when the mark was
\* made, or a SignalWorkflow call failed, which is only logged.
LoseSignal(d) ==
  /\ inflight[d] > 0
  /\ inflight' = [inflight EXCEPT ![d] = @ - 1]
  /\ UNCHANGED <<row, deleted, remote, pc, read, wfVars, signals, marks>>

\* DeleteDataSource sets deleted_at and leaves the row.
DeleteSource(d) ==
  /\ d \notin deleted
  /\ Cardinality(deleted) < MaxDeletions
  /\ deleted' = deleted \union {d}
  /\ UNCHANGED <<row, remote, pc, read, wfVars, signals, inflight, marks>>

\* The parent is cancelled or closes, which ends its children.  (A child whose context is
\* cancelled makes its way to the end in several steps.  Every call on that context fails
\* at once, so that none of them changes a row or a job; one that still returns a result
\* does so as in a run where every activity fails from then on.)
Stop ==
  /\ pc \notin Closed
  /\ pc' = "stopped"
  /\ UNCHANGED <<row, remote, read, wfVars, signals, userVars>>

Workflow ==
  \/ StartAttempt \/ StartReturn \/ StartFail \/ FailAll \/ FailAllFails \/ Retry
  \/ \E d \in DataSources :
       \/ HandleFailed(d) \/ HandleComplete(d) \/ HandleManual(d)
       \/ HandleReady(d) \/ HandleProgress(d)
  \/ EndRound \/ ProcessReturn
  \/ IgnoreSignal \/ ReceiveSignal \/ RefreshReturn
  \/ TimerFires \/ PollReturn \/ StatusFails

Environment ==
  \/ \E d \in DataSources :
       \/ JobEnds(d) \/ Forward(d) \/ LoseSignal(d) \/ DeleteSource(d)
       \/ \E s \in {"EXECUTED", "FAILED"} : Mark(d, s)
  \/ Stop

Next == Workflow \/ Environment

\* Temporal keeps a workflow moving and a silo answers in the end; nobody makes
\* users act, and retries and signals are not owed anything.
Fairness ==
  /\ WF_vars(StartAttempt) /\ WF_vars(StartReturn) /\ WF_vars(FailAll)
  /\ \A d \in DataSources :
       /\ WF_vars(HandleFailed(d)) /\ WF_vars(HandleComplete(d))
       /\ WF_vars(HandleManual(d)) /\ WF_vars(HandleReady(d))
       /\ WF_vars(HandleProgress(d)) /\ WF_vars(JobEnds(d))
  /\ WF_vars(EndRound) /\ WF_vars(ProcessReturn)
  /\ WF_vars(IgnoreSignal) /\ WF_vars(ReceiveSignal) /\ WF_vars(RefreshReturn)
  /\ WF_vars(TimerFires) /\ WF_vars(PollReturn) /\ WF_vars(StatusFails)

Spec     == Init /\ [][Next]_vars
FairSpec == Spec /\ Fairness

-----------------------------------------------------------------------------
(* Properties. *)

TypeOK ==
  /\ row \in [DataSources -> RowStatus]
  /\ deleted \subseteq DataSources
  /\ remote \in [DataSources -> Remote]
  /\ pc \in Pc
  /\ read \in [executed : SUBSET DataSources, gone : SUBSET DataSources]
  /\ item \in [DataSources -> Item]
  /\ kept \subseteq DataSources
  /\ extract \subseteq DataSources
  /\ hasFailures \in BOOLEAN
  /\ res \in {"FAILED", "PARTIAL_FAILED", "EXECUTED"}
  /\ verdict \in [DataSources -> Verdict]
  /\ signals \in Seq(DataSources)
  /\ inflight \in [DataSources -> Nat]
  /\ marks \in Nat

BeforeItems == {"start", "starting", "failAll"}

OnItems(d)   == item[d] # "none"
OnKept(d)    == d \in kept
OnExtract(d) == d \in extract

\* Once the items exist, a data source is open exactly when it is on one of the
\* three lists that the workflow carries from step to step, and it is on one
\* only: none is forgotten and none is worked on twice.
NoneForgotten ==
  (pc \notin BeforeItems \union Closed) =>
    \A d \in DataSources :
      /\ (verdict[d] = "open") <=> (OnItems(d) \/ OnKept(d) \/ OnExtract(d))
      /\ ~ (OnItems(d) /\ OnKept(d))
      /\ ~ (OnItems(d) /\ OnExtract(d))
      /\ ~ (OnKept(d) /\ OnExtract(d))

\* The result that is returned summarises what happened: EXECUTED means that no
\* data source failed, PARTIAL_FAILED that some did and some did not, FAILED
\* that none succeeded; and every data source has been settled by then.
ResultSound ==
  pc = "done" =>
    /\ \A d \in DataSources : verdict[d] # "open"
    /\ res = "EXECUTED" => \A d \in DataSources : verdict[d] # "bad"
    /\ res = "PARTIAL_FAILED" =>
         /\ \E d \in DataSources : verdict[d] = "ok"
         /\ \E d \in DataSources : verdict[d] = "bad"
    /\ res = "FAILED" => \A d \in DataSources : verdict[d] # "ok"

\* What users see in the row of a settled data source is a final status, and
\* the one the workflow decided on as long as nobody has marked a row; only an
\* UPDATE that fails five times can make it otherwise.
RowsShowVerdicts ==
  "update" \notin Faults =>
    \A d \in DataSources :
      /\ verdict[d] \in {"ok", "bad"} => row[d] \in {"EXECUTED", "FAILED"}
      /\ marks = 0 /\ verdict[d] = "ok"  => row[d] = "EXECUTED"
      /\ marks = 0 /\ verdict[d] = "bad" => row[d] = "FAILED"

\* What the control state says of the three lists and of the two flags; with the
\* invariants above it is inductive.
NothingYet ==
  pc \in BeforeItems =>
    /\ item = [d \in DataSources |-> "none"] /\ kept = {} /\ extract = {}
    /\ verdict = [d \in DataSources |-> "open"]

ListsInPlace ==
  /\ pc \in {"process", "wait", "refreshing", "polling"} =>
       \A d \in DataSources : ~ OnItems(d)
  /\ pc \in {"wait", "refreshing", "polling"} => extract = {}
  /\ pc = "refreshing" => signals # <<>> /\ Head(signals) \in kept

FlagsExact ==
  pc \notin Closed =>
    /\ hasFailures <=> \E d \in DataSources : verdict[d] = "bad"
    /\ res = IF \E d \in DataSources : verdict[d] = "ok"
             THEN "PARTIAL_FAILED" ELSE "FAILED"

IInv ==
  /\ TypeOK /\ NothingYet /\ NoneForgotten /\ ListsInPlace /\ FlagsExact
  /\ ResultSound /\ RowsShowVerdicts

\* What an earlier execution has completed is left alone, with two exceptions.  While no
\* user marks rows, a row leaves EXECUTED only by the batch update after a start activity
\* that failed, which overwrites all of them whatever their status, and no job is ever
\* started for a data source whose row is EXECUTED.
ExecutedIsFinal ==
  [][\A d \in DataSources :
       (row[d] = "EXECUTED" /\ marks' = 0) =>
         /\ row'[d] = "EXECUTED" \/ (pc = "failAll" /\ d \notin deleted)
         /\ remote[d] = "idle" => remote'[d] = "idle"]_vars

\* The execution on a silo that needs no person ends, whatever fails, as long
\* as the silo ends its jobs.
Finishes == <>(pc \in Closed)

\* A signal about d is buffered.
Signalled(d) == \E n \in 1 .. Len(signals) : signals[n] = d

\* The user's EXECUTED mark of a data source that is waited for is noticed, unless it is
\* overwritten first or the workflow is stopped: by its signal when that has arrived,
\* whatever else is waited for, and without a signal by the poll when nothing else is.  (A
\* poll of several fails, and with it the workflow: see ProgressRevisited.)
MarkIsNoticed ==
  \A d \in DataSources :
    (pc = "wait" /\ d \in kept /\ row[d] = "EXECUTED" /\ (Signalled(d) \/ kept = {d}))
      ~> (verdict[d] # "open" \/ row[d] # "EXECUTED" \/ pc = "stopped")

\* What the caller sees of the execution.
Outcome ==
  IF pc = "done" THEN res
  ELSE IF pc \in Closed THEN "lost"
  ELSE "none"

\* The execution implements the promise: data sources are settled one at a
\* time and once, and the result is the summary of the verdicts.
Promise == INSTANCE SiloPromise WITH result <- Outcome
KeepsPromise == Promise!PromiseSpec

\* Data sources that are still in progress are visited again (the comment at
\* the PROGRESS branch says so): without faults the workflow never ends in an
\* error that leaves one of them open.
ProgressRevisited ==
  pc = "error" => \A d \in DataSources : verdict[d] # "open"
=============================================================================
