------------------------- MODULE SiloRequestProofs -------------------------
(***************************************************************************)
(* The invariants of SiloRequest, for every set of data sources and every  *)
(* choice of faults and bounds.  The inductive invariant IInv adds to the  *)
(* properties what the control state says of the three worklists and of    *)
(* the two flags; each action has a lemma of its own.                      *)
(***************************************************************************)
EXTENDS SiloRequest, TLAPS

USE SiloAssumption

-----------------------------------------------------------------------------
(* Type correctness. *)

\* Updating a row and settling a data source keep the types.
LEMMA UpdateType ==
  ASSUME row \in [DataSources -> RowStatus], NEW d, NEW s \in RowStatus, Update(d, s)
  PROVE  row' \in [DataSources -> RowStatus]
BY DEF Update

LEMMA SettledType ==
  ASSUME verdict \in [DataSources -> Verdict], NEW d, NEW v \in Verdict, Settled(d, v)
  PROVE  verdict' \in [DataSources -> Verdict]
BY DEF Settled

LEMMA InitType == Init => TypeOK
<1> SUFFICES ASSUME Init PROVE TypeOK
  OBVIOUS
<1>1. row \in [DataSources -> RowStatus]
  BY DEF Init, RowStatus
<1>2. marks \in Nat /\ signals \in Seq(DataSources) /\ inflight \in [DataSources -> Nat]
  BY DEF Init
<1> QED
  BY <1>1, <1>2 DEF Init, TypeOK, Remote, Pc, Item, Verdict, NoRead

\* Every step of the workflow keeps the types.
LEMMA WorkflowType == TypeOK /\ ListsInPlace /\ Workflow => TypeOK'
<1> SUFFICES ASSUME TypeOK, ListsInPlace, Workflow PROVE TypeOK'
  OBVIOUS
<1> USE DEF TypeOK, wfVars, userVars
<1>1. CASE StartAttempt
  BY <1>1 DEF StartAttempt, Now, Pc
<1>2. CASE StartReturn
  <2>1. remote' \in [DataSources -> Remote]
    BY <1>2 DEF StartReturn, JobOf, Remote
  <2>2. verdict' \in [DataSources -> Verdict]
    BY <1>2 DEF StartReturn, Verdict
  <2> QED
    BY <1>2, <2>1, <2>2 DEF StartReturn, NoRead, Pc
<1>3. CASE StartFail
  BY <1>3 DEF StartFail, NoRead, Pc
<1>4. CASE FailAll
  BY <1>4 DEF FailAll, Pc, RowStatus, Verdict
<1>5. CASE FailAllFails
  BY <1>5 DEF FailAllFails, Pc
<1>6. CASE Retry
  BY <1>6 DEF Retry, Now
<1>7. ASSUME NEW d \in DataSources, HandleFailed(d) PROVE TypeOK'
  BY <1>7, UpdateType, SettledType DEF HandleFailed, Handle, FailedAt, Item, RowStatus, Verdict
<1>8. ASSUME NEW d \in DataSources, HandleComplete(d) PROVE TypeOK'
  BY <1>8, UpdateType, SettledType DEF HandleComplete, Handle, Succeeded, Item, RowStatus, Verdict
<1>9. ASSUME NEW d \in DataSources, HandleManual(d) PROVE TypeOK'
  BY <1>9, UpdateType DEF HandleManual, Handle, Item, RowStatus
<1>10. ASSUME NEW d \in DataSources, HandleReady(d) PROVE TypeOK'
  BY <1>10 DEF HandleReady, Handle, Item
<1>11. ASSUME NEW d \in DataSources, HandleProgress(d) PROVE TypeOK'
  BY <1>11 DEF HandleProgress, Handle, Item
<1>12. CASE EndRound
  BY <1>12 DEF EndRound, FinalResult, Pc
<1>13. CASE ProcessReturn
  BY <1>13 DEF ProcessReturn, Item, Pc
<1>14. CASE IgnoreSignal
  BY <1>14 DEF IgnoreSignal
<1>15. CASE ReceiveSignal
  BY <1>15 DEF ReceiveSignal, Now, Pc
<1>16. CASE RefreshReturn
  <2> DEFINE d == Head(signals)
  <2>1. signals # <<>> /\ d \in DataSources /\ signals' \in Seq(DataSources)
    BY <1>16 DEF RefreshReturn, ListsInPlace
  <2>2. PICK i \in StatusItems(d) : RefreshOf(d, i)
    BY <1>16 DEF RefreshReturn
  <2>3. row' \in [DataSources -> RowStatus] /\ verdict' \in [DataSources -> Verdict]
    BY <2>2, UpdateType, SettledType DEF RefreshOf, RowStatus, Verdict
  <2>4. kept' \subseteq DataSources /\ pc' \in Pc /\ hasFailures' \in BOOLEAN
    BY <2>2 DEF RefreshOf, WaitFor, Pc
  <2>5. res' \in {"FAILED", "PARTIAL_FAILED", "EXECUTED"}
    BY <2>2 DEF RefreshOf, WaitFor, FinalResult
  <2> QED
    BY <1>16, <2>1, <2>3, <2>4, <2>5 DEF RefreshReturn, NoRead
<1>17. CASE TimerFires
  BY <1>17 DEF TimerFires, Now, Pc
<1>18. CASE PollReturn
  BY <1>18 DEF PollReturn, NoRead, Pc
<1>19. CASE StatusFails
  BY <1>19 DEF StatusFails, NoRead, Pc
<1> QED
  BY <1>1, <1>2, <1>3, <1>4, <1>5, <1>6, <1>7, <1>8, <1>9, <1>10, <1>11, <1>12,
     <1>13, <1>14, <1>15, <1>16, <1>17, <1>18, <1>19 DEF Workflow

\* So does every step of the silo, the users and the parent.
LEMMA EnvironmentType == TypeOK /\ Environment => TypeOK'
<1> SUFFICES ASSUME TypeOK, Environment PROVE TypeOK'
  OBVIOUS
<1> USE DEF TypeOK, wfVars, userVars
<1>1. ASSUME NEW d \in DataSources, JobEnds(d) PROVE TypeOK'
  BY <1>1 DEF JobEnds, Remote
<1>2. ASSUME NEW d \in DataSources, Forward(d) PROVE TypeOK'
  BY <1>2 DEF Forward
<1>3. ASSUME NEW d \in DataSources, LoseSignal(d) PROVE TypeOK'
  BY <1>3 DEF LoseSignal
<1>4. ASSUME NEW d \in DataSources, DeleteSource(d) PROVE TypeOK'
  BY <1>4 DEF DeleteSource
<1>5. ASSUME NEW d \in DataSources, NEW s \in {"EXECUTED", "FAILED"}, Mark(d, s) PROVE TypeOK'
  BY <1>5 DEF Mark, RowStatus
<1>6. CASE Stop
  BY <1>6 DEF Stop, Pc
<1> QED
  BY <1>1, <1>2, <1>3, <1>4, <1>5, <1>6 DEF Environment

-----------------------------------------------------------------------------
(* The three worklists. *)

\* Where the workflow is decides which of its lists may hold something.
LEMMA ListsStep == IInv /\ Workflow => NothingYet' /\ NoneForgotten' /\ ListsInPlace'
<1> SUFFICES ASSUME IInv, Workflow PROVE NothingYet' /\ NoneForgotten' /\ ListsInPlace'
  OBVIOUS
<1> USE DEF IInv, NothingYet, NoneForgotten, ListsInPlace, BeforeItems, Closed,
            OnItems, OnKept, OnExtract
<1>t. TypeOK'
  BY WorkflowType
<1>1. CASE StartAttempt
  BY <1>1 DEF StartAttempt, wfVars
<1>2. CASE StartReturn
  <2>1. /\ pc = "starting" /\ pc' = "loop"
        /\ kept = {} /\ extract = {} /\ kept' = {} /\ extract' = {}
    BY <1>2 DEF StartReturn
  <2>2. ASSUME NEW d \in DataSources
        PROVE  (verdict'[d] = "open") <=> (item'[d] # "none")
    <3>1. /\ verdict[d] = "open"
          /\ item'[d] \in StartItems(d)
          /\ verdict'[d] = IF d \in read.gone THEN "skipped" ELSE verdict[d]
      BY <1>2 DEF StartReturn
    <3> QED
      BY <3>1 DEF StartItems
  <2> QED
    BY <2>1, <2>2
<1>3. CASE StartFail
  BY <1>3 DEF StartFail, wfVars
<1>4. CASE FailAll
  BY <1>4 DEF FailAll
<1>5. CASE FailAllFails
  BY <1>5 DEF FailAllFails
<1>6. CASE Retry
  BY <1>6 DEF Retry, wfVars
<1>7. ASSUME NEW d \in DataSources, HandleFailed(d)
      PROVE  NothingYet' /\ NoneForgotten' /\ ListsInPlace'
  BY <1>7 DEF HandleFailed, Handle, FailedAt, Settled, TypeOK
<1>8. ASSUME NEW d \in DataSources, HandleComplete(d)
      PROVE  NothingYet' /\ NoneForgotten' /\ ListsInPlace'
  BY <1>8 DEF HandleComplete, Handle, Succeeded, Settled, TypeOK
<1>9. ASSUME NEW d \in DataSources, HandleManual(d)
      PROVE  NothingYet' /\ NoneForgotten' /\ ListsInPlace'
  BY <1>9 DEF HandleManual, Handle, TypeOK
<1>10. ASSUME NEW d \in DataSources, HandleReady(d)
       PROVE  NothingYet' /\ NoneForgotten' /\ ListsInPlace'
  BY <1>10 DEF HandleReady, Handle, TypeOK
<1>11. ASSUME NEW d \in DataSources, HandleProgress(d)
       PROVE  NothingYet' /\ NoneForgotten' /\ ListsInPlace'
  BY <1>11 DEF HandleProgress, Handle, TypeOK
<1>12. CASE EndRound
  BY <1>12 DEF EndRound
<1>13. CASE ProcessReturn
  BY <1>13 DEF ProcessReturn, Unextracted, TypeOK
<1>14. CASE IgnoreSignal
  BY <1>14 DEF IgnoreSignal, wfVars
<1>15. CASE ReceiveSignal
  BY <1>15 DEF ReceiveSignal, wfVars
<1>16. CASE RefreshReturn
  BY <1>16 DEF RefreshReturn, RefreshOf, WaitFor, Settled, TypeOK
<1>17. CASE TimerFires
  BY <1>17 DEF TimerFires, wfVars
<1>18. CASE PollReturn
  BY <1>18 DEF PollReturn, StatusItems, TypeOK
<1>19. CASE StatusFails
  BY <1>19 DEF StatusFails, wfVars
<1> QED
  BY <1>1, <1>2, <1>3, <1>4, <1>5, <1>6, <1>7, <1>8, <1>9, <1>10, <1>11, <1>12,
     <1>13, <1>14, <1>15, <1>16, <1>17, <1>18, <1>19 DEF Workflow

-----------------------------------------------------------------------------
(* The flags and the result. *)

\* hasFailures and the partial result follow the verdicts until the end.
LEMMA FlagsStep == IInv /\ Workflow => FlagsExact'
<1> SUFFICES ASSUME IInv, Workflow PROVE FlagsExact'
  OBVIOUS
<1> USE DEF IInv, FlagsExact, Closed
<1>1. CASE StartReturn
  BY <1>1 DEF StartReturn, TypeOK, NothingYet, BeforeItems
<1>2. CASE FailAll \/ FailAllFails
  BY <1>2 DEF FailAll, FailAllFails
<1>3. ASSUME NEW d \in DataSources, HandleFailed(d) PROVE FlagsExact'
  <2>1. verdict[d] = "open" /\ verdict' = [verdict EXCEPT ![d] = "bad"] /\ hasFailures' = TRUE
    BY <1>3 DEF HandleFailed, Handle, FailedAt, Settled, NoneForgotten, OnItems, BeforeItems
  <2>2. UNCHANGED <<pc, res>>
    BY <1>3 DEF HandleFailed, Handle, FailedAt
  <2>3. pc = "loop"
    BY <1>3 DEF HandleFailed, Handle
  <2> QED
    BY <2>1, <2>2, <2>3 DEF TypeOK
<1>4. ASSUME NEW d \in DataSources, HandleComplete(d) PROVE FlagsExact'
  <2>1. verdict[d] = "open" /\ verdict' = [verdict EXCEPT ![d] = "ok"] /\ res' = "PARTIAL_FAILED"
    BY <1>4 DEF HandleComplete, Handle, Succeeded, Settled, NoneForgotten, OnItems, BeforeItems
  <2>2. UNCHANGED <<pc, hasFailures>>
    BY <1>4 DEF HandleComplete, Handle, Succeeded
  <2>3. pc = "loop"
    BY <1>4 DEF HandleComplete, Handle
  <2> QED
    BY <2>1, <2>2, <2>3 DEF TypeOK
<1>5. ASSUME NEW d \in DataSources, HandleManual(d) \/ HandleReady(d) \/ HandleProgress(d)
      PROVE  FlagsExact'
  BY <1>5 DEF HandleManual, HandleReady, HandleProgress, Handle
<1>6. CASE EndRound
  BY <1>6 DEF EndRound
<1>7. CASE RefreshReturn
  <2> DEFINE d == Head(signals)
  <2>1. d \in DataSources /\ pc = "refreshing" /\ verdict[d] = "open"
    BY <1>7 DEF RefreshReturn, ListsInPlace, NoneForgotten, OnKept, TypeOK, BeforeItems
  <2>2. PICK i \in StatusItems(d) : RefreshOf(d, i)
    BY <1>7 DEF RefreshReturn
  <2>3. CASE i = "error"
    <3>1. verdict' = [verdict EXCEPT ![d] = "bad"] /\ hasFailures' = TRUE
      BY <2>2, <2>3 DEF RefreshOf, WaitFor, Settled
    <3>2. pc' = "done" \/ res' = res
      BY <2>2, <2>3 DEF RefreshOf, WaitFor
    <3> QED
      BY <2>1, <3>1, <3>2 DEF TypeOK
  <2>4. CASE i = "complete"
    <3>1. verdict' = [verdict EXCEPT ![d] = "ok"] /\ hasFailures' = hasFailures
      BY <2>2, <2>4 DEF RefreshOf, WaitFor, Settled
    <3>2. pc' = "done" \/ res' = "PARTIAL_FAILED"
      BY <2>2, <2>4 DEF RefreshOf, WaitFor
    <3> QED
      BY <2>1, <3>1, <3>2 DEF TypeOK
  <2>5. CASE i \notin {"error", "complete"}
    BY <2>1, <2>2, <2>5 DEF RefreshOf, WaitFor
  <2> QED
    BY <2>3, <2>4, <2>5
<1>8. CASE UNCHANGED <<hasFailures, res, verdict>> /\ pc \notin Closed
  BY <1>8
<1> QED
  BY <1>1, <1>2, <1>3, <1>4, <1>5, <1>6, <1>7, <1>8
  DEF Workflow, StartAttempt, StartFail, Retry, ProcessReturn, IgnoreSignal,
      ReceiveSignal, TimerFires, PollReturn, StatusFails, wfVars

\* The result is set right when the workflow returns: by the batch update, at the
\* end of a round, or when a signal has settled the last data source.
LEMMA ResultStep == IInv /\ Workflow => ResultSound'
<1> SUFFICES ASSUME IInv, Workflow, pc' = "done" PROVE ResultSound'
  BY DEF ResultSound
<1> USE DEF IInv, ResultSound, Closed
<1>1. CASE FailAll
  <2>1. res = "FAILED"
    BY <1>1 DEF FailAll, FlagsExact, NothingYet, BeforeItems
  <2> QED
    BY <1>1, <2>1 DEF FailAll
<1>2. CASE EndRound
  <2>1. pc = "loop" /\ UNCHANGED verdict /\ res' = FinalResult(hasFailures, res)
    BY <1>2 DEF EndRound
  <2>2. \A d \in DataSources : verdict[d] # "open"
    BY <1>2, <2>1 DEF EndRound, NoneForgotten, BeforeItems, OnItems, OnKept, OnExtract
  <2> QED
    BY <2>1, <2>2 DEF FlagsExact, FinalResult
<1>3. CASE RefreshReturn
  <2> DEFINE d == Head(signals)
  <2>1. d \in DataSources /\ pc = "refreshing" /\ kept # {}
    BY <1>3 DEF RefreshReturn, ListsInPlace, TypeOK
  <2>2. PICK i \in StatusItems(d) : RefreshOf(d, i)
    BY <1>3 DEF RefreshReturn
  <2>3. kept' = {} /\ kept \ {d} = {} /\ i \in {"error", "complete"}
    BY <2>1, <2>2 DEF RefreshOf, WaitFor
  <2>4. \A x \in DataSources \ {d} : verdict[x] # "open"
    BY <2>1, <2>3 DEF NoneForgotten, ListsInPlace, BeforeItems, OnItems, OnKept, OnExtract
  <2>5. CASE i = "error"
    <3>1. verdict' = [verdict EXCEPT ![d] = "bad"]
      BY <2>2, <2>5 DEF RefreshOf, Settled
    <3>2. res' = res
      BY <2>2, <2>3, <2>5 DEF RefreshOf, WaitFor, FinalResult
    <3>3. verdict[d] = "open"
      BY <2>1, <1>3 DEF ListsInPlace, NoneForgotten, OnKept, BeforeItems
    <3> QED
      BY <2>1, <2>4, <3>1, <3>2, <3>3 DEF FlagsExact, TypeOK
  <2>6. CASE i = "complete"
    <3>1. verdict' = [verdict EXCEPT ![d] = "ok"]
      BY <2>2, <2>6 DEF RefreshOf, Settled
    <3>2. res' = IF hasFailures THEN "PARTIAL_FAILED" ELSE "EXECUTED"
      BY <2>2, <2>3, <2>6 DEF RefreshOf, WaitFor, FinalResult
    <3>3. verdict[d] = "open"
      BY <2>1, <1>3 DEF ListsInPlace, NoneForgotten, OnKept, BeforeItems
    <3> QED
      BY <2>1, <2>4, <3>1, <3>2, <3>3 DEF FlagsExact, TypeOK
  <2> QED
    BY <2>3, <2>5, <2>6
<1> QED
  BY <1>1, <1>2, <1>3
  DEF Workflow, StartAttempt, StartReturn, StartFail, FailAllFails, Retry, Handle,
      HandleFailed, HandleComplete, HandleManual, HandleReady, HandleProgress,
      ProcessReturn, IgnoreSignal, ReceiveSignal, TimerFires, PollReturn, StatusFails

-----------------------------------------------------------------------------
(* The rows. *)

\* Updating the row of an open data source to the status that goes with its
\* verdict leaves the rows of the others alone.
LEMMA RowsStep == IInv /\ Workflow => RowsShowVerdicts'
<1> SUFFICES ASSUME IInv, Workflow, "update" \notin Faults PROVE RowsShowVerdicts'
  BY DEF RowsShowVerdicts
<1> USE DEF IInv, RowsShowVerdicts
<1>1. CASE StartReturn
  BY <1>1 DEF StartReturn, TypeOK, userVars
<1>2. CASE FailAll
  BY <1>2 DEF FailAll, userVars
<1>3. ASSUME NEW d \in DataSources, HandleFailed(d) PROVE RowsShowVerdicts'
  BY <1>3 DEF HandleFailed, Handle, FailedAt, Settled, Update, TypeOK
<1>4. ASSUME NEW d \in DataSources, HandleComplete(d) PROVE RowsShowVerdicts'
  BY <1>4 DEF HandleComplete, Handle, Succeeded, Settled, Update, TypeOK
<1>5. ASSUME NEW d \in DataSources, HandleManual(d) PROVE RowsShowVerdicts'
  <2>1. verdict[d] = "open"
    BY <1>5 DEF HandleManual, Handle, NoneForgotten, OnItems, BeforeItems, Closed
  <2> QED
    BY <1>5, <2>1 DEF HandleManual, Handle, Update, TypeOK
<1>6. CASE RefreshReturn
  <2> DEFINE d == Head(signals)
  <2>1. PICK i \in StatusItems(d) : RefreshOf(d, i)
    BY <1>6 DEF RefreshReturn
  <2> QED
    BY <1>6, <2>1 DEF RefreshReturn, RefreshOf, Settled, Update, TypeOK, userVars
<1>7. CASE UNCHANGED <<row, verdict, marks>>
  BY <1>7
<1> QED
  BY <1>1, <1>2, <1>3, <1>4, <1>5, <1>6, <1>7
  DEF Workflow, StartAttempt, StartFail, FailAllFails, Retry, Handle, HandleReady,
      HandleProgress, EndRound, ProcessReturn, IgnoreSignal, ReceiveSignal,
      TimerFires, PollReturn, StatusFails, wfVars, userVars

-----------------------------------------------------------------------------
(* The environment, and the theorems. *)

\* What the silo, the users and the parent do disturbs none of it.
LEMMA EnvironmentStep == IInv /\ Environment => IInv'
<1> SUFFICES ASSUME IInv, Environment PROVE IInv'
  OBVIOUS
<1>1. TypeOK'
  BY EnvironmentType DEF IInv
<1> USE DEF IInv, NothingYet, NoneForgotten, ListsInPlace, FlagsExact, ResultSound,
            RowsShowVerdicts, BeforeItems, Closed, OnItems, OnKept, OnExtract, wfVars, userVars
<1>2. ASSUME NEW d \in DataSources, JobEnds(d) \/ LoseSignal(d) \/ DeleteSource(d)
      PROVE  IInv'
  BY <1>1, <1>2 DEF JobEnds, LoseSignal, DeleteSource
<1>3. ASSUME NEW d \in DataSources, Forward(d) PROVE IInv'
  <2>1. pc = "refreshing" => signals' # <<>> /\ Head(signals') = Head(signals)
    BY <1>3 DEF Forward, TypeOK
  <2> QED
    BY <1>1, <1>3, <2>1 DEF Forward
<1>4. ASSUME NEW d \in DataSources, NEW s \in {"EXECUTED", "FAILED"}, Mark(d, s) PROVE IInv'
  <2>1. marks' # 0 /\ row' = [row EXCEPT ![d] = s]
    BY <1>4 DEF Mark, TypeOK
  <2>2. RowsShowVerdicts'
    BY <1>4, <2>1 DEF Mark, TypeOK
  <2> QED
    BY <1>1, <1>4, <2>2 DEF Mark
<1>5. CASE Stop
  BY <1>1, <1>5 DEF Stop
<1> QED
  BY <1>2, <1>3, <1>4, <1>5 DEF Environment

LEMMA InitInvariant == Init => IInv
BY InitType DEF Init, IInv, NothingYet, NoneForgotten, ListsInPlace, FlagsExact,
   ResultSound, RowsShowVerdicts, BeforeItems, Closed

\* The inductive invariant holds in every execution.
THEOREM Invariance == Spec => []IInv
<1>1. IInv /\ Workflow => IInv'
  BY WorkflowType, ListsStep, FlagsStep, ResultStep, RowsStep DEF IInv
<1>2. IInv /\ UNCHANGED vars => IInv'
  BY DEF IInv, TypeOK, NothingYet, NoneForgotten, ListsInPlace, FlagsExact, ResultSound,
         RowsShowVerdicts, OnItems, OnKept, OnExtract, vars
<1>3. IInv /\ [Next]_vars => IInv'
  BY <1>1, <1>2, EnvironmentStep DEF Next
<1> QED
  BY <1>3, InitInvariant, PTL DEF Spec

\* The variables keep their types, whatever fails.
THEOREM TypeCorrect == Spec => []TypeOK
BY Invariance, PTL DEF IInv

\* No data source is forgotten between the worklists, and none is on two of them.
THEOREM WorklistsComplete == Spec => []NoneForgotten
BY Invariance, PTL DEF IInv

\* The result that the parent workflow reads summarises what happened.
THEOREM ResultCorrect == Spec => []ResultSound
BY Invariance, PTL DEF IInv

\* Without failing updates the rows show what the workflow has settled.
THEOREM RowsCorrect == Spec => []RowsShowVerdicts
BY Invariance, PTL DEF IInv

-----------------------------------------------------------------------------
(* Executing a request again. *)

\* What the workflow knows of the rows that an earlier execution completed, as
\* long as nobody marks one: the start activity sees each of them, and it is
\* handled as complete.
ExecutedKnown ==
  marks = 0 =>
    \A d \in DataSources : row[d] = "EXECUTED" =>
      /\ pc = "starting" => d \in read.executed
      /\ (pc \notin BeforeItems \union Closed /\ verdict[d] = "open")
           => item[d] = "complete"

LEMMA ExecutedKnownStep ==
  ASSUME IInv, ExecutedKnown, [Next]_vars
  PROVE  ExecutedKnown'
<1> USE DEF ExecutedKnown, BeforeItems, Closed
<1>1. CASE StartAttempt
  BY <1>1 DEF StartAttempt, Now, userVars
<1>2. CASE StartReturn
  <2>1. ASSUME marks = 0, NEW d \in DataSources, row[d] = "EXECUTED", d \notin read.gone
        PROVE  item'[d] = "complete"
    BY <1>2, <2>1 DEF StartReturn, StartItems
  <2> QED
    BY <1>2, <2>1 DEF StartReturn, userVars
<1>3. CASE StartFail
  BY <1>3 DEF StartFail, userVars
<1>4. CASE FailAll \/ FailAllFails
  BY <1>4 DEF FailAll, FailAllFails
<1>5. CASE Retry
  BY <1>5 DEF Retry, Now, userVars, wfVars
<1>6. ASSUME NEW d \in DataSources, HandleFailed(d) \/ HandleComplete(d)
      PROVE  ExecutedKnown'
  <2>1. pc = "loop" /\ pc' = "loop" /\ UNCHANGED marks
    BY <1>6 DEF HandleFailed, HandleComplete, Handle
  <2>2. verdict'[d] # "open"
    BY <1>6 DEF HandleFailed, HandleComplete, FailedAt, Succeeded, Settled, IInv, TypeOK
  <2>3. \A x \in DataSources \ {d} :
          row'[x] = row[x] /\ item'[x] = item[x] /\ verdict'[x] = verdict[x]
    BY <1>6 DEF HandleFailed, HandleComplete, Handle, FailedAt, Succeeded, Settled,
                Update, IInv, TypeOK
  <2> QED
    BY <2>1, <2>2, <2>3
<1>7. ASSUME NEW d \in DataSources, HandleManual(d) \/ HandleReady(d) \/ HandleProgress(d)
      PROVE  ExecutedKnown'
  <2>1. pc = "loop" /\ pc' = "loop" /\ UNCHANGED <<marks, verdict>>
    BY <1>7 DEF HandleManual, HandleReady, HandleProgress, Handle
  <2>2. verdict[d] = "open" /\ item[d] # "complete"
    BY <1>7, <2>1 DEF HandleManual, HandleReady, HandleProgress, IInv, NoneForgotten, OnItems
  <2>3. \A x \in DataSources \ {d} : row'[x] = row[x] /\ item'[x] = item[x]
    BY <1>7 DEF HandleManual, HandleReady, HandleProgress, Handle, Update, IInv, TypeOK
  <2>4. marks = 0 => row'[d] # "EXECUTED"
    BY <1>7, <2>1, <2>2 DEF HandleManual, HandleReady, HandleProgress, Handle, Update,
                            IInv, TypeOK
  <2> QED
    BY <2>1, <2>2, <2>3, <2>4
<1>8. CASE EndRound
  BY <1>8 DEF EndRound, userVars
<1>9. CASE ProcessReturn \/ PollReturn
  BY <1>9 DEF ProcessReturn, PollReturn, userVars, IInv, ListsInPlace, OnItems
<1>10. CASE RefreshReturn
  <2> DEFINE d == Head(signals)
  <2>1. d \in DataSources /\ pc = "refreshing" /\ UNCHANGED <<marks, item>>
    BY <1>10 DEF RefreshReturn, IInv, ListsInPlace, TypeOK, userVars
  <2>2. verdict[d] = "open" /\ item[d] # "complete"
    BY <1>10, <2>1 DEF RefreshReturn, IInv, ListsInPlace, NoneForgotten, OnKept, OnItems
  <2>3. PICK i \in StatusItems(d) : RefreshOf(d, i)
    BY <1>10 DEF RefreshReturn
  <2>4. \A x \in DataSources \ {d} : row'[x] = row[x] /\ verdict'[x] = verdict[x]
    BY <2>3 DEF RefreshOf, Update, Settled, IInv, TypeOK
  <2>5. pc' # "starting" /\ (verdict'[d] = "open" => row'[d] = row[d])
    BY <2>1, <2>3 DEF RefreshOf, WaitFor, Settled, IInv, TypeOK
  <2> QED
    BY <2>1, <2>2, <2>4, <2>5
<1>11. CASE IgnoreSignal \/ ReceiveSignal \/ TimerFires \/ StatusFails
  BY <1>11 DEF IgnoreSignal, ReceiveSignal, TimerFires, StatusFails, wfVars, userVars
<1>12. ASSUME NEW d \in DataSources, NEW s \in {"EXECUTED", "FAILED"}, Mark(d, s)
       PROVE  ExecutedKnown'
  BY <1>12 DEF Mark, IInv, TypeOK
<1>13. ASSUME NEW d \in DataSources,
              JobEnds(d) \/ Forward(d) \/ LoseSignal(d) \/ DeleteSource(d)
       PROVE  ExecutedKnown'
  BY <1>13 DEF JobEnds, Forward, LoseSignal, DeleteSource, wfVars, userVars
<1>14. CASE Stop
  BY <1>14 DEF Stop, userVars
<1>15. CASE UNCHANGED vars
  BY <1>15 DEF vars
<1> QED
  BY <1>1, <1>2, <1>3, <1>4, <1>5, <1>6, <1>7, <1>8, <1>9, <1>10, <1>11, <1>12, <1>13,
     <1>14, <1>15 DEF Next, Workflow, Environment

\* One step from a state where the workflow knows the executed rows.
LEMMA ExecutedStep ==
  ASSUME IInv, ExecutedKnown, Next, NEW d \in DataSources,
         row[d] = "EXECUTED", marks' = 0
  PROVE  /\ row'[d] = "EXECUTED" \/ (pc = "failAll" /\ d \notin deleted)
         /\ remote[d] = "idle" => remote'[d] = "idle"
<1>1. marks = 0
  BY DEF Next, Workflow, Environment, StartAttempt, StartReturn, StartFail, FailAll,
         FailAllFails, Retry, Handle, HandleFailed, HandleComplete, HandleManual,
         HandleReady, HandleProgress, EndRound, ProcessReturn, IgnoreSignal,
         ReceiveSignal, RefreshReturn, TimerFires, PollReturn, StatusFails, JobEnds,
         Mark, Forward, LoseSignal, DeleteSource, Stop, userVars, IInv, TypeOK
<1>2. CASE StartReturn
  <2>1. item'[d] \in {"none", "complete"}
    BY <1>1, <1>2 DEF StartReturn, StartItems, ExecutedKnown
  <2> QED
    BY <1>2, <2>1 DEF StartReturn, JobOf
<1>3. ASSUME NEW x \in DataSources, HandleFailed(x) \/ HandleManual(x)
      PROVE  row'[d] = "EXECUTED" /\ UNCHANGED remote
  <2>1. x # d
    BY <1>1, <1>3 DEF HandleFailed, HandleManual, Handle, ExecutedKnown, IInv,
                      NoneForgotten, OnItems, BeforeItems, Closed
  <2> QED
    BY <1>3, <2>1 DEF HandleFailed, HandleManual, Handle, Update, IInv, TypeOK
<1>4. ASSUME NEW x \in DataSources, HandleComplete(x)
      PROVE  row'[d] = "EXECUTED" /\ UNCHANGED remote
  BY <1>4 DEF HandleComplete, Handle, Update, IInv, TypeOK
<1>5. CASE RefreshReturn
  <2> DEFINE x == Head(signals)
  <2>1. x \in DataSources /\ verdict[x] = "open" /\ item[x] # "complete" /\ pc = "refreshing"
    BY <1>5 DEF RefreshReturn, IInv, ListsInPlace, NoneForgotten, OnKept, OnItems, TypeOK,
                BeforeItems, Closed
  <2>2. x # d
    BY <1>1, <2>1 DEF ExecutedKnown, BeforeItems, Closed
  <2>3. PICK i \in StatusItems(x) : RefreshOf(x, i)
    BY <1>5 DEF RefreshReturn
  <2>4. row'[d] = row[d]
    BY <2>1, <2>2, <2>3 DEF RefreshOf, Update, IInv, TypeOK
  <2> QED
    BY <1>5, <2>4 DEF RefreshReturn
<1>6. ASSUME NEW x \in DataSources, JobEnds(x)
      PROVE  UNCHANGED row /\ (remote[d] = "idle" => remote'[d] = "idle")
  BY <1>6 DEF JobEnds, IInv, TypeOK
<1>7. ASSUME NEW x \in DataSources, NEW s \in {"EXECUTED", "FAILED"}, Mark(x, s) PROVE FALSE
  BY <1>1, <1>7 DEF Mark
<1>8. CASE UNCHANGED <<row, remote>>
  BY <1>8
<1>9. CASE FailAll
  BY <1>9 DEF FailAll
<1> QED
  BY <1>2, <1>3, <1>4, <1>5, <1>6, <1>7, <1>8, <1>9
  DEF Next, Workflow, Environment, StartAttempt, StartFail, FailAllFails, Retry,
      Handle, HandleReady, HandleProgress, EndRound, ProcessReturn, IgnoreSignal,
      ReceiveSignal, TimerFires, PollReturn, StatusFails, Forward, LoseSignal,
      DeleteSource, Stop

\* While no user marks rows, the batch update after a start activity that failed is all that
\* changes the row of a data source that an earlier execution has completed, and no job is
\* started for it: ExecutedIsFinal.
THEOREM ExecutedStays == Spec => ExecutedIsFinal
<1>1. Init => ExecutedKnown
  BY DEF Init, ExecutedKnown, BeforeItems
<1>2. IInv /\ ExecutedKnown /\ [Next]_vars => ExecutedKnown'
  BY ExecutedKnownStep
<1> DEFINE Step == \A d \in DataSources :
                     (row[d] = "EXECUTED" /\ marks' = 0) =>
                       /\ row'[d] = "EXECUTED" \/ (pc = "failAll" /\ d \notin deleted)
                       /\ remote[d] = "idle" => remote'[d] = "idle"
<1>3. IInv /\ ExecutedKnown /\ [Next]_vars => [Step]_vars
  BY ExecutedStep
<1> QED
  BY <1>1, <1>2, <1>3, Invariance, PTL DEF Spec, ExecutedIsFinal

-----------------------------------------------------------------------------
(* SiloRequest implements SiloPromise: every step of the workflow settles at most one data *)
(* source, skips the deleted ones at the start, fails all of them together, ends the        *)
(* execution, or is invisible to the caller.                                                *)

PromiseStep == [Promise!PromiseNext]_(Promise!promiseVars)

LEMMA InitPromise == Init => Promise!PromiseInit
BY DEF Init, Promise!PromiseInit, Outcome, Closed

\* A step that settles nothing and does not end the execution is invisible.
LEMMA Invisible ==
  ASSUME UNCHANGED verdict, Outcome' = Outcome
  PROVE  PromiseStep
BY DEF PromiseStep, Promise!promiseVars

\* Ending without a result.
LEMMA Losing ==
  ASSUME pc \notin Closed, pc' \in {"error", "stopped"}, UNCHANGED verdict
  PROVE  PromiseStep
BY DEF PromiseStep, Promise!PromiseNext, Promise!LoseResult, Outcome, Closed

\* Settling the data source d, possibly as the last one.
LEMMA Settling ==
  ASSUME IInv, ResultSound', NEW d \in DataSources, NEW v \in {"ok", "bad"},
         verdict[d] = "open", verdict' = [verdict EXCEPT ![d] = v],
         pc \notin Closed,
         \/ pc' \notin Closed
         \/ pc' = "done" /\ res' \in {"EXECUTED", "PARTIAL_FAILED", "FAILED"}
  PROVE  PromiseStep
<1>1. Outcome = "none"
  BY DEF Outcome, Closed
<1>2. CASE pc' \notin Closed
  BY <1>1, <1>2 DEF Outcome, PromiseStep, Promise!PromiseNext, Promise!Settle, Closed
<1>3. CASE pc' = "done"
  <2>1. Outcome' = res' /\ ~ Promise!SomeWith(verdict', "open")
    BY <1>3 DEF Outcome, ResultSound, Promise!SomeWith
  <2>2. v = "bad" \/ v = "ok"
    OBVIOUS
  <2>3. verdict'[d] = v
    BY DEF IInv, TypeOK
  <2>4. res' = Promise!Summary(verdict')
    <3>1. res' \in {"EXECUTED", "PARTIAL_FAILED", "FAILED"}
      BY <1>3 DEF Closed
    <3>2. CASE res' = "EXECUTED"
      <4>1. \A x \in DataSources : verdict'[x] # "bad"
        BY <1>3, <3>2 DEF ResultSound
      <4> QED
        BY <3>2, <4>1 DEF Promise!Summary, Promise!SomeWith
    <3>3. CASE res' = "PARTIAL_FAILED"
      <4>1. \E x \in DataSources : verdict'[x] = "ok"
        BY <1>3, <3>3 DEF ResultSound
      <4>2. \E x \in DataSources : verdict'[x] = "bad"
        BY <1>3, <3>3 DEF ResultSound
      <4> QED
        BY <3>3, <4>1, <4>2 DEF Promise!Summary, Promise!SomeWith
    <3>4. CASE res' = "FAILED"
      <4>1. \A x \in DataSources : verdict'[x] # "ok"
        BY <1>3, <3>4 DEF ResultSound
      <4>2. verdict'[d] = "bad"
        BY <2>2, <2>3, <4>1
      <4> QED
        BY <3>4, <4>1, <4>2 DEF Promise!Summary, Promise!SomeWith
    <3> QED
      BY <3>1, <3>2, <3>3, <3>4
  <2>5. Promise!Settle(d)
    BY <1>1, <2>1, <2>4 DEF Promise!Settle
  <2> QED
    BY <2>5 DEF PromiseStep, Promise!PromiseNext
<1> QED
  BY <1>2, <1>3

\* Every step of the workflow.
LEMMA WorkflowPromise == IInv /\ IInv' /\ Workflow => PromiseStep
<1> SUFFICES ASSUME IInv, IInv', Workflow PROVE PromiseStep
  OBVIOUS
<1>1. CASE StartReturn
  <2>1. Outcome = "none" /\ Outcome' = "none"
    BY <1>1 DEF StartReturn, Outcome, Closed
  <2>2. read.gone \in SUBSET DataSources
    BY DEF IInv, TypeOK
  <2>3. \A d \in read.gone : verdict[d] = "open"
    BY <1>1, <2>2 DEF StartReturn, IInv, NothingYet, BeforeItems
  <2>4. Promise!Skip(read.gone)
    BY <1>1, <2>1, <2>3 DEF StartReturn, Promise!Skip
  <2> QED
    BY <2>2, <2>4 DEF PromiseStep, Promise!PromiseNext
<1>2. CASE FailAll
  <2>1. Outcome = "none" /\ Outcome' = "FAILED"
    BY <1>2 DEF FailAll, Outcome, Closed, IInv, FlagsExact, NothingYet, BeforeItems
  <2>2. \A d \in DataSources : verdict[d] = "open"
    BY <1>2 DEF FailAll, IInv, NothingYet, BeforeItems
  <2>3. verdict' = [d \in DataSources |-> IF d \in DataSources \ deleted
                                          THEN "bad" ELSE "skipped"]
    BY <1>2 DEF FailAll
  <2>4. Promise!FailWhole(DataSources \ deleted)
    BY <2>1, <2>2, <2>3 DEF Promise!FailWhole
  <2> QED
    BY <2>4 DEF PromiseStep, Promise!PromiseNext
<1>3. CASE FailAllFails \/ StatusFails
  BY <1>3, Losing DEF FailAllFails, StatusFails, wfVars, Closed
<1>4. ASSUME NEW d \in DataSources, HandleFailed(d) \/ HandleComplete(d) PROVE PromiseStep
  <2>1. verdict[d] = "open" /\ pc = "loop" /\ pc' = "loop"
    BY <1>4 DEF HandleFailed, HandleComplete, Handle, IInv, NoneForgotten, OnItems,
                BeforeItems, Closed
  <2>2. PICK v \in {"ok", "bad"} : verdict' = [verdict EXCEPT ![d] = v]
    BY <1>4 DEF HandleFailed, HandleComplete, FailedAt, Succeeded, Settled
  <2> QED
    BY <2>1, <2>2, Settling DEF IInv, Closed
<1>5. CASE EndRound
  <2>1. pc = "loop" /\ UNCHANGED verdict /\ Outcome = "none"
    BY <1>5 DEF EndRound, Outcome, Closed
  <2>2. CASE pc' # "done"
    BY <1>5, <2>1, <2>2, Invisible DEF EndRound, Outcome, Closed
  <2>3. CASE pc' = "done"
    <3>1. Outcome' = res' /\ ~ Promise!SomeWith(verdict, "open")
      BY <2>1, <2>3 DEF Outcome, IInv, ResultSound, Promise!SomeWith
    <3>2. res' = Promise!Summary(verdict)
      BY <1>5, <2>1, <2>3
      DEF EndRound, FinalResult, IInv, FlagsExact, Closed, Promise!Summary, Promise!SomeWith
    <3>3. Promise!Return
      BY <2>1, <3>1, <3>2 DEF Promise!Return
    <3> QED
      BY <3>3 DEF PromiseStep, Promise!PromiseNext
  <2> QED
    BY <2>2, <2>3
<1>6. CASE RefreshReturn
  <2> DEFINE d == Head(signals)
  <2>1. d \in DataSources /\ pc = "refreshing" /\ verdict[d] = "open"
    BY <1>6 DEF RefreshReturn, IInv, ListsInPlace, NoneForgotten, OnKept, TypeOK,
                BeforeItems, Closed
  <2>2. PICK i \in StatusItems(d) : RefreshOf(d, i)
    BY <1>6 DEF RefreshReturn
  <2>3. pc' \in {"wait", "done"} /\ res' \in {"EXECUTED", "PARTIAL_FAILED", "FAILED"}
    BY <2>2 DEF RefreshOf, WaitFor, IInv, TypeOK
  <2>4. CASE i \in {"error", "complete"}
    <3>1. PICK v \in {"ok", "bad"} : verdict' = [verdict EXCEPT ![d] = v]
      BY <2>2, <2>4 DEF RefreshOf, Settled
    <3> QED
      BY <2>1, <2>3, <3>1, Settling DEF IInv, Closed
  <2>5. CASE i \notin {"error", "complete"}
    <3>1. UNCHANGED verdict /\ pc' = "wait"
      BY <1>6, <2>1, <2>2, <2>5 DEF RefreshOf, WaitFor, IInv, ListsInPlace, RefreshReturn
    <3> QED
      BY <2>1, <3>1, Invisible DEF Outcome, Closed
  <2> QED
    BY <2>4, <2>5
<1>7. CASE UNCHANGED verdict /\ pc \notin Closed /\ pc' \notin Closed
  BY <1>7, Invisible DEF Outcome, Closed
<1> QED
  BY <1>1, <1>2, <1>3, <1>4, <1>5, <1>6, <1>7
  DEF Workflow, StartAttempt, StartFail, Retry, Handle, HandleManual, HandleReady,
      HandleProgress, ProcessReturn, IgnoreSignal, ReceiveSignal, TimerFires,
      PollReturn, wfVars, Closed

\* The environment can only end the execution.
LEMMA EnvironmentPromise == Environment => PromiseStep
<1>1. Stop => PromiseStep
  BY Losing DEF Stop, wfVars
<1>2. ASSUME UNCHANGED <<pc, wfVars>> PROVE PromiseStep
  BY <1>2, Invisible DEF wfVars, Outcome
<1> QED
  BY <1>1, <1>2 DEF Environment, JobEnds, Forward, LoseSignal, DeleteSource, Mark

\* The execution on a silo keeps its promise to the workflow that started it.
THEOREM PromiseKept == Spec => KeepsPromise
<1>1. IInv /\ IInv' /\ [Next]_vars => PromiseStep
  <2>1. UNCHANGED vars => PromiseStep
    BY Invisible DEF vars, Outcome
  <2> QED
    BY <2>1, WorkflowPromise, EnvironmentPromise DEF Next
<1>2. IInv /\ IInv' /\ [Next]_vars => [Promise!PromiseNext]_(Promise!promiseVars)
  BY <1>1 DEF PromiseStep
<1> QED
  BY <1>2, InitPromise, Invariance, PTL DEF Spec, KeepsPromise, Promise!PromiseSpec
=============================================================================
