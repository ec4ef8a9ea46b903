--------------------------- MODULE DockerProtocol ---------------------------
(***************************************************************************)
(* One activity that talks to a connector: it runs one command, or two     *)
(* after one another, each in a Docker container of its own, and reads     *)
(* what the container prints through a chain of goroutines that hand each  *)
(* line on over unbuffered channels:                                       *)
(*                                                                         *)
(*   1 containerLogsStream -> 2 readMessages -> 3 collectLogs -> 4 readX   *)
(*                                                  |                      *)
(*                                               logChan -> log reader     *)
(*                                                                         *)
(* (readX is readRecords, readResults or readRequestStatus; commands with  *)
(* one answer are read from 3.)  Beside it a goroutine waits for the exit  *)
(* of the container and passes on its code (that of an earlier command may *)
(* still be there when the next one runs), and the context of the activity *)
(* may end at any time: it has a deadline.                                 *)
(*                                                                         *)
(* A line is its position in the output; hand[i] = 0 when goroutine i      *)
(* holds none.                                                             *)
(***************************************************************************)
EXTENDS Naturals, Sequences

CONSTANTS
  Activities,   \* which of the activities below
  Faults,       \* what may go wrong
  MaxLines      \* bound: lines that a container prints

\* "docker": a call to Docker fails or a stream breaks; "log", "other", "stray",
\* "long": the connector prints a log message (or anything that is no message), a
\* message of another type than the command returns, one of that type about a data
\* source that nobody asked for, a line that bufio.Scanner cannot hold.
FaultKinds == {"docker", "log", "other", "stray", "long"}

\* stream: many messages are read (4 goroutines), or one answer (3); awaits: the
\* activity reads completeCh; copies: files are copied from the container before;
\* bound: the command runs in the context of the activity.
One(bound)         == [stream |-> FALSE, awaits |-> FALSE, copies |-> FALSE, bound |-> bound]
Many(awaits, copies) ==
  [stream |-> TRUE, awaits |-> awaits, copies |-> copies, bound |-> TRUE]

\* The commands that each activity runs.
Commands ==
  [validate |-> <<One(TRUE)>>,
   start    |-> <<One(FALSE), Many(TRUE, FALSE)>>,
   status   |-> <<Many(FALSE, FALSE)>>,
   process  |-> <<Many(TRUE, TRUE)>>,
   detect   |-> <<One(TRUE), Many(TRUE, FALSE)>>]

ASSUME ProtocolAssumption ==
  /\ Activities \subseteq DOMAIN Commands
  /\ Faults \subseteq FaultKinds
  /\ MaxLines \in Nat

VARIABLES
  activity, step, place, result,   \* the activity: which, at which command and where, its end
  ctx,                             \* its context: "live" or "done"
  ctr, code, volumes,              \* the container, its exit code, whether there are volumes
  printed, taken,                  \* kinds of the lines printed; how many were scanned
  hand, ended,                     \* of goroutines 1 to 4: the line they hold; have they closed
  got,                             \* lines that the activity has received
  waiter, status, copied,          \* of each command the goroutine that waits; of the
                                   \* current one: completeCh; files are copied
  reader, logChan,                 \* the reader of the logs, and its channel
  panic,                           \* what has stopped the worker
  hitch                            \* history: something of Docker has failed

caller    == <<activity, step, place, result>>
container == <<ctr, code, volumes, printed>>
pipe      == <<taken, hand, ended, got>>
exit      == <<waiter, status, copied>>
logs      == <<reader, logChan>>
vars      == <<caller, ctx, container, pipe, exit, logs, panic, hitch>>

Stages   == 1 .. 4
NoStatus == 2
Cmd      == Commands[activity][step]
Last     == IF Cmd.stream THEN 4 ELSE 3
Waiters  == 1 .. 2
\* Command k of the activity runs in its context; the activity waits for its exit code.
Bound(k)   == k \in DOMAIN Commands[activity] /\ Commands[activity][k].bound
Awaited(k) == k \in DOMAIN Commands[activity] /\ Commands[activity][k].awaits

\* The context of the running command has ended.
CallDone == ctx = "done" /\ Cmd.bound
\* A call to Docker fails; without a live context it cannot succeed.
Fails    == CallDone \/ "docker" \in Faults

Init ==
  /\ activity \in Activities /\ step = 1 /\ place = "init" /\ result = "none"
  /\ ctx = "live"
  /\ ctr = "none" /\ code = 0 /\ volumes = FALSE /\ printed = <<>>
  /\ taken = 0 /\ got = {}
  /\ hand = [i \in Stages |-> 0] /\ ended = [i \in Stages |-> TRUE]
  /\ waiter = [k \in Waiters |-> "none"] /\ status = NoStatus /\ copied = FALSE
  /\ reader = "off" /\ logChan = "nil"
  /\ panic = "none" /\ hitch = FALSE

Up       == panic = "none"
At(p)    == Up /\ place = p
Goto(p)  == place' = p /\ UNCHANGED <<activity, step, result>>
End(r)   == place' = "teardown" /\ result' = r /\ UNCHANGED <<activity, step>>

-----------------------------------------------------------------------------
(* The activity. *)

\* InitConn, AttachLogs, the goroutine that reads the logs, and the configuration,
\* which may be unreadable.
Connect ==
  /\ At("init")
  /\ \/ /\ ctx = "live"
        /\ Goto("construct") \/ End("error")
        /\ reader' = "on" /\ logChan' = "open"
        /\ UNCHANGED hitch
     \/ /\ ctx = "done" \/ "docker" \in Faults
        /\ End("error")
        /\ hitch' = TRUE
        /\ UNCHANGED logs
  /\ UNCHANGED <<ctx, container, pipe, exit, panic>>

\* Mutant: the new scanner does not start at the first line.
FreshCommandLate ==
  /\ taken' = taken /\ got' = {}
  /\ hand' = [i \in Stages |-> 0] /\ ended' = [i \in Stages |-> TRUE]
  /\ status' = NoStatus /\ copied' = FALSE /\ UNCHANGED waiter

\* The state of the goroutines and channels of a command that has not run yet.
FreshCommand ==
  /\ taken' = 0 /\ got' = {}
  /\ hand' = [i \in Stages |-> 0] /\ ended' = [i \in Stages |-> TRUE]
  /\ status' = NoStatus /\ copied' = FALSE /\ UNCHANGED waiter

\* constructContainer: volumes, then the container, after removing that of an
\* earlier command (Docker refuses if it still runs), then the files.  When the new
\* container cannot be created, containerID stays that of the one that is gone.
Construct ==
  /\ At("construct")
  /\ \/ /\ ~ CallDone /\ ctr # "running"
        /\ Goto("start")
        /\ volumes' = TRUE /\ ctr' = "created" /\ code' = 0 /\ printed' = <<>>
        /\ FreshCommand
        /\ UNCHANGED hitch
     \/ /\ Fails \/ ctr = "running"
        /\ End("error")
        /\ hitch' = TRUE
        /\ \/ /\ ~ CallDone /\ ctr # "running"
              /\ volumes' = TRUE /\ ctr' = "created" /\ code' = 0 /\ printed' = <<>>
              /\ FreshCommand
           \/ /\ \/ UNCHANGED <<ctr, volumes>>
                 \/ ~ CallDone /\ volumes' = TRUE /\ ctr' = IF ctr = "exited" THEN "gone" ELSE ctr
                 \/ ~ CallDone /\ volumes' = TRUE /\ UNCHANGED ctr
              /\ UNCHANGED <<code, printed, pipe, exit>>
  /\ UNCHANGED <<ctx, logs, panic>>

Start ==
  /\ At("start")
  /\ \/ ~ CallDone /\ Goto("attach") /\ ctr' = "running" /\ UNCHANGED hitch
     \/ Fails /\ End("error") /\ hitch' = TRUE /\ UNCHANGED ctr
  /\ UNCHANGED <<ctx, code, volumes, printed, pipe, exit, logs, panic>>

\* ContainerLogs; the goroutines start.
Attach ==
  /\ At("attach")
  /\ \/ ~ CallDone /\ Goto("wait") /\ ended' = [i \in Stages |-> i > Last] /\ UNCHANGED hitch
     \/ Fails /\ End("error") /\ hitch' = TRUE /\ UNCHANGED ended
  /\ UNCHANGED <<ctx, container, taken, hand, got, exit, logs, panic>>

\* ContainerWait asks for the next exit: of one that is over it does not hear.
Wait ==
  /\ At("wait")
  /\ Goto("read")
  /\ waiter' = [waiter EXCEPT ![step] = IF ctr = "exited" THEN "deaf" ELSE "waiting"]
  /\ UNCHANGED <<ctx, container, pipe, status, copied, logs, panic, hitch>>

\* The next command, or the end.  The activity may give up between two commands, or
\* find at the end that it cannot store its results; StartSiloRequestActivity runs no
\* query when no data source is left.
Proceed ==
  \/ /\ step < Len(Commands[activity])
     /\ step' = step + 1 /\ place' = "construct"
     /\ UNCHANGED <<activity, result>>
  \/ (step = Len(Commands[activity]) \/ activity = "start") /\ End("ok")
  \/ End("error")

Stray == Cmd.stream /\ printed[hand[4]] = "stray"

\* A message of the last goroutine.  A command with one answer skips other types, and
\* the activities skip what they do not know, but for the scanners of
\* DetectDataSources.
Receive ==
  /\ At("read")
  /\ hand[Last] # 0
  /\ printed[hand[Last]] # "log"
  /\ ~ (Stray /\ activity = "detect")
  /\ hand' = [hand EXCEPT ![Last] = 0]
  /\ got' = IF printed[hand[Last]] = "data" THEN got \union {hand[Last]} ELSE got
  /\ UNCHANGED <<caller, ctx, container, taken, ended, exit, logs, panic, hitch>>

\* There is no scanner for the record (DetectDataSources): the activity panics, which
\* runs its deferred Teardown and fails the attempt.
ActivityPanics ==
  /\ At("read")
  /\ hand[Last] # 0 /\ Stray /\ activity = "detect"
  /\ End("panic")
  /\ hand' = [hand EXCEPT ![Last] = 0]
  /\ UNCHANGED <<ctx, container, taken, ended, got, exit, logs, panic, hitch>>

\* Mutant: the activity stops reading at its first answer.
ReadFirst ==
  /\ At("read")
  /\ ended[Last] \/ got # {}
  /\ IF ~ Cmd.stream /\ got = {} THEN End("error")
     ELSE IF Cmd.awaits THEN Goto("status") ELSE Proceed
  /\ UNCHANGED <<ctx, container, pipe, exit, logs, panic, hitch>>

\* The last channel is closed.  A command with one answer needs one.
ReadAll ==
  /\ At("read")
  /\ ended[Last]
  /\ IF ~ Cmd.stream /\ got = {} THEN End("error")
     ELSE IF Cmd.awaits THEN Goto("status") ELSE Proceed
  /\ UNCHANGED <<ctx, container, pipe, exit, logs, panic, hitch>>

\* Mutant: the code of the container is not looked at.
IgnoreStatus ==
  /\ At("status")
  /\ status # NoStatus
  /\ Proceed
  /\ UNCHANGED <<ctx, container, pipe, exit, logs, panic, hitch>>

ReadStatus ==
  /\ At("status")
  /\ status # NoStatus
  /\ IF status = 0 THEN Proceed ELSE End("error")
  /\ UNCHANGED <<ctx, container, pipe, exit, logs, panic, hitch>>

\* The deferred Teardown, in the context of the activity.  When the container cannot
\* be removed, because it runs, is gone or the context is done, nothing else is done.
Teardown ==
  /\ At("teardown")
  /\ Goto("end")
  /\ \/ /\ ctr = "none" \/ (ctr \in {"created", "exited"} /\ ctx = "live")
        /\ ctr' = "none"
        /\ \/ ctx = "live" /\ volumes' = FALSE /\ UNCHANGED hitch
           \/ /\ ctx = "done" \/ "docker" \in Faults
              /\ hitch' = TRUE /\ UNCHANGED volumes
        /\ logChan' = IF logChan = "open" THEN "closed" ELSE logChan
     \/ /\ ctr # "none"
        /\ ctr \in {"running", "gone"} \/ ctx = "done" \/ "docker" \in Faults
        /\ hitch' = (hitch \/ ctr # "running")
        /\ UNCHANGED <<ctr, volumes, logChan>>
  /\ UNCHANGED <<ctx, code, printed, pipe, exit, reader, panic>>

\* The deadline, a heartbeat that is late, or the end of the worker.
ContextEnds ==
  /\ ctx = "live" /\ Up
  /\ ctx' = "done"
  /\ UNCHANGED <<caller, container, pipe, exit, logs, panic, hitch>>

-----------------------------------------------------------------------------
(* The container. *)

Prints(kind) ==
  /\ ctr = "running" /\ Up
  /\ Len(printed) < MaxLines
  /\ printed' = Append(printed, kind)
  /\ UNCHANGED <<caller, ctx, ctr, code, volumes, pipe, exit, logs, panic, hitch>>

\* Docker tells the goroutine that waits, if it does already.
Exit ==
  /\ ctr = "running" /\ Up
  /\ ctr' = "exited"
  /\ code' \in {0, 1}
  /\ waiter' = [k \in Waiters |-> IF waiter[k] = "waiting" THEN "told" ELSE waiter[k]]
  /\ UNCHANGED <<caller, ctx, volumes, printed, pipe, status, copied, logs, panic, hitch>>

-----------------------------------------------------------------------------
(* The goroutines that hand the lines on. *)

More == taken < Len(printed)

\* Mutant: the line is not copied, so that the next one overwrites it.
ScanShared ==
  /\ Up /\ ~ ended[1] /\ hand[1] = 0
  /\ More /\ printed[taken + 1] # "long"
  /\ taken' = taken + 1
  /\ hand' = [hand EXCEPT ![1] = taken + 1, ![2] = IF @ = 0 THEN 0 ELSE taken + 1]
  /\ UNCHANGED <<caller, ctx, container, ended, got, exit, logs, panic, hitch>>

Scan ==
  /\ Up /\ ~ ended[1] /\ hand[1] = 0
  /\ More /\ printed[taken + 1] # "long"
  /\ taken' = taken + 1
  /\ hand' = [hand EXCEPT ![1] = taken + 1]
  /\ UNCHANGED <<caller, ctx, container, ended, got, exit, logs, panic, hitch>>

ScannerEnds == Up /\ ~ ended[1] /\ hand[1] = 0 /\ ended' = [ended EXCEPT ![1] = TRUE]

\* The output is over, or the scanner gives up; nobody asks it why.
ScanEnds ==
  /\ ScannerEnds
  /\ \/ ctr = "exited" /\ ~ More
     \/ More /\ printed[taken + 1] = "long"
     \/ CallDone
  /\ UNCHANGED <<caller, ctx, container, taken, hand, got, exit, logs, panic, hitch>>

\* The stream of the output breaks.
StreamBreaks ==
  /\ "docker" \in Faults
  /\ ScannerEnds
  /\ hitch' = TRUE
  /\ UNCHANGED <<caller, ctx, container, taken, hand, got, exit, logs, panic>>

\* A line, or the end of the lines, goes from one goroutine to the next.
Pass(i) ==
  /\ Up /\ i < Last
  /\ hand[i] # 0 /\ hand[i + 1] = 0
  /\ i = 3 => printed[hand[i]] \in {"data", "stray"}
  /\ hand' = [hand EXCEPT ![i] = 0, ![i + 1] = hand[i]]
  /\ UNCHANGED <<caller, ctx, container, taken, ended, got, exit, logs, panic, hitch>>

\* Mutant: the typed readers do not close their channel.
CloseSome(i) ==
  /\ Up /\ i < Last /\ i < 3
  /\ ended[i] /\ ~ ended[i + 1] /\ hand[i + 1] = 0
  /\ ended' = [ended EXCEPT ![i + 1] = TRUE]
  /\ UNCHANGED <<caller, ctx, container, taken, hand, got, exit, logs, panic, hitch>>

Close(i) ==
  /\ Up /\ i < Last
  /\ ended[i] /\ ~ ended[i + 1] /\ hand[i + 1] = 0
  /\ ended' = [ended EXCEPT ![i + 1] = TRUE]
  /\ UNCHANGED <<caller, ctx, container, taken, hand, got, exit, logs, panic, hitch>>

\* collectLogs sends a log message on logChan, if there is a reader, and panics if
\* the channel is closed.
SendLog ==
  /\ Up /\ hand[3] # 0 /\ printed[hand[3]] = "log"
  /\ \/ /\ logChan = "open" /\ reader = "on"
        /\ hand' = [hand EXCEPT ![3] = 0]
        /\ UNCHANGED panic
     \/ /\ logChan = "closed"
        /\ panic' = "send on closed channel"
        /\ UNCHANGED hand
  /\ UNCHANGED <<caller, ctx, container, taken, ended, got, exit, logs, hitch>>

\* The typed readers log that a message has another type and then use the field it
\* does not have.
WrongType ==
  /\ Up /\ Cmd.stream
  /\ hand[3] # 0 /\ printed[hand[3]] = "other"
  /\ hand[4] = 0
  /\ panic' = "nil dereference"
  /\ UNCHANGED <<caller, ctx, container, pipe, exit, logs, hitch>>

-----------------------------------------------------------------------------
(* The goroutines that wait for a container, and the reader of the logs.   *)

\* The goroutine of command k is done; the code s of an earlier command is not read.
Complete(k, s) ==
  /\ waiter' = [waiter EXCEPT ![k] = "done"]
  /\ status' = IF k = step THEN s ELSE status

ExitSeen(k) ==
  /\ Up /\ waiter[k] = "told"
  /\ IF k = step /\ Cmd.copies
       THEN waiter' = [waiter EXCEPT ![k] = "copying"] /\ UNCHANGED status
       ELSE Complete(k, code)
  /\ UNCHANGED <<caller, ctx, container, pipe, copied, logs, panic, hitch>>

\* Files that cannot be copied are logged, no more.
CopyFiles(k) ==
  /\ Up /\ waiter[k] = "copying"
  /\ Complete(k, code)
  /\ \/ ~ CallDone /\ copied' = TRUE /\ UNCHANGED hitch
     \/ Fails /\ hitch' = TRUE /\ UNCHANGED copied
  /\ UNCHANGED <<caller, ctx, container, pipe, logs, panic>>

WaitFails(k) ==
  /\ Up /\ waiter[k] \in {"waiting", "deaf"}
  /\ (ctx = "done" /\ Bound(k)) \/ "docker" \in Faults
  /\ Complete(k, 1)
  /\ hitch' = (hitch \/ k = step)
  /\ UNCHANGED <<caller, ctx, container, pipe, copied, logs, panic>>

\* The context is done: the channel is closed, which reads as 0.
WaitCancelled(k) ==
  /\ Up /\ waiter[k] \in {"waiting", "told", "deaf"}
  /\ ctx = "done" /\ Bound(k)
  /\ Complete(k, 0)
  /\ UNCHANGED <<caller, ctx, container, pipe, copied, logs, panic, hitch>>

\* The reader of DetectDataSources also stops with the context.
ReaderEnds ==
  /\ Up /\ reader = "on"
  /\ logChan = "closed" \/ (activity = "detect" /\ ctx = "done")
  /\ reader' = "off"
  /\ UNCHANGED <<caller, ctx, container, pipe, exit, logChan, panic, hitch>>

Kinds == {"data"} \union (Faults \ {"docker"})

Activity ==
  \/ Connect \/ Construct \/ Start \/ Attach \/ Wait
  \/ Receive \/ ActivityPanics \/ ReadAll \/ ReadStatus \/ Teardown

Goroutine(i) == Pass(i) \/ Close(i)
Waiter(k)    == ExitSeen(k) \/ CopyFiles(k) \/ WaitCancelled(k)

Next ==
  \/ Activity \/ ContextEnds
  \/ Exit \/ \E kind \in Kinds : Prints(kind)
  \/ Scan \/ ScanEnds \/ StreamBreaks \/ \E i \in 1 .. 3 : Goroutine(i)
  \/ SendLog \/ WrongType
  \/ \E k \in Waiters : Waiter(k) \/ WaitFails(k)
  \/ ReaderEnds

Spec == Init /\ [][Next]_vars

\* Go runs every goroutine that can move, and every activity has a deadline.  Nothing is
\* assumed of the container, which may run for ever, and no failure of Docker is owed.
Fairness ==
  /\ WF_vars(Activity) /\ WF_vars(ContextEnds)
  /\ WF_vars(Scan \/ ScanEnds) /\ \A i \in 1 .. 3 : WF_vars(Goroutine(i))
  /\ WF_vars(SendLog \/ WrongType)
  /\ \A k \in Waiters : WF_vars(Waiter(k))
  /\ WF_vars(ReaderEnds)

FairSpec == Spec /\ Fairness

-----------------------------------------------------------------------------
(* Properties. *)

TypeOK ==
  /\ activity \in Activities /\ step \in DOMAIN Commands[activity]
  /\ place \in {"init", "construct", "start", "attach", "wait", "read", "status",
                "teardown", "end"}
  /\ result \in {"none", "ok", "error", "panic"}
  /\ ctx \in {"live", "done"}
  /\ ctr \in {"none", "created", "running", "exited", "gone"}
  /\ code \in {0, 1} /\ volumes \in BOOLEAN
  /\ printed \in Seq(Kinds) /\ taken \in 0 .. Len(printed)
  /\ hand \in [Stages -> 0 .. Len(printed)] /\ ended \in [Stages -> BOOLEAN]
  /\ got \subseteq DOMAIN printed
  /\ waiter \in [Waiters -> {"none", "waiting", "told", "deaf", "copying", "done"}]
  /\ status \in {NoStatus, 0, 1} /\ copied \in BOOLEAN
  /\ reader \in {"on", "off"} /\ logChan \in {"nil", "open", "closed"}
  /\ panic \in {"none", "send on closed channel", "nil dereference"}
  /\ hitch \in BOOLEAN

Data == {n \in DOMAIN printed : printed[n] = "data"}

\* Every message that was scanned has been received or is in one hand, and they
\* stay in order: no goroutine loses, repeats, overtakes or overwrites one.
LinesKept ==
  /\ \A n \in Data : n <= taken => n \in got \/ \E i \in Stages : hand[i] = n
  /\ \A i, k \in Stages : i < k /\ hand[i] # 0 /\ hand[k] # 0 => hand[k] < hand[i]
  /\ \A n \in got, i \in Stages : hand[i] # 0 => n < hand[i]

\* Nothing of Docker has failed, no line was too long and the context lives.
Undisturbed == ~ hitch /\ ctx = "live" /\ \A n \in DOMAIN printed : printed[n] # "long"

\* An activity that ends well, undisturbed, has received every message that its last
\* command printed, of a container that exited with code 0 after its files were copied.
\* (When it was disturbed it may end well without: a broken stream, an overlong line and
\* files that were not copied are not reported.)
EndsWell ==
  result = "ok" /\ Undisturbed =>
    /\ got = Data
    /\ Cmd.awaits => code = 0
    /\ Cmd.copies => copied

\* Teardown closes the channel of the logs while collectLogs may still send, which stops
\* the worker with all its activities, in one case only: DetectDataSources has panicked
\* over a record, and nobody has read the stream to its end.
LogChannelSafe ==
  panic = "send on closed channel" => result = "panic" /\ activity = "detect"

\* What an activity leaves behind that has returned (and not panicked).  Whatever has
\* failed, the goroutines that hand on the lines have ended, and so has the one that waits
\* for the container of a command whose exit code is awaited.  (That of another command
\* may still wait: see WaitersEnd.)  And if the activity was undisturbed there is neither
\* container nor volume, and the channel of the logs is closed.
CleansUp ==
  place = "end" /\ result # "panic" =>
    /\ \A i \in Stages : ended[i]
    /\ \A k \in Waiters : Awaited(k) => waiter[k] \in {"none", "done"}
    /\ Undisturbed => ctr = "none" /\ ~ volumes /\ logChan = "closed"

\* What is shared with the goroutines is given up by all of them before it is closed.
TornDown == LogChannelSafe /\ CleansUp

\* The two ways for an activity to hang.  DetectDataSources: a log message after its
\* reader has stopped with the context.  The start activity: the container of the Schema
\* command, which no context bounds, does not end.
LogStuck    == reader = "off" /\ activity = "detect" /\ hand[3] # 0 /\ printed[hand[3]] = "log"
SchemaStuck == place = "read" /\ ~ Cmd.bound /\ ctr = "running"

\* Every goroutine that waits for a container ends, with the container or with the
\* context.  One without a context, that of the Schema command, ends when it is told of
\* the exit, and never if the container had exited before it asked.
WaitersEnd ==
  \A k \in Waiters :
    (waiter[k] \in {"told", "copying"} \/ (waiter[k] \in {"waiting", "deaf"} /\ Bound(k)))
      ~> (waiter[k] = "done" \/ ~ Up)

\* Every activity comes to its end or its worker stops, whatever Docker does, unless it
\* hangs for ever in one of the two ways above; and so do the goroutines that wait.
Returns ==
  /\ <>(place = "end" \/ ~ Up) \/ <>[](LogStuck \/ SchemaStuck)
  /\ WaitersEnd
=============================================================================
