---------------------------- MODULE SegmentedLog ----------------------------
(***************************************************************************)
(* The log of a scan: the goroutine of DetectDataSources that writes it,   *)
(* the segmented writer that turns a stream into objects of a bucket, the  *)
(* plain file of the local store, and the resolver that reads the log back *)
(* while it is being written.  The attempts of the activity share the name *)
(* of the log, and one that Temporal has given up goes on beside the next. *)
(***************************************************************************)
EXTENDS Naturals, Sequences, FiniteSets

CONSTANTS
  MaxAttempts,  \* attempts of the activity (MaximumAttempts: 5)
  MaxLines,     \* bound: lines that an attempt writes
  MaxEmpty,     \* bound: segments of an attempt that may be empty
  Faults        \* what may go wrong

\* "push": an object cannot be written; "read": the listing or an object cannot be read;
\* "crash": the worker stops.
FaultKinds == {"push", "read", "crash"}

ASSUME LogAssumption ==
  /\ MaxAttempts \in Nat \ {0} /\ MaxLines \in Nat /\ MaxEmpty \in Nat
  /\ Faults \subseteq FaultKinds

Attempts == 1 .. MaxAttempts

\* An index is the number of a segment, or of a line in the local file: lines are taken to
\* be of one length.
Indexes == 0 .. MaxLines + MaxEmpty
Lines   == Attempts \X (1 .. MaxLines)

VARIABLES
  local,    \* the store is a directory; otherwise it is a bucket
  object,   \* what the store holds under the name of the log, by index
  task,     \* where the log goroutine of each attempt is
  written,  \* how many lines it has written
  buffer,   \* activeBuffer of its writer
  pump,     \* where the goroutine of that writer is
  held,     \* the buffer that this goroutine has taken
  segment,  \* i, the segment that it writes next
  reader,   \* a call of Logs
  stored,   \* history: the lines that have come to the store
  dropped   \* history: those that a fault has lost

writer == <<task, written, buffer, pump, held, segment>>
vars   == <<local, object, writer, reader, stored, dropped>>

NumbersOf(lines) == {lines[i][2] : i \in DOMAIN lines}

\* The object with the index i is lines from now on.
Put(i, lines) ==
  object' = [j \in DOMAIN object \cup {i} |-> IF j = i THEN lines ELSE object[j]]

Init ==
  /\ local \in BOOLEAN
  /\ object = << >>
  /\ task = [a \in Attempts |-> "none"]
  /\ written = [a \in Attempts |-> 0]
  /\ buffer = [a \in Attempts |-> << >>]
  /\ pump = [a \in Attempts |-> "off"]
  /\ held = [a \in Attempts |-> << >>]
  /\ segment = [a \in Attempts |-> 0]
  /\ reader = [todo |-> {}, lines |-> << >>, floor |-> 0, failed |-> FALSE]
  /\ stored = [a \in Attempts |-> {}]
  /\ dropped = [a \in Attempts |-> {}]

-----------------------------------------------------------------------------
(* DetectDataSources: the log goroutine of an attempt. *)

\* Mutant: the file of the local store is written in segments as well.
StartSegmented(a) ==
  /\ task[a] = "none"
  /\ \A b \in Attempts : b < a => task[b] # "none"
  /\ task' = [task EXCEPT ![a] = "open"]
  /\ pump' = [pump EXCEPT ![a] = "wait"]
  /\ object' = IF local THEN << >> ELSE object
  /\ UNCHANGED <<local, written, buffer, held, segment, reader, stored, dropped>>

\* An attempt begins, the first or one after another that may go on, and opens the writer.
\* A file is truncated; in a bucket nothing happens yet.
Start(a) ==
  /\ task[a] = "none"
  /\ \A b \in Attempts : b < a => task[b] # "none"
  /\ task' = [task EXCEPT ![a] = "open"]
  /\ IF local
       THEN object' = << >> /\ UNCHANGED pump
       ELSE pump' = [pump EXCEPT ![a] = "wait"] /\ UNCHANGED object
  /\ UNCHANGED <<local, written, buffer, held, segment, reader, stored, dropped>>

\* A line is written: to the buffer, or to the file where this attempt is in it.
WriteLine(a) ==
  /\ task[a] = "open" /\ written[a] < MaxLines
  /\ LET line == <<a, written[a] + 1>> IN
     IF local
       THEN /\ Put(written[a], <<line>>)
            /\ stored' = [stored EXCEPT ![a] = @ \cup {line[2]}]
            /\ UNCHANGED buffer
       ELSE /\ buffer' = [buffer EXCEPT ![a] = Append(@, line)]
            /\ UNCHANGED <<object, stored>>
  /\ written' = [written EXCEPT ![a] = @ + 1]
  /\ UNCHANGED <<local, task, pump, held, segment, reader, dropped>>

\* The channel is closed or the context has ended.  Close of a segmented writer waits until
\* the other goroutine takes its message.
EndLog(a) ==
  /\ task[a] = "open"
  /\ task' = [task EXCEPT ![a] = IF local THEN "over" ELSE "closing"]
  /\ UNCHANGED <<local, object, written, buffer, pump, held, segment, reader, stored, dropped>>

-----------------------------------------------------------------------------
(* NewSegmentedWriter: the goroutine that pushes the buffer every minute, and once more at *)
(* Close, which does not wait for that.                                                    *)

Tick(a) ==
  /\ pump[a] = "wait"
  /\ buffer[a] # << >> \/ segment[a] < MaxEmpty
  /\ pump' = [pump EXCEPT ![a] = "swap"]
  /\ UNCHANGED <<local, object, task, written, buffer, held, segment, reader, stored, dropped>>

\* Mutant: the goroutine ends without a last push.
TakeCloseOnly(a) ==
  /\ pump[a] = "wait" /\ task[a] = "closing"
  /\ task' = [task EXCEPT ![a] = "over"]
  /\ pump' = [pump EXCEPT ![a] = "off"]
  /\ UNCHANGED <<local, object, written, buffer, held, segment, reader, stored, dropped>>

TakeClose(a) ==
  /\ pump[a] = "wait" /\ task[a] = "closing"
  /\ task' = [task EXCEPT ![a] = "over"]
  /\ pump' = [pump EXCEPT ![a] = "swap"]
  /\ UNCHANGED <<local, object, written, buffer, held, segment, reader, stored, dropped>>

\* Mutant: the buffer is taken and stays in use.
SwapShared(a) ==
  /\ pump[a] = "swap"
  /\ held' = [held EXCEPT ![a] = buffer[a]]
  /\ pump' = [pump EXCEPT ![a] = "push"]
  /\ UNCHANGED <<local, object, task, written, buffer, segment, reader, stored, dropped>>

\* pushData takes the buffer under the lock.
Swap(a) ==
  /\ pump[a] = "swap"
  /\ held' = [held EXCEPT ![a] = buffer[a]]
  /\ buffer' = [buffer EXCEPT ![a] = << >>]
  /\ pump' = [pump EXCEPT ![a] = "push"]
  /\ UNCHANGED <<local, object, task, written, segment, reader, stored, dropped>>

\* After the push, good or not, the goroutine goes on to the next segment or ends.
Pushed(a) ==
  /\ pump[a] = "push"
  /\ held' = [held EXCEPT ![a] = << >>]
  /\ pump' = [pump EXCEPT ![a] = IF task[a] = "over" THEN "off" ELSE "wait"]
  /\ segment' = [segment EXCEPT ![a] = @ + 1]
  /\ UNCHANGED <<local, task, written, buffer, reader>>

\* It copies it without the lock; the object is there when it is closed, in place of one
\* that another attempt wrote.
Push(a) ==
  /\ Pushed(a)
  /\ Put(segment[a], held[a])
  /\ stored' = [stored EXCEPT ![a] = @ \cup NumbersOf(held[a])]
  /\ UNCHANGED dropped

\* The error is logged; what was taken is not written back.
PushFails(a) ==
  /\ "push" \in Faults
  /\ Pushed(a)
  /\ dropped' = [dropped EXCEPT ![a] = @ \cup NumbersOf(held[a])]
  /\ UNCHANGED <<object, stored>>

Pump(a) == Tick(a) \/ TakeClose(a) \/ Swap(a) \/ Push(a) \/ PushFails(a)

\* The worker stops, and with it both goroutines.
Crash(a) ==
  /\ "crash" \in Faults
  /\ task[a] \in {"open", "closing"} \/ pump[a] # "off"
  /\ task' = [task EXCEPT ![a] = "over"]
  /\ pump' = [pump EXCEPT ![a] = "off"]
  /\ dropped' = [dropped EXCEPT ![a] = @ \cup NumbersOf(held[a]) \cup NumbersOf(buffer[a])]
  /\ held' = [held EXCEPT ![a] = << >>]
  /\ buffer' = [buffer EXCEPT ![a] = << >>]
  /\ UNCHANGED <<local, object, written, segment, reader, stored>>

-----------------------------------------------------------------------------
(* Logs, NewReader *)

\* The objects are listed by the prefix of their names, a file is read to its end.
ReadStart ==
  /\ reader.todo = {}
  /\ reader' = [todo |-> IF local THEN Indexes ELSE DOMAIN object, lines |-> << >>,
                floor |-> Cardinality(stored[1]), failed |-> FALSE]
  /\ UNCHANGED <<local, object, writer, stored, dropped>>

\* Mutant: the names are listed in another order than that of the numbers.
NextIndexAny(i) == i \in reader.todo

\* The names have leading zeros, so that their order is that of the numbers.
NextIndex(i) == i \in reader.todo /\ \A j \in reader.todo : i <= j

\* The next one is read as it is by now; a gap in a file has no line.
ReadNext ==
  /\ \E i \in Indexes :
       /\ NextIndex(i)
       /\ reader' = [reader EXCEPT
            !.lines = IF i \in DOMAIN object THEN @ \o object[i] ELSE @,
            !.todo  = IF ~ local \/ \E j \in DOMAIN object : j > i THEN @ \ {i} ELSE {}]
  /\ UNCHANGED <<local, object, writer, stored, dropped>>

\* The listing ends with an error, or one object is left out: both look like the end of
\* what there is.
ReadFails ==
  /\ "read" \in Faults /\ ~ local
  /\ \E i \in Indexes :
       /\ NextIndex(i)
       /\ \E rest \in {{}, reader.todo \ {i}} :
            reader' = [reader EXCEPT !.todo = rest, !.failed = TRUE]
  /\ UNCHANGED <<local, object, writer, stored, dropped>>

Next ==
  \/ \E a \in Attempts : Start(a) \/ WriteLine(a) \/ EndLog(a) \/ Pump(a) \/ Crash(a)
  \/ ReadStart \/ ReadNext \/ ReadFails

\* The goroutine of a writer is scheduled and its ticker ticks; that lines are written or
\* that the log ends is not assumed.
Spec == Init /\ [][Next]_vars /\ \A a \in Attempts : WF_vars(Pump(a))

-----------------------------------------------------------------------------
(* Properties. *)

\* The variables hold what their comments say; a file has no writer of segments.
TypeOK ==
  /\ local \in BOOLEAN
  /\ DOMAIN object \subseteq Indexes /\ object \in [DOMAIN object -> Seq(Lines)]
  /\ task \in [Attempts -> {"none", "open", "closing", "over"}]
  /\ written \in [Attempts -> 0 .. MaxLines]
  /\ buffer \in [Attempts -> Seq(Lines)] /\ held \in [Attempts -> Seq(Lines)]
  /\ pump \in [Attempts -> {"off", "wait", "swap", "push"}]
  /\ segment \in [Attempts -> 0 .. MaxLines + MaxEmpty + 1]
  /\ stored \in [Attempts -> SUBSET (1 .. MaxLines)]
  /\ dropped \in [Attempts -> SUBSET (1 .. MaxLines)]
  /\ reader \in [todo : SUBSET Indexes, lines : Seq(Lines), floor : 0 .. MaxLines,
                 failed : BOOLEAN]
  /\ \A a \in Attempts : local => pump[a] = "off"

\* The lines of an attempt that wait to be pushed are its last ones, in their order; all
\* others have come to the store or were lost by a fault, and none of them both.
NothingLost ==
  \A a \in Attempts :
    LET waiting == held[a] \o buffer[a]
        gone    == written[a] - Len(waiting)
    IN  /\ waiting = [i \in 1 .. Len(waiting) |-> <<a, gone + i>>]
        /\ stored[a] \cup dropped[a] = 1 .. gone
        /\ stored[a] \cap dropped[a] = {}

\* Whoever reads while attempts write into each other's log sees the lines of each attempt
\* in their order, and none of them twice.
ReadInOrder ==
  \A i, j \in DOMAIN reader.lines :
    i < j /\ reader.lines[i][1] = reader.lines[j][1] => reader.lines[i][2] < reader.lines[j][2]

\* While there is one attempt and nothing failed, a reading is the log from its beginning,
\* and it ends no earlier than what the store had when it began.
ReadIsWhole ==
  (\A a \in Attempts \ {1} : task[a] = "none") /\ dropped[1] = {} /\ ~ reader.failed =>
    /\ \A i \in DOMAIN reader.lines : reader.lines[i] = <<1, i>>
    /\ reader.todo = {} => Len(reader.lines) >= reader.floor

\* What Logs returns is true to what was written.
LogIsTrue == ReadInOrder /\ ReadIsWhole

\* Every line comes to the store, unless a fault loses it, also when the log goes on or is
\* closed in the middle of a push.
LinesArrive ==
  \A a \in Attempts : \A n \in 1 .. MaxLines :
    (written[a] >= n) ~> (n \in stored[a] \cup dropped[a])
=============================================================================
