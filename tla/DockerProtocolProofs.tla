------------------------ MODULE DockerProtocolProofs ------------------------
(***************************************************************************)
(* Theorems about DockerProtocol, for any set of activities and faults and *)
(* any bound of the lines.                                                 *)
(*                                                                         *)
(* Two invariants are inductive.  LinesInv speaks of the goroutines: a     *)
(* closed one holds nothing and those before it are closed, and what is in *)
(* their hands and received has been scanned.  CallInv speaks of the       *)
(* activity around them: at which places the stream has been read to its   *)
(* end, what its end says of the container, and what the status says.      *)
(***************************************************************************)
EXTENDS DockerProtocol, TLAPS

-----------------------------------------------------------------------------
(* The commands. *)

\* What the sequence of commands of an activity may be.
LEMMA CommandLists ==
  ASSUME activity \in Activities
  PROVE  \/ Commands[activity] = <<One(TRUE)>>
         \/ Commands[activity] = <<Many(FALSE, FALSE)>>
         \/ Commands[activity] = <<Many(TRUE, TRUE)>>
         \/ Commands[activity] = <<One(FALSE), Many(TRUE, FALSE)>>
         \/ Commands[activity] = <<One(TRUE), Many(TRUE, FALSE)>>
<1>1. activity \in {"validate", "start", "status", "process", "detect"}
  BY ProtocolAssumption DEF Commands
<1>2. /\ Commands["validate"] = <<One(TRUE)>>
      /\ Commands["status"] = <<Many(FALSE, FALSE)>>
      /\ Commands["process"] = <<Many(TRUE, TRUE)>>
  BY DEF Commands
<1>3. /\ Commands["start"] = <<One(FALSE), Many(TRUE, FALSE)>>
      /\ Commands["detect"] = <<One(TRUE), Many(TRUE, FALSE)>>
  BY DEF Commands
<1>4. QED
  BY <1>1, <1>2, <1>3

\* What the running command may be.
LEMMA CmdKinds ==
  ASSUME activity \in Activities, step \in DOMAIN Commands[activity]
  PROVE  Cmd \in {One(TRUE), One(FALSE), Many(FALSE, FALSE), Many(TRUE, TRUE), Many(TRUE, FALSE)}
<1>. DEFINE cmds == Commands[activity]
<1>1. CASE \E c : c \in {One(TRUE), Many(FALSE, FALSE), Many(TRUE, TRUE)} /\ cmds = <<c>>
  <2>1. PICK c : c \in {One(TRUE), Many(FALSE, FALSE), Many(TRUE, TRUE)} /\ cmds = <<c>>
    BY <1>1
  <2>. HIDE DEF cmds
  <2>2. step \in DOMAIN cmds => step = 1 /\ cmds[step] = c
    BY <2>1
  <2>3. QED
    BY <2>1, <2>2 DEF Cmd, cmds
<1>2. CASE \E c, d : c \in {One(TRUE), One(FALSE)} /\ d = Many(TRUE, FALSE) /\ cmds = <<c, d>>
  <2>1. PICK c, d : c \in {One(TRUE), One(FALSE)} /\ d = Many(TRUE, FALSE) /\ cmds = <<c, d>>
    BY <1>2
  <2>2. step \in DOMAIN cmds /\ Cmd = cmds[step]
    BY DEF Cmd
  <2>. HIDE DEF cmds
  <2>3. DOMAIN cmds = 1 .. 2
    BY <2>1
  <2>4. step = 1 \/ step = 2
    BY <2>2, <2>3
  <2>5. cmds[1] = c /\ cmds[2] = d
    BY <2>1
  <2>6. QED
    BY <2>1, <2>2, <2>4, <2>5
<1>3. QED
  BY <1>1, <1>2, CommandLists

LEMMA CmdType ==
  ASSUME activity \in Activities, step \in DOMAIN Commands[activity]
  PROVE  /\ Cmd.stream \in BOOLEAN /\ Cmd.awaits \in BOOLEAN
         /\ Cmd.copies \in BOOLEAN /\ Cmd.bound \in BOOLEAN
         /\ Last \in {3, 4}
         /\ Last = 3 <=> ~ Cmd.stream
<1>1. /\ Cmd.stream \in BOOLEAN /\ Cmd.awaits \in BOOLEAN
      /\ Cmd.copies \in BOOLEAN /\ Cmd.bound \in BOOLEAN
  <2>. DEFINE cmdTypes == [stream : BOOLEAN, awaits : BOOLEAN, copies : BOOLEAN, bound : BOOLEAN]
  <2>1. \A b \in BOOLEAN : One(b) \in cmdTypes
    BY DEF One
  <2>2. \A b, c \in BOOLEAN : Many(b, c) \in cmdTypes
    BY DEF Many
  <2>3. Cmd \in cmdTypes
    BY <2>1, <2>2, CmdKinds
  <2>4. QED
    BY <2>3
<1>2. QED
  BY <1>1 DEF Last

\* The second command of an activity is a stream and copies nothing.
LEMMA NextCmd ==
  ASSUME activity \in Activities, step \in DOMAIN Commands[activity],
         step < Len(Commands[activity]), step' = step + 1, activity' = activity
  PROVE  /\ step' \in DOMAIN Commands[activity']
         /\ (Cmd').stream /\ ~ (Cmd').copies
<1>. DEFINE cmds == Commands[activity]
<1>1. PICK c, d : c \in {One(TRUE), One(FALSE)} /\ d = Many(TRUE, FALSE) /\ cmds = <<c, d>>
  <2>1. ASSUME NEW c, cmds = <<c>> PROVE FALSE
    <3>. HIDE DEF cmds
    <3>1. DOMAIN cmds = 1 .. 1 /\ Len(cmds) = 1
      BY <2>1
    <3>2. step \in DOMAIN cmds /\ step < Len(cmds)
      BY DEF cmds
    <3>3. QED
      BY <3>1, <3>2
  <2>2. QED
    BY <2>1, CommandLists
<1>2. step = 1
  <2>. HIDE DEF cmds
  <2>1. DOMAIN cmds = 1 .. 2 /\ Len(cmds) = 2
    BY <1>1
  <2>2. step \in DOMAIN cmds /\ step < Len(cmds)
    BY DEF cmds
  <2>3. QED
    BY <2>1, <2>2
<1>3. step' \in DOMAIN cmds /\ cmds[step'] = d
  <2>. HIDE DEF cmds
  <2>1. QED
    BY <1>1, <1>2
<1>4. Cmd' = Many(TRUE, FALSE)
  BY <1>1, <1>3 DEF Cmd
<1>5. QED
  BY <1>3, <1>4 DEF Many

\* There is a goroutine that waits for each command.
LEMMA StepWaits ==
  ASSUME activity \in Activities, step \in DOMAIN Commands[activity]
  PROVE  step \in Waiters /\ DOMAIN Commands[activity] \subseteq Waiters
<1>. DEFINE cmds == Commands[activity]
<1>1. DOMAIN cmds \subseteq 1 .. 2
  <2>1. ASSUME NEW c, cmds = <<c>> PROVE DOMAIN cmds \subseteq 1 .. 2
    <3>. HIDE DEF cmds
    <3>1. QED
      BY <2>1
  <2>2. ASSUME NEW c, NEW d, cmds = <<c, d>> PROVE DOMAIN cmds \subseteq 1 .. 2
    <3>. HIDE DEF cmds
    <3>1. QED
      BY <2>2
  <2>3. QED
    BY <2>1, <2>2, CommandLists
<1>2. QED
  BY <1>1 DEF Waiters

\* Only the last command of an activity is awaited, and it is a stream.
LEMMA AwaitedIsLast ==
  ASSUME activity \in Activities, step \in DOMAIN Commands[activity],
         NEW k \in Waiters, Awaited(k)
  PROVE  k > step \/ (k = step /\ Cmd.awaits)
<1>. DEFINE cmds == Commands[activity]
<1>1. k \in DOMAIN cmds /\ cmds[k].awaits /\ step \in DOMAIN cmds /\ Cmd = cmds[step]
  BY DEF Awaited, Cmd
<1>2. \A b \in BOOLEAN : ~ One(b).awaits
  BY DEF One
<1>3. CASE \E c : c \in {One(TRUE), Many(FALSE, FALSE), Many(TRUE, TRUE)} /\ cmds = <<c>>
  <2>1. PICK c : cmds = <<c>>
    BY <1>3
  <2>. HIDE DEF cmds
  <2>2. k = 1 /\ step = 1
    BY <1>1, <2>1
  <2>3. QED
    BY <1>1, <2>2
<1>4. CASE \E c, d : c \in {One(TRUE), One(FALSE)} /\ d = Many(TRUE, FALSE) /\ cmds = <<c, d>>
  <2>1. PICK c, d : c \in {One(TRUE), One(FALSE)} /\ d = Many(TRUE, FALSE) /\ cmds = <<c, d>>
    BY <1>4
  <2>. HIDE DEF cmds
  <2>2. DOMAIN cmds = 1 .. 2 /\ cmds[1] = c /\ cmds[2] = d
    BY <2>1
  <2>3. k = 2
    <3>1. k # 1
      BY <1>1, <1>2, <2>1, <2>2
    <3>2. QED
      BY <1>1, <2>2, <3>1
  <2>4. step = 1 \/ step = 2
    BY <1>1, <2>2
  <2>5. QED
    BY <1>1, <2>3, <2>4
<1>5. QED
  BY <1>3, <1>4, CommandLists

\* What is awaited or copied from is a stream; what is copied from is awaited.
LEMMA CmdParts ==
  ASSUME activity \in Activities, step \in DOMAIN Commands[activity]
  PROVE  (Cmd.awaits => Cmd.stream) /\ (Cmd.copies => Cmd.awaits)
BY CmdKinds DEF One, Many

\* As long as the activity is at the same command.
LEMMA SameCmd ==
  ASSUME activity' = activity, step' = step
  PROVE  Cmd' = Cmd /\ Last' = Last
BY DEF Cmd, Last

-----------------------------------------------------------------------------
(* The goroutines and the lines. *)

\* A closed goroutine holds nothing, and those before it are closed.  (The fourth closes
\* after the third when the command uses it: see Closing.)
Chain ==
  /\ \A i \in 1 .. 2 : ended[i + 1] => ended[i]
  /\ \A i \in Stages : ended[i] => hand[i] = 0

\* A stream ends with the fourth goroutine; only the status of a stream is read.
Closing ==
  /\ Cmd.stream /\ ended[4] => ended[3]
  /\ place = "status" => Cmd.stream

\* A command with one answer does not use the fourth goroutine.
ShortChain == ~ Cmd.stream => hand[4] = 0

\* What is in hand or received has been scanned, and only messages are received.
Scanned ==
  /\ \A i \in Stages : hand[i] <= taken
  /\ \A n \in got : n \in Data /\ n <= taken

LinesInv == TypeOK /\ Chain /\ Closing /\ ShortChain /\ Scanned /\ LinesKept

\* What the goroutines and the lines depend on.
lines == <<printed, taken, hand, ended, got>>

-----------------------------------------------------------------------------
(* Types. *)

\* The types of the control state, apart from the lines.
ControlOK ==
  /\ activity \in Activities /\ step \in DOMAIN Commands[activity]
  /\ place \in {"init", "construct", "start", "attach", "wait", "read", "status",
                "teardown", "end"}
  /\ result \in {"none", "ok", "error", "panic"}
  /\ ctx \in {"live", "done"}
  /\ ctr \in {"none", "created", "running", "exited", "gone"}
  /\ code \in {0, 1}
  /\ waiter \in [Waiters -> {"none", "waiting", "told", "deaf", "copying", "done"}]
  /\ status \in {NoStatus, 0, 1}
  /\ reader \in {"on", "off"} /\ logChan \in {"nil", "open", "closed"}
  /\ panic \in {"none", "send on closed channel", "nil dereference"}

FlagsOK == volumes \in BOOLEAN /\ copied \in BOOLEAN /\ hitch \in BOOLEAN

\* The types of the lines.
LinesOK ==
  /\ printed \in Seq(Kinds) /\ taken \in 0 .. Len(printed)
  /\ hand \in [Stages -> 0 .. Len(printed)] /\ ended \in [Stages -> BOOLEAN]
  /\ got \subseteq DOMAIN printed

LEMMA TypeParts == TypeOK <=> ControlOK /\ FlagsOK /\ LinesOK
BY DEF TypeOK, ControlOK, FlagsOK, LinesOK

LEMMA LinesInit == Init => LinesInv
<1>. SUFFICES ASSUME Init PROVE LinesInv
  OBVIOUS
<1>1. step \in DOMAIN Commands[activity]
  <2>1. \A c, d : 1 \in DOMAIN <<c>> /\ 1 \in DOMAIN <<c, d>>
    OBVIOUS
  <2>2. activity \in Activities /\ step = 1
    BY DEF Init
  <2>3. QED
    BY <2>1, <2>2, CommandLists
<1>2. TypeOK
  <2>1. ControlOK /\ FlagsOK
    BY <1>1 DEF Init, ControlOK, FlagsOK, NoStatus
  <2>2. LinesOK
    BY DEF Init, LinesOK, Stages
  <2>3. QED
    BY <2>1, <2>2, TypeParts
<1>3. QED
  BY <1>2 DEF Init, LinesInv, Chain, Closing, ShortChain, Scanned, LinesKept, Stages, Data

\* What a step leaves alone, variable by variable.
LEMMA Frame ==
  /\ UNCHANGED caller => UNCHANGED activity /\ UNCHANGED step /\ UNCHANGED place /\ UNCHANGED result
  /\ UNCHANGED container => UNCHANGED ctr /\ UNCHANGED code /\ UNCHANGED volumes /\ UNCHANGED printed
  /\ UNCHANGED pipe => UNCHANGED taken /\ UNCHANGED hand /\ UNCHANGED ended /\ UNCHANGED got
  /\ UNCHANGED exit => UNCHANGED waiter /\ UNCHANGED status /\ UNCHANGED copied
  /\ UNCHANGED logs => UNCHANGED reader /\ UNCHANGED logChan
BY DEF caller, container, pipe, exit, logs

LEMMA ProceedTypes ==
  ASSUME ControlOK, Proceed
  PROVE  /\ activity' = activity /\ step' \in DOMAIN Commands[activity']
         /\ \/ step' = step /\ place' = "teardown" /\ result' \in {"ok", "error"}
            \/ (Cmd').stream /\ ~ (Cmd').copies /\ place' = "construct" /\ result' = result
<1>1. CASE step < Len(Commands[activity]) /\ step' = step + 1 /\ place' = "construct"
           /\ UNCHANGED <<activity, result>>
  BY <1>1, NextCmd DEF ControlOK
<1>2. CASE End("ok") \/ End("error")
  BY <1>2 DEF End, ControlOK
<1>3. QED
  BY <1>1, <1>2 DEF Proceed

LEMMA ControlTypes == ASSUME ControlOK, [Next]_vars PROVE ControlOK'
<1>. USE DEF ControlOK
<1>1. CASE Connect
  BY <1>1, Frame DEF Connect, Goto, End
<1>2. CASE Construct
  BY <1>2, Frame DEF Construct, FreshCommand, NoStatus, Goto, End
<1>3. CASE Start
  BY <1>3, Frame DEF Start, Goto, End
<1>4. CASE Attach
  BY <1>4, Frame DEF Attach, Goto, End
<1>5. CASE Wait
  BY <1>5, Frame DEF Wait, Goto, End
<1>6. CASE Receive
  BY <1>6, Frame DEF Receive
<1>7. CASE ActivityPanics
  BY <1>7, Frame DEF ActivityPanics, End
<1>8. CASE ReadAll \/ ReadStatus
  <2>1. CASE Proceed
    <3>1. /\ activity' = activity /\ step' \in DOMAIN Commands[activity']
          /\ place' \in {"teardown", "construct"} /\ result' \in {"ok", "error", result}
      BY <2>1, ProceedTypes
    <3>2. QED
      BY <1>8, <3>1, Frame DEF ReadAll, ReadStatus
  <2>2. CASE End("error") \/ Goto("status")
    BY <1>8, <2>2, Frame DEF ReadAll, ReadStatus, End, Goto
  <2>3. QED
    BY <1>8, <2>1, <2>2 DEF ReadAll, ReadStatus
<1>9. CASE Teardown
  BY <1>9, Frame DEF Teardown, Goto
<1>10. CASE ContextEnds
  BY <1>10, Frame DEF ContextEnds
<1>11. CASE Exit
  BY <1>11, Frame DEF Exit
<1>12. CASE \E kind \in Kinds : Prints(kind)
  BY <1>12, Frame DEF Prints
<1>13. CASE Scan \/ ScanEnds \/ StreamBreaks
  BY <1>13, Frame DEF Scan, ScanEnds, StreamBreaks
<1>14. CASE \E i \in 1 .. 3 : Goroutine(i)
  BY <1>14, Frame DEF Goroutine, Pass, Close
<1>15. CASE SendLog \/ WrongType
  BY <1>15, Frame DEF SendLog, WrongType
<1>16. CASE \E k \in Waiters : ExitSeen(k)
  BY <1>16, Frame DEF ExitSeen, Complete
<1>17. CASE \E k \in Waiters : CopyFiles(k)
  BY <1>17, Frame DEF CopyFiles, Complete
<1>18. CASE \E k \in Waiters : WaitFails(k) \/ WaitCancelled(k)
  BY <1>18, Frame DEF WaitFails, WaitCancelled, Complete
<1>19. CASE ReaderEnds
  BY <1>19, Frame DEF ReaderEnds
<1>20. CASE UNCHANGED vars
  BY <1>20, Frame DEF vars
<1>21. QED
  BY <1>1, <1>2, <1>3, <1>4, <1>5, <1>6, <1>7, <1>8, <1>9, <1>10, <1>11, <1>12, <1>13, <1>14,
     <1>15, <1>16, <1>17, <1>18, <1>19, <1>20 DEF Next, Activity, Waiter

LEMMA FlagTypes == ASSUME FlagsOK, [Next]_vars PROVE FlagsOK'
<1>. USE DEF FlagsOK
<1>1. CASE Connect \/ Construct \/ Start \/ Attach \/ Wait
  BY <1>1, Frame, Zenon DEF Connect, Construct, FreshCommand, Start, Attach, Wait
<1>2. CASE Receive \/ ActivityPanics \/ ReadAll \/ ReadStatus \/ Teardown
  BY <1>2, Frame, Zenon DEF Receive, ActivityPanics, ReadAll, ReadStatus, Teardown
<1>3. CASE ContextEnds \/ Exit \/ (\E kind \in Kinds : Prints(kind)) \/ Scan \/ ScanEnds
           \/ StreamBreaks
  BY <1>3, Frame, Zenon DEF ContextEnds, Exit, Prints, Scan, ScanEnds, StreamBreaks
<1>4. CASE (\E i \in 1 .. 3 : Goroutine(i)) \/ SendLog \/ WrongType
  BY <1>4, Frame, Zenon DEF Goroutine, Pass, Close, SendLog, WrongType
<1>5. CASE (\E k \in Waiters : Waiter(k) \/ WaitFails(k)) \/ ReaderEnds
  BY <1>5, Frame, Zenon DEF Waiter, ExitSeen, CopyFiles, WaitFails, WaitCancelled, ReaderEnds
<1>6. CASE UNCHANGED vars
  BY <1>6, Frame, Zenon DEF vars
<1>7. QED
  BY <1>1, <1>2, <1>3, <1>4, <1>5, <1>6 DEF Next, Activity

-----------------------------------------------------------------------------
(* The steps that move lines. *)

\* A step of the same command that leaves the last two goroutines as they are.
LEMMA ClosingKept ==
  ASSUME Closing, Cmd' = Cmd, UNCHANGED ended, place' = "status" => place = "status"
  PROVE  Closing'
BY Zenon DEF Closing

\* A step that leaves the lines alone, at the same command or on to a stream when the
\* lines of this one have ended.
LEMMA LinesStutter ==
  ASSUME LinesInv, UNCHANGED lines, ControlOK', FlagsOK',
         Cmd' = Cmd \/ ((Cmd').stream /\ (Cmd.stream \/ ended[3])),
         place' = "status" => place = "status" \/ (Cmd').stream
  PROVE  LinesInv'
<1>1. UNCHANGED printed /\ UNCHANGED taken /\ UNCHANGED hand /\ UNCHANGED ended /\ UNCHANGED got
  BY DEF lines
<1>2. LinesOK'
  BY <1>1, TypeParts DEF LinesInv, LinesOK
<1>3. TypeOK'
  BY <1>2, TypeParts, PTL
<1>4. ShortChain'
  BY <1>1, Zenon DEF LinesInv, ShortChain
<1>5. Chain' /\ Scanned' /\ LinesKept'
  BY <1>1 DEF LinesInv, Chain, Scanned, LinesKept, Data
<1>6. Closing'
  <2>1. (Cmd').stream /\ ended[4] => ended[3]
    BY Zenon DEF LinesInv, Closing
  <2>2. place' = "status" => (Cmd').stream
    BY Zenon DEF LinesInv, Closing
  <2>3. QED
    BY <1>1, <2>1, <2>2, Zenon DEF Closing
<1>7. QED
  BY <1>3, <1>4, <1>5, <1>6 DEF LinesInv

\* A new command begins with nothing printed, scanned or received.
LEMMA FreshLines ==
  ASSUME FreshCommand, printed' = <<>>, place' # "status", ControlOK', FlagsOK'
  PROVE  LinesInv'
<1>1. /\ printed' = <<>> /\ taken' = 0 /\ got' = {}
      /\ hand' = [i \in Stages |-> 0] /\ ended' = [i \in Stages |-> TRUE]
  BY DEF FreshCommand
<1>2. LinesOK'
  BY <1>1 DEF LinesOK, Stages
<1>3. TypeOK'
  BY <1>2, TypeParts, PTL
<1>4. Chain' /\ ShortChain' /\ Scanned' /\ LinesKept'
  BY <1>1 DEF Chain, ShortChain, Scanned, LinesKept, Stages, Data
<1>5. Closing'
  BY <1>1 DEF Closing, Stages
<1>6. QED
  BY <1>3, <1>4, <1>5 DEF LinesInv

LEMMA AttachLines ==
  ASSUME LinesInv, Attach, ControlOK', FlagsOK'
  PROVE  LinesInv'
<1>1. CASE ended' = [i \in Stages |-> i > Last]
  <2>1. /\ UNCHANGED printed /\ UNCHANGED taken /\ UNCHANGED hand /\ UNCHANGED got
        /\ UNCHANGED activity /\ UNCHANGED step
    BY Frame DEF Attach, Goto, End
  <2>2. LinesOK'
    BY <1>1, <2>1, TypeParts DEF LinesInv, LinesOK
  <2>3. TypeOK'
    BY <2>2, TypeParts, PTL
  <2>4. Chain' /\ Closing' /\ Scanned' /\ LinesKept'
    <3>1. Scanned' /\ LinesKept'
      BY <2>1 DEF LinesInv, Scanned, LinesKept, Data
    <3>2. Last \in {3, 4} /\ (Last = 3 <=> ~ Cmd.stream)
      <4>1. activity \in Activities /\ step \in DOMAIN Commands[activity]
        BY TypeParts DEF LinesInv, ControlOK
      <4>2. QED
        BY <4>1, CmdType, Zenon
    <3>3. Last = 3 => hand[4] = 0
      BY <3>2, Zenon DEF LinesInv, ShortChain
    <3>4. \A i \in Stages : ended'[i] <=> i = 4 /\ Last = 3
      <4>1. \A i \in Stages : ended'[i] = (i > Last)
        BY <1>1
      <4>2. \A i \in Stages : (i > Last) <=> i = 4 /\ Last = 3
        BY <3>2 DEF Stages
      <4>3. QED
        BY <4>1, <4>2
    <3>5. Chain'
      BY <2>1, <3>3, <3>4 DEF Chain, Stages
    <3>6. Closing'
      <4>1. ~ (Cmd.stream /\ ended'[4]) /\ place' # "status" /\ Cmd' = Cmd
        BY <2>1, <3>2, <3>4, SameCmd DEF Stages, Attach, Goto, End
      <4>2. QED
        BY <4>1, Zenon DEF Closing
    <3>7. QED
      BY <3>1, <3>5, <3>6
  <2>5. ShortChain'
    BY <2>1, SameCmd, Zenon DEF LinesInv, ShortChain
  <2>6. QED
    BY <2>3, <2>4, <2>5 DEF LinesInv
<1>2. CASE UNCHANGED ended
  <2>1. UNCHANGED lines /\ UNCHANGED activity /\ UNCHANGED step
    BY <1>2, Frame DEF Attach, Goto, End, lines
  <2>2. place' # "status"
    BY DEF Attach, Goto, End
  <2>3. QED
    BY <2>1, <2>2, SameCmd, LinesStutter
<1>3. QED
  BY <1>1, <1>2 DEF Attach

\* A container prints: what is printed stays as it is.
LEMMA PrintsLines ==
  ASSUME LinesInv, NEW kind \in Kinds, Prints(kind), ControlOK', FlagsOK'
  PROVE  LinesInv'
<1>1. /\ UNCHANGED taken /\ UNCHANGED hand /\ UNCHANGED got /\ UNCHANGED ended
      /\ UNCHANGED activity /\ UNCHANGED step /\ UNCHANGED place
      /\ printed' = Append(printed, kind)
  BY Frame DEF Prints
<1>2. /\ printed \in Seq(Kinds) /\ taken \in 0 .. Len(printed)
      /\ hand \in [Stages -> 0 .. Len(printed)] /\ ended \in [Stages -> BOOLEAN]
      /\ got \subseteq DOMAIN printed
  BY TypeParts DEF LinesInv, LinesOK
<1>3. /\ printed' \in Seq(Kinds) /\ Len(printed') = Len(printed) + 1
      /\ DOMAIN printed = 1 .. Len(printed) /\ DOMAIN printed' = 1 .. Len(printed) + 1
      /\ Len(printed) \in Nat
      /\ \A n \in 1 .. Len(printed) : printed'[n] = printed[n]
  BY <1>1, <1>2
<1>4. LinesOK'
  <2>1. taken' \in 0 .. Len(printed') /\ got' \subseteq DOMAIN printed'
    BY <1>1, <1>2, <1>3
  <2>2. 0 .. Len(printed) \subseteq 0 .. Len(printed')
    BY <1>3
  <2>3. hand' \in [Stages -> 0 .. Len(printed')]
    BY <1>1, <1>2, <2>2
  <2>4. QED
    BY <1>1, <1>2, <1>3, <2>1, <2>3 DEF LinesOK
<1>5. TypeOK'
  BY <1>4, TypeParts, PTL
<1>6. \A n : n \in 1 .. Len(printed) => (n \in Data' <=> n \in Data)
  BY <1>3 DEF Data
<1>7. Chain' /\ Scanned'
  BY <1>1, <1>2, <1>3, <1>6 DEF LinesInv, Chain, Scanned, Data
<1>8. LinesKept'
  <2>1. ASSUME NEW n \in Data', n <= taken' PROVE n \in Data /\ n <= taken
    BY <1>1, <1>2, <1>3, <1>6, <2>1 DEF Data
  <2>2. QED
    BY <1>1, <2>1 DEF LinesInv, LinesKept
<1>9. ShortChain' /\ Closing'
  BY <1>1, SameCmd, ClosingKept, Zenon DEF LinesInv, ShortChain
<1>10. QED
  BY <1>5, <1>7, <1>8, <1>9 DEF LinesInv

\* Facts about the lines, spelt out.
LEMMA LinesFacts ==
  ASSUME LinesInv
  PROVE  /\ DOMAIN printed = 1 .. Len(printed) /\ Len(printed) \in Nat
         /\ taken \in 0 .. Len(printed) /\ got \subseteq 1 .. Len(printed)
         /\ hand \in [Stages -> 0 .. Len(printed)] /\ ended \in [Stages -> BOOLEAN]
         /\ \A i \in Stages : hand[i] \in 0 .. Len(printed) /\ hand[i] <= taken
         /\ \A i \in Stages : ended[i] => hand[i] = 0
         /\ \A i \in Stages : hand[i] # 0 => hand[i] \in 1 .. Len(printed)
<1>1. /\ printed \in Seq(Kinds) /\ taken \in 0 .. Len(printed)
      /\ hand \in [Stages -> 0 .. Len(printed)] /\ ended \in [Stages -> BOOLEAN]
      /\ got \subseteq DOMAIN printed
  BY TypeParts DEF LinesInv, LinesOK
<1>2. DOMAIN printed = 1 .. Len(printed) /\ Len(printed) \in Nat
  BY <1>1
<1>3. QED
  BY <1>1, <1>2 DEF LinesInv, Chain, Scanned

\* A goroutine gives its line away: the last one to the activity, or any one because
\* the line is no message.
LEMMA DropLines ==
  ASSUME LinesInv, NEW i \in Stages, hand[i] # 0, hand' = [hand EXCEPT ![i] = 0],
         UNCHANGED printed, UNCHANGED taken, UNCHANGED ended, Cmd' = Cmd,
         place' = "status" => place = "status",
         \/ got' = got /\ printed[hand[i]] # "data"
         \/ got' = got \union {hand[i]} /\ printed[hand[i]] = "data"
                /\ \A k \in Stages : i < k => hand[k] = 0,
         ControlOK', FlagsOK'
  PROVE  LinesInv'
<1>. USE LinesFacts
<1>1. hand' \in [Stages -> 0 .. Len(printed)]
  OBVIOUS
<1>2. \A k \in Stages : hand'[k] = IF k = i THEN 0 ELSE hand[k]
  OBVIOUS
<1>3. Data' = Data /\ \A n : n \in Data <=> n \in 1 .. Len(printed) /\ printed[n] = "data"
  BY DEF Data
<1>4. got' \subseteq 1 .. Len(printed)
  OBVIOUS
<1>5. LinesOK'
  BY <1>1, <1>4, TypeParts DEF LinesInv, LinesOK
<1>6. TypeOK'
  BY <1>5, TypeParts, PTL
<1>7. Chain'
  BY <1>2 DEF LinesInv, Chain
<1>8. ShortChain' /\ Closing'
  <2>1. hand'[4] = 0 \/ hand'[4] = hand[4]
    BY <1>2 DEF Stages
  <2>2. QED
    BY <2>1, ClosingKept, Zenon DEF LinesInv, ShortChain
<1>9. Scanned'
  BY <1>2, <1>3 DEF LinesInv, Scanned
<1>10. LinesKept'
  <2>1. ASSUME NEW n \in Data, n <= taken
        PROVE  n \in got' \/ \E k \in Stages : hand'[k] = n
    <3>1. CASE n \in got
      BY <3>1
    <3>2. CASE \E k \in Stages : hand[k] = n
      <4>1. PICK k \in Stages : hand[k] = n
        BY <3>2
      <4>2. CASE k = i
        BY <1>3, <2>1, <4>1, <4>2
      <4>3. CASE k # i
        BY <1>2, <4>1, <4>3
      <4>4. QED
        BY <4>2, <4>3
    <3>3. QED
      BY <2>1, <3>1, <3>2 DEF LinesInv, LinesKept
  <2>2. ASSUME NEW j \in Stages, NEW k \in Stages, j < k, hand'[j] # 0, hand'[k] # 0
        PROVE  hand'[k] < hand'[j]
    BY <1>2, <2>2 DEF LinesInv, LinesKept
  <2>3. ASSUME NEW n \in got', NEW j \in Stages, hand'[j] # 0
        PROVE  n < hand'[j]
    <3>1. hand'[j] = hand[j] /\ j # i /\ hand[j] # 0
      BY <1>2, <2>3
    <3>2. CASE n \in got
      BY <3>1, <3>2 DEF LinesInv, LinesKept
    <3>3. CASE n \notin got
      <4>1. n = hand[i] /\ ~ (i < j)
        BY <2>3, <3>1, <3>3
      <4>2. j < i
        BY <3>1, <4>1 DEF Stages
      <4>3. QED
        BY <3>1, <4>1, <4>2 DEF LinesInv, LinesKept
    <3>4. QED
      BY <3>2, <3>3
  <2>4. QED
    BY <1>3, <2>1, <2>2, <2>3 DEF LinesKept
<1>11. QED
  BY <1>6, <1>7, <1>8, <1>9, <1>10 DEF LinesInv

\* A line goes from one goroutine to the next.
LEMMA PassLines ==
  ASSUME LinesInv, NEW i \in 1 .. 3, Pass(i), ControlOK', FlagsOK'
  PROVE  LinesInv'
<1>. USE LinesFacts
<1>1. /\ UNCHANGED printed /\ UNCHANGED taken /\ UNCHANGED got /\ UNCHANGED ended
      /\ UNCHANGED activity /\ UNCHANGED step /\ UNCHANGED place
  BY Frame DEF Pass
<1>2. /\ hand[i] # 0 /\ hand[i + 1] = 0 /\ i \in Stages /\ i + 1 \in Stages
      /\ hand' = [hand EXCEPT ![i] = 0, ![i + 1] = hand[i]]
  BY DEF Pass, Stages
<1>. DEFINE to == i + 1
<1>3. /\ hand' \in [Stages -> 0 .. Len(printed)]
      /\ \A k \in Stages : hand'[k] = IF k = i THEN 0 ELSE IF k = to THEN hand[i] ELSE hand[k]
  BY <1>2
<1>4. to \in Stages /\ to # i /\ hand[to] = 0 /\ \A k \in Stages : i < k <=> k = to \/ to < k
  BY <1>2 DEF Stages
<1>5. \A k \in Stages : k < to <=> k = i \/ k < i
  BY DEF Stages
<1>. HIDE DEF to
<1>6. Data' = Data
  BY <1>1 DEF Data
<1>7. LinesOK'
  BY <1>1, <1>3, TypeParts DEF LinesInv, LinesOK
<1>8. TypeOK'
  BY <1>7, TypeParts, PTL
<1>9. ~ ended[i] /\ ~ ended[to]
  <2>1. ~ ended[i]
    BY <1>2 DEF LinesInv, Chain
  <2>2. CASE i < 3
    <3>1. i \in 1 .. 2
      BY <2>2
    <3>2. QED
      BY <2>1, <3>1 DEF LinesInv, Chain, to
  <2>3. CASE i = 3
    <3>1. activity \in Activities /\ step \in DOMAIN Commands[activity]
      BY TypeParts DEF LinesInv, ControlOK
    <3>2. Last \in {3, 4} /\ (Last = 3 <=> ~ Cmd.stream)
      BY <3>1, CmdType, Zenon
    <3>3. Last = 4
      BY <2>3, <3>2 DEF Pass
    <3>4. Cmd.stream
      BY <3>2, <3>3
    <3>5. ~ ended[4]
      BY <2>1, <2>3, <3>4, Zenon DEF LinesInv, Closing
    <3>6. to = 4
      BY <2>3 DEF to
    <3>7. QED
      BY <2>1, <3>5, <3>6
  <2>4. QED
    BY <2>2, <2>3
<1>10. Chain'
  BY <1>1, <1>3, <1>9 DEF LinesInv, Chain
<1>11. ShortChain' /\ Closing'
  <2>1. Cmd' = Cmd
    BY <1>1, SameCmd
  <2>2. activity \in Activities /\ step \in DOMAIN Commands[activity]
    BY TypeParts DEF LinesInv, ControlOK
  <2>3. Last \in {3, 4} /\ (Last = 3 <=> ~ Cmd.stream)
    BY <2>2, CmdType, Zenon
  <2>4. CASE Last = 4
    <3>1. (Cmd').stream
      BY <2>1, <2>3, <2>4
    <3>2. QED
      BY <1>1, <2>1, <3>1, ClosingKept, Zenon DEF LinesInv, ShortChain
  <2>5. CASE Last = 3
    <3>1. i < 3 /\ 4 \in Stages
      BY <2>5 DEF Pass, Stages
    <3>2. hand'[4] = hand[4]
      BY <1>3, <3>1 DEF to
    <3>3. QED
      BY <1>1, <2>1, <3>2, ClosingKept, Zenon DEF LinesInv, ShortChain
  <2>6. QED
    BY <2>3, <2>4, <2>5
<1>12. Scanned'
  BY <1>1, <1>2, <1>3, <1>6 DEF LinesInv, Scanned
<1>13. LinesKept'
  <2>1. ASSUME NEW n \in Data, n <= taken
        PROVE  n \in got \/ \E k \in Stages : hand'[k] = n
    <3>1. CASE \E k \in Stages : hand[k] = n
      <4>1. PICK k \in Stages : hand[k] = n
        BY <3>1
      <4>2. n # 0
        BY <2>1 DEF Data
      <4>3. CASE k = i
        BY <1>3, <1>4, <4>1, <4>3
      <4>4. CASE k # i
        BY <1>3, <1>4, <4>1, <4>2, <4>4
      <4>5. QED
        BY <4>3, <4>4
    <3>2. QED
      BY <2>1, <3>1 DEF LinesInv, LinesKept
  <2>2. ASSUME NEW j \in Stages, NEW k \in Stages, j < k, hand'[j] # 0, hand'[k] # 0
        PROVE  hand'[k] < hand'[j]
    <3>1. CASE j = to
      <4>1. i < k /\ k # i /\ k # to /\ i \in Stages
        BY <1>2, <1>4, <2>2, <3>1 DEF Stages
      <4>2. hand'[j] = hand[i] /\ hand'[k] = hand[k]
        BY <1>3, <1>4, <3>1, <4>1
      <4>3. QED
        BY <1>2, <2>2, <4>1, <4>2 DEF LinesInv, LinesKept
    <3>2. CASE k = to
      <4>1. j < i /\ j # i /\ j # to
        BY <1>3, <1>5, <2>2, <3>2 DEF Stages
      <4>2. hand'[k] = hand[i] /\ hand'[j] = hand[j]
        BY <1>3, <1>4, <3>2, <4>1
      <4>3. QED
        BY <1>2, <2>2, <4>1, <4>2 DEF LinesInv, LinesKept
    <3>3. CASE j # to /\ k # to
      <4>1. hand'[j] = hand[j] /\ hand'[k] = hand[k]
        BY <1>3, <2>2, <3>3
      <4>2. QED
        BY <2>2, <4>1 DEF LinesInv, LinesKept
    <3>4. QED
      BY <3>1, <3>2, <3>3
  <2>3. ASSUME NEW n \in got, NEW j \in Stages, hand'[j] # 0
        PROVE  n < hand'[j]
    BY <1>2, <1>3, <2>3 DEF LinesInv, LinesKept
  <2>4. QED
    BY <1>1, <1>6, <2>1, <2>2, <2>3 DEF LinesKept
<1>14. QED
  BY <1>8, <1>10, <1>11, <1>12, <1>13 DEF LinesInv

LEMMA ScanLines ==
  ASSUME LinesInv, Scan, ControlOK', FlagsOK'
  PROVE  LinesInv'
<1>. USE LinesFacts
<1>1. /\ UNCHANGED printed /\ UNCHANGED got /\ UNCHANGED ended
      /\ UNCHANGED activity /\ UNCHANGED step /\ UNCHANGED place
  BY Frame DEF Scan
<1>2. /\ hand[1] = 0 /\ ~ ended[1] /\ taken < Len(printed) /\ taken' = taken + 1
      /\ hand' = [hand EXCEPT ![1] = taken + 1] /\ 1 \in Stages
  BY DEF Scan, More, Stages
<1>3. /\ hand' \in [Stages -> 0 .. Len(printed)]
      /\ \A k \in Stages : hand'[k] = IF k = 1 THEN taken + 1 ELSE hand[k]
  BY <1>2
<1>4. Data' = Data
  BY <1>1 DEF Data
<1>5. LinesOK'
  BY <1>1, <1>2, <1>3, TypeParts DEF LinesInv, LinesOK
<1>6. TypeOK'
  BY <1>5, TypeParts, PTL
<1>7. Chain'
  BY <1>1, <1>2, <1>3 DEF LinesInv, Chain
<1>8. ShortChain' /\ Closing'
  <2>1. hand'[4] = hand[4] /\ Cmd' = Cmd
    BY <1>1, <1>3, SameCmd DEF Stages
  <2>2. QED
    BY <1>1, <2>1, ClosingKept, Zenon DEF LinesInv, ShortChain
<1>9. Scanned'
  BY <1>1, <1>2, <1>3, <1>4 DEF LinesInv, Scanned
<1>10. LinesKept'
  <2>1. ASSUME NEW n \in Data, n <= taken + 1
        PROVE  n \in got \/ \E k \in Stages : hand'[k] = n
    <3>1. CASE n = taken + 1
      BY <1>2, <1>3, <3>1
    <3>2. CASE n # taken + 1
      <4>1. n \in 1 .. Len(printed) /\ n <= taken
        BY <2>1, <3>2 DEF Data
      <4>2. CASE \E k \in Stages : hand[k] = n
        BY <1>2, <1>3, <4>1, <4>2
      <4>3. QED
        BY <2>1, <4>1, <4>2 DEF LinesInv, LinesKept
    <3>3. QED
      BY <3>1, <3>2
  <2>2. ASSUME NEW j \in Stages, NEW k \in Stages, j < k, hand'[j] # 0, hand'[k] # 0
        PROVE  hand'[k] < hand'[j]
    <3>1. k # 1 /\ hand'[k] = hand[k]
      BY <1>3, <2>2 DEF Stages
    <3>2. CASE j = 1
      BY <1>2, <1>3, <3>1, <3>2
    <3>3. CASE j # 1
      BY <1>3, <2>2, <3>1, <3>3 DEF LinesInv, LinesKept
    <3>4. QED
      BY <3>2, <3>3
  <2>3. ASSUME NEW n \in got, NEW j \in Stages, hand'[j] # 0
        PROVE  n < hand'[j]
    <3>1. CASE j = 1
      BY <1>2, <1>3, <2>3, <3>1 DEF LinesInv, Scanned
    <3>2. CASE j # 1
      BY <1>3, <2>3, <3>2 DEF LinesInv, LinesKept
    <3>3. QED
      BY <3>1, <3>2
  <2>4. QED
    BY <1>1, <1>2, <1>4, <2>1, <2>2, <2>3 DEF LinesKept
<1>11. QED
  BY <1>6, <1>7, <1>8, <1>9, <1>10 DEF LinesInv

\* A goroutine closes its channel: it holds nothing, and the one before has closed.
LEMMA CloseLines ==
  ASSUME LinesInv, ScanEnds \/ StreamBreaks \/ (\E i \in 1 .. 3 : Close(i)), ControlOK', FlagsOK'
  PROVE  LinesInv'
<1>. USE LinesFacts
<1>1. PICK k \in Stages :
        /\ ended' = [ended EXCEPT ![k] = TRUE] /\ hand[k] = 0
        /\ \A i \in 1 .. 3 : i + 1 = k => ended[i]
        /\ k = 4 => ended[3]
  <2>1. CASE ScanEnds \/ StreamBreaks
    <3>1. 1 \in Stages /\ \A i \in 1 .. 3 : i + 1 # 1
      BY DEF Stages
    <3>2. ended' = [ended EXCEPT ![1] = TRUE] /\ hand[1] = 0 /\ 1 # 4
      BY <2>1 DEF ScanEnds, StreamBreaks, ScannerEnds
    <3>3. QED
      BY <3>1, <3>2
  <2>2. CASE \E i \in 1 .. 3 : Close(i)
    <3>1. PICK i \in 1 .. 3 : Close(i)
      BY <2>2
    <3>2. ended' = [ended EXCEPT ![i + 1] = TRUE] /\ hand[i + 1] = 0 /\ ended[i]
      BY <3>1 DEF Close
    <3>3. /\ i + 1 \in Stages /\ \A m \in 1 .. 3 : m + 1 = i + 1 => m = i
          /\ i + 1 = 4 => i = 3
      BY DEF Stages
    <3>4. QED
      BY <3>2, <3>3
  <2>3. QED
    BY <2>1, <2>2
<1>2. /\ UNCHANGED printed /\ UNCHANGED taken /\ UNCHANGED got /\ UNCHANGED hand
      /\ UNCHANGED activity /\ UNCHANGED step /\ UNCHANGED place
  BY Frame DEF ScanEnds, StreamBreaks, Close
<1>3. ended' \in [Stages -> BOOLEAN] /\ \A i \in Stages : ended'[i] <=> ended[i] \/ i = k
  BY <1>1
<1>4. LinesOK'
  BY <1>2, <1>3, TypeParts DEF LinesInv, LinesOK
<1>5. TypeOK'
  BY <1>4, TypeParts, PTL
<1>6. Chain'
  <2>1. \A i \in 1 .. 2 : i \in Stages /\ i + 1 \in Stages /\ i \in 1 .. 3
    BY DEF Stages
  <2>2. QED
    BY <1>1, <1>2, <1>3, <2>1 DEF LinesInv, Chain
<1>7. Scanned' /\ LinesKept'
  BY <1>2 DEF LinesInv, Scanned, LinesKept, Data
<1>8. ShortChain' /\ Closing'
  <2>1. ShortChain'
    BY <1>2, SameCmd, Zenon DEF LinesInv, ShortChain
  <2>2. (ended'[4] => ended[4] \/ ended[3]) /\ (ended[3] => ended'[3])
    BY <1>1, <1>3 DEF Stages
  <2>3. Closing'
    BY <1>2, <2>2, SameCmd, Zenon DEF LinesInv, Closing
  <2>4. QED
    BY <2>1, <2>3
<1>9. QED
  BY <1>5, <1>6, <1>7, <1>8 DEF LinesInv

LEMMA LinesNext == ASSUME LinesInv, [Next]_vars PROVE LinesInv'
<1>1. ControlOK /\ FlagsOK /\ LinesOK
  BY TypeParts DEF LinesInv
<1>2. ControlOK' /\ FlagsOK'
  BY <1>1, ControlTypes, FlagTypes
<1>3. CASE Connect \/ Start \/ Wait \/ Teardown
  <2>1. UNCHANGED lines /\ UNCHANGED activity /\ UNCHANGED step /\ place' # "status"
    BY <1>3, Frame DEF Connect, Start, Wait, Teardown, Goto, End, lines
  <2>2. QED
    BY <1>2, <2>1, SameCmd, LinesStutter
<1>4. CASE Construct
  <2>. place' # "status"
    BY <1>4 DEF Construct, Goto, End
  <2>1. CASE FreshCommand /\ printed' = <<>>
    BY <1>2, <2>1, FreshLines
  <2>2. CASE UNCHANGED printed /\ UNCHANGED pipe
    <3>1. UNCHANGED lines /\ UNCHANGED activity /\ UNCHANGED step
      BY <1>4, <2>2, Frame DEF Construct, Goto, End, lines
    <3>2. QED
      BY <1>2, <3>1, SameCmd, LinesStutter
  <2>3. QED
    BY <1>4, <2>1, <2>2 DEF Construct
<1>5. CASE Attach
  BY <1>2, <1>5, AttachLines
<1>6. CASE Receive \/ ActivityPanics
  <2>1. /\ UNCHANGED printed /\ UNCHANGED taken /\ UNCHANGED ended
        /\ UNCHANGED activity /\ UNCHANGED step /\ place' \in {place, "teardown"}
        /\ hand[Last] # 0 /\ hand' = [hand EXCEPT ![Last] = 0]
    BY <1>6, Frame DEF Receive, ActivityPanics, End
  <2>2. Last \in {3, 4} /\ (Last = 3 <=> ~ Cmd.stream)
    BY <1>1, CmdType, Zenon DEF ControlOK
  <2>3. Last \in Stages /\ Cmd' = Cmd
    BY <2>1, <2>2, SameCmd DEF Stages
  <2>4. \A k \in Stages : Last < k => hand[k] = 0
    <3>1. Last = 3 => hand[4] = 0
      BY <2>2, Zenon DEF LinesInv, ShortChain
    <3>2. QED
      BY <2>2, <3>1 DEF Stages
  <2>5. \/ got' = got /\ printed[hand[Last]] # "data"
        \/ got' = got \union {hand[Last]} /\ printed[hand[Last]] = "data"
    <3>1. CASE Receive
      BY <3>1 DEF Receive
    <3>2. CASE ActivityPanics
      <4>1. Last = 4
        BY <2>2, <3>2 DEF ActivityPanics, Stray, Last
      <4>2. QED
        BY <3>2, <4>1 DEF ActivityPanics, Stray
    <3>3. QED
      BY <1>6, <3>1, <3>2
  <2>6. QED
    BY <1>2, <2>1, <2>3, <2>4, <2>5, DropLines
<1>7. CASE ReadAll \/ ReadStatus
  <2>1. UNCHANGED lines
    BY <1>7, Frame DEF ReadAll, ReadStatus, lines
  <2>. Cmd.stream \/ ended[3]
    <3>1. activity \in Activities /\ step \in DOMAIN Commands[activity]
      BY <1>1 DEF ControlOK
    <3>2. Last \in {3, 4} /\ (Last = 3 <=> ~ Cmd.stream)
      BY <3>1, CmdType, Zenon
    <3>3. CASE ReadAll
      BY <3>2, <3>3 DEF ReadAll
    <3>4. CASE ReadStatus
      BY <3>4, Zenon DEF ReadStatus, At, LinesInv, Closing
    <3>5. QED
      BY <1>7, <3>3, <3>4
  <2>2. /\ Cmd' = Cmd \/ (Cmd').stream
        /\ place' = "status" => place = "status" \/ (Cmd').stream
    <3>1. CASE Proceed
      <4>1. /\ activity' = activity /\ (step' = step \/ (Cmd').stream)
            /\ place' \in {"teardown", "construct"}
        BY <1>1, <3>1, ProceedTypes, Zenon
      <4>2. QED
        BY <4>1, SameCmd, Zenon
    <3>2. CASE End("error")
      BY <3>2, SameCmd DEF End
    <3>3. CASE Goto("status") /\ Cmd.awaits
      <4>1. Cmd.stream
        BY <1>1, <3>3, CmdParts, Zenon DEF ControlOK
      <4>2. QED
        BY <3>3, <4>1, SameCmd, Zenon DEF Goto
    <3>4. QED
      BY <1>7, <3>1, <3>2, <3>3 DEF ReadAll, ReadStatus
  <2>3. QED
    BY <1>2, <2>1, <2>2, LinesStutter
<1>8. CASE ContextEnds \/ Exit \/ WrongType \/ ReaderEnds
  <2>1. UNCHANGED lines /\ UNCHANGED activity /\ UNCHANGED step /\ UNCHANGED place
    BY <1>8, Frame DEF ContextEnds, Exit, WrongType, ReaderEnds, lines
  <2>2. QED
    BY <1>2, <2>1, SameCmd, LinesStutter
<1>9. CASE \E kind \in Kinds : Prints(kind)
  BY <1>2, <1>9, PrintsLines
<1>10. CASE Scan
  BY <1>2, <1>10, ScanLines
<1>11. CASE ScanEnds \/ StreamBreaks \/ \E i \in 1 .. 3 : Close(i)
  BY <1>2, <1>11, CloseLines
<1>12. CASE \E i \in 1 .. 3 : Pass(i)
  BY <1>2, <1>12, PassLines
<1>13. CASE SendLog
  <2>1. CASE UNCHANGED hand
    <3>1. UNCHANGED lines /\ UNCHANGED activity /\ UNCHANGED step /\ UNCHANGED place
      BY <1>13, <2>1, Frame DEF SendLog, lines
    <3>2. QED
      BY <1>2, <3>1, SameCmd, LinesStutter
  <2>2. CASE hand' = [hand EXCEPT ![3] = 0]
    <3>1. /\ UNCHANGED printed /\ UNCHANGED taken /\ UNCHANGED ended /\ UNCHANGED got
          /\ UNCHANGED activity /\ UNCHANGED step /\ UNCHANGED place
          /\ hand[3] # 0 /\ printed[hand[3]] # "data"
      BY <1>13, Frame DEF SendLog
    <3>2. 3 \in Stages /\ Cmd' = Cmd
      BY <3>1, SameCmd DEF Stages
    <3>3. QED
      BY <1>2, <2>2, <3>1, <3>2, DropLines
  <2>3. QED
    BY <1>13, <2>1, <2>2 DEF SendLog
<1>14. CASE \E k \in Waiters : Waiter(k) \/ WaitFails(k)
  <2>1. UNCHANGED lines /\ UNCHANGED activity /\ UNCHANGED step /\ UNCHANGED place
    BY <1>14, Frame DEF Waiter, ExitSeen, CopyFiles, WaitFails, WaitCancelled, lines
  <2>2. QED
    BY <1>2, <2>1, SameCmd, LinesStutter
<1>15. CASE UNCHANGED vars
  <2>1. UNCHANGED lines /\ UNCHANGED activity /\ UNCHANGED step /\ UNCHANGED place
    BY <1>15, Frame DEF vars, lines
  <2>2. QED
    BY <1>2, <2>1, SameCmd, LinesStutter
<1>16. QED
  BY <1>3, <1>4, <1>5, <1>6, <1>7, <1>8, <1>9, <1>10, <1>11, <1>12, <1>13, <1>14, <1>15
     DEF Next, Activity, Goroutine

\* The invariant of the goroutines.
THEOREM LinesInvariance == Spec => []LinesInv
BY LinesInit, LinesNext, PTL DEF Spec

\* Every variable has its type: in particular no goroutine holds a line that was not
\* printed.
THEOREM DockerTypes == Spec => []TypeOK
<1>1. LinesInv => TypeOK
  BY DEF LinesInv
<1>2. QED
  BY <1>1, LinesInvariance, PTL

\* No message is lost, repeated, overtaken or overwritten between the container and
\* the activity, whatever fails and whenever the context ends.
THEOREM LinesAreKept == Spec => []LinesKept
<1>1. LinesInv => LinesKept
  BY DEF LinesInv
<1>2. QED
  BY <1>1, LinesInvariance, PTL

-----------------------------------------------------------------------------
(* The activity around the goroutines. *)

NoLong == \A n \in DOMAIN printed : printed[n] # "long"

\* Nothing of Docker has failed, the context lives, and no line was too long.
Calm  == ~ hitch /\ ctx = "live"
Quiet == Calm /\ NoLong

\* The result is known at the end; only DetectDataSources panics.
Placed ==
  /\ result = "none" <=> place \notin {"teardown", "end"}
  /\ result = "panic" => activity = "detect"

\* Where the goroutines of a command have all closed.
Ended ==
  /\ place \in {"init", "construct", "start", "attach", "status"} => \A i \in Stages : ended[i]
  /\ result \in {"ok", "error"} => \A i \in Stages : ended[i]
  /\ ~ Cmd.stream => ended[4]

\* Nobody waits yet for a command that has not been started, and it has no status.
Fresh ==
  /\ \A k \in Waiters : k > step => waiter[k] = "none"
  /\ place \in {"init", "construct", "start", "attach", "wait"} => waiter[step] = "none"
  /\ place \in {"init", "start", "attach", "wait"} => status = NoStatus

\* The goroutine that waits for this command has ended when there is a status, and when
\* an activity ends that awaits it.
Waited ==
  /\ status # NoStatus => waiter[step] \in {"none", "done"}
  /\ result \in {"ok", "error"} /\ Cmd.awaits => waiter[step] \in {"none", "done"}

Channel ==
  /\ place \notin {"init", "end"} /\ ~ hitch => logChan = "open"
  /\ logChan = "closed" => place = "end"

\* A stream that has ended well has given all that the container printed.
Streamed ==
  Quiet /\ place \notin {"construct", "start", "attach"} /\ ended[1] =>
    ctr # "running" /\ taken = Len(printed)

\* A status is that of a container that has exited, with its files copied.
StatusTrue ==
  /\ Calm /\ status # NoStatus /\ place # "construct" =>
       status = code /\ ctr # "running" /\ (Cmd.copies => copied)
  /\ waiter[step] \in {"told", "copying"} => ctr # "running"

StatusRead == result = "ok" /\ Calm /\ Cmd.awaits => status = 0

EndClean ==
  place = "end" /\ result # "panic" /\ Quiet =>
    ctr = "none" /\ ~ volumes /\ logChan = "closed"

CallInv ==
  /\ Placed /\ Ended /\ Fresh /\ Waited /\ Channel
  /\ Streamed /\ StatusTrue /\ StatusRead /\ EndClean /\ LogChannelSafe

LEMMA CallInit == Init => CallInv
<1>. SUFFICES ASSUME Init PROVE CallInv
  OBVIOUS
<1>1. step \in Waiters
  BY StepWaits, LinesInit, TypeParts DEF LinesInv, ControlOK
<1>2. QED
  BY <1>1 DEF Init, CallInv, Placed, Ended, Fresh, Waited, Channel, Streamed, StatusTrue,
       StatusRead, EndClean, LogChannelSafe, Stages, Quiet, Calm, NoLong

\* When the last goroutine has closed, all have.
LEMMA AllEnded ==
  ASSUME LinesInv, Ended, ended[Last]
  PROVE  \A i \in Stages : ended[i]
<1>1. activity \in Activities /\ step \in DOMAIN Commands[activity]
  BY TypeParts DEF LinesInv, ControlOK
<1>2. Last \in {3, 4} /\ (Last = 3 <=> ~ Cmd.stream)
  BY <1>1, CmdType, Zenon
<1>3. ended[4]
  <2>1. CASE Last = 4
    BY <2>1
  <2>2. CASE Last = 3
    BY <1>2, <2>2, Zenon DEF Ended
  <2>3. QED
    BY <1>2, <2>1, <2>2
<1>4. ended[3]
  <2>1. CASE Last = 3
    BY <2>1
  <2>2. CASE Last = 4
    <3>1. Cmd.stream
      BY <1>2, <2>2
    <3>2. QED
      BY <1>3, <3>1, Zenon DEF LinesInv, Closing
  <2>3. QED
    BY <1>2, <2>1, <2>2
<1>5. ended[2] /\ ended[1]
  <2>1. ended[2 + 1] => ended[2]
    BY DEF LinesInv, Chain
  <2>2. ended[1 + 1] => ended[1]
    BY DEF LinesInv, Chain
  <2>3. QED
    BY <1>4, <2>1, <2>2
<1>6. QED
  BY <1>3, <1>4, <1>5 DEF Stages

\* What has failed stays failed.
LEMMA CalmBack == ASSUME FlagsOK, ControlOK, [Next]_vars PROVE Calm' => Calm
<1>. USE DEF Calm
<1>1. CASE Connect \/ Construct \/ Start \/ Attach \/ Wait
  BY <1>1, Zenon DEF Connect, Construct, Start, Attach, Wait
<1>2. CASE Receive \/ ActivityPanics \/ ReadAll \/ ReadStatus \/ Teardown
  BY <1>2, Zenon DEF Receive, ActivityPanics, ReadAll, ReadStatus, Teardown
<1>3. CASE ContextEnds \/ Exit \/ (\E kind \in Kinds : Prints(kind)) \/ Scan \/ ScanEnds
           \/ StreamBreaks
  BY <1>3, Zenon DEF ContextEnds, Exit, Prints, Scan, ScanEnds, StreamBreaks
<1>4. CASE (\E i \in 1 .. 3 : Goroutine(i)) \/ SendLog \/ WrongType
  BY <1>4, Zenon DEF Goroutine, Pass, Close, SendLog, WrongType
<1>5. CASE (\E k \in Waiters : Waiter(k) \/ WaitFails(k)) \/ ReaderEnds
  BY <1>5, Zenon DEF Waiter, ExitSeen, CopyFiles, WaitFails, WaitCancelled, ReaderEnds
<1>6. CASE UNCHANGED vars
  BY <1>6, Zenon DEF vars
<1>7. QED
  BY <1>1, <1>2, <1>3, <1>4, <1>5, <1>6 DEF Next, Activity

\* A step that changes nothing that CallInv speaks of, but may let the context end.
LEMMA CallStutter ==
  ASSUME CallInv, UNCHANGED caller, UNCHANGED container, UNCHANGED exit, UNCHANGED logChan,
         UNCHANGED taken, UNCHANGED ended, Calm' => Calm, UNCHANGED hitch, LogChannelSafe'
  PROVE  CallInv'
<1>. USE Frame
<1>1. Cmd' = Cmd /\ Last' = Last
  BY SameCmd
<1>2. Quiet' => Quiet
  BY DEF Quiet, NoLong
<1>3. Placed' /\ Ended' /\ Fresh' /\ Waited' /\ Channel'
  BY <1>1, Zenon DEF CallInv, Placed, Ended, Fresh, Waited, Channel
<1>4. Streamed'
  BY <1>2 DEF CallInv, Streamed
<1>5. StatusTrue'
  BY <1>1 DEF CallInv, StatusTrue
<1>6. StatusRead'
  BY <1>1 DEF CallInv, StatusRead
<1>7. EndClean'
  BY <1>2, Zenon DEF CallInv, EndClean
<1>8. QED
  BY <1>3, <1>4, <1>5, <1>6, <1>7 DEF CallInv

\* A goroutine closes its channel: the first only when the output is over, unless
\* something has failed.
LEMMA CallCloses ==
  ASSUME CallInv, LinesInv, ScanEnds \/ StreamBreaks \/ (\E i \in 1 .. 3 : Close(i)), Calm' => Calm
  PROVE  CallInv'
<1>0. ~ hitch' => ~ hitch
  BY Zenon DEF ScanEnds, StreamBreaks, Close
<1>1. /\ UNCHANGED caller /\ UNCHANGED container /\ UNCHANGED exit /\ UNCHANGED logs
      /\ UNCHANGED ctx /\ UNCHANGED taken /\ UNCHANGED panic
  BY DEF ScanEnds, StreamBreaks, Close
<1>. USE Frame
<1>2. Cmd' = Cmd /\ Last' = Last /\ Last \in Stages
  <2>1. activity \in Activities /\ step \in DOMAIN Commands[activity]
    BY TypeParts DEF LinesInv, ControlOK
  <2>2. Last \in {3, 4}
    BY <2>1, CmdType, Zenon
  <2>3. QED
    BY <1>1, <2>2, SameCmd DEF Stages
<1>3. \A k \in Stages : ended[k] => ended'[k]
  <2>1. ended \in [Stages -> BOOLEAN]
    BY LinesFacts
  <2>2. QED
    BY <2>1 DEF ScanEnds, StreamBreaks, ScannerEnds, Close
<1>4. Placed' /\ Fresh' /\ Waited' /\ Channel' /\ StatusTrue' /\ StatusRead' /\ LogChannelSafe'
  <2>1. Placed' /\ Fresh' /\ Waited' /\ Channel' /\ LogChannelSafe'
    BY <1>0, <1>1, <1>2, Zenon DEF CallInv, Placed, Fresh, Waited, Channel, LogChannelSafe
  <2>2. StatusTrue'
    BY <1>1, <1>2 DEF CallInv, StatusTrue
  <2>3. StatusRead'
    BY <1>1, <1>2 DEF CallInv, StatusRead
  <2>4. QED
    BY <2>1, <2>2, <2>3
<1>5. Ended'
  <2>1. 4 \in Stages
    BY DEF Stages
  <2>2. QED
    BY <1>0, <1>1, <1>2, <1>3, <2>1, Zenon DEF CallInv, Ended
<1>6. Quiet' => Quiet
  BY <1>1 DEF Quiet, NoLong
<1>7. EndClean'
  BY <1>1, <1>6, Zenon DEF CallInv, EndClean
<1>8. Streamed'
  <2>1. CASE ScanEnds
    <3>1. Quiet' => ctr = "exited" /\ ~ More
      <4>1. CASE More /\ printed[taken + 1] = "long"
        <5>1. taken + 1 \in DOMAIN printed
          BY <4>1, LinesFacts DEF More
        <5>2. QED
          BY <1>6, <4>1, <5>1 DEF Quiet, NoLong
      <4>2. CASE CallDone
        BY <1>6, <4>2 DEF Quiet, Calm, CallDone
      <4>3. QED
        BY <2>1, <4>1, <4>2, Zenon DEF ScanEnds
    <3>2. ~ More => taken = Len(printed)
      BY LinesFacts DEF More
    <3>3. QED
      BY <1>1, <3>1, <3>2 DEF Streamed
  <2>2. CASE \E i \in 1 .. 3 : Close(i)
    <3>1. ended[1] <=> ended'[1]
      <4>1. ended \in [Stages -> BOOLEAN] /\ 1 \in Stages
        BY LinesFacts DEF Stages
      <4>2. QED
        BY <2>2, <4>1 DEF Close
    <3>2. QED
      BY <1>1, <1>6, <3>1, Zenon DEF CallInv, Streamed
  <2>3. CASE StreamBreaks
    BY <2>3, Zenon DEF StreamBreaks, Streamed, Quiet, Calm
  <2>4. QED
    BY <2>1, <2>2, <2>3
<1>9. QED
  BY <1>4, <1>5, <1>7, <1>8 DEF CallInv

\* The container prints or exits: it runs, so that nothing has been concluded yet.
LEMMA CallContainer ==
  ASSUME CallInv, LinesInv, Exit \/ \E kind \in Kinds : Prints(kind), Calm' => Calm
  PROVE  CallInv'
<1>1. /\ UNCHANGED caller /\ UNCHANGED ctx /\ UNCHANGED pipe /\ UNCHANGED status
      /\ UNCHANGED copied /\ UNCHANGED logs /\ UNCHANGED panic /\ ctr = "running" /\ ctr' \in {"running", "exited"}
  BY Frame DEF Exit, Prints
<1>2. UNCHANGED hitch /\ UNCHANGED volumes
  BY Zenon DEF Exit, Prints
<1>. USE Frame
<1>3. Cmd' = Cmd /\ Last' = Last
  BY <1>1, SameCmd
<1>0. step \in Waiters
  BY StepWaits, TypeParts DEF LinesInv, ControlOK
<1>12. \A k \in Waiters : waiter'[k] = waiter[k] \/ (waiter[k] = "waiting" /\ waiter'[k] = "told")
  <2>1. CASE Exit
    <3>1. waiter' = [k \in Waiters |-> IF waiter[k] = "waiting" THEN "told" ELSE waiter[k]]
      BY <2>1 DEF Exit
    <3>2. QED
      BY <3>1
  <2>2. CASE \E kind \in Kinds : Prints(kind)
    BY <2>2, Frame DEF Prints
  <2>3. QED
    BY <2>1, <2>2
<1>4. Placed' /\ Ended' /\ Channel' /\ LogChannelSafe'
  BY <1>1, <1>2, <1>3, Zenon DEF CallInv, Placed, Ended, Channel, LogChannelSafe
<1>13. Fresh' /\ Waited'
  <2>1. Fresh'
    BY <1>0, <1>1, <1>12 DEF CallInv, Fresh
  <2>2. Waited'
    BY <1>0, <1>1, <1>3, <1>12 DEF CallInv, Waited
  <2>3. QED
    BY <2>1, <2>2
<1>5. NoLong' => NoLong
  <2>1. CASE \E kind \in Kinds : Prints(kind)
    <3>1. PICK kind \in Kinds : printed' = Append(printed, kind)
      BY <2>1 DEF Prints
    <3>2. printed \in Seq(Kinds)
      BY TypeParts DEF LinesInv, LinesOK
    <3>3. \A n \in DOMAIN printed : n \in DOMAIN printed' /\ printed'[n] = printed[n]
      BY <3>1, <3>2
    <3>4. QED
      BY <3>3 DEF NoLong
  <2>2. CASE Exit
    BY <2>2 DEF Exit, NoLong
  <2>3. QED
    BY <2>1, <2>2
<1>6. Quiet' => Quiet
  BY <1>5 DEF Quiet
<1>7. Streamed'
  BY <1>1, <1>6 DEF CallInv, Streamed
<1>8. StatusTrue'
  <2>1. ~ (Calm /\ status # NoStatus /\ place # "construct") /\ waiter[step] \notin {"told", "copying"}
    BY <1>1 DEF CallInv, StatusTrue
  <2>2. CASE Exit
    <3>1. ctr' # "running"
      BY <2>2 DEF Exit
    <3>2. QED
      BY <1>1, <2>1, <3>1 DEF StatusTrue
  <2>3. CASE \E kind \in Kinds : Prints(kind)
    <3>1. UNCHANGED waiter
      BY <2>3, Frame DEF Prints
    <3>2. QED
      BY <1>1, <2>1, <3>1 DEF StatusTrue
  <2>4. QED
    BY <2>2, <2>3
<1>9. StatusRead'
  BY <1>1, <1>3 DEF CallInv, StatusRead
<1>10. EndClean'
  <2>1. ~ (place = "end" /\ result # "panic" /\ Quiet)
    BY <1>1, Zenon DEF CallInv, EndClean
  <2>2. QED
    BY <1>1, <1>6, <2>1, Zenon DEF EndClean
<1>11. QED
  BY <1>4, <1>13, <1>7, <1>8, <1>9, <1>10 DEF CallInv

\* The goroutine that waits tells the code of a container that has exited, unless
\* something has failed or the context has ended.
LEMMA CallExits ==
  ASSUME CallInv, LinesInv, NEW k \in Waiters, Waiter(k) \/ WaitFails(k), Calm' => Calm
  PROVE  CallInv'
<1>1. /\ UNCHANGED caller /\ UNCHANGED ctx /\ UNCHANGED pipe /\ UNCHANGED container
      /\ UNCHANGED logs /\ UNCHANGED panic
      /\ waiter[k] \in {"waiting", "told", "deaf", "copying"}
  BY DEF Waiter, ExitSeen, CopyFiles, WaitFails, WaitCancelled
<1>2. ~ hitch' => ~ hitch
  BY Zenon DEF Waiter, ExitSeen, CopyFiles, WaitFails, WaitCancelled
<1>. USE Frame
<1>3. Cmd' = Cmd /\ Last' = Last
  BY <1>1, SameCmd
<1>4. Placed' /\ Ended' /\ Channel' /\ LogChannelSafe'
  BY <1>1, <1>2, <1>3, Zenon DEF CallInv, Placed, Ended, Channel, LogChannelSafe
<1>5. step \in Waiters /\ waiter \in [Waiters -> {"none", "waiting", "told", "deaf", "copying", "done"}]
  BY StepWaits, TypeParts DEF LinesInv, ControlOK
<1>6. /\ \A m \in Waiters : m # k => waiter'[m] = waiter[m]
      /\ \/ waiter'[k] = "done" /\ (k # step => UNCHANGED status)
         \/ waiter'[k] = "copying" /\ k = step /\ UNCHANGED status /\ ExitSeen(k) /\ Cmd.copies
  <2>1. CASE ExitSeen(k) /\ k = step /\ Cmd.copies
    BY <1>5, <2>1 DEF ExitSeen
  <2>2. CASE Complete(k, 0) \/ Complete(k, 1) \/ Complete(k, code)
    BY <1>5, <2>2 DEF Complete
  <2>3. QED
    BY <2>1, <2>2 DEF Waiter, ExitSeen, CopyFiles, WaitFails, WaitCancelled
<1>7. Fresh'
  <2>1. waiter[k] # "none"
    BY <1>1
  <2>2. ~ (k > step) /\ (place \in {"init", "construct", "start", "attach", "wait"} => k # step)
    BY <2>1 DEF CallInv, Fresh
  <2>3. QED
    BY <1>1, <1>5, <1>6, <2>2 DEF CallInv, Fresh
<1>8. Waited'
  <2>1. CASE k # step
    BY <1>1, <1>3, <1>5, <1>6, <2>1 DEF CallInv, Waited
  <2>2. CASE k = step
    <3>1. status = NoStatus /\ ~ (result \in {"ok", "error"} /\ Cmd.awaits)
      BY <1>1, <2>2 DEF CallInv, Waited
    <3>2. QED
      BY <1>1, <1>3, <1>6, <2>2, <3>1 DEF Waited
  <2>3. QED
    BY <2>1, <2>2
<1>9. Quiet' => Quiet
  BY <1>1 DEF Quiet, NoLong
<1>10. Streamed'
  BY <1>1, <1>9 DEF CallInv, Streamed
<1>11. EndClean'
  BY <1>1, <1>9, Zenon DEF CallInv, EndClean
<1>12. k = step => status = NoStatus
  BY <1>1 DEF CallInv, Waited
<1>13. StatusRead'
  <2>1. CASE k # step
    BY <1>1, <1>3, <1>6, <2>1, Zenon DEF CallInv, StatusRead
  <2>2. CASE k = step
    <3>1. ~ (result = "ok" /\ Calm /\ Cmd.awaits)
      BY <1>12, <2>2 DEF CallInv, StatusRead, NoStatus
    <3>2. QED
      BY <1>1, <1>3, <3>1, Zenon DEF StatusRead
  <2>3. QED
    BY <2>1, <2>2
<1>14. StatusTrue'
  <2>1. CASE k # step
    <3>1. UNCHANGED status /\ waiter'[step] = waiter[step]
      BY <1>5, <1>6, <2>1
    <3>2. Calm' => copied' = copied \/ copied' = TRUE
      BY Frame, Zenon DEF Waiter, ExitSeen, CopyFiles, WaitFails, WaitCancelled
    <3>3. QED
      BY <1>1, <1>3, <3>1, <3>2 DEF CallInv, StatusTrue
  <2>2. CASE k = step /\ ExitSeen(k) /\ Cmd.copies
    <3>1. waiter'[step] = "copying" /\ UNCHANGED status /\ ctr # "running"
      BY <1>5, <2>2 DEF ExitSeen, CallInv, StatusTrue
    <3>2. QED
      BY <1>1, <1>12, <2>2, <3>1 DEF StatusTrue
  <2>3. CASE k = step /\ ExitSeen(k) /\ ~ Cmd.copies
    <3>1. waiter'[step] = "done" /\ status' = code /\ ctr # "running"
      BY <1>5, <2>3 DEF ExitSeen, Complete, CallInv, StatusTrue
    <3>2. QED
      BY <1>1, <1>3, <2>3, <3>1 DEF StatusTrue
  <2>4. CASE k = step /\ CopyFiles(k)
    <3>1. waiter'[step] = "done" /\ status' = code /\ ctr # "running"
      BY <1>5, <2>4 DEF CopyFiles, Complete, CallInv, StatusTrue
    <3>2. Calm' => copied' = TRUE
      BY <2>4, Zenon DEF CopyFiles, Calm
    <3>3. QED
      BY <1>1, <3>1, <3>2 DEF StatusTrue
  <2>5. CASE k = step /\ (WaitFails(k) \/ WaitCancelled(k))
    <3>1. ~ Calm'
      <4>1. hitch' = TRUE \/ ctx = "done"
        BY <2>5, Zenon DEF WaitFails, WaitCancelled
      <4>2. QED
        BY <1>1, <4>1 DEF Calm
    <3>2. waiter'[step] = "done"
      BY <1>5, <2>5 DEF WaitFails, WaitCancelled, Complete
    <3>3. QED
      BY <1>1, <3>1, <3>2 DEF StatusTrue
  <2>6. QED
    BY <2>1, <2>2, <2>3, <2>4, <2>5 DEF Waiter
<1>15. QED
  BY <1>4, <1>7, <1>8, <1>10, <1>11, <1>13, <1>14 DEF CallInv

LEMMA CallConnects ==
  ASSUME CallInv, LinesInv, Connect
  PROVE  CallInv'
<1>1. /\ place = "init" /\ UNCHANGED ctx /\ UNCHANGED container /\ UNCHANGED pipe
      /\ UNCHANGED exit /\ UNCHANGED panic /\ UNCHANGED activity /\ UNCHANGED step
      /\ \/ place' = "construct" /\ UNCHANGED result /\ logChan' = "open" /\ UNCHANGED hitch
         \/ place' = "teardown" /\ result' = "error" /\ logChan' = "open" /\ UNCHANGED hitch
         \/ place' = "teardown" /\ result' = "error" /\ UNCHANGED logChan /\ hitch' = TRUE
  BY Frame DEF Connect, At, Goto, End
<1>2. ~ hitch' => ~ hitch
  BY Zenon DEF Connect
<1>. USE Frame
<1>3. Cmd' = Cmd /\ Last' = Last
  BY <1>1, SameCmd
<1>4. /\ result = "none" /\ (\A i \in Stages : ended[i]) /\ logChan # "closed"
      /\ waiter[step] = "none" /\ status = NoStatus
  BY <1>1 DEF CallInv, Placed, Ended, Channel, Fresh
<1>5. Placed' /\ Fresh' /\ Waited' /\ LogChannelSafe'
  BY <1>1, <1>4 DEF Placed, Fresh, Waited, LogChannelSafe, CallInv
<1>6. Ended'
  BY <1>1, <1>3, <1>4 DEF Ended, CallInv
<1>7. Channel'
  BY <1>1, <1>4 DEF Channel
<1>8. Calm' => Calm
  BY <1>1, <1>2 DEF Calm
<1>9. Streamed'
  <2>1. Quiet' => Quiet
    BY <1>1, <1>8 DEF Quiet, NoLong
  <2>2. QED
    BY <1>1, <2>1 DEF CallInv, Streamed
<1>10. StatusTrue'
  BY <1>1, <1>4 DEF StatusTrue
<1>11. StatusRead' /\ EndClean'
  BY <1>1, <1>4 DEF StatusRead, EndClean
<1>12. QED
  BY <1>5, <1>6, <1>7, <1>9, <1>10, <1>11 DEF CallInv

\* A command is constructed and started: nothing runs in it before Attach, or the
\* activity ends because something of Docker has failed.
LEMMA CallConstructs ==
  ASSUME CallInv, LinesInv, Construct \/ Start, Calm' => Calm
  PROVE  CallInv'
<1>1. /\ UNCHANGED activity /\ UNCHANGED step /\ UNCHANGED panic /\ UNCHANGED logChan
      /\ place \in {"construct", "start"} /\ UNCHANGED ctx
      /\ \/ place' \in {"start", "attach"} /\ UNCHANGED result /\ UNCHANGED hitch
         \/ place' = "teardown" /\ result' = "error" /\ hitch' = TRUE
  BY Frame DEF Construct, Start, At, Goto, End
<1>2. /\ result = "none" /\ logChan # "closed" /\ (\A i \in Stages : ended[i])
      /\ waiter[step] = "none" /\ (place = "start" => status = NoStatus)
  BY <1>1 DEF CallInv, Placed, Channel, Ended, Fresh
<1>3. Cmd' = Cmd /\ Last' = Last
  BY <1>1, SameCmd
<1>4. /\ UNCHANGED waiter
      /\ \/ UNCHANGED status /\ UNCHANGED ended /\ UNCHANGED copied
         \/ status' = NoStatus /\ ended' = [i \in Stages |-> TRUE]
  BY Frame, Zenon DEF Construct, FreshCommand, Start
<1>5. Placed' /\ LogChannelSafe'
  BY <1>1, <1>2 DEF Placed, CallInv, LogChannelSafe
<1>6. \A i \in Stages : ended'[i]
  BY <1>2, <1>4
<1>7. Ended'
  BY <1>6 DEF Ended, Stages
<1>8. Channel'
  BY <1>1, <1>2 DEF CallInv, Channel
<1>9. place' \in {"start", "attach"} => status' = NoStatus
  <2>1. CASE Construct
    BY <1>1, <2>1 DEF Construct, FreshCommand, End, Goto, At
  <2>2. CASE Start
    BY <1>1, <1>2, <2>2, Frame DEF Start, At
  <2>3. QED
    BY <2>1, <2>2
<1>10. Fresh' /\ Waited' /\ Streamed'
  BY <1>1, <1>2, <1>4, <1>9 DEF CallInv, Fresh, Waited, Streamed, Quiet, Calm
<1>11. StatusTrue'
  <2>1. Calm' => status' = NoStatus
    BY <1>1, <1>9 DEF Calm
  <2>2. QED
    BY <1>1, <1>2, <1>4, <2>1 DEF StatusTrue
<1>12. StatusRead' /\ EndClean'
  BY <1>1, <1>2 DEF StatusRead, EndClean
<1>13. QED
  BY <1>5, <1>7, <1>8, <1>10, <1>11, <1>12 DEF CallInv

LEMMA CallAttaches ==
  ASSUME CallInv, LinesInv, Attach \/ Wait, Calm' => Calm
  PROVE  CallInv'
<1>0. step \in Waiters /\ waiter \in [Waiters -> {"none", "waiting", "told", "deaf", "copying", "done"}]
  BY StepWaits, TypeParts DEF LinesInv, ControlOK
<1>1. /\ UNCHANGED activity /\ UNCHANGED step /\ UNCHANGED panic /\ UNCHANGED logs
      /\ UNCHANGED ctx /\ UNCHANGED container /\ UNCHANGED status /\ UNCHANGED taken
      /\ place \in {"attach", "wait"}
      /\ \/ place' = "wait" /\ UNCHANGED result /\ UNCHANGED waiter
              /\ ended' = [i \in Stages |-> i > Last]
         \/ place' = "read" /\ UNCHANGED result /\ place = "wait" /\ UNCHANGED ended
              /\ waiter' = [waiter EXCEPT ![step] = IF ctr = "exited" THEN "deaf" ELSE "waiting"]
         \/ place' = "teardown" /\ result' = "error" /\ hitch' = TRUE /\ UNCHANGED waiter
              /\ place = "attach" /\ UNCHANGED ended
  BY Frame DEF Attach, Wait, At, Goto, End
<1>2. /\ result = "none" /\ logChan # "closed" /\ waiter[step] = "none" /\ status = NoStatus
      /\ (place = "attach" => \A i \in Stages : ended[i])
  BY <1>1 DEF CallInv, Placed, Channel, Ended, Fresh
<1>. USE Frame
<1>3. Cmd' = Cmd /\ Last' = Last
  BY <1>1, SameCmd
<1>4. Placed' /\ LogChannelSafe'
  BY <1>1, <1>2 DEF Placed, CallInv, LogChannelSafe
<1>5. Ended'
  <2>1. CASE ended' = [i \in Stages |-> i > Last] /\ place' = "wait" /\ UNCHANGED result
    <3>1. activity \in Activities /\ step \in DOMAIN Commands[activity]
      BY TypeParts DEF LinesInv, ControlOK
    <3>2. Last \in {3, 4} /\ (Last = 3 <=> ~ Cmd.stream)
      BY <3>1, CmdType, Zenon
    <3>3. Last = 3 => ended'[4]
      <4>1. ended'[4] = (4 > Last)
        BY <2>1 DEF Stages
      <4>2. Last = 3 => 4 > Last
        OBVIOUS
      <4>3. QED
        BY <4>1, <4>2
    <3>4. ~ (Cmd').stream => ended'[4]
      BY <1>3, <3>2, <3>3
    <3>5. place' = "wait" /\ result' = "none"
      BY <1>2, <2>1
    <3>6. QED
      BY <3>4, <3>5 DEF Ended
  <2>2. CASE UNCHANGED ended /\ place' = "read" /\ UNCHANGED result
    BY <1>2, <1>3, <2>2 DEF CallInv, Ended
  <2>3. CASE UNCHANGED ended /\ place' = "teardown" /\ place = "attach"
    BY <1>2, <1>3, <2>3 DEF CallInv, Ended
  <2>4. QED
    BY <1>1, <2>1, <2>2, <2>3
<1>6. Channel'
  <2>1. ~ hitch' => ~ hitch
    BY Zenon DEF Attach, Wait
  <2>2. QED
    BY <1>1, <1>2, <2>1 DEF CallInv, Channel
<1>7. Fresh'
  BY <1>0, <1>1, <1>2 DEF CallInv, Fresh, Waiters
<1>8. waiter'[step] \notin {"told", "copying"} /\ (place' = "teardown" => waiter'[step] = "none")
  BY <1>0, <1>1, <1>2
<1>9. Waited' /\ StatusTrue' /\ StatusRead' /\ EndClean'
  BY <1>1, <1>2, <1>8 DEF Waited, StatusTrue, StatusRead, EndClean
<1>10. Streamed'
  <2>1. CASE place' = "wait"
    <3>1. ~ ended'[1]
      <4>1. activity \in Activities /\ step \in DOMAIN Commands[activity]
        BY TypeParts DEF LinesInv, ControlOK
      <4>2. Last \in {3, 4}
        BY <4>1, CmdType, Zenon
      <4>3. ended'[1] = (1 > Last) /\ ~ (1 > Last)
        BY <1>1, <2>1, <4>2 DEF Stages
      <4>4. QED
        BY <4>3
    <3>2. QED
      BY <3>1 DEF Streamed
  <2>2. CASE place' = "read"
    <3>1. Quiet' => Quiet
      BY <1>1 DEF Quiet, NoLong
    <3>2. QED
      BY <1>1, <2>2, <3>1 DEF CallInv, Streamed
  <2>3. CASE place' = "teardown"
    BY <1>1, <2>3 DEF Streamed, Quiet, Calm
  <2>4. QED
    BY <1>1, <2>1, <2>2, <2>3
<1>11. QED
  BY <1>4, <1>5, <1>6, <1>7, <1>9, <1>10 DEF CallInv

\* The activity ends, or goes on to the next command, when the last goroutine has
\* closed, and well only with status 0 where it reads the status.
LEMMA CallReads ==
  ASSUME CallInv, LinesInv, ReadAll \/ ReadStatus
  PROVE  CallInv'
<1>1. /\ UNCHANGED ctx /\ UNCHANGED container /\ UNCHANGED pipe /\ UNCHANGED exit
      /\ UNCHANGED logs /\ UNCHANGED panic /\ place \in {"read", "status"}
  BY DEF ReadAll, ReadStatus, At
<1>2. UNCHANGED hitch
  BY Zenon DEF ReadAll, ReadStatus
<1>. USE Frame
<1>3. result = "none" /\ logChan # "closed"
  BY <1>1 DEF CallInv, Placed, Channel
<1>4. activity \in Activities /\ step \in DOMAIN Commands[activity] /\ ControlOK
  BY TypeParts DEF LinesInv, ControlOK
<1>5. step \in Waiters /\ Waiters = 1 .. 2
  BY <1>4, StepWaits DEF Waiters
<1>6. \A i \in Stages : ended[i]
  <2>1. CASE ReadAll
    BY <2>1, AllEnded DEF ReadAll, CallInv
  <2>2. CASE ReadStatus
    BY <2>2 DEF ReadStatus, CallInv, Ended, At
  <2>3. QED
    BY <2>1, <2>2
<1>7. \/ place' = "status" /\ UNCHANGED result /\ UNCHANGED activity /\ UNCHANGED step
      \/ place' = "construct" /\ UNCHANGED result /\ (Cmd').stream
           /\ step' = step + 1 /\ step' \in DOMAIN Commands[activity']
           /\ UNCHANGED activity
      \/ place' = "teardown" /\ result' \in {"ok", "error"}
           /\ UNCHANGED activity /\ UNCHANGED step
           /\ (result' = "ok" /\ Cmd.awaits => status = 0)
           /\ (Cmd.awaits => status # NoStatus)
  <2>1. CASE Proceed /\ (Cmd.awaits => status = 0)
    <3>1. CASE step < Len(Commands[activity]) /\ step' = step + 1 /\ place' = "construct"
                 /\ UNCHANGED <<activity, result>>
      <4>1. (Cmd').stream /\ step' \in DOMAIN Commands[activity']
        BY <1>4, <3>1, NextCmd, Zenon
      <4>2. QED
        BY <3>1, <4>1
    <3>2. CASE End("ok") \/ End("error")
      BY <2>1, <3>2 DEF End, NoStatus
    <3>3. QED
      BY <2>1, <3>1, <3>2 DEF Proceed
  <2>2. CASE End("error") /\ (Cmd.awaits => status # NoStatus)
    BY <2>2 DEF End
  <2>3. CASE Goto("status")
    BY <2>3 DEF Goto
  <2>4. QED
    <3>1. CASE ReadAll
      <4>1. Cmd.awaits => Cmd.stream
        BY <1>4, CmdParts, Zenon
      <4>2. QED
        BY <3>1, <4>1, <2>1, <2>2, <2>3 DEF ReadAll
    <3>2. CASE ReadStatus
      BY <3>2, <2>1, <2>2 DEF ReadStatus
    <3>3. QED
      BY <3>1, <3>2
<1>8. place' \in {"status", "teardown"} => Cmd' = Cmd /\ Last' = Last
  BY <1>7, SameCmd
<1>9. Placed' /\ LogChannelSafe'
  BY <1>1, <1>3, <1>7 DEF Placed, CallInv, LogChannelSafe
<1>10. Ended' /\ Fresh' /\ Waited'
  <2>1. Ended'
    BY <1>1, <1>6 DEF Ended, Stages
  <2>2. CASE place' = "construct"
    <3>1. step' \in Waiters /\ step' = step + 1 /\ step \in 1 .. 2
      BY <1>4, <1>5, <1>7, <2>2, StepWaits DEF ControlOK, Waiters
    <3>2. \A k \in Waiters : k >= step' => waiter'[k] = "none"
      BY <1>1, <1>5, <3>1 DEF CallInv, Fresh
    <3>3. QED
      BY <1>1, <1>3, <1>7, <2>1, <2>2, <3>1, <3>2 DEF Fresh, Waited, Waiters
  <2>3. CASE place' \in {"status", "teardown"}
    <3>1. Fresh'
      BY <1>1, <1>7, <2>3 DEF CallInv, Fresh
    <3>2. Waited'
      BY <1>1, <1>3, <1>7, <1>8, <2>3 DEF CallInv, Waited
    <3>3. QED
      BY <2>1, <3>1, <3>2
  <2>4. QED
    BY <1>7, <2>2, <2>3
<1>11. Channel'
  BY <1>1, <1>2, <1>3, <1>7 DEF CallInv, Channel
<1>12. Calm' <=> Calm
  BY <1>1, <1>2 DEF Calm
<1>13. Streamed'
  <2>1. Quiet' => Quiet
    BY <1>1, <1>12 DEF Quiet, NoLong
  <2>2. QED
    BY <1>1, <1>7, <2>1 DEF CallInv, Streamed
<1>14. StatusTrue'
  <2>1. CASE place' = "construct"
    BY <1>10, <2>1 DEF StatusTrue, Fresh
  <2>2. CASE place' \in {"status", "teardown"}
    BY <1>1, <1>7, <1>8, <1>12, <2>2 DEF CallInv, StatusTrue
  <2>3. QED
    BY <1>7, <2>1, <2>2
<1>15. StatusRead'
  BY <1>1, <1>3, <1>7, <1>8 DEF StatusRead
<1>16. EndClean'
  BY <1>7 DEF EndClean
<1>17. QED
  BY <1>9, <1>10, <1>11, <1>13, <1>14, <1>15, <1>16 DEF CallInv

LEMMA CallPanics ==
  ASSUME CallInv, ActivityPanics
  PROVE  CallInv'
<1>1. /\ UNCHANGED activity /\ UNCHANGED step /\ UNCHANGED ctx /\ UNCHANGED container
      /\ UNCHANGED taken /\ UNCHANGED ended /\ UNCHANGED exit /\ UNCHANGED logs
      /\ place = "read" /\ place' = "teardown" /\ result' = "panic"
      /\ activity = "detect"
  BY DEF ActivityPanics, At, End
<1>2. UNCHANGED hitch
  BY Zenon DEF ActivityPanics
<1>. USE Frame
<1>3. Cmd' = Cmd
  BY <1>1, SameCmd
<1>4. Calm' <=> Calm
  BY <1>1, <1>2 DEF Calm
<1>5. Placed' /\ LogChannelSafe' /\ StatusRead' /\ EndClean'
  BY <1>1 DEF Placed, LogChannelSafe, StatusRead, EndClean
<1>10. Ended' /\ Fresh' /\ Waited'
  BY <1>1, <1>3 DEF CallInv, Ended, Fresh, Waited
<1>6. Channel'
  BY <1>1, <1>2 DEF CallInv, Channel
<1>7. Streamed'
  <2>1. Quiet' => Quiet
    BY <1>1, <1>4 DEF Quiet, NoLong
  <2>2. QED
    BY <1>1, <2>1 DEF CallInv, Streamed
<1>8. StatusTrue'
  BY <1>1, <1>3, <1>4 DEF CallInv, StatusTrue
<1>9. QED
  BY <1>5, <1>6, <1>7, <1>8, <1>10 DEF CallInv

\* Teardown finds no running container unless something has failed, and then frees all.
LEMMA CallTearsDown ==
  ASSUME CallInv, LinesInv, Teardown, Calm' => Calm
  PROVE  CallInv'
<1>1. /\ UNCHANGED activity /\ UNCHANGED step /\ UNCHANGED result /\ UNCHANGED ctx
      /\ UNCHANGED printed /\ UNCHANGED code /\ UNCHANGED pipe /\ UNCHANGED exit
      /\ UNCHANGED panic /\ place = "teardown" /\ place' = "end" /\ ctr' \in {ctr, "none"}
  BY DEF Teardown, At, Goto
<1>. USE Frame
<1>2. Cmd' = Cmd /\ Last' = Last /\ result # "none" /\ logChan # "closed"
  BY <1>1, SameCmd DEF CallInv, Placed, Channel
<1>3. ~ hitch' => ~ hitch
  BY Zenon DEF Teardown
<1>4. Quiet' => Quiet
  BY <1>1 DEF Quiet, NoLong
<1>5. Placed' /\ Fresh' /\ Channel'
  BY <1>1, <1>2 DEF CallInv, Placed, Fresh, Channel
<1>6. Ended' /\ Waited'
  BY <1>1, <1>2 DEF CallInv, Ended, Waited
<1>7. LogChannelSafe'
  BY <1>1 DEF CallInv, LogChannelSafe
<1>8. Streamed'
  BY <1>1, <1>4 DEF CallInv, Streamed
<1>9. StatusTrue'
  BY <1>1, <1>2 DEF CallInv, StatusTrue
<1>10. StatusRead'
  BY <1>1, <1>2 DEF CallInv, StatusRead
<1>11. EndClean'
  <2>. SUFFICES ASSUME result # "panic", Quiet'
                PROVE  ctr' = "none" /\ ~ volumes' /\ logChan' = "closed"
    BY <1>1 DEF EndClean
  <2>1. ~ hitch /\ ~ hitch' /\ ctx = "live" /\ Quiet
    BY <1>1, <1>3, <1>4 DEF Quiet, Calm
  <2>2. logChan = "open"
    BY <1>1, <2>1 DEF CallInv, Channel
  <2>3. result \in {"ok", "error"}
    BY <1>2, TypeParts DEF LinesInv, ControlOK
  <2>5. ended[1]
    BY <2>3 DEF CallInv, Ended, Stages
  <2>6. ctr # "running"
    BY <1>1, <2>1, <2>5 DEF CallInv, Streamed
  <2>7. ctr' = "none" /\ volumes' = FALSE /\ logChan' = "closed"
    <3>1. CASE ctr' = "none" /\ (volumes' = FALSE \/ hitch' = TRUE)
                 /\ logChan' = IF logChan = "open" THEN "closed" ELSE logChan
      BY <2>1, <2>2, <3>1
    <3>2. CASE hitch' = (hitch \/ ctr # "running")
      BY <2>1, <2>6, <3>2
    <3>3. QED
      BY <3>1, <3>2, Zenon DEF Teardown
  <2>8. QED
    BY <2>7
<1>12. QED
  BY <1>5, <1>6, <1>7, <1>8, <1>9, <1>10, <1>11 DEF CallInv

LEMMA CallNext == ASSUME LinesInv, CallInv, [Next]_vars PROVE CallInv'
<1>1. Calm' => Calm
  BY CalmBack, TypeParts DEF LinesInv
<1>2. CASE Receive \/ ContextEnds \/ Scan \/ (\E i \in 1 .. 3 : Pass(i)) \/ WrongType
           \/ ReaderEnds \/ SendLog \/ UNCHANGED vars
  <2>1. /\ UNCHANGED caller /\ UNCHANGED container /\ UNCHANGED exit /\ UNCHANGED logChan
        /\ UNCHANGED ended /\ (Scan \/ UNCHANGED taken)
    BY <1>2, Frame DEF Receive, ContextEnds, Scan, Pass, WrongType, ReaderEnds, SendLog, vars
  <2>2. UNCHANGED hitch
    BY <1>2, Zenon DEF Receive, ContextEnds, Scan, Pass, WrongType, ReaderEnds, SendLog, vars
  <2>3. LogChannelSafe'
    <3>1. CASE panic' = panic
      BY <2>1, <3>1, Frame DEF CallInv, LogChannelSafe
    <3>2. CASE panic' = "nil dereference"
      BY <3>2 DEF LogChannelSafe
    <3>3. CASE SendLog /\ logChan = "closed"
      <4>1. ~ ended[3]
        <5>1. 3 \in Stages
          BY DEF Stages
        <5>2. hand[3] # 0
          BY <3>3, Zenon DEF SendLog
        <5>3. QED
          BY <5>1, <5>2, LinesFacts
      <4>2. result \notin {"none", "ok", "error"}
        BY <3>3, <4>1 DEF CallInv, Channel, Placed, Ended, Stages
      <4>3. result = "panic"
        BY <4>2, TypeParts DEF LinesInv, ControlOK
      <4>4. QED
        BY <2>1, <4>3, Frame DEF LogChannelSafe, CallInv, Placed
    <3>4. QED
      BY <1>2, <3>1, <3>2, <3>3
         DEF Receive, ContextEnds, Scan, Pass, WrongType, ReaderEnds, SendLog, vars
  <2>4. CASE UNCHANGED taken
    BY <1>1, <2>1, <2>2, <2>3, <2>4, CallStutter
  <2>5. CASE Scan
    <3>1. ~ ended[1] /\ UNCHANGED ctx
      BY <2>5 DEF Scan
    <3>. USE Frame
    <3>2. Cmd' = Cmd /\ Last' = Last
      BY <2>1, SameCmd
    <3>3. Streamed'
      BY <2>1, <3>1 DEF Streamed
    <3>4. Placed' /\ Ended' /\ Fresh' /\ Waited' /\ Channel'
      BY <2>1, <2>2, <3>2, Zenon DEF CallInv, Placed, Ended, Fresh, Waited, Channel
    <3>5. StatusTrue'
      BY <1>1, <2>1, <3>2 DEF CallInv, StatusTrue
    <3>6. StatusRead'
      BY <1>1, <2>1, <3>2 DEF CallInv, StatusRead
    <3>7. Quiet' => Quiet
      BY <1>1, <2>1 DEF Quiet, NoLong
    <3>8. EndClean'
      BY <2>1, <3>7, Zenon DEF CallInv, EndClean
    <3>9. QED
      BY <2>3, <3>3, <3>4, <3>5, <3>6, <3>8 DEF CallInv
  <2>6. QED
    BY <2>1, <2>4, <2>5
<1>3. CASE ScanEnds \/ StreamBreaks \/ \E i \in 1 .. 3 : Close(i)
  BY <1>1, <1>3, CallCloses
<1>4. CASE Exit \/ \E kind \in Kinds : Prints(kind)
  BY <1>1, <1>4, CallContainer
<1>5. CASE \E k \in Waiters : Waiter(k) \/ WaitFails(k)
  BY <1>1, <1>5, CallExits
<1>6. CASE Connect
  BY <1>6, CallConnects
<1>7. CASE Construct \/ Start
  BY <1>1, <1>7, CallConstructs
<1>8. CASE Attach \/ Wait
  BY <1>1, <1>8, CallAttaches
<1>9. CASE ReadAll \/ ReadStatus
  BY <1>9, CallReads
<1>10. CASE ActivityPanics
  BY <1>10, CallPanics
<1>11. CASE Teardown
  BY <1>1, <1>11, CallTearsDown
<1>12. QED
  BY <1>2, <1>3, <1>4, <1>5, <1>6, <1>7, <1>8, <1>9, <1>10, <1>11
     DEF Next, Activity, Goroutine

\* The invariant of the activity.
THEOREM CallInvariance == Spec => [](LinesInv /\ CallInv)
<1>1. Init => LinesInv /\ CallInv
  BY LinesInit, CallInit
<1>2. (LinesInv /\ CallInv) /\ [Next]_vars => (LinesInv /\ CallInv)'
  BY LinesNext, CallNext
<1>3. QED
  BY <1>1, <1>2, PTL DEF Spec

\* Teardown closes the channel of the logs under collectLogs only in a DetectDataSources
\* activity that has itself panicked over a record (there it does).  An activity that has
\* returned otherwise has no goroutine left that hands on lines or waits for an exit code
\* that is awaited, whatever has failed and whenever its context ended; and if Docker has
\* not failed, the context lives and no line was too long, neither container nor volume,
\* and the channel is closed.
THEOREM TeardownIsClean == Spec => []TornDown
<1>1. LinesInv /\ CallInv => LogChannelSafe
  BY DEF CallInv
<1>2. LinesInv /\ CallInv => CleansUp
  <2>. SUFFICES ASSUME LinesInv, CallInv, place = "end", result # "panic"
                PROVE  /\ \A i \in Stages : ended[i]
                       /\ \A k \in Waiters : Awaited(k) => waiter[k] \in {"none", "done"}
                       /\ Undisturbed => ctr = "none" /\ ~ volumes /\ logChan = "closed"
    BY Zenon DEF CleansUp
  <2>1. Undisturbed => ctr = "none" /\ ~ volumes /\ logChan = "closed"
    BY Zenon DEF CallInv, EndClean, Quiet, Calm, NoLong, Undisturbed
  <2>2. result \in {"ok", "error"}
    BY TypeParts DEF LinesInv, ControlOK, CallInv, Placed
  <2>3. \A i \in Stages : ended[i]
    BY <2>2, Zenon DEF CallInv, Ended
  <2>4. ASSUME NEW k \in Waiters, Awaited(k) PROVE waiter[k] \in {"none", "done"}
    <3>1. activity \in Activities /\ step \in DOMAIN Commands[activity]
      BY TypeParts DEF LinesInv, ControlOK
    <3>2. k > step \/ (k = step /\ Cmd.awaits)
      BY <2>4, <3>1, AwaitedIsLast
    <3>3. QED
      BY <2>2, <3>2 DEF CallInv, Fresh, Waited
  <2>5. QED
    BY <2>1, <2>3, <2>4
<1>3. LinesInv /\ CallInv => TornDown
  BY <1>1, <1>2 DEF TornDown
<1>4. QED
  BY <1>3, CallInvariance, PTL

\* An activity that ends well has received every message, of a container that exited with
\* code 0 after its files were copied, if no call to Docker has failed and no stream has
\* broken, the context of the activity lives and no line was too long.  (In each of those
\* cases it may end well without.)
THEOREM GoodEnds == Spec => []EndsWell
<1>1. LinesInv /\ CallInv => EndsWell
  <2>. SUFFICES ASSUME LinesInv, CallInv, result = "ok", ~ hitch, ctx = "live", NoLong
                PROVE  got = Data /\ (Cmd.awaits => code = 0) /\ (Cmd.copies => copied)
    BY Zenon DEF EndsWell, Undisturbed, NoLong
  <2>1. Calm /\ Quiet
    BY DEF Quiet, Calm
  <2>2. \A i \in Stages : ended[i]
    BY DEF CallInv, Ended
  <2>3. place \in {"teardown", "end"}
    BY DEF CallInv, Placed
  <2>4. activity \in Activities /\ step \in DOMAIN Commands[activity]
    BY TypeParts DEF LinesInv, ControlOK
  <2>5. \A i \in Stages : hand[i] = 0
    BY <2>2 DEF LinesInv, Chain
  <2>6. taken = Len(printed)
    <3>1. ended[1]
      BY <2>2 DEF Stages
    <3>2. QED
      BY <2>1, <2>3, <3>1 DEF CallInv, Streamed
  <2>7. got = Data
    <3>1. \A n \in Data : n # 0 /\ n <= taken
      BY <2>6, LinesFacts DEF Data
    <3>2. Data \subseteq got
      BY <2>5, <3>1 DEF LinesInv, LinesKept
    <3>3. got \subseteq Data
      BY DEF LinesInv, Scanned
    <3>4. QED
      BY <3>2, <3>3
  <2>8. Cmd.awaits => status = 0
    BY <2>1 DEF CallInv, StatusRead
  <2>9. status = 0 => code = 0 /\ (Cmd.copies => copied)
    <3>1. 0 # NoStatus
      BY DEF NoStatus
    <3>2. QED
      BY <2>1, <2>3, <3>1 DEF CallInv, StatusTrue
  <2>10. Cmd.copies => Cmd.awaits
    BY <2>4, CmdParts, Zenon
  <2>11. QED
    BY <2>7, <2>8, <2>9, <2>10, Zenon
<1>2. QED
  BY <1>1, CallInvariance, PTL
=============================================================================
