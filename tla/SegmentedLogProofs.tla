------------------------- MODULE SegmentedLogProofs -------------------------
(***************************************************************************)
(* Theorems about SegmentedLog, for any number of attempts and lines: no   *)
(* line is lost but by a fault, and readers see the lines of an attempt in *)
(* their order, and all of them while it is alone and nothing fails.       *)
(***************************************************************************)
EXTENDS SegmentedLog, SequenceTheorems, FiniteSetTheorems, TLAPS

\* How many lines of an attempt no longer wait.
Gone(a) == written[a] - Len(held[a]) - Len(buffer[a])

\* The object that the attempt writes next: a segment, or a place in the file.
NextOf(a) == IF local THEN written[a] ELSE segment[a]

\* The lines that wait are the last ones, in their order.
Waits(a) ==
  /\ Gone(a) \in Nat
  /\ \A i \in 1 .. Len(held[a]) : held[a][i] = <<a, Gone(a) + i>>
  /\ \A i \in 1 .. Len(buffer[a]) : buffer[a][i] = <<a, Gone(a) + Len(held[a]) + i>>

\* The others are stored or lost.
Kept(a) ==
  /\ stored[a] \cup dropped[a] = 1 .. Gone(a)
  /\ stored[a] \cap dropped[a] = {}

\* Where the goroutine of a writer is, and why the numbers of the segments are bounded:
\* each push but the last has lines or is one of MaxEmpty.
Paced(a) ==
  /\ pump[a] # "push" => held[a] = << >>
  /\ local => pump[a] = "off" /\ buffer[a] = << >>
  /\ segment[a] <= MaxEmpty + Gone(a) + (IF pump[a] = "off" THEN 1 ELSE 0)
  /\ pump[a] = "swap" /\ task[a] # "over" => buffer[a] # << >> \/ segment[a] < MaxEmpty
  /\ pump[a] = "push" /\ task[a] # "over" => held[a] # << >> \/ segment[a] < MaxEmpty
  /\ task[a] = "none" => pump[a] = "off" /\ segment[a] = 0

WriterInv(a) == Waits(a) /\ Kept(a) /\ Paced(a)

\* The same for all attempts.
gone == [a \in Attempts |-> Gone(a)]
next == [a \in Attempts |-> NextOf(a)]

\* What the store holds of an attempt was taken by it, and is in the order of the objects.
ObjectsSorted ==
  /\ \A i \in DOMAIN object : \A k \in DOMAIN object[i] :
       /\ object[i][k][2] <= gone[object[i][k][1]]
       /\ i < next[object[i][k][1]]
  /\ \A i \in DOMAIN object : \A k, l \in DOMAIN object[i] :
       k < l /\ object[i][k][1] = object[i][l][1] => object[i][k][2] < object[i][l][2]
  /\ \A i, j \in DOMAIN object : i < j =>
       \A k \in DOMAIN object[i], l \in DOMAIN object[j] :
         object[i][k][1] = object[j][l][1] => object[i][k][2] < object[j][l][2]

\* A reader has read nothing of an attempt that comes after what it has still to read.
ReaderBehind ==
  /\ \A k \in DOMAIN reader.lines : reader.lines[k][2] <= gone[reader.lines[k][1]]
  /\ \A j \in reader.todo \cap DOMAIN object : \A k \in DOMAIN reader.lines, l \in DOMAIN object[j] :
       reader.lines[k][1] = object[j][l][1] => reader.lines[k][2] < object[j][l][2]

IInv ==
  /\ TypeOK
  /\ \A a \in Attempts : WriterInv(a)
  /\ ObjectsSorted /\ ReaderBehind /\ ReadInOrder

-----------------------------------------------------------------------------
USE LogAssumption

View(a) == <<task[a], written[a], buffer[a], pump[a], held[a], segment[a], stored[a], dropped[a]>>

LEMMA LineParts ==
  ASSUME NEW x \in Lines
  PROVE  x[1] \in Attempts /\ x[2] \in 1 .. MaxLines /\ x = <<x[1], x[2]>>
BY DEF Lines

\* The numbers of consecutive lines are an interval.
LEMMA NumbersInterval ==
  ASSUME NEW a \in Attempts, NEW g \in Nat, NEW s \in Seq(Lines),
         \A i \in 1 .. Len(s) : s[i] = <<a, g + i>>
  PROVE  NumbersOf(s) = (g + 1) .. (g + Len(s))
<1>1. DOMAIN s = 1 .. Len(s) /\ Len(s) \in Nat
  OBVIOUS
<1>2. \A i \in 1 .. Len(s) : s[i][2] = g + i
  OBVIOUS
<1>3. NumbersOf(s) = {g + i : i \in 1 .. Len(s)}
  BY <1>1, <1>2, Zenon DEF NumbersOf
<1>4. ASSUME NEW n \in (g + 1) .. (g + Len(s)) PROVE n \in NumbersOf(s)
  <2>1. n - g \in 1 .. Len(s) /\ g + (n - g) = n
    BY <1>1, <1>4
  <2> QED
    BY <1>3, <2>1
<1>5. \A i \in 1 .. Len(s) : g + i \in (g + 1) .. (g + Len(s))
  BY <1>1
<1> QED
  BY <1>3, <1>4, <1>5

\* The part of TypeOK about one attempt.
LEMMA Types ==
  ASSUME TypeOK, NEW a \in Attempts
  PROVE  /\ held[a] \in Seq(Lines) /\ buffer[a] \in Seq(Lines)
         /\ written[a] \in 0 .. MaxLines /\ segment[a] \in Nat
         /\ stored[a] \subseteq 1 .. MaxLines /\ dropped[a] \subseteq 1 .. MaxLines
         /\ Len(held[a]) \in Nat /\ Len(buffer[a]) \in Nat
         /\ Gone(a) \in Int /\ written[a] = Gone(a) + Len(held[a]) + Len(buffer[a])
         /\ task[a] \in {"none", "open", "closing", "over"}
         /\ pump[a] \in {"off", "wait", "swap", "push"}
<1>1. /\ held[a] \in Seq(Lines) /\ buffer[a] \in Seq(Lines)
      /\ written[a] \in 0 .. MaxLines /\ segment[a] \in Nat
      /\ stored[a] \subseteq 1 .. MaxLines /\ dropped[a] \subseteq 1 .. MaxLines
      /\ task[a] \in {"none", "open", "closing", "over"}
      /\ pump[a] \in {"off", "wait", "swap", "push"}
  BY DEF TypeOK
<1>2. Len(held[a]) \in Nat /\ Len(buffer[a]) \in Nat
  BY <1>1
<1>3. Gone(a) \in Int /\ written[a] = Gone(a) + Len(held[a]) + Len(buffer[a])
  BY <1>1, <1>2 DEF Gone
<1> QED
  BY <1>1, <1>2, <1>3

LEMMA FrameWriter ==
  ASSUME NEW a \in Attempts, WriterInv(a), UNCHANGED <<local, View(a)>>
  PROVE  WriterInv(a)' /\ Gone(a)' = Gone(a) /\ NextOf(a)' = NextOf(a)
BY DEF WriterInv, Waits, Kept, Paced, Gone, NextOf, View

LEMMA InitInv == Init => IInv
<1> SUFFICES ASSUME Init PROVE IInv
  OBVIOUS
<1>1. 1 \in Attempts
  BY DEF Attempts
<1>2. TypeOK
  <2>1. << >> \in Seq(Lines) /\ DOMAIN << >> = {} /\ << >> \in [DOMAIN << >> -> Seq(Lines)]
    OBVIOUS
  <2>2. reader \in [todo : SUBSET Indexes, lines : Seq(Lines), floor : 0 .. MaxLines, failed : BOOLEAN]
    BY <2>1 DEF Init
  <2> QED
    BY <2>1, <2>2 DEF Init, TypeOK
<1>3. ASSUME NEW a \in Attempts PROVE WriterInv(a)
  BY DEF Init, WriterInv, Waits, Kept, Paced, Gone
<1>4. ObjectsSorted /\ ReaderBehind /\ ReadInOrder
  BY DEF Init, ObjectsSorted, ReaderBehind, ReadInOrder
<1> QED
  BY <1>2, <1>3, <1>4 DEF IInv

-----------------------------------------------------------------------------
(* What each action does to its writer: the invariant stays, and no line that was taken *)
(* waits again.                                                                         *)

Advances(a) ==
  /\ WriterInv(a)'
  /\ Gone(a)' >= Gone(a)
  /\ NextOf(a)' >= NextOf(a)

\* The parts of Advances when no line moves.
LEMMA Advance ==
  ASSUME TypeOK, NEW a \in Attempts, WriterInv(a), Paced(a)',
         UNCHANGED <<local, written, held, buffer, segment, stored, dropped>>
  PROVE  Advances(a)
<1>1. Gone(a)' = Gone(a) /\ Gone(a) \in Int
  BY Types DEF Gone
<1>2. Waits(a)' /\ Kept(a)' /\ NextOf(a)' = NextOf(a)
  BY <1>1 DEF Waits, Kept, WriterInv, NextOf
<1>3. NextOf(a) \in Int
  BY DEF NextOf, TypeOK
<1> QED
  BY <1>1, <1>2, <1>3 DEF Advances, WriterInv

LEMMA StartStep ==
  ASSUME IInv, NEW a \in Attempts, Start(a) PROVE TypeOK' /\ Advances(a)
<1>1. UNCHANGED <<local, written, held, buffer, segment, stored, dropped, reader>>
  BY DEF Start
<1>2. /\ task' = [task EXCEPT ![a] = "open"]
      /\ \/ local /\ object' = << >> /\ pump' = pump
         \/ ~ local /\ object' = object /\ pump' = [pump EXCEPT ![a] = "wait"]
  BY DEF Start
<1>3. object' \in [DOMAIN object' -> Seq(Lines)] /\ DOMAIN object' \subseteq Indexes
  <2>1. << >> \in Seq(Lines) /\ DOMAIN << >> = {} /\ << >> \in [DOMAIN << >> -> Seq(Lines)]
    OBVIOUS
  <2>2. CASE object' = << >>
    BY <2>1, <2>2, Zenon
  <2>3. CASE object' = object
    BY <2>3 DEF IInv, TypeOK
  <2> QED
    BY <1>2, <2>2, <2>3
<1>4. TypeOK'
  BY <1>1, <1>2, <1>3 DEF IInv, TypeOK
<1>5. Paced(a)'
  <2>1. Gone(a)' = Gone(a) /\ Gone(a) \in Nat
    BY <1>1 DEF Gone, IInv, WriterInv, Waits
  <2>2. pump[a] = "off" /\ segment[a] = 0 /\ held[a] = << >>
    BY DEF Start, IInv, WriterInv, Paced
  <2> QED
    BY <1>1, <1>2, <2>1, <2>2 DEF Paced, IInv, WriterInv, TypeOK
<1> QED
  BY <1>1, <1>4, <1>5, Advance DEF IInv

LEMMA EndStep ==
  ASSUME IInv, NEW a \in Attempts, EndLog(a) \/ Tick(a) \/ TakeClose(a)
  PROVE  TypeOK' /\ Advances(a)
<1>1. UNCHANGED <<local, written, held, buffer, segment, stored, dropped, reader, object>>
  BY DEF EndLog, Tick, TakeClose
<1>2. Gone(a)' = Gone(a) /\ Gone(a) \in Nat
  BY <1>1 DEF Gone, IInv, WriterInv, Waits
<1>3. TypeOK'
  BY <1>1 DEF IInv, TypeOK, EndLog, Tick, TakeClose, WriterInv, Paced
<1>4. Paced(a)'
  <2>1. WriterInv(a)
    BY DEF IInv
  <2>2. CASE EndLog(a)
    BY <1>1, <1>2, <2>1, <2>2 DEF EndLog, WriterInv, Paced, IInv, TypeOK
  <2>3. CASE Tick(a)
    BY <1>1, <1>2, <2>1, <2>3 DEF Tick, WriterInv, Paced, IInv, TypeOK
  <2>4. CASE TakeClose(a)
    BY <1>1, <1>2, <2>1, <2>4 DEF TakeClose, WriterInv, Paced, IInv, TypeOK
  <2> QED
    BY <2>2, <2>3, <2>4
<1> QED
  BY <1>1, <1>3, <1>4, Advance DEF IInv

LEMMA WriteStep ==
  ASSUME IInv, NEW a \in Attempts, WriteLine(a)
  PROVE  TypeOK' /\ Advances(a)
<1> DEFINE line == <<a, written[a] + 1>>
<1> USE DEF IInv
<1>0. /\ written[a] < MaxLines /\ task[a] = "open" /\ written' = [written EXCEPT ![a] = @ + 1]
      /\ UNCHANGED <<local, task, pump, held, segment, reader, dropped>>
  BY DEF WriteLine
<1>1. line \in Lines /\ written[a] \in 0 .. MaxLines - 1 /\ written'[a] = written[a] + 1
  <2>1. written[a] \in 0 .. MaxLines /\ written[a] + 1 \in 1 .. MaxLines
    BY <1>0, Types
  <2> QED
    BY <1>0, <2>1 DEF TypeOK, Lines
<1>2. held'[a] = held[a] /\ task' = task /\ pump' = pump /\ segment' = segment /\ dropped' = dropped
  BY DEF WriteLine
<1>3. CASE local
  <2>1. Put(written[a], <<line>>) /\ stored' = [stored EXCEPT ![a] = @ \cup {line[2]}] /\ buffer' = buffer
    BY <1>3 DEF WriteLine
  <2>2. <<line>> \in Seq(Lines) /\ written[a] \in Indexes
    BY <1>1 DEF Indexes
  <2>3. TypeOK'
    <3>1. /\ object' \in [DOMAIN object' -> Seq(Lines)]
          /\ DOMAIN object' = DOMAIN object \cup {written[a]}
      BY <2>1, <2>2 DEF Put, TypeOK
    <3>2. written' \in [Attempts -> 0 .. MaxLines]
      BY <1>0, <1>1 DEF TypeOK
    <3>3. stored' \in [Attempts -> SUBSET (1 .. MaxLines)]
      <4>1. line[2] \in 1 .. MaxLines
        BY <1>1
      <4>2. stored[a] \cup {line[2]} \in SUBSET (1 .. MaxLines)
        BY <4>1, Types
      <4> HIDE DEF line
      <4> QED
        BY <2>1, <4>2 DEF TypeOK
    <3> QED
      BY <1>0, <2>1, <2>2, <3>1, <3>2, <3>3 DEF TypeOK
  <2>4. held[a] = << >> /\ buffer[a] = << >> /\ Gone(a) = written[a]
    <3>1. held[a] = << >> /\ buffer[a] = << >>
      BY <1>3 DEF WriterInv, Paced
    <3>2. Len(<< >>) = 0 /\ written[a] \in Int
      BY <1>1
    <3> QED
      BY <3>1, <3>2 DEF Gone
  <2>5. Gone(a)' = written[a] + 1 /\ stored'[a] = stored[a] \cup {written[a] + 1}
    BY <1>1, <1>2, <2>1, <2>4, Types DEF Gone, IInv, TypeOK
  <2>6. Waits(a)'
    BY <1>1, <1>2, <2>1, <2>4, <2>5 DEF Waits
  <2>7. Kept(a)'
    BY <1>1, <1>2, <2>1, <2>4, <2>5, Types DEF Kept, IInv, WriterInv
  <2>8. Paced(a)'
    BY <1>1, <1>2, <1>3, <2>1, <2>4, <2>5, Types DEF Paced, IInv, WriterInv, WriteLine
  <2>9. NextOf(a)' >= NextOf(a)
    BY <1>0, <1>1, <1>3 DEF NextOf
  <2> QED
    BY <2>3, <2>4, <2>5, <2>6, <2>7, <2>8, <2>9, <1>1 DEF Advances, WriterInv
<1>4. CASE ~ local
  <2>1. buffer' = [buffer EXCEPT ![a] = Append(@, line)] /\ object' = object /\ stored' = stored
    BY <1>4 DEF WriteLine
  <2>2. /\ Append(buffer[a], line) \in Seq(Lines) /\ Append(buffer[a], line) # << >>
        /\ Len(Append(buffer[a], line)) = Len(buffer[a]) + 1
        /\ \A i \in 1 .. Len(buffer[a]) : Append(buffer[a], line)[i] = buffer[a][i]
        /\ Append(buffer[a], line)[Len(buffer[a]) + 1] = line
    <3> HIDE DEF line
    <3> QED
      BY <1>1, Types, AppendProperties
  <2>3. TypeOK'
    <3> HIDE DEF line
    <3>1. buffer' \in [Attempts -> Seq(Lines)] /\ written' \in [Attempts -> 0 .. MaxLines]
      BY <1>0, <1>1, <2>1, <2>2 DEF TypeOK
    <3> QED
      BY <1>0, <1>4, <2>1, <3>1 DEF TypeOK
  <2>0. /\ Len(buffer[a]) \in Nat /\ Len(held[a]) \in Nat /\ Gone(a) \in Nat
        /\ written[a] \in Nat /\ written[a] = Gone(a) + Len(held[a]) + Len(buffer[a])
    BY Types DEF WriterInv, Waits
  <2>4. Gone(a)' = Gone(a) /\ Gone(a) \in Nat
    <3> HIDE DEF line
    <3>1. buffer'[a] = Append(buffer[a], line) /\ held'[a] = held[a]
      BY <1>0, <2>1 DEF TypeOK
    <3>2. Len(buffer'[a]) = Len(buffer[a]) + 1 /\ Len(held'[a]) = Len(held[a])
      BY <2>2, <3>1
    <3>3. Gone(a)' = written'[a] - Len(held'[a]) - Len(buffer'[a])
      BY DEF Gone
    <3>4. written'[a] = written[a] + 1
      BY <1>1
    <3> DEFINE w == written[a]
               g == Gone(a)
               h == Len(held[a])
               b == Len(buffer[a])
    <3>5. w \in Nat /\ g \in Nat /\ h \in Nat /\ b \in Nat /\ w = g + h + b
      BY <2>0
    <3>6. Gone(a)' = (w + 1) - h - (b + 1)
      BY <3>2, <3>3, <3>4
    <3> HIDE DEF w, g, h, b
    <3>7. Gone(a)' = g
      BY <3>5, <3>6
    <3> QED
      BY <3>5, <3>7 DEF g
  <2>5. Waits(a)'
    <3>1. written[a] + 1 = Gone(a) + Len(held[a]) + (Len(buffer[a]) + 1)
      BY <2>0
    <3>2. buffer'[a] = Append(buffer[a], line) /\ held'[a] = held[a]
      BY <1>0, <2>1 DEF TypeOK
    <3>3. ASSUME NEW i \in 1 .. Len(buffer[a]) + 1
          PROVE  Append(buffer[a], line)[i] = <<a, Gone(a) + Len(held[a]) + i>>
      <4>1. CASE i = Len(buffer[a]) + 1
        BY <2>2, <3>1, <4>1
      <4>2. CASE i \in 1 .. Len(buffer[a])
        BY <2>2, <4>2 DEF WriterInv, Waits
      <4> QED
        BY <4>1, <4>2, Types
    <3> HIDE DEF line
    <3> QED
      BY <2>2, <2>4, <3>2, <3>3 DEF Waits, WriterInv
  <2>6. Kept(a)'
    BY <1>0, <2>1, <2>4 DEF Kept, WriterInv
  <2>7. Paced(a)'
    <3>1. buffer'[a] # << >>
      BY <2>1, <2>2 DEF TypeOK
    <3> HIDE DEF line
    <3> QED
      BY <1>0, <1>4, <2>4, <3>1 DEF Paced, WriterInv
  <2> QED
    BY <1>0, <1>4, <2>3, <2>4, <2>5, <2>6, <2>7, Types DEF Advances, WriterInv, NextOf
<1> QED
  BY <1>3, <1>4

LEMMA SwapStep ==
  ASSUME IInv, NEW a \in Attempts, Swap(a)
  PROVE  TypeOK' /\ Advances(a)
<1> USE DEF IInv
<1>1. /\ held' = [held EXCEPT ![a] = buffer[a]] /\ buffer' = [buffer EXCEPT ![a] = << >>]
      /\ pump' = [pump EXCEPT ![a] = "push"] /\ pump[a] = "swap"
      /\ UNCHANGED <<local, object, task, written, segment, reader, stored, dropped>>
  BY DEF Swap
<1>2. << >> \in Seq(Lines) /\ Len(<< >>) = 0
  OBVIOUS
<1>3. held'[a] = buffer[a] /\ buffer'[a] = << >> /\ held[a] = << >> /\ ~ local /\ pump'[a] = "push"
  BY <1>1, Types DEF WriterInv, Paced, TypeOK
<1>4. TypeOK'
  BY <1>1, <1>2, <1>3 DEF TypeOK
<1>5. Gone(a)' = Gone(a) /\ Gone(a) \in Nat /\ Len(held[a]) = 0
  BY <1>1, <1>2, <1>3, Types DEF Gone, WriterInv, Waits
<1>6. Waits(a)'
  BY <1>2, <1>3, <1>5, Types DEF Waits, WriterInv
<1>7. Kept(a)'
  BY <1>1, <1>5 DEF Kept, WriterInv
<1>8. Paced(a)'
  BY <1>1, <1>3, <1>5 DEF Paced, WriterInv
<1> QED
  BY <1>1, <1>4, <1>5, <1>6, <1>7, <1>8, Types DEF Advances, WriterInv, NextOf

\* A push, good or not, takes the lines of held from those that wait.
LEMMA PushStep ==
  ASSUME IInv, NEW a \in Attempts, Push(a) \/ PushFails(a)
  PROVE  TypeOK' /\ Advances(a) /\ Gone(a)' = Gone(a) + Len(held[a])
<1> USE DEF IInv
<1>1. /\ held' = [held EXCEPT ![a] = << >>] /\ segment' = [segment EXCEPT ![a] = @ + 1]
      /\ pump' = [pump EXCEPT ![a] = IF task[a] = "over" THEN "off" ELSE "wait"]
      /\ pump[a] = "push"
      /\ UNCHANGED <<local, task, written, buffer, reader>>
  BY DEF Push, PushFails, Pushed
<1>2. << >> \in Seq(Lines) /\ Len(<< >>) = 0
  OBVIOUS
<1>3. /\ held'[a] = << >> /\ buffer'[a] = buffer[a] /\ segment'[a] = segment[a] + 1
      /\ pump'[a] = IF task[a] = "over" THEN "off" ELSE "wait"
  BY <1>1 DEF TypeOK
<1>4. /\ Gone(a) \in Nat /\ Gone(a)' = Gone(a) + Len(held[a]) /\ Gone(a)' <= MaxLines
      /\ Len(held[a]) \in Nat /\ ~ local
      /\ segment[a] <= MaxEmpty + Gone(a) /\ segment[a] \in Nat /\ Gone(a) <= MaxLines
  <2>1. /\ Len(buffer[a]) \in Nat /\ Len(held[a]) \in Nat /\ Gone(a) \in Nat
        /\ written[a] = Gone(a) + Len(held[a]) + Len(buffer[a])
        /\ written[a] \in 0 .. MaxLines /\ segment[a] \in Nat
    BY Types DEF WriterInv, Waits
  <2>2. Gone(a)' = written[a] - 0 - Len(buffer[a])
    BY <1>1, <1>2, <1>3 DEF Gone
  <2>3. ~ local /\ segment[a] <= MaxEmpty + Gone(a)
    BY <1>1, <2>1 DEF WriterInv, Paced
  <2> QED
    BY <2>1, <2>2, <2>3
<1>5. NumbersOf(held[a]) = (Gone(a) + 1) .. (Gone(a) + Len(held[a]))
  BY <1>4, Types, NumbersInterval DEF WriterInv, Waits
<1>6. NumbersOf(held[a]) \subseteq 1 .. MaxLines
  BY <1>4, <1>5
<1>7. /\ stored' \in [Attempts -> SUBSET (1 .. MaxLines)]
      /\ dropped' \in [Attempts -> SUBSET (1 .. MaxLines)]
      /\ \/ stored'[a] = stored[a] \cup NumbersOf(held[a]) /\ dropped'[a] = dropped[a]
         \/ dropped'[a] = dropped[a] \cup NumbersOf(held[a]) /\ stored'[a] = stored[a]
  <2>1. CASE Push(a)
    <3>1. stored[a] \cup NumbersOf(held[a]) \in SUBSET (1 .. MaxLines)
      BY <1>6, Types
    <3> QED
      BY <2>1, <3>1 DEF Push, TypeOK
  <2>2. CASE PushFails(a)
    <3>1. dropped[a] \cup NumbersOf(held[a]) \in SUBSET (1 .. MaxLines)
      BY <1>6, Types
    <3> QED
      BY <2>2, <3>1 DEF PushFails, TypeOK
  <2> QED
    BY <2>1, <2>2
<1>8. object' \in [DOMAIN object' -> Seq(Lines)] /\ DOMAIN object' \subseteq Indexes
  <2>1. segment[a] \in Indexes
    BY <1>4 DEF Indexes
  <2>2. CASE Push(a)
    BY <2>1, <2>2, Types DEF Push, Put, TypeOK
  <2>3. CASE PushFails(a)
    BY <2>3 DEF PushFails, TypeOK
  <2> QED
    BY <2>2, <2>3
<1>9. TypeOK'
  <2>1. segment[a] + 1 \in 0 .. MaxLines + MaxEmpty + 1
    BY <1>4
  <2>2. segment' \in [Attempts -> 0 .. MaxLines + MaxEmpty + 1]
    BY <1>1, <2>1 DEF TypeOK
  <2>3. pump' \in [Attempts -> {"off", "wait", "swap", "push"}]
    BY <1>1 DEF TypeOK
  <2> QED
    BY <1>1, <1>2, <1>4, <1>7, <1>8, <2>2, <2>3 DEF TypeOK
<1>10. Waits(a)'
  <2>1. \A i \in 1 .. Len(buffer[a]) : buffer[a][i] = <<a, Gone(a)' + 0 + i>>
    BY <1>4 DEF Waits, WriterInv
  <2> QED
    BY <1>2, <1>3, <1>4, <2>1 DEF Waits
<1>11. Kept(a)'
  <2>1. 1 .. (Gone(a) + Len(held[a]))
          = (1 .. Gone(a)) \cup ((Gone(a) + 1) .. (Gone(a) + Len(held[a])))
    BY <1>4
  <2>2. (1 .. Gone(a)) \cap ((Gone(a) + 1) .. (Gone(a) + Len(held[a]))) = {}
    BY <1>4
  <2> QED
    BY <1>4, <1>5, <1>7, <2>1, <2>2 DEF Kept, WriterInv
<1>12. Paced(a)'
  <2>1. held[a] # << >> => Len(held[a]) >= 1
    BY <1>4, Types, EmptySeq
  <2> QED
    BY <1>1, <1>3, <1>4, <2>1 DEF Paced, WriterInv
<1> QED
  BY <1>1, <1>3, <1>4, <1>9, <1>10, <1>11, <1>12 DEF Advances, WriterInv, NextOf

LEMMA CrashStep ==
  ASSUME IInv, NEW a \in Attempts, Crash(a)
  PROVE  TypeOK' /\ Advances(a)
<1> USE DEF IInv
<1>1. /\ held' = [held EXCEPT ![a] = << >>] /\ buffer' = [buffer EXCEPT ![a] = << >>]
      /\ task' = [task EXCEPT ![a] = "over"] /\ pump' = [pump EXCEPT ![a] = "off"]
      /\ dropped' = [dropped EXCEPT ![a] = @ \cup NumbersOf(held[a]) \cup NumbersOf(buffer[a])]
      /\ UNCHANGED <<local, object, written, segment, reader, stored>>
  BY DEF Crash
<1>2. << >> \in Seq(Lines) /\ Len(<< >>) = 0
  OBVIOUS
<1>3. held'[a] = << >> /\ buffer'[a] = << >> /\ pump'[a] = "off" /\ task'[a] = "over"
  BY <1>1 DEF TypeOK
<1>4. /\ Gone(a) \in Nat /\ Gone(a)' = written[a] /\ written[a] \in 0 .. MaxLines
      /\ Len(held[a]) \in Nat /\ Len(buffer[a]) \in Nat
      /\ written[a] = Gone(a) + Len(held[a]) + Len(buffer[a])
  BY <1>1, <1>2, <1>3, Types DEF Gone, WriterInv, Waits
<1>5. NumbersOf(held[a]) = (Gone(a) + 1) .. (Gone(a) + Len(held[a]))
  BY <1>4, Types, NumbersInterval DEF WriterInv, Waits
<1>6. NumbersOf(buffer[a]) = (Gone(a) + Len(held[a]) + 1) .. written[a]
  <2> DEFINE g == Gone(a) + Len(held[a])
  <2>1. g \in Nat /\ written[a] = g + Len(buffer[a])
    BY <1>4
  <2>2. buffer[a] \in Seq(Lines) /\ \A i \in 1 .. Len(buffer[a]) : buffer[a][i] = <<a, g + i>>
    BY Types DEF WriterInv, Waits
  <2>3. NumbersOf(buffer[a]) = (g + 1) .. (g + Len(buffer[a]))
    <3> HIDE DEF g
    <3> QED
      BY <2>1, <2>2, NumbersInterval
  <2> QED
    BY <2>1, <2>3
<1>7. NumbersOf(held[a]) \cup NumbersOf(buffer[a]) = (Gone(a) + 1) .. written[a]
  BY <1>4, <1>5, <1>6
<1>8. dropped'[a] = dropped[a] \cup ((Gone(a) + 1) .. written[a])
  BY <1>1, <1>7 DEF TypeOK
<1>9. TypeOK'
  <2>1. dropped[a] \cup NumbersOf(held[a]) \cup NumbersOf(buffer[a]) \in SUBSET (1 .. MaxLines)
    BY <1>4, <1>7, Types
  <2>2. dropped' \in [Attempts -> SUBSET (1 .. MaxLines)]
    BY <1>1, <2>1 DEF TypeOK
  <2> QED
    BY <1>1, <1>2, <2>2 DEF TypeOK
<1>10. Waits(a)'
  BY <1>2, <1>3, <1>4 DEF Waits
<1>11. Kept(a)'
  <2>1. 1 .. written[a] = (1 .. Gone(a)) \cup ((Gone(a) + 1) .. written[a])
    BY <1>4
  <2>2. (1 .. Gone(a)) \cap ((Gone(a) + 1) .. written[a]) = {}
    BY <1>4
  <2> QED
    BY <1>1, <1>4, <1>8, <2>1, <2>2 DEF Kept, WriterInv
<1>12. Paced(a)'
  <2>1. segment[a] \in Nat /\ segment[a] <= MaxEmpty + Gone(a) + 1
    BY <1>4, Types DEF Paced, WriterInv
  <2>2. segment[a] <= MaxEmpty + written[a] + 1
    <3>1. written[a] \in Nat /\ written[a] >= Gone(a)
      BY <1>4
    <3> QED
      BY <1>4, <2>1, <3>1
  <2> QED
    BY <1>1, <1>3, <1>4, <2>2 DEF Paced, WriterInv
<1> QED
  BY <1>1, <1>4, <1>9, <1>10, <1>11, <1>12, Types DEF Advances, WriterInv, NextOf

-----------------------------------------------------------------------------
(* What the store holds and what is read. *)

\* No writer falls back.
Later ==
  \A b \in Attempts :
    /\ gone[b] \in Nat /\ gone'[b] \in Nat /\ gone'[b] >= gone[b]
    /\ next[b] \in Nat /\ next'[b] \in Nat /\ next'[b] >= next[b]

\* What there is of lines and indexes in the store and in a reading.
LEMMA StoreTypes ==
  ASSUME TypeOK
  PROVE  /\ \A i \in DOMAIN object : i \in Nat /\ i \in Indexes /\ object[i] \in Seq(Lines)
         /\ \A i \in DOMAIN object : \A k \in DOMAIN object[i] :
              /\ k \in Nat
              /\ object[i][k][1] \in Attempts /\ object[i][k][2] \in Nat
         /\ reader.lines \in Seq(Lines) /\ reader.todo \subseteq Indexes
         /\ \A k \in DOMAIN reader.lines :
              /\ k \in Nat
              /\ reader.lines[k][1] \in Attempts /\ reader.lines[k][2] \in Nat
<1>1. \A i \in DOMAIN object : i \in Nat /\ i \in Indexes /\ object[i] \in Seq(Lines)
  BY DEF TypeOK, Indexes
<1>2. reader.lines \in Seq(Lines) /\ reader.todo \subseteq Indexes
  BY DEF TypeOK
<1>3. ASSUME NEW s \in Seq(Lines), NEW k \in DOMAIN s
      PROVE  k \in Nat /\ s[k][1] \in Attempts /\ s[k][2] \in Nat
  <2>1. k \in 1 .. Len(s) /\ s[k] \in Lines
    BY <1>3
  <2> QED
    BY <2>1, LineParts
<1> QED
  BY <1>1, <1>2, <1>3

\* After a step in which nothing is put both stay in order.
LEMMA OrderKept ==
  ASSUME IInv, object' = object \/ object' = << >>, UNCHANGED reader, Later
  PROVE  ObjectsSorted' /\ ReaderBehind' /\ ReadInOrder'
<1> USE DEF IInv
<1>1. /\ DOMAIN object' \subseteq DOMAIN object
      /\ \A i \in DOMAIN object' : object'[i] = object[i]
  OBVIOUS
<1>2. ObjectsSorted'
  <2>1. ASSUME NEW i \in DOMAIN object', NEW k \in DOMAIN object'[i]
        PROVE  object'[i][k][2] <= gone'[object'[i][k][1]] /\ i < next'[object'[i][k][1]]
    <3>1. /\ i \in DOMAIN object /\ object'[i] = object[i] /\ i \in Nat
          /\ object[i][k][1] \in Attempts /\ object[i][k][2] \in Nat
      BY <1>1, StoreTypes
    <3>2. object[i][k][2] <= gone[object[i][k][1]] /\ i < next[object[i][k][1]]
      BY <1>1, <3>1 DEF ObjectsSorted
    <3> QED
      BY <3>1, <3>2 DEF Later
  <2>2. \A i \in DOMAIN object' : \A k, l \in DOMAIN object'[i] :
          k < l /\ object'[i][k][1] = object'[i][l][1] => object'[i][k][2] < object'[i][l][2]
    BY <1>1 DEF ObjectsSorted
  <2>3. \A i, j \in DOMAIN object' : i < j =>
          \A k \in DOMAIN object'[i], l \in DOMAIN object'[j] :
            object'[i][k][1] = object'[j][l][1] => object'[i][k][2] < object'[j][l][2]
    BY <1>1 DEF ObjectsSorted
  <2> QED
    BY <2>1, <2>2, <2>3 DEF ObjectsSorted
<1>3. ReaderBehind'
  <2>1. \A k \in DOMAIN reader.lines :
          /\ reader.lines[k][2] \in Nat
          /\ gone'[reader.lines[k][1]] >= gone[reader.lines[k][1]]
          /\ gone[reader.lines[k][1]] \in Nat /\ gone'[reader.lines[k][1]] \in Nat
    BY StoreTypes DEF Later
  <2>2. \A k \in DOMAIN reader.lines : reader.lines[k][2] <= gone'[reader.lines[k][1]]
    BY <2>1 DEF ReaderBehind
  <2> QED
    BY <1>1, <2>2 DEF ReaderBehind
<1> QED
  BY <1>2, <1>3 DEF ReadInOrder

\* The next lines of an attempt are put at its next index.
LEMMA OrderPut ==
  ASSUME IInv, NEW a \in Attempts, NEW new \in Seq(Lines), Put(next[a], new),
         \A k \in 1 .. Len(new) : new[k] = <<a, gone[a] + k>>,
         gone'[a] = gone[a] + Len(new), next'[a] = next[a] + 1,
         UNCHANGED reader, Later
  PROVE  ObjectsSorted' /\ ReaderBehind' /\ ReadInOrder'
<1> USE DEF IInv
<1> DEFINE p == next[a]
<1>1. /\ DOMAIN object' = DOMAIN object \cup {p}
      /\ object'[p] = new
      /\ \A i \in DOMAIN object' : i # p => i \in DOMAIN object /\ object'[i] = object[i]
  BY DEF Put
<1>2. /\ DOMAIN new = 1 .. Len(new) /\ Len(new) \in Nat
      /\ \A k \in DOMAIN new : new[k][1] = a /\ new[k][2] = gone[a] + k /\ k \in 1 .. Len(new)
  OBVIOUS
<1>3. /\ p \in Nat /\ gone[a] \in Nat /\ next'[a] = p + 1
      /\ gone'[a] = gone[a] + Len(new)
  BY DEF Later
<1> HIDE DEF p
<1>4. \A i \in DOMAIN object' : \A k \in DOMAIN object'[i] :
        /\ object'[i][k][2] <= gone'[object'[i][k][1]]
        /\ i < next'[object'[i][k][1]]
  <2> SUFFICES ASSUME NEW i \in DOMAIN object', NEW k \in DOMAIN object'[i]
               PROVE  /\ object'[i][k][2] <= gone'[object'[i][k][1]]
                      /\ i < next'[object'[i][k][1]]
    OBVIOUS
  <2>1. CASE i = p
    BY <1>1, <1>2, <1>3, <2>1
  <2>2. CASE i # p
    <3>1. /\ i \in DOMAIN object /\ object'[i] = object[i] /\ i \in Nat
          /\ object[i][k][1] \in Attempts /\ object[i][k][2] \in Nat
      BY <1>1, <2>2, StoreTypes
    <3>2. object[i][k][2] <= gone[object[i][k][1]] /\ i < next[object[i][k][1]]
      BY <1>1, <2>2, <3>1 DEF ObjectsSorted
    <3> QED
      BY <3>1, <3>2 DEF Later
  <2> QED
    BY <2>1, <2>2
<1>5. \A i \in DOMAIN object' : \A k, l \in DOMAIN object'[i] :
        k < l /\ object'[i][k][1] = object'[i][l][1] => object'[i][k][2] < object'[i][l][2]
  <2> SUFFICES ASSUME NEW i \in DOMAIN object', NEW k \in DOMAIN object'[i],
                      NEW l \in DOMAIN object'[i], k < l, object'[i][k][1] = object'[i][l][1]
               PROVE  object'[i][k][2] < object'[i][l][2]
    OBVIOUS
  <2>1. CASE i = p
    BY <1>1, <1>2, <1>3, <2>1
  <2>2. CASE i # p
    BY <1>1, <2>2 DEF ObjectsSorted
  <2> QED
    BY <2>1, <2>2
<1>6. \A i, j \in DOMAIN object' : i < j =>
        \A k \in DOMAIN object'[i], l \in DOMAIN object'[j] :
          object'[i][k][1] = object'[j][l][1] => object'[i][k][2] < object'[j][l][2]
  <2> SUFFICES ASSUME NEW i \in DOMAIN object', NEW j \in DOMAIN object', i < j,
                      NEW k \in DOMAIN object'[i], NEW l \in DOMAIN object'[j],
                      object'[i][k][1] = object'[j][l][1]
               PROVE  object'[i][k][2] < object'[j][l][2]
    OBVIOUS
  <2>0. i \in Nat /\ j \in Nat
    BY <1>1, <1>3, StoreTypes
  <2>1. CASE j = p
    <3>1. i # p /\ i \in DOMAIN object /\ object'[i] = object[i]
      BY <1>1, <2>0, <2>1, <1>3
    <3>2. object'[j][l][1] = a /\ object'[j][l][2] = gone[a] + l /\ l \in 1 .. Len(new)
      BY <1>1, <1>2, <2>1
    <3>3. object[i][k][2] \in Nat /\ object[i][k][2] <= gone[a]
      BY <3>1, <3>2, StoreTypes DEF ObjectsSorted
    <3> QED
      BY <1>3, <3>1, <3>2, <3>3
  <2>2. CASE i = p
    <3>1. j # p /\ j \in DOMAIN object /\ object'[j] = object[j]
      BY <1>1, <2>0, <2>2, <1>3
    <3>2. object'[i][k][1] = a
      BY <1>1, <1>2, <2>2
    <3>3. j < next[a]
      BY <3>1, <3>2 DEF ObjectsSorted
    <3> QED
      BY <1>3, <2>0, <2>2, <3>3 DEF p
  <2>3. CASE i # p /\ j # p
    BY <1>1, <2>3 DEF ObjectsSorted
  <2> QED
    BY <2>1, <2>2, <2>3
<1>7. ObjectsSorted'
  BY <1>4, <1>5, <1>6 DEF ObjectsSorted
<1>8. \A k \in DOMAIN reader.lines : reader.lines[k][2] <= gone'[reader.lines[k][1]]
  <2>1. \A k \in DOMAIN reader.lines :
          reader.lines[k][2] \in Nat /\ reader.lines[k][1] \in Attempts
    BY StoreTypes
  <2> QED
    BY <2>1 DEF ReaderBehind, Later
<1>9. \A j \in reader.todo \cap DOMAIN object' : \A k \in DOMAIN reader.lines, l \in DOMAIN object'[j] :
        reader.lines[k][1] = object'[j][l][1] => reader.lines[k][2] < object'[j][l][2]
  <2> SUFFICES ASSUME NEW j \in reader.todo \cap DOMAIN object', NEW k \in DOMAIN reader.lines,
                      NEW l \in DOMAIN object'[j], reader.lines[k][1] = object'[j][l][1]
               PROVE  reader.lines[k][2] < object'[j][l][2]
    OBVIOUS
  <2>1. CASE j = p
    <3>1. object'[j][l][1] = a /\ object'[j][l][2] = gone[a] + l /\ l \in 1 .. Len(new)
      BY <1>1, <1>2, <2>1
    <3>2. reader.lines[k][2] \in Nat /\ reader.lines[k][2] <= gone[a]
      BY <3>1, StoreTypes DEF ReaderBehind
    <3> QED
      BY <1>3, <3>1, <3>2
  <2>2. CASE j # p
    BY <1>1, <2>2 DEF ReaderBehind
  <2> QED
    BY <2>1, <2>2
<1>10. ReaderBehind'
  BY <1>8, <1>9 DEF ReaderBehind
<1> QED
  BY <1>7, <1>10 DEF ReadInOrder

\* The reader starts anew, takes the next object or leaves out some.
LEMMA ReadStep ==
  ASSUME IInv, ReadStart \/ ReadNext \/ ReadFails
  PROVE  TypeOK' /\ ReaderBehind' /\ ReadInOrder'
<1> USE DEF IInv
<1>1. UNCHANGED <<local, object, writer, stored, dropped>> /\ gone' = gone
  BY DEF ReadStart, ReadNext, ReadFails, writer, gone, Gone
<1>2. ASSUME reader' \in [todo : SUBSET Indexes, lines : Seq(Lines), floor : 0 .. MaxLines,
                          failed : BOOLEAN]
      PROVE  TypeOK'
  BY <1>1, <1>2 DEF TypeOK, writer
<1>3. CASE ReadStart
  <2>1. reader'.lines = << >> /\ DOMAIN reader'.lines = {}
    BY <1>3 DEF ReadStart
  <2>2. Cardinality(stored[1]) \in 0 .. MaxLines
    <3>0. 1 \in Attempts
      BY DEF Attempts
    <3>1. stored[1] \subseteq 1 .. MaxLines
      BY <3>0, Types
    <3>2. IsFiniteSet(1 .. MaxLines) /\ Cardinality(1 .. MaxLines) = MaxLines
      BY FS_Interval
    <3> QED
      BY <3>1, <3>2, FS_Subset, FS_CardinalityType
  <2>3. (IF local THEN Indexes ELSE DOMAIN object) \in SUBSET Indexes /\ << >> \in Seq(Lines)
    BY DEF TypeOK
  <2>4. TypeOK'
    BY <1>2, <1>3, <2>2, <2>3 DEF ReadStart
  <2> QED
    BY <2>1, <2>4 DEF ReaderBehind, ReadInOrder
<1>4. CASE ReadFails
  <2>1. PICK i \in Indexes : \E rest \in {{}, reader.todo \ {i}} :
          reader' = [reader EXCEPT !.todo = rest, !.failed = TRUE]
    BY <1>4 DEF ReadFails
  <2>2. PICK rest \in SUBSET reader.todo : reader' = [reader EXCEPT !.todo = rest, !.failed = TRUE]
    BY <2>1
  <2>3. reader'.lines = reader.lines /\ reader'.todo \subseteq reader.todo
    BY <2>2 DEF TypeOK
  <2>4. TypeOK'
    BY <1>2, <2>2 DEF TypeOK
  <2> QED
    BY <1>1, <2>3, <2>4 DEF ReaderBehind, ReadInOrder
<1>5. CASE ReadNext
  <2> DEFINE old == reader.lines
  <2>1. PICK i \in Indexes :
          /\ NextIndex(i)
          /\ reader' = [reader EXCEPT
               !.lines = IF i \in DOMAIN object THEN @ \o object[i] ELSE @,
               !.todo  = IF ~ local \/ \E j \in DOMAIN object : j > i THEN @ \ {i} ELSE {}]
    BY <1>5 DEF ReadNext
  <2>2. /\ reader'.todo \subseteq reader.todo \ {i}
        /\ reader'.lines = IF i \in DOMAIN object THEN old \o object[i] ELSE old
        /\ i \in reader.todo /\ \A j \in reader.todo : i <= j
    BY <2>1 DEF TypeOK, NextIndex
  <2>3. CASE i \notin DOMAIN object
    <3>1. TypeOK'
      BY <1>2, <2>1, <2>3 DEF TypeOK
    <3> QED
      BY <1>1, <2>2, <2>3, <3>1 DEF ReaderBehind, ReadInOrder
  <2>4. CASE i \in DOMAIN object
    <3> DEFINE new == object[i]
               all == old \o new
    <3>1. old \in Seq(Lines) /\ new \in Seq(Lines)
      BY <2>4, StoreTypes
    <3>2. /\ all \in Seq(Lines) /\ Len(all) = Len(old) + Len(new)
          /\ \A k \in 1 .. Len(old) + Len(new) :
               all[k] = IF k <= Len(old) THEN old[k] ELSE new[k - Len(old)]
      <4> HIDE DEF old, new
      <4> QED
        BY <3>1, ConcatProperties
    <3>3. DOMAIN all = 1 .. Len(old) + Len(new) /\ DOMAIN old = 1 .. Len(old)
          /\ DOMAIN new = 1 .. Len(new) /\ Len(old) \in Nat /\ Len(new) \in Nat
      <4> HIDE DEF old, new, all
      <4> QED
        BY <3>1, <3>2
    <3>4. reader'.lines = all
      BY <2>2, <2>4
    <3>5. TypeOK'
      <4> HIDE DEF all
      <4>1. reader' = [reader EXCEPT !.lines = all,
               !.todo = IF ~ local \/ \E j \in DOMAIN object : j > i THEN @ \ {i} ELSE {}]
        BY <2>1, <2>4 DEF all
      <4> QED
        BY <1>2, <4>1, <3>2 DEF TypeOK
    <3>6. ASSUME NEW k \in DOMAIN all
          PROVE  \/ k \in DOMAIN old /\ all[k] = old[k]
                 \/ k - Len(old) \in DOMAIN new /\ all[k] = new[k - Len(old)] /\ k > Len(old)
      <4> HIDE DEF old, new, all
      <4> QED
        BY <3>2, <3>3, <3>6
    <3>7. /\ \A k \in DOMAIN old : k \in Nat /\ old[k][1] \in Attempts /\ old[k][2] \in Nat
          /\ \A k \in DOMAIN new : k \in Nat /\ new[k][1] \in Attempts /\ new[k][2] \in Nat
      BY <2>4, StoreTypes
    <3>8. /\ \A k \in DOMAIN old : old[k][2] <= gone[old[k][1]]
          /\ \A k \in DOMAIN new : new[k][2] <= gone[new[k][1]]
      BY <2>4 DEF ReaderBehind, ObjectsSorted
    <3>9. /\ \A k, l \in DOMAIN old : k < l /\ old[k][1] = old[l][1] => old[k][2] < old[l][2]
          /\ \A k, l \in DOMAIN new : k < l /\ new[k][1] = new[l][1] => new[k][2] < new[l][2]
          /\ \A k \in DOMAIN old, l \in DOMAIN new : old[k][1] = new[l][1] => old[k][2] < new[l][2]
      BY <2>2, <2>4 DEF ReadInOrder, ReaderBehind, ObjectsSorted
    <3>10. ASSUME NEW j \in reader'.todo \cap DOMAIN object, NEW l \in DOMAIN object[j]
           PROVE  /\ \A k \in DOMAIN old : old[k][1] = object[j][l][1] => old[k][2] < object[j][l][2]
                  /\ \A k \in DOMAIN new : new[k][1] = object[j][l][1] => new[k][2] < object[j][l][2]
      <4>1. j \in reader.todo /\ i < j
        BY <2>2, <2>4, <3>10, StoreTypes
      <4> QED
        BY <2>4, <3>10, <4>1 DEF ReaderBehind, ObjectsSorted
    <3> HIDE DEF old, new, all
    <3>11. \A k \in DOMAIN all : all[k][2] <= gone[all[k][1]]
      BY <3>6, <3>8
    <3>12. \A j \in reader'.todo \cap DOMAIN object : \A k \in DOMAIN all, l \in DOMAIN object[j] :
             all[k][1] = object[j][l][1] => all[k][2] < object[j][l][2]
      BY <3>6, <3>10
    <3>13. \A k, l \in DOMAIN all : k < l /\ all[k][1] = all[l][1] => all[k][2] < all[l][2]
      <4> SUFFICES ASSUME NEW k \in DOMAIN all, NEW l \in DOMAIN all, k < l, all[k][1] = all[l][1]
                   PROVE  all[k][2] < all[l][2]
        OBVIOUS
      <4>1. CASE k \in DOMAIN old /\ all[k] = old[k]
        BY <3>6, <3>9, <4>1
      <4>2. CASE k - Len(old) \in DOMAIN new /\ all[k] = new[k - Len(old)] /\ k > Len(old)
        <5>1. l > Len(old) /\ l \in 1 .. Len(old) + Len(new) /\ k \in 1 .. Len(old) + Len(new)
          BY <3>3, <4>2
        <5>2. l - Len(old) \in DOMAIN new /\ all[l] = new[l - Len(old)]
          BY <3>2, <3>3, <5>1
        <5>3. k - Len(old) < l - Len(old)
          BY <3>3, <5>1
        <5> QED
          BY <3>9, <4>2, <5>2, <5>3
      <4> QED
        BY <3>6, <4>1, <4>2
    <3>14. ReaderBehind'
      BY <1>1, <3>4, <3>11, <3>12 DEF ReaderBehind
    <3>15. ReadInOrder'
      BY <3>4, <3>13 DEF ReadInOrder
    <3> QED
      BY <3>5, <3>14, <3>15
  <2> QED
    BY <2>3, <2>4
<1> QED
  BY <1>3, <1>4, <1>5

-----------------------------------------------------------------------------
(* The theorems. *)

\* Where no line moves and none is put.
LEMMA QuietStep ==
  ASSUME IInv, NEW a \in Attempts, Advances(a), TypeOK',
         \A b \in Attempts \ {a} : UNCHANGED View(b), UNCHANGED local
  PROVE  Later /\ \A b \in Attempts : WriterInv(b)'
<1> USE DEF IInv
<1>1. ASSUME NEW b \in Attempts
      PROVE  WriterInv(b)' /\ Gone(b)' >= Gone(b) /\ NextOf(b)' >= NextOf(b)
  <2>1. Gone(b) \in Nat /\ NextOf(b) \in Nat
    BY DEF WriterInv, Waits, NextOf, TypeOK
  <2>2. CASE b = a
    BY <2>2 DEF Advances
  <2>3. CASE b # a
    BY <2>1, <2>3, FrameWriter
  <2> QED
    BY <2>2, <2>3
<1>2. ASSUME NEW b \in Attempts
      PROVE  /\ gone[b] = Gone(b) /\ gone'[b] = Gone(b)' /\ next[b] = NextOf(b) /\ next'[b] = NextOf(b)'
             /\ gone[b] \in Nat /\ gone'[b] \in Nat /\ next[b] \in Nat /\ next'[b] \in Nat
  <2>1. Gone(b) \in Nat /\ Gone(b)' \in Nat
    BY <1>1 DEF WriterInv, Waits
  <2>2. NextOf(b) \in Nat /\ NextOf(b)' \in Nat
    BY DEF NextOf, TypeOK
  <2> QED
    BY <2>1, <2>2 DEF gone, next
<1> QED
  BY <1>1, <1>2 DEF Later

\* The inductive invariant holds in every behaviour of the log.
THEOREM LogInvariance == Spec => []IInv
<1>1. IInv /\ [Next]_vars => IInv'
  <2> SUFFICES ASSUME IInv, [Next]_vars PROVE IInv'
    OBVIOUS
  <2> USE DEF IInv
  <2>1. ASSUME NEW a \in Attempts, Start(a) \/ EndLog(a) \/ Tick(a) \/ TakeClose(a) \/ Swap(a)
                                   \/ PushFails(a) \/ Crash(a)
        PROVE  IInv'
    <3>1. /\ object' = object \/ object' = << >>
          /\ UNCHANGED <<reader, local>> /\ \A b \in Attempts \ {a} : UNCHANGED View(b)
      BY <2>1 DEF Start, EndLog, Tick, TakeClose, Swap, PushFails, Pushed, Crash, View, TypeOK
    <3>2. TypeOK' /\ Advances(a)
      BY <2>1, StartStep, EndStep, SwapStep, PushStep, CrashStep
    <3> QED
      BY <3>1, <3>2, QuietStep, OrderKept
  <2>2. ASSUME NEW a \in Attempts, WriteLine(a) PROVE IInv'
    <3>1. UNCHANGED <<reader, local>> /\ \A b \in Attempts \ {a} : UNCHANGED View(b)
      BY <2>2 DEF WriteLine, View, TypeOK
    <3>2. TypeOK' /\ Advances(a)
      BY <2>2, WriteStep
    <3>3. Later /\ \A b \in Attempts : WriterInv(b)'
      BY <3>1, <3>2, QuietStep
    <3>4. CASE ~ local
      <4>1. object' = object
        BY <2>2, <3>4 DEF WriteLine
      <4> QED
        BY <3>1, <3>2, <3>3, <4>1, OrderKept
    <3>5. CASE local
      <4> DEFINE new == <<<<a, written[a] + 1>>>>
      <4>1. Put(written[a], new) /\ written'[a] = written[a] + 1 /\ held'[a] = held[a] /\ buffer'[a] = buffer[a]
        BY <2>2, <3>5 DEF WriteLine, TypeOK
      <4>2. pump[a] = "off" /\ held[a] = << >> /\ buffer[a] = << >> /\ Len(<< >>) = 0
        BY <3>5 DEF WriterInv, Paced
      <4>3. gone[a] = written[a] /\ gone'[a] = written[a] + 1 /\ written[a] \in Nat
        BY <4>1, <4>2 DEF gone, Gone, TypeOK
      <4>4. next[a] = written[a] /\ next'[a] = written[a] + 1
        BY <3>1, <3>5, <4>1 DEF next, NextOf
      <4>5. new \in Seq(Lines) /\ Len(new) = 1 /\ \A k \in 1 .. 1 : new[k] = <<a, gone[a] + k>>
        <5>1. <<a, written[a] + 1>> \in Lines
          <6>1. written[a] \in 0 .. MaxLines /\ written[a] < MaxLines
            BY <2>2, Types DEF WriteLine
          <6>2. written[a] + 1 \in 1 .. MaxLines
            BY <6>1
          <6> QED
            BY <6>2 DEF Lines
        <5> QED
          BY <4>3, <5>1
      <4> HIDE DEF new
      <4>6. ObjectsSorted' /\ ReaderBehind' /\ ReadInOrder'
        BY <3>1, <3>3, <4>1, <4>3, <4>4, <4>5, OrderPut
      <4> QED
        BY <3>2, <3>3, <4>6
    <3> QED
      BY <3>4, <3>5
  <2>3. ASSUME NEW a \in Attempts, Push(a) PROVE IInv'
    <3>1. UNCHANGED <<reader, local>> /\ \A b \in Attempts \ {a} : UNCHANGED View(b)
      BY <2>3 DEF Push, Pushed, View, TypeOK
    <3>2. TypeOK' /\ Advances(a) /\ Gone(a)' = Gone(a) + Len(held[a])
      BY <2>3, PushStep
    <3>3. Later /\ \A b \in Attempts : WriterInv(b)'
      BY <3>1, <3>2, QuietStep
    <3>4. gone[a] = Gone(a) /\ gone'[a] = gone[a] + Len(held[a])
      BY <3>2 DEF gone
    <3>5. next[a] = segment[a] /\ next'[a] = segment[a] + 1
      <4>1. ~ local /\ segment'[a] = segment[a] + 1 /\ ~ local'
        BY <2>3 DEF Push, Pushed, WriterInv, Paced, TypeOK
      <4> QED
        BY <4>1 DEF next, NextOf
    <3>6. held[a] \in Seq(Lines) /\ \A k \in 1 .. Len(held[a]) : held[a][k] = <<a, gone[a] + k>>
      BY <3>4, Types DEF WriterInv, Waits
    <3>7. Put(next[a], held[a])
      BY <2>3, <3>5 DEF Push
    <3>8. ObjectsSorted' /\ ReaderBehind' /\ ReadInOrder'
      BY <3>1, <3>3, <3>4, <3>5, <3>6, <3>7, OrderPut
    <3> QED
      BY <3>2, <3>3, <3>8
  <2>4. CASE ReadStart \/ ReadNext \/ ReadFails
    <3>1. UNCHANGED <<local, object, writer, stored, dropped>>
      BY <2>4 DEF ReadStart, ReadNext, ReadFails
    <3>2. \A b \in Attempts : WriterInv(b)'
      BY <3>1, FrameWriter DEF View, writer
    <3>3. gone' = gone /\ next' = next
      BY <3>1 DEF gone, next, Gone, NextOf, writer
    <3>4. ObjectsSorted'
      BY <3>1, <3>3 DEF ObjectsSorted
    <3> QED
      BY <2>4, <3>2, <3>4, ReadStep
  <2>5. CASE UNCHANGED vars
    <3>1. UNCHANGED <<local, object, writer, reader, stored, dropped>>
      BY <2>5 DEF vars
    <3>2. \A b \in Attempts : WriterInv(b)'
      BY <3>1, FrameWriter DEF View, writer
    <3>3. gone' = gone /\ next' = next
      BY <3>1 DEF gone, next, Gone, NextOf, writer
    <3>4. ObjectsSorted' /\ ReaderBehind' /\ ReadInOrder' /\ TypeOK'
      BY <3>1, <3>3 DEF ObjectsSorted, ReaderBehind, ReadInOrder, TypeOK, writer
    <3> QED
      BY <3>2, <3>4
  <2> QED
    BY <2>1, <2>2, <2>3, <2>4, <2>5 DEF Next, Pump
<1> QED
  BY <1>1, InitInv, PTL DEF Spec

\* The variables keep their types; the numbers of the segments are bounded by the lines.
THEOREM LogTypes == Spec => []TypeOK
<1>1. IInv => TypeOK
  BY DEF IInv
<1> QED
  BY <1>1, LogInvariance, PTL

\* Of what an attempt has written each line is stored, lost by a fault, or waits in order.
THEOREM LinesNotLost == Spec => []NothingLost
<1>1. ASSUME IInv PROVE NothingLost
  <2> USE DEF IInv
  <2> SUFFICES ASSUME NEW a \in Attempts
               PROVE  LET waiting == held[a] \o buffer[a]
                          before  == written[a] - Len(waiting)
                      IN  /\ waiting = [i \in 1 .. Len(waiting) |-> <<a, before + i>>]
                          /\ stored[a] \cup dropped[a] = 1 .. before
                          /\ stored[a] \cap dropped[a] = {}
    BY DEF NothingLost
  <2> DEFINE h == held[a]
             b == buffer[a]
             waiting == h \o b
  <2>1. /\ h \in Seq(Lines) /\ b \in Seq(Lines) /\ Len(h) \in Nat /\ Len(b) \in Nat
        /\ Gone(a) \in Nat /\ written[a] = Gone(a) + Len(h) + Len(b)
    BY <1>1, Types DEF WriterInv, Waits
  <2>2. /\ \A i \in 1 .. Len(h) : h[i] = <<a, Gone(a) + i>>
        /\ \A i \in 1 .. Len(b) : b[i] = <<a, Gone(a) + Len(h) + i>>
    BY <1>1 DEF WriterInv, Waits
  <2>3. stored[a] \cup dropped[a] = 1 .. Gone(a) /\ stored[a] \cap dropped[a] = {}
    BY <1>1 DEF WriterInv, Kept
  <2> HIDE DEF h, b
  <2>4. /\ waiting \in Seq(Lines) /\ Len(waiting) = Len(h) + Len(b)
        /\ \A i \in 1 .. Len(h) + Len(b) :
             waiting[i] = IF i <= Len(h) THEN h[i] ELSE b[i - Len(h)]
    BY <2>1, ConcatProperties
  <2>5. ASSUME NEW i \in 1 .. Len(h) + Len(b) PROVE waiting[i] = <<a, Gone(a) + i>>
    <3>1. CASE i <= Len(h)
      BY <2>1, <2>2, <2>4, <3>1
    <3>2. CASE i > Len(h)
      <4>1. i - Len(h) \in 1 .. Len(b) /\ Gone(a) + Len(h) + (i - Len(h)) = Gone(a) + i
        BY <2>1, <3>2
      <4>2. waiting[i] = b[i - Len(h)]
        BY <2>1, <2>4, <3>2
      <4> QED
        BY <2>2, <4>1, <4>2
    <3> QED
      BY <2>1, <3>1, <3>2
  <2> HIDE DEF waiting
  <2>6. written[a] - Len(waiting) = Gone(a)
    BY <2>1, <2>4
  <2>7. waiting = [i \in 1 .. Len(waiting) |-> <<a, Gone(a) + i>>]
    <3>1. waiting = [i \in 1 .. Len(waiting) |-> waiting[i]]
      BY <2>4
    <3> QED
      BY <2>4, <2>5, <3>1
  <2> QED
    BY <2>3, <2>6, <2>7 DEF waiting, h, b
<1> QED
  BY <1>1, LogInvariance, PTL

-----------------------------------------------------------------------------
(* What one attempt alone writes is read as a whole. *)

\* Only the first attempt has begun, and no fault has lost a line of it.
Alone == (\A a \in Attempts \ {1} : task[a] = "none") /\ dropped[1] = {}

\* Line n of the first attempt is in object j.
Has(j, n) == j \in DOMAIN object /\ \E k \in DOMAIN object[j] : object[j][k] = <<1, n>>

\* Its lines are there, in pieces without gaps, at indexes that it has passed; and so are
\* the segments that are being read, and the part of a file that has been read.
StoreWhole ==
  /\ \A n \in stored[1] : \E j \in DOMAIN object : Has(j, n)
  /\ \A j \in DOMAIN object : \A k \in DOMAIN object[j] :
       object[j][k] = <<1, object[j][1][2] + k - 1>>
  /\ \A j \in DOMAIN object : j < next[1]
  /\ local => reader.todo = {} \/ \A i \in Indexes \ reader.todo : i < next[1]
  /\ ~ local => \A i \in reader.todo : i < next[1]

\* The reader has all lines of the objects before the next one, and no others; what was
\* there when it began is read or still to be read.
ReadWhole ==
  /\ \A k \in DOMAIN reader.lines : reader.lines[k] = <<1, k>>
  /\ \A j \in DOMAIN object \ reader.todo, i \in reader.todo :
       j < i => \A k \in DOMAIN object[j] : object[j][k][2] <= Len(reader.lines)
  /\ \A n \in 1 .. reader.floor : n <= Len(reader.lines) \/ \E j \in reader.todo : Has(j, n)

WholeInv ==
  /\ \A a \in Attempts : task[a] = "none" => written[a] = 0
  /\ Alone => StoreWhole /\ (~ reader.failed => ReadWhole)

LEMMA InitWhole == Init => WholeInv
<1> SUFFICES ASSUME Init PROVE WholeInv
  OBVIOUS
<1>1. 1 \in Attempts
  BY DEF Attempts
<1>2. StoreWhole
  BY <1>1 DEF Init, StoreWhole
<1>3. ReadWhole
  <2>1. DOMAIN << >> = {} /\ 1 .. 0 = {}
    OBVIOUS
  <2> QED
    BY <2>1 DEF Init, ReadWhole
<1> QED
  BY <1>2, <1>3 DEF Init, WholeInv

\* What is known of the first attempt.
LEMMA FirstTypes ==
  ASSUME IInv
  PROVE  /\ 1 \in Attempts /\ gone[1] \in Nat /\ next[1] \in Nat /\ gone[1] = Gone(1)
         /\ stored[1] \cup dropped[1] = 1 .. gone[1] /\ gone[1] <= written[1]
         /\ reader.todo \subseteq Indexes /\ Indexes \subseteq Nat
         /\ reader.lines \in Seq(Lines) /\ Len(reader.lines) \in Nat
         /\ DOMAIN reader.lines = 1 .. Len(reader.lines)
         /\ reader.floor \in Nat
<1>1. 1 \in Attempts
  BY DEF Attempts
<1>2. TypeOK /\ WriterInv(1)
  BY <1>1 DEF IInv
<1>3. Gone(1) \in Nat /\ stored[1] \cup dropped[1] = 1 .. Gone(1) /\ gone[1] = Gone(1)
  BY <1>1, <1>2 DEF WriterInv, Waits, Kept, gone
<1>4. Gone(1) <= written[1]
  <2>1. /\ written[1] = Gone(1) + Len(held[1]) + Len(buffer[1])
        /\ Len(held[1]) \in Nat /\ Len(buffer[1]) \in Nat
    BY <1>1, <1>2, Types
  <2> QED
    BY <1>3, <2>1
<1>5. NextOf(1) \in Nat /\ next[1] = NextOf(1)
  BY <1>1, <1>2 DEF next, NextOf, TypeOK
<1>6. reader.todo \subseteq Indexes /\ reader.lines \in Seq(Lines) /\ reader.floor \in Nat
  BY <1>2 DEF TypeOK
<1> QED
  BY <1>1, <1>3, <1>4, <1>5, <1>6 DEF Indexes

\* A step that puts nothing and stores nothing.
LEMMA WholeKept ==
  ASSUME IInv, IInv', WholeInv, UNCHANGED <<local, object, reader, stored>>,
         Alone' => Alone, next'[1] >= next[1],
         \A a \in Attempts : task'[a] = "none" => task[a] = "none" /\ written'[a] = written[a]
  PROVE  WholeInv'
<1>1. 1 \in Attempts /\ next[1] \in Nat /\ next'[1] \in Nat /\ Indexes \subseteq Nat
      /\ reader.todo \subseteq Indexes
  <2>1. IInv' => (next'[1] \in Nat)
    <3>1. 1 \in Attempts
      BY DEF Attempts
    <3>2. ASSUME IInv' PROVE NextOf(1)' \in Nat /\ next'[1] = NextOf(1)'
      BY <3>1, <3>2 DEF next, NextOf, IInv, TypeOK
    <3> QED
      BY <3>2
  <2> QED
    BY <2>1, FirstTypes
<1>2. ASSUME Alone' PROVE StoreWhole'
  <2>1. StoreWhole
    BY <1>2 DEF WholeInv
  <2>2. \A j \in DOMAIN object : j \in Nat
    BY StoreTypes DEF IInv
  <2>3. object' = object /\ (local' <=> local) /\ reader' = reader /\ stored' = stored
    OBVIOUS
  <2>4. /\ \A n \in stored[1] : \E j \in DOMAIN object : Has(j, n)
        /\ \A j \in DOMAIN object : \A k \in DOMAIN object[j] :
             object[j][k] = <<1, object[j][1][2] + k - 1>>
    BY <2>1 DEF StoreWhole
  <2>5. \A n \in stored'[1] : \E j \in DOMAIN object' : Has(j, n)'
    BY <2>3, <2>4 DEF Has
  <2>6. \A j \in DOMAIN object : j < next'[1]
    BY <1>1, <2>1, <2>2 DEF StoreWhole
  <2>7. local => reader.todo = {} \/ \A i \in Indexes \ reader.todo : i < next'[1]
    BY <1>1, <2>1 DEF StoreWhole
  <2>8. ~ local => \A i \in reader.todo : i < next'[1]
    <3>1. ASSUME ~ local, NEW i \in reader.todo PROVE i < next'[1]
      <4>1. i < next[1]
        BY <2>1, <3>1, Zenon DEF StoreWhole
      <4>2. i \in Nat /\ next[1] \in Nat /\ next'[1] \in Nat /\ next'[1] >= next[1]
        BY <1>1
      <4> QED
        BY <4>1, <4>2
    <3> QED
      BY <3>1
  <2> QED
    BY <2>3, <2>4, <2>5, <2>6, <2>7, <2>8 DEF StoreWhole
<1>3. ASSUME Alone', ~ reader'.failed PROVE ReadWhole'
  BY <1>3 DEF WholeInv, ReadWhole, Has
<1>4. \A a \in Attempts : task'[a] = "none" => written'[a] = 0
  BY DEF WholeInv
<1> QED
  BY <1>2, <1>3, <1>4 DEF WholeInv

\* Where a step of another attempt leads.
LEMMA OnlyFirst ==
  ASSUME IInv, Alone, NEW a \in Attempts,
         WriteLine(a) \/ EndLog(a) \/ Pump(a) \/ Crash(a)
  PROVE  a = 1
<1>1. ASSUME a # 1 PROVE FALSE
  <2>1. task[a] = "none" /\ pump[a] = "off"
    BY <1>1 DEF Alone, IInv, WriterInv, Paced
  <2> QED
    BY <2>1 DEF WriteLine, EndLog, Pump, Tick, TakeClose, Swap, Push, PushFails, Pushed, Crash
<1> QED
  BY <1>1

\* The first attempt puts its next lines at its next index.
LEMMA WholePut ==
  ASSUME IInv, WholeInv, Alone, NEW new \in Seq(Lines), Put(next[1], new),
         \A k \in 1 .. Len(new) : new[k] = <<1, gone[1] + k>>,
         stored'[1] = stored[1] \cup (gone[1] + 1) .. (gone[1] + Len(new)),
         next'[1] = next[1] + 1, UNCHANGED <<reader, local>>,
         next[1] \in Indexes
  PROVE  StoreWhole' /\ (~ reader'.failed => ReadWhole')
<1> DEFINE p == next[1]
           g == gone[1]
           L == Len(new)
<1>1. /\ DOMAIN object' = DOMAIN object \cup {p} /\ object'[p] = new
      /\ \A j \in DOMAIN object : j # p => object'[j] = object[j]
  BY DEF Put
<1>2. /\ p \in Nat /\ g \in Nat /\ L \in Nat /\ next'[1] = p + 1 /\ DOMAIN new = 1 .. L
      /\ \A k \in 1 .. L : new[k] = <<1, g + k>>
      /\ p \in Indexes
      /\ stored'[1] = stored[1] \cup (g + 1) .. (g + L)
  BY FirstTypes
<1>3. StoreWhole /\ \A j \in DOMAIN object : j \in Nat
  BY StoreTypes DEF WholeInv, IInv
<1>4. p \notin DOMAIN object
  BY <1>2, <1>3 DEF StoreWhole
<1>5. Indexes \subseteq Nat /\ reader.todo \subseteq Indexes
  BY FirstTypes
<1> HIDE DEF p, g, L
<1>6. \A j, n : Has(j, n) => Has(j, n)'
  BY <1>1, <1>4 DEF Has
<1>7. StoreWhole'
  <2>1. ASSUME NEW n \in stored'[1] PROVE \E j \in DOMAIN object' : Has(j, n)'
    <3>1. CASE n \in stored[1]
      BY <1>1, <1>3, <1>6, <3>1 DEF StoreWhole
    <3>2. CASE n \in (g + 1) .. (g + L)
      <4>1. n - g \in 1 .. L /\ g + (n - g) = n
        BY <1>2, <3>2
      <4>2. n - g \in DOMAIN object'[p] /\ object'[p][n - g] = <<1, n>> /\ p \in DOMAIN object'
        BY <1>1, <1>2, <4>1
      <4>3. \E j \in DOMAIN object' : \E k \in DOMAIN object'[j] : object'[j][k] = <<1, n>>
        BY <4>2
      <4> QED
        BY <4>3 DEF Has
    <3> QED
      BY <1>2, <2>1, <3>1, <3>2
  <2>2. ASSUME NEW j \in DOMAIN object', NEW k \in DOMAIN object'[j]
        PROVE  object'[j][k] = <<1, object'[j][1][2] + k - 1>>
    <3>1. CASE j = p
      <4>1. k \in 1 .. L /\ 1 \in 1 .. L
        BY <1>1, <1>2, <2>2, <3>1
      <4>2. new[k] = <<1, g + k>> /\ new[1] = <<1, g + 1>>
        BY <1>2, <4>1
      <4>3. (g + 1) + k - 1 = g + k
        BY <1>2, <4>1
      <4> QED
        BY <1>1, <3>1, <4>2, <4>3
    <3>2. CASE j # p
      BY <1>1, <1>3, <2>2, <3>2 DEF StoreWhole
    <3> QED
      BY <3>1, <3>2
  <2>3. \A j \in DOMAIN object' : j < next'[1]
    BY <1>1, <1>2, <1>3 DEF StoreWhole, p
  <2>4. /\ local' => reader'.todo = {} \/ \A i \in Indexes \ reader'.todo : i < next'[1]
        /\ ~ local' => \A i \in reader'.todo : i < next'[1]
    <3>1. reader' = reader /\ (local' <=> local)
      OBVIOUS
    <3>2. local => reader.todo = {} \/ \A i \in Indexes \ reader.todo : i < next'[1]
      BY <1>2, <1>3, <1>5 DEF StoreWhole, p
    <3>3. ~ local => \A i \in reader.todo : i < next'[1]
      <4>1. ASSUME ~ local, NEW i \in reader.todo PROVE i < next'[1]
        <5>1. i < p
          BY <1>3, <4>1, Zenon DEF StoreWhole, p
        <5>2. i \in Nat
          BY <1>5
        <5> QED
          BY <1>2, <5>1, <5>2
      <4> QED
        BY <4>1
    <3> QED
      BY <3>1, <3>2, <3>3
  <2> QED
    BY <2>1, <2>2, <2>3, <2>4 DEF StoreWhole
<1>8. ASSUME ~ reader'.failed PROVE ReadWhole'
  <2>1. ReadWhole
    BY <1>8 DEF WholeInv
  <2>2. ASSUME NEW j \in DOMAIN object' \ reader.todo, NEW i \in reader.todo, j < i
        PROVE  \A k \in DOMAIN object'[j] : object'[j][k][2] <= Len(reader.lines)
    <3>1. j # p
      <4>1. ASSUME j = p PROVE FALSE
        <5>1. CASE local
          <6>1. p < next[1]
            BY <1>2, <1>3, <2>2, <4>1, <5>1 DEF StoreWhole
          <6> QED
            BY <1>2, <6>1 DEF p
        <5>2. CASE ~ local
          <6>1. i < p
            BY <1>3, <2>2, <5>2 DEF StoreWhole, p
          <6>2. i \in Nat
            BY <1>5
          <6> QED
            BY <1>2, <2>2, <4>1, <6>1, <6>2
        <5> QED
          BY <5>1, <5>2
      <4> QED
        BY <4>1
    <3>2. j \in DOMAIN object \ reader.todo /\ object'[j] = object[j]
      BY <1>1, <2>2, <3>1
    <3> QED
      BY <2>1, <2>2, <3>2 DEF ReadWhole
  <2>3. \A n \in 1 .. reader.floor : n <= Len(reader.lines) \/ \E j \in reader.todo : Has(j, n)'
    BY <1>6, <2>1 DEF ReadWhole
  <2> QED
    BY <2>1, <2>2, <2>3 DEF ReadWhole
<1> QED
  BY <1>7, <1>8

\* What the reader has begun with, left out or taken.
LEMMA WholeRead ==
  ASSUME IInv, WholeInv, Alone, ReadStart \/ ReadNext \/ ReadFails
  PROVE  StoreWhole' /\ (~ reader'.failed => ReadWhole')
<1> DEFINE r == Len(reader.lines)
<1>0. UNCHANGED <<local, object, writer, stored>>
  BY DEF ReadStart, ReadNext, ReadFails
<1>1. object' = object /\ stored' = stored /\ next' = next /\ (local' <=> local)
  BY <1>0 DEF next, NextOf, writer
<1>2. StoreWhole /\ TypeOK
  BY DEF WholeInv, IInv
<1>3. /\ next[1] \in Nat /\ Indexes \subseteq Nat /\ reader.todo \subseteq Indexes
      /\ r \in Nat /\ DOMAIN reader.lines = 1 .. r /\ reader.floor \in Nat
      /\ stored[1] = 1 .. gone[1] /\ gone[1] \in Nat
      /\ \A j \in DOMAIN object : j \in Nat /\ j \in Indexes
  BY FirstTypes, StoreTypes DEF Alone, IInv
<1>4. ASSUME local => reader'.todo = {} \/ \A i \in Indexes \ reader'.todo : i < next[1],
             ~ local => \A i \in reader'.todo : i < next[1]
      PROVE  StoreWhole'
  <2>1. /\ \A n \in stored[1] : \E j \in DOMAIN object : Has(j, n)
        /\ \A j \in DOMAIN object : \A k \in DOMAIN object[j] :
             object[j][k] = <<1, object[j][1][2] + k - 1>>
        /\ \A j \in DOMAIN object : j < next[1]
    BY <1>2 DEF StoreWhole
  <2>2. \A n \in stored'[1] : \E j \in DOMAIN object' : Has(j, n)'
    BY <1>1, <2>1 DEF Has
  <2> QED
    BY <1>1, <1>4, <2>1, <2>2 DEF StoreWhole
<1>5. CASE ReadStart
  <2>1. /\ reader'.todo = IF local THEN Indexes ELSE DOMAIN object
        /\ reader'.lines = << >> /\ reader'.floor = Cardinality(stored[1])
    BY <1>5 DEF ReadStart
  <2>2. StoreWhole'
    <3>1. local => \A i \in Indexes \ reader'.todo : i < next[1]
      BY <2>1
    <3>2. ~ local => \A i \in reader'.todo : i < next[1]
      BY <1>2, <2>1 DEF StoreWhole
    <3> QED
      BY <1>4, <3>1, <3>2
  <2>3. DOMAIN object \subseteq reader'.todo
    BY <1>3, <2>1
  <2>4. reader'.floor = gone[1]
    <3>1. Cardinality(1 .. gone[1]) = gone[1]
      BY <1>3, FS_Interval
    <3> QED
      BY <1>3, <2>1, <3>1
  <2>5. \A n \in 1 .. reader'.floor : \E j \in reader'.todo : Has(j, n)'
    <3>1. \A n \in 1 .. gone[1] : \E j \in DOMAIN object : Has(j, n)
      BY <1>2, <1>3 DEF StoreWhole
    <3> QED
      BY <1>1, <2>3, <2>4, <3>1 DEF Has
  <2>6. DOMAIN reader'.lines = {}
    BY <2>1
  <2> QED
    BY <1>1, <2>2, <2>3, <2>5, <2>6 DEF ReadWhole
<1>6. CASE ReadFails
  <2>1. ~ local /\ reader'.failed /\ reader'.todo \subseteq reader.todo
    <3>1. PICK i \in Indexes : \E rest \in {{}, reader.todo \ {i}} :
            reader' = [reader EXCEPT !.todo = rest, !.failed = TRUE]
      BY <1>6 DEF ReadFails
    <3>2. PICK rest \in SUBSET reader.todo :
            reader' = [reader EXCEPT !.todo = rest, !.failed = TRUE]
      BY <3>1
    <3>3. reader'.failed = TRUE /\ reader'.todo = rest
      BY <1>2, <3>2 DEF TypeOK
    <3> QED
      BY <1>6, <3>3 DEF ReadFails
  <2>2. \A i \in reader.todo : i < next[1]
    BY <1>2, <2>1, Zenon DEF StoreWhole
  <2> QED
    BY <1>4, <2>1, <2>2
<1>7. CASE ReadNext
  <2>1. PICK i \in Indexes :
          /\ NextIndex(i)
          /\ reader' = [reader EXCEPT
               !.lines = IF i \in DOMAIN object THEN @ \o object[i] ELSE @,
               !.todo  = IF ~ local \/ \E j \in DOMAIN object : j > i THEN @ \ {i} ELSE {}]
    BY <1>7 DEF ReadNext
  <2>2. /\ reader'.todo = IF ~ local \/ \E j \in DOMAIN object : j > i
                            THEN reader.todo \ {i} ELSE {}
        /\ reader'.lines = IF i \in DOMAIN object THEN reader.lines \o object[i]
                                                  ELSE reader.lines
        /\ reader'.failed = reader.failed /\ reader'.floor = reader.floor
        /\ i \in reader.todo /\ i \in Nat /\ \A j \in reader.todo : i <= j
    BY <1>2, <1>3, <2>1 DEF TypeOK, NextIndex
  <2>3. StoreWhole'
    <3>1. ASSUME local, reader'.todo # {}, NEW m \in Indexes \ reader'.todo PROVE m < next[1]
      <4>1. PICK j \in DOMAIN object : j > i
        BY <2>2, <3>1, Zenon
      <4>2. reader'.todo = reader.todo \ {i}
        BY <2>2, <4>1
      <4>3. CASE m = i
        <5>1. j < next[1]
          BY <1>2 DEF StoreWhole
        <5> QED
          BY <1>3, <2>2, <4>1, <4>3, <5>1
      <4>4. CASE m # i
        BY <1>2, <2>2, <3>1, <4>2, <4>4, Zenon DEF StoreWhole
      <4> QED
        BY <4>3, <4>4
    <3>2. ASSUME ~ local, NEW m \in reader'.todo PROVE m < next[1]
      <4>1. m \in reader.todo
        BY <2>2, <3>2
      <4> QED
        BY <1>2, <3>2, <4>1, Zenon DEF StoreWhole
    <3> QED
      BY <1>4, <3>1, <3>2, Zenon
  <2>4. ASSUME ~ reader'.failed PROVE ReadWhole'
    <3>1. ReadWhole
      BY <2>2, <2>4 DEF WholeInv
    <3> DEFINE s == IF i \in DOMAIN object THEN Len(object[i]) ELSE 0
    <3>2. /\ reader'.todo \subseteq reader.todo \ {i}
          /\ \A j \in reader.todo \cap DOMAIN object : j # i => j \in reader'.todo
      <4>1. ASSUME NEW j \in reader.todo \cap DOMAIN object, j # i PROVE j \in reader'.todo
        <5>1. j > i
          BY <1>3, <2>2, <4>1
        <5> QED
          BY <2>2, <4>1, <5>1
      <4> QED
        BY <2>2, <4>1
    <3>3. ASSUME i \in DOMAIN object, NEW k \in DOMAIN object[i]
          PROVE  object[i][k] = <<1, r + k>>
      <4> DEFINE new == object[i]
      <4>1. /\ new \in Seq(Lines) /\ k \in 1 .. Len(new) /\ 1 \in 1 .. Len(new)
            /\ 1 \in DOMAIN new /\ Len(new) \in Nat
        BY <3>3, StoreTypes DEF IInv
      <4>2. /\ new[k] = <<1, new[1][2] + k - 1>> /\ new[1][1] = 1
            /\ new[1][2] \in Nat /\ new[1][2] <= gone[1]
        <5>1. \A l \in DOMAIN new : new[l] = <<1, new[1][2] + l - 1>>
          BY <1>2, <3>3 DEF StoreWhole
        <5>2. new[1][1] = 1 /\ new[k] = <<1, new[1][2] + k - 1>>
          BY <3>3, <4>1, <5>1
        <5>3. new[1][2] \in Nat /\ new[1][2] <= gone[new[1][1]]
          BY <3>3, <4>1, StoreTypes DEF IInv, ObjectsSorted
        <5> QED
          BY <5>2, <5>3
      <4>3. new[1][2] > r
        <5>1. CASE r = 0
          <6>1. new[1] \in Lines
            BY <4>1
          <6>2. new[1][2] \in 1 .. MaxLines
            BY <6>1, LineParts
          <6> QED
            BY <5>1, <6>2
        <5>2. CASE r # 0
          <6>1. r \in DOMAIN reader.lines /\ reader.lines[r] = <<1, r>>
            BY <1>3, <3>1, <5>2 DEF ReadWhole
          <6>2. reader.lines[r][2] < new[1][2]
            BY <2>2, <3>3, <4>1, <4>2, <6>1 DEF IInv, ReaderBehind
          <6> QED
            BY <1>3, <4>2, <6>1, <6>2
        <5> QED
          BY <5>1, <5>2
      <4>4. new[1][2] <= r + 1
        <5> SUFFICES ASSUME new[1][2] > r + 1 PROVE FALSE
          BY <1>3, <4>2
        <5>1. r + 1 \in stored[1]
          BY <1>3, <4>2
        <5>2. PICK j \in DOMAIN object : Has(j, r + 1)
          BY <1>2, <5>1 DEF StoreWhole
        <5>3. PICK l \in DOMAIN object[j] : object[j][l] = <<1, r + 1>>
          BY <5>2 DEF Has
        <5>4. CASE j < i
          <6>1. j \notin reader.todo
            BY <1>3, <2>2, <5>4
          <6>2. object[j][l][2] <= r
            BY <2>2, <3>1, <5>4, <6>1 DEF ReadWhole
          <6> QED
            BY <1>3, <5>3, <6>2
        <5>5. CASE i < j
          <6>1. new[1][2] < object[j][l][2]
            BY <3>3, <4>1, <4>2, <5>3, <5>5 DEF IInv, ObjectsSorted
          <6> QED
            BY <1>3, <4>2, <5>3, <6>1
        <5>6. CASE j = i
          <6>1. new[l] = <<1, new[1][2] + l - 1>> /\ l \in Nat /\ l >= 1
            BY <1>2, <3>3, <4>1, <5>6 DEF StoreWhole
          <6>2. new[l] = <<1, r + 1>>
            BY <5>3, <5>6
          <6>3. new[1][2] + l - 1 = r + 1
            BY <6>1, <6>2
          <6> QED
            BY <1>3, <4>2, <6>1, <6>3
        <5> QED
          BY <1>3, <2>2, <5>4, <5>5, <5>6
      <4> DEFINE m == new[1][2]
      <4>5. k \in Nat /\ m \in Nat /\ r \in Nat /\ m > r /\ m <= r + 1
        BY <1>3, <4>1, <4>2, <4>3, <4>4
      <4>6. m + k - 1 = r + k
        <5> HIDE DEF m, r, new
        <5> QED
          BY <4>5
      <4> QED
        BY <4>2, <4>6
    <3>4. /\ s \in Nat /\ Len(reader'.lines) = r + s
          /\ \A k \in DOMAIN reader'.lines : reader'.lines[k] = <<1, k>>
      <4>1. CASE i \notin DOMAIN object
        <5>1. s = 0 /\ reader'.lines = reader.lines
          BY <2>2, <4>1
        <5>2. \A k \in DOMAIN reader.lines : reader.lines[k] = <<1, k>>
          BY <3>1 DEF ReadWhole
        <5>3. Len(reader'.lines) = r /\ r + 0 = r
          BY <1>3, <5>1
        <5> HIDE DEF s, r
        <5> QED
          BY <5>1, <5>2, <5>3
      <4>2. CASE i \in DOMAIN object
        <5> DEFINE old == reader.lines
                   new == object[i]
                   all == old \o new
        <5>1. /\ old \in Seq(Lines) /\ new \in Seq(Lines) /\ Len(new) \in Nat
              /\ DOMAIN new = 1 .. Len(new)
          BY <4>2, StoreTypes DEF IInv
        <5>2. reader'.lines = all /\ s = Len(new) /\ r = Len(old)
          BY <2>2, <4>2
        <5>3. \A k \in 1 .. Len(old) : old[k] = <<1, k>>
          BY <1>3, <3>1 DEF ReadWhole
        <5>4. \A k \in 1 .. Len(new) : new[k] = <<1, Len(old) + k>>
          BY <3>3, <4>2, <5>1
        <5>5. Len(old) \in Nat
          BY <1>3
        <5> HIDE DEF old, new, r
        <5>6. /\ all \in Seq(Lines) /\ Len(all) = Len(old) + Len(new)
              /\ \A k \in 1 .. Len(old) + Len(new) :
                   all[k] = IF k <= Len(old) THEN old[k] ELSE new[k - Len(old)]
          BY <5>1, ConcatProperties
        <5> HIDE DEF all
        <5>7. ASSUME NEW k \in 1 .. Len(old) + Len(new) PROVE all[k] = <<1, k>>
          <6>1. CASE k <= Len(old)
            BY <5>1, <5>3, <5>5, <5>6, <6>1
          <6>2. CASE k > Len(old)
            <7>1. k - Len(old) \in 1 .. Len(new) /\ Len(old) + (k - Len(old)) = k
              BY <5>1, <5>5, <6>2
            <7>2. all[k] = new[k - Len(old)]
              BY <5>5, <5>6, <6>2
            <7> QED
              BY <5>4, <7>1, <7>2
          <6> QED
            BY <5>1, <5>5, <6>1, <6>2
        <5>8. DOMAIN all = 1 .. Len(old) + Len(new)
          BY <5>6
        <5> HIDE DEF s
        <5> QED
          BY <5>1, <5>2, <5>6, <5>7, <5>8
      <4> QED
        BY <4>1, <4>2
    <3>5. \A n : Has(i, n) => n \in Nat /\ n <= r + s
      <4> SUFFICES ASSUME NEW n, Has(i, n) PROVE n \in Nat /\ n <= r + s
        OBVIOUS
      <4>1. PICK k \in DOMAIN object[i] : object[i][k] = <<1, n>>
        BY DEF Has
      <4>2. i \in DOMAIN object /\ k \in 1 .. Len(object[i]) /\ Len(object[i]) \in Nat
        BY StoreTypes DEF IInv, Has
      <4>3. n = r + k /\ s = Len(object[i])
        BY <3>3, <4>1, <4>2
      <4> HIDE DEF s, r
      <4> QED
        BY <1>3, <4>2, <4>3
    <3> HIDE DEF s, r
    <3>6. ASSUME NEW j \in DOMAIN object \ reader'.todo, NEW m \in reader'.todo, j < m,
                 NEW k \in DOMAIN object[j]
          PROVE  object[j][k][2] <= r + s
      <4>1. CASE j = i
        <5>1. object[j][k] = <<1, r + k>> /\ k \in 1 .. s
          <6>1. object[i] \in Seq(Lines) /\ s = Len(object[i])
            BY <3>6, <4>1, StoreTypes DEF IInv, s
          <6> QED
            BY <3>3, <3>6, <4>1, <6>1
        <5> QED
          BY <1>3, <3>4, <5>1
      <4>2. CASE j # i
        <5>1. j \notin reader.todo /\ m \in reader.todo
          BY <3>2, <3>6, <4>2
        <5>2. object[j][k][2] <= r
          BY <3>1, <3>6, <5>1 DEF ReadWhole, r
        <5>3. object[j][k][2] \in Nat
          BY <3>6, StoreTypes DEF IInv
        <5> QED
          BY <1>3, <3>4, <5>2, <5>3
      <4> QED
        BY <4>1, <4>2
    <3>7. ASSUME NEW n \in 1 .. reader.floor PROVE n <= r + s \/ \E j \in reader'.todo : Has(j, n)
      <4>1. CASE n <= r
        BY <1>3, <3>4, <4>1
      <4>2. CASE \E j \in reader.todo : Has(j, n)
        <5>1. PICK j \in reader.todo : Has(j, n)
          BY <4>2
        <5>2. j = i \/ j \in reader'.todo
          BY <3>2, <5>1 DEF Has
        <5> QED
          BY <3>5, <5>1, <5>2
      <4> QED
        BY <3>1, <4>1, <4>2 DEF ReadWhole, r
    <3>8. \A n \in 1 .. reader'.floor : n <= Len(reader'.lines) \/ \E j \in reader'.todo : Has(j, n)'
      BY <1>1, <2>2, <3>4, <3>7 DEF Has
    <3>9. \A j \in DOMAIN object' \ reader'.todo, m \in reader'.todo :
            j < m => \A k \in DOMAIN object'[j] : object'[j][k][2] <= Len(reader'.lines)
      BY <1>1, <3>4, <3>6
    <3> QED
      BY <3>4, <3>8, <3>9 DEF ReadWhole
  <2> QED
    BY <2>3, <2>4
<1> QED
  BY <1>5, <1>6, <1>7

\* A step of the writer of the first attempt, or of one that begins.
LEMMA WholeStep ==
  ASSUME IInv, IInv', WholeInv, [Next]_vars
  PROVE  WholeInv'
<1>0. 1 \in Attempts
  BY DEF Attempts
<1>1. CASE UNCHANGED vars
  <2>1. task' = task /\ written' = written /\ next' = next
        /\ UNCHANGED <<local, object, reader, stored, dropped>>
    BY <1>1 DEF vars, writer, next, NextOf
  <2>2. next[1] \in Nat
    BY FirstTypes
  <2>3. Alone' => Alone
    BY <2>1 DEF Alone
  <2> QED
    BY <2>1, <2>2, <2>3, WholeKept
<1>2. ASSUME NEW a \in Attempts, Start(a) PROVE WholeInv'
  <2>1. /\ task[a] = "none" /\ task' = [task EXCEPT ![a] = "open"]
        /\ UNCHANGED <<local, written, buffer, held, segment, reader, stored, dropped>>
    BY <1>2 DEF Start
  <2>2. \A b \in Attempts : task'[b] = "none" => task[b] = "none" /\ written'[b] = written[b]
    BY <2>1 DEF IInv, TypeOK
  <2>3. next' = next
    BY <2>1 DEF next, NextOf
  <2>4. CASE a # 1
    <3>1. ~ Alone'
      BY <2>1, <2>4 DEF Alone, IInv, TypeOK
    <3> QED
      BY <2>2, <3>1 DEF WholeInv
  <2>5. CASE a = 1 /\ ~ local
    <3>1. UNCHANGED object
      BY <1>2, <2>5 DEF Start
    <3>2. Alone' => Alone
      BY <2>1, <2>5 DEF Alone, IInv, TypeOK
    <3>3. next'[1] >= next[1]
      BY <2>3, FirstTypes
    <3> QED
      BY <2>1, <2>2, <3>1, <3>2, <3>3, WholeKept
  <2>6. CASE a = 1 /\ local
    <3>1. object' = << >>
      BY <1>2, <2>6 DEF Start
    <3>2. Alone' => Alone
      BY <2>1, <2>6 DEF Alone, IInv, TypeOK
    <3>3. DOMAIN object' = {}
      BY <3>1
    <3>4. ASSUME Alone PROVE DOMAIN object = {}
      <4>1. written[1] = 0 /\ next[1] = 0
        BY <1>0, <2>1, <2>6 DEF WholeInv, next, NextOf
      <4>2. \A j \in DOMAIN object : j \in Nat /\ j < 0
        BY <3>4, <4>1, StoreTypes DEF WholeInv, StoreWhole, IInv
      <4> QED
        BY <4>2
    <3>5. ASSUME Alone' PROVE StoreWhole'
      <4>1. StoreWhole
        BY <3>2, <3>5 DEF WholeInv
      <4>2. stored[1] = {}
        BY <3>2, <3>4, <3>5, <4>1 DEF StoreWhole
      <4>3. local => reader.todo = {} \/ \A i \in Indexes \ reader.todo : i < next[1]
        BY <4>1 DEF StoreWhole
      <4> QED
        BY <2>1, <2>3, <2>6, <3>3, <4>2, <4>3 DEF StoreWhole
    <3>6. ASSUME Alone', ~ reader'.failed PROVE ReadWhole'
      <4>1. ReadWhole /\ DOMAIN object = {}
        BY <2>1, <3>2, <3>4, <3>6 DEF WholeInv
      <4>2. \A n \in 1 .. reader.floor : n <= Len(reader.lines)
        BY <4>1 DEF ReadWhole, Has
      <4> QED
        BY <2>1, <3>3, <4>1, <4>2 DEF ReadWhole
    <3> QED
      BY <2>2, <3>5, <3>6 DEF WholeInv
  <2> QED
    BY <2>4, <2>5, <2>6
<1>3. ASSUME NEW a \in Attempts, WriteLine(a) \/ EndLog(a) \/ Pump(a) \/ Crash(a)
      PROVE  WholeInv'
  <2>1. TypeOK /\ WriterInv(a)
    BY DEF IInv
  <2>2. task[a] # "none" /\ task'[a] # "none"
    <3>1. pump[a] # "off" => task[a] # "none"
      BY <2>1 DEF WriterInv, Paced
    <3> QED
      BY <1>3, <2>1, <3>1
      DEF WriteLine, EndLog, Pump, Tick, TakeClose, Swap, Push, PushFails, Pushed, Crash, TypeOK
  <2>3. \A b \in Attempts : b # a => task'[b] = task[b] /\ written'[b] = written[b]
    BY <1>3, <2>1
    DEF WriteLine, EndLog, Pump, Tick, TakeClose, Swap, Push, PushFails, Pushed, Crash, TypeOK
  <2>4. UNCHANGED <<local, reader>>
    BY <1>3
    DEF WriteLine, EndLog, Pump, Tick, TakeClose, Swap, Push, PushFails, Pushed, Crash
  <2>5. dropped[1] \subseteq dropped'[1]
    <3>1. CASE WriteLine(a) \/ EndLog(a) \/ Tick(a) \/ TakeClose(a) \/ Swap(a) \/ Push(a)
      <4>1. dropped' = dropped
        BY <3>1 DEF WriteLine, EndLog, Tick, TakeClose, Swap, Push
      <4> QED
        BY <4>1
    <3>2. CASE PushFails(a) \/ Crash(a)
      <4>1. PICK lost : dropped' = [dropped EXCEPT ![a] = @ \cup lost]
        <5>1. CASE PushFails(a)
          BY <5>1 DEF PushFails
        <5>2. CASE Crash(a)
          <6>1. dropped' = [dropped EXCEPT ![a] = @ \cup (NumbersOf(held[a]) \cup NumbersOf(buffer[a]))]
            BY <5>2 DEF Crash
          <6> QED
            BY <6>1
        <5> QED
          BY <3>2, <5>1, <5>2
      <4> QED
        BY <1>0, <2>1, <4>1 DEF TypeOK
    <3> QED
      BY <1>3, <3>1, <3>2 DEF Pump
  <2>6. Alone' => Alone
    BY <2>2, <2>3, <2>5 DEF Alone
  <2>7. \A b \in Attempts : task'[b] = "none" => task[b] = "none" /\ written'[b] = written[b]
    BY <2>2, <2>3
  <2>8. CASE ~ Alone'
    BY <2>7, <2>8 DEF WholeInv
  <2>9. CASE Alone'
    <3>1. a = 1 /\ Alone
      BY <1>3, <2>6, <2>9, OnlyFirst
    <3>2. next[1] = (IF local THEN written[1] ELSE segment[1]) /\ next[1] \in Nat
      BY <1>0, FirstTypes DEF next, NextOf
    <3>3. next'[1] = IF local THEN written'[1] ELSE segment'[1]
      BY <1>0, <2>4 DEF next, NextOf
    <3>4. CASE UNCHANGED <<object, stored>> /\ next'[1] >= next[1]
      BY <2>4, <2>6, <2>7, <3>4, WholeKept
    <3>5. CASE WriteLine(1)
      <4>1. CASE ~ local
        <5>1. UNCHANGED <<object, stored, segment>>
          BY <3>5, <4>1 DEF WriteLine
        <5>2. next'[1] >= next[1]
          BY <3>2, <3>3, <4>1, <5>1
        <5> QED
          BY <3>4, <5>1, <5>2
      <4>2. CASE local
        <5> DEFINE n   == written[1]
                   new == << <<1, n + 1>> >>
        <5>1. n \in Nat /\ n < MaxLines /\ written' = [written EXCEPT ![1] = @ + 1]
          BY <1>0, <2>1, <3>5 DEF WriteLine, TypeOK
        <5>2. Put(n, new) /\ stored' = [stored EXCEPT ![1] = @ \cup {n + 1}]
          BY <3>5, <4>2 DEF WriteLine
        <5>3. gone[1] = n /\ next[1] = n /\ next'[1] = n + 1
          <6>1. held[1] = << >> /\ buffer[1] = << >>
            BY <2>1, <3>1, <4>2 DEF WriterInv, Paced
          <6>2. gone[1] = n
            BY <5>1, <6>1, FirstTypes DEF Gone
          <6>3. written'[1] = n + 1
            BY <1>0, <2>1, <5>1 DEF TypeOK
          <6> QED
            BY <3>2, <3>3, <4>2, <6>2, <6>3
        <5>4. /\ new \in Seq(Lines) /\ Len(new) = 1
              /\ \A k \in 1 .. Len(new) : new[k] = <<1, gone[1] + k>>
          BY <1>0, <5>1, <5>3 DEF Lines
        <5>5. stored'[1] = stored[1] \cup (gone[1] + 1) .. (gone[1] + Len(new))
          <6>1. (n + 1) .. (n + 1) = {n + 1}
            BY <5>1
          <6> QED
            BY <1>0, <2>1, <5>2, <5>3, <5>4, <6>1 DEF TypeOK
        <5>6. next[1] \in Indexes
          BY <5>1, <5>3 DEF Indexes
        <5> HIDE DEF n, new
        <5>7. StoreWhole' /\ (~ reader'.failed => ReadWhole')
          BY <2>4, <3>1, <5>2, <5>3, <5>4, <5>5, <5>6, WholePut
        <5> QED
          BY <2>7, <5>7 DEF WholeInv
      <4> QED
        BY <4>1, <4>2
    <3>6. CASE Push(1)
      <4> DEFINE new == held[1]
      <4>1. ~ local
        BY <2>1, <3>1, <3>6 DEF Push, Pushed, WriterInv, Paced
      <4>2. Put(segment[1], new) /\ stored' = [stored EXCEPT ![1] = @ \cup NumbersOf(new)]
        BY <3>6 DEF Push
      <4>3. next[1] = segment[1] /\ next'[1] = next[1] + 1
        <5>1. segment'[1] = segment[1] + 1
          BY <1>0, <2>1, <3>6 DEF Push, Pushed, TypeOK
        <5> QED
          BY <3>2, <3>3, <4>1, <5>1
      <4>4. new \in Seq(Lines) /\ \A k \in 1 .. Len(new) : new[k] = <<1, gone[1] + k>>
        BY <1>0, <2>1, <3>1, FirstTypes, Types DEF WriterInv, Waits
      <4>5. stored'[1] = stored[1] \cup (gone[1] + 1) .. (gone[1] + Len(new))
        <5>1. NumbersOf(new) = (gone[1] + 1) .. (gone[1] + Len(new))
          BY <1>0, <4>4, FirstTypes, NumbersInterval
        <5> QED
          BY <1>0, <2>1, <4>2, <5>1 DEF TypeOK
      <4>6. next[1] \in Indexes
        <5>1. DOMAIN object' \subseteq Indexes
          BY DEF IInv, TypeOK
        <5> QED
          BY <4>2, <4>3, <5>1 DEF Put
      <4> HIDE DEF new
      <4>7. StoreWhole' /\ (~ reader'.failed => ReadWhole')
        BY <2>4, <3>1, <4>2, <4>3, <4>4, <4>5, <4>6, WholePut
      <4> QED
        BY <2>7, <4>7 DEF WholeInv
    <3>7. CASE EndLog(1) \/ Tick(1) \/ TakeClose(1) \/ Swap(1) \/ Crash(1)
      <4>1. UNCHANGED <<object, stored, written, segment>>
        BY <3>7 DEF EndLog, Tick, TakeClose, Swap, Crash
      <4>2. next'[1] = next[1]
        BY <3>2, <3>3, <4>1
      <4> QED
        BY <3>2, <3>4, <4>1, <4>2
    <3>8. CASE PushFails(1)
      <4>1. UNCHANGED <<object, stored, written>> /\ segment' = [segment EXCEPT ![1] = @ + 1]
        BY <3>8 DEF PushFails, Pushed
      <4>2. segment[1] \in Nat /\ segment'[1] = segment[1] + 1
        BY <1>0, <2>1, <4>1, Types DEF TypeOK
      <4>3. next'[1] >= next[1]
        BY <3>2, <3>3, <4>1, <4>2
      <4> QED
        BY <3>4, <4>1, <4>3
    <3> QED
      BY <1>3, <3>1, <3>5, <3>6, <3>7, <3>8 DEF Pump
  <2> QED
    BY <2>8, <2>9
<1>4. CASE ReadStart \/ ReadNext \/ ReadFails
  <2>1. UNCHANGED <<task, written, dropped>>
    BY <1>4 DEF ReadStart, ReadNext, ReadFails, writer
  <2>2. Alone' => Alone
    BY <2>1 DEF Alone
  <2> QED
    BY <1>4, <2>1, <2>2, WholeRead DEF WholeInv
<1> QED
  BY <1>1, <1>2, <1>3, <1>4 DEF Next

LEMMA WholeInvariance == Spec => []WholeInv
<1>1. Init => WholeInv
  BY InitWhole
<1>2. IInv /\ IInv' /\ WholeInv /\ [Next]_vars => WholeInv'
  BY WholeStep
<1> QED
  BY <1>1, <1>2, LogInvariance, PTL DEF Spec

\* What Logs returns is true to what was written: in the order of each attempt, and while
\* there is one attempt and nothing failed, from the beginning and without gaps to at least
\* what was there when the reading began.
THEOREM LogIsRead == Spec => []LogIsTrue
<1>1. IInv /\ WholeInv => LogIsTrue
  <2> SUFFICES ASSUME IInv, WholeInv PROVE LogIsTrue
    OBVIOUS
  <2>1. ReadInOrder
    BY DEF IInv
  <2>2. ASSUME Alone, ~ reader.failed
        PROVE  /\ \A i \in DOMAIN reader.lines : reader.lines[i] = <<1, i>>
               /\ reader.todo = {} => Len(reader.lines) >= reader.floor
    <3>1. ReadWhole
      BY <2>2 DEF WholeInv
    <3>2. reader.floor \in Nat /\ Len(reader.lines) \in Nat
      BY FirstTypes
    <3>3. ASSUME reader.todo = {} PROVE Len(reader.lines) >= reader.floor
      <4>1. \A n \in 1 .. reader.floor : n <= Len(reader.lines)
        BY <3>1, <3>3 DEF ReadWhole
      <4>2. CASE reader.floor = 0
        BY <3>2, <4>2
      <4>3. CASE reader.floor # 0
        <5>1. reader.floor \in 1 .. reader.floor
          BY <3>2, <4>3
        <5> QED
          BY <3>2, <4>1, <5>1
      <4> QED
        BY <4>2, <4>3
    <3> QED
      BY <3>1, <3>3 DEF ReadWhole
  <2> QED
    BY <2>1, <2>2 DEF LogIsTrue, ReadIsWhole, Alone
<1> QED
  BY <1>1, LogInvariance, WholeInvariance, PTL

=============================================================================
