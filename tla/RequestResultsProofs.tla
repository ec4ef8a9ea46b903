------------------------ MODULE RequestResultsProofs ------------------------
(***************************************************************************)
(* Theorems about RequestResults, for any set of data sources and any      *)
(* number of attempts and records.                                         *)
(***************************************************************************)
EXTENDS RequestResults, TLAPS

\* The attempt has read 0 as its exit code.
HasRead(a, n) == place[a][n] \in {"store", "returned"}

\* Only what such attempts have received is stored.
StoredIsRead ==
  /\ \A ds \in DataSources :
       handle[ds] # 0 => /\ HasRead("start", handle[ds])
                         /\ got["start"][handle[ds]][ds] > 0
  /\ \A r \in results :
       /\ HasRead("extract", r.attempt)
       /\ r.records = got["extract"][r.attempt][r.source]
       /\ r.handle # 0 /\ got["start"][r.handle][r.source] > 0

\* An attempt that has read 0, and has received anything, had a good container or was
\* given up.
ReadIsGood ==
  \A a \in Activities, n \in Attempts, ds \in DataSources :
    HasRead(a, n) /\ got[a][n][ds] > 0 => n \in good[a] \cup givenUp[a]

\* What is answered comes from a good container.
AnswersGood ==
  \A ds \in DataSources :
    /\ item[ds] \in DataTypes => tries["start"] \in good["start"]
    /\ (item[ds] = "ok" /\ got["extract"][tries["extract"]][ds] > 0) =>
         tries["extract"] \in good["extract"]

\* Attempts that have not begun have left no trace.
Fresh ==
  \A a \in Activities, n \in Attempts :
    /\ n > tries[a] <=> place[a][n] = "idle"
    /\ n > tries[a] => n \notin givenUp[a] /\ \A ds \in DataSources : got[a][n][ds] = 0

\* An attempt before the last has failed or was given up.
LateGivenUp ==
  \A a \in Activities, n \in Attempts :
    n < tries[a] => n \in givenUp[a] \/ place[a][n] = "failed"

\* While it runs an attempt receives only what it has asked for, and it stores only what
\* it has received.
AskedGot ==
  \A a \in Activities, n \in Attempts, ds \in DataSources :
    /\ place[a][n] = "run" /\ got[a][n][ds] > 0 => ds \in asked[a][n]
    /\ place[a][n] = "store" /\ ds \in asked[a][n] => got[a][n][ds] > 0
    /\ place[a][n] = "returned" => asked[a][n] = {}

\* Items appear when the start activity returns, "ok" when the extraction does.
ItemsInPlace ==
  /\ phase = "start" => \A ds \in DataSources : item[ds] = "none"
  /\ phase = "extract" => /\ tries["start"] # 0
                          /\ place["start"][tries["start"]] = "returned"
  /\ \A ds \in DataSources :
       item[ds] = "ok" => /\ phase = "done"
                          /\ tries["extract"] # 0
                          /\ place["extract"][tries["extract"]] = "returned"
                          /\ ds \notin bad["extract"][tries["extract"]]

\* A handle that an extraction has sent was received by the start activity.
UsedKnown ==
  \A n \in Attempts, ds \in DataSources :
    ds \in asked["extract"][n] =>
      /\ used[n][ds] # 0
      /\ got["start"][used[n][ds]][ds] > 0

\* What the last attempt of the start activity has received is still to be stored, could
\* not be stored, or is stored, unless a late attempt has replaced it.
HandlesKept ==
  LET n == tries["start"] IN
  \A ds \in DataSources :
    (n # 0 /\ place["start"][n] \in {"store", "returned"} /\ got["start"][n][ds] > 0) =>
      \/ ds \in asked["start"][n] \cup bad["start"][n]
      \/ handle[ds] = n
      \/ handle[ds] \in givenUp["start"]

\* The same of the results of an extraction, whose rows are never replaced.
ResultsKept ==
  \A n \in Attempts, ds \in DataSources :
    (IsQuery /\ HasRead("extract", n) /\ got["extract"][n][ds] > 0) =>
      \/ ds \in asked["extract"][n] \cup bad["extract"][n]
      \/ \E r \in results : r.source = ds /\ r.attempt = n

\* A data source whose result is stored is not stored again by the same attempt.
StoredIsTaken ==
  \A r \in results : r.source \notin asked["extract"][r.attempt]

IInv ==
  /\ TypeOK /\ Fresh /\ LateGivenUp /\ AskedGot /\ ItemsInPlace
  /\ UsedKnown /\ HandlesKept /\ ResultsKept /\ StoredIsTaken
  /\ StoredIsRead /\ AnswersHaveHandles /\ ResultOnce

-----------------------------------------------------------------------------
USE ResultsAssumption

\* What a table is after one entry was set.
LEMMA SetEntry ==
  ASSUME NEW S, NEW f \in Table(S),
         NEW a \in Activities, NEW n \in Attempts, NEW x \in S
  PROVE  /\ Set(f, a, n, x) \in Table(S)
         /\ Set(f, a, n, x)[a][n] = x
         /\ \A b \in Activities, k \in Attempts :
              (b # a \/ k # n) => Set(f, a, n, x)[b][k] = f[b][k]
  BY DEF Set, Table

\* An entry of a table.
LEMMA Entry ==
  ASSUME NEW S, NEW f \in Table(S), NEW a \in Activities, NEW n \in Attempts
  PROVE  f[a][n] \in S
  BY DEF Table

\* Attempts are numbered from 1, and 0 stands for none.
LEMMA Numbers ==
  ASSUME TypeOK
  PROVE  /\ \A a \in Activities : tries[a] # 0 => tries[a] \in Attempts
         /\ \A ds \in DataSources : handle[ds] # 0 => handle[ds] \in Attempts
         /\ \A r \in results : r.source \in DataSources /\ r.attempt \in Attempts
<1>1. \A r \in results : r.source \in DataSources /\ r.attempt \in Attempts
  BY DEF TypeOK, Row
<1>2. \A a \in Activities : tries[a] \in 0 .. MaxAttempts
  BY DEF TypeOK
<1>3. \A ds \in DataSources : handle[ds] \in 0 .. MaxAttempts
  BY DEF TypeOK
<1> QED
  BY <1>1, <1>2, <1>3 DEF Attempts

\* The same of the handles that an extraction has used.
LEMMA HandleNumbers ==
  ASSUME TypeOK
  PROVE  /\ \A n \in Attempts, ds \in DataSources :
              used[n][ds] # 0 => used[n][ds] \in Attempts
         /\ \A r \in results : r.handle # 0 => r.handle \in Attempts
<1>1. \A r \in results : r.handle \in 0 .. MaxAttempts
  BY DEF TypeOK, Row
<1>2. \A n \in Attempts, ds \in DataSources : used[n][ds] \in 0 .. MaxAttempts
  BY DEF TypeOK
<1> QED
  BY <1>1, <1>2 DEF Attempts

LEMMA InitTypes == Init => TypeOK
  BY DEF Init, TypeOK, Activities, Attempts, Classes, Items, Row, Table

\* The next attempt of an activity is one of the attempts.
LEMMA BeginTypes ==
  ASSUME TypeOK, NEW a \in Activities, NEW p \in {"run", "store", "failed"},
         NEW D \in SUBSET DataSources, Begin(a, p, D)
  PROVE  /\ tries[a] + 1 \in Attempts
         /\ tries' \in [Activities -> 0 .. MaxAttempts]
         /\ place' \in Table({"idle", "run", "store", "failed", "returned"})
         /\ asked' \in Table(SUBSET DataSources)
<1>1. tries[a] + 1 \in Attempts
  BY DEF TypeOK, Begin, Attempts
<1>2. tries' \in [Activities -> 0 .. MaxAttempts]
  BY <1>1 DEF TypeOK, Begin, Attempts
<1>3. place' \in Table({"idle", "run", "store", "failed", "returned"})
  BY <1>1, SetEntry DEF TypeOK, Begin
<1>4. asked' \in Table(SUBSET DataSources)
  BY <1>1, SetEntry DEF TypeOK, Begin
<1> QED
  BY <1>1, <1>2, <1>3, <1>4

\* An attempt that answers has begun.
LEMMA AnswersTypes ==
  ASSUME TypeOK, NEW a \in Activities, Answers(a)
  PROVE  /\ tries[a] \in Attempts
         /\ place' \in Table({"idle", "run", "store", "failed", "returned"})
<1>1. tries[a] \in Attempts
  BY DEF TypeOK, Answers, Attempts
<1> QED
  BY <1>1, SetEntry DEF TypeOK, Answers

\* Every step keeps the types.
LEMMA TypeStep == TypeOK /\ AskedGot /\ [Next]_vars => TypeOK'
<1> SUFFICES ASSUME TypeOK, AskedGot, [Next]_vars PROVE TypeOK'
  OBVIOUS
<1>a. "start" \in Activities /\ "extract" \in Activities
  BY DEF Activities
<1>1. ASSUME BeginStart PROVE TypeOK'
  <2>1. PICK p \in {"run", "store", "failed"}, D \in SUBSET DataSources : Begin("start", p, D)
    BY <1>1 DEF BeginStart, Of
  <2> QED
    BY <1>1, <2>1, <1>a, BeginTypes DEF BeginStart, Begin, TypeOK
<1>2. ASSUME ReturnStart PROVE TypeOK'
  <2>1. phase' \in Activities \cup {"done", "failed"}
    BY <1>2 DEF ReturnStart, Activities
  <2>2. item' \in [DataSources -> Items]
    BY <1>2 DEF ReturnStart, Items, DataTypes
  <2> QED
    BY <1>2, <2>1, <2>2, <1>a, AnswersTypes DEF ReturnStart, Answers, TypeOK
<1>3. ASSUME BeginExtract PROVE TypeOK'
  <2>1. PICK p \in {"run", "store", "failed"}, D \in SUBSET DataSources : Begin("extract", p, D)
    BY <1>3 DEF BeginExtract
  <2>2. tries["extract"] + 1 \in Attempts
    BY <2>1, <1>a, BeginTypes
  <2>3. used' \in [Attempts -> [DataSources -> 0 .. MaxAttempts]]
    BY <1>3, <2>2 DEF BeginExtract, TypeOK
  <2> QED
    BY <1>3, <2>1, <2>3, <1>a, BeginTypes DEF BeginExtract, Begin, TypeOK
<1>4. ASSUME ReturnExtract PROVE TypeOK'
  <2>1. item' \in [DataSources -> Items]
    BY <1>4 DEF ReturnExtract, TypeOK, Items
  <2> QED
    BY <1>4, <2>1, <1>a, AnswersTypes DEF ReturnExtract, Answers, TypeOK
<1>5. ASSUME NEW a \in Activities, GiveUp(a) PROVE TypeOK'
  <2>1. tries[a] \in Attempts
    BY <1>5 DEF GiveUp, Lost, TypeOK, Attempts
  <2>2. givenUp' \in [Activities -> SUBSET Attempts]
    BY <1>5, <2>1 DEF GiveUp, TypeOK
  <2> QED
    BY <1>5, <2>2 DEF GiveUp, TypeOK
<1>6. ASSUME NEW a \in Activities, Exhausted(a) PROVE TypeOK'
  BY <1>6 DEF Exhausted, attempt, TypeOK
<1>7. ASSUME NEW a \in Activities, NEW n \in Attempts, Exit(a, n) PROVE TypeOK'
  <2>1. place' \in Table({"idle", "run", "store", "failed", "returned"})
    BY <1>7, SetEntry DEF Exit, TypeOK
  <2>2. asked' \in Table(SUBSET DataSources)
    <3> DEFINE D == {ds \in asked[a][n] : got[a][n][ds] > 0}
    <3>1. D \in SUBSET DataSources
      BY Entry DEF TypeOK
    <3>2. Set(asked, a, n, D) \in Table(SUBSET DataSources)
      BY <3>1, SetEntry DEF TypeOK
    <3> QED
      BY <1>7, <3>2 DEF Exit, TypeOK
  <2>3. good' \in [Activities -> SUBSET Attempts]
    BY <1>7 DEF Exit, TypeOK
  <2> QED
    BY <1>7, <2>1, <2>2, <2>3 DEF Exit, TypeOK
<1>8. ASSUME NEW a \in Activities, NEW n \in Attempts, NEW ds \in DataSources, Receive(a, n, ds)
      PROVE  TypeOK'
  <2>1. got[a][n] \in [DataSources -> 0 .. MaxRecords]
    BY Entry DEF TypeOK
  <2>2. [got[a][n] EXCEPT ![ds] = @ + 1] \in [DataSources -> 0 .. MaxRecords]
    BY <1>8, <2>1 DEF Receive
  <2>3. got' \in Table([DataSources -> 0 .. MaxRecords])
    BY <1>8, <2>2, SetEntry DEF Receive, TypeOK
  <2> QED
    BY <1>8, <2>3 DEF Receive, TypeOK
<1>9. ASSUME NEW a \in Activities, NEW n \in Attempts, NEW ds \in DataSources, Taken(a, n, ds)
      PROVE  asked' \in Table(SUBSET DataSources)
  <2>1. asked[a][n] \ {ds} \in SUBSET DataSources
    BY Entry DEF TypeOK
  <2> QED
    BY <1>9, <2>1, SetEntry DEF Taken, TypeOK
<1>10. ASSUME NEW a \in Activities, NEW n \in Attempts, NEW ds \in DataSources
       PROVE  Set(bad, a, n, bad[a][n] \cup {ds}) \in Table(SUBSET DataSources)
  <2>1. bad[a][n] \cup {ds} \in SUBSET DataSources
    BY Entry DEF TypeOK
  <2> QED
    BY <2>1, SetEntry DEF TypeOK
<1>11. ASSUME NEW n \in Attempts, NEW ds \in DataSources, StoreHandle(n, ds) PROVE TypeOK'
  <2>a. Set(bad, "start", n, bad["start"][n] \cup {ds}) \in Table(SUBSET DataSources)
    BY <1>10, <1>a
  <2>b. Taken("start", n, ds) /\ asked' \in Table(SUBSET DataSources)
    BY <1>11, <1>9, <1>a DEF StoreHandle
  <2>1. bad' \in Table(SUBSET DataSources)
    BY <1>11, <2>a DEF StoreHandle, TypeOK
  <2>2. handle' \in [DataSources -> 0 .. MaxAttempts]
    <3>1. [handle EXCEPT ![ds] = n] \in [DataSources -> 0 .. MaxAttempts]
      BY DEF Attempts, TypeOK
    <3> QED
      BY <1>11, <3>1 DEF StoreHandle, TypeOK
  <2> QED
    BY <1>11, <2>b, <2>1, <2>2 DEF StoreHandle, Taken, TypeOK
<1>12. ASSUME NEW n \in Attempts, NEW ds \in DataSources, StoreResult(n, ds) PROVE TypeOK'
  <2>a. Set(bad, "extract", n, bad["extract"][n] \cup {ds}) \in Table(SUBSET DataSources)
    BY <1>10, <1>a
  <2>b. Taken("extract", n, ds) /\ asked' \in Table(SUBSET DataSources)
    BY <1>12, <1>9, <1>a DEF StoreResult
  <2>1. bad' \in Table(SUBSET DataSources)
    BY <1>12, <2>a DEF StoreResult, TypeOK
  <2>2. Rows(n, ds) \subseteq Row
    <3>1. got["extract"][n] \in [DataSources -> 0 .. MaxRecords]
      BY Entry, <1>a DEF TypeOK
    <3>2. got["extract"][n][ds] \in 1 .. MaxRecords
      BY <1>12, <1>a, <3>1 DEF StoreResult, Taken, AskedGot
    <3> QED
      BY <3>2 DEF Rows, Row, TypeOK
  <2>3. results' \subseteq Row
    BY <1>12, <2>2 DEF StoreResult, TypeOK
  <2> QED
    BY <1>12, <2>b, <2>1, <2>3 DEF StoreResult, Taken, TypeOK
<1>13. ASSUME NEW ds \in DataSources, Mark(ds) PROVE TypeOK'
  BY <1>13 DEF Mark, attempt, Classes, TypeOK
<1>14. CASE UNCHANGED vars
  BY <1>14 DEF vars, attempt, TypeOK
<1> QED
  BY <1>1, <1>2, <1>3, <1>4, <1>5, <1>6, <1>7, <1>8, <1>11, <1>12, <1>13, <1>14 DEF Next

-----------------------------------------------------------------------------
(* Temporal: attempts and retries. *)

\* What the beginning of an attempt changes.
LEMMA BeginFacts ==
  ASSUME TypeOK, NEW a \in Activities, NEW p \in {"run", "store", "failed"},
         NEW D \in SUBSET DataSources, Begin(a, p, D)
  PROVE  /\ tries[a] + 1 \in Attempts
         /\ tries'[a] = tries[a] + 1
         /\ \A b \in Activities : b # a => tries'[b] = tries[b]
         /\ place'[a][tries[a] + 1] = p
         /\ asked'[a][tries[a] + 1] = D
         /\ \A b \in Activities, k \in Attempts :
              (b # a \/ k # tries[a] + 1) => /\ place'[b][k] = place[b][k]
                                            /\ asked'[b][k] = asked[b][k]
         /\ UNCHANGED <<givenUp, got, bad>>
<1>1. tries[a] + 1 \in Attempts
  BY BeginTypes
<1>2. /\ tries'[a] = tries[a] + 1
      /\ \A b \in Activities : b # a => tries'[b] = tries[b]
  BY DEF Begin, TypeOK
<1>3. /\ place'[a][tries[a] + 1] = p
      /\ \A b \in Activities, k \in Attempts :
           (b # a \/ k # tries[a] + 1) => place'[b][k] = place[b][k]
  BY <1>1, SetEntry DEF Begin, TypeOK
<1>4. /\ asked'[a][tries[a] + 1] = D
      /\ \A b \in Activities, k \in Attempts :
           (b # a \/ k # tries[a] + 1) => asked'[b][k] = asked[b][k]
  BY <1>1, SetEntry DEF Begin, TypeOK
<1> QED
  BY <1>1, <1>2, <1>3, <1>4 DEF Begin

\* The parts of the invariant that are about attempts alone.
LEMMA BeginKeepsAttempts ==
  ASSUME TypeOK, Fresh, LateGivenUp, AskedGot, NEW a \in Activities,
         NEW p \in {"run", "store", "failed"}, NEW D \in SUBSET DataSources,
         Begin(a, p, D), p = "store" => D = {}
  PROVE  Fresh' /\ LateGivenUp' /\ AskedGot'
<1> DEFINE m == tries[a] + 1
<1>1. m \in Attempts /\ tries'[a] = m /\ m > tries[a] /\ tries[a] \in Nat
  BY BeginFacts DEF TypeOK
<1>2. \A b \in Activities : tries[b] \in Nat
  BY DEF TypeOK
<1>3. \A k \in Attempts : k \in Nat /\ k # 0
  BY DEF Attempts
<1>4. place'[a][m] = p /\ asked'[a][m] = D
  BY BeginFacts
<1>5. \A b \in Activities, k \in Attempts :
        (b # a \/ k # m) => place'[b][k] = place[b][k] /\ asked'[b][k] = asked[b][k]
  BY BeginFacts
<1>6. \A b \in Activities : b # a => tries'[b] = tries[b]
  BY BeginFacts
<1>7. givenUp' = givenUp /\ got' = got
  BY BeginFacts
<1>8. place[a][m] = "idle" /\ m \notin givenUp[a] /\ \A ds \in DataSources : got[a][m][ds] = 0
  BY <1>1 DEF Fresh
<1>9. Fresh'
  <2> SUFFICES ASSUME NEW b \in Activities, NEW k \in Attempts
               PROVE  /\ k > tries'[b] <=> place'[b][k] = "idle"
                      /\ k > tries'[b] =>
                           k \notin givenUp'[b] /\ \A ds \in DataSources : got'[b][k][ds] = 0
    BY DEF Fresh
  <2>1. CASE b = a /\ k = m
    BY <2>1, <1>1, <1>4, <1>3
  <2>2. CASE b = a /\ k # m
    <3>1. k > m <=> k > tries[a]
      BY <2>2, <1>1, <1>3
    <3> QED
      BY <2>2, <3>1, <1>1, <1>5, <1>7 DEF Fresh
  <2>3. CASE b # a
    BY <2>3, <1>5, <1>6, <1>7 DEF Fresh
  <2> QED
    BY <2>1, <2>2, <2>3
<1>10. LateGivenUp'
  <2> SUFFICES ASSUME NEW b \in Activities, NEW k \in Attempts, k < tries'[b]
               PROVE  k \in givenUp'[b] \/ place'[b][k] = "failed"
    BY DEF LateGivenUp
  <2>1. CASE b = a /\ k < tries[a]
    BY <2>1, <1>1, <1>3, <1>5, <1>7 DEF LateGivenUp
  <2>2. CASE b = a /\ ~ k < tries[a]
    <3>1. k = tries[a] /\ k # m
      BY <2>2, <1>1, <1>3
    <3>2. k \in givenUp[a] \/ place[a][k] = "failed"
      BY <3>1, <1>3 DEF Begin, Lost
    <3> QED
      BY <2>2, <3>1, <3>2, <1>5, <1>7
  <2>3. CASE b # a
    BY <2>3, <1>5, <1>6, <1>7 DEF LateGivenUp
  <2> QED
    BY <2>1, <2>2, <2>3
<1>11. AskedGot'
  <2> SUFFICES ASSUME NEW b \in Activities, NEW k \in Attempts, NEW ds \in DataSources
               PROVE  /\ place'[b][k] = "run" /\ got'[b][k][ds] > 0 => ds \in asked'[b][k]
                      /\ place'[b][k] = "store" /\ ds \in asked'[b][k] => got'[b][k][ds] > 0
                      /\ place'[b][k] = "returned" => asked'[b][k] = {}
    BY DEF AskedGot
  <2>1. CASE b = a /\ k = m
    BY <2>1, <1>4, <1>7, <1>8
  <2>2. CASE b # a \/ k # m
    BY <2>2, <1>5, <1>7 DEF AskedGot
  <2> QED
    BY <2>1, <2>2
<1> QED
  BY <1>9, <1>10, <1>11

LEMMA BeginStartKeeps == IInv /\ BeginStart /\ TypeOK' => IInv'
<1> SUFFICES ASSUME IInv, BeginStart, TypeOK' PROVE IInv'
  OBVIOUS
<1> USE DEF IInv
<1>a. "start" \in Activities /\ "extract" \in Activities /\ "start" # "extract"
  BY DEF Activities
<1>b. PICK p \in {"run", "store", "failed"}, D \in SUBSET DataSources :
        Begin("start", p, D) /\ (p = "store" => D = {})
  BY DEF BeginStart, Of
<1> DEFINE m == tries["start"] + 1
<1>1. Fresh' /\ LateGivenUp' /\ AskedGot'
  BY <1>a, <1>b, BeginKeepsAttempts
<1>2. m \in Attempts /\ place["start"][m] = "idle"
  BY <1>a, <1>b, BeginFacts DEF Fresh, TypeOK
<1>3. \A k \in Attempts :
        place["start"][k] # "idle" => place'["start"][k] = place["start"][k]
  BY <1>a, <1>b, <1>2, BeginFacts
<1>4. /\ tries'["extract"] = tries["extract"]
      /\ \A k \in Attempts : /\ place'["extract"][k] = place["extract"][k]
                             /\ asked'["extract"][k] = asked["extract"][k]
  BY <1>a, <1>b, BeginFacts
<1>5. UNCHANGED <<handle, results, phase, item, used, givenUp, got, bad>>
  BY <1>a, <1>b, BeginFacts DEF BeginStart
<1>6. phase = "start" /\ \A ds \in DataSources : item[ds] = "none"
  BY <1>b DEF Begin, ItemsInPlace
<1>7. ItemsInPlace' /\ AnswersHaveHandles'
  BY <1>5, <1>6 DEF ItemsInPlace, AnswersHaveHandles, DataTypes
<1>8. UsedKnown' /\ ResultsKept' /\ StoredIsTaken' /\ ResultOnce'
  <2>1. UsedKnown'
    BY <1>4, <1>5 DEF UsedKnown
  <2>2. ResultsKept'
    BY <1>4, <1>5 DEF ResultsKept, HasRead
  <2>3. \A r \in results : r.attempt \in Attempts
    BY DEF TypeOK, Row
  <2>4. StoredIsTaken' /\ ResultOnce'
    BY <1>4, <1>5, <2>3 DEF StoredIsTaken, ResultOnce
  <2> QED
    BY <2>1, <2>2, <2>4
<1>9. HandlesKept'
  <2>1. tries'["start"] = m /\ \A ds \in DataSources : got["start"][m][ds] = 0
    BY <1>a, <1>b, <1>2, BeginFacts DEF Fresh, TypeOK
  <2> QED
    BY <2>1, <1>5 DEF HandlesKept
<1>10. StoredIsRead'
  <2>1. \A k \in Attempts : HasRead("start", k) => HasRead("start", k)'
    BY <1>3 DEF HasRead
  <2>2. \A k \in Attempts : HasRead("extract", k) => HasRead("extract", k)'
    BY <1>4 DEF HasRead
  <2>3. \A ds \in DataSources : handle[ds] # 0 => handle[ds] \in Attempts
    BY DEF TypeOK, Attempts
  <2>4. \A r \in results : r.attempt \in Attempts
    BY DEF TypeOK, Row
  <2> QED
    BY <1>5, <2>1, <2>2, <2>3, <2>4 DEF StoredIsRead
<1> QED
  BY <1>1, <1>7, <1>8, <1>9, <1>10

LEMMA BeginExtractKeeps == IInv /\ BeginExtract /\ TypeOK' => IInv'
<1> SUFFICES ASSUME IInv, BeginExtract, TypeOK' PROVE IInv'
  OBVIOUS
<1> USE DEF IInv
<1>a. "start" \in Activities /\ "extract" \in Activities /\ "start" # "extract"
  BY DEF Activities
<1> DEFINE D == {ds \in DataSources : item[ds] \in {"records", "file"}}
           m == tries["extract"] + 1
<1>b. PICK p \in {"run", "store", "failed"} :
        Begin("extract", p, D) /\ (p = "store" => D = {})
  BY DEF BeginExtract
<1>c. D \in SUBSET DataSources
  OBVIOUS
<1> HIDE DEF D
<1>1. Fresh' /\ LateGivenUp' /\ AskedGot'
  BY <1>a, <1>b, <1>c, BeginKeepsAttempts
<1>2. m \in Attempts /\ place["extract"][m] = "idle"
  BY <1>a, <1>b, <1>c, BeginFacts DEF Fresh, TypeOK
<1>3. /\ tries'["extract"] = m /\ asked'["extract"][m] = D
      /\ \A k \in Attempts : k # m => /\ place'["extract"][k] = place["extract"][k]
                                      /\ asked'["extract"][k] = asked["extract"][k]
  BY <1>a, <1>b, <1>c, BeginFacts
<1>4. /\ tries'["start"] = tries["start"]
      /\ \A k \in Attempts : /\ place'["start"][k] = place["start"][k]
                             /\ asked'["start"][k] = asked["start"][k]
  BY <1>a, <1>b, <1>c, BeginFacts
<1>5. UNCHANGED <<handle, results, phase, item, givenUp, got, bad>>
  BY <1>a, <1>b, <1>c, BeginFacts DEF BeginExtract
<1>6. /\ used'[m] = handle
      /\ \A k \in Attempts : k # m => used'[k] = used[k]
  BY <1>2 DEF BeginExtract, TypeOK
<1>7. phase = "extract" /\ tries["start"] # 0
  BY <1>b DEF Begin, ItemsInPlace
<1>8. ItemsInPlace' /\ AnswersHaveHandles'
  <2>1. tries["start"] \in Attempts
    BY <1>7, <1>a DEF TypeOK, Attempts
  <2>2. ItemsInPlace'
    BY <1>4, <1>5, <1>7, <2>1 DEF ItemsInPlace
  <2>3. AnswersHaveHandles'
    BY <1>4, <1>5 DEF AnswersHaveHandles
  <2> QED
    BY <2>2, <2>3
<1>9. UsedKnown'
  <2> SUFFICES ASSUME NEW n \in Attempts, NEW ds \in DataSources, ds \in asked'["extract"][n]
               PROVE  used'[n][ds] # 0 /\ got'["start"][used'[n][ds]][ds] > 0
    BY DEF UsedKnown
  <2>1. CASE n = m
    <3>1. item[ds] \in DataTypes
      BY <2>1, <1>3 DEF D, DataTypes
    <3>2. handle[ds] # 0
      BY <3>1, <1>7, <1>a DEF AnswersHaveHandles, TypeOK, Attempts
    <3> QED
      BY <2>1, <3>2, <1>5, <1>6 DEF StoredIsRead
  <2>2. CASE n # m
    BY <2>2, <1>3, <1>5, <1>6 DEF UsedKnown
  <2> QED
    BY <2>1, <2>2
<1>10. HandlesKept'
  <2>1. tries["start"] \in Attempts
    BY <1>7, <1>a DEF TypeOK, Attempts
  <2> QED
    BY <2>1, <1>4, <1>5 DEF HandlesKept
<1>11. \A ds \in DataSources : got["extract"][m][ds] = 0
  BY <1>2, <1>a DEF Fresh, TypeOK
<1>12. ResultsKept'
  <2> SUFFICES ASSUME NEW n \in Attempts, NEW ds \in DataSources,
                      IsQuery, HasRead("extract", n)', got'["extract"][n][ds] > 0
               PROVE  \/ ds \in asked'["extract"][n] \cup bad'["extract"][n]
                      \/ \E r \in results' : r.source = ds /\ r.attempt = n
    BY DEF ResultsKept
  <2>1. n # m
    BY <1>5, <1>11
  <2> QED
    BY <2>1, <1>3, <1>5 DEF ResultsKept, HasRead
<1>13. \A r \in results : r.attempt \in Attempts /\ r.attempt # m
  BY <1>2 DEF TypeOK, Row, StoredIsRead, HasRead
<1>14. StoredIsTaken'
  BY <1>3, <1>5, <1>13 DEF StoredIsTaken
<1>15. StoredIsRead'
  <2>1. \A k \in Attempts : HasRead("start", k) => HasRead("start", k)'
    BY <1>4 DEF HasRead
  <2>2. \A k \in Attempts : k # m /\ HasRead("extract", k) => HasRead("extract", k)'
    BY <1>3 DEF HasRead
  <2>3. \A ds \in DataSources : handle[ds] # 0 => handle[ds] \in Attempts
    BY DEF TypeOK, Attempts
  <2> QED
    BY <1>5, <1>13, <2>1, <2>2, <2>3 DEF StoredIsRead
<1>16. ResultOnce'
  <2>1. tries["extract"] \in {0} \cup givenUp["extract"]
          \cup {n \in Attempts : place["extract"][n] = "failed"}
    BY <1>b DEF Begin, Lost
  <2>2. \A r \in results : r.attempt \in givenUp["extract"]
    BY <2>1, <1>13 DEF ResultOnce, StoredIsRead, HasRead, Attempts
  <2> QED
    BY <2>2, <1>5 DEF ResultOnce
<1> QED
  BY <1>1, <1>8, <1>9, <1>10, <1>12, <1>14, <1>15, <1>16

LEMMA GiveUpKeeps == ASSUME NEW a \in Activities PROVE IInv /\ GiveUp(a) /\ TypeOK' => IInv'
<1> SUFFICES ASSUME IInv, GiveUp(a), TypeOK' PROVE IInv'
  OBVIOUS
<1> USE DEF IInv
<1>1. /\ \A b \in Activities : b # a => givenUp'[b] = givenUp[b]
      /\ givenUp'[a] = givenUp[a] \cup {tries[a]}
  BY DEF GiveUp, TypeOK
<1>2. \A b \in Activities : givenUp[b] \subseteq givenUp'[b]
  BY <1>1
<1>3. UNCHANGED <<handle, results, phase, item, tries, place, asked, used, got, bad>>
  BY DEF GiveUp
<1>a. "start" \in Activities /\ "extract" \in Activities
  BY DEF Activities
<1>4. Fresh'
  <2>1. \A b \in Activities, n \in Attempts : n > tries[b] => n \notin givenUp'[b]
    <3> SUFFICES ASSUME NEW b \in Activities, NEW n \in Attempts, n > tries[b]
                 PROVE  n \notin givenUp'[b]
      OBVIOUS
    <3>1. n \notin givenUp[b]
      BY DEF Fresh
    <3>2. n # tries[b]
      BY DEF TypeOK, Attempts
    <3> QED
      BY <1>1, <3>1, <3>2
  <2> QED
    BY <1>3, <2>1 DEF Fresh
<1>5. LateGivenUp'
  BY <1>2, <1>3 DEF LateGivenUp
<1>6. AskedGot' /\ ItemsInPlace' /\ UsedKnown'
  BY <1>3 DEF AskedGot, ItemsInPlace, UsedKnown
<1>7. ResultsKept' /\ StoredIsTaken' /\ StoredIsRead'
  BY <1>3 DEF ResultsKept, StoredIsTaken, StoredIsRead, HasRead
<1>8. HandlesKept' /\ AnswersHaveHandles'
  BY <1>a, <1>2, <1>3 DEF HandlesKept, AnswersHaveHandles
<1>9. ResultOnce'
  BY <1>a, <1>2, <1>3 DEF ResultOnce
<1> QED
  BY <1>4, <1>5, <1>6, <1>7, <1>8, <1>9

LEMMA ExhaustedKeeps ==
  ASSUME NEW a \in Activities PROVE IInv /\ Exhausted(a) /\ TypeOK' => IInv'
<1> SUFFICES ASSUME IInv, Exhausted(a), TypeOK' PROVE IInv'
  OBVIOUS
<1> USE DEF IInv
<1>1. UNCHANGED <<handle, results, item, tries, givenUp, place, asked, used, got, bad>>
  BY DEF Exhausted, attempt
<1>2. phase \in Activities /\ phase' = "failed"
  BY DEF Exhausted
<1>3. ItemsInPlace'
  BY <1>1, <1>2 DEF ItemsInPlace, Activities
<1>4. Fresh' /\ LateGivenUp' /\ AskedGot' /\ UsedKnown' /\ HandlesKept'
  BY <1>1 DEF Fresh, LateGivenUp, AskedGot, UsedKnown, HandlesKept
<1>5. ResultsKept' /\ StoredIsTaken' /\ StoredIsRead' /\ AnswersHaveHandles' /\ ResultOnce'
  BY <1>1 DEF ResultsKept, StoredIsTaken, StoredIsRead, HasRead, AnswersHaveHandles, ResultOnce
<1> QED
  BY <1>3, <1>4, <1>5

-----------------------------------------------------------------------------
(* An attempt. *)

LEMMA ExitKeeps ==
  ASSUME NEW a \in Activities, NEW n \in Attempts PROVE IInv /\ Exit(a, n) /\ TypeOK' => IInv'
<1> SUFFICES ASSUME IInv, Exit(a, n), TypeOK' PROVE IInv'
  OBVIOUS
<1> USE DEF IInv
<1>a. "start" \in Activities /\ "extract" \in Activities
  BY DEF Activities
<1>b. /\ place \in Table({"idle", "run", "store", "failed", "returned"})
      /\ asked \in Table(SUBSET DataSources)
  BY DEF TypeOK
<1> DEFINE D == {ds \in asked[a][n] : got[a][n][ds] > 0}
<1>1. UNCHANGED <<handle, results, phase, item, tries, givenUp, used, got, bad>>
  BY DEF Exit
<1>2. place[a][n] = "run" /\ place'[a][n] \in {"store", "failed"}
  BY SetEntry DEF Exit, TypeOK
<1>3. \A b \in Activities, k \in Attempts :
        (b # a \/ k # n) => place'[b][k] = place[b][k] /\ asked'[b][k] = asked[b][k]
  <2>1. D \in SUBSET DataSources
    BY Entry DEF TypeOK
  <2> HIDE DEF D
  <2>2. asked' = asked \/ asked' = Set(asked, a, n, D)
    BY DEF Exit, D
  <2>3. \A b \in Activities, k \in Attempts :
          (b # a \/ k # n) => Set(asked, a, n, D)[b][k] = asked[b][k]
    BY <1>b, <2>1, SetEntry
  <2>4. \A b \in Activities, k \in Attempts : (b # a \/ k # n) =>
          /\ Set(place, a, n, "store")[b][k] = place[b][k]
          /\ Set(place, a, n, "failed")[b][k] = place[b][k]
    BY <1>b, SetEntry
  <2>5. place' = Set(place, a, n, "store") \/ place' = Set(place, a, n, "failed")
    BY DEF Exit
  <2> QED
    BY <2>2, <2>3, <2>4, <2>5
<1>4. /\ place'[a][n] = "store" => asked'[a][n] = D
      /\ asked'[a][n] \subseteq asked[a][n]
  <2>1. D \in SUBSET DataSources /\ D \subseteq asked[a][n]
    BY Entry DEF TypeOK
  <2> HIDE DEF D
  <2>2. CASE asked' = Set(asked, a, n, D)
    BY <2>1, <2>2, SetEntry DEF TypeOK
  <2>3. CASE place' = Set(place, a, n, "failed") /\ asked' = asked
    <3>1. Set(place, a, n, "failed")[a][n] = "failed"
      BY <1>b, SetEntry
    <3> QED
      BY <2>3, <3>1
  <2> QED
    BY <2>2, <2>3 DEF Exit, D
<1>5. Fresh' /\ LateGivenUp'
  BY <1>1, <1>2, <1>3 DEF Fresh, LateGivenUp
<1>6. AskedGot'
  BY <1>1, <1>2, <1>3, <1>4 DEF AskedGot
<1>7. ItemsInPlace'
  <2>1. \A b \in Activities :
          (tries[b] # 0 /\ place[b][tries[b]] = "returned")
            => place'[b][tries[b]] = "returned"
    BY <1>2, <1>3, Numbers
  <2> QED
    BY <1>a, <1>1, <2>1 DEF ItemsInPlace
<1>8. \A b \in Activities, k \in Attempts : asked'[b][k] \subseteq asked[b][k]
  BY <1>3, <1>4
<1>9. UsedKnown'
  BY <1>a, <1>1, <1>8 DEF UsedKnown
<1>10. \A b \in Activities, k \in Attempts, ds \in DataSources :
         (place'[b][k] \in {"store", "returned"} /\ got[b][k][ds] > 0) =>
           \/ ds \in asked'[b][k]
           \/ place[b][k] \in {"store", "returned"} /\ asked'[b][k] = asked[b][k]
  BY <1>2, <1>3, <1>4 DEF AskedGot
<1>11. HandlesKept'
  <2>1. tries["start"] # 0 => tries["start"] \in Attempts
    BY <1>a DEF TypeOK, Attempts
  <2> QED
    BY <1>a, <1>1, <1>10, <2>1 DEF HandlesKept
<1>12. ResultsKept'
  BY <1>a, <1>1, <1>10 DEF ResultsKept, HasRead
<1>13. \A r \in results : r.attempt \in Attempts /\ r.source \in DataSources
  BY DEF TypeOK, Row
<1>14. StoredIsTaken'
  BY <1>a, <1>1, <1>8, <1>13 DEF StoredIsTaken
<1>15. StoredIsRead'
  <2>1. \A b \in Activities, k \in Attempts : HasRead(b, k) => HasRead(b, k)'
    BY <1>2, <1>3 DEF HasRead
  <2>2. \A ds \in DataSources : handle[ds] # 0 => handle[ds] \in Attempts
    BY DEF TypeOK, Attempts
  <2> QED
    BY <1>a, <1>1, <1>13, <2>1, <2>2 DEF StoredIsRead
<1>16. AnswersHaveHandles' /\ ResultOnce'
  BY <1>1 DEF AnswersHaveHandles, ResultOnce
<1> QED
  BY <1>5, <1>6, <1>7, <1>9, <1>11, <1>12, <1>14, <1>15, <1>16

LEMMA ReceiveKeeps ==
  ASSUME NEW a \in Activities, NEW n \in Attempts, NEW ds \in DataSources
  PROVE  IInv /\ Receive(a, n, ds) /\ TypeOK' => IInv'
<1> SUFFICES ASSUME IInv, Receive(a, n, ds), TypeOK' PROVE IInv'
  OBVIOUS
<1> USE DEF IInv
<1>a. "start" \in Activities /\ "extract" \in Activities
  BY DEF Activities
<1>1. UNCHANGED <<handle, results, phase, item, tries, givenUp, place, asked, used, bad>>
  BY DEF Receive
<1>2. place[a][n] = "run" /\ ds \in asked[a][n]
  BY DEF Receive
<1>3. \A b \in Activities, k \in Attempts : got[b][k] \in [DataSources -> 0 .. MaxRecords]
  BY Entry DEF TypeOK
<1>4. /\ got'[a][n] = [got[a][n] EXCEPT ![ds] = @ + 1]
      /\ \A b \in Activities, k \in Attempts : (b # a \/ k # n) => got'[b][k] = got[b][k]
  <2>1. got[a][n][ds] + 1 \in 0 .. MaxRecords
    BY <1>3 DEF Receive
  <2>2. [got[a][n] EXCEPT ![ds] = @ + 1] \in [DataSources -> 0 .. MaxRecords]
    BY <1>3, <2>1
  <2>3. got' = Set(got, a, n, [got[a][n] EXCEPT ![ds] = @ + 1])
    BY DEF Receive
  <2> DEFINE x == [got[a][n] EXCEPT ![ds] = @ + 1]
  <2>4. x \in [DataSources -> 0 .. MaxRecords] /\ got' = Set(got, a, n, x)
    BY <2>2, <2>3
  <2> HIDE DEF x
  <2>5. /\ got'[a][n] = x
        /\ \A b \in Activities, k \in Attempts : (b # a \/ k # n) => got'[b][k] = got[b][k]
    BY <2>4, SetEntry DEF TypeOK
  <2> QED
    BY <2>5 DEF x
<1>5. /\ \A d \in DataSources : d # ds => got'[a][n][d] = got[a][n][d]
      /\ got'[a][n][ds] > 0
  BY <1>3, <1>4
<1>6. \A b \in Activities, k \in Attempts, d \in DataSources :
        got[b][k][d] > 0 => got'[b][k][d] > 0
  BY <1>4, <1>5
<1>7. Fresh'
  <2>1. ~ n > tries[a]
    BY <1>2 DEF Fresh
  <2> QED
    BY <1>1, <1>4, <2>1 DEF Fresh
<1>8. LateGivenUp' /\ ItemsInPlace' /\ StoredIsTaken' /\ AnswersHaveHandles' /\ ResultOnce'
  BY <1>1 DEF LateGivenUp, ItemsInPlace, StoredIsTaken, AnswersHaveHandles, ResultOnce
<1>9. AskedGot'
  <2>1. \A b \in Activities, k \in Attempts, d \in DataSources :
          got'[b][k][d] > 0 => got[b][k][d] > 0 \/ (b = a /\ k = n /\ d = ds)
    BY <1>4, <1>5
  <2> QED
    BY <1>1, <1>2, <1>6, <2>1 DEF AskedGot
<1>10. UsedKnown'
  BY <1>a, <1>1, <1>6, HandleNumbers DEF UsedKnown
<1>11. HandlesKept'
  <2>1. tries["start"] # 0 => tries["start"] \in Attempts
    BY <1>a DEF TypeOK, Attempts
  <2> QED
    BY <1>a, <1>1, <1>2, <1>4, <2>1 DEF HandlesKept
<1>12. ResultsKept'
  BY <1>a, <1>1, <1>2, <1>4 DEF ResultsKept, HasRead
<1>13. StoredIsRead'
  <2>1. \A r \in results : got'["extract"][r.attempt] = got["extract"][r.attempt]
    <3> SUFFICES ASSUME NEW r \in results
                 PROVE  got'["extract"][r.attempt] = got["extract"][r.attempt]
      OBVIOUS
    <3>1. r.attempt \in Attempts /\ place["extract"][r.attempt] # "run"
      BY Numbers DEF StoredIsRead, HasRead
    <3>2. a # "extract" \/ r.attempt # n
      BY <3>1, <1>2
    <3> QED
      BY <1>a, <1>4, <3>1, <3>2
  <2>2. \A d \in DataSources :
          handle[d] # 0 => HasRead("start", handle[d])' /\ got'["start"][handle[d]][d] > 0
    BY <1>a, <1>1, <1>6, Numbers DEF StoredIsRead, HasRead
  <2>3. \A r \in results :
          r.handle # 0 /\ got'["start"][r.handle][r.source] > 0
    BY <1>a, <1>6, Numbers, HandleNumbers DEF StoredIsRead
  <2>4. \A r \in results :
          HasRead("extract", r.attempt)' /\ r.records = got'["extract"][r.attempt][r.source]
    BY <1>1, <2>1 DEF StoredIsRead, HasRead
  <2> QED
    BY <1>1, <2>2, <2>3, <2>4 DEF StoredIsRead
<1> QED
  BY <1>7, <1>8, <1>9, <1>10, <1>11, <1>12, <1>13

\* A store that takes a data source leaves every other entry alone.
LEMMA TakenFacts ==
  ASSUME TypeOK, NEW a \in Activities, NEW n \in Attempts, NEW ds \in DataSources,
         Taken(a, n, ds)
  PROVE  /\ asked'[a][n] = asked[a][n] \ {ds}
         /\ \A b \in Activities, k \in Attempts :
              (b # a \/ k # n) => asked'[b][k] = asked[b][k]
<1>1. asked[a][n] \ {ds} \in SUBSET DataSources
  BY Entry DEF TypeOK
<1> DEFINE x == asked[a][n] \ {ds}
<1>2. asked' = Set(asked, a, n, x) /\ x \in SUBSET DataSources
  BY <1>1 DEF Taken
<1> HIDE DEF x
<1>3. /\ asked'[a][n] = x
      /\ \A b \in Activities, k \in Attempts : (b # a \/ k # n) => asked'[b][k] = asked[b][k]
  BY <1>2, SetEntry DEF TypeOK
<1> QED
  BY <1>3 DEF x

\* The same of a data source that becomes an error.
LEMMA BadFacts ==
  ASSUME TypeOK, NEW a \in Activities, NEW n \in Attempts, NEW ds \in DataSources,
         bad' = Set(bad, a, n, bad[a][n] \cup {ds})
  PROVE  /\ bad'[a][n] = bad[a][n] \cup {ds}
         /\ \A b \in Activities, k \in Attempts : (b # a \/ k # n) => bad'[b][k] = bad[b][k]
<1> DEFINE x == bad[a][n] \cup {ds}
<1>1. bad \in Table(SUBSET DataSources)
  BY DEF TypeOK
<1>2. x \in SUBSET DataSources
  BY <1>1, Entry
<1>3. bad' = Set(bad, a, n, x)
  OBVIOUS
<1> HIDE DEF x
<1>4. /\ Set(bad, a, n, x)[a][n] = x
      /\ \A b \in Activities, k \in Attempts :
           (b # a \/ k # n) => Set(bad, a, n, x)[b][k] = bad[b][k]
  BY <1>1, <1>2, SetEntry
<1> QED
  BY <1>3, <1>4 DEF x

\* An attempt that still stores is the last one, or was given up.
LEMMA StoringAttempt ==
  ASSUME TypeOK, Fresh, LateGivenUp, NEW a \in Activities, NEW n \in Attempts,
         place[a][n] = "store"
  PROVE  n = tries[a] \/ n \in givenUp[a]
<1>1. ~ n > tries[a]
  BY DEF Fresh
<1>2. CASE n < tries[a]
  BY <1>2 DEF LateGivenUp
<1>3. n \in Nat /\ tries[a] \in Nat
  BY DEF TypeOK, Attempts
<1> QED
  BY <1>1, <1>2, <1>3

LEMMA StoreHandleKeeps ==
  ASSUME NEW n \in Attempts, NEW ds \in DataSources
  PROVE  IInv /\ StoreHandle(n, ds) /\ TypeOK' => IInv'
<1> SUFFICES ASSUME IInv, StoreHandle(n, ds), TypeOK' PROVE IInv'
  OBVIOUS
<1> USE DEF IInv
<1>a. "start" \in Activities /\ "extract" \in Activities /\ "start" # "extract"
  BY DEF Activities
<1>1. Taken("start", n, ds) /\ UNCHANGED <<results, place, phase, item, tries, givenUp, used, got>>
  BY DEF StoreHandle, Taken
<1>2. place["start"][n] = "store" /\ ds \in asked["start"][n]
  BY <1>1 DEF Taken
<1>3. /\ asked'["start"][n] = asked["start"][n] \ {ds}
      /\ \A b \in Activities, k \in Attempts :
           (b # "start" \/ k # n) => asked'[b][k] = asked[b][k]
  BY <1>1, <1>a, TakenFacts
<1>4. \/ handle' = [handle EXCEPT ![ds] = n] /\ bad' = bad
      \/ handle' = handle /\ bad' = Set(bad, "start", n, bad["start"][n] \cup {ds})
  BY DEF StoreHandle
<1>5. /\ \A k \in Attempts, d \in DataSources :
           d \in bad["start"][k] => d \in bad'["start"][k]
      /\ \A k \in Attempts : bad'["extract"][k] = bad["extract"][k]
      /\ handle' = handle => ds \in bad'["start"][n] \/ handle[ds] = n
  <2>1. CASE handle' = [handle EXCEPT ![ds] = n] /\ bad' = bad
    BY <2>1 DEF TypeOK
  <2>2. CASE handle' = handle /\ bad' = Set(bad, "start", n, bad["start"][n] \cup {ds})
    <3>1. bad' = Set(bad, "start", n, bad["start"][n] \cup {ds})
      BY <2>2
    <3>2. /\ bad'["start"][n] = bad["start"][n] \cup {ds}
          /\ \A b \in Activities, k \in Attempts :
               (b # "start" \/ k # n) => bad'[b][k] = bad[b][k]
      BY <3>1, <1>a, BadFacts
    <3> QED
      BY <2>2, <3>2, <1>a
  <2> QED
    BY <1>4, <2>1, <2>2
<1>6. /\ handle' # handle => handle'[ds] = n
      /\ \A d \in DataSources : d # ds => handle'[d] = handle[d]
  BY <1>4 DEF TypeOK
<1>7. n = tries["start"] \/ n \in givenUp["start"]
  BY <1>2, <1>a, StoringAttempt
<1>8. got["start"][n][ds] > 0 /\ n # 0
  BY <1>2, <1>a DEF AskedGot, Attempts
<1>9. Fresh' /\ LateGivenUp'
  BY <1>1 DEF Fresh, LateGivenUp
<1>10. AskedGot'
  BY <1>a, <1>1, <1>2, <1>3 DEF AskedGot
<1>11. ItemsInPlace'
  BY <1>a, <1>1, <1>5, Numbers DEF ItemsInPlace
<1>12. UsedKnown' /\ StoredIsTaken' /\ ResultOnce'
  <2>1. \A k \in Attempts : asked'["extract"][k] = asked["extract"][k]
    BY <1>a, <1>3
  <2> QED
    BY <1>1, <2>1, Numbers DEF UsedKnown, StoredIsTaken, ResultOnce
<1>13. ResultsKept'
  BY <1>a, <1>1, <1>3, <1>5 DEF ResultsKept, HasRead
<1>14. HandlesKept'
  <2> DEFINE m == tries["start"]
  <2> SUFFICES ASSUME NEW d \in DataSources, m # 0, place["start"][m] \in {"store", "returned"},
                      got["start"][m][d] > 0
               PROVE  \/ d \in asked'["start"][m] \cup bad'["start"][m]
                      \/ handle'[d] = m
                      \/ handle'[d] \in givenUp["start"]
    BY <1>1 DEF HandlesKept
  <2>1. m \in Attempts
    BY <1>a, Numbers
  <2>2. \/ d \in asked["start"][m] \cup bad["start"][m]
        \/ handle[d] = m
        \/ handle[d] \in givenUp["start"]
    BY DEF HandlesKept
  <2>3. CASE d # ds
    BY <2>1, <2>2, <2>3, <1>a, <1>3, <1>5, <1>6
  <2>4. CASE d = ds /\ handle' # handle
    BY <2>4, <1>6, <1>7
  <2>5. CASE d = ds /\ handle' = handle
    BY <2>1, <2>2, <2>5, <1>a, <1>3, <1>5
  <2> QED
    BY <2>3, <2>4, <2>5
<1>15. StoredIsRead'
  <2>1. \A d \in DataSources :
          handle'[d] # 0 => HasRead("start", handle'[d]) /\ got["start"][handle'[d]][d] > 0
    BY <1>2, <1>6, <1>8 DEF StoredIsRead, HasRead
  <2> QED
    BY <1>1, <2>1 DEF StoredIsRead, HasRead
<1>16. AnswersHaveHandles'
  BY <1>1, <1>6, <1>7 DEF AnswersHaveHandles
<1> QED
  BY <1>9, <1>10, <1>11, <1>12, <1>13, <1>14, <1>15, <1>16

LEMMA StoreResultKeeps ==
  ASSUME NEW n \in Attempts, NEW ds \in DataSources
  PROVE  IInv /\ StoreResult(n, ds) /\ TypeOK' => IInv'
<1> SUFFICES ASSUME IInv, StoreResult(n, ds), TypeOK' PROVE IInv'
  OBVIOUS
<1> USE DEF IInv
<1>a. "start" \in Activities /\ "extract" \in Activities /\ "start" # "extract"
  BY DEF Activities
<1>1. /\ Taken("extract", n, ds)
      /\ UNCHANGED <<handle, place, phase, item, tries, givenUp, used, got>>
  BY DEF StoreResult, Taken
<1>2. place["extract"][n] = "store" /\ ds \in asked["extract"][n]
  BY <1>1 DEF Taken
<1>3. /\ asked'["extract"][n] = asked["extract"][n] \ {ds}
      /\ \A b \in Activities, k \in Attempts :
           (b # "extract" \/ k # n) => asked'[b][k] = asked[b][k]
  BY <1>1, <1>a, TakenFacts
<1>4. \/ IsQuery /\ bad' = bad /\ \E r \in Rows(n, ds) : results' = results \cup {r}
      \/ results' = results /\ bad' = Set(bad, "extract", n, bad["extract"][n] \cup {ds})
      \/ ~ IsQuery /\ results' = results /\ bad' = bad
  BY DEF StoreResult
<1>5. /\ \A k \in Attempts, d \in DataSources :
           d \in bad["extract"][k] => d \in bad'["extract"][k]
      /\ \A b \in Activities, k \in Attempts :
           (b # "extract" \/ k # n) => bad'[b][k] = bad[b][k]
      /\ IsQuery /\ results' = results => ds \in bad'["extract"][n]
                                           \/ \E r \in results : r.source = ds /\ r.attempt = n
  <2>1. CASE bad' = bad
    BY <2>1, <1>4, <1>a, BadFacts DEF Rows
  <2>2. CASE bad' = Set(bad, "extract", n, bad["extract"][n] \cup {ds})
    <3>1. bad' = Set(bad, "extract", n, bad["extract"][n] \cup {ds})
      BY <2>2
    <3>2. /\ bad'["extract"][n] = bad["extract"][n] \cup {ds}
          /\ \A b \in Activities, k \in Attempts :
               (b # "extract" \/ k # n) => bad'[b][k] = bad[b][k]
      BY <3>1, <1>a, BadFacts
    <3> QED
      BY <2>2, <3>2, <1>a
  <2> QED
    BY <1>4, <2>1, <2>2
<1>6. /\ results \subseteq results'
      /\ \A r \in results' : r \in results \/ r \in Rows(n, ds)
      /\ results' = results \/ \E r \in results' : r.source = ds /\ r.attempt = n
  BY <1>4 DEF Rows
<1>7. n = tries["extract"] \/ n \in givenUp["extract"]
  BY <1>2, <1>a, StoringAttempt
<1>8. Fresh' /\ LateGivenUp' /\ AnswersHaveHandles'
  BY <1>1 DEF Fresh, LateGivenUp, AnswersHaveHandles
<1>9. AskedGot'
  BY <1>a, <1>1, <1>2, <1>3 DEF AskedGot
<1>10. ItemsInPlace'
  <2>1. \A d \in DataSources :
          (tries["extract"] # 0 /\ place["extract"][tries["extract"]] = "returned")
            => bad'["extract"][tries["extract"]] = bad["extract"][tries["extract"]]
    BY <1>a, <1>2, <1>5, Numbers
  <2> QED
    BY <1>1, <2>1 DEF ItemsInPlace
<1>11. UsedKnown'
  BY <1>a, <1>1, <1>3 DEF UsedKnown
<1>12. HandlesKept'
  BY <1>a, <1>1, <1>3, <1>5, Numbers DEF HandlesKept
<1>13. ResultsKept'
  <2> SUFFICES ASSUME NEW k \in Attempts, NEW d \in DataSources,
                      IsQuery, HasRead("extract", k), got["extract"][k][d] > 0
               PROVE  \/ d \in asked'["extract"][k] \cup bad'["extract"][k]
                      \/ \E r \in results' : r.source = d /\ r.attempt = k
    BY <1>1 DEF ResultsKept, HasRead
  <2>1. \/ d \in asked["extract"][k] \cup bad["extract"][k]
        \/ \E r \in results : r.source = d /\ r.attempt = k
    BY DEF ResultsKept
  <2>2. CASE d = ds /\ k = n
    BY <2>2, <1>5, <1>6
  <2>3. CASE ~ (d = ds /\ k = n)
    BY <2>1, <2>3, <1>a, <1>3, <1>5, <1>6
  <2> QED
    BY <2>2, <2>3
<1>14. StoredIsTaken'
  <2>1. \A r \in results : r.source \notin asked'["extract"][r.attempt]
    BY <1>a, <1>3, Numbers DEF StoredIsTaken
  <2>2. \A r \in Rows(n, ds) : r.source \notin asked'["extract"][r.attempt]
    BY <1>3 DEF Rows
  <2> QED
    BY <1>6, <2>1, <2>2 DEF StoredIsTaken
<1>15. StoredIsRead'
  <2>1. \A r \in Rows(n, ds) : /\ r.source = ds /\ r.attempt = n
                              /\ r.handle = used[n][ds] /\ r.records = got["extract"][n][ds]
    BY DEF Rows
  <2>2. used[n][ds] # 0 /\ got["start"][used[n][ds]][ds] > 0
    BY <1>2 DEF UsedKnown
  <2>3. \A r \in Rows(n, ds) :
          /\ HasRead("extract", r.attempt)
          /\ r.records = got["extract"][r.attempt][r.source]
          /\ r.handle # 0 /\ got["start"][r.handle][r.source] > 0
    BY <1>2, <2>1, <2>2 DEF HasRead
  <2> QED
    BY <1>1, <1>6, <2>3 DEF StoredIsRead, HasRead
<1>16. ResultOnce'
  <2>1. \A r \in Rows(n, ds) : r.source = ds /\ r.attempt = n
    BY DEF Rows
  <2>2. \A r \in results : ~ (r.source = ds /\ r.attempt = n)
    BY <1>2 DEF StoredIsTaken
  <2>3. \A r, s \in results' : r.source = s.source /\ r.attempt = s.attempt => r = s
    <3>1. CASE results' = results
      BY <3>1 DEF ResultOnce
    <3>2. CASE \E q \in Rows(n, ds) : results' = results \cup {q}
      BY <3>2, <2>1, <2>2 DEF ResultOnce
    <3> QED
      BY <1>4, <3>1, <3>2
  <2>4. \A r \in results' : r.attempt \in givenUp["extract"] \/ r.attempt = tries["extract"]
    BY <1>6, <1>7, <2>1 DEF ResultOnce
  <2> QED
    BY <1>1, <2>3, <2>4 DEF ResultOnce
<1> QED
  BY <1>8, <1>9, <1>10, <1>11, <1>12, <1>13, <1>14, <1>15, <1>16

-----------------------------------------------------------------------------
(* The activities return. *)

LEMMA AnswersFacts ==
  ASSUME TypeOK, NEW a \in Activities, Answers(a)
  PROVE  /\ tries[a] \in Attempts /\ asked[a][tries[a]] = {}
         /\ place[a][tries[a]] = "store" /\ place'[a][tries[a]] = "returned"
         /\ \A b \in Activities, k \in Attempts :
              (b # a \/ k # tries[a]) => place'[b][k] = place[b][k]
         /\ UNCHANGED <<handle, results, tries, givenUp, asked, used, got, bad>>
<1>1. tries[a] \in Attempts
  BY AnswersTypes
<1>2. /\ Set(place, a, tries[a], "returned")[a][tries[a]] = "returned"
      /\ \A b \in Activities, k \in Attempts :
           (b # a \/ k # tries[a]) => Set(place, a, tries[a], "returned")[b][k] = place[b][k]
  <2>1. place \in Table({"idle", "run", "store", "failed", "returned"})
    BY DEF TypeOK
  <2> QED
    BY <1>1, <2>1, SetEntry
<1> QED
  BY <1>1, <1>2 DEF Answers

\* What returning leaves alone.
LEMMA AnswersKeeps ==
  ASSUME IInv, NEW a \in Activities, Answers(a)
  PROVE  /\ Fresh' /\ LateGivenUp' /\ AskedGot' /\ UsedKnown' /\ HandlesKept'
         /\ ResultsKept' /\ StoredIsTaken' /\ StoredIsRead' /\ ResultOnce'
<1> USE DEF IInv
<1>a. "start" \in Activities /\ "extract" \in Activities
  BY DEF Activities
<1>1. UNCHANGED <<handle, results, tries, givenUp, asked, used, got, bad>>
  BY DEF Answers
<1>2. \A b \in Activities, k \in Attempts :
        \/ place'[b][k] = place[b][k]
        \/ place[b][k] = "store" /\ place'[b][k] = "returned" /\ asked[b][k] = {}
  BY AnswersFacts
<1>3. \A b \in Activities, k \in Attempts : HasRead(b, k)' <=> HasRead(b, k)
  BY <1>2 DEF HasRead
<1>4. Fresh' /\ LateGivenUp' /\ AskedGot'
  BY <1>1, <1>2 DEF Fresh, LateGivenUp, AskedGot
<1>5. UsedKnown' /\ StoredIsTaken' /\ ResultOnce'
  BY <1>1 DEF UsedKnown, StoredIsTaken, ResultOnce
<1>6. HandlesKept'
  BY <1>a, <1>1, <1>2, Numbers DEF HandlesKept
<1>7. ResultsKept'
  BY <1>a, <1>1, <1>3 DEF ResultsKept
<1>8. StoredIsRead'
  BY <1>a, <1>1, <1>3, Numbers DEF StoredIsRead
<1> QED
  BY <1>4, <1>5, <1>6, <1>7, <1>8

LEMMA ReturnStartKeeps == IInv /\ ReturnStart /\ TypeOK' => IInv'
<1> SUFFICES ASSUME IInv, ReturnStart, TypeOK' PROVE IInv'
  OBVIOUS
<1> USE DEF IInv
<1>a. "start" \in Activities /\ Answers("start")
  BY DEF Activities, ReturnStart
<1> DEFINE n == tries["start"]
           answered == {ds \in DataSources : got["start"][n][ds] > 0} \ bad["start"][n]
<1>1. PICK type \in [answered -> DataTypes] :
        item' = [ds \in DataSources |->
                  IF ds \in answered THEN type[ds]
                  ELSE IF seen[ds] \in {"executed", "unlinked"} THEN "complete" ELSE "error"]
  BY DEF ReturnStart
<1>2. phase' \in {"done", "extract"}
  BY DEF ReturnStart
<1>3. n \in Attempts /\ n # 0 /\ tries' = tries /\ place'["start"][n] = "returned"
  BY <1>a, AnswersFacts DEF Attempts
<1>4. \A ds \in DataSources : item'[ds] # "ok"
  BY <1>1 DEF DataTypes
<1>5. ItemsInPlace'
  BY <1>2, <1>3, <1>4 DEF ItemsInPlace
<1>6. AnswersHaveHandles'
  <2> SUFFICES ASSUME NEW ds \in DataSources, item'[ds] \in DataTypes
               PROVE  handle[ds] = n \/ handle[ds] \in givenUp["start"]
    BY <1>a, AnswersFacts DEF AnswersHaveHandles
  <2>1. ds \in answered
    BY <1>1 DEF DataTypes
  <2>2. place["start"][n] = "store" /\ asked["start"][n] = {}
    BY <1>a, AnswersFacts
  <2> QED
    BY <2>1, <2>2, <1>3 DEF HandlesKept
<1> QED
  BY <1>a, <1>5, <1>6, AnswersKeeps

LEMMA ReturnExtractKeeps == IInv /\ ReturnExtract /\ TypeOK' => IInv'
<1> SUFFICES ASSUME IInv, ReturnExtract, TypeOK' PROVE IInv'
  OBVIOUS
<1> USE DEF IInv
<1>a. "extract" \in Activities /\ Answers("extract")
  BY DEF Activities, ReturnExtract
<1> DEFINE n == tries["extract"]
<1>1. phase = "extract" /\ phase' = "done"
  BY DEF ReturnExtract, Answers
<1>2. /\ n \in Attempts /\ n # 0 /\ place'["extract"][n] = "returned"
      /\ tries' = tries /\ bad' = bad /\ handle' = handle /\ givenUp' = givenUp
  BY <1>a, AnswersFacts DEF Attempts
<1>3. \A ds \in DataSources :
        /\ item'[ds] = "ok" => item[ds] = "ok" \/ ds \notin bad["extract"][n]
        /\ item'[ds] \notin DataTypes
  BY DEF ReturnExtract, DataTypes
<1>4. ItemsInPlace'
  BY <1>1, <1>2, <1>3 DEF ItemsInPlace
<1>5. AnswersHaveHandles'
  BY <1>3 DEF AnswersHaveHandles
<1> QED
  BY <1>a, <1>4, <1>5, AnswersKeeps

-----------------------------------------------------------------------------
LEMMA InitIInv == Init => IInv /\ ReadIsGood /\ AnswersGood
<1> SUFFICES ASSUME Init PROVE IInv /\ ReadIsGood /\ AnswersGood
  OBVIOUS
<1>1. TypeOK
  BY InitTypes
<1>2. Fresh /\ LateGivenUp /\ AskedGot
  BY DEF Init, Fresh, LateGivenUp, AskedGot, Attempts
<1>3. ItemsInPlace /\ AnswersHaveHandles /\ AnswersGood
  BY DEF Init, ItemsInPlace, AnswersHaveHandles, AnswersGood, DataTypes
<1>4. UsedKnown /\ HandlesKept /\ ResultsKept /\ ReadIsGood
  BY DEF Init, UsedKnown, HandlesKept, ResultsKept, ReadIsGood, HasRead, Activities
<1>5. StoredIsTaken /\ StoredIsRead /\ ResultOnce
  BY DEF Init, StoredIsTaken, StoredIsRead, ResultOnce
<1> QED
  BY <1>1, <1>2, <1>3, <1>4, <1>5 DEF IInv

LEMMA StepIInv == IInv /\ [Next]_vars => IInv'
<1> SUFFICES ASSUME IInv, [Next]_vars PROVE IInv'
  OBVIOUS
<1>1. TypeOK'
  BY TypeStep DEF IInv
<1>2. ASSUME NEW ds \in DataSources, Mark(ds) PROVE IInv'
  BY <1>1, <1>2 DEF Mark, attempt, IInv, Fresh, LateGivenUp, AskedGot, ItemsInPlace, UsedKnown,
     HandlesKept, ResultsKept, StoredIsTaken, StoredIsRead, HasRead, AnswersHaveHandles, ResultOnce
<1>3. CASE UNCHANGED vars
  BY <1>1, <1>3 DEF vars, attempt, IInv, Fresh, LateGivenUp, AskedGot, ItemsInPlace, UsedKnown,
     HandlesKept, ResultsKept, StoredIsTaken, StoredIsRead, HasRead, AnswersHaveHandles, ResultOnce
<1> QED
  BY <1>1, <1>2, <1>3, BeginStartKeeps, BeginExtractKeeps, GiveUpKeeps, ExhaustedKeeps, ExitKeeps,
     ReceiveKeeps, StoreHandleKeeps, StoreResultKeeps, ReturnStartKeeps, ReturnExtractKeeps
  DEF Next

\* The good attempts and those given up become no fewer.
LEMMA GoodGrows ==
  ASSUME TypeOK, [Next]_vars, NEW a \in Activities
  PROVE  good[a] \subseteq good'[a] /\ givenUp[a] \subseteq givenUp'[a]
<1>1. CASE BeginStart \/ BeginExtract
  BY <1>1 DEF BeginStart, BeginExtract, Begin
<1>2. CASE ReturnStart \/ ReturnExtract
  BY <1>2 DEF ReturnStart, ReturnExtract, Answers
<1>3. ASSUME NEW b \in Activities, GiveUp(b) \/ Exhausted(b)
      PROVE  good[a] \subseteq good'[a] /\ givenUp[a] \subseteq givenUp'[a]
  BY <1>3 DEF GiveUp, Exhausted, attempt, TypeOK
<1>4. ASSUME NEW b \in Activities, NEW n \in Attempts, Exit(b, n)
      PROVE  good[a] \subseteq good'[a] /\ givenUp[a] \subseteq givenUp'[a]
  BY <1>4 DEF Exit, TypeOK
<1>5. ASSUME NEW b \in Activities, NEW n \in Attempts, NEW ds \in DataSources, Receive(b, n, ds)
      PROVE  good[a] \subseteq good'[a] /\ givenUp[a] \subseteq givenUp'[a]
  BY <1>5 DEF Receive
<1>6. ASSUME NEW n \in Attempts, NEW ds \in DataSources, StoreHandle(n, ds) \/ StoreResult(n, ds)
      PROVE  good[a] \subseteq good'[a] /\ givenUp[a] \subseteq givenUp'[a]
  BY <1>6 DEF StoreHandle, StoreResult, Taken
<1>7. ASSUME NEW ds \in DataSources, Mark(ds)
      PROVE  good[a] \subseteq good'[a] /\ givenUp[a] \subseteq givenUp'[a]
  BY <1>7 DEF Mark, attempt
<1>8. CASE UNCHANGED vars
  BY <1>8 DEF vars, attempt
<1> QED
  BY <1>1, <1>2, <1>3, <1>4, <1>5, <1>6, <1>7, <1>8 DEF Next

LEMMA ReadIsGoodStep == IInv /\ ReadIsGood /\ [Next]_vars => ReadIsGood'
<1> SUFFICES ASSUME IInv, ReadIsGood, [Next]_vars,
                    NEW b \in Activities, NEW k \in Attempts, NEW d \in DataSources,
                    HasRead(b, k)', got'[b][k][d] > 0
             PROVE  k \in good'[b] \cup givenUp'[b]
  BY DEF ReadIsGood
<1> USE DEF IInv
<1>a. "start" \in Activities /\ "extract" \in Activities
  BY DEF Activities
<1>0. CASE HasRead(b, k) /\ got[b][k][d] > 0
  BY <1>0, GoodGrows DEF ReadIsGood
<1>1. ASSUME NEW a \in Activities, NEW p \in {"run", "store", "failed"},
             NEW D \in SUBSET DataSources, Begin(a, p, D)
      PROVE  HasRead(b, k) /\ got[b][k][d] > 0
  <2>1. got' = got /\ (b # a \/ k # tries[a] + 1 => place'[b][k] = place[b][k])
    BY <1>1, BeginFacts
  <2>2. got[a][tries[a] + 1][d] = 0
    BY <1>1, BeginFacts DEF Fresh, TypeOK
  <2> QED
    BY <2>1, <2>2 DEF HasRead
<1>2. CASE BeginStart
  BY <1>0, <1>1, <1>2, <1>a DEF BeginStart, Of
<1>3. CASE BeginExtract
  BY <1>0, <1>1, <1>3, <1>a DEF BeginExtract
<1>4. ASSUME NEW a \in Activities, Answers(a) PROVE HasRead(b, k) /\ got[b][k][d] > 0
  <2>1. got' = got
    BY <1>4 DEF Answers
  <2> QED
    BY <1>4, <2>1, AnswersFacts DEF HasRead
<1>5. CASE ReturnStart \/ ReturnExtract
  BY <1>0, <1>4, <1>5, <1>a DEF ReturnStart, ReturnExtract
<1>6. ASSUME NEW a \in Activities, GiveUp(a) \/ Exhausted(a) PROVE HasRead(b, k) /\ got[b][k][d] > 0
  BY <1>6 DEF GiveUp, Exhausted, attempt, HasRead
<1>7. ASSUME NEW a \in Activities, NEW n \in Attempts, Exit(a, n)
      PROVE  k \in good'[b] \cup givenUp'[b]
  <2>0. got' = got /\ givenUp' = givenUp
    BY <1>7 DEF Exit
  <2>1. CASE b # a \/ k # n
    <3>1. /\ Set(place, a, n, "store")[b][k] = place[b][k]
          /\ Set(place, a, n, "failed")[b][k] = place[b][k]
      <4>1. place \in Table({"idle", "run", "store", "failed", "returned"})
        BY DEF TypeOK
      <4> QED
        BY <2>1, <4>1, SetEntry
    <3>2. place'[b][k] = place[b][k]
      BY <1>7, <3>1 DEF Exit
    <3> QED
      BY <1>0, <2>0, <3>2 DEF HasRead
  <2>2. CASE b = a /\ k = n
    <3>1. CASE place' = Set(place, a, n, "failed")
      <4>1. place'[a][n] = "failed"
        BY <3>1, SetEntry DEF TypeOK
      <4> QED
        BY <2>2, <4>1 DEF HasRead
    <3>2. CASE good' = [good EXCEPT ![a] = @ \cup {n}] \/ n \in givenUp[a]
      BY <2>0, <2>2, <3>2 DEF TypeOK
    <3> QED
      BY <1>7, <3>1, <3>2 DEF Exit
  <2> QED
    BY <2>1, <2>2
<1>8. ASSUME NEW a \in Activities, NEW n \in Attempts, NEW ds \in DataSources, Receive(a, n, ds)
      PROVE  HasRead(b, k) /\ got[b][k][d] > 0
  <2> DEFINE x == [got[a][n] EXCEPT ![ds] = @ + 1]
  <2>1. place' = place /\ got' = Set(got, a, n, x) /\ place[a][n] = "run"
    BY <1>8 DEF Receive
  <2>2. HasRead(b, k) /\ (b # a \/ k # n)
    BY <2>1 DEF HasRead
  <2>3. got'[b][k] = got[b][k]
    <3> HIDE DEF x
    <3>1. b # a => got'[b] = got[b]
      BY <2>1 DEF Set, TypeOK, Table
    <3>2. b = a /\ k # n => got'[b][k] = got[b][k]
      BY <2>1 DEF Set, TypeOK, Table
    <3> QED
      BY <2>2, <3>1, <3>2
  <2> QED
    BY <2>2, <2>3
<1>9. ASSUME NEW n \in Attempts, NEW ds \in DataSources, StoreHandle(n, ds) \/ StoreResult(n, ds)
      PROVE  HasRead(b, k) /\ got[b][k][d] > 0
  BY <1>9 DEF StoreHandle, StoreResult, Taken, HasRead
<1>10. ASSUME NEW ds \in DataSources, Mark(ds) PROVE HasRead(b, k) /\ got[b][k][d] > 0
  BY <1>10 DEF Mark, attempt, HasRead
<1>11. CASE UNCHANGED vars
  BY <1>0, <1>11 DEF vars, attempt, HasRead
<1> QED
  BY <1>0, <1>2, <1>3, <1>5, <1>6, <1>7, <1>8, <1>9, <1>10, <1>11 DEF Next

LEMMA AnswersGoodStep == IInv /\ ReadIsGood /\ AnswersGood /\ [Next]_vars => AnswersGood'
<1> SUFFICES ASSUME IInv, ReadIsGood, AnswersGood, [Next]_vars PROVE AnswersGood'
  OBVIOUS
<1> USE DEF IInv
<1>a. "start" \in Activities /\ "extract" \in Activities /\ "start" # "extract"
  BY DEF Activities
<1>b. \A a \in Activities : good[a] \subseteq good'[a]
  BY GoodGrows
<1>0. CASE UNCHANGED <<item, tries, got>>
  BY <1>0, <1>a, <1>b DEF AnswersGood
<1>1. CASE BeginStart
  <2>1. item' = item /\ \A ds \in DataSources : item[ds] = "none"
    BY <1>1 DEF BeginStart, Begin, ItemsInPlace
  <2> QED
    BY <2>1 DEF AnswersGood, DataTypes
<1>2. CASE BeginExtract
  <2>1. phase = "extract" /\ item' = item /\ tries'["start"] = tries["start"]
    BY <1>2, <1>a DEF BeginExtract, Begin, TypeOK
  <2>2. \A ds \in DataSources : item[ds] # "ok"
    BY <2>1 DEF ItemsInPlace
  <2> QED
    BY <2>1, <2>2, <1>a, <1>b DEF AnswersGood
<1>3. ASSUME NEW a \in Activities, Answers(a)
      PROVE  /\ tries' = tries /\ got' = got /\ good' = good /\ phase = a
             /\ \A ds \in DataSources : got[a][tries[a]][ds] > 0 => tries[a] \in good[a]
  <2>1. tries[a] \in Attempts /\ place[a][tries[a]] = "store"
    BY <1>3, AnswersFacts
  <2> QED
    BY <1>3, <2>1 DEF Answers, ReadIsGood, HasRead
<1>4. CASE ReturnStart
  <2> DEFINE n == tries["start"]
             answered == {ds \in DataSources : got["start"][n][ds] > 0} \ bad["start"][n]
  <2>1. PICK type \in [answered -> DataTypes] :
          item' = [ds \in DataSources |->
                    IF ds \in answered THEN type[ds]
                    ELSE IF seen[ds] \in {"executed", "unlinked"} THEN "complete" ELSE "error"]
    BY <1>4 DEF ReturnStart
  <2>2. \A ds \in DataSources : item'[ds] # "ok"
    BY <2>1 DEF DataTypes
  <2>3. \A ds \in DataSources : item'[ds] \in DataTypes => got["start"][n][ds] > 0
    BY <2>1 DEF DataTypes
  <2> QED
    BY <1>3, <1>4, <1>a, <2>2, <2>3 DEF ReturnStart, AnswersGood
<1>5. CASE ReturnExtract
  <2>1. \A ds \in DataSources : item'[ds] \notin DataTypes
    BY <1>5 DEF ReturnExtract, DataTypes
  <2> QED
    BY <1>3, <1>5, <1>a, <2>1 DEF ReturnExtract, AnswersGood
<1>6. ASSUME NEW a \in Activities, NEW n \in Attempts, NEW ds \in DataSources, Receive(a, n, ds)
      PROVE  AnswersGood'
  <2> DEFINE x == [got[a][n] EXCEPT ![ds] = @ + 1]
             k == tries["extract"]
  <2>1. /\ item' = item /\ tries' = tries /\ place[a][n] = "run"
        /\ got' = Set(got, a, n, x)
    BY <1>6 DEF Receive
  <2> SUFFICES ASSUME NEW d \in DataSources, item[d] = "ok", got'["extract"][k][d] > 0
               PROVE  k \in good'["extract"]
    BY <2>1, <1>a, <1>b DEF AnswersGood
  <2>2. k \in Attempts /\ place["extract"][k] = "returned"
    BY <1>a, Numbers DEF ItemsInPlace
  <2>3. got'["extract"][k] = got["extract"][k]
    <3>1. a # "extract" => got'["extract"] = got["extract"]
      BY <2>1, <1>a DEF Set, TypeOK, Table
    <3>2. a = "extract" /\ n # k => got'["extract"][k] = got["extract"][k]
      BY <2>1, <2>2, <1>a DEF Set, TypeOK, Table
    <3> QED
      BY <2>1, <2>2, <3>1, <3>2
  <2> QED
    BY <2>3, <1>a, <1>b DEF AnswersGood
<1>7. ASSUME NEW a \in Activities, GiveUp(a) \/ Exhausted(a) PROVE UNCHANGED <<item, tries, got>>
  BY <1>7 DEF GiveUp, Exhausted, attempt
<1>8. ASSUME NEW a \in Activities, NEW n \in Attempts, Exit(a, n) PROVE UNCHANGED <<item, tries, got>>
  BY <1>8 DEF Exit
<1>9. ASSUME NEW n \in Attempts, NEW ds \in DataSources, StoreHandle(n, ds) \/ StoreResult(n, ds)
      PROVE  UNCHANGED <<item, tries, got>>
  BY <1>9 DEF StoreHandle, StoreResult, Taken
<1>10. ASSUME NEW ds \in DataSources, Mark(ds) PROVE UNCHANGED <<item, tries, got>>
  BY <1>10 DEF Mark, attempt
<1>11. CASE UNCHANGED vars
  BY <1>0, <1>11 DEF vars, attempt
<1> QED
  BY <1>0, <1>1, <1>2, <1>4, <1>5, <1>6, <1>7, <1>8, <1>9, <1>10, <1>11 DEF Next

\* The invariant holds in every reachable state.
THEOREM ResultsInvariance == Spec => [](IInv /\ ReadIsGood /\ AnswersGood)
  BY InitIInv, StepIInv, ReadIsGoodStep, AnswersGoodStep, PTL DEF Spec

\* The variables hold what their comments say: TypeOK.
THEOREM ResultTypes == Spec => []TypeOK
  BY ResultsInvariance, PTL DEF IInv

\* Nothing of a container that failed is answered, and nothing of it is stored but by an
\* attempt that was given up and reads no exit code: TrustedOnly.
THEOREM OnlyTrustedIsStored == Spec => []TrustedOnly
<1>1. IInv /\ ReadIsGood /\ AnswersGood => TrustedOnly
  <2> SUFFICES ASSUME IInv, ReadIsGood, AnswersGood PROVE TrustedOnly
    OBVIOUS
  <2>a. "start" \in Activities /\ "extract" \in Activities
    BY DEF Activities
  <2>1. \A ds \in DataSources : handle[ds] # 0 =>
          got["start"][handle[ds]][ds] > 0 /\ handle[ds] \in good["start"] \cup givenUp["start"]
    BY <2>a, Numbers DEF IInv, StoredIsRead, ReadIsGood
  <2>2. \A r \in results :
          /\ r.records = got["extract"][r.attempt][r.source]
          /\ r.handle # 0 /\ got["start"][r.handle][r.source] > 0
          /\ r.attempt \in good["extract"] \cup givenUp["extract"]
    <3> SUFFICES ASSUME NEW r \in results
                 PROVE  r.attempt \in good["extract"] \cup givenUp["extract"]
      BY DEF IInv, StoredIsRead
    <3>1. r.source \in DataSources /\ r.attempt \in Attempts /\ r.records \in 1 .. MaxRecords
      BY DEF IInv, TypeOK, Row
    <3>2. HasRead("extract", r.attempt) /\ got["extract"][r.attempt][r.source] > 0
      BY <3>1 DEF IInv, StoredIsRead
    <3> QED
      BY <2>a, <3>1, <3>2 DEF ReadIsGood
  <2> QED
    BY <2>1, <2>2 DEF TrustedOnly, AnswersGood
<1> QED
  BY <1>1, ResultsInvariance, PTL

\* The extraction finds the handle of every data source that it is called for, although
\* late attempts of the start activity may replace it: AnswersHaveHandles.
THEOREM HandlesAreThere == Spec => []AnswersHaveHandles
  BY ResultsInvariance, PTL DEF IInv

\* Only an attempt that was given up can have stored a result besides that of the last
\* attempt: ResultOnce.
THEOREM ResultsStoredOnce == Spec => []ResultOnce
  BY ResultsInvariance, PTL DEF IInv

\* What the extraction reports as done is stored, whatever failed on the way:
\* DoneHasResult.
THEOREM DoneIsStored == Spec => []DoneHasResult
<1>1. IInv => DoneHasResult
  <2> SUFFICES ASSUME IInv, phase = "done", IsQuery, NEW ds \in DataSources,
                      item[ds] = "ok", got["extract"][tries["extract"]][ds] > 0
               PROVE  \E r \in results : r.source = ds /\ r.attempt = tries["extract"]
    BY DEF DoneHasResult
  <2>a. "extract" \in Activities
    BY DEF Activities
  <2>1. /\ tries["extract"] # 0 /\ place["extract"][tries["extract"]] = "returned"
        /\ ds \notin bad["extract"][tries["extract"]]
    BY DEF IInv, ItemsInPlace
  <2>2. tries["extract"] \in Attempts
    BY <2>a, <2>1, Numbers DEF IInv
  <2>3. asked["extract"][tries["extract"]] = {}
    BY <2>a, <2>1, <2>2 DEF IInv, AskedGot
  <2> QED
    BY <2>1, <2>2, <2>3 DEF IInv, ResultsKept, HasRead
<1> QED
  BY <1>1, ResultsInvariance, PTL
=============================================================================
