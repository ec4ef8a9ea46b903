-------------------------- MODULE DiscoveryProofs --------------------------
(***************************************************************************)
(* The invariants of Discovery, for any names, scans and users, whatever   *)
(* fails, overlaps and goes on after it was given up.  JobIInv ties the    *)
(* row of a job to the place of its workflow; ScanIInv ties the lists of   *)
(* the attempts to the rows that are open; AccountIInv ties those to the   *)
(* map and the silo.                                                       *)
(***************************************************************************)
EXTENDS Discovery, FiniteSetTheorems, SequenceTheorems, TLAPS

USE DiscoveryAssumption

-----------------------------------------------------------------------------
(* Types. *)

LEMMA EmptySchema == <<>> \in Schemas
<1>1. <<>> \in [{} -> SUBSET Props]
  BY DEF Schemas
<1>2. {} \in SUBSET Names
  OBVIOUS
<1> QED
  BY <1>1, <1>2 DEF Schemas

\* What a scan finds are discoveries.
LEMMA DifferencesType ==
  ASSUME TypeOK, NEW schema \in Schemas, NEW S \in OnePerName, NEW I \in OnePerProperty
  PROVE  Differences(schema, S, I) \subseteq Changes
<1>1. \A n \in DOMAIN schema : n \in Names /\ schema[n] \in SUBSET Props
  BY DEF Schemas
<1>2. S \subseteq DOMAIN sources /\ I \subseteq DOMAIN props
  BY DEF OnePerName, OnePerProperty
<1>3. \A s \in DOMAIN sources : s \in Nat
  BY DEF TypeOK
<1>4. \A i \in DOMAIN props : i \in Nat
  BY DEF TypeOK
<1>5. \A n \in DOMAIN schema : Change("DATA_SOURCE_FOUND", 0, n, schema[n]) \in Changes
  BY <1>1 DEF Change, Changes
<1>6. \A i \in Nat : /\ Change("DATA_SOURCE_MISSING", i, None, {}) \in Changes
                     /\ Change("PROPERTY_MISSING", i, None, {}) \in Changes
  BY DEF Change, Changes
<1>7. \A i \in Nat, p \in Props : Change("PROPERTY_FOUND", i, p, {}) \in Changes
  BY DEF Change, Changes
<1>8. ASSUME NEW s \in S, sources[s] \in DOMAIN schema, NEW p \in schema[sources[s]]
      PROVE  Change("PROPERTY_FOUND", s, p, {}) \in Changes
  BY <1>1, <1>2, <1>3, <1>7, <1>8
<1>9. ASSUME NEW c \in Differences(schema, S, I) PROVE c \in Changes
  <2> DEFINE mapped == {s \in S : sources[s] \in DOMAIN schema}
  <2>1. CASE \E n \in DOMAIN schema : c = Change("DATA_SOURCE_FOUND", 0, n, schema[n])
    BY <1>5, <2>1
  <2>2. CASE \E s \in DOMAIN sources : c = Change("DATA_SOURCE_MISSING", s, None, {})
    BY <1>3, <1>6, <2>2
  <2>3. CASE \E s \in mapped : \E p \in schema[sources[s]] : c = Change("PROPERTY_FOUND", s, p, {})
    BY <1>8, <2>3
  <2>4. CASE \E i \in I : c = Change("PROPERTY_MISSING", i, None, {})
    BY <1>2, <1>4, <1>6, <2>4
  <2> QED
    BY <1>9, <2>1, <2>2, <2>3, <2>4 DEF Differences
<1> QED
  BY <1>9

\* An update of the status, or of the change, of one row; and a new row.
LEMMA RowStatus ==
  ASSUME TypeOK, NEW i \in DOMAIN disc, NEW st \in Statuses
  PROVE  /\ [disc EXCEPT ![i].status = st] \in Seq(Row)
         /\ DOMAIN [disc EXCEPT ![i].status = st] = DOMAIN disc
<1>1. disc \in Seq(Row)
  BY DEF TypeOK
<1>2. disc[i] \in Row
  BY <1>1, ElementOfSeq
<1>3. [disc[i] EXCEPT !.status = st] \in Row
  BY <1>2 DEF Row
<1> QED
  BY <1>1, <1>3, ExceptSeq

LEMMA RowChange ==
  ASSUME TypeOK, NEW i \in DOMAIN disc, NEW c \in Changes
  PROVE  /\ [disc EXCEPT ![i].change = c] \in Seq(Row)
         /\ DOMAIN [disc EXCEPT ![i].change = c] = DOMAIN disc
<1>1. disc \in Seq(Row)
  BY DEF TypeOK
<1>2. disc[i] \in Row
  BY <1>1, ElementOfSeq
<1>3. [disc[i] EXCEPT !.change = c] \in Row
  BY <1>2 DEF Row
<1> QED
  BY <1>1, <1>3, ExceptSeq

LEMMA RowInsert ==
  ASSUME TypeOK, NEW r \in Runs, NEW c \in Changes, Insert(r, c)
  PROVE  /\ disc' \in Seq(Row) /\ Len(disc') = Len(disc) + 1 /\ Len(disc) \in Nat
         /\ DOMAIN disc = 1 .. Len(disc) /\ DOMAIN disc' = DOMAIN disc \union {Len(disc')}
         /\ \A i \in DOMAIN disc : disc'[i] = disc[i]
         /\ disc'[Len(disc')] = [change |-> c, status |-> "OPEN", by |-> r]
<1> DEFINE row == [change |-> c, status |-> "OPEN", by |-> r]
<1>1. disc \in Seq(Row)
  BY DEF TypeOK
<1>2. row \in Row
  BY DEF Row, Statuses
<1>3. disc' = Append(disc, row)
  BY DEF Insert
<1> HIDE DEF row
<1>4. /\ disc' \in Seq(Row) /\ Len(disc') = Len(disc) + 1 /\ Len(disc) \in Nat
      /\ DOMAIN disc = 1 .. Len(disc) /\ DOMAIN disc' = 1 .. Len(disc')
      /\ \A i \in DOMAIN disc : disc'[i] = disc[i]
      /\ disc'[Len(disc')] = row
  BY <1>1, <1>2, <1>3
<1> QED
  BY <1>4 DEF row

\* A row and its parts.
LEMMA RowParts ==
  ASSUME TypeOK
  PROVE  \A i \in DOMAIN disc : /\ i \in Nat
                                /\ disc[i].change \in Changes
                                /\ disc[i].status \in Statuses
                                /\ disc[i].by \in Runs
<1>1. disc \in Seq(Row)
  BY DEF TypeOK
<1>2. \A i \in DOMAIN disc : i \in Nat /\ disc[i] \in Row
  BY <1>1, ElementOfSeq
<1> QED
  BY <1>2 DEF Row

\* What the start of an attempt moves.
Begins(q) == place'[q] = "fetch" /\ q[2] > tries[q[1]] /\ q[2] <= tries'[q[1]]

LEMMA NextTryMoves ==
  ASSUME TypeOK, NEW j \in Jobs, NEW base \in [Runs -> Attempt \union {"off"}], NextTry(j, base)
  PROVE  /\ tries' \in [Jobs -> 0 .. MaxTries]
         /\ place' \in [Runs -> Attempt \union {"off"}]
         /\ pc' \in [Jobs -> Flow]
         /\ \A k \in Jobs : tries[k] <= tries'[k]
         /\ \A k \in Jobs : k # j => tries'[k] = tries[k] /\ pc'[k] = pc[k]
         /\ \/ pc'[j] = "detect" /\ tries'[j] = tries[j] + 1
            \/ pc'[j] = "failed" /\ tries'[j] = MaxTries /\ tries'[j] = tries[j]
         /\ \A q \in Runs : place'[q] = base[q] \/ Begins(q)
<1>1. pc \in [Jobs -> Flow] /\ tries \in [Jobs -> 0 .. MaxTries]
  BY DEF TypeOK
<1>2. CASE tries[j] < MaxTries
  <2>1. /\ tries' = [tries EXCEPT ![j] = @ + 1]
        /\ place' = [base EXCEPT ![<<j, tries[j] + 1>>] = "fetch"]
        /\ pc' = [pc EXCEPT ![j] = "detect"]
    BY <1>2 DEF NextTry, Goto
  <2>2. tries[j] + 1 \in 1 .. MaxTries
    BY <1>1, <1>2
  <2>3. ASSUME NEW q \in Runs PROVE place'[q] = base[q] \/ Begins(q)
    <3>1. CASE q = <<j, tries[j] + 1>>
      BY <1>1, <2>1, <2>2, <3>1 DEF Begins
    <3>2. CASE q # <<j, tries[j] + 1>>
      BY <2>1, <3>2
    <3> QED
      BY <3>1, <3>2
  <2>4. place' \in [Runs -> Attempt \union {"off"}]
    BY <2>1 DEF Attempt
  <2> QED
    BY <1>1, <2>1, <2>2, <2>3, <2>4 DEF Flow
<1>3. CASE ~ (tries[j] < MaxTries)
  <2>1. tries' = tries /\ place' = base /\ pc' = [pc EXCEPT ![j] = "failed"]
    BY <1>3 DEF NextTry, Goto
  <2>2. tries[j] = MaxTries
    BY <1>1, <1>3
  <2> QED
    BY <1>1, <2>1, <2>2 DEF Flow
<1> QED
  BY <1>2, <1>3

LEMMA InitTypes == Init => TypeOK
<1> SUFFICES ASSUME Init PROVE TypeOK
  OBVIOUS
<1>1. PICK S \in SUBSET {1} : sources \in [S -> Names]
  BY DEF Init
<1>2. PICK I \in SUBSET {2} : props \in [I -> [source : DOMAIN sources, name : Props]]
  BY DEF Init
<1>3. DOMAIN sources \subseteq 1 .. 2 /\ \A s \in DOMAIN sources : s \in Nat /\ sources[s] \in Names
  BY <1>1
<1>4. DOMAIN props \subseteq 1 .. 2 /\ \A i \in DOMAIN props : props[i] \in [source : Nat, name : Props]
  <2>1. ASSUME NEW i \in DOMAIN props PROVE props[i] \in [source : Nat, name : Props]
    <3>1. props[i] \in [source : DOMAIN sources, name : Props]
      BY <1>2, <2>1
    <3>2. DOMAIN sources \subseteq Nat
      BY <1>3
    <3> HIDE DEF Init
    <3> QED
      BY <3>1, <3>2
  <2>2. DOMAIN props \subseteq 1 .. 2
    BY <1>2
  <2> QED
    BY <2>1, <2>2
<1>5. disc \in Seq(Row)
  BY DEF Init
<1> QED
  BY <1>3, <1>4, <1>5, EmptySchema DEF Init, TypeOK, JobStatus, Flow

\* The steps of a workflow keep the types.
LEMMA WorkflowTypeStep ==
  ASSUME TypeOK, NEW j \in Jobs, Workflow(j)
  PROVE  TypeOK'
<1> USE DEF At, Goto, mapVars, listVars
<1>1. place \in [Runs -> Attempt \union {"off"}]
  BY DEF TypeOK
<1>2. ASSUME InsertJob(j) PROVE job' \in [Jobs -> JobStatus]
  BY <1>2 DEF InsertJob, JobStatus, TypeOK
<1>3. CASE StartScan(j)
  BY <1>3 DEF TypeOK, StartScan, JobStatus, Flow
<1>4. CASE EndTransaction(j)
  <2>1. events' \in Nat
    BY <1>4 DEF EndTransaction, Fault, Event, TypeOK
  <2>2. job' \in [Jobs -> JobStatus]
    BY <1>4 DEF EndTransaction, JobStatus, TypeOK
  <2> QED
    BY <1>4, <2>1, <2>2 DEF EndTransaction, TypeOK
<1>5. CASE FindOrCreateJob(j)
  BY <1>1, <1>2, <1>5, NextTryMoves DEF TypeOK, FindOrCreateJob
<1>6. CASE FindFails(j)
  <2>1. job' \in [Jobs -> JobStatus]
    BY <1>2, <1>6 DEF FindFails, TypeOK
  <2>2. creating' \in [Jobs -> BOOLEAN] /\ pc' \in [Jobs -> Flow] /\ events' \in Nat
    BY <1>6 DEF FindFails, TypeOK, Flow, Fault, Event
  <2> QED
    BY <1>6, <2>1, <2>2 DEF FindFails, TypeOK
<1>7. CASE CreateLate(j)
  BY <1>2, <1>7 DEF TypeOK, CreateLate
<1>8. CASE GiveUp(j)
  <2>1. events' \in Nat
    BY <1>8 DEF GiveUp, Fault, Event, TypeOK
  <2> QED
    BY <1>1, <1>8, <2>1, NextTryMoves DEF TypeOK, GiveUp
<1>9. CASE UpdateJobStatus(j)
  <2>1. job' \in [Jobs -> JobStatus] /\ pc' \in [Jobs -> Flow] /\ events' \in Nat
    <3>1. events' \in Nat
      BY <1>9 DEF UpdateJobStatus, Fault, Event, TypeOK
    <3>2. job' \in [Jobs -> JobStatus]
      BY <1>9 DEF UpdateJobStatus, JobStatus, TypeOK
    <3>3. pc' \in [Jobs -> Flow]
      BY <1>9 DEF UpdateJobStatus, Flow, TypeOK
    <3> QED
      BY <3>1, <3>2, <3>3
  <2>2. schemas' \in [Runs -> Schemas] /\ clean' \in [Runs -> BOOLEAN]
    BY <1>9, EmptySchema DEF UpdateJobStatus, ForgetSchema, TypeOK
  <2> QED
    BY <1>9, <2>1, <2>2 DEF UpdateJobStatus, TypeOK
<1> QED
  BY <1>3, <1>4, <1>5, <1>6, <1>7, <1>8, <1>9 DEF Workflow

\* The steps of an attempt keep the types.
LEMMA ScanTypeStep ==
  ASSUME TypeOK, NEW r \in Runs, Scan(r)
  PROVE  TypeOK'
<1> USE DEF In, Move, mapVars, flowVars
<1>1. ASSUME Forget(r)
      PROVE  /\ found' \in [Runs -> SUBSET Changes] /\ todo' \in [Runs -> SUBSET Changes]
             /\ open' \in [Runs -> SUBSET DOMAIN disc] /\ seen' = seen
  BY <1>1 DEF Forget, TypeOK
<1>2. ASSUME ForgetSchema(r)
      PROVE  schemas' \in [Runs -> Schemas] /\ clean' \in [Runs -> BOOLEAN]
  BY <1>2, EmptySchema DEF ForgetSchema, TypeOK
<1>3. CASE FetchSchema(r)
  BY <1>3 DEF TypeOK, FetchSchema, Attempt
<1>4. CASE Compare(r)
  <2>1. PICK S \in OnePerName, I \in OnePerProperty :
          found' = [found EXCEPT ![r] = Differences(schemas[r], S, I)]
    BY <1>4 DEF Compare
  <2>2. schemas[r] \in Schemas
    BY DEF TypeOK
  <2>3. Differences(schemas[r], S, I) \subseteq Changes
    BY <2>2, DifferencesType
  <2> QED
    BY <1>4, <2>1, <2>3 DEF TypeOK, Compare, Attempt
<1>5. CASE ReadOpen(r)
  <2>1. {i \in DOMAIN disc : IsOpen(i)} \subseteq DOMAIN disc /\ Len(disc) \in Nat
    BY DEF TypeOK
  <2> QED
    BY <1>5, <2>1 DEF TypeOK, ReadOpen, Attempt
<1>6. ASSUME NEW c \in todo[r], WriteChange(r, c) PROVE TypeOK'
  <2>1. c \in Changes /\ Known(r, c) \subseteq DOMAIN disc
    BY DEF TypeOK, Known
  <2>2. disc' \in Seq(Row) /\ DOMAIN disc \subseteq DOMAIN disc'
    <3>1. CASE disc' = disc
      BY <3>1 DEF TypeOK
    <3>2. CASE \E i \in Known(r, c) : disc' = [disc EXCEPT ![i].change = c]
      BY <2>1, <3>2, RowChange
    <3>3. CASE Insert(r, c)
      BY <2>1, <3>3, RowInsert
    <3> QED
      BY <1>6, <3>1, <3>2, <3>3 DEF WriteChange
  <2>3. clean' \in [Runs -> BOOLEAN]
    BY <1>6 DEF WriteChange, Disturb, TypeOK
  <2>4. /\ todo' = [todo EXCEPT ![r] = @ \ {c}]
        /\ UNCHANGED <<silo, mapVars, flowVars, place, schemas, found, open, seen, batch, events>>
    BY <1>6 DEF WriteChange
  <2> QED
    BY <2>2, <2>3, <2>4 DEF TypeOK
<1>7. ASSUME NEW i \in open[r], CloseStale(r, i) PROVE TypeOK'
  <2>1. i \in DOMAIN disc /\ "REJECTED" \in Statuses
    BY DEF TypeOK, Statuses
  <2>2. disc' \in Seq(Row) /\ DOMAIN disc' = DOMAIN disc
    <3>1. CASE disc' = disc
      BY <3>1 DEF TypeOK
    <3>2. CASE disc' = [disc EXCEPT ![i].status = "REJECTED"]
      BY <2>1, <3>2, RowStatus
    <3> QED
      BY <1>7, <3>1, <3>2 DEF CloseStale
  <2>3. clean' \in [Runs -> BOOLEAN]
    BY <1>7 DEF CloseStale, Disturb, TypeOK
  <2>4. /\ open' = [open EXCEPT ![r] = @ \ {i}]
        /\ UNCHANGED <<silo, mapVars, flowVars, place, schemas, found, todo, seen, batch, events>>
    BY <1>7 DEF CloseStale
  <2> QED
    BY <2>2, <2>3, <2>4 DEF TypeOK
<1>8. CASE FinishScan(r)
  <2>1. pc' \in [Jobs -> Flow]
    BY <1>8 DEF FinishScan, Goto, TypeOK, Flow
  <2>2. schemas' \in [Runs -> Schemas] /\ clean' \in [Runs -> BOOLEAN]
    BY <1>2, <1>8 DEF FinishScan, TypeOK
  <2>3. Forget(r) /\ place' = [place EXCEPT ![r] = "off"]
    BY <1>8 DEF FinishScan
  <2> QED
    BY <1>1, <1>8, <2>1, <2>2, <2>3 DEF TypeOK, FinishScan
<1>9. CASE AttemptFails(r)
  <2>1. Forget(r) /\ ForgetSchema(r)
    BY <1>9 DEF AttemptFails
  <2>2. /\ tries' \in [Jobs -> 0 .. MaxTries] /\ place' \in [Runs -> Attempt \union {"off"}]
        /\ pc' \in [Jobs -> Flow]
    <3>1. CASE Current(r)
      <4>1. [place EXCEPT ![r] = "off"] \in [Runs -> Attempt \union {"off"}] /\ r[1] \in Jobs
        BY DEF TypeOK, Runs
      <4>2. NextTry(r[1], [place EXCEPT ![r] = "off"])
        BY <1>9, <3>1 DEF AttemptFails
      <4> QED
        BY <4>1, <4>2, NextTryMoves
    <3>2. CASE ~ Current(r)
      BY <1>9, <3>2 DEF AttemptFails, TypeOK
    <3> QED
      BY <3>1, <3>2
  <2> QED
    <3>1. UNCHANGED <<silo, mapVars, disc, job, creating, batch>>
      BY <1>9 DEF AttemptFails
    <3>2. events' \in Nat
      BY <1>9 DEF AttemptFails, Fault, Event, TypeOK
    <3> QED
      BY <1>1, <1>2, <2>1, <2>2, <3>1, <3>2 DEF TypeOK
<1> QED
  BY <1>3, <1>4, <1>5, <1>6, <1>7, <1>8, <1>9 DEF Scan

\* The item of a batch refers to a row.
LEMMA ItemType ==
  ASSUME TypeOK, NEW u \in Users, NEW x \in batch[u]
  PROVE  /\ x.id \in DOMAIN disc /\ x.change \in Changes
         /\ batch[u] \ {x} \in SUBSET [id : DOMAIN disc, change : Changes,
                                       action : {"ACCEPT", "REJECT"}]
BY DEF TypeOK

\* What ApplyItem does to the rows and to the batch.
LEMMA ApplyItemType ==
  ASSUME TypeOK, NEW u \in Users, NEW x \in batch[u],
         NEW st \in {"ACCEPTED", "REJECTED"}, ApplyItem(u, x, st)
  PROVE  /\ disc' \in Seq(Row) /\ DOMAIN disc' = DOMAIN disc
         /\ batch' \in [Users -> SUBSET [id : DOMAIN disc, change : Changes,
                                         action : {"ACCEPT", "REJECT"}]]
         /\ clean' \in [Runs -> BOOLEAN]
         /\ UNCHANGED <<silo, scanVars, events>>
<1>1. st \in Statuses
  BY DEF Statuses
<1>2. CASE disc' = disc
  BY <1>2, ItemType DEF ApplyItem, TypeOK, scanVars, flowVars, listVars
<1>3. CASE disc' = [disc EXCEPT ![x.id].status = st]
  <2>1. disc' \in Seq(Row) /\ DOMAIN disc' = DOMAIN disc
    BY <1>1, <1>3, ItemType, RowStatus
  <2>2. /\ batch' = [batch EXCEPT ![u] = @ \ {x}]
        /\ clean' = [r \in Runs |-> FALSE]
        /\ UNCHANGED <<silo, scanVars, events>>
    BY DEF ApplyItem
  <2> QED
    BY <2>1, <2>2, ItemType DEF TypeOK, scanVars, flowVars, listVars
<1> QED
  BY <1>2, <1>3 DEF ApplyItem

\* The typing of the map.
MapOK ==
  /\ lastId \in Nat
  /\ DOMAIN sources \subseteq 1 .. lastId
  /\ \A s \in DOMAIN sources : sources[s] \in Names
  /\ DOMAIN props \subseteq 1 .. lastId
  /\ \A i \in DOMAIN props : props[i] \in [source : Nat, name : Props]

LEMMA AcceptKeepsMap ==
  ASSUME TypeOK, NEW u \in Users, NEW x \in batch[u],
         AcceptDataSource(u, x) \/ AcceptProperty(u, x)
  PROVE  MapOK'
<1>1. CASE AcceptDataSource(u, x)
  <2>1. x.change.name \in Names /\ x.change.props \in SUBSET Props
    BY <1>1, ItemType DEF AcceptDataSource, Changes
  <2> DEFINE n == Cardinality(x.change.props)
  <2>2. n \in Nat
    BY <2>1, FS_Subset, FS_CardinalityType
  <2>3. PICK names \in [NewIds(n + 1) \ {lastId + 1} -> x.change.props] :
          /\ sources' = [s \in DOMAIN sources \union {lastId + 1} |->
                           IF s = lastId + 1 THEN x.change.name ELSE sources[s]]
          /\ props' = [i \in DOMAIN props \union DOMAIN names |->
                         IF i \in DOMAIN props THEN props[i]
                         ELSE [source |-> lastId + 1, name |-> names[i]]]
    BY <1>1 DEF AcceptDataSource
  <2>4. lastId' = lastId + 1 + n /\ lastId \in Nat
    BY <1>1 DEF AcceptDataSource, TypeOK
  <2> HIDE DEF n
  <2>5. lastId' \in Nat /\ NewIds(n + 1) \subseteq 1 .. lastId' /\ lastId + 1 \in 1 .. lastId'
    BY <2>2, <2>4 DEF NewIds
  <2>6. 1 .. lastId \subseteq 1 .. lastId'
    BY <2>2, <2>4
  <2>7. DOMAIN sources' \subseteq 1 .. lastId' /\ \A s \in DOMAIN sources' : sources'[s] \in Names
    BY <2>1, <2>3, <2>5, <2>6 DEF TypeOK
  <2>8. DOMAIN names \subseteq 1 .. lastId' /\ \A i \in DOMAIN names : names[i] \in Props
    BY <2>1, <2>3, <2>5
  <2>9. /\ DOMAIN props' \subseteq 1 .. lastId'
        /\ \A i \in DOMAIN props' : props'[i] \in [source : Nat, name : Props]
    BY <2>3, <2>4, <2>6, <2>8 DEF TypeOK
  <2> QED
    BY <2>5, <2>7, <2>9 DEF MapOK
<1>2. CASE AcceptProperty(u, x)
  <2>1. x.change.id \in Nat /\ x.change.name \in Props
    BY <1>2, ItemType DEF AcceptProperty, Changes
  <2>2. /\ lastId' = lastId + 1 /\ sources' = sources
        /\ props' = [i \in DOMAIN props \union {lastId'} |->
                       IF i = lastId' THEN [source |-> x.change.id, name |-> x.change.name]
                       ELSE props[i]]
    BY <1>2 DEF AcceptProperty
  <2> QED
    BY <2>1, <2>2 DEF MapOK, TypeOK
<1> QED
  BY <1>1, <1>2

LEMMA RemovingKeepsMap ==
  ASSUME TypeOK, NEW S, NEW P, lastId' = lastId,
         sources' = sources \/ sources' = Without(sources, S),
         props' = props \/ props' = Without(props, P)
  PROVE  MapOK'
<1>1. /\ DOMAIN sources' \subseteq DOMAIN sources
      /\ \A s \in DOMAIN sources' : sources'[s] = sources[s]
  BY DEF Without
<1>2. /\ DOMAIN props' \subseteq DOMAIN props
      /\ \A i \in DOMAIN props' : props'[i] = props[i]
  BY DEF Without
<1> QED
  BY <1>1, <1>2 DEF TypeOK, MapOK

\* The steps of users keep the types.
LEMMA CallTypeStep ==
  ASSUME TypeOK, NEW u \in Users, Call(u)
  PROVE  TypeOK'
<1> USE DEF mapVars, scanVars, flowVars, listVars
<1>1. ASSUME NEW B, B \subseteq DOMAIN disc, NEW a \in {"ACCEPT", "REJECT"}, Event,
             batch' = [batch EXCEPT ![u] = {Item(i, a) : i \in B}],
             UNCHANGED <<silo, mapVars, disc, scanVars, clean>>
      PROVE  TypeOK'
  <2>1. {Item(i, a) : i \in B} \subseteq [id : DOMAIN disc, change : Changes,
                                          action : {"ACCEPT", "REJECT"}]
    BY <1>1, RowParts DEF Item
  <2> QED
    BY <1>1, <2>1 DEF TypeOK, Event
<1>2. ASSUME NEW a \in {"ACCEPT", "REJECT"}, HandleAllOpenDiscoveries(u, a) PROVE TypeOK'
  BY <1>1, <1>2 DEF HandleAllOpenDiscoveries
<1>3. ASSUME NEW a \in {"ACCEPT", "REJECT"}, NEW i \in DOMAIN disc, HandleDiscovery(u, i, a)
      PROVE  TypeOK'
  <2>1. {Item(i, a)} = {Item(k, a) : k \in {i}}
    OBVIOUS
  <2> QED
    BY <1>1, <1>3, <2>1 DEF HandleDiscovery
<1>4. ASSUME NEW x \in batch[u], NEW st \in {"ACCEPTED", "REJECTED"}, ApplyItem(u, x, st), MapOK'
      PROVE  TypeOK'
  BY <1>4, ApplyItemType DEF TypeOK, MapOK
<1>5. ASSUME NEW x \in batch[u], Reject(u, x) PROVE TypeOK'
  <2>1. lastId' = lastId /\ sources' = sources /\ props' = props /\ ApplyItem(u, x, "REJECTED")
    BY <1>5 DEF Reject
  <2> QED
    BY <1>4, <2>1, RemovingKeepsMap
<1>6. ASSUME NEW x \in batch[u], AcceptDataSource(u, x) \/ AcceptProperty(u, x) PROVE TypeOK'
  BY <1>4, <1>6, AcceptKeepsMap DEF AcceptDataSource, AcceptProperty
<1>7. ASSUME NEW x \in batch[u], AcceptDataSourceMissing(u, x) PROVE TypeOK'
  <2>1. /\ lastId' = lastId /\ sources' = Without(sources, {x.change.id})
        /\ props' = Without(props, PropsOf(x.change.id)) /\ ApplyItem(u, x, "ACCEPTED")
    BY <1>7 DEF AcceptDataSourceMissing
  <2>2. MapOK'
    BY <2>1, RemovingKeepsMap
  <2> QED
    BY <1>4, <2>1, <2>2
<1>8. ASSUME NEW x \in batch[u], AcceptPropertyMissing(u, x) PROVE TypeOK'
  <2>1. /\ lastId' = lastId /\ sources' = sources
        /\ props' = Without(props, {x.change.id}) /\ ApplyItem(u, x, "ACCEPTED")
    BY <1>8 DEF AcceptPropertyMissing
  <2>2. MapOK'
    BY <2>1, RemovingKeepsMap
  <2> QED
    BY <1>4, <2>1, <2>2
<1>9. ASSUME NEW x \in batch[u], AcceptFails(u, x) PROVE TypeOK'
  <2>1. /\ batch' = [batch EXCEPT ![u] = @ \ {x}]
        /\ UNCHANGED <<silo, mapVars, disc, scanVars, events, clean>>
    BY <1>9 DEF AcceptFails
  <2> QED
    BY <2>1, ItemType DEF TypeOK
<1> QED
  BY <1>2, <1>3, <1>5, <1>6, <1>7, <1>8, <1>9 DEF Call

\* And those that nobody's scan or batch is part of.
LEMMA OtherTypeStep ==
  ASSUME TypeOK,
         \/ \E s \in DOMAIN sources : DeleteDataSource(s)
         \/ \E i \in DOMAIN props : DeleteProperty(i)
         \/ SiloChanges
         \/ UNCHANGED vars
  PROVE  TypeOK'
<1>1. ASSUME NEW s \in DOMAIN sources, DeleteDataSource(s) PROVE TypeOK'
  <2>1. MapOK'
    <3>1. lastId' = lastId /\ sources' = Without(sources, {s}) /\ props' = Without(props, PropsOf(s))
      BY <1>1 DEF DeleteDataSource
    <3> QED
      BY <3>1, RemovingKeepsMap
  <2>2. disc' \in Seq(Row) /\ DOMAIN disc' = DOMAIN disc
    <3> DEFINE Gone(i) == disc[i].change.type = "PROPERTY_FOUND" /\ disc[i].change.id = s
               New(i) == IF Gone(i) THEN [disc[i] EXCEPT !.status = "deleted"] ELSE disc[i]
    <3>1. disc' = [i \in DOMAIN disc |-> New(i)]
      BY <1>1 DEF DeleteDataSource
    <3>2. disc \in Seq(Row) /\ \A i \in DOMAIN disc : disc[i] \in Row
      BY ElementOfSeq DEF TypeOK
    <3>3. \A r \in Row : [r EXCEPT !.status = "deleted"] \in Row
      BY DEF Row, Statuses
    <3>4. \A i \in DOMAIN disc : New(i) \in Row
      BY <3>2, <3>3
    <3> HIDE DEF New
    <3>5. disc' = [i \in 1 .. Len(disc) |-> New(i)] /\ Len(disc) \in Nat
      BY <3>1, <3>2
    <3> QED
      BY <3>1, <3>2, <3>4, <3>5
  <2>3. /\ UNCHANGED <<silo, scanVars, batch>>
        /\ events' = events + 1
        /\ clean' = [r \in Runs |-> FALSE]
    BY <1>1 DEF DeleteDataSource, Event
  <2> QED
    BY <2>1, <2>2, <2>3 DEF TypeOK, MapOK, scanVars, flowVars, listVars
<1>2. ASSUME NEW i \in DOMAIN props, DeleteProperty(i) PROVE TypeOK'
  <2>1. MapOK'
    <3>1. lastId' = lastId /\ sources' = sources /\ props' = Without(props, {i})
      BY <1>2 DEF DeleteProperty
    <3> QED
      BY <3>1, RemovingKeepsMap
  <2>2. /\ UNCHANGED <<silo, disc, scanVars, batch>>
        /\ events' = events + 1
        /\ clean' = [r \in Runs |-> FALSE]
    BY <1>2 DEF DeleteProperty, Event
  <2> QED
    BY <2>1, <2>2 DEF TypeOK, MapOK, scanVars, flowVars, listVars
<1>3. CASE SiloChanges
  BY <1>3 DEF TypeOK, SiloChanges, Event, mapVars, scanVars, flowVars, listVars
<1>4. CASE UNCHANGED vars
  BY <1>4 DEF TypeOK, vars, mapVars, scanVars, flowVars, listVars
<1> QED
  BY <1>1, <1>2, <1>3, <1>4

-----------------------------------------------------------------------------
(* The job of a scan. *)

\* What an attempt does to the workflow that waits for it.
Onward(j) ==
  \/ UNCHANGED <<pc[j], tries[j]>>
  \/ /\ pc[j] = "detect"
     /\ \/ pc'[j] = "scanned" /\ tries'[j] = tries[j]
        \/ pc'[j] = "detect" /\ tries'[j] = tries[j] + 1
        \/ pc'[j] = "failed" /\ tries'[j] = tries[j] /\ tries'[j] = MaxTries

LEMMA ScanMoves ==
  ASSUME TypeOK, NEW r \in Runs, Scan(r)
  PROVE  /\ UNCHANGED <<job, creating>>
         /\ \A j \in Jobs : Onward(j) /\ tries[j] <= tries'[j]
         /\ \A q \in Runs : q # r => place'[q] = place[q] \/ Begins(q)
<1> USE DEF Move, In, flowVars
<1>1. /\ pc \in [Jobs -> Flow] /\ tries \in [Jobs -> 0 .. MaxTries]
      /\ place \in [Runs -> Attempt \union {"off"}] /\ r[1] \in Jobs
  BY DEF TypeOK, Runs
<1>2. CASE UNCHANGED flowVars /\ \A q \in Runs : q # r => place'[q] = place[q]
  BY <1>1, <1>2 DEF Onward
<1>3. CASE FetchSchema(r) \/ Compare(r) \/ ReadOpen(r)
  BY <1>1, <1>2, <1>3 DEF FetchSchema, Compare, ReadOpen
<1>4. ASSUME NEW c \in todo[r], WriteChange(r, c) PROVE UNCHANGED <<flowVars, place>>
  BY <1>4 DEF WriteChange
<1>5. ASSUME NEW i \in open[r], CloseStale(r, i) PROVE UNCHANGED <<flowVars, place>>
  BY <1>5 DEF CloseStale
<1>6. CASE FinishScan(r)
  <2>1. /\ UNCHANGED <<job, creating, tries>>
        /\ place' = [place EXCEPT ![r] = "off"]
        /\ \/ Current(r) /\ pc' = [pc EXCEPT ![r[1]] = "scanned"]
           \/ pc' = pc
    BY <1>6 DEF FinishScan, Goto
  <2> QED
    BY <1>1, <2>1 DEF Onward, Current, At
<1>7. CASE AttemptFails(r)
  <2> DEFINE base == [place EXCEPT ![r] = "off"]
  <2>1. UNCHANGED <<job, creating>>
    BY <1>7 DEF AttemptFails
  <2>2. base \in [Runs -> Attempt \union {"off"}] /\ \A q \in Runs : q # r => base[q] = place[q]
    BY <1>1
  <2>3. CASE Current(r)
    <3>1. NextTry(r[1], base)
      BY <1>7, <2>3 DEF AttemptFails
    <3> HIDE DEF base
    <3>2. /\ \A k \in Jobs : tries[k] <= tries'[k]
          /\ \A k \in Jobs : k # r[1] => tries'[k] = tries[k] /\ pc'[k] = pc[k]
          /\ \/ pc'[r[1]] = "detect" /\ tries'[r[1]] = tries[r[1]] + 1
             \/ pc'[r[1]] = "failed" /\ tries'[r[1]] = MaxTries /\ tries'[r[1]] = tries[r[1]]
          /\ \A q \in Runs : place'[q] = base[q] \/ Begins(q)
      BY <1>1, <2>2, <3>1, NextTryMoves
    <3> QED
      BY <1>1, <2>1, <2>2, <2>3, <3>2 DEF Onward, Current, At
  <2>4. CASE ~ Current(r)
    BY <1>1, <1>7, <2>1, <2>2, <2>4 DEF AttemptFails, Onward
  <2> QED
    BY <2>3, <2>4
<1> QED
  BY <1>2, <1>3, <1>4, <1>5, <1>6, <1>7 DEF Scan

\* What a step of a workflow does to the others and to the attempts.
LEMMA WorkflowMoves ==
  ASSUME TypeOK, NEW j \in Jobs, Workflow(j)
  PROVE  /\ UNCHANGED <<mapVars, disc, found, todo, open, seen>>
         /\ \A k \in Jobs : tries[k] <= tries'[k]
         /\ \A k \in Jobs : k # j => UNCHANGED <<job[k], creating[k], pc[k], tries[k]>>
         /\ \A q \in Runs : place'[q] = place[q] \/ Begins(q)
<1> USE DEF TypeOK, Goto, listVars, InsertJob
<1>1. place \in [Runs -> Attempt \union {"off"}] /\ \A k \in Jobs : tries[k] \in Nat
  OBVIOUS
<1>2. CASE StartScan(j)
  BY <1>1, <1>2 DEF StartScan
<1>3. CASE EndTransaction(j)
  BY <1>1, <1>3 DEF EndTransaction
<1>4. CASE FindOrCreateJob(j)
  BY <1>1, <1>4, NextTryMoves DEF FindOrCreateJob
<1>5. CASE FindFails(j)
  BY <1>1, <1>5 DEF FindFails
<1>6. CASE CreateLate(j)
  BY <1>1, <1>6 DEF CreateLate
<1>7. CASE GiveUp(j)
  BY <1>1, <1>7, NextTryMoves DEF GiveUp
<1>8. CASE UpdateJobStatus(j)
  BY <1>1, <1>8 DEF UpdateJobStatus
<1> QED
  BY <1>2, <1>3, <1>4, <1>5, <1>6, <1>7, <1>8 DEF Workflow

\* A step of the workflow moves its job as JobFollows says.
LEMMA JobStep ==
  ASSUME JobIInv, NEW j \in Jobs, Workflow(j)
  PROVE  JobFollows(j)'
<1> USE DEF JobFollows, JobIInv, TypeOK, At, Goto, HasRow, JobStatus
<1>1. CASE StartScan(j)
  BY <1>1 DEF StartScan
<1>2. CASE EndTransaction(j)
  BY <1>2 DEF EndTransaction
<1>3. ASSUME NextTry(j, place), pc[j] \in {"find", "detect"}, creating' = creating,
             HasRow(j)', job'[j] \notin {"COMPLETED", "FAILED"}
      PROVE  JobFollows(j)'
  <2>1. tries[j] \in Nat /\ ~ creating[j] /\ pc[j] # "none"
    BY <1>3
  <2>2. \/ pc'[j] = "detect" /\ tries'[j] = tries[j] + 1
        \/ pc'[j] = "failed" /\ tries'[j] = MaxTries /\ tries'[j] = tries[j]
    BY <1>3, NextTryMoves
  <2> QED
    BY <1>3, <2>1, <2>2
<1>4. CASE FindOrCreateJob(j)
  <2>1. job'[j] = IF job[j] = "absent" THEN "RUNNING" ELSE job[j]
    BY <1>4 DEF FindOrCreateJob, InsertJob
  <2>2. pc[j] = "find" /\ job[j] # "uncommitted" /\ NextTry(j, place) /\ creating' = creating
    BY <1>4 DEF FindOrCreateJob
  <2> QED
    BY <1>3, <2>1, <2>2
<1>5. CASE FindFails(j)
  <2>1. /\ pc[j] = "find" /\ pc'[j] = "failed" /\ tries' = tries /\ tries[j] = 0
        /\ job'[j] \in {job[j], "RUNNING"}
    BY <1>5 DEF FindFails, InsertJob
  <2> QED
    BY <2>1
<1>6. CASE CreateLate(j)
  <2>1. /\ creating[j] /\ ~ creating'[j] /\ pc' = pc /\ tries' = tries
        /\ job'[j] = IF job[j] = "absent" THEN "RUNNING" ELSE job[j]
    BY <1>6 DEF CreateLate, InsertJob
  <2> QED
    BY <2>1
<1>7. CASE GiveUp(j)
  <2>1. pc[j] = "detect" /\ NextTry(j, place) /\ job' = job /\ creating' = creating
    BY <1>7 DEF GiveUp
  <2> QED
    BY <1>3, <2>1
<1>8. CASE UpdateJobStatus(j)
  <2>1. pc[j] \in {"scanned", "failed"} /\ tries' = tries /\ creating' = creating
    BY <1>8 DEF UpdateJobStatus
  <2>2. \/ pc'[j] = "closed" /\ HasRow(j)
           /\ job'[j] = IF pc[j] = "scanned" THEN "COMPLETED" ELSE "FAILED"
        \/ pc'[j] = "lost" /\ job' = job
    BY <1>8 DEF UpdateJobStatus
  <2> QED
    BY <2>1, <2>2
<1> QED
  BY <1>1, <1>2, <1>4, <1>5, <1>6, <1>7, <1>8 DEF Workflow

\* Users and the silo have nothing to do with scans.
UserStep ==
  \/ \E u \in Users : Call(u)
  \/ \E s \in DOMAIN sources : DeleteDataSource(s)
  \/ \E i \in DOMAIN props : DeleteProperty(i)
  \/ SiloChanges
  \/ UNCHANGED vars

LEMMA UsersLeaveScans ==
  ASSUME UserStep
  PROVE  UNCHANGED scanVars
<1>1. ASSUME NEW u \in Users, Call(u) PROVE UNCHANGED scanVars
  BY <1>1 DEF Call, HandleAllOpenDiscoveries, HandleDiscovery, Reject, AcceptDataSource,
     AcceptProperty, AcceptDataSourceMissing, AcceptPropertyMissing, AcceptFails, ApplyItem,
     scanVars
<1> QED
  BY <1>1 DEF UserStep, DeleteDataSource, DeleteProperty, SiloChanges, scanVars, vars

LEMMA NextSplits ==
  ASSUME [Next]_vars
  PROVE  (\E j \in Jobs : Workflow(j)) \/ (\E r \in Runs : Scan(r)) \/ UserStep
BY DEF Next, UserStep

LEMMA JobIndInv == JobIInv /\ [Next]_vars => JobIInv'
<1> SUFFICES ASSUME JobIInv, [Next]_vars PROVE JobIInv'
  OBVIOUS
<1>1. ASSUME NEW k \in Jobs, Workflow(k) PROVE JobIInv'
  <2>1. TypeOK'
    BY <1>1, WorkflowTypeStep DEF JobIInv
  <2>2. ASSUME NEW j \in Jobs PROVE JobFollows(j)'
    <3>1. CASE j = k
      BY <1>1, <3>1, JobStep
    <3>2. CASE j # k
      <4>1. UNCHANGED <<job[j], creating[j], pc[j], tries[j]>>
        BY <1>1, <3>2, WorkflowMoves DEF JobIInv
      <4> QED
        BY <4>1 DEF JobIInv, JobFollows, At, HasRow
    <3> QED
      BY <3>1, <3>2
  <2> QED
    BY <2>1, <2>2 DEF JobIInv
<1>2. ASSUME NEW r \in Runs, Scan(r) PROVE JobIInv'
  <2>1. TypeOK'
    BY <1>2, ScanTypeStep DEF JobIInv
  <2>2. ASSUME NEW j \in Jobs PROVE JobFollows(j)'
    <3>1. UNCHANGED <<job, creating>> /\ Onward(j) /\ tries[j] \in Nat
      BY <1>2, ScanMoves DEF JobIInv, TypeOK
    <3> QED
      BY <3>1 DEF JobIInv, JobFollows, Onward, At, HasRow
  <2> QED
    BY <2>1, <2>2 DEF JobIInv
<1>3. CASE UserStep
  <2>1. TypeOK'
    BY <1>3, CallTypeStep, OtherTypeStep DEF JobIInv, UserStep
  <2>2. UNCHANGED <<job, creating, pc, tries>>
    BY <1>3, UsersLeaveScans DEF scanVars, flowVars
  <2>3. \A j \in Jobs : JobFollows(j)'
    BY <2>2 DEF JobIInv, JobFollows, At, HasRow
  <2> QED
    BY <2>1, <2>3 DEF JobIInv
<1> QED
  BY <1>1, <1>2, <1>3, NextSplits

THEOREM ScanJobInvariant == Spec => []JobIInv
<1>1. Init => JobIInv
  BY InitTypes DEF Init, JobIInv, JobFollows, At
<1>2. JobIInv /\ [Next]_vars => JobIInv'
  BY JobIndInv
<1> QED
  BY <1>1, <1>2, PTL DEF Spec

\* The variables of a scan, of the map and of the users have their types: every
\* attempt is counted, and an attempt and a batch only refer to rows that exist.
THEOREM DiscoveryTypes == Spec => []TypeOK
<1>1. JobIInv => TypeOK
  BY DEF JobIInv
<1> QED
  BY <1>1, ScanJobInvariant, PTL

\* The job tells how the scan ended; and if an attempt of DetectDataSources was ever begun,
\* the last update finds the row, however the start of the workflow, its transaction and
\* given-up attempts of FindOrCreateJob raced (DetectDSWorkflow and DetectSiloSources).
\* It may still fail by itself; and when FindOrCreateJob fails it may miss the row.
THEOREM ScanJobIsSound == Spec => []ScanJobSound
<1>1. JobIInv => ScanJobSound
  BY DEF JobIInv, JobFollows, ScanJobSound, At
<1> QED
  BY <1>1, ScanJobInvariant, PTL

-----------------------------------------------------------------------------
(* The list of discoveries. *)

\* The key of a difference determines it.
LEMMA DifferencesKeys ==
  ASSUME NEW schema, NEW S, NEW I, NEW c \in Differences(schema, S, I),
         NEW d \in Differences(schema, S, I), Key(c) = Key(d)
  PROVE  c = d
<1> DEFINE Data(t, n) == IF t = "DATA_SOURCE_FOUND" THEN schema[n] ELSE {}
<1>1. ASSUME NEW x \in Differences(schema, S, I)
      PROVE  x = [type |-> x.type, id |-> x.id, name |-> x.name, props |-> Data(x.type, x.name)]
  <2>1. CASE \E n : x = Change("DATA_SOURCE_FOUND", 0, n, schema[n])
    BY <2>1 DEF Change
  <2>2. CASE \E t \in {"DATA_SOURCE_MISSING", "PROPERTY_MISSING", "PROPERTY_FOUND"} :
               \E i, n : x = Change(t, i, n, {})
    BY <2>2 DEF Change
  <2> QED
    BY <1>1, <2>1, <2>2 DEF Differences
<1>2. c.type = d.type /\ c.id = d.id /\ c.name = d.name
  BY DEF Key
<1> HIDE DEF Data
<1> QED
  BY <1>1, <1>2

\* What a step does to the rows if it inserts none.
Shrinks ==
  /\ DOMAIN disc' = DOMAIN disc
  /\ \A i \in DOMAIN disc : /\ Key(disc'[i].change) = Key(disc[i].change)
                            /\ disc'[i].by = disc[i].by
                            /\ IsOpen(i)' => IsOpen(i)

\* And what one does that may insert one, seen by the attempt q that does not.
Grows(q) ==
  /\ DOMAIN disc \subseteq DOMAIN disc' /\ Len(disc) <= Len(disc')
  /\ \A i \in DOMAIN disc : /\ Key(disc'[i].change) = Key(disc[i].change)
                            /\ disc'[i].by = disc[i].by
                            /\ IsOpen(i)' => IsOpen(i)
  /\ \A i \in DOMAIN disc' \ DOMAIN disc : i > Len(disc) /\ disc'[i].by # q

LEMMA ShrinkingGrows ==
  ASSUME TypeOK, TypeOK', Shrinks, NEW q \in Runs
  PROVE  Grows(q)
<1>1. /\ DOMAIN disc = 1 .. Len(disc) /\ Len(disc) \in Nat
      /\ DOMAIN disc' = 1 .. Len(disc') /\ Len(disc') \in Nat
  BY DEF TypeOK
<1>2. Len(disc') = Len(disc)
  BY <1>1 DEF Shrinks
<1> QED
  BY <1>1, <1>2 DEF Shrinks, Grows

\* An attempt that a step does not move, or begins.
LEMMA ListsFrame ==
  ASSUME TypeOK, TypeOK', NEW q \in Runs, ListsFit(q), ReadRows(q), OwnRows(q), Grows(q),
         UNCHANGED <<found[q], todo[q], open[q], seen[q]>>,
         place'[q] = place[q] \/ Begins(q), tries[q[1]] <= tries'[q[1]]
  PROVE  ListsFit(q)' /\ ReadRows(q)' /\ OwnRows(q)'
<1> USE DEF In
<1>1. /\ q[1] \in Jobs /\ q[2] \in Nat /\ tries[q[1]] \in Nat /\ tries'[q[1]] \in Nat
      /\ seen[q] \in Nat /\ Len(disc) \in Nat /\ Len(disc') \in Nat
      /\ DOMAIN disc = 1 .. Len(disc)
  BY DEF TypeOK, Runs
<1>2. q[2] <= tries[q[1]] => q[2] <= tries'[q[1]]
  BY <1>1
<1>3. \A i \in DOMAIN disc' : i <= seen[q] => i \in DOMAIN disc
  BY <1>1 DEF Grows, ReadRows, TypeOK
<1>4. ListsFit(q)'
  <2>1. CASE place'[q] = place[q]
    BY <1>2, <2>1 DEF ListsFit
  <2>2. CASE Begins(q)
    <3>1. place[q] = "off"
      BY <1>1, <2>2 DEF Begins, ListsFit
    <3> QED
      BY <2>2, <3>1 DEF Begins, ListsFit
  <2> QED
    BY <2>1, <2>2
<1>5. ReadRows(q)'
  <2>1. seen'[q] <= Len(disc')
    BY <1>1 DEF ReadRows, Grows
  <2>2. ASSUME In(q, "write")', NEW i \in DOMAIN disc', i <= seen'[q], IsOpen(i)' PROVE i \in open'[q]
    <3>1. In(q, "write")
      BY <2>2 DEF Begins
    <3>2. i \in DOMAIN disc /\ IsOpen(i)
      BY <1>3, <2>2 DEF Grows
    <3> QED
      BY <2>2, <3>1, <3>2 DEF ReadRows
  <2> QED
    BY <2>1, <2>2 DEF ReadRows
<1>6. OwnRows(q)'
  <2> SUFFICES ASSUME NEW i \in DOMAIN disc', disc'[i].by = q
               PROVE  /\ place'[q] \in {"write", "off"} /\ q[2] <= tries'[q[1]]
                      /\ Key(disc'[i].change) \notin Keys(todo'[q])
    BY DEF OwnRows
  <2>1. i \in DOMAIN disc /\ disc[i].by = q /\ Key(disc'[i].change) = Key(disc[i].change)
    BY DEF Grows
  <2>2. /\ place[q] \in {"write", "off"} /\ q[2] <= tries[q[1]]
        /\ Key(disc[i].change) \notin Keys(todo[q])
    BY <2>1 DEF OwnRows
  <2>3. place'[q] = place[q]
    BY <1>1, <2>2 DEF Begins
  <2> QED
    BY <1>2, <2>1, <2>2, <2>3
<1> QED
  BY <1>4, <1>5, <1>6

\* No step makes two of the rows alike.
LEMMA ShrinkingKeeps ==
  ASSUME TypeOK, NoDuplicateOpen, Shrinks, \A i \in DOMAIN disc : seen'[disc[i].by] = seen[disc[i].by]
  PROVE  NoDuplicateOpen'
BY DEF NoDuplicateOpen, Shrinks

\* A row that gets a status other than OPEN.
LEMMA StatusShrinks ==
  ASSUME TypeOK, NEW i \in DOMAIN disc, NEW st \in {"ACCEPTED", "REJECTED"},
         disc' = IF disc[i].status = "deleted" THEN disc ELSE [disc EXCEPT ![i].status = st]
  PROVE  Shrinks
<1>1. CASE disc' = disc
  BY <1>1 DEF Shrinks, IsOpen
<1>2. CASE disc' = [disc EXCEPT ![i].status = st]
  <2>1. DOMAIN disc' = DOMAIN disc /\ \A k \in DOMAIN disc \ {i} : disc'[k] = disc[k]
    BY <1>2
  <2>2. disc'[i] = [disc[i] EXCEPT !.status = st] /\ disc[i] \in Row
    BY <1>2, ElementOfSeq DEF TypeOK
  <2>3. disc'[i].status = st /\ disc'[i].change = disc[i].change /\ disc'[i].by = disc[i].by
    BY <2>2 DEF Row
  <2> QED
    BY <2>1, <2>3 DEF Shrinks, IsOpen
<1> QED
  BY <1>1, <1>2

\* Users insert no discovery and open none.
LEMMA UsersShrink ==
  ASSUME TypeOK, UserStep
  PROVE  Shrinks
<1>1. CASE disc' = disc
  BY <1>1 DEF Shrinks, IsOpen
<1>2. ASSUME NEW u \in Users, NEW x \in batch[u], NEW st \in {"ACCEPTED", "REJECTED"},
             ApplyItem(u, x, st)
      PROVE  Shrinks
  BY <1>2, ItemType, StatusShrinks DEF ApplyItem
<1>3. ASSUME NEW u \in Users, Call(u) PROVE Shrinks
  <2>1. ASSUME NEW x \in batch[u],
               \/ Reject(u, x) \/ AcceptDataSource(u, x) \/ AcceptProperty(u, x)
               \/ AcceptDataSourceMissing(u, x) \/ AcceptPropertyMissing(u, x)
        PROVE  Shrinks
    BY <1>2, <2>1 DEF Reject, AcceptDataSource, AcceptProperty, AcceptDataSourceMissing,
                      AcceptPropertyMissing
  <2>2. ASSUME NEW x \in batch[u], AcceptFails(u, x) PROVE Shrinks
    BY <1>1, <2>2 DEF AcceptFails
  <2>3. ASSUME NEW a \in {"ACCEPT", "REJECT"},
               HandleAllOpenDiscoveries(u, a) \/ \E i \in DOMAIN disc : HandleDiscovery(u, i, a)
        PROVE  Shrinks
    BY <1>1, <2>3 DEF HandleAllOpenDiscoveries, HandleDiscovery
  <2> QED
    BY <1>3, <2>1, <2>2, <2>3 DEF Call
<1>4. ASSUME NEW s \in DOMAIN sources, DeleteDataSource(s) PROVE Shrinks
  <2> DEFINE Gone(i) == disc[i].change.type = "PROPERTY_FOUND" /\ disc[i].change.id = s
             New(i) == IF Gone(i) THEN [disc[i] EXCEPT !.status = "deleted"] ELSE disc[i]
  <2>1. disc' = [i \in DOMAIN disc |-> New(i)]
    BY <1>4 DEF DeleteDataSource
  <2>2. \A i \in DOMAIN disc : disc[i] \in Row
    BY ElementOfSeq DEF TypeOK
  <2>3. \A r \in Row : LET q == [r EXCEPT !.status = "deleted"]
                       IN  q.change = r.change /\ q.by = r.by /\ q.status = "deleted"
    BY DEF Row
  <2>4. \A i \in DOMAIN disc : /\ New(i).change = disc[i].change /\ New(i).by = disc[i].by
                               /\ New(i).status \in {"deleted", disc[i].status}
    BY <2>2, <2>3
  <2> HIDE DEF New
  <2> QED
    BY <2>1, <2>4 DEF Shrinks, IsOpen
<1> QED
  BY <1>1, <1>3, <1>4 DEF UserStep, DeleteProperty, SiloChanges, vars

\* An attempt that updates a discovery leaves its key.
LEMMA UpdateShrinks ==
  ASSUME TypeOK, NEW r \in Runs, NEW c \in todo[r], NEW i \in Known(r, c),
         disc' = IF disc[i].status = "deleted" THEN disc ELSE [disc EXCEPT ![i].change = c]
  PROVE  Shrinks
<1>1. i \in DOMAIN disc /\ Key(disc[i].change) = Key(c)
  BY DEF Known, TypeOK
<1>2. CASE disc' = disc
  BY <1>2 DEF Shrinks, IsOpen
<1>3. CASE disc' = [disc EXCEPT ![i].change = c]
  <2>1. DOMAIN disc' = DOMAIN disc /\ \A k \in DOMAIN disc \ {i} : disc'[k] = disc[k]
    BY <1>3
  <2>2. disc'[i] = [disc[i] EXCEPT !.change = c] /\ disc[i] \in Row
    BY <1>1, <1>3, ElementOfSeq DEF TypeOK
  <2>3. disc'[i].status = disc[i].status /\ disc'[i].change = c /\ disc'[i].by = disc[i].by
    BY <2>2 DEF Row
  <2> QED
    BY <1>1, <2>1, <2>3 DEF Shrinks, IsOpen
<1> QED
  BY <1>2, <1>3

\* What an attempt inserts was not open when it read the rows, and is not its own.
LEMMA InsertKeeps ==
  ASSUME TypeOK, NoDuplicateOpen, NEW r \in Runs, ListsFit(r), ReadRows(r), OwnRows(r), In(r, "write"),
         NEW c \in todo[r], Known(r, c) = {}, Insert(r, c),
         todo' = [todo EXCEPT ![r] = @ \ {c}],
         UNCHANGED <<place, tries, open, seen>>
  PROVE  NoDuplicateOpen' /\ ReadRows(r)' /\ OwnRows(r)' /\ \A q \in Runs : q # r => Grows(q)
<1> DEFINE new == Len(disc')
<1>1. c \in Changes
  BY DEF TypeOK
<1>2. /\ new = Len(disc) + 1 /\ Len(disc) \in Nat
      /\ DOMAIN disc = 1 .. Len(disc) /\ DOMAIN disc' = DOMAIN disc \union {new}
      /\ \A i \in DOMAIN disc : disc'[i] = disc[i]
      /\ disc'[new] = [change |-> c, status |-> "OPEN", by |-> r]
  BY <1>1, RowInsert
<1> HIDE DEF new
<1>3. disc'[new].change = c /\ disc'[new].status = "OPEN" /\ disc'[new].by = r
  BY <1>2
<1>4. \A i \in DOMAIN disc : i < new /\ i # new
  BY <1>2
<1>5. \A i \in DOMAIN disc : IsOpen(i)' <=> IsOpen(i)
  BY <1>2 DEF IsOpen
<1>6. seen[r] \in Nat /\ seen[r] <= Len(disc)
  BY DEF TypeOK, ReadRows
<1>7. ASSUME NEW i \in DOMAIN disc, IsOpen(i), Key(disc[i].change) = Key(c)
      PROVE  disc[i].by # r /\ seen[r] < i
  <2>1. i \notin open[r]
    BY <1>7 DEF Known
  <2>2. ~ (i <= seen[r])
    BY <1>7, <2>1 DEF ReadRows
  <2>3. Key(c) \in Keys(todo[r])
    BY DEF Keys
  <2>4. disc[i].by # r
    BY <1>7, <2>3 DEF OwnRows
  <2> QED
    BY <1>2, <1>6, <2>2, <2>4
<1>8. NoDuplicateOpen'
  <2> SUFFICES ASSUME NEW i \in DOMAIN disc', NEW k \in DOMAIN disc', i < k, IsOpen(i)', IsOpen(k)',
                      Key(disc'[i].change) = Key(disc'[k].change)
               PROVE  disc'[i].by # disc'[k].by /\ seen'[disc'[k].by] < i
    BY DEF NoDuplicateOpen
  <2>1. i \in DOMAIN disc
    BY <1>2, <1>4
  <2>2. CASE k = new
    BY <1>2, <1>3, <1>5, <1>7, <2>1, <2>2
  <2>3. CASE k \in DOMAIN disc
    BY <1>2, <1>5, <2>1, <2>3 DEF NoDuplicateOpen
  <2> QED
    BY <1>2, <2>2, <2>3
<1>9. todo'[r] = todo[r] \ {c} /\ open'[r] = open[r]
  BY DEF TypeOK
<1>10. ReadRows(r)'
  <2>1. seen'[r] <= Len(disc')
    BY <1>2, <1>6 DEF new
  <2>2. \A i \in DOMAIN disc' : i <= seen'[r] => i \in DOMAIN disc
    BY <1>2, <1>6
  <2> QED
    BY <1>5, <1>9, <2>1, <2>2 DEF ReadRows, In
<1>11. OwnRows(r)'
  <2>1. Key(c) \notin Keys(todo'[r])
    BY <1>9 DEF Keys, ListsFit
  <2>2. Keys(todo'[r]) \subseteq Keys(todo[r])
    BY <1>9 DEF Keys
  <2>3. r[2] <= tries'[r[1]]
    BY DEF ListsFit, In
  <2> QED
    BY <1>2, <1>3, <2>1, <2>2, <2>3 DEF OwnRows, In
<1>12. ASSUME NEW q \in Runs, q # r PROVE Grows(q)
  <2>1. Len(disc) <= Len(disc')
    BY <1>2 DEF new
  <2> QED
    BY <1>2, <1>3, <1>5, <1>12, <2>1 DEF Grows
<1> QED
  BY <1>8, <1>10, <1>11, <1>12

\* A step of an attempt touches no list but its own.
LEMMA ListsOfOthers ==
  ASSUME TypeOK, NEW r \in Runs, NEW q \in Runs, q # r, Scan(r)
  PROVE  UNCHANGED <<found[q], todo[q], open[q], seen[q]>>
<1> USE DEF TypeOK, Forget
<1>1. CASE FetchSchema(r)
  BY <1>1 DEF FetchSchema
<1>2. CASE Compare(r)
  BY <1>2 DEF Compare
<1>3. CASE ReadOpen(r)
  BY <1>3 DEF ReadOpen
<1>4. ASSUME NEW c \in todo[r], WriteChange(r, c)
      PROVE  UNCHANGED <<found[q], todo[q], open[q], seen[q]>>
  BY <1>4 DEF WriteChange
<1>5. ASSUME NEW i \in open[r], CloseStale(r, i)
      PROVE  UNCHANGED <<found[q], todo[q], open[q], seen[q]>>
  BY <1>5 DEF CloseStale
<1>6. CASE FinishScan(r)
  BY <1>6 DEF FinishScan
<1>7. CASE AttemptFails(r)
  BY <1>7 DEF AttemptFails
<1> QED
  BY <1>1, <1>2, <1>3, <1>4, <1>5, <1>6, <1>7 DEF Scan

\* The lists of an attempt and the rows, after a step of it.
LEMMA OwnStep ==
  ASSUME TypeOK, TypeOK', NoDuplicateOpen, NEW r \in Runs, ListsFit(r), ReadRows(r), OwnRows(r),
         Scan(r)
  PROVE  /\ NoDuplicateOpen' /\ ListsFit(r)' /\ ReadRows(r)' /\ OwnRows(r)'
         /\ \A q \in Runs : q # r => Grows(q)
<1> USE DEF In, Move, flowVars
<1>1. /\ r[1] \in Jobs /\ \A j \in Jobs : tries[j] \in Nat /\ tries'[j] \in Nat
      /\ place \in [Runs -> Attempt \union {"off"}] /\ found \in [Runs -> SUBSET Changes]
      /\ todo \in [Runs -> SUBSET Changes] /\ open \in [Runs -> SUBSET DOMAIN disc]
      /\ seen \in [Runs -> Nat] /\ r[2] \in Nat /\ Len(disc) \in Nat
  BY DEF TypeOK, Runs
<1>2. ASSUME disc' = disc PROVE Shrinks /\ \A q \in Runs : Grows(q)
  <2>1. Shrinks
    BY <1>2 DEF Shrinks, IsOpen
  <2> QED
    BY <2>1, ShrinkingGrows
<1>3. ASSUME disc' = disc, seen' = seen PROVE NoDuplicateOpen' /\ \A q \in Runs : Grows(q)
  BY <1>2, <1>3, ShrinkingKeeps
<1>4. CASE FetchSchema(r)
  <2>1. /\ place[r] = "fetch" /\ place' = [place EXCEPT ![r] = "compare"]
        /\ UNCHANGED <<disc, tries, found, todo, open, seen>>
    BY <1>4 DEF FetchSchema
  <2> QED
    BY <1>1, <1>3, <2>1 DEF ListsFit, ReadRows, OwnRows
<1>5. CASE Compare(r)
  <2>1. PICK S \in OnePerName, I \in OnePerProperty :
          found' = [found EXCEPT ![r] = Differences(schemas[r], S, I)]
    BY <1>5 DEF Compare
  <2>2. /\ place[r] = "compare" /\ place' = [place EXCEPT ![r] = "open"]
        /\ UNCHANGED <<disc, tries, todo, open, seen>>
    BY <1>5 DEF Compare
  <2>3. found'[r] = Differences(schemas[r], S, I) /\ todo'[r] = {} /\ place'[r] = "open"
    BY <1>1, <2>1, <2>2 DEF ListsFit
  <2>4. \A c, d \in found'[r] : Key(c) = Key(d) => c = d
    BY <2>3, DifferencesKeys
  <2> QED
    BY <1>1, <1>3, <2>2, <2>3, <2>4 DEF ListsFit, ReadRows, OwnRows
<1>6. CASE ReadOpen(r)
  <2>1. /\ place[r] = "open" /\ place'[r] = "write"
        /\ disc' = disc /\ found' = found /\ tries' = tries
        /\ open'[r] = {i \in DOMAIN disc : IsOpen(i)}
        /\ todo'[r] = found[r] /\ seen' = [seen EXCEPT ![r] = Len(disc)]
    BY <1>1, <1>6 DEF ReadOpen
  <2>2. \A i \in DOMAIN disc : disc[i].by # r
    BY <2>1 DEF OwnRows
  <2>3. \A i \in DOMAIN disc : seen'[disc[i].by] = seen[disc[i].by]
    BY <1>1, <2>1, <2>2, RowParts
  <2>4. NoDuplicateOpen'
    BY <1>2, <2>1, <2>3, ShrinkingKeeps
  <2>5. ListsFit(r)'
    BY <1>1, <2>1 DEF ListsFit
  <2>6. ReadRows(r)'
    BY <1>1, <2>1 DEF ReadRows, IsOpen
  <2>7. OwnRows(r)'
    BY <2>1, <2>2 DEF OwnRows
  <2> QED
    BY <1>2, <2>1, <2>4, <2>5, <2>6, <2>7
<1>7. ASSUME Shrinks, UNCHANGED <<place, tries, found, seen>>, place[r] = "write",
             todo'[r] \subseteq todo[r],
             \A i \in open[r] \ open'[r] : ~ IsOpen(i)'
      PROVE  /\ NoDuplicateOpen' /\ ListsFit(r)' /\ ReadRows(r)' /\ OwnRows(r)'
             /\ \A q \in Runs : q # r => Grows(q)
  <2>1. NoDuplicateOpen' /\ \A q \in Runs : Grows(q)
    BY <1>7, ShrinkingKeeps, ShrinkingGrows
  <2>2. ListsFit(r)'
    BY <1>7 DEF ListsFit
  <2>3. ReadRows(r)'
    BY <1>1, <1>7, <2>1 DEF ReadRows, Shrinks, Grows
  <2>4. Keys(todo'[r]) \subseteq Keys(todo[r])
    BY <1>7 DEF Keys
  <2>5. OwnRows(r)'
    BY <1>7, <2>4 DEF OwnRows, Shrinks
  <2> QED
    BY <2>1, <2>2, <2>3, <2>5
<1>8. ASSUME NEW c \in todo[r], WriteChange(r, c)
      PROVE  /\ NoDuplicateOpen' /\ ListsFit(r)' /\ ReadRows(r)' /\ OwnRows(r)'
             /\ \A q \in Runs : q # r => Grows(q)
  <2>1. /\ place[r] = "write" /\ todo' = [todo EXCEPT ![r] = @ \ {c}]
        /\ UNCHANGED <<place, tries, found, open, seen>>
    BY <1>8 DEF WriteChange
  <2>2. ASSUME NEW i \in Known(r, c),
               disc' = IF disc[i].status = "deleted" THEN disc ELSE [disc EXCEPT ![i].change = c]
        PROVE  Shrinks
    BY <2>2, UpdateShrinks
  <2>3. todo'[r] \subseteq todo[r]
    BY <1>1, <2>1
  <2>4. CASE Known(r, c) = {} /\ Insert(r, c)
    <3>1. ListsFit(r)'
      BY <2>1, <2>3 DEF ListsFit
    <3> QED
      BY <2>1, <2>4, <3>1, InsertKeeps
  <2> QED
    BY <1>7, <1>8, <2>1, <2>2, <2>3, <2>4 DEF WriteChange
<1>9. ASSUME NEW i \in open[r], CloseStale(r, i)
      PROVE  /\ NoDuplicateOpen' /\ ListsFit(r)' /\ ReadRows(r)' /\ OwnRows(r)'
             /\ \A q \in Runs : q # r => Grows(q)
  <2>1. /\ place[r] = "write" /\ open' = [open EXCEPT ![r] = @ \ {i}]
        /\ UNCHANGED <<place, tries, found, todo, seen>>
        /\ disc' = IF disc[i].status = "deleted" THEN disc
                   ELSE [disc EXCEPT ![i].status = "REJECTED"]
    BY <1>9 DEF CloseStale
  <2>2. i \in DOMAIN disc /\ disc[i] \in Row
    BY <1>1, ElementOfSeq DEF TypeOK
  <2>3. Shrinks
    BY <2>1, <2>2, StatusShrinks
  <2>4. ~ IsOpen(i)'
    <3>1. [disc[i] EXCEPT !.status = "REJECTED"].status = "REJECTED"
      BY <2>2 DEF Row
    <3> QED
      BY <2>1, <2>2, <3>1 DEF IsOpen
  <2>5. open[r] \ open'[r] \subseteq {i}
    BY <1>1, <2>1
  <2> QED
    BY <1>7, <2>1, <2>3, <2>4, <2>5
<1>10. ASSUME disc' = disc, Forget(r), place'[r] = "off", place[r] \in Attempt,
              tries[r[1]] <= tries'[r[1]]
       PROVE  /\ NoDuplicateOpen' /\ ListsFit(r)' /\ ReadRows(r)' /\ OwnRows(r)'
              /\ \A q \in Runs : q # r => Grows(q)
  <2>1. found'[r] = {} /\ todo'[r] = {} /\ seen' = seen
    BY <1>1, <1>10 DEF Forget
  <2>2. r[2] <= tries'[r[1]]
    BY <1>1, <1>10 DEF ListsFit, Attempt
  <2>3. ListsFit(r)' /\ OwnRows(r)'
    BY <1>10, <2>1, <2>2 DEF ListsFit, OwnRows, Keys
  <2>4. ReadRows(r)'
    BY <1>10, <2>1 DEF ReadRows
  <2> QED
    BY <1>3, <1>10, <2>1, <2>3, <2>4
<1>11. CASE FinishScan(r)
  <2>1. /\ disc' = disc /\ Forget(r) /\ place'[r] = "off" /\ place[r] \in Attempt /\ tries' = tries
    BY <1>1, <1>11 DEF FinishScan, Attempt
  <2> QED
    BY <1>1, <1>10, <2>1
<1>12. CASE AttemptFails(r)
  <2>1. disc' = disc /\ Forget(r) /\ place[r] \in Attempt
    BY <1>12 DEF AttemptFails
  <2>2. tries[r[1]] <= tries'[r[1]]
    BY <1>1, ScanMoves
  <2>3. place'[r] = "off"
    <3> DEFINE base == [place EXCEPT ![r] = "off"]
    <3>1. base \in [Runs -> Attempt \union {"off"}] /\ base[r] = "off"
      BY <1>1
    <3>2. CASE Current(r)
      <4>1. NextTry(r[1], base)
        BY <1>12, <3>2 DEF AttemptFails
      <4>2. ~ Begins(r)
        BY <1>1, <3>2 DEF Begins, Current
      <4> HIDE DEF base
      <4> QED
        BY <1>1, <3>1, <4>1, <4>2, NextTryMoves
    <3>3. CASE ~ Current(r)
      BY <1>1, <1>12, <3>3 DEF AttemptFails
    <3> QED
      BY <3>2, <3>3
  <2> QED
    BY <1>10, <2>1, <2>2, <2>3
<1> QED
  BY <1>4, <1>5, <1>6, <1>8, <1>9, <1>11, <1>12 DEF Scan

LEMMA ScanIndInv ==
  ASSUME ScanIInv, TypeOK', [Next]_vars
  PROVE  ScanIInv'
<1> USE DEF ScanIInv
<1>1. \A q \in Runs : q[1] \in Jobs
  BY DEF Runs
<1>2. ASSUME NEW r \in Runs, Scan(r) PROVE ScanIInv'
  <2>1. /\ NoDuplicateOpen' /\ ListsFit(r)' /\ ReadRows(r)' /\ OwnRows(r)'
        /\ \A q \in Runs : q # r => Grows(q)
    BY <1>2, OwnStep
  <2>2. ASSUME NEW q \in Runs, q # r PROVE ListsFit(q)' /\ ReadRows(q)' /\ OwnRows(q)'
    <3>1. UNCHANGED <<found[q], todo[q], open[q], seen[q]>>
      BY <1>2, <2>2, ListsOfOthers
    <3>2. (place'[q] = place[q] \/ Begins(q)) /\ tries[q[1]] <= tries'[q[1]]
      BY <1>1, <1>2, <2>2, ScanMoves
    <3> QED
      BY <2>1, <2>2, <3>1, <3>2, ListsFrame
  <2> QED
    BY <2>1, <2>2
<1>3. ASSUME Shrinks, UNCHANGED <<found, todo, open, seen>>,
             \A q \in Runs : place'[q] = place[q] \/ Begins(q),
             \A j \in Jobs : tries[j] <= tries'[j]
      PROVE  ScanIInv'
  <2>1. NoDuplicateOpen'
    BY <1>3, ShrinkingKeeps
  <2>2. ASSUME NEW q \in Runs PROVE ListsFit(q)' /\ ReadRows(q)' /\ OwnRows(q)'
    BY <1>1, <1>3, ShrinkingGrows, ListsFrame
  <2> QED
    BY <2>1, <2>2
<1>4. ASSUME NEW j \in Jobs, Workflow(j) PROVE ScanIInv'
  <2>1. /\ UNCHANGED <<disc, found, todo, open, seen>>
        /\ \A k \in Jobs : tries[k] <= tries'[k]
        /\ \A q \in Runs : place'[q] = place[q] \/ Begins(q)
    BY <1>4, WorkflowMoves
  <2>2. Shrinks
    BY <2>1 DEF Shrinks, IsOpen
  <2> QED
    BY <1>3, <2>1, <2>2
<1>5. CASE UserStep
  <2>1. Shrinks
    BY <1>5, UsersShrink
  <2>2. UNCHANGED <<tries, place, found, todo, open, seen>> /\ \A j \in Jobs : tries[j] \in Nat
    BY <1>5, UsersLeaveScans DEF scanVars, flowVars, listVars, TypeOK
  <2> QED
    BY <1>3, <2>1, <2>2
<1> QED
  BY <1>2, <1>4, <1>5, NextSplits

LEMMA ScanIInit == Init => ScanIInv
<1> SUFFICES ASSUME Init PROVE ScanIInv
  OBVIOUS
<1>1. /\ disc = <<>> /\ \A r \in Runs : place[r] = "off" /\ todo[r] = {} /\ found[r] = {} /\ seen[r] = 0
  BY DEF Init
<1> QED
  BY <1>1, InitTypes DEF ScanIInv, NoDuplicateOpen, ListsFit, ReadRows, OwnRows, In

\* "eliminating any duplicates" (processDiscoveries): whatever attempts fail half way, are
\* given up and go on, and whatever users decide and delete meanwhile, two open discoveries
\* say the same only if two attempts overlapped and the one that inserted the second had
\* read the open ones before the first was there.
THEOREM NoDuplicates == Spec => []NoDuplicateOpen
<1>1. Init => ScanIInv
  BY ScanIInit
<1>2. ScanIInv /\ TypeOK' /\ [Next]_vars => ScanIInv'
  BY ScanIndInv
<1>3. ScanIInv => NoDuplicateOpen
  BY DEF ScanIInv
<1> QED
  BY <1>1, <1>2, <1>3, DiscoveryTypes, PTL DEF Spec

-----------------------------------------------------------------------------
(* What a scan accounts for. *)

\* The differences of each type.
LEMMA DifferencesByType ==
  ASSUME NEW schema, NEW S, NEW I
  PROVE  LET mapped == {s \in S : sources[s] \in DOMAIN schema}
             D      == Differences(schema, S, I)
         IN  /\ {c \in D : c.type = "DATA_SOURCE_FOUND"} =
                  {Change("DATA_SOURCE_FOUND", 0, n, schema[n]) :
                     n \in DOMAIN schema \ {sources[s] : s \in S}}
             /\ {c \in D : c.type = "DATA_SOURCE_MISSING"} =
                  {Change("DATA_SOURCE_MISSING", s, None, {}) : s \in DOMAIN sources \ mapped}
             /\ {c \in D : c.type = "PROPERTY_FOUND"} =
                  UNION {{Change("PROPERTY_FOUND", s, p, {}) :
                            p \in schema[sources[s]] \ NamesOf(PropsOf(s))} : s \in mapped}
             /\ {c \in D : c.type = "PROPERTY_MISSING"} =
                  {Change("PROPERTY_MISSING", i, None, {}) :
                     i \in {k \in I : /\ props[k].source \in mapped
                                      /\ props[k].name \notin schema[sources[props[k].source]]}}
<1> DEFINE mapped == {s \in S : sources[s] \in DOMAIN schema}
           F == {Change("DATA_SOURCE_FOUND", 0, n, schema[n]) :
                   n \in DOMAIN schema \ {sources[s] : s \in S}}
           M == {Change("DATA_SOURCE_MISSING", s, None, {}) : s \in DOMAIN sources \ mapped}
           P == UNION {{Change("PROPERTY_FOUND", s, p, {}) :
                          p \in schema[sources[s]] \ NamesOf(PropsOf(s))} : s \in mapped}
           Q == {Change("PROPERTY_MISSING", i, None, {}) :
                   i \in {k \in I : /\ props[k].source \in mapped
                                    /\ props[k].name \notin schema[sources[props[k].source]]}}
<1>1. Differences(schema, S, I) = F \union M \union P \union Q
  BY DEF Differences
<1>2. \A t, i, n, X : Change(t, i, n, X).type = t
  BY DEF Change
<1>3. /\ \A c \in F : c.type = "DATA_SOURCE_FOUND"
      /\ \A c \in M : c.type = "DATA_SOURCE_MISSING"
      /\ \A c \in P : c.type = "PROPERTY_FOUND"
      /\ \A c \in Q : c.type = "PROPERTY_MISSING"
  BY <1>2
<1> HIDE DEF F, M, P, Q
<1>4. LET D == F \union M \union P \union Q
      IN  /\ {c \in D : c.type = "DATA_SOURCE_FOUND"} = F
          /\ {c \in D : c.type = "DATA_SOURCE_MISSING"} = M
          /\ {c \in D : c.type = "PROPERTY_FOUND"} = P
          /\ {c \in D : c.type = "PROPERTY_MISSING"} = Q
  BY <1>3
<1> QED
  BY <1>1, <1>4 DEF F, M, P, Q

LEMMA OpenByType ==
  ASSUME NEW t
  PROVE  Open(t) = {c \in AllOpen : c.type = t}
BY DEF Open, AllOpen

\* A set that has the keys of what is open has its types, ids and names.
LEMMA SameKeys ==
  ASSUME NEW C, Keys(AllOpen) \subseteq Keys(C), NEW c \in AllOpen
  PROVE  \E d \in C : d.type = c.type /\ d.id = c.id /\ d.name = c.name
<1>1. Key(c) \in Keys(C)
  BY DEF Keys
<1>2. PICK d \in C : Key(c) = Key(d)
  BY <1>1 DEF Keys
<1> QED
  BY <1>2 DEF Key

\* When what is open covers the differences, accepting it closes every gap.
LEMMA DifferencesAccount ==
  ASSUME NEW schema, NoTwins, Covered(schema)
  PROVE  LET new == Open("DATA_SOURCE_FOUND") IN
         /\ DOMAIN schema = {sources[s] : s \in Kept} \union {c.name : c \in new}
         /\ \A s \in Kept : schema[sources[s]] = KeptProps(s) \union NewProps(s)
         /\ \A c \in new : Change("DATA_SOURCE_FOUND", 0, c.name, schema[c.name]) \in new
<1>1. PICK C \in SUBSET AllOpen : IsDifference(C, schema) /\ Keys(AllOpen) \subseteq Keys(C)
  BY DEF Covered
<1>2. PICK S \in OnePerName, I \in OnePerProperty : C = Differences(schema, S, I)
  BY <1>1 DEF IsDifference
<1> DEFINE mapped == {s \in S : sources[s] \in DOMAIN schema}
           gone   == {k \in I : /\ props[k].source \in mapped
                                /\ props[k].name \notin schema[sources[props[k].source]]}
           Of(t)  == {c \in C : c.type = t}
<1>3. /\ S \subseteq DOMAIN sources
      /\ I \subseteq DOMAIN props
      /\ \A i \in DOMAIN props : \E k \in I : props[k] = props[i]
  BY DEF OnePerName, OnePerProperty
<1>4. Of("DATA_SOURCE_FOUND") = {Change("DATA_SOURCE_FOUND", 0, n, schema[n]) :
                                   n \in DOMAIN schema \ {sources[s] : s \in S}}
  BY <1>2, DifferencesByType
<1>5. Of("DATA_SOURCE_MISSING") =
        {Change("DATA_SOURCE_MISSING", s, None, {}) : s \in DOMAIN sources \ mapped}
  BY <1>2, DifferencesByType
<1>6. Of("PROPERTY_FOUND") =
        UNION {{Change("PROPERTY_FOUND", s, p, {}) :
                  p \in schema[sources[s]] \ NamesOf(PropsOf(s))} : s \in mapped}
  BY <1>2, DifferencesByType
<1>7. Of("PROPERTY_MISSING") = {Change("PROPERTY_MISSING", i, None, {}) : i \in gone}
  BY <1>2, DifferencesByType
<1>8. \A t, i, n, X : LET c == Change(t, i, n, X)
                      IN  c.type = t /\ c.id = i /\ c.name = n /\ c.props = X
  BY DEF Change
<1>9. ASSUME NEW t
      PROVE  /\ {c.id : c \in Open(t)} = {c.id : c \in Of(t)}
             /\ {c.name : c \in Open(t)} = {c.name : c \in Of(t)}
  <2>1. Open(t) = {x \in AllOpen : x.type = t}
    BY OpenByType
  <2>2. \A c \in Of(t) : c \in Open(t)
    BY <1>1, <2>1
  <2>3. Keys(AllOpen) \subseteq Keys(C)
    BY <1>1
  <2>4. ASSUME NEW c \in Open(t)
        PROVE  \E d \in Of(t) : d.id = c.id /\ d.name = c.name
    <3>1. c \in AllOpen /\ c.type = t
      BY <2>1
    <3>2. PICK d \in C : d.type = c.type /\ d.id = c.id /\ d.name = c.name
      BY <2>3, <3>1, SameKeys
    <3> QED
      BY <3>1, <3>2
  <2> HIDE DEF Of
  <2> QED
    BY <2>2, <2>4
<1>10. {c.id : c \in Open("DATA_SOURCE_MISSING")} = DOMAIN sources \ mapped
  <2>1. {c.id : c \in Of("DATA_SOURCE_MISSING")} = DOMAIN sources \ mapped
    BY <1>5, <1>8
  <2> HIDE DEF Of, mapped
  <2> QED
    BY <1>9, <2>1
<1>11. Kept = mapped
  BY <1>3, <1>10 DEF Kept
<1>12. {c.name : c \in Open("DATA_SOURCE_FOUND")} = DOMAIN schema \ {sources[s] : s \in S}
  <2>1. {c.name : c \in Of("DATA_SOURCE_FOUND")} = DOMAIN schema \ {sources[s] : s \in S}
    BY <1>4, <1>8
  <2> HIDE DEF Of
  <2> QED
    BY <1>9, <2>1
<1>13. DOMAIN schema =
         {sources[s] : s \in Kept} \union {c.name : c \in Open("DATA_SOURCE_FOUND")}
  <2> HIDE DEF Kept
  <2> QED
    BY <1>11, <1>12
<1>14. ASSUME NEW c \in Open("DATA_SOURCE_FOUND")
       PROVE  Change("DATA_SOURCE_FOUND", 0, c.name, schema[c.name]) \in Open("DATA_SOURCE_FOUND")
  <2>1. c.name \in DOMAIN schema \ {sources[s] : s \in S}
    BY <1>12
  <2>2. Change("DATA_SOURCE_FOUND", 0, c.name, schema[c.name]) \in Of("DATA_SOURCE_FOUND")
    BY <1>4, <2>1
  <2> QED
    BY <1>1, <2>2, OpenByType
<1>15. ASSUME NEW s \in mapped
       PROVE  /\ NewProps(s) = schema[sources[s]] \ NamesOf(PropsOf(s))
              /\ KeptProps(s) = NamesOf(PropsOf(s)) \intersect schema[sources[s]]
  <2>1. ASSUME NEW p PROVE p \in NewProps(s) <=> p \in schema[sources[s]] \ NamesOf(PropsOf(s))
    <3>1. p \in NewProps(s) <=> \E c \in Open("PROPERTY_FOUND") : c.id = s /\ c.name = p
      BY DEF NewProps
    <3>2. (\E c \in Open("PROPERTY_FOUND") : c.id = s /\ c.name = p) <=>
            \E c \in Of("PROPERTY_FOUND") : c.id = s /\ c.name = p
      <4>1. \A c \in Open("PROPERTY_FOUND") : c \in AllOpen /\ c.type = "PROPERTY_FOUND"
        BY OpenByType
      <4>2. \A c \in Of("PROPERTY_FOUND") : c \in Open("PROPERTY_FOUND")
        BY <1>1, OpenByType
      <4>4. ASSUME NEW c \in Open("PROPERTY_FOUND"), c.id = s, c.name = p
            PROVE  \E d \in Of("PROPERTY_FOUND") : d.id = s /\ d.name = p
        <5>1. PICK d \in C : d.type = c.type /\ d.id = c.id /\ d.name = c.name
          BY <1>1, <4>1, SameKeys
        <5>2. d \in Of("PROPERTY_FOUND")
          BY <4>1, <5>1
        <5> QED
          BY <4>4, <5>1, <5>2
      <4> HIDE DEF Of
      <4> QED
        BY <4>2, <4>4
    <3>3. (\E c \in Of("PROPERTY_FOUND") : c.id = s /\ c.name = p) <=>
            p \in schema[sources[s]] \ NamesOf(PropsOf(s))
      BY <1>6, <1>8
    <3> QED
      BY <3>1, <3>2, <3>3
  <2>2. {c.id : c \in Open("PROPERTY_MISSING")} = gone
    <3>1. {c.id : c \in Of("PROPERTY_MISSING")} = gone
      BY <1>7, <1>8
    <3> HIDE DEF Of, gone
    <3> QED
      BY <1>9, <3>1
  <2>3. KeptProps(s) = {props[i].name : i \in PropsOf(s) \ gone}
    BY <2>2 DEF KeptProps
  <2>4. ASSUME NEW i \in PropsOf(s)
        PROVE  i \in gone <=> props[i].name \notin schema[sources[s]]
    <3>1. i \in DOMAIN props /\ props[i].source = s
      BY DEF PropsOf
    <3>2. i \in I
      BY <1>3, <3>1 DEF NoTwins
    <3> QED
      BY <3>1, <3>2
  <2> HIDE DEF gone
  <2>5. KeptProps(s) = NamesOf(PropsOf(s)) \intersect schema[sources[s]]
    BY <2>3, <2>4 DEF NamesOf
  <2> QED
    BY <2>1, <2>5
<1>16. \A s \in Kept : schema[sources[s]] = KeptProps(s) \union NewProps(s)
  BY <1>11, <1>15
<1> QED
  BY <1>13, <1>14, <1>16

\* The differences stay what they are while the map does.
LEMMA MapFrame ==
  ASSUME UNCHANGED <<sources, props>>
  PROVE  \A C, schema : IsDifference(C, schema)' <=> IsDifference(C, schema)
<1>1. OnePerName' = OnePerName /\ OnePerProperty' = OnePerProperty
  BY DEF OnePerName, OnePerProperty
<1>2. \A s : PropsOf(s)' = PropsOf(s)
  BY DEF PropsOf
<1>3. \A X : NamesOf(X)' = NamesOf(X)
  BY DEF NamesOf
<1>4. ASSUME NEW schema, NEW S, NEW I
      PROVE  Differences(schema, S, I)' = Differences(schema, S, I)
  BY <1>2, <1>3 DEF Differences, Change
<1> QED
  BY <1>1, <1>4 DEF IsDifference

\* An attempt that is not moved and that finds map and rows as they were.
LEMMA AccountsFrame ==
  ASSUME TypeOK, TypeOK', NEW q \in Runs, Accounts(q),
         UNCHANGED <<sources, props, disc, found[q], todo[q], open[q]>>,
         clean'[q] => clean[q] /\ schemas'[q] = schemas[q],
         place'[q] = place[q] \/ Begins(q), tries[q[1]] <= tries'[q[1]]
  PROVE  Accounts(q)'
<1>1. AllOpen' = AllOpen
  BY DEF AllOpen, IsOpen
<1>2. Tallied(q)' <=> Tallied(q)
  BY <1>1 DEF Tallied, IsOpen
<1>3. \A schema : Covered(schema)' <=> Covered(schema)
  BY <1>1, MapFrame DEF Covered
<1>4. q[1] \in Jobs /\ q[2] \in Nat /\ tries[q[1]] \in Nat /\ tries'[q[1]] \in Nat
  BY DEF TypeOK, Runs
<1> SUFFICES ASSUME clean'[q] PROVE Accounts(q)'
  BY DEF Accounts
<1>5. clean[q] /\ schemas'[q] = schemas[q] /\ q[2] <= tries[q[1]]
  BY DEF Accounts
<1>6. place'[q] = place[q] /\ q[2] <= tries'[q[1]]
  BY <1>4, <1>5 DEF Begins
<1> QED
  BY <1>2, <1>3, <1>5, <1>6, MapFrame DEF Accounts, In

\* A discovery that is updated: nothing else that was written has its key.
LEMMA UpdateTallies ==
  ASSUME ScanIInv, NEW r \in Runs, Tallied(r),
         NEW c \in todo[r], NEW i \in Known(r, c),
         disc' = IF disc[i].status = "deleted" THEN disc ELSE [disc EXCEPT ![i].change = c],
         todo' = [todo EXCEPT ![r] = @ \ {c}], UNCHANGED <<found, open>>
  PROVE  Tallied(r)'
<1> DEFINE written == found[r] \ todo[r]
<1>1. i \in open[r] /\ Key(disc[i].change) = Key(c) /\ i \in DOMAIN disc /\ IsOpen(i)
  BY DEF Known, ScanIInv, TypeOK, Tallied
<1>2. disc' = [disc EXCEPT ![i].change = c]
  BY <1>1 DEF IsOpen
<1>3. /\ DOMAIN disc' = DOMAIN disc
      /\ \A k \in DOMAIN disc \ {i} : disc'[k] = disc[k]
      /\ disc'[i].change = c /\ disc'[i].status = "OPEN"
  <2>1. disc[i] \in Row
    BY <1>1, ElementOfSeq DEF ScanIInv, TypeOK
  <2> QED
    BY <1>1, <1>2, <2>1 DEF Row, IsOpen
<1>4. c \in found[r] /\ todo'[r] = todo[r] \ {c} /\ found'[r] = found[r] /\ open'[r] = open[r]
  BY DEF ScanIInv, ListsFit, TypeOK
<1>5. found'[r] \ todo'[r] = written \union {c}
  BY <1>4
<1>6. \A k \in DOMAIN disc : IsOpen(k)' <=> IsOpen(k)
  BY <1>1, <1>3 DEF IsOpen
<1>7. open[r] \subseteq DOMAIN disc
  BY DEF ScanIInv, TypeOK
<1>8. \A k \in open'[r] : IsOpen(k)'
  BY <1>4, <1>6, <1>7 DEF Tallied
<1>9. \A k \in DOMAIN disc' : IsOpen(k)' => k \in open'[r] \/ disc'[k].change \in written \union {c}
  BY <1>3, <1>4, <1>6 DEF Tallied
<1>10. ASSUME NEW d \in written \union {c} PROVE d \in AllOpen'
  <2>1. CASE d = c
    BY <1>1, <1>3, <1>6, <2>1 DEF AllOpen
  <2>2. CASE d \in written
    <3>1. PICK k \in DOMAIN disc : IsOpen(k) /\ disc[k].change = d
      BY <2>2 DEF Tallied, AllOpen
    <3>2. k # i
      <4>1. SUFFICES ASSUME k = i PROVE FALSE
        OBVIOUS
      <4>2. Key(d) = Key(c) /\ d \in found[r] /\ d # c
        BY <1>1, <2>2, <3>1, <4>1
      <4> QED
        BY <1>4, <4>2 DEF ScanIInv, ListsFit
    <3> QED
      BY <1>3, <1>6, <3>1, <3>2 DEF AllOpen
  <2> QED
    BY <2>1, <2>2
<1> HIDE DEF written
<1> QED
  BY <1>5, <1>8, <1>9, <1>10 DEF Tallied

\* A discovery that is inserted.
LEMMA InsertTallies ==
  ASSUME ScanIInv, NEW r \in Runs, Tallied(r), NEW c \in todo[r], Insert(r, c),
         todo' = [todo EXCEPT ![r] = @ \ {c}], UNCHANGED <<found, open>>
  PROVE  Tallied(r)'
<1> DEFINE written == found[r] \ todo[r]
           new     == Len(disc')
<1>1. c \in Changes /\ TypeOK
  BY DEF ScanIInv, TypeOK
<1>2. /\ DOMAIN disc' = DOMAIN disc \union {new}
      /\ \A i \in DOMAIN disc : disc'[i] = disc[i]
      /\ disc'[new] = [change |-> c, status |-> "OPEN", by |-> r]
  BY <1>1, RowInsert
<1> HIDE DEF new
<1>3. disc'[new].change = c /\ disc'[new].status = "OPEN"
  BY <1>2
<1>4. c \in found[r] /\ todo'[r] = todo[r] \ {c} /\ found'[r] = found[r] /\ open'[r] = open[r]
  BY DEF ScanIInv, ListsFit, TypeOK
<1>5. found'[r] \ todo'[r] = written \union {c}
  BY <1>4
<1>6. \A i \in DOMAIN disc : IsOpen(i)' <=> IsOpen(i)
  BY <1>2 DEF IsOpen
<1>7. open[r] \subseteq DOMAIN disc
  BY DEF ScanIInv, TypeOK
<1>8. \A i \in open'[r] : IsOpen(i)'
  BY <1>4, <1>6, <1>7 DEF Tallied
<1>9. \A i \in DOMAIN disc' : IsOpen(i)' => i \in open'[r] \/ disc'[i].change \in written \union {c}
  BY <1>2, <1>3, <1>4, <1>6 DEF Tallied
<1>10. ASSUME NEW d \in written \union {c} PROVE d \in AllOpen'
  <2>1. CASE d = c
    BY <1>2, <1>3, <2>1 DEF AllOpen, IsOpen
  <2>2. CASE d \in written
    <3>1. PICK k \in DOMAIN disc : IsOpen(k) /\ disc[k].change = d
      BY <2>2 DEF Tallied, AllOpen
    <3> QED
      BY <1>2, <1>6, <3>1 DEF AllOpen
  <2> QED
    BY <2>1, <2>2
<1> HIDE DEF written
<1> QED
  BY <1>5, <1>8, <1>9, <1>10 DEF Tallied

\* A discovery that is closed corresponds to nothing that was found.
LEMMA CloseTallies ==
  ASSUME ScanIInv, NEW r \in Runs, NEW i \in open[r], CloseStale(r, i), Tallied(r)
  PROVE  Tallied(r)'
<1>1. i \in DOMAIN disc /\ IsOpen(i) /\ open[r] \subseteq DOMAIN disc
  BY DEF ScanIInv, TypeOK, Tallied
<1>2. Key(disc[i].change) \notin Keys(found[r])
  BY DEF CloseStale, Stale
<1>3. disc' = [disc EXCEPT ![i].status = "REJECTED"]
  BY <1>1 DEF CloseStale, IsOpen
<1>4. /\ DOMAIN disc' = DOMAIN disc
      /\ \A k \in DOMAIN disc \ {i} : disc'[k] = disc[k]
      /\ disc'[i].status = "REJECTED"
  <2>1. disc[i] \in Row
    BY <1>1, ElementOfSeq DEF ScanIInv, TypeOK
  <2> QED
    BY <1>1, <1>3, <2>1 DEF Row
<1>5. open'[r] = open[r] \ {i} /\ found' = found /\ todo' = todo
  BY DEF CloseStale, ScanIInv, TypeOK
<1>6. ~ IsOpen(i)' /\ \A k \in DOMAIN disc \ {i} : IsOpen(k)' <=> IsOpen(k)
  BY <1>4 DEF IsOpen
<1>7. ASSUME NEW d \in found[r] \ todo[r] PROVE d \in AllOpen'
  <2>1. PICK k \in DOMAIN disc : IsOpen(k) /\ disc[k].change = d
    BY DEF Tallied, AllOpen
  <2>2. k # i
    BY <1>2, <2>1 DEF Keys
  <2> QED
    BY <1>4, <1>6, <2>1, <2>2 DEF AllOpen
<1> QED
  BY <1>1, <1>4, <1>5, <1>6, <1>7 DEF Tallied

\* When nothing is left to write and to close, the rows that are open cover what was found.
LEMMA TalliedAtEnd ==
  ASSUME NEW r \in Runs, Tallied(r), todo[r] = {}, Stale(r) = {}
  PROVE  found[r] \subseteq AllOpen /\ Keys(AllOpen) \subseteq Keys(found[r])
<1>1. found[r] \subseteq AllOpen
  BY DEF Tallied
<1>2. ASSUME NEW i \in DOMAIN disc, IsOpen(i) PROVE Key(disc[i].change) \in Keys(found[r])
  <2>1. CASE i \in open[r]
    BY <2>1 DEF Stale
  <2>2. CASE i \notin open[r]
    BY <1>2, <2>2 DEF Tallied, Keys
  <2> QED
    BY <2>1, <2>2
<1> QED
  BY <1>1, <1>2 DEF AllOpen, Keys

\* A step of the attempt itself.
LEMMA AccountsStep ==
  ASSUME ScanIInv, TypeOK', NEW r \in Runs, Accounts(r), Scan(r)
  PROVE  Accounts(r)'
<1> USE DEF In, Move
<1>1. /\ r[1] \in Jobs /\ r[2] \in Nat /\ tries[r[1]] \in Nat
      /\ place \in [Runs -> Attempt \union {"off"}] /\ clean \in [Runs -> BOOLEAN]
      /\ found \in [Runs -> SUBSET Changes] /\ TypeOK
      /\ place[r] # "off" => r[2] <= tries[r[1]]
  BY DEF ScanIInv, TypeOK, Runs, ListsFit
<1>2. ASSUME ~ clean'[r] PROVE Accounts(r)'
  BY <1>2 DEF Accounts
<1>3. CASE FetchSchema(r)
  <2>1. place[r] = "fetch" /\ clean' = clean
    BY <1>3 DEF FetchSchema
  <2> QED
    BY <1>2, <2>1 DEF Accounts
<1>4. CASE Compare(r)
  <2>1. PICK S \in OnePerName, I \in OnePerProperty :
          found' = [found EXCEPT ![r] = Differences(schemas[r], S, I)]
    BY <1>4 DEF Compare
  <2>2. /\ place[r] = "compare" /\ place'[r] = "open"
        /\ schemas' = schemas /\ UNCHANGED <<sources, props, tries>>
    BY <1>1, <1>4 DEF Compare, mapVars, flowVars
  <2>3. found'[r] = Differences(schemas[r], S, I)
    BY <1>1, <2>1
  <2>4. IsDifference(found'[r], schemas[r])
    BY <2>3 DEF IsDifference
  <2>5. IsDifference(found[r], schemas[r])'
    BY <2>2, <2>4, MapFrame
  <2> QED
    BY <1>1, <2>2, <2>5 DEF Accounts
<1>5. CASE ReadOpen(r)
  <2>1. /\ place[r] = "open" /\ place'[r] = "write"
        /\ open'[r] = {i \in DOMAIN disc : IsOpen(i)} /\ todo'[r] = found[r]
        /\ UNCHANGED <<sources, props, disc, schemas, found, clean, tries>>
    BY <1>1, <1>5 DEF ReadOpen, mapVars, flowVars, TypeOK
  <2>2. Tallied(r)'
    BY <2>1 DEF Tallied, IsOpen
  <2>3. clean[r] => IsDifference(found[r], schemas[r])'
    BY <2>1, MapFrame DEF Accounts
  <2> QED
    BY <1>1, <2>1, <2>2, <2>3 DEF Accounts
<1>6. ASSUME place[r] = "write", UNCHANGED <<place, tries, sources, props, schemas, found>>,
             clean'[r] => clean[r], Tallied(r) => Tallied(r)'
      PROVE  Accounts(r)'
  BY <1>6, MapFrame DEF Accounts
<1>7. ASSUME NEW c \in todo[r], WriteChange(r, c) PROVE Accounts(r)'
  <2>1. /\ place[r] = "write" /\ UNCHANGED <<place, tries, sources, props, schemas, found, open>>
        /\ todo' = [todo EXCEPT ![r] = @ \ {c}]
        /\ clean'[r] => clean[r]
    BY <1>7 DEF WriteChange, Disturb, mapVars, flowVars
  <2>2. ASSUME Tallied(r), NEW i \in Known(r, c),
               disc' = IF disc[i].status = "deleted" THEN disc ELSE [disc EXCEPT ![i].change = c]
        PROVE  Tallied(r)'
    BY <2>1, <2>2, UpdateTallies
  <2>3. ASSUME Tallied(r), Insert(r, c) PROVE Tallied(r)'
    BY <2>1, <2>3, InsertTallies
  <2> QED
    BY <1>6, <1>7, <2>1, <2>2, <2>3 DEF WriteChange
<1>8. ASSUME NEW i \in open[r], CloseStale(r, i) PROVE Accounts(r)'
  <2>1. /\ place[r] = "write" /\ UNCHANGED <<place, tries, sources, props, schemas, found>>
        /\ clean'[r] => clean[r]
    BY <1>8 DEF CloseStale, Disturb, mapVars, flowVars
  <2> QED
    BY <1>6, <1>8, <2>1, CloseTallies
<1>9. CASE FinishScan(r)
  <2>1. /\ place[r] = "write" /\ place'[r] = "off" /\ todo[r] = {} /\ Stale(r) = {}
        /\ UNCHANGED <<sources, props, disc, tries>>
    BY <1>1, <1>9 DEF FinishScan, mapVars
  <2>2. CASE Current(r)
    <3>1. UNCHANGED <<schemas, clean>>
      BY <1>9, <2>2 DEF FinishScan
    <3>2. clean[r] => /\ IsDifference(found[r], schemas[r])
                      /\ found[r] \subseteq AllOpen /\ Keys(AllOpen) \subseteq Keys(found[r])
      BY <2>1, TalliedAtEnd DEF Accounts
    <3>3. clean[r] => Covered(schemas[r])
      BY <3>2 DEF Covered
    <3>4. AllOpen' = AllOpen
      BY <2>1 DEF AllOpen, IsOpen
    <3>5. \A schema : Covered(schema)' <=> Covered(schema)
      BY <2>1, <3>4, MapFrame DEF Covered
    <3> QED
      BY <1>1, <2>1, <3>1, <3>3, <3>5 DEF Accounts
  <2>3. CASE ~ Current(r)
    BY <1>1, <1>2, <1>9, <2>3 DEF FinishScan, ForgetSchema
  <2> QED
    BY <2>2, <2>3
<1>10. CASE AttemptFails(r)
  BY <1>1, <1>2, <1>10 DEF AttemptFails, ForgetSchema
<1> QED
  BY <1>3, <1>4, <1>5, <1>7, <1>8, <1>9, <1>10 DEF Scan

\* An attempt that writes spoils the view of the others; one that does not leaves it.
LEMMA OthersAccount ==
  ASSUME TypeOK, TypeOK', NEW r \in Runs, NEW q \in Runs, q # r, Accounts(q), Scan(r)
  PROVE  Accounts(q)'
<1> USE DEF mapVars
<1>1. /\ UNCHANGED <<found[q], todo[q], open[q]>>
      /\ place'[q] = place[q] \/ Begins(q)
      /\ tries[q[1]] <= tries'[q[1]]
  BY ListsOfOthers, ScanMoves DEF Runs
<1>2. ASSUME UNCHANGED <<mapVars, disc>>, schemas'[q] = schemas[q], clean'[q] = clean[q]
      PROVE  Accounts(q)'
  BY <1>1, <1>2, AccountsFrame
<1>3. ASSUME ~ clean'[q] PROVE Accounts(q)'
  BY <1>3 DEF Accounts
<1>4. /\ schemas \in [Runs -> Schemas] /\ clean \in [Runs -> BOOLEAN]
  BY DEF TypeOK
<1>5. ASSUME ForgetSchema(r) PROVE schemas'[q] = schemas[q] /\ clean'[q] = clean[q]
  BY <1>4, <1>5 DEF ForgetSchema
<1>6. CASE FetchSchema(r)
  BY <1>2, <1>4, <1>6 DEF FetchSchema
<1>7. CASE Compare(r) \/ ReadOpen(r)
  BY <1>2, <1>4, <1>7 DEF Compare, ReadOpen
<1>8. CASE FinishScan(r)
  BY <1>2, <1>5, <1>8 DEF FinishScan
<1>9. CASE AttemptFails(r)
  BY <1>2, <1>5, <1>9 DEF AttemptFails
<1>10. ASSUME NEW c \in todo[r], WriteChange(r, c) PROVE Accounts(q)'
  BY <1>3, <1>10 DEF WriteChange, Disturb
<1>11. ASSUME NEW i \in open[r], CloseStale(r, i) PROVE Accounts(q)'
  BY <1>3, <1>11 DEF CloseStale, Disturb
<1> QED
  BY <1>6, <1>7, <1>8, <1>9, <1>10, <1>11 DEF Scan

\* A workflow writes nothing of the map; at its end it forgets what its attempt has seen.
LEMMA WorkflowAccounts ==
  ASSUME TypeOK, TypeOK', NEW j \in Jobs, NEW q \in Runs, Accounts(q), Workflow(j)
  PROVE  Accounts(q)'
<1>1. /\ UNCHANGED <<mapVars, disc, found, todo, open>>
      /\ place'[q] = place[q] \/ Begins(q)
      /\ tries[q[1]] <= tries'[q[1]]
  BY WorkflowMoves DEF Runs
<1>2. clean'[q] => clean[q] /\ schemas'[q] = schemas[q]
  <2>1. CASE UNCHANGED <<clean, schemas>>
    BY <2>1
  <2>2. CASE UpdateJobStatus(j) /\ ForgetSchema(<<j, tries[j]>>)
    BY <2>2 DEF ForgetSchema, TypeOK
  <2> QED
    BY <2>1, <2>2 DEF Workflow, StartScan, EndTransaction, FindOrCreateJob, FindFails, CreateLate,
                      GiveUp, UpdateJobStatus, listVars
<1> QED
  BY <1>1, <1>2, AccountsFrame DEF mapVars

\* Users who write spoil the view too.
LEMMA UsersAccount ==
  ASSUME TypeOK, TypeOK', NEW q \in Runs, Accounts(q), UserStep
  PROVE  Accounts(q)'
<1>1. UNCHANGED scanVars
  BY UsersLeaveScans
<1>2. CASE UNCHANGED <<mapVars, disc, clean>>
  <2>1. tries[q[1]] <= tries'[q[1]]
    BY <1>1 DEF scanVars, flowVars, TypeOK, Runs
  <2> QED
    BY <1>1, <1>2, <2>1, AccountsFrame DEF scanVars, listVars, mapVars
<1>3. CASE ~ clean'[q]
  BY <1>3 DEF Accounts
<1>4. ASSUME NEW u \in Users, Call(u) PROVE Accounts(q)'
  <2>1. ASSUME NEW x \in batch[u], NEW st, ApplyItem(u, x, st) PROVE Accounts(q)'
    BY <1>3, <2>1 DEF ApplyItem
  <2>2. ASSUME NEW x \in batch[u],
               \/ Reject(u, x) \/ AcceptDataSource(u, x) \/ AcceptProperty(u, x)
               \/ AcceptDataSourceMissing(u, x) \/ AcceptPropertyMissing(u, x)
        PROVE  Accounts(q)'
    BY <2>1, <2>2 DEF Reject, AcceptDataSource, AcceptProperty, AcceptDataSourceMissing,
                      AcceptPropertyMissing
  <2>3. ASSUME NEW x \in batch[u], AcceptFails(u, x) PROVE Accounts(q)'
    BY <1>2, <2>3 DEF AcceptFails
  <2>4. ASSUME NEW a \in {"ACCEPT", "REJECT"},
               HandleAllOpenDiscoveries(u, a) \/ \E i \in DOMAIN disc : HandleDiscovery(u, i, a)
        PROVE  Accounts(q)'
    BY <1>2, <2>4 DEF HandleAllOpenDiscoveries, HandleDiscovery
  <2> QED
    BY <1>4, <2>2, <2>3, <2>4 DEF Call
<1>5. CASE (\E s \in DOMAIN sources : DeleteDataSource(s)) \/ \E i \in DOMAIN props : DeleteProperty(i)
  BY <1>3, <1>5 DEF DeleteDataSource, DeleteProperty
<1>6. CASE SiloChanges \/ UNCHANGED vars
  BY <1>2, <1>6 DEF SiloChanges, vars
<1> QED
  BY <1>4, <1>5, <1>6 DEF UserStep

\* A scan whose last attempt is over keeps it so; and it is over when that attempt finishes.
LEMMA ScanRests ==
  ASSUME TypeOK, NEW r \in Runs, Scan(r), NEW j \in Jobs, Rests(j)
  PROVE  Rests(j)'
<1> USE DEF In, Move, At
<1>1. /\ r[1] \in Jobs /\ r[2] \in 1 .. MaxTries /\ r = <<r[1], r[2]>>
      /\ pc \in [Jobs -> Flow] /\ tries \in [Jobs -> 0 .. MaxTries]
      /\ place \in [Runs -> Attempt \union {"off"}]
  BY DEF TypeOK, Runs
<1>2. Onward(j)
  BY ScanMoves
<1>3. place[r] # "off"
  BY DEF Scan, FetchSchema, Compare, ReadOpen, WriteChange, CloseStale, FinishScan, AttemptFails,
         Attempt
<1>4. CASE UNCHANGED <<pc[j], tries[j]>>
  <2> SUFFICES ASSUME pc[j] = "scanned" PROVE tries[j] > 0 /\ place'[<<j, tries[j]>>] = "off"
    BY <1>4 DEF Rests
  <2>1. tries[j] > 0 /\ place[<<j, tries[j]>>] = "off"
    BY DEF Rests
  <2>2. <<j, tries[j]>> \in Runs /\ <<j, tries[j]>> # r
    BY <1>1, <1>3, <2>1 DEF Runs
  <2>3. ~ Begins(<<j, tries[j]>>)
    BY <1>1 DEF Begins
  <2> QED
    BY <2>1, <2>2, <2>3, ScanMoves
<1>5. CASE pc[j] = "detect" /\ pc'[j] = "scanned" /\ tries'[j] = tries[j]
  <2>1. pc' # pc
    BY <1>5
  <2>2. FinishScan(r) \/ AttemptFails(r)
    BY <2>1 DEF Scan, FetchSchema, Compare, ReadOpen, WriteChange, CloseStale, flowVars
  <2>3. ~ AttemptFails(r)
    BY <1>1, <1>5 DEF AttemptFails, NextTry, Goto
  <2>4. Current(r) /\ pc' = [pc EXCEPT ![r[1]] = "scanned"] /\ place' = [place EXCEPT ![r] = "off"]
    BY <2>1, <2>2, <2>3 DEF FinishScan, Goto
  <2>5. r[1] = j /\ r[2] = tries[j]
    BY <1>1, <1>5, <2>4 DEF Current
  <2> QED
    BY <1>1, <1>5, <2>4, <2>5 DEF Rests
<1>6. CASE pc'[j] # "scanned"
  BY <1>6 DEF Rests
<1> QED
  BY <1>2, <1>4, <1>5, <1>6 DEF Onward

LEMMA WorkflowRests ==
  ASSUME TypeOK, NEW k \in Jobs, Workflow(k), NEW j \in Jobs, Rests(j)
  PROVE  Rests(j)'
<1> USE DEF In, At
<1>1. /\ pc \in [Jobs -> Flow] /\ tries \in [Jobs -> 0 .. MaxTries]
      /\ place \in [Runs -> Attempt \union {"off"}]
  BY DEF TypeOK
<1>2. CASE UNCHANGED <<pc[j], tries[j]>>
  <2> SUFFICES ASSUME pc[j] = "scanned" PROVE tries[j] > 0 /\ place'[<<j, tries[j]>>] = "off"
    BY <1>2 DEF Rests
  <2>1. tries[j] > 0 /\ place[<<j, tries[j]>>] = "off"
    BY DEF Rests
  <2>2. <<j, tries[j]>> \in Runs
    BY <1>1, <2>1 DEF Runs
  <2>3. ~ Begins(<<j, tries[j]>>)
    BY <1>1 DEF Begins
  <2> QED
    BY <2>1, <2>2, <2>3, WorkflowMoves
<1>3. CASE k # j
  BY <1>2, <1>3, WorkflowMoves
<1>4. CASE k = j
  <2>1. CASE EndTransaction(j) \/ CreateLate(j)
    BY <1>2, <2>1 DEF EndTransaction, CreateLate
  <2>2. ASSUME pc'[j] # "scanned" PROVE Rests(j)'
    BY <2>2 DEF Rests
  <2>3. CASE StartScan(j) \/ FindFails(j) \/ UpdateJobStatus(j)
    BY <1>1, <2>2, <2>3 DEF StartScan, FindFails, UpdateJobStatus, Goto
  <2>4. CASE FindOrCreateJob(j) \/ GiveUp(j)
    BY <1>1, <2>2, <2>4, NextTryMoves DEF FindOrCreateJob, GiveUp
  <2> QED
    BY <1>4, <2>1, <2>3, <2>4 DEF Workflow
<1> QED
  BY <1>3, <1>4

\* An attempt that nobody disturbs accounts for every difference between the silo that it
\* saw and the map (processDiscoveries and the comparison before it), whatever attempts have
\* failed, overlapped or gone on before and whatever users have decided and deleted until it
\* compared.  Duplicates that overlapping attempts have left are not removed: it says that
\* what is open tells all, not that it tells it once.
THEOREM UndisturbedScansAccount == Spec => []ScanAccounts
<1>1. Init => AccountIInv
  <2> SUFFICES ASSUME Init PROVE AccountIInv
    OBVIOUS
  <2>1. ScanIInv
    BY ScanIInit
  <2> QED
    BY <2>1 DEF Init, AccountIInv, Accounts, Rests, At
<1>2. AccountIInv /\ TypeOK' /\ [Next]_vars => AccountIInv'
  <2> SUFFICES ASSUME AccountIInv, TypeOK', [Next]_vars PROVE AccountIInv'
    OBVIOUS
  <2>1. ScanIInv' /\ TypeOK
    BY ScanIndInv DEF AccountIInv, ScanIInv
  <2>2. ASSUME NEW q \in Runs PROVE Accounts(q)'
    <3>1. ASSUME NEW r \in Runs, Scan(r) PROVE Accounts(q)'
      BY <2>1, <3>1, AccountsStep, OthersAccount DEF AccountIInv
    <3>2. ASSUME NEW j \in Jobs, Workflow(j) PROVE Accounts(q)'
      BY <2>1, <3>2, WorkflowAccounts DEF AccountIInv
    <3> QED
      BY <2>1, <3>1, <3>2, UsersAccount, NextSplits DEF AccountIInv
  <2>3. ASSUME NEW j \in Jobs PROVE Rests(j)'
    <3>1. CASE UserStep
      BY <3>1, UsersLeaveScans DEF AccountIInv, Rests, At, In, scanVars, flowVars
    <3> QED
      BY <2>1, <3>1, ScanRests, WorkflowRests, NextSplits DEF AccountIInv
  <2> QED
    BY <2>1, <2>2, <2>3 DEF AccountIInv
<1>3. AccountIInv => ScanAccounts
  <2> SUFFICES ASSUME AccountIInv, NEW j \in Jobs, At(j, "scanned"), clean[<<j, tries[j]>>], NoTwins
               PROVE  Covered(schemas[<<j, tries[j]>>])
    BY DifferencesAccount DEF ScanAccounts
  <2>1. tries[j] > 0 /\ In(<<j, tries[j]>>, "off")
    BY DEF AccountIInv, Rests
  <2>2. <<j, tries[j]>> \in Runs
    BY <2>1 DEF AccountIInv, ScanIInv, TypeOK, Runs
  <2> QED
    BY <2>1, <2>2 DEF AccountIInv, Accounts
<1> QED
  BY <1>1, <1>2, <1>3, DiscoveryTypes, PTL DEF Spec
=============================================================================
