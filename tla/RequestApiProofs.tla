-------------------------- MODULE RequestApiProofs --------------------------
(***************************************************************************)
(* Theorems about RequestApi, for any data sources, silos and calls, any   *)
(* faults and any bounds.                                                  *)
(*                                                                         *)
(* The tables only grow (Grows): an object, a file, a result or a row that *)
(* is there stays there and stays what it is.  So what a call has read     *)
(* stays true in the sense of CallOK, whatever other calls do, and what it *)
(* writes in the end is true of the rows of that moment (DataOK).          *)
(***************************************************************************)
EXTENDS RequestApi, TLAPS

-----------------------------------------------------------------------------
(* Types. *)

Archive == [has : SUBSET DataSources, empty : SUBSET Silos, had : SUBSET DataSources]
CallState == [at : Places, rows : SUBSET DataSources, number : Nat, archive : Archive]

\* What a call may be set to.
LEMMA IdleType ==
  /\ Idle \in CallState
  /\ [Idle EXCEPT !.at = "over"] \in CallState
  /\ [Idle EXCEPT !.at = "over"].at = "over"
BY DEF Idle, CallState, Archive, NoArchive, Places

\* A step of one call, which is then at place p with rows r and number n.
Becomes(c, p, r, n) ==
  /\ call' \in [Calls -> CallState]
  /\ \A k \in Calls : k # c => call'[k] = call[k]
  /\ call'[c].at = p /\ call'[c].rows = r /\ call'[c].number = n

LEMMA CallSet ==
  ASSUME call \in [Calls -> CallState], NEW c \in Calls, NEW r \in CallState,
         call' = [call EXCEPT ![c] = r]
  PROVE  call'[c] = r /\ Becomes(c, r.at, r.rows, r.number)
BY DEF Becomes

LEMMA SetPlace ==
  ASSUME call \in [Calls -> CallState], NEW c \in Calls, NEW p \in Places, Go(c, p)
  PROVE  Becomes(c, p, call[c].rows, call[c].number) /\ call'[c].archive = call[c].archive
BY DEF Go, CallState, Becomes

LEMMA SetRows ==
  ASSUME call \in [Calls -> CallState], NEW c \in Calls, NEW r \in SUBSET DataSources,
         call' = [call EXCEPT ![c].rows = r]
  PROVE  Becomes(c, call[c].at, r, call[c].number) /\ call'[c].archive = call[c].archive
BY DEF CallState, Becomes

LEMMA SetPlaceRows ==
  ASSUME call \in [Calls -> CallState], NEW c \in Calls, NEW p \in Places,
         NEW r \in SUBSET DataSources, call' = [call EXCEPT ![c].at = p, ![c].rows = r]
  PROVE  Becomes(c, p, r, call[c].number) /\ call'[c].archive = call[c].archive
BY DEF CallState, Becomes

LEMMA SetPlaceNumber ==
  ASSUME call \in [Calls -> CallState], NEW c \in Calls, NEW p \in Places, NEW n \in Nat,
         call' = [call EXCEPT ![c].at = p, ![c].number = n]
  PROVE  Becomes(c, p, call[c].rows, n) /\ call'[c].archive = call[c].archive
BY DEF CallState, Becomes

\* The call is over.
LEMMA CallEnds ==
  ASSUME call \in [Calls -> CallState], NEW c \in Calls, End(c)
  PROVE  /\ call' \in [Calls -> CallState]
         /\ \A k \in Calls : k # c => call'[k] = call[k]
         /\ call'[c].at = "over"
BY IdleType, CallSet DEF End, Becomes

LEMMA InitTypes == Init => TypeOK
<1>. SUFFICES ASSUME Init PROVE TypeOK
  OBVIOUS
<1>1. call \in [Calls -> CallState]
  BY IdleType DEF Init
<1>2. QED
  BY <1>1 DEF Init, TypeOK, Jobs, CallState, Archive

\* TypeOK, with the type of a call named.
Typing ==
  /\ cloud \in BOOLEAN
  /\ live \subseteq DataSources
  /\ request \in [there : BOOLEAN, file : 0 .. Len(files)]
  /\ rows \subseteq DataSources
  /\ job \in Jobs
  /\ results \in Seq(Result)
  /\ objects \in Seq(Object)
  /\ files \in Seq(0 .. Len(objects))
  /\ links \subseteq 1 .. MaxFiles
  /\ promised \subseteq DataSources
  /\ call \in [Calls -> CallState]

LEMMA Types == TypeOK <=> Typing
BY DEF TypeOK, Typing, CallState, Archive

LEMMA TypesNext == TypeOK' <=> Typing'
BY Types, PTL

\* The steps of one call.
Step(c) ==
  \/ Create(c) \/ Mark(c) \/ Link(c) \/ FileLinkSave(c) \/ Fail(c)
  \/ \E ds \in DataSources : CreateRow(c, ds) \/ MarkStart(c, ds)
  \/ \E i \in DOMAIN results : FileLinkStart(c, i)

\* What the rest of the system does.
Outside == Execute \/ JobEnds \/ \E ds \in DataSources : Extract(ds) \/ Delete(ds)

LEMMA NextParts == Next => Outside \/ \E c \in Calls : Step(c)
BY DEF Next, Outside, Step

LEMMA ResultSources ==
  ASSUME results \in Seq(Result)
  PROVE  /\ WithResult \subseteq DataSources
         /\ \A i \in DOMAIN results : results[i] \in Result
<1>1. \A i \in DOMAIN results : results[i] \in Result
  OBVIOUS
<1>2. \A i \in DOMAIN results : results[i].source \in DataSources
  BY <1>1 DEF Result
<1>3. QED
  BY <1>1, <1>2 DEF WithResult

-----------------------------------------------------------------------------
(* What the steps do to the call that takes them. *)

LEMMA Typed ==
  ASSUME TypeOK
  PROVE  /\ call \in [Calls -> CallState] /\ live \subseteq DataSources
         /\ rows \subseteq DataSources /\ results \in Seq(Result)
         /\ objects \in Seq(Object) /\ Len(objects) \in Nat
         /\ files \in Seq(0 .. Len(objects)) /\ Len(files) \in Nat
         /\ WithResult \subseteq DataSources /\ DOMAIN results \subseteq Nat
         /\ \A k \in Calls : call[k] \in CallState /\ call[k].rows \subseteq DataSources
<1>1. /\ call \in [Calls -> CallState] /\ live \subseteq DataSources
      /\ rows \subseteq DataSources /\ results \in Seq(Result)
      /\ objects \in Seq(Object) /\ files \in Seq(0 .. Len(objects))
  BY Types DEF Typing
<1>2. \A k \in Calls : call[k] \in CallState
  BY <1>1
<1>3. \A k \in Calls : call[k].rows \subseteq DataSources
  BY <1>2 DEF CallState
<1>4. QED
  BY <1>1, <1>2, <1>3, ResultSources

LEMMA CreateReadSets ==
  ASSUME TypeOK, NEW c \in Calls, CreateRead(c)
  PROVE  Becomes(c, "rows", live, call[c].number) /\ call'[c].archive.had = live
<1>. DEFINE x == call[c]
            y == [x EXCEPT !.at = "rows", !.rows = live, !.archive.had = live]
<1>1. call' = [call EXCEPT ![c] = y]
  BY DEF CreateRead
<1>2. x \in CallState /\ live \in SUBSET DataSources /\ "rows" \in Places
  BY Typed DEF Places
<1>3. y = [x EXCEPT !.at = "rows", !.rows = live, !.archive.had = live]
  OBVIOUS
<1>. HIDE DEF x, y
<1>4. y \in CallState /\ y.at = "rows" /\ y.rows = live /\ y.number = x.number
      /\ y.archive.had = live
  BY <1>2, <1>3 DEF CallState, Archive
<1>5. call'[c] = y /\ Becomes(c, y.at, y.rows, y.number)
  BY <1>1, <1>4, Typed, CallSet
<1>6. QED
  BY <1>4, <1>5 DEF Becomes, x

LEMMA LinkStartSets ==
  ASSUME TypeOK, NEW c \in Calls, LinkStart(c), request.file = 0
  PROVE  Becomes(c, "linkRows", call[c].rows, call[c].number) /\ call'[c].archive.had = WithResult
<1>. DEFINE x == call[c]
            y == [x EXCEPT !.at = "linkRows", !.archive.had = WithResult]
<1>1. call' = [call EXCEPT ![c] = y]
  BY DEF LinkStart
<1>2. x \in CallState /\ WithResult \in SUBSET DataSources /\ "linkRows" \in Places
  BY Typed DEF Places
<1>3. y = [x EXCEPT !.at = "linkRows", !.archive.had = WithResult]
  OBVIOUS
<1>. HIDE DEF x, y
<1>4. y \in CallState /\ y.at = "linkRows" /\ y.rows = x.rows
      /\ y.number = x.number /\ y.archive.had = WithResult
  BY <1>2, <1>3 DEF CallState, Archive
<1>5. call'[c] = y /\ Becomes(c, y.at, y.rows, y.number)
  BY <1>1, <1>4, Typed, CallSet
<1>6. QED
  BY <1>4, <1>5 DEF Becomes, x

LEMMA LinkResultsSets ==
  ASSUME TypeOK, NEW c \in Calls, LinkResults(c)
  PROVE  /\ \E r, n : Becomes(c, "linkStore", r, n)
         /\ call'[c].archive.had = call[c].archive.had
         /\ \A ds \in WithResult \cap call[c].rows :
              /\ OnlyRecords(ds) => ds \in call'[c].archive.has
              /\ SiloOf[ds] \notin call'[c].archive.empty
<1>1. PICK picked \in SUBSET (DOMAIN results) :
        LET found == {results[k].source : k \in picked}
            has   == {results[k].source : k \in {n \in picked : results[n].kind = "records"}}
        IN  /\ found = WithResult \cap call[c].rows
            /\ call' = [call EXCEPT ![c].at = "linkStore", ![c].rows = {},
                         ![c].archive.has = has, ![c].archive.empty = EmptySilos(found, has)]
  BY DEF LinkResults
<1>. DEFINE found == {results[k].source : k \in picked}
            has   == {results[k].source : k \in {n \in picked : results[n].kind = "records"}}
            none  == EmptySilos(found, has)
<1>2. found = WithResult \cap call[c].rows
  BY <1>1
<1>3. has \subseteq DataSources
  <2>1. has \subseteq WithResult
    BY DEF WithResult
  <2>2. QED
    BY <2>1, Typed
<1>4. none \subseteq Silos /\ \A ds \in found : SiloOf[ds] \notin none
  BY DEF EmptySilos
<1>5. \A ds \in found : OnlyRecords(ds) => ds \in has
  BY DEF OnlyRecords
<1>. DEFINE x == call[c]
            y == [x EXCEPT !.at = "linkStore", !.rows = {},
                                 !.archive.has = has, !.archive.empty = none]
<1>6. call' = [call EXCEPT ![c] = y]
  BY <1>1
<1>. HIDE DEF found, has, none
<1>7. x \in CallState /\ {} \in SUBSET DataSources /\ "linkStore" \in Places
  BY Typed DEF Places
<1>8. y = [x EXCEPT !.at = "linkStore", !.rows = {},
                        !.archive.has = has, !.archive.empty = none]
  OBVIOUS
<1>. HIDE DEF x, y
<1>9. y \in CallState /\ y.at = "linkStore" /\ y.archive.has = has /\ y.archive.empty = none
      /\ y.archive.had = x.archive.had
  BY <1>3, <1>4, <1>7, <1>8 DEF CallState, Archive
<1>10. call'[c] = y /\ Becomes(c, y.at, y.rows, y.number)
  BY <1>6, <1>9, Typed, CallSet
<1>11. QED
  BY <1>2, <1>4, <1>5, <1>9, <1>10 DEF Becomes, x

\* Each call keeps its type, and a step of one leaves the others alone.
LEMMA CallTypes ==
  ASSUME TypeOK, NEW c \in Calls, Step(c)
  PROVE  call' \in [Calls -> CallState] /\ \A k \in Calls : k # c => call'[k] = call[k]
<1>1. CASE \E p \in Places : Go(c, p)
  BY <1>1, Typed, SetPlace DEF Becomes
<1>2. CASE End(c)
  BY <1>2, Typed, CallEnds
<1>3. CASE CreateRead(c)
  BY <1>3, CreateReadSets DEF Becomes
<1>4. CASE \E ds \in DataSources : CreateRow(c, ds)
  <2>1. PICK ds \in DataSources : call' = [call EXCEPT ![c].rows = call[c].rows \ {ds}]
    BY <1>4 DEF CreateRow
  <2>2. call[c].rows \ {ds} \in SUBSET DataSources
    BY Typed
  <2>3. QED
    BY <2>1, <2>2, Typed, SetRows DEF Becomes
<1>5. CASE \E ds \in DataSources : MarkStart(c, ds)
  <2>1. PICK ds \in DataSources : call' = [call EXCEPT ![c].at = "upload", ![c].rows = {ds}]
    BY <1>5 DEF MarkStart
  <2>2. {ds} \in SUBSET DataSources /\ "upload" \in Places
    BY DEF Places
  <2>3. QED
    BY <2>1, <2>2, Typed, SetPlaceRows DEF Becomes
<1>6. CASE Upload(c) \/ LinkStore(c)
  <2>1. PICK p \in {"result", "linkSave"} :
          call' = [call EXCEPT ![c].at = p, ![c].number = Len(objects) + 1]
    BY <1>6 DEF Upload, LinkStore
  <2>2. p \in Places /\ Len(objects) + 1 \in Nat
    BY Typed DEF Places
  <2>3. QED
    BY <2>1, <2>2, Typed, SetPlaceNumber DEF Becomes
<1>7. CASE LinkStart(c)
  <2>1. CASE request.file # 0
    BY <1>2, <1>7, <2>1 DEF LinkStart
  <2>2. CASE request.file = 0
    BY <1>7, <2>2, LinkStartSets DEF Becomes
  <2>3. QED
    BY <2>1, <2>2
<1>8. CASE LinkRows(c) \/ LinkSources(c)
  <2>1. PICK p \in {"linkSources", "linkResults"}, r \in {rows, call[c].rows \cap live} :
          call' = [call EXCEPT ![c].at = p, ![c].rows = r]
    BY <1>8 DEF LinkRows, LinkSources
  <2>2. p \in Places /\ r \in SUBSET DataSources
    BY Typed DEF Places
  <2>3. QED
    BY <2>1, <2>2, Typed, SetPlaceRows DEF Becomes
<1>9. CASE LinkResults(c)
  BY <1>9, LinkResultsSets DEF Becomes
<1>10. CASE \E i \in DOMAIN results : FileLinkStart(c, i)
  <2>1. PICK i \in DOMAIN results : FileLinkStart(c, i)
    BY <1>10
  <2>2. CASE results[i].file # 0
    BY <1>2, <2>1, <2>2 DEF FileLinkStart
  <2>3. CASE results[i].file = 0
    <3>1. call' = [call EXCEPT ![c].at = "fileSave", ![c].number = i]
      BY <2>1, <2>3 DEF FileLinkStart
    <3>2. "fileSave" \in Places /\ i \in Nat
      BY Typed DEF Places
    <3>3. QED
      BY <3>1, <3>2, Typed, SetPlaceNumber DEF Becomes
  <2>4. QED
    BY <2>2, <2>3
<1>11. CASE CreateRequest(c) \/ CreateValues(c) \/ CreateReturn(c)
  BY <1>1, <1>2, <1>11 DEF CreateRequest, CreateValues, CreateReturn, Places
<1>12. CASE MarkResult(c) \/ MarkStatus(c) \/ LinkSave(c) \/ FileLinkSave(c) \/ Fail(c)
  BY <1>1, <1>2, <1>12 DEF MarkResult, MarkStatus, LinkSave, FileLinkSave, Fail, Places
<1>13. QED
  BY <1>3, <1>4, <1>5, <1>6, <1>7, <1>8, <1>9, <1>10, <1>11, <1>12
     DEF Step, Create, Mark, Link

-----------------------------------------------------------------------------
(* The invariant. *)

\* The objects that can be read; in a bucket nothing is claimed of them.
Readable == {i \in DOMAIN objects : ~ cloud => objects[i].there}

\* What a running call knows is true of the tables.
CallOK(c) ==
  /\ call[c].at = "rows" => call[c].archive.had \subseteq rows \cup call[c].rows
  /\ call[c].at \in {"upload", "result"} => call[c].rows \subseteq rows
  /\ call[c].at \in {"result", "linkSave"} => call[c].number \in Readable
  /\ call[c].at = "fileSave" => call[c].number \in DOMAIN results
  /\ call[c].at \in {"linkRows", "linkSources", "linkResults"} =>
       call[c].archive.had \subseteq WithResult
  /\ call[c].at = "linkSources" => call[c].archive.had \subseteq call[c].rows
  /\ call[c].at = "linkResults" => call[c].archive.had \cap live \subseteq call[c].rows
  /\ call[c].at = "linkStore" =>
       \A ds \in call[c].archive.had \cap live :
         /\ OnlyRecords(ds) => ds \in call[c].archive.has
         /\ SiloOf[ds] \notin call[c].archive.empty

\* What the tables refer to is there.
ResultsOK ==
  \A i \in DOMAIN results :
    /\ results[i].source \in rows
    /\ results[i].object \in Readable \cup {0}
    /\ results[i].file \in DOMAIN files \cup {0}

FilesOK == \A f \in DOMAIN files : files[f] \in Readable \cup {0}

LinksOK == links \subseteq DOMAIN files /\ request.file \in DOMAIN files \cup {0}

BoundsOK == Len(objects) <= MaxObjects /\ Len(files) <= MaxFiles

IInv ==
  /\ TypeOK /\ BoundsOK
  /\ ResultsOK /\ FilesOK /\ LinksOK
  /\ ReturnedIsComplete /\ ArchiveFaithful
  /\ \A c \in Calls : CallOK(c)

\* The tables only grow, but for the data sources that are deleted.
Grows ==
  /\ UNCHANGED cloud /\ live' \subseteq live /\ rows \subseteq rows'
  /\ DOMAIN results \subseteq DOMAIN results'
  /\ \A i \in DOMAIN results : /\ results'[i].source = results[i].source
                              /\ results'[i].kind = results[i].kind
  /\ DOMAIN objects \subseteq DOMAIN objects'
  /\ \A i \in DOMAIN objects : objects'[i] = objects[i]

LEMMA GrowsKeeps ==
  ASSUME Grows
  PROVE  /\ Readable \subseteq Readable' /\ WithResult \subseteq WithResult'
         /\ \A ds : OnlyRecords(ds)' => OnlyRecords(ds)
<1>1. Readable \subseteq Readable'
  BY DEF Grows, Readable
<1>2. WithResult \subseteq WithResult'
  <2>1. ASSUME NEW i \in DOMAIN results PROVE results[i].source \in WithResult'
    <3>1. i \in DOMAIN results' /\ results'[i].source = results[i].source
      BY DEF Grows
    <3>2. results'[i].source \in WithResult'
      BY <3>1 DEF WithResult
    <3>3. QED
      BY <3>1, <3>2
  <2>2. QED
    BY <2>1 DEF WithResult
<1>3. ASSUME NEW ds, OnlyRecords(ds)' PROVE OnlyRecords(ds)
  BY <1>3 DEF Grows, OnlyRecords
<1>4. QED
  BY <1>1, <1>2, <1>3

\* What a call knows stays true whatever others do.
LEMMA CallKept ==
  ASSUME NEW c \in Calls, CallOK(c), Grows, call'[c] = call[c]
  PROVE  CallOK(c)'
<1>. USE GrowsKeeps
<1>1. live' \subseteq live /\ rows \subseteq rows' /\ DOMAIN results \subseteq DOMAIN results'
  BY DEF Grows
<1>. DEFINE k == call[c]
<1>2. call'[c] = k
  OBVIOUS
<1>. HIDE DEF k
<1>3. /\ k.at = "rows" => k.archive.had \subseteq rows' \cup k.rows
      /\ k.at \in {"upload", "result"} => k.rows \subseteq rows'
      /\ k.at \in {"result", "linkSave"} => k.number \in Readable'
      /\ k.at = "fileSave" => k.number \in DOMAIN results'
  BY <1>1 DEF CallOK, k
<1>4. /\ k.at \in {"linkRows", "linkSources", "linkResults"} =>
           k.archive.had \subseteq WithResult'
      /\ k.at = "linkSources" => k.archive.had \subseteq k.rows
      /\ k.at = "linkResults" => k.archive.had \cap live' \subseteq k.rows
  BY <1>1 DEF CallOK, k
<1>5. k.at = "linkStore" =>
        \A ds \in k.archive.had \cap live' :
          (OnlyRecords(ds)' => ds \in k.archive.has) /\ SiloOf[ds] \notin k.archive.empty
  BY <1>1 DEF CallOK, k
<1>6. QED
  BY <1>2, <1>3, <1>4, <1>5 DEF CallOK

\* The archives that are there stay faithful.
LEMMA ArchivesKept ==
  ASSUME ArchiveFaithful, Grows,
         \A i \in DOMAIN objects' \ DOMAIN objects : objects'[i].kind = "file"
  PROVE  ArchiveFaithful'
<1>1. ASSUME NEW i \in Archives'
      PROVE  i \in Archives /\ objects'[i] = objects[i]
  BY <1>1 DEF Grows, Archives
<1>2. ASSUME NEW i \in Archives', NEW ds \in objects'[i].had, ds \in live'
      PROVE  (OnlyRecords(ds)' => ds \in objects'[i].has) /\ SiloOf[ds] \notin objects'[i].empty
  <2>1. i \in Archives /\ objects'[i] = objects[i] /\ ds \in live
    BY <1>1, <1>2 DEF Grows
  <2>2. OnlyRecords(ds)' => OnlyRecords(ds)
    BY GrowsKeeps
  <2>3. QED
    BY <1>2, <2>1, <2>2 DEF ArchiveFaithful, RecordsPacked, NoDataMeansNone
<1>3. QED
  BY <1>2 DEF ArchiveFaithful, RecordsPacked, NoDataMeansNone

-----------------------------------------------------------------------------
(* The steps. *)

LEMMA InitOK == Init => IInv
<1>. SUFFICES ASSUME Init PROVE IInv
  OBVIOUS
<1>1. TypeOK
  BY InitTypes
<1>2. BoundsOK
  BY ApiAssumption DEF Init, BoundsOK
<1>3. ResultsOK /\ FilesOK /\ LinksOK /\ ReturnedIsComplete
  BY DEF Init, ResultsOK, FilesOK, LinksOK, ReturnedIsComplete
<1>4. ArchiveFaithful
  BY DEF Init, ArchiveFaithful, RecordsPacked, NoDataMeansNone, Archives
<1>5. \A c \in Calls : CallOK(c)
  BY DEF Init, Idle, CallOK
<1>6. QED
  BY <1>1, <1>2, <1>3, <1>4, <1>5 DEF IInv

\* The tables that are not written.
same == <<cloud, live, rows, job, results, objects, files>>

\* A step that writes none of the tables, and hands out no link that has no file.
LEMMA OnlyCall ==
  ASSUME IInv, UNCHANGED same, call' \in [Calls -> CallState],
         request' \in [there : BOOLEAN, file : 0 .. Len(files)],
         request'.file = request.file,
         links' \subseteq DOMAIN files, promised' \subseteq rows,
         \A c \in Calls : CallOK(c)'
  PROVE  IInv'
<1>1. /\ UNCHANGED cloud /\ UNCHANGED live /\ UNCHANGED rows /\ UNCHANGED job
      /\ UNCHANGED results /\ UNCHANGED objects /\ UNCHANGED files
  BY DEF same
<1>2. TypeOK'
  <2>1. DOMAIN files \subseteq 1 .. MaxFiles
    <3>1. DOMAIN files = 1 .. Len(files) /\ Len(files) \in Nat /\ MaxFiles \in Nat
      BY Typed, ApiAssumption DEF IInv
    <3>2. QED
      BY <3>1 DEF IInv, BoundsOK
  <2>2. promised' \subseteq DataSources /\ links' \subseteq 1 .. MaxFiles
    BY <2>1, Typed DEF IInv
  <2>3. QED
    BY <1>1, <2>2, Types, TypesNext DEF IInv, Typing
<1>3. BoundsOK' /\ ResultsOK' /\ FilesOK' /\ LinksOK' /\ ReturnedIsComplete'
  BY <1>1 DEF IInv, BoundsOK, ResultsOK, FilesOK, LinksOK, ReturnedIsComplete, Readable
<1>4. ArchiveFaithful'
  <2>1. Grows
    BY <1>1 DEF Grows
  <2>2. QED
    BY <1>1, <2>1, ArchivesKept DEF IInv
<1>5. QED
  BY <1>2, <1>3, <1>4 DEF IInv

\* One call takes a step that writes none of the tables.
LEMMA OneCall ==
  ASSUME IInv, NEW c \in Calls, Step(c), UNCHANGED same,
         request' \in [there : BOOLEAN, file : 0 .. Len(files)], request'.file = request.file,
         links' \subseteq DOMAIN files, promised' \subseteq rows, CallOK(c)'
  PROVE  IInv'
<1>1. call' \in [Calls -> CallState] /\ \A k \in Calls : k # c => call'[k] = call[k]
  BY CallTypes DEF IInv
<1>2. Grows
  BY DEF same, Grows
<1>3. \A k \in Calls : CallOK(k)'
  BY <1>1, <1>2, CallKept DEF IInv
<1>4. QED
  BY <1>1, <1>3, OnlyCall

\* What IInv says of what a call may hand out or promise.
LEMMA KeptHere ==
  ASSUME IInv
  PROVE  /\ request \in [there : BOOLEAN, file : 0 .. Len(files)]
         /\ links \subseteq DOMAIN files /\ promised \subseteq rows
BY Types DEF IInv, Typing, LinksOK, ReturnedIsComplete

\* Where nothing is claimed.
LEMMA NothingClaimed ==
  ASSUME NEW c \in Calls, call'[c].at \in {"over", "values", "silos", "status"}
  PROVE  CallOK(c)'
BY DEF CallOK

LEMMA CreateOK ==
  ASSUME IInv, NEW c \in Calls, Create(c)
  PROVE  IInv'
<1>. USE KeptHere
<1>1. Step(c)
  BY DEF Step
<1>2. TypeOK /\ call \in [Calls -> CallState]
  BY Typed DEF IInv
<1>3. CASE CreateRequest(c)
  <2>1. CallOK(c)'
    <3>1. Go(c, "values") /\ "values" \in Places
      BY <1>3 DEF CreateRequest, Places
    <3>2. QED
      BY <1>2, <3>1, SetPlace, NothingClaimed DEF Becomes
  <2>2. UNCHANGED same /\ UNCHANGED links /\ UNCHANGED promised
    BY <1>3 DEF CreateRequest, data, same
  <2>3. request' = [request EXCEPT !.there = TRUE]
    BY <1>3 DEF CreateRequest
  <2>4. request' \in [there : BOOLEAN, file : 0 .. Len(files)] /\ request'.file = request.file
    BY <2>3
  <2>5. QED
    BY <1>1, <2>1, <2>2, <2>4, OneCall
<1>4. CASE CreateValues(c)
  <2>1. CallOK(c)'
    <3>1. Go(c, "silos") \/ End(c)
      BY <1>4 DEF CreateValues
    <3>2. "silos" \in Places
      BY DEF Places
    <3>3. QED
      BY <1>2, <3>1, <3>2, SetPlace, CallEnds, NothingClaimed DEF Becomes
  <2>2. UNCHANGED same /\ UNCHANGED links /\ UNCHANGED promised /\ UNCHANGED request
    BY <1>4 DEF CreateValues, data, same
  <2>3. QED
    BY <1>1, <2>1, <2>2, OneCall
<1>5. CASE CreateRead(c)
  <2>1. CallOK(c)'
    BY <1>2, <1>5, CreateReadSets DEF Becomes, CallOK
  <2>2. UNCHANGED same /\ UNCHANGED links /\ UNCHANGED promised /\ UNCHANGED request
    BY <1>5 DEF CreateRead, data, same
  <2>3. QED
    BY <1>1, <2>1, <2>2, OneCall
<1>6. CASE CreateReturn(c)
  <2>1. CallOK(c)'
    <3>1. End(c)
      BY <1>6 DEF CreateReturn
    <3>2. QED
      BY <1>2, <3>1, CallEnds, NothingClaimed
  <2>2. promised' \subseteq rows
    BY <1>6 DEF CreateReturn, At, IInv, CallOK
  <2>3. UNCHANGED same /\ UNCHANGED links /\ UNCHANGED request
    BY <1>6 DEF CreateReturn, data, same
  <2>4. QED
    BY <1>1, <2>1, <2>2, <2>3, OneCall
<1>7. QED
  BY <1>3, <1>4, <1>5, <1>6 DEF Create

\* A user's mark begins, or its last statement is made.
LEMMA MarkEndsOK ==
  ASSUME IInv, NEW c \in Calls, MarkStatus(c) \/ Fail(c)
  PROVE  IInv'
<1>1. Step(c) /\ End(c) /\ UNCHANGED same
      /\ UNCHANGED links /\ UNCHANGED promised /\ UNCHANGED request
  BY DEF Step, Mark, MarkStatus, Fail, data, same
<1>2. CallOK(c)'
  BY <1>1, Typed, CallEnds, NothingClaimed DEF IInv
<1>3. QED
  BY <1>1, <1>2, KeptHere, OneCall

LEMMA MarkStartOK ==
  ASSUME IInv, NEW c \in Calls, NEW ds \in DataSources, MarkStart(c, ds)
  PROVE  IInv'
<1>1. Step(c) /\ UNCHANGED same
      /\ UNCHANGED links /\ UNCHANGED promised /\ UNCHANGED request
  BY DEF Step, MarkStart, data, same
<1>2. call' = [call EXCEPT ![c].at = "upload", ![c].rows = {ds}] /\ ds \in rows
  BY DEF MarkStart
<1>3. Becomes(c, "upload", {ds}, call[c].number)
  BY <1>2, Typed, SetPlaceRows DEF IInv, Places
<1>4. CallOK(c)'
  <2>1. call'[c].at = "upload" /\ call'[c].rows = {ds} /\ rows' = rows
    BY <1>1, <1>3 DEF Becomes, same
  <2>2. QED
    BY <1>2, <2>1 DEF CallOK
<1>5. QED
  BY <1>1, <1>4, KeptHere, OneCall

\* The reads of a download link.
LEMMA LinkReadsOK ==
  ASSUME IInv, NEW c \in Calls,
         LinkStart(c) \/ LinkRows(c) \/ LinkSources(c) \/ LinkResults(c)
  PROVE  IInv'
<1>. USE KeptHere
<1>1. Step(c) /\ UNCHANGED same /\ UNCHANGED promised /\ UNCHANGED request
  BY DEF Step, Link, LinkStart, LinkRows, LinkSources, LinkResults, data, same
<1>2. TypeOK /\ call \in [Calls -> CallState] /\ CallOK(c)
  BY Typed DEF IInv
<1>3. WithResult' = WithResult /\ live' = live /\ rows' = rows
      /\ \A ds : OnlyRecords(ds)' = OnlyRecords(ds)
  BY <1>1 DEF same, WithResult, OnlyRecords
<1>4. CASE LinkStart(c)
  <2>1. CASE request.file # 0
    <3>1. End(c) /\ links' = links \cup {request.file}
      BY <1>4, <2>1 DEF LinkStart
    <3>2. links' \subseteq DOMAIN files
      BY <2>1, <3>1 DEF IInv, LinksOK
    <3>3. CallOK(c)'
      BY <1>2, <3>1, CallEnds, NothingClaimed
    <3>4. QED
      BY <1>1, <3>2, <3>3, OneCall
  <2>2. CASE request.file = 0
    <3>1. UNCHANGED links
      BY <1>4, <2>2 DEF LinkStart
    <3>2. CallOK(c)'
      BY <1>2, <1>3, <1>4, <2>2, LinkStartSets DEF Becomes, CallOK
    <3>3. QED
      BY <1>1, <3>1, <3>2, OneCall
  <2>3. QED
    BY <2>1, <2>2
<1>5. CASE LinkRows(c)
  <2>1. UNCHANGED links /\ At(c, "linkRows")
        /\ call' = [call EXCEPT ![c].at = "linkSources", ![c].rows = rows]
    BY <1>5 DEF LinkRows
  <2>2. Becomes(c, "linkSources", rows, call[c].number)
        /\ call'[c].archive = call[c].archive
    BY <1>2, <2>1, Typed, SetPlaceRows DEF Places
  <2>3. call[c].archive.had \subseteq WithResult /\ WithResult \subseteq rows
    BY <1>2, <2>1 DEF CallOK, At, IInv, ResultsOK, WithResult
  <2>4. call'[c].at = "linkSources" /\ call'[c].rows = rows
    BY <2>2 DEF Becomes
  <2>5. CallOK(c)'
    BY <1>3, <2>2, <2>3, <2>4 DEF CallOK
  <2>6. QED
    BY <1>1, <2>1, <2>5, OneCall
<1>6. CASE LinkSources(c)
  <2>1. UNCHANGED links /\ At(c, "linkSources")
        /\ call' = [call EXCEPT ![c].at = "linkResults", ![c].rows = call[c].rows \cap live]
    BY <1>6 DEF LinkSources
  <2>2. call[c].rows \cap live \in SUBSET DataSources /\ "linkResults" \in Places
    BY <1>2, Typed DEF Places
  <2>3. Becomes(c, "linkResults", call[c].rows \cap live, call[c].number)
        /\ call'[c].archive = call[c].archive
    BY <1>2, <2>1, <2>2, SetPlaceRows
  <2>4. call[c].archive.had \subseteq WithResult /\ call[c].archive.had \subseteq call[c].rows
    BY <1>2, <2>1 DEF CallOK, At
  <2>5. call'[c].at = "linkResults" /\ call'[c].rows = call[c].rows \cap live
    BY <2>3 DEF Becomes
  <2>6. CallOK(c)'
    BY <1>3, <2>3, <2>4, <2>5 DEF CallOK
  <2>7. QED
    BY <1>1, <2>1, <2>6, OneCall
<1>7. CASE LinkResults(c)
  <2>1. UNCHANGED links /\ At(c, "linkResults")
    BY <1>7 DEF LinkResults
  <2>2. call[c].archive.had \subseteq WithResult
        /\ call[c].archive.had \cap live \subseteq call[c].rows
    BY <1>2, <2>1 DEF CallOK, At
  <2>3. /\ call'[c].at = "linkStore"
        /\ call'[c].archive.had = call[c].archive.had
        /\ \A ds \in WithResult \cap call[c].rows :
              /\ OnlyRecords(ds) => ds \in call'[c].archive.has
              /\ SiloOf[ds] \notin call'[c].archive.empty
    BY <1>2, <1>7, LinkResultsSets DEF Becomes
  <2>4. CallOK(c)'
    BY <1>3, <2>2, <2>3 DEF CallOK
  <2>5. QED
    BY <1>1, <2>1, <2>4, OneCall
<1>8. QED
  BY <1>4, <1>5, <1>6, <1>7

LEMMA FileLinkStartOK ==
  ASSUME IInv, NEW c \in Calls, NEW i \in DOMAIN results, FileLinkStart(c, i)
  PROVE  IInv'
<1>. USE KeptHere
<1>1. Step(c) /\ UNCHANGED same /\ UNCHANGED promised /\ UNCHANGED request
  BY DEF Step, FileLinkStart, data, same
<1>2. call \in [Calls -> CallState] /\ i \in Nat
  BY Typed DEF IInv
<1>3. CASE results[i].file # 0
  <2>1. End(c) /\ links' = links \cup {results[i].file}
    BY <1>3 DEF FileLinkStart
  <2>2. links' \subseteq DOMAIN files
    BY <1>3, <2>1 DEF IInv, ResultsOK
  <2>3. CallOK(c)'
    BY <1>2, <2>1, CallEnds, NothingClaimed
  <2>4. QED
    BY <1>1, <2>2, <2>3, OneCall
<1>4. CASE results[i].file = 0
  <2>1. UNCHANGED links /\ call' = [call EXCEPT ![c].at = "fileSave", ![c].number = i]
    BY <1>4 DEF FileLinkStart
  <2>2. Becomes(c, "fileSave", call[c].rows, i)
    BY <1>2, <2>1, SetPlaceNumber DEF Places
  <2>3. call'[c].at = "fileSave" /\ call'[c].number = i /\ results' = results
    BY <1>1, <2>2 DEF Becomes, same
  <2>4. CallOK(c)'
    BY <2>3 DEF CallOK
  <2>5. QED
    BY <1>1, <2>1, <2>4, OneCall
<1>5. QED
  BY <1>3, <1>4

-----------------------------------------------------------------------------
(* The steps that write a table. *)

LEMMA Tables ==
  ASSUME IInv, Grows, Typing', BoundsOK', ResultsOK', FilesOK', LinksOK', ReturnedIsComplete',
         \A i \in DOMAIN objects' \ DOMAIN objects : objects'[i].kind = "file",
         \A c \in Calls : CallOK(c)'
  PROVE  IInv'
<1>1. ArchiveFaithful'
  BY ArchivesKept DEF IInv
<1>2. TypeOK'
  BY TypesNext
<1>3. QED
  BY <1>1, <1>2 DEF IInv

\* The calls, when one of them takes the step.
LEMMA CallsOK ==
  ASSUME IInv, NEW c \in Calls, Step(c), Grows, CallOK(c)'
  PROVE  /\ \A k \in Calls : CallOK(k)'
         /\ call' \in [Calls -> CallState]
<1>1. call' \in [Calls -> CallState] /\ \A k \in Calls : k # c => call'[k] = call[k]
  BY CallTypes DEF IInv
<1>2. QED
  BY <1>1, CallKept DEF IInv

\* An object is stored.
LEMMA Stored ==
  ASSUME IInv, NEW o \in Object, Len(objects) < MaxObjects, objects' = Append(objects, o)
  PROVE  /\ objects' \in Seq(Object) /\ Len(objects) + 1 \in Nat
         /\ DOMAIN objects' = DOMAIN objects \cup {Len(objects) + 1}
         /\ Len(objects) + 1 \notin DOMAIN objects
         /\ \A i \in DOMAIN objects : objects'[i] = objects[i]
         /\ objects'[Len(objects) + 1] = o
         /\ Len(objects') <= MaxObjects
         /\ files \in Seq(0 .. Len(objects'))
<1>1. /\ objects \in Seq(Object) /\ Len(objects) \in Nat
      /\ files \in Seq(0 .. Len(objects)) /\ MaxObjects \in Nat
  BY Typed, ApiAssumption DEF IInv
<1>2. Len(objects') = Len(objects) + 1
  BY <1>1
<1>3. 0 .. Len(objects) \subseteq 0 .. Len(objects')
  BY <1>1, <1>2
<1>4. files \in Seq(0 .. Len(objects'))
  BY <1>1, <1>3
<1>5. QED
  BY <1>1, <1>2, <1>4

\* A result is inserted.
LEMMA Inserted ==
  ASSUME IInv, NEW r \in Result, results' = Append(results, r), Readable \subseteq Readable',
         r.source \in rows, r.object \in Readable' \cup {0}, r.file = 0,
         rows' = rows, files' = files
  PROVE  /\ results' \in Seq(Result) /\ DOMAIN results \subseteq DOMAIN results'
         /\ \A i \in DOMAIN results : results'[i] = results[i]
         /\ ResultsOK'
<1>1. results \in Seq(Result)
  BY Typed DEF IInv
<1>2. /\ results' \in Seq(Result) /\ DOMAIN results \subseteq DOMAIN results'
      /\ \A i \in DOMAIN results : results'[i] = results[i]
      /\ \A i \in DOMAIN results' : i \in DOMAIN results \/ results'[i] = r
  BY <1>1
<1>3. ASSUME NEW i \in DOMAIN results'
      PROVE  /\ results'[i].source \in rows'
             /\ results'[i].object \in Readable' \cup {0}
             /\ results'[i].file \in DOMAIN files' \cup {0}
  BY <1>2 DEF IInv, ResultsOK
<1>4. ResultsOK'
  BY <1>3 DEF ResultsOK
<1>5. QED
  BY <1>2, <1>4

\* A link is made: the row of its file is inserted.
LEMMA Linked ==
  ASSUME IInv, Len(files) < MaxFiles, NEW n \in Readable \cup {0}, files' = Append(files, n),
         cloud' = cloud, objects' = objects, links' = links \cup {Len(files) + 1}
  PROVE  /\ files' \in Seq(0 .. Len(objects')) /\ FilesOK'
         /\ Len(files') = Len(files) + 1 /\ Len(files') <= MaxFiles /\ Len(files) \in Nat
         /\ DOMAIN files' = DOMAIN files \cup {Len(files) + 1}
         /\ links' \subseteq DOMAIN files' /\ links' \subseteq 1 .. MaxFiles
<1>1. /\ objects \in Seq(Object) /\ Len(objects) \in Nat /\ Len(files) \in Nat
      /\ files \in Seq(0 .. Len(objects)) /\ MaxFiles \in Nat
  BY Typed, ApiAssumption DEF IInv
<1>2. n \in 0 .. Len(objects)
  BY <1>1 DEF Readable
<1>3. /\ files' \in Seq(0 .. Len(objects))
      /\ Len(files') = Len(files) + 1 /\ Len(files') <= MaxFiles
      /\ DOMAIN files' = DOMAIN files \cup {Len(files) + 1}
      /\ DOMAIN files' = 1 .. Len(files')
      /\ \A f \in DOMAIN files : files'[f] = files[f]
      /\ files'[Len(files) + 1] = n
  BY <1>1, <1>2
<1>4. Readable' = Readable
  BY DEF Readable
<1>5. FilesOK'
  BY <1>3, <1>4 DEF IInv, FilesOK
<1>6. links' \subseteq DOMAIN files' /\ DOMAIN files' \subseteq 1 .. MaxFiles
  BY <1>1, <1>3 DEF IInv, LinksOK
<1>7. QED
  BY <1>1, <1>3, <1>5, <1>6

LEMMA CreateRowOK ==
  ASSUME IInv, NEW c \in Calls, NEW ds \in DataSources, CreateRow(c, ds)
  PROVE  IInv'
<1>1. Step(c)
  BY DEF Step
<1>2. /\ At(c, "rows") /\ rows' = rows \cup {ds}
      /\ call' = [call EXCEPT ![c].rows = call[c].rows \ {ds}]
      /\ cloud' = cloud /\ live' = live /\ request' = request /\ job' = job
      /\ results' = results /\ objects' = objects /\ files' = files
      /\ links' = links /\ promised' = promised
  BY DEF CreateRow
<1>3. Grows
  BY <1>2 DEF Grows
<1>4. CallOK(c)'
  <2>1. call[c].rows \ {ds} \in SUBSET DataSources /\ call \in [Calls -> CallState]
    BY Typed DEF IInv
  <2>2. Becomes(c, call[c].at, call[c].rows \ {ds}, call[c].number)
        /\ call'[c].archive = call[c].archive
    BY <1>2, <2>1, SetRows
  <2>3. call'[c].at = "rows" /\ call'[c].rows = call[c].rows \ {ds}
    BY <1>2, <2>2 DEF Becomes, At
  <2>4. call[c].archive.had \subseteq rows \cup call[c].rows
    BY <1>2 DEF IInv, CallOK, At
  <2>5. QED
    BY <1>2, <2>2, <2>3, <2>4 DEF CallOK
<1>5. Typing'
  BY <1>1, <1>2, <1>3, <1>4, CallsOK, Types DEF IInv, Typing
<1>6. BoundsOK' /\ FilesOK' /\ LinksOK'
  BY <1>2 DEF IInv, BoundsOK, FilesOK, LinksOK, Readable
<1>7. ResultsOK' /\ ReturnedIsComplete'
  BY <1>2 DEF IInv, ResultsOK, Readable, ReturnedIsComplete
<1>8. QED
  BY <1>1, <1>2, <1>3, <1>4, <1>5, <1>6, <1>7, CallsOK, Tables

\* Where an object that is stored, and nothing else, leaves the tables.
LEMMA StoredOnly ==
  ASSUME IInv, NEW o \in Object, Len(objects) < MaxObjects, objects' = Append(objects, o),
         cloud' = cloud, live' = live, request' = request, rows' = rows, job' = job,
         files' = files, links' = links, promised' = promised, results' = results,
         call' \in [Calls -> CallState]
  PROVE  Grows /\ Typing' /\ BoundsOK' /\ ResultsOK' /\ FilesOK' /\ LinksOK'
         /\ ReturnedIsComplete'
<1>1. Grows
  BY Stored DEF Grows
<1>2. Typing'
  BY Stored, Types DEF IInv, Typing
<1>3. BoundsOK' /\ LinksOK' /\ ReturnedIsComplete'
  BY Stored DEF IInv, BoundsOK, LinksOK, ReturnedIsComplete
<1>4. ResultsOK' /\ FilesOK'
  BY <1>1, GrowsKeeps DEF IInv, ResultsOK, FilesOK
<1>5. QED
  BY <1>1, <1>2, <1>3, <1>4

LEMMA FileType ==
  ASSUME NEW there \in BOOLEAN
  PROVE  File(there) \in Object /\ File(there).kind = "file" /\ File(there).there = there
BY DEF File, Object

LEMMA UploadOK ==
  ASSUME IInv, NEW c \in Calls, Upload(c)
  PROVE  IInv'
<1>. DEFINE o == File(~ cloud)
            n == Len(objects) + 1
<1>1. Step(c)
  BY DEF Step, Mark
<1>2. /\ At(c, "upload") /\ Len(objects) < MaxObjects /\ objects' = Append(objects, o)
      /\ call' = [call EXCEPT ![c].at = "result", ![c].number = n]
      /\ cloud' = cloud /\ live' = live /\ request' = request /\ job' = job /\ rows' = rows
      /\ results' = results /\ files' = files /\ links' = links /\ promised' = promised
  BY DEF Upload, data
<1>3. o \in Object /\ o.kind = "file" /\ o.there = ~ cloud
  BY FileType
<1>. HIDE DEF o
<1>4. call' \in [Calls -> CallState]
  BY <1>1, CallTypes DEF IInv
<1>5. Grows /\ Typing' /\ BoundsOK' /\ ResultsOK' /\ FilesOK' /\ LinksOK' /\ ReturnedIsComplete'
  BY <1>2, <1>3, <1>4, StoredOnly
<1>6. /\ DOMAIN objects' = DOMAIN objects \cup {n} /\ objects'[n] = o /\ n \in Nat
  BY <1>2, <1>3, Stored
<1>7. CallOK(c)'
  <2>1. Becomes(c, "result", call[c].rows, n) /\ call'[c].archive = call[c].archive
    BY <1>2, <1>6, Typed, SetPlaceNumber DEF IInv, Places
  <2>2. call'[c].at = "result" /\ call'[c].rows = call[c].rows /\ call'[c].number = n
    BY <2>1 DEF Becomes
  <2>3. call[c].rows \subseteq rows
    BY <1>2 DEF IInv, CallOK, At
  <2>4. n \in Readable'
    BY <1>2, <1>3, <1>6 DEF Readable
  <2>5. QED
    BY <1>2, <2>2, <2>3, <2>4 DEF CallOK
<1>8. \A i \in DOMAIN objects' \ DOMAIN objects : objects'[i].kind = "file"
  BY <1>3, <1>6
<1>9. QED
  BY <1>1, <1>5, <1>7, <1>8, CallsOK, Tables

LEMMA LinkStoreOK ==
  ASSUME IInv, NEW c \in Calls, LinkStore(c)
  PROVE  IInv'
<1>. DEFINE a == call[c].archive
            n == Len(objects) + 1
<1>1. Step(c)
  BY DEF Step, Link
<1>2. /\ At(c, "linkStore") /\ Len(objects) < MaxObjects
      /\ call' = [call EXCEPT ![c].at = "linkSave", ![c].number = n]
      /\ cloud' = cloud /\ live' = live /\ request' = request /\ job' = job /\ rows' = rows
      /\ results' = results /\ files' = files /\ links' = links /\ promised' = promised
  BY DEF LinkStore, data
<1>3. PICK there \in BOOLEAN :
        /\ ~ cloud => there
        /\ objects' = Append(objects, [kind |-> "archive", there |-> there, has |-> a.has,
                                       empty |-> a.empty, had |-> a.had])
  BY DEF LinkStore
<1>. DEFINE o == [kind |-> "archive", there |-> there, has |-> a.has,
                  empty |-> a.empty, had |-> a.had]
<1>4. o \in Object
  <2>1. a \in Archive
    BY Typed DEF IInv, CallState
  <2>2. QED
    BY <2>1 DEF Archive, Object
<1>5. objects' = Append(objects, o) /\ o.kind = "archive" /\ o.there = there /\ o.has = a.has
      /\ o.empty = a.empty /\ o.had = a.had
  BY <1>3
<1>. HIDE DEF o
<1>6. call' \in [Calls -> CallState]
  BY <1>1, CallTypes DEF IInv
<1>7. Grows /\ Typing' /\ BoundsOK' /\ ResultsOK' /\ FilesOK' /\ LinksOK' /\ ReturnedIsComplete'
  BY <1>2, <1>4, <1>5, <1>6, StoredOnly
<1>8. /\ DOMAIN objects' = DOMAIN objects \cup {n} /\ objects'[n] = o /\ n \in Nat
      /\ n \notin DOMAIN objects /\ \A i \in DOMAIN objects : objects'[i] = objects[i]
  BY <1>2, <1>4, <1>5, Stored
<1>9. CallOK(c)'
  <2>1. Becomes(c, "linkSave", call[c].rows, n)
    BY <1>2, <1>8, Typed, SetPlaceNumber DEF IInv, Places
  <2>2. call'[c].at = "linkSave" /\ call'[c].number = n
    BY <2>1 DEF Becomes
  <2>3. n \in Readable'
    BY <1>2, <1>3, <1>5, <1>8 DEF Readable
  <2>4. QED
    BY <2>2, <2>3 DEF CallOK
<1>10. ASSUME NEW i \in Archives', NEW ds \in objects'[i].had, ds \in live'
       PROVE  /\ OnlyRecords(ds)' => ds \in objects'[i].has
              /\ SiloOf[ds] \notin objects'[i].empty
  <2>1. OnlyRecords(ds)' => OnlyRecords(ds)
    BY <1>7, GrowsKeeps
  <2>2. CASE i = n
    <3>1. \A d \in a.had \cap live :
            (OnlyRecords(d) => d \in a.has) /\ SiloOf[d] \notin a.empty
      BY <1>2 DEF IInv, CallOK, At
    <3>2. ds \in a.had \cap live
      BY <1>2, <1>5, <1>8, <1>10, <2>2
    <3>3. QED
      BY <1>5, <1>8, <2>1, <2>2, <3>1, <3>2
  <2>3. CASE i # n
    <3>1. i \in Archives /\ objects'[i] = objects[i]
      BY <1>8, <1>10, <2>3 DEF Archives
    <3>2. QED
      BY <1>2, <1>10, <2>1, <3>1
         DEF IInv, ArchiveFaithful, RecordsPacked, NoDataMeansNone
  <2>4. QED
    BY <2>2, <2>3
<1>11. ArchiveFaithful'
  BY <1>10 DEF ArchiveFaithful, RecordsPacked, NoDataMeansNone
<1>12. QED
  BY <1>1, <1>7, <1>9, <1>11, CallsOK, TypesNext DEF IInv

\* The numbers that a result may refer to.
LEMMA Numbers ==
  ASSUME IInv
  PROVE  /\ Readable \cup {0} \subseteq 0 .. MaxObjects /\ 0 \in 0 .. MaxFiles
         /\ DOMAIN files \subseteq 1 .. MaxFiles
<1>1. /\ DOMAIN objects = 1 .. Len(objects) /\ Len(objects) \in Nat /\ MaxObjects \in Nat
      /\ DOMAIN files = 1 .. Len(files) /\ Len(files) \in Nat /\ MaxFiles \in Nat
  BY Typed, ApiAssumption DEF IInv
<1>2. Len(objects) <= MaxObjects /\ Len(files) <= MaxFiles
  BY DEF IInv, BoundsOK
<1>3. QED
  BY <1>1, <1>2 DEF Readable

LEMMA MarkResultOK ==
  ASSUME IInv, NEW c \in Calls, MarkResult(c)
  PROVE  IInv'
<1>1. Step(c)
  BY DEF Step, Mark
<1>2. /\ At(c, "result") /\ Go(c, "status")
      /\ cloud' = cloud /\ live' = live /\ request' = request /\ job' = job /\ rows' = rows
      /\ objects' = objects /\ files' = files /\ links' = links /\ promised' = promised
  BY DEF MarkResult
<1>3. PICK ds \in call[c].rows :
        results' = Append(results, [source |-> ds, kind |-> "file",
                                    object |-> call[c].number, file |-> 0])
  BY DEF MarkResult
<1>. DEFINE r == [source |-> ds, kind |-> "file", object |-> call[c].number, file |-> 0]
<1>4. call[c].rows \subseteq rows /\ call[c].number \in Readable
  BY <1>2 DEF IInv, CallOK, At
<1>5. Readable' = Readable
  BY <1>2 DEF Readable
<1>6. r \in Result /\ r.source = ds /\ r.object = call[c].number /\ r.file = 0
  <2>1. ds \in DataSources /\ call[c].number \in 0 .. MaxObjects /\ 0 \in 0 .. MaxFiles
    BY <1>4, Numbers, Typed DEF IInv
  <2>2. QED
    BY <2>1 DEF Result
<1>7. results' = Append(results, r)
  BY <1>3
<1>. HIDE DEF r
<1>8. /\ results' \in Seq(Result) /\ DOMAIN results \subseteq DOMAIN results'
      /\ \A i \in DOMAIN results : results'[i] = results[i]
      /\ ResultsOK'
  BY <1>2, <1>4, <1>5, <1>6, <1>7, Inserted
<1>9. Grows
  BY <1>2, <1>8 DEF Grows
<1>10. CallOK(c)'
  BY <1>2, Typed, SetPlace, NothingClaimed DEF IInv, Becomes, Places
<1>11. Typing'
  BY <1>1, <1>2, <1>8, <1>9, <1>10, CallsOK, Types DEF IInv, Typing
<1>12. BoundsOK' /\ FilesOK' /\ LinksOK' /\ ReturnedIsComplete'
  BY <1>2, <1>5 DEF IInv, BoundsOK, FilesOK, LinksOK, ReturnedIsComplete
<1>13. QED
  BY <1>1, <1>2, <1>8, <1>9, <1>10, <1>11, <1>12, CallsOK, Tables

LEMMA LinkSaveOK ==
  ASSUME IInv, NEW c \in Calls, LinkSave(c)
  PROVE  IInv'
<1>. DEFINE n == Len(files) + 1
<1>1. Step(c)
  BY DEF Step, Link
<1>2. /\ At(c, "linkSave") /\ Len(files) < MaxFiles /\ End(c)
      /\ files' = Append(files, call[c].number)
      /\ request' = [request EXCEPT !.file = n] /\ links' = links \cup {n}
      /\ cloud' = cloud /\ live' = live /\ job' = job /\ rows' = rows
      /\ results' = results /\ objects' = objects /\ promised' = promised
  BY DEF LinkSave, data
<1>3. call[c].number \in Readable \cup {0}
  BY <1>2 DEF IInv, CallOK, At
<1>4. /\ files' \in Seq(0 .. Len(objects')) /\ FilesOK'
      /\ Len(files') = n /\ Len(files') <= MaxFiles /\ Len(files) \in Nat
      /\ DOMAIN files' = DOMAIN files \cup {n}
      /\ links' \subseteq DOMAIN files' /\ links' \subseteq 1 .. MaxFiles
  BY <1>2, <1>3, Linked
<1>5. Grows
  BY <1>2 DEF Grows
<1>6. CallOK(c)'
  BY <1>2, Typed, CallEnds, NothingClaimed DEF IInv
<1>7. request' \in [there : BOOLEAN, file : 0 .. Len(files')] /\ request'.file = n
  <2>1. request \in [there : BOOLEAN, file : 0 .. Len(files)] /\ n \in 0 .. n
    BY <1>4, KeptHere
  <2>2. QED
    BY <1>2, <1>4, <2>1
<1>8. Typing'
  BY <1>1, <1>2, <1>4, <1>5, <1>6, <1>7, CallsOK, Types DEF IInv, Typing
<1>9. BoundsOK' /\ LinksOK' /\ ReturnedIsComplete'
  BY <1>2, <1>4, <1>7 DEF IInv, BoundsOK, LinksOK, ReturnedIsComplete
<1>10. ResultsOK'
  BY <1>2, <1>4 DEF IInv, ResultsOK, Readable
<1>11. QED
  BY <1>1, <1>2, <1>4, <1>5, <1>6, <1>8, <1>9, <1>10, CallsOK, Tables

LEMMA FileLinkSaveOK ==
  ASSUME IInv, NEW c \in Calls, FileLinkSave(c)
  PROVE  IInv'
<1>. DEFINE n == Len(files) + 1
            i == call[c].number
<1>1. Step(c)
  BY DEF Step
<1>2. /\ At(c, "fileSave") /\ Len(files) < MaxFiles /\ End(c)
      /\ files' = Append(files, results[i].object)
      /\ results' = [results EXCEPT ![i].file = n] /\ links' = links \cup {n}
      /\ cloud' = cloud /\ live' = live /\ job' = job /\ rows' = rows /\ request' = request
      /\ objects' = objects /\ promised' = promised
  BY DEF FileLinkSave
<1>3. i \in DOMAIN results
  BY <1>2 DEF IInv, CallOK, At
<1>4. results[i].object \in Readable \cup {0}
  BY <1>3 DEF IInv, ResultsOK
<1>5. /\ files' \in Seq(0 .. Len(objects')) /\ FilesOK'
      /\ Len(files') = n /\ Len(files') <= MaxFiles /\ Len(files) \in Nat
      /\ DOMAIN files' = DOMAIN files \cup {n}
      /\ links' \subseteq DOMAIN files' /\ links' \subseteq 1 .. MaxFiles
  BY <1>2, <1>4, Linked
<1>6. results \in Seq(Result) /\ n \in 0 .. MaxFiles
  <2>1. MaxFiles \in Nat /\ results \in Seq(Result)
    BY Typed, ApiAssumption DEF IInv
  <2>2. QED
    BY <1>5, <2>1
<1>7. /\ results' \in Seq(Result) /\ DOMAIN results' = DOMAIN results
      /\ \A k \in DOMAIN results :
           /\ results'[k].source = results[k].source /\ results'[k].kind = results[k].kind
           /\ results'[k].object = results[k].object
           /\ results'[k].file \in {results[k].file, n}
  <2>. DEFINE x == results[i]
              y == [x EXCEPT !.file = n]
  <2>1. x \in Result
    BY <1>3, <1>6
  <2>2. results' = [results EXCEPT ![i] = y] /\ y = [x EXCEPT !.file = n]
    BY <1>2
  <2>. HIDE DEF y
  <2>3. y \in Result /\ y.source = x.source /\ y.kind = x.kind /\ y.object = x.object
        /\ y.file = n
    BY <1>6, <2>1, <2>2 DEF Result
  <2>. HIDE DEF i
  <2>4. QED
    BY <1>3, <1>6, <2>2, <2>3
<1>. HIDE DEF i
<1>8. Grows
  BY <1>2, <1>7 DEF Grows
<1>9. CallOK(c)'
  BY <1>2, Typed, CallEnds, NothingClaimed DEF IInv
<1>10. request' \in [there : BOOLEAN, file : 0 .. Len(files')] /\ request'.file = request.file
  <2>1. request \in [there : BOOLEAN, file : 0 .. Len(files)]
        /\ 0 .. Len(files) \subseteq 0 .. Len(files')
    BY <1>5, KeptHere
  <2>2. QED
    BY <1>2, <2>1
<1>11. Typing'
  BY <1>1, <1>2, <1>5, <1>7, <1>8, <1>9, <1>10, CallsOK, Types DEF IInv, Typing
<1>12. BoundsOK' /\ LinksOK' /\ ReturnedIsComplete'
  BY <1>2, <1>5 DEF IInv, BoundsOK, LinksOK, ReturnedIsComplete
<1>13. ResultsOK'
  <2>1. Readable' = Readable
    BY <1>2 DEF Readable
  <2>2. QED
    BY <1>2, <1>5, <1>7, <2>1 DEF IInv, ResultsOK
<1>14. QED
  BY <1>1, <1>2, <1>5, <1>8, <1>9, <1>11, <1>12, <1>13, CallsOK, Tables

-----------------------------------------------------------------------------
(* What the rest of the system does. *)

\* The calls, when none of them takes a step.
LEMMA CallsStay ==
  ASSUME IInv, Grows, call' = call
  PROVE  \A c \in Calls : CallOK(c)'
BY CallKept DEF IInv

LEMMA JobsOK ==
  ASSUME IInv, Execute \/ JobEnds
  PROVE  IInv'
<1>1. /\ cloud' = cloud /\ live' = live /\ request' = request /\ rows' = rows
      /\ results' = results /\ objects' = objects /\ files' = files /\ links' = links
      /\ call' = call /\ promised' = promised /\ job' \in Jobs
  BY DEF Execute, JobEnds, Jobs
<1>2. Grows
  BY <1>1 DEF Grows
<1>3. Typing'
  BY <1>1, Types DEF IInv, Typing
<1>4. BoundsOK' /\ ResultsOK' /\ FilesOK' /\ LinksOK' /\ ReturnedIsComplete'
  BY <1>1 DEF IInv, BoundsOK, ResultsOK, FilesOK, LinksOK, ReturnedIsComplete, Readable
<1>5. QED
  BY <1>1, <1>2, <1>3, <1>4, CallsStay, Tables

LEMMA DeleteOK ==
  ASSUME IInv, NEW ds \in DataSources, Delete(ds)
  PROVE  IInv'
<1>1. /\ cloud' = cloud /\ live' = live \ {ds} /\ request' = request /\ rows' = rows
      /\ results' = results /\ objects' = objects /\ files' = files /\ links' = links
      /\ call' = call /\ promised' = promised /\ job' = job
  BY DEF Delete
<1>2. Grows
  BY <1>1 DEF Grows
<1>3. Typing'
  BY <1>1, Types DEF IInv, Typing
<1>4. BoundsOK' /\ ResultsOK' /\ FilesOK' /\ LinksOK' /\ ReturnedIsComplete'
  BY <1>1 DEF IInv, BoundsOK, ResultsOK, FilesOK, LinksOK, ReturnedIsComplete, Readable
<1>5. QED
  BY <1>1, <1>2, <1>3, <1>4, CallsStay, Tables

\* A result with no object, or with one that is stored in the same step.
LEMMA ExtractOK ==
  ASSUME IInv, NEW ds \in DataSources, Extract(ds)
  PROVE  IInv'
<1>1. /\ cloud' = cloud /\ live' = live /\ request' = request /\ rows' = rows /\ job' = job
      /\ files' = files /\ links' = links /\ call' = call /\ promised' = promised
      /\ ds \in rows
  BY DEF Extract
<1>2. /\ objects' \in Seq(Object) /\ Len(objects') <= MaxObjects
      /\ DOMAIN objects \subseteq DOMAIN objects'
      /\ \A i \in DOMAIN objects : objects'[i] = objects[i]
      /\ \A i \in DOMAIN objects' \ DOMAIN objects : objects'[i].kind = "file"
      /\ files \in Seq(0 .. Len(objects'))
      /\ \E kind \in {"records", "file"}, n \in Readable' \cup {0} :
           /\ n \in 0 .. MaxObjects
           /\ results' = Append(results, [source |-> ds, kind |-> kind,
                                          object |-> n, file |-> 0])
  <2>1. CASE UNCHANGED objects
    <3>1. 0 \in 0 .. MaxObjects
      BY Numbers
    <3>2. \E kind \in {"records", "file"} :
            results' = Append(results, [source |-> ds, kind |-> kind,
                                        object |-> 0, file |-> 0])
      <4>1. CASE objects' = Append(objects, File(TRUE))
        <5>1. objects \in Seq(Object)
          BY Typed DEF IInv
        <5>2. FALSE
          BY <2>1, <4>1, <5>1
        <5>3. QED
          BY <5>2
      <4>2. QED
        BY <4>1 DEF Extract
    <3>3. objects \in Seq(Object) /\ files \in Seq(0 .. Len(objects))
          /\ Len(objects) <= MaxObjects
      BY Typed DEF IInv, BoundsOK
    <3>4. QED
      BY <2>1, <3>1, <3>2, <3>3
  <2>2. CASE /\ Len(objects) < MaxObjects /\ objects' = Append(objects, File(TRUE))
             /\ results' = Append(results, [source |-> ds, kind |-> "file",
                                            object |-> Len(objects) + 1, file |-> 0])
    <3>. DEFINE o == File(TRUE)
                n == Len(objects) + 1
    <3>1. o \in Object /\ o.kind = "file" /\ o.there = TRUE
      BY FileType
    <3>. HIDE DEF o
    <3>2. /\ objects' \in Seq(Object) /\ n \in Nat /\ DOMAIN objects' = DOMAIN objects \cup {n}
          /\ \A i \in DOMAIN objects : objects'[i] = objects[i]
          /\ objects'[n] = o /\ Len(objects') <= MaxObjects
          /\ files \in Seq(0 .. Len(objects'))
      BY <2>2, <3>1, Stored DEF o
    <3>3. n \in Readable'
      BY <3>1, <3>2 DEF Readable
    <3>4. n \in 0 .. MaxObjects
      BY <2>2, <3>2, ApiAssumption, Typed DEF IInv
    <3>5. \A i \in DOMAIN objects' \ DOMAIN objects : objects'[i].kind = "file"
      BY <3>1, <3>2
    <3>6. QED
      BY <2>2, <3>2, <3>3, <3>4, <3>5
  <2>3. QED
    BY <2>1, <2>2 DEF Extract
<1>3. PICK kind \in {"records", "file"}, n \in Readable' \cup {0} :
        /\ n \in 0 .. MaxObjects
        /\ results' = Append(results, [source |-> ds, kind |-> kind, object |-> n, file |-> 0])
  BY <1>2
<1>. DEFINE r == [source |-> ds, kind |-> kind, object |-> n, file |-> 0]
<1>4. r \in Result /\ r.source = ds /\ r.object = n /\ r.file = 0
  BY <1>3, Numbers DEF Result
<1>5. results' = Append(results, r)
  BY <1>3
<1>. HIDE DEF r
<1>6. Readable \subseteq Readable'
  BY <1>1, <1>2 DEF Readable
<1>7. /\ results' \in Seq(Result) /\ DOMAIN results \subseteq DOMAIN results'
      /\ \A i \in DOMAIN results : results'[i] = results[i]
      /\ ResultsOK'
  BY <1>1, <1>4, <1>5, <1>6, Inserted
<1>8. Grows
  BY <1>1, <1>2, <1>7 DEF Grows
<1>9. Typing'
  BY <1>1, <1>2, <1>7, Types DEF IInv, Typing
<1>10. BoundsOK' /\ FilesOK' /\ LinksOK' /\ ReturnedIsComplete'
  BY <1>1, <1>2, <1>6 DEF IInv, BoundsOK, FilesOK, LinksOK, ReturnedIsComplete
<1>11. QED
  BY <1>1, <1>2, <1>7, <1>8, <1>9, <1>10, CallsStay, Tables

-----------------------------------------------------------------------------
(* The theorems. *)

LEMMA NextOK ==
  ASSUME IInv, [Next]_vars
  PROVE  IInv'
<1>1. ASSUME NEW c \in Calls, Step(c) PROVE IInv'
  <2>1. CASE Create(c) \/ Mark(c) \/ Link(c) \/ FileLinkSave(c) \/ Fail(c)
    BY <2>1, CreateOK, UploadOK, MarkResultOK, MarkEndsOK, LinkReadsOK, LinkStoreOK,
       LinkSaveOK, FileLinkSaveOK DEF Mark, Link
  <2>2. CASE \E ds \in DataSources : CreateRow(c, ds) \/ MarkStart(c, ds)
    BY <2>2, CreateRowOK, MarkStartOK
  <2>3. CASE \E i \in DOMAIN results : FileLinkStart(c, i)
    BY <2>3, FileLinkStartOK
  <2>4. QED
    BY <1>1, <2>1, <2>2, <2>3 DEF Step
<1>2. CASE Outside
  BY <1>2, JobsOK, ExtractOK, DeleteOK DEF Outside
<1>3. CASE UNCHANGED vars
  <2>1. UNCHANGED same /\ UNCHANGED request /\ UNCHANGED links /\ UNCHANGED call
        /\ UNCHANGED promised
    BY <1>3 DEF vars, same
  <2>2. Grows
    BY <2>1 DEF same, Grows
  <2>3. call' \in [Calls -> CallState]
    BY <2>1, Typed DEF IInv
  <2>4. QED
    BY <2>1, <2>2, <2>3, CallsStay, KeptHere, OnlyCall
<1>4. QED
  BY <1>1, <1>2, <1>3, NextParts

\* The invariant: what the tables refer to is there, and what a call has read stays true.
THEOREM ApiInvariance == Spec => []IInv
BY InitOK, NextOK, PTL DEF Spec

\* The types, and that what a number refers to is there.
THEOREM ApiTypes == Spec => []TypeOK
<1>1. IInv => TypeOK
  BY DEF IInv
<1>2. QED
  BY <1>1, ApiInvariance, PTL

\* A request that was returned has the row of every data source it was created for, although
\* CreateUserDataRequest inserts them one by one outside its transaction.
THEOREM RequestsComplete == Spec => []ReturnedIsComplete
<1>1. IInv => ReturnedIsComplete
  BY DEF IInv
<1>2. QED
  BY <1>1, ApiInvariance, PTL

\* Every link that GenerateRequestDownloadLink or GenerateQueryResultDownloadLink has handed
\* out is a row, and with a directory for a store its object can be read.
THEOREM LinksAreServed == Spec => []LinksServed
<1>1. IInv => LinksServed
  <2>1. SUFFICES ASSUME IInv, NEW f \in links
                 PROVE  f \in DOMAIN files /\ (~ cloud /\ files[f] # 0 => Served(f))
    BY DEF LinksServed
  <2>2. f \in DOMAIN files
    BY <2>1 DEF IInv, LinksOK
  <2>3. ASSUME ~ cloud, files[f] # 0 PROVE Served(f)
    BY <2>2, <2>3, <2>1 DEF IInv, FilesOK, Readable, Served
  <2>4. QED
    BY <2>2, <2>3
<1>2. QED
  BY <1>1, ApiInvariance, PTL

\* Every archive that GenerateRequestTar has built holds the records that were there when it
\* was begun, and calls no silo empty that had a result, unless a data source was deleted.
THEOREM ArchivesFaithful == Spec => []ArchiveFaithful
<1>1. IInv => ArchiveFaithful
  BY DEF IInv
<1>2. QED
  BY <1>1, ApiInvariance, PTL

=============================================================================
