--------------------------- MODULE RequestResults ---------------------------
(***************************************************************************)
(* The two activities that move a user's data: StartSiloRequestActivity    *)
(* asks the connector of one silo for handles and stores them,             *)
(* ProcessRequestResults sends the handles back and stores the records.    *)
(* SiloRequest sees each of them as one step; here an activity is what it  *)
(* is for Temporal, a number of attempts.  An attempt that is past its     *)
(* deadline is given up and repeated, and its answer is ignored, but       *)
(* nothing stops it: it may still write to the database.  A data source    *)
(* whose export is still in progress is polled, which is in SiloRequest.   *)
(*                                                                         *)
(* A handle, and a row of query_results, is known by the attempt that      *)
(* stored it.                                                              *)
(***************************************************************************)
EXTENDS Naturals, FiniteSets

CONSTANTS
  DataSources,   \* those of the silo with a row for the request
  IsQuery,       \* the type of the request: a query, or a deletion
  Faults,        \* what may go wrong
  MaxAttempts,   \* MaximumAttempts of the retry policy
  MaxRecords,    \* bound: records of a data source
  MaxGivenUp     \* bound: attempts that are given up, of both activities together

\* "connector": a container fails; "deadline": an attempt takes too long or its
\* worker stops; "store": a single write to the database or the file store fails.
FaultKinds == {"connector", "deadline", "store"}

ASSUME ResultsAssumption ==
  /\ IsQuery \in BOOLEAN
  /\ Faults \subseteq FaultKinds
  /\ MaxAttempts \in Nat \ {0}
  /\ MaxRecords \in Nat \ {0}
  /\ MaxGivenUp \in Nat

VARIABLES
  class,      \* what the start activity finds of each data source
  seen,       \* what its latest attempt has found
  handle,     \* request_statuses.request_handle: the attempt that stored it, 0 for none
  results,    \* the rows of query_results
  phase,      \* the activity at work, or how the execution has ended
  item,       \* the item that the workflow holds for each data source
  tries,      \* how many attempts of each activity have begun
  givenUp,    \* those that Temporal waits for no longer
  place,      \* where each attempt is
  good,       \* those whose containers have ended with exit code 0
  asked,      \* data sources it has asked the connector about; then: it has still to store
  used,       \* of an extraction: the handles it has read and sent
  got,        \* messages it has received about each data source
  bad         \* data sources that it answers with an error

attempt == <<tries, givenUp, place, good, asked, used, got, bad>>
vars    == <<class, seen, handle, results, phase, item, attempt>>

Activities == {"start", "extract"}
Attempts   == 1 .. MaxAttempts

\* The first test of the start activity that applies: the row is EXECUTED; the schema
\* of the connector lacks the data source; no property is a primary key; the request
\* has no value for one that is; or none of these.
Classes == {"executed", "noSchema", "unlinked", "noValue", "open"}

\* The data types of an answer.
DataTypes == {"nothing", "records", "file"}
Items     == {"none", "complete", "error", "ok"} \cup DataTypes

\* A row of query_results.  "empty" is the path of a file that could not be copied.
Row == [source : DataSources, attempt : Attempts, handle : 0 .. MaxAttempts,
        records : 1 .. MaxRecords, path : {"none", "object", "empty"}]

Of(c) == {ds \in DataSources : class[ds] = c}

\* Something of each attempt of each activity, and the same with one entry changed.
Table(S) == [Activities -> [Attempts -> S]]
Set(f, a, n, x) == [f EXCEPT ![a][n] = x]

Init ==
  /\ class \in [DataSources -> Classes] /\ seen = class
  /\ handle = [ds \in DataSources |-> 0]
  /\ results = {}
  /\ phase = "start"
  /\ item = [ds \in DataSources |-> "none"]
  /\ tries = [a \in Activities |-> 0]
  /\ givenUp = [a \in Activities |-> {}]
  /\ place = [a \in Activities |-> [n \in Attempts |-> "idle"]]
  /\ good = [a \in Activities |-> {}]
  /\ asked = [a \in Activities |-> [n \in Attempts |-> {}]]
  /\ used = [n \in Attempts |-> [ds \in DataSources |-> 0]]
  /\ got = [a \in Activities |-> [n \in Attempts |-> [ds \in DataSources |-> 0]]]
  /\ bad = [a \in Activities |-> [n \in Attempts |-> {}]]

-----------------------------------------------------------------------------
(* Temporal: attempts and retries. *)

\* The last attempt of activity a has failed or was given up; or there was none.
Lost(a) ==
  tries[a] \in {0} \cup givenUp[a] \cup {n \in Attempts : place[a][n] = "failed"}

\* Mutant: the retry policy has no limit.
BeginForever(a, p, D) ==
  /\ phase = a /\ Lost(a) /\ tries[a] <= MaxAttempts
  /\ tries' = [tries EXCEPT ![a] = @ + 1]
  /\ place' = Set(place, a, tries[a] + 1, p)
  /\ asked' = Set(asked, a, tries[a] + 1, D)
  /\ UNCHANGED <<givenUp, good, got, bad>>

\* The next attempt of the activity at work begins, at place p, with the data sources D
\* to ask about.
Begin(a, p, D) ==
  /\ phase = a /\ Lost(a) /\ tries[a] < MaxAttempts
  /\ tries' = [tries EXCEPT ![a] = @ + 1]
  /\ place' = Set(place, a, tries[a] + 1, p)
  /\ asked' = Set(asked, a, tries[a] + 1, D)
  /\ UNCHANGED <<givenUp, good, got, bad>>

\* The deadline of the running attempt passes, or its worker is gone.
GiveUp(a) ==
  /\ "deadline" \in Faults
  /\ phase = a /\ ~ Lost(a)
  /\ Cardinality(givenUp["start"]) + Cardinality(givenUp["extract"]) < MaxGivenUp
  /\ givenUp' = [givenUp EXCEPT ![a] = @ \cup {tries[a]}]
  /\ UNCHANGED <<class, seen, handle, results, phase, item, tries, place, good, asked, used, got, bad>>

\* No attempt is left: the activity fails, and the workflow with it.
Exhausted(a) ==
  /\ phase = a /\ Lost(a) /\ tries[a] = MaxAttempts
  /\ phase' = "failed"
  /\ UNCHANGED <<class, seen, handle, results, item, attempt>>

-----------------------------------------------------------------------------
(* An attempt. *)

\* The start activity reads the data sources and their rows, and runs its commands.  (The
\* schema is asked for even when no data source is open.)  A data source without a value
\* for its primary key makes the attempt panic (err.Error() of a nil err).
BeginStart ==
  /\ IF Of("noValue") # {}
       THEN Begin("start", "failed", {})
       ELSE Begin("start", "run", Of("open"))
  /\ seen' = class
  /\ UNCHANGED <<class, handle, results, phase, item, used>>

\* The extraction reads the handles of the rows whose answers carry data.
BeginExtract ==
  LET D == {ds \in DataSources : item[ds] \in {"records", "file"}} IN
  /\ Begin("extract", IF D = {} THEN "store" ELSE "run", D)
  /\ used' = [used EXCEPT ![tries["extract"] + 1] = handle]
  /\ UNCHANGED <<class, seen, handle, results, phase, item>>

\* Mutant: a handle is stored as soon as it arrives, before the exit code is known.
ReceiveStored(a, n, ds) ==
  /\ place[a][n] = "run" /\ ds \in asked[a][n]
  /\ got[a][n][ds] < IF a = "start" THEN 1 ELSE MaxRecords
  /\ got' = Set(got, a, n, [got[a][n] EXCEPT ![ds] = @ + 1])
  /\ handle' = IF a = "start" THEN [handle EXCEPT ![ds] = n] ELSE handle
  /\ UNCHANGED <<class, seen, results, phase, item, tries, givenUp, place, good, asked, used, bad>>

\* A message of the connector about a data source that was asked for: a handle with its
\* status, or a record.  (One about another is logged and skipped.)
Receive(a, n, ds) ==
  /\ place[a][n] = "run" /\ ds \in asked[a][n]
  /\ got[a][n][ds] < IF a = "start" THEN 1 ELSE MaxRecords
  /\ got' = Set(got, a, n, [got[a][n] EXCEPT ![ds] = @ + 1])
  /\ UNCHANGED <<class, seen, handle, results, phase, item, tries, givenUp, place, good, asked,
                 used, bad>>

\* The stream ends and the exit code is read, and with 0 what was received is to be stored.
\* The code of an attempt whose context has ended is always 0, that of a closed channel,
\* whatever its container did or would have done.
Exit(a, n) ==
  /\ place[a][n] = "run"
  /\ \/ /\ place' = Set(place, a, n, "store")
        /\ asked' = Set(asked, a, n, {ds \in asked[a][n] : got[a][n][ds] > 0})
        /\ \/ good' = [good EXCEPT ![a] = @ \cup {n}]
           \/ n \in givenUp[a] /\ UNCHANGED good
     \/ /\ "connector" \in Faults \/ n \in givenUp[a]
        /\ place' = Set(place, a, n, "failed")
        /\ UNCHANGED <<good, asked>>
  /\ UNCHANGED <<class, seen, handle, results, phase, item, tries, givenUp, used, got, bad>>

\* The next data source is taken from those to store.
Taken(a, n, ds) ==
  /\ place[a][n] = "store" /\ ds \in asked[a][n]
  /\ asked' = Set(asked, a, n, asked[a][n] \ {ds})
  /\ UNCHANGED <<class, seen, phase, item, tries, givenUp, good, used, got>>

\* Mutant: a handle that cannot be stored is only logged.
StoreHandleLogged(n, ds) ==
  /\ Taken("start", n, ds)
  /\ \/ handle' = [handle EXCEPT ![ds] = n]
     \/ "store" \in Faults /\ UNCHANGED handle
  /\ UNCHANGED <<results, place, bad>>

\* The start activity stores a handle.
StoreHandle(n, ds) ==
  /\ Taken("start", n, ds)
  /\ \/ handle' = [handle EXCEPT ![ds] = n] /\ UNCHANGED bad
     \/ /\ "store" \in Faults
        /\ bad' = Set(bad, "start", n, bad["start"][n] \cup {ds})
        /\ UNCHANGED handle
  /\ UNCHANGED <<results, place>>

\* What the extraction has got of a data source.  A file that cannot be copied is only
\* logged; a file without a name leaves the path empty too.
Rows(n, ds) ==
  [source : {ds}, attempt : {n}, handle : {used[n][ds]}, records : {got["extract"][n][ds]},
   path : IF item[ds] = "file" THEN {"object", "empty"} ELSE {"none"}]

\* Mutant: an insert that fails makes the whole attempt fail.
StoreResultOrFail(n, ds) ==
  /\ Taken("extract", n, ds)
  /\ \/ /\ IsQuery /\ results' \in {results \cup {r} : r \in Rows(n, ds)}
        /\ UNCHANGED place
     \/ /\ IsQuery /\ "store" \in Faults
        /\ place' = Set(place, "extract", n, "failed")
        /\ UNCHANGED results
     \/ ~ IsQuery /\ UNCHANGED <<results, place>>
  /\ UNCHANGED <<handle, bad>>

\* Mutant: an insert that fails is only logged.
StoreResultLogged(n, ds) ==
  /\ Taken("extract", n, ds)
  /\ \/ IsQuery /\ results' \in {results \cup {r} : r \in Rows(n, ds)}
     \/ ("store" \in Faults \/ ~ IsQuery) /\ UNCHANGED results
  /\ UNCHANGED <<handle, place, bad>>

\* The extraction inserts the row of a data source, when the request is a query.
StoreResult(n, ds) ==
  /\ Taken("extract", n, ds)
  /\ \/ IsQuery /\ results' \in {results \cup {r} : r \in Rows(n, ds)} /\ UNCHANGED bad
     \/ /\ IsQuery /\ "store" \in Faults
        /\ bad' = Set(bad, "extract", n, bad["extract"][n] \cup {ds})
        /\ UNCHANGED results
     \/ ~ IsQuery /\ UNCHANGED <<results, bad>>
  /\ UNCHANGED <<handle, place>>

\* The running attempt of activity a has stored everything and is still waited for.
Answers(a) ==
  LET n == tries[a] IN
  /\ phase = a /\ n > 0 /\ n \notin givenUp[a]
  /\ place[a][n] = "store" /\ asked[a][n] = {}
  /\ place' = Set(place, a, n, "returned")
  /\ UNCHANGED <<class, seen, handle, results, tries, givenUp, good, asked, used, got, bad>>

\* The items of the start activity, with the data types of the answers.  Data sources
\* that were asked for and not answered are errors ("No handle provided").
ReturnStart ==
  LET n        == tries["start"]
      answered == {ds \in DataSources : got["start"][n][ds] > 0} \ bad["start"][n]
  IN  /\ Answers("start")
      /\ \E type \in [answered -> DataTypes] :
            item' = [ds \in DataSources |->
                      IF ds \in answered THEN type[ds]
                      ELSE IF seen[ds] \in {"executed", "unlinked"}
                        THEN "complete"
                        ELSE "error"]
      /\ phase' = IF answered = {} THEN "done" ELSE "extract"

\* The items of the extraction.
ReturnExtract ==
  /\ Answers("extract")
  /\ item' = [ds \in DataSources |->
               IF item[ds] \notin DataTypes THEN item[ds]
               ELSE IF ds \in bad["extract"][tries["extract"]] THEN "error" ELSE "ok"]
  /\ phase' = "done"

-----------------------------------------------------------------------------
\* A user marks a row as executed.  (Later in the execution nothing reads it here.)
Mark(ds) ==
  /\ phase = "start" /\ class[ds] # "executed"
  /\ class' = [class EXCEPT ![ds] = "executed"]
  /\ UNCHANGED <<seen, handle, results, phase, item, attempt>>

Next ==
  \/ BeginStart \/ ReturnStart \/ BeginExtract \/ ReturnExtract
  \/ \E a \in Activities : GiveUp(a) \/ Exhausted(a)
  \/ \E a \in Activities, n \in Attempts : Exit(a, n)
  \/ \E a \in Activities, n \in Attempts, ds \in DataSources : Receive(a, n, ds)
  \/ \E n \in Attempts, ds \in DataSources : StoreHandle(n, ds) \/ StoreResult(n, ds)
  \/ \E ds \in DataSources : Mark(ds)

Spec == Init /\ [][Next]_vars

-----------------------------------------------------------------------------
(* Properties. *)

\* The variables hold what their comments say.
TypeOK ==
  /\ class \in [DataSources -> Classes]
  /\ seen \in [DataSources -> Classes]
  /\ handle \in [DataSources -> 0 .. MaxAttempts]
  /\ results \subseteq Row
  /\ phase \in Activities \cup {"done", "failed"}
  /\ item \in [DataSources -> Items]
  /\ tries \in [Activities -> 0 .. MaxAttempts]
  /\ givenUp \in [Activities -> SUBSET Attempts]
  /\ place \in Table({"idle", "run", "store", "failed", "returned"})
  /\ good \in [Activities -> SUBSET Attempts]
  /\ asked \in Table(SUBSET DataSources)
  /\ used \in [Attempts -> [DataSources -> 0 .. MaxAttempts]]
  /\ got \in Table([DataSources -> 0 .. MaxRecords])
  /\ bad \in Table(SUBSET DataSources)

\* The activities rely on containers that have ended with exit code 0, with one exception.
\* What is answered comes from such a container.  So does what is stored (a handle that
\* was received for its data source; all the records that an attempt has received, for a
\* handle that was received in turn), unless the attempt that stored it was given up: the
\* ended context hides the exit code from it.
TrustedOnly ==
  /\ \A ds \in DataSources :
       /\ item[ds] \in DataTypes => tries["start"] \in good["start"]
       /\ (item[ds] = "ok" /\ got["extract"][tries["extract"]][ds] > 0) =>
            tries["extract"] \in good["extract"]
       /\ handle[ds] # 0 =>
            /\ got["start"][handle[ds]][ds] > 0
            /\ handle[ds] \in good["start"] \cup givenUp["start"]
  /\ \A r \in results :
       /\ r.attempt \in good["extract"] \cup givenUp["extract"]
       /\ r.records = got["extract"][r.attempt][r.source]
       /\ r.handle # 0 /\ got["start"][r.handle][r.source] > 0

\* A data source that the start activity reports on has its handle when the extraction
\* looks for it: that of the attempt which has answered, unless a late one was faster.
AnswersHaveHandles ==
  \A ds \in DataSources :
    item[ds] \in DataTypes =>
      \/ handle[ds] = tries["start"]
      \/ handle[ds] \in givenUp["start"]

\* The results of a data source come from different attempts, and all but one of them
\* from attempts that were given up: without those every result is stored once.
ResultOnce ==
  /\ \A r, s \in results : r.source = s.source /\ r.attempt = s.attempt => r = s
  /\ \A r \in results : r.attempt \in givenUp["extract"] \/ r.attempt = tries["extract"]

\* A data source that the extraction reports as done has its result, when the connector
\* has sent any.
DoneHasResult ==
  (phase = "done" /\ IsQuery) =>
    \A ds \in DataSources :
      (item[ds] = "ok" /\ got["extract"][tries["extract"]][ds] > 0) =>
        \E r \in results : r.source = ds /\ r.attempt = tries["extract"]
=============================================================================
