----------------------------- MODULE RequestApi -----------------------------
(***************************************************************************)
(* The calls of the API around one request: CreateUserDataRequest,         *)
(* UpdateRequestStatus with a file, GenerateRequestDownloadLink with the   *)
(* archive that it builds, GenerateQueryResultDownloadLink, and the        *)
(* download.  Calls run side by side, and a call is as many steps as it    *)
(* has statements that read or write: none of them holds a lock, and the   *)
(* transaction of CreateUserDataRequest is not used by what is inside it.  *)
(* What executions do in between is seen by the rows they write; how they  *)
(* come to it is SiloRequest, RequestJob and RequestResults.               *)
(***************************************************************************)
EXTENDS Naturals, Sequences

CONSTANTS
  DataSources,   \* those that the workspace ever has
  Silos, SiloOf, \* the silo definition of each data source
  Calls,         \* the calls that are made: any of them at the same time, each once
  Faults,        \* what may go wrong
  MaxResults,    \* bound: rows of query_results
  MaxObjects,    \* bound: objects in the file store
  MaxFiles       \* bound: rows of downloadable_files

\* "write": a statement or an upload fails; "close": the last part of an object cannot be
\* written when its writer is closed, which no caller looks at.
FaultKinds == {"write", "close"}

ASSUME ApiAssumption ==
  /\ SiloOf \in [DataSources -> Silos]
  /\ Faults \subseteq FaultKinds
  /\ MaxResults \in Nat /\ MaxObjects \in Nat /\ MaxFiles \in Nat

VARIABLES
  cloud,     \* the file store is a bucket; otherwise it is a directory
  live,      \* data_sources: the rows that are not deleted; one found later has no part here
  request,   \* the row of requests: it is there, and its downloadable_file_id
  rows,      \* request_statuses: the data sources that have one; what it says is not read here
  job,       \* the status of the job that the request links to
  results,   \* query_results, in the order of their insertion
  objects,   \* the file store
  files,     \* downloadable_files: the object of each
  links,     \* the files that were handed out
  call,      \* what each running call knows
  promised   \* history: the data sources of a request that was returned

data == <<live, rows, job, results>>
vars == <<cloud, live, request, rows, job, results, objects, files, links, call, promised>>

\* A job is "completed" when it is EXECUTED or PARTIAL_FAILED, and "open" with any other status.
Jobs     == {"none", "open", "completed"}

\* A row of query_results.  object 0 is an empty path, or none; file 0: no link was made.
Result == [source : DataSources, kind : {"records", "file"},
           object : 0 .. MaxObjects, file : 0 .. MaxFiles]

\* An object: a file that was uploaded or extracted, or the archive of the request.  has:
\* the data sources with a file in it; empty: the silos with a no-data.txt; had is history:
\* the data sources that had a result when the archive was begun.
Object == [kind : {"file", "archive"}, there : BOOLEAN,
           has : SUBSET DataSources, empty : SUBSET Silos, had : SUBSET DataSources]

File(there) == [kind |-> "file", there |-> there, has |-> {}, empty |-> {}, had |-> {}]

\* What a call knows: what it does and where it is; the rows it has still to insert or has
\* read; the archive it has built; the object or result it works on.
NoArchive == [has |-> {}, empty |-> {}, had |-> {}]
Idle      == [at |-> "idle", rows |-> {}, archive |-> NoArchive, number |-> 0]
Places    == {"idle", "over", "values", "silos", "rows", "upload", "result", "status",
              "linkRows", "linkSources", "linkResults", "linkStore", "linkSave", "fileSave"}

Go(c, p)  == call' = [call EXCEPT ![c].at = p]
End(c)    == call' = [call EXCEPT ![c] = [Idle EXCEPT !.at = "over"]]
At(c, p)  == call[c].at = p
MayFail   == "write" \in Faults

\* A statement of the call fails, and the call with it.
Fail(c) ==
  /\ MayFail /\ call[c].at \notin {"idle", "over"}
  /\ End(c)
  /\ UNCHANGED <<cloud, request, objects, files, links, promised, data>>

Init ==
  /\ cloud \in BOOLEAN
  /\ live = DataSources
  /\ request = [there |-> FALSE, file |-> 0]
  /\ rows = {}
  /\ job = "none"
  /\ results = << >> /\ objects = << >> /\ files = << >>
  /\ links = {} /\ promised = {}
  /\ call = [c \in Calls |-> Idle]

-----------------------------------------------------------------------------
(* CreateUserDataRequest *)

\* The row of the request is inserted, outside the transaction.
CreateRequest(c) ==
  /\ At(c, "idle") /\ ~ request.there
  /\ request' = [request EXCEPT !.there = TRUE]
  /\ Go(c, "values")
  /\ UNCHANGED <<cloud, objects, files, links, promised, data>>

\* The values of the primary keys are inserted; when the workspace has none of the keys
\* the list is empty, which is an error.
CreateValues(c) ==
  /\ At(c, "values")
  /\ \/ Go(c, "silos")
     \/ End(c)
  /\ UNCHANGED <<cloud, request, objects, files, links, promised, data>>

\* The data sources of the workspace are read.
CreateRead(c) ==
  /\ At(c, "silos")
  /\ call' = [call EXCEPT ![c].at = "rows", ![c].rows = live, ![c].archive.had = live]
  /\ UNCHANGED <<cloud, request, objects, files, links, promised, data>>

\* Mutant: an insert that fails is only logged.
CreateRowLogged(c, ds) ==
  /\ At(c, "rows") /\ ds \in call[c].rows
  /\ \/ rows' = rows \cup {ds}
     \/ MayFail /\ UNCHANGED rows
  /\ call' = [call EXCEPT ![c].rows = @ \ {ds}]
  /\ UNCHANGED <<cloud, live, request, job, results, objects, files, links, promised>>

\* The row of one of them is inserted.
CreateRow(c, ds) ==
  /\ At(c, "rows") /\ ds \in call[c].rows
  /\ rows' = rows \cup {ds}
  /\ call' = [call EXCEPT ![c].rows = @ \ {ds}]
  /\ UNCHANGED <<cloud, live, request, job, results, objects, files, links, promised>>

\* The request is returned.
CreateReturn(c) ==
  /\ At(c, "rows") /\ call[c].rows = {}
  /\ promised' = call[c].archive.had
  /\ End(c)
  /\ UNCHANGED <<cloud, request, objects, files, links, data>>

-----------------------------------------------------------------------------
(* UpdateRequestStatus: a mark by a user with a file; one without touches nothing here. *)

MarkStart(c, ds) ==
  /\ At(c, "idle") /\ ds \in rows
  /\ call' = [call EXCEPT ![c].at = "upload", ![c].rows = {ds}]
  /\ UNCHANGED <<cloud, request, objects, files, links, promised, data>>

\* The file is copied into the store.  Its writer is never closed: a directory has the file
\* already, a bucket will never have it.
Upload(c) ==
  /\ At(c, "upload") /\ Len(objects) < MaxObjects
  /\ objects' = Append(objects, File(~ cloud))
  /\ call' = [call EXCEPT ![c].at = "result", ![c].number = Len(objects) + 1]
  /\ UNCHANGED <<cloud, request, files, links, promised, data>>

\* Its result is inserted.
MarkResult(c) ==
  /\ At(c, "result") /\ Len(results) < MaxResults
  /\ \E ds \in call[c].rows :
       results' = Append(results, [source |-> ds, kind |-> "file",
                                   object |-> call[c].number, file |-> 0])
  /\ Go(c, "status")
  /\ UNCHANGED <<cloud, live, request, rows, job, objects, files, links, promised>>

\* The status is updated, and the workflow is signalled: what comes of it is RequestJob.
MarkStatus(c) ==
  /\ At(c, "status")
  /\ End(c)
  /\ UNCHANGED <<cloud, request, objects, files, links, promised, data>>

-----------------------------------------------------------------------------
(* GenerateRequestDownloadLink, GenerateRequestTar *)

\* The data sources with a result.
WithResult == {results[i].source : i \in DOMAIN results}

\* The request and its job are read.  A request that is not completed has no link; one
\* with an archive gets the link to it.
LinkStart(c) ==
  /\ At(c, "idle") /\ request.there /\ job = "completed"
  /\ IF request.file # 0
       THEN links' = links \cup {request.file} /\ End(c)
       ELSE /\ call' = [call EXCEPT ![c].at = "linkRows", ![c].archive.had = WithResult]
            /\ UNCHANGED links
  /\ UNCHANGED <<cloud, request, objects, files, promised, data>>

\* The rows of the request are read,
LinkRows(c) ==
  /\ At(c, "linkRows")
  /\ call' = [call EXCEPT ![c].at = "linkSources",
                          ![c].rows = rows]
  /\ UNCHANGED <<cloud, request, objects, files, links, promised, data>>

\* then their data sources: the row of a deleted one has no silo and is left out,
LinkSources(c) ==
  /\ At(c, "linkSources")
  /\ call' = [call EXCEPT ![c].at = "linkResults",
                          ![c].rows = @ \cap live]
  /\ UNCHANGED <<cloud, request, objects, files, links, promised, data>>

\* Mutant: a silo is without data when no file could be added.
EmptySilosAdded(found, has) ==
  {s \in Silos : \A ds \in has : SiloOf[ds] # s}

\* A silo is without data when none of its data sources has a result.
EmptySilos(found, has) ==
  {s \in Silos : \A ds \in found : SiloOf[ds] # s}

\* Mutant: one result is loaded, instead of one for each row.
LinkResultsOne(c) ==
  /\ At(c, "linkResults")
  /\ \E picked \in SUBSET (DOMAIN results) :
       /\ \A i, j \in picked : i = j
       /\ LET found == {results[k].source : k \in picked}
              has   == {results[k].source : k \in {n \in picked : results[n].kind = "records"}}
          IN  /\ found \subseteq call[c].rows /\ (found = {} => WithResult \cap call[c].rows = {})
              /\ call' = [call EXCEPT ![c].at = "linkStore", ![c].rows = {},
                            ![c].archive.has = has, ![c].archive.empty = EmptySilos(found, has)]
  /\ UNCHANGED <<cloud, request, objects, files, links, promised, data>>

\* then their results, of each one whichever comes last; and the archive is built.  The
\* records become a file of it.  A result that is a file is skipped: its path is one of
\* the store, and it is opened as one of the disk.
LinkResults(c) ==
  /\ At(c, "linkResults")
  /\ \E picked \in SUBSET (DOMAIN results) :
       /\ \A i, j \in picked : results[i].source = results[j].source => i = j
       /\ LET found == {results[k].source : k \in picked}
              has   == {results[k].source : k \in {n \in picked : results[n].kind = "records"}}
          IN  /\ found = WithResult \cap call[c].rows
              /\ call' = [call EXCEPT ![c].at = "linkStore", ![c].rows = {},
                            ![c].archive.has = has, ![c].archive.empty = EmptySilos(found, has)]
  /\ UNCHANGED <<cloud, request, objects, files, links, promised, data>>

\* The archive is written to the store.
LinkStore(c) ==
  /\ At(c, "linkStore") /\ Len(objects) < MaxObjects
  /\ \E there \in {TRUE} \cup (IF cloud /\ "close" \in Faults THEN {FALSE} ELSE {}) :
       objects' = Append(objects, [kind |-> "archive", there |-> there,
                                   has |-> call[c].archive.has,
                                   empty |-> call[c].archive.empty,
                                   had |-> call[c].archive.had])
  /\ call' = [call EXCEPT ![c].at = "linkSave", ![c].number = Len(objects) + 1]
  /\ UNCHANGED <<cloud, request, files, links, promised, data>>

\* Mutant: the row is not inserted.
LinkSaveOnly(c) ==
  /\ At(c, "linkSave") /\ Len(files) < MaxFiles
  /\ request' = [request EXCEPT !.file = Len(files) + 1]
  /\ links' = links \cup {Len(files) + 1}
  /\ End(c)
  /\ UNCHANGED <<cloud, objects, files, promised, data>>

\* Its row is inserted and linked to the request, whatever that links to by now.
LinkSave(c) ==
  /\ At(c, "linkSave") /\ Len(files) < MaxFiles
  /\ files' = Append(files, call[c].number)
  /\ request' = [request EXCEPT !.file = Len(files) + 1]
  /\ links' = links \cup {Len(files) + 1}
  /\ End(c)
  /\ UNCHANGED <<cloud, objects, promised, data>>

-----------------------------------------------------------------------------
(* GenerateQueryResultDownloadLink, HandleDownload *)

\* Mutant: the link is handed out before its row is committed.
FileLinkStartEarly(c, i) ==
  /\ At(c, "idle") /\ results[i].kind = "file" /\ results[i].file = 0
  /\ call' = [call EXCEPT ![c].at = "fileSave", ![c].number = i]
  /\ links' = links \cup {Len(files) + 1}
  /\ UNCHANGED <<cloud, request, objects, files, promised, data>>

FileLinkStart(c, i) ==
  /\ At(c, "idle") /\ results[i].kind = "file"
  /\ IF results[i].file # 0
       THEN links' = links \cup {results[i].file} /\ End(c)
       ELSE /\ call' = [call EXCEPT ![c].at = "fileSave", ![c].number = i]
            /\ UNCHANGED links
  /\ UNCHANGED <<cloud, request, objects, files, promised, data>>

FileLinkSave(c) ==
  /\ At(c, "fileSave") /\ Len(files) < MaxFiles
  /\ files' = Append(files, results[call[c].number].object)
  /\ results' = [results EXCEPT ![call[c].number].file = Len(files) + 1]
  /\ links' = links \cup {Len(files) + 1}
  /\ End(c)
  /\ UNCHANGED <<cloud, live, request, rows, job, objects, promised>>

\* A download succeeds: the row of the link is found, and its object can be read.
Served(f) == f \in DOMAIN files /\ files[f] # 0 /\ objects[files[f]].there

-----------------------------------------------------------------------------
(* What else writes the rows. *)

\* ExecuteUserDataRequest links a new job; a job ends.
Execute ==
  /\ request.there
  /\ job' = "open"
  /\ UNCHANGED <<cloud, live, request, rows, results, objects, files, links, call, promised>>

JobEnds ==
  /\ job = "open"
  /\ job' = "completed"
  /\ UNCHANGED <<cloud, live, request, rows, results, objects, files, links, call, promised>>

\* An extraction inserts a result; the job may have ended by then, when the attempt is a
\* late one.  A file that could not be copied has no path.
Extract(ds) ==
  /\ job # "none" /\ ds \in rows /\ Len(results) < MaxResults
  /\ \/ /\ results' = Append(results, [source |-> ds, kind |-> "records", object |-> 0, file |-> 0])
        /\ UNCHANGED objects
     \/ /\ Len(objects) < MaxObjects
        /\ objects' = Append(objects, File(TRUE))
        /\ results' = Append(results, [source |-> ds, kind |-> "file",
                                       object |-> Len(objects) + 1, file |-> 0])
     \/ /\ results' = Append(results, [source |-> ds, kind |-> "file", object |-> 0, file |-> 0])
        /\ UNCHANGED objects
  /\ UNCHANGED <<cloud, live, request, rows, job, files, links, call, promised>>

\* A data source is deleted; its rows and results stay.
Delete(ds) ==
  /\ ds \in live
  /\ live' = live \ {ds}
  /\ UNCHANGED <<cloud, request, rows, job, results, objects, files, links, call, promised>>

-----------------------------------------------------------------------------
Create(c) == CreateRequest(c) \/ CreateValues(c) \/ CreateRead(c) \/ CreateReturn(c)
Mark(c)   == Upload(c) \/ MarkResult(c) \/ MarkStatus(c)
Link(c)   == LinkStart(c) \/ LinkRows(c) \/ LinkSources(c) \/ LinkResults(c)
               \/ LinkStore(c) \/ LinkSave(c)

Next ==
  \/ \E c \in Calls : Create(c) \/ Mark(c) \/ Link(c) \/ FileLinkSave(c) \/ Fail(c)
  \/ \E c \in Calls, ds \in DataSources : CreateRow(c, ds) \/ MarkStart(c, ds)
  \/ \E c \in Calls, i \in DOMAIN results : FileLinkStart(c, i)
  \/ Execute \/ JobEnds
  \/ \E ds \in DataSources : Extract(ds) \/ Delete(ds)

Spec == Init /\ [][Next]_vars

-----------------------------------------------------------------------------
(* Properties. *)

\* The variables hold what their comments say; what a number refers to is there.
TypeOK ==
  /\ cloud \in BOOLEAN
  /\ live \subseteq DataSources
  /\ request \in [there : BOOLEAN, file : 0 .. Len(files)]
  /\ rows \subseteq DataSources
  /\ job \in Jobs
  /\ results \in Seq(Result)
  /\ objects \in Seq(Object)
  /\ files \in Seq(0 .. Len(objects))
  /\ links \subseteq 1 .. MaxFiles
  /\ promised \subseteq DataSources
  /\ call \in [Calls -> [at : Places, rows : SUBSET DataSources, number : Nat,
                         archive : [has : SUBSET DataSources, empty : SUBSET Silos,
                                    had : SUBSET DataSources]]]

\* A request that was returned has the row of every data source that the workspace had
\* when it was created, although nothing holds the inserts together.
ReturnedIsComplete == promised \subseteq rows

\* Every link that was handed out can be downloaded, also when two calls have made one each
\* and only the second is kept: in a directory always, but for a file without a path.  In a
\* bucket uploads are missing, and an archive may be.
LinksServed ==
  \A f \in links :
    /\ f \in DOMAIN files
    /\ ~ cloud /\ files[f] # 0 => Served(f)

Archives == {i \in DOMAIN objects : objects[i].kind = "archive"}

OnlyRecords(ds) == \A i \in DOMAIN results : results[i].source = ds => results[i].kind = "records"

\* The records that were there when the archive was begun are in it, whatever happens to
\* the rows while it is built, unless the data source is deleted.
RecordsPacked ==
  \A i \in Archives : \A ds \in objects[i].had :
    ds \in live /\ OnlyRecords(ds) => ds \in objects[i].has

\* The archive says that a silo has no data only when none of it had a result.
NoDataMeansNone ==
  \A i \in Archives : \A ds \in objects[i].had :
    ds \in live => SiloOf[ds] \notin objects[i].empty

\* An archive is true to what it was made from, at whatever pace and beside whatever calls.
ArchiveFaithful == RecordsPacked /\ NoDataMeansNone
=============================================================================
