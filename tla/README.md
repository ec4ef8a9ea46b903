# Monoid: a verification project

Monoid is a privacy platform.  It keeps a map of the data sources of a company
("silos": a database, a SaaS account, a mailbox that a person looks after) and
executes user data requests on them: a query exports what is stored about a
user, a deletion removes it.  The server is `src/monoid-api` (Go, GraphQL over
gorm and Postgres); long work runs as Temporal workflows whose activities talk
to *connectors*, Docker containers that speak the Monoid protocol.

This directory holds TLA+ modules of the parts with state and concurrency, the
TLC configurations that check them, and theorems about them that TLAPS checks.

- [Inventory](#inventory): the parts of the system
- [Modules](#modules): which module models what, and how it corresponds to the code
- [Runs](#runs): what is checked, on which instance, and what it shows
- [Findings](#findings): where the code and what is said of it differ
- [Proofs](#proofs): what is proved, from what, and how
- [Only model-checked](#only-model-checked) and [not modelled](#not-modelled)
- [Plan](#plan)

`PROJECT.json` lists the components, the runs, the mutants (each property of a
passing run has a small, plausible bug of the code that breaks it), the source
lines behind each definition, the hazards and the theorems.

## Inventory

Paths are relative to `src/monoid-api`.

| Component | State it keeps | Operations | Hard about it | What makes it correct |
|---|---|---|---|---|
| **Silo request workflow** `workflow/requestworkflow/run_silo_request.go` | worklists `processing`, `newProcessing`, `resultExtractData`, `filteredProcessing`; `requestRes`, `hasFailures`; the signals buffered for it | start, a round over the items, extraction, wait (signal or hourly timer), refresh, poll, return | four worklists rebuilt in nested loops; nine places that touch the result; signals that race the timer; activities that fail after all their retries | no data source is forgotten or worked on twice; the result summarises what happened; the rows agree with it; it ends |
| **Request activities** `workflow/activity/requestactivity/` | rows of `request_statuses` and `query_results`, stored request handles | `StartSiloRequestActivity`, `RequestStatusActivity`, `ProcessRequestResults`, `UpdateRequestStatusActivity`, `BatchUpdateRequestStatusActivity`, `FindDBSilos` | read rows, spend minutes in a container, act on what was read; attempts that time out go on beside the next one; the containers run outside any transaction | what was executed stays executed; a data source that a user settles is noticed; no answer rests on a failed container, no record is missing or there twice |
| **Request orchestrator** `workflow/requestworkflow/orchestrate_request.go`, `workflow/activity/manage_jobs.go` | futures of the children, `silosComplete`, `status`, `hasSuccess`; the `jobs` row | find the silos, start a child per silo, a selector over futures and signals, the deferred `UpdateJobStatus` | children that cannot be started, cancellation at any point, signals that arrive early, an update of a row that may not exist yet | the job status tells what became of every data source; no child is left behind; the job reaches a final status |
| **Request and job API** `resolver/requests.resolvers.go`, `resolver/jobs.resolvers.go`, `model/requests.go` | `requests` (with `job_id`), `request_statuses`, `jobs`, `downloadable_files` | create, execute, mark by hand, upload, cancel, download link | starts a workflow before its row is committed; writes outside the transaction that it opens; checks, then acts | a mark reaches the workflow; a request that is returned is complete; links lead somewhere |
| **Result archive and download** `requests/packager.go`, `download/handlers.go` | the archive object, its link | build, link, serve | reads rows one statement after the other while they change; two calls build two archives | an archive has what was there when it was begun |
| **Data source discovery** `workflow/detect_datasources.go`, `workflow/activity/detect_datasources.go`, `resolver/discovery_helpers.go` | `data_discoveries`, `data_sources`, `properties` | scan a silo, upsert and close discoveries, accept or reject one or all | a scan takes minutes and acts on what it read at its start while users accept and reject; attempts that time out go on | no attempt repeats a discovery that it could see; a scan accounts for every difference, so that accepting everything makes the map equal to the silo |
| **Data map** `model/data_mapping.go`, `resolver/data_mapping.resolvers.go` | data sources, properties, categories; soft deletion | edit, delete, the flat data map | references from discoveries and requests to what is deleted | nothing refers to what is gone |
| **Docker protocol** `monoidprotocol/docker/` | container, hijacked connection, log and message channels, completion channel, temporary directory | initialise, run a command, stream its records, wait for the exit, tear down | goroutines around one stream; exit code, end of output and cancellation arrive in any order | every record before the exit code; a failed container is a failed call; what a call has started ends with it |
| **File stores** `filestore/` | objects; the segment buffer of a log | write, a segmented writer with a ticker, close; a reader over the segments | ticker against `Close` against `Write`; a reader beside the writer; attempts that share a name | all that was written is stored, and read in its order |
| **Silo definitions and validation** `resolver/silo_definitions.resolvers.go`, `resolver/silo_definition_helpers.go`, `workflow/validate_ds.go`, `jsonschema/`; the settings form of `src/monoid-ui` | a configuration with secrets; the workflow that validates it | create, update, validate, mask and merge secrets | a masked secret that is saved back; two updates that share a workflow id | an unchanged secret keeps its value; nothing is saved that the connector refuses |
| PII scanner, data loaders, connectors and SDK, user interface, code scanner, analytics, commands | none that is shared | | | see [not modelled](#not-modelled) |

Interactions: the API starts `ExecuteRequestWorkflow` (id = id of the job),
which starts one `ExecuteSiloRequestWorkflow` per silo definition and waits for
their futures.  A user's mark goes into the row first and then as a signal to the
parent, which forwards it to the child of the silo.  Activities read and write the
database, run containers through the Docker protocol and put files into the
store.  Cancelling the parent cancels its children; when the parent closes its
children are ended (the default parent close policy).  The archive is made of
what executions and uploads have left in the rows and the store.

## Modules

| Module | Models | Extended or instantiated by |
|---|---|---|
| `SiloPromise` | what the execution on one silo promises its caller (abstract specification) | `SiloRequest` implements it; `RequestSystem` is built from it |
| `SiloRequest` | `ExecuteSiloRequestWorkflow`, its activities, the rows, users and signals | `MCSiloRequest`, `SiloRequestProofs` |
| `RequestResults` | `StartSiloRequestActivity` and `ProcessRequestResults` as Temporal runs them: attempts, containers, handles, query results | `MCRequestResults`, `RequestResultsProofs` |
| `RequestJob` | `ExecuteUserDataRequest`, `ExecuteRequestWorkflow`, `UpdateJobStatus`, `CancelJob`, the marks that are sent to the parent | `RequestSystem`, `MCRequestJob` |
| `RequestSystem` | the composition: `RequestJob` whose children keep `SiloPromise` | `MCRequestSystem`, `RequestJobProofs` |
| `RequestApi` | creating a request, uploads, download links, the archive, the download | `MCRequestApi`, `RequestApiProofs` |
| `Discovery` | `DetectSiloSources`, `DetectDSWorkflow`, `DetectDataSources`, `HandleDiscovery`, `HandleAllOpenDiscoveries`, deletion of data sources and properties | `MCDiscovery`, `DiscoveryProofs` |
| `DockerProtocol` | `monoidprotocol/docker`: one activity that runs a connector, its container, goroutines and channels | `MCDockerProtocol`, `DockerProtocolProofs` |
| `SegmentedLog` | the log of a scan: `segwriter`, the two stores, the reader of `Logs` | `MCSegmentedLog`, `SegmentedLogProofs` |
| `SiloConfig` | the settings of a silo from the form to the row | `MCSiloConfig`, `SiloConfigProofs` |
| `ConfigTrees` | the operations on a configuration as the code does them, by recursion on the tree | `MCSiloConfig` |
| `MC...` | instances for TLC: sets of faults, functions as constants, symmetry | the configurations |
| `...Proofs` | theorems | |

Operators whose comment begins with "Mutant:" are the broken variants that the
properties must catch; they stand next to the definition that they vary and no
specification uses them.

### SiloRequest

One execution on one silo.  A data source stands for its `request_statuses` row.

| State | In the code |
|---|---|
| `row` | `request_statuses.status` |
| `deleted` | `data_sources.deleted_at` is set |
| `remote` | the job behind `request_statuses.request_handle`, at the silo |
| `pc` | the position in the workflow: `start` before, `starting` inside `StartSiloRequestActivity`, `failAll` the batch update after it failed, `loop` the range over `processing`, `process` inside `ProcessRequestResults`, `wait` the selector, `refreshing` and `polling` inside `RequestStatusActivity` |
| `read` | what the running attempt of an activity has read of the rows |
| `item` | `processing`: the item of each data source that the round has still to handle |
| `kept`, `extract` | `newProcessing` (then `filteredProcessing`), `resultExtractData` |
| `hasFailures`, `res` | the local variables of these names |
| `signals`, `inflight` | the signal channel; marks whose signal is still in the parent |
| `verdict`, `marks` | history: what was decided on each data source; how many marks users made |

An activity is two steps, because minutes pass inside it: a step that reads the
rows (`StartAttempt`, `ReceiveSignal`, `TimerFires`, and `Retry` for an attempt
that reads anew) and a step that returns, decided by what was *read*.  Users, the
silo and deletions move in between, which is how stale reads come into the
model.  `ProcessRequestResults` looks the rows up by the handles it is given,
so it is a single step.  An UPDATE of one row is atomic; it is lost only when every
attempt of the activity failed, which the workflow merely logs (`"update"` in
`Faults`).

`Faults` says which activities may fail for good, so that a run can ask what
happens with and without them.  `Stop` stands for the cancellation of the
execution, or for its termination when the parent closes; the caller has its
answer by then.  It is one step: a cancelled child winds down through several, but every
call on its context fails at once, so that none of them changes a row, and a result that it
may still return is one of a run in which every activity fails from then on.

### RequestResults

The two activities that move a user's data, in more detail: `SiloRequest` sees each as
a step, here an activity is a number of *attempts*.  An attempt that is past its deadline is
given up (`givenUp`) and the next one begins, but nothing stops it: it goes on with its
container and may still write (`asked`, `got`, then `place = "store"`).  Its context has ended,
which closes the channel of the exit code, and a closed channel reads as 0: such an attempt gets to
`store` whatever its container did (`Exit`).  `good` remembers whose containers have really ended
with 0.

| State | In the code |
|---|---|
| `class`, `seen` | the first test of `StartSiloRequestActivity` that applies to a data source; what its latest attempt found |
| `handle` | `request_statuses.request_handle`, by the attempt that wrote it |
| `results` | rows of `query_results`; a path may be empty, when the file could not be copied |
| `phase`, `item` | which activity the workflow is in; the items that it holds |
| `tries`, `givenUp`, `place` | the attempts of an activity, and where each is: running its container, storing, failed or returned |
| `asked`, `got`, `bad` | the data sources it asked the connector about and has still to store; messages received for each; those it answers with an error |
| `used` | of an extraction: the handle that it has read and sent |

The class `noValue` makes every attempt panic, as the code does
(`start_request.go:227` reads an error that is nil).  Which handle is in the row when the
extraction looks is decided by the order of attempts, not by the workflow.

### RequestJob and RequestSystem

`Executions` are calls of `ExecuteUserDataRequest` on the same request.  `wf` is
the position in `ExecuteRequestWorkflow`: `find` in `FindDBSilos`, `spawn` in the
loop that starts the children, `select` in the selector, `cleanup` in the deferred
update.  `child` is the child as its *future* shows it: a cancelled child resolves
its future at once, without a result (`"lost"`), although it may still be winding
down.  `"unstarted"` is a child whose start failed; on a cancelled context the SDK
may refuse to start it at all, so cancellation enables it too.  `mail` and `told`
follow the signals of users through the parent.  `canceller` counts the
`CancelJob` calls between `CancelWorkflow` and their update of the row.

In `RequestJob` a child just returns something (`ChildReturns`).  `RequestSystem` replaces
that by `ChildWorks`: the child of a silo takes a step of `SiloPromise` on its own
`verdict`, the data sources of that silo (`SourcesOf`).  Since `SiloRequest` implements
`SiloPromise` (`PromiseKept`) and the system implements `RequestJob`
(`SystemImplementsJob`), the three levels fit: a request, its executions on silos, its data
sources.  `JobTellsVerdicts` is about the two ends.

### RequestApi

The calls around one request, each as many steps as it has statements that read or write:
no call holds a lock, and the transaction that `CreateUserDataRequest` opens is not used by
what is inside it.  `call[c].at` is the place of a call between two statements, `call[c]` also
what it has read: the data sources it has still to insert, the archive as far as it is
built, the object or result that it works on.  `objects`, `files` and `results` are the tables
in the order of insertion, `links` what was handed out.  `cloud` chooses the store: a bucket,
where an object is there only once its writer is closed, or a directory.  Executions are seen by
what they leave: `Execute`, `JobEnds`, `Extract`.

### Discovery

`silo` is what the connector would report, `sources` and `props` the rows that are
not deleted, `disc` the rows of `data_discoveries` in the order of their insertion
(a row that is deleted keeps its place with the status `deleted`).  A scan *j* is a workflow
(`pc[j]`, `job[j]`) with attempts of `DetectDataSources`; `tries[j]` have begun and
*r* = <<*j*, *n*>> is the *n*-th of them.  An attempt is at `fetch` (the schema), `compare` (the
map is read, `dataDiscoveries` computed), `open` (`openDiscoveries` are read) or `write`:
one row per step, first `WriteChange`, then `CloseStale`.  The writes are single
steps because `processDiscoveries` writes with `db` where its transaction is `tx`, so
that each commits on its own and an attempt that fails (`AttemptFails`) leaves what it has
written.  `OnePerName` and `OnePerProperty` are the maps by name, which keep one row of
several with the same name.  A call of a user reads the discoveries first
(`batch`) and applies them one by one.

Scans run side by side: `DetectSiloSources` does not ask for one that runs.  So do attempts of
one scan.  An attempt that Temporal gives up, because a heartbeat is late or two minutes are over,
is not stopped by anything, since `processDiscoveries` does not use the context for its
statements: `GiveUp` begins the next attempt and leaves the late one where it is
(`Current` tells which one the workflow waits for).  The row of the job may not be committed when
the workflow looks for it.  An attempt of `FindOrCreateJob` then waits for the
transaction with its insert; all attempts may fail or be late (`FindFails`), one with its insert still
going on (`creating`, `CreateLate`), and the scan ends in `failed` or, when the last update
finds no row, in `lost`.

Three variables are history: `clean` (nobody else has written since the attempt read the
map), `seen` (how long the list of discoveries was when the attempt read the open ones) and
`by` in a row (the attempt that has inserted it).

### DockerProtocol

One activity and the connector it runs.  `Commands` lists what each of the five
activities runs: `validate` and the schema have one answer (`One`), the others a
stream of them (`Many`); some read the exit code (`awaits`), the extraction copies
files first (`copies`), and the schema of `StartSiloRequestActivity` runs in a context
without a deadline (`bound`).

| State | In the code |
|---|---|
| `place` | the position in the activity and in `runCmdLiveLogs`: `init`, `construct`, `start`, `attach`, `wait`, `read` (the range over the channel), `status` (the receive from `completeCh`), `teardown` |
| `printed`, `taken` | the lines of the container, by kind; how many `bufio.Scanner` has taken |
| `hand[i]`, `ended[i]` | the line that goroutine *i* holds; it has closed its channel.  1 is `containerLogsStream`, 2 `readMessages`, 3 `collectLogs`, 4 the typed reader |
| `waiter[k]`, `status`, `copied` | the goroutine that waits for the exit of the container of command *k*; `completeCh` of the current command (`NoStatus`: empty); the files are copied |
| `ctr`, `volumes`, `logChan` | what `Teardown` frees; `gone` is a container that was removed while `containerID` still names it |
| `reader` | the activity's goroutine that reads `logChan` |

The channels are unbuffered, so that a line passes from hand to hand (`Pass`) when the
next goroutine is free, and a close (`Close`) is seen after the last line.  A call of
Docker is a step that may fail; with a context that has ended it must.  `deaf` is a
wait for the *next* exit of a container that has exited already; the waiter of the Schema
command of the start activity may still be there, deaf or waiting, while the next command runs,
and after the activity has returned.  `hitch` is history: something of Docker has failed.  A panic in a
goroutine stops the worker (`panic`); one in the activity itself is recovered and
runs the deferred `Teardown` (`ActivityPanics`): that is `DetectDataSources` with a record of a
schema that it has no scanner for.

### SegmentedLog

The log of a scan, from the goroutine of `DetectDataSources` that writes it to the resolver
that reads it while it grows.  In a bucket a writer is two goroutines: one appends to
`buffer`, the other (`pump`) takes the buffer under the lock (`held`) and copies it into the
object `segment` without the lock, at each tick and once more at `Close`, which returns
before that.  In a directory (`local`) a line is put where the attempt is in the file.
Attempts share the name of the log: in a bucket a repeated attempt writes again from
segment 0, in a directory it truncates the file, and one that was given up goes on in
either case.  `reader` is a call of `Logs`: the objects listed and not yet read (`todo`),
what was read, and what was stored when it began (`floor`).  `stored` and `dropped` are
history: where each line went.

### SiloConfig

A configuration is a JSON object.  `ConfigTrees` has it as a tree, and `HideSecrets`,
`MergeData`, `constructEmptyObject` and the form's `fillSecretVals` as the code has them:
recursive.  `SiloConfig` has it as a document, a function from paths of keys to leaves and
objects, and says of each operation which paths its result has and where the value of each
comes from; there is no recursion, so theorems about every schema are possible.  A merge, for
instance, goes down through the objects that `both` have, and decides at the `first` path below
them which of the two it takes.  `MCSiloConfig` compares the two on all schemas and configurations of
one chain of keys of depth 3 with a second key beside it (`PathsAgree`).
`row` is the silo definition, `call` the form or the request of each user, `running` the
validation workflow that is open: all updates of a silo share a workflow id, so a call that
begins while one runs gets the answer of the other (`row.joined` records that).

## Runs

All runs say `CHECK_DEADLOCK FALSE`: a workflow that has closed, with no user
call left under the bounds, really stops.

| Run | Instance | States | Shows |
|---|---|---|---|
| `silo_automatic` | 3 data sources, automatic silo, all activities and connectors may fail except updates, 1 deletion | 219 670 | `TypeOK`; `NoneForgotten`: the worklists hold exactly the open data sources; `ResultSound`: the result is right; `RowsShowVerdicts`: so are the rows; `ExecutedIsFinal`: executing again does not touch what is done; `KeepsPromise`: refinement of `SiloPromise`; `Finishes`: it always ends |
| `silo_manual` | 2 data sources, manual silo, 2 marks, lost signals, 1 deletion, failing starts and updates | 33 709 | `MarkIsNoticed`: a mark that stays in the row is found by its signal, and by the poll when the signal is lost and nothing else is waited for |
| `results_attempts` | 2 data sources, query, 2 attempts of each activity, at most 1 record per data source and attempt, every fault, at most 2 attempts that are given up | 3 481 598 | `TypeOK`; `TrustedOnly`: no answer rests on a failed container, and what is stored of one was stored by an attempt that was given up; `AnswersHaveHandles`: the handle that the extraction needs is there; `ResultOnce`: a result is there twice only by an attempt that was given up; `DoneHasResult`: what is reported as done is stored |
| `job_executions` | 2 executions of one request, 2 silos, every fault, 1 cancellation, 1 mark | 2 104 486 | `TypeOK`; `JobSound`: the job status is what its own children did; `NoneOrphaned`: no child is left when the parent has ended |
| `job_system` | 1 execution, an automatic silo with 2 data sources and a manual one with 1, every fault but those of the insert and the update of the job row, 1 cancellation, 1 mark | 49 884 | `JobTellsVerdicts`: the job status is true of every data source; `SignalReachesChild`; `JobSettles`: the job gets a final status unless its parent waits |
| `request_api` | 3 calls of any kind, each made once, 2 data sources of one silo, 2 results, objects and files, bucket or directory, every fault | 2 370 876 | `TypeOK`; `ReturnedIsComplete`; `LinksServed`; `ArchiveFaithful`: no record is left out, and "no data" is said only of a silo without a result |
| `discovery_scan` | 1 name, 1 property, a map with or without them, 2 scans at any time with 2 attempts each, 1 user, every fault; at most 2 events, which are calls and deletions by users, changes of the silo, and faults | 1 193 420 | `TypeOK`; `NoDuplicateOpen`: a discovery is there twice only by attempts that overlapped; `ScanAccounts`: accepting everything that an undisturbed attempt leaves open makes the map equal to the silo; `ScanJobSound`: the job tells how the scan ended, and its row is not missed once the scan has begun |
| `docker_call` | each of the 5 activities, containers that print at most 2 lines of any kind per command, every fault, a context that ends at any time | 515 253 | `TypeOK`; `LinesKept`: no message is lost, repeated or overtaken between the goroutines; `EndsWell`: an undisturbed activity that ends well has read everything, after exit code 0 and the files; `TornDown`: no send on the closed log channel but after a panic of `DetectDataSources`, the goroutines end with the activity, and nothing else is left behind by an undisturbed one; `Returns`: every activity ends, or hangs in one of two ways; the goroutines that wait for a container end when they can |
| `log_segments` | 2 attempts, 2 lines each, bucket or file, a reader at any time, every fault | 78 089 | `TypeOK`; `NothingLost`: each line is waiting, stored, or lost by a fault; `LogIsTrue`: a reader sees the lines of each attempt in order and once, and all of them when there is one attempt; `LinesArrive` |
| `silo_config` | 2 users; a schema with a host, a password and an object of a name and a key; a connector that accepts one host; validations that fail | 235 225 | `TypeOK`; `SecretsKept`; `MergedAsMeant`; `ValidatedUnlessJoined` |
| `silo_progress`, `silo_unvalidated` | the smallest instance of each | 1 578, 267 | the findings below |

Why the bounds are enough.  With three data sources the result can hold a success,
a failure and a data source that was skipped at once, and each worklist can be
non-empty at the same time; the conditions of the code tell apart only "none",
"one" (the poll) and "more".  Two marks let a second mark meet the signal of the
first; one deletion is enough for the branches that look at it, because they
only ask whether *some* data source is gone.  Two silos let the loop of the
orchestrator count a good and a bad or missing result, and two executions share the
request (the theorems hold for any number of both).  One cancellation meets each
step of the workflow; a second changes the same row in the same way; of marks the parent
keeps a set per silo in the model, so one reaches every place of it.
Two attempts are one that was given up and the one beside it; a third is to the
second what the second is to the first.
In `discovery_scan` one name takes a data source through being found, created,
changed, missing, deleted and found again; two rows of the same name arise from
accepting twice.  A map that may hold a data source from the beginning saves the steps of a
scan that finds it.  `MaxEvents` counts what users, the silo and faults do together: two of
them are a late attempt and a decision, two decisions, or an attempt that fails and a
deletion beside another scan, which is what the properties can be broken with; with three the instance is too
large for the time a run may take.  In `results_attempts` two attempts may be given up, of one activity
or one of each (`MaxGivenUp`).
In `docker_call` two lines put a line into two hands at once, and one of them may be the
log message or the bad line; a third only repeats that.  In `log_segments` one line can be
held by the pump while the other is in the buffer.  Three calls in `request_api` are two
links and an upload between their steps; with two data sources one can have a
result while the other has none, in the same silo.

Symmetry is used in `job_executions`, `results_attempts`, `request_api` and
`silo_config`, whose properties are invariants (and one action property, which is
symmetric in the users).

Fairness.  Temporal persists workflows and retries their tasks until they move,
so the steps of a workflow and the return of an activity are weakly fair; an
activity is bounded by its timeouts and its maximal number of attempts.  `JobEnds`
is fair in `SiloRequest`: an export at a silo ends one way or the other.  In
`RequestSystem` the parent moves (`ParentMoves`), and a child goes on (`ChildWorks`) while it
is `Unattended`: on a silo that needs no person, which is what `Finishes` shows of
`SiloRequest`, or once it is cancelled.  In `DockerProtocol` Go
runs every goroutine that can move, a call of Docker returns, and
the context of an activity ends (it has a deadline).  That a container exits is not
assumed, nor that a wait for it fails: where a context bounds the command the deadline ends the call, and the one
command that runs in `context.Background()` may hang (`SchemaStuck`).  In `SegmentedLog` the pump of
each writer moves: its ticker fires, and the store answers or fails.  Nothing is assumed of users,
of signals in flight, of retries (`Retry`), or of a person at a manual silo.

## Findings

1. **Two data sources in progress are never polled** (`silo_progress`).
   `RequestStatusActivity` looks its rows up with `id = ?` and a *list* of ids
   (`request_status.go:162`).  One id works; with two the query fails on every
   attempt and the workflow ends in an error, though the comments say that items in
   progress "will be re-visited on the next iteration".  `PollReturn` therefore has
   the guard `Cardinality(kept) = 1`.
2. **A configuration is saved that no connector has accepted** (`silo_unvalidated`).
   `UpdateSiloDefinition` validates "before saving" in a workflow whose id is that of the
   silo (`silo_definitions.resolvers.go:128`).  While one is open a second call is given its
   answer, which is about another configuration.  A user who cancels the form and saves
   again is enough: the aborted request leaves its workflow running.

Seen while modelling.  The models behave like this too; the code does not say that it
should be otherwise, so there is no run that contradicts a comment:

- "Mark as Failed" settles nothing: the status activity knows only `EXECUTED` as final,
  and the workflow writes `MANUAL_NEEDED` over the user's `FAILED`.
- Workflows are started before the transaction that inserts their job row commits.  The
  parent's last update may find no row, which then stays `QUEUED`.
- A child that cannot be started hangs its parent: `continue` skips the future, and the loop
  waits for as many futures as there are silos (`Waits`).
- A job that is `PARTIAL_FAILED` or `FAILED` says nothing of what a lost child has done.
- The poll of several data sources fails (finding 1), so a mark whose signal is lost is noticed only
  when nothing else is waited for.
- An attempt of the start activity or the extraction whose context has ended reads exit code 0 from
  the closed channel and stores what it has received, though its container may have failed and "the
  results are not to be trusted" (`start_request.go:293`).  Temporal ignores the answer of
  such an attempt, but the handle or the rows that it has written stay.
- Two scans at a time, and an attempt that was given up beside the next, insert the same discovery
  twice; a scan that comes later updates one of the two.
- A container that hangs in the Schema command hangs the start activity beyond its deadline;
  one that exits before the wait for it is registered leaves the waiting goroutine behind for ever.
  `DetectDataSources` hangs on a log message after its reader has stopped with the context.
- A scan closes by id what it has read as open: a discovery that a user has accepted meanwhile
  becomes `REJECTED`, though its change was applied.
- A line of more than 64 KB stops the `bufio.Scanner` of `containerLogsStream` as if the
  stream were over; the container may exit with 0 and the rest is missing.  The reader of
  `Logs` has the same limit, takes an error of the bucket for the end, and leaves its
  goroutine behind when the caller stops reading.
- A segmented writer that cannot be made leaves `wr` nil, and the next line stops the worker.
- An uploaded file's writer is never closed, so that in a bucket the object is never there.
- The form blanks the non-secret leaves of an object that is marked secret as a whole, and
  cannot show a configuration whose object is absent.
- `UpdateSiloDefinition` validates manual silos too; two users who save one after the other
  overwrite each other's whole row; the form says "Successfully cancelled" of a save that
  may still go through.

## Proofs

Constants are arbitrary: any finite set of data sources, silos or calls, any set of
faults, any bounds, as the named assumptions say (`SiloAssumption`, `JobAssumption`,
`SystemAssumption`, `ResultsAssumption`, `ApiAssumption`, `DiscoveryAssumption`,
`ProtocolAssumption`, `LogAssumption`, `ConfigAssumption`; TLC evaluates them).  In each module an inductive invariant is
conjoined from named parts; there is a lemma per group of parts with a step per action, and
the theorems follow.

**`SiloRequestProofs`.**  `NoneForgotten`, `ResultSound` and `RowsShowVerdicts` are
not inductive by themselves: that the final result is right depends on what the
two flags have recorded on the way, and that on which lists can be non-empty at
which place.  `IInv` adds three parts: `NothingYet` (before the items exist no list
is filled and nothing is settled), `ListsInPlace` (outside a round no item is
left, and while the workflow waits nothing is to be extracted), and `FlagsExact`
(`hasFailures` says that some data source failed, `res` that some succeeded).
`TypeCorrect`, `WorklistsComplete`, `ResultCorrect` and `RowsCorrect`
follow.  `ExecutedStays` proves the action property `ExecutedIsFinal` from an
invariant of its own: what an attempt has read as executed is still executed when
it returns, as long as nobody marks rows.  The statement has the two exceptions of the code: users who
mark rows, and the batch update after a start activity that failed.

`PromiseKept` proves `Spec => KeepsPromise`: the refinement
mapping takes `verdict` as it is and reads `result` off `pc` and `res`.  `IInv` gives
the guards of the abstract actions (a data source that is handled was open, and
when the workflow returns all are settled).

**`RequestJobProofs`.**  `JobSound` and `NoneOrphaned` need to know what the parent's
local variables say of the children it has counted (`CountedReturned`,
`FlagsSummarise`), and from where the job row can have got its status
(`EndsCounted`); `JobIInv` is their conjunction, and `JobTypes`, `JobCorrect` and
`NoOrphans` follow for any number of silos, executions, cancellations and signals.
`SystemImplementsJob` proves that the system whose children keep their promise implements
`RequestJob`: a step of a child is a stutter or a return.  So `JobSound` holds in the system, and
with `SystemIInv` (what a child has returned is the summary of its verdicts, `Settled`) it gives `JobsTellVerdicts`: `SystemSpec =>
[]JobTellsVerdicts`.  Together with `PromiseKept` this is the chain from the status of a job
down to the data sources.

**`RequestResultsProofs`.**  Attempts that were given up go on, so the invariant is about all of
them: an attempt that has not begun has nothing (`Fresh`), one that is behind the current one
was given up or has failed (`LateGivenUp`), what was received was asked for (`AskedGot`), the items
fit the phase (`ItemsInPlace`), a handle that an extraction has sent was received
(`UsedKnown`), and what an attempt has received is still to be stored, could not be, or is
stored, once (`HandlesKept`, `ResultsKept`, `StoredIsTaken`).  For `OnlyTrustedIsStored` it says
that what is stored comes from attempts which have read an exit code (`StoredIsRead`), that such a one has a good
container behind it or was given up (`ReadIsGood`), and what that means for the answers
(`AnswersGood`).  `OnlyTrustedIsStored`, `HandlesAreThere`, `ResultsStoredOnce`,
`DoneIsStored` and `ResultTypes` follow for any number of attempts and records.

**`RequestApiProofs`.**  Calls read, leave the processor and act later.  The argument is that
the tables only grow (`Grows`), so that what a call has read stays true (`CallOK`): the object it
has made, the number it works on, the archive as far as it is built.  With what holds of the tables
themselves (`ResultsOK`, `FilesOK`, `LinksOK`, `BoundsOK`) this gives `ApiTypes`,
`RequestsComplete`, `LinksAreServed` and `ArchivesFaithful` for any number of calls.

**`DiscoveryProofs`.**  Nothing is assumed of how many scans or attempts run at a time.
`ScanJobIsSound` and `DiscoveryTypes` follow from `JobIInv`, which
says what the row of a job can be at each place of its workflow; an insert of
`FindOrCreateJob` that is late (`creating`) belongs to a scan that has begun no attempt.
`NoDuplicates` proves `NoDuplicateOpen` for any interleaving of
scans, late and failed attempts, decisions and deletions.  `ScanIInv` is why: the list of an attempt holds a
key once (`ListsFit`: the key of a difference determines it), what was open when it read the
rows is still open only if it has still to look at it (`ReadRows`), and a row that it
has inserted is no longer on its list (`OwnRows`).  So a row that it inserts can repeat only one that came
after its reading, from another attempt.  Every step either inserts a row
(`InsertKeeps`) or `Shrinks`: keys stay and no row becomes open.
`UndisturbedScansAccount` proves `ScanAccounts`.
`AccountIInv` says of an attempt that nobody has disturbed since it compared (`clean`) that what it has
found is still the difference between the silo that it saw and the map (`IsDifference`), and
that the rows that are open are those that it has read and not closed, with those that hold what it
has written (`Tallied`): once its list is empty, a difference is open and nothing of another
key (`Covered`).  That accepting all of that makes the map the silo is then a
fact about sets (`DifferencesAccount`), which holds of two rows with one key too.

**`DockerProtocolProofs`.**  Two invariants.  `LinesInv` is about the goroutines: a goroutine
that has closed its channel holds nothing, and those before it are closed (`Chain`); the fourth
is used by streams only (`ShortChain`); what is in a hand or received has been scanned
(`Scanned`).  With these `LinesKept` is inductive: `LinesAreKept`.  `CallInv` is about the activity: where it
has a result, which goroutines are closed at each place and when there can be a status (`Placed`,
`Ended`, `Fresh`), when the goroutine that waits for the current container is done (`Waited`), how long the log channel is open (`Channel`), that a stream which has ended
well has given all that was printed (`Streamed`), that a status is that of a container which has
exited (`StatusTrue`, `StatusRead`), and what is left at the end (`EndClean`); `GoodEnds`, `TeardownIsClean` and `DockerTypes` follow, for
any number of lines.

**`SegmentedLogProofs`.**  `IInv` says what waits and where (`Waits`), that each line is kept or
accounted for (`Kept`), how far the pump is (`Paced`), that each object holds the lines of an attempt
in their order and later objects later ones (`ObjectsSorted`), and that the reader is behind
(`ReaderBehind`): `LogTypes` and `LinesNotLost`.  `WholeInv` adds what holds while there is
one attempt and no fault: the objects one after the other are the log (`StoreWhole`), and what was read is
its beginning (`ReadWhole`).  `LogIsRead` needs both.

**`SiloConfigProofs`.**  Of paths the proofs use only that those above a path are in a line
(`AboveOrder`) and that every set of paths that one leads through has an outermost member (`Outermost`;
the sets of paths above each are well-founded under inclusion).  Then, for every
schema: `HidesSecrets`, `ShowsTheRest`, `FillTakes` and `MergeTakes` say where each leaf of a result comes
from, and the operations make documents of documents (`HidesDocument`, ...).  The invariant
`ConfigIInv` adds to `TypeOK` that what is stored or in the hands of a user is a document,
and that a call which waits for a validation that it has started itself, or has its answer, was
told the truth.  `SecretsAreKept`, `MergesAsMeant`, `SavedWasValidated` and `ConfigTypes` follow
for any schema, inputs, connector and number of users.

## Only model-checked

All liveness (`Finishes`, `MarkIsNoticed`, `JobSettles`, `SignalReachesChild`, `Returns`,
`LinesArrive`), because liveness under fairness and ENABLED are out of the prover's
reach.  That the operations of `SiloConfig` on paths are those of `ConfigTrees` on trees
(`PathsAgree`), because there is no theorem about a recursive operator: TLC evaluates it on
all small trees.

## Not modelled

- Generated code: `generated/generated.go` (19 348 lines), `monoidprotocol/protocol.go` and the
  structures of `model/generated.go`.  They are most of the lines of the implementation and hold
  no decision of the program, so the share of all lines that the map covers says little about the rest.
- The PII scanner (regular expressions over records), the data loaders (a per-request cache of a
  library), analytics, the code scanner, the loader and the commands (configuration,
  presentation): nothing concurrent and no state of their own.  Of the user interface
  only the settings form, whose merge of secrets works with the server's.
- Connectors and the SDK run in containers: what they may answer is in `DockerProtocol` and
  `RequestResults`.
- The encrypting file store, which nothing constructs.
- Discoveries of categories, and schemas that cannot be decoded.
- The resolvers that only read, the flat data map, and edits of a single plain field.
- Names inside an archive, and the content of messages and records.
- Deleting a whole silo, workspace or request while it is executed.  A worker that a
  panic has stopped does not come back.

## Plan

All that was planned is done: the request from its creation over the job, its silos and
their activities to the archive; the containers and the logs under them; the discovery;
the settings; and a theorem for every safety property.  What would come next:

1. the discoveries of categories;
2. an abstract specification of a Docker call (all records, then a status), so that
   `RequestResults` and `Discovery` may be shown to use nothing else of it;
3. the deletion of a silo during an execution.
