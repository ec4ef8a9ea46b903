----------------------------- MODULE Discovery -----------------------------
(***************************************************************************)
(* Keeping the data map of a silo in step with the silo: a scan            *)
(* (DetectSiloSources, DetectDSWorkflow, DetectDataSources) compares the   *)
(* schema of the silo with the data map and keeps a list of discoveries,   *)
(* which users accept or reject (HandleDiscovery,                          *)
(* HandleAllOpenDiscoveries), while they also delete parts of the map.     *)
(*                                                                         *)
(* A scan has attempts.  Each reads the schema, then the map, then the     *)
(* open discoveries, and then writes row by row, each write on its own     *)
(* (processDiscoveries uses the pool, not its transaction).  Users act in  *)
(* between, and so do other attempts: nothing keeps two scans apart, and   *)
(* an attempt that Temporal has given up, because it was late, goes on.    *)
(*                                                                         *)
(* Categories are left out: their discoveries only add a tag to a property *)
(* and a scan never closes them.                                           *)
(***************************************************************************)
EXTENDS Naturals, Sequences, FiniteSets

CONSTANTS
  Names,          \* names (with groups) of data sources
  Props,          \* names of properties
  None,           \* no name
  Jobs,           \* the calls of DetectSiloSources
  Users,
  Faults,         \* what may fail
  MaxTries,       \* bound: attempts of DetectDataSources (5 in the code)
  MaxEvents,      \* bound: changes of the silo, calls by users and faults, together
  MaxRows         \* bound: data sources and properties ever created

\* "commit": the transaction of DetectSiloSources; "find": every attempt of
\* FindOrCreateJob; "attempt": an attempt of DetectDataSources, at any point; "deadline":
\* one is given up and goes on; "update": every attempt of UpdateJobStatus.
FaultKinds == {"commit", "find", "attempt", "deadline", "update"}

ASSUME DiscoveryAssumption ==
  /\ IsFiniteSet(Props)
  /\ None \notin Names \union Props
  /\ Faults \subseteq FaultKinds
  /\ MaxTries \in Nat \ {0}
  /\ MaxEvents \in Nat /\ MaxRows \in Nat

VARIABLES
  silo,        \* the schema of the silo: a function from names to sets of properties
  sources,     \* data_sources that are not deleted: id -> name
  props,       \* properties that are not deleted: id -> [source, name]
  lastId,      \* ids given out so far
  disc,        \* data_discoveries, oldest first; by: which attempt inserted it (history)
  job,         \* status of the jobs row of each scan
  creating,    \* a given-up attempt of FindOrCreateJob is still inserting the row
  pc,          \* where the workflow of each scan is
  tries,       \* attempts of DetectDataSources begun
  place,       \* where each attempt is
  schemas,     \* what it has read of the silo
  found,       \* its dataDiscoveries
  todo,        \* those of found that are still to be written
  open,        \* its openDiscoveries: ids that it has still to look at
  seen,        \* how many discoveries there were when it read the open ones (history)
  batch,       \* the discoveries that a user's call has read and still handles
  events,      \* how many of the events that MaxEvents bounds have been
  clean        \* history: nobody else wrote since the attempt read the map

mapVars  == <<sources, props, lastId>>
flowVars == <<job, creating, pc, tries>>
listVars == <<schemas, found, todo, open, seen>>
scanVars == <<flowVars, place, listVars>>
vars == <<silo, mapVars, disc, scanVars, batch, events, clean>>

Statuses  == {"OPEN", "ACCEPTED", "REJECTED", "deleted"}
JobStatus == {"absent", "uncommitted", "QUEUED", "RUNNING", "COMPLETED", "FAILED"}
Schemas   == UNION {[N -> SUBSET Props] : N \in SUBSET Names}
Flow      == {"none", "find", "detect", "scanned", "failed", "closed", "lost"}
Attempt   == {"fetch", "compare", "open", "write"}    \* places of a running attempt
\* The attempts of DetectDataSources: the n-th of scan j is <<j, n>>.
Runs      == Jobs \X (1 .. MaxTries)

\* The data of a discovery; Key is what DataDiscoveryData.Mappable keeps of it.
Changes ==
  [type : {"DATA_SOURCE_FOUND"}, id : {0}, name : Names, props : SUBSET Props]
    \union [type : {"PROPERTY_FOUND"}, id : Nat, name : Props, props : {{}}]
    \union [type : {"DATA_SOURCE_MISSING", "PROPERTY_MISSING"}, id : Nat,
            name : {None}, props : {{}}]
Row == [change : Changes, status : Statuses, by : Runs]
Change(t, i, n, P) == [type |-> t, id |-> i, name |-> n, props |-> P]
Key(c)             == <<c.type, c.id, c.name>>

\* The map may hold a data source, with or without a property, from earlier scans.
Init ==
  /\ silo \in Schemas
  /\ sources \in UNION {[S -> Names] : S \in SUBSET {1}}
  /\ props \in UNION {[I -> [source : DOMAIN sources, name : Props]] : I \in SUBSET {2}}
  /\ lastId = 2
  /\ disc = <<>>
  /\ job = [j \in Jobs |-> "absent"] /\ creating = [j \in Jobs |-> FALSE]
  /\ pc = [j \in Jobs |-> "none"]
  /\ tries = [j \in Jobs |-> 0]
  /\ place = [r \in Runs |-> "off"]
  /\ schemas = [r \in Runs |-> <<>>]
  /\ found = [r \in Runs |-> {}] /\ todo = [r \in Runs |-> {}]
  /\ open = [r \in Runs |-> {}] /\ seen = [r \in Runs |-> 0]
  /\ batch = [u \in Users |-> {}]
  /\ events = 0
  /\ clean = [r \in Runs |-> FALSE]

Event      == events < MaxEvents /\ events' = events + 1
Fault(k)   == k \in Faults /\ Event
At(j, p)   == pc[j] = p
Goto(j, p) == pc' = [pc EXCEPT ![j] = p]
In(r, p)   == place[r] = p
Move(r, p) == place' = [place EXCEPT ![r] = p]

-----------------------------------------------------------------------------
(* DetectSiloSources: the workflow is started inside the transaction that  *)
(* inserts its job.  It does not ask whether another scan runs.            *)

StartScan(j) ==
  /\ At(j, "none")
  /\ Goto(j, "find")
  /\ job' = [job EXCEPT ![j] = "uncommitted"]
  /\ UNCHANGED <<silo, mapVars, disc, creating, tries, place, listVars, batch, events, clean>>

EndTransaction(j) ==
  /\ job[j] = "uncommitted"
  /\ \/ job' = [job EXCEPT ![j] = "QUEUED"] /\ UNCHANGED events
     \/ Fault("commit") /\ job' = [job EXCEPT ![j] = "absent"]
  /\ UNCHANGED <<silo, mapVars, disc, creating, pc, tries, place, listVars, batch, clean>>

-----------------------------------------------------------------------------
(* DetectDSWorkflow *)

HasRow(j) == job[j] \notin {"absent", "uncommitted"}

\* Begin the next attempt of DetectDataSources, if there is one, the places being those
\* of base, or go on to the end.
NextTry(j, base) ==
  IF tries[j] < MaxTries
  THEN /\ tries' = [tries EXCEPT ![j] = @ + 1]
       /\ place' = [base EXCEPT ![<<j, tries[j] + 1>>] = "fetch"]
       /\ Goto(j, "detect")
  ELSE place' = base /\ Goto(j, "failed") /\ UNCHANGED tries

\* Insert the row unless it is there.
InsertJob(j) == job' = IF job[j] = "absent" THEN [job EXCEPT ![j] = "RUNNING"] ELSE job

\* Mutant: a row that is not there is not created.
FindJobOnly(j) ==
  /\ At(j, "find") /\ job[j] # "uncommitted"
  /\ NextTry(j, place)
  /\ UNCHANGED <<silo, mapVars, disc, job, creating, listVars, batch, events, clean>>

\* FindOrCreateJob, all of its attempts.  Inserting the row waits for the open
\* transaction on the same key; the next attempt finds the row of that.
FindOrCreateJob(j) ==
  /\ At(j, "find") /\ job[j] # "uncommitted"
  /\ InsertJob(j)
  /\ NextTry(j, place)
  /\ UNCHANGED <<silo, mapVars, disc, creating, listVars, batch, events, clean>>

\* Every attempt fails or takes more than two seconds, also while the transaction is
\* open.  One may have inserted the row, or go on to insert it.
FindFails(j) ==
  /\ Fault("find")
  /\ At(j, "find")
  /\ Goto(j, "failed")
  /\ UNCHANGED job \/ InsertJob(j)
  /\ \E b \in BOOLEAN : creating' = [creating EXCEPT ![j] = b]
  /\ UNCHANGED <<silo, mapVars, disc, tries, place, listVars, batch, clean>>

CreateLate(j) ==
  /\ creating[j] /\ job[j] # "uncommitted"
  /\ InsertJob(j)
  /\ creating' = [creating EXCEPT ![j] = FALSE]
  /\ UNCHANGED <<silo, mapVars, disc, pc, tries, place, listVars, batch, events, clean>>

\* The attempt whose end the workflow waits for.
Current(r) == At(r[1], "detect") /\ r[2] = tries[r[1]]

\* The attempt r has ended and is not needed any more.
Forget(r) ==
  /\ found' = [found EXCEPT ![r] = {}]
  /\ todo' = [todo EXCEPT ![r] = {}]
  /\ open' = [open EXCEPT ![r] = {}]
  /\ UNCHANGED seen
ForgetSchema(r) ==
  /\ schemas' = [schemas EXCEPT ![r] = <<>>]
  /\ clean' = [clean EXCEPT ![r] = FALSE]

\* Mutant: the number of attempts is not limited.
AttemptFailsForever(r) ==
  /\ Fault("attempt")
  /\ place[r] \in Attempt
  /\ Current(r)
  /\ tries' = [tries EXCEPT ![r[1]] = @ + 1]
  /\ Move(r, "fetch") /\ Forget(r) /\ ForgetSchema(r)
  /\ UNCHANGED <<silo, mapVars, disc, job, creating, pc, batch>>

\* An attempt fails: the connector, the database, the end of its worker.  What it has
\* written stays written.  Nobody hears of an attempt that was given up.
AttemptFails(r) ==
  /\ Fault("attempt")
  /\ place[r] \in Attempt
  /\ IF Current(r) THEN NextTry(r[1], [place EXCEPT ![r] = "off"])
     ELSE Move(r, "off") /\ UNCHANGED <<pc, tries>>
  /\ Forget(r) /\ ForgetSchema(r)
  /\ UNCHANGED <<silo, mapVars, disc, job, creating, batch>>

\* A heartbeat is late, or two minutes are over.  Nothing in the attempt asks whether its
\* context has ended once it writes to the database.
GiveUp(j) ==
  /\ Fault("deadline")
  /\ At(j, "detect")
  /\ NextTry(j, place)
  /\ UNCHANGED <<silo, mapVars, disc, job, creating, listVars, batch, clean>>

\* The deferred UpdateJobStatus, which looks the row up first; the workflow ends in
\* an error when it fails.
UpdateJobStatus(j) ==
  /\ pc[j] \in {"scanned", "failed"}
  /\ \/ /\ HasRow(j)
        /\ job' = [job EXCEPT ![j] = IF At(j, "scanned") THEN "COMPLETED" ELSE "FAILED"]
        /\ Goto(j, "closed")
        /\ UNCHANGED events
     \/ /\ Fault("update") \/ (~ HasRow(j) /\ UNCHANGED events)
        /\ Goto(j, "lost")
        /\ UNCHANGED job
  /\ IF At(j, "scanned") THEN ForgetSchema(<<j, tries[j]>>) ELSE UNCHANGED <<schemas, clean>>
  /\ UNCHANGED <<silo, mapVars, disc, creating, tries, place, found, todo, open, seen, batch>>

-----------------------------------------------------------------------------
(* DetectDataSources *)

\* The connector reports the schema.
FetchSchema(r) ==
  /\ In(r, "fetch")
  /\ Move(r, "compare")
  /\ schemas' = [schemas EXCEPT ![r] = silo]
  /\ UNCHANGED <<silo, mapVars, disc, flowVars, found, todo, open, seen, batch, events, clean>>

PropsOf(s)  == {i \in DOMAIN props : props[i].source = s}
NamesOf(I)  == {props[i].name : i \in I}

\* sourceMap and propMap hold one row for each name.
OnePerName ==
  {S \in SUBSET DOMAIN sources :
     /\ \A s \in DOMAIN sources : \E t \in S : sources[t] = sources[s]
     /\ \A s, t \in S : sources[s] = sources[t] => s = t}
OnePerProperty ==
  {I \in SUBSET DOMAIN props :
     /\ \A i \in DOMAIN props : \E k \in I : props[k] = props[i]
     /\ \A i, k \in I : props[i] = props[k] => i = k}

\* The discoveries for a schema, given the rows that represent the map.
Differences(schema, S, I) ==
  LET mapped == {s \in S : sources[s] \in DOMAIN schema}
      PropsAt(s) == schema[sources[s]]
  IN {Change("DATA_SOURCE_FOUND", 0, n, schema[n]) :
        n \in DOMAIN schema \ {sources[s] : s \in S}}
     \union {Change("DATA_SOURCE_MISSING", s, None, {}) : s \in DOMAIN sources \ mapped}
     \union (UNION {{Change("PROPERTY_FOUND", s, p, {}) :
                       p \in PropsAt(s) \ NamesOf(PropsOf(s))} : s \in mapped})
     \union {Change("PROPERTY_MISSING", i, None, {}) :
               i \in {k \in I : /\ props[k].source \in mapped
                                /\ props[k].name \notin PropsAt(props[k].source)}}

Compare(r) ==
  /\ In(r, "compare")
  /\ Move(r, "open")
  /\ \E S \in OnePerName, I \in OnePerProperty :
       found' = [found EXCEPT ![r] = Differences(schemas[r], S, I)]
  /\ clean' = [clean EXCEPT ![r] = TRUE]
  /\ UNCHANGED <<silo, mapVars, disc, flowVars, schemas, todo, open, seen, batch, events>>

IsOpen(i) == disc[i].status = "OPEN"

ReadOpen(r) ==
  /\ In(r, "open")
  /\ Move(r, "write")
  /\ open' = [open EXCEPT ![r] = {i \in DOMAIN disc : IsOpen(i)}]
  /\ seen' = [seen EXCEPT ![r] = Len(disc)]
  /\ todo' = [todo EXCEPT ![r] = found[r]]
  /\ UNCHANGED <<silo, mapVars, disc, flowVars, schemas, found, batch, events, clean>>

\* Whoever writes spoils the view of the others.
Disturb(r) == clean' = [q \in Runs |-> q = r /\ clean[q]]

\* Mutant: discoveries are compared with all of their data.
KnownByData(r, c) == {i \in open[r] : disc[i].change = c}

\* The rows read as open that discoveryMap may give for a change.
Known(r, c) == {i \in open[r] : Key(disc[i].change) = Key(c)}

Insert(r, c) == disc' = Append(disc, [change |-> c, status |-> "OPEN", by |-> r])

\* Mutant: a known discovery keeps its data.
WriteChangeOnce(r, c) ==
  /\ In(r, "write")
  /\ c \in todo[r]
  /\ todo' = [todo EXCEPT ![r] = @ \ {c}]
  /\ IF Known(r, c) # {} THEN UNCHANGED disc ELSE Insert(r, c)
  /\ Disturb(r)
  /\ UNCHANGED <<silo, mapVars, flowVars, place, schemas, found, open, seen, batch, events>>

\* A known discovery gets the new data, whatever its status is by now; another
\* one is inserted.
WriteChange(r, c) ==
  /\ In(r, "write")
  /\ c \in todo[r]
  /\ todo' = [todo EXCEPT ![r] = @ \ {c}]
  /\ \/ \E i \in Known(r, c) :
          disc' = IF disc[i].status = "deleted" THEN disc
                  ELSE [disc EXCEPT ![i].change = c]
     \/ Known(r, c) = {} /\ Insert(r, c)
  /\ Disturb(r)
  /\ UNCHANGED <<silo, mapVars, flowVars, place, schemas, found, open, seen, batch, events>>

Keys(C) == {Key(c) : c \in C}
Stale(r) == {i \in open[r] : Key(disc[i].change) \notin Keys(found[r])}

\* A discovery that was read as open and no longer corresponds to anything is
\* rejected, whatever its status is by now.
CloseStale(r, i) ==
  /\ In(r, "write")
  /\ todo[r] = {}
  /\ i \in Stale(r)
  /\ open' = [open EXCEPT ![r] = @ \ {i}]
  /\ disc' = IF disc[i].status = "deleted" THEN disc
             ELSE [disc EXCEPT ![i].status = "REJECTED"]
  /\ Disturb(r)
  /\ UNCHANGED <<silo, mapVars, flowVars, place, schemas, found, todo, seen, batch, events>>

\* The attempt returns; nobody hears of one that was given up.
FinishScan(r) ==
  /\ In(r, "write")
  /\ todo[r] = {} /\ Stale(r) = {}
  /\ Move(r, "off") /\ Forget(r)
  /\ IF Current(r) THEN Goto(r[1], "scanned") /\ UNCHANGED <<schemas, clean>>
     ELSE ForgetSchema(r) /\ UNCHANGED pc
  /\ UNCHANGED <<silo, mapVars, disc, job, creating, tries, batch, events>>

-----------------------------------------------------------------------------
(* Users. *)

Item(i, a) == [id |-> i, change |-> disc[i].change, action |-> a]

\* HandleDiscovery does not ask for the status of the discovery.
HandleDiscovery(u, i, a) ==
  /\ Event
  /\ batch[u] = {} /\ disc[i].status # "deleted"
  /\ batch' = [batch EXCEPT ![u] = {Item(i, a)}]
  /\ UNCHANGED <<silo, mapVars, disc, scanVars, clean>>

HandleAllOpenDiscoveries(u, a) ==
  /\ Event
  /\ batch[u] = {}
  /\ batch' = [batch EXCEPT ![u] = {Item(i, a) : i \in {k \in DOMAIN disc : IsOpen(k)}}]
  /\ UNCHANGED <<silo, mapVars, disc, scanVars, clean>>

\* One item of a batch is done, and its row, if it is still there, gets a status.
ApplyItem(u, x, status) ==
  /\ x \in batch[u]
  /\ batch' = [batch EXCEPT ![u] = @ \ {x}]
  /\ disc' = IF disc[x.id].status = "deleted" THEN disc
             ELSE [disc EXCEPT ![x.id].status = status]
  /\ clean' = [r \in Runs |-> FALSE]
  /\ UNCHANGED <<silo, scanVars, events>>

Reject(u, x) ==
  /\ x.action = "REJECT"
  /\ ApplyItem(u, x, "REJECTED")
  /\ UNCHANGED mapVars

\* New rows get the ids lastId + 1, lastId + 2, ...
NewIds(n) == lastId + 1 .. lastId + n

AcceptDataSource(u, x) ==
  /\ x.action = "ACCEPT" /\ x.change.type = "DATA_SOURCE_FOUND"
  /\ LET n == Cardinality(x.change.props) IN
       /\ lastId + 1 + n <= MaxRows
       /\ \E names \in [NewIds(n + 1) \ {lastId + 1} -> x.change.props] :
            /\ {names[i] : i \in DOMAIN names} = x.change.props
            /\ sources' = [s \in DOMAIN sources \union {lastId + 1} |->
                             IF s = lastId + 1 THEN x.change.name ELSE sources[s]]
            /\ props' = [i \in DOMAIN props \union DOMAIN names |->
                           IF i \in DOMAIN props THEN props[i]
                           ELSE [source |-> lastId + 1, name |-> names[i]]]
       /\ lastId' = lastId + 1 + n
  /\ ApplyItem(u, x, "ACCEPTED")

AcceptProperty(u, x) ==
  /\ x.action = "ACCEPT" /\ x.change.type = "PROPERTY_FOUND"
  /\ lastId < MaxRows
  /\ lastId' = lastId + 1
  /\ props' = [i \in DOMAIN props \union {lastId'} |->
                 IF i = lastId' THEN [source |-> x.change.id, name |-> x.change.name]
                 ELSE props[i]]
  /\ UNCHANGED sources
  /\ ApplyItem(u, x, "ACCEPTED")

Without(f, S) == [i \in DOMAIN f \ S |-> f[i]]

AcceptDataSourceMissing(u, x) ==
  /\ x.action = "ACCEPT" /\ x.change.type = "DATA_SOURCE_MISSING"
  /\ x.change.id \in DOMAIN sources
  /\ sources' = Without(sources, {x.change.id})
  /\ props' = Without(props, PropsOf(x.change.id))
  /\ UNCHANGED lastId
  /\ ApplyItem(u, x, "ACCEPTED")

\* The data source is not found: an error, and the discovery stays as it is.
AcceptFails(u, x) ==
  /\ x.action = "ACCEPT" /\ x.change.type = "DATA_SOURCE_MISSING"
  /\ x.change.id \notin DOMAIN sources
  /\ x \in batch[u]
  /\ batch' = [batch EXCEPT ![u] = @ \ {x}]
  /\ UNCHANGED <<silo, mapVars, disc, scanVars, events, clean>>

AcceptPropertyMissing(u, x) ==
  /\ x.action = "ACCEPT" /\ x.change.type = "PROPERTY_MISSING"
  /\ props' = Without(props, {x.change.id})
  /\ UNCHANGED <<sources, lastId>>
  /\ ApplyItem(u, x, "ACCEPTED")

\* Deleting by hand also deletes the discoveries whose data has the data source
\* as "dataSourceId"; those that say it is missing call it "id" and stay.
DeleteDataSource(s) ==
  /\ Event
  /\ sources' = Without(sources, {s})
  /\ props' = Without(props, PropsOf(s))
  /\ disc' = [i \in DOMAIN disc |->
                IF disc[i].change.type = "PROPERTY_FOUND" /\ disc[i].change.id = s
                THEN [disc[i] EXCEPT !.status = "deleted"] ELSE disc[i]]
  /\ clean' = [r \in Runs |-> FALSE]
  /\ UNCHANGED <<silo, lastId, scanVars, batch>>

DeleteProperty(i) ==
  /\ Event
  /\ props' = Without(props, {i})
  /\ clean' = [r \in Runs |-> FALSE]
  /\ UNCHANGED <<silo, sources, lastId, disc, scanVars, batch>>

\* Somebody changes what the silo holds.
SiloChanges ==
  /\ Event
  /\ silo' \in Schemas \ {silo}
  /\ UNCHANGED <<mapVars, disc, scanVars, batch, clean>>

Workflow(j) ==
  \/ StartScan(j) \/ EndTransaction(j) \/ FindOrCreateJob(j) \/ FindFails(j) \/ CreateLate(j)
  \/ GiveUp(j) \/ UpdateJobStatus(j)

Scan(r) ==
  \/ FetchSchema(r) \/ Compare(r) \/ ReadOpen(r)
  \/ \E c \in todo[r] : WriteChange(r, c)
  \/ \E i \in open[r] : CloseStale(r, i)
  \/ FinishScan(r) \/ AttemptFails(r)

Call(u) ==
  \/ \E a \in {"ACCEPT", "REJECT"} :
       \/ HandleAllOpenDiscoveries(u, a)
       \/ \E i \in DOMAIN disc : HandleDiscovery(u, i, a)
  \/ \E x \in batch[u] :
       \/ Reject(u, x) \/ AcceptDataSource(u, x) \/ AcceptProperty(u, x)
       \/ AcceptDataSourceMissing(u, x) \/ AcceptPropertyMissing(u, x)
       \/ AcceptFails(u, x)

Next ==
  \/ \E j \in Jobs : Workflow(j)
  \/ \E r \in Runs : Scan(r)
  \/ \E u \in Users : Call(u)
  \/ \E s \in DOMAIN sources : DeleteDataSource(s)
  \/ \E i \in DOMAIN props : DeleteProperty(i)
  \/ SiloChanges

Spec == Init /\ [][Next]_vars

-----------------------------------------------------------------------------
(* Properties. *)

TypeOK ==
  /\ silo \in Schemas
  /\ lastId \in Nat
  /\ DOMAIN sources \subseteq 1 .. lastId
  /\ \A s \in DOMAIN sources : sources[s] \in Names
  /\ DOMAIN props \subseteq 1 .. lastId
  /\ \A i \in DOMAIN props : props[i] \in [source : Nat, name : Props]
  /\ disc \in Seq(Row)
  /\ job \in [Jobs -> JobStatus]
  /\ creating \in [Jobs -> BOOLEAN]
  /\ pc \in [Jobs -> Flow]
  /\ tries \in [Jobs -> 0 .. MaxTries]
  /\ place \in [Runs -> Attempt \union {"off"}]
  /\ schemas \in [Runs -> Schemas]
  /\ found \in [Runs -> SUBSET Changes]
  /\ todo \in [Runs -> SUBSET Changes]
  /\ open \in [Runs -> SUBSET DOMAIN disc]
  /\ seen \in [Runs -> Nat]
  /\ batch \in [Users -> SUBSET [id : DOMAIN disc, change : Changes,
                                action : {"ACCEPT", "REJECT"}]]
  /\ events \in Nat
  /\ clean \in [Runs -> BOOLEAN]

Open(t) == {disc[i].change : i \in {k \in DOMAIN disc : IsOpen(k) /\ disc[k].change.type = t}}

\* "eliminating any duplicates" (processDiscoveries): no attempt inserts a discovery that
\* is open already, or twice, though users, the silo and other attempts go on.  Two open
\* discoveries say the same only if two attempts overlapped: the one that inserted the
\* second had read the list before the first one was there.
NoDuplicateOpen ==
  \A i, k \in DOMAIN disc :
    (i < k /\ IsOpen(i) /\ IsOpen(k) /\ Key(disc[i].change) = Key(disc[k].change)) =>
      disc[i].by # disc[k].by /\ seen[disc[k].by] < i

\* The inductive strengthening of NoDuplicateOpen: the list of an attempt has no change
\* twice; what was open when it read is open only if it still looks at it; what it has
\* inserted is not among what it has still to write.
ListsFit(r) ==
  /\ place[r] # "off" => r[2] <= tries[r[1]]
  /\ todo[r] \subseteq found[r]
  /\ ~ In(r, "write") => todo[r] = {}
  /\ \A c, d \in found[r] : Key(c) = Key(d) => c = d

ReadRows(r) ==
  /\ seen[r] <= Len(disc)
  /\ In(r, "write") => \A i \in DOMAIN disc : i <= seen[r] /\ IsOpen(i) => i \in open[r]

OwnRows(r) ==
  \A i \in DOMAIN disc : disc[i].by = r =>
    /\ place[r] \in {"write", "off"} /\ r[2] <= tries[r[1]]
    /\ Key(disc[i].change) \notin Keys(todo[r])

ScanIInv ==
  /\ TypeOK /\ NoDuplicateOpen
  /\ \A r \in Runs : ListsFit(r) /\ ReadRows(r) /\ OwnRows(r)

\* What the map would be if users accepted every open discovery.
Kept      == {s \in DOMAIN sources : \A c \in Open("DATA_SOURCE_MISSING") : c.id # s}
KeptProps(s) ==
  {props[i].name : i \in {k \in PropsOf(s) : \A c \in Open("PROPERTY_MISSING") : c.id # k}}
NewProps(s) == {c.name : c \in {x \in Open("PROPERTY_FOUND") : x.id = s}}

\* No property of a data source has two rows.
NoTwins == \A i, k \in DOMAIN props : props[i] = props[k] => i = k

\* An attempt that nobody disturbs accounts for every difference, after whatever failed or
\* overlapping attempts, decisions and deletions: accepting what is open would make the map
\* equal to the silo that the attempt saw.  (Where overlapping attempts have left two open
\* discoveries that say the same it updates one of them, and the other one stays.)
ScanAccounts ==
  \A j \in Jobs : (At(j, "scanned") /\ clean[<<j, tries[j]>>] /\ NoTwins) =>
    LET schema == schemas[<<j, tries[j]>>]
        new    == Open("DATA_SOURCE_FOUND") IN
    /\ DOMAIN schema = {sources[s] : s \in Kept} \union {c.name : c \in new}
    /\ \A s \in Kept : schema[sources[s]] = KeptProps(s) \union NewProps(s)
    /\ \A c \in new : Change("DATA_SOURCE_FOUND", 0, c.name, schema[c.name]) \in new

\* The inductive strengthening of ScanAccounts, while nobody else has written: what the
\* attempt has found is the difference to the map as it still is; the rows that are open are
\* those that it has read and not closed and those that hold what it has written, and all of
\* that is open; at the end a difference is open and nothing that is not of its kind.
AllOpen == {disc[i].change : i \in {k \in DOMAIN disc : IsOpen(k)}}

IsDifference(C, schema) ==
  \E S \in OnePerName, I \in OnePerProperty : C = Differences(schema, S, I)

Tallied(r) ==
  LET written == found[r] \ todo[r] IN
  /\ \A i \in open[r] : IsOpen(i)
  /\ \A i \in DOMAIN disc : IsOpen(i) => i \in open[r] \/ disc[i].change \in written
  /\ written \subseteq AllOpen

Covered(schema) ==
  \E C \in SUBSET AllOpen : IsDifference(C, schema) /\ Keys(AllOpen) \subseteq Keys(C)

Accounts(r) ==
  clean[r] =>
    /\ r[2] <= tries[r[1]]
    /\ place[r] \in {"open", "write", "off"}
    /\ In(r, "open") => IsDifference(found[r], schemas[r])
    /\ In(r, "write") => IsDifference(found[r], schemas[r]) /\ Tallied(r)
    /\ In(r, "off") => Covered(schemas[r])

\* A scan is over only when its last attempt is.
Rests(j) == At(j, "scanned") => tries[j] > 0 /\ In(<<j, tries[j]>>, "off")

AccountIInv == ScanIInv /\ (\A r \in Runs : Accounts(r)) /\ \A j \in Jobs : Rests(j)

\* The job tells how the scan ended: COMPLETED when an attempt got through, FAILED when
\* none did; and although the workflow is started before the row is committed, the last
\* update never misses the row of a scan that got as far as DetectDataSources.  (It misses
\* it when every attempt of FindOrCreateJob fails before the row is there.)
ScanJobSound ==
  \A j \in Jobs :
    /\ job[j] = "COMPLETED" => At(j, "closed") /\ tries[j] > 0
    /\ job[j] = "FAILED"    => At(j, "closed") /\ tries[j] \in {0, MaxTries}
    /\ At(j, "lost") /\ tries[j] > 0 => HasRow(j)

\* The inductive strengthening of ScanJobSound.
JobFollows(j) ==
  /\ job[j] = "COMPLETED" => At(j, "closed") /\ tries[j] > 0
  /\ job[j] = "FAILED"    => At(j, "closed") /\ tries[j] \in {0, MaxTries}
  /\ At(j, "none") => job[j] = "absent"
  /\ tries[j] > 0 => HasRow(j)
  /\ pc[j] \in {"none", "find"} => tries[j] = 0
  /\ pc[j] \in {"detect", "scanned"} => tries[j] > 0
  /\ At(j, "failed") => tries[j] \in {0, MaxTries}
  /\ creating[j] => pc[j] \notin {"none", "find"} /\ tries[j] = 0

JobIInv == TypeOK /\ \A j \in Jobs : JobFollows(j)
=============================================================================
