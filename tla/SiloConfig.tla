----------------------------- MODULE SiloConfig -----------------------------
(***************************************************************************)
(* The settings of one silo definition: created, shown with the secrets    *)
(* masked, edited in a form of the browser or sent by a client, merged     *)
(* with what is stored, validated by a workflow that runs the connector,   *)
(* and saved.  Users act at the same time and cancel what takes too long;  *)
(* the workflow has the same id for all updates of a silo, so that one     *)
(* that is still running answers for the next.                             *)
(* A configuration is a JSON object, here a document: what is at each path *)
(* of keys, a leaf or an object.  ConfigTrees has the same operations as   *)
(* the code does them, by recursion on the tree.                           *)
(***************************************************************************)
EXTENDS Naturals, Sequences

CONSTANTS
  Users,        \* those who edit the settings
  Schema,       \* the JSON schema of the connector
  Values,       \* what can be typed for each leaf, by its path
  ApiInputs,    \* configurations that clients send
  Accepts(_),   \* the connector can connect with a configuration
  Faults        \* what may go wrong

\* "run": the workflow ends with an error.
FaultKinds == {"run"}

-----------------------------------------------------------------------------
(* Documents and paths *)

Path == Seq(STRING) \ {<<>>}

\* The paths of the objects that a path leads through, and the path itself with them.
Above(p) == {SubSeq(p, 1, n) : n \in 1..(Len(p) - 1)}
Upto(p)  == Above(p) \cup {p}

\* A path that is in S or inside of what is at a path of S.
Under(p, S) == Upto(p) \cap S # {}

\* Leaves (strings, numbers, booleans, arrays), and an object without its content.
Leaf(x)  == [leaf |-> x]
Obj      == [object |-> TRUE]
Null     == Leaf("null")
Blank    == Leaf("")
NoConfig == [p \in {} |-> Null]

\* What is inside of something is inside of an object.
IsObj(data, p)   == p \in DOMAIN data /\ data[p] = Obj
IsDocument(data) ==
  \A p \in DOMAIN data : p \in Path /\ \A q \in Above(p) : IsObj(data, q)

\* A schema gives each path [type, secret]; what has properties is an object.
Objects(schema)  == {p \in DOMAIN schema : schema[p].type = "object"}
Leaves(schema)   == DOMAIN schema \ Objects(schema)
Secrets(schema)  == {p \in DOMAIN schema : schema[p].secret}
IsSchema(schema) ==
  \A p \in DOMAIN schema : p \in Path /\ Above(p) \subseteq Objects(schema)

ASSUME ConfigAssumption ==
  /\ Faults \subseteq FaultKinds
  /\ IsSchema(Schema) /\ DOMAIN Values \subseteq Leaves(Schema)
  /\ \A input \in ApiInputs : IsDocument(input)

-----------------------------------------------------------------------------
VARIABLES
  row,      \* silo_definitions
  call,     \* the form or the call of each user
  running   \* the validation workflow that is open, by the answer that it will have

vars == <<row, call, running>>

-----------------------------------------------------------------------------
(* jsonschema/helpers.go *)

constructEmptyObject(schema) ==
  [p \in DOMAIN schema |-> IF p \in Objects(schema) THEN Obj ELSE Blank]

\* A secret is blank in the answer, with all that its schema has inside of it, whether it is
\* there or not; what is in something that is not an object is not reached.
HideSecrets(data, schema) ==
  LET hidden == {p \in Secrets(schema) :
                   \A q \in Above(p) : IsObj(data, q) /\ q \notin Secrets(schema)}
  IN  [p \in {q \in DOMAIN data : ~ Under(q, hidden)} \cup {q \in DOMAIN schema : Under(q, hidden)} |->
         IF Under(p, hidden) THEN constructEmptyObject(schema)[p] ELSE data[p]]

\* What is not sent stays as it was; a key that neither has becomes null, and one that the
\* schema does not have is dropped.  Objects that both have are merged, key by key; below
\* them the first thing that is not one is taken, or kept, with all that is inside of it.
MergeData(old, new, schema) ==
  LET both  == {p \in Objects(schema) : IsObj(old, p) /\ IsObj(new, p)}
      first == {p \in DOMAIN schema \ both : Above(p) \subseteq both}
      taken == {p \in first :
                  /\ p \in DOMAIN new
                  /\ p \in Objects(schema) /\ p \in DOMAIN old => IsObj(new, p)}
      kept  == first \ taken
  IN  [p \in both \cup first \cup {q \in DOMAIN new : Under(q, taken)}
                         \cup {q \in DOMAIN old : Under(q, kept)} |->
         IF Under(p, taken) THEN new[p] ELSE IF p \in DOMAIN old THEN old[p] ELSE Null]

-----------------------------------------------------------------------------
(* SiloFields.tsx: the form. *)

\* The form has all objects of the schema and drops the leaves that are secret; what is
\* undefined is not sent.
fillSecretVals(schema, data) ==
  LET open == Leaves(schema) \ Secrets(schema) IN
  [p \in Objects(schema) \cup {q \in DOMAIN data : Under(q, open)} |->
     IF p \in Objects(schema) THEN Obj ELSE data[p]]

\* It cannot be shown when an object of the schema is missing or null.
Renders(schema, data) ==
  \A p \in Objects(schema) :
    (\A q \in Above(p) : IsObj(data, q)) => p \in DOMAIN data /\ data[p] # Null

\* The user types v in the field at the path.
Typed(data, path, v) ==
  [p \in {q \in DOMAIN data : ~ Under(q, {path})} \cup Upto(path) |->
     IF p = path THEN Leaf(v) ELSE IF p \in Above(path) THEN Obj ELSE data[p]]

-----------------------------------------------------------------------------
\* What a user does: the form as it stands or the configuration to be saved; whether it
\* joined a workflow that was open; the answer of that workflow.
Call(at, config, joined, answer) ==
  [at |-> at, config |-> config, joined |-> joined, answer |-> answer]
Idle == Call("idle", NoConfig, FALSE, "none")

\* A workflow that runs with a configuration says whether the connector accepts that one.
AnswerTo(config) == IF Accepts(config) THEN "success" ELSE "failure"

\* joined is history: the last save came of a workflow that another call had started.
Init ==
  /\ row = [state |-> "none", config |-> NoConfig, joined |-> FALSE]
  /\ call = [u \in Users |-> Idle]
  /\ running = "none"

At(u, p) == call[u].at = p
Return(u) == call' = [call EXCEPT ![u] = Idle]
TakeUp(u, p, config) == call' = [call EXCEPT ![u] = Call(p, config, FALSE, "none")]

-----------------------------------------------------------------------------
(* CreateSiloDefinition: the id is new, and so is that of its workflow. *)

Create(u) ==
  /\ At(u, "idle") /\ row.state = "none"
  /\ \E config \in ApiInputs : TakeUp(u, "create", config)
  /\ UNCHANGED <<row, running>>

CreateRow(u) ==
  /\ At(u, "create") /\ row.state = "none" /\ Accepts(call[u].config)
  /\ row' = [row EXCEPT !.state = "there", !.config = call[u].config]
  /\ Return(u)
  /\ UNCHANGED running

\* The connector refuses it or cannot be run; or the call makes another silo.
CreateRejected(u) ==
  /\ At(u, "create") /\ (~ Accepts(call[u].config) \/ "run" \in Faults \/ row.state # "none")
  /\ Return(u)
  /\ UNCHANGED <<row, running>>

-----------------------------------------------------------------------------
(* The form, UpdateSiloDefinition, validateSiloDef *)

\* Mutant: the answer is what is stored.
ShownAsStored == row.config

Shown == HideSecrets(row.config, Schema)

OpenForm(u) ==
  /\ At(u, "idle") /\ row.state = "there" /\ Renders(Schema, Shown)
  /\ TakeUp(u, "form", fillSecretVals(Schema, Shown))
  /\ UNCHANGED <<row, running>>

Edit(u) ==
  /\ At(u, "form")
  /\ \E p \in DOMAIN Values : \E v \in Values[p] :
       TakeUp(u, "form", Typed(call[u].config, p, v))
  /\ UNCHANGED <<row, running>>

\* Mutant: what was sent replaces what is stored.
MergeReplaces(u, input) ==
  /\ row.state = "there"
  /\ TakeUp(u, "merged", input)
  /\ UNCHANGED <<row, running>>

\* UpdateSiloDefinition reads the row and merges into it what was sent.
Merge(u, input) ==
  /\ row.state = "there"
  /\ TakeUp(u, "merged", MergeData(row.config, input, Schema))
  /\ UNCHANGED <<row, running>>

Submit(u) == At(u, "form") /\ Merge(u, call[u].config)
Send(u)   == At(u, "idle") /\ \E input \in ApiInputs : Merge(u, input)

\* Mutant: the workflow is given what is stored.
ValidateStored(u) ==
  /\ At(u, "merged")
  /\ running' = IF running = "none" THEN AnswerTo(row.config) ELSE running
  /\ call' = [call EXCEPT ![u] = Call("waiting", @.config, running # "none", running')]
  /\ UNCHANGED row

\* The workflow of the silo is started, or joined when one is open.
Validate(u) ==
  /\ At(u, "merged")
  /\ running' = IF running = "none" THEN AnswerTo(call[u].config) ELSE running
  /\ call' = [call EXCEPT ![u] = Call("waiting", @.config, running # "none", running')]
  /\ UNCHANGED row

\* The workflow ends, with the answer of the connector or with an error, and all who wait
\* for it may go on.
RunEnds ==
  /\ running # "none"
  /\ running' = "none"
  /\ \E after \in {"answered"} \cup (IF "run" \in Faults THEN {"failed"} ELSE {}) :
       call' = [u \in Users |-> IF ~ At(u, "waiting") THEN call[u]
                                ELSE IF after = "failed" THEN Idle
                                ELSE Call("answered", call[u].config, call[u].joined,
                                          call[u].answer)]
  /\ UNCHANGED row

\* The connector could not connect: nothing is saved.
Rejected(u) ==
  /\ At(u, "answered") /\ call[u].answer = "failure"
  /\ Return(u)
  /\ UNCHANGED <<row, running>>

\* Mutant: a row that is no longer there is written all the same.
SaveUpsert(u) ==
  /\ At(u, "answered") /\ call[u].answer = "success"
  /\ row' = [row EXCEPT !.config = call[u].config, !.joined = call[u].joined]
  /\ Return(u)
  /\ UNCHANGED running

\* The whole row is updated, as this call read it; one that was deleted stays so, and the
\* call returns it all the same.
Save(u) ==
  /\ At(u, "answered") /\ call[u].answer = "success"
  /\ row' = IF row.state = "there"
              THEN [row EXCEPT !.config = call[u].config, !.joined = call[u].joined]
              ELSE row
  /\ Return(u)
  /\ UNCHANGED running

\* The user cancels, or leaves the form: a call that has not saved ends with its context,
\* and the workflow goes on.
Cancel(u) ==
  /\ call[u].at \in {"form", "merged", "waiting", "answered"}
  /\ Return(u)
  /\ UNCHANGED <<row, running>>

\* DeleteSiloDefinition
Delete ==
  /\ row.state = "there"
  /\ row' = [state |-> "gone", config |-> NoConfig, joined |-> FALSE]
  /\ UNCHANGED <<call, running>>

Next ==
  \/ \E u \in Users :
       \/ Create(u) \/ CreateRow(u) \/ CreateRejected(u)
       \/ OpenForm(u) \/ Edit(u) \/ Submit(u) \/ Send(u)
       \/ Validate(u) \/ Rejected(u) \/ Save(u) \/ Cancel(u)
  \/ RunEnds \/ Delete

Spec == Init /\ [][Next]_vars

-----------------------------------------------------------------------------
(* Properties. *)

\* What a configuration has at a path, with all that is inside of it: nothing when nothing
\* is there, or null.
ValueAt(data, path) ==
  [p \in {q \in DOMAIN data : Under(q, {path}) /\ data[path] # Null} |-> data[p]]

\* It was sent, be it as null.
Sent(data, path) == path \in DOMAIN data

\* A row that is not there has no configuration, and nobody waits when no workflow is open.
TypeOK ==
  /\ row.state \in {"none", "there", "gone"} /\ row.joined \in BOOLEAN
  /\ running \in {"none", "success", "failure"}
  /\ row.state # "there" => row.config = NoConfig
  /\ \A u \in Users :
       /\ call[u].at \in {"idle", "create", "form", "merged", "waiting", "answered"}
       /\ At(u, "waiting") => running # "none" /\ call[u].answer = running
       /\ At(u, "idle") => call[u] = Idle

\* An answer shows no secret and nothing inside of one, whatever is stored; and a form that
\* is opened and sent as it is changes nothing, the secrets that it does not have included.
\* (Not so what is not secret itself in an object that is: the form has it, blank.)
SecretsKept ==
  row.state = "there" =>
    LET shown == Shown IN
    /\ \A p \in DOMAIN shown : Under(p, Secrets(Schema)) => shown[p] \in {Obj, Blank}
    /\ Renders(Schema, shown) =>
         LET saved == MergeData(row.config, fillSecretVals(Schema, shown), Schema)
         IN  \A p \in Leaves(Schema) :
               p \in Secrets(Schema) \/ ~ Under(p, Secrets(Schema)) =>
                 ValueAt(saved, p) = ValueAt(row.config, p)

\* A call that merges takes every leaf that was sent, at any depth, and every other one from
\* the row that it read.
MergedAsMeant ==
  [][\A u \in Users :
       At(u, "merged")' => \A input \in ApiInputs \cup {call[u].config} :
         Merge(u, input) =>
           \A p \in Leaves(Schema) :
             ValueAt(call'[u].config, p) =
               IF Sent(input, p) THEN ValueAt(input, p) ELSE ValueAt(row.config, p)]_vars

\* "Validate the definition before saving it" (UpdateSiloDefinition): the connector accepts
\* what is saved.
SavedIsValidated == row.state = "there" => Accepts(row.config)

\* It does, unless the call that saved it had joined a workflow that was open.
ValidatedUnlessJoined == row.joined \/ SavedIsValidated
=============================================================================
