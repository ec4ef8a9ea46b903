---------------------------- MODULE ConfigTrees ----------------------------
(***************************************************************************)
(* What jsonschema/helpers.go and the form do to a configuration, as they  *)
(* do it: recursively, on trees.  A configuration is a function from keys  *)
(* to values, a schema one from keys to [type, secret, properties].        *)
(* SiloConfig says the same on paths, without recursion.                   *)
(***************************************************************************)
EXTENDS Naturals, Sequences

\* Values of a key: leaves (strings, numbers, booleans, arrays) and objects.
Leaf(x)     == [leaf |-> x]
Object(d)   == [object |-> d]
IsObject(v) == DOMAIN v = {"object"}
Null        == Leaf("null")
Blank       == Leaf("")
NoConfig    == [k \in {} |-> Null]

-----------------------------------------------------------------------------
(* jsonschema/helpers.go *)

RECURSIVE constructEmptyObject(_), HideSecrets(_, _), MergeData(_, _, _)

constructEmptyObject(schema) ==
  [k \in DOMAIN schema |->
     IF schema[k].type = "object" THEN Object(constructEmptyObject(schema[k].properties))
                                  ELSE Blank]

\* A secret is blank in the answer, whether it is there or not.
HideSecrets(data, schema) ==
  LET hidden == {k \in DOMAIN schema : schema[k].secret}
      Masked(k) ==
        IF k \notin hidden THEN data[k]
        ELSE IF schema[k].type = "object"
          THEN Object(constructEmptyObject(schema[k].properties))
          ELSE Blank
  IN  [k \in DOMAIN data \cup hidden |->
         IF k \in DOMAIN schema /\ schema[k].type = "object" /\ IsObject(Masked(k))
           THEN Object(HideSecrets(Masked(k).object, schema[k].properties))
           ELSE Masked(k)]

\* What is not sent stays as it was; a key that neither has becomes null, and one that the
\* schema does not have is dropped.
MergeData(old, new, schema) ==
  [k \in DOMAIN schema |->
     IF k \notin DOMAIN new THEN IF k \in DOMAIN old THEN old[k] ELSE Null
     ELSE IF schema[k].type # "object" \/ k \notin DOMAIN old THEN new[k]
     ELSE IF ~ IsObject(new[k]) THEN old[k]
     ELSE IF ~ IsObject(old[k]) THEN new[k]
     ELSE Object(MergeData(old[k].object, new[k].object, schema[k].properties))]

-----------------------------------------------------------------------------
(* SiloFields.tsx: the form. *)

RECURSIVE fillSecretVals(_, _), Renders(_, _), Typed(_, _, _)

\* The object at a key, empty when there is none.
ObjectAt(data, k) ==
  IF k \in DOMAIN data /\ IsObject(data[k]) THEN data[k].object ELSE NoConfig

\* The form drops the leaves that are secret; what is undefined is not sent.
fillSecretVals(schema, data) ==
  [k \in {j \in DOMAIN schema :
            schema[j].type = "object" \/ (~ schema[j].secret /\ j \in DOMAIN data)} |->
     IF schema[k].type = "object"
       THEN Object(fillSecretVals(schema[k].properties, ObjectAt(data, k)))
       ELSE data[k]]

\* It cannot be shown when an object of the schema is missing or null.
Renders(schema, data) ==
  \A k \in DOMAIN schema : schema[k].type = "object" =>
    /\ k \in DOMAIN data /\ data[k] # Null
    /\ IsObject(data[k]) => Renders(schema[k].properties, data[k].object)

\* The user types v in the field at the path.
Typed(data, path, v) ==
  LET k == Head(path) IN
  [j \in DOMAIN data \cup {k} |->
     IF j # k THEN data[j]
     ELSE IF Len(path) = 1 THEN Leaf(v)
     ELSE Object(Typed(ObjectAt(data, k), Tail(path), v))]

-----------------------------------------------------------------------------
(* A tree by its paths: what is at each of them, an object without its content. *)

RECURSIVE PathsOf(_), Follow(_, _)

\* What a value of a configuration, or a key of a schema, holds.
Content(v) == IF "properties" \in DOMAIN v THEN v.properties
              ELSE IF "object" \in DOMAIN v THEN v.object ELSE NoConfig

PathsOf(tree) ==
  UNION {{<<k>>} \cup {<<k>> \o p : p \in PathsOf(Content(tree[k]))} : k \in DOMAIN tree}

Follow(tree, p) == IF Len(p) = 1 THEN tree[p[1]] ELSE Follow(Content(tree[p[1]]), Tail(p))

\* A configuration, and a schema, as functions of paths.
FlatData(data) ==
  [p \in PathsOf(data) |->
     IF IsObject(Follow(data, p)) THEN [object |-> TRUE] ELSE Follow(data, p)]
FlatSchema(schema) ==
  [p \in PathsOf(schema) |->
     [type |-> Follow(schema, p).type, secret |-> Follow(schema, p).secret]]
=============================================================================
