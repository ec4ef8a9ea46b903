---------------------------- MODULE MCSiloConfig ----------------------------
(***************************************************************************)
(* Small instances of SiloConfig: a connector with a host, a password and  *)
(* an object with a name and a key, which connects to the good host only.  *)
(* The schema and the configurations are given as trees; the operations on *)
(* paths are compared with the ones on trees for all small ones.           *)
(***************************************************************************)
EXTENDS SiloConfig, TLC

Tree == INSTANCE ConfigTrees

Def(type, secret, properties) == [type |-> type, secret |-> secret, properties |-> properties]
LeafKey(secret) == Def("string", secret, NoConfig)

Auth     == [name |-> LeafKey(FALSE), key |-> LeafKey(TRUE)]
TheKeys  == Tree!FlatSchema([host |-> LeafKey(FALSE), password |-> LeafKey(TRUE),
                             auth |-> Def("object", FALSE, Auth)])

Host(x)  == "host" :> Leaf(x)
Pass(x)  == "password" :> Leaf(x)
Name(x)  == "name" :> Leaf(x)
Key(x)   == "key" :> Leaf(x)

TheValues == (<<"host">> :> {"bad"}) @@ (<<"password">> :> {})
               @@ (<<"auth", "name">> :> {}) @@ (<<"auth", "key">> :> {"j"})

\* A complete one, and some without a key, with one that is not in the schema, or with a
\* string in place of the object.
TheInputs == {Tree!FlatData(tree) : tree \in {
  Host("good") @@ Pass("p") @@ ("auth" :> Tree!Object(Name("n") @@ Key("k"))),
  Host("good") @@ ("other" :> Leaf("x")),
  "auth" :> Leaf("x") }}

HostIsGood(config) == ValueAt(config, <<"host">>) = (<<"host">> :> Leaf("good"))

Alike == Permutations(Users)

-----------------------------------------------------------------------------
(* The keys a, with another a inside of it, and b: what may be in a configuration and in a  *)
(* schema down to the depth n.                                                              *)

AnyData[n \in Nat] ==
  LET Value == {Leaf("x"), Null} \cup IF n = 1 THEN {} ELSE {Tree!Object(d) : d \in AnyData[n - 1]}
  IN  {NoConfig} \cup {"a" :> v : v \in Value}

AnySchema[n \in Nat] ==
  LET Keys == {LeafKey(s) : s \in BOOLEAN} \cup
              IF n = 1 THEN {}
              ELSE {Def("object", s, d) : s \in BOOLEAN, d \in AnySchema[n - 1]}
  IN  {NoConfig} \cup {"a" :> k : k \in Keys}

\* On paths the operations do what they do on trees.
ASSUME PathsAgree ==
  \A b \in {NoConfig, "b" :> LeafKey(TRUE)}, c \in {NoConfig, "b" :> Leaf("y")} :
  \A s \in AnySchema[3], old \in AnyData[3] :
    LET schema == s @@ b
        data   == old @@ c
        S      == Tree!FlatSchema(schema)
        D      == Tree!FlatData(data)
    IN  /\ IsSchema(S) /\ IsDocument(D)
        /\ HideSecrets(D, S) = Tree!FlatData(Tree!HideSecrets(data, schema))
        /\ Renders(S, D) = Tree!Renders(schema, data)
        /\ fillSecretVals(S, D) = Tree!FlatData(Tree!fillSecretVals(schema, data))
        /\ \A p \in DOMAIN S : Typed(D, p, "z") = Tree!FlatData(Tree!Typed(data, p, "z"))
        /\ \A new \in AnyData[3] :
             MergeData(D, Tree!FlatData(new), S)
               = Tree!FlatData(Tree!MergeData(data, new, schema))
=============================================================================
