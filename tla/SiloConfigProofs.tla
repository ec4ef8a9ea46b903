-------------------------- MODULE SiloConfigProofs --------------------------
(***************************************************************************)
(* The properties of SiloConfig, for every schema, however deep, for all   *)
(* configurations that clients may send, and for any number of users.      *)
(***************************************************************************)
EXTENDS SiloConfig, FiniteSetTheorems, WellFoundedInduction, TLAPS

-----------------------------------------------------------------------------
(* Paths *)

\* A path is above another one when it is a shorter beginning of it.
LEMMA AboveIs ==
  ASSUME NEW p \in Path, NEW q \in Path
  PROVE  q \in Above(p) <=> Len(q) < Len(p) /\ \A i \in 1..Len(q) : q[i] = p[i]
<1>1. p \in Seq(STRING) /\ q \in Seq(STRING) /\ Len(p) \in Nat /\ Len(q) \in Nat
  BY DEF Path
<1>2. Len(p) > 0 /\ Len(q) > 0
  BY DEF Path
<1>3. ASSUME NEW n \in 1..(Len(p) - 1)
      PROVE  SubSeq(p, 1, n) \in Path /\ Len(SubSeq(p, 1, n)) = n
             /\ \A i \in 1..n : SubSeq(p, 1, n)[i] = p[i]
  BY <1>1, <1>2 DEF Path
<1>4. ASSUME q \in Above(p) PROVE Len(q) < Len(p) /\ \A i \in 1..Len(q) : q[i] = p[i]
  <2>1. PICK n \in 1..(Len(p) - 1) : q = SubSeq(p, 1, n)
    BY <1>4 DEF Above
  <2> QED
    BY <1>1, <1>3, <2>1
<1>5. ASSUME Len(q) < Len(p), \A i \in 1..Len(q) : q[i] = p[i] PROVE q \in Above(p)
  <2>1. Len(q) \in 1..(Len(p) - 1)
    BY <1>1, <1>2, <1>5
  <2>2. q = SubSeq(p, 1, Len(q))
    <3> DEFINE s == SubSeq(p, 1, Len(q))
    <3>1. s \in Seq(STRING) /\ Len(s) = Len(q) /\ \A i \in 1..Len(q) : s[i] = q[i]
      BY <1>1, <1>3, <1>5, <2>1 DEF Path
    <3> QED
      BY <1>1, <3>1
  <2> QED
    BY <2>1, <2>2 DEF Above
<1> QED
  BY <1>4, <1>5

LEMMA AbovePaths ==
  ASSUME NEW p \in Path, NEW q \in Above(p)
  PROVE  q \in Path
<1>1. PICK n \in 1..(Len(p) - 1) : q = SubSeq(p, 1, n)
  BY DEF Above
<1> QED
  BY <1>1 DEF Path

\* The paths above one path are in a line.
LEMMA AboveOrder ==
  ASSUME NEW p \in Path
  PROVE  /\ p \notin Above(p)
         /\ \A q \in Above(p) : /\ q \in Path /\ p \notin Above(q)
                                /\ \A r \in Above(q) : r \in Above(p)
                                /\ \A r \in Above(p) : r = q \/ r \in Above(q) \/ q \in Above(r)
<1>1. \A q \in Above(p) : q \in Path /\ Len(q) \in Nat /\ Len(q) < Len(p)
  BY AboveIs, AbovePaths DEF Path
<1>2. Len(p) \in Nat
  BY DEF Path
<1>3. ASSUME NEW q \in Above(p), NEW r \in Above(q) PROVE r \in Above(p)
  <2>1. r \in Path /\ Len(r) \in Nat /\ Len(r) < Len(q) /\ \A i \in 1..Len(r) : r[i] = q[i]
    BY <1>1, AboveIs, AbovePaths DEF Path
  <2>2. \A i \in 1..Len(q) : q[i] = p[i]
    BY <1>1, AboveIs
  <2>3. Len(r) < Len(p) /\ \A i \in 1..Len(r) : r[i] = p[i]
    BY <1>1, <1>2, <2>1, <2>2
  <2> QED
    BY <2>1, <2>3, AboveIs
<1>4. ASSUME NEW q \in Above(p), NEW r \in Above(p)
      PROVE  r = q \/ r \in Above(q) \/ q \in Above(r)
  <2>1. \A i \in 1..Len(q) : q[i] = p[i]
    BY <1>1, AboveIs
  <2>2. \A i \in 1..Len(r) : r[i] = p[i]
    BY <1>1, AboveIs
  <2>3. CASE Len(r) < Len(q)
    <3>1. \A i \in 1..Len(r) : r[i] = q[i]
      BY <1>1, <2>1, <2>2, <2>3
    <3> QED
      BY <1>1, <2>3, <3>1, AboveIs
  <2>4. CASE Len(q) < Len(r)
    <3>1. \A i \in 1..Len(q) : q[i] = r[i]
      BY <1>1, <2>1, <2>2, <2>4
    <3> QED
      BY <1>1, <2>4, <3>1, AboveIs
  <2>5. CASE Len(q) = Len(r)
    <3>1. \A i \in 1..Len(q) : q[i] = r[i]
      BY <1>1, <2>1, <2>2, <2>5
    <3>2. q \in Seq(STRING) /\ r \in Seq(STRING)
      BY <1>1 DEF Path
    <3> QED
      BY <2>5, <3>1, <3>2
  <2> QED
    BY <1>1, <2>3, <2>4, <2>5
<1> QED
  BY <1>1, <1>2, <1>3, <1>4, AboveIs

LEMMA AboveFinite ==
  ASSUME NEW p \in Path
  PROVE  IsFiniteSet(Above(p))
<1> DEFINE N == 1..(Len(p) - 1)
           f == [n \in N |-> SubSeq(p, 1, n)]
<1>1. IsFiniteSet(N)
  BY FS_Interval DEF Path
<1>2. f \in Surjection(N, Above(p))
  BY DEF Surjection, Above
<1> QED
  BY <1>1, <1>2, FS_Surjection

\* Of what a path leads through or ends at, there is an outermost one in every set.
LEMMA Outermost ==
  ASSUME NEW S, NEW p \in Path, Under(p, S)
  PROVE  \E q \in S : q \in Upto(p) /\ q \in Path /\ \A r \in Above(q) : r \notin S
<1> DEFINE T == {Above(q) : q \in Upto(p) \cap S}
           R == StrictSubsetOrdering(Above(p))
<1>1. \A q \in Upto(p) : q \in Path /\ Above(q) \subseteq Above(p)
  BY AboveOrder DEF Upto
<1>2. IsWellFoundedOn(R, FiniteSubsetsOf(Above(p)))
  BY AboveFinite, FS_StrictSubsetOrderingWellFounded
<1>3. T \subseteq FiniteSubsetsOf(Above(p))
  BY <1>1, AboveFinite DEF FiniteSubsetsOf
<1>4. T # {}
  BY DEF Under
<1>5. PICK A \in T : \A B \in T : <<B, A>> \notin R
  BY <1>2, <1>3, <1>4, WFMin
<1>6. PICK q \in Upto(p) \cap S : A = Above(q)
  BY <1>5
<1>7. ASSUME NEW r \in Above(q), r \in S PROVE FALSE
  <2>1. r \in Upto(p) /\ Above(r) \subseteq Above(q) /\ r \notin Above(r)
    BY <1>1, <1>6, <1>7, AboveOrder DEF Upto
  <2>2. Above(r) \in T
    BY <1>7, <2>1
  <2>3. <<Above(r), Above(q)>> \in R
    BY <1>1, <1>6, <2>1 DEF StrictSubsetOrdering
  <2> QED
    BY <1>5, <1>6, <2>2, <2>3
<1> QED
  BY <1>1, <1>6, <1>7

\* What is inside of something under S is under S; and of two paths that lead to one, one
\* is under the other.
LEMMA UnderAbove ==
  ASSUME NEW S, NEW p \in Path, NEW q \in Above(p), Under(q, S)
  PROVE  Under(p, S)
BY AboveOrder DEF Under, Upto

LEMMA UptoOrder ==
  ASSUME NEW p \in Path, NEW q \in Upto(p), NEW r \in Upto(p)
  PROVE  q \in Path /\ r \in Path /\ (r \in Upto(q) \/ q \in Above(r))
BY AboveOrder DEF Upto

LEMMA UnderOne ==
  ASSUME NEW p, NEW q
  PROVE  Under(q, {p}) <=> p \in Upto(q)
BY DEF Under

\* What is at a path of two configurations is the same when all that is inside of it is.
LEMMA SameValue ==
  ASSUME NEW d, NEW e, NEW p,
         \A q : p \in Upto(q) => /\ q \in DOMAIN d <=> q \in DOMAIN e
                                 /\ q \in DOMAIN d => d[q] = e[q],
         \A q \in DOMAIN d : p \in Upto(q) => p \in DOMAIN d
  PROVE  ValueAt(d, p) = ValueAt(e, p)
<1>1. p \in Upto(p)
  BY DEF Upto
<1>2. ASSUME NEW q, p \in Upto(q)
      PROVE  /\ q \in DOMAIN d <=> q \in DOMAIN e
             /\ q \in DOMAIN d => d[q] = e[q] /\ d[p] = e[p]
  BY <1>1, <1>2
<1> DEFINE D == {q \in DOMAIN d : Under(q, {p}) /\ d[p] # Null}
           E == {q \in DOMAIN e : Under(q, {p}) /\ e[p] # Null}
<1>3. ASSUME NEW q \in D PROVE q \in E /\ d[q] = e[q]
  BY <1>2, UnderOne
<1>4. ASSUME NEW q \in E PROVE q \in D
  BY <1>2, UnderOne
<1>5. D = E /\ \A q \in D : d[q] = e[q]
  BY <1>3, <1>4
<1> QED
  BY <1>5 DEF ValueAt

\* Two leaves of a schema are not inside of each other.
LEMMA LeavesApart ==
  ASSUME NEW schema, IsSchema(schema), NEW p \in Leaves(schema), NEW q \in DOMAIN schema,
         p \in Upto(q)
  PROVE  p = q
BY DEF IsSchema, Leaves, Upto

-----------------------------------------------------------------------------
(* HideSecrets *)

LEMMA HidesDocument ==
  ASSUME NEW data, IsDocument(data), NEW schema, IsSchema(schema)
  PROVE  IsDocument(HideSecrets(data, schema))
<1> DEFINE hidden == {p \in Secrets(schema) :
                        \A q \in Above(p) : IsObj(data, q) /\ q \notin Secrets(schema)}
           shown  == HideSecrets(data, schema)
<1>1. /\ \A p : p \in DOMAIN shown <=>
               \/ p \in DOMAIN data /\ ~ Under(p, hidden)
               \/ p \in DOMAIN schema /\ Under(p, hidden)
      /\ \A p \in DOMAIN shown :
           shown[p] = IF Under(p, hidden) THEN constructEmptyObject(schema)[p] ELSE data[p]
  BY DEF HideSecrets
<1> HIDE DEF shown, hidden
<1>2. ASSUME NEW p \in DOMAIN shown, NEW q \in Above(p) PROVE p \in Path /\ IsObj(shown, q)
  <2>1. p \in Path
    BY <1>1 DEF IsDocument, IsSchema
  <2>2. CASE ~ Under(p, hidden)
    <3>1. ~ Under(q, hidden) /\ IsObj(data, q)
      BY <1>1, <2>1, <2>2, UnderAbove DEF IsDocument
    <3> QED
      BY <1>1, <2>1, <3>1 DEF IsObj
  <2>3. CASE Under(p, hidden)
    <3>1. p \in DOMAIN schema /\ q \in Objects(schema)
      BY <1>1, <2>3 DEF IsSchema
    <3>2. CASE Under(q, hidden)
      BY <1>1, <2>1, <3>1, <3>2 DEF IsObj, Objects, constructEmptyObject
    <3>3. CASE ~ Under(q, hidden)
      <4>1. PICK c \in hidden : c \in Upto(p)
        BY <2>3 DEF Under
      <4>2. q \in Above(c)
        BY <2>1, <3>3, <4>1, UptoOrder DEF Under, Upto
      <4>3. q \in DOMAIN data /\ data[q] = Obj
        BY <4>1, <4>2 DEF hidden, IsObj
      <4>4. q \in DOMAIN shown /\ shown[q] = data[q]
        BY <1>1, <3>3, <4>3
      <4> QED
        BY <2>1, <4>3, <4>4 DEF IsObj
    <3> QED
      BY <3>2, <3>3
  <2> QED
    BY <2>1, <2>2, <2>3
<1>3. \A p \in DOMAIN shown : p \in Path
  BY <1>1 DEF IsDocument, IsSchema
<1> QED
  BY <1>2, <1>3 DEF IsDocument, shown

\* Whatever is stored, nothing that is secret or inside of a secret is shown.
LEMMA HidesSecrets ==
  ASSUME NEW data, IsDocument(data), NEW schema, IsSchema(schema),
         NEW p \in DOMAIN HideSecrets(data, schema), Under(p, Secrets(schema))
  PROVE  HideSecrets(data, schema)[p] \in {Obj, Blank}
<1> DEFINE hidden == {q \in Secrets(schema) :
                        \A r \in Above(q) : IsObj(data, r) /\ r \notin Secrets(schema)}
           shown  == HideSecrets(data, schema)
<1>1. /\ \/ p \in DOMAIN data /\ ~ Under(p, hidden)
         \/ p \in DOMAIN schema /\ Under(p, hidden)
      /\ shown[p] = IF Under(p, hidden) THEN constructEmptyObject(schema)[p] ELSE data[p]
  BY DEF HideSecrets
<1>2. p \in Path
  BY <1>1 DEF IsDocument, IsSchema
<1>3. CASE Under(p, hidden)
  BY <1>1, <1>3 DEF constructEmptyObject
<1>4. CASE ~ Under(p, hidden)
  <2>1. PICK q \in Secrets(schema) : q \in Upto(p) /\ q \in Path
                                    /\ \A r \in Above(q) : r \notin Secrets(schema)
    BY <1>2, Outermost
  <2>2. \A r \in Above(q) : IsObj(data, r)
    BY <1>1, <1>2, <1>4, <2>1, AboveOrder DEF IsDocument, Upto
  <2>3. q \in hidden
    BY <2>1, <2>2
  <2> QED
    BY <1>4, <2>1, <2>3 DEF Under
<1> QED
  BY <1>3, <1>4

\* A leaf that is not secret and in no secret is shown as it is.
LEMMA ShowsTheRest ==
  ASSUME NEW data, IsDocument(data), NEW schema, IsSchema(schema),
         NEW p \in Leaves(schema), ~ Under(p, Secrets(schema))
  PROVE  /\ ValueAt(HideSecrets(data, schema), p) = ValueAt(data, p)
         /\ p \in DOMAIN HideSecrets(data, schema) <=> p \in DOMAIN data
<1> DEFINE hidden == {q \in Secrets(schema) :
                        \A r \in Above(q) : IsObj(data, r) /\ r \notin Secrets(schema)}
           shown  == HideSecrets(data, schema)
<1>1. /\ \A q : q \in DOMAIN shown <=>
               \/ q \in DOMAIN data /\ ~ Under(q, hidden)
               \/ q \in DOMAIN schema /\ Under(q, hidden)
      /\ \A q \in DOMAIN shown :
           shown[q] = IF Under(q, hidden) THEN constructEmptyObject(schema)[q] ELSE data[q]
  BY DEF HideSecrets
<1>2. hidden \subseteq DOMAIN schema /\ hidden \subseteq Secrets(schema)
  BY DEF Secrets
<1> HIDE DEF hidden, shown
<1>3. ASSUME NEW q \in Path, p \in Upto(q) PROVE ~ Under(q, hidden)
  <2> SUFFICES ASSUME NEW c \in hidden, c \in Upto(q) PROVE FALSE
    BY DEF Under
  <2>1. c \in Upto(p) \/ p \in Above(c)
    BY <1>3, UptoOrder
  <2>2. p \notin Above(c)
    BY <1>2 DEF IsSchema, Leaves
  <2> QED
    BY <1>2, <2>1, <2>2 DEF Under
<1>4. \A q : q \in DOMAIN data \/ q \in DOMAIN schema => q \in Path
  BY DEF IsDocument, IsSchema
<1>5. \A q : p \in Upto(q) => /\ q \in DOMAIN shown <=> q \in DOMAIN data
                              /\ q \in DOMAIN data => shown[q] = data[q]
  BY <1>1, <1>3, <1>4
<1>6. \A q \in DOMAIN data : p \in Upto(q) => p \in DOMAIN data
  BY DEF IsDocument, IsObj, Upto
<1>7. ValueAt(data, p) = ValueAt(shown, p)
  BY <1>5, <1>6, SameValue
<1>8. p \in Upto(p)
  BY DEF Upto
<1> QED
  BY <1>5, <1>7, <1>8 DEF shown

-----------------------------------------------------------------------------
(* MergeData *)

Both(old, new, schema)  == {p \in Objects(schema) : IsObj(old, p) /\ IsObj(new, p)}
First(old, new, schema) ==
  {p \in DOMAIN schema \ Both(old, new, schema) : Above(p) \subseteq Both(old, new, schema)}
Taken(old, new, schema) ==
  {p \in First(old, new, schema) :
     /\ p \in DOMAIN new
     /\ p \in Objects(schema) /\ p \in DOMAIN old => IsObj(new, p)}
Kept(old, new, schema)  == First(old, new, schema) \ Taken(old, new, schema)

LEMMA MergeIs ==
  ASSUME NEW old, NEW new, NEW schema
  PROVE  /\ \A p : p \in DOMAIN MergeData(old, new, schema) <=>
                     \/ p \in Both(old, new, schema) \/ p \in First(old, new, schema)
                     \/ p \in DOMAIN new /\ Under(p, Taken(old, new, schema))
                     \/ p \in DOMAIN old /\ Under(p, Kept(old, new, schema))
         /\ \A p \in DOMAIN MergeData(old, new, schema) :
              MergeData(old, new, schema)[p] =
                IF Under(p, Taken(old, new, schema)) THEN new[p]
                ELSE IF p \in DOMAIN old THEN old[p] ELSE Null
BY DEF MergeData, Both, First, Taken, Kept

\* A path leads through at most one of the first that the two do not both have as an object,
\* and through objects that both have before it only.
LEMMA FirstIsOne ==
  ASSUME NEW old, IsDocument(old), NEW new, IsDocument(new), NEW schema, IsSchema(schema),
         NEW p \in Path, NEW q \in First(old, new, schema), q \in Upto(p)
  PROVE  /\ \A r \in First(old, new, schema) : r \in Upto(p) => r = q
         /\ \A r \in Both(old, new, schema) : r \in Upto(p) => r \in Above(q)
<1>1. q \notin Both(old, new, schema) /\ Above(q) \subseteq Both(old, new, schema)
      /\ q \in DOMAIN schema
  BY DEF First
<1>2. ASSUME NEW r \in First(old, new, schema), r \in Upto(p) PROVE r = q
  <2>1. r \notin Both(old, new, schema) /\ Above(r) \subseteq Both(old, new, schema)
    BY DEF First
  <2>2. r \in Upto(q) \/ q \in Above(r)
    BY <1>2, UptoOrder
  <2> QED
    BY <1>1, <2>1, <2>2 DEF Upto
<1>3. ASSUME NEW r \in Both(old, new, schema), r \in Upto(p) PROVE r \in Above(q)
  <2>1. r \in Upto(q) \/ q \in Above(r)
    BY <1>3, UptoOrder
  <2>2. ASSUME q \in Above(r) PROVE FALSE
    <3>1. r \in DOMAIN schema /\ r \in DOMAIN old /\ r \in DOMAIN new
      BY DEF Both, IsObj, Objects
    <3>2. q \in Objects(schema) /\ IsObj(old, q) /\ IsObj(new, q)
      BY <2>2, <3>1 DEF IsDocument, IsSchema
    <3> QED
      BY <1>1, <3>2 DEF Both
  <2> QED
    BY <1>1, <1>3, <2>1, <2>2 DEF Upto
<1> QED
  BY <1>2, <1>3

LEMMA BothStay ==
  ASSUME NEW old, IsDocument(old), NEW new, IsDocument(new), NEW schema, IsSchema(schema),
         NEW p \in Both(old, new, schema)
  PROVE  IsObj(MergeData(old, new, schema), p)
<1>1. p \in DOMAIN old /\ old[p] = Obj /\ p \in Path
  BY DEF Both, IsObj, IsDocument
<1>2. ASSUME NEW t \in First(old, new, schema), t \in Upto(p) PROVE FALSE
  <2>1. p \in Upto(p)
    BY DEF Upto
  <2>2. p \in Above(t) /\ t \in Path
    BY <1>1, <1>2, <2>1, FirstIsOne, UptoOrder
  <2> QED
    BY <1>1, <1>2, <2>2, AboveOrder DEF Upto
<1>3. ~ Under(p, Taken(old, new, schema))
  BY <1>2 DEF Under, Taken
<1> QED
  BY <1>1, <1>3, MergeIs DEF IsObj

LEMMA MergeDocument ==
  ASSUME NEW old, IsDocument(old), NEW new, IsDocument(new), NEW schema, IsSchema(schema)
  PROVE  IsDocument(MergeData(old, new, schema))
<1> DEFINE both   == Both(old, new, schema)
           first  == First(old, new, schema)
           taken  == Taken(old, new, schema)
           kept   == Kept(old, new, schema)
           merged == MergeData(old, new, schema)
<1>1. /\ taken \subseteq first /\ kept \subseteq first /\ taken \cap kept = {}
      /\ first \subseteq DOMAIN schema /\ both \subseteq DOMAIN schema
      /\ \A q \in first : Above(q) \subseteq both
      /\ \A q \in both : Above(q) \subseteq both
  BY DEF Both, First, Taken, Kept, Objects, IsObj, IsDocument, IsSchema
<1>2. \A q \in both : IsObj(merged, q)
  BY BothStay
<1>3. /\ \A p : p \in DOMAIN merged <=> \/ p \in both \/ p \in first
                                        \/ p \in DOMAIN new /\ Under(p, taken)
                                        \/ p \in DOMAIN old /\ Under(p, kept)
      /\ \A p \in DOMAIN merged :
           merged[p] = IF Under(p, taken) THEN new[p]
                       ELSE IF p \in DOMAIN old THEN old[p] ELSE Null
  BY MergeIs
<1>4. \A p \in DOMAIN merged : p \in Path
  BY <1>1, <1>3 DEF IsDocument, IsSchema
<1>5. ASSUME NEW p \in Path, NEW q \in first, q \in Upto(p)
      PROVE  \A r \in first : r \in Upto(p) => r = q
  BY <1>5, FirstIsOne
<1> HIDE DEF both, first, taken, kept, merged
<1>6. ASSUME NEW p \in DOMAIN merged, NEW q \in Above(p) PROVE IsObj(merged, q)
  <2>1. CASE p \in both \/ p \in first
    BY <1>1, <1>2, <2>1
  <2>2. CASE p \in DOMAIN new /\ Under(p, taken)
    <3>1. PICK t \in taken : t \in Upto(p)
      BY <2>2 DEF Under
    <3>2. t \in Upto(q) \/ q \in Above(t)
      BY <1>4, <3>1, UptoOrder DEF Upto
    <3>3. CASE q \in Above(t)
      BY <1>1, <1>2, <3>3
    <3>4. CASE t \in Upto(q)
      <4>1. q \in DOMAIN new /\ new[q] = Obj
        BY <2>2 DEF IsDocument, IsObj
      <4>2. Under(q, taken)
        BY <3>4 DEF Under
      <4> QED
        BY <1>3, <4>1, <4>2 DEF IsObj
    <3> QED
      BY <3>2, <3>3, <3>4
  <2>3. CASE p \in DOMAIN old /\ Under(p, kept)
    <3>1. PICK t \in kept : t \in Upto(p)
      BY <2>3 DEF Under
    <3>2. t \in Upto(q) \/ q \in Above(t)
      BY <1>4, <3>1, UptoOrder DEF Upto
    <3>3. CASE q \in Above(t)
      BY <1>1, <1>2, <3>3
    <3>4. CASE t \in Upto(q)
      <4>1. q \in DOMAIN old /\ old[q] = Obj /\ q \in Path
        BY <2>3 DEF IsDocument, IsObj
      <4>2. Under(q, kept)
        BY <3>4 DEF Under
      <4>3. ~ Under(q, taken)
        BY <1>1, <1>5, <3>4, <4>1 DEF Under
      <4> QED
        BY <1>3, <4>1, <4>2, <4>3 DEF IsObj
    <3> QED
      BY <3>2, <3>3, <3>4
  <2> QED
    BY <1>3, <2>1, <2>2, <2>3
<1> QED
  BY <1>4, <1>6 DEF IsDocument, merged

\* Nothing is inside of what is not there.
LEMMA NothingInside ==
  ASSUME NEW d, IsDocument(d), NEW p
  PROVE  \A q \in DOMAIN d : p \in Upto(q) => p \in DOMAIN d
BY DEF IsDocument, IsObj, Upto

LEMMA NoValue ==
  ASSUME NEW d, IsDocument(d), NEW p, p \in DOMAIN d => d[p] = Null
  PROVE  ValueAt(d, p) = NoConfig
<1>1. {q \in DOMAIN d : Under(q, {p}) /\ d[p] # Null} = {}
  BY NothingInside, UnderOne
<1> QED
  BY <1>1 DEF ValueAt, NoConfig

\* A leaf is taken from what is sent when it is there, be it as null, and else from what is
\* stored.
LEMMA MergeTakes ==
  ASSUME NEW old, IsDocument(old), NEW new, IsDocument(new), NEW schema, IsSchema(schema),
         NEW p \in Leaves(schema)
  PROVE  ValueAt(MergeData(old, new, schema), p) =
           IF p \in DOMAIN new THEN ValueAt(new, p) ELSE ValueAt(old, p)
<1> DEFINE both   == Both(old, new, schema)
           first  == First(old, new, schema)
           taken  == Taken(old, new, schema)
           kept   == Kept(old, new, schema)
           merged == MergeData(old, new, schema)
<1>1. IsDocument(merged)
  BY MergeDocument
<1>2. /\ \A q : q \in DOMAIN merged <=> \/ q \in both \/ q \in first
                                        \/ q \in DOMAIN new /\ Under(q, taken)
                                        \/ q \in DOMAIN old /\ Under(q, kept)
      /\ \A q \in DOMAIN merged :
           merged[q] = IF Under(q, taken) THEN new[q]
                       ELSE IF q \in DOMAIN old THEN old[q] ELSE Null
  BY MergeIs
<1>3. p \in Path /\ p \in DOMAIN schema /\ p \notin both
  BY DEF IsSchema, Leaves, Both
<1>4. PICK f \in first : f \in Upto(p)
  <2> DEFINE S == DOMAIN schema \ both
  <2>1. Under(p, S)
    BY <1>3 DEF Under, Upto
  <2>2. PICK q \in S : q \in Upto(p) /\ \A r \in Above(q) : r \notin S
    BY <1>3, <2>1, Outermost
  <2>3. Above(q) \subseteq DOMAIN schema
    BY DEF IsSchema, Objects
  <2>4. Above(q) \subseteq both
    BY <2>2, <2>3
  <2> QED
    BY <2>2, <2>4 DEF First
<1>5. ASSUME NEW q \in Path, p \in Upto(q)
      PROVE  /\ f \in Upto(q) /\ q \notin both
             /\ \A r \in first : r \in Upto(q) => r = f
  <2>1. f \in Upto(q)
    BY <1>4, <1>5, AboveOrder DEF Upto
  <2>2. \A r \in first : r \in Upto(q) => r = f
    BY <2>1, FirstIsOne
  <2>3. ASSUME q \in both PROVE FALSE
    <3>1. q \in Above(f) /\ f \in Path
      BY <2>1, <2>3, FirstIsOne, UptoOrder DEF Upto
    <3> QED
      BY <2>1, <3>1, AboveOrder DEF Upto
  <2> QED
    BY <2>1, <2>2, <2>3
<1>6. \A q : q \in DOMAIN merged \/ q \in DOMAIN old \/ q \in DOMAIN new => q \in Path
  BY <1>1 DEF IsDocument
<1>7. f \notin both /\ (f = p \/ (f \in Above(p) /\ f \in Objects(schema))) /\ p \notin Objects(schema)
  <2>1. f \notin both
    BY DEF First
  <2>2. f = p \/ (f \in Above(p) /\ f \in Objects(schema))
    BY <1>3, <1>4 DEF Upto, IsSchema
  <2> QED
    BY <2>1, <2>2 DEF Leaves
<1>8. CASE f \in taken
  <2>1. f \in DOMAIN new /\ (f \in Objects(schema) /\ f \in DOMAIN old => IsObj(new, f))
    BY <1>8 DEF Taken
  <2>2. f \notin kept /\ kept \subseteq first
    BY <1>8 DEF Kept
  <2> HIDE DEF both, first, taken, kept, merged
  <2>3. ASSUME NEW q, p \in Upto(q)
        PROVE  /\ q \in DOMAIN merged <=> q \in DOMAIN new
               /\ q \in DOMAIN merged => merged[q] = new[q]
    <3>1. ASSUME q \in Path PROVE Under(q, taken) /\ ~ Under(q, kept) /\ q \notin both
                                  /\ (q \in first => q \in DOMAIN new)
      BY <1>5, <1>8, <2>1, <2>2, <2>3, <3>1 DEF Under, Upto
    <3> QED
      BY <1>2, <1>6, <3>1
  <2>4. ValueAt(merged, p) = ValueAt(new, p)
    BY <1>1, <2>3, NothingInside, SameValue
  <2>5. ASSUME p \notin DOMAIN new PROVE ValueAt(new, p) = ValueAt(old, p)
    <3>1. f \in Above(p) /\ f \in Objects(schema)
      BY <1>7, <2>1, <2>5
    <3>2. p \notin DOMAIN old
      BY <1>7, <2>1, <3>1 DEF IsDocument, Both, IsObj, both
    <3> QED
      BY <2>5, <3>2, NoValue
  <2> QED
    BY <2>4, <2>5 DEF merged
<1>9. CASE f \notin taken
  <2>1. f \in kept /\ ~ (f \in DOMAIN new /\ (f \in Objects(schema) /\ f \in DOMAIN old => IsObj(new, f)))
    BY <1>9 DEF Taken, Kept
  <2>2. taken \subseteq first
    BY DEF Taken
  <2>3. p \notin DOMAIN new
    BY <1>7, <2>1 DEF IsDocument, IsObj
  <2> HIDE DEF both, first, taken, kept, merged
  <2>4. ASSUME NEW q \in Path, p \in Upto(q)
        PROVE  ~ Under(q, taken) /\ Under(q, kept) /\ q \notin both /\ (q \in first => q = p)
    BY <1>5, <1>7, <1>9, <2>1, <2>2, <2>4, AboveOrder DEF Under, Upto
  <2>5. CASE p \in DOMAIN old
    <3>1. ASSUME NEW q, p \in Upto(q)
          PROVE  /\ q \in DOMAIN merged <=> q \in DOMAIN old
                 /\ q \in DOMAIN merged => merged[q] = old[q]
      BY <1>2, <1>6, <2>4, <2>5, <3>1
    <3> QED
      BY <1>1, <2>3, <3>1, NothingInside, SameValue DEF merged
  <2>6. CASE p \notin DOMAIN old
    <3>1. p \in DOMAIN merged => merged[p] = Null
      BY <1>2, <1>3, <2>4, <2>6 DEF Upto
    <3>2. ValueAt(merged, p) = NoConfig /\ ValueAt(old, p) = NoConfig
      BY <1>1, <2>6, <3>1, NoValue
    <3> QED
      BY <2>3, <3>2 DEF merged
  <2> QED
    BY <2>5, <2>6
<1> QED
  BY <1>8, <1>9

-----------------------------------------------------------------------------
(* The form *)

LEMMA FillIs ==
  ASSUME NEW data, NEW schema
  PROVE  LET open == Leaves(schema) \ Secrets(schema)
             form == fillSecretVals(schema, data)
         IN  /\ \A p : p \in DOMAIN form <=> p \in Objects(schema)
                                            \/ (p \in DOMAIN data /\ Under(p, open))
             /\ \A p \in DOMAIN form :
                  form[p] = IF p \in Objects(schema) THEN Obj ELSE data[p]
BY DEF fillSecretVals

LEMMA FillDocument ==
  ASSUME NEW data, IsDocument(data), NEW schema, IsSchema(schema)
  PROVE  IsDocument(fillSecretVals(schema, data))
<1> DEFINE open == Leaves(schema) \ Secrets(schema)
           form == fillSecretVals(schema, data)
<1>1. /\ \A p : p \in DOMAIN form <=> p \in Objects(schema)
                                     \/ (p \in DOMAIN data /\ Under(p, open))
      /\ \A p \in DOMAIN form :
           form[p] = IF p \in Objects(schema) THEN Obj ELSE data[p]
  BY FillIs
<1>2. open \subseteq DOMAIN schema /\ Objects(schema) \subseteq DOMAIN schema
  BY DEF Leaves, Objects
<1> HIDE DEF open, form
<1>3. \A p \in DOMAIN form : p \in Path
  BY <1>1, <1>2 DEF IsDocument, IsSchema
<1>4. \A q \in Objects(schema) : IsObj(form, q)
  BY <1>1 DEF IsObj
<1>5. ASSUME NEW p \in DOMAIN form, NEW q \in Above(p) PROVE IsObj(form, q)
  <2>1. CASE p \in Objects(schema)
    BY <1>2, <1>4, <2>1 DEF IsSchema
  <2>2. CASE p \in DOMAIN data /\ Under(p, open)
    <3>1. PICK t \in open : t \in Upto(p)
      BY <2>2 DEF Under
    <3>2. t \in Upto(q) \/ q \in Above(t)
      BY <1>3, <3>1, UptoOrder DEF Upto
    <3>3. CASE q \in Above(t)
      BY <1>2, <1>4, <3>3 DEF IsSchema
    <3>4. CASE t \in Upto(q)
      <4>1. q \in DOMAIN data /\ data[q] = Obj
        BY <2>2 DEF IsDocument, IsObj
      <4>2. Under(q, open)
        BY <3>4 DEF Under
      <4> QED
        BY <1>1, <4>1, <4>2 DEF IsObj
    <3> QED
      BY <3>2, <3>3, <3>4
  <2> QED
    BY <1>1, <2>1, <2>2
<1> QED
  BY <1>3, <1>5 DEF IsDocument, form

\* The form has what is not secret as it is shown, and nothing of a leaf that is secret.
LEMMA FillTakes ==
  ASSUME NEW data, IsDocument(data), NEW schema, IsSchema(schema), NEW p \in Leaves(schema)
  PROVE  IF p \in Secrets(schema) THEN p \notin DOMAIN fillSecretVals(schema, data)
         ELSE /\ p \in DOMAIN fillSecretVals(schema, data) => p \in DOMAIN data
              /\ p \in DOMAIN data => p \in DOMAIN fillSecretVals(schema, data)
              /\ ValueAt(fillSecretVals(schema, data), p) = ValueAt(data, p)
<1> DEFINE open == Leaves(schema) \ Secrets(schema)
           form == fillSecretVals(schema, data)
<1>1. /\ \A q : q \in DOMAIN form <=> q \in Objects(schema)
                                     \/ (q \in DOMAIN data /\ Under(q, open))
      /\ \A q \in DOMAIN form :
           form[q] = IF q \in Objects(schema) THEN Obj ELSE data[q]
  BY FillIs
<1>2. p \in DOMAIN schema /\ p \notin Objects(schema) /\ p \in Upto(p)
  BY DEF Leaves, Upto
<1>3. CASE p \in Secrets(schema)
  <2>1. ASSUME NEW q \in open, q \in Upto(p) PROVE FALSE
    BY <1>2, <1>3, <2>1, LeavesApart
  <2>2. ~ Under(p, open)
    BY <2>1 DEF Under
  <2> QED
    BY <1>1, <1>2, <1>3, <2>2
<1>4. CASE p \notin Secrets(schema)
  <2>1. ASSUME NEW q, p \in Upto(q) PROVE Under(q, open) /\ q \notin Objects(schema)
    <3>1. Under(q, open)
      BY <1>4, <2>1 DEF Under
    <3>2. ASSUME q \in Objects(schema) PROVE FALSE
      BY <1>2, <2>1, <3>2, LeavesApart DEF Objects
    <3> QED
      BY <3>1, <3>2
  <2> HIDE DEF open, form
  <2>2. \A q : p \in Upto(q) => (q \in DOMAIN form <=> q \in DOMAIN data)
                              /\ (q \in DOMAIN form => form[q] = data[q])
    BY <1>1, <2>1
  <2>3. ValueAt(form, p) = ValueAt(data, p)
    BY <2>2, NothingInside, FillDocument, SameValue DEF form
  <2> QED
    BY <1>2, <1>4, <2>2, <2>3 DEF form
<1> QED
  BY <1>3, <1>4

LEMMA TypedDocument ==
  ASSUME NEW data, IsDocument(data), NEW path \in Path, NEW v
  PROVE  IsDocument(Typed(data, path, v))
<1> DEFINE typed == Typed(data, path, v)
<1>1. /\ \A p : p \in DOMAIN typed <=> (p \in DOMAIN data /\ ~ Under(p, {path}))
                                      \/ p \in Upto(path)
      /\ \A p \in DOMAIN typed :
           typed[p] = IF p = path THEN Leaf(v) ELSE IF p \in Above(path) THEN Obj ELSE data[p]
  BY DEF Typed
<1> HIDE DEF typed
<1>2. \A p \in DOMAIN typed : p \in Path
  BY <1>1, UptoOrder DEF IsDocument, Upto
<1>3. ASSUME NEW p \in DOMAIN typed, NEW q \in Above(p) PROVE IsObj(typed, q)
  <2>1. CASE p \in Upto(path)
    <3>1. q \in Above(path) /\ q # path
      BY <2>1, AboveOrder DEF Upto
    <3> QED
      BY <1>1, <3>1 DEF IsObj, Upto
  <2>2. CASE p \in DOMAIN data /\ ~ Under(p, {path})
    <3>1. q \in DOMAIN data /\ data[q] = Obj
      BY <2>2 DEF IsDocument, IsObj
    <3>2. ~ Under(q, {path})
      BY <1>2, <2>2, UnderAbove
    <3>3. q # path
      BY <3>2 DEF Under, Upto
    <3> QED
      BY <1>1, <3>1, <3>2, <3>3 DEF IsObj
  <2> QED
    BY <1>1, <2>1, <2>2
<1> QED
  BY <1>2, <1>3 DEF IsDocument, typed

-----------------------------------------------------------------------------
(* The invariant *)

\* What is stored and what is in the hands of the users are documents; a call that waits for
\* a workflow that it started itself, or has its answer, was told the truth.
RowInv ==
  /\ row = [state |-> row.state, config |-> row.config, joined |-> row.joined]
  /\ IsDocument(row.config)
  /\ ValidatedUnlessJoined

CallInv(u) ==
  /\ IsDocument(call[u].config)
  /\ call[u].joined \in BOOLEAN
  /\ /\ call[u].at \in {"waiting", "answered"}
     /\ ~ call[u].joined /\ call[u].answer = "success"
     => Accepts(call[u].config)

ConfigIInv ==
  /\ TypeOK
  /\ call = [u \in Users |-> call[u]]
  /\ RowInv
  /\ \A u \in Users : CallInv(u)

LEMMA NoConfigIsDocument == IsDocument(NoConfig)
BY DEF IsDocument, NoConfig

LEMMA IdleIs ==
  /\ IsDocument(Idle.config)
  /\ Idle.at = "idle" /\ Idle.joined = FALSE /\ Idle.answer = "none"
BY NoConfigIsDocument DEF Idle, Call

LEMMA ConfigInit == Init => ConfigIInv
<1> SUFFICES ASSUME Init PROVE ConfigIInv
  OBVIOUS
<1>1. \A u \in Users : call[u] = Idle
  BY DEF Init
<1>2. TypeOK
  BY <1>1, IdleIs DEF Init, TypeOK, At
<1>3. RowInv
  BY NoConfigIsDocument DEF Init, RowInv, ValidatedUnlessJoined, SavedIsValidated
<1>4. \A u \in Users : CallInv(u)
  BY <1>1, IdleIs DEF CallInv
<1> QED
  BY <1>2, <1>3, <1>4 DEF Init, ConfigIInv

\* What a call has to leave behind when it changes nothing but itself.
LEMMA CallStep ==
  ASSUME ConfigIInv, NEW u \in Users, NEW c,
         call' = [call EXCEPT ![u] = c], UNCHANGED <<row, running>>,
         c.at \in {"idle", "create", "form", "merged", "answered"},
         c.at = "idle" => c = Idle,
         IsDocument(c.config), c.joined \in BOOLEAN,
         c.at = "answered" /\ ~ c.joined /\ c.answer = "success" => Accepts(c.config)
  PROVE  ConfigIInv'
<1>1. call'[u] = c /\ \A v \in Users : v # u => call'[v] = call[v]
  BY DEF ConfigIInv
<1>2. call' = [v \in Users |-> call'[v]]
  BY DEF ConfigIInv
<1>3. TypeOK'
  BY <1>1 DEF ConfigIInv, TypeOK, At
<1>4. RowInv'
  BY DEF ConfigIInv, RowInv, ValidatedUnlessJoined, SavedIsValidated
<1>5. ASSUME NEW v \in Users PROVE CallInv(v)'
  <2>1. CASE v = u
    BY <1>1, <2>1 DEF CallInv
  <2>2. CASE v # u
    BY <1>1, <2>2 DEF ConfigIInv, CallInv
  <2> QED
    BY <2>1, <2>2
<1> QED
  BY <1>2, <1>3, <1>4, <1>5 DEF ConfigIInv

LEMMA Returning ==
  ASSUME ConfigIInv, NEW u \in Users, Return(u), UNCHANGED <<row, running>>
  PROVE  ConfigIInv'
BY IdleIs, CallStep DEF Return

\* The call takes up a configuration.
LEMMA TakingUp ==
  ASSUME ConfigIInv, NEW u \in Users, NEW p \in {"create", "form", "merged"},
         NEW config, IsDocument(config), TakeUp(u, p, config), UNCHANGED <<row, running>>
  PROVE  ConfigIInv'
<1> DEFINE c == Call(p, config, FALSE, "none")
<1>1. c.at = p /\ c.config = config /\ c.joined = FALSE
  BY DEF Call
<1>2. call' = [call EXCEPT ![u] = c]
  BY DEF TakeUp
<1> HIDE DEF c
<1> QED
  BY <1>1, <1>2, CallStep

LEMMA MergeStep ==
  ASSUME ConfigIInv, NEW u \in Users, NEW input, IsDocument(input), Merge(u, input)
  PROVE  ConfigIInv'
<1>1. IsDocument(MergeData(row.config, input, Schema))
  BY MergeDocument, ConfigAssumption DEF ConfigIInv, RowInv
<1> QED
  BY <1>1, TakingUp DEF Merge

LEMMA ValidateStep ==
  ASSUME ConfigIInv, NEW u \in Users, Validate(u)
  PROVE  ConfigIInv'
<1> DEFINE c == Call("waiting", call[u].config, running # "none", running')
<1>1. call' = [call EXCEPT ![u] = c]
  BY DEF Validate
<1>2. /\ c.at = "waiting" /\ c.config = call[u].config
      /\ c.joined = (running # "none") /\ c.answer = running'
  BY DEF Call
<1> HIDE DEF c
<1>3. call'[u] = c /\ \A v \in Users : v # u => call'[v] = call[v]
  BY <1>1 DEF ConfigIInv
<1>4. call' = [v \in Users |-> call'[v]]
  BY <1>1 DEF ConfigIInv
<1>5. /\ running' \in {"success", "failure"}
      /\ running # "none" => running' = running
      /\ running = "none" /\ running' = "success" => Accepts(call[u].config)
  BY DEF Validate, AnswerTo, ConfigIInv, TypeOK
<1>6. TypeOK'
  <2>1. row' = row
    BY DEF Validate
  <2>2. ASSUME NEW v \in Users, v # u, At(v, "waiting")'
        PROVE  running' # "none" /\ call'[v].answer = running'
    BY <1>3, <1>5, <2>2 DEF ConfigIInv, TypeOK, At
  <2> QED
    BY <1>2, <1>3, <1>5, <2>1, <2>2 DEF ConfigIInv, TypeOK, At
<1>7. RowInv'
  BY DEF Validate, ConfigIInv, RowInv, ValidatedUnlessJoined, SavedIsValidated
<1>8. ASSUME NEW v \in Users PROVE CallInv(v)'
  <2>1. CASE v = u
    BY <1>2, <1>3, <1>5, <2>1 DEF ConfigIInv, CallInv
  <2>2. CASE v # u
    BY <1>3, <2>2 DEF ConfigIInv, CallInv
  <2> QED
    BY <2>1, <2>2
<1> QED
  BY <1>4, <1>6, <1>7, <1>8 DEF ConfigIInv

LEMMA RunEndsStep ==
  ASSUME ConfigIInv, RunEnds
  PROVE  ConfigIInv'
<1>1. row' = row /\ running' = "none" /\ call' = [v \in Users |-> call'[v]]
  BY DEF RunEnds
<1>2. ASSUME NEW u \in Users
      PROVE  \/ ~ At(u, "waiting") /\ call'[u] = call[u]
             \/ call'[u] = Idle
             \/ /\ At(u, "waiting") /\ call'[u].at = "answered"
                /\ call'[u].config = call[u].config /\ call'[u].joined = call[u].joined
                /\ call'[u].answer = call[u].answer
  BY DEF RunEnds, Call
<1>3. ASSUME NEW u \in Users PROVE CallInv(u)'
  <2>1. CASE call'[u] = Idle
    BY <2>1, IdleIs DEF CallInv
  <2>2. CASE call'[u] = call[u]
    BY <2>2 DEF ConfigIInv, CallInv
  <2>3. CASE At(u, "waiting") /\ call'[u] # Idle
    BY <1>2, <2>3 DEF ConfigIInv, CallInv, At
  <2> QED
    BY <1>2, <2>1, <2>2, <2>3
<1>4. ASSUME NEW u \in Users
      PROVE  /\ call'[u].at \in {"idle", "create", "form", "merged", "answered"}
             /\ At(u, "idle")' => call'[u] = Idle
  <2>1. CASE call'[u] = Idle
    BY <2>1, IdleIs DEF At
  <2>2. CASE ~ At(u, "waiting") /\ call'[u] = call[u]
    BY <2>2 DEF ConfigIInv, TypeOK, At
  <2>3. CASE At(u, "waiting") /\ call'[u] # Idle
    BY <1>2, <2>3 DEF At
  <2> QED
    BY <1>2, <2>1, <2>2, <2>3
<1>5. TypeOK'
  BY <1>1, <1>4 DEF ConfigIInv, TypeOK, At
<1>6. RowInv'
  BY <1>1 DEF ConfigIInv, RowInv, ValidatedUnlessJoined, SavedIsValidated
<1> QED
  BY <1>1, <1>3, <1>5, <1>6 DEF ConfigIInv

\* The row is written, by a call that then returns or by one that deletes it.
LEMMA RowStep ==
  ASSUME ConfigIInv, RowInv',
         row'.state \in {"none", "there", "gone"}, row'.joined \in BOOLEAN,
         row'.state # "there" => row'.config = NoConfig,
         UNCHANGED running,
         UNCHANGED call \/ \E u \in Users : Return(u)
  PROVE  ConfigIInv'
<1>1. call' = [v \in Users |-> call'[v]]
      /\ \A v \in Users : call'[v] = call[v] \/ call'[v] = Idle
  BY DEF ConfigIInv, Return
<1>2. TypeOK'
  BY <1>1, IdleIs DEF ConfigIInv, TypeOK, At
<1>3. ASSUME NEW v \in Users PROVE CallInv(v)'
  <2>1. CASE call'[v] = Idle
    BY <2>1, IdleIs DEF CallInv
  <2>2. CASE call'[v] = call[v]
    BY <2>2 DEF ConfigIInv, CallInv
  <2> QED
    BY <1>1, <2>1, <2>2
<1> QED
  BY <1>1, <1>2, <1>3 DEF ConfigIInv

LEMMA SaveStep ==
  ASSUME ConfigIInv, NEW u \in Users, Save(u)
  PROVE  ConfigIInv'
<1>1. CASE row.state = "there"
  <2>1. row' = [state |-> "there", config |-> call[u].config, joined |-> call[u].joined]
    BY <1>1 DEF Save, ConfigIInv, RowInv
  <2>2. /\ IsDocument(call[u].config) /\ call[u].joined \in BOOLEAN
        /\ ~ call[u].joined => Accepts(call[u].config)
    BY DEF Save, At, ConfigIInv, CallInv
  <2>3. RowInv'
    BY <2>1, <2>2 DEF RowInv, ValidatedUnlessJoined, SavedIsValidated
  <2> QED
    BY <2>1, <2>2, <2>3, RowStep DEF Save
<1>2. CASE row.state # "there"
  BY <1>2, Returning DEF Save
<1> QED
  BY <1>1, <1>2

LEMMA CreateRowStep ==
  ASSUME ConfigIInv, NEW u \in Users, CreateRow(u)
  PROVE  ConfigIInv'
<1>1. row' = [state |-> "there", config |-> call[u].config, joined |-> row.joined]
  BY DEF CreateRow, ConfigIInv, RowInv
<1>2. IsDocument(call[u].config) /\ Accepts(call[u].config) /\ row.joined \in BOOLEAN
  BY DEF CreateRow, ConfigIInv, CallInv, TypeOK
<1>3. RowInv'
  BY <1>1, <1>2 DEF RowInv, ValidatedUnlessJoined, SavedIsValidated
<1> QED
  BY <1>1, <1>2, <1>3, RowStep DEF CreateRow

LEMMA DeleteStep ==
  ASSUME ConfigIInv, Delete
  PROVE  ConfigIInv'
<1>1. row' = [state |-> "gone", config |-> NoConfig, joined |-> FALSE]
  BY DEF Delete
<1>2. RowInv'
  BY <1>1, NoConfigIsDocument DEF RowInv, ValidatedUnlessJoined, SavedIsValidated
<1> QED
  BY <1>1, <1>2, RowStep DEF Delete

LEMMA FormStep ==
  ASSUME ConfigIInv, NEW u \in Users, OpenForm(u) \/ Edit(u)
  PROVE  ConfigIInv'
<1>1. CASE OpenForm(u)
  <2>1. IsDocument(fillSecretVals(Schema, Shown))
    BY HidesDocument, FillDocument, ConfigAssumption DEF ConfigIInv, RowInv, Shown
  <2> QED
    BY <1>1, <2>1, TakingUp DEF OpenForm
<1>2. CASE Edit(u)
  <2>1. PICK p \in DOMAIN Values :
          \E v \in Values[p] : TakeUp(u, "form", Typed(call[u].config, p, v))
    BY <1>2 DEF Edit
  <2>2. PICK v \in Values[p] : TakeUp(u, "form", Typed(call[u].config, p, v))
    BY <2>1
  <2>3. p \in Path
    BY ConfigAssumption DEF IsSchema, Leaves
  <2>4. IsDocument(Typed(call[u].config, p, v))
    BY <2>3, TypedDocument DEF ConfigIInv, CallInv
  <2> QED
    BY <1>2, <2>2, <2>4, TakingUp DEF Edit
<1> QED
  BY <1>1, <1>2

LEMMA ConfigNext == ConfigIInv /\ [Next]_vars => ConfigIInv'
<1> SUFFICES ASSUME ConfigIInv, [Next]_vars PROVE ConfigIInv'
  OBVIOUS
<1>1. ASSUME NEW u \in Users, Create(u) PROVE ConfigIInv'
  BY <1>1, TakingUp, ConfigAssumption DEF Create
<1>2. ASSUME NEW u \in Users, CreateRejected(u) \/ Rejected(u) \/ Cancel(u) PROVE ConfigIInv'
  BY <1>2, Returning DEF CreateRejected, Rejected, Cancel
<1>3. ASSUME NEW u \in Users, Submit(u) \/ Send(u) PROVE ConfigIInv'
  <2>1. \A input : IsDocument(input) /\ Merge(u, input) => ConfigIInv'
    BY MergeStep
  <2>2. IsDocument(call[u].config)
    BY DEF ConfigIInv, CallInv
  <2> QED
    BY <1>3, <2>1, <2>2, ConfigAssumption DEF Submit, Send
<1>4. CASE UNCHANGED vars
  BY <1>4 DEF vars, ConfigIInv, TypeOK, RowInv, CallInv, At, ValidatedUnlessJoined,
              SavedIsValidated
<1> QED
  BY <1>1, <1>2, <1>3, <1>4, CreateRowStep, FormStep, ValidateStep, SaveStep, RunEndsStep,
     DeleteStep DEF Next

-----------------------------------------------------------------------------
(* The properties *)

LEMMA ConfigAlways == Spec => []ConfigIInv
BY ConfigInit, ConfigNext, PTL DEF Spec

\* Whoever waits for a validation waits for the one that runs (validateSiloDef), and a silo
\* that was deleted has no configuration.
THEOREM ConfigTypes == Spec => []TypeOK
<1>1. ConfigIInv => TypeOK
  BY DEF ConfigIInv
<1> QED
  BY <1>1, ConfigAlways, PTL

\* What UpdateSiloDefinition saves is what the connector has accepted, unless the call had
\* joined the validation of another one.
THEOREM SavedWasValidated == Spec => []ValidatedUnlessJoined
<1>1. ConfigIInv => ValidatedUnlessJoined
  BY DEF ConfigIInv, RowInv
<1> QED
  BY <1>1, ConfigAlways, PTL

\* HideSecrets shows no secret of a schema of any depth, whatever clients have stored, and
\* the form that fillSecretVals makes of what it shows is merged back to what is stored.
THEOREM SecretsAreKept == Spec => []SecretsKept
<1>1. ConfigIInv => SecretsKept
  <2> SUFFICES ASSUME ConfigIInv, row.state = "there" PROVE SecretsKept
    BY DEF SecretsKept
  <2> DEFINE form  == fillSecretVals(Schema, Shown)
             saved == MergeData(row.config, form, Schema)
  <2>1. IsDocument(row.config) /\ IsSchema(Schema)
    BY ConfigAssumption DEF ConfigIInv, RowInv
  <2>2. IsDocument(Shown) /\ IsDocument(form)
    BY <2>1, HidesDocument, FillDocument DEF Shown
  <2>3. \A p \in DOMAIN Shown : Under(p, Secrets(Schema)) => Shown[p] \in {Obj, Blank}
    BY <2>1, HidesSecrets DEF Shown
  <2>4. ASSUME NEW p \in Leaves(Schema), p \in Secrets(Schema) \/ ~ Under(p, Secrets(Schema))
        PROVE  ValueAt(saved, p) = ValueAt(row.config, p)
    <3>1. ValueAt(saved, p) = IF p \in DOMAIN form THEN ValueAt(form, p)
                              ELSE ValueAt(row.config, p)
      BY <2>1, <2>2, MergeTakes
    <3>2. CASE p \in Secrets(Schema)
      BY <2>1, <2>2, <3>1, <3>2, FillTakes
    <3>3. CASE p \notin Secrets(Schema)
      <4>1. ValueAt(form, p) = ValueAt(Shown, p)
        BY <2>1, <2>2, <3>3, FillTakes
      <4>2. ValueAt(Shown, p) = ValueAt(row.config, p)
        BY <2>1, <2>4, <3>3, ShowsTheRest DEF Shown
      <4> QED
        BY <3>1, <4>1, <4>2
    <3> QED
      BY <3>2, <3>3
  <2> QED
    BY <2>3, <2>4 DEF SecretsKept
<1> QED
  BY <1>1, ConfigAlways, PTL

\* MergeData takes each leaf that was sent and keeps each other one as it is stored, in a
\* schema of any depth and for whatever is sent in place of an object.
THEOREM MergesAsMeant == Spec => MergedAsMeant
<1>1. ConfigIInv /\ [Next]_vars =>
        [\A u \in Users :
           At(u, "merged")' => \A input \in ApiInputs \cup {call[u].config} :
             Merge(u, input) =>
               \A p \in Leaves(Schema) :
                 ValueAt(call'[u].config, p) =
                   IF Sent(input, p) THEN ValueAt(input, p) ELSE ValueAt(row.config, p)]_vars
  <2> SUFFICES ASSUME ConfigIInv, NEW u \in Users,
                      NEW input \in ApiInputs \cup {call[u].config}, Merge(u, input),
                      NEW p \in Leaves(Schema)
               PROVE  ValueAt(call'[u].config, p) =
                        IF Sent(input, p) THEN ValueAt(input, p) ELSE ValueAt(row.config, p)
    OBVIOUS
  <2>1. IsDocument(row.config) /\ IsDocument(input) /\ IsSchema(Schema)
    BY ConfigAssumption DEF ConfigIInv, RowInv, CallInv
  <2>2. call'[u].config = MergeData(row.config, input, Schema)
    BY DEF Merge, TakeUp, Call, ConfigIInv
  <2> QED
    BY <2>1, <2>2, MergeTakes DEF Sent
<1> QED
  BY <1>1, ConfigAlways, PTL DEF Spec, MergedAsMeant
=============================================================================
