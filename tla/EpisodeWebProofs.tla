-------------------------- MODULE EpisodeWebProofs --------------------------
(***************************************************************************)
(* Theorems about a site from its documents to the end of an episode, for  *)
(* any documents that have passed their schema, any seed and any number of *)
(* steps, hosts and posts.                                                 *)
(***************************************************************************)
EXTENDS EpisodeWeb, SequenceTheorems, FiniteSetTheorems, WellFoundedInduction, TLAPS

\* Some one of any naturals is least.
LEMMA LeastExists ==
  ASSUME NEW T, T \subseteq Nat, T # {}
  PROVE  \E x \in T : \A y \in T : x <= y
<1> DEFINE R == OpToRel(<, Nat)
<1>1. IsWellFoundedOn(R, Nat)
  BY NatLessThanWellFounded
<1>2. \A x, y \in Nat : y < x => <<y, x>> \in R
  BY DEF OpToRel
<1> HIDE DEF R
<1>3. PICK x \in T : \A y \in T : ~(<<y, x>> \in R)
  BY <1>1, WFMin
<1>4. \A y \in T : ~(y < x)
  BY <1>2, <1>3
<1>5. \A y \in Nat : x \in Nat /\ ~(y < x) => x <= y
  OBVIOUS
<1> QED
  BY <1>4, <1>5

\* Some one of finitely many naturals is greatest.
LEMMA GreatestExists ==
  ASSUME NEW S, IsFiniteSet(S), S \subseteq Nat, S # {}
  PROVE  \E x \in S : \A y \in S : x >= y
<1> DEFINE Greatest(T) == \E x \in T : \A y \in T : x >= y
           Sizes == {n \in Nat : \E T \in SUBSET S : T # {} /\ Cardinality(T) = n /\ ~Greatest(T)}
<1> SUFFICES ASSUME ~Greatest(S) PROVE FALSE
  OBVIOUS
<1>1. Cardinality(S) \in Sizes
  BY FS_CardinalityType
<1>2. PICK n \in Sizes : \A k \in Sizes : n <= k
  <2>1. Sizes \subseteq Nat /\ Sizes # {}
    BY <1>1
  <2> HIDE DEF Sizes
  <2> QED
    BY <2>1, LeastExists
<1>3. PICK T \in SUBSET S : T # {} /\ Cardinality(T) = n /\ ~Greatest(T)
  OBVIOUS
<1>4. PICK x \in T : TRUE
  BY <1>3
<1>5. IsFiniteSet(T) /\ IsFiniteSet(T \ {x}) /\ Cardinality(T \ {x}) = n - 1 /\ n - 1 \in Nat
  <2>1. IsFiniteSet(T)
    BY FS_Subset
  <2>2. IsFiniteSet(T \ {x}) /\ Cardinality(T \ {x}) = Cardinality(T) - 1
    BY <1>4, <2>1, FS_RemoveElement
  <2>3. Cardinality(T \ {x}) \in Nat
    BY <2>2, FS_CardinalityType
  <2> QED
    BY <1>3, <2>1, <2>2, <2>3
<1>6. T \ {x} = {} \/ Greatest(T \ {x})
  <2> SUFFICES ASSUME T \ {x} # {}, ~Greatest(T \ {x}) PROVE FALSE
    OBVIOUS
  <2>1. n - 1 \in Sizes
    <3>1. T \ {x} \in SUBSET S
      OBVIOUS
    <3> HIDE DEF Greatest
    <3> QED
      BY <1>5, <3>1
  <2>2. n \in Nat /\ ~(n <= n - 1)
    OBVIOUS
  <2> HIDE DEF Sizes
  <2> QED
    BY <1>2, <2>1, <2>2
<1>7. CASE T \ {x} = {}
  <2>1. T = {x} /\ x \in Nat
    BY <1>4, <1>7
  <2> QED
    BY <1>3, <2>1
<1>8. CASE Greatest(T \ {x})
  <2>1. PICK y \in T \ {x} : \A z \in T \ {x} : y >= z
    BY <1>8
  <2>2. CASE x >= y
    BY <1>3, <1>4, <2>1, <2>2
  <2>3. CASE y >= x
    BY <1>3, <1>4, <2>1, <2>3
  <2> QED
    BY <1>4, <2>1, <2>2, <2>3
<1> QED
  BY <1>6, <1>7, <1>8

\* Sequences of elements of S, one after another, are one sequence of them.
LEMMA FlattenTyped ==
  ASSUME NEW S, NEW ss \in Seq(Seq(S))
  PROVE  FlattenSeq(ss) \in Seq(S)
<1> DEFINE n == Len(ss)
           Body(f) == [i \in 1 .. n |-> IF i = 1 THEN ss[i] ELSE f[i - 1] \o ss[i]]
           flat == CHOOSE f : f = Body(f)
           Reached(m) == \E g \in [1 .. m -> Seq(S)] :
                           \A i \in 1 .. m : g[i] = IF i = 1 THEN ss[i] ELSE g[i - 1] \o ss[i]
           Missed == {m \in 0 .. n : ~Reached(m)}
<1>1. n \in Nat /\ \A i \in 1 .. n : ss[i] \in Seq(S)
  OBVIOUS
<1>2. Missed = {}
  <2> SUFFICES ASSUME Missed # {} PROVE FALSE
    OBVIOUS
  <2>1. PICK m \in Missed : \A k \in Missed : m <= k
    <3>1. Missed \subseteq Nat
      BY <1>1
    <3> HIDE DEF Missed
    <3> QED
      BY <3>1, LeastExists
  <2>2. m \in 0 .. n /\ ~Reached(m)
    OBVIOUS
  <2>3. m # 0
    <3>1. 1 .. 0 = {}
      OBVIOUS
    <3> DEFINE g == [i \in 1 .. 0 |-> ss]
    <3>2. g \in [1 .. 0 -> Seq(S)] /\ \A i \in 1 .. 0 : FALSE
      BY <3>1
    <3> HIDE DEF g
    <3>3. Reached(0)
      BY <3>2
    <3> HIDE DEF Reached
    <3> QED
      BY <2>2, <3>3
  <2>4. Reached(m - 1)
    <3>1. m - 1 \in 0 .. n /\ ~(m <= m - 1)
      BY <1>1, <2>2, <2>3
    <3> HIDE DEF Reached
    <3> QED
      BY <2>1, <3>1
  <2>5. PICK g \in [1 .. m - 1 -> Seq(S)] :
           \A i \in 1 .. m - 1 : g[i] = IF i = 1 THEN ss[i] ELSE g[i - 1] \o ss[i]
    BY <2>4
  <2> DEFINE last == IF m = 1 THEN ss[m] ELSE g[m - 1] \o ss[m]
             h == [i \in 1 .. m |-> IF i = m THEN last ELSE g[i]]
  <2>6. last \in Seq(S)
    <3>1. m \in 1 .. n /\ ss[m] \in Seq(S)
      BY <1>1, <2>2, <2>3
    <3>2. m # 1 => m - 1 \in 1 .. m - 1
      BY <3>1
    <3>3. m # 1 => g[m - 1] \in Seq(S)
      BY <3>2
    <3> QED
      BY <3>1, <3>3, ConcatProperties
  <2>7. \A i \in 1 .. m : i # m => i \in 1 .. m - 1
    BY <1>1, <2>2
  <2>8. h \in [1 .. m -> Seq(S)]
    <3> HIDE DEF last
    <3> QED
      BY <2>6, <2>7
  <2>9. ASSUME NEW i \in 1 .. m
        PROVE  h[i] = IF i = 1 THEN ss[i] ELSE h[i - 1] \o ss[i]
    <3>1. i # 1 => i - 1 \in 1 .. m /\ i - 1 # m
      BY <1>1, <2>2
    <3>2. CASE i = m
      <4>1. m # 1 => h[m - 1] = g[m - 1]
        BY <3>1, <3>2
      <4> QED
        BY <3>2, <4>1
    <3>3. CASE i # m
      <4>1. h[i] = g[i] /\ i \in 1 .. m - 1
        BY <2>7, <3>3
      <4>2. i # 1 => h[i - 1] = g[i - 1]
        BY <3>1
      <4> HIDE DEF h
      <4> QED
        BY <2>5, <4>1, <4>2
    <3> QED
      BY <3>2, <3>3
  <2> HIDE DEF h
  <2> QED
    BY <2>2, <2>8, <2>9
<1>3. Reached(n)
  <2>1. n \in 0 .. n
    BY <1>1
  <2> HIDE DEF Reached, n
  <2> QED
    BY <1>2, <2>1
<1>4. PICK g \in [1 .. n -> Seq(S)] :
         \A i \in 1 .. n : g[i] = IF i = 1 THEN ss[i] ELSE g[i - 1] \o ss[i]
  BY <1>3
<1>5. g = Body(g)
  <2>1. DOMAIN Body(g) = 1 .. n /\ \A i \in 1 .. n : g[i] = Body(g)[i]
    BY <1>4
  <2>2. DOMAIN g = 1 .. n /\ g = [i \in 1 .. n |-> g[i]]
    BY <1>4
  <2>3. Body(g) = [i \in 1 .. n |-> g[i]]
    BY <1>4
  <2> QED
    BY <2>2, <2>3
<1>6. flat = Body(flat)
  BY <1>5
<1>7. \A i \in 1 .. n : flat[i] = IF i = 1 THEN ss[i] ELSE flat[i - 1] \o ss[i]
  <2> HIDE DEF flat
  <2> QED
    BY <1>6
<1>8. FlattenSeq(ss) = IF n = 0 THEN ss ELSE flat[n]
  BY DEF FlattenSeq
<1> HIDE DEF flat
<1> DEFINE Odd == {i \in 1 .. n : flat[i] \notin Seq(S)}
<1>9. Odd = {}
  <2> SUFFICES ASSUME Odd # {} PROVE FALSE
    OBVIOUS
  <2>1. PICK i \in Odd : \A k \in Odd : i <= k
    <3>1. Odd \subseteq Nat
      BY <1>1
    <3> HIDE DEF Odd
    <3> QED
      BY <3>1, LeastExists
  <2>2. i \in 1 .. n /\ flat[i] \notin Seq(S)
    OBVIOUS
  <2>3. i # 1
    BY <1>1, <1>7, <2>2
  <2>4. i - 1 \in 1 .. n /\ ~(i <= i - 1)
    BY <1>1, <2>2, <2>3
  <2>5. flat[i - 1] \in Seq(S)
    BY <2>1, <2>4
  <2>6. ss[i] \in Seq(S)
    BY <1>1, <2>2
  <2>7. flat[i - 1] \o ss[i] \in Seq(S)
    BY <2>5, <2>6, ConcatProperties
  <2> QED
    BY <1>7, <2>2, <2>3, <2>7
<1>10. CASE n = 0
  <2>1. ss = <<>>
    BY <1>10
  <2> QED
    BY <1>8, <1>10, <2>1
<1>11. CASE n # 0
  <2>1. n \in 1 .. n
    BY <1>1, <1>11
  <2> QED
    BY <1>8, <1>9, <1>11, <2>1
<1> QED
  BY <1>10, <1>11

\* What is left of a sequence without repetitions when an element is removed.
LEMMA RemoveFirstFacts ==
  ASSUME NEW S, NEW s \in Seq(S), NEW e
  PROVE  /\ RemoveFirst(s, e) \in Seq(S)
         /\ ToSet(RemoveFirst(s, e)) \subseteq ToSet(s)
         /\ IsInjective(s) => /\ IsInjective(RemoveFirst(s, e))
                              /\ e \notin ToSet(RemoveFirst(s, e))
<1> DEFINE I == {i \in 1 .. Len(s) : s[i] = e}
<1>1. Len(s) \in Nat /\ DOMAIN s = 1 .. Len(s) /\ \A i \in 1 .. Len(s) : s[i] \in S
  OBVIOUS
<1>2. CASE I = {}
  <2>1. RemoveFirst(s, e) = s
    BY <1>2 DEF RemoveFirst
  <2>2. e \notin ToSet(s)
    BY <1>1, <1>2 DEF ToSet
  <2> QED
    BY <2>1, <2>2
<1>3. CASE I # {}
  <2> DEFINE k == Min(I)
             t == RemoveFirst(s, e)
  <2>1. k \in I
    <3>1. PICK x \in I : \A y \in I : x <= y
      <4>1. I \subseteq Nat
        BY <1>1
      <4> HIDE DEF I
      <4> QED
        BY <1>3, <4>1, LeastExists
    <3> HIDE DEF I
    <3> QED
      BY <3>1 DEF Min
  <2>2. t = SubSeq(s, 1, k - 1) \o SubSeq(s, k + 1, Len(s))
    <3>1. SelectInSeq(s, LAMBDA v : v = e) = k
      BY <1>3 DEF SelectInSeq
    <3>2. \E i \in 1 .. Len(s) : s[i] = e
      BY <1>3
    <3> HIDE DEF k
    <3> QED
      BY <3>1, <3>2 DEF RemoveFirst, RemoveAt
  <2>3. k \in 1 .. Len(s) /\ s[k] = e
    BY <2>1
  <2> HIDE DEF k, t, I
  <2>4. /\ SubSeq(s, 1, k - 1) \in Seq(S) /\ Len(SubSeq(s, 1, k - 1)) = k - 1
        /\ \A i \in 1 .. k - 1 : SubSeq(s, 1, k - 1)[i] = s[i]
    BY <1>1, <2>3, SubSeqProperties
  <2>5. /\ SubSeq(s, k + 1, Len(s)) \in Seq(S) /\ Len(SubSeq(s, k + 1, Len(s))) = Len(s) - k
        /\ \A i \in 1 .. Len(s) - k : SubSeq(s, k + 1, Len(s))[i] = s[k + i]
    <3>1. k + 1 \in Int /\ Len(s) \in Int /\ \A i \in k + 1 .. Len(s) : s[i] \in S
      BY <1>1, <2>3
    <3> DEFINE b == SubSeq(s, k + 1, Len(s))
    <3>2. /\ b \in Seq(S) /\ Len(b) = IF k + 1 <= Len(s) THEN Len(s) - (k + 1) + 1 ELSE 0
          /\ \A i \in 1 .. Len(s) - (k + 1) + 1 : b[i] = s[(k + 1) + i - 1]
      BY <3>1, SubSeqProperties
    <3> HIDE DEF b
    <3>3. Len(b) = Len(s) - k
      <4>1. \A l \in Nat : \A j \in 1 .. l : (IF j + 1 <= l THEN l - (j + 1) + 1 ELSE 0) = l - j
        OBVIOUS
      <4> QED
        BY <1>1, <2>3, <3>2, <4>1
    <3>4. ASSUME NEW i \in 1 .. Len(s) - k PROVE b[i] = s[k + i]
      <4>1. i \in 1 .. Len(s) - (k + 1) + 1 /\ (k + 1) + i - 1 = k + i
        BY <1>1, <2>3
      <4> QED
        BY <3>2, <4>1
    <3> QED
      BY <3>2, <3>3, <3>4 DEF b
  <2>6. /\ t \in Seq(S) /\ Len(t) = Len(s) - 1 /\ DOMAIN t = 1 .. Len(s) - 1
        /\ \A i \in 1 .. Len(s) - 1 : t[i] = IF i < k THEN s[i] ELSE s[i + 1]
    <3> DEFINE a == SubSeq(s, 1, k - 1)
               b == SubSeq(s, k + 1, Len(s))
    <3>1. a \in Seq(S) /\ b \in Seq(S) /\ Len(a) = k - 1 /\ Len(b) = Len(s) - k
      BY <2>4, <2>5
    <3>2. \A i \in 1 .. k - 1 : a[i] = s[i]
      BY <2>4
    <3>3. \A i \in 1 .. Len(s) - k : b[i] = s[k + i]
      BY <2>5
    <3>4. t = a \o b
      BY <2>2
    <3> HIDE DEF a, b
    <3>5. t \in Seq(S) /\ Len(t) = (k - 1) + (Len(s) - k)
          /\ \A i \in 1 .. Len(t) : t[i] = IF i <= Len(a) THEN a[i] ELSE b[i - Len(a)]
      <4>1. /\ a \o b \in Seq(S) /\ Len(a \o b) = Len(a) + Len(b)
            /\ \A i \in 1 .. Len(a) + Len(b) : (a \o b)[i] = IF i <= Len(a) THEN a[i] ELSE b[i - Len(a)]
        BY <3>1, ConcatProperties
      <4> QED
        BY <3>1, <3>4, <4>1
    <3>6. Len(t) = Len(s) - 1
      BY <1>1, <2>3, <3>5
    <3>7. ASSUME NEW i \in 1 .. Len(s) - 1
          PROVE  t[i] = IF i < k THEN s[i] ELSE s[i + 1]
      <4>1. CASE i < k
        <5>1. i \in 1 .. k - 1 /\ i <= Len(a) /\ i \in 1 .. Len(t)
          BY <1>1, <2>3, <3>1, <3>6, <4>1
        <5> QED
          BY <3>2, <3>5, <4>1, <5>1
      <4>2. CASE ~(i < k)
        <5>1. i - Len(a) \in 1 .. Len(s) - k /\ ~(i <= Len(a)) /\ i \in 1 .. Len(t)
              /\ k + (i - Len(a)) = i + 1
          BY <1>1, <2>3, <3>1, <3>6, <4>2
        <5> QED
          BY <3>3, <3>5, <4>2, <5>1
      <4> QED
        BY <4>1, <4>2
    <3> QED
      BY <3>5, <3>6, <3>7
  <2>7. \A i \in 1 .. Len(s) - 1 : i \in 1 .. Len(s) /\ i + 1 \in 1 .. Len(s)
    BY <1>1
  <2>8. ToSet(t) \subseteq ToSet(s)
    BY <1>1, <2>6, <2>7 DEF ToSet
  <2>9. ASSUME IsInjective(s) PROVE IsInjective(t) /\ e \notin ToSet(t)
    <3>1. \A i, j \in 1 .. Len(s) : s[i] = s[j] => i = j
      BY <1>1, <2>9 DEF IsInjective
    <3> DEFINE At(i) == IF i < k THEN i ELSE i + 1
    <3>2. \A i \in 1 .. Len(s) - 1 : At(i) \in 1 .. Len(s) /\ At(i) # k /\ t[i] = s[At(i)]
      <4> TAKE i \in 1 .. Len(s) - 1
      <4>1. At(i) \in 1 .. Len(s) /\ At(i) # k
        BY <1>1, <2>3, <2>7
      <4> QED
        BY <2>6, <4>1
    <3>3. \A i, j \in 1 .. Len(s) - 1 : At(i) = At(j) => i = j
      BY <1>1, <2>3
    <3> HIDE DEF At
    <3>4. \A i, j \in 1 .. Len(s) - 1 : t[i] = t[j] => i = j
      BY <3>1, <3>2, <3>3
    <3>5. \A i \in 1 .. Len(s) - 1 : t[i] # e
      BY <2>3, <3>1, <3>2
    <3> QED
      BY <2>6, <3>4, <3>5 DEF IsInjective, ToSet
  <2> QED
    BY <2>6, <2>8, <2>9 DEF t
<1> QED
  BY <1>2, <1>3

-----------------------------------------------------------------------------
(***************************************************************************)
(* The documents.                                                          *)
(***************************************************************************)

\* A rule of the linter that found nothing is kept everywhere.
LEMMA NothingFound ==
  ASSUME NEW code, NEW broken \in BOOLEAN, Code(code, broken) = {}
  PROVE  ~broken
BY DEF Code

\* What a document refers to by id is there, once the linter found nothing.
LEMMA RefersToItsOwn ==
  ASSUME NEW d, LintSpec(d) = {}
  PROVE  /\ \A r \in ToSet(d.routes) : Has(r, "mutation") => r.mutation \in Ids(d, "mutations")
         /\ \A m \in ToSet(d.mutations) : m.table \in Tables(d) /\ m.from_form \in Ids(d, "forms")
<1>1. InternalRefFindings(d) = {}
  BY DEF LintSpec
<1>2. /\ \A r \in ToSet(d.routes) : ~Dangles(r, RouteFields, d)
      /\ \A m \in ToSet(d.mutations) : m.table \in Tables(d) /\ m.from_form \in Ids(d, "forms")
  BY <1>1 DEF InternalRefFindings, Code
<1>3. "mutation" \in DOMAIN RouteFields /\ RouteFields["mutation"] = "mutations"
  BY DEF RouteFields
<1>4. \A r \in ToSet(d.routes) : Has(r, "mutation") => r.mutation \in Ids(d, "mutations")
  BY <1>2, <1>3 DEF Dangles, Has
<1> QED
  BY <1>2, <1>4

\* Every blob a document refers to is in the manifest under its role.
LEMMA BlobsAreThere ==
  ASSUME NEW d, LintSpec(d) = {}
  PROVE  /\ \A t \in ToSet(d.templates) : Opens(d, t.blob, "template")
         /\ \A s \in ToSet(d.search) : \A b \in ToSet(s.shards) : Opens(d, b, "bm25_shard")
<1>1. BlobRefFindings(d, SlotRoles(d)) = {}
  BY DEF LintSpec
<1>2. \A s \in SlotRoles(d) : s[1] \in DOMAIN d.files /\ d.files[s[1]] = s[2]
  BY <1>1 DEF BlobRefFindings, Code
<1>3. \A t \in ToSet(d.templates) : <<t.blob, "template">> \in SlotRoles(d)
  BY DEF SlotRoles
<1>4. \A s \in ToSet(d.search) : \A b \in ToSet(s.shards) : <<b, "bm25_shard">> \in SlotRoles(d)
  BY DEF SlotRoles
<1> QED
  BY <1>2, <1>3, <1>4 DEF Opens

\* An id the linter found no second time is looked up where it stands.
LEMMA LookedUp ==
  ASSUME NEW d, LintSpec(d) = {}, NEW kind \in Kinds, Array(d[kind]), NEW id \in Ids(d, kind)
  PROVE  ById(d, kind, id) \in ToSet(d[kind]) /\ ById(d, kind, id).id = id
<1>1. DuplicateFindings(d) = {}
  BY DEF LintSpec
<1>2. ~Repeats(d[kind])
  BY <1>1 DEF DuplicateFindings, Code
<1>3. \A i, j \in DOMAIN d[kind] : d[kind][i].id = d[kind][j].id => i = j
  BY <1>2 DEF Repeats, IsInjective
<1>4. PICK i \in DOMAIN d[kind] : d[kind][i].id = id
  BY DEF Ids, ToSet
<1> DEFINE Standing == {j \in DOMAIN d[kind] : d[kind][j].id = id}
<1>5. Standing = {i} /\ i \in Nat
  BY <1>3, <1>4 DEF Array
<1>6. Max({i}) = i
  BY <1>5 DEF Max
<1> QED
  BY <1>4, <1>5, <1>6 DEF ById, ToSet

\* The linter and the classifier ask for whatever compose_app relies on.
LEMMA ChecksCover ==
  ASSUME NEW name \in DOMAIN Documents
  PROVE  AcceptedComposes(Documents[name])
<1> DEFINE d == Documents[name]
<1> SUFFICES ASSUME Accepted(d), Tables(d) \subseteq d.seedTables PROVE ~ComposeRaises(d)
  BY DEF AcceptedComposes
<1>1. LintSpec(d) = {} /\ Supported(d)
  BY DEF Accepted, Findings
<1>2. Array(d["mutations"]) /\ \A s \in ToSet(d.search) : Array(s.shards)
  BY DocumentAssumption DEF Kinds
<1> HIDE DEF d
<1>3. d.framework = "fastapi-sqlite-v1"
  BY <1>1 DEF Supported
<1>4. \A t \in ToSet(d.templates) : Opens(d, t.blob, "template")
  BY <1>1, BlobsAreThere
<1>5. ASSUME NEW s \in ToSet(d.search) PROVE s.shards # <<>> /\ Opens(d, s.shards[1], "bm25_shard")
  <2>1. Len(s.shards) = 1 /\ 1 \in DOMAIN s.shards
    BY <1>1, <1>2 DEF Supported, UnsupportedSearch, Array
  <2>2. s.shards[1] \in ToSet(s.shards)
    BY <2>1 DEF ToSet
  <2> QED
    BY <1>1, <2>1, <2>2, BlobsAreThere
<1>6. \A m \in ToSet(d.mutations) : m.table \in d.seedTables
  BY <1>1, RefersToItsOwn
<1>7. ASSUME NEW r \in ToSet(d.routes) PROVE ~RouteRaises(d, r)
  <2>1. ~UnsupportedRoute(r)
    BY <1>1 DEF Supported
  <2>2. CASE r.method = "GET"
    BY <2>1, <2>2 DEF UnsupportedRoute, RouteRaises
  <2>3. CASE r.method # "GET"
    <3>1. Has(r, "mutation") /\ r.mutation \in Ids(d, "mutations")
      BY <1>1, <2>1, <2>3, RefersToItsOwn DEF UnsupportedRoute
    <3> DEFINE m == ById(d, "mutations", r.mutation)
    <3>2. m \in ToSet(d.mutations)
      BY <1>1, <1>2, <3>1, LookedUp DEF Kinds
    <3> HIDE DEF m
    <3>3. ~UnsupportedMutation(m) /\ m.from_form \in Ids(d, "forms")
      BY <1>1, <3>2, RefersToItsOwn DEF Supported
    <3> QED
      BY <2>3, <3>1, <3>3 DEF RouteRaises, UnsupportedMutation, m
  <2> QED
    BY <2>2, <2>3
<1> QED
  BY <1>3, <1>4, <1>5, <1>6, <1>7 DEF ComposeRaises, d

\* Whatever documents a site has, go-live does not fail over them once the linter and
\* the classifier have let them pass, if the seed holds the tables they declare.
THEOREM AcceptedSitesCompose == Spec => []AcceptedDocumentsCompose
<1> DEFINE Inv == doc \in DOMAIN Documents /\ AcceptedDocumentsCompose
<1>1. Init => Inv
  BY DEF Init, AcceptedDocumentsCompose
<1>2. Inv /\ [Next]_vars => Inv'
  <2> SUFFICES ASSUME Inv, [Next]_vars PROVE Inv'
    OBVIOUS
  <2>1. CASE GoLive
    <3>1. UNCHANGED doc /\ Accepted(D) /\ (phase' = "unbuilt" => ComposeRaises(D))
      BY <2>1 DEF GoLive
    <3>2. AcceptedComposes(D)
      BY ChecksCover DEF D
    <3>3. UNCHANGED D
      BY <3>1 DEF D
    <3> QED
      BY <3>1, <3>2, <3>3 DEF AcceptedDocumentsCompose, AcceptedComposes
  <2>2. CASE UNCHANGED doc /\ (phase' = "unbuilt" => phase = "unbuilt")
    BY <2>2 DEF AcceptedDocumentsCompose, D
  <2>3. [Next]_vars => GoLive \/ (UNCHANGED doc /\ (phase' = "unbuilt" => phase = "unbuilt"))
    <3>1. Refuse \/ Open \/ Stay \/ Search \/ Close \/ DriverPosts
            => UNCHANGED doc /\ (phase' = "unbuilt" => phase = "unbuilt")
      BY DEF Refuse, Open, Stay, Search, Close, DriverPosts, ThenTick, Observe
    <3>2. \A h \in Hosts, place \in Places : Go(h, place)
            => UNCHANGED doc /\ phase' # "unbuilt"
      BY DEF Go, ThenTick, Observe
    <3>3. \A form \in forms : Type(form) \/ SubmitForm(form) => UNCHANGED doc /\ phase' # "unbuilt"
      BY DEF Type, SubmitForm, ThenTick, Observe
    <3>4. \A h \in Hosts, site \in {Home, OtherSite, NoSite} :
             RegistryMoves(h, site) => UNCHANGED <<doc, phase>>
      BY DEF RegistryMoves
    <3> QED
      BY <3>1, <3>2, <3>3, <3>4 DEF Next, vars
  <2> QED
    BY <2>1, <2>2, <2>3
<1>3. Inv => AcceptedDocumentsCompose
  OBVIOUS
<1> QED
  BY <1>1, <1>2, <1>3, PTL DEF Spec

-----------------------------------------------------------------------------
(***************************************************************************)
(* The rows of the site and the forms on a page.                           *)
(***************************************************************************)

\* What the linter and the classifier let pass: a POST route has its mutation.
LEMMA RoutesWrite ==
  ASSUME NEW name \in DOMAIN Documents, Accepted(Documents[name])
  PROVE  LET d == Documents[name] IN
         /\ LintSpec(d) = {}
         /\ \A id \in Ids(d, "routes") : ById(d, "routes", id) \in ToSet(d.routes)
                                         /\ ById(d, "routes", id).id = id
         /\ \A r \in ToSet(d.routes) :
               /\ r.method = "POST" => Has(r, "mutation")
               /\ Has(r, "mutation") => /\ ById(d, "mutations", r.mutation) \in ToSet(d.mutations)
                                        /\ ById(d, "mutations", r.mutation).id = r.mutation
<1> DEFINE d == Documents[name]
<1>1. LintSpec(d) = {} /\ Supported(d)
  BY DEF Accepted, Findings
<1>2. Array(d["mutations"]) /\ Array(d["routes"])
  BY DocumentAssumption DEF Kinds
<1> HIDE DEF d
<1>3. \A id \in Ids(d, "routes") : ById(d, "routes", id) \in ToSet(d["routes"])
                                    /\ ById(d, "routes", id).id = id
  BY <1>1, <1>2, LookedUp DEF Kinds
<1>4. \A r \in ToSet(d.routes) : r.method = "POST" => Has(r, "mutation")
  BY <1>1 DEF Supported, UnsupportedRoute
<1>5. \A r \in ToSet(d.routes) : Has(r, "mutation") => r.mutation \in Ids(d, "mutations")
  BY <1>1, RefersToItsOwn
<1>6. \A id \in Ids(d, "mutations") : ById(d, "mutations", id) \in ToSet(d["mutations"])
                                       /\ ById(d, "mutations", id).id = id
  BY <1>1, <1>2, LookedUp DEF Kinds
<1> QED
  BY <1>1, <1>3, <1>4, <1>5, <1>6 DEF d

\* A table: its ids are positive, and there are finitely many.
IsTable(table) ==
  /\ IsFiniteSet(DOMAIN table) /\ DOMAIN table \subseteq Nat \ {0}
  /\ \A i \in DOMAIN table : table[i].thread \in Nat

\* The id of a new row is no other row's.
LEMMA NewIdIsNew ==
  ASSUME NEW table, IsTable(table)
  PROVE  NewId(table) \in Nat \ {0} /\ NewId(table) \notin DOMAIN table
<1>1. CASE DOMAIN table = {}
  BY <1>1 DEF NewId
<1>2. CASE DOMAIN table # {}
  <2> DEFINE ids == DOMAIN table
  <2>1. IsFiniteSet(ids) /\ ids \subseteq Nat /\ ids # {}
    BY <1>2 DEF IsTable
  <2>2. NewId(table) = Max(ids) + 1
    BY <1>2 DEF NewId
  <2> HIDE DEF ids
  <2>3. \E x \in ids : \A y \in ids : x >= y
    BY <2>1, GreatestExists
  <2>4. Max(ids) \in ids /\ \A y \in ids : Max(ids) >= y
    BY <2>3 DEF Max
  <2>5. \A m \in Nat : m + 1 \in Nat \ {0} /\ ~(m >= m + 1)
    OBVIOUS
  <2> QED
    BY <2>1, <2>2, <2>4, <2>5 DEF ids
<1> QED
  BY <1>1, <1>2

\* What the answer to a post of this writer does to the rows: nothing, or a row of the
\* writer is added under an id not in use, or those of the writer's that the path names
\* go, or are changed, which may move one to another id or give it to another writer.
RightAnswer(table, route, m, given, args, writer, answer) ==
  /\ IsTable(answer.rows) /\ answer.id \in Nat
  /\ Accepts(answer) => route.method = "POST"
  /\ \/ answer.id = 0 /\ answer.rows = table /\ ~Accepts(answer)
     \/ /\ Accepts(answer) /\ m.op = "insert"
        /\ answer.id \in Nat \ {0} /\ answer.id \notin DOMAIN table
        /\ DOMAIN answer.rows = DOMAIN table \cup {answer.id}
        /\ answer.rows[answer.id].writer = writer
        /\ \A i \in DOMAIN table : answer.rows[i] = table[i]
     \/ /\ Accepts(answer) /\ m.op = "delete" /\ answer.id = 0
        /\ DOMAIN answer.rows = DOMAIN table \ Matching(table, m, args, writer)
        /\ \A i \in DOMAIN answer.rows : answer.rows[i] = table[i]
        /\ \A c \in DOMAIN m.bind : m.bind[c] \in DOMAIN args
     \/ /\ Accepts(answer) /\ m.op \notin {"insert", "delete"} /\ answer.id = 0
        /\ \A i \in DOMAIN table \ Matching(table, m, args, writer) :
              i \in DOMAIN answer.rows /\ answer.rows[i] = table[i]
        /\ "id" \notin given => DOMAIN table \subseteq DOMAIN answer.rows
        /\ {"id", "writer"} \cap given = {} =>
              \A i \in DOMAIN table : answer.rows[i].writer = table[i].writer

\* An UPDATE has such an answer, if what the form says of a row has its type.
LEMMA UpdateOutcome ==
  ASSUME NEW table, IsTable(table), NEW m, m.op \notin {"insert", "delete"}, NEW given, NEW args,
         NEW writer, NEW route, route.method = "POST", NEW value, value.id \in Nat, value.thread \in Nat,
         Matching(table, m, args, writer) # {}
  PROVE  RightAnswer(table, route, m, given, args, writer,
                     Update(table, Matching(table, m, args, writer), given, value))
<1> DEFINE hit    == Matching(table, m, args, writer)
           rest   == DOMAIN table \ hit
           one    == CHOOSE i \in hit : TRUE
           new(i) == [writer |-> IF "writer" \in given THEN value.writer ELSE table[i].writer,
                      thread |-> IF "thread_id" \in given THEN value.thread ELSE table[i].thread]
           edited == [i \in DOMAIN table |-> IF i \in hit THEN new(i) ELSE table[i]]
           moved  == [i \in rest \cup {value.id} |-> IF i \in rest THEN table[i] ELSE new(one)]
           answer == Update(table, hit, given, value)
<1>1. hit \subseteq DOMAIN table /\ one \in hit
  BY DEF Matching
<1>2. \A i \in DOMAIN table : new(i).thread \in Nat
  BY DEF IsTable
<1>3. \A i \in DOMAIN table : "writer" \notin given => new(i).writer = table[i].writer
  OBVIOUS
<1>4. /\ IsFiniteSet(DOMAIN table) /\ DOMAIN table \subseteq Nat \ {0}
      /\ \A i \in DOMAIN table : table[i].thread \in Nat
  BY DEF IsTable
<1>5. \/ "id" \notin given /\ answer = Answer("303", edited, 0)
      \/ answer = Answer("raised", table, 0)
      \/ "id" \in given /\ value.id \notin rest \cup {0} /\ answer = Answer("303", moved, 0)
  BY DEF Update
<1> HIDE DEF hit, one, new
<1>6. CASE "id" \notin given /\ answer = Answer("303", edited, 0)
  <2>1. answer.status = "303" /\ answer.rows = edited /\ answer.id = 0
    BY <1>6 DEF Answer
  <2>2. /\ DOMAIN edited = DOMAIN table
        /\ \A i \in DOMAIN table : edited[i] = IF i \in hit THEN new(i) ELSE table[i]
    OBVIOUS
  <2> HIDE DEF edited, answer
  <2>3. IsTable(edited)
    BY <1>2, <1>4, <2>2 DEF IsTable
  <2>4. \A i \in DOMAIN table \ hit : i \in DOMAIN edited /\ edited[i] = table[i]
    BY <2>2
  <2>5. "writer" \notin given => \A i \in DOMAIN table : edited[i].writer = table[i].writer
    BY <1>3, <2>2
  <2>6. answer.id \in Nat
    BY <2>1
  <2> QED
    BY <2>1, <2>2, <2>3, <2>4, <2>5, <2>6 DEF RightAnswer, Accepts, hit, answer
<1>7. CASE answer = Answer("raised", table, 0)
  <2>1. answer.status = "raised" /\ answer.rows = table /\ answer.id = 0
    BY <1>7 DEF Answer
  <2> HIDE DEF answer
  <2>2. answer.id \in Nat
    BY <2>1
  <2> QED
    BY <2>1, <2>2 DEF RightAnswer, Accepts, answer, hit
<1>8. CASE "id" \in given /\ value.id \notin rest \cup {0} /\ answer = Answer("303", moved, 0)
  <2>1. answer.status = "303" /\ answer.rows = moved /\ answer.id = 0
    BY <1>8 DEF Answer
  <2>2. /\ DOMAIN moved = rest \cup {value.id}
        /\ \A i \in DOMAIN moved : moved[i] = IF i \in rest THEN table[i] ELSE new(one)
    OBVIOUS
  <2>3. IsFiniteSet(rest \cup {value.id})
    <3>1. IsFiniteSet(rest)
      BY <1>4, FS_Subset
    <3> QED
      BY <3>1, FS_AddElement
  <2>4. rest \subseteq DOMAIN table
    OBVIOUS
  <2>5. value.id \in Nat \ {0}
    BY <1>8
  <2>6. \A i \in DOMAIN table \ hit : i \in rest
    OBVIOUS
  <2>7. one \in DOMAIN table
    BY <1>1
  <2> HIDE DEF moved, answer, rest
  <2>8. IsTable(moved)
    BY <1>2, <1>4, <2>2, <2>3, <2>4, <2>5, <2>7 DEF IsTable
  <2>9. \A i \in DOMAIN table \ hit : i \in DOMAIN moved /\ moved[i] = table[i]
    BY <2>2, <2>6
  <2>10. answer.id \in Nat
    BY <2>1
  <2> QED
    BY <1>8, <2>1, <2>8, <2>9, <2>10 DEF RightAnswer, Accepts, hit, answer
<1> QED
  BY <1>5, <1>6, <1>7, <1>8 DEF hit

\* Every post has such an answer.
LEMMA PostOutcome ==
  ASSUME NEW d, NEW table, IsTable(table), NEW route, NEW args, NEW writer, NEW body,
         body.value.id \in Nat, body.value.thread \in Nat,
         \A c \in DOMAIN args : args[c] \in Nat
  PROVE  LET m == ById(d, "mutations", route.mutation) IN
         RightAnswer(table, route, m, Given(ById(d, "forms", m.from_form), body), args, writer,
                     Post(d, table, route, args, writer, body))
<1> DEFINE m      == ById(d, "mutations", route.mutation)
           form   == ById(d, "forms", m.from_form)
           given  == Given(form, body)
           answer == Post(d, table, route, args, writer, body)
<1> HIDE DEF m, form, given
<1>1. CASE /\ route.method = "POST" /\ ~HandlerRaises(m, given, args) /\ m.op = "insert"
           /\ answer = Insert(table, m, given, args, writer, body.value)
  <2> DEFINE id  == Inserted(m, given, args, "id", body.value.id, NewId(table))
             row == [writer |-> writer,
                     thread |-> Inserted(m, given, args, "thread_id", body.value.thread, 0)]
             new == [i \in DOMAIN table \cup {id} |-> IF i = id THEN row ELSE table[i]]
  <2>1. \A column : ~HandlerRaises(m, given, args) /\ Has(m.bind, column) => args[m.bind[column]] \in Nat
    BY DEF HandlerRaises, Has
  <2>2. id \in Nat
    <3>1. NewId(table) \in Nat
      BY NewIdIsNew
    <3> QED
      BY <1>1, <2>1, <3>1 DEF Inserted
  <2>3. row.writer = writer /\ row.thread \in Nat
    BY <1>1, <2>1 DEF Inserted
  <2>4. answer = IF id = 0 \/ id \in DOMAIN table THEN Answer("raised", table, 0)
                 ELSE Answer("303", new, id)
    BY <1>1 DEF Insert
  <2> HIDE DEF id, row
  <2>5. CASE id = 0 \/ id \in DOMAIN table
    <3>1. answer.status = "raised" /\ answer.rows = table /\ answer.id = 0
      BY <2>4, <2>5 DEF Answer
    <3> HIDE DEF answer
    <3>2. answer.id \in Nat
      BY <3>1
    <3> QED
      BY <3>1, <3>2 DEF RightAnswer, Accepts, m, form, given, answer
  <2>6. CASE ~(id = 0 \/ id \in DOMAIN table)
    <3>1. answer.status = "303" /\ answer.rows = new /\ answer.id = id
      BY <2>4, <2>6 DEF Answer
    <3>2. id \in Nat \ {0} /\ id \notin DOMAIN table
      BY <2>2, <2>6
    <3>3. /\ DOMAIN new = DOMAIN table \cup {id} /\ new[id] = row
          /\ \A i \in DOMAIN table : new[i] = table[i]
      BY <3>2
    <3>4. IsFiniteSet(DOMAIN table \cup {id})
      BY FS_AddElement DEF IsTable
    <3> HIDE DEF new
    <3>5. IsTable(new)
      BY <2>3, <3>2, <3>3, <3>4 DEF IsTable
    <3> HIDE DEF answer
    <3> QED
      BY <1>1, <2>3, <3>1, <3>2, <3>3, <3>5 DEF RightAnswer, Accepts, m, form, given, answer
  <2> QED
    BY <2>5, <2>6
<1>2. CASE /\ route.method = "POST" /\ ~HandlerRaises(m, given, args) /\ m.op # "insert"
           /\ answer = Change(table, m, given, args, writer, body.value)
  <2> DEFINE hit  == Matching(table, m, args, writer)
             left == [i \in DOMAIN table \ hit |-> table[i]]
  <2>1. CASE hit = {}
    <3>1. answer.id = 0 /\ answer.rows = table /\ answer.status = "404"
      BY <1>2, <2>1 DEF Change, Answer
    <3> HIDE DEF answer
    <3>2. answer.id \in Nat
      BY <3>1
    <3> QED
      BY <3>1, <3>2 DEF RightAnswer, Accepts, m, form, given, answer
  <2>2. CASE hit # {} /\ m.op = "delete"
    <3>1. answer.status = "303" /\ answer.id = 0 /\ answer.rows = left
      BY <1>2, <2>2 DEF Change, Answer
    <3>2. DOMAIN left = DOMAIN table \ hit /\ \A i \in DOMAIN left : left[i] = table[i]
      OBVIOUS
    <3>3. IsFiniteSet(DOMAIN table \ hit)
      BY FS_Subset DEF IsTable
    <3> HIDE DEF left, hit
    <3>4. IsTable(left)
      BY <3>2, <3>3 DEF IsTable
    <3>5. \A c \in DOMAIN m.bind : m.bind[c] \in DOMAIN args
      BY <1>2 DEF HandlerRaises
    <3> HIDE DEF answer
    <3>6. answer.id \in Nat
      BY <3>1
    <3> QED
      BY <1>2, <2>2, <3>1, <3>2, <3>4, <3>5, <3>6 DEF RightAnswer, Accepts, m, form, given, hit, answer
  <2>3. CASE hit # {} /\ m.op # "delete"
    <3>1. answer = Update(table, hit, given, body.value)
      BY <1>2, <2>3 DEF Change
    <3> HIDE DEF answer
    <3>2. RightAnswer(table, route, m, given, args, writer, answer)
      BY <1>2, <2>3, <3>1, UpdateOutcome
    <3> QED
      BY <3>2 DEF m, form, given, answer
  <2> QED
    BY <2>1, <2>2, <2>3
<1>3. CASE answer.id = 0 /\ answer.rows = table /\ ~Accepts(answer)
  <2> HIDE DEF answer
  <2>1. answer.id \in Nat
    BY <1>3
  <2> QED
    BY <1>3, <2>1 DEF RightAnswer, m, form, given, answer
<1>4. \/ /\ route.method = "POST" /\ ~HandlerRaises(m, given, args) /\ m.op = "insert"
         /\ answer = Insert(table, m, given, args, writer, body.value)
      \/ /\ route.method = "POST" /\ ~HandlerRaises(m, given, args) /\ m.op # "insert"
         /\ answer = Change(table, m, given, args, writer, body.value)
      \/ answer \in {Answer("405", table, 0), Answer("400", table, 0), Answer("raised", table, 0)}
  BY DEF Post, m, form, given
<1>5. \A status \in {"405", "400", "raised"} :
         LET a == Answer(status, table, 0) IN a.id = 0 /\ a.rows = table /\ ~Accepts(a)
  BY DEF Answer, Accepts
<1> QED
  BY <1>1, <1>2, <1>3, <1>4, <1>5

\* What a body says of a row has its type.
LEMMA BodyFacts ==
  ASSUME NEW form, NEW filled, NEW body \in Bodies(form, filled)
  PROVE  body.value.id \in Nat /\ body.value.thread \in Nat
<1>1. PICK v \in IF filled THEN Values ELSE {Blank} :
         body = [names |-> {f.name : f \in ToSet(form.fields)}, filled |-> filled, value |-> v]
  BY DEF Bodies
<1>2. body.value = v
  BY <1>1
<1>3. v.id \in Nat /\ v.thread \in Nat
  <2>1. CASE v \in Values
    BY <2>1, ValuesAssumption
  <2>2. CASE v = Blank
    BY <2>2 DEF Blank
  <2> QED
    BY <1>1, <2>1, <2>2
<1> QED
  BY <1>2, <1>3

\* The forms on a page are those of POST routes, for an id.
LEMMA FormsAreOfRoutes ==
  ASSUME NEW place, place.id \in Nat, NEW table, DOMAIN table \subseteq Nat
  PROVE  FormsOn(place, table) \subseteq {r.id : r \in Posts} \X Nat
<1>1. Listed(place, table) \subseteq Nat
  BY DEF Listed
<1> DEFINE idsOf(r) == IF ById(D, "mutations", r.mutation).op # "insert" THEN Listed(place, table)
                       ELSE IF r.path.params = {} \/ place.id # 0 THEN {place.id} ELSE {}
<1>2. \A r \in Posts : idsOf(r) \subseteq Nat
  BY <1>1
<1>3. FormsOn(place, table) = {} \/ FormsOn(place, table) = UNION {{r.id} \X idsOf(r) : r \in Posts}
  BY DEF FormsOn
<1> HIDE DEF idsOf
<1> QED
  BY <1>2, <1>3

-----------------------------------------------------------------------------
(***************************************************************************)
(* Types.                                                                  *)
(***************************************************************************)

\* A driver: a count, and the ids of each actor's rows.
IsDriver(dr) ==
  /\ DOMAIN dr = {"performed", "owned"} /\ dr.performed \in 0 .. MaxActions
  /\ \A a \in DOMAIN dr.owned : dr.owned[a] \in Seq(Nat)

\* Beyond the types: what is open was accepted.
Typed ==
  /\ TypeOK
  /\ at.id \in Nat /\ IsTable(rows) /\ IsDriver(driver)
  /\ phase \notin {"received", "refused"} => Accepted(D)

\* A new driver is one, and a seed is a table.
LEMMA NewSite == IsDriver(NewDriver) /\ IsTable(Seed)
<1>1. DOMAIN NewDriver = {"performed", "owned"} /\ NewDriver.performed = 0
      /\ NewDriver.owned = << >> /\ DOMAIN NewDriver.owned = {}
  BY DEF NewDriver
<1>2. 0 \in 0 .. MaxActions
  BY DriverAssumption
<1> QED
  BY <1>1, <1>2, WebAssumption DEF IsDriver, IsTable

\* The types hold at the start.
LEMMA TypeInit == Init => Typed
<1> SUFFICES ASSUME Init PROVE Typed
  OBVIOUS
<1>1. IsDriver(driver) /\ IsTable(rows)
  BY NewSite DEF Init
<1>2. /\ step \in 0 .. MaxSteps /\ moves \in 0 .. MaxMoves
      /\ live \in [Hosts -> {Home, OtherSite, NoSite}]
  BY WebAssumption DEF Init
<1>3. host \in DOMAIN clients /\ \A h \in DOMAIN clients : h \in Hosts /\ clients[h] \in {Home, OtherSite}
  BY WebAssumption DEF Init
<1>4. at.route = NoRoute /\ at.id = 0 /\ typed = {} /\ forms = {} /\ phase = "received"
      /\ doc \in DOMAIN Documents
  BY DEF Init
<1> QED
  BY <1>1, <1>2, <1>3, <1>4 DEF Typed, TypeOK, IsTable, IsDriver

\* A path that a page answers, or none does.
LEMMA PageAnswers ==
  ASSUME NEW segments
  PROVE  PageAt(segments) \in {p.id : p \in Pages} \cup {NoRoute}
<1> DEFINE found == {p \in Pages : p.path.segments = segments}
<1>1. CASE found = {}
  BY <1>1 DEF PageAt
<1>2. CASE found # {}
  <2>1. (CHOOSE p \in found : TRUE) \in found
    BY <1>2
  <2>2. PageAt(segments) = (CHOOSE p \in found : TRUE).id
    BY <1>2 DEF PageAt
  <2> HIDE DEF found
  <2>3. found \subseteq Pages
    BY DEF found
  <2> QED
    BY <2>1, <2>2, <2>3
<1> QED
  BY <1>1, <1>2

\* Whatever comes of a post, the driver stays a driver and the rows a table.
LEMMA SubmissionType ==
  ASSUME NEW d, NEW dr, IsDriver(dr), NEW table, IsTable(table), NEW post,
         NEW s \in Submissions(d, dr, table, post)
  PROVE  IsDriver(s.driver) /\ IsTable(s.rows)
<1>1. CASE s = [driver |-> dr, rows |-> table, raised |-> FALSE]
  BY <1>1
<1>2. CASE /\ ~Clamped(dr)
           /\ \E t \in Targets(dr, ById(d, "routes", post.route), post),
                 body \in UNION {Bodies(ById(d, "forms", post.form), f) : f \in BOOLEAN} :
                s = Submit(d, dr, table, post, ById(d, "routes", post.route), t, body)
  <2> DEFINE route == ById(d, "routes", post.route)
  <2>1. PICK t \in Targets(dr, route, post),
             body \in UNION {Bodies(ById(d, "forms", post.form), f) : f \in BOOLEAN} :
               s = Submit(d, dr, table, post, route, t, body)
    BY <1>2
  <2> HIDE DEF route
  <2>2. OwnedBy(dr, post.actor) \in Seq(Nat)
    BY EmptySeq DEF OwnedBy, IsDriver, Has
  <2>3. t \in Nat
    <3>1. ToSet(OwnedBy(dr, post.actor)) \subseteq Nat
      BY <2>2 DEF ToSet
    <3> QED
      <4> HIDE DEF route
      <4>1. \/ Targets(dr, route, post) = ToSet(OwnedBy(dr, post.actor))
            \/ Targets(dr, route, post) = {}
            \/ Targets(dr, route, post) = {0}
            \/ Targets(dr, route, post) = Threads
        BY DEF Targets
      <4>2. Threads \subseteq Nat /\ {0} \subseteq Nat
        BY DriverAssumption
      <4>3. Targets(dr, route, post) \subseteq Nat
        BY <3>1, <4>1, <4>2
      <4> QED
        BY <4>3, <2>1
  <2> DEFINE args   == [p \in ParamNames(route.path) |-> t]
             answer == Post(d, table, route, args, post.actor, body)
             m      == ById(d, "mutations", route.mutation)
             kept   == Remembers(dr, post, route, m, t, answer)
  <2>4. IsTable(answer.rows) /\ answer.id \in Nat
    <3>1. \A c \in DOMAIN args : args[c] \in Nat
      BY <2>3
    <3>2. body.value.id \in Nat /\ body.value.thread \in Nat
      BY BodyFacts
    <3> HIDE DEF args
    <3> QED
      BY <3>1, <3>2, PostOutcome DEF RightAnswer
  <2>5. \/ s = [driver |-> dr, rows |-> table, raised |-> answer.status = "raised"]
        \/ s = [driver |-> dr, rows |-> answer.rows, raised |-> TRUE]
        \/ s = [driver |-> [kept EXCEPT !.performed = @ + 1], rows |-> answer.rows, raised |-> FALSE]
    BY <2>1 DEF Submit
  <2> HIDE DEF answer, m
  <2>6. DOMAIN kept = {"performed", "owned"} /\ kept.performed = dr.performed
        /\ \A a \in DOMAIN kept.owned : kept.owned[a] \in Seq(Nat)
    <3>1. ASSUME NEW ids \in Seq(Nat)
          PROVE  LET n == SetOwned(dr, post.actor, ids) IN
                 /\ DOMAIN n = {"performed", "owned"} /\ n.performed = dr.performed
                 /\ \A a \in DOMAIN n.owned : n.owned[a] \in Seq(Nat)
      BY DEF SetOwned, IsDriver
    <3>2. Append(OwnedBy(dr, post.actor), answer.id) \in Seq(Nat)
      BY <2>2, <2>4, AppendProperties
    <3>3. RemoveFirst(OwnedBy(dr, post.actor), t) \in Seq(Nat)
      BY <2>2, RemoveFirstFacts
    <3>4. \/ kept = SetOwned(dr, post.actor, Append(OwnedBy(dr, post.actor), answer.id))
          \/ kept = SetOwned(dr, post.actor, RemoveFirst(OwnedBy(dr, post.actor), t))
          \/ kept = dr
      BY DEF Remembers
    <3> HIDE DEF kept
    <3>5. CASE kept = dr
      BY <3>5 DEF IsDriver
    <3>6. CASE kept = SetOwned(dr, post.actor, Append(OwnedBy(dr, post.actor), answer.id))
      BY <3>1, <3>2, <3>6
    <3>7. CASE kept = SetOwned(dr, post.actor, RemoveFirst(OwnedBy(dr, post.actor), t))
      BY <3>1, <3>3, <3>7
    <3> QED
      BY <3>4, <3>5, <3>6, <3>7
  <2> HIDE DEF kept
  <2>7. dr.performed + 1 \in 0 .. MaxActions
    BY <1>2, DriverAssumption DEF Clamped, IsDriver
  <2>8. IsDriver([kept EXCEPT !.performed = @ + 1])
    BY <2>6, <2>7 DEF IsDriver
  <2> QED
    BY <2>4, <2>5, <2>8
<1> QED
  BY <1>1, <1>2 DEF Submissions

\* An iteration ends with the types kept, wherever it has taken the browser.
LEMMA ThenTickKeeps ==
  ASSUME Typed, Acting, ThenTick, IsTable(rows'), IsDriver(driver'),
         host' \in DOMAIN clients', at'.id \in Nat,
         \A h \in DOMAIN clients' : h \in Hosts /\ clients'[h] \in {Home, OtherSite},
         at'.route \in {p.id : p \in Pages} \cup {NoRoute, Results},
         typed' \subseteq {r.id : r \in Posts}
  PROVE  Typed'
<1>1. UNCHANGED <<doc, D, Posts, Pages, live, moves>>
  BY DEF ThenTick, D, Posts, Pages
<1>2. forms' \subseteq {r.id : r \in Posts} \X Nat /\ phase' \in {"open", "raised"}
  <2>1. DOMAIN rows' \subseteq Nat
    BY DEF IsTable
  <2>2. FormsOn(at', rows') \subseteq {r.id : r \in Posts} \X Nat
    BY <2>1, FormsAreOfRoutes
  <2> QED
    BY <2>2 DEF ThenTick, Observe
<1>3. step' \in 0 .. MaxSteps
  BY WebAssumption DEF Acting, ThenTick, Typed, TypeOK
<1>4. Accepted(D)
  BY DEF Typed, Acting
<1> QED
  BY <1>1, <1>2, <1>3, <1>4 DEF Typed, TypeOK, IsTable, IsDriver

\* A place is a page, or no page, and an id.
LEMMA PlaceFacts ==
  ASSUME NEW place \in Places
  PROVE  place[1] \in {p.id : p \in Pages} \cup {NoRoute} /\ place[2] \in Nat
<1> DEFINE idsOf(p) == IF p.path.params = {} THEN {0} ELSE Threads
           perPage  == {{p.id} \X idsOf(p) : p \in Pages}
<1>1. \A p \in Pages : idsOf(p) \subseteq Nat
  BY DriverAssumption
<1>2. Places = {<<NoRoute, 0>>} \cup UNION perPage
  BY DEF Places
<1> HIDE DEF idsOf
<1>3. \A T \in perPage : \E p \in Pages : T = {p.id} \X idsOf(p)
  OBVIOUS
<1> HIDE DEF perPage
<1>4. CASE place \in UNION perPage
  <2>1. PICK T \in perPage : place \in T
    BY <1>4
  <2>2. PICK p \in Pages : place \in {p.id} \X idsOf(p)
    BY <1>3, <2>1
  <2> QED
    BY <1>1, <2>2
<1>5. CASE place \in {<<NoRoute, 0>>}
  BY <1>5
<1> QED
  BY <1>2, <1>4, <1>5

\* Every step keeps the types.
LEMMA TypeNext == Typed /\ [Next]_vars => Typed'
<1> SUFFICES ASSUME Typed, [Next]_vars PROVE Typed'
  OBVIOUS
<1>1. CASE Refuse
  <2>1. UNCHANGED <<D, Posts, Pages>>
    BY <1>1 DEF Refuse, D, Posts, Pages
  <2> QED
    BY <1>1, <2>1 DEF Refuse, Typed, TypeOK, broker
<1>2. CASE GoLive
  <2>1. UNCHANGED <<D, Posts, Pages>>
    BY <1>2 DEF GoLive, D, Posts, Pages
  <2> QED
    BY <1>2, <2>1 DEF GoLive, Typed, TypeOK, broker
<1>3. CASE Open
  <2>1. UNCHANGED <<doc, D, Posts, Pages, step, live, moves, host, clients, typed>>
    BY <1>3 DEF Open, D, Posts, Pages
  <2>2. IsTable(rows') /\ IsDriver(driver')
    BY <1>3, NewSite DEF Open
  <2>3. at'.route \in {p.id : p \in Pages} \cup {NoRoute} /\ at'.id = 0
    BY <1>3, PageAnswers DEF Open
  <2>4. forms' \subseteq {r.id : r \in Posts} \X Nat /\ phase' \in {"open", "raised"}
    <3>1. DOMAIN rows' \subseteq Nat /\ at'.id \in Nat
      BY <2>2, <2>3 DEF IsTable
    <3>2. FormsOn(at', rows') \subseteq {r.id : r \in Posts} \X Nat
      BY <3>1, FormsAreOfRoutes
    <3> QED
      BY <1>3, <3>2 DEF Open, Observe
  <2>5. Accepted(D)
    BY <1>3 DEF Open, Typed
  <2> QED
    BY <2>1, <2>2, <2>3, <2>4, <2>5 DEF Typed, TypeOK, IsTable, IsDriver
<1>4. ASSUME NEW h \in Hosts, NEW place \in Places, Go(h, place) PROVE Typed'
  <2>1. Acting /\ ThenTick /\ typed' \subseteq typed
    BY <1>4 DEF Go
  <2>2. place[1] \in {p.id : p \in Pages} \cup {NoRoute} /\ place[2] \in Nat
    BY PlaceFacts
  <2>3. at'.route \in {p.id : p \in Pages} \cup {NoRoute, Results} /\ at'.id \in Nat
    BY <1>4, <2>2 DEF Go
  <2>4. IsTable(rows') /\ IsDriver(driver')
    BY <1>4, NewSite DEF Go, Materialise, Typed
  <2>5. live[h] \in {Home, OtherSite, NoSite}
    BY DEF Typed, TypeOK
  <2>6. host' \in DOMAIN clients'
        /\ \A k \in DOMAIN clients' : k \in Hosts /\ clients'[k] \in {Home, OtherSite}
    <3>1. CASE h \in DOMAIN clients
      BY <1>4, <3>1 DEF Go, Typed, TypeOK
    <3>2. CASE h \notin DOMAIN clients
      <4>1. live[h] \in {Home, OtherSite}
        BY <1>4, <2>5, <3>2 DEF Go
      <4>2. clients' = [k \in DOMAIN clients \cup {h} |-> IF k = h THEN live[h] ELSE clients[k]]
            /\ host' = h
        BY <1>4, <3>2 DEF Go
      <4> QED
        BY <4>1, <4>2 DEF Typed, TypeOK
    <3> QED
      BY <3>1, <3>2
  <2> QED
    BY <2>1, <2>3, <2>4, <2>6, ThenTickKeeps DEF Typed, TypeOK
<1>5. CASE Stay
  BY <1>5, ThenTickKeeps DEF Stay, Typed, TypeOK
<1>6. CASE Search
  BY <1>6, ThenTickKeeps DEF Search, Typed, TypeOK
<1>7. ASSUME NEW form \in forms, Type(form) PROVE Typed'
  <2>1. form[1] \in {r.id : r \in Posts}
    BY DEF Typed, TypeOK
  <2> QED
    BY <1>7, <2>1, ThenTickKeeps DEF Type, Typed, TypeOK
<1>8. ASSUME NEW form \in forms, SubmitForm(form) PROVE Typed'
  <2> DEFINE route  == ById(D, "routes", form[1])
             shown  == ById(D, "forms", ById(D, "mutations", route.mutation).from_form)
             args   == [p \in ParamNames(route.path) |-> form[2]]
  <2>0. PICK body \in Bodies(shown, form[1] \in typed) :
         LET answer == Post(D, rows, route, args, "agent", body) IN
         /\ Acting /\ rows' = answer.rows /\ UNCHANGED <<host, clients, driver>>
         /\ IF answer.status = "raised"
            THEN phase' = "raised" /\ UNCHANGED <<doc, step, live, moves, at, typed, forms, todo>>
            ELSE /\ at' = IF Accepts(answer)
                          THEN [route |-> Parent(route), id |-> IF Parent(route) = NoRoute THEN 0 ELSE form[2]]
                          ELSE at
                 /\ typed' = {}
                 /\ ThenTick
    BY <1>8 DEF SubmitForm
  <2> DEFINE answer == Post(D, rows, route, args, "agent", body)
  <2>1. form[2] \in Nat
    BY DEF Typed, TypeOK
  <2>2. IsTable(answer.rows)
    <3>1. \A c \in DOMAIN args : args[c] \in Nat
      BY <2>1
    <3>2. body.value.id \in Nat /\ body.value.thread \in Nat
      BY BodyFacts
    <3> HIDE DEF args
    <3> QED
      BY <3>1, <3>2, PostOutcome DEF Typed, RightAnswer
  <2>3. /\ Acting /\ rows' = answer.rows /\ UNCHANGED <<host, clients, driver>>
        /\ IF answer.status = "raised"
           THEN phase' = "raised" /\ UNCHANGED <<doc, step, live, moves, at, typed, forms, todo>>
           ELSE /\ at' = IF Accepts(answer)
                         THEN [route |-> Parent(route), id |-> IF Parent(route) = NoRoute THEN 0 ELSE form[2]]
                         ELSE at
                /\ typed' = {}
                /\ ThenTick
    BY <2>0
  <2>4. Parent(route) \in {p.id : p \in Pages} \cup {NoRoute}
    BY PageAnswers DEF Parent
  <2> HIDE DEF answer, route
  <2>5. CASE answer.status = "raised"
    <3>1. UNCHANGED <<doc, D, Posts, Pages>>
      BY <2>3, <2>5 DEF D, Posts, Pages
    <3>2. Accepted(D)
      BY <2>3 DEF Acting, Typed
    <3> QED
      BY <2>2, <2>3, <2>5, <3>1, <3>2 DEF Typed, TypeOK, IsTable
  <2>6. CASE answer.status # "raised"
    <3>1. at'.route \in {p.id : p \in Pages} \cup {NoRoute, Results} /\ at'.id \in Nat
      BY <2>1, <2>3, <2>4, <2>6 DEF Typed, TypeOK
    <3> QED
      BY <2>2, <2>3, <2>6, <3>1, ThenTickKeeps DEF Typed, TypeOK
  <2> QED
    BY <2>5, <2>6
<1>9. CASE Close
  <2>1. UNCHANGED <<D, Posts, Pages>>
    BY <1>9 DEF Close, D, Posts, Pages
  <2> QED
    BY <1>9, <2>1 DEF Close, Typed, TypeOK, broker
<1>10. CASE DriverPosts
  <2>1. UNCHANGED <<D, Posts, Pages>>
    BY <1>10 DEF DriverPosts, D, Posts, Pages
  <2>2. IsTable(rows') /\ IsDriver(driver')
    <3>1. PICK s \in Submissions(D, driver, rows, Head(todo)) : driver' = s.driver /\ rows' = s.rows
      BY <1>10 DEF DriverPosts
    <3> QED
      BY <3>1, SubmissionType DEF Typed
  <2>3. phase' \in {"open", "raised"} /\ phase = "open"
    BY <1>10 DEF DriverPosts
  <2> QED
    BY <1>10, <2>1, <2>2, <2>3 DEF DriverPosts, Typed, TypeOK, broker, IsTable, IsDriver
<1>11. ASSUME NEW h \in Hosts, NEW site \in {Home, OtherSite, NoSite}, RegistryMoves(h, site) PROVE Typed'
  <2>1. UNCHANGED <<D, Posts, Pages>>
    BY <1>11 DEF RegistryMoves, D, Posts, Pages
  <2>2. moves' \in 0 .. MaxMoves
    BY <1>11, WebAssumption DEF RegistryMoves, Typed, TypeOK
  <2>3. live' \in [Hosts -> {Home, OtherSite, NoSite}]
    BY <1>11 DEF RegistryMoves, Typed, TypeOK
  <2> QED
    BY <1>11, <2>1, <2>2, <2>3 DEF RegistryMoves, Typed, TypeOK, broker
<1>12. CASE UNCHANGED vars
  <2>1. UNCHANGED <<D, Posts, Pages>>
    BY <1>12 DEF vars, D, Posts, Pages
  <2> QED
    BY <1>12, <2>1 DEF vars, Typed, TypeOK
<1> QED
  BY <1>1, <1>2, <1>3, <1>4, <1>5, <1>6, <1>7, <1>8, <1>9, <1>10, <1>11, <1>12 DEF Next

\* Every variable of the episode keeps its type, whatever the documents are: the driver
\* stays within its cap, the rows a table, the browser on a page or on none.
THEOREM TypeCorrect == Spec => []TypeOK
<1>1. Typed => TypeOK
  BY DEF Typed
<1> QED
  BY <1>1, TypeInit, TypeNext, PTL DEF Spec

-----------------------------------------------------------------------------
(***************************************************************************)
(* What the driver takes for an actor's rows.                              *)
(***************************************************************************)

\* The posts there may be: a step of a script, or a behaviour, with its actor.
Asked(actor, s) ==
  [actor |-> actor.id, action |-> s.action, form |-> s.form, route |-> s.route, pool |-> s.pool]
Scheduled(d) == UNION {{Asked(a, s) : s \in ToSet(a.script)} : a \in ToSet(d.choreography.actors)}
Habits(d)    == UNION {{Asked(c, b) : b \in ToSet(c.behaviours)} : c \in ToSet(d.population.cohorts)}
Asks(d)      == Scheduled(d) \cup Habits(d)

\* A tick consists of such posts.
LEMMA TicksAsk ==
  ASSUME NEW name \in DOMAIN Documents, NEW n
  PROVE  Ticks(Documents[name], n) \subseteq Seq(Asks(Documents[name]))
<1> DEFINE d == Documents[name]
           actors == d.choreography.actors
           cohorts == d.population.cohorts
<1>1. /\ Array(actors) /\ \A a \in DOMAIN actors : Array(actors[a].script)
      /\ Array(cohorts) /\ \A c \in DOMAIN cohorts : Array(cohorts[c].behaviours)
  BY DocumentAssumption DEF ToSet
<1>2. ASSUME NEW a, NEW s, Asked(a, s) \in Asks(d)
      PROVE  Posting(d, a, s) \in Seq(Asks(d))
  <2>1. Posting(d, a, s) \in {<<>>, <<Asked(a, s)>>}
    BY DEF Posting, Asked
  <2>2. <<>> \in Seq(Asks(d)) /\ <<Asked(a, s)>> \in Seq(Asks(d))
    BY <1>2, EmptySeq
  <2> QED
    BY <2>1, <2>2
<1>3. ASSUME NEW a \in DOMAIN actors, NEW i \in DOMAIN actors[a].script
      PROVE  Asked(actors[a], actors[a].script[i]) \in Asks(d)
  BY DEF Asks, Scheduled, ToSet
<1>4. ASSUME NEW c \in DOMAIN cohorts, NEW b \in DOMAIN cohorts[c].behaviours
      PROVE  Asked(cohorts[c], cohorts[c].behaviours[b]) \in Asks(d)
  BY DEF Asks, Habits, ToSet
<1>5. Scripted(d, n) \in Seq(Asks(d))
  <2> DEFINE due(a) == [i \in DOMAIN actors[a].script |->
                          IF actors[a].script[i].at_step = n
                          THEN Posting(d, actors[a], actors[a].script[i]) ELSE <<>>]
  <2>1. ASSUME NEW a \in DOMAIN actors PROVE FlattenSeq(due(a)) \in Seq(Asks(d))
    <3> DEFINE script == actors[a].script
    <3>1. \A i \in DOMAIN script : due(a)[i] \in Seq(Asks(d))
      BY <1>2, <1>3, EmptySeq
    <3>2. DOMAIN script = 1 .. Len(script) /\ Len(script) \in Nat
      BY <1>1 DEF Array
    <3>3. due(a) \in [1 .. Len(script) -> Seq(Asks(d))]
      BY <3>1, <3>2
    <3> HIDE DEF due
    <3>4. due(a) \in Seq(Seq(Asks(d)))
      BY <3>2, <3>3, SeqDef
    <3> QED
      BY <3>4, FlattenTyped
  <2> DEFINE all == [a \in DOMAIN actors |-> FlattenSeq(due(a))]
  <2>2. Scripted(d, n) = FlattenSeq(all)
    BY DEF Scripted
  <2> HIDE DEF due
  <2>3. DOMAIN actors = 1 .. Len(actors) /\ Len(actors) \in Nat
    BY <1>1 DEF Array
  <2>4. all \in [1 .. Len(actors) -> Seq(Asks(d))]
    BY <2>1, <2>3
  <2> HIDE DEF all
  <2>5. all \in Seq(Seq(Asks(d)))
    BY <2>3, <2>4, SeqDef
  <2> QED
    BY <2>2, <2>5, FlattenTyped
<1>6. Ambient(d) \subseteq Seq(Asks(d))
  <2> DEFINE each(c) == [b \in DOMAIN cohorts[c].behaviours |->
                           Posting(d, cohorts[c], cohorts[c].behaviours[b])]
  <2>1. ASSUME NEW c \in DOMAIN cohorts PROVE FlattenSeq(each(c)) \in Seq(Asks(d))
    <3> DEFINE behaviours == cohorts[c].behaviours
    <3>1. \A b \in DOMAIN behaviours : each(c)[b] \in Seq(Asks(d))
      BY <1>2, <1>4
    <3>2. DOMAIN behaviours = 1 .. Len(behaviours) /\ Len(behaviours) \in Nat
      BY <1>1 DEF Array
    <3>3. each(c) \in [1 .. Len(behaviours) -> Seq(Asks(d))]
      BY <3>1, <3>2
    <3> HIDE DEF each
    <3>4. each(c) \in Seq(Seq(Asks(d)))
      BY <3>2, <3>3, SeqDef
    <3> QED
      BY <3>4, FlattenTyped
  <2> DEFINE list == [c \in DOMAIN cohorts |-> FlattenSeq(each(c))]
             all  == FlattenSeq(list)
             counts == [DOMAIN all -> 0 .. MaxAmbient]
             times(count) == [i \in DOMAIN all |-> [k \in 1 .. count[i] |-> all[i]]]
  <2>2. Ambient(d) = {FlattenSeq(times(count)) : count \in counts}
    BY DEF Ambient
  <2> HIDE DEF each
  <2>3. DOMAIN cohorts = 1 .. Len(cohorts) /\ Len(cohorts) \in Nat
    BY <1>1 DEF Array
  <2>4. list \in [1 .. Len(cohorts) -> Seq(Asks(d))]
    BY <2>1, <2>3
  <2> HIDE DEF list
  <2>5. list \in Seq(Seq(Asks(d)))
    BY <2>3, <2>4, SeqDef
  <2>6. all \in Seq(Asks(d))
    BY <2>5, FlattenTyped
  <2> HIDE DEF all
  <2>7. DOMAIN all = 1 .. Len(all) /\ Len(all) \in Nat /\ \A i \in DOMAIN all : all[i] \in Asks(d)
    BY <2>6
  <2>8. ASSUME NEW count \in counts PROVE FlattenSeq(times(count)) \in Seq(Asks(d))
    <3>1. ASSUME NEW i \in DOMAIN all PROVE [k \in 1 .. count[i] |-> all[i]] \in Seq(Asks(d))
      <4>1. count[i] \in Nat /\ all[i] \in Asks(d)
        BY <2>7, DriverAssumption
      <4>2. [k \in 1 .. count[i] |-> all[i]] \in [1 .. count[i] -> Asks(d)]
        BY <4>1
      <4> QED
        BY <4>1, <4>2, SeqDef
    <3>2. times(count) \in [1 .. Len(all) -> Seq(Asks(d))]
      BY <2>7, <3>1
    <3> HIDE DEF times
    <3>3. times(count) \in Seq(Seq(Asks(d)))
      BY <2>7, <3>2, SeqDef
    <3> QED
      BY <3>3, FlattenTyped
  <2> HIDE DEF times, counts
  <2> QED
    BY <2>2, <2>8
<1> HIDE DEF d
<1>7. ASSUME NEW t \in Ticks(d, n) PROVE t \in Seq(Asks(d))
  <2>1. PICK a \in Ambient(d) \cup {<<>>} : t = Scripted(d, n) \o a
    BY DEF Ticks
  <2>2. a \in Seq(Asks(d))
    BY <1>6, EmptySeq
  <2> QED
    BY <1>5, <2>1, <2>2, ConcatProperties
<1> QED
  BY <1>7 DEF d

\* The posts of a tame population delete nothing but what is their own, reassign no row,
\* and none is the agent's.
LEMMA TamePosts ==
  ASSUME NEW d, Tame(d), NEW post \in Asks(d)
  PROVE  /\ post.actor # "agent" /\ ~Reassigns(d, post.route)
         /\ Deletes(d, post.route) => post.action \in OwnActions
<1>1. CASE post \in Scheduled(d)
  <2>1. PICK a \in ToSet(d.choreography.actors) : \E s \in ToSet(a.script) : post = Asked(a, s)
    BY <1>1 DEF Scheduled
  <2>2. \A s \in ToSet(a.script) : s \in PostsOf(d)
    BY DEF PostsOf, ScriptSteps
  <2>3. a.id \in Ids(d.choreography, "actors")
    BY DEF Ids
  <2> QED
    BY <2>1, <2>2, <2>3 DEF Tame, Asked
<1>2. CASE post \in Habits(d)
  <2>1. PICK c \in ToSet(d.population.cohorts) : \E b \in ToSet(c.behaviours) : post = Asked(c, b)
    BY <1>2 DEF Habits
  <2>2. \A b \in ToSet(c.behaviours) : b \in PostsOf(d)
    BY DEF PostsOf, Behaviours
  <2>3. c.id \in Ids(d.population, "cohorts")
    BY DEF Ids
  <2> QED
    BY <2>1, <2>2, <2>3 DEF Tame, Asked
<1> QED
  BY <1>1, <1>2 DEF Asks

\* An edit that reassigns no row sets neither its id nor its writer.
LEMMA UpdatesName ==
  ASSUME NEW name \in DOMAIN Documents, Accepted(Documents[name]),
         NEW route \in ToSet(Documents[name].routes), Has(route, "mutation"), NEW body,
         ById(Documents[name], "mutations", route.mutation) \in ToSet(Documents[name].mutations),
         ById(Documents[name], "mutations", route.mutation).id = route.mutation,
         ById(Documents[name], "mutations", route.mutation).op \notin {"insert", "delete"},
         ~Reassigns(Documents[name], route.id)
  PROVE  LET d == Documents[name]
             m == ById(d, "mutations", route.mutation)
         IN  {"id", "writer"} \cap Given(ById(d, "forms", m.from_form), body) = {}
<1> DEFINE d    == Documents[name]
           m    == ById(d, "mutations", route.mutation)
           form == ById(d, "forms", m.from_form)
<1>1. LintSpec(d) = {} /\ Supported(d)
  BY DEF Accepted, Findings
<1>2. Array(d["forms"])
  BY DocumentAssumption DEF Kinds
<1>3. m \in ToSet(d.mutations) /\ m.id = route.mutation /\ m.op \notin {"insert", "delete"}
  OBVIOUS
<1>4. ~Reassigns(d, route.id) /\ route \in ToSet(d.routes) /\ Has(route, "mutation")
  OBVIOUS
<1> HIDE DEF d, m
<1>5. m.from_form \in Ids(d, "forms")
  BY <1>1, <1>3, RefersToItsOwn
<1>6. form \in ToSet(d["forms"]) /\ form.id = m.from_form
  BY <1>1, <1>2, <1>5, LookedUp DEF Kinds
<1>7. m.op = "update"
  BY <1>1, <1>3 DEF Supported, UnsupportedMutation
<1> HIDE DEF form
<1>8. \A x \in ToSet(form.fields) : x.name \notin {"id", "writer"}
  BY <1>3, <1>4, <1>6, <1>7 DEF Reassigns
<1>9. {"id", "writer"} \cap Given(form, body) = {}
  BY <1>8 DEF Given
<1> QED
  BY <1>9 DEF form, m, d

\* What the driver takes for an actor's rows are rows of that actor, each once; the
\* agent is no actor of its.
Owns(dr, table) ==
  \A a \in DOMAIN dr.owned :
     /\ a # "agent" /\ dr.owned[a] \in Seq(Nat) /\ IsInjective(dr.owned[a])
     /\ \A i \in ToSet(dr.owned[a]) : i \in DOMAIN table /\ table[i].writer = a

OwnInv ==
  Tame(D) => /\ todo \in Seq(Asks(D))
             /\ phase # "raised" => Owns(driver, rows)

\* A new driver has no rows of anyone's.
LEMMA NewDriverOwnsNothing == \A table : Owns(NewDriver, table)
<1>1. DOMAIN NewDriver.owned = {}
  BY DEF NewDriver
<1> QED
  BY <1>1 DEF Owns

\* What the driver has of one actor.
LEMMA OwnedByFacts ==
  ASSUME NEW dr, NEW table, Owns(dr, table), NEW w
  PROVE  /\ OwnedBy(dr, w) \in Seq(Nat) /\ IsInjective(OwnedBy(dr, w))
         /\ \A i \in ToSet(OwnedBy(dr, w)) : i \in DOMAIN table /\ table[i].writer = w
<1>1. CASE w \in DOMAIN dr.owned
  BY <1>1 DEF OwnedBy, Has, Owns
<1>2. CASE w \notin DOMAIN dr.owned
  <2>1. OwnedBy(dr, w) = <<>> /\ DOMAIN OwnedBy(dr, w) = {}
    BY <1>2 DEF OwnedBy, Has
  <2>2. OwnedBy(dr, w) \in Seq(Nat)
    BY <2>1, EmptySeq
  <2> QED
    BY <2>1, <2>2 DEF IsInjective, ToSet
<1> QED
  BY <1>1, <1>2

\* The driver may take these ids for an actor's rows if they are.
LEMMA SetOwns ==
  ASSUME NEW dr, IsDriver(dr), NEW table, Owns(dr, table), NEW w, w # "agent",
         NEW ids \in Seq(Nat), IsInjective(ids), NEW after,
         \A i \in ToSet(ids) : i \in DOMAIN after /\ after[i].writer = w,
         \A a \in DOMAIN dr.owned \ {w} : \A i \in ToSet(dr.owned[a]) :
            i \in DOMAIN after /\ after[i] = table[i]
  PROVE  Owns(SetOwned(dr, w, ids), after)
<1> DEFINE owned == [a \in DOMAIN dr.owned \cup {w} |-> IF a = w THEN ids ELSE dr.owned[a]]
<1>1. SetOwned(dr, w, ids).owned = owned
  BY DEF SetOwned, IsDriver
<1>2. ASSUME NEW a \in DOMAIN dr.owned \cup {w}
      PROVE  /\ a # "agent" /\ owned[a] \in Seq(Nat) /\ IsInjective(owned[a])
             /\ \A i \in ToSet(owned[a]) : i \in DOMAIN after /\ after[i].writer = a
  <2>1. CASE a = w
    BY <2>1
  <2>2. CASE a # w
    <3>1. owned[a] = dr.owned[a] /\ a \in DOMAIN dr.owned \ {w}
      BY <2>2
    <3> HIDE DEF owned
    <3> QED
      BY <3>1 DEF Owns
  <2> QED
    BY <2>1, <2>2
<1>3. DOMAIN owned = DOMAIN dr.owned \cup {w}
  OBVIOUS
<1> HIDE DEF owned
<1> QED
  BY <1>1, <1>2, <1>3 DEF Owns

\* A new id at the end of a sequence without repetitions.
LEMMA AppendFacts ==
  ASSUME NEW ids \in Seq(Nat), IsInjective(ids), NEW x \in Nat, x \notin ToSet(ids)
  PROVE  /\ Append(ids, x) \in Seq(Nat) /\ IsInjective(Append(ids, x))
         /\ ToSet(Append(ids, x)) = ToSet(ids) \cup {x}
<1> DEFINE longer == Append(ids, x)
<1>1. /\ longer \in Seq(Nat) /\ DOMAIN longer = DOMAIN ids \cup {Len(ids) + 1}
      /\ DOMAIN ids = 1 .. Len(ids) /\ Len(ids) \in Nat
      /\ \A i \in DOMAIN ids : longer[i] = ids[i] /\ i # Len(ids) + 1
      /\ longer[Len(ids) + 1] = x
  BY AppendProperties
<1> HIDE DEF longer
<1>2. ToSet(longer) = ToSet(ids) \cup {x}
  BY <1>1 DEF ToSet
<1>3. \A i \in DOMAIN ids : ids[i] # x
  BY DEF ToSet
<1>4. IsInjective(longer)
  BY <1>1, <1>3 DEF IsInjective
<1> QED
  BY <1>1, <1>2, <1>4 DEF longer

\* The agent's posts leave the rows of the others alone, whatever it makes of its own.
LEMMA AgentLeavesRows ==
  ASSUME NEW d, NEW dr, NEW table, IsTable(table), Owns(dr, table), NEW route, NEW args, NEW body,
         body.value.id \in Nat, body.value.thread \in Nat, \A c \in DOMAIN args : args[c] \in Nat
  PROVE  Owns(dr, Post(d, table, route, args, "agent", body).rows)
<1> DEFINE m      == ById(d, "mutations", route.mutation)
           answer == Post(d, table, route, args, "agent", body)
           hit    == Matching(table, m, args, "agent")
<1>1. \/ answer.rows = table
      \/ /\ DOMAIN answer.rows = DOMAIN table \cup {answer.id}
         /\ \A i \in DOMAIN table : answer.rows[i] = table[i]
      \/ /\ DOMAIN answer.rows = DOMAIN table \ hit
         /\ \A i \in DOMAIN answer.rows : answer.rows[i] = table[i]
      \/ \A i \in DOMAIN table \ hit : i \in DOMAIN answer.rows /\ answer.rows[i] = table[i]
  <2> DEFINE given == Given(ById(d, "forms", m.from_form), body)
  <2>1. RightAnswer(table, route, m, given, args, "agent", answer)
    BY PostOutcome
  <2> HIDE DEF answer, m, given
  <2> QED
    BY <2>1 DEF RightAnswer
<1>2. \A i \in hit : table[i].writer = "agent"
  BY DEF Matching
<1> HIDE DEF answer, hit, m
<1>3. ASSUME NEW i \in DOMAIN table, table[i].writer # "agent"
      PROVE  i \in DOMAIN answer.rows /\ answer.rows[i] = table[i]
  BY <1>1, <1>2, <1>3
<1>4. ASSUME NEW a \in DOMAIN dr.owned, NEW i \in ToSet(dr.owned[a])
      PROVE  i \in DOMAIN answer.rows /\ answer.rows[i].writer = a
  <2>1. i \in DOMAIN table /\ table[i].writer = a /\ a # "agent"
    BY DEF Owns
  <2> QED
    BY <1>3, <2>1
<1>5. Owns(dr, answer.rows)
  BY <1>4 DEF Owns
<1> QED
  BY <1>5 DEF answer

\* Nor does a post of a tame population leave the driver with rows that are not there:
\* what it deletes it forgets, and what it adds has a new id.
LEMMA SubmissionOwns ==
  ASSUME NEW name \in DOMAIN Documents, Accepted(Documents[name]), Tame(Documents[name]),
         NEW dr, IsDriver(dr), NEW table, IsTable(table), Owns(dr, table),
         NEW post \in Asks(Documents[name]),
         NEW s \in Submissions(Documents[name], dr, table, post), ~s.raised
  PROVE  Owns(s.driver, s.rows)
<1> DEFINE d     == Documents[name]
           route == ById(d, "routes", post.route)
           m     == ById(d, "mutations", route.mutation)
           w     == post.actor
           ids   == OwnedBy(dr, w)
<1>1. CASE s = [driver |-> dr, rows |-> table, raised |-> FALSE]
  BY <1>1
<1>2. CASE /\ post.route \in Ids(d, "routes")
           /\ \E t \in Targets(dr, route, post),
                 body \in UNION {Bodies(ById(d, "forms", post.form), f) : f \in BOOLEAN} :
                s = Submit(d, dr, table, post, route, t, body)
  <2>1. PICK t \in Targets(dr, route, post),
             body \in UNION {Bodies(ById(d, "forms", post.form), f) : f \in BOOLEAN} :
               s = Submit(d, dr, table, post, route, t, body)
    BY <1>2
  <2>2. /\ route \in ToSet(d.routes) /\ route.id = post.route
        /\ route.method = "POST" => /\ Has(route, "mutation")
                                    /\ m \in ToSet(d.mutations) /\ m.id = route.mutation
    BY <1>2, RoutesWrite
  <2>3. /\ w # "agent" /\ ~Reassigns(d, post.route)
        /\ Deletes(d, post.route) => post.action \in OwnActions
    BY TamePosts
  <2>4. m \in ToSet(d.mutations) /\ m.op = "delete" => Has(m.bind, "id")
    BY DEF Tame
  <2>5. /\ ids \in Seq(Nat) /\ IsInjective(ids)
        /\ \A i \in ToSet(ids) : i \in DOMAIN table /\ table[i].writer = w
    BY OwnedByFacts
  <2> DEFINE args   == [p \in ParamNames(route.path) |-> t]
             answer == Post(d, table, route, args, w, body)
             kept   == Remembers(dr, post, route, m, t, answer)
             given  == Given(ById(d, "forms", m.from_form), body)
             hit    == Matching(table, m, args, w)
  <2>6. t \in Nat
    <3>1. ToSet(ids) \subseteq Nat
      BY <2>5 DEF ToSet
    <3>2. \/ Targets(dr, route, post) = ToSet(ids)
          \/ Targets(dr, route, post) = {}
          \/ Targets(dr, route, post) = {0}
          \/ Targets(dr, route, post) = Threads
      <4> HIDE DEF route
      <4> QED
        BY DEF Targets
    <3>3. Threads \subseteq Nat /\ {0} \subseteq Nat
      BY DriverAssumption
    <3> HIDE DEF route, ids
    <3> QED
      BY <2>1, <3>1, <3>2, <3>3
  <2>7. /\ answer.id \in Nat /\ (Accepts(answer) => route.method = "POST")
        /\ \/ answer.id = 0 /\ answer.rows = table /\ ~Accepts(answer)
           \/ /\ Accepts(answer) /\ answer.id \in Nat \ {0} /\ answer.id \notin DOMAIN table
              /\ DOMAIN answer.rows = DOMAIN table \cup {answer.id}
              /\ answer.rows[answer.id].writer = w
              /\ \A i \in DOMAIN table : answer.rows[i] = table[i]
           \/ /\ Accepts(answer) /\ m.op = "delete" /\ answer.id = 0
              /\ DOMAIN answer.rows = DOMAIN table \ hit
              /\ \A i \in DOMAIN answer.rows : answer.rows[i] = table[i]
              /\ \A c \in DOMAIN m.bind : m.bind[c] \in DOMAIN args
           \/ /\ Accepts(answer) /\ m.op \notin {"insert", "delete"} /\ answer.id = 0
              /\ "id" \notin given => DOMAIN table \subseteq DOMAIN answer.rows
              /\ {"id", "writer"} \cap given = {} =>
                    \A i \in DOMAIN table : answer.rows[i].writer = table[i].writer
    <3>1. \A c \in DOMAIN args : args[c] \in Nat
      BY <2>6
    <3>2. body.value.id \in Nat /\ body.value.thread \in Nat
      BY BodyFacts
    <3>3. RightAnswer(table, route, m, given, args, w, answer)
      <4> HIDE DEF args, route, w
      <4> QED
        BY <3>1, <3>2, PostOutcome
    <3> HIDE DEF answer, args, m, w, given
    <3> QED
      BY <3>3 DEF RightAnswer
  <2>8. \/ s.driver = dr /\ s.rows = table
        \/ Accepts(answer) /\ s.driver = [kept EXCEPT !.performed = @ + 1] /\ s.rows = answer.rows
    <3>1. \/ s = [driver |-> dr, rows |-> table, raised |-> answer.status = "raised"]
          \/ s = [driver |-> dr, rows |-> answer.rows, raised |-> TRUE]
          \/ /\ Accepts(answer)
             /\ s = [driver |-> [kept EXCEPT !.performed = @ + 1], rows |-> answer.rows, raised |-> FALSE]
      BY <2>1 DEF Submit
    <3> HIDE DEF answer, kept
    <3> QED
      BY <3>1
  <2>9. kept = IF answer.id # 0 THEN SetOwned(dr, w, Append(ids, answer.id))
               ELSE IF post.action \in OwnActions /\ m.op = "delete" THEN SetOwned(dr, w, RemoveFirst(ids, t))
               ELSE dr
    BY DEF Remembers
  <2>10. ASSUME Accepts(answer), answer.id \in Nat \ {0}, answer.id \notin DOMAIN table,
                DOMAIN answer.rows = DOMAIN table \cup {answer.id},
                answer.rows[answer.id].writer = w,
                \A i \in DOMAIN table : answer.rows[i] = table[i]
         PROVE  Owns(kept, answer.rows)
    <3>1. kept = SetOwned(dr, w, Append(ids, answer.id))
      BY <2>9, <2>10
    <3>2. answer.id \notin ToSet(ids) /\ answer.id \in Nat
      BY <2>5, <2>10
    <3> HIDE DEF kept, answer, ids, w
    <3>3. /\ Append(ids, answer.id) \in Seq(Nat) /\ IsInjective(Append(ids, answer.id))
          /\ ToSet(Append(ids, answer.id)) = ToSet(ids) \cup {answer.id}
      BY <2>5, <3>2, AppendFacts
    <3>4. \A i \in ToSet(Append(ids, answer.id)) :
             i \in DOMAIN answer.rows /\ answer.rows[i].writer = w
      BY <2>5, <2>10, <3>3
    <3>5. \A a \in DOMAIN dr.owned \ {w} : \A i \in ToSet(dr.owned[a]) :
             i \in DOMAIN answer.rows /\ answer.rows[i] = table[i]
      BY <2>10 DEF Owns
    <3>6. w # "agent" /\ IsDriver(dr) /\ Owns(dr, table)
      BY <2>3
    <3>7. Owns(SetOwned(dr, w, Append(ids, answer.id)), answer.rows)
      <4> DEFINE more == Append(ids, answer.id)
                 rows2 == answer.rows
      <4>1. /\ more \in Seq(Nat) /\ IsInjective(more)
            /\ \A i \in ToSet(more) : i \in DOMAIN rows2 /\ rows2[i].writer = w
            /\ \A a \in DOMAIN dr.owned \ {w} : \A i \in ToSet(dr.owned[a]) :
                  i \in DOMAIN rows2 /\ rows2[i] = table[i]
        BY <3>3, <3>4, <3>5
      <4>2. Owns(SetOwned(dr, w, more), rows2)
        <5> HIDE DEF more, rows2
        <5> QED
          BY <3>6, <4>1, SetOwns
      <4> QED
        BY <4>2
    <3> QED
      BY <3>1, <3>7
  <2>11. ASSUME Accepts(answer), m.op = "delete", answer.id = 0,
                DOMAIN answer.rows = DOMAIN table \ hit,
                \A i \in DOMAIN answer.rows : answer.rows[i] = table[i],
                \A c \in DOMAIN m.bind : m.bind[c] \in DOMAIN args
         PROVE  Owns(kept, answer.rows)
    <3>1. Has(route, "mutation") /\ m \in ToSet(d.mutations) /\ m.id = route.mutation
      BY <2>2, <2>7, <2>11
    <3>2. Deletes(d, post.route)
      <4> HIDE DEF d, route, m
      <4> QED
        BY <2>2, <2>11, <3>1 DEF Deletes
    <3>3. post.action \in OwnActions
      BY <2>3, <3>2
    <3>4. t \in ToSet(ids)
      <4>1. Targets(dr, route, post) = ToSet(ids)
        BY <3>1, <3>3 DEF Targets
      <4> QED
        BY <2>1, <4>1
    <3>5. \A i \in hit : i = t /\ table[i].writer = w
      <4>1. "id" \in DOMAIN m.bind
        BY <2>4, <2>11, <3>1 DEF Has
      <4>2. m.bind["id"] \in DOMAIN args
        BY <2>11, <4>1
      <4>3. args[m.bind["id"]] = t
        BY <4>2
      <4>4. ASSUME NEW i \in hit PROVE i = t /\ table[i].writer = w
        <5>1. table[i].writer = w /\ \A c \in DOMAIN m.bind : Cell(table, i, c) = args[m.bind[c]]
          BY DEF Matching
        <5>2. Cell(table, i, "id") = args[m.bind["id"]]
          BY <4>1, <5>1
        <5>3. Cell(table, i, "id") = i
          BY DEF Cell
        <5> QED
          BY <4>3, <5>1, <5>2, <5>3
      <4> QED
        BY <4>4
    <3>6. kept = SetOwned(dr, w, RemoveFirst(ids, t))
      BY <2>9, <2>11, <3>3
    <3> HIDE DEF kept, answer, ids, w, hit
    <3>7. /\ RemoveFirst(ids, t) \in Seq(Nat) /\ IsInjective(RemoveFirst(ids, t))
          /\ ToSet(RemoveFirst(ids, t)) \subseteq ToSet(ids) /\ t \notin ToSet(RemoveFirst(ids, t))
      BY <2>5, RemoveFirstFacts
    <3>8. \A i \in ToSet(RemoveFirst(ids, t)) :
             i \in DOMAIN answer.rows /\ answer.rows[i].writer = w
      BY <2>5, <2>11, <3>5, <3>7
    <3>9. \A a \in DOMAIN dr.owned \ {w} : \A i \in ToSet(dr.owned[a]) :
             i \in DOMAIN answer.rows /\ answer.rows[i] = table[i]
      BY <2>11, <3>5 DEF Owns
    <3> QED
      BY <2>3, <3>6, <3>7, <3>8, <3>9, SetOwns
  <2>12. ASSUME Accepts(answer) PROVE Owns(kept, answer.rows)
    <3>1. CASE /\ m.op \notin {"insert", "delete"} /\ answer.id = 0
               /\ "id" \notin given => DOMAIN table \subseteq DOMAIN answer.rows
               /\ {"id", "writer"} \cap given = {} =>
                     \A i \in DOMAIN table : answer.rows[i].writer = table[i].writer
      <4>1. kept = dr
        BY <2>9, <3>1
      <4>2. {"id", "writer"} \cap given = {}
        BY <2>2, <2>3, <2>7, <2>12, <3>1, UpdatesName
      <4> HIDE DEF kept, answer, given
      <4> QED
        BY <3>1, <4>1, <4>2 DEF Owns
    <3> QED
      BY <2>7, <2>10, <2>11, <2>12, <3>1
  <2>13. [kept EXCEPT !.performed = @ + 1].owned = kept.owned
    <3>1. DOMAIN kept = DOMAIN dr
      BY <2>9 DEF SetOwned
    <3>2. "owned" \in DOMAIN kept
      BY <3>1 DEF IsDriver
    <3> HIDE DEF kept
    <3> QED
      BY <3>2
  <2>14. CASE s.driver = dr /\ s.rows = table
    BY <2>14
  <2>15. CASE Accepts(answer) /\ s.driver = [kept EXCEPT !.performed = @ + 1] /\ s.rows = answer.rows
    <3>1. Owns(kept, answer.rows) /\ s.driver.owned = kept.owned /\ s.rows = answer.rows
      BY <2>12, <2>13, <2>15
    <3> HIDE DEF kept, answer
    <3> QED
      BY <3>1 DEF Owns
  <2> QED
    BY <2>8, <2>14, <2>15
<1> QED
  BY <1>1, <1>2 DEF Submissions

\* No step leaves the driver with a row that is not there, or is another's.
LEMMA OwnNext == Typed /\ OwnInv /\ [Next]_vars => OwnInv'
<1> SUFFICES ASSUME Typed, OwnInv, [Next]_vars, Tame(D)' PROVE (todo \in Seq(Asks(D)))' /\ (phase # "raised" => Owns(driver, rows))'
  BY DEF OwnInv
<1>1. UNCHANGED <<doc, D>> /\ D = Documents[doc] /\ doc \in DOMAIN Documents
  <2>1. UNCHANGED doc
    BY DEF Next, vars, Refuse, GoLive, Open, Go, Stay, Search, Close, DriverPosts, Type, SubmitForm,
           RegistryMoves, ThenTick
  <2> QED
    BY <2>1 DEF D, Typed, TypeOK
<1>2. /\ Tame(D) /\ todo \in Seq(Asks(D)) /\ (phase # "raised" => Owns(driver, rows))
      /\ IsTable(rows) /\ IsDriver(driver) /\ (phase = "open" => Accepted(D))
  <2>1. Tame(D)
    BY <1>1
  <2> QED
    BY <2>1 DEF OwnInv, Typed
<1> SUFFICES todo' \in Seq(Asks(D)) /\ (phase' # "raised" => Owns(driver', rows'))
  BY <1>1
<1> HIDE DEF D
<1>3. ASSUME Acting, ThenTick PROVE todo' \in Seq(Asks(D)) /\ phase = "open"
  <2>1. todo' \in Ticks(D, step) \cup {<<>>}
    BY <1>3 DEF ThenTick
  <2>2. Ticks(D, step) \subseteq Seq(Asks(D))
    BY <1>1, TicksAsk
  <2> QED
    BY <1>3, <2>1, <2>2, EmptySeq DEF Acting
<1>4. CASE Refuse \/ GoLive \/ Close
  BY <1>2, <1>4 DEF Refuse, GoLive, Close
<1>5. CASE Open
  BY <1>2, <1>5, NewDriverOwnsNothing DEF Open
<1>6. ASSUME NEW h \in Hosts, NEW place \in Places, Go(h, place)
      PROVE  todo' \in Seq(Asks(D)) /\ (phase' # "raised" => Owns(driver', rows'))
  <2>1. Acting /\ ThenTick
    BY <1>6 DEF Go
  <2>2. UNCHANGED <<rows, driver>> \/ (rows' = Seed /\ driver' = NewDriver)
    BY <1>6 DEF Go, Materialise
  <2> QED
    BY <1>2, <1>3, <2>1, <2>2, NewDriverOwnsNothing
<1>7. CASE Stay \/ Search
  <2>1. Acting /\ ThenTick /\ UNCHANGED <<rows, driver>>
    BY <1>7 DEF Stay, Search
  <2> QED
    BY <1>2, <1>3, <2>1
<1>8. ASSUME NEW form \in forms, Type(form)
      PROVE  todo' \in Seq(Asks(D)) /\ (phase' # "raised" => Owns(driver', rows'))
  <2>1. Acting /\ ThenTick /\ UNCHANGED <<rows, driver>>
    BY <1>8 DEF Type
  <2> QED
    BY <1>2, <1>3, <2>1
<1>9. ASSUME NEW form \in forms, SubmitForm(form)
      PROVE  todo' \in Seq(Asks(D)) /\ (phase' # "raised" => Owns(driver', rows'))
  <2> DEFINE route  == ById(D, "routes", form[1])
             shown  == ById(D, "forms", ById(D, "mutations", route.mutation).from_form)
             args   == [p \in ParamNames(route.path) |-> form[2]]
  <2>1. PICK body \in Bodies(shown, form[1] \in typed) :
          LET answer == Post(D, rows, route, args, "agent", body) IN
          /\ Acting /\ rows' = answer.rows /\ UNCHANGED driver
          /\ (answer.status = "raised" /\ phase' = "raised" /\ UNCHANGED todo) \/ ThenTick
    BY <1>9 DEF SubmitForm
  <2> DEFINE answer == Post(D, rows, route, args, "agent", body)
  <2>2. /\ Acting /\ rows' = answer.rows /\ UNCHANGED driver
        /\ (answer.status = "raised" /\ phase' = "raised" /\ UNCHANGED todo) \/ ThenTick
    BY <2>1
  <2>3. body.value.id \in Nat /\ body.value.thread \in Nat /\ \A c \in DOMAIN args : args[c] \in Nat
    BY BodyFacts DEF Typed, TypeOK
  <2> HIDE DEF route, args
  <2>4. phase = "open" => Owns(driver, answer.rows)
    BY <1>2, <2>3, AgentLeavesRows
  <2> HIDE DEF answer
  <2>5. phase = "open"
    BY <2>2 DEF Acting
  <2> QED
    BY <1>2, <1>3, <2>4, <2>5, <2>2
<1>10. CASE DriverPosts
  <2>1. PICK s \in Submissions(D, driver, rows, Head(todo)) :
          driver' = s.driver /\ rows' = s.rows /\ phase' = IF s.raised THEN "raised" ELSE "open"
    BY <1>10 DEF DriverPosts
  <2>2. phase = "open" /\ todo # <<>> /\ todo' = Tail(todo)
    BY <1>10 DEF DriverPosts
  <2>3. Head(todo) \in Asks(D) /\ todo' \in Seq(Asks(D))
    BY <1>2, <2>2, HeadTailProperties
  <2>4. ~s.raised => Owns(s.driver, s.rows)
    BY <1>1, <1>2, <2>2, <2>3, SubmissionOwns
  <2> QED
    BY <2>1, <2>3, <2>4
<1>11. ASSUME NEW h \in Hosts, NEW site \in {Home, OtherSite, NoSite}, RegistryMoves(h, site)
       PROVE  todo' \in Seq(Asks(D)) /\ (phase' # "raised" => Owns(driver', rows'))
  BY <1>2, <1>11 DEF RegistryMoves
<1>12. CASE UNCHANGED vars
  BY <1>2, <1>12 DEF vars
<1> QED
  BY <1>4, <1>5, <1>6, <1>7, <1>8, <1>9, <1>10, <1>11, <1>12 DEF Next

\* What the driver believes an actor wrote is there and is that actor's, in every
\* episode of a site whose population deletes by id and only its own, and edits the id
\* and the writer of no row; whatever columns the agent's edit forms set.
THEOREM DriverKnowsItsRows == Spec => []OwnedRowsExist
<1>1. Init => OwnInv
  <2> SUFFICES ASSUME Init PROVE OwnInv
    OBVIOUS
  <2>1. todo \in Seq(Asks(D)) /\ Owns(driver, rows)
    BY EmptySeq, NewDriverOwnsNothing DEF Init
  <2> QED
    BY <2>1 DEF OwnInv
<1>2. Typed /\ OwnInv => OwnedRowsExist
  BY DEF OwnInv, OwnedRowsExist, Owns
<1> QED
  BY <1>1, <1>2, TypeInit, TypeNext, OwnNext, PTL DEF Spec
=============================================================================
