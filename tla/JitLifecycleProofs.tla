------------------------ MODULE JitLifecycleProofs ------------------------
(***************************************************************************)
(* The life of Datatype objects, for any number of types and compilations: *)
(* no call uses anything deleted, ownership stays a forest, DDT_Free takes *)
(* away all that the application's calls built, and functions and the      *)
(* arrays their code reads are accounted for.                              *)
(***************************************************************************)
EXTENDS JitLifecycle, FiniteSetTheorems, TLAPS

-----------------------------------------------------------------------------
(* The recursive tables satisfy their defining equations.                  *)

\* The rank of a number is itself.
Itself(n) == n

\* The shapes an object can have: how many basetypes its constructor got.
Shaped(o) ==
    CASE o.kind = "primitive" -> o.basetypes = <<>>
      [] o.kind = "struct"    -> Len(o.basetypes) = 4
      [] OTHER                -> Len(o.basetypes) = 1

\* The objects whose trees are whole and at most n levels deep.
NestedOf(nested, n) ==
    [h \in Heaps |->
        {a \in Live(h) : /\ n > 0
                         /\ Shaped(h[a])
                         /\ \A i \in DOMAIN h[a].basetypes :
                               h[a].basetypes[i] \in nested[n - 1][h]}]

Nested[n \in Nat] == NestedOf(Nested, n)

CloneRec    == INSTANCE RankRecursion WITH Domain <- Nat, Rank <- Itself, Def <- CloneOf
DestroyRec  == INSTANCE RankRecursion WITH Domain <- Nat, Rank <- Itself, Def <- DeleteOf
CompressRec == INSTANCE RankRecursion WITH Domain <- Nat, Rank <- Itself, Def <- CompressOf
GlobalRec   == INSTANCE RankRecursion WITH Domain <- Nat, Rank <- Itself, Def <- GlobalOf
ReadsRec    == INSTANCE RankRecursion WITH Domain <- Nat, Rank <- Itself, Def <- ReadsOf
ValueRec    == INSTANCE RankRecursion WITH Domain <- Nat, Rank <- Itself, Def <- ValueOf
NestedRec   == INSTANCE RankRecursion WITH Domain <- Nat, Rank <- Itself, Def <- NestedOf

LEMMA CloneUnfold == Clone = [n \in Nat |-> CloneOf(Clone, n)]
<1>1. CloneRec!Ranked
  BY DEF CloneRec!Ranked, Itself
<1>2. CloneRec!Grounded
  <2> SUFFICES ASSUME NEW f, NEW g, NEW n \in Nat, \A k \in Nat : k < n => f[k] = g[k]
               PROVE  CloneOf(f, n) = CloneOf(g, n)
    BY DEF CloneRec!Grounded, Itself
  <2>1. CASE n = 0
    BY <2>1 DEF CloneOf
  <2>2. CASE n # 0
    <3>1. f[n - 1] = g[n - 1]
      BY <2>2
    <3> QED
      BY <3>1 DEF CloneOf
  <2> QED
    BY <2>1, <2>2
<1>3. \E f : f = [n \in Nat |-> CloneOf(f, n)]
  BY <1>1, <1>2, CloneRec!RecursionExists
<1> QED
  BY <1>3 DEF Clone

LEMMA DestroyUnfold == Destroy = [n \in Nat |-> DeleteOf(Destroy, n)]
<1>1. DestroyRec!Ranked
  BY DEF DestroyRec!Ranked, Itself
<1>2. DestroyRec!Grounded
  <2> SUFFICES ASSUME NEW f, NEW g, NEW n \in Nat, \A k \in Nat : k < n => f[k] = g[k]
               PROVE  DeleteOf(f, n) = DeleteOf(g, n)
    BY DEF DestroyRec!Grounded, Itself
  <2>1. CASE n = 0
    BY <2>1 DEF DeleteOf
  <2>2. CASE n # 0
    <3>1. f[n - 1] = g[n - 1]
      BY <2>2
    <3> QED
      BY <3>1 DEF DeleteOf
  <2> QED
    BY <2>1, <2>2
<1>3. \E f : f = [n \in Nat |-> DeleteOf(f, n)]
  BY <1>1, <1>2, DestroyRec!RecursionExists
<1> QED
  BY <1>3 DEF Destroy

LEMMA CompressUnfold == Compress = [n \in Nat |-> CompressOf(Compress, n)]
<1>1. CompressRec!Ranked
  BY DEF CompressRec!Ranked, Itself
<1>2. CompressRec!Grounded
  <2> SUFFICES ASSUME NEW f, NEW g, NEW n \in Nat, \A k \in Nat : k < n => f[k] = g[k]
               PROVE  CompressOf(f, n) = CompressOf(g, n)
    BY DEF CompressRec!Grounded, Itself
  <2>1. CASE n = 0
    BY <2>1 DEF CompressOf
  <2>2. CASE n # 0
    <3>1. f[n - 1] = g[n - 1]
      BY <2>2
    <3> QED
      BY <3>1 DEF CompressOf
  <2> QED
    BY <2>1, <2>2
<1>3. \E f : f = [n \in Nat |-> CompressOf(f, n)]
  BY <1>1, <1>2, CompressRec!RecursionExists
<1> QED
  BY <1>3 DEF Compress

LEMMA GlobalCodegenUnfold == GlobalCodegen = [n \in Nat |-> GlobalOf(GlobalCodegen, n)]
<1>1. GlobalRec!Ranked
  BY DEF GlobalRec!Ranked, Itself
<1>2. GlobalRec!Grounded
  <2> SUFFICES ASSUME NEW f, NEW g, NEW n \in Nat, \A k \in Nat : k < n => f[k] = g[k]
               PROVE  GlobalOf(f, n) = GlobalOf(g, n)
    BY DEF GlobalRec!Grounded, Itself
  <2>1. CASE n = 0
    BY <2>1 DEF GlobalOf
  <2>2. CASE n # 0
    <3>1. f[n - 1] = g[n - 1]
      BY <2>2
    <3> QED
      BY <3>1 DEF GlobalOf
  <2> QED
    BY <2>1, <2>2
<1>3. \E f : f = [n \in Nat |-> GlobalOf(f, n)]
  BY <1>1, <1>2, GlobalRec!RecursionExists
<1> QED
  BY <1>3 DEF GlobalCodegen

LEMMA ReadsUnfold == Reads = [n \in Nat |-> ReadsOf(Reads, n)]
<1>1. ReadsRec!Ranked
  BY DEF ReadsRec!Ranked, Itself
<1>2. ReadsRec!Grounded
  <2> SUFFICES ASSUME NEW f, NEW g, NEW n \in Nat, \A k \in Nat : k < n => f[k] = g[k]
               PROVE  ReadsOf(f, n) = ReadsOf(g, n)
    BY DEF ReadsRec!Grounded, Itself
  <2>1. CASE n = 0
    BY <2>1 DEF ReadsOf
  <2>2. CASE n # 0
    <3>1. f[n - 1] = g[n - 1]
      BY <2>2
    <3> QED
      BY <3>1 DEF ReadsOf
  <2> QED
    BY <2>1, <2>2
<1>3. \E f : f = [n \in Nat |-> ReadsOf(f, n)]
  BY <1>1, <1>2, ReadsRec!RecursionExists
<1> QED
  BY <1>3 DEF Reads

LEMMA ValueUnfold == Value = [n \in Nat |-> ValueOf(Value, n)]
<1>1. ValueRec!Ranked
  BY DEF ValueRec!Ranked, Itself
<1>2. ValueRec!Grounded
  <2> SUFFICES ASSUME NEW f, NEW g, NEW n \in Nat, \A k \in Nat : k < n => f[k] = g[k]
               PROVE  ValueOf(f, n) = ValueOf(g, n)
    BY DEF ValueRec!Grounded, Itself
  <2>1. CASE n = 0
    BY <2>1 DEF ValueOf
  <2>2. CASE n # 0
    <3>1. f[n - 1] = g[n - 1]
      BY <2>2
    <3> QED
      BY <3>1 DEF ValueOf
  <2> QED
    BY <2>1, <2>2
<1>3. \E f : f = [n \in Nat |-> ValueOf(f, n)]
  BY <1>1, <1>2, ValueRec!RecursionExists
<1> QED
  BY <1>3 DEF Value

LEMMA NestedUnfold == Nested = [n \in Nat |-> NestedOf(Nested, n)]
<1>1. NestedRec!Ranked
  BY DEF NestedRec!Ranked, Itself
<1>2. NestedRec!Grounded
  <2> SUFFICES ASSUME NEW f, NEW g, NEW n \in Nat, \A k \in Nat : k < n => f[k] = g[k]
               PROVE  NestedOf(f, n) = NestedOf(g, n)
    BY DEF NestedRec!Grounded, Itself
  <2>1. CASE n = 0
    BY <2>1 DEF NestedOf
  <2>2. CASE n # 0
    <3>1. f[n - 1] = g[n - 1]
      BY <2>2
    <3> QED
      BY <3>1 DEF NestedOf
  <2> QED
    BY <2>1, <2>2
<1>3. \E f : f = [n \in Nat |-> NestedOf(f, n)]
  BY <1>1, <1>2, NestedRec!RecursionExists
<1> QED
  BY <1>3 DEF Nested

-----------------------------------------------------------------------------
(* Induction, and calls one after the other.                               *)

\* A set of numbers that holds 0 and with each number the next holds all.
LEMMA NatInduct ==
    ASSUME NEW S, 0 \in S, \A n \in Nat : n \in S => n + 1 \in S
    PROVE  Nat \subseteq S
  BY NestedRec!Induction

\* after records the memories between the calls of fs.
IsRun(after, fs, m, n) ==
    after = [i \in 0 .. n |-> IF i = 0 THEN m ELSE fs[i][after[i - 1]]]

LEMMA RunExists ==
    ASSUME NEW fs, NEW m, NEW n \in Nat
    PROVE  \E after : IsRun(after, fs, m, n)
<1> DEFINE S == {k \in Nat : \E after : IsRun(after, fs, m, k)}
<1>1. 0 \in S
  <2> DEFINE g == [i \in 0 .. 0 |-> m]
  <2>1. g = [i \in 0 .. 0 |-> IF i = 0 THEN m ELSE fs[i][g[i - 1]]]
    OBVIOUS
  <2> QED
    BY <2>1 DEF IsRun
<1>2. ASSUME NEW k \in Nat, k \in S
      PROVE  k + 1 \in S
  <2>1. PICK g : IsRun(g, fs, m, k)
    BY <1>2
  <2> DEFINE h == [i \in 0 .. k + 1 |-> IF i = k + 1 THEN fs[i][g[k]] ELSE g[i]]
  <2>2. ASSUME NEW i \in 0 .. k + 1
        PROVE  h[i] = IF i = 0 THEN m ELSE fs[i][h[i - 1]]
    <3>1. CASE i = k + 1
      BY <3>1
    <3>2. CASE i # k + 1
      <4>1. i \in 0 .. k /\ (i # 0 => i - 1 \in 0 .. k)
        BY <3>2
      <4>2. g[i] = IF i = 0 THEN m ELSE fs[i][g[i - 1]]
        BY <2>1, <4>1 DEF IsRun
      <4>3. h[i] = g[i] /\ (i # 0 => h[i - 1] = g[i - 1])
        BY <4>1, <3>2
      <4> QED
        BY <4>2, <4>3
    <3> QED
      BY <3>1, <3>2
  <2>3. h = [i \in 0 .. k + 1 |-> IF i = 0 THEN m ELSE fs[i][h[i - 1]]]
    <3>1. h = [i \in 0 .. k + 1 |-> h[i]]
      OBVIOUS
    <3> HIDE DEF h
    <3> QED
      BY <2>2, <3>1
  <2>4. \E after : IsRun(after, fs, m, k + 1)
    <3> HIDE DEF h
    <3> QED
      BY <2>3 DEF IsRun
  <2> QED
    BY <2>4
<1>3. Nat \subseteq S
  <2> HIDE DEF S
  <2> QED
    BY <1>1, <1>2, NatInduct
<1> QED
  BY <1>3

\* J[i] is what holds after i calls.
LEMMA ThroughInduction ==
    ASSUME NEW fs, Len(fs) \in Nat, NEW m, NEW J, m \in J[0],
           \A i \in 1 .. Len(fs) : \A x \in J[i - 1] : fs[i][x] \in J[i]
    PROVE  Through(fs, m) \in J[Len(fs)]
<1> DEFINE n == Len(fs)
           after == CHOOSE f : IsRun(f, fs, m, n)
<1>1. IsRun(after, fs, m, n)
  BY RunExists
<1>2. Through(fs, m) = after[n]
  BY Zenon DEF Through, IsRun
<1> DEFINE S == {i \in Nat : i <= n => after[i] \in J[i]}
<1> HIDE DEF after
<1>3. 0 \in S
  BY <1>1 DEF IsRun
<1>4. ASSUME NEW i \in Nat, i \in S
      PROVE  i + 1 \in S
  <2> SUFFICES ASSUME i + 1 <= n
               PROVE  after[i + 1] \in J[i + 1]
    OBVIOUS
  <2>1. after[i] \in J[i]
    BY <1>4
  <2>2. i + 1 \in 0 .. n /\ i + 1 # 0 /\ (i + 1) - 1 = i /\ i + 1 \in 1 .. Len(fs)
    OBVIOUS
  <2>3. after[i + 1] = fs[i + 1][after[i]]
    BY <1>1, <2>2 DEF IsRun
  <2> QED
    BY <2>1, <2>2, <2>3
<1>5. Nat \subseteq S
  <2> HIDE DEF S
  <2> QED
    BY <1>3, <1>4, NatInduct
<1> QED
  BY <1>2, <1>5

-----------------------------------------------------------------------------
(* Addresses, names and objects.                                           *)

LEMMA HeapFacts ==
    ASSUME NEW h \in Heaps
    PROVE  /\ DOMAIN h = 1 .. Len(h) /\ Len(h) \in Nat
           /\ \A a \in DOMAIN h : h[a] \in Objects
           /\ Live(h) \subseteq DOMAIN h
           /\ Live(h) \subseteq Nat \ {0}
           /\ IsFiniteSet(Live(h))
           /\ Cardinality(Live(h)) <= Len(h)
<1>1. DOMAIN h = 1 .. Len(h) /\ Len(h) \in Nat /\ \A a \in DOMAIN h : h[a] \in Objects
  BY DEF Heaps
<1>2. Live(h) \in SUBSET (1 .. Len(h))
  BY <1>1 DEF Live
<1>3. IsFiniteSet(1 .. Len(h)) /\ Cardinality(1 .. Len(h)) = Len(h)
  <2>1. Cardinality(1 .. Len(h)) = IF 1 > Len(h) THEN 0 ELSE Len(h) - 1 + 1
    BY <1>1, FS_Interval
  <2> QED
    BY <1>1, <2>1, FS_Interval
<1>4. IsFiniteSet(Live(h)) /\ Cardinality(Live(h)) <= Len(h)
  BY <1>2, <1>3, FS_Subset
<1> QED
  BY <1>1, <1>2, <1>4

\* There is always an address or a name that is not in use.
LEMMA UnusedFresh ==
    ASSUME NEW S, IsFiniteSet(S)
    PROVE  /\ Unused(S) \in 1 .. Cardinality(S) + 1
           /\ Unused(S) \notin S
           /\ Cardinality(S) \in Nat
<1> DEFINE c == Cardinality(S)
           I == 1 .. c + 1
<1>1. c \in Nat
  BY FS_CardinalityType
<1>2. IsFiniteSet(I) /\ Cardinality(I) = c + 1
  <2>1. Cardinality(I) = IF 1 > c + 1 THEN 0 ELSE (c + 1) - 1 + 1
    BY <1>1, FS_Interval
  <2> QED
    BY <1>1, <2>1, FS_Interval
<1>3. ~ (I \subseteq S)
  <2> SUFFICES ASSUME I \in SUBSET S PROVE FALSE
    OBVIOUS
  <2>1. Cardinality(I) <= c
    BY FS_Subset
  <2> QED
    BY <1>1, <1>2, <2>1
<1>4. \E n \in I : n \notin S
  BY <1>3
<1>5. Unused(S) \in I /\ Unused(S) \notin S
  BY <1>4 DEF Unused
<1> QED
  BY <1>1, <1>5

LEMMA AddressFresh ==
    ASSUME NEW h \in Heaps
    PROVE  Unused(Live(h)) \in 1 .. Len(h) + 1 /\ Unused(Live(h)) \notin Live(h)
  BY HeapFacts, UnusedFresh

\* A new object takes its place and no other object is touched.
LEMMA PutFacts ==
    ASSUME NEW h \in Heaps, NEW a \in 1 .. Len(h) + 1, a \notin Live(h),
           NEW o \in Objects, o.kind # "deleted"
    PROVE  LET g == Put(h, a, o)
           IN  /\ g \in Heaps
               /\ Live(g) = Live(h) \cup {a}
               /\ g[a] = o
               /\ \A x \in Live(h) : g[x] = h[x]
<1>1. DOMAIN h = 1 .. Len(h) /\ Len(h) \in Nat /\ h \in Seq(Objects)
  BY HeapFacts DEF Heaps
<1>2. CASE a \in DOMAIN h
  <2> DEFINE g == [h EXCEPT ![a] = o]
  <2>1. Put(h, a, o) = g
    BY <1>2 DEF Put
  <2>2. g \in Seq(Objects) /\ DOMAIN g = DOMAIN h
    BY <1>1, <1>2
  <2>3. g[a] = o /\ \A x \in DOMAIN h : x # a => g[x] = h[x]
    BY <1>2
  <2> HIDE DEF g
  <2>4. Live(g) = Live(h) \cup {a}
    BY <1>2, <2>2, <2>3 DEF Live
  <2>5. \A x \in Live(h) : x \in DOMAIN h /\ x # a
    BY DEF Live
  <2> QED
    BY <2>1, <2>2, <2>3, <2>4, <2>5 DEF Heaps
<1>3. CASE a \notin DOMAIN h
  <2> DEFINE g == Append(h, o)
  <2>1. Put(h, a, o) = g
    BY <1>3 DEF Put
  <2>2. a = Len(h) + 1
    BY <1>1, <1>3
  <2>3. g \in Seq(Objects) /\ DOMAIN g = 1 .. Len(h) + 1
    BY <1>1
  <2>4. g[a] = o /\ \A x \in DOMAIN h : g[x] = h[x]
    BY <1>1, <2>2
  <2> HIDE DEF g
  <2>5. Live(g) = Live(h) \cup {a}
    BY <1>1, <2>2, <2>3, <2>4 DEF Live
  <2>6. \A x \in Live(h) : x \in DOMAIN h
    BY DEF Live
  <2> QED
    BY <2>1, <2>3, <2>4, <2>5, <2>6 DEF Heaps
<1> QED
  BY <1>2, <1>3

\* One object changes, and no other object is touched.
LEMMA ChangeFacts ==
    ASSUME NEW h \in Heaps, NEW a \in DOMAIN h, NEW o \in Objects
    PROVE  LET g == [h EXCEPT ![a] = o]
           IN  /\ g \in Heaps
               /\ DOMAIN g = DOMAIN h
               /\ Live(g) = IF o.kind = "deleted" THEN Live(h) \ {a} ELSE Live(h) \cup {a}
               /\ g[a] = o
               /\ \A x \in DOMAIN h : x # a => g[x] = h[x]
<1> DEFINE g == [h EXCEPT ![a] = o]
<1>1. DOMAIN h = 1 .. Len(h) /\ Len(h) \in Nat /\ h \in Seq(Objects)
  BY HeapFacts DEF Heaps
<1>2. g \in Seq(Objects) /\ DOMAIN g = DOMAIN h
  BY <1>1
<1>3. g[a] = o /\ \A x \in DOMAIN h : x # a => g[x] = h[x]
  OBVIOUS
<1> HIDE DEF g
<1>4. Live(g) = IF o.kind = "deleted" THEN Live(h) \ {a} ELSE Live(h) \cup {a}
  BY <1>2, <1>3 DEF Live
<1> QED
  BY <1>2, <1>3, <1>4 DEF Heaps, g

\* What a constructor starts from.
LEMMA ObjectTyped ==
    ASSUME NEW kind \in AllKinds \cup {"primitive", "deleted"}, NEW tight \in BOOLEAN,
           NEW by \in Makers
    PROVE  /\ Object(kind, tight, by) \in Objects
           /\ Object(kind, tight, by).kind = kind
           /\ Object(kind, tight, by).tight = tight
           /\ Object(kind, tight, by).by = by
           /\ Object(kind, tight, by).basetypes = <<>>
           /\ Object(kind, tight, by).pack = NULL
           /\ Object(kind, tight, by).unpack = NULL
  BY DEF Object, Objects, NULL

-----------------------------------------------------------------------------
(* Whole trees.                                                            *)

LEMMA NestedAt ==
    ASSUME NEW n \in Nat, NEW h \in Heaps
    PROVE  /\ Nested[n][h] \subseteq Live(h)
           /\ \A a \in Nested[n][h] :
                 /\ n > 0
                 /\ Shaped(h[a])
                 /\ \A i \in DOMAIN h[a].basetypes :
                       h[a].basetypes[i] \in Nested[n - 1][h]
<1>1. Nested[n][h] = {a \in Live(h) : /\ n > 0
                                      /\ Shaped(h[a])
                                      /\ \A i \in DOMAIN h[a].basetypes :
                                            h[a].basetypes[i] \in Nested[n - 1][h]}
  <2>1. Nested[n] = NestedOf(Nested, n)
    BY NestedUnfold
  <2> QED
    BY <2>1 DEF NestedOf
<1> QED
  BY <1>1

LEMMA NestedNext ==
    ASSUME NEW n \in Nat, NEW h \in Heaps, NEW a \in Live(h), Shaped(h[a]),
           \A i \in DOMAIN h[a].basetypes : h[a].basetypes[i] \in Nested[n][h]
    PROVE  a \in Nested[n + 1][h]
<1>1. Nested[n + 1][h] = {x \in Live(h) : /\ n + 1 > 0
                                          /\ Shaped(h[x])
                                          /\ \A i \in DOMAIN h[x].basetypes :
                                                h[x].basetypes[i] \in Nested[(n + 1) - 1][h]}
  <2>1. Nested[n + 1] = NestedOf(Nested, n + 1)
    BY NestedUnfold
  <2> QED
    BY <2>1 DEF NestedOf
<1>2. (n + 1) - 1 = n /\ n + 1 > 0
  OBVIOUS
<1> QED
  BY <1>1, <1>2

\* What is nested n deep is nested deeper.
LEMMA NestedMore ==
    ASSUME NEW n \in Nat, NEW h \in Heaps
    PROVE  Nested[n][h] \subseteq Nested[n + 1][h]
<1> DEFINE S == {k \in Nat : Nested[k][h] \subseteq Nested[k + 1][h]}
<1>1. 0 \in S
  BY NestedAt
<1>2. ASSUME NEW k \in Nat, k \in S
      PROVE  k + 1 \in S
  <2> SUFFICES ASSUME NEW a \in Nested[k + 1][h]
               PROVE  a \in Nested[(k + 1) + 1][h]
    OBVIOUS
  <2>1. a \in Live(h) /\ Shaped(h[a])
    BY NestedAt
  <2>2. ASSUME NEW i \in DOMAIN h[a].basetypes
        PROVE  h[a].basetypes[i] \in Nested[k + 1][h]
    <3>1. h[a].basetypes[i] \in Nested[(k + 1) - 1][h]
      BY NestedAt
    <3>2. (k + 1) - 1 = k
      OBVIOUS
    <3> QED
      BY <1>2, <3>1, <3>2
  <2> QED
    BY <2>1, <2>2, NestedNext
<1>3. Nat \subseteq S
  <2> HIDE DEF S
  <2> QED
    BY <1>1, <1>2, NatInduct
<1> QED
  BY <1>3

LEMMA NestedDeeper ==
    ASSUME NEW n \in Nat, NEW k \in Nat, n <= k, NEW h \in Heaps
    PROVE  Nested[n][h] \subseteq Nested[k][h]
<1> DEFINE S == {j \in Nat : Nested[n][h] \subseteq Nested[n + j][h]}
<1>1. 0 \in S
  OBVIOUS
<1>2. ASSUME NEW j \in Nat, j \in S
      PROVE  j + 1 \in S
  <2>1. Nested[n + j][h] \subseteq Nested[(n + j) + 1][h]
    BY NestedMore
  <2>2. (n + j) + 1 = n + (j + 1)
    OBVIOUS
  <2> QED
    BY <1>2, <2>1, <2>2
<1>3. Nat \subseteq S
  <2> HIDE DEF S
  <2> QED
    BY <1>1, <1>2, NatInduct
<1>4. k - n \in S /\ n + (k - n) = k
  BY <1>3
<1> QED
  BY <1>4

\* X is closed: no pointer leads out of it.
Closed(h, X) == \A a \in X : \A i \in DOMAIN h[a].basetypes : h[a].basetypes[i] \in X

\* g says of the objects of X what h says.
SameTrees(h, g, X) ==
    \A a \in X : /\ g[a].kind = h[a].kind
                 /\ g[a].tight = h[a].tight
                 /\ g[a].basetypes = h[a].basetypes

LEMMA NestedClosed ==
    ASSUME NEW n \in Nat, NEW h \in Heaps
    PROVE  Closed(h, Nested[n][h])
<1> SUFFICES ASSUME NEW a \in Nested[n][h], NEW i \in DOMAIN h[a].basetypes
             PROVE  h[a].basetypes[i] \in Nested[n][h]
  BY DEF Closed
<1>1. n > 0 /\ h[a].basetypes[i] \in Nested[n - 1][h]
  BY NestedAt
<1>2. n - 1 \in Nat /\ (n - 1) + 1 = n
  BY <1>1
<1>3. Nested[n - 1][h] \subseteq Nested[(n - 1) + 1][h]
  BY <1>2, NestedMore
<1> QED
  BY <1>1, <1>2, <1>3

\* A tree is as deep in g as in h if nothing in it changed.
LEMMA NestedKept ==
    ASSUME NEW h \in Heaps, NEW g \in Heaps, NEW X \in SUBSET Live(g),
           Closed(h, X), SameTrees(h, g, X), NEW n \in Nat
    PROVE  X \cap Nested[n][h] \subseteq Nested[n][g]
<1> DEFINE S == {k \in Nat : X \cap Nested[k][h] \subseteq Nested[k][g]}
<1>1. 0 \in S
  BY NestedAt
<1>2. ASSUME NEW k \in Nat, k \in S
      PROVE  k + 1 \in S
  <2> SUFFICES ASSUME NEW a \in X, a \in Nested[k + 1][h]
               PROVE  a \in Nested[k + 1][g]
    OBVIOUS
  <2>1. Shaped(h[a]) /\ a \in Live(g)
    <3>1. k + 1 \in Nat
      OBVIOUS
    <3> QED
      BY <3>1, NestedAt
  <2>2. Shaped(g[a])
    BY <2>1 DEF Shaped, SameTrees
  <2>3. ASSUME NEW i \in DOMAIN g[a].basetypes
        PROVE  g[a].basetypes[i] \in Nested[k][g]
    <3>1. g[a].basetypes = h[a].basetypes
      BY DEF SameTrees
    <3>2. h[a].basetypes[i] \in X
      BY <3>1 DEF Closed
    <3>3. h[a].basetypes[i] \in Nested[(k + 1) - 1][h] /\ (k + 1) - 1 = k
      BY <3>1, NestedAt
    <3> QED
      BY <1>2, <3>1, <3>2, <3>3
  <2> QED
    BY <2>1, <2>2, <2>3, NestedNext
<1>3. Nat \subseteq S
  <2> HIDE DEF S
  <2> QED
    BY <1>1, <1>2, NatInduct
<1> QED
  BY <1>3

\* What the fields of an object are.
LEMMA FieldsFacts ==
    ASSUME NEW o \in Objects
    PROVE  /\ Fields(o) \in Seq(Nat)
           /\ DOMAIN Fields(o) = 1 .. Len(Fields(o)) /\ Len(Fields(o)) \in Nat
           /\ \A i \in DOMAIN Fields(o) :
                 i \in DOMAIN o.basetypes /\ Fields(o)[i] = o.basetypes[i]
<1>1. o.basetypes \in Seq(Nat)
  BY DEF Objects
<1>2. CASE o.kind # "struct"
  BY <1>1, <1>2 DEF Fields
<1>3. CASE o.kind = "struct"
  <2> DEFINE s == o.basetypes
             k == Len(s) \div 2
  <2>1. Len(s) \in Nat /\ k \in 0 .. Len(s)
    <3>1. Len(s) \in Nat
      BY <1>1
    <3>2. \A x \in Nat : x \div 2 \in 0 .. x
      OBVIOUS
    <3> QED
      BY <3>1, <3>2
  <2> HIDE DEF k
  <2>2. SubSeq(s, 1, k) \in Seq(Nat) /\ Len(SubSeq(s, 1, k)) = k
        /\ \A i \in 1 .. k : SubSeq(s, 1, k)[i] = s[i]
    BY <1>1, <2>1
  <2>3. Fields(o) = SubSeq(s, 1, k)
    BY <1>3 DEF Fields, k
  <2>4. DOMAIN s = 1 .. Len(s)
    BY <1>1
  <2> QED
    BY <2>1, <2>2, <2>3, <2>4
<1> QED
  BY <1>2, <1>3

LEMMA ValueAt ==
    ASSUME NEW n \in Nat, NEW h \in Heaps, NEW a \in Nat
    PROVE  Value[n][h][a] =
              IF n = 0 \/ a \notin Live(h)
              THEN [kind |-> "deleted", tight |-> FALSE, fields |-> <<>>]
              ELSE [kind |-> h[a].kind, tight |-> h[a].tight,
                    fields |-> [i \in DOMAIN Fields(h[a]) |->
                                   Value[n - 1][h][Fields(h[a])[i]]]]
<1>1. Value[n] = ValueOf(Value, n)
  BY ValueUnfold
<1> QED
  BY <1>1 DEF ValueOf

\* A tree has the same value in g as in h if nothing in it changed.
LEMMA ValueKept ==
    ASSUME NEW h \in Heaps, NEW g \in Heaps, NEW X, X \subseteq Live(h), X \subseteq Live(g),
           Closed(h, X), SameTrees(h, g, X), NEW n \in Nat
    PROVE  \A a \in X : Value[n][g][a] = Value[n][h][a]
<1> DEFINE S == {k \in Nat : \A a \in X : Value[k][g][a] = Value[k][h][a]}
<1>a. \A a \in X : a \in Nat /\ h[a] \in Objects /\ g[a] \in Objects
  BY HeapFacts
<1>1. 0 \in S
  BY <1>a, ValueAt
<1>2. ASSUME NEW k \in Nat, k \in S
      PROVE  k + 1 \in S
  <2> SUFFICES ASSUME NEW a \in X
               PROVE  Value[k + 1][g][a] = Value[k + 1][h][a]
    OBVIOUS
  <2>1. k + 1 # 0 /\ (k + 1) - 1 = k
    OBVIOUS
  <2>2. /\ h[a].kind = g[a].kind /\ h[a].tight = g[a].tight
        /\ Fields(h[a]) = Fields(g[a])
    BY DEF SameTrees, Fields
  <2>3. \A i \in DOMAIN Fields(h[a]) : Fields(h[a])[i] \in X
    BY <1>a, FieldsFacts DEF Closed
  <2>4. \A i \in DOMAIN Fields(h[a]) :
           Value[k][g][Fields(h[a])[i]] = Value[k][h][Fields(h[a])[i]]
    BY <1>2, <2>3
  <2>5. Value[k + 1][g][a] =
           [kind |-> g[a].kind, tight |-> g[a].tight,
            fields |-> [i \in DOMAIN Fields(g[a]) |-> Value[k][g][Fields(g[a])[i]]]]
    BY <1>a, <2>1, ValueAt
  <2>6. Value[k + 1][h][a] =
           [kind |-> h[a].kind, tight |-> h[a].tight,
            fields |-> [i \in DOMAIN Fields(h[a]) |-> Value[k][h][Fields(h[a])[i]]]]
    BY <1>a, <2>1, ValueAt
  <2>7. [i \in DOMAIN Fields(g[a]) |-> Value[k][g][Fields(g[a])[i]]]
           = [i \in DOMAIN Fields(h[a]) |-> Value[k][h][Fields(h[a])[i]]]
    BY <2>2, <2>4
  <2> QED
    BY <2>2, <2>5, <2>6, <2>7
<1>3. Nat \subseteq S
  <2> HIDE DEF S
  <2> QED
    BY <1>1, <1>2, NatInduct
<1> QED
  BY <1>3

-----------------------------------------------------------------------------
(* Constructors.                                                           *)

\* The objects made between memories m and n.
Young(m, n) == Live(n.heap) \ Live(m.heap)

\* Nothing was compiled for an object.
Bare(o) == o.pack = NULL /\ o.unpack = NULL

\* The functions, the arrays and every object of m are in n as they were.
Kept(m, n) ==
    /\ n.functions = m.functions
    /\ n.arrays = m.arrays
    /\ n.dropped = m.dropped
    /\ n.fault = m.fault
    /\ Live(m.heap) \subseteq Live(n.heap)
    /\ \A a \in Live(m.heap) : n.heap[a] = m.heap[a]

\* Every object of Y is in one place at most, and all its places are in Y.
OnePlace(h, Y) ==
    \A a, b \in Y : \A i \in DOMAIN h[a].basetypes, j \in DOMAIN h[b].basetypes :
       h[a].basetypes[i] = h[b].basetypes[j] => a = b /\ i = j

\* The objects of Y are bare trees; r is not below any of them.
Planted(h, Y, r) ==
    /\ r \in Y
    /\ \A a \in Y : Bare(h[a])
    /\ \A a \in Y : \A i \in DOMAIN h[a].basetypes : h[a].basetypes[i] \in Y \ {r}
    /\ OnePlace(h, Y)

\* a is a field of the application's object b.
AppField(h, b, a) ==
    h[b].by = "app" /\ \E i \in DOMAIN Fields(h[b]) : Fields(h[b])[i] = a

\* The fields of the application's objects are the application's as well.
FieldsCredited(h, a) ==
    h[a].by = "app" => \A i \in DOMAIN Fields(h[a]) : h[Fields(h[a])[i]].by = "app"

\* r was made by by; what the application made is r, or a field of what it made.
Credited(h, Y, r, by) ==
    /\ h[r].by = by
    /\ \A a \in Y : h[a].by = "app" =>
          /\ by = "app"
          /\ FieldsCredited(h, a)
          /\ a = r \/ \E b \in Y : AppField(h, b, a)

\* n is m with new trees, n.ret a root among them, at most k levels deep.
Grown(m, n, k, by) ==
    /\ n \in Memories
    /\ Kept(m, n)
    /\ Planted(n.heap, Young(m, n), n.ret)
    /\ Young(m, n) \subseteq Nested[k][n.heap]
    /\ Credited(n.heap, Young(m, n), n.ret, by)

\* The object n.ret has the given class and copies of the trees in bases.
Copied(m, n, kind, tight, bases) ==
    LET o == n.heap[n.ret]
    IN  /\ o.kind = kind
        /\ o.tight = tight
        /\ Len(Fields(o)) = Len(bases)
        /\ \A i \in 1 .. Len(bases) : \A q \in Nat :
              Value[q][n.heap][Fields(o)[i]] = Value[q][m.heap][bases[i]]

\* clone copies trees of at most k levels.
Clones(clone, k) ==
    \A m \in Memories : \A by \in Makers : \A a \in Nested[k][m.heap] :
        LET n == clone[a][by][m]
        IN  /\ Grown(m, n, k, by)
            /\ \A q \in Nat : Value[q][n.heap][n.ret] = Value[q][m.heap][a]

\* The number of basetypes a class is constructed from.
Arity(kind, bases) ==
    Len(bases) = CASE kind = "primitive" -> 0
                   [] kind = "struct"    -> 2
                   [] OTHER              -> 1

Copies(kind, bases) == IF kind = "struct" THEN bases \o bases ELSE bases

MakerOf(i, bases, by) == IF i > Len(bases) THEN "library" ELSE by

\* The constructor after i clones: x is m with the object self on i new trees.
Growing(m, x, self, kind, tight, bases, by, k, i) ==
    LET s == x.heap[self].basetypes
    IN  /\ x \in Memories
        /\ Kept(m, x)
        /\ x.heap[self].kind = kind
        /\ x.heap[self].tight = tight
        /\ x.heap[self].by = by
        /\ Len(s) = i
        /\ Planted(x.heap, Young(m, x), self)
        /\ Young(m, x) \ {self} \subseteq Nested[k][x.heap]
        /\ \A j \in 1 .. i : x.heap[s[j]].by = MakerOf(j, bases, by)
        /\ \A a \in Young(m, x) \ {self} : x.heap[a].by = "app" =>
              /\ by = "app"
              /\ FieldsCredited(x.heap, a)
              /\ \/ \E b \in Young(m, x) \ {self} : AppField(x.heap, b, a)
                 \/ \E j \in 1 .. i : j <= Len(bases) /\ s[j] = a
        /\ \A j \in 1 .. i : \A q \in Nat :
              Value[q][x.heap][s[j]] = Value[q][m.heap][Copies(kind, bases)[j]]

LEMMA MemoryTyped ==
    ASSUME NEW m \in Memories
    PROVE  /\ m.heap \in Heaps /\ m.functions \in SUBSET Functions
           /\ m.arrays \in SUBSET Nat /\ m.dropped \in SUBSET Nat
           /\ m.fault \in BOOLEAN /\ m.ret \in Nat
           /\ m = [heap |-> m.heap, functions |-> m.functions, arrays |-> m.arrays,
                   dropped |-> m.dropped, fault |-> m.fault, ret |-> m.ret]
  BY DEF Memories

\* Before the first clone.
LEMMA GrowingStarts ==
    ASSUME NEW m \in Memories, NEW kind \in AllKinds \cup {"primitive"},
           NEW tight \in BOOLEAN, NEW bases, NEW by \in Makers, NEW k \in Nat,
           NEW self, self = Unused(Live(m.heap)),
           NEW x, x = [m EXCEPT !.heap = Put(@, self, Object(kind, tight, by))]
    PROVE  Growing(m, x, self, kind, tight, bases, by, k, 0) /\ self \notin Live(m.heap)
<1> DEFINE o == Object(kind, tight, by)
           g == Put(m.heap, self, o)
<1>1. /\ o \in Objects /\ o.kind = kind /\ o.tight = tight /\ o.by = by
      /\ o.basetypes = <<>> /\ o.pack = NULL /\ o.unpack = NULL
  BY ObjectTyped
<1>2. kind # "deleted"
  BY DEF AllKinds
<1>3. m.heap \in Heaps
  BY MemoryTyped
<1>4. self \in 1 .. Len(m.heap) + 1 /\ self \notin Live(m.heap)
  BY <1>3, AddressFresh
<1> HIDE DEF o
<1>5. /\ g \in Heaps
      /\ Live(g) = Live(m.heap) \cup {self}
      /\ g[self] = o
      /\ \A y \in Live(m.heap) : g[y] = m.heap[y]
  BY <1>1, <1>2, <1>3, <1>4, PutFacts
<1>6. x = [m EXCEPT !.heap = g]
  BY DEF o
<1> HIDE DEF g
<1>7. /\ x \in Memories /\ x.heap = g
      /\ x.functions = m.functions /\ x.arrays = m.arrays
      /\ x.dropped = m.dropped /\ x.fault = m.fault
  <2>1. g \in Heaps
    BY <1>5
  <2> QED
    BY <1>6, <2>1 DEF Memories
<1>8. Kept(m, x)
  BY <1>5, <1>7 DEF Kept
<1>9. Young(m, x) = {self}
  BY <1>4, <1>5, <1>7 DEF Young
<1>10. x.heap[self] = o /\ DOMAIN o.basetypes = {} /\ Len(o.basetypes) = 0
  BY <1>1, <1>5, <1>7
<1>11. Planted(x.heap, Young(m, x), self)
  BY <1>1, <1>9, <1>10 DEF Planted, OnePlace, Bare
<1> QED
  BY <1>1, <1>4, <1>7, <1>8, <1>9, <1>10, <1>11 DEF Growing

\* What is kept below k levels stays below k levels, with its values.
LEMMA KeptNested ==
    ASSUME NEW m \in Memories, NEW n \in Memories, Kept(m, n), NEW k \in Nat
    PROVE  /\ Nested[k][m.heap] \subseteq Nested[k][n.heap]
           /\ \A a \in Nested[k][m.heap] : \A q \in Nat :
                 Value[q][n.heap][a] = Value[q][m.heap][a]
<1> DEFINE h == m.heap
           g == n.heap
           X == Nested[k][h]
<1>1. h \in Heaps /\ g \in Heaps
  BY MemoryTyped
<1>2. X \subseteq Live(h) /\ X \subseteq Live(g)
  BY <1>1, NestedAt DEF Kept
<1>3. Closed(h, X)
  BY <1>1, NestedClosed
<1>4. SameTrees(h, g, X)
  BY <1>2 DEF SameTrees, Kept
<1>5. X \in SUBSET Live(g)
  BY <1>2
<1>6. X \cap Nested[k][h] \subseteq Nested[k][g]
  BY <1>1, <1>3, <1>4, <1>5, NestedKept
<1>7. \A q \in Nat : \A a \in X : Value[q][g][a] = Value[q][h][a]
  BY <1>1, <1>2, <1>3, <1>4, ValueKept
<1> QED
  BY <1>6, <1>7

\* y is c with c.ret added to the basetypes of self.
Pushed(c, y, self) ==
    /\ y \in Memories
    /\ y.functions = c.functions /\ y.arrays = c.arrays
    /\ y.dropped = c.dropped /\ y.fault = c.fault
    /\ Live(y.heap) = Live(c.heap)
    /\ \A a \in Live(c.heap) : a # self => y.heap[a] = c.heap[a]
    /\ y.heap[self].basetypes = Append(c.heap[self].basetypes, c.ret)
    /\ y.heap[self].kind = c.heap[self].kind
    /\ y.heap[self].tight = c.heap[self].tight
    /\ y.heap[self].by = c.heap[self].by
    /\ y.heap[self].pack = c.heap[self].pack
    /\ y.heap[self].unpack = c.heap[self].unpack

LEMMA PushFacts ==
    ASSUME NEW c \in Memories, NEW self \in Live(c.heap),
           NEW y, y = [c EXCEPT !.heap[self].basetypes = Append(@, c.ret)]
    PROVE  Pushed(c, y, self)
<1> DEFINE d == c.heap
           o == [d[self] EXCEPT !.basetypes = Append(d[self].basetypes, c.ret)]
           e == [d EXCEPT ![self] = o]
<1>1. d \in Heaps /\ c.ret \in Nat
  BY DEF Memories
<1>2. self \in DOMAIN d /\ d[self] \in Objects /\ d[self].kind # "deleted"
  <2>1. self \in DOMAIN d /\ d[self].kind # "deleted"
    BY DEF Live
  <2> QED
    BY <1>1, <2>1, HeapFacts
<1>3. /\ o \in Objects /\ o.basetypes = Append(d[self].basetypes, c.ret)
      /\ o.kind = d[self].kind /\ o.tight = d[self].tight /\ o.by = d[self].by
      /\ o.pack = d[self].pack /\ o.unpack = d[self].unpack
  <2>1. Append(d[self].basetypes, c.ret) \in Seq(Nat)
    <3>1. d[self].basetypes \in Seq(Nat)
      BY <1>2 DEF Objects
    <3> QED
      BY <1>1, <3>1
  <2> HIDE DEF d
  <2> QED
    BY <1>2, <2>1 DEF Objects
<1>4. y = [c EXCEPT !.heap = e]
  OBVIOUS
<1> HIDE DEF o
<1>5. /\ e \in Heaps
      /\ Live(e) = Live(d) \cup {self} /\ e[self] = o
      /\ \A a \in DOMAIN d : a # self => e[a] = d[a]
  <2> HIDE DEF d
  <2> QED
    BY <1>1, <1>2, <1>3, ChangeFacts
<1> HIDE DEF e
<1>6. /\ y \in Memories /\ y.heap = e
      /\ y.functions = c.functions /\ y.arrays = c.arrays
      /\ y.dropped = c.dropped /\ y.fault = c.fault
  BY <1>4, <1>5 DEF Memories
<1>7. Live(d) \subseteq DOMAIN d
  BY <1>1, HeapFacts
<1>8. /\ Live(y.heap) = Live(d) /\ \A a \in Live(d) : a # self => y.heap[a] = d[a]
      /\ y.heap[self] = o
  BY <1>5, <1>6, <1>7
<1> QED
  BY <1>3, <1>6, <1>8 DEF Pushed

\* Every tree the constructor of kind clones is one of bases.
LEMMA CopiesFacts ==
    ASSUME NEW bases \in Seq(Nat), NEW kind
    PROVE  /\ Copies(kind, bases) \in Seq(Nat) /\ Len(Copies(kind, bases)) \in Nat
           /\ Len(Copies(kind, bases)) = IF kind = "struct" THEN 2 * Len(bases) ELSE Len(bases)
           /\ DOMAIN Copies(kind, bases) = 1 .. Len(Copies(kind, bases))
           /\ \A j \in 1 .. Len(bases) : j \in 1 .. Len(Copies(kind, bases))
                                         /\ Copies(kind, bases)[j] = bases[j]
           /\ \A j \in 1 .. Len(Copies(kind, bases)) :
                 \E i \in 1 .. Len(bases) : Copies(kind, bases)[j] = bases[i]
<1> DEFINE n == Len(bases)
<1>1. n \in Nat /\ DOMAIN bases = 1 .. n
  OBVIOUS
<1>2. CASE kind = "struct"
  <2> DEFINE s == bases \o bases
  <2>1. Copies(kind, bases) = s
    BY <1>2 DEF Copies
  <2>2. s \in Seq(Nat) /\ Len(s) = n + n
    OBVIOUS
  <2>3. \A j \in 1 .. n + n : s[j] = IF j <= n THEN bases[j] ELSE bases[j - n]
    OBVIOUS
  <2> HIDE DEF s, n
  <2>4. \A j \in 1 .. n + n : j > n => j - n \in 1 .. n
    BY <1>1
  <2>5. \A j \in 1 .. n + n : j <= n => j \in 1 .. n
    BY <1>1
  <2>6. \A j \in 1 .. n : j \in 1 .. n + n
    BY <1>1
  <2>7. DOMAIN s = 1 .. n + n /\ n + n = 2 * n /\ n + n \in Nat
    BY <1>1, <2>2
  <2>8. \A j \in 1 .. n : s[j] = bases[j]
    BY <1>1, <2>3, <2>6
  <2>9. \A j \in 1 .. n + n : \E i \in 1 .. n : s[j] = bases[i]
    BY <1>1, <2>3, <2>4, <2>5
  <2> QED
    BY <1>2, <2>1, <2>2, <2>6, <2>7, <2>8, <2>9 DEF n
<1>3. CASE kind # "struct"
  BY <1>1, <1>3 DEF Copies
<1> QED
  BY <1>2, <1>3

\* One more clone.
LEMMA GrowingGoesOn ==
    ASSUME NEW k \in Nat, NEW m \in Memories,
           NEW kind, NEW tight, NEW bases, NEW by,
           NEW self, self \notin Live(m.heap),
           NEW i \in Nat, NEW x, Growing(m, x, self, kind, tight, bases, by, k, i),
           NEW base, base = Copies(kind, bases)[i + 1],
           \A q \in Nat : Value[q][x.heap][base] = Value[q][m.heap][base],
           NEW maker, maker = MakerOf(i + 1, bases, by),
           maker = "app" => by = "app" /\ i + 1 <= Len(bases),
           NEW c, Grown(x, c, k, maker),
           \A q \in Nat : Value[q][c.heap][c.ret] = Value[q][x.heap][base],
           NEW y, Pushed(c, y, self)
    PROVE  Growing(m, y, self, kind, tight, bases, by, k, i + 1)
<1> DEFINE h  == x.heap
           d  == c.heap
           g  == y.heap
           Yx == Young(m, x)
           Yc == Young(x, c)
           s  == h[self].basetypes
           t  == g[self].basetypes
           r  == c.ret
<1>1. x \in Memories /\ h \in Heaps /\ m.heap \in Heaps
  BY MemoryTyped DEF Growing
<1>2. Kept(m, x)
  BY DEF Growing
<1>8. c \in Memories /\ d \in Heaps /\ Kept(x, c) /\ Planted(d, Yc, r)
      /\ Yc \subseteq Nested[k][d] /\ Credited(d, Yc, r, maker)
  BY MemoryTyped DEF Grown
<1>9. Planted(h, Yx, self) /\ Yx \ {self} \subseteq Nested[k][h]
  BY DEF Growing
<1>10. /\ self \in Live(h) /\ self \in Live(d) /\ d[self] = h[self]
       /\ self \in DOMAIN d /\ d[self] \in Objects /\ r \in Nat
       /\ self \in Yx /\ self \notin Yc
  <2>1. self \in Yx /\ self \in Live(h) /\ self \notin Yc
    BY <1>9 DEF Planted, Young
  <2>2. self \in Live(d) /\ d[self] = h[self]
    BY <1>8, <2>1 DEF Kept
  <2>3. self \in DOMAIN d /\ d[self] \in Objects
    BY <1>8, <2>2, HeapFacts
  <2>4. r \in Nat
    BY <1>8, MemoryTyped
  <2> QED
    BY <2>1, <2>2, <2>3, <2>4
<1>11. s \in Seq(Nat) /\ Len(s) = i
  BY <1>10 DEF Objects, Growing
<1>16. /\ y \in Memories /\ g \in Heaps /\ Live(g) = Live(d)
       /\ \A a \in Live(d) : a # self => g[a] = d[a]
  BY MemoryTyped DEF Pushed
<1>12. /\ t = Append(s, r) /\ g[self].kind = h[self].kind
       /\ g[self].tight = h[self].tight /\ g[self].by = h[self].by
       /\ g[self].pack = h[self].pack /\ g[self].unpack = h[self].unpack
  BY <1>10 DEF Pushed
<1>17. /\ t = Append(s, r) /\ Len(t) = i + 1
       /\ DOMAIN t = 1 .. i + 1 /\ DOMAIN s = 1 .. i
       /\ \A j \in 1 .. i : t[j] = s[j]
       /\ t[i + 1] = r
  BY <1>10, <1>11, <1>12
<1>18. Young(m, y) = Yx \cup Yc /\ Yx \cap Yc = {}
  <2>1. Live(m.heap) \subseteq Live(h) /\ Live(h) \subseteq Live(d)
    BY <1>2, <1>8 DEF Kept
  <2> QED
    BY <1>16, <2>1 DEF Young
<1>19. /\ \A a \in Yx : a # self => g[a] = h[a]
       /\ \A a \in Yc : g[a] = d[a]
  <2>1. \A a \in Yx : a \in Live(d) /\ d[a] = h[a]
    BY <1>8 DEF Kept, Young
  <2>2. \A a \in Yc : a \in Live(d) /\ a # self
    BY <1>10 DEF Young
  <2> QED
    BY <1>16, <2>1, <2>2
<1>20. Kept(m, y)
  <2>1. \A a \in Live(m.heap) : a \in Live(g) /\ g[a] = m.heap[a]
    BY <1>2, <1>8, <1>16 DEF Kept
  <2> QED
    BY <1>2, <1>8, <2>1 DEF Kept, Pushed
<1>21. \A j \in 1 .. i : s[j] \in Yx \ {self}
  BY <1>9, <1>10, <1>17 DEF Planted
<1>22. r \in Yc /\ \A j \in 1 .. i + 1 : t[j] \in (Yx \cup Yc) \ {self}
  BY <1>8, <1>10, <1>17, <1>21 DEF Planted
<1>23. Planted(g, Young(m, y), self)
  <2>1. \A a \in Yx \cup Yc : Bare(g[a])
    <3>1. \A a \in Yx \cup Yc : a # self => Bare(g[a])
      BY <1>8, <1>9, <1>19 DEF Planted
    <3>2. Bare(h[self])
      BY <1>9, <1>10 DEF Planted
    <3>3. Bare(g[self])
      BY <1>12, <3>2 DEF Bare
    <3> QED
      BY <3>1, <3>3
  <2>2. \A a \in Yx \ {self} : \A j \in DOMAIN g[a].basetypes : g[a].basetypes[j] \in Yx \ {self}
    BY <1>9, <1>19 DEF Planted
  <2>3. \A a \in Yc : \A j \in DOMAIN g[a].basetypes : g[a].basetypes[j] \in Yc \ {r}
    BY <1>8, <1>19 DEF Planted
  <2>4. \A a \in Yx \cup Yc : \A j \in DOMAIN g[a].basetypes :
           g[a].basetypes[j] \in (Yx \cup Yc) \ {self}
    <3> SUFFICES ASSUME NEW a \in Yx \cup Yc, NEW j \in DOMAIN g[a].basetypes
                 PROVE  g[a].basetypes[j] \in (Yx \cup Yc) \ {self}
      OBVIOUS
    <3>1. CASE a = self
      BY <1>17, <1>22, <3>1
    <3>2. CASE a \in Yx \ {self}
      BY <2>2, <3>2
    <3>3. CASE a \in Yc
      BY <1>10, <2>3, <3>3
    <3> QED
      BY <3>1, <3>2, <3>3
  <2>5. OnePlace(g, Yx \cup Yc)
    <3> SUFFICES ASSUME NEW a \in Yx \cup Yc, NEW b \in Yx \cup Yc,
                        NEW p \in DOMAIN g[a].basetypes, NEW q \in DOMAIN g[b].basetypes,
                        g[a].basetypes[p] = g[b].basetypes[q]
                 PROVE  a = b /\ p = q
      BY DEF OnePlace
    <3>1. OnePlace(h, Yx) /\ OnePlace(d, Yc)
      BY <1>8, <1>9 DEF Planted
    <3>2. CASE a \in Yc /\ b \in Yc
      BY <1>19, <3>1, <3>2 DEF OnePlace
    <3>3. CASE a \in Yx \ {self} /\ b \in Yx \ {self}
      BY <1>19, <3>1, <3>3 DEF OnePlace
    <3>4. CASE a \in Yc /\ b \in Yx \ {self}
      BY <1>18, <2>2, <2>3, <3>4
    <3>5. CASE b \in Yc /\ a \in Yx \ {self}
      BY <1>18, <2>2, <2>3, <3>5
    <3>6. ASSUME NEW e \in Yx \ {self}, NEW v \in DOMAIN g[e].basetypes,
                 NEW w \in 1 .. i + 1, g[e].basetypes[v] = t[w]
          PROVE  FALSE
      <4>1. CASE w = i + 1
        BY <1>17, <1>18, <1>22, <2>2, <3>6, <4>1
      <4>2. CASE w \in 1 .. i
        <5>1. h[e].basetypes[v] = h[self].basetypes[w] /\ v \in DOMAIN h[e].basetypes
          BY <1>17, <1>19, <3>6, <4>2
        <5> QED
          BY <1>10, <1>17, <3>1, <4>2, <5>1 DEF OnePlace
      <4> QED
        BY <4>1, <4>2
    <3>7. ASSUME NEW e \in Yc, NEW v \in DOMAIN g[e].basetypes,
                 NEW w \in 1 .. i + 1, g[e].basetypes[v] = t[w]
          PROVE  FALSE
      <4>1. CASE w = i + 1
        BY <1>17, <2>3, <3>7, <4>1
      <4>2. CASE w \in 1 .. i
        BY <1>17, <1>18, <1>21, <2>3, <3>7, <4>2
      <4> QED
        BY <4>1, <4>2
    <3>8. ASSUME NEW v \in 1 .. i + 1, NEW w \in 1 .. i + 1, t[v] = t[w]
          PROVE  v = w
      <4>1. CASE v \in 1 .. i /\ w \in 1 .. i
        <5>1. h[self].basetypes[v] = h[self].basetypes[w]
          BY <1>17, <3>8, <4>1
        <5> QED
          BY <1>10, <1>17, <3>1, <4>1, <5>1 DEF OnePlace
      <4>2. CASE v = i + 1 /\ w \in 1 .. i
        BY <1>17, <1>18, <1>21, <1>22, <3>8, <4>2
      <4>3. CASE w = i + 1 /\ v \in 1 .. i
        BY <1>17, <1>18, <1>21, <1>22, <3>8, <4>3
      <4> QED
        BY <4>1, <4>2, <4>3
    <3>9. DOMAIN g[self].basetypes = 1 .. i + 1
      BY <1>17
    <3>10. CASE a = self /\ b = self
      BY <3>8, <3>9, <3>10
    <3>11. CASE a = self /\ b \in Yx \ {self}
      BY <3>6, <3>9, <3>11
    <3>12. CASE b = self /\ a \in Yx \ {self}
      BY <3>6, <3>9, <3>12
    <3>13. CASE a = self /\ b \in Yc
      BY <3>7, <3>9, <3>13
    <3>14. CASE b = self /\ a \in Yc
      BY <3>7, <3>9, <3>14
    <3> QED
      BY <3>2, <3>3, <3>4, <3>5, <3>10, <3>11, <3>12, <3>13, <3>14
  <2> QED
    BY <1>10, <1>18, <2>1, <2>4, <2>5 DEF Planted
<1>24. Young(m, y) \ {self} \subseteq Nested[k][g]
  <2>1. Yx \ {self} \subseteq Nested[k][g]
    <3> DEFINE X == Yx \ {self}
    <3>1. Closed(h, X)
      BY <1>9 DEF Closed, Planted
    <3>2. SameTrees(h, g, X)
      BY <1>19 DEF SameTrees
    <3>3. X \in SUBSET Live(g)
      BY <1>8, <1>16 DEF Young, Kept
    <3>4. X \cap Nested[k][h] \subseteq Nested[k][g]
      BY <1>1, <1>16, <3>1, <3>2, <3>3, NestedKept
    <3> QED
      BY <1>9, <3>4
  <2>2. Yc \subseteq Nested[k][g]
    <3>1. Closed(d, Yc)
      BY <1>8 DEF Closed, Planted
    <3>2. SameTrees(d, g, Yc)
      BY <1>19 DEF SameTrees
    <3>3. Yc \in SUBSET Live(g)
      BY <1>16 DEF Young
    <3>4. Yc \cap Nested[k][d] \subseteq Nested[k][g]
      BY <1>8, <1>16, <3>1, <3>2, <3>3, NestedKept
    <3> QED
      BY <1>8, <3>4
  <2> QED
    BY <1>18, <2>1, <2>2
<1>25. \A j \in 1 .. i + 1 : g[t[j]].by = MakerOf(j, bases, by)
  <2>1. \A j \in 1 .. i : h[s[j]].by = MakerOf(j, bases, by)
    BY DEF Growing
  <2>2. \A j \in 1 .. i : g[t[j]].by = MakerOf(j, bases, by)
    <3>1. \A j \in 1 .. i : t[j] = s[j] /\ g[s[j]] = h[s[j]]
      BY <1>17, <1>19, <1>21
    <3> QED
      BY <2>1, <3>1
  <2>3. g[r].by = maker
    BY <1>8, <1>19, <1>22 DEF Credited
  <2>4. ASSUME NEW j \in 1 .. i + 1
        PROVE  g[t[j]].by = MakerOf(j, bases, by)
    <3>1. CASE j \in 1 .. i
      BY <2>2, <3>1
    <3>2. CASE j = i + 1
      BY <1>17, <2>3, <3>2
    <3> QED
      BY <3>1, <3>2
  <2> QED
    BY <2>4
<1>26. ASSUME NEW a \in Young(m, y) \ {self}, g[a].by = "app"
       PROVE  /\ by = "app"
              /\ FieldsCredited(g, a)
              /\ \/ \E b \in Young(m, y) \ {self} : AppField(g, b, a)
                 \/ \E j \in 1 .. i + 1 : j <= Len(bases) /\ t[j] = a
  <2>1. CASE a \in Yx \ {self}
    <3>1. g[a] = h[a] /\ h[a] \in Objects
      BY <1>1, <1>19, <2>1, HeapFacts DEF Young
    <3>2. /\ by = "app" /\ FieldsCredited(h, a)
          /\ \/ \E b \in Yx \ {self} : AppField(h, b, a)
             \/ \E j \in 1 .. i : j <= Len(bases) /\ s[j] = a
      BY <1>26, <2>1, <3>1 DEF Growing
    <3>3. \A j \in DOMAIN Fields(h[a]) : Fields(h[a])[j] \in Yx \ {self}
      BY <1>9, <2>1, <3>1, FieldsFacts DEF Planted
    <3>4. FieldsCredited(g, a)
      BY <1>19, <3>1, <3>2, <3>3 DEF FieldsCredited
    <3>5. \A b \in Yx \ {self} : AppField(h, b, a) => AppField(g, b, a)
      BY <1>19 DEF AppField
    <3>6. \A j \in 1 .. i : s[j] = t[j] /\ j \in 1 .. i + 1
      BY <1>17
    <3>7. \/ \E b \in Yx \ {self} : AppField(g, b, a)
          \/ \E j \in 1 .. i + 1 : j <= Len(bases) /\ t[j] = a
      BY <3>2, <3>5, <3>6
    <3> QED
      BY <1>18, <3>2, <3>4, <3>7
  <2>2. CASE a \in Yc
    <3>1. g[a] = d[a] /\ d[a] \in Objects
      BY <1>8, <1>19, <2>2, HeapFacts DEF Young
    <3>2. /\ maker = "app" /\ FieldsCredited(d, a)
          /\ a = r \/ \E b \in Yc : AppField(d, b, a)
      BY <1>8, <1>26, <2>2, <3>1 DEF Credited
    <3>3. \A j \in DOMAIN Fields(d[a]) : Fields(d[a])[j] \in Yc
      BY <1>8, <2>2, <3>1, FieldsFacts DEF Planted
    <3>4. FieldsCredited(g, a)
      BY <1>19, <3>1, <3>2, <3>3 DEF FieldsCredited
    <3>5. \A b \in Yc : AppField(d, b, a) => AppField(g, b, a)
      BY <1>19 DEF AppField
    <3>6. a = r => \E j \in 1 .. i + 1 : j <= Len(bases) /\ t[j] = a
      BY <1>17, <3>2
    <3>7. \A b \in Yc : b \in Young(m, y) \ {self}
      BY <1>10, <1>18
    <3> QED
      BY <3>2, <3>4, <3>5, <3>6, <3>7
  <2> QED
    BY <1>18, <2>1, <2>2
<1>27. ASSUME NEW j \in 1 .. i + 1, NEW q \in Nat
       PROVE  Value[q][g][t[j]] = Value[q][m.heap][Copies(kind, bases)[j]]
  <2>1. CASE j \in 1 .. i
    <3> DEFINE X == Yx \ {self}
    <3>1. Closed(h, X)
      BY <1>9 DEF Closed, Planted
    <3>2. SameTrees(h, g, X)
      BY <1>19 DEF SameTrees
    <3>3. X \subseteq Live(h) /\ X \subseteq Live(g)
      BY <1>8, <1>16 DEF Young, Kept
    <3>4. \A a \in X : Value[q][g][a] = Value[q][h][a]
      BY <1>1, <1>16, <3>1, <3>2, <3>3, ValueKept
    <3>5. Value[q][h][s[j]] = Value[q][m.heap][Copies(kind, bases)[j]]
      BY <2>1 DEF Growing
    <3> QED
      BY <1>17, <1>21, <2>1, <3>4, <3>5
  <2>2. CASE j = i + 1
    <3>1. Closed(d, Yc)
      BY <1>8 DEF Closed, Planted
    <3>2. SameTrees(d, g, Yc)
      BY <1>19 DEF SameTrees
    <3>3. Yc \subseteq Live(d) /\ Yc \subseteq Live(g)
      BY <1>16 DEF Young
    <3>4. \A a \in Yc : Value[q][g][a] = Value[q][d][a]
      BY <1>8, <1>16, <3>1, <3>2, <3>3, ValueKept
    <3>5. Value[q][d][r] = Value[q][h][base] /\ Value[q][h][base] = Value[q][m.heap][base]
      OBVIOUS
    <3> QED
      BY <1>17, <1>22, <2>2, <3>4, <3>5
  <2> QED
    BY <2>1, <2>2
<1>28. g[self].kind = kind /\ g[self].tight = tight /\ g[self].by = by
  BY <1>12 DEF Growing
<1> QED
  BY <1>16, <1>17, <1>20, <1>23, <1>24, <1>25, <1>26, <1>27, <1>28 DEF Growing

\* The finished object has the shape of its class and reads what it was given.
LEMMA FinishedShape ==
    ASSUME NEW o \in Objects, NEW bases \in Seq(Nat), Arity(o.kind, bases),
           Len(o.basetypes) = Len(Copies(o.kind, bases))
    PROVE  /\ Shaped(o)
           /\ Len(Fields(o)) = Len(bases)
           /\ DOMAIN Fields(o) = 1 .. Len(bases)
           /\ \A i \in 1 .. Len(bases) :
                 i \in DOMAIN o.basetypes /\ Fields(o)[i] = o.basetypes[i]
<1> DEFINE s == o.basetypes
<1>1. s \in Seq(Nat) /\ Len(bases) \in Nat
  BY DEF Objects
<1>2. /\ DOMAIN Fields(o) = 1 .. Len(Fields(o))
      /\ \A i \in DOMAIN Fields(o) : i \in DOMAIN s /\ Fields(o)[i] = s[i]
  BY FieldsFacts
<1>3. Len(s) = IF o.kind = "struct" THEN 2 * Len(bases) ELSE Len(bases)
  BY CopiesFacts
<1>4. Shaped(o) /\ Len(Fields(o)) = Len(bases)
  <2>1. CASE o.kind = "primitive"
    <3>1. Len(bases) = 0
      BY <2>1 DEF Arity
    <3>2. s = <<>>
      BY <1>1, <1>3, <2>1, <3>1
    <3> QED
      BY <2>1, <3>1, <3>2 DEF Shaped, Fields
  <2>2. CASE o.kind = "struct"
    <3>1. Len(bases) = 2
      BY <2>2 DEF Arity
    <3>2. Len(s) = 4 /\ Len(s) \div 2 = 2
      BY <1>3, <2>2, <3>1
    <3>3. Fields(o) = SubSeq(s, 1, 2)
      BY <2>2, <3>2 DEF Fields
    <3>4. Len(SubSeq(s, 1, 2)) = 2
      BY <1>1, <3>2
    <3>5. Shaped(o)
      BY <2>2, <3>2 DEF Shaped
    <3> QED
      BY <3>1, <3>3, <3>4, <3>5
  <2>3. CASE o.kind \notin {"primitive", "struct"}
    <3>1. Len(bases) = 1
      BY <2>3 DEF Arity
    <3>2. Len(s) = 1 /\ Fields(o) = s
      BY <1>3, <2>3, <3>1 DEF Fields
    <3> QED
      BY <2>3, <3>1, <3>2 DEF Shaped
  <2> QED
    BY <2>1, <2>2, <2>3
<1> QED
  BY <1>2, <1>4

LEMMA CopiesFirst ==
    ASSUME NEW bases \in Seq(Nat), NEW kind, NEW i \in 1 .. Len(bases)
    PROVE  Copies(kind, bases)[i] = bases[i]
  BY CopiesFacts

\* The constructor has cloned all there was to clone.
LEMMA GrowingEnds ==
    ASSUME NEW k \in Nat, NEW m \in Memories,
           NEW kind, NEW tight, NEW bases \in Seq(Nat), Arity(kind, bases), NEW by,
           NEW self, self \notin Live(m.heap),
           NEW x, Growing(m, x, self, kind, tight, bases, by, k, Len(Copies(kind, bases))),
           NEW n, n \in Memories, n.ret = self, n.heap = x.heap,
           n.functions = x.functions, n.arrays = x.arrays,
           n.dropped = x.dropped, n.fault = x.fault
    PROVE  Grown(m, n, k + 1, by) /\ Copied(m, n, kind, tight, bases)
<1> DEFINE h == x.heap
           Y == Young(m, x)
           o == h[self]
           s == o.basetypes
<1>1. h \in Heaps /\ Kept(m, x) /\ Planted(h, Y, self) /\ Y \ {self} \subseteq Nested[k][h]
      /\ o.kind = kind /\ o.tight = tight /\ o.by = by
  BY MemoryTyped DEF Growing
<1>2. Young(m, n) = Y /\ Kept(m, n)
  BY <1>1 DEF Young, Kept
<1>3. self \in Y /\ self \in Live(h) /\ o \in Objects
  BY <1>1, HeapFacts DEF Planted, Young
<1>4. Len(s) = Len(Copies(o.kind, bases)) /\ Arity(o.kind, bases)
  BY <1>1 DEF Growing
<1>5. /\ Shaped(o)
      /\ Len(Fields(o)) = Len(bases)
      /\ DOMAIN Fields(o) = 1 .. Len(bases)
      /\ \A i \in 1 .. Len(bases) : i \in DOMAIN s /\ Fields(o)[i] = s[i]
  BY <1>3, <1>4, FinishedShape
<1>6. Y \subseteq Nested[k + 1][h]
  <2>1. Nested[k][h] \subseteq Nested[k + 1][h]
    BY <1>1, NestedMore
  <2>2. \A i \in DOMAIN s : s[i] \in Nested[k][h]
    BY <1>1, <1>3 DEF Planted
  <2>3. self \in Nested[k + 1][h]
    BY <1>1, <1>3, <1>5, <2>2, NestedNext
  <2> QED
    BY <1>1, <2>1, <2>3
<1>7. \A i \in DOMAIN s : i \in 1 .. Len(s) /\ Len(s) \in Nat
  <2>1. s \in Seq(Nat)
    BY <1>3 DEF Objects
  <2> HIDE DEF s
  <2> QED
    BY <2>1
<1>8. \A i \in 1 .. Len(bases) : i \in 1 .. Len(s) /\ MakerOf(i, bases, by) = by
  <2>1. Len(bases) \in Nat
    OBVIOUS
  <2> QED
    BY <1>5, <1>7, <2>1 DEF MakerOf
<1>9. Credited(h, Y, self, by)
  <2>1. FieldsCredited(h, self)
    <3>1. \A i \in 1 .. Len(s) : h[s[i]].by = MakerOf(i, bases, by)
      BY <1>1, <1>4 DEF Growing
    <3>2. \A i \in 1 .. Len(bases) : h[Fields(o)[i]].by = by
      BY <1>5, <1>8, <3>1
    <3> QED
      BY <1>1, <1>5, <3>2 DEF FieldsCredited
  <2>2. ASSUME NEW a \in Y \ {self}, h[a].by = "app"
        PROVE  /\ by = "app"
               /\ FieldsCredited(h, a)
               /\ \E b \in Y : AppField(h, b, a)
    <3>1. /\ by = "app"
          /\ FieldsCredited(h, a)
          /\ \/ \E b \in Y \ {self} : AppField(h, b, a)
             \/ \E j \in 1 .. Len(s) : j <= Len(bases) /\ s[j] = a
      BY <1>4, <1>1, <2>2 DEF Growing
    <3>2. ASSUME NEW j \in 1 .. Len(s), j <= Len(bases), s[j] = a
          PROVE  AppField(h, self, a)
      <4>1. j \in 1 .. Len(bases)
        BY <3>2
      <4> QED
        BY <1>1, <1>5, <3>1, <3>2, <4>1 DEF AppField
    <3> QED
      BY <1>3, <3>1, <3>2
  <2> QED
    BY <1>1, <1>3, <2>1, <2>2 DEF Credited
<1>10. Grown(m, n, k + 1, by)
  BY <1>1, <1>2, <1>6, <1>9 DEF Grown
<1>11. ASSUME NEW i \in 1 .. Len(bases), NEW q \in Nat
       PROVE  Value[q][h][Fields(o)[i]] = Value[q][m.heap][bases[i]]
  <2>1. Value[q][h][s[i]] = Value[q][m.heap][Copies(kind, bases)[i]]
    <3>1. i \in 1 .. Len(Copies(kind, bases))
      BY <1>1, <1>4, <1>8
    <3>2. \A j \in 1 .. Len(Copies(kind, bases)) : \A e \in Nat :
             Value[e][h][s[j]] = Value[e][m.heap][Copies(kind, bases)[j]]
      BY Zenon DEF Growing
    <3> QED
      BY <3>1, <3>2, Zenon
  <2>2. Copies(kind, bases)[i] = bases[i]
    <3> HIDE DEF Y, o, s, h
    <3> QED
      BY CopiesFirst
  <2> QED
    BY <1>5, <2>1, <2>2
<1> QED
  BY <1>1, <1>5, <1>10, <1>11 DEF Copied

\* A constructor makes one tree, from copies, and touches nothing else.
LEMMA NewWithGrows ==
    ASSUME NEW clone, NEW k \in Nat, Clones(clone, k), NEW m \in Memories,
           NEW kind \in AllKinds \cup {"primitive"}, NEW tight \in BOOLEAN,
           NEW bases \in Seq(Nat), Arity(kind, bases), NEW by \in Makers,
           \A j \in 1 .. Len(bases) : bases[j] \in Nested[k][m.heap]
    PROVE  LET n == NewWith(clone, m, kind, tight, bases, by)
           IN  Grown(m, n, k + 1, by) /\ Copied(m, n, kind, tight, bases)
<1> DEFINE self   == Unused(Live(m.heap))
           copies == Copies(kind, bases)
           begun  == [m EXCEPT !.heap = Put(@, self, Object(kind, tight, by))]
           pushes == [i \in DOMAIN copies |->
                        PushClone(clone, self, copies[i], MakerOf(i, bases, by))]
           x == Through(pushes, begun)
           J == [i \in 0 .. Len(copies) |->
                   {y \in Memories : Growing(m, y, self, kind, tight, bases, by, k, i)}]
<1>1. NewWith(clone, m, kind, tight, bases, by) = [x EXCEPT !.ret = self]
  BY DEF NewWith, Copies, MakerOf
<1>2. Growing(m, begun, self, kind, tight, bases, by, k, 0) /\ self \notin Live(m.heap)
  BY GrowingStarts
<1>3. begun \in Memories
  BY <1>2 DEF Growing
<1>4. copies \in Seq(Nat) /\ Len(copies) \in Nat /\ DOMAIN copies = 1 .. Len(copies)
  BY CopiesFacts
<1>5. Len(pushes) = Len(copies)
  BY <1>4
<1> HIDE DEF begun, self, copies
<1>6. ASSUME NEW i \in 1 .. Len(copies), NEW y \in J[i - 1]
      PROVE  pushes[i][y] \in J[i]
  <2> DEFINE maker == MakerOf(i, bases, by)
             base  == copies[i]
             c     == clone[base][maker][y]
             z     == [c EXCEPT !.heap[self].basetypes = Append(@, c.ret)]
  <2>1. /\ i - 1 \in Nat /\ (i - 1) + 1 = i /\ i - 1 \in 0 .. Len(copies)
        /\ i \in 0 .. Len(copies) /\ i \in DOMAIN copies
    BY <1>4
  <2>2. y \in Memories /\ Growing(m, y, self, kind, tight, bases, by, k, i - 1)
    BY <2>1
  <2>3. pushes[i][y] = z
    BY <2>1, <2>2 DEF PushClone
  <2>4. base \in Nested[k][m.heap]
    BY CopiesFacts DEF copies
  <2>5. /\ Nested[k][m.heap] \subseteq Nested[k][y.heap]
        /\ \A q \in Nat : Value[q][y.heap][base] = Value[q][m.heap][base]
    <3>1. Kept(m, y)
      BY <2>2 DEF Growing
    <3> QED
      BY <2>2, <2>4, <3>1, KeptNested
  <2>6. maker \in Makers /\ (maker = "app" => by = "app" /\ i <= Len(bases))
    <3>1. Len(bases) \in Nat
      OBVIOUS
    <3> QED
      BY <3>1 DEF MakerOf, Makers
  <2>7. /\ Grown(y, c, k, maker)
        /\ \A q \in Nat : Value[q][c.heap][c.ret] = Value[q][y.heap][base]
    BY <2>2, <2>4, <2>5, <2>6 DEF Clones
  <2> HIDE DEF c, maker, base
  <2>8. self \in Live(c.heap) /\ c \in Memories
    BY <2>2, <2>7 DEF Growing, Grown, Kept, Planted, Young
  <2>9. Pushed(c, z, self)
    BY <2>8, PushFacts
  <2> HIDE DEF z
  <2> DEFINE e == i - 1
  <2>10. /\ base = Copies(kind, bases)[e + 1] /\ maker = MakerOf(e + 1, bases, by)
         /\ maker = "app" => by = "app" /\ e + 1 <= Len(bases)
         /\ e \in Nat /\ Growing(m, y, self, kind, tight, bases, by, k, e)
    BY <2>1, <2>2, <2>6 DEF base, maker, copies
  <2> HIDE DEF e
  <2>11. Growing(m, z, self, kind, tight, bases, by, k, e + 1)
    <3> HIDE DEF J, x, pushes
    <3> QED
      BY <1>2, <2>5, <2>7, <2>9, <2>10, GrowingGoesOn, SMTT(60)
  <2>12. z \in Memories
    BY <2>9 DEF Pushed
  <2> QED
    BY <2>1, <2>3, <2>11, <2>12 DEF e
<1>7. x \in J[Len(pushes)]
  <2>1. begun \in J[0]
    BY <1>2, <1>3, <1>4
  <2> HIDE DEF J, pushes
  <2> QED
    BY <1>4, <1>5, <1>6, <2>1, ThroughInduction
<1>8. x \in Memories /\ Growing(m, x, self, kind, tight, bases, by, k, Len(copies))
  <2> HIDE DEF x, pushes
  <2> QED
    BY <1>4, <1>5, <1>7
<1>9. self \in Nat
  BY MemoryTyped, AddressFresh DEF self
<1> DEFINE n == [x EXCEPT !.ret = self]
<1> HIDE DEF x
<1>10. /\ n \in Memories /\ n.ret = self /\ n.heap = x.heap
       /\ n.functions = x.functions /\ n.arrays = x.arrays
       /\ n.dropped = x.dropped /\ n.fault = x.fault
  BY <1>8, <1>9 DEF Memories
<1> HIDE DEF n
<1>11. Grown(m, n, k + 1, by) /\ Copied(m, n, kind, tight, bases)
  BY <1>2, <1>8, <1>10, GrowingEnds DEF copies
<1> QED
  BY <1>1, <1>11 DEF n, x

LEMMA ShapedArity ==
    ASSUME NEW o \in Objects, Shaped(o)
    PROVE  Arity(o.kind, Fields(o))
<1>1. o.basetypes \in Seq(Nat)
  BY DEF Objects
<1>2. CASE o.kind = "primitive"
  BY <1>2 DEF Shaped, Arity, Fields
<1>3. CASE o.kind = "struct"
  <2>1. Len(o.basetypes) = 4 /\ 4 \div 2 = 2
    BY <1>3 DEF Shaped
  <2>2. Fields(o) = SubSeq(o.basetypes, 1, 2)
    BY <1>3, <2>1 DEF Fields
  <2>3. Len(SubSeq(o.basetypes, 1, 2)) = 2
    BY <1>1, <2>1
  <2> QED
    BY <1>3, <2>2, <2>3 DEF Arity
<1>4. CASE o.kind \notin {"primitive", "struct"}
  <2>1. Len(o.basetypes) = 1 /\ Fields(o) = o.basetypes
    BY <1>4 DEF Shaped, Fields
  <2> QED
    BY <1>4, <2>1 DEF Arity
<1> QED
  BY <1>2, <1>3, <1>4

\* What a live object of a whole tree is like.
LEMMA WholeObject ==
    ASSUME NEW h \in Heaps, NEW n \in Nat, NEW a \in Nested[n][h]
    PROVE  /\ n # 0 /\ n - 1 \in Nat
           /\ a \in Live(h) /\ a \in Nat /\ a \in DOMAIN h
           /\ h[a] \in Objects /\ h[a].kind \in AllKinds \cup {"primitive"}
           /\ h[a].tight \in BOOLEAN
           /\ Shaped(h[a]) /\ Arity(h[a].kind, Fields(h[a]))
           /\ Fields(h[a]) \in Seq(Nat)
           /\ DOMAIN Fields(h[a]) = 1 .. Len(Fields(h[a]))
           /\ \A i \in DOMAIN Fields(h[a]) : Fields(h[a])[i] \in Nested[n - 1][h]
<1>1. n > 0 /\ a \in Live(h) /\ Shaped(h[a])
      /\ \A i \in DOMAIN h[a].basetypes : h[a].basetypes[i] \in Nested[n - 1][h]
  BY NestedAt
<1>2. a \in Nat /\ a \in DOMAIN h /\ h[a] \in Objects /\ h[a].kind # "deleted"
  BY <1>1, HeapFacts DEF Live
<1>3. Fields(h[a]) \in Seq(Nat) /\ DOMAIN Fields(h[a]) = 1 .. Len(Fields(h[a]))
      /\ \A i \in DOMAIN Fields(h[a]) :
            i \in DOMAIN h[a].basetypes /\ Fields(h[a])[i] = h[a].basetypes[i]
  BY <1>2, FieldsFacts
<1>4. Arity(h[a].kind, Fields(h[a]))
  BY <1>1, <1>2, ShapedArity
<1>5. h[a].kind \in AllKinds \cup {"primitive"} /\ h[a].tight \in BOOLEAN
  BY <1>2 DEF Objects
<1> QED
  BY <1>1, <1>2, <1>3, <1>4, <1>5

\* A tree that was copied field by field has the value of the original.
LEMMA CopiedValue ==
    ASSUME NEW m \in Memories, NEW n \in Memories, NEW a \in Live(m.heap),
           n.ret \in Live(n.heap),
           Copied(m, n, m.heap[a].kind, m.heap[a].tight, Fields(m.heap[a])), NEW q \in Nat
    PROVE  Value[q][n.heap][n.ret] = Value[q][m.heap][a]
<1> DEFINE h == m.heap
           g == n.heap
           o == h[a]
           p == g[n.ret]
<1>1. h \in Heaps /\ g \in Heaps /\ n.ret \in Nat
  BY MemoryTyped
<1>2. a \in Nat /\ o \in Objects /\ p \in Objects
  BY <1>1, HeapFacts
<1>3. /\ p.kind = o.kind /\ p.tight = o.tight
      /\ Len(Fields(p)) = Len(Fields(o))
      /\ \A i \in 1 .. Len(Fields(o)) : \A e \in Nat :
            Value[e][g][Fields(p)[i]] = Value[e][h][Fields(o)[i]]
  BY DEF Copied
<1>4. DOMAIN Fields(o) = 1 .. Len(Fields(o)) /\ DOMAIN Fields(p) = 1 .. Len(Fields(p))
  BY <1>2, FieldsFacts
<1> HIDE DEF o, p
<1>5. CASE q = 0
  <2> DEFINE v == [kind |-> "deleted", tight |-> FALSE, fields |-> <<>>]
  <2>1. Value[0][g][n.ret] = v
    BY <1>1, ValueAt
  <2>2. Value[0][h][a] = v
    BY <1>1, <1>2, ValueAt
  <2> QED
    BY <1>5, <2>1, <2>2
<1>6. CASE q # 0
  <2>1. q - 1 \in Nat
    BY <1>6
  <2>2. Value[q][g][n.ret] =
           [kind |-> p.kind, tight |-> p.tight,
            fields |-> [i \in DOMAIN Fields(p) |-> Value[q - 1][g][Fields(p)[i]]]]
    BY <1>1, <1>6, ValueAt DEF p
  <2>3. Value[q][h][a] =
           [kind |-> o.kind, tight |-> o.tight,
            fields |-> [i \in DOMAIN Fields(o) |-> Value[q - 1][h][Fields(o)[i]]]]
    BY <1>1, <1>2, <1>6, ValueAt DEF o
  <2>4. \A i \in 1 .. Len(Fields(o)) :
           Value[q - 1][g][Fields(p)[i]] = Value[q - 1][h][Fields(o)[i]]
    BY <1>3, <2>1
  <2>5. [i \in DOMAIN Fields(p) |-> Value[q - 1][g][Fields(p)[i]]]
           = [i \in DOMAIN Fields(o) |-> Value[q - 1][h][Fields(o)[i]]]
    BY <1>3, <1>4, <2>4
  <2> QED
    BY <1>3, <2>2, <2>3, <2>5
<1> QED
  BY <1>5, <1>6

\* clone() with n levels left copies trees of at most n levels.
LEMMA CloneClones ==
    ASSUME NEW n \in Nat, NEW k \in 0 .. n
    PROVE  Clones(Clone[n], k)
<1> DEFINE S == {j \in Nat : \A i \in 0 .. j : Clones(Clone[j], i)}
<1>0. ASSUME NEW j \in Nat
      PROVE  Clones(Clone[j], 0)
  <2>1. \A m \in Memories : Nested[0][m.heap] = {}
    BY MemoryTyped, NestedAt
  <2> QED
    BY <2>1 DEF Clones
<1>1. 0 \in S
  BY <1>0
<1>2. ASSUME NEW j \in Nat, j \in S
      PROVE  j + 1 \in S
  <2> SUFFICES ASSUME NEW i \in 0 .. j
               PROVE  Clones(Clone[j + 1], i + 1)
    <3>1. \A p \in 0 .. j + 1 : p = 0 \/ (p - 1 \in 0 .. j /\ (p - 1) + 1 = p)
      OBVIOUS
    <3>2. \A p \in 0 .. j + 1 : Clones(Clone[j + 1], p)
      BY <1>0, <3>1
    <3> QED
      BY <3>2
  <2> SUFFICES ASSUME NEW m \in Memories, NEW by \in Makers, NEW a \in Nested[i + 1][m.heap]
               PROVE  LET y == Clone[j + 1][a][by][m]
                      IN  /\ Grown(m, y, i + 1, by)
                          /\ \A q \in Nat : Value[q][y.heap][y.ret] = Value[q][m.heap][a]
    BY DEF Clones
  <2> DEFINE o == m.heap[a]
             y == NewWith(Clone[j], m, o.kind, o.tight, Fields(o), by)
  <2>1. m.heap \in Heaps /\ i + 1 \in Nat /\ i \in Nat /\ (i + 1) - 1 = i
    BY MemoryTyped
  <2>2. /\ a \in Live(m.heap) /\ a \in Nat
        /\ o.kind \in AllKinds \cup {"primitive"} /\ o.tight \in BOOLEAN
        /\ Arity(o.kind, Fields(o)) /\ Fields(o) \in Seq(Nat)
        /\ \A p \in 1 .. Len(Fields(o)) : Fields(o)[p] \in Nested[i][m.heap]
    <3>1. /\ a \in Live(m.heap) /\ a \in Nat
          /\ o.kind \in AllKinds \cup {"primitive"} /\ o.tight \in BOOLEAN
          /\ Arity(o.kind, Fields(o)) /\ Fields(o) \in Seq(Nat)
      BY <2>1, WholeObject
    <3>2. /\ DOMAIN Fields(o) = 1 .. Len(Fields(o))
          /\ \A p \in DOMAIN Fields(o) : Fields(o)[p] \in Nested[(i + 1) - 1][m.heap]
      BY <2>1, WholeObject
    <3> HIDE DEF o
    <3> QED
      BY <2>1, <3>1, <3>2
  <2>3. Clone[j + 1][a][by][m] = y
    <3>1. Clone[j + 1] = CloneOf(Clone, j + 1)
      BY CloneUnfold
    <3>2. (j + 1) - 1 = j /\ j + 1 # 0
      OBVIOUS
    <3> QED
      BY <2>2, <3>1, <3>2 DEF CloneOf
  <2>4. Clones(Clone[j], i)
    BY <1>2
  <2> HIDE DEF o
  <2>5. Grown(m, y, i + 1, by) /\ Copied(m, y, o.kind, o.tight, Fields(o))
    BY <2>1, <2>2, <2>4, NewWithGrows
  <2> HIDE DEF y
  <2>6. y \in Memories /\ y.ret \in Live(y.heap)
    BY <2>5 DEF Grown, Planted, Young
  <2>7. \A q \in Nat : Value[q][y.heap][y.ret] = Value[q][m.heap][a]
    BY <2>2, <2>5, <2>6, CopiedValue DEF o
  <2> QED
    BY <2>3, <2>5, <2>7
<1>3. Nat \subseteq S
  <2> HIDE DEF S
  <2> QED
    BY <1>1, <1>2, NatInduct
<1> QED
  BY <1>3

\* A constructor called on trees that nest k < MaxTypes deep.
LEMMA NewGrows ==
    ASSUME NEW m \in Memories,
           NEW kind \in AllKinds \cup {"primitive"}, NEW tight \in BOOLEAN,
           NEW bases \in Seq(Nat), Arity(kind, bases), NEW by \in Makers,
           NEW k \in 0 .. MaxTypes,
           \A j \in 1 .. Len(bases) : bases[j] \in Nested[k][m.heap]
    PROVE  /\ Grown(m, New(m, kind, tight, bases, by), k + 1, by)
           /\ Copied(m, New(m, kind, tight, bases, by), kind, tight, bases)
<1>1. MaxTypes \in Nat /\ k \in Nat
  BY BoundsAssumption
<1>2. Clones(Clone[MaxTypes], k)
  BY <1>1, CloneClones
<1> QED
  BY <1>1, <1>2, NewWithGrows DEF New

-----------------------------------------------------------------------------
(* Destructors.                                                            *)

\* X holds the fields of its objects.
FieldClosed(h, X) == \A a \in X : \A i \in DOMAIN Fields(h[a]) : Fields(h[a])[i] \in X

\* a and what its destructor reaches: the least such set that holds a.
Below(h, a) ==
    {b \in Live(h) : \A X \in SUBSET Live(h) : a \in X /\ FieldClosed(h, X) => b \in X}

\* A whole forest: every tree is at most k levels deep and owns its objects.
Forest(h, X, k) ==
    /\ X \in SUBSET Nested[k][h]
    /\ Closed(h, X)
    /\ OnePlace(h, X)

LEMMA ClosedFields ==
    ASSUME NEW h \in Heaps, NEW X \in SUBSET Live(h), Closed(h, X)
    PROVE  FieldClosed(h, X)
<1> SUFFICES ASSUME NEW a \in X, NEW i \in DOMAIN Fields(h[a])
             PROVE  Fields(h[a])[i] \in X
  BY DEF FieldClosed
<1>1. h[a] \in Objects
  BY HeapFacts
<1>2. i \in DOMAIN h[a].basetypes /\ Fields(h[a])[i] = h[a].basetypes[i]
  BY <1>1, FieldsFacts
<1> QED
  BY <1>2 DEF Closed

LEMMA BelowLeast ==
    ASSUME NEW h, NEW a, NEW X \in SUBSET Live(h), a \in X, FieldClosed(h, X)
    PROVE  Below(h, a) \subseteq X /\ a \in Below(h, a)
  BY DEF Below

LEMMA BelowClosed ==
    ASSUME NEW h, NEW a, NEW X \in SUBSET Live(h), a \in X, FieldClosed(h, X)
    PROVE  FieldClosed(h, Below(h, a))
<1> SUFFICES ASSUME NEW b \in Below(h, a), NEW i \in DOMAIN Fields(h[b])
             PROVE  Fields(h[b])[i] \in Below(h, a)
  BY DEF FieldClosed
<1>1. \A Z \in SUBSET Live(h) : a \in Z /\ FieldClosed(h, Z) => Fields(h[b])[i] \in Z
  BY DEF Below, FieldClosed
<1>2. Fields(h[b])[i] \in Live(h)
  BY <1>1
<1> QED
  BY <1>1, <1>2 DEF Below

\* Every object below a but a itself is a field of one.
LEMMA BelowEdges ==
    ASSUME NEW h, NEW a, NEW X \in SUBSET Live(h), a \in X, FieldClosed(h, X),
           NEW b \in Below(h, a), b # a
    PROVE  \E c \in Below(h, a) : \E i \in DOMAIN Fields(h[c]) : Fields(h[c])[i] = b
<1> SUFFICES ASSUME \A c \in Below(h, a) : \A i \in DOMAIN Fields(h[c]) : Fields(h[c])[i] # b
             PROVE  FALSE
  OBVIOUS
<1> DEFINE Z == Below(h, a) \ {b}
<1>1. Z \in SUBSET Live(h)
  BY DEF Below
<1>2. a \in Z
  BY BelowLeast
<1>3. FieldClosed(h, Z)
  BY BelowClosed DEF FieldClosed
<1>4. Below(h, a) \subseteq Z
  BY <1>1, <1>2, <1>3, BelowLeast
<1> QED
  BY <1>4

LEMMA NestedFields ==
    ASSUME NEW h \in Heaps, NEW n \in Nat
    PROVE  Nested[n][h] \in SUBSET Live(h) /\ FieldClosed(h, Nested[n][h])
  BY NestedAt, NestedClosed, ClosedFields

LEMMA BelowNested ==
    ASSUME NEW h \in Heaps, NEW n \in Nat, NEW a \in Nested[n][h]
    PROVE  /\ Below(h, a) \subseteq Nested[n][h] /\ a \in Below(h, a)
           /\ FieldClosed(h, Below(h, a)) /\ Below(h, a) \subseteq Live(h)
  BY NestedFields, BelowLeast, BelowClosed DEF Below

\* Nothing is below its own fields.
LEMMA NotBelowField ==
    ASSUME NEW h \in Heaps, NEW n \in Nat
    PROVE  \A a \in Nested[n][h] : \A i \in DOMAIN Fields(h[a]) : a \notin Below(h, Fields(h[a])[i])
<1> DEFINE S == {k \in Nat : \A a \in Nested[k][h] : \A i \in DOMAIN Fields(h[a]) :
                                a \notin Below(h, Fields(h[a])[i])}
<1>1. 0 \in S
  BY NestedAt
<1>2. ASSUME NEW k \in Nat, k \in S
      PROVE  k + 1 \in S
  <2> SUFFICES ASSUME NEW a \in Nested[k + 1][h], NEW i \in DOMAIN Fields(h[a]),
                      a \in Below(h, Fields(h[a])[i])
               PROVE  FALSE
    OBVIOUS
  <2>1. (k + 1) - 1 = k /\ k + 1 \in Nat
    OBVIOUS
  <2>2. Fields(h[a])[i] \in Nested[(k + 1) - 1][h]
    BY <2>1, WholeObject
  <2>3. Below(h, Fields(h[a])[i]) \subseteq Nested[k][h]
    BY <2>1, <2>2, BelowNested
  <2> QED
    BY <1>2, <2>3
<1>3. Nat \subseteq S
  <2> HIDE DEF S
  <2> QED
    BY <1>1, <1>2, NatInduct
<1> QED
  BY <1>3

\* What is below a is a and what is below its fields.
LEMMA BelowFields ==
    ASSUME NEW h \in Heaps, NEW n \in Nat, NEW a \in Nested[n][h]
    PROVE  /\ Below(h, a) \ {a} =
                 UNION {Below(h, Fields(h[a])[i]) : i \in DOMAIN Fields(h[a])}
           /\ \A i \in DOMAIN Fields(h[a]) :
                 Fields(h[a])[i] \in Nested[n - 1][h] /\ Fields(h[a])[i] \in Below(h, a)
<1> DEFINE F == Fields(h[a])
           U == UNION {Below(h, F[i]) : i \in DOMAIN F}
<1>1. n - 1 \in Nat /\ \A i \in DOMAIN F : F[i] \in Nested[n - 1][h]
  BY WholeObject
<1>2. \A i \in DOMAIN F : /\ F[i] \in Below(h, F[i]) /\ FieldClosed(h, Below(h, F[i]))
                          /\ Below(h, F[i]) \subseteq Live(h)
  BY <1>1, BelowNested
<1>3. /\ a \in Below(h, a) /\ FieldClosed(h, Below(h, a)) /\ Below(h, a) \in SUBSET Live(h)
      /\ a \in Live(h)
  BY BelowNested, NestedAt
<1>4. \A i \in DOMAIN F : F[i] \in Below(h, a)
  BY <1>3 DEF FieldClosed
<1>5. \A i \in DOMAIN F : Below(h, F[i]) \subseteq Below(h, a)
  <2> SUFFICES ASSUME NEW i \in DOMAIN F
               PROVE  Below(h, F[i]) \subseteq Below(h, a)
    OBVIOUS
  <2>1. F[i] \in Below(h, a)
    BY <1>4
  <2> HIDE DEF F
  <2> QED
    BY <1>3, <2>1, BelowLeast
<1>6. U \subseteq Below(h, a) \ {a}
  BY <1>5, NotBelowField
<1>7. Below(h, a) \subseteq U \cup {a}
  <2> DEFINE Z == U \cup {a}
  <2>1. Z \in SUBSET Live(h)
    BY <1>2, <1>3
  <2>2. FieldClosed(h, Z)
    BY <1>2 DEF FieldClosed
  <2> HIDE DEF Z
  <2>3. a \in Z
    BY DEF Z
  <2>4. Below(h, a) \subseteq Z
    BY <2>1, <2>2, <2>3, BelowLeast
  <2> QED
    BY <2>4 DEF Z
<1> QED
  BY <1>1, <1>4, <1>6, <1>7

LEMMA ForestBelow ==
    ASSUME NEW h \in Heaps, NEW k \in Nat, NEW X, Forest(h, X, k), NEW a \in X
    PROVE  /\ Below(h, a) \subseteq X
           /\ \A i \in DOMAIN Fields(h[a]) : Fields(h[a])[i] \in X
<1>1. X \in SUBSET Live(h)
  BY NestedAt DEF Forest
<1>2. FieldClosed(h, X)
  BY <1>1, ClosedFields DEF Forest
<1> QED
  BY <1>1, <1>2, BelowLeast DEF FieldClosed

\* The fields of an object share nothing.
LEMMA FieldsApart ==
    ASSUME NEW h \in Heaps, NEW k \in Nat, NEW X, Forest(h, X, k), NEW a \in X,
           NEW i \in DOMAIN Fields(h[a]), NEW j \in DOMAIN Fields(h[a]), i # j
    PROVE  Below(h, Fields(h[a])[i]) \cap Below(h, Fields(h[a])[j]) = {}
<1> DEFINE f == Fields(h[a])[i]
           g == Fields(h[a])[j]
           Z == Below(h, g) \ Below(h, f)
<1>1. f \in X /\ g \in X /\ Below(h, f) \subseteq X /\ Below(h, g) \subseteq X
  BY ForestBelow
<1>2. X \in SUBSET Live(h) /\ X \subseteq Nested[k][h]
  BY NestedAt DEF Forest
<1>3. \A b \in X : h[b] \in Objects
  BY <1>2, HeapFacts
<1>4. \A b, c \in X : \A p \in DOMAIN Fields(h[b]), q \in DOMAIN Fields(h[c]) :
         Fields(h[b])[p] = Fields(h[c])[q] => b = c /\ p = q
  <2> SUFFICES ASSUME NEW b \in X, NEW c \in X, NEW p \in DOMAIN Fields(h[b]),
                      NEW q \in DOMAIN Fields(h[c]), Fields(h[b])[p] = Fields(h[c])[q]
               PROVE  b = c /\ p = q
    OBVIOUS
  <2>1. p \in DOMAIN h[b].basetypes /\ Fields(h[b])[p] = h[b].basetypes[p]
    BY <1>3, FieldsFacts
  <2>2. q \in DOMAIN h[c].basetypes /\ Fields(h[c])[q] = h[c].basetypes[q]
    BY <1>3, FieldsFacts
  <2>3. h[b].basetypes[p] = h[c].basetypes[q]
    BY <2>1, <2>2
  <2>4. OnePlace(h, X)
    BY DEF Forest
  <2> QED
    BY <2>1, <2>2, <2>3, <2>4 DEF OnePlace
<1>5. FieldClosed(h, X)
  BY <1>2, ClosedFields DEF Forest
<1>6. a \notin Below(h, f) /\ a \notin Below(h, g)
  BY <1>2, NotBelowField
<1> HIDE DEF f, g
<1>7. \A b \in Below(h, f) : b = f \/ \E c \in Below(h, f) : \E p \in DOMAIN Fields(h[c]) :
                                          Fields(h[c])[p] = b
  BY <1>1, <1>2, <1>5, BelowEdges
<1>8. g \notin Below(h, f)
  <2> SUFFICES ASSUME g \in Below(h, f)
               PROVE  FALSE
    OBVIOUS
  <2>1. g # f
    BY <1>4 DEF f, g
  <2>2. PICK c \in Below(h, f) : \E p \in DOMAIN Fields(h[c]) : Fields(h[c])[p] = g
    BY <1>7, <2>1
  <2>3. c = a
    BY <1>1, <1>4, <2>2 DEF g
  <2> QED
    BY <1>6, <2>3
<1>9. FieldClosed(h, Z)
  <2> SUFFICES ASSUME NEW x \in Z, NEW p \in DOMAIN Fields(h[x]),
                      Fields(h[x])[p] \notin Z
               PROVE  FALSE
    BY DEF FieldClosed
  <2> DEFINE y == Fields(h[x])[p]
  <2>1. FieldClosed(h, Below(h, g))
    BY <1>1, <1>2, <1>5, BelowClosed
  <2>2. y \in Below(h, f) /\ x \in X
    BY <1>1, <2>1 DEF FieldClosed
  <2>3. CASE y = f
    <3>1. x = a
      BY <1>4, <2>2, <2>3 DEF f
    <3> QED
      BY <1>6, <3>1
  <2>4. CASE y # f
    <3>1. PICK c \in Below(h, f) : \E q \in DOMAIN Fields(h[c]) : Fields(h[c])[q] = y
      BY <1>7, <2>2, <2>4
    <3>2. c = x
      BY <1>1, <1>4, <2>2, <3>1
    <3> QED
      BY <3>1, <3>2
  <2> QED
    BY <2>3, <2>4
<1>10. Below(h, g) \subseteq Z
  <2>1. g \in Z /\ Z \in SUBSET Live(h)
    BY <1>1, <1>2, <1>8, <1>5, BelowLeast
  <2> QED
    BY <1>9, <2>1, BelowLeast
<1> QED
  BY <1>10 DEF f, g

\* Memory m without the objects of S.
Erased(m, S) ==
    [m EXCEPT !.heap = [x \in DOMAIN m.heap |->
                           IF x \in S THEN Object("deleted", FALSE, "library") ELSE m.heap[x]]]

IsErased(m, e, S) ==
    /\ e \in Memories
    /\ DOMAIN e.heap = DOMAIN m.heap
    /\ \A x \in DOMAIN m.heap :
          e.heap[x] = IF x \in S THEN Object("deleted", FALSE, "library") ELSE m.heap[x]
    /\ Live(e.heap) = Live(m.heap) \ S
    /\ e.functions = m.functions /\ e.arrays = m.arrays
    /\ e.dropped = m.dropped /\ e.fault = m.fault /\ e.ret = m.ret

LEMMA ErasedFacts ==
    ASSUME NEW m \in Memories, NEW S
    PROVE  IsErased(m, Erased(m, S), S)
<1> DEFINE d == Object("deleted", FALSE, "library")
           g == [x \in DOMAIN m.heap |-> IF x \in S THEN d ELSE m.heap[x]]
           e == Erased(m, S)
<1>1. d \in Objects /\ d.kind = "deleted"
  BY ObjectTyped DEF Makers
<1>2. m.heap \in Heaps
  BY MemoryTyped
<1>3. /\ DOMAIN m.heap = 1 .. Len(m.heap) /\ Len(m.heap) \in Nat
      /\ \A x \in DOMAIN m.heap : m.heap[x] \in Objects
  BY <1>2, HeapFacts
<1> HIDE DEF d
<1>4. g \in [1 .. Len(m.heap) -> Objects]
  BY <1>1, <1>3
<1>5. g \in Heaps
  BY <1>3, <1>4 DEF Heaps
<1>6. Live(g) = Live(m.heap) \ S
  BY <1>1, <1>3 DEF Live
<1>7. e = [m EXCEPT !.heap = g]
  BY DEF Erased, d
<1>8. DOMAIN g = DOMAIN m.heap /\ \A x \in DOMAIN m.heap :
         g[x] = IF x \in S THEN d ELSE m.heap[x]
  OBVIOUS
<1> HIDE DEF g, e
<1>9. /\ e \in Memories /\ e.heap = g
      /\ e.functions = m.functions /\ e.arrays = m.arrays
      /\ e.dropped = m.dropped /\ e.fault = m.fault /\ e.ret = m.ret
  BY <1>5, <1>7 DEF Memories
<1> QED
  BY <1>6, <1>8, <1>9 DEF e, d, IsErased

\* Two memories are the same if their parts are.
LEMMA SameMemory ==
    ASSUME NEW m \in Memories, NEW n \in Memories,
           DOMAIN m.heap = DOMAIN n.heap, \A x \in DOMAIN m.heap : m.heap[x] = n.heap[x],
           m.functions = n.functions, m.arrays = n.arrays, m.dropped = n.dropped,
           m.fault = n.fault, m.ret = n.ret
    PROVE  m = n
<1>1. m.heap = n.heap
  <2>1. m.heap \in Seq(Objects) /\ n.heap \in Seq(Objects)
    BY MemoryTyped DEF Heaps
  <2>2. m.heap = [x \in DOMAIN m.heap |-> m.heap[x]] /\ n.heap = [x \in DOMAIN n.heap |-> n.heap[x]]
    BY <2>1
  <2> QED
    BY <2>2
<1> QED
  BY <1>1, MemoryTyped

LEMMA ErasedUnique ==
    ASSUME NEW m \in Memories, NEW S, NEW e, IsErased(m, e, S)
    PROVE  e = Erased(m, S)
<1> DEFINE f == Erased(m, S)
<1>1. IsErased(m, f, S)
  BY ErasedFacts
<1> HIDE DEF f
<1>2. f \in Memories /\ e \in Memories
  BY <1>1 DEF IsErased
<1>3. DOMAIN e.heap = DOMAIN f.heap /\ \A x \in DOMAIN e.heap : e.heap[x] = f.heap[x]
  BY <1>1 DEF IsErased
<1>4. /\ e.functions = f.functions /\ e.arrays = f.arrays /\ e.dropped = f.dropped
      /\ e.fault = f.fault /\ e.ret = f.ret
  BY <1>1 DEF IsErased
<1>5. e = f
  BY <1>2, <1>3, <1>4, SameMemory
<1> QED
  BY <1>5 DEF f

LEMMA ErasedNothing ==
    ASSUME NEW m \in Memories
    PROVE  Erased(m, {}) = m
<1>1. IsErased(m, m, {})
  BY DEF IsErased
<1> QED
  BY <1>1, ErasedUnique

\* ~Datatype of an object for which nothing was compiled.
LEMMA FreedBare ==
    ASSUME NEW m \in Memories, NEW a \in DOMAIN m.heap, Bare(m.heap[a])
    PROVE  Freed(m, a) = Erased(m, {a})
<1> DEFINE f == Freed(m, a)
           d == Object("deleted", FALSE, "library")
           g == [m.heap EXCEPT ![a] = d]
<1>1. Code(m.heap[a]) = {}
  BY DEF Code, Bare
<1>2. d \in Objects
  BY ObjectTyped DEF Makers
<1>3. m.heap \in Heaps /\ m.fault \in BOOLEAN
  BY MemoryTyped
<1>4. f = [m EXCEPT !.heap = g]
  <2>1. {x \in m.functions : x.name \notin {}} = m.functions
    OBVIOUS
  <2>2. (m.fault \/ ~({} \subseteq Names(m.functions))) = m.fault
    BY <1>3
  <2>3. f = [m EXCEPT !.heap = g, !.functions = {x \in @ : x.name \notin {}},
                      !.fault = @ \/ ~({} \subseteq Names(m.functions))]
    BY <1>1 DEF Freed
  <2>4. f = [m EXCEPT !.heap = g, !.functions = m.functions, !.fault = m.fault]
    BY <2>1, <2>2, <2>3
  <2> HIDE DEF f, g
  <2> QED
    BY <2>4 DEF Memories
<1>5. /\ g \in Heaps /\ DOMAIN g = DOMAIN m.heap
      /\ \A x \in DOMAIN m.heap : g[x] = IF x = a THEN d ELSE m.heap[x]
      /\ Live(g) = Live(m.heap) \ {a}
  <2>1. d.kind = "deleted"
    BY ObjectTyped DEF Makers
  <2> HIDE DEF d
  <2> QED
    BY <1>2, <1>3, <2>1, ChangeFacts, ZenonT(60)
<1> HIDE DEF f, g
<1>6. /\ f \in Memories /\ f.heap = g
      /\ f.functions = m.functions /\ f.arrays = m.arrays
      /\ f.dropped = m.dropped /\ f.fault = m.fault /\ f.ret = m.ret
  BY <1>4, <1>5 DEF Memories
<1>7. IsErased(m, f, {a})
  BY <1>5, <1>6 DEF IsErased
<1> QED
  BY <1>7, ErasedUnique DEF f

LEMMA ErasedTwice ==
    ASSUME NEW m \in Memories, NEW S, NEW T
    PROVE  Erased(Erased(m, S), T) = Erased(m, S \cup T)
<1> DEFINE e == Erased(m, S)
           f == Erased(e, T)
<1>1. IsErased(m, e, S)
  BY ErasedFacts
<1> HIDE DEF e
<1>2. IsErased(e, f, T)
  BY <1>1, ErasedFacts DEF IsErased
<1> HIDE DEF f
<1>3. IsErased(m, f, S \cup T)
  BY <1>1, <1>2 DEF IsErased
<1> QED
  BY <1>3, ErasedUnique DEF e, f

\* delete, called on a bare tree of X at most k levels deep, erases it.
Deletes(delete, m, X, k) ==
    \A S : \A a \in X \cap Nested[k][m.heap] :
        /\ Below(m.heap, a) \cap S = {}
        /\ \A b \in Below(m.heap, a) : Bare(m.heap[b])
        => delete[a][Erased(m, S)] = Erased(m, S \cup Below(m.heap, a))

\* The fields of a are deleted one after the other.
LEMMA FieldsDeleted ==
    ASSUME NEW m \in Memories, NEW k \in Nat, NEW X, Forest(m.heap, X, k),
           NEW n \in Nat, NEW delete, Deletes(delete, m, X, n),
           NEW a \in X \cap Nested[n + 1][m.heap],
           NEW S, Below(m.heap, a) \cap S = {},
           \A b \in Below(m.heap, a) \ {a} : Bare(m.heap[b])
    PROVE  LET F == Fields(m.heap[a])
           IN  Through([i \in DOMAIN F |-> delete[F[i]]], Erased(m, S))
                  = Erased(m, S \cup (Below(m.heap, a) \ {a}))
<1> DEFINE h == m.heap
           F == Fields(h[a])
           calls == [i \in DOMAIN F |-> delete[F[i]]]
           Done(i) == UNION {Below(h, F[j]) : j \in 1 .. i}
           J == [i \in 0 .. Len(F) |-> {Erased(m, S \cup Done(i))}]
<1>1. h \in Heaps /\ n + 1 \in Nat /\ (n + 1) - 1 = n /\ a \in Nested[n + 1][h] /\ a \in X
  BY MemoryTyped
<1>2. DOMAIN F = 1 .. Len(F) /\ F \in Seq(Nat)
  BY <1>1, WholeObject
<1>3. /\ Below(h, a) \ {a} = UNION {Below(h, F[i]) : i \in DOMAIN F}
      /\ \A i \in DOMAIN F : F[i] \in Nested[(n + 1) - 1][h]
  BY <1>1, BelowFields
<1>4. \A i \in DOMAIN F : F[i] \in X
  BY <1>1, ForestBelow
<1>5. \A i, j \in DOMAIN F : i # j => Below(h, F[i]) \cap Below(h, F[j]) = {}
  <2> HIDE DEF F
  <2> SUFFICES ASSUME NEW i \in DOMAIN F, NEW j \in DOMAIN F, i # j
               PROVE  Below(h, F[i]) \cap Below(h, F[j]) = {}
    OBVIOUS
  <2> QED
    BY <1>1, FieldsApart DEF F
<1>6. Len(F) \in Nat /\ Len(calls) = Len(F)
  BY <1>2
<1>7. ASSUME NEW i \in 1 .. Len(F)
      PROVE  delete[F[i]][Erased(m, S \cup Done(i - 1))] = Erased(m, S \cup Done(i))
  <2> DEFINE f == F[i]
             T == S \cup Done(i - 1)
  <2>1. i \in DOMAIN F /\ f \in X \cap Nested[n][h]
    BY <1>1, <1>2, <1>3, <1>4
  <2>2. \A j \in 1 .. i - 1 : j \in DOMAIN F /\ j # i
    BY <1>2, <1>6
  <2>3. Below(h, f) \cap Done(i - 1) = {}
    <3> SUFFICES ASSUME NEW x \in Below(h, f), NEW j \in 1 .. i - 1, x \in Below(h, F[j])
                 PROVE  FALSE
      OBVIOUS
    <3> HIDE DEF F
    <3> QED
      BY <1>5, <2>1, <2>2
  <2>4. Below(h, f) \subseteq Below(h, a) \ {a}
    BY <1>3, <2>1
  <2>5. Below(h, f) \cap T = {} /\ \A b \in Below(h, f) : Bare(h[b])
    BY <2>3, <2>4
  <2>6. delete[f][Erased(m, T)] = Erased(m, T \cup Below(h, f))
    <3> HIDE DEF f, T
    <3> QED
      BY <2>1, <2>5 DEF Deletes
  <2>7. T \cup Below(h, f) = S \cup Done(i)
    <3>1. \A j : j \in 1 .. i <=> j \in 1 .. i - 1 \/ j = i
      BY <1>6
    <3>2. Done(i) = Done(i - 1) \cup Below(h, f)
      BY <3>1
    <3> HIDE DEF f, Done
    <3> QED
      BY <3>2
  <2> QED
    BY <2>6, <2>7
<1>8. Erased(m, S) \in J[0]
  <2>1. Done(0) = {} /\ 0 \in 0 .. Len(F)
    BY <1>6
  <2>2. S \cup Done(0) = S
    BY <2>1
  <2> QED
    BY <2>1, <2>2
<1>9. \A i \in 1 .. Len(calls) : \A x \in J[i - 1] : calls[i][x] \in J[i]
  <2> SUFFICES ASSUME NEW i \in 1 .. Len(F), NEW x \in J[i - 1]
               PROVE  calls[i][x] \in J[i]
    BY <1>6
  <2>1. i \in DOMAIN F /\ i - 1 \in 0 .. Len(F) /\ i \in 0 .. Len(F)
    BY <1>2, <1>6
  <2> HIDE DEF F, Done
  <2> QED
    BY <1>7, <2>1
<1>10. Through(calls, Erased(m, S)) \in J[Len(calls)]
  <2> HIDE DEF J, calls
  <2> QED
    BY <1>6, <1>8, <1>9, ThroughInduction
<1>11. Done(Len(F)) = Below(h, a) \ {a} /\ Len(F) \in 0 .. Len(F)
  BY <1>2, <1>3, <1>6
<1> HIDE DEF Done, calls, F
<1>12. Through(calls, Erased(m, S)) = Erased(m, S \cup Done(Len(F)))
  BY <1>6, <1>10, <1>11
<1> QED
  BY <1>11, <1>12 DEF calls, F

LEMMA DestroyAt ==
    ASSUME NEW n \in Nat, NEW m \in Memories, NEW a \in Live(m.heap)
    PROVE  LET F == Fields(m.heap[a])
           IN  Destroy[n + 1][a][m] = Freed(Through([i \in DOMAIN F |-> Destroy[n][F[i]]], m), a)
<1>1. a \in Nat
  BY MemoryTyped, HeapFacts
<1>2. Destroy[n + 1] = DeleteOf(Destroy, n + 1)
  BY DestroyUnfold
<1>3. n + 1 # 0 /\ (n + 1) - 1 = n
  OBVIOUS
<1> QED
  BY <1>1, <1>2, <1>3 DEF DeleteOf

\* A destructor with n levels left deletes the trees of at most n levels.
LEMMA DestroyDeletes ==
    ASSUME NEW m \in Memories, NEW k \in Nat, NEW X, Forest(m.heap, X, k), NEW n \in Nat
    PROVE  Deletes(Destroy[n], m, X, n)
<1> DEFINE G == {j \in Nat : Deletes(Destroy[j], m, X, j)}
<1>0. m.heap \in Heaps
  BY MemoryTyped
<1>1. 0 \in G
  <2>1. Nested[0][m.heap] = {}
    BY <1>0, NestedAt
  <2> QED
    BY <2>1 DEF Deletes
<1>2. ASSUME NEW j \in Nat, j \in G
      PROVE  j + 1 \in G
  <2> SUFFICES ASSUME NEW S, NEW a \in X \cap Nested[j + 1][m.heap],
                      Below(m.heap, a) \cap S = {},
                      \A b \in Below(m.heap, a) : Bare(m.heap[b])
               PROVE  Destroy[j + 1][a][Erased(m, S)] = Erased(m, S \cup Below(m.heap, a))
    BY DEF Deletes
  <2> DEFINE h == m.heap
             e == Erased(m, S)
             F == Fields(h[a])
             B == Below(h, a)
             x == Erased(m, S \cup (B \ {a}))
  <2>1. j + 1 \in Nat
    OBVIOUS
  <2>2. a \in B /\ B \subseteq Live(h) /\ a \in Live(h) /\ a \in DOMAIN h /\ a \notin S
    <3>1. a \in B /\ B \subseteq Live(h)
      BY <1>0, <2>1, BelowNested
    <3> QED
      BY <3>1 DEF Live
  <2>3. IsErased(m, e, S)
    BY ErasedFacts
  <2>4. e \in Memories /\ a \in Live(e.heap) /\ e.heap[a] = h[a]
    BY <2>2, <2>3 DEF IsErased
  <2>5. Destroy[j + 1][a][e] = Freed(Through([i \in DOMAIN F |-> Destroy[j][F[i]]], e), a)
    <3> HIDE DEF e
    <3> QED
      BY <2>4, DestroyAt
  <2>6. Through([i \in DOMAIN F |-> Destroy[j][F[i]]], e) = x
    BY <1>2, FieldsDeleted
  <2>7. IsErased(m, x, S \cup (B \ {a}))
    BY ErasedFacts
  <2> HIDE DEF x
  <2>8. x \in Memories /\ a \in DOMAIN x.heap /\ Bare(x.heap[a])
    BY <2>2, <2>7 DEF IsErased
  <2>9. Freed(x, a) = Erased(x, {a})
    BY <2>8, FreedBare
  <2>10. Erased(x, {a}) = Erased(m, (S \cup (B \ {a})) \cup {a})
    BY ErasedTwice DEF x
  <2>11. (S \cup (B \ {a})) \cup {a} = S \cup B
    BY <2>2
  <2> QED
    BY <2>5, <2>6, <2>9, <2>10, <2>11
<1>3. Nat \subseteq G
  <2> HIDE DEF G
  <2> QED
    BY <1>1, <1>2, NatInduct
<1> QED
  BY <1>3

\* Deleting a tree erases it, and frees the code that was compiled for it.
LEMMA DeleteErases ==
    ASSUME NEW m \in Memories, NEW X, Forest(m.heap, X, MaxTypes), NEW a \in X,
           \A b \in Below(m.heap, a) \ {a} : Bare(m.heap[b])
    PROVE  /\ Delete(m, a) = Freed(Erased(m, Below(m.heap, a) \ {a}), a)
           /\ Bare(m.heap[a]) => Delete(m, a) = Erased(m, Below(m.heap, a))
<1> DEFINE h == m.heap
           F == Fields(h[a])
           n == MaxTypes - 1
           B == Below(h, a)
           x == Erased(m, B \ {a})
<1>1. MaxTypes \in Nat /\ h \in Heaps /\ a \in Nested[MaxTypes][h]
  BY BoundsAssumption, MemoryTyped DEF Forest
<1>2. n \in Nat /\ n + 1 = MaxTypes /\ a \in Live(h)
  BY <1>1, NestedAt
<1> HIDE DEF n
<1>3. Delete(m, a) = Freed(Through([i \in DOMAIN F |-> Destroy[n][F[i]]], m), a)
  BY <1>2, DestroyAt DEF Delete
<1>4. Deletes(Destroy[n], m, X, n) /\ a \in X \cap Nested[n + 1][h]
  BY <1>1, <1>2, DestroyDeletes
<1>5. B \cap {} = {} /\ {} \cup (B \ {a}) = B \ {a} /\ Erased(m, {}) = m
  BY ErasedNothing
<1>6. Through([i \in DOMAIN F |-> Destroy[n][F[i]]], Erased(m, {})) = Erased(m, {} \cup (B \ {a}))
  BY <1>1, <1>2, <1>4, <1>5, FieldsDeleted
<1>7. Delete(m, a) = Freed(x, a)
  BY <1>3, <1>5, <1>6
<1>8. ASSUME Bare(h[a])
      PROVE  Delete(m, a) = Erased(m, B)
  <2>1. IsErased(m, x, B \ {a})
    BY ErasedFacts
  <2>2. a \in DOMAIN h /\ a \in B
    BY <1>1, <1>2, BelowNested DEF Live
  <2> HIDE DEF x
  <2>3. x \in Memories /\ a \in DOMAIN x.heap /\ Bare(x.heap[a])
    BY <1>8, <2>1, <2>2 DEF IsErased
  <2>4. Freed(x, a) = Erased(x, {a})
    BY <2>3, FreedBare
  <2>5. Erased(x, {a}) = Erased(m, (B \ {a}) \cup {a})
    BY ErasedTwice DEF x
  <2>6. (B \ {a}) \cup {a} = B
    BY <2>2
  <2> QED
    BY <1>7, <2>4, <2>5, <2>6
<1> QED
  BY <1>7, <1>8

-----------------------------------------------------------------------------
(* compress()                                                              *)

\* n is m with trees only the library knows of; some of them may have no owner.
Litter(m, n) ==
    /\ n \in Memories
    /\ Kept(m, n)
    /\ \A a \in Young(m, n) : Bare(n.heap[a]) /\ n.heap[a].by = "library"
    /\ Forest(n.heap, Young(m, n), MaxTypes)

\* Nothing in Y has r for a basetype.
Root(h, Y, r) == r \in Y /\ \A a \in Y : \A i \in DOMAIN h[a].basetypes : h[a].basetypes[i] # r

\* n.ret is a new tree, at most k levels deep, that has no owner.
Pressed(m, n, k) ==
    /\ Litter(m, n)
    /\ Root(n.heap, Young(m, n), n.ret)
    /\ n.ret \in Nested[k][n.heap]

LEMMA NoLitter ==
    ASSUME NEW m \in Memories
    PROVE  Litter(m, m)
<1>1. Young(m, m) = {} /\ Kept(m, m)
  BY DEF Young, Kept
<1> QED
  BY <1>1 DEF Litter, Forest, Closed, OnePlace

LEMMA GrownLitter ==
    ASSUME NEW m \in Memories, NEW n, NEW k \in Nat, k <= MaxTypes, Grown(m, n, k, "library")
    PROVE  Pressed(m, n, k)
<1>1. MaxTypes \in Nat /\ n \in Memories /\ n.heap \in Heaps
  BY BoundsAssumption, MemoryTyped DEF Grown
<1>2. Nested[k][n.heap] \subseteq Nested[MaxTypes][n.heap]
  BY <1>1, NestedDeeper
<1>3. /\ Planted(n.heap, Young(m, n), n.ret) /\ Kept(m, n)
      /\ Young(m, n) \subseteq Nested[k][n.heap]
  BY DEF Grown
<1>4. \A a \in Young(m, n) : n.heap[a].by = "library"
  <2>1. \A a \in Young(m, n) : n.heap[a].by # "app"
    BY DEF Grown, Credited
  <2>2. \A a \in Young(m, n) : n.heap[a].by \in Makers
    BY <1>1, HeapFacts DEF Young, Objects
  <2> QED
    BY <2>1, <2>2 DEF Makers
<1>5. Forest(n.heap, Young(m, n), MaxTypes)
  BY <1>2, <1>3 DEF Forest, Planted, Closed
<1>6. Root(n.heap, Young(m, n), n.ret)
  BY <1>3 DEF Root, Planted
<1>7. n.ret \in Nested[k][n.heap]
  BY <1>3 DEF Planted
<1>8. \A a \in Young(m, n) : Bare(n.heap[a])
  BY <1>3 DEF Planted
<1> QED
  BY <1>1, <1>3, <1>4, <1>5, <1>6, <1>7, <1>8 DEF Pressed, Litter

LEMMA LitterThen ==
    ASSUME NEW m \in Memories, NEW x, Litter(m, x), NEW y, Litter(x, y)
    PROVE  /\ Litter(m, y)
           /\ Young(m, y) = Young(m, x) \cup Young(x, y)
           /\ \A r : Root(y.heap, Young(x, y), r) => Root(y.heap, Young(m, y), r)
           /\ \A r : Root(x.heap, Young(m, x), r) => Root(y.heap, Young(m, y), r)
<1> DEFINE h == x.heap
           g == y.heap
           A == Young(m, x)
           B == Young(x, y)
<1>1. x \in Memories /\ y \in Memories /\ h \in Heaps /\ g \in Heaps /\ MaxTypes \in Nat
  BY MemoryTyped, BoundsAssumption DEF Litter
<1>2. Kept(m, x) /\ Kept(x, y) /\ Forest(h, A, MaxTypes) /\ Forest(g, B, MaxTypes)
  BY DEF Litter
<1>3. Kept(m, y)
  BY <1>2 DEF Kept
<1>4. Young(m, y) = A \cup B /\ A \cap B = {} /\ A \subseteq Live(g) /\ A \subseteq Live(h)
  BY <1>2 DEF Kept, Young
<1>5. \A a \in A : g[a] = h[a]
  BY <1>2, <1>4 DEF Kept
<1>6. Closed(g, A) /\ Closed(g, B) /\ OnePlace(g, A) /\ OnePlace(g, B)
  BY <1>2, <1>5 DEF Forest, Closed, OnePlace
<1>7. Closed(g, A \cup B)
  BY <1>6 DEF Closed
<1>8. OnePlace(g, A \cup B)
  <2> SUFFICES ASSUME NEW a \in A \cup B, NEW b \in A \cup B,
                      NEW i \in DOMAIN g[a].basetypes, NEW j \in DOMAIN g[b].basetypes,
                      g[a].basetypes[i] = g[b].basetypes[j]
               PROVE  a = b /\ i = j
    BY DEF OnePlace
  <2>1. (a \in A /\ b \in A) \/ (a \in B /\ b \in B)
    BY <1>4, <1>6 DEF Closed
  <2> QED
    BY <1>6, <2>1 DEF OnePlace
<1>9. A \cup B \in SUBSET Nested[MaxTypes][g]
  <2>1. SameTrees(h, g, A) /\ A \in SUBSET Live(g) /\ Closed(h, A)
    BY <1>2, <1>4, <1>5 DEF SameTrees, Forest
  <2>2. A \cap Nested[MaxTypes][h] \subseteq Nested[MaxTypes][g]
    BY <1>1, <2>1, NestedKept
  <2> QED
    BY <1>2, <2>2 DEF Forest
<1>10. \A a \in A \cup B : Bare(g[a]) /\ g[a].by = "library"
  BY <1>5 DEF Litter
<1>11. Litter(m, y)
  BY <1>1, <1>3, <1>4, <1>7, <1>8, <1>9, <1>10 DEF Litter, Forest
<1>12. \A r : Root(g, B, r) => Root(g, A \cup B, r)
  BY <1>4, <1>6 DEF Root, Closed
<1>13. \A r : Root(h, A, r) => Root(g, A \cup B, r)
  <2> SUFFICES ASSUME NEW r, Root(h, A, r), NEW a \in A \cup B, NEW i \in DOMAIN g[a].basetypes
               PROVE  g[a].basetypes[i] # r /\ r \in A
    BY DEF Root
  <2>1. r \in A
    BY DEF Root
  <2>2. CASE a \in A
    BY <1>5, <2>1, <2>2 DEF Root
  <2>3. CASE a \in B
    BY <1>4, <1>6, <2>1, <2>3 DEF Closed
  <2> QED
    BY <2>1, <2>2, <2>3
<1> QED
  BY <1>4, <1>11, <1>12, <1>13

\* Another root is not below r.
LEMMA BelowRoot ==
    ASSUME NEW h \in Heaps, NEW k \in Nat, NEW X, Forest(h, X, k), NEW r \in X,
           NEW b \in Below(h, r), b # r
    PROVE  /\ ~Root(h, X, b)
           /\ \E c \in Below(h, r) : \E i \in DOMAIN h[c].basetypes : h[c].basetypes[i] = b
<1>1. X \in SUBSET Live(h) /\ FieldClosed(h, X) /\ Below(h, r) \subseteq X
  <2>1. X \in SUBSET Live(h)
    BY NestedAt DEF Forest
  <2> QED
    BY <2>1, ForestBelow, ClosedFields DEF Forest
<1>2. PICK c \in Below(h, r) : \E i \in DOMAIN Fields(h[c]) : Fields(h[c])[i] = b
  BY <1>1, BelowEdges
<1>3. h[c] \in Objects /\ c \in X
  BY <1>1, HeapFacts
<1>4. \E i \in DOMAIN h[c].basetypes : h[c].basetypes[i] = b
  BY <1>2, <1>3, FieldsFacts
<1> QED
  BY <1>3, <1>4 DEF Root

\* What is left of a forest without one of its trees.
LEMMA RestClosed ==
    ASSUME NEW h \in Heaps, NEW k \in Nat, NEW X, Forest(h, X, k), NEW r, Root(h, X, r)
    PROVE  Closed(h, X \ Below(h, r))
<1> DEFINE B == Below(h, r)
<1> SUFFICES ASSUME NEW a \in X \ B, NEW i \in DOMAIN h[a].basetypes, h[a].basetypes[i] \in B
             PROVE  FALSE
  BY DEF Forest, Closed
<1>1. h[a].basetypes[i] # r /\ r \in X
  BY DEF Root
<1>2. PICK c \in B : \E j \in DOMAIN h[c].basetypes : h[c].basetypes[j] = h[a].basetypes[i]
  BY <1>1, BelowRoot
<1>3. B \subseteq X
  BY <1>1, ForestBelow
<1>4. c = a
  BY <1>2, <1>3 DEF Forest, OnePlace
<1> QED
  BY <1>4

\* A root among the new trees is deleted.
LEMMA LitterDropped ==
    ASSUME NEW m \in Memories, NEW x, Litter(m, x), NEW r, Root(x.heap, Young(m, x), r)
    PROVE  LET y == Delete(x, r)
           IN  /\ Litter(m, y)
               /\ y.ret = x.ret
               /\ \A s : s # r /\ Root(x.heap, Young(m, x), s) =>
                     /\ Root(y.heap, Young(m, y), s)
                     /\ y.heap[s] = x.heap[s]
                     /\ \A k \in Nat : s \in Nested[k][x.heap] => s \in Nested[k][y.heap]
<1> DEFINE h == x.heap
           Y == Young(m, x)
           B == Below(h, r)
           y == Delete(x, r)
           g == y.heap
<1>1. x \in Memories /\ h \in Heaps /\ MaxTypes \in Nat /\ Forest(h, Y, MaxTypes) /\ r \in Y
      /\ Kept(m, x) /\ \A a \in Y : Bare(h[a]) /\ h[a].by = "library"
  BY MemoryTyped, BoundsAssumption DEF Litter, Root
<1>2. B \subseteq Y /\ Y \in SUBSET Live(h) /\ FieldClosed(h, Y)
  <2>1. Y \in SUBSET Live(h)
    BY DEF Young
  <2> QED
    BY <1>1, <2>1, ForestBelow, ClosedFields DEF Forest
<1>3. y = Erased(x, B)
  <2>1. \A b \in B : Bare(h[b])
    BY <1>1, <1>2
  <2>2. Bare(h[r])
    BY <1>1
  <2> QED
    BY <1>1, <2>1, <2>2, DeleteErases
<1>4. IsErased(x, y, B)
  BY <1>1, <1>3, ErasedFacts
<1> HIDE DEF y
<1>5. /\ y \in Memories /\ g \in Heaps /\ Live(g) = Live(h) \ B
      /\ \A a \in Live(h) \ B : g[a] = h[a]
      /\ y.functions = x.functions /\ y.arrays = x.arrays
      /\ y.dropped = x.dropped /\ y.fault = x.fault /\ y.ret = x.ret
  <2>1. y \in Memories /\ g \in Heaps
    BY <1>4, MemoryTyped DEF IsErased
  <2>2. Live(h) \subseteq DOMAIN h
    BY DEF Live
  <2> QED
    BY <1>4, <2>1, <2>2 DEF IsErased
<1>6. Young(m, y) = Y \ B /\ Live(m.heap) \cap B = {}
  BY <1>2, <1>5 DEF Young
<1>7. Kept(m, y)
  BY <1>1, <1>5, <1>6 DEF Kept
<1>8. \A s \in Y : Root(h, Y, s) /\ s # r => s \notin B
  BY <1>1, <1>2, BelowRoot
<1>9. \A a \in Y \ B : \A i \in DOMAIN h[a].basetypes : h[a].basetypes[i] \in Y \ B
  <2>1. Closed(h, Y \ B)
    BY <1>1, RestClosed
  <2> QED
    BY <2>1 DEF Closed
<1>10. \A a \in Y \ B : g[a] = h[a] /\ a \in Live(g)
  BY <1>2, <1>5
<1>11. \A k \in Nat : (Y \ B) \cap Nested[k][h] \subseteq Nested[k][g]
  <2> DEFINE X == Y \ B
  <2>1. X \in SUBSET Live(g) /\ Closed(h, X) /\ SameTrees(h, g, X)
    BY <1>9, <1>10 DEF Closed, SameTrees
  <2> QED
    BY <1>1, <1>5, <2>1, NestedKept
<1>12. Forest(g, Y \ B, MaxTypes)
  <2>1. Y \ B \in SUBSET Nested[MaxTypes][g]
    BY <1>1, <1>11 DEF Forest
  <2>2. Closed(g, Y \ B)
    BY <1>9, <1>10 DEF Closed
  <2>3. OnePlace(g, Y \ B)
    BY <1>1, <1>10 DEF Forest, OnePlace
  <2> QED
    BY <2>1, <2>2, <2>3 DEF Forest
<1>13. Litter(m, y)
  BY <1>1, <1>5, <1>6, <1>7, <1>10, <1>12 DEF Litter
<1>14. ASSUME NEW s, s # r, Root(h, Y, s)
       PROVE  /\ Root(g, Young(m, y), s) /\ g[s] = h[s]
              /\ \A k \in Nat : s \in Nested[k][h] => s \in Nested[k][g]
  <2>1. s \in Y \ B
    BY <1>8, <1>14 DEF Root
  <2>2. Root(g, Y \ B, s)
    BY <1>10, <1>14, <2>1 DEF Root
  <2> QED
    BY <1>6, <1>10, <1>11, <2>1, <2>2
<1> QED
  BY <1>5, <1>13, <1>14 DEF y

\* A class with one basetype.
Single(kind) == kind \in AllKinds \ {"struct"}

LEMMA SingleArity ==
    ASSUME NEW kind, Single(kind), NEW bases
    PROVE  /\ Arity(kind, bases) <=> Len(bases) = 1
           /\ kind \in AllKinds \cup {"primitive"}
  BY DEF Single, Arity, AllKinds

\* n.ret is a new tree of the class kind.
PressedAs(m, n, k, kind) == Pressed(m, n, k) /\ n.heap[n.ret].kind = kind

\* The roots of litter c are roots of x; x.ret is one more.
RootsKept(m, c, x) ==
    \A r : Root(c.heap, Young(m, c), r) => r # x.ret /\ Root(x.heap, Young(m, x), r)

\* A new type above litter.
LEMMA NewPresses ==
    ASSUME NEW m \in Memories, NEW c, Litter(m, c),
           NEW kind \in AllKinds \cup {"primitive"}, NEW tight \in BOOLEAN,
           NEW bases \in Seq(Nat), Arity(kind, bases),
           NEW k \in Nat, k + 1 <= MaxTypes,
           \A j \in 1 .. Len(bases) : bases[j] \in Nested[k][c.heap]
    PROVE  /\ PressedAs(m, New(c, kind, tight, bases, "library"), k + 1, kind)
           /\ RootsKept(m, c, New(c, kind, tight, bases, "library"))
<1> DEFINE x == New(c, kind, tight, bases, "library")
<1>1. c \in Memories /\ k \in 0 .. MaxTypes /\ "library" \in Makers /\ MaxTypes \in Nat
  BY BoundsAssumption DEF Litter, Makers
<1>2. Grown(c, x, k + 1, "library") /\ Copied(c, x, kind, tight, bases)
  BY <1>1, NewGrows
<1> HIDE DEF x
<1>3. Pressed(c, x, k + 1)
  BY <1>1, <1>2, GrownLitter
<1>4. Litter(c, x) /\ Root(x.heap, Young(c, x), x.ret) /\ x.ret \in Nested[k + 1][x.heap]
  BY <1>3 DEF Pressed
<1>5. /\ Litter(m, x)
      /\ Root(x.heap, Young(m, x), x.ret)
      /\ \A r : Root(c.heap, Young(m, c), r) => Root(x.heap, Young(m, x), r)
  BY <1>4, LitterThen
<1>6. x.heap[x.ret].kind = kind
  BY <1>2 DEF Copied
<1>7. \A r : Root(c.heap, Young(m, c), r) => r # x.ret
  BY <1>4 DEF Root, Young
<1> QED
  BY <1>4, <1>5, <1>6, <1>7 DEF Pressed, PressedAs, RootsKept, x

\* A new type, after which the one it replaces is deleted.
LEMMA SwapPresses ==
    ASSUME NEW m \in Memories, NEW c, Litter(m, c),
           NEW kind \in AllKinds \cup {"primitive"}, NEW tight \in BOOLEAN,
           NEW bases \in Seq(Nat), Arity(kind, bases),
           NEW k \in Nat, k + 1 <= MaxTypes,
           \A j \in 1 .. Len(bases) : bases[j] \in Nested[k][c.heap],
           NEW r, Root(c.heap, Young(m, c), r)
    PROVE  PressedAs(m, Delete(New(c, kind, tight, bases, "library"), r), k + 1, kind)
<1> DEFINE x == New(c, kind, tight, bases, "library")
           y == Delete(x, r)
<1>0. PressedAs(m, x, k + 1, kind) /\ RootsKept(m, c, x)
  BY NewPresses
<1> HIDE DEF x
<1>1. /\ Pressed(m, x, k + 1) /\ x.heap[x.ret].kind = kind
      /\ r # x.ret /\ Root(x.heap, Young(m, x), r)
  BY <1>0 DEF PressedAs, RootsKept
<1>2. Litter(m, x) /\ Root(x.heap, Young(m, x), x.ret) /\ x.ret \in Nested[k + 1][x.heap]
  BY <1>1 DEF Pressed
<1>3. /\ Litter(m, y) /\ y.ret = x.ret
      /\ Root(y.heap, Young(m, y), x.ret) /\ y.heap[x.ret] = x.heap[x.ret]
      /\ x.ret \in Nested[k + 1][y.heap]
  <2>1. k + 1 \in Nat
    OBVIOUS
  <2> QED
    BY <1>1, <1>2, <2>1, LitterDropped
<1> HIDE DEF y
<1>4. PressedAs(m, y, k + 1, kind)
  BY <1>1, <1>3 DEF Pressed, PressedAs
<1> QED
  BY <1>4 DEF x, y

LEMMA SingleFields ==
    ASSUME NEW h \in Heaps, NEW n \in Nat, NEW a \in Nested[n][h], Single(h[a].kind)
    PROVE  /\ Fields(h[a]) \in Seq(Nat) /\ Len(Fields(h[a])) = 1
           /\ n - 1 \in Nat
           /\ \A j \in 1 .. Len(Fields(h[a])) : Fields(h[a])[j] \in Nested[n - 1][h]
<1>1. /\ Arity(h[a].kind, Fields(h[a])) /\ Fields(h[a]) \in Seq(Nat) /\ n - 1 \in Nat
      /\ DOMAIN Fields(h[a]) = 1 .. Len(Fields(h[a]))
      /\ \A i \in DOMAIN Fields(h[a]) : Fields(h[a])[i] \in Nested[n - 1][h]
  BY WholeObject
<1>2. Len(Fields(h[a])) = 1
  BY <1>1, SingleArity
<1> QED
  BY <1>1, <1>2

LEMMA RebuildPresses ==
    ASSUME NEW m \in Memories, NEW c, NEW k \in Nat, k + 1 <= MaxTypes, Pressed(m, c, k),
           NEW kind, Single(kind), NEW tight \in BOOLEAN
    PROVE  PressedAs(m, Rebuild(c, kind, tight), k + 1, kind)
<1> DEFINE F == Fields(c.heap[c.ret])
<1>1. /\ Litter(m, c) /\ Root(c.heap, Young(m, c), c.ret) /\ c.ret \in Nested[k][c.heap]
      /\ c \in Memories /\ c.heap \in Heaps /\ c.ret \in Nat
  BY MemoryTyped DEF Pressed, Litter
<1>2. kind \in AllKinds \cup {"primitive"} /\ \A bases : Arity(kind, bases) <=> Len(bases) = 1
  BY SingleArity
<1>3. CASE Dissolves(c.heap, c.ret)
  <2>1. Single(c.heap[c.ret].kind)
    BY <1>3 DEF Dissolves, Single, AllKinds
  <2>2. /\ F \in Seq(Nat) /\ Len(F) = 1 /\ k - 1 \in Nat
        /\ \A j \in 1 .. Len(F) : F[j] \in Nested[k - 1][c.heap]
    BY <1>1, <2>1, SingleFields
  <2>3. Nested[k - 1][c.heap] \subseteq Nested[k][c.heap]
    BY <1>1, <2>2, NestedDeeper
  <2>4. \A j \in 1 .. Len(F) : F[j] \in Nested[k][c.heap]
    BY <2>2, <2>3
  <2>5. Rebuild(c, kind, tight) = Delete(New(c, kind, tight, F, "library"), c.ret)
    BY <1>3 DEF Rebuild
  <2> HIDE DEF F
  <2> QED
    BY <1>1, <1>2, <2>2, <2>4, <2>5, SwapPresses
<1>4. CASE ~Dissolves(c.heap, c.ret)
  <2>1. /\ <<c.ret>> \in Seq(Nat) /\ Len(<<c.ret>>) = 1
        /\ \A j \in 1 .. Len(<<c.ret>>) : <<c.ret>>[j] \in Nested[k][c.heap]
    BY <1>1
  <2>2. Rebuild(c, kind, tight) = New(c, kind, tight, <<c.ret>>, "library")
    BY <1>4 DEF Rebuild
  <2> QED
    BY <1>1, <1>2, <2>1, <2>2, NewPresses
<1> QED
  BY <1>3, <1>4

LEMMA PromotePresses ==
    ASSUME NEW m \in Memories, NEW v, NEW k \in Nat, k <= MaxTypes, PressedAs(m, v, k, "vector"),
           NEW tight \in BOOLEAN
    PROVE  Pressed(m, Promote(v, tight), k)
<1> DEFINE F == Fields(v.heap[v.ret])
           e == k - 1
<1>1. /\ Litter(m, v) /\ Root(v.heap, Young(m, v), v.ret) /\ v.ret \in Nested[k][v.heap]
      /\ v \in Memories /\ v.heap \in Heaps /\ MaxTypes \in Nat
  BY MemoryTyped, BoundsAssumption DEF PressedAs, Pressed, Litter
<1>2. CASE tight /\ ~v.fault
  <2>1. Single(v.heap[v.ret].kind) /\ Single("contiguous")
    BY DEF Single, AllKinds, PressedAs
  <2>2. /\ F \in Seq(Nat) /\ Len(F) = 1 /\ e \in Nat /\ e + 1 = k
        /\ \A j \in 1 .. Len(F) : F[j] \in Nested[e][v.heap]
    BY <1>1, <2>1, SingleFields
  <2>3. Arity("contiguous", F) /\ "contiguous" \in AllKinds \cup {"primitive"}
    BY <2>1, <2>2, SingleArity
  <2>4. Promote(v, tight) = Delete(New(v, "contiguous", TRUE, F, "library"), v.ret)
    BY <1>2 DEF Promote
  <2> HIDE DEF F, e
  <2>5. e + 1 <= MaxTypes
    BY <2>2
  <2>6. PressedAs(m, Promote(v, tight), e + 1, "contiguous")
    BY <1>1, <2>2, <2>3, <2>4, <2>5, SwapPresses
  <2> QED
    BY <2>2, <2>6 DEF PressedAs
<1>3. CASE ~(tight /\ ~v.fault)
  BY <1>3 DEF Promote, PressedAs
<1> QED
  BY <1>2, <1>3

\* compress() of one object, once its basetypes are compressed.
LEMMA CompressedPresses ==
    ASSUME NEW m \in Memories, NEW k \in Nat, k + 1 <= MaxTypes,
           NEW a \in Nested[k + 1][m.heap], NEW c, Litter(m, c),
           Len(m.heap[a].basetypes) > 0 => Pressed(m, c, k)
    PROVE  Pressed(m, Compressed(c, m.heap[a]), k + 1)
<1> DEFINE o == m.heap[a]
<1>1. /\ m.heap \in Heaps /\ k + 1 \in Nat /\ (k + 1) - 1 = k
      /\ c \in Memories /\ Kept(m, c)
  BY MemoryTyped DEF Litter
<1>2. /\ Shaped(o) /\ o.kind \in AllKinds \cup {"primitive"} /\ o.tight \in BOOLEAN
      /\ Arity(o.kind, Fields(o)) /\ Fields(o) \in Seq(Nat)
      /\ DOMAIN Fields(o) = 1 .. Len(Fields(o))
  BY <1>1, WholeObject
<1>3. \A j \in DOMAIN Fields(o) : Fields(o)[j] \in Nested[(k + 1) - 1][m.heap]
  BY <1>1, WholeObject
<1>4. Nested[k][m.heap] \subseteq Nested[k][c.heap]
  BY <1>1, KeptNested
<1>5. \A j \in 1 .. Len(Fields(o)) : Fields(o)[j] \in Nested[k][c.heap]
  BY <1>1, <1>2, <1>3, <1>4
<1> HIDE DEF o
<1>6. CASE o.kind = "primitive"
  <2>1. Compressed(c, o) = New(c, "primitive", TRUE, <<>>, "library")
    BY <1>6 DEF Compressed
  <2>2. Arity("primitive", <<>>) /\ <<>> \in Seq(Nat) /\ Len(<<>>) = 0
    BY DEF Arity
  <2>3. \A j \in 1 .. Len(<<>>) : <<>>[j] \in Nested[k][c.heap]
    BY <2>2
  <2>4. Pressed(m, New(c, "primitive", TRUE, <<>>, "library"), k + 1)
    BY <2>2, <2>3, NewPresses DEF PressedAs
  <2> QED
    BY <2>1, <2>4 DEF o
<1>7. CASE Single(o.kind)
  <2>1. Pressed(m, c, k)
    <3>1. Len(o.basetypes) = 1
      BY <1>2, <1>7 DEF Shaped, Single, AllKinds
    <3> QED
      BY <3>1 DEF o
  <2>2. CASE o.kind = "contiguous"
    <3>1. Compressed(c, o) = Rebuild(c, o.kind, TRUE)
      BY <2>2 DEF Compressed
    <3> QED
      BY <1>7, <2>1, <3>1, RebuildPresses DEF o, PressedAs
  <2>3. CASE o.kind = "vector"
    <3> DEFINE v == Rebuild(c, o.kind, o.tight)
    <3>1. Compressed(c, o) = Promote(v, o.tight)
      BY <2>3 DEF Compressed
    <3>2. PressedAs(m, v, k + 1, "vector")
      BY <1>2, <1>7, <2>1, <2>3, RebuildPresses
    <3> HIDE DEF v
    <3>3. Pressed(m, Promote(v, o.tight), k + 1)
      BY <1>1, <1>2, <3>2, PromotePresses
    <3> QED
      BY <3>1, <3>3 DEF o
  <2>4. CASE o.kind \notin {"contiguous", "vector"}
    <3>1. o.kind \notin {"primitive", "struct"}
      BY <1>7 DEF Single, AllKinds
    <3>2. Compressed(c, o) = New(c, o.kind, o.tight, <<c.ret>>, "library")
      BY <2>4, <3>1 DEF Compressed
    <3>3. c.ret \in Nested[k][c.heap] /\ c.ret \in Nat
      BY <1>1, <2>1, MemoryTyped DEF Pressed
    <3>4. /\ <<c.ret>> \in Seq(Nat) /\ Len(<<c.ret>>) = 1
          /\ \A j \in 1 .. Len(<<c.ret>>) : <<c.ret>>[j] \in Nested[k][c.heap]
      BY <3>3
    <3>5. Arity(o.kind, <<c.ret>>)
      BY <1>7, <3>4, SingleArity
    <3>6. Pressed(m, New(c, o.kind, o.tight, <<c.ret>>, "library"), k + 1)
      BY <1>2, <3>4, <3>5, NewPresses DEF PressedAs
    <3> QED
      BY <3>2, <3>6 DEF o
  <2> QED
    BY <2>2, <2>3, <2>4
<1>8. CASE o.kind = "struct"
  <2>1. Compressed(c, o) = New(c, o.kind, o.tight, Fields(o), "library")
    BY <1>8 DEF Compressed
  <2>2. Pressed(m, New(c, o.kind, o.tight, Fields(o), "library"), k + 1)
    BY <1>2, <1>5, NewPresses DEF PressedAs
  <2> QED
    BY <2>1, <2>2 DEF o
<1> QED
  BY <1>2, <1>6, <1>7, <1>8 DEF Single, o

LEMMA CompressAt ==
    ASSUME NEW n \in Nat, NEW m \in Memories, NEW a \in Live(m.heap)
    PROVE  LET s == m.heap[a].basetypes
           IN  Compress[n + 1][a][m]
                  = Compressed(Through([i \in DOMAIN s |-> Compress[n][s[i]]], m), m.heap[a])
<1>1. a \in Nat
  BY MemoryTyped, HeapFacts
<1>2. Compress[n + 1] = CompressOf(Compress, n + 1)
  BY CompressUnfold
<1>3. n + 1 # 0 /\ (n + 1) - 1 = n
  OBVIOUS
<1> QED
  BY <1>1, <1>2, <1>3 DEF CompressOf

\* compress() returns a new tree of the library's that is no deeper.
LEMMA CompressPresses ==
    ASSUME NEW n \in Nat
    PROVE  n <= MaxTypes =>
              \A m \in Memories : \A a \in Nested[n][m.heap] : Pressed(m, Compress[n][a][m], n)
<1> DEFINE P(j) == \A m \in Memories : \A a \in Nested[j][m.heap] : Pressed(m, Compress[j][a][m], j)
           S == {j \in Nat : j <= MaxTypes => P(j)}
<1>1. 0 \in S
  <2>1. \A m \in Memories : Nested[0][m.heap] = {}
    BY MemoryTyped, NestedAt
  <2> QED
    BY <2>1
<1>2. ASSUME NEW k \in Nat, k \in S
      PROVE  k + 1 \in S
  <2> SUFFICES ASSUME k + 1 <= MaxTypes, NEW m \in Memories, NEW a \in Nested[k + 1][m.heap]
               PROVE  Pressed(m, Compress[k + 1][a][m], k + 1)
    OBVIOUS
  <2> DEFINE s == m.heap[a].basetypes
             calls == [i \in DOMAIN s |-> Compress[k][s[i]]]
             c == Through(calls, m)
             J == [i \in 0 .. Len(s) |->
                     {y \in Memories : Litter(m, y) /\ (i > 0 => Pressed(m, y, k))}]
  <2>1. m.heap \in Heaps /\ k + 1 \in Nat /\ (k + 1) - 1 = k /\ k <= MaxTypes
    BY MemoryTyped, BoundsAssumption
  <2>2. a \in Live(m.heap) /\ m.heap[a] \in Objects
    BY <2>1, WholeObject
  <2>3. s \in Seq(Nat) /\ Len(s) \in Nat /\ DOMAIN s = 1 .. Len(s)
    BY <2>2 DEF Objects
  <2>4. \A i \in DOMAIN s : s[i] \in Nested[k][m.heap]
    <3>1. \A i \in DOMAIN s : s[i] \in Nested[(k + 1) - 1][m.heap]
      BY <2>1, NestedAt
    <3> QED
      BY <2>1, <3>1
  <2>5. P(k)
    BY <1>2, <2>1
  <2> HIDE DEF s
  <2>6. Len(calls) = Len(s)
    BY <2>3
  <2>7. ASSUME NEW i \in 1 .. Len(s), NEW y \in J[i - 1]
        PROVE  calls[i][y] \in J[i]
    <3> DEFINE z == Compress[k][s[i]][y]
    <3>1. i \in DOMAIN s /\ i - 1 \in 0 .. Len(s) /\ i \in 0 .. Len(s)
      BY <2>3
    <3>2. y \in Memories /\ Litter(m, y)
      BY <3>1
    <3>3. s[i] \in Nested[k][y.heap]
      <4>1. Kept(m, y)
        BY <3>2 DEF Litter
      <4> QED
        BY <2>4, <3>1, <3>2, <4>1, KeptNested
    <3>4. Pressed(y, z, k)
      BY <2>5, <3>2, <3>3
    <3> HIDE DEF z
    <3>5. Litter(m, z) /\ Root(z.heap, Young(m, z), z.ret) /\ z \in Memories
      BY <3>2, <3>4, LitterThen DEF Pressed, Litter
    <3>6. Pressed(m, z, k)
      BY <3>4, <3>5 DEF Pressed
    <3>7. calls[i][y] = z
      BY <3>1 DEF z
    <3> QED
      BY <3>1, <3>5, <3>6, <3>7
  <2>8. m \in J[0]
    BY <2>3, NoLitter
  <2>9. c \in J[Len(s)]
    <3>1. c \in J[Len(calls)]
      <4> HIDE DEF J, calls
      <4> QED
        BY <2>3, <2>6, <2>7, <2>8, ThroughInduction
    <3> QED
      BY <2>6, <3>1
  <2> HIDE DEF c, calls
  <2>10. Litter(m, c) /\ (Len(s) > 0 => Pressed(m, c, k))
    BY <2>3, <2>9
  <2>11. Pressed(m, Compressed(c, m.heap[a]), k + 1)
    BY <2>10, CompressedPresses DEF s
  <2>12. Compress[k + 1][a][m] = Compressed(c, m.heap[a])
    BY <2>2, CompressAt DEF c, calls, s
  <2> QED
    BY <2>11, <2>12
<1>3. Nat \subseteq S
  <2> HIDE DEF S
  <2> QED
    BY <1>1, <1>2, NatInduct
<1> QED
  BY <1>3

-----------------------------------------------------------------------------
(* globalCodegen() and the arrays that the code refers to.                 *)

\* The array of an indexed type exists.
Armed(m, a) == m.heap[a].kind = "indexed" => m.heap[a].indices_arr \in m.arrays

\* So does that of every indexed type in the tree of a.
ReadyTree(m, a) ==
    \E C \in SUBSET Live(m.heap) : a \in C /\ Closed(m.heap, C) /\ \A b \in C : Armed(m, b)

ArraysCounted(m) == IsFiniteSet(m.arrays) /\ NULL \notin m.arrays

\* Two objects that differ in indices_arr at most.
Alike(o, p) ==
    /\ o.kind = p.kind /\ o.tight = p.tight /\ o.basetypes = p.basetypes
    /\ o.pack = p.pack /\ o.unpack = p.unpack /\ o.by = p.by

\* g is m with more arrays.
Arming(m, g) ==
    /\ g \in Memories
    /\ g.functions = m.functions /\ g.dropped = m.dropped /\ g.fault = m.fault
    /\ m.arrays \subseteq g.arrays /\ ArraysCounted(g)
    /\ Live(g.heap) = Live(m.heap)
    /\ \A a \in Live(m.heap) : Alike(m.heap[a], g.heap[a]) /\ (Armed(m, a) => Armed(g, a))

LEMMA ArmingThen ==
    ASSUME NEW m, NEW x, NEW y, Arming(m, x), Arming(x, y)
    PROVE  Arming(m, y)
<1>1. \A a \in Live(m.heap) : Alike(m.heap[a], y.heap[a]) /\ (Armed(m, a) => Armed(y, a))
  BY DEF Arming, Alike
<1> QED
  BY <1>1 DEF Arming

LEMMA ArmingTrees ==
    ASSUME NEW m \in Memories, NEW g, Arming(m, g)
    PROVE  /\ SameTrees(m.heap, g.heap, Live(m.heap))
           /\ \A n \in Nat : Nested[n][m.heap] \subseteq Nested[n][g.heap]
           /\ \A a : ReadyTree(m, a) => ReadyTree(g, a)
<1> DEFINE h == m.heap
           d == g.heap
<1>1. h \in Heaps /\ d \in Heaps
  BY MemoryTyped DEF Arming
<1>2. Live(d) = Live(h)
  BY DEF Arming
<1>3. SameTrees(h, d, Live(h))
  BY DEF SameTrees, Arming, Alike
<1>4. \A X \in SUBSET Live(h) : Closed(h, X) => Closed(d, X)
  BY <1>3 DEF Closed, SameTrees
<1>5. ASSUME NEW n \in Nat
      PROVE  Nested[n][h] \subseteq Nested[n][d]
  <2> DEFINE X == Nested[n][h]
  <2>1. X \in SUBSET Live(d) /\ Closed(h, X)
    BY <1>1, <1>2, NestedAt, NestedClosed
  <2>2. SameTrees(h, d, X)
    BY <1>2, <1>3, <2>1 DEF SameTrees
  <2>3. X \cap Nested[n][h] \subseteq Nested[n][d]
    BY <1>1, <2>1, <2>2, NestedKept
  <2> QED
    BY <2>3
<1>6. ASSUME NEW a, ReadyTree(m, a)
      PROVE  ReadyTree(g, a)
  <2>1. PICK C \in SUBSET Live(h) : a \in C /\ Closed(h, C) /\ \A b \in C : Armed(m, b)
    BY <1>6 DEF ReadyTree
  <2>2. Closed(d, C) /\ C \in SUBSET Live(d)
    BY <1>2, <1>4, <2>1
  <2>3. \A b \in C : Armed(g, b)
    BY <2>1 DEF Arming
  <2> QED
    BY <2>1, <2>2, <2>3 DEF ReadyTree
<1> QED
  BY <1>3, <1>5, <1>6

LEMMA WithArrayArms ==
    ASSUME NEW m \in Memories, ArraysCounted(m), NEW a \in Live(m.heap)
    PROVE  Arming(m, WithArray(m, a)) /\ Armed(WithArray(m, a), a)
<1> DEFINE h == m.heap
           b == Unused(m.arrays)
           x == WithArray(m, a)
           o == [h[a] EXCEPT !.indices_arr = b]
           e == [h EXCEPT ![a] = o]
           A == m.arrays \cup {b}
<1>1. h \in Heaps /\ m.arrays \in SUBSET Nat
  BY MemoryTyped
<1>2. a \in DOMAIN h /\ h[a] \in Objects /\ h[a].kind # "deleted"
  BY <1>1, HeapFacts DEF Live
<1>3. CASE h[a].kind # "indexed"
  <2>1. x = m
    BY <1>3 DEF WithArray
  <2>2. Arming(m, m)
    BY DEF Arming, Alike
  <2>3. Armed(m, a)
    BY <1>3 DEF Armed
  <2> HIDE DEF x
  <2> QED
    BY <2>1, <2>2, <2>3 DEF x
<1>4. CASE h[a].kind = "indexed"
  <2>1. b \in Nat /\ b # NULL
    <3>1. b \in 1 .. Cardinality(m.arrays) + 1 /\ Cardinality(m.arrays) \in Nat
      BY UnusedFresh DEF ArraysCounted
    <3> QED
      BY <3>1 DEF NULL
  <2> HIDE DEF b
  <2>2. o \in Objects /\ Alike(h[a], o) /\ o.indices_arr = b /\ o.kind # "deleted"
    <3> HIDE DEF h
    <3> QED
      BY <1>2, <2>1 DEF Objects, Alike
  <2>3. x = [m EXCEPT !.heap = e, !.arrays = A]
    BY <1>4 DEF WithArray, b
  <2> HIDE DEF o
  <2>4. /\ e \in Heaps /\ Live(e) = Live(h) \cup {a} /\ e[a] = o
        /\ \A y \in DOMAIN h : y # a => e[y] = h[y]
    <3> HIDE DEF h
    <3> QED
      BY <1>1, <1>2, <2>2, ChangeFacts
  <2>5. A \in SUBSET Nat /\ m.arrays \subseteq A /\ b \in A /\ IsFiniteSet(A) /\ NULL \notin A
    BY <1>1, <2>1, FS_AddElement DEF ArraysCounted
  <2> HIDE DEF e, A, x
  <2>6. /\ x \in Memories /\ x.heap = e /\ x.arrays = A
        /\ x.functions = m.functions /\ x.dropped = m.dropped /\ x.fault = m.fault
    BY <2>3, <2>4, <2>5 DEF Memories
  <2>7. \A y \in Live(h) : Alike(h[y], e[y]) /\ (y # a => e[y] = h[y])
    <3>1. \A y \in Live(h) : y \in DOMAIN h
      BY DEF Live
    <3> QED
      BY <2>2, <2>4, <3>1 DEF Alike
  <2>8. Armed(x, a)
    BY <2>2, <2>4, <2>5, <2>6 DEF Armed
  <2>9. \A y \in Live(h) : Armed(m, y) => Armed(x, y)
    BY <2>5, <2>6, <2>7, <2>8 DEF Armed
  <2>10. Arming(m, x)
    BY <2>4, <2>5, <2>6, <2>7, <2>9 DEF Arming, ArraysCounted
  <2> QED
    BY <2>8, <2>10 DEF x
<1> QED
  BY <1>3, <1>4

LEMMA GlobalAt ==
    ASSUME NEW n \in Nat, NEW m \in Memories, NEW a \in Live(m.heap)
    PROVE  LET s == m.heap[a].basetypes
           IN  GlobalCodegen[n + 1][a][m]
                  = Through([i \in DOMAIN s |-> GlobalCodegen[n][s[i]]], WithArray(m, a))
<1>1. a \in Nat
  BY MemoryTyped, HeapFacts
<1>2. GlobalCodegen[n + 1] = GlobalOf(GlobalCodegen, n + 1)
  BY GlobalCodegenUnfold
<1>3. n + 1 # 0 /\ (n + 1) - 1 = n
  OBVIOUS
<1> QED
  BY <1>1, <1>2, <1>3 DEF GlobalOf

\* The tree of an object is ready when it is armed and its basetypes are ready.
LEMMA ReadyAbove ==
    ASSUME NEW m \in Memories, NEW a \in Live(m.heap), Armed(m, a),
           \A i \in DOMAIN m.heap[a].basetypes : ReadyTree(m, m.heap[a].basetypes[i])
    PROVE  ReadyTree(m, a)
<1> DEFINE h == m.heap
           s == h[a].basetypes
           Part(b, C) == b \in C /\ Closed(h, C) /\ \A x \in C : Armed(m, x)
           C == {a} \cup UNION {D \in SUBSET Live(h) : \E i \in DOMAIN s : Part(s[i], D)}
<1>1. C \in SUBSET Live(h) /\ a \in C
  OBVIOUS
<1>2. \A i \in DOMAIN s : s[i] \in C
  <2> SUFFICES ASSUME NEW i \in DOMAIN s
               PROVE  s[i] \in C
    OBVIOUS
  <2>1. PICK D \in SUBSET Live(h) : Part(s[i], D)
    BY DEF ReadyTree
  <2> QED
    BY <2>1
<1>3. Closed(h, C)
  BY <1>2 DEF Closed
<1>4. \A b \in C : Armed(m, b)
  OBVIOUS
<1> HIDE DEF C
<1> QED
  BY <1>1, <1>3, <1>4 DEF ReadyTree

\* globalCodegen() makes the arrays of a whole tree.
LEMMA GlobalArms ==
    ASSUME NEW n \in Nat
    PROVE  \A m \in Memories : \A a \in Nested[n][m.heap] : ArraysCounted(m) =>
              Arming(m, GlobalCodegen[n][a][m]) /\ ReadyTree(GlobalCodegen[n][a][m], a)
<1> DEFINE P(j) == \A m \in Memories : \A a \in Nested[j][m.heap] : ArraysCounted(m) =>
                      /\ Arming(m, GlobalCodegen[j][a][m])
                      /\ ReadyTree(GlobalCodegen[j][a][m], a)
           S == {j \in Nat : P(j)}
<1>1. 0 \in S
  <2>1. \A m \in Memories : Nested[0][m.heap] = {}
    BY MemoryTyped, NestedAt
  <2> QED
    BY <2>1
<1>2. ASSUME NEW k \in Nat, k \in S
      PROVE  k + 1 \in S
  <2> SUFFICES ASSUME NEW m \in Memories, NEW a \in Nested[k + 1][m.heap], ArraysCounted(m)
               PROVE  /\ Arming(m, GlobalCodegen[k + 1][a][m])
                      /\ ReadyTree(GlobalCodegen[k + 1][a][m], a)
    OBVIOUS
  <2> DEFINE s == m.heap[a].basetypes
             calls == [i \in DOMAIN s |-> GlobalCodegen[k][s[i]]]
             w == WithArray(m, a)
             c == Through(calls, w)
             J == [i \in 0 .. Len(s) |->
                     {y \in Memories : Arming(w, y) /\ \A j \in 1 .. i : ReadyTree(y, s[j])}]
  <2>1. m.heap \in Heaps /\ k + 1 \in Nat /\ (k + 1) - 1 = k
    BY MemoryTyped
  <2>2. a \in Live(m.heap) /\ m.heap[a] \in Objects
    BY <2>1, WholeObject
  <2>3. s \in Seq(Nat) /\ Len(s) \in Nat /\ DOMAIN s = 1 .. Len(s)
    BY <2>2 DEF Objects
  <2>4. \A i \in DOMAIN s : s[i] \in Nested[k][m.heap]
    <3>1. \A i \in DOMAIN s : s[i] \in Nested[(k + 1) - 1][m.heap]
      BY <2>1, NestedAt
    <3> QED
      BY <2>1, <3>1
  <2>5. P(k)
    BY <1>2
  <2>6. Arming(m, w) /\ Armed(w, a)
    BY <2>2, WithArrayArms
  <2> HIDE DEF w
  <2>7. w \in Memories /\ ArraysCounted(w) /\ Nested[k][m.heap] \subseteq Nested[k][w.heap]
    BY <2>6, ArmingTrees DEF Arming
  <2>8. Arming(w, w)
    BY <2>7 DEF Arming, Alike
  <2> HIDE DEF s
  <2>9. Len(calls) = Len(s)
    BY <2>3
  <2>10. ASSUME NEW i \in 1 .. Len(s), NEW y \in J[i - 1]
         PROVE  calls[i][y] \in J[i]
    <3> DEFINE z == GlobalCodegen[k][s[i]][y]
    <3>1. i \in DOMAIN s /\ i - 1 \in 0 .. Len(s) /\ i \in 0 .. Len(s)
      BY <2>3
    <3>2. y \in Memories /\ Arming(w, y) /\ \A j \in 1 .. i - 1 : ReadyTree(y, s[j])
      BY <3>1
    <3>3. s[i] \in Nested[k][y.heap] /\ ArraysCounted(y)
      BY <2>4, <2>7, <3>1, <3>2, ArmingTrees DEF Arming
    <3>4. Arming(y, z) /\ ReadyTree(z, s[i])
      BY <2>5, <3>2, <3>3
    <3> HIDE DEF z
    <3>5. Arming(w, z) /\ z \in Memories
      BY <3>2, <3>4, ArmingThen DEF Arming
    <3>6. \A j \in 1 .. i - 1 : ReadyTree(z, s[j])
      BY <3>2, <3>4, ArmingTrees
    <3>7. \A j \in 1 .. i : j \in 1 .. i - 1 \/ j = i
      BY <2>3
    <3>8. \A j \in 1 .. i : ReadyTree(z, s[j])
      BY <3>4, <3>6, <3>7
    <3>9. calls[i][y] = z
      BY <3>1 DEF z
    <3> QED
      BY <3>1, <3>5, <3>8, <3>9
  <2>11. w \in J[0]
    BY <2>3, <2>7, <2>8
  <2>12. c \in J[Len(s)]
    <3>1. c \in J[Len(calls)]
      <4> HIDE DEF J, calls
      <4> QED
        BY <2>3, <2>9, <2>10, <2>11, ThroughInduction
    <3> QED
      BY <2>9, <3>1
  <2> HIDE DEF c, calls
  <2>13. c \in Memories /\ Arming(w, c) /\ \A j \in 1 .. Len(s) : ReadyTree(c, s[j])
    BY <2>3, <2>12
  <2>14. Arming(m, c)
    BY <2>6, <2>13, ArmingThen
  <2>15. a \in Live(w.heap) /\ a \in Live(c.heap) /\ Armed(c, a) /\ c.heap[a].basetypes = s
    BY <2>2, <2>6, <2>13 DEF Arming, Alike, s
  <2>16. ReadyTree(c, a)
    BY <2>3, <2>13, <2>15, ReadyAbove
  <2>17. GlobalCodegen[k + 1][a][m] = c
    BY <2>2, GlobalAt DEF c, calls, w, s
  <2> QED
    BY <2>14, <2>16, <2>17
<1>3. Nat \subseteq S
  <2> HIDE DEF S
  <2> QED
    BY <1>1, <1>2, NatInduct
<1> QED
  BY <1>3

LEMMA ReadsAt ==
    ASSUME NEW n \in Nat, NEW h \in Heaps, NEW a \in Live(h)
    PROVE  LET BelowOf(o) == UNION {Reads[n][h][Fields(o)[i]] : i \in DOMAIN Fields(o)}
               base       == h[a].basetypes[1]
           IN  Reads[n + 1][h][a] =
                 IF h[a].kind = "indexed" THEN {h[a].indices_arr} \cup BelowOf(h[a])
                 ELSE IF h[a].kind # "resized" THEN BelowOf(h[a])
                 ELSE IF base \notin Live(h) THEN {NULL}
                 ELSE IF h[base].kind \in {"contiguous", "vector"} THEN BelowOf(h[base]) ELSE {}
<1> DEFINE k == n + 1
           BelowOf(o) == UNION {Reads[k - 1][h][Fields(o)[i]] : i \in DOMAIN Fields(o)}
           base == h[a].basetypes[1]
<1>1. a \in Nat
  BY HeapFacts
<1>2. k \in Nat /\ k # 0 /\ k - 1 = n
  OBVIOUS
<1> HIDE DEF k
<1>3. Reads[k] = ReadsOf(Reads, k)
  BY <1>2, ReadsUnfold
<1>4. Reads[k][h][a] =
         IF k = 0 \/ a \notin Live(h) THEN {NULL}
         ELSE IF h[a].kind = "indexed" THEN {h[a].indices_arr} \cup BelowOf(h[a])
         ELSE IF h[a].kind # "resized" THEN BelowOf(h[a])
         ELSE IF base \notin Live(h) THEN {NULL}
         ELSE IF h[base].kind \in {"contiguous", "vector"} THEN BelowOf(h[base]) ELSE {}
  BY <1>1, <1>3, ZenonT(60) DEF ReadsOf
<1> QED
  BY <1>2, <1>4 DEF k

\* The code of a tree that is ready refers to arrays that exist.
LEMMA ReadsReady ==
    ASSUME NEW m \in Memories, NEW C \in SUBSET Live(m.heap), Closed(m.heap, C),
           \A b \in C : Armed(m, b), NEW n \in Nat
    PROVE  \A a \in C \cap Nested[n][m.heap] : Reads[n][m.heap][a] \subseteq m.arrays
<1> DEFINE h == m.heap
           S == {k \in Nat : \A a \in C \cap Nested[k][h] : Reads[k][h][a] \subseteq m.arrays}
<1>0. h \in Heaps /\ FieldClosed(h, C)
  BY MemoryTyped, ClosedFields
<1>1. 0 \in S
  BY <1>0, NestedAt
<1>2. ASSUME NEW k \in Nat, k \in S
      PROVE  k + 1 \in S
  <2> SUFFICES ASSUME NEW a \in C, a \in Nested[k + 1][h]
               PROVE  Reads[k + 1][h][a] \subseteq m.arrays
    OBVIOUS
  <2> DEFINE BelowOf(o) == UNION {Reads[k][h][Fields(o)[i]] : i \in DOMAIN Fields(o)}
             base == h[a].basetypes[1]
  <2>1. k + 1 \in Nat /\ (k + 1) - 1 = k /\ a \in Live(h)
    BY <1>0, NestedAt
  <2>2. /\ Shaped(h[a]) /\ h[a] \in Objects
        /\ \A i \in DOMAIN Fields(h[a]) : Fields(h[a])[i] \in Nested[(k + 1) - 1][h]
        /\ \A i \in DOMAIN h[a].basetypes : h[a].basetypes[i] \in Nested[(k + 1) - 1][h]
    BY <1>0, <2>1, WholeObject, NestedAt
  <2>3. \A b \in C \cap Nested[k][h] : Reads[k][h][b] \subseteq m.arrays
    BY <1>2
  <2>4. BelowOf(h[a]) \subseteq m.arrays
    <3>1. \A i \in DOMAIN Fields(h[a]) : Fields(h[a])[i] \in C \cap Nested[k][h]
      BY <1>0, <2>1, <2>2 DEF FieldClosed
    <3> QED
      BY <2>3, <3>1
  <2>5. CASE h[a].kind = "indexed"
    <3>1. Reads[k + 1][h][a] = {h[a].indices_arr} \cup BelowOf(h[a])
      BY <1>0, <2>1, <2>5, ReadsAt
    <3>2. h[a].indices_arr \in m.arrays
      BY <2>5 DEF Armed
    <3> QED
      BY <2>4, <3>1, <3>2
  <2>6. CASE h[a].kind \notin {"indexed", "resized"}
    <3>1. Reads[k + 1][h][a] = BelowOf(h[a])
      BY <1>0, <2>1, <2>6, ReadsAt
    <3> QED
      BY <2>4, <3>1
  <2>7. CASE h[a].kind = "resized"
    <3>1. 1 \in DOMAIN h[a].basetypes
      BY <2>2, <2>7 DEF Shaped, Objects
    <3>2. base \in C /\ base \in Nested[k][h] /\ base \in Live(h)
      BY <2>1, <2>2, <3>1 DEF Closed
    <3>3. k - 1 \in Nat /\ \A i \in DOMAIN Fields(h[base]) : Fields(h[base])[i] \in Nested[k - 1][h]
      BY <1>0, <3>2, WholeObject
    <3>4. Nested[k - 1][h] \subseteq Nested[k][h]
      BY <1>0, <3>3, NestedDeeper
    <3>5. \A i \in DOMAIN Fields(h[base]) : Fields(h[base])[i] \in C \cap Nested[k][h]
      BY <1>0, <3>2, <3>3, <3>4 DEF FieldClosed
    <3>6. BelowOf(h[base]) \subseteq m.arrays
      BY <2>3, <3>5
    <3>7. Reads[k + 1][h][a] = IF h[base].kind \in {"contiguous", "vector"}
                                THEN BelowOf(h[base]) ELSE {}
      BY <1>0, <2>1, <2>7, <3>2, ReadsAt
    <3> QED
      BY <3>6, <3>7
  <2> QED
    BY <2>5, <2>6, <2>7
<1>3. Nat \subseteq S
  <2> HIDE DEF S
  <2> QED
    BY <1>1, <1>2, NatInduct
<1> QED
  BY <1>3

LEMMA ArraysReadExist ==
    ASSUME NEW m \in Memories, NEW a \in Nested[MaxTypes][m.heap], ReadyTree(m, a)
    PROVE  ArraysRead(m.heap, a) \subseteq m.arrays
<1>1. MaxTypes \in Nat
  BY BoundsAssumption
<1>2. PICK C \in SUBSET Live(m.heap) : a \in C /\ Closed(m.heap, C) /\ \A b \in C : Armed(m, b)
  BY DEF ReadyTree
<1> QED
  BY <1>1, <1>2, ReadsReady DEF ArraysRead

-----------------------------------------------------------------------------
(* What holds between two calls of the application.                        *)

\* O are the application's types: the roots of its trees.  Every object of the
\* application's is one of them or a field of another.
Owners(h, O) ==
    /\ Forest(h, Live(h), MaxTypes)
    /\ O \in SUBSET Live(h)
    /\ \A a \in Live(h) : \A i \in DOMAIN h[a].basetypes : h[a].basetypes[i] \notin O
    /\ \A a \in Live(h) \ O : Bare(h[a])
    /\ \A a \in O : h[a].by = "app"
    /\ \A a \in Live(h) : FieldsCredited(h, a)
    /\ \A a \in Live(h) : h[a].by = "app" => a \in O \/ \E b \in Live(h) : AppField(h, b, a)

\* Every function of F belongs to one type of O and one direction, or is one
\* of the dropped functions D.
Accounted(h, F, D, O) ==
    /\ IsFiniteSet(F)
    /\ NULL \notin Names(F)
    /\ D \subseteq Names(F)
    /\ \A t \in O : Code(h[t]) \subseteq Names(F) \ D
    /\ \A f \in Names(F) \ D : \E t \in O : f \in Code(h[t])
    /\ \A t, u \in O : t # u => Code(h[t]) \cap Code(h[u]) = {}
    /\ \A t \in O : h[t].pack = h[t].unpack => h[t].pack = NULL

Sound(m, O) ==
    /\ m \in Memories
    /\ m.fault = FALSE
    /\ Owners(m.heap, O)
    /\ Accounted(m.heap, m.functions, m.dropped, O)
    /\ ArraysCounted(m)
    /\ \A f \in m.functions : f.reads \subseteq m.arrays

\* The types of O are in n what they are in m, and what was compiled stays so.
Follows(m, n, O) ==
    \A t \in O :
        /\ \A k \in Nat : t \in Nested[k][m.heap] => t \in Nested[k][n.heap]
        /\ \A q \in Nat : Value[q][n.heap][t] = Value[q][m.heap][t]
        /\ m.heap[t].pack # NULL => n.heap[t].pack # NULL
        /\ m.heap[t].unpack # NULL => n.heap[t].unpack # NULL

\* What was compiled for the types of S is in n what it is in m.
Untouched(m, n, S) ==
    \A t \in S : n.heap[t].pack = m.heap[t].pack /\ n.heap[t].unpack = m.heap[t].unpack

LEMMA FollowsThen ==
    ASSUME NEW m, NEW x, NEW y, NEW O, Follows(m, x, O), Follows(x, y, O)
    PROVE  Follows(m, y, O)
  BY DEF Follows

\* Trees that did not change are still a forest.
LEMMA ForestKept ==
    ASSUME NEW h \in Heaps, NEW g \in Heaps, NEW k \in Nat, NEW X, Forest(h, X, k),
           X \subseteq Live(g), SameTrees(h, g, X)
    PROVE  Forest(g, X, k)
<1>1. X \in SUBSET Live(g) /\ Closed(h, X) /\ OnePlace(h, X) /\ X \subseteq Nested[k][h]
  BY DEF Forest
<1>2. X \cap Nested[k][h] \subseteq Nested[k][g]
  BY <1>1, NestedKept
<1>3. Closed(g, X)
  BY <1>1 DEF Closed, SameTrees
<1>4. OnePlace(g, X)
  BY <1>1 DEF OnePlace, SameTrees
<1> QED
  BY <1>1, <1>2, <1>3, <1>4 DEF Forest

LEMMA ForestUnion ==
    ASSUME NEW h \in Heaps, NEW k \in Nat, NEW X, NEW Y, Forest(h, X, k), Forest(h, Y, k),
           X \cap Y = {}
    PROVE  Forest(h, X \cup Y, k)
<1>1. /\ Closed(h, X) /\ OnePlace(h, X) /\ X \subseteq Nested[k][h]
      /\ Closed(h, Y) /\ OnePlace(h, Y) /\ Y \subseteq Nested[k][h]
  BY DEF Forest
<1>2. Closed(h, X \cup Y)
  BY <1>1 DEF Closed
<1>3. OnePlace(h, X \cup Y)
  <2> SUFFICES ASSUME NEW a \in X \cup Y, NEW b \in X \cup Y,
                      NEW i \in DOMAIN h[a].basetypes, NEW j \in DOMAIN h[b].basetypes,
                      h[a].basetypes[i] = h[b].basetypes[j]
               PROVE  a = b /\ i = j
    BY DEF OnePlace
  <2>1. (a \in X /\ b \in X) \/ (a \in Y /\ b \in Y)
    BY <1>1 DEF Closed
  <2> QED
    BY <1>1, <2>1 DEF OnePlace
<1> QED
  BY <1>1, <1>2, <1>3 DEF Forest

\* Nothing that m has changes.
LEMMA KeptFollows ==
    ASSUME NEW m \in Memories, NEW n \in Memories, Kept(m, n), NEW O,
           Owners(m.heap, O)
    PROVE  Follows(m, n, O)
<1>1. O \subseteq Live(m.heap) /\ m.heap \in Heaps /\ MaxTypes \in Nat
  BY MemoryTyped, BoundsAssumption DEF Owners
<1>2. \A t \in O : t \in Nested[MaxTypes][m.heap]
  BY <1>1 DEF Owners, Forest
<1>3. \A t \in O : \A q \in Nat : Value[q][n.heap][t] = Value[q][m.heap][t]
  BY <1>1, <1>2, KeptNested
<1>4. \A k \in Nat : Nested[k][m.heap] \subseteq Nested[k][n.heap]
  BY KeptNested
<1>5. \A t \in O : n.heap[t] = m.heap[t]
  BY <1>1 DEF Kept
<1> QED
  BY <1>3, <1>4, <1>5 DEF Follows

\* New trees, the roots P among them the application's.
LEMMA OwnersExtended ==
    ASSUME NEW m \in Memories, NEW n \in Memories, Kept(m, n), NEW O, Owners(m.heap, O),
           Forest(n.heap, Young(m, n), MaxTypes),
           \A a \in Young(m, n) : Bare(n.heap[a]),
           NEW P \in SUBSET Young(m, n),
           \A a \in Young(m, n) : \A i \in DOMAIN n.heap[a].basetypes :
              n.heap[a].basetypes[i] \notin P,
           \A a \in P : n.heap[a].by = "app",
           \A a \in Young(m, n) : FieldsCredited(n.heap, a),
           \A a \in Young(m, n) : n.heap[a].by = "app" =>
              a \in P \/ \E b \in Young(m, n) : AppField(n.heap, b, a)
    PROVE  Owners(n.heap, O \cup P)
<1> DEFINE h == m.heap
           g == n.heap
           X == Live(h)
           Y == Young(m, n)
<1>1. h \in Heaps /\ g \in Heaps /\ MaxTypes \in Nat
  BY MemoryTyped, BoundsAssumption
<1>2. Live(g) = X \cup Y /\ X \cap Y = {} /\ \A a \in X : g[a] = h[a]
  BY DEF Young, Kept
<1>3. Forest(g, Live(g), MaxTypes)
  <2>1. SameTrees(h, g, X) /\ X \subseteq Live(g) /\ Forest(h, X, MaxTypes)
    BY <1>2 DEF SameTrees, Owners
  <2>2. Forest(g, X, MaxTypes)
    BY <1>1, <2>1, ForestKept
  <2> QED
    BY <1>1, <1>2, <2>2, ForestUnion
<1>4. \A a \in X : \A i \in DOMAIN h[a].basetypes : h[a].basetypes[i] \in X \ O
  BY DEF Owners, Forest, Closed
<1>5. \A a \in X \cup Y : \A i \in DOMAIN g[a].basetypes : g[a].basetypes[i] \notin O \cup P
  <2>1. \A a \in X : \A i \in DOMAIN g[a].basetypes : g[a].basetypes[i] \notin O \cup P
    BY <1>2, <1>4
  <2>2. \A a \in Y : \A i \in DOMAIN g[a].basetypes : g[a].basetypes[i] \in Y
    BY DEF Forest, Closed
  <2> QED
    BY <1>2, <2>1, <2>2 DEF Owners
<1>6. \A a \in X \cup Y : a \notin O \cup P => Bare(g[a])
  BY <1>2 DEF Owners
<1>7. \A a \in O \cup P : g[a].by = "app"
  BY <1>2 DEF Owners
<1>8. \A a \in X \cup Y : FieldsCredited(g, a)
  <2> SUFFICES ASSUME NEW a \in X
               PROVE  FieldsCredited(g, a)
    OBVIOUS
  <2>1. h[a] \in Objects
    BY <1>1, HeapFacts
  <2>2. \A i \in DOMAIN Fields(h[a]) : Fields(h[a])[i] \in X
    BY <1>4, <2>1, FieldsFacts
  <2>3. FieldsCredited(h, a)
    BY DEF Owners
  <2> QED
    BY <1>2, <2>2, <2>3 DEF FieldsCredited
<1>9. \A a \in X \cup Y : g[a].by = "app" =>
         a \in O \cup P \/ \E b \in X \cup Y : AppField(g, b, a)
  <2> SUFFICES ASSUME NEW a \in X, g[a].by = "app"
               PROVE  a \in O \/ \E b \in X : AppField(g, b, a)
    OBVIOUS
  <2>1. a \in O \/ \E b \in X : AppField(h, b, a)
    BY <1>2 DEF Owners
  <2> QED
    BY <1>2, <2>1 DEF AppField
<1>10. O \cup P \in SUBSET Live(g)
  BY <1>2 DEF Owners
<1> QED
  BY <1>2, <1>3, <1>5, <1>6, <1>7, <1>8, <1>9, <1>10 DEF Owners

\* The types of P have no code yet.
LEMMA AccountedExtended ==
    ASSUME NEW m, NEW n, Kept(m, n), NEW O \in SUBSET Live(m.heap),
           Accounted(m.heap, m.functions, m.dropped, O),
           NEW P, \A a \in P : Bare(n.heap[a])
    PROVE  Accounted(n.heap, n.functions, n.dropped, O \cup P)
<1>1. \A t \in O : n.heap[t] = m.heap[t]
  BY DEF Kept
<1>2. \A t \in P : Code(n.heap[t]) = {} /\ n.heap[t].pack = NULL
  BY DEF Code, Bare
<1>3. n.functions = m.functions /\ n.dropped = m.dropped
  BY DEF Kept
<1> QED
  BY <1>1, <1>2, <1>3 DEF Accounted

LEMMA SoundExtended ==
    ASSUME NEW m, NEW O, Sound(m, O), NEW n \in Memories, Kept(m, n),
           NEW P \in SUBSET Live(n.heap), \A a \in P : Bare(n.heap[a]), Owners(n.heap, O \cup P)
    PROVE  Sound(n, O \cup P) /\ Follows(m, n, O)
<1>1. m \in Memories /\ Owners(m.heap, O) /\ O \in SUBSET Live(m.heap)
  BY DEF Sound, Owners
<1>2. Follows(m, n, O)
  BY <1>1, KeptFollows
<1>3. Accounted(n.heap, n.functions, n.dropped, O \cup P)
  BY <1>1, AccountedExtended DEF Sound
<1>4. /\ n.fault = FALSE /\ ArraysCounted(n)
      /\ \A f \in n.functions : f.reads \subseteq n.arrays
  BY DEF Sound, Kept, ArraysCounted
<1> QED
  BY <1>2, <1>3, <1>4 DEF Sound

\* The application makes a type.
LEMMA SoundGrown ==
    ASSUME NEW m, NEW O, Sound(m, O), NEW n, NEW k \in Nat, k <= MaxTypes,
           Grown(m, n, k, "app")
    PROVE  /\ Sound(n, O \cup {n.ret}) /\ Follows(m, n, O)
           /\ n.ret \in Nested[k][n.heap] /\ n.ret \notin Live(m.heap)
<1> DEFINE Y == Young(m, n)
           P == {n.ret}
<1>1. /\ m \in Memories /\ Owners(m.heap, O) /\ n \in Memories /\ n.heap \in Heaps
      /\ MaxTypes \in Nat
  BY MemoryTyped, BoundsAssumption DEF Sound, Grown
<1>2. /\ Kept(m, n) /\ Planted(n.heap, Y, n.ret) /\ Y \subseteq Nested[k][n.heap]
      /\ Credited(n.heap, Y, n.ret, "app")
  BY DEF Grown
<1>3. Nested[k][n.heap] \subseteq Nested[MaxTypes][n.heap]
  BY <1>1, NestedDeeper
<1>4. Forest(n.heap, Y, MaxTypes)
  BY <1>2, <1>3 DEF Forest, Planted, Closed
<1>5. n.ret \in Y /\ n.ret \notin Live(m.heap) /\ n.ret \in Live(n.heap)
  BY <1>2 DEF Planted, Young
<1>6. \A a \in Y : Bare(n.heap[a])
  BY <1>2 DEF Planted
<1>7. \A a \in Y : \A i \in DOMAIN n.heap[a].basetypes : n.heap[a].basetypes[i] \notin P
  BY <1>2 DEF Planted
<1>8. \A a \in P : n.heap[a].by = "app"
  BY <1>2 DEF Credited
<1>9. \A a \in Y : FieldsCredited(n.heap, a)
  BY <1>2 DEF Credited, FieldsCredited
<1>10. \A a \in Y : n.heap[a].by = "app" => a \in P \/ \E b \in Y : AppField(n.heap, b, a)
  BY <1>2 DEF Credited
<1>11. Owners(n.heap, O \cup P)
  <2>1. P \in SUBSET Y
    BY <1>5
  <2> HIDE DEF P
  <2> QED
    BY <1>1, <1>2, <1>4, <1>6, <1>7, <1>8, <1>9, <1>10, <2>1, OwnersExtended
<1>12. Sound(n, O \cup P) /\ Follows(m, n, O)
  <2>1. P \in SUBSET Live(n.heap) /\ \A a \in P : Bare(n.heap[a])
    BY <1>5, <1>6
  <2> HIDE DEF P
  <2> QED
    BY <1>1, <1>2, <1>11, <2>1, SoundExtended
<1> QED
  BY <1>2, <1>5, <1>12

\* The library makes trees of its own.
LEMMA SoundLitter ==
    ASSUME NEW m, NEW O, Sound(m, O), NEW n, Litter(m, n)
    PROVE  Sound(n, O) /\ Follows(m, n, O)
<1> DEFINE Y == Young(m, n)
<1>1. m \in Memories /\ Owners(m.heap, O) /\ n \in Memories /\ Kept(m, n)
  BY DEF Sound, Litter
<1>2. /\ Forest(n.heap, Y, MaxTypes)
      /\ \A a \in Y : Bare(n.heap[a]) /\ n.heap[a].by # "app"
  BY DEF Litter
<1>3. \A a \in Y : FieldsCredited(n.heap, a)
  BY <1>2 DEF FieldsCredited
<1> DEFINE P == {}
<1>4. P \in SUBSET Y /\ P \in SUBSET Live(n.heap) /\ (\A a \in P : FALSE) /\ O \cup P = O
  OBVIOUS
<1> HIDE DEF P
<1>5. Owners(n.heap, O \cup P)
  BY <1>1, <1>2, <1>3, <1>4, OwnersExtended
<1>6. Sound(n, O \cup P) /\ Follows(m, n, O)
  BY <1>1, <1>4, <1>5, SoundExtended
<1> QED
  BY <1>4, <1>6

\* n differs from m in arrays and in the pointers of objects.
LEMMA OwnersRetouched ==
    ASSUME NEW m \in Memories, NEW n \in Memories, NEW O, Owners(m.heap, O),
           Live(n.heap) = Live(m.heap), SameTrees(m.heap, n.heap, Live(m.heap)),
           \A a \in Live(m.heap) : n.heap[a].by = m.heap[a].by,
           \A a \in Live(m.heap) \ O : Bare(n.heap[a])
    PROVE  /\ Owners(n.heap, O)
           /\ \A t \in O : /\ \A k \in Nat : t \in Nested[k][m.heap] => t \in Nested[k][n.heap]
                           /\ \A q \in Nat : Value[q][n.heap][t] = Value[q][m.heap][t]
<1> DEFINE h == m.heap
           g == n.heap
           X == Live(h)
<1>1. h \in Heaps /\ g \in Heaps /\ MaxTypes \in Nat
  BY MemoryTyped, BoundsAssumption
<1>2. /\ Forest(h, X, MaxTypes) /\ O \in SUBSET X /\ X \in SUBSET Live(g) /\ Closed(h, X)
      /\ X \subseteq Live(h)
  BY DEF Owners, Forest
<1>3. Forest(g, Live(g), MaxTypes)
  BY <1>1, <1>2, ForestKept
<1>4. \A a \in X : g[a].basetypes = h[a].basetypes /\ Fields(g[a]) = Fields(h[a])
                   /\ g[a].by = h[a].by
  BY DEF SameTrees, Fields
<1>5. \A a \in Live(g) : \A i \in DOMAIN g[a].basetypes : g[a].basetypes[i] \notin O
  BY <1>4 DEF Owners
<1>6. \A a \in O : g[a].by = "app"
  BY <1>2, <1>4 DEF Owners
<1>7. \A a \in X : \A i \in DOMAIN Fields(h[a]) : Fields(h[a])[i] \in X
  <2>1. FieldClosed(h, X)
    BY <1>1, <1>2, ClosedFields
  <2> QED
    BY <2>1 DEF FieldClosed
<1>8. \A a \in X : FieldsCredited(g, a)
  BY <1>4, <1>7 DEF Owners, FieldsCredited
<1>9. \A a \in X : g[a].by = "app" => a \in O \/ \E b \in X : AppField(g, b, a)
  <2> SUFFICES ASSUME NEW a \in X, g[a].by = "app"
               PROVE  a \in O \/ \E b \in X : AppField(g, b, a)
    OBVIOUS
  <2>1. a \in O \/ \E b \in X : AppField(h, b, a)
    BY <1>4 DEF Owners
  <2> QED
    BY <1>4, <2>1 DEF AppField
<1>10. Owners(g, O)
  BY <1>2, <1>3, <1>5, <1>6, <1>8, <1>9 DEF Owners
<1>11. \A k \in Nat : X \cap Nested[k][h] \subseteq Nested[k][g]
  BY <1>1, <1>2, NestedKept
<1>12. \A q \in Nat : \A a \in X : Value[q][g][a] = Value[q][h][a]
  BY <1>1, <1>2, ValueKept
<1> QED
  BY <1>2, <1>10, <1>11, <1>12

LEMMA SoundArming ==
    ASSUME NEW m, NEW O, Sound(m, O), NEW n, Arming(m, n)
    PROVE  Sound(n, O) /\ Follows(m, n, O)
<1>1. m \in Memories /\ n \in Memories /\ Owners(m.heap, O) /\ O \in SUBSET Live(m.heap)
  BY DEF Sound, Arming, Owners
<1>2. /\ Live(n.heap) = Live(m.heap) /\ SameTrees(m.heap, n.heap, Live(m.heap))
      /\ \A a \in Live(m.heap) : Alike(m.heap[a], n.heap[a])
  BY <1>1, ArmingTrees DEF Arming
<1>3. \A a \in Live(m.heap) : n.heap[a].by = m.heap[a].by
  BY <1>2 DEF Alike
<1>4. \A a \in Live(m.heap) \ O : Bare(n.heap[a])
  BY <1>1, <1>2 DEF Alike, Bare, Owners
<1>5. /\ Owners(n.heap, O)
      /\ \A t \in O : /\ \A k \in Nat : t \in Nested[k][m.heap] => t \in Nested[k][n.heap]
                      /\ \A q \in Nat : Value[q][n.heap][t] = Value[q][m.heap][t]
  BY <1>1, <1>2, <1>3, <1>4, OwnersRetouched
<1>6. \A t \in O : n.heap[t].pack = m.heap[t].pack /\ n.heap[t].unpack = m.heap[t].unpack
  BY <1>1, <1>2 DEF Alike
<1>7. \A t \in O : Code(n.heap[t]) = Code(m.heap[t])
  BY <1>6 DEF Code
<1>8. Accounted(n.heap, n.functions, n.dropped, O)
  <2>1. n.functions = m.functions /\ n.dropped = m.dropped
    BY DEF Arming
  <2> QED
    BY <1>6, <1>7, <2>1 DEF Sound, Accounted
<1>9. n.fault = FALSE /\ ArraysCounted(n) /\ \A f \in n.functions : f.reads \subseteq n.arrays
  BY DEF Sound, Arming
<1>10. Follows(m, n, O)
  BY <1>5, <1>6 DEF Follows
<1> QED
  BY <1>1, <1>5, <1>8, <1>9, <1>10 DEF Sound

\* e is m with one more function, f, for which this has a new pointer.
Emitting(m, e, this, which, f) ==
    /\ e \in Memories
    /\ f \in Nat /\ f # NULL /\ f \notin Names(m.functions)
    /\ Names(e.functions) = Names(m.functions) \cup {f}
    /\ IsFiniteSet(e.functions)
    /\ \A g \in e.functions : g \in m.functions \/ g.reads \subseteq m.arrays
    /\ e.dropped = m.dropped \cup ({Pointer(m.heap[this], which)} \ {NULL})
    /\ e.arrays = m.arrays /\ e.fault = m.fault
    /\ Live(e.heap) = Live(m.heap)
    /\ \A a \in Live(m.heap) : a # this => e.heap[a] = m.heap[a]
    /\ e.heap[this] = Pointing(m.heap[this], which, f)

\* Only the pointer that is set differs.
LEMMA PointingFacts ==
    ASSUME NEW o \in Objects, NEW which \in {"pack", "unpack"}, NEW f \in Nat
    PROVE  /\ Pointing(o, which, f) \in Objects
           /\ Pointing(o, which, f).kind = o.kind
           /\ Pointing(o, which, f).tight = o.tight
           /\ Pointing(o, which, f).basetypes = o.basetypes
           /\ Pointing(o, which, f).indices_arr = o.indices_arr
           /\ Pointing(o, which, f).by = o.by
           /\ Pointing(o, which, f).pack = IF which = "pack" THEN f ELSE o.pack
           /\ Pointing(o, which, f).unpack = IF which = "unpack" THEN f ELSE o.unpack
           /\ Pointer(o, which) \in Nat
<1>1. CASE which = "pack"
  BY <1>1 DEF Objects, Pointing, Pointer
<1>2. CASE which = "unpack"
  BY <1>2 DEF Objects, Pointing, Pointer
<1> QED
  BY <1>1, <1>2

LEMMA NamesFinite ==
    ASSUME NEW F, IsFiniteSet(F)
    PROVE  IsFiniteSet(Names(F))
<1> DEFINE f == [x \in F |-> x.name]
<1>1. f \in Surjection(F, Names(F))
  BY DEF Names, Surjection
<1> HIDE DEF f
<1> QED
  BY <1>1, FS_Surjection

LEMMA EmitEmits ==
    ASSUME NEW m \in Memories, IsFiniteSet(m.functions), ArraysCounted(m),
           NEW this \in Live(m.heap), NEW which \in {"pack", "unpack"},
           NEW ddt, ArraysRead(m.heap, ddt) \subseteq m.arrays
    PROVE  \E f : Emitting(m, Emit(m, this, which, ddt), this, which, f)
<1> DEFINE h == m.heap
           F == m.functions
           f == Unused(Names(F))
           reads == ArraysRead(h, ddt)
           new == [name |-> f, reads |-> reads]
           o == Pointing(h[this], which, f)
           g == [h EXCEPT ![this] = o]
           G == F \cup {new}
           D == m.dropped \cup ({Pointer(h[this], which)} \ {NULL})
           e == Emit(m, this, which, ddt)
<1>1. /\ h \in Heaps /\ F \in SUBSET Functions /\ m.arrays \in SUBSET Nat
      /\ m.dropped \in SUBSET Nat /\ m.fault \in BOOLEAN
  BY MemoryTyped
<1>2. this \in DOMAIN h /\ h[this] \in Objects /\ h[this].kind # "deleted"
  BY <1>1, HeapFacts DEF Live
<1>3. IsFiniteSet(Names(F))
  BY NamesFinite
<1>4. f \in Nat /\ f # NULL /\ f \notin Names(F)
  <2>1. f \in 1 .. Cardinality(Names(F)) + 1 /\ f \notin Names(F)
        /\ Cardinality(Names(F)) \in Nat
    BY <1>3, UnusedFresh
  <2> QED
    BY <2>1 DEF NULL
<1> HIDE DEF f
<1>5. reads \in SUBSET Nat /\ reads \subseteq m.arrays /\ NULL \notin reads
  BY <1>1 DEF ArraysCounted
<1>6. e = [m EXCEPT !.functions = G, !.dropped = D, !.heap = g, !.fault = @ \/ NULL \in reads]
  BY DEF Emit, f
<1> HIDE DEF e, reads, h
<1>7. new \in Functions /\ new.name = f /\ new.reads = reads
  BY <1>4, <1>5 DEF Functions
<1> HIDE DEF new
<1>8. G \in SUBSET Functions /\ IsFiniteSet(G) /\ Names(G) = Names(F) \cup {f}
  BY <1>1, <1>7, FS_AddElement DEF Names
<1>9. o \in Objects /\ o.kind # "deleted" /\ Pointer(h[this], which) \in Nat
  BY <1>2, <1>4, PointingFacts
<1>10. D \in SUBSET Nat
  BY <1>1, <1>9
<1> HIDE DEF o
<1>11. /\ g \in Heaps /\ Live(g) = Live(h) \cup {this} /\ g[this] = o
       /\ \A y \in DOMAIN h : y # this => g[y] = h[y]
  BY <1>1, <1>2, <1>9, ChangeFacts
<1>12. (m.fault \/ NULL \in reads) = m.fault
  BY <1>1, <1>5
<1> HIDE DEF g, D, G
<1>13. e = [m EXCEPT !.functions = G, !.dropped = D, !.heap = g, !.fault = m.fault]
  BY <1>6, <1>12
<1>14. /\ e \in Memories /\ e.heap = g /\ e.functions = G /\ e.dropped = D
       /\ e.arrays = m.arrays /\ e.fault = m.fault
  BY <1>1, <1>8, <1>10, <1>11, <1>13 DEF Memories
<1>15. Live(g) = Live(h) /\ \A y \in Live(h) : y # this => g[y] = h[y]
  <2>1. this \in Live(h) /\ \A y \in Live(h) : y \in DOMAIN h
    BY DEF Live, h
  <2> QED
    BY <1>11, <2>1
<1>16. \A x \in G : x \in F \/ x.reads \subseteq m.arrays
  BY <1>5, <1>7 DEF G
<1>17. Emitting(m, e, this, which, f)
  BY <1>4, <1>8, <1>11, <1>14, <1>15, <1>16 DEF Emitting, D, o, h
<1> QED
  BY <1>17 DEF e

\* One function more is accounted for.
LEMMA AccountedEmitted ==
    ASSUME NEW m, NEW O, Sound(m, O), NEW this \in O, NEW which \in {"pack", "unpack"},
           NEW f, NEW e, Emitting(m, e, this, which, f)
    PROVE  Accounted(e.heap, e.functions, e.dropped, O)
<1> DEFINE h == m.heap
           g == e.heap
           F == Names(m.functions)
           D == m.dropped
           old == Pointer(h[this], which)
<1>1. /\ m.heap \in Heaps /\ O \subseteq Live(h)
      /\ NULL \notin F /\ D \subseteq F
      /\ \A t \in O : Code(h[t]) \subseteq F \ D
      /\ \A x \in F \ D : \E t \in O : x \in Code(h[t])
      /\ \A t, u \in O : t # u => Code(h[t]) \cap Code(h[u]) = {}
      /\ \A t \in O : h[t].pack = h[t].unpack => h[t].pack = NULL
  BY MemoryTyped DEF Sound, Owners, Accounted
<1>2. /\ f \in Nat /\ f # NULL /\ f \notin F /\ Names(e.functions) = F \cup {f}
      /\ IsFiniteSet(e.functions) /\ e.dropped = D \cup ({old} \ {NULL})
      /\ \A t \in O : t # this => g[t] = h[t]
      /\ g[this] = Pointing(h[this], which, f)
  BY <1>1 DEF Emitting
<1>3. h[this] \in Objects
  BY <1>1, HeapFacts
<1>4. /\ g[this].pack = IF which = "pack" THEN f ELSE h[this].pack
      /\ g[this].unpack = IF which = "unpack" THEN f ELSE h[this].unpack
  <2> DEFINE o == h[this]
             p == Pointing(o, which, f)
  <2>1. g[this] = p /\ f \in Nat /\ o \in Objects
    BY <1>2, <1>3
  <2> HIDE DEF o, h, g
  <2>2. /\ p.pack = IF which = "pack" THEN f ELSE o.pack
        /\ p.unpack = IF which = "unpack" THEN f ELSE o.unpack
    BY <2>1, PointingFacts, ZenonT(60)
  <2> HIDE DEF p
  <2> QED
    BY <2>1, <2>2 DEF o
<1>5. old # NULL => old \in Code(h[this])
  BY DEF Code, Pointer
<1>6. Code(g[this]) = (Code(h[this]) \ {old}) \cup {f}
  <2>1. h[this].pack = h[this].unpack => h[this].pack = NULL
    BY <1>1
  <2>2. CASE which = "pack"
    BY <1>2, <1>4, <2>1, <2>2 DEF Code, Pointer
  <2>3. CASE which = "unpack"
    BY <1>2, <1>4, <2>1, <2>3 DEF Code, Pointer
  <2> QED
    BY <2>2, <2>3
<1>7. f \notin Code(h[this]) /\ h[this].pack # f /\ h[this].unpack # f
  <2>1. f \notin Code(h[this])
    BY <1>1, <1>2
  <2> QED
    BY <1>2, <2>1 DEF Code
<1>8. g[this].pack = g[this].unpack => g[this].pack = NULL
  BY <1>4, <1>7
<1> HIDE DEF h, g, F, D, old
<1>9. NULL \notin F \cup {f} /\ e.dropped \subseteq F \cup {f}
  BY <1>1, <1>2, <1>5
<1>10. \A t \in O : Code(g[t]) \subseteq (F \cup {f}) \ e.dropped
  <2>1. ASSUME NEW t \in O, t # this
        PROVE  Code(g[t]) \subseteq (F \cup {f}) \ e.dropped
    <3>1. g[t] = h[t] /\ Code(h[t]) \cap Code(h[this]) = {}
      BY <1>1, <1>2, <2>1
    <3>2. NULL \notin Code(h[t])
      BY <1>1
    <3> QED
      BY <1>1, <1>2, <1>5, <3>1, <3>2
  <2>2. Code(g[this]) \subseteq (F \cup {f}) \ e.dropped
    <3>1. f \notin D /\ f # old
      BY <1>1, <1>2, <1>5
    <3> QED
      BY <1>1, <1>2, <1>6, <3>1
  <2> QED
    BY <2>1, <2>2
<1>11. \A x \in (F \cup {f}) \ e.dropped : \E t \in O : x \in Code(g[t])
  <2> SUFFICES ASSUME NEW x \in F, x \notin e.dropped
               PROVE  \E t \in O : x \in Code(g[t])
    BY <1>6
  <2>1. PICK t \in O : x \in Code(h[t])
    BY <1>1, <1>2
  <2>2. x # old
    BY <1>1, <1>2
  <2>3. x \in Code(g[t])
    BY <1>2, <1>6, <2>1, <2>2
  <2> QED
    BY <2>3
<1>12. \A t, u \in O : t # u => Code(g[t]) \cap Code(g[u]) = {}
  <2>1. ASSUME NEW t \in O, NEW u \in O, t # u, u # this
        PROVE  Code(g[t]) \cap Code(g[u]) = {}
    <3>1. g[u] = h[u] /\ Code(h[t]) \cap Code(h[u]) = {} /\ f \notin Code(h[u])
      BY <1>1, <1>2, <2>1
    <3>2. Code(g[t]) \subseteq Code(h[t]) \cup {f}
      BY <1>2, <1>6
    <3> QED
      BY <3>1, <3>2
  <2> QED
    BY <2>1
<1>13. \A t \in O : g[t].pack = g[t].unpack => g[t].pack = NULL
  BY <1>1, <1>2, <1>8
<1> QED
  BY <1>2, <1>9, <1>10, <1>11, <1>12, <1>13 DEF Accounted, g

\* A function is generated for the application's type this.
LEMMA SoundEmitted ==
    ASSUME NEW m, NEW O, Sound(m, O), NEW this \in O, NEW which \in {"pack", "unpack"},
           NEW f, NEW e, Emitting(m, e, this, which, f)
    PROVE  /\ Sound(e, O) /\ Follows(m, e, O)
           /\ Pointer(e.heap[this], which) # NULL
           /\ SameTrees(m.heap, e.heap, Live(m.heap)) /\ Live(e.heap) = Live(m.heap)
           /\ \A a \in Live(m.heap) : e.heap[a].indices_arr = m.heap[a].indices_arr
           /\ e.arrays = m.arrays
<1> DEFINE h == m.heap
           g == e.heap
<1>1. /\ m \in Memories /\ e \in Memories /\ h \in Heaps /\ Owners(h, O)
      /\ this \in Live(h) /\ O \subseteq Live(h) /\ Live(g) = Live(h) /\ f \in Nat /\ f # NULL
  BY MemoryTyped DEF Sound, Owners, Emitting
<1>2. h[this] \in Objects
  BY <1>1, HeapFacts
<1>3. \A a \in Live(h) : a # this => g[a] = h[a]
  BY DEF Emitting
<1>4. /\ g[this].kind = h[this].kind /\ g[this].tight = h[this].tight
      /\ g[this].basetypes = h[this].basetypes /\ g[this].by = h[this].by
      /\ g[this].indices_arr = h[this].indices_arr
      /\ g[this].pack = IF which = "pack" THEN f ELSE h[this].pack
      /\ g[this].unpack = IF which = "unpack" THEN f ELSE h[this].unpack
  <2> DEFINE o == h[this]
             p == Pointing(o, which, f)
  <2>1. g[this] = p /\ f \in Nat /\ o \in Objects
    BY <1>1, <1>2 DEF Emitting
  <2> HIDE DEF o, h, g
  <2>2. /\ p.kind = o.kind /\ p.tight = o.tight /\ p.basetypes = o.basetypes
        /\ p.by = o.by /\ p.indices_arr = o.indices_arr
        /\ p.pack = IF which = "pack" THEN f ELSE o.pack
        /\ p.unpack = IF which = "unpack" THEN f ELSE o.unpack
    BY <2>1, PointingFacts, ZenonT(60)
  <2> HIDE DEF p
  <2> QED
    BY <2>1, <2>2 DEF o
<1>5. SameTrees(h, g, Live(h))
  BY <1>3, <1>4 DEF SameTrees
<1>6. \A a \in Live(h) : g[a].by = h[a].by /\ g[a].indices_arr = h[a].indices_arr
  BY <1>3, <1>4
<1>7. \A a \in Live(h) \ O : Bare(g[a])
  BY <1>1, <1>3 DEF Owners
<1>8. /\ Owners(g, O)
      /\ \A t \in O : /\ \A k \in Nat : t \in Nested[k][h] => t \in Nested[k][g]
                      /\ \A q \in Nat : Value[q][g][t] = Value[q][h][t]
  <2>1. \A a \in Live(h) : g[a].by = h[a].by
    BY <1>6
  <2>2. /\ m \in Memories /\ e \in Memories
        /\ Owners(m.heap, O) /\ Live(e.heap) = Live(m.heap)
        /\ SameTrees(m.heap, e.heap, Live(m.heap))
        /\ \A a \in Live(m.heap) : e.heap[a].by = m.heap[a].by
        /\ \A a \in Live(m.heap) \ O : Bare(e.heap[a])
    BY <1>1, <1>5, <1>7, <2>1
  <2> HIDE DEF h, g
  <2>3. /\ Owners(e.heap, O)
        /\ \A t \in O : /\ \A k \in Nat : t \in Nested[k][m.heap] => t \in Nested[k][e.heap]
                        /\ \A q \in Nat : Value[q][e.heap][t] = Value[q][m.heap][t]
    BY <2>2, OwnersRetouched
  <2> QED
    BY <2>3 DEF h, g
<1>9. Accounted(g, e.functions, e.dropped, O)
  BY AccountedEmitted
<1>10. /\ e.fault = FALSE /\ ArraysCounted(e) /\ e.arrays = m.arrays
       /\ \A x \in e.functions : x.reads \subseteq e.arrays
  BY DEF Sound, Emitting, ArraysCounted
<1>11. Pointer(g[this], which) # NULL
  BY <1>1, <1>4 DEF Pointer
<1>12. \A t \in O : /\ h[t].pack # NULL => g[t].pack # NULL
                    /\ h[t].unpack # NULL => g[t].unpack # NULL
  BY <1>1, <1>3, <1>4
<1>13. Follows(m, e, O)
  BY <1>8, <1>12 DEF Follows
<1> QED
  BY <1>1, <1>5, <1>6, <1>8, <1>9, <1>10, <1>11, <1>13 DEF Sound

\* ~Datatype of the object a.
IsFreed(m, n, a) ==
    /\ n \in Memories
    /\ Live(n.heap) = Live(m.heap) \ {a}
    /\ \A x \in Live(m.heap) \ {a} : n.heap[x] = m.heap[x]
    /\ n.functions = {f \in m.functions : f.name \notin Code(m.heap[a])}
    /\ n.fault = (m.fault \/ ~(Code(m.heap[a]) \subseteq Names(m.functions)))
    /\ n.arrays = m.arrays /\ n.dropped = m.dropped

LEMMA FreedFacts ==
    ASSUME NEW m \in Memories, NEW a \in DOMAIN m.heap
    PROVE  IsFreed(m, Freed(m, a), a)
<1> DEFINE n == Freed(m, a)
           d == Object("deleted", FALSE, "library")
           g == [m.heap EXCEPT ![a] = d]
           code == Code(m.heap[a])
           F == {f \in m.functions : f.name \notin code}
           b == m.fault \/ ~(code \subseteq Names(m.functions))
<1>1. d \in Objects /\ d.kind = "deleted"
  BY ObjectTyped DEF Makers
<1>2. m.heap \in Heaps /\ m.functions \in SUBSET Functions
  BY MemoryTyped
<1>3. n = [m EXCEPT !.heap = g, !.functions = F, !.fault = b]
  BY DEF Freed
<1>4. F \in SUBSET Functions /\ b \in BOOLEAN
  BY <1>2
<1> HIDE DEF d, n
<1>5. g \in Heaps /\ Live(g) = Live(m.heap) \ {a} /\ \A x \in DOMAIN m.heap : x # a => g[x] = m.heap[x]
  BY <1>1, <1>2, ChangeFacts
<1> HIDE DEF F, b, g
<1>6. /\ n \in Memories /\ n.heap = g /\ n.functions = F /\ n.fault = b
      /\ n.arrays = m.arrays /\ n.dropped = m.dropped
  BY <1>3, <1>4, <1>5 DEF Memories
<1>7. \A x \in Live(m.heap) \ {a} : n.heap[x] = m.heap[x]
  BY <1>5, <1>6 DEF Live
<1> QED
  BY <1>5, <1>6, <1>7 DEF IsFreed, n, F, b

\* Nobody owns r, a type of the application or a tree of the library's.
Ownerless(m, r) == Root(m.heap, Live(m.heap), r)

\* What deleting such a tree takes away.
LEMMA DeleteTakes ==
    ASSUME NEW m, NEW O, Sound(m, O), NEW r, Ownerless(m, r),
           NEW n, n = Delete(m, r)
    PROVE  /\ n \in Memories
           /\ Live(n.heap) = Live(m.heap) \ Below(m.heap, r)
           /\ \A x \in Live(n.heap) : n.heap[x] = m.heap[x]
           /\ n.functions = {f \in m.functions : f.name \notin Code(m.heap[r])}
           /\ n.fault = FALSE /\ n.arrays = m.arrays /\ n.dropped = m.dropped
           /\ Below(m.heap, r) \cap O \subseteq {r} /\ r \in Below(m.heap, r)
           /\ r \notin O => Code(m.heap[r]) = {}
<1> DEFINE h == m.heap
           X == Live(h)
           B == Below(h, r)
           x == Erased(m, B \ {r})
<1>1. /\ m \in Memories /\ h \in Heaps /\ MaxTypes \in Nat /\ m.fault = FALSE
      /\ Forest(h, X, MaxTypes) /\ r \in X
      /\ Owners(h, O) /\ O \subseteq X
  BY MemoryTyped, BoundsAssumption DEF Sound, Owners, Ownerless, Root
<1>2. r \in B /\ B \subseteq X
  <2>1. r \in Nested[MaxTypes][h]
    BY <1>1 DEF Forest
  <2> QED
    BY <1>1, <2>1, BelowNested
<1>3. B \cap O \subseteq {r}
  <2> SUFFICES ASSUME NEW b \in B, b \in O, b # r
               PROVE  FALSE
    OBVIOUS
  <2>1. \E c \in B : \E i \in DOMAIN h[c].basetypes : h[c].basetypes[i] = b
    BY <1>1, BelowRoot
  <2> QED
    BY <1>1, <1>2, <2>1 DEF Owners
<1>4. \A b \in B \ {r} : Bare(h[b])
  BY <1>1, <1>2, <1>3 DEF Owners
<1>5. n = Freed(x, r)
  BY <1>1, <1>4, DeleteErases
<1>6. IsErased(m, x, B \ {r})
  BY <1>1, ErasedFacts
<1> HIDE DEF x
<1>7. /\ x \in Memories /\ Live(x.heap) = X \ (B \ {r}) /\ DOMAIN x.heap = DOMAIN h
      /\ \A y \in Live(x.heap) : x.heap[y] = h[y]
      /\ x.functions = m.functions /\ x.arrays = m.arrays
      /\ x.dropped = m.dropped /\ x.fault = FALSE
  <2>1. X \subseteq DOMAIN h
    BY DEF Live
  <2> QED
    BY <1>1, <1>6, <2>1 DEF IsErased
<1>8. r \in DOMAIN x.heap /\ r \in Live(x.heap) /\ x.heap[r] = h[r]
  <2>1. r \in DOMAIN h
    BY <1>1 DEF Live
  <2> QED
    BY <1>1, <1>7, <2>1
<1>9. IsFreed(x, n, r)
  BY <1>5, <1>7, <1>8, FreedFacts
<1>10. Code(h[r]) \subseteq Names(m.functions) /\ (r \notin O => Code(h[r]) = {})
  <2>1. CASE r \in O
    BY <2>1 DEF Sound, Accounted
  <2>2. CASE r \notin O
    BY <1>1, <2>2 DEF Owners, Bare, Code
  <2> QED
    BY <2>1, <2>2
<1>11. n.fault = FALSE
  BY <1>7, <1>8, <1>9, <1>10 DEF IsFreed
<1>12. Live(n.heap) = X \ B /\ \A y \in Live(n.heap) : n.heap[y] = h[y]
  BY <1>2, <1>7, <1>9 DEF IsFreed
<1> QED
  BY <1>2, <1>3, <1>7, <1>8, <1>9, <1>10, <1>11, <1>12 DEF IsFreed

\* The owners that are left.
LEMMA OwnersLeft ==
    ASSUME NEW m, NEW O, Sound(m, O), NEW r, Ownerless(m, r), NEW n \in Memories,
           Live(n.heap) = Live(m.heap) \ Below(m.heap, r),
           \A x \in Live(n.heap) : n.heap[x] = m.heap[x],
           Below(m.heap, r) \cap O \subseteq {r}, r \in Below(m.heap, r)
    PROVE  Owners(n.heap, O \ {r}) /\ Follows(m, n, O \ {r})
<1> DEFINE h == m.heap
           g == n.heap
           B == Below(h, r)
           X == Live(h) \ B
<1>1. /\ m \in Memories /\ h \in Heaps /\ g \in Heaps /\ MaxTypes \in Nat
      /\ Forest(h, Live(h), MaxTypes) /\ Owners(h, O) /\ O \subseteq Live(h)
      /\ Root(h, Live(h), r) /\ r \in Live(h)
  BY MemoryTyped, BoundsAssumption DEF Sound, Owners, Ownerless, Root
<1>2. Live(g) = X /\ \A x \in X : g[x] = h[x]
  OBVIOUS
<1>3. Closed(h, X)
  BY <1>1, RestClosed
<1>4. X \in SUBSET Live(g) /\ X \subseteq Live(h) /\ SameTrees(h, g, X)
  BY <1>2 DEF SameTrees
<1>5. Forest(h, X, MaxTypes)
  BY <1>1, <1>3 DEF Forest, OnePlace
<1>6. Forest(g, X, MaxTypes)
  BY <1>1, <1>4, <1>5, ForestKept
<1>7. O \ {r} \subseteq X
  BY <1>1
<1>8. \A a \in X : FieldsCredited(g, a)
  <2>1. FieldClosed(h, X)
    BY <1>1, <1>3, ClosedFields
  <2> QED
    BY <1>1, <1>2, <2>1 DEF Owners, FieldsCredited, FieldClosed
<1>9. \A a \in X : g[a].by = "app" => a \in O \ {r} \/ \E b \in X : AppField(g, b, a)
  <2> SUFFICES ASSUME NEW a \in X, g[a].by = "app", a \notin O \ {r}
               PROVE  \E b \in X : AppField(g, b, a)
    OBVIOUS
  <2>1. a \notin O /\ h[a].by = "app"
    BY <1>2
  <2>2. PICK b \in Live(h) : AppField(h, b, a)
    BY <1>1, <2>1 DEF Owners
  <2>3. b \notin B
    <3>1. FieldClosed(h, B)
      <4>1. r \in Nested[MaxTypes][h]
        BY <1>1 DEF Forest
      <4> QED
        BY <1>1, <4>1, BelowNested
    <3> QED
      BY <2>2, <3>1 DEF AppField, FieldClosed
  <2> QED
    BY <1>2, <2>2, <2>3 DEF AppField
<1>10. Owners(g, O \ {r})
  <2>1. \A a \in X : \A i \in DOMAIN g[a].basetypes : g[a].basetypes[i] \notin O \ {r}
    BY <1>1, <1>2 DEF Owners
  <2>2. \A a \in X \ (O \ {r}) : Bare(g[a])
    BY <1>1, <1>2 DEF Owners
  <2>3. \A a \in O \ {r} : g[a].by = "app"
    BY <1>1, <1>2, <1>7 DEF Owners
  <2> QED
    BY <1>2, <1>6, <1>7, <1>8, <1>9, <2>1, <2>2, <2>3 DEF Owners
<1>11. \A k \in Nat : X \cap Nested[k][h] \subseteq Nested[k][g]
  BY <1>1, <1>3, <1>4, NestedKept
<1>12. \A q \in Nat : \A a \in X : Value[q][g][a] = Value[q][h][a]
  BY <1>1, <1>3, <1>4, ValueKept
<1>13. Follows(m, n, O \ {r})
  BY <1>2, <1>7, <1>11, <1>12 DEF Follows
<1> QED
  BY <1>10, <1>13

\* A type of the application's or a tree of the library's is deleted.
LEMMA SoundDeleted ==
    ASSUME NEW m, NEW O, Sound(m, O), NEW r, Ownerless(m, r)
    PROVE  Sound(Delete(m, r), O \ {r}) /\ Follows(m, Delete(m, r), O \ {r})
<1> DEFINE n == Delete(m, r)
           h == m.heap
           F == Names(m.functions)
           G == Names(n.functions)
<1>1. /\ n \in Memories
      /\ Live(n.heap) = Live(m.heap) \ Below(m.heap, r)
      /\ \A x \in Live(n.heap) : n.heap[x] = m.heap[x]
      /\ n.functions = {f \in m.functions : f.name \notin Code(m.heap[r])}
      /\ n.fault = FALSE /\ n.arrays = m.arrays /\ n.dropped = m.dropped
      /\ Below(m.heap, r) \cap O \subseteq {r} /\ r \in Below(m.heap, r)
      /\ r \notin O => Code(m.heap[r]) = {}
  BY DeleteTakes
<1> HIDE DEF n
<1>2. Owners(n.heap, O \ {r}) /\ Follows(m, n, O \ {r})
  BY <1>1, OwnersLeft
<1>3. /\ IsFiniteSet(m.functions) /\ NULL \notin F /\ m.dropped \subseteq F
      /\ \A t \in O : Code(h[t]) \subseteq F \ m.dropped
      /\ \A f \in F \ m.dropped : \E t \in O : f \in Code(h[t])
      /\ \A t, u \in O : t # u => Code(h[t]) \cap Code(h[u]) = {}
      /\ \A t \in O : h[t].pack = h[t].unpack => h[t].pack = NULL
  BY DEF Sound, Accounted
<1>4. G = F \ Code(h[r])
  BY <1>1 DEF Names
<1>5. IsFiniteSet(n.functions)
  BY <1>1, <1>3, FS_Subset
<1>6. \A t \in O \ {r} : n.heap[t] = h[t]
  BY <1>1, <1>2 DEF Owners
<1>7. Accounted(n.heap, n.functions, n.dropped, O \ {r})
  <2>1. NULL \notin G /\ n.dropped \subseteq G
    BY <1>1, <1>3, <1>4
  <2>2. \A t \in O \ {r} : Code(n.heap[t]) \subseteq G \ n.dropped
    BY <1>1, <1>3, <1>4, <1>6
  <2>3. \A f \in G \ n.dropped : \E t \in O \ {r} : f \in Code(n.heap[t])
    <3> SUFFICES ASSUME NEW f \in G \ n.dropped
                 PROVE  \E t \in O \ {r} : f \in Code(n.heap[t])
      OBVIOUS
    <3>1. f \in F \ m.dropped /\ f \notin Code(h[r])
      BY <1>1, <1>4
    <3>2. PICK t \in O : f \in Code(h[t])
      BY <1>3, <3>1
    <3>3. t # r
      BY <3>1, <3>2
    <3> QED
      BY <1>6, <3>2, <3>3
  <2>4. \A t, u \in O \ {r} : t # u => Code(n.heap[t]) \cap Code(n.heap[u]) = {}
    BY <1>3, <1>6
  <2>5. \A t \in O \ {r} : n.heap[t].pack = n.heap[t].unpack => n.heap[t].pack = NULL
    BY <1>3, <1>6
  <2> QED
    BY <1>5, <2>1, <2>2, <2>3, <2>4, <2>5 DEF Accounted
<1>8. ArraysCounted(n) /\ \A f \in n.functions : f.reads \subseteq n.arrays
  BY <1>1 DEF Sound, ArraysCounted
<1> QED
  BY <1>1, <1>2, <1>7, <1>8 DEF Sound, n

\* The code of the others stays.
LEMMA DeleteUntouched ==
    ASSUME NEW m, NEW O, Sound(m, O), NEW r, Ownerless(m, r), r \notin O
    PROVE  Untouched(m, Delete(m, r), O)
<1> DEFINE n == Delete(m, r)
<1>1. /\ n \in Memories
      /\ Live(n.heap) = Live(m.heap) \ Below(m.heap, r)
      /\ \A x \in Live(n.heap) : n.heap[x] = m.heap[x]
      /\ n.functions = {f \in m.functions : f.name \notin Code(m.heap[r])}
      /\ n.fault = FALSE /\ n.arrays = m.arrays /\ n.dropped = m.dropped
      /\ Below(m.heap, r) \cap O \subseteq {r} /\ r \in Below(m.heap, r)
      /\ r \notin O => Code(m.heap[r]) = {}
  BY DeleteTakes
<1>2. O \subseteq Live(m.heap)
  BY DEF Sound, Owners
<1> HIDE DEF n
<1>3. Untouched(m, n, O)
  BY <1>1, <1>2 DEF Untouched
<1> QED
  BY <1>3 DEF n

-----------------------------------------------------------------------------
(* compile()                                                               *)

\* Code can be generated from the compressed tree ddt.
Staged(x, O, ddt) ==
    /\ Sound(x, O)
    /\ ddt \notin O
    /\ Ownerless(x, ddt)
    /\ ReadyTree(x, ddt)

LEMMA Stages ==
    ASSUME NEW m, NEW O, Sound(m, O), NEW this \in O
    PROVE  LET c == Compress[MaxTypes][this][m]
               g == GlobalCodegen[MaxTypes][c.ret][c]
           IN  ~c.fault /\ Staged(g, O, c.ret) /\ Follows(m, g, O) /\ Untouched(m, g, O)
<1> DEFINE c == Compress[MaxTypes][this][m]
           ddt == c.ret
           g == GlobalCodegen[MaxTypes][ddt][c]
<1>1. /\ m \in Memories /\ MaxTypes \in Nat /\ Owners(m.heap, O)
      /\ this \in Nested[MaxTypes][m.heap]
  BY BoundsAssumption DEF Sound, Owners, Forest
<1>2. Pressed(m, c, MaxTypes)
  BY <1>1, CompressPresses
<1> HIDE DEF c
<1>3. /\ Litter(m, c) /\ Root(c.heap, Young(m, c), ddt) /\ ddt \in Nested[MaxTypes][c.heap]
      /\ c \in Memories /\ Kept(m, c)
  BY <1>2 DEF Pressed, Litter
<1>4. Sound(c, O) /\ Follows(m, c, O)
  BY <1>3, SoundLitter
<1>5. Ownerless(c, ddt) /\ ddt \notin O
  <2>1. Closed(m.heap, Live(m.heap)) /\ O \subseteq Live(m.heap)
    BY <1>1 DEF Owners, Forest
  <2>2. ddt \in Live(c.heap) /\ ddt \notin Live(m.heap)
    BY <1>3 DEF Root, Young
  <2>3. \A a \in Live(c.heap) : a \in Live(m.heap) \/ a \in Young(m, c)
    BY DEF Young
  <2>4. \A a \in Live(m.heap) : \A i \in DOMAIN c.heap[a].basetypes : c.heap[a].basetypes[i] # ddt
    BY <1>3, <2>1, <2>2 DEF Kept, Closed
  <2> QED
    BY <1>3, <2>1, <2>2, <2>3, <2>4 DEF Ownerless, Root
<1>6. Arming(c, g) /\ ReadyTree(g, ddt)
  BY <1>1, <1>3, <1>4, GlobalArms DEF Sound
<1> HIDE DEF g
<1>7. Sound(g, O) /\ Follows(c, g, O)
  BY <1>4, <1>6, SoundArming
<1>8. Follows(m, g, O)
  BY <1>4, <1>7, FollowsThen
<1>9. Ownerless(g, ddt)
  <2>1. SameTrees(c.heap, g.heap, Live(c.heap)) /\ Live(g.heap) = Live(c.heap)
    BY <1>3, <1>6, ArmingTrees DEF Arming
  <2> QED
    BY <1>5, <2>1 DEF Ownerless, Root, SameTrees
<1>10. c.fault = FALSE
  BY <1>4 DEF Sound
<1>11. Untouched(m, g, O)
  <2>1. O \subseteq Live(m.heap)
    BY <1>1 DEF Owners
  <2>2. \A t \in O : t \in Live(c.heap) /\ c.heap[t] = m.heap[t]
    BY <1>3, <2>1 DEF Kept
  <2>3. \A t \in O : Alike(c.heap[t], g.heap[t])
    BY <1>6, <2>2 DEF Arming
  <2> QED
    BY <2>2, <2>3 DEF Untouched, Alike
<1> QED
  BY <1>5, <1>6, <1>7, <1>8, <1>9, <1>10, <1>11 DEF Staged, c, g

LEMMA StageEmits ==
    ASSUME NEW x, NEW O, NEW ddt, Staged(x, O, ddt), NEW this \in O,
           NEW which \in {"pack", "unpack"}
    PROVE  /\ Staged(Emit(x, this, which, ddt), O, ddt)
           /\ Follows(x, Emit(x, this, which, ddt), O)
           /\ Pointer(Emit(x, this, which, ddt).heap[this], which) # NULL
           /\ Untouched(x, Emit(x, this, which, ddt), O \ {this})
<1> DEFINE e == Emit(x, this, which, ddt)
<1>1. /\ Sound(x, O) /\ ddt \notin O /\ Ownerless(x, ddt) /\ ReadyTree(x, ddt)
      /\ x \in Memories /\ x.heap \in Heaps /\ ddt \in Nested[MaxTypes][x.heap]
      /\ this \in Live(x.heap) /\ IsFiniteSet(x.functions) /\ ArraysCounted(x)
  BY MemoryTyped DEF Staged, Sound, Owners, Forest, Ownerless, Root, Accounted
<1>2. ArraysRead(x.heap, ddt) \subseteq x.arrays
  BY <1>1, ArraysReadExist
<1>3. PICK f : Emitting(x, e, this, which, f)
  BY <1>1, <1>2, EmitEmits
<1> HIDE DEF e
<1>4. /\ Sound(e, O) /\ Follows(x, e, O)
      /\ Pointer(e.heap[this], which) # NULL
      /\ SameTrees(x.heap, e.heap, Live(x.heap)) /\ Live(e.heap) = Live(x.heap)
      /\ \A a \in Live(x.heap) : e.heap[a].indices_arr = x.heap[a].indices_arr
      /\ e.arrays = x.arrays
  BY <1>1, <1>3, SoundEmitted
<1>5. Ownerless(e, ddt)
  BY <1>1, <1>4 DEF Ownerless, Root, SameTrees
<1>6. ReadyTree(e, ddt)
  <2>1. PICK C \in SUBSET Live(x.heap) :
           ddt \in C /\ Closed(x.heap, C) /\ \A b \in C : Armed(x, b)
    BY <1>1 DEF ReadyTree
  <2>2. \A b \in C : Armed(e, b)
    BY <1>4, <2>1 DEF Armed, SameTrees
  <2>3. Closed(e.heap, C)
    BY <1>4, <2>1 DEF Closed, SameTrees
  <2> QED
    BY <1>4, <2>1, <2>2, <2>3 DEF ReadyTree
<1>7. Untouched(x, e, O \ {this})
  <2>1. O \subseteq Live(x.heap)
    BY <1>1 DEF Sound, Owners
  <2> QED
    BY <1>3, <2>1 DEF Emitting, Untouched
<1> QED
  BY <1>1, <1>4, <1>5, <1>6, <1>7 DEF Staged, e

\* compile() of one of the application's types.
LEMMA SoundCompiled ==
    ASSUME NEW m, NEW O, Sound(m, O), NEW this \in O,
           NEW type \in {"PACK_UNPACK", "PACK", "UNPACK"}
    PROVE  /\ Sound(compile(m, this, type), O)
           /\ Follows(m, compile(m, this, type), O)
           /\ type # "UNPACK" => compile(m, this, type).heap[this].pack # NULL
           /\ type # "PACK" => compile(m, this, type).heap[this].unpack # NULL
           /\ Untouched(m, compile(m, this, type), O \ {this})
<1> DEFINE c == Compress[MaxTypes][this][m]
           ddt == c.ret
           g == GlobalCodegen[MaxTypes][ddt][c]
           e == Emitted(g, this, type, ddt)
           n == Delete(e, ddt)
<1>1. ~c.fault /\ Staged(g, O, ddt) /\ Follows(m, g, O) /\ Untouched(m, g, O)
  BY Stages
<1>2. compile(m, this, type) = n
  BY <1>1 DEF compile
<1> HIDE DEF g, c
<1>3. /\ Staged(e, O, ddt) /\ Follows(g, e, O)
      /\ type # "UNPACK" => e.heap[this].pack # NULL
      /\ type # "PACK" => e.heap[this].unpack # NULL
      /\ Untouched(g, e, O \ {this})
  <2>1. CASE type = "PACK"
    <3>1. e = Emit(g, this, "pack", ddt)
      BY <2>1 DEF Emitted
    <3> HIDE DEF e
    <3> QED
      BY <1>1, <2>1, <3>1, StageEmits DEF Pointer
  <2>2. CASE type = "UNPACK"
    <3>1. e = Emit(g, this, "unpack", ddt)
      BY <2>2 DEF Emitted
    <3> HIDE DEF e
    <3> QED
      BY <1>1, <2>2, <3>1, StageEmits DEF Pointer
  <2>3. CASE type = "PACK_UNPACK"
    <3> DEFINE x == Emit(g, this, "pack", ddt)
    <3>1. e = Emit(x, this, "unpack", ddt)
      BY <2>3 DEF Emitted
    <3>2. /\ Staged(x, O, ddt) /\ Follows(g, x, O) /\ x.heap[this].pack # NULL
          /\ Untouched(g, x, O \ {this})
      BY <1>1, StageEmits DEF Pointer
    <3> HIDE DEF x, e
    <3>3. /\ Staged(e, O, ddt) /\ Follows(x, e, O) /\ e.heap[this].unpack # NULL
          /\ Untouched(x, e, O \ {this})
      BY <3>1, <3>2, StageEmits DEF Pointer
    <3>4. Follows(g, e, O)
      BY <3>2, <3>3, FollowsThen
    <3>5. e.heap[this].pack # NULL
      BY <3>2, <3>3 DEF Follows
    <3>6. Untouched(g, e, O \ {this})
      BY <3>2, <3>3 DEF Untouched
    <3> QED
      BY <3>3, <3>4, <3>5, <3>6
  <2> QED
    BY <2>1, <2>2, <2>3
<1> HIDE DEF e
<1>8. Untouched(e, n, O)
  BY <1>3, DeleteUntouched DEF Staged
<1>4. Sound(n, O \ {ddt}) /\ Follows(e, n, O \ {ddt}) /\ O \ {ddt} = O
  BY <1>3, SoundDeleted DEF Staged
<1> HIDE DEF n
<1>5. Sound(n, O) /\ Follows(e, n, O)
  BY <1>4
<1>6. Follows(m, n, O)
  <2>1. Follows(m, e, O)
    BY <1>1, <1>3, FollowsThen
  <2> QED
    BY <1>5, <2>1, FollowsThen
<1>7. /\ type # "UNPACK" => n.heap[this].pack # NULL
      /\ type # "PACK" => n.heap[this].unpack # NULL
  BY <1>3, <1>5 DEF Follows
<1>9. Untouched(m, n, O \ {this})
  BY <1>1, <1>3, <1>8 DEF Untouched
<1> QED
  BY <1>2, <1>5, <1>6, <1>7, <1>9

-----------------------------------------------------------------------------
(* The inductive invariant.                                                *)

\* The types the application has were made by at most made calls, each one
\* level above what was there; a type that is committed has code at once,
\* unless LAZY leaves that to its first use.
LifeInv ==
    /\ Sound(Memory, own)
    /\ own \subseteq Nested[made][heap]
    /\ committed \subseteq own
    /\ lazy \in Lazy
    /\ made \in 0 .. MaxTypes
    /\ compiles \in 0 .. MaxCompiles
    /\ ~lazy => /\ \A t \in committed : heap[t].pack # NULL /\ heap[t].unpack # NULL
                /\ \A t \in own \ committed : Bare(heap[t])

\* The same of a memory m and the application's variables O, C, l, k.
Settled(m, O, C, l, k) ==
    /\ Sound(m, O)
    /\ O \subseteq Nested[k][m.heap]
    /\ C \subseteq O
    /\ ~l => /\ \A t \in C : m.heap[t].pack # NULL /\ m.heap[t].unpack # NULL
             /\ \A t \in O \ C : Bare(m.heap[t])

\* What a call returns plays no part.
LEMMA SoundReturned ==
    ASSUME NEW m, NEW O, Sound(m, O), NEW n \in Memories, n.heap = m.heap,
           n.functions = m.functions, n.arrays = m.arrays, n.dropped = m.dropped,
           n.fault = m.fault
    PROVE  Sound(n, O)
<1>1. ArraysCounted(n)
  BY DEF Sound, ArraysCounted
<1> QED
  BY <1>1 DEF Sound

LEMMA MemoryBecomes ==
    ASSUME NEW m \in Memories, Becomes(m)
    PROVE  /\ Memory' \in Memories /\ (Memory').heap = m.heap /\ heap' = m.heap
           /\ (Memory').functions = m.functions /\ (Memory').arrays = m.arrays
           /\ (Memory').dropped = m.dropped /\ (Memory').fault = m.fault
  BY MemoryTyped DEF Memory, Becomes, Memories, NULL

LEMMA MemoryIs ==
    /\ Memory.heap = heap /\ Memory.functions = functions /\ Memory.arrays = arrays
    /\ Memory.dropped = dropped /\ Memory.fault = fault
  BY DEF Memory

LEMMA LifeInit == Init => LifeInv
<1> SUFFICES ASSUME Init
             PROVE  LifeInv
  OBVIOUS
<1>1. /\ heap = <<>> /\ functions = {} /\ arrays = {} /\ dropped = {} /\ fault = FALSE
      /\ own = {} /\ committed = {} /\ lazy \in Lazy /\ made = 0 /\ compiles = 0
  BY DEF Init
<1>2. Memory \in Memories
  <2>1. heap \in Heaps
    BY <1>1 DEF Heaps
  <2> QED
    BY <1>1, <2>1 DEF Memory, Memories, NULL
<1>3. Live(heap) = {}
  BY <1>1 DEF Live
<1>4. Owners(heap, own)
  BY <1>1, <1>3 DEF Owners, Forest, Closed, OnePlace
<1>5. IsFiniteSet(functions) /\ IsFiniteSet(arrays)
  BY <1>1, FS_EmptySet
<1>6. Accounted(heap, functions, dropped, own)
  BY <1>1, <1>5 DEF Accounted, Names
<1>7. ArraysCounted(Memory)
  BY <1>1, <1>3, <1>5, MemoryIs DEF ArraysCounted
<1>8. Sound(Memory, own)
  BY <1>1, <1>2, <1>4, <1>6, <1>7, MemoryIs DEF Sound
<1> QED
  BY <1>1, <1>8, BoundsAssumption DEF LifeInv

\* The state a step leads to, when the memory it leaves behind is settled.
LEMMA LifeNext ==
    ASSUME NEW m, Becomes(m), Settled(m, own', committed', lazy', made'),
           lazy' \in Lazy, made' \in 0 .. MaxTypes, compiles' \in 0 .. MaxCompiles
    PROVE  LifeInv'
<1>1. m \in Memories /\ Sound(m, own')
  BY DEF Settled, Sound
<1>2. /\ Memory' \in Memories /\ (Memory').heap = m.heap /\ heap' = m.heap
      /\ (Memory').functions = m.functions /\ (Memory').arrays = m.arrays
      /\ (Memory').dropped = m.dropped /\ (Memory').fault = m.fault
  BY <1>1, MemoryBecomes
<1>3. Sound(Memory', own')
  BY <1>1, <1>2, SoundReturned
<1> QED
  BY <1>2, <1>3 DEF LifeInv, Settled

-----------------------------------------------------------------------------
(* What each call does to a settled memory.                                *)

LEMMA SettledFacts ==
    ASSUME NEW m, NEW O, NEW C, NEW l, NEW k, Settled(m, O, C, l, k)
    PROVE  /\ m \in Memories /\ m.heap \in Heaps /\ m.fault = FALSE
           /\ O \in SUBSET Live(m.heap) /\ Owners(m.heap, O)
           /\ \A t \in O : t \in Nat /\ m.heap[t] \in Objects
<1>1. m \in Memories /\ m.heap \in Heaps /\ m.fault = FALSE /\ Owners(m.heap, O)
  BY MemoryTyped DEF Settled, Sound
<1>2. O \in SUBSET Live(m.heap)
  BY <1>1 DEF Owners
<1> QED
  BY <1>1, <1>2, HeapFacts

LEMMA KeptUntouched ==
    ASSUME NEW m, NEW n, Kept(m, n), NEW S \in SUBSET Live(m.heap)
    PROVE  Untouched(m, n, S)
  BY DEF Kept, Untouched

\* The memory n has one type more than m, made of types of O.
Gained(m, n, O) ==
    /\ n.ret \notin O
    /\ n.ret \in Live(n.heap)
    /\ Follows(m, n, O)
    /\ \A i \in DOMAIN Fields(n.heap[n.ret]) : \E t \in O : \A q \in Nat :
          Value[q][n.heap][Fields(n.heap[n.ret])[i]] = Value[q][m.heap][t]

LEMMA SettledMade ==
    ASSUME NEW m, NEW O, NEW C, NEW l, NEW k \in Nat, k + 1 <= MaxTypes,
           Settled(m, O, C, l, k),
           NEW kind \in AllKinds \cup {"primitive"}, NEW tight \in BOOLEAN,
           NEW bases \in Seq(O), Arity(kind, bases)
    PROVE  /\ Settled(New(m, kind, tight, bases, "app"),
                      O \cup {New(m, kind, tight, bases, "app").ret}, C, l, k + 1)
           /\ Gained(m, New(m, kind, tight, bases, "app"), O)
<1> DEFINE n == New(m, kind, tight, bases, "app")
           r == n.ret
<1>1. /\ m \in Memories /\ m.heap \in Heaps /\ O \in SUBSET Live(m.heap)
      /\ Sound(m, O) /\ O \subseteq Nested[k][m.heap]
      /\ MaxTypes \in Nat /\ k \in 0 .. MaxTypes /\ "app" \in Makers
      /\ \A t \in O : t \in Nat
  <2>1. /\ m \in Memories /\ m.heap \in Heaps /\ O \in SUBSET Live(m.heap)
        /\ \A t \in O : t \in Nat
    BY SettledFacts
  <2>2. Sound(m, O) /\ O \subseteq Nested[k][m.heap]
    BY DEF Settled
  <2>3. MaxTypes \in Nat /\ k \in 0 .. MaxTypes /\ "app" \in Makers
    BY BoundsAssumption DEF Makers
  <2> QED
    BY <2>1, <2>2, <2>3
<1>2. bases \in Seq(Nat) /\ \A j \in 1 .. Len(bases) : bases[j] \in O
  BY <1>1
<1>3. Grown(m, n, k + 1, "app") /\ Copied(m, n, kind, tight, bases)
  BY <1>1, <1>2, NewGrows
<1> HIDE DEF n
<1>4. /\ Sound(n, O \cup {r}) /\ Follows(m, n, O)
      /\ r \in Nested[k + 1][n.heap] /\ r \notin Live(m.heap)
  <2> DEFINE e == k + 1
  <2>1. e \in Nat /\ e <= MaxTypes /\ Grown(m, n, e, "app")
    BY <1>1, <1>3
  <2> HIDE DEF e
  <2>2. /\ Sound(n, O \cup {n.ret}) /\ Follows(m, n, O)
        /\ n.ret \in Nested[e][n.heap] /\ n.ret \notin Live(m.heap)
    BY <1>1, <2>1, SoundGrown
  <2> QED
    BY <2>2 DEF e
<1>5. Untouched(m, n, O) /\ Bare(n.heap[r]) /\ r \in Live(n.heap) /\ n \in Memories
  <2>1. Kept(m, n) /\ Planted(n.heap, Young(m, n), r) /\ n \in Memories
    BY <1>3 DEF Grown
  <2> QED
    BY <1>1, <2>1, KeptUntouched DEF Planted, Young
<1>6. O \cup {r} \subseteq Nested[k + 1][n.heap]
  <2>1. n.heap \in Heaps /\ k + 1 \in Nat
    BY <1>5, MemoryTyped
  <2>2. Nested[k][n.heap] \subseteq Nested[k + 1][n.heap]
    BY <2>1, NestedDeeper
  <2> QED
    BY <1>1, <1>4, <2>2 DEF Follows
<1>7. Settled(n, O \cup {r}, C, l, k + 1)
  <2>1. C \subseteq O
    BY DEF Settled
  <2>2. ~l => /\ \A t \in C : n.heap[t].pack # NULL /\ n.heap[t].unpack # NULL
              /\ \A t \in (O \cup {r}) \ C : Bare(n.heap[t])
    BY <1>5, <2>1 DEF Settled, Untouched, Bare
  <2> QED
    BY <1>4, <1>6, <2>1, <2>2 DEF Settled
<1>8. \A i \in DOMAIN Fields(n.heap[r]) : \E t \in O : \A q \in Nat :
         Value[q][n.heap][Fields(n.heap[r])[i]] = Value[q][m.heap][t]
  <2>1. n.heap[r] \in Objects
    BY <1>5, MemoryTyped, HeapFacts
  <2>2. DOMAIN Fields(n.heap[r]) = 1 .. Len(bases)
    BY <1>3, <2>1, FieldsFacts DEF Copied
  <2>3. \A i \in 1 .. Len(bases) : \A q \in Nat :
           Value[q][n.heap][Fields(n.heap[r])[i]] = Value[q][m.heap][bases[i]]
    BY <1>3 DEF Copied
  <2> QED
    BY <1>2, <2>2, <2>3
<1>9. Gained(m, n, O)
  BY <1>1, <1>4, <1>5, <1>8 DEF Gained
<1> QED
  BY <1>7, <1>9 DEF n

\* An object of the library's that nobody refers to.
LEMMA SettledForgotten ==
    ASSUME NEW m, NEW O, NEW C, NEW l, NEW k \in Nat, Settled(m, O, C, l, k),
           0 + 1 <= MaxTypes
    PROVE  /\ Settled(New(m, "primitive", TRUE, <<>>, "library"), O, C, l, k)
           /\ Follows(m, New(m, "primitive", TRUE, <<>>, "library"), O)
<1> DEFINE n == New(m, "primitive", TRUE, <<>>, "library")
           s == <<>>
<1>1. /\ m \in Memories /\ m.heap \in Heaps /\ O \in SUBSET Live(m.heap)
      /\ Sound(m, O) /\ MaxTypes \in Nat /\ 0 \in 0 .. MaxTypes /\ "library" \in Makers
  <2>1. /\ m \in Memories /\ m.heap \in Heaps /\ O \in SUBSET Live(m.heap)
    BY SettledFacts
  <2>2. Sound(m, O)
    BY DEF Settled
  <2>3. MaxTypes \in Nat /\ 0 \in 0 .. MaxTypes /\ "library" \in Makers
    BY BoundsAssumption DEF Makers
  <2> QED
    BY <2>1, <2>2, <2>3
<1>2. s \in Seq(Nat) /\ Len(s) = 0 /\ \A j \in 1 .. Len(s) : s[j] \in Nested[0][m.heap]
  OBVIOUS
<1>3. Arity("primitive", s)
  BY <1>2 DEF Arity
<1>4. Grown(m, n, 0 + 1, "library")
  <2> HIDE DEF s
  <2>1. Grown(m, New(m, "primitive", TRUE, s, "library"), 0 + 1, "library")
    BY <1>1, <1>2, <1>3, NewGrows
  <2> QED
    BY <2>1 DEF s
<1> HIDE DEF n
<1>5. Litter(m, n)
  <2>1. Pressed(m, n, 0 + 1)
    BY <1>1, <1>4, GrownLitter
  <2> QED
    BY <2>1 DEF Pressed
<1>6. Sound(n, O) /\ Follows(m, n, O)
  BY <1>1, <1>5, SoundLitter
<1>7. Untouched(m, n, O)
  BY <1>1, <1>5, KeptUntouched DEF Litter
<1>8. Settled(n, O, C, l, k)
  <2>1. C \subseteq O /\ O \subseteq Nested[k][n.heap]
    BY <1>6 DEF Settled, Follows
  <2> QED
    BY <1>6, <1>7, <2>1 DEF Settled, Untouched, Bare
<1> QED
  BY <1>6, <1>8 DEF n

\* Under LAZY, whatever is compiled.
LEMMA SettledLazily ==
    ASSUME NEW m, NEW O, NEW C, NEW l, l, NEW k \in Nat, Settled(m, O, C, l, k),
           NEW t \in O, NEW type \in {"PACK_UNPACK", "PACK", "UNPACK"}
    PROVE  Settled(compile(m, t, type), O, C, l, k) /\ Follows(m, compile(m, t, type), O)
<1> DEFINE n == compile(m, t, type)
<1>1. Sound(n, O) /\ Follows(m, n, O)
  BY SoundCompiled DEF Settled
<1> HIDE DEF n
<1>2. O \subseteq Nested[k][n.heap] /\ C \subseteq O
  BY <1>1 DEF Settled, Follows
<1>3. Settled(n, O, C, l, k)
  BY <1>1, <1>2 DEF Settled
<1> QED
  BY <1>1, <1>3 DEF n

\* Without, both functions at once.
LEMMA SettledAtOnce ==
    ASSUME NEW m, NEW O, NEW C, NEW l, NEW k \in Nat, Settled(m, O, C, l, k), NEW t \in O
    PROVE  /\ Settled(compile(m, t, "PACK_UNPACK"), O, C \cup {t}, l, k)
           /\ Follows(m, compile(m, t, "PACK_UNPACK"), O)
<1> DEFINE type == "PACK_UNPACK"
<1>1. type \in {"PACK_UNPACK", "PACK", "UNPACK"} /\ type # "PACK" /\ type # "UNPACK"
  OBVIOUS
<1> HIDE DEF type
<1> DEFINE n == compile(m, t, type)
<1>2. /\ Sound(n, O) /\ Follows(m, n, O) /\ Untouched(m, n, O \ {t})
      /\ n.heap[t].pack # NULL /\ n.heap[t].unpack # NULL
  BY <1>1, SoundCompiled DEF Settled
<1> HIDE DEF n
<1>3. O \subseteq Nested[k][n.heap] /\ C \cup {t} \subseteq O
  BY <1>2 DEF Settled, Follows
<1>4. Settled(n, O, C \cup {t}, l, k)
  BY <1>2, <1>3 DEF Settled, Untouched, Bare
<1> QED
  BY <1>2, <1>4 DEF n, type

LEMMA SettledFreed ==
    ASSUME NEW m, NEW O, NEW C, NEW l, NEW k \in Nat, Settled(m, O, C, l, k), NEW t \in O
    PROVE  /\ Settled(Delete(m, t), O \ {t}, C \ {t}, l, k)
           /\ Follows(m, Delete(m, t), O \ {t})
<1> DEFINE n == Delete(m, t)
<1>1. Sound(m, O) /\ Owners(m.heap, O) /\ O \in SUBSET Live(m.heap)
  BY SettledFacts DEF Settled
<1>2. Ownerless(m, t)
  BY <1>1 DEF Owners, Ownerless, Root
<1>3. Sound(n, O \ {t}) /\ Follows(m, n, O \ {t})
  BY <1>1, <1>2, SoundDeleted
<1>4. /\ n \in Memories
      /\ Live(n.heap) = Live(m.heap) \ Below(m.heap, t)
      /\ \A x \in Live(n.heap) : n.heap[x] = m.heap[x]
      /\ n.functions = {f \in m.functions : f.name \notin Code(m.heap[t])}
      /\ n.fault = FALSE /\ n.arrays = m.arrays /\ n.dropped = m.dropped
      /\ Below(m.heap, t) \cap O \subseteq {t} /\ t \in Below(m.heap, t)
      /\ t \notin O => Code(m.heap[t]) = {}
  BY <1>1, <1>2, DeleteTakes
<1> HIDE DEF n
<1>5. Untouched(m, n, O \ {t})
  BY <1>1, <1>4 DEF Untouched
<1>6. O \ {t} \subseteq Nested[k][n.heap] /\ C \ {t} \subseteq O \ {t}
  BY <1>3 DEF Settled, Follows
<1>7. Settled(n, O \ {t}, C \ {t}, l, k)
  BY <1>3, <1>5, <1>6 DEF Settled, Untouched, Bare
<1> QED
  BY <1>3, <1>7 DEF n

\* The code of a type that has some can run, and changes nothing.
LEMMA SettledRuns ==
    ASSUME NEW m, NEW O, NEW C, NEW l, NEW k, Settled(m, O, C, l, k), NEW t \in O,
           NEW which \in {"pack", "unpack"}, Pointer(m.heap[t], which) # NULL
    PROVE  Runs(m, Pointer(m.heap[t], which)) = m
<1> DEFINE f == Pointer(m.heap[t], which)
<1>1. m \in Memories /\ m.fault = FALSE /\ Sound(m, O)
  BY SettledFacts DEF Settled
<1>2. f \in Code(m.heap[t])
  BY DEF Pointer, Code
<1>3. f \in Names(m.functions)
  BY <1>1, <1>2 DEF Sound, Accounted
<1>4. \E g \in m.functions : g.name = f /\ g.reads \subseteq m.arrays
  BY <1>1, <1>3 DEF Names, Sound
<1>5. Runs(m, f) = [m EXCEPT !.fault = m.fault]
  BY <1>1, <1>4 DEF Runs
<1> HIDE DEF f
<1>6. [m EXCEPT !.fault = m.fault] = m
  BY <1>1 DEF Memories
<1> QED
  BY <1>5, <1>6 DEF f

-----------------------------------------------------------------------------
(* What each action does.                                                  *)

\* The application has a new type.
ByMaking(m) ==
    /\ made < MaxTypes
    /\ own' = own \cup {m.ret}
    /\ committed' = committed
    /\ Gained(Memory, m, own)

\* t has what is asked for; LAZY may have left it as it was, or compiled less
\* than a commit does.
ByCompiling(m, t) ==
    /\ t \in own
    /\ own' = own
    /\ Follows(Memory, m, own)
    /\ ~lazy => committed' = committed \cup {t}

\* The application has lost t.
ByFreeing(m, t) ==
    /\ t \in own
    /\ own' = own \ {t}
    /\ committed' = committed \ {t}
    /\ Follows(Memory, m, own \ {t})

Outcome(m) ==
    /\ Becomes(m)
    /\ Settled(m, own', committed', lazy', made')
    /\ lazy' = lazy
    /\ made' \in 0 .. MaxTypes
    /\ compiles' \in 0 .. MaxCompiles
    /\ ByMaking(m) \/ (\E t \in own : ByCompiling(m, t)) \/ (\E t \in own : ByFreeing(m, t))

LEMMA LifeFacts ==
    ASSUME LifeInv
    PROVE  /\ Settled(Memory, own, committed, lazy, made)
           /\ made \in Nat /\ made \in 0 .. MaxTypes /\ MaxTypes \in Nat
           /\ compiles \in Nat /\ compiles \in 0 .. MaxCompiles /\ MaxCompiles \in Nat
           /\ lazy \in BOOLEAN /\ committed \subseteq own
           /\ Memory \in Memories
           /\ Becomes(Memory) <=> UNCHANGED <<heap, functions, arrays, dropped, fault>>
<1>1. Settled(Memory, own, committed, lazy, made)
  BY MemoryIs DEF LifeInv, Settled
<1>2. Memory \in Memories
  BY DEF LifeInv, Sound
<1>3. Becomes(Memory) <=> UNCHANGED <<heap, functions, arrays, dropped, fault>>
  BY MemoryIs DEF Becomes
<1> QED
  BY <1>1, <1>2, <1>3, BoundsAssumption, LazyAssumption DEF LifeInv

\* Memories that follow one another.
LEMMA GainedAfter ==
    ASSUME NEW m, NEW x, NEW n, NEW O, Follows(m, x, O), Gained(x, n, O)
    PROVE  Gained(m, n, O)
<1>1. Follows(m, n, O)
  BY FollowsThen DEF Gained
<1>3. \A t \in O : \A q \in Nat : Value[q][x.heap][t] = Value[q][m.heap][t]
  BY DEF Follows
<1>4. \A i \in DOMAIN Fields(n.heap[n.ret]) : \E t \in O : \A q \in Nat :
         Value[q][n.heap][Fields(n.heap[n.ret])[i]] = Value[q][m.heap][t]
  BY <1>3 DEF Gained
<1> QED
  BY <1>1, <1>4 DEF Gained

\* A memory with a type more, once the application keeps the type.
LEMMA Making ==
    ASSUME LifeInv, MayMake, NEW m, Keeps(m),
           Settled(m, own \cup {m.ret}, committed, lazy, made + 1), Gained(Memory, m, own)
    PROVE  Outcome(m)
<1>1. /\ made \in Nat /\ made \in 0 .. MaxTypes /\ MaxTypes \in Nat
      /\ compiles \in 0 .. MaxCompiles
  BY LifeFacts
<1>2. /\ Becomes(m) /\ own' = own \cup {m.ret} /\ made' = made + 1
      /\ committed' = committed /\ lazy' = lazy /\ compiles' = compiles
  BY DEF Keeps
<1>3. made < MaxTypes /\ made' \in 0 .. MaxTypes
  BY <1>1, <1>2 DEF MayMake
<1>4. ByMaking(m)
  BY <1>2, <1>3 DEF ByMaking
<1> QED
  BY <1>1, <1>2, <1>3, <1>4 DEF Outcome

LEMMA MakesPrimitive == LifeInv /\ NewPrimitive => \E m : Outcome(m)
<1> SUFFICES ASSUME LifeInv, NewPrimitive
             PROVE  \E m : Outcome(m)
  OBVIOUS
<1> DEFINE s == <<>>
<1>1. /\ Settled(Memory, own, committed, lazy, made) /\ made \in Nat /\ MaxTypes \in Nat
      /\ made + 1 <= MaxTypes
  BY LifeFacts DEF NewPrimitive, MayMake
<1>2. s \in Seq(own) /\ Arity("primitive", s)
  BY DEF Arity
<1> HIDE DEF s
<1> DEFINE m == New(Memory, "primitive", TRUE, s, "app")
<1>3. Settled(m, own \cup {m.ret}, committed, lazy, made + 1) /\ Gained(Memory, m, own)
  BY <1>1, <1>2, SettledMade
<1>4. MayMake /\ Keeps(m)
  BY DEF NewPrimitive, s
<1> HIDE DEF m
<1> QED
  BY <1>3, <1>4, Making

LEMMA MakesNamedPrimitive == LifeInv /\ LPK_Primitive => \E m : Outcome(m)
<1> SUFFICES ASSUME LifeInv, LPK_Primitive
             PROVE  \E m : Outcome(m)
  OBVIOUS
<1> DEFINE s == <<>>
           x == New(Memory, "primitive", TRUE, <<>>, "library")
<1>1. /\ Settled(Memory, own, committed, lazy, made) /\ made \in Nat /\ MaxTypes \in Nat
      /\ made + 1 <= MaxTypes /\ 0 + 1 <= MaxTypes
  BY LifeFacts DEF LPK_Primitive, MayMake
<1>2. s \in Seq(own) /\ Arity("primitive", s)
  BY DEF Arity
<1>3. Settled(x, own, committed, lazy, made) /\ Follows(Memory, x, own)
  BY <1>1, SettledForgotten
<1>4. MayMake /\ Keeps(New(x, "primitive", TRUE, s, "app"))
  BY DEF LPK_Primitive
<1> HIDE DEF s, x
<1> DEFINE m == New(x, "primitive", TRUE, s, "app")
<1>5. Settled(m, own \cup {m.ret}, committed, lazy, made + 1) /\ Gained(x, m, own)
  BY <1>1, <1>2, <1>3, SettledMade
<1> HIDE DEF m
<1>6. Gained(Memory, m, own)
  BY <1>3, <1>5, GainedAfter
<1> QED
  BY <1>4, <1>5, <1>6, Making DEF m

LEMMA MakesDerived ==
    ASSUME LifeInv, NEW kind \in AllKinds, NEW tight \in BOOLEAN, NEW bases \in Seq(own),
           Arity(kind, bases), Construct(kind, tight, bases)
    PROVE  \E m : Outcome(m)
<1> DEFINE m == New(Memory, kind, tight, bases, "app")
<1>1. /\ Settled(Memory, own, committed, lazy, made) /\ made \in Nat /\ MaxTypes \in Nat
      /\ made + 1 <= MaxTypes
  BY LifeFacts DEF Construct, MayMake
<1>2. Settled(m, own \cup {m.ret}, committed, lazy, made + 1) /\ Gained(Memory, m, own)
  BY <1>1, SettledMade
<1>3. MayMake /\ Keeps(m)
  BY DEF Construct
<1> HIDE DEF m
<1> QED
  BY <1>2, <1>3, Making

LEMMA FollowsItself ==
    ASSUME NEW m, NEW O
    PROVE  Follows(m, m, O)
  BY DEF Follows

LEMMA Commits ==
    ASSUME LifeInv, NEW t \in own, DDT_Commit(t)
    PROVE  \E m : Outcome(m)
<1>1. /\ Settled(Memory, own, committed, lazy, made) /\ made \in Nat /\ made \in 0 .. MaxTypes
      /\ compiles \in Nat /\ MaxCompiles \in Nat /\ compiles \in 0 .. MaxCompiles
      /\ committed \subseteq own
  BY LifeFacts
<1>2. /\ committed' = committed \cup {t} /\ own' = own /\ lazy' = lazy /\ made' = made
  BY DEF DDT_Commit
<1>3. CASE lazy
  <2>1. UNCHANGED <<heap, functions, arrays, dropped, fault, compiles>>
    BY <1>3 DEF DDT_Commit
  <2>2. Becomes(Memory)
    BY <2>1, LifeFacts
  <2>3. Settled(Memory, own', committed', lazy', made')
    BY <1>1, <1>2, <1>3 DEF Settled
  <2>4. ByCompiling(Memory, t)
    BY <1>2, <1>3, FollowsItself DEF ByCompiling
  <2>5. Outcome(Memory)
    BY <1>1, <1>2, <2>1, <2>2, <2>3, <2>4 DEF Outcome
  <2> QED
    BY <2>5
<1>4. CASE ~lazy
  <2> DEFINE m == compile(Memory, t, "PACK_UNPACK")
  <2>1. compiles < MaxCompiles /\ Becomes(m) /\ compiles' = compiles + 1
    BY <1>4 DEF DDT_Commit
  <2>2. Settled(m, own, committed \cup {t}, lazy, made) /\ Follows(Memory, m, own)
    BY <1>1, SettledAtOnce
  <2> HIDE DEF m
  <2>3. ByCompiling(m, t)
    BY <1>2, <2>2 DEF ByCompiling
  <2>4. compiles' \in 0 .. MaxCompiles
    BY <1>1, <2>1
  <2>5. Outcome(m)
    BY <1>1, <1>2, <2>1, <2>2, <2>3, <2>4 DEF Outcome
  <2> QED
    BY <2>5
<1> QED
  BY <1>3, <1>4

LEMMA MovesData ==
    ASSUME LifeInv, NEW t \in own, NEW which \in {"pack", "unpack"},
           NEW type \in {"PACK", "UNPACK"}, which = "pack" <=> type = "PACK",
           Moves(t, which, type)
    PROVE  \E m : Outcome(m)
<1> DEFINE needed == lazy /\ Pointer(heap[t], which) = NULL
           m == IF needed THEN compile(Memory, t, type) ELSE Memory
           f == Pointer(m.heap[t], which)
<1>1. /\ Settled(Memory, own, committed, lazy, made) /\ made \in Nat /\ made \in 0 .. MaxTypes
      /\ compiles \in Nat /\ MaxCompiles \in Nat /\ compiles \in 0 .. MaxCompiles
      /\ committed \subseteq own /\ lazy \in BOOLEAN
  BY LifeFacts
<1>2. /\ t \in committed /\ committed' = committed /\ own' = own /\ lazy' = lazy /\ made' = made
      /\ needed => compiles < MaxCompiles
      /\ compiles' = IF needed THEN compiles + 1 ELSE compiles
      /\ Becomes(Runs(m, f))
  BY DEF Moves
<1>3. Settled(m, own, committed, lazy, made) /\ Follows(Memory, m, own) /\ f # NULL
  <2>1. CASE needed
    <3>1. m = compile(Memory, t, type) /\ type \in {"PACK_UNPACK", "PACK", "UNPACK"} /\ lazy
      BY <2>1
    <3>2. /\ Settled(compile(Memory, t, type), own, committed, lazy, made)
          /\ Follows(Memory, compile(Memory, t, type), own)
      BY <1>1, <3>1, SettledLazily
    <3>3. /\ type # "UNPACK" => compile(Memory, t, type).heap[t].pack # NULL
          /\ type # "PACK" => compile(Memory, t, type).heap[t].unpack # NULL
      BY <1>1, <3>1, SoundCompiled DEF Settled
    <3>4. f # NULL
      <4> HIDE DEF m
      <4> QED
        BY <3>1, <3>3 DEF Pointer
    <3> QED
      BY <3>1, <3>2, <3>4
  <2>2. CASE ~needed
    <3>1. m = Memory /\ f = Pointer(heap[t], which)
      BY <2>2, MemoryIs
    <3> HIDE DEF m, f
    <3>2. f # NULL
      <4>1. CASE lazy
        BY <2>2, <3>1, <4>1
      <4>2. CASE ~lazy
        BY <1>2, <3>1, <4>2 DEF LifeInv, Pointer
      <4> QED
        BY <4>1, <4>2
    <3> QED
      BY <1>1, <3>1, <3>2, FollowsItself
  <2> QED
    BY <2>1, <2>2
<1> HIDE DEF m
<1>4. Becomes(m)
  <2>1. Runs(m, f) = m
    BY <1>3, SettledRuns
  <2> QED
    BY <1>2, <2>1
<1>5. ByCompiling(m, t)
  <2>1. committed' = committed \cup {t}
    BY <1>2
  <2> QED
    BY <1>2, <1>3, <2>1 DEF ByCompiling
<1>6. compiles' \in 0 .. MaxCompiles
  <2> HIDE DEF needed
  <2> QED
    BY <1>1, <1>2
<1>7. Outcome(m)
  <2> HIDE DEF f, needed
  <2> QED
    BY <1>1, <1>2, <1>3, <1>4, <1>5, <1>6 DEF Outcome
<1> QED
  BY <1>7

LEMMA CompilesLazily ==
    ASSUME LifeInv, NEW t \in own, DDT_Lazy_Unpack_Commit(t)
    PROVE  \E m : Outcome(m)
<1> DEFINE type == "UNPACK"
           m == compile(Memory, t, type)
<1>1. /\ Settled(Memory, own, committed, lazy, made) /\ made \in Nat /\ made \in 0 .. MaxTypes
      /\ compiles \in Nat /\ MaxCompiles \in Nat /\ compiles \in 0 .. MaxCompiles
      /\ committed \subseteq own
  BY LifeFacts
<1>2. /\ committed' = committed /\ own' = own /\ lazy' = lazy /\ made' = made /\ lazy
      /\ compiles < MaxCompiles /\ compiles' = compiles + 1 /\ Becomes(m)
  BY DEF DDT_Lazy_Unpack_Commit
<1>3. type \in {"PACK_UNPACK", "PACK", "UNPACK"}
  OBVIOUS
<1> HIDE DEF type
<1>4. Settled(m, own, committed, lazy, made) /\ Follows(Memory, m, own)
  BY <1>1, <1>2, <1>3, SettledLazily
<1> HIDE DEF m
<1>5. ByCompiling(m, t)
  BY <1>2, <1>4 DEF ByCompiling
<1>6. compiles' \in 0 .. MaxCompiles
  BY <1>1, <1>2
<1>7. Outcome(m)
  BY <1>1, <1>2, <1>4, <1>5, <1>6 DEF Outcome
<1> QED
  BY <1>7

LEMMA Frees ==
    ASSUME LifeInv, NEW t \in own, DDT_Free(t)
    PROVE  \E m : Outcome(m)
<1> DEFINE m == Delete(Memory, t)
<1>1. /\ Settled(Memory, own, committed, lazy, made) /\ made \in Nat /\ made \in 0 .. MaxTypes
      /\ compiles \in 0 .. MaxCompiles
  BY LifeFacts
<1>2. /\ committed' = committed \ {t} /\ own' = own \ {t} /\ lazy' = lazy /\ made' = made
      /\ compiles' = compiles /\ Becomes(m)
  BY DEF DDT_Free
<1>3. /\ Settled(m, own \ {t}, committed \ {t}, lazy, made)
      /\ Follows(Memory, m, own \ {t})
  BY <1>1, SettledFreed
<1> HIDE DEF m
<1>4. ByFreeing(m, t)
  BY <1>2, <1>3 DEF ByFreeing
<1>5. Outcome(m)
  BY <1>1, <1>2, <1>3, <1>4 DEF Outcome
<1> QED
  BY <1>5

LEMMA LifeOutcome == LifeInv /\ Next => \E m : Outcome(m)
<1> SUFFICES ASSUME LifeInv, Next
             PROVE  \E m : Outcome(m)
  OBVIOUS
<1>1. CASE NewPrimitive
  BY <1>1, MakesPrimitive
<1>2. CASE LPK_Primitive
  BY <1>2, MakesNamedPrimitive
<1>3. CASE \E kind \in Kinds \ {"struct"}, tight \in BOOLEAN, t \in own :
              Construct(kind, tight, <<t>>)
  <2>1. PICK kind \in Kinds \ {"struct"}, tight \in BOOLEAN, t \in own :
           Construct(kind, tight, <<t>>)
    BY <1>3
  <2> DEFINE s == <<t>>
  <2>2. kind \in AllKinds /\ kind # "primitive" /\ s \in Seq(own) /\ Len(s) = 1
    BY KindsAssumption DEF AllKinds
  <2>3. Construct(kind, tight, s)
    BY <2>1
  <2> HIDE DEF s
  <2>4. Arity(kind, s)
    BY <2>2 DEF Arity
  <2> QED
    BY <2>2, <2>3, <2>4, MakesDerived
<1>4. CASE \E tight \in BOOLEAN, s, t \in own :
              "struct" \in Kinds /\ Construct("struct", tight, <<s, t>>)
  <2>1. PICK tight \in BOOLEAN, s \in own, t \in own : Construct("struct", tight, <<s, t>>)
    BY <1>4
  <2> DEFINE b == <<s, t>>
             kind == "struct"
  <2>2. kind \in AllKinds /\ b \in Seq(own) /\ Len(b) = 2 /\ kind = "struct"
    BY DEF AllKinds
  <2>3. Construct(kind, tight, b)
    BY <2>1
  <2> HIDE DEF b, kind
  <2>4. Arity(kind, b)
    BY <2>2 DEF Arity
  <2> QED
    BY <2>2, <2>3, <2>4, MakesDerived
<1>5. CASE \E t \in own : DDT_Commit(t)
  BY <1>5, Commits
<1>6. CASE \E t \in own : DDT_Pack(t)
  <2>1. PICK t \in own : Moves(t, "pack", "PACK")
    BY <1>6 DEF DDT_Pack
  <2> QED
    BY <2>1, MovesData
<1>7. CASE \E t \in own : DDT_Unpack(t)
  <2>1. PICK t \in own : Moves(t, "unpack", "UNPACK")
    BY <1>7 DEF DDT_Unpack
  <2> QED
    BY <2>1, MovesData
<1>8. CASE \E t \in own : DDT_Lazy_Unpack_Commit(t)
  BY <1>8, CompilesLazily
<1>9. CASE \E t \in own : DDT_Free(t)
  BY <1>9, Frees
<1> QED
  BY <1>1, <1>2, <1>3, <1>4, <1>5, <1>6, <1>7, <1>8, <1>9 DEF Next

\* No step leaves the invariant.
LEMMA LifeStep == LifeInv /\ [Next]_vars => LifeInv'
<1> SUFFICES ASSUME LifeInv, [Next]_vars
             PROVE  LifeInv'
  OBVIOUS
<1>1. CASE Next
  <2>1. PICK m : Outcome(m)
    BY <1>1, LifeOutcome
  <2>2. lazy' \in Lazy
    BY <2>1 DEF Outcome, LifeInv
  <2> QED
    BY <2>1, <2>2, LifeNext DEF Outcome
<1>2. CASE UNCHANGED vars
  <2>1. Becomes(Memory)
    BY <1>2, LifeFacts DEF vars
  <2>2. /\ Settled(Memory, own', committed', lazy', made')
        /\ lazy' \in Lazy /\ made' \in 0 .. MaxTypes /\ compiles' \in 0 .. MaxCompiles
    BY <1>2, LifeFacts DEF vars, LifeInv
  <2> QED
    BY <2>1, <2>2, LifeNext
<1> QED
  BY <1>1, <1>2

LEMMA LifeAlways == Spec => []LifeInv
<1>1. Init => LifeInv
  BY LifeInit
<1>2. LifeInv /\ [Next]_vars => LifeInv'
  BY LifeStep
<1> QED
  BY <1>1, <1>2, PTL DEF Spec

-----------------------------------------------------------------------------
(* What the invariant says of the state.                                   *)

\* The images of the types of S under an injective function.
LEMMA ImageCounted ==
    ASSUME NEW S, IsFiniteSet(S), NEW f, f = [s \in S |-> f[s]],
           \A s, t \in S : f[s] = f[t] => s = t
    PROVE  /\ IsFiniteSet({f[s] : s \in S})
           /\ Cardinality({f[s] : s \in S}) = Cardinality(S)
           /\ Cardinality(S) \in Nat
<1> DEFINE T == {f[s] : s \in S}
<1>1. f \in [S -> T]
  OBVIOUS
<1>2. f \in Injection(S, T)
  BY <1>1 DEF Injection, IsInjective
<1>3. f \in Surjection(S, T)
  BY <1>1 DEF Surjection
<1>4. ExistsBijection(S, T)
  BY <1>2, <1>3 DEF ExistsBijection, Bijection
<1> HIDE DEF T
<1>5. IsFiniteSet(T) /\ Cardinality(T) = Cardinality(S) /\ Cardinality(S) \in Nat
  BY <1>4, FS_Bijection, FS_CardinalityType
<1> QED
  BY <1>5 DEF T

LEMMA LifeTypes == LifeInv => TypeOK
<1> SUFFICES ASSUME LifeInv
             PROVE  TypeOK
  OBVIOUS
<1>1. Memory \in Memories /\ Owners(heap, own)
  BY MemoryIs DEF LifeInv, Sound
<1>2. /\ heap \in Heaps /\ functions \in SUBSET Functions /\ arrays \in SUBSET Nat
      /\ dropped \in SUBSET Nat /\ fault \in BOOLEAN
  BY <1>1, MemoryTyped, MemoryIs
<1>3. own \subseteq Nat
  BY <1>1, <1>2, HeapFacts DEF Owners
<1> QED
  BY <1>2, <1>3 DEF TypeOK, LifeInv

LEMMA LifeNoMisuse == LifeInv => NoMisuse
  BY MemoryIs DEF LifeInv, Sound, NoMisuse

LEMMA LifeOwned == LifeInv => SubtypesOwnedOnce
<1> SUFFICES ASSUME LifeInv
             PROVE  SubtypesOwnedOnce
  OBVIOUS
<1>1. Owners(heap, own)
  BY MemoryIs DEF LifeInv, Sound
<1>2. Closed(heap, Live(heap)) /\ OnePlace(heap, Live(heap))
  BY <1>1 DEF Owners, Forest
<1>3. own \subseteq Live(heap)
  BY <1>1 DEF Owners
<1>4. \A a \in Live(heap) : \A i \in DOMAIN heap[a].basetypes :
         heap[a].basetypes[i] \in Live(heap) \ own
  BY <1>1, <1>2 DEF Owners, Closed
<1> QED
  BY <1>2, <1>3, <1>4 DEF SubtypesOwnedOnce, OnePlace

LEMMA LifeArrays == LifeInv => CodeKeepsItsArrays
  BY MemoryIs DEF LifeInv, Sound, CodeKeepsItsArrays

\* A level further from the roots than the trees are deep, there is nothing.
LEMMA LifeOwnFreed == LifeInv => OwnTypesFreed
<1> SUFFICES ASSUME LifeInv
             PROVE  OwnTypesFreed
  OBVIOUS
<1> DEFINE h == heap
           S == {a \in Live(h) : h[a].by = "app"}
           Level == [X \in SUBSET Nat |->
                       X \cup UNION {{Fields(h[a])[i] : i \in DOMAIN Fields(h[a])} :
                                        a \in X \cap Live(h)}]
           fs == [i \in 1 .. MaxTypes |-> Level]
           J == [i \in 0 .. MaxTypes |->
                   {X \in SUBSET Nat : /\ own \subseteq X /\ X \subseteq S
                                       /\ S \ Nested[MaxTypes - i][h] \subseteq X}]
<1>1. /\ Owners(h, own) /\ h \in Heaps /\ MaxTypes \in Nat /\ own \subseteq S
      /\ Forest(h, Live(h), MaxTypes) /\ S \subseteq Nat
  <2>1. Owners(h, own) /\ Memory \in Memories
    BY MemoryIs DEF LifeInv, Sound
  <2>2. h \in Heaps
    BY <2>1, MemoryTyped, MemoryIs
  <2>3. Live(h) \subseteq Nat
    BY <2>2, HeapFacts
  <2> QED
    BY <2>1, <2>2, <2>3, BoundsAssumption DEF Owners
<1>2. \A a \in S : \A i \in DOMAIN Fields(h[a]) : Fields(h[a])[i] \in S
  <2>1. FieldClosed(h, Live(h))
    BY <1>1, ClosedFields DEF Forest
  <2> QED
    BY <1>1, <2>1 DEF FieldClosed, Owners, FieldsCredited
<1>3. \A a \in S : a \in own \/ \E b \in S : \E i \in DOMAIN Fields(h[b]) : Fields(h[b])[i] = a
  BY <1>1 DEF Owners, AppField
<1>4. Len(fs) = MaxTypes /\ Len(fs) \in Nat
  <2> HIDE DEF Level
  <2> QED
    BY <1>1
<1>5. own \in J[0]
  <2>1. S \subseteq Nested[MaxTypes][h] /\ MaxTypes - 0 = MaxTypes
    BY <1>1 DEF Forest
  <2>2. own \in SUBSET Nat /\ own \subseteq S /\ S \ Nested[MaxTypes - 0][h] \subseteq own
    <3> HIDE DEF S
    <3> QED
      BY <1>1, <2>1
  <2>3. 0 \in 0 .. MaxTypes
    BY <1>1
  <2> HIDE DEF S
  <2> QED
    BY <2>2, <2>3
<1>6. ASSUME NEW i \in 1 .. Len(fs), NEW X \in J[i - 1]
      PROVE  fs[i][X] \in J[i]
  <2> DEFINE Y == X \cup UNION {{Fields(h[a])[j] : j \in DOMAIN Fields(h[a])} :
                                   a \in X \cap Live(h)}
             k == MaxTypes - i
  <2>1. /\ i \in 1 .. MaxTypes /\ i - 1 \in 0 .. MaxTypes /\ i \in 0 .. MaxTypes
        /\ k \in Nat /\ MaxTypes - (i - 1) = k + 1
    BY <1>1, <1>4
  <2>2. /\ X \in SUBSET Nat /\ own \subseteq X /\ X \subseteq S
        /\ S \ Nested[k + 1][h] \subseteq X
    <3> HIDE DEF S, k
    <3> QED
      BY <2>1
  <2>3. fs[i][X] = Y
    BY <2>1, <2>2
  <2>4. Y \subseteq S
    <3>1. \A a \in X : \A j \in DOMAIN Fields(h[a]) : Fields(h[a])[j] \in S
      <4> HIDE DEF S
      <4> QED
        BY <1>2, <2>2
    <3>2. X \subseteq S
      BY <2>2
    <3> HIDE DEF S
    <3> SUFFICES ASSUME NEW y \in Y
                 PROVE  y \in S
      OBVIOUS
    <3>3. y \in X \/ \E a \in X : \E j \in DOMAIN Fields(h[a]) : y = Fields(h[a])[j]
      OBVIOUS
    <3> QED
      BY <3>1, <3>2, <3>3
  <2>5. ASSUME NEW a \in S, a \notin Nested[k][h]
        PROVE  a \in Y
    <3>1. CASE a \in own
      BY <2>2, <3>1
    <3>2. CASE a \notin own
      <4>1. PICK b \in S : \E j \in DOMAIN Fields(h[b]) : Fields(h[b])[j] = a
        BY <1>3, <3>2
      <4>2. b \notin Nested[k + 1][h]
        <5> SUFFICES ASSUME b \in Nested[k + 1][h]
                     PROVE  FALSE
          OBVIOUS
        <5>1. k + 1 \in Nat /\ (k + 1) - 1 = k
          BY <2>1
        <5>2. \A j \in DOMAIN Fields(h[b]) : Fields(h[b])[j] \in Nested[(k + 1) - 1][h]
          <6> HIDE DEF h, k, S
          <6> QED
            BY <1>1, <5>1, WholeObject
        <5> HIDE DEF k
        <5> QED
          BY <2>5, <4>1, <5>1, <5>2
      <4>3. b \in X /\ b \in Live(h)
        BY <2>2, <4>2
      <4> QED
        BY <4>1, <4>3
    <3> QED
      BY <3>1, <3>2
  <2>6. Y \in SUBSET Nat /\ own \subseteq Y /\ S \ Nested[k][h] \subseteq Y
    <3>1. own \subseteq Y
      BY <2>2
    <3> HIDE DEF Y, S, k
    <3> QED
      BY <1>1, <2>4, <2>5, <3>1
  <2> HIDE DEF Y, S
  <2> QED
    BY <2>1, <2>3, <2>4, <2>6
<1>7. Through(fs, own) \in J[MaxTypes]
  <2> HIDE DEF fs, J
  <2>1. Through(fs, own) \in J[Len(fs)]
    BY <1>4, <1>5, <1>6, ThroughInduction
  <2> QED
    BY <1>4, <2>1
<1>8. Reached(h, own) = Through(fs, own)
  BY DEF Reached
<1>9. Through(fs, own) = S
  <2>1. Nested[0][h] = {} /\ MaxTypes - MaxTypes = 0 /\ MaxTypes \in 0 .. MaxTypes
    BY <1>1, NestedAt
  <2> HIDE DEF S, fs
  <2> QED
    BY <1>7, <2>1
<1> QED
  BY <1>8, <1>9 DEF OwnTypesFreed

LEMMA LifeFunctions == LifeInv => FunctionsAccounted
<1> SUFFICES ASSUME LifeInv
             PROVE  FunctionsAccounted
  OBVIOUS
<1> DEFINE h == heap
           N == Names(functions)
           P == {t \in own : h[t].pack # NULL}
           U == {t \in own : h[t].unpack # NULL}
           p == [t \in P |-> h[t].pack]
           u == [t \in U |-> h[t].unpack]
           PN == {p[t] : t \in P}
           UN == {u[t] : t \in U}
<1>1. /\ IsFiniteSet(functions) /\ NULL \notin N /\ dropped \subseteq N
      /\ \A t \in own : Code(h[t]) \subseteq N \ dropped
      /\ \A f \in N \ dropped : \E t \in own : f \in Code(h[t])
      /\ \A t, v \in own : t # v => Code(h[t]) \cap Code(h[v]) = {}
      /\ \A t \in own : h[t].pack = h[t].unpack => h[t].pack = NULL
  BY MemoryIs DEF LifeInv, Sound, Accounted
<1>2. /\ Owners(h, own) /\ IsFiniteSet(own)
  <2>1. Owners(h, own) /\ Memory \in Memories
    BY MemoryIs DEF LifeInv, Sound
  <2>2. IsFiniteSet(Live(h))
    BY <2>1, MemoryTyped, MemoryIs, HeapFacts
  <2> QED
    BY <2>1, <2>2, FS_Subset DEF Owners
<1>3. IsFiniteSet(P) /\ IsFiniteSet(U)
  BY <1>2, FS_Subset
<1>4. IsFiniteSet(N) /\ IsFiniteSet(dropped)
  BY <1>1, NamesFinite, FS_Subset
<1>5. /\ \A t \in P : p[t] \in Code(h[t]) /\ t \in own
      /\ \A t \in U : u[t] \in Code(h[t]) /\ t \in own
  BY DEF Code
<1>6. N = PN \cup UN \cup dropped
  <2>1. PN \cup UN \subseteq N
    <3>1. \A t \in P : p[t] \in N
      BY <1>1, <1>5
    <3>2. \A t \in U : u[t] \in N
      BY <1>1, <1>5
    <3> HIDE DEF p, u, P, U, N
    <3> QED
      BY <3>1, <3>2
  <2>2. \A t \in own : Code(h[t]) \subseteq PN \cup UN
    BY DEF Code
  <2> HIDE DEF PN, UN, N
  <2> QED
    BY <1>1, <2>1, <2>2
<1>7. /\ IsFiniteSet(PN) /\ Cardinality(PN) = Cardinality(P) /\ Cardinality(P) \in Nat
  <2>1. \A s, t \in P : p[s] = p[t] => s = t
    BY <1>1, <1>5
  <2>2. p = [t \in P |-> p[t]]
    OBVIOUS
  <2> HIDE DEF p, P
  <2> QED
    BY <1>3, <2>1, <2>2, ImageCounted
<1>8. /\ IsFiniteSet(UN) /\ Cardinality(UN) = Cardinality(U) /\ Cardinality(U) \in Nat
  <2>1. \A s, t \in U : u[s] = u[t] => s = t
    BY <1>1, <1>5
  <2>2. u = [t \in U |-> u[t]]
    OBVIOUS
  <2> HIDE DEF u, U
  <2> QED
    BY <1>3, <2>1, <2>2, ImageCounted
<1>9. PN \cap UN = {} /\ (PN \cup UN) \cap dropped = {}
  <2>1. \A s \in P, t \in U : p[s] # u[t]
    BY <1>1, <1>5
  <2>2. \A s \in P : p[s] \notin dropped
    BY <1>1, <1>5
  <2>3. \A t \in U : u[t] \notin dropped
    BY <1>1, <1>5
  <2> HIDE DEF p, u, P, U
  <2> QED
    BY <2>1, <2>2, <2>3
<1> HIDE DEF PN, UN, P, U
<1>10. Cardinality(N) = Cardinality(P) + Cardinality(U) + Cardinality(dropped)
  <2>1. Cardinality({}) = 0
    BY FS_EmptySet
  <2>2. IsFiniteSet(PN \cup UN) /\ Cardinality(PN \cup UN) = Cardinality(P) + Cardinality(U)
    <3>1. Cardinality(PN \cup UN) = Cardinality(PN) + Cardinality(UN) - Cardinality(PN \cap UN)
      BY <1>7, <1>8, FS_Union
    <3>2. IsFiniteSet(PN \cup UN)
      BY <1>7, <1>8, FS_Union
    <3>3. Cardinality(PN \cap UN) = 0
      BY <1>9, <2>1
    <3> QED
      BY <1>7, <1>8, <3>1, <3>2, <3>3
  <2>3. Cardinality((PN \cup UN) \cup dropped)
           = Cardinality(PN \cup UN) + Cardinality(dropped) - Cardinality((PN \cup UN) \cap dropped)
    BY <1>4, <2>2, FS_Union
  <2>4. Cardinality(dropped) \in Nat
    BY <1>4, FS_CardinalityType
  <2>5. Cardinality((PN \cup UN) \cap dropped) = 0
    BY <1>9, <2>1
  <2>6. Cardinality(N) = Cardinality((PN \cup UN) \cup dropped)
    BY <1>6
  <2> HIDE DEF N
  <2> QED
    BY <1>7, <1>8, <2>2, <2>3, <2>4, <2>5, <2>6
<1>11. \A a \in Live(h) \ own : h[a].pack = NULL /\ h[a].unpack = NULL
  BY <1>2 DEF Owners, Bare
<1>12. /\ PN = {h[t].pack : t \in P}
       /\ UN = {h[t].unpack : t \in U}
  BY DEF PN, UN
<1> QED
  BY <1>6, <1>10, <1>11, <1>12 DEF FunctionsAccounted, P, U

-----------------------------------------------------------------------------
(* Types behave as values.                                                 *)

\* A tree has its value at any level above its height.
LEMMA ValueDeeper ==
    ASSUME NEW h \in Heaps, NEW n \in Nat
    PROVE  \A a \in Nested[n][h] : Value[n + 1][h][a] = Value[n][h][a]
<1> DEFINE S == {k \in Nat : \A a \in Nested[k][h] : Value[k + 1][h][a] = Value[k][h][a]}
<1>1. 0 \in S
  BY NestedAt
<1>2. ASSUME NEW k \in Nat, k \in S
      PROVE  k + 1 \in S
  <2> SUFFICES ASSUME NEW a \in Nested[k + 1][h]
               PROVE  Value[(k + 1) + 1][h][a] = Value[k + 1][h][a]
    OBVIOUS
  <2>1. k + 1 \in Nat /\ k + 1 # 0 /\ (k + 1) - 1 = k
        /\ (k + 1) + 1 \in Nat /\ (k + 1) + 1 # 0 /\ ((k + 1) + 1) - 1 = k + 1
    OBVIOUS
  <2>2. /\ a \in Live(h) /\ a \in Nat
        /\ \A i \in DOMAIN Fields(h[a]) : Fields(h[a])[i] \in Nested[(k + 1) - 1][h]
    BY <2>1, WholeObject
  <2>3. \A i \in DOMAIN Fields(h[a]) :
           Value[k + 1][h][Fields(h[a])[i]] = Value[k][h][Fields(h[a])[i]]
    BY <1>2, <2>1, <2>2
  <2>4. Value[(k + 1) + 1][h][a] =
           [kind |-> h[a].kind, tight |-> h[a].tight,
            fields |-> [i \in DOMAIN Fields(h[a]) |->
                           Value[((k + 1) + 1) - 1][h][Fields(h[a])[i]]]]
    BY <2>1, <2>2, ValueAt
  <2>5. Value[k + 1][h][a] =
           [kind |-> h[a].kind, tight |-> h[a].tight,
            fields |-> [i \in DOMAIN Fields(h[a]) |->
                           Value[(k + 1) - 1][h][Fields(h[a])[i]]]]
    BY <2>1, <2>2, ValueAt
  <2>6. [i \in DOMAIN Fields(h[a]) |-> Value[((k + 1) + 1) - 1][h][Fields(h[a])[i]]]
           = [i \in DOMAIN Fields(h[a]) |-> Value[(k + 1) - 1][h][Fields(h[a])[i]]]
    BY <2>1, <2>3
  <2> QED
    BY <2>4, <2>5, <2>6
<1>3. Nat \subseteq S
  <2> HIDE DEF S
  <2> QED
    BY <1>1, <1>2, NatInduct
<1> QED
  BY <1>3

\* The variables of DatatypeValues.
value  == [t \in own |-> Value[MaxTypes][heap][t]]
usable == {t \in own : Usable(t)}

\* The types one can pack: all of them under LAZY, else the committed ones.
LEMMA UsableTypes ==
    ASSUME LifeInv
    PROVE  usable = IF lazy THEN own ELSE committed
<1>1. /\ Accounted(heap, functions, dropped, own) /\ Owners(heap, own)
      /\ committed \subseteq own
  BY MemoryIs DEF LifeInv, Sound
<1>2. own \subseteq Live(heap)
  BY <1>1 DEF Owners
<1>3. CASE lazy
  BY <1>2, <1>3 DEF usable, Usable
<1>4. CASE ~lazy
  <2>1. /\ \A t \in committed : heap[t].pack # NULL /\ heap[t].unpack # NULL
        /\ \A t \in own \ committed : Bare(heap[t])
    BY <1>4 DEF LifeInv
  <2>2. \A t \in committed : Usable(t)
    BY <1>1, <1>2, <2>1 DEF Usable, Accounted, Code
  <2>3. \A t \in own \ committed : ~Usable(t)
    BY <1>1, <1>4, <2>1 DEF Usable, Accounted, Bare
  <2> QED
    BY <1>1, <1>4, <2>2, <2>3 DEF usable
<1> QED
  BY <1>3, <1>4

LEMMA UsableTypesNext ==
    ASSUME LifeInv'
    PROVE  usable' = IF lazy' THEN own' ELSE committed'
<1>1. /\ Accounted(heap', functions', dropped', own') /\ Owners(heap', own')
      /\ committed' \subseteq own'
  BY DEF LifeInv, Sound, Memory
<1>2. own' \subseteq Live(heap')
  BY <1>1 DEF Owners
<1>3. CASE lazy'
  BY <1>2, <1>3 DEF usable, Usable
<1>4. CASE ~lazy'
  <2>1. /\ \A t \in committed' : (heap')[t].pack # NULL /\ (heap')[t].unpack # NULL
        /\ \A t \in own' \ committed' : Bare((heap')[t])
    BY <1>4 DEF LifeInv
  <2>2. \A t \in committed' : {(heap')[t].pack, (heap')[t].unpack} \subseteq Names(functions')
    BY <1>1, <2>1 DEF Accounted, Code
  <2>3. \A t \in own' \ committed' : ~({(heap')[t].pack, (heap')[t].unpack} \subseteq Names(functions'))
    BY <1>1, <2>1 DEF Accounted, Bare
  <2> QED
    BY <1>1, <1>2, <1>4, <2>2, <2>3 DEF usable, Usable
<1> QED
  BY <1>3, <1>4

\* The values of types that are still there are as they were.
LEMMA ValuesFollow ==
    ASSUME NEW m, Becomes(m), NEW S, Follows(Memory, m, S)
    PROVE  \A t \in S : Value[MaxTypes][heap'][t] = Value[MaxTypes][heap][t]
  BY MemoryIs, BoundsAssumption DEF Becomes, Follows

LEMMA MakingIsNew ==
    ASSUME LifeInv, LifeInv', NEW m, Outcome(m), ByMaking(m)
    PROVE  DatatypeValue!New
<1> DEFINE r == m.ret
           n == MaxTypes - 1
           o == (heap')[r]
           fields == [i \in DOMAIN Fields(o) |-> Value[n][heap'][Fields(o)[i]]]
           new == [kind |-> o.kind, tight |-> o.tight, fields |-> fields]
<1>1. /\ made < MaxTypes /\ own' = own \cup {r} /\ r \notin own /\ committed' = committed
      /\ lazy' = lazy /\ Follows(Memory, m, own) /\ r \in Live(m.heap)
      /\ Becomes(m) /\ heap' = m.heap /\ m \in Memories
  BY SettledFacts DEF Outcome, ByMaking, Gained, Becomes
<1>2. /\ MaxTypes \in Nat /\ made \in Nat /\ n \in Nat /\ n + 1 = MaxTypes /\ made <= n
      /\ heap \in Heaps
  <2>1. /\ MaxTypes \in Nat /\ made \in Nat /\ Memory \in Memories
    BY LifeFacts
  <2>2. heap \in Heaps
    BY <2>1, MemoryTyped, MemoryIs
  <2>3. n \in Nat /\ n + 1 = MaxTypes /\ made <= n
    BY <1>1, <2>1
  <2> QED
    BY <2>1, <2>2, <2>3
<1>3. \A t \in own : Value[MaxTypes][heap'][t] = Value[MaxTypes][heap][t]
  BY <1>1, ValuesFollow
<1>4. Value[MaxTypes][heap'][r] = new
  <2>1. heap' \in Heaps /\ r \in Nat /\ r \in Live(heap') /\ MaxTypes # 0
    BY <1>1, <1>2, MemoryTyped
  <2> QED
    BY <1>2, <2>1, ValueAt
<1>5. \A i \in DOMAIN Fields(o) : \E t \in own : fields[i] = Value[MaxTypes][heap][t]
  <2> SUFFICES ASSUME NEW i \in DOMAIN Fields(o)
               PROVE  \E t \in own : fields[i] = Value[MaxTypes][heap][t]
    OBVIOUS
  <2>1. PICK t \in own : \A q \in Nat : Value[q][m.heap][Fields(m.heap[r])[i]] = Value[q][heap][t]
    BY <1>1, MemoryIs DEF ByMaking, Gained
  <2>2. fields[i] = Value[n][heap][t]
    BY <1>1, <1>2, <2>1
  <2>3. t \in Nested[n][heap]
    BY <1>2, NestedDeeper DEF LifeInv
  <2>4. Value[n + 1][heap][t] = Value[n][heap][t]
    BY <1>2, <2>3, ValueDeeper
  <2> QED
    BY <1>2, <2>2, <2>4
<1> HIDE DEF n, o, fields
<1>6. value' = [s \in DOMAIN value \cup {r} |-> IF s = r THEN new ELSE value[s]]
  BY <1>1, <1>3, <1>4 DEF value
<1>7. r \in DOMAIN value' \ DOMAIN value /\ value'[r] = new
  BY <1>1, <1>6 DEF value
<1>8. \A i \in DOMAIN new.fields : new.fields[i] \in DatatypeValue!Values
  <2>1. \A i \in DOMAIN fields : \E t \in own : fields[i] = Value[MaxTypes][heap][t]
    BY <1>5 DEF fields
  <2> QED
    BY <2>1 DEF DatatypeValue!Values
<1>9. usable' \in {usable, usable \cup {r}}
  BY <1>1, UsableTypes, UsableTypesNext
<1> HIDE DEF new
<1> QED
  BY <1>6, <1>7, <1>8, <1>9 DEF DatatypeValue!New, value, usable

LEMMA CompilingIsCommit ==
    ASSUME LifeInv, LifeInv', NEW m, Outcome(m), NEW t \in own, ByCompiling(m, t)
    PROVE  DatatypeValue!Commit
<1>1. /\ own' = own /\ lazy' = lazy /\ Follows(Memory, m, own) /\ Becomes(m)
      /\ ~lazy => committed' = committed \cup {t}
  BY DEF Outcome, ByCompiling
<1>2. \A s \in own : Value[MaxTypes][heap'][s] = Value[MaxTypes][heap][s]
  BY <1>1, ValuesFollow
<1>3. value' = value
  BY <1>1, <1>2 DEF value
<1>4. usable' = usable \cup {t}
  BY <1>1, UsableTypes, UsableTypesNext
<1>5. t \in DOMAIN value
  BY DEF value
<1> QED
  BY <1>3, <1>4, <1>5 DEF DatatypeValue!Commit, value, usable

LEMMA FreeingIsFree ==
    ASSUME LifeInv, LifeInv', NEW m, Outcome(m), NEW t \in own, ByFreeing(m, t)
    PROVE  DatatypeValue!Free
<1>1. /\ own' = own \ {t} /\ lazy' = lazy /\ Follows(Memory, m, own \ {t}) /\ Becomes(m)
      /\ committed' = committed \ {t}
  BY DEF Outcome, ByFreeing
<1>2. \A s \in own \ {t} : Value[MaxTypes][heap'][s] = Value[MaxTypes][heap][s]
  BY <1>1, ValuesFollow
<1>3. value' = [s \in DOMAIN value \ {t} |-> value[s]]
  BY <1>1, <1>2 DEF value
<1>4. usable' = usable \ {t}
  BY <1>1, UsableTypes, UsableTypesNext
<1>5. t \in DOMAIN value
  BY DEF value
<1> QED
  BY <1>3, <1>4, <1>5 DEF DatatypeValue!Free, value, usable

LEMMA StepIsValueStep ==
    LifeInv /\ LifeInv' /\ [Next]_vars => [DatatypeValue!Next]_<<value, usable>>
<1> SUFFICES ASSUME LifeInv, LifeInv', [Next]_vars
             PROVE  [DatatypeValue!Next]_<<value, usable>>
  OBVIOUS
<1>1. CASE Next
  <2>1. PICK m : Outcome(m)
    BY <1>1, LifeOutcome
  <2>2. CASE ByMaking(m)
    BY <2>1, <2>2, MakingIsNew DEF DatatypeValue!Next
  <2>3. CASE \E t \in own : ByCompiling(m, t)
    BY <2>1, <2>3, CompilingIsCommit DEF DatatypeValue!Next
  <2>4. CASE \E t \in own : ByFreeing(m, t)
    BY <2>1, <2>4, FreeingIsFree DEF DatatypeValue!Next
  <2> QED
    BY <2>1, <2>2, <2>3, <2>4 DEF Outcome
<1>2. CASE UNCHANGED vars
  BY <1>2 DEF vars, value, usable, Usable
<1> QED
  BY <1>1, <1>2

-----------------------------------------------------------------------------
(* The theorems.                                                           *)

\* After any calls the objects, the functions and the arrays are what their
\* types say, and what is committed is a type the application has.
THEOREM LifecycleTypeCorrectness == Spec => []TypeOK
<1>1. LifeInv => TypeOK
  BY LifeTypes
<1> QED
  BY <1>1, LifeAlways, PTL

\* Whatever the order in which types are made, committed, packed and freed,
\* with and without LAZY: no constructor, destructor or compile() touches an
\* object that is deleted, ~Datatype frees no function twice, and DDT_Pack and
\* DDT_Unpack call functions that exist and whose arrays do.
THEOREM NeverMisused == Spec => []NoMisuse
<1>1. LifeInv => NoMisuse
  BY LifeNoMisuse
<1> QED
  BY <1>1, LifeAlways, PTL

\* The constructors clone and compile() rebuilds, so that every object has one
\* owner, which alone deletes it.
THEOREM SubtypesAlwaysOwnedOnce == Spec => []SubtypesOwnedOnce
<1>1. LifeInv => SubtypesOwnedOnce
  BY LifeOwned
<1> QED
  BY <1>1, LifeAlways, PTL

\* The destructors reach all that the application's constructor calls built:
\* what a type it frees was made of is gone with it.
THEOREM OwnTypesAlwaysFreed == Spec => []OwnTypesFreed
<1>1. LifeInv => OwnTypesFreed
  BY LifeOwnFreed
<1> QED
  BY <1>1, LifeAlways, PTL

\* Each function compile() made belongs to one type and one direction, or was
\* overwritten by a later compilation; ~Datatype frees the former.
THEOREM FunctionsAlwaysAccounted == Spec => []FunctionsAccounted
<1>1. LifeInv => FunctionsAccounted
  BY LifeFunctions
<1> QED
  BY <1>1, LifeAlways, PTL

\* Deleting the compressed copy leaves the arrays its code reads in place.
THEOREM CodeAlwaysKeepsItsArrays == Spec => []CodeKeepsItsArrays
<1>1. LifeInv => CodeKeepsItsArrays
  BY LifeArrays
<1> QED
  BY <1>1, LifeAlways, PTL

\* The trees, the sharing and the compilations implement types that are values:
\* each call makes one type out of copies of its old types, makes one usable,
\* or takes one away, and changes no other.
THEOREM ValuesImplemented == Spec => ImplementsValues
<1>1. Init => DatatypeValue!Init
  BY DEF Init, DatatypeValue!Init
<1>2. LifeInv /\ LifeInv' /\ [Next]_vars => [DatatypeValue!Next]_<<value, usable>>
  BY StepIsValueStep
<1> QED
  BY <1>1, <1>2, LifeAlways, PTL DEF Spec, ImplementsValues, DatatypeValue!Spec, value, usable

=============================================================================
