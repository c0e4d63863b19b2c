----------------------- MODULE DatatypePackingProofs -----------------------
(***************************************************************************)
(* The library follows the type map, for every datatype in scope: every    *)
(* tree of constructors, every list of blocks and displacements, every     *)
(* number of items.                                                        *)
(*                                                                         *)
(* The proof goes up the tree, by induction on its height, three times.    *)
(* A regular tree has the bounds of its type map, and compression keeps    *)
(* both (RegularFits, CompressStands).  The code of a runnable tree moves  *)
(* the bytes of the type map (RunnableRuns) and meets its bounds           *)
(* (RunnableEnds).  A datatype in scope is regular, and compresses to a    *)
(* runnable one (ScopeRegular, ScopeRunnable).  The inductive invariant    *)
(* PackInv then says that what a call moved is what that code moves.       *)
(***************************************************************************)
EXTENDS DatatypePacking, DatatypeTreeProofs

-----------------------------------------------------------------------------
(* The bounds.                                                             *)

\* The arguments under which a constructor computes the bounds of the type map.
Straight(t) ==
    /\ t.kind = "CONTIGUOUS" => t.count > 0 \/ t.base.lb = 0
    /\ t.kind \in {"VECTOR", "HVECTOR"} => t.count > 0 /\ t.blocklen > 0 /\ t.stride > 0
    /\ t.kind \notin {"PRIMITIVE", "CONTIGUOUS", "STRUCT"} => t.base.size > 0
    /\ t.kind = "INDEXEDBLOCK" =>
          /\ Dense(t.base) /\ t.blocklen = 1
          /\ \A i \in DOMAIN t.displs : t.displs[i] >= 0
          /\ \E i \in DOMAIN t.displs : t.displs[i] = 0
    /\ t.kind = "HINDEXED" =>
          /\ t.base.lb = 0 /\ Extent(t) > 0
          /\ \A i \in DOMAIN t.blocklens : t.blocklens[i] > 0
    /\ t.kind = "STRUCT" =>
          /\ Extent(t) > 0
          /\ \E i \in DOMAIN t.displs : t.displs[i] <= 0
          /\ \E i \in DOMAIN t.displs :
                t.displs[i] + t.blocklens[i] * Extent(t.bases[i]) >= 0
          /\ \A i \in DOMAIN t.bases :
                t.bases[i].size > 0 /\ t.bases[i].lb = 0 /\ t.blocklens[i] > 0
    /\ t.kind = "RESIZED" => Extent(t) >= 0

\* Trees that are straight at every node.
Regular == UNION {S \in SUBSET Built : \A t \in S : Straight(t) /\ Children(t) \subseteq S}

\* A regular tree is straight over regular trees.
LEMMA RegularNode ==
    ASSUME NEW t \in Regular
    PROVE  t \in Built /\ Straight(t) /\ Children(t) \subseteq Regular
  BY DEF Regular

\* A built node that is straight over regular trees is regular.
LEMMA RegularOver ==
    ASSUME NEW t \in Built, Straight(t), Children(t) \subseteq Regular
    PROVE  t \in Regular
<1> DEFINE S == Regular \cup {t}
<1>1. S \in SUBSET Built
  BY DEF Regular
<1>2. \A s \in S : Straight(s) /\ Children(s) \subseteq S
  BY RegularNode
<1> QED
  BY <1>1, <1>2 DEF Regular

\* The attributes of t are those of its meaning.
Fits(t) ==
    /\ Layout(Meaning[t], t.size)
    /\ Meaning[t].lb = t.lb /\ Meaning[t].ub = t.ub
    /\ Extent(t) >= 0

\* The attributes of a tree that fits its type map.
LEMMA FitsSpan ==
    ASSUME NEW t, Fits(t)
    PROVE  /\ Layout(Meaning[t], t.size) /\ Span(Meaning[t]) = Extent(t)
           /\ Extent(t) \in Nat /\ t.size \in Nat /\ Attributed(t)
           /\ Bytes(Meaning[t]) = t.size
<1>1. Layout(Meaning[t], t.size) /\ Meaning[t].lb = t.lb /\ Meaning[t].ub = t.ub /\ Extent(t) >= 0
  BY DEF Fits
<1>2. Lays(Meaning[t].map, t.size) /\ t.lb \in Int /\ t.ub \in Int
  BY <1>1 DEF Layout
<1>3. t.size \in Nat
  BY <1>2, LaysPairs
<1>4. Bytes(Meaning[t]) = t.size
  BY <1>2, LaysBytes DEF Bytes
<1> QED
  BY <1>1, <1>2, <1>3, <1>4 DEF Span, Extent, Attributed

\* Primitive::Primitive(): the bytes in place.
LEMMA PrimitiveFits ==
    ASSUME NEW t \in Trees, t.kind = "PRIMITIVE"
    PROVE  Fits(t) /\ t.size > 0 /\ t.lb = 0 /\ Extent(t) = t.size
           /\ Meaning[t].map = {<<i, i>> : i \in 0 .. t.size - 1}
<1>1. PICK type \in DOMAIN SizeOf : t = Primitive(type)
  BY NodeFields DEF Prims
<1>2. SizeOf[type] \in Nat /\ SizeOf[type] > 0
  BY DEF SizeOf
<1>3. t.size = SizeOf[type] /\ t.lb = 0 /\ t.ub = SizeOf[type] /\ t.type = type
  BY <1>1 DEF Primitive
<1>4. Meaning[t] = PrimitiveMeaning(type)
  BY <1>3, MeaningUnfold, MeaningOfKinds
<1>5. /\ Meaning[t].map = {<<i, i>> : i \in 0 .. t.size - 1}
      /\ Meaning[t].lb = 0 /\ Meaning[t].ub = t.size
  BY <1>3, <1>4 DEF PrimitiveMeaning
<1>6. Lays(Meaning[t].map, t.size)
  <2> DEFINE F == [i \in 0 .. t.size - 1 |-> i]
  <2>1. F \in [0 .. t.size - 1 -> Int]
    BY <1>2, <1>3
  <2>2. Meaning[t].map = {<<i, F[i]>> : i \in 0 .. t.size - 1}
    BY <1>5
  <2> HIDE DEF F
  <2> QED
    BY <1>2, <1>3, <2>1, <2>2 DEF Lays
<1> QED
  BY <1>2, <1>3, <1>5, <1>6 DEF Fits, Layout, Extent

\* ContiguousDatatype: size and bounds are those of count items.
LEMMA ContiguousFits ==
    ASSUME NEW t \in Trees, t.kind = "CONTIGUOUS", AsBuilt(t), Straight(t), Fits(t.base)
    PROVE  Fits(t)
<1> DEFINE b == t.base
           m == Meaning[b]
           n == t.count
<1>1. /\ Layout(m, b.size) /\ Span(m) = Extent(b) /\ Extent(b) \in Nat /\ Attributed(b)
      /\ m.lb = b.lb /\ m.ub = b.ub
  BY FitsSpan DEF Fits
<1>2. n \in Nat /\ t = Contiguous(n, b) /\ (n > 0 \/ b.lb = 0)
  BY NodeFields DEF AsBuilt, Straight
<1>3. Meaning[t] = Repeated(n, m)
  BY MeaningUnfold, MeaningOfKinds
<1> HIDE DEF b, m, n
<1>4. /\ t.size = n * b.size /\ t.lb = b.lb /\ t.ub = b.lb + n * Extent(b)
      /\ Extent(t) = n * Extent(b) /\ Attributed(t)
  <2>1. n \in Int
    BY <1>2
  <2> QED
    BY <1>1, <1>2, <2>1, ContiguousAttributes
<1>5. Lays(Meaning[t].map, t.size)
  BY <1>1, <1>2, <1>3, <1>4, RepeatedMap
<1>6. Meaning[t].lb = t.lb /\ Meaning[t].ub = t.ub
  <2>1. CASE n = 0
    <3>1. Meaning[t].lb = 0 /\ Meaning[t].ub = 0
      BY <1>3, <2>1, RepeatedNothing
    <3>2. b.lb = 0 /\ n * Extent(b) = 0
      BY <1>1, <1>2, <2>1, SMTT(30)
    <3> QED
      BY <1>4, <3>1, <3>2
  <2>2. CASE n # 0
    <3>1. n \in Nat \ {0} /\ Span(m) >= 0
      BY <1>1, <1>2, <2>2
    <3> QED
      BY <1>1, <1>3, <1>4, <3>1, RepeatedHull
  <2> QED
    BY <2>1, <2>2
<1>7. Extent(t) >= 0
  BY <1>1, <1>2, <1>4, SMTT(30)
<1> QED
  BY <1>4, <1>5, <1>6, <1>7 DEF Fits, Layout, Attributed

\* VectorDatatype: size and bounds are those of the strided blocks.
LEMMA VectorFits ==
    ASSUME NEW t \in Trees, t.kind = "VECTOR", AsBuilt(t), Straight(t), Fits(t.base)
    PROVE  Fits(t)
<1> DEFINE b == t.base
           m == Meaning[b]
           n == t.count
           l == t.blocklen
           s == t.stride
           e == Extent(b)
<1>1. /\ Layout(m, b.size) /\ Span(m) = e /\ e \in Nat /\ Attributed(b) /\ b.size \in Nat
      /\ m.lb = b.lb /\ m.ub = b.ub
  BY FitsSpan DEF Fits
<1>2. /\ n \in Nat \ {0} /\ l \in Nat \ {0} /\ s \in Nat \ {0}
      /\ t = Vector(n, l, s, b)
  BY NodeFields DEF AsBuilt, Straight
<1>3. Meaning[t] = Strided(n, l, s * Span(m), m)
  BY MeaningUnfold, MeaningOfKinds
<1> HIDE DEF b, m, n, l, s
<1>4. /\ t.size = (n * l) * b.size /\ t.lb = b.lb
      /\ t.ub = b.lb + (s * (n - 1) + l) * e /\ Attributed(t)
  <2>1. n \in Int /\ l \in Int /\ s \in Int /\ s > 0
    BY <1>2
  <2>2. Attributed(b)
    BY <1>1
  <2>3. LET v == Vector(n, l, s, b)
        IN  /\ v.size = (n * l) * b.size /\ v.lb = b.lb
            /\ v.ub = b.lb + (s * (n - 1) + l) * Extent(b) /\ Attributed(v)
    BY <2>1, <2>2, VectorAttributes
  <2> QED
    BY <1>2, <2>3
<1> HIDE DEF e
<1>5. s * e \in Nat /\ n \in Nat /\ l \in Nat /\ s * e \in Int
  BY <1>1, <1>2, SMTT(30)
<1>6. Lays(Meaning[t].map, n * (l * b.size))
  BY <1>1, <1>3, <1>5, StridedMap
<1>7. Meaning[t].lb = b.lb /\ Meaning[t].ub = b.lb + (n - 1) * (s * e) + l * e
  <2> DEFINE w == s * e
  <2>1. Span(m) >= 0 /\ w \in Nat /\ Meaning[t] = Strided(n, l, w, m) /\ Layout(m, b.size)
    BY <1>1, <1>3, <1>5
  <2> HIDE DEF w
  <2>3. /\ Strided(n, l, w, m).lb = m.lb
        /\ Strided(n, l, w, m).ub = m.lb + (n - 1) * w + l * Span(m)
    <3>1. n \in Nat \ {0} /\ l \in Nat \ {0}
      BY <1>2
    <3> QED
      BY <2>1, <3>1, StridedHull
  <2>2. Meaning[t].lb = m.lb /\ Meaning[t].ub = m.lb + (n - 1) * w + l * Span(m)
    BY <2>1, <2>3
  <2> QED
    BY <1>1, <2>2 DEF w
<1>8. n * (l * b.size) = (n * l) * b.size
  BY <1>1, <1>2, Regroup
<1>9. /\ (n - 1) * (s * e) + l * e = (s * (n - 1) + l) * e
      /\ 0 <= (s * (n - 1) + l) * e
      /\ (n - 1) * (s * e) \in Int /\ l * e \in Int
  BY <1>1, <1>2, SMTT(30)
<1>10. Meaning[t].ub = t.ub /\ Meaning[t].lb = t.lb /\ Extent(t) >= 0
  BY <1>1, <1>4, <1>7, <1>9 DEF Extent, Attributed
<1> QED
  BY <1>4, <1>6, <1>8, <1>10 DEF Fits, Layout, Attributed

\* HVectorDatatype: the same, with the stride in bytes.
LEMMA HVectorFits ==
    ASSUME NEW t \in Trees, t.kind = "HVECTOR", AsBuilt(t), Straight(t), Fits(t.base)
    PROVE  Fits(t)
<1> DEFINE b == t.base
           m == Meaning[b]
           n == t.count
           l == t.blocklen
           s == t.stride
           e == Extent(b)
<1>1. /\ Layout(m, b.size) /\ Span(m) = e /\ e \in Nat /\ Attributed(b) /\ b.size \in Nat
      /\ m.lb = b.lb /\ m.ub = b.ub
  BY FitsSpan DEF Fits
<1>2. /\ n \in Nat \ {0} /\ l \in Nat \ {0} /\ s \in Nat \ {0}
      /\ t = HVector(n, l, s, b)
  BY NodeFields DEF AsBuilt, Straight
<1>3. Meaning[t] = Strided(n, l, s, m)
  BY MeaningUnfold, MeaningOfKinds
<1> HIDE DEF b, m, n, l, s
<1>4. /\ t.size = (n * l) * b.size /\ t.lb = b.lb
      /\ t.ub = b.lb + s * (n - 1) + l * e /\ Attributed(t)
  <2>1. n \in Int /\ n # 0 /\ l \in Int /\ s \in Int /\ s > 0
    BY <1>2
  <2>2. Attributed(b)
    BY <1>1
  <2>3. LET v == HVector(n, l, s, b)
        IN  /\ v.size = (n * l) * b.size /\ v.lb = b.lb
            /\ v.ub = b.lb + s * (n - 1) + l * Extent(b) /\ Attributed(v)
    BY <2>1, <2>2, HVectorAttributes
  <2> QED
    BY <1>2, <2>3
<1> HIDE DEF e
<1>5. n \in Nat /\ l \in Nat /\ s \in Int /\ s \in Nat
  BY <1>2
<1>6. Lays(Meaning[t].map, n * (l * b.size))
  BY <1>1, <1>3, <1>5, StridedMap
<1>7. Meaning[t].lb = b.lb /\ Meaning[t].ub = b.lb + (n - 1) * s + l * e
  <2>1. Span(m) >= 0
    BY <1>1
  <2> QED
    BY <1>1, <1>2, <1>3, <1>5, <2>1, StridedHull
<1>8. n * (l * b.size) = (n * l) * b.size
  BY <1>1, <1>2, Regroup
<1>9. /\ (n - 1) * s = s * (n - 1) /\ 0 <= s * (n - 1) /\ 0 <= l * e
      /\ s * (n - 1) \in Int /\ l * e \in Int
  BY <1>1, <1>2, SMTT(30)
<1>10. Meaning[t].ub = t.ub /\ Meaning[t].lb = t.lb /\ Extent(t) >= 0
  BY <1>1, <1>4, <1>7, <1>9 DEF Extent, Attributed
<1> QED
  BY <1>4, <1>6, <1>8, <1>10 DEF Fits, Layout, Attributed

\* ResizedDatatype: the bounds are its arguments.
LEMMA ResizedFits ==
    ASSUME NEW t \in Trees, t.kind = "RESIZED", AsBuilt(t), Straight(t), Fits(t.base)
    PROVE  Fits(t)
<1>1. /\ Meaning[t].map = Meaning[t.base].map
      /\ Meaning[t].lb = t.lb /\ Meaning[t].ub = t.ub
  BY MeaningUnfold, MeaningOfKinds
<1>2. t.size = t.base.size
  BY DEF AsBuilt, Resized
<1>3. t.lb \in Int /\ t.ub \in Int /\ Extent(t) >= 0
  BY NodeFields DEF Attributed, Straight
<1> QED
  BY <1>1, <1>2, <1>3 DEF Fits, Layout

\* disp and stop hold where the blocks, none of them empty, begin and end.
Edges(blocks, n, disp, stop) ==
    \A b \in 1 .. n :
        /\ blocks[b].len > 0 /\ blocks[b].item.lb = 0 /\ Span(blocks[b].item) >= 0
        /\ disp[b] = blocks[b].disp
        /\ stop[b] = blocks[b].disp + blocks[b].len * Span(blocks[b].item)

\* The layout lies between lo and hi, the least disp and the greatest stop.
Between(layout, lo, hi, n, disp, stop) ==
    /\ layout.lb = lo /\ layout.ub = hi
    /\ lo \in Int /\ hi \in Int
    /\ \A b \in 1 .. n : lo <= disp[b] /\ stop[b] <= hi
    /\ \E b \in 1 .. n : lo = disp[b]
    /\ \E b \in 1 .. n : hi = stop[b]

\* The bounds the indexed constructors compute are those of their blocks.
LEMMA BlocksBounds ==
    ASSUME NEW blocks, NEW size, NEW n \in Nat \ {0}, BlocksOf(blocks, size, n),
           NEW disp, NEW stop, Edges(blocks, n, disp, stop)
    PROVE  Between(Assemble(blocks), Min(Listed(disp, n)), Max(Listed(stop, n)), n, disp, stop)
<1>e. \A b \in 1 .. n :
        /\ blocks[b].len > 0 /\ blocks[b].item.lb = 0 /\ Span(blocks[b].item) >= 0
        /\ disp[b] = blocks[b].disp
        /\ stop[b] = blocks[b].disp + blocks[b].len * Span(blocks[b].item)
  BY DEF Edges
<1> DEFINE lo == Min(Listed(disp, n))
           hi == Max(Listed(stop, n))
<1>1. \A b \in 1 .. n : disp[b] \in Int /\ stop[b] \in Int
  <2> SUFFICES ASSUME NEW b \in 1 .. n PROVE disp[b] \in Int /\ stop[b] \in Int
    OBVIOUS
  <2>1. blocks[b].disp \in Int /\ blocks[b].len \in Int
    BY DEF BlocksOf
  <2>3. Span(blocks[b].item) \in Int
    BY BlockFacts
  <2>2. blocks[b].len * Span(blocks[b].item) \in Int
    BY <2>1, <2>3
  <2> QED
    BY <1>e, <2>1, <2>2, <2>3
<1>2. lo \in Int /\ (\E b \in 1 .. n : lo = disp[b]) /\ \A b \in 1 .. n : lo <= disp[b]
  BY <1>1, ListMin
<1>3. hi \in Int /\ (\E b \in 1 .. n : hi = stop[b]) /\ \A b \in 1 .. n : stop[b] <= hi
  BY <1>1, ListMax
<1> HIDE DEF lo, hi
<1>4. /\ \A b \in 1 .. n : lo <= blocks[b].disp
      /\ \E b \in 1 .. n : lo = blocks[b].disp
  BY <1>2, <1>e
<1>5. /\ \A b \in 1 .. n : blocks[b].disp + blocks[b].len * Span(blocks[b].item) <= hi
      /\ \E b \in 1 .. n : blocks[b].disp + blocks[b].len * Span(blocks[b].item) = hi
  BY <1>3, <1>e
<1>6. Assemble(blocks).lb = lo /\ Assemble(blocks).ub = hi
  BY <1>2, <1>3, <1>4, <1>5, <1>e, BlocksHull
<1>7. Between(Assemble(blocks), lo, hi, n, disp, stop)
  BY <1>2, <1>3, <1>6 DEF Between
<1> QED
  BY <1>7 DEF lo, hi

\* IndexedBlockDatatype, as far as it is in scope.
LEMMA IndexedBlockFits ==
    ASSUME NEW t \in Trees, t.kind = "INDEXEDBLOCK", AsBuilt(t), Straight(t), Fits(t.base)
    PROVE  Fits(t) /\ Extent(t) > 0
<1> DEFINE b == t.base
           m == Meaning[b]
           d == t.displs
           n == Len(d)
           e == Extent(b)
           blocks == [i \in DOMAIN d |-> Block(d[i] * Span(m), 1, m)]
           sizes  == Constant(n, b.size)
           stop   == [i \in 1 .. n |-> (d[i] + 1) * e]
<1>1. /\ Layout(m, b.size) /\ Span(m) = e /\ e \in Nat \ {0} /\ b.size = e
      /\ m.lb = b.lb /\ m.ub = b.ub /\ b.lb = 0
  BY FitsSpan DEF Fits, Straight, Dense
<1>2. /\ d \in Seq(Int) /\ t.blocklen = 1 /\ t = IndexedBlock(1, d, b)
      /\ \A i \in DOMAIN d : d[i] >= 0
      /\ \E i \in DOMAIN d : d[i] = 0
  BY NodeFields DEF AsBuilt, Straight
<1>n. n \in Nat \ {0} /\ DOMAIN d = 1 .. n /\ \A i \in 1 .. n : d[i] \in Nat
  BY <1>2
<1>3. Meaning[t] = Assemble(blocks)
  BY <1>2, MeaningUnfold, MeaningOfKinds DEF IndexedMeaning
<1>4. /\ t.size = b.size * n
      /\ t.lb = Min({d[1]} \cup {d[i] * e : i \in 1 .. n})
      /\ t.ub = Max({d[1] + 1 * e} \cup {(d[i] + 1) * e : i \in 1 .. n})
  <2>1. n # 0
    BY <1>n
  <2>2. LET v == IndexedBlock(1, d, b)
        IN  /\ v.size = b.size * n
            /\ v.lb = Min({d[1]} \cup {d[i] * e : i \in 1 .. n})
            /\ v.ub = Max({d[1] + 1 * e} \cup {(d[i] + 1) * e : i \in 1 .. n})
    BY <2>1 DEF IndexedBlock
  <2> QED
    BY <1>2, <2>2
<1>5. /\ DOMAIN blocks = 1 .. n
      /\ \A i \in 1 .. n : blocks[i].disp = d[i] * e /\ blocks[i].len = 1 /\ blocks[i].item = m
  BY <1>1, <1>n DEF Block
<1> HIDE DEF b, m, d, n, e, blocks
<1>6. \A i \in 1 .. n : /\ d[i] * e \in Nat /\ (d[i] + 1) * e \in Nat /\ (d[i] + 1) * e > 0
                        /\ d[i] * e + 1 * e = (d[i] + 1) * e
  <2> SUFFICES ASSUME NEW x \in Nat
               PROVE  /\ x * e \in Nat /\ (x + 1) * e \in Nat /\ (x + 1) * e > 0
                      /\ x * e + 1 * e = (x + 1) * e
    BY <1>n
  <2> QED
    BY <1>1, SMTT(30)
<1>7. BlocksOf(blocks, sizes, n)
  <2>1. \A i \in 1 .. n : /\ blocks[i].disp \in Int /\ blocks[i].len \in Nat
                           /\ blocks[i].item = m /\ sizes[i] = b.size
    BY <1>5, <1>6 DEF Constant
  <2>2. n \in Nat /\ DOMAIN blocks = 1 .. n
    BY <1>n, <1>5
  <2> HIDE DEF sizes
  <2> QED
    BY <1>1, <2>1, <2>2 DEF BlocksOf, Layout
<1>8. Total(BlockSize(blocks, sizes), n) = n * b.size
  <2>1. \A i \in 1 .. n : BlockSize(blocks, sizes)[i] = b.size
    <3>1. 1 * b.size = b.size
      BY <1>1
    <3> QED
      BY <1>5, <3>1 DEF BlockSize, Constant
  <2>2. n \in Nat /\ b.size \in Int
    BY <1>1, <1>n
  <2> HIDE DEF sizes
  <2> QED
    BY <2>1, <2>2, TotalConstant
<1>9. Lays(Meaning[t].map, t.size)
  <2>1. n * b.size = b.size * n
    BY <1>1, <1>n, SMTT(30)
  <2>2. Lays(Assemble(blocks).map, Total(BlockSize(blocks, sizes), n))
    BY <1>7, BlocksLay
  <2> QED
    BY <1>3, <1>4, <1>8, <2>1, <2>2
<1> DEFINE hi == Max(Listed(stop, n))
<1>10. hi \in Int /\ (\E i \in 1 .. n : hi = stop[i]) /\ \A i \in 1 .. n : stop[i] <= hi
  <2>1. \A i \in 1 .. n : stop[i] \in Int
    BY <1>6
  <2> HIDE DEF stop
  <2> QED
    BY <1>n, <2>1, ListMax
<1>s. \A i \in 1 .. n : stop[i] = (d[i] + 1) * e
  OBVIOUS
<1> HIDE DEF hi, stop, sizes
<1>11. Meaning[t].lb = 0 /\ Meaning[t].ub = hi
  <2>1. /\ \A i \in 1 .. n : 0 <= blocks[i].disp
        /\ \E i \in 1 .. n : 0 = blocks[i].disp
    <3>1. PICK i \in 1 .. n : d[i] = 0
      BY <1>2, <1>n
    <3>2. 0 * e = 0
      BY <1>1
    <3> QED
      BY <1>5, <1>6, <3>1, <3>2
  <2>2. /\ \A i \in 1 .. n : blocks[i].disp + blocks[i].len * Span(blocks[i].item) <= hi
        /\ \E i \in 1 .. n : blocks[i].disp + blocks[i].len * Span(blocks[i].item) = hi
    <3>1. \A i \in 1 .. n : blocks[i].disp + blocks[i].len * Span(blocks[i].item) = stop[i]
      BY <1>1, <1>5, <1>6, <1>s
    <3> QED
      BY <1>10, <3>1
  <2>3. \A i \in 1 .. n : blocks[i].len > 0 /\ blocks[i].item.lb = 0 /\ Span(blocks[i].item) >= 0
    BY <1>1, <1>5
  <2> QED
    BY <1>3, <1>7, <1>10, <2>1, <2>2, <2>3, BlocksHull
<1>12. t.lb = 0
  <2> DEFINE S == {d[1]} \cup {d[i] * e : i \in 1 .. n}
  <2>1. 0 \in S
    <3>1. PICK i \in 1 .. n : d[i] = 0
      BY <1>2, <1>n
    <3>2. d[i] * e = 0
      BY <1>1, <3>1
    <3> QED
      BY <3>2
  <2>2. S \subseteq Int /\ \A y \in S : 0 <= y
    BY <1>6, <1>n
  <2> HIDE DEF S
  <2>3. Min(S) = 0
    BY <2>1, <2>2, MinIs
  <2> QED
    BY <1>4, <2>3 DEF S
<1>13. t.ub = hi
  <2> DEFINE S == {d[1] + 1 * e} \cup {(d[i] + 1) * e : i \in 1 .. n}
  <2>1. hi \in S
    BY <1>10, <1>s
  <2>2. d[1] + 1 * e \in Int /\ d[1] + 1 * e <= hi
    <3>1. 1 \in 1 .. n /\ d[1] \in Nat
      BY <1>n
    <3>2. d[1] * 1 <= d[1] * e
      <4>1. 1 * d[1] <= e * d[1]
        BY <1>1, <3>1, ProductMonotone
      <4> QED
        BY <1>1, <3>1, <4>1, SMTT(30)
    <3>3. (d[1] + 1) * e <= hi /\ d[1] * e \in Nat /\ d[1] * e + 1 * e = (d[1] + 1) * e
      BY <1>6, <1>10, <1>s, <3>1
    <3>4. d[1] * 1 = d[1] /\ 1 * e = e
      BY <1>1, <3>1
    <3> QED
      BY <1>1, <1>10, <3>1, <3>2, <3>3, <3>4
  <2>3. S \subseteq Int /\ \A y \in S : y <= hi
    BY <1>6, <1>10, <1>s, <2>2
  <2> HIDE DEF S
  <2>4. Max(S) = hi
    BY <2>1, <2>3, MaxIs
  <2> QED
    BY <1>4, <2>4 DEF S
<1>14. hi > 0
  <2>1. PICK i \in 1 .. n : hi = (d[i] + 1) * e
    BY <1>10, <1>s
  <2> QED
    BY <1>6, <2>1
<1> QED
  BY <1>9, <1>10, <1>11, <1>12, <1>13, <1>14 DEF Fits, Layout, Extent

\* HIndexedDatatype, as far as it is in scope.
LEMMA HIndexedFits ==
    ASSUME NEW t \in Trees, t.kind = "HINDEXED", AsBuilt(t), Straight(t), Fits(t.base)
    PROVE  Fits(t)
<1> DEFINE b == t.base
           m == Meaning[b]
           d == t.displs
           l == t.blocklens
           n == Len(d)
           e == Extent(b)
           blocks == [i \in DOMAIN d |-> Block(d[i], l[i], m)]
           sizes  == Constant(n, b.size)
           disp   == [i \in 1 .. n |-> d[i]]
           stop   == [i \in 1 .. n |-> d[i] + l[i] * e]
           Z      == [i \in 1 .. n |-> b.size * l[i]]
<1>1. /\ Layout(m, b.size) /\ Span(m) = e /\ e \in Nat /\ b.size \in Nat
      /\ m.lb = 0
  BY FitsSpan DEF Fits, Straight
<1>2. /\ d \in Seq(Int) /\ l \in Seq(Nat) /\ Len(l) = Len(d)
      /\ t = HIndexed(l, d, b) /\ Extent(t) > 0
      /\ \A i \in DOMAIN l : l[i] > 0
  BY NodeFields DEF AsBuilt, Straight
<1>n. n \in Nat /\ DOMAIN d = 1 .. n /\ \A i \in 1 .. n : d[i] \in Int /\ l[i] \in Nat \ {0}
  BY <1>2
<1>3. Meaning[t] = Assemble(blocks)
  BY <1>2, MeaningUnfold, MeaningOfKinds DEF HIndexedMeaning
<1>4. /\ t.size = Total(Z, n)
      /\ t.lb = IF 1 .. n = {} THEN 0 ELSE Min({d[i] : i \in 1 .. n})
      /\ t.ub = IF 1 .. n = {} THEN 0 ELSE Max({d[i] + l[i] * e : i \in 1 .. n})
  <2>1. LET v == HIndexed(l, d, b)
        IN  /\ v.size = Total(Z, n)
            /\ v.lb = IF 1 .. n = {} THEN 0 ELSE Min({d[i] : i \in 1 .. n})
            /\ v.ub = IF 1 .. n = {} THEN 0 ELSE Max({d[i] + l[i] * e : i \in 1 .. n})
    BY DEF HIndexed
  <2> QED
    BY <1>2, <2>1
<1>5. n \in Nat \ {0} /\ 1 .. n # {}
  <2>1. n = 0 => 1 .. n = {}
    OBVIOUS
  <2>2. n = 0 => Extent(t) = 0
    BY <1>4, <2>1 DEF Extent
  <2> QED
    BY <1>2, <1>n, <2>2
<1>6. /\ DOMAIN blocks = 1 .. n
      /\ \A i \in 1 .. n : blocks[i].disp = d[i] /\ blocks[i].len = l[i] /\ blocks[i].item = m
  BY <1>n DEF Block
<1> HIDE DEF b, m, d, l, n, e, blocks
<1>7. BlocksOf(blocks, sizes, n)
  BY <1>1, <1>n, <1>6 DEF BlocksOf, Layout, Constant
<1>8. Total(BlockSize(blocks, sizes), n) = t.size
  <2>1. \A i \in 1 .. n : BlockSize(blocks, sizes)[i] = Z[i]
    <3> SUFFICES ASSUME NEW i \in 1 .. n PROVE BlockSize(blocks, sizes)[i] = Z[i]
      OBVIOUS
    <3>1. BlockSize(blocks, sizes)[i] = l[i] * b.size
      BY <1>6 DEF BlockSize, Constant
    <3>2. l[i] * b.size = b.size * l[i]
      BY <1>1, <1>n, SMTT(30)
    <3> QED
      BY <3>1, <3>2
  <2> HIDE DEF sizes, Z
  <2> QED
    BY <1>4, <1>n, <2>1, TotalSame
<1>9. Lays(Meaning[t].map, t.size)
  BY <1>3, <1>7, <1>8, BlocksLay
<1>10. Edges(blocks, n, disp, stop)
  <2> SUFFICES ASSUME NEW i \in 1 .. n
               PROVE  /\ blocks[i].len > 0 /\ blocks[i].item.lb = 0
                      /\ Span(blocks[i].item) >= 0
                      /\ disp[i] = blocks[i].disp
                      /\ stop[i] = blocks[i].disp + blocks[i].len * Span(blocks[i].item)
    BY DEF Edges
  <2>1. blocks[i].disp = d[i] /\ blocks[i].len = l[i] /\ blocks[i].item = m /\ l[i] > 0
    BY <1>n, <1>6
  <2> QED
    BY <1>1, <2>1
<1>11. /\ Listed(disp, n) = {d[i] : i \in 1 .. n}
       /\ Listed(stop, n) = {d[i] + l[i] * e : i \in 1 .. n}
  BY DEF Listed
<1> HIDE DEF disp, stop, sizes
<1> DEFINE lo == Min(Listed(disp, n))
           hi == Max(Listed(stop, n))
<1> HIDE DEF blocks
<1>12. Between(Assemble(blocks), lo, hi, n, disp, stop)
  BY <1>5, <1>7, <1>10, BlocksBounds
<1>13. /\ Meaning[t].lb = t.lb /\ Meaning[t].ub = t.ub /\ t.lb \in Int /\ t.ub \in Int
  BY <1>3, <1>4, <1>5, <1>11, <1>12 DEF Between
<1>14. Extent(t) >= 0
  <2>1. Extent(t) \in Int
    BY <1>13 DEF Extent
  <2> QED
    BY <1>2, <2>1
<1> QED
  BY <1>9, <1>13, <1>14 DEF Fits, Layout

\* StructDatatype, as far as it is in scope.
LEMMA StructFits ==
    ASSUME NEW t \in Trees, t.kind = "STRUCT", AsBuilt(t), Straight(t),
           \A i \in DOMAIN t.bases : Fits(t.bases[i])
    PROVE  Fits(t)
<1> DEFINE bs == t.bases
           d == t.displs
           l == t.blocklens
           n == Len(d)
           blocks == [i \in DOMAIN bs |-> Block(d[i], l[i], Meaning[bs[i]])]
           sizes  == [i \in 1 .. n |-> bs[i].size]
           disp   == [i \in 1 .. n |-> d[i]]
           stop   == [i \in 1 .. n |-> d[i] + l[i] * Extent(bs[i])]
           Z      == [i \in 1 .. n |-> bs[i].size * l[i]]
<1>2. /\ d \in Seq(Int) /\ l \in Seq(Nat) /\ bs \in Seq(Trees)
      /\ Len(l) = Len(d) /\ Len(bs) = Len(d)
      /\ t = Struct(l, d, bs) /\ Extent(t) > 0
      /\ \E i \in DOMAIN d : d[i] <= 0
      /\ \E i \in DOMAIN d : d[i] + l[i] * Extent(bs[i]) >= 0
      /\ \A i \in DOMAIN bs : bs[i].size > 0 /\ bs[i].lb = 0 /\ l[i] > 0
  BY NodeFields DEF AsBuilt, Straight
<1>n. /\ n \in Nat \ {0} /\ DOMAIN d = 1 .. n /\ DOMAIN bs = 1 .. n
      /\ \A i \in 1 .. n : d[i] \in Int /\ l[i] \in Nat \ {0}
  <2>1. n \in Nat /\ DOMAIN d = 1 .. n /\ DOMAIN bs = 1 .. n /\ DOMAIN l = 1 .. n
    BY <1>2
  <2>2. n # 0
    BY <1>2, <2>1
  <2>3. \A i \in 1 .. n : d[i] \in Int /\ l[i] \in Nat
    BY <1>2, <2>1, SMTT(30)
  <2>4. \A i \in 1 .. n : l[i] > 0
    BY <1>2, <2>1
  <2> QED
    BY <2>1, <2>2, <2>3, <2>4
<1>1. \A i \in 1 .. n :
         LET m == Meaning[bs[i]]
         IN  /\ Layout(m, bs[i].size) /\ Span(m) = Extent(bs[i]) /\ Extent(bs[i]) \in Nat
             /\ bs[i].size \in Nat /\ m.lb = 0
  <2> SUFFICES ASSUME NEW i \in 1 .. n
               PROVE  LET m == Meaning[bs[i]]
                      IN  /\ Layout(m, bs[i].size) /\ Span(m) = Extent(bs[i])
                          /\ Extent(bs[i]) \in Nat
                          /\ bs[i].size \in Nat /\ m.lb = 0
    OBVIOUS
  <2>1. i \in DOMAIN bs /\ Fits(bs[i]) /\ bs[i].lb = 0
    BY <1>2, <1>n
  <2>2. Meaning[bs[i]].lb = 0
    BY <2>1 DEF Fits
  <2> QED
    BY <2>1, <2>2, FitsSpan
<1>3. Meaning[t] = Assemble(blocks)
  BY <1>2, MeaningUnfold, MeaningOfKinds DEF StructMeaning
<1>4. /\ t.size = Total(Z, n)
      /\ t.lb = Min({0} \cup Listed(disp, n))
      /\ t.ub = Max({0} \cup Listed(stop, n))
  <2>1. LET v == Struct(l, d, bs)
        IN  /\ v.size = Total(Z, n)
            /\ v.lb = Min({0} \cup {d[i] : i \in 1 .. n})
            /\ v.ub = Max({0} \cup {d[i] + l[i] * Extent(bs[i]) : i \in 1 .. n})
    BY DEF Struct
  <2>2. /\ Listed(disp, n) = {d[i] : i \in 1 .. n}
        /\ Listed(stop, n) = {d[i] + l[i] * Extent(bs[i]) : i \in 1 .. n}
    BY DEF Listed
  <2> HIDE DEF disp, stop, Z
  <2> QED
    BY <1>2, <2>1, <2>2
<1>6. /\ DOMAIN blocks = 1 .. n
      /\ \A i \in 1 .. n : /\ blocks[i].disp = d[i] /\ blocks[i].len = l[i]
                           /\ blocks[i].item = Meaning[bs[i]]
  BY <1>n DEF Block
<1>d. \A i \in 1 .. n : disp[i] = d[i] /\ stop[i] = d[i] + l[i] * Extent(bs[i])
  OBVIOUS
<1> HIDE DEF bs, d, l, n, blocks, disp, stop
<1>7. BlocksOf(blocks, sizes, n)
  <2>1. \A i \in 1 .. n : /\ blocks[i].disp \in Int /\ blocks[i].len \in Nat
                           /\ Layout(blocks[i].item, sizes[i])
    BY <1>1, <1>n, <1>6
  <2> HIDE DEF sizes
  <2> QED
    BY <1>n, <1>6, <2>1 DEF BlocksOf, Layout
<1>8. Total(BlockSize(blocks, sizes), n) = t.size
  <2>1. \A i \in 1 .. n : BlockSize(blocks, sizes)[i] = Z[i]
    <3> SUFFICES ASSUME NEW i \in 1 .. n PROVE BlockSize(blocks, sizes)[i] = Z[i]
      OBVIOUS
    <3>1. BlockSize(blocks, sizes)[i] = l[i] * bs[i].size
      BY <1>6 DEF BlockSize
    <3>2. bs[i].size \in Int /\ l[i] \in Int
      BY <1>1, <1>n
    <3>3. l[i] * bs[i].size = bs[i].size * l[i]
      BY <3>2, SMTT(30)
    <3> QED
      BY <3>1, <3>3
  <2> HIDE DEF sizes, Z
  <2> QED
    BY <1>4, <1>n, <2>1, TotalSame DEF Z
<1>9. Lays(Meaning[t].map, t.size)
  BY <1>3, <1>7, <1>8, BlocksLay
<1>10. Edges(blocks, n, disp, stop)
  <2> SUFFICES ASSUME NEW i \in 1 .. n
               PROVE  /\ blocks[i].len > 0 /\ blocks[i].item.lb = 0
                      /\ Span(blocks[i].item) >= 0
                      /\ disp[i] = blocks[i].disp
                      /\ stop[i] = blocks[i].disp + blocks[i].len * Span(blocks[i].item)
    BY DEF Edges
  <2>1. blocks[i].disp = d[i] /\ blocks[i].len = l[i] /\ blocks[i].item = Meaning[bs[i]] /\ l[i] > 0
    BY <1>n, <1>6
  <2>2. Span(blocks[i].item) = Extent(bs[i]) /\ Extent(bs[i]) \in Nat /\ blocks[i].item.lb = 0
    BY <1>1, <2>1
  <2> QED
    BY <1>d, <2>1, <2>2
<1> HIDE DEF sizes, Z
<1> DEFINE lo == Min(Listed(disp, n))
           hi == Max(Listed(stop, n))
<1>12. Between(Assemble(blocks), lo, hi, n, disp, stop)
  BY <1>n, <1>7, <1>10, BlocksBounds
<1>b. /\ Assemble(blocks).lb = lo /\ Assemble(blocks).ub = hi /\ lo \in Int /\ hi \in Int
      /\ \A i \in 1 .. n : lo <= disp[i] /\ stop[i] <= hi
      /\ \E i \in 1 .. n : lo = disp[i]
      /\ \E i \in 1 .. n : hi = stop[i]
  BY <1>12 DEF Between
<1> HIDE DEF lo, hi
<1>s. \A i \in 1 .. n : disp[i] \in Int /\ stop[i] \in Int
  <2>1. \A i \in 1 .. n : l[i] * Extent(bs[i]) \in Int
    BY <1>1, <1>n
  <2> QED
    BY <1>d, <1>n, <2>1
<1>13. t.lb = lo
  <2> DEFINE S == {0} \cup Listed(disp, n)
  <2>1. lo <= 0
    <3>1. PICK i \in 1 .. n : d[i] <= 0
      BY <1>2, <1>n
    <3>2. d[i] \in Int /\ lo <= d[i]
      BY <1>d, <1>n, <1>b
    <3> QED
      BY <1>b, <3>1, <3>2
  <2>2. lo \in S /\ S \subseteq Int /\ \A y \in S : lo <= y
    BY <1>b, <1>s, <2>1 DEF Listed
  <2> HIDE DEF S
  <2>3. Min(S) = lo
    BY <2>2, MinIs
  <2> QED
    BY <1>4, <2>3 DEF S
<1>14. t.ub = hi
  <2> DEFINE S == {0} \cup Listed(stop, n)
  <2>1. 0 <= hi
    <3>1. PICK i \in 1 .. n : d[i] + l[i] * Extent(bs[i]) >= 0
      BY <1>2, <1>n
    <3>2. stop[i] \in Int /\ stop[i] <= hi /\ stop[i] >= 0
      BY <1>d, <1>s, <1>b, <3>1
    <3> QED
      BY <1>b, <3>2
  <2>2. hi \in S /\ S \subseteq Int /\ \A y \in S : y <= hi
    BY <1>b, <1>s, <2>1 DEF Listed
  <2> HIDE DEF S
  <2>3. Max(S) = hi
    BY <2>2, MaxIs
  <2> QED
    BY <1>4, <2>3 DEF S
<1>15. Extent(t) >= 0
  <2>1. Extent(t) \in Int
    BY <1>b, <1>13, <1>14 DEF Extent
  <2> QED
    BY <1>2, <2>1
<1> QED
  BY <1>3, <1>9, <1>b, <1>13, <1>14, <1>15 DEF Fits, Layout

\* The attributes of every tree the constructors compute bounds for are those
\* of its meaning.
THEOREM RegularFits == \A t \in Regular : Fits(t)
<1> DEFINE S == {t \in Trees : t \in Regular => Fits(t)}
<1>1. ASSUME NEW t \in Trees, \A c \in Trees : Height(c) < Height(t) => c \in S
      PROVE  t \in S
  <2> SUFFICES ASSUME t \in Regular
               PROVE  Fits(t)
    OBVIOUS
  <2>1. AsBuilt(t) /\ Straight(t)
    BY RegularNode, BuiltNode
  <2>2. \A c \in Children(t) : Fits(c)
    BY <1>1, RegularNode, ChildrenBelow
  <2>3. t.kind \notin {"PRIMITIVE", "STRUCT"} => Fits(t.base)
    BY <2>2, ChildFacts
  <2>4. t.kind = "STRUCT" => \A i \in DOMAIN t.bases : Fits(t.bases[i])
    BY <2>2, ChildFacts
  <2>5. t.kind \in {"PRIMITIVE", "CONTIGUOUS", "VECTOR", "HVECTOR",
                    "INDEXEDBLOCK", "HINDEXED", "STRUCT", "RESIZED"}
    BY NodeFields
  <2> QED
    BY <2>1, <2>3, <2>4, <2>5, PrimitiveFits, ContiguousFits, VectorFits, HVectorFits,
       IndexedBlockFits, HIndexedFits, StructFits, ResizedFits
<1>2. Trees \subseteq S
  <2>1. MeaningRec!Ranked
    BY HeightNat DEF MeaningRec!Ranked
  <2> HIDE DEF S
  <2> QED
    BY <1>1, <2>1, MeaningRec!RankInduction
<1>3. Regular \subseteq Trees
  BY RegularNode, BuiltNode
<1> QED
  BY <1>2, <1>3

-----------------------------------------------------------------------------
(* Every constructor builds a node over its basetypes.                     *)

\* An extent is an integer.
LEMMA ExtentInt ==
    ASSUME NEW t, Attributed(t)
    PROVE  Extent(t) \in Int
BY DEF Attributed, Extent

\* The bounds of a list with one number more are numbers.
LEMMA ListBounds ==
    ASSUME NEW n \in Nat, NEW f, \A i \in 1 .. n : f[i] \in Int, NEW x \in Int
    PROVE  Min({x} \cup Listed(f, n)) \in Int /\ Max({x} \cup Listed(f, n)) \in Int
<1> DEFINE g == [i \in 1 .. n + 1 |-> IF i = n + 1 THEN x ELSE f[i]]
<1>1. n + 1 \in Nat \ {0} /\ \A i \in 1 .. n + 1 : g[i] \in Int
  OBVIOUS
<1>2. {x} \cup Listed(f, n) = Listed(g, n + 1)
  <2>1. \A i \in 1 .. n : i \in 1 .. n + 1 /\ g[i] = f[i]
    OBVIOUS
  <2>2. n + 1 \in 1 .. n + 1 /\ g[n + 1] = x
    OBVIOUS
  <2>3. \A i \in 1 .. n + 1 : i = n + 1 \/ i \in 1 .. n
    OBVIOUS
  <2> HIDE DEF g
  <2> QED
    BY <2>1, <2>2, <2>3 DEF Listed
<1> DEFINE m == n + 1
<1> HIDE DEF g, m
<1>3. Min(Listed(g, m)) \in Int /\ Max(Listed(g, m)) \in Int
  <2>1. m \in Nat \ {0} /\ \A i \in 1 .. m : g[i] \in Int
    BY <1>1 DEF m
  <2> QED
    BY <2>1, ListMin, ListMax
<1> QED
  BY <1>2, <1>3 DEF m

\* ContiguousDatatype::ContiguousDatatype().
LEMMA ContiguousNode ==
    ASSUME NEW S, NEW e \in S, Attributed(e), NEW n \in Nat
    PROVE  Contiguous(n, e) \in NodesOver(S) /\ AsBuilt(Contiguous(n, e))
<1> DEFINE c == Contiguous(n, e)
<1>1. c.size \in Int /\ c.lb \in Int /\ c.ub \in Int
  BY ContiguousAttributes DEF Attributed
<1>2. c = [kind |-> "CONTIGUOUS", count |-> n, base |-> e,
           size |-> c.size, lb |-> c.lb, ub |-> c.ub]
  BY DEF Contiguous
<1>3. c.kind = "CONTIGUOUS" /\ c.count = n /\ c.base = e
  BY DEF Contiguous
<1> HIDE DEF c
<1>4. c \in [kind : {"CONTIGUOUS"}, count : Nat, base : S, size : Int, lb : Int, ub : Int]
  BY <1>1, <1>2
<1>5. c \in NodesOver(S)
  BY <1>4 DEF NodesOver
<1>6. AsBuilt(c)
  BY <1>3 DEF AsBuilt, c
<1> QED
  BY <1>5, <1>6 DEF c

\* VectorDatatype::VectorDatatype().
LEMMA VectorNode ==
    ASSUME NEW S, NEW e \in S, Attributed(e), NEW n \in Nat, NEW l \in Nat, NEW s \in Int
    PROVE  Vector(n, l, s, e) \in NodesOver(S) /\ AsBuilt(Vector(n, l, s, e))
<1> DEFINE c == Vector(n, l, s, e)
<1>1. c.size \in Int /\ c.lb \in Int /\ c.ub \in Int
  <2>1. Extent(e) \in Int /\ e.size \in Int /\ e.lb \in Int /\ e.ub \in Int
    BY ExtentInt DEF Attributed
  <2>2. n * l * e.size \in Int /\ l * Extent(e) \in Int
        /\ (s * (n - 1) + l - 1) * Extent(e) \in Int
    BY <2>1, SMTT(30)
  <2> QED
    BY <2>1, <2>2 DEF Vector
<1>2. c = [kind |-> "VECTOR", count |-> n, blocklen |-> l, stride |-> s, base |-> e,
           size |-> c.size, lb |-> c.lb, ub |-> c.ub]
  BY DEF Vector
<1>3. c.kind = "VECTOR" /\ c.count = n /\ c.blocklen = l /\ c.stride = s /\ c.base = e
  BY DEF Vector
<1> HIDE DEF c
<1>4. c \in [kind : {"VECTOR", "HVECTOR"}, count : Nat, blocklen : Nat, stride : Int,
             base : S, size : Int, lb : Int, ub : Int]
  BY <1>1, <1>2
<1>5. c \in NodesOver(S)
  BY <1>4 DEF NodesOver
<1>6. AsBuilt(c)
  BY <1>3 DEF AsBuilt, c
<1> QED
  BY <1>5, <1>6 DEF c

\* HVectorDatatype::HVectorDatatype().
LEMMA HVectorNode ==
    ASSUME NEW S, NEW e \in S, Attributed(e), NEW n \in Nat, NEW l \in Nat, NEW s \in Int
    PROVE  HVector(n, l, s, e) \in NodesOver(S) /\ AsBuilt(HVector(n, l, s, e))
<1> DEFINE c == HVector(n, l, s, e)
<1>1. c.size \in Int /\ c.lb \in Int /\ c.ub \in Int
  <2>1. Extent(e) \in Int /\ e.size \in Int /\ e.lb \in Int /\ e.ub \in Int
    BY ExtentInt DEF Attributed
  <2>2. n * l * e.size \in Int /\ l * Extent(e) \in Int
        /\ (s * (n - 1) + l - 1) * Extent(e) \in Int
        /\ s * (n - 1) + (l - 1) * Extent(e) \in Int
    BY <2>1, SMTT(30)
  <2> QED
    BY <2>1, <2>2 DEF HVector
<1>2. c = [kind |-> "HVECTOR", count |-> n, blocklen |-> l, stride |-> s, base |-> e,
           size |-> c.size, lb |-> c.lb, ub |-> c.ub]
  BY DEF HVector
<1>3. c.kind = "HVECTOR" /\ c.count = n /\ c.blocklen = l /\ c.stride = s /\ c.base = e
  BY DEF HVector
<1> HIDE DEF c
<1>4. c \in [kind : {"VECTOR", "HVECTOR"}, count : Nat, blocklen : Nat, stride : Int,
             base : S, size : Int, lb : Int, ub : Int]
  BY <1>1, <1>2
<1>5. c \in NodesOver(S)
  BY <1>4 DEF NodesOver
<1>6. AsBuilt(c)
  BY <1>3 DEF AsBuilt, c
<1> QED
  BY <1>5, <1>6 DEF c

\* IndexedBlockDatatype::IndexedBlockDatatype().
LEMMA IndexedBlockNode ==
    ASSUME NEW S, NEW e \in S, Attributed(e), NEW l \in Nat, NEW d \in Seq(Int)
    PROVE  IndexedBlock(l, d, e) \in NodesOver(S) /\ AsBuilt(IndexedBlock(l, d, e))
<1> DEFINE c == IndexedBlock(l, d, e)
           n == Len(d)
           x == Extent(e)
           starts == [i \in 1 .. n |-> d[i] * x]
           stops  == [i \in 1 .. n |-> (d[i] + l) * x]
<1>1. x \in Int /\ e.size \in Int /\ n \in Nat /\ \A i \in 1 .. n : d[i] \in Int
  BY ExtentInt DEF Attributed
<1>2. /\ c.size = e.size * n
      /\ c.lb = IF n = 0 THEN 0 ELSE Min({d[1]} \cup {d[i] * x : i \in 1 .. n})
      /\ c.ub = IF n = 0 THEN 0
                ELSE Max({d[1] + l * x} \cup {(d[i] + l) * x : i \in 1 .. n})
  BY DEF IndexedBlock
<1>3. c = [kind |-> "INDEXEDBLOCK", count |-> n, blocklen |-> l, displs |-> d, base |-> e,
           size |-> c.size, lb |-> c.lb, ub |-> c.ub]
  BY DEF IndexedBlock
<1>4. c.kind = "INDEXEDBLOCK" /\ c.blocklen = l /\ c.displs = d /\ c.base = e
  BY DEF IndexedBlock
<1>5. /\ Listed(starts, n) = {d[i] * x : i \in 1 .. n}
      /\ Listed(stops, n) = {(d[i] + l) * x : i \in 1 .. n}
  BY DEF Listed
<1> HIDE DEF c, x, n
<1>6. \A i \in 1 .. n : starts[i] \in Int /\ stops[i] \in Int
  <2> SUFFICES ASSUME NEW y \in Int
               PROVE  y * x \in Int /\ (y + l) * x \in Int
    BY <1>1
  <2> QED
    BY <1>1, SMTT(30)
<1> HIDE DEF starts, stops
<1>7. c.lb \in Int
  <2>1. CASE n = 0
    BY <1>2, <2>1
  <2>2. CASE n # 0
    <3> DEFINE y == d[1]
    <3>1. y \in Int
      BY <1>1, <2>2
    <3>2. c.lb = Min({y} \cup Listed(starts, n))
      BY <1>2, <1>5, <2>2
    <3> HIDE DEF y
    <3>3. Min({y} \cup Listed(starts, n)) \in Int
      BY <1>1, <1>6, <3>1, ListBounds
    <3> QED
      BY <3>2, <3>3
  <2> QED
    BY <2>1, <2>2
<1>8. c.ub \in Int
  <2>1. CASE n = 0
    BY <1>2, <2>1
  <2>2. CASE n # 0
    <3> DEFINE y == d[1] + l * x
    <3>1. y \in Int
      <4>1. d[1] \in Int /\ l * x \in Int
        BY <1>1, <2>2, SMTT(30)
      <4> QED
        BY <4>1
    <3>2. c.ub = Max({y} \cup Listed(stops, n))
      BY <1>2, <1>5, <2>2
    <3> HIDE DEF y
    <3>3. Max({y} \cup Listed(stops, n)) \in Int
      BY <1>1, <1>6, <3>1, ListBounds
    <3> QED
      BY <3>2, <3>3
  <2> QED
    BY <2>1, <2>2
<1>9. c.size \in Int
  BY <1>1, <1>2, SMTT(30)
<1>10. c \in [kind : {"INDEXEDBLOCK"}, count : Nat, blocklen : Nat, displs : Seq(Int),
              base : S, size : Int, lb : Int, ub : Int]
  BY <1>1, <1>3, <1>7, <1>8, <1>9
<1>11. c \in NodesOver(S)
  BY <1>10 DEF NodesOver
<1>12. AsBuilt(c)
  BY <1>4 DEF AsBuilt, c
<1> QED
  BY <1>11, <1>12 DEF c

\* HIndexedDatatype::HIndexedDatatype().
LEMMA HIndexedNode ==
    ASSUME NEW S, NEW e \in S, Attributed(e), NEW l \in Seq(Nat), NEW d \in Seq(Int),
           Len(l) = Len(d)
    PROVE  HIndexed(l, d, e) \in NodesOver(S) /\ AsBuilt(HIndexed(l, d, e))
<1> DEFINE c == HIndexed(l, d, e)
           n == Len(d)
           x == Extent(e)
           Z == [i \in 1 .. n |-> e.size * l[i]]
           stops  == [i \in 1 .. n |-> d[i] + l[i] * x]
<1>1. /\ x \in Int /\ e.size \in Int /\ n \in Nat
      /\ \A i \in 1 .. n : d[i] \in Int /\ l[i] \in Nat
  BY ExtentInt DEF Attributed
<1>2. /\ c.size = Total(Z, n)
      /\ c.lb = IF 1 .. n = {} THEN 0 ELSE Min({d[i] : i \in 1 .. n})
      /\ c.ub = IF 1 .. n = {} THEN 0 ELSE Max({d[i] + l[i] * x : i \in 1 .. n})
  BY DEF HIndexed
<1>3. c = [kind |-> "HINDEXED", count |-> n, blocklens |-> l, displs |-> d, base |-> e,
           size |-> c.size, lb |-> c.lb, ub |-> c.ub]
  BY DEF HIndexed
<1>4. c.kind = "HINDEXED" /\ c.blocklens = l /\ c.displs = d /\ c.base = e
  BY DEF HIndexed
<1>5. /\ Listed(d, n) = {d[i] : i \in 1 .. n}
      /\ Listed(stops, n) = {d[i] + l[i] * x : i \in 1 .. n}
  BY DEF Listed
<1> HIDE DEF c, x, n
<1>6. \A i \in 1 .. n : stops[i] \in Int /\ Z[i] \in Int
  <2> SUFFICES ASSUME NEW y \in Int, NEW z \in Nat
               PROVE  y + z * x \in Int /\ e.size * z \in Int
    BY <1>1
  <2> QED
    BY <1>1, SMTT(30)
<1> HIDE DEF stops, Z
<1>7. c.lb \in Int /\ c.ub \in Int
  <2>1. CASE n = 0
    <3>1. 1 .. n = {}
      BY <2>1
    <3> QED
      BY <1>2, <3>1
  <2>2. CASE n # 0
    <3>1. n \in Nat \ {0} /\ 1 \in 1 .. n
      BY <1>1, <2>2
    <3>2. Min(Listed(d, n)) \in Int
      BY <1>1, <3>1, ListMin
    <3>3. Max(Listed(stops, n)) \in Int
      BY <1>6, <3>1, ListMax
    <3> QED
      BY <1>2, <1>5, <3>1, <3>2, <3>3
  <2> QED
    BY <2>1, <2>2
<1>9. c.size \in Int
  BY <1>1, <1>2, <1>6, TotalInt
<1>10. c \in [kind : {"HINDEXED"}, count : Nat, blocklens : Seq(Nat), displs : Seq(Int),
              base : S, size : Int, lb : Int, ub : Int]
  BY <1>1, <1>3, <1>7, <1>9
<1>11. c \in NodesOver(S)
  BY <1>10 DEF NodesOver
<1>12. AsBuilt(c)
  BY <1>4 DEF AsBuilt, c
<1> QED
  BY <1>11, <1>12 DEF c

\* StructDatatype::StructDatatype().
LEMMA StructNode ==
    ASSUME NEW S, NEW bs \in Seq(S), NEW l \in Seq(Nat), NEW d \in Seq(Int),
           Len(l) = Len(d), Len(bs) = Len(d), \A i \in DOMAIN bs : Attributed(bs[i])
    PROVE  Struct(l, d, bs) \in NodesOver(S) /\ AsBuilt(Struct(l, d, bs))
<1> DEFINE c == Struct(l, d, bs)
           n == Len(d)
           x(i) == Extent(bs[i])
           Z == [i \in 1 .. n |-> bs[i].size * l[i]]
           stops  == [i \in 1 .. n |-> d[i] + l[i] * x(i)]
<1>1. /\ n \in Nat
      /\ \A i \in 1 .. n : d[i] \in Int /\ l[i] \in Nat /\ x(i) \in Int /\ bs[i].size \in Int
  <2>1. n \in Nat /\ \A i \in 1 .. n : d[i] \in Int /\ l[i] \in Nat
    OBVIOUS
  <2>2. \A i \in 1 .. n : Attributed(bs[i])
    OBVIOUS
  <2> QED
    BY <2>1, <2>2, ExtentInt DEF Attributed
<1>2. /\ c.size = Total(Z, n)
      /\ c.lb = Min({0} \cup {d[i] : i \in 1 .. n})
      /\ c.ub = Max({0} \cup {d[i] + l[i] * x(i) : i \in 1 .. n})
  BY DEF Struct
<1>3. c = [kind |-> "STRUCT", count |-> n, blocklens |-> l, displs |-> d, bases |-> bs,
           size |-> c.size, lb |-> c.lb, ub |-> c.ub]
  BY DEF Struct
<1>4. c.kind = "STRUCT" /\ c.blocklens = l /\ c.displs = d /\ c.bases = bs
  BY DEF Struct
<1>5. /\ Listed(d, n) = {d[i] : i \in 1 .. n}
      /\ Listed(stops, n) = {d[i] + l[i] * x(i) : i \in 1 .. n}
  BY DEF Listed
<1>6. \A i \in 1 .. n : stops[i] \in Int /\ Z[i] \in Int
  <2> SUFFICES ASSUME NEW i \in 1 .. n
               PROVE  d[i] + l[i] * x(i) \in Int /\ bs[i].size * l[i] \in Int
    OBVIOUS
  <2>1. l[i] * x(i) \in Int /\ bs[i].size * l[i] \in Int
    <3> SUFFICES ASSUME NEW y \in Int, NEW z \in Nat, NEW w \in Int
                 PROVE  z * y \in Int /\ w * z \in Int
      BY <1>1
    <3> QED
      BY SMTT(30)
  <2>2. d[i] \in Int
    BY <1>1
  <2> HIDE DEF x, n
  <2> QED
    BY <2>1, <2>2
<1> HIDE DEF c, x, n, stops, Z
<1>7. c.lb \in Int /\ c.ub \in Int
  <2> DEFINE z == 0
  <2>1. z \in Int /\ n \in Nat /\ \A i \in 1 .. n : d[i] \in Int
    BY <1>1
  <2> HIDE DEF z
  <2>4. \A i \in 1 .. n : stops[i] \in Int
    BY <1>6
  <2>2. Min({z} \cup Listed(d, n)) \in Int
    BY <2>1, ListBounds
  <2>3. Max({z} \cup Listed(stops, n)) \in Int
    BY <2>1, <2>4, ListBounds
  <2> QED
    BY <1>2, <1>5, <2>2, <2>3 DEF z
<1>9. c.size \in Int
  BY <1>1, <1>2, <1>6, TotalInt
<1>10. c \in [kind : {"STRUCT"}, count : Nat, blocklens : Seq(Nat), displs : Seq(Int),
              bases : Seq(S), size : Int, lb : Int, ub : Int]
  BY <1>1, <1>3, <1>7, <1>9
<1>11. c \in NodesOver(S)
  BY <1>10 DEF NodesOver
<1>12. AsBuilt(c)
  BY <1>4 DEF AsBuilt, c
<1> QED
  BY <1>11, <1>12 DEF c

\* ResizedDatatype::ResizedDatatype().
LEMMA ResizedNode ==
    ASSUME NEW S, NEW e \in S, Attributed(e), NEW lb \in Int, NEW extent \in Int
    PROVE  Resized(e, lb, extent) \in NodesOver(S) /\ AsBuilt(Resized(e, lb, extent))
<1> DEFINE c == Resized(e, lb, extent)
<1>1. c.size \in Int /\ c.lb = lb /\ c.ub \in Int /\ Extent(c) = extent
  BY DEF Resized, Extent, Attributed
<1>2. c = [kind |-> "RESIZED", base |-> e, size |-> c.size, lb |-> c.lb, ub |-> c.ub]
  BY DEF Resized
<1>3. c.kind = "RESIZED" /\ c.base = e
  BY DEF Resized
<1> HIDE DEF c
<1>4. c \in [kind : {"RESIZED"}, base : S, size : Int, lb : Int, ub : Int]
  BY <1>1, <1>2
<1>5. c \in NodesOver(S)
  BY <1>4 DEF NodesOver
<1>6. AsBuilt(c)
  BY <1>1, <1>3 DEF AsBuilt, c
<1> QED
  BY <1>5, <1>6 DEF c

-----------------------------------------------------------------------------
(* compress(), level by level.                                             *)

\* The arm of CompressOf for each kind.
LEMMA CompressOfKinds ==
    ASSUME NEW f, NEW t
    PROVE  /\ t.kind = "PRIMITIVE"  => CompressOf(f, t) = t
           /\ t.kind = "CONTIGUOUS" => CompressOf(f, t) = CompressContiguous(t, f[t.base])
           /\ t.kind = "VECTOR"     => CompressOf(f, t) = CompressVector(t, f[t.base])
           /\ t.kind = "HVECTOR"    => CompressOf(f, t) = CompressHVector(t, f[t.base])
           /\ t.kind = "INDEXEDBLOCK" =>
                 CompressOf(f, t) = IndexedBlock(t.blocklen, t.displs, f[t.base])
           /\ t.kind = "HINDEXED" =>
                 CompressOf(f, t) = HIndexed(t.blocklens, t.displs, f[t.base])
           /\ t.kind = "STRUCT"  => CompressOf(f, t) = Struct(t.blocklens, t.displs, t.bases)
           /\ t.kind = "RESIZED" => CompressOf(f, t) = CompressResized(t, f[t.base])
  BY DEF CompressOf

\* Compress is a recursion on the height of the tree.
CompressRec == INSTANCE RankRecursion WITH Domain <- Trees, Rank <- Height, Def <- CompressOf

\* Compress satisfies its defining equation.
LEMMA CompressUnfold ==
    ASSUME NEW t \in Trees
    PROVE  Compress[t] = CompressOf(Compress, t)
<1>1. CompressRec!Ranked
  BY HeightNat DEF CompressRec!Ranked
<1>2. CompressRec!Grounded
  <2> SUFFICES ASSUME NEW f, NEW g, NEW s \in Trees,
                      \A c \in Trees : Height(c) < Height(s) => f[c] = g[c]
               PROVE  CompressOf(f, s) = CompressOf(g, s)
    BY DEF CompressRec!Grounded
  <2>1. \A c \in Children(s) : f[c] = g[c]
    BY ChildrenBelow
  <2>2. s.kind \notin {"PRIMITIVE", "STRUCT"} => f[s.base] = g[s.base]
    BY <2>1, ChildFacts
  <2>3. s.kind \in {"PRIMITIVE", "CONTIGUOUS", "VECTOR", "HVECTOR",
                    "INDEXEDBLOCK", "HINDEXED", "STRUCT", "RESIZED"}
    BY NodeFields
  <2> QED
    BY <2>2, <2>3, CompressOfKinds
<1>3. \E f : f = [s \in Trees |-> CompressOf(f, s)]
  BY <1>1, <1>2, CompressRec!RecursionExists
<1>4. Compress = [s \in Trees |-> CompressOf(Compress, s)]
  BY <1>3 DEF Compress
<1> QED
  BY <1>4

-----------------------------------------------------------------------------
(* The compressed tree is built by the constructors too.                   *)

\* A constructor over built trees of height h builds one of height h + 1.
LEMMA NodeOver ==
    ASSUME NEW h \in Nat, h + 1 <= MaxDepth,
           NEW t \in NodesOver(Built \cap TreesTo[h]), AsBuilt(t)
    PROVE  t \in Built \cap TreesTo[h + 1]
<1>1. t \in TreesTo[h + 1]
  <2>1. t \in NodesOver(TreesTo[h])
    <3>1. Built \cap TreesTo[h] \subseteq TreesTo[h]
      OBVIOUS
    <3> QED
      BY <3>1, NodesOverMonotone
  <2> QED
    BY <2>1, TreesToStep
<1>2. t \in Trees
  <2>1. h + 1 \in Nat /\ MaxDepth \in Nat
    BY MaxDepthAssumption
  <2>2. TreesTo[h + 1] \subseteq TreesTo[MaxDepth]
    BY <2>1, TreesToMonotone
  <2> QED
    BY <1>1, <2>2 DEF Trees
<1>3. Children(t) \subseteq Built
  <2>1. Children(t) \subseteq Built \cap TreesTo[h]
    BY ChildrenOfNodes
  <2> QED
    BY <2>1
<1> QED
  BY <1>1, <1>2, <1>3, BuiltOver

\* The basetypes of a tree of at most h constructors have no more.
LEMMA ChildrenIn ==
    ASSUME NEW h \in Nat, NEW t \in TreesTo[h], NEW c \in Children(t)
    PROVE  c \in TreesTo[h]
<1>1. CASE h = 0
  <2>1. t \in Prims \cup NodesOver({})
    BY <1>1, TreesToBase
  <2>2. Children(t) \subseteq {}
    BY <2>1, ChildrenOfNodes
  <2> QED
    BY <2>2
<1>2. CASE h # 0
  <2> DEFINE k == h - 1
  <2>1. k \in Nat /\ h = k + 1
    BY <1>2
  <2> HIDE DEF k
  <2>2. t \in Prims \cup NodesOver(TreesTo[k])
    BY <2>1, TreesToStep
  <2>3. Children(t) \subseteq TreesTo[k]
    BY <2>2, ChildrenOfNodes
  <2>4. TreesTo[k] \subseteq TreesTo[h]
    BY <2>1, TreesToGrow
  <2> QED
    BY <2>3, <2>4
<1> QED
  BY <1>1, <1>2

\* A contiguous basetype dissolves into the node above it: its arguments.
LEMMA BuiltContiguous ==
    ASSUME NEW h \in Nat, NEW c \in Built \cap TreesTo[h], c.kind = "CONTIGUOUS"
    PROVE  /\ c.count \in Nat /\ c.base \in Built \cap TreesTo[h] /\ Attributed(c.base)
           /\ c = Contiguous(c.count, c.base)
<1>1. c \in Trees /\ AsBuilt(c) /\ Children(c) \subseteq Built
  BY BuiltNode
<1>2. c.base \in Children(c)
  BY <1>1, ChildFacts
<1>3. c.base \in TreesTo[h]
  BY <1>2, ChildrenIn
<1>4. c.base \in Trees
  BY <1>1, <1>2, BuiltNode
<1> QED
  BY <1>1, <1>2, <1>3, <1>4, NodeFields DEF AsBuilt

\* The attributes of a built tree are integers.
LEMMA BuiltAttributed ==
    ASSUME NEW t \in Built
    PROVE  Attributed(t) /\ t \in Trees
  BY BuiltNode, NodeFields

\* compress() of a contiguous type builds a node.
LEMMA CompressContiguousBuilt ==
    ASSUME NEW h \in Nat, NEW cb \in Built \cap TreesTo[h], NEW t, t.count \in Nat
    PROVE  LET c == CompressContiguous(t, cb)
           IN  c \in NodesOver(Built \cap TreesTo[h]) /\ AsBuilt(c)
<1>1. CASE Dissolves(cb)
  <2>1. cb.count \in Nat /\ cb.base \in Built \cap TreesTo[h] /\ Attributed(cb.base)
    BY <1>1, BuiltContiguous DEF Dissolves
  <2>2. t.count * cb.count \in Nat
    BY <2>1, SMTT(30)
  <2>3. CompressContiguous(t, cb) = Contiguous(t.count * cb.count, cb.base)
    BY <1>1 DEF CompressContiguous
  <2> QED
    BY <2>1, <2>2, <2>3, ContiguousNode
<1>2. CASE ~Dissolves(cb)
  <2>1. CompressContiguous(t, cb) = Contiguous(t.count, cb)
    BY <1>2 DEF CompressContiguous
  <2>2. Attributed(cb)
    BY BuiltAttributed
  <2> QED
    BY <2>1, <2>2, ContiguousNode
<1> QED
  BY <1>1, <1>2

\* compress() of a vector builds a node.
LEMMA CompressVectorBuilt ==
    ASSUME NEW h \in Nat, NEW cb \in Built \cap TreesTo[h],
           NEW t, t.count \in Nat, t.blocklen \in Nat, t.stride \in Int
    PROVE  LET c == CompressVector(t, cb)
           IN  c \in NodesOver(Built \cap TreesTo[h]) /\ AsBuilt(c)
<1> DEFINE n == t.count
<1>1. ASSUME NEW l \in Nat, NEW s \in Int, NEW e \in Built \cap TreesTo[h], Attributed(e),
             NEW c, c = IF s = l THEN Contiguous(n * l, e) ELSE Vector(n, l, s, e)
      PROVE  c \in NodesOver(Built \cap TreesTo[h]) /\ AsBuilt(c)
  <2>1. n * l \in Nat
    BY SMTT(30)
  <2> QED
    BY <1>1, <2>1, ContiguousNode, VectorNode
<1>2. CASE Dissolves(cb)
  <2> DEFINE l == t.blocklen * cb.count
             s == t.stride * cb.count
  <2>1. cb.count \in Nat /\ cb.base \in Built \cap TreesTo[h] /\ Attributed(cb.base)
    BY <1>2, BuiltContiguous DEF Dissolves
  <2>2. l \in Nat /\ s \in Int
    BY <2>1, SMTT(30)
  <2>3. CompressVector(t, cb) = IF s = l THEN Contiguous(n * l, cb.base)
                                         ELSE Vector(n, l, s, cb.base)
    BY <1>2 DEF CompressVector, Vector
  <2> HIDE DEF l, s
  <2> QED
    BY <1>1, <2>1, <2>2, <2>3
<1>3. CASE ~Dissolves(cb)
  <2>1. CompressVector(t, cb) = IF t.stride = t.blocklen
                                THEN Contiguous(n * t.blocklen, cb)
                                ELSE Vector(n, t.blocklen, t.stride, cb)
    BY <1>3 DEF CompressVector, Vector
  <2>2. Attributed(cb)
    BY BuiltAttributed
  <2> QED
    BY <1>1, <2>1, <2>2
<1> QED
  BY <1>2, <1>3

\* compress() of an hvector builds a node.
LEMMA CompressHVectorBuilt ==
    ASSUME NEW h \in Nat, NEW cb \in Built \cap TreesTo[h],
           NEW t, t.count \in Nat, t.blocklen \in Nat, t.stride \in Int
    PROVE  LET c == CompressHVector(t, cb)
           IN  c \in NodesOver(Built \cap TreesTo[h]) /\ AsBuilt(c)
<1> DEFINE n == t.count
           s == t.stride
<1>1. ASSUME NEW l \in Nat, NEW e \in Built \cap TreesTo[h], Attributed(e),
             NEW c, c = IF s = l * Extent(e) THEN Contiguous(n * l, e) ELSE HVector(n, l, s, e)
      PROVE  c \in NodesOver(Built \cap TreesTo[h]) /\ AsBuilt(c)
  <2>1. n * l \in Nat
    BY SMTT(30)
  <2> QED
    BY <1>1, <2>1, ContiguousNode, HVectorNode
<1>2. CASE Dissolves(cb)
  <2> DEFINE l == t.blocklen * cb.count
  <2>1. cb.count \in Nat /\ cb.base \in Built \cap TreesTo[h] /\ Attributed(cb.base)
    BY <1>2, BuiltContiguous DEF Dissolves
  <2>2. l \in Nat
    BY <2>1, SMTT(30)
  <2>3. CompressHVector(t, cb) = IF s = l * Extent(cb.base) THEN Contiguous(n * l, cb.base)
                                         ELSE HVector(n, l, s, cb.base)
    BY <1>2 DEF CompressHVector, HVector
  <2> HIDE DEF l
  <2> QED
    BY <1>1, <2>1, <2>2, <2>3
<1>3. CASE ~Dissolves(cb)
  <2>1. CompressHVector(t, cb) = IF s = t.blocklen * Extent(cb)
                                THEN Contiguous(n * t.blocklen, cb)
                                ELSE HVector(n, t.blocklen, s, cb)
    BY <1>3 DEF CompressHVector, HVector
  <2>2. Attributed(cb)
    BY BuiltAttributed
  <2> QED
    BY <1>1, <2>1, <2>2
<1> QED
  BY <1>2, <1>3

\* compress() builds its tree with the constructors, no higher than the old one.
THEOREM CompressBuilds == \A t \in Built : Compress[t] \in Built \cap TreesTo[Height(t)]
<1> DEFINE S == {t \in Trees : t \in Built => Compress[t] \in Built \cap TreesTo[Height(t)]}
<1>1. ASSUME NEW t \in Trees, \A c \in Trees : Height(c) < Height(t) => c \in S
      PROVE  t \in S
  <2> SUFFICES ASSUME t \in Built
               PROVE  Compress[t] \in Built \cap TreesTo[Height(t)]
    OBVIOUS
  <2>1. AsBuilt(t) /\ Children(t) \subseteq Built
    BY BuiltNode
  <2>2. Height(t) \in Nat /\ Height(t) <= MaxDepth /\ t \in TreesTo[Height(t)]
    BY HeightExists, MaxDepthAssumption DEF Trees, IsHeight
  <2>3. t.kind \in {"PRIMITIVE", "CONTIGUOUS", "VECTOR", "HVECTOR",
                    "INDEXEDBLOCK", "HINDEXED", "STRUCT", "RESIZED"}
    BY NodeFields
  <2>4. CASE t.kind \in {"PRIMITIVE", "STRUCT"}
    <3>1. Compress[t] = t
      BY <2>1, <2>4, CompressUnfold, CompressOfKinds DEF AsBuilt
    <3> QED
      BY <2>2, <3>1
  <2>5. CASE t.kind \notin {"PRIMITIVE", "STRUCT"}
    <3> DEFINE h  == Height(t) - 1
               cb == Compress[t.base]
    <3>1. t.base \in Children(t) /\ t.base \in Trees /\ Height(t.base) < Height(t)
      BY <2>5, ChildFacts, ChildrenBelow
    <3>2. cb \in Built \cap TreesTo[Height(t.base)]
      BY <1>1, <2>1, <3>1
    <3>3. Height(t.base) \in Nat
      BY <3>1, HeightNat
    <3>4. h \in Nat /\ Height(t) = h + 1 /\ h + 1 <= MaxDepth /\ Height(t.base) <= h
      BY <2>2, <3>1, <3>3
    <3> HIDE DEF h
    <3>5. cb \in Built \cap TreesTo[h] /\ Attributed(cb)
      BY <3>2, <3>3, <3>4, TreesToMonotone, BuiltAttributed
    <3> DEFINE c == Compress[t]
               S2 == Built \cap TreesTo[h]
    <3>6. c = CompressOf(Compress, t)
      BY CompressUnfold
    <3> HIDE DEF cb, c, S2
    <3>7. c \in NodesOver(S2) /\ AsBuilt(c)
      <4>0. cb \in S2
        BY <3>5 DEF S2
      <4>1. CASE t.kind = "CONTIGUOUS"
        <5>1. c = CompressContiguous(t, cb)
          BY <3>6, <4>1, CompressOfKinds DEF cb
        <5>2. t.count \in Nat
          BY <4>1, NodeFields
        <5> QED
          BY <3>4, <3>5, <5>1, <5>2, CompressContiguousBuilt DEF S2
      <4>2. CASE t.kind = "VECTOR"
        <5>1. c = CompressVector(t, cb)
          BY <3>6, <4>2, CompressOfKinds DEF cb
        <5>2. t.count \in Nat /\ t.blocklen \in Nat /\ t.stride \in Int
          BY <4>2, NodeFields
        <5> QED
          BY <3>4, <3>5, <5>1, <5>2, CompressVectorBuilt DEF S2
      <4>3. CASE t.kind = "HVECTOR"
        <5>1. c = CompressHVector(t, cb)
          BY <3>6, <4>3, CompressOfKinds DEF cb
        <5>2. t.count \in Nat /\ t.blocklen \in Nat /\ t.stride \in Int
          BY <4>3, NodeFields
        <5> QED
          BY <3>4, <3>5, <5>1, <5>2, CompressHVectorBuilt DEF S2
      <4>4. CASE t.kind = "INDEXEDBLOCK"
        <5>1. c = IndexedBlock(t.blocklen, t.displs, cb)
          BY <3>6, <4>4, CompressOfKinds DEF cb
        <5>2. t.blocklen \in Nat /\ t.displs \in Seq(Int)
          BY <4>4, NodeFields
        <5> QED
          BY <3>5, <4>0, <5>1, <5>2, IndexedBlockNode
      <4>5. CASE t.kind = "HINDEXED"
        <5>1. c = HIndexed(t.blocklens, t.displs, cb)
          BY <3>6, <4>5, CompressOfKinds DEF cb
        <5>2. t.blocklens \in Seq(Nat) /\ t.displs \in Seq(Int) /\ Len(t.blocklens) = Len(t.displs)
          BY <2>1, <4>5, NodeFields DEF AsBuilt
        <5> QED
          BY <3>5, <4>0, <5>1, <5>2, HIndexedNode
      <4>6. CASE t.kind = "RESIZED"
        <5>1. c = Resized(cb, t.lb, Extent(t))
          BY <3>6, <4>6, CompressOfKinds DEF cb, CompressResized
        <5>2. t.lb \in Int /\ Extent(t) \in Int
          BY NodeFields, ExtentInt DEF Attributed
        <5> QED
          BY <3>5, <4>0, <5>1, <5>2, ResizedNode
      <4> QED
        BY <2>3, <2>5, <4>1, <4>2, <4>3, <4>4, <4>5, <4>6
    <3> QED
      BY <3>4, <3>7, NodeOver DEF S2, c
  <2> QED
    BY <2>4, <2>5
<1>2. Trees \subseteq S
  <2>1. CompressRec!Ranked
    BY HeightNat DEF CompressRec!Ranked
  <2> HIDE DEF S
  <2> QED
    BY <1>1, <2>1, CompressRec!RankInduction
<1> QED
  BY <1>2, BuiltAttributed

-----------------------------------------------------------------------------
(* Compression and meaning.                                                *)

\* A meaning is its three fields.
LEMMA RepeatedRecord ==
    ASSUME NEW n, NEW m
    PROVE  Repeated(n, m) = [map |-> Repeated(n, m).map,
                             lb |-> Repeated(n, m).lb, ub |-> Repeated(n, m).ub]
  BY DEF Repeated, Assemble

\* A meaning is its three fields.
LEMMA StridedRecord ==
    ASSUME NEW n, NEW l, NEW step, NEW m
    PROVE  Strided(n, l, step, m)
              = [map |-> Strided(n, l, step, m).map,
                 lb |-> Strided(n, l, step, m).lb, ub |-> Strided(n, l, step, m).ub]
  BY DEF Strided, Assemble

\* r is the meaning of k items of meaning m.
Gathers(r, m, size, k) ==
    /\ Layout(m, size) /\ size \in Nat /\ k \in Nat
    /\ Layout(r, k * size)
    /\ r.map = Repeated(k, m).map /\ Span(r) = k * Span(m)

\* The parts of a layout.
LEMMA LayoutFacts ==
    ASSUME NEW m, NEW size, Layout(m, size)
    PROVE  m.map \in Maps /\ size \in Nat /\ Span(m) \in Int
  BY LaysPairs DEF Layout, Span

\* Items of items.
LEMMA RepeatedAgain ==
    ASSUME NEW m, NEW size, NEW k, NEW r, Gathers(r, m, size, k), NEW n \in Nat,
           NEW c, c = n * k
    PROVE  Repeated(n, r).map = Repeated(c, m).map
<1>1. /\ m.map \in Maps /\ size \in Int /\ Span(m) \in Int /\ k \in Nat
      /\ Layout(m, size) /\ Layout(r, k * size)
  BY LayoutFacts DEF Gathers
<1>2. c \in Nat
  BY <1>1, SMTT(30)
<1>3. r.map = Reps(m.map, k, size, Span(m)) /\ Span(r) = k * Span(m)
  BY <1>1, RepeatedMap DEF Gathers
<1>4. Repeated(n, r).map = Reps(r.map, n, k * size, k * Span(m))
  BY <1>1, <1>3, RepeatedMap
<1>5. Repeated(c, m).map = Reps(m.map, c, size, Span(m))
  BY <1>1, <1>2, RepeatedMap
<1> QED
  BY <1>1, <1>3, <1>4, <1>5, RepsOfReps

\* Blocks of items of items.
LEMMA StridedAgain ==
    ASSUME NEW m, NEW size, NEW k, NEW r, Gathers(r, m, size, k), NEW n \in Nat,
           NEW l \in Nat, NEW step \in Int, NEW c, c = l * k
    PROVE  Strided(n, l, step, r).map = Strided(n, c, step, m).map
<1>1. /\ m.map \in Maps /\ size \in Int /\ size \in Nat /\ Span(m) \in Int /\ k \in Nat
      /\ Layout(m, size) /\ Layout(r, k * size)
  BY LayoutFacts DEF Gathers
<1>2. c \in Nat
  BY <1>1, SMTT(30)
<1>3. r.map = Reps(m.map, k, size, Span(m)) /\ Span(r) = k * Span(m)
  BY <1>1, RepeatedMap DEF Gathers
<1>4. Strided(n, l, step, r).map
        = Reps(Reps(r.map, l, k * size, k * Span(m)), n, l * (k * size), step)
  <2> DEFINE w == k * size
             x == k * Span(m)
  <2>1. Layout(r, w) /\ Span(r) = x
    BY <1>1, <1>3
  <2> HIDE DEF w, x
  <2>2. Strided(n, l, step, r).map = Reps(Reps(r.map, l, w, x), n, l * w, step)
    BY <2>1, StridedMap
  <2> QED
    BY <2>2 DEF w, x
<1>5. Strided(n, c, step, m).map = Reps(Reps(m.map, c, size, Span(m)), n, c * size, step)
  BY <1>1, <1>2, StridedMap, SMTT(30)
<1>6. Reps(r.map, l, k * size, k * Span(m)) = Reps(m.map, c, size, Span(m))
  BY <1>1, <1>3, RepsOfReps
<1>7. l * (k * size) = c * size
  BY <1>1, Regroup
<1> QED
  BY <1>4, <1>5, <1>6, <1>7

\* Blocks that touch.
LEMMA StridedTouching ==
    ASSUME NEW m, NEW size, Layout(m, size), NEW n \in Nat, NEW l \in Nat,
           NEW step, step = l * Span(m), NEW c, c = n * l
    PROVE  Strided(n, l, step, m).map = Repeated(c, m).map
<1>1. m.map \in Maps /\ size \in Int /\ Span(m) \in Int
  BY LayoutFacts
<1>2. c \in Nat /\ step \in Int
  BY <1>1, SMTT(30)
<1>3. Strided(n, l, step, m).map
        = Reps(Reps(m.map, l, size, Span(m)), n, l * size, l * Span(m))
  BY <1>1, <1>2, StridedMap
<1>4. Repeated(c, m).map = Reps(m.map, c, size, Span(m))
  BY <1>2, RepeatedMap
<1> QED
  BY <1>1, <1>3, <1>4, RepsOfReps

\* c is a regular tree that stands for t.
Stands(c, t) ==
    /\ c \in Regular /\ SameAttributes(t, c) /\ Meaning[c] = Meaning[t]

\* What a tree and the one that stands for it share.
LEMMA StandsFacts ==
    ASSUME NEW t \in Regular, NEW c, Stands(c, t)
    PROVE  /\ c \in Regular /\ c \in Built /\ c \in Trees /\ Fits(c) /\ Fits(t)
           /\ Attributed(c) /\ Attributed(t)
           /\ c.size = t.size /\ c.lb = t.lb /\ c.ub = t.ub /\ Extent(c) = Extent(t)
           /\ Meaning[c] = Meaning[t]
           /\ Replaces(c, t)
<1>1. c \in Regular /\ c \in Built /\ c \in Trees /\ Fits(c) /\ Fits(t)
  BY RegularNode, BuiltNode, RegularFits DEF Stands
<1>2. Attributed(c) /\ Attributed(t)
  BY <1>1, FitsSpan
<1>3. c.size = t.size /\ c.lb = t.lb /\ c.ub = t.ub /\ Meaning[c] = Meaning[t]
  BY DEF Stands, SameAttributes
<1>4. Extent(c) = Extent(t)
  BY <1>3 DEF Extent
<1>5. c.kind = "CONTIGUOUS" =>
         \E k, e : k \in Nat /\ Attributed(e) /\ c = Contiguous(k, e)
  BY <1>1, BuiltNode, NodeFields, ChildFacts DEF AsBuilt
<1> QED
  BY <1>1, <1>2, <1>3, <1>4, <1>5 DEF Replaces

\* A regular contiguous tree gathers the items of its basetype.
LEMMA ContiguousGathers ==
    ASSUME NEW c \in Regular, c.kind = "CONTIGUOUS"
    PROVE  /\ Gathers(Meaning[c], Meaning[c.base], c.base.size, c.count)
           /\ c.count \in Nat /\ c.base \in Regular
           /\ c.base.lb = c.lb /\ c.size = c.count * c.base.size
           /\ c.count > 0 \/ c.base.lb = 0
<1> DEFINE e == c.base
           k == c.count
           m == Meaning[e]
           r == Meaning[c]
<1>1. c \in Built /\ c \in Trees /\ e \in Regular
  BY RegularNode, BuiltNode, ChildFacts
<1>2. c = Contiguous(k, e) /\ k \in Nat /\ (k > 0 \/ e.lb = 0)
  BY <1>1, BuiltNode, NodeFields, RegularNode DEF AsBuilt, Straight
<1>3. Fits(c) /\ Fits(e)
  BY <1>1, RegularFits
<1>4. /\ Layout(m, e.size) /\ Span(m) = Extent(e) /\ e.size \in Nat /\ Attributed(e)
      /\ Layout(r, c.size) /\ Span(r) = Extent(c)
  BY <1>3, FitsSpan
<1>5. r = Repeated(k, m)
  BY <1>1, MeaningUnfold, MeaningOfKinds
<1>6. c.size = k * e.size /\ c.lb = e.lb /\ Extent(c) = k * Extent(e)
  <2> HIDE DEF e, k
  <2>1. k \in Int
    BY <1>2
  <2> QED
    BY <1>2, <1>4, <2>1, ContiguousAttributes
<1> QED
  BY <1>1, <1>2, <1>4, <1>5, <1>6 DEF Gathers

\* A node with the attributes and the map of a regular one.
LEMMA StandsBy ==
    ASSUME NEW t \in Regular, t.kind \in {"CONTIGUOUS", "VECTOR", "HVECTOR"},
           NEW c \in Built, c.kind \in {"CONTIGUOUS", "VECTOR", "HVECTOR"},
           Straight(c), c.base \in Regular,
           SameAttributes(t, c), Meaning[c].map = Meaning[t].map
    PROVE  Stands(c, t)
<1>1. c \in Trees /\ t \in Trees
  BY BuiltNode, RegularNode
<1>2. c \in Regular
  BY RegularOver DEF Children
<1>3. Fits(c) /\ Fits(t)
  BY <1>2, RegularFits
<1>4. Meaning[c].lb = Meaning[t].lb /\ Meaning[c].ub = Meaning[t].ub
  BY <1>3 DEF Fits, SameAttributes
<1>5. ASSUME NEW u \in Trees, u.kind \in {"CONTIGUOUS", "VECTOR", "HVECTOR"}
      PROVE  Meaning[u] = [map |-> Meaning[u].map, lb |-> Meaning[u].lb, ub |-> Meaning[u].ub]
  <2>1. CASE u.kind = "CONTIGUOUS"
    <3>1. Meaning[u] = Repeated(u.count, Meaning[u.base])
      BY <2>1, MeaningUnfold, MeaningOfKinds
    <3> QED
      BY <3>1, RepeatedRecord
  <2>2. CASE u.kind = "VECTOR"
    <3> DEFINE m == Meaning[u.base]
               w == u.stride * Span(m)
    <3>1. Meaning[u] = Strided(u.count, u.blocklen, w, m)
      BY <2>2, MeaningUnfold, MeaningOfKinds
    <3> HIDE DEF m, w
    <3> QED
      BY <3>1, StridedRecord
  <2>3. CASE u.kind = "HVECTOR"
    <3>1. Meaning[u] = Strided(u.count, u.blocklen, u.stride, Meaning[u.base])
      BY <2>3, MeaningUnfold, MeaningOfKinds
    <3> QED
      BY <3>1, StridedRecord
  <2> QED
    BY <1>5, <2>1, <2>2, <2>3
<1>6. Meaning[c] = Meaning[t]
  BY <1>1, <1>4, <1>5
<1> QED
  BY <1>2, <1>6 DEF Stands

\* compress() of a contiguous type stands for it.
LEMMA ContiguousStands ==
    ASSUME NEW t \in Regular, t.kind = "CONTIGUOUS",
           NEW cb, Stands(cb, t.base),
           NEW c \in Built, c = CompressContiguous(t, cb)
    PROVE  Stands(c, t)
<1> DEFINE b == t.base
           n == t.count
<1>1. t \in Built /\ t \in Trees /\ b \in Regular /\ n \in Nat /\ t = Contiguous(n, b)
      /\ (n > 0 \/ b.lb = 0)
  BY RegularNode, BuiltNode, ChildFacts, NodeFields DEF AsBuilt, Straight
<1>2. /\ cb \in Regular /\ Replaces(cb, b) /\ Fits(cb) /\ cb.lb = b.lb
      /\ Meaning[cb] = Meaning[b]
  BY <1>1, StandsFacts
<1>3. SameAttributes(t, c)
  <2> HIDE DEF b, n
  <2>1. n \in Int
    BY <1>1
  <2> QED
    BY <1>1, <1>2, <2>1, CompressContiguousKeeps
<1>4. Meaning[t].map = Repeated(n, Meaning[cb]).map
  BY <1>1, <1>2, MeaningUnfold, MeaningOfKinds
<1>5. c \in Trees
  BY BuiltNode
<1>6. CASE ~Dissolves(cb)
  <2>1. c = Contiguous(n, cb)
    BY <1>6 DEF CompressContiguous
  <2>2. c.kind = "CONTIGUOUS" /\ c.count = n /\ c.base = cb
    BY <2>1 DEF Contiguous
  <2>3. Meaning[c].map = Meaning[t].map
    BY <1>4, <1>5, <2>2, MeaningUnfold, MeaningOfKinds
  <2>4. Straight(c)
    BY <1>1, <1>2, <2>2 DEF Straight
  <2> QED
    BY <1>2, <1>3, <2>2, <2>3, <2>4, StandsBy
<1>7. CASE Dissolves(cb)
  <2> DEFINE k == cb.count
             e == cb.base
             q == n * k
  <2>1. /\ Gathers(Meaning[cb], Meaning[e], e.size, k) /\ k \in Nat /\ e \in Regular
        /\ e.lb = cb.lb /\ (k > 0 \/ e.lb = 0)
    BY <1>2, <1>7, ContiguousGathers DEF Dissolves
  <2>2. c = Contiguous(q, e)
    BY <1>7 DEF CompressContiguous
  <2>3. c.kind = "CONTIGUOUS" /\ c.count = q /\ c.base = e
    BY <2>2 DEF Contiguous
  <2>4. Straight(c)
    <3>1. CASE e.lb = 0
      BY <2>3, <3>1 DEF Straight
    <3>2. CASE e.lb # 0
      <4>1. n > 0 /\ k > 0
        BY <1>1, <1>2, <2>1, <3>2
      <4>2. q > 0
        BY <1>1, <2>1, <4>1, ProductPositive
      <4> QED
        BY <2>3, <4>2 DEF Straight
    <3> QED
      BY <3>1, <3>2
  <2>5. Repeated(n, Meaning[cb]).map = Repeated(q, Meaning[e]).map
    BY <1>1, <2>1, RepeatedAgain
  <2>6. Meaning[c].map = Meaning[t].map
    BY <1>4, <1>5, <2>3, <2>5, MeaningUnfold, MeaningOfKinds
  <2> QED
    BY <1>3, <2>1, <2>3, <2>4, <2>6, StandsBy
<1> QED
  BY <1>6, <1>7

\* compress() of a vector stands for it.
LEMMA VectorStands ==
    ASSUME NEW t \in Regular, t.kind = "VECTOR",
           NEW cb, Stands(cb, t.base),
           NEW c \in Built, c = CompressVector(t, cb)
    PROVE  Stands(c, t)
<1> DEFINE b == t.base
           n == t.count
           l == t.blocklen
           s == t.stride
           m == Meaning[cb]
<1>1. /\ t \in Built /\ t \in Trees /\ b \in Regular
      /\ n \in Nat /\ l \in Nat /\ s \in Int /\ t = Vector(n, l, s, b)
      /\ n > 0 /\ l > 0 /\ s > 0 /\ b.size > 0
  BY RegularNode, BuiltNode, ChildFacts, NodeFields DEF AsBuilt, Straight
<1>2. /\ cb \in Regular /\ Replaces(cb, b) /\ Fits(cb) /\ cb.size = b.size
      /\ m = Meaning[b]
  BY <1>1, StandsFacts
<1>3. Meaning[t].map = Strided(n, l, s * Span(m), m).map
  BY <1>1, <1>2, MeaningUnfold, MeaningOfKinds
<1>4. c \in Trees
  BY BuiltNode
<1>5. Layout(m, cb.size) /\ Span(m) \in Int
  BY <1>2, FitsSpan, LayoutFacts
<1>6. cb.kind = "CONTIGUOUS" =>
         /\ Gathers(m, Meaning[cb.base], cb.base.size, cb.count)
         /\ cb.count \in Nat /\ cb.count > 0
         /\ cb.base \in Regular /\ cb.base.size > 0
  <2> SUFFICES ASSUME cb.kind = "CONTIGUOUS"
               PROVE  /\ Gathers(m, Meaning[cb.base], cb.base.size, cb.count)
                      /\ cb.count \in Nat /\ cb.count > 0
                      /\ cb.base \in Regular /\ cb.base.size > 0
    OBVIOUS
  <2> DEFINE k == cb.count
             z == cb.base.size
  <2>1. /\ Gathers(m, Meaning[cb.base], z, k) /\ k \in Nat
        /\ cb.base \in Regular /\ cb.size = k * z
    BY <1>2, ContiguousGathers
  <2>2. z \in Nat /\ k * z > 0
    BY <1>1, <1>2, <2>1 DEF Gathers
  <2> HIDE DEF k, z
  <2>3. k > 0 /\ z > 0
    BY <2>1, <2>2, SMTT(30)
  <2> QED
    BY <2>1, <2>3 DEF k, z
<1>7. SameAttributes(t, c)
  <2> HIDE DEF b, n, l, s
  <2>1. n \in Int /\ l \in Int
    BY <1>1
  <2> QED
    BY <1>1, <1>2, <1>6, <2>1, CompressVectorKeeps

\* The vector before it is promoted to a contiguous type.
<1>8. ASSUME NEW L \in Nat, L > 0, NEW S \in Nat, S > 0, NEW e \in Regular, e.size > 0,
             Meaning[t].map = Strided(n, L, S * Span(Meaning[e]), Meaning[e]).map,
             c = IF S = L THEN Contiguous(n * L, e) ELSE Vector(n, L, S, e)
      PROVE  Stands(c, t)
  <2> DEFINE q == n * L
  <2>1. Layout(Meaning[e], e.size) /\ Span(Meaning[e]) \in Int
    <3>1. Layout(Meaning[e], e.size)
      BY RegularFits, FitsSpan
    <3> QED
      BY <3>1, LayoutFacts
  <2>2. CASE S = L
    <3>1. c.kind = "CONTIGUOUS" /\ c.count = q /\ c.base = e
      BY <1>8, <2>2 DEF Contiguous
    <3>2. q > 0
      BY <1>1, <1>8, ProductPositive
    <3>3. Straight(c)
      BY <3>1, <3>2 DEF Straight
    <3>4. Strided(n, L, S * Span(Meaning[e]), Meaning[e]).map = Repeated(q, Meaning[e]).map
      BY <1>1, <2>1, <2>2, StridedTouching
    <3>5. Meaning[c].map = Meaning[t].map
      BY <1>4, <1>8, <3>1, <3>4, MeaningUnfold, MeaningOfKinds
    <3> QED
      BY <1>7, <3>1, <3>3, <3>5, StandsBy
  <2>3. CASE S # L
    <3>1. c.kind = "VECTOR" /\ c.count = n /\ c.blocklen = L /\ c.stride = S /\ c.base = e
      BY <1>8, <2>3 DEF Vector
    <3>2. Straight(c)
      BY <1>1, <1>8, <3>1 DEF Straight
    <3>3. Meaning[c].map = Meaning[t].map
      BY <1>4, <1>8, <3>1, MeaningUnfold, MeaningOfKinds
    <3> QED
      BY <1>7, <3>1, <3>2, <3>3, StandsBy
  <2> QED
    BY <2>2, <2>3
<1>9. CASE ~Dissolves(cb)
  <2>1. c = IF s = l THEN Contiguous(n * l, cb) ELSE Vector(n, l, s, cb)
    BY <1>9 DEF CompressVector, Vector
  <2> HIDE DEF n, l, s, b
  <2>2. s \in Nat
    BY <1>1
  <2> QED
    BY <1>1, <1>2, <1>3, <1>8, <2>1, <2>2
<1>10. CASE Dissolves(cb)
  <2> DEFINE k == cb.count
             e == cb.base
             me == Meaning[e]
             L == l * k
             S == s * k
  <2>1. /\ Gathers(m, me, e.size, k) /\ k \in Nat /\ k > 0 /\ e \in Regular /\ e.size > 0
    BY <1>6, <1>10 DEF Dissolves
  <2>2. c = IF S = L THEN Contiguous(n * L, e) ELSE Vector(n, L, S, e)
    BY <1>10 DEF CompressVector, Vector
  <2> HIDE DEF n, l, s, b, k, e, me
  <2>3. L \in Nat /\ L > 0 /\ S \in Nat /\ S > 0
    <3>1. L > 0 /\ S > 0
      BY <1>1, <2>1, ProductPositive
    <3>2. L \in Int /\ S \in Int
      BY <1>1, <2>1
    <3> QED
      BY <3>1, <3>2
  <2>4. s * Span(m) = S * Span(me)
    <3>1. Span(me) \in Int /\ Span(m) = k * Span(me)
      BY <2>1, LayoutFacts DEF Gathers
    <3> QED
      BY <1>1, <2>1, <3>1, Regroup
  <2>5. Strided(n, l, s * Span(m), m).map = Strided(n, L, S * Span(me), me).map
    <3> DEFINE step == s * Span(m)
    <3>1. step \in Int
      BY <1>1, <1>5
    <3> DEFINE z == e.size
    <3>2. Gathers(m, me, z, k) /\ n \in Nat /\ l \in Nat /\ L = l * k
      BY <1>1, <2>1
    <3> HIDE DEF step, m, L, z
    <3>3. Strided(n, l, step, m).map = Strided(n, L, step, me).map
      BY <3>1, <3>2, StridedAgain
    <3> QED
      BY <2>4, <3>3 DEF step
  <2> HIDE DEF L, S
  <2> QED
    BY <1>3, <1>8, <2>1, <2>2, <2>3, <2>5 DEF me
<1> QED
  BY <1>9, <1>10

\* compress() of an hvector stands for it.
LEMMA HVectorStands ==
    ASSUME NEW t \in Regular, t.kind = "HVECTOR",
           NEW cb, Stands(cb, t.base),
           NEW c \in Built, c = CompressHVector(t, cb)
    PROVE  Stands(c, t)
<1> DEFINE b == t.base
           n == t.count
           l == t.blocklen
           s == t.stride
           m == Meaning[cb]
<1>1. /\ t \in Built /\ t \in Trees /\ b \in Regular
      /\ n \in Nat /\ l \in Nat /\ s \in Int /\ t = HVector(n, l, s, b)
      /\ n > 0 /\ l > 0 /\ s > 0 /\ b.size > 0
  BY RegularNode, BuiltNode, ChildFacts, NodeFields DEF AsBuilt, Straight
<1>2. /\ cb \in Regular /\ Replaces(cb, b) /\ Fits(cb) /\ cb.size = b.size
      /\ m = Meaning[b]
  BY <1>1, StandsFacts
<1>3. Meaning[t].map = Strided(n, l, s, m).map
  BY <1>1, <1>2, MeaningUnfold, MeaningOfKinds
<1>4. c \in Trees
  BY BuiltNode
<1>6. cb.kind = "CONTIGUOUS" =>
         /\ Gathers(m, Meaning[cb.base], cb.base.size, cb.count)
         /\ cb.count \in Nat /\ cb.count > 0
         /\ cb.base \in Regular /\ cb.base.size > 0
  <2> SUFFICES ASSUME cb.kind = "CONTIGUOUS"
               PROVE  /\ Gathers(m, Meaning[cb.base], cb.base.size, cb.count)
                      /\ cb.count \in Nat /\ cb.count > 0
                      /\ cb.base \in Regular /\ cb.base.size > 0
    OBVIOUS
  <2> DEFINE k == cb.count
             z == cb.base.size
  <2>1. /\ Gathers(m, Meaning[cb.base], z, k) /\ k \in Nat
        /\ cb.base \in Regular /\ cb.size = k * z
    BY <1>2, ContiguousGathers
  <2>2. z \in Nat /\ k * z > 0
    BY <1>1, <1>2, <2>1 DEF Gathers
  <2> HIDE DEF k, z
  <2>3. k > 0 /\ z > 0
    BY <2>1, <2>2, SMTT(30)
  <2> QED
    BY <2>1, <2>3 DEF k, z
<1>7. SameAttributes(t, c)
  <2> HIDE DEF b, n, l, s
  <2>1. n \in Int /\ n # 0 /\ l \in Int
    BY <1>1
  <2> QED
    BY <1>1, <1>2, <2>1, CompressHVectorKeeps

\* The vector before it is promoted to a contiguous type.
<1>8. ASSUME NEW L \in Nat, L > 0, NEW e \in Regular, e.size > 0,
             Meaning[t].map = Strided(n, L, s, Meaning[e]).map,
             c = IF s = L * Extent(e) THEN Contiguous(n * L, e) ELSE HVector(n, L, s, e)
      PROVE  Stands(c, t)
  <2> DEFINE q == n * L
  <2>1. Layout(Meaning[e], e.size) /\ Span(Meaning[e]) = Extent(e)
    BY RegularFits, FitsSpan
  <2>2. CASE s = L * Extent(e)
    <3>1. c.kind = "CONTIGUOUS" /\ c.count = q /\ c.base = e
      BY <1>8, <2>2 DEF Contiguous
    <3>2. q > 0
      BY <1>1, <1>8, ProductPositive
    <3>3. Straight(c)
      BY <3>1, <3>2 DEF Straight
    <3>4. Strided(n, L, s, Meaning[e]).map = Repeated(q, Meaning[e]).map
      BY <1>1, <2>1, <2>2, StridedTouching
    <3>5. Meaning[c].map = Meaning[t].map
      BY <1>4, <1>8, <3>1, <3>4, MeaningUnfold, MeaningOfKinds
    <3> QED
      BY <1>7, <3>1, <3>3, <3>5, StandsBy
  <2>3. CASE s # L * Extent(e)
    <3>1. c.kind = "HVECTOR" /\ c.count = n /\ c.blocklen = L /\ c.stride = s /\ c.base = e
      BY <1>8, <2>3 DEF HVector
    <3>2. Straight(c)
      BY <1>1, <1>8, <3>1 DEF Straight
    <3>3. Meaning[c].map = Meaning[t].map
      BY <1>4, <1>8, <3>1, MeaningUnfold, MeaningOfKinds
    <3> QED
      BY <1>7, <3>1, <3>2, <3>3, StandsBy
  <2> QED
    BY <2>2, <2>3
<1>9. CASE ~Dissolves(cb)
  <2>1. c = IF s = l * Extent(cb) THEN Contiguous(n * l, cb) ELSE HVector(n, l, s, cb)
    BY <1>9 DEF CompressHVector, HVector
  <2> HIDE DEF n, l, s, b
  <2> QED
    BY <1>1, <1>2, <1>3, <1>8, <2>1
<1>10. CASE Dissolves(cb)
  <2> DEFINE k == cb.count
             e == cb.base
             me == Meaning[e]
             L == l * k
  <2>1. /\ Gathers(m, me, e.size, k) /\ k \in Nat /\ k > 0 /\ e \in Regular /\ e.size > 0
    BY <1>6, <1>10 DEF Dissolves
  <2>2. c = IF s = L * Extent(e) THEN Contiguous(n * L, e) ELSE HVector(n, L, s, e)
    BY <1>10 DEF CompressHVector, HVector
  <2> HIDE DEF n, l, s, b, k, e, me
  <2>3. L \in Nat /\ L > 0
    <3>1. L > 0
      BY <1>1, <2>1, ProductPositive
    <3>2. L \in Int
      BY <1>1, <2>1
    <3> QED
      BY <3>1, <3>2
  <2>5. Strided(n, l, s, m).map = Strided(n, L, s, me).map
    <3> DEFINE z == e.size
    <3>1. /\ Gathers(m, me, z, k) /\ n \in Nat /\ l \in Nat /\ s \in Int /\ L = l * k
      BY <1>1, <2>1
    <3> HIDE DEF m, L, z
    <3> QED
      BY <3>1, StridedAgain
  <2> HIDE DEF L
  <2> QED
    BY <1>3, <1>8, <2>1, <2>2, <2>3, <2>5 DEF me
<1> QED
  BY <1>9, <1>10

\* compress() of an indexed block stands for it.
LEMMA IndexedBlockStands ==
    ASSUME NEW t \in Regular, t.kind = "INDEXEDBLOCK",
           NEW cb, Stands(cb, t.base),
           NEW c \in Built, c = IndexedBlock(t.blocklen, t.displs, cb)
    PROVE  Stands(c, t)
<1> DEFINE b == t.base
           l == t.blocklen
           d == t.displs
<1>1. /\ t \in Built /\ t \in Trees /\ b \in Regular /\ t = IndexedBlock(l, d, b)
      /\ Straight(t)
  BY RegularNode, BuiltNode, ChildFacts, NodeFields DEF AsBuilt
<1>2. /\ cb \in Regular /\ cb.size = b.size /\ cb.lb = b.lb /\ Extent(cb) = Extent(b)
      /\ Meaning[cb] = Meaning[b]
  BY <1>1, StandsFacts
<1>3. c.kind = "INDEXEDBLOCK" /\ c.blocklen = l /\ c.displs = d /\ c.base = cb
  BY DEF IndexedBlock
<1>4. SameAttributes(t, c)
  <2> HIDE DEF b, l, d
  <2>1. LET u == IndexedBlock(l, d, b)
            v == IndexedBlock(l, d, cb)
        IN  v.size = u.size /\ v.lb = u.lb /\ v.ub = u.ub
    BY <1>2 DEF IndexedBlock
  <2>2. c = IndexedBlock(l, d, cb)
    BY DEF l, d
  <2> QED
    BY <1>1, <2>1, <2>2 DEF SameAttributes
<1>5. Straight(c)
  BY <1>1, <1>2, <1>3 DEF Straight, Dense
<1>6. c \in Regular
  BY <1>2, <1>3, <1>5, RegularOver DEF Children
<1>7. Meaning[c] = Meaning[t]
  <2>1. c \in Trees
    BY BuiltNode
  <2>2. Meaning[c] = IndexedMeaning(c, Meaning[cb]) /\ Meaning[t] = IndexedMeaning(t, Meaning[b])
    BY <1>1, <1>3, <2>1, MeaningUnfold, MeaningOfKinds
  <2> QED
    BY <1>2, <1>3, <2>2 DEF IndexedMeaning
<1> QED
  BY <1>4, <1>6, <1>7 DEF Stands

\* compress() of an hindexed type stands for it.
LEMMA HIndexedStands ==
    ASSUME NEW t \in Regular, t.kind = "HINDEXED",
           NEW cb, Stands(cb, t.base),
           NEW c \in Built, c = HIndexed(t.blocklens, t.displs, cb)
    PROVE  Stands(c, t)
<1> DEFINE b == t.base
           l == t.blocklens
           d == t.displs
<1>1. /\ t \in Built /\ t \in Trees /\ b \in Regular /\ t = HIndexed(l, d, b)
      /\ Straight(t)
  BY RegularNode, BuiltNode, ChildFacts, NodeFields DEF AsBuilt
<1>2. /\ cb \in Regular /\ cb.size = b.size /\ cb.lb = b.lb /\ Extent(cb) = Extent(b)
      /\ Meaning[cb] = Meaning[b]
  BY <1>1, StandsFacts
<1>3. c.kind = "HINDEXED" /\ c.blocklens = l /\ c.displs = d /\ c.base = cb
  BY DEF HIndexed
<1>4. SameAttributes(t, c)
  <2> HIDE DEF b, l, d
  <2>1. LET u == HIndexed(l, d, b)
            v == HIndexed(l, d, cb)
        IN  v.size = u.size /\ v.lb = u.lb /\ v.ub = u.ub
    BY <1>2 DEF HIndexed
  <2>2. c = HIndexed(l, d, cb)
    BY DEF l, d
  <2> QED
    BY <1>1, <2>1, <2>2 DEF SameAttributes
<1>5. Straight(c)
  BY <1>1, <1>2, <1>3, <1>4 DEF Straight, SameAttributes, Extent
<1>6. c \in Regular
  BY <1>2, <1>3, <1>5, RegularOver DEF Children
<1>7. Meaning[c] = Meaning[t]
  <2>1. c \in Trees
    BY BuiltNode
  <2>2. Meaning[c] = HIndexedMeaning(c, Meaning[cb]) /\ Meaning[t] = HIndexedMeaning(t, Meaning[b])
    BY <1>1, <1>3, <2>1, MeaningUnfold, MeaningOfKinds
  <2> QED
    BY <1>2, <1>3, <2>2 DEF HIndexedMeaning
<1> QED
  BY <1>4, <1>6, <1>7 DEF Stands

\* compress() of a resized type stands for it.
LEMMA ResizedStands ==
    ASSUME NEW t \in Regular, t.kind = "RESIZED",
           NEW cb, Stands(cb, t.base),
           NEW c \in Built, c = CompressResized(t, cb)
    PROVE  Stands(c, t)
<1> DEFINE b == t.base
<1>1. /\ t \in Built /\ t \in Trees /\ b \in Regular /\ t = Resized(b, t.lb, Extent(t))
      /\ Straight(t) /\ t.lb \in Int /\ t.ub \in Int
  BY RegularNode, BuiltNode, ChildFacts, NodeFields DEF AsBuilt, Attributed
<1>2. /\ cb \in Regular /\ cb.size = b.size /\ Meaning[cb] = Meaning[b]
  BY <1>1, StandsFacts
<1>3. c.kind = "RESIZED" /\ c.base = cb
  BY DEF CompressResized, Resized
<1>4. SameAttributes(t, c)
  <2>1. t.size = b.size
    BY <1>1 DEF Resized
  <2>2. c.size = cb.size /\ c.lb = t.lb /\ c.ub = t.ub
    BY <1>1 DEF CompressResized, Resized, Extent
  <2> QED
    BY <1>2, <2>1, <2>2 DEF SameAttributes
<1>5. Straight(c)
  BY <1>1, <1>2, <1>3, <1>4 DEF Straight, SameAttributes, Extent
<1>6. c \in Regular
  BY <1>2, <1>3, <1>5, RegularOver DEF Children
<1>7. Meaning[c] = Meaning[t]
  <2>1. c \in Trees
    BY BuiltNode
  <2>2. /\ Meaning[c] = [map |-> Meaning[cb].map, lb |-> c.lb, ub |-> c.ub]
        /\ Meaning[t] = [map |-> Meaning[b].map, lb |-> t.lb, ub |-> t.ub]
    BY <1>1, <1>3, <2>1, MeaningUnfold, MeaningOfKinds
  <2> QED
    BY <1>2, <1>4, <2>2 DEF SameAttributes
<1> QED
  BY <1>4, <1>6, <1>7 DEF Stands

\* compress() turns every regular tree into one of the same meaning.
THEOREM CompressStands == \A t \in Regular : Stands(Compress[t], t)
<1> DEFINE S == {t \in Trees : t \in Regular => Stands(Compress[t], t)}
<1>1. ASSUME NEW t \in Trees, \A c \in Trees : Height(c) < Height(t) => c \in S
      PROVE  t \in S
  <2> SUFFICES ASSUME t \in Regular
               PROVE  Stands(Compress[t], t)
    OBVIOUS
  <2>1. t \in Built /\ AsBuilt(t) /\ Compress[t] \in Built
    BY RegularNode, BuiltNode, CompressBuilds
  <2>2. \A c \in Children(t) : Stands(Compress[c], c)
    BY <1>1, RegularNode, ChildrenBelow
  <2>3. t.kind \notin {"PRIMITIVE", "STRUCT"} => Stands(Compress[t.base], t.base)
    BY <2>2, ChildFacts
  <2>4. t.kind \in {"PRIMITIVE", "CONTIGUOUS", "VECTOR", "HVECTOR",
                    "INDEXEDBLOCK", "HINDEXED", "STRUCT", "RESIZED"}
    BY NodeFields
  <2>5. Compress[t] = CompressOf(Compress, t)
    BY CompressUnfold
  <2>6. CASE t.kind \in {"PRIMITIVE", "STRUCT"}
    <3>1. Compress[t] = t
      BY <2>1, <2>5, <2>6, CompressOfKinds DEF AsBuilt
    <3> QED
      BY <3>1 DEF Stands, SameAttributes
  <2>7. CASE t.kind \notin {"PRIMITIVE", "STRUCT"}
    BY <2>1, <2>3, <2>4, <2>5, <2>7, CompressOfKinds, ContiguousStands, VectorStands,
       HVectorStands, IndexedBlockStands, HIndexedStands, ResizedStands
  <2> QED
    BY <2>6, <2>7
<1>2. Trees \subseteq S
  <2>1. CompressRec!Ranked
    BY HeightNat DEF CompressRec!Ranked
  <2> HIDE DEF S
  <2> QED
    BY <1>1, <2>1, CompressRec!RankInduction
<1>3. Regular \subseteq Trees
  BY RegularNode, BuiltNode
<1> QED
  BY <1>2, <1>3

-----------------------------------------------------------------------------
(* The assertions.                                                         *)

\* What AssertsOf asks of each kind.
LEMMA AssertsOfKinds ==
    ASSUME NEW f, NEW t
    PROVE  AssertsOf(f, t) <=>
              /\ t.kind \in {"CONTIGUOUS", "VECTOR", "HVECTOR"} =>
                    KeepsSizeAndExtent(t, Compress[t])
              /\ t.kind = "STRUCT" => \A i \in DOMAIN t.bases : f[t.bases[i]]
              /\ t.kind \notin {"PRIMITIVE", "STRUCT"} => f[t.base]
  BY DEF AssertsOf

\* AssertsOf is a truth value.
LEMMA AssertsBoolean ==
    ASSUME NEW f, NEW t
    PROVE  AssertsOf(f, t) \in BOOLEAN
  BY DEF AssertsOf

\* CompressAsserts is a recursion on the height of the tree.
AssertsRec == INSTANCE RankRecursion WITH Domain <- Trees, Rank <- Height, Def <- AssertsOf

\* CompressAsserts satisfies its defining equation.
LEMMA AssertsUnfold ==
    ASSUME NEW t \in Trees
    PROVE  CompressAsserts[t] = AssertsOf(CompressAsserts, t)
<1>1. AssertsRec!Ranked
  BY HeightNat DEF AssertsRec!Ranked
<1>2. AssertsRec!Grounded
  <2> SUFFICES ASSUME NEW f, NEW g, NEW s \in Trees,
                      \A c \in Trees : Height(c) < Height(s) => f[c] = g[c]
               PROVE  AssertsOf(f, s) = AssertsOf(g, s)
    BY DEF AssertsRec!Grounded
  <2>1. \A c \in Children(s) : f[c] = g[c]
    BY ChildrenBelow
  <2>2. s.kind \notin {"PRIMITIVE", "STRUCT"} => f[s.base] = g[s.base]
    BY <2>1, ChildFacts
  <2>3. s.kind = "STRUCT" => \A i \in DOMAIN s.bases : f[s.bases[i]] = g[s.bases[i]]
    BY <2>1, ChildFacts
  <2>4. AssertsOf(f, s) <=> AssertsOf(g, s)
    BY <2>2, <2>3, AssertsOfKinds
  <2>5. AssertsOf(f, s) \in BOOLEAN /\ AssertsOf(g, s) \in BOOLEAN
    BY AssertsBoolean
  <2> QED
    BY <2>4, <2>5
<1>3. \E f : f = [s \in Trees |-> AssertsOf(f, s)]
  BY <1>1, <1>2, AssertsRec!RecursionExists
<1>4. CompressAsserts = [s \in Trees |-> AssertsOf(CompressAsserts, s)]
  BY <1>3 DEF CompressAsserts
<1> QED
  BY <1>4

\* No assertion of compress() fails on a regular tree.
THEOREM CompressAssertsHold == \A t \in Regular : CompressAsserts[t]
<1> DEFINE S == {t \in Trees : t \in Regular => CompressAsserts[t]}
<1>1. ASSUME NEW t \in Trees, \A c \in Trees : Height(c) < Height(t) => c \in S
      PROVE  t \in S
  <2> SUFFICES ASSUME t \in Regular
               PROVE  CompressAsserts[t]
    OBVIOUS
  <2>2. \A c \in Children(t) : CompressAsserts[c]
    BY <1>1, RegularNode, ChildrenBelow
  <2>3. t.kind \notin {"PRIMITIVE", "STRUCT"} => CompressAsserts[t.base]
    BY <2>2, ChildFacts
  <2>4. t.kind = "STRUCT" => \A i \in DOMAIN t.bases : CompressAsserts[t.bases[i]]
    BY <2>2, ChildFacts
  <2>5. KeepsSizeAndExtent(t, Compress[t])
    BY CompressStands DEF Stands, SameAttributes, KeepsSizeAndExtent, Extent
  <2>6. AssertsOf(CompressAsserts, t)
    BY <2>3, <2>4, <2>5, AssertsOfKinds
  <2> QED
    BY <2>6, AssertsUnfold
<1>2. Trees \subseteq S
  <2>1. AssertsRec!Ranked
    BY HeightNat DEF AssertsRec!Ranked
  <2> HIDE DEF S
  <2> QED
    BY <1>1, <2>1, AssertsRec!RankInduction
<1>3. Regular \subseteq Trees
  BY RegularNode, BuiltNode
<1> QED
  BY <1>2, <1>3

-----------------------------------------------------------------------------
(* Generated code and the bytes it moves.                                  *)

\* The copies of the generated code.
Copies == [from : Int, to : Int, len : Int]

\* The pair of position and offset of a byte: packing writes the position.
PairOf(pack, c, i) ==
    IF pack THEN <<c.to + i, c.from + i>> ELSE <<c.from + i, c.to + i>>

\* The bytes a set of copies moves.
MovedBy(pack, copies) ==
    UNION {{PairOf(pack, c, i) : i \in 0 .. c.len - 1} : c \in copies}

\* The code ends, and moves the bytes of the map.
Moves(pack, copies, map) ==
    copies \subseteq Copies /\ Ends(copies) /\ MovedBy(pack, copies) = map

\* The code that moves items of a position and an offset further.
Move(pack, copies, pos, at) == IF pack THEN At(at, pos, copies) ELSE At(pos, at, copies)

\* A pair is moved by one byte of one copy.
LEMMA MovedPair ==
    ASSUME NEW pack \in BOOLEAN, NEW copies, NEW p
    PROVE  p \in MovedBy(pack, copies) <=>
             \E c \in copies : \E i \in 0 .. c.len - 1 :
                p = PairOf(pack, c, i)
  BY DEF MovedBy

\* What copies move is a type map.
LEMMA MovedPairs ==
    ASSUME NEW pack \in BOOLEAN, NEW copies, copies \subseteq Copies
    PROVE  MovedBy(pack, copies) \in Maps
  BY DEF MovedBy, PairOf, Copies, Maps

\* What is moved is a type map.
LEMMA MovesMap ==
    ASSUME NEW pack \in BOOLEAN, NEW copies, NEW map, Moves(pack, copies, map)
    PROVE  map \in Maps
  BY MovedPairs DEF Moves

\* Shifted copies are copies.
LEMMA MoveCopies ==
    ASSUME NEW pack \in BOOLEAN, NEW copies, copies \subseteq Copies,
           NEW pos \in Int, NEW at \in Int
    PROVE  Move(pack, copies, pos, at) \subseteq Copies
  BY DEF Move, At, Copies

\* Shifted copies move the shifted bytes.
LEMMA MoveMoves ==
    ASSUME NEW pack \in BOOLEAN, NEW copies, NEW map, Moves(pack, copies, map),
           NEW pos \in Int, NEW at \in Int
    PROVE  Moves(pack, Move(pack, copies, pos, at), Placed(map, pos, at))
<1> DEFINE M == Move(pack, copies, pos, at)
<1>1. copies \subseteq Copies /\ Ends(copies) /\ map = MovedBy(pack, copies)
  BY DEF Moves
<1>2. M \subseteq Copies
  BY <1>1, MoveCopies
<1> DEFINE Shifted(c) == IF pack THEN [from |-> c.from + at, to |-> c.to + pos, len |-> c.len]
                                 ELSE [from |-> c.from + pos, to |-> c.to + at, len |-> c.len]
<1>3. M = {Shifted(c) : c \in copies}
  BY DEF Move, At
<1>4. Ends(M)
  BY <1>1, <1>3 DEF Ends
<1>5. ASSUME NEW c \in copies, NEW i \in 0 .. c.len - 1
      PROVE  /\ PairOf(pack, Shifted(c), i)
                   = <<pos + PairOf(pack, c, i)[1], at + PairOf(pack, c, i)[2]>>
             /\ Shifted(c).len = c.len
  <2>1. c.from \in Int /\ c.to \in Int /\ c.len \in Int /\ i \in Int
    BY <1>1 DEF Copies
  <2>2. CASE pack = TRUE
    BY <2>1, <2>2 DEF PairOf
  <2>3. CASE pack = FALSE
    BY <2>1, <2>3 DEF PairOf
  <2> QED
    BY <2>2, <2>3
<1> HIDE DEF Shifted, M
<1>6. ASSUME NEW q \in MovedBy(pack, M)
      PROVE  q \in Placed(map, pos, at)
  <2>0. PICK s \in M : \E i \in 0 .. s.len - 1 : q = PairOf(pack, s, i)
    BY MovedPair
  <2>1. PICK i \in 0 .. s.len - 1 : q = PairOf(pack, s, i)
    BY <2>0
  <2>2. PICK c \in copies : s = Shifted(c)
    BY <1>3
  <2>3. i \in 0 .. c.len - 1
    BY <1>1, <2>1, <2>2 DEF Shifted, Copies
  <2> DEFINE p == PairOf(pack, c, i)
  <2>4. q = <<pos + p[1], at + p[2]>>
    BY <1>5, <2>1, <2>2, <2>3
  <2>5. p \in MovedBy(pack, copies)
    BY <2>3, MovedPair
  <2> QED
    BY <1>1, <2>4, <2>5 DEF Placed
<1>7. ASSUME NEW q \in Placed(map, pos, at)
      PROVE  q \in MovedBy(pack, M)
  <2>1. PICK p \in map : q = <<pos + p[1], at + p[2]>>
    BY DEF Placed
  <2>0. PICK c \in copies : \E i \in 0 .. c.len - 1 : p = PairOf(pack, c, i)
    BY <1>1, <2>1, MovedPair
  <2>2. PICK i \in 0 .. c.len - 1 : p = PairOf(pack, c, i)
    BY <2>0
  <2> DEFINE s == Shifted(c)
  <2>3. s \in M
    BY <1>3
  <2>4. /\ q = PairOf(pack, s, i)
        /\ i \in 0 .. s.len - 1
    BY <1>5, <2>1, <2>2
  <2> HIDE DEF s
  <2> QED
    BY <2>3, <2>4, MovedPair
<1>8. MovedBy(pack, M) = Placed(map, pos, at)
  BY <1>6, <1>7
<1> QED
  BY <1>2, <1>4, <1>8 DEF Moves, M

\* All the values of a function on a set, together.
AllOf(F, I) == UNION {F[i] : i \in I}

\* Copies taken together move the bytes of each.
LEMMA MovesUnion ==
    ASSUME NEW pack \in BOOLEAN, NEW I, NEW F, NEW G,
           \A i \in I : Moves(pack, F[i], G[i])
    PROVE  Moves(pack, AllOf(F, I), AllOf(G, I))
<1> DEFINE C == UNION {F[i] : i \in I}
           D == UNION {G[i] : i \in I}
<1>1. C \subseteq Copies
  BY DEF Moves
<1>2. Ends(C)
  BY DEF Moves, Ends
<1>3. \A i \in I : G[i] = MovedBy(pack, F[i])
  BY DEF Moves
<1>4. MovedBy(pack, C) = D
  <2>1. ASSUME NEW q
        PROVE  q \in MovedBy(pack, C) <=> q \in D
    <3>1. q \in MovedBy(pack, C) <=> \E i \in I : q \in MovedBy(pack, F[i])
      BY MovedPair
    <3> QED
      BY <1>3, <3>1
  <2> QED
    BY <2>1 DEF MovedBy
<1> QED
  BY <1>1, <1>2, <1>4 DEF Moves, AllOf

\* No copy moves nothing.
LEMMA MovesNothing ==
    ASSUME NEW pack \in BOOLEAN
    PROVE  Moves(pack, {}, {})
  BY DEF Moves, Ends, MovedBy

-----------------------------------------------------------------------------
(* Loops.                                                                  *)

\* n rounds of the same code.
LEMMA LoopMoves ==
    ASSUME NEW pack \in BOOLEAN, NEW copies, NEW map, Moves(pack, copies, map),
           NEW n \in Nat, NEW step \in Int, NEW span \in Int
    PROVE  Moves(pack, UNION {Move(pack, copies, r * step, r * span) : r \in 0 .. n - 1},
                 Reps(map, n, step, span))
<1> DEFINE F == [r \in 0 .. n - 1 |-> Move(pack, copies, r * step, r * span)]
           G == [r \in 0 .. n - 1 |-> Placed(map, r * step, r * span)]
<1>1. \A r \in 0 .. n - 1 : Moves(pack, F[r], G[r])
  <2> SUFFICES ASSUME NEW r \in 0 .. n - 1
               PROVE  Moves(pack, Move(pack, copies, r * step, r * span),
                            Placed(map, r * step, r * span))
    OBVIOUS
  <2> DEFINE p == r * step
             a == r * span
  <2>1. p \in Int /\ a \in Int
    OBVIOUS
  <2> HIDE DEF p, a
  <2>2. Moves(pack, Move(pack, copies, p, a), Placed(map, p, a))
    BY <2>1, MoveMoves
  <2> QED
    BY <2>2 DEF p, a
<1>2. /\ AllOf(F, 0 .. n - 1)
           = UNION {Move(pack, copies, r * step, r * span) : r \in 0 .. n - 1}
      /\ AllOf(G, 0 .. n - 1) = Reps(map, n, step, span)
  BY DEF Reps, AllOf
<1> HIDE DEF F, G
<1>3. Moves(pack, AllOf(F, 0 .. n - 1), AllOf(G, 0 .. n - 1))
  BY <1>1, MovesUnion
<1> QED
  BY <1>2, <1>3

\* A chain moved further.
ChainAt(map, size, disp, n, pos, at) ==
    UNION {Placed(map[b], pos + Total(size, b - 1), at + disp[b]) : b \in 1 .. n}

\* A shifted chain of blocks.
LEMMA PlacedChain ==
    ASSUME NEW n \in Nat, NEW map, NEW size, NEW disp,
           \A b \in 1 .. n : map[b] \in Maps /\ size[b] \in Int /\ disp[b] \in Int,
           NEW p \in Int, NEW a \in Int
    PROVE  Placed(Chain(map, size, disp, n), p, a) = ChainAt(map, size, disp, n, p, a)
<1> DEFINE T(b) == Total(size, b - 1)
<1>1. \A b \in 1 .. n : T(b) \in Int
  <2> SUFFICES ASSUME NEW b \in 1 .. n PROVE T(b) \in Int
    OBVIOUS
  <2> DEFINE m == b - 1
  <2>1. m \in Nat /\ \A i \in 1 .. m : size[i] \in Int
    OBVIOUS
  <2> HIDE DEF m
  <2>2. Total(size, m) \in Int
    BY <2>1, TotalInt
  <2> QED
    BY <2>2 DEF m
<1>2. Chain(map, size, disp, n) = UNION {Placed(map[b], T(b), disp[b]) : b \in 1 .. n}
  BY DEF Chain
<1> HIDE DEF T
<1>3. \A b \in 1 .. n : Placed(Placed(map[b], T(b), disp[b]), p, a)
                          = Placed(map[b], p + T(b), a + disp[b])
  <2> SUFFICES ASSUME NEW b \in 1 .. n
               PROVE  Placed(Placed(map[b], T(b), disp[b]), p, a)
                          = Placed(map[b], p + T(b), a + disp[b])
    OBVIOUS
  <2> DEFINE M == map[b]
             t == T(b)
             d == disp[b]
  <2>1. M \in Maps /\ t \in Int /\ d \in Int
    BY <1>1
  <2> HIDE DEF M, t, d
  <2>2. Placed(Placed(M, t, d), p, a) = Placed(M, p + t, a + d)
    BY <2>1, PlacedTwice
  <2> QED
    BY <2>2 DEF M, t, d
<1>4. Placed(UNION {Placed(map[b], T(b), disp[b]) : b \in 1 .. n}, p, a)
        = UNION {Placed(Placed(map[b], T(b), disp[b]), p, a) : b \in 1 .. n}
  <2> DEFINE P == [b \in 1 .. n |-> Placed(map[b], T(b), disp[b])]
  <2>1. /\ UNION {Placed(map[b], T(b), disp[b]) : b \in 1 .. n} = UNION {P[b] : b \in 1 .. n}
        /\ UNION {Placed(Placed(map[b], T(b), disp[b]), p, a) : b \in 1 .. n}
             = UNION {Placed(P[b], p, a) : b \in 1 .. n}
    OBVIOUS
  <2> HIDE DEF P
  <2>2. Placed(UNION {P[b] : b \in 1 .. n}, p, a) = UNION {Placed(P[b], p, a) : b \in 1 .. n}
    BY DEF Placed
  <2> QED
    BY <2>1, <2>2
<1>5. UNION {Placed(Placed(map[b], T(b), disp[b]), p, a) : b \in 1 .. n}
        = UNION {Placed(map[b], p + T(b), a + disp[b]) : b \in 1 .. n}
  BY <1>3
<1> QED
  BY <1>2, <1>4, <1>5 DEF T, ChainAt

\* One round over blocks of code: each behind the other in the packed buffer.
BlockRound(pack, copies, size, disp, n, pos, at) ==
    UNION {Move(pack, copies[k], pos + Total(size, k - 1), at + disp[k]) : k \in 1 .. n}

\* One round over the blocks moves the chain of their bytes.
LEMMA BlockRoundMoves ==
    ASSUME NEW pack \in BOOLEAN, NEW n \in Nat, NEW copies, NEW map, NEW size, NEW disp,
           \A k \in 1 .. n : /\ Moves(pack, copies[k], map[k])
                             /\ size[k] \in Int /\ disp[k] \in Int,
           NEW pos \in Int, NEW at \in Int
    PROVE  Moves(pack, BlockRound(pack, copies, size, disp, n, pos, at),
                 Placed(Chain(map, size, disp, n), pos, at))
<1> DEFINE F == [k \in 1 .. n |-> Move(pack, copies[k], pos + Total(size, k - 1), at + disp[k])]
           G == [k \in 1 .. n |-> Placed(map[k], pos + Total(size, k - 1), at + disp[k])]
<1>1. \A k \in 1 .. n : Moves(pack, F[k], G[k])
  <2> SUFFICES ASSUME NEW k \in 1 .. n
               PROVE  Moves(pack, F[k], G[k])
    OBVIOUS
  <2> DEFINE j == k - 1
             p == pos + Total(size, j)
             a == at + disp[k]
             C == copies[k]
             M == map[k]
  <2>1. j \in Nat /\ \A i \in 1 .. j : size[i] \in Int
    OBVIOUS
  <2>2. p \in Int /\ a \in Int
    <3> HIDE DEF j
    <3>1. Total(size, j) \in Int
      BY <2>1, TotalInt
    <3> QED
      BY <3>1
  <2>3. Moves(pack, C, M)
    OBVIOUS
  <2>4. F[k] = Move(pack, C, p, a) /\ G[k] = Placed(M, p, a)
    OBVIOUS
  <2> HIDE DEF j, p, a, C, M, F, G
  <2>5. Moves(pack, Move(pack, C, p, a), Placed(M, p, a))
    BY <2>2, <2>3, MoveMoves
  <2> QED
    BY <2>4, <2>5
<1>2. AllOf(F, 1 .. n) = BlockRound(pack, copies, size, disp, n, pos, at)
  BY DEF AllOf, BlockRound
<1>3. AllOf(G, 1 .. n) = Placed(Chain(map, size, disp, n), pos, at)
  <2>1. AllOf(G, 1 .. n) = ChainAt(map, size, disp, n, pos, at)
    BY DEF AllOf, ChainAt
  <2>2. \A b \in 1 .. n : map[b] \in Maps /\ size[b] \in Int /\ disp[b] \in Int
    BY MovesMap
  <2> HIDE DEF G
  <2> QED
    BY <2>1, <2>2, PlacedChain
<1> HIDE DEF F, G
<1>4. Moves(pack, AllOf(F, 1 .. n), AllOf(G, 1 .. n))
  BY <1>1, MovesUnion
<1> QED
  BY <1>2, <1>3, <1>4

\* The rounds of n items.
LEMMA BlocksMove ==
    ASSUME NEW pack \in BOOLEAN, NEW n \in Nat, NEW copies, NEW map, NEW size, NEW disp,
           \A k \in 1 .. n : /\ Moves(pack, copies[k], map[k])
                             /\ size[k] \in Int /\ disp[k] \in Int,
           NEW turns \in Nat, NEW step \in Int, NEW span \in Int
    PROVE  Moves(pack,
                 UNION {BlockRound(pack, copies, size, disp, n, r * step, r * span)
                        : r \in 0 .. turns - 1},
                 Reps(Chain(map, size, disp, n), turns, step, span))
<1> DEFINE D == Chain(map, size, disp, n)
           I == 0 .. turns - 1
           F == [r \in I |-> BlockRound(pack, copies, size, disp, n, r * step, r * span)]
           G == [r \in I |-> Placed(D, r * step, r * span)]
<1>1. \A r \in I : Moves(pack, F[r], G[r])
  <2> SUFFICES ASSUME NEW r \in I
               PROVE  Moves(pack, F[r], G[r])
    OBVIOUS
  <2> DEFINE p == r * step
             a == r * span
  <2>1. p \in Int /\ a \in Int
    OBVIOUS
  <2>2. F[r] = BlockRound(pack, copies, size, disp, n, p, a) /\ G[r] = Placed(D, p, a)
    OBVIOUS
  <2> HIDE DEF p, a, F, G, I
  <2>3. Moves(pack, BlockRound(pack, copies, size, disp, n, p, a), Placed(D, p, a))
    BY <2>1, BlockRoundMoves
  <2> QED
    BY <2>2, <2>3
<1>2. /\ AllOf(F, I) = UNION {BlockRound(pack, copies, size, disp, n, r * step, r * span)
                              : r \in 0 .. turns - 1}
      /\ AllOf(G, I) = Reps(D, turns, step, span)
  BY DEF AllOf, Reps
<1> HIDE DEF F, G
<1>3. Moves(pack, AllOf(F, I), AllOf(G, I))
  BY <1>1, MovesUnion
<1> QED
  BY <1>2, <1>3

-----------------------------------------------------------------------------
(* The exit conditions.                                                    *)

\* The rounds of a loop that counts upwards.
LEMMA RoundsOf ==
    ASSUME NEW step \in Int, NEW total \in Int, step > 0
    PROVE  Rounds(step, total)
             = IF total \div step > 0 /\ (total \div step) * step = total
               THEN total \div step ELSE 0
  BY DEF Rounds

\* A loop whose bound is k steps away takes k rounds.
LEMMA RoundsExact ==
    ASSUME NEW step \in Int, step > 0, NEW k \in Int, k > 0, NEW total, total = k * step
    PROVE  Rounds(step, total) = k
<1>1. total \in Int /\ total \div step = k
  BY SMTT(30)
<1> QED
  BY <1>1, RoundsOf

-----------------------------------------------------------------------------
(* The code generators, class by class.                                    *)

\* The arm of Emit for each kind.
LEMMA EmitOfKinds ==
    ASSUME NEW f, NEW t, NEW pack \in BOOLEAN, NEW n
    PROVE  /\ t.kind = "PRIMITIVE" => Emit(f, t, pack, n) = Copy(0, 0, n * t.size)
           /\ t.kind \in {"VECTOR", "HVECTOR"} =>
                 Emit(f, t, pack, n) = EmitStrided(f, t, Extent(t), pack, n)
           /\ t.kind = "INDEXEDBLOCK" => Emit(f, t, pack, n) = EmitIndexedBlock(f, t, pack, n)
           /\ t.kind = "HINDEXED" => Emit(f, t, pack, n) = EmitHIndexed(f, t, pack, n)
           /\ t.kind = "STRUCT"   => Emit(f, t, pack, n) = EmitStruct(f, t, pack, n)
           /\ t.kind = "RESIZED"  => Emit(f, t, pack, n) = EmitResized(f, t, pack, n)
  BY DEF Emit

\* The arm of a contiguous type, in both directions.
LEMMA EmitOfContiguous ==
    ASSUME NEW f, NEW t, NEW n, t.kind = "CONTIGUOUS"
    PROVE  /\ Emit(f, t, TRUE, n) = EmitContiguous(f, t.base, Extent(t), t.size, t.count, TRUE, n)
           /\ Emit(f, t, FALSE, n)
                = EmitContiguous(f, t.base, t.size, Extent(t), t.count, FALSE, n)
<1>1. Emit(f, t, TRUE, n) = EmitContiguous(f, t.base, Extent(t), t.size, t.count, TRUE, n)
  BY DEF Emit
<1>2. Emit(f, t, FALSE, n) = EmitContiguous(f, t.base, t.size, Extent(t), t.count, FALSE, n)
  BY DEF Emit
<1> QED
  BY <1>1, <1>2

\* The arm of EmitResized for each kind.
LEMMA EmitResizedKinds ==
    ASSUME NEW f, NEW t, NEW pack \in BOOLEAN, NEW n
    PROVE  /\ t.base.kind = "PRIMITIVE" =>
                 EmitResized(f, t, pack, n) = EmitPrimitiveResized(t.size, Extent(t), n)
           /\ t.base.kind \in {"VECTOR", "HVECTOR"} =>
                 EmitResized(f, t, pack, n) = EmitStrided(f, t.base, Extent(t), pack, n)
           /\ t.base.kind \notin ResizedKinds => EmitResized(f, t, pack, n) = {}
  BY DEF EmitResized, ResizedKinds

\* The arm of a contiguous basetype.
LEMMA EmitResizedContiguous ==
    ASSUME NEW f, NEW t, NEW pack, NEW n, t.base.kind = "CONTIGUOUS"
    PROVE  EmitResized(f, t, pack, n)
             = EmitContiguous(f, t.base.base, Extent(t), t.size, t.base.count, TRUE, n)
  BY DEF EmitResized

-----------------------------------------------------------------------------
(* The code of a node reads that of its subtrees only.                     *)

\* The code of a vector reads that of its basetype only.
LEMMA SameStrided ==
    ASSUME NEW f, NEW g, NEW v, NEW extent, NEW pack \in BOOLEAN, NEW n,
           f[v.base] = g[v.base]
    PROVE  EmitStrided(f, v, extent, pack, n) = EmitStrided(g, v, extent, pack, n)
  BY DEF EmitStrided, EmitVector, Loop

\* A transfer reads the code of its basetype only.
LEMMA SameTransfer ==
    ASSUME NEW f, NEW g, NEW base, NEW pack \in BOOLEAN, NEW len,
           NEW compact, NEW scattered, f[base] = g[base]
    PROVE  Transfer(f, base, pack, len, compact, scattered)
             = Transfer(g, base, pack, len, compact, scattered)
  BY DEF Transfer

\* The unrolled code reads that of its basetypes only.
LEMMA SameBlocks ==
    ASSUME NEW f, NEW g, NEW blocks, NEW extent, NEW pack \in BOOLEAN, NEW n,
           \A k \in DOMAIN blocks : f[blocks[k].base] = g[blocks[k].base]
    PROVE  EmitBlocks(f, blocks, extent, pack, n) = EmitBlocks(g, blocks, extent, pack, n)
<1> DEFINE Before(k) == Total([b \in DOMAIN blocks |-> blocks[b].len * blocks[b].base.size], k - 1)
           Body(h, r) == UNION {Transfer(h, blocks[k].base, pack, blocks[k].len,
                                         r * Before(Len(blocks) + 1) + Before(k),
                                         r * extent + blocks[k].disp) : k \in DOMAIN blocks}
           rounds == Rounds(extent, n * extent)
<1>1. ASSUME NEW h
      PROVE  EmitBlocks(h, blocks, extent, pack, n)
               = IF rounds = 0 THEN Runaway ELSE UNION {Body(h, r) : r \in 0 .. rounds - 1}
  BY DEF EmitBlocks, Loop
<1>2. ASSUME NEW r
      PROVE  Body(f, r) = Body(g, r)
  <2> DEFINE C(k) == r * Before(Len(blocks) + 1) + Before(k)
             D(k) == r * extent + blocks[k].disp
  <2> HIDE DEF Before, C, D
  <2>1. \A k \in DOMAIN blocks :
           Transfer(f, blocks[k].base, pack, blocks[k].len, C(k), D(k))
             = Transfer(g, blocks[k].base, pack, blocks[k].len, C(k), D(k))
    BY SameTransfer
  <2>2. UNION {Transfer(f, blocks[k].base, pack, blocks[k].len, C(k), D(k)) : k \in DOMAIN blocks}
          = UNION {Transfer(g, blocks[k].base, pack, blocks[k].len, C(k), D(k)) : k \in DOMAIN blocks}
    BY <2>1
  <2> QED
    BY <2>2 DEF C, D
<1> HIDE DEF Body, rounds
<1>3. UNION {Body(f, r) : r \in 0 .. rounds - 1} = UNION {Body(g, r) : r \in 0 .. rounds - 1}
  BY <1>2
<1> QED
  BY <1>1, <1>3

\* The looped code reads that of its basetype only.
LEMMA SameIndexedLoop ==
    ASSUME NEW f, NEW g, NEW t, NEW pack \in BOOLEAN, NEW n, f[t.base] = g[t.base]
    PROVE  EmitIndexedLoop(f, t, pack, n) = EmitIndexedLoop(g, t, pack, n)
<1> DEFINE step == t.blocklen * Extent(t.base)
           Body(h, r) == UNION {Transfer(h, t.base, pack, t.blocklen,
                                         (r * t.count + k - 1) * step,
                                         r * Extent(t) + t.displs[k] * Extent(t.base))
                                : k \in DOMAIN t.displs}
           rounds == Rounds(t.count * step, n * t.size)
           astray == OpensBlocks(t.base, t.blocklen)
                       \/ \E i \in DOMAIN t.displs : t.displs[i] * Extent(t.base) < 0
<1>1. ASSUME NEW h
      PROVE  EmitIndexedLoop(h, t, pack, n)
               = IF astray THEN Runaway
                 ELSE IF rounds = 0 THEN Runaway
                 ELSE UNION {Body(h, r) : r \in 0 .. rounds - 1}
  BY DEF EmitIndexedLoop, Loop
<1>2. ASSUME NEW r
      PROVE  Body(f, r) = Body(g, r)
  <2> HIDE DEF step
  <2> QED
    BY SameTransfer
<1> HIDE DEF Body, rounds, astray
<1>3. UNION {Body(f, r) : r \in 0 .. rounds - 1} = UNION {Body(g, r) : r \in 0 .. rounds - 1}
  BY <1>2
<1> QED
  BY <1>1, <1>3

\* The code of a node reads that of lower nodes only.
LEMMA SameEmit ==
    ASSUME NEW f, NEW g, NEW t \in Trees,
           NEW pack \in BOOLEAN, NEW n,
           \A c \in Trees : Height(c) < Height(t) => f[c] = g[c]
    PROVE  Emit(f, t, pack, n) = Emit(g, t, pack, n)
<1>1. \A c \in Children(t) : c \in Trees /\ Height(c) < Height(t) /\ f[c] = g[c]
  BY ChildrenBelow
<1>2. t.kind \notin {"PRIMITIVE", "STRUCT"} =>
         t.base \in Trees /\ Height(t.base) < Height(t) /\ f[t.base] = g[t.base]
  BY <1>1, ChildFacts
<1>3. t.kind \in {"PRIMITIVE", "CONTIGUOUS", "VECTOR", "HVECTOR",
                  "INDEXEDBLOCK", "HINDEXED", "STRUCT", "RESIZED"}
  BY NodeFields
<1>4. CASE t.kind = "PRIMITIVE"
  BY <1>4, EmitOfKinds
<1>5. CASE t.kind = "CONTIGUOUS"
  <2>1. f[t.base] = g[t.base]
    BY <1>2, <1>5
  <2>2. ASSUME NEW x, NEW y, NEW z, NEW p
        PROVE  EmitContiguous(f, t.base, x, y, z, p, n) = EmitContiguous(g, t.base, x, y, z, p, n)
    BY <2>1 DEF EmitContiguous
  <2>e. ASSUME NEW h
        PROVE  /\ Emit(h, t, TRUE, n)
                    = EmitContiguous(h, t.base, Extent(t), t.size, t.count, TRUE, n)
               /\ Emit(h, t, FALSE, n)
                    = EmitContiguous(h, t.base, t.size, Extent(t), t.count, FALSE, n)
    BY <1>5, EmitOfContiguous
  <2>3. Emit(f, t, TRUE, n) = Emit(g, t, TRUE, n)
    BY <2>2, <2>e
  <2>4. Emit(f, t, FALSE, n) = Emit(g, t, FALSE, n)
    BY <2>2, <2>e
  <2> QED
    BY <2>3, <2>4
<1>6. CASE t.kind \in {"VECTOR", "HVECTOR"}
  BY <1>2, <1>6, EmitOfKinds, SameStrided
<1>7. CASE t.kind = "INDEXEDBLOCK"
  <2> DEFINE blocks == [k \in DOMAIN t.displs |->
                          [disp |-> t.displs[k] * t.base.size,
                           len  |-> t.blocklen, base |-> t.base]]
  <2>1. ASSUME NEW h
        PROVE  EmitIndexedBlock(h, t, pack, n)
                 = IF t.count > IDXB_LOOP_TRESHOLD THEN EmitIndexedLoop(h, t, pack, n)
                   ELSE EmitBlocks(h, blocks, Extent(t), pack, n)
    BY DEF EmitIndexedBlock
  <2>2. \A k \in DOMAIN blocks : f[blocks[k].base] = g[blocks[k].base]
    BY <1>2, <1>7
  <2> HIDE DEF blocks
  <2>3. EmitBlocks(f, blocks, Extent(t), pack, n) = EmitBlocks(g, blocks, Extent(t), pack, n)
    BY <2>2, SameBlocks
  <2>4. EmitIndexedLoop(f, t, pack, n) = EmitIndexedLoop(g, t, pack, n)
    BY <1>2, <1>7, SameIndexedLoop
  <2>5. EmitIndexedBlock(f, t, pack, n) = EmitIndexedBlock(g, t, pack, n)
    BY <2>1, <2>3, <2>4
  <2> QED
    BY <1>7, <2>5, EmitOfKinds
<1>8. CASE t.kind = "HINDEXED"
  <2> DEFINE blocks == [k \in DOMAIN t.displs |->
                          [disp |-> t.displs[k], len |-> t.blocklens[k], base |-> t.base]]
  <2>1. ASSUME NEW h
        PROVE  EmitHIndexed(h, t, pack, n) = EmitBlocks(h, blocks, Extent(t), pack, n)
    BY DEF EmitHIndexed
  <2>2. \A k \in DOMAIN blocks : f[blocks[k].base] = g[blocks[k].base]
    BY <1>2, <1>8
  <2> HIDE DEF blocks
  <2>3. EmitBlocks(f, blocks, Extent(t), pack, n) = EmitBlocks(g, blocks, Extent(t), pack, n)
    BY <2>2, SameBlocks
  <2> QED
    BY <1>8, <2>1, <2>3, EmitOfKinds
<1>9. CASE t.kind = "STRUCT"
  <2> DEFINE blocks == [k \in DOMAIN t.bases |->
                          [disp |-> t.displs[k], len |-> t.blocklens[k], base |-> t.bases[k]]]
  <2>1. ASSUME NEW h
        PROVE  EmitStruct(h, t, pack, n) = EmitBlocks(h, blocks, Extent(t), pack, n)
    BY DEF EmitStruct
  <2>2. \A k \in DOMAIN blocks : f[blocks[k].base] = g[blocks[k].base]
    BY <1>1, <1>9, ChildFacts
  <2> HIDE DEF blocks
  <2>3. EmitBlocks(f, blocks, Extent(t), pack, n) = EmitBlocks(g, blocks, Extent(t), pack, n)
    BY <2>2, SameBlocks
  <2> QED
    BY <1>9, <2>1, <2>3, EmitOfKinds
<1>10. CASE t.kind = "RESIZED"
  <2>1. t.base.kind \notin {"PRIMITIVE", "STRUCT"} => f[t.base.base] = g[t.base.base]
    <3> SUFFICES ASSUME t.base.kind \notin {"PRIMITIVE", "STRUCT"}
                 PROVE  f[t.base.base] = g[t.base.base]
      OBVIOUS
    <3>1. t.base.base \in Trees /\ Height(t.base.base) < Height(t.base)
      BY <1>2, <1>10, ChildFacts, ChildrenBelow
    <3>2. Height(t.base.base) < Height(t)
      BY <1>2, <1>10, <3>1, HeightNat
    <3> QED
      BY <3>1, <3>2
  <2>2. EmitResized(f, t, pack, n) = EmitResized(g, t, pack, n)
    <3>1. CASE t.base.kind = "PRIMITIVE"
      BY <3>1, EmitResizedKinds
    <3>2. CASE t.base.kind = "CONTIGUOUS"
      <4>1. f[t.base.base] = g[t.base.base]
        BY <2>1, <3>2
      <4>2. EmitContiguous(f, t.base.base, Extent(t), t.size, t.base.count, TRUE, n)
              = EmitContiguous(g, t.base.base, Extent(t), t.size, t.base.count, TRUE, n)
        BY <4>1 DEF EmitContiguous
      <4>3. ASSUME NEW h
            PROVE  EmitResized(h, t, pack, n)
                     = EmitContiguous(h, t.base.base, Extent(t), t.size, t.base.count, TRUE, n)
        BY <3>2, EmitResizedContiguous
      <4> QED
        BY <4>2, <4>3
    <3>3. CASE t.base.kind \in {"VECTOR", "HVECTOR"}
      <4> DEFINE v == t.base
      <4>1. f[v.base] = g[v.base]
        BY <2>1, <3>3
      <4> HIDE DEF v
      <4>2. EmitStrided(f, v, Extent(t), pack, n) = EmitStrided(g, v, Extent(t), pack, n)
        BY <4>1, SameStrided
      <4> QED
        BY <3>3, <4>2, EmitResizedKinds DEF v
    <3>4. CASE t.base.kind \notin ResizedKinds
      BY <3>4, EmitResizedKinds
    <3> QED
      BY <3>1, <3>2, <3>3, <3>4 DEF ResizedKinds
  <2> QED
    BY <1>10, <2>2, EmitOfKinds
<1> QED
  BY <1>3, <1>4, <1>5, <1>6, <1>7, <1>8, <1>9, <1>10

\* Code is a recursion on the height of the tree.
CodeRec == INSTANCE RankRecursion WITH Domain <- Trees, Rank <- Height, Def <- CodeOf

\* Code satisfies its defining equation.
LEMMA CodeUnfold ==
    ASSUME NEW t \in Trees, NEW pack \in BOOLEAN, NEW n \in Nat
    PROVE  Code[t][pack][n] = Emit(Code, t, pack, n)
<1>1. CodeRec!Ranked
  BY HeightNat DEF CodeRec!Ranked
<1>2. CodeRec!Grounded
  <2> SUFFICES ASSUME NEW f, NEW g, NEW s \in Trees,
                      \A c \in Trees : Height(c) < Height(s) => f[c] = g[c]
               PROVE  CodeOf(f, s) = CodeOf(g, s)
    BY DEF CodeRec!Grounded
  <2>1. \A p \in BOOLEAN, k \in Nat : Emit(f, s, p, k) = Emit(g, s, p, k)
    BY SameEmit
  <2> QED
    BY <2>1 DEF CodeOf
<1>3. \E f : f = [s \in Trees |-> CodeOf(f, s)]
  BY <1>1, <1>2, CodeRec!RecursionExists
<1>4. Code = [s \in Trees |-> CodeOf(Code, s)]
  BY <1>3 DEF Code
<1>5. Code[t] = CodeOf(Code, t)
  BY <1>4
<1> QED
  BY <1>5 DEF CodeOf

-----------------------------------------------------------------------------
(* The nodes whose code is right.                                          *)

\* Restorable is a recursion on the height of the tree.
RestorableRec == INSTANCE RankRecursion WITH Domain <- Trees, Rank <- Height, Def <- RestorableOf

\* Restorable satisfies its defining equation.
LEMMA RestorableUnfold ==
    ASSUME NEW t \in Trees
    PROVE  Restorable[t] = RestorableOf(Restorable, t)
<1>1. RestorableRec!Ranked
  BY HeightNat DEF RestorableRec!Ranked
<1>2. RestorableRec!Grounded
  <2> SUFFICES ASSUME NEW f, NEW g, NEW s \in Trees,
                      \A c \in Trees : Height(c) < Height(s) => f[c] = g[c]
               PROVE  RestorableOf(f, s) = RestorableOf(g, s)
    BY DEF RestorableRec!Grounded
  <2>1. \A c \in Children(s) : f[c] = g[c]
    BY ChildrenBelow
  <2>2. s.kind \notin {"PRIMITIVE", "STRUCT"} => f[s.base] = g[s.base]
    BY <2>1, ChildFacts
  <2>3. s.kind = "STRUCT" => \A i \in DOMAIN s.bases : f[s.bases[i]] = g[s.bases[i]]
    BY <2>1, ChildFacts
  <2>4. RestorableOf(f, s) <=> RestorableOf(g, s)
    BY <2>2, <2>3 DEF RestorableOf
  <2>5. RestorableOf(f, s) \in BOOLEAN /\ RestorableOf(g, s) \in BOOLEAN
    BY DEF RestorableOf
  <2> QED
    BY <2>4, <2>5
<1>3. \E f : f = [s \in Trees |-> RestorableOf(f, s)]
  BY <1>1, <1>2, RestorableRec!RecursionExists
<1>4. Restorable = [s \in Trees |-> RestorableOf(Restorable, s)]
  BY <1>3 DEF Restorable
<1> QED
  BY <1>4

\* What a restorable node is built from is restorable.
LEMMA RestorableNode ==
    ASSUME NEW t \in Trees, Restorable[t]
    PROVE  /\ \A c \in Children(t) : Restorable[c]
           /\ t.kind = "RESIZED" =>
                 /\ t.base.kind \in {"PRIMITIVE", "CONTIGUOUS"} => Extent(t) = t.size
                 /\ t.base.kind = "CONTIGUOUS" => t.base.base.kind = "PRIMITIVE"
<1>1. RestorableOf(Restorable, t)
  BY RestorableUnfold
<1>2. /\ t.kind = "PRIMITIVE" => Children(t) = {}
      /\ t.kind = "STRUCT" => Children(t) = {t.bases[i] : i \in DOMAIN t.bases}
      /\ t.kind \notin {"PRIMITIVE", "STRUCT"} => Children(t) = {t.base}
  BY DEF Children
<1>3. \A c \in Children(t) : Restorable[c]
  BY <1>1, <1>2 DEF RestorableOf
<1> QED
  BY <1>1, <1>3 DEF RestorableOf

\* A node that generates code which ends: what the walk over a regular tree
\* asks of its kinds.
Ready(t) ==
    /\ t.kind = "CONTIGUOUS" => t.count > 0 \/ t.base.kind = "PRIMITIVE"
    /\ t.kind = "INDEXEDBLOCK" /\ t.count > IDXB_LOOP_TRESHOLD =>
          ~OpensBlocks(t.base, t.blocklen)
    /\ t.kind = "RESIZED" => t.base.kind \in ResizedKinds

\* Regular trees that are ready at every node.
Runnable == UNION {S \in SUBSET Regular : \A t \in S : Ready(t) /\ Children(t) \subseteq S}

\* A runnable tree is ready over runnable trees.
LEMMA RunnableNode ==
    ASSUME NEW t \in Runnable
    PROVE  /\ t \in Regular /\ t \in Trees /\ Ready(t) /\ Children(t) \subseteq Runnable
           /\ Fits(t) /\ AsBuilt(t) /\ Straight(t)
<1>1. PICK S \in SUBSET Regular : t \in S /\ \A s \in S : Ready(s) /\ Children(s) \subseteq S
  BY DEF Runnable
<1>2. S \subseteq Runnable
  BY <1>1 DEF Runnable
<1> QED
  BY <1>1, <1>2, RegularNode, BuiltNode, RegularFits

\* A regular node that is ready over runnable trees is runnable.
LEMMA RunnableOver ==
    ASSUME NEW t \in Regular, Ready(t), Children(t) \subseteq Runnable
    PROVE  t \in Runnable
<1> DEFINE S == Runnable \cup {t}
<1>1. \A s \in S : Ready(s) /\ Children(s) \subseteq S
  BY RunnableNode
<1>2. S \in SUBSET Regular
  BY RunnableNode
<1> QED
  BY <1>1, <1>2 DEF Runnable

\* The bytes of n items of t, and the claim about its code.
Items(t, n) == Reps(Meaning[t].map, n, t.size, Extent(t))

\* The code of n items of t moves n items.
Runs(t, pack) ==
    \A n \in Nat : n > 0 \/ t.kind = "PRIMITIVE" => Moves(pack, Code[t][pack][n], Items(t, n))

\* The code of n items of the base, inside a node that takes n of them.
LEMMA BaseRuns ==
    ASSUME NEW pack \in BOOLEAN, NEW t, Runs(t, pack), NEW n \in Nat,
           n > 0 \/ t.kind = "PRIMITIVE"
    PROVE  Moves(pack, Code[t][pack][n], Items(t, n))
  BY DEF Runs

-----------------------------------------------------------------------------
(* Elements.                                                               *)

\* The bytes that lie in memory as they are packed.
InPlace(n) == {<<i, i>> : i \in 0 .. n - 1}

\* Bytes in place are a type map.
LEMMA InPlacePairs ==
    ASSUME NEW n \in Nat
    PROVE  InPlace(n) \in Maps
  BY DEF InPlace, Maps

\* Bytes in place, and more behind them.
LEMMA InPlaceNext ==
    ASSUME NEW a \in Nat, NEW b \in Nat, NEW c, c = a + b
    PROVE  InPlace(c) = InPlace(a) \cup Placed(InPlace(b), a, a)
<1>1. \A p : p \in InPlace(c) <=> \E i \in 0 .. c - 1 : p = <<i, i>>
  BY DEF InPlace
<1>2. \A p : p \in InPlace(a) <=> \E i \in 0 .. a - 1 : p = <<i, i>>
  BY DEF InPlace
<1>3. \A p : p \in Placed(InPlace(b), a, a) <=> \E i \in 0 .. b - 1 : p = <<a + i, a + i>>
  <2>1. \A q : q \in InPlace(b) <=> \E i \in 0 .. b - 1 : q = <<i, i>>
    BY DEF InPlace
  <2>2. \A p : p \in Placed(InPlace(b), a, a)
                 <=> \E q \in InPlace(b) : p = <<a + q[1], a + q[2]>>
    BY DEF Placed
  <2>3. ASSUME NEW p, NEW i \in 0 .. b - 1, p = <<a + i, a + i>>
        PROVE  p \in Placed(InPlace(b), a, a)
    <3>1. <<i, i>> \in InPlace(b) /\ <<i, i>>[1] = i /\ <<i, i>>[2] = i
      BY <2>1
    <3> QED
      BY <2>2, <2>3, <3>1
  <2>4. ASSUME NEW p \in Placed(InPlace(b), a, a)
        PROVE  \E i \in 0 .. b - 1 : p = <<a + i, a + i>>
    <3>1. PICK q \in InPlace(b) : p = <<a + q[1], a + q[2]>>
      BY <2>2
    <3>2. PICK i \in 0 .. b - 1 : q = <<i, i>>
      BY <2>1
    <3> QED
      BY <3>1, <3>2
  <2> QED
    BY <2>3, <2>4
<1>4. ASSUME NEW p \in InPlace(c)
      PROVE  p \in InPlace(a) \cup Placed(InPlace(b), a, a)
  <2>1. PICK i \in 0 .. c - 1 : p = <<i, i>>
    BY <1>1, <1>4
  <2>2. CASE i < a
    BY <1>2, <2>1, <2>2
  <2>3. CASE i >= a
    <3>1. i - a \in 0 .. b - 1 /\ p = <<a + (i - a), a + (i - a)>>
      BY <2>1, <2>3
    <3> QED
      BY <1>3, <3>1
  <2> QED
    BY <2>1, <2>2, <2>3
<1>5. ASSUME NEW p \in InPlace(a) \cup Placed(InPlace(b), a, a)
      PROVE  p \in InPlace(c)
  <2>1. CASE p \in InPlace(a)
    <3>1. PICK i \in 0 .. a - 1 : p = <<i, i>>
      BY <1>2, <2>1
    <3> QED
      BY <1>1, <3>1
  <2>2. CASE p \in Placed(InPlace(b), a, a)
    <3>1. PICK i \in 0 .. b - 1 : p = <<a + i, a + i>>
      BY <1>3, <2>2
    <3>2. a + i \in 0 .. c - 1
      BY <3>1
    <3> QED
      BY <1>1, <3>1, <3>2
  <2> QED
    BY <1>5, <2>1, <2>2
<1> QED
  BY <1>4, <1>5

\* Elements in place, one behind the other, are bytes in place.
LEMMA InPlaceReps ==
    ASSUME NEW s \in Nat
    PROVE  \A n \in Nat : Reps(InPlace(s), n, s, s) = InPlace(n * s)
<1> DEFINE S == {n \in Nat : Reps(InPlace(s), n, s, s) = InPlace(n * s)}
<1>1. 0 \in S
  <2>1. InPlace(0 * s) = {}
    BY DEF InPlace
  <2> QED
    BY <2>1, RepsNone
<1>2. ASSUME NEW n \in Nat, n \in S
      PROVE  n + 1 \in S
  <2> DEFINE m == n + 1
             a == n * s
             b == m * s
  <2>1. a \in Nat /\ b = a + s
    OBVIOUS
  <2> HIDE DEF b
  <2>2. Reps(InPlace(s), m, s, s) = Reps(InPlace(s), n, s, s) \cup Placed(InPlace(s), n * s, n * s)
    <3> HIDE DEF m
    <3>1. m = n + 1
      BY DEF m
    <3> QED
      BY <3>1, InPlacePairs, RepsNext
  <2>3. Reps(InPlace(s), m, s, s) = InPlace(a) \cup Placed(InPlace(s), a, a)
    BY <1>2, <2>2
  <2> HIDE DEF a
  <2>4. InPlace(b) = InPlace(a) \cup Placed(InPlace(s), a, a)
    BY <2>1, InPlaceNext
  <2>5. Reps(InPlace(s), m, s, s) = InPlace(b)
    <3> HIDE DEF m
    <3> QED
      BY <2>3, <2>4
  <2>6. Reps(InPlace(s), n + 1, s, s) = InPlace((n + 1) * s)
    BY <2>5 DEF b
  <2> QED
    BY <2>6
<1> HIDE DEF S
<1>3. Nat \subseteq S
  BY <1>1, <1>2, HeightRec!Induction
<1> QED
  BY <1>3 DEF S

\* A single copy moves its bytes.
LEMMA CopyMoves ==
    ASSUME NEW pack \in BOOLEAN, NEW n \in Nat
    PROVE  Moves(pack, Copy(0, 0, n), InPlace(n))
<1>1. CASE n = 0
  <2>1. Copy(0, 0, n) = {} /\ InPlace(n) = {}
    BY <1>1 DEF Copy, InPlace
  <2> QED
    BY <2>1, MovesNothing
<1>2. CASE n > 0
  <2> DEFINE c == [from |-> 0, to |-> 0, len |-> n]
  <2>1. Copy(0, 0, n) = {c} /\ c \in Copies /\ c.len = n
    BY <1>2 DEF Copy, Copies
  <2>2. \A i \in 0 .. n - 1 : PairOf(pack, c, i) = <<i, i>>
    BY DEF PairOf
  <2>3. MovedBy(pack, {c}) = {PairOf(pack, c, i) : i \in 0 .. n - 1}
    BY DEF MovedBy
  <2>4. MovedBy(pack, {c}) = InPlace(n)
    BY <2>2, <2>3 DEF InPlace
  <2> QED
    BY <1>2, <2>1, <2>4 DEF Moves, Ends
<1> QED
  BY <1>1, <1>2

\* The code of a primitive type is right.
LEMMA PrimitiveRuns ==
    ASSUME NEW pack \in BOOLEAN, NEW t \in Trees, t.kind = "PRIMITIVE"
    PROVE  Runs(t, pack)
<1>1. Fits(t) /\ Extent(t) = t.size /\ Meaning[t].map = InPlace(t.size)
  BY PrimitiveFits DEF InPlace
<1>2. t.size \in Nat
  BY <1>1, FitsSpan
<1>3. ASSUME NEW n \in Nat
      PROVE  Moves(pack, Code[t][pack][n], Items(t, n))
  <2> DEFINE l == n * t.size
  <2>1. l \in Nat
    BY <1>2
  <2>2. Code[t][pack][n] = Copy(0, 0, l)
    BY CodeUnfold, EmitOfKinds
  <2>3. Items(t, n) = InPlace(l)
    BY <1>1, <1>2, InPlaceReps DEF Items
  <2> HIDE DEF l
  <2> QED
    BY <2>1, <2>2, <2>3, CopyMoves
<1> QED
  BY <1>3 DEF Runs

-----------------------------------------------------------------------------
(* Copies within copies.                                                   *)

\* Two shifts of the arguments are one.
LEMMA AtTwice ==
    ASSUME NEW copies, copies \subseteq Copies,
           NEW in \in Int, NEW out \in Int, NEW in2 \in Int, NEW out2 \in Int
    PROVE  At(in2, out2, At(in, out, copies)) = At(in2 + in, out2 + out, copies)
<1>1. \A c \in copies : c.from \in Int /\ c.to \in Int
  BY DEF Copies
<1>2. \A c \in copies : /\ (c.from + in) + in2 = c.from + (in2 + in)
                        /\ (c.to + out) + out2 = c.to + (out2 + out)
  BY <1>1
<1> DEFINE R(c, x, y) == [from |-> c.from + x, to |-> c.to + y, len |-> c.len]
<1>3. \A c \in copies : R(R(c, in, out), in2, out2) = R(c, in2 + in, out2 + out)
  BY <1>2
<1>4. /\ At(in, out, copies) = {R(c, in, out) : c \in copies}
      /\ At(in2, out2, {R(c, in, out) : c \in copies})
           = {R(d, in2, out2) : d \in {R(c, in, out) : c \in copies}}
      /\ At(in2 + in, out2 + out, copies) = {R(c, in2 + in, out2 + out) : c \in copies}
  BY DEF At
<1> HIDE DEF R
<1>5. {R(d, in2, out2) : d \in {R(c, in, out) : c \in copies}}
        = {R(c, in2 + in, out2 + out) : c \in copies}
  BY <1>3
<1> QED
  BY <1>4, <1>5

\* Two shifts are one.
LEMMA MoveTwice ==
    ASSUME NEW pack \in BOOLEAN, NEW copies, copies \subseteq Copies,
           NEW pos \in Int, NEW at \in Int, NEW pos2 \in Int, NEW at2 \in Int
    PROVE  Move(pack, Move(pack, copies, pos, at), pos2, at2)
             = Move(pack, copies, pos2 + pos, at2 + at)
  BY AtTwice DEF Move

\* Shifting all is shifting each.
LEMMA MoveAll ==
    ASSUME NEW pack \in BOOLEAN, NEW F, NEW I, NEW pos, NEW at
    PROVE  Move(pack, AllOf(F, I), pos, at) = UNION {Move(pack, F[i], pos, at) : i \in I}
<1>1. ASSUME NEW x, NEW y
      PROVE  At(x, y, UNION {F[i] : i \in I}) = UNION {At(x, y, F[i]) : i \in I}
  BY DEF At
<1> QED
  BY <1>1 DEF Move, AllOf

\* A loop of m rounds inside a loop of n.
Nest(pack, copies, m, step, span, n, size, extent) ==
    UNION {UNION {Move(pack, copies, r * size + j * step, r * extent + j * span)
                  : j \in 0 .. m - 1} : r \in 0 .. n - 1}

\* A loop of loops moves repetitions of repetitions.
LEMMA LoopsMove ==
    ASSUME NEW pack \in BOOLEAN, NEW copies, NEW map, Moves(pack, copies, map),
           NEW m \in Nat, NEW step \in Int, NEW span \in Int,
           NEW n \in Nat, NEW size \in Int, NEW extent \in Int
    PROVE  Moves(pack, Nest(pack, copies, m, step, span, n, size, extent),
                 Reps(Reps(map, m, step, span), n, size, extent))
<1> DEFINE F == [j \in 0 .. m - 1 |-> Move(pack, copies, j * step, j * span)]
           inner == AllOf(F, 0 .. m - 1)
<1>1. Moves(pack, inner, Reps(map, m, step, span))
  BY LoopMoves DEF AllOf
<1>2. ASSUME NEW r \in 0 .. n - 1
      PROVE  Move(pack, inner, r * size, r * extent)
               = UNION {Move(pack, copies, r * size + j * step, r * extent + j * span)
                        : j \in 0 .. m - 1}
  <2> DEFINE p == r * size
             a == r * extent
  <2>1. p \in Int /\ a \in Int
    OBVIOUS
  <2>2. \A j \in 0 .. m - 1 :
           Move(pack, F[j], r * size, r * extent)
             = Move(pack, copies, r * size + j * step, r * extent + j * span)
    <3> SUFFICES ASSUME NEW j \in 0 .. m - 1
                 PROVE  Move(pack, Move(pack, copies, j * step, j * span), p, a)
                          = Move(pack, copies, p + j * step, a + j * span)
      OBVIOUS
    <3> DEFINE q == j * step
               b == j * span
    <3>1. q \in Int /\ b \in Int
      OBVIOUS
    <3>2. copies \subseteq Copies
      BY DEF Moves
    <3> HIDE DEF p, a, q, b
    <3>3. Move(pack, Move(pack, copies, q, b), p, a) = Move(pack, copies, p + q, a + b)
      BY <2>1, <3>1, <3>2, MoveTwice
    <3> QED
      BY <3>3 DEF q, b
  <2> HIDE DEF F
  <2>3. Move(pack, inner, r * size, r * extent)
          = UNION {Move(pack, F[j], r * size, r * extent) : j \in 0 .. m - 1}
    <3> HIDE DEF p, a
    <3>1. Move(pack, AllOf(F, 0 .. m - 1), p, a)
            = UNION {Move(pack, F[j], p, a) : j \in 0 .. m - 1}
      BY MoveAll
    <3> QED
      BY <3>1 DEF p, a
  <2> QED
    BY <2>2, <2>3
<1> HIDE DEF inner
<1>3. Moves(pack, UNION {Move(pack, inner, r * size, r * extent) : r \in 0 .. n - 1},
            Reps(Reps(map, m, step, span), n, size, extent))
  <2> DEFINE whole == Reps(map, m, step, span)
  <2> HIDE DEF whole
  <2>1. Moves(pack, inner, whole)
    BY <1>1 DEF whole
  <2>2. Moves(pack, UNION {Move(pack, inner, r * size, r * extent) : r \in 0 .. n - 1},
              Reps(whole, n, size, extent))
    BY <2>1, LoopMoves
  <2> QED
    BY <2>2 DEF whole
<1>4. UNION {Move(pack, inner, r * size, r * extent) : r \in 0 .. n - 1}
        = Nest(pack, copies, m, step, span, n, size, extent)
  BY <1>2 DEF Nest
<1> QED
  BY <1>3, <1>4

-----------------------------------------------------------------------------
(* Contiguous types.                                                       *)

\* One loop of the code of a run of elements.
LEMMA ContiguousLoop ==
    ASSUME NEW pack \in BOOLEAN, NEW f, NEW base, NEW count, NEW map,
           Moves(pack, f[base][pack][count], map),
           NEW n \in Nat \ {0}, NEW size \in Int, NEW extent \in Int, NEW in, NEW out,
           pack => in = extent /\ out = size, ~pack => in = size /\ out = extent
    PROVE  Moves(pack, EmitContiguous(f, base, in, out, count, pack, n),
                 Reps(map, n, size, extent))
<1>1. Rounds(1, n) = n
  BY RoundsExact
<1>2. EmitContiguous(f, base, in, out, count, pack, n)
        = UNION {At(r * in, r * out, f[base][pack][count]) : r \in 0 .. n - 1}
  BY <1>1 DEF EmitContiguous, Loop
<1> DEFINE C == f[base][pack][count]
<1> HIDE DEF C
<1>3. \A r \in 0 .. n - 1 : At(r * in, r * out, C) = Move(pack, C, r * size, r * extent)
  BY DEF Move
<1>4. Moves(pack, UNION {Move(pack, C, r * size, r * extent) : r \in 0 .. n - 1},
            Reps(map, n, size, extent))
  BY LoopMoves DEF C
<1>5. UNION {At(r * in, r * out, C) : r \in 0 .. n - 1}
        = UNION {Move(pack, C, r * size, r * extent) : r \in 0 .. n - 1}
  BY <1>3
<1>6. EmitContiguous(f, base, in, out, count, pack, n)
        = UNION {At(r * in, r * out, C) : r \in 0 .. n - 1}
  BY <1>2 DEF C
<1> QED
  BY <1>4, <1>5, <1>6

\* What a contiguous node means in terms of its basetype.
LEMMA ContiguousItems ==
    ASSUME NEW t \in Runnable, t.kind = "CONTIGUOUS"
    PROVE  /\ t.count \in Nat /\ t.base \in Runnable
           /\ t.count > 0 \/ t.base.kind = "PRIMITIVE"
           /\ Meaning[t].map = Items(t.base, t.count)
<1>1. t \in Regular /\ t \in Trees /\ Ready(t) /\ Children(t) \subseteq Runnable
  BY RunnableNode
<1>2. t.base \in Runnable /\ t.count \in Nat
  BY <1>1, ChildFacts, NodeFields
<1>3. Meaning[t] = Repeated(t.count, Meaning[t.base])
  BY <1>1, MeaningUnfold, MeaningOfKinds
<1>4. Layout(Meaning[t.base], t.base.size) /\ Span(Meaning[t.base]) = Extent(t.base)
  BY <1>2, RunnableNode, FitsSpan
<1>5. Meaning[t].map = Items(t.base, t.count)
  BY <1>2, <1>3, <1>4, RepeatedMap DEF Items
<1> QED
  BY <1>1, <1>2, <1>5 DEF Ready

\* The code of a contiguous type is right if that of its basetype is.
LEMMA ContiguousRuns ==
    ASSUME NEW pack \in BOOLEAN, NEW t \in Runnable, t.kind = "CONTIGUOUS",
           Runs(t.base, pack)
    PROVE  Runs(t, pack)
<1>1. /\ t.count \in Nat /\ t.base \in Runnable
      /\ t.count > 0 \/ t.base.kind = "PRIMITIVE"
      /\ Meaning[t].map = Items(t.base, t.count)
  BY ContiguousItems
<1>2. Moves(pack, Code[t.base][pack][t.count], Meaning[t].map)
  BY <1>1, BaseRuns
<1>3. Extent(t) \in Int /\ t.size \in Int /\ t \in Trees
  BY RunnableNode, FitsSpan
<1>4. ASSUME NEW n \in Nat \ {0}
      PROVE  Moves(pack, Code[t][pack][n], Items(t, n))
  <2>1. n \in Nat
    OBVIOUS
  <2>2. Code[t][pack][n] = Emit(Code, t, pack, n)
    BY <1>3, <2>1, CodeUnfold
  <2> DEFINE in == IF pack THEN Extent(t) ELSE t.size
             out == IF pack THEN t.size ELSE Extent(t)
  <2>3. Emit(Code, t, pack, n) = EmitContiguous(Code, t.base, in, out, t.count, pack, n)
    <3>1. CASE pack = TRUE
      BY <3>1, EmitOfContiguous
    <3>2. CASE pack = FALSE
      BY <3>2, EmitOfContiguous
    <3> QED
      BY <3>1, <3>2
  <2> HIDE DEF in, out
  <2>4. Moves(pack, EmitContiguous(Code, t.base, in, out, t.count, pack, n),
              Reps(Meaning[t].map, n, t.size, Extent(t)))
    BY <1>2, <1>3, ContiguousLoop DEF in, out
  <2> QED
    BY <2>2, <2>3, <2>4 DEF Items
<1> QED
  BY <1>4 DEF Runs

-----------------------------------------------------------------------------
(* Vectors.                                                                *)

\* What a vector means in terms of its basetype, by the strides the code uses.
LEMMA StridedItems ==
    ASSUME NEW v \in Runnable, v.kind \in {"VECTOR", "HVECTOR"}
    PROVE  /\ v.base \in Runnable /\ v.blocklen \in Nat \ {0} /\ v.count \in Nat \ {0}
           /\ PackedStride(v) \in Int /\ PackedStride(v) > 0 /\ MemoryStride(v) \in Int
           /\ v.size = v.count * PackedStride(v)
           /\ Meaning[v].map = Reps(Items(v.base, v.blocklen), v.count,
                                    PackedStride(v), MemoryStride(v))
<1> DEFINE b == v.base
           m == Meaning[b]
           step == IF v.kind = "VECTOR" THEN v.stride * Span(m) ELSE v.stride
<1>1. /\ v \in Regular /\ v \in Trees /\ AsBuilt(v) /\ Straight(v)
      /\ Children(v) \subseteq Runnable
  BY RunnableNode
<1>2. /\ b \in Runnable /\ v.count \in Nat \ {0} /\ v.blocklen \in Nat \ {0}
      /\ v.stride \in Int /\ b.size > 0
  BY <1>1, ChildFacts, NodeFields DEF Straight
<1>3. /\ Layout(m, b.size) /\ Span(m) = Extent(b) /\ Extent(b) \in Int /\ b.size \in Nat
  BY <1>2, RunnableNode, FitsSpan
<1>4. Meaning[v] = Strided(v.count, v.blocklen, step, m)
  BY <1>1, MeaningUnfold, MeaningOfKinds
<1>5. step = MemoryStride(v) /\ step \in Int
  BY <1>2, <1>3 DEF MemoryStride
<1>6. v.size = v.count * v.blocklen * b.size
  <2>1. CASE v.kind = "VECTOR"
    <3>1. v = Vector(v.count, v.blocklen, v.stride, b)
      BY <1>1, <2>1 DEF AsBuilt
    <3> QED
      BY <3>1 DEF Vector
  <2>2. CASE v.kind = "HVECTOR"
    <3>1. v = HVector(v.count, v.blocklen, v.stride, b)
      BY <1>1, <2>2 DEF AsBuilt
    <3> QED
      BY <3>1 DEF HVector
  <2> QED
    BY <2>1, <2>2
<1>7. /\ PackedStride(v) = v.blocklen * b.size /\ PackedStride(v) \in Int
      /\ PackedStride(v) > 0 /\ v.size = v.count * PackedStride(v)
  BY <1>2, <1>3, <1>6 DEF PackedStride
<1> HIDE DEF step, m
<1>8. Meaning[v].map
        = Reps(Reps(m.map, v.blocklen, b.size, Span(m)), v.count, v.blocklen * b.size, step)
  BY <1>2, <1>3, <1>4, <1>5, StridedMap
<1>9. Items(b, v.blocklen) = Reps(m.map, v.blocklen, b.size, Span(m))
  BY <1>3 DEF Items, m
<1> QED
  BY <1>2, <1>5, <1>7, <1>8, <1>9

\* The two loops of a vector.
LEMMA VectorUnfold ==
    ASSUME NEW f, NEW base, NEW len, NEW in, NEW out, NEW x, NEW y, NEW pack, NEW n
    PROVE  LET rounds == IF pack THEN Rounds(out, y) ELSE Rounds(in, x)
           IN  EmitVector(f, base, len, in, out, x, y, pack, n)
                 = IF Rounds(1, n) = 0 THEN Runaway
                   ELSE UNION {IF rounds = 0 THEN Runaway
                               ELSE UNION {At(r * x + j * in, r * y + j * out,
                                              f[base][pack][len]) : j \in 0 .. rounds - 1}
                               : r \in 0 .. Rounds(1, n) - 1}
  BY DEF EmitVector, Loop

\* The same, where both loops run.
LEMMA VectorLoops ==
    ASSUME NEW f, NEW base, NEW len, NEW in, NEW out, NEW x, NEW y, NEW pack,
           NEW n, n \in Nat, n > 0, NEW m, m \in Nat, m > 0,
           m = IF pack THEN Rounds(out, y) ELSE Rounds(in, x)
    PROVE  EmitVector(f, base, len, in, out, x, y, pack, n)
             = UNION {UNION {At(r * x + j * in, r * y + j * out, f[base][pack][len])
                             : j \in 0 .. m - 1} : r \in 0 .. n - 1}
<1>1. Rounds(1, n) = n
  BY RoundsExact
<1> QED
  BY <1>1, VectorUnfold

\* The loops of a vector inside a type of any extent.
LEMMA StridedCode ==
    ASSUME NEW pack \in BOOLEAN, NEW v \in Runnable, v.kind \in {"VECTOR", "HVECTOR"},
           Runs(v.base, pack), NEW extent \in Int, NEW n \in Nat \ {0}
    PROVE  Moves(pack, EmitStrided(Code, v, extent, pack, n),
                 Reps(Meaning[v].map, n, v.size, extent))
<1> DEFINE C == Code[v.base][pack][v.blocklen]
           P == PackedStride(v)
           M == MemoryStride(v)
<1>1. /\ v.base \in Runnable /\ v.blocklen \in Nat \ {0} /\ v.count \in Nat \ {0}
      /\ P \in Int /\ P > 0 /\ M \in Int /\ v.size = v.count * P
      /\ Meaning[v].map = Reps(Items(v.base, v.blocklen), v.count, P, M)
  BY StridedItems
<1>2. Moves(pack, C, Items(v.base, v.blocklen))
  BY <1>1, BaseRuns
<1>3. Rounds(P, v.size) = v.count /\ Rounds(1, n) = n
  <2>1. Rounds(1, n) = n
    BY RoundsExact
  <2> HIDE DEF P
  <2>2. Rounds(P, v.size) = v.count
    BY <1>1, RoundsExact
  <2> QED
    BY <2>1, <2>2
<1>4. v.size \in Int
  BY RunnableNode, FitsSpan
<1> HIDE DEF P, M
<1> DEFINE in  == IF pack THEN M ELSE P
           out == IF pack THEN P ELSE M
           x   == IF pack THEN extent ELSE v.size
           y   == IF pack THEN v.size ELSE extent
<1>5. EmitStrided(Code, v, extent, pack, n)
        = EmitVector(Code, v.base, v.blocklen, in, out, x, y, pack, n)
  <2>1. CASE pack = TRUE
    BY <2>1 DEF EmitStrided, P, M
  <2>2. CASE pack = FALSE
    BY <2>2 DEF EmitStrided, P, M
  <2> QED
    BY <2>1, <2>2
<1>6. /\ n \in Nat /\ n > 0 /\ v.count \in Nat /\ v.count > 0
      /\ v.count = IF pack THEN Rounds(out, y) ELSE Rounds(in, x)
  BY <1>1, <1>3
<1>7. \A r, j : At(r * x + j * in, r * y + j * out, C)
                  = Move(pack, C, r * v.size + j * P, r * extent + j * M)
  BY DEF Move
<1> HIDE DEF in, out, x, y
<1>8. EmitVector(Code, v.base, v.blocklen, in, out, x, y, pack, n)
        = UNION {UNION {At(r * x + j * in, r * y + j * out, Code[v.base][pack][v.blocklen])
                        : j \in 0 .. v.count - 1} : r \in 0 .. n - 1}
  BY <1>6, VectorLoops
<1>9. EmitVector(Code, v.base, v.blocklen, in, out, x, y, pack, n)
        = Nest(pack, C, v.count, P, M, n, v.size, extent)
  <2>1. EmitVector(Code, v.base, v.blocklen, in, out, x, y, pack, n)
          = UNION {UNION {At(r * x + j * in, r * y + j * out, C)
                          : j \in 0 .. v.count - 1} : r \in 0 .. n - 1}
    BY <1>8 DEF C
  <2> HIDE DEF C
  <2> QED
    BY <1>7, <2>1 DEF Nest
<1> DEFINE I == Items(v.base, v.blocklen)
<1> HIDE DEF C, I
<1>10. Moves(pack, Nest(pack, C, v.count, P, M, n, v.size, extent),
            Reps(Reps(I, v.count, P, M), n, v.size, extent))
  <2>1. Moves(pack, C, I) /\ v.count \in Nat /\ n \in Nat
    BY <1>1, <1>2 DEF I
  <2> QED
    BY <1>1, <1>4, <2>1, LoopsMove
<1>11. Meaning[v].map = Reps(I, v.count, P, M)
  BY <1>1 DEF I
<1> QED
  BY <1>5, <1>9, <1>10, <1>11

\* The code of a vector is right if that of its basetype is.
LEMMA StridedRuns ==
    ASSUME NEW pack \in BOOLEAN, NEW t \in Runnable, t.kind \in {"VECTOR", "HVECTOR"},
           Runs(t.base, pack)
    PROVE  Runs(t, pack)
<1>1. Extent(t) \in Int /\ t \in Trees
  BY RunnableNode, FitsSpan
<1>2. ASSUME NEW n \in Nat \ {0}
      PROVE  Moves(pack, Code[t][pack][n], Items(t, n))
  <2>1. n \in Nat
    OBVIOUS
  <2>2. Code[t][pack][n] = EmitStrided(Code, t, Extent(t), pack, n)
    BY <1>1, <2>1, CodeUnfold, EmitOfKinds
  <2>3. Moves(pack, EmitStrided(Code, t, Extent(t), pack, n), Items(t, n))
    BY <1>1, StridedCode DEF Items
  <2> QED
    BY <2>2, <2>3
<1> QED
  BY <1>2 DEF Runs

-----------------------------------------------------------------------------
(* Resized types.                                                          *)

\* The bytes of a resized type are those of its basetype.
LEMMA ResizedItems ==
    ASSUME NEW t \in Runnable, t.kind = "RESIZED"
    PROVE  /\ t.base \in Runnable /\ t \in Trees /\ t.base.kind \in ResizedKinds
           /\ t.size = t.base.size /\ t.size \in Nat /\ Extent(t) \in Int
           /\ Meaning[t].map = Meaning[t.base].map
<1>1. /\ t \in Regular /\ t \in Trees /\ AsBuilt(t) /\ Ready(t) /\ Fits(t)
      /\ Children(t) \subseteq Runnable
  BY RunnableNode
<1>2. t = Resized(t.base, t.lb, Extent(t))
  BY <1>1 DEF AsBuilt
<1>3. t.size = t.base.size
  BY <1>2 DEF Resized
<1>4. Meaning[t] = [map |-> Meaning[t.base].map, lb |-> t.lb, ub |-> t.ub]
  BY <1>1, MeaningUnfold, MeaningOfKinds
<1> QED
  BY <1>1, <1>3, <1>4, ChildFacts, FitsSpan DEF Ready

\* Elements with room around them: the code of both directions is the same,
\* and packs.
LEMMA ResizedPrimitiveRuns ==
    ASSUME NEW pack \in BOOLEAN, NEW t \in Runnable, t.kind = "RESIZED",
           t.base.kind = "PRIMITIVE", pack \/ Extent(t) = t.size
    PROVE  Runs(t, pack)
<1> DEFINE s == t.size
           e == Extent(t)
<1>1. /\ t.base \in Runnable /\ t \in Trees /\ t.base \in Trees
      /\ s = t.base.size /\ s \in Nat /\ e \in Int
      /\ Meaning[t].map = Meaning[t.base].map
  BY ResizedItems, RunnableNode
<1>2. Meaning[t].map = InPlace(s) /\ s > 0
  BY <1>1, PrimitiveFits DEF InPlace
<1>3. Moves(pack, Copy(0, 0, s), InPlace(s))
  BY <1>1, CopyMoves
<1>4. ASSUME NEW n \in Nat \ {0}
      PROVE  Moves(pack, Code[t][pack][n], Items(t, n))
  <2>1. n \in Nat /\ Rounds(1, n) = n
    BY RoundsExact
  <2>2. Code[t][pack][n] = EmitPrimitiveResized(s, e, n)
    BY <1>1, <2>1, CodeUnfold, EmitOfKinds, EmitResizedKinds
  <2> HIDE DEF s, e
  <2>3. EmitPrimitiveResized(s, e, n) = UNION {Copy(r * e, r * s, s) : r \in 0 .. n - 1}
    BY <2>1 DEF EmitPrimitiveResized, Loop
  <2>4. ASSUME NEW r \in 0 .. n - 1
        PROVE  Copy(r * e, r * s, s) = Move(pack, Copy(0, 0, s), r * s, r * e)
    <3> DEFINE p == r * s
               q == r * e
    <3>1. p \in Int /\ q \in Int
      BY <1>1
    <3>2. ~pack => p = q
      BY DEF e, s
    <3> HIDE DEF p, q
    <3> DEFINE c == [from |-> 0, to |-> 0, len |-> s]
    <3>3. Copy(q, p, s) = {[from |-> q, to |-> p, len |-> s]} /\ Copy(0, 0, s) = {c}
      BY <1>1, <1>2 DEF Copy
    <3>4. c.from = 0 /\ c.to = 0 /\ c.len = s
      OBVIOUS
    <3> HIDE DEF c
    <3>5. ASSUME NEW x \in Int, NEW y \in Int
          PROVE  At(x, y, {c}) = {[from |-> x, to |-> y, len |-> s]}
      <4>1. At(x, y, {c}) = {[from |-> c.from + x, to |-> c.to + y, len |-> c.len]}
        BY DEF At
      <4>2. c.from + x = x /\ c.to + y = y /\ c.len = s
        BY <3>4
      <4> QED
        BY <4>1, <4>2
    <3>6. At(q, p, {c}) = {[from |-> q, to |-> p, len |-> s]}
      BY <3>1, <3>5
    <3>7. Copy(q, p, s) = Move(pack, Copy(0, 0, s), p, q)
      BY <3>2, <3>3, <3>6 DEF Move
    <3> QED
      BY <3>7 DEF p, q
  <2>5. UNION {Copy(r * e, r * s, s) : r \in 0 .. n - 1}
          = UNION {Move(pack, Copy(0, 0, s), r * s, r * e) : r \in 0 .. n - 1}
    BY <2>4
  <2>6. Moves(pack, UNION {Move(pack, Copy(0, 0, s), r * s, r * e) : r \in 0 .. n - 1},
              Reps(InPlace(s), n, s, e))
    BY <1>1, <1>3, LoopMoves
  <2>7. Items(t, n) = Reps(InPlace(s), n, s, e)
    BY <1>2 DEF Items, s, e
  <2> QED
    BY <2>2, <2>3, <2>5, <2>6, <2>7
<1> QED
  BY <1>4 DEF Runs

\* A resized contiguous type: the unpack function is the pack function.
LEMMA ResizedContiguousRuns ==
    ASSUME NEW pack \in BOOLEAN, NEW t \in Runnable, t.kind = "RESIZED",
           NEW b, b = t.base, NEW p, p = b.base,
           b.kind = "CONTIGUOUS", Runs(p, TRUE),
           pack \/ (Extent(t) = t.size /\ p.kind = "PRIMITIVE")
    PROVE  Runs(t, pack)
<1> DEFINE k == b.count
           s == t.size
           e == Extent(t)
           map == Meaning[t].map
<1>1. b \in Runnable /\ t \in Trees /\ s \in Nat /\ e \in Int /\ map = Meaning[b].map
  BY ResizedItems
<1>2. /\ k \in Nat /\ p \in Runnable /\ (k > 0 \/ p.kind = "PRIMITIVE")
      /\ Meaning[b].map = Items(p, k) /\ p \in Trees
  BY <1>1, ContiguousItems, RunnableNode
<1>3. Runs(p, pack)
  <2>1. CASE pack = TRUE
    BY <2>1
  <2>2. CASE pack = FALSE
    BY <1>2, <2>2, PrimitiveRuns
  <2> QED
    BY <2>1, <2>2
<1>4. ASSUME pack = FALSE
      PROVE  Code[p][TRUE][k] = Code[p][FALSE][k]
  <2> HIDE DEF k
  <2>1. \A d \in BOOLEAN : Code[p][d][k] = Emit(Code, p, d, k)
    BY <1>2, CodeUnfold
  <2>2. \A d \in BOOLEAN : Emit(Code, p, d, k) = Copy(0, 0, k * p.size)
    BY <1>4, EmitOfKinds
  <2>3. \A d \in BOOLEAN : Code[p][d][k] = Copy(0, 0, k * p.size)
    BY <2>1, <2>2
  <2>4. TRUE \in BOOLEAN /\ FALSE \in BOOLEAN
    OBVIOUS
  <2> QED
    BY <2>3, <2>4
<1>5. ASSUME NEW n \in Nat \ {0}
      PROVE  Moves(pack, Code[t][pack][n], Items(t, n))
  <2>1. n \in Nat
    OBVIOUS
  <2> DEFINE in == IF pack THEN e ELSE s
             out == IF pack THEN s ELSE e
  <2>2. Code[t][pack][n] = EmitContiguous(Code, p, e, s, k, TRUE, n)
    <3>1. Code[t][pack][n] = Emit(Code, t, pack, n)
      BY <1>1, <2>1, CodeUnfold
    <3>2. Emit(Code, t, pack, n) = EmitResized(Code, t, pack, n)
      BY EmitOfKinds
    <3>3. EmitResized(Code, t, pack, n) = EmitContiguous(Code, p, e, s, k, TRUE, n)
      BY EmitResizedContiguous
    <3> QED
      BY <3>1, <3>2, <3>3
  <2>3. EmitContiguous(Code, p, e, s, k, TRUE, n) = EmitContiguous(Code, p, in, out, k, pack, n)
    <3>1. CASE pack = TRUE
      BY <3>1
    <3>2. CASE pack = FALSE
      <4>1. Code[p][TRUE][k] = Code[p][FALSE][k] /\ in = e /\ out = s
        BY <1>4, <3>2
      <4> HIDE DEF in, out, e, s, k
      <4>2. EmitContiguous(Code, p, e, s, k, TRUE, n) = EmitContiguous(Code, p, e, s, k, FALSE, n)
        BY <4>1 DEF EmitContiguous
      <4> QED
        BY <3>2, <4>1, <4>2
    <3> QED
      BY <3>1, <3>2
  <2>4. Moves(pack, Code[p][pack][k], map)
    <3> HIDE DEF k, map
    <3> QED
      BY <1>1, <1>2, <1>3, BaseRuns
  <2>5. /\ pack => in = e /\ out = s
        /\ ~pack => in = s /\ out = e
    OBVIOUS
  <2>6. Items(t, n) = Reps(map, n, s, e)
    BY DEF Items
  <2> HIDE DEF in, out, e, s, k, map
  <2>7. Moves(pack, EmitContiguous(Code, p, in, out, k, pack, n), Reps(map, n, s, e))
    <3>1. s \in Int /\ e \in Int
      BY <1>1
    <3> QED
      BY <2>4, <2>5, <3>1, ContiguousLoop
  <2> QED
    BY <2>2, <2>3, <2>6, <2>7
<1> QED
  BY <1>5 DEF Runs

\* A resized vector, by the code of the vector with another extent.
LEMMA ResizedStridedRuns ==
    ASSUME NEW pack \in BOOLEAN, NEW t \in Runnable, t.kind = "RESIZED",
           t.base.kind \in {"VECTOR", "HVECTOR"}, Runs(t.base.base, pack)
    PROVE  Runs(t, pack)
<1>1. /\ t.base \in Runnable /\ t \in Trees /\ t.size = t.base.size /\ Extent(t) \in Int
      /\ Meaning[t].map = Meaning[t.base].map
  BY ResizedItems
<1>2. ASSUME NEW n \in Nat \ {0}
      PROVE  Moves(pack, Code[t][pack][n], Items(t, n))
  <2>1. n \in Nat
    OBVIOUS
  <2>2. Code[t][pack][n] = EmitStrided(Code, t.base, Extent(t), pack, n)
    BY <1>1, <2>1, CodeUnfold, EmitOfKinds, EmitResizedKinds
  <2> DEFINE v == t.base
  <2>3. v \in Runnable /\ v.kind \in {"VECTOR", "HVECTOR"} /\ Runs(v.base, pack)
    BY <1>1
  <2> HIDE DEF v
  <2>4. Moves(pack, EmitStrided(Code, v, Extent(t), pack, n),
              Reps(Meaning[v].map, n, v.size, Extent(t)))
    BY <1>1, <2>3, StridedCode
  <2> QED
    BY <1>1, <2>2, <2>4 DEF Items, v
<1> QED
  BY <1>2 DEF Runs

-----------------------------------------------------------------------------
(* Indexed types and structs.                                              *)

\* The rounds of n items laid out by the sizes and displacements of the code.
BlockRounds(pack, copies, size, disp, m, n, step, span) ==
    UNION {BlockRound(pack, copies, size, disp, m, r * step, r * span) : r \in 0 .. n - 1}

\* Rounds over the blocks move the assembled items.
LEMMA AssembledMove ==
    ASSUME NEW pack \in BOOLEAN, NEW blocks, NEW msize, NEW m, NEW copies, NEW size, NEW disp,
           NEW n \in Nat, NEW step \in Int, NEW span \in Int,
           BlocksOf(blocks, msize, m),
           \A k \in 1 .. m : /\ Moves(pack, copies[k], BlockMap(blocks, msize)[k])
                             /\ size[k] = BlockSize(blocks, msize)[k]
                             /\ disp[k] = BlockDisp(blocks)[k]
    PROVE  Moves(pack, BlockRounds(pack, copies, size, disp, m, n, step, span),
                 Reps(Assemble(blocks).map, n, step, span))
<1> DEFINE M == BlockMap(blocks, msize)
           S == BlockSize(blocks, msize)
           D == BlockDisp(blocks)
<1>1. m \in Nat
  BY DEF BlocksOf
<1>2. \A k \in 1 .. m : size[k] \in Int /\ disp[k] \in Int /\ Moves(pack, copies[k], M[k])
  <2>1. \A k \in 1 .. m : S[k] \in Nat /\ D[k] \in Int
    <3> SUFFICES ASSUME NEW k \in 1 .. m
                 PROVE  S[k] \in Nat /\ D[k] \in Int
      OBVIOUS
    <3>1. D[k] \in Int /\ Lays(M[k], S[k])
      BY BlockFacts
    <3> QED
      BY <3>1, LaysPairs
  <2> HIDE DEF S, D, M
  <2> QED
    BY <2>1 DEF S, D, M
<1>3. Chain(M, size, disp, m) = Chain(M, S, D, m)
  <2>1. ASSUME NEW b \in 1 .. m
        PROVE  Total(size, b - 1) = Total(S, b - 1) /\ disp[b] = D[b]
    <3>1. b - 1 \in Nat /\ \A i \in 1 .. b - 1 : size[i] = S[i]
      BY <1>1
    <3> HIDE DEF S
    <3>2. Total(size, b - 1) = Total(S, b - 1)
      BY <3>1, TotalSame
    <3> QED
      BY <3>2
  <2> HIDE DEF S, D, M
  <2> QED
    BY <2>1 DEF Chain
<1>4. Assemble(blocks).map = Chain(M, S, D, m)
  BY AssembleMap
<1> HIDE DEF M, S, D
<1>5. Moves(pack, UNION {BlockRound(pack, copies, size, disp, m, r * step, r * span)
                         : r \in 0 .. n - 1},
            Reps(Chain(M, size, disp, m), n, step, span))
  BY <1>1, <1>2, BlocksMove
<1> QED
  BY <1>3, <1>4, <1>5 DEF BlockRounds

\* A transfer is the code of its basetype, shifted.
LEMMA TransferMoves ==
    ASSUME NEW f, NEW base, NEW pack \in BOOLEAN, NEW len, NEW compact, NEW scattered
    PROVE  Transfer(f, base, pack, len, compact, scattered)
             = Move(pack, f[base][pack][len], compact, scattered)
<1>1. CASE pack = TRUE
  BY <1>1 DEF Transfer, Move
<1>2. CASE pack = FALSE
  BY <1>2 DEF Transfer, Move
<1> QED
  BY <1>1, <1>2

\* What each block of the unrolled code advances by, where it lies and what it
\* copies.
Unrolled(f, pack, blocks, m, size, disp, copies) ==
    \A k \in 1 .. m : /\ size[k] = blocks[k].len * blocks[k].base.size
                      /\ disp[k] = blocks[k].disp
                      /\ copies[k] = f[blocks[k].base][pack][blocks[k].len]

\* The unrolled code.
LEMMA EmitBlocksRounds ==
    ASSUME NEW pack \in BOOLEAN, NEW f, NEW blocks, NEW m \in Nat,
           NEW size, NEW disp, NEW copies, NEW extent \in Int, NEW n \in Nat, NEW step,
           extent > 0, n > 0, step = Total(size, m), DOMAIN blocks = 1 .. m, Len(blocks) = m,
           Unrolled(f, pack, blocks, m, size, disp, copies)
    PROVE  EmitBlocks(f, blocks, extent, pack, n)
             = BlockRounds(pack, copies, size, disp, m, n, step, extent)
<1> DEFINE Z == [b \in DOMAIN blocks |-> blocks[b].len * blocks[b].base.size]
           Before(k) == Total(Z, k - 1)
           rounds == Rounds(extent, n * extent)
<1>1. EmitBlocks(f, blocks, extent, pack, n)
        = IF rounds = 0 THEN Runaway
          ELSE UNION {UNION {Transfer(f, blocks[k].base, pack, blocks[k].len,
                                      r * Before(Len(blocks) + 1) + Before(k),
                                      r * extent + blocks[k].disp) : k \in DOMAIN blocks}
                      : r \in 0 .. rounds - 1}
  BY DEF EmitBlocks, Loop
<1>2. rounds = n
  <2> DEFINE total == n * extent
  <2>1. total = n * extent
    OBVIOUS
  <2> HIDE DEF total
  <2>2. Rounds(extent, total) = n
    BY <2>1, RoundsExact
  <2> QED
    BY <2>2 DEF total
<1>3. \A k \in 1 .. m : Z[k] = size[k]
  BY DEF Unrolled
<1>4. \A k \in 1 .. m : Before(k) = Total(size, k - 1)
  <2> SUFFICES ASSUME NEW k \in 1 .. m
               PROVE  Total(Z, k - 1) = Total(size, k - 1)
    OBVIOUS
  <2>1. k - 1 \in Nat /\ \A i \in 1 .. k - 1 : Z[i] = size[i]
    BY <1>3
  <2> HIDE DEF Z
  <2> QED
    BY <2>1, TotalSame
<1>5. Before(Len(blocks) + 1) = step
  <2>1. (Len(blocks) + 1) - 1 = m
    OBVIOUS
  <2> HIDE DEF Z
  <2>2. Total(Z, m) = Total(size, m)
    BY <1>3, TotalSame
  <2> QED
    BY <2>1, <2>2
<1> HIDE DEF Before, rounds
<1>6. EmitBlocks(f, blocks, extent, pack, n)
        = UNION {UNION {Transfer(f, blocks[k].base, pack, blocks[k].len,
                                 r * step + Before(k),
                                 r * extent + blocks[k].disp) : k \in 1 .. m}
                 : r \in 0 .. n - 1}
  BY <1>1, <1>2, <1>5
<1>7. ASSUME NEW r, NEW k \in 1 .. m
      PROVE  Transfer(f, blocks[k].base, pack, blocks[k].len,
                      r * step + Before(k), r * extent + blocks[k].disp)
               = Move(pack, copies[k], r * step + Total(size, k - 1), r * extent + disp[k])
  <2>1. /\ Before(k) = Total(size, k - 1) /\ blocks[k].disp = disp[k]
        /\ copies[k] = f[blocks[k].base][pack][blocks[k].len]
    BY <1>4 DEF Unrolled
  <2> QED
    BY <2>1, TransferMoves
<1>8. EmitBlocks(f, blocks, extent, pack, n)
        = UNION {UNION {Move(pack, copies[k], r * step + Total(size, k - 1), r * extent + disp[k])
                        : k \in 1 .. m} : r \in 0 .. n - 1}
  <2> DEFINE F(r, k) == Transfer(f, blocks[k].base, pack, blocks[k].len,
                                 r * step + Before(k), r * extent + blocks[k].disp)
             G(r, k) == Move(pack, copies[k], r * step + Total(size, k - 1), r * extent + disp[k])
  <2>1. \A r \in 0 .. n - 1 : \A k \in 1 .. m : F(r, k) = G(r, k)
    BY <1>7
  <2>2. EmitBlocks(f, blocks, extent, pack, n)
          = UNION {UNION {F(r, k) : k \in 1 .. m} : r \in 0 .. n - 1}
    BY <1>6
  <2> HIDE DEF F, G
  <2>3. EmitBlocks(f, blocks, extent, pack, n)
          = UNION {UNION {G(r, k) : k \in 1 .. m} : r \in 0 .. n - 1}
    BY <2>1, <2>2
  <2> QED
    BY <2>3 DEF G
<1> QED
  BY <1>8 DEF BlockRounds, BlockRound

\* Block by block, what the code takes for a type is what the type means.
Mirrors(pack, blocks, mblocks, msize, k) ==
    /\ blocks[k].base \in Runnable /\ Runs(blocks[k].base, pack)
    /\ blocks[k].len > 0
    /\ blocks[k].disp = mblocks[k].disp
    /\ blocks[k].len = mblocks[k].len
    /\ mblocks[k].item = Meaning[blocks[k].base]
    /\ msize[k] = blocks[k].base.size

\* The unrolled code of blocks that lie as in the meaning of t.
LEMMA BlocksRun ==
    ASSUME NEW pack \in BOOLEAN, NEW t \in Runnable, NEW mblocks, NEW msize, NEW m,
           NEW blocks, NEW n \in Nat,
           n > 0, Extent(t) > 0, BlocksOf(mblocks, msize, m), Meaning[t] = Assemble(mblocks),
           DOMAIN blocks = 1 .. m, Len(blocks) = m,
           \A k \in 1 .. m : Mirrors(pack, blocks, mblocks, msize, k)
    PROVE  Moves(pack, EmitBlocks(Code, blocks, Extent(t), pack, n), Items(t, n))
<1> DEFINE size   == [k \in 1 .. m |-> blocks[k].len * blocks[k].base.size]
           disp   == [k \in 1 .. m |-> blocks[k].disp]
           copies == [k \in 1 .. m |-> Code[blocks[k].base][pack][blocks[k].len]]
           step   == Total(size, m)
           e      == Extent(t)
<1>1. m \in Nat /\ DOMAIN mblocks = 1 .. m
  BY DEF BlocksOf
<1>2. e \in Int /\ t.size \in Nat /\ Lays(Meaning[t].map, t.size)
  BY RunnableNode, FitsSpan DEF Fits, Layout
<1>3. \A k \in 1 .. m : /\ Moves(pack, copies[k], BlockMap(mblocks, msize)[k])
                        /\ size[k] = BlockSize(mblocks, msize)[k]
                        /\ disp[k] = BlockDisp(mblocks)[k]
  <2> SUFFICES ASSUME NEW k \in 1 .. m
               PROVE  /\ Moves(pack, Code[blocks[k].base][pack][blocks[k].len],
                               BlockMap(mblocks, msize)[k])
                      /\ blocks[k].len * blocks[k].base.size = BlockSize(mblocks, msize)[k]
                      /\ blocks[k].disp = BlockDisp(mblocks)[k]
    OBVIOUS
  <2> DEFINE b == blocks[k].base
             l == blocks[k].len
  <2>1. /\ b \in Runnable /\ Runs(b, pack) /\ l > 0 /\ l = mblocks[k].len
        /\ blocks[k].disp = mblocks[k].disp /\ mblocks[k].item = Meaning[b] /\ msize[k] = b.size
    BY DEF Mirrors
  <2>2. l \in Nat
    BY <2>1 DEF BlocksOf
  <2>3. BlockMap(mblocks, msize)[k] = Reps(Meaning[b].map, l, b.size, Span(Meaning[b]))
    BY <1>1, <2>1 DEF BlockMap
  <2>4. /\ BlockSize(mblocks, msize)[k] = l * b.size
        /\ BlockDisp(mblocks)[k] = blocks[k].disp
    BY <1>1, <2>1 DEF BlockSize, BlockDisp
  <2> HIDE DEF b, l
  <2>5. Span(Meaning[b]) = Extent(b)
    BY <2>1, RunnableNode, FitsSpan
  <2>6. Moves(pack, Code[b][pack][l], Items(b, l))
    BY <2>1, <2>2, BaseRuns
  <2>7. Moves(pack, Code[b][pack][l], BlockMap(mblocks, msize)[k])
    BY <2>3, <2>5, <2>6 DEF Items
  <2> QED
    BY <2>4, <2>7 DEF b, l
<1>4. Total(BlockSize(mblocks, msize), m) = t.size
  <2>1. Lays(Meaning[t].map, Total(BlockSize(mblocks, msize), m))
    BY BlocksLay
  <2> QED
    BY <1>2, <2>1, LaysBytes
<1>5. step = t.size
  <2> DEFINE S == BlockSize(mblocks, msize)
  <2>1. \A k \in 1 .. m : size[k] = S[k]
    BY <1>3
  <2> HIDE DEF size, S
  <2>2. Total(size, m) = Total(S, m)
    BY <1>1, <2>1, TotalSame
  <2> QED
    BY <1>4, <2>2 DEF S
<1>6. Unrolled(Code, pack, blocks, m, size, disp, copies)
  BY DEF Unrolled
<1> HIDE DEF size, disp, copies, e
<1>7. e > 0 /\ step = Total(size, m)
  BY DEF e
<1> HIDE DEF step
<1>8. EmitBlocks(Code, blocks, e, pack, n)
        = BlockRounds(pack, copies, size, disp, m, n, step, e)
  BY <1>1, <1>2, <1>6, <1>7, EmitBlocksRounds
<1>9. step \in Int
  BY <1>2, <1>5
<1>10. Moves(pack, BlockRounds(pack, copies, size, disp, m, n, step, e),
             Reps(Assemble(mblocks).map, n, step, e))
  BY <1>2, <1>3, <1>9, AssembledMove
<1> QED
  BY <1>5, <1>8, <1>10 DEF Items, e

\* The code of an hindexed type is right if that of its basetype is.
LEMMA HIndexedRuns ==
    ASSUME NEW pack \in BOOLEAN, NEW t \in Runnable, t.kind = "HINDEXED", Runs(t.base, pack)
    PROVE  Runs(t, pack)
<1> DEFINE b == t.base
           d == t.displs
           l == t.blocklens
           m == Len(d)
           mblocks == [i \in DOMAIN d |-> Block(d[i], l[i], Meaning[b])]
           msize   == Constant(m, b.size)
           blocks  == [k \in DOMAIN d |-> [disp |-> d[k], len |-> l[k], base |-> b]]
<1>1. /\ t \in Regular /\ t \in Trees /\ AsBuilt(t) /\ Straight(t)
      /\ Children(t) \subseteq Runnable
  BY RunnableNode
<1>2. b \in Runnable
  BY <1>1, ChildFacts
<1>3. /\ d \in Seq(Int) /\ l \in Seq(Nat) /\ Len(l) = Len(d) /\ Extent(t) > 0
      /\ \A i \in DOMAIN l : l[i] > 0
  BY <1>1, NodeFields DEF AsBuilt, Straight
<1>4. m \in Nat /\ DOMAIN d = 1 .. m /\ \A i \in 1 .. m : d[i] \in Int /\ l[i] \in Nat \ {0}
  BY <1>3
<1>5. Layout(Meaning[b], b.size)
  BY <1>2, RunnableNode DEF Fits
<1>6. Meaning[t] = Assemble(mblocks)
  BY <1>1, MeaningUnfold, MeaningOfKinds DEF HIndexedMeaning
<1>7. /\ DOMAIN mblocks = 1 .. m
      /\ \A k \in 1 .. m : /\ mblocks[k].disp = d[k] /\ mblocks[k].len = l[k]
                           /\ mblocks[k].item = Meaning[b] /\ msize[k] = b.size
  BY <1>4 DEF Block, Constant
<1>8. /\ DOMAIN blocks = 1 .. m /\ Len(blocks) = m
      /\ \A k \in 1 .. m : /\ blocks[k].disp = d[k] /\ blocks[k].len = l[k]
                           /\ blocks[k].base = b
  BY <1>4
<1>n. ASSUME NEW n \in Nat
      PROVE  Code[t][pack][n] = EmitBlocks(Code, blocks, Extent(t), pack, n)
  <2>1. Code[t][pack][n] = EmitHIndexed(Code, t, pack, n)
    BY <1>1, CodeUnfold, EmitOfKinds
  <2> QED
    BY <2>1 DEF EmitHIndexed
<1> HIDE DEF b, d, l, m, mblocks, msize, blocks
<1>9. BlocksOf(mblocks, msize, m)
  BY <1>4, <1>5, <1>7 DEF BlocksOf, Layout
<1>10. \A k \in 1 .. m : Mirrors(pack, blocks, mblocks, msize, k)
  BY <1>2, <1>4, <1>7, <1>8 DEF Mirrors, b
<1>11. ASSUME NEW n \in Nat, n > 0
       PROVE  Moves(pack, Code[t][pack][n], Items(t, n))
  BY <1>3, <1>6, <1>8, <1>9, <1>10, <1>11, <1>n, BlocksRun
<1> QED
  BY <1>11 DEF Runs

\* The code of a struct is right if those of its basetypes are.
LEMMA StructRuns ==
    ASSUME NEW pack \in BOOLEAN, NEW t \in Runnable, t.kind = "STRUCT",
           \A i \in DOMAIN t.bases : Runs(t.bases[i], pack)
    PROVE  Runs(t, pack)
<1> DEFINE bs == t.bases
           d == t.displs
           l == t.blocklens
           m == Len(d)
           mblocks == [i \in DOMAIN bs |-> Block(d[i], l[i], Meaning[bs[i]])]
           msize   == [i \in 1 .. m |-> bs[i].size]
           blocks  == [k \in DOMAIN bs |-> [disp |-> d[k], len |-> l[k], base |-> bs[k]]]
<1>1. /\ t \in Regular /\ t \in Trees /\ AsBuilt(t) /\ Straight(t)
      /\ Children(t) \subseteq Runnable
  BY RunnableNode
<1>2. \A i \in DOMAIN bs : bs[i] \in Runnable
  BY <1>1, ChildFacts
<1>3. /\ d \in Seq(Int) /\ l \in Seq(Nat) /\ bs \in Seq(Trees)
      /\ Len(l) = Len(d) /\ Len(bs) = Len(d) /\ Extent(t) > 0
      /\ \A i \in DOMAIN bs : l[i] > 0
  BY <1>1, NodeFields DEF AsBuilt, Straight
<1>4. /\ m \in Nat /\ DOMAIN d = 1 .. m /\ DOMAIN bs = 1 .. m
      /\ \A i \in 1 .. m : d[i] \in Int /\ l[i] \in Nat /\ l[i] > 0
  <2>1. m \in Nat /\ DOMAIN d = 1 .. m /\ DOMAIN bs = 1 .. m /\ DOMAIN l = 1 .. m
    BY <1>3
  <2>2. \A i \in 1 .. m : d[i] \in Int /\ l[i] \in Nat
    BY <1>3, <2>1
  <2>3. \A i \in 1 .. m : l[i] > 0
    BY <1>3, <2>1
  <2> QED
    BY <2>1, <2>2, <2>3
<1>5. \A i \in 1 .. m : bs[i] \in Runnable /\ Runs(bs[i], pack)
                        /\ Layout(Meaning[bs[i]], bs[i].size)
  BY <1>2, <1>4, RunnableNode DEF Fits
<1>6. Meaning[t] = Assemble(mblocks)
  BY <1>1, MeaningUnfold, MeaningOfKinds DEF StructMeaning
<1>7. /\ DOMAIN mblocks = 1 .. m
      /\ \A k \in 1 .. m : /\ mblocks[k].disp = d[k] /\ mblocks[k].len = l[k]
                           /\ mblocks[k].item = Meaning[bs[k]] /\ msize[k] = bs[k].size
  BY <1>4 DEF Block
<1>8. /\ DOMAIN blocks = 1 .. m /\ Len(blocks) = m
      /\ \A k \in 1 .. m : /\ blocks[k].disp = d[k] /\ blocks[k].len = l[k]
                           /\ blocks[k].base = bs[k]
  BY <1>4
<1>n. ASSUME NEW n \in Nat
      PROVE  Code[t][pack][n] = EmitBlocks(Code, blocks, Extent(t), pack, n)
  <2>1. Code[t][pack][n] = EmitStruct(Code, t, pack, n)
    BY <1>1, CodeUnfold, EmitOfKinds
  <2> QED
    BY <2>1 DEF EmitStruct
<1> HIDE DEF bs, d, l, m, mblocks, msize, blocks
<1>9. BlocksOf(mblocks, msize, m)
  <2>1. \A i \in 1 .. m : /\ mblocks[i].disp \in Int /\ mblocks[i].len \in Nat
                           /\ Layout(mblocks[i].item, msize[i])
    BY <1>4, <1>5, <1>7
  <2> QED
    BY <1>4, <1>7, <2>1 DEF BlocksOf, Layout
<1>10. \A k \in 1 .. m : Mirrors(pack, blocks, mblocks, msize, k)
  <2> SUFFICES ASSUME NEW k \in 1 .. m PROVE Mirrors(pack, blocks, mblocks, msize, k)
    OBVIOUS
  <2>1. /\ bs[k] \in Runnable /\ Runs(bs[k], pack) /\ l[k] > 0
        /\ blocks[k].base = bs[k] /\ blocks[k].disp = d[k] /\ blocks[k].len = l[k]
        /\ mblocks[k].disp = d[k] /\ mblocks[k].len = l[k]
        /\ mblocks[k].item = Meaning[bs[k]] /\ msize[k] = bs[k].size
    BY <1>4, <1>5, <1>7, <1>8
  <2> QED
    BY <2>1 DEF Mirrors
<1>11. ASSUME NEW n \in Nat, n > 0
       PROVE  Moves(pack, Code[t][pack][n], Items(t, n))
  BY <1>3, <1>6, <1>8, <1>9, <1>10, <1>11, <1>n, BlocksRun
<1> QED
  BY <1>11 DEF Runs

\* The elements at the displacements d.
ElementBlocks(d, m) == [i \in DOMAIN d |-> Block(d[i] * Span(m), 1, m)]

\* An indexed block in scope: its elements and where they lie.
LEMMA IndexedBlockItems ==
    ASSUME NEW t \in Runnable, t.kind = "INDEXEDBLOCK",
           NEW b, NEW d, NEW m, NEW mblocks, NEW msize,
           b = t.base, d = t.displs, m = Len(d),
           mblocks = ElementBlocks(d, Meaning[b]),
           msize = Constant(m, b.size)
    PROVE  /\ b \in Runnable /\ t.blocklen = 1 /\ t.count = m /\ t.size = b.size * m
           /\ m \in Nat \ {0} /\ DOMAIN d = 1 .. m /\ \A k \in 1 .. m : d[k] \in Nat
           /\ Extent(b) = b.size /\ b.size \in Nat \ {0} /\ Extent(t) > 0
           /\ BlocksOf(mblocks, msize, m) /\ Meaning[t] = Assemble(mblocks)
           /\ \A k \in 1 .. m : /\ mblocks[k].disp = d[k] * b.size /\ mblocks[k].len = 1
                                /\ mblocks[k].item = Meaning[b] /\ msize[k] = b.size
<1>1. /\ t \in Regular /\ t \in Trees /\ AsBuilt(t) /\ Straight(t)
      /\ Children(t) \subseteq Runnable
  BY RunnableNode
<1>2. b \in Runnable
  BY <1>1, ChildFacts
<1>3. /\ Fits(b) /\ Layout(Meaning[b], b.size) /\ Span(Meaning[b]) = Extent(b)
      /\ b.size \in Nat
  BY <1>2, RunnableNode, FitsSpan
<1>4. /\ d \in Seq(Int) /\ t.blocklen = 1 /\ t = IndexedBlock(1, d, b)
      /\ b.size > 0 /\ Extent(b) = b.size
      /\ \A i \in DOMAIN d : d[i] >= 0
      /\ \E i \in DOMAIN d : d[i] = 0
  BY <1>1, NodeFields DEF AsBuilt, Straight, Dense
<1>5. m \in Nat \ {0} /\ DOMAIN d = 1 .. m /\ \A k \in 1 .. m : d[k] \in Nat
  BY <1>4
<1>6. t.count = m /\ t.size = b.size * m
  <2>1. IndexedBlock(1, d, b).count = m /\ IndexedBlock(1, d, b).size = b.size * m
    BY DEF IndexedBlock
  <2> QED
    BY <1>4, <2>1
<1>7. Meaning[t] = Assemble(mblocks)
  <2>1. Meaning[t] = IndexedMeaning(t, Meaning[b])
    BY <1>1, MeaningUnfold, MeaningOfKinds
  <2>2. IndexedMeaning(t, Meaning[b]) = Assemble(ElementBlocks(d, Meaning[b]))
    BY <1>4 DEF IndexedMeaning, ElementBlocks
  <2> QED
    BY <2>1, <2>2
<1>8. /\ DOMAIN mblocks = 1 .. m
      /\ \A k \in 1 .. m : /\ mblocks[k].disp = d[k] * b.size /\ mblocks[k].len = 1
                           /\ mblocks[k].item = Meaning[b] /\ msize[k] = b.size
  BY <1>3, <1>4, <1>5 DEF Block, Constant, ElementBlocks
<1>9. BlocksOf(mblocks, msize, m)
  <2>1. \A k \in 1 .. m : d[k] * b.size \in Int
    BY <1>3, <1>5
  <2>2. \A k \in 1 .. m : /\ mblocks[k].disp \in Int /\ mblocks[k].len \in Nat
                          /\ Layout(mblocks[k].item, msize[k])
    BY <1>3, <1>8, <2>1
  <2> QED
    BY <1>5, <1>8, <2>2 DEF BlocksOf, Layout
<1>10. Extent(t) > 0
  BY <1>1, <1>3, IndexedBlockFits
<1>11. b.size \in Nat \ {0} /\ Extent(b) = b.size /\ t.blocklen = 1
  BY <1>3, <1>4
<1> QED
  BY <1>2, <1>5, <1>6, <1>7, <1>8, <1>9, <1>10, <1>11

\* What each round of the loop over the table copies, and where.
Tabled(f, pack, b, d, e, m, disp, copies) ==
    \A k \in 1 .. m : disp[k] = d[k] * e /\ copies[k] = f[b][pack][1]

\* The loop over the table of displacements.
LEMMA IndexedLoopRounds ==
    ASSUME NEW pack \in BOOLEAN, NEW f, NEW t, NEW b, NEW d, NEW m \in Nat, NEW e \in Nat,
           NEW size, NEW disp, NEW copies, NEW n \in Nat,
           t.base = b, t.displs = d, t.blocklen = 1, t.count = m, t.size = e * m,
           DOMAIN d = 1 .. m, Extent(b) = e, e > 0, m > 0, n > 0,
           ~OpensBlocks(b, 1), \A k \in 1 .. m : d[k] \in Nat,
           size = Constant(m, e),
           Tabled(f, pack, b, d, e, m, disp, copies)
    PROVE  EmitIndexedLoop(f, t, pack, n)
             = BlockRounds(pack, copies, size, disp, m, n, t.size, Extent(t))
<1> DEFINE step == 1 * e
           wild == \E i \in DOMAIN d : d[i] * e < 0
           rounds == Rounds(m * step, n * t.size)
<1>1. EmitIndexedLoop(f, t, pack, n)
        = IF OpensBlocks(b, 1) \/ wild THEN Runaway
          ELSE IF rounds = 0 THEN Runaway
          ELSE UNION {UNION {Transfer(f, b, pack, 1, (r * m + k - 1) * step,
                                      r * Extent(t) + d[k] * e) : k \in DOMAIN d}
                      : r \in 0 .. rounds - 1}
  BY DEF EmitIndexedLoop, Loop
<1>2. ~wild
  <2>1. ASSUME NEW x \in Nat
        PROVE  ~(x * e < 0)
    BY SMTT(30)
  <2>2. \A i \in DOMAIN d : d[i] \in Nat
    OBVIOUS
  <2>3. \A i \in DOMAIN d : ~(d[i] * e < 0)
    BY <2>1, <2>2
  <2> QED
    BY <2>3
<1>3. rounds = n
  <2> DEFINE s == m * step
             total == n * t.size
  <2>1. s = e * m /\ s = t.size /\ total = n * s
    OBVIOUS
  <2>2. s \in Int /\ s > 0
    BY <2>1, SMTT(30)
  <2> HIDE DEF s, total
  <2>3. Rounds(s, total) = n
    BY <2>1, <2>2, RoundsExact
  <2> QED
    BY <2>3 DEF s, total
<1> HIDE DEF wild, rounds
<1>4. EmitIndexedLoop(f, t, pack, n)
        = UNION {UNION {Transfer(f, b, pack, 1, (r * m + k - 1) * step,
                                 r * Extent(t) + d[k] * e) : k \in 1 .. m}
                 : r \in 0 .. n - 1}
  BY <1>1, <1>2, <1>3
<1>5. ASSUME NEW r \in 0 .. n - 1, NEW k \in 1 .. m
      PROVE  Transfer(f, b, pack, 1, (r * m + k - 1) * step, r * Extent(t) + d[k] * e)
               = Move(pack, copies[k], r * t.size + Total(size, k - 1), r * Extent(t) + disp[k])
  <2>1. Total(size, k - 1) = (k - 1) * e
    <3>1. k - 1 \in Nat /\ \A i \in 1 .. k - 1 : size[i] = e
      BY DEF Constant
    <3> QED
      BY <3>1, TotalConstant
  <2>2. (r * m + k - 1) * step = r * t.size + (k - 1) * e
    <3> DEFINE x == r * m
    <3>1. r * (e * m) = x * e /\ x \in Nat
      BY SMTT(30)
    <3>2. (x + k - 1) * step = x * e + (k - 1) * e
      <4> HIDE DEF x
      <4> QED
        BY <3>1, SMTT(30)
    <3> QED
      BY <3>1, <3>2
  <2> HIDE DEF step
  <2> QED
    BY <2>1, <2>2, TransferMoves DEF Tabled
<1> HIDE DEF step
<1>6. EmitIndexedLoop(f, t, pack, n)
        = UNION {UNION {Move(pack, copies[k], r * t.size + Total(size, k - 1),
                             r * Extent(t) + disp[k]) : k \in 1 .. m}
                 : r \in 0 .. n - 1}
  <2> DEFINE F(r, k) == Transfer(f, b, pack, 1, (r * m + k - 1) * step,
                                 r * Extent(t) + d[k] * e)
             G(r, k) == Move(pack, copies[k], r * t.size + Total(size, k - 1),
                             r * Extent(t) + disp[k])
  <2>1. \A r \in 0 .. n - 1 : \A k \in 1 .. m : F(r, k) = G(r, k)
    BY <1>5
  <2>2. EmitIndexedLoop(f, t, pack, n)
          = UNION {UNION {F(r, k) : k \in 1 .. m} : r \in 0 .. n - 1}
    BY <1>4
  <2> HIDE DEF F, G
  <2>3. EmitIndexedLoop(f, t, pack, n)
          = UNION {UNION {G(r, k) : k \in 1 .. m} : r \in 0 .. n - 1}
    BY <2>1, <2>2
  <2> QED
    BY <2>3 DEF G
<1> QED
  BY <1>6 DEF BlockRounds, BlockRound

\* The code of an indexed block, unrolled or looped, is right if that of
\* its basetype is.
LEMMA IndexedBlockRuns ==
    ASSUME NEW pack \in BOOLEAN, NEW t \in Runnable, t.kind = "INDEXEDBLOCK",
           Runs(t.base, pack)
    PROVE  Runs(t, pack)
<1> DEFINE b == t.base
           d == t.displs
           m == Len(d)
           mblocks == ElementBlocks(d, Meaning[b])
           msize   == Constant(m, b.size)
           blocks  == [k \in DOMAIN d |->
                          [disp |-> d[k] * b.size, len |-> t.blocklen, base |-> b]]
           disp    == [k \in 1 .. m |-> d[k] * b.size]
           copies  == [k \in 1 .. m |-> Code[b][pack][1]]
<1>1. /\ b \in Runnable /\ t.blocklen = 1 /\ t.count = m /\ t.size = b.size * m
      /\ m \in Nat \ {0} /\ DOMAIN d = 1 .. m /\ \A k \in 1 .. m : d[k] \in Nat
      /\ Extent(b) = b.size /\ b.size \in Nat \ {0} /\ Extent(t) > 0
      /\ BlocksOf(mblocks, msize, m) /\ Meaning[t] = Assemble(mblocks)
      /\ \A k \in 1 .. m : /\ mblocks[k].disp = d[k] * b.size /\ mblocks[k].len = 1
                           /\ mblocks[k].item = Meaning[b] /\ msize[k] = b.size
  <2> HIDE DEF b, d, m, mblocks, msize
  <2>1. /\ b = t.base /\ d = t.displs /\ m = Len(d)
        /\ mblocks = ElementBlocks(d, Meaning[b])
        /\ msize = Constant(m, b.size)
    BY DEF b, d, m, mblocks, msize
  <2> QED
    BY <2>1, IndexedBlockItems
<1>2. t \in Trees /\ Extent(t) \in Int /\ t.size \in Int /\ Ready(t)
  BY RunnableNode, FitsSpan
<1>3. Code[b][pack][1] = Code[b][pack][1] /\ Moves(pack, Code[b][pack][1], Items(b, 1))
  <2>1. 1 \in Nat /\ 1 > 0
    OBVIOUS
  <2> QED
    BY <2>1, BaseRuns
<1>4. ASSUME NEW n \in Nat, n > 0
      PROVE  Moves(pack, Code[t][pack][n], Items(t, n))
  <2>1. Code[t][pack][n] = IF t.count > IDXB_LOOP_TRESHOLD
                           THEN EmitIndexedLoop(Code, t, pack, n)
                           ELSE EmitBlocks(Code, blocks, Extent(t), pack, n)
    <3>1. Code[t][pack][n] = EmitIndexedBlock(Code, t, pack, n)
      BY <1>2, CodeUnfold, EmitOfKinds
    <3> QED
      BY <3>1 DEF EmitIndexedBlock
  <2>2. CASE ~(t.count > IDXB_LOOP_TRESHOLD)
    <3>1. /\ DOMAIN blocks = 1 .. m /\ Len(blocks) = m
          /\ \A k \in 1 .. m : /\ blocks[k].disp = d[k] * b.size /\ blocks[k].len = 1
                               /\ blocks[k].base = b
      BY <1>1
    <3>2. Runs(b, pack)
      OBVIOUS
    <3> HIDE DEF b, d, m, mblocks, msize, blocks
    <3>3. \A k \in 1 .. m : Mirrors(pack, blocks, mblocks, msize, k)
      BY <1>1, <3>1, <3>2 DEF Mirrors
    <3>4. Moves(pack, EmitBlocks(Code, blocks, Extent(t), pack, n), Items(t, n))
      BY <1>1, <1>4, <3>1, <3>3, BlocksRun
    <3> QED
      BY <2>1, <2>2, <3>4
  <2>3. CASE t.count > IDXB_LOOP_TRESHOLD
    <3> DEFINE size == Constant(m, b.size)
               e == b.size
    <3>1. ~OpensBlocks(b, 1)
      BY <1>1, <1>2, <2>3 DEF Ready
    <3>2. Tabled(Code, pack, b, d, e, m, disp, copies)
      BY DEF Tabled
    <3>3. t.base = b /\ t.displs = d /\ size = Constant(m, e) /\ e \in Nat /\ e > 0 /\ e = b.size
      BY <1>1
    <3>4. \A k \in 1 .. m : /\ Moves(pack, copies[k], BlockMap(mblocks, msize)[k])
                            /\ size[k] = BlockSize(mblocks, msize)[k]
                            /\ disp[k] = BlockDisp(mblocks)[k]
      <4> SUFFICES ASSUME NEW k \in 1 .. m
                   PROVE  /\ Moves(pack, Code[b][pack][1], BlockMap(mblocks, msize)[k])
                          /\ b.size = BlockSize(mblocks, msize)[k]
                          /\ d[k] * b.size = BlockDisp(mblocks)[k]
        BY DEF Constant
      <4>1. DOMAIN mblocks = 1 .. m
        BY <1>1 DEF BlocksOf
      <4> HIDE DEF b, d, m, mblocks, msize
      <4>2. /\ BlockMap(mblocks, msize)[k] = Reps(Meaning[b].map, 1, b.size, Span(Meaning[b]))
            /\ BlockSize(mblocks, msize)[k] = 1 * b.size
            /\ BlockDisp(mblocks)[k] = d[k] * b.size
        BY <1>1, <4>1 DEF BlockMap, BlockSize, BlockDisp
      <4>3. Span(Meaning[b]) = Extent(b)
        BY <1>1, RunnableNode, FitsSpan
      <4> QED
        BY <1>1, <1>3, <4>2, <4>3 DEF Items
    <3> HIDE DEF b, d, m, e, mblocks, msize, size, disp, copies
    <3>5. /\ m \in Nat /\ m > 0 /\ t.size = e * m /\ Extent(b) = e
          /\ DOMAIN d = 1 .. m /\ \A k \in 1 .. m : d[k] \in Nat
      BY <1>1, <3>3
    <3>6. EmitIndexedLoop(Code, t, pack, n)
            = BlockRounds(pack, copies, size, disp, m, n, t.size, Extent(t))
      BY <1>1, <1>4, <3>1, <3>2, <3>3, <3>5, IndexedLoopRounds
    <3>7. Moves(pack, BlockRounds(pack, copies, size, disp, m, n, t.size, Extent(t)),
                Reps(Assemble(mblocks).map, n, t.size, Extent(t)))
      BY <1>1, <1>2, <3>4, AssembledMove
    <3> QED
      BY <1>1, <2>1, <2>3, <3>6, <3>7 DEF Items
  <2> QED
    BY <2>2, <2>3
<1> QED
  BY <1>4 DEF Runs

-----------------------------------------------------------------------------
(* All the kinds.                                                          *)

\* The pack function of every runnable tree, and the unpack function of every
\* restorable one, moves the bytes of the type map.
THEOREM RunnableRuns ==
    \A t \in Runnable : \A pack \in BOOLEAN : pack \/ Restorable[t] => Runs(t, pack)
<1> DEFINE S == {t \in Trees : t \in Runnable =>
                    \A pack \in BOOLEAN : pack \/ Restorable[t] => Runs(t, pack)}
<1>1. ASSUME NEW t \in Trees, \A c \in Trees : Height(c) < Height(t) => c \in S
      PROVE  t \in S
  <2> SUFFICES ASSUME t \in Runnable, NEW pack \in BOOLEAN, pack \/ Restorable[t]
               PROVE  Runs(t, pack)
    OBVIOUS
  <2>1. ASSUME NEW c \in Trees, Height(c) < Height(t), c \in Runnable,
               NEW p \in BOOLEAN, p \/ Restorable[c]
        PROVE  Runs(c, p)
    BY <1>1, <2>1
  <2>2. \A c \in Children(t) :
           /\ c \in Trees /\ Height(c) < Height(t) /\ c \in Runnable
           /\ pack \/ Restorable[c]
    BY RunnableNode, ChildrenBelow, RestorableNode
  <2>3. \A c \in Children(t) : Runs(c, pack)
    BY <2>1, <2>2
  <2>4. t.kind \notin {"PRIMITIVE", "STRUCT"} => t.base \in Children(t) /\ Runs(t.base, pack)
    BY <2>3, ChildFacts
  <2>5. t.kind \in {"PRIMITIVE", "CONTIGUOUS", "VECTOR", "HVECTOR",
                    "INDEXEDBLOCK", "HINDEXED", "STRUCT", "RESIZED"}
    BY NodeFields
  <2>6. CASE t.kind = "PRIMITIVE"
    BY <2>6, PrimitiveRuns
  <2>7. CASE t.kind = "CONTIGUOUS"
    BY <2>4, <2>7, ContiguousRuns
  <2>8. CASE t.kind \in {"VECTOR", "HVECTOR"}
    BY <2>4, <2>8, StridedRuns
  <2>9. CASE t.kind = "INDEXEDBLOCK"
    BY <2>4, <2>9, IndexedBlockRuns
  <2>10. CASE t.kind = "HINDEXED"
    BY <2>4, <2>10, HIndexedRuns
  <2>11. CASE t.kind = "STRUCT"
    BY <2>3, <2>11, ChildFacts, StructRuns
  <2>12. CASE t.kind = "RESIZED"
    <3> DEFINE b == t.base
    <3>1. /\ b \in Runnable /\ b.kind \in ResizedKinds /\ Height(b) < Height(t) /\ b \in Trees
          /\ pack \/ Restorable[b]
      BY <2>2, <2>4, <2>12, ResizedItems
    <3>2. ~pack => /\ b.kind \in {"PRIMITIVE", "CONTIGUOUS"} => Extent(t) = t.size
                   /\ b.kind = "CONTIGUOUS" => b.base.kind = "PRIMITIVE"
      BY <2>12, RestorableNode
    <3> HIDE DEF b
    <3>3. ASSUME b.kind # "PRIMITIVE"
          PROVE  /\ b.base \in Trees /\ Height(b.base) < Height(t) /\ b.base \in Runnable
                 /\ pack \/ Restorable[b.base]
      <4>1. b.base \in Children(b)
        BY <3>1, <3>3, ChildFacts DEF ResizedKinds
      <4>2. b.base \in Trees /\ Height(b.base) < Height(b) /\ b.base \in Runnable
        BY <3>1, <4>1, ChildrenBelow, RunnableNode
      <4>3. pack \/ Restorable[b.base]
        BY <3>1, <4>1, RestorableNode
      <4> QED
        BY <3>1, <4>2, <4>3, HeightNat
    <3>4. CASE b.kind = "PRIMITIVE"
      BY <2>12, <3>2, <3>4, ResizedPrimitiveRuns DEF b
    <3>5. CASE b.kind = "CONTIGUOUS"
      <4> DEFINE e == b.base
      <4>1. \A p \in BOOLEAN : p => Runs(e, p)
        BY <2>1, <3>3, <3>5
      <4>2. Runs(e, TRUE) /\ (pack \/ (Extent(t) = t.size /\ e.kind = "PRIMITIVE"))
        BY <3>2, <3>5, <4>1
      <4>3. b = t.base /\ e = b.base
        BY DEF b
      <4> HIDE DEF e
      <4> QED
        BY <2>12, <3>5, <4>2, <4>3, ResizedContiguousRuns
    <3>6. CASE b.kind \in {"VECTOR", "HVECTOR"}
      <4>1. Runs(b.base, pack)
        BY <2>1, <3>3, <3>6
      <4> QED
        BY <2>12, <3>6, <4>1, ResizedStridedRuns DEF b
    <3> QED
      BY <3>1, <3>4, <3>5, <3>6 DEF ResizedKinds
  <2> QED
    BY <2>5, <2>6, <2>7, <2>8, <2>9, <2>10, <2>11, <2>12
<1>2. Trees \subseteq S
  <2>1. CodeRec!Ranked
    BY HeightNat DEF CodeRec!Ranked
  <2> HIDE DEF S
  <2> QED
    BY <1>1, <2>1, CodeRec!RankInduction
<1>3. Runnable \subseteq Trees
  BY RunnableNode
<1> QED
  BY <1>2, <1>3

-----------------------------------------------------------------------------
(* The datatypes in scope.                                                 *)

\* InScope is a recursion on the height of the tree.
ScopeRec == INSTANCE RankRecursion WITH Domain <- Trees, Rank <- Height, Def <- InScopeOf

\* InScope satisfies its defining equation.
LEMMA InScopeUnfold ==
    ASSUME NEW t \in Trees
    PROVE  InScope[t] = InScopeOf(InScope, t)
<1>1. ScopeRec!Ranked
  BY HeightNat DEF ScopeRec!Ranked
<1>2. ScopeRec!Grounded
  <2> SUFFICES ASSUME NEW f, NEW g, NEW s \in Trees,
                      \A c \in Trees : Height(c) < Height(s) => f[c] = g[c]
               PROVE  InScopeOf(f, s) = InScopeOf(g, s)
    BY DEF ScopeRec!Grounded
  <2>1. \A c \in Children(s) : f[c] = g[c]
    BY ChildrenBelow
  <2>2. s.kind \notin {"PRIMITIVE", "STRUCT"} => f[s.base] = g[s.base]
    BY <2>1, ChildFacts
  <2>3. s.kind = "STRUCT" => \A i \in DOMAIN s.bases : f[s.bases[i]] = g[s.bases[i]]
    BY <2>1, ChildFacts
  <2>4. InScopeOf(f, s) <=> InScopeOf(g, s)
    BY <2>2, <2>3 DEF InScopeOf
  <2>5. InScopeOf(f, s) \in BOOLEAN /\ InScopeOf(g, s) \in BOOLEAN
    BY DEF InScopeOf
  <2> QED
    BY <2>4, <2>5
<1>3. \E f : f = [s \in Trees |-> InScopeOf(f, s)]
  BY <1>1, <1>2, ScopeRec!RecursionExists
<1>4. InScope = [s \in Trees |-> InScopeOf(InScope, s)]
  BY <1>3 DEF InScope
<1> QED
  BY <1>4

\* The basetypes of a datatype in scope are in scope, and hold data.
LEMMA ScopeNode ==
    ASSUME NEW t \in Trees, InScope[t]
    PROVE  /\ InScopeOf(InScope, t)
           /\ \A c \in Children(t) : InScope[c]
           /\ t.kind \notin {"PRIMITIVE", "CONTIGUOUS"} => \A c \in Children(t) : c.size > 0
<1>1. InScopeOf(InScope, t)
  BY InScopeUnfold
<1>2. ASSUME NEW c \in Children(t)
      PROVE  InScope[c] /\ (t.kind \notin {"PRIMITIVE", "CONTIGUOUS"} => c.size > 0)
  <2>1. t.kind \in {"PRIMITIVE", "CONTIGUOUS", "VECTOR", "HVECTOR",
                    "INDEXEDBLOCK", "HINDEXED", "STRUCT", "RESIZED"}
    BY NodeFields
  <2>2. CASE t.kind = "PRIMITIVE"
    BY <2>2 DEF Children
  <2>3. CASE t.kind = "STRUCT"
    BY <1>1, <2>3 DEF Children, InScopeOf
  <2>4. CASE t.kind \notin {"PRIMITIVE", "STRUCT"}
    <3>1. c = t.base
      BY <2>4 DEF Children
    <3> QED
      BY <1>1, <2>1, <2>4, <3>1 DEF InScopeOf
  <2> QED
    BY <2>2, <2>3, <2>4
<1> QED
  BY <1>1, <1>2

\* What is left of each kind by compression.
LEMMA CompressKinds ==
    ASSUME NEW t \in Trees
    PROVE  /\ t.kind = "PRIMITIVE" => Compress[t] = t
           /\ t.kind \in {"CONTIGUOUS", "VECTOR", "HVECTOR"} =>
                 Compress[t].kind \in {"CONTIGUOUS", "VECTOR", "HVECTOR"}
           /\ t.kind \in {"INDEXEDBLOCK", "HINDEXED", "STRUCT", "RESIZED"} =>
                 Compress[t].kind = t.kind
<1> DEFINE c == Compress[t]
           cb == Compress[t.base]
<1>1. c = CompressOf(Compress, t)
  BY CompressUnfold
<1>2. CompressContiguous(t, cb).kind = "CONTIGUOUS"
  BY DEF CompressContiguous, Contiguous
<1>3. CompressVector(t, cb).kind \in {"CONTIGUOUS", "VECTOR"}
  BY DEF CompressVector, Contiguous, Vector
<1>4. CompressHVector(t, cb).kind \in {"CONTIGUOUS", "HVECTOR"}
  BY DEF CompressHVector, Contiguous, HVector
<1>5. IndexedBlock(t.blocklen, t.displs, cb).kind = "INDEXEDBLOCK"
  BY DEF IndexedBlock
<1>6. HIndexed(t.blocklens, t.displs, cb).kind = "HINDEXED"
  BY DEF HIndexed
<1>7. Struct(t.blocklens, t.displs, t.bases).kind = "STRUCT"
  BY DEF Struct
<1>8. CompressResized(t, cb).kind = "RESIZED"
  BY DEF CompressResized, Resized
<1> QED
  BY <1>1, <1>2, <1>3, <1>4, <1>5, <1>6, <1>7, <1>8, CompressOfKinds

\* Over what basetype the compressed contiguous types and vectors lie.
LEMMA CompressBase ==
    ASSUME NEW t, NEW cb, NEW c,
           \/ c = CompressContiguous(t, cb)
           \/ c = CompressVector(t, cb)
           \/ c = CompressHVector(t, cb)
    PROVE  \/ ~Dissolves(cb) /\ c.base = cb
           \/ Dissolves(cb) /\ c.base = cb.base
<1>1. CASE c = CompressContiguous(t, cb)
  BY <1>1 DEF CompressContiguous, Contiguous
<1>2. CASE c = CompressVector(t, cb)
  BY <1>2 DEF CompressVector, Contiguous, Vector
<1>3. CASE c = CompressHVector(t, cb)
  BY <1>3 DEF CompressHVector, Contiguous, HVector
<1> QED
  BY <1>1, <1>2, <1>3

\* A basetype that dissolves into a primitive type starts at 0.
LEMMA PrimitiveBase ==
    ASSUME NEW b \in Regular, NEW cb, Stands(cb, b), NEW t, NEW c,
           c = CompressContiguous(t, cb), c.base.kind = "PRIMITIVE"
    PROVE  b.lb = 0
<1>1. cb \in Regular /\ cb \in Trees /\ cb.lb = b.lb
  BY StandsFacts
<1>2. CASE c.base = cb
  BY <1>1, <1>2, PrimitiveFits
<1>3. CASE Dissolves(cb) /\ c.base = cb.base
  <2>1. cb.kind = "CONTIGUOUS"
    BY <1>3 DEF Dissolves
  <2>2. cb.base \in Regular /\ cb.base.lb = cb.lb
    BY <1>1, <2>1, ContiguousGathers
  <2>3. cb.base \in Trees
    BY <2>2, RegularNode, BuiltNode
  <2>4. cb.base.lb = 0
    BY <1>3, <2>3, PrimitiveFits
  <2> QED
    BY <1>1, <2>2, <2>4
<1> QED
  BY <1>2, <1>3, CompressBase

\* A datatype in scope is straight over regular basetypes.
LEMMA ScopeStraight ==
    ASSUME NEW t \in Built, InScope[t], Children(t) \subseteq Regular
    PROVE  Straight(t)
<1>1. t \in Trees
  BY BuiltNode
<1>2. InScopeOf(InScope, t)
  BY <1>1, ScopeNode
<1>3. t.kind = "CONTIGUOUS" => t.count > 0 \/ t.base.lb = 0
  <2> SUFFICES ASSUME t.kind = "CONTIGUOUS", ~(t.count > 0)
               PROVE  t.base.lb = 0
    OBVIOUS
  <2>1. Compress[t].base.kind = "PRIMITIVE"
    BY <1>2 DEF InScopeOf
  <2>2. t.base \in Regular
    BY <1>1, ChildFacts
  <2>3. Stands(Compress[t.base], t.base)
    BY <2>2, CompressStands
  <2>4. Compress[t] = CompressContiguous(t, Compress[t.base])
    BY <1>1, CompressUnfold, CompressOfKinds
  <2> QED
    BY <2>1, <2>2, <2>3, <2>4, PrimitiveBase
<1>4. t.kind \in {"PRIMITIVE", "CONTIGUOUS", "VECTOR", "HVECTOR",
                  "INDEXEDBLOCK", "HINDEXED", "STRUCT", "RESIZED"}
  BY <1>1, NodeFields
<1> QED
  BY <1>2, <1>3, <1>4 DEF InScopeOf, Straight

\* The bounds of every datatype in scope are those of its type map.
THEOREM ScopeRegular == \A t \in Built : InScope[t] => t \in Regular
<1> DEFINE S == {t \in Trees : t \in Built /\ InScope[t] => t \in Regular}
<1>1. ASSUME NEW t \in Trees, \A c \in Trees : Height(c) < Height(t) => c \in S
      PROVE  t \in S
  <2> SUFFICES ASSUME t \in Built, InScope[t]
               PROVE  t \in Regular
    OBVIOUS
  <2>1. \A c \in Children(t) : c \in Trees /\ Height(c) < Height(t) /\ c \in Built /\ InScope[c]
    BY ChildrenBelow, BuiltNode, ScopeNode
  <2>2. Children(t) \subseteq Regular
    BY <1>1, <2>1
  <2>3. Straight(t)
    BY <2>2, ScopeStraight
  <2> QED
    BY <2>2, <2>3, RegularOver
<1>2. Trees \subseteq S
  <2>1. ScopeRec!Ranked
    BY HeightNat DEF ScopeRec!Ranked
  <2> HIDE DEF S
  <2> QED
    BY <1>1, <2>1, ScopeRec!RankInduction
<1>3. Built \subseteq Trees
  BY BuiltNode
<1> QED
  BY <1>2, <1>3

\* A runnable tree has code of its own unless it is primitive.
LEMMA RunnableOpens ==
    ASSUME NEW t \in Runnable, NEW n, ~OpensBlocks(t, n)
    PROVE  t.kind = "PRIMITIVE"
<1>1. Ready(t)
  BY RunnableNode
<1> QED
  BY <1>1 DEF OpensBlocks, Ready

\* A datatype that holds data has basetypes that do.
LEMMA ScopeChildren ==
    ASSUME NEW t \in Built, InScope[t], t.size > 0
    PROVE  \A c \in Children(t) : c.size > 0
<1>1. t \in Trees /\ AsBuilt(t) /\ t \in Regular
  BY BuiltNode, ScopeRegular
<1>2. CASE t.kind = "CONTIGUOUS"
  <2> DEFINE b == t.base
  <2>1. Children(t) = {b}
    BY <1>2 DEF Children
  <2>2. b \in Regular
    BY <1>1, <2>1, RegularNode
  <2>3. b.size \in Nat
    BY <2>2, RegularFits, FitsSpan
  <2>4. t.size = t.count * b.size
    BY <1>1, <1>2 DEF AsBuilt, Contiguous
  <2>5. t.count \in Nat
    BY <1>1, <1>2, NodeFields
  <2> HIDE DEF b
  <2>6. b.size # 0
    BY <2>4, <2>5
  <2> QED
    BY <2>1, <2>3, <2>6
<1>3. CASE t.kind = "PRIMITIVE"
  BY <1>3 DEF Children
<1> QED
  BY <1>1, <1>2, <1>3, ScopeNode

\* Compression makes no empty contiguous type of one with items.
LEMMA ContiguousReady ==
    ASSUME NEW t, t.count \in Nat, NEW cb \in Runnable, NEW c,
           c = CompressContiguous(t, cb), t.count > 0
    PROVE  c.count > 0 \/ c.base.kind = "PRIMITIVE"
<1>1. CASE ~Dissolves(cb)
  BY <1>1 DEF CompressContiguous, Contiguous
<1>2. CASE Dissolves(cb)
  <2>1. c.count = t.count * cb.count /\ c.base = cb.base
    BY <1>2 DEF CompressContiguous, Contiguous
  <2>2. cb.kind = "CONTIGUOUS"
    BY <1>2 DEF Dissolves
  <2>3. cb.count > 0 \/ cb.base.kind = "PRIMITIVE"
    BY <2>2, RunnableNode DEF Ready
  <2>4. cb.count \in Nat
    BY <2>2, ContiguousItems
  <2> DEFINE k == cb.count
             m == t.count
  <2>5. k > 0 => m * k > 0
    <3> HIDE DEF k, m
    <3>1. k \in Nat /\ m \in Nat /\ m > 0
      BY <2>4 DEF k, m
    <3> QED
      BY <3>1
  <2> QED
    BY <2>1, <2>3, <2>5
<1> QED
  BY <1>1, <1>2

\* Below a compressed node lies a runnable tree.
LEMMA CompressBaseRuns ==
    ASSUME NEW t, NEW cb \in Runnable, NEW c, c.kind \in {"CONTIGUOUS", "VECTOR", "HVECTOR"},
           \/ c = CompressContiguous(t, cb)
           \/ c = CompressVector(t, cb)
           \/ c = CompressHVector(t, cb)
    PROVE  Children(c) \subseteq Runnable
<1>1. Children(c) = {c.base}
  BY DEF Children
<1>2. CASE c.base = cb
  BY <1>1, <1>2
<1>3. CASE Dissolves(cb) /\ c.base = cb.base
  <2>1. cb.kind = "CONTIGUOUS"
    BY <1>3 DEF Dissolves
  <2> QED
    BY <1>1, <1>3, <2>1, ContiguousItems
<1> QED
  BY <1>2, <1>3, CompressBase

\* The compressed tree, when those of the basetypes can be run.
LEMMA CompressRunnable ==
    ASSUME NEW t \in Built, InScope[t],
           t.kind \notin {"PRIMITIVE", "STRUCT"} => Compress[t.base] \in Runnable,
           t.kind = "STRUCT" => Children(t) \subseteq Runnable
    PROVE  Compress[t] \in Runnable
<1> DEFINE c == Compress[t]
           cb == Compress[t.base]
<1>1. t \in Trees /\ t \in Regular /\ AsBuilt(t) /\ Straight(t)
  BY BuiltNode, ScopeRegular, RegularNode
<1>2. Stands(c, t)
  BY <1>1, CompressStands
<1>3. c \in Regular /\ c \in Trees /\ AsBuilt(c)
  BY <1>1, <1>2, StandsFacts, BuiltNode
<1>4. c = CompressOf(Compress, t)
  BY <1>1, CompressUnfold
<1>5. InScopeOf(InScope, t)
  BY <1>1, ScopeNode
<1> HIDE DEF c
<1>6. CASE t.kind = "PRIMITIVE"
  <2>1. c = t
    BY <1>4, <1>6, CompressOfKinds
  <2>2. Children(c) = {} /\ Ready(c)
    BY <1>6, <2>1 DEF Children, Ready
  <2> QED
    BY <1>3, <2>2, RunnableOver DEF c
<1>7. CASE t.kind = "CONTIGUOUS"
  <2>1. c = CompressContiguous(t, cb)
    BY <1>4, <1>7, CompressOfKinds
  <2>2. c.kind = "CONTIGUOUS"
    BY <2>1 DEF CompressContiguous, Contiguous
  <2>3. Children(c) \subseteq Runnable
    BY <1>7, <2>1, <2>2, CompressBaseRuns
  <2>4. t.count > 0 \/ c.base.kind = "PRIMITIVE"
    BY <1>5, <1>7 DEF InScopeOf, c
  <2>5. t.count \in Nat
    BY <1>1, <1>7, NodeFields
  <2>6. c.count > 0 \/ c.base.kind = "PRIMITIVE"
    BY <1>7, <2>1, <2>4, <2>5, ContiguousReady
  <2>7. Ready(c)
    BY <2>2, <2>6 DEF Ready
  <2> QED
    BY <1>3, <2>3, <2>7, RunnableOver DEF c
<1>8. CASE t.kind \in {"VECTOR", "HVECTOR"}
  <2>1. c = CompressVector(t, cb) \/ c = CompressHVector(t, cb)
    BY <1>4, <1>8, CompressOfKinds
  <2>2. c.kind \in {"CONTIGUOUS", "VECTOR", "HVECTOR"}
    BY <1>1, <1>8, CompressKinds DEF c
  <2>3. Children(c) \subseteq Runnable
    BY <1>8, <2>1, <2>2, CompressBaseRuns
  <2>4. c.size > 0
    <3> DEFINE k == t.count
               l == t.blocklen
               s == t.base.size
    <3>1. k \in Nat /\ l \in Nat /\ k > 0 /\ l > 0 /\ s > 0
      BY <1>1, <1>8, NodeFields DEF Straight
    <3>2. t.size = k * l * s
      BY <1>1, <1>8 DEF AsBuilt, Vector, HVector
    <3>3. t.base \in Regular
      BY <1>1, <1>8, ChildFacts, RegularNode
    <3>4. s \in Nat
      BY <3>3, RegularFits, FitsSpan
    <3> HIDE DEF k, l, s
    <3>5. k * l > 0 /\ k * l \in Nat
      BY <3>1
    <3>6. k * l * s > 0
      BY <3>1, <3>4, <3>5
    <3>7. c.size = t.size
      BY <1>1, <1>2, StandsFacts
    <3> QED
      BY <3>2, <3>6, <3>7
  <2>5. c.kind = "CONTIGUOUS" => c.count > 0
    <3> SUFFICES ASSUME c.kind = "CONTIGUOUS" PROVE c.count > 0
      OBVIOUS
    <3>1. c.size = c.count * c.base.size /\ c.count \in Nat /\ c.base \in Regular
      BY <1>3, ContiguousGathers
    <3>2. c.base.size \in Nat
      BY <3>1, RegularFits, FitsSpan
    <3> QED
      BY <2>4, <3>1, <3>2
  <2>6. Ready(c)
    BY <2>2, <2>5 DEF Ready
  <2> QED
    BY <1>3, <2>3, <2>6, RunnableOver DEF c
<1>9. CASE t.kind = "INDEXEDBLOCK"
  <2>1. c = IndexedBlock(t.blocklen, t.displs, cb)
    BY <1>4, <1>9, CompressOfKinds
  <2>2. t = IndexedBlock(t.blocklen, t.displs, t.base)
    BY <1>1, <1>9 DEF AsBuilt
  <2>3. c.kind = "INDEXEDBLOCK" /\ c.base = cb /\ c.blocklen = t.blocklen
        /\ c.count = Len(t.displs)
    BY <2>1 DEF IndexedBlock
  <2>4. t.count = Len(t.displs)
    BY <2>2 DEF IndexedBlock
  <2>5. c.count > IDXB_LOOP_TRESHOLD => ~OpensBlocks(c.base, c.blocklen)
    BY <1>5, <1>9, <2>3, <2>4 DEF InScopeOf
  <2>6. Ready(c)
    BY <2>3, <2>5 DEF Ready
  <2>7. Children(c) \subseteq Runnable
    BY <1>9, <2>3 DEF Children
  <2> QED
    BY <1>3, <2>6, <2>7, RunnableOver DEF c
<1>10. CASE t.kind = "HINDEXED"
  <2>1. c = HIndexed(t.blocklens, t.displs, cb)
    BY <1>4, <1>10, CompressOfKinds
  <2>2. c.kind = "HINDEXED" /\ c.base = cb
    BY <2>1 DEF HIndexed
  <2>3. Ready(c) /\ Children(c) \subseteq Runnable
    BY <1>10, <2>2 DEF Ready, Children
  <2> QED
    BY <1>3, <2>3, RunnableOver DEF c
<1>11. CASE t.kind = "STRUCT"
  <2>1. c = Struct(t.blocklens, t.displs, t.bases)
    BY <1>4, <1>11, CompressOfKinds
  <2>2. c = t
    BY <1>1, <1>11, <2>1 DEF AsBuilt
  <2>3. Ready(c) /\ Children(c) \subseteq Runnable
    BY <1>11, <2>2 DEF Ready
  <2> QED
    BY <1>3, <2>3, RunnableOver DEF c
<1>12. CASE t.kind = "RESIZED"
  <2>1. c = CompressResized(t, cb)
    BY <1>4, <1>12, CompressOfKinds
  <2>2. c.kind = "RESIZED" /\ c.base = cb
    BY <2>1 DEF CompressResized, Resized
  <2>3. cb.kind \in ResizedKinds
    BY <1>5, <1>12 DEF InScopeOf
  <2>4. Ready(c) /\ Children(c) \subseteq Runnable
    BY <1>12, <2>2, <2>3 DEF Ready, Children
  <2> QED
    BY <1>3, <2>4, RunnableOver DEF c
<1>13. t.kind \in {"PRIMITIVE", "CONTIGUOUS", "VECTOR", "HVECTOR",
                   "INDEXEDBLOCK", "HINDEXED", "STRUCT", "RESIZED"}
  BY <1>1, NodeFields
<1> QED
  BY <1>6, <1>7, <1>8, <1>9, <1>10, <1>11, <1>12, <1>13

\* The tree itself, when it holds data and its basetypes can be run.
LEMMA ScopeReady ==
    ASSUME NEW t \in Built, InScope[t], t.size > 0,
           t.kind \notin {"PRIMITIVE", "STRUCT"} => Compress[t.base] \in Runnable
    PROVE  Ready(t)
<1>1. t \in Trees /\ AsBuilt(t)
  BY BuiltNode
<1>2. InScopeOf(InScope, t)
  BY <1>1, ScopeNode
<1>3. t.kind = "CONTIGUOUS" => t.count > 0
  <2> SUFFICES ASSUME t.kind = "CONTIGUOUS" PROVE t.count > 0
    OBVIOUS
  <2>1. t.count \in Nat
    BY <1>1, NodeFields
  <2>2. t.size = t.count * t.base.size
    BY <1>1 DEF AsBuilt, Contiguous
  <2>3. t.base \in Trees
    BY <1>1, NodeFields
  <2>4. t.base.size \in Int
    BY <2>3, NodeFields DEF Attributed
  <2> QED
    BY <2>1, <2>2, <2>4
<1>4. t.kind = "INDEXEDBLOCK" /\ t.count > IDXB_LOOP_TRESHOLD =>
         ~OpensBlocks(t.base, t.blocklen)
  <2> SUFFICES ASSUME t.kind = "INDEXEDBLOCK", t.count > IDXB_LOOP_TRESHOLD
               PROVE  ~OpensBlocks(t.base, t.blocklen)
    OBVIOUS
  <2>1. ~OpensBlocks(Compress[t.base], t.blocklen) /\ t.base \in Trees
    BY <1>1, <1>2, NodeFields DEF InScopeOf
  <2>2. Compress[t.base].kind = "PRIMITIVE"
    BY <2>1, RunnableOpens
  <2>3. t.base.kind = "PRIMITIVE"
    <3>1. t.base.kind \in {"PRIMITIVE", "CONTIGUOUS", "VECTOR", "HVECTOR",
                           "INDEXEDBLOCK", "HINDEXED", "STRUCT", "RESIZED"}
      BY <2>1, NodeFields
    <3> QED
      BY <2>1, <2>2, <3>1, CompressKinds
  <2>4. Compress[t.base] = t.base
    BY <2>1, <2>3, CompressKinds
  <2> QED
    BY <2>1, <2>4
<1>5. t.kind = "RESIZED" => t.base.kind \in ResizedKinds
  <2> SUFFICES ASSUME t.kind = "RESIZED" PROVE t.base.kind \in ResizedKinds
    OBVIOUS
  <2>1. Compress[t.base].kind \in ResizedKinds /\ t.base \in Trees
    BY <1>1, <1>2, NodeFields DEF InScopeOf
  <2>2. t.base.kind \in {"PRIMITIVE", "CONTIGUOUS", "VECTOR", "HVECTOR",
                         "INDEXEDBLOCK", "HINDEXED", "STRUCT", "RESIZED"}
    BY <2>1, NodeFields
  <2> QED
    BY <2>1, <2>2, CompressKinds DEF ResizedKinds
<1> QED
  BY <1>3, <1>4, <1>5 DEF Ready

\* The code of every datatype in scope can be run.
THEOREM ScopeRunnable == \A t \in Built : InScope[t] => Compress[t] \in Runnable
<1> DEFINE S == {t \in Trees : t \in Built /\ InScope[t] =>
                    Compress[t] \in Runnable /\ (t.size > 0 => t \in Runnable)}
<1>1. ASSUME NEW t \in Trees, \A c \in Trees : Height(c) < Height(t) => c \in S
      PROVE  t \in S
  <2> SUFFICES ASSUME t \in Built, InScope[t]
               PROVE  Compress[t] \in Runnable /\ (t.size > 0 => t \in Runnable)
    OBVIOUS
  <2>1. \A c \in Children(t) : c \in Trees /\ Height(c) < Height(t) /\ c \in Built /\ InScope[c]
    BY ChildrenBelow, BuiltNode, ScopeNode
  <2>2. \A c \in Children(t) : Compress[c] \in Runnable /\ (c.size > 0 => c \in Runnable)
    BY <1>1, <2>1
  <2>3. t.kind \notin {"PRIMITIVE", "STRUCT"} => Compress[t.base] \in Runnable
    BY <2>2, ChildFacts
  <2>4. t.kind = "STRUCT" => Children(t) \subseteq Runnable
    BY <2>2, ScopeNode
  <2>5. Compress[t] \in Runnable
    BY <2>3, <2>4, CompressRunnable
  <2>6. ASSUME t.size > 0
        PROVE  t \in Runnable
    <3>1. Children(t) \subseteq Runnable
      BY <2>2, <2>6, ScopeChildren
    <3>2. Ready(t)
      BY <2>3, <2>6, ScopeReady
    <3> QED
      BY <3>1, <3>2, ScopeRegular, RunnableOver
  <2> QED
    BY <2>5, <2>6
<1>2. Trees \subseteq S
  <2>1. ScopeRec!Ranked
    BY HeightNat DEF ScopeRec!Ranked
  <2> HIDE DEF S
  <2> QED
    BY <1>1, <2>1, ScopeRec!RankInduction
<1>3. Built \subseteq Trees
  BY BuiltNode
<1> QED
  BY <1>2, <1>3

\* A copy between two numbers.
LEMMA CopyCopies ==
    ASSUME NEW from \in Int, NEW to \in Int, NEW len \in Int
    PROVE  Copy(from, to, len) \subseteq Copies
BY DEF Copy, Copies

\* The copy that records a runaway is one.
LEMMA RunawayCopies == Runaway \subseteq Copies
BY DEF Runaway, Copies

\* Shifted copies are copies.
LEMMA AtCopies ==
    ASSUME NEW copies, copies \subseteq Copies, NEW in \in Int, NEW out \in Int
    PROVE  At(in, out, copies) \subseteq Copies
BY DEF At, Copies

\* The code of the items of t consists of copies, wherever they lie.
Copying(f, t) == \A pack \in BOOLEAN : \A n \in Nat : f[t][pack][n] \subseteq Copies

\* So is the shifted code.
LEMMA CopyingAt ==
    ASSUME NEW f, NEW t, Copying(f, t), NEW pack \in BOOLEAN, NEW n \in Nat,
           NEW in \in Int, NEW out \in Int
    PROVE  At(in, out, f[t][pack][n]) \subseteq Copies
<1> DEFINE C == f[t][pack][n]
<1>1. C \subseteq Copies
  BY DEF Copying
<1> HIDE DEF C
<1>2. At(in, out, C) \subseteq Copies
  BY <1>1, AtCopies
<1> QED
  BY <1>2 DEF C

\* So is a transfer.
LEMMA TransferCopies ==
    ASSUME NEW f, NEW t, Copying(f, t), NEW pack \in BOOLEAN, NEW n \in Nat,
           NEW compact \in Int, NEW scattered \in Int
    PROVE  Transfer(f, t, pack, n, compact, scattered) \subseteq Copies
<1>1. \A p \in BOOLEAN : /\ At(scattered, compact, f[t][p][n]) \subseteq Copies
                         /\ At(compact, scattered, f[t][p][n]) \subseteq Copies
  BY CopyingAt
<1>2. CASE pack
  <2>1. Transfer(f, t, pack, n, compact, scattered) = At(scattered, compact, f[t][TRUE][n])
    BY <1>2 DEF Transfer
  <2> QED
    BY <1>1, <2>1
<1>3. CASE ~pack
  <2>1. Transfer(f, t, pack, n, compact, scattered) = At(compact, scattered, f[t][FALSE][n])
    BY <1>3 DEF Transfer
  <2> QED
    BY <1>1, <2>1
<1> QED
  BY <1>2, <1>3

\* The code of a resized primitive type is a set of copies.
LEMMA PrimitiveResizedCopies ==
    ASSUME NEW size \in Int, NEW extent \in Int, NEW n
    PROVE  EmitPrimitiveResized(size, extent, n) \subseteq Copies
<1> DEFINE k == Rounds(1, n)
<1>1. EmitPrimitiveResized(size, extent, n)
        = IF k = 0 THEN Runaway
          ELSE UNION {Copy(r * extent, r * size, size) : r \in 0 .. k - 1}
  BY DEF EmitPrimitiveResized, Loop
<1> HIDE DEF k
<1>2. \A r \in 0 .. k - 1 : Copy(r * extent, r * size, size) \subseteq Copies
  <2> SUFFICES ASSUME NEW r \in 0 .. k - 1
               PROVE  Copy(r * extent, r * size, size) \subseteq Copies
    OBVIOUS
  <2> DEFINE a == r * extent
             b == r * size
  <2>1. a \in Int /\ b \in Int
    OBVIOUS
  <2> HIDE DEF a, b
  <2>2. Copy(a, b, size) \subseteq Copies
    BY <2>1, CopyCopies
  <2> QED
    BY <2>2 DEF a, b
<1> QED
  BY <1>1, <1>2, RunawayCopies

\* The code of a contiguous type is a set of copies.
LEMMA ContiguousCopies ==
    ASSUME NEW f, NEW base, Copying(f, base), NEW in \in Int, NEW out \in Int,
           NEW count \in Nat, NEW pack \in BOOLEAN, NEW n
    PROVE  EmitContiguous(f, base, in, out, count, pack, n) \subseteq Copies
<1> DEFINE k == Rounds(1, n)
           C == f[base][pack][count]
<1>1. EmitContiguous(f, base, in, out, count, pack, n)
        = IF k = 0 THEN Runaway
          ELSE UNION {At(r * in, r * out, C) : r \in 0 .. k - 1}
  BY DEF EmitContiguous, Loop
<1>2. C \subseteq Copies
  BY DEF Copying
<1> HIDE DEF k, C
<1>3. \A r \in 0 .. k - 1 : At(r * in, r * out, C) \subseteq Copies
  <2> SUFFICES ASSUME NEW r \in 0 .. k - 1
               PROVE  At(r * in, r * out, C) \subseteq Copies
    OBVIOUS
  <2> DEFINE a == r * in
             b == r * out
  <2>1. a \in Int /\ b \in Int
    OBVIOUS
  <2> HIDE DEF a, b
  <2>2. At(a, b, C) \subseteq Copies
    BY <1>2, <2>1, AtCopies
  <2> QED
    BY <2>2 DEF a, b
<1> QED
  BY <1>1, <1>3, RunawayCopies

\* The two loops of a vector are a set of copies.
LEMMA VectorCopies ==
    ASSUME NEW f, NEW base, Copying(f, base), NEW len \in Nat,
           NEW in \in Int, NEW out \in Int, NEW x \in Int, NEW y \in Int,
           NEW pack \in BOOLEAN, NEW n
    PROVE  EmitVector(f, base, len, in, out, x, y, pack, n) \subseteq Copies
<1> DEFINE k == Rounds(1, n)
           m == IF pack THEN Rounds(out, y) ELSE Rounds(in, x)
           C == f[base][pack][len]
<1>1. EmitVector(f, base, len, in, out, x, y, pack, n)
        = IF k = 0 THEN Runaway
          ELSE UNION {IF m = 0 THEN Runaway
                      ELSE UNION {At(r * x + j * in, r * y + j * out, C) : j \in 0 .. m - 1}
                      : r \in 0 .. k - 1}
  BY VectorUnfold
<1>2. C \subseteq Copies
  BY DEF Copying
<1> HIDE DEF k, m, C
<1>3. \A r \in 0 .. k - 1 : \A j \in 0 .. m - 1 :
         At(r * x + j * in, r * y + j * out, C) \subseteq Copies
  <2> SUFFICES ASSUME NEW r \in 0 .. k - 1, NEW j \in 0 .. m - 1
               PROVE  At(r * x + j * in, r * y + j * out, C) \subseteq Copies
    OBVIOUS
  <2> DEFINE a == r * x + j * in
             b == r * y + j * out
  <2>1. a \in Int /\ b \in Int
    OBVIOUS
  <2> HIDE DEF a, b
  <2>2. At(a, b, C) \subseteq Copies
    BY <1>2, <2>1, AtCopies
  <2> QED
    BY <2>2 DEF a, b
<1> DEFINE R(r) == IF m = 0 THEN Runaway
                   ELSE UNION {At(r * x + j * in, r * y + j * out, C) : j \in 0 .. m - 1}
<1>4. \A r \in 0 .. k - 1 : R(r) \subseteq Copies
  BY <1>3, RunawayCopies
<1>5. UNION {R(r) : r \in 0 .. k - 1} \subseteq Copies
  <2> HIDE DEF R
  <2> QED
    BY <1>4
<1> QED
  BY <1>1, <1>5, RunawayCopies

\* The code of a vector is a set of copies.
LEMMA StridedCopies ==
    ASSUME NEW f, NEW v \in Trees, v.kind \in {"VECTOR", "HVECTOR"}, Copying(f, v.base),
           NEW extent \in Int, NEW pack \in BOOLEAN, NEW n
    PROVE  EmitStrided(f, v, extent, pack, n) \subseteq Copies
<1>1. v.blocklen \in Nat /\ v.stride \in Int /\ Attributed(v) /\ v.base \in Trees
  BY NodeFields
<1>2. Attributed(v.base)
  BY <1>1, NodeFields
<1>3. v.size \in Int /\ v.base.size \in Int /\ Extent(v.base) \in Int
  BY <1>1, <1>2 DEF Attributed, Extent
<1> DEFINE ms == MemoryStride(v)
           ps == PackedStride(v)
           sz == v.size
           len == v.blocklen
<1>4. ms \in Int /\ ps \in Int
  BY <1>1, <1>3 DEF MemoryStride, PackedStride
<1>5. sz \in Int /\ len \in Nat
  BY <1>1, <1>3
<1>6. pack => EmitStrided(f, v, extent, pack, n)
                = EmitVector(f, v.base, len, ms, ps, extent, sz, TRUE, n)
  BY DEF EmitStrided
<1>7. ~pack => EmitStrided(f, v, extent, pack, n)
                = EmitVector(f, v.base, len, ps, ms, sz, extent, FALSE, n)
  BY DEF EmitStrided
<1> HIDE DEF ms, ps, sz, len
<1>8. \A p \in BOOLEAN :
         /\ EmitVector(f, v.base, len, ms, ps, extent, sz, p, n) \subseteq Copies
         /\ EmitVector(f, v.base, len, ps, ms, sz, extent, p, n) \subseteq Copies
  BY <1>4, <1>5, VectorCopies
<1> QED
  BY <1>6, <1>7, <1>8

\* The unrolled code is a set of copies.
LEMMA BlocksCopies ==
    ASSUME NEW f, NEW blocks, NEW m \in Nat, DOMAIN blocks = 1 .. m, Len(blocks) = m,
           \A k \in 1 .. m : /\ blocks[k].len \in Nat /\ blocks[k].disp \in Int
                             /\ blocks[k].base.size \in Int /\ Copying(f, blocks[k].base),
           NEW extent \in Int, NEW pack \in BOOLEAN, NEW n
    PROVE  EmitBlocks(f, blocks, extent, pack, n) \subseteq Copies
<1> DEFINE Z == [b \in DOMAIN blocks |-> blocks[b].len * blocks[b].base.size]
           Before(k) == Total(Z, k - 1)
           rounds == Rounds(extent, n * extent)
           B(r, k) == Transfer(f, blocks[k].base, pack, blocks[k].len,
                               r * Before(Len(blocks) + 1) + Before(k),
                               r * extent + blocks[k].disp)
<1>1. EmitBlocks(f, blocks, extent, pack, n)
        = IF rounds = 0 THEN Runaway
          ELSE UNION {UNION {B(r, k) : k \in DOMAIN blocks} : r \in 0 .. rounds - 1}
  BY DEF EmitBlocks, Loop
<1>2. \A k \in 1 .. m : Z[k] \in Int
  BY DEF Z
<1>3. \A k \in 1 .. m + 1 : Before(k) \in Int
  <2> SUFFICES ASSUME NEW k \in 1 .. m + 1 PROVE Total(Z, k - 1) \in Int
    OBVIOUS
  <2>1. k - 1 \in Nat /\ \A i \in 1 .. k - 1 : Z[i] \in Int
    BY <1>2
  <2> HIDE DEF Z
  <2> QED
    BY <2>1, TotalInt
<1>4. Before(Len(blocks) + 1) \in Int
  <2>1. m + 1 \in 1 .. m + 1
    OBVIOUS
  <2> HIDE DEF Before
  <2> QED
    BY <1>3, <2>1
<1> HIDE DEF Before, rounds
<1>5. ASSUME NEW r \in 0 .. rounds - 1, NEW k \in 1 .. m
      PROVE  B(r, k) \subseteq Copies
  <2> DEFINE compact == r * Before(Len(blocks) + 1) + Before(k)
             scattered == r * extent + blocks[k].disp
             base == blocks[k].base
             len == blocks[k].len
  <2>1. compact \in Int /\ scattered \in Int
    BY <1>3, <1>4
  <2>2. Copying(f, base) /\ len \in Nat
    OBVIOUS
  <2>3. B(r, k) = Transfer(f, base, pack, len, compact, scattered)
    OBVIOUS
  <2> HIDE DEF compact, scattered, base, len, B
  <2> QED
    BY <2>1, <2>2, <2>3, TransferCopies
<1> HIDE DEF B
<1> QED
  BY <1>1, <1>5, RunawayCopies

\* The looped code is a set of copies.
LEMMA IndexedLoopCopies ==
    ASSUME NEW f, NEW t, NEW b, NEW len \in Nat, NEW d, NEW m, DOMAIN d = 1 .. m,
           t.base = b, t.blocklen = len, t.displs = d, t.count \in Int,
           Extent(t) \in Int, Extent(b) \in Int, \A k \in 1 .. m : d[k] \in Int,
           Copying(f, b), NEW pack \in BOOLEAN, NEW n
    PROVE  EmitIndexedLoop(f, t, pack, n) \subseteq Copies
<1> DEFINE step == t.blocklen * Extent(t.base)
           B(r, k) == Transfer(f, t.base, pack, t.blocklen, (r * t.count + k - 1) * step,
                               r * Extent(t) + t.displs[k] * Extent(t.base))
           rounds == Rounds(t.count * step, n * t.size)
           astray == OpensBlocks(t.base, t.blocklen)
                       \/ \E i \in DOMAIN t.displs : t.displs[i] * Extent(t.base) < 0
<1>1. EmitIndexedLoop(f, t, pack, n)
        = IF astray THEN Runaway
          ELSE IF rounds = 0 THEN Runaway
          ELSE UNION {UNION {B(r, k) : k \in DOMAIN t.displs} : r \in 0 .. rounds - 1}
  BY DEF EmitIndexedLoop, Loop
<1>2. step \in Int
  OBVIOUS
<1> HIDE DEF rounds, astray
<1>3. ASSUME NEW r \in 0 .. rounds - 1, NEW k \in 1 .. m
      PROVE  B(r, k) \subseteq Copies
  <2> DEFINE compact == (r * t.count + k - 1) * step
             scattered == r * Extent(t) + t.displs[k] * Extent(t.base)
  <2>1. compact \in Int /\ scattered \in Int
    <3> HIDE DEF step
    <3> QED
      BY <1>2
  <2>2. B(r, k) = Transfer(f, b, pack, len, compact, scattered)
    OBVIOUS
  <2> HIDE DEF compact, scattered, B
  <2> QED
    BY <2>1, <2>2, TransferCopies
<1> HIDE DEF B
<1> QED
  BY <1>1, <1>3, RunawayCopies

\* The lists of an hindexed type or a struct have one length.
LEMMA BuiltLists ==
    ASSUME NEW t \in Built, t.kind \in {"HINDEXED", "STRUCT"}
    PROVE  /\ DOMAIN t.displs = 1 .. Len(t.displs) /\ Len(t.displs) \in Nat
           /\ \A k \in 1 .. Len(t.displs) : t.displs[k] \in Int /\ t.blocklens[k] \in Nat
           /\ t.kind = "STRUCT" => DOMAIN t.bases = 1 .. Len(t.displs)
<1>1. t \in Trees /\ AsBuilt(t)
  BY BuiltNode
<1> DEFINE d == t.displs
           l == t.blocklens
<1>2. d \in Seq(Int) /\ l \in Seq(Nat) /\ Len(l) = Len(d)
  BY <1>1, NodeFields DEF AsBuilt
<1>3. t.kind = "STRUCT" => t.bases \in Seq(Trees) /\ Len(t.bases) = Len(d)
  BY <1>1, NodeFields DEF AsBuilt
<1> HIDE DEF d, l
<1>4. DOMAIN d = 1 .. Len(d) /\ Len(d) \in Nat
      /\ \A k \in 1 .. Len(d) : d[k] \in Int /\ l[k] \in Nat
  BY <1>2
<1>5. t.kind = "STRUCT" => DOMAIN t.bases = 1 .. Len(d)
  BY <1>3
<1> QED
  BY <1>4, <1>5 DEF d, l

\* The attributes of a built tree are integers.
LEMMA BuiltInts ==
    ASSUME NEW t \in Built
    PROVE  t.size \in Int /\ t.lb \in Int /\ t.ub \in Int /\ Extent(t) \in Int
BY BuiltAttributed DEF Attributed, Extent

\* Every built tree, the ones out of scope included, moves bytes between
\* places that are numbers.
LEMMA EmitCopies ==
    ASSUME NEW f, NEW t \in Built,
           \A c \in Built : Height(c) < Height(t) => Copying(f, c),
           NEW pack \in BOOLEAN, NEW n \in Nat
    PROVE  Emit(f, t, pack, n) \subseteq Copies
<1>1. t \in Trees /\ AsBuilt(t) /\ Children(t) \subseteq Built
  BY BuiltNode
<1>2. t.size \in Int /\ Extent(t) \in Int
  BY BuiltInts
<1>3. \A c \in Children(t) : c \in Built /\ c \in Trees /\ Height(c) < Height(t) /\ Copying(f, c)
  BY <1>1, ChildrenBelow
<1>4. t.kind \notin {"PRIMITIVE", "STRUCT"} =>
         t.base \in Built /\ t.base \in Trees /\ Height(t.base) < Height(t) /\ Copying(f, t.base)
  BY <1>1, <1>3, ChildFacts
<1>5. CASE t.kind = "PRIMITIVE"
  <2> DEFINE len == n * t.size
  <2>1. len \in Int
    BY <1>2
  <2>2. Emit(f, t, pack, n) = Copy(0, 0, len)
    BY <1>5, EmitOfKinds
  <2> HIDE DEF len
  <2> QED
    BY <2>1, <2>2, CopyCopies
<1>6. CASE t.kind = "CONTIGUOUS"
  <2>1. \A p \in BOOLEAN :
           /\ EmitContiguous(f, t.base, Extent(t), t.size, t.count, p, n) \subseteq Copies
           /\ EmitContiguous(f, t.base, t.size, Extent(t), t.count, p, n) \subseteq Copies
    <3> DEFINE k == t.count
               x == Extent(t)
               s == t.size
    <3>1. k \in Nat /\ x \in Int /\ s \in Int
      BY <1>1, <1>2, <1>6, NodeFields
    <3> HIDE DEF k, x, s
    <3>2. \A p \in BOOLEAN : /\ EmitContiguous(f, t.base, x, s, k, p, n) \subseteq Copies
                             /\ EmitContiguous(f, t.base, s, x, k, p, n) \subseteq Copies
      BY <1>4, <1>6, <3>1, ContiguousCopies
    <3> QED
      BY <3>2 DEF k, x, s
  <2>2. Emit(f, t, TRUE, n) \subseteq Copies /\ Emit(f, t, FALSE, n) \subseteq Copies
    BY <1>6, <2>1, EmitOfContiguous
  <2> QED
    BY <2>2
<1>7. CASE t.kind \in {"VECTOR", "HVECTOR"}
  <2>1. Emit(f, t, pack, n) = EmitStrided(f, t, Extent(t), pack, n)
    BY <1>7, EmitOfKinds
  <2> QED
    BY <1>1, <1>2, <1>4, <1>7, <2>1, StridedCopies
<1>8. CASE t.kind = "INDEXEDBLOCK"
  <2> DEFINE b == t.base
             d == t.displs
             m == Len(t.displs)
             len == t.blocklen
  <2>1. Emit(f, t, pack, n) = EmitIndexedBlock(f, t, pack, n)
    BY <1>8, EmitOfKinds
  <2>2. len \in Nat /\ d \in Seq(Int) /\ Copying(f, b) /\ b \in Built
    BY <1>1, <1>4, <1>8, NodeFields
  <2>3. t.count = m
    <3>1. t = IndexedBlock(t.blocklen, t.displs, t.base)
      BY <1>1, <1>8 DEF AsBuilt
    <3> QED
      BY <3>1 DEF IndexedBlock
  <2>4. m \in Nat /\ DOMAIN d = 1 .. m /\ \A k \in 1 .. m : d[k] \in Int
    BY <2>2
  <2>5. Extent(b) \in Int /\ b.size \in Int
    BY <2>2, BuiltInts
  <2>6. EmitIndexedLoop(f, t, pack, n) \subseteq Copies
    <3>1. t.base = b /\ t.blocklen = len /\ t.displs = d /\ t.count \in Int
      BY <2>3, <2>4
    <3> HIDE DEF b, d, m, len
    <3> QED
      BY <1>2, <2>2, <2>4, <2>5, <3>1, IndexedLoopCopies
  <2> DEFINE blocks == [k \in DOMAIN t.displs |->
                          [disp |-> t.displs[k] * t.base.size,
                           len  |-> t.blocklen, base |-> t.base]]
  <2>7. EmitBlocks(f, blocks, Extent(t), pack, n) \subseteq Copies
    <3> DEFINE x == Extent(t)
    <3>1. DOMAIN blocks = 1 .. m /\ Len(blocks) = m
      BY <2>4
    <3>2. \A k \in 1 .. m : /\ blocks[k].len \in Nat /\ blocks[k].disp \in Int
                            /\ blocks[k].base.size \in Int /\ Copying(f, blocks[k].base)
      BY <2>2, <2>4, <2>5
    <3>3. x \in Int
      BY <1>2
    <3>4. m \in Nat
      BY <2>4
    <3> HIDE DEF blocks, m, x
    <3>5. EmitBlocks(f, blocks, x, pack, n) \subseteq Copies
      BY <3>1, <3>2, <3>3, <3>4, BlocksCopies
    <3> QED
      BY <3>5 DEF x
  <2> QED
    BY <2>1, <2>6, <2>7 DEF EmitIndexedBlock
<1>9. CASE t.kind = "HINDEXED"
  <2> DEFINE m == Len(t.displs)
             blocks == [k \in DOMAIN t.displs |->
                          [disp |-> t.displs[k], len |-> t.blocklens[k], base |-> t.base]]
             x == Extent(t)
  <2>1. Emit(f, t, pack, n) = EmitHIndexed(f, t, pack, n)
    BY <1>9, EmitOfKinds
  <2>2. EmitHIndexed(f, t, pack, n) = EmitBlocks(f, blocks, x, pack, n)
    BY DEF EmitHIndexed
  <2>3. /\ m \in Nat /\ DOMAIN t.displs = 1 .. m
        /\ \A k \in 1 .. m : t.displs[k] \in Int /\ t.blocklens[k] \in Nat
    BY <1>9, BuiltLists
  <2>4. t.base.size \in Int /\ Copying(f, t.base)
    BY <1>4, <1>9, BuiltInts
  <2>5. DOMAIN blocks = 1 .. m /\ Len(blocks) = m
    BY <2>3
  <2>6. \A k \in 1 .. m : /\ blocks[k].len \in Nat /\ blocks[k].disp \in Int
                          /\ blocks[k].base.size \in Int /\ Copying(f, blocks[k].base)
    BY <2>3, <2>4
  <2>7. x \in Int /\ m \in Nat
    BY <1>2, <2>3
  <2> HIDE DEF blocks, m, x
  <2>8. EmitBlocks(f, blocks, x, pack, n) \subseteq Copies
    BY <2>5, <2>6, <2>7, BlocksCopies
  <2> QED
    BY <2>1, <2>2, <2>8
<1>10. CASE t.kind = "STRUCT"
  <2> DEFINE m == Len(t.displs)
             blocks == [k \in DOMAIN t.bases |->
                          [disp |-> t.displs[k], len |-> t.blocklens[k], base |-> t.bases[k]]]
             x == Extent(t)
  <2>1. Emit(f, t, pack, n) = EmitStruct(f, t, pack, n)
    BY <1>10, EmitOfKinds
  <2>2. EmitStruct(f, t, pack, n) = EmitBlocks(f, blocks, x, pack, n)
    BY DEF EmitStruct
  <2>3. /\ m \in Nat /\ DOMAIN t.bases = 1 .. m
        /\ \A k \in 1 .. m : t.displs[k] \in Int /\ t.blocklens[k] \in Nat
    BY <1>10, BuiltLists
  <2>4. \A k \in 1 .. m : t.bases[k] \in Built /\ Copying(f, t.bases[k])
    BY <1>1, <1>3, <1>10, <2>3, ChildFacts
  <2>5. DOMAIN blocks = 1 .. m /\ Len(blocks) = m
    BY <2>3
  <2>6. \A k \in 1 .. m : t.bases[k].size \in Int
    BY <2>4, BuiltInts
  <2>7. \A k \in 1 .. m : /\ blocks[k].len \in Nat /\ blocks[k].disp \in Int
                          /\ blocks[k].base.size \in Int /\ Copying(f, blocks[k].base)
    BY <2>3, <2>4, <2>6
  <2>8. x \in Int /\ m \in Nat
    BY <1>2, <2>3
  <2> HIDE DEF blocks, m, x
  <2>9. EmitBlocks(f, blocks, x, pack, n) \subseteq Copies
    BY <2>5, <2>7, <2>8, BlocksCopies
  <2> QED
    BY <2>1, <2>2, <2>9
<1>11. CASE t.kind = "RESIZED"
  <2> DEFINE b == t.base
             x == Extent(t)
             s == t.size
  <2>1. Emit(f, t, pack, n) = EmitResized(f, t, pack, n)
    BY <1>11, EmitOfKinds
  <2>2. b \in Built /\ b \in Trees /\ Height(b) < Height(t) /\ x \in Int /\ s \in Int
    BY <1>2, <1>4, <1>11
  <2>3. b.kind \notin {"PRIMITIVE", "STRUCT"} => b.base \in Built /\ Copying(f, b.base)
    <3> SUFFICES ASSUME b.kind \notin {"PRIMITIVE", "STRUCT"}
                 PROVE  b.base \in Built /\ Copying(f, b.base)
      OBVIOUS
    <3> HIDE DEF b
    <3>1. b.base \in Children(b)
      BY <2>2, ChildFacts
    <3>2. b.base \in Trees /\ Height(b.base) < Height(b) /\ b.base \in Built
      BY <2>2, <3>1, ChildrenBelow, BuiltNode
    <3>3. Height(b.base) < Height(t)
      BY <1>1, <2>2, <3>2, HeightNat
    <3> QED
      BY <3>2, <3>3
  <2>4. CASE b.kind = "PRIMITIVE"
    <3>1. EmitResized(f, t, pack, n) = EmitPrimitiveResized(s, x, n)
      BY <2>4, EmitResizedKinds
    <3> HIDE DEF x, s
    <3> QED
      BY <2>1, <2>2, <3>1, PrimitiveResizedCopies
  <2>5. CASE b.kind = "CONTIGUOUS"
    <3> DEFINE e == b.base
               k == b.count
    <3>1. EmitResized(f, t, pack, n) = EmitContiguous(f, e, x, s, k, TRUE, n)
      BY <2>5, EmitResizedContiguous
    <3>2. k \in Nat /\ Copying(f, e)
      BY <2>2, <2>3, <2>5, NodeFields
    <3> HIDE DEF x, s, e, k
    <3>3. \A p \in BOOLEAN : EmitContiguous(f, e, x, s, k, p, n) \subseteq Copies
      BY <2>2, <3>2, ContiguousCopies
    <3> QED
      BY <2>1, <3>1, <3>3
  <2>6. CASE b.kind \in {"VECTOR", "HVECTOR"}
    <3>1. EmitResized(f, t, pack, n) = EmitStrided(f, b, x, pack, n)
      BY <2>6, EmitResizedKinds
    <3> HIDE DEF x, s, b
    <3> QED
      BY <2>1, <2>2, <2>3, <2>6, <3>1, StridedCopies
  <2>7. CASE b.kind \notin ResizedKinds
    <3>1. EmitResized(f, t, pack, n) = {}
      BY <2>7, EmitResizedKinds
    <3> QED
      BY <2>1, <3>1
  <2> QED
    BY <2>4, <2>5, <2>6, <2>7 DEF ResizedKinds
<1>12. t.kind \in {"PRIMITIVE", "CONTIGUOUS", "VECTOR", "HVECTOR",
                   "INDEXEDBLOCK", "HINDEXED", "STRUCT", "RESIZED"}
  BY <1>1, NodeFields
<1> QED
  BY <1>5, <1>6, <1>7, <1>8, <1>9, <1>10, <1>11, <1>12

\* packCodegen() and unpackCodegen(): the code of every tree that can be built,
\* in scope or not, is a set of copies.
THEOREM CodeCopies == \A t \in Built : Copying(Code, t)
<1> DEFINE S == {t \in Trees : t \in Built => Copying(Code, t)}
<1>1. ASSUME NEW t \in Trees, \A c \in Trees : Height(c) < Height(t) => c \in S
      PROVE  t \in S
  <2> SUFFICES ASSUME t \in Built, NEW pack \in BOOLEAN, NEW n \in Nat
               PROVE  Code[t][pack][n] \subseteq Copies
    BY DEF Copying
  <2>1. \A c \in Built : Height(c) < Height(t) => Copying(Code, c)
    BY <1>1, BuiltNode
  <2>2. Emit(Code, t, pack, n) \subseteq Copies
    BY <2>1, EmitCopies
  <2> QED
    BY <2>2, CodeUnfold
<1>2. Trees \subseteq S
  <2>1. CodeRec!Ranked
    BY HeightNat DEF CodeRec!Ranked
  <2> HIDE DEF S
  <2> QED
    BY <1>1, <2>1, CodeRec!RankInduction
<1>3. Built \subseteq Trees
  BY BuiltNode
<1> QED
  BY <1>2, <1>3

\* No type has less than no data.
THEOREM SizesNat == \A t \in Built : t.size \in Nat
<1> DEFINE S == {t \in Trees : t \in Built => t.size \in Nat}
<1>1. ASSUME NEW t \in Trees, \A c \in Trees : Height(c) < Height(t) => c \in S
      PROVE  t \in S
  <2> SUFFICES ASSUME t \in Built PROVE t.size \in Nat
    OBVIOUS
  <2>1. t \in Trees /\ AsBuilt(t) /\ Children(t) \subseteq Built
    BY BuiltNode
  <2>2. \A c \in Children(t) : c.size \in Nat
    BY <1>1, <2>1, ChildrenBelow
  <2>3. t.kind \notin {"PRIMITIVE", "STRUCT"} => t.base.size \in Nat
    BY <2>2, ChildFacts
  <2>4. CASE t.kind = "PRIMITIVE"
    BY <2>4, PrimitiveFits, FitsSpan
  <2>5. CASE t.kind = "CONTIGUOUS"
    <3>1. t.size = t.count * t.base.size /\ t.count \in Nat
      BY <2>1, <2>5, NodeFields DEF AsBuilt, Contiguous
    <3> QED
      BY <2>3, <2>5, <3>1
  <2>6. CASE t.kind \in {"VECTOR", "HVECTOR"}
    <3> DEFINE k == t.count
               l == t.blocklen
               s == t.base.size
    <3>1. t.size = k * l * s /\ k \in Nat /\ l \in Nat
      BY <2>1, <2>6, NodeFields DEF AsBuilt, Vector, HVector
    <3>2. s \in Nat
      BY <2>3, <2>6
    <3> HIDE DEF k, l, s
    <3>3. k * l \in Nat
      BY <3>1
    <3> QED
      BY <3>1, <3>2, <3>3
  <2>7. CASE t.kind = "INDEXEDBLOCK"
    <3>1. t = IndexedBlock(t.blocklen, t.displs, t.base)
      BY <2>1, <2>7 DEF AsBuilt
    <3>2. t.size = t.base.size * Len(t.displs)
      BY <3>1 DEF IndexedBlock
    <3>3. Len(t.displs) \in Nat
      BY <2>1, <2>7, NodeFields
    <3> QED
      BY <2>3, <2>7, <3>2, <3>3
  <2>8. CASE t.kind = "HINDEXED"
    <3> DEFINE m == Len(t.displs)
               f == [i \in 1 .. m |-> t.base.size * t.blocklens[i]]
    <3>1. t.size = Total(f, m)
      <4>1. t = HIndexed(t.blocklens, t.displs, t.base)
        BY <2>1, <2>8 DEF AsBuilt
      <4> QED
        BY <4>1 DEF HIndexed
    <3>2. m \in Nat /\ \A i \in 1 .. m : t.blocklens[i] \in Nat
      BY <2>8, BuiltLists
    <3>3. \A i \in 1 .. m : f[i] \in Nat
      BY <2>3, <2>8, <3>2
    <3> HIDE DEF m, f
    <3> QED
      BY <3>1, <3>2, <3>3, TotalNat
  <2>9. CASE t.kind = "STRUCT"
    <3> DEFINE m == Len(t.displs)
               f == [i \in 1 .. m |-> t.bases[i].size * t.blocklens[i]]
    <3>1. t.size = Total(f, m)
      <4>1. t = Struct(t.blocklens, t.displs, t.bases)
        BY <2>1, <2>9 DEF AsBuilt
      <4> QED
        BY <4>1 DEF Struct
    <3>2. m \in Nat /\ DOMAIN t.bases = 1 .. m /\ \A i \in 1 .. m : t.blocklens[i] \in Nat
      BY <2>9, BuiltLists
    <3>3. \A i \in 1 .. m : t.bases[i].size \in Nat
      BY <2>1, <2>2, <2>9, <3>2, ChildFacts
    <3>4. \A i \in 1 .. m : f[i] \in Nat
      BY <3>2, <3>3
    <3> HIDE DEF m, f
    <3> QED
      BY <3>1, <3>2, <3>4, TotalNat
  <2>10. CASE t.kind = "RESIZED"
    <3>1. t = Resized(t.base, t.lb, Extent(t))
      BY <2>1, <2>10 DEF AsBuilt
    <3>2. t.size = t.base.size
      BY <3>1 DEF Resized
    <3> QED
      BY <2>3, <2>10, <3>2
  <2>11. t.kind \in {"PRIMITIVE", "CONTIGUOUS", "VECTOR", "HVECTOR",
                     "INDEXEDBLOCK", "HINDEXED", "STRUCT", "RESIZED"}
    BY <2>1, NodeFields
  <2> QED
    BY <2>4, <2>5, <2>6, <2>7, <2>8, <2>9, <2>10, <2>11
<1>2. Trees \subseteq S
  <2>1. CodeRec!Ranked
    BY HeightNat DEF CodeRec!Ranked
  <2> HIDE DEF S
  <2> QED
    BY <1>1, <2>1, CodeRec!RankInduction
<1>3. Built \subseteq Trees
  BY BuiltNode
<1> QED
  BY <1>2, <1>3

-----------------------------------------------------------------------------
(* Every loop meets its bound, in the code that moves the wrong bytes too. *)

\* Shifted code ends if the code does.
LEMMA AtEnds ==
    ASSUME NEW copies, Ends(copies), NEW in, NEW out
    PROVE  Ends(At(in, out, copies))
BY DEF Ends, At

\* A copy of no negative length ends.
LEMMA CopyEnds ==
    ASSUME NEW from, NEW to, NEW len \in Nat
    PROVE  Ends(Copy(from, to, len))
BY DEF Ends, Copy

\* A transfer ends if its code does.
LEMMA TransferEnds ==
    ASSUME NEW f, NEW base, NEW pack \in BOOLEAN, NEW len, Ends(f[base][pack][len]),
           NEW compact, NEW scattered
    PROVE  Ends(Transfer(f, base, pack, len, compact, scattered))
<1> DEFINE C == f[base][pack][len]
<1>1. Transfer(f, base, pack, len, compact, scattered) = Move(pack, C, compact, scattered)
  BY TransferMoves
<1> HIDE DEF C
<1>2. Ends(At(scattered, compact, C)) /\ Ends(At(compact, scattered, C))
  BY AtEnds DEF C
<1>3. Ends(Move(pack, C, compact, scattered))
  BY <1>2 DEF Move
<1> QED
  BY <1>1, <1>3

\* Copies that all end.
LEMMA AllEnd ==
    ASSUME NEW F, NEW I, \A i \in I : Ends(F[i])
    PROVE  Ends(AllOf(F, I))
BY DEF Ends, AllOf

\* The code of t ends, for any number of items but none.
Ending(t) ==
    \A pack \in BOOLEAN : \A n \in Nat :
        n > 0 \/ t.kind = "PRIMITIVE" => Ends(Code[t][pack][n])

\* The loop of a contiguous type ends.
LEMMA ContiguousEnds ==
    ASSUME NEW f, NEW base, NEW count, NEW pack \in BOOLEAN,
           Ends(f[base][pack][count]), NEW n \in Nat \ {0}, NEW in, NEW out
    PROVE  Ends(EmitContiguous(f, base, in, out, count, pack, n))
<1> DEFINE C == f[base][pack][count]
           F == [r \in 0 .. n - 1 |-> At(r * in, r * out, C)]
<1>1. Rounds(1, n) = n
  BY RoundsExact
<1>2. EmitContiguous(f, base, in, out, count, pack, n)
        = UNION {At(r * in, r * out, C) : r \in 0 .. n - 1}
  BY <1>1 DEF EmitContiguous, Loop
<1> HIDE DEF C
<1>3. UNION {At(r * in, r * out, C) : r \in 0 .. n - 1} = AllOf(F, 0 .. n - 1)
  BY DEF AllOf
<1>4. \A r \in 0 .. n - 1 : Ends(F[r])
  BY AtEnds DEF C
<1> HIDE DEF F
<1> QED
  BY <1>2, <1>3, <1>4, AllEnd

\* The loop of a resized primitive type ends.
LEMMA PrimitiveResizedEnds ==
    ASSUME NEW size \in Nat, NEW extent, NEW n \in Nat \ {0}
    PROVE  Ends(EmitPrimitiveResized(size, extent, n))
<1> DEFINE F == [r \in 0 .. n - 1 |-> Copy(r * extent, r * size, size)]
<1>1. Rounds(1, n) = n
  BY RoundsExact
<1>2. EmitPrimitiveResized(size, extent, n)
        = UNION {Copy(r * extent, r * size, size) : r \in 0 .. n - 1}
  BY <1>1 DEF EmitPrimitiveResized, Loop
<1>3. UNION {Copy(r * extent, r * size, size) : r \in 0 .. n - 1} = AllOf(F, 0 .. n - 1)
  BY DEF AllOf
<1>4. \A r \in 0 .. n - 1 : Ends(F[r])
  BY CopyEnds
<1> HIDE DEF F
<1> QED
  BY <1>2, <1>3, <1>4, AllEnd

\* The loops of a vector end.
LEMMA StridedEnds ==
    ASSUME NEW v \in Runnable, v.kind \in {"VECTOR", "HVECTOR"}, Ending(v.base),
           NEW pack \in BOOLEAN, NEW extent, NEW n \in Nat \ {0}
    PROVE  Ends(EmitStrided(Code, v, extent, pack, n))
<1> DEFINE C == Code[v.base][pack][v.blocklen]
           P == PackedStride(v)
           M == MemoryStride(v)
           m == v.count
<1>1. /\ v.base \in Runnable /\ v.blocklen \in Nat \ {0} /\ m \in Nat \ {0}
      /\ P \in Int /\ P > 0 /\ v.size = m * P
  BY StridedItems
<1>2. Ends(C)
  BY <1>1 DEF Ending
<1>3. Rounds(P, v.size) = m
  <2> HIDE DEF P, m
  <2> QED
    BY <1>1, RoundsExact
<1> HIDE DEF P, M, m
<1> DEFINE in  == IF pack THEN M ELSE P
           out == IF pack THEN P ELSE M
           x   == IF pack THEN extent ELSE v.size
           y   == IF pack THEN v.size ELSE extent
<1>4. EmitStrided(Code, v, extent, pack, n)
        = EmitVector(Code, v.base, v.blocklen, in, out, x, y, pack, n)
  <2>1. CASE pack = TRUE
    BY <2>1 DEF EmitStrided, P, M
  <2>2. CASE pack = FALSE
    BY <2>2 DEF EmitStrided, P, M
  <2> QED
    BY <2>1, <2>2
<1>5. /\ n \in Nat /\ n > 0 /\ m \in Nat /\ m > 0
      /\ m = IF pack THEN Rounds(out, y) ELSE Rounds(in, x)
  BY <1>1, <1>3
<1> HIDE DEF in, out, x, y
<1>6. EmitVector(Code, v.base, v.blocklen, in, out, x, y, pack, n)
        = UNION {UNION {At(r * x + j * in, r * y + j * out, Code[v.base][pack][v.blocklen])
                        : j \in 0 .. m - 1} : r \in 0 .. n - 1}
  BY <1>5, VectorLoops
<1> DEFINE B(r, j) == At(r * x + j * in, r * y + j * out, C)
<1>7. EmitVector(Code, v.base, v.blocklen, in, out, x, y, pack, n)
        = UNION {UNION {B(r, j) : j \in 0 .. m - 1} : r \in 0 .. n - 1}
  BY <1>6
<1> HIDE DEF C
<1>8. \A r, j : Ends(B(r, j))
  BY <1>2, AtEnds
<1> HIDE DEF B
<1> QED
  BY <1>4, <1>7, <1>8 DEF Ends

\* The unrolled code ends.
LEMMA BlocksEnd ==
    ASSUME NEW f, NEW blocks, NEW m \in Nat, DOMAIN blocks = 1 .. m,
           NEW pack \in BOOLEAN,
           \A k \in 1 .. m : Ends(f[blocks[k].base][pack][blocks[k].len]),
           NEW extent \in Int, extent > 0, NEW n \in Nat \ {0}
    PROVE  Ends(EmitBlocks(f, blocks, extent, pack, n))
<1> DEFINE Z == [b \in DOMAIN blocks |-> blocks[b].len * blocks[b].base.size]
           Before(k) == Total(Z, k - 1)
           total == n * extent
           B(r, k) == Transfer(f, blocks[k].base, pack, blocks[k].len,
                               r * Before(Len(blocks) + 1) + Before(k),
                               r * extent + blocks[k].disp)
<1>1. EmitBlocks(f, blocks, extent, pack, n)
        = IF Rounds(extent, total) = 0 THEN Runaway
          ELSE UNION {UNION {B(r, k) : k \in DOMAIN blocks}
                      : r \in 0 .. Rounds(extent, total) - 1}
  BY DEF EmitBlocks, Loop
<1>2. total = n * extent
  OBVIOUS
<1> HIDE DEF Before, total
<1>3. Rounds(extent, total) = n
  BY <1>2, RoundsExact
<1>4. \A r : \A k \in 1 .. m : Ends(B(r, k))
  BY TransferEnds
<1> HIDE DEF B
<1>5. EmitBlocks(f, blocks, extent, pack, n)
        = UNION {UNION {B(r, k) : k \in 1 .. m} : r \in 0 .. n - 1}
  BY <1>1, <1>3
<1> QED
  BY <1>4, <1>5 DEF Ends

\* The code of an indexed block ends, unrolled or looped.
LEMMA IndexedBlockEnds ==
    ASSUME NEW t \in Runnable, t.kind = "INDEXEDBLOCK", Ending(t.base),
           NEW pack \in BOOLEAN, NEW n \in Nat \ {0}
    PROVE  Ends(Code[t][pack][n])
<1> DEFINE b == t.base
           d == t.displs
           m == Len(d)
           mblocks == ElementBlocks(d, Meaning[b])
           msize   == Constant(m, b.size)
           e       == b.size
           blocks  == [k \in DOMAIN d |->
                          [disp |-> d[k] * b.size, len |-> t.blocklen, base |-> b]]
           disp    == [k \in 1 .. m |-> d[k] * e]
           copies  == [k \in 1 .. m |-> Code[b][pack][1]]
           size    == Constant(m, e)
<1>1. /\ b \in Runnable /\ t.blocklen = 1 /\ t.count = m /\ t.size = b.size * m
      /\ m \in Nat \ {0} /\ DOMAIN d = 1 .. m /\ \A k \in 1 .. m : d[k] \in Nat
      /\ Extent(b) = b.size /\ b.size \in Nat \ {0} /\ Extent(t) > 0
  <2> HIDE DEF b, d, m, mblocks, msize
  <2>1. /\ b = t.base /\ d = t.displs /\ m = Len(d)
        /\ mblocks = ElementBlocks(d, Meaning[b])
        /\ msize = Constant(m, b.size)
    BY DEF b, d, m, mblocks, msize
  <2> QED
    BY <2>1, IndexedBlockItems
<1>2. t \in Trees /\ Extent(t) \in Int /\ t.size \in Int /\ Ready(t)
  BY RunnableNode, FitsSpan
<1>3. Ends(Code[b][pack][1])
  BY DEF Ending
<1>4. Code[t][pack][n] = IF t.count > IDXB_LOOP_TRESHOLD
                         THEN EmitIndexedLoop(Code, t, pack, n)
                         ELSE EmitBlocks(Code, blocks, Extent(t), pack, n)
  <2>1. Code[t][pack][n] = EmitIndexedBlock(Code, t, pack, n)
    BY <1>2, CodeUnfold, EmitOfKinds
  <2> QED
    BY <2>1 DEF EmitIndexedBlock
<1>5. CASE ~(t.count > IDXB_LOOP_TRESHOLD)
  <2> DEFINE x == Extent(t)
  <2>1. DOMAIN blocks = 1 .. m /\ m \in Nat /\ x \in Int /\ x > 0
    BY <1>1, <1>2
  <2>2. \A k \in 1 .. m : Ends(Code[blocks[k].base][pack][blocks[k].len])
    BY <1>1, <1>3
  <2> HIDE DEF blocks, m, x
  <2>3. Ends(EmitBlocks(Code, blocks, x, pack, n))
    BY <2>1, <2>2, BlocksEnd
  <2> QED
    BY <1>4, <1>5, <2>3 DEF x
<1>6. CASE t.count > IDXB_LOOP_TRESHOLD
  <2>1. ~OpensBlocks(b, 1)
    BY <1>1, <1>2, <1>6 DEF Ready
  <2>2. Tabled(Code, pack, b, d, e, m, disp, copies)
    BY DEF Tabled
  <2>3. /\ t.base = b /\ t.displs = d /\ t.blocklen = 1 /\ t.count = m /\ t.size = e * m
        /\ DOMAIN d = 1 .. m /\ Extent(b) = e /\ e > 0 /\ m > 0 /\ n > 0
        /\ \A k \in 1 .. m : d[k] \in Nat
        /\ m \in Nat /\ e \in Nat /\ n \in Nat
    BY <1>1
  <2>4. size = Constant(m, e)
    OBVIOUS
  <2>5. \A k \in 1 .. m : Ends(copies[k])
    BY <1>3
  <2> HIDE DEF b, d, m, e, disp, copies, size
  <2>6. EmitIndexedLoop(Code, t, pack, n)
          = BlockRounds(pack, copies, size, disp, m, n, t.size, Extent(t))
    BY <2>1, <2>2, <2>3, <2>4, IndexedLoopRounds
  <2> DEFINE B(r, k) == Move(pack, copies[k], r * t.size + Total(size, k - 1),
                             r * Extent(t) + disp[k])
  <2>7. BlockRounds(pack, copies, size, disp, m, n, t.size, Extent(t))
          = UNION {UNION {B(r, k) : k \in 1 .. m} : r \in 0 .. n - 1}
    BY DEF BlockRounds, BlockRound
  <2>8. \A r : \A k \in 1 .. m : Ends(B(r, k))
    BY <2>5, AtEnds DEF Move
  <2> HIDE DEF B
  <2>9. Ends(EmitIndexedLoop(Code, t, pack, n))
    BY <2>6, <2>7, <2>8 DEF Ends
  <2> QED
    BY <1>4, <1>6, <2>9
<1> QED
  BY <1>5, <1>6

\* The code of an hindexed type ends.
LEMMA HIndexedEnds ==
    ASSUME NEW t \in Runnable, t.kind = "HINDEXED", Ending(t.base),
           NEW pack \in BOOLEAN, NEW n \in Nat \ {0}
    PROVE  Ends(Code[t][pack][n])
<1> DEFINE m == Len(t.displs)
           blocks == [k \in DOMAIN t.displs |->
                        [disp |-> t.displs[k], len |-> t.blocklens[k], base |-> t.base]]
           x == Extent(t)
<1>1. t \in Trees /\ t \in Built /\ Straight(t) /\ x \in Int
  BY RunnableNode, RegularNode, FitsSpan
<1>2. /\ m \in Nat /\ DOMAIN t.displs = 1 .. m
      /\ \A k \in 1 .. m : t.blocklens[k] \in Nat
  BY <1>1, BuiltLists
<1>3. DOMAIN t.blocklens = 1 .. m
  BY <1>1, <1>2, BuiltNode, NodeFields DEF AsBuilt
<1>4. x > 0 /\ \A k \in 1 .. m : t.blocklens[k] > 0
  BY <1>1, <1>3 DEF Straight
<1>5. \A k \in 1 .. m : Ends(Code[t.base][pack][t.blocklens[k]])
  BY <1>2, <1>4 DEF Ending
<1>6. DOMAIN blocks = 1 .. m /\ m \in Nat
      /\ \A k \in 1 .. m : Ends(Code[blocks[k].base][pack][blocks[k].len])
  BY <1>2, <1>5
<1>7. Code[t][pack][n] = EmitBlocks(Code, blocks, x, pack, n)
  <2>1. Code[t][pack][n] = EmitHIndexed(Code, t, pack, n)
    BY <1>1, CodeUnfold, EmitOfKinds
  <2> QED
    BY <2>1 DEF EmitHIndexed
<1> HIDE DEF m, blocks, x
<1> QED
  BY <1>1, <1>4, <1>6, <1>7, BlocksEnd

\* The code of a struct ends.
LEMMA StructEnds ==
    ASSUME NEW t \in Runnable, t.kind = "STRUCT", \A i \in DOMAIN t.bases : Ending(t.bases[i]),
           NEW pack \in BOOLEAN, NEW n \in Nat \ {0}
    PROVE  Ends(Code[t][pack][n])
<1> DEFINE m == Len(t.displs)
           blocks == [k \in DOMAIN t.bases |->
                        [disp |-> t.displs[k], len |-> t.blocklens[k], base |-> t.bases[k]]]
           x == Extent(t)
<1>1. t \in Trees /\ t \in Built /\ Straight(t) /\ x \in Int
  BY RunnableNode, RegularNode, FitsSpan
<1>2. /\ m \in Nat /\ DOMAIN t.bases = 1 .. m
      /\ \A k \in 1 .. m : t.blocklens[k] \in Nat
  BY <1>1, BuiltLists
<1>3. x > 0 /\ \A k \in 1 .. m : t.blocklens[k] > 0
  BY <1>1, <1>2 DEF Straight
<1>4. \A k \in 1 .. m : Ends(Code[t.bases[k]][pack][t.blocklens[k]])
  BY <1>2, <1>3 DEF Ending
<1>5. DOMAIN blocks = 1 .. m /\ m \in Nat
      /\ \A k \in 1 .. m : Ends(Code[blocks[k].base][pack][blocks[k].len])
  BY <1>2, <1>4
<1>6. Code[t][pack][n] = EmitBlocks(Code, blocks, x, pack, n)
  <2>1. Code[t][pack][n] = EmitStruct(Code, t, pack, n)
    BY <1>1, CodeUnfold, EmitOfKinds
  <2> QED
    BY <2>1 DEF EmitStruct
<1> HIDE DEF m, blocks, x
<1> QED
  BY <1>1, <1>3, <1>5, <1>6, BlocksEnd

\* No generated loop of a runnable tree misses its bound.
THEOREM RunnableEnds == \A t \in Runnable : Ending(t)
<1> DEFINE S == {t \in Trees : t \in Runnable => Ending(t)}
<1>1. ASSUME NEW t \in Trees, \A c \in Trees : Height(c) < Height(t) => c \in S
      PROVE  t \in S
  <2> SUFFICES ASSUME t \in Runnable, NEW pack \in BOOLEAN, NEW n \in Nat,
                      n > 0 \/ t.kind = "PRIMITIVE"
               PROVE  Ends(Code[t][pack][n])
    BY DEF Ending
  <2>1. Code[t][pack][n] = Emit(Code, t, pack, n)
    BY CodeUnfold
  <2>2. \A c \in Trees : Height(c) < Height(t) /\ c \in Runnable => Ending(c)
    BY <1>1
  <2>3. \A c \in Children(t) :
           c \in Trees /\ Height(c) < Height(t) /\ c \in Runnable /\ Ending(c)
    BY <2>2, RunnableNode, ChildrenBelow
  <2>4. t.kind \notin {"PRIMITIVE", "STRUCT"} => Ending(t.base)
    BY <2>3, ChildFacts
  <2>5. CASE t.kind = "PRIMITIVE"
    <3>1. Runs(t, pack)
      BY <2>5, PrimitiveRuns
    <3> QED
      BY <2>5, <3>1 DEF Runs, Moves
  <2>6. CASE t.kind = "CONTIGUOUS"
    <3> DEFINE k == t.count
    <3>1. k \in Nat /\ (k > 0 \/ t.base.kind = "PRIMITIVE")
      BY <2>6, ContiguousItems
    <3>2. \A p \in BOOLEAN : Ends(Code[t.base][p][k])
      BY <2>4, <2>6, <3>1 DEF Ending
    <3>3. n \in Nat \ {0}
      BY <2>6
    <3> HIDE DEF k
    <3>4. \A p \in BOOLEAN :
             /\ Ends(EmitContiguous(Code, t.base, Extent(t), t.size, k, p, n))
             /\ Ends(EmitContiguous(Code, t.base, t.size, Extent(t), k, p, n))
      BY <3>2, <3>3, ContiguousEnds
    <3>5. Ends(Emit(Code, t, TRUE, n)) /\ Ends(Emit(Code, t, FALSE, n))
      BY <2>6, <3>4, EmitOfContiguous DEF k
    <3> QED
      BY <2>1, <3>5
  <2>7. CASE t.kind \in {"VECTOR", "HVECTOR"}
    <3>1. n \in Nat \ {0}
      BY <2>7
    <3>2. Ends(EmitStrided(Code, t, Extent(t), pack, n))
      BY <2>4, <2>7, <3>1, StridedEnds
    <3> QED
      BY <2>1, <2>7, <3>2, EmitOfKinds
  <2>8. CASE t.kind = "INDEXEDBLOCK"
    BY <2>4, <2>8, IndexedBlockEnds
  <2>9. CASE t.kind = "HINDEXED"
    BY <2>4, <2>9, HIndexedEnds
  <2>10. CASE t.kind = "STRUCT"
    <3>1. \A i \in DOMAIN t.bases : Ending(t.bases[i])
      BY <2>3, <2>10, ChildFacts
    <3> QED
      BY <2>10, <3>1, StructEnds
  <2>11. CASE t.kind = "RESIZED"
    <3> DEFINE b == t.base
               x == Extent(t)
               s == t.size
    <3>1. b \in Runnable /\ b.kind \in ResizedKinds /\ s \in Nat
      BY <2>11, ResizedItems
    <3>2. b \in Trees /\ Height(b) < Height(t)
      BY <2>3, <2>11, ChildFacts
    <3>3. n \in Nat \ {0}
      BY <2>11
    <3>4. Emit(Code, t, pack, n) = EmitResized(Code, t, pack, n)
      BY <2>11, EmitOfKinds
    <3>5. b.kind # "PRIMITIVE" => Ending(b.base)
      <4> SUFFICES ASSUME b.kind # "PRIMITIVE" PROVE Ending(b.base)
        OBVIOUS
      <4> HIDE DEF b
      <4>1. b.base \in Children(b)
        BY <3>1, <3>2, ChildFacts DEF ResizedKinds
      <4>2. b.base \in Trees /\ Height(b.base) < Height(b) /\ b.base \in Runnable
        BY <3>1, <3>2, <4>1, ChildrenBelow, RunnableNode
      <4>3. Height(b.base) < Height(t)
        BY <3>2, <4>2, HeightNat
      <4> QED
        BY <2>2, <4>2, <4>3
    <3>6. CASE b.kind = "PRIMITIVE"
      <4>1. EmitResized(Code, t, pack, n) = EmitPrimitiveResized(s, x, n)
        BY <3>6, EmitResizedKinds
      <4> HIDE DEF s, x
      <4> QED
        BY <2>1, <3>1, <3>3, <3>4, <4>1, PrimitiveResizedEnds
    <3>7. CASE b.kind = "CONTIGUOUS"
      <4> DEFINE e == b.base
                 k == b.count
      <4>1. EmitResized(Code, t, pack, n) = EmitContiguous(Code, e, x, s, k, TRUE, n)
        BY <3>7, EmitResizedContiguous
      <4> HIDE DEF b, x, s
      <4>2. k \in Nat /\ (k > 0 \/ e.kind = "PRIMITIVE")
        BY <3>1, <3>7, ContiguousItems
      <4>3. \A p \in BOOLEAN : Ends(Code[e][p][k])
        BY <3>5, <3>7, <4>2 DEF Ending
      <4> HIDE DEF e, k
      <4>4. \A p \in BOOLEAN : Ends(EmitContiguous(Code, e, x, s, k, p, n))
        BY <3>3, <4>3, ContiguousEnds
      <4> QED
        BY <2>1, <3>4, <4>1, <4>4
    <3>8. CASE b.kind \in {"VECTOR", "HVECTOR"}
      <4>1. EmitResized(Code, t, pack, n) = EmitStrided(Code, b, x, pack, n)
        BY <3>8, EmitResizedKinds
      <4> HIDE DEF b, x
      <4>2. Ends(EmitStrided(Code, b, x, pack, n))
        BY <3>1, <3>3, <3>5, <3>8, StridedEnds
      <4> QED
        BY <2>1, <3>4, <4>1, <4>2
    <3> QED
      BY <3>1, <3>6, <3>7, <3>8 DEF ResizedKinds
  <2>12. t.kind \in {"PRIMITIVE", "CONTIGUOUS", "VECTOR", "HVECTOR",
                     "INDEXEDBLOCK", "HINDEXED", "STRUCT", "RESIZED"}
    BY NodeFields
  <2> QED
    BY <2>5, <2>6, <2>7, <2>8, <2>9, <2>10, <2>11, <2>12
<1>2. Trees \subseteq S
  <2>1. CodeRec!Ranked
    BY HeightNat DEF CodeRec!Ranked
  <2> HIDE DEF S
  <2> QED
    BY <1>1, <2>1, CodeRec!RankInduction
<1>3. Runnable \subseteq Trees
  BY RunnableNode
<1> QED
  BY <1>2, <1>3

\* The inductive invariant: the object is built by its constructors, the code
\* is that of its compressed tree, and what the last call moved is what that
\* code moves.
PackInv ==
    /\ dtype \in Built
    /\ code # NotCommitted => code = Compress[dtype]
    /\ entry \in {"none", "DDT_Pack", "DDT_Unpack", "LPK_Pack"}
    /\ entry # "none" => code # NotCommitted /\ items \in PackCounts
    /\ entry = "DDT_Pack" => moved = MovedBy(TRUE, PackCode(code, items))
    /\ entry = "DDT_Unpack" => moved = MovedBy(FALSE, UnpackCode(code, items))
    /\ items \in PackCounts \cup {0}
    /\ moved \in Maps
    /\ fault \in {"none", "assert", "runaway"}
    /\ InScope[dtype] => fault = "none"

-----------------------------------------------------------------------------
(* The objects the constructors build.                                     *)

\* A primitive type is built.
LEMMA PrimitiveBuilt ==
    ASSUME NEW p \in DOMAIN SizeOf
    PROVE  Primitive(p) \in Built
<1> DEFINE t == Primitive(p)
<1>1. t \in Prims /\ t.kind = "PRIMITIVE"
  BY DEF Prims, Primitive
<1>2. t \in Trees
  <2>1. t \in TreesTo[0]
    BY <1>1, TreesToBase
  <2>2. 0 \in Nat /\ MaxDepth \in Nat /\ 0 <= MaxDepth
    BY MaxDepthAssumption
  <2> QED
    BY <2>1, <2>2, TreesToMonotone DEF Trees
<1>3. AsBuilt(t) /\ Children(t) = {}
  BY <1>1 DEF AsBuilt, Children
<1> QED
  BY <1>2, <1>3, BuiltOver

\* The basetypes of a node over S are in S.
LEMMA NodeChildren ==
    ASSUME NEW S, NEW t \in NodesOver(S)
    PROVE  Children(t) \subseteq S
BY ChildrenOfNodes

\* A constructor applied to built objects builds one, if there is room for it.
LEMMA NodeBuilt ==
    ASSUME NEW S, S \subseteq Built, NEW t \in NodesOver(S), t \in Trees, AsBuilt(t)
    PROVE  t \in Built
<1>1. Children(t) \subseteq Built
  BY NodeChildren
<1> QED
  BY <1>1, BuiltOver

\* The call of the pack function as the model describes it.
LEMMA GatheredMoves ==
    ASSUME NEW copies
    PROVE  UNION {{Gathered(c.from + i, c.to + i) : i \in 0 .. c.len - 1} : c \in copies}
             = MovedBy(TRUE, copies)
BY DEF Gathered, MovedBy, PairOf

\* The call of the unpack function as the model describes it.
LEMMA ScatteredMoves ==
    ASSUME NEW copies
    PROVE  UNION {{Scattered(c.from + i, c.to + i) : i \in 0 .. c.len - 1} : c \in copies}
             = MovedBy(FALSE, copies)
BY DEF Scattered, MovedBy, PairOf

\* The code of a committed datatype moves bytes between numbers, and ends if
\* the datatype is in scope.
LEMMA CommittedCode ==
    ASSUME NEW t \in Built, NEW n \in Nat \ {0}
    PROVE  LET c == Compress[t]
           IN  /\ MovedBy(TRUE, PackCode(c, n)) \in Maps
               /\ MovedBy(TRUE, UnpackCode(c, n)) \in Maps
               /\ MovedBy(FALSE, UnpackCode(c, n)) \in Maps
               /\ InScope[t] => Ends(PackCode(c, n)) /\ Ends(UnpackCode(c, n))
<1> DEFINE c == Compress[t]
<1>1. c \in Built
  BY CompressBuilds
<1>2. InScope[t] => c \in Runnable
  BY ScopeRunnable
<1> HIDE DEF c
<1>3. n \in Nat /\ n > 0
  OBVIOUS
<1>4. \A p \in BOOLEAN : Code[c][p][n] \subseteq Copies
  BY <1>1, <1>3, CodeCopies DEF Copying
<1>5. InScope[t] => \A p \in BOOLEAN : Ends(Code[c][p][n])
  BY <1>2, <1>3, RunnableEnds DEF Ending
<1>6. PackCode(c, n) \subseteq Copies /\ UnpackCode(c, n) \subseteq Copies
  BY <1>4 DEF PackCode, UnpackCode
<1>7. InScope[t] => Ends(PackCode(c, n)) /\ Ends(UnpackCode(c, n))
  BY <1>5 DEF PackCode, UnpackCode
<1>8. \A p \in BOOLEAN : /\ MovedBy(p, PackCode(c, n)) \in Maps
                         /\ MovedBy(p, UnpackCode(c, n)) \in Maps
  BY <1>6, MovedPairs
<1> QED
  BY <1>7, <1>8 DEF c

-----------------------------------------------------------------------------
(* The invariant.                                                          *)

\* Init.
LEMMA FreshInv ==
    ASSUME NEW p \in Primitives, Fresh(Primitive(p))
    PROVE  PackInv
<1>1. Primitive(p) \in Built
  BY PrimitiveBuilt, ArgumentsAssumption
<1>2. {} \in Maps
  BY DEF Maps
<1> QED
  BY <1>1, <1>2 DEF Fresh, PackInv

\* A new object in place of the old one.
LEMMA WrapInv ==
    ASSUME NEW t, PackInv, Wrap(t), t \in Built
    PROVE  PackInv'
<1>1. {} \in Maps
  BY DEF Maps
<1> QED
  BY <1>1 DEF Wrap, PackInv, NotCommitted

\* DDT_Commit.
LEMMA CommitInv ==
    ASSUME PackInv, Commit
    PROVE  PackInv'
<1>1. CASE CompressAsserts[dtype]
  BY <1>1 DEF Commit, PackInv
<1>2. CASE ~CompressAsserts[dtype]
  <2>1. ~InScope[dtype]
    BY <1>2, ScopeRegular, CompressAssertsHold DEF PackInv
  <2> QED
    BY <1>2, <2>1 DEF Commit, PackInv
<1> QED
  BY <1>1, <1>2

\* Calls are for one item at least.
LEMMA PackCountsNat == \A n \in PackCounts : n \in Nat \ {0}
BY ArgumentsAssumption

\* DDT_Pack.
LEMMA PackStep ==
    ASSUME PackInv, DDT_Pack
    PROVE  PackInv'
<1>1. PICK n \in PackCounts : Call("DDT_Pack", n, PackCode(code, n), Gathered)
  BY DEF DDT_Pack
<1> DEFINE copies == PackCode(code, n)
<1>2. code # NotCommitted /\ fault = "none" /\ dtype' = dtype /\ code' = code
  BY <1>1 DEF Call
<1>3. code = Compress[dtype] /\ dtype \in Built /\ n \in Nat \ {0}
  BY <1>2, PackCountsNat DEF PackInv
<1>4. MovedBy(TRUE, copies) \in Maps /\ (InScope[dtype] => Ends(copies))
  BY <1>3, CommittedCode
<1>5. Ends(copies) => /\ moved' = UNION {{Gathered(c.from + i, c.to + i) : i \in 0 .. c.len - 1}
                                         : c \in copies}
                      /\ entry' = "DDT_Pack" /\ items' = n /\ fault' = fault
  BY <1>1 DEF Call
<1>6. ~Ends(copies) => fault' = "runaway" /\ entry' = entry /\ items' = items /\ moved' = moved
  BY <1>1 DEF Call
<1>7. Ends(copies) => moved' = MovedBy(TRUE, copies)
  BY <1>5, GatheredMoves
<1>8. CASE Ends(copies)
  <2>1. /\ moved' = MovedBy(TRUE, PackCode(code, n)) /\ moved' \in Maps
        /\ entry' = "DDT_Pack" /\ items' = n /\ fault' = "none"
    BY <1>2, <1>4, <1>5, <1>7, <1>8
  <2> QED
    BY <1>2, <2>1 DEF PackInv
<1>9. CASE ~Ends(copies)
  <2>1. ~InScope[dtype]
    BY <1>4, <1>9
  <2> HIDE DEF copies
  <2> QED
    BY <1>2, <1>6, <1>9, <2>1 DEF PackInv
<1> QED
  BY <1>8, <1>9

\* DDT_Unpack.
LEMMA UnpackStep ==
    ASSUME PackInv, DDT_Unpack
    PROVE  PackInv'
<1>1. PICK n \in PackCounts : Call("DDT_Unpack", n, UnpackCode(code, n), Scattered)
  BY DEF DDT_Unpack
<1> DEFINE copies == UnpackCode(code, n)
<1>2. code # NotCommitted /\ fault = "none" /\ dtype' = dtype /\ code' = code
  BY <1>1 DEF Call
<1>3. code = Compress[dtype] /\ dtype \in Built /\ n \in Nat \ {0}
  BY <1>2, PackCountsNat DEF PackInv
<1>4. MovedBy(FALSE, copies) \in Maps /\ (InScope[dtype] => Ends(copies))
  BY <1>3, CommittedCode
<1>5. Ends(copies) => /\ moved' = UNION {{Scattered(c.from + i, c.to + i) : i \in 0 .. c.len - 1}
                                         : c \in copies}
                      /\ entry' = "DDT_Unpack" /\ items' = n /\ fault' = fault
  BY <1>1 DEF Call
<1>6. ~Ends(copies) => fault' = "runaway" /\ entry' = entry /\ items' = items /\ moved' = moved
  BY <1>1 DEF Call
<1>7. Ends(copies) => moved' = MovedBy(FALSE, copies)
  BY <1>5, ScatteredMoves
<1>8. CASE Ends(copies)
  <2>1. /\ moved' = MovedBy(FALSE, UnpackCode(code, n)) /\ moved' \in Maps
        /\ entry' = "DDT_Unpack" /\ items' = n /\ fault' = "none"
    BY <1>2, <1>4, <1>5, <1>7, <1>8
  <2> QED
    BY <1>2, <2>1 DEF PackInv
<1>9. CASE ~Ends(copies)
  <2>1. ~InScope[dtype]
    BY <1>4, <1>9
  <2> HIDE DEF copies
  <2> QED
    BY <1>2, <1>6, <1>9, <2>1 DEF PackInv
<1> QED
  BY <1>8, <1>9

\* LPK_Pack.
LEMMA LpkPackStep ==
    ASSUME PackInv, LPK_Pack
    PROVE  PackInv'
<1>1. PICK n \in PackCounts : Call("LPK_Pack", n, UnpackCode(code, n), Gathered)
  BY DEF LPK_Pack
<1> DEFINE copies == UnpackCode(code, n)
<1>2. code # NotCommitted /\ fault = "none" /\ dtype' = dtype /\ code' = code
  BY <1>1 DEF Call
<1>3. code = Compress[dtype] /\ dtype \in Built /\ n \in Nat \ {0}
  BY <1>2, PackCountsNat DEF PackInv
<1>4. MovedBy(TRUE, copies) \in Maps /\ (InScope[dtype] => Ends(copies))
  BY <1>3, CommittedCode
<1>5. Ends(copies) => /\ moved' = UNION {{Gathered(c.from + i, c.to + i) : i \in 0 .. c.len - 1}
                                         : c \in copies}
                      /\ entry' = "LPK_Pack" /\ items' = n /\ fault' = fault
  BY <1>1 DEF Call
<1>6. ~Ends(copies) => fault' = "runaway" /\ entry' = entry /\ items' = items /\ moved' = moved
  BY <1>1 DEF Call
<1>7. Ends(copies) => moved' = MovedBy(TRUE, copies)
  BY <1>5, GatheredMoves
<1>8. CASE Ends(copies)
  <2>1. moved' \in Maps /\ entry' = "LPK_Pack" /\ items' = n /\ fault' = "none"
    BY <1>2, <1>4, <1>5, <1>7, <1>8
  <2> QED
    BY <1>2, <2>1 DEF PackInv
<1>9. CASE ~Ends(copies)
  <2>1. ~InScope[dtype]
    BY <1>4, <1>9
  <2> HIDE DEF copies
  <2> QED
    BY <1>2, <1>6, <1>9, <2>1 DEF PackInv
<1> QED
  BY <1>8, <1>9

\* The object a constructor clones.
LEMMA DtypeNode ==
    ASSUME PackInv
    PROVE  dtype \in {dtype} /\ {dtype} \subseteq Built /\ Attributed(dtype)
BY BuiltAttributed DEF PackInv

\* Each constructor builds a tree over the one there is.
LEMMA ContiguousStep ==
    ASSUME PackInv, NewContiguous
    PROVE  PackInv'
<1>1. PICK c \in Counts : Wrap(Contiguous(c, dtype))
  BY DEF NewContiguous
<1> DEFINE t == Contiguous(c, dtype)
           D == {dtype}
<1>2. c \in Nat
  BY ArgumentsAssumption
<1>3. dtype \in D /\ D \subseteq Built /\ Attributed(dtype)
  BY DtypeNode
<1>4. t \in Trees
  BY <1>1 DEF Wrap
<1> HIDE DEF D
<1>5. t \in NodesOver(D) /\ AsBuilt(t)
  BY <1>2, <1>3, ContiguousNode
<1> HIDE DEF t
<1>6. t \in Built
  BY <1>3, <1>4, <1>5, NodeBuilt
<1> QED
  BY <1>1, <1>6, WrapInv DEF t

\* NewVector.
LEMMA VectorStep ==
    ASSUME PackInv, NewVector
    PROVE  PackInv'
<1>1. PICK c \in Counts, b \in Blocklens, s \in Strides : Wrap(Vector(c, b, s, dtype))
  BY DEF NewVector
<1> DEFINE t == Vector(c, b, s, dtype)
           D == {dtype}
<1>2. c \in Nat /\ b \in Nat /\ s \in Int
  BY ArgumentsAssumption
<1>3. dtype \in D /\ D \subseteq Built /\ Attributed(dtype)
  BY DtypeNode
<1>4. t \in Trees
  BY <1>1 DEF Wrap
<1> HIDE DEF D
<1>5. t \in NodesOver(D) /\ AsBuilt(t)
  BY <1>2, <1>3, VectorNode
<1> HIDE DEF t
<1>6. t \in Built
  BY <1>3, <1>4, <1>5, NodeBuilt
<1> QED
  BY <1>1, <1>6, WrapInv DEF t

\* NewHVector.
LEMMA HVectorStep ==
    ASSUME PackInv, NewHVector
    PROVE  PackInv'
<1>1. PICK c \in Counts, b \in Blocklens, s \in ByteStrides : Wrap(HVector(c, b, s, dtype))
  BY DEF NewHVector
<1> DEFINE t == HVector(c, b, s, dtype)
           D == {dtype}
<1>2. c \in Nat /\ b \in Nat /\ s \in Int
  BY ArgumentsAssumption
<1>3. dtype \in D /\ D \subseteq Built /\ Attributed(dtype)
  BY DtypeNode
<1>4. t \in Trees
  BY <1>1 DEF Wrap
<1> HIDE DEF D
<1>5. t \in NodesOver(D) /\ AsBuilt(t)
  BY <1>2, <1>3, HVectorNode
<1> HIDE DEF t
<1>6. t \in Built
  BY <1>3, <1>4, <1>5, NodeBuilt
<1> QED
  BY <1>1, <1>6, WrapInv DEF t

\* NewIndexedBlock.
LEMMA IndexedBlockStep ==
    ASSUME PackInv, NewIndexedBlock
    PROVE  PackInv'
<1>1. PICK b \in Blocklens, ds \in ElementDispls : Wrap(IndexedBlock(b, ds, dtype))
  BY DEF NewIndexedBlock
<1> DEFINE t == IndexedBlock(b, ds, dtype)
           D == {dtype}
<1>2. b \in Nat /\ ds \in Seq(Int)
  BY ArgumentsAssumption
<1>3. dtype \in D /\ D \subseteq Built /\ Attributed(dtype)
  BY DtypeNode
<1>4. t \in Trees
  BY <1>1 DEF Wrap
<1> HIDE DEF D
<1>5. t \in NodesOver(D) /\ AsBuilt(t)
  BY <1>2, <1>3, IndexedBlockNode
<1> HIDE DEF t
<1>6. t \in Built
  BY <1>3, <1>4, <1>5, NodeBuilt
<1> QED
  BY <1>1, <1>6, WrapInv DEF t

\* A list of the length of another.
LEMMA ListOver ==
    ASSUME NEW S, NEW T, NEW d \in Seq(S), NEW l \in [DOMAIN d -> T]
    PROVE  l \in Seq(T) /\ Len(l) = Len(d)
<1> DEFINE m == Len(d)
<1>1. m \in Nat /\ DOMAIN d = 1 .. m
  OBVIOUS
<1> HIDE DEF m
<1>2. l \in [1 .. m -> T]
  BY <1>1
<1>3. l \in Seq(T) /\ Len(l) = m
  BY <1>1, <1>2
<1> QED
  BY <1>3 DEF m

\* NewHIndexed.
LEMMA HIndexedStep ==
    ASSUME PackInv, NewHIndexed
    PROVE  PackInv'
<1>0. PICK ds \in ByteDispls : \E bs \in [DOMAIN ds -> Blocklens] : Wrap(HIndexed(bs, ds, dtype))
  BY DEF NewHIndexed
<1>1. PICK bs \in [DOMAIN ds -> Blocklens] : Wrap(HIndexed(bs, ds, dtype))
  BY <1>0
<1> DEFINE t == HIndexed(bs, ds, dtype)
           D == {dtype}
<1>2. ds \in Seq(Int) /\ bs \in [DOMAIN ds -> Nat]
  BY ArgumentsAssumption
<1>3. bs \in Seq(Nat) /\ Len(bs) = Len(ds)
  BY <1>2, ListOver
<1>4. dtype \in D /\ D \subseteq Built /\ Attributed(dtype)
  BY DtypeNode
<1>5. t \in Trees
  BY <1>1 DEF Wrap
<1> HIDE DEF D
<1>6. t \in NodesOver(D) /\ AsBuilt(t)
  BY <1>2, <1>3, <1>4, HIndexedNode
<1> HIDE DEF t
<1>7. t \in Built
  BY <1>4, <1>5, <1>6, NodeBuilt
<1> QED
  BY <1>1, <1>7, WrapInv DEF t

\* NewStruct.
LEMMA StructStep ==
    ASSUME PackInv, NewStruct
    PROVE  PackInv'
<1>0. PICK ds \in ByteDispls, p \in Primitives :
         \E bs \in [DOMAIN ds -> Blocklens], f \in DOMAIN ds :
            Wrap(Struct(bs, ds, [i \in DOMAIN ds |-> IF i = f THEN dtype ELSE Primitive(p)]))
  BY DEF NewStruct
<1>1. PICK bs \in [DOMAIN ds -> Blocklens], f \in DOMAIN ds :
         Wrap(Struct(bs, ds, [i \in DOMAIN ds |-> IF i = f THEN dtype ELSE Primitive(p)]))
  BY <1>0
<1> DEFINE bases == [i \in DOMAIN ds |-> IF i = f THEN dtype ELSE Primitive(p)]
           t == Struct(bs, ds, bases)
           D == {dtype, Primitive(p)}
<1>2. ds \in Seq(Int) /\ bs \in [DOMAIN ds -> Nat] /\ p \in DOMAIN SizeOf
  BY ArgumentsAssumption
<1>3. bs \in Seq(Nat) /\ Len(bs) = Len(ds)
  BY <1>2, ListOver
<1>4. D \subseteq Built
  BY <1>2, PrimitiveBuilt DEF PackInv
<1>5. bases \in [DOMAIN ds -> D]
  OBVIOUS
<1>6. t \in Trees
  BY <1>1 DEF Wrap
<1> HIDE DEF D, bases
<1>7. bases \in Seq(D) /\ Len(bases) = Len(ds)
  BY <1>2, <1>5, ListOver
<1>8. \A i \in DOMAIN bases : Attributed(bases[i])
  BY <1>4, <1>5, BuiltAttributed
<1>9. t \in NodesOver(D) /\ AsBuilt(t)
  BY <1>2, <1>3, <1>7, <1>8, StructNode
<1> HIDE DEF t
<1>10. t \in Built
  BY <1>4, <1>6, <1>9, NodeBuilt
<1> QED
  BY <1>1, <1>10, WrapInv DEF t, bases

\* NewResized.
LEMMA ResizedStep ==
    ASSUME PackInv, NewResized
    PROVE  PackInv'
<1>1. PICK lb \in LowerBounds, e \in Extents : Wrap(Resized(dtype, lb, e))
  BY DEF NewResized
<1> DEFINE t == Resized(dtype, lb, e)
           D == {dtype}
<1>2. lb \in Int /\ e \in Int
  BY ArgumentsAssumption
<1>3. dtype \in D /\ D \subseteq Built /\ Attributed(dtype)
  BY DtypeNode
<1>4. t \in Trees
  BY <1>1 DEF Wrap
<1> HIDE DEF D
<1>5. t \in NodesOver(D) /\ AsBuilt(t)
  BY <1>2, <1>3, ResizedNode
<1> HIDE DEF t
<1>6. t \in Built
  BY <1>3, <1>4, <1>5, NodeBuilt
<1> QED
  BY <1>1, <1>6, WrapInv DEF t

\* The invariant is inductive.
THEOREM PackInvHolds == Spec => []PackInv
<1>1. Init => PackInv
  BY FreshInv DEF Init
<1>2. PackInv /\ [Next]_vars => PackInv'
  <2> SUFFICES ASSUME PackInv, [Next]_vars
               PROVE  PackInv'
    OBVIOUS
  <2>1. CASE NewContiguous
    BY <2>1, ContiguousStep
  <2>2. CASE NewVector
    BY <2>2, VectorStep
  <2>3. CASE NewHVector
    BY <2>3, HVectorStep
  <2>4. CASE NewIndexedBlock
    BY <2>4, IndexedBlockStep
  <2>5. CASE NewHIndexed
    BY <2>5, HIndexedStep
  <2>6. CASE NewStruct
    BY <2>6, StructStep
  <2>7. CASE NewResized
    BY <2>7, ResizedStep
  <2>8. CASE Commit
    BY <2>8, CommitInv
  <2>9. CASE DDT_Pack
    BY <2>9, PackStep
  <2>10. CASE DDT_Unpack
    BY <2>10, UnpackStep
  <2>11. CASE LPK_Pack
    BY <2>11, LpkPackStep
  <2>12. CASE UNCHANGED vars
    BY <2>12 DEF PackInv, vars
  <2> QED
    BY <2>1, <2>2, <2>3, <2>4, <2>5, <2>6, <2>7, <2>8, <2>9, <2>10, <2>11, <2>12 DEF Next
<1> QED
  BY <1>1, <1>2, PTL DEF Spec

-----------------------------------------------------------------------------
(* The properties.                                                         *)

\* The objects, buffers and faults of every life of a datatype are of their
\* types: sizes are never negative and every byte moved lies at a number, for
\* datatypes out of scope too.
THEOREM PackingTypeCorrectness == Spec => []TypeOK
<1>1. PackInv => TypeOK
  <2> SUFFICES ASSUME PackInv PROVE TypeOK
    OBVIOUS
  <2>1. dtype \in Built /\ dtype \in Trees
    BY BuiltNode DEF PackInv
  <2>2. dtype.size \in Nat /\ dtype.lb \in Int /\ dtype.ub \in Int
    BY <2>1, SizesNat, BuiltInts
  <2>3. dtype.kind \in {"PRIMITIVE", "CONTIGUOUS", "VECTOR", "HVECTOR",
                        "INDEXEDBLOCK", "HINDEXED", "STRUCT", "RESIZED"}
    BY <2>1, NodeFields
  <2> QED
    BY <2>2, <2>3 DEF PackInv, TypeOK, Maps
<1> QED
  BY <1>1, PackInvHolds, PTL

\* The constructors in ddt_jit.cpp: the size and the bounds they derive step by
\* step are those of the type map, for every datatype in scope.
THEOREM BoundsAlwaysMatch == Spec => []BoundsMatchTypeMap
<1>1. PackInv => BoundsMatchTypeMap
  <2> SUFFICES ASSUME PackInv, InScope[dtype]
               PROVE  LET m == Meaning[dtype]
                      IN  dtype.size = Bytes(m) /\ dtype.lb = m.lb /\ dtype.ub = m.ub
    BY DEF BoundsMatchTypeMap
  <2>1. Fits(dtype)
    BY ScopeRegular, RegularFits DEF PackInv
  <2> QED
    BY <2>1, FitsSpan DEF Fits
<1> QED
  BY <1>1, PackInvHolds, PTL

\* Datatype::compress(): the tree the code is generated from has the type map
\* and the bounds of the one that was committed.
THEOREM CompressionAlwaysKeepsMeaning == Spec => []CompressionKeepsMeaning
<1>1. PackInv => CompressionKeepsMeaning
  <2> SUFFICES ASSUME PackInv, code # NotCommitted, InScope[dtype]
               PROVE  SameMeaning(code, dtype)
    BY DEF CompressionKeepsMeaning
  <2>1. code = Compress[dtype] /\ dtype \in Regular
    BY ScopeRegular DEF PackInv
  <2>2. Meaning[code] = Meaning[dtype]
    BY <2>1, CompressStands, StandsFacts
  <2> QED
    BY <2>2 DEF SameMeaning
<1> QED
  BY <1>1, PackInvHolds, PTL

\* What the code of n items of a datatype in scope moves, and what it should.
LEMMA ScopeItems ==
    ASSUME NEW t \in Built, InScope[t], NEW n \in Nat \ {0}, NEW c, c = Compress[t]
    PROVE  /\ MovedBy(TRUE, PackCode(c, n)) = Packed(Meaning[t], n)
           /\ Restorable[c] => MovedBy(FALSE, UnpackCode(c, n)) = Packed(Meaning[t], n)
           /\ {m[1] : m \in Packed(Meaning[t], n)} = 0 .. n * t.size - 1
<1>1. t \in Regular /\ c \in Runnable
  BY ScopeRegular, ScopeRunnable
<1>2. Stands(c, t)
  BY <1>1, CompressStands
<1>3. c.size = t.size /\ Extent(c) = Extent(t) /\ Meaning[c] = Meaning[t] /\ Fits(t)
  BY <1>1, <1>2, StandsFacts
<1>4. Layout(Meaning[t], t.size) /\ Span(Meaning[t]) = Extent(t)
  BY <1>3, FitsSpan
<1>5. n \in Nat /\ n > 0
  OBVIOUS
<1>6. /\ Packed(Meaning[t], n) = Reps(Meaning[t].map, n, t.size, Extent(t))
      /\ Lays(Packed(Meaning[t], n), n * t.size)
  <2>1. /\ Repeated(n, Meaning[t]).map = Reps(Meaning[t].map, n, t.size, Span(Meaning[t]))
        /\ Lays(Repeated(n, Meaning[t]).map, n * t.size)
    BY <1>4, RepeatedMap
  <2> QED
    BY <1>4, <2>1 DEF Packed
<1>7. Packed(Meaning[t], n) = Items(c, n)
  BY <1>3, <1>6 DEF Items
<1>8. \A p \in BOOLEAN : p \/ Restorable[c] => MovedBy(p, Code[c][p][n]) = Items(c, n)
  <2> SUFFICES ASSUME NEW p \in BOOLEAN, p \/ Restorable[c]
               PROVE  MovedBy(p, Code[c][p][n]) = Items(c, n)
    OBVIOUS
  <2>1. Runs(c, p)
    BY <1>1, RunnableRuns
  <2>2. Moves(p, Code[c][p][n], Items(c, n))
    BY <1>5, <2>1, BaseRuns
  <2> QED
    BY <2>2 DEF Moves
<1>9. /\ MovedBy(TRUE, Code[c][TRUE][n]) = Items(c, n)
      /\ Restorable[c] => MovedBy(FALSE, Code[c][FALSE][n]) = Items(c, n)
  BY <1>8
<1>10. {m[1] : m \in Packed(Meaning[t], n)} = 0 .. n * t.size - 1
  <2> DEFINE P == Packed(Meaning[t], n)
             s == n * t.size
  <2>1. Lays(P, s)
    BY <1>6
  <2> HIDE DEF P, s
  <2>2. {m[1] : m \in P} = 0 .. s - 1
    BY <2>1, LaysPositions
  <2> QED
    BY <2>2 DEF P, s
<1> QED
  BY <1>7, <1>9, <1>10 DEF PackCode, UnpackCode

\* DDT_Pack(): the generated code moves the bytes of the type map, each to its
\* position, and fills the packed buffer without a gap.
THEOREM PackAlwaysFollows == Spec => []PackFollowsTypeMap
<1>1. PackInv => PackFollowsTypeMap
  <2> SUFFICES ASSUME PackInv, entry = "DDT_Pack", InScope[dtype]
               PROVE  /\ moved = Packed(Meaning[dtype], items)
                      /\ {m[1] : m \in moved} = 0 .. items * dtype.size - 1
    BY DEF PackFollowsTypeMap
  <2>1. /\ dtype \in Built /\ code = Compress[dtype] /\ items \in PackCounts
        /\ moved = MovedBy(TRUE, PackCode(code, items))
    BY DEF PackInv
  <2>2. items \in Nat \ {0}
    BY <2>1, PackCountsNat
  <2>3. /\ moved = Packed(Meaning[dtype], items)
        /\ {m[1] : m \in Packed(Meaning[dtype], items)} = 0 .. items * dtype.size - 1
    BY <2>1, <2>2, ScopeItems
  <2> QED
    BY <2>3
<1> QED
  BY <1>1, PackInvHolds, PTL

\* DDT_Unpack(): the generated code puts every packed byte where the type map
\* has it and writes to no other.
THEOREM UnpackAlwaysFollows == Spec => []UnpackFollowsTypeMap
<1>1. PackInv => UnpackFollowsTypeMap
  <2> SUFFICES ASSUME PackInv, entry = "DDT_Unpack", InScope[dtype], Restorable[code]
               PROVE  moved = Packed(Meaning[dtype], items)
    BY DEF UnpackFollowsTypeMap
  <2>1. /\ dtype \in Built /\ code = Compress[dtype] /\ items \in PackCounts
        /\ moved = MovedBy(FALSE, UnpackCode(code, items))
    BY DEF PackInv
  <2>2. items \in Nat \ {0}
    BY <2>1, PackCountsNat
  <2> QED
    BY <2>1, <2>2, ScopeItems
<1> QED
  BY <1>1, PackInvHolds, PTL

\* compile(), DDT_Pack(), DDT_Unpack() and LPK_Pack(): for a datatype in scope
\* no assertion of compress() fails and no generated loop misses its bound.
THEOREM CodeAlwaysEnds == Spec => []CodeEnds
<1>1. PackInv => CodeEnds
  BY DEF PackInv, CodeEnds
<1> QED
  BY <1>1, PackInvHolds, PTL
=============================================================================
