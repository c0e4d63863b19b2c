------------------------- MODULE DatatypeTreeProofs -------------------------
(***************************************************************************)
(* What one level of the datatype tree guarantees for every count, block   *)
(* length and forward stride: compression keeps the size and both bounds,  *)
(* and the bounds of the strided types are the hull of their items.        *)
(*                                                                         *)
(* Then what the proofs about whole trees rest on: sums, the height of a   *)
(* tree, and the algebra of type maps, with the bytes and the bounds of    *)
(* assembled blocks.                                                       *)
(***************************************************************************)
EXTENDS TypeMap, FiniteSetTheorems, Functions, TLAPS

\* The attributes of a node are integers.
Attributed(t) == t.size \in Int /\ t.lb \in Int /\ t.ub \in Int

\* c stands for b after compression: the induction hypothesis on the tree.
\* A contiguous c was built by its constructor.
Replaces(c, b) ==
    /\ Attributed(b) /\ Attributed(c)
    /\ c.size = b.size /\ c.lb = b.lb /\ c.ub = b.ub
    /\ c.kind = "CONTIGUOUS" =>
          \E k, e : k \in Nat /\ Attributed(e) /\ c = Contiguous(k, e)

\* The new node has all three attributes of the old one.
SameAttributes(t, c) == c.size = t.size /\ c.lb = t.lb /\ c.ub = t.ub

-----------------------------------------------------------------------------
(* The integer facts the provers are not left to find.                     *)

LEMMA ProductPositive ==
    ASSUME NEW a \in Int, NEW b \in Int, a > 0, b > 0
    PROVE  a * b > 0
  BY SMTT(30)

LEMMA ProductMonotone ==
    ASSUME NEW a \in Int, NEW b \in Int, NEW c \in Int, a <= b, c >= 0
    PROVE  a * c <= b * c
  BY SMTT(30)

\* k copies of a block of q items of width w, and k * q items of width w.
LEMMA Regroup ==
    ASSUME NEW a \in Int, NEW q \in Int, NEW w \in Int
    PROVE  a * (q * w) = (a * q) * w
  BY SMTT(30)

-----------------------------------------------------------------------------
(* What the constructors compute.                                          *)

LEMMA ContiguousAttributes ==
    ASSUME NEW k \in Int, NEW e, Attributed(e)
    PROVE  LET c == Contiguous(k, e)
           IN  /\ c.size = k * e.size
               /\ c.lb = e.lb
               /\ c.ub = e.lb + k * Extent(e)
               /\ Extent(c) = k * Extent(e)
               /\ Attributed(c)
  BY SMTT(30) DEF Contiguous, Extent, Attributed

LEMMA VectorAttributes ==
    ASSUME NEW count \in Int, NEW blocklen \in Int, NEW stride \in Int,
           stride > 0, NEW e, Attributed(e)
    PROVE  LET v == Vector(count, blocklen, stride, e)
           IN  /\ v.size = (count * blocklen) * e.size
               /\ v.lb = e.lb
               /\ v.ub = e.lb + (stride * (count - 1) + blocklen) * Extent(e)
               /\ Attributed(v)
<1> DEFINE r == stride * (count - 1) + blocklen
<1>1. r \in Int /\ Extent(e) \in Int
  BY DEF Attributed, Extent
<1>2. (r - 1) * Extent(e) = r * Extent(e) - Extent(e)
  BY <1>1, SMTT(30)
<1> QED
  BY <1>1, <1>2, SMTT(30) DEF Vector, Extent, Attributed

LEMMA HVectorAttributes ==
    ASSUME NEW count \in Int, count # 0, NEW blocklen \in Int,
           NEW stride \in Int, stride > 0, NEW e, Attributed(e)
    PROVE  LET v == HVector(count, blocklen, stride, e)
           IN  /\ v.size = (count * blocklen) * e.size
               /\ v.lb = e.lb
               /\ v.ub = e.lb + stride * (count - 1) + blocklen * Extent(e)
               /\ Attributed(v)
<1>1. Extent(e) \in Int
  BY DEF Attributed, Extent
<1>2. (blocklen - 1) * Extent(e) = blocklen * Extent(e) - Extent(e)
  BY <1>1, SMTT(30)
<1> QED
  BY <1>1, <1>2, SMTT(30) DEF HVector, Extent, Attributed

-----------------------------------------------------------------------------
(* compress(): the assertions hold at every node whose basetype kept its   *)
(* attributes, and the node keeps its own, so that they hold at the node   *)
(* above as well.                                                          *)

\* ContiguousDatatype::compress keeps the size and both bounds whatever the
\* count is: the two assertions at its end cannot fail.
THEOREM CompressContiguousKeeps ==
    ASSUME NEW count \in Int, NEW base, NEW cbase, Replaces(cbase, base)
    PROVE  LET t == Contiguous(count, base)
               c == CompressContiguous(t, cbase)
           IN  KeepsSizeAndExtent(t, c) /\ SameAttributes(t, c)
<1> DEFINE t == Contiguous(count, base)
           c == CompressContiguous(t, cbase)
<1>1. Attributed(base) /\ Attributed(cbase) /\ Extent(cbase) = Extent(base)
  BY DEF Replaces, Extent
<1>2. /\ t.count = count /\ t.size = count * base.size
      /\ t.lb = base.lb /\ t.ub = base.lb + count * Extent(base)
  <2>1. t.count = count
    BY DEF Contiguous
  <2> QED
    BY <1>1, <2>1, ContiguousAttributes
<1>3. SameAttributes(t, c)
  <2>1. CASE ~Dissolves(cbase)
    <3>1. c = Contiguous(count, cbase)
      BY <1>2, <2>1 DEF CompressContiguous
    <3> QED
      BY <1>1, <1>2, <3>1, ContiguousAttributes DEF SameAttributes, Replaces
  <2>2. CASE Dissolves(cbase)
    <3>1. PICK k, e : k \in Nat /\ Attributed(e) /\ cbase = Contiguous(k, e)
      BY <2>2 DEF Dissolves, Replaces
    <3>k. k \in Int
      BY <3>1
    <3> USE <3>k
    <3>2. cbase.count = k /\ cbase.base = e
      BY <3>1 DEF Contiguous
    <3>3. c = Contiguous(count * k, e)
      BY <1>2, <2>2, <3>2 DEF CompressContiguous
    <3>4. /\ base.size = k * e.size /\ base.lb = e.lb
          /\ Extent(base) = k * Extent(e)
      BY <1>1, <3>1, ContiguousAttributes DEF Replaces
    <3>5. c.size = (count * k) * e.size /\ c.lb = e.lb
          /\ c.ub = e.lb + (count * k) * Extent(e)
      BY <3>1, <3>3, ContiguousAttributes
    <3>6. e.size \in Int /\ Extent(e) \in Int
      BY <3>1 DEF Attributed, Extent
    <3>7. /\ count * (k * e.size) = (count * k) * e.size
          /\ count * (k * Extent(e)) = (count * k) * Extent(e)
      BY <3>6, Regroup
    <3> QED
      BY <1>2, <3>4, <3>5, <3>7 DEF SameAttributes
  <2> QED
    BY <2>1, <2>2
<1> QED
  BY <1>3 DEF SameAttributes, KeepsSizeAndExtent, Extent

\* VectorDatatype::compress, with a stride that runs forward, keeps the size
\* and both bounds, whether the basetype dissolves into the block length,
\* whether the vector then becomes contiguous, or both.
THEOREM CompressVectorKeeps ==
    ASSUME NEW count \in Int, NEW blocklen \in Int, NEW stride \in Int,
           stride > 0, NEW base, NEW cbase, Replaces(cbase, base),
           cbase.kind = "CONTIGUOUS" => cbase.count > 0
    PROVE  LET t == Vector(count, blocklen, stride, base)
               c == CompressVector(t, cbase)
           IN  KeepsSizeAndExtent(t, c) /\ SameAttributes(t, c)
<1> DEFINE t == Vector(count, blocklen, stride, base)
           c == CompressVector(t, cbase)
           reach == stride * (count - 1) + blocklen
<1>1. Attributed(base) /\ Attributed(cbase) /\ Extent(cbase) = Extent(base)
  BY DEF Replaces, Extent
<1>2. /\ t.count = count /\ t.blocklen = blocklen /\ t.stride = stride
      /\ t.size = (count * blocklen) * base.size
      /\ t.lb = base.lb /\ t.ub = base.lb + reach * Extent(base)
  <2>1. t.count = count /\ t.blocklen = blocklen /\ t.stride = stride
    BY DEF Vector
  <2> QED
    BY <1>1, <2>1, VectorAttributes
<1>3. SUFFICES SameAttributes(t, c)
  BY DEF SameAttributes, KeepsSizeAndExtent, Extent
\* The promotion to a contiguous type, of any vector v that is already right.
<1>4. ASSUME NEW b \in Int, NEW s \in Int, s > 0, NEW e, Attributed(e),
             LET v == Vector(count, b, s, e) IN SameAttributes(t, v),
             c = IF s = b THEN Contiguous(count * b, e)
                          ELSE Vector(count, b, s, e)
      PROVE  SameAttributes(t, c)
  <2> DEFINE v == Vector(count, b, s, e)
  <2>1. CASE s # b
    BY <1>4, <2>1
  <2>2. CASE s = b
    <3>1. c = Contiguous(count * b, e)
      BY <1>4, <2>2
    <3>2. /\ v.size = (count * b) * e.size /\ v.lb = e.lb
          /\ v.ub = e.lb + (s * (count - 1) + b) * Extent(e)
      BY <1>4, VectorAttributes
    <3>3. s * (count - 1) + b = count * b
      BY <2>2, SMTT(30)
    <3>4. count * b \in Int
      OBVIOUS
    <3>5. /\ c.size = (count * b) * e.size /\ c.lb = e.lb
          /\ c.ub = e.lb + (count * b) * Extent(e)
      BY <1>4, <3>1, <3>4, ContiguousAttributes
    <3>6. v.size = c.size /\ v.lb = c.lb /\ v.ub = c.ub
      BY <3>2, <3>3, <3>5
    <3>7. SameAttributes(t, v)
      BY <1>4
    <3> QED
      BY <3>6, <3>7 DEF SameAttributes
  <2> QED
    BY <2>1, <2>2
<1>5. CASE ~Dissolves(cbase)
  <2>1. LET v == Vector(count, blocklen, stride, cbase) IN SameAttributes(t, v)
    BY <1>1, <1>2, VectorAttributes DEF SameAttributes, Replaces
  <2>2. LET v == Vector(count, blocklen, stride, cbase)
        IN  v.count = count /\ v.blocklen = blocklen /\ v.stride = stride
            /\ v.base = cbase
    BY DEF Vector
  <2>3. c = IF stride = blocklen THEN Contiguous(count * blocklen, cbase)
                                 ELSE Vector(count, blocklen, stride, cbase)
    BY <1>2, <1>5, <2>2 DEF CompressVector
  <2> QED
    BY <1>1, <1>4, <2>1, <2>3
<1>6. CASE Dissolves(cbase)
  <2>1. PICK k, e : k \in Nat /\ Attributed(e) /\ cbase = Contiguous(k, e)
    BY <1>6 DEF Dissolves, Replaces
  <2>k. k \in Int
    BY <2>1
  <2> USE <2>k
  <2>2. cbase.count = k /\ cbase.base = e
    BY <2>1 DEF Contiguous
  <2> DEFINE b == blocklen * k
             s == stride * k
             v == Vector(count, b, s, e)
  <2>3. b \in Int /\ s \in Int /\ s > 0
    BY <1>6, <2>1, <2>2, ProductPositive DEF Dissolves
  <2>4. /\ base.size = k * e.size /\ base.lb = e.lb
        /\ Extent(base) = k * Extent(e)
    BY <1>1, <2>1, ContiguousAttributes DEF Replaces
  <2>5. /\ v.size = (count * b) * e.size /\ v.lb = e.lb
        /\ v.ub = e.lb + (s * (count - 1) + b) * Extent(e)
    BY <2>1, <2>3, VectorAttributes
  <2>6. e.size \in Int /\ Extent(e) \in Int
    BY <2>1 DEF Attributed, Extent
  <2>7. (count * blocklen) * (k * e.size) = (count * b) * e.size
    <3>1. (count * blocklen) * k = count * b
      BY SMTT(30)
    <3> QED
      BY <2>6, <3>1, Regroup
  <2>8. reach * (k * Extent(e)) = (s * (count - 1) + b) * Extent(e)
    <3>1. reach * k = s * (count - 1) + b
      BY SMTT(30)
    <3>2. reach \in Int
      OBVIOUS
    <3> QED
      BY <2>6, <3>1, <3>2, Regroup
  <2>9. SameAttributes(t, v)
    BY <1>2, <2>4, <2>5, <2>7, <2>8 DEF SameAttributes
  <2>10. v.count = count /\ v.blocklen = b /\ v.stride = s /\ v.base = e
    BY DEF Vector
  <2>11. c = IF s = b THEN Contiguous(count * b, e) ELSE Vector(count, b, s, e)
    BY <1>2, <1>6, <2>2, <2>10 DEF CompressVector
  <2> QED
    BY <1>4, <2>1, <2>3, <2>9, <2>11
<1> QED
  BY <1>5, <1>6

\* HVectorDatatype::compress keeps the size and both bounds for every stride
\* that runs forward.  The stride is in bytes, so only the block length scales.
THEOREM CompressHVectorKeeps ==
    ASSUME NEW count \in Int, count # 0, NEW blocklen \in Int,
           NEW stride \in Int, stride > 0,
           NEW base, NEW cbase, Replaces(cbase, base)
    PROVE  LET t == HVector(count, blocklen, stride, base)
               c == CompressHVector(t, cbase)
           IN  KeepsSizeAndExtent(t, c) /\ SameAttributes(t, c)
<1> DEFINE t == HVector(count, blocklen, stride, base)
           c == CompressHVector(t, cbase)
           reach == stride * (count - 1)
<1>1. Attributed(base) /\ Attributed(cbase) /\ Extent(cbase) = Extent(base)
  BY DEF Replaces, Extent
<1>2. /\ t.count = count /\ t.blocklen = blocklen /\ t.stride = stride
      /\ t.size = (count * blocklen) * base.size
      /\ t.lb = base.lb /\ t.ub = base.lb + reach + blocklen * Extent(base)
  <2>1. t.count = count /\ t.blocklen = blocklen /\ t.stride = stride
    BY DEF HVector
  <2> QED
    BY <1>1, <2>1, HVectorAttributes
<1>3. SUFFICES SameAttributes(t, c)
  BY DEF SameAttributes, KeepsSizeAndExtent, Extent
<1>4. ASSUME NEW b \in Int, NEW e, Attributed(e),
             LET v == HVector(count, b, stride, e) IN SameAttributes(t, v),
             c = IF stride = b * Extent(e) THEN Contiguous(count * b, e)
                                           ELSE HVector(count, b, stride, e)
      PROVE  SameAttributes(t, c)
  <2> DEFINE v == HVector(count, b, stride, e)
  <2>1. CASE stride # b * Extent(e)
    BY <1>4, <2>1
  <2>2. CASE stride = b * Extent(e)
    <3>1. c = Contiguous(count * b, e)
      BY <1>4, <2>2
    <3>2. /\ v.size = (count * b) * e.size /\ v.lb = e.lb
          /\ v.ub = e.lb + reach + b * Extent(e)
      BY <1>4, HVectorAttributes
    <3>3. reach + b * Extent(e) = (count * b) * Extent(e)
      <4>1. Extent(e) \in Int
        BY <1>4 DEF Attributed, Extent
      <4>2. reach + stride = count * stride
        BY SMTT(30)
      <4>3. count * (b * Extent(e)) = (count * b) * Extent(e)
        BY <4>1, Regroup
      <4> QED
        BY <2>2, <4>2, <4>3
    <3>4. count * b \in Int
      OBVIOUS
    <3>5. /\ c.size = (count * b) * e.size /\ c.lb = e.lb
          /\ c.ub = e.lb + (count * b) * Extent(e)
      BY <1>4, <3>1, <3>4, ContiguousAttributes
    <3>6. e.lb \in Int /\ Extent(e) \in Int /\ reach \in Int
      BY <1>4 DEF Attributed, Extent
    <3>7. b * Extent(e) \in Int
      BY <3>6
    <3>8. e.lb + reach + b * Extent(e) = e.lb + (reach + b * Extent(e))
      BY <3>6, <3>7
    <3> QED
      BY <1>4, <3>2, <3>3, <3>5, <3>8 DEF SameAttributes
  <2> QED
    BY <2>1, <2>2
<1>5. CASE ~Dissolves(cbase)
  <2>1. LET v == HVector(count, blocklen, stride, cbase) IN SameAttributes(t, v)
    BY <1>1, <1>2, HVectorAttributes DEF SameAttributes, Replaces
  <2>2. LET v == HVector(count, blocklen, stride, cbase)
        IN  v.count = count /\ v.blocklen = blocklen /\ v.stride = stride
            /\ v.base = cbase
    BY DEF HVector
  <2>3. c = IF stride = blocklen * Extent(cbase)
            THEN Contiguous(count * blocklen, cbase)
            ELSE HVector(count, blocklen, stride, cbase)
    BY <1>2, <1>5, <2>2 DEF CompressHVector
  <2> QED
    BY <1>1, <1>4, <2>1, <2>3
<1>6. CASE Dissolves(cbase)
  <2>1. PICK k, e : k \in Nat /\ Attributed(e) /\ cbase = Contiguous(k, e)
    BY <1>6 DEF Dissolves, Replaces
  <2>k. k \in Int
    BY <2>1
  <2> USE <2>k
  <2>2. cbase.count = k /\ cbase.base = e
    BY <2>1 DEF Contiguous
  <2> DEFINE b == blocklen * k
             v == HVector(count, b, stride, e)
  <2>3. b \in Int
    BY <2>1
  <2>4. /\ base.size = k * e.size /\ base.lb = e.lb
        /\ Extent(base) = k * Extent(e)
    BY <1>1, <2>1, ContiguousAttributes DEF Replaces
  <2>5. /\ v.size = (count * b) * e.size /\ v.lb = e.lb
        /\ v.ub = e.lb + reach + b * Extent(e)
    BY <2>1, <2>3, HVectorAttributes
  <2>6. e.size \in Int /\ Extent(e) \in Int
    BY <2>1 DEF Attributed, Extent
  <2>7. (count * blocklen) * (k * e.size) = (count * b) * e.size
    <3>1. (count * blocklen) * k = count * b
      BY SMTT(30)
    <3> QED
      BY <2>6, <3>1, Regroup
  <2>8. blocklen * (k * Extent(e)) = b * Extent(e)
    BY <2>6, Regroup
  <2>9. SameAttributes(t, v)
    BY <1>2, <2>4, <2>5, <2>7, <2>8 DEF SameAttributes
  <2>10. v.count = count /\ v.blocklen = b /\ v.stride = stride /\ v.base = e
    BY DEF HVector
  <2>11. c = IF stride = b * Extent(e) THEN Contiguous(count * b, e)
                                       ELSE HVector(count, b, stride, e)
    BY <1>2, <1>6, <2>2, <2>10 DEF CompressHVector
  <2> QED
    BY <1>4, <2>1, <2>3, <2>9, <2>11
<1> QED
  BY <1>5, <1>6

-----------------------------------------------------------------------------
(* The bounds as the hull of the items.                                    *)

\* The bounds VectorDatatype computes for a forward stride are those of MPI:
\* every item of the basetype lies between them (also when the blocks
\* overlap), the first item begins at the lower bound, and the last item of
\* the last block ends at the upper one.
THEOREM VectorBoundsAreHull ==
    ASSUME NEW count \in Nat \ {0}, NEW blocklen \in Nat \ {0},
           NEW stride \in Nat \ {0}, NEW base, Attributed(base),
           Extent(base) >= 0
    PROVE  LET v == Vector(count, blocklen, stride, base)
               At(i, j) == (i * stride + j) * Extent(base)
           IN  /\ \A i \in 0 .. count - 1, j \in 0 .. blocklen - 1 :
                     /\ v.lb <= At(i, j) + base.lb
                     /\ At(i, j) + base.ub <= v.ub
               /\ v.lb = At(0, 0) + base.lb
               /\ v.ub = At(count - 1, blocklen - 1) + base.ub
<1> DEFINE v == Vector(count, blocklen, stride, base)
           At(i, j) == (i * stride + j) * Extent(base)
           last == (count - 1) * stride + (blocklen - 1)
<1>1. base.lb \in Int /\ base.ub \in Int /\ Extent(base) \in Int
  BY DEF Attributed, Extent
<1>2. v.lb = base.lb /\ v.ub = base.ub + last * Extent(base)
  <2>1. stride * (count - 1) + blocklen - 1 = last
    BY SMTT(30)
  <2> QED
    BY <2>1 DEF Vector
<1>3. ASSUME NEW i \in 0 .. count - 1, NEW j \in 0 .. blocklen - 1
      PROVE  v.lb <= At(i, j) + base.lb /\ At(i, j) + base.ub <= v.ub
  <2>1. i * stride <= (count - 1) * stride
    BY ProductMonotone
  <2>2. 0 * stride <= i * stride
    BY ProductMonotone
  <2>3. i * stride \in Int /\ (count - 1) * stride \in Int
    OBVIOUS
  <2>4. 0 <= i * stride + j /\ i * stride + j <= last
    BY <2>1, <2>2, <2>3
  <2>5. i * stride + j \in Int /\ last \in Int
    BY <2>3
  <2>6. At(i, j) <= last * Extent(base)
    BY <1>1, <2>4, <2>5, ProductMonotone
  <2>7. 0 * Extent(base) <= At(i, j)
    BY <1>1, <2>4, <2>5, ProductMonotone
  <2>8. At(i, j) \in Int /\ last * Extent(base) \in Int
    BY <1>1, <2>5
  <2> QED
    BY <1>1, <1>2, <2>6, <2>7, <2>8
<1>4. At(0, 0) = 0
  BY <1>1, SMTT(30)
<1>5. last * Extent(base) \in Int /\ last * Extent(base) = At(count - 1, blocklen - 1)
  BY <1>1
<1> QED
  BY <1>1, <1>2, <1>3, <1>4, <1>5

-----------------------------------------------------------------------------
(* Sums.                                                                   *)

\* g holds the sums of the first values of f.
IsSum(g, f, n) == g = [i \in 0 .. n |-> IF i = 0 THEN 0 ELSE g[i - 1] + f[i]]

\* The rank of a number is itself.
Itself(n) == n

\* The trees of h constructors, from those of fewer.
TreesOf(treesTo, h) ==
    {Primitive(type) : type \in DOMAIN SizeOf}
      \cup IF h = 0 THEN {} ELSE NodesOver(treesTo[h - 1])

\* TreesTo is a recursion on the height.
HeightRec == INSTANCE RankRecursion WITH Domain <- Nat, Rank <- Itself, Def <- TreesOf

\* The recursive function Total chooses exists.
LEMMA SumExists ==
    ASSUME NEW f, NEW n \in Nat
    PROVE  \E g : IsSum(g, f, n)
<1> DEFINE S == {k \in Nat : \E g : IsSum(g, f, k)}
<1>1. 0 \in S
  <2> DEFINE g == [i \in 0 .. 0 |-> 0]
  <2>1. g = [i \in 0 .. 0 |-> IF i = 0 THEN 0 ELSE g[i - 1] + f[i]]
    OBVIOUS
  <2> QED
    BY <2>1 DEF IsSum
<1>2. ASSUME NEW k \in Nat, k \in S
      PROVE  k + 1 \in S
  <2>1. PICK g : IsSum(g, f, k)
    BY <1>2
  <2> DEFINE h == [i \in 0 .. k + 1 |-> IF i = k + 1 THEN g[k] + f[i] ELSE g[i]]
  <2>2. ASSUME NEW i \in 0 .. k + 1
        PROVE  h[i] = IF i = 0 THEN 0 ELSE h[i - 1] + f[i]
    <3>1. CASE i = k + 1
      BY <3>1
    <3>2. CASE i # k + 1
      <4>1. i \in 0 .. k /\ (i # 0 => i - 1 \in 0 .. k)
        BY <3>2
      <4>2. g[i] = IF i = 0 THEN 0 ELSE g[i - 1] + f[i]
        BY <2>1, <4>1 DEF IsSum
      <4>3. h[i] = g[i] /\ (i # 0 => h[i - 1] = g[i - 1])
        BY <4>1, <3>2
      <4> QED
        BY <4>2, <4>3
    <3> QED
      BY <3>1, <3>2
  <2>3. h = [i \in 0 .. k + 1 |-> IF i = 0 THEN 0 ELSE h[i - 1] + f[i]]
    <3>1. h = [i \in 0 .. k + 1 |-> h[i]]
      OBVIOUS
    <3> HIDE DEF h
    <3> QED
      BY <2>2, <3>1
  <2>4. IsSum(h, f, k + 1)
    BY <2>3 DEF IsSum
  <2> QED
    BY <2>4
<1>3. n \in S
  <2> HIDE DEF S
  <2> QED
    BY <1>1, <1>2, HeightRec!Induction
<1> QED
  BY <1>3

\* Sums of the same values agree, however far they go.
LEMMA SumsAgree ==
    ASSUME NEW f, NEW g, NEW m \in Nat, NEW n \in Nat, NEW p, NEW q,
           IsSum(p, f, m), IsSum(q, g, n), m <= n,
           \A i \in 1 .. m : f[i] = g[i]
    PROVE  p[m] = q[m]
<1> DEFINE S == {k \in Nat : k <= m => p[k] = q[k]}
<1>1. 0 \in S
  BY DEF IsSum
<1>2. ASSUME NEW k \in Nat, k \in S
      PROVE  k + 1 \in S
  <2> SUFFICES ASSUME k + 1 <= m PROVE p[k + 1] = q[k + 1]
    OBVIOUS
  <2>1. k + 1 \in 0 .. m /\ k + 1 \in 0 .. n /\ k + 1 \in 1 .. m /\ k + 1 # 0
    OBVIOUS
  <2>2. p[k + 1] = p[(k + 1) - 1] + f[k + 1] /\ q[k + 1] = q[(k + 1) - 1] + g[k + 1]
    BY <2>1 DEF IsSum
  <2>3. p[k] = q[k] /\ (k + 1) - 1 = k
    BY <1>2
  <2> QED
    BY <2>1, <2>2, <2>3
<1>3. m \in S
  <2> HIDE DEF S
  <2> QED
    BY <1>1, <1>2, HeightRec!Induction
<1> QED
  BY <1>3

\* Total is such a function, read at its last argument.
LEMMA TotalIsSum ==
    ASSUME NEW f, NEW n \in Nat
    PROVE  \E g : IsSum(g, f, n) /\ Total(f, n) = g[n]
<1> DEFINE s == CHOOSE s : s = [i \in 0 .. n |-> IF i = 0 THEN 0 ELSE s[i - 1] + f[i]]
<1>1. s = [i \in 0 .. n |-> IF i = 0 THEN 0 ELSE s[i - 1] + f[i]]
  BY SumExists DEF IsSum
<1>2. Total(f, n) = s[n]
  BY DEF Total
<1> QED
  BY <1>1, <1>2 DEF IsSum

\* The sum of nothing.
LEMMA TotalZero ==
    ASSUME NEW f
    PROVE  Total(f, 0) = 0
<1>1. PICK g : IsSum(g, f, 0) /\ Total(f, 0) = g[0]
  BY TotalIsSum
<1> QED
  BY <1>1 DEF IsSum

\* One more term.
LEMMA TotalNext ==
    ASSUME NEW f, NEW n \in Nat
    PROVE  Total(f, n + 1) = Total(f, n) + f[n + 1]
<1>1. PICK g : IsSum(g, f, n) /\ Total(f, n) = g[n]
  BY TotalIsSum
<1>2. PICK h : IsSum(h, f, n + 1) /\ Total(f, n + 1) = h[n + 1]
  BY TotalIsSum
<1>3. g[n] = h[n]
  <2>1. n + 1 \in Nat /\ n <= n + 1 /\ \A i \in 1 .. n : f[i] = f[i]
    OBVIOUS
  <2> QED
    BY <1>1, <1>2, <2>1, SumsAgree
<1>4. n + 1 \in 0 .. n + 1 /\ n + 1 # 0 /\ (n + 1) - 1 = n
  OBVIOUS
<1>5. h[n + 1] = h[(n + 1) - 1] + f[n + 1]
  BY <1>2, <1>4 DEF IsSum
<1> QED
  BY <1>1, <1>2, <1>3, <1>4, <1>5

\* Equal terms have equal sums.
LEMMA TotalSame ==
    ASSUME NEW f, NEW g, NEW n \in Nat, \A i \in 1 .. n : f[i] = g[i]
    PROVE  Total(f, n) = Total(g, n)
<1> DEFINE S == {k \in Nat : k <= n => Total(f, k) = Total(g, k)}
<1>1. 0 \in S
  BY TotalZero
<1>2. ASSUME NEW k \in Nat, k \in S
      PROVE  k + 1 \in S
  BY <1>2, TotalNext
<1>3. n \in S
  <2> HIDE DEF S
  <2> QED
    BY <1>1, <1>2, HeightRec!Induction
<1> QED
  BY <1>3

\* A sum of natural numbers is one.
LEMMA TotalNat ==
    ASSUME NEW f, NEW n \in Nat, \A i \in 1 .. n : f[i] \in Nat
    PROVE  Total(f, n) \in Nat
<1> DEFINE S == {k \in Nat : k <= n => Total(f, k) \in Nat}
<1>1. 0 \in S
  BY TotalZero
<1>2. ASSUME NEW k \in Nat, k \in S
      PROVE  k + 1 \in S
  BY <1>2, TotalNext
<1>3. n \in S
  <2> HIDE DEF S
  <2> QED
    BY <1>1, <1>2, HeightRec!Induction
<1> QED
  BY <1>3

\* A sum of integers is one.
LEMMA TotalInt ==
    ASSUME NEW f, NEW n \in Nat, \A i \in 1 .. n : f[i] \in Int
    PROVE  Total(f, n) \in Int
<1> DEFINE S == {k \in Nat : k <= n => Total(f, k) \in Int}
<1>1. 0 \in S
  BY TotalZero
<1>2. ASSUME NEW k \in Nat, k \in S
      PROVE  k + 1 \in S
  BY <1>2, TotalNext
<1>3. n \in S
  <2> HIDE DEF S
  <2> QED
    BY <1>1, <1>2, HeightRec!Induction
<1> QED
  BY <1>3

\* The sum of equal terms is a product.
LEMMA TotalConstant ==
    ASSUME NEW f, NEW n \in Nat, NEW c \in Int, \A i \in 1 .. n : f[i] = c
    PROVE  Total(f, n) = n * c
<1> DEFINE S == {k \in Nat : k <= n => Total(f, k) = k * c}
<1>1. 0 \in S
  BY TotalZero, SMTT(30)
<1>2. ASSUME NEW k \in Nat, k \in S
      PROVE  k + 1 \in S
  <2> SUFFICES ASSUME k + 1 <= n PROVE Total(f, k + 1) = (k + 1) * c
    OBVIOUS
  <2>1. Total(f, k + 1) = k * c + c
    BY <1>2, TotalNext
  <2>2. k * c + c = (k + 1) * c
    BY SMTT(30)
  <2> QED
    BY <2>1, <2>2
<1>3. n \in S
  <2> HIDE DEF S
  <2> QED
    BY <1>1, <1>2, HeightRec!Induction
<1> QED
  BY <1>3

-----------------------------------------------------------------------------
(* Trees.                                                                  *)

\* TreesTo satisfies its defining equation.
LEMMA TreesToUnfold ==
    TreesTo = [h \in Nat |-> {Primitive(type) : type \in DOMAIN SizeOf}
                               \cup IF h = 0 THEN {} ELSE NodesOver(TreesTo[h - 1])]
<1>1. HeightRec!Ranked
  BY DEF HeightRec!Ranked, Itself
<1>2. HeightRec!Grounded
  <2> SUFFICES ASSUME NEW f, NEW g, NEW h \in Nat, \A k \in Nat : k < h => f[k] = g[k]
               PROVE  TreesOf(f, h) = TreesOf(g, h)
    BY DEF HeightRec!Grounded, Itself
  <2>1. CASE h = 0
    BY <2>1 DEF TreesOf
  <2>2. CASE h # 0
    <3>1. f[h - 1] = g[h - 1]
      BY <2>2
    <3> QED
      BY <3>1 DEF TreesOf
  <2> QED
    BY <2>1, <2>2
<1>3. \E f : f = [h \in Nat |-> TreesOf(f, h)]
  BY <1>1, <1>2, HeightRec!RecursionExists
<1> QED
  BY <1>3 DEF TreesTo, TreesOf

\* The primitive types.
Prims == {Primitive(type) : type \in DOMAIN SizeOf}

\* Without constructors there are only primitive types.
LEMMA TreesToBase == TreesTo[0] = Prims
  BY TreesToUnfold DEF Prims

\* One more constructor above the trees of h.
LEMMA TreesToStep ==
    ASSUME NEW h \in Nat
    PROVE  TreesTo[h + 1] = Prims \cup NodesOver(TreesTo[h])
<1>1. h + 1 \in Nat /\ h + 1 # 0 /\ (h + 1) - 1 = h
  OBVIOUS
<1> QED
  BY <1>1, TreesToUnfold DEF Prims

\* More basetypes make more nodes.
LEMMA NodesOverMonotone ==
    ASSUME NEW S, NEW T, S \subseteq T
    PROVE  NodesOver(S) \subseteq NodesOver(T)
<1> SUFFICES ASSUME NEW t \in NodesOver(S) PROVE t \in NodesOver(T)
  OBVIOUS
<1>1. Seq(S) \subseteq Seq(T)
  OBVIOUS
<1> QED
  BY <1>1 DEF NodesOver

\* A tree of at most k constructors has at most k + 1.
LEMMA TreesToGrow ==
    ASSUME NEW k \in Nat
    PROVE  TreesTo[k] \subseteq TreesTo[k + 1]
<1> DEFINE S == {h \in Nat : TreesTo[h] \subseteq TreesTo[h + 1]}
<1>1. 0 \in S
  <2>1. TreesTo[0 + 1] = Prims \cup NodesOver(TreesTo[0])
    BY TreesToStep
  <2> QED
    BY <2>1, TreesToBase
<1>2. ASSUME NEW h \in Nat, h \in S
      PROVE  h + 1 \in S
  <2>1. TreesTo[h + 1] = Prims \cup NodesOver(TreesTo[h])
    BY TreesToStep
  <2>2. TreesTo[(h + 1) + 1] = Prims \cup NodesOver(TreesTo[h + 1])
    BY TreesToStep
  <2>3. NodesOver(TreesTo[h]) \subseteq NodesOver(TreesTo[h + 1])
    BY <1>2, NodesOverMonotone
  <2> QED
    BY <2>1, <2>2, <2>3
<1> HIDE DEF S
<1>3. k \in S
  BY <1>1, <1>2, HeightRec!Induction
<1> QED
  BY <1>3 DEF S

\* More constructors make more trees.
LEMMA TreesToMonotone ==
    ASSUME NEW h \in Nat, NEW k \in Nat, h <= k
    PROVE  TreesTo[h] \subseteq TreesTo[k]
<1> DEFINE S == {d \in Nat : TreesTo[h] \subseteq TreesTo[h + d]}
<1>1. 0 \in S
  OBVIOUS
<1>2. ASSUME NEW d \in Nat, d \in S
      PROVE  d + 1 \in S
  <2>1. TreesTo[h + d] \subseteq TreesTo[(h + d) + 1]
    BY TreesToGrow
  <2> QED
    BY <1>2, <2>1
<1>3. k - h \in S
  <2> HIDE DEF S
  <2> QED
    BY <1>1, <1>2, HeightRec!Induction
<1> QED
  BY <1>3

\* The basetypes of a node.
Children(t) ==
    IF t.kind = "PRIMITIVE" THEN {}
    ELSE IF t.kind = "STRUCT" THEN {t.bases[i] : i \in DOMAIN t.bases}
    ELSE {t.base}

\* h is the least bound on the constructors of t.
IsHeight(t, h) == h \in Nat /\ t \in TreesTo[h] /\ \A k \in Nat : t \in TreesTo[k] => h <= k

\* The height of a tree.
Height(t) == CHOOSE h : IsHeight(t, h)

\* Every tree has a height.
LEMMA HeightExists ==
    ASSUME NEW k \in Nat, NEW t \in TreesTo[k]
    PROVE  IsHeight(t, Height(t)) /\ Height(t) <= k
<1> DEFINE S == {h \in Nat : t \in TreesTo[h]}
<1>1. PICK h \in S : \A m \in S : h <= m
  <2>1. S \in SUBSET Nat /\ S # {}
    OBVIOUS
  <2> QED
    BY <2>1, HeightRec!LeastNat
<1>2. IsHeight(t, h)
  BY <1>1 DEF IsHeight
<1>3. IsHeight(t, Height(t))
  BY <1>2 DEF Height
<1> QED
  BY <1>3 DEF IsHeight

\* The basetypes of a node over S are in S.
LEMMA ChildrenOfNodes ==
    ASSUME NEW S, NEW t \in Prims \cup NodesOver(S)
    PROVE  Children(t) \subseteq S
<1>1. CASE t \in Prims
  BY <1>1 DEF Prims, Primitive, Children
<1>2. CASE t \in NodesOver(S)
  BY <1>2 DEF NodesOver, Children
<1> QED
  BY <1>1, <1>2

\* The basetypes of a tree are trees of lower height.
LEMMA ChildrenBelow ==
    ASSUME NEW t \in Trees, NEW c \in Children(t)
    PROVE  c \in Trees /\ Height(c) < Height(t)
<1> DEFINE h == Height(t)
<1>1. IsHeight(t, h) /\ h <= MaxDepth
  BY HeightExists, MaxDepthAssumption DEF Trees
<1>2. CASE h = 0
  BY <1>1, <1>2, TreesToBase, ChildrenOfNodes DEF IsHeight, Prims, Primitive, Children
<1>3. CASE h # 0
  <2>1. h - 1 \in Nat /\ h = (h - 1) + 1
    BY <1>1, <1>3 DEF IsHeight
  <2>2. t \in Prims \cup NodesOver(TreesTo[h - 1])
    BY <1>1, <2>1, TreesToStep DEF IsHeight
  <2>3. c \in TreesTo[h - 1]
    BY <2>2, ChildrenOfNodes
  <2>4. IsHeight(c, Height(c)) /\ Height(c) <= h - 1
    BY <2>1, <2>3, HeightExists
  <2>5. c \in TreesTo[MaxDepth]
    BY <1>1, <2>1, <2>3, TreesToMonotone, MaxDepthAssumption
  <2>6. Height(c) < h
    BY <2>1, <2>4 DEF IsHeight
  <2> QED
    BY <2>5, <2>6 DEF Trees
<1> QED
  BY <1>2, <1>3

\* A height is a natural number: trees can be ranked by it.
LEMMA HeightNat ==
    ASSUME NEW t \in Trees
    PROVE  Height(t) \in Nat
  BY HeightExists, MaxDepthAssumption DEF Trees, IsHeight

\* t is what its constructor makes of the arguments it holds.
AsBuilt(t) ==
    /\ t.kind = "PRIMITIVE"    => t \in Prims
    /\ t.kind = "CONTIGUOUS"   => t = Contiguous(t.count, t.base)
    /\ t.kind = "VECTOR"       => t = Vector(t.count, t.blocklen, t.stride, t.base)
    /\ t.kind = "HVECTOR"      => t = HVector(t.count, t.blocklen, t.stride, t.base)
    /\ t.kind = "INDEXEDBLOCK" => t = IndexedBlock(t.blocklen, t.displs, t.base)
    /\ t.kind = "HINDEXED"     => /\ t = HIndexed(t.blocklens, t.displs, t.base)
                                  /\ Len(t.blocklens) = Len(t.displs)
    /\ t.kind = "STRUCT"       => /\ t = Struct(t.blocklens, t.displs, t.bases)
                                  /\ Len(t.blocklens) = Len(t.displs)
                                  /\ Len(t.bases) = Len(t.displs)
    /\ t.kind = "RESIZED"      => t = Resized(t.base, t.lb, Extent(t))

\* The trees in which every node was built by its constructor.
Built == UNION {S \in SUBSET Trees : \A t \in S : AsBuilt(t) /\ Children(t) \subseteq S}

\* A built tree is one its constructor made of built trees.
LEMMA BuiltNode ==
    ASSUME NEW t \in Built
    PROVE  t \in Trees /\ AsBuilt(t) /\ Children(t) \subseteq Built
  BY DEF Built

\* What a constructor makes of built trees is a built tree.
LEMMA BuiltOver ==
    ASSUME NEW t \in Trees, AsBuilt(t), Children(t) \subseteq Built
    PROVE  t \in Built
<1> DEFINE S == Built \cup {t}
<1>1. S \in SUBSET Trees
  BY DEF Built
<1>2. \A s \in S : AsBuilt(s) /\ Children(s) \subseteq S
  BY BuiltNode
<1> QED
  BY <1>1, <1>2 DEF Built

\* What a node holds, by its class.
LEMMA NodeFields ==
    ASSUME NEW t \in Trees
    PROVE  /\ t.kind \in {"PRIMITIVE", "CONTIGUOUS", "VECTOR", "HVECTOR",
                          "INDEXEDBLOCK", "HINDEXED", "STRUCT", "RESIZED"}
           /\ Attributed(t)
           /\ t.kind = "PRIMITIVE" => t \in Prims
           /\ t.kind \in {"CONTIGUOUS", "VECTOR", "HVECTOR"} => t.count \in Nat
           /\ t.kind \in {"VECTOR", "HVECTOR"} => t.blocklen \in Nat /\ t.stride \in Int
           /\ t.kind = "INDEXEDBLOCK" => t.blocklen \in Nat /\ t.displs \in Seq(Int)
           /\ t.kind \in {"HINDEXED", "STRUCT"} =>
                 t.blocklens \in Seq(Nat) /\ t.displs \in Seq(Int)
           /\ t.kind = "STRUCT" => t.bases \in Seq(Trees)
           /\ t.kind \notin {"PRIMITIVE", "STRUCT"} => t.base \in Trees
<1>1. PICK S : S \subseteq Trees /\ t \in Prims \cup NodesOver(S)
  <2>1. CASE MaxDepth = 0
    BY <2>1, TreesToBase DEF Trees
  <2>2. CASE MaxDepth # 0
    <3>1. MaxDepth - 1 \in Nat /\ MaxDepth = (MaxDepth - 1) + 1
      BY <2>2, MaxDepthAssumption
    <3>2. TreesTo[MaxDepth - 1] \subseteq Trees
      BY <3>1, TreesToGrow DEF Trees
    <3>3. t \in Prims \cup NodesOver(TreesTo[MaxDepth - 1])
      BY <3>1, TreesToStep DEF Trees
    <3> QED
      BY <3>2, <3>3
  <2> QED
    BY <2>1, <2>2
<1>2. CASE t \in Prims
  BY <1>2 DEF Prims, Primitive, SizeOf, Attributed
<1>3. CASE t \in NodesOver(S)
  <2>1. CASE t \in [kind : {"CONTIGUOUS"}, count : Nat, base : S, size : Int, lb : Int, ub : Int]
    BY <1>1, <2>1 DEF Attributed
  <2>2. CASE t \in [kind : {"VECTOR", "HVECTOR"}, count : Nat, blocklen : Nat, stride : Int,
                    base : S, size : Int, lb : Int, ub : Int]
    BY <1>1, <2>2 DEF Attributed
  <2>3. CASE t \in [kind : {"INDEXEDBLOCK"}, count : Nat, blocklen : Nat, displs : Seq(Int),
                    base : S, size : Int, lb : Int, ub : Int]
    BY <1>1, <2>3 DEF Attributed
  <2>4. CASE t \in [kind : {"HINDEXED"}, count : Nat, blocklens : Seq(Nat), displs : Seq(Int),
                    base : S, size : Int, lb : Int, ub : Int]
    BY <1>1, <2>4 DEF Attributed
  <2>5. CASE t \in [kind : {"STRUCT"}, count : Nat, blocklens : Seq(Nat), displs : Seq(Int),
                    bases : Seq(S), size : Int, lb : Int, ub : Int]
    <3>1. Seq(S) \subseteq Seq(Trees)
      BY <1>1
    <3> QED
      BY <2>5, <3>1 DEF Attributed
  <2>6. CASE t \in [kind : {"RESIZED"}, base : S, size : Int, lb : Int, ub : Int]
    BY <1>1, <2>6 DEF Attributed
  <2> QED
    BY <1>3, <2>1, <2>2, <2>3, <2>4, <2>5, <2>6 DEF NodesOver
<1> QED
  BY <1>1, <1>2, <1>3

\* The fields that hold the basetypes.
LEMMA ChildFacts ==
    ASSUME NEW t \in Trees
    PROVE  /\ t.kind \notin {"PRIMITIVE", "STRUCT"} => t.base \in Children(t)
           /\ t.kind = "STRUCT" => \A i \in DOMAIN t.bases : t.bases[i] \in Children(t)
  BY DEF Children

\* MeaningOf, class by class.
LEMMA MeaningOfKinds ==
    ASSUME NEW f, NEW t
    PROVE  /\ t.kind = "PRIMITIVE"  => MeaningOf(f, t) = PrimitiveMeaning(t.type)
           /\ t.kind = "CONTIGUOUS" => MeaningOf(f, t) = Repeated(t.count, f[t.base])
           /\ t.kind = "VECTOR" =>
                 MeaningOf(f, t) = Strided(t.count, t.blocklen,
                                           t.stride * Span(f[t.base]), f[t.base])
           /\ t.kind = "HVECTOR" =>
                 MeaningOf(f, t) = Strided(t.count, t.blocklen, t.stride, f[t.base])
           /\ t.kind = "INDEXEDBLOCK" => MeaningOf(f, t) = IndexedMeaning(t, f[t.base])
           /\ t.kind = "HINDEXED"     => MeaningOf(f, t) = HIndexedMeaning(t, f[t.base])
           /\ t.kind = "STRUCT"       => MeaningOf(f, t) = StructMeaning(t, f)
           /\ t.kind = "RESIZED" =>
                 MeaningOf(f, t) = [map |-> f[t.base].map, lb |-> t.lb, ub |-> t.ub]
  BY DEF MeaningOf

\* Meaning is a recursion on the height of the tree.
MeaningRec == INSTANCE RankRecursion WITH Domain <- Trees, Rank <- Height, Def <- MeaningOf

\* Meaning satisfies its defining equation.
LEMMA MeaningUnfold ==
    ASSUME NEW t \in Trees
    PROVE  Meaning[t] = MeaningOf(Meaning, t)
<1>1. MeaningRec!Ranked
  BY HeightNat DEF MeaningRec!Ranked
<1>2. MeaningRec!Grounded
  <2> SUFFICES ASSUME NEW f, NEW g, NEW s \in Trees,
                      \A c \in Trees : Height(c) < Height(s) => f[c] = g[c]
               PROVE  MeaningOf(f, s) = MeaningOf(g, s)
    BY DEF MeaningRec!Grounded
  <2>1. \A c \in Children(s) : f[c] = g[c]
    BY ChildrenBelow
  <2>2. s.kind \notin {"PRIMITIVE", "STRUCT"} => f[s.base] = g[s.base]
    BY <2>1, ChildFacts
  <2>3. s.kind = "STRUCT" => \A i \in DOMAIN s.bases : f[s.bases[i]] = g[s.bases[i]]
    BY <2>1, ChildFacts
  <2>4. s.kind \in {"PRIMITIVE", "CONTIGUOUS", "VECTOR", "HVECTOR",
                    "INDEXEDBLOCK", "HINDEXED", "STRUCT", "RESIZED"}
    BY NodeFields
  <2>5. CASE s.kind = "STRUCT"
    <3>1. [i \in DOMAIN s.bases |-> Block(s.displs[i], s.blocklens[i], f[s.bases[i]])]
          = [i \in DOMAIN s.bases |-> Block(s.displs[i], s.blocklens[i], g[s.bases[i]])]
      BY <2>3, <2>5
    <3>2. StructMeaning(s, f) = StructMeaning(s, g)
      BY <3>1 DEF StructMeaning
    <3> QED
      BY <2>5, <3>2, MeaningOfKinds
  <2>6. CASE s.kind # "STRUCT"
    BY <2>2, <2>4, <2>6, MeaningOfKinds
  <2> QED
    BY <2>5, <2>6
<1>3. \E f : f = [s \in Trees |-> MeaningOf(f, s)]
  BY <1>1, <1>2, MeaningRec!RecursionExists
<1>4. Meaning = [s \in Trees |-> MeaningOf(Meaning, s)]
  BY <1>3 DEF Meaning
<1> QED
  BY <1>4

\* A least element is the minimum.
LEMMA MinIs ==
    ASSUME NEW S, NEW x \in S, S \subseteq Int, \A y \in S : x <= y
    PROVE  Min(S) = x
<1>1. \E z \in S : \A y \in S : z <= y
  OBVIOUS
<1>2. Min(S) \in S /\ \A y \in S : Min(S) <= y
  BY <1>1 DEF Min
<1>3. Min(S) \in Int /\ x \in Int /\ Min(S) <= x /\ x <= Min(S)
  BY <1>2
<1> QED
  BY <1>3

\* A greatest element is the maximum.
LEMMA MaxIs ==
    ASSUME NEW S, NEW x \in S, S \subseteq Int, \A y \in S : y <= x
    PROVE  Max(S) = x
<1>1. \E z \in S : \A y \in S : z >= y
  OBVIOUS
<1>2. Max(S) \in S /\ \A y \in S : Max(S) >= y
  BY <1>1 DEF Max
<1>3. Max(S) \in Int /\ x \in Int /\ Max(S) <= x /\ x <= Max(S)
  BY <1>2
<1> QED
  BY <1>3

-----------------------------------------------------------------------------
(* Layouts.                                                                *)

\* Type maps: pairs of a position in the packed item and an offset in memory.
Maps == SUBSET (Int \X Int)

\* The map moved to another position and another offset.
Placed(map, pos, at) == {<<pos + p[1], at + p[2]>> : p \in map}

\* n copies of the map, step positions and span bytes apart.
Reps(map, n, step, span) == UNION {Placed(map, k * step, k * span) : k \in 0 .. n - 1}

\* The map fills the positions below size, each with one byte.
Lays(map, size) ==
    /\ size \in Nat
    /\ \E F \in [0 .. size - 1 -> Int] : map = {<<p, F[p]>> : p \in 0 .. size - 1}

\* A layout is a type map.
LEMMA LaysPairs ==
    ASSUME NEW map, NEW size, Lays(map, size)
    PROVE  map \in Maps /\ size \in Nat
  BY DEF Lays, Maps

\* A layout of size bytes has size elements.
LEMMA LaysBytes ==
    ASSUME NEW map, NEW size, Lays(map, size)
    PROVE  Cardinality(map) = size
<1>1. PICK F \in [0 .. size - 1 -> Int] : map = {<<p, F[p]>> : p \in 0 .. size - 1}
  BY DEF Lays
<1>s. size \in Nat
  BY DEF Lays
<1> DEFINE G == [p \in 0 .. size - 1 |-> <<p, F[p]>>]
<1>2. G \in Bijection(0 .. size - 1, map)
  BY <1>1 DEF Bijection, Injection, Surjection, IsInjective
<1>3. IsFiniteSet(0 .. size - 1) /\ Cardinality(0 .. size - 1) = size
  BY <1>s, FS_Interval
<1>4. ExistsBijection(0 .. size - 1, map)
  BY <1>2 DEF ExistsBijection
<1>5. Cardinality(map) = Cardinality(0 .. size - 1)
  BY <1>3, <1>4, FS_Bijection
<1> QED
  BY <1>3, <1>5

\* A layout fills the packed item.
LEMMA LaysPositions ==
    ASSUME NEW map, NEW size, Lays(map, size)
    PROVE  {p[1] : p \in map} = 0 .. size - 1
<1>1. PICK F \in [0 .. size - 1 -> Int] : map = {<<p, F[p]>> : p \in 0 .. size - 1}
  BY DEF Lays
<1>2. \A p \in 0 .. size - 1 : <<p, F[p]>> \in map /\ <<p, F[p]>>[1] = p
  BY <1>1
<1>3. \A q \in map : q[1] \in 0 .. size - 1
  BY <1>1
<1> QED
  BY <1>2, <1>3

\* The layout of no byte.
LEMMA LaysNothing == Lays({}, 0)
<1>1. 0 .. 0 - 1 = {}
  OBVIOUS
<1>2. [p \in {} |-> 0] \in [0 .. 0 - 1 -> Int]
  BY <1>1
<1> QED
  BY <1>1, <1>2 DEF Lays

\* One layout behind another.
LEMMA LaysBehind ==
    ASSUME NEW A, NEW a, NEW B, NEW b, NEW at \in Int, Lays(A, a), Lays(B, b)
    PROVE  Lays(A \cup Placed(B, a, at), a + b)
<1>1. PICK F \in [0 .. a - 1 -> Int] : A = {<<p, F[p]>> : p \in 0 .. a - 1}
  BY DEF Lays
<1>2. PICK G \in [0 .. b - 1 -> Int] : B = {<<p, G[p]>> : p \in 0 .. b - 1}
  BY DEF Lays
<1>s. a \in Nat /\ b \in Nat
  BY DEF Lays
<1> DEFINE H == [p \in 0 .. (a + b) - 1 |-> IF p < a THEN F[p] ELSE at + G[p - a]]
           M == {<<p, H[p]>> : p \in 0 .. (a + b) - 1}
<1>3. H \in [0 .. (a + b) - 1 -> Int]
  <2>1. ASSUME NEW p \in 0 .. (a + b) - 1
        PROVE  (IF p < a THEN F[p] ELSE at + G[p - a]) \in Int
    <3>1. p < a => p \in 0 .. a - 1
      BY <1>s
    <3>2. ~(p < a) => p - a \in 0 .. b - 1
      BY <1>s
    <3> QED
      BY <3>1, <3>2
  <2> QED
    BY <2>1
<1>4. ASSUME NEW p \in 0 .. a - 1
      PROVE  <<p, F[p]>> \in M
  <2>1. p \in 0 .. (a + b) - 1 /\ p < a
    BY <1>s
  <2>2. H[p] = F[p]
    BY <2>1
  <2> QED
    BY <2>1, <2>2
<1>5. ASSUME NEW p \in 0 .. b - 1
      PROVE  <<a + p, at + G[p]>> \in M
  <2>1. a + p \in 0 .. (a + b) - 1 /\ ~(a + p < a) /\ (a + p) - a = p
    BY <1>s
  <2>2. H[a + p] = at + G[p]
    BY <2>1
  <2> QED
    BY <2>1, <2>2
<1>6. ASSUME NEW p \in 0 .. (a + b) - 1
      PROVE  <<p, H[p]>> \in A \cup Placed(B, a, at)
  <2>1. CASE p < a
    <3>1. p \in 0 .. a - 1 /\ H[p] = F[p]
      BY <1>s, <2>1
    <3> QED
      BY <1>1, <3>1
  <2>2. CASE ~(p < a)
    <3>1. p - a \in 0 .. b - 1 /\ H[p] = at + G[p - a] /\ a + (p - a) = p
      BY <1>s, <2>2
    <3>2. <<p - a, G[p - a]>> \in B
      BY <1>2, <3>1
    <3>3. <<a + (p - a), at + G[p - a]>> \in Placed(B, a, at)
      BY <3>2 DEF Placed
    <3> QED
      BY <3>1, <3>3
  <2> QED
    BY <2>1, <2>2
<1>7. A \cup Placed(B, a, at) \subseteq M
  <2>1. A \subseteq M
    BY <1>1, <1>4
  <2>2. ASSUME NEW q \in Placed(B, a, at)
        PROVE  q \in M
    <3>1. PICK p \in 0 .. b - 1 : q = <<a + p, at + G[p]>>
      BY <1>2 DEF Placed
    <3> QED
      BY <3>1, <1>5
  <2> QED
    BY <2>1, <2>2
<1>8. M \subseteq A \cup Placed(B, a, at)
  BY <1>6
<1>9. A \cup Placed(B, a, at) = M
  BY <1>7, <1>8
<1>10. a + b \in Nat
  BY <1>s
<1> QED
  BY <1>3, <1>9, <1>10 DEF Lays

\* Two shifts are one.
LEMMA PlacedTwice ==
    ASSUME NEW map \in Maps,
           NEW pos \in Int, NEW at \in Int, NEW pos2 \in Int, NEW at2 \in Int
    PROVE  Placed(Placed(map, pos, at), pos2, at2) = Placed(map, pos2 + pos, at2 + at)
<1> DEFINE Once(p)  == <<pos + p[1], at + p[2]>>
           Twice(q) == <<pos2 + q[1], at2 + q[2]>>
           Both(p)  == <<(pos2 + pos) + p[1], (at2 + at) + p[2]>>
<1>1. ASSUME NEW p \in map
      PROVE  Twice(Once(p)) = Both(p)
  <2>1. p[1] \in Int /\ p[2] \in Int
    BY DEF Maps
  <2>2. Once(p)[1] = pos + p[1] /\ Once(p)[2] = at + p[2]
    OBVIOUS
  <2>3. /\ pos2 + (pos + p[1]) = (pos2 + pos) + p[1]
        /\ at2 + (at + p[2]) = (at2 + at) + p[2]
    BY <2>1
  <2> QED
    BY <2>2, <2>3
<1>2. Placed(Placed(map, pos, at), pos2, at2) = {Twice(q) : q \in {Once(p) : p \in map}}
  BY DEF Placed
<1>3. Placed(map, pos2 + pos, at2 + at) = {Both(p) : p \in map}
  BY DEF Placed
<1> HIDE DEF Once, Twice, Both
<1>4. {Twice(q) : q \in {Once(p) : p \in map}} = {Both(p) : p \in map}
  BY <1>1
<1> QED
  BY <1>2, <1>3, <1>4

\* No shift.
LEMMA PlacedNowhere ==
    ASSUME NEW map, map \in Maps
    PROVE  Placed(map, 0, 0) = map
<1>1. \A p \in map : p[1] \in Int /\ p[2] \in Int /\ p = <<p[1], p[2]>>
  BY DEF Maps
<1>2. \A p \in map : <<0 + p[1], 0 + p[2]>> = p
  BY <1>1
<1> QED
  BY <1>2 DEF Placed

\* A shifted type map is one.
LEMMA PlacedPairs ==
    ASSUME NEW map \in Maps, NEW pos \in Int, NEW at \in Int
    PROVE  Placed(map, pos, at) \in Maps
<1>1. \A p \in map : p[1] \in Int /\ p[2] \in Int
  BY DEF Maps
<1> QED
  BY <1>1 DEF Placed, Maps

\* A repeated type map is one.
LEMMA RepsPairs ==
    ASSUME NEW map \in Maps, NEW n \in Nat, NEW step \in Int, NEW span \in Int
    PROVE  Reps(map, n, step, span) \in Maps
<1>1. \A k \in 0 .. n - 1 : k * step \in Int /\ k * span \in Int
  OBVIOUS
<1>2. \A k \in 0 .. n - 1 : Placed(map, k * step, k * span) \in Maps
  BY <1>1, PlacedPairs
<1> QED
  BY <1>2 DEF Reps, Maps

\* No repetition.
LEMMA RepsNone ==
    ASSUME NEW map, NEW step, NEW span
    PROVE  Reps(map, 0, step, span) = {}
<1>1. 0 .. 0 - 1 = {}
  OBVIOUS
<1> QED
  BY <1>1 DEF Reps

\* One repetition.
LEMMA RepsOne ==
    ASSUME NEW map \in Maps, NEW step \in Int, NEW span \in Int
    PROVE  Reps(map, 1, step, span) = map
<1>1. 0 .. 1 - 1 = {0} /\ 0 * step = 0 /\ 0 * span = 0
  BY SMTT(30)
<1> QED
  BY <1>1, PlacedNowhere DEF Reps

\* a copies, and b more behind them.
LEMMA RepsSplit ==
    ASSUME NEW map \in Maps, NEW a \in Nat, NEW b \in Nat,
           NEW step \in Int, NEW span \in Int, NEW c, c = a + b
    PROVE  Reps(map, c, step, span)
              = Reps(map, a, step, span)
                  \cup Placed(Reps(map, b, step, span), a * step, a * span)
<1> DEFINE P == [k \in Nat |-> Placed(map, k * step, k * span)]
<1>r. \A n \in Nat : Reps(map, n, step, span) = UNION {P[k] : k \in 0 .. n - 1}
  BY DEF Reps
<1>1. ASSUME NEW k \in 0 .. b - 1
      PROVE  Placed(P[k], a * step, a * span) = P[a + k]
  <2>1. a * step + k * step = (a + k) * step /\ a * span + k * span = (a + k) * span
    BY SMTT(30)
  <2>2. k * step \in Int /\ k * span \in Int /\ a * step \in Int /\ a * span \in Int
    OBVIOUS
  <2>3. k \in Nat /\ a + k \in Nat
    OBVIOUS
  <2> QED
    BY <2>1, <2>2, <2>3, PlacedTwice
<1> HIDE DEF P
<1>2. Placed(Reps(map, b, step, span), a * step, a * span)
         = UNION {Placed(P[k], a * step, a * span) : k \in 0 .. b - 1}
  <2> DEFINE To(p) == <<a * step + p[1], a * span + p[2]>>
  <2> SUFFICES {To(p) : p \in UNION {P[k] : k \in 0 .. b - 1}}
                  = UNION {{To(p) : p \in P[k]} : k \in 0 .. b - 1}
    BY <1>r DEF Placed
  <2> HIDE DEF To
  <2> QED
    OBVIOUS
<1>3. Placed(Reps(map, b, step, span), a * step, a * span) = UNION {P[a + k] : k \in 0 .. b - 1}
  BY <1>1, <1>2
<1>4. \A j \in 0 .. (a + b) - 1 : j \in 0 .. a - 1 \/ (j - a \in 0 .. b - 1 /\ a + (j - a) = j)
  OBVIOUS
<1>5. \A k \in 0 .. b - 1 : a + k \in 0 .. (a + b) - 1
  OBVIOUS
<1>6. 0 .. a - 1 \subseteq 0 .. (a + b) - 1
  OBVIOUS
<1> DEFINE A == UNION {P[j] : j \in 0 .. a - 1}
           B == UNION {P[a + k] : k \in 0 .. b - 1}
           C == UNION {P[j] : j \in 0 .. (a + b) - 1}
<1>7. C \subseteq A \cup B
  <2> SUFFICES ASSUME NEW j \in 0 .. (a + b) - 1 PROVE P[j] \subseteq A \cup B
    OBVIOUS
  <2>1. CASE j \in 0 .. a - 1
    BY <2>1
  <2>2. CASE j - a \in 0 .. b - 1 /\ a + (j - a) = j
    <3>1. P[a + (j - a)] \subseteq B
      BY <2>2
    <3> QED
      BY <2>2, <3>1
  <2> QED
    BY <1>4, <2>1, <2>2
<1>8. A \subseteq C
  BY <1>6
<1>9. B \subseteq C
  BY <1>5
<1>10. C = A \cup B
  BY <1>7, <1>8, <1>9
<1>11. a + b \in Nat
  OBVIOUS
<1> QED
  BY <1>3, <1>10, <1>11, <1>r

\* One more repetition.
LEMMA RepsNext ==
    ASSUME NEW map \in Maps, NEW n \in Nat,
           NEW step \in Int, NEW span \in Int, NEW m, m = n + 1
    PROVE  Reps(map, m, step, span)
              = Reps(map, n, step, span) \cup Placed(map, n * step, n * span)
<1>1. 1 \in Nat /\ Reps(map, 1, step, span) = map
  BY RepsOne
<1>2. Reps(map, m, step, span)
         = Reps(map, n, step, span) \cup Placed(Reps(map, 1, step, span), n * step, n * span)
  BY <1>1, RepsSplit
<1> QED
  BY <1>1, <1>2

\* Copies of copies.
LEMMA RepsOfReps ==
    ASSUME NEW map \in Maps, NEW c \in Nat, NEW k \in Nat,
           NEW step \in Int, NEW span \in Int
    PROVE  Reps(Reps(map, k, step, span), c, k * step, k * span)
              = Reps(map, c * k, step, span)
<1> DEFINE R == Reps(map, k, step, span)
           S == {n \in Nat : Reps(R, n, k * step, k * span) = Reps(map, n * k, step, span)}
<1>r. R \in Maps /\ k * step \in Int /\ k * span \in Int
  BY RepsPairs
<1>1. 0 \in S
  <2>1. 0 * k = 0
    BY SMTT(30)
  <2> QED
    BY <2>1, RepsNone
<1>2. ASSUME NEW n \in Nat, n \in S
      PROVE  n + 1 \in S
  <2>1. n * k \in Nat /\ (n + 1) * k = n * k + k
    BY SMTT(30)
  <2>2. n * (k * step) = (n * k) * step /\ n * (k * span) = (n * k) * span
    BY Regroup
  <2>3. Reps(map, n * k + k, step, span)
           = Reps(map, n * k, step, span) \cup Placed(R, (n * k) * step, (n * k) * span)
    <3>1. n * k \in Nat
      BY <2>1
    <3> QED
      BY <3>1, RepsSplit
  <2>4. Reps(R, n + 1, k * step, k * span)
           = Reps(R, n, k * step, k * span) \cup Placed(R, n * (k * step), n * (k * span))
    <3> HIDE DEF R
    <3> QED
      BY <1>r, RepsNext
  <2> QED
    BY <1>2, <2>1, <2>2, <2>3, <2>4
<1>3. c \in S
  <2> HIDE DEF S
  <2> QED
    BY <1>1, <1>2, HeightRec!Induction
<1> QED
  BY <1>3

\* Items one behind the other lay out n times their size.
LEMMA RepsLays ==
    ASSUME NEW map, NEW size, Lays(map, size), NEW n \in Nat, NEW span \in Int
    PROVE  Lays(Reps(map, n, size, span), n * size)
<1> DEFINE S == {k \in Nat : Lays(Reps(map, k, size, span), k * size)}
<1>s. size \in Nat /\ map \in Maps
  BY LaysPairs
<1>1. 0 \in S
  <2>1. 0 * size = 0
    BY <1>s, SMTT(30)
  <2> QED
    BY <2>1, RepsNone, LaysNothing
<1>2. ASSUME NEW k \in Nat, k \in S
      PROVE  k + 1 \in S
  <2>1. (k + 1) * size = k * size + size /\ k * span \in Int
    BY <1>s, SMTT(30)
  <2>2. Lays(Reps(map, k, size, span) \cup Placed(map, k * size, k * span), k * size + size)
    BY <1>2, <2>1, LaysBehind
  <2>3. Reps(map, k + 1, size, span) = Reps(map, k, size, span) \cup Placed(map, k * size, k * span)
    BY <1>s, RepsNext
  <2>4. Lays(Reps(map, k + 1, size, span), k * size + size)
    BY <2>2, <2>3
  <2>5. Lays(Reps(map, k + 1, size, span), (k + 1) * size)
    BY <2>1, <2>4
  <2> QED
    BY <2>5
<1>3. n \in S
  <2> HIDE DEF S
  <2> QED
    BY <1>1, <1>2, HeightRec!Induction
<1> QED
  BY <1>3

\* Layouts behind one another, each from its own offset on.
Chain(map, size, disp, n) == UNION {Placed(map[b], Total(size, b - 1), disp[b]) : b \in 1 .. n}

\* Blocks one behind the other lay out the sum of their sizes.
LEMMA ChainLays ==
    ASSUME NEW n \in Nat, NEW map, NEW size, NEW disp,
           \A b \in 1 .. n : Lays(map[b], size[b]) /\ disp[b] \in Int
    PROVE  Lays(Chain(map, size, disp, n), Total(size, n))
<1> DEFINE S == {k \in Nat : k <= n => Lays(Chain(map, size, disp, k), Total(size, k))}
<1>1. 0 \in S
  <2>1. 1 .. 0 = {}
    OBVIOUS
  <2>2. Chain(map, size, disp, 0) = {}
    BY <2>1 DEF Chain
  <2> QED
    BY <2>2, TotalZero, LaysNothing
<1>2. ASSUME NEW k \in Nat, k \in S
      PROVE  k + 1 \in S
  <2> SUFFICES ASSUME k + 1 <= n
               PROVE  Lays(Chain(map, size, disp, k + 1), Total(size, k + 1))
    OBVIOUS
  <2>1. Total(size, k + 1) = Total(size, k) + size[k + 1]
    BY TotalNext
  <2>2. k + 1 \in 1 .. n /\ k <= n
    OBVIOUS
  <2>3. Lays(Chain(map, size, disp, k) \cup Placed(map[k + 1], Total(size, k), disp[k + 1]),
             Total(size, k) + size[k + 1])
    BY <1>2, <2>2, LaysBehind
  <2>4. Chain(map, size, disp, k + 1)
           = Chain(map, size, disp, k) \cup Placed(map[k + 1], Total(size, k), disp[k + 1])
    <3>1. 1 .. k + 1 = (1 .. k) \cup {k + 1} /\ (k + 1) - 1 = k
      OBVIOUS
    <3> QED
      BY <3>1 DEF Chain
  <2> QED
    BY <2>1, <2>3, <2>4
<1>3. n \in S
  <2> HIDE DEF S
  <2> QED
    BY <1>1, <1>2, HeightRec!Induction
<1> QED
  BY <1>3

\* n blocks whose items have the sizes given.
BlocksOf(blocks, size, n) ==
    /\ n \in Nat /\ DOMAIN blocks = 1 .. n
    /\ \A b \in 1 .. n :
          /\ blocks[b].disp \in Int /\ blocks[b].len \in Nat
          /\ Lays(blocks[b].item.map, size[b])
          /\ blocks[b].item.lb \in Int /\ blocks[b].item.ub \in Int

\* The maps of the blocks, their sizes and where they begin.
BlockMap(blocks, size) ==
    [b \in DOMAIN blocks |->
        Reps(blocks[b].item.map, blocks[b].len, size[b], Span(blocks[b].item))]

\* The bytes of each block.
BlockSize(blocks, size) == [b \in DOMAIN blocks |-> blocks[b].len * size[b]]

\* Where each block starts.
BlockDisp(blocks)       == [b \in DOMAIN blocks |-> blocks[b].disp]

\* What is known of a single block.
LEMMA BlockFacts ==
    ASSUME NEW blocks, NEW size, NEW n, BlocksOf(blocks, size, n), NEW b \in 1 .. n
    PROVE  /\ blocks[b].item.map \in Maps /\ size[b] \in Nat
           /\ Bytes(blocks[b].item) = size[b]
           /\ Span(blocks[b].item) \in Int
           /\ blocks[b].len * size[b] \in Nat
           /\ Lays(BlockMap(blocks, size)[b], BlockSize(blocks, size)[b])
           /\ BlockDisp(blocks)[b] \in Int
<1>1. Lays(blocks[b].item.map, size[b])
  BY DEF BlocksOf
<1>2. blocks[b].item.map \in Maps /\ size[b] \in Nat
  BY <1>1, LaysPairs
<1>3. Bytes(blocks[b].item) = size[b]
  BY <1>1, LaysBytes DEF Bytes
<1>4. Span(blocks[b].item) \in Int /\ blocks[b].len \in Nat /\ b \in DOMAIN blocks
  BY DEF Span, BlocksOf
<1>5. blocks[b].len * size[b] \in Nat
  BY <1>2, <1>4, SMTT(30)
<1>6. Lays(BlockMap(blocks, size)[b], BlockSize(blocks, size)[b])
  BY <1>1, <1>4, RepsLays DEF BlockMap, BlockSize
<1> QED
  BY <1>2, <1>3, <1>4, <1>5, <1>6 DEF BlockDisp, BlocksOf

\* The map of assembled blocks: the maps of the blocks, one behind the other.
LEMMA AssembleMap ==
    ASSUME NEW blocks, NEW size, NEW n, BlocksOf(blocks, size, n)
    PROVE  Assemble(blocks).map
              = Chain(BlockMap(blocks, size), BlockSize(blocks, size), BlockDisp(blocks), n)
<1> DEFINE lens == [a \in DOMAIN blocks |-> blocks[a].len * Bytes(blocks[a].item)]
           Item(b, k) == [at   |-> blocks[b].disp + k * Span(blocks[b].item),
                          pos  |-> Total(lens, b - 1) + k * Bytes(blocks[b].item),
                          item |-> blocks[b].item]
           items == UNION {{Item(b, k) : k \in 0 .. blocks[b].len - 1} : b \in DOMAIN blocks}
           M == BlockMap(blocks, size)
           Z == BlockSize(blocks, size)
           D == BlockDisp(blocks)
<1>n. n \in Nat /\ DOMAIN blocks = 1 .. n
  BY DEF BlocksOf
<1>1. Assemble(blocks).map = UNION {Placed(i.item.map, i.pos, i.at) : i \in items}
  BY DEF Assemble, Placed
<1>2. lens = Z
  <2>1. \A b \in DOMAIN blocks : Bytes(blocks[b].item) = size[b]
    BY <1>n, BlockFacts
  <2> QED
    BY <2>1 DEF BlockSize
<1>3. ASSUME NEW b \in 1 .. n, NEW k \in 0 .. blocks[b].len - 1
      PROVE  Placed(Item(b, k).item.map, Item(b, k).pos, Item(b, k).at)
                = Placed(Placed(blocks[b].item.map, k * size[b], k * Span(blocks[b].item)),
                         Total(Z, b - 1), D[b])
  <2>1. /\ blocks[b].item.map \in Maps /\ size[b] \in Nat
        /\ Bytes(blocks[b].item) = size[b] /\ Span(blocks[b].item) \in Int
    BY BlockFacts
  <2>2. k * size[b] \in Int /\ k * Span(blocks[b].item) \in Int
    BY <2>1
  <2>3. Total(Z, b - 1) \in Nat
    <3>1. ASSUME NEW i \in 1 .. b - 1
          PROVE  Z[i] \in Nat
      <4>1. i \in 1 .. n
        BY <1>n
      <4>2. Z[i] = blocks[i].len * size[i]
        BY <1>n, <4>1 DEF BlockSize
      <4> QED
        BY <4>1, <4>2, BlockFacts
    <3> QED
      BY <3>1, TotalNat
  <2>4. D[b] \in Int /\ D[b] = blocks[b].disp
    BY <1>n, BlockFacts DEF BlockDisp
  <2>5. Item(b, k).item.map = blocks[b].item.map
    OBVIOUS
  <2>6. Item(b, k).pos = Total(Z, b - 1) + k * size[b]
    BY <1>2, <2>1
  <2>7. Item(b, k).at = D[b] + k * Span(blocks[b].item)
    BY <2>4
  <2> DEFINE pos == k * size[b]
             at  == k * Span(blocks[b].item)
             map == blocks[b].item.map
             pos2 == Total(Z, b - 1)
             at2  == D[b]
  <2>8. map \in Maps /\ pos \in Int /\ at \in Int /\ pos2 \in Int /\ at2 \in Int
    BY <2>1, <2>2, <2>3, <2>4
  <2> HIDE DEF Item, Z, D, pos, at, map, pos2, at2
  <2>9. Placed(Placed(map, pos, at), pos2, at2) = Placed(map, pos2 + pos, at2 + at)
    BY <2>8, PlacedTwice
  <2> QED
    BY <2>5, <2>6, <2>7, <2>9 DEF pos, at, map, pos2, at2
<1>4. ASSUME NEW b \in 1 .. n
      PROVE  UNION {Placed(Item(b, k).item.map, Item(b, k).pos, Item(b, k).at)
                       : k \in 0 .. blocks[b].len - 1}
                = Placed(M[b], Total(Z, b - 1), D[b])
  <2> DEFINE P(k) == Placed(blocks[b].item.map, k * size[b], k * Span(blocks[b].item))
             To(p) == <<Total(Z, b - 1) + p[1], D[b] + p[2]>>
  <2>1. M[b] = UNION {P(k) : k \in 0 .. blocks[b].len - 1}
    BY <1>n DEF BlockMap, Reps
  <2>2. \A m : Placed(m, Total(Z, b - 1), D[b]) = {To(p) : p \in m}
    BY DEF Placed
  <2> HIDE DEF P, To, Item, M, Z, D
  <2>3. {To(p) : p \in UNION {P(k) : k \in 0 .. blocks[b].len - 1}}
           = UNION {{To(p) : p \in P(k)} : k \in 0 .. blocks[b].len - 1}
    OBVIOUS
  <2>4. \A k \in 0 .. blocks[b].len - 1 :
           Placed(Item(b, k).item.map, Item(b, k).pos, Item(b, k).at) = {To(p) : p \in P(k)}
    BY <1>3, <2>2 DEF P
  <2> QED
    BY <2>1, <2>2, <2>3, <2>4
<1>5. UNION {Placed(i.item.map, i.pos, i.at) : i \in items}
         = UNION {UNION {Placed(Item(b, k).item.map, Item(b, k).pos, Item(b, k).at)
                            : k \in 0 .. blocks[b].len - 1} : b \in 1 .. n}
  <2> DEFINE Q(i) == Placed(i.item.map, i.pos, i.at)
  <2> HIDE DEF Q, Item
  <2>1. UNION {Q(i) : i \in items}
           = UNION {UNION {Q(Item(b, k)) : k \in 0 .. blocks[b].len - 1} : b \in 1 .. n}
    BY <1>n
  <2> QED
    BY <2>1 DEF Q
<1>6. UNION {UNION {Placed(Item(b, k).item.map, Item(b, k).pos, Item(b, k).at)
                            : k \in 0 .. blocks[b].len - 1} : b \in 1 .. n}
         = UNION {Placed(M[b], Total(Z, b - 1), D[b]) : b \in 1 .. n}
  <2> DEFINE R(b) == UNION {Placed(Item(b, k).item.map, Item(b, k).pos, Item(b, k).at)
                               : k \in 0 .. blocks[b].len - 1}
             T(b) == Placed(M[b], Total(Z, b - 1), D[b])
  <2>1. \A b \in 1 .. n : R(b) = T(b)
    BY <1>4
  <2> HIDE DEF R, T
  <2>2. UNION {R(b) : b \in 1 .. n} = UNION {T(b) : b \in 1 .. n}
    BY <2>1
  <2> QED
    BY <2>2 DEF R, T
<1> QED
  BY <1>1, <1>5, <1>6 DEF Chain

\* lb and ub bound every item of the blocks, and each is met by one.
Hull(blocks, n, lb, ub) ==
    /\ lb \in Int /\ ub \in Int
    /\ \A b \in 1 .. n : \A k \in 0 .. blocks[b].len - 1 :
          /\ lb <= blocks[b].disp + k * Span(blocks[b].item) + blocks[b].item.lb
          /\ blocks[b].disp + k * Span(blocks[b].item) + blocks[b].item.ub <= ub
    /\ \E b \in 1 .. n : \E k \in 0 .. blocks[b].len - 1 :
          lb = blocks[b].disp + k * Span(blocks[b].item) + blocks[b].item.lb
    /\ \E b \in 1 .. n : \E k \in 0 .. blocks[b].len - 1 :
          ub = blocks[b].disp + k * Span(blocks[b].item) + blocks[b].item.ub

\* The bounds of assembled blocks are their hull.
LEMMA AssembleHull ==
    ASSUME NEW blocks, NEW size, NEW n, BlocksOf(blocks, size, n),
           NEW lb, NEW ub, Hull(blocks, n, lb, ub)
    PROVE  Assemble(blocks).lb = lb /\ Assemble(blocks).ub = ub
<1> DEFINE lens == [a \in DOMAIN blocks |-> blocks[a].len * Bytes(blocks[a].item)]
           Item(b, k) == [at   |-> blocks[b].disp + k * Span(blocks[b].item),
                          pos  |-> Total(lens, b - 1) + k * Bytes(blocks[b].item),
                          item |-> blocks[b].item]
           items == UNION {{Item(b, k) : k \in 0 .. blocks[b].len - 1} : b \in DOMAIN blocks}
           L == {i.at + i.item.lb : i \in items}
           U == {i.at + i.item.ub : i \in items}
<1>n. n \in Nat /\ DOMAIN blocks = 1 .. n
  BY DEF BlocksOf
<1>1. /\ Assemble(blocks).lb = IF items = {} THEN 0 ELSE Min(L)
      /\ Assemble(blocks).ub = IF items = {} THEN 0 ELSE Max(U)
  BY DEF Assemble
<1>2. \A b \in 1 .. n : \A k \in 0 .. blocks[b].len - 1 :
         /\ Item(b, k).at = blocks[b].disp + k * Span(blocks[b].item)
         /\ Item(b, k).item = blocks[b].item
         /\ Item(b, k) \in items
         /\ Item(b, k).at \in Int
  <2>1. \A b \in 1 .. n : Span(blocks[b].item) \in Int /\ blocks[b].disp \in Int
    BY BlockFacts DEF BlocksOf
  <2> SUFFICES ASSUME NEW b \in 1 .. n, NEW k \in 0 .. blocks[b].len - 1
               PROVE  /\ Item(b, k).at = blocks[b].disp + k * Span(blocks[b].item)
                      /\ Item(b, k).item = blocks[b].item
                      /\ Item(b, k) \in items
                      /\ Item(b, k).at \in Int
    OBVIOUS
  <2>2. /\ Item(b, k).at = blocks[b].disp + k * Span(blocks[b].item)
        /\ Item(b, k).item = blocks[b].item
    OBVIOUS
  <2>3. k * Span(blocks[b].item) \in Int
    BY <2>1
  <2>4. Item(b, k).at \in Int
    BY <2>1, <2>2, <2>3
  <2> HIDE DEF Item
  <2>5. Item(b, k) \in items
    BY <1>n
  <2> QED
    BY <2>2, <2>4, <2>5
<1>3. \A i \in items : \E b \in 1 .. n : \E k \in 0 .. blocks[b].len - 1 : i = Item(b, k)
  BY <1>n
<1>b. \A b \in 1 .. n : blocks[b].item.lb \in Int /\ blocks[b].item.ub \in Int
  BY DEF BlocksOf
<1> HIDE DEF Item, items
<1>4. \A i \in items : /\ i.at + i.item.lb \in Int /\ lb <= i.at + i.item.lb
                       /\ i.at + i.item.ub \in Int /\ i.at + i.item.ub <= ub
  BY <1>2, <1>3, <1>b DEF Hull
<1>5. lb \in L /\ L \subseteq Int /\ \A y \in L : lb <= y
  <2>1. PICK b \in 1 .. n : \E k \in 0 .. blocks[b].len - 1 :
              lb = blocks[b].disp + k * Span(blocks[b].item) + blocks[b].item.lb
    BY DEF Hull
  <2>2. lb \in L
    BY <1>2, <2>1
  <2> QED
    BY <1>4, <2>2
<1>6. ub \in U /\ U \subseteq Int /\ \A y \in U : y <= ub
  <2>1. PICK b \in 1 .. n : \E k \in 0 .. blocks[b].len - 1 :
              ub = blocks[b].disp + k * Span(blocks[b].item) + blocks[b].item.ub
    BY DEF Hull
  <2>2. ub \in U
    BY <1>2, <2>1
  <2> QED
    BY <1>4, <2>2
<1> HIDE DEF L, U
<1>7. Min(L) = lb /\ Max(U) = ub
  BY <1>5, <1>6, MinIs, MaxIs
<1>8. items # {}
  BY <1>5 DEF L
<1> QED
  BY <1>1, <1>7, <1>8

\* A meaning whose map fills size positions.
Layout(m, size) == Lays(m.map, size) /\ m.lb \in Int /\ m.ub \in Int

\* n items are a single block of them.
LEMMA RepeatedBlocks ==
    ASSUME NEW m, NEW size, Layout(m, size), NEW n \in Nat
    PROVE  BlocksOf(<<Block(0, n, m)>>, <<size>>, 1)
<1>1. 1 .. 1 = {1}
  OBVIOUS
<1> QED
  BY <1>1 DEF BlocksOf, Block, Layout

\* The bytes of n items.
LEMMA RepeatedMap ==
    ASSUME NEW m, NEW size, Layout(m, size), NEW n \in Nat
    PROVE  /\ Repeated(n, m).map = Reps(m.map, n, size, Span(m))
           /\ Lays(Repeated(n, m).map, n * size)
<1> DEFINE blocks == <<Block(0, n, m)>>
           sizes  == <<size>>
           M == BlockMap(blocks, sizes)
           Z == BlockSize(blocks, sizes)
           D == BlockDisp(blocks)
<1>b. BlocksOf(blocks, sizes, 1)
  BY RepeatedBlocks
<1>l. Lays(m.map, size) /\ m.map \in Maps /\ size \in Nat /\ Span(m) \in Int
  BY LaysPairs DEF Layout, Span
<1>1. M[1] = Reps(m.map, n, size, Span(m)) /\ D[1] = 0
  BY DEF BlockMap, BlockDisp, Block
<1>2. Reps(m.map, n, size, Span(m)) \in Maps
  BY <1>l, RepsPairs
<1>3. Chain(M, Z, D, 1) = Placed(M[1], Total(Z, 0), D[1])
  <2>1. 1 .. 1 = {1} /\ 1 - 1 = 0
    OBVIOUS
  <2> QED
    BY <2>1 DEF Chain
<1>4. Repeated(n, m).map = Chain(M, Z, D, 1)
  BY <1>b, AssembleMap DEF Repeated
<1>5. Total(Z, 0) = 0
  BY TotalZero
<1>6. Repeated(n, m).map = Placed(Reps(m.map, n, size, Span(m)), 0, 0)
  BY <1>1, <1>3, <1>4, <1>5
<1>7. Repeated(n, m).map = Reps(m.map, n, size, Span(m))
  BY <1>2, <1>6, PlacedNowhere
<1>8. Lays(Reps(m.map, n, size, Span(m)), n * size)
  BY <1>l, RepsLays
<1> QED
  BY <1>7, <1>8

\* The bounds of n items.
LEMMA RepeatedHull ==
    ASSUME NEW m, NEW size, Layout(m, size), NEW n \in Nat \ {0}, Span(m) >= 0
    PROVE  /\ Repeated(n, m).lb = m.lb
           /\ Repeated(n, m).ub = m.lb + n * Span(m)
<1> DEFINE blocks == <<Block(0, n, m)>>
           ub == m.lb + n * Span(m)
<1>b. BlocksOf(blocks, <<size>>, 1)
  BY RepeatedBlocks
<1>f. blocks[1].disp = 0 /\ blocks[1].len = n /\ blocks[1].item = m
  BY DEF Block
<1>s. Span(m) \in Int /\ m.lb \in Int /\ m.ub \in Int /\ m.ub = m.lb + Span(m)
  BY DEF Layout, Span
<1>u. ub \in Int /\ n * Span(m) \in Int
  BY <1>s
<1>1. ASSUME NEW k \in 0 .. n - 1
      PROVE  m.lb <= 0 + k * Span(m) + m.lb /\ 0 + k * Span(m) + m.ub <= ub
  <2>1. 0 * Span(m) <= k * Span(m) /\ (k + 1) * Span(m) <= n * Span(m)
    BY <1>s, ProductMonotone
  <2>2. 0 * Span(m) = 0 /\ (k + 1) * Span(m) = k * Span(m) + Span(m) /\ k * Span(m) \in Int
    BY <1>s, SMTT(30)
  <2> QED
    BY <1>s, <1>u, <2>1, <2>2
<1>2. /\ m.lb = 0 + 0 * Span(m) + m.lb
      /\ ub = 0 + (n - 1) * Span(m) + m.ub
      /\ 0 \in 0 .. n - 1 /\ n - 1 \in 0 .. n - 1
  <2>1. 0 * Span(m) = 0 /\ (n - 1) * Span(m) = n * Span(m) - Span(m) /\ (n - 1) * Span(m) \in Int
    BY <1>s, SMTT(30)
  <2> QED
    BY <1>s, <1>u, <2>1
<1>3. 1 .. 1 = {1}
  OBVIOUS
<1> HIDE DEF blocks, ub
<1>4. Assemble(blocks).lb = m.lb /\ Assemble(blocks).ub = ub
  <2>1. \A b \in 1 .. 1 : \A k \in 0 .. blocks[b].len - 1 :
              /\ m.lb <= blocks[b].disp + k * Span(blocks[b].item) + blocks[b].item.lb
              /\ blocks[b].disp + k * Span(blocks[b].item) + blocks[b].item.ub <= ub
    BY <1>1, <1>3, <1>f
  <2>2. \E b \in 1 .. 1 : \E k \in 0 .. blocks[b].len - 1 :
              m.lb = blocks[b].disp + k * Span(blocks[b].item) + blocks[b].item.lb
    BY <1>2, <1>f
  <2>3. \E b \in 1 .. 1 : \E k \in 0 .. blocks[b].len - 1 :
              ub = blocks[b].disp + k * Span(blocks[b].item) + blocks[b].item.ub
    BY <1>2, <1>f
  <2> QED
    <3>1. Hull(blocks, 1, m.lb, ub)
      BY <1>s, <1>u, <2>1, <2>2, <2>3 DEF Hull
    <3> QED
      BY <1>b, <3>1, AssembleHull
<1> QED
  BY <1>4 DEF blocks, ub, Repeated

\* No item, no bounds.
LEMMA RepeatedNothing ==
    ASSUME NEW m
    PROVE  Repeated(0, m).lb = 0 /\ Repeated(0, m).ub = 0
<1> DEFINE blocks == <<Block(0, 0, m)>>
<1>1. \A b \in DOMAIN blocks : 0 .. blocks[b].len - 1 = {}
  BY DEF Block
<1> HIDE DEF blocks
<1>2. Assemble(blocks).lb = 0 /\ Assemble(blocks).ub = 0
  BY <1>1 DEF Assemble
<1> QED
  BY <1>2 DEF blocks, Repeated

\* n times the same number.
Constant(n, c) == [i \in 1 .. n |-> c]

\* The blocks of Strided.
StridedBlocks(count, len, step, m) == [i \in 1..count |-> Block((i - 1) * step, len, m)]

\* They are blocks of the size of their items.
LEMMA StridedFacts ==
    ASSUME NEW m, NEW size, Layout(m, size), NEW count \in Nat, NEW len \in Nat, NEW step \in Int
    PROVE  LET blocks == StridedBlocks(count, len, step, m)
           IN  /\ BlocksOf(blocks, Constant(count, size), count)
               /\ Strided(count, len, step, m) = Assemble(blocks)
               /\ \A i \in 1 .. count : /\ blocks[i].disp = (i - 1) * step
                                        /\ blocks[i].len = len /\ blocks[i].item = m
<1> DEFINE blocks == StridedBlocks(count, len, step, m)
<1>1. DOMAIN blocks = 1 .. count
  BY DEF StridedBlocks
<1>2. \A i \in 1 .. count : /\ blocks[i].disp = (i - 1) * step
                            /\ blocks[i].len = len /\ blocks[i].item = m
  BY DEF StridedBlocks, Block
<1>3. \A i \in 1 .. count : (i - 1) * step \in Int
  OBVIOUS
<1>4. Strided(count, len, step, m) = Assemble(blocks)
  BY DEF Strided, StridedBlocks
<1> HIDE DEF blocks
<1>5. BlocksOf(blocks, Constant(count, size), count)
  BY <1>1, <1>2, <1>3 DEF BlocksOf, Layout, Constant
<1> QED
  BY <1>2, <1>4, <1>5 DEF blocks

\* The bytes of a vector.
LEMMA StridedMap ==
    ASSUME NEW m, NEW size, Layout(m, size), NEW count \in Nat, NEW len \in Nat, NEW step \in Int
    PROVE  /\ Strided(count, len, step, m).map
                 = Reps(Reps(m.map, len, size, Span(m)), count, len * size, step)
           /\ Lays(Strided(count, len, step, m).map, count * (len * size))
<1> DEFINE blocks == StridedBlocks(count, len, step, m)
           sizes  == Constant(count, size)
           R == Reps(m.map, len, size, Span(m))
           M == BlockMap(blocks, sizes)
           Z == BlockSize(blocks, sizes)
           D == BlockDisp(blocks)
<1>b. /\ BlocksOf(blocks, sizes, count) /\ Strided(count, len, step, m) = Assemble(blocks)
      /\ \A i \in 1 .. count : /\ blocks[i].disp = (i - 1) * step
                               /\ blocks[i].len = len /\ blocks[i].item = m
  BY StridedFacts
<1>d. DOMAIN blocks = 1 .. count
  BY DEF StridedBlocks
<1>l. Lays(m.map, size) /\ size \in Nat /\ Span(m) \in Int /\ len * size \in Nat
  <2>1. Lays(m.map, size) /\ size \in Nat /\ Span(m) \in Int
    BY LaysPairs DEF Layout, Span
  <2> QED
    BY <2>1, SMTT(30)
<1>1. \A i \in 1 .. count : M[i] = R /\ Z[i] = len * size /\ D[i] = (i - 1) * step
  BY <1>b, <1>d DEF BlockMap, BlockSize, BlockDisp, Constant
<1> HIDE DEF blocks, sizes, M, Z, D, R
<1>2. ASSUME NEW i \in 1 .. count
      PROVE  Total(Z, i - 1) = (i - 1) * (len * size)
  <2>1. i - 1 \in Nat /\ \A j \in 1 .. i - 1 : Z[j] = len * size
    BY <1>1
  <2> QED
    BY <1>l, <2>1, TotalConstant
<1>3. Chain(M, Z, D, count) = UNION {Placed(R, (i - 1) * (len * size), (i - 1) * step) : i \in 1 .. count}
  BY <1>1, <1>2 DEF Chain
<1>4. UNION {Placed(R, (i - 1) * (len * size), (i - 1) * step) : i \in 1 .. count}
         = UNION {Placed(R, k * (len * size), k * step) : k \in 0 .. count - 1}
  <2> DEFINE P(k) == Placed(R, k * (len * size), k * step)
  <2>1. \A k \in 0 .. count - 1 : k + 1 \in 1 .. count /\ (k + 1) - 1 = k
    OBVIOUS
  <2>2. \A i \in 1 .. count : i - 1 \in 0 .. count - 1
    OBVIOUS
  <2> HIDE DEF P
  <2>3. UNION {P(i - 1) : i \in 1 .. count} = UNION {P(k) : k \in 0 .. count - 1}
    <3>1. ASSUME NEW k \in 0 .. count - 1
          PROVE  P(k) \in {P(i - 1) : i \in 1 .. count}
      <4>1. P((k + 1) - 1) \in {P(i - 1) : i \in 1 .. count}
        BY <2>1
      <4> QED
        BY <2>1, <4>1
    <3>2. ASSUME NEW i \in 1 .. count
          PROVE  P(i - 1) \in {P(k) : k \in 0 .. count - 1}
      BY <2>2
    <3> QED
      BY <3>1, <3>2
  <2> QED
    BY <2>3 DEF P
<1>5. Strided(count, len, step, m).map = Reps(R, count, len * size, step)
  <2>1. Assemble(blocks).map = Chain(M, Z, D, count)
    BY <1>b, AssembleMap DEF M, Z, D
  <2> QED
    BY <1>b, <1>3, <1>4, <2>1 DEF Reps
<1>6. Lays(R, len * size)
  BY <1>l, RepsLays DEF R
<1>7. Lays(Reps(R, count, len * size, step), count * (len * size))
  BY <1>6, RepsLays
<1> QED
  BY <1>5, <1>7 DEF R

\* The bounds of a vector that runs forward.
LEMMA StridedHull ==
    ASSUME NEW m, NEW size, Layout(m, size), NEW count \in Nat \ {0}, NEW len \in Nat \ {0},
           NEW step \in Nat, Span(m) >= 0
    PROVE  /\ Strided(count, len, step, m).lb = m.lb
           /\ Strided(count, len, step, m).ub = m.lb + (count - 1) * step + len * Span(m)
<1> DEFINE blocks == StridedBlocks(count, len, step, m)
           sizes  == Constant(count, size)
           s  == Span(m)
           ub == m.lb + (count - 1) * step + len * s
<1>b. /\ BlocksOf(blocks, sizes, count) /\ Strided(count, len, step, m) = Assemble(blocks)
      /\ \A i \in 1 .. count : /\ blocks[i].disp = (i - 1) * step
                               /\ blocks[i].len = len /\ blocks[i].item = m
  <2>1. count \in Nat /\ len \in Nat /\ step \in Int
    OBVIOUS
  <2> QED
    BY <2>1, StridedFacts
<1>s. s \in Nat /\ m.lb \in Int /\ m.ub \in Int /\ m.ub = m.lb + s
  BY DEF Layout, Span
<1>u. ub \in Int /\ len * s \in Int /\ (count - 1) * step \in Int
  BY <1>s
<1> HIDE DEF blocks, sizes
<1>1. ASSUME NEW i \in 1 .. count, NEW k \in 0 .. len - 1
      PROVE  m.lb <= (i - 1) * step + k * s + m.lb /\ (i - 1) * step + k * s + m.ub <= ub
  <2>1. 0 * s <= k * s /\ (k + 1) * s <= len * s
    BY <1>s, ProductMonotone
  <2>2. 0 * step <= (i - 1) * step /\ (i - 1) * step <= (count - 1) * step
    BY ProductMonotone
  <2>3. 0 * s = 0 /\ 0 * step = 0 /\ (k + 1) * s = k * s + s /\ k * s \in Int /\ (i - 1) * step \in Int
    BY <1>s, SMTT(30)
  <2> DEFINE a == (i - 1) * step
             c == (count - 1) * step
             d == k * s
             e == len * s
  <2>4. a \in Int /\ c \in Int /\ d \in Int /\ e \in Int
    BY <1>u, <2>3
  <2>5. 0 <= d /\ d + s <= e /\ 0 <= a /\ a <= c
    BY <2>1, <2>2, <2>3
  <2>6. ub = m.lb + c + e
    OBVIOUS
  <2> HIDE DEF a, c, d, e, s, ub
  <2>7. m.lb <= a + d + m.lb /\ a + d + m.ub <= ub
    BY <1>s, <2>4, <2>5, <2>6
  <2> QED
    BY <2>7 DEF a, d
<1>2. /\ m.lb = (1 - 1) * step + 0 * s + m.lb
      /\ ub = (count - 1) * step + (len - 1) * s + m.ub
      /\ 0 \in 0 .. len - 1 /\ len - 1 \in 0 .. len - 1 /\ 1 \in 1 .. count /\ count \in 1 .. count
  <2>1. 0 * s = 0 /\ (1 - 1) * step = 0 /\ (len - 1) * s = len * s - s /\ (len - 1) * s \in Int
    BY <1>s, SMTT(30)
  <2> QED
    BY <1>s, <1>u, <2>1
<1> HIDE DEF s, ub
<1>4. Assemble(blocks).lb = m.lb /\ Assemble(blocks).ub = ub
  <2>1. \A b \in 1 .. count : \A k \in 0 .. blocks[b].len - 1 :
              /\ m.lb <= blocks[b].disp + k * Span(blocks[b].item) + blocks[b].item.lb
              /\ blocks[b].disp + k * Span(blocks[b].item) + blocks[b].item.ub <= ub
    BY <1>1, <1>b DEF s
  <2>2. \E b \in 1 .. count : \E k \in 0 .. blocks[b].len - 1 :
              m.lb = blocks[b].disp + k * Span(blocks[b].item) + blocks[b].item.lb
    BY <1>2, <1>b DEF s
  <2>3. \E b \in 1 .. count : \E k \in 0 .. blocks[b].len - 1 :
              ub = blocks[b].disp + k * Span(blocks[b].item) + blocks[b].item.ub
    BY <1>2, <1>b DEF s
  <2> QED
    <3>1. Hull(blocks, count, m.lb, ub)
      BY <1>s, <1>u, <2>1, <2>2, <2>3 DEF Hull
    <3> QED
      BY <1>b, <3>1, AssembleHull
<1> QED
  BY <1>4, <1>b DEF ub, s

\* A list of numbers has a least and a greatest member.
LEMMA ListLeast ==
    ASSUME NEW n \in Nat \ {0}, NEW f, \A i \in 1 .. n : f[i] \in Int
    PROVE  \E i \in 1 .. n : \A j \in 1 .. n : f[i] <= f[j]
<1> DEFINE S == {k \in Nat : k < n => \E i \in 1 .. k + 1 : \A j \in 1 .. k + 1 : f[i] <= f[j]}
<1>1. 0 \in S
  <2>1. 1 .. 0 + 1 = {1} /\ 1 \in 1 .. n
    OBVIOUS
  <2> QED
    BY <2>1
<1>2. ASSUME NEW k \in Nat, k \in S
      PROVE  k + 1 \in S
  <2> SUFFICES ASSUME k + 1 < n
               PROVE  \E i \in 1 .. (k + 1) + 1 : \A j \in 1 .. (k + 1) + 1 : f[i] <= f[j]
    OBVIOUS
  <2>1. PICK i \in 1 .. k + 1 : \A j \in 1 .. k + 1 : f[i] <= f[j]
    BY <1>2
  <2>2. /\ 1 .. (k + 1) + 1 = (1 .. k + 1) \cup {(k + 1) + 1}
        /\ 1 .. (k + 1) + 1 \subseteq 1 .. n
    OBVIOUS
  <2> DEFINE l == (k + 1) + 1
  <2>3. l \in 1 .. l /\ i \in 1 .. l /\ f[l] \in Int /\ f[i] \in Int
    BY <2>2
  <2>4. \A j \in 1 .. l : j \in 1 .. k + 1 \/ j = l
    OBVIOUS
  <2>5. CASE f[i] <= f[l]
    BY <2>1, <2>3, <2>4, <2>5
  <2>6. CASE f[l] < f[i]
    <3>1. \A j \in 1 .. k + 1 : f[j] \in Int /\ f[i] <= f[j]
      BY <2>1, <2>2
    <3>2. \A j \in 1 .. k + 1 : f[l] <= f[j]
      BY <2>3, <2>6, <3>1
    <3> QED
      BY <2>3, <2>4, <3>2
  <2> QED
    BY <2>3, <2>5, <2>6
<1>3. n - 1 \in S
  <2>1. n - 1 \in Nat
    OBVIOUS
  <2> HIDE DEF S
  <2> QED
    BY <1>1, <1>2, <2>1, HeightRec!Induction
<1> QED
  BY <1>3

\* The members of a list.
Listed(f, n) == {f[i] : i \in 1 .. n}

\* The minimum of a list is one of its members.
LEMMA ListMin ==
    ASSUME NEW n \in Nat \ {0}, NEW f, \A i \in 1 .. n : f[i] \in Int
    PROVE  LET m == Min(Listed(f, n))
           IN  m \in Int /\ (\E i \in 1 .. n : m = f[i]) /\ \A i \in 1 .. n : m <= f[i]
<1>1. PICK i \in 1 .. n : \A j \in 1 .. n : f[i] <= f[j]
  BY ListLeast
<1> DEFINE S == {f[j] : j \in 1 .. n}
<1>2. f[i] \in S /\ S \subseteq Int /\ \A y \in S : f[i] <= y
  BY <1>1
<1> HIDE DEF S
<1>3. Min(S) = f[i]
  BY <1>2, MinIs
<1> QED
  BY <1>1, <1>3 DEF S, Listed

\* The maximum of a list is one of its members.
LEMMA ListMax ==
    ASSUME NEW n \in Nat \ {0}, NEW f, \A i \in 1 .. n : f[i] \in Int
    PROVE  LET m == Max(Listed(f, n))
           IN  m \in Int /\ (\E i \in 1 .. n : m = f[i]) /\ \A i \in 1 .. n : f[i] <= m
<1> DEFINE g == [i \in 1 .. n |-> -f[i]]
<1>1. \A i \in 1 .. n : g[i] \in Int
  OBVIOUS
<1> HIDE DEF g
<1>2. PICK i \in 1 .. n : \A j \in 1 .. n : g[i] <= g[j]
  BY <1>1, ListLeast
<1>3. \A j \in 1 .. n : f[j] <= f[i]
  BY <1>2 DEF g
<1> DEFINE S == {f[j] : j \in 1 .. n}
<1>4. f[i] \in S /\ S \subseteq Int /\ \A y \in S : y <= f[i]
  BY <1>3
<1> HIDE DEF S
<1>5. Max(S) = f[i]
  BY <1>4, MaxIs
<1> QED
  BY <1>3, <1>5 DEF S, Listed

\* Assembled blocks lay out the sum of their sizes.
LEMMA BlocksLay ==
    ASSUME NEW blocks, NEW size, NEW n, BlocksOf(blocks, size, n)
    PROVE  Lays(Assemble(blocks).map, Total(BlockSize(blocks, size), n))
<1>1. \A b \in 1 .. n : /\ Lays(BlockMap(blocks, size)[b], BlockSize(blocks, size)[b])
                        /\ BlockDisp(blocks)[b] \in Int
  BY BlockFacts
<1>2. n \in Nat
  BY DEF BlocksOf
<1> QED
  BY <1>1, <1>2, ChainLays, AssembleMap

\* Blocks of items that begin at 0: the bounds are the first displacement and
\* the last end.
LEMMA BlocksHull ==
    ASSUME NEW blocks, NEW size, NEW n, BlocksOf(blocks, size, n),
           \A b \in 1 .. n : /\ blocks[b].len > 0 /\ blocks[b].item.lb = 0
                             /\ Span(blocks[b].item) >= 0,
           NEW lo \in Int, NEW hi \in Int,
           \A b \in 1 .. n : lo <= blocks[b].disp,
           \E b \in 1 .. n : lo = blocks[b].disp,
           \A b \in 1 .. n : blocks[b].disp + blocks[b].len * Span(blocks[b].item) <= hi,
           \E b \in 1 .. n : blocks[b].disp + blocks[b].len * Span(blocks[b].item) = hi
    PROVE  Assemble(blocks).lb = lo /\ Assemble(blocks).ub = hi
<1>1. \A b \in 1 .. n : /\ blocks[b].disp \in Int /\ blocks[b].len \in Nat \ {0}
                        /\ Span(blocks[b].item) \in Nat
                        /\ blocks[b].item.lb = 0 /\ blocks[b].item.ub = Span(blocks[b].item)
  <2> SUFFICES ASSUME NEW b \in 1 .. n
               PROVE  /\ blocks[b].disp \in Int /\ blocks[b].len \in Nat \ {0}
                      /\ Span(blocks[b].item) \in Nat
                      /\ blocks[b].item.lb = 0 /\ blocks[b].item.ub = Span(blocks[b].item)
    OBVIOUS
  <2>1. /\ blocks[b].disp \in Int /\ blocks[b].len \in Nat
        /\ blocks[b].item.ub \in Int
    BY DEF BlocksOf
  <2>2. blocks[b].len > 0 /\ blocks[b].item.lb = 0 /\ Span(blocks[b].item) >= 0
    OBVIOUS
  <2>3. Span(blocks[b].item) = blocks[b].item.ub
    BY <2>1, <2>2 DEF Span
  <2> QED
    BY <2>1, <2>2, <2>3
<1>2. ASSUME NEW b \in 1 .. n, NEW k \in 0 .. blocks[b].len - 1
      PROVE  /\ lo <= blocks[b].disp + k * Span(blocks[b].item) + blocks[b].item.lb
             /\ blocks[b].disp + k * Span(blocks[b].item) + blocks[b].item.ub <= hi
  <2> DEFINE d == blocks[b].disp
             l == blocks[b].len
             s == Span(blocks[b].item)
  <2>1. d \in Int /\ l \in Nat \ {0} /\ s \in Nat /\ blocks[b].item.lb = 0 /\ blocks[b].item.ub = s
    BY <1>1
  <2>2. lo <= d /\ d + l * s <= hi
    OBVIOUS
  <2> HIDE DEF d, l, s
  <2>3. 0 * s <= k * s /\ (k + 1) * s <= l * s
    <3>1. k \in 0 .. l - 1
      BY DEF l
    <3>2. k \in Int /\ k + 1 \in Int /\ 0 <= k /\ k + 1 <= l /\ l \in Int
      BY <2>1, <3>1
    <3> QED
      BY <2>1, <3>2, ProductMonotone
  <2>4. 0 * s = 0 /\ (k + 1) * s = k * s + s /\ k * s \in Int /\ l * s \in Int
    BY <2>1, SMTT(30)
  <2>5. lo <= d + k * s + 0 /\ d + k * s + s <= hi
    BY <2>1, <2>2, <2>3, <2>4
  <2> QED
    BY <2>1, <2>5 DEF d, s
<1>3. \E b \in 1 .. n : \E k \in 0 .. blocks[b].len - 1 :
          lo = blocks[b].disp + k * Span(blocks[b].item) + blocks[b].item.lb
  <2>1. PICK b \in 1 .. n : lo = blocks[b].disp
    OBVIOUS
  <2>2. 0 \in 0 .. blocks[b].len - 1
    BY <1>1
  <2>3. 0 * Span(blocks[b].item) = 0
    BY <1>1, SMTT(30)
  <2>4. lo = blocks[b].disp + 0 * Span(blocks[b].item) + blocks[b].item.lb
    BY <1>1, <2>1, <2>3
  <2> QED
    BY <2>2, <2>4
<1>4. \E b \in 1 .. n : \E k \in 0 .. blocks[b].len - 1 :
          hi = blocks[b].disp + k * Span(blocks[b].item) + blocks[b].item.ub
  <2>1. PICK b \in 1 .. n : blocks[b].disp + blocks[b].len * Span(blocks[b].item) = hi
    OBVIOUS
  <2>2. blocks[b].len - 1 \in 0 .. blocks[b].len - 1
    BY <1>1
  <2>3. (blocks[b].len - 1) * Span(blocks[b].item)
           = blocks[b].len * Span(blocks[b].item) - Span(blocks[b].item)
    BY <1>1, SMTT(30)
  <2>4. hi = blocks[b].disp + (blocks[b].len - 1) * Span(blocks[b].item) + blocks[b].item.ub
    <3>1. blocks[b].len * Span(blocks[b].item) \in Int
      BY <1>1
    <3> QED
      BY <1>1, <2>1, <2>3, <3>1
  <2> QED
    BY <2>2, <2>4
<1>5. Hull(blocks, n, lo, hi)
  BY <1>2, <1>3, <1>4 DEF Hull
<1> QED
  BY <1>5, AssembleHull
=============================================================================
