---------------------------- MODULE DatatypeTree ----------------------------
(***************************************************************************)
(* The tree of C++ classes a derived datatype is built from (ddt_jit.cpp). *)
(* A node is a record of the constructor's arguments and of what the       *)
(* constructor computes from them: size (bytes of data), lb and ub.  Every *)
(* constructor clones its basetype, so a node holds its subtree by value.  *)
(*                                                                         *)
(* compress() is given here one level at a time: what a class does with    *)
(* the already compressed basetype.  The walk over the tree is in          *)
(* DatatypeCode.  The true bounds the constructors also compute are read   *)
(* by nothing the library generates and are left out.                      *)
(***************************************************************************)
EXTENDS Integers, Sequences, FiniteSetsExt

CONSTANT MaxDepth   \* bound: constructors above a primitive type

ASSUME MaxDepthAssumption == MaxDepth \in Nat

\* The sum of the first n values of f.
Total(f, n) ==
    LET sum[i \in 0 .. n] == IF i = 0 THEN 0 ELSE sum[i - 1] + f[i]
    IN  sum[n]

SizeOf == [BYTE |-> 1, CHAR |-> 1, INT |-> 4, FLOAT |-> 4, DOUBLE |-> 8]

Extent(t) == t.ub - t.lb

Primitive(type) ==
    [kind |-> "PRIMITIVE", type |-> type,
     size |-> SizeOf[type], lb |-> 0, ub |-> SizeOf[type]]

Contiguous_size_of_the_gaps(count, base) ==
    [kind |-> "CONTIGUOUS", count |-> count, base |-> base,
     size |-> (count - 1) * base.size,
     lb   |-> base.lb,
     ub   |-> base.lb + Extent(base) + Extent(base) * (count - 1)]

Contiguous(count, base) ==
    [kind |-> "CONTIGUOUS", count |-> count, base |-> base,
     size |-> count * base.size,
     lb   |-> base.lb,
     ub   |-> base.lb + Extent(base) + Extent(base) * (count - 1)]

Vector_one_block_too_long(count, blocklen, stride, base) ==
    LET reach == (stride * (count - 1) + blocklen) * Extent(base)
    IN  [kind |-> "VECTOR", count |-> count, blocklen |-> blocklen,
         stride |-> stride, base |-> base,
         size |-> count * blocklen * base.size,
         lb   |-> IF stride > 0 THEN base.lb ELSE base.ub + reach,
         ub   |-> IF stride > 0 THEN base.ub + reach
                                ELSE blocklen * Extent(base)]

Vector(count, blocklen, stride, base) ==
    LET reach == (stride * (count - 1) + blocklen - 1) * Extent(base)
    IN  [kind |-> "VECTOR", count |-> count, blocklen |-> blocklen,
         stride |-> stride, base |-> base,
         size |-> count * blocklen * base.size,
         lb   |-> IF stride > 0 THEN base.lb ELSE base.ub + reach,
         ub   |-> IF stride > 0 THEN base.ub + reach
                                ELSE blocklen * Extent(base)]

\* The stride is in bytes, but the lower bound of a vector that runs backwards
\* multiplies it by the extent of the basetype all the same.
HVector(count, blocklen, stride, base) ==
    LET forward  == stride * (count - 1) + (blocklen - 1) * Extent(base)
        backward == (stride * (count - 1) + blocklen - 1) * Extent(base)
    IN  [kind |-> "HVECTOR", count |-> count, blocklen |-> blocklen,
         stride |-> stride, base |-> base,
         size |-> count * blocklen * base.size,
         lb   |-> IF count = 0 THEN 0
                  ELSE IF stride > 0 THEN base.lb ELSE base.ub + backward,
         ub   |-> IF count = 0 THEN 0
                  ELSE IF stride > 0 THEN base.ub + forward
                                     ELSE blocklen * Extent(base)]

\* displs counts elements.  The size leaves the block length out, and the
\* first displacement enters the bounds before it is scaled by the extent.
IndexedBlock(blocklen, displs, base) ==
    LET count  == Len(displs)
        starts == {displs[i] * Extent(base) : i \in 1..count}
        stops  == {(displs[i] + blocklen) * Extent(base) : i \in 1..count}
    IN  [kind |-> "INDEXEDBLOCK", count |-> count, blocklen |-> blocklen,
         displs |-> displs, base |-> base,
         size |-> base.size * count,
         lb   |-> IF count = 0 THEN 0 ELSE Min({displs[1]} \cup starts),
         ub   |-> IF count = 0 THEN 0
                  ELSE Max({displs[1] + blocklen * Extent(base)} \cup stops)]

HIndexed(blocklens, displs, base) ==
    LET blocks  == 1..Len(displs)
        stop(i) == displs[i] + blocklens[i] * Extent(base)
    IN  [kind |-> "HINDEXED", count |-> Len(displs), blocklens |-> blocklens,
         displs |-> displs, base |-> base,
         size |-> Total([i \in blocks |-> base.size * blocklens[i]], Len(displs)),
         lb   |-> IF blocks = {} THEN 0 ELSE Min({displs[i] : i \in blocks}),
         ub   |-> IF blocks = {} THEN 0 ELSE Max({stop(i) : i \in blocks})]

\* Both bounds start from 0, whatever the displacements are.  The constructor
\* appends its fields twice over; only the first count of them are ever read.
Struct(blocklens, displs, bases) ==
    LET blocks  == 1..Len(displs)
        stop(i) == displs[i] + blocklens[i] * Extent(bases[i])
    IN  [kind |-> "STRUCT", count |-> Len(displs), blocklens |-> blocklens,
         displs |-> displs, bases |-> bases,
         size |-> Total([i \in blocks |-> bases[i].size * blocklens[i]], Len(displs)),
         lb   |-> Min({0} \cup {displs[i] : i \in blocks}),
         ub   |-> Max({0} \cup {stop(i) : i \in blocks})]

Resized(base, lb, extent) ==
    [kind |-> "RESIZED", base |-> base,
     size |-> base.size, lb |-> lb, ub |-> lb + extent]

\* The objects of each class whose basetypes are in S.
NodesOver(S) ==
    [kind : {"CONTIGUOUS"}, count : Nat, base : S, size : Int, lb : Int, ub : Int]
      \cup
    [kind : {"VECTOR", "HVECTOR"}, count : Nat, blocklen : Nat, stride : Int,
     base : S, size : Int, lb : Int, ub : Int]
      \cup
    [kind : {"INDEXEDBLOCK"}, count : Nat, blocklen : Nat, displs : Seq(Int),
     base : S, size : Int, lb : Int, ub : Int]
      \cup
    [kind : {"HINDEXED"}, count : Nat, blocklens : Seq(Nat), displs : Seq(Int),
     base : S, size : Int, lb : Int, ub : Int]
      \cup
    [kind : {"STRUCT"}, count : Nat, blocklens : Seq(Nat), displs : Seq(Int),
     bases : Seq(S), size : Int, lb : Int, ub : Int]
      \cup
    [kind : {"RESIZED"}, base : S, size : Int, lb : Int, ub : Int]

\* Trees of at most h constructors above a primitive type.
TreesTo[h \in Nat] ==
    {Primitive(type) : type \in DOMAIN SizeOf}
      \cup IF h = 0 THEN {} ELSE NodesOver(TreesTo[h - 1])

Trees == TreesTo[MaxDepth]

-----------------------------------------------------------------------------
(* One level of compress(): t is the original node, cbase its basetype     *)
(* after compression.                                                      *)

\* A contiguous basetype without gaps dissolves into the count or the block
\* length of the type above it.
Dissolves(cbase) == cbase.kind = "CONTIGUOUS" /\ Extent(cbase) = cbase.size

CompressContiguous(t, cbase) ==
    IF Dissolves(cbase) THEN Contiguous(t.count * cbase.count, cbase.base)
                        ELSE Contiguous(t.count, cbase)

\* A vector whose blocks touch becomes a contiguous type.
CompressVector_stride_not_scaled(t, cbase) ==
    LET v == IF Dissolves(cbase)
             THEN Vector(t.count, t.blocklen * cbase.count, t.stride, cbase.base)
             ELSE Vector(t.count, t.blocklen, t.stride, cbase)
    IN  IF v.stride = v.blocklen THEN Contiguous(v.count * v.blocklen, v.base)
                                 ELSE v

CompressVector(t, cbase) ==
    LET v == IF Dissolves(cbase)
             THEN Vector(t.count, t.blocklen * cbase.count,
                         t.stride * cbase.count, cbase.base)
             ELSE Vector(t.count, t.blocklen, t.stride, cbase)
    IN  IF v.stride = v.blocklen THEN Contiguous(v.count * v.blocklen, v.base)
                                 ELSE v

CompressHVector(t, cbase) ==
    LET v == IF Dissolves(cbase)
             THEN HVector(t.count, t.blocklen * cbase.count, t.stride, cbase.base)
             ELSE HVector(t.count, t.blocklen, t.stride, cbase)
    IN  IF v.stride = v.blocklen * Extent(v.base)
        THEN Contiguous(v.count * v.blocklen, v.base)
        ELSE v

CompressResized_extent_of_base(t, cbase) == Resized(cbase, t.lb, Extent(cbase))
CompressResized_upper_bound(t, cbase)    == Resized(cbase, t.lb, t.ub)

CompressResized(t, cbase) == Resized(cbase, t.lb, Extent(t))

\* The assertions at the end of the first three functions above.
KeepsSizeAndExtent(t, c) == c.size = t.size /\ Extent(c) = Extent(t)
=============================================================================
