-------------------------- MODULE DatatypePacking ---------------------------
(***************************************************************************)
(* The life of a derived datatype: it is built constructor by constructor  *)
(* (each new object wraps a clone of the last one), committed, and then    *)
(* packs and unpacks buffers with the code generated for it, through the   *)
(* C++ functions DDT_* or through LPK_Pack of the C interface.             *)
(*                                                                         *)
(* A call of a generated function is described by the bytes it moves: the  *)
(* pairs <<p, o>> of a position p in the packed buffer and an offset o in  *)
(* the user's memory, of which it writes the one and reads the other.      *)
(***************************************************************************)
EXTENDS DatatypeCode, TypeMap

CONSTANTS Primitives,     \* the primitive types to build from
          Counts,         \* counts of contiguous and vector types
          Blocklens,      \* block lengths
          Strides,        \* strides of vectors, in elements
          ByteStrides,    \* strides of hvectors, in bytes
          ElementDispls,  \* displacement lists of indexed blocks, in elements
          ByteDispls,     \* displacement lists of hindexed and struct types
          LowerBounds, Extents,   \* arguments of resized types
          PackCounts      \* items per call of pack and unpack

\* A call for no item runs away, as every loop runs once before its test.
ASSUME ArgumentsAssumption ==
    /\ Primitives \subseteq DOMAIN SizeOf
    /\ Counts \subseteq Nat /\ Blocklens \subseteq Nat
    /\ Strides \subseteq Int /\ ByteStrides \subseteq Int
    /\ ElementDispls \subseteq Seq(Int) /\ ByteDispls \subseteq Seq(Int)
    /\ LowerBounds \subseteq Int /\ Extents \subseteq Int
    /\ PackCounts \subseteq Nat \ {0}

VARIABLES dtype,  \* the datatype object
          code,   \* the compressed tree its functions were generated from
          entry,  \* the entry point called last
          items,  \* the number of items it was asked to move
          moved,  \* the bytes it moved
          fault   \* an assertion that failed, or code that ran away

vars == <<dtype, code, entry, items, moved, fault>>

NotCommitted == <<>>   \* the function pointers are NULL

Fresh(t) ==
    /\ dtype = t
    /\ code = NotCommitted /\ fault = "none"
    /\ entry = "none" /\ items = 0 /\ moved = {}

Init == \E p \in Primitives : Fresh(Primitive(p))

\* Another object takes the place of the old one, which it cloned.
Wrap(t) ==
    /\ t \in Trees /\ fault = "none"
    /\ dtype' = t /\ code' = NotCommitted
    /\ entry' = "none" /\ items' = 0 /\ moved' = {}
    /\ UNCHANGED fault

NewContiguous == \E c \in Counts : Wrap(Contiguous(c, dtype))

NewVector ==
    \E c \in Counts, b \in Blocklens, s \in Strides : Wrap(Vector(c, b, s, dtype))

NewHVector ==
    \E c \in Counts, b \in Blocklens, s \in ByteStrides :
        Wrap(HVector(c, b, s, dtype))

NewIndexedBlock ==
    \E b \in Blocklens, ds \in ElementDispls : Wrap(IndexedBlock(b, ds, dtype))

NewHIndexed ==
    \E ds \in ByteDispls : \E bs \in [DOMAIN ds -> Blocklens] :
        Wrap(HIndexed(bs, ds, dtype))

\* The other fields of a struct are primitive.
NewStruct ==
    \E ds \in ByteDispls, p \in Primitives :
        \E bs \in [DOMAIN ds -> Blocklens], f \in DOMAIN ds :
            Wrap(Struct(bs, ds, [i \in DOMAIN ds |->
                                    IF i = f THEN dtype ELSE Primitive(p)]))

NewResized ==
    \E lb \in LowerBounds, e \in Extents : Wrap(Resized(dtype, lb, e))

\* DDT_Commit: compile() compresses the tree and generates both functions.
Commit ==
    /\ code = NotCommitted /\ fault = "none"
    /\ IF CompressAsserts[dtype]
       THEN code' = Compress[dtype] /\ UNCHANGED fault
       ELSE fault' = "assert" /\ UNCHANGED code
    /\ UNCHANGED <<dtype, entry, items, moved>>

\* Calls a generated function on n items; the copies end, or run away.
Call(how, n, copies, Pair(_, _)) ==
    /\ code # NotCommitted /\ fault = "none"
    /\ IF Ends(copies)
       THEN /\ moved' = UNION {{Pair(c.from + i, c.to + i) : i \in 0 .. c.len - 1}
                               : c \in copies}
            /\ entry' = how /\ items' = n
            /\ UNCHANGED fault
       ELSE fault' = "runaway" /\ UNCHANGED <<entry, items, moved>>
    /\ UNCHANGED <<dtype, code>>

\* Packing reads the user's memory and writes the packed buffer.
Gathered(from, to)  == <<to, from>>
Scattered(from, to) == <<from, to>>

DDT_Pack ==
    \E n \in PackCounts : Call("DDT_Pack", n, PackCode(code, n), Gathered)

DDT_Unpack ==
    \E n \in PackCounts : Call("DDT_Unpack", n, UnpackCode(code, n), Scattered)

\* LPK_Pack hands its arguments to DDT_Unpack.
LPK_Pack ==
    \E n \in PackCounts : Call("LPK_Pack", n, UnpackCode(code, n), Gathered)

Next ==
    \/ NewContiguous \/ NewVector \/ NewHVector \/ NewIndexedBlock
    \/ NewHIndexed \/ NewStruct \/ NewResized
    \/ Commit \/ DDT_Pack \/ DDT_Unpack \/ LPK_Pack

Spec == Init /\ [][Next]_vars

-----------------------------------------------------------------------------
(* The datatypes the library is right about.  Outside this set the         *)
(* properties below fail, each for a reason named here.                    *)

\* A type whose bytes fill its extent.
Dense(t) == t.lb = 0 /\ Extent(t) = t.size

InScopeOf(scope, t) ==
    LET \* as the basetype of another: an empty type has no bounds to build on
        Sound(b) == scope[b] /\ b.size > 0
    IN
    \* the code of a basetype with a loop cannot run zero times
    /\ t.kind = "CONTIGUOUS" =>
          /\ scope[t.base]
          /\ t.count > 0 \/ Compress[t].base.kind = "PRIMITIVE"
    \* bounds are computed for strides that run forward
    /\ t.kind \in {"VECTOR", "HVECTOR"} =>
          Sound(t.base) /\ t.count > 0 /\ t.blocklen > 0 /\ t.stride > 0
    \* the size leaves the block length out, the first displacement is not
    \* scaled, the code scales by the size instead of the extent, and the loop
    \* over a table holds copies only
    /\ t.kind = "INDEXEDBLOCK" =>
          /\ Sound(t.base) /\ Dense(t.base) /\ t.blocklen = 1
          /\ \A i \in DOMAIN t.displs : t.displs[i] >= 0
          /\ \E i \in DOMAIN t.displs : t.displs[i] = 0
          /\ t.count > IDXB_LOOP_TRESHOLD =>
                ~OpensBlocks(Compress[t.base], t.blocklen)
    \* the bounds of the basetype are left out, and the loop counts in extents
    /\ t.kind = "HINDEXED" =>
          /\ Sound(t.base) /\ t.base.lb = 0 /\ Extent(t) > 0
          /\ \A i \in DOMAIN t.blocklens : t.blocklens[i] > 0
    \* and both bounds start from 0
    /\ t.kind = "STRUCT" =>
          /\ Extent(t) > 0
          /\ \E i \in DOMAIN t.displs : t.displs[i] <= 0
          /\ \E i \in DOMAIN t.displs :
                t.displs[i] + t.blocklens[i] * Extent(t.bases[i]) >= 0
          /\ \A i \in DOMAIN t.bases :
                Sound(t.bases[i]) /\ t.bases[i].lb = 0 /\ t.blocklens[i] > 0
    \* nothing is generated for the other kinds, and the bounds of the types
    \* above take the items to lie in the order of their extents
    /\ t.kind = "RESIZED" =>
          Sound(t.base) /\ Compress[t.base].kind \in ResizedKinds /\ Extent(t) >= 0

InScope[t \in Trees] == InScopeOf(InScope, t)

\* The unpack function of a type resized over elements without a stride is a
\* pack function, down to the elements: it is right only if the extent is the
\* size and the elements are primitive.
RestorableOf(restorable, t) ==
    /\ t.kind = "STRUCT" => \A i \in DOMAIN t.bases : restorable[t.bases[i]]
    /\ t.kind \notin {"PRIMITIVE", "STRUCT"} => restorable[t.base]
    /\ t.kind = "RESIZED" =>
          /\ t.base.kind \in {"PRIMITIVE", "CONTIGUOUS"} => Extent(t) = t.size
          /\ t.base.kind = "CONTIGUOUS" => t.base.base.kind = "PRIMITIVE"

Restorable[t \in Trees] == RestorableOf(Restorable, t)

-----------------------------------------------------------------------------
(* The properties.                                                         *)

SameMeaning(t, u) ==
    LET m == Meaning[t]  n == Meaning[u]
    IN  m.map = n.map /\ m.lb = n.lb /\ m.ub = n.ub

\* The objects and buffers the functions work on.
TypeOK ==
    /\ dtype.kind \in {"PRIMITIVE", "CONTIGUOUS", "VECTOR", "HVECTOR",
                       "INDEXEDBLOCK", "HINDEXED", "STRUCT", "RESIZED"}
    /\ dtype.size \in Nat /\ dtype.lb \in Int /\ dtype.ub \in Int
    /\ entry \in {"none", "DDT_Pack", "DDT_Unpack", "LPK_Pack"}
    /\ items \in PackCounts \cup {0}
    /\ moved \subseteq Int \X Int
    /\ fault \in {"none", "assert", "runaway"}

\* The size and the bounds the constructors derive step by step are those of
\* the type map: what ddtplayer compares with MPI_Type_size and
\* MPI_Type_extent, and compare_ddt_info with MPI_Type_get_extent.
BoundsMatchTypeMap ==
    InScope[dtype] =>
        LET m == Meaning[dtype]
        IN  dtype.size = Bytes(m) /\ dtype.lb = m.lb /\ dtype.ub = m.ub

\* Compression may change the shape of the tree, never the bytes it stands
\* for, their order, or the bounds.  compress() itself asserts less: the size
\* and the extent, of three of the classes.
CompressionKeepsMeaning ==
    code # NotCommitted /\ InScope[dtype] => SameMeaning(code, dtype)

\* DDT_Pack fills exactly the bytes of the type map, in their order, and so
\* the getSize() bytes per item the caller allocates.
PackFollowsTypeMap ==
    entry = "DDT_Pack" /\ InScope[dtype] =>
        /\ moved = Packed(Meaning[dtype], items)
        /\ {m[1] : m \in moved} = 0 .. items * dtype.size - 1

\* DDT_Unpack puts every packed byte where MPI_Unpack puts it, and writes to no
\* other byte of the receive buffer.
UnpackFollowsTypeMap ==
    entry = "DDT_Unpack" /\ InScope[dtype] /\ Restorable[code] =>
        moved = Packed(Meaning[dtype], items)

\* No assertion of compress() fails, and every generated loop meets its bound.
CodeEnds == InScope[dtype] => fault = "none"

-----------------------------------------------------------------------------
(* What the tests and the traces say of every datatype.                    *)

\* compress() asserts that it keeps the size and the extent; the MILC traces of
\* ddtplayer hold hvectors of negative stride over contiguous types.
AssertionsHold == fault # "assert"

\* LPK_Pack does what MPI_Pack does: what the test of the C interface compares.
LpkPackFollowsTypeMap ==
    entry = "LPK_Pack" => moved = Packed(Meaning[dtype], items)
=============================================================================
