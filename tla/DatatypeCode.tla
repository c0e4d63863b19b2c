---------------------------- MODULE DatatypeCode ----------------------------
(***************************************************************************)
(* What compile() makes of a datatype: the compressed tree, and the pack   *)
(* or unpack function generated from it (codegen_*.cpp).  The generated    *)
(* code is described by what it does when it runs: the set of its copies,  *)
(* each [from, to, len] with byte offsets into the two buffers.  Two       *)
(* copies to the same place leave either of the two values there.          *)
(*                                                                         *)
(* Every generated loop tests its exit condition, an equality, after the   *)
(* body.  A loop whose counter never meets the bound runs away over both   *)
(* buffers, and so does code built on a wrong basic block: both are        *)
(* recorded as the one copy Runaway.                                       *)
(***************************************************************************)
EXTENDS DatatypeTree

CONSTANTS IDXB_LOOP_TRESHOLD,  \* blocks beyond which displacements are in a table
          COPY_LOOP_TRESHOLD   \* bytes from which a constant copy is a loop

ASSUME ThresholdAssumption ==
    IDXB_LOOP_TRESHOLD \in Nat /\ COPY_LOOP_TRESHOLD \in Nat

-----------------------------------------------------------------------------
(* compress(), bottom up.  The fields of a struct are compressed too, but  *)
(* the struct is rebuilt on the uncompressed ones.                         *)

\* What compress holds of the basetypes makes the compressed t.
CompressOf(compress, t) ==
    CASE t.kind = "PRIMITIVE"    -> t
      [] t.kind = "CONTIGUOUS"   -> CompressContiguous(t, compress[t.base])
      [] t.kind = "VECTOR"       -> CompressVector(t, compress[t.base])
      [] t.kind = "HVECTOR"      -> CompressHVector(t, compress[t.base])
      [] t.kind = "INDEXEDBLOCK" ->
           IndexedBlock(t.blocklen, t.displs, compress[t.base])
      [] t.kind = "HINDEXED"     ->
           HIndexed(t.blocklens, t.displs, compress[t.base])
      [] t.kind = "STRUCT"       -> Struct(t.blocklens, t.displs, t.bases)
      [] t.kind = "RESIZED"      -> CompressResized(t, compress[t.base])

Compress[t \in Trees] == CompressOf(Compress, t)

\* Every assert() that compress() evaluates on the way holds.
AssertsOf(asserts, t) ==
    /\ t.kind \in {"CONTIGUOUS", "VECTOR", "HVECTOR"} =>
          KeepsSizeAndExtent(t, Compress[t])
    /\ CASE t.kind = "PRIMITIVE" -> TRUE
         [] t.kind = "STRUCT"    -> \A i \in DOMAIN t.bases : asserts[t.bases[i]]
         [] OTHER                -> asserts[t.base]

CompressAsserts[t \in Trees] == AssertsOf(CompressAsserts, t)

-----------------------------------------------------------------------------
(* The generated code.                                                     *)

Copy(from, to, len) ==
    IF len = 0 THEN {} ELSE {[from |-> from, to |-> to, len |-> len]}

\* The code run with its arguments inbuf and outbuf at the offsets in and out.
At(in, out, copies) ==
    {[from |-> c.from + in, to |-> c.to + out, len |-> c.len] : c \in copies}

Runaway == {[from |-> 0, to |-> 0, len |-> -1]}

Ends(copies) == \A c \in copies : c.len > 0

\* The number of rounds of a loop that adds step to a counter starting at 0
\* and leaves, after the body, once the counter equals total; 0 if it never
\* does.
Rounds(step, total) ==
    LET k == CASE step > 0 -> total \div step
               [] step < 0 -> (-total) \div (-step)
               [] OTHER    -> 1
    IN  IF k > 0 /\ k * step = total THEN k ELSE 0

Loop(rounds, Body(_)) ==
    IF rounds = 0 THEN Runaway
    ELSE UNION {Body(r) : r \in 0 .. rounds - 1}

\* The kinds a resized type generates code for; for the others it generates
\* nothing at all.
ResizedKinds == {"PRIMITIVE", "CONTIGUOUS", "VECTOR", "HVECTOR"}

\* Does the code of n items of t open basic blocks of its own?
OpensBlocks(t, n) ==
    CASE t.kind = "PRIMITIVE" -> n * t.size >= COPY_LOOP_TRESHOLD
      [] t.kind = "RESIZED"   -> t.base.kind \in ResizedKinds
      [] OTHER                -> TRUE

(* Below, code[t][pack][n] is the code of n items of t: the pack function, *)
(* or the unpack function.                                                 *)

EmitPrimitiveResized(size, extent, n) ==
    Loop(Rounds(1, n), LAMBDA r : Copy(r * extent, r * size, size))

EmitContiguous(code, base, inc_in, inc_out, count, pack, n) ==
    Loop(Rounds(1, n), LAMBDA r : At(r * inc_in, r * inc_out, code[base][pack][count]))

\* extent advances the in pointer and size the out pointer: unpackCodegen
\* passes the two, and the two strides, the other way round.
EmitVector(code, base, blocklen, step_in, step_out, extent, size, pack, n) ==
    Loop(Rounds(1, n), LAMBDA r :
        Loop(IF pack THEN Rounds(step_out, size) ELSE Rounds(step_in, extent),
             LAMBDA j : At(r * extent + j * step_in, r * size + j * step_out,
                           code[base][pack][blocklen])))

\* len items of base between the two buffers, in the direction of the function.
Transfer_always_packs(code, base, pack, len, compact, scattered) ==
    IF pack THEN At(scattered, compact, code[base][TRUE][len])
            ELSE At(compact, scattered, code[base][TRUE][len])

Transfer(code, base, pack, len, compact, scattered) ==
    IF pack THEN At(scattered, compact, code[base][TRUE][len])
            ELSE At(compact, scattered, code[base][FALSE][len])

\* The unrolled code of the indexed types and of structs: the compact side
\* advances block by block, the scattered side by the extent.
EmitBlocks(code, blocks, extent, pack, n) ==
    LET Before(k) == Total([b \in DOMAIN blocks |->
                               blocks[b].len * blocks[b].base.size], k - 1)
    IN  Loop(Rounds(extent, n * extent), LAMBDA r :
            UNION {Transfer(code, blocks[k].base, pack, blocks[k].len,
                            r * Before(Len(blocks) + 1) + Before(k),
                            r * extent + blocks[k].disp)
                   : k \in DOMAIN blocks})

\* The looped code of an indexed block: 32 bit displacements read from the
\* table and zero-extended (a negative one lands 4 GB away), the compact side
\* advanced by extents, and a loop header only a basetype without blocks of
\* its own returns to.
EmitIndexedLoop(code, t, pack, n) ==
    LET step == t.blocklen * Extent(t.base)
        wild == \E i \in DOMAIN t.displs : t.displs[i] * Extent(t.base) < 0
    IN  IF OpensBlocks(t.base, t.blocklen) \/ wild THEN Runaway
        ELSE Loop(Rounds(t.count * step, n * t.size), LAMBDA r :
                UNION {Transfer(code, t.base, pack, t.blocklen,
                                (r * t.count + k - 1) * step,
                                r * Extent(t) + t.displs[k] * Extent(t.base))
                       : k \in DOMAIN t.displs})

EmitIndexedBlock(code, t, pack, n) ==
    IF t.count > IDXB_LOOP_TRESHOLD
    THEN EmitIndexedLoop(code, t, pack, n)
    ELSE EmitBlocks(code, [k \in DOMAIN t.displs |->
                              [disp |-> t.displs[k] * t.base.size,
                               len  |-> t.blocklen, base |-> t.base]],
                    Extent(t), pack, n)

EmitHIndexed(code, t, pack, n) ==
    EmitBlocks(code, [k \in DOMAIN t.displs |->
                          [disp |-> t.displs[k], len |-> t.blocklens[k],
                           base |-> t.base]],
               Extent(t), pack, n)

EmitStruct(code, t, pack, n) ==
    EmitBlocks(code, [k \in DOMAIN t.bases |->
                          [disp |-> t.displs[k], len |-> t.blocklens[k],
                           base |-> t.bases[k]]],
               Extent(t), pack, n)

\* The strides of a vector as its elements lie in memory (blocks of an
\* HVECTOR are a number of bytes apart) and on the packed side.
MemoryStride_without_gaps(v) ==
    IF v.kind = "VECTOR" THEN v.base.size * v.stride ELSE v.stride

MemoryStride(v) ==
    IF v.kind = "VECTOR" THEN Extent(v.base) * v.stride ELSE v.stride

PackedStride_with_gaps(v) == Extent(v.base) * v.blocklen

PackedStride(v) == v.base.size * v.blocklen

\* The code of the vector v inside a type of the given extent.
EmitStrided(code, v, extent, pack, n) ==
    IF pack
    THEN EmitVector(code, v.base, v.blocklen, MemoryStride(v), PackedStride(v),
                    extent, v.size, TRUE, n)
    ELSE EmitVector(code, v.base, v.blocklen, PackedStride(v), MemoryStride(v),
                    v.size, extent, FALSE, n)

\* Over a primitive or contiguous basetype the unpack function is generated
\* as the pack function is.
EmitResized(code, t, pack, n) ==
    CASE t.base.kind = "PRIMITIVE"  ->
           EmitPrimitiveResized(t.size, Extent(t), n)
      [] t.base.kind = "CONTIGUOUS" ->
           EmitContiguous(code, t.base.base, Extent(t), t.size, t.base.count, TRUE, n)
      [] t.base.kind \in {"VECTOR", "HVECTOR"} ->
           EmitStrided(code, t.base, Extent(t), pack, n)
      [] OTHER -> {}

\* One level of packCodegen() and unpackCodegen().
Emit(code, t, pack, n) ==
    CASE t.kind = "PRIMITIVE"  -> Copy(0, 0, n * t.size)
      [] t.kind = "CONTIGUOUS" ->
           IF pack
           THEN EmitContiguous(code, t.base, Extent(t), t.size, t.count, TRUE, n)
           ELSE EmitContiguous(code, t.base, t.size, Extent(t), t.count, FALSE, n)
      [] t.kind \in {"VECTOR", "HVECTOR"} -> EmitStrided(code, t, Extent(t), pack, n)
      [] t.kind = "INDEXEDBLOCK" -> EmitIndexedBlock(code, t, pack, n)
      [] t.kind = "HINDEXED"     -> EmitHIndexed(code, t, pack, n)
      [] t.kind = "STRUCT"       -> EmitStruct(code, t, pack, n)
      [] t.kind = "RESIZED"      -> EmitResized(code, t, pack, n)

CodeOf(code, t) ==
    [pack \in BOOLEAN |-> [n \in Nat |-> Emit(code, t, pack, n)]]

Code[t \in Trees] == CodeOf(Code, t)

\* The functions compile() leaves behind, applied to whole buffers.
PackCode(t, n)   == Code[t][TRUE][n]
UnpackCode(t, n) == Code[t][FALSE][n]
=============================================================================
