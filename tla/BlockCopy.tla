----------------------------- MODULE BlockCopy -----------------------------
(***************************************************************************)
(* The code that codegenPrimitive() emits to copy n elements of a          *)
(* primitive type, with both buffers at offset 0.  If n is known only at   *)
(* run time it is a call of memcpy.  Otherwise full vectors are copied in  *)
(* an unrolled loop, where there are enough of them, and the rest with     *)
(* smaller and smaller vectors.                                            *)
(*                                                                         *)
(* DatatypeCode uses the whole of this as one step, Copy.                  *)
(***************************************************************************)
EXTENDS Integers

CONSTANTS SIMD_BYTE_SIZE,      \* bytes of a full vector
          COPY_LOOP_UNROLL,    \* vectors copied in one round of the loop
          COPY_LOOP_TRESHOLD,  \* bytes from which there is a loop
          Sizes,               \* sizes of the primitive types
          Counts               \* the values of n

\* codegenPrimitive() asserts that vectors hold a whole number of elements;
\* that SIMD_BYTE_SIZE is a power of two, which it asserts too, is not needed.
ASSUME CopyAssumption ==
    /\ SIMD_BYTE_SIZE \in Nat \ {0} /\ COPY_LOOP_UNROLL \in Nat \ {0}
    /\ COPY_LOOP_TRESHOLD \in Nat
    /\ Sizes \subseteq Nat \ {0} /\ Counts \subseteq Nat
    /\ \A s \in Sizes : SIMD_BYTE_SIZE % s = 0

VARIABLES pc,        \* where the generated code is
          size, n,   \* what is copied
          constant,  \* n is a constant of the generated code
          in, out,   \* the pointers
          left,      \* elements the code behind pc has to copy (incount_val)
          vecsize,   \* elements of the vectors it uses
          copied     \* the bytes copied: pairs of their two offsets

vars == <<pc, size, n, constant, in, out, left, vecsize, copied>>

Span(from, to, len) == {<<from + i, to + i>> : i \in 0 .. len - 1}

vector_size == SIMD_BYTE_SIZE \div size

\* A whole number of rounds of the loop: its exit test is an equality.
vectors_not_cut == n \div vector_size

vectors_to_copy ==
    ((n \div vector_size) \div COPY_LOOP_UNROLL) * COPY_LOOP_UNROLL

\* What the loop leaves to the postamble.
LeftByLoop_in_bytes == n - vectors_to_copy * SIMD_BYTE_SIZE

LeftByLoop == n - vectors_to_copy * vector_size

Init ==
    /\ pc = "entry"
    /\ size \in Sizes /\ n \in Counts /\ constant \in BOOLEAN
    /\ in = 0 /\ out = 0 /\ copied = {}
    /\ left = n /\ vecsize = vector_size

\* len bytes are loaded and stored, and both pointers advanced.
Move(len) ==
    /\ copied' = copied \cup Span(in, out, len)
    /\ in' = in + len /\ out' = out + len

MemCpy ==
    /\ pc = "entry" /\ ~constant
    /\ copied' = Span(in, out, size * n)
    /\ pc' = "done"
    /\ UNCHANGED <<size, n, constant, in, out, left, vecsize>>

LoopPays == vectors_to_copy > 0 /\ n >= COPY_LOOP_TRESHOLD \div size

EnterLoop ==
    /\ pc = "entry" /\ constant /\ LoopPays
    /\ pc' = "copyloop"
    /\ left' = LeftByLoop
    /\ UNCHANGED <<size, n, constant, in, out, vecsize, copied>>

SkipLoop ==
    /\ pc = "entry" /\ constant /\ ~LoopPays
    /\ pc' = "copypostamble"
    /\ UNCHANGED <<size, n, constant, in, out, left, vecsize, copied>>

LoopRound ==
    /\ pc = "copyloop"
    /\ Move(COPY_LOOP_UNROLL * (size * vector_size))
    /\ pc' = IF in' = vectors_to_copy * SIMD_BYTE_SIZE THEN "copypostamble"
                                                       ELSE "copyloop"
    /\ UNCHANGED <<size, n, constant, left, vecsize>>

VecCount_at_most_one == IF left >= vecsize THEN 1 ELSE 0

VecCount == left \div vecsize
NextVecsize_rounded_up == (vecsize + 1) \div 2

NextVecsize == vecsize \div 2

Postamble ==
    /\ pc = "copypostamble" /\ vecsize > 0
    /\ Move(VecCount * (size * vecsize))
    /\ left' = left - VecCount * vecsize
    /\ vecsize' = NextVecsize
    /\ UNCHANGED <<pc, size, n, constant>>

Return ==
    /\ pc = "copypostamble" /\ vecsize = 0
    /\ pc' = "done"
    /\ UNCHANGED <<size, n, constant, in, out, left, vecsize, copied>>

Next == MemCpy \/ EnterLoop \/ SkipLoop \/ LoopRound \/ Postamble \/ Return

\* A function that was called runs.
Spec == Init /\ [][Next]_vars /\ WF_vars(Next)

-----------------------------------------------------------------------------

\* The counters and widths the emitted code is built from stay counts.
TypeOK ==
    /\ pc \in {"entry", "copyloop", "copypostamble", "done"}
    /\ size \in Sizes /\ n \in Counts /\ constant \in BOOLEAN
    /\ in \in Nat /\ out \in Nat
    /\ left \in Nat /\ vecsize \in Nat
    /\ copied \subseteq Nat \X Nat

\* Neither the loop nor the postamble touches a byte of either buffer behind
\* the n elements, and no byte goes to a place other than its own.
NothingElseCopied == copied \subseteq Span(0, 0, n * size)

\* When the code returns, every byte of the n elements has been copied, by the
\* loop or by one of the vectors of the postamble.
AllCopied == pc = "done" => copied = Span(0, 0, n * size)

\* The loop, whose exit test is an equality of pointers, and the postamble end.
CopyEnds == <>(pc = "done")
=============================================================================
