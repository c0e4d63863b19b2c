-------------------------- MODULE BlockCopyProofs --------------------------
(***************************************************************************)
(* The copy of a block is right for every size, count, vector width and    *)
(* unrolling.  Both pointers advance together, and at any time exactly the *)
(* bytes before them have been copied; what remains to be shown is that    *)
(* they stop at the end.                                                   *)
(***************************************************************************)
EXTENDS BlockCopy, TLAPS

-----------------------------------------------------------------------------
(* Division, products and spans.                                           *)

LEMMA Quotient ==
    ASSUME NEW a \in Nat, NEW b \in Nat \ {0}
    PROVE  a \div b \in Nat /\ (a \div b) * b <= a /\ a < (a \div b) * b + b
  BY SMTT(30)

LEMMA ExactQuotient ==
    ASSUME NEW a \in Nat, NEW b \in Nat \ {0}, a % b = 0
    PROVE  b * (a \div b) = a
  BY SMTT(30)

LEMMA Product ==
    ASSUME NEW a \in Nat, NEW b \in Nat
    PROVE  a * b \in Nat /\ (a > 0 /\ b > 0 => a * b > 0)
  BY SMTT(30)

LEMMA Monotone ==
    ASSUME NEW a \in Int, NEW b \in Int, NEW c \in Nat, a <= b
    PROVE  a * c <= b * c
  BY SMTT(30)

LEMMA SpanGrows ==
    ASSUME NEW a \in Nat, NEW b \in Nat
    PROVE  Span(0, 0, a) \cup Span(a, a, b) = Span(0, 0, a + b)
  <1>1. ASSUME NEW i \in 0 .. (a + b) - 1, i >= a
        PROVE  <<0 + i, 0 + i>> \in Span(a, a, b)
    <2>1. i - a \in 0 .. b - 1 /\ a + (i - a) = 0 + i
      BY <1>1
    <2>. QED  BY <2>1 DEF Span
  <1>2. ASSUME NEW i \in 0 .. b - 1
        PROVE  <<a + i, a + i>> \in Span(0, 0, a + b)
    <2>1. a + i \in 0 .. (a + b) - 1 /\ 0 + (a + i) = a + i
      OBVIOUS
    <2>. QED  BY <2>1 DEF Span
  <1>3. Span(0, 0, a) \subseteq Span(0, 0, a + b)
    <2>1. 0 .. a - 1 \subseteq 0 .. (a + b) - 1
      OBVIOUS
    <2>. QED  BY <2>1 DEF Span
  <1>4. Span(0, 0, a + b) \subseteq Span(0, 0, a) \cup Span(a, a, b)
    <2>1. SUFFICES ASSUME NEW i \in 0 .. (a + b) - 1
                   PROVE  <<0 + i, 0 + i>> \in Span(0, 0, a) \cup Span(a, a, b)
      BY DEF Span
    <2>2. CASE i < a
      <3>1. i \in 0 .. a - 1
        BY <2>2
      <3>. QED  BY <3>1 DEF Span
    <2>3. CASE i >= a
      BY <2>3, <1>1
    <2>. QED  BY <2>2, <2>3
  <1>5. Span(a, a, b) \subseteq Span(0, 0, a + b)
    BY <1>2 DEF Span
  <1>. QED  BY <1>3, <1>4, <1>5

LEMMA ShorterSpan ==
    ASSUME NEW a \in Nat, NEW b \in Nat, a <= b
    PROVE  Span(0, 0, a) \subseteq Span(0, 0, b)
  <1>1. 0 .. a - 1 \subseteq 0 .. b - 1
    OBVIOUS
  <1>. QED  BY <1>1 DEF Span

-----------------------------------------------------------------------------
(* The inductive invariant.                                                *)

Round  == COPY_LOOP_UNROLL * SIMD_BYTE_SIZE
rounds == (n \div vector_size) \div COPY_LOOP_UNROLL

\* Exactly what lies before the pointers has been copied.
PrefixCopied == in = out /\ copied = Span(0, 0, out)

\* In the loop a whole number of rounds is done, and at least one is to do.
InLoop ==
    /\ left = LeftByLoop
    /\ \E k \in Nat : k < rounds /\ in = k * Round

\* In the postamble the pointers and the elements left make up the whole; when
\* vectors have shrunk to nothing, nothing is left.
InPostamble ==
    /\ in + left * size = n * size
    /\ vecsize = 0 => left = 0

CopyInv ==
    /\ pc \in {"entry", "copyloop", "copypostamble", "done"}
    /\ size \in Sizes /\ n \in Counts /\ constant \in BOOLEAN
    /\ in \in Nat /\ out \in Nat /\ left \in Nat /\ vecsize \in Nat
    /\ pc = "entry" =>
          in = 0 /\ left = n /\ vecsize = vector_size /\ PrefixCopied
    /\ pc = "copyloop" => InLoop /\ vecsize = vector_size /\ PrefixCopied
    /\ pc = "copypostamble" => InPostamble /\ PrefixCopied
    /\ pc = "done" => copied = Span(0, 0, n * size)

\* What the generator computes before it emits a loop: a vector holds at least
\* one element and a whole number of them, and the loop takes no more than n.
LEMMA Plan ==
    ASSUME size \in Sizes, n \in Counts
    PROVE  /\ size \in Nat \ {0} /\ n \in Nat
           /\ vector_size \in Nat \ {0} /\ size * vector_size = SIMD_BYTE_SIZE
           /\ Round \in Nat \ {0} /\ rounds \in Nat
           /\ vectors_to_copy = rounds * COPY_LOOP_UNROLL
           /\ vectors_to_copy * SIMD_BYTE_SIZE = rounds * Round
           /\ LeftByLoop \in Nat
           /\ rounds * Round + LeftByLoop * size = n * size
           /\ rounds * Round <= n * size
  <1>. DEFINE W == vector_size
              U == COPY_LOOP_UNROLL
              S == SIMD_BYTE_SIZE
              q == n \div W
  <1>1. size \in Nat \ {0} /\ n \in Nat /\ S \in Nat \ {0} /\ U \in Nat \ {0}
    BY CopyAssumption
  <1>2. W \in Nat /\ size * W = S
    BY <1>1, CopyAssumption, ExactQuotient, Quotient DEF vector_size
  <1>3. W \in Nat \ {0}
    BY <1>1, <1>2
  <1>4. q \in Nat /\ q * W <= n
    BY <1>1, <1>3, Quotient
  <1>5. rounds \in Nat /\ rounds * U <= q
    BY <1>1, <1>4, Quotient DEF rounds
  <1>6. vectors_to_copy = rounds * U
    BY DEF vectors_to_copy, rounds
  <1>. DEFINE v == rounds * U
  <1>7. v \in Nat /\ v * W \in Nat /\ v * W <= n
    <2>1. v \in Nat
      BY <1>1, <1>5, Product
    <2>2. v * W <= q * W
      BY <2>1, <1>3, <1>4, <1>5, Monotone
    <2>3. v * W \in Nat /\ q * W \in Nat
      BY <2>1, <1>3, <1>4, Product
    <2>. QED  BY <2>1, <2>2, <2>3, <1>1, <1>4
  <1>8. Round \in Nat \ {0}
    BY <1>1, Product DEF Round
  <1>9. v * S = rounds * Round
    BY <1>1, <1>5, SMTT(30) DEF Round
  <1>10. LeftByLoop = n - v * W /\ LeftByLoop \in Nat
    BY <1>1, <1>6, <1>7 DEF LeftByLoop
  <1>11. v * S = (v * W) * size
    <2>1. v * (size * W) = (v * W) * size
      BY <1>1, <1>3, <1>7, SMTT(30)
    <2>. QED  BY <1>2, <2>1
  <1>12. v * S + LeftByLoop * size = n * size
    BY <1>1, <1>7, <1>10, <1>11, SMTT(30)
  <1>13. v * S <= n * size
    BY <1>1, <1>7, <1>11, Monotone
  <1>. QED
    BY <1>1, <1>2, <1>3, <1>5, <1>6, <1>8, <1>9, <1>10, <1>12, <1>13

-----------------------------------------------------------------------------

LEMMA InitCopyInv == Init => CopyInv
  <1>. SUFFICES ASSUME Init  PROVE CopyInv
    OBVIOUS
  <1>1. n \in Nat /\ vector_size \in Nat
    BY Plan, CopyAssumption DEF Init
  <1>2. Span(0, 0, 0) = {}
    BY DEF Span
  <1>. QED  BY <1>1, <1>2 DEF Init, CopyInv, PrefixCopied

\* Moving len bytes keeps the pointers together and the prefix copied.
LEMMA MoveKeepsPrefix ==
    ASSUME NEW len \in Nat, in \in Nat, out \in Nat, PrefixCopied, Move(len)
    PROVE  in' = in + len /\ in' \in Nat /\ out' \in Nat /\ PrefixCopied'
  <1>1. in' = in + len /\ out' = in + len /\ in + len \in Nat
    BY DEF PrefixCopied, Move
  <1>2. copied' = Span(0, 0, in) \cup Span(in, in, len)
    BY DEF PrefixCopied, Move
  <1>3. copied' = Span(0, 0, in + len)
    BY <1>2, SpanGrows
  <1>. QED  BY <1>1, <1>3 DEF PrefixCopied

LEMMA LoopRoundCopyInv == CopyInv /\ LoopRound => CopyInv'
  <1>. SUFFICES ASSUME CopyInv, LoopRound  PROVE CopyInv'
    OBVIOUS
  <1>1. size \in Sizes /\ n \in Counts /\ in \in Nat /\ out \in Nat
    BY DEF CopyInv
  <1>2. InLoop /\ PrefixCopied /\ vecsize = vector_size
    BY DEF CopyInv, LoopRound
  <1>3. COPY_LOOP_UNROLL * (size * vector_size) = Round
    BY <1>1, Plan DEF Round
  <1>4. PICK k \in Nat : k < rounds /\ in = k * Round
    BY <1>2 DEF InLoop
  <1>5. in' = in + Round /\ in' \in Nat /\ out' \in Nat /\ PrefixCopied'
    BY <1>1, <1>2, <1>3, Plan, MoveKeepsPrefix DEF LoopRound
  <1>6. in' = (k + 1) * Round
    BY <1>1, <1>4, <1>5, Plan, SMTT(30)
  <1>7. UNCHANGED <<size, n, constant, left, vecsize>>
    BY DEF LoopRound
  <1>8. rounds' = rounds /\ LeftByLoop' = LeftByLoop /\ vector_size' = vector_size
    BY <1>7 DEF rounds, LeftByLoop, vectors_to_copy, vector_size
  <1>9. CASE in' = vectors_to_copy * SIMD_BYTE_SIZE
    <2>1. pc' = "copypostamble"
      BY <1>9 DEF LoopRound
    <2>2. in' + left * size = n * size
      BY <1>1, <1>2, <1>9, Plan DEF InLoop
    <2>3. vecsize # 0
      BY <1>1, <1>2, Plan
    <2>4. InPostamble'
      BY <1>7, <2>2, <2>3 DEF InPostamble
    <2>. QED  BY <1>5, <1>7, <2>1, <2>4 DEF CopyInv
  <1>10. CASE in' # vectors_to_copy * SIMD_BYTE_SIZE
    <2>1. pc' = "copyloop"
      BY <1>10 DEF LoopRound
    <2>2. k + 1 # rounds
      BY <1>1, <1>6, <1>10, Plan
    <2>3. k + 1 \in Nat /\ k + 1 < rounds
      BY <1>1, <1>4, <2>2, Plan
    <2>4. InLoop'
      BY <1>2, <1>6, <1>7, <1>8, <2>3 DEF InLoop, Round
    <2>. QED  BY <1>2, <1>5, <1>7, <1>8, <2>1, <2>4 DEF CopyInv
  <1>. QED  BY <1>9, <1>10

LEMMA PostambleCopyInv == CopyInv /\ Postamble => CopyInv'
  <1>. SUFFICES ASSUME CopyInv, Postamble  PROVE CopyInv'
    OBVIOUS
  <1>. DEFINE c == left \div vecsize
              m == c * vecsize
  <1>1. size \in Nat \ {0} /\ n \in Nat /\ in \in Nat /\ out \in Nat
        /\ left \in Nat /\ vecsize \in Nat \ {0}
    BY Plan DEF CopyInv, Postamble
  <1>2. InPostamble /\ PrefixCopied
    BY DEF CopyInv, Postamble
  <1>3. c \in Nat /\ m <= left /\ left < m + vecsize
    BY <1>1, Quotient
  <1>4. m \in Nat
    BY <1>1, <1>3, Product
  <1>5. c * (size * vecsize) = m * size /\ m * size \in Nat
    BY <1>1, <1>3, <1>4, Product, SMTT(30)
  <1>6. in' = in + m * size /\ in' \in Nat /\ out' \in Nat /\ PrefixCopied'
    BY <1>1, <1>2, <1>5, MoveKeepsPrefix DEF Postamble, VecCount
  <1>7. left' = left - m /\ left' \in Nat
    BY <1>1, <1>3, <1>4 DEF Postamble, VecCount
  <1>8. in' + left' * size = n * size
    <2>1. left' * size = left * size - m * size
      BY <1>1, <1>4, <1>7, SMTT(30)
    <2>2. left * size \in Nat
      BY <1>1, Product
    <2>3. in + left * size = n * size
      BY <1>2 DEF InPostamble
    <2>4. in' + left' * size = (in + m * size) + (left * size - m * size)
      BY <1>6, <2>1
    <2>5. ASSUME NEW x \in Nat, NEW y \in Nat
          PROVE  (in + x) + (y - x) = in + y
      BY <1>1
    <2>. QED  BY <1>5, <2>2, <2>3, <2>4, <2>5
  <1>9. vecsize' = vecsize \div 2 /\ vecsize' \in Nat
    BY <1>1 DEF Postamble, NextVecsize
  <1>10. ASSUME vecsize' = 0  PROVE left' = 0
    <2>1. vecsize = 1
      BY <1>1, <1>9, <1>10
    <2>. QED  BY <1>1, <1>3, <1>4, <1>7, <2>1
  <1>11. pc' = "copypostamble" /\ UNCHANGED <<size, n, constant>>
    BY DEF Postamble
  <1>. QED
    BY <1>6, <1>7, <1>8, <1>9, <1>10, <1>11 DEF CopyInv, InPostamble

LEMMA StepCopyInv == CopyInv /\ [Next]_vars => CopyInv'
  <1>. SUFFICES ASSUME CopyInv, [Next]_vars  PROVE CopyInv'
    OBVIOUS
  <1>. USE DEF CopyInv
  <1>1. CASE MemCpy
    <2>1. pc' = "done" /\ UNCHANGED <<size, n, constant, in, out, left, vecsize>>
      BY <1>1 DEF MemCpy
    <2>2. copied' = Span(0, 0, n * size)
      BY <1>1, Plan DEF MemCpy, PrefixCopied
    <2>. QED  BY <2>1, <2>2
  <1>2. CASE EnterLoop
    <2>1. pc' = "copyloop" /\ left' = LeftByLoop
          /\ UNCHANGED <<size, n, constant, in, out, vecsize, copied>>
      BY <1>2 DEF EnterLoop
    <2>2. rounds \in Nat /\ rounds # 0 /\ Round \in Nat /\ LeftByLoop \in Nat
      BY <1>2, Plan, CopyAssumption DEF EnterLoop, LoopPays
    <2>3. in = 0 * Round /\ in = 0 /\ vecsize = vector_size /\ PrefixCopied
      BY <1>2, <2>2 DEF EnterLoop
    <2>4. rounds' = rounds /\ LeftByLoop' = LeftByLoop
          /\ vector_size' = vector_size /\ Round' = Round
      BY <2>1 DEF rounds, LeftByLoop, vectors_to_copy, vector_size, Round
    <2>5. \E k \in Nat : k < rounds /\ in = k * Round
      BY <2>2, <2>3
    <2>6. InLoop'
      BY <2>1, <2>4, <2>5 DEF InLoop
    <2>. QED  BY <2>1, <2>2, <2>3, <2>4, <2>6 DEF PrefixCopied
  <1>3. CASE SkipLoop
    <2>1. pc' = "copypostamble"
          /\ UNCHANGED <<size, n, constant, in, out, left, vecsize, copied>>
      BY <1>3 DEF SkipLoop
    <2>2. in + left * size = n * size /\ vecsize # 0
      BY <1>3, Plan DEF SkipLoop
    <2>3. InPostamble'
      BY <2>1, <2>2 DEF InPostamble
    <2>. QED  BY <1>3, <2>1, <2>3 DEF SkipLoop, PrefixCopied
  <1>4. CASE LoopRound
    BY <1>4, LoopRoundCopyInv
  <1>5. CASE Postamble
    BY <1>5, PostambleCopyInv
  <1>6. CASE Return
    <2>1. in = n * size /\ copied = Span(0, 0, n * size)
      BY <1>6, Plan DEF Return, InPostamble, PrefixCopied
    <2>. QED  BY <1>6, <2>1 DEF Return
  <1>7. CASE UNCHANGED vars
    BY <1>7 DEF vars, InLoop, InPostamble, PrefixCopied, rounds, Round,
                LeftByLoop, vectors_to_copy, vector_size
  <1>. QED  BY <1>1, <1>2, <1>3, <1>4, <1>5, <1>6, <1>7 DEF Next

LEMMA CopyInvariant == Spec => []CopyInv
  <1>. QED  BY InitCopyInv, StepCopyInv, PTL DEF Spec

\* codegenPrimitive(): when the emitted code returns, it has copied every byte
\* of the n elements to its place and nothing else, for every size, count,
\* vector width and unrolling.
THEOREM CopyComplete == Spec => []AllCopied
  <1>1. CopyInv => AllCopied
    BY DEF CopyInv, AllCopied
  <1>. QED  BY <1>1, CopyInvariant, PTL

\* codegenPrimitive(): at no time does the emitted code touch a byte behind the
\* n elements, whatever the widths of its vectors.
THEOREM CopyInBounds == Spec => []NothingElseCopied
  <1>1. CopyInv => NothingElseCopied
    <2>. SUFFICES ASSUME CopyInv  PROVE NothingElseCopied
      OBVIOUS
    <2>1. size \in Nat /\ n \in Nat /\ n * size \in Nat /\ in \in Nat /\ out \in Nat
      BY Plan, Product DEF CopyInv
    <2>2. CASE pc = "done"
      BY <2>2 DEF CopyInv, NothingElseCopied
    <2>3. CASE pc # "done"
      <3>1. out <= n * size /\ PrefixCopied
        <4>1. CASE pc = "entry"
          BY <2>1, <4>1 DEF CopyInv, PrefixCopied
        <4>2. CASE pc = "copyloop"
          <5>1. PICK k \in Nat : k < rounds /\ in = k * Round
            BY <4>2 DEF CopyInv, InLoop
          <5>2. k * Round <= rounds * Round /\ rounds * Round \in Nat
            BY <5>1, Plan, Monotone, Product DEF CopyInv
          <5>3. in <= n * size
            BY <2>1, <5>1, <5>2, Plan DEF CopyInv
          <5>. QED  BY <4>2, <5>3 DEF CopyInv, PrefixCopied
        <4>3. CASE pc = "copypostamble"
          <5>1. left * size \in Nat
            BY <2>1, Product DEF CopyInv
          <5>. QED  BY <2>1, <4>3, <5>1 DEF CopyInv, InPostamble, PrefixCopied
        <4>. QED  BY <2>3, <4>1, <4>2, <4>3 DEF CopyInv
      <3>. QED  BY <2>1, <3>1, ShorterSpan DEF NothingElseCopied, PrefixCopied
    <2>. QED  BY <2>2, <2>3
  <1>. QED  BY <1>1, CopyInvariant, PTL

\* codegenPrimitive(): the emitted code keeps to its states and registers, and
\* the offsets it touches are never negative.
THEOREM CopyTypeCorrectness == Spec => []TypeOK
  <1>1. CopyInv /\ NothingElseCopied => TypeOK
    <2>. SUFFICES ASSUME CopyInv, NothingElseCopied  PROVE TypeOK
      OBVIOUS
    <2>1. Span(0, 0, n * size) \subseteq Nat \X Nat
      BY DEF Span
    <2>. QED  BY <2>1 DEF CopyInv, NothingElseCopied, TypeOK
  <1>. QED  BY <1>1, CopyInvariant, CopyInBounds, PTL
=============================================================================
