--------------------------- MODULE RankRecursion ---------------------------
(***************************************************************************)
(* Induction and recursion on a set whose elements have a rank: trees by   *)
(* their height, numbers by their value, sets by their size.  A module     *)
(* that defines a recursive function INSTANCEs this one with its Def.      *)
(***************************************************************************)
EXTENDS Integers, WellFoundedInduction, TLAPS

CONSTANTS Domain,    \* what the recursion is on
          Rank(_),   \* the rank of each element
          Def(_, _)  \* Def(f, x): the value at x, from those of lower rank in f

\* Every rank is a natural number.
Ranked == \A x \in Domain : Rank(x) \in Nat

\* Def reads its function at lower ranks only.
Grounded ==
    \A f, g : \A x \in Domain :
        (\A y \in Domain : Rank(y) < Rank(x) => f[y] = g[y]) => Def(f, x) = Def(g, x)

LEMMA LeastNat ==
    ASSUME NEW S \in SUBSET Nat, S # {}
    PROVE  \E n \in S : \A m \in S : n <= m
<1>1. PICK n \in S : \A m \in S : ~ (<<m, n>> \in OpToRel(<, Nat))
  BY WFMin, NatLessThanWellFounded
<1>2. ASSUME NEW m \in S PROVE n <= m
  <2>1. ~ (m < n)
    BY <1>1 DEF OpToRel
  <2> QED
    BY <2>1
<1> QED
  BY <1>2

\* A set of numbers that holds 0 and with each number the next holds all.
THEOREM Induction ==
    ASSUME NEW S, 0 \in S, \A n \in Nat : n \in S => n + 1 \in S
    PROVE  Nat \subseteq S
<1> SUFFICES ASSUME NEW b \in Nat, b \notin S
             PROVE  FALSE
  OBVIOUS
<1>1. PICK n \in Nat \ S : \A m \in Nat \ S : n <= m
  <2>1. Nat \ S \in SUBSET Nat /\ Nat \ S # {}
    OBVIOUS
  <2> QED
    BY <2>1, LeastNat
<1>2. n - 1 \in Nat /\ n - 1 \notin Nat \ S
  BY <1>1
<1> QED
  BY <1>1, <1>2

\* A set is the whole domain if it holds each element above what it holds of
\* lower rank.
THEOREM RankInduction ==
    ASSUME Ranked, NEW S,
           \A x \in Domain : (\A y \in Domain : Rank(y) < Rank(x) => y \in S) => x \in S
    PROVE  Domain \subseteq S
<1> SUFFICES ASSUME NEW b \in Domain, b \notin S
             PROVE  FALSE
  OBVIOUS
<1> DEFINE Bad == {Rank(x) : x \in Domain \ S}
<1>1. Bad \in SUBSET Nat /\ Bad # {}
  BY DEF Ranked
<1>2. PICK n \in Bad : \A m \in Bad : n <= m
  BY <1>1, LeastNat
<1>3. PICK x \in Domain \ S : Rank(x) = n
  BY <1>2
<1>4. ASSUME NEW y \in Domain, Rank(y) < Rank(x)
      PROVE  y \in S
  <2>1. Rank(y) \in Nat /\ Rank(x) \in Nat
    BY DEF Ranked
  <2>2. y \notin S => n <= Rank(y)
    BY <1>2
  <2> QED
    BY <1>3, <1>4, <2>1, <2>2
<1> QED
  BY <1>3, <1>4

Below(n) == {x \in Domain : Rank(x) < n}

\* g is the recursion carried out below rank n.
Approximates(g, n) == g = [x \in Below(n) |-> Def(g, x)]

\* Two approximations agree where both are defined.
LEMMA ApproximationsAgree ==
    ASSUME Ranked, Grounded, NEW m \in Nat, NEW n \in Nat,
           NEW g, NEW h, Approximates(g, m), Approximates(h, n)
    PROVE  \A x \in Below(m) \cap Below(n) : g[x] = h[x]
<1> SUFFICES ASSUME NEW b \in Below(m) \cap Below(n), g[b] # h[b]
             PROVE  FALSE
  OBVIOUS
<1> DEFINE Bad == {Rank(x) : x \in {y \in Below(m) \cap Below(n) : g[y] # h[y]}}
<1>1. Bad \in SUBSET Nat /\ Bad # {}
  BY DEF Ranked, Below
<1>2. PICK r \in Bad : \A s \in Bad : r <= s
  BY <1>1, LeastNat
<1>3. PICK x \in Below(m) \cap Below(n) : g[x] # h[x] /\ Rank(x) = r
  BY <1>2
<1>4. ASSUME NEW y \in Domain, Rank(y) < Rank(x)
      PROVE  g[y] = h[y]
  <2>1. Rank(y) \in Nat /\ Rank(x) \in Nat
    BY DEF Ranked, Below
  <2>2. y \in Below(m) \cap Below(n)
    BY <1>4, <2>1 DEF Below
  <2>3. g[y] # h[y] => r <= Rank(y)
    BY <1>2, <2>2
  <2> QED
    BY <1>3, <1>4, <2>1, <2>3
<1>5. Def(g, x) = Def(h, x)
  <2>1. x \in Domain
    BY DEF Below
  <2> QED
    BY <1>4, <2>1 DEF Grounded
<1>6. g[x] = Def(g, x) /\ h[x] = Def(h, x)
  BY DEF Approximates
<1> QED
  BY <1>3, <1>5, <1>6

LEMMA ApproximationExists ==
    ASSUME Ranked, Grounded
    PROVE  \A n \in Nat : \E g : Approximates(g, n)
<1> SUFFICES ASSUME NEW b \in Nat, ~ \E g : Approximates(g, b)
             PROVE  FALSE
  OBVIOUS
<1> DEFINE Bad == {n \in Nat : ~ \E g : Approximates(g, n)}
<1>1. PICK n \in Bad : \A m \in Bad : n <= m
  <2>1. Bad \in SUBSET Nat /\ Bad # {}
    OBVIOUS
  <2> QED
    BY <2>1, LeastNat
<1>2. CASE n = 0
  <2>1. Below(n) = {}
    BY <1>2 DEF Below, Ranked
  <2> DEFINE g == [x \in {} |-> x]
  <2>2. g = [x \in {} |-> Def(g, x)]
    OBVIOUS
  <2>3. Approximates(g, n)
    BY <2>1, <2>2 DEF Approximates
  <2> QED
    BY <1>1, <2>3
<1>3. CASE n # 0
  <2>1. n - 1 \in Nat /\ n - 1 \notin Bad
    BY <1>1, <1>3
  <2>2. PICK g : Approximates(g, n - 1)
    BY <2>1
  <2> DEFINE h == [x \in Below(n) |-> Def(g, x)]
  <2>3. ASSUME NEW x \in Below(n)
        PROVE  Def(g, x) = Def(h, x)
    <3>1. ASSUME NEW y \in Domain, Rank(y) < Rank(x)
          PROVE  g[y] = h[y]
      <4>1. Rank(y) \in Nat /\ Rank(x) \in Nat /\ Rank(x) < n /\ n \in Nat
        BY DEF Ranked, Below
      <4>2. y \in Below(n) /\ y \in Below(n - 1)
        BY <3>1, <4>1 DEF Below
      <4>3. g[y] = Def(g, y)
        BY <2>2, <4>2 DEF Approximates
      <4> QED
        BY <4>2, <4>3
    <3>2. x \in Domain
      BY DEF Below
    <3> HIDE DEF h
    <3> QED
      BY <3>1, <3>2 DEF Grounded
  <2>4. h = [x \in Below(n) |-> Def(h, x)]
    <3>1. \A x \in Below(n) : Def(g, x) = Def(h, x)
      BY <2>3
    <3>2. h = [x \in Below(n) |-> Def(g, x)]
      OBVIOUS
    <3> HIDE DEF h
    <3> QED
      BY <3>1, <3>2
  <2>5. Approximates(h, n)
    BY <2>4 DEF Approximates
  <2> QED
    BY <1>1, <2>5
<1> QED
  BY <1>2, <1>3

\* A recursive function satisfies its defining equation: the f that
\* f[x \in Domain] == Def(f, x) chooses exists.
THEOREM RecursionExists ==
    ASSUME Ranked, Grounded
    PROVE  \E f : f = [x \in Domain |-> Def(f, x)]
<1> DEFINE G(n) == CHOOSE g : Approximates(g, n)
           F == [x \in Domain |-> Def(G(Rank(x)), x)]
<1>1. \A n \in Nat : Approximates(G(n), n)
  BY ApproximationExists
<1>2. ASSUME NEW x \in Domain
      PROVE  Def(G(Rank(x)), x) = Def(F, x)
  <2>1. Rank(x) \in Nat
    BY DEF Ranked
  <2>2. ASSUME NEW y \in Domain, Rank(y) < Rank(x)
        PROVE  G(Rank(x))[y] = F[y]
    <3>1. Rank(y) \in Nat
      BY DEF Ranked
    <3>2. y \in Below(Rank(x))
      BY <2>2 DEF Below
    <3>3. Approximates(G(Rank(x)), Rank(x)) /\ Approximates(G(Rank(y)), Rank(y))
      BY <1>1, <2>1, <3>1
    <3>4. G(Rank(x))[y] = Def(G(Rank(x)), y)
      BY <3>2, <3>3 DEF Approximates
    <3>5. F[y] = Def(G(Rank(y)), y)
      OBVIOUS
    <3>6. ASSUME NEW z \in Domain, Rank(z) < Rank(y)
          PROVE  G(Rank(x))[z] = G(Rank(y))[z]
      <4>1. Rank(z) \in Nat
        BY DEF Ranked
      <4>2. z \in Below(Rank(x)) \cap Below(Rank(y))
        BY <2>1, <2>2, <3>1, <3>6, <4>1 DEF Below
      <4> HIDE DEF G
      <4> QED
        BY <2>1, <3>1, <3>3, <4>2, ApproximationsAgree
    <3>7. Def(G(Rank(x)), y) = Def(G(Rank(y)), y)
      <4> HIDE DEF G, F
      <4> QED
        BY <3>6 DEF Grounded
    <3> QED
      BY <3>4, <3>5, <3>7
  <2> HIDE DEF G, F
  <2> QED
    BY <2>2 DEF Grounded
<1>3. F = [x \in Domain |-> Def(F, x)]
  <2>1. F = [x \in Domain |-> Def(G(Rank(x)), x)]
    OBVIOUS
  <2> HIDE DEF G, F
  <2> QED
    BY <1>2, <2>1
<1> QED
  BY <1>3
=============================================================================
