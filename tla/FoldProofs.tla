----------------------------- MODULE FoldProofs -----------------------------
(***************************************************************************)
(* Induction over numbers and over finite sets, stated for sets instead of *)
(* predicates, and what a sum over a function is.                          *)
(***************************************************************************)
EXTENDS Integers, FiniteSets, Functions, FiniteSetTheorems, TLAPS

\* Of some numbers one is least.
LEMMA LeastNumber ==
    ASSUME NEW S, S \subseteq Nat, S # {}
    PROVE  \E n \in S : \A m \in S : n <= m
  <1> DEFINE less == OpToRel(<, Nat)
  <1>1. IsWellFoundedOn(less, Nat)
    BY NatLessThanWellFounded
  <1>2. PICK n \in S : \A m \in S : <<m, n>> \notin less
    <2> HIDE DEF less
    <2> QED
      BY <1>1, WFMin
  <1>3. \A m \in S : ~(m < n)
    BY <1>2 DEF OpToRel
  <1> QED
    BY <1>3

\* A set of numbers with zero and, with each, the next has them all.
LEMMA NumbersRise ==
    ASSUME NEW S, 0 \in S, \A n \in Nat : n \in S => n + 1 \in S
    PROVE  Nat \subseteq S
  <1> DEFINE bad == Nat \ S
  <1>1. ASSUME bad # {} PROVE FALSE
    <2>1. PICK n \in bad : \A m \in bad : n <= m
      <3>1. bad \subseteq Nat
        OBVIOUS
      <3> HIDE DEF bad
      <3> QED
        BY <1>1, <3>1, LeastNumber
    <2>2. n \in Nat /\ n # 0 /\ n - 1 \in Nat
      OBVIOUS
    <2>3. n - 1 \in S
      BY <2>1, <2>2
    <2> QED
      BY <2>2, <2>3
  <1> QED
    BY <1>1

\* So do the finite sets: a set with the empty one and, with all that lack one element
\* of it, each other one has them all.
LEMMA SetsRise ==
    ASSUME NEW S, IsFiniteSet(S), NEW F, {} \in F,
           \A T \in SUBSET S : T # {} /\ (\A x \in T : T \ {x} \in F) => T \in F
    PROVE  SUBSET S \subseteq F
  <1> DEFINE less == StrictSubsetOrdering(S)
             bad == (SUBSET S) \ F
  <1>1. ASSUME bad # {} PROVE FALSE
    <2>1. IsWellFoundedOn(less, SUBSET S)
      BY FS_StrictSubsetOrderingWellFounded, FS_FiniteSubsetsOfFinite
    <2>2. PICK T \in bad : \A U \in bad : <<U, T>> \notin less
      <3> HIDE DEF less
      <3>1. bad \subseteq SUBSET S
        OBVIOUS
      <3> HIDE DEF bad
      <3> QED
        BY <1>1, <2>1, <3>1, WFMin
    <2>3. ASSUME NEW x \in T PROVE T \ {x} \in F
      <3>1. T \ {x} \in SUBSET S /\ T \ {x} # T
        OBVIOUS
      <3> QED
        BY <2>2, <3>1 DEF StrictSubsetOrdering
    <2>4. T # {}
      OBVIOUS
    <2> QED
      BY <2>3, <2>4
  <1> QED
    BY <1>1

\* The sum of f over S.
Summed(f, S) == FoldFunctionOnSet(+, 0, f, S)

\* g is nothing for no element, and each raises it by its own value, whichever is
\* taken first.
Adds(g, f, S) ==
    /\ g \in [SUBSET S -> Int] /\ g[{}] = 0
    /\ \A T \in SUBSET S : \A x \in T : g[T] = f[x] + g[T \ {x}]

\* A sum is the value of any function that adds up so.
LEMMA SummedIs ==
    ASSUME NEW S, IsFiniteSet(S), NEW f, NEW g, Adds(g, f, S)
    PROVE  Summed(f, S) = g[S]
  <1> DEFINE first(T) == CHOOSE x \in T : TRUE
             Recurs(h) == h = [T \in SUBSET S |-> IF T = {} THEN 0
                                                  ELSE f[first(T)] + h[T \ {first(T)}]]
             u == CHOOSE h : Recurs(h)
  <1>1. Summed(f, S) = u[S]
    BY DEF Summed, FoldFunctionOnSet, MapThenFoldSet
  <1>2. \A T \in SUBSET S : T # {} => first(T) \in T
    OBVIOUS
  <1>3. Recurs(g)
    BY <1>2 DEF Adds
  <1>4. Recurs(u)
    <2> HIDE DEF Recurs
    <2> QED
      BY <1>3
  <1> HIDE DEF u, first
  <1> DEFINE F == {T \in SUBSET S : u[T] = g[T]}
  <1>5. {} \in F
    BY <1>3, <1>4
  <1>6. ASSUME NEW T \in SUBSET S, T # {}, \A x \in T : T \ {x} \in F PROVE T \in F
    <2>1. first(T) \in T
      BY <1>2, <1>6
    <2> QED
      BY <1>3, <1>4, <1>6, <2>1
  <1>7. S \in F
    <2> HIDE DEF F
    <2> QED
      BY <1>5, <1>6, SetsRise
  <1> QED
    BY <1>1, <1>7

\* The sum of nothing, and of one element.
LEMMA SummedNone == ASSUME NEW f PROVE Summed(f, {}) = 0
  <1> DEFINE g == [T \in SUBSET {} |-> 0]
  <1>1. Adds(g, f, {})
    BY DEF Adds
  <1>2. g[{}] = 0
    OBVIOUS
  <1> HIDE DEF g
  <1> QED
    BY <1>1, <1>2, SummedIs, FS_EmptySet

LEMMA SummedOne == ASSUME NEW f, NEW x, f[x] \in Int PROVE Summed(f, {x}) = f[x]
  <1> DEFINE g == [T \in SUBSET {x} |-> IF T = {} THEN 0 ELSE f[x]]
  <1>1. \A T \in SUBSET {x} : \A y \in T : y = x /\ T = {x} /\ T \ {y} = {}
    OBVIOUS
  <1>2. Adds(g, f, {x})
    BY <1>1 DEF Adds
  <1>3. g[{x}] = f[x]
    OBVIOUS
  <1> HIDE DEF g
  <1> QED
    BY <1>2, <1>3, SummedIs, FS_Singleton
=============================================================================
