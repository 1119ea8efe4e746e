--------------------------- MODULE FiniteInduction ---------------------------
(***************************************************************************)
(* Facts about finite sets of numbers that the proofs share, and the       *)
(* induction that they use for the recursive functions of the model: the   *)
(* numbers for which something holds are given as a set.                   *)
(***************************************************************************)
EXTENDS Integers, FiniteSets, FiniteSetTheorems, WellFoundedInduction, TLAPS

\* A finite set of numbers has a largest element and a least one.
LEMMA LargestOf ==
  ASSUME NEW S \in SUBSET Int, IsFiniteSet(S), S # {}
  PROVE  \E m \in S : \A n \in S : n <= m
<1> DEFINE Bad == {U \in SUBSET S : U # {} /\ ~\E m \in U : \A n \in U : n <= m}
<1> SUFFICES ASSUME Bad # {} PROVE FALSE
  OBVIOUS
<1>1. Bad \subseteq FiniteSubsetsOf(S)
  BY FS_FiniteSubsetsOfFinite
<1> HIDE DEF Bad
<1>2. PICK U \in Bad : \A V \in Bad : ~(<<V, U>> \in StrictSubsetOrdering(S))
  BY <1>1, FS_StrictSubsetOrderingWellFounded, WFMin
<1> USE DEF Bad
<1>3. PICK x \in U : TRUE
  OBVIOUS
<1> DEFINE V == U \ {x}
<1>4. V \notin Bad
  BY <1>2, <1>3 DEF StrictSubsetOrdering
<1>5. V # {}
  BY <1>3
<1>6. PICK y \in V : \A n \in V : n <= y
  BY <1>4, <1>5
<1> QED
  BY <1>3, <1>6

LEMMA LeastOf ==
  ASSUME NEW S \in SUBSET Int, IsFiniteSet(S), S # {}
  PROVE  \E m \in S : \A n \in S : m <= n
<1> DEFINE Bad == {U \in SUBSET S : U # {} /\ ~\E m \in U : \A n \in U : m <= n}
<1> SUFFICES ASSUME Bad # {} PROVE FALSE
  OBVIOUS
<1>1. Bad \subseteq FiniteSubsetsOf(S)
  BY FS_FiniteSubsetsOfFinite
<1> HIDE DEF Bad
<1>2. PICK U \in Bad : \A V \in Bad : ~(<<V, U>> \in StrictSubsetOrdering(S))
  BY <1>1, FS_StrictSubsetOrderingWellFounded, WFMin
<1> USE DEF Bad
<1>3. PICK x \in U : TRUE
  OBVIOUS
<1> DEFINE V == U \ {x}
<1>4. V \notin Bad
  BY <1>2, <1>3 DEF StrictSubsetOrdering
<1>5. V # {}
  BY <1>3
<1>6. PICK y \in V : \A n \in V : y <= n
  BY <1>4, <1>5
<1> QED
  BY <1>3, <1>6

\* Induction up to a number, for the members of a set.
LEMMA InductionTo ==
  ASSUME NEW L \in Nat, NEW G, 0 \in G, \A n \in 1 .. L : n - 1 \in G => n \in G
  PROVE  \A n \in 0 .. L : n \in G
<1> DEFINE Bad == (0 .. L) \ G
<1> SUFFICES ASSUME Bad # {} PROVE FALSE
  OBVIOUS
<1>1. IsFiniteSet(Bad) /\ Bad \in SUBSET Int
  <2>1. Bad \in SUBSET (0 .. L) /\ IsFiniteSet(0 .. L)
    BY FS_Interval
  <2> QED
    BY <2>1, FS_Subset
<1>2. PICK n \in Bad : \A m \in Bad : n <= m
  BY <1>1, LeastOf
<1> QED
  BY <1>2

\* What is made from the members of a finite set is finite.
LEMMA ImageFinite ==
  ASSUME NEW S, IsFiniteSet(S), NEW f, DOMAIN f = S
  PROVE  IsFiniteSet({f[x] : x \in S})
<1> DEFINE T == {f[x] : x \in S}
           h == [x \in S |-> f[x]]
<1>1. h \in [S -> T]
  OBVIOUS
<1>2. \A y \in T : \E x \in S : h[x] = y
  OBVIOUS
<1>3. h \in Surjection(S, T)
  BY <1>1, <1>2 DEF Surjection
<1> HIDE DEF h, T
<1> QED
  BY <1>3, FS_Surjection DEF T

=============================================================================
