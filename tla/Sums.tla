-------------------------------- MODULE Sums --------------------------------
(***************************************************************************)
(* Sums over finite sets, as the models write them with MapThenSumSet: a   *)
(* sum may be taken in any order, one summand at a time.  A summand is the *)
(* value of a function, so that a lemma can be applied to any of them.     *)
(* With them, the least and the greatest members that the models ask for.  *)
(***************************************************************************)
EXTENDS Integers, FiniteSets, FiniteSetsExt, FiniteSetTheorems, WellFoundedInduction, TLAPS

\* The sum of F over S.
Total(F, S) == MapThenSumSet(LAMBDA x : F[x], S)

\* The equation that MapThenSumSet's recursive function over S's subsets solves.
Recursion(F, S, sums) ==
  [s \in SUBSET S |-> IF s = {} THEN 0
     ELSE LET x == CHOOSE x \in s : TRUE IN F[x] + sums[s \ {x}]]

\* Its solution.
Solution(F, S) == CHOOSE sums : sums = Recursion(F, S, sums)

\* The summand that the recursion takes first.
First(s) == CHOOSE x \in s : TRUE

\* What the recursion takes first is a member.
LEMMA FirstOf ==
  ASSUME NEW s, s # {}
  PROVE  First(s) \in s
BY DEF First

\* A family of subsets of a finite set has a smallest member: the induction
\* that the lemmas below rest on.
LEMMA SmallestSubset ==
  ASSUME NEW S, IsFiniteSet(S), NEW B \in SUBSET SUBSET S, B # {}
  PROVE  \E U \in B : \A V \in B : V \subseteq U => V = U
<1>1. IsWellFoundedOn(StrictSubsetOrdering(S), SUBSET S)
  BY FS_StrictSubsetOrderingWellFounded, FS_FiniteSubsetsOfFinite
<1>2. PICK U \in B : \A V \in B : <<V, U>> \notin StrictSubsetOrdering(S)
  BY <1>1, WFMin
<1>3. ASSUME NEW V \in B, V \subseteq U, V # U PROVE FALSE
  <2>1. <<V, U>> \in (SUBSET S) \X (SUBSET S)
    BY <1>3
  <2>2. <<V, U>> \in StrictSubsetOrdering(S)
    BY <2>1, <1>3 DEF StrictSubsetOrdering
  <2> QED BY <2>2, <1>2
<1> QED BY <1>3

\* A sum is what the solution says of the whole set.
LEMMA TotalIsSolution ==
  ASSUME NEW F, NEW S
  PROVE  Total(F, S) = Solution(F, S)[S]
BY DEF Total, MapThenSumSet, MapThenFoldSet, Recursion, Solution

\* A solution sums every subset one element less at a time.
LEMMA SolutionSteps ==
  ASSUME NEW F, NEW S, Solution(F, S) = Recursion(F, S, Solution(F, S))
  PROVE  \A s \in SUBSET S : Solution(F, S)[s] =
           IF s = {} THEN 0 ELSE F[First(s)] + Solution(F, S)[s \ {First(s)}]
BY DEF Recursion, First

\* The sum of a set through the sums of smaller ones.
NextSum(F, s) == IF s = {} THEN 0 ELSE F[First(s)] + Total(F, s \ {First(s)})

\* The recursion has a solution, which agrees with the sums of the subsets.
Solved(F, S) ==
  /\ Solution(F, S) = Recursion(F, S, Solution(F, S))
  /\ \A s \in SUBSET S : Solution(F, S)[s] = Total(F, s)

\* Where the recursion has a solution, the sum takes its first summand away.
LEMMA SolvedSteps ==
  ASSUME NEW F, NEW S, Solved(F, S)
  PROVE  Total(F, S) = NextSum(F, S)
<1>1. Total(F, S) = Solution(F, S)[S]
  BY TotalIsSolution
<1>2. S # {} => S \ {First(S)} \in SUBSET S
  OBVIOUS
<1> QED BY <1>1, <1>2, SolutionSteps DEF Solved, NextSum

\* A solution for every smaller set makes one for the set itself.
LEMMA SolvedFromBelow ==
  ASSUME NEW F, NEW S, IsFiniteSet(S), \A V \in SUBSET S : V # S => Solved(F, V)
  PROVE  Solved(F, S)
<1> DEFINE g == [s \in SUBSET S |-> NextSum(F, s)]
           h == Solution(F, S)
<1>1. \A s \in SUBSET S : s # S => g[s] = Total(F, s)
  BY SolvedSteps
<1>2. \A s \in SUBSET S : s # {} => s \ {First(s)} \in SUBSET S /\ s \ {First(s)} # S
  BY FirstOf
<1>3. g = Recursion(F, S, g)
  <2>1. \A s \in SUBSET S :
          NextSum(F, s) = IF s = {} THEN 0 ELSE F[First(s)] + g[s \ {First(s)}]
    BY <1>1, <1>2 DEF NextSum
  <2> HIDE DEF g
  <2>2. Recursion(F, S, g) =
          [s \in SUBSET S |-> IF s = {} THEN 0 ELSE F[First(s)] + g[s \ {First(s)}]]
    BY DEF Recursion, First
  <2>3. g = [s \in SUBSET S |-> NextSum(F, s)]
    BY DEF g
  <2> QED BY <2>1, <2>2, <2>3
<1>4. h = Recursion(F, S, h)
  <2> HIDE DEF g
  <2> QED BY <1>3 DEF Solution
<1>5. \A s \in SUBSET S : h[s] = g[s]
  <2> DEFINE B == {s \in SUBSET S : h[s] # g[s]}
  <2>1. SUFFICES ASSUME B # {} PROVE FALSE
    OBVIOUS
  <2>2. PICK U \in B : \A V \in B : V \subseteq U => V = U
    <3>1. B \in SUBSET SUBSET S
      OBVIOUS
    <3> HIDE DEF B
    <3> QED BY <2>1, <3>1, SmallestSubset
  <2>3. U \in SUBSET S /\ h[U] # g[U]
    BY <2>2
  <2>4. h[U] = IF U = {} THEN 0 ELSE F[First(U)] + h[U \ {First(U)}]
    <3>1. U \in SUBSET S /\ Solution(F, S) = Recursion(F, S, Solution(F, S))
      BY <1>4, <2>3
    <3> QED BY ONLY <3>1, SolutionSteps
  <2>5. g[U] = IF U = {} THEN 0 ELSE F[First(U)] + g[U \ {First(U)}]
    <3>1. g[U] = Recursion(F, S, g)[U]
      BY <1>3
    <3> HIDE DEF g
    <3> QED BY <2>3, <3>1 DEF Recursion, First
  <2>6. U # {} /\ First(U) \in U /\ U \ {First(U)} \in SUBSET S
    BY <2>3, <2>4, <2>5, FirstOf
  <2>7. h[U \ {First(U)}] = g[U \ {First(U)}]
    <3>1. U \ {First(U)} \notin B
      <4>1. U \ {First(U)} \subseteq U /\ U \ {First(U)} # U
        BY <2>6
      <4> HIDE DEF B
      <4> QED BY <2>2, <4>1
    <3> HIDE DEF h, g
    <3> QED BY <2>6, <3>1
  <2> HIDE DEF h, g
  <2> QED BY <2>3, <2>4, <2>5, <2>6, <2>7
<1>6. \A s \in SUBSET S : h[s] = Total(F, s)
  BY <1>1, <1>5, TotalIsSolution
<1> QED BY <1>4, <1>6 DEF Solved

\* MapThenSumSet sums a finite set one element at a time.
LEMMA TotalSteps ==
  ASSUME NEW F, NEW S, IsFiniteSet(S)
  PROVE  \A T \in SUBSET S : Total(F, T) = NextSum(F, T)
<1> DEFINE B == {s \in SUBSET S : ~Solved(F, s)}
<1>1. B = {}
  <2>1. SUFFICES ASSUME B # {} PROVE FALSE
    OBVIOUS
  <2>2. PICK U \in B : \A V \in B : V \subseteq U => V = U
    <3>1. B \in SUBSET SUBSET S
      OBVIOUS
    <3> HIDE DEF B
    <3> QED BY <2>1, <3>1, SmallestSubset
  <2>3. IsFiniteSet(U)
    BY <2>2, FS_Subset
  <2>4. \A V \in SUBSET U : V # U => Solved(F, V)
    BY <2>2
  <2> QED BY <2>2, <2>3, <2>4, SolvedFromBelow
<1> QED BY <1>1, SolvedSteps

-----------------------------------------------------------------------------
(* What the proofs of the models use.                                      *)

\* Nothing sums to zero.
LEMMA SumOfNone ==
  ASSUME NEW F
  PROVE  Total(F, {}) = 0
BY FS_EmptySet, TotalSteps DEF NextSum

\* A sum of integers is one.
LEMMA SumType ==
  ASSUME NEW F, NEW S, IsFiniteSet(S), \A x \in S : F[x] \in Int
  PROVE  \A T \in SUBSET S : Total(F, T) \in Int
<1> DEFINE B == {s \in SUBSET S : Total(F, s) \notin Int}
<1>1. SUFFICES ASSUME B # {} PROVE FALSE
  OBVIOUS
<1>2. PICK U \in B : \A V \in B : V \subseteq U => V = U
  <2>1. B \in SUBSET SUBSET S
    OBVIOUS
  <2> HIDE DEF B
  <2> QED BY <1>1, <2>1, SmallestSubset
<1>3. Total(F, U) = NextSum(F, U)
  BY <1>2, TotalSteps
<1>4. U # {} => First(U) \in U /\ Total(F, U \ {First(U)}) \in Int
  BY <1>2, FirstOf
<1> QED BY <1>2, <1>3, <1>4 DEF NextSum

\* Any element may be summed last.
LEMMA SumWithout ==
  ASSUME NEW F, NEW S, IsFiniteSet(S), \A x \in S : F[x] \in Int
  PROVE  \A T \in SUBSET S : \A y \in T : Total(F, T) = F[y] + Total(F, T \ {y})
<1> DEFINE B == {s \in SUBSET S : \E y \in s : Total(F, s) # F[y] + Total(F, s \ {y})}
<1>1. SUFFICES ASSUME B # {} PROVE FALSE
  OBVIOUS
<1>2. PICK U \in B : \A V \in B : V \subseteq U => V = U
  <2>1. B \in SUBSET SUBSET S
    OBVIOUS
  <2> HIDE DEF B
  <2> QED BY <1>1, <2>1, SmallestSubset
<1>3. PICK y \in U : Total(F, U) # F[y] + Total(F, U \ {y})
  BY <1>2
<1> DEFINE x == First(U)
<1>4. x \in U /\ U \in SUBSET S
  BY <1>2, <1>3, FirstOf
<1> HIDE DEF x
<1>5. Total(F, U) = F[x] + Total(F, U \ {x})
  BY <1>4, TotalSteps DEF NextSum, x
<1>6. x # y
  BY <1>3, <1>5
<1>7. Total(F, U \ {x}) = F[y] + Total(F, (U \ {x}) \ {y})
  <2>1. U \ {x} \notin B
    BY <1>2, <1>4
  <2> QED BY <1>4, <1>6, <2>1
<1>8. Total(F, U \ {y}) = F[x] + Total(F, (U \ {y}) \ {x})
  <2>1. U \ {y} \notin B
    BY <1>2, <1>3
  <2> QED BY <1>4, <1>6, <2>1
<1>9. (U \ {x}) \ {y} = (U \ {y}) \ {x}
  OBVIOUS
<1>10. Total(F, (U \ {x}) \ {y}) \in Int /\ F[x] \in Int /\ F[y] \in Int
  BY <1>4, SumType
<1>11. Total(F, U) = F[x] + (F[y] + Total(F, (U \ {x}) \ {y}))
  BY <1>5, <1>7
<1>12. Total(F, U \ {y}) = F[x] + Total(F, (U \ {x}) \ {y})
  BY <1>8, <1>9
<1> HIDE DEF B
<1> QED BY <1>3, <1>10, <1>11, <1>12

\* An element that is not in the set yet adds its value.
LEMMA SumWith ==
  ASSUME NEW F, NEW S, IsFiniteSet(S), NEW y, y \notin S,
         \A x \in S \cup {y} : F[x] \in Int
  PROVE  Total(F, S \cup {y}) = Total(F, S) + F[y]
<1>1. IsFiniteSet(S \cup {y})
  BY FS_AddElement
<1>2. (S \cup {y}) \ {y} = S
  OBVIOUS
<1>3. Total(F, S \cup {y}) = F[y] + Total(F, S)
  BY <1>1, <1>2, SumWithout
<1>4. Total(F, S) \in Int /\ F[y] \in Int
  BY SumType
<1> QED BY <1>3, <1>4

\* A sum only depends on the values of the elements it is over.
LEMMA SumOfEquals ==
  ASSUME NEW F, NEW G, NEW S, IsFiniteSet(S), \A x \in S : F[x] = G[x]
  PROVE  \A T \in SUBSET S : Total(F, T) = Total(G, T)
<1> DEFINE B == {s \in SUBSET S : Total(F, s) # Total(G, s)}
<1>1. SUFFICES ASSUME B # {} PROVE FALSE
  OBVIOUS
<1>2. PICK U \in B : \A V \in B : V \subseteq U => V = U
  <2>1. B \in SUBSET SUBSET S
    OBVIOUS
  <2> HIDE DEF B
  <2> QED BY <1>1, <2>1, SmallestSubset
<1>3. Total(F, U) = NextSum(F, U) /\ Total(G, U) = NextSum(G, U)
  BY <1>2, TotalSteps
<1>4. U # {} => First(U) \in U /\ Total(F, U \ {First(U)}) = Total(G, U \ {First(U)})
  BY <1>2, FirstOf
<1> QED BY <1>2, <1>3, <1>4 DEF NextSum

\* A sum of naturals is a natural.
LEMMA SumOfNats ==
  ASSUME NEW F, NEW S, IsFiniteSet(S), \A x \in S : F[x] \in Nat
  PROVE  \A T \in SUBSET S : Total(F, T) \in Nat
<1> DEFINE B == {s \in SUBSET S : Total(F, s) \notin Nat}
<1>1. SUFFICES ASSUME B # {} PROVE FALSE
  OBVIOUS
<1>2. PICK U \in B : \A V \in B : V \subseteq U => V = U
  <2>1. B \in SUBSET SUBSET S
    OBVIOUS
  <2> HIDE DEF B
  <2> QED BY <1>1, <2>1, SmallestSubset
<1>3. Total(F, U) = NextSum(F, U)
  BY <1>2, TotalSteps
<1>4. U # {} => First(U) \in U /\ Total(F, U \ {First(U)}) \in Nat
  BY <1>2, FirstOf
<1> QED BY <1>2, <1>3, <1>4 DEF NextSum

\* Larger summands, larger sum.
LEMMA SumAtMost ==
  ASSUME NEW F, NEW G, NEW S, IsFiniteSet(S),
         \A x \in S : F[x] \in Int /\ G[x] \in Int /\ F[x] <= G[x]
  PROVE  \A T \in SUBSET S : Total(F, T) <= Total(G, T)
<1> DEFINE B == {s \in SUBSET S : ~(Total(F, s) <= Total(G, s))}
<1>1. SUFFICES ASSUME B # {} PROVE FALSE
  OBVIOUS
<1>2. PICK U \in B : \A V \in B : V \subseteq U => V = U
  <2>1. B \in SUBSET SUBSET S
    OBVIOUS
  <2> HIDE DEF B
  <2> QED BY <1>1, <2>1, SmallestSubset
<1>3. Total(F, U) = NextSum(F, U) /\ Total(G, U) = NextSum(G, U)
  BY <1>2, TotalSteps
<1> DEFINE x == First(U)
           V == U \ {x}
<1>4. U # {} => x \in U /\ V \in SUBSET S /\ V \subseteq U /\ V # U
  BY <1>2, FirstOf
<1>5. U # {} => Total(F, V) <= Total(G, V)
  <2>1. U # {} => V \notin B
    BY <1>2, <1>4
  <2> QED BY <1>4, <2>1
<1>6. U # {} => F[x] \in Int /\ G[x] \in Int /\ F[x] <= G[x]
  BY <1>2, <1>4
<1>7. U # {} => Total(F, V) \in Int /\ Total(G, V) \in Int
  BY <1>4, SumType
<1>8. ~(Total(F, U) <= Total(G, U))
  BY <1>2
<1> HIDE DEF V, B
<1>9. U # {} => Total(F, U) = F[x] + Total(F, V) /\ Total(G, U) = G[x] + Total(G, V)
  BY <1>3 DEF NextSum, V
<1>10. U = {} => Total(F, U) = 0 /\ Total(G, U) = 0
  BY <1>3 DEF NextSum
<1> HIDE DEF x
<1> QED BY <1>5, <1>6, <1>7, <1>8, <1>9, <1>10

\* Zeros sum to zero.
LEMMA SumOfZeros ==
  ASSUME NEW F, NEW S, IsFiniteSet(S), \A x \in S : F[x] = 0
  PROVE  Total(F, S) = 0
<1> DEFINE Z == [x \in S |-> 0]
           B == {s \in SUBSET S : Total(F, s) # 0}
<1>1. SUFFICES ASSUME B # {} PROVE FALSE
  OBVIOUS
<1>2. PICK U \in B : \A V \in B : V \subseteq U => V = U
  <2>1. B \in SUBSET SUBSET S
    OBVIOUS
  <2> HIDE DEF B
  <2> QED BY <1>1, <2>1, SmallestSubset
<1>3. Total(F, U) = NextSum(F, U)
  BY <1>2, TotalSteps
<1>4. U # {} => First(U) \in U /\ Total(F, U \ {First(U)}) = 0
  BY <1>2, FirstOf
<1> QED BY <1>2, <1>3, <1>4 DEF NextSum

\* The sum over two disjoint sets.
LEMMA SumOfUnion ==
  ASSUME NEW F, NEW A, NEW C, IsFiniteSet(A), IsFiniteSet(C), A \cap C = {},
         \A x \in A \cup C : F[x] \in Int
  PROVE  Total(F, A \cup C) = Total(F, A) + Total(F, C)
<1> DEFINE B == {s \in SUBSET C : Total(F, A \cup s) # Total(F, A) + Total(F, s)}
<1>1. SUFFICES ASSUME B # {} PROVE FALSE
  OBVIOUS
<1>2. PICK U \in B : \A V \in B : V \subseteq U => V = U
  <2>1. B \in SUBSET SUBSET C
    OBVIOUS
  <2> HIDE DEF B
  <2> QED BY <1>1, <2>1, SmallestSubset
<1>3. IsFiniteSet(A \cup C)
  BY FS_Union
<1>4. U \in SUBSET C /\ Total(F, A \cup U) # Total(F, A) + Total(F, U)
  BY <1>2
<1>5. Total(F, A) \in Int
  BY SumType
<1>6. U # {}
  <2>1. ASSUME U = {} PROVE Total(F, A \cup U) = Total(F, A) /\ Total(F, U) = 0
    <3>1. A \cup U = A
      BY <2>1
    <3> QED BY <2>1, <3>1, SumOfNone
  <2> QED BY <1>4, <1>5, <2>1
<1>7. PICK x : x \in U
  BY <1>6
<1> DEFINE V == U \ {x}
<1>8. V \in SUBSET C /\ V # U /\ V \subseteq U /\ A \cup V \in SUBSET (A \cup C)
  BY <1>4, <1>7
<1>9. Total(F, A \cup V) = Total(F, A) + Total(F, V)
  <2>1. V \notin B
    BY <1>2, <1>8
  <2> QED BY <1>8, <2>1
<1>10. x \in C /\ x \notin V /\ x \notin A /\ F[x] \in Int
  BY <1>4, <1>7
<1>11. Total(F, U) = F[x] + Total(F, V)
  BY <1>4, <1>7, SumWithout
<1>12. Total(F, A \cup U) = F[x] + Total(F, A \cup V)
  <2>1. (A \cup U) \ {x} = A \cup V /\ A \cup U \in SUBSET (A \cup C) /\ x \in A \cup U
    BY <1>4, <1>7, <1>10
  <2> HIDE DEF V
  <2> QED BY <1>3, <2>1, SumWithout
<1>13. Total(F, V) \in Int
  BY <1>8, SumType
<1> HIDE DEF V, B
<1> QED BY <1>4, <1>5, <1>9, <1>10, <1>11, <1>12, <1>13

\* A set of naturals sums to at least what a part of it sums to.
LEMMA SumOfPart ==
  ASSUME NEW F, NEW S, IsFiniteSet(S), NEW T \in SUBSET S, \A x \in S : F[x] \in Nat
  PROVE  Total(F, T) <= Total(F, S)
<1>1. IsFiniteSet(T) /\ IsFiniteSet(S \ T)
  BY FS_Subset
<1>2. T \cup (S \ T) = S /\ T \cap (S \ T) = {}
  OBVIOUS
<1>3. Total(F, S) = Total(F, T) + Total(F, S \ T)
  <2> DEFINE R == S \ T
  <2>1. Total(F, T \cup R) = Total(F, T) + Total(F, R)
    <3>1. \A x \in T \cup R : F[x] \in Int
      BY <1>2
    <3> HIDE DEF R
    <3> QED BY <1>1, <1>2, <3>1, SumOfUnion DEF R
  <2> QED BY <1>2, <2>1
<1>4. Total(F, T) \in Nat /\ Total(F, S \ T) \in Nat
  BY SumOfNats
<1> QED BY <1>3, <1>4

\* Changing one summand changes the sum by as much.
LEMMA SumUpdated ==
  ASSUME NEW F, NEW G, NEW S, IsFiniteSet(S), NEW y \in S,
         \A x \in S : F[x] \in Int /\ G[x] \in Int,
         \A x \in S \ {y} : F[x] = G[x]
  PROVE  Total(G, S) = Total(F, S) + G[y] - F[y]
<1> DEFINE R == S \ {y}
<1>1. IsFiniteSet(R)
  BY FS_Subset
<1>2. Total(F, R) = Total(G, R)
  BY <1>1, SumOfEquals
<1>3. Total(F, S) = F[y] + Total(F, R) /\ Total(G, S) = G[y] + Total(G, R)
  BY SumWithout
<1>4. Total(F, R) \in Int
  BY SumType
<1> HIDE DEF R
<1> QED BY <1>2, <1>3, <1>4

-----------------------------------------------------------------------------
(* Intervals of naturals.                                                  *)

\* A nonempty set of naturals has a least element.
LEMMA LeastNat ==
  ASSUME NEW T \in SUBSET Nat, T # {}
  PROVE  \E n \in T : \A k \in T : n <= k
<1>1. PICK n \in T : \A k \in T : <<k, n>> \notin OpToRel(<, Nat)
  BY NatLessThanWellFounded, WFMin, Zenon
<1>2. \A k \in T : <<k, n>> \notin {ss \in Nat \X Nat : ss[1] < ss[2]}
  BY <1>1 DEF OpToRel
<1>3. \A k \in T : ~(k < n)
  BY <1>2
<1> QED BY <1>3

\* The sum over an interval, without its last element.
LEMMA SumToNext ==
  ASSUME NEW F, NEW m \in Int, NEW n \in Int, m <= n, \A i \in m..n : F[i] \in Int
  PROVE  Total(F, m..n) = Total(F, m..(n - 1)) + F[n]
<1>1. IsFiniteSet(m..n)
  BY FS_Interval
<1>2. n \in m..n /\ (m..n) \ {n} = m..(n - 1)
  OBVIOUS
<1>3. Total(F, m..n) = F[n] + Total(F, m..(n - 1))
  BY <1>1, <1>2, SumWithout
<1>4. Total(F, m..(n - 1)) \in Int /\ F[n] \in Int
  <2>1. m..(n - 1) \in SUBSET (m..n)
    OBVIOUS
  <2> QED BY <1>1, <1>2, <2>1, SumType
<1> QED BY <1>3, <1>4

\* The greater of two numbers.
LEMMA MaxOfTwo ==
  ASSUME NEW a \in Int, NEW b \in Int
  PROVE  Max({a, b}) = IF a >= b THEN a ELSE b
<1> DEFINE m == IF a >= b THEN a ELSE b
<1>1. m \in {a, b} /\ \A y \in {a, b} : m >= y
  OBVIOUS
<1>2. \A x \in {a, b} : (\A y \in {a, b} : x >= y) => x = m
  OBVIOUS
<1> QED BY <1>1, <1>2 DEF Max

\* Integer division keeps an order between multiples of the divisor.
LEMMA QuotientAtMost ==
  ASSUME NEW n \in Int, NEW d \in Nat \ {0}, NEW k \in Int, n <= k * d
  PROVE  n \div d \in Int /\ n \div d <= k
BY SMT

\* The quotient is an integer.
LEMMA QuotientType ==
  ASSUME NEW n \in Int, NEW d \in Nat \ {0}
  PROVE  n \div d \in Int
BY SMT

\* The smaller of two numbers.
LEMMA MinOfTwo ==
  ASSUME NEW a \in Int, NEW b \in Int
  PROVE  Min({a, b}) = IF a <= b THEN a ELSE b
<1> DEFINE m == IF a <= b THEN a ELSE b
<1>1. m \in {a, b} /\ \A y \in {a, b} : m <= y
  OBVIOUS
<1>2. \A x \in {a, b} : (\A y \in {a, b} : x <= y) => x = m
  OBVIOUS
<1> QED BY <1>1, <1>2 DEF Min

\* A finite set of integers has a greatest member.
LEMMA MaxOfSet ==
  ASSUME NEW S, IsFiniteSet(S), S # {}, \A x \in S : x \in Int
  PROVE  Max(S) \in S /\ \A x \in S : Max(S) >= x
<1> DEFINE B == {s \in SUBSET S : s # {} /\ ~(\E m \in s : \A x \in s : m >= x)}
<1>1. SUFFICES ASSUME B # {} PROVE FALSE
  <2>1. \E m \in S : \A x \in S : m >= x
    BY <1>1
  <2> QED BY <2>1 DEF Max
<1>2. PICK U \in B : \A V \in B : V \subseteq U => V = U
  <2>1. B \in SUBSET SUBSET S
    OBVIOUS
  <2> HIDE DEF B
  <2> QED BY <1>1, <2>1, SmallestSubset
<1>3. U \in SUBSET S /\ U # {} /\ ~(\E m \in U : \A x \in U : m >= x)
  BY <1>2
<1>4. PICK y \in U : TRUE
  BY <1>3
<1>5. CASE U = {y}
  BY <1>3, <1>5
<1>6. CASE U # {y}
  <2> DEFINE V == U \ {y}
  <2>1. V \in SUBSET S /\ V # {} /\ V # U /\ V \subseteq U
    BY <1>3, <1>4, <1>6
  <2>2. PICK m \in V : \A x \in V : m >= x
    BY <1>2, <2>1
  <2>3. m \in Int /\ y \in Int /\ (\A x \in U : x \in Int /\ (x = y \/ m >= x))
    BY <1>3, <1>4, <2>2
  <2>4. CASE m >= y
    BY <1>3, <2>2, <2>3, <2>4
  <2>5. CASE y >= m
    BY <1>3, <1>4, <2>2, <2>3, <2>5
  <2> QED BY <2>3, <2>4, <2>5
<1> QED BY <1>5, <1>6

\* A set of naturals that is not empty has a least member.
LEMMA LeastNumber ==
  ASSUME NEW T \in SUBSET Nat, T # {}
  PROVE  \E m \in T : \A n \in T : m <= n
<1>1. PICK k \in T : TRUE
  OBVIOUS
<1> DEFINE S == 0..k
           B == {0..m : m \in T \cap (0..k)}
<1>2. IsFiniteSet(0..k)
  BY FS_Interval
<1>3. B \in SUBSET SUBSET (0..k) /\ B # {}
  <2>1. k \in T \cap (0..k)
    BY <1>1
  <2>2. \A m \in T \cap (0..k) : 0..m \subseteq 0..k
    OBVIOUS
  <2> QED BY <2>1, <2>2
<1>4. PICK U \in B : \A V \in B : V \subseteq U => V = U
  <2>1. IsFiniteSet(S) /\ B \in SUBSET SUBSET S /\ B # {}
    BY <1>2, <1>3
  <2> HIDE DEF B, S
  <2> QED BY <2>1, SmallestSubset
<1>5. PICK m \in T \cap (0..k) : U = 0..m
  BY <1>4
<1>6. ASSUME NEW n \in T, n < m PROVE FALSE
  <2>1. n \in T \cap (0..k) /\ n \in Nat /\ m \in Nat
    BY <1>5, <1>6
  <2>2. 0..n \in B /\ 0..n \subseteq U /\ m \notin 0..n /\ m \in U
    BY <1>5, <1>6, <2>1
  <2> QED BY <1>4, <2>2
<1>7. \A n \in T : m <= n
  BY <1>5, <1>6
<1> QED BY <1>5, <1>7
=============================================================================
