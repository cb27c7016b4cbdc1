--------------------------- MODULE ScoringProofs ---------------------------
(***************************************************************************)
(* Proofs about Scoring: of all jobs, answers, numbers of samples and      *)
(* precisions, where the runs enumerate a few.                             *)
(*                                                                         *)
(* Sums over requirements and the order of samples are induced over by     *)
(* taking the smallest counterexample out of a set of subsets.  NoWorse    *)
(* compares two entries for one requirement and Better two evaluations;    *)
(* every operator of ScoringPolicy is shown to grow along them.  What      *)
(* completeEvaluation() makes of two answers is then Better, and an        *)
(* invariant ties each sample's score to its answer.                       *)
(***************************************************************************)
EXTENDS Scoring, FiniteSetTheorems, SequenceTheorems, TLAPS

\* Induction over subsets: a set of subsets of a finite set has a minimal element.
LEMMA SmallestSet ==
    ASSUME NEW S, IsFiniteSet(S), NEW B, B \subseteq SUBSET S, B # {}
    PROVE  \E T \in B : \A U \in SUBSET T : U # T => U \notin B
<1>1. IsWellFoundedOn(StrictSubsetOrdering(S), SUBSET S)
      BY FS_StrictSubsetOrderingWellFounded, FS_FiniteSubsetsOfFinite
<1>2. PICK T \in B : \A U \in B : ~(<<U, T>> \in StrictSubsetOrdering(S))
      BY <1>1, WFMin
<1>3. QED
      BY <1>2 DEF StrictSubsetOrdering

\* Induction over numbers: a set of numbers has a least element.
LEMMA LeastNumber ==
    ASSUME NEW B, B \subseteq Nat, B # {}
    PROVE  \E k \in B : \A i \in B : k <= i
<1>1. PICK b \in B : TRUE
      OBVIOUS
<1> DEFINE C == {0 .. k : k \in {i \in B : i <= b}}
<1>2. C \subseteq SUBSET (0 .. b) /\ C # {} /\ IsFiniteSet(0 .. b)
  <2>1. b \in {i \in B : i <= b} /\ b \in Int /\ 0 \in Int
        BY <1>1
  <2>2. IsFiniteSet(0 .. b)
        BY <2>1, FS_Interval
  <2>3. 0 .. b \in C
        BY <2>1
  <2>4. C \subseteq SUBSET (0 .. b)
        OBVIOUS
  <2>5. QED
        BY <2>2, <2>3, <2>4
<1>3. PICK T \in C : \A U \in SUBSET T : U # T => U \notin C
  <2> HIDE DEF C
  <2>1. QED
        BY <1>2, SmallestSet
<1>4. PICK k \in B : k <= b /\ T = 0 .. k
      BY <1>3
<1>5. ASSUME NEW i \in B, i < k PROVE FALSE
  <2>1. 0 .. i \in C
        BY <1>1, <1>4, <1>5
  <2>2. 0 .. i \subseteq 0 .. k /\ k \in 0 .. k /\ k \notin 0 .. i
        BY <1>5
  <2>3. QED
        BY <1>3, <1>4, <2>1, <2>2
<1>6. QED
      BY <1>5

------------------------------------------------------------------------------
(* Sums over a set of requirements.                                          *)

Pick(S)          == CHOOSE n \in S : TRUE
Total(reqs, S)   == MapThenSumSet(LAMBDA n : RequirementValue(reqs[n]), S)
Sums(f, reqs, S) ==
    f = [T \in SUBSET S |-> IF T = {} THEN 0
                            ELSE RequirementValue(reqs[Pick(T)]) + f[T \ {Pick(T)}]]

LEMMA PickIn == ASSUME NEW S, S # {} PROVE Pick(S) \in S
      BY DEF Pick

\* Two ways to sum agree where both are defined.
LEMMA SumsAgree ==
    ASSUME NEW S, IsFiniteSet(S), NEW U \in SUBSET S, NEW reqs, NEW f, NEW g,
           Sums(f, reqs, S), Sums(g, reqs, U)
    PROVE  \A T \in SUBSET U : f[T] = g[T]
<1> DEFINE B == {T \in SUBSET U : f[T] # g[T]}
<1>1. SUFFICES ASSUME B # {} PROVE FALSE
      OBVIOUS
<1>2. IsFiniteSet(U)
      BY FS_Subset
<1>3. PICK T \in B : \A V \in SUBSET T : V # T => V \notin B
  <2>1. B \subseteq SUBSET U
        OBVIOUS
  <2> HIDE DEF B
  <2>2. QED
        BY <1>1, <1>2, <2>1, SmallestSet
<1>4. CASE T = {}
      BY <1>3, <1>4 DEF Sums
<1>5. CASE T # {}
  <2> DEFINE R == T \ {Pick(T)}
  <2>1. Pick(T) \in T
        BY <1>5, PickIn
  <2>2. R \in SUBSET T /\ R # T /\ R \in SUBSET U
        BY <1>3, <2>1
  <2>3. f[R] = g[R]
        BY <1>3, <2>2
  <2>4. f[T] = RequirementValue(reqs[Pick(T)]) + f[R]
        BY <1>3, <1>5 DEF Sums
  <2>5. g[T] = RequirementValue(reqs[Pick(T)]) + g[R]
        BY <1>3, <1>5 DEF Sums
  <2>6. QED
        BY <1>3, <2>3, <2>4, <2>5
<1>6. QED
      BY <1>4, <1>5

\* There is a way to sum over every finite set.
LEMMA SumsExist ==
    ASSUME NEW S, IsFiniteSet(S), NEW reqs
    PROVE  \E f : Sums(f, reqs, S)
<1> DEFINE B == {T \in SUBSET S : ~ \E f : Sums(f, reqs, T)}
<1>1. SUFFICES ASSUME B # {} PROVE FALSE
      OBVIOUS
<1>2. PICK T \in B : \A V \in SUBSET T : V # T => V \notin B
  <2>1. B \subseteq SUBSET S
        OBVIOUS
  <2> HIDE DEF B
  <2>2. QED
        BY <1>1, <2>1, SmallestSet
<1>3. T \in SUBSET S /\ ~ \E f : Sums(f, reqs, T)
      BY <1>2
<1>4. IsFiniteSet(T)
      BY <1>3, FS_Subset
<1> DEFINE part(V) == CHOOSE g : Sums(g, reqs, V)
           val(V) == part(V)[V]
           sum(V) == IF V = {} THEN 0 ELSE RequirementValue(reqs[Pick(V)]) + val(V \ {Pick(V)})
           f == [V \in SUBSET T |-> IF V = T THEN sum(V) ELSE val(V)]
<1>5. ASSUME NEW V \in SUBSET T, V # T PROVE Sums(part(V), reqs, V)
      BY <1>2, <1>3, <1>5
<1>6. ASSUME NEW V \in SUBSET T, V # T PROVE val(V) = sum(V)
  <2>1. Sums(part(V), reqs, V)
        BY <1>5, <1>6
  <2> HIDE DEF part
  <2>2. CASE V = {}
        BY <2>1, <2>2 DEF Sums
  <2>3. CASE V # {}
    <3> DEFINE R == V \ {Pick(V)}
    <3>1. Pick(V) \in V
          BY <2>3, PickIn
    <3>2. R \in SUBSET V /\ R # T /\ R \in SUBSET T /\ IsFiniteSet(V)
          BY <1>4, <1>6, <3>1, FS_Subset
    <3>3. Sums(part(R), reqs, R)
          BY <1>5, <3>2 DEF part
    <3>4. part(V)[R] = part(R)[R]
          BY <2>1, <3>2, <3>3, SumsAgree
    <3>5. part(V)[V] = RequirementValue(reqs[Pick(V)]) + part(V)[R]
          BY <2>1, <2>3 DEF Sums
    <3>6. QED
          BY <2>3, <3>4, <3>5
  <2>4. QED
        BY <2>2, <2>3
<1>7. ASSUME NEW V \in SUBSET T
      PROVE  f[V] = IF V = {} THEN 0 ELSE RequirementValue(reqs[Pick(V)]) + f[V \ {Pick(V)}]
  <2>1. f[V] = sum(V)
        BY <1>6
  <2>2. ASSUME V # {} PROVE f[V \ {Pick(V)}] = val(V \ {Pick(V)})
    <3>1. Pick(V) \in V
          BY <2>2, PickIn
    <3>2. QED
          BY <3>1
  <2>3. QED
        BY <2>1, <2>2
<1>8. Sums(f, reqs, T)
  <2> HIDE DEF val, Next
  <2>1. f = [V \in SUBSET T |-> f[V]]
        OBVIOUS
  <2> HIDE DEF f
  <2>2. QED
        BY <1>7, <2>1 DEF Sums
<1>9. QED
      BY <1>3, <1>8


\* MapThenSumSet() sums.
LEMMA TotalSums ==
    ASSUME NEW S, IsFiniteSet(S), NEW reqs
    PROVE  \E f : Sums(f, reqs, S) /\ Total(reqs, S) = f[S]
<1> DEFINE f == CHOOSE g : Sums(g, reqs, S)
<1>1. Sums(f, reqs, S)
      BY SumsExist
<1>2. Total(reqs, S) = f[S]
      BY DEF Total, MapThenSumSet, MapThenFoldSet, Sums, Pick
<1>3. QED
      BY <1>1, <1>2

LEMMA TotalEmpty ==
    ASSUME NEW reqs
    PROVE  Total(reqs, {}) = 0
<1>1. PICK f : Sums(f, reqs, {}) /\ Total(reqs, {}) = f[{}]
      BY TotalSums, FS_EmptySet
<1>2. QED
      BY <1>1 DEF Sums

\* The sum without the element that is picked first.
LEMMA TotalPick ==
    ASSUME NEW S, IsFiniteSet(S), S # {}, NEW reqs
    PROVE  Total(reqs, S) = RequirementValue(reqs[Pick(S)]) + Total(reqs, S \ {Pick(S)})
<1> DEFINE R == S \ {Pick(S)}
<1>1. R \in SUBSET S /\ IsFiniteSet(R)
      BY FS_Subset
<1>2. PICK f : Sums(f, reqs, S) /\ Total(reqs, S) = f[S]
      BY TotalSums
<1>3. PICK g : Sums(g, reqs, R) /\ Total(reqs, R) = g[R]
      BY <1>1, TotalSums
<1>4. f[R] = g[R]
      BY <1>1, <1>2, <1>3, SumsAgree
<1>5. f[S] = RequirementValue(reqs[Pick(S)]) + f[R]
  <2>1. S \in SUBSET S
        OBVIOUS
  <2> HIDE DEF R
  <2>2. QED
        BY <1>2, <2>1 DEF Sums, R
<1>6. QED
      BY <1>2, <1>3, <1>4, <1>5

LEMMA ValueType ==
    ASSUME NEW r \in Requirement
    PROVE  RequirementValue(r) \in 0 .. One
<1>1. One \in Nat /\ One \div 2 \in 0 .. One /\ (3 * One) \div 4 \in 0 .. One
      BY PrecisionAssumption
<1>2. QED
      BY <1>1 DEF RequirementValue, SCORING_POLICY, Requirement

LEMMA TotalType ==
    ASSUME NEW S, IsFiniteSet(S), NEW reqs, \A n \in S : reqs[n] \in Requirement
    PROVE  Total(reqs, S) \in Nat
<1> DEFINE B == {T \in SUBSET S : Total(reqs, T) \notin Nat}
<1>1. SUFFICES ASSUME B # {} PROVE FALSE
      OBVIOUS
<1>2. PICK T \in B : \A V \in SUBSET T : V # T => V \notin B
  <2>1. B \subseteq SUBSET S
        OBVIOUS
  <2> HIDE DEF B
  <2>2. QED
        BY <1>1, <2>1, SmallestSet
<1>3. T # {}
  <2>1. Total(reqs, {}) \in Nat
        BY TotalEmpty
  <2>2. QED
        BY <1>2, <2>1
<1>4. Pick(T) \in T /\ IsFiniteSet(T)
      BY <1>2, <1>3, PickIn, FS_Subset
<1>5. Total(reqs, T \ {Pick(T)}) \in Nat /\ RequirementValue(reqs[Pick(T)]) \in Nat
      BY <1>2, <1>4, ValueType, PrecisionAssumption
<1>6. QED
      BY <1>2, <1>3, <1>4, <1>5, TotalPick

\* The sum without any one element.
LEMMA TotalSplit ==
    ASSUME NEW S, IsFiniteSet(S), NEW reqs, \A n \in S : reqs[n] \in Requirement,
           NEW x \in S
    PROVE  Total(reqs, S) = RequirementValue(reqs[x]) + Total(reqs, S \ {x})
<1> DEFINE B == {T \in SUBSET S :
                    \E y \in T : Total(reqs, T) # RequirementValue(reqs[y]) + Total(reqs, T \ {y})}
<1>1. SUFFICES ASSUME B # {} PROVE FALSE
      OBVIOUS
<1>2. PICK T \in B : \A V \in SUBSET T : V # T => V \notin B
  <2>1. B \subseteq SUBSET S
        OBVIOUS
  <2> HIDE DEF B
  <2>2. QED
        BY <1>1, <2>1, SmallestSet
<1>3. PICK y \in T : Total(reqs, T) # RequirementValue(reqs[y]) + Total(reqs, T \ {y})
      BY <1>2
<1> DEFINE p == Pick(T)
<1>4. p \in T /\ T \in SUBSET S /\ IsFiniteSet(T)
      BY <1>2, <1>3, PickIn, FS_Subset
<1>5. Total(reqs, T) = RequirementValue(reqs[p]) + Total(reqs, T \ {p})
      BY <1>3, <1>4, TotalPick
<1>6. y # p
      BY <1>3, <1>5
<1> HIDE DEF p
<1>7. Total(reqs, T \ {p}) = RequirementValue(reqs[y]) + Total(reqs, (T \ {p}) \ {y})
      BY <1>2, <1>3, <1>4, <1>6
<1>8. Total(reqs, T \ {y}) = RequirementValue(reqs[p]) + Total(reqs, (T \ {y}) \ {p})
      BY <1>2, <1>3, <1>4, <1>6
<1>9. (T \ {p}) \ {y} = (T \ {y}) \ {p}
      OBVIOUS
<1>10. /\ RequirementValue(reqs[p]) \in Int /\ RequirementValue(reqs[y]) \in Int
       /\ Total(reqs, (T \ {y}) \ {p}) \in Int
  <2>1. (T \ {y}) \ {p} \in SUBSET S /\ IsFiniteSet((T \ {y}) \ {p})
        BY <1>4, FS_Subset
  <2>2. QED
        BY <1>3, <1>4, <2>1, ValueType, TotalType, PrecisionAssumption
<1>11. Total(reqs, (T \ {p}) \ {y}) = Total(reqs, (T \ {y}) \ {p})
       BY <1>9
<1>12. QED
       BY <1>3, <1>5, <1>7, <1>8, <1>10, <1>11

\* A sum is no more than one whose elements are worth at least as much, also if that one
\* leaves out elements that are worth nothing.
LEMMA TotalGrows ==
    ASSUME NEW S, IsFiniteSet(S), NEW R \in SUBSET S, NEW low, NEW high,
           \A n \in S : low[n] \in Requirement /\ high[n] \in Requirement,
           \A n \in R : RequirementValue(low[n]) <= RequirementValue(high[n]),
           \A n \in S \ R : RequirementValue(low[n]) = 0
    PROVE  Total(low, S) <= Total(high, R)
<1> DEFINE B == {T \in SUBSET S : ~(Total(low, T) <= Total(high, T \cap R))}
<1>1. SUFFICES ASSUME B # {} PROVE FALSE
  <2>1. S \cap R = R
        OBVIOUS
  <2>2. QED
        BY <1>1, <2>1
<1>2. PICK T \in B : \A V \in SUBSET T : V # T => V \notin B
  <2>1. B \subseteq SUBSET S
        OBVIOUS
  <2> HIDE DEF B
  <2>2. QED
        BY <1>1, <2>1, SmallestSet
<1>3. T # {}
  <2>1. Total(low, {}) = 0 /\ Total(high, {}) = 0 /\ {} \cap R = {}
        BY TotalEmpty
  <2>2. Total(low, {}) <= Total(high, {} \cap R)
        BY <2>1
  <2>3. QED
        BY <1>2, <2>2
<1> DEFINE p == Pick(T)
<1>4. p \in T /\ T \in SUBSET S /\ IsFiniteSet(T)
      BY <1>2, <1>3, PickIn, FS_Subset
<1>5. Total(low, T) = RequirementValue(low[p]) + Total(low, T \ {p})
      BY <1>3, <1>4, TotalPick
<1> HIDE DEF p
<1>6. Total(low, T \ {p}) <= Total(high, (T \ {p}) \cap R)
      BY <1>2, <1>4
<1>7. /\ IsFiniteSet(T \ {p}) /\ T \ {p} \in SUBSET S
      /\ IsFiniteSet((T \ {p}) \cap R) /\ (T \ {p}) \cap R \in SUBSET S
      /\ IsFiniteSet(T \cap R) /\ T \cap R \in SUBSET S
      BY <1>4, FS_Subset
<1>8. /\ Total(low, T \ {p}) \in Int /\ Total(high, (T \ {p}) \cap R) \in Int
      /\ RequirementValue(low[p]) \in Int /\ RequirementValue(high[p]) \in Int
      BY <1>4, <1>7, TotalType, ValueType, PrecisionAssumption
<1>9. CASE p \in R
  <2>1. (T \cap R) \ {p} = (T \ {p}) \cap R /\ p \in T \cap R
        BY <1>4, <1>9
  <2>2. Total(high, T \cap R) = RequirementValue(high[p]) + Total(high, (T \ {p}) \cap R)
        BY <1>7, <2>1, TotalSplit
  <2>3. RequirementValue(low[p]) <= RequirementValue(high[p])
        BY <1>9
  <2>4. QED
        BY <1>2, <1>5, <1>6, <1>8, <2>2, <2>3
<1>10. CASE p \notin R
  <2>1. (T \ {p}) \cap R = T \cap R
        BY <1>10
  <2>2. RequirementValue(low[p]) = 0
        BY <1>4, <1>10
  <2>3. Total(low, T) <= Total(high, (T \ {p}) \cap R)
        BY <1>5, <1>6, <1>8, <2>2
  <2>4. QED
        BY <1>2, <2>1, <2>3
<1>11. QED
       BY <1>9, <1>10

------------------------------------------------------------------------------
(* Quotients and products.                                                   *)

\* A quotient rounded down, as a multiple of the divisor.
LEMMA DivFacts ==
    ASSUME NEW a \in Int, NEW d \in Nat \ {0}
    PROVE  /\ a \div d \in Int
           /\ d * (a \div d) <= a
           /\ a < d * (a \div d) + d
      OBVIOUS

LEMMA ProductGrows ==
    ASSUME NEW a \in Nat, NEW b \in Nat, NEW c \in Nat, NEW d \in Nat, a <= c, b <= d
    PROVE  a * b <= c * d
      OBVIOUS

\* What is worth more and shared among fewer.
LEMMA DivGrows ==
    ASSUME NEW a \in Nat, NEW b \in Nat, a <= b,
           NEW c \in Nat \ {0}, NEW d \in Nat \ {0}, d <= c
    PROVE  a \div c <= b \div d
      OBVIOUS

\* A share of a whole.
LEMMA ShareType ==
    ASSUME NEW c \in Nat, NEW k \in Nat, NEW d \in Nat \ {0}, k <= d
    PROVE  (c * k) \div d \in 0 .. c
<1>1. c * k \in Nat /\ c * k <= c * d
      BY ProductGrows
<1>2. (c * d) \div d = c
      OBVIOUS
<1>3. (c * k) \div d \in Nat /\ (c * k) \div d <= (c * d) \div d
      BY <1>1, DivGrows
<1>4. QED
      BY <1>2, <1>3

LEMMA PrecisionFacts ==
    /\ One \in Nat \ {0} /\ Unit \in Nat \ {0} /\ Percent \in Nat /\ One = 100 * Percent
    /\ Grain \in Nat \ {0} /\ Point \in Nat
<1>1. One \in Nat \ {0} /\ Grain \in Nat \ {0} /\ One % (100 * Grain) = 0
      BY PrecisionAssumption
<1> DEFINE d == 100 * Grain
<1>2. d \in Nat \ {0}
      BY <1>1
<1> HIDE DEF d
<1>3. One \div d \in Nat /\ One = d * (One \div d)
      BY <1>1, <1>2 DEF d
<1> DEFINE k == One \div d
<1>4. k \in Nat /\ One = (100 * Grain) * k
      BY <1>3 DEF d
<1> HIDE DEF k
<1>5. One = 100 * (Grain * k) /\ Grain * k \in Nat
      BY <1>1, <1>4
<1>6. One \div 100 = Grain * k
      BY <1>1, <1>5
<1>7. One * One \in Nat \ {0}
      BY <1>1
<1>8. Point = k
      BY DEF Point, d, k
<1>9. QED
      BY <1>1, <1>4, <1>5, <1>6, <1>7, <1>8 DEF Unit, Percent

------------------------------------------------------------------------------
(* experienceFactor()                                                        *)

Bound(b) == b = None \/ b \in Nat

Interval(min, max)      == min # None /\ max # None /\ max > min
AtMin(min, max)         == IF Interval(min, max) THEN 80 * Percent ELSE One
Short(years, min, max)  == ((AtMin(min, max) - 60 * Percent) * (min - years)) \div min
Excess(years, max)      == ((One - 92 * Percent) * Least(years - max, Greatest(max, Grain)))
                               \div Greatest(max, Grain)
Within(years, min, max) == ((One - AtMin(min, max)) * (years - min)) \div (max - min)
IsBelow(years, min)     == min # None /\ years # None /\ years < min
IsAbove(years, max)     == max # None /\ years # None /\ years > max

\* experienceFactor() case by case.
LEMMA ExperienceCases ==
    ASSUME NEW years, years = None \/ years \in Nat, NEW min, NEW max, Bound(min), Bound(max)
    PROVE  LET e == ExperienceFactor(years, min, max) IN
           /\ min = None /\ max = None => e = [factor |-> One, short |-> FALSE]
           /\ (min # None \/ max # None) /\ years = None =>
                  e = [factor |-> 85 * Percent, short |-> FALSE]
           /\ IsBelow(years, min) =>
                  e = [factor |-> AtMin(min, max) - Short(years, min, max),
                       short |-> 2 * (min - years) >= min]
           /\ IsAbove(years, max) /\ ~IsBelow(years, min) =>
                  e = [factor |-> One - Excess(years, max), short |-> FALSE]
           /\ /\ min # None \/ max # None
              /\ years # None
              /\ ~IsAbove(years, max)
              /\ ~IsBelow(years, min)
              => e = [factor |-> IF Interval(min, max)
                                 THEN AtMin(min, max) + Within(years, min, max) ELSE One,
                      short |-> FALSE]
<1> USE DEF ExperienceFactor, SCORING_POLICY, IsBelow, IsAbove, Interval, AtMin
<1> DEFINE e == ExperienceFactor(years, min, max)
<1>1. None \notin Nat
      BY DEF None
<1>2. ASSUME min = None /\ max = None PROVE e = [factor |-> One, short |-> FALSE]
      BY <1>2
<1>3. ASSUME min # None \/ max # None, years = None
      PROVE  e = [factor |-> 85 * Percent, short |-> FALSE]
      BY <1>1, <1>3
<1>4. ASSUME IsBelow(years, min)
      PROVE  e = [factor |-> AtMin(min, max) - Short(years, min, max),
                  short |-> 2 * (min - years) >= min]
      BY <1>4 DEF Short
<1>5. ASSUME IsAbove(years, max), ~IsBelow(years, min)
      PROVE  e = [factor |-> One - Excess(years, max), short |-> FALSE]
      BY <1>5 DEF Excess
<1>6. ASSUME min # None \/ max # None, years # None, ~IsAbove(years, max), ~IsBelow(years, min)
      PROVE  e = [factor |-> IF Interval(min, max)
                             THEN AtMin(min, max) + Within(years, min, max) ELSE One,
                  short |-> FALSE]
      BY <1>6 DEF Within
<1> HIDE DEF e
<1>7. QED
      BY <1>2, <1>3, <1>4, <1>5, <1>6 DEF e

\* Each ramp stays within the factors it runs between.
LEMMA RampTypes ==
    ASSUME NEW years, years = None \/ years \in Nat, NEW min, NEW max, Bound(min), Bound(max)
    PROVE  /\ AtMin(min, max) \in Nat
           /\ AtMin(min, max) - 60 * Percent \in Nat
           /\ One - AtMin(min, max) \in Nat
           /\ IsBelow(years, min) => Short(years, min, max) \in 0 .. (AtMin(min, max) - 60 * Percent)
           /\ IsAbove(years, max) => Excess(years, max) \in 0 .. (One - 92 * Percent)
           /\ Interval(min, max) /\ years # None /\ ~IsBelow(years, min) /\ ~IsAbove(years, max) =>
                  Within(years, min, max) \in 0 .. (One - AtMin(min, max))
<1> USE DEF Bound, IsBelow, IsAbove, Interval
<1>1. Percent \in Nat /\ One = 100 * Percent /\ None \notin Nat
      BY PrecisionFacts DEF None
<1>2. /\ AtMin(min, max) \in Nat
      /\ AtMin(min, max) - 60 * Percent \in Nat
      /\ One - AtMin(min, max) \in Nat
      BY <1>1 DEF AtMin
<1>3. ASSUME IsBelow(years, min)
      PROVE  Short(years, min, max) \in 0 .. (AtMin(min, max) - 60 * Percent)
  <2>1. min - years \in Nat /\ min - years <= min /\ min \in Nat \ {0}
        BY <1>3, <1>1
  <2>2. QED
        BY <2>1, <1>2, ShareType DEF Short
<1>4. ASSUME IsAbove(years, max)
      PROVE  Excess(years, max) \in 0 .. (One - 92 * Percent)
  <2>1. One - 92 * Percent \in Nat
        BY <1>1
  <2>2. /\ Least(years - max, Greatest(max, Grain)) \in Nat /\ Greatest(max, Grain) \in Nat \ {0}
        /\ Least(years - max, Greatest(max, Grain)) <= Greatest(max, Grain)
        BY <1>4, <1>1, PrecisionFacts DEF Least, Greatest
  <2>3. QED
        BY <2>1, <2>2, ShareType DEF Excess
<1>5. ASSUME Interval(min, max), years # None, ~IsBelow(years, min), ~IsAbove(years, max)
      PROVE  Within(years, min, max) \in 0 .. (One - AtMin(min, max))
  <2>1. years - min \in Nat /\ years - min <= max - min /\ max - min \in Nat \ {0}
        BY <1>5, <1>1
  <2>2. QED
        BY <2>1, <1>2, ShareType DEF Within
<1>6. QED
      BY <1>2, <1>3, <1>4, <1>5

LEMMA ExperienceType ==
    ASSUME NEW years, years = None \/ years \in Nat, NEW min, NEW max, Bound(min), Bound(max)
    PROVE  LET e == ExperienceFactor(years, min, max) IN e.factor \in Nat /\ e.short \in BOOLEAN
<1> DEFINE e == ExperienceFactor(years, min, max)
<1>1. Percent \in Nat /\ One = 100 * Percent
      BY PrecisionFacts
<1>2. CASE min = None /\ max = None
  <2>1. e = [factor |-> One, short |-> FALSE]
        BY <1>2, ExperienceCases
  <2>2. QED
        BY <1>1, <2>1
<1>3. CASE (min # None \/ max # None) /\ years = None
  <2>1. e = [factor |-> 85 * Percent, short |-> FALSE]
        BY <1>3, ExperienceCases
  <2>2. QED
        BY <1>1, <2>1
<1>4. CASE IsBelow(years, min)
  <2>1. e = [factor |-> AtMin(min, max) - Short(years, min, max),
             short |-> 2 * (min - years) >= min]
        BY <1>4, ExperienceCases
  <2>2. AtMin(min, max) - Short(years, min, max) \in Nat
        BY <1>1, <1>4, RampTypes
  <2>3. QED
        BY <2>1, <2>2
<1>5. CASE IsAbove(years, max) /\ ~IsBelow(years, min)
  <2>1. e = [factor |-> One - Excess(years, max), short |-> FALSE]
        BY <1>5, ExperienceCases
  <2>2. One - Excess(years, max) \in Nat
        BY <1>1, <1>5, RampTypes
  <2>3. QED
        BY <2>1, <2>2
<1>6. CASE /\ min # None \/ max # None
           /\ years # None
           /\ ~IsAbove(years, max)
           /\ ~IsBelow(years, min)
  <2>1. e = [factor |-> IF Interval(min, max)
                        THEN AtMin(min, max) + Within(years, min, max) ELSE One,
             short |-> FALSE]
        BY <1>6, ExperienceCases
  <2>2. Interval(min, max) => AtMin(min, max) + Within(years, min, max) \in Nat
        BY <1>1, <1>6, RampTypes
  <2>3. QED
        BY <1>1, <2>1, <2>2
<1>7. QED
      BY <1>2, <1>3, <1>4, <1>5, <1>6

\* More years, up to the job's maximum, never lower the factor, nor do they bring the cap for
\* too few of them.
LEMMA ExperienceGrows ==
    ASSUME NEW min, NEW max, Bound(min), Bound(max),
           NEW less \in Nat, NEW more \in Nat, less <= more, max = None \/ more <= max
    PROVE  LET e == ExperienceFactor(less, min, max)
               f == ExperienceFactor(more, min, max) IN
           e.factor <= f.factor /\ (f.short => e.short)
<1> DEFINE e == ExperienceFactor(less, min, max)
           f == ExperienceFactor(more, min, max)
           a == AtMin(min, max)
<1>1. Percent \in Nat /\ One = 100 * Percent /\ None \notin Nat
      BY PrecisionFacts DEF None
<1>2. ~IsAbove(less, max) /\ ~IsAbove(more, max) /\ less # None /\ more # None
      BY <1>1 DEF IsAbove, Bound
<1>3. a \in Nat /\ a - 60 * Percent \in Nat /\ One - a \in Nat
      BY RampTypes
<1>4. CASE min = None /\ max = None
  <2>1. e = [factor |-> One, short |-> FALSE] /\ f = [factor |-> One, short |-> FALSE]
        BY <1>4, ExperienceCases
  <2>2. QED
        BY <1>1, <2>1
<1>5. CASE IsBelow(less, min)
  <2>1. e = [factor |-> a - Short(less, min, max), short |-> 2 * (min - less) >= min]
        BY <1>5, ExperienceCases
  <2>2. Short(less, min, max) \in 0 .. (a - 60 * Percent)
        BY <1>5, RampTypes
  <2>3. min \in Nat \ {0} /\ min # None /\ min - less \in Nat
        BY <1>5, <1>1 DEF IsBelow, Bound
  <2>4. CASE IsBelow(more, min)
    <3>1. f = [factor |-> a - Short(more, min, max), short |-> 2 * (min - more) >= min]
          BY <2>4, ExperienceCases
    <3>2. min - more \in Nat /\ min - more <= min - less
          BY <2>3, <2>4 DEF IsBelow
    <3>3. Short(more, min, max) <= Short(less, min, max)
      <4> DEFINE c == a - 60 * Percent
      <4>1. c \in Nat
            BY <1>3
      <4> HIDE DEF c
      <4>2. /\ c * (min - more) \in Nat /\ c * (min - less) \in Nat
            /\ c * (min - more) <= c * (min - less)
            BY <2>3, <3>2, <4>1, ProductGrows
      <4>3. (c * (min - more)) \div min <= (c * (min - less)) \div min
            BY <2>3, <4>2, DivGrows
      <4>4. QED
            BY <4>3 DEF Short, c
    <3>4. Short(more, min, max) \in 0 .. (a - 60 * Percent)
          BY <2>4, RampTypes
    <3>5. a - Short(less, min, max) <= a - Short(more, min, max)
      <4> HIDE DEF a
      <4>1. QED
            BY <1>1, <1>3, <2>2, <3>3, <3>4
    <3>6. 2 * (min - more) >= min => 2 * (min - less) >= min
          BY <2>3, <3>2
    <3>7. e.factor = a - Short(less, min, max) /\ f.factor = a - Short(more, min, max)
          BY <2>1, <3>1
    <3>8. e.short = (2 * (min - less) >= min) /\ f.short = (2 * (min - more) >= min)
          BY <2>1, <3>1
    <3> HIDE DEF a, e, f
    <3>9. e.factor <= f.factor
          BY <3>5, <3>7
    <3>10. f.short => e.short
          BY <3>6, <3>8
    <3>11. QED
          BY <3>9, <3>10 DEF e, f
  <2>5. CASE ~IsBelow(more, min)
    <3>1. f = [factor |-> IF Interval(min, max) THEN a + Within(more, min, max) ELSE One,
               short |-> FALSE]
          BY <1>2, <2>3, <2>5, ExperienceCases
    <3>2. Interval(min, max) => Within(more, min, max) \in 0 .. (One - a)
          BY <1>2, <2>5, RampTypes
    <3> HIDE DEF a
    <3>3. QED
          BY <1>1, <1>3, <2>1, <2>2, <3>1, <3>2
  <2>6. QED
        BY <2>4, <2>5
<1>6. CASE (min # None \/ max # None) /\ ~IsBelow(less, min)
  <2>1. ~IsBelow(more, min)
        BY <1>1, <1>2, <1>6 DEF IsBelow, Bound
  <2>2. /\ e = [factor |-> IF Interval(min, max) THEN a + Within(less, min, max) ELSE One,
                short |-> FALSE]
        /\ f = [factor |-> IF Interval(min, max) THEN a + Within(more, min, max) ELSE One,
                short |-> FALSE]
        BY <1>2, <1>6, <2>1, ExperienceCases
  <2>3. ASSUME Interval(min, max) PROVE Within(less, min, max) <= Within(more, min, max)
    <3> DEFINE c == One - a
    <3>1. c \in Nat
          BY <1>3
    <3>2. /\ less - min \in Nat /\ more - min \in Nat /\ less - min <= more - min
          /\ max - min \in Nat \ {0}
          BY <1>1, <1>2, <1>6, <2>3 DEF IsBelow, Bound, Interval
    <3> HIDE DEF c
    <3>3. /\ c * (less - min) \in Nat /\ c * (more - min) \in Nat
          /\ c * (less - min) <= c * (more - min)
          BY <3>1, <3>2, ProductGrows
    <3>4. (c * (less - min)) \div (max - min) <= (c * (more - min)) \div (max - min)
          BY <3>2, <3>3, DivGrows
    <3>5. QED
          BY <3>4 DEF Within, c
  <2>4. Interval(min, max) => /\ Within(less, min, max) \in 0 .. (One - a)
                              /\ Within(more, min, max) \in 0 .. (One - a)
        BY <1>2, <1>6, <2>1, RampTypes
  <2> HIDE DEF a
  <2>5. QED
        BY <1>1, <1>3, <2>2, <2>3, <2>4
<1>7. QED
      BY <1>4, <1>5, <1>6

------------------------------------------------------------------------------
(* Better lists of requirements.                                             *)

InCore(r) == r.kind \notin {"credential", "experience"}
Lost(r)   == r.kind = "credential" /\ r.status = "missing"
Earns(r)  == r.kind = "tool" /\ r.status = "met" /\ r.exact

\* High says no less for the candidate than low.  It may be out of the core where low is a
\* missing requirement of it.
NoWorse(high, low) ==
    /\ InCore(high) => InCore(low) /\ (high.status = "missing" => low.status = "missing")
    /\ InCore(low) /\ ~InCore(high) => low.status = "missing"
    /\ RequirementValue(low) <= RequirementValue(high)
    /\ high.status = "partial" => low.status # "met"
    /\ Lost(high) => Lost(low)
    /\ Earns(low) => Earns(high)

List(reqs) == IsFiniteSet(DOMAIN reqs) /\ \A n \in DOMAIN reqs : reqs[n] \in Requirement
NoWorseList(high, low) ==
    DOMAIN high = DOMAIN low /\ \A n \in DOMAIN low : NoWorse(high[n], low[n])

LEMMA CoreFacts ==
    ASSUME NEW high, NEW low, List(high), List(low), NoWorseList(high, low)
    PROVE  /\ IsFiniteSet(Core(high)) /\ IsFiniteSet(Core(low))
           /\ Core(high) \in SUBSET Core(low) /\ Core(low) \in SUBSET DOMAIN low
           /\ \A n \in Core(low) \ Core(high) : low[n].status = "missing"
<1>1. Core(high) \in SUBSET Core(low) /\ Core(low) \in SUBSET DOMAIN low
      BY DEF Core, NoWorseList, NoWorse, InCore
<1>2. IsFiniteSet(Core(high)) /\ IsFiniteSet(Core(low))
  <2>1. IsFiniteSet(Core(low))
        BY <1>1, FS_Subset DEF List
  <2>2. QED
        BY <1>1, <2>1, FS_Subset
<1>3. \A n \in Core(low) \ Core(high) : low[n].status = "missing"
      BY DEF Core, NoWorseList, NoWorse, InCore
<1>4. QED
      BY <1>1, <1>2, <1>3

LEMMA CoverageType ==
    ASSUME NEW reqs, NEW S, IsFiniteSet(S), S # {}, \A n \in S : reqs[n] \in Requirement
    PROVE  Coverage(reqs, S) \in Nat /\ Coverage(reqs, S) = Total(reqs, S) \div Cardinality(S)
<1>1. Coverage(reqs, S) = Total(reqs, S) \div Cardinality(S)
      BY DEF Coverage, Total
<1>2. Total(reqs, S) \in Nat /\ Cardinality(S) \in Nat \ {0}
      BY TotalType, FS_CardinalityType, FS_EmptySet
<1>3. QED
      BY <1>1, <1>2, DivGrows

\* The average over what is left of the core is no lower.
LEMMA CoverageGrows ==
    ASSUME NEW S, IsFiniteSet(S), NEW R \in SUBSET S, R # {}, NEW low, NEW high,
           \A n \in S : low[n] \in Requirement /\ high[n] \in Requirement,
           \A n \in R : RequirementValue(low[n]) <= RequirementValue(high[n]),
           \A n \in S \ R : RequirementValue(low[n]) = 0
    PROVE  Coverage(low, S) <= Coverage(high, R)
<1>1. S # {} /\ IsFiniteSet(R) /\ Cardinality(R) <= Cardinality(S)
      BY FS_Subset
<1>2. Cardinality(R) \in Nat \ {0} /\ Cardinality(S) \in Nat \ {0}
      BY <1>1, FS_CardinalityType, FS_EmptySet
<1>3. Total(low, S) \in Nat /\ Total(high, R) \in Nat
      BY <1>1, TotalType
<1>4. Total(low, S) <= Total(high, R)
      BY TotalGrows
<1>5. Total(low, S) \div Cardinality(S) <= Total(high, R) \div Cardinality(R)
      BY <1>1, <1>2, <1>3, <1>4, DivGrows
<1>6. QED
      BY <1>1, <1>5, CoverageType

\* An average of nothing but missing requirements.
LEMMA CoverageOfMissing ==
    ASSUME NEW S, IsFiniteSet(S), S # {}, NEW reqs, \A n \in S : reqs[n] \in Requirement,
           \A n \in S : RequirementValue(reqs[n]) = 0
    PROVE  Coverage(reqs, S) = 0
<1>1. Total(reqs, S) <= Total(reqs, {})
      BY TotalGrows
<1>2. Total(reqs, S) = 0
      BY <1>1, TotalEmpty, TotalType
<1>3. Cardinality(S) \in Nat \ {0}
      BY FS_CardinalityType, FS_EmptySet
<1>4. QED
      BY <1>2, <1>3, CoverageType

\* What is missing is worth nothing.
LEMMA MissingIsWorthless ==
    ASSUME NEW r, r.status = "missing"
    PROVE  RequirementValue(r) = 0
      BY DEF RequirementValue, SCORING_POLICY

LEMMA CoreCapGrows ==
    ASSUME NEW high, NEW low, List(high), List(low), NoWorseList(high, low)
    PROVE  CoreCap(low) <= CoreCap(high) /\ CoreCap(low) \in 0 .. 100 /\ CoreCap(high) \in 0 .. 100
<1> DEFINE Gone(m) == {n \in Core(m) : m[n].status = "missing"}
           Half(m) == {n \in Core(m) : m[n].status = "partial"}
<1>1. /\ IsFiniteSet(Gone(high)) /\ IsFiniteSet(Gone(low))
      /\ IsFiniteSet(Half(high)) /\ IsFiniteSet(Half(low))
      BY CoreFacts, FS_Subset
<1>2. Gone(high) \in SUBSET Gone(low)
  <2>1. SUFFICES ASSUME NEW n \in Gone(high) PROVE n \in Gone(low)
        OBVIOUS
  <2>2. n \in Core(low) /\ n \in Core(high) /\ high[n].status = "missing"
        BY CoreFacts
  <2>3. QED
        BY <2>2 DEF Core, NoWorseList, NoWorse, InCore
<1>3. Gone(low) = {} => Half(high) \in SUBSET Half(low)
  <2>1. SUFFICES ASSUME Gone(low) = {}, NEW n \in Half(high) PROVE n \in Half(low)
        OBVIOUS
  <2>2. n \in Core(low) /\ n \in Core(high) /\ high[n].status = "partial"
        BY CoreFacts
  <2>3. low[n].status # "missing" /\ low[n] \in Requirement /\ low[n].status # "met"
        BY <2>1, <2>2, CoreFacts DEF List, NoWorseList, NoWorse
  <2>4. QED
        BY <2>2, <2>3 DEF Requirement
<1> DEFINE g1 == Cardinality(Gone(low))  g2 == Cardinality(Gone(high))
           h1 == Cardinality(Half(low))  h2 == Cardinality(Half(high))
<1>4. g1 \in Nat /\ g2 \in Nat /\ h1 \in Nat /\ h2 \in Nat /\ g2 <= g1
      BY <1>1, <1>2, FS_CardinalityType, FS_Subset
<1>5. g1 = 0 => h2 <= h1
      BY <1>1, <1>3, FS_Subset, FS_EmptySet
<1> DEFINE cap(g, h) == CASE g >= 2 -> 45 [] g = 1 -> 60
                          [] g = 0 /\ h >= 2 -> 78 [] g = 0 /\ h = 1 -> 88 [] OTHER -> 100
<1>6. CoreCap(low) = cap(g1, h1) /\ CoreCap(high) = cap(g2, h2)
      BY DEF CoreCap, Count, SCORING_POLICY
<1> HIDE DEF g1, g2, h1, h2
<1>7. QED
      BY <1>4, <1>5, <1>6

LEMMA AdjustmentGrows ==
    ASSUME NEW high, NEW low, List(high), List(low), NoWorseList(high, low)
    PROVE  Adjustment(low) <= Adjustment(high) /\ Adjustment(low) \in Int /\ Adjustment(high) \in Int
<1> DEFINE Lacks(m)  == {n \in DOMAIN m : m[n].kind = "credential" /\ m[n].status = "missing"}
           Bonus(m) == {n \in DOMAIN m : /\ m[n].kind = "tool"
                                         /\ m[n].status = "met"
                                         /\ m[n].exact}
<1>1. Lacks(high) \in SUBSET Lacks(low) /\ Bonus(low) \in SUBSET Bonus(high)
      BY DEF NoWorseList, NoWorse, Lost, Earns
<1>2. /\ IsFiniteSet(Lacks(high)) /\ IsFiniteSet(Lacks(low))
      /\ IsFiniteSet(Bonus(high)) /\ IsFiniteSet(Bonus(low))
      BY FS_Subset DEF List
<1> DEFINE l1 == Cardinality(Lacks(low))  l2 == Cardinality(Lacks(high))
           b1 == Cardinality(Bonus(low))  b2 == Cardinality(Bonus(high))
<1>3. l1 \in Nat /\ l2 \in Nat /\ b1 \in Nat /\ b2 \in Nat /\ l2 <= l1 /\ b1 <= b2
      BY <1>1, <1>2, FS_CardinalityType, FS_Subset
<1>4. /\ Adjustment(low) = Least(5, 3 * b1) - Least(10, 5 * l1)
      /\ Adjustment(high) = Least(5, 3 * b2) - Least(10, 5 * l2)
      BY DEF Adjustment, Count, SCORING_POLICY
<1> HIDE DEF l1, l2, b1, b2
<1>5. QED
      BY <1>3, <1>4 DEF Least

------------------------------------------------------------------------------
(* Better evaluations.                                                       *)

Lists(ev) == /\ List(ev.must) /\ List(ev.nice)
             /\ ev.relevance \in 0 .. 100 * Grain
             /\ ev.informative \in BOOLEAN
             /\ ev.years = None \/ ev.years \in Nat

\* More years are better up to the maximum of the job.
BetterYears(more, less, max) ==
    \/ more = less
    \/ more \in Nat /\ less \in Nat /\ less <= more /\ (max = None \/ more <= max)

\* High is the better evaluation in every respect, or the same.
Better(high, low, max) ==
    /\ NoWorseList(high.must, low.must)
    /\ NoWorseList(high.nice, low.nice)
    /\ low.relevance <= high.relevance
    /\ low.informative => high.informative
    /\ BetterYears(high.years, low.years, max)

CoreShare(ev) == IF Core(ev.must) = {} THEN ev.relevance * Point
                                       ELSE Coverage(ev.must, Core(ev.must))
NiceShare(ev) == IF DOMAIN ev.nice = {} THEN 0 ELSE Coverage(ev.nice, DOMAIN ev.nice)

LEMMA RelevanceGrows ==
    ASSUME NEW high, NEW low, NEW max, Lists(high), Lists(low), Better(high, low, max)
    PROVE  /\ low.relevance * Point \in Nat /\ high.relevance * Point \in Nat
           /\ low.relevance * Point <= high.relevance * Point
<1>1. low.relevance \in Nat /\ high.relevance \in Nat /\ low.relevance <= high.relevance
  BY PrecisionFacts DEF Lists, Better
<1>2. Point \in Nat
  BY PrecisionFacts
<1>3. low.relevance * Point <= high.relevance * Point
  BY <1>1, <1>2, ProductGrows
<1> QED
  BY <1>1, <1>2, <1>3

\* The core's share is no lower, also when what leaves the core was all there was of it.
LEMMA CoreShareGrows ==
    ASSUME NEW high, NEW low, NEW max, Lists(high), Lists(low), Better(high, low, max)
    PROVE  /\ CoreShare(low) \in Nat /\ CoreShare(high) \in Nat
           /\ CoreShare(low) <= CoreShare(high)
<1> DEFINE S == Core(low.must)
           R == Core(high.must)
<1>1. /\ IsFiniteSet(S) /\ IsFiniteSet(R) /\ R \in SUBSET S
      /\ S \in SUBSET DOMAIN low.must /\ S \in SUBSET DOMAIN high.must
      /\ \A n \in S \ R : low.must[n].status = "missing"
  <2>1. NoWorseList(high.must, low.must) /\ List(high.must) /\ List(low.must)
    BY DEF Better, Lists
  <2> QED
    BY <2>1, CoreFacts DEF NoWorseList
<1>2. \A n \in S : low.must[n] \in Requirement /\ high.must[n] \in Requirement
  BY <1>1 DEF Lists, List
<1>3. \A n \in R : RequirementValue(low.must[n]) <= RequirementValue(high.must[n])
  BY <1>1 DEF Better, NoWorseList, NoWorse
<1>4. \A n \in S \ R : RequirementValue(low.must[n]) = 0
  BY <1>1, MissingIsWorthless
<1>5. /\ low.relevance * Point \in Nat /\ high.relevance * Point \in Nat
      /\ low.relevance * Point <= high.relevance * Point
  BY RelevanceGrows
<1>6. CASE S = {}
  <2>1. R = {}
    BY <1>1, <1>6
  <2> QED
    BY <1>5, <1>6, <2>1 DEF CoreShare
<1>7. CASE S # {} /\ R = {}
  <2>1. Coverage(low.must, S) = 0
    BY <1>1, <1>2, <1>4, <1>7, CoverageOfMissing
  <2>2. CoreShare(low) = 0 /\ CoreShare(high) = high.relevance * Point
    BY <1>7, <2>1 DEF CoreShare
  <2> QED
    BY <1>5, <2>2
<1>8. CASE S # {} /\ R # {}
  <2>1. Coverage(low.must, S) \in Nat /\ Coverage(high.must, R) \in Nat
    BY <1>1, <1>2, <1>8, CoverageType
  <2>2. Coverage(low.must, S) <= Coverage(high.must, R)
    BY <1>1, <1>2, <1>3, <1>4, <1>8, CoverageGrows
  <2> QED
    BY <1>8, <2>1, <2>2 DEF CoreShare
<1> QED
  BY <1>1, <1>6, <1>7, <1>8

LEMMA NiceShareGrows ==
    ASSUME NEW high, NEW low, NEW max, Lists(high), Lists(low), Better(high, low, max)
    PROVE  /\ NiceShare(low) \in Nat /\ NiceShare(high) \in Nat
           /\ NiceShare(low) <= NiceShare(high)
<1> DEFINE S == DOMAIN low.nice
<1>1. DOMAIN high.nice = S /\ IsFiniteSet(S)
  BY DEF Better, NoWorseList, Lists, List
<1>2. \A n \in S : low.nice[n] \in Requirement /\ high.nice[n] \in Requirement
  BY <1>1 DEF Lists, List
<1>3. \A n \in S : RequirementValue(low.nice[n]) <= RequirementValue(high.nice[n])
  BY DEF Better, NoWorseList, NoWorse
<1>4. CASE S = {}
  BY <1>1, <1>4 DEF NiceShare
<1>5. CASE S # {}
  <2>1. Coverage(low.nice, S) \in Nat /\ Coverage(high.nice, S) \in Nat
    BY <1>1, <1>2, <1>5, CoverageType
  <2>2. Coverage(low.nice, S) <= Coverage(high.nice, S)
    BY <1>1, <1>2, <1>3, <1>5, CoverageGrows
  <2> QED
    BY <1>1, <1>5, <2>1, <2>2 DEF NiceShare
<1> QED
  BY <1>4, <1>5

LEMMA RawGrows ==
    ASSUME NEW high, NEW low, NEW max, Lists(high), Lists(low), Better(high, low, max),
           NEW f \in Nat, NEW g \in Nat, f <= g
    PROVE  /\ RawScore(low, f) \in Nat /\ RawScore(high, g) \in Nat
           /\ RawScore(low, f) <= RawScore(high, g)
<1> DEFINE rl == low.relevance * Point   rh == high.relevance * Point
           cl == CoreShare(low)            ch == CoreShare(high)
           nl == NiceShare(low)            nh == NiceShare(high)
<1>1. rl \in Nat /\ rh \in Nat /\ rl <= rh
  BY RelevanceGrows
<1>2. cl \in Nat /\ ch \in Nat /\ cl <= ch
  BY CoreShareGrows
<1>3. nl \in Nat /\ nh \in Nat /\ nl <= nh
  BY NiceShareGrows
<1>4. DOMAIN high.nice = DOMAIN low.nice
  BY DEF Better, NoWorseList
<1>5. CASE DOMAIN low.nice = {}
  <2> DEFINE a == 65 * cl + 0 * nl + 35 * rl
             b == 65 * ch + 0 * nh + 35 * rh
  <2>1. RawScore(low, f) = f * a
    BY <1>5 DEF RawScore, CoreShare, NiceShare, SCORING_POLICY
  <2>2. RawScore(high, g) = g * b
    BY <1>4, <1>5 DEF RawScore, CoreShare, NiceShare, SCORING_POLICY
  <2> HIDE DEF rl, rh, cl, ch, nl, nh
  <2>3. a \in Nat /\ b \in Nat /\ a <= b
    BY <1>1, <1>2, <1>3
  <2> HIDE DEF a, b
  <2>4. f * a \in Nat /\ g * b \in Nat
    BY <2>3
  <2>5. f * a <= g * b
    BY <2>3, ProductGrows
  <2> QED
    BY <2>1, <2>2, <2>4, <2>5
<1>6. CASE DOMAIN low.nice # {}
  <2> DEFINE a == 55 * cl + 15 * nl + 30 * rl
             b == 55 * ch + 15 * nh + 30 * rh
  <2>1. RawScore(low, f) = f * a
    BY <1>6 DEF RawScore, CoreShare, NiceShare, SCORING_POLICY
  <2>2. RawScore(high, g) = g * b
    BY <1>4, <1>6 DEF RawScore, CoreShare, NiceShare, SCORING_POLICY
  <2> HIDE DEF rl, rh, cl, ch, nl, nh
  <2>3. a \in Nat /\ b \in Nat /\ a <= b
    BY <1>1, <1>2, <1>3
  <2> HIDE DEF a, b
  <2>4. f * a \in Nat /\ g * b \in Nat
    BY <2>3
  <2>5. f * a <= g * b
    BY <2>3, ProductGrows
  <2> QED
    BY <2>1, <2>2, <2>4, <2>5
<1> QED
  BY <1>5, <1>6

\* Min() of a set of numbers that has a least one.
LEMMA MinFacts ==
    ASSUME NEW S, S \subseteq Nat, S # {}
    PROVE  Min(S) \in S /\ \A n \in S : Min(S) <= n
<1>1. \E k \in S : \A i \in S : k <= i
  BY LeastNumber
<1> QED
  BY <1>1 DEF Min

LEMMA CapGrows ==
    ASSUME NEW high, NEW low, NEW max, Lists(high), Lists(low), Better(high, low, max),
           NEW s \in BOOLEAN, NEW t \in BOOLEAN, t => s
    PROVE  Cap(low, s) \in 0 .. 100 /\ Cap(high, t) \in 0 .. 100 /\ Cap(low, s) <= Cap(high, t)
<1> DEFINE Caps(ev, short) ==
             {CoreCap(ev.must)} \cup (IF ev.relevance < 40 * Grain THEN {30} ELSE {})
             \cup (IF ev.informative THEN {} ELSE {50}) \cup (IF short THEN {45} ELSE {})
<1>1. Cap(low, s) = Min(Caps(low, s)) /\ Cap(high, t) = Min(Caps(high, t))
  BY DEF Cap, SCORING_POLICY
<1>2. /\ CoreCap(low.must) <= CoreCap(high.must)
      /\ CoreCap(low.must) \in 0 .. 100 /\ CoreCap(high.must) \in 0 .. 100
  <2>1. NoWorseList(high.must, low.must) /\ List(high.must) /\ List(low.must)
    BY DEF Better, Lists
  <2> QED
    BY <2>1, CoreCapGrows
<1>3. /\ Caps(low, s) \subseteq 0 .. 100 /\ Caps(low, s) # {}
      /\ Caps(high, t) \subseteq 0 .. 100 /\ Caps(high, t) # {}
  BY <1>2
<1>4. \A x \in Caps(high, t) : \E y \in Caps(low, s) : y <= x
  <2>1. high.relevance < 40 * Grain => low.relevance < 40 * Grain
    BY PrecisionFacts DEF Better, Lists
  <2>2. low.informative => high.informative
    BY DEF Better
  <2> QED
    BY <1>2, <2>1, <2>2
<1> HIDE DEF Caps
<1>5. /\ Min(Caps(low, s)) \in Caps(low, s) /\ \A n \in Caps(low, s) : Min(Caps(low, s)) <= n
      /\ Min(Caps(high, t)) \in Caps(high, t)
  BY <1>3, MinFacts
<1>6. PICK y \in Caps(low, s) : y <= Min(Caps(high, t))
  BY <1>4, <1>5
<1>7. Min(Caps(low, s)) <= y
  BY <1>5, <1>6
<1> QED
  BY <1>1, <1>3, <1>5, <1>6, <1>7

\* Math.round() of the clamped score.
LEMMA RoundedGrows ==
    ASSUME NEW x \in Int, NEW y \in Int, x <= y
    PROVE  Rounded(x) \in 0 .. 100 /\ Rounded(y) \in 0 .. 100 /\ Rounded(x) <= Rounded(y)
<1> DEFINE half == Unit \div 2
           clamp(z) == Least(100 * Unit, Greatest(0, z))
<1>1. Unit \in Nat \ {0}
  BY PrecisionFacts
<1>2. half \in Nat /\ half < Unit
  BY <1>1
<1>3. /\ clamp(x) \in Nat /\ clamp(y) \in Nat
      /\ clamp(x) <= clamp(y) /\ clamp(y) <= 100 * Unit
  BY <1>1 DEF Least, Greatest
<1> HIDE DEF half, clamp
<1>4. /\ clamp(x) + half \in Nat /\ clamp(y) + half \in Nat
      /\ clamp(x) + half <= clamp(y) + half /\ clamp(y) + half < 101 * Unit
  BY <1>1, <1>2, <1>3
<1>5. /\ (clamp(x) + half) \div Unit \in Nat /\ (clamp(y) + half) \div Unit \in Nat
      /\ (clamp(x) + half) \div Unit <= (clamp(y) + half) \div Unit
  BY <1>1, <1>4, DivGrows
<1>6. (clamp(y) + half) \div Unit <= 100
  <2> DEFINE q == (clamp(y) + half) \div Unit
  <2>1. q \in Nat /\ Unit * q <= clamp(y) + half
    BY <1>1, <1>4, <1>5, DivFacts
  <2> HIDE DEF q
  <2>2. SUFFICES ASSUME q >= 101 PROVE FALSE
    BY <2>1 DEF q
  <2>3. Unit * 101 <= Unit * q
    BY <1>1, <2>1, <2>2, ProductGrows
  <2> QED
    BY <1>1, <1>4, <2>1, <2>3
<1> QED
  BY <1>5, <1>6 DEF Rounded, clamp, half

\* The better evaluation scores no lower.
LEMMA ScoreGrows ==
    ASSUME NEW high, NEW low, NEW min, NEW max, Bound(min), Bound(max),
           Lists(high), Lists(low), Better(high, low, max)
    PROVE  /\ ComputeScore(low, min, max) \in 0 .. 100
           /\ ComputeScore(high, min, max) \in 0 .. 100
           /\ ComputeScore(low, min, max) <= ComputeScore(high, min, max)
<1> DEFINE e == ExperienceFactor(low.years, min, max)
           f == ExperienceFactor(high.years, min, max)
           score(ev, x) == RawScore(ev, x.factor) + Adjustment(ev.must) * Unit
           capped(ev, x) == Least(score(ev, x), Cap(ev, x.short) * Unit)
<1>1. e.factor \in Nat /\ e.short \in BOOLEAN /\ f.factor \in Nat /\ f.short \in BOOLEAN
  BY ExperienceType DEF Lists
<1>2. e.factor <= f.factor /\ (f.short => e.short)
  <2>1. CASE high.years = low.years
    BY <1>1, <2>1
  <2>2. CASE high.years # low.years
    <3>1. /\ high.years \in Nat /\ low.years \in Nat /\ low.years <= high.years
          /\ max = None \/ high.years <= max
      BY <2>2 DEF Better, BetterYears
    <3> QED
      BY <3>1, ExperienceGrows
  <2> QED
    BY <2>1, <2>2
<1> HIDE DEF e, f
<1>3. Unit \in Nat \ {0}
  BY PrecisionFacts
<1>4. /\ RawScore(low, e.factor) \in Nat /\ RawScore(high, f.factor) \in Nat
      /\ RawScore(low, e.factor) <= RawScore(high, f.factor)
  BY <1>1, <1>2, RawGrows
<1>5. /\ Adjustment(low.must) <= Adjustment(high.must)
      /\ Adjustment(low.must) \in Int /\ Adjustment(high.must) \in Int
  <2>1. NoWorseList(high.must, low.must) /\ List(high.must) /\ List(low.must)
    BY DEF Better, Lists
  <2> QED
    BY <2>1, AdjustmentGrows
<1>6. /\ Cap(low, e.short) \in 0 .. 100 /\ Cap(high, f.short) \in 0 .. 100
      /\ Cap(low, e.short) <= Cap(high, f.short)
  BY <1>1, <1>2, CapGrows
<1>7. /\ Adjustment(low.must) * Unit \in Int /\ Adjustment(high.must) * Unit \in Int
      /\ Adjustment(low.must) * Unit <= Adjustment(high.must) * Unit
  <2>1. ASSUME NEW a \in Int, NEW b \in Int, NEW u \in Nat \ {0}, a <= b
        PROVE  a * u \in Int /\ b * u \in Int /\ a * u <= b * u
    BY <2>1
  <2> QED
    BY <1>3, <1>5, <2>1
<1>8. /\ Cap(low, e.short) * Unit \in Int /\ Cap(high, f.short) * Unit \in Int
      /\ Cap(low, e.short) * Unit <= Cap(high, f.short) * Unit
  BY <1>3, <1>6, ProductGrows
<1>9. /\ capped(low, e) \in Int /\ capped(high, f) \in Int
      /\ capped(low, e) <= capped(high, f)
  BY <1>4, <1>7, <1>8 DEF Least
<1>10. /\ ComputeScore(low, min, max) = Rounded(capped(low, e))
       /\ ComputeScore(high, min, max) = Rounded(capped(high, f))
  BY DEF ComputeScore, e, f
<1> QED
  BY <1>9, <1>10, RoundedGrows
------------------------------------------------------------------------------
(* completeEvaluation()                                                      *)

Audit       == [name : DOMAIN Normal, entry : Requirement]
Named(list) == {Normal[list[i].name] : i \in DOMAIN list}
IsFirst(list, n, i) ==
    /\ i \in DOMAIN list
    /\ Normal[list[i].name] = n
    /\ \A j \in DOMAIN list : Normal[list[j].name] = n => i <= j

LEMMA AuditsFacts ==
    ASSUME NEW list \in Audits
    PROVE  /\ list \in Seq(Audit) /\ Len(list) \in Nat /\ DOMAIN list = 1 .. Len(list)
           /\ \A i \in DOMAIN list : list[i] \in Audit /\ list[i].entry \in Requirement
<1>1. list \in Seq(Audit)
  BY DEF Audits, Audit
<1> HIDE DEF Audit
<1>2. Len(list) \in Nat /\ DOMAIN list = 1 .. Len(list) /\ \A i \in DOMAIN list : list[i] \in Audit
  BY <1>1
<1> QED
  BY <1>1, <1>2 DEF Audit

LEMMA NamedFinite ==
    ASSUME NEW list \in Audits
    PROVE  IsFiniteSet(Named(list))
<1> DEFINE f == [i \in 1 .. Len(list) |-> Normal[list[i].name]]
<1>1. DOMAIN list = 1 .. Len(list) /\ Len(list) \in Nat
  BY DEF Audits
<1>2. IsFiniteSet(1 .. Len(list))
  BY <1>1, FS_Interval
<1>3. f \in Surjection(1 .. Len(list), Named(list))
  BY <1>1 DEF Surjection, Named
<1> QED
  BY <1>2, <1>3, FS_Surjection

\* Every name has a first entry.
LEMMA FirstExists ==
    ASSUME NEW list \in Audits, NEW n \in Named(list)
    PROVE  \E i : IsFirst(list, n, i)
<1> DEFINE B == {i \in DOMAIN list : Normal[list[i].name] = n}
<1>1. DOMAIN list \subseteq Nat
  BY DEF Audits
<1>2. B \subseteq Nat /\ B # {}
  BY <1>1 DEF Named
<1>3. PICK k \in B : \A i \in B : k <= i
  BY <1>2, LeastNumber
<1> QED
  BY <1>3 DEF IsFirst

LEMMA AbsentType == Absent \in Requirement
  BY DEF Absent, Requirement

\* The entry for a name is the first one about it, or an absent one.
LEMMA CompletedFacts ==
    ASSUME NEW list \in Audits, NEW expected, IsFiniteSet(expected)
    PROVE  LET c == Completed(list, expected) IN
           /\ DOMAIN c = Named(list) \cup expected
           /\ \A n, i : IsFirst(list, n, i) => c[n] = list[i].entry
           /\ \A n \in expected \ Named(list) : c[n] = Absent
           /\ List(c)
<1> DEFINE c == Completed(list, expected)
           First(n) == CHOOSE i \in DOMAIN list :
                           /\ Normal[list[i].name] = n
                           /\ \A j \in DOMAIN list : Normal[list[j].name] = n => i <= j
<1>1. c = [n \in Named(list) \cup expected |->
               IF n \in Named(list) THEN list[First(n)].entry ELSE Absent]
  BY DEF Completed, Named
<1>2. ASSUME NEW n, NEW i, IsFirst(list, n, i) PROVE n \in Named(list) /\ First(n) = i
  <2>1. n \in Named(list)
    BY <1>2 DEF IsFirst, Named
  <2>2. /\ First(n) \in DOMAIN list /\ Normal[list[First(n)].name] = n
        /\ \A j \in DOMAIN list : Normal[list[j].name] = n => First(n) <= j
    BY <1>2 DEF IsFirst
  <2> HIDE DEF First
  <2>3. First(n) <= i /\ i <= First(n)
    BY <1>2, <2>2 DEF IsFirst
  <2>4. First(n) \in Int /\ i \in Int
    BY <1>2, <2>2 DEF IsFirst, Audits
  <2> QED
    BY <2>1, <2>3, <2>4
<1> HIDE DEF First
<1>3. \A n, i : IsFirst(list, n, i) => c[n] = list[i].entry
  <2> SUFFICES ASSUME NEW n, NEW i, IsFirst(list, n, i) PROVE c[n] = list[i].entry
    OBVIOUS
  <2>1. n \in Named(list) /\ First(n) = i
    BY <1>2
  <2> QED
    BY <1>1, <2>1
<1>4. \A n \in expected \ Named(list) : c[n] = Absent
  BY <1>1
<1>5. IsFiniteSet(DOMAIN c)
  BY <1>1, NamedFinite, FS_Union
<1>6. ASSUME NEW n \in DOMAIN c PROVE c[n] \in Requirement
  <2>1. CASE n \in Named(list)
    <3>1. PICK i : IsFirst(list, n, i)
      BY <2>1, FirstExists
    <3>2. c[n] = list[i].entry
      BY <1>3, <3>1
    <3>3. list[i].entry \in Requirement
      BY <3>1, AuditsFacts DEF IsFirst
    <3> QED
      BY <3>2, <3>3
  <2>2. CASE n \notin Named(list)
    BY <1>1, <1>4, <2>2, AbsentType
  <2> QED
    BY <2>1, <2>2
<1> QED
  BY <1>1, <1>3, <1>4, <1>5, <1>6 DEF List

LEMMA NoWorseReflexive == ASSUME NEW r \in Requirement PROVE NoWorse(r, r)
<1>1. RequirementValue(r) \in Int
  BY ValueType, PrecisionAssumption
<1> QED
  BY <1>1 DEF NoWorse

\* Whatever is said of a requirement is no worse than its absence, unless it is that a
\* credential is missing.
LEMMA NoWorseThanAbsent ==
    ASSUME NEW r \in Requirement, ~Lost(r)
    PROVE  NoWorse(r, Absent)
<1>1. RequirementValue(Absent) = 0
  BY MissingIsWorthless DEF Absent
<1>2. RequirementValue(r) \in Int /\ RequirementValue(r) >= 0
  BY ValueType, PrecisionAssumption
<1>3. /\ Absent.kind = "other" /\ Absent.status = "missing"
  BY DEF Absent
<1> QED
  BY <1>1, <1>2, <1>3 DEF NoWorse, Lost, Earns, InCore

LEMMA BetterEntry ==
    ASSUME NEW r \in Requirement, NEW e \in BetterEntries(r)
    PROVE  e \in Requirement /\ NoWorse(e, r)
<1>1. \/ r.status = "missing" /\ e = [r EXCEPT !.status = "partial"]
      \/ r.status = "partial" /\ e = [r EXCEPT !.status = "met"]
      \/ e = [r EXCEPT !.strength = "demonstrated"]
      \/ e = [r EXCEPT !.exact = TRUE]
  BY DEF BetterEntries
<1>2. e \in Requirement
  BY <1>1 DEF Requirement
<1>3. One \in Nat /\ (3 * One) \div 4 \in Nat /\ One \div 2 \in Nat
      /\ (3 * One) \div 4 <= One /\ One \div 2 <= (3 * One) \div 4
  BY PrecisionAssumption
<1>4. RequirementValue(r) <= RequirementValue(e)
  BY <1>1, <1>2, <1>3 DEF RequirementValue, SCORING_POLICY, Requirement
<1>5. /\ e.kind = r.kind
      /\ \/ r.status = "missing" /\ e.status = "partial" /\ e.exact = r.exact
         \/ r.status = "partial" /\ e.status = "met" /\ e.exact = r.exact
         \/ e.status = r.status /\ (r.exact => e.exact)
  BY <1>1 DEF Requirement
<1> QED
  BY <1>2, <1>4, <1>5 DEF NoWorse, InCore, Lost, Earns

\* A list with a better entry in one place.
LEMMA BetterList ==
    ASSUME NEW list \in Audits, NEW expected, IsFiniteSet(expected), NEW l \in BetterLists(list)
    PROVE  /\ l \in Audits
           /\ NoWorseList(Completed(l, expected), Completed(list, expected))
<1>0. PICK k \in DOMAIN list : l \in {[list EXCEPT ![k].entry = e] : e \in BetterEntries(list[k].entry)}
  BY DEF BetterLists
<1>1. PICK e \in BetterEntries(list[k].entry) : l = [list EXCEPT ![k].entry = e]
  BY <1>0
<1>2. \A i \in DOMAIN list : list[i] \in Audit
  BY AuditsFacts
<1>3. e \in Requirement /\ NoWorse(e, list[k].entry)
  BY <1>1, <1>2, BetterEntry DEF Audit
<1>4. l = [list EXCEPT ![k] = [list[k] EXCEPT !.entry = e]]
  BY <1>1
<1>5. /\ DOMAIN l = DOMAIN list
      /\ \A i \in DOMAIN list :
             /\ l[i] \in Audit
             /\ l[i].name = list[i].name
             /\ NoWorse(l[i].entry, list[i].entry)
  BY <1>2, <1>3, <1>4, NoWorseReflexive DEF Audit
<1>6. l \in Audits
  <2>1. list \in Seq(Audit)
    BY DEF Audits, Audit
  <2>2. [list[k] EXCEPT !.entry = e] \in Audit
    BY <1>2, <1>3 DEF Audit
  <2> QED
    BY <1>4, <2>1, <2>2 DEF Audits, Audit
<1>7. Named(l) = Named(list)
  BY <1>5 DEF Named
<1>8. ASSUME NEW n, NEW i PROVE IsFirst(l, n, i) <=> IsFirst(list, n, i)
  BY <1>5 DEF IsFirst
<1> DEFINE high == Completed(l, expected)
           low  == Completed(list, expected)
<1>9. /\ DOMAIN low = Named(list) \cup expected
      /\ \A n, i : IsFirst(list, n, i) => low[n] = list[i].entry
      /\ \A n \in expected \ Named(list) : low[n] = Absent
  BY CompletedFacts
<1>10. /\ DOMAIN high = Named(list) \cup expected
       /\ \A n, i : IsFirst(list, n, i) => high[n] = l[i].entry
       /\ \A n \in expected \ Named(list) : high[n] = Absent
  <2>1. /\ DOMAIN high = Named(l) \cup expected
        /\ \A n, i : IsFirst(l, n, i) => high[n] = l[i].entry
        /\ \A n \in expected \ Named(l) : high[n] = Absent
    BY <1>6, CompletedFacts
  <2> HIDE DEF high
  <2> QED
    BY <1>7, <1>8, <2>1
<1> HIDE DEF high, low
<1>11. ASSUME NEW n \in DOMAIN low PROVE NoWorse(high[n], low[n])
  <2>1. CASE n \in Named(list)
    <3>1. PICK i : IsFirst(list, n, i)
      BY <2>1, FirstExists
    <3>2. i \in DOMAIN list
      BY <3>1 DEF IsFirst
    <3> QED
      BY <1>5, <1>9, <1>10, <3>1, <3>2
  <2>2. CASE n \notin Named(list)
    BY <1>9, <1>10, <1>11, <2>2, AbsentType, NoWorseReflexive
  <2> QED
    BY <2>1, <2>2
<1> QED
  BY <1>6, <1>9, <1>10, <1>11 DEF NoWorseList, high, low

\* A list without its only entry for a requirement of the job.
LEMMA ShorterList ==
    ASSUME NEW list \in Audits, NEW expected, IsFiniteSet(expected),
           NEW l \in ShorterLists(list, expected)
    PROVE  /\ l \in Audits
           /\ NoWorseList(Completed(list, expected), Completed(l, expected))
<1>1. PICK k \in DOMAIN list :
          /\ l = RemoveAt(list, k)
          /\ Normal[list[k].name] \in expected
          /\ \A m \in DOMAIN list \ {k} : Normal[list[m].name] # Normal[list[k].name]
          /\ ~(list[k].entry.kind = "credential" /\ list[k].entry.status = "missing")
  BY DEF ShorterLists
<1> DEFINE x == Normal[list[k].name]
           from(j) == IF j < k THEN j ELSE j + 1
<1>2. /\ list \in Seq(Audit) /\ Len(list) \in Nat
      /\ DOMAIN list = 1 .. Len(list) /\ k \in 1 .. Len(list)
      /\ \A i \in 1 .. Len(list) : list[i] \in Audit
  BY AuditsFacts
<1>3. /\ l \in Seq(Audit) /\ Len(l) = Len(list) - 1
      /\ \A j \in 1 .. Len(list) - 1 : l[j] = list[from(j)]
  <2> DEFINE a == SubSeq(list, 1, k - 1)
             b == SubSeq(list, k + 1, Len(list))
  <2>1. l = a \o b
    BY <1>1 DEF RemoveAt
  <2>2. /\ a \in Seq(Audit) /\ Len(a) = k - 1 /\ \A i \in 1 .. k - 1 : a[i] = list[i]
    <3>1. \A i \in 1 .. k - 1 : list[i] \in Audit
      BY <1>2
    <3>2. 1 \in Int /\ k - 1 \in Int
      BY <1>2
    <3>3. /\ a \in Seq(Audit) /\ Len(a) = IF 1 <= k - 1 THEN k - 1 - 1 + 1 ELSE 0
          /\ \A i \in 1 .. k - 1 - 1 + 1 : a[i] = list[1 + i - 1]
      BY <3>1, <3>2, SubSeqProperties
    <3> HIDE DEF a
    <3> QED
      BY <1>2, <3>3
  <2>3. /\ b \in Seq(Audit) /\ Len(b) = Len(list) - k
        /\ \A i \in 1 .. Len(list) - k : b[i] = list[k + i]
    <3>1. \A i \in k + 1 .. Len(list) : list[i] \in Audit
      BY <1>2
    <3>2. k + 1 \in Int /\ Len(list) \in Int
      BY <1>2
    <3>3. /\ b \in Seq(Audit)
          /\ Len(b) = IF k + 1 <= Len(list) THEN Len(list) - (k + 1) + 1 ELSE 0
          /\ \A i \in 1 .. Len(list) - (k + 1) + 1 : b[i] = list[k + 1 + i - 1]
      BY <3>1, <3>2, SubSeqProperties
    <3> HIDE DEF b
    <3>4. /\ Len(list) - (k + 1) + 1 = Len(list) - k
          /\ \A i \in 1 .. Len(list) - k : k + 1 + i - 1 = k + i
      BY <1>2
    <3>5. Len(b) = Len(list) - k
      BY <1>2, <3>3, <3>4
    <3> QED
      BY <3>3, <3>4, <3>5
  <2> HIDE DEF a, b
  <2>4. /\ l \in Seq(Audit) /\ Len(l) = Len(a) + Len(b)
        /\ \A i \in 1 .. Len(a) + Len(b) : l[i] = IF i <= Len(a) THEN a[i] ELSE b[i - Len(a)]
    BY <2>1, <2>2, <2>3, ConcatProperties
  <2>5. ASSUME NEW j \in 1 .. Len(list) - 1 PROVE l[j] = list[from(j)]
    <3>1. CASE j < k
      BY <1>2, <2>2, <2>3, <2>4, <3>1
    <3>2. CASE ~(j < k)
      <4>1. l[j] = b[j - (k - 1)]
        BY <1>2, <2>2, <2>3, <2>4, <3>2
      <4>2. j - (k - 1) \in 1 .. Len(list) - k
        BY <1>2, <3>2
      <4>3. b[j - (k - 1)] = list[k + (j - (k - 1))]
        BY <2>3, <4>2
      <4> QED
        BY <1>2, <3>2, <4>1, <4>3
    <3> QED
      BY <3>1, <3>2
  <2> QED
    BY <1>2, <2>2, <2>3, <2>4, <2>5
<1>4. l \in Audits /\ DOMAIN l = 1 .. Len(list) - 1
  BY <1>2, <1>3 DEF Audits, Audit
<1>5. ASSUME NEW i \in DOMAIN list, i # k
      PROVE  \E j \in DOMAIN l : from(j) = i /\ l[j] = list[i]
  <2> DEFINE j == IF i < k THEN i ELSE i - 1
  <2>1. j \in DOMAIN l /\ from(j) = i
    BY <1>2, <1>4, <1>5
  <2> QED
    BY <1>3, <1>4, <2>1
<1>6. \A j \in DOMAIN l : from(j) \in DOMAIN list \ {k} /\ l[j] = list[from(j)]
  BY <1>2, <1>3, <1>4
<1>7. \A i, j \in DOMAIN l : from(i) <= from(j) => i <= j
  BY <1>2, <1>4
<1> HIDE DEF from
<1>8. Named(l) = Named(list) \ {x}
  <2>1. Named(l) \subseteq Named(list) \ {x}
    BY <1>1, <1>6 DEF Named
  <2>2. Named(list) \ {x} \subseteq Named(l)
    BY <1>5 DEF Named
  <2> QED
    BY <2>1, <2>2
<1> DEFINE high == Completed(list, expected)
           low  == Completed(l, expected)
<1>9. /\ DOMAIN high = Named(list) \cup expected
      /\ \A n, i : IsFirst(list, n, i) => high[n] = list[i].entry
      /\ \A n \in expected \ Named(list) : high[n] = Absent
  BY CompletedFacts
<1>10. /\ DOMAIN low = Named(l) \cup expected
       /\ \A n, i : IsFirst(l, n, i) => low[n] = l[i].entry
       /\ \A n \in expected \ Named(l) : low[n] = Absent
  BY <1>4, CompletedFacts
<1> HIDE DEF high, low
<1>11. DOMAIN high = DOMAIN low
  BY <1>1, <1>8, <1>9, <1>10
<1>12. NoWorse(high[x], low[x])
  <2>1. IsFirst(list, x, k)
    <3>1. \A j \in DOMAIN list : Normal[list[j].name] = x => j = k
      BY <1>1
    <3> QED
      BY <1>2, <3>1 DEF IsFirst
  <2>2. high[x] = list[k].entry
    BY <1>9, <2>1
  <2>3. low[x] = Absent
    BY <1>1, <1>8, <1>10
  <2>4. list[k].entry \in Requirement /\ ~Lost(list[k].entry)
    BY <1>1, <1>2 DEF Audit, Lost
  <2> QED
    BY <2>2, <2>3, <2>4, NoWorseThanAbsent
<1>13. ASSUME NEW n \in DOMAIN low, n # x PROVE NoWorse(high[n], low[n])
  <2>1. CASE n \in Named(list)
    <3>1. PICK j : IsFirst(l, n, j)
      BY <1>4, <1>8, <1>13, <2>1, FirstExists
    <3>2. j \in DOMAIN l /\ l[j] = list[from(j)] /\ from(j) \in DOMAIN list
      BY <1>6, <3>1 DEF IsFirst
    <3>3. ASSUME NEW i \in DOMAIN list, Normal[list[i].name] = n PROVE from(j) <= i
      <4>1. i # k
        BY <1>13, <3>3
      <4>2. PICK m \in DOMAIN l : from(m) = i /\ l[m] = list[i]
        BY <1>5, <4>1
      <4>3. j <= m
        BY <3>1, <3>3, <4>2 DEF IsFirst
      <4>4. from(j) <= from(m)
        BY <1>2, <1>4, <3>2, <4>2, <4>3 DEF from
      <4> QED
        BY <4>2, <4>4
    <3>4. IsFirst(list, n, from(j))
      BY <3>1, <3>2, <3>3 DEF IsFirst
    <3>5. high[n] = list[from(j)].entry /\ low[n] = list[from(j)].entry
      BY <1>9, <1>10, <3>1, <3>2, <3>4
    <3>6. list[from(j)].entry \in Requirement
      BY <1>2, <3>2 DEF Audit
    <3> QED
      BY <3>5, <3>6, NoWorseReflexive
  <2>2. CASE n \notin Named(list)
    <3>1. n \in expected /\ n \notin Named(l)
      BY <1>8, <1>10, <1>13, <2>2
    <3>2. high[n] = Absent /\ low[n] = Absent
      BY <1>9, <1>10, <2>2, <3>1
    <3> QED
      BY <3>2, AbsentType, NoWorseReflexive
  <2> QED
    BY <2>1, <2>2
<1> QED
  BY <1>4, <1>11, <1>12, <1>13 DEF NoWorseList, high, low

\* A list with one more entry for a requirement it already names: the first one still counts.
LEMMA RepeatingList ==
    ASSUME NEW list \in Audits, NEW expected, IsFiniteSet(expected),
           NEW l \in RepeatingLists(list)
    PROVE  /\ l \in Audits
           /\ NoWorseList(Completed(list, expected), Completed(l, expected))
<1>1. PICK k \in DOMAIN list :
          l = Append(list, [name |-> list[k].name, entry |-> [list[k].entry EXCEPT !.status = "met"]])
  BY DEF RepeatingLists
<1> DEFINE more == [name |-> list[k].name, entry |-> [list[k].entry EXCEPT !.status = "met"]]
<1>2. /\ list \in Seq(Audit) /\ Len(list) \in Nat /\ DOMAIN list = 1 .. Len(list)
      /\ \A i \in DOMAIN list : list[i] \in Audit
  BY AuditsFacts
<1>3. more \in Audit /\ more.name = list[k].name
  BY <1>2 DEF Audit, Requirement
<1> HIDE DEF more
<1>4. l = Append(list, more)
  BY <1>1 DEF more
<1> HIDE DEF Audit
<1>5. /\ l \in Seq(Audit) /\ DOMAIN l = 1 .. Len(list) + 1
      /\ \A i \in DOMAIN list : l[i] = list[i]
      /\ l[Len(list) + 1] = more
  BY <1>2, <1>3, <1>4
<1>6. l \in Audits
  BY <1>5 DEF Audits, Audit
<1>7. Named(l) = Named(list)
  BY <1>2, <1>3, <1>5 DEF Named
<1> DEFINE high == Completed(list, expected)
           low  == Completed(l, expected)
<1>8. /\ DOMAIN high = Named(list) \cup expected
      /\ \A n, i : IsFirst(list, n, i) => high[n] = list[i].entry
      /\ \A n \in expected \ Named(list) : high[n] = Absent
      /\ List(high)
  BY CompletedFacts
<1>9. /\ DOMAIN low = Named(l) \cup expected
      /\ \A n, i : IsFirst(l, n, i) => low[n] = l[i].entry
      /\ \A n \in expected \ Named(l) : low[n] = Absent
  BY <1>6, CompletedFacts
<1> HIDE DEF high, low
<1>10. ASSUME NEW n \in DOMAIN low PROVE high[n] = low[n]
  <2>1. CASE n \in Named(list)
    <3>1. PICK i : IsFirst(list, n, i)
      BY <2>1, FirstExists
    <3>2. IsFirst(l, n, i)
      <4>1. i \in DOMAIN l /\ l[i] = list[i] /\ Normal[list[i].name] = n /\ i <= Len(list)
        BY <1>2, <1>5, <3>1 DEF IsFirst
      <4>2. ASSUME NEW m \in DOMAIN l, Normal[l[m].name] = n PROVE i <= m
        <5>1. CASE m \in DOMAIN list
          BY <1>5, <3>1, <4>2, <5>1 DEF IsFirst
        <5>2. CASE m = Len(list) + 1
          BY <1>2, <3>1, <4>1, <5>2 DEF IsFirst
        <5> QED
          BY <1>2, <1>5, <5>1, <5>2
      <4> QED
        BY <4>1, <4>2 DEF IsFirst
    <3>3. i \in DOMAIN list
      BY <3>1 DEF IsFirst
    <3> QED
      BY <1>5, <1>8, <1>9, <3>1, <3>2, <3>3
  <2>2. CASE n \notin Named(list)
    BY <1>7, <1>8, <1>9, <1>10, <2>2
  <2> QED
    BY <2>1, <2>2
<1>11. ASSUME NEW n \in DOMAIN low PROVE NoWorse(high[n], low[n])
  <2>1. high[n] \in Requirement
    BY <1>7, <1>8, <1>9, <1>11 DEF List
  <2> QED
    BY <1>10, <1>11, <2>1, NoWorseReflexive
<1> QED
  BY <1>6, <1>7, <1>8, <1>9, <1>11 DEF NoWorseList, high, low

LEMMA QuieterList ==
    ASSUME NEW list \in Audits, NEW expected, IsFiniteSet(expected),
           NEW l \in QuieterLists(list, expected)
    PROVE  /\ l \in Audits
           /\ NoWorseList(Completed(list, expected), Completed(l, expected))
  BY ShorterList, RepeatingList DEF QuieterLists

------------------------------------------------------------------------------
(* A request's samples.                                                      *)

\* What a step never breaks: an evaluated sample has the score of its answer, and once there
\* is an outcome no sample is still asked, so that the median stays the median.
Consistent ==
    /\ job \in Jobs
    /\ DOMAIN sample = Samples
    /\ \A s \in Samples :
           \/ sample[s] \in {Asked, Failed}
           \/ \E answer \in Answers[s] :
                  sample[s] = [status |-> "evaluated", answer |-> answer,
                               score |-> ScoreOf(answer, job)]
    /\ \/ outcome = Pending
       \/ outcome = Threw /\ Evaluated = {}
       \/ \E s \in Evaluated :
              Median(s) /\ outcome = [status |-> "scored", of |-> s, score |-> sample[s].score]
    /\ outcome # Pending => \A s \in Samples : sample[s] # Asked

\* The job's side of a completed evaluation.
LEMMA CompleteFacts ==
    ASSUME NEW a \in Evaluation, NEW j \in Jobs
    PROVE  /\ Lists(Complete(a, j))
           /\ Complete(a, j).must = Completed(a.must, j.must)
           /\ Complete(a, j).nice = Completed(a.nice, j.nice)
           /\ Complete(a, j).years = a.years
           /\ Complete(a, j).relevance = a.relevance
           /\ Complete(a, j).informative = a.informative
<1>1. IsFiniteSet(j.must) /\ IsFiniteSet(j.nice)
  BY JobsAssumption
<1>2. /\ a.must \in Audits /\ a.nice \in Audits
      /\ a.years \in (0 .. 50 * Grain) \cup {None} /\ a.relevance \in 0 .. 100 * Grain /\ a.informative \in BOOLEAN
  BY DEF Evaluation
<1>3. List(Completed(a.must, j.must)) /\ List(Completed(a.nice, j.nice))
  BY <1>1, <1>2, CompletedFacts
<1>4. /\ Complete(a, j).must = Completed(a.must, j.must)
      /\ Complete(a, j).nice = Completed(a.nice, j.nice)
      /\ Complete(a, j).years = a.years
      /\ Complete(a, j).relevance = a.relevance
      /\ Complete(a, j).informative = a.informative
  BY DEF Complete, Evaluation
<1>5. a.years = None \/ a.years \in Nat
  BY <1>2, PrecisionFacts
<1> QED
  BY <1>2, <1>3, <1>4, <1>5 DEF Lists

\* The bounds experienceFactor() is given.
LEMMA GrainBounds ==
    ASSUME NEW j \in Jobs
    PROVE  /\ Bound(InGrains(j.min)) /\ Bound(InGrains(j.max))
           /\ j.max # None => j.max \in Nat /\ InGrains(j.max) = j.max * Grain
<1>1. ASSUME NEW b, b = None \/ b \in Nat PROVE Bound(InGrains(b))
  <2>1. CASE b = None
    BY <2>1 DEF Bound, InGrains
  <2>2. CASE b # None
    <3>1. b * Grain \in Nat
      BY <1>1, <2>2, PrecisionFacts
    <3> QED
      BY <2>2, <3>1 DEF Bound, InGrains
  <2> QED
    BY <2>1, <2>2
<1> QED
  BY <1>1, JobsAssumption DEF InGrains

\* Two answers of the model, one better than the other once completed.
LEMMA ScoresGrow ==
    ASSUME NEW j \in Jobs, NEW high, NEW low, Lists(Complete(high, j)), Lists(Complete(low, j)),
           Better(Complete(high, j), Complete(low, j), InGrains(j.max))
    PROVE  /\ ScoreOf(low, j) \in 0 .. 100 /\ ScoreOf(high, j) \in 0 .. 100
           /\ ScoreOf(low, j) <= ScoreOf(high, j)
<1>1. Bound(InGrains(j.min)) /\ Bound(InGrains(j.max))
  BY GrainBounds
<1> QED
  BY <1>1, ScoreGrows DEF ScoreOf

LEMMA NoWorseListReflexive == ASSUME NEW reqs, List(reqs) PROVE NoWorseList(reqs, reqs)
  BY NoWorseReflexive DEF NoWorseList, List

LEMMA BetterReflexive == ASSUME NEW ev, Lists(ev), NEW max PROVE Better(ev, ev, max)
<1>1. ev.relevance \in Int
  BY DEF Lists
<1> QED
  BY <1>1, NoWorseListReflexive DEF Better, BetterYears, Lists

LEMMA ScoreType ==
    ASSUME NEW a \in Evaluation, NEW j \in Jobs
    PROVE  ScoreOf(a, j) \in 0 .. 100
<1>1. Lists(Complete(a, j))
  BY CompleteFacts
<1>2. Better(Complete(a, j), Complete(a, j), InGrains(j.max))
  BY <1>1, BetterReflexive
<1> QED
  BY <1>1, <1>2, ScoresGrow

\* An answer one step better completes to a better evaluation.
LEMMA BetterAnswer ==
    ASSUME NEW a \in Evaluation, NEW j \in Jobs, NEW b \in BetterAnswers(a, j)
    PROVE  ScoreOf(b, j) >= ScoreOf(a, j)
<1> DEFINE ca == Complete(a, j)
           cb == Complete(b, j)
<1>1. /\ Lists(ca)
      /\ ca.must = Completed(a.must, j.must) /\ ca.nice = Completed(a.nice, j.nice)
      /\ ca.years = a.years /\ ca.relevance = a.relevance /\ ca.informative = a.informative
  BY CompleteFacts
<1>2. /\ a.must \in Audits /\ a.nice \in Audits
      /\ a.years \in (0 .. 50 * Grain) \cup {None} /\ a.relevance \in 0 .. 100 * Grain /\ a.informative \in BOOLEAN
  BY DEF Evaluation
<1>3. IsFiniteSet(j.must) /\ IsFiniteSet(j.nice)
  BY JobsAssumption
<1>4. NoWorseList(ca.must, ca.must) /\ NoWorseList(ca.nice, ca.nice)
  BY <1>1, NoWorseListReflexive DEF Lists
<1>5. SUFFICES Lists(cb) /\ Better(cb, ca, InGrains(j.max))
  <2>1. ASSUME Lists(cb), Better(cb, ca, InGrains(j.max)) PROVE ScoreOf(b, j) >= ScoreOf(a, j)
    <3>1. /\ ScoreOf(a, j) \in 0 .. 100 /\ ScoreOf(b, j) \in 0 .. 100
          /\ ScoreOf(a, j) <= ScoreOf(b, j)
      BY <1>1, <2>1, ScoresGrow
    <3> QED
      BY <3>1
  <2> QED
    BY <2>1
<1>6. ASSUME NEW l \in BetterLists(a.must), b = [a EXCEPT !.must = l]
      PROVE  Lists(cb) /\ Better(cb, ca, InGrains(j.max))
  <2>1. l \in Audits /\ NoWorseList(Completed(l, j.must), Completed(a.must, j.must))
    BY <1>2, <1>3, <1>6, BetterList
  <2>2. /\ b \in Evaluation /\ b.must = l /\ b.nice = a.nice /\ b.years = a.years
        /\ b.relevance = a.relevance /\ b.informative = a.informative
    BY <1>6, <2>1 DEF Evaluation
  <2>3. /\ Lists(cb) /\ cb.must = Completed(l, j.must) /\ cb.nice = ca.nice
        /\ cb.years = ca.years /\ cb.relevance = ca.relevance /\ cb.informative = ca.informative
    BY <1>1, <2>2, CompleteFacts
  <2> HIDE DEF ca, cb
  <2> QED
    BY <1>1, <1>2, <1>4, <2>1, <2>3 DEF Better, BetterYears
<1>7. ASSUME NEW l \in BetterLists(a.nice), b = [a EXCEPT !.nice = l]
      PROVE  Lists(cb) /\ Better(cb, ca, InGrains(j.max))
  <2>1. l \in Audits /\ NoWorseList(Completed(l, j.nice), Completed(a.nice, j.nice))
    BY <1>2, <1>3, <1>7, BetterList
  <2>2. /\ b \in Evaluation /\ b.must = a.must /\ b.nice = l /\ b.years = a.years
        /\ b.relevance = a.relevance /\ b.informative = a.informative
    BY <1>7, <2>1 DEF Evaluation
  <2>3. /\ Lists(cb) /\ cb.must = ca.must /\ cb.nice = Completed(l, j.nice)
        /\ cb.years = ca.years /\ cb.relevance = ca.relevance /\ cb.informative = ca.informative
    BY <1>1, <2>2, CompleteFacts
  <2> HIDE DEF ca, cb
  <2> QED
    BY <1>1, <1>2, <1>4, <2>1, <2>3 DEF Better, BetterYears
<1>8. ASSUME NEW step \in {1, 10 * Grain}, b = [a EXCEPT !.relevance = Least(100 * Grain, @ + step)]
      PROVE  Lists(cb) /\ Better(cb, ca, InGrains(j.max))
  <2>1. /\ Least(100 * Grain, a.relevance + step) \in 0 .. 100 * Grain
        /\ a.relevance <= Least(100 * Grain, a.relevance + step)
    BY <1>2, <1>8, PrecisionFacts DEF Least
  <2>2. /\ b \in Evaluation /\ b.must = a.must /\ b.nice = a.nice /\ b.years = a.years
        /\ b.relevance = Least(100 * Grain, a.relevance + step) /\ b.informative = a.informative
    BY <1>8, <2>1 DEF Evaluation
  <2>3. /\ Lists(cb) /\ cb.must = ca.must /\ cb.nice = ca.nice /\ cb.years = ca.years
        /\ cb.relevance = Least(100 * Grain, a.relevance + step) /\ cb.informative = ca.informative
    BY <1>1, <2>2, CompleteFacts
  <2> HIDE DEF ca, cb
  <2> QED
    BY <1>1, <1>4, <2>1, <2>3 DEF Better, BetterYears
<1>9. ASSUME b = [a EXCEPT !.informative = TRUE]
      PROVE  Lists(cb) /\ Better(cb, ca, InGrains(j.max))
  <2>1. /\ b \in Evaluation /\ b.must = a.must /\ b.nice = a.nice /\ b.years = a.years
        /\ b.relevance = a.relevance /\ b.informative = TRUE
    BY <1>9 DEF Evaluation
  <2>2. /\ Lists(cb) /\ cb.must = ca.must /\ cb.nice = ca.nice /\ cb.years = ca.years
        /\ cb.relevance = ca.relevance /\ cb.informative = TRUE
    BY <1>1, <2>1, CompleteFacts
  <2> HIDE DEF ca, cb
  <2> QED
    BY <1>1, <1>2, <1>4, <2>2 DEF Better, BetterYears
<1>10. ASSUME a.years # None, j.max = None \/ a.years < j.max * Grain, b = [a EXCEPT !.years = @ + 1]
       PROVE  Lists(cb) /\ Better(cb, ca, InGrains(j.max))
  <2>1. a.years \in Nat /\ a.years + 1 \in Nat /\ a.years <= a.years + 1
    BY <1>2, <1>10, PrecisionFacts
  <2>2. InGrains(j.max) = None \/ a.years + 1 <= InGrains(j.max)
    <3>1. CASE j.max = None
      BY <3>1 DEF InGrains
    <3>2. CASE j.max # None
      <4>1. InGrains(j.max) = j.max * Grain /\ j.max * Grain \in Nat
        BY <3>2, GrainBounds, PrecisionFacts
      <4> QED
        BY <1>10, <2>1, <3>2, <4>1
    <3> QED
      BY <3>1, <3>2
  <2>3. cb = [ca EXCEPT !.years = a.years + 1]
    BY <1>10 DEF Complete, Evaluation
  <2>4. /\ cb.must = ca.must /\ cb.nice = ca.nice /\ cb.years = a.years + 1
        /\ cb.relevance = ca.relevance /\ cb.informative = ca.informative
    BY <2>3 DEF Complete, Evaluation
  <2> HIDE DEF ca, cb
  <2>5. Lists(cb)
    BY <1>1, <2>1, <2>4 DEF Lists
  <2> QED
    BY <1>1, <1>2, <1>4, <2>1, <2>2, <2>4, <2>5 DEF Better, BetterYears
<1> QED
  BY <1>6, <1>7, <1>8, <1>9, <1>10 DEF BetterAnswers

\* An answer that leaves a requirement out or repeats one completes to a worse evaluation.
LEMMA QuieterAnswer ==
    ASSUME NEW a \in Evaluation, NEW j \in Jobs, NEW b \in QuieterAnswers(a, j)
    PROVE  ScoreOf(b, j) <= ScoreOf(a, j)
<1> DEFINE ca == Complete(a, j)
           cb == Complete(b, j)
<1>1. /\ Lists(ca)
      /\ ca.must = Completed(a.must, j.must) /\ ca.nice = Completed(a.nice, j.nice)
      /\ ca.years = a.years /\ ca.relevance = a.relevance /\ ca.informative = a.informative
  BY CompleteFacts
<1>2. /\ a.must \in Audits /\ a.nice \in Audits
      /\ a.years \in (0 .. 50 * Grain) \cup {None} /\ a.relevance \in 0 .. 100 * Grain /\ a.informative \in BOOLEAN
  BY DEF Evaluation
<1>3. IsFiniteSet(j.must) /\ IsFiniteSet(j.nice)
  BY JobsAssumption
<1>4. NoWorseList(ca.must, ca.must) /\ NoWorseList(ca.nice, ca.nice)
  BY <1>1, NoWorseListReflexive DEF Lists
<1>5. SUFFICES Lists(cb) /\ Better(ca, cb, InGrains(j.max))
  BY <1>1, ScoresGrow
<1>6. ASSUME NEW l \in QuieterLists(a.must, j.must), b = [a EXCEPT !.must = l]
      PROVE  Lists(cb) /\ Better(ca, cb, InGrains(j.max))
  <2>1. l \in Audits /\ NoWorseList(Completed(a.must, j.must), Completed(l, j.must))
    BY <1>2, <1>3, <1>6, QuieterList
  <2>2. /\ b \in Evaluation /\ b.must = l /\ b.nice = a.nice /\ b.years = a.years
        /\ b.relevance = a.relevance /\ b.informative = a.informative
    BY <1>6, <2>1 DEF Evaluation
  <2>3. /\ Lists(cb) /\ cb.must = Completed(l, j.must) /\ cb.nice = ca.nice
        /\ cb.years = ca.years /\ cb.relevance = ca.relevance /\ cb.informative = ca.informative
    BY <1>1, <2>2, CompleteFacts
  <2> HIDE DEF ca, cb
  <2> QED
    BY <1>1, <1>2, <1>4, <2>1, <2>3 DEF Better, BetterYears
<1>7. ASSUME NEW l \in QuieterLists(a.nice, j.nice), b = [a EXCEPT !.nice = l]
      PROVE  Lists(cb) /\ Better(ca, cb, InGrains(j.max))
  <2>1. l \in Audits /\ NoWorseList(Completed(a.nice, j.nice), Completed(l, j.nice))
    BY <1>2, <1>3, <1>7, QuieterList
  <2>2. /\ b \in Evaluation /\ b.must = a.must /\ b.nice = l /\ b.years = a.years
        /\ b.relevance = a.relevance /\ b.informative = a.informative
    BY <1>7, <2>1 DEF Evaluation
  <2>3. /\ Lists(cb) /\ cb.must = ca.must /\ cb.nice = Completed(l, j.nice)
        /\ cb.years = ca.years /\ cb.relevance = ca.relevance /\ cb.informative = ca.informative
    BY <1>1, <2>2, CompleteFacts
  <2> HIDE DEF ca, cb
  <2> QED
    BY <1>1, <1>2, <1>4, <2>1, <2>3 DEF Better, BetterYears
<1> QED
  BY <1>6, <1>7 DEF QuieterAnswers

LEMMA InitConsistent == Init => Consistent
  BY DEF Init, Consistent, Asked, Pending

LEMMA StepConsistent == Consistent /\ [Next]_vars => Consistent'
<1> SUFFICES ASSUME Consistent, [Next]_vars PROVE Consistent'
  OBVIOUS
<1>1. ASSUME NEW s \in Samples, Evaluate(s) PROVE Consistent'
  <2>1. sample[s] = Asked /\ job' = job /\ outcome' = outcome
    BY <1>1 DEF Evaluate
  <2>2. outcome = Pending
    BY <2>1 DEF Consistent
  <2>3. PICK answer \in Answers[s] :
            sample' = [sample EXCEPT ![s] =
                [status |-> "evaluated", answer |-> answer, score |-> ScoreOf(answer, job)]]
    BY <1>1 DEF Evaluate
  <2>4. DOMAIN sample' = Samples
    BY <2>3 DEF Consistent
  <2>5. ASSUME NEW t \in Samples
        PROVE  \/ sample'[t] \in {Asked, Failed}
               \/ \E a \in Answers[t] :
                      sample'[t] = [status |-> "evaluated", answer |-> a,
                                    score |-> ScoreOf(a, job')]
    <3>1. CASE t = s
      BY <2>1, <2>3, <3>1 DEF Consistent
    <3>2. CASE t # s
      <4>1. sample'[t] = sample[t]
        BY <2>3, <3>2 DEF Consistent
      <4> QED
        BY <2>1, <4>1 DEF Consistent
    <3> QED
      BY <3>1, <3>2
  <2> QED
    BY <2>1, <2>2, <2>4, <2>5 DEF Consistent
<1>2. ASSUME NEW s \in Samples, Fail(s) PROVE Consistent'
  <2>1. /\ sample[s] = Asked /\ sample' = [sample EXCEPT ![s] = Failed]
        /\ job' = job /\ outcome' = outcome
    BY <1>2 DEF Fail
  <2>2. outcome = Pending
    BY <2>1 DEF Consistent
  <2>3. DOMAIN sample' = Samples /\ \A t \in Samples : sample'[t] = IF t = s THEN Failed ELSE sample[t]
    BY <2>1 DEF Consistent
  <2>4. ASSUME NEW t \in Samples
        PROVE  \/ sample'[t] \in {Asked, Failed}
               \/ \E a \in Answers[t] :
                      sample'[t] = [status |-> "evaluated", answer |-> a,
                                    score |-> ScoreOf(a, job')]
    BY <2>1, <2>3 DEF Consistent
  <2> QED
    BY <2>1, <2>2, <2>3, <2>4 DEF Consistent
<1>3. ASSUME Settle PROVE Consistent'
  <2>1. job' = job /\ sample' = sample /\ \A s \in Samples : sample[s] # Asked
    BY <1>3 DEF Settle
  <2>2. \/ outcome' = Threw /\ Evaluated = {}
        \/ \E s \in Evaluated :
               Median(s) /\ outcome' = [status |-> "scored", of |-> s, score |-> sample[s].score]
    BY <1>3 DEF Settle
  <2>3. Evaluated' = Evaluated /\ \A s : Median(s)' <=> Median(s)
    BY <2>1 DEF Evaluated, Median, Before
  <2> QED
    BY <2>1, <2>2, <2>3 DEF Consistent
<1>4. ASSUME UNCHANGED vars PROVE Consistent'
  <2>1. job' = job /\ sample' = sample /\ outcome' = outcome
    BY <1>4 DEF vars
  <2>2. Evaluated' = Evaluated /\ \A s : Median(s)' <=> Median(s)
    BY <2>1 DEF Evaluated, Median, Before
  <2> QED
    BY <2>1, <2>2 DEF Consistent
<1> QED
  BY <1>1, <1>2, <1>3, <1>4 DEF Next, Done

THEOREM AlwaysConsistent == Spec => []Consistent
<1> QED
  BY InitConsistent, StepConsistent, PTL DEF Spec

\* An evaluated sample has the score of one of its answers, between 0 and 100.
LEMMA EvaluatedFacts ==
    ASSUME Consistent, NEW s \in Evaluated
    PROVE  /\ s \in Samples /\ s \in Nat
           /\ sample[s].status = "evaluated"
           /\ sample[s].answer \in Answers[s] /\ sample[s].answer \in Evaluation
           /\ sample[s].score = ScoreOf(sample[s].answer, job)
           /\ sample[s].score \in 0 .. 100
<1>1. s \in Samples /\ s \in Nat /\ sample[s].status = "evaluated"
  BY SamplesAssumption DEF Evaluated
<1>2. sample[s] \notin {Asked, Failed}
  BY <1>1 DEF Asked, Failed
<1>3. PICK answer \in Answers[s] :
          sample[s] = [status |-> "evaluated", answer |-> answer, score |-> ScoreOf(answer, job)]
  BY <1>1, <1>2 DEF Consistent
<1>4. answer \in Evaluation /\ job \in Jobs
  BY <1>1, AnswersAssumption DEF Consistent
<1> QED
  BY <1>1, <1>3, <1>4, ScoreType

LEMMA TypeOfConsistent == Consistent => TypeOK
<1> SUFFICES ASSUME Consistent PROVE TypeOK
  OBVIOUS
<1>1. ASSUME NEW s \in Samples, sample[s] \notin {Asked, Failed}
      PROVE  /\ sample[s].status = "evaluated" /\ sample[s].answer \in Answers[s]
             /\ sample[s].score \in 0 .. 100
  <2>1. s \in Evaluated
    BY <1>1 DEF Consistent, Evaluated
  <2> QED
    BY <2>1, EvaluatedFacts
<1>2. ASSUME NEW s \in Evaluated, outcome = [status |-> "scored", of |-> s, score |-> sample[s].score]
      PROVE  outcome.status = "scored" /\ outcome.of \in Samples /\ outcome.score \in 0 .. 100
  BY <1>2, EvaluatedFacts
<1> QED
  BY <1>1, <1>2 DEF Consistent, TypeOK

LEMMA BetterOfConsistent == Consistent => BetterNeverScoresLower
<1> SUFFICES ASSUME Consistent, NEW s \in Evaluated, NEW a \in BetterAnswers(sample[s].answer, job)
             PROVE  ScoreOf(a, job) >= sample[s].score
  BY DEF BetterNeverScoresLower
<1>1. sample[s].answer \in Evaluation /\ sample[s].score = ScoreOf(sample[s].answer, job)
  BY EvaluatedFacts
<1> QED
  BY <1>1, BetterAnswer DEF Consistent

\* A missing requirement of the core caps the score.
LEMMA MissingCaps ==
    ASSUME NEW ev, Lists(ev), NEW n \in Core(ev.must), ev.must[n].status = "missing",
           NEW short \in BOOLEAN
    PROVE  Cap(ev, short) \in 0 .. 60
<1> DEFINE Gone == {m \in Core(ev.must) : ev.must[m].status = "missing"}
           Half == {m \in Core(ev.must) : ev.must[m].status = "partial"}
           Caps == {CoreCap(ev.must)} \cup (IF ev.relevance < 40 * Grain THEN {30} ELSE {})
                   \cup (IF ev.informative THEN {} ELSE {50}) \cup (IF short THEN {45} ELSE {})
<1>1. IsFiniteSet(Gone) /\ Gone # {}
  BY FS_Subset DEF Lists, List, Core
<1>2. Cardinality(Gone) \in Nat /\ Cardinality(Gone) # 0
  BY <1>1, FS_CardinalityType, FS_EmptySet
<1> DEFINE g == Cardinality(Gone)  h == Cardinality(Half)
           cap == CASE g >= 2 -> 45 [] g = 1 -> 60
                    [] g = 0 /\ h >= 2 -> 78 [] g = 0 /\ h = 1 -> 88 [] OTHER -> 100
<1>3. CoreCap(ev.must) = cap
  BY DEF CoreCap, Count, SCORING_POLICY
<1> HIDE DEF g, h
<1>4. CoreCap(ev.must) \in 0 .. 60
  BY <1>2, <1>3 DEF g
<1>5. Cap(ev, short) = Min(Caps)
  BY DEF Cap, SCORING_POLICY
<1>6. Caps \subseteq Nat /\ CoreCap(ev.must) \in Caps
  BY <1>4
<1> HIDE DEF Caps
<1>7. Min(Caps) \in Nat /\ Min(Caps) <= CoreCap(ev.must)
  BY <1>6, MinFacts
<1> QED
  BY <1>4, <1>5, <1>7

\* An answer that leaves out a must-have scores no more than the cap for one.
LEMMA LeftOutAnswer ==
    ASSUME NEW a \in Evaluation, NEW j \in Jobs, NEW n \in j.must \ Named(a.must)
    PROVE  ScoreOf(a, j) <= 60
<1> DEFINE ca == Complete(a, j)
           e == ExperienceFactor(ca.years, InGrains(j.min), InGrains(j.max))
           x == Least(RawScore(ca, e.factor) + Adjustment(ca.must) * Unit, Cap(ca, e.short) * Unit)
<1>1. /\ Lists(ca) /\ ca.must = Completed(a.must, j.must)
      /\ a.must \in Audits /\ IsFiniteSet(j.must)
  BY CompleteFacts, JobsAssumption DEF Evaluation
<1>2. n \in DOMAIN ca.must /\ ca.must[n] = Absent
  <2>1. /\ DOMAIN Completed(a.must, j.must) = Named(a.must) \cup j.must
        /\ \A m \in j.must \ Named(a.must) : Completed(a.must, j.must)[m] = Absent
    BY <1>1, CompletedFacts
  <2> QED
    BY <1>1, <2>1
<1>3. n \in Core(ca.must) /\ ca.must[n].status = "missing"
  BY <1>2 DEF Core, Absent
<1>4. e.factor \in Nat /\ e.short \in BOOLEAN
  BY <1>1, GrainBounds, ExperienceType DEF Lists
<1>5. ScoreOf(a, j) = Rounded(x)
  BY DEF ScoreOf, ComputeScore
<1> HIDE DEF e
<1>6. Cap(ca, e.short) \in 0 .. 60
  BY <1>1, <1>3, <1>4, MissingCaps
<1>7. RawScore(ca, e.factor) \in Nat /\ Adjustment(ca.must) \in Int
  <2>1. Better(ca, ca, None)
    BY <1>1, BetterReflexive
  <2>2. RawScore(ca, e.factor) \in Nat
    BY <1>1, <1>4, <2>1, RawGrows
  <2>3. Adjustment(ca.must) \in Int
    BY <1>1, NoWorseListReflexive, AdjustmentGrows DEF Lists
  <2> QED
    BY <2>2, <2>3
<1>8. Unit \in Nat \ {0}
  BY PrecisionFacts
<1> HIDE DEF ca
<1>9. x \in Int /\ x <= 60 * Unit
  <2>1. Cap(ca, e.short) * Unit \in Nat /\ Cap(ca, e.short) * Unit <= 60 * Unit
    BY <1>6, <1>8, ProductGrows
  <2>2. Adjustment(ca.must) * Unit \in Int
    BY <1>7, <1>8
  <2> QED
    BY <1>7, <1>8, <2>1, <2>2 DEF Least
<1> HIDE DEF x
<1>10. 60 * Unit \in Int /\ Rounded(x) \in 0 .. 100 /\ Rounded(x) <= Rounded(60 * Unit)
  BY <1>8, <1>9, RoundedGrows
<1>11. Rounded(60 * Unit) <= 60
  <2> DEFINE half == Unit \div 2  q == (60 * Unit + half) \div Unit
  <2>1. half \in Nat /\ half < Unit
    BY <1>8
  <2>2. Rounded(60 * Unit) = q
    BY <1>8 DEF Rounded, Least, Greatest
  <2> HIDE DEF half
  <2>3. 60 * Unit + half \in Nat
    BY <1>8, <2>1
  <2>4. q \in Int /\ Unit * q <= 60 * Unit + half
    BY <1>8, <2>3, DivFacts
  <2> HIDE DEF q
  <2>5. SUFFICES ASSUME q >= 61 PROVE FALSE
    BY <2>2, <2>4
  <2>6. Unit * 61 <= Unit * q
    BY <1>8, <2>4, <2>5, ProductGrows
  <2> QED
    BY <1>8, <2>1, <2>4, <2>6
<1>12. Rounded(60 * Unit) \in 0 .. 100
  BY <1>10, RoundedGrows
<1> QED
  BY <1>5, <1>10, <1>11, <1>12

LEMMA LeftOutOfConsistent == Consistent => LeftOutIsCapped
<1> SUFFICES ASSUME Consistent, NEW s \in Evaluated,
                    NEW n \in job.must, n \notin Named(sample[s].answer.must)
             PROVE  sample[s].score <= 60
  BY DEF LeftOutIsCapped, Named, SCORING_POLICY
<1>1. sample[s].answer \in Evaluation /\ sample[s].score = ScoreOf(sample[s].answer, job)
  BY EvaluatedFacts
<1> QED
  BY <1>1, LeftOutAnswer DEF Consistent

LEMMA SilenceOfConsistent == Consistent => SilenceNeverHelps
<1> SUFFICES ASSUME Consistent, NEW s \in Evaluated, NEW a \in QuieterAnswers(sample[s].answer, job)
             PROVE  ScoreOf(a, job) <= sample[s].score
  BY DEF SilenceNeverHelps
<1>1. sample[s].answer \in Evaluation /\ sample[s].score = ScoreOf(sample[s].answer, job)
  BY EvaluatedFacts
<1> QED
  BY <1>1, QuieterAnswer DEF Consistent

\* What sorts before the median and what does not.
LEMMA MedianOfConsistent == Consistent => MedianOfReal
<1> SUFFICES ASSUME Consistent PROVE MedianOfReal
  OBVIOUS
<1> DEFINE E == Evaluated
<1>1. IsFiniteSet(E) /\ \A t \in E : t \in Nat /\ sample[t].score \in Nat
  <2>1. E \in SUBSET Samples
    BY DEF Evaluated
  <2>2. IsFiniteSet(E)
    BY <2>1, SamplesAssumption, FS_Subset
  <2>3. ASSUME NEW t \in E PROVE t \in Nat /\ sample[t].score \in Nat
    <3>1. t \in Nat /\ sample[t].score \in 0 .. 100
      BY <2>3, EvaluatedFacts
    <3> QED
      BY <3>1
  <2> QED
    BY <2>2, <2>3
<1>2. outcome = Threw => E = {}
  <2> SUFFICES ASSUME outcome = Threw PROVE E = {}
    OBVIOUS
  <2>1. outcome.status = "threw"
    BY DEF Threw
  <2>2. outcome # Pending
    BY <2>1 DEF Pending
  <2>3. ASSUME NEW s PROVE outcome # [status |-> "scored", of |-> s, score |-> sample[s].score]
    BY <2>1
  <2> QED
    BY <2>2, <2>3 DEF Consistent
<1>3. ASSUME outcome.status = "scored"
      PROVE  /\ outcome.of \in E
             /\ outcome.score = sample[outcome.of].score
             /\ 2 * Cardinality({t \in E : sample[t].score < outcome.score}) < Cardinality(E)
             /\ 2 * Cardinality({t \in E : sample[t].score > outcome.score}) <= Cardinality(E)
  <2>1. PICK s \in E :
            Median(s) /\ outcome = [status |-> "scored", of |-> s, score |-> sample[s].score]
    BY <1>3 DEF Consistent, Threw, Pending
  <2> DEFINE B == Before(s)
             lower  == {t \in E : sample[t].score < sample[s].score}
             higher == {t \in E : sample[t].score > sample[s].score}
  <2>2. lower \in SUBSET B /\ B \in SUBSET E /\ s \notin B
    BY <1>1, <2>1 DEF Before
  <2>3. higher \in SUBSET (E \ (B \cup {s}))
    BY <1>1, <2>1 DEF Before
  <2> HIDE DEF B, E
  <2>4. IsFiniteSet(B) /\ Cardinality(lower) <= Cardinality(B)
    BY <1>1, <2>2, FS_Subset
  <2>5. Cardinality(B \cup {s}) = Cardinality(B) + 1
    BY <2>2, <2>4, FS_AddElement
  <2>6. /\ IsFiniteSet(E \ (B \cup {s}))
        /\ Cardinality(E \ (B \cup {s})) = Cardinality(E) - Cardinality(B) - 1
    <3>1. E \cap (B \cup {s}) = B \cup {s}
      BY <2>1, <2>2
    <3> DEFINE T == B \cup {s}
    <3> HIDE DEF T
    <3>2. /\ IsFiniteSet(E \ T)
          /\ Cardinality(E \ T) = Cardinality(E) - Cardinality(E \cap T)
      BY <1>1, FS_Difference
    <3> USE DEF T
    <3>3. Cardinality(E) \in Nat /\ Cardinality(B) \in Nat
      BY <1>1, <2>4, FS_CardinalityType
    <3> QED
      BY <2>5, <3>1, <3>2, <3>3
  <2>7. Cardinality(higher) <= Cardinality(E) - Cardinality(B) - 1
    BY <2>3, <2>6, FS_Subset
  <2>8. Cardinality(B) = (Cardinality(E) - 1) \div 2
    BY <2>1 DEF Median, B, E
  <2>9. /\ Cardinality(E) \in Nat /\ Cardinality(B) \in Nat
        /\ Cardinality(lower) \in Nat /\ Cardinality(higher) \in Nat
    <3>1. IsFiniteSet(lower) /\ IsFiniteSet(higher)
      BY <2>2, <2>3, <2>4, <2>6, FS_Subset
    <3> QED
      BY <1>1, <2>4, <3>1, FS_CardinalityType
  <2>10. Cardinality(E) # 0
    BY <1>1, <2>1, FS_EmptySet
  <2> HIDE DEF lower, higher
  <2>11. /\ 2 * Cardinality(lower) < Cardinality(E)
         /\ 2 * Cardinality(higher) <= Cardinality(E)
    BY <2>4, <2>7, <2>8, <2>9, <2>10
  <2> QED
    BY <2>1, <2>11 DEF lower, higher
<1> QED
  BY <1>2, <1>3 DEF MedianOfReal

\* results.sort() has one order: of two samples one is before the other.
LEMMA BeforeOrders ==
    ASSUME Consistent
    PROVE  /\ \A s \in Evaluated : Before(s) \subseteq Evaluated /\ s \notin Before(s)
           /\ \A s, t \in Evaluated : s # t => s \in Before(t) \/ t \in Before(s)
           /\ \A s, t, u \in Evaluated : s \in Before(t) /\ t \in Before(u) => s \in Before(u)
<1>1. \A s \in Evaluated : s \in Int /\ sample[s].score \in Int
  <2>1. ASSUME NEW s \in Evaluated PROVE s \in Int /\ sample[s].score \in Int
    <3>1. s \in Nat /\ sample[s].score \in 0 .. 100
      BY EvaluatedFacts
    <3> QED
      BY <3>1
  <2> QED
    BY <2>1
<1> QED
  BY <1>1 DEF Before

\* Of some of the samples one is the last.
LEMMA LastExists ==
    ASSUME Consistent, NEW S \in SUBSET Evaluated, IsFiniteSet(S), S # {}
    PROVE  \E m \in S : \A t \in S \ {m} : t \in Before(m)
<1> DEFINE Final(T, m) == \A t \in T \ {m} : t \in Before(m)
           B == {T \in SUBSET S : T # {} /\ ~\E m \in T : Final(T, m)}
<1>1. SUFFICES ASSUME B # {} PROVE FALSE
  OBVIOUS
<1>2. PICK T \in B : \A U \in SUBSET T : U # T => U \notin B
  <2>1. B \subseteq SUBSET S
    OBVIOUS
  <2> HIDE DEF B
  <2> QED
    BY <1>1, <2>1, SmallestSet
<1>3. PICK p \in T : TRUE
  BY <1>2
<1>4. T \ {p} # {}
  BY <1>2, <1>3
<1>5. PICK m \in T \ {p} : Final(T \ {p}, m)
  <2>1. T \ {p} \in SUBSET T /\ T \ {p} # T /\ T \ {p} \in SUBSET S
    BY <1>2, <1>3
  <2>2. T \ {p} \notin B
    BY <1>2, <2>1
  <2> HIDE DEF Final
  <2> QED
    BY <1>4, <2>1, <2>2
<1>6. m \in Evaluated /\ p \in Evaluated /\ m # p /\ T \subseteq Evaluated
  BY <1>2, <1>3, <1>5
<1>7. CASE p \in Before(m)
  <2>1. Final(T, m)
    BY <1>5, <1>7
  <2> QED
    BY <1>2, <1>5, <2>1
<1>8. CASE m \in Before(p)
  <2>1. Final(T, p)
    BY <1>5, <1>6, <1>8, BeforeOrders
  <2> QED
    BY <1>2, <1>3, <2>1
<1> QED
  BY <1>6, <1>7, <1>8, BeforeOrders

\* Every place in the order is taken: for each k short of their number, one of the samples has
\* exactly k of them before it.
LEMMA PlacesTaken ==
    ASSUME Consistent, NEW S \in SUBSET Evaluated, IsFiniteSet(S),
           NEW k \in Nat, k < Cardinality(S)
    PROVE  \E s \in S : Cardinality(S \cap Before(s)) = k
<1> DEFINE Free(T) == \E i \in Nat : /\ i < Cardinality(T)
                                    /\ \A s \in T : Cardinality(T \cap Before(s)) # i
           B == {T \in SUBSET S : Free(T)}
<1>1. SUFFICES ASSUME B # {} PROVE FALSE
  OBVIOUS
<1>2. PICK T \in B : \A U \in SUBSET T : U # T => U \notin B
  <2>1. B \subseteq SUBSET S
    OBVIOUS
  <2> HIDE DEF B
  <2> QED
    BY <1>1, <2>1, SmallestSet
<1>3. PICK i \in Nat : i < Cardinality(T) /\ \A s \in T : Cardinality(T \cap Before(s)) # i
  BY <1>2
<1>4. IsFiniteSet(T) /\ T \subseteq Evaluated
  BY <1>2, FS_Subset
<1>5. T # {}
  BY <1>3, FS_EmptySet
<1>6. PICK m \in T : \A t \in T \ {m} : t \in Before(m)
  BY <1>4, <1>5, LastExists
<1>7. T \cap Before(m) = T \ {m}
  BY <1>4, <1>6, BeforeOrders
<1>8. IsFiniteSet(T \ {m}) /\ Cardinality(T \ {m}) = Cardinality(T) - 1
  BY <1>4, <1>6, FS_RemoveElement
<1>9. Cardinality(T) \in Nat
  BY <1>4, FS_CardinalityType
<1>10. i < Cardinality(T \ {m})
  BY <1>3, <1>6, <1>7, <1>8, <1>9
<1>11. ~Free(T \ {m})
  BY <1>2, <1>6
<1>12. PICK s \in T \ {m} : Cardinality((T \ {m}) \cap Before(s)) = i
  BY <1>10, <1>11
<1>13. m \notin Before(s)
  BY <1>4, <1>6, <1>12, BeforeOrders
<1>14. (T \ {m}) \cap Before(s) = T \cap Before(s)
  BY <1>13
<1> QED
  BY <1>3, <1>12, <1>14

LEMMA MiddleOfConsistent == Consistent => (Evaluated # {} => \E s \in Evaluated : Median(s))
<1> SUFFICES ASSUME Consistent, Evaluated # {} PROVE \E s \in Evaluated : Median(s)
  OBVIOUS
<1>1. IsFiniteSet(Evaluated)
  <2>1. Evaluated \in SUBSET Samples
    BY DEF Evaluated
  <2> QED
    BY <2>1, SamplesAssumption, FS_Subset
<1>2. Cardinality(Evaluated) \in Nat /\ Cardinality(Evaluated) # 0
  BY <1>1, FS_CardinalityType, FS_EmptySet
<1> DEFINE k == (Cardinality(Evaluated) - 1) \div 2
<1>3. k \in Nat /\ k < Cardinality(Evaluated)
  BY <1>2
<1> HIDE DEF k
<1>4. PICK s \in Evaluated : Cardinality(Evaluated \cap Before(s)) = k
  BY <1>1, <1>3, PlacesTaken
<1>5. Evaluated \cap Before(s) = Before(s)
  BY BeforeOrders
<1> QED
  BY <1>4, <1>5 DEF Median, k

\* Every score the policy gives is between 0 and 100, and so is that of every request.
THEOREM ScoresAreBounded == Spec => []TypeOK
<1> QED
  BY AlwaysConsistent, TypeOfConsistent, PTL

\* For every job, precision and answer of the schema, fractions included: one step more for a
\* candidate, in any one respect of the evaluation, never lowers the score computeScore() gives.
\* Evidence graded none is no step below claimed: met with none is not discounted.
THEOREM MoreEvidenceNeverHurts == Spec => []BetterNeverScoresLower
<1> QED
  BY AlwaysConsistent, BetterOfConsistent, PTL

\* For every job, precision and answer of the schema: a requirement left out of the answer never
\* scores higher than what the answer said of it, and saying one twice changes nothing
\* (completeEvaluation()).
THEOREM SilenceDoesNotPay == Spec => []SilenceNeverHelps
<1> QED
  BY AlwaysConsistent, SilenceOfConsistent, PTL

\* For every job, precision and answer of the schema: with a must-have left out no evaluation
\* passes the cap for a missing one, whatever was evaluated in its place.
THEOREM NothingStandsIn == Spec => []LeftOutIsCapped
<1> QED
  BY AlwaysConsistent, LeftOutOfConsistent, PTL

\* For every number of samples and every pattern of failures: the request scores with one of its
\* evaluations, fewer than half of them below it and no more than half above.
THEOREM MedianIsReal == Spec => []MedianOfReal
<1> QED
  BY AlwaysConsistent, MedianOfConsistent, PTL

\* Whichever samples failed: if one was evaluated there is a median for score() to return, so
\* that the index it reads is that of a result and the request never comes to an end without one.
THEOREM MedianExists == Spec => [](Evaluated # {} => \E s \in Evaluated : Median(s))
<1> QED
  BY AlwaysConsistent, MiddleOfConsistent, PTL

=============================================================================
