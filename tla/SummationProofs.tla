-------------------------- MODULE SummationProofs ---------------------------
(* What SumOver computes, for any function and finite set, and the least    *)
(* element of a set of numbers.                                             *)
EXTENDS Integers, Summation, FiniteSetTheorems, WellFoundedInduction, TLAPS

-----------------------------------------------------------------------------
(* Sums.  A sum is a fold, defined by recursion over the subsets of a       *)
(* finite set; the facts about it follow from a smallest counterexample.    *)

Chosen(s) == CHOOSE x \in s : TRUE
Step(f, g, s) == IF s = {} THEN 0 ELSE f[Chosen(s)] + g[s \ {Chosen(s)}]
Sums(f, T, g) == g = [s \in SUBSET T |-> Step(f, g, s)]

(* Of any property that some subset of a finite set has, there is a         *)
(* smallest such subset.                                                    *)
LEMMA Smallest ==
    ASSUME NEW S, IsFiniteSet(S), NEW Bad, Bad \subseteq SUBSET S, Bad # {}
    PROVE  \E T \in Bad : \A U \in SUBSET T : U # T => U \notin Bad
  <1>1. Bad \subseteq FiniteSubsetsOf(S)
    BY FS_FiniteSubsetsOfFinite
  <1>2. PICK T \in Bad : \A U \in Bad : <<U, T>> \notin StrictSubsetOrdering(S)
    BY <1>1, FS_StrictSubsetOrderingWellFounded, WFMin
  <1>3. ASSUME NEW U \in SUBSET T, U # T, U \in Bad
        PROVE  FALSE
    <2>1. <<U, T>> \in StrictSubsetOrdering(S)
      BY <1>3 DEF StrictSubsetOrdering
    <2>2. QED
      BY <1>2, <1>3, <2>1
  <1>4. QED
    BY <1>2, <1>3

LEMMA ChosenIn ==
    ASSUME NEW s, s # {}
    PROVE  Chosen(s) \in s /\ s \ {Chosen(s)} \in SUBSET s /\ s \ {Chosen(s)} # s
  BY DEF Chosen

LEMMA SumsUnique ==
    ASSUME NEW f, NEW T, IsFiniteSet(T), NEW g, NEW h, Sums(f, T, g), Sums(f, T, h)
    PROVE  g = h
  <1> DEFINE Bad == {s \in SUBSET T : g[s] # h[s]}
  <1>1. CASE Bad # {}
    <2> HIDE DEF Bad
    <2>a. Bad \subseteq SUBSET T
      BY DEF Bad
    <2>1. PICK s \in Bad : \A u \in SUBSET s : u # s => u \notin Bad
      BY <2>a, <1>1, Smallest
    <2> USE DEF Bad
    <2>2. g[s] = Step(f, g, s) /\ h[s] = Step(f, h, s)
      BY DEF Sums
    <2>3. s # {}
      BY <2>2 DEF Step
    <2> DEFINE r == s \ {Chosen(s)}
    <2>4. r \in SUBSET s /\ r # s /\ r \in SUBSET T
      BY <2>3, ChosenIn
    <2>5. g[r] = h[r]
      BY <2>1, <2>4
    <2>6. QED
      BY <2>2, <2>5, <2>3 DEF Step
  <1>2. CASE Bad = {}
    <2>1. \A s \in SUBSET T : g[s] = h[s]
      BY <1>2
    <2>2. g = [s \in SUBSET T |-> g[s]] /\ h = [s \in SUBSET T |-> h[s]]
      BY DEF Sums
    <2>3. QED
      BY <2>1, <2>2
  <1>3. QED
    BY <1>1, <1>2

LEMMA SumsRestricted ==
    ASSUME NEW f, NEW T, NEW U \in SUBSET T, NEW g, Sums(f, T, g)
    PROVE  \E h : Sums(f, U, h) /\ \A s \in SUBSET U : h[s] = g[s]
  <1> DEFINE h == [s \in SUBSET U |-> g[s]]
  <1>1. ASSUME NEW s \in SUBSET U
        PROVE  h[s] = Step(f, h, s)
    <2>1. g[s] = Step(f, g, s)
      BY DEF Sums
    <2>2. CASE s = {}
      BY <2>1, <2>2 DEF Step
    <2>3. CASE s # {}
      <3>1. s \ {Chosen(s)} \in SUBSET U
        OBVIOUS
      <3>2. h[s \ {Chosen(s)}] = g[s \ {Chosen(s)}]
        BY <3>1
      <3>3. QED
        BY <2>1, <2>3, <3>2 DEF Step
    <2>4. QED
      BY <2>2, <2>3
  <1>2. h = [s \in SUBSET U |-> Step(f, h, s)]
    BY <1>1
  <1>3. Sums(f, U, h) /\ \A s \in SUBSET U : h[s] = g[s]
    BY <1>2 DEF Sums
  <1> HIDE DEF h
  <1>4. QED
    BY <1>3

LEMMA SumsExist ==
    ASSUME NEW f, NEW S, IsFiniteSet(S)
    PROVE  \E g : Sums(f, S, g)
  <1> DEFINE Bad == {T \in SUBSET S : ~ \E g : Sums(f, T, g)}
  <1>1. ASSUME Bad # {}
        PROVE  FALSE
    <2> HIDE DEF Bad
    <2>a. Bad \subseteq SUBSET S
      BY DEF Bad
    <2>1. PICK T \in Bad : \A U \in SUBSET T : U # T => U \notin Bad
      BY <2>a, <1>1, Smallest
    <2> USE DEF Bad
    <2> DEFINE G(u) == CHOOSE g : Sums(f, u, g)
    <2>2. \A u \in SUBSET T : u # T => Sums(f, u, G(u))
      BY <2>1
    <2> DEFINE x == Chosen(T)
               h == [s \in SUBSET T |->
                        IF s # T THEN G(s)[s]
                        ELSE IF T = {} THEN 0 ELSE f[x] + G(T \ {x})[T \ {x}]]
    <2>3. ASSUME NEW s \in SUBSET T, s # T
          PROVE  h[s] = Step(f, h, s)
      <3>1. h[s] = G(s)[s]
        BY <2>3
      <3>2. Sums(f, s, G(s))
        BY <2>2, <2>3
      <3>3. s \in SUBSET s
        OBVIOUS
      <3>4. G(s)[s] = Step(f, G(s), s)
        BY <3>2, <3>3 DEF Sums
      <3>5. CASE s = {}
        BY <3>1, <3>4, <3>5 DEF Step
      <3>6. CASE s # {}
        <4> DEFINE r == s \ {Chosen(s)}
        <4>1. r \in SUBSET s /\ r # T /\ r \in SUBSET T
          BY <3>6, <2>3, ChosenIn
        <4>2. PICK t : Sums(f, r, t) /\ \A q \in SUBSET r : t[q] = G(s)[q]
          <5> DEFINE g == G(s)
          <5>1. Sums(f, s, g)
            BY <3>2
          <5>a. r \in SUBSET s
            BY <4>1
          <5> HIDE DEF G, g, r
          <5>2. \E t : Sums(f, r, t) /\ \A q \in SUBSET r : t[q] = g[q]
            BY <5>1, <5>a, SumsRestricted, Zenon
          <5> QED BY <5>2 DEF g
        <4>3. Sums(f, r, G(r))
          BY <2>2, <4>1
        <4>4. IsFiniteSet(r)
          BY <4>1, FS_Subset
        <4>5. G(r) = t
          BY <4>2, <4>3, <4>4, SumsUnique
        <4>6. r \in SUBSET r
          OBVIOUS
        <4> HIDE DEF G
        <4>7. G(r)[r] = G(s)[r]
          BY <4>2, <4>5, <4>6
        <4>8. h[r] = G(r)[r]
          BY <4>1
        <4>9. QED
          BY <3>1, <3>4, <3>6, <4>7, <4>8 DEF Step
      <3>7. QED
        BY <3>5, <3>6
    <2>4. h[T] = Step(f, h, T)
      <3>1. T \in SUBSET T
        OBVIOUS
      <3>2. CASE T = {}
        BY <3>1, <3>2 DEF Step
      <3>3. CASE T # {}
        <4>1. T \ {x} \in SUBSET T /\ T \ {x} # T
          BY <3>3, ChosenIn
        <4> HIDE DEF G
        <4>2. h[T \ {x}] = G(T \ {x})[T \ {x}]
          BY <4>1
        <4>3. h[T] = f[x] + G(T \ {x})[T \ {x}]
          BY <3>1, <3>3
        <4>4. QED
          BY <4>2, <4>3, <3>3 DEF Step
      <3>4. QED
        BY <3>2, <3>3
    <2>5. \A s \in SUBSET T : h[s] = Step(f, h, s)
      BY <2>3, <2>4
    <2>6. Sums(f, T, h)
      <3>1. h = [s \in SUBSET T |-> h[s]]
        OBVIOUS
      <3> HIDE DEF h
      <3>2. QED
        BY <2>5, <3>1 DEF Sums
    <2>7. QED
      BY <2>6, <2>1
  <1>2. S \in SUBSET S
    OBVIOUS
  <1>3. QED
    BY <1>1, <1>2

(* The sum over a set is what the recursion says.                           *)
LEMMA SumIsFold ==
    ASSUME NEW f, NEW S
    PROVE  SumOver(f, S) = (CHOOSE g : Sums(f, S, g))[S]
  BY DEF SumOver, MapThenSumSet, MapThenFoldSet, Sums, Step, Chosen

LEMMA SumStep ==
    ASSUME NEW f, NEW S, IsFiniteSet(S)
    PROVE  /\ S = {} => SumOver(f, S) = 0
           /\ S # {} => SumOver(f, S) = f[Chosen(S)] + SumOver(f, S \ {Chosen(S)})
  <1> DEFINE G(u) == CHOOSE g : Sums(f, u, g)
             r == S \ {Chosen(S)}
  <1>1. Sums(f, S, G(S)) /\ S \in SUBSET S
    BY SumsExist
  <1>2. SumOver(f, S) = G(S)[S] /\ SumOver(f, r) = G(r)[r]
    BY SumIsFold
  <1> HIDE DEF G
  <1>3. G(S)[S] = Step(f, G(S), S)
    BY <1>1 DEF Sums
  <1>4. CASE S = {}
    BY <1>2, <1>3, <1>4 DEF Step
  <1>5. CASE S # {}
    <2>1. r \in SUBSET S /\ IsFiniteSet(r) /\ r \in SUBSET r
      BY FS_Subset
    <2>2. PICK t : Sums(f, r, t) /\ \A q \in SUBSET r : t[q] = G(S)[q]
      BY <1>1, <2>1, SumsRestricted
    <2>3. Sums(f, r, G(r))
      BY <2>1, SumsExist DEF G
    <2>4. G(r) = t
      BY <2>1, <2>2, <2>3, SumsUnique
    <2>5. G(r)[r] = G(S)[r]
      BY <2>1, <2>2, <2>4
    <2>6. QED
      BY <1>2, <1>3, <1>5, <2>5 DEF Step
  <1>6. QED
    BY <1>4, <1>5

LEMMA SumType ==
    ASSUME NEW f, NEW S, IsFiniteSet(S)
    PROVE  /\ (\A x \in S : f[x] \in Int) => SumOver(f, S) \in Int
           /\ (\A x \in S : f[x] \in Nat) => SumOver(f, S) \in Nat
  <1> DEFINE Bad(N) == {T \in SUBSET S : SumOver(f, T) \notin N}
  <1>1. ASSUME NEW N \in {Int, Nat}, \A x \in S : f[x] \in N, Bad(N) # {}
        PROVE  FALSE
    <2> HIDE DEF Bad
    <2>1. Bad(N) \subseteq SUBSET S
      BY DEF Bad
    <2>2. PICK T \in Bad(N) : \A U \in SUBSET T : U # T => U \notin Bad(N)
      BY <1>1, <2>1, Smallest
    <2> USE DEF Bad
    <2>3. T \in SUBSET S /\ IsFiniteSet(T)
      BY FS_Subset
    <2>c. 0 \in N /\ \A a, b \in N : a + b \in N
      OBVIOUS
    <2>4. CASE T = {}
      <3>1. SumOver(f, T) = 0
        BY <2>3, <2>4, SumStep
      <3>2. QED
        BY <2>2, <2>c, <3>1
    <2>5. CASE T # {}
      <3> DEFINE r == T \ {Chosen(T)}
      <3>1. Chosen(T) \in S /\ r \in SUBSET T /\ r # T /\ r \in SUBSET S
        BY <2>3, <2>5, ChosenIn
      <3>2. SumOver(f, r) \in N /\ f[Chosen(T)] \in N
        BY <1>1, <2>2, <3>1
      <3>3. SumOver(f, T) = f[Chosen(T)] + SumOver(f, r)
        BY <2>3, <2>5, SumStep
      <3> HIDE DEF r
      <3>4. QED
        BY <2>2, <2>c, <3>2, <3>3
    <2>6. QED
      BY <2>4, <2>5
  <1>2. S \in SUBSET S
    OBVIOUS
  <1>3. QED
    BY <1>1, <1>2

(* Any element may be added last.                                           *)
LEMMA SumAny ==
    ASSUME NEW f, NEW S, IsFiniteSet(S), \A x \in S : f[x] \in Int, NEW e \in S
    PROVE  SumOver(f, S) = f[e] + SumOver(f, S \ {e})
  <1> DEFINE Bad == {T \in SUBSET S : \E x \in T : SumOver(f, T) # f[x] + SumOver(f, T \ {x})}
  <1>1. ASSUME Bad # {}
        PROVE  FALSE
    <2> HIDE DEF Bad
    <2>a. Bad \subseteq SUBSET S
      BY DEF Bad
    <2>1. PICK T \in Bad : \A U \in SUBSET T : U # T => U \notin Bad
      BY <2>a, <1>1, Smallest
    <2> USE DEF Bad
    <2>2. T \in SUBSET S /\ IsFiniteSet(T)
      BY FS_Subset
    <2>3. PICK x \in T : SumOver(f, T) # f[x] + SumOver(f, T \ {x})
      BY <2>1
    <2> DEFINE c == Chosen(T)
    <2>4. c \in T /\ SumOver(f, T) = f[c] + SumOver(f, T \ {c})
      BY <2>2, <2>3, ChosenIn, SumStep
    <2>5. x # c
      BY <2>3, <2>4
    <2> DEFINE both == T \ {c, x}
    <2>6. both = (T \ {c}) \ {x} /\ both = (T \ {x}) \ {c}
      OBVIOUS
    <2> HIDE DEF c
    <2>7. SumOver(f, T \ {c}) = f[x] + SumOver(f, both)
      <3> DEFINE r == T \ {c}
      <3>1. r \in SUBSET T /\ r # T /\ x \in r /\ r \in SUBSET S
        BY <2>2, <2>3, <2>4, <2>5
      <3>2. SumOver(f, r) = f[x] + SumOver(f, r \ {x})
        <4> HIDE DEF r
        <4>1. QED
          BY <2>1, <3>1
      <3>3. QED
        BY <2>6, <3>2
    <2>8. SumOver(f, T \ {x}) = f[c] + SumOver(f, both)
      <3> DEFINE r == T \ {x}
      <3>1. r \in SUBSET T /\ r # T /\ c \in r /\ r \in SUBSET S
        BY <2>2, <2>3, <2>4, <2>5
      <3>2. SumOver(f, r) = f[c] + SumOver(f, r \ {c})
        <4> HIDE DEF r
        <4>1. QED
          BY <2>1, <3>1
      <3>3. QED
        BY <2>6, <3>2
    <2>9. IsFiniteSet(both) /\ \A y \in both : f[y] \in Int
      BY <2>2, FS_Subset
    <2>10. f[x] \in Int /\ f[c] \in Int /\ SumOver(f, both) \in Int
      BY <2>2, <2>4, <2>9, SumType
    <2> HIDE DEF both, Bad
    <2>11. QED
      BY <2>3, <2>4, <2>7, <2>8, <2>10
  <1>2. S \in SUBSET S
    OBVIOUS
  <1>3. QED
    BY <1>1, <1>2

(* Sums over one set compare as their terms do, and add up.                 *)
LEMMA SumAdd ==
    ASSUME NEW f, NEW g, NEW h, NEW S, IsFiniteSet(S),
           \A x \in S : f[x] \in Int /\ g[x] \in Int /\ h[x] = f[x] + g[x]
    PROVE  SumOver(h, S) = SumOver(f, S) + SumOver(g, S)
  <1> DEFINE Bad == {T \in SUBSET S : SumOver(h, T) # SumOver(f, T) + SumOver(g, T)}
  <1>1. ASSUME Bad # {}
        PROVE  FALSE
    <2> HIDE DEF Bad
    <2>a. Bad \subseteq SUBSET S
      BY DEF Bad
    <2>1. PICK T \in Bad : \A U \in SUBSET T : U # T => U \notin Bad
      BY <2>a, <1>1, Smallest
    <2> USE DEF Bad
    <2>2. T \in SUBSET S /\ IsFiniteSet(T) /\ SumOver(h, T) # SumOver(f, T) + SumOver(g, T)
      BY <2>1, FS_Subset
    <2>3. CASE T = {}
      <3>1. SumOver(f, T) = 0 /\ SumOver(g, T) = 0 /\ SumOver(h, T) = 0
        BY <2>2, <2>3, SumStep
      <3>2. QED
        BY <2>2, <3>1
    <2>4. CASE T # {}
      <3> DEFINE c == Chosen(T)
                 r == T \ {c}
      <3>1. c \in S /\ r \in SUBSET T /\ r # T /\ r \in SUBSET S
        BY <2>2, <2>4, ChosenIn
      <3>2. /\ SumOver(f, T) = f[c] + SumOver(f, r)
            /\ SumOver(g, T) = g[c] + SumOver(g, r)
            /\ SumOver(h, T) = h[c] + SumOver(h, r)
        BY <2>2, <2>4, SumStep
      <3>3. SumOver(h, r) = SumOver(f, r) + SumOver(g, r)
        BY <2>1, <3>1
      <3>4. IsFiniteSet(r)
        BY <3>1, FS_Subset
      <3>5. SumOver(f, r) \in Int /\ SumOver(g, r) \in Int
        BY <3>1, <3>4, SumType
      <3>6. f[c] \in Int /\ g[c] \in Int /\ h[c] = f[c] + g[c]
        BY <3>1
      <3> HIDE DEF c, r, Bad
      <3>7. QED
        BY <2>2, <3>2, <3>3, <3>5, <3>6
    <2>5. QED
      BY <2>3, <2>4
  <1>2. S \in SUBSET S
    OBVIOUS
  <1>3. QED
    BY <1>1, <1>2

(* Terms that are zero do not count.                                        *)
LEMMA SumWithin ==
    ASSUME NEW f, NEW S, IsFiniteSet(S), NEW R \in SUBSET S,
           \A x \in S : f[x] \in Int, \A x \in S \ R : f[x] = 0
    PROVE  SumOver(f, S) = SumOver(f, R)
  <1> DEFINE Bad == {T \in SUBSET S : R \subseteq T /\ SumOver(f, T) # SumOver(f, R)}
  <1>1. ASSUME Bad # {}
        PROVE  FALSE
    <2> HIDE DEF Bad
    <2>a. Bad \subseteq SUBSET S
      BY DEF Bad
    <2>1. PICK T \in Bad : \A U \in SUBSET T : U # T => U \notin Bad
      BY <2>a, <1>1, Smallest
    <2> USE DEF Bad
    <2>2. T \in SUBSET S /\ IsFiniteSet(T) /\ R \subseteq T /\ SumOver(f, T) # SumOver(f, R)
      BY <2>1, FS_Subset
    <2>3. PICK x \in T : x \notin R
      BY <2>2
    <2> DEFINE r == T \ {x}
    <2>4. r \in SUBSET T /\ r # T /\ r \in SUBSET S /\ R \subseteq r
      BY <2>2, <2>3
    <2>5. SumOver(f, T) = f[x] + SumOver(f, r) /\ f[x] = 0
      BY <2>2, <2>3, SumAny
    <2>6. IsFiniteSet(r) /\ \A y \in r : f[y] \in Int
      BY <2>4, FS_Subset
    <2>7. SumOver(f, r) \in Int
      BY <2>6, SumType
    <2>8. SumOver(f, r) = SumOver(f, R)
      BY <2>1, <2>4
    <2> HIDE DEF r, Bad
    <2>9. QED
      BY <2>2, <2>5, <2>7, <2>8
  <1>2. S \in SUBSET S /\ R \subseteq S
    OBVIOUS
  <1>3. QED
    BY <1>1, <1>2

LEMMA SumSame ==
    ASSUME NEW f, NEW g, NEW S, IsFiniteSet(S), \A x \in S : f[x] \in Int /\ g[x] = f[x]
    PROVE  SumOver(g, S) = SumOver(f, S)
  <1> DEFINE zero == [x \in S |-> 0]
  <1>1. SumOver(g, S) = SumOver(f, S) + SumOver(zero, S)
    BY SumAdd
  <1>2. SumOver(zero, S) = 0
    <2>1. SumOver(zero, S) = SumOver(zero, {}) BY SumWithin
    <2>2. SumOver(zero, {}) = 0 BY SumStep, FS_EmptySet
    <2> QED BY <2>1, <2>2
  <1>3. SumOver(f, S) \in Int
    BY SumType
  <1> QED BY <1>1, <1>2, <1>3

(* A sum is that over a part of the set and that over the rest of it.       *)
LEMMA SumSplit ==
    ASSUME NEW f, NEW S, IsFiniteSet(S), NEW R \in SUBSET S, \A x \in S : f[x] \in Int
    PROVE  SumOver(f, S) = SumOver(f, R) + SumOver(f, S \ R)
  <1> DEFINE in == [x \in S |-> IF x \in R THEN f[x] ELSE 0]
             rest == [x \in S |-> IF x \in R THEN 0 ELSE f[x]]
  <1>1. SumOver(f, S) = SumOver(in, S) + SumOver(rest, S)
    BY SumAdd
  <1>2. IsFiniteSet(R) /\ IsFiniteSet(S \ R)
    BY FS_Subset
  <1>3. SumOver(in, S) = SumOver(in, R) /\ SumOver(in, R) = SumOver(f, R)
    <2>1. SumOver(in, S) = SumOver(in, R) BY SumWithin
    <2>2. SumOver(in, R) = SumOver(f, R) BY <1>2, SumSame
    <2> QED BY <2>1, <2>2
  <1>4. SumOver(rest, S) = SumOver(rest, S \ R) /\ SumOver(rest, S \ R) = SumOver(f, S \ R)
    <2>1. S \ R \in SUBSET S /\ \A x \in S \ (S \ R) : rest[x] = 0 OBVIOUS
    <2>2. SumOver(rest, S) = SumOver(rest, S \ R) BY <2>1, SumWithin
    <2>3. SumOver(rest, S \ R) = SumOver(f, S \ R) BY <1>2, SumSame
    <2> QED BY <2>2, <2>3
  <1> QED BY <1>1, <1>3, <1>4

-----------------------------------------------------------------------------
(* Min is defined by choice: that it is there takes well-foundedness.       *)
LEMMA LeastOfFinite ==
    ASSUME NEW S \in SUBSET Nat, IsFiniteSet(S), S # {}
    PROVE  \E m \in S : \A x \in S : m <= x
  <1> DEFINE Has(T) == \E m \in T : \A x \in T : m <= x
             Bad == {T \in SUBSET S : T # {} /\ ~Has(T)}
  <1>1. ASSUME Bad # {}
        PROVE  FALSE
    <2> HIDE DEF Bad
    <2>a. Bad \subseteq SUBSET S
      BY DEF Bad
    <2>1. PICK T \in Bad : \A U \in SUBSET T : U # T => U \notin Bad
      BY <2>a, <1>1, Smallest
    <2> USE DEF Bad
    <2>2. T \in SUBSET Nat /\ T # {} /\ ~Has(T)
      OBVIOUS
    <2>3. PICK c \in T : TRUE
      BY <2>2
    <2>4. T \ {c} \notin Bad
      BY <2>1, <2>3
    <2>5. CASE T \ {c} = {}
      BY <2>2, <2>3, <2>5
    <2>6. CASE T \ {c} # {}
      <3>1. PICK m \in T \ {c} : \A x \in T \ {c} : m <= x
        BY <2>4, <2>6
      <3>2. CASE m <= c
        BY <3>1, <3>2, <2>2, <2>3
      <3>3. CASE ~(m <= c)
        BY <3>1, <3>3, <2>2, <2>3
      <3>4. QED
        BY <3>2, <3>3
    <2>7. QED
      BY <2>5, <2>6
  <1>2. QED
    BY <1>1

LEMMA MinIn ==
    ASSUME NEW S \in SUBSET Nat, S # {}
    PROVE  Min(S) \in S /\ \A x \in S : Min(S) <= x
  <1>1. PICK n \in S : TRUE
    OBVIOUS
  <1> DEFINE low == {x \in S : x <= n}
  <1>a. \A x \in S : x \in Nat
    OBVIOUS
  <1>2. /\ \A x \in low : x \in 0 .. n
        /\ low \in SUBSET Nat /\ n \in low
    <2>1. n \in Nat /\ n <= n
      BY <1>a
    <2>2. ASSUME NEW x \in low
          PROVE  x \in 0 .. n /\ x \in Nat
      <3>1. x \in Nat /\ x <= n
        BY <1>a
      <3>2. QED
        BY <2>1, <3>1
    <2>3. QED
      BY <2>1, <2>2
  <1>3. IsFiniteSet(low)
    <2>1. low \subseteq 0 .. n
      BY <1>2
    <2>2. IsFiniteSet(0 .. n)
      BY <1>a, FS_Interval
    <2>3. QED
      BY <2>1, <2>2, FS_Subset
  <1>4. PICK m \in low : \A x \in low : m <= x
    BY <1>2, <1>3, LeastOfFinite
  <1>5. m \in S /\ \A x \in S : m <= x
    BY <1>1, <1>4
  <1>6. QED
    BY <1>5 DEF Min
=============================================================================
