------------------------------ MODULE FoldTheorems ------------------------------
(***************************************************************************)
(* Induction over the natural numbers, and the folds the specifications    *)
(* take: what is true of a fold for every set, function or sequence; and   *)
(* what division and remainder are to the numbers they come from.  The     *)
(* induction is over a set of numbers, and the step of a recursion is a    *)
(* function, so that every lemma is about constants alone.                 *)
(***************************************************************************)
EXTENDS Integers, Sequences, FiniteSetsExt, FiniteSetTheorems, WellFoundedInduction, TLAPS

--------------------------------------------------------------------------------
(* Induction *)

\* A set of natural numbers that is not empty has a least element.
LEMMA LeastNatural ==
    ASSUME NEW S \in SUBSET Nat, S # {}
    PROVE  \E m \in S : \A n \in S : m <= n
<1>. DEFINE R == {p \in Nat \X Nat : p[1] < p[2]}
<1>1. IsWellFoundedOn(R, Nat)
  BY NatLessThanWellFounded, Zenon DEF OpToRel
<1>2. PICK m \in S : \A n \in S : ~(<<n, m>> \in R)
  <2>. HIDE DEF R
  <2>. QED
    BY <1>1, WFMin
<1>3. \A n \in S : <<n, m>> \notin R => m <= n
  OBVIOUS
<1>. HIDE DEF R
<1>. QED
  BY <1>2, <1>3

\* A set of numbers that contains 0, and with a number the next one, contains all.
LEMMA Induction ==
    ASSUME NEW S, 0 \in S, \A n \in Nat : n \in S => n + 1 \in S
    PROVE  Nat \subseteq S
<1>. SUFFICES ASSUME Nat \ S # {}
              PROVE  FALSE
  OBVIOUS
<1>1. PICK m \in Nat \ S : \A n \in Nat \ S : m <= n
  BY LeastNatural
<1>2. m - 1 \in Nat /\ m - 1 + 1 = m
  BY <1>1
<1>3. m - 1 \in S
  BY <1>1, <1>2
<1>. QED
  BY <1>1, <1>2, <1>3

\* The same up to a number.
LEMMA BoundedInduction ==
    ASSUME NEW S, NEW n \in Nat, 0 \in S, \A k \in 0 .. n - 1 : k \in S => k + 1 \in S
    PROVE  0 .. n \subseteq S
<1>. DEFINE T == {k \in Nat : k <= n => k \in S}
<1>1. 0 \in T
  OBVIOUS
<1>2. \A k \in Nat : k \in T => k + 1 \in T
  OBVIOUS
<1>3. Nat \subseteq T
  <2>. HIDE DEF T
  <2>. QED
    BY <1>1, <1>2, Induction
<1>. QED
  BY <1>3

\* What holds of the empty sequence, and of a sequence with one element more, holds
\* of every sequence.
LEMMA SequenceInduction ==
    ASSUME NEW E, NEW P, <<>> \in P,
           \A s \in Seq(E), e \in E : s \in P => Append(s, e) \in P
    PROVE  Seq(E) \subseteq P
<1>. SUFFICES ASSUME NEW events \in Seq(E)
              PROVE  events \in P
  OBVIOUS
<1>. DEFINE n == Len(events)
            pre(k) == SubSeq(events, 1, k)
            S == {k \in 0 .. n : pre(k) \in P}
<1>1. n \in Nat /\ \A i \in 1 .. n : events[i] \in E
  OBVIOUS
<1>2. pre(0) = <<>> /\ pre(n) = events
  OBVIOUS
<1>3. ASSUME NEW k \in 0 .. n - 1
      PROVE  pre(k) \in Seq(E) /\ pre(k + 1) = Append(pre(k), events[k + 1])
  OBVIOUS
<1>4. 0 \in S
  <2>. HIDE DEF pre
  <2>. QED
    BY <1>1, <1>2
<1>5. ASSUME NEW k \in 0 .. n - 1, k \in S
      PROVE  k + 1 \in S
  <2>. HIDE DEF pre
  <2>1. events[k + 1] \in E /\ k + 1 \in 0 .. n
    BY <1>1
  <2>2. pre(k) \in P
    BY <1>5
  <2>3. pre(k + 1) \in P
    BY <1>3, <2>1, <2>2
  <2>. QED
    BY <2>1, <2>3
<1>6. 0 .. n \subseteq S
  <2>. HIDE DEF S, n
  <2>. QED
    BY <1>1, <1>4, <1>5, BoundedInduction
<1>7. n \in S
  <2>1. n \in 0 .. n
    BY <1>1
  <2>. HIDE DEF S, n
  <2>. QED
    BY <1>6, <2>1
<1>. HIDE DEF pre
<1>. QED
  BY <1>2, <1>7

\* The repeated application of a function to a value.
Iterates(f, D, base, step) ==
    f \in [Nat -> D] /\ f[0] = base /\ \A n \in Nat : f[n + 1] = step[f[n]]

\* A step can be repeated: the function that does it exists.
LEMMA Iteration ==
    ASSUME NEW D, NEW base \in D, NEW step \in [D -> D]
    PROVE  \E f : Iterates(f, D, base, step)
<1>. DEFINE Prefix(n) ==
        {g \in [0 .. n -> D] : g[0] = base /\ \A k \in 0 .. n - 1 : g[k + 1] = step[g[k]]}
<1>1. \A n \in Nat : Prefix(n) # {}
  <2>. DEFINE S == {n \in Nat : Prefix(n) # {}}
  <2>1. 0 \in S
    <3>1. [k \in 0 .. 0 |-> base] \in Prefix(0)
      OBVIOUS
    <3>. QED
      BY <3>1
  <2>2. ASSUME NEW n \in Nat, n \in S
        PROVE  n + 1 \in S
    <3>1. PICK g \in [0 .. n -> D] :
              g[0] = base /\ \A k \in 0 .. n - 1 : g[k + 1] = step[g[k]]
      BY <2>2
    <3>. DEFINE h == [k \in 0 .. n + 1 |-> IF k = n + 1 THEN step[g[n]] ELSE g[k]]
    <3>2. h \in [0 .. n + 1 -> D]
      BY <3>1
    <3>3. h[0] = base
      BY <3>1
    <3>4. ASSUME NEW k \in 0 .. n
          PROVE  h[k + 1] = step[h[k]]
      <4>1. CASE k = n
        BY <4>1
      <4>2. CASE k \in 0 .. n - 1
        BY <3>1, <4>2
      <4>. QED
        BY <4>1, <4>2
    <3>5. h \in Prefix(n + 1)
      BY <3>2, <3>3, <3>4
    <3>. QED
      BY <3>5
  <2>3. Nat \subseteq S
    <3>. HIDE DEF S
    <3>. QED
      BY <2>1, <2>2, Induction
  <2>. QED
    BY <2>3
<1>. DEFINE f == [n \in Nat |-> (CHOOSE g \in Prefix(n) : TRUE)[n]]
<1>2. ASSUME NEW n \in Nat, NEW g \in Prefix(n), NEW h \in Prefix(n + 1)
      PROVE  \A k \in 0 .. n : g[k] = h[k]
  <2>. DEFINE S == {k \in 0 .. n : g[k] = h[k]}
  <2>1. 0 \in S
    OBVIOUS
  <2>2. \A k \in 0 .. n - 1 : k \in S => k + 1 \in S
    OBVIOUS
  <2>3. 0 .. n \subseteq S
    <3>. HIDE DEF S
    <3>. QED
      BY <2>1, <2>2, BoundedInduction
  <2>. QED
    BY <2>3
<1>3. ASSUME NEW n \in Nat
      PROVE  /\ f[n] \in D
             /\ n = 0 => f[n] = base
             /\ f[n + 1] = step[f[n]]
  <2>. DEFINE g == CHOOSE g \in Prefix(n) : TRUE
              h == CHOOSE h \in Prefix(n + 1) : TRUE
  <2>1. g \in Prefix(n) /\ h \in Prefix(n + 1)
    <3>1. Prefix(n) # {} /\ Prefix(n + 1) # {}
      BY <1>1
    <3>. HIDE DEF Prefix
    <3>. QED
      BY <3>1
  <2>2. f[n] = g[n] /\ f[n + 1] = h[n + 1]
    OBVIOUS
  <2>3. g[n] = h[n]
    <3>. HIDE DEF g, h, Prefix
    <3>. QED
      BY <1>2, <2>1
  <2>4. h[n + 1] = step[h[n]] /\ g[n] \in D /\ g[0] = base
    <3>. HIDE DEF g, h
    <3>. QED
      BY <2>1
  <2>. HIDE DEF f, g, h, Prefix
  <2>. QED
    BY <2>2, <2>3, <2>4
<1>4. f \in [Nat -> D]
  BY <1>3
<1>. HIDE DEF f
<1>. QED
  BY <1>3, <1>4 DEF Iterates
--------------------------------------------------------------------------------
(* Recursion over the subsets of a finite set *)

\* A property of sets that the empty set has, and a set all of whose subsets with
\* one element less have it.
LEMMA SetInduction ==
    ASSUME NEW S, IsFiniteSet(S), NEW P,
           {} \in P,
           \A s \in SUBSET S : s # {} /\ (\A x \in s : s \ {x} \in P) => s \in P
    PROVE  SUBSET S \subseteq P
<1>. DEFINE N == {n \in Nat : \A s \in SUBSET S : Cardinality(s) = n => s \in P}
<1>1. \A s \in SUBSET S : IsFiniteSet(s) /\ Cardinality(s) \in Nat
  BY FS_Subset, FS_CardinalityType
<1>2. 0 \in N
  BY <1>1, FS_EmptySet
<1>3. ASSUME NEW n \in Nat, n \in N
      PROVE  n + 1 \in N
  <2>1. ASSUME NEW s \in SUBSET S, Cardinality(s) = n + 1
        PROVE  s \in P
    <3>1. s # {}
      BY <2>1, FS_EmptySet
    <3>2. ASSUME NEW x \in s
          PROVE  s \ {x} \in P
      <4>1. Cardinality(s \ {x}) = n
        BY <1>1, <2>1, FS_RemoveElement
      <4>. QED
        BY <1>3, <4>1
    <3>. QED
      BY <3>1, <3>2
  <2>. QED
    BY <2>1
<1>4. Nat \subseteq N
  <2>. HIDE DEF N
  <2>. QED
    BY <1>2, <1>3, Induction
<1>. QED
  BY <1>1, <1>4

\* A choice of an element of every subset.
Picks(pick, S) == \A s \in SUBSET S : s # {} => pick[s] \in s

\* A function on the subsets of S that takes them apart element by element.
Recurses(g, S, D, base, pick, step) ==
    /\ g \in [SUBSET S -> D]
    /\ \A s \in SUBSET S :
          g[s] = IF s = {} THEN base ELSE step[<<pick[s], g[s \ {pick[s]}]>>]

\* It exists for every finite set.
LEMMA SetRecursion ==
    ASSUME NEW S, IsFiniteSet(S), NEW D, NEW base \in D, NEW pick, Picks(pick, S),
           NEW step \in [S \X D -> D]
    PROVE  \E g : Recurses(g, S, D, base, pick, step)
<1>. DEFINE E == [SUBSET S -> D]
            Next(g) == [s \in SUBSET S |->
                          IF s = {} THEN base ELSE step[<<pick[s], g[s \ {pick[s]}]>>]]
            first == [s \in SUBSET S |-> base]
            next == [g \in E |-> Next(g)]
<1>1. first \in E
  OBVIOUS
<1>2. next \in [E -> E]
  <2>1. ASSUME NEW g \in E, NEW s \in SUBSET S, s # {}
        PROVE  step[<<pick[s], g[s \ {pick[s]}]>>] \in D
    <3>1. pick[s] \in S /\ s \ {pick[s]} \in SUBSET S
      BY <2>1 DEF Picks
    <3>2. g[s \ {pick[s]}] \in D
      BY <3>1
    <3>. QED
      BY <3>1, <3>2
  <2>. QED
    BY <2>1
<1>3. PICK f \in [Nat -> E] : f[0] = first /\ \A n \in Nat : f[n + 1] = next[f[n]]
  <2>. HIDE DEF E, first, next
  <2>1. \E f : Iterates(f, E, first, next)
    BY <1>1, <1>2, Iteration, Zenon
  <2>. QED
    BY <2>1, Zenon DEF Iterates
<1>4. \A n \in Nat : f[n] \in E /\ f[n + 1] = Next(f[n])
  <2>. HIDE DEF E, Next
  <2>. QED
    BY <1>3
<1>5. \A s \in SUBSET S :
         /\ IsFiniteSet(s) /\ Cardinality(s) \in Nat
         /\ \A x \in s : Cardinality(s \ {x}) = Cardinality(s) - 1
  <2>. HIDE DEF E, first, next
  <2>1. \A s \in SUBSET S : IsFiniteSet(s) /\ Cardinality(s) \in Nat
    BY FS_Subset, FS_CardinalityType
  <2>. QED
    BY <2>1, FS_RemoveElement
<1>. DEFINE N == {n \in Nat : \A s \in SUBSET S : Cardinality(s) <= n => f[n + 1][s] = f[n][s]}
<1>6. 0 \in N
  <2>1. ASSUME NEW s \in SUBSET S, Cardinality(s) <= 0
        PROVE  f[1][s] = f[0][s]
    <3>1. s = {}
      BY <1>5, <2>1, FS_EmptySet
    <3>2. f[1] = Next(f[0])
      <4>1. 0 \in Nat /\ 0 + 1 = 1
        OBVIOUS
      <4>. HIDE DEF Next, E
      <4>. QED
        BY <1>4, <4>1
    <3>3. Next(f[0])[{}] = base /\ first[{}] = base
      OBVIOUS
    <3>. HIDE DEF Next, first
    <3>. QED
      BY <1>3, <3>1, <3>2, <3>3
  <2>. QED
    BY <2>1
<1>7. ASSUME NEW n \in Nat, n \in N
      PROVE  n + 1 \in N
  <2>1. ASSUME NEW s \in SUBSET S, Cardinality(s) <= n + 1
        PROVE  f[n + 2][s] = f[n + 1][s]
    <3>1. f[n + 1] = Next(f[n]) /\ f[n + 2] = Next(f[n + 1])
      <4>1. n \in Nat /\ n + 1 \in Nat /\ n + 2 = (n + 1) + 1
        OBVIOUS
      <4>. HIDE DEF Next, E
      <4>. QED
        BY <1>4, <4>1
    <3>2. CASE s = {}
      BY <3>1, <3>2
    <3>3. CASE s # {}
      <4>. DEFINE rest == s \ {pick[s]}
      <4>1. pick[s] \in s /\ IsFiniteSet(s) /\ Cardinality(s) \in Nat /\ rest \in SUBSET S
        BY <1>5, <3>3 DEF Picks
      <4>2. Cardinality(rest) = Cardinality(s) - 1
        BY <1>5, <4>1
      <4>3. n \in Nat /\ Cardinality(rest) <= n
        BY <2>1, <4>1, <4>2
      <4>4. f[n + 1][rest] = f[n][rest]
        <5>. HIDE DEF rest
        <5>. QED
          BY <1>7, <4>1, <4>3
      <4>5. \A g : Next(g)[s] = step[<<pick[s], g[rest]>>]
        BY <3>3
      <4>. HIDE DEF rest, Next
      <4>. QED
        BY <3>1, <4>4, <4>5
    <3>. QED
      BY <3>2, <3>3
  <2>2. (n + 1) + 1 = n + 2
    OBVIOUS
  <2>. QED
    BY <2>1, <2>2
<1>8. Nat \subseteq N
  <2>. HIDE DEF N
  <2>. QED
    BY <1>6, <1>7, Induction
<1>. DEFINE n == Cardinality(S)
<1>9. n \in Nat /\ \A s \in SUBSET S : Cardinality(s) <= n
  BY <1>5, FS_Subset
<1>10. \A s \in SUBSET S : f[n][s] = Next(f[n])[s]
  <2>1. f[n + 1] = Next(f[n])
    <3>. HIDE DEF Next, n
    <3>. QED
      BY <1>4, <1>9
  <2>. HIDE DEF Next, n
  <2>. QED
    BY <1>8, <1>9, <2>1
<1>11. f[n] \in [SUBSET S -> D]
  BY <1>4, <1>9
<1>. QED
  BY <1>10, <1>11 DEF Recurses
--------------------------------------------------------------------------------
(* Sums *)

\* The sum of the values of a function.
SumOf(f) == FoldFunction(+, 0, f)

\* What the fold of a sum computes on the way.
Summing(f, g) ==
    g = [s \in SUBSET DOMAIN f |->
            IF s = {} THEN 0
            ELSE f[CHOOSE x \in s : TRUE] + g[s \ {CHOOSE x \in s : TRUE}]]

\* A sum is computed that way.
LEMMA SumFold ==
    ASSUME NEW S, IsFiniteSet(S), NEW f \in [S -> Int]
    PROVE  \E g \in [SUBSET S -> Int] : Summing(f, g) /\ SumOf(f) = g[S]
<1>. DEFINE pick == [s \in SUBSET S |-> CHOOSE x \in s : TRUE]
            step == [p \in S \X Int |-> f[p[1]] + p[2]]
<1>1. Picks(pick, S)
  BY DEF Picks
<1>2. step \in [S \X Int -> Int]
  OBVIOUS
<1>3. PICK g \in [SUBSET S -> Int] : \A s \in SUBSET S :
         g[s] = IF s = {} THEN 0 ELSE step[<<pick[s], g[s \ {pick[s]}]>>]
  <2>1. 0 \in Int
    OBVIOUS
  <2>. HIDE DEF pick, step
  <2>2. \E g : Recurses(g, S, Int, 0, pick, step)
    BY <1>1, <1>2, <2>1, SetRecursion, Zenon
  <2>. QED
    BY <2>2, Zenon DEF Recurses
<1>4. Summing(f, g)
  <2>1. ASSUME NEW s \in SUBSET S, s # {}
        PROVE  g[s] = f[CHOOSE x \in s : TRUE] + g[s \ {CHOOSE x \in s : TRUE}]
    <3>1. pick[s] \in S /\ s \ {pick[s]} \in SUBSET S
      BY <1>1, <2>1 DEF Picks
    <3>2. g[s \ {pick[s]}] \in Int
      BY <3>1
    <3>3. step[<<pick[s], g[s \ {pick[s]}]>>] = f[pick[s]] + g[s \ {pick[s]}]
      <4>. DEFINE x == pick[s]
                  y == g[s \ {x}]
      <4>0. x \in S /\ y \in Int
        BY <3>1, <3>2
      <4>. HIDE DEF x, y, pick
      <4>1. <<x, y>> \in S \X Int
        BY <4>0
      <4>. USE DEF x, y
      <4>. QED
        BY <4>1
    <3>4. pick[s] = CHOOSE x \in s : TRUE
      OBVIOUS
    <3>. HIDE DEF pick, step
    <3>. QED
      BY <1>3, <2>1, <3>3, <3>4
  <2>. QED
    BY <1>3, <2>1 DEF Summing
<1>. DEFINE h == CHOOSE h : Summing(f, h)
<1>5. Summing(f, h)
  BY <1>4
<1>6. h \in [SUBSET S -> Int]
  <2>. DEFINE P == {s \in SUBSET S : h[s] \in Int}
  <2>. HIDE DEF h
  <2>1. {} \in P
    BY <1>5 DEF Summing
  <2>2. ASSUME NEW s \in SUBSET S, s # {}, \A x \in s : s \ {x} \in P
        PROVE  s \in P
    <3>. DEFINE x == CHOOSE x \in s : TRUE
    <3>1. x \in s
      BY <2>2
    <3>2. h[s] = f[x] + h[s \ {x}]
      BY <1>5, <2>2 DEF Summing
    <3>. HIDE DEF x
    <3>. QED
      BY <2>2, <3>1, <3>2
  <2>3. SUBSET S \subseteq P
    <3>. HIDE DEF P
    <3>. QED
      BY <2>1, <2>2, SetInduction
  <2>. QED
    BY <1>5, <2>3 DEF Summing
<1>7. SumOf(f) = h[S]
  BY DEF SumOf, FoldFunction, FoldFunctionOnSet, MapThenFoldSet, Summing
<1>. HIDE DEF h
<1>. QED
  BY <1>5, <1>6, <1>7

\* A sum is a number, natural if what is added is.
LEMMA SumType ==
    ASSUME NEW S, IsFiniteSet(S), NEW f \in [S -> Nat]
    PROVE  SumOf(f) \in Nat
<1>0. f \in [S -> Int]
  OBVIOUS
<1>1. PICK g \in [SUBSET S -> Int] : Summing(f, g) /\ SumOf(f) = g[S]
  BY <1>0, SumFold
<1>. DEFINE P == {s \in SUBSET S : g[s] \in Nat}
<1>2. {} \in P
  BY <1>1 DEF Summing
<1>3. ASSUME NEW s \in SUBSET S, s # {}, \A x \in s : s \ {x} \in P
      PROVE  s \in P
  <2>. DEFINE x == CHOOSE x \in s : TRUE
  <2>1. x \in s
    BY <1>3
  <2>2. g[s] = f[x] + g[s \ {x}]
    BY <1>1, <1>3 DEF Summing
  <2>. HIDE DEF x
  <2>. QED
    BY <1>3, <2>1, <2>2
<1>4. SUBSET S \subseteq P
  <2>. HIDE DEF P
  <2>. QED
    BY <1>2, <1>3, SetInduction
<1>. QED
  BY <1>1, <1>4

\* The sum of zeros is zero.
LEMMA SumZero ==
    ASSUME NEW S, IsFiniteSet(S), NEW f \in [S -> Int], \A x \in S : f[x] = 0
    PROVE  SumOf(f) = 0
<1>1. PICK g \in [SUBSET S -> Int] : Summing(f, g) /\ SumOf(f) = g[S]
  BY SumFold
<1>. DEFINE P == {s \in SUBSET S : g[s] = 0}
<1>2. {} \in P
  BY <1>1 DEF Summing
<1>3. ASSUME NEW s \in SUBSET S, s # {}, \A x \in s : s \ {x} \in P
      PROVE  s \in P
  <2>. DEFINE x == CHOOSE x \in s : TRUE
  <2>1. x \in s
    BY <1>3
  <2>2. g[s] = f[x] + g[s \ {x}]
    BY <1>1, <1>3 DEF Summing
  <2>. HIDE DEF x
  <2>. QED
    BY <1>3, <2>1, <2>2
<1>4. SUBSET S \subseteq P
  <2>. HIDE DEF P
  <2>. QED
    BY <1>2, <1>3, SetInduction
<1>. QED
  BY <1>1, <1>4

\* Sums of functions add up.
LEMMA SumPlus ==
    ASSUME NEW S, IsFiniteSet(S), NEW f \in [S -> Int], NEW g \in [S -> Int],
           NEW h \in [S -> Int], \A x \in S : h[x] = f[x] + g[x]
    PROVE  SumOf(h) = SumOf(f) + SumOf(g)
<1>1. PICK tf \in [SUBSET S -> Int] : Summing(f, tf) /\ SumOf(f) = tf[S]
  BY SumFold
<1>2. PICK tg \in [SUBSET S -> Int] : Summing(g, tg) /\ SumOf(g) = tg[S]
  BY SumFold
<1>3. PICK th \in [SUBSET S -> Int] : Summing(h, th) /\ SumOf(h) = th[S]
  BY SumFold
<1>. DEFINE P == {s \in SUBSET S : th[s] = tf[s] + tg[s]}
<1>4. {} \in P
  BY <1>1, <1>2, <1>3 DEF Summing
<1>5. ASSUME NEW s \in SUBSET S, s # {}, \A x \in s : s \ {x} \in P
      PROVE  s \in P
  <2>. DEFINE x == CHOOSE x \in s : TRUE
  <2>1. x \in s /\ x \in S /\ s \ {x} \in SUBSET S
    BY <1>5
  <2>. HIDE DEF x
  <2>2. tf[s] = f[x] + tf[s \ {x}] /\ tg[s] = g[x] + tg[s \ {x}] /\ th[s] = h[x] + th[s \ {x}]
    BY <1>1, <1>2, <1>3, <1>5 DEF Summing, x
  <2>3. th[s \ {x}] = tf[s \ {x}] + tg[s \ {x}]
    BY <1>5, <2>1
  <2>4. f[x] \in Int /\ g[x] \in Int /\ tf[s \ {x}] \in Int /\ tg[s \ {x}] \in Int
    BY <2>1
  <2>. QED
    BY <2>1, <2>2, <2>3, <2>4
<1>6. SUBSET S \subseteq P
  <2>. HIDE DEF P
  <2>. QED
    BY <1>4, <1>5, SetInduction
<1>. QED
  BY <1>1, <1>2, <1>3, <1>6
--------------------------------------------------------------------------------
(* Least and greatest elements *)

\* A sum may begin anywhere.
LEMMA SumRemove ==
    ASSUME NEW S, IsFiniteSet(S), NEW f \in [S -> Int], NEW x \in S,
           NEW g, g = [y \in S \ {x} |-> f[y]]
    PROVE  SumOf(g) \in Int /\ SumOf(f) = f[x] + SumOf(g)
<1>1. PICK F \in [SUBSET S -> Int] : Summing(f, F) /\ SumOf(f) = F[S]
  BY SumFold
<1>. DEFINE T == S \ {x}
<1>2. IsFiniteSet(T) /\ T \subseteq S /\ g \in [T -> Int] /\ \A y \in T : g[y] = f[y]
  BY FS_Subset
<1>3. PICK G \in [SUBSET T -> Int] : Summing(g, G) /\ SumOf(g) = G[T]
  <2>. HIDE DEF T
  <2>. QED
    BY <1>2, SumFold
<1>4. F[{}] = 0 /\ G[{}] = 0
  BY <1>1, <1>2, <1>3 DEF Summing
<1>5. ASSUME NEW s \in SUBSET S, s # {}
      PROVE  \E c \in s : F[s] = f[c] + F[s \ {c}] /\ (s \in SUBSET T => G[s] = g[c] + G[s \ {c}])
  <2>. DEFINE c == CHOOSE y \in s : TRUE
  <2>1. c \in s
    BY <1>5
  <2>2. F[s] = f[c] + F[s \ {c}]
    BY <1>1, <1>5 DEF Summing
  <2>3. s \in SUBSET T => G[s] = g[c] + G[s \ {c}]
    BY <1>2, <1>3, <1>5 DEF Summing
  <2>. HIDE DEF c
  <2>. QED
    BY <2>1, <2>2, <2>3
<1>6. \A s \in SUBSET S : F[s] \in Int
  BY <1>1
<1>. DEFINE P == {s \in SUBSET S : \A y \in s : F[s] = f[y] + F[s \ {y}]}
<1>7. {} \in P
  OBVIOUS
<1>8. ASSUME NEW s \in SUBSET S, s # {}, \A y \in s : s \ {y} \in P
      PROVE  s \in P
  <2>1. PICK c \in s : F[s] = f[c] + F[s \ {c}]
    BY <1>5, <1>8
  <2>2. ASSUME NEW y \in s, y # c
        PROVE  F[s] = f[y] + F[s \ {y}]
    <3>. DEFINE rest == (s \ {c}) \ {y}
    <3>1. F[s \ {c}] = f[y] + F[rest]
      BY <1>8, <2>2
    <3>2. F[s \ {y}] = f[c] + F[rest]
      <4>1. rest = (s \ {y}) \ {c}
        OBVIOUS
      <4>. QED
        BY <1>8, <2>2, <4>1
    <3>3. rest \in SUBSET S /\ s \ {y} \in SUBSET S /\ s \ {c} \in SUBSET S
      OBVIOUS
    <3>. HIDE DEF rest
    <3>4. F[rest] \in Int /\ f[y] \in Int /\ f[c] \in Int
      BY <1>6, <3>3
    <3>. QED
      BY <2>1, <3>1, <3>2, <3>4
  <2>. QED
    BY <2>1, <2>2
<1>9. SUBSET S \subseteq P
  <2>. HIDE DEF P
  <2>. QED
    BY <1>7, <1>8, SetInduction
<1>10. F[S] = f[x] + F[T]
  BY <1>9
<1>. DEFINE Q == {s \in SUBSET T : G[s] = F[s]}
<1>11. {} \in Q
  BY <1>4
<1>12. ASSUME NEW s \in SUBSET T, s # {}, \A y \in s : s \ {y} \in Q
       PROVE  s \in Q
  <2>1. PICK c \in s : F[s] = f[c] + F[s \ {c}] /\ (s \in SUBSET T => G[s] = g[c] + G[s \ {c}])
    BY <1>5, <1>12
  <2>. QED
    BY <1>2, <1>12, <2>1
<1>13. SUBSET T \subseteq Q
  <2>1. \A s \in SUBSET T : s # {} /\ (\A y \in s : s \ {y} \in Q) => s \in Q
    BY <1>12
  <2>2. IsFiniteSet(T)
    BY <1>2
  <2>. HIDE DEF Q
  <2>. HIDE DEF T
  <2>3. {} \in Q
    BY <1>11
  <2>. QED
    BY <2>2, <2>3, <2>1, SetInduction
<1>14. G[T] = F[T] /\ G[T] \in Int
  BY <1>3, <1>13
<1>. QED
  BY <1>1, <1>3, <1>10, <1>14

\* The sum of a function that is zero but at one place.
LEMMA SumSingle ==
    ASSUME NEW S, IsFiniteSet(S), NEW f \in [S -> Int], NEW x \in S, \A y \in S : y # x => f[y] = 0
    PROVE  SumOf(f) = f[x]
<1>. DEFINE T == S \ {x}
            g == [y \in T |-> f[y]]
<1>1. SumOf(f) = f[x] + SumOf(g)
  BY SumRemove
<1>2. IsFiniteSet(T) /\ g \in [T -> Int] /\ \A y \in T : g[y] = 0
  BY FS_Subset
<1>3. SumOf(g) = 0
  <2>. HIDE DEF g, T
  <2>. QED
    BY <1>2, SumZero
<1>. QED
  BY <1>1, <1>3

\* A function without one of its arguments.
Without(f, x) == [y \in DOMAIN f \ {x} |-> f[y]]

\* The same sum, for the function without that argument.
LEMMA SumWithout ==
    ASSUME NEW S, IsFiniteSet(S), NEW f \in [S -> Int], NEW x \in S
    PROVE  SumOf(f) = f[x] + SumOf(Without(f, x))
<1>. DEFINE g == [y \in S \ {x} |-> f[y]]
<1>1. SumOf(f) = f[x] + SumOf(g)
  BY SumRemove
<1>2. Without(f, x) = g
  BY DEF Without
<1>. QED
  BY <1>1, <1>2

\* A sum over at most one place,
LEMMA SumOne ==
    ASSUME NEW x, NEW S, S \subseteq {x}, NEW f \in [S -> Int]
    PROVE  SumOf(f) = IF x \in S THEN f[x] ELSE 0
<1>1. IsFiniteSet({x}) /\ IsFiniteSet(S)
  BY FS_Singleton, FS_Subset
<1>2. CASE x \in S
  <2>1. \A y \in S : y # x => f[y] = 0
    OBVIOUS
  <2>2. SumOf(f) = f[x]
    BY <1>1, <1>2, <2>1, SumSingle
  <2>. QED
    BY <1>2, <2>2
<1>3. CASE x \notin S
  <2>1. \A y \in S : f[y] = 0
    BY <1>3
  <2>2. SumOf(f) = 0
    BY <1>1, <2>1, SumZero
  <2>. QED
    BY <1>3, <2>2
<1>. QED
  BY <1>2, <1>3

\* over at most two,
LEMMA SumTwo ==
    ASSUME NEW a, NEW b, a # b, NEW S, S \subseteq {a, b}, NEW f \in [S -> Int]
    PROVE  SumOf(f) = (IF a \in S THEN f[a] ELSE 0) + (IF b \in S THEN f[b] ELSE 0)
<1>1. IsFiniteSet({a, b}) /\ IsFiniteSet(S)
  <2>1. IsFiniteSet({a})
    BY FS_Singleton
  <2>2. IsFiniteSet({a} \cup {b})
    BY <2>1, FS_AddElement
  <2>3. {a} \cup {b} = {a, b}
    OBVIOUS
  <2>4. IsFiniteSet({a, b})
    BY <2>2, <2>3
  <2>. QED
    BY <2>4, FS_Subset
<1>2. CASE a \in S
  <2>. DEFINE g == Without(f, a)
              T == S \ {a}
  <2>1. SumOf(f) = f[a] + SumOf(g)
    BY <1>1, <1>2, SumWithout
  <2>2. g \in [T -> Int] /\ T \subseteq {b} /\ \A y \in T : g[y] = f[y]
    BY DEF Without
  <2>. HIDE DEF g, T
  <2>3. SumOf(g) = IF b \in T THEN g[b] ELSE 0
    BY <2>2, SumOne
  <2>4. (b \in T <=> b \in S) /\ (b \in S => g[b] = f[b])
    BY <2>2 DEF T
  <2>. QED
    BY <1>2, <2>1, <2>3, <2>4
<1>3. CASE a \notin S
  <2>1. S \subseteq {b}
    BY <1>3
  <2>2. SumOf(f) = IF b \in S THEN f[b] ELSE 0
    BY <2>1, SumOne
  <2>3. b \in S => f[b] \in Int
    OBVIOUS
  <2>. QED
    BY <1>3, <2>2, <2>3
<1>. QED
  BY <1>2, <1>3

\* A set of numbers has a least element.
LEMMA MinOfNaturals ==
    ASSUME NEW S \in SUBSET Nat, S # {}
    PROVE  Min(S) \in S /\ \A n \in S : Min(S) <= n
BY LeastNatural DEF Min

\* A bounded set of numbers has a greatest element.
LEMMA MaxOfNaturals ==
    ASSUME NEW S \in SUBSET Nat, S # {}, NEW bound \in Nat, \A n \in S : n <= bound
    PROVE  Max(S) \in S /\ \A n \in S : Max(S) >= n
<1>. DEFINE T == {bound - n : n \in S}
<1>1. T \in SUBSET Nat /\ T # {}
  <2>1. \A n \in S : bound - n \in Nat
    OBVIOUS
  <2>. QED
    BY <2>1
<1>2. PICK m \in T : \A n \in T : m <= n
  <2>. HIDE DEF T
  <2>. QED
    BY <1>1, LeastNatural
<1>3. PICK x \in S : m = bound - x
  BY <1>2
<1>4. \A n \in S : x >= n
  <2>1. ASSUME NEW n \in S
        PROVE  x >= n
    <3>1. m <= bound - n /\ n \in Nat /\ x \in Nat
      BY <1>2
    <3>. QED
      BY <1>3, <3>1
  <2>. QED
    BY <2>1
<1>. QED
  BY <1>4 DEF Max
--------------------------------------------------------------------------------
(* Folds of sequences *)

\* What the fold of a sequence of length n computes on the way: step takes an index
\* and the result of the elements before it.
Folding(g, n, base, step) ==
    g = [s \in SUBSET (1 .. n) |->
            IF s = {} THEN base ELSE step[<<Max(s), g[s \ {Max(s)}]>>]]

\* A fold over a sequence goes from its first element to its last.
LEMMA SequenceFold ==
    ASSUME NEW n \in Nat, NEW D, NEW base \in D, NEW step \in [(1 .. n) \X D -> D]
    PROVE  \E g \in [SUBSET (1 .. n) -> D] : Folding(g, n, base, step)
<1>. DEFINE S == 1 .. n
            pick == [s \in SUBSET S |-> Max(s)]
<1>1. Picks(pick, S)
  <2>1. ASSUME NEW s \in SUBSET S, s # {}
        PROVE  Max(s) \in s
    <3>1. s \in SUBSET Nat /\ \A i \in s : i <= n
      OBVIOUS
    <3>. HIDE DEF S
    <3>. QED
      BY <2>1, <3>1, MaxOfNaturals
  <2>. QED
    BY <2>1 DEF Picks
<1>2. IsFiniteSet(S)
  BY FS_Interval
<1>3. PICK g : Recurses(g, S, D, base, pick, step)
  <2>1. step \in [S \X D -> D]
    OBVIOUS
  <2>. HIDE DEF S, pick
  <2>. QED
    BY <1>1, <1>2, <2>1, SetRecursion, Zenon
<1>. QED
  BY <1>3 DEF Recurses, Folding

\* The prefixes of the numbers up to n.
LEMMA MaxOfPrefix ==
    ASSUME NEW n \in Nat
    PROVE  /\ 1 .. 0 = {}
           /\ 1 .. n + 1 # {}
           /\ Max(1 .. n + 1) = n + 1
           /\ (1 .. n + 1) \ {n + 1} = 1 .. n
<1>1. n + 1 \in 1 .. n + 1 /\ \A i \in 1 .. n + 1 : n + 1 >= i
  OBVIOUS
<1>2. Max(1 .. n + 1) \in 1 .. n + 1 /\ Max(1 .. n + 1) >= n + 1
  BY <1>1 DEF Max
<1>. QED
  BY <1>2
--------------------------------------------------------------------------------
(* Division *)

\* Going round m places.
LEMMA ModRound ==
    ASSUME NEW m \in Nat \ {0}, NEW n \in 0 .. m - 1, NEW a \in 0 .. m - 1
    PROVE  /\ (n + a) % m = IF n + a < m THEN n + a ELSE n + a - m
           /\ (a + 1) % m = IF a + 1 < m THEN a + 1 ELSE 0
           /\ (a + m) % m = a
<1>1. (n + a) % m = IF n + a < m THEN n + a ELSE n + a - m
  OBVIOUS
<1>2. (a + 1) % m = IF a + 1 < m THEN a + 1 ELSE 0
  OBVIOUS
<1>3. (a + m) % m = a
  OBVIOUS
<1>. QED
  BY <1>1, <1>2, <1>3

\* Multiples of n are ordered as their factors are.
LEMMA Products ==
    ASSUME NEW n \in Nat \ {0}, NEW i \in Int, NEW j \in Int
    PROVE  /\ i * n \in Int
           /\ i <= j => i * n <= j * n
           /\ (i + 1) * n = i * n + n
           /\ i < j => i * n + n <= j * n
OBVIOUS

\* Quotient and remainder make up the number,
LEMMA Division ==
    ASSUME NEW n \in Nat \ {0}, NEW a \in Nat
    PROVE  /\ a \div n \in Nat /\ a % n \in 0 .. n - 1
           /\ a = (a \div n) * n + (a % n)
OBVIOUS

\* and no others do.
LEMMA DivisionUnique ==
    ASSUME NEW n \in Nat \ {0}, NEW q \in Nat, NEW r \in 0 .. n - 1
    PROVE  (q * n + r) % n = r /\ (q * n + r) \div n = q
OBVIOUS

\* Numbers less than n apart have different remainders.
LEMMA ModDistinct ==
    ASSUME NEW n \in Nat \ {0}, NEW a \in Nat, NEW b \in Nat, a < b, b - a < n
    PROVE  a % n # b % n
<1>. DEFINE q == a \div n
            r == b \div n
            x == a % n
            y == b % n
<1>1. /\ q \in Nat /\ x \in Nat /\ a = q * n + x
      /\ r \in Nat /\ y \in Nat /\ b = r * n + y
  BY Division
<1>2. q * n \in Int /\ r * n \in Int
  BY <1>1, Products
<1>. HIDE DEF q, r, x, y
<1>3. CASE r <= q
  <2>1. r * n <= q * n
    BY <1>1, <1>3, Products
  <2>. QED
    BY <1>1, <1>2, <2>1 DEF x, y
<1>4. CASE q < r
  <2>1. q * n + n <= r * n
    BY <1>1, <1>4, Products
  <2>. QED
    BY <1>1, <1>2, <2>1 DEF x, y
<1>. QED
  BY <1>1, <1>3, <1>4

\* A remainder may be taken before an addition.
LEMMA ModShift ==
    ASSUME NEW n \in Nat \ {0}, NEW a \in Nat, NEW b \in Nat
    PROVE  ((a % n) + b) % n = (a + b) % n
<1>. DEFINE q == a \div n
            x == a % n
            r == (x + b) \div n
            y == (x + b) % n
<1>1. q \in Nat /\ x \in Nat /\ a = q * n + x
  BY Division
<1>2. r \in Nat /\ y \in 0 .. n - 1 /\ x + b = r * n + y
  <2>1. x + b \in Nat
    BY <1>1
  <2>. HIDE DEF x
  <2>. QED
    BY <2>1, Division
<1>. HIDE DEF q, x, r, y
<1>3. (q + r) * n = q * n + r * n /\ q * n \in Int /\ r * n \in Int
  BY <1>1, <1>2
<1>4. a + b = (q + r) * n + y
  BY <1>1, <1>2, <1>3
<1>5. q + r \in Nat
  BY <1>1, <1>2
<1>6. ((q + r) * n + y) % n = y
  BY <1>2, <1>5, DivisionUnique
<1>7. (x + b) % n = y
  BY DEF y
<1>. QED
  BY <1>4, <1>6, <1>7 DEF x

\* The element of a set that a fold takes first.
Chosen(s) == CHOOSE x \in s : TRUE

\* What a fold over S computes on the way, element by element.
Collects(h, S, D, base, next) ==
    /\ h \in [SUBSET S -> D] /\ h[{}] = base
    /\ \A s \in SUBSET S : s # {} =>
          /\ Chosen(s) \in s /\ h[s \ {Chosen(s)}] \in D
          /\ h[s] = next[<<Chosen(s), h[s \ {Chosen(s)}]>>]

\* Every step has such a fold.
LEMMA ChosenFold ==
    ASSUME NEW S, IsFiniteSet(S), NEW D, NEW base \in D, NEW next \in [S \X D -> D]
    PROVE  \E h : Collects(h, S, D, base, next)
<1>. DEFINE pick == [s \in SUBSET S |-> Chosen(s)]
<1>0. \A s \in SUBSET S : s # {} => Chosen(s) \in s
  BY DEF Chosen
<1>1. Picks(pick, S)
  BY <1>0 DEF Picks
<1>2. \A s \in SUBSET S : pick[s] = Chosen(s)
  OBVIOUS
<1>. HIDE DEF pick
<1>3. PICK h : Recurses(h, S, D, base, pick, next)
  BY <1>1, SetRecursion, Zenon
<1>4. h \in [SUBSET S -> D] /\ h[{}] = base
  BY <1>3 DEF Recurses
<1>5. ASSUME NEW s \in SUBSET S, s # {}
      PROVE  /\ Chosen(s) \in s /\ h[s \ {Chosen(s)}] \in D
             /\ h[s] = next[<<Chosen(s), h[s \ {Chosen(s)}]>>]
  <2>1. h[s] = next[<<pick[s], h[s \ {pick[s]}]>>]
    BY <1>3, <1>5 DEF Recurses
  <2>2. s \ {Chosen(s)} \in SUBSET S
    OBVIOUS
  <2>. QED
    BY <1>0, <1>2, <1>4, <1>5, <2>1, <2>2
<1>. QED
  BY <1>4, <1>5 DEF Collects
================================================================================
