--------------------------- MODULE MeasurementProofs ---------------------------
(***************************************************************************)
(* The ring buffers hold what they should, and the percentiles of the      *)
(* recorder are ranks of the latest samples: proved for any capacity, any  *)
(* times and any number of pushes, shifts, clears and samples.  The        *)
(* samplers report their own intervals, however many samples those have    *)
(* and whatever the process does between them.  The verdicts and the       *)
(* statistics of a comparison hold for any rounds and measured values.  And *)
(* the aggregate of a load is what one worker would have measured, for any *)
(* number of workers and whatever happens to them.                         *)
(***************************************************************************)
EXTENDS RingBuffers, MemorySampling, Regression, LoadMeasurement, FoldTheorems

--------------------------------------------------------------------------------
(* Sums of sequences *)

\* The partial sums of a sequence, the last of them its sum.
Summation(run, values) ==
    /\ run \in [0 .. Len(values) -> Int]
    /\ run[0] = 0
    /\ \A i \in 0 .. Len(values) - 1 : run[i + 1] = run[i] + values[i + 1]

\* The fold of + over a sequence computes them.
LEMMA SequenceSum ==
    ASSUME NEW values \in Seq(Int)
    PROVE  \E run : Summation(run, values) /\ Summed(values) = run[Len(values)]
<1>. DEFINE n == Len(values)
            next == [p \in (1 .. n) \X Int |-> p[2] + values[p[1]]]
            Fold(g) == g = [s \in SUBSET DOMAIN values |->
                              IF s = {} THEN 0 ELSE g[s \ {Max(s)}] + values[Max(s)]]
<1>1. n \in Nat /\ DOMAIN values = 1 .. n /\ \A i \in 1 .. n : values[i] \in Int
  OBVIOUS
<1>2. next \in [(1 .. n) \X Int -> Int]
  BY <1>1
<1>3. PICK g \in [SUBSET (1 .. n) -> Int] : Folding(g, n, 0, next)
  <2>1. n \in Nat /\ 0 \in Int
    BY <1>1
  <2>. HIDE DEF next, n
  <2>. QED
    BY <1>2, <2>1, SequenceFold, Zenon
<1>4. Fold(g)
  <2>1. ASSUME NEW s \in SUBSET (1 .. n), s # {}
        PROVE  next[<<Max(s), g[s \ {Max(s)}]>>] = g[s \ {Max(s)}] + values[Max(s)]
    <3>1. Max(s) \in s
      <4>1. s \in SUBSET Nat /\ \A i \in s : i <= n
        BY <1>1
      <4>. QED
        BY <1>1, <2>1, <4>1, MaxOfNaturals
    <3>. DEFINE x == Max(s)
                e == g[s \ {x}]
    <3>2. x \in 1 .. n /\ e \in Int
      BY <1>3, <2>1, <3>1
    <3>. HIDE DEF x, e
    <3>3. <<x, e>> \in (1 .. n) \X Int
      BY <3>2
    <3>4. next[<<x, e>>] = e + values[x]
      BY <3>3
    <3>. QED
      BY <3>4 DEF e, x
  <2>. HIDE DEF next
  <2>. QED
    BY <1>1, <1>3, <2>1 DEF Folding
<1>. DEFINE h == CHOOSE h : Fold(h)
<1>5. Fold(h)
  <2>. HIDE DEF Fold
  <2>. QED
    BY <1>4
<1>6. Summed(values) = h[1 .. n]
  BY <1>1 DEF Summed, FoldLeft, MapThenFoldSet
<1>. DEFINE run == [k \in 0 .. n |-> h[1 .. k]]
<1>7. run[0] = 0
  <2>1. 1 .. 0 = {} /\ {} \in SUBSET DOMAIN values
    OBVIOUS
  <2>. HIDE DEF h
  <2>. QED
    BY <1>1, <1>5, <2>1
<1>8. ASSUME NEW k \in 0 .. n - 1
      PROVE  run[k + 1] = run[k] + values[k + 1]
  <2>1. /\ 1 .. k + 1 \in SUBSET DOMAIN values /\ 1 .. k + 1 # {}
        /\ Max(1 .. k + 1) = k + 1 /\ (1 .. k + 1) \ {k + 1} = 1 .. k
    <3>1. k \in Nat /\ 1 .. k + 1 \in SUBSET DOMAIN values
      BY <1>1
    <3>. HIDE DEF run
    <3>2. 1 .. k + 1 # {} /\ Max(1 .. k + 1) = k + 1 /\ (1 .. k + 1) \ {k + 1} = 1 .. k
      BY <3>1, MaxOfPrefix
    <3>. QED
      BY <3>1, <3>2
  <2>. HIDE DEF h
  <2>2. h[1 .. k + 1] = h[1 .. k] + values[k + 1]
    BY <1>5, <2>1
  <2>. QED
    BY <1>1, <2>2
<1>9. run \in [0 .. n -> Int]
  <2>. DEFINE S == {k \in 0 .. n : run[k] \in Int}
  <2>. HIDE DEF run
  <2>1. 0 \in S
    BY <1>1, <1>7
  <2>2. ASSUME NEW k \in 0 .. n - 1, k \in S
        PROVE  k + 1 \in S
    BY <1>1, <1>8, <2>2
  <2>3. 0 .. n \subseteq S
    <3>. HIDE DEF S
    <3>. QED
      BY <1>1, <2>1, <2>2, BoundedInduction
  <2>. QED
    BY <2>3 DEF run
<1>10. Summed(values) = run[n]
  BY <1>1, <1>6
<1>. HIDE DEF run
<1>. QED
  BY <1>7, <1>8, <1>9, <1>10 DEF Summation

\* A value at the end is added to the sum.
LEMMA SumAppend ==
    ASSUME NEW values \in Seq(Int), NEW v \in Int
    PROVE  /\ Summed(values) \in Int
           /\ Summed(Append(values, v)) = Summed(values) + v
<1>. DEFINE n == Len(values)
            longer == Append(values, v)
<1>1. /\ n \in Nat /\ longer \in Seq(Int) /\ Len(longer) = n + 1
      /\ \A i \in 1 .. n : longer[i] = values[i] /\ longer[n + 1] = v
  OBVIOUS
<1>2. longer[n + 1] = v
  OBVIOUS
<1>3. PICK f : Summation(f, values) /\ Summed(values) = f[n]
  BY SequenceSum
<1>4. PICK g : Summation(g, longer) /\ Summed(longer) = g[n + 1]
  <2>. HIDE DEF longer
  <2>. QED
    BY <1>1, SequenceSum
<1>. DEFINE S == {k \in 0 .. n : g[k] = f[k]}
<1>. HIDE DEF longer
<1>5. 0 \in S
  BY <1>1, <1>3, <1>4 DEF Summation
<1>6. ASSUME NEW k \in 0 .. n - 1, k \in S
      PROVE  k + 1 \in S
  BY <1>1, <1>3, <1>4, <1>6 DEF Summation
<1>7. 0 .. n \subseteq S
  <2>. HIDE DEF S
  <2>. QED
    BY <1>1, <1>5, <1>6, BoundedInduction
<1>8. g[n] = f[n] /\ f[n] \in Int
  <2>1. n \in 0 .. n
    BY <1>1
  <2>. QED
    BY <1>3, <1>7, <2>1 DEF Summation
<1>9. g[n + 1] = g[n] + longer[n + 1]
  <2>1. n \in 0 .. Len(longer) - 1
    BY <1>1
  <2>. HIDE DEF n
  <2>. QED
    BY <1>4, <2>1 DEF Summation
<1>. QED
  BY <1>2, <1>3, <1>4, <1>8, <1>9 DEF longer

\* Nothing adds up to zero.
LEMMA SumEmpty == Summed(<<>>) = 0
<1>1. <<>> \in Seq(Int) /\ Len(<<>>) = 0
  OBVIOUS
<1>2. PICK run : Summation(run, <<>>) /\ Summed(<<>>) = run[0]
  BY <1>1, SequenceSum
<1>. QED
  BY <1>2 DEF Summation
--------------------------------------------------------------------------------
(* Sorting *)

\* p puts the n values of f in order.
Sorts(p, f, n) ==
    /\ p \in [1 .. n -> 1 .. n]
    /\ \A i, j \in 1 .. n : p[i] = p[j] => i = j
    /\ \A j \in 1 .. n : \E i \in 1 .. n : p[i] = j
    /\ \A i, j \in 1 .. n : i < j => f[p[i]] <= f[p[j]]

\* One of the values is the greatest.
LEMMA GreatestValue ==
    ASSUME NEW n \in Nat, NEW f \in [1 .. n + 1 -> Int]
    PROVE  \E m \in 1 .. n + 1 : \A i \in 1 .. n + 1 : f[i] <= f[m]
<1>. DEFINE S == {k \in 0 .. n : \E m \in 1 .. k + 1 : \A i \in 1 .. k + 1 : f[i] <= f[m]}
<1>1. 0 \in S
  <2>1. f[1] \in Int /\ 1 \in 1 .. 0 + 1 /\ \A i \in 1 .. 0 + 1 : i = 1
    OBVIOUS
  <2>2. f[1] <= f[1]
    BY <2>1
  <2>. QED
    BY <2>1, <2>2
<1>2. ASSUME NEW k \in 0 .. n - 1, k \in S
      PROVE  k + 1 \in S
  <2>1. PICK m \in 1 .. k + 1 : \A i \in 1 .. k + 1 : f[i] <= f[m]
    BY <1>2
  <2>2. /\ m \in 1 .. n + 1 /\ k + 2 \in 1 .. n + 1 /\ k + 1 \in 0 .. n
        /\ \A i \in 1 .. k + 2 : i \in 1 .. n + 1 /\ (i = k + 2 \/ i \in 1 .. k + 1)
    OBVIOUS
  <2>. DEFINE a == f[m]
              b == f[k + 2]
  <2>3. a \in Int /\ b \in Int
    BY <2>2
  <2>4. \A i \in 1 .. k + 2 : f[i] \in Int /\ (i = k + 2 \/ f[i] <= a)
    BY <2>1, <2>2
  <2>5. CASE a <= b
    <3>1. \A i \in 1 .. k + 2 : f[i] <= f[k + 2]
      BY <2>3, <2>4, <2>5
    <3>. QED
      BY <2>2, <3>1
  <2>6. CASE ~ (a <= b)
    <3>1. \A i \in 1 .. k + 2 : f[i] <= f[m]
      BY <2>3, <2>4, <2>6
    <3>. QED
      BY <2>2, <3>1
  <2>. QED
    BY <2>5, <2>6
<1>3. 0 .. n \subseteq S
  <2>. HIDE DEF S
  <2>. QED
    BY <1>1, <1>2, BoundedInduction
<1>4. n \in S
  <2>. HIDE DEF S
  <2>. QED
    BY <1>3
<1>. QED
  BY <1>4

\* Any n values can be put in order.
LEMMA SortExists ==
    ASSUME NEW n \in Nat, NEW f \in [1 .. n -> Int]
    PROVE  \E p : Sorts(p, f, n)
<1>. DEFINE N == {k \in Nat : \A g \in [1 .. k -> Int] : \E p : Sorts(p, g, k)}
<1>1. 0 \in N
  <2>1. ASSUME NEW g \in [1 .. 0 -> Int]
        PROVE  Sorts(g, g, 0)
    BY DEF Sorts
  <2>. QED
    BY <2>1
<1>2. ASSUME NEW k \in Nat, k \in N
      PROVE  k + 1 \in N
  <2>. SUFFICES ASSUME NEW g \in [1 .. k + 1 -> Int]
                PROVE  \E p : Sorts(p, g, k + 1)
    OBVIOUS
  <2>1. PICK m \in 1 .. k + 1 : \A i \in 1 .. k + 1 : g[i] <= g[m]
    BY GreatestValue
  <2>. DEFINE t == [i \in 1 .. k |-> IF i = m THEN k + 1 ELSE i]
              h == [i \in 1 .. k |-> g[t[i]]]
  <2>2. /\ t \in [1 .. k -> 1 .. k + 1]
        /\ \A i \in 1 .. k : t[i] # m
        /\ \A i, j \in 1 .. k : t[i] = t[j] => i = j
        /\ \A j \in 1 .. k + 1 : j # m => \E i \in 1 .. k : t[i] = j
    <3>1. ASSUME NEW j \in 1 .. k + 1, j # m
          PROVE  \E i \in 1 .. k : t[i] = j
      <4>1. CASE j = k + 1
        <5>1. m \in 1 .. k /\ t[m] = j
          BY <3>1, <4>1
        <5>. QED
          BY <5>1
      <4>2. CASE j # k + 1
        <5>1. j \in 1 .. k /\ t[j] = j
          BY <3>1, <4>2
        <5>. QED
          BY <5>1
      <4>. QED
        BY <4>1, <4>2
    <3>. QED
      BY <3>1
  <2>. HIDE DEF t
  <2>3. h \in [1 .. k -> Int]
    BY <2>2
  <2>4. PICK p : Sorts(p, h, k)
    <3>. HIDE DEF h
    <3>. QED
      BY <1>2, <2>3
  <2>. DEFINE q == [i \in 1 .. k + 1 |-> IF i = k + 1 THEN m ELSE t[p[i]]]
  <2>5. \A i \in 1 .. k : p[i] \in 1 .. k /\ q[i] = t[p[i]] /\ g[q[i]] = h[p[i]]
    <3>1. \A i \in 1 .. k : p[i] \in 1 .. k
      <4>. HIDE DEF h, q
      <4>. QED
        BY <2>4 DEF Sorts
    <3>2. \A a \in 1 .. k : h[a] = g[t[a]]
      OBVIOUS
    <3>3. \A i \in 1 .. k : i \in 1 .. k + 1 /\ i # k + 1
      OBVIOUS
    <3>4. \A i \in 1 .. k : q[i] = t[p[i]]
      BY <3>3, Zenon
    <3>. HIDE DEF h, q
    <3>. QED
      BY <3>1, <3>2, <3>4, Zenon
  <2>6. q[k + 1] = m
    OBVIOUS
  <2>12. \A i \in 1 .. k + 1 : i = k + 1 \/ i \in 1 .. k
    OBVIOUS
  <2>13. \A i \in 1 .. k : t[p[i]] \in 1 .. k + 1 /\ t[p[i]] # m
    <3>. HIDE DEF h, q
    <3>. QED
      BY <2>2, <2>5, Zenon
  <2>7. q \in [1 .. k + 1 -> 1 .. k + 1]
    <3>1. \A i \in 1 .. k + 1 : (IF i = k + 1 THEN m ELSE t[p[i]]) \in 1 .. k + 1
      <4>. HIDE DEF h, q
      <4>. QED
        BY <2>12, <2>13, Zenon
    <3>. QED
      BY <3>1, Zenon
  <2>. HIDE DEF q, h
  <2>8. \A i, j \in 1 .. k + 1 : q[i] = q[j] => i = j
    <3>1. ASSUME NEW i \in 1 .. k + 1, NEW j \in 1 .. k + 1, q[i] = q[j]
          PROVE  i = j
      <4>1. CASE i = k + 1 /\ j # k + 1
        BY <2>5, <2>6, <2>12, <2>13, <3>1, <4>1, Zenon
      <4>2. CASE i # k + 1 /\ j = k + 1
        BY <2>5, <2>6, <2>12, <2>13, <3>1, <4>2, Zenon
      <4>3. CASE i # k + 1 /\ j # k + 1
        <5>1. i \in 1 .. k /\ j \in 1 .. k
          BY <4>3
        <5>2. /\ q[i] = t[p[i]] /\ q[j] = t[p[j]] /\ q[i] = q[j]
              /\ p[i] \in 1 .. k /\ p[j] \in 1 .. k
          BY <2>5, <3>1, <5>1, Zenon
        <5>3. t[p[i]] = t[p[j]] => p[i] = p[j]
          <6>1. \A a, b \in 1 .. k : t[a] = t[b] => a = b
            BY <2>2, Zenon
          <6>. QED
            BY <5>2, <6>1, Zenon
        <5>4. p[i] = p[j]
          BY <5>2, <5>3
        <5>. QED
          BY <2>4, <5>1, <5>4 DEF Sorts
      <4>. QED
        BY <4>1, <4>2, <4>3
    <3>. QED
      BY <3>1
  <2>9. \A j \in 1 .. k + 1 : \E i \in 1 .. k + 1 : q[i] = j
    <3>1. ASSUME NEW j \in 1 .. k + 1, j # m
          PROVE  \E i \in 1 .. k + 1 : q[i] = j
      <4>1. PICK a \in 1 .. k : t[a] = j
        BY <2>2, <3>1
      <4>2. PICK i \in 1 .. k : p[i] = a
        BY <2>4 DEF Sorts
      <4>3. q[i] = j
        BY <2>5, <4>1, <4>2, Zenon
      <4>4. i \in 1 .. k + 1
        OBVIOUS
      <4>. QED
        BY <4>3, <4>4
    <3>2. k + 1 \in 1 .. k + 1
      OBVIOUS
    <3>. QED
      BY <2>6, <3>1, <3>2, Zenon
  <2>10. \A i, j \in 1 .. k + 1 : i < j => g[q[i]] <= g[q[j]]
    <3>1. ASSUME NEW i \in 1 .. k + 1, NEW j \in 1 .. k + 1, i < j
          PROVE  g[q[i]] <= g[q[j]]
      <4>1. i \in 1 .. k
        BY <3>1
      <4>2. CASE j = k + 1
        BY <2>1, <2>6, <2>7, <4>2
      <4>3. CASE j # k + 1
        <5>1. j \in 1 .. k
          BY <4>3
        <5>2. h[p[i]] <= h[p[j]]
          BY <2>4, <3>1, <4>1, <5>1 DEF Sorts
        <5>. QED
          BY <2>5, <4>1, <5>1, <5>2
      <4>. QED
        BY <4>2, <4>3
    <3>. QED
      BY <3>1
  <2>11. Sorts(q, g, k + 1)
    BY <2>7, <2>8, <2>9, <2>10 DEF Sorts
  <2>. QED
    BY <2>11
<1>3. Nat \subseteq N
  <2>. HIDE DEF N
  <2>. QED
    BY <1>1, <1>2, Induction
<1>. QED
  BY <1>3

\* A set that another takes in, one to one, is no greater.
LEMMA TakenIn ==
    ASSUME NEW S, NEW T, IsFiniteSet(T), NEW f \in [S -> T],
           \A a, b \in S : f[a] = f[b] => a = b
    PROVE  Cardinality(S) <= Cardinality(T)
<1>1. f \in Injection(S, T)
  BY DEF Injection, IsInjective
<1>. QED
  BY <1>1, FS_Injection

\* How many of the first n values of f are less than v.
Lesser(f, n, v) == Cardinality({i \in 1 .. n : f[i] < v})

\* Of n values in order, at most rank are less than the one after the first
\* rank, and more than rank are at most it.
LEMMA RankOfSorted ==
    ASSUME NEW n \in Nat, NEW f \in [1 .. n -> Int],
           NEW p, Sorts(p, f, n), NEW rank \in 0 .. n - 1
    PROVE  LET v == f[p[rank + 1]]
           IN  v \in Int /\ Lesser(f, n, v) <= rank /\ rank < Lesser(f, n, v + 1)
<1>. DEFINE v == f[p[rank + 1]]
            S == {i \in 1 .. n : f[i] < v}
            T == {i \in 1 .. n : f[i] < v + 1}
            place == [i \in 1 .. n |-> CHOOSE a \in 1 .. n : p[a] = i]
<1>1. /\ p \in [1 .. n -> 1 .. n]
      /\ \A i, j \in 1 .. n : p[i] = p[j] => i = j
      /\ \A j \in 1 .. n : \E i \in 1 .. n : p[i] = j
      /\ \A i, j \in 1 .. n : i < j => f[p[i]] <= f[p[j]]
  BY DEF Sorts
<1>2. rank + 1 \in 1 .. n /\ p[rank + 1] \in 1 .. n /\ v \in Int
  BY <1>1
<1>3. \A i \in 1 .. n : place[i] \in 1 .. n /\ p[place[i]] = i
  BY <1>1
<1>4. \A i \in 1 .. n : p[i] \in 1 .. n /\ f[p[i]] \in Int
  BY <1>1
<1>. HIDE DEF place
<1>5. Cardinality(S) <= rank
  <2>. DEFINE g == [i \in S |-> place[i]]
  <2>1. ASSUME NEW i \in S
        PROVE  place[i] \in 1 .. rank
    <3>1. place[i] \in 1 .. n /\ f[p[place[i]]] = f[i] /\ f[i] < v
      BY <1>3
    <3>2. rank + 1 < place[i] => f[p[rank + 1]] <= f[p[place[i]]]
      BY <1>1, <1>2, <3>1
    <3>3. place[i] # rank + 1
      BY <1>2, <3>1
    <3>4. f[i] \in Int
      OBVIOUS
    <3>5. ~ (rank + 1 < place[i])
      <4>. DEFINE w == f[i]
                  u == f[p[rank + 1]]
      <4>1. rank + 1 < place[i] => u <= w
        BY <3>1, <3>2
      <4>2. w < u /\ w \in Int /\ u \in Int
        BY <1>2, <3>1, <3>4
      <4>. HIDE DEF w, u
      <4>. QED
        BY <4>1, <4>2
    <3>. QED
      BY <3>1, <3>3, <3>5
  <2>2. g \in [S -> 1 .. rank]
    BY <2>1
  <2>3. ASSUME NEW a \in S, NEW b \in S, g[a] = g[b]
        PROVE  a = b
    <3>1. a \in 1 .. n /\ b \in 1 .. n /\ place[a] = place[b]
      BY <2>3
    <3>. QED
      BY <1>3, <3>1, Zenon
  <2>4. IsFiniteSet(1 .. rank) /\ Cardinality(1 .. rank) = rank
    BY FS_Interval
  <2>. HIDE DEF S, g
  <2>. QED
    <3>1. Cardinality(S) <= Cardinality(1 .. rank)
      BY <2>2, <2>3, <2>4, TakenIn
    <3>. QED
      BY <2>4, <3>1
<1>6. rank < Cardinality(T)
  <2>. DEFINE g == [i \in 1 .. rank + 1 |-> p[i]]
  <2>1. ASSUME NEW i \in 1 .. rank + 1
        PROVE  p[i] \in T
    <3>1. i \in 1 .. n /\ p[i] \in 1 .. n /\ f[p[i]] \in Int
      BY <1>4
    <3>2. f[p[i]] <= v
      <4>1. CASE i = rank + 1
        BY <1>2, <4>1
      <4>2. CASE i < rank + 1
        BY <1>1, <1>2, <3>1, <4>2
      <4>. QED
        BY <4>1, <4>2
    <3>. QED
      <4>. DEFINE w == f[p[i]]
                  u == f[p[rank + 1]]
      <4>1. w <= u /\ w \in Int /\ u \in Int
        BY <1>2, <3>1, <3>2
      <4>2. w < u + 1
        <5>. HIDE DEF w, u
        <5>. QED
          BY <4>1
      <4>. QED
        BY <3>1, <4>2, Zenon
  <2>2. g \in [1 .. rank + 1 -> T]
    <3>. HIDE DEF T
    <3>. QED
      BY <2>1
  <2>3. ASSUME NEW a \in 1 .. rank + 1, NEW b \in 1 .. rank + 1, g[a] = g[b]
        PROVE  a = b
    <3>1. a \in 1 .. n /\ b \in 1 .. n /\ p[a] = p[b]
      BY <2>3
    <3>. QED
      BY <1>1, <3>1, Zenon
  <2>4. IsFiniteSet(1 .. n) /\ T \subseteq 1 .. n
    BY FS_Interval
  <2>. HIDE DEF T, g
  <2>5. IsFiniteSet(T) /\ Cardinality(T) \in Nat
    BY <2>4, FS_Subset, FS_CardinalityType
  <2>6. Cardinality(1 .. rank + 1) <= Cardinality(T)
    BY <2>2, <2>3, <2>5, TakenIn
  <2>7. Cardinality(1 .. rank + 1) = rank + 1
    BY FS_Interval
  <2>. QED
    BY <2>5, <2>6, <2>7
<1>. QED
  BY <1>2, <1>5, <1>6 DEF Lesser

\* It is a number.
LEMMA LesserType ==
    ASSUME NEW n \in Nat, NEW f, NEW v
    PROVE  Lesser(f, n, v) \in Nat
<1>1. {i \in 1 .. n : f[i] < v} \subseteq 1 .. n /\ IsFiniteSet(1 .. n)
  BY FS_Interval
<1>. QED
  BY <1>1, FS_Subset, FS_CardinalityType DEF Lesser

\* Ascending has a value in the place where sorting puts it: of that place there
\* is one, because of two values the lesser is exceeded by too many.
LEMMA AscendingSorts ==
    ASSUME NEW n \in Nat, NEW f \in [1 .. n -> Int]
    PROVE  \E p : Sorts(p, f, n) /\ Ascending(f) = [i \in 1 .. n |-> f[p[i]]]
<1>1. PICK p : Sorts(p, f, n)
  BY SortExists
<1>. DEFINE Under(v) == {i \in 1 .. n : f[i] < v}
            UpTo(v) == {i \in 1 .. n : f[i] <= v}
            Fits(v, k) == Cardinality(Under(v)) < k /\ Cardinality(UpTo(v)) >= k
<1>2. \A v \in Int : /\ Under(v) \subseteq 1 .. n /\ UpTo(v) = Under(v + 1)
                            /\ Cardinality(Under(v)) \in Nat /\ Cardinality(UpTo(v)) \in Nat
  <2>. SUFFICES ASSUME NEW v \in Int
                PROVE  /\ Under(v) \subseteq 1 .. n /\ UpTo(v) = Under(v + 1)
                       /\ Cardinality(Under(v)) \in Nat /\ Cardinality(UpTo(v)) \in Nat
    OBVIOUS
  <2>1. Under(v) \subseteq 1 .. n /\ UpTo(v) \subseteq 1 .. n /\ UpTo(v) = Under(v + 1)
    OBVIOUS
  <2>2. IsFiniteSet(1 .. n)
    BY FS_Interval
  <2>. HIDE DEF Under, UpTo
  <2>. QED
    BY <2>1, <2>2, FS_Subset, FS_CardinalityType
<1>3. ASSUME NEW k \in 1 .. n
      PROVE  f[p[k]] \in Int /\ f[p[k]] \in ToSet(f) /\ Fits(f[p[k]], k)
  <2>. DEFINE v == f[p[k]]
              rank == k - 1
  <2>1. p[k] \in 1 .. n /\ v \in Int /\ v \in ToSet(f)
    BY <1>1 DEF Sorts, ToSet
  <2>2. rank \in 0 .. n - 1 /\ rank + 1 = k
    OBVIOUS
  <2>3. Lesser(f, n, v) <= rank /\ rank < Lesser(f, n, v + 1)
    <3>. HIDE DEF rank
    <3>. QED
      BY <1>1, <2>2, RankOfSorted
  <2>4. /\ Lesser(f, n, v) = Cardinality(Under(v))
        /\ Lesser(f, n, v + 1) = Cardinality(UpTo(v))
    <3>1. Lesser(f, n, v) = Cardinality(Under(v)) /\ Lesser(f, n, v + 1) = Cardinality(Under(v + 1))
      BY DEF Lesser
    <3>. HIDE DEF v, Under, UpTo
    <3>. QED
      BY <1>2, <2>1, <3>1
  <2>5. Cardinality(Under(v)) \in Nat /\ Cardinality(UpTo(v)) \in Nat
    <3>. HIDE DEF v, Under, UpTo
    <3>. QED
      BY <1>2, <2>1
  <2>. HIDE DEF v, Under, UpTo
  <2>6. Fits(v, k)
    BY <2>3, <2>4, <2>5
  <2>. QED
    BY <2>1, <2>6 DEF v
<1>4. ASSUME NEW k \in 1 .. n, NEW a \in Int, NEW b \in Int,
             Fits(a, k), Fits(b, k), a < b
      PROVE  FALSE
  <2>1. UpTo(a) \subseteq Under(b)
    <3>1. \A i \in 1 .. n : f[i] \in Int
      OBVIOUS
    <3>2. ASSUME NEW i \in UpTo(a)
          PROVE  i \in Under(b)
      <4>1. i \in 1 .. n /\ f[i] <= a /\ f[i] \in Int
        BY <3>1
      <4>. DEFINE w == f[i]
      <4>2. w < b
        <5>1. w <= a /\ w \in Int
          BY <4>1
        <5>. HIDE DEF w
        <5>. QED
          BY <1>4, <5>1
      <4>. QED
        BY <4>1, <4>2
    <3>. QED
      BY <3>2
  <2>2. Cardinality(UpTo(a)) <= Cardinality(Under(b))
    <3>1. IsFiniteSet(1 .. n)
      BY FS_Interval
    <3>2. IsFiniteSet(Under(b))
      BY <1>2, <3>1, FS_Subset
    <3>. HIDE DEF Under, UpTo
    <3>. QED
      BY <2>1, <3>2, FS_Subset
  <2>3. Cardinality(UpTo(a)) \in Nat /\ Cardinality(Under(b)) \in Nat
    BY <1>2
  <2>. HIDE DEF Under, UpTo
  <2>. QED
    BY <1>4, <2>2, <2>3
<1>5. \A v \in ToSet(f) : v \in Int
  BY DEF ToSet
<1>. HIDE DEF Fits
<1>6. ASSUME NEW k \in 1 .. n
      PROVE  (CHOOSE v \in ToSet(f) : Fits(v, k)) = f[p[k]]
  <2>. DEFINE v == CHOOSE v \in ToSet(f) : Fits(v, k)
              w == f[p[k]]
  <2>1. w \in Int /\ w \in ToSet(f) /\ Fits(w, k)
    BY <1>3
  <2>2. v \in ToSet(f) /\ Fits(v, k)
    <3>. HIDE DEF w
    <3>. QED
      BY <2>1
  <2>3. v \in Int
    BY <1>5, <2>2
  <2>. HIDE DEF v, w
  <2>4. ~ (v < w) /\ ~ (w < v)
    BY <1>4, <2>1, <2>2, <2>3
  <2>5. v = w
    BY <2>1, <2>3, <2>4
  <2>. QED
    BY <2>5 DEF v, w
<1>7. Ascending(f) = [k \in 1 .. n |-> CHOOSE v \in ToSet(f) : Fits(v, k)]
  <2>1. Ascending(f) = [k \in DOMAIN f |-> CHOOSE v \in ToSet(f) :
                          /\ Cardinality({i \in DOMAIN f : f[i] < v}) < k
                          /\ Cardinality({i \in DOMAIN f : f[i] <= v}) >= k]
    BY Zenon DEF Ascending
  <2>2. DOMAIN f = 1 .. n
    OBVIOUS
  <2>. QED
    BY <2>1, <2>2, Zenon DEF Fits
<1>8. Ascending(f) = [k \in 1 .. n |-> f[p[k]]]
  BY <1>6, <1>7
<1>. QED
  BY <1>1, <1>8

\* a is s in ascending order: every place is filled by a value that belongs there.
Ordered(a, s) ==
    /\ a \in [1 .. Len(s) -> Int] /\ a \in Seq(Int) /\ Len(a) = Len(s)
    /\ \A i, j \in 1 .. Len(s) : i <= j => a[i] <= a[j]
    /\ \A k \in 1 .. Len(s) : \E i \in 1 .. Len(s) : a[k] = s[i]
    /\ \A k \in 1 .. Len(s) : Lesser(s, Len(s), a[k]) < k /\ k <= Lesser(s, Len(s), a[k] + 1)

\* Ascending is in order.
LEMMA AscendingIs ==
    ASSUME NEW s \in Seq(Int)
    PROVE  Ordered(Ascending(s), s)
<1>. DEFINE n == Len(s)
<1>1. n \in Nat /\ s \in [1 .. n -> Int]
  OBVIOUS
<1>2. PICK p : Sorts(p, s, n) /\ Ascending(s) = [i \in 1 .. n |-> s[p[i]]]
  <2>. HIDE DEF n
  <2>. QED
    BY <1>1, AscendingSorts, Zenon
<1>. DEFINE a == Ascending(s)
<1>3. /\ p \in [1 .. n -> 1 .. n]
      /\ \A i, j \in 1 .. n : i < j => s[p[i]] <= s[p[j]]
  BY <1>2 DEF Sorts
<1>. HIDE DEF n
<1>4. \A k \in 1 .. n : p[k] \in 1 .. n /\ a[k] = s[p[k]] /\ s[p[k]] \in Int
  BY <1>1, <1>2, <1>3
<1>5. a \in [1 .. n -> Int] /\ a \in Seq(Int) /\ Len(a) = n
  <2>1. a = [i \in 1 .. n |-> s[p[i]]]
    BY <1>2
  <2>. HIDE DEF a
  <2>. QED
    BY <1>1, <1>4, <2>1
<1>. HIDE DEF a
<1>6. \A i, j \in 1 .. n : i <= j => a[i] <= a[j]
  <2>. SUFFICES ASSUME NEW i \in 1 .. n, NEW j \in 1 .. n, i <= j
                PROVE  a[i] <= a[j]
    OBVIOUS
  <2>1. CASE i = j
    BY <1>1, <1>4, <2>1
  <2>2. CASE i < j
    BY <1>3, <1>4, <2>2
  <2>. QED
    BY <1>1, <2>1, <2>2
<1>7. \A k \in 1 .. n : \E i \in 1 .. n : a[k] = s[i]
  BY <1>4
<1>8. ASSUME NEW k \in 1 .. n
      PROVE  Lesser(s, n, a[k]) < k /\ k <= Lesser(s, n, a[k] + 1)
  <2>. DEFINE rank == k - 1
  <2>1. rank \in 0 .. n - 1 /\ rank + 1 = k
    BY <1>1
  <2>2. Lesser(s, n, s[p[rank + 1]]) <= rank /\ rank < Lesser(s, n, s[p[rank + 1]] + 1)
    <3>. HIDE DEF rank
    <3>. QED
      BY <1>1, <1>2, <2>1, RankOfSorted
  <2>3. Lesser(s, n, a[k]) <= rank /\ rank < Lesser(s, n, a[k] + 1)
    BY <1>4, <2>1, <2>2
  <2>4. Lesser(s, n, a[k]) \in Nat /\ Lesser(s, n, a[k] + 1) \in Nat
    BY LesserType, <1>1
  <2>. HIDE DEF rank
  <2>5. \A x, y \in Nat : x <= rank /\ rank < y => x < k /\ k <= y
    BY <2>1
  <2>. QED
    BY <2>3, <2>4, <2>5
<1>. QED
  BY <1>5, <1>6, <1>7, <1>8 DEF Ordered, a, n

\* g has the n values of f, in the order that q says.
Reorders(q, g, f, n) ==
    /\ q \in [1 .. n -> 1 .. n]
    /\ \A i, j \in 1 .. n : q[i] = q[j] => i = j
    /\ \A i \in 1 .. n : g[i] = f[q[i]]

\* The same values in another order have as many below a bound.
LEMMA SameBelow ==
    ASSUME NEW n \in Nat, NEW f, NEW g, NEW v, NEW q, Reorders(q, g, f, n)
    PROVE  Lesser(g, n, v) = Lesser(f, n, v)
<1>0. /\ q \in [1 .. n -> 1 .. n]
      /\ \A i, j \in 1 .. n : q[i] = q[j] => i = j
      /\ \A i \in 1 .. n : g[i] = f[q[i]]
  BY DEF Reorders
<1>. DEFINE S == {i \in 1 .. n : g[i] < v}
            T == {i \in 1 .. n : f[i] < v}
            r == [i \in S |-> q[i]]
<1>1. IsFiniteSet(1 .. n) /\ S \subseteq 1 .. n
  BY FS_Interval
<1>2. IsFiniteSet(S)
  <2>. HIDE DEF S
  <2>. QED
    BY <1>1, FS_Subset
<1>3. q \in Surjection(1 .. n, 1 .. n)
  <2>1. q \in Injection(1 .. n, 1 .. n)
    BY <1>0 DEF Injection, IsInjective
  <2>. QED
    BY <1>1, <2>1, FS_Injection
<1>4. r \in [S -> T]
  BY <1>0
<1>5. \A a, b \in S : r[a] = r[b] => a = b
  BY <1>0
<1>6. ASSUME NEW j \in T
      PROVE  \E i \in S : r[i] = j
  <2>1. PICK i \in 1 .. n : q[i] = j
    BY <1>3 DEF Surjection
  <2>2. i \in S
    BY <1>0, <2>1
  <2>. QED
    BY <2>1, <2>2
<1>7. r \in Bijection(S, T)
  <2>. HIDE DEF S, T
  <2>1. DOMAIN r = S
    OBVIOUS
  <2>. HIDE DEF r
  <2>. QED
    BY <1>4, <1>5, <1>6, <2>1 DEF Bijection, Injection, Surjection, IsInjective
<1>. HIDE DEF S, T, r
<1>8. Cardinality(T) = Cardinality(S)
  BY <1>2, <1>7, FS_Bijection DEF ExistsBijection
<1>. QED
  BY <1>8 DEF S, T, Lesser
--------------------------------------------------------------------------------
(* The recorder *)

\* The recorder has the sum of all samples, and the last of them in the slots
\* that their numbers choose.
RecorderInv ==
    /\ samples \in Seq(Time)
    /\ recorder \in [latencies : [Slot -> Time], sum : Int, count : 0 .. Capacity, index : Slot]
    /\ recorder.index = Len(samples) % Capacity
    /\ recorder.count = (IF Len(samples) < Capacity THEN Len(samples) ELSE Capacity)
    /\ recorder.sum = Summed(samples)
    /\ \A j \in 1 .. Len(samples) :
        Len(samples) - Capacity < j => recorder.latencies[(j - 1) % Capacity] = samples[j]

\* The samples that the recorder retains.
LEMMA RetainedIs ==
    ASSUME RecorderInv
    PROVE  /\ Len(samples) - recorder.count \in Nat
           /\ Len(samples) - recorder.count >= Len(samples) - Capacity
           /\ DOMAIN Retained = 1 .. recorder.count /\ Len(Retained) = recorder.count
           /\ \A i \in 1 .. recorder.count :
                /\ Len(samples) - recorder.count + i \in 1 .. Len(samples)
                /\ Retained[i] = samples[Len(samples) - recorder.count + i]
<1>. DEFINE n == Len(samples)
            c == recorder.count
            low == (IF n > Capacity THEN n - Capacity ELSE 0) + 1
<1>1. n \in Nat /\ Capacity \in Nat \ {0} /\ samples \in Seq(Time)
  BY RingAssumption DEF RecorderInv
<1>2. c = (IF n < Capacity THEN n ELSE Capacity) /\ c \in Nat
  BY <1>1 DEF RecorderInv
<1>. HIDE DEF c
<1>3. low = n - c + 1 /\ low \in 1 .. n + 1 /\ n - c \in Nat /\ n - c >= n - Capacity
  <2>. HIDE DEF n
  <2>1. CASE n < Capacity
    BY <1>1, <1>2, <2>1
  <2>2. CASE ~ (n < Capacity)
    BY <1>1, <1>2, <2>2
  <2>. QED
    BY <2>1, <2>2
<1>4. Retained = SubSeq(samples, low, n)
  BY DEF Retained
<1>. HIDE DEF low
<1>5. /\ Len(Retained) = n - low + 1 /\ DOMAIN Retained = 1 .. n - low + 1
      /\ \A i \in 1 .. n - low + 1 : Retained[i] = samples[low + i - 1]
  BY <1>1, <1>3, <1>4
<1>6. n - low + 1 = c /\ \A i \in 1 .. c : low + i - 1 = n - c + i /\ n - c + i \in 1 .. n
  BY <1>1, <1>2, <1>3
<1>. HIDE DEF n
<1>7. DOMAIN Retained = 1 .. c /\ Len(Retained) = c
  BY <1>5, <1>6
<1>8. ASSUME NEW i \in 1 .. c
      PROVE  n - c + i \in 1 .. n /\ Retained[i] = samples[n - c + i]
  BY <1>5, <1>6
<1>. QED
  BY <1>3, <1>7, <1>8 DEF n, c

\* A percentile is of the rank that its name says among the samples retained.
LEMMA PercentileRank ==
    ASSUME RecorderInv, samples # <<>>, NEW percentile \in Nat, percentile < 1000
    PROVE  LET rank == (Len(Retained) * percentile) \div 1000
               v == Percentile(percentile)
           IN  Below(v) <= rank /\ rank < Below(v + 1)
<1>. DEFINE n == Len(samples)
            c == recorder.count
            f == [i \in 1 .. c |-> recorder.latencies[i - 1]]
            q == [i \in 1 .. c |-> ((n - c + i - 1) % Capacity) + 1]
            rank == (c * percentile) \div 1000
<1>1. n \in Nat \ {0} /\ Capacity \in Nat \ {0} /\ samples \in Seq(Time)
  BY RingAssumption DEF RecorderInv
<1>2. c = (IF n < Capacity THEN n ELSE Capacity) /\ c \in Nat \ {0} /\ n - c \in Nat
  BY <1>1 DEF RecorderInv
<1>3. f \in [1 .. c -> 0 .. MaxTime] /\ MaxTime \in Nat
  <2>1. recorder.latencies \in [0 .. Capacity - 1 -> 0 .. MaxTime]
    BY DEF RecorderInv, Slot, Time
  <2>2. \A i \in 1 .. c : i - 1 \in 0 .. Capacity - 1
    <3>. HIDE DEF c
    <3>. QED
      BY <1>1, <1>2
  <2>. HIDE DEF c
  <2>. QED
    BY <2>1, <2>2, RingAssumption
<1>4. rank \in 0 .. c - 1
  <2>1. c * percentile \in Nat /\ c * percentile < 1000 * c
    <3>. HIDE DEF c
    <3>1. percentile <= 999 /\ c \in Nat \ {0}
      BY <1>2
    <3>2. percentile * c <= 999 * c
      BY <3>1, Products
    <3>. QED
      BY <3>1, <3>2
  <2>. DEFINE x == c * percentile
  <2>. HIDE DEF x, c
  <2>. QED
    BY <1>2, <2>1 DEF x
<1>5. \A i \in 1 .. c : q[i] \in 1 .. c /\ Retained[i] = f[q[i]]
  <2>. SUFFICES ASSUME NEW i \in 1 .. c
                PROVE  q[i] \in 1 .. c /\ Retained[i] = f[q[i]]
    OBVIOUS
  <2>. DEFINE a == n - c + i - 1
  <2>1. a \in Nat /\ a + 1 \in 1 .. n /\ n - Capacity < a + 1 /\ (n < Capacity => a < c)
    <3>. HIDE DEF n, c
    <3>. QED
      BY <1>1, <1>2
  <2>2. a % Capacity \in 0 .. Capacity - 1 /\ (a < Capacity => a % Capacity = a)
    <3>. HIDE DEF a
    <3>. QED
      BY <1>1, <2>1
  <2>3. a % Capacity \in 0 .. c - 1
    <3>. HIDE DEF a, n, c
    <3>. QED
      BY <1>1, <1>2, <2>1, <2>2
  <2>4. Retained[i] = samples[a + 1]
    <3>1. n - c + i = a + 1
      <4>. HIDE DEF n, c
      <4>. QED
        BY <1>1, <1>2
    <3>. QED
      BY <3>1, RetainedIs
  <2>5. recorder.latencies[a % Capacity] = samples[a + 1]
    <3>1. \A j \in 1 .. n : n - Capacity < j => recorder.latencies[(j - 1) % Capacity] = samples[j]
      BY DEF RecorderInv
    <3>2. a + 1 - 1 = a
      <4>. HIDE DEF a
      <4>. QED
        BY <2>1
    <3>. HIDE DEF a, n
    <3>. QED
      BY <2>1, <3>1, <3>2
  <2>6. q[i] = (a % Capacity) + 1
    OBVIOUS
  <2>. DEFINE b == a % Capacity
  <2>7. b \in 0 .. c - 1 /\ b + 1 \in 1 .. c /\ b + 1 - 1 = b
    <3>1. b \in 0 .. c - 1
      BY <2>3
    <3>. HIDE DEF b, c
    <3>. QED
      BY <1>2, <3>1
  <2>8. f[b + 1] = recorder.latencies[b + 1 - 1]
    <3>. HIDE DEF b
    <3>. QED
      BY <2>7
  <2>9. f[b + 1] = samples[a + 1]
    <3>. HIDE DEF f
    <3>. QED
      BY <2>5, <2>7, <2>8
  <2>. HIDE DEF q, f, a, c
  <2>. QED
    BY <2>4, <2>6, <2>7, <2>9 DEF b
<1>6. ASSUME NEW i \in 1 .. c, NEW j \in 1 .. c, q[i] = q[j]
      PROVE  i = j
  <2>. DEFINE a == n - c + i - 1
              b == n - c + j - 1
  <2>1. /\ a \in Nat /\ b \in Nat /\ a - b = i - j
        /\ a - b < Capacity /\ b - a < Capacity
    <3>. HIDE DEF n, c
    <3>. QED
      BY <1>1, <1>2
  <2>2. a % Capacity = b % Capacity
    <3>1. (a % Capacity) + 1 = (b % Capacity) + 1
      BY <1>6
    <3>2. a % Capacity \in Int /\ b % Capacity \in Int
      <4>. HIDE DEF a, b
      <4>. QED
        BY <1>1, <2>1
    <3>. DEFINE x == a % Capacity
                y == b % Capacity
    <3>. HIDE DEF x, y
    <3>. QED
      BY <3>1, <3>2 DEF x, y
  <2>3. ~ (a < b) /\ ~ (b < a)
    <3>. HIDE DEF a, b
    <3>. QED
      BY <1>1, <2>1, <2>2, ModDistinct
  <2>. HIDE DEF a, b, c
  <2>. QED
    BY <2>1, <2>3
<1>. DEFINE g == [i \in 1 .. c |-> Retained[i]]
<1>7. q \in [1 .. c -> 1 .. c] /\ \A i \in 1 .. c : g[i] = f[q[i]]
  <2>1. \A i \in 1 .. c : (((n - c + i - 1) % Capacity) + 1) \in 1 .. c
    BY <1>5
  <2>2. q \in [1 .. c -> 1 .. c]
    <3>. HIDE DEF n, c
    <3>. QED
      BY <2>1, Zenon
  <2>. HIDE DEF q, f, c
  <2>. QED
    BY <1>5, <2>2
<1>8. \A w : Below(w) = Lesser(f, c, w)
  <2>. TAKE w
  <2>. HIDE DEF q, f, c
  <2>1. Lesser(g, c, w) = Lesser(f, c, w)
    <3>1. c \in Nat
      BY <1>2
    <3>2. Reorders(q, g, f, c)
      <4>1. \A i, j \in 1 .. c : q[i] = q[j] => i = j
        BY <1>6
      <4>. HIDE DEF g
      <4>. QED
        BY <1>7, <4>1 DEF Reorders
    <3>. HIDE DEF g
    <3>. QED
      BY <3>1, <3>2, SameBelow
  <2>2. {i \in DOMAIN Retained : Retained[i] < w} = {i \in 1 .. c : g[i] < w}
    BY RetainedIs DEF c
  <2>. QED
    BY <2>1, <2>2 DEF Below, Lesser
<1>9. PICK p : Sorts(p, f, c) /\ Ascending(f) = [i \in 1 .. c |-> f[p[i]]]
  <2>1. c \in Nat /\ f \in [1 .. c -> Int]
    BY <1>2, <1>3
  <2>. HIDE DEF f, c
  <2>. QED
    BY <2>1, AscendingSorts, Zenon
<1>10. Percentile(percentile) = f[p[rank + 1]]
  <2>1. (percentile * c) \div 1000 = rank
    <3>1. percentile * c = c * percentile
      <4>. HIDE DEF c
      <4>. QED
        BY <1>2
    <3>. QED
      BY <3>1
  <2>2. Percentile(percentile) = Ascending(f)[1 + IF rank < c - 1 THEN rank ELSE c - 1]
    <3>. HIDE DEF rank
    <3>1. c # 0
      BY <1>2
    <3>. QED
      BY <2>1, <3>1 DEF Percentile
  <2>. HIDE DEF rank, f, c
  <2>3. (1 + IF rank < c - 1 THEN rank ELSE c - 1) = rank + 1 /\ rank + 1 \in 1 .. c
    BY <1>2, <1>4
  <2>. QED
    BY <1>9, <2>2, <2>3
<1>11. (Len(Retained) * percentile) \div 1000 = rank
  <2>1. Len(Retained) = c
    BY RetainedIs
  <2>. QED
    BY <2>1
<1>. DEFINE v == f[p[rank + 1]]
<1>12. Lesser(f, c, v) <= rank /\ rank < Lesser(f, c, v + 1)
  <2>1. /\ c \in Nat /\ f \in [1 .. c -> Int]
        /\ rank \in 0 .. c - 1 /\ Sorts(p, f, c)
    BY <1>2, <1>3, <1>4, <1>9
  <2>. HIDE DEF f, c, rank
  <2>. QED
    BY <2>1, RankOfSorted, Zenon
<1>. HIDE DEF f, c, rank, g, q
<1>. QED
  BY <1>8, <1>10, <1>11, <1>12

\* A sample takes the place of the oldest.
LEMMA RecordSampleKeeps ==
    ASSUME RecorderInv, NEW ms \in Time, RecordSample(ms)
    PROVE  RecorderInv'
<1>. DEFINE n == Len(samples)
            place == recorder.index
<1>1. /\ n \in Nat /\ Capacity \in Nat \ {0} /\ samples \in Seq(Time)
      /\ recorder.latencies \in [Slot -> Time] /\ place \in Slot /\ place = n % Capacity
      /\ recorder.sum \in Int /\ recorder.count \in 0 .. Capacity
  BY RingAssumption DEF RecorderInv
<1>2. /\ samples' = Append(samples, ms) /\ samples' \in Seq(Time) /\ Len(samples') = n + 1
      /\ samples'[n + 1] = ms /\ \A j \in 1 .. n : samples'[j] = samples[j]
  BY <1>1 DEF RecordSample
<1>3. recorder' = [recorder EXCEPT !.sum = @ + ms, !.latencies[place] = ms,
                        !.index = (@ + 1) % Capacity,
                        !.count = IF @ < Capacity THEN @ + 1 ELSE @]
  BY DEF RecordSample
<1>4. /\ recorder'.sum = recorder.sum + ms
      /\ recorder'.latencies = [recorder.latencies EXCEPT ![place] = ms]
      /\ recorder'.index = (place + 1) % Capacity
      /\ recorder'.count = IF recorder.count < Capacity THEN recorder.count + 1 ELSE recorder.count
  <2>1. recorder \in [latencies : [Slot -> Time], sum : Int, count : 0 .. Capacity, index : Slot]
    BY DEF RecorderInv
  <2>. HIDE DEF place
  <2>2. recorder'.sum = recorder.sum + ms
    BY <1>3, <2>1
  <2>3. recorder'.latencies = [recorder.latencies EXCEPT ![place] = ms]
    BY <1>3, <2>1
  <2>4. recorder'.index = (recorder.index + 1) % Capacity
    BY <1>3, <2>1
  <2>5. recorder'.count = IF recorder.count < Capacity THEN recorder.count + 1 ELSE recorder.count
    BY <1>3, <2>1
  <2>. QED
    BY <2>2, <2>3, <2>4, <2>5 DEF place
<1>5. recorder'.index = (n + 1) % Capacity
  <2>. HIDE DEF n, place
  <2>. QED
    BY <1>1, <1>4, ModShift
<1>6. recorder'.count = (IF n + 1 < Capacity THEN n + 1 ELSE Capacity)
  <2>1. recorder.count = (IF n < Capacity THEN n ELSE Capacity)
    BY DEF RecorderInv
  <2>. HIDE DEF n
  <2>. QED
    BY <1>1, <1>4, <2>1
<1>7. recorder'.sum = Summed(samples')
  <2>1. samples \in Seq(Int) /\ ms \in Int
    BY <1>1, RingAssumption DEF Time
  <2>2. recorder.sum = Summed(samples)
    BY DEF RecorderInv
  <2>. QED
    BY <1>2, <1>4, <2>1, <2>2, SumAppend
<1>8. ASSUME NEW j \in 1 .. n + 1, n + 1 - Capacity < j
      PROVE  recorder'.latencies[(j - 1) % Capacity] = samples'[j]
  <2>. DEFINE a == j - 1
              slot == a % Capacity
  <2>. HIDE DEF n, place
  <2>1. a \in Nat /\ slot \in Slot
    BY <1>1 DEF Slot
  <2>2. CASE j = n + 1
    <3>1. slot = place
      BY <1>1, <2>2
    <3>. HIDE DEF slot
    <3>2. recorder'.latencies[slot] = ms
      BY <1>1, <1>4, <2>1, <3>1
    <3>. QED
      BY <1>2, <2>2, <3>2 DEF slot
  <2>3. CASE j # n + 1
    <3>1. j \in 1 .. n /\ n - Capacity < j /\ a < n /\ n - a < Capacity
      BY <1>1, <2>3, <1>8
    <3>2. slot # place
      BY <1>1, <2>1, <3>1, ModDistinct
    <3>3. recorder.latencies[slot] = samples[j]
      BY <3>1 DEF RecorderInv, n
    <3>. HIDE DEF slot
    <3>4. recorder'.latencies[slot] = samples[j]
      BY <1>1, <1>4, <2>1, <3>2, <3>3
    <3>. QED
      BY <1>2, <3>1, <3>4 DEF slot
  <2>. QED
    BY <2>2, <2>3
<1>9. recorder' \in [latencies : [Slot -> Time], sum : Int, count : 0 .. Capacity, index : Slot]
  <2>1. (place + 1) % Capacity \in Slot
    <3>1. place \in Nat
      BY <1>1 DEF Slot
    <3>. HIDE DEF place
    <3>. QED
      BY <1>1, <3>1 DEF Slot
  <2>2. recorder.sum + ms \in Int
    BY <1>1, RingAssumption DEF Time
  <2>3. (IF recorder.count < Capacity THEN recorder.count + 1 ELSE recorder.count) \in 0 .. Capacity
    BY <1>1
  <2>. HIDE DEF place
  <2>. QED
    BY <1>1, <1>3, <2>1, <2>2, <2>3 DEF RecorderInv
<1>10. \A j \in 1 .. Len(samples') :
        Len(samples') - Capacity < j => recorder'.latencies[(j - 1) % Capacity] = samples'[j]
  <2>1. Len(samples') = n + 1
    BY <1>2
  <2>2. \A j \in 1 .. n + 1 :
          n + 1 - Capacity < j => recorder'.latencies[(j - 1) % Capacity] = samples'[j]
    BY <1>8
  <2>. SUFFICES ASSUME NEW j \in 1 .. Len(samples'), Len(samples') - Capacity < j
                PROVE  recorder'.latencies[(j - 1) % Capacity] = samples'[j]
    OBVIOUS
  <2>3. j \in 1 .. n + 1 /\ n + 1 - Capacity < j
    <3>. HIDE DEF n
    <3>. QED
      BY <1>1, <2>1
  <2>. HIDE DEF n
  <2>. QED
    BY <2>2, <2>3, Zenon
<1>11. recorder'.index = Len(samples') % Capacity
  BY <1>2, <1>5
<1>12. recorder'.count = (IF Len(samples') < Capacity THEN Len(samples') ELSE Capacity)
  BY <1>2, <1>6
<1>13. samples' \in Seq(Time)
  BY <1>2
<1>. QED
  BY <1>7, <1>9, <1>10, <1>11, <1>12, <1>13, Zenon DEF RecorderInv
--------------------------------------------------------------------------------
(* The queue *)

\* The slots from the head hold the queue, and both sides of an answer agree.
QueueInv ==
    /\ queue \in Seq(Time \X Time)
    /\ ring \in [latencyStarts : [Slot -> Time], timeoutStarts : [Slot -> Time],
                 head : Slot, size : 0 .. Capacity]
    /\ ring.size = Len(queue)
    /\ \A i \in 1 .. Len(queue) :
        queue[i] = <<ring.latencyStarts[(ring.head + (i - 1)) % Capacity],
                     ring.timeoutStarts[(ring.head + (i - 1)) % Capacity]>>
    /\ answer[1] = answer[2]

\* A push takes the slot after the last.
LEMMA PushKeeps ==
    ASSUME QueueInv, NEW l \in Time, NEW t \in Time, Push(l, t)
    PROVE  QueueInv'
<1>. DEFINE n == Len(queue)
            head == ring.head
            index == (head + n) % Capacity
<1>1. /\ n \in Nat /\ n < Capacity /\ Capacity \in Nat \ {0} /\ queue \in Seq(Time \X Time)
      /\ ring.latencyStarts \in [Slot -> Time] /\ ring.timeoutStarts \in [Slot -> Time]
      /\ head \in Slot /\ ring.size = n
  BY RingAssumption DEF QueueInv, Push
<1>2. /\ queue' = Append(queue, <<l, t>>) /\ queue' \in Seq(Time \X Time) /\ Len(queue') = n + 1
      /\ queue'[n + 1] = <<l, t>> /\ \A i \in 1 .. n : queue'[i] = queue[i]
  BY <1>1 DEF Push
<1>3. head \in Nat /\ index \in Slot
  <2>1. head \in Nat
    BY <1>1 DEF Slot
  <2>. HIDE DEF head, n
  <2>. QED
    BY <1>1, <2>1 DEF Slot
<1>4. ring' = [ring EXCEPT !.latencyStarts[index] = l, !.timeoutStarts[index] = t, !.size = @ + 1]
  BY <1>1 DEF Push
<1>5. /\ ring'.latencyStarts = [ring.latencyStarts EXCEPT ![index] = l]
      /\ ring'.timeoutStarts = [ring.timeoutStarts EXCEPT ![index] = t]
      /\ ring'.size = n + 1 /\ ring'.head = head
  <2>1. ring \in [latencyStarts : [Slot -> Time], timeoutStarts : [Slot -> Time],
                  head : Slot, size : 0 .. Capacity]
    BY DEF QueueInv
  <2>. HIDE DEF index
  <2>2. ring'.latencyStarts = [ring.latencyStarts EXCEPT ![index] = l]
    BY <1>4, <2>1
  <2>3. ring'.timeoutStarts = [ring.timeoutStarts EXCEPT ![index] = t]
    BY <1>4, <2>1
  <2>4. ring'.size = ring.size + 1 /\ ring'.head = ring.head
    BY <1>4, <2>1
  <2>. QED
    BY <1>1, <2>2, <2>3, <2>4
<1>6. ASSUME NEW i \in 1 .. n + 1
      PROVE  queue'[i] = <<ring'.latencyStarts[(head + (i - 1)) % Capacity],
                           ring'.timeoutStarts[(head + (i - 1)) % Capacity]>>
  <2>. DEFINE a == head + (i - 1)
              slot == a % Capacity
  <2>. HIDE DEF n, head
  <2>1. a \in Nat /\ slot \in Slot
    BY <1>1, <1>3 DEF Slot
  <2>2. CASE i = n + 1
    <3>1. slot = index
      BY <1>1, <2>2
    <3>. HIDE DEF slot, index
    <3>2. ring'.latencyStarts[slot] = l /\ ring'.timeoutStarts[slot] = t
      BY <1>1, <1>5, <2>1, <3>1
    <3>. QED
      BY <1>2, <2>2, <3>2 DEF slot
  <2>3. CASE i # n + 1
    <3>1. i \in 1 .. n /\ a < head + n /\ head + n - a < Capacity /\ head + n \in Nat
      BY <1>1, <1>3, <2>3
    <3>2. slot # index
      <4>. DEFINE b == head + n
      <4>1. b \in Nat /\ a < b /\ b - a < Capacity
        BY <1>1, <1>3, <2>1, <3>1
      <4>. HIDE DEF b
      <4>2. a % Capacity # b % Capacity
        BY <1>1, <2>1, <4>1, ModDistinct
      <4>. QED
        BY <4>2 DEF b
    <3>3. queue[i] = <<ring.latencyStarts[slot], ring.timeoutStarts[slot]>>
      BY <3>1 DEF QueueInv, n, head
    <3>. HIDE DEF slot, index
    <3>4. /\ ring'.latencyStarts[slot] = ring.latencyStarts[slot]
          /\ ring'.timeoutStarts[slot] = ring.timeoutStarts[slot]
      BY <1>1, <1>5, <2>1, <3>2
    <3>. QED
      BY <1>2, <3>1, <3>3, <3>4 DEF slot
  <2>. QED
    BY <2>2, <2>3
<1>7. ring' \in [latencyStarts : [Slot -> Time], timeoutStarts : [Slot -> Time],
                 head : Slot, size : 0 .. Capacity]
  <2>1. ring.size + 1 \in 0 .. Capacity
    BY <1>1
  <2>. HIDE DEF index
  <2>. QED
    BY <1>3, <1>4, <2>1 DEF QueueInv
<1>8. \A i \in 1 .. Len(queue') :
        queue'[i] = <<ring'.latencyStarts[(ring'.head + (i - 1)) % Capacity],
                      ring'.timeoutStarts[(ring'.head + (i - 1)) % Capacity]>>
  <2>1. Len(queue') = n + 1 /\ ring'.head = head
    BY <1>2, <1>5
  <2>. HIDE DEF n, head
  <2>. QED
    BY <1>6, <2>1, Zenon
<1>9. answer'[1] = answer'[2] /\ queue' \in Seq(Time \X Time) /\ ring'.size = Len(queue')
  BY <1>2, <1>5 DEF Push, QueueInv
<1>. QED
  BY <1>7, <1>8, <1>9, Zenon DEF QueueInv

\* A shift frees the slot of the head.
LEMMA ShiftKeeps ==
    ASSUME QueueInv, Shift
    PROVE  QueueInv'
<1>. DEFINE n == Len(queue)
            head == ring.head
<1>1. /\ n \in Nat /\ Capacity \in Nat \ {0} /\ queue \in Seq(Time \X Time)
      /\ head \in Slot /\ ring.size = n /\ ring.size \in 0 .. Capacity
  BY RingAssumption DEF QueueInv
<1>2. CASE ring.size = 0
  <2>1. answer' = <<NoTime, NoTime>> /\ UNCHANGED <<ring, queue>>
    BY <1>2 DEF Shift
  <2>2. answer'[1] = answer'[2]
    BY <2>1
  <2>. QED
    BY <2>1, <2>2 DEF QueueInv
<1>3. CASE ring.size # 0
  <2>1. /\ answer' = <<ring.latencyStarts[head], Head(queue)[1]>>
        /\ ring' = [ring EXCEPT !.head = (@ + 1) % Capacity, !.size = @ - 1]
        /\ queue' = Tail(queue)
    BY <1>3 DEF Shift
  <2>2. /\ n \in Nat \ {0} /\ queue' \in Seq(Time \X Time) /\ Len(queue') = n - 1
        /\ Head(queue) = queue[1] /\ \A i \in 1 .. n - 1 : queue'[i] = queue[i + 1]
    BY <1>1, <1>3, <2>1
  <2>3. head \in Nat /\ (head + 1) % Capacity \in Slot /\ (head + 0) % Capacity = head
    <3>1. head \in 0 .. Capacity - 1 /\ Capacity \in Nat \ {0}
      BY <1>1 DEF Slot
    <3>. HIDE DEF head
    <3>2. head + 0 = head /\ head % Capacity = head
      BY <3>1
    <3>3. (head + 1) % Capacity \in 0 .. Capacity - 1
      BY <3>1
    <3>. QED
      BY <3>1, <3>2, <3>3 DEF Slot
  <2>4. /\ ring'.latencyStarts = ring.latencyStarts /\ ring'.timeoutStarts = ring.timeoutStarts
        /\ ring'.head = (head + 1) % Capacity /\ ring'.size = n - 1
    <3>1. ring \in [latencyStarts : [Slot -> Time], timeoutStarts : [Slot -> Time],
                    head : Slot, size : 0 .. Capacity]
      BY DEF QueueInv
    <3>. QED
      BY <1>1, <2>1, <3>1
  <2>5. \A i \in 1 .. n : queue[i] = <<ring.latencyStarts[(head + (i - 1)) % Capacity],
                                       ring.timeoutStarts[(head + (i - 1)) % Capacity]>>
    BY DEF QueueInv
  <2>6. answer'[1] = answer'[2]
    <3>1. queue[1] = <<ring.latencyStarts[(head + 0) % Capacity],
                       ring.timeoutStarts[(head + 0) % Capacity]>>
      <4>1. 1 \in 1 .. n /\ 1 - 1 = 0
        BY <2>2
      <4>. HIDE DEF n, head
      <4>. QED
        BY <2>5, <4>1
    <3>. HIDE DEF n, head
    <3>. QED
      BY <2>1, <2>2, <2>3, <3>1
  <2>7. ASSUME NEW i \in 1 .. n - 1
        PROVE  queue'[i] = <<ring'.latencyStarts[(ring'.head + (i - 1)) % Capacity],
                             ring'.timeoutStarts[(ring'.head + (i - 1)) % Capacity]>>
    <3>. HIDE DEF n, head
    <3>1. i + 1 \in 1 .. n /\ i - 1 \in Nat /\ i + 1 - 1 = i /\ head + 1 \in Nat
      BY <1>1, <2>2, <2>3
    <3>2. (((head + 1) % Capacity) + (i - 1)) % Capacity = ((head + 1) + (i - 1)) % Capacity
      BY <1>1, <3>1, ModShift
    <3>3. (head + 1) + (i - 1) = head + (i + 1 - 1)
      BY <2>3, <3>1
    <3>4. queue[i + 1] = <<ring.latencyStarts[(head + (i + 1 - 1)) % Capacity],
                           ring.timeoutStarts[(head + (i + 1 - 1)) % Capacity]>>
      BY <2>5, <3>1
    <3>. QED
      BY <2>2, <2>4, <3>2, <3>3, <3>4
  <2>8. ring' \in [latencyStarts : [Slot -> Time], timeoutStarts : [Slot -> Time],
                   head : Slot, size : 0 .. Capacity]
    <3>1. ring.size - 1 \in 0 .. Capacity
      BY <1>1, <1>3
    <3>. QED
      BY <2>1, <2>3, <3>1 DEF QueueInv
  <2>9. \A i \in 1 .. Len(queue') :
          queue'[i] = <<ring'.latencyStarts[(ring'.head + (i - 1)) % Capacity],
                        ring'.timeoutStarts[(ring'.head + (i - 1)) % Capacity]>>
    <3>1. Len(queue') = n - 1
      BY <2>2
    <3>. HIDE DEF n
    <3>. QED
      BY <2>7, <3>1, Zenon
  <2>10. queue' \in Seq(Time \X Time) /\ ring'.size = Len(queue')
    BY <2>2, <2>4
  <2>. QED
    BY <2>6, <2>8, <2>9, <2>10, Zenon DEF QueueInv
<1>. QED
  BY <1>2, <1>3

\* A clear leaves nothing.
LEMMA ClearKeeps ==
    ASSUME QueueInv, Clear
    PROVE  QueueInv'
<1>1. /\ ring' = [ring EXCEPT !.head = 0, !.size = 0] /\ queue' = <<>> /\ answer' = answer
  BY DEF Clear
<1>2. 0 \in Slot /\ 0 \in 0 .. Capacity
  BY RingAssumption DEF Slot
<1>3. /\ ring' \in [latencyStarts : [Slot -> Time], timeoutStarts : [Slot -> Time],
                    head : Slot, size : 0 .. Capacity]
      /\ ring'.size = 0
  BY <1>1, <1>2 DEF QueueInv
<1>4. queue' \in Seq(Time \X Time) /\ Len(queue') = 0 /\ answer'[1] = answer'[2]
  BY <1>1 DEF QueueInv
<1>. QED
  BY <1>3, <1>4 DEF QueueInv
--------------------------------------------------------------------------------
(* The theorem *)

\* The ring buffers hold what they should.
RingsInv == QueueInv /\ RecorderInv

\* It says what RingsExact does.
LEMMA RingsInvExact == RingsInv => RingsExact
<1>. SUFFICES ASSUME RingsInv
              PROVE  RingsExact
  OBVIOUS
<1>1. QueueInv /\ RecorderInv
  BY DEF RingsInv
<1>2. Capacity \in Nat \ {0} /\ ring.head \in 0 .. Capacity - 1 /\ queue \in Seq(Time \X Time)
  BY <1>1, RingAssumption DEF QueueInv, Slot
<1>3. \A i \in 1 .. Len(queue) :
        LET slot == (ring.head + i - 1) % Capacity
        IN  queue[i] = <<ring.latencyStarts[slot], ring.timeoutStarts[slot]>>
  <2>1. ASSUME NEW i \in 1 .. Len(queue)
        PROVE  ring.head + i - 1 = ring.head + (i - 1)
    BY <1>2
  <2>. QED
    BY <1>1, <2>1 DEF QueueInv
<1>4. PeekTimeoutStart = IF queue = <<>> THEN NoTime ELSE queue[1][2]
  <2>1. CASE queue = <<>>
    BY <1>1, <2>1 DEF QueueInv, PeekTimeoutStart
  <2>2. CASE queue # <<>>
    <3>1. Len(queue) # 0 /\ 1 \in 1 .. Len(queue) /\ ring.size # 0
      BY <1>1, <1>2, <2>2 DEF QueueInv
    <3>2. (ring.head + (1 - 1)) % Capacity = ring.head
      <4>. DEFINE head == ring.head
      <4>1. head \in 0 .. Capacity - 1 /\ Capacity \in Nat \ {0}
        BY <1>2
      <4>. HIDE DEF head
      <4>2. head + (1 - 1) = head /\ head % Capacity = head
        BY <4>1
      <4>. QED
        BY <4>2 DEF head
    <3>3. queue[1] = <<ring.latencyStarts[ring.head], ring.timeoutStarts[ring.head]>>
      BY <1>1, <3>1, <3>2 DEF QueueInv
    <3>. QED
      BY <2>2, <3>1, <3>3 DEF PeekTimeoutStart
  <2>. QED
    BY <2>1, <2>2
<1>5. recorder.sum = Summed(samples)
  BY <1>1 DEF RecorderInv
<1>6. ASSUME samples # <<>>, NEW p \in {950, 975, 990}
      PROVE  RankExact(p)
  BY <1>1, <1>6, PercentileRank DEF RankExact
<1>7. ring.size = Len(queue) /\ answer[1] = answer[2]
  BY <1>1 DEF QueueInv
<1>8. QueueExact
  BY <1>3, <1>4, <1>7 DEF QueueExact
<1>9. \A p \in {950, 975, 990} : samples # <<>> => RankExact(p)
  BY <1>6
<1>. QED
  BY <1>5, <1>8, <1>9 DEF RingsExact

\* It holds of every state.
LEMMA RingsInvInductive == RingSpec => []RingsInv
<1>1. RingInit => RingsInv
  <2>. SUFFICES ASSUME RingInit
                PROVE  RingsInv
    OBVIOUS
  <2>1. /\ 0 \in Slot /\ 0 \in Time /\ 0 \in 0 .. Capacity /\ 0 % Capacity = 0 /\ 0 \in Int
        /\ 0 < Capacity
    BY RingAssumption DEF Slot, Time
  <2>2. QueueInv
    BY <2>1 DEF RingInit, QueueInv
  <2>3. RecorderInv
    <3>1. samples = <<>> /\ samples \in Seq(Time) /\ Len(samples) = 0
      BY DEF RingInit
    <3>2. recorder = [latencies |-> [s \in Slot |-> 0], sum |-> 0, count |-> 0, index |-> 0]
      BY DEF RingInit
    <3>3. recorder \in [latencies : [Slot -> Time], sum : Int, count : 0 .. Capacity, index : Slot]
      BY <2>1, <3>2
    <3>4. recorder.sum = Summed(samples)
      BY <3>1, <3>2, SumEmpty
    <3>. QED
      BY <2>1, <3>1, <3>2, <3>3, <3>4 DEF RecorderInv
  <2>. QED
    BY <2>2, <2>3 DEF RingsInv
<1>2. RingsInv /\ [RingNext]_ringVars => RingsInv'
  <2>. SUFFICES ASSUME RingsInv, [RingNext]_ringVars
                PROVE  RingsInv'
    OBVIOUS
  <2>1. QueueInv /\ RecorderInv
    BY DEF RingsInv
  <2>2. ASSUME UNCHANGED <<ring, queue, answer>>
        PROVE  QueueInv'
    BY <2>1, <2>2 DEF QueueInv
  <2>3. ASSUME UNCHANGED <<recorder, samples>>
        PROVE  RecorderInv'
    BY <2>1, <2>3 DEF RecorderInv
  <2>4. CASE \E l, t \in Time : Push(l, t)
    BY <2>1, <2>3, <2>4, PushKeeps DEF RingsInv, Push
  <2>5. CASE Shift
    BY <2>1, <2>3, <2>5, ShiftKeeps DEF RingsInv, Shift
  <2>6. CASE Clear
    BY <2>1, <2>3, <2>6, ClearKeeps DEF RingsInv, Clear
  <2>7. CASE \E ms \in Time : RecordSample(ms)
    BY <2>1, <2>2, <2>7, RecordSampleKeeps DEF RingsInv, RecordSample
  <2>8. CASE UNCHANGED ringVars
    BY <2>2, <2>3, <2>8 DEF RingsInv, ringVars
  <2>. QED
    BY <2>4, <2>5, <2>6, <2>7, <2>8 DEF RingNext
<1>. QED
  BY <1>1, <1>2, PTL DEF RingSpec

\* However often a buffer has wrapped around or been cleared, the queue gives
\* each answer the times of its own request, and the percentiles of the recorder
\* are ranks of the latest samples.
THEOREM RingsExactHolds == RingSpec => []RingsExact
BY RingsInvExact, RingsInvInductive, PTL
--------------------------------------------------------------------------------
(* What samplers see *)

\* A memory usage.
Reading == [MemoryKey -> Level]

\* The greatest of them, key by key.
Peak(readings) == [k \in MemoryKey |-> Max({u[k] : u \in ToSet(readings)})]

\* What a tracker knows of the readings it was given.
Tracks(tracker, readings) == tracker = [start |-> Head(readings), peak |-> Peak(readings)]

\* The memory usages of what Metrics saw,
Usages(seen) == [i \in DOMAIN seen |-> seen[i][1]]

\* and the loads, that at start() left out.
Loads(seen) == [i \in 1 .. Len(seen) - 1 |-> seen[i + 1][2]]

\* The greatest number of a set is the one that no other exceeds.
LEMMA MaxIs ==
    ASSUME NEW S \in SUBSET Int, NEW x \in S, \A y \in S : y <= x
    PROVE  Max(S) = x
<1>1. Max(S) \in S /\ \A y \in S : Max(S) >= y
  BY DEF Max
<1>. DEFINE m == Max(S)
<1>2. m \in Int /\ x \in Int /\ m >= x /\ m <= x
  BY <1>1
<1>. HIDE DEF m
<1>3. m = x
  BY <1>2
<1>. QED
  BY <1>3 DEF m

\* The peak of readings is the greatest, key by key.
LEMMA PeakGreatest ==
    ASSUME NEW readings \in Seq(Reading), readings # <<>>, NEW k \in MemoryKey
    PROVE  /\ Peak(readings)[k] \in Level
           /\ \E i \in DOMAIN readings : Peak(readings)[k] = readings[i][k]
           /\ \A i \in DOMAIN readings : readings[i][k] <= Peak(readings)[k]
<1>. DEFINE S == {u[k] : u \in ToSet(readings)}
<1>1. ToSet(readings) = {readings[i] : i \in DOMAIN readings}
  BY DEF ToSet
<1>2. \A i \in DOMAIN readings : readings[i] \in Reading
  OBVIOUS
<1>3. \A i \in DOMAIN readings : readings[i][k] \in Level
  BY <1>2 DEF Reading
<1>4. S \in SUBSET Nat /\ \A v \in S : v <= MaxLevel
  BY <1>1, <1>3, SamplingAssumption DEF Level
<1>5. S # {}
  <2>1. 1 \in DOMAIN readings
    OBVIOUS
  <2>. QED
    BY <1>1, <2>1
<1>6. Peak(readings)[k] = Max(S)
  BY DEF Peak
<1>7. \A i \in DOMAIN readings : readings[i][k] \in S
  BY <1>1
<1>8. \A v \in S : \E i \in DOMAIN readings : v = readings[i][k]
  BY <1>1
<1>. HIDE DEF S
<1>9. Max(S) \in S /\ \A v \in S : Max(S) >= v
  BY <1>4, <1>5, MaxOfNaturals, SamplingAssumption
<1>10. Max(S) \in Int /\ \A v \in S : v \in Int /\ v <= Max(S)
  <2>. DEFINE m == Max(S)
  <2>1. m \in Nat /\ \A v \in S : v \in Nat /\ m >= v
    BY <1>4, <1>9
  <2>. HIDE DEF m
  <2>2. m \in Int /\ \A v \in S : v \in Int /\ v <= m
    BY <2>1
  <2>. QED
    BY <2>2 DEF m
<1>. QED
  BY <1>3, <1>6, <1>7, <1>8, <1>9, <1>10

\* A tracker that samples a reading has seen it.
LEMMA PeakAppend ==
    ASSUME NEW readings \in Seq(Reading), readings # <<>>, NEW u \in Reading
    PROVE  /\ Peak(readings) \in Reading
           /\ Peak(Append(readings, u)) = Higher(Peak(readings), u)
           /\ Head(Append(readings, u)) = Head(readings)
<1>. DEFINE longer == Append(readings, u)
            n == Len(readings)
<1>1. /\ longer \in Seq(Reading) /\ longer # <<>> /\ n \in Nat \ {0}
      /\ DOMAIN longer = 1 .. n + 1 /\ DOMAIN readings = 1 .. n
      /\ longer[n + 1] = u /\ \A i \in 1 .. n : longer[i] = readings[i]
  OBVIOUS
<1>2. Head(longer) = Head(readings)
  BY <1>1
<1>. HIDE DEF longer, n
<1>3. Peak(readings) \in Reading
  BY PeakGreatest DEF Peak, Reading
<1>4. ASSUME NEW k \in MemoryKey
      PROVE  Peak(longer)[k] = IF Peak(readings)[k] < u[k] THEN u[k] ELSE Peak(readings)[k]
  <2>. DEFINE p == Peak(readings)[k]
              q == Peak(longer)[k]
              v == u[k]
  <2>1. v \in Int
    BY SamplingAssumption DEF Reading, Level
  <2>2. p \in Int /\ (\E i \in 1 .. n : p = readings[i][k]) /\ \A i \in 1 .. n : readings[i][k] <= p
    BY <1>1, PeakGreatest, SamplingAssumption DEF Level
  <2>3. /\ q \in Int /\ (\E i \in 1 .. n + 1 : q = longer[i][k])
        /\ \A i \in 1 .. n + 1 : longer[i][k] <= q
    BY <1>1, PeakGreatest, SamplingAssumption DEF Level
  <2>. HIDE DEF p, q
  <2>4. v <= q /\ p <= q
    <3>1. n + 1 \in 1 .. n + 1 /\ \A i \in 1 .. n : i \in 1 .. n + 1
      BY <1>1
    <3>. QED
      BY <1>1, <2>2, <2>3, <3>1
  <2>5. q = v \/ q <= p
    <3>1. PICK i \in 1 .. n + 1 : q = longer[i][k]
      BY <2>3
    <3>2. CASE i = n + 1
      BY <1>1, <3>1, <3>2
    <3>3. CASE i # n + 1
      <4>1. i \in 1 .. n
        BY <1>1, <3>3
      <4>. QED
        BY <1>1, <2>2, <3>1, <4>1
    <3>. QED
      BY <3>2, <3>3
  <2>6. q = IF p < v THEN v ELSE p
    <3>. HIDE DEF v
    <3>. QED
      BY <2>1, <2>2, <2>3, <2>4, <2>5
  <2>. QED
    BY <2>6 DEF p, q
<1>5. Peak(longer) = Higher(Peak(readings), u)
  BY <1>4 DEF Peak, Higher
<1>. QED
  BY <1>2, <1>3, <1>5 DEF longer

\* One reading is its own peak.
LEMMA PeakSingle ==
    ASSUME NEW u \in Reading
    PROVE  Tracks(Tracked(u), <<u>>)
<1>1. ToSet(<<u>>) = {u}
  BY DEF ToSet
<1>2. ASSUME NEW k \in MemoryKey
      PROVE  Max({w[k] : w \in ToSet(<<u>>)}) = u[k]
  <2>1. {w[k] : w \in ToSet(<<u>>)} = {u[k]}
    BY <1>1
  <2>2. u[k] \in Int
    BY SamplingAssumption DEF Reading, Level
  <2>3. Max({u[k]}) = u[k]
    <3>. DEFINE v == u[k]
                S == {v}
    <3>1. S \in SUBSET Int /\ v \in S /\ \A y \in S : y <= v
      BY <2>2
    <3>. HIDE DEF S, v
    <3>2. Max(S) = v
      BY <3>1, MaxIs
    <3>. QED
      BY <3>2 DEF S, v
  <2>. QED
    BY <2>1, <2>3
<1>3. Peak(<<u>>) = u
  BY <1>2 DEF Peak, Reading
<1>. QED
  BY <1>3 DEF Tracks, Tracked

\* A tracker keeps track,
LEMMA TracksAppend ==
    ASSUME NEW readings \in Seq(Reading), readings # <<>>, NEW u \in Reading,
           NEW tracker, Tracks(tracker, readings)
    PROVE  Tracks(Sampled(tracker, u), Append(readings, u))
BY PeakAppend DEF Tracks, Sampled

\* and the interval it ends is that of its readings.
LEMMA IntervalTracked ==
    ASSUME NEW readings \in Seq(Reading), readings # <<>>, NEW u \in Reading,
           NEW tracker, Tracks(tracker, readings)
    PROVE  Interval(tracker, u) = IntervalOf(Append(readings, u))
<1>. DEFINE longer == Append(readings, u)
<1>1. longer[Len(longer)] = u
  OBVIOUS
<1>2. Last(longer) = u
  BY <1>1 DEF Last
<1>3. Head(longer) = Head(readings) /\ Peak(longer) = Higher(Peak(readings), u)
  BY PeakAppend
<1>4. tracker.start = Head(readings) /\ Sampled(tracker, u).peak = Higher(Peak(readings), u)
  BY DEF Tracks, Sampled
<1>. HIDE DEF longer
<1>5. IntervalOf(longer) = [start |-> Head(longer), end |-> Last(longer), peak |-> Peak(longer),
                            delta |-> [k \in MemoryKey |-> Last(longer)[k] - Head(longer)[k]]]
  BY DEF IntervalOf, Peak
<1>. QED
  BY <1>2, <1>3, <1>4, <1>5 DEF Interval, longer
--------------------------------------------------------------------------------
(* Metrics *)

\* The load fields of Metrics are those of the loads it sampled.
LoadsAre(sum, peak, count, loads) ==
    /\ sum = Summed(loads) /\ count = Len(loads)
    /\ loads = <<>> => peak = 0
    /\ loads # <<>> => peak \in ToSet(loads)
    /\ \A i \in DOMAIN loads : loads[i] <= peak

\* A sequence of what Metrics sees, one sample longer.
LEMMA SeenAppend ==
    ASSUME NEW seen \in Seq(Reading \X Level), seen # <<>>, NEW u \in Reading, NEW l \in Level
    PROVE  /\ Usages(seen) \in Seq(Reading) /\ Usages(seen) # <<>>
           /\ Loads(seen) \in Seq(Level)
           /\ Usages(Append(seen, <<u, l>>)) = Append(Usages(seen), u)
           /\ Loads(Append(seen, <<u, l>>)) = Append(Loads(seen), l)
<1>. DEFINE longer == Append(seen, <<u, l>>)
            n == Len(seen)
<1>1. /\ n \in Nat \ {0} /\ DOMAIN seen = 1 .. n
      /\ Len(longer) = n + 1 /\ DOMAIN longer = 1 .. n + 1
      /\ longer[n + 1] = <<u, l>> /\ \A i \in 1 .. n : longer[i] = seen[i]
  OBVIOUS
<1>2. \A i \in 1 .. n : seen[i] \in Reading \X Level
  OBVIOUS
<1>. HIDE DEF longer, n
<1>3. \A i \in 1 .. n : seen[i][1] \in Reading /\ seen[i][2] \in Level
  BY <1>2
<1>4. Usages(seen) = [i \in 1 .. n |-> seen[i][1]]
  BY <1>1 DEF Usages
<1>5. Usages(seen) \in Seq(Reading) /\ Len(Usages(seen)) = n /\ Usages(seen) # <<>>
  <2>. DEFINE x == Usages(seen)
  <2>1. x \in [1 .. n -> Reading]
    BY <1>3, <1>4
  <2>. HIDE DEF x
  <2>2. x \in Seq(Reading) /\ Len(x) = n
    BY <1>1, <2>1
  <2>. QED
    BY <1>1, <2>2 DEF x
<1>6. Loads(seen) = [i \in 1 .. n - 1 |-> seen[i + 1][2]]
  BY DEF Loads, n
<1>7. Loads(seen) \in Seq(Level) /\ Len(Loads(seen)) = n - 1
  <2>1. n - 1 \in Nat /\ \A i \in 1 .. n - 1 : i + 1 \in 1 .. n
    BY <1>1
  <2>. DEFINE x == Loads(seen)
  <2>2. x \in [1 .. n - 1 -> Level]
    BY <1>3, <1>6, <2>1
  <2>. HIDE DEF x
  <2>3. x \in Seq(Level) /\ Len(x) = n - 1
    <3>. DEFINE k == n - 1
    <3>1. k \in Nat /\ x \in [1 .. k -> Level]
      BY <2>1, <2>2
    <3>. HIDE DEF k
    <3>2. x \in Seq(Level) /\ Len(x) = k
      BY <3>1
    <3>. QED
      BY <3>2 DEF k
  <2>. QED
    BY <2>3 DEF x
<1>8. Usages(longer) = Append(Usages(seen), u)
  <2>. DEFINE x == Usages(longer)
              y == Append(Usages(seen), u)
  <2>1. x = [i \in 1 .. n + 1 |-> longer[i][1]]
    BY <1>1 DEF Usages
  <2>2. y \in Seq(Reading) /\ Len(y) = n + 1 /\ DOMAIN y = 1 .. n + 1
    BY <1>1, <1>5
  <2>3. ASSUME NEW i \in 1 .. n + 1
        PROVE  x[i] = y[i]
    <3>1. CASE i = n + 1
      BY <1>1, <1>5, <2>1, <3>1
    <3>2. CASE i # n + 1
      <4>1. i \in 1 .. n
        BY <1>1, <3>2
      <4>2. y[i] = Usages(seen)[i]
        BY <1>5, <4>1
      <4>. QED
        BY <1>1, <1>4, <2>1, <4>1, <4>2
    <3>. QED
      BY <3>1, <3>2
  <2>4. DOMAIN x = 1 .. n + 1 /\ x = [i \in DOMAIN x |-> x[i]]
    BY <2>1
  <2>5. y = [i \in 1 .. n + 1 |-> y[i]]
    <3>. HIDE DEF y
    <3>. QED
      BY <1>1, <2>2
  <2>. HIDE DEF x, y
  <2>. QED
    BY <2>3, <2>4, <2>5 DEF x, y
<1>9. Loads(longer) = Append(Loads(seen), l)
  <2>. DEFINE x == Loads(longer)
              y == Append(Loads(seen), l)
  <2>1. x = [i \in 1 .. n |-> longer[i + 1][2]]
    <3>1. Len(longer) - 1 = n
      BY <1>1
    <3>. QED
      BY <3>1 DEF Loads
  <2>2. y \in Seq(Level) /\ Len(y) = n /\ DOMAIN y = 1 .. n
    BY <1>1, <1>7
  <2>3. ASSUME NEW i \in 1 .. n
        PROVE  x[i] = y[i]
    <3>1. CASE i = n
      <4>1. x[n] = l
        BY <1>1, <2>1
      <4>2. y[n] = l
        <5>1. Len(Loads(seen)) + 1 = n
          BY <1>1, <1>7
        <5>2. y[Len(Loads(seen)) + 1] = l
          BY <1>7
        <5>. QED
          BY <5>1, <5>2
      <4>. QED
        BY <3>1, <4>1, <4>2
    <3>2. CASE i # n
      <4>1. i \in 1 .. n - 1 /\ i + 1 \in 1 .. n
        BY <1>1, <3>2
      <4>2. y[i] = Loads(seen)[i]
        BY <1>7, <4>1
      <4>. QED
        BY <1>1, <1>6, <2>1, <4>1, <4>2
    <3>. QED
      BY <3>1, <3>2
  <2>4. DOMAIN x = 1 .. n /\ x = [i \in DOMAIN x |-> x[i]]
    BY <2>1
  <2>5. y = [i \in 1 .. n |-> y[i]]
    <3>. HIDE DEF y
    <3>. QED
      BY <1>1, <2>2
  <2>. HIDE DEF x, y
  <2>. QED
    BY <2>3, <2>4, <2>5 DEF x, y
<1>. QED
  BY <1>5, <1>7, <1>8, <1>9 DEF longer

\* At start() Metrics has seen a usage and no load.
LEMMA SeenFirst ==
    ASSUME NEW u \in Reading, NEW l \in Level
    PROVE  /\ Tracks(Tracked(u), Usages(<<<<u, l>>>>))
           /\ LoadsAre(0, 0, 0, Loads(<<<<u, l>>>>))
<1>1. Usages(<<<<u, l>>>>) = <<u>>
  BY DEF Usages
<1>2. Loads(<<<<u, l>>>>) = <<>>
  BY DEF Loads
<1>. QED
  BY <1>1, <1>2, PeakSingle, SumEmpty DEF LoadsAre

\* A load that is sampled is added.
LEMMA LoadsAppend ==
    ASSUME NEW loads \in Seq(Level), NEW l \in Level, NEW sum, NEW peak \in Level, NEW count,
           LoadsAre(sum, peak, count, loads)
    PROVE  LoadsAre(sum + l, IF peak < l THEN l ELSE peak, count + 1, Append(loads, l))
<1>. DEFINE longer == Append(loads, l)
            n == Len(loads)
            top == IF peak < l THEN l ELSE peak
<1>1. /\ n \in Nat /\ DOMAIN loads = 1 .. n
      /\ Len(longer) = n + 1 /\ DOMAIN longer = 1 .. n + 1 /\ longer # <<>>
      /\ longer[n + 1] = l /\ \A i \in 1 .. n : longer[i] = loads[i]
  OBVIOUS
<1>2. \A i \in 1 .. n : loads[i] \in Level
  OBVIOUS
<1>3. loads \in Seq(Int) /\ l \in Int /\ l >= 0 /\ peak \in Int /\ \A v \in Level : v \in Int
  BY SamplingAssumption DEF Level
<1>4. sum + l = Summed(longer) /\ count + 1 = Len(longer)
  <2>1. Summed(longer) = Summed(loads) + l
    BY <1>3, SumAppend
  <2>. HIDE DEF longer
  <2>. QED
    BY <1>1, <2>1 DEF LoadsAre, n
<1>. HIDE DEF longer
<1>5. \A i \in 1 .. n + 1 : longer[i] <= top
  <2>1. ASSUME NEW i \in 1 .. n + 1
        PROVE  longer[i] <= top
    <3>1. CASE i = n + 1
      BY <1>1, <1>3, <3>1
    <3>2. CASE i # n + 1
      <4>1. i \in 1 .. n
        BY <1>1, <3>2
      <4>2. loads[i] <= peak /\ loads[i] \in Int
        BY <1>1, <1>2, <1>3, <4>1 DEF LoadsAre
      <4>. QED
        BY <1>1, <1>3, <4>1, <4>2
    <3>. QED
      BY <3>1, <3>2
  <2>. QED
    BY <2>1
<1>6. top \in ToSet(longer)
  <2>1. \A i \in 1 .. n + 1 : longer[i] \in ToSet(longer)
    BY <1>1 DEF ToSet
  <2>2. n + 1 \in 1 .. n + 1 /\ \A i \in 1 .. n : i \in 1 .. n + 1
    BY <1>1
  <2>3. CASE peak < l
    BY <1>1, <2>1, <2>2, <2>3
  <2>4. CASE ~ (peak < l)
    <3>1. CASE loads = <<>>
      <4>1. peak = 0 /\ l = 0
        BY <1>3, <2>4, <3>1 DEF LoadsAre
      <4>. QED
        BY <1>1, <2>1, <2>2, <2>4, <4>1
    <3>2. CASE loads # <<>>
      <4>1. PICK i \in 1 .. n : peak = loads[i]
        BY <1>1, <3>2 DEF LoadsAre, ToSet
      <4>. QED
        BY <1>1, <2>1, <2>2, <2>4, <4>1
    <3>. QED
      BY <3>1, <3>2
  <2>. QED
    BY <2>3, <2>4
<1>. HIDE DEF top
<1>7. LoadsAre(sum + l, top, count + 1, longer)
  BY <1>1, <1>4, <1>5, <1>6 DEF LoadsAre
<1>. QED
  BY <1>7 DEF longer, top

\* Metrics tracks what it has seen since start(), and a summary is exact.
MetricsInv ==
    /\ usage \in Reading /\ load \in Level
    /\ metrics \in [running : BOOLEAN, timer : BOOLEAN,
                    memory : [start : Reading, peak : Reading] \cup {Null},
                    loadSum : Int, loadPeak : Level, samples : Nat]
    /\ metricsSeen \in Seq(Reading \X Level)
    /\ metrics.running =>
        /\ metricsSeen # <<>> /\ Tracks(metrics.memory, Usages(metricsSeen))
        /\ LoadsAre(metrics.loadSum, metrics.loadPeak, metrics.samples, Loads(metricsSeen))
    /\ MetricsExact

\* start() begins an interval.
LEMMA MetricsStartKeeps ==
    ASSUME MetricsInv, MetricsStart
    PROVE  MetricsInv'
<1>1. /\ usage \in Reading /\ load \in Level /\ usage' = usage /\ load' = load
      /\ metrics' = [running |-> TRUE, timer |-> TRUE, memory |-> Tracked(usage),
                     loadSum |-> 0, loadPeak |-> 0, samples |-> 0]
      /\ metricsSeen' = <<<<usage, load>>>> /\ summary' = Null
  BY DEF MetricsInv, MetricsStart
<1>2. metricsSeen' \in Seq(Reading \X Level) /\ metricsSeen' # <<>>
  BY <1>1
<1>3. /\ metrics'.running = TRUE /\ metrics'.timer = TRUE /\ metrics'.memory = Tracked(usage)
      /\ metrics'.loadSum = 0 /\ metrics'.loadPeak = 0 /\ metrics'.samples = 0
  BY <1>1
<1>4. 0 \in Level
  BY SamplingAssumption DEF Level
<1>5. metrics' \in [running : BOOLEAN, timer : BOOLEAN,
                    memory : [start : Reading, peak : Reading] \cup {Null},
                    loadSum : Int, loadPeak : Level, samples : Nat]
  <2>1. Tracked(usage) \in [start : Reading, peak : Reading]
    BY <1>1 DEF Tracked
  <2>. QED
    BY <1>1, <1>4, <2>1
<1>6. /\ Tracks(Tracked(usage), Usages(<<<<usage, load>>>>))
      /\ LoadsAre(0, 0, 0, Loads(<<<<usage, load>>>>))
  BY <1>1, SeenFirst
<1>7. /\ Tracks(metrics'.memory, Usages(metricsSeen'))
      /\ LoadsAre(metrics'.loadSum, metrics'.loadPeak, metrics'.samples, Loads(metricsSeen'))
  BY <1>1, <1>3, <1>6
<1>8. MetricsExact'
  BY <1>1, <1>3 DEF MetricsExact
<1>9. usage' \in Reading /\ load' \in Level
  BY <1>1
<1>. QED
  BY <1>2, <1>5, <1>7, <1>8, <1>9, Zenon DEF MetricsInv

\* What a sample of Metrics leaves, which is also the last that stop() takes.
LEMMA LoadSampled ==
    ASSUME MetricsInv, metrics.running
    PROVE  LET m == WithLoad(metrics)
               seen == Append(metricsSeen, <<usage, load>>)
           IN  /\ seen \in Seq(Reading \X Level) /\ seen # <<>> /\ Len(Loads(seen)) > 0
               /\ m = [metrics EXCEPT !.loadSum = m.loadSum, !.loadPeak = m.loadPeak,
                                      !.samples = m.samples]
               /\ m.loadSum \in Int /\ m.loadPeak \in Level /\ m.samples \in Nat
               /\ LoadsAre(m.loadSum, m.loadPeak, m.samples, Loads(seen))
               /\ Tracks(Sampled(metrics.memory, usage), Usages(seen))
               /\ Interval(metrics.memory, usage) = IntervalOf(Usages(seen))
               /\ Sampled(metrics.memory, usage) \in [start : Reading, peak : Reading]
<1>. DEFINE m == WithLoad(metrics)
            seen == Append(metricsSeen, <<usage, load>>)
<1>1. /\ usage \in Reading /\ load \in Level /\ metricsSeen \in Seq(Reading \X Level)
      /\ metricsSeen # <<>> /\ Tracks(metrics.memory, Usages(metricsSeen))
      /\ LoadsAre(metrics.loadSum, metrics.loadPeak, metrics.samples, Loads(metricsSeen))
  BY DEF MetricsInv
<1>2. metrics \in [running : BOOLEAN, timer : BOOLEAN,
                   memory : [start : Reading, peak : Reading] \cup {Null},
                   loadSum : Int, loadPeak : Level, samples : Nat]
  BY DEF MetricsInv
<1>3. /\ m.loadSum = metrics.loadSum + load /\ m.samples = metrics.samples + 1
      /\ m.loadPeak = IF metrics.loadPeak < load THEN load ELSE metrics.loadPeak
      /\ m = [metrics EXCEPT !.loadSum = m.loadSum, !.loadPeak = m.loadPeak, !.samples = m.samples]
  BY <1>2 DEF WithLoad
<1>4. m.loadSum \in Int /\ m.loadPeak \in Level /\ m.samples \in Nat
  <2>1. load \in Int
    BY <1>1, SamplingAssumption DEF Level
  <2>2. metrics.loadSum \in Int /\ metrics.loadPeak \in Level /\ metrics.samples \in Nat
    BY <1>2
  <2>. HIDE DEF m
  <2>. QED
    BY <1>1, <1>3, <2>1, <2>2
<1>5. /\ Usages(metricsSeen) \in Seq(Reading) /\ Usages(metricsSeen) # <<>>
      /\ Loads(metricsSeen) \in Seq(Level)
      /\ Usages(seen) = Append(Usages(metricsSeen), usage)
      /\ Loads(seen) = Append(Loads(metricsSeen), load)
  BY <1>1, SeenAppend
<1>6. seen \in Seq(Reading \X Level) /\ seen # <<>>
  BY <1>1
<1>. HIDE DEF m, seen
<1>7. LoadsAre(m.loadSum, m.loadPeak, m.samples, Loads(seen))
  <2>1. metrics.loadPeak \in Level
    BY <1>2
  <2>. QED
    BY <1>1, <1>3, <1>5, <2>1, LoadsAppend
<1>8. /\ Tracks(Sampled(metrics.memory, usage), Usages(seen))
      /\ Interval(metrics.memory, usage) = IntervalOf(Usages(seen))
  BY <1>1, <1>5, TracksAppend, IntervalTracked
<1>9. Sampled(metrics.memory, usage) \in [start : Reading, peak : Reading]
  <2>1. /\ Peak(Usages(metricsSeen)) \in Reading
        /\ Higher(Peak(Usages(metricsSeen)), usage) = Peak(Usages(seen))
        /\ Head(Usages(metricsSeen)) \in Reading
    BY <1>1, <1>5, PeakAppend
  <2>2. Usages(seen) \in Seq(Reading) /\ Usages(seen) # <<>>
    BY <1>1, <1>6, SeenAppend
  <2>3. Peak(Usages(seen)) \in Reading
    BY <1>1, <2>2, PeakAppend
  <2>. QED
    BY <1>1, <2>1, <2>3 DEF Tracks, Sampled
<1>10. Len(Loads(seen)) > 0
  BY <1>5
<1>. QED
  BY <1>3, <1>4, <1>6, <1>7, <1>8, <1>9, <1>10 DEF m, seen

\* The timer samples.
LEMMA MetricsSampleKeeps ==
    ASSUME MetricsInv, MetricsSample
    PROVE  MetricsInv'
<1>. DEFINE m == WithLoad(metrics)
            seen == Append(metricsSeen, <<usage, load>>)
            next == Sampled(metrics.memory, usage)
<1>1. metrics.running
  BY DEF MetricsInv, MetricsSample, MetricsExact
<1>2. /\ seen \in Seq(Reading \X Level) /\ seen # <<>>
      /\ m = [metrics EXCEPT !.loadSum = m.loadSum, !.loadPeak = m.loadPeak,
                             !.samples = m.samples]
      /\ m.loadSum \in Int /\ m.loadPeak \in Level /\ m.samples \in Nat
      /\ LoadsAre(m.loadSum, m.loadPeak, m.samples, Loads(seen))
      /\ Tracks(next, Usages(seen))
      /\ next \in [start : Reading, peak : Reading]
  BY <1>1, LoadSampled
<1>3. metrics \in [running : BOOLEAN, timer : BOOLEAN,
                   memory : [start : Reading, peak : Reading] \cup {Null},
                   loadSum : Int, loadPeak : Level, samples : Nat]
  BY DEF MetricsInv
<1>4. metrics' = [metrics EXCEPT !.memory = next, !.loadSum = m.loadSum,
                                 !.loadPeak = m.loadPeak, !.samples = m.samples]
  <2>1. metrics' = WithLoad([metrics EXCEPT !.memory = next])
    BY <1>3 DEF MetricsSample
  <2>. HIDE DEF next
  <2>. QED
    BY <1>3, <2>1 DEF WithLoad
<1>5. /\ metricsSeen' = seen /\ summary' = summary /\ usage' = usage /\ load' = load
  BY DEF MetricsSample
<1>. HIDE DEF m, seen, next
<1>6. /\ metrics'.running = metrics.running /\ metrics'.timer = metrics.timer
      /\ metrics'.memory = next /\ metrics'.loadSum = m.loadSum
      /\ metrics'.loadPeak = m.loadPeak /\ metrics'.samples = m.samples
  BY <1>3, <1>4
<1>7. metrics' \in [running : BOOLEAN, timer : BOOLEAN,
                    memory : [start : Reading, peak : Reading] \cup {Null},
                    loadSum : Int, loadPeak : Level, samples : Nat]
  BY <1>2, <1>3, <1>4
<1>8. MetricsExact'
  BY <1>5, <1>6 DEF MetricsInv, MetricsExact
<1>9. /\ usage' \in Reading /\ load' \in Level
      /\ metricsSeen' \in Seq(Reading \X Level) /\ metricsSeen' # <<>>
  BY <1>2, <1>5 DEF MetricsInv
<1>10. /\ Tracks(metrics'.memory, Usages(metricsSeen'))
       /\ LoadsAre(metrics'.loadSum, metrics'.loadPeak, metrics'.samples, Loads(metricsSeen'))
  BY <1>2, <1>5, <1>6
<1>. QED
  BY <1>7, <1>8, <1>9, <1>10, Zenon DEF MetricsInv

\* stop() takes the last sample and makes a summary.
LEMMA MetricsStopKeeps ==
    ASSUME MetricsInv, MetricsStop
    PROVE  MetricsInv'
<1>. DEFINE m == WithLoad(metrics)
            seen == Append(metricsSeen, <<usage, load>>)
            interval == Interval(metrics.memory, usage)
<1>1. metrics.running
  BY DEF MetricsStop
<1>2. /\ seen \in Seq(Reading \X Level) /\ seen # <<>> /\ Len(Loads(seen)) > 0
      /\ m = [metrics EXCEPT !.loadSum = m.loadSum, !.loadPeak = m.loadPeak,
                             !.samples = m.samples]
      /\ m.loadSum \in Int /\ m.loadPeak \in Level /\ m.samples \in Nat
      /\ LoadsAre(m.loadSum, m.loadPeak, m.samples, Loads(seen))
      /\ interval = IntervalOf(Usages(seen))
  BY <1>1, LoadSampled
<1>3. metrics \in [running : BOOLEAN, timer : BOOLEAN,
                   memory : [start : Reading, peak : Reading] \cup {Null},
                   loadSum : Int, loadPeak : Level, samples : Nat]
  BY DEF MetricsInv
<1>4. /\ metrics' = [m EXCEPT !.running = FALSE, !.timer = FALSE, !.memory = Null]
      /\ summary' = <<[memory |-> interval, loadSum |-> m.loadSum,
                       loadPeak |-> m.loadPeak, samples |-> m.samples], seen>>
      /\ metricsSeen' = <<>> /\ usage' = usage /\ load' = load
  BY DEF MetricsStop
<1>5. Usages(seen) = [i \in DOMAIN seen |-> seen[i][1]]
      /\ Loads(seen) = [i \in 1 .. Len(seen) - 1 |-> seen[i + 1][2]]
  BY DEF Usages, Loads
<1>6. Max(ToSet(Loads(seen))) = m.loadPeak
  <2>. DEFINE loads == Loads(seen)
  <2>1. loads # <<>> /\ m.loadPeak \in ToSet(loads) /\ \A i \in DOMAIN loads : loads[i] <= m.loadPeak
    <3>. HIDE DEF m, seen
    <3>1. Loads(seen) # <<>>
      BY <1>2
    <3>. QED
      BY <1>2, <3>1 DEF LoadsAre
  <2>2. loads \in Seq(Level)
    <3>1. seen \in Seq(Reading \X Level) /\ seen # <<>>
      BY <1>2
    <3>2. usage \in Reading /\ load \in Level
      BY DEF MetricsInv
    <3>. HIDE DEF seen
    <3>. QED
      BY <3>1, <3>2, SeenAppend
  <2>. HIDE DEF loads, m
  <2>3. ToSet(loads) \in SUBSET Int /\ \A y \in ToSet(loads) : y <= m.loadPeak
    BY <2>1, <2>2, SamplingAssumption DEF ToSet, Level
  <2>. QED
    BY <2>1, <2>3, MaxIs DEF loads
<1>. HIDE DEF m, seen, interval
<1>7. SummaryExact(summary'[1], summary'[2])
  <2>. DEFINE s == [memory |-> interval, loadSum |-> m.loadSum,
                    loadPeak |-> m.loadPeak, samples |-> m.samples]
  <2>1. SummaryExact(s, seen)
    BY <1>2, <1>5, <1>6 DEF SummaryExact, LoadsAre
  <2>2. summary'[1] = s /\ summary'[2] = seen
    BY <1>4
  <2>. QED
    BY <2>1, <2>2
<1>8. m \in [running : BOOLEAN, timer : BOOLEAN,
             memory : [start : Reading, peak : Reading] \cup {Null},
             loadSum : Int, loadPeak : Level, samples : Nat]
  <2>. DEFINE a == m.loadSum
              b == m.loadPeak
              c == m.samples
  <2>1. a \in Int /\ b \in Level /\ c \in Nat
        /\ m = [metrics EXCEPT !.loadSum = a, !.loadPeak = b, !.samples = c]
    BY <1>2
  <2>. HIDE DEF a, b, c
  <2>. QED
    BY <1>3, <2>1
<1>9. /\ metrics' \in [running : BOOLEAN, timer : BOOLEAN,
                       memory : [start : Reading, peak : Reading] \cup {Null},
                       loadSum : Int, loadPeak : Level, samples : Nat]
      /\ metrics'.running = FALSE /\ metrics'.timer = FALSE
  BY <1>4, <1>8
<1>10. MetricsExact'
  BY <1>7, <1>9, Zenon DEF MetricsExact
<1>11. usage' \in Reading /\ load' \in Level /\ metricsSeen' \in Seq(Reading \X Level)
  BY <1>4 DEF MetricsInv
<1>. QED
  BY <1>9, <1>10, <1>11 DEF MetricsInv
--------------------------------------------------------------------------------
(* measureBatch *)

\* The record that a call of measureBatch is.
BatchRecord ==
    [pc : {"idle", "before", "run", "returned", "thrown"}, sampled : BOOLEAN,
     timer : BOOLEAN, memory : [start : Reading, peak : Reading] \cup {Null},
     before : Reading \cup {Null},
     processMemory : [start : Reading, end : Reading, peak : Reading,
                      delta : [MemoryKey -> Int]] \cup {Null},
     memoryDelta : [MemoryKey -> Int] \cup {Null}]

\* A call of measureBatch tracks what its sampler saw, and returns that.
BatchInv ==
    /\ usage \in Reading
    /\ batch \in BatchRecord
    /\ batchSeen \in Seq(Reading)
    /\ batch.timer => batch.sampled
    /\ batch.pc = "run" =>
        /\ batchSeen # <<>> /\ batch.before = Head(batchSeen)
        /\ batch.sampled => Tracks(batch.memory, batchSeen)
    /\ BatchExact

\* It is called.
LEMMA BatchCallKeeps ==
    ASSUME BatchInv, BatchCall
    PROVE  BatchInv'
<1>1. PICK sampled \in BOOLEAN :
        batch' = [batch EXCEPT !.pc = "before", !.sampled = sampled]
  BY DEF BatchCall
<1>2. /\ batch.pc = "idle" /\ UNCHANGED <<usage, batchSeen>> /\ batch \in BatchRecord
      /\ ~batch.timer
  BY DEF BatchCall, BatchInv, BatchRecord, BatchExact
<1>3. batch' \in BatchRecord
  BY <1>1, <1>2 DEF BatchRecord
<1>4. batch'.pc = "before" /\ batch'.timer = batch.timer
  BY <1>1, <1>2 DEF BatchRecord
<1>. QED
  BY <1>2, <1>3, <1>4 DEF BatchInv, BatchExact, BatchRecord

\* `before` settles, and the sampler starts.
LEMMA BeforeSettlesKeeps ==
    ASSUME BatchInv, BeforeSettles
    PROVE  BatchInv'
<1>1. /\ batch.pc = "before" /\ usage' = usage /\ usage \in Reading /\ batch \in BatchRecord
      /\ ~batch.timer
  BY DEF BeforeSettles, BatchInv, BatchRecord, BatchExact
<1>2. CASE batch' = [batch EXCEPT !.pc = "thrown"] /\ UNCHANGED batchSeen
  <2>1. batch' \in BatchRecord /\ batch'.pc = "thrown" /\ batch'.timer = batch.timer
    BY <1>1, <1>2 DEF BatchRecord
  <2>. QED
    BY <1>1, <1>2, <2>1 DEF BatchInv, BatchExact, BatchRecord
<1>3. CASE /\ batch' = [IF batch.sampled THEN SamplerStart(batch) ELSE batch
                          EXCEPT !.pc = "run", !.before = usage]
           /\ batchSeen' = <<usage>>
  <2>1. batchSeen' \in Seq(Reading) /\ batchSeen' # <<>> /\ Head(batchSeen') = usage
    BY <1>1, <1>3
  <2>2. Tracked(usage) \in [start : Reading, peak : Reading] /\ Tracks(Tracked(usage), <<usage>>)
    BY <1>1, PeakSingle DEF Tracked
  <2>3. CASE batch.sampled
    <3>1. batch' = [batch EXCEPT !.timer = TRUE, !.memory = Tracked(usage),
                                 !.pc = "run", !.before = usage]
      BY <1>1, <1>3, <2>3 DEF SamplerStart, BatchRecord
    <3>2. /\ batch' \in BatchRecord /\ batch'.pc = "run" /\ batch'.before = usage
          /\ batch'.memory = Tracked(usage) /\ batch'.sampled = batch.sampled
      BY <1>1, <2>2, <3>1 DEF BatchRecord
    <3>3. Tracks(batch'.memory, batchSeen')
      BY <1>3, <2>2, <3>2
    <3>4. BatchExact'
      BY <3>2 DEF BatchExact
    <3>. QED
      BY <1>1, <2>1, <2>3, <3>2, <3>3, <3>4 DEF BatchInv, BatchRecord
  <2>4. CASE ~batch.sampled
    <3>1. batch' = [batch EXCEPT !.pc = "run", !.before = usage]
      BY <1>3, <2>4
    <3>2. /\ batch' \in BatchRecord /\ batch'.pc = "run" /\ batch'.before = usage
          /\ batch'.timer = batch.timer /\ batch'.sampled = batch.sampled
      BY <1>1, <3>1 DEF BatchRecord
    <3>3. BatchExact'
      BY <3>2 DEF BatchExact
    <3>. QED
      BY <1>1, <2>1, <2>4, <3>2, <3>3 DEF BatchInv, BatchRecord
  <2>. QED
    BY <2>3, <2>4
<1>. QED
  BY <1>2, <1>3 DEF BeforeSettles

\* The sampler samples.
LEMMA BatchSampleKeeps ==
    ASSUME BatchInv, BatchSample
    PROVE  BatchInv'
<1>. DEFINE next == Sampled(batch.memory, usage)
            seen == Append(batchSeen, usage)
<1>1. /\ usage' = usage /\ usage \in Reading /\ batch \in BatchRecord
      /\ batch.pc = "run" /\ batch.sampled /\ batchSeen \in Seq(Reading) /\ batchSeen # <<>>
      /\ batch.before = Head(batchSeen) /\ Tracks(batch.memory, batchSeen)
      /\ batch' = [batch EXCEPT !.memory = next] /\ batchSeen' = seen
  BY DEF BatchSample, BatchInv, BatchRecord, BatchExact
<1>2. Tracks(next, seen) /\ Head(seen) = Head(batchSeen)
  BY <1>1, PeakAppend, TracksAppend
<1>3. seen \in Seq(Reading) /\ seen # <<>>
  BY <1>1
<1>4. next \in [start : Reading, peak : Reading]
  <2>1. Peak(seen) \in Reading
    <3>. HIDE DEF seen
    <3>. QED
      BY <1>1, <1>3, PeakAppend
  <2>2. Head(seen) \in Reading
    BY <1>3
  <2>. HIDE DEF next, seen
  <2>. QED
    BY <1>2, <2>1, <2>2 DEF Tracks
<1>. HIDE DEF next, seen
<1>5. /\ batch' \in BatchRecord /\ batch'.pc = "run" /\ batch'.before = batch.before
      /\ batch'.memory = next /\ batch'.sampled = batch.sampled
  BY <1>1, <1>4 DEF BatchRecord
<1>6. BatchExact'
  BY <1>5 DEF BatchExact
<1>7. Tracks(batch'.memory, batchSeen') /\ batchSeen' # <<>> /\ batch'.before = Head(batchSeen')
  BY <1>1, <1>2, <1>3, <1>5
<1>. QED
  BY <1>1, <1>3, <1>5, <1>6, <1>7 DEF BatchInv, BatchRecord

\* `run` settles, and the sampler is stopped.
LEMMA RunSettlesKeeps ==
    ASSUME BatchInv, RunSettles
    PROVE  BatchInv'
<1>. DEFINE seen == Append(batchSeen, usage)
            delta == [k \in MemoryKey |-> usage[k] - batch.before[k]]
            interval == Interval(batch.memory, usage)
<1>1. /\ usage' = usage /\ usage \in Reading /\ batch \in BatchRecord
      /\ batch.pc = "run" /\ batchSeen \in Seq(Reading) /\ batchSeen # <<>>
      /\ batch.before = Head(batchSeen) /\ batchSeen' = seen
      /\ (batch.timer => batch.sampled) /\ (batch.sampled => Tracks(batch.memory, batchSeen))
  BY DEF RunSettles, BatchInv, BatchRecord
<1>2. PICK pc \in {"returned", "thrown"} :
        batch' = [IF batch.sampled THEN SamplerStop(batch) ELSE batch
                    EXCEPT !.pc = pc, !.memoryDelta = delta]
  BY DEF RunSettles
<1>3. seen \in Seq(Reading) /\ seen # <<>> /\ Head(seen) = Head(batchSeen) /\ Last(seen) = usage
  <2>1. Head(seen) = Head(batchSeen)
    BY <1>1, PeakAppend
  <2>2. seen[Len(seen)] = usage
    BY <1>1
  <2>. QED
    BY <1>1, <2>1, <2>2 DEF Last
<1>4. IntervalOf(seen).delta = delta
  <2>. HIDE DEF seen
  <2>. QED
    BY <1>1, <1>3 DEF IntervalOf
<1>5. delta \in [MemoryKey -> Int]
  <2>1. Head(batchSeen) \in Reading
    BY <1>1
  <2>. QED
    BY <1>1, <2>1, SamplingAssumption DEF Reading, Level
<1>6. batch.sampled =>
        /\ interval = IntervalOf(seen)
        /\ interval \in [start : Reading, end : Reading, peak : Reading, delta : [MemoryKey -> Int]]
  <2>. SUFFICES ASSUME batch.sampled
                PROVE  /\ interval = IntervalOf(seen)
                       /\ interval \in [start : Reading, end : Reading, peak : Reading,
                                        delta : [MemoryKey -> Int]]
    OBVIOUS
  <2>1. interval = IntervalOf(seen)
    BY <1>1, IntervalTracked
  <2>2. Peak(seen) \in Reading /\ Head(seen) \in Reading /\ Last(seen) \in Reading
    <3>1. Head(seen) \in Reading
      BY <1>3
    <3>. HIDE DEF seen
    <3>. QED
      BY <1>1, <1>3, <3>1, PeakAppend
  <2>. HIDE DEF seen, interval, delta
  <2>3. IntervalOf(seen) = [start |-> Head(seen), end |-> Last(seen), peak |-> Peak(seen),
                            delta |-> IntervalOf(seen).delta]
    BY DEF IntervalOf, Peak
  <2>. QED
    BY <1>4, <1>5, <2>1, <2>2, <2>3
<1>. HIDE DEF seen, interval, delta
<1>7. CASE batch.sampled
  <2>1. batch' = [batch EXCEPT !.timer = FALSE, !.memory = Null, !.processMemory = interval,
                               !.pc = pc, !.memoryDelta = delta]
    BY <1>1, <1>2, <1>7 DEF SamplerStop, BatchRecord, interval
  <2>2. /\ batch' \in BatchRecord /\ batch'.pc = pc /\ batch'.timer = FALSE
        /\ batch'.processMemory = interval /\ batch'.memoryDelta = delta
    BY <1>1, <1>5, <1>6, <1>7, <2>1 DEF BatchRecord
  <2>3. BatchExact'
    BY <1>1, <1>4, <1>6, <1>7, <2>2 DEF BatchExact
  <2>. QED
    BY <1>1, <1>3, <2>2, <2>3 DEF BatchInv, BatchRecord
<1>8. CASE ~batch.sampled
  <2>1. batch' = [batch EXCEPT !.pc = pc, !.memoryDelta = delta]
    BY <1>2, <1>8
  <2>2. /\ batch' \in BatchRecord /\ batch'.pc = pc /\ batch'.timer = batch.timer
        /\ batch'.sampled = batch.sampled /\ batch'.memoryDelta = delta
    BY <1>1, <1>5, <2>1 DEF BatchRecord
  <2>3. BatchExact'
    BY <1>1, <1>4, <1>8, <2>2 DEF BatchExact
  <2>. QED
    BY <1>1, <1>3, <1>8, <2>2, <2>3 DEF BatchInv, BatchRecord
<1>. QED
  BY <1>7, <1>8
--------------------------------------------------------------------------------
(* measureMemoryGrowth *)

\* The record that a call of measureMemoryGrowth is.
GrowthRecord ==
    [pc : {"run", "gc", "returned", "thrown"}, calls : 0 .. Warmups + Iterations,
     cycle : 0 .. Cycles, start : Int, retained : Int, measured : Int,
     garbage : 0 .. Cycles, delta : Int]

\* The snapshots are taken when no garbage is left: the first after the warmup,
\* the second after the measured calls.
GrowthInv ==
    /\ growth \in GrowthRecord
    /\ growth.pc = "run" => growth.cycle = 0 /\ growth.calls < Warmups + Iterations
    /\ growth.pc = "gc" => /\ growth.calls \in {Warmups, Warmups + Iterations}
                           /\ growth.garbage <= Cycles - growth.cycle
    /\ growth.calls < Warmups \/ (growth.calls = Warmups /\ growth.pc = "gc") =>
        growth.measured = 0
    /\ growth.calls > Warmups \/ (growth.calls = Warmups /\ growth.pc = "run") =>
        growth.start = growth.retained - growth.measured
    /\ GrowthExact

\* Every step of it keeps that.
LEMMA GrowthKeeps ==
    ASSUME GrowthInv, GrowthRun \/ GrowthRunFails \/ GcCycle \/ GrowthSnapshot
    PROVE  GrowthInv'
<1>1. /\ growth \in GrowthRecord
      /\ Warmups \in Nat /\ Iterations \in Nat \ {0} /\ Cycles \in Nat \ {0}
  BY SamplingAssumption DEF GrowthInv, GrowthRecord
<1>. DEFINE g == growth
<1>2. /\ g.calls \in 0 .. Warmups + Iterations /\ g.cycle \in 0 .. Cycles
      /\ g.start \in Int /\ g.retained \in Int /\ g.measured \in Int
      /\ g.garbage \in 0 .. Cycles /\ g.delta \in Int
  BY <1>1 DEF GrowthRecord
<1>3. CASE GrowthRun
  <2>1. PICK kept \in Level, dropped \in 0 .. Cycles :
          LET last == g.calls + 1 \in {Warmups, Warmups + Iterations}
          IN  growth' = [g EXCEPT !.calls = @ + 1, !.retained = @ + kept,
                  !.measured = IF g.calls < Warmups THEN @ ELSE @ + kept,
                  !.garbage = IF dropped > @ THEN dropped ELSE @,
                  !.pc = IF last THEN "gc" ELSE "run"]
    BY <1>3 DEF GrowthRun
  <2>2. kept \in Int /\ dropped \in 0 .. Cycles
    BY SamplingAssumption DEF Level
  <2>3. g.pc = "run" /\ g.cycle = 0 /\ g.calls < Warmups + Iterations
    BY <1>3 DEF GrowthRun, GrowthInv
  <2>4. /\ growth'.calls = g.calls + 1 /\ growth'.retained = g.retained + kept
        /\ growth'.measured = IF g.calls < Warmups THEN g.measured ELSE g.measured + kept
        /\ growth'.garbage = IF dropped > g.garbage THEN dropped ELSE g.garbage
        /\ growth'.pc = IF g.calls + 1 \in {Warmups, Warmups + Iterations} THEN "gc" ELSE "run"
        /\ growth'.cycle = g.cycle /\ growth'.start = g.start /\ growth'.delta = g.delta
    BY <1>1, <2>1 DEF GrowthRecord
  <2>5. growth' \in GrowthRecord
    <3>1. /\ g.calls + 1 \in 0 .. Warmups + Iterations /\ g.retained + kept \in Int
          /\ (IF g.calls < Warmups THEN g.measured ELSE g.measured + kept) \in Int
          /\ (IF dropped > g.garbage THEN dropped ELSE g.garbage) \in 0 .. Cycles
      <4>. HIDE DEF g
      <4>. QED
        BY <1>1, <1>2, <2>2, <2>3
    <3>. QED
      BY <1>1, <2>1, <3>1 DEF GrowthRecord
  <2>6. /\ g.calls < Warmups => g.measured = 0
        /\ g.calls >= Warmups => g.start = g.retained - g.measured
    BY <1>2, <2>3, <1>1 DEF GrowthInv
  <2>. HIDE DEF g
  <2>7. growth'.calls < Warmups \/ (growth'.calls = Warmups /\ growth'.pc = "gc")
          => growth'.measured = 0
    BY <1>1, <1>2, <2>3, <2>4, <2>6
  <2>8. growth'.calls > Warmups \/ (growth'.calls = Warmups /\ growth'.pc = "run")
          => growth'.start = growth'.retained - growth'.measured
    BY <1>1, <1>2, <2>2, <2>3, <2>4, <2>6
  <2>9. growth'.pc = "run" => growth'.cycle = 0 /\ growth'.calls < Warmups + Iterations
    BY <1>1, <1>2, <2>3, <2>4
  <2>10. growth'.pc = "gc" => /\ growth'.calls \in {Warmups, Warmups + Iterations}
                              /\ growth'.garbage <= Cycles - growth'.cycle
    BY <1>1, <1>2, <2>2, <2>3, <2>4
  <2>11. GrowthExact'
    BY <2>4 DEF GrowthExact
  <2>. QED
    BY <2>5, <2>7, <2>8, <2>9, <2>10, <2>11 DEF GrowthInv, GrowthRecord
<1>4. CASE GrowthRunFails
  <2>1. growth' = [growth EXCEPT !.pc = "thrown"] /\ growth.pc = "run"
    BY <1>4 DEF GrowthRunFails
  <2>2. /\ growth' \in GrowthRecord /\ growth'.pc = "thrown" /\ growth'.calls = growth.calls
        /\ growth'.measured = growth.measured /\ growth'.start = growth.start
        /\ growth'.retained = growth.retained
    BY <1>1, <2>1 DEF GrowthRecord
  <2>. QED
    BY <1>1, <1>2, <2>1, <2>2 DEF GrowthInv, GrowthRecord, GrowthExact
<1>5. CASE GcCycle
  <2>1. /\ growth.pc = "gc" /\ growth.cycle < Cycles
        /\ growth' = [growth EXCEPT !.cycle = @ + 1, !.garbage = IF @ = 0 THEN 0 ELSE @ - 1]
    BY <1>5 DEF GcCycle
  <2>2. /\ growth'.pc = growth.pc /\ growth'.calls = growth.calls
        /\ growth'.measured = growth.measured /\ growth'.start = growth.start
        /\ growth'.retained = growth.retained /\ growth'.cycle = growth.cycle + 1
        /\ growth'.garbage = IF growth.garbage = 0 THEN 0 ELSE growth.garbage - 1
    BY <1>1, <2>1 DEF GrowthRecord
  <2>3. growth' \in GrowthRecord
    <3>1. /\ growth.cycle + 1 \in 0 .. Cycles
          /\ (IF growth.garbage = 0 THEN 0 ELSE growth.garbage - 1) \in 0 .. Cycles
      BY <1>1, <1>2, <2>1
    <3>. QED
      BY <1>1, <2>1, <3>1 DEF GrowthRecord
  <2>4. growth'.garbage <= Cycles - growth'.cycle
    BY <1>1, <1>2, <2>1, <2>2 DEF GrowthInv
  <2>5. GrowthExact'
    BY <2>1, <2>2 DEF GrowthExact
  <2>. QED
    BY <2>1, <2>2, <2>3, <2>4, <2>5 DEF GrowthInv, GrowthRecord
<1>6. CASE GrowthSnapshot
  <2>. DEFINE now == growth.retained + growth.garbage
  <2>1. growth.pc = "gc" /\ growth.cycle = Cycles /\ growth.garbage = 0 /\ now = growth.retained
    <3>1. growth.pc = "gc" /\ growth.cycle = Cycles
      BY <1>6 DEF GrowthSnapshot
    <3>2. growth.garbage <= Cycles - growth.cycle
      BY <3>1 DEF GrowthInv
    <3>. QED
      BY <1>1, <1>2, <3>1, <3>2
  <2>2. CASE growth.calls = Warmups
    <3>1. growth' = [growth EXCEPT !.start = now, !.cycle = 0, !.pc = "run"]
      BY <1>6, <2>2 DEF GrowthSnapshot
    <3>2. /\ growth'.pc = "run" /\ growth'.calls = growth.calls /\ growth'.cycle = 0
          /\ growth'.measured = growth.measured /\ growth'.start = growth.retained
          /\ growth'.retained = growth.retained
      BY <1>1, <2>1, <3>1 DEF GrowthRecord
    <3>3. growth' \in GrowthRecord
      <4>1. now \in Int /\ 0 \in 0 .. Cycles
        BY <1>1, <1>2, <2>1
      <4>. HIDE DEF now
      <4>. QED
        BY <1>1, <3>1, <4>1 DEF GrowthRecord
    <3>4. growth.measured = 0
      BY <2>1, <2>2 DEF GrowthInv
    <3>5. growth'.start = growth'.retained - growth'.measured
      BY <1>2, <3>2, <3>4
    <3>6. growth'.calls < Warmups + Iterations
      BY <1>1, <2>2, <3>2
    <3>7. GrowthExact'
      BY <3>2 DEF GrowthExact
    <3>8. growth'.measured = 0
      BY <3>2, <3>4
    <3>. QED
      BY <3>2, <3>3, <3>5, <3>6, <3>7, <3>8 DEF GrowthInv, GrowthRecord
  <2>3. CASE growth.calls # Warmups
    <3>1. growth' = [growth EXCEPT !.delta = now - growth.start, !.pc = "returned"]
      BY <1>6, <2>3 DEF GrowthSnapshot
    <3>2. /\ growth'.pc = "returned" /\ growth'.calls = growth.calls
          /\ growth'.measured = growth.measured /\ growth'.start = growth.start
          /\ growth'.retained = growth.retained /\ growth'.delta = now - growth.start
      BY <1>1, <3>1 DEF GrowthRecord
    <3>3. growth' \in GrowthRecord
      <4>1. now - growth.start \in Int
        BY <1>1, <1>2, <2>1
      <4>. HIDE DEF now
      <4>. QED
        BY <1>1, <3>1, <4>1 DEF GrowthRecord
    <3>4. growth.calls > Warmups /\ growth.start = growth.retained - growth.measured
      <4>1. growth.calls = Warmups + Iterations
        BY <2>1, <2>3 DEF GrowthInv
      <4>2. growth.calls > Warmups
        BY <1>1, <4>1
      <4>. QED
        BY <4>2 DEF GrowthInv
    <3>5. growth'.delta = growth'.measured
      BY <1>2, <2>1, <3>2, <3>4
    <3>6. growth'.calls > Warmups /\ growth'.start = growth'.retained - growth'.measured
      BY <3>2, <3>4
    <3>7. ~ (growth'.calls < Warmups) /\ growth'.calls # Warmups
      BY <1>1, <1>2, <3>2, <3>4
    <3>. QED
      BY <3>2, <3>3, <3>5, <3>6, <3>7 DEF GrowthInv, GrowthRecord, GrowthExact
  <2>. QED
    BY <2>2, <2>3
<1>. QED
  BY <1>3, <1>4, <1>5, <1>6
--------------------------------------------------------------------------------
(* The samplers of a process *)

\* The invariant of the samplers.
SamplingInv == MetricsInv /\ BatchInv /\ GrowthInv

\* A step that leaves the collector alone, and the readings valid.
LEMMA MetricsUntouched ==
    ASSUME MetricsInv, usage' \in Reading, load' \in Level,
           UNCHANGED <<metrics, metricsSeen, summary>>
    PROVE  MetricsInv'
BY DEF MetricsInv, MetricsExact

\* One that leaves the batch alone.
LEMMA BatchUntouched ==
    ASSUME BatchInv, usage' \in Reading, UNCHANGED <<batch, batchSeen>>
    PROVE  BatchInv'
BY DEF BatchInv, BatchExact

\* One that leaves the measurement of growth alone.
LEMMA GrowthUntouched ==
    ASSUME GrowthInv, UNCHANGED growth
    PROVE  GrowthInv'
BY DEF GrowthInv, GrowthExact

\* Nothing runs yet, and no load has been seen.
LEMMA SamplingStarts ==
    ASSUME SamplingInit
    PROVE  SamplingInv
<1>1. 0 \in Level /\ Warmups \in Nat /\ Iterations \in Nat \ {0} /\ Cycles \in Nat \ {0}
  BY SamplingAssumption DEF Level
<1>2. usage \in Reading /\ load \in Level
  BY <1>1 DEF SamplingInit, Reading
<1>3. MetricsInv
  <2>1. /\ metrics = [running |-> FALSE, timer |-> FALSE, memory |-> Null,
                      loadSum |-> 0, loadPeak |-> 0, samples |-> 0]
        /\ metricsSeen = <<>> /\ summary = Null
    BY DEF SamplingInit
  <2>. QED
    BY <1>1, <1>2, <2>1 DEF MetricsInv, MetricsExact
<1>4. BatchInv
  <2>1. /\ batch = [pc |-> "idle", sampled |-> FALSE, timer |-> FALSE, memory |-> Null,
                    before |-> Null, processMemory |-> Null, memoryDelta |-> Null]
        /\ batchSeen = <<>>
    BY DEF SamplingInit
  <2>2. batch \in BatchRecord
    BY <2>1 DEF BatchRecord
  <2>. QED
    BY <1>2, <2>1, <2>2 DEF BatchInv, BatchExact
<1>5. GrowthInv
  <2>1. growth = [pc |-> IF Warmups = 0 THEN "gc" ELSE "run", calls |-> 0, cycle |-> 0,
                  start |-> 0, retained |-> 0, garbage |-> 0, measured |-> 0, delta |-> 0]
    BY DEF SamplingInit
  <2>2. growth \in GrowthRecord
    BY <1>1, <2>1 DEF GrowthRecord
  <2>. QED
    BY <1>1, <2>1, <2>2 DEF GrowthInv, GrowthExact
<1>. QED
  BY <1>3, <1>4, <1>5 DEF SamplingInv

\* Every step of the specification keeps it: a step of one sampler leaves the
\* others alone, and a change of the process leaves them all.
LEMMA SamplingKeeps ==
    ASSUME SamplingInv, [SamplingNext]_samplingVars
    PROVE  SamplingInv'
<1>1. MetricsInv /\ BatchInv /\ GrowthInv /\ usage \in Reading /\ load \in Level
  BY DEF SamplingInv, MetricsInv
<1>2. CASE MetricsStart \/ MetricsSample \/ MetricsStop
  <2>1. MetricsInv'
    BY <1>1, <1>2, MetricsStartKeeps, MetricsSampleKeeps, MetricsStopKeeps
  <2>2. UNCHANGED <<usage, batch, batchSeen, growth>>
    BY <1>2 DEF MetricsStart, MetricsSample, MetricsStop
  <2>. QED
    BY <1>1, <2>1, <2>2, BatchUntouched, GrowthUntouched DEF SamplingInv
<1>3. CASE BatchCall \/ BeforeSettles \/ BatchSample \/ RunSettles
  <2>1. BatchInv'
    BY <1>1, <1>3, BatchCallKeeps, BeforeSettlesKeeps, BatchSampleKeeps, RunSettlesKeeps
  <2>2. UNCHANGED <<usage, load, metrics, metricsSeen, summary, growth>>
    BY <1>3 DEF BatchCall, BeforeSettles, BatchSample, RunSettles
  <2>. QED
    BY <1>1, <2>1, <2>2, MetricsUntouched, GrowthUntouched DEF SamplingInv
<1>4. CASE GrowthRun \/ GrowthRunFails \/ GcCycle \/ GrowthSnapshot
  <2>1. GrowthInv'
    BY <1>1, <1>4, GrowthKeeps
  <2>2. UNCHANGED <<usage, load, metrics, metricsSeen, summary, batch, batchSeen>>
    BY <1>4 DEF GrowthRun, GrowthRunFails, GcCycle, GrowthSnapshot
  <2>. QED
    BY <1>1, <2>1, <2>2, MetricsUntouched, BatchUntouched DEF SamplingInv
<1>5. CASE Changes
  <2>1. usage' \in Reading /\ load' \in Level
    BY <1>1, <1>5 DEF Changes, Reading
  <2>2. UNCHANGED <<metrics, metricsSeen, summary, batch, batchSeen, growth>>
    BY <1>5 DEF Changes
  <2>. QED
    BY <1>1, <2>1, <2>2, MetricsUntouched, BatchUntouched, GrowthUntouched DEF SamplingInv
<1>6. CASE UNCHANGED samplingVars
  <2>1. UNCHANGED <<usage, load, metrics, metricsSeen, summary, batch, batchSeen, growth>>
    BY <1>6 DEF samplingVars
  <2>. QED
    BY <1>1, <2>1, MetricsUntouched, BatchUntouched, GrowthUntouched DEF SamplingInv
<1>. QED
  BY <1>2, <1>3, <1>4, <1>5, <1>6 DEF SamplingNext

\* Whatever the process allocates and however often its samplers look, a
\* summary of Metrics, the memory of a batch and the growth of memory are those
\* of their own interval: Metrics, ProcessMemorySampler, measureBatch and
\* measureMemoryGrowth, for any levels, warmup, iterations and cycles.
THEOREM IntervalsExactHolds == SamplingSpec => []IntervalsExact
<1>1. SamplingInit => SamplingInv
  BY SamplingStarts
<1>2. SamplingInv /\ [SamplingNext]_samplingVars => SamplingInv'
  BY SamplingKeeps
<1>3. SamplingInv => IntervalsExact
  BY DEF SamplingInv, MetricsInv, BatchInv, GrowthInv, IntervalsExact
<1>. QED
  BY <1>1, <1>2, <1>3, PTL DEF SamplingSpec
--------------------------------------------------------------------------------
(* Verdicts *)

\* What is kept of a sequence, value by value.
Keeping(run, values) ==
    /\ run[0] = <<>>
    /\ \A i \in 0 .. Len(values) - 1 : run[i + 1] = Kept(run[i], values[i + 1])

\* The fold of Kept over a sequence computes it.
LEMMA FiniteRun ==
    ASSUME NEW V, NotFinite \notin V, NEW values \in Seq(V \cup {NotFinite})
    PROVE  \E run : Keeping(run, values) /\ Finite(values) = run[Len(values)]
<1>. DEFINE n == Len(values)
            D == Seq(V)
            next == [p \in (1 .. n) \X D |-> Kept(p[2], values[p[1]])]
            Fold(g) == g = [s \in SUBSET DOMAIN values |->
                              IF s = {} THEN <<>> ELSE Kept(g[s \ {Max(s)}], values[Max(s)])]
<1>1. n \in Nat /\ DOMAIN values = 1 .. n /\ \A i \in 1 .. n : values[i] \in V \cup {NotFinite}
  OBVIOUS
<1>2. ASSUME NEW kept \in D, NEW i \in 1 .. n
      PROVE  Kept(kept, values[i]) \in D
  <2>1. values[i] \in V \cup {NotFinite}
    BY <1>1
  <2>. DEFINE v == values[i]
  <2>. HIDE DEF v
  <2>. QED
    BY <2>1 DEF Kept, v
<1>3. next \in [(1 .. n) \X D -> D]
  <2>. HIDE DEF D, n
  <2>. QED
    BY <1>2
<1>4. PICK g \in [SUBSET (1 .. n) -> D] : Folding(g, n, <<>>, next)
  <2>1. n \in Nat /\ <<>> \in D
    BY <1>1
  <2>. HIDE DEF next, n, D
  <2>. QED
    BY <1>3, <2>1, SequenceFold, Zenon
<1>. HIDE DEF D
<1>5. Fold(g)
  <2>1. ASSUME NEW s \in SUBSET (1 .. n), s # {}
        PROVE  next[<<Max(s), g[s \ {Max(s)}]>>] = Kept(g[s \ {Max(s)}], values[Max(s)])
    <3>1. Max(s) \in s
      <4>1. s \in SUBSET Nat /\ \A i \in s : i <= n
        BY <1>1
      <4>. QED
        BY <1>1, <2>1, <4>1, MaxOfNaturals
    <3>. DEFINE x == Max(s)
                e == g[s \ {x}]
    <3>2. x \in 1 .. n /\ e \in D
      BY <1>4, <2>1, <3>1
    <3>. HIDE DEF x, e
    <3>3. <<x, e>> \in (1 .. n) \X D
      BY <3>2
    <3>4. next[<<x, e>>] = Kept(e, values[x])
      BY <3>3
    <3>. QED
      BY <3>4 DEF e, x
  <2>. HIDE DEF next
  <2>. QED
    BY <1>1, <1>4, <2>1 DEF Folding
<1>. DEFINE h == CHOOSE h : Fold(h)
<1>6. Fold(h)
  <2>. HIDE DEF Fold
  <2>. QED
    BY <1>5
<1>7. Finite(values) = h[1 .. n]
  BY <1>1 DEF Finite, FoldLeft, MapThenFoldSet
<1>. DEFINE run == [k \in 0 .. n |-> h[1 .. k]]
<1>8. run[0] = <<>>
  <2>1. 1 .. 0 = {} /\ {} \in SUBSET DOMAIN values
    OBVIOUS
  <2>. HIDE DEF h
  <2>. QED
    BY <1>1, <1>6, <2>1
<1>9. ASSUME NEW k \in 0 .. n - 1
      PROVE  run[k + 1] = Kept(run[k], values[k + 1])
  <2>1. /\ 1 .. k + 1 \in SUBSET DOMAIN values /\ 1 .. k + 1 # {}
        /\ Max(1 .. k + 1) = k + 1 /\ (1 .. k + 1) \ {k + 1} = 1 .. k
    <3>1. k \in Nat /\ 1 .. k + 1 \in SUBSET DOMAIN values
      BY <1>1
    <3>. HIDE DEF run
    <3>2. 1 .. k + 1 # {} /\ Max(1 .. k + 1) = k + 1 /\ (1 .. k + 1) \ {k + 1} = 1 .. k
      BY <3>1, MaxOfPrefix
    <3>. QED
      BY <3>1, <3>2
  <2>. HIDE DEF h
  <2>2. h[1 .. k + 1] = Kept(h[1 .. k], values[k + 1])
    BY <1>6, <2>1
  <2>. QED
    BY <1>1, <2>2
<1>10. Finite(values) = run[n]
  BY <1>1, <1>7
<1>. HIDE DEF run
<1>. QED
  BY <1>8, <1>9, <1>10 DEF Keeping

\* What is kept of a sequence is of its finite values.
LEMMA FiniteType ==
    ASSUME NEW V, NotFinite \notin V, NEW values \in Seq(V \cup {NotFinite})
    PROVE  Finite(values) \in Seq(V)
<1>. DEFINE n == Len(values)
<1>1. n \in Nat /\ \A i \in 1 .. n : values[i] \in V \cup {NotFinite}
  OBVIOUS
<1>2. PICK run : Keeping(run, values) /\ Finite(values) = run[n]
  BY FiniteRun
<1>. DEFINE S == {k \in 0 .. n : run[k] \in Seq(V)}
<1>3. 0 \in S
  <2>1. run[0] = <<>> /\ <<>> \in Seq(V) /\ 0 \in 0 .. n
    BY <1>1, <1>2 DEF Keeping
  <2>. QED
    BY <2>1, Zenon
<1>4. ASSUME NEW k \in 0 .. n - 1, k \in S
      PROVE  k + 1 \in S
  <2>. DEFINE kept == run[k]
              v == values[k + 1]
  <2>1. kept \in Seq(V) /\ v \in V \cup {NotFinite} /\ k + 1 \in 0 .. n
    BY <1>1, <1>4
  <2>2. run[k + 1] = Kept(kept, v)
    BY <1>2 DEF Keeping
  <2>. HIDE DEF kept, v
  <2>3. Kept(kept, v) \in Seq(V)
    BY <2>1 DEF Kept
  <2>. QED
    BY <2>1, <2>2, <2>3
<1>5. 0 .. n \subseteq S
  <2>. HIDE DEF S
  <2>. QED
    BY <1>1, <1>3, <1>4, BoundedInduction
<1>6. n \in S
  <2>. HIDE DEF S
  <2>. QED
    BY <1>1, <1>5
<1>. QED
  BY <1>2, <1>6

\* Of a sequence of finite values, all of it is kept.
LEMMA FiniteFixed ==
    ASSUME NEW V, NotFinite \notin V, NEW values \in Seq(V)
    PROVE  Finite(values) = values
<1>. DEFINE n == Len(values)
            first(k) == SubSeq(values, 1, k)
<1>1. n \in Nat /\ \A i \in 1 .. n : values[i] \in V
  OBVIOUS
<1>2. values \in Seq(V \cup {NotFinite})
  OBVIOUS
<1>3. PICK run : Keeping(run, values) /\ Finite(values) = run[n]
  BY <1>2, FiniteRun
<1>. DEFINE S == {k \in 0 .. n : run[k] = first(k)}
<1>4. 0 \in S
  <2>1. first(0) = <<>>
    OBVIOUS
  <2>. HIDE DEF first
  <2>. QED
    BY <1>1, <1>3, <2>1 DEF Keeping
<1>5. ASSUME NEW k \in 0 .. n - 1, k \in S
      PROVE  k + 1 \in S
  <2>1. run[k + 1] = Kept(first(k), values[k + 1])
    BY <1>3, <1>5 DEF Keeping
  <2>2. values[k + 1] # NotFinite
    BY <1>1
  <2>3. Append(first(k), values[k + 1]) = first(k + 1)
    <3>1. k \in Nat /\ k + 1 \in 1 .. n
      BY <1>1
    <3>2. /\ first(k) = [i \in 1 .. k |-> values[i]]
          /\ first(k + 1) = [i \in 1 .. k + 1 |-> values[i]]
      BY <3>1
    <3>3. first(k) \in Seq(V) /\ Len(first(k)) = k
      <4>1. \A i \in 1 .. k : values[i] \in V
        BY <1>1, <3>1
      <4>. QED
        BY <3>1, <3>2, <4>1
    <3>. DEFINE a == first(k)
                v == values[k + 1]
    <3>. HIDE DEF a
    <3>4. a \in Seq(V) /\ Len(a) = k /\ \A i \in 1 .. k : a[i] = values[i]
      BY <3>2, <3>3 DEF a
    <3>. DEFINE b == Append(a, v)
    <3>5. v \in V
      BY <1>1, <3>1
    <3>6. b \in Seq(V) /\ Len(b) = k + 1 /\ \A i \in 1 .. k + 1 : b[i] = values[i]
      <4>1. /\ b \in Seq(V) /\ Len(b) = Len(a) + 1 /\ b[Len(a) + 1] = v
            /\ \A i \in 1 .. Len(a) : b[i] = a[i]
        <5>. HIDE DEF v
        <5>. QED
          BY <3>4, <3>5
      <4>. HIDE DEF b
      <4>. QED
        BY <3>1, <3>4, <4>1
    <3>. HIDE DEF b
    <3>7. b = [i \in 1 .. k + 1 |-> values[i]]
      BY <3>6
    <3>. QED
      BY <3>2, <3>7 DEF a, b
  <2>. HIDE DEF first
  <2>4. run[k + 1] = first(k + 1)
    BY <2>1, <2>2, <2>3 DEF Kept
  <2>. QED
    BY <1>1, <2>4
<1>6. 0 .. n \subseteq S
  <2>. HIDE DEF S
  <2>. QED
    BY <1>1, <1>4, <1>5, BoundedInduction
<1>7. n \in S
  <2>. HIDE DEF S
  <2>. QED
    BY <1>1, <1>6
<1>8. first(n) = values
  OBVIOUS
<1>. QED
  BY <1>3, <1>7, <1>8

\* A sequence of some numbers is one of numbers.
LEMMA NotEmpty ==
    ASSUME NEW V, V \subseteq Int, NEW s \in Seq(V)
    PROVE  s \in Seq(Int) /\ Len(s) \in Nat /\ (s # <<>> => Len(s) \in Nat \ {0})
<1>1. s \in [1 .. Len(s) -> V] /\ Len(s) \in Nat
  OBVIOUS
<1>2. \A i \in 1 .. Len(s) : s[i] \in Int
  BY <1>1
<1>3. s \in [1 .. Len(s) -> Int]
  BY <1>1, <1>2
<1>4. s \in Seq(Int)
  BY <1>1, <1>3
<1>5. s # <<>> => Len(s) # 0
  OBVIOUS
<1>. QED
  BY <1>1, <1>4, <1>5

\* A nearest rank is one of the values that are finite.
LEMMA NearestRankType ==
    ASSUME NEW values \in Seq(Values \cup {NotFinite}), Finite(values) # <<>>
    PROVE  QuantileNearestRank(values, 500) \in Values
<1>. DEFINE s == Finite(values)
            n == Len(s)
            rank == (n * 500 + 999) \div 1000
<1>1. Values \subseteq Int /\ NotFinite \notin Values
  BY RegressionAssumption DEF NotFinite
<1>2. s \in Seq(Values)
  BY <1>1, FiniteType
<1>. HIDE DEF s
<1>3. n \in Nat \ {0} /\ s \in Seq(Int)
  <2>1. s # <<>>
    BY DEF s
  <2>. QED
    BY <1>1, <1>2, <2>1, NotEmpty, Zenon
<1>4. rank \in 1 .. n
  <2>. HIDE DEF n
  <2>. QED
    BY <1>3
<1>5. Ordered(Ascending(s), s)
  BY <1>3, AscendingIs
<1>. HIDE DEF rank
<1>6. PICK i \in 1 .. n : Ascending(s)[rank] = s[i]
  BY <1>4, <1>5 DEF Ordered
<1>7. Ascending(s)[rank] \in Values /\ Len(Ascending(s)) = n /\ rank # 0
  BY <1>2, <1>4, <1>5, <1>6 DEF Ordered
<1>. QED
  BY <1>7 DEF QuantileNearestRank, s, rank

\* The schedule is a balanced one, and runs and profiles are what they can be.
VerdictInv ==
    /\ \E rounds \in Nat : rounds % 2 = 0 /\ plan = BalancedSchedule(rounds)
    /\ runs \in Seq(Values \cup {NotFinite})
    /\ cpuProfiles \in Seq(Profile)

\* It is what the comparison starts with and keeps.
LEMMA VerdictInvariance == RegressionSpec => []VerdictInv
<1>1. RegressionInit => VerdictInv
  <2>. SUFFICES ASSUME RegressionInit
                PROVE  VerdictInv
    OBVIOUS
  <2>1. PICK n \in 1 .. MaxRounds : n % 2 = 0 /\ plan = BalancedSchedule(n)
    BY DEF RegressionInit
  <2>2. n \in Nat
    BY RegressionAssumption
  <2>3. runs = <<>> /\ cpuProfiles = <<>>
    BY DEF RegressionInit
  <2>. QED
    BY <2>1, <2>2, <2>3 DEF VerdictInv
<1>2. VerdictInv /\ [RegressionNext]_regressionVars => VerdictInv'
  <2>. SUFFICES ASSUME VerdictInv, [RegressionNext]_regressionVars
                PROVE  VerdictInv'
    OBVIOUS
  <2>1. /\ runs \in Seq(Values \cup {NotFinite}) /\ cpuProfiles \in Seq(Profile)
        /\ plan' = plan
    BY DEF VerdictInv, RegressionNext, Measure, CollectProfile, regressionVars
  <2>2. runs' \in Seq(Values \cup {NotFinite})
    <3>1. runs' = runs \/ \E v \in Values \cup {NotFinite} : runs' = Append(runs, v)
      BY DEF RegressionNext, Measure, CollectProfile, regressionVars
    <3>. QED
      BY <2>1, <3>1
  <2>3. cpuProfiles' \in Seq(Profile)
    <3>1. cpuProfiles' = cpuProfiles
            \/ \E profile \in Profile : cpuProfiles' = Append(cpuProfiles, profile)
      BY DEF RegressionNext, Measure, CollectProfile, regressionVars
    <3>. QED
      BY <2>1, <3>1
  <2>4. (\E rounds \in Nat : rounds % 2 = 0 /\ plan = BalancedSchedule(rounds))'
    <3>1. PICK rounds \in Nat : rounds % 2 = 0 /\ plan = BalancedSchedule(rounds)
      BY DEF VerdictInv
    <3>2. rounds % 2 = 0 /\ plan' = BalancedSchedule(rounds)
      BY <2>1, <3>1
    <3>. QED
      BY <3>2
  <2>. QED
    BY <2>2, <2>3, <2>4 DEF VerdictInv
<1>. QED
  BY <1>1, <1>2, PTL DEF RegressionSpec

\* Whose are the four runs of two rounds.
LEMMA FourLabels ==
    ASSUME NEW m \in Nat, plan = BalancedSchedule(2 * m), NEW q \in 0 .. m - 1
    PROVE  /\ Label(4 * q + 1) = "candidate" /\ Label(4 * q + 2) = "reference"
           /\ Label(4 * q + 3) = "reference" /\ Label(4 * q + 4) = "candidate"
<1>1. /\ (4 * q + 1 + 1) \div 2 = 2 * q + 1 /\ (4 * q + 2 + 1) \div 2 = 2 * q + 1
      /\ (4 * q + 3 + 1) \div 2 = 2 * q + 2 /\ (4 * q + 4 + 1) \div 2 = 2 * q + 2
      /\ (4 * q + 1) % 2 = 1 /\ (4 * q + 2) % 2 = 0
      /\ (4 * q + 3) % 2 = 1 /\ (4 * q + 4) % 2 = 0
  OBVIOUS
<1>2. /\ 2 * q + 1 \in 1 .. 2 * m /\ (2 * q + 1) % 2 = 1
      /\ 2 * q + 2 \in 1 .. 2 * m /\ (2 * q + 2) % 2 = 0
  OBVIOUS
<1>3. /\ plan[2 * q + 1] = <<"candidate", "reference">>
      /\ plan[2 * q + 2] = <<"reference", "candidate">>
  BY <1>2 DEF BalancedSchedule
<1>4. /\ plan[2 * q + 1][1] = "candidate" /\ plan[2 * q + 1][2] = "reference"
      /\ plan[2 * q + 2][1] = "reference" /\ plan[2 * q + 2][2] = "candidate"
  BY <1>3
<1>. QED
  BY <1>1, <1>4 DEF Label

\* Of every two rounds, both sides have the same sum of places.
LEMMA ScheduleFairHolds ==
    ASSUME VerdictInv
    PROVE  ScheduleFair
<1>. SUFFICES ASSUME Len(runs) = 2 * Len(plan)
              PROVE  Summed(Places("candidate")) = Summed(Places("reference"))
  BY DEF ScheduleFair
<1>1. PICK rounds \in Nat : rounds % 2 = 0 /\ plan = BalancedSchedule(rounds)
  BY DEF VerdictInv
<1>2. PICK m \in Nat : rounds = 2 * m
  <2>1. rounds \div 2 \in Nat /\ rounds = 2 * (rounds \div 2)
    BY <1>1
  <2>. QED
    BY <2>1
<1>3. Len(plan) = 2 * m /\ Len(runs) = 4 * m
  BY <1>1, <1>2 DEF BalancedSchedule
<1>. DEFINE ours == Places("candidate")
            theirs == Places("reference")
<1>4. /\ ours \in Seq(Int) /\ Len(ours) = 4 * m
      /\ theirs \in Seq(Int) /\ Len(theirs) = 4 * m
      /\ \A t \in 1 .. 4 * m : /\ ours[t] = IF Label(t) = "candidate" THEN t ELSE 0
                               /\ theirs[t] = IF Label(t) = "reference" THEN t ELSE 0
  <2>. HIDE DEF Label
  <2>. QED
    BY <1>3 DEF Places
<1>. HIDE DEF ours, theirs
<1>5. PICK f : Summation(f, ours) /\ Summed(ours) = f[4 * m]
  BY <1>4, SequenceSum
<1>6. PICK g : Summation(g, theirs) /\ Summed(theirs) = g[4 * m]
  BY <1>4, SequenceSum
<1>7. /\ f \in [0 .. 4 * m -> Int] /\ f[0] = 0 /\ g \in [0 .. 4 * m -> Int] /\ g[0] = 0
      /\ \A i \in 0 .. 4 * m - 1 : f[i + 1] = f[i] + ours[i + 1] /\ g[i + 1] = g[i] + theirs[i + 1]
  BY <1>4, <1>5, <1>6 DEF Summation
<1>. DEFINE S == {q \in 0 .. m : f[4 * q] = g[4 * q]}
<1>8. 0 \in S
  BY <1>7
<1>9. ASSUME NEW q \in 0 .. m - 1, q \in S
      PROVE  q + 1 \in S
  <2>1. /\ Label(4 * q + 1) = "candidate" /\ Label(4 * q + 2) = "reference"
        /\ Label(4 * q + 3) = "reference" /\ Label(4 * q + 4) = "candidate"
    BY <1>1, <1>2, FourLabels
  <2>2. /\ 4 * q \in 0 .. 4 * m - 1 /\ 4 * q + 1 \in 0 .. 4 * m - 1
        /\ 4 * q + 2 \in 0 .. 4 * m - 1 /\ 4 * q + 3 \in 0 .. 4 * m - 1
        /\ 4 * q + 1 \in 1 .. 4 * m /\ 4 * q + 2 \in 1 .. 4 * m
        /\ 4 * q + 3 \in 1 .. 4 * m /\ 4 * q + 4 \in 1 .. 4 * m
    OBVIOUS
  <2>3. /\ ours[4 * q + 1] = 4 * q + 1 /\ ours[4 * q + 2] = 0
        /\ ours[4 * q + 3] = 0 /\ ours[4 * q + 4] = 4 * q + 4
        /\ theirs[4 * q + 1] = 0 /\ theirs[4 * q + 2] = 4 * q + 2
        /\ theirs[4 * q + 3] = 4 * q + 3 /\ theirs[4 * q + 4] = 0
    BY <1>4, <2>1, <2>2
  <2>4. /\ f[4 * q + 1] = f[4 * q] + (4 * q + 1) /\ f[4 * q + 2] = f[4 * q + 1]
        /\ f[4 * q + 3] = f[4 * q + 2] /\ f[4 * q + 4] = f[4 * q + 3] + (4 * q + 4)
        /\ g[4 * q + 1] = g[4 * q] /\ g[4 * q + 2] = g[4 * q + 1] + (4 * q + 2)
        /\ g[4 * q + 3] = g[4 * q + 2] + (4 * q + 3) /\ g[4 * q + 4] = g[4 * q + 3]
    <3>1. /\ 4 * q + 1 + 1 = 4 * q + 2 /\ 4 * q + 2 + 1 = 4 * q + 3 /\ 4 * q + 3 + 1 = 4 * q + 4
      OBVIOUS
    <3>2. /\ f[4 * q] \in Int /\ f[4 * q + 1] \in Int /\ f[4 * q + 2] \in Int /\ f[4 * q + 3] \in Int
          /\ g[4 * q] \in Int /\ g[4 * q + 1] \in Int /\ g[4 * q + 2] \in Int /\ g[4 * q + 3] \in Int
      <4>1. /\ 4 * q \in 0 .. 4 * m /\ 4 * q + 1 \in 0 .. 4 * m
            /\ 4 * q + 2 \in 0 .. 4 * m /\ 4 * q + 3 \in 0 .. 4 * m
        OBVIOUS
      <4>. QED
        BY <1>7, <4>1
    <3>3. /\ f[4 * q + 1] = f[4 * q] + ours[4 * q + 1]
          /\ f[4 * q + 2] = f[4 * q + 1] + ours[4 * q + 2]
          /\ f[4 * q + 3] = f[4 * q + 2] + ours[4 * q + 3]
          /\ f[4 * q + 4] = f[4 * q + 3] + ours[4 * q + 4]
          /\ g[4 * q + 1] = g[4 * q] + theirs[4 * q + 1]
          /\ g[4 * q + 2] = g[4 * q + 1] + theirs[4 * q + 2]
          /\ g[4 * q + 3] = g[4 * q + 2] + theirs[4 * q + 3]
          /\ g[4 * q + 4] = g[4 * q + 3] + theirs[4 * q + 4]
      BY <1>7, <2>2, <3>1
    <3>. QED
      BY <2>3, <3>2, <3>3
  <2>5. f[4 * q] = g[4 * q] /\ f[4 * q] \in Int
    BY <1>7, <1>9, <2>2
  <2>6. f[4 * q + 4] = g[4 * q + 4]
    BY <2>4, <2>5
  <2>7. 4 * (q + 1) = 4 * q + 4 /\ q + 1 \in 0 .. m
    OBVIOUS
  <2>. QED
    BY <2>6, <2>7
<1>10. 0 .. m \subseteq S
  <2>. HIDE DEF S
  <2>. QED
    BY <1>8, <1>9, BoundedInduction
<1>11. m \in S
  <2>. HIDE DEF S
  <2>. QED
    BY <1>10
<1>. QED
  BY <1>5, <1>6, <1>11 DEF ours, theirs

\* What a side measured are runs of its own.
LEMMA MeasuredType ==
    ASSUME VerdictInv, NEW label \in {"candidate", "reference"}
    PROVE  /\ Measured(label) \in Seq(Values \cup {NotFinite})
           /\ Len(Measured(label)) = Len(runs) \div 2
           /\ \A i \in 1 .. Len(runs) \div 2 : Measured(label)[i] \in ToSet(runs)
<1>. DEFINE half == Len(runs) \div 2
            index == [i \in 1 .. half |-> IF Label(2 * i) = label THEN 2 * i ELSE 2 * i - 1]
<1>1. runs \in Seq(Values \cup {NotFinite}) /\ Len(runs) \in Nat /\ half \in Nat
  BY DEF VerdictInv
<1>2. \A i \in 1 .. half : 2 * i \in 1 .. Len(runs) /\ 2 * i - 1 \in 1 .. Len(runs)
  BY <1>1
<1>3. \A i \in 1 .. half : index[i] \in 1 .. Len(runs)
  BY <1>2
<1>4. Measured(label) = [i \in 1 .. half |-> runs[index[i]]]
  BY DEF Measured
<1>. HIDE DEF index, half
<1>5. \A i \in 1 .. half : runs[index[i]] \in Values \cup {NotFinite} /\ runs[index[i]] \in ToSet(runs)
  BY <1>1, <1>3 DEF ToSet
<1>. QED
  BY <1>1, <1>4, <1>5 DEF half

\* If every run measured something, so did its side.
LEMMA MeasuredFinite ==
    ASSUME VerdictInv, NotFinite \notin ToSet(runs), NEW label \in {"candidate", "reference"}
    PROVE  Measured(label) \in Seq(Nat \ {0}) /\ Len(Measured(label)) = Len(runs) \div 2
<1>. DEFINE m == Measured(label)
            half == Len(runs) \div 2
<1>1. /\ m \in Seq(Values \cup {NotFinite}) /\ Len(m) = half
      /\ \A i \in 1 .. half : m[i] \in ToSet(runs)
  BY MeasuredType
<1>. HIDE DEF m, half
<1>2. \A i \in 1 .. half : m[i] \in Values \cup {NotFinite} /\ m[i] # NotFinite
  BY <1>1
<1>3. \A i \in 1 .. half : m[i] \in Nat \ {0}
  BY <1>2, RegressionAssumption
<1>4. m \in Seq(Nat \ {0})
  <2>1. half \in Nat /\ m = [i \in 1 .. half |-> m[i]]
    BY <1>1
  <2>. QED
    BY <1>3, <2>1
<1>. QED
  BY <1>1, <1>4 DEF m, half

\* What a comparison says a side measured was measured, if anything was.
LEMMA SummarizedType ==
    ASSUME VerdictInv, NEW label \in {"candidate", "reference"}
    PROVE  Summarized(label) \in Values \cup {NotFinite}
BY MeasuredType, NearestRankType DEF Summarized

\* The relative guard: its boundary lies on the bad side of the reference, and
\* a better candidate is on the better side of it.
LEMMA RelativeSoundHolds ==
    ASSUME VerdictInv, NEW rule \in Rule
    PROVE  RelativeSound(rule)
<1>1. /\ rule.candidate \in Values \cup {NotFinite} /\ rule.reference \in Values \cup {NotFinite}
      /\ rule.direction \in {"higher", "lower"} /\ rule.maxRegressionPct \in {0, 50}
      /\ rule.absoluteSlack \in {0, 1}
      /\ rule = [candidate |-> rule.candidate, reference |-> rule.reference,
                 direction |-> rule.direction, maxRegressionPct |-> rule.maxRegressionPct,
                 absoluteSlack |-> rule.absoluteSlack]
  BY SummarizedType DEF Rule
<1>2. Values \subseteq Nat /\ NotFinite \notin Values
  BY RegressionAssumption DEF NotFinite
<1>. DEFINE failures == RelativeFailures(rule)
<1>3. CASE NotFinite \in {rule.candidate, rule.reference}
  <2>1. "candidate" \in failures \/ "reference" \in failures
    BY <1>3 DEF RelativeFailures
  <2>. QED
    BY <1>3, <2>1 DEF RelativeSound
<1>4. CASE NotFinite \notin {rule.candidate, rule.reference}
  <2>. DEFINE bound == Boundary(rule)
  <2>1. rule.candidate \in Nat /\ rule.reference \in Nat
    BY <1>1, <1>2, <1>4
  <2>2. /\ bound \in Int
        /\ rule.direction = "higher" => bound <= 100 * rule.reference
        /\ rule.direction = "lower" => bound >= 100 * rule.reference
    <3>1. rule.reference * rule.maxRegressionPct \in Nat
      BY <1>1, <2>1
    <3>. QED
      BY <1>1, <2>1, <3>1 DEF Boundary
  <2>3. \A v \in Nat :
          RelativeFailures([rule EXCEPT !.candidate = v]) =
            IF Better(rule.direction, bound, 100 * v) THEN {"boundary"} ELSE {}
    <3>. SUFFICES ASSUME NEW v \in Nat
                  PROVE  RelativeFailures([rule EXCEPT !.candidate = v]) =
                           IF Better(rule.direction, bound, 100 * v) THEN {"boundary"} ELSE {}
      OBVIOUS
    <3>. DEFINE other == [rule EXCEPT !.candidate = v]
    <3>1. /\ other.candidate = v /\ other.reference = rule.reference
          /\ other.direction = rule.direction /\ other.maxRegressionPct = rule.maxRegressionPct
          /\ other.absoluteSlack = rule.absoluteSlack
      BY <1>1
    <3>2. Boundary(other) = bound
      BY <3>1 DEF Boundary
    <3>3. v # NotFinite /\ rule.reference # NotFinite
      BY <1>4 DEF NotFinite
    <3>. HIDE DEF other, bound
    <3>. QED
      BY <3>1, <3>2, <3>3 DEF RelativeFailures, other
  <2>4. failures = IF Better(rule.direction, bound, 100 * rule.candidate) THEN {"boundary"} ELSE {}
    <3>1. [rule EXCEPT !.candidate = rule.candidate] = rule
      BY <1>1
    <3>. HIDE DEF bound
    <3>. QED
      BY <2>1, <2>3, <3>1
  <2>. HIDE DEF bound, failures
  <2>5. ~Better(rule.direction, rule.reference, rule.candidate) => failures = {}
    BY <1>1, <2>1, <2>2, <2>4 DEF Better
  <2>6. ASSUME failures = {}, NEW v \in Values, Better(rule.direction, v, rule.candidate)
        PROVE  RelativeFailures([rule EXCEPT !.candidate = v]) = {}
    <3>1. v \in Nat
      BY <1>2
    <3>2. ~Better(rule.direction, bound, 100 * rule.candidate)
      BY <2>4, <2>6
    <3>3. ~Better(rule.direction, bound, 100 * v)
      BY <1>1, <2>1, <2>2, <2>6, <3>1, <3>2 DEF Better
    <3>. QED
      BY <2>3, <3>1, <3>3
  <2>. QED
    BY <1>4, <2>5, <2>6 DEF RelativeSound, failures
<1>. QED
  BY <1>3, <1>4

\* The guard of single values: what has no baseline or no value is not passed.
LEMMA MetricSoundHolds ==
    ASSUME NEW bound \in [min : {NotFinite, 2}, max : {NotFinite, 3}]
    PROVE  MetricSound(bound)
<1>. DEFINE cases == {"candidate", "reference"}
            results == [c \in cases |-> Summarized(c)]
            baseline == [c \in {"candidate"} |-> bound]
            guard == MetricGuard(cases, results, baseline)
            wrong == ValueFailures(Summarized("candidate"), bound)
<1>1. cases \cap DOMAIN baseline = {"candidate"} /\ cases \ {"candidate"} = {"reference"}
  OBVIOUS
<1>2. results["candidate"] = Summarized("candidate") /\ baseline["candidate"] = bound
  OBVIOUS
<1>3. /\ guard.rows = [c \in {"candidate"} |->
                          IF ValueFailures(results[c], baseline[c]) = {} THEN "ok" ELSE "FAIL"]
      /\ guard.failures = {<<"reference", "missing baseline">>} \cup ({"candidate"} \X wrong)
  <2>. DEFINE W(c) == ValueFailures(results[c], baseline[c])
  <2>1. W("candidate") = wrong
    BY <1>2
  <2>. HIDE DEF results, baseline, cases, wrong
  <2>2. guard = [rows |-> [c \in {"candidate"} |-> IF W(c) = {} THEN "ok" ELSE "FAIL"],
                 failures |-> {<<c, "missing baseline">> : c \in {"reference"}}
                              \cup UNION {{c} \X W(c) : c \in {"candidate"}}]
    BY <1>1 DEF MetricGuard
  <2>. HIDE DEF W, guard
  <2>3. /\ {<<c, "missing baseline">> : c \in {"reference"}} = {<<"reference", "missing baseline">>}
        /\ UNION {{c} \X W(c) : c \in {"candidate"}} = {"candidate"} \X wrong
    <3>1. {{c} \X W(c) : c \in {"candidate"}} = {{"candidate"} \X wrong}
      BY <2>1
    <3>2. UNION {{"candidate"} \X wrong} = {"candidate"} \X wrong
      <4>. DEFINE product == {"candidate"} \X wrong
      <4>. HIDE DEF product
      <4>1. UNION {product} = product
        OBVIOUS
      <4>. QED
        BY <4>1 DEF product
    <3>3. UNION {{c} \X W(c) : c \in {"candidate"}} = {"candidate"} \X wrong
      BY <3>1, <3>2
    <3>4. {<<c, "missing baseline">> : c \in {"reference"}} = {<<"reference", "missing baseline">>}
      OBVIOUS
    <3>. QED
      BY <3>3, <3>4
  <2>4. /\ guard.rows = [c \in {"candidate"} |-> IF W(c) = {} THEN "ok" ELSE "FAIL"]
        /\ guard.failures = {<<"reference", "missing baseline">>} \cup ({"candidate"} \X wrong)
    BY <2>2, <2>3
  <2>. QED
    BY <2>4 DEF W
<1>4. guard.rows["candidate"] = IF wrong = {} THEN "ok" ELSE "FAIL"
  <2>. HIDE DEF results, baseline, guard
  <2>. QED
    BY <1>2, <1>3
<1>5. {f \in guard.failures : f[1] = "candidate"} = {"candidate"} \X wrong
  <2>. DEFINE missing == <<"reference", "missing baseline">>
              product == {"candidate"} \X wrong
  <2>. HIDE DEF guard, wrong
  <2>1. missing[1] # "candidate"
    OBVIOUS
  <2>2. \A f \in product : f[1] = "candidate"
    OBVIOUS
  <2>3. guard.failures = {missing} \cup product
    BY <1>3
  <2>. HIDE DEF missing, product
  <2>4. {f \in guard.failures : f[1] = "candidate"} = product
    BY <2>1, <2>2, <2>3
  <2>. QED
    BY <2>4 DEF product
<1>6. ({"candidate"} \X wrong = {}) <=> (wrong = {})
  <2>. HIDE DEF wrong
  <2>1. \A f \in wrong : <<"candidate", f>> \in {"candidate"} \X wrong
    OBVIOUS
  <2>2. wrong = {} => \A p : p \notin {"candidate"} \X wrong
    OBVIOUS
  <2>. QED
    BY <2>1, <2>2
<1>7. Summarized("candidate") = NotFinite => wrong # {}
  BY DEF ValueFailures
<1>. HIDE DEF guard, wrong, results, baseline, cases
<1>8. /\ <<"reference", "missing baseline">> \in guard.failures
      /\ (guard.rows["candidate"] = "ok") =
            Passed({f \in guard.failures : f[1] = "candidate"}, {}, {})
      /\ guard.rows["candidate"] = "ok" => results["candidate"] # NotFinite
  <2>1. (guard.rows["candidate"] = "ok") <=> (wrong = {})
    BY <1>4
  <2>2. Passed({f \in guard.failures : f[1] = "candidate"}, {}, {}) <=> (wrong = {})
    BY <1>5, <1>6 DEF Passed
  <2>3. <<"reference", "missing baseline">> \in guard.failures
    BY <1>3
  <2>4. (guard.rows["candidate"] = "ok") \in BOOLEAN
        /\ Passed({f \in guard.failures : f[1] = "candidate"}, {}, {}) \in BOOLEAN
    BY DEF Passed
  <2>. QED
    BY <1>2, <1>7, <2>1, <2>2, <2>3, <2>4
<1>. QED
  BY <1>8 DEF MetricSound, guard, results, baseline, cases

\* The guard of profiles: a missing one is missed, one without ticks fails.
LEMMA CpuSoundHolds ==
    ASSUME VerdictInv, NEW guard \in Guard
    PROVE  CpuSound(guard)
<1>. DEFINE failures == CpuGuard(cpuProfiles, guard, Key)
            collected == {cpuProfiles[i].key : i \in DOMAIN cpuProfiles}
            parts == {{cpuProfiles[i].key} \X ProfileFailures(cpuProfiles[i], guard) :
                        i \in DOMAIN cpuProfiles}
            absent == (Key \ collected) \X {"missing"}
<1>1. guard.profileRequired
  BY DEF Guard
<1>2. \A i \in DOMAIN cpuProfiles : cpuProfiles[i] \in Profile
  BY DEF VerdictInv
<1>3. failures = (UNION parts) \cup absent
  BY <1>1 DEF CpuGuard
<1>4. ASSUME NEW i \in DOMAIN cpuProfiles, NEW f \in ProfileFailures(cpuProfiles[i], guard)
      PROVE  <<cpuProfiles[i].key, f>> \in failures
  <2>. HIDE DEF failures
  <2>. DEFINE k == cpuProfiles[i].key
              F == ProfileFailures(cpuProfiles[i], guard)
  <2>1. <<k, f>> \in {k} \X F
    <3>. HIDE DEF k, F
    <3>1. f \in F
      BY DEF F
    <3>. QED
      BY <3>1
  <2>2. {k} \X F \in parts
    OBVIOUS
  <2>. HIDE DEF parts, absent, k, F
  <2>3. <<k, f>> \in failures
    BY <1>3, <2>1, <2>2
  <2>. QED
    BY <2>3 DEF k
<1>5. \A i \in DOMAIN cpuProfiles : ~cpuProfiles[i].parsed =>
        "missing" \in ProfileFailures(cpuProfiles[i], guard)
  BY DEF ProfileFailures
<1>6. \A i \in DOMAIN cpuProfiles : cpuProfiles[i].ticks = NotFinite =>
        ProfileFailures(cpuProfiles[i], guard) # {}
  <2>. SUFFICES ASSUME NEW i \in DOMAIN cpuProfiles, cpuProfiles[i].ticks = NotFinite
                PROVE  ProfileFailures(cpuProfiles[i], guard) # {}
    OBVIOUS
  <2>1. "missing" \in ProfileFailures(cpuProfiles[i], guard)
          \/ "no ticks" \in ProfileFailures(cpuProfiles[i], guard)
    BY DEF ProfileFailures
  <2>. QED
    BY <2>1
<1>. HIDE DEF failures, parts
<1>7. ASSUME NEW key \in Key,
             \A i \in {j \in DOMAIN cpuProfiles : cpuProfiles[j].key = key} : ~cpuProfiles[i].parsed
      PROVE  <<key, "missing">> \in failures
  <2>1. CASE key \in collected
    <3>1. PICK i \in DOMAIN cpuProfiles : cpuProfiles[i].key = key
      BY <2>1
    <3>2. "missing" \in ProfileFailures(cpuProfiles[i], guard)
      BY <1>5, <1>7, <3>1
    <3>. QED
      BY <1>4, <3>1, <3>2
  <2>2. CASE key \notin collected
    <3>1. <<key, "missing">> \in absent
      BY <2>2
    <3>. HIDE DEF absent
    <3>. QED
      BY <1>3, <3>1
  <2>. QED
    BY <2>1, <2>2
<1>8. ASSUME failures = {}, NEW i \in DOMAIN cpuProfiles
      PROVE  cpuProfiles[i].ticks # NotFinite
  BY <1>4, <1>6, <1>8
<1>9. Passed({}, failures, {}) => failures = {}
  BY DEF Passed
<1>. QED
  BY <1>7, <1>8, <1>9 DEF CpuSound, failures

\* A balanced schedule of any length gives no side an advantage in time, and no
\* guard passes what was not measured or fails a candidate for being better:
\* balancedSchedule and the guards of regression/, for any rounds and values.
THEOREM VerdictSoundHolds == RegressionSpec => []VerdictSound
<1>1. VerdictInv => VerdictSound
  BY ScheduleFairHolds, RelativeSoundHolds, MetricSoundHolds, CpuSoundHolds DEF VerdictSound
<1>. QED
  BY <1>1, VerdictInvariance, PTL
--------------------------------------------------------------------------------
(* Statistics *)

\* a is in ascending order.
Rising(a, n) == a \in [1 .. n -> Int] /\ \A i, j \in 1 .. n : i <= j => a[i] <= a[j]

\* Four times the value at a place between those of a, given in quarters.
Between(a, place) ==
    4 * a[place \div 4 + 1] + (a[(place + 3) \div 4 + 1] - a[place \div 4 + 1]) * (place % 4)

\* It is no less than the one below the place and no greater than the one above.
LEMMA BetweenBounds ==
    ASSUME NEW n \in Nat \ {0}, NEW a, Rising(a, n), NEW place \in 0 .. 4 * (n - 1)
    PROVE  /\ place \div 4 + 1 \in 1 .. n /\ (place + 3) \div 4 + 1 \in 1 .. n
           /\ Between(a, place) \in Int
           /\ 4 * a[place \div 4 + 1] <= Between(a, place)
           /\ Between(a, place) <= 4 * a[(place + 3) \div 4 + 1]
<1>. DEFINE low == place \div 4 + 1
            high == (place + 3) \div 4 + 1
            rest == place % 4
<1>1. low \in 1 .. n /\ high \in 1 .. n /\ low <= high /\ rest \in 0 .. 3
  OBVIOUS
<1>. DEFINE x == a[low]
            y == a[high]
<1>. HIDE DEF low, high
<1>2. x \in Int /\ y \in Int /\ x <= y
  BY <1>1 DEF Rising
<1>3. rest = 0 \/ rest = 1 \/ rest = 2 \/ rest = 3
  BY <1>1
<1>. HIDE DEF x, y, rest
<1>4. /\ 4 * x + (y - x) * rest \in Int
      /\ 4 * x <= 4 * x + (y - x) * rest
      /\ 4 * x + (y - x) * rest <= 4 * y
  BY <1>2, <1>3
<1>. QED
  BY <1>1, <1>4 DEF Between, x, y, low, high, rest

\* Further on it is no less.
LEMMA BetweenRises ==
    ASSUME NEW n \in Nat \ {0}, NEW a, Rising(a, n),
           NEW i \in 0 .. 4 * (n - 1), NEW j \in i .. 4 * (n - 1)
    PROVE  Between(a, i) <= Between(a, j)
<1>1. /\ Between(a, i) \in Int /\ Between(a, j) \in Int
      /\ (i + 3) \div 4 + 1 \in 1 .. n /\ j \div 4 + 1 \in 1 .. n /\ i \div 4 + 1 \in 1 .. n
      /\ Between(a, i) <= 4 * a[(i + 3) \div 4 + 1]
      /\ 4 * a[j \div 4 + 1] <= Between(a, j)
  BY BetweenBounds
<1>2. CASE (i + 3) \div 4 <= j \div 4
  <2>. DEFINE x == a[(i + 3) \div 4 + 1]
              y == a[j \div 4 + 1]
  <2>1. x <= y /\ x \in Int /\ y \in Int
    BY <1>1, <1>2 DEF Rising
  <2>. HIDE DEF x, y
  <2>2. Between(a, i) <= 4 * x /\ 4 * y <= Between(a, j)
    BY <1>1 DEF x, y
  <2>. QED
    BY <1>1, <2>1, <2>2
<1>3. CASE ~ ((i + 3) \div 4 <= j \div 4)
  <2>1. i \div 4 = j \div 4 /\ i % 4 <= j % 4 /\ i % 4 \in 1 .. 3 /\ j % 4 \in 1 .. 3
    BY <1>3
  <2>2. (i + 3) \div 4 = (j + 3) \div 4
    BY <1>3, <2>1
  <2>. DEFINE low == i \div 4 + 1
              high == (i + 3) \div 4 + 1
              x == a[low]
              y == a[high]
              r == i % 4
              s == j % 4
  <2>3. low \in 1 .. n /\ high \in 1 .. n /\ low <= high
    BY <1>1
  <2>4. x \in Int /\ y \in Int /\ x <= y
    <3>. HIDE DEF low, high
    <3>. QED
      BY <2>3 DEF Rising
  <2>5. Between(a, i) = 4 * x + (y - x) * r /\ Between(a, j) = 4 * x + (y - x) * s
    BY <2>1, <2>2 DEF Between
  <2>6. (r = 1 \/ r = 2 \/ r = 3) /\ (s = 1 \/ s = 2 \/ s = 3) /\ r <= s
    BY <2>1
  <2>. HIDE DEF x, y, r, s
  <2>7. 4 * x + (y - x) * r <= 4 * x + (y - x) * s
    BY <2>4, <2>6
  <2>. QED
    BY <2>5, <2>7
<1>. QED
  BY <1>2, <1>3

\* The two values in the middle, the same one twice if their number is odd,
\* make twice the median.
LEMMA MedianIs ==
    ASSUME NEW s \in Seq(Int), s # <<>>
    PROVE  LET n == Len(s)
               a == Ascending(s)
           IN  /\ n \in Nat \ {0} /\ (n + 1) \div 2 \in 1 .. n /\ n \div 2 + 1 \in 1 .. n
               /\ (n + 1) \div 2 <= n \div 2 + 1
               /\ a[(n + 1) \div 2] \in Int /\ a[n \div 2 + 1] \in Int
               /\ a[(n + 1) \div 2] <= a[n \div 2 + 1]
               /\ Median(s) = a[(n + 1) \div 2] + a[n \div 2 + 1]
<1>. DEFINE n == Len(s)
            a == Ascending(s)
            low == (n + 1) \div 2
            high == n \div 2 + 1
<1>1. n \in Nat \ {0}
  OBVIOUS
<1>2. Ordered(a, s)
  BY AscendingIs
<1>3. low \in 1 .. n /\ high \in 1 .. n /\ low <= high
  <2>. HIDE DEF n
  <2>. QED
    BY <1>1
<1>. HIDE DEF a
<1>4. a[low] \in Int /\ a[high] \in Int /\ a[low] <= a[high] /\ Len(a) = n
  <2>. HIDE DEF low, high
  <2>. QED
    BY <1>2, <1>3 DEF Ordered
<1>5. Median(s) = IF n % 2 = 1 THEN 2 * a[n \div 2 + 1] ELSE a[n \div 2] + a[n \div 2 + 1]
  <2>. HIDE DEF n
  <2>. QED
    BY <1>4 DEF Median, a
<1>6. Median(s) = a[low] + a[high]
  <2>. HIDE DEF n
  <2>1. CASE n % 2 = 1
    <3>1. n \div 2 + 1 = low
      BY <1>1, <2>1
    <3>. QED
      BY <1>4, <1>5, <2>1, <3>1
  <2>2. CASE n % 2 # 1
    <3>1. n \div 2 = low
      BY <1>1, <2>2
    <3>. QED
      BY <1>5, <2>2, <3>1
  <2>. QED
    BY <2>1, <2>2
<1>. QED
  BY <1>1, <1>3, <1>4, <1>6 DEF a

\* A median lies where the values do.
LEMMA MedianBounds ==
    ASSUME NEW s \in Seq(Int), s # <<>>, NEW low \in Int, NEW high \in Int
    PROVE  /\ Median(s) \in Int
           /\ (\A i \in 1 .. Len(s) : low <= s[i]) => 2 * low <= Median(s)
           /\ (\A i \in 1 .. Len(s) : s[i] <= high) => Median(s) <= 2 * high
<1>. DEFINE n == Len(s)
            a == Ascending(s)
            x == a[(n + 1) \div 2]
            y == a[n \div 2 + 1]
<1>1. /\ (n + 1) \div 2 \in 1 .. n /\ n \div 2 + 1 \in 1 .. n
      /\ x \in Int /\ y \in Int /\ Median(s) = x + y
  BY MedianIs
<1>2. Ordered(a, s)
  BY AscendingIs
<1>3. (\E i \in 1 .. n : x = s[i]) /\ (\E j \in 1 .. n : y = s[j])
  BY <1>1, <1>2 DEF Ordered
<1>. HIDE DEF x, y
<1>4. (\A i \in 1 .. n : low <= s[i]) => 2 * low <= Median(s)
  <2>1. (\A i \in 1 .. n : low <= s[i]) => low <= x /\ low <= y
    BY <1>3
  <2>. QED
    BY <1>1, <2>1
<1>5. (\A i \in 1 .. n : s[i] <= high) => Median(s) <= 2 * high
  <2>1. (\A i \in 1 .. n : s[i] <= high) => x <= high /\ y <= high
    BY <1>3
  <2>. QED
    BY <1>1, <2>1
<1>. QED
  BY <1>1, <1>4, <1>5

\* The median is the quantile of a half.
LEMMA MedianQuantile ==
    ASSUME NEW s \in Seq(Int), s # <<>>
    PROVE  Between(Ascending(s), (Len(s) - 1) * 2) = 2 * Median(s)
<1>. DEFINE n == Len(s)
            a == Ascending(s)
            x == a[(n + 1) \div 2]
            y == a[n \div 2 + 1]
            place == (n - 1) * 2
<1>1. n \in Nat \ {0} /\ x \in Int /\ y \in Int /\ Median(s) = x + y
  BY MedianIs
<1>. HIDE DEF n, a
<1>2. CASE n % 2 = 1
  <2>1. /\ place \div 4 + 1 = (n + 1) \div 2 /\ (place + 3) \div 4 + 1 = (n + 1) \div 2
        /\ place % 4 = 0 /\ n \div 2 + 1 = (n + 1) \div 2
    BY <1>1, <1>2
  <2>. HIDE DEF place
  <2>2. Between(a, place) = 4 * x + (x - x) * 0
    BY <2>1 DEF Between
  <2>3. y = x
    BY <2>1
  <2>. HIDE DEF x, y
  <2>4. Between(a, place) = 2 * (x + y)
    BY <1>1, <2>2, <2>3
  <2>. QED
    BY <1>1, <2>4 DEF n, a, place
<1>3. CASE n % 2 # 1
  <2>1. /\ place \div 4 + 1 = (n + 1) \div 2 /\ (place + 3) \div 4 + 1 = n \div 2 + 1
        /\ place % 4 = 2
    <3>. DEFINE half == n \div 2
    <3>1. half \in Nat \ {0} /\ n = 2 * half
      BY <1>1, <1>3
    <3>. HIDE DEF half
    <3>2. place = 4 * (half - 1) + 2 /\ (n + 1) \div 2 = half /\ n \div 2 = half
      BY <3>1
    <3>. HIDE DEF place
    <3>3. place \div 4 = half - 1 /\ place % 4 = 2 /\ (place + 3) \div 4 = half
      BY <3>1, <3>2
    <3>. QED
      BY <3>1, <3>2, <3>3
  <2>. HIDE DEF place
  <2>2. Between(a, place) = 4 * x + (y - x) * 2
    BY <2>1 DEF Between
  <2>. HIDE DEF x, y
  <2>3. Between(a, place) = 2 * (x + y)
    BY <1>1, <2>2
  <2>. QED
    BY <1>1, <2>3 DEF n, a, place
<1>. QED
  BY <1>2, <1>3

\* At most half of the values are below their median, and at most half above.
LEMMA MedianHalves ==
    ASSUME NEW s \in Seq(Int), s # <<>>
    PROVE  /\ Cardinality({i \in 1 .. Len(s) : 4 * s[i] < 2 * Median(s)}) * 2 <= Len(s)
           /\ Cardinality({i \in 1 .. Len(s) : 4 * s[i] > 2 * Median(s)}) * 2 <= Len(s)
<1>. DEFINE n == Len(s)
            a == Ascending(s)
            low == (n + 1) \div 2
            high == n \div 2 + 1
            x == a[low]
            y == a[high]
            m == Median(s)
            Smaller == {i \in 1 .. n : 4 * s[i] < 2 * m}
            Larger == {i \in 1 .. n : 4 * s[i] > 2 * m}
            UnderY == {i \in 1 .. n : s[i] < y}
            UpToX == {i \in 1 .. n : s[i] < x + 1}
<1>1. /\ n \in Nat \ {0} /\ low \in 1 .. n /\ high \in 1 .. n
      /\ x \in Int /\ y \in Int /\ x <= y /\ m = x + y
  BY MedianIs
<1>2. Ordered(a, s)
  BY AscendingIs
<1>3. Cardinality(UnderY) < high /\ low <= Cardinality(UpToX)
  BY <1>1, <1>2 DEF Ordered, Lesser
<1>4. \A i \in 1 .. n : s[i] \in Int
  OBVIOUS
<1>. HIDE DEF x, y, m
<1>5. Smaller \subseteq UnderY
  <2>. SUFFICES ASSUME NEW i \in 1 .. n, 4 * s[i] < 2 * m
                PROVE  s[i] < y
    OBVIOUS
  <2>. DEFINE v == s[i]
  <2>1. v \in Int /\ 4 * v < 2 * m
    BY <1>4
  <2>. HIDE DEF v
  <2>2. v < y
    BY <1>1, <2>1
  <2>. QED
    BY <2>2 DEF v
<1>6. Larger \subseteq (1 .. n) \ UpToX
  <2>. SUFFICES ASSUME NEW i \in 1 .. n, 4 * s[i] > 2 * m
                PROVE  ~ (s[i] < x + 1)
    OBVIOUS
  <2>. DEFINE v == s[i]
  <2>1. v \in Int /\ 4 * v > 2 * m
    BY <1>4
  <2>. HIDE DEF v
  <2>2. ~ (v < x + 1)
    BY <1>1, <2>1
  <2>. QED
    BY <2>2 DEF v
<1>7. UnderY \subseteq 1 .. n /\ UpToX \subseteq 1 .. n
  OBVIOUS
<1>. HIDE DEF n, Smaller, Larger, UnderY, UpToX
<1>8. IsFiniteSet(1 .. n) /\ Cardinality(1 .. n) = n
  BY <1>1, FS_Interval
<1>9. /\ IsFiniteSet(UnderY) /\ Cardinality(UnderY) \in Nat
      /\ IsFiniteSet(UpToX) /\ Cardinality(UpToX) \in Nat
  BY <1>7, <1>8, FS_Subset, FS_CardinalityType
<1>10. /\ IsFiniteSet((1 .. n) \ UpToX)
       /\ Cardinality((1 .. n) \ UpToX) = n - Cardinality(UpToX)
  <2>. DEFINE S == 1 .. n
  <2>1. S \cap UpToX = UpToX /\ IsFiniteSet(S) /\ Cardinality(S) = n
    BY <1>7, <1>8
  <2>. HIDE DEF S
  <2>2. IsFiniteSet(S \ UpToX) /\ Cardinality(S \ UpToX) = n - Cardinality(UpToX)
    BY <2>1, FS_Difference
  <2>. QED
    BY <2>2 DEF S
<1>11. /\ Cardinality(Smaller) \in Nat /\ Cardinality(Smaller) <= Cardinality(UnderY)
       /\ Cardinality(Larger) \in Nat /\ Cardinality(Larger) <= n - Cardinality(UpToX)
  BY <1>5, <1>6, <1>9, <1>10, FS_Subset, FS_CardinalityType
<1>12. Cardinality(Smaller) * 2 <= n /\ Cardinality(Larger) * 2 <= n
  BY <1>1, <1>3, <1>9, <1>11
<1>. QED
  BY <1>12 DEF n, Smaller, Larger, m

\* Median and quartiles of what was measured.
LEMMA DistributionExactHolds ==
    ASSUME NEW measured \in Seq(Values \cup {NotFinite})
    PROVE  DistributionExact(measured)
<1>. DEFINE s == Finite(measured)
            n == Len(s)
            a == Ascending(s)
            d == Distribution(measured)
<1>. SUFFICES ASSUME s # <<>>
              PROVE  /\ d.median = QuantileLinear(s, 2)
                     /\ Cardinality({i \in 1 .. n : 4 * s[i] < d.median}) * 2 <= n
                     /\ Cardinality({i \in 1 .. n : 4 * s[i] > d.median}) * 2 <= n
                     /\ QuantileLinear(s, 0) <= d.q1 /\ d.q1 <= d.median
                     /\ d.median <= d.q3 /\ d.q3 <= QuantileLinear(s, 4)
  BY DEF DistributionExact
<1>1. Values \subseteq Int /\ NotFinite \notin Values
  BY RegressionAssumption DEF NotFinite
<1>2. s \in Seq(Values)
  BY <1>1, FiniteType
<1>3. Finite(s) = s
  <2>. HIDE DEF s
  <2>. QED
    BY <1>1, <1>2, FiniteFixed
<1>4. s \in Seq(Int) /\ n \in Nat \ {0}
  <2>. HIDE DEF s
  <2>. QED
    BY <1>1, <1>2, NotEmpty, Zenon
<1>. HIDE DEF s
<1>5. Rising(a, n) /\ Len(a) = n
  <2>1. Ordered(a, s)
    BY <1>4, AscendingIs
  <2>. QED
    BY <2>1 DEF Ordered, Rising
<1>6. \A q \in 0 .. 4 : /\ QuantileLinear(measured, q) = Between(a, (n - 1) * q)
                        /\ QuantileLinear(s, q) = Between(a, (n - 1) * q)
  <2>1. Len(a) = n
    BY <1>5
  <2>. HIDE DEF a, n
  <2>2. ASSUME NEW q \in 0 .. 4
        PROVE  /\ QuantileLinear(measured, q) = Between(a, (n - 1) * q)
               /\ QuantileLinear(s, q) = Between(a, (n - 1) * q)
    <3>1. Ascending(Finite(measured)) = a /\ Ascending(Finite(s)) = a
      BY <1>3 DEF a, s
    <3>. QED
      BY <2>1, <3>1 DEF QuantileLinear, Between
  <2>. QED
    BY <2>2
<1>7. /\ d.q1 = Between(a, (n - 1) * 1) /\ d.q3 = Between(a, (n - 1) * 3)
      /\ d.median = Between(a, (n - 1) * 2) /\ d.median = 2 * Median(s)
  <2>1. Between(a, (n - 1) * 2) = 2 * Median(s)
    BY <1>4, MedianQuantile
  <2>2. d = [q1 |-> QuantileLinear(measured, 1), median |-> 2 * Median(s),
             q3 |-> QuantileLinear(measured, 3)]
    BY DEF Distribution, s
  <2>. HIDE DEF d, a, n
  <2>. QED
    BY <1>6, <2>1, <2>2
<1>. HIDE DEF d, a
<1>8. /\ Between(a, (n - 1) * 0) <= Between(a, (n - 1) * 1)
      /\ Between(a, (n - 1) * 1) <= Between(a, (n - 1) * 2)
      /\ Between(a, (n - 1) * 2) <= Between(a, (n - 1) * 3)
      /\ Between(a, (n - 1) * 3) <= Between(a, (n - 1) * 4)
  <2>. HIDE DEF n
  <2>1. /\ (n - 1) * 0 \in 0 .. 4 * (n - 1) /\ (n - 1) * 1 \in (n - 1) * 0 .. 4 * (n - 1)
        /\ (n - 1) * 1 \in 0 .. 4 * (n - 1) /\ (n - 1) * 2 \in (n - 1) * 1 .. 4 * (n - 1)
        /\ (n - 1) * 2 \in 0 .. 4 * (n - 1) /\ (n - 1) * 3 \in (n - 1) * 2 .. 4 * (n - 1)
        /\ (n - 1) * 3 \in 0 .. 4 * (n - 1) /\ (n - 1) * 4 \in (n - 1) * 3 .. 4 * (n - 1)
    BY <1>4
  <2>. QED
    BY <1>4, <1>5, <2>1, BetweenRises
<1>9. /\ Cardinality({i \in 1 .. n : 4 * s[i] < d.median}) * 2 <= n
      /\ Cardinality({i \in 1 .. n : 4 * s[i] > d.median}) * 2 <= n
  BY <1>4, <1>7, MedianHalves
<1>. QED
  BY <1>6, <1>7, <1>8, <1>9

\* A nearest rank is the least value that enough values do not exceed.
LEMMA NearestRankExactHolds ==
    ASSUME NEW measured \in Seq(Values \cup {NotFinite}), NEW f \in 1 .. 1000
    PROVE  NearestRankExact(measured, f)
<1>. DEFINE s == Finite(measured)
            n == Len(s)
            a == Ascending(s)
            rank == (n * f + 999) \div 1000
            v == a[rank]
<1>. SUFFICES ASSUME s # <<>>
              PROVE  /\ Share(s, QuantileNearestRank(measured, f)) >= n * f
                     /\ Share(s, QuantileNearestRank(measured, f) - 1) < n * f
  BY DEF NearestRankExact
<1>1. Values \subseteq Int /\ NotFinite \notin Values /\ Values \subseteq Nat
  BY RegressionAssumption DEF NotFinite
<1>2. s \in Seq(Values)
  BY <1>1, FiniteType
<1>3. s \in Seq(Int) /\ n \in Nat \ {0}
  <2>. HIDE DEF s
  <2>. QED
    BY <1>1, <1>2, NotEmpty, Zenon
<1>. HIDE DEF s
<1>4. DOMAIN s = 1 .. n /\ \A i \in 1 .. n : s[i] \in Nat
  <2>1. s \in [1 .. n -> Values]
    BY <1>2
  <2>. HIDE DEF n
  <2>. QED
    BY <1>1, <2>1
<1>5. Ordered(a, s)
  BY <1>3, AscendingIs
<1>6. /\ rank \in 1 .. n /\ n * f \in Nat
      /\ n * f <= 1000 * rank /\ 1000 * (rank - 1) < n * f
  <2>. HIDE DEF n
  <2>. DEFINE p == n * f
  <2>1. p \in Nat /\ p <= 1000 * n /\ p >= 1
    BY <1>3
  <2>. HIDE DEF p
  <2>2. (p + 999) \div 1000 \in 1 .. n
    BY <1>3, <2>1
  <2>3. p <= 1000 * ((p + 999) \div 1000) /\ 1000 * (((p + 999) \div 1000) - 1) < p
    BY <2>1
  <2>. QED
    BY <2>1, <2>2, <2>3 DEF p
<1>7. QuantileNearestRank(measured, f) = v
  <2>1. QuantileNearestRank(measured, f) = a[IF rank = 0 THEN 1 ELSE rank]
    <3>1. Len(a) = n
      BY <1>5 DEF Ordered
    <3>. HIDE DEF n
    <3>. QED
      BY <3>1 DEF QuantileNearestRank, s
  <2>. HIDE DEF n, rank, a
  <2>2. rank # 0
    BY <1>3, <1>6
  <2>. QED
    BY <2>1, <2>2
<1>. HIDE DEF rank, a
<1>8. v \in Int /\ Lesser(s, n, v) < rank /\ rank <= Lesser(s, n, v + 1)
  BY <1>5, <1>6 DEF Ordered
<1>9. Lesser(s, n, v) \in Nat /\ Lesser(s, n, v + 1) \in Nat
  BY <1>3, LesserType
<1>. HIDE DEF v
<1>10. Share(s, v) = 1000 * Lesser(s, n, v + 1) /\ Share(s, v - 1) = 1000 * Lesser(s, n, v)
  <2>1. \A i \in 1 .. n : /\ s[i] \in 0 .. v <=> s[i] < v + 1
                          /\ s[i] \in 0 .. v - 1 <=> s[i] < v
    <3>. SUFFICES ASSUME NEW i \in 1 .. n
                  PROVE  /\ s[i] \in 0 .. v <=> s[i] < v + 1
                         /\ s[i] \in 0 .. v - 1 <=> s[i] < v
      OBVIOUS
    <3>. DEFINE w == s[i]
    <3>1. w \in Nat
      BY <1>4
    <3>. HIDE DEF w
    <3>2. /\ w \in 0 .. v <=> w < v + 1
          /\ w \in 0 .. v - 1 <=> w < v
      BY <1>8, <3>1
    <3>. QED
      BY <3>2 DEF w
  <2>2. /\ {i \in DOMAIN s : s[i] \in 0 .. v} = {i \in 1 .. n : s[i] < v + 1}
        /\ {i \in DOMAIN s : s[i] \in 0 .. v - 1} = {i \in 1 .. n : s[i] < v}
    <3>. HIDE DEF n
    <3>. QED
      BY <1>4, <2>1
  <2>. QED
    <3>. DEFINE A == {i \in DOMAIN s : s[i] \in 0 .. v}
                B == {i \in DOMAIN s : s[i] \in 0 .. v - 1}
                C == {i \in 1 .. n : s[i] < v + 1}
                D == {i \in 1 .. n : s[i] < v}
    <3>1. A = C /\ B = D
      BY <2>2
    <3>2. Share(s, v) = 1000 * Cardinality(A) /\ Share(s, v - 1) = 1000 * Cardinality(B)
      BY Zenon DEF Share
    <3>3. Lesser(s, n, v + 1) = Cardinality(C) /\ Lesser(s, n, v) = Cardinality(D)
      BY Zenon DEF Lesser
    <3>. HIDE DEF A, B, C, D
    <3>. QED
      BY <3>1, <3>2, <3>3
<1>11. Share(s, v) >= n * f /\ Share(s, v - 1) < n * f
  <2>. DEFINE p == n * f
              x == Lesser(s, n, v)
              y == Lesser(s, n, v + 1)
  <2>1. /\ p \in Nat /\ p <= 1000 * rank /\ 1000 * (rank - 1) < p /\ rank \in Nat
        /\ x \in Nat /\ y \in Nat /\ x < rank /\ rank <= y
    BY <1>3, <1>6, <1>8, <1>9
  <2>. HIDE DEF p, x, y
  <2>2. 1000 * y >= p /\ 1000 * x < p
    BY <2>1
  <2>. QED
    BY <1>10, <2>2 DEF p, x, y
<1>. QED
  BY <1>7, <1>11

\* The partial products of a sequence, the last of them its product.
Multiplying(run, values) ==
    /\ run[0] = 1
    /\ \A i \in 0 .. Len(values) - 1 : run[i + 1] = run[i] * values[i + 1]

\* The fold of multiplication over a sequence computes them.
LEMMA SequenceProduct ==
    ASSUME NEW values \in Seq(Nat \ {0})
    PROVE  \E run : Multiplying(run, values) /\ Product(values) = run[Len(values)]
<1>. DEFINE n == Len(values)
            next == [p \in (1 .. n) \X Int |-> p[2] * values[p[1]]]
            Fold(g) == g = [s \in SUBSET DOMAIN values |->
                              IF s = {} THEN 1 ELSE g[s \ {Max(s)}] * values[Max(s)]]
<1>1. n \in Nat /\ DOMAIN values = 1 .. n /\ \A i \in 1 .. n : values[i] \in Int
  OBVIOUS
<1>2. next \in [(1 .. n) \X Int -> Int]
  <2>1. \A p \in (1 .. n) \X Int : p[2] \in Int /\ values[p[1]] \in Int
    BY <1>1
  <2>2. \A p \in (1 .. n) \X Int : p[2] * values[p[1]] \in Int
    BY <2>1
  <2>. QED
    BY <2>2
<1>3. PICK g \in [SUBSET (1 .. n) -> Int] : Folding(g, n, 1, next)
  <2>1. n \in Nat /\ 1 \in Int
    BY <1>1
  <2>. HIDE DEF next, n
  <2>. QED
    BY <1>2, <2>1, SequenceFold, Zenon
<1>4. Fold(g)
  <2>1. ASSUME NEW s \in SUBSET (1 .. n), s # {}
        PROVE  next[<<Max(s), g[s \ {Max(s)}]>>] = g[s \ {Max(s)}] * values[Max(s)]
    <3>1. Max(s) \in s
      <4>1. s \in SUBSET Nat /\ \A i \in s : i <= n
        BY <1>1
      <4>. QED
        BY <1>1, <2>1, <4>1, MaxOfNaturals
    <3>. DEFINE x == Max(s)
                e == g[s \ {x}]
    <3>2. x \in 1 .. n /\ e \in Int
      BY <1>3, <2>1, <3>1
    <3>. HIDE DEF x, e
    <3>3. <<x, e>> \in (1 .. n) \X Int
      BY <3>2
    <3>4. next[<<x, e>>] = e * values[x]
      BY <3>3
    <3>. QED
      BY <3>4 DEF e, x
  <2>. HIDE DEF next
  <2>. QED
    BY <1>1, <1>3, <2>1 DEF Folding
<1>. DEFINE h == CHOOSE h : Fold(h)
<1>5. Fold(h)
  <2>. HIDE DEF Fold
  <2>. QED
    BY <1>4
<1>6. Product(values) = h[1 .. n]
  BY <1>1 DEF Product, FoldLeft, MapThenFoldSet
<1>. DEFINE run == [k \in 0 .. n |-> h[1 .. k]]
<1>7. run[0] = 1
  <2>1. 1 .. 0 = {} /\ {} \in SUBSET DOMAIN values
    OBVIOUS
  <2>. HIDE DEF h
  <2>. QED
    BY <1>1, <1>5, <2>1
<1>8. ASSUME NEW k \in 0 .. n - 1
      PROVE  run[k + 1] = run[k] * values[k + 1]
  <2>1. /\ 1 .. k + 1 \in SUBSET DOMAIN values /\ 1 .. k + 1 # {}
        /\ Max(1 .. k + 1) = k + 1 /\ (1 .. k + 1) \ {k + 1} = 1 .. k
    <3>1. k \in Nat /\ 1 .. k + 1 \in SUBSET DOMAIN values
      BY <1>1
    <3>. HIDE DEF run
    <3>2. 1 .. k + 1 # {} /\ Max(1 .. k + 1) = k + 1 /\ (1 .. k + 1) \ {k + 1} = 1 .. k
      BY <3>1, MaxOfPrefix
    <3>. QED
      BY <3>1, <3>2
  <2>. HIDE DEF h
  <2>2. h[1 .. k + 1] = h[1 .. k] * values[k + 1]
    BY <1>5, <2>1
  <2>. QED
    BY <1>1, <2>2
<1>9. Product(values) = run[n]
  BY <1>1, <1>6
<1>. HIDE DEF run
<1>. QED
  BY <1>7, <1>8, <1>9 DEF Multiplying

\* A product of positive numbers is no less than any of them.
LEMMA ProductGreatest ==
    ASSUME NEW values \in Seq(Nat \ {0})
    PROVE  /\ Product(values) \in Nat \ {0}
           /\ \A i \in 1 .. Len(values) : values[i] <= Product(values)
<1>. DEFINE n == Len(values)
<1>1. n \in Nat /\ \A i \in 1 .. n : values[i] \in Nat \ {0}
  OBVIOUS
<1>2. PICK run : Multiplying(run, values) /\ Product(values) = run[n]
  BY SequenceProduct
<1>. DEFINE Covers(k) == run[k] \in Nat \ {0} /\ \A i \in 1 .. k : values[i] <= run[k]
            S == {k \in 0 .. n : Covers(k)}
<1>3. 0 \in S
  <2>1. run[0] = 1
    BY <1>2 DEF Multiplying
  <2>2. Covers(0)
    BY <2>1
  <2>. HIDE DEF Covers
  <2>. QED
    BY <1>1, <2>2
<1>4. ASSUME NEW k \in 0 .. n - 1, k \in S
      PROVE  k + 1 \in S
  <2>. DEFINE x == run[k]
              v == values[k + 1]
  <2>1. x \in Nat \ {0} /\ v \in Nat \ {0} /\ k + 1 \in 0 .. n
    BY <1>1, <1>4
  <2>2. run[k + 1] = x * v
    BY <1>2 DEF Multiplying
  <2>3. x * v \in Nat \ {0} /\ x <= x * v /\ v <= x * v
    <3>. HIDE DEF x, v
    <3>. QED
      BY <2>1
  <2>4. \A i \in 1 .. k + 1 : values[i] <= run[k + 1]
    <3>1. \A i \in 1 .. k : values[i] <= x /\ values[i] \in Nat
      BY <1>1, <1>4
    <3>2. \A i \in 1 .. k + 1 : i \in 1 .. k \/ i = k + 1
      OBVIOUS
    <3>3. ASSUME NEW i \in 1 .. k + 1
          PROVE  values[i] <= x * v
      <4>1. CASE i = k + 1
        BY <2>3, <4>1
      <4>2. CASE i \in 1 .. k
        <5>. DEFINE w == values[i]
                    xv == x * v
        <5>1. w <= x /\ w \in Nat /\ x \in Nat /\ xv \in Nat /\ x <= xv
          BY <2>1, <2>3, <3>1, <4>2
        <5>. HIDE DEF w, x, xv
        <5>2. w <= xv
          BY <5>1
        <5>. QED
          BY <5>2 DEF w, xv
      <4>. QED
        BY <3>2, <4>1, <4>2
    <3>. QED
      BY <2>2, <3>3
  <2>5. Covers(k + 1)
    BY <2>2, <2>3, <2>4
  <2>. HIDE DEF Covers
  <2>. QED
    BY <2>1, <2>5
<1>5. 0 .. n \subseteq S
  <2>. HIDE DEF S
  <2>. QED
    BY <1>1, <1>3, <1>4, BoundedInduction
<1>6. Covers(n)
  <2>1. n \in S
    <3>. HIDE DEF S
    <3>. QED
      BY <1>1, <1>5
  <2>. HIDE DEF Covers
  <2>. QED
    BY <2>1
<1>. QED
  BY <1>2, <1>6

\* If every value of one sequence exceeds that of another at its place, so does
\* its median: as many values are at most the k-th of the greater ones as are
\* less than the k-th of the others.
LEMMA MedianDominates ==
    ASSUME NEW s \in Seq(Int), NEW t \in Seq(Int), Len(s) = Len(t), s # <<>>,
           \A i \in 1 .. Len(s) : s[i] > t[i]
    PROVE  Median(s) > Median(t)
<1>. DEFINE n == Len(s)
            a == Ascending(s)
            b == Ascending(t)
<1>1. n \in Nat \ {0} /\ t # <<>>
  OBVIOUS
<1>2. Ordered(a, s) /\ Ordered(b, t)
  BY AscendingIs
<1>. HIDE DEF a, b
<1>3. ASSUME NEW k \in 1 .. n
      PROVE  a[k] \in Int /\ b[k] \in Int /\ a[k] > b[k]
  <2>. DEFINE x == a[k]
              y == b[k]
              UpToX == {i \in 1 .. n : s[i] < x + 1}
              UnderY == {i \in 1 .. n : t[i] < y}
  <2>1. /\ x \in Int /\ y \in Int
        /\ k <= Lesser(s, n, x + 1) /\ Lesser(t, n, y) < k
    BY <1>2 DEF Ordered
  <2>2. k <= Cardinality(UpToX) /\ Cardinality(UnderY) < k
    BY <2>1, Zenon DEF Lesser
  <2>3. IsFiniteSet(UnderY) /\ Cardinality(UnderY) \in Nat /\ Cardinality(UpToX) \in Nat
    <3>1. IsFiniteSet(1 .. n) /\ UnderY \subseteq 1 .. n /\ UpToX \subseteq 1 .. n
      <4>1. IsFiniteSet(1 .. n)
        BY <1>1, FS_Interval
      <4>. HIDE DEF n, x, y
      <4>2. UnderY \subseteq 1 .. n /\ UpToX \subseteq 1 .. n
        BY Zenon
      <4>. QED
        BY <4>1, <4>2
    <3>. HIDE DEF UnderY, UpToX
    <3>. QED
      BY <3>1, FS_Subset, FS_CardinalityType
  <2>4. CASE x <= y
    <3>1. UpToX \subseteq UnderY
      <4>. SUFFICES ASSUME NEW i \in 1 .. n, s[i] < x + 1
                    PROVE  t[i] < y
        OBVIOUS
      <4>. DEFINE v == s[i]
                  w == t[i]
      <4>1. v \in Int /\ w \in Int /\ v > w /\ v < x + 1
        BY <1>1
      <4>. HIDE DEF v, w, x, y
      <4>2. w < y
        BY <2>1, <2>4, <4>1
      <4>. QED
        BY <4>2 DEF w
    <3>2. Cardinality(UpToX) <= Cardinality(UnderY)
      <4>. HIDE DEF UpToX, UnderY
      <4>. QED
        BY <2>3, <3>1, FS_Subset
    <3>. HIDE DEF UpToX, UnderY
    <3>. QED
      BY <1>1, <2>2, <2>3, <3>2
  <2>5. x > y
    <3>1. x \in Int /\ y \in Int /\ ~ (x <= y)
      BY <2>1, <2>4
    <3>. HIDE DEF x, y
    <3>. QED
      BY <3>1
  <2>. QED
    BY <2>1, <2>5 DEF x, y
<1>. DEFINE low == (n + 1) \div 2
            high == n \div 2 + 1
<1>4. /\ low \in 1 .. n /\ high \in 1 .. n
      /\ Median(s) = a[low] + a[high] /\ Median(t) = b[low] + b[high]
  BY <1>1, MedianIs DEF a, b
<1>. HIDE DEF low, high
<1>5. /\ a[low] \in Int /\ b[low] \in Int /\ a[low] > b[low]
      /\ a[high] \in Int /\ b[high] \in Int /\ a[high] > b[high]
  BY <1>3, <1>4
<1>6. a[low] + a[high] > b[low] + b[high]
  <2>. DEFINE p == a[low]
              q == a[high]
              x == b[low]
              y == b[high]
  <2>1. p \in Int /\ q \in Int /\ x \in Int /\ y \in Int /\ p > x /\ q > y
    BY <1>5
  <2>. HIDE DEF p, q, x, y
  <2>2. p + q > x + y
    BY <2>1
  <2>. QED
    BY <2>2 DEF p, q, x, y
<1>. QED
  BY <1>4, <1>6

\* The hinges enclose the median: of the lower half of the values none is
\* greater than the lower of the two in the middle, of the upper half none less
\* than the upper one.
LEMMA HingesEnclose ==
    ASSUME NEW s \in Seq(Int), Len(s) >= 2
    PROVE  TukeyHinges(s).q1 <= Median(s) /\ Median(s) <= TukeyHinges(s).q3
<1>. DEFINE n == Len(s)
            a == Ascending(s)
            low == (n + 1) \div 2
            high == n \div 2 + 1
            half == n \div 2
            first == SubSeq(a, 1, half)
            last == SubSeq(a, low + 1, n)
<1>1. n \in Nat /\ n >= 2 /\ s # <<>>
  OBVIOUS
<1>2. Ordered(a, s)
  BY AscendingIs
<1>3. /\ low \in 1 .. n /\ high \in 1 .. n /\ a[low] \in Int /\ a[high] \in Int
      /\ Median(s) = a[low] + a[high] /\ a[low] <= a[high]
  BY <1>1, MedianIs
<1>4. half \in 1 .. n /\ half <= low /\ high <= low + 1 /\ low + 1 \in 1 .. n /\ n - low \in Nat \ {0}
  <2>. HIDE DEF n
  <2>. QED
    BY <1>1
<1>5. TukeyHinges(s).q1 = Median(first) /\ TukeyHinges(s).q3 = Median(last)
  <2>1. TukeyHinges(s) = [q1 |-> Median(first), q3 |-> Median(last)]
    BY Zenon DEF TukeyHinges
  <2>. HIDE DEF first, last
  <2>. QED
    BY <2>1
<1>. HIDE DEF a, low, high, half
<1>6. /\ \A i \in 1 .. n : a[i] \in Int
      /\ \A i, j \in 1 .. n : i <= j => a[i] <= a[j]
      /\ a \in Seq(Int) /\ Len(a) = n
  BY <1>2 DEF Ordered
<1>. HIDE DEF n
<1>7. /\ first \in Seq(Int) /\ Len(first) = half /\ first # <<>>
      /\ \A i \in 1 .. half : first[i] = a[i]
  <2>1. first = [i \in 1 .. half |-> a[i]]
    BY <1>1, <1>4, <1>6
  <2>2. \A i \in 1 .. half : a[i] \in Int
    BY <1>1, <1>4, <1>6
  <2>. HIDE DEF first
  <2>. QED
    BY <1>1, <1>4, <2>1, <2>2
<1>8. /\ last \in Seq(Int) /\ Len(last) = n - low /\ last # <<>>
      /\ \A i \in 1 .. n - low : last[i] = a[low + i]
  <2>1. last = [i \in 1 .. n - low |-> a[low + i]]
    <3>1. last = [i \in 1 .. n - (low + 1) + 1 |-> a[i + (low + 1) - 1]]
      BY <1>1, <1>3, <1>4, <1>6
    <3>2. n - (low + 1) + 1 = n - low /\ \A i \in 1 .. n - low : i + (low + 1) - 1 = low + i
      BY <1>1, <1>3
    <3>. HIDE DEF last
    <3>. QED
      BY <3>1, <3>2
  <2>2. \A i \in 1 .. n - low : a[low + i] \in Int
    <3>1. \A i \in 1 .. n - low : low + i \in 1 .. n
      BY <1>1, <1>3
    <3>. QED
      BY <1>6, <3>1
  <2>. DEFINE m == n - low
  <2>3. m \in Nat \ {0}
    BY <1>4
  <2>. HIDE DEF last, m
  <2>4. last = [i \in 1 .. m |-> a[low + i]] /\ \A i \in 1 .. m : a[low + i] \in Int
    BY <2>1, <2>2 DEF m
  <2>5. /\ last \in Seq(Int) /\ Len(last) = m /\ last # <<>>
        /\ \A i \in 1 .. m : last[i] = a[low + i]
    BY <2>3, <2>4
  <2>. QED
    BY <2>5 DEF m
<1>. HIDE DEF first, last
<1>9. Median(first) \in Int /\ Median(first) <= 2 * a[low]
  <2>1. \A i \in 1 .. half : first[i] <= a[low]
    <3>1. \A i \in 1 .. half : i \in 1 .. n /\ i <= low
      BY <1>1, <1>3, <1>4
    <3>. QED
      BY <1>3, <1>6, <1>7, <3>1
  <2>. QED
    BY <1>3, <1>7, <2>1, MedianBounds
<1>10. Median(last) \in Int /\ 2 * a[high] <= Median(last)
  <2>1. \A i \in 1 .. n - low : a[high] <= last[i]
    <3>1. \A i \in 1 .. n - low : low + i \in 1 .. n /\ high <= low + i
      BY <1>1, <1>3, <1>4
    <3>. QED
      BY <1>3, <1>6, <1>8, <3>1
  <2>. QED
    BY <1>3, <1>8, <2>1, MedianBounds
<1>. QED
  BY <1>3, <1>5, <1>9, <1>10

\* The deltas of the candidates c from the references r.
Deltas(c, r) == [i \in 1 .. Len(c) |-> PercentDelta(c[i], r[i], Product(r))]

\* n pairs, of the candidates c and the references r.
Paired(pairs, c, r, n) ==
    /\ Len(c) = n /\ c = [i \in 1 .. n |-> c[i]] /\ r = [i \in 1 .. n |-> r[i]]
    /\ pairs = [i \in 1 .. n |-> [candidate |-> c[i], reference |-> r[i]]]

\* Their comparison: medians, deltas and wins.
Compared(c, r, n, direction) ==
    [medianCandidate |-> Median(c), medianReference |-> Median(r),
     deltas |-> Deltas(c, r), medianDelta |-> Median(Deltas(c, r)),
     iqr |-> TukeyHinges(Deltas(c, r)),
     winningPairs |-> Cardinality({i \in 1 .. n : Better(direction, c[i], r[i])})]

\* It is what PairedComparison makes of the pairs.
LEMMA ComparisonIs ==
    ASSUME NEW n \in Nat, NEW c, NEW r, NEW direction, NEW pairs, Paired(pairs, c, r, n)
    PROVE  PairedComparison(pairs, direction) = Compared(c, r, n, direction)
<1>. DEFINE candidates == [i \in DOMAIN pairs |-> pairs[i].candidate]
            references == [i \in DOMAIN pairs |-> pairs[i].reference]
            deltas == [i \in DOMAIN pairs |->
                         PercentDelta(candidates[i], references[i], Product(references))]
            wins == {i \in DOMAIN pairs : Better(direction, pairs[i].candidate, pairs[i].reference)}
<1>0. /\ Len(c) = n /\ c = [i \in 1 .. n |-> c[i]] /\ r = [i \in 1 .. n |-> r[i]]
      /\ pairs = [i \in 1 .. n |-> [candidate |-> c[i], reference |-> r[i]]]
  BY Zenon DEF Paired
<1>1. DOMAIN pairs = 1 .. n /\ \A i \in 1 .. n : pairs[i].candidate = c[i] /\ pairs[i].reference = r[i]
  BY <1>0
<1>2. candidates = c /\ references = r
  <2>1. candidates = [i \in 1 .. n |-> c[i]] /\ references = [i \in 1 .. n |-> r[i]]
    BY <1>1
  <2>. QED
    BY <1>0, <2>1
<1>3. wins = {i \in 1 .. n : Better(direction, c[i], r[i])}
  BY <1>1
<1>4. PairedComparison(pairs, direction) =
        [medianCandidate |-> Median(candidates), medianReference |-> Median(references),
         deltas |-> deltas, medianDelta |-> Median(deltas), iqr |-> TukeyHinges(deltas),
         winningPairs |-> Cardinality(wins)]
  BY Zenon DEF PairedComparison
<1>5. deltas = Deltas(c, r)
  <2>. HIDE DEF candidates, references
  <2>. QED
    BY <1>0, <1>1, <1>2 DEF Deltas
<1>. HIDE DEF candidates, references, deltas, wins
<1>6. PairedComparison(pairs, direction) =
        [medianCandidate |-> Median(c), medianReference |-> Median(r),
         deltas |-> Deltas(c, r), medianDelta |-> Median(Deltas(c, r)),
         iqr |-> TukeyHinges(Deltas(c, r)),
         winningPairs |-> Cardinality({i \in 1 .. n : Better(direction, c[i], r[i])})]
  BY <1>2, <1>3, <1>4, <1>5
<1>. QED
  BY <1>6, Zenon DEF Compared

\* The sign of a delta is that of the difference.
LEMMA DeltaSign ==
    ASSUME NEW c \in Nat \ {0}, NEW r \in Nat \ {0}, NEW scale \in Nat, r <= scale
    PROVE  /\ PercentDelta(c, r, scale) \in Int
           /\ PercentDelta(c, r, scale) > 0 <=> c > r
<1>. DEFINE q == scale \div r
            d == 100 * (c - r)
<1>1. q \in Nat \ {0}
  <2>. DEFINE rest == scale % r
  <2>1. q \in Nat /\ rest \in 0 .. r - 1 /\ scale = q * r + rest
    BY Division
  <2>2. q = 0 => q * r = 0
    OBVIOUS
  <2>. HIDE DEF q, rest
  <2>3. q # 0
    BY <2>1, <2>2
  <2>. QED
    BY <2>1, <2>3
<1>2. d \in Int /\ (d > 0 <=> c > r)
  OBVIOUS
<1>. HIDE DEF d, q
<1>3. d * q \in Int /\ (d * q > 0 <=> d > 0)
  BY <1>1, <1>2
<1>. QED
  BY <1>2, <1>3 DEF PercentDelta, d, q

\* A comparison of positive values, two or more.
LEMMA ComparisonSound ==
    ASSUME NEW n \in Nat, n >= 2, NEW c \in Seq(Nat \ {0}), NEW r \in Seq(Nat \ {0}),
           Len(c) = n, Len(r) = n
    PROVE  LET d == Deltas(c, r)
               wins == {i \in 1 .. n : c[i] > r[i]}
           IN  /\ d \in Seq(Int) /\ Len(d) = n /\ DOMAIN d = 1 .. n
               /\ wins = {i \in 1 .. n : d[i] > 0}
               /\ TukeyHinges(d).q1 <= Median(d) /\ Median(d) <= TukeyHinges(d).q3
               /\ Cardinality(wins) = n => Median(d) > 0 /\ Median(c) > Median(r)
<1>. DEFINE d == Deltas(c, r)
            wins == {i \in 1 .. n : c[i] > r[i]}
<1>1. \A i \in 1 .. n : c[i] \in Nat \ {0} /\ r[i] \in Nat \ {0}
  OBVIOUS
<1>2. Product(r) \in Nat /\ \A i \in 1 .. n : r[i] <= Product(r)
  BY ProductGreatest
<1>3. d = [i \in 1 .. n |-> PercentDelta(c[i], r[i], Product(r))]
  BY DEF Deltas
<1>4. \A i \in 1 .. n : /\ PercentDelta(c[i], r[i], Product(r)) \in Int
                        /\ PercentDelta(c[i], r[i], Product(r)) > 0 <=> c[i] > r[i]
  BY <1>1, <1>2, DeltaSign
<1>. HIDE DEF d
<1>5. /\ d \in Seq(Int) /\ Len(d) = n /\ DOMAIN d = 1 .. n
      /\ \A i \in 1 .. n : d[i] \in Int /\ (d[i] > 0 <=> c[i] > r[i])
  BY <1>3, <1>4
<1>6. wins = {i \in 1 .. n : d[i] > 0}
  BY <1>5
<1>7. TukeyHinges(d).q1 <= Median(d) /\ Median(d) <= TukeyHinges(d).q3
  BY <1>5, HingesEnclose
<1>8. ASSUME Cardinality(wins) = n
      PROVE  Median(d) > 0 /\ Median(c) > Median(r)
  <2>1. wins = 1 .. n
    <3>. DEFINE S == 1 .. n
    <3>1. IsFiniteSet(S) /\ Cardinality(S) = n /\ wins \subseteq S
      BY FS_Interval
    <3>. HIDE DEF S, wins
    <3>2. wins = S
      BY <1>8, <3>1, FS_Subset
    <3>. QED
      BY <3>2 DEF S
  <2>2. \A i \in 1 .. n : c[i] > r[i] /\ d[i] > 0
    BY <1>5, <2>1
  <2>3. Median(d) > 0
    <3>1. d # <<>>
      BY <1>5
    <3>2. \A i \in 1 .. Len(d) : 1 <= d[i]
      BY <1>5, <2>2
    <3>3. Median(d) \in Int /\ 2 * 1 <= Median(d)
      BY <1>5, <3>1, <3>2, MedianBounds
    <3>. QED
      BY <3>3
  <2>4. Median(c) > Median(r)
    <3>1. c \in Seq(Int) /\ r \in Seq(Int)
      <4>1. Nat \ {0} \subseteq Int
        OBVIOUS
      <4>. QED
        BY <4>1, NotEmpty, Zenon
    <3>2. c # <<>>
      OBVIOUS
    <3>. QED
      BY <2>2, <3>1, <3>2, MedianDominates
  <2>. QED
    BY <2>3, <2>4
<1>. QED
  BY <1>5, <1>6, <1>7, <1>8 DEF d

\* Rounds in which both sides measured something have a comparison as it should be.
LEMMA ComparisonExactHolds ==
    ASSUME VerdictInv, Len(runs) >= 4, NotFinite \notin ToSet(runs)
    PROVE  ComparisonExact
<1>. DEFINE n == Len(runs) \div 2
            c == Measured("candidate")
            r == Measured("reference")
            ours == PairedComparison(Pairs("candidate", "reference"), "higher")
            theirs == PairedComparison(Pairs("reference", "candidate"), "higher")
            losing == PairedComparison(Pairs("candidate", "reference"), "lower")
            d == Deltas(c, r)
            wins == {i \in 1 .. n : c[i] > r[i]}
            losses == {i \in 1 .. n : r[i] > c[i]}
<1>1. n \in Nat /\ n >= 2
  BY DEF VerdictInv
<1>2. /\ c \in Seq(Nat \ {0}) /\ Len(c) = n /\ r \in Seq(Nat \ {0}) /\ Len(r) = n
  BY MeasuredFinite
<1>. HIDE DEF n
<1>3. c = [i \in 1 .. n |-> c[i]] /\ r = [i \in 1 .. n |-> r[i]]
  <2>. HIDE DEF c, r
  <2>. QED
    BY <1>2
<1>4. /\ Paired(Pairs("candidate", "reference"), c, r, n)
      /\ Paired(Pairs("reference", "candidate"), r, c, n)
  <2>1. /\ Pairs("candidate", "reference") = [i \in 1 .. n |-> [candidate |-> c[i], reference |-> r[i]]]
        /\ Pairs("reference", "candidate") = [i \in 1 .. n |-> [candidate |-> r[i], reference |-> c[i]]]
    BY Zenon DEF Pairs, n
  <2>. HIDE DEF c, r
  <2>. QED
    BY <1>2, <1>3, <2>1, Zenon DEF Paired
<1>. HIDE DEF c, r
<1>5. ours = [medianCandidate |-> Median(c), medianReference |-> Median(r),
              deltas |-> d, medianDelta |-> Median(d), iqr |-> TukeyHinges(d),
              winningPairs |-> Cardinality(wins)]
  <2>1. ours = [medianCandidate |-> Median(c), medianReference |-> Median(r),
                deltas |-> d, medianDelta |-> Median(d), iqr |-> TukeyHinges(d),
                winningPairs |-> Cardinality({i \in 1 .. n : Better("higher", c[i], r[i])})]
    <3>1. ours = Compared(c, r, n, "higher")
      BY <1>1, <1>4, ComparisonIs, Zenon
    <3>. HIDE DEF ours
    <3>. QED
      BY <3>1 DEF Compared
  <2>2. {i \in 1 .. n : Better("higher", c[i], r[i])} = wins
    BY DEF Better
  <2>. HIDE DEF ours, d, wins
  <2>. QED
    BY <2>1, <2>2
<1>6. theirs.winningPairs = Cardinality(losses)
  <2>1. theirs.winningPairs = Cardinality({i \in 1 .. n : Better("higher", r[i], c[i])})
    <3>1. theirs = Compared(r, c, n, "higher")
      BY <1>1, <1>4, ComparisonIs, Zenon
    <3>. HIDE DEF theirs
    <3>. QED
      BY <3>1 DEF Compared
  <2>2. {i \in 1 .. n : Better("higher", r[i], c[i])} = losses
    BY DEF Better
  <2>. HIDE DEF theirs, losses
  <2>. QED
    BY <2>1, <2>2
<1>7. losing.winningPairs = Cardinality(losses)
  <2>1. losing.winningPairs = Cardinality({i \in 1 .. n : Better("lower", c[i], r[i])})
    <3>1. losing = Compared(c, r, n, "lower")
      BY <1>1, <1>4, ComparisonIs, Zenon
    <3>. HIDE DEF losing
    <3>. QED
      BY <3>1 DEF Compared
  <2>2. {i \in 1 .. n : Better("lower", c[i], r[i])} = losses
    <3>1. \A i \in 1 .. n : c[i] \in Nat /\ r[i] \in Nat
      BY <1>2
    <3>2. \A x, y \in Nat : x < y <=> y > x
      OBVIOUS
    <3>. QED
      BY <3>1, <3>2 DEF Better
  <2>. HIDE DEF losing, losses
  <2>. QED
    BY <2>1, <2>2
<1>8. /\ d \in Seq(Int) /\ Len(d) = n /\ DOMAIN d = 1 .. n
      /\ wins = {i \in 1 .. n : d[i] > 0}
      /\ TukeyHinges(d).q1 <= Median(d) /\ Median(d) <= TukeyHinges(d).q3
      /\ Cardinality(wins) = n => Median(d) > 0 /\ Median(c) > Median(r)
  BY <1>1, <1>2, ComparisonSound
<1>. HIDE DEF ours, theirs, losing, d, wins, losses
<1>9. /\ ours.winningPairs = Cardinality({i \in DOMAIN ours.deltas : ours.deltas[i] > 0})
      /\ theirs.winningPairs = losing.winningPairs
      /\ ours.iqr.q1 <= ours.medianDelta /\ ours.medianDelta <= ours.iqr.q3
      /\ ours.winningPairs = Len(ours.deltas) =>
           ours.medianDelta > 0 /\ ours.medianCandidate > ours.medianReference
  <2>1. /\ ours.winningPairs = Cardinality(wins) /\ ours.deltas = d
        /\ ours.iqr = TukeyHinges(d) /\ ours.medianDelta = Median(d)
        /\ ours.medianCandidate = Median(c) /\ ours.medianReference = Median(r)
    BY <1>5
  <2>2. wins = {i \in DOMAIN d : d[i] > 0}
    BY <1>8
  <2>. QED
    BY <1>6, <1>7, <1>8, <2>1, <2>2
<1>. QED
  BY <1>9 DEF ComparisonExact, ours, theirs, losing

\* Whatever was measured and however often, the statistics of a comparison agree
\* with each other and with the data: distribution, quantileNearestRank and
\* pairedComparison, for any rounds and values.
THEOREM StatisticsExactHolds == RegressionSpec => []StatisticsExact
<1>1. VerdictInv => StatisticsExact
  <2>. SUFFICES ASSUME VerdictInv
                PROVE  StatisticsExact
    OBVIOUS
  <2>1. ASSUME NEW label \in {"candidate", "reference"}
        PROVE  /\ DistributionExact(Measured(label))
               /\ \A f \in {500, 950, 975, 990} : NearestRankExact(Measured(label), f)
    <3>1. Measured(label) \in Seq(Values \cup {NotFinite})
      BY MeasuredType
    <3>2. {500, 950, 975, 990} \subseteq 1 .. 1000
      OBVIOUS
    <3>. QED
      BY <3>1, <3>2, DistributionExactHolds, NearestRankExactHolds
  <2>2. Len(runs) >= 4 /\ NotFinite \notin ToSet(runs) => ComparisonExact
    BY ComparisonExactHolds
  <2>. QED
    BY <2>1, <2>2 DEF StatisticsExact
<1>. QED
  BY <1>1, VerdictInvariance, PTL
--------------------------------------------------------------------------------
(* The buckets of the histogram *)

\* The lower bounds of the buckets double; they are positive and even.
LEMMA LowerIs ==
    /\ Lower[0] = Lowest
    /\ \A i \in Nat : /\ Lower[i + 1] = 2 * Lower[i]
                      /\ Lower[i] \in Nat /\ Lower[i] > i
                      /\ \E h \in Nat : Lower[i] = 2 * h
<1>. DEFINE double == [x \in Int |-> 2 * x]
<1>0. Lowest \in Nat /\ Lowest > 0 /\ \E h \in Nat : Lowest = 2 * h
  BY LatencyAssumption
<1>1. PICK f : f \in [Nat -> Int] /\ f[0] = Lowest /\ \A n \in Nat : f[n + 1] = double[f[n]]
  <2>1. Lowest \in Int /\ double \in [Int -> Int]
    BY <1>0
  <2>. HIDE DEF double
  <2>2. \E f : Iterates(f, Int, Lowest, double)
    BY <2>1, Iteration, Zenon
  <2>. QED
    BY <2>2, Zenon DEF Iterates
<1>2. f = [i \in Nat |-> IF i = 0 THEN Lowest ELSE 2 * f[i - 1]]
  <2>1. ASSUME NEW i \in Nat, i # 0
        PROVE  f[i] = 2 * f[i - 1]
    <3>1. i - 1 \in Nat /\ (i - 1) + 1 = i
      BY <2>1
    <3>2. f[i - 1] \in Int
      BY <1>1, <3>1
    <3>. QED
      BY <1>1, <3>1, <3>2
  <2>. QED
    BY <1>1, <2>1
<1>3. Lower = [i \in Nat |-> IF i = 0 THEN Lowest ELSE 2 * Lower[i - 1]]
  <2>. HIDE DEF double
  <2>. QED
    BY <1>2 DEF Lower
<1>4. Lower[0] = Lowest
  BY <1>3
<1>5. \A i \in Nat : Lower[i + 1] = 2 * Lower[i]
  BY <1>3
<1>. DEFINE P == {i \in Nat : Lower[i] \in Nat /\ Lower[i] > i /\ \E h \in Nat : Lower[i] = 2 * h}
<1>6. 0 \in P
  BY <1>0, <1>4
<1>7. ASSUME NEW i \in Nat, i \in P
      PROVE  i + 1 \in P
  <2>1. Lower[i + 1] = 2 * Lower[i] /\ Lower[i] \in Nat /\ Lower[i] > i
    BY <1>5, <1>7
  <2>. QED
    BY <2>1
<1>8. Nat \subseteq P
  <2>. HIDE DEF P
  <2>. QED
    BY <1>6, <1>7, Induction
<1>. QED
  BY <1>4, <1>5, <1>8

\* They rise.
LEMMA LowerRises ==
    ASSUME NEW j \in Nat
    PROVE  \A i \in 0 .. j : Lower[i] <= Lower[j]
<1>. DEFINE P == {n \in Nat : \A i \in 0 .. n : Lower[i] <= Lower[n]}
<1>1. 0 \in P
  BY LowerIs
<1>2. ASSUME NEW n \in Nat, n \in P
      PROVE  n + 1 \in P
  <2>1. ASSUME NEW i \in 0 .. n + 1
        PROVE  Lower[i] <= Lower[n + 1]
    <3>1. Lower[i] \in Nat /\ Lower[n] \in Nat /\ Lower[n + 1] \in Nat /\ Lower[n + 1] = 2 * Lower[n]
      BY LowerIs
    <3>2. CASE i = n + 1
      BY <3>1, <3>2
    <3>3. CASE i # n + 1
      <4>1. i \in 0 .. n
        BY <3>3
      <4>. QED
        BY <1>2, <3>1, <4>1
    <3>. QED
      BY <3>2, <3>3
  <2>. QED
    BY <2>1
<1>3. Nat \subseteq P
  <2>. HIDE DEF P
  <2>. QED
    BY <1>1, <1>2, Induction
<1>. QED
  BY <1>3

\* The buckets are numbered from 0; no observation is behind the last.
LEMMA BucketsAre ==
    \E n \in Nat : Buckets = 0 .. n /\ Lower[n] >= Highest
<1>. DEFINE S == {n \in Nat : Lower[n] >= Highest}
<1>0. Highest \in Nat
  BY LatencyAssumption
<1>1. Highest \in S
  BY <1>0, LowerIs
<1>2. PICK n \in S : \A m \in S : n <= m
  <2>1. S \in SUBSET Nat /\ S # {}
    BY <1>1
  <2>. HIDE DEF S
  <2>. QED
    BY <2>1, LeastNatural
<1>3. n \in 0 .. Highest
  BY <1>0, <1>1, <1>2
<1>4. \A m \in 0 .. n - 1 : Lower[m] < Highest
  <2>1. ASSUME NEW m \in 0 .. n - 1
        PROVE  Lower[m] < Highest
    <3>1. m \in Nat /\ m < n /\ n \in Nat
      BY <1>3
    <3>2. m \notin S
      BY <1>2, <3>1
    <3>3. Lower[m] \in Nat
      BY <3>1, LowerIs
    <3>. QED
      BY <1>0, <3>1, <3>2, <3>3
  <2>. QED
    BY <2>1
<1>. DEFINE b == CHOOSE b \in 0 .. Highest :
                    Lower[b] >= Highest /\ \A m \in 0 .. b - 1 : Lower[m] < Highest
<1>5. b \in 0 .. Highest /\ Lower[b] >= Highest
  BY <1>2, <1>3, <1>4
<1>6. Buckets = 0 .. b
  BY DEF Buckets
<1>. HIDE DEF b
<1>. QED
  BY <1>0, <1>5, <1>6

\* An observation belongs to the bucket whose bounds are around it.
LEMMA BucketOfIs ==
    ASSUME NEW ms \in Lowest .. Highest
    PROVE  /\ BucketOf(ms) \in Buckets /\ BucketOf(ms) \in Nat
           /\ Lower[BucketOf(ms)] <= ms /\ ms < Lower[BucketOf(ms) + 1]
<1>1. PICK n \in Nat : Buckets = 0 .. n /\ Lower[n] >= Highest
  BY BucketsAre
<1>0. ms \in Nat /\ Highest \in Nat /\ Lowest \in Nat /\ Lowest <= ms /\ ms <= Highest
  BY LatencyAssumption
<1>. DEFINE S == {i \in Nat : ms < Lower[i + 1]}
<1>2. n \in S
  <2>1. Lower[n + 1] = 2 * Lower[n] /\ Lower[n] \in Nat /\ Lower[n] > n
    BY LowerIs
  <2>. QED
    BY <1>0, <1>1, <2>1
<1>3. PICK i \in S : \A m \in S : i <= m
  <2>1. S \in SUBSET Nat /\ S # {}
    BY <1>2
  <2>. HIDE DEF S
  <2>. QED
    BY <2>1, LeastNatural
<1>4. i \in Buckets
  BY <1>1, <1>2, <1>3
<1>5. Lower[i] <= ms
  <2>1. CASE i = 0
    BY <1>0, <2>1, LowerIs
  <2>2. CASE i # 0
    <3>1. i - 1 \in Nat /\ (i - 1) + 1 = i /\ i \in Nat
      BY <2>2
    <3>2. i - 1 \notin S
      BY <1>3, <3>1
    <3>3. Lower[i] \in Nat
      BY <3>1, LowerIs
    <3>. QED
      BY <1>0, <3>1, <3>2, <3>3
  <2>. QED
    BY <2>1, <2>2
<1>. DEFINE b == BucketOf(ms)
<1>6. b \in Buckets /\ Lower[b] <= ms /\ (ms < Lower[b + 1] \/ b + 1 \notin Buckets)
  BY <1>3, <1>4, <1>5 DEF BucketOf
<1>. HIDE DEF b
<1>7. b \in Nat
  BY <1>1, <1>6
<1>8. ms < Lower[b + 1]
  <2>1. CASE b + 1 \notin Buckets
    <3>1. b = n
      BY <1>1, <1>6, <2>1
    <3>. QED
      BY <1>2, <3>1
  <2>. QED
    BY <1>6, <2>1
<1>. QED
  BY <1>6, <1>7, <1>8 DEF b

\* The midpoint of a bucket is a number
LEMMA MidpointType ==
    ASSUME NEW i \in Nat
    PROVE  Midpoint(i) \in Nat
<1>1. PICK h \in Nat : Lower[i] = 2 * h
  BY LowerIs
<1>2. Lower[i] \div 2 = h
  BY <1>1
<1>. QED
  BY <1>1, <1>2, LatencyAssumption DEF Midpoint, Less

\* near everything in it.
LEMMA MidpointNear ==
    ASSUME NEW ms \in Lowest .. Highest
    PROVE  Near(Midpoint(BucketOf(ms)), ms)
<1>. DEFINE b == BucketOf(ms)
<1>1. b \in Nat /\ Lower[b] <= ms /\ ms < Lower[b + 1]
  BY BucketOfIs
<1>. HIDE DEF b
<1>2. PICK h \in Nat : Lower[b] = 2 * h
  BY <1>1, LowerIs
<1>3. Lower[b + 1] = 4 * h
  BY <1>1, <1>2, LowerIs
<1>4. Lower[b] \div 2 = h
  BY <1>2
<1>5. Midpoint(b) = IF Highest < 3 * h THEN Highest ELSE 3 * h
  BY <1>2, <1>4 DEF Midpoint, Less
<1>6. ms \in Nat /\ Highest \in Nat /\ ms <= Highest
  BY LatencyAssumption
<1>7. 2 * (Midpoint(b) - ms) \in -ms .. ms
  BY <1>1, <1>2, <1>3, <1>5, <1>6
<1>. QED
  BY <1>7 DEF Near, b
--------------------------------------------------------------------------------
(* What an event adds to a measurement *)

\* What a histogram, a measurement and an event are.
Histogram == [counts : [Buckets -> Nat], zeroCount : Nat, count : Nat,
              nonFinite : Nat, belowRange : Nat, aboveRange : Nat]

Metrics == [sums : [Sums -> Nat], maxima : [Maxima -> Nat], latency : Histogram,
            statusCodeCounts : [StatusCode -> Nat], memory : [MemoryKeys -> Nat]]

AnyEvent == Event("http1") \cup Event("websocket")

\* Two measurements in one.
Join(m, d) ==
    [sums |-> [k \in Sums |-> m.sums[k] + d.sums[k]],
     maxima |-> Greatest(m.maxima, d.maxima), latency |-> Merge(m.latency, d.latency),
     statusCodeCounts |-> [s \in StatusCode |-> m.statusCodeCounts[s] + d.statusCodeCounts[s]],
     memory |-> Greatest(m.memory, d.memory)]

\* An unused histogram is one, and so is an unused measurement.
LEMMA UnusedType == EmptyHistogram \in Histogram /\ Unused \in Metrics
  BY DEF EmptyHistogram, Histogram, Unused, Metrics

\* Merge stays in the type, has a zero, and neither order nor grouping matters.
LEMMA MergeType ==
    ASSUME NEW h \in Histogram, NEW g \in Histogram
    PROVE  Merge(h, g) \in Histogram
  BY DEF Merge, Histogram

LEMMA MergeEmpty ==
    ASSUME NEW h \in Histogram
    PROVE  Merge(EmptyHistogram, h) = h /\ Merge(h, EmptyHistogram) = h
<1>1. \A i \in Buckets : h.counts[i] \in Nat
  BY DEF Histogram
<1>2. h.counts = [i \in Buckets |-> h.counts[i]]
  BY DEF Histogram
<1>3. h.counts = [i \in Buckets |-> 0 + h.counts[i]] /\ h.counts = [i \in Buckets |-> h.counts[i] + 0]
  BY <1>1, <1>2
<1>4. [i \in Buckets |-> EmptyHistogram.counts[i] + h.counts[i]] = [i \in Buckets |-> 0 + h.counts[i]]
  BY DEF EmptyHistogram
<1>5. [i \in Buckets |-> h.counts[i] + EmptyHistogram.counts[i]] = [i \in Buckets |-> h.counts[i] + 0]
  BY DEF EmptyHistogram
<1>6. [i \in Buckets |-> EmptyHistogram.counts[i] + h.counts[i]] = h.counts
  BY <1>3, <1>4
<1>7. [i \in Buckets |-> h.counts[i] + EmptyHistogram.counts[i]] = h.counts
  BY <1>3, <1>5
<1>. QED
  BY <1>6, <1>7 DEF Merge, Histogram, EmptyHistogram

LEMMA MergeAssociative ==
    ASSUME NEW h \in Histogram, NEW g \in Histogram, NEW f \in Histogram
    PROVE  Merge(Merge(h, g), f) = Merge(h, Merge(g, f))
<1>1. \A i \in Buckets : h.counts[i] \in Nat /\ g.counts[i] \in Nat /\ f.counts[i] \in Nat
  BY DEF Histogram
<1>2. \A i \in Buckets : (h.counts[i] + g.counts[i]) + f.counts[i] = h.counts[i] + (g.counts[i] + f.counts[i])
  BY <1>1
<1>. QED
  BY <1>2 DEF Merge, Histogram

LEMMA MergeCommutes ==
    ASSUME NEW h \in Histogram, NEW g \in Histogram
    PROVE  Merge(h, g) = Merge(g, h)
<1>1. \A i \in Buckets : h.counts[i] \in Nat /\ g.counts[i] \in Nat
  BY DEF Histogram
<1>2. \A i \in Buckets : h.counts[i] + g.counts[i] = g.counts[i] + h.counts[i]
  BY <1>1
<1>. QED
  BY <1>2 DEF Merge, Histogram

\* So does Join, which needs no order of its own.
LEMMA JoinType ==
    ASSUME NEW m \in Metrics, NEW d \in Metrics
    PROVE  Join(m, d) \in Metrics
<1>1. Merge(m.latency, d.latency) \in Histogram
  BY MergeType DEF Metrics
<1>. QED
  BY <1>1 DEF Join, Metrics, Greatest

LEMMA JoinUnused ==
    ASSUME NEW m \in Metrics
    PROVE  Join(Unused, m) = m /\ Join(m, Unused) = m
<1>1. /\ Merge(EmptyHistogram, m.latency) = m.latency
      /\ Merge(m.latency, EmptyHistogram) = m.latency
  BY MergeEmpty DEF Metrics
<1>2. /\ [k \in Sums |-> Unused.sums[k] + m.sums[k]] = m.sums
      /\ [k \in Sums |-> m.sums[k] + Unused.sums[k]] = m.sums
  BY DEF Metrics, Unused
<1>3. /\ Greatest(m.maxima, Unused.maxima) = m.maxima
      /\ Greatest(Unused.maxima, m.maxima) = m.maxima
  BY DEF Metrics, Unused, Greatest
<1>4. /\ Greatest(m.memory, Unused.memory) = m.memory
      /\ Greatest(Unused.memory, m.memory) = m.memory
  BY DEF Metrics, Unused, Greatest
<1>5. /\ [s \in StatusCode |-> Unused.statusCodeCounts[s] + m.statusCodeCounts[s]] = m.statusCodeCounts
      /\ [s \in StatusCode |-> m.statusCodeCounts[s] + Unused.statusCodeCounts[s]] = m.statusCodeCounts
  BY DEF Metrics, Unused
<1>6. Unused.latency = EmptyHistogram
  BY DEF Unused
<1>. QED
  BY <1>1, <1>2, <1>3, <1>4, <1>5, <1>6 DEF Metrics, Join

LEMMA JoinAssociative ==
    ASSUME NEW m \in Metrics, NEW d \in Metrics, NEW e \in Metrics
    PROVE  Join(Join(m, d), e) = Join(m, Join(d, e))
<1>1. Merge(Merge(m.latency, d.latency), e.latency) = Merge(m.latency, Merge(d.latency, e.latency))
  BY MergeAssociative DEF Metrics
<1>2. \A k \in Sums : (m.sums[k] + d.sums[k]) + e.sums[k] = m.sums[k] + (d.sums[k] + e.sums[k])
  BY DEF Metrics
<1>3. \A s \in StatusCode : (m.statusCodeCounts[s] + d.statusCodeCounts[s]) + e.statusCodeCounts[s]
         = m.statusCodeCounts[s] + (d.statusCodeCounts[s] + e.statusCodeCounts[s])
  BY DEF Metrics
<1>4. Greatest(Greatest(m.maxima, d.maxima), e.maxima) = Greatest(m.maxima, Greatest(d.maxima, e.maxima))
  BY DEF Metrics, Greatest
<1>5. Greatest(Greatest(m.memory, d.memory), e.memory) = Greatest(m.memory, Greatest(d.memory, e.memory))
  BY DEF Metrics, Greatest
<1>. QED
  BY <1>1, <1>2, <1>3, <1>4, <1>5 DEF Join

\* An unused measurement has nothing to add.
LEMMA NothingAdded ==
    ASSUME NEW m \in Metrics
    PROVE  /\ [k \in Sums |-> m.sums[k] + Unused.sums[k]] = m.sums
           /\ Greatest(m.maxima, Unused.maxima) = m.maxima
           /\ Merge(m.latency, Unused.latency) = m.latency
           /\ [s \in StatusCode |-> m.statusCodeCounts[s] + Unused.statusCodeCounts[s]] = m.statusCodeCounts
           /\ Greatest(m.memory, Unused.memory) = m.memory
<1>1. Join(m, Unused) = m
  BY JoinUnused
<1>. QED
  BY <1>1 DEF Join

\* One histogram more.
LEMMA NothingMerged ==
    ASSUME NEW h \in Histogram
    PROVE  /\ [i \in Buckets |-> h.counts[i] + EmptyHistogram.counts[i]] = h.counts
           /\ h.zeroCount + 0 = h.zeroCount /\ h.count + 0 = h.count
           /\ h.nonFinite + 0 = h.nonFinite /\ h.belowRange + 0 = h.belowRange
           /\ h.aboveRange + 0 = h.aboveRange
<1>1. Merge(h, EmptyHistogram) = h
  BY MergeEmpty
<1>. QED
  BY <1>1 DEF Merge, Histogram

\* The primitive records add a part that does not depend on the measurement.
LEMMA AddJoins ==
    ASSUME NEW m \in Metrics, NEW amounts,
           DOMAIN amounts \subseteq Sums, \A k \in DOMAIN amounts : amounts[k] \in Nat
    PROVE  Add(Unused, amounts) \in Metrics /\ Add(m, amounts) = Join(m, Add(Unused, amounts))
<1>. DEFINE a == [k \in Sums |-> IF k \in DOMAIN amounts THEN amounts[k] ELSE 0]
            d == [Unused EXCEPT !.sums = a]
<1>1. a \in [Sums -> Nat]
  OBVIOUS
<1>2. Add(Unused, amounts) = d
  <2>1. \A k \in Sums : (IF k \in DOMAIN amounts THEN Unused.sums[k] + amounts[k] ELSE Unused.sums[k]) = a[k]
    BY DEF Unused
  <2>2. [k \in Sums |-> IF k \in DOMAIN amounts THEN Unused.sums[k] + amounts[k] ELSE Unused.sums[k]] = a
    BY <2>1
  <2>. HIDE DEF a
  <2>. QED
    BY <2>2 DEF Add
<1>3. \A k \in Sums : (IF k \in DOMAIN amounts THEN m.sums[k] + amounts[k] ELSE m.sums[k]) = m.sums[k] + a[k]
  BY DEF Metrics
<1>. HIDE DEF a
<1>4. Add(m, amounts) = [m EXCEPT !.sums = [k \in Sums |-> m.sums[k] + a[k]]]
  BY <1>3 DEF Add
<1>5. d \in Metrics
  BY <1>1, UnusedType DEF Metrics
<1>6. /\ d.sums = a /\ d.maxima = Unused.maxima /\ d.latency = Unused.latency
      /\ d.statusCodeCounts = Unused.statusCodeCounts /\ d.memory = Unused.memory
  BY DEF Unused
<1>. HIDE DEF d
<1>7. Join(m, d) = [m EXCEPT !.sums = [k \in Sums |-> m.sums[k] + a[k]]]
  <2>1. [k \in Sums |-> m.sums[k] + d.sums[k]] = [k \in Sums |-> m.sums[k] + a[k]]
    BY <1>6
  <2>2. [s \in StatusCode |-> m.statusCodeCounts[s] + d.statusCodeCounts[s]] = m.statusCodeCounts
    BY <1>6, NothingAdded
  <2>3. /\ Greatest(m.maxima, d.maxima) = m.maxima /\ Merge(m.latency, d.latency) = m.latency
        /\ Greatest(m.memory, d.memory) = m.memory
    BY <1>6, NothingAdded
  <2>. QED
    BY <2>1, <2>2, <2>3 DEF Join, Metrics
<1>. QED
  BY <1>2, <1>4, <1>5, <1>7

\* A maximum raised is joined with the maximum of that value alone.
LEMMA RaiseJoins ==
    ASSUME NEW m \in Metrics, NEW key \in Maxima, NEW value \in Nat
    PROVE  Raise(Unused, key, value) \in Metrics /\ Raise(m, key, value) = Join(m, Raise(Unused, key, value))
<1>. DEFINE a == [k \in Maxima |-> IF k = key THEN value ELSE 0]
            d == Raise(Unused, key, value)
<1>1. a \in [Maxima -> Nat]
  OBVIOUS
<1>2. d = [Unused EXCEPT !.maxima = a]
  <2>1. [Unused.maxima EXCEPT ![key] = IF @ < value THEN value ELSE @] = a
    BY DEF Unused
  <2>. HIDE DEF a
  <2>. QED
    BY <2>1 DEF Raise
<1>3. Greatest(m.maxima, a) = [m.maxima EXCEPT ![key] = IF @ < value THEN value ELSE @]
  <2>1. m.maxima \in [Maxima -> Nat]
    BY DEF Metrics
  <2>. DEFINE f == m.maxima
  <2>. HIDE DEF f
  <2>2. \A k \in Maxima : (IF f[k] < a[k] THEN a[k] ELSE f[k]) = IF k = key THEN (IF f[k] < value THEN value ELSE f[k]) ELSE f[k]
    BY <2>1 DEF f
  <2>. HIDE DEF a
  <2>3. Greatest(f, a) = [f EXCEPT ![key] = IF @ < value THEN value ELSE @]
    BY <2>1, <2>2 DEF f, Greatest
  <2>. QED
    BY <2>3 DEF f
<1>. HIDE DEF a
<1>4. /\ d.maxima = a /\ d.sums = Unused.sums /\ d.latency = Unused.latency
      /\ d.statusCodeCounts = Unused.statusCodeCounts /\ d.memory = Unused.memory
  BY <1>2 DEF Unused
<1>5. d \in Metrics
  BY <1>1, <1>2, UnusedType DEF Metrics
<1>. HIDE DEF d
<1>6. Join(m, d) = [m EXCEPT !.maxima = Greatest(m.maxima, a)]
  BY <1>4, NothingAdded DEF Join, Metrics
<1>7. Raise(m, key, value) = [m EXCEPT !.maxima = Greatest(m.maxima, a)]
  BY <1>3 DEF Raise
<1>. QED
  BY <1>5, <1>6, <1>7 DEF d

\* What a histogram records of one latency.
LEMMA RecordMerges ==
    ASSUME NEW h \in Histogram, NEW ms \in Latency
    PROVE  Record(EmptyHistogram, ms) \in Histogram /\ Record(h, ms) = Merge(h, Record(EmptyHistogram, ms))
<1>. DEFINE d == Record(EmptyHistogram, ms)
<1>0. Merge(h, EmptyHistogram) = h /\ EmptyHistogram \in Histogram
  BY MergeEmpty, UnusedType
<1>00. ms = -1 \/ ms \in Nat
  BY LatencyAssumption DEF Latency, NonFinite
<1>1. CASE ms = NonFinite
  <2>0. ms # 0 /\ ms \notin 1 .. Lowest - 1 /\ ~(ms > Highest)
    BY <1>1, <1>00, LatencyAssumption DEF NonFinite
  <2>1. Record(h, ms) = [h EXCEPT !.nonFinite = @ + 1]
    BY <1>1, <2>0 DEF Record
  <2>2. d = [EmptyHistogram EXCEPT !.nonFinite = 1]
    <3>1. d = [EmptyHistogram EXCEPT !.nonFinite = @ + 1]
      BY <1>1, <2>0 DEF Record
    <3>. QED
      BY <3>1 DEF EmptyHistogram
  <2>3. /\ d.counts = EmptyHistogram.counts
        /\ d.zeroCount = 0
        /\ d.count = 0
        /\ d.nonFinite = 1
        /\ d.belowRange = 0
        /\ d.aboveRange = 0
    BY <2>2 DEF EmptyHistogram
  <2>4. d \in Histogram
    BY <1>0, <2>2 DEF Histogram
  <2>. HIDE DEF d
  <2>5. Merge(h, d) = [h EXCEPT !.nonFinite = @ + 1]
    BY <2>3, NothingMerged DEF Merge, Histogram
  <2>. QED
    BY <2>1, <2>4, <2>5 DEF d
<1>2. CASE ms = 0
  <2>0. ms # NonFinite /\ ms \notin 1 .. Lowest - 1 /\ ~(ms > Highest)
    BY <1>2, <1>00, LatencyAssumption DEF NonFinite
  <2>1. Record(h, ms) = [h EXCEPT !.zeroCount = @ + 1, !.count = @ + 1]
    BY <1>2, <2>0 DEF Record
  <2>2. d = [EmptyHistogram EXCEPT !.zeroCount = 1, !.count = 1]
    <3>1. d = [EmptyHistogram EXCEPT !.zeroCount = @ + 1, !.count = @ + 1]
      BY <1>2, <2>0 DEF Record
    <3>. QED
      BY <3>1 DEF EmptyHistogram
  <2>3. /\ d.counts = EmptyHistogram.counts
        /\ d.zeroCount = 1
        /\ d.count = 1
        /\ d.nonFinite = 0
        /\ d.belowRange = 0
        /\ d.aboveRange = 0
    BY <2>2 DEF EmptyHistogram
  <2>4. d \in Histogram
    <3>1. d = [counts |-> EmptyHistogram.counts, zeroCount |-> 1, count |-> 1, nonFinite |-> 0,
               belowRange |-> 0, aboveRange |-> 0]
      BY <2>2 DEF EmptyHistogram
    <3>. QED
      BY <1>0, <3>1 DEF Histogram
  <2>. HIDE DEF d
  <2>5. Merge(h, d) = [h EXCEPT !.zeroCount = @ + 1, !.count = @ + 1]
    <3>1. [i \in Buckets |-> h.counts[i] + d.counts[i]] = h.counts
      BY <2>3, NothingMerged
    <3>2. /\ h.nonFinite + d.nonFinite = h.nonFinite /\ h.belowRange + d.belowRange = h.belowRange
          /\ h.aboveRange + d.aboveRange = h.aboveRange
      BY <2>3, NothingMerged
    <3>. DEFINE r == [counts |-> h.counts, zeroCount |-> h.zeroCount + 1, count |-> h.count + 1,
                      nonFinite |-> h.nonFinite, belowRange |-> h.belowRange, aboveRange |-> h.aboveRange]
    <3>3. Merge(h, d) = r
      BY <2>3, <3>1, <3>2 DEF Merge
    <3>4. [h EXCEPT !.zeroCount = @ + 1, !.count = @ + 1] = r
      <4>. DEFINE f == [h EXCEPT !.zeroCount = @ + 1]
                  q == [counts |-> h.counts, zeroCount |-> h.zeroCount + 1, count |-> h.count,
                        nonFinite |-> h.nonFinite, belowRange |-> h.belowRange, aboveRange |-> h.aboveRange]
      <4>1. [h EXCEPT !.zeroCount = @ + 1, !.count = @ + 1] = [f EXCEPT !.count = @ + 1]
        OBVIOUS
      <4>2. f = q
        BY DEF Histogram
      <4>3. [q EXCEPT !.count = @ + 1] = r
        OBVIOUS
      <4>. HIDE DEF f, q, r
      <4>. QED
        BY <4>1, <4>2, <4>3
    <3>. QED
      BY <3>3, <3>4
  <2>. QED
    BY <2>1, <2>4, <2>5 DEF d
<1>3. CASE ms \in 1 .. Lowest - 1
  <2>0. ms # NonFinite /\ ms # 0 /\ ~(ms > Highest)
    BY <1>3, <1>00, LatencyAssumption DEF NonFinite
  <2>1. Record(h, ms) = [h EXCEPT !.belowRange = @ + 1]
    BY <1>3, <2>0 DEF Record
  <2>2. d = [EmptyHistogram EXCEPT !.belowRange = 1]
    <3>1. d = [EmptyHistogram EXCEPT !.belowRange = @ + 1]
      BY <1>3, <2>0 DEF Record
    <3>. QED
      BY <3>1 DEF EmptyHistogram
  <2>3. /\ d.counts = EmptyHistogram.counts
        /\ d.zeroCount = 0
        /\ d.count = 0
        /\ d.nonFinite = 0
        /\ d.belowRange = 1
        /\ d.aboveRange = 0
    BY <2>2 DEF EmptyHistogram
  <2>4. d \in Histogram
    BY <1>0, <2>2 DEF Histogram
  <2>. HIDE DEF d
  <2>5. Merge(h, d) = [h EXCEPT !.belowRange = @ + 1]
    BY <2>3, NothingMerged DEF Merge, Histogram
  <2>. QED
    BY <2>1, <2>4, <2>5 DEF d
<1>4. CASE ms > Highest /\ ms \in Nat
  <2>0. ms # NonFinite /\ ms # 0 /\ ms \notin 1 .. Lowest - 1
    BY <1>4, <1>00, LatencyAssumption DEF NonFinite
  <2>1. Record(h, ms) = [h EXCEPT !.aboveRange = @ + 1]
    BY <1>4, <2>0 DEF Record
  <2>2. d = [EmptyHistogram EXCEPT !.aboveRange = 1]
    <3>1. d = [EmptyHistogram EXCEPT !.aboveRange = @ + 1]
      BY <1>4, <2>0 DEF Record
    <3>. QED
      BY <3>1 DEF EmptyHistogram
  <2>3. /\ d.counts = EmptyHistogram.counts
        /\ d.zeroCount = 0
        /\ d.count = 0
        /\ d.nonFinite = 0
        /\ d.belowRange = 0
        /\ d.aboveRange = 1
    BY <2>2 DEF EmptyHistogram
  <2>4. d \in Histogram
    BY <1>0, <2>2 DEF Histogram
  <2>. HIDE DEF d
  <2>5. Merge(h, d) = [h EXCEPT !.aboveRange = @ + 1]
    BY <2>3, NothingMerged DEF Merge, Histogram
  <2>. QED
    BY <2>1, <2>4, <2>5 DEF d
<1>5. CASE ms \in Lowest .. Highest
  <2>. DEFINE b == BucketOf(ms)
              one == [i \in Buckets |-> IF i = b THEN 1 ELSE 0]
  <2>0. ms # NonFinite /\ ms # 0 /\ ms \notin 1 .. Lowest - 1 /\ ~(ms > Highest)
    BY <1>5, LatencyAssumption DEF NonFinite
  <2>1. b \in Buckets
    BY <1>5, BucketOfIs
  <2>2. Record(h, ms) = [h EXCEPT !.counts[b] = @ + 1, !.count = @ + 1]
    BY <2>0 DEF Record
  <2>3. d = [EmptyHistogram EXCEPT !.counts[b] = @ + 1, !.count = @ + 1]
    BY <2>0 DEF Record
  <2>. HIDE DEF b
  <2>4. [EmptyHistogram.counts EXCEPT ![b] = @ + 1] = one
    BY <2>1 DEF EmptyHistogram
  <2>5. [h.counts EXCEPT ![b] = @ + 1] = [i \in Buckets |-> h.counts[i] + one[i]]
    BY <2>1 DEF Histogram
  <2>6. one \in [Buckets -> Nat]
    OBVIOUS
  <2>. HIDE DEF one, d
  <2>7. d = [EmptyHistogram EXCEPT !.counts = one, !.count = 1]
    <3>1. EmptyHistogram.count + 1 = 1
      BY DEF EmptyHistogram
    <3>. QED
      BY <2>3, <2>4, <3>1
  <2>8. /\ d.counts = one /\ d.count = 1
        /\ d.zeroCount = 0 /\ d.nonFinite = 0 /\ d.belowRange = 0 /\ d.aboveRange = 0
    BY <2>7 DEF EmptyHistogram
  <2>9. Merge(h, d) = [h EXCEPT !.counts = [i \in Buckets |-> h.counts[i] + one[i]], !.count = @ + 1]
    <3>1. [i \in Buckets |-> h.counts[i] + d.counts[i]] = [i \in Buckets |-> h.counts[i] + one[i]]
      BY <2>8
    <3>2. /\ h.zeroCount + d.zeroCount = h.zeroCount /\ h.nonFinite + d.nonFinite = h.nonFinite
          /\ h.belowRange + d.belowRange = h.belowRange /\ h.aboveRange + d.aboveRange = h.aboveRange
      BY <2>8, NothingMerged
    <3>. DEFINE c == [i \in Buckets |-> h.counts[i] + one[i]]
                r == [counts |-> c, zeroCount |-> h.zeroCount, count |-> h.count + 1,
                      nonFinite |-> h.nonFinite, belowRange |-> h.belowRange, aboveRange |-> h.aboveRange]
    <3>. HIDE DEF c
    <3>3. Merge(h, d) = r
      BY <2>8, <3>1, <3>2 DEF Merge, c
    <3>4. [h EXCEPT !.counts = c, !.count = @ + 1] = r
      <4>. DEFINE f == [h EXCEPT !.counts = c]
                  q == [counts |-> c, zeroCount |-> h.zeroCount, count |-> h.count,
                        nonFinite |-> h.nonFinite, belowRange |-> h.belowRange, aboveRange |-> h.aboveRange]
      <4>1. [h EXCEPT !.counts = c, !.count = @ + 1] = [f EXCEPT !.count = @ + 1]
        OBVIOUS
      <4>2. f = q
        BY DEF Histogram
      <4>3. [q EXCEPT !.count = @ + 1] = r
        OBVIOUS
      <4>. HIDE DEF f, q, r
      <4>. QED
        BY <4>1, <4>2, <4>3
    <3>. QED
      BY <3>3, <3>4 DEF c
  <2>10. Record(h, ms) = [h EXCEPT !.counts = [i \in Buckets |-> h.counts[i] + one[i]], !.count = @ + 1]
    BY <2>2, <2>5
  <2>11. d \in Histogram
    BY <1>0, <2>6, <2>7 DEF Histogram
  <2>. QED
    BY <2>9, <2>10, <2>11 DEF d
<1>6. ms = NonFinite \/ ms = 0 \/ ms \in 1 .. Lowest - 1 \/ (ms > Highest /\ ms \in Nat) \/ ms \in Lowest .. Highest
  BY <1>00, LatencyAssumption DEF NonFinite
<1>. QED
  BY <1>1, <1>2, <1>3, <1>4, <1>5, <1>6, Zenon

\* A latency is recorded.
Timing(m, ms) == [m EXCEPT !.latency = Record(@, ms)]

LEMMA TimingJoins ==
    ASSUME NEW m \in Metrics, NEW ms \in Latency
    PROVE  Timing(Unused, ms) \in Metrics /\ Timing(m, ms) = Join(m, Timing(Unused, ms))
<1>. DEFINE r == Record(EmptyHistogram, ms)
<1>1. r \in Histogram /\ Record(m.latency, ms) = Merge(m.latency, r)
  BY RecordMerges DEF Metrics
<1>2. Timing(Unused, ms) = [Unused EXCEPT !.latency = r]
  BY DEF Timing, Unused
<1>. HIDE DEF r
<1>3. Timing(m, ms) = [m EXCEPT !.latency = Merge(m.latency, r)]
  BY <1>1 DEF Timing
<1>. DEFINE d == [Unused EXCEPT !.latency = r]
<1>4. /\ d.latency = r /\ d.maxima = Unused.maxima /\ d.sums = Unused.sums
      /\ d.statusCodeCounts = Unused.statusCodeCounts /\ d.memory = Unused.memory
  BY DEF Unused
<1>5. Join(m, d) = [m EXCEPT !.latency = Merge(m.latency, r)]
  <2>. HIDE DEF d
  <2>. QED
    BY <1>4, NothingAdded DEF Join, Metrics
<1>6. [Unused EXCEPT !.latency = r] \in Metrics
  BY <1>1, UnusedType DEF Metrics
<1>. QED
  BY <1>2, <1>3, <1>5, <1>6

\* A status is counted.
Answered(m, status) == [m EXCEPT !.statusCodeCounts[status] = @ + 1]

LEMMA AnsweredJoins ==
    ASSUME NEW m \in Metrics, NEW status \in StatusCode
    PROVE  Answered(Unused, status) \in Metrics /\ Answered(m, status) = Join(m, Answered(Unused, status))
<1>. DEFINE one == [s \in StatusCode |-> IF s = status THEN 1 ELSE 0]
<1>1. [Unused.statusCodeCounts EXCEPT ![status] = @ + 1] = one
  BY DEF Unused
<1>2. [m.statusCodeCounts EXCEPT ![status] = @ + 1] = [s \in StatusCode |-> m.statusCodeCounts[s] + one[s]]
  BY DEF Metrics
<1>3. one \in [StatusCode -> Nat]
  OBVIOUS
<1>. HIDE DEF one
<1>4. Answered(Unused, status) = [Unused EXCEPT !.statusCodeCounts = one]
  BY <1>1 DEF Answered
<1>5. Answered(m, status) = [m EXCEPT !.statusCodeCounts = [s \in StatusCode |-> m.statusCodeCounts[s] + one[s]]]
  BY <1>2 DEF Answered
<1>. DEFINE d == [Unused EXCEPT !.statusCodeCounts = one]
<1>6. /\ d.statusCodeCounts = one /\ d.maxima = Unused.maxima /\ d.sums = Unused.sums
      /\ d.latency = Unused.latency /\ d.memory = Unused.memory
  BY DEF Unused
<1>7. Join(m, d) = [m EXCEPT !.statusCodeCounts = [s \in StatusCode |-> m.statusCodeCounts[s] + one[s]]]
  <2>. HIDE DEF d
  <2>1. [s \in StatusCode |-> m.statusCodeCounts[s] + d.statusCodeCounts[s]]
          = [s \in StatusCode |-> m.statusCodeCounts[s] + one[s]]
    BY <1>6
  <2>2. [k \in Sums |-> m.sums[k] + d.sums[k]] = m.sums
    BY <1>6, NothingAdded
  <2>3. /\ Greatest(m.maxima, d.maxima) = m.maxima /\ Merge(m.latency, d.latency) = m.latency
        /\ Greatest(m.memory, d.memory) = m.memory
    BY <1>6, NothingAdded
  <2>. QED
    BY <2>1, <2>2, <2>3 DEF Join, Metrics
<1>8. [Unused EXCEPT !.statusCodeCounts = one] \in Metrics
  BY <1>3, UnusedType DEF Metrics
<1>. QED
  BY <1>4, <1>5, <1>7, <1>8

\* A sample of memory is joined.
LEMMA SampleJoins ==
    ASSUME NEW m \in Metrics, NEW reading \in [MemoryKeys -> Nat]
    PROVE  /\ SampleMemory(Unused, reading) \in Metrics
           /\ SampleMemory(m, reading) = Join(m, SampleMemory(Unused, reading))
<1>1. SampleMemory(Unused, reading) = [Unused EXCEPT !.memory = reading]
  BY DEF SampleMemory, Greatest, Unused
<1>2. [Unused EXCEPT !.memory = reading] \in Metrics
  BY UnusedType DEF Metrics
<1>. DEFINE d == [Unused EXCEPT !.memory = reading]
<1>3. /\ d.memory = reading /\ d.maxima = Unused.maxima /\ d.sums = Unused.sums
      /\ d.latency = Unused.latency /\ d.statusCodeCounts = Unused.statusCodeCounts
  BY DEF Unused
<1>4. Join(m, d) = [m EXCEPT !.memory = Greatest(m.memory, reading)]
  <2>. HIDE DEF d
  <2>. QED
    BY <1>3, NothingAdded DEF Join, Metrics
<1>5. SampleMemory(m, reading) = [m EXCEPT !.memory = Greatest(m.memory, reading)]
  BY DEF SampleMemory
<1>. QED
  BY <1>1, <1>2, <1>4, <1>5

\* Events by what they carry.
LEMMA EventKinds ==
    ASSUME NEW e \in AnyEvent
    PROVE  \/ e.op = "response" /\ e.status \in StatusCode /\ e.ms \in Latency
           \/ e.op = "message" /\ e.ms \in Latency /\ e.bytes \in Nat
           \/ e.op = "requests" /\ e.n \in Nat /\ e.bytes \in Nat
           \/ e.op = "send" /\ e.bytes \in Nat
           \/ e.op \in {"aborted", "dropped", "buffered", "bytes"} /\ e.n \in Nat
           \/ e.op \in {"write", "connection", "timeout", "protocol", "backpressure"}
           \/ e.op \in {"wait", "lag"} /\ e.ms \in Nat
           \/ e.op = "memory" /\ e.usage \in [MemoryKeys -> Nat]
<1>1. ASSUME NEW x \in Event("http1")
      PROVE  \/ x.op = "response" /\ x.status \in StatusCode /\ x.ms \in Latency
             \/ x.op = "requests" /\ x.n \in Nat /\ x.bytes \in Nat
             \/ x.op \in {"write", "timeout", "backpressure"}
             \/ x.op = "bytes" /\ x.n \in Nat
             \/ x.op = "wait" /\ x.ms \in Nat
             \/ x.op = "memory" /\ x.usage \in [MemoryKeys -> Nat]
  <2>1. \/ x \in [op : {"memory"}, usage : Usage]
        \/ x \in [op : {"response"}, status : StatusCode, ms : Latency]
        \/ x \in [op : {"requests"}, n : Nat, bytes : Nat]
        \/ x \in [op : {"write", "backpressure", "timeout"}]
        \/ x \in [op : {"bytes"}, n : Nat]
        \/ x \in [op : {"wait"}, ms : Nat]
    BY <1>1 DEF Event
  <2>. QED
    BY <2>1 DEF Usage
<1>2. ASSUME NEW x \in Event("websocket")
      PROVE  \/ x.op = "message" /\ x.ms \in Latency /\ x.bytes \in Nat
             \/ x.op = "send" /\ x.bytes \in Nat
             \/ x.op \in {"aborted", "dropped", "buffered"} /\ x.n \in Nat
             \/ x.op \in {"connection", "protocol"}
             \/ x.op = "lag" /\ x.ms \in Nat
             \/ x.op = "memory" /\ x.usage \in [MemoryKeys -> Nat]
  <2>1. \/ x \in [op : {"memory"}, usage : Usage]
        \/ x \in [op : {"message"}, ms : Latency, bytes : Nat]
        \/ x \in [op : {"send"}, bytes : Nat]
        \/ x \in [op : {"connection", "protocol"}]
        \/ x \in [op : {"aborted", "dropped", "buffered"}, n : Nat]
        \/ x \in [op : {"lag"}, ms : Nat]
    BY <1>2 DEF Event
  <2>. QED
    BY <2>1 DEF Usage
<1>3. e \in Event("http1") \/ e \in Event("websocket")
  BY DEF AnyEvent
<1>. HIDE DEF Event
<1>. QED
  BY <1>1, <1>2, <1>3

\* Every record* method of a measurement joins it with what it records alone:
\* recordCompleted,
LEMMA CompletedJoins ==
    ASSUME NEW m \in Metrics, NEW ms \in Latency, NEW bytes \in Nat
    PROVE  /\ RecordCompleted(Unused, ms, bytes) \in Metrics
           /\ RecordCompleted(m, ms, bytes) = Join(m, RecordCompleted(Unused, ms, bytes))
<1>. DEFINE a == [completed |-> 1, bytesReceived |-> bytes]
<1>1. DOMAIN a \subseteq Sums /\ \A k \in DOMAIN a : a[k] \in Nat
  BY DEF Sums
<1>2. \A x : RecordCompleted(x, ms, bytes) = Timing(Add(x, a), ms)
  BY DEF RecordCompleted, Timing
<1>. HIDE DEF a
<1>. DEFINE A == Add(Unused, a)
            T == Timing(Unused, ms)
<1>3. A \in Metrics /\ Add(m, a) = Join(m, A)
  BY <1>1, AddJoins
<1>. HIDE DEF A
<1>4. Join(m, A) \in Metrics
  BY <1>3, JoinType
<1>5. /\ T \in Metrics /\ Timing(A, ms) = Join(A, T)
      /\ Timing(Join(m, A), ms) = Join(Join(m, A), T)
  BY <1>3, <1>4, TimingJoins
<1>. HIDE DEF T
<1>6. Join(A, T) \in Metrics /\ Join(Join(m, A), T) = Join(m, Join(A, T))
  BY <1>3, <1>5, JoinType, JoinAssociative
<1>. QED
  BY <1>2, <1>3, <1>5, <1>6 DEF A

\* recordResponse,
LEMMA ResponseJoins ==
    ASSUME NEW m \in Metrics, NEW ms \in Latency, NEW status \in StatusCode
    PROVE  /\ RecordResponse(Unused, status, ms) \in Metrics
           /\ RecordResponse(m, status, ms) = Join(m, RecordResponse(Unused, status, ms))
<1>. DEFINE a == [non2xx |-> IF status \in 200 .. 299 THEN 0 ELSE 1]
<1>1. DOMAIN a \subseteq Sums /\ \A k \in DOMAIN a : a[k] \in Nat
  BY DEF Sums
<1>2. \A x : RecordResponse(x, status, ms) = RecordCompleted(Answered(Add(x, a), status), ms, 0)
  BY DEF RecordResponse, Answered
<1>. HIDE DEF a
<1>. DEFINE A == Add(Unused, a)
            S == Answered(Unused, status)
            C == RecordCompleted(Unused, ms, 0)
<1>3. A \in Metrics /\ Add(m, a) = Join(m, A)
  BY <1>1, AddJoins
<1>. HIDE DEF A
<1>4. Join(m, A) \in Metrics
  BY <1>3, JoinType
<1>5. /\ S \in Metrics /\ Answered(A, status) = Join(A, S)
      /\ Answered(Join(m, A), status) = Join(Join(m, A), S)
  BY <1>3, <1>4, AnsweredJoins
<1>. HIDE DEF S
<1>6. Join(A, S) \in Metrics /\ Join(Join(m, A), S) = Join(m, Join(A, S))
  BY <1>3, <1>5, JoinType, JoinAssociative
<1>7. Join(m, Join(A, S)) \in Metrics
  BY <1>6, JoinType
<1>8. /\ C \in Metrics /\ RecordCompleted(Join(A, S), ms, 0) = Join(Join(A, S), C)
      /\ RecordCompleted(Join(m, Join(A, S)), ms, 0) = Join(Join(m, Join(A, S)), C)
  BY <1>6, <1>7, CompletedJoins
<1>. HIDE DEF C
<1>9. Join(Join(A, S), C) \in Metrics /\ Join(Join(m, Join(A, S)), C) = Join(m, Join(Join(A, S), C))
  BY <1>6, <1>8, JoinType, JoinAssociative
<1>. QED
  BY <1>2, <1>3, <1>5, <1>6, <1>8, <1>9 DEF A

\* and recordScheduleLag.
LEMMA LagJoins ==
    ASSUME NEW m \in Metrics, NEW ms \in Nat
    PROVE  /\ RecordScheduleLag(Unused, ms) \in Metrics
           /\ RecordScheduleLag(m, ms) = Join(m, RecordScheduleLag(Unused, ms))
<1>. DEFINE a == [scheduleLagTotalMs |-> ms, scheduledOperations |-> 1]
<1>1. DOMAIN a \subseteq Sums /\ \A k \in DOMAIN a : a[k] \in Nat
  BY DEF Sums
<1>2. \A x : RecordScheduleLag(x, ms) = Raise(Add(x, a), "maxScheduleLagMs", ms)
  BY DEF RecordScheduleLag
<1>. HIDE DEF a
<1>. DEFINE A == Add(Unused, a)
            T == Raise(Unused, "maxScheduleLagMs", ms)
<1>3. A \in Metrics /\ Add(m, a) = Join(m, A)
  BY <1>1, AddJoins
<1>. HIDE DEF A
<1>4. Join(m, A) \in Metrics
  BY <1>3, JoinType
<1>5. /\ T \in Metrics /\ Raise(A, "maxScheduleLagMs", ms) = Join(A, T)
      /\ Raise(Join(m, A), "maxScheduleLagMs", ms) = Join(Join(m, A), T)
  <2>1. "maxScheduleLagMs" \in Maxima
    BY DEF Maxima
  <2>. QED
    BY <1>3, <1>4, <2>1, RaiseJoins
<1>. HIDE DEF T
<1>6. Join(A, T) \in Metrics /\ Join(Join(m, A), T) = Join(m, Join(A, T))
  BY <1>3, <1>5, JoinType, JoinAssociative
<1>. QED
  BY <1>2, <1>3, <1>5, <1>6 DEF A

\* An event adds to a measurement what it adds to an unused one.
LEMMA ApplyJoins ==
    ASSUME NEW m \in Metrics, NEW e \in AnyEvent
    PROVE  Apply(Unused, e) \in Metrics /\ Apply(m, e) = Join(m, Apply(Unused, e))
<1>1. CASE e.op = "response" /\ e.status \in StatusCode /\ e.ms \in Latency
  <2>1. \A x : Apply(x, e) = RecordResponse(x, e.status, e.ms)
    BY <1>1 DEF Apply
  <2>. QED
    BY <1>1, <2>1, ResponseJoins
<1>2. CASE e.op = "message" /\ e.ms \in Latency /\ e.bytes \in Nat
  <2>1. \A x : Apply(x, e) = RecordCompleted(x, e.ms, e.bytes)
    BY <1>2 DEF Apply
  <2>. QED
    BY <1>2, <2>1, CompletedJoins
<1>3. ASSUME NEW a, DOMAIN a \subseteq Sums, \A k \in DOMAIN a : a[k] \in Nat,
             \A x : Apply(x, e) = Add(x, a)
      PROVE  Apply(Unused, e) \in Metrics /\ Apply(m, e) = Join(m, Apply(Unused, e))
  BY <1>3, AddJoins
<1>4. CASE e.op = "requests" /\ e.n \in Nat /\ e.bytes \in Nat
  <2>. DEFINE a == [sent |-> e.n, bytesSent |-> e.bytes, sendCalls |-> 0]
  <2>1. \A x : Apply(x, e) = Add(x, a)
    BY <1>4 DEF Apply, RecordSent
  <2>2. DOMAIN a \subseteq Sums /\ \A k \in DOMAIN a : a[k] \in Nat
    BY <1>4 DEF Sums
  <2>. HIDE DEF a
  <2>. QED
    BY <1>3, <2>1, <2>2
<1>5. CASE e.op = "send" /\ e.bytes \in Nat
  <2>. DEFINE a == [sent |-> 1, bytesSent |-> e.bytes, sendCalls |-> 1]
  <2>1. \A x : Apply(x, e) = Add(x, a)
    BY <1>5 DEF Apply, RecordSent
  <2>2. DOMAIN a \subseteq Sums /\ \A k \in DOMAIN a : a[k] \in Nat
    BY <1>5 DEF Sums
  <2>. HIDE DEF a
  <2>. QED
    BY <1>3, <2>1, <2>2
<1>6. CASE e.op = "write"
  <2>. DEFINE a == [sendCalls |-> 1]
  <2>1. \A x : Apply(x, e) = Add(x, a)
    BY <1>6 DEF Apply
  <2>2. DOMAIN a \subseteq Sums /\ \A k \in DOMAIN a : a[k] \in Nat
    BY DEF Sums
  <2>. HIDE DEF a
  <2>. QED
    BY <1>3, <2>1, <2>2
<1>7. CASE e.op = "bytes" /\ e.n \in Nat
  <2>. DEFINE a == [bytesReceived |-> e.n]
  <2>1. \A x : Apply(x, e) = Add(x, a)
    BY <1>7 DEF Apply
  <2>2. DOMAIN a \subseteq Sums /\ \A k \in DOMAIN a : a[k] \in Nat
    BY <1>7 DEF Sums
  <2>. HIDE DEF a
  <2>. QED
    BY <1>3, <2>1, <2>2
<1>8. CASE e.op = "buffered" /\ e.n \in Nat
  <2>1. \A x : Apply(x, e) = Raise(x, "bufferedAmountPeakBytes", e.n)
    BY <1>8 DEF Apply
  <2>2. "bufferedAmountPeakBytes" \in Maxima
    BY DEF Maxima
  <2>. QED
    BY <1>8, <2>1, <2>2, RaiseJoins
<1>9. CASE e.op = "connection"
  <2>. DEFINE a == [connection |-> 1]
  <2>1. \A x : Apply(x, e) = Add(x, a)
    BY <1>9 DEF Apply
  <2>2. DOMAIN a \subseteq Sums /\ \A k \in DOMAIN a : a[k] \in Nat
    BY DEF Sums
  <2>. HIDE DEF a
  <2>. QED
    BY <1>3, <2>1, <2>2
<1>10. CASE e.op = "timeout"
  <2>. DEFINE a == [timeout |-> 1]
  <2>1. \A x : Apply(x, e) = Add(x, a)
    BY <1>10 DEF Apply
  <2>2. DOMAIN a \subseteq Sums /\ \A k \in DOMAIN a : a[k] \in Nat
    BY DEF Sums
  <2>. HIDE DEF a
  <2>. QED
    BY <1>3, <2>1, <2>2
<1>11. CASE e.op = "protocol"
  <2>. DEFINE a == [protocol |-> 1]
  <2>1. \A x : Apply(x, e) = Add(x, a)
    BY <1>11 DEF Apply
  <2>2. DOMAIN a \subseteq Sums /\ \A k \in DOMAIN a : a[k] \in Nat
    BY DEF Sums
  <2>. HIDE DEF a
  <2>. QED
    BY <1>3, <2>1, <2>2
<1>12. CASE e.op = "aborted" /\ e.n \in Nat
  <2>. DEFINE a == [aborted |-> e.n]
  <2>1. \A x : Apply(x, e) = Add(x, a)
    BY <1>12 DEF Apply
  <2>2. DOMAIN a \subseteq Sums /\ \A k \in DOMAIN a : a[k] \in Nat
    BY <1>12 DEF Sums
  <2>. HIDE DEF a
  <2>. QED
    BY <1>3, <2>1, <2>2
<1>13. CASE e.op = "backpressure"
  <2>. DEFINE a == [backpressureEvents |-> 1]
  <2>1. \A x : Apply(x, e) = Add(x, a)
    BY <1>13 DEF Apply
  <2>2. DOMAIN a \subseteq Sums /\ \A k \in DOMAIN a : a[k] \in Nat
    BY DEF Sums
  <2>. HIDE DEF a
  <2>. QED
    BY <1>3, <2>1, <2>2
<1>14. CASE e.op = "wait" /\ e.ms \in Nat
  <2>. DEFINE a == [backpressureWaitMs |-> e.ms]
  <2>1. \A x : Apply(x, e) = Add(x, a)
    BY <1>14 DEF Apply
  <2>2. DOMAIN a \subseteq Sums /\ \A k \in DOMAIN a : a[k] \in Nat
    BY <1>14 DEF Sums
  <2>. HIDE DEF a
  <2>. QED
    BY <1>3, <2>1, <2>2
<1>15. CASE e.op = "dropped" /\ e.n \in Nat
  <2>. DEFINE a == [rateDropped |-> e.n]
  <2>1. \A x : Apply(x, e) = Add(x, a)
    BY <1>15 DEF Apply
  <2>2. DOMAIN a \subseteq Sums /\ \A k \in DOMAIN a : a[k] \in Nat
    BY <1>15 DEF Sums
  <2>. HIDE DEF a
  <2>. QED
    BY <1>3, <2>1, <2>2
<1>16. CASE e.op = "lag" /\ e.ms \in Nat
  <2>1. \A x : Apply(x, e) = RecordScheduleLag(x, e.ms)
    BY <1>16 DEF Apply
  <2>. QED
    BY <1>16, <2>1, LagJoins
<1>17. CASE e.op = "memory" /\ e.usage \in [MemoryKeys -> Nat]
  <2>1. \A x : Apply(x, e) = SampleMemory(x, e.usage)
    BY <1>17 DEF Apply
  <2>. QED
    BY <1>17, <2>1, SampleJoins
<1>. QED
  BY <1>1, <1>2, <1>4, <1>5, <1>6, <1>7, <1>8, <1>9, <1>10, <1>11, <1>12, <1>13, <1>14, <1>15,
     <1>16, <1>17, EventKinds

\* What one event records: an operation is completed with a latency, and perhaps
\* a status, or there is neither; a sample of memory is kept.
Recorded(d, e) ==
    /\ d.latency = IF e.op \in {"response", "message"} THEN Record(EmptyHistogram, e.ms) ELSE EmptyHistogram
    /\ d.sums["completed"] = IF e.op \in {"response", "message"} THEN 1 ELSE 0
    /\ d.sums["non2xx"] = IF e.op = "response" /\ e.status \notin 200 .. 299 THEN 1 ELSE 0
    /\ d.statusCodeCounts = [s \in StatusCode |-> IF e.op = "response" /\ s = e.status THEN 1 ELSE 0]
    /\ d.memory = IF e.op = "memory" THEN e.usage ELSE [k \in MemoryKeys |-> 0]

\* That is what every event adds.
LEMMA ApplyRecords ==
    ASSUME NEW e \in AnyEvent
    PROVE  Recorded(Apply(Unused, e), e)
<1>. DEFINE d == Apply(Unused, e)
<1>. SUFFICES Recorded(d, e)
  OBVIOUS
<1>0. /\ Unused.latency = EmptyHistogram /\ Unused.sums = [k \in Sums |-> 0]
      /\ Unused.statusCodeCounts = [s \in StatusCode |-> 0] /\ Unused.memory = [k \in MemoryKeys |-> 0]
      /\ "completed" \in Sums /\ "non2xx" \in Sums
  BY DEF Unused, Sums
<1>1. CASE e.op = "response" /\ e.status \in StatusCode /\ e.ms \in Latency
  <2>. DEFINE a == [non2xx |-> IF e.status \in 200 .. 299 THEN 0 ELSE 1]
              c == [completed |-> 1, bytesReceived |-> 0]
              A == Answered(Add(Unused, a), e.status)
  <2>1. d = Timing(Add(A, c), e.ms)
    BY <1>1 DEF Apply, RecordResponse, RecordCompleted, Timing, Answered
  <2>2. A.sums = Add(Unused, a).sums /\ A.latency = EmptyHistogram /\ A.memory = Unused.memory
    BY <1>0 DEF Answered, Add, Unused
  <2>3. A.statusCodeCounts = [Unused.statusCodeCounts EXCEPT ![e.status] = @ + 1]
    BY DEF Answered, Add, Unused
  <2>4. Add(Unused, a).sums["completed"] = 0 /\ Add(Unused, a).sums["non2xx"] = a["non2xx"]
    BY <1>0 DEF Add, Unused
  <2>. HIDE DEF A, a
  <2>5. /\ Add(A, c).sums["completed"] = A.sums["completed"] + 1
        /\ Add(A, c).sums["non2xx"] = A.sums["non2xx"]
        /\ Add(A, c).latency = A.latency /\ Add(A, c).memory = A.memory
        /\ Add(A, c).statusCodeCounts = A.statusCodeCounts
    <3>0. A \in Metrics
      <4>1. Add(Unused, a) \in Metrics
        <5>1. DOMAIN a \subseteq Sums /\ \A k \in DOMAIN a : a[k] \in Nat
          BY DEF a, Sums
        <5>. QED
          BY <5>1, UnusedType, AddJoins
      <4>2. Join(Add(Unused, a), Answered(Unused, e.status)) \in Metrics
        BY <1>1, <4>1, UnusedType, AnsweredJoins, JoinType
      <4>. QED
        BY <1>1, <4>1, <4>2, AnsweredJoins DEF A
    <3>. QED
      BY <1>0, <3>0 DEF Add, Metrics
  <2>. DEFINE B == Add(A, c)
  <2>. HIDE DEF B
  <2>6. /\ d.sums = B.sums /\ d.memory = B.memory
        /\ d.statusCodeCounts = B.statusCodeCounts
    BY <2>1 DEF Timing, B
  <2>7. d.latency = Record(B.latency, e.ms)
    <3>1. B \in [sums : {B.sums}, maxima : {B.maxima}, latency : {B.latency},
                 statusCodeCounts : {B.statusCodeCounts}, memory : {B.memory}]
      BY DEF B, Add, A, Answered, Unused
    <3>. QED
      BY <2>1, <3>1 DEF Timing, B
  <2>. HIDE DEF d
  <2>8. d.statusCodeCounts = [s \in StatusCode |-> IF s = e.status THEN 1 ELSE 0]
    BY <1>0, <1>1, <2>3, <2>5, <2>6 DEF B
  <2>9. d.sums["completed"] = 1 /\ d.sums["non2xx"] = IF e.status \in 200 .. 299 THEN 0 ELSE 1
    BY <2>2, <2>4, <2>5, <2>6 DEF B, a
  <2>10. d.latency = Record(EmptyHistogram, e.ms) /\ d.memory = [k \in MemoryKeys |-> 0]
    BY <1>0, <2>2, <2>5, <2>6, <2>7 DEF B
  <2>. QED
    BY <1>1, <2>8, <2>9, <2>10 DEF Recorded, d
<1>2. CASE e.op = "message" /\ e.ms \in Latency
  <2>. DEFINE c == [completed |-> 1, bytesReceived |-> e.bytes]
              B == Add(Unused, c)
  <2>1. d = Timing(B, e.ms)
    BY <1>2 DEF Apply, RecordCompleted, Timing
  <2>2. /\ B.sums["completed"] = 1 /\ B.sums["non2xx"] = 0 /\ B.latency = EmptyHistogram
        /\ B.memory = Unused.memory /\ B.statusCodeCounts = Unused.statusCodeCounts
    BY <1>0 DEF Add, Unused
  <2>3. B \in [sums : {B.sums}, maxima : {B.maxima}, latency : {B.latency},
               statusCodeCounts : {B.statusCodeCounts}, memory : {B.memory}]
    BY DEF Add, Unused
  <2>. HIDE DEF B
  <2>4. /\ d.sums = B.sums /\ d.memory = B.memory /\ d.latency = Record(B.latency, e.ms)
        /\ d.statusCodeCounts = B.statusCodeCounts
    BY <2>1, <2>3 DEF Timing
  <2>5. d.statusCodeCounts = [s \in StatusCode |-> IF e.op = "response" /\ s = e.status THEN 1 ELSE 0]
    BY <1>0, <1>2, <2>2, <2>4
  <2>. HIDE DEF d
  <2>. QED
    BY <1>0, <1>2, <2>2, <2>4, <2>5 DEF Recorded, d
<1>3. ASSUME e.op \notin {"response", "message", "memory"},
             d.latency = EmptyHistogram, d.sums["completed"] = 0, d.sums["non2xx"] = 0,
             d.statusCodeCounts = [s \in StatusCode |-> 0], d.memory = [k \in MemoryKeys |-> 0]
      PROVE  Recorded(d, e)
  <2>1. [s \in StatusCode |-> 0] = [s \in StatusCode |-> IF e.op = "response" /\ s = e.status THEN 1 ELSE 0]
    BY <1>3
  <2>. HIDE DEF d
  <2>. QED
    BY <1>3, <2>1 DEF Recorded
<1>4. ASSUME NEW a, DOMAIN a \subseteq Sums, "completed" \notin DOMAIN a, "non2xx" \notin DOMAIN a, d = Add(Unused, a),
             e.op \notin {"response", "message", "memory"}
      PROVE  Recorded(d, e)
  <2>1. /\ d.latency = EmptyHistogram /\ d.sums["completed"] = 0 /\ d.sums["non2xx"] = 0
        /\ d.statusCodeCounts = [s \in StatusCode |-> 0] /\ d.memory = [k \in MemoryKeys |-> 0]
    BY <1>0, <1>4 DEF Add, Unused
  <2>. HIDE DEF d
  <2>. QED
    BY <1>3, <1>4, <2>1
<1>5. CASE e.op = "requests"
  <2>. DEFINE a == [sent |-> e.n, bytesSent |-> e.bytes, sendCalls |-> 0]
  <2>1. d = Add(Unused, a)
    BY <1>5 DEF Apply, RecordSent
  <2>2. DOMAIN a \subseteq Sums /\ "completed" \notin DOMAIN a /\ "non2xx" \notin DOMAIN a
    BY DEF Sums
  <2>. HIDE DEF a, d
  <2>. QED
    BY <1>4, <1>5, <2>1, <2>2
<1>6. CASE e.op = "send"
  <2>. DEFINE a == [sent |-> 1, bytesSent |-> e.bytes, sendCalls |-> 1]
  <2>1. d = Add(Unused, a)
    BY <1>6 DEF Apply, RecordSent
  <2>2. DOMAIN a \subseteq Sums /\ "completed" \notin DOMAIN a /\ "non2xx" \notin DOMAIN a
    BY DEF Sums
  <2>. HIDE DEF a, d
  <2>. QED
    BY <1>4, <1>6, <2>1, <2>2
<1>7. CASE e.op = "write"
  <2>. DEFINE a == [sendCalls |-> 1]
  <2>1. d = Add(Unused, a)
    BY <1>7 DEF Apply
  <2>2. DOMAIN a \subseteq Sums /\ "completed" \notin DOMAIN a /\ "non2xx" \notin DOMAIN a
    BY DEF Sums
  <2>. HIDE DEF a, d
  <2>. QED
    BY <1>4, <1>7, <2>1, <2>2
<1>8. CASE e.op = "bytes"
  <2>. DEFINE a == [bytesReceived |-> e.n]
  <2>1. d = Add(Unused, a)
    BY <1>8 DEF Apply
  <2>2. DOMAIN a \subseteq Sums /\ "completed" \notin DOMAIN a /\ "non2xx" \notin DOMAIN a
    BY DEF Sums
  <2>. HIDE DEF a, d
  <2>. QED
    BY <1>4, <1>8, <2>1, <2>2
<1>9. CASE e.op = "connection"
  <2>. DEFINE a == [connection |-> 1]
  <2>1. d = Add(Unused, a)
    BY <1>9 DEF Apply
  <2>2. DOMAIN a \subseteq Sums /\ "completed" \notin DOMAIN a /\ "non2xx" \notin DOMAIN a
    BY DEF Sums
  <2>. HIDE DEF a, d
  <2>. QED
    BY <1>4, <1>9, <2>1, <2>2
<1>10. CASE e.op = "timeout"
  <2>. DEFINE a == [timeout |-> 1]
  <2>1. d = Add(Unused, a)
    BY <1>10 DEF Apply
  <2>2. DOMAIN a \subseteq Sums /\ "completed" \notin DOMAIN a /\ "non2xx" \notin DOMAIN a
    BY DEF Sums
  <2>. HIDE DEF a, d
  <2>. QED
    BY <1>4, <1>10, <2>1, <2>2
<1>11. CASE e.op = "protocol"
  <2>. DEFINE a == [protocol |-> 1]
  <2>1. d = Add(Unused, a)
    BY <1>11 DEF Apply
  <2>2. DOMAIN a \subseteq Sums /\ "completed" \notin DOMAIN a /\ "non2xx" \notin DOMAIN a
    BY DEF Sums
  <2>. HIDE DEF a, d
  <2>. QED
    BY <1>4, <1>11, <2>1, <2>2
<1>12. CASE e.op = "aborted"
  <2>. DEFINE a == [aborted |-> e.n]
  <2>1. d = Add(Unused, a)
    BY <1>12 DEF Apply
  <2>2. DOMAIN a \subseteq Sums /\ "completed" \notin DOMAIN a /\ "non2xx" \notin DOMAIN a
    BY DEF Sums
  <2>. HIDE DEF a, d
  <2>. QED
    BY <1>4, <1>12, <2>1, <2>2
<1>13. CASE e.op = "backpressure"
  <2>. DEFINE a == [backpressureEvents |-> 1]
  <2>1. d = Add(Unused, a)
    BY <1>13 DEF Apply
  <2>2. DOMAIN a \subseteq Sums /\ "completed" \notin DOMAIN a /\ "non2xx" \notin DOMAIN a
    BY DEF Sums
  <2>. HIDE DEF a, d
  <2>. QED
    BY <1>4, <1>13, <2>1, <2>2
<1>14. CASE e.op = "wait"
  <2>. DEFINE a == [backpressureWaitMs |-> e.ms]
  <2>1. d = Add(Unused, a)
    BY <1>14 DEF Apply
  <2>2. DOMAIN a \subseteq Sums /\ "completed" \notin DOMAIN a /\ "non2xx" \notin DOMAIN a
    BY DEF Sums
  <2>. HIDE DEF a, d
  <2>. QED
    BY <1>4, <1>14, <2>1, <2>2
<1>15. CASE e.op = "dropped"
  <2>. DEFINE a == [rateDropped |-> e.n]
  <2>1. d = Add(Unused, a)
    BY <1>15 DEF Apply
  <2>2. DOMAIN a \subseteq Sums /\ "completed" \notin DOMAIN a /\ "non2xx" \notin DOMAIN a
    BY DEF Sums
  <2>. HIDE DEF a, d
  <2>. QED
    BY <1>4, <1>15, <2>1, <2>2
<1>16. CASE e.op = "buffered"
  <2>1. d = [Unused EXCEPT !.maxima["bufferedAmountPeakBytes"] = IF @ < e.n THEN e.n ELSE @]
    BY <1>16 DEF Apply, Raise
  <2>2. /\ d.latency = EmptyHistogram /\ d.sums["completed"] = 0 /\ d.sums["non2xx"] = 0
        /\ d.statusCodeCounts = [s \in StatusCode |-> 0] /\ d.memory = [k \in MemoryKeys |-> 0]
    BY <1>0, <2>1 DEF Unused
  <2>. HIDE DEF d
  <2>. QED
    BY <1>3, <1>16, <2>2
<1>17. CASE e.op = "lag"
  <2>. DEFINE a == [scheduleLagTotalMs |-> e.ms, scheduledOperations |-> 1]
              B == Add(Unused, a)
  <2>1. d = [B EXCEPT !.maxima["maxScheduleLagMs"] = IF @ < e.ms THEN e.ms ELSE @]
    BY <1>17 DEF Apply, RecordScheduleLag, Raise
  <2>2. /\ B.latency = EmptyHistogram /\ B.sums["completed"] = 0 /\ B.sums["non2xx"] = 0
        /\ B.statusCodeCounts = [s \in StatusCode |-> 0] /\ B.memory = [k \in MemoryKeys |-> 0]
    BY <1>0 DEF Add, Unused
  <2>. HIDE DEF B
  <2>3. /\ d.latency = B.latency /\ d.sums = B.sums
        /\ d.statusCodeCounts = B.statusCodeCounts /\ d.memory = B.memory
    BY <2>1
  <2>. HIDE DEF d
  <2>. QED
    BY <1>3, <1>17, <2>2, <2>3
<1>18. CASE e.op = "memory" /\ e.usage \in [MemoryKeys -> Nat]
  <2>1. d = [Unused EXCEPT !.memory = Greatest(Unused.memory, e.usage)]
    BY <1>18 DEF Apply, SampleMemory
  <2>2. Greatest(Unused.memory, e.usage) = e.usage
    BY <1>18 DEF Greatest, Unused
  <2>3. /\ d.latency = EmptyHistogram /\ d.sums["completed"] = 0 /\ d.sums["non2xx"] = 0
        /\ d.statusCodeCounts = [s \in StatusCode |-> 0] /\ d.memory = e.usage
    BY <1>0, <2>1, <2>2 DEF Unused
  <2>4. d.statusCodeCounts = [s \in StatusCode |-> IF e.op = "response" /\ s = e.status THEN 1 ELSE 0]
    BY <1>18, <2>3
  <2>. HIDE DEF d
  <2>. QED
    BY <1>18, <2>3, <2>4 DEF Recorded
<1>. HIDE DEF d
<1>. QED
  BY <1>1, <1>2, <1>5, <1>6, <1>7, <1>8, <1>9, <1>10, <1>11, <1>12, <1>13, <1>14, <1>15,
     <1>16, <1>17, <1>18, EventKinds DEF d
--------------------------------------------------------------------------------
(* What a sequence of events adds up to *)

\* The measurements after each of the events, the last of them the replayed one.
Replay(run, events) ==
    /\ run \in [0 .. Len(events) -> Metrics]
    /\ run[0] = Unused
    /\ \A i \in 0 .. Len(events) - 1 : run[i + 1] = Apply(run[i], events[i + 1])

\* The fold of Apply goes through the measurements of a replay.
LEMMA ReplayExists ==
    ASSUME NEW events \in Seq(AnyEvent)
    PROVE  \E run : Replay(run, events) /\ Replayed(events) = run[Len(events)]
<1>. DEFINE n == Len(events)
            next == [p \in (1 .. n) \X Metrics |-> Apply(p[2], events[p[1]])]
            Fold(g) == g = [s \in SUBSET DOMAIN events |->
                              IF s = {} THEN Unused ELSE Apply(g[s \ {Max(s)}], events[Max(s)])]
<1>1. n \in Nat /\ DOMAIN events = 1 .. n /\ \A i \in 1 .. n : events[i] \in AnyEvent
  OBVIOUS
<1>. HIDE DEF n
<1>0. \A m \in Metrics, i \in 1 .. n : Apply(m, events[i]) \in Metrics
  <2>1. ASSUME NEW m \in Metrics, NEW i \in 1 .. n
        PROVE  Apply(m, events[i]) \in Metrics
    <3>1. events[i] \in AnyEvent
      BY <1>1
    <3>. QED
      BY <3>1, ApplyJoins, JoinType
  <2>. QED
    BY <2>1
<1>2. next \in [(1 .. n) \X Metrics -> Metrics]
  BY <1>0
<1>3. PICK g \in [SUBSET (1 .. n) -> Metrics] : Folding(g, n, Unused, next)
  <2>1. n \in Nat /\ Unused \in Metrics
    BY <1>1, UnusedType
  <2>. HIDE DEF next
  <2>. QED
    BY <1>2, <2>1, SequenceFold, Zenon
<1>4. Fold(g)
  <2>1. ASSUME NEW s \in SUBSET (1 .. n), s # {}
        PROVE  next[<<Max(s), g[s \ {Max(s)}]>>] = Apply(g[s \ {Max(s)}], events[Max(s)])
    <3>1. Max(s) \in s
      <4>1. s \in SUBSET Nat /\ \A i \in s : i <= n
        BY <1>1
      <4>. QED
        BY <1>1, <2>1, <4>1, MaxOfNaturals
    <3>. DEFINE x == Max(s)
                m == g[s \ {x}]
    <3>2. x \in 1 .. n /\ m \in Metrics
      BY <1>3, <2>1, <3>1
    <3>. HIDE DEF x, m
    <3>3. <<x, m>> \in (1 .. n) \X Metrics
      BY <3>2
    <3>4. next[<<x, m>>] = Apply(m, events[x])
      BY <3>3
    <3>. QED
      BY <3>4 DEF m, x
  <2>. HIDE DEF next
  <2>. QED
    BY <1>1, <1>3, <2>1 DEF Folding
<1>. DEFINE h == CHOOSE h : Fold(h)
<1>5. Fold(h)
  <2>. HIDE DEF Fold
  <2>. QED
    BY <1>4
<1>6. Replayed(events) = h[1 .. n]
  BY <1>1 DEF Replayed, FoldLeft, MapThenFoldSet
<1>. DEFINE run == [k \in 0 .. n |-> h[1 .. k]]
<1>7. run[0] = Unused
  <2>1. 1 .. 0 = {} /\ {} \in SUBSET DOMAIN events
    OBVIOUS
  <2>. HIDE DEF h
  <2>. QED
    BY <1>1, <1>5, <2>1
<1>8. ASSUME NEW k \in 0 .. n - 1
      PROVE  run[k + 1] = Apply(run[k], events[k + 1])
  <2>1. /\ 1 .. k + 1 \in SUBSET DOMAIN events /\ 1 .. k + 1 # {}
        /\ Max(1 .. k + 1) = k + 1 /\ (1 .. k + 1) \ {k + 1} = 1 .. k
    <3>1. k \in Nat /\ 1 .. k + 1 \in SUBSET DOMAIN events
      BY <1>1
    <3>. HIDE DEF run
    <3>2. 1 .. k + 1 # {} /\ Max(1 .. k + 1) = k + 1 /\ (1 .. k + 1) \ {k + 1} = 1 .. k
      BY <3>1, MaxOfPrefix
    <3>. QED
      BY <3>1, <3>2
  <2>. HIDE DEF h
  <2>2. h[1 .. k + 1] = Apply(h[1 .. k], events[k + 1])
    BY <1>5, <2>1
  <2>. QED
    BY <1>1, <2>2
<1>9. run \in [0 .. n -> Metrics]
  <2>. DEFINE S == {k \in 0 .. n : run[k] \in Metrics}
  <2>. HIDE DEF run
  <2>1. 0 \in S
    BY <1>1, <1>7, UnusedType
  <2>2. ASSUME NEW k \in 0 .. n - 1, k \in S
        PROVE  k + 1 \in S
    <3>1. k + 1 \in 1 .. n /\ run[k] \in Metrics
      BY <1>1, <2>2
    <3>. QED
      BY <1>0, <1>1, <1>8, <3>1
  <2>3. 0 .. n \subseteq S
    <3>. HIDE DEF S
    <3>. QED
      BY <1>1, <2>1, <2>2, BoundedInduction
  <2>. QED
    BY <2>3 DEF run
<1>10. Replayed(events) = run[n]
  BY <1>1, <1>6
<1>. HIDE DEF run
<1>. QED
  BY <1>7, <1>8, <1>9, <1>10 DEF Replay, n

\* It ends in a measurement,
LEMMA ReplayedType ==
    ASSUME NEW events \in Seq(AnyEvent)
    PROVE  Replayed(events) \in Metrics
<1>1. PICK run : Replay(run, events) /\ Replayed(events) = run[Len(events)]
  BY ReplayExists
<1>2. Len(events) \in Nat
  OBVIOUS
<1>. QED
  BY <1>1, <1>2 DEF Replay

\* in an unused one when nothing happened,
LEMMA ReplayedEmpty == Replayed(<<>>) = Unused
<1>1. <<>> \in Seq(AnyEvent) /\ Len(<<>>) = 0
  OBVIOUS
<1>2. PICK run : Replay(run, <<>>) /\ Replayed(<<>>) = run[0]
  BY <1>1, ReplayExists
<1>. QED
  BY <1>2 DEF Replay

\* Sequences replayed one after the other, and the two joined.
LEMMA ReplayedBoth ==
    ASSUME NEW s \in Seq(AnyEvent), NEW t \in Seq(AnyEvent)
    PROVE  Replayed(s \o t) = Join(Replayed(s), Replayed(t))
<1>. DEFINE n == Len(s)
            k == Len(t)
            both == s \o t
<1>1. /\ n \in Nat /\ k \in Nat /\ both \in Seq(AnyEvent) /\ Len(both) = n + k
      /\ \A i \in 1 .. n : both[i] = s[i]
      /\ \A i \in 1 .. k : both[n + i] = t[i] /\ t[i] \in AnyEvent
  OBVIOUS
<1>2. PICK f : Replay(f, s) /\ Replayed(s) = f[n]
  BY ReplayExists
<1>3. PICK g : Replay(g, t) /\ Replayed(t) = g[k]
  BY ReplayExists
<1>. HIDE DEF both
<1>4. PICK h : Replay(h, both) /\ Replayed(both) = h[n + k]
  BY <1>1, ReplayExists
<1>. HIDE DEF n, k
<1>5. h[n] = f[n]
  <2>. DEFINE S == {i \in 0 .. n : h[i] = f[i]}
  <2>1. 0 \in S
    BY <1>1, <1>2, <1>4 DEF Replay
  <2>2. ASSUME NEW i \in 0 .. n - 1, i \in S
        PROVE  i + 1 \in S
    <3>1. i \in 0 .. (n + k) - 1 /\ i + 1 \in 1 .. n /\ i + 1 \in 0 .. n
      BY <1>1
    <3>2. h[i + 1] = Apply(h[i], both[i + 1])
      BY <1>1, <1>4, <3>1 DEF Replay
    <3>3. f[i + 1] = Apply(f[i], s[i + 1])
      BY <1>2 DEF Replay, n
    <3>. QED
      BY <1>1, <2>2, <3>1, <3>2, <3>3
  <2>3. 0 .. n \subseteq S
    <3>. HIDE DEF S
    <3>. QED
      BY <1>1, <2>1, <2>2, BoundedInduction
  <2>. QED
    BY <1>1, <2>3
<1>6. f[n] \in Metrics /\ \A i \in 0 .. k : g[i] \in Metrics
  <2>1. f \in [0 .. n -> Metrics]
    BY <1>2 DEF Replay, n
  <2>2. g \in [0 .. k -> Metrics]
    BY <1>3 DEF Replay, k
  <2>3. n \in 0 .. n
    BY <1>1
  <2>4. f[n] \in Metrics
    BY <2>1, <2>3, Zenon
  <2>5. \A i \in 0 .. k : g[i] \in Metrics
    BY <2>2, Zenon
  <2>. QED
    BY <2>4, <2>5
<1>. DEFINE S == {i \in 0 .. k : h[n + i] = Join(f[n], g[i])}
<1>7. 0 \in S
  <2>1. g[0] = Unused /\ n + 0 = n
    BY <1>1, <1>3 DEF Replay
  <2>2. Join(f[n], Unused) = f[n]
    BY <1>6, JoinUnused
  <2>. QED
    BY <1>1, <1>5, <2>1, <2>2
<1>8. ASSUME NEW i \in 0 .. k - 1, i \in S
      PROVE  i + 1 \in S
  <2>. DEFINE e == t[i + 1]
              d == Apply(Unused, e)
  <2>1. n + i \in 0 .. (n + k) - 1 /\ (n + i) + 1 = n + (i + 1) /\ i + 1 \in 1 .. k /\ i \in 0 .. k
    BY <1>1
  <2>2. h[n + (i + 1)] = Apply(h[n + i], e)
    BY <1>1, <1>4, <2>1 DEF Replay
  <2>3. g[i + 1] = Apply(g[i], e)
    BY <1>3 DEF Replay, k
  <2>4. e \in AnyEvent
    BY <1>1, <2>1
  <2>5. h[n + i] = Join(f[n], g[i]) /\ g[i] \in Metrics /\ f[n] \in Metrics
    BY <1>6, <1>8, <2>1
  <2>. HIDE DEF e, S
  <2>6. Join(f[n], g[i]) \in Metrics
    BY <2>5, JoinType
  <2>7. /\ d \in Metrics /\ Apply(g[i], e) = Join(g[i], d)
        /\ Apply(Join(f[n], g[i]), e) = Join(Join(f[n], g[i]), d)
    BY <2>4, <2>5, <2>6, ApplyJoins
  <2>. HIDE DEF d
  <2>8. Join(Join(f[n], g[i]), d) = Join(f[n], Join(g[i], d))
    BY <2>5, <2>7, JoinAssociative
  <2>9. h[n + (i + 1)] = Join(f[n], g[i + 1])
    BY <2>2, <2>3, <2>5, <2>7, <2>8
  <2>. QED
    BY <1>1, <2>1, <2>9 DEF S
<1>9. 0 .. k \subseteq S
  <2>. HIDE DEF S
  <2>. QED
    BY <1>1, <1>7, <1>8, BoundedInduction
<1>10. h[n + k] = Join(f[n], g[k])
  BY <1>1, <1>9
<1>. QED
  BY <1>2, <1>3, <1>4, <1>10 DEF both

\* One event adds what it records alone,
LEMMA ReplayedOne ==
    ASSUME NEW e \in AnyEvent
    PROVE  Replayed(<<e>>) = Apply(Unused, e)
<1>1. <<e>> \in Seq(AnyEvent) /\ Len(<<e>>) = 1 /\ <<e>>[1] = e
  OBVIOUS
<1>2. PICK run : Replay(run, <<e>>) /\ Replayed(<<e>>) = run[1]
  BY <1>1, ReplayExists
<1>3. run[0] = Unused /\ run[0 + 1] = Apply(run[0], <<e>>[0 + 1])
  BY <1>1, <1>2 DEF Replay
<1>. QED
  BY <1>1, <1>2, <1>3

\* An event more.
LEMMA ReplayedAppend ==
    ASSUME NEW s \in Seq(AnyEvent), NEW e \in AnyEvent
    PROVE  Replayed(Append(s, e)) = Apply(Replayed(s), e)
<1>1. <<e>> \in Seq(AnyEvent) /\ Append(s, e) = s \o <<e>>
  OBVIOUS
<1>2. Replayed(s \o <<e>>) = Join(Replayed(s), Apply(Unused, e))
  BY <1>1, ReplayedBoth, ReplayedOne
<1>3. Replayed(s) \in Metrics
  BY ReplayedType
<1>. QED
  BY <1>1, <1>2, <1>3, ApplyJoins
--------------------------------------------------------------------------------
(* Folds over the workers *)

\* The greatest value of a function, so far.
Larger(a, b) == IF a < b THEN b ELSE a

LEMMA MaxOverFold ==
    ASSUME NEW S, IsFiniteSet(S), NEW f \in [S -> Nat]
    PROVE  \E h \in [SUBSET S -> Nat] :
              /\ h[{}] = 0
              /\ \A s \in SUBSET S : s # {} => h[s] = Larger(f[Chosen(s)], h[s \ {Chosen(s)}])
              /\ MaxOver(f) = h[S]
<1>. DEFINE next == [p \in S \X Nat |-> Larger(f[p[1]], p[2])]
            Fold(g) == g = [s \in SUBSET S |->
                              IF s = {} THEN 0 ELSE Larger(f[Chosen(s)], g[s \ {Chosen(s)}])]
<1>1. next \in [S \X Nat -> Nat]
  BY DEF Larger
<1>2. PICK g : Collects(g, S, Nat, 0, next)
  <2>1. 0 \in Nat
    OBVIOUS
  <2>. HIDE DEF next
  <2>. QED
    BY <1>1, <2>1, ChosenFold, Zenon
<1>3. ASSUME NEW s \in SUBSET S, s # {}
      PROVE  g[s] = Larger(f[Chosen(s)], g[s \ {Chosen(s)}])
  <2>. DEFINE x == Chosen(s)
              y == g[s \ {x}]
  <2>1. x \in S /\ y \in Nat /\ g[s] = next[<<x, y>>]
    BY <1>2, <1>3 DEF Collects
  <2>. HIDE DEF x, y
  <2>2. <<x, y>> \in S \X Nat
    BY <2>1
  <2>3. next[<<x, y>>] = Larger(f[x], y)
    BY <2>2
  <2>. QED
    BY <2>1, <2>3 DEF x, y
<1>4. Fold(g)
  BY <1>2, <1>3 DEF Collects
<1>. DEFINE h == CHOOSE h : Fold(h)
<1>5. Fold(h)
  <2>. HIDE DEF Fold
  <2>. QED
    BY <1>4
<1>6. MaxOver(f) = h[S]
  BY DEF MaxOver, FoldFunction, FoldFunctionOnSet, MapThenFoldSet, Larger, Chosen
<1>. HIDE DEF h
<1>7. h[{}] = 0 /\ \A s \in SUBSET S : s # {} => h[s] = Larger(f[Chosen(s)], h[s \ {Chosen(s)}])
  BY <1>5
<1>8. h \in [SUBSET S -> Nat]
  <2>. DEFINE P == {s \in SUBSET S : h[s] \in Nat}
  <2>1. {} \in P
    BY <1>7
  <2>2. ASSUME NEW s \in SUBSET S, s # {}, \A x \in s : s \ {x} \in P
        PROVE  s \in P
    <3>. DEFINE x == Chosen(s)
    <3>1. x \in s /\ x \in S
      BY <2>2 DEF Chosen
    <3>2. h[s] = Larger(f[x], h[s \ {x}])
      BY <1>7, <2>2
    <3>. HIDE DEF x
    <3>. QED
      BY <2>2, <3>1, <3>2 DEF Larger
  <2>3. SUBSET S \subseteq P
    <3>. HIDE DEF P
    <3>. QED
      BY <2>1, <2>2, SetInduction
  <2>. QED
    BY <1>5, <2>3
<1>. QED
  BY <1>6, <1>7, <1>8

\* The merged histograms, so far.
LEMMA MergedFold ==
    ASSUME NEW S, IsFiniteSet(S), NEW f, DOMAIN f = S, \A x \in S : f[x].latency \in Histogram
    PROVE  \E h \in [SUBSET S -> Histogram] :
              /\ h[{}] = EmptyHistogram
              /\ \A s \in SUBSET S : s # {} => h[s] = Merge(h[s \ {Chosen(s)}], f[Chosen(s)].latency)
              /\ Merged(f) = h[S]
<1>. DEFINE next == [p \in S \X Histogram |-> Merge(p[2], f[p[1]].latency)]
            Fold(g) == g = [s \in SUBSET S |->
                              IF s = {} THEN EmptyHistogram
                              ELSE Merge(g[s \ {Chosen(s)}], f[Chosen(s)].latency)]
<1>1. next \in [S \X Histogram -> Histogram]
  BY MergeType
<1>2. PICK g : Collects(g, S, Histogram, EmptyHistogram, next)
  <2>1. EmptyHistogram \in Histogram
    BY UnusedType
  <2>. HIDE DEF next
  <2>. QED
    BY <1>1, <2>1, ChosenFold, Zenon
<1>3. ASSUME NEW s \in SUBSET S, s # {}
      PROVE  g[s] = Merge(g[s \ {Chosen(s)}], f[Chosen(s)].latency)
  <2>. DEFINE x == Chosen(s)
              y == g[s \ {x}]
  <2>1. x \in S /\ y \in Histogram /\ g[s] = next[<<x, y>>]
    BY <1>2, <1>3 DEF Collects
  <2>. HIDE DEF x, y
  <2>2. <<x, y>> \in S \X Histogram
    BY <2>1
  <2>3. next[<<x, y>>] = Merge(y, f[x].latency)
    BY <2>2
  <2>. QED
    BY <2>1, <2>3 DEF x, y
<1>4. Fold(g)
  BY <1>2, <1>3 DEF Collects
<1>. DEFINE h == CHOOSE h : Fold(h)
<1>5. Fold(h)
  <2>. HIDE DEF Fold
  <2>. QED
    BY <1>4
<1>6. Merged(f) = h[S]
  BY DEF Merged, FoldFunction, FoldFunctionOnSet, MapThenFoldSet, Chosen
<1>. HIDE DEF h
<1>7. h[{}] = EmptyHistogram /\ \A s \in SUBSET S : s # {} => h[s] = Merge(h[s \ {Chosen(s)}], f[Chosen(s)].latency)
  BY <1>5
<1>8. h \in [SUBSET S -> Histogram]
  <2>. DEFINE P == {s \in SUBSET S : h[s] \in Histogram}
  <2>1. {} \in P
    BY <1>7, UnusedType
  <2>2. ASSUME NEW s \in SUBSET S, s # {}, \A x \in s : s \ {x} \in P
        PROVE  s \in P
    <3>. DEFINE x == Chosen(s)
    <3>1. x \in s /\ x \in S
      BY <2>2 DEF Chosen
    <3>2. h[s] = Merge(h[s \ {x}], f[x].latency)
      BY <1>7, <2>2
    <3>. HIDE DEF x
    <3>. QED
      BY <2>2, <3>1, <3>2, MergeType
  <2>3. SUBSET S \subseteq P
    <3>. HIDE DEF P
    <3>. QED
      BY <2>1, <2>2, SetInduction
  <2>. QED
    BY <1>5, <2>3
<1>. QED
  BY <1>6, <1>7, <1>8

\* What may have happened to the workers.
Logs == [Workers -> Seq(AnyEvent)]

\* All events of some of the workers.
LEMMA EverythingFold ==
    ASSUME log \in Logs
    PROVE  \E h \in [SUBSET Workers -> Seq(AnyEvent)] :
              /\ h[{}] = <<>>
              /\ \A s \in SUBSET Workers : s # {} => h[s] = log[Chosen(s)] \o h[s \ {Chosen(s)}]
              /\ Everything = h[Workers]
<1>. DEFINE S == Workers
            D == Seq(AnyEvent)
            next == [p \in S \X D |-> log[p[1]] \o p[2]]
            Fold(g) == g = [s \in SUBSET S |->
                              IF s = {} THEN <<>> ELSE log[Chosen(s)] \o g[s \ {Chosen(s)}]]
<1>0. IsFiniteSet(S) /\ DOMAIN log = S /\ \A w \in S : log[w] \in D
  BY MeasurementAssumption DEF Logs
<1>01. \A a, b \in D : a \o b \in D
  OBVIOUS
<1>02. <<>> \in D
  OBVIOUS
<1>. HIDE DEF S, D
<1>1. next \in [S \X D -> D]
  BY <1>0, <1>01
<1>2. PICK g : Collects(g, S, D, <<>>, next)
  <2>. HIDE DEF next
  <2>. QED
    BY <1>0, <1>1, <1>02, ChosenFold, Zenon
<1>3. ASSUME NEW s \in SUBSET S, s # {}
      PROVE  g[s] = log[Chosen(s)] \o g[s \ {Chosen(s)}]
  <2>. DEFINE x == Chosen(s)
              y == g[s \ {x}]
  <2>1. x \in S /\ y \in D /\ g[s] = next[<<x, y>>]
    BY <1>2, <1>3 DEF Collects
  <2>. HIDE DEF x, y
  <2>2. <<x, y>> \in S \X D
    BY <2>1
  <2>3. next[<<x, y>>] = log[x] \o y
    BY <2>2
  <2>. QED
    BY <2>1, <2>3 DEF x, y
<1>4. Fold(g)
  BY <1>2, <1>3 DEF Collects
<1>. DEFINE h == CHOOSE h : Fold(h)
<1>5. Fold(h)
  <2>. HIDE DEF Fold
  <2>. QED
    BY <1>4
<1>6. Everything = h[S]
  BY <1>0 DEF Everything, FoldFunction, FoldFunctionOnSet, MapThenFoldSet, Chosen
<1>. HIDE DEF h
<1>7. h[{}] = <<>> /\ \A s \in SUBSET S : s # {} => h[s] = log[Chosen(s)] \o h[s \ {Chosen(s)}]
  BY <1>5
<1>8. h \in [SUBSET S -> D]
  <2>. DEFINE P == {s \in SUBSET S : h[s] \in D}
  <2>1. {} \in P
    BY <1>7, <1>02
  <2>2. ASSUME NEW s \in SUBSET S, s # {}, \A x \in s : s \ {x} \in P
        PROVE  s \in P
    <3>. DEFINE x == Chosen(s)
    <3>1. x \in s /\ x \in S
      BY <2>2 DEF Chosen
    <3>2. h[s] = log[x] \o h[s \ {x}]
      BY <1>7, <2>2
    <3>. HIDE DEF x
    <3>3. h[s \ {x}] \in D /\ log[x] \in D
      BY <1>0, <2>2, <3>1
    <3>4. h[s] \in D
      <4>. DEFINE a == log[x]
                  b == h[s \ {x}]
      <4>1. a \in D /\ b \in D /\ h[s] = a \o b
        BY <3>2, <3>3
      <4>. HIDE DEF a, b
      <4>. QED
        BY <1>01, <4>1
    <3>. QED
      BY <3>4
  <2>3. SUBSET S \subseteq P
    <3>. HIDE DEF P
    <3>. QED
      BY <1>0, <2>1, <2>2, SetInduction
  <2>. QED
    BY <1>5, <2>3
<1>. QED
  BY <1>6, <1>7, <1>8 DEF S, D

\* h combines a part of what the workers measured, worker by worker, in the way in
\* which it is combined when measurements are joined.
Combining(h, part, combine) ==
    /\ h[{}] = part[Unused]
    /\ \A m, d \in Metrics : part[Join(m, d)] = combine[<<part[m], part[d]>>]
    /\ \A s \in SUBSET Workers : s # {} =>
          h[s] = combine[<<part[Replayed(log[Chosen(s)])], h[s \ {Chosen(s)}]>>]

\* That makes it the part of everything that happened.
LEMMA Combines ==
    ASSUME log \in Logs, NEW h, NEW part, NEW combine, Combining(h, part, combine)
    PROVE  part[Replayed(Everything)] = h[Workers]
<1>1. PICK all \in [SUBSET Workers -> Seq(AnyEvent)] :
              /\ all[{}] = <<>>
              /\ \A s \in SUBSET Workers : s # {} => all[s] = log[Chosen(s)] \o all[s \ {Chosen(s)}]
              /\ Everything = all[Workers]
  BY EverythingFold
<1>. DEFINE P == {s \in SUBSET Workers : part[Replayed(all[s])] = h[s]}
<1>2. {} \in P
  BY <1>1, ReplayedEmpty DEF Combining
<1>3. ASSUME NEW s \in SUBSET Workers, s # {}, \A x \in s : s \ {x} \in P
      PROVE  s \in P
  <2>. DEFINE x == Chosen(s)
              rest == s \ {x}
  <2>1. x \in s /\ x \in Workers
    BY <1>3 DEF Chosen
  <2>2. all[s] = log[x] \o all[rest]
    BY <1>1, <1>3
  <2>3. h[s] = combine[<<part[Replayed(log[x])], h[rest]>>]
    BY <1>3 DEF Combining
  <2>4. rest \in P /\ rest \in SUBSET Workers
    BY <1>3, <2>1
  <2>. HIDE DEF x, rest
  <2>5. log[x] \in Seq(AnyEvent) /\ all[rest] \in Seq(AnyEvent) /\ part[Replayed(all[rest])] = h[rest]
    BY <1>1, <2>1, <2>4 DEF Logs
  <2>6. Replayed(all[s]) = Join(Replayed(log[x]), Replayed(all[rest]))
    BY <2>2, <2>5, ReplayedBoth
  <2>7. Replayed(log[x]) \in Metrics /\ Replayed(all[rest]) \in Metrics
    BY <2>5, ReplayedType
  <2>. DEFINE m == Replayed(log[x])
              d == Replayed(all[rest])
  <2>. HIDE DEF m, d
  <2>8. part[Join(m, d)] = combine[<<part[m], part[d]>>]
    BY <2>7 DEF m, d, Combining
  <2>. QED
    BY <2>3, <2>5, <2>6, <2>8 DEF m, d
<1>4. SUBSET Workers \subseteq P
  <2>. HIDE DEF P
  <2>1. IsFiniteSet(Workers)
    BY MeasurementAssumption
  <2>. QED
    BY <1>2, <1>3, <2>1, SetInduction
<1>. QED
  BY <1>1, <1>4

\* A number that adds up when measurements are joined.
LEMMA NumbersAgree ==
    ASSUME log \in Logs,
           NEW part \in [Metrics -> Nat], part[Unused] = 0,
           \A m, d \in Metrics : part[Join(m, d)] = part[m] + part[d],
           NEW f, f = [w \in Workers |-> part[Replayed(log[w])]]
    PROVE  SumOver(f) = part[Replayed(Everything)]
<1>. DEFINE plus == [p \in Int \X Int |-> p[1] + p[2]]
            whole == [m \in Metrics |-> part[m]]
<1>1. /\ plus \in [Int \X Int -> Int] /\ \A a, b \in Int : plus[<<a, b>>] = a + b
      /\ whole \in [Metrics -> Int] /\ \A m \in Metrics : whole[m] = part[m] /\ whole[m] \in Int
  OBVIOUS
<1>2. \A w \in Workers : Replayed(log[w]) \in Metrics
  <2>1. ASSUME NEW w \in Workers
        PROVE  Replayed(log[w]) \in Metrics
    <3>1. log[w] \in Seq(AnyEvent)
      BY DEF Logs
    <3>. QED
      BY <3>1, ReplayedType
  <2>. QED
    BY <2>1
<1>3. f \in [Workers -> Int]
  BY <1>2
<1>4. IsFiniteSet(Workers)
  BY MeasurementAssumption
<1>5. PICK g \in [SUBSET Workers -> Int] : Summing(f, g) /\ SumOf(f) = g[Workers]
  BY <1>3, <1>4, SumFold
<1>. HIDE DEF plus, whole
<1>6. g[{}] = whole[Unused]
  <2>1. g[{}] = 0
    BY <1>5 DEF Summing
  <2>. QED
    BY <2>1, <1>1, UnusedType
<1>7. ASSUME NEW s \in SUBSET Workers, s # {}
      PROVE  g[s] = plus[<<whole[Replayed(log[Chosen(s)])], g[s \ {Chosen(s)}]>>]
  <2>. DEFINE x == Chosen(s)
              rest == s \ {x}
  <2>1. x \in s /\ x \in Workers
    BY <1>7 DEF Chosen
  <2>2. g[s] = f[x] + g[rest]
    BY <1>3, <1>5, <1>7 DEF Summing, Chosen
  <2>3. rest \in SUBSET Workers
    BY <2>1
  <2>. HIDE DEF x, rest
  <2>4. f[x] = whole[Replayed(log[x])] /\ f[x] \in Int /\ g[rest] \in Int
    BY <1>1, <1>2, <1>3, <1>5, <2>1, <2>3
  <2>5. plus[<<f[x], g[rest]>>] = f[x] + g[rest]
    BY <1>1, <2>4
  <2>. QED
    BY <2>2, <2>4, <2>5 DEF x, rest
<1>8. \A m, d \in Metrics : whole[Join(m, d)] = plus[<<whole[m], whole[d]>>]
  <2>1. ASSUME NEW m \in Metrics, NEW d \in Metrics
        PROVE  whole[Join(m, d)] = plus[<<whole[m], whole[d]>>]
    <3>1. Join(m, d) \in Metrics
      BY JoinType
    <3>2. plus[<<whole[m], whole[d]>>] = whole[m] + whole[d]
      BY <1>1
    <3>. QED
      BY <1>1, <3>1, <3>2
  <2>. QED
    BY <2>1
<1>9. whole[Replayed(Everything)] = g[Workers]
  <2>1. Combining(g, whole, plus)
    BY <1>6, <1>7, <1>8, Zenon DEF Combining
  <2>. QED
    BY <2>1, Combines, Zenon
<1>10. Replayed(Everything) \in Metrics
  <2>1. PICK h : h \in [SUBSET Workers -> Seq(AnyEvent)] /\ Everything = h[Workers]
    BY EverythingFold
  <2>2. Everything \in Seq(AnyEvent)
    BY <2>1
  <2>. QED
    BY <2>2, ReplayedType
<1>11. SumOver(f) = SumOf(f)
  BY DEF SumOver, SumOf
<1>. QED
  BY <1>1, <1>5, <1>9, <1>10, <1>11

\* All of it is a sequence of events, and makes a measurement,
LEMMA EverythingType ==
    ASSUME log \in Logs
    PROVE  Everything \in Seq(AnyEvent) /\ Replayed(Everything) \in Metrics
<1>1. PICK h : h \in [SUBSET Workers -> Seq(AnyEvent)] /\ Everything = h[Workers]
  BY EverythingFold
<1>2. Everything \in Seq(AnyEvent)
  BY <1>1
<1>. QED
  BY <1>2, ReplayedType

\* as does what happened to one worker.
LEMMA LogsReplayed ==
    ASSUME log \in Logs, NEW w \in Workers
    PROVE  log[w] \in Seq(AnyEvent) /\ Replayed(log[w]) \in Metrics
<1>1. log[w] \in Seq(AnyEvent)
  BY DEF Logs
<1>. QED
  BY <1>1, ReplayedType

\* Sums,
LEMMA SumsAgree ==
    ASSUME log \in Logs, NEW k \in Sums
    PROVE  SumOver([w \in Workers |-> Replayed(log[w]).sums[k]]) = Replayed(Everything).sums[k]
<1>. DEFINE part == [m \in Metrics |-> m.sums[k]]
            f == [w \in Workers |-> part[Replayed(log[w])]]
<1>1. part \in [Metrics -> Nat] /\ \A m \in Metrics : part[m] = m.sums[k]
  BY DEF Metrics
<1>. HIDE DEF part
<1>2. part[Unused] = 0
  BY <1>1, UnusedType DEF Unused
<1>3. \A m, d \in Metrics : part[Join(m, d)] = part[m] + part[d]
  <2>1. ASSUME NEW m \in Metrics, NEW d \in Metrics
        PROVE  part[Join(m, d)] = part[m] + part[d]
    <3>1. Join(m, d) \in Metrics
      BY JoinType
    <3>2. Join(m, d).sums[k] = m.sums[k] + d.sums[k]
      BY DEF Join
    <3>. QED
      BY <1>1, <3>1, <3>2
  <2>. QED
    BY <2>1
<1>4. SumOver(f) = part[Replayed(Everything)]
  BY <1>1, <1>2, <1>3, NumbersAgree
<1>5. f = [w \in Workers |-> Replayed(log[w]).sums[k]]
  BY <1>1, LogsReplayed
<1>. HIDE DEF f
<1>. QED
  BY <1>1, <1>4, <1>5, EverythingType

\* status codes,
LEMMA CodesAgree ==
    ASSUME log \in Logs, NEW s \in StatusCode
    PROVE  SumOver([w \in Workers |-> Replayed(log[w]).statusCodeCounts[s]])
             = Replayed(Everything).statusCodeCounts[s]
<1>. DEFINE part == [m \in Metrics |-> m.statusCodeCounts[s]]
            f == [w \in Workers |-> part[Replayed(log[w])]]
<1>1. part \in [Metrics -> Nat] /\ \A m \in Metrics : part[m] = m.statusCodeCounts[s]
  BY DEF Metrics
<1>. HIDE DEF part
<1>2. part[Unused] = 0
  BY <1>1, UnusedType DEF Unused
<1>3. \A m, d \in Metrics : part[Join(m, d)] = part[m] + part[d]
  <2>1. ASSUME NEW m \in Metrics, NEW d \in Metrics
        PROVE  part[Join(m, d)] = part[m] + part[d]
    <3>1. Join(m, d) \in Metrics
      BY JoinType
    <3>2. Join(m, d).statusCodeCounts[s] = m.statusCodeCounts[s] + d.statusCodeCounts[s]
      BY DEF Join
    <3>. QED
      BY <1>1, <3>1, <3>2
  <2>. QED
    BY <2>1
<1>4. SumOver(f) = part[Replayed(Everything)]
  BY <1>1, <1>2, <1>3, NumbersAgree
<1>5. f = [w \in Workers |-> Replayed(log[w]).statusCodeCounts[s]]
  BY <1>1, LogsReplayed
<1>. HIDE DEF f
<1>. QED
  BY <1>1, <1>4, <1>5, EverythingType

\* maxima,
LEMMA MaximaAgree ==
    ASSUME log \in Logs, NEW k \in Maxima
    PROVE  MaxOver([w \in Workers |-> Replayed(log[w]).maxima[k]]) = Replayed(Everything).maxima[k]
<1>. DEFINE part == [m \in Metrics |-> m.maxima[k]]
            larger == [p \in Nat \X Nat |-> Larger(p[1], p[2])]
            f == [w \in Workers |-> part[Replayed(log[w])]]
<1>1. part \in [Metrics -> Nat] /\ \A m \in Metrics : part[m] = m.maxima[k] /\ part[m] \in Nat
  BY DEF Metrics
<1>2. larger \in [Nat \X Nat -> Nat] /\ \A a, b \in Nat : larger[<<a, b>>] = Larger(a, b)
  BY DEF Larger
<1>. HIDE DEF part, larger
<1>3. f \in [Workers -> Nat] /\ \A w \in Workers : f[w] = part[Replayed(log[w])]
  BY <1>1, LogsReplayed
<1>4. PICK g \in [SUBSET Workers -> Nat] :
              /\ g[{}] = 0
              /\ \A s \in SUBSET Workers : s # {} => g[s] = Larger(f[Chosen(s)], g[s \ {Chosen(s)}])
              /\ MaxOver(f) = g[Workers]
  <2>1. IsFiniteSet(Workers)
    BY MeasurementAssumption
  <2>. HIDE DEF f
  <2>. QED
    BY <1>3, <2>1, MaxOverFold
<1>. HIDE DEF f
<1>5. g[{}] = part[Unused]
  BY <1>1, <1>4, UnusedType DEF Unused
<1>6. ASSUME NEW s \in SUBSET Workers, s # {}
      PROVE  g[s] = larger[<<part[Replayed(log[Chosen(s)])], g[s \ {Chosen(s)}]>>]
  <2>. DEFINE x == Chosen(s)
              rest == s \ {x}
  <2>1. x \in Workers
    BY <1>6 DEF Chosen
  <2>2. g[s] = Larger(f[x], g[rest])
    BY <1>4, <1>6
  <2>3. rest \in SUBSET Workers
    OBVIOUS
  <2>. HIDE DEF x, rest
  <2>4. f[x] = part[Replayed(log[x])] /\ f[x] \in Nat /\ g[rest] \in Nat
    BY <1>3, <1>4, <2>1, <2>3
  <2>5. larger[<<f[x], g[rest]>>] = Larger(f[x], g[rest])
    BY <1>2, <2>4
  <2>. QED
    BY <2>2, <2>4, <2>5 DEF x, rest
<1>7. \A m, d \in Metrics : part[Join(m, d)] = larger[<<part[m], part[d]>>]
  <2>1. ASSUME NEW m \in Metrics, NEW d \in Metrics
        PROVE  part[Join(m, d)] = larger[<<part[m], part[d]>>]
    <3>1. Join(m, d) \in Metrics
      BY JoinType
    <3>2. Join(m, d).maxima[k] = Larger(m.maxima[k], d.maxima[k])
      <4>1. m.maxima \in [Maxima -> Nat] /\ d.maxima \in [Maxima -> Nat]
        BY DEF Metrics
      <4>. QED
        BY <4>1 DEF Join, Greatest, Larger
    <3>3. larger[<<part[m], part[d]>>] = Larger(part[m], part[d])
      BY <1>1, <1>2
    <3>. QED
      BY <1>1, <3>1, <3>2, <3>3
  <2>. QED
    BY <2>1
<1>8. part[Replayed(Everything)] = g[Workers]
  <2>1. Combining(g, part, larger)
    BY <1>5, <1>6, <1>7, Zenon DEF Combining
  <2>. QED
    BY <2>1, Combines, Zenon
<1>9. f = [w \in Workers |-> Replayed(log[w]).maxima[k]]
  BY <1>1, LogsReplayed DEF f
<1>. QED
  BY <1>1, <1>4, <1>8, <1>9, EverythingType

\* and the histograms of the workers are those of everything that happened.
LEMMA LatencyAgrees ==
    ASSUME log \in Logs, NEW f, DOMAIN f = Workers,
           \A w \in Workers : f[w].latency = Replayed(log[w]).latency
    PROVE  Merged(f) = Replayed(Everything).latency
<1>. DEFINE part == [m \in Metrics |-> m.latency]
            merge == [p \in Histogram \X Histogram |-> Merge(p[2], p[1])]
<1>1. part \in [Metrics -> Histogram] /\ \A m \in Metrics : part[m] = m.latency /\ part[m] \in Histogram
  BY DEF Metrics
<1>2. merge \in [Histogram \X Histogram -> Histogram] /\ \A a, b \in Histogram : merge[<<a, b>>] = Merge(b, a)
  BY MergeType
<1>. HIDE DEF part, merge
<1>3. \A w \in Workers : f[w].latency \in Histogram /\ f[w].latency = part[Replayed(log[w])]
  BY <1>1, LogsReplayed
<1>4. PICK g \in [SUBSET Workers -> Histogram] :
              /\ g[{}] = EmptyHistogram
              /\ \A s \in SUBSET Workers : s # {} => g[s] = Merge(g[s \ {Chosen(s)}], f[Chosen(s)].latency)
              /\ Merged(f) = g[Workers]
  <2>1. IsFiniteSet(Workers)
    BY MeasurementAssumption
  <2>2. DOMAIN f = Workers /\ \A x \in Workers : f[x].latency \in Histogram
    BY <1>3
  <2>. QED
    BY <2>1, <2>2, MergedFold
<1>5. g[{}] = part[Unused]
  BY <1>1, <1>4, UnusedType DEF Unused
<1>6. ASSUME NEW s \in SUBSET Workers, s # {}
      PROVE  g[s] = merge[<<part[Replayed(log[Chosen(s)])], g[s \ {Chosen(s)}]>>]
  <2>. DEFINE x == Chosen(s)
              rest == s \ {x}
  <2>1. x \in Workers
    BY <1>6 DEF Chosen
  <2>2. g[s] = Merge(g[rest], f[x].latency)
    BY <1>4, <1>6
  <2>3. rest \in SUBSET Workers
    OBVIOUS
  <2>. HIDE DEF x, rest
  <2>4. f[x].latency = part[Replayed(log[x])] /\ f[x].latency \in Histogram /\ g[rest] \in Histogram
    BY <1>3, <1>4, <2>1, <2>3
  <2>5. merge[<<f[x].latency, g[rest]>>] = Merge(g[rest], f[x].latency)
    BY <1>2, <2>4
  <2>. QED
    BY <2>2, <2>4, <2>5 DEF x, rest
<1>7. \A m, d \in Metrics : part[Join(m, d)] = merge[<<part[m], part[d]>>]
  <2>1. ASSUME NEW m \in Metrics, NEW d \in Metrics
        PROVE  part[Join(m, d)] = merge[<<part[m], part[d]>>]
    <3>1. Join(m, d) \in Metrics
      BY JoinType
    <3>2. Join(m, d).latency = Merge(m.latency, d.latency)
      BY DEF Join
    <3>3. merge[<<part[m], part[d]>>] = Merge(part[d], part[m])
      BY <1>1, <1>2
    <3>4. Merge(part[d], part[m]) = Merge(part[m], part[d])
      BY <1>1, MergeCommutes
    <3>. QED
      BY <1>1, <3>1, <3>2, <3>3, <3>4
  <2>. QED
    BY <2>1
<1>8. part[Replayed(Everything)] = g[Workers]
  <2>1. Combining(g, part, merge)
    BY <1>5, <1>6, <1>7, Zenon DEF Combining
  <2>. QED
    BY <2>1, Combines, Zenon
<1>. QED
  BY <1>1, <1>4, <1>8, EverythingType
--------------------------------------------------------------------------------
(* What a histogram knows of the latencies it recorded *)

\* There are finitely many buckets.
LEMMA BucketsFinite == IsFiniteSet(Buckets) /\ Buckets \subseteq Nat
<1>1. PICK n \in Nat : Buckets = 0 .. n
  BY BucketsAre
<1>. QED
  BY <1>1, FS_Interval

\* Observations in the first buckets.
Partial(h, i) == SumOf(Restrict(h.counts, 0 .. i))

LEMMA PartialType ==
    ASSUME NEW h \in Histogram, NEW i \in Buckets
    PROVE  Partial(h, i) \in Nat /\ Cumulative(h, i) = h.zeroCount + Partial(h, i) /\ 0 .. i \subseteq Buckets
<1>1. PICK n \in Nat : Buckets = 0 .. n
  BY BucketsAre
<1>2. i \in Nat /\ 0 .. i \subseteq Buckets /\ IsFiniteSet(0 .. i)
  BY <1>1, FS_Interval
<1>3. Restrict(h.counts, 0 .. i) \in [0 .. i -> Nat]
  BY <1>2 DEF Restrict, Histogram
<1>4. Partial(h, i) \in Nat
  BY <1>2, <1>3, SumType DEF Partial
<1>. QED
  BY <1>2, <1>4 DEF Partial, Cumulative, SumOf

\* What is counted in merged histograms adds up.
LEMMA MergeAdds ==
    ASSUME NEW h \in Histogram, NEW d \in Histogram
    PROVE  /\ \A i \in Buckets : Cumulative(Merge(h, d), i) = Cumulative(h, i) + Cumulative(d, i)
           /\ Total(Merge(h, d)) = Total(h) + Total(d) /\ Total(h) \in Int /\ Total(d) \in Int
           /\ SumOf(Merge(h, d).counts) = SumOf(h.counts) + SumOf(d.counts)
           /\ SumOf(h.counts) \in Nat /\ SumOf(d.counts) \in Nat
<1>. DEFINE m == Merge(h, d)
<1>1. m \in Histogram /\ m.counts = [i \in Buckets |-> h.counts[i] + d.counts[i]]
      /\ m.zeroCount = h.zeroCount + d.zeroCount
  BY MergeType DEF Merge
<1>2. /\ h.counts \in [Buckets -> Nat] /\ d.counts \in [Buckets -> Nat] /\ m.counts \in [Buckets -> Nat]
      /\ h.zeroCount \in Nat /\ d.zeroCount \in Nat
  BY <1>1 DEF Histogram
<1>3. \A i \in Buckets : m.counts[i] = h.counts[i] + d.counts[i]
  BY <1>1
<1>. HIDE DEF m
<1>4. ASSUME NEW i \in Buckets
      PROVE  Cumulative(m, i) = Cumulative(h, i) + Cumulative(d, i)
  <2>. DEFINE S == 0 .. i
  <2>1. S \subseteq Buckets
    BY PartialType, UnusedType
  <2>2. IsFiniteSet(S)
    BY <2>1, BucketsFinite, FS_Subset
  <2>3. /\ Restrict(m.counts, S) \in [S -> Int] /\ Restrict(h.counts, S) \in [S -> Int]
        /\ Restrict(d.counts, S) \in [S -> Int]
        /\ \A x \in S : Restrict(m.counts, S)[x] = Restrict(h.counts, S)[x] + Restrict(d.counts, S)[x]
    <3>. HIDE DEF S
    <3>. QED
      BY <1>2, <1>3, <2>1 DEF Restrict
  <2>4. SumOf(Restrict(m.counts, S)) = SumOf(Restrict(h.counts, S)) + SumOf(Restrict(d.counts, S))
    <3>. HIDE DEF S
    <3>. QED
      BY <2>2, <2>3, SumPlus
  <2>5. Partial(m, i) = Partial(h, i) + Partial(d, i)
    BY <2>4 DEF Partial
  <2>6. /\ Partial(h, i) \in Nat /\ Cumulative(h, i) = h.zeroCount + Partial(h, i)
        /\ Partial(d, i) \in Nat /\ Cumulative(d, i) = d.zeroCount + Partial(d, i)
        /\ Cumulative(m, i) = m.zeroCount + Partial(m, i)
    BY <1>1, PartialType
  <2>. QED
    BY <1>1, <1>2, <2>5, <2>6
<1>5. \A i \in Buckets : Midpoint(i) \in Nat
  BY BucketsFinite, MidpointType
<1>. DEFINE T(c) == [i \in Buckets |-> Midpoint(i) * c[i]]
<1>6. \A c \in [Buckets -> Nat] : T(c) \in [Buckets -> Int]
  BY <1>5
<1>7. \A i \in Buckets : T(m.counts)[i] = T(h.counts)[i] + T(d.counts)[i]
  <2>1. ASSUME NEW i \in Buckets
        PROVE  T(m.counts)[i] = T(h.counts)[i] + T(d.counts)[i]
    <3>. DEFINE a == Midpoint(i)
                b == h.counts[i]
                c == d.counts[i]
    <3>1. a \in Nat /\ b \in Nat /\ c \in Nat /\ m.counts[i] = b + c
      BY <1>2, <1>3, <1>5
    <3>2. T(m.counts)[i] = a * m.counts[i] /\ T(h.counts)[i] = a * b /\ T(d.counts)[i] = a * c
      OBVIOUS
    <3>. HIDE DEF a, b, c, T
    <3>3. a * (b + c) = a * b + a * c
      BY <3>1
    <3>. QED
      BY <3>1, <3>2, <3>3
  <2>. QED
    BY <2>1
<1>8. Total(m) = SumOf(T(m.counts)) /\ Total(h) = SumOf(T(h.counts)) /\ Total(d) = SumOf(T(d.counts))
  BY DEF Total, SumOf
<1>9. IsFiniteSet(Buckets)
  BY BucketsFinite
<1>10. SumOf(T(m.counts)) = SumOf(T(h.counts)) + SumOf(T(d.counts))
  <2>1. T(m.counts) \in [Buckets -> Int] /\ T(h.counts) \in [Buckets -> Int] /\ T(d.counts) \in [Buckets -> Int]
    BY <1>2, <1>6
  <2>. HIDE DEF T
  <2>. QED
    BY <1>7, <1>9, <2>1, SumPlus
<1>11. Total(h) \in Int /\ Total(d) \in Int
  <2>1. ASSUME NEW c \in [Buckets -> Nat]
        PROVE  SumOf(T(c)) \in Int
    <3>1. T(c) \in [Buckets -> Int]
      BY <1>6
    <3>. HIDE DEF T
    <3>2. \E g \in [SUBSET Buckets -> Int] : SumOf(T(c)) = g[Buckets]
      BY <1>9, <3>1, SumFold
    <3>. QED
      BY <3>2
  <2>. HIDE DEF T
  <2>. QED
    BY <1>2, <1>8, <2>1
<1>12. /\ SumOf(m.counts) = SumOf(h.counts) + SumOf(d.counts)
       /\ SumOf(h.counts) \in Nat /\ SumOf(d.counts) \in Nat
  <2>1. m.counts \in [Buckets -> Int] /\ h.counts \in [Buckets -> Int] /\ d.counts \in [Buckets -> Int]
    BY <1>2
  <2>2. SumOf(m.counts) = SumOf(h.counts) + SumOf(d.counts)
    BY <1>3, <1>9, <2>1, SumPlus
  <2>. QED
    BY <1>2, <1>9, <2>2, SumType
<1>. HIDE DEF T
<1>. QED
  BY <1>4, <1>8, <1>10, <1>11, <1>12 DEF m

\* Nothing is counted in an empty histogram.
LEMMA EmptyCounts ==
    /\ \A i \in Buckets : Cumulative(EmptyHistogram, i) = 0
    /\ Total(EmptyHistogram) = 0 /\ SumOf(EmptyHistogram.counts) = 0
<1>. DEFINE h == EmptyHistogram
<1>1. h \in Histogram /\ h.counts \in [Buckets -> Int] /\ \A i \in Buckets : h.counts[i] = 0
  BY UnusedType DEF EmptyHistogram
<1>2. h.zeroCount = 0
  BY DEF EmptyHistogram
<1>3. IsFiniteSet(Buckets)
  BY BucketsFinite
<1>. HIDE DEF h
<1>4. SumOf(h.counts) = 0
  BY <1>1, <1>3, SumZero
<1>5. ASSUME NEW i \in Buckets
      PROVE  Cumulative(h, i) = 0
  <2>. DEFINE S == 0 .. i
  <2>1. S \subseteq Buckets /\ Cumulative(h, i) = h.zeroCount + Partial(h, i)
    BY <1>1, PartialType
  <2>2. IsFiniteSet(S)
    BY <1>3, <2>1, FS_Subset
  <2>3. Restrict(h.counts, S) \in [S -> Int] /\ \A x \in S : Restrict(h.counts, S)[x] = 0
    <3>. HIDE DEF S
    <3>. QED
      BY <1>1, <2>1 DEF Restrict
  <2>4. SumOf(Restrict(h.counts, S)) = 0
    <3>. HIDE DEF S
    <3>. QED
      BY <2>2, <2>3, SumZero
  <2>. QED
    BY <1>2, <2>1, <2>4 DEF Partial
<1>. DEFINE T == [i \in Buckets |-> Midpoint(i) * h.counts[i]]
<1>6. T \in [Buckets -> Int] /\ \A i \in Buckets : T[i] = 0
  <2>1. ASSUME NEW i \in Buckets
        PROVE  Midpoint(i) * h.counts[i] = 0
    <3>1. Midpoint(i) \in Nat /\ h.counts[i] = 0
      BY <1>1, BucketsFinite, MidpointType
    <3>. QED
      BY <3>1
  <2>. QED
    BY <2>1
<1>7. SumOf(T) = 0
  <2>. HIDE DEF T
  <2>. QED
    BY <1>3, <1>6, SumZero
<1>8. Total(h) = SumOf(T)
  BY DEF Total, SumOf
<1>. QED
  BY <1>4, <1>5, <1>7, <1>8 DEF h

\* A histogram of one latency: accepted, it is in the bucket of its size and
\* counts with its midpoint; or it is dropped.
InRange(ms) == ms \in {0} \cup Lowest .. Highest

LEMMA RecordOne ==
    ASSUME NEW ms \in Latency, NEW d, d = Record(EmptyHistogram, ms)
    PROVE  /\ d.count = IF InRange(ms) THEN 1 ELSE 0
           /\ d.nonFinite + d.belowRange + d.aboveRange = IF InRange(ms) THEN 0 ELSE 1
           /\ d.zeroCount = IF ms = 0 THEN 1 ELSE 0
           /\ d.count = d.zeroCount + SumOf(d.counts)
           /\ \A i \in Buckets : Cumulative(d, i) = IF InRange(ms) /\ ms <= Lower[i + 1] - 1 THEN 1 ELSE 0
           /\ InRange(ms) => Near(Total(d), ms) /\ Total(d) \in Int /\ ms \in Nat
           /\ ~InRange(ms) => Total(d) = 0
<1>0. (ms = -1 \/ ms \in Nat) /\ d \in Histogram /\ EmptyHistogram \in Histogram
      /\ Lowest \in Nat /\ Lowest > 0 /\ Highest \in Nat
  BY LatencyAssumption, RecordMerges, UnusedType DEF Latency, NonFinite
<1>. DEFINE E == EmptyHistogram
<1>1. CASE ~(ms \in Lowest .. Highest)
  <2>1. /\ d.counts = E.counts
        /\ d.count = IF ms = 0 THEN 1 ELSE 0
        /\ d.zeroCount = IF ms = 0 THEN 1 ELSE 0
        /\ d.nonFinite + d.belowRange + d.aboveRange = IF ms = 0 THEN 0 ELSE 1
    <3>1. CASE ms = NonFinite
      <4>0. ms # 0 /\ ms \notin 1 .. Lowest - 1 /\ ~(ms > Highest)
        BY <1>0, <3>1 DEF NonFinite
      <4>. QED
        BY <3>1, <4>0 DEF Record, EmptyHistogram
    <3>2. CASE ms = 0
      <4>0. ms # NonFinite /\ ms \notin 1 .. Lowest - 1 /\ ~(ms > Highest)
        BY <1>0, <3>2 DEF NonFinite
      <4>1. d = [EmptyHistogram EXCEPT !.zeroCount = @ + 1, !.count = @ + 1]
        BY <3>2, <4>0 DEF Record
      <4>2. EmptyHistogram.zeroCount + 1 = 1 /\ EmptyHistogram.count + 1 = 1
        BY DEF EmptyHistogram
      <4>3. d = [EmptyHistogram EXCEPT !.zeroCount = 1, !.count = 1]
        BY <4>1, <4>2
      <4>4. /\ d.counts = E.counts /\ d.count = 1 /\ d.zeroCount = 1
            /\ d.nonFinite = 0 /\ d.belowRange = 0 /\ d.aboveRange = 0
        BY <4>3 DEF EmptyHistogram
      <4>. QED
        BY <3>2, <4>4
    <3>3. CASE ms \in 1 .. Lowest - 1
      <4>0. ms # NonFinite /\ ms # 0 /\ ~(ms > Highest)
        BY <1>0, <3>3, LatencyAssumption DEF NonFinite
      <4>. QED
        BY <3>3, <4>0 DEF Record, EmptyHistogram
    <3>4. CASE ms > Highest /\ ms \in Nat
      <4>0. ms # NonFinite /\ ms # 0 /\ ms \notin 1 .. Lowest - 1
        BY <1>0, <3>4, LatencyAssumption DEF NonFinite
      <4>. QED
        BY <3>4, <4>0 DEF Record, EmptyHistogram
    <3>. QED
      BY <1>0, <1>1, <3>1, <3>2, <3>3, <3>4 DEF NonFinite
  <2>2. SumOf(d.counts) = 0 /\ Total(d) = 0
    BY <2>1, EmptyCounts DEF Total
  <2>3. ASSUME NEW i \in Buckets
        PROVE  Cumulative(d, i) = IF InRange(ms) /\ ms <= Lower[i + 1] - 1 THEN 1 ELSE 0
    <3>1. Partial(d, i) = 0
      <4>1. Partial(d, i) = Partial(E, i)
        BY <2>1 DEF Partial
      <4>2. Cumulative(E, i) = 0 /\ E.zeroCount = 0
        BY EmptyCounts DEF EmptyHistogram
      <4>3. Partial(E, i) \in Nat /\ Cumulative(E, i) = E.zeroCount + Partial(E, i)
        BY <1>0, PartialType
      <4>. QED
        BY <4>1, <4>2, <4>3
    <3>2. Cumulative(d, i) = d.zeroCount
      BY <1>0, <2>1, <3>1, PartialType
    <3>3. Lower[i + 1] - 1 >= 0 /\ Lower[i + 1] \in Nat
      <4>1. i + 1 \in Nat
        BY BucketsFinite
      <4>. QED
        BY <4>1, LowerIs
    <3>. QED
      BY <1>1, <2>1, <3>2, <3>3 DEF InRange
  <2>4. InRange(ms) <=> ms = 0
    BY <1>1 DEF InRange
  <2>5. Near(0, 0)
    BY DEF Near
  <2>. QED
    BY <2>1, <2>2, <2>3, <2>4, <2>5
<1>2. CASE ms \in Lowest .. Highest
  <2>. DEFINE b == BucketOf(ms)
              one == [i \in Buckets |-> IF i = b THEN 1 ELSE 0]
  <2>0. ms # NonFinite /\ ms # 0 /\ ms \notin 1 .. Lowest - 1 /\ ~(ms > Highest) /\ InRange(ms) /\ ms \in Nat
    BY <1>0, <1>2 DEF NonFinite, InRange
  <2>1. b \in Buckets /\ b \in Nat /\ Lower[b] <= ms /\ ms < Lower[b + 1]
    BY <1>2, BucketOfIs
  <2>2. d = [EmptyHistogram EXCEPT !.counts[b] = @ + 1, !.count = @ + 1]
    BY <2>0 DEF Record
  <2>3. Near(Midpoint(b), ms) /\ Midpoint(b) \in Nat
    BY <1>2, <2>1, MidpointNear, MidpointType
  <2>. HIDE DEF b
  <2>4. [EmptyHistogram.counts EXCEPT ![b] = @ + 1] = one
    <3>1. b \in Buckets
      BY <2>1
    <3>. QED
      BY <3>1 DEF EmptyHistogram
  <2>5. one \in [Buckets -> Int] /\ one[b] = 1 /\ \A i \in Buckets : i # b => one[i] = 0
    BY <2>1
  <2>. HIDE DEF one
  <2>6. /\ d.counts = one /\ d.count = 1 /\ d.zeroCount = 0
        /\ d.nonFinite = 0 /\ d.belowRange = 0 /\ d.aboveRange = 0
    <3>1. EmptyHistogram.count + 1 = 1
      BY DEF EmptyHistogram
    <3>2. d = [EmptyHistogram EXCEPT !.counts = one, !.count = 1]
      BY <2>2, <2>4, <3>1
    <3>. QED
      BY <3>2 DEF EmptyHistogram
  <2>7. IsFiniteSet(Buckets)
    BY BucketsFinite
  <2>8. SumOf(one) = 1
    BY <2>1, <2>5, <2>7, SumSingle
  <2>. DEFINE T == [i \in Buckets |-> Midpoint(i) * one[i]]
  <2>9. T \in [Buckets -> Int] /\ T[b] = Midpoint(b) /\ \A i \in Buckets : i # b => T[i] = 0
    <3>1. \A i \in Buckets : Midpoint(i) \in Nat
      BY BucketsFinite, MidpointType
    <3>2. ASSUME NEW i \in Buckets
          PROVE  Midpoint(i) * one[i] \in Int /\ (i = b => Midpoint(i) * one[i] = Midpoint(i))
                 /\ (i # b => Midpoint(i) * one[i] = 0)
      <4>1. Midpoint(i) \in Nat /\ (one[i] = 1 \/ one[i] = 0)
        BY <2>5, <3>1
      <4>. QED
        BY <2>5, <4>1
    <3>. QED
      BY <2>1, <3>2
  <2>10. Total(d) = SumOf(T)
    BY <2>6 DEF Total, SumOf
  <2>11. SumOf(T) = Midpoint(b)
    <3>. HIDE DEF T
    <3>. QED
      BY <2>1, <2>7, <2>9, SumSingle
  <2>12. ASSUME NEW i \in Buckets
         PROVE  Cumulative(d, i) = IF ms <= Lower[i + 1] - 1 THEN 1 ELSE 0
    <3>. DEFINE S == 0 .. i
                r == Restrict(one, S)
    <3>1. S \subseteq Buckets /\ Cumulative(d, i) = Partial(d, i)
      BY <1>0, <2>6, PartialType
    <3>2. i \in Nat /\ IsFiniteSet(S)
      BY <2>7, <3>1, BucketsFinite, FS_Subset
    <3>3. Partial(d, i) = SumOf(r)
      BY <2>6 DEF Partial
    <3>4. r \in [S -> Int] /\ \A x \in S : r[x] = one[x]
      <4>. HIDE DEF S
      <4>. QED
        BY <2>5, <3>1 DEF Restrict
    <3>5. Lower[b] \in Nat /\ Lower[b + 1] \in Nat /\ Lower[i + 1] \in Nat
      <4>1. b + 1 \in Nat /\ i + 1 \in Nat
        BY <2>1, <3>2
      <4>. QED
        BY <2>1, <4>1, LowerIs
    <3>6. CASE b <= i
      <4>1. b \in S
        BY <2>1, <3>2, <3>6
      <4>2. SumOf(r) = r[b]
        <5>1. \A y \in S : y # b => r[y] = 0
          BY <2>5, <3>1, <3>4
        <5>. HIDE DEF S, r
        <5>. QED
          BY <3>2, <3>4, <4>1, <5>1, SumSingle
      <4>3. Lower[b + 1] <= Lower[i + 1]
        <5>1. i + 1 \in Nat /\ b + 1 \in 0 .. i + 1
          BY <2>1, <3>2, <3>6
        <5>. QED
          BY <5>1, LowerRises
      <4>4. ms <= Lower[i + 1] - 1
        BY <2>0, <2>1, <3>5, <4>3
      <4>. HIDE DEF r, S
      <4>. QED
        BY <2>5, <3>1, <3>3, <3>4, <4>1, <4>2, <4>4
    <3>7. CASE ~(b <= i)
      <4>1. \A x \in S : r[x] = 0
        BY <2>1, <2>5, <3>1, <3>2, <3>4, <3>7
      <4>2. SumOf(r) = 0
        <5>. HIDE DEF S, r
        <5>. QED
          BY <3>2, <3>4, <4>1, SumZero
      <4>3. Lower[i + 1] <= Lower[b]
        <5>1. i + 1 \in 0 .. b
          BY <2>1, <3>2, <3>7
        <5>. QED
          BY <2>1, <5>1, LowerRises
      <4>4. ~(ms <= Lower[i + 1] - 1)
        BY <2>0, <2>1, <3>5, <4>3
      <4>. HIDE DEF r, S
      <4>. QED
        BY <3>1, <3>3, <4>2, <4>4
    <3>. QED
      BY <3>6, <3>7
  <2>. HIDE DEF T
  <2>. QED
    BY <2>0, <2>3, <2>6, <2>8, <2>10, <2>11, <2>12
<1>. QED
  BY <1>1, <1>2
--------------------------------------------------------------------------------
(* Operations and latencies are counted *)

\* What is true at first and remains true when something is recorded
Preserved(P, E) ==
    Unused \in P /\ \A m \in Metrics, e \in E : m \in P => Join(m, Apply(Unused, e)) \in P

\* is true of what a sequence adds up to.
LEMMA ReplayedKeeps ==
    ASSUME NEW E \in SUBSET AnyEvent, NEW events \in Seq(E), NEW P, Preserved(P, E)
    PROVE  Replayed(events) \in P
<1>. DEFINE n == Len(events)
<1>1. n \in Nat /\ events \in Seq(AnyEvent) /\ \A i \in 1 .. n : events[i] \in E
  OBVIOUS
<1>2. PICK run : Replay(run, events) /\ Replayed(events) = run[n]
  BY <1>1, ReplayExists
<1>. DEFINE S == {i \in 0 .. n : run[i] \in P}
<1>3. 0 \in S
  BY <1>1, <1>2 DEF Replay, Preserved
<1>4. ASSUME NEW i \in 0 .. n - 1, i \in S
      PROVE  i + 1 \in S
  <2>. DEFINE e == events[i + 1]
  <2>1. e \in E /\ i + 1 \in 0 .. n /\ i \in 0 .. n
    BY <1>1
  <2>2. run[i] \in Metrics /\ run[i + 1] = Apply(run[i], e)
    BY <1>2, <2>1 DEF Replay
  <2>. HIDE DEF e
  <2>3. run[i + 1] = Join(run[i], Apply(Unused, e))
    BY <2>1, <2>2, ApplyJoins
  <2>. QED
    BY <1>4, <2>1, <2>2, <2>3 DEF Preserved
<1>5. 0 .. n \subseteq S
  <2>. HIDE DEF S, n
  <2>. QED
    BY <1>1, <1>3, <1>4, BoundedInduction
<1>. QED
  BY <1>1, <1>2, <1>5

\* Each completed operation is counted or dropped, and counted in a bucket or as zero.
Counted(m) ==
    /\ Valid(m.latency)
    /\ m.latency.count + (m.latency.nonFinite + m.latency.belowRange + m.latency.aboveRange)
         = m.sums["completed"]

\* Valid, with the sum the lemmas are about.
LEMMA ValidIs ==
    ASSUME NEW h
    PROVE  Valid(h) <=> h.count = h.zeroCount + SumOf(h.counts)
  BY DEF Valid, SumOf

\* Whatever happened, the measurement counts it so.
LEMMA ReplayedCounted ==
    ASSUME NEW events \in Seq(AnyEvent)
    PROVE  Counted(Replayed(events))
<1>. DEFINE P == {m \in Metrics : Counted(m)}
<1>0. "completed" \in Sums
  BY DEF Sums
<1>1. Unused \in P
  <2>1. Unused.latency = EmptyHistogram /\ Unused.sums["completed"] = 0
    BY <1>0 DEF Unused
  <2>2. Valid(EmptyHistogram)
    BY EmptyCounts, ValidIs DEF EmptyHistogram
  <2>. QED
    BY <2>1, <2>2, UnusedType DEF Counted, EmptyHistogram
<1>2. ASSUME NEW m \in Metrics, NEW e \in AnyEvent, m \in P
      PROVE  Join(m, Apply(Unused, e)) \in P
  <2>. DEFINE d == Apply(Unused, e)
              j == Join(m, d)
  <2>1. d \in Metrics /\ Recorded(d, e)
    BY ApplyJoins, ApplyRecords
  <2>2. Counted(d)
    <3>1. CASE e.op \in {"response", "message"}
      <4>1. e.ms \in Latency
        BY <3>1, EventKinds
      <4>2. d.latency = Record(EmptyHistogram, e.ms) /\ d.sums["completed"] = 1
        BY <2>1, <3>1 DEF Recorded
      <4>. DEFINE h == d.latency
      <4>3. /\ h.count = IF InRange(e.ms) THEN 1 ELSE 0
            /\ h.nonFinite + h.belowRange + h.aboveRange = IF InRange(e.ms) THEN 0 ELSE 1
            /\ h.count = h.zeroCount + SumOf(h.counts)
        BY <4>1, <4>2, RecordOne
      <4>. HIDE DEF h
      <4>4. Valid(h)
        BY <4>3, ValidIs
      <4>. QED
        BY <4>2, <4>3, <4>4 DEF Counted, h
    <3>2. CASE e.op \notin {"response", "message"}
      <4>1. d.latency = EmptyHistogram /\ d.sums["completed"] = 0
        BY <2>1, <3>2 DEF Recorded
      <4>2. Valid(EmptyHistogram)
        BY EmptyCounts, ValidIs DEF EmptyHistogram
      <4>. QED
        BY <4>1, <4>2 DEF Counted, EmptyHistogram
    <3>. QED
      BY <3>1, <3>2
  <2>. HIDE DEF d
  <2>3. j \in Metrics /\ j.latency = Merge(m.latency, d.latency)
        /\ j.sums["completed"] = m.sums["completed"] + d.sums["completed"]
    BY <1>0, <2>1, JoinType DEF Join
  <2>4. m.latency \in Histogram /\ d.latency \in Histogram
        /\ m.sums["completed"] \in Nat /\ d.sums["completed"] \in Nat
    BY <1>0, <2>1 DEF Metrics
  <2>. DEFINE a == m.latency
              b == d.latency
              c == Merge(a, b)
  <2>5. /\ SumOf(c.counts) = SumOf(a.counts) + SumOf(b.counts)
        /\ SumOf(a.counts) \in Nat /\ SumOf(b.counts) \in Nat
    BY <2>4, MergeAdds
  <2>6. /\ c.count = a.count + b.count /\ c.zeroCount = a.zeroCount + b.zeroCount
        /\ c.nonFinite = a.nonFinite + b.nonFinite /\ c.belowRange = a.belowRange + b.belowRange
        /\ c.aboveRange = a.aboveRange + b.aboveRange
    BY DEF Merge
  <2>7. /\ a.count \in Nat /\ a.zeroCount \in Nat /\ a.nonFinite \in Nat /\ a.belowRange \in Nat
        /\ a.aboveRange \in Nat /\ b.count \in Nat /\ b.zeroCount \in Nat /\ b.nonFinite \in Nat
        /\ b.belowRange \in Nat /\ b.aboveRange \in Nat
    BY <2>4 DEF Histogram
  <2>8. /\ a.count = a.zeroCount + SumOf(a.counts) /\ b.count = b.zeroCount + SumOf(b.counts)
        /\ a.count + (a.nonFinite + a.belowRange + a.aboveRange) = m.sums["completed"]
        /\ b.count + (b.nonFinite + b.belowRange + b.aboveRange) = d.sums["completed"]
    BY <1>2, <2>2, ValidIs DEF Counted
  <2>9. j.latency = c
    BY <2>3
  <2>. HIDE DEF a, b, c, j
  <2>10. c.count = c.zeroCount + SumOf(c.counts)
    <3>. DEFINE x == SumOf(a.counts)
                y == SumOf(b.counts)
                u == a.zeroCount
                v == b.zeroCount
    <3>1. x \in Nat /\ y \in Nat /\ u \in Nat /\ v \in Nat
      BY <2>5, <2>7
    <3>2. c.count = (u + x) + (v + y) /\ c.zeroCount = u + v /\ SumOf(c.counts) = x + y
      BY <2>5, <2>6, <2>8
    <3>. HIDE DEF x, y, u, v
    <3>3. (u + x) + (v + y) = (u + v) + (x + y)
      BY <3>1
    <3>. QED
      BY <3>2, <3>3
  <2>11. c.count + (c.nonFinite + c.belowRange + c.aboveRange) = j.sums["completed"]
    <3>. DEFINE x == m.sums["completed"]
                y == d.sums["completed"]
                u == a.nonFinite + a.belowRange + a.aboveRange
                v == b.nonFinite + b.belowRange + b.aboveRange
    <3>1. a.count + u = x /\ b.count + v = y /\ j.sums["completed"] = x + y /\ c.count = a.count + b.count
      BY <2>3, <2>6, <2>8
    <3>2. c.nonFinite + c.belowRange + c.aboveRange = u + v /\ u \in Nat /\ v \in Nat
      <4>. DEFINE an == a.nonFinite
                  ab == a.belowRange
                  aa == a.aboveRange
                  bn == b.nonFinite
                  bb == b.belowRange
                  ba == b.aboveRange
      <4>1. an \in Nat /\ ab \in Nat /\ aa \in Nat /\ bn \in Nat /\ bb \in Nat /\ ba \in Nat
        BY <2>7
      <4>2. c.nonFinite = an + bn /\ c.belowRange = ab + bb /\ c.aboveRange = aa + ba
        BY <2>6
      <4>3. u = an + ab + aa /\ v = bn + bb + ba
        OBVIOUS
      <4>. HIDE DEF an, ab, aa, bn, bb, ba, u, v
      <4>4. (an + bn) + (ab + bb) + (aa + ba) = (an + ab + aa) + (bn + bb + ba)
        BY <4>1
      <4>5. u \in Nat /\ v \in Nat
        BY <4>1, <4>3
      <4>. QED
        BY <4>2, <4>3, <4>4, <4>5
    <3>3. x \in Nat /\ y \in Nat /\ a.count \in Nat /\ b.count \in Nat
      BY <2>4, <2>7
    <3>. HIDE DEF x, y, u, v
    <3>. DEFINE p == a.count
                q == b.count
    <3>4. (p + q) + (u + v) = (p + u) + (q + v)
      <4>1. p \in Nat /\ q \in Nat
        BY <3>3
      <4>. HIDE DEF p, q
      <4>. QED
        BY <3>2, <4>1
    <3>. QED
      BY <3>1, <3>2, <3>4
  <2>12. Valid(c)
    BY <2>10, ValidIs
  <2>. QED
    BY <2>3, <2>9, <2>11, <2>12 DEF Counted, j, d
<1>3. Replayed(events) \in P
  <2>1. Preserved(P, AnyEvent)
    <3>. HIDE DEF P
    <3>. QED
      BY <1>1, <1>2 DEF Preserved
  <2>. HIDE DEF P
  <2>. QED
    BY <2>1, ReplayedKeeps
<1>. QED
  BY <1>3

\* Every completed request of HTTP/1 has a status.
Answering(m) ==
    /\ m.statusCodeCounts[200] + m.statusCodeCounts[304] = m.sums["completed"]
    /\ m.statusCodeCounts[304] = m.sums["non2xx"]

\* What can happen to a connection of HTTP/1.
HttpEvent == {e \in AnyEvent : e.op # "message"}

\* In HTTP/1 every completed operation has a status.
LEMMA ReplayedAnswering ==
    ASSUME NEW events \in Seq(HttpEvent)
    PROVE  Answering(Replayed(events))
<1>. DEFINE P == {m \in Metrics : Answering(m)}
<1>0. "completed" \in Sums /\ "non2xx" \in Sums /\ 200 \in StatusCode /\ 304 \in StatusCode
      /\ StatusCode = {200, 304}
  BY DEF Sums, StatusCode
<1>1. Unused \in P
  <2>1. /\ Unused.statusCodeCounts[200] = 0 /\ Unused.statusCodeCounts[304] = 0
        /\ Unused.sums["completed"] = 0 /\ Unused.sums["non2xx"] = 0
    BY <1>0 DEF Unused
  <2>. QED
    BY <2>1, UnusedType DEF Answering
<1>2. ASSUME NEW m \in Metrics, NEW e \in HttpEvent, m \in P
      PROVE  Join(m, Apply(Unused, e)) \in P
  <2>. DEFINE d == Apply(Unused, e)
              j == Join(m, d)
  <2>0. e \in AnyEvent /\ e.op # "message"
    BY DEF HttpEvent
  <2>1. d \in Metrics /\ Recorded(d, e)
    BY <2>0, ApplyJoins, ApplyRecords
  <2>. HIDE DEF d
  <2>2. Answering(d)
    <3>1. CASE e.op = "response"
      <4>1. e.status = 200 \/ e.status = 304
        BY <1>0, <2>0, <3>1, EventKinds
      <4>2. /\ d.sums["completed"] = 1
            /\ d.sums["non2xx"] = IF e.status \notin 200 .. 299 THEN 1 ELSE 0
            /\ d.statusCodeCounts = [s \in StatusCode |-> IF s = e.status THEN 1 ELSE 0]
        BY <2>1, <3>1 DEF Recorded
      <4>3. /\ d.statusCodeCounts[200] = IF e.status = 200 THEN 1 ELSE 0
            /\ d.statusCodeCounts[304] = IF e.status = 304 THEN 1 ELSE 0
        BY <1>0, <4>1, <4>2
      <4>4. CASE e.status = 200
        <5>1. d.statusCodeCounts[200] = 1 /\ d.statusCodeCounts[304] = 0 /\ d.sums["non2xx"] = 0
          BY <4>2, <4>3, <4>4
        <5>2. d.sums["completed"] = 1
          BY <4>2
        <5>3. d.statusCodeCounts[200] + d.statusCodeCounts[304] = 1
          BY <5>1
        <5>. QED
          BY <5>1, <5>2, <5>3 DEF Answering
      <4>5. CASE e.status = 304
        <5>1. d.statusCodeCounts[200] = 0 /\ d.statusCodeCounts[304] = 1 /\ d.sums["non2xx"] = 1
          BY <4>2, <4>3, <4>5
        <5>2. d.sums["completed"] = 1
          BY <4>2
        <5>3. d.statusCodeCounts[200] + d.statusCodeCounts[304] = 1
          BY <5>1
        <5>. QED
          BY <5>1, <5>2, <5>3 DEF Answering
      <4>. QED
        BY <4>1, <4>4, <4>5
    <3>2. CASE e.op # "response"
      <4>1. /\ d.sums["completed"] = 0 /\ d.sums["non2xx"] = 0
            /\ d.statusCodeCounts = [s \in StatusCode |-> 0]
        BY <2>0, <2>1, <3>2 DEF Recorded
      <4>. QED
        BY <1>0, <4>1 DEF Answering
    <3>. QED
      BY <3>1, <3>2
  <2>3. /\ j \in Metrics
        /\ j.sums["completed"] = m.sums["completed"] + d.sums["completed"]
        /\ j.sums["non2xx"] = m.sums["non2xx"] + d.sums["non2xx"]
        /\ j.statusCodeCounts[200] = m.statusCodeCounts[200] + d.statusCodeCounts[200]
        /\ j.statusCodeCounts[304] = m.statusCodeCounts[304] + d.statusCodeCounts[304]
    BY <1>0, <2>1, JoinType DEF Join
  <2>4. /\ m.sums["completed"] \in Nat /\ d.sums["completed"] \in Nat
        /\ m.sums["non2xx"] \in Nat /\ d.sums["non2xx"] \in Nat
        /\ m.statusCodeCounts[200] \in Nat /\ d.statusCodeCounts[200] \in Nat
        /\ m.statusCodeCounts[304] \in Nat /\ d.statusCodeCounts[304] \in Nat
    BY <1>0, <2>1 DEF Metrics
  <2>. HIDE DEF j
  <2>5. Answering(j)
    <3>. DEFINE p == m.statusCodeCounts[200]
                q == m.statusCodeCounts[304]
                u == d.statusCodeCounts[200]
                v == d.statusCodeCounts[304]
    <3>1. /\ p + q = m.sums["completed"] /\ q = m.sums["non2xx"]
          /\ u + v = d.sums["completed"] /\ v = d.sums["non2xx"]
      BY <1>2, <2>2 DEF Answering
    <3>2. p \in Nat /\ q \in Nat /\ u \in Nat /\ v \in Nat
      BY <2>4
    <3>3. j.statusCodeCounts[200] = p + u /\ j.statusCodeCounts[304] = q + v
      BY <2>3
    <3>. HIDE DEF p, q, u, v
    <3>4. (p + u) + (q + v) = (p + q) + (u + v)
      BY <3>2
    <3>. QED
      BY <2>3, <3>1, <3>3, <3>4 DEF Answering
  <2>. QED
    BY <2>3, <2>5 DEF j, d
<1>3. Replayed(events) \in P
  <2>1. Preserved(P, HttpEvent)
    <3>. HIDE DEF P
    <3>. QED
      BY <1>1, <1>2 DEF Preserved
  <2>2. HttpEvent \in SUBSET AnyEvent
    BY DEF HttpEvent
  <2>. HIDE DEF P
  <2>. QED
    BY <2>1, <2>2, ReplayedKeeps
<1>. QED
  BY <1>3
--------------------------------------------------------------------------------
(* The histogram against the latencies it stands for *)

\* An operation whose latency the histogram keeps.
Accepts(e) == e.op \in {"response", "message"} /\ InRange(e.ms)

\* A histogram of some events counts them below each upper bound of a bucket, and
\* their midpoints add up to about what they add up to.
Exactly(events, h) ==
    /\ h.count = Cardinality(Accepted(events)) /\ h.count \in Nat
    /\ h.zeroCount = AtMost(events, 0)
    /\ \A i \in Buckets : Cumulative(h, i) = AtMost(events, Lower[i + 1] - 1)
    /\ ExactTotal(events) \in Nat /\ Near(Total(h), ExactTotal(events))

\* There are finitely many of them, all with a latency.
LEMMA AcceptedType ==
    ASSUME NEW events \in Seq(AnyEvent)
    PROVE  /\ Accepted(events) = {i \in 1 .. Len(events) : Accepts(events[i])}
           /\ IsFiniteSet(Accepted(events)) /\ Cardinality(Accepted(events)) \in Nat
           /\ \A i \in Accepted(events) : events[i].ms \in Nat /\ events[i] \in AnyEvent
           /\ \A v : AtMost(events, v) \in Nat /\ AtMost(events, v) <= Cardinality(Accepted(events))
<1>. DEFINE A == Accepted(events)
<1>1. A = {i \in 1 .. Len(events) : Accepts(events[i])} /\ \A i \in 1 .. Len(events) : events[i] \in AnyEvent
  BY DEF Accepted, Accepts, InRange
<1>2. Len(events) \in Nat
  OBVIOUS
<1>3. IsFiniteSet(1 .. Len(events)) /\ A \subseteq 1 .. Len(events)
  BY <1>1, <1>2, FS_Interval
<1>4. IsFiniteSet(A) /\ Cardinality(A) \in Nat
  BY <1>3, FS_Subset, FS_CardinalityType
<1>5. ASSUME NEW i \in A
      PROVE  events[i].ms \in Nat /\ events[i] \in AnyEvent
  <2>1. Accepts(events[i]) /\ events[i] \in AnyEvent
    BY <1>1
  <2>. QED
    BY <2>1, LatencyAssumption DEF Accepts, InRange
<1>6. ASSUME NEW v
      PROVE  AtMost(events, v) \in Nat /\ AtMost(events, v) <= Cardinality(A)
  <2>. DEFINE B == {i \in A : events[i].ms <= v}
  <2>1. B \subseteq A
    OBVIOUS
  <2>2. IsFiniteSet(B) /\ Cardinality(B) <= Cardinality(A) /\ Cardinality(B) \in Nat
    <3>. HIDE DEF B
    <3>. QED
      BY <1>4, <2>1, FS_Subset, FS_CardinalityType
  <2>. QED
    BY <2>2 DEF AtMost
<1>. HIDE DEF A
<1>. QED
  BY <1>1, <1>4, <1>5, <1>6 DEF A

\* An event more is counted where it belongs.
LEMMA AcceptedAppend ==
    ASSUME NEW s \in Seq(AnyEvent), NEW e \in AnyEvent, NEW t, t = Append(s, e)
    PROVE  /\ Cardinality(Accepted(t)) = Cardinality(Accepted(s)) + IF Accepts(e) THEN 1 ELSE 0
           /\ \A v : AtMost(t, v) = AtMost(s, v) + IF Accepts(e) /\ e.ms <= v THEN 1 ELSE 0
           /\ ExactTotal(s) \in Nat
           /\ ExactTotal(t) = ExactTotal(s) + IF Accepts(e) THEN e.ms ELSE 0
<1>. DEFINE n == Len(s)
            A == Accepted(s)
            B == Accepted(t)
<1>1. /\ t \in Seq(AnyEvent) /\ Len(t) = n + 1 /\ n \in Nat
      /\ \A i \in 1 .. n : t[i] = s[i] /\ t[n + 1] = e
  OBVIOUS
<1>0. t[n + 1] = e
  OBVIOUS
<1>2. /\ A = {i \in 1 .. n : Accepts(s[i])} /\ IsFiniteSet(A) /\ Cardinality(A) \in Nat
      /\ \A i \in A : s[i].ms \in Nat
  BY AcceptedType
<1>3. /\ B = {i \in 1 .. n + 1 : Accepts(t[i])} /\ IsFiniteSet(B) /\ Cardinality(B) \in Nat
      /\ \A i \in B : t[i].ms \in Nat
  BY <1>1, AcceptedType
<1>4. n + 1 \notin A /\ A \subseteq 1 .. n
  BY <1>1, <1>2
<1>. HIDE DEF A, B, n
<1>5. B = IF Accepts(e) THEN A \cup {n + 1} ELSE A
  BY <1>0, <1>1, <1>2, <1>3
<1>6. \A i \in A : t[i] = s[i]
  BY <1>1, <1>4
<1>7. Cardinality(B) = Cardinality(A) + IF Accepts(e) THEN 1 ELSE 0
  <2>1. Cardinality(A \cup {n + 1}) = Cardinality(A) + 1
    BY <1>2, <1>4, FS_AddElement
  <2>2. CASE Accepts(e)
    BY <1>5, <2>1, <2>2
  <2>3. CASE ~Accepts(e)
    BY <1>2, <1>5, <2>3
  <2>. QED
    BY <2>2, <2>3
<1>8. ASSUME NEW v
      PROVE  AtMost(t, v) = AtMost(s, v) + IF Accepts(e) /\ e.ms <= v THEN 1 ELSE 0
  <2>. DEFINE C == {i \in A : s[i].ms <= v}
              D == {i \in B : t[i].ms <= v}
  <2>1. C \subseteq A /\ n + 1 \notin C
    BY <1>4
  <2>2. D = IF Accepts(e) /\ e.ms <= v THEN C \cup {n + 1} ELSE C
    BY <1>0, <1>4, <1>5, <1>6
  <2>3. AtMost(s, v) = Cardinality(C) /\ AtMost(t, v) = Cardinality(D)
    BY DEF AtMost, A, B
  <2>. HIDE DEF C, D
  <2>4. IsFiniteSet(C) /\ Cardinality(C) \in Nat
    BY <1>2, <2>1, FS_Subset, FS_CardinalityType
  <2>5. Cardinality(C \cup {n + 1}) = Cardinality(C) + 1
    BY <2>1, <2>4, FS_AddElement
  <2>6. CASE Accepts(e) /\ e.ms <= v
    BY <2>2, <2>3, <2>5, <2>6
  <2>7. CASE ~(Accepts(e) /\ e.ms <= v)
    BY <2>2, <2>3, <2>4, <2>7
  <2>. QED
    BY <2>6, <2>7
<1>. DEFINE f == [i \in A |-> s[i].ms]
            g == [i \in B |-> t[i].ms]
<1>9. ExactTotal(s) = SumOf(f) /\ ExactTotal(t) = SumOf(g)
  BY DEF ExactTotal, SumOver, SumOf, A, B
<1>10. f \in [A -> Nat] /\ g \in [B -> Nat]
  BY <1>2, <1>3
<1>11. SumOf(f) \in Nat
  <2>. HIDE DEF f
  <2>. QED
    BY <1>2, <1>10, SumType
<1>12. CASE Accepts(e)
  <2>1. f = [i \in B \ {n + 1} |-> g[i]]
    <3>1. B \ {n + 1} = A
      BY <1>4, <1>5, <1>12
    <3>2. \A i \in A : g[i] = s[i].ms
      BY <1>5, <1>6, <1>12
    <3>. QED
      BY <3>1, <3>2
  <2>2. n + 1 \in B /\ g[n + 1] = e.ms
    BY <1>0, <1>5, <1>12
  <2>3. g \in [B -> Int]
    <3>1. \A i \in B : t[i].ms \in Nat
      BY <1>3
    <3>2. \A i \in B : g[i] \in Int
      <4>1. \A i \in B : g[i] = t[i].ms
        OBVIOUS
      <4>. HIDE DEF g
      <4>2. \A x : x \in Nat => x \in Int
        OBVIOUS
      <4>. QED
        BY <3>1, <4>1, <4>2, Zenon
    <3>. QED
      BY <3>2
  <2>4. SumOf(g) = g[n + 1] + SumOf(f)
    <3>1. f = Without(g, n + 1)
      BY <2>1 DEF Without
    <3>. HIDE DEF f, g
    <3>. QED
      BY <1>3, <2>2, <2>3, <3>1, SumWithout
  <2>5. e.ms \in Nat
    BY <1>3, <2>2
  <2>. HIDE DEF f, g
  <2>. QED
    BY <1>7, <1>8, <1>9, <1>11, <1>12, <2>2, <2>4, <2>5 DEF A, B
<1>13. CASE ~Accepts(e)
  <2>1. g = f
    BY <1>5, <1>6, <1>13
  <2>. HIDE DEF f, g
  <2>. QED
    BY <1>7, <1>8, <1>9, <1>11, <1>13, <2>1 DEF A, B
<1>. QED
  BY <1>12, <1>13

\* No events, an empty histogram;
LEMMA ExactlyEmpty == Exactly(<<>>, EmptyHistogram)
<1>. DEFINE s == <<>>
<1>1. s \in Seq(AnyEvent) /\ Len(s) = 0
  OBVIOUS
<1>2. Accepted(s) = {}
  <2>1. 1 .. Len(s) = {}
    BY <1>1
  <2>. HIDE DEF s
  <2>2. Accepted(s) = {i \in 1 .. Len(s) : Accepts(s[i])}
    BY <1>1, AcceptedType
  <2>. QED
    BY <2>1, <2>2
<1>3. Cardinality({}) = 0 /\ IsFiniteSet({})
  BY FS_EmptySet
<1>4. \A v : AtMost(s, v) = 0
  BY <1>2, <1>3 DEF AtMost
<1>5. ExactTotal(s) = 0
  <2>. DEFINE f == [i \in Accepted(s) |-> s[i].ms]
  <2>1. f \in [{} -> Int] /\ \A x \in {} : f[x] = 0
    BY <1>2
  <2>2. ExactTotal(s) = SumOf(f)
    BY DEF ExactTotal, SumOver, SumOf
  <2>. HIDE DEF f
  <2>. QED
    BY <1>3, <2>1, <2>2, SumZero
<1>6. EmptyHistogram.count = 0 /\ EmptyHistogram.zeroCount = 0
  BY DEF EmptyHistogram
<1>7. Near(0, 0)
  BY DEF Near
<1>. HIDE DEF s
<1>8. Total(EmptyHistogram) = 0 /\ \A i \in Buckets : Cumulative(EmptyHistogram, i) = 0
  BY EmptyCounts
<1>9. \A i \in Buckets : Cumulative(EmptyHistogram, i) = AtMost(s, Lower[i + 1] - 1)
  BY <1>4, <1>8
<1>10. Exactly(s, EmptyHistogram)
  BY <1>2, <1>3, <1>4, <1>5, <1>6, <1>7, <1>8, <1>9 DEF Exactly
<1>. QED
  BY <1>10 DEF s

\* one event more, and its latency merged.
LEMMA ExactlyAppend ==
    ASSUME NEW s \in Seq(AnyEvent), NEW e \in AnyEvent, NEW h \in Histogram, Exactly(s, h)
    PROVE  Exactly(Append(s, e), Merge(h, Apply(Unused, e).latency))
<1>. DEFINE t == Append(s, e)
            d == Apply(Unused, e).latency
            m == Merge(h, d)
<1>1. d \in Histogram /\ Recorded(Apply(Unused, e), e)
  <2>1. Apply(Unused, e) \in Metrics
    BY ApplyJoins, UnusedType
  <2>. QED
    BY <2>1, ApplyRecords DEF Metrics
<1>2. /\ d.count = IF Accepts(e) THEN 1 ELSE 0
      /\ d.zeroCount = IF Accepts(e) /\ e.ms <= 0 THEN 1 ELSE 0
      /\ \A i \in Buckets : Cumulative(d, i) = IF Accepts(e) /\ e.ms <= Lower[i + 1] - 1 THEN 1 ELSE 0
      /\ Accepts(e) => Near(Total(d), e.ms) /\ Total(d) \in Int /\ e.ms \in Nat
      /\ ~Accepts(e) => Total(d) = 0
  <2>1. CASE e.op \in {"response", "message"}
    <3>1. e.ms \in Latency
      BY <2>1, EventKinds
    <3>2. d = Record(EmptyHistogram, e.ms)
      BY <1>1, <2>1 DEF Recorded
    <3>3. Accepts(e) <=> InRange(e.ms)
      BY <2>1 DEF Accepts
    <3>4. (e.ms = 0) <=> (InRange(e.ms) /\ e.ms <= 0)
      BY LatencyAssumption DEF InRange
    <3>. HIDE DEF d
    <3>. QED
      BY <3>1, <3>2, <3>3, <3>4, RecordOne
  <2>2. CASE e.op \notin {"response", "message"}
    <3>1. d = EmptyHistogram
      BY <1>1, <2>2 DEF Recorded
    <3>2. ~Accepts(e)
      BY <2>2 DEF Accepts
    <3>3. EmptyHistogram.count = 0 /\ EmptyHistogram.zeroCount = 0
      BY DEF EmptyHistogram
    <3>. HIDE DEF d
    <3>. QED
      BY <3>1, <3>2, <3>3, EmptyCounts
  <2>. QED
    BY <2>1, <2>2
<1>. HIDE DEF d, t
<1>3. /\ Cardinality(Accepted(t)) = Cardinality(Accepted(s)) + IF Accepts(e) THEN 1 ELSE 0
      /\ \A v : AtMost(t, v) = AtMost(s, v) + IF Accepts(e) /\ e.ms <= v THEN 1 ELSE 0
      /\ ExactTotal(s) \in Nat
      /\ ExactTotal(t) = ExactTotal(s) + IF Accepts(e) THEN e.ms ELSE 0
  BY AcceptedAppend DEF t
<1>4. /\ \A i \in Buckets : Cumulative(m, i) = Cumulative(h, i) + Cumulative(d, i)
      /\ Total(m) = Total(h) + Total(d) /\ Total(h) \in Int /\ Total(d) \in Int
      /\ m.count = h.count + d.count /\ m.zeroCount = h.zeroCount + d.zeroCount
  <2>1. m.count = h.count + d.count /\ m.zeroCount = h.zeroCount + d.zeroCount
    BY DEF Merge
  <2>. HIDE DEF m
  <2>. QED
    BY <1>1, <2>1, MergeAdds DEF m
<1>. HIDE DEF m
<1>5. m.count = Cardinality(Accepted(t)) /\ m.count \in Nat /\ m.zeroCount = AtMost(t, 0)
  BY <1>2, <1>3, <1>4 DEF Exactly
<1>6. \A i \in Buckets : Cumulative(m, i) = AtMost(t, Lower[i + 1] - 1)
  BY <1>2, <1>3, <1>4 DEF Exactly
<1>7. ExactTotal(t) \in Nat /\ Near(Total(m), ExactTotal(t))
  <2>1. Near(Total(h), ExactTotal(s))
    BY DEF Exactly
  <2>. DEFINE x == Total(h)
              y == ExactTotal(s)
              z == Total(d)
              u == Total(m)
              r == ExactTotal(t)
  <2>2. CASE Accepts(e)
    <3>1. /\ z \in Int /\ e.ms \in Nat /\ Near(z, e.ms) /\ Near(x, y)
          /\ x \in Int /\ y \in Nat /\ u = x + z /\ r = y + e.ms
      BY <1>2, <1>3, <1>4, <2>1, <2>2
    <3>. HIDE DEF x, y, z, u, r
    <3>2. PICK v : v = e.ms
      OBVIOUS
    <3>3. 2 * (z - v) \in -v .. v /\ 2 * (x - y) \in -y .. y /\ v \in Nat
      BY <3>1, <3>2 DEF Near
    <3>4. r \in Nat /\ 2 * (u - r) \in -r .. r
      <4>1. z \in Int /\ x \in Int /\ y \in Nat /\ u = x + z /\ r = y + v
        BY <3>1, <3>2
      <4>. QED
        BY ONLY <3>3, <4>1
    <3>5. r \in Nat /\ Near(u, r)
      BY <3>4 DEF Near
    <3>. QED
      BY <3>5 DEF u, r
  <2>3. CASE ~Accepts(e)
    <3>1. z = 0 /\ x \in Int /\ y \in Nat /\ u = x + z /\ r = y + 0 /\ Near(x, y)
      BY <1>2, <1>3, <1>4, <2>1, <2>3
    <3>. HIDE DEF x, y, z, u, r
    <3>2. u = x /\ r = y
      BY <3>1
    <3>. QED
      BY <3>1, <3>2 DEF u, r, x, y
  <2>. QED
    BY <2>2, <2>3
<1>. QED
  BY <1>5, <1>6, <1>7 DEF Exactly, m, t, d

\* The histogram of replayed events is exactly theirs.
LEMMA ReplayedExactly ==
    ASSUME NEW events \in Seq(AnyEvent)
    PROVE  Exactly(events, Replayed(events).latency)
<1>. DEFINE n == Len(events)
            pre(k) == SubSeq(events, 1, k)
<1>1. n \in Nat /\ \A i \in 1 .. n : events[i] \in AnyEvent
  OBVIOUS
<1>2. pre(0) = <<>> /\ pre(n) = events
  OBVIOUS
<1>3. ASSUME NEW k \in 0 .. n - 1
      PROVE  pre(k) \in Seq(AnyEvent) /\ pre(k + 1) = Append(pre(k), events[k + 1])
  OBVIOUS
<1>. DEFINE S == {k \in 0 .. n : Exactly(pre(k), Replayed(pre(k)).latency)}
<1>4. 0 \in S
  <2>1. Replayed(<<>>).latency = EmptyHistogram
    BY ReplayedEmpty DEF Unused
  <2>. HIDE DEF pre
  <2>. QED
    BY <1>1, <1>2, <2>1, ExactlyEmpty
<1>5. ASSUME NEW k \in 0 .. n - 1, k \in S
      PROVE  k + 1 \in S
  <2>. DEFINE s == pre(k)
              e == events[k + 1]
              m == Replayed(s)
  <2>1. s \in Seq(AnyEvent) /\ e \in AnyEvent /\ pre(k + 1) = Append(s, e) /\ k + 1 \in 0 .. n
    BY <1>1, <1>3
  <2>2. Exactly(s, m.latency)
    BY <1>5
  <2>. HIDE DEF s, e, S, pre
  <2>3. m \in Metrics /\ Replayed(Append(s, e)) = Apply(m, e)
    BY <2>1, ReplayedType, ReplayedAppend
  <2>. HIDE DEF m
  <2>4. Apply(m, e) = Join(m, Apply(Unused, e)) /\ m.latency \in Histogram
    BY <2>1, <2>3, ApplyJoins DEF Metrics
  <2>5. Replayed(Append(s, e)).latency = Merge(m.latency, Apply(Unused, e).latency)
    BY <2>3, <2>4 DEF Join
  <2>6. Exactly(Append(s, e), Replayed(Append(s, e)).latency)
    BY <2>1, <2>2, <2>4, <2>5, ExactlyAppend
  <2>. QED
    BY <2>1, <2>6 DEF S
<1>6. 0 .. n \subseteq S
  <2>. HIDE DEF S, n
  <2>. QED
    BY <1>1, <1>4, <1>5, BoundedInduction
<1>7. Exactly(pre(n), Replayed(pre(n)).latency)
  <2>1. n \in 0 .. n
    BY <1>1
  <2>. HIDE DEF n, pre
  <2>. QED
    BY <1>6, <2>1
<1>. HIDE DEF pre
<1>. QED
  BY <1>2, <1>7
--------------------------------------------------------------------------------
(* Quantiles *)

\* Those of the summary, in thousandths.
Fractions == {500, 950, 975, 990}

\* The least number of n observations that is at least a fraction of them.
LeastShare(n, f, rank) ==
    /\ rank \in 1 .. n /\ n * f \in Nat \ {0}
    /\ \A c \in Nat : c >= rank <=> c * 1000 >= n * f

\* The nearest rank is that number.
LEMMA RankIs ==
    ASSUME NEW n \in Nat \ {0}, NEW f \in Fractions
    PROVE  LeastShare(n, f, Rank(n, f))
<1>1. ASSUME NEW a \in Nat \ {0}
      PROVE  (a + 999) \div 1000 \in Nat /\ \A c \in Nat : c >= (a + 999) \div 1000 <=> c * 1000 >= a
  OBVIOUS
<1>2. n * f \in Nat \ {0} /\ n * f <= n * 1000
  <2>1. CASE f = 500
    BY <2>1
  <2>2. CASE f = 950
    BY <2>2
  <2>3. CASE f = 975
    BY <2>3
  <2>4. CASE f = 990
    BY <2>4
  <2>. QED
    BY <2>1, <2>2, <2>3, <2>4 DEF Fractions
<1>. DEFINE a == n * f
            r == (a + 999) \div 1000
<1>3. Rank(n, f) = r
  BY <1>2 DEF Rank
<1>4. r \in Nat /\ \A c \in Nat : c >= r <=> c * 1000 >= a
  BY <1>1, <1>2
<1>5. a \in Nat \ {0} /\ a <= n * 1000
  BY <1>2
<1>. HIDE DEF a, r
<1>6. r \in 1 .. n
  <2>1. n >= r
    BY <1>4, <1>5
  <2>2. ~(0 >= r)
    BY <1>4, <1>5
  <2>. QED
    BY <1>4, <2>1, <2>2
<1>. QED
  BY <1>3, <1>4, <1>5, <1>6 DEF a, LeastShare

\* More observations are at most a greater value.
LEMMA AtMostRises ==
    ASSUME NEW events \in Seq(AnyEvent), NEW v \in Int, NEW u \in Int, v <= u
    PROVE  AtMost(events, v) <= AtMost(events, u)
<1>. DEFINE A == Accepted(events)
            B == {i \in A : events[i].ms <= v}
            C == {i \in A : events[i].ms <= u}
<1>1. IsFiniteSet(A) /\ \A i \in A : events[i].ms \in Nat
  BY AcceptedType
<1>. HIDE DEF A
<1>2. B \subseteq C /\ C \subseteq A
  BY <1>1
<1>3. AtMost(events, v) = Cardinality(B) /\ AtMost(events, u) = Cardinality(C)
  BY DEF AtMost, A
<1>. HIDE DEF B, C
<1>4. IsFiniteSet(C)
  BY <1>1, <1>2, FS_Subset
<1>. QED
  BY <1>2, <1>3, <1>4, FS_Subset

\* The value with a given rank: as many are at most it, but not so many less.
Ranks(events, v, rank) == AtMost(events, v) >= rank /\ AtMost(events, v - 1) < rank

Samples(events) == {events[i].ms : i \in Accepted(events)}

\* The latencies that are kept are zero or in range.
LEMMA SamplesType ==
    ASSUME NEW events \in Seq(AnyEvent)
    PROVE  \A v \in Samples(events) : v \in Nat /\ InRange(v)
<1>1. ASSUME NEW i \in Accepted(events)
      PROVE  InRange(events[i].ms) /\ events[i].ms \in Nat
  <2>1. Accepted(events) = {j \in 1 .. Len(events) : Accepts(events[j])}
    BY AcceptedType
  <2>2. events[i].ms \in Nat
    BY AcceptedType
  <2>. QED
    BY <2>1, <2>2 DEF Accepts
<1>. QED
  BY <1>1 DEF Samples

\* There is one for every rank.
LEMMA RankReached ==
    ASSUME NEW events \in Seq(AnyEvent), NEW rank \in 1 .. Cardinality(Accepted(events))
    PROVE  \E v \in Samples(events) : Ranks(events, v, rank)
<1>. DEFINE A == Accepted(events)
            Under(v) == {i \in A : events[i].ms <= v}
            S == {v \in Nat : AtMost(events, v) >= rank}
<1>1. IsFiniteSet(A) /\ Cardinality(A) \in Nat /\ \A i \in A : events[i].ms \in Nat /\ InRange(events[i].ms)
  <2>1. \A v \in Samples(events) : InRange(v)
    BY SamplesType
  <2>2. \A i \in A : events[i].ms \in Samples(events)
    BY DEF Samples
  <2>. QED
    BY <2>1, <2>2, AcceptedType
<1>2. \A v : AtMost(events, v) = Cardinality(Under(v)) /\ AtMost(events, v) \in Nat
  BY AcceptedType DEF AtMost
<1>3. Highest \in S
  <2>1. Under(Highest) = A
    BY <1>1, LatencyAssumption DEF InRange
  <2>2. AtMost(events, Highest) = Cardinality(A)
    BY <1>2, <2>1
  <2>. QED
    BY <1>1, <2>2, LatencyAssumption
<1>4. PICK v \in S : \A u \in S : v <= u
  <2>1. S \in SUBSET Nat /\ S # {}
    BY <1>3
  <2>. HIDE DEF S
  <2>. QED
    BY <2>1, LeastNatural
<1>5. v \in Nat /\ AtMost(events, v) >= rank
  BY <1>4
<1>6. AtMost(events, v - 1) < rank
  <2>1. CASE v = 0
    <3>1. Under(v - 1) = {}
      BY <1>1, <2>1
    <3>2. AtMost(events, v - 1) = 0
      BY <1>2, <3>1, FS_EmptySet
    <3>. QED
      BY <3>2
  <2>2. CASE v # 0
    <3>1. v - 1 \in Nat /\ v - 1 < v
      BY <1>5, <2>2
    <3>2. v - 1 \notin S
      BY <1>4, <1>5, <3>1
    <3>3. AtMost(events, v - 1) \in Nat
      BY <1>2
    <3>. QED
      BY <1>1, <3>1, <3>2, <3>3
  <2>. QED
    BY <2>1, <2>2
<1>7. v \in Samples(events)
  <2>1. SUFFICES ASSUME v \notin Samples(events)
                 PROVE  FALSE
    OBVIOUS
  <2>2. \A i \in A : events[i].ms # v
    BY <2>1 DEF Samples
  <2>3. Under(v) = Under(v - 1)
    <3>1. \A i \in A : events[i].ms <= v <=> events[i].ms <= v - 1
      BY <1>1, <1>5, <2>2
    <3>. QED
      BY <3>1
  <2>4. AtMost(events, v) = AtMost(events, v - 1)
    BY <1>2, <2>3
  <2>. QED
    BY <1>2, <1>5, <1>6, <2>4
<1>. QED
  BY <1>5, <1>6, <1>7 DEF Ranks

\* The exact quantile is the latency with the nearest rank.
LEMMA ExactQuantileIs ==
    ASSUME NEW events \in Seq(AnyEvent), Accepted(events) # {},
           NEW f \in Fractions
    PROVE  LET n == Cardinality(Accepted(events))
               v == ExactQuantile(events, f)
           IN  /\ n \in Nat \ {0}
               /\ v \in Samples(events) /\ Ranks(events, v, Rank(n, f))
<1>. DEFINE A == Accepted(events)
            n == Cardinality(A)
            rank == Rank(n, f)
            Fits(v) == /\ AtMost(events, v) * 1000 >= n * f
                       /\ AtMost(events, v - 1) * 1000 < n * f \/ AtMost(events, v - 1) = 0
<1>1. n \in Nat \ {0}
  <2>1. IsFiniteSet(A) /\ n \in Nat
    BY AcceptedType
  <2>2. n # 0
    BY <2>1, FS_EmptySet
  <2>. QED
    BY <2>1, <2>2
<1>2. /\ rank \in 1 .. n /\ n * f \in Nat \ {0}
      /\ \A c \in Nat : c >= rank <=> c * 1000 >= n * f
  <2>. HIDE DEF n
  <2>1. LeastShare(n, f, rank)
    BY <1>1, RankIs
  <2>. HIDE DEF rank
  <2>. QED
    BY <2>1 DEF LeastShare
<1>3. \A v : AtMost(events, v) \in Nat
  BY AcceptedType
<1>4. PICK v \in Samples(events) : Ranks(events, v, rank)
  BY <1>2, RankReached
<1>5. ExactQuantile(events, f) = CHOOSE u \in Samples(events) : Fits(u)
  BY DEF ExactQuantile, Samples
<1>. HIDE DEF n, rank
<1>6. \A u : Fits(u) <=> Ranks(events, u, rank)
  <2>1. ASSUME NEW u
        PROVE  Fits(u) <=> Ranks(events, u, rank)
    <3>. DEFINE x == AtMost(events, u)
                y == AtMost(events, u - 1)
    <3>1. x \in Nat /\ y \in Nat
      BY <1>3
    <3>2. (x >= rank <=> x * 1000 >= n * f) /\ (y >= rank <=> y * 1000 >= n * f)
      BY <1>2, <3>1
    <3>3. n * f \in Nat \ {0} /\ rank \in Nat /\ rank >= 1
      BY <1>1, <1>2
    <3>4. Ranks(events, u, rank) <=> x >= rank /\ y < rank
      BY DEF Ranks
    <3>5. Fits(u) <=> x * 1000 >= n * f /\ (y * 1000 < n * f \/ y = 0)
      OBVIOUS
    <3>. HIDE DEF x, y, Fits
    <3>6. y < rank <=> y * 1000 < n * f \/ y = 0
      <4>. DEFINE a == n * f
      <4>1. a \in Nat \ {0} /\ (y >= rank <=> y * 1000 >= a) /\ y \in Nat
        BY <3>1, <3>2, <3>3
      <4>. HIDE DEF a
      <4>2. y < rank <=> y * 1000 < a \/ y = 0
        BY <3>3, <4>1
      <4>. QED
        BY <4>2 DEF a
    <3>. QED
      BY <3>2, <3>4, <3>5, <3>6
  <2>. QED
    BY <2>1
<1>. HIDE DEF Fits
<1>7. \E u \in Samples(events) : Fits(u)
  BY <1>4, <1>6
<1>8. ExactQuantile(events, f) \in Samples(events) /\ Fits(ExactQuantile(events, f))
  BY <1>5, <1>7
<1>9. Ranks(events, ExactQuantile(events, f), rank)
  BY <1>6, <1>8
<1>. QED
  BY <1>1, <1>8, <1>9 DEF n, rank

\* A quantile of the histogram lies in the bucket of the latency it is about.
LEMMA QuantileNear ==
    ASSUME NEW events \in Seq(AnyEvent), Accepted(events) # {}, NEW h, Exactly(events, h),
           NEW f \in Fractions
    PROVE  Near(Quantile(h, f), ExactQuantile(events, f))
<1>. DEFINE n == Cardinality(Accepted(events))
            v == ExactQuantile(events, f)
            rank == Rank(n, f)
<1>1. n \in Nat \ {0} /\ v \in Samples(events) /\ Ranks(events, v, rank)
  BY ExactQuantileIs
<1>2. h.count = n /\ h.zeroCount = AtMost(events, 0)
  BY DEF Exactly
<1>3. \A i \in Buckets : Cumulative(h, i) = AtMost(events, Lower[i + 1] - 1)
  BY DEF Exactly
<1>. HIDE DEF n, v
<1>4. v \in Nat /\ InRange(v)
  BY <1>1, SamplesType
<1>5. rank \in 1 .. n
  <2>1. LeastShare(n, f, rank)
    BY <1>1, RankIs
  <2>. HIDE DEF rank
  <2>. QED
    BY <2>1 DEF LeastShare
<1>. HIDE DEF rank
<1>6. AtMost(events, v) >= rank /\ AtMost(events, v - 1) < rank
  BY <1>1 DEF Ranks
<1>7. \A u : AtMost(events, u) \in Nat
  BY AcceptedType
<1>8. \A u, x \in Int : u <= x => AtMost(events, u) <= AtMost(events, x)
  BY AtMostRises
<1>9. CASE rank <= h.zeroCount
  <2>1. v = 0
    <3>1. SUFFICES ASSUME v # 0
                   PROVE  FALSE
      OBVIOUS
    <3>2. AtMost(events, 0) <= AtMost(events, v - 1)
      BY <1>4, <1>8, <3>1
    <3>. QED
      BY <1>1, <1>2, <1>5, <1>6, <1>7, <1>9, <3>2
  <2>2. Quantile(h, f) = 0
    BY <1>1, <1>2, <1>9 DEF Quantile, rank
  <2>3. Near(0, 0)
    BY DEF Near
  <2>. QED
    BY <2>1, <2>2, <2>3 DEF v
<1>10. CASE ~(rank <= h.zeroCount)
  <2>1. v # 0
    BY <1>1, <1>2, <1>5, <1>6, <1>7, <1>10
  <2>2. v \in Lowest .. Highest
    BY <1>4, <2>1 DEF InRange
  <2>. DEFINE b == BucketOf(v)
  <2>3. b \in Buckets /\ b \in Nat /\ Lower[b] <= v /\ v < Lower[b + 1] /\ Near(Midpoint(b), v)
    BY <2>2, BucketOfIs, MidpointNear
  <2>. HIDE DEF b
  <2>4. \A i \in Nat : Lower[i] \in Nat /\ Lower[i + 1] \in Nat
    <3>1. ASSUME NEW i \in Nat
          PROVE  Lower[i] \in Nat
      BY LowerIs
    <3>2. ASSUME NEW i \in Nat
          PROVE  Lower[i] \in Nat /\ Lower[i + 1] \in Nat
      <4>1. i + 1 \in Nat
        OBVIOUS
      <4>. QED
        BY <3>1, <4>1
    <3>. QED
      BY <3>2
  <2>5. PICK last \in Nat : Buckets = 0 .. last
    BY BucketsAre
  <2>6. Cumulative(h, b) >= rank
    <3>1. AtMost(events, v) <= AtMost(events, Lower[b + 1] - 1)
      <4>1. Lower[b + 1] \in Nat
        BY <2>3, <2>4
      <4>2. v <= Lower[b + 1] - 1 /\ Lower[b + 1] - 1 \in Int /\ v \in Int
        BY <1>4, <2>3, <4>1
      <4>. DEFINE x == Lower[b + 1] - 1
      <4>3. v <= x /\ x \in Int /\ v \in Int
        BY <4>2
      <4>. HIDE DEF x
      <4>4. AtMost(events, v) <= AtMost(events, x)
        BY <1>8, <4>3
      <4>. QED
        BY <4>4 DEF x
    <3>. QED
      BY <1>1, <1>3, <1>5, <1>6, <1>7, <2>3, <3>1
  <2>7. ASSUME NEW j \in 0 .. b - 1
        PROVE  j \in Buckets /\ Cumulative(h, j) < rank
    <3>1. j \in Buckets /\ j \in Nat /\ j + 1 \in 0 .. b
      BY <2>3, <2>5
    <3>2. Lower[j + 1] <= Lower[b]
      BY <2>3, <3>1, LowerRises
    <3>3. Lower[j + 1] - 1 <= v - 1 /\ Lower[j + 1] - 1 \in Int /\ v - 1 \in Int
      <4>1. Lower[j + 1] \in Nat /\ Lower[b] \in Nat
        BY <2>3, <2>4, <3>1
      <4>. DEFINE x == Lower[j + 1]
                  y == Lower[b]
      <4>2. x \in Nat /\ y \in Nat /\ x <= y /\ y <= v /\ v \in Nat
        BY <1>4, <2>3, <3>2, <4>1
      <4>. HIDE DEF x, y
      <4>3. x - 1 <= v - 1 /\ x - 1 \in Int /\ v - 1 \in Int
        BY <4>2
      <4>. QED
        BY <4>3 DEF x
    <3>4. AtMost(events, Lower[j + 1] - 1) <= AtMost(events, v - 1)
      BY <1>8, <3>3
    <3>. QED
      BY <1>1, <1>3, <1>5, <1>6, <1>7, <3>1, <3>4
  <2>. DEFINE Fits(i) == Cumulative(h, i) >= rank /\ \A j \in 0 .. i - 1 : Cumulative(h, j) < rank
  <2>8. Fits(b)
    BY <2>6, <2>7
  <2>9. \A i \in Buckets : Fits(i) => i = b
    <3>1. ASSUME NEW i \in Buckets, Fits(i), i # b
          PROVE  FALSE
      <4>1. i \in Nat /\ (i \in 0 .. b - 1 \/ b \in 0 .. i - 1)
        BY <2>3, <2>5, <3>1
      <4>2. Cumulative(h, i) \in Nat /\ Cumulative(h, b) \in Nat /\ rank \in Nat
        BY <1>1, <1>3, <1>5, <1>7, <2>3
      <4>3. Cumulative(h, i) >= rank
        BY <3>1
      <4>4. CASE i \in 0 .. b - 1
        BY <2>7, <4>2, <4>3, <4>4
      <4>5. CASE b \in 0 .. i - 1
        <5>1. Cumulative(h, b) < rank
          BY <3>1, <4>5
        <5>. QED
          BY <2>6, <4>2, <5>1
      <4>. QED
        BY <4>1, <4>4, <4>5
    <3>. QED
      BY <3>1
  <2>10. (CHOOSE i \in Buckets : Fits(i)) = b
    <3>. HIDE DEF Fits
    <3>. QED
      BY <2>3, <2>8, <2>9
  <2>11. ~ \A i \in Buckets : Cumulative(h, i) < rank
    <3>1. Cumulative(h, b) \in Nat /\ rank \in Nat
      BY <1>1, <1>3, <1>5, <1>7, <2>3
    <3>. QED
      BY <2>3, <2>6, <3>1
  <2>12. Quantile(h, f) = Midpoint(b)
    <3>1. Quantile(h, f) =
            IF h.count = 0 THEN None
            ELSE IF rank <= h.zeroCount THEN 0
            ELSE IF \A i \in Buckets : Cumulative(h, i) < rank THEN Highest
            ELSE Midpoint(CHOOSE i \in Buckets : Fits(i))
      BY <1>2 DEF Quantile, rank
    <3>2. h.count # 0
      BY <1>1, <1>2
    <3>3. (\A i \in Buckets : Cumulative(h, i) < rank) <=> FALSE
      BY <2>11
    <3>. DEFINE x == CHOOSE i \in Buckets : Fits(i)
    <3>4. Quantile(h, f) = IF h.count = 0 THEN None ELSE IF rank <= h.zeroCount THEN 0 ELSE Midpoint(x)
      BY <3>1, <3>3
    <3>5. x = b
      BY <2>10
    <3>. HIDE DEF x
    <3>. QED
      BY <1>10, <3>2, <3>4, <3>5
  <2>. QED
    BY <2>3, <2>12 DEF v
<1>. QED
  BY <1>9, <1>10
--------------------------------------------------------------------------------
(* Peaks of memory *)

\* What the memory samples say of one kind of memory.
SampledUsage(events, key) ==
    {e.usage[key] : e \in {events[i] : i \in {j \in DOMAIN events : events[j].op = "memory"}}}

\* A number is the greatest of those sampled, or there are none and it is zero.
IsPeak(value, seen) ==
    /\ seen \subseteq Nat /\ value \in Nat /\ \A x \in seen : x <= value
    /\ value \in seen \/ value = 0

\* One event more, and perhaps one sample more.
LEMMA SampledAppend ==
    ASSUME NEW s \in Seq(AnyEvent), NEW e \in AnyEvent, NEW key
    PROVE  SampledUsage(Append(s, e), key) = SampledUsage(s, key) \cup IF e.op = "memory" THEN {e.usage[key]} ELSE {}
<1>. DEFINE t == Append(s, e)
            n == Len(s)
            M(events) == {j \in DOMAIN events : events[j].op = "memory"}
<1>1. /\ DOMAIN s = 1 .. n /\ DOMAIN t = 1 .. n + 1 /\ n \in Nat /\ t[n + 1] = e
      /\ \A i \in 1 .. n : t[i] = s[i]
  OBVIOUS
<1>2. \A x : x \in SampledUsage(s, key) <=> \E i \in M(s) : x = s[i].usage[key]
  BY DEF SampledUsage
<1>3. \A x : x \in SampledUsage(t, key) <=> \E i \in M(t) : x = t[i].usage[key]
  BY DEF SampledUsage
<1>. HIDE DEF t, n
<1>4. M(t) = M(s) \cup IF e.op = "memory" THEN {n + 1} ELSE {}
  BY <1>1
<1>5. \A i \in M(s) : t[i] = s[i]
  BY <1>1
<1>. HIDE DEF M
<1>6. \A x : x \in SampledUsage(t, key) <=>
         x \in SampledUsage(s, key) \/ (e.op = "memory" /\ x = e.usage[key])
  BY <1>1, <1>2, <1>3, <1>4, <1>5
<1>7. SampledUsage(t, key) = SampledUsage(s, key) \cup IF e.op = "memory" THEN {e.usage[key]} ELSE {}
  <2>1. CASE e.op = "memory"
    BY <1>6, <2>1
  <2>2. CASE e.op # "memory"
    BY <1>6, <2>2
  <2>. QED
    BY <2>1, <2>2
<1>. QED
  BY <1>7 DEF t

\* What is measured of memory is its peak.
LEMMA ReplayedPeak ==
    ASSUME NEW events \in Seq(AnyEvent), NEW key \in MemoryKeys
    PROVE  IsPeak(Replayed(events).memory[key], SampledUsage(events, key))
<1>. DEFINE Holds(s) == IsPeak(Replayed(s).memory[key], SampledUsage(s, key))
            P == {s \in Seq(AnyEvent) : Holds(s)}
<1>1. <<>> \in P
  <2>1. SampledUsage(<<>>, key) = {}
    BY DEF SampledUsage
  <2>2. Replayed(<<>>).memory[key] = 0
    BY ReplayedEmpty DEF Unused
  <2>. QED
    BY <2>1, <2>2 DEF IsPeak
<1>2. ASSUME NEW s \in Seq(AnyEvent), NEW e \in AnyEvent, s \in P
      PROVE  Append(s, e) \in P
  <2>. DEFINE m == Replayed(s)
              d == Apply(Unused, e)
              t == Append(s, e)
  <2>1. IsPeak(m.memory[key], SampledUsage(s, key))
    BY <1>2
  <2>2. t \in Seq(AnyEvent)
    OBVIOUS
  <2>3. m \in Metrics /\ Replayed(t) = Apply(m, e)
    BY ReplayedType, ReplayedAppend
  <2>4. SampledUsage(t, key) = SampledUsage(s, key) \cup IF e.op = "memory" THEN {e.usage[key]} ELSE {}
    BY SampledAppend
  <2>5. Recorded(d, e)
    BY ApplyRecords
  <2>. HIDE DEF m, d, t
  <2>6. Replayed(t) = Join(m, d)
    BY <2>3, ApplyJoins DEF d
  <2>7. DOMAIN m.memory = MemoryKeys
    BY <2>3 DEF Metrics
  <2>8. Replayed(t).memory[key] = IF m.memory[key] < d.memory[key] THEN d.memory[key] ELSE m.memory[key]
    BY <2>6, <2>7 DEF Join, Greatest
  <2>9. d.memory = IF e.op = "memory" THEN e.usage ELSE [k \in MemoryKeys |-> 0]
    BY <2>5 DEF Recorded
  <2>10. CASE e.op = "memory"
    <3>1. e.usage[key] \in Nat
      BY <2>10, EventKinds
    <3>. QED
      BY <2>1, <2>2, <2>4, <2>8, <2>9, <2>10, <3>1 DEF IsPeak, t
  <2>11. CASE e.op # "memory"
    <3>1. d.memory[key] = 0
      BY <2>9, <2>11
    <3>. QED
      BY <2>1, <2>2, <2>4, <2>8, <2>11, <3>1 DEF IsPeak, t
  <2>. QED
    BY <2>10, <2>11
<1>3. Seq(AnyEvent) \subseteq P
  <2>. HIDE DEF P
  <2>. QED
    BY <1>1, <1>2, SequenceInduction
<1>. QED
  BY <1>3

\* With at least one sample it is the peak that PeakOf names.
LEMMA PeakIs ==
    ASSUME NEW events \in Seq(AnyEvent), NEW key \in MemoryKeys,
           events # <<>>, events[1].op = "memory"
    PROVE  Replayed(events).memory[key] = PeakOf(events, key)
<1>. DEFINE S == SampledUsage(events, key)
            value == Replayed(events).memory[key]
<1>1. IsPeak(value, S)
  BY ReplayedPeak
<1>2. S # {}
  <2>1. 1 \in DOMAIN events
    OBVIOUS
  <2>2. events[1].usage[key] \in S
    BY <2>1 DEF SampledUsage
  <2>. QED
    BY <2>2
<1>3. PeakOf(events, key) = Max(S)
  BY DEF PeakOf, SampledUsage
<1>. HIDE DEF S, value
<1>4. S \in SUBSET Nat /\ value \in Nat /\ (\A x \in S : x <= value) /\ value \in S
  <2>1. S \in SUBSET Nat /\ value \in Nat /\ (\A x \in S : x <= value) /\ (value \in S \/ value = 0)
    BY <1>1 DEF IsPeak
  <2>2. PICK x : x \in S
    BY <1>2
  <2>3. x <= value /\ x \in Nat
    BY <2>1, <2>2
  <2>4. value = 0 => x = value
    BY <2>1, <2>3
  <2>. QED
    BY <2>1, <2>2, <2>4
<1>5. Max(S) \in S /\ \A x \in S : Max(S) >= x
  BY <1>2, <1>4, MaxOfNaturals
<1>6. Max(S) = value
  <2>1. Max(S) <= value /\ Max(S) >= value /\ Max(S) \in Nat
    BY <1>4, <1>5
  <2>. QED
    BY <1>4, <2>1
<1>. QED
  BY <1>3, <1>6 DEF value
--------------------------------------------------------------------------------
(* Status codes *)

\* What may have happened to the workers of an HTTP/1 run.
HttpLogs == [Workers -> Seq(HttpEvent)]

\* Everything that happened in HTTP/1 is of HTTP/1.
LEMMA EverythingHttp ==
    ASSUME log \in HttpLogs
    PROVE  Everything \in Seq(HttpEvent)
<1>1. log \in Logs
  <2>1. HttpEvent \subseteq AnyEvent
    BY DEF HttpEvent
  <2>2. \A w \in Workers : log[w] \in Seq(HttpEvent)
    BY DEF HttpLogs
  <2>3. Seq(HttpEvent) \subseteq Seq(AnyEvent)
    BY <2>1
  <2>. QED
    BY <2>2, <2>3 DEF Logs, HttpLogs
<1>2. PICK h \in [SUBSET Workers -> Seq(AnyEvent)] :
        /\ h[{}] = <<>>
        /\ \A s \in SUBSET Workers : s # {} => h[s] = log[Chosen(s)] \o h[s \ {Chosen(s)}]
        /\ Everything = h[Workers]
  BY <1>1, EverythingFold
<1>. DEFINE P == {s \in SUBSET Workers : h[s] \in Seq(HttpEvent)}
<1>3. {} \in P
  BY <1>2
<1>4. ASSUME NEW s \in SUBSET Workers, s # {}, \A x \in s : s \ {x} \in P
      PROVE  s \in P
  <2>1. Chosen(s) \in s
    BY <1>4 DEF Chosen
  <2>2. h[s \ {Chosen(s)}] \in Seq(HttpEvent)
    BY <1>4, <2>1
  <2>3. log[Chosen(s)] \in Seq(HttpEvent)
    BY <2>1 DEF HttpLogs
  <2>4. log[Chosen(s)] \o h[s \ {Chosen(s)}] \in Seq(HttpEvent)
    BY <2>2, <2>3
  <2>. QED
    BY <1>2, <1>4, <2>4
<1>5. SUBSET Workers \subseteq P
  <2>. HIDE DEF P
  <2>. QED
    BY <1>3, <1>4, SetInduction, MeasurementAssumption
<1>. QED
  BY <1>2, <1>5

\* The sum over the status codes that occurred.
Occurring(f, S, g) == f = [s \in S |-> g[s]] /\ \A s \in StatusCode \ S : g[s] = 0

LEMMA SumCodes ==
    ASSUME NEW S \in SUBSET StatusCode, NEW f, NEW g \in [StatusCode -> Nat], Occurring(f, S, g)
    PROVE  /\ SumOver(f) = g[200] + g[304]
           /\ SumOver(Restrict(f, S \ 200 .. 299)) = g[304]
<1>. DEFINE a == 200
            b == 304
            T == S \ 200 .. 299
            rest == Restrict(f, T)
<1>1. StatusCode = {a, b} /\ a # b
  BY DEF StatusCode
<1>0. f = [s \in S |-> g[s]] /\ \A s \in StatusCode \ S : g[s] = 0
  BY DEF Occurring
<1>2. T = S \ {a}
  BY DEF StatusCode
<1>3. rest = [s \in T |-> f[s]]
  BY DEF Restrict
<1>. HIDE DEF a, b, T, rest
<1>4. f \in [S -> Int] /\ g[a] \in Nat /\ g[b] \in Nat
  BY <1>0, <1>1
<1>5. rest \in [T -> Int] /\ \A s \in T : rest[s] = g[s]
  BY <1>0, <1>2, <1>3, <1>4
<1>6. SumOf(f) = (IF a \in S THEN f[a] ELSE 0) + (IF b \in S THEN f[b] ELSE 0)
  BY <1>1, <1>4, SumTwo
<1>7. T \subseteq {b} /\ (b \in T <=> b \in S)
  BY <1>1, <1>2
<1>8. SumOf(rest) = IF b \in T THEN rest[b] ELSE 0
  BY <1>5, <1>7, SumOne
<1>9. (a \notin S => g[a] = 0) /\ (b \notin S => g[b] = 0)
  BY <1>0, <1>1
<1>10. SumOf(f) = g[a] + g[b]
  BY <1>0, <1>4, <1>6, <1>9
<1>11. SumOf(rest) = g[b]
  BY <1>5, <1>7, <1>8, <1>9
<1>. QED
  BY <1>10, <1>11 DEF SumOver, SumOf, rest, T, a, b
--------------------------------------------------------------------------------
(* What is measured is what happened *)

\* The events of a protocol; a phase opens with a sample of memory.
EventsOf(kind) == IF kind = "http1" THEN HttpEvent ELSE AnyEvent

IsMemory(e) == e.op = "memory"
Opened(events) == events # <<>> /\ IsMemory(events[1])

\* A worker's result is about all that happened in its measurement.
Posts(r, m) ==
    /\ r.sums = m.sums /\ r.maxima = m.maxima /\ r.latency = m.latency
    /\ r.statusCodes = StatusCodes(m) /\ r.memory = m.memory

\* The inductive invariant: a running worker has measured what is in its log, its
\* start having forgotten all before, and a finished one has posted it.
MeasurementType ==
    /\ protocol \in {"http1", "websocket"}
    /\ step \in {"idle", "warmup", "measurement", "finished"}
    /\ log \in [Workers -> Seq(EventsOf(protocol))]
    /\ measurement \in [Workers -> Metrics]

Running ==
    step \in {"warmup", "measurement"} =>
        \A w \in Workers : Opened(log[w]) /\ measurement[w] = Replayed(log[w])

Posted ==
    step = "finished" =>
        /\ DOMAIN result = Workers
        /\ \A w \in Workers : Opened(log[w]) /\ Posts(result[w], Replayed(log[w]))

MeasurementInvariant == MeasurementType /\ Running /\ Posted

\* The inputs of the specification are such events.
LEMMA EventTypes ==
    ASSUME NEW kind \in {"http1", "websocket"}
    PROVE  Events[kind] \subseteq EventsOf(kind) /\ EventsOf(kind) \subseteq AnyEvent
<1>1. Events[kind] \subseteq Event(kind) /\ Event(kind) \subseteq AnyEvent
  BY EventAssumption DEF AnyEvent
<1>2. \A e \in Event("http1") : e.op # "message"
  BY DEF Event
<1>3. CASE kind = "http1"
  BY <1>1, <1>2, <1>3 DEF EventsOf, HttpEvent
<1>4. CASE kind = "websocket"
  BY <1>1, <1>4 DEF EventsOf
<1>. QED
  BY <1>3, <1>4

\* Sampling memory changes nothing but memory.
LEMMA SampleKeeps ==
    ASSUME NEW m \in Metrics, NEW e, IsMemory(e)
    PROVE  /\ Apply(m, e) = SampleMemory(m, e.usage)
           /\ \A elu, left : Posts(Finish(m, e.usage, elu, left), Apply(m, e))
<1>1. Apply(m, e) = SampleMemory(m, e.usage)
  BY DEF Apply, IsMemory
<1>. DEFINE n == SampleMemory(m, e.usage)
<1>2. /\ n.sums = m.sums /\ n.maxima = m.maxima /\ n.latency = m.latency
      /\ n.statusCodeCounts = m.statusCodeCounts
  BY DEF SampleMemory, Metrics
<1>3. StatusCodes(n) = StatusCodes(m)
  BY <1>2 DEF StatusCodes
<1>. HIDE DEF n
<1>4. ASSUME NEW elu, NEW left
      PROVE  Posts(Finish(m, e.usage, elu, left), n)
  BY <1>2, <1>3 DEF Posts, Finish, n
<1>. QED
  BY <1>1, <1>4 DEF n

\* A start forgets all that was measured before.
LEMMA StartForgets ==
    ASSUME NEW m \in Metrics, NEW e \in AnyEvent, IsMemory(e)
    PROVE  Start(m, e.usage) = Replayed(<<e>>) /\ Start(m, e.usage) \in Metrics
<1>. DEFINE reading == e.usage
            fresh == [sums |-> [k \in Sums |-> 0], maxima |-> [k \in Maxima |-> 0],
                      latency |-> EmptyHistogram, statusCodeCounts |-> [s \in StatusCode |-> 0],
                      memory |-> reading]
<1>1. reading \in [MemoryKeys -> Nat]
  BY EventKinds DEF IsMemory
<1>3. Apply(Unused, e) = fresh
  <2>1. Apply(Unused, e) = SampleMemory(Unused, reading)
    BY SampleKeeps, UnusedType
  <2>2. Greatest(Unused.memory, reading) = reading
    BY <1>1 DEF Greatest, Unused
  <2>. QED
    BY <2>1, <2>2 DEF SampleMemory, Unused
<1>4. Start(m, reading) = fresh
  <2>. DEFINE r == Reset(m)
              p == ResetProtocolMetrics(r)
  <2>1. r = [sums |-> [k \in Sums |-> IF k = "non2xx" THEN m.sums[k] ELSE 0],
             maxima |-> [k \in Maxima |-> 0], latency |-> EmptyHistogram,
             statusCodeCounts |-> m.statusCodeCounts, memory |-> m.memory]
    <3>. DEFINE S == [k \in Sums |-> IF k = "non2xx" THEN m.sums[k] ELSE 0]
                Z == [k \in Maxima |-> 0]
                f == [m EXCEPT !.sums = S]
                g == [f EXCEPT !.maxima = Z]
    <3>1. m = [sums |-> m.sums, maxima |-> m.maxima, latency |-> m.latency,
               statusCodeCounts |-> m.statusCodeCounts, memory |-> m.memory]
      BY DEF Metrics
    <3>2. Reset(m) = [g EXCEPT !.latency = EmptyHistogram]
      BY DEF Reset
    <3>. HIDE DEF S, Z
    <3>3. f = [sums |-> S, maxima |-> m.maxima, latency |-> m.latency,
               statusCodeCounts |-> m.statusCodeCounts, memory |-> m.memory]
      BY <3>1
    <3>. HIDE DEF f
    <3>4. g = [sums |-> S, maxima |-> Z, latency |-> m.latency,
               statusCodeCounts |-> m.statusCodeCounts, memory |-> m.memory]
      BY <3>3
    <3>. HIDE DEF g
    <3>5. Reset(m) = [sums |-> S, maxima |-> Z, latency |-> EmptyHistogram,
                      statusCodeCounts |-> m.statusCodeCounts, memory |-> m.memory]
      BY <3>2, <3>4
    <3>. QED
      BY <3>5 DEF S, Z
  <2>2. DOMAIN m.statusCodeCounts = StatusCode
    BY DEF Metrics
  <2>. HIDE DEF r
  <2>3. [r.sums EXCEPT !["non2xx"] = 0] = [k \in Sums |-> 0]
    BY <2>1
  <2>4. p = [sums |-> [r.sums EXCEPT !["non2xx"] = 0], maxima |-> r.maxima, latency |-> r.latency,
             statusCodeCounts |-> [s \in StatusCode |-> 0], memory |-> r.memory]
    <3>. DEFINE f == [r EXCEPT !.sums.non2xx = 0]
    <3>1. f = [sums |-> [r.sums EXCEPT !["non2xx"] = 0], maxima |-> r.maxima, latency |-> r.latency,
               statusCodeCounts |-> r.statusCodeCounts, memory |-> r.memory]
      BY <2>1
    <3>2. p = [f EXCEPT !.statusCodeCounts = [s \in DOMAIN f.statusCodeCounts |-> 0]]
      BY DEF ResetProtocolMetrics
    <3>. HIDE DEF f, p
    <3>3. DOMAIN f.statusCodeCounts = StatusCode
      BY <2>1, <2>2, <3>1
    <3>. QED
      BY <3>1, <3>2, <3>3
  <2>5. p = [sums |-> [k \in Sums |-> 0], maxima |-> [k \in Maxima |-> 0], latency |-> EmptyHistogram,
             statusCodeCounts |-> [s \in StatusCode |-> 0], memory |-> m.memory]
    BY <2>1, <2>3, <2>4
  <2>. HIDE DEF p
  <2>. QED
    BY <2>5 DEF Start, r, p
<1>. HIDE DEF fresh
<1>5. Replayed(<<e>>) = fresh /\ Replayed(<<e>>) \in Metrics
  <2>1. Replayed(<<e>>) = fresh
    BY <1>3, ReplayedOne
  <2>2. <<e>> \in Seq(AnyEvent)
    OBVIOUS
  <2>. QED
    BY <2>1, <2>2, ReplayedType
<1>. QED
  BY <1>4, <1>5

\* A phase that opened stays so.
LEMMA OpenedAppend ==
    ASSUME NEW E, NEW s \in Seq(E), NEW e \in E, Opened(s)
    PROVE  Opened(Append(s, e)) /\ Append(s, e) \in Seq(E)
BY DEF Opened

\* The invariant holds at first
LEMMA MeasurementInitial == MeasurementInit => MeasurementInvariant
<1>. SUFFICES ASSUME MeasurementInit
              PROVE  MeasurementInvariant
  OBVIOUS
<1>1. step = "idle" /\ protocol \in {"http1", "websocket"}
  BY DEF MeasurementInit
<1>2. log \in [Workers -> Seq(EventsOf(protocol))]
  BY DEF MeasurementInit
<1>3. measurement \in [Workers -> Metrics]
  BY UnusedType DEF MeasurementInit
<1>. QED
  BY <1>1, <1>2, <1>3 DEF MeasurementInvariant, MeasurementType, Running, Posted

\* and is kept by every step.
LEMMA MeasurementStep ==
    MeasurementInvariant /\ [MeasurementNext]_measurementVars => MeasurementInvariant'
<1>. SUFFICES ASSUME MeasurementInvariant, [MeasurementNext]_measurementVars
              PROVE  MeasurementInvariant'
  OBVIOUS
<1>1. MeasurementType /\ Running /\ Posted
  BY DEF MeasurementInvariant
<1>2. protocol \in {"http1", "websocket"} /\ EventsOf(protocol) \subseteq AnyEvent
  BY <1>1, EventTypes DEF MeasurementType
<1>3. \A w \in Workers : /\ log[w] \in Seq(EventsOf(protocol)) /\ log[w] \in Seq(AnyEvent)
                         /\ measurement[w] \in Metrics
  <2>1. Seq(EventsOf(protocol)) \subseteq Seq(AnyEvent)
    BY <1>2
  <2>. QED
    BY <1>1, <2>1 DEF MeasurementType
<1>4. CASE StartPhase
  <2>1. PICK e \in MemorySample :
          /\ measurement' = [w \in Workers |-> Start(measurement[w], e.usage)]
          /\ log' = [w \in Workers |-> <<e>>]
    BY <1>4 DEF StartPhase
  <2>2. protocol' = protocol /\ step' \in {"warmup", "measurement"}
    BY <1>4 DEF StartPhase
  <2>3. e \in EventsOf(protocol) /\ e \in AnyEvent /\ IsMemory(e)
    BY <1>2, EventTypes DEF IsMemory, MemorySample
  <2>4. \A w \in Workers : log'[w] = <<e>> /\ measurement'[w] = Start(measurement[w], e.usage)
    BY <2>1
  <2>5. \A w \in Workers : Start(measurement[w], e.usage) = Replayed(<<e>>)
                           /\ Start(measurement[w], e.usage) \in Metrics
    BY <1>3, <2>3, StartForgets
  <2>6. log' \in [Workers -> Seq(EventsOf(protocol))] /\ measurement' \in [Workers -> Metrics]
    <3>1. <<e>> \in Seq(EventsOf(protocol))
      BY <2>3
    <3>. QED
      BY <2>1, <2>5, <3>1
  <2>7. Opened(<<e>>)
    BY <2>3 DEF Opened
  <2>8. MeasurementType'
    BY <1>2, <2>2, <2>6 DEF MeasurementType
  <2>9. Running'
    BY <2>4, <2>5, <2>7 DEF Running
  <2>10. Posted'
    BY <2>2 DEF Posted
  <2>. QED
    BY <2>8, <2>9, <2>10 DEF MeasurementInvariant
<1>5. CASE EndPhase
  BY <1>1, <1>5 DEF EndPhase, MeasurementInvariant, MeasurementType, Running, Posted
<1>6. CASE FinishPhase
  <2>1. PICK e \in MemorySample, end \in {<<40, 0>>, <<95, 1>>} :
          /\ result' = [w \in Workers |-> Finish(measurement[w], e.usage, end[1], end[2])]
          /\ log' = [w \in Workers |-> Append(log[w], e)]
    BY <1>6 DEF FinishPhase
  <2>2. step = "measurement" /\ step' = "finished" /\ UNCHANGED <<protocol, measurement>>
    BY <1>6 DEF FinishPhase
  <2>3. e \in EventsOf(protocol) /\ e \in AnyEvent /\ IsMemory(e)
    BY <1>2, EventTypes DEF IsMemory, MemorySample
  <2>4. ASSUME NEW w \in Workers
        PROVE  /\ log'[w] \in Seq(EventsOf(protocol)) /\ Opened(log'[w])
               /\ Posts(result'[w], Replayed(log'[w]))
    <3>1. Opened(log[w]) /\ measurement[w] = Replayed(log[w])
      BY <1>1, <2>2 DEF Running
    <3>2. log'[w] = Append(log[w], e) /\ result'[w] = Finish(measurement[w], e.usage, end[1], end[2])
      BY <2>1
    <3>3. Posts(Finish(measurement[w], e.usage, end[1], end[2]), Apply(measurement[w], e))
      BY <1>3, <2>3, SampleKeeps
    <3>4. Opened(Append(log[w], e)) /\ Append(log[w], e) \in Seq(EventsOf(protocol))
      BY <1>3, <2>3, <3>1, OpenedAppend
    <3>5. Replayed(Append(log[w], e)) = Apply(measurement[w], e)
      BY <1>3, <2>3, <3>1, ReplayedAppend
    <3>. QED
      BY <3>2, <3>3, <3>4, <3>5
  <2>5. log' \in [Workers -> Seq(EventsOf(protocol))]
    <3>1. DOMAIN log' = Workers /\ log' = [w \in Workers |-> log'[w]]
      BY <2>1
    <3>. QED
      BY <2>4, <3>1
  <2>6. DOMAIN result' = Workers
    BY <2>1
  <2>7. MeasurementType'
    BY <1>1, <2>2, <2>5 DEF MeasurementType
  <2>8. Running' /\ Posted'
    BY <2>2, <2>4, <2>6 DEF Running, Posted
  <2>. QED
    BY <2>7, <2>8 DEF MeasurementInvariant
<1>7. ASSUME NEW w \in Workers, RecordEvent(w)
      PROVE  MeasurementInvariant'
  <2>1. PICK e \in Events[protocol] :
          /\ measurement' = [measurement EXCEPT ![w] = Apply(@, e)]
          /\ log' = [log EXCEPT ![w] = Append(@, e)]
    BY <1>7 DEF RecordEvent
  <2>2. step \in {"warmup", "measurement"} /\ UNCHANGED <<protocol, step, result>>
    BY <1>7 DEF RecordEvent
  <2>3. e \in EventsOf(protocol) /\ e \in AnyEvent
    BY <1>2, EventTypes
  <2>4. Opened(log[w]) /\ measurement[w] = Replayed(log[w])
    BY <1>1, <2>2 DEF Running
  <2>5. DOMAIN log = Workers /\ DOMAIN measurement = Workers
    BY <1>1 DEF MeasurementType
  <2>. DEFINE t == Append(log[w], e)
  <2>6. Opened(t) /\ t \in Seq(EventsOf(protocol))
    BY <1>3, <2>3, <2>4, OpenedAppend
  <2>7. Replayed(t) = Apply(measurement[w], e) /\ Replayed(t) \in Metrics
    <3>1. Replayed(t) = Apply(measurement[w], e)
      BY <1>3, <2>3, <2>4, ReplayedAppend
    <3>2. t \in Seq(AnyEvent)
      BY <1>3, <2>3
    <3>. HIDE DEF t
    <3>. QED
      BY <3>1, <3>2, ReplayedType
  <2>8. /\ log' = [log EXCEPT ![w] = t]
        /\ measurement' = [measurement EXCEPT ![w] = Replayed(t)]
    BY <2>1, <2>5, <2>7
  <2>. HIDE DEF t
  <2>9. MeasurementType'
    BY <1>1, <2>2, <2>6, <2>7, <2>8 DEF MeasurementType
  <2>10. Running'
    BY <1>1, <2>2, <2>5, <2>6, <2>8 DEF Running
  <2>11. Posted'
    BY <2>2 DEF Posted
  <2>. QED
    BY <2>9, <2>10, <2>11 DEF MeasurementInvariant
<1>8. CASE UNCHANGED measurementVars
  BY <1>1, <1>8 DEF measurementVars, MeasurementInvariant, MeasurementType, Running, Posted
<1>. QED
  BY <1>4, <1>5, <1>6, <1>7, <1>8 DEF MeasurementNext
--------------------------------------------------------------------------------
(* and what a run reports is what happened to all *)

\* The end of a run.
Ending == MeasurementInvariant /\ step = "finished"

\* What the invariant says of it.
LEMMA EndingLogs ==
    ASSUME Ending
    PROVE  /\ log \in Logs /\ DOMAIN result = Workers
           /\ protocol = "http1" => log \in HttpLogs
           /\ \A w \in Workers : Opened(log[w]) /\ Posts(result[w], Replayed(log[w]))
<1>1. MeasurementType /\ Posted /\ step = "finished"
  BY DEF Ending, MeasurementInvariant
<1>2. log \in [Workers -> Seq(EventsOf(protocol))] /\ protocol \in {"http1", "websocket"}
  BY <1>1 DEF MeasurementType
<1>3. EventsOf(protocol) \subseteq AnyEvent
  BY <1>2, EventTypes
<1>4. Seq(EventsOf(protocol)) \subseteq Seq(AnyEvent)
  BY <1>3
<1>5. log \in [Workers -> Seq(AnyEvent)]
  BY <1>2, <1>4
<1>6. protocol = "http1" => log \in [Workers -> Seq(HttpEvent)]
  BY <1>2 DEF EventsOf
<1>. QED
  BY <1>1, <1>5, <1>6 DEF Logs, HttpLogs, Posted

\* The parts of an aggregate.
LEMMA AggregateIs ==
    ASSUME NEW results
    PROVE  /\ Aggregate(results).sums = [k \in Sums |-> SumOver([w \in Workers |-> results[w].sums[k]])]
           /\ Aggregate(results).maxima = [k \in Maxima |-> MaxOver([w \in Workers |-> results[w].maxima[k]])]
           /\ Aggregate(results).latency = Merged(results)
           /\ Aggregate(results).memory = [k \in MemoryKeys |-> SumOver([w \in Workers |-> results[w].memory[k]])]
BY DEF Aggregate

\* The aggregate is the measurement of everything.
LEMMA AggregateAgrees ==
    ASSUME Ending
    PROVE  LET run == Aggregate(result)
               all == Replayed(Everything)
           IN  /\ all \in Metrics /\ Everything \in Seq(AnyEvent)
               /\ run.sums = all.sums /\ run.maxima = all.maxima /\ run.latency = all.latency
<1>. DEFINE all == Replayed(Everything)
            run == Aggregate(result)
<1>1. log \in Logs /\ DOMAIN result = Workers
  BY EndingLogs
<1>2. all \in Metrics /\ Everything \in Seq(AnyEvent)
  BY <1>1, EverythingType
<1>3. \A w \in Workers : /\ result[w].sums = Replayed(log[w]).sums
                         /\ result[w].maxima = Replayed(log[w]).maxima
                         /\ result[w].latency = Replayed(log[w]).latency
  BY EndingLogs DEF Posts
<1>4. run.latency = all.latency
  <2>1. Merged(result) = all.latency
    BY <1>1, <1>3, LatencyAgrees
  <2>. QED
    BY <2>1, AggregateIs
<1>5. run.sums = all.sums
  <2>1. ASSUME NEW k \in Sums
        PROVE  SumOver([w \in Workers |-> result[w].sums[k]]) = all.sums[k]
    <3>1. [w \in Workers |-> result[w].sums[k]] = [w \in Workers |-> Replayed(log[w]).sums[k]]
      BY <1>3
    <3>2. SumOver([w \in Workers |-> Replayed(log[w]).sums[k]]) = all.sums[k]
      BY <1>1, SumsAgree
    <3>. QED
      BY <3>1, <3>2
  <2>2. run.sums = [k \in Sums |-> SumOver([w \in Workers |-> result[w].sums[k]])]
    BY AggregateIs
  <2>3. all.sums \in [Sums -> Nat]
    BY <1>2 DEF Metrics
  <2>. HIDE DEF all, run
  <2>. QED
    BY <2>1, <2>2, <2>3
<1>6. run.maxima = all.maxima
  <2>1. ASSUME NEW k \in Maxima
        PROVE  MaxOver([w \in Workers |-> result[w].maxima[k]]) = all.maxima[k]
    <3>1. [w \in Workers |-> result[w].maxima[k]] = [w \in Workers |-> Replayed(log[w]).maxima[k]]
      BY <1>3
    <3>2. MaxOver([w \in Workers |-> Replayed(log[w]).maxima[k]]) = all.maxima[k]
      BY <1>1, MaximaAgree
    <3>. QED
      BY <3>1, <3>2
  <2>2. run.maxima = [k \in Maxima |-> MaxOver([w \in Workers |-> result[w].maxima[k]])]
    BY AggregateIs
  <2>3. all.maxima \in [Maxima -> Nat]
    BY <1>2 DEF Metrics
  <2>. HIDE DEF all, run
  <2>. QED
    BY <2>1, <2>2, <2>3
<1>. QED
  BY <1>2, <1>4, <1>5, <1>6

\* The parts of AggregateExact: counters, maxima and histograms,
LEMMA NothingLostHolds == Ending => NothingLost
<1>. SUFFICES ASSUME Ending
              PROVE  NothingLost
  OBVIOUS
<1>1. ASSUME NEW w \in Workers
      PROVE  Valid(result[w].latency)
  <2>1. log[w] \in Seq(AnyEvent)
    BY EndingLogs, LogsReplayed
  <2>2. Counted(Replayed(log[w]))
    BY <2>1, ReplayedCounted
  <2>3. result[w].latency = Replayed(log[w]).latency
    BY EndingLogs DEF Posts
  <2>. QED
    BY <2>2, <2>3 DEF Counted
<1>. QED
  BY <1>1, AggregateAgrees DEF NothingLost

\* memory,
LEMMA MemoryAddsUpHolds == Ending => MemoryAddsUp
<1>. SUFFICES ASSUME Ending
              PROVE  MemoryAddsUp
  OBVIOUS
<1>1. ASSUME NEW k \in MemoryKeys
      PROVE  [w \in Workers |-> result[w].memory[k]] = [w \in Workers |-> PeakOf(log[w], k)]
  <2>1. ASSUME NEW w \in Workers
        PROVE  result[w].memory[k] = PeakOf(log[w], k)
    <3>1. log[w] \in Seq(AnyEvent) /\ log[w] # <<>> /\ log[w][1].op = "memory"
      BY EndingLogs, LogsReplayed DEF Opened, IsMemory
    <3>2. Replayed(log[w]).memory[k] = PeakOf(log[w], k)
      BY <3>1, PeakIs
    <3>3. result[w].memory = Replayed(log[w]).memory
      BY EndingLogs DEF Posts
    <3>. QED
      BY <3>2, <3>3
  <2>. QED
    BY <2>1
<1>2. Aggregate(result).memory = [k \in MemoryKeys |-> SumOver([w \in Workers |-> result[w].memory[k]])]
  BY AggregateIs
<1>3. \A k \in MemoryKeys : SumOver([w \in Workers |-> result[w].memory[k]])
                              = SumOver([w \in Workers |-> PeakOf(log[w], k)])
  BY <1>1
<1>. QED
  BY <1>2, <1>3 DEF MemoryAddsUp

\* The status codes of a run are those of everything that happened.
LEMMA CodesAre ==
    ASSUME Ending
    PROVE  LET codes == Http1Result(result).statusCodes
               g == Replayed(Everything).statusCodeCounts
           IN  \E S \in SUBSET StatusCode : Occurring(codes, S, g)
<1>. DEFINE codes == Http1Result(result).statusCodes
            g == Replayed(Everything).statusCodeCounts
            S == UNION {DOMAIN result[w].statusCodes : w \in Workers}
            c(w) == Replayed(log[w]).statusCodeCounts
            Part(s) == [w \in Workers |->
                IF s \in DOMAIN result[w].statusCodes THEN result[w].statusCodes[s] ELSE 0]
<1>1. log \in Logs
  BY EndingLogs
<1>2. \A w \in Workers : c(w) \in [StatusCode -> Nat]
  BY <1>1, LogsReplayed DEF Metrics
<1>3. ASSUME NEW w \in Workers
      PROVE  /\ DOMAIN result[w].statusCodes = {s \in StatusCode : c(w)[s] > 0}
             /\ \A s \in DOMAIN result[w].statusCodes : result[w].statusCodes[s] = c(w)[s]
  <2>1. result[w].statusCodes = StatusCodes(Replayed(log[w]))
    BY EndingLogs DEF Posts
  <2>. QED
    BY <2>1 DEF StatusCodes, Restrict
<1>4. codes = [s \in S |-> SumOver(Part(s))]
  BY DEF Http1Result
<1>. HIDE DEF codes, c
<1>5. S \subseteq StatusCode
  BY <1>3
<1>6. ASSUME NEW s \in StatusCode
      PROVE  SumOver(Part(s)) = g[s]
  <2>1. ASSUME NEW w \in Workers
        PROVE  Part(s)[w] = c(w)[s]
    <3>1. c(w)[s] \in Nat
      BY <1>2
    <3>2. CASE c(w)[s] > 0
      <4>1. s \in DOMAIN result[w].statusCodes
        BY <1>3, <3>2
      <4>. QED
        BY <1>3, <4>1
    <3>3. CASE ~(c(w)[s] > 0)
      <4>1. s \notin DOMAIN result[w].statusCodes
        BY <1>3, <3>3
      <4>. QED
        BY <3>1, <3>3, <4>1
    <3>. QED
      BY <3>2, <3>3
  <2>2. Part(s) = [w \in Workers |-> c(w)[s]]
    BY <2>1
  <2>3. SumOver([w \in Workers |-> c(w)[s]]) = g[s]
    BY <1>1, CodesAgree DEF c
  <2>. QED
    BY <2>2, <2>3
<1>7. ASSUME NEW s \in StatusCode \ S
      PROVE  g[s] = 0
  <2>1. \A w \in Workers : s \notin DOMAIN result[w].statusCodes
    BY <1>7
  <2>. DEFINE f == Part(s)
  <2>2. f \in [Workers -> Int] /\ \A w \in Workers : f[w] = 0
    BY <2>1
  <2>3. SumOver(f) = g[s]
    BY <1>6
  <2>. HIDE DEF f, g
  <2>4. SumOf(f) = 0
    BY <2>2, SumZero, MeasurementAssumption
  <2>. QED
    BY <2>3, <2>4 DEF SumOver, SumOf
<1>8. codes = [s \in S |-> g[s]]
  BY <1>4, <1>5, <1>6
<1>. HIDE DEF S, g
<1>9. S \in SUBSET StatusCode /\ codes = [s \in S |-> g[s]] /\ \A s \in StatusCode \ S : g[s] = 0
  BY <1>5, <1>7, <1>8
<1>10. S \in SUBSET StatusCode /\ Occurring(codes, S, g)
  BY <1>9 DEF Occurring
<1>. QED
  BY <1>10 DEF codes, g

\* completed operations, latencies and status codes,
LEMMA OperationsCountedHolds == Ending => OperationsCounted
<1>. SUFFICES ASSUME Ending
              PROVE  OperationsCounted
  OBVIOUS
<1>. DEFINE all == Replayed(Everything)
            run == Aggregate(result)
            latency == Summary(run.latency)
            codes == Http1Result(result).statusCodes
            h == all.latency
<1>1. all \in Metrics /\ Everything \in Seq(AnyEvent) /\ run.sums = all.sums /\ run.latency = h
  BY AggregateAgrees
<1>2. latency.count = h.count /\ latency.dropped = h.nonFinite + h.belowRange + h.aboveRange
  BY <1>1 DEF Summary
<1>3. h.count = Cardinality(Accepted(Everything))
  BY <1>1, ReplayedExactly DEF Exactly
<1>4. h.count + (h.nonFinite + h.belowRange + h.aboveRange) = run.sums.completed
  BY <1>1, ReplayedCounted DEF Counted
<1>5. ASSUME protocol = "http1"
      PROVE  /\ SumOver(codes) = run.sums.completed
             /\ SumOver(Restrict(codes, DOMAIN codes \ 200 .. 299)) = run.sums.non2xx
  <2>. DEFINE g == all.statusCodeCounts
  <2>1. PICK S \in SUBSET StatusCode : Occurring(codes, S, g)
    BY CodesAre
  <2>2. g \in [StatusCode -> Nat] /\ DOMAIN codes = S
    BY <1>1, <2>1 DEF Metrics, Occurring
  <2>3. Answering(all)
    <3>1. Everything \in Seq(HttpEvent)
      BY <1>5, EndingLogs, EverythingHttp
    <3>. QED
      BY <3>1, ReplayedAnswering
  <2>4. g[200] + g[304] = run.sums.completed /\ g[304] = run.sums.non2xx
    BY <1>1, <2>3 DEF Answering
  <2>. HIDE DEF g, codes, run
  <2>5. SumOver(codes) = g[200] + g[304] /\ SumOver(Restrict(codes, S \ 200 .. 299)) = g[304]
    <3>1. ASSUME NEW x \in [StatusCode -> Nat], NEW f, Occurring(f, S, x)
          PROVE  SumOver(f) = x[200] + x[304] /\ SumOver(Restrict(f, S \ 200 .. 299)) = x[304]
      BY <3>1, SumCodes
    <3>2. g \in [StatusCode -> Nat] /\ Occurring(codes, S, g)
      BY <2>1, <2>2
    <3>. QED
      BY <3>1, <3>2
  <2>. QED
    BY <2>2, <2>4, <2>5
<1>6. latency.count + latency.dropped = run.sums.completed
  BY <1>2, <1>4
<1>. QED
  BY <1>2, <1>3, <1>5, <1>6 DEF OperationsCounted

\* mean and quantiles.
LEMMA LatencyNearHolds == Ending => LatencyNear
<1>. SUFFICES ASSUME Ending, Accepted(Everything) # {}
              PROVE  LET latency == Summary(Aggregate(result).latency)
                     IN  /\ \A f \in DOMAIN latency.quantile :
                             Near(latency.quantile[f], ExactQuantile(Everything, f))
                         /\ Near(latency.total, ExactTotal(Everything))
  BY DEF LatencyNear
<1>. DEFINE h == Aggregate(result).latency
            latency == Summary(h)
<1>1. Everything \in Seq(AnyEvent) /\ h = Replayed(Everything).latency
  BY AggregateAgrees
<1>2. Exactly(Everything, h)
  BY <1>1, ReplayedExactly
<1>. HIDE DEF h
<1>3. /\ DOMAIN latency.quantile = Fractions /\ latency.total = Total(h)
      /\ \A f \in Fractions : latency.quantile[f] = Quantile(h, f)
  BY DEF Summary, Fractions
<1>4. \A f \in Fractions : Near(Quantile(h, f), ExactQuantile(Everything, f))
  BY <1>1, <1>2, QuantileNear
<1>5. Near(Total(h), ExactTotal(Everything))
  BY <1>2 DEF Exactly
<1>. HIDE DEF latency
<1>. QED
  BY <1>3, <1>4, <1>5 DEF latency, h

\* The result of a run is that of a single worker to which all happened that
\* happened to any of them in their measurements (aggregateLoadPhase and the
\* aggregateResult of runHttp1Load and runWebSocketLoad).
THEOREM AggregateExactHolds == MeasurementSpec => []AggregateExact
<1>1. MeasurementInvariant => AggregateExact
  BY NothingLostHolds, MemoryAddsUpHolds, OperationsCountedHolds, LatencyNearHolds
     DEF Ending, AggregateExact
<1>. QED
  BY <1>1, MeasurementInitial, MeasurementStep, PTL DEF MeasurementSpec
================================================================================
