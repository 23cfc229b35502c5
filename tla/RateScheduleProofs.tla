--------------------------- MODULE RateScheduleProofs ---------------------------
(***************************************************************************)
(* The fixed-rate scheduler sends or drops every arrival once, drops none  *)
(* while a connection has room, and shares the load evenly: proved for any *)
(* number of workers and connections, any pipelining, and ticks as late    *)
(* and uneven as the event loop makes them.                                *)
(***************************************************************************)
EXTENDS RateSchedule, FoldTheorems

\* Every worker has a connection.
LEMMA ShareType ==
    ASSUME NEW w \in Threads
    PROVE  ConnectionsOf(w) \in Nat \ {0}
<1>1. NConnections \div NWorkers \in Nat \ {0}
  BY WorkersAssumption, ConnectionsAssumption
<1>. QED
  BY <1>1 DEF ConnectionsOf

--------------------------------------------------------------------------------
(* The arrivals of a worker *)

\* Worker w has i + 1 arrivals among the first g exactly when its i-th has come.
LEMMA ExpectedCounts ==
    ASSUME NEW w \in Threads, NEW g \in Nat
    PROVE  /\ Expected(w, g) \in Nat
           /\ \A i \in Nat : i < Expected(w, g) <=> Arrival(w, i) <= g
<1>0. NWorkers \in Nat \ {0} /\ w \in 0 .. NWorkers - 1
  BY WorkersAssumption DEF Threads
<1>1. CASE g <= w
  <2>1. \A i \in Nat : i * NWorkers \in Nat
    BY <1>0
  <2>. QED
    BY <1>0, <1>1, <2>1 DEF Expected, Arrival
<1>2. CASE g > w
  <2>. DEFINE a == g - 1 - w
              q == a \div NWorkers
              r == a % NWorkers
  <2>1. a \in Nat /\ q \in Nat /\ r \in 0 .. NWorkers - 1 /\ a = q * NWorkers + r
    <3>1. a \in Nat
      BY <1>0, <1>2
    <3>. HIDE DEF a
    <3>. QED
      BY <1>0, <3>1, Division
  <2>2. Expected(w, g) = q + 1
    BY <1>0, <1>2 DEF Expected
  <2>3. ASSUME NEW i \in Nat
        PROVE  i < q + 1 <=> w + 1 + i * NWorkers <= g
    <3>1. g = a + 1 + w
      BY <1>0
    <3>2. i * NWorkers \in Int /\ q * NWorkers \in Int
      BY <1>0, <2>1, Products
    <3>. HIDE DEF a, q, r
    <3>3. CASE i <= q
      <4>1. i * NWorkers <= q * NWorkers
        BY <1>0, <2>1, <3>3, Products
      <4>. QED
        BY <1>0, <2>1, <3>1, <3>2, <3>3, <4>1
    <3>4. CASE q < i
      <4>1. q * NWorkers + NWorkers <= i * NWorkers
        BY <1>0, <2>1, <3>4, Products
      <4>. QED
        BY <1>0, <2>1, <3>1, <3>2, <3>4, <4>1
    <3>. QED
      BY <2>1, <3>3, <3>4
  <2>. QED
    BY <2>1, <2>2, <2>3 DEF Arrival
<1>. QED
  BY <1>0, <1>1, <1>2

\* The i-th arrival is the worker's own, and they come in order.
LEMMA ArrivalFacts ==
    ASSUME NEW w \in Threads, NEW i \in Nat
    PROVE  /\ Arrival(w, i) \in Nat \ {0}
           /\ (Arrival(w, i) - 1) % NWorkers = w
           /\ Arrival(w, i) < Arrival(w, i + 1)
           /\ \A j \in Nat : i < j => Arrival(w, i) < Arrival(w, j)
<1>0. NWorkers \in Nat \ {0} /\ w \in 0 .. NWorkers - 1
  BY WorkersAssumption DEF Threads
<1>1. i * NWorkers \in Nat /\ (i * NWorkers + w) % NWorkers = w
  BY <1>0, DivisionUnique
<1>2. \A j \in Nat : i < j => i * NWorkers + NWorkers <= j * NWorkers /\ j * NWorkers \in Int
  BY <1>0, Products
<1>3. (i + 1) * NWorkers = i * NWorkers + NWorkers
  BY <1>0, Products
<1>4. (w + 1 + i * NWorkers) - 1 = i * NWorkers + w
  BY <1>0, <1>1
<1>. QED
  BY <1>0, <1>1, <1>2, <1>3, <1>4 DEF Arrival

\* Every arrival of the worker is one of them.
LEMMA OwnArrival ==
    ASSUME NEW w \in Threads, NEW g \in Nat, NEW s \in Own(w, g)
    PROVE  \E i \in Nat : i < Expected(w, g) /\ s = Arrival(w, i)
<1>0. NWorkers \in Nat \ {0} /\ w \in 0 .. NWorkers - 1
  BY WorkersAssumption DEF Threads
<1>1. s \in 1 .. g /\ s - 1 \in Nat /\ (s - 1) % NWorkers = w
  BY DEF Own
<1>. DEFINE i == (s - 1) \div NWorkers
<1>2. i \in Nat /\ s - 1 = i * NWorkers + w
  BY <1>0, <1>1, Division
<1>. HIDE DEF i
<1>3. s = Arrival(w, i)
  <2>1. i * NWorkers \in Int
    BY <1>0, <1>2
  <2>. QED
    BY <1>0, <1>1, <1>2, <2>1 DEF Arrival
<1>4. Arrival(w, i) <= g
  BY <1>1, <1>3
<1>. QED
  BY <1>2, <1>3, <1>4, ExpectedCounts

\* What expectedOperationsForGlobalCount counts.
LEMMA OwnCardinality ==
    ASSUME NEW w \in Threads, NEW g \in Nat
    PROVE  Cardinality(Own(w, g)) = Expected(w, g)
<1>. DEFINE e == Expected(w, g)
            f == [i \in 1 .. e |-> Arrival(w, i - 1)]
<1>1. e \in Nat /\ \A i \in Nat : i < e <=> Arrival(w, i) <= g
  BY ExpectedCounts
<1>2. \A s \in Own(w, g) : \E i \in Nat : i < e /\ s = Arrival(w, i)
  BY OwnArrival
<1>. HIDE DEF e
<1>3. f \in [1 .. e -> Own(w, g)]
  <2>1. ASSUME NEW i \in 1 .. e
        PROVE  Arrival(w, i - 1) \in Own(w, g)
    <3>1. i - 1 \in Nat /\ i - 1 < e
      BY <1>1
    <3>2. Arrival(w, i - 1) \in Nat \ {0} /\ (Arrival(w, i - 1) - 1) % NWorkers = w
      BY <3>1, ArrivalFacts
    <3>3. Arrival(w, i - 1) <= g
      BY <1>1, <3>1
    <3>. QED
      BY <3>2, <3>3 DEF Own
  <2>. QED
    BY <2>1
<1>4. \A i, j \in 1 .. e : f[i] = f[j] => i = j
  <2>1. ASSUME NEW i \in 1 .. e, NEW j \in 1 .. e, i < j
        PROVE  Arrival(w, i - 1) # Arrival(w, j - 1)
    <3>1. i - 1 \in Nat /\ j - 1 \in Nat /\ i - 1 < j - 1
      BY <1>1, <2>1
    <3>2. Arrival(w, i - 1) < Arrival(w, j - 1) /\ Arrival(w, i - 1) \in Nat
      BY <3>1, ArrivalFacts
    <3>. QED
      BY <3>2
  <2>. QED
    BY <2>1, <1>1
<1>5. \A s \in Own(w, g) : \E i \in 1 .. e : f[i] = s
  <2>1. ASSUME NEW s \in Own(w, g)
        PROVE  \E i \in 1 .. e : f[i] = s
    <3>1. PICK i \in Nat : i < e /\ s = Arrival(w, i)
      BY <1>2
    <3>2. i + 1 \in 1 .. e /\ (i + 1) - 1 = i
      BY <1>1, <3>1
    <3>. QED
      BY <3>1, <3>2
  <2>. QED
    BY <2>1
<1>6. f \in Bijection(1 .. e, Own(w, g))
  <2>. HIDE DEF f
  <2>. QED
    BY <1>3, <1>4, <1>5 DEF Bijection, Injection, Surjection, IsInjective
<1>7. ExistsBijection(1 .. e, Own(w, g))
  BY <1>6 DEF ExistsBijection
<1>8. Cardinality(Own(w, g)) = e
  BY <1>1, <1>7, FS_CountingElements
<1>. QED
  BY <1>8 DEF e
--------------------------------------------------------------------------------
(* The search for a connection, and one arrival *)

\* How far connection c is from connection n, going round.
Distance(w, n, c) == IF c >= n THEN c - n ELSE c - n + ConnectionsOf(w)

\* The a-th connection from n is at distance a, and every connection has a distance.
LEMMA Round ==
    ASSUME NEW w \in Threads, NEW n \in Conns(w), NEW a \in Conns(w)
    PROVE  /\ (n + a) % ConnectionsOf(w) \in Conns(w)
           /\ Distance(w, n, (n + a) % ConnectionsOf(w)) = a
           /\ Distance(w, n, a) \in Conns(w)
           /\ (n + Distance(w, n, a)) % ConnectionsOf(w) = a
           /\ (a + 1) % ConnectionsOf(w) = IF a + 1 < ConnectionsOf(w) THEN a + 1 ELSE 0
<1>. DEFINE m == ConnectionsOf(w)
<1>1. m \in Nat \ {0} /\ n \in 0 .. m - 1 /\ a \in 0 .. m - 1
  BY ShareType DEF Conns
<1>. HIDE DEF m
<1>2. /\ (n + a) % m = IF n + a < m THEN n + a ELSE n + a - m
      /\ (a + 1) % m = IF a + 1 < m THEN a + 1 ELSE 0
      /\ (a + m) % m = a
  BY <1>1, ModRound, Zenon
<1>4. (n + (IF a >= n THEN a - n ELSE a - n + m)) % m = a
  <2>1. CASE a >= n
    BY <1>1, <2>1
  <2>2. CASE a < n
    <3>1. n + (a - n + m) = a + m
      BY <1>1
    <3>. QED
      BY <1>1, <1>2, <2>2, <3>1
  <2>. QED
    BY <1>1, <2>1, <2>2
<1>5. /\ (n + a) % m \in 0 .. m - 1
      /\ (IF ((n + a) % m) >= n THEN ((n + a) % m) - n ELSE ((n + a) % m) - n + m) = a
      /\ (IF a >= n THEN a - n ELSE a - n + m) \in 0 .. m - 1
  BY <1>1, <1>2
<1>. QED
  BY <1>2, <1>4, <1>5 DEF Distance, Conns, m

\* The search finds the first connection with room from next on, and null only when
\* none has room.
LEMMA SearchRound ==
    ASSUME NEW w \in Threads, NEW d, d.next \in Conns(w)
    PROVE  /\ NextAvailable(w, d) = -1 =>
                \A e \in Conns(w) : ~HasRoom(w, d.flight, e)
           /\ NextAvailable(w, d) # -1 =>
                /\ NextAvailable(w, d) \in Conns(w)
                /\ HasRoom(w, d.flight, NextAvailable(w, d))
                /\ \A e \in Conns(w) : HasRoom(w, d.flight, e) =>
                      Distance(w, d.next, NextAvailable(w, d)) <= Distance(w, d.next, e)
<1>. DEFINE m == ConnectionsOf(w)
            n == d.next
            at(a) == (n + a) % m
            Room(c) == HasRoom(w, d.flight, c)
            free == {a \in Conns(w) : Room(at(a))}
<1>1. m \in Nat \ {0} /\ Conns(w) = 0 .. m - 1 /\ n \in 0 .. m - 1
  BY ShareType DEF Conns
<1>2. NextAvailable(w, d) = IF free = {} THEN -1 ELSE at(Min(free))
  BY DEF NextAvailable
<1>3. \A a \in Conns(w) : at(a) \in Conns(w) /\ Distance(w, n, at(a)) = a
  BY Round, Zenon
<1>4. \A c \in Conns(w) : Distance(w, n, c) \in Conns(w) /\ at(Distance(w, n, c)) = c
  BY Round, Zenon
<1>. HIDE DEF m, n, at, Room
<1>5. CASE free = {}
  <2>1. \A c \in Conns(w) : ~Room(c)
    BY <1>1, <1>4, <1>5
  <2>. QED
    BY <1>2, <1>5, <2>1 DEF Room
<1>6. CASE free # {}
  <2>. DEFINE a == Min(free)
  <2>1. a \in free /\ \A b \in free : a <= b
    <3>1. free \in SUBSET Nat
      BY <1>1
    <3>. HIDE DEF free
    <3>. QED
      BY <1>6, <3>1, MinOfNaturals
  <2>. HIDE DEF a
  <2>2. a \in 0 .. m - 1 /\ Room(at(a))
    BY <1>1, <2>1
  <2>3. at(a) \in 0 .. m - 1 /\ Distance(w, n, at(a)) = a
    BY <1>1, <1>3, <2>2
  <2>4. ASSUME NEW e \in Conns(w), Room(e)
        PROVE  a <= Distance(w, n, e)
    <3>1. Distance(w, n, e) \in free
      BY <1>1, <1>4, <2>4
    <3>. QED
      BY <2>1, <3>1
  <2>5. NextAvailable(w, d) = at(a) /\ at(a) # -1
    BY <1>2, <1>6, <2>3 DEF a
  <2>. QED
    BY <1>1, <2>2, <2>3, <2>4, <2>5 DEF Room, n
<1>. QED
  BY <1>5, <1>6

\* What a tick has dealt so far.
Dealt(w) ==
    [next : Conns(w), flight : [Conns(w) -> Seq(1 .. MaxArrivals)],
     sent : SUBSET (1 .. MaxArrivals), dropped : Nat]

\* One arrival is appended to those a connection that had room has in flight, or dropped
\* when none had.
Given(w, d, s, f, c) ==
    \/ /\ c = -1
       /\ f.next = d.next /\ f.flight = d.flight /\ f.sent = d.sent
       /\ f.dropped = d.dropped + 1
    \/ /\ c # -1 /\ c \in Conns(w)
       /\ f.next = IF c + 1 < ConnectionsOf(w) THEN c + 1 ELSE 0
       /\ f.flight = [d.flight EXCEPT ![c] = Append(@, s)]
       /\ f.sent = d.sent \cup {s}
       /\ f.dropped = d.dropped

\* Deal gives one arrival to the next available connection, or drops it.
LEMMA DealOne ==
    ASSUME NEW w \in Threads, NEW d \in Dealt(w), NEW s \in 1 .. MaxArrivals
    PROVE  Deal(w, d, s) \in Dealt(w) /\ Given(w, d, s, Deal(w, d, s), NextAvailable(w, d))
<1>. DEFINE c == NextAvailable(w, d)
<1>1. /\ d.next \in Conns(w) /\ d.flight \in [Conns(w) -> Seq(1 .. MaxArrivals)]
      /\ d.sent \in SUBSET (1 .. MaxArrivals) /\ d.dropped \in Nat
      /\ d = [next |-> d.next, flight |-> d.flight, sent |-> d.sent, dropped |-> d.dropped]
  BY DEF Dealt
<1>2. CASE c = -1
  <2>1. Deal(w, d, s) = [d EXCEPT !.dropped = @ + 1]
    BY <1>2 DEF Deal
  <2>. QED
    BY <1>1, <1>2, <2>1 DEF Dealt, Given
<1>3. CASE c # -1
  <2>. HIDE DEF c
  <2>1. Deal(w, d, s) = [d EXCEPT !.next = (c + 1) % ConnectionsOf(w),
                                  !.flight[c] = Append(@, s),
                                  !.sent = @ \cup {s}]
    BY <1>3 DEF Deal, c
  <2>2. c \in Conns(w)
    BY <1>1, <1>3, SearchRound DEF c
  <2>3. /\ (c + 1) % ConnectionsOf(w) = IF c + 1 < ConnectionsOf(w) THEN c + 1 ELSE 0
        /\ (c + 1) % ConnectionsOf(w) \in Conns(w)
    <3>1. ConnectionsOf(w) \in Nat \ {0} /\ c \in 0 .. ConnectionsOf(w) - 1
      BY <2>2, ShareType DEF Conns
    <3>2. (c + 1) % ConnectionsOf(w) = IF c + 1 < ConnectionsOf(w) THEN c + 1 ELSE 0
      BY <2>2, Round
    <3>. QED
      BY <3>1, <3>2 DEF Conns
  <2>4. Append(d.flight[c], s) \in Seq(1 .. MaxArrivals)
    BY <1>1, <2>2
  <2>5. Deal(w, d, s) = [next |-> (c + 1) % ConnectionsOf(w),
                         flight |-> [d.flight EXCEPT ![c] = Append(@, s)],
                         sent |-> d.sent \cup {s}, dropped |-> d.dropped]
    BY <1>1, <2>1, <2>2
  <2>6. /\ [d.flight EXCEPT ![c] = Append(@, s)] \in [Conns(w) -> Seq(1 .. MaxArrivals)]
        /\ d.sent \cup {s} \in SUBSET (1 .. MaxArrivals)
    BY <1>1, <2>2, <2>4
  <2>7. Deal(w, d, s) \in Dealt(w)
    BY <1>1, <2>3, <2>5, <2>6 DEF Dealt
  <2>8. Given(w, d, s, Deal(w, d, s), c)
    BY <1>3, <2>2, <2>3, <2>5 DEF Given
  <2>. QED
    BY <2>7, <2>8 DEF c
<1>. QED
  BY <1>2, <1>3
--------------------------------------------------------------------------------
(* The arrivals of a tick, one after the other *)

\* What a tick deals from d when its arrivals are those from b on.
DealAll(w, d, b, due) ==
    FoldLeft(LAMBDA e, s : Deal(w, e, s), d, [i \in 1 .. due |-> Arrival(w, b + i - 1)])

\* run[k]: what has been dealt after k arrivals.
Dealing(w, d, b, due, run) ==
    /\ run \in [0 .. due -> Dealt(w)]
    /\ run[0] = d
    /\ \A k \in 0 .. due - 1 : run[k + 1] = Deal(w, run[k], Arrival(w, b + k))
    /\ run[due] = DealAll(w, d, b, due)

\* The fold of a tick deals its arrivals one by one.
LEMMA TickDeals ==
    ASSUME NEW w \in Threads, NEW d \in Dealt(w), NEW b \in Nat, NEW due \in Nat,
           \A k \in 0 .. due - 1 : Arrival(w, b + k) \in 1 .. MaxArrivals
    PROVE  \E run : Dealing(w, d, b, due, run)
<1>. DEFINE seq == [i \in 1 .. due |-> Arrival(w, b + i - 1)]
            step == [p \in (1 .. due) \X Dealt(w) |-> Deal(w, p[2], seq[p[1]])]
            Fold(g) == g = [s \in SUBSET DOMAIN seq |->
                              IF s = {} THEN d
                              ELSE Deal(w, g[s \ {Max(s)}], seq[Max(s)])]
<1>1. \A i \in 1 .. due : seq[i] \in 1 .. MaxArrivals /\ seq[i] = Arrival(w, b + i - 1)
  <2>1. \A i \in 1 .. due : i - 1 \in 0 .. due - 1 /\ b + i - 1 = b + (i - 1)
    OBVIOUS
  <2>. QED
    BY <2>1
<1>2. step \in [(1 .. due) \X Dealt(w) -> Dealt(w)]
  <2>1. ASSUME NEW i \in 1 .. due, NEW e \in Dealt(w)
        PROVE  Deal(w, e, seq[i]) \in Dealt(w)
    <3>. HIDE DEF seq
    <3>. QED
      BY <1>1, DealOne, Zenon
  <2>. HIDE DEF seq
  <2>. QED
    BY <2>1
<1>3. PICK g \in [SUBSET (1 .. due) -> Dealt(w)] : Folding(g, due, d, step)
  <2>. HIDE DEF step
  <2>. QED
    BY <1>2, SequenceFold
<1>4. Fold(g)
  <2>1. ASSUME NEW s \in SUBSET (1 .. due), s # {}
        PROVE  step[<<Max(s), g[s \ {Max(s)}]>>] = Deal(w, g[s \ {Max(s)}], seq[Max(s)])
    <3>1. Max(s) \in s
      <4>1. s \in SUBSET Nat /\ \A i \in s : i <= due
        OBVIOUS
      <4>. QED
        BY <2>1, <4>1, MaxOfNaturals
    <3>. DEFINE x == Max(s)
                e == g[s \ {x}]
    <3>2. x \in 1 .. due /\ e \in Dealt(w)
      BY <3>1
    <3>. HIDE DEF x, e, seq
    <3>3. <<x, e>> \in (1 .. due) \X Dealt(w)
      BY <3>2
    <3>4. step[<<x, e>>] = Deal(w, e, seq[x])
      BY <3>3
    <3>. QED
      BY <3>4 DEF e, x
  <2>2. DOMAIN seq = 1 .. due
    OBVIOUS
  <2>. HIDE DEF step, seq
  <2>. QED
    BY <1>3, <2>1, <2>2 DEF Folding
<1>. DEFINE h == CHOOSE h : Fold(h)
<1>5. Fold(h)
  <2>. HIDE DEF Fold
  <2>. QED
    BY <1>4
<1>6. DealAll(w, d, b, due) = h[1 .. due]
  BY DEF DealAll, FoldLeft, MapThenFoldSet
<1>. DEFINE run == [k \in 0 .. due |-> h[1 .. k]]
<1>7. run[0] = d
  <2>1. 1 .. 0 = {} /\ {} \in SUBSET DOMAIN seq
    OBVIOUS
  <2>. HIDE DEF h, seq
  <2>. QED
    BY <1>5, <2>1
<1>8. ASSUME NEW k \in 0 .. due - 1
      PROVE  run[k + 1] = Deal(w, run[k], Arrival(w, b + k))
  <2>1. /\ 1 .. k + 1 \in SUBSET DOMAIN seq /\ 1 .. k + 1 # {}
        /\ Max(1 .. k + 1) = k + 1 /\ (1 .. k + 1) \ {k + 1} = 1 .. k
    <3>1. k \in Nat /\ 1 .. k + 1 \in SUBSET DOMAIN seq
      OBVIOUS
    <3>. HIDE DEF seq, run
    <3>2. 1 .. k + 1 # {} /\ Max(1 .. k + 1) = k + 1 /\ (1 .. k + 1) \ {k + 1} = 1 .. k
      BY <3>1, MaxOfPrefix
    <3>. QED
      BY <3>1, <3>2
  <2>2. seq[k + 1] = Arrival(w, b + k)
    OBVIOUS
  <2>. HIDE DEF h, seq
  <2>3. h[1 .. k + 1] = Deal(w, h[1 .. k], seq[k + 1])
    BY <1>5, <2>1
  <2>. QED
    BY <2>2, <2>3
<1>9. run \in [0 .. due -> Dealt(w)]
  <2>. DEFINE S == {k \in 0 .. due : run[k] \in Dealt(w)}
  <2>. HIDE DEF run
  <2>1. 0 \in S
    BY <1>7
  <2>2. ASSUME NEW k \in 0 .. due - 1, k \in S
        PROVE  k + 1 \in S
    <3>1. run[k] \in Dealt(w) /\ Arrival(w, b + k) \in 1 .. MaxArrivals
      BY <2>2
    <3>2. Deal(w, run[k], Arrival(w, b + k)) \in Dealt(w)
      BY <3>1, DealOne, Zenon
    <3>3. run[k + 1] \in Dealt(w) /\ k + 1 \in 0 .. due
      BY <1>8, <3>2
    <3>. QED
      BY <3>3
  <2>3. 0 .. due \subseteq S
    <3>. HIDE DEF S
    <3>. QED
      BY <2>1, <2>2, BoundedInduction
  <2>. QED
    BY <2>3 DEF run
<1>10. run[due] = DealAll(w, d, b, due)
  BY <1>6
<1>. HIDE DEF run
<1>. QED
  BY <1>7, <1>8, <1>9, <1>10 DEF Dealing
--------------------------------------------------------------------------------
(* The inductive invariant *)

\* What a connection has in flight, in the order of arrival, all before the one given.
InOrder(q, limit) ==
    /\ Len(q) <= Pipelining
    /\ \A i, j \in DOMAIN q : i < j => q[i] < q[j]
    /\ \A i \in DOMAIN q : q[i] < limit

\* The turn is of the connection behind the one that has the latest arrival.
TurnOK(w, n, q, taken) ==
    \A c \in Conns(w) : Latest(q[c], taken) => n = (c + 1) % ConnectionsOf(w)

\* What is true of a worker between two steps, in its own variables: it has counted
\* every arrival it has seen, sent those of its own and dropped the others, no
\* connection has more than `pipelining` in flight or any of them out of order, and
\* the next turn is behind the last.
WorkerOK(w, g, n, q, o, taken, lost, i) ==
    /\ g \in 0 .. MaxArrivals
    /\ i = Expected(w, g)
    /\ n \in Conns(w)
    /\ q \in [Conns(w) -> Seq(1 .. MaxArrivals)]
    /\ o \in [Conns(w) -> BOOLEAN]
    /\ taken \subseteq Own(w, g)
    /\ lost \in Nat
    /\ Cardinality(taken) + lost = i
    /\ \A s \in taken : s < Arrival(w, i)
    /\ \A c \in Conns(w) : InOrder(q[c], Arrival(w, i))
    /\ TurnOK(w, n, q, taken)

\* The inductive invariant.
IInv ==
    /\ seen = [w \in Threads |-> seen[w]] /\ scheduled = [w \in Threads |-> scheduled[w]]
    /\ next = [w \in Threads |-> next[w]] /\ flight = [w \in Threads |-> flight[w]]
    /\ open = [w \in Threads |-> open[w]] /\ sent = [w \in Threads |-> sent[w]]
    /\ dropped = [w \in Threads |-> dropped[w]]
    /\ \A w \in Threads :
          WorkerOK(w, seen[w], next[w], flight[w], open[w], sent[w], dropped[w], scheduled[w])

\* What holds after k arrivals of a tick that sees g: they are sent or dropped, no
\* connection has more than its pipeline or fewer than it had, and an arrival is
\* dropped only when no connection has room.
Progress(w, g, k, d) ==
    /\ d.sent \subseteq Own(w, g)
    /\ \A s \in d.sent : s < Arrival(w, scheduled[w] + k)
    /\ Cardinality(sent[w] \cup d.sent) + d.dropped = Cardinality(sent[w]) + k
    /\ \A c \in Conns(w) :
          /\ InOrder(d.flight[c], Arrival(w, scheduled[w] + k))
          /\ Len(flight[w][c]) <= Len(d.flight[c])
    /\ d.dropped > 0 => \A c \in Conns(w) : open[w][c] => Len(d.flight[c]) = Pipelining

\* What Append does to a sequence.
LEMMA Appended ==
    ASSUME NEW T, NEW q \in Seq(T), NEW s \in T
    PROVE  /\ Len(q) \in Nat /\ DOMAIN q = 1 .. Len(q)
           /\ \A i \in 1 .. Len(q) : q[i] \in T
           /\ Len(Append(q, s)) = Len(q) + 1
           /\ DOMAIN Append(q, s) = 1 .. Len(q) + 1
           /\ \A i \in 1 .. Len(q) : Append(q, s)[i] = q[i]
           /\ Append(q, s)[Len(q) + 1] = s
OBVIOUS

\* Sequences of arrivals are sequences of numbers.
LEMMA ArrivalSequences == \A q : q \in Seq(1 .. MaxArrivals) => q \in Seq(Nat)
<1>1. \A S, T : S \subseteq T => \A q : q \in Seq(S) => q \in Seq(T)
  OBVIOUS
<1>2. 1 .. MaxArrivals \subseteq Nat
  BY MaxArrivalsAssumption
<1>. QED
  BY <1>1, <1>2, Zenon

\* Finitely many arrivals.
LEMMA FiniteRange == \A n \in Nat : IsFiniteSet(1 .. n)
BY FS_Interval

\* One more arrival at the end.
LEMMA AppendInOrder ==
    ASSUME NEW q \in Seq(Nat), NEW s \in Nat, NEW limit \in Nat,
           InOrder(q, s), Len(q) < Pipelining, s < limit
    PROVE  InOrder(Append(q, s), limit)
<1>1. /\ Len(q) \in Nat /\ Len(Append(q, s)) = Len(q) + 1
      /\ DOMAIN q = 1 .. Len(q) /\ DOMAIN Append(q, s) = 1 .. Len(q) + 1
      /\ \A i \in 1 .. Len(q) : Append(q, s)[i] = q[i] /\ q[i] \in Nat
      /\ Append(q, s)[Len(q) + 1] = s
  BY Appended
<1>2. \A i, j \in 1 .. Len(q) : i < j => q[i] < q[j]
  BY <1>1 DEF InOrder
<1>3. \A i \in 1 .. Len(q) : q[i] < s
  BY <1>1 DEF InOrder
<1>4. Pipelining \in Nat
  BY PipeliningAssumption
<1>5. \A i \in 1 .. Len(q) + 1 : i = Len(q) + 1 \/ i \in 1 .. Len(q)
  BY <1>1
<1>6. \A i, j \in 1 .. Len(q) + 1 : i < j => Append(q, s)[i] < Append(q, s)[j]
  BY <1>1, <1>2, <1>3, <1>5
<1>7. \A i \in 1 .. Len(q) + 1 : Append(q, s)[i] < limit
  BY <1>1, <1>3, <1>5
<1>8. Len(q) + 1 <= Pipelining
  BY <1>1, <1>4
<1>. QED
  BY <1>1, <1>6, <1>7, <1>8, Zenon DEF InOrder

\* A later limit.
LEMMA InOrderLater ==
    ASSUME NEW q \in Seq(Nat), NEW a \in Nat, NEW limit \in Nat,
           InOrder(q, a), a < limit
    PROVE  InOrder(q, limit)
<1>1. DOMAIN q = 1 .. Len(q) /\ \A i \in 1 .. Len(q) : q[i] \in Nat
  OBVIOUS
<1>. QED
  BY <1>1 DEF InOrder

\* A tick makes progress with every arrival it deals.
LEMMA TickProgress ==
    ASSUME NEW w \in Threads, NEW g \in seen[w] .. MaxArrivals,
           WorkerOK(w, seen[w], next[w], flight[w], open[w], sent[w], dropped[w], scheduled[w]),
           NEW due, due = Expected(w, g) - scheduled[w],
           NEW d, d = [next |-> next[w], flight |-> flight[w], sent |-> {}, dropped |-> 0],
           NEW run, Dealing(w, d, scheduled[w], due, run)
    PROVE  \A k \in 0 .. due : Progress(w, g, k, run[k])
<1>. DEFINE b == scheduled[w]
            A(i) == Arrival(w, i)
            P == {k \in 0 .. due : Progress(w, g, k, run[k])}
<1>1. /\ seen[w] \in Nat /\ g \in Nat /\ b \in Nat /\ due \in Int
      /\ Expected(w, g) = b + due /\ b = Expected(w, seen[w]) /\ Expected(w, g) \in Nat
  <2>1. seen[w] \in 0 .. MaxArrivals /\ b = Expected(w, seen[w])
    BY DEF WorkerOK
  <2>2. seen[w] \in Nat /\ g \in Nat
    BY <2>1, MaxArrivalsAssumption
  <2>3. Expected(w, seen[w]) \in Nat /\ Expected(w, g) \in Nat
    BY <2>2, ExpectedCounts
  <2>. QED
    BY <2>1, <2>2, <2>3
<1>2. \A i \in Nat :
         /\ A(i) \in Nat \ {0} /\ A(i) < A(i + 1) /\ (A(i) - 1) % NWorkers = w
         /\ \A j \in Nat : i < j => A(i) < A(j)
  BY ArrivalFacts
<1>3. \A k \in 0 .. due - 1 : b + k \in Nat /\ A(b + k) \in 1 .. g /\ A(b + k) \in Own(w, g)
  <2>1. ASSUME NEW k \in 0 .. due - 1
        PROVE  b + k \in Nat /\ A(b + k) <= g
    <3>1. b + k \in Nat /\ b + k < Expected(w, g)
      BY <1>1
    <3>. QED
      BY <1>1, <3>1, ExpectedCounts
  <2>. HIDE DEF A
  <2>. QED
    BY <1>1, <1>2, <2>1 DEF Own
<1>4. /\ run \in [0 .. due -> Dealt(w)]
      /\ run[0] = d
      /\ \A k \in 0 .. due - 1 : run[k + 1] = Deal(w, run[k], A(b + k))
  BY DEF Dealing
<1>5. CASE due < 0
  BY <1>1, <1>5
<1>6. CASE due \in Nat
  <2>1. 0 \in P
    <3>1. run[0].sent = {} /\ run[0].dropped = 0 /\ run[0].flight = flight[w]
      BY <1>4
    <3>2. sent[w] \cup {} = sent[w] /\ Cardinality(sent[w]) + 0 = Cardinality(sent[w])
      <4>1. Cardinality(sent[w]) \in Nat
        <5>1. IsFiniteSet(1 .. seen[w]) /\ sent[w] \in SUBSET (1 .. seen[w])
          BY <1>1, FiniteRange DEF WorkerOK, Own
        <5>. QED
          BY <5>1, FS_Subset, FS_CardinalityType
      <4>. QED
        BY <4>1
    <3>3. \A c \in Conns(w) : InOrder(flight[w][c], A(b + 0)) /\ Len(flight[w][c]) \in Nat
      <4>1. b + 0 = b
        BY <1>1
      <4>. QED
        BY <4>1 DEF WorkerOK
    <3>4. Progress(w, g, 0, run[0])
      BY <3>1, <3>2, <3>3 DEF Progress
    <3>. QED
      BY <1>6, <3>4
  <2>2. ASSUME NEW k \in 0 .. due - 1, k \in P
        PROVE  k + 1 \in P
    <3>. DEFINE e == run[k]
                s == A(b + k)
                f == run[k + 1]
                c == NextAvailable(w, e)
                total == sent[w] \cup e.sent
    <3>1. /\ e \in Dealt(w) /\ f = Deal(w, e, s) /\ Progress(w, g, k, e)
          /\ k \in Nat /\ b + k \in Nat /\ b + (k + 1) = (b + k) + 1
      <4>1. k \in Nat /\ k \in 0 .. due /\ b + k \in Nat /\ b + (k + 1) = (b + k) + 1
        BY <1>1
      <4>2. Progress(w, g, k, e)
        BY <2>2
      <4>. HIDE DEF A
      <4>. QED
        BY <1>4, <4>1, <4>2
    <3>2. s \in 1 .. MaxArrivals /\ s \in Own(w, g) /\ s \in Nat /\ A(b + k + 1) \in Nat
          /\ s < A(b + k + 1)
      <4>. HIDE DEF A
      <4>. QED
        BY <1>1, <1>2, <1>3, <3>1, MaxArrivalsAssumption
    <3>. HIDE DEF A, s, e, f, c
    <3>3. /\ c = -1 => f.flight = e.flight /\ f.sent = e.sent /\ f.dropped = e.dropped + 1
          /\ c # -1 => /\ c \in Conns(w)
                       /\ f.flight = [e.flight EXCEPT ![c] = Append(@, s)]
                       /\ f.sent = e.sent \cup {s}
                       /\ f.dropped = e.dropped
      <4>1. Given(w, e, s, Deal(w, e, s), c)
        BY <3>1, <3>2, DealOne, Zenon DEF c
      <4>. QED
        BY <3>1, <4>1 DEF Given
    <3>4. /\ c = -1 => \A x \in Conns(w) : ~HasRoom(w, e.flight, x)
          /\ c # -1 => HasRoom(w, e.flight, c)
      <4>1. e.next \in Conns(w)
        BY <3>1 DEF Dealt
      <4>. QED
        BY <4>1, SearchRound DEF c
    <3>5. /\ e.flight \in [Conns(w) -> Seq(1 .. MaxArrivals)]
          /\ e.sent \in SUBSET (1 .. MaxArrivals)
          /\ e.dropped \in Nat
      BY <3>1 DEF Dealt
    <3>6. /\ e.sent \subseteq Own(w, g) /\ (\A x \in e.sent : x < s)
          /\ Cardinality(total) + e.dropped = Cardinality(sent[w]) + k
          /\ (\A x \in Conns(w) : InOrder(e.flight[x], s) /\ Len(flight[w][x]) <= Len(e.flight[x]))
          /\ (e.dropped > 0 => \A x \in Conns(w) : open[w][x] => Len(e.flight[x]) = Pipelining)
      BY <3>1 DEF Progress, s, A
    <3>7. IsFiniteSet(total) /\ Cardinality(total) \in Nat /\ Cardinality(sent[w]) \in Nat
      <4>1. total \in SUBSET (1 .. MaxArrivals) /\ sent[w] \in SUBSET (1 .. MaxArrivals)
        <5>1. Own(w, seen[w]) \subseteq 1 .. MaxArrivals
          BY MaxArrivalsAssumption DEF WorkerOK, Own
        <5>. QED
          BY <3>5, <5>1 DEF WorkerOK
      <4>2. IsFiniteSet(1 .. MaxArrivals)
        BY MaxArrivalsAssumption, FiniteRange
      <4>. HIDE DEF total
      <4>. QED
        BY <4>1, <4>2, FS_Subset, FS_CardinalityType
    <3>8. s \notin total
      <4>1. \A x \in sent[w] : x < s
        <5>1. \A x \in sent[w] : x < A(b) /\ x \in Nat
          BY MaxArrivalsAssumption DEF WorkerOK, Own, A
        <5>2. A(b) <= s
          <6>1. CASE k = 0
            <7>1. b + k = b
              BY <1>1, <6>1
            <7>. QED
              BY <1>1, <1>2, <7>1 DEF s, A
          <6>2. CASE k # 0
            <7>1. b < b + k /\ b \in Nat
              BY <1>1, <3>1, <6>2
            <7>. QED
              <8>. HIDE DEF A
              <8>1. A(b) < A(b + k) /\ A(b) \in Nat /\ A(b + k) \in Nat
                BY <1>2, <3>1, <7>1
              <8>. QED
                BY <8>1 DEF s
          <6>. QED
            BY <6>1, <6>2
        <5>3. A(b) \in Nat
          BY <1>1, <1>2
        <5>. QED
          BY <3>2, <5>1, <5>2, <5>3
      <4>. QED
        BY <3>2, <3>6, <4>1
    <3>9. CASE c = -1
      <4>1. Cardinality(total) + f.dropped = Cardinality(sent[w]) + (k + 1)
        <5>. DEFINE n0 == Cardinality(sent[w])
                    n1 == Cardinality(total)
        <5>1. f.dropped = e.dropped + 1 /\ n1 + e.dropped = n0 + k
              /\ n0 \in Nat /\ n1 \in Nat /\ k \in Nat /\ e.dropped \in Nat
          BY <3>1, <3>3, <3>5, <3>6, <3>7, <3>9
        <5>. HIDE DEF n0, n1, total
        <5>2. n1 + f.dropped = n0 + (k + 1)
          BY <5>1
        <5>. QED
          BY <5>2 DEF n0, n1
      <4>2. \A x \in Conns(w) : open[w][x] => Len(e.flight[x]) = Pipelining
        BY <3>4, <3>5, <3>6, <3>9, PipeliningAssumption DEF HasRoom, InOrder
      <4>3. \A x \in Conns(w) : InOrder(e.flight[x], A(b + k + 1))
        BY <3>2, <3>5, <3>6, InOrderLater, ArrivalSequences
      <4>4. \A x \in e.sent : x < A(b + k + 1)
        BY <3>2, <3>5, <3>6
      <4>5. Progress(w, g, k + 1, f)
        BY <3>1, <3>3, <3>6, <3>9, <4>1, <4>2, <4>3, <4>4 DEF Progress, A
      <4>. QED
        BY <2>2, <4>5 DEF f
    <3>10. CASE c # -1
      <4>. DEFINE q == f.flight
      <4>1. /\ c \in Conns(w) /\ Len(e.flight[c]) < Pipelining /\ open[w][c]
            /\ q[c] = Append(e.flight[c], s) /\ \A x \in Conns(w) \ {c} : q[x] = e.flight[x]
        BY <3>3, <3>4, <3>5, <3>10 DEF HasRoom
      <4>2. sent[w] \cup f.sent = total \cup {s}
        BY <3>3, <3>10
      <4>3. Cardinality(total \cup {s}) = Cardinality(total) + 1
        <5>. HIDE DEF total
        <5>. QED
          BY <3>7, <3>8, FS_AddElement
      <4>4. Cardinality(sent[w] \cup f.sent) + f.dropped = Cardinality(sent[w]) + (k + 1)
        <5>. DEFINE n0 == Cardinality(sent[w])
                    n1 == Cardinality(total)
        <5>1. f.dropped = e.dropped /\ n1 + e.dropped = n0 + k
              /\ n0 \in Nat /\ n1 \in Nat /\ k \in Nat /\ e.dropped \in Nat
          BY <3>1, <3>3, <3>5, <3>6, <3>7, <3>10
        <5>2. Cardinality(sent[w] \cup f.sent) = n1 + 1
          BY <4>2, <4>3
        <5>. HIDE DEF n0, n1, total, q
        <5>3. n1 + 1 + f.dropped = n0 + (k + 1)
          BY <5>1
        <5>. QED
          BY <5>2, <5>3 DEF n0
      <4>5. InOrder(q[c], A(b + k + 1)) /\ Len(flight[w][c]) <= Len(q[c])
        <5>1. e.flight[c] \in Seq(1 .. MaxArrivals) /\ InOrder(e.flight[c], s)
          BY <3>5, <3>6, <4>1
        <5>2. InOrder(Append(e.flight[c], s), A(b + k + 1))
          BY <3>2, <4>1, <5>1, AppendInOrder, ArrivalSequences
        <5>3. Len(Append(e.flight[c], s)) = Len(e.flight[c]) + 1 /\ Len(e.flight[c]) \in Nat
          BY <5>1
        <5>4. Len(flight[w][c]) <= Len(e.flight[c]) /\ Len(flight[w][c]) \in Nat
          BY <3>6, <4>1 DEF WorkerOK
        <5>. QED
          BY <4>1, <5>2, <5>3, <5>4
      <4>6. \A x \in Conns(w) \ {c} :
               InOrder(q[x], A(b + k + 1)) /\ Len(flight[w][x]) <= Len(q[x])
        BY <3>2, <3>5, <3>6, <4>1, InOrderLater, ArrivalSequences
      <4>7. \A x \in f.sent : x < A(b + k + 1)
        <5>1. f.sent = e.sent \cup {s}
          BY <3>3, <3>10
        <5>2. \A x \in e.sent : x \in Nat /\ x < s
          BY <3>5, <3>6
        <5>. HIDE DEF q, total
        <5>. QED
          BY <3>2, <5>1, <5>2
      <4>8. f.dropped > 0 => FALSE
        BY <3>3, <3>6, <3>10, <4>1, PipeliningAssumption
      <4>9. f.sent \subseteq Own(w, g)
        BY <3>2, <3>3, <3>6, <3>10
      <4>10. Progress(w, g, k + 1, f)
        BY <3>1, <4>4, <4>5, <4>6, <4>7, <4>8, <4>9 DEF Progress, A
      <4>. QED
        BY <2>2, <4>10 DEF f
    <3>. QED
      BY <3>9, <3>10
  <2>3. 0 .. due \subseteq P
    <3>. HIDE DEF P
    <3>. QED
      BY <1>6, <2>1, <2>2, BoundedInduction
  <2>. QED
    BY <2>3
<1>. QED
  BY <1>1, <1>5, <1>6
\* Only a connection itself is at no distance from it.
PlacesAgreeAt(w, n, c) ==
    Distance(w, n, c) \in Nat /\ Distance(w, n, n) = 0 /\ (Distance(w, n, c) = 0 => c = n)

LEMMA SamePlace ==
    ASSUME NEW w \in Threads, NEW n \in Conns(w), NEW c \in Conns(w)
    PROVE  PlacesAgreeAt(w, n, c)
<1>1. /\ ConnectionsOf(w) \in Nat \ {0}
      /\ n \in 0 .. ConnectionsOf(w) - 1 /\ c \in 0 .. ConnectionsOf(w) - 1
  BY ShareType DEF Conns
<1>. QED
  BY <1>1 DEF PlacesAgreeAt, Distance

\* The turns of a tick after k of its arrivals: the next is behind the last one given,
\* and the first of them has gone to the connection that was next, if it had room.
Turning(w, k, d) ==
    /\ TurnOK(w, d.next, d.flight, sent[w] \cup d.sent)
    /\ \A s \in d.sent : Arrival(w, scheduled[w]) <= s
    /\ k > 0 /\ HasRoom(w, flight[w], next[w]) => First(d.flight[next[w]], d.sent)

\* An arrival after all the others is the latest, where it is appended.
LEMMA LatestAppended ==
    ASSUME NEW q \in Seq(Nat), NEW s \in Nat, InOrder(q, s),
           NEW taken \in SUBSET Nat, \A x \in taken : x < s
    PROVE  ~Latest(q, taken \cup {s})
<1>1. \A i \in DOMAIN q : q[i] \in Nat /\ q[i] < s
  BY DEF InOrder
<1>. QED
  BY <1>1 DEF Latest

\* The first arrival stays the first, and where it is, when a later one is appended
\* to a connection.
LEMMA FirstStays ==
    ASSUME NEW q \in Seq(Nat), NEW p \in Seq(Nat), NEW s \in Nat,
           NEW taken \in SUBSET Nat, \A x \in taken : x < s,
           p = q \/ p = Append(q, s), First(q, taken)
    PROVE  First(p, taken \cup {s})
<1>1. PICK i \in DOMAIN q : q[i] \in taken /\ \A x \in taken : q[i] <= x
  BY DEF First
<1>2. i \in DOMAIN p /\ p[i] = q[i]
  <2>1. Len(q) \in Nat /\ DOMAIN q = 1 .. Len(q) /\ i \in 1 .. Len(q)
    OBVIOUS
  <2>2. CASE p = Append(q, s)
    BY <2>1, <2>2, Appended
  <2>. QED
    BY <2>2
<1>3. q[i] \in Nat /\ q[i] <= s
  BY <1>1
<1>. QED
  BY <1>1, <1>2, <1>3 DEF First

\* A tick goes on with the turns, arrival by arrival.
LEMMA TickTurns ==
    ASSUME NEW w \in Threads, NEW g \in seen[w] .. MaxArrivals,
           WorkerOK(w, seen[w], next[w], flight[w], open[w], sent[w], dropped[w], scheduled[w]),
           NEW due \in Nat, NEW run, Dealing(w, Undealt(w), scheduled[w], due, run),
           \A k \in 0 .. due - 1 : Arrival(w, scheduled[w] + k) \in 1 .. MaxArrivals,
           \A k \in 0 .. due : Progress(w, g, k, run[k])
    PROVE  \A k \in 0 .. due : Turning(w, k, run[k])
<1>. DEFINE b == scheduled[w]
            P == {k \in 0 .. due : Turning(w, k, run[k])}
<1>1. /\ run \in [0 .. due -> Dealt(w)] /\ run[0] = Undealt(w)
      /\ \A k \in 0 .. due - 1 : run[k + 1] = Deal(w, run[k], Arrival(w, b + k))
  BY DEF Dealing
<1>2. /\ b \in Nat /\ next[w] \in Conns(w) /\ flight[w] \in [Conns(w) -> Seq(1 .. MaxArrivals)]
      /\ TurnOK(w, next[w], flight[w], sent[w]) /\ (\A x \in sent[w] : x < Arrival(w, b))
      /\ sent[w] \in SUBSET Nat
  <2>1. seen[w] \in Nat
    BY MaxArrivalsAssumption DEF WorkerOK
  <2>2. b \in Nat
    BY <2>1, ExpectedCounts DEF WorkerOK
  <2>3. sent[w] \in SUBSET Nat
    BY <2>1 DEF WorkerOK, Own
  <2>4. /\ next[w] \in Conns(w) /\ flight[w] \in [Conns(w) -> Seq(1 .. MaxArrivals)]
        /\ TurnOK(w, next[w], flight[w], sent[w]) /\ (\A x \in sent[w] : x < Arrival(w, b))
    BY DEF WorkerOK
  <2>. QED
    BY <2>2, <2>3, <2>4
<1>3. 0 \in P
  <2>1. run[0].sent = {} /\ run[0].flight = flight[w] /\ run[0].next = next[w]
    BY <1>1 DEF Undealt
  <2>2. Turning(w, 0, run[0])
    BY <1>2, <2>1 DEF Turning
  <2>. QED
    BY <2>2
<1>4. ASSUME NEW k \in 0 .. due - 1, k \in P
      PROVE  k + 1 \in P
  <2>. DEFINE e == run[k]
              s == Arrival(w, b + k)
              f == run[k + 1]
              c == NextAvailable(w, e)
              n == next[w]
              total == sent[w] \cup e.sent
  <2>1. /\ e \in Dealt(w) /\ f = Deal(w, e, s) /\ Progress(w, g, k, e) /\ Turning(w, k, e)
        /\ k \in Nat /\ b + k \in Nat /\ s \in 1 .. MaxArrivals /\ k + 1 \in 0 .. due
        /\ f \in Dealt(w)
    <3>1. k \in Nat /\ k \in 0 .. due /\ b + k \in Nat /\ k + 1 \in 0 .. due
      <4>1. b \in Nat
        BY <1>2
      <4>. HIDE DEF b, P
      <4>. QED
        BY <4>1
    <3>. QED
      BY <1>1, <1>4, <3>1
  <2>2. s \in Nat /\ Arrival(w, b) \in Nat /\ Arrival(w, b) <= s /\ (k = 0 => Arrival(w, b) = s)
    <3>1. Arrival(w, b) \in Nat /\ Arrival(w, b + k) \in Nat
      BY <1>2, <2>1, ArrivalFacts
    <3>2. CASE k = 0
      BY <1>2, <3>1, <3>2
    <3>3. CASE k # 0
      <4>1. b < b + k
        BY <1>2, <2>1, <3>3
      <4>2. Arrival(w, b) < Arrival(w, b + k)
        BY <1>2, <2>1, <4>1, ArrivalFacts
      <4>. QED
        BY <3>1, <3>3, <4>2
    <3>. QED
      BY <3>2, <3>3
  <2>3. Given(w, e, s, f, c)
    BY <2>1, DealOne DEF c
  <2>4. /\ c = -1 => \A x \in Conns(w) : ~HasRoom(w, e.flight, x)
        /\ c # -1 => /\ c \in Conns(w)
                     /\ \A x \in Conns(w) : HasRoom(w, e.flight, x) =>
                           Distance(w, e.next, c) <= Distance(w, e.next, x)
    <3>1. e.next \in Conns(w)
      BY <2>1 DEF Dealt
    <3>. QED
      BY <3>1, SearchRound DEF c
  <2>5. /\ e.flight \in [Conns(w) -> Seq(1 .. MaxArrivals)] /\ e.sent \in SUBSET (1 .. MaxArrivals)
        /\ f.flight \in [Conns(w) -> Seq(1 .. MaxArrivals)] /\ e.next \in Conns(w)
    BY <2>1 DEF Dealt
  <2>. HIDE DEF e, f, c, s, b
  <2>6. /\ \A x \in e.sent : x < s
        /\ \A x \in Conns(w) : InOrder(e.flight[x], s)
    BY <2>1 DEF Progress, s, b
  <2>7. total \in SUBSET Nat /\ (\A x \in total : x < s) /\ e.sent \in SUBSET Nat
    <3>1. \A x \in sent[w] : x < s
      BY <1>2, <2>2 DEF b
    <3>2. e.sent \in SUBSET Nat
      BY <2>5
    <3>. QED
      BY <1>2, <2>6, <3>1, <3>2
  <2>8. /\ TurnOK(w, e.next, e.flight, total)
        /\ \A x \in e.sent : Arrival(w, b) <= x
        /\ k > 0 /\ HasRoom(w, flight[w], n) => First(e.flight[n], e.sent)
    BY <2>1 DEF Turning, b
  <2>9. k = 0 => e.flight = flight[w] /\ e.next = n /\ e.sent = {}
    BY <1>1 DEF Undealt, e
  <2>10. CASE c = -1
    <3>1. f.next = e.next /\ f.flight = e.flight /\ f.sent = e.sent
      BY <2>3, <2>10 DEF Given
    <3>2. k + 1 > 0 /\ HasRoom(w, flight[w], n) => First(f.flight[n], f.sent)
      <4>1. CASE k = 0
        BY <1>2, <2>4, <2>9, <2>10, <4>1
      <4>2. CASE k # 0
        BY <2>1, <2>8, <3>1, <4>2
      <4>. QED
        BY <4>1, <4>2
    <3>3. Turning(w, k + 1, f)
      BY <2>8, <3>1, <3>2 DEF Turning, b
    <3>. QED
      BY <2>1, <3>3 DEF f
  <2>11. CASE c # -1
    <3>1. /\ c \in Conns(w) /\ f.flight = [e.flight EXCEPT ![c] = Append(@, s)]
          /\ f.sent = e.sent \cup {s}
          /\ f.next = IF c + 1 < ConnectionsOf(w) THEN c + 1 ELSE 0
      BY <2>3, <2>11 DEF Given
    <3>2. f.next = (c + 1) % ConnectionsOf(w)
      BY <3>1, Round, Zenon
    <3>3. /\ f.flight[c] = Append(e.flight[c], s)
          /\ \A x \in Conns(w) \ {c} : f.flight[x] = e.flight[x]
      BY <2>5, <3>1
    <3>4. TurnOK(w, f.next, f.flight, sent[w] \cup f.sent)
      <4>1. sent[w] \cup f.sent = total \cup {s}
        BY <3>1
      <4>2. ASSUME NEW x \in Conns(w), x # c
            PROVE  ~Latest(f.flight[x], total \cup {s})
        <5>1. e.flight[x] \in Seq(Nat) /\ f.flight[x] = e.flight[x]
          BY <2>5, <3>3, <4>2, ArrivalSequences
        <5>. HIDE DEF total
        <5>2. ~Latest(e.flight[x], total \cup {s})
          BY <2>2, <2>6, <2>7, <5>1, LatestAppended
        <5>. QED
          BY <5>1, <5>2
      <4>. QED
        BY <3>2, <4>1, <4>2 DEF TurnOK
    <3>5. \A x \in f.sent : Arrival(w, b) <= x
      BY <2>2, <2>8, <3>1
    <3>6. ASSUME HasRoom(w, flight[w], n)
          PROVE  First(f.flight[n], f.sent)
      <4>1. CASE k = 0
        <5>1. HasRoom(w, e.flight, n) /\ e.next = n
          BY <2>9, <3>6, <4>1
        <5>2. c = n
          <6>1. Distance(w, n, c) <= Distance(w, n, n)
            BY <1>2, <2>4, <2>11, <5>1
          <6>2. n \in Conns(w) /\ PlacesAgreeAt(w, n, c)
            BY <1>2, <3>1, SamePlace
          <6>. QED
            BY <6>1, <6>2 DEF PlacesAgreeAt
        <5>3. f.sent = {s} /\ f.flight[n] = Append(e.flight[n], s) /\ e.flight[n] \in Seq(Nat)
          BY <1>2, <2>5, <2>9, <3>1, <3>3, <4>1, <5>2, ArrivalSequences
        <5>4. Len(e.flight[n]) + 1 \in DOMAIN f.flight[n] /\ f.flight[n][Len(e.flight[n]) + 1] = s
          BY <2>2, <5>3
        <5>5. s \in f.sent /\ \A x \in f.sent : s <= x
          BY <2>2, <5>3
        <5>. QED
          BY <5>4, <5>5 DEF First
      <4>2. CASE k # 0
        <5>1. First(e.flight[n], e.sent) /\ n \in Conns(w)
          BY <1>2, <2>1, <2>8, <3>6, <4>2
        <5>2. f.flight[n] = e.flight[n] \/ f.flight[n] = Append(e.flight[n], s)
          BY <3>3, <5>1
        <5>3. e.flight[n] \in Seq(Nat) /\ f.flight[n] \in Seq(Nat)
          BY <2>5, <5>1, ArrivalSequences
        <5>4. First(f.flight[n], e.sent \cup {s})
          BY <2>2, <2>6, <2>7, <5>1, <5>2, <5>3, FirstStays
        <5>. QED
          BY <3>1, <5>4
      <4>. QED
        BY <4>1, <4>2
    <3>7. Turning(w, k + 1, f)
      BY <3>4, <3>5, <3>6 DEF Turning, b
    <3>. QED
      BY <2>1, <3>7 DEF f
  <2>. QED
    BY <2>10, <2>11
<1>5. 0 .. due \subseteq P
  <2>. HIDE DEF P
  <2>. QED
    BY <1>3, <1>4, BoundedInduction
<1>. QED
  BY <1>5
--------------------------------------------------------------------------------
(* The steps keep the invariant *)

\* Time does not take arrivals back.
LEMMA ExpectedGrows ==
    ASSUME NEW w \in Threads, NEW g \in Nat, NEW h \in Nat, g <= h
    PROVE  Expected(w, g) \in Nat /\ Expected(w, h) - Expected(w, g) \in Nat
<1>. DEFINE a == Expected(w, g)
            b == Expected(w, h)
<1>1. /\ a \in Nat /\ b \in Nat
      /\ \A i \in Nat : i < a <=> Arrival(w, i) <= g
      /\ \A i \in Nat : i < b <=> Arrival(w, i) <= h
  BY ExpectedCounts
<1>2. Arrival(w, b) \in Nat
  BY <1>1, ArrivalFacts
<1>. HIDE DEF a, b
<1>3. a <= b
  BY <1>1, <1>2
<1>. QED
  BY <1>1, <1>3 DEF a, b

\* What a tick does, arrival by arrival.
TickRuns(w, g, full, due, run) ==
    /\ g \in seen[w] .. MaxArrivals
    /\ due \in Nat /\ due = Expected(w, g) - scheduled[w]
    /\ \A k \in 0 .. due - 1 : Arrival(w, scheduled[w] + k) \in 1 .. MaxArrivals
    /\ Dealing(w, Undealt(w), scheduled[w], due, run)
    /\ \A k \in 0 .. due : Progress(w, g, k, run[k]) /\ Turning(w, k, run[k])
    /\ seen' = [seen EXCEPT ![w] = g]
    /\ scheduled' = [scheduled EXCEPT ![w] = @ + due]
    /\ next' = [next EXCEPT ![w] = run[due].next]
    /\ flight' = [flight EXCEPT ![w] = run[due].flight]
    /\ open' = [open EXCEPT ![w] = [c \in Conns(w) |-> @[c] /\ c \notin full]]
    /\ sent' = [sent EXCEPT ![w] = @ \cup run[due].sent]
    /\ dropped' = [dropped EXCEPT ![w] = @ + run[due].dropped]

\* A tick of a worker is such a run.
LEMMA TickHasRun ==
    ASSUME IInv, NEW w \in Threads, NEW g \in 0 .. MaxArrivals, NEW full \in SUBSET Conns(w),
           Tick(w, g, full)
    PROVE  \E due, run : TickRuns(w, g, full, due, run)
<1>. DEFINE due == Expected(w, g) - scheduled[w]
            d == Undealt(w)
<1>1. WorkerOK(w, seen[w], next[w], flight[w], open[w], sent[w], dropped[w], scheduled[w])
  BY DEF IInv
<1>2. g \in seen[w] .. MaxArrivals /\ seen[w] \in Nat /\ g \in Nat
  <2>1. seen[w] \in 0 .. MaxArrivals
    BY <1>1 DEF WorkerOK
  <2>2. g \in seen[w] .. MaxArrivals
    BY DEF Tick
  <2>. QED
    BY <2>1, <2>2, MaxArrivalsAssumption
<1>3. due \in Nat /\ scheduled[w] \in Nat /\ scheduled[w] + due = Expected(w, g)
  <2>1. scheduled[w] = Expected(w, seen[w])
    BY <1>1 DEF WorkerOK
  <2>2. seen[w] <= g
    BY <1>2
  <2>3. Expected(w, seen[w]) \in Nat /\ Expected(w, g) - Expected(w, seen[w]) \in Nat
    BY <1>2, <2>2, ExpectedGrows
  <2>4. Expected(w, g) \in Nat
    BY <1>2, ExpectedCounts
  <2>. QED
    BY <2>1, <2>3, <2>4
<1>4. d \in Dealt(w)
  BY <1>1 DEF WorkerOK, Dealt, Undealt
<1>5. \A k \in 0 .. due - 1 : Arrival(w, scheduled[w] + k) \in 1 .. MaxArrivals
  <2>1. ASSUME NEW k \in 0 .. due - 1
        PROVE  Arrival(w, scheduled[w] + k) \in 1 .. MaxArrivals
    <3>. DEFINE i == scheduled[w] + k
    <3>1. i \in Nat /\ i < Expected(w, g)
      BY <1>3
    <3>. HIDE DEF i
    <3>2. Arrival(w, i) \in Nat \ {0} /\ Arrival(w, i) <= g
      BY <1>2, <3>1, ArrivalFacts, ExpectedCounts
    <3>3. \A a \in Nat \ {0} : a <= g => a \in 1 .. MaxArrivals
      BY <1>2, MaxArrivalsAssumption
    <3>. QED
      BY <3>2, <3>3 DEF i
  <2>. QED
    BY <2>1
<1>. HIDE DEF due, d
<1>6. PICK run : Dealing(w, d, scheduled[w], due, run)
  BY <1>3, <1>4, <1>5, TickDeals
<1>7. \A k \in 0 .. due : Progress(w, g, k, run[k])
  BY <1>1, <1>2, <1>6, TickProgress DEF due, d, Undealt
<1>11. \A k \in 0 .. due : Turning(w, k, run[k])
  <2>1. Dealing(w, Undealt(w), scheduled[w], due, run)
    BY <1>6 DEF d
  <2>. QED
    BY <1>1, <1>2, <1>3, <1>5, <1>7, <2>1, TickTurns
<1>8. run[due] = DealAll(w, d, scheduled[w], due)
  BY <1>6 DEF Dealing
<1>. DEFINE dealt == DealAll(w, d, scheduled[w], due)
<1>9. /\ seen' = [seen EXCEPT ![w] = g]
      /\ scheduled' = [scheduled EXCEPT ![w] = @ + due]
      /\ next' = [next EXCEPT ![w] = dealt.next]
      /\ flight' = [flight EXCEPT ![w] = dealt.flight]
      /\ open' = [open EXCEPT ![w] = [c \in Conns(w) |-> @[c] /\ c \notin full]]
      /\ sent' = [sent EXCEPT ![w] = @ \cup dealt.sent]
      /\ dropped' = [dropped EXCEPT ![w] = @ + dealt.dropped]
  BY DEF Tick, DealAll, due, d, Undealt
<1>10. TickRuns(w, g, full, due, run)
  <2>. HIDE DEF dealt
  <2>1. run[due] = dealt
    BY <1>8 DEF dealt
  <2>. QED
    BY <1>2, <1>3, <1>5, <1>6, <1>7, <1>9, <1>11, <2>1 DEF TickRuns, d, due
<1>. QED
  BY <1>10

\* A step of worker w that leaves it as the invariant says leaves all so.
Becomes(w, g, n, q, o, taken, lost, i) ==
    /\ seen' = [seen EXCEPT ![w] = g] /\ scheduled' = [scheduled EXCEPT ![w] = i]
    /\ next' = [next EXCEPT ![w] = n] /\ flight' = [flight EXCEPT ![w] = q]
    /\ open' = [open EXCEPT ![w] = o] /\ sent' = [sent EXCEPT ![w] = taken]
    /\ dropped' = [dropped EXCEPT ![w] = lost]

\* A step that leaves one worker sound leaves all of them sound.
LEMMA OneWorker ==
    ASSUME IInv, NEW w \in Threads,
           NEW g, NEW n, NEW q, NEW o, NEW taken, NEW lost, NEW i,
           Becomes(w, g, n, q, o, taken, lost, i),
           WorkerOK(w, g, n, q, o, taken, lost, i)
    PROVE  IInv'
<1>1. /\ seen' = [v \in Threads |-> IF v = w THEN g ELSE seen[v]]
      /\ scheduled' = [v \in Threads |-> IF v = w THEN i ELSE scheduled[v]]
      /\ next' = [v \in Threads |-> IF v = w THEN n ELSE next[v]]
      /\ flight' = [v \in Threads |-> IF v = w THEN q ELSE flight[v]]
      /\ open' = [v \in Threads |-> IF v = w THEN o ELSE open[v]]
      /\ sent' = [v \in Threads |-> IF v = w THEN taken ELSE sent[v]]
      /\ dropped' = [v \in Threads |-> IF v = w THEN lost ELSE dropped[v]]
  <2>1. /\ DOMAIN seen = Threads /\ DOMAIN scheduled = Threads /\ DOMAIN next = Threads
        /\ DOMAIN flight = Threads /\ DOMAIN open = Threads /\ DOMAIN sent = Threads
        /\ DOMAIN dropped = Threads
    BY DEF IInv
  <2>. QED
    BY <2>1 DEF Becomes
<1>2. ASSUME NEW v \in Threads
      PROVE  WorkerOK(v, seen'[v], next'[v], flight'[v], open'[v], sent'[v], dropped'[v],
                      scheduled'[v])
  <2>1. CASE v = w
    BY <1>1, <2>1
  <2>2. CASE v # w
    <3>1. WorkerOK(v, seen[v], next[v], flight[v], open[v], sent[v], dropped[v], scheduled[v])
      BY DEF IInv
    <3>. QED
      BY <1>1, <2>2, <3>1
  <2>. QED
    BY <2>1, <2>2
<1>3. ASSUME NEW v \in Threads
      PROVE  WorkerOK(v, seen[v], next[v], flight[v], open[v], sent[v], dropped[v], scheduled[v])'
  BY <1>2 DEF WorkerOK, InOrder, TurnOK, Latest, Own, Expected, Arrival, Conns,
              ConnectionsOf, Threads
<1>. QED
  BY <1>1, <1>3 DEF IInv

\* At first nothing has been seen, sent or dropped.
LEMMA InvInit == ScheduleInit => IInv
<1>. SUFFICES ASSUME ScheduleInit
              PROVE  IInv
  OBVIOUS
<1>1. ASSUME NEW w \in Threads
      PROVE  WorkerOK(w, 0, 0, [c \in Conns(w) |-> <<>>], [c \in Conns(w) |-> TRUE], {}, 0, 0)
  <2>1. Expected(w, 0) = 0
    BY WorkersAssumption DEF Expected, Threads
  <2>2. 0 \in Conns(w)
    BY ShareType DEF Conns
  <2>3. Cardinality({}) = 0
    BY FS_EmptySet
  <2>4. InOrder(<<>>, Arrival(w, 0))
    BY PipeliningAssumption DEF InOrder
  <2>5. TurnOK(w, 0, [c \in Conns(w) |-> <<>>], {})
    BY DEF TurnOK, Latest
  <2>. QED
    BY <2>1, <2>2, <2>3, <2>4, <2>5, MaxArrivalsAssumption DEF WorkerOK
<1>. QED
  BY <1>1 DEF ScheduleInit, IInv

\* A tick keeps the invariant: it counts what it deals.
LEMMA InvTick ==
    ASSUME IInv, NEW w \in Threads, NEW g \in 0 .. MaxArrivals, NEW full \in SUBSET Conns(w),
           Tick(w, g, full)
    PROVE  IInv'
<1>1. PICK due, run : TickRuns(w, g, full, due, run)
  BY TickHasRun
<1>. DEFINE d == run[due]
            o == [c \in Conns(w) |-> open[w][c] /\ c \notin full]
            b == scheduled[w]
<1>2. WorkerOK(w, seen[w], next[w], flight[w], open[w], sent[w], dropped[w], scheduled[w])
  BY DEF IInv
<1>3. /\ d \in Dealt(w) /\ Progress(w, g, due, d) /\ Turning(w, due, d) /\ due \in Nat
      /\ due = Expected(w, g) - b /\ g \in seen[w] .. MaxArrivals
  <2>1. due \in Nat /\ due \in 0 .. due /\ g \in seen[w] .. MaxArrivals
        /\ due = Expected(w, g) - b /\ run \in [0 .. due -> Dealt(w)]
        /\ Progress(w, g, due, d) /\ Turning(w, due, d)
    BY <1>1 DEF TickRuns, Dealing
  <2>. QED
    BY <2>1
<1>4. /\ seen[w] \in Nat /\ g \in Nat /\ g \in 0 .. MaxArrivals /\ b \in Nat
      /\ Expected(w, g) = b + due /\ seen[w] <= g
  <2>1. seen[w] \in 0 .. MaxArrivals /\ b = Expected(w, seen[w])
    BY <1>2 DEF WorkerOK
  <2>2. seen[w] \in Nat /\ g \in Nat /\ g \in 0 .. MaxArrivals /\ seen[w] <= g
    BY <1>3, <2>1, MaxArrivalsAssumption
  <2>3. Expected(w, seen[w]) \in Nat /\ Expected(w, g) \in Nat
    BY <2>2, ExpectedCounts
  <2>. QED
    BY <1>3, <2>1, <2>2, <2>3
<1>5. /\ d.next \in Conns(w) /\ d.flight \in [Conns(w) -> Seq(1 .. MaxArrivals)]
      /\ d.dropped \in Nat
  BY <1>3 DEF Dealt
<1>. HIDE DEF d
<1>6. sent[w] \cup d.sent \subseteq Own(w, g)
  <2>1. Own(w, seen[w]) \subseteq Own(w, g)
    BY <1>4 DEF Own
  <2>. QED
    BY <1>2, <1>3, <2>1 DEF WorkerOK, Progress
<1>7. /\ dropped[w] + d.dropped \in Nat
      /\ Cardinality(sent[w] \cup d.sent) + (dropped[w] + d.dropped) = b + due
  <2>. DEFINE n0 == Cardinality(sent[w])
              n1 == Cardinality(sent[w] \cup d.sent)
  <2>1. IsFiniteSet(1 .. g) /\ Own(w, g) \subseteq 1 .. g /\ Own(w, seen[w]) \subseteq 1 .. g
    BY <1>4, FiniteRange DEF Own
  <2>2. sent[w] \in SUBSET (1 .. g) /\ sent[w] \cup d.sent \in SUBSET (1 .. g)
    BY <1>2, <1>6, <2>1 DEF WorkerOK
  <2>3. n0 \in Nat /\ n1 \in Nat
    BY <2>1, <2>2, FS_Subset, FS_CardinalityType
  <2>4. n0 + dropped[w] = b /\ dropped[w] \in Nat
    BY <1>2 DEF WorkerOK
  <2>5. n1 + d.dropped = n0 + due
    BY <1>3 DEF Progress
  <2>. DEFINE x == dropped[w]
              y == d.dropped
  <2>6. n0 + x = b /\ n1 + y = n0 + due /\ x \in Nat /\ y \in Nat /\ n0 \in Nat /\ n1 \in Nat
        /\ due \in Nat
    BY <1>3, <1>5, <2>3, <2>4, <2>5
  <2>. HIDE DEF n0, n1, x, y, b
  <2>7. n1 + (x + y) = b + due /\ x + y \in Nat
    BY <2>6
  <2>. QED
    BY <2>7 DEF n1, x, y
<1>8. \A s \in sent[w] \cup d.sent : s < Arrival(w, b + due)
  <2>1. Arrival(w, b) <= Arrival(w, b + due) /\ Arrival(w, b) \in Nat
        /\ Arrival(w, b + due) \in Nat
    <3>1. Arrival(w, b) \in Nat /\ Arrival(w, b + due) \in Nat
      <4>1. b \in Nat /\ b + due \in Nat
        BY <1>3, <1>4
      <4>. HIDE DEF b, o
      <4>. QED
        BY <4>1, ArrivalFacts
    <3>2. CASE due = 0
      <4>1. b + due = b
        BY <1>4, <3>2
      <4>. QED
        BY <3>1, <4>1
    <3>3. CASE due # 0
      <4>1. b \in Nat /\ b + due \in Nat /\ b < b + due
        BY <1>3, <1>4, <3>3
      <4>2. Arrival(w, b) < Arrival(w, b + due)
        BY <4>1, ArrivalFacts
      <4>. QED
        BY <3>1, <4>2
    <3>. QED
      BY <3>2, <3>3
  <2>2. \A s \in sent[w] : s < Arrival(w, b) /\ s \in Nat
    BY <1>2, <1>4 DEF WorkerOK, Own
  <2>3. \A s \in d.sent : s < Arrival(w, b + due)
    BY <1>3 DEF Progress
  <2>. HIDE DEF b
  <2>. QED
    BY <2>1, <2>2, <2>3
<1>9. \A c \in Conns(w) : InOrder(d.flight[c], Arrival(w, b + due))
  BY <1>3 DEF Progress
<1>10. o \in [Conns(w) -> BOOLEAN]
  BY <1>2 DEF WorkerOK
<1>14. TurnOK(w, d.next, d.flight, sent[w] \cup d.sent)
  BY <1>3 DEF Turning
<1>11. WorkerOK(w, g, d.next, d.flight, o, sent[w] \cup d.sent, dropped[w] + d.dropped, b + due)
  <2>. HIDE DEF o, b
  <2>. QED
    BY <1>4, <1>5, <1>6, <1>7, <1>8, <1>9, <1>10, <1>14 DEF WorkerOK
<1>12. /\ seen' = [seen EXCEPT ![w] = g]
       /\ scheduled' = [scheduled EXCEPT ![w] = b + due]
       /\ next' = [next EXCEPT ![w] = d.next]
       /\ flight' = [flight EXCEPT ![w] = d.flight]
       /\ open' = [open EXCEPT ![w] = o]
       /\ sent' = [sent EXCEPT ![w] = sent[w] \cup d.sent]
       /\ dropped' = [dropped EXCEPT ![w] = dropped[w] + d.dropped]
  BY <1>1 DEF TickRuns, d
<1>. HIDE DEF o, b
<1>13. Becomes(w, g, d.next, d.flight, o, sent[w] \cup d.sent, dropped[w] + d.dropped, b + due)
  BY <1>12, Zenon DEF Becomes
<1>. QED
  BY <1>11, <1>13, OneWorker, Zenon

\* The oldest request is gone.
LEMMA TailInOrder ==
    ASSUME NEW q \in Seq(Nat), q # <<>>, NEW limit \in Nat, InOrder(q, limit)
    PROVE  InOrder(Tail(q), limit)
<1>1. /\ Len(q) \in Nat \ {0} /\ Len(Tail(q)) = Len(q) - 1
      /\ DOMAIN q = 1 .. Len(q) /\ DOMAIN Tail(q) = 1 .. Len(q) - 1
      /\ \A i \in 1 .. Len(q) - 1 : Tail(q)[i] = q[i + 1] /\ i + 1 \in 1 .. Len(q)
  OBVIOUS
<1>2. Pipelining \in Nat
  BY PipeliningAssumption
<1>3. \A i, j \in 1 .. Len(q) : i < j => q[i] < q[j]
  BY <1>1 DEF InOrder
<1>4. \A i \in 1 .. Len(q) : q[i] < limit
  BY <1>1 DEF InOrder
<1>5. \A i, j \in 1 .. Len(q) - 1 : i < j => Tail(q)[i] < Tail(q)[j]
  BY <1>1, <1>3
<1>6. \A i \in 1 .. Len(q) - 1 : Tail(q)[i] < limit
  BY <1>1, <1>4
<1>7. Len(q) - 1 <= Pipelining
  BY <1>1, <1>2 DEF InOrder
<1>. QED
  BY <1>1, <1>5, <1>6, <1>7, Zenon DEF InOrder

\* A step of one connection of worker w: what it has in flight and whether it takes requests.
LEMMA OneConnection ==
    ASSUME IInv, NEW w \in Threads, NEW c \in Conns(w),
           NEW q \in Seq(1 .. MaxArrivals), InOrder(q, Arrival(w, scheduled[w])),
           \A i \in DOMAIN q : \E j \in DOMAIN flight[w][c] : q[i] = flight[w][c][j],
           NEW o \in BOOLEAN,
           flight' = [flight EXCEPT ![w][c] = q], open' = [open EXCEPT ![w][c] = o],
           UNCHANGED <<seen, scheduled, next, sent, dropped>>
    PROVE  IInv'
<1>. DEFINE qs == [flight[w] EXCEPT ![c] = q]
            os == [open[w] EXCEPT ![c] = o]
<1>1. WorkerOK(w, seen[w], next[w], flight[w], open[w], sent[w], dropped[w], scheduled[w])
  BY DEF IInv
<1>2. qs \in [Conns(w) -> Seq(1 .. MaxArrivals)] /\ os \in [Conns(w) -> BOOLEAN]
  BY <1>1 DEF WorkerOK
<1>3. \A e \in Conns(w) : InOrder(qs[e], Arrival(w, scheduled[w]))
  BY <1>1 DEF WorkerOK
<1>8. TurnOK(w, next[w], qs, sent[w])
  <2>1. TurnOK(w, next[w], flight[w], sent[w]) /\ flight[w] \in [Conns(w) -> Seq(1 .. MaxArrivals)]
    BY <1>1 DEF WorkerOK
  <2>2. Latest(q, sent[w]) => Latest(flight[w][c], sent[w])
    BY DEF Latest
  <2>3. qs[c] = q /\ \A e \in Conns(w) \ {c} : qs[e] = flight[w][e]
    BY <2>1
  <2>. HIDE DEF qs
  <2>. QED
    BY <2>1, <2>2, <2>3 DEF TurnOK
<1>4. flight' = [flight EXCEPT ![w] = qs] /\ open' = [open EXCEPT ![w] = os]
  BY DEF IInv
<1>. HIDE DEF qs, os
<1>5. WorkerOK(w, seen[w], next[w], qs, os, sent[w], dropped[w], scheduled[w])
  BY <1>1, <1>2, <1>3, <1>8 DEF WorkerOK
<1>6. /\ seen' = [seen EXCEPT ![w] = seen[w]]
      /\ scheduled' = [scheduled EXCEPT ![w] = scheduled[w]]
      /\ next' = [next EXCEPT ![w] = next[w]]
      /\ sent' = [sent EXCEPT ![w] = sent[w]]
      /\ dropped' = [dropped EXCEPT ![w] = dropped[w]]
  BY DEF IInv
<1>7. Becomes(w, seen[w], next[w], qs, os, sent[w], dropped[w], scheduled[w])
  BY <1>4, <1>6, Zenon DEF Becomes
<1>. QED
  BY <1>5, <1>7, OneWorker, Zenon

\* So does every step.
LEMMA InvNext == IInv /\ [ScheduleNext]_scheduleVars => IInv'
<1>. SUFFICES ASSUME IInv, [ScheduleNext]_scheduleVars
              PROVE  IInv'
  OBVIOUS
<1>1. CASE UNCHANGED scheduleVars
  BY <1>1 DEF scheduleVars, IInv, WorkerOK, InOrder, TurnOK, Latest, Own, Expected, Arrival,
              Conns, ConnectionsOf, Threads
<1>2. ASSUME NEW w \in Threads, NEW g \in 0 .. MaxArrivals, NEW full \in SUBSET Conns(w),
             Tick(w, g, full)
      PROVE  IInv'
  BY <1>2, InvTick
<1>3. ASSUME NEW w \in Threads, NEW c \in Conns(w), Respond(w, c) \/ Close(w, c) \/ Open(w, c)
      PROVE  IInv'
  <2>1. WorkerOK(w, seen[w], next[w], flight[w], open[w], sent[w], dropped[w], scheduled[w])
    BY DEF IInv
  <2>2. /\ flight[w] \in [Conns(w) -> Seq(1 .. MaxArrivals)] /\ open[w] \in [Conns(w) -> BOOLEAN]
        /\ flight[w][c] \in Seq(1 .. MaxArrivals) /\ flight[w][c] \in Seq(Nat)
        /\ InOrder(flight[w][c], Arrival(w, scheduled[w]))
    BY <2>1, ArrivalSequences DEF WorkerOK
  <2>3. Arrival(w, scheduled[w]) \in Nat
    <3>1. scheduled[w] \in Nat
      BY <2>1, MaxArrivalsAssumption, ExpectedCounts DEF WorkerOK
    <3>. QED
      BY <3>1, ArrivalFacts
  <2>4. w \in DOMAIN flight /\ w \in DOMAIN open /\ c \in DOMAIN flight[w] /\ c \in DOMAIN open[w]
    BY <2>2 DEF IInv
  <2>5. CASE Respond(w, c)
    <3>1. Tail(flight[w][c]) \in Seq(1 .. MaxArrivals) /\ flight[w][c] # <<>>
      <4>1. \A T : \A q \in Seq(T) : q # <<>> => Tail(q) \in Seq(T)
        OBVIOUS
      <4>. QED
        BY <2>2, <2>5, <4>1, Zenon DEF Respond
    <3>2. InOrder(Tail(flight[w][c]), Arrival(w, scheduled[w]))
      BY <2>2, <2>3, <3>1, TailInOrder
    <3>3. flight' = [flight EXCEPT ![w][c] = Tail(flight[w][c])]
      BY <2>5 DEF Respond
    <3>4. open' = [open EXCEPT ![w][c] = open[w][c]]
      <4>1. open' = open /\ open = [v \in Threads |-> open[v]]
        BY <2>5 DEF Respond, IInv
      <4>2. open[w] = [open[w] EXCEPT ![c] = open[w][c]]
        BY <2>2
      <4>3. open = [open EXCEPT ![w] = open[w]]
        BY <4>1
      <4>. QED
        BY <4>1, <4>2, <4>3
    <3>6. \A i \in DOMAIN Tail(flight[w][c]) :
             \E j \in DOMAIN flight[w][c] : Tail(flight[w][c])[i] = flight[w][c][j]
      <4>1. ASSUME NEW r \in Seq(Nat), r # <<>>, NEW i \in DOMAIN Tail(r)
            PROVE  i + 1 \in DOMAIN r /\ Tail(r)[i] = r[i + 1]
        BY <4>1
      <4>. QED
        BY <2>2, <3>1, <4>1
    <3>5. open[w][c] \in BOOLEAN /\ UNCHANGED <<seen, scheduled, next, sent, dropped>>
      BY <2>2, <2>5 DEF Respond
    <3>. QED
      BY <3>1, <3>2, <3>3, <3>4, <3>5, <3>6, OneConnection
  <2>6. CASE Close(w, c)
    <3>1. /\ <<>> \in Seq(1 .. MaxArrivals) /\ InOrder(<<>>, Arrival(w, scheduled[w]))
          /\ DOMAIN <<>> = {}
      BY PipeliningAssumption DEF InOrder
    <3>. QED
      BY <2>6, <3>1, OneConnection DEF Close
  <2>7. CASE Open(w, c)
    <3>1. flight' = [flight EXCEPT ![w][c] = flight[w][c]]
      <4>1. flight' = flight /\ flight = [v \in Threads |-> flight[v]]
        BY <2>7 DEF Open, IInv
      <4>2. flight[w] = [flight[w] EXCEPT ![c] = flight[w][c]]
        BY <2>2
      <4>3. flight = [flight EXCEPT ![w] = flight[w]]
        BY <4>1
      <4>. QED
        BY <4>1, <4>2, <4>3
    <3>. QED
      BY <2>2, <2>7, <3>1, OneConnection DEF Open
  <2>. QED
    BY <1>3, <2>5, <2>6, <2>7
<1>. QED
  BY <1>1, <1>2, <1>3 DEF ScheduleNext

\* The invariant holds in every reachable state.
LEMMA InvHolds == ScheduleSpec => []IInv
BY InvInit, InvNext, PTL DEF ScheduleSpec
--------------------------------------------------------------------------------
(* Theorems *)

\* What was sent and what was dropped are all of the arrivals, each counted once.
LEMMA InvGivesEveryArrivalOnce == IInv => EveryArrivalOnce
<1>. SUFFICES ASSUME IInv
              PROVE  EveryArrivalOnce
  OBVIOUS
<1>1. ASSUME NEW w \in Threads
      PROVE  /\ seen[w] \in 0 .. MaxArrivals /\ seen[w] \in Nat
             /\ WorkerOK(w, seen[w], next[w], flight[w], open[w], sent[w], dropped[w], scheduled[w])
             /\ scheduled[w] = Expected(w, seen[w]) /\ scheduled[w] \in Nat
             /\ Cardinality(Own(w, seen[w])) = scheduled[w]
  <2>1. WorkerOK(w, seen[w], next[w], flight[w], open[w], sent[w], dropped[w], scheduled[w])
    BY DEF IInv
  <2>2. seen[w] \in 0 .. MaxArrivals /\ scheduled[w] = Expected(w, seen[w])
    BY <2>1 DEF WorkerOK
  <2>3. seen[w] \in Nat
    BY <2>2, MaxArrivalsAssumption
  <2>. QED
    BY <2>1, <2>2, <2>3, ExpectedCounts, OwnCardinality
<1>2. ScheduleTypeOK
  <2>1. ASSUME NEW w \in Threads
        PROVE  sent[w] \subseteq 1 .. MaxArrivals
    <3>1. seen[w] <= MaxArrivals /\ seen[w] \in Nat /\ sent[w] \subseteq Own(w, seen[w])
      BY <1>1, MaxArrivalsAssumption DEF WorkerOK
    <3>. QED
      BY <3>1, MaxArrivalsAssumption DEF Own
  <2>. QED
    BY <1>1, <2>1 DEF ScheduleTypeOK, WorkerOK
<1>3. \A w \in Threads :
         /\ sent[w] \subseteq Own(w, seen[w])
         /\ Cardinality(sent[w]) + dropped[w] = Cardinality(Own(w, seen[w]))
  BY <1>1 DEF WorkerOK
<1>4. \A v, w \in Threads : v # w => sent[v] \cap sent[w] = {}
  BY <1>3 DEF Own
<1>5. \A w \in Threads : \A c \in Conns(w) :
         /\ Len(flight[w][c]) <= Pipelining
         /\ \A i, j \in DOMAIN flight[w][c] : i < j => flight[w][c][i] < flight[w][c][j]
  BY <1>1 DEF WorkerOK, InOrder
<1>. QED
  BY <1>2, <1>3, <1>4, <1>5 DEF EveryArrivalOnce

\* However late and uneven the ticks, every arrival that is due is sent once by the
\* worker it belongs to or counted as dropped by it, and a connection has its
\* requests in flight in the order of their arrivals.
THEOREM EveryArrivalOnceHolds == ScheduleSpec => []EveryArrivalOnce
BY InvHolds, InvGivesEveryArrivalOnce, PTL

\* An arrival is dropped only when no connection of its worker had room for it.
THEOREM DropsOnlyWhenFullHolds == ScheduleSpec => DropsOnlyWhenFull
<1>. DEFINE Full == \A w \in Threads : dropped'[w] > dropped[w] =>
                        \A c \in Conns(w) : open[w][c] => Len(flight'[w][c]) = Pipelining
<1>1. ASSUME IInv, ScheduleNext
      PROVE  Full
  <2>1. \A w \in Threads : dropped[w] \in Nat
    BY <1>1 DEF IInv, WorkerOK
  <2>2. ASSUME NEW w \in Threads, NEW c \in Conns(w), Respond(w, c) \/ Close(w, c) \/ Open(w, c)
        PROVE  Full
    <3>1. dropped' = dropped
      BY <2>2 DEF Respond, Close, Open
    <3>. QED
      BY <2>1, <3>1
  <2>3. ASSUME NEW w \in Threads, NEW g \in 0 .. MaxArrivals, NEW full \in SUBSET Conns(w),
               Tick(w, g, full)
        PROVE  Full
    <3>1. PICK due, run : TickRuns(w, g, full, due, run)
      BY <1>1, <2>3, TickHasRun
    <3>. DEFINE d == run[due]
    <3>2. Progress(w, g, due, d) /\ d.dropped \in Nat
      <4>1. due \in 0 .. due /\ d \in Dealt(w)
        BY <3>1 DEF TickRuns, Dealing
      <4>. QED
        BY <3>1, <4>1 DEF TickRuns, Dealt
    <3>3. /\ dropped' = [dropped EXCEPT ![w] = @ + d.dropped]
          /\ flight' = [flight EXCEPT ![w] = d.flight]
      BY <3>1 DEF TickRuns
    <3>4. flight'[w] = d.flight /\ dropped'[w] = dropped[w] + d.dropped
          /\ \A v \in Threads \ {w} : dropped'[v] = dropped[v]
      BY <1>1, <3>3 DEF IInv
    <3>. HIDE DEF d
    <3>5. dropped'[w] > dropped[w] => d.dropped > 0
      BY <2>1, <3>2, <3>4
    <3>6. d.dropped > 0 => \A c \in Conns(w) : open[w][c] => Len(d.flight[c]) = Pipelining
      BY <3>2 DEF Progress
    <3>. QED
      BY <2>1, <3>4, <3>5, <3>6
  <2>. QED
    BY <1>1, <2>2, <2>3 DEF ScheduleNext
<1>2. IInv /\ [ScheduleNext]_scheduleVars => [Full]_scheduleVars
  BY <1>1
<1>. QED
  BY <1>2, InvHolds, PTL DEF ScheduleSpec, DropsOnlyWhenFull
--------------------------------------------------------------------------------
(* The shares of a tick *)

\* Places counted from connection n on.
PlacesAgree(w, n, x, e) ==
    /\ Distance(w, n, e) \in 0 .. ConnectionsOf(w) - 1 /\ Distance(w, n, n) = 0
    /\ Distance(w, x, e) =
          IF Distance(w, n, e) >= Distance(w, n, x)
          THEN Distance(w, n, e) - Distance(w, n, x)
          ELSE Distance(w, n, e) - Distance(w, n, x) + ConnectionsOf(w)
    /\ Distance(w, n, IF e + 1 < ConnectionsOf(w) THEN e + 1 ELSE 0) =
          IF Distance(w, n, e) + 1 < ConnectionsOf(w) THEN Distance(w, n, e) + 1 ELSE 0
    /\ Distance(w, n, x) = Distance(w, n, e) => x = e

\* Going round from n: the way from e to x, and the place after e's.
LEMMA Turns ==
    ASSUME NEW w \in Threads, NEW n \in Conns(w), NEW x \in Conns(w), NEW e \in Conns(w)
    PROVE  PlacesAgree(w, n, x, e)
<1>. DEFINE m == ConnectionsOf(w)
<1>1. m \in Nat \ {0} /\ n \in 0 .. m - 1 /\ x \in 0 .. m - 1 /\ e \in 0 .. m - 1
  BY ShareType DEF Conns
<1>. HIDE DEF m
<1>2. \A a, b : Distance(w, a, b) = IF b >= a THEN b - a ELSE b - a + m
  BY DEF Distance, m
<1>3. Distance(w, n, e) \in 0 .. m - 1 /\ Distance(w, n, n) = 0
  BY <1>1, <1>2
<1>4. Distance(w, x, e) = IF Distance(w, n, e) >= Distance(w, n, x)
                          THEN Distance(w, n, e) - Distance(w, n, x)
                          ELSE Distance(w, n, e) - Distance(w, n, x) + m
  BY <1>1, <1>2
<1>5. Distance(w, n, IF e + 1 < m THEN e + 1 ELSE 0) =
        IF Distance(w, n, e) + 1 < m THEN Distance(w, n, e) + 1 ELSE 0
  BY <1>1, <1>2
<1>6. Distance(w, n, x) = Distance(w, n, e) => x = e
  BY <1>1, <1>2
<1>. QED
  BY <1>3, <1>4, <1>5, <1>6 DEF m, PlacesAgree

\* What connection c has been given, and its place in the round.
Gain(w, d, c) == Len(d.flight[c]) - Len(flight[w][c])

\* The turn of connection c in a round of the tick.
Place(w, c) == Distance(w, next[w], c)

\* After r rounds: no connection has more than r + 1, and one that has room has as
\* many as its turn has come.
RoundsAre(w, d, r) ==
    \A c \in Conns(w) :
        /\ Gain(w, d, c) <= r + 1
        /\ Place(w, c) >= Place(w, d.next) => Gain(w, d, c) <= r
        /\ Len(d.flight[c]) < Pipelining =>
              Gain(w, d, c) = IF Place(w, c) < Place(w, d.next) THEN r + 1 ELSE r

\* The a-th connection from n is at distance a, and every connection has a distance.
LEMMA RoundStep ==
    ASSUME NEW w \in Threads, next[w] \in Conns(w),
           flight[w] \in [Conns(w) -> Seq(1 .. MaxArrivals)],
           \A x \in Conns(w) : open[w][x],
           NEW d \in Dealt(w), NEW s \in 1 .. MaxArrivals, NEW f, f = Deal(w, d, s),
           NEW r \in Nat, RoundsAre(w, d, r)
    PROVE  \E q \in Nat : RoundsAre(w, f, q)
<1>. DEFINE c == NextAvailable(w, d)
            m == ConnectionsOf(w)
            P(x) == Place(w, x)
            p == Place(w, d.next)
            L(x) == Len(d.flight[x])
            G(x) == Gain(w, d, x)
<1>1. Given(w, d, s, f, c) /\ f \in Dealt(w)
  BY DealOne, Zenon
<1>2. d.next \in Conns(w) /\ d.flight \in [Conns(w) -> Seq(1 .. MaxArrivals)] /\ f.next \in Conns(w)
  BY <1>1 DEF Dealt
<1>3. CASE c = -1
  <2>1. f.next = d.next /\ f.flight = d.flight
    BY <1>1, <1>3 DEF Given
  <2>2. RoundsAre(w, f, r)
    BY <2>1 DEF RoundsAre, Gain
  <2>. QED
    BY <2>2
<1>4. CASE c # -1
  <2>. HIDE DEF c
  <2>1. /\ c \in Conns(w)
        /\ f.next = IF c + 1 < m THEN c + 1 ELSE 0
        /\ f.flight = [d.flight EXCEPT ![c] = Append(@, s)]
    BY <1>1, <1>4 DEF Given
  <2>2. /\ L(c) < Pipelining
        /\ \A x \in Conns(w) : L(x) < Pipelining =>
              Distance(w, d.next, c) <= Distance(w, d.next, x)
    BY <1>2, <1>4, SearchRound DEF c, HasRoom
  <2>3. /\ m \in Nat \ {0} /\ p \in 0 .. m - 1
        /\ \A x \in Conns(w) :
              /\ P(x) \in 0 .. m - 1
              /\ Distance(w, d.next, x) = IF P(x) >= p THEN P(x) - p ELSE P(x) - p + m
              /\ P(x) = P(c) => x = c
        /\ Place(w, f.next) = IF P(c) + 1 < m THEN P(c) + 1 ELSE 0
    <3>1. m \in Nat \ {0}
      BY ShareType
    <3>2. ASSUME NEW x \in Conns(w)
          PROVE  /\ P(x) \in 0 .. m - 1
                 /\ Distance(w, d.next, x) = IF P(x) >= p THEN P(x) - p ELSE P(x) - p + m
                 /\ P(x) = P(c) => x = c
      <4>1. PlacesAgree(w, next[w], d.next, x) /\ PlacesAgree(w, next[w], x, c)
        BY <1>2, <2>1, Turns, Zenon
      <4>. QED
        BY <4>1, Zenon DEF PlacesAgree, Place
    <3>3. Distance(w, next[w], IF c + 1 < m THEN c + 1 ELSE 0) =
            IF P(c) + 1 < m THEN P(c) + 1 ELSE 0
      <4>1. PlacesAgree(w, next[w], c, c)
        BY <2>1, Turns, Zenon
      <4>. QED
        BY <4>1, Zenon DEF PlacesAgree, Place
    <3>4. Place(w, f.next) = Distance(w, next[w], IF c + 1 < m THEN c + 1 ELSE 0)
      BY <2>1, Zenon DEF Place
    <3>. HIDE DEF m, P, p
    <3>5. p \in 0 .. m - 1
      BY <1>2, <3>2 DEF p, P
    <3>. QED
      BY <3>1, <3>2, <3>3, <3>4, <3>5
  <2>4. /\ \A x \in Conns(w) \ {c} : Len(f.flight[x]) = L(x) /\ Gain(w, f, x) = G(x)
        /\ Len(f.flight[c]) = L(c) + 1 /\ Gain(w, f, c) = G(c) + 1
    <3>1. d.flight[c] \in Seq(1 .. MaxArrivals) /\ flight[w][c] \in Seq(1 .. MaxArrivals)
      BY <1>2, <2>1
    <3>2. Len(Append(d.flight[c], s)) = L(c) + 1 /\ L(c) \in Nat /\ Len(flight[w][c]) \in Nat
      BY <3>1
    <3>3. /\ f.flight[c] = Append(d.flight[c], s)
          /\ \A x \in Conns(w) \ {c} : f.flight[x] = d.flight[x]
      BY <1>2, <2>1
    <3>. QED
      BY <3>2, <3>3 DEF Gain
  <2>5. \A x \in Conns(w) :
           /\ L(x) \in Nat /\ G(x) \in Int
           /\ G(x) <= r + 1 /\ (P(x) >= p => G(x) <= r)
           /\ L(x) < Pipelining => G(x) = IF P(x) < p THEN r + 1 ELSE r
    <3>1. \A x \in Conns(w) : L(x) \in Nat /\ G(x) \in Int
      BY <1>2 DEF Gain
    <3>. QED
      BY <3>1 DEF RoundsAre
  <2>. DEFINE np == Place(w, f.next)
              Holds(x, q) ==
                 /\ Gain(w, f, x) <= q + 1 /\ (P(x) >= np => Gain(w, f, x) <= q)
                 /\ Len(f.flight[x]) < Pipelining => Gain(w, f, x) = IF P(x) < np THEN q + 1 ELSE q
  <2>6. \A q : (\A x \in Conns(w) : Holds(x, q)) => RoundsAre(w, f, q)
    BY DEF RoundsAre
  <2>. HIDE DEF P, L, G, m, p, np
  <2>7. CASE P(c) >= p /\ P(c) + 1 < m
    <3>1. ASSUME NEW x \in Conns(w)
          PROVE  Holds(x, r)
      <4>1. CASE x = c
        <5>1. Gain(w, f, c) = r + 1 /\ np = P(c) + 1 /\ P(c) \in Int
          BY <2>1, <2>2, <2>3, <2>4, <2>5, <2>7 DEF np
        <5>. QED
          BY <4>1, <5>1
      <4>2. CASE x # c
        <5>1. Len(f.flight[x]) = L(x) /\ Gain(w, f, x) = G(x) /\ P(x) # P(c) /\ np = P(c) + 1
          BY <2>1, <2>3, <2>4, <2>7, <4>2 DEF np
        <5>2. L(x) < Pipelining /\ P(x) >= p => P(c) - p <= P(x) - p
          BY <2>1, <2>2, <2>3, <2>7
        <5>3. P(x) \in Int /\ P(c) \in Int /\ p \in Int /\ m \in Int
          BY <2>1, <2>3
        <5>4. L(x) < Pipelining /\ P(x) >= p => P(x) >= np
          BY <2>7, <5>1, <5>2, <5>3
        <5>5. /\ G(x) \in Int /\ G(x) <= r + 1 /\ (P(x) >= np => G(x) <= r)
              /\ L(x) < Pipelining => G(x) = IF P(x) < np THEN r + 1 ELSE r
          BY <2>5, <2>7, <5>1, <5>3, <5>4
        <5>. QED
          BY <5>1, <5>5
      <4>. QED
        BY <4>1, <4>2
    <3>2. r \in Nat /\ r + 1 \in Nat
      OBVIOUS
    <3>. HIDE DEF Holds
    <3>. QED
      BY <2>6, <3>1, <3>2
  <2>8. CASE P(c) >= p /\ P(c) + 1 >= m
    <3>1. ASSUME NEW x \in Conns(w)
          PROVE  Holds(x, r + 1)
      <4>1. CASE x = c
        <5>1. Gain(w, f, c) = r + 1 /\ np = 0 /\ P(c) \in Nat
          BY <2>1, <2>2, <2>3, <2>4, <2>5, <2>8 DEF np
        <5>. QED
          BY <4>1, <5>1
      <4>2. CASE x # c
        <5>1. Len(f.flight[x]) = L(x) /\ Gain(w, f, x) = G(x) /\ P(x) # P(c) /\ np = 0
          BY <2>1, <2>3, <2>4, <2>8, <4>2 DEF np
        <5>2. L(x) < Pipelining /\ P(x) >= p => P(c) - p <= P(x) - p
          BY <2>1, <2>2, <2>3, <2>8
        <5>3. P(x) \in 0 .. m - 1 /\ P(c) \in Int /\ p \in Int /\ m \in Int
          BY <2>1, <2>3
        <5>4. L(x) < Pipelining => P(x) < p
          BY <2>8, <5>1, <5>2, <5>3
        <5>5. G(x) \in Int /\ G(x) <= r + 1 /\ (L(x) < Pipelining => G(x) = r + 1)
          BY <2>5, <5>4
        <5>. QED
          BY <5>1, <5>3, <5>5
      <4>. QED
        BY <4>1, <4>2
    <3>2. r \in Nat /\ r + 1 \in Nat
      OBVIOUS
    <3>. HIDE DEF Holds
    <3>. QED
      BY <2>6, <3>1, <3>2
  <2>9. CASE P(c) < p
    <3>0. P(c) + 1 < m /\ np = P(c) + 1
      BY <2>1, <2>3, <2>9 DEF np
    <3>1. ASSUME NEW x \in Conns(w)
          PROVE  Holds(x, r + 1)
      <4>1. CASE x = c
        <5>1. Gain(w, f, c) = r + 2 /\ P(c) \in Int
          BY <2>1, <2>2, <2>3, <2>4, <2>5, <2>9
        <5>. QED
          BY <3>0, <4>1, <5>1
      <4>2. CASE x # c
        <5>1. Len(f.flight[x]) = L(x) /\ Gain(w, f, x) = G(x) /\ P(x) # P(c)
          BY <2>1, <2>3, <2>4, <4>2
        <5>2. P(x) \in 0 .. m - 1 /\ P(c) \in 0 .. m - 1 /\ p \in 0 .. m - 1 /\ m \in Nat
          BY <2>1, <2>3
        <5>3. L(x) < Pipelining => P(x) < p /\ P(c) <= P(x)
          BY <2>1, <2>2, <2>3, <2>9, <5>2
        <5>. QED
          BY <2>5, <2>9, <3>0, <5>1, <5>2, <5>3
      <4>. QED
        BY <4>1, <4>2
    <3>2. r \in Nat /\ r + 1 \in Nat
      OBVIOUS
    <3>. HIDE DEF Holds
    <3>. QED
      BY <2>6, <3>1, <3>2
  <2>. QED
    BY <2>1, <2>3, <2>7, <2>8, <2>9
<1>. QED
  BY <1>3, <1>4

\* Connections that are all free get the arrivals of a tick in equal shares, and the
\* turns go on from one tick to the next.
THEOREM EvenLoadHolds == ScheduleSpec => EvenLoad
<1>. DEFINE Shares(w) == seen'[w] > seen[w] => SharesEven(w)
            GoesOn(w) == seen'[w] > seen[w] => TurnGoesOn(w)
            Even == \A w \in Threads : seen'[w] > seen[w] => SharesEven(w) /\ TurnGoesOn(w)
<1>1. ASSUME IInv, ScheduleNext
      PROVE  Even
  <2>1. \A w \in Threads :
           WorkerOK(w, seen[w], next[w], flight[w], open[w], sent[w], dropped[w], scheduled[w])
    BY <1>1 DEF IInv
  <2>2. \A w \in Threads : seen[w] \in Nat
    BY <2>1, MaxArrivalsAssumption DEF WorkerOK
  <2>3. ASSUME NEW w \in Threads, NEW c \in Conns(w), Respond(w, c) \/ Close(w, c) \/ Open(w, c)
        PROVE  Even
    <3>1. seen' = seen
      BY <2>3 DEF Respond, Close, Open
    <3>. QED
      BY <2>2, <3>1
  <2>4. ASSUME NEW w \in Threads, NEW g \in 0 .. MaxArrivals, NEW full \in SUBSET Conns(w),
               Tick(w, g, full)
        PROVE  Even
    <3>1. PICK due, run : TickRuns(w, g, full, due, run)
      BY <1>1, <2>4, TickHasRun
    <3>2. \A v \in Threads \ {w} : seen'[v] = seen[v]
      BY <1>1, <3>1 DEF TickRuns, IInv
    <3>3. Shares(w)
      <4>. HIDE DEF Even
      <4>. SUFFICES ASSUME \A c \in Conns(w) : HasRoom(w, flight[w], c),
                           NEW c \in Conns(w), NEW d \in Conns(w)
                    PROVE  Len(flight'[w][c]) - Len(flight[w][c])
                              <= Len(flight'[w][d]) - Len(flight[w][d]) + 1
                           \/ Len(flight'[w][d]) = Pipelining
        BY DEF SharesEven
      <4>1. /\ next[w] \in Conns(w) /\ flight[w] \in [Conns(w) -> Seq(1 .. MaxArrivals)]
            /\ \A x \in Conns(w) : open[w][x]
        BY <2>1 DEF WorkerOK, HasRoom
      <4>2. /\ due \in Nat /\ run \in [0 .. due -> Dealt(w)] /\ run[0] = Undealt(w)
            /\ \A k \in 0 .. due - 1 : run[k + 1] = Deal(w, run[k], Arrival(w, scheduled[w] + k))
            /\ Progress(w, g, due, run[due])
        <5>1. due \in Nat /\ due \in 0 .. due
          BY <3>1 DEF TickRuns
        <5>. QED
          BY <3>1, <5>1 DEF TickRuns, Dealing
      <4>3. \A k \in 0 .. due - 1 : Arrival(w, scheduled[w] + k) \in 1 .. MaxArrivals
        BY <3>1 DEF TickRuns
      <4>. DEFINE S == {k \in 0 .. due : \E r \in Nat : RoundsAre(w, run[k], r)}
      <4>4. 0 \in S
        <5>1. run[0].flight = flight[w] /\ run[0].next = next[w]
          BY <4>2 DEF Undealt
        <5>2. \A x \in Conns(w) : Gain(w, run[0], x) = 0
          BY <4>1, <5>1 DEF Gain
        <5>3. Place(w, next[w]) = 0 /\ \A x \in Conns(w) : Place(w, x) \in Nat
          <6>1. \A x \in Conns(w) : PlacesAgree(w, next[w], next[w], x)
            BY <4>1, Turns
          <6>2. ConnectionsOf(w) \in Nat
            BY ShareType
          <6>. QED
            BY <4>1, <6>1, <6>2 DEF PlacesAgree, Place
        <5>4. RoundsAre(w, run[0], 0)
          BY <5>1, <5>2, <5>3 DEF RoundsAre
        <5>. QED
          BY <4>2, <5>4
      <4>5. ASSUME NEW k \in 0 .. due - 1, k \in S
            PROVE  k + 1 \in S
        <5>1. PICK r \in Nat : RoundsAre(w, run[k], r)
          BY <4>5
        <5>. DEFINE e == run[k]
                    f == run[k + 1]
                    s == Arrival(w, scheduled[w] + k)
        <5>2. e \in Dealt(w) /\ s \in 1 .. MaxArrivals /\ f = Deal(w, e, s)
          BY <4>2, <4>3, <4>5
        <5>. HIDE DEF e, f, s
        <5>3. \E q \in Nat : RoundsAre(w, f, q)
          BY <4>1, <5>1, <5>2, RoundStep DEF e
        <5>. QED
          BY <4>2, <5>3 DEF f
      <4>6. 0 .. due \subseteq S
        <5>. HIDE DEF S
        <5>. QED
          BY <4>2, <4>4, <4>5, BoundedInduction
      <4>7. PICK r \in Nat : RoundsAre(w, run[due], r)
        BY <4>2, <4>6
      <4>8. flight'[w] = run[due].flight
        BY <1>1, <3>1 DEF TickRuns, IInv
      <4>. DEFINE lc == Len(flight'[w][c])
                  ld == Len(flight'[w][d])
                  oc == Len(flight[w][c])
                  od == Len(flight[w][d])
      <4>9. lc \in Nat /\ ld \in Nat /\ oc \in Nat /\ od \in Nat /\ ld <= Pipelining
        <5>1. run[due].flight \in [Conns(w) -> Seq(1 .. MaxArrivals)]
          <6>1. run[due] \in Dealt(w)
            BY <4>2
          <6>. QED
            BY <6>1 DEF Dealt
        <5>2. Len(run[due].flight[d]) <= Pipelining
          BY <4>2 DEF Progress, InOrder
        <5>. QED
          BY <4>1, <4>8, <5>1, <5>2
      <4>10. lc - oc <= r + 1 /\ (ld < Pipelining => ld - od = r \/ ld - od = r + 1)
        <5>1. Gain(w, run[due], c) = lc - oc /\ Gain(w, run[due], d) = ld - od
              /\ Len(run[due].flight[d]) = ld
          BY <4>8 DEF Gain
        <5>. HIDE DEF lc, ld, oc, od
        <5>. QED
          BY <4>7, <5>1 DEF RoundsAre
      <4>11. lc - oc <= ld - od + 1 \/ ld = Pipelining
        <5>. HIDE DEF lc, ld, oc, od
        <5>. QED
          BY <4>9, <4>10, PipeliningAssumption
      <4>. QED
        BY <4>11
    <3>5. GoesOn(w)
      <4>. HIDE DEF Even, Shares
      <4>. DEFINE d == run[due]
                  behind(c) == (c + 1) % ConnectionsOf(w)
      <4>. SUFFICES ASSUME NEW c \in Conns(w), Latest(flight[w][c], sent[w]),
                           HasRoom(w, flight[w], behind(c)), sent'[w] # sent[w]
                    PROVE  First(flight'[w][behind(c)], sent'[w] \ sent[w])
        BY DEF TurnGoesOn
      <4>1. /\ WorkerOK(w, seen[w], next[w], flight[w], open[w], sent[w], dropped[w], scheduled[w])
            /\ due \in Nat /\ due \in 0 .. due /\ run[0] = Undealt(w) /\ Turning(w, due, d)
        <5>1. due \in Nat /\ due \in 0 .. due
          BY <3>1 DEF TickRuns
        <5>. QED
          BY <2>1, <3>1, <5>1 DEF TickRuns, Dealing
      <4>2. flight'[w] = d.flight /\ sent'[w] = sent[w] \cup d.sent
        BY <1>1, <3>1 DEF TickRuns, IInv
      <4>3. next[w] = behind(c)
        BY <4>1 DEF WorkerOK, TurnOK
      <4>4. due > 0
        <5>1. due = 0 => d.sent = {}
          BY <4>1 DEF Undealt
        <5>. HIDE DEF d
        <5>. QED
          BY <4>1, <4>2, <5>1
      <4>. HIDE DEF d, behind
      <4>5. First(d.flight[behind(c)], d.sent)
        BY <4>1, <4>3, <4>4 DEF Turning
      <4>6. sent'[w] \ sent[w] = d.sent
        <5>1. scheduled[w] \in Nat /\ sent[w] \in SUBSET Nat
          <6>1. scheduled[w] \in Nat
            BY <2>2, <4>1, ExpectedCounts DEF WorkerOK
          <6>2. sent[w] \subseteq Own(w, seen[w]) /\ Own(w, seen[w]) \subseteq Nat
            BY <2>2, <4>1 DEF WorkerOK, Own
          <6>. QED
            BY <6>1, <6>2
        <5>2. Arrival(w, scheduled[w]) \in Nat
          BY <5>1, ArrivalFacts
        <5>3. \A s \in sent[w] : s < Arrival(w, scheduled[w])
          BY <4>1 DEF WorkerOK
        <5>4. \A s \in d.sent : Arrival(w, scheduled[w]) <= s
          BY <4>1 DEF Turning
        <5>5. \A s \in sent[w] : s \notin d.sent
          BY <5>1, <5>2, <5>3, <5>4
        <5>. QED
          BY <4>2, <5>5
      <4>. QED
        BY <4>2, <4>5, <4>6
    <3>4. \A v \in Threads \ {w} : ~(seen'[v] > seen[v])
      BY <2>2, <3>2
    <3>. QED
      BY <3>3, <3>4, <3>5
  <2>. HIDE DEF Even
  <2>. QED
    BY <1>1, <2>3, <2>4 DEF ScheduleNext
<1>2. IInv /\ [ScheduleNext]_scheduleVars => [Even]_scheduleVars
  BY <1>1
<1>. QED
  BY <1>2, InvHolds, PTL DEF ScheduleSpec, EvenLoad
================================================================================
