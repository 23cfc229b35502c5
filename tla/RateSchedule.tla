------------------------------ MODULE RateSchedule ------------------------------
(***************************************************************************)
(* The fixed-rate schedule of one phase.  Arrival s of the run (s = 1, 2,  *)
(* ...) is due at s * 1000 / rate; worker w takes every stride-th of them, *)
(* from its offset on, and deals them round robin to the connections that  *)
(* have room.  What no connection has room for is dropped, never queued.   *)
(*                                                                         *)
(* Time is counted in arrivals: a tick of worker w sees globalExpected,    *)
(* the arrivals of the whole run that are due by then, and each worker     *)
(* reads the clock at its own ticks.  A phase begins with every connection *)
(* up and none in flight (Http1Worker's IdleIsQuiet); RateTick of          *)
(* Http1Worker is a tick of one worker that leaves open who takes what.    *)
(***************************************************************************)
EXTENDS Integers, Sequences, FiniteSetsExt, SequencesExt

CONSTANTS
    NWorkers, NConnections,     \* parameters.workers, parameters.connections
    Pipelining,                 \* requests a connection may have in flight
    MaxArrivals                 \* bound: arrivals due by the end of the phase

ASSUME WorkersAssumption == NWorkers \in Nat \ {0}
ASSUME ConnectionsAssumption == NConnections \in Nat /\ NConnections >= NWorkers
ASSUME PipeliningAssumption == Pipelining \in Nat \ {0}
ASSUME MaxArrivalsAssumption == MaxArrivals \in Nat

Threads == 0 .. NWorkers - 1

\* #startWorkers: the connections of worker w.
ConnectionsOf(w) == NConnections \div NWorkers + (IF w < NConnections % NWorkers THEN 1 ELSE 0)

Conns(w) == 0 .. ConnectionsOf(w) - 1

VARIABLES
    seen,       \* seen[w]: globalExpected at the last tick of worker w
    scheduled,  \* scheduled[w]: #phaseScheduled
    next,       \* next[w]: #nextRateConnection
    flight,     \* flight[w][c]: the arrivals connection c has in flight, oldest first
    open,       \* open[w][c]: connected and not backpressured
    sent,       \* sent[w]: the arrivals worker w has sent
    dropped     \* dropped[w]: rateDropped

scheduleVars == <<seen, scheduled, next, flight, open, sent, dropped>>
--------------------------------------------------------------------------------
ScheduleInit ==
    /\ seen = [w \in Threads |-> 0]
    /\ scheduled = [w \in Threads |-> 0]
    /\ next = [w \in Threads |-> 0]
    /\ flight = [w \in Threads |-> [c \in Conns(w) |-> <<>>]]
    /\ open = [w \in Threads |-> [c \in Conns(w) |-> TRUE]]
    /\ sent = [w \in Threads |-> {}]
    /\ dropped = [w \in Threads |-> 0]

\* Mutant: the arrival of the offset itself is counted late.
ExpectedLate(w, g) == IF g <= w THEN 0 ELSE (g - 1 - w) \div NWorkers

\* How many of the first g arrivals are worker w's: rateSequenceOffset is w and
\* rateSequenceStride is NWorkers.
Expected(w, g) == IF g <= w THEN 0 ELSE (g - 1 - w) \div NWorkers + 1

\* The sequence number of worker w's i-th arrival, from 0.
Arrival(w, i) == w + 1 + i * NWorkers

\* canScheduleOperation, q[c] being in flight or in this tick's batch.
HasRoom(w, q, c) == open[w][c] /\ Len(q[c]) < Pipelining

\* Mutant: only the connection whose turn it is is tried.
NextOnly(w, d) == IF HasRoom(w, d.flight, d.next) THEN d.next ELSE -1

\* #nextAvailableRateConnection: the first one with room from next on; -1 for null.
NextAvailable(w, d) ==
    LET at(attempt) == (d.next + attempt) % ConnectionsOf(w)
        free == {a \in Conns(w) : HasRoom(w, d.flight, at(a))}
    IN  IF free = {} THEN -1 ELSE at(Min(free))

\* The loop of #scheduleRate for one arrival.  Once one was dropped the rest is:
\* a tick gives no connection room.
Deal(w, d, s) ==
    LET c == NextAvailable(w, d)
    IN  IF c = -1
        THEN [d EXCEPT !.dropped = @ + 1]
        ELSE [d EXCEPT !.next = (c + 1) % ConnectionsOf(w),
                       !.flight[c] = Append(@, s),
                       !.sent = @ \cup {s}]

\* Mutant: every tick begins with the first connection.
UndealtFromFirst(w) == [next |-> 0, flight |-> flight[w], sent |-> {}, dropped |-> 0]

\* A tick begins where the last one has stopped, with nothing dealt.
Undealt(w) == [next |-> next[w], flight |-> flight[w], sent |-> {}, dropped |-> 0]

\* #scheduleRate, and flushScheduledOperations of every connection: a socket may
\* answer a batch with backpressure.
Tick(w, g, full) ==
    /\ g \in seen[w] .. MaxArrivals
    /\ full \subseteq Conns(w)
    /\ LET due == Expected(w, g) - scheduled[w]
           arrivals == [i \in 1 .. due |-> Arrival(w, scheduled[w] + i - 1)]
           dealt == FoldLeft(LAMBDA d, s : Deal(w, d, s), Undealt(w), arrivals)
       IN  /\ \A c \in full : dealt.flight[c] # flight[w][c]
           /\ scheduled' = [scheduled EXCEPT ![w] = @ + due]
           /\ next' = [next EXCEPT ![w] = dealt.next]
           /\ flight' = [flight EXCEPT ![w] = dealt.flight]
           /\ open' = [open EXCEPT ![w] = [c \in Conns(w) |-> @[c] /\ c \notin full]]
           /\ sent' = [sent EXCEPT ![w] = @ \cup dealt.sent]
           /\ dropped' = [dropped EXCEPT ![w] = @ + dealt.dropped]
    /\ seen' = [seen EXCEPT ![w] = g]

\* A response answers the oldest request.
Respond(w, c) ==
    /\ flight[w][c] # <<>>
    /\ flight' = [flight EXCEPT ![w][c] = Tail(@)]
    /\ UNCHANGED <<seen, scheduled, next, open, sent, dropped>>

\* 'close': the connection has lost its socket and what was in flight on it.
Close(w, c) ==
    /\ open' = [open EXCEPT ![w][c] = FALSE]
    /\ flight' = [flight EXCEPT ![w][c] = <<>>]
    /\ UNCHANGED <<seen, scheduled, next, sent, dropped>>

\* 'drain', or 'connect' after a reconnect.
Open(w, c) ==
    /\ ~open[w][c]
    /\ open' = [open EXCEPT ![w][c] = TRUE]
    /\ UNCHANGED <<seen, scheduled, next, flight, sent, dropped>>

ScheduleNext ==
    \E w \in Threads :
        \/ \E g \in 0 .. MaxArrivals, full \in SUBSET Conns(w) : Tick(w, g, full)
        \/ \E c \in Conns(w) : Respond(w, c) \/ Close(w, c) \/ Open(w, c)

ScheduleSpec == ScheduleInit /\ [][ScheduleNext]_scheduleVars
--------------------------------------------------------------------------------
(* Properties *)

\* The types of the variables.
ScheduleTypeOK ==
    \A w \in Threads :
        /\ seen[w] \in 0 .. MaxArrivals /\ scheduled[w] \in Nat /\ dropped[w] \in Nat
        /\ next[w] \in Conns(w)
        /\ sent[w] \subseteq 1 .. MaxArrivals
        /\ flight[w] \in [Conns(w) -> Seq(1 .. MaxArrivals)]
        /\ open[w] \in [Conns(w) -> BOOLEAN]

\* The arrivals among the first g that are worker w's, whatever the arithmetic.
Own(w, g) == {s \in 1 .. g : (s - 1) % NWorkers = w}

\* The variables have their types.  However late and uneven the ticks are, every
\* arrival that is due is sent by the one worker it belongs to or counted as
\* dropped by it: none is sent by two workers, sent twice or left out.
\* The requests of a connection are in the order of their arrivals, no more than
\* fit its pipeline: the n-th response is timed against the n-th arrival.
EveryArrivalOnce ==
    /\ ScheduleTypeOK
    /\ \A w \in Threads :
        /\ sent[w] \subseteq Own(w, seen[w])
        /\ Cardinality(sent[w]) + dropped[w] = Cardinality(Own(w, seen[w]))
    /\ \A v, w \in Threads : v # w => sent[v] \cap sent[w] = {}
    /\ \A w \in Threads : \A c \in Conns(w) :
        /\ Len(flight[w][c]) <= Pipelining
        /\ \A i, j \in DOMAIN flight[w][c] : i < j => flight[w][c][i] < flight[w][c][j]

\* An arrival is dropped only when no connection of its worker had room for it.
DropsOnlyWhenFull ==
    [][\A w \in Threads : dropped'[w] > dropped[w] =>
        \A c \in Conns(w) : open[w][c] => Len(flight'[w][c]) = Pipelining]_scheduleVars

\* What a connection has in flight, q, has the latest of the arrivals in `taken`, or
\* the first.
Latest(q, taken) == \E i \in DOMAIN q : q[i] \in taken /\ \A s \in taken : s <= q[i]
First(q, taken) == \E i \in DOMAIN q : q[i] \in taken /\ \A s \in taken : q[i] <= s

\* Connections that are all free get the arrivals of a tick in equal shares.
SharesEven(w) ==
    (\A c \in Conns(w) : HasRoom(w, flight[w], c)) =>
        \A c, d \in Conns(w) :
            LET gain(x) == Len(flight'[w][x]) - Len(flight[w][x])
            IN  gain(c) <= gain(d) + 1 \/ Len(flight'[w][d]) = Pipelining

\* Behind the connection that has the latest arrival in flight the next one is first,
\* if it has room.
TurnGoesOn(w) ==
    \A c \in Conns(w) :
        LET d == (c + 1) % ConnectionsOf(w)
        IN  /\ Latest(flight[w][c], sent[w])
            /\ HasRoom(w, flight[w], d)
            /\ sent'[w] # sent[w]
            => First(flight'[w][d], sent'[w] \ sent[w])

\* No connection is favoured: not within a tick, and not by the order of one tick
\* after the other, however few arrivals each has.
EvenLoad ==
    [][\A w \in Threads : seen'[w] > seen[w] => SharesEven(w) /\ TurnGoesOn(w)]_scheduleVars
================================================================================
