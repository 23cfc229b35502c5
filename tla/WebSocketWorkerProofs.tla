------------------------- MODULE WebSocketWorkerProofs -------------------------
(***************************************************************************)
(* The WebSocket worker keeps its accounts, matches answers with their own *)
(* requests, never stalls and keeps its contract: proved for any set of    *)
(* connections, any number of messages in flight, either load mode and any *)
(* order of socket events, timers and commands.                            *)
(***************************************************************************)
EXTENDS WebSocketWorker, SequenceTheorems, FiniteSetTheorems, TLAPS
--------------------------------------------------------------------------------
(* What every handler of a connection preserves: lemmas about its operators. *)

\* What holds of a connection between two handlers.
ConnInv(k) ==
    /\ k \in Connection
    /\ k.inFlight <= MaxInFlight
    /\ k.inFlight <= k.sent
    /\ k.timer = Oldest(k)
    /\ k.sock = "open" => k.connected /\ k.inFlight = k.outstanding
    /\ k.sock \in {"none", "opening"} => k.inFlight = 0 /\ k.outstanding = 0 /\ ~k.connected
    /\ k.backpressured => k.poll

\* Every message counted as sent is accounted for.
Balanced(k) == k.sent = k.completed + k.aborted + k.inFlight

\* The same of a connection that was stopped with messages in flight.
BalancedAtStop(k) == k.sent = k.completed + k.aborted + k.atStop

\* In a closed loop: the pipeline is full, unless the buffer is.
Working(k) == k.sock = "open" /\ ~k.backpressured => k.inFlight = MaxInFlight

\* Without a socket it waits for its reconnect timer.
Recovering(k) == k.sock = "none" => k.reconnect

\* No event can reach a stopped connection.
Stopped(k) == k.sock = "none" /\ ~k.reconnect /\ k.timer = 0 /\ ~k.poll /\ k.late = 0

\* A counter that may grow by one, or by n while the phase records.
LEMMA CounterType == \A n, m \in Nat, run \in BOOLEAN : n + Recorded(run, m) \in Nat
    BY DEF Recorded

\* The fields that are numbers.
LEMMA NumberFields ==
    ASSUME NEW k \in Connection
    PROVE  /\ k.inFlight \in Nat /\ k.timer \in Nat /\ k.atStop \in Nat
           /\ k.sent \in Nat /\ k.completed \in Nat /\ k.aborted \in Nat
           /\ k.outstanding \in Nat /\ k.late \in Nat
BY DEF Connection

\* The timer set for the oldest request names a request.
LEMMA OldestType ==
    ASSUME NEW k, k.inFlight \in Nat, k.sent \in Nat, k.inFlight <= k.sent
    PROVE  Oldest(k) \in Nat
<1>1. k.sent - k.inFlight + 1 \in Nat
  OBVIOUS
<1>2. QED
  BY <1>1 DEF Oldest

\* A connection that lets its socket go has lost what was in flight, counts it as
\* aborted, and will reconnect.
LEMMA LetGoInv ==
    ASSUME NEW k, ConnInv(k), NEW run \in BOOLEAN
    PROVE  LET q == LetGo(k, run)
           IN  /\ ConnInv(q) /\ q.sock = "none" /\ q.reconnect /\ q.inFlight = 0
               /\ ~q.connected /\ q.late = k.late
               /\ run /\ Balanced(k) => Balanced(q)
<1> DEFINE a == k.aborted + Recorded(run, k.inFlight)
           q == [k EXCEPT !.timer = 0, !.poll = FALSE, !.backpressured = FALSE,
                          !.sock = "none", !.connected = FALSE, !.over = FALSE,
                          !.aborted = a, !.inFlight = 0, !.reconnect = TRUE, !.outstanding = 0]
<1>1. k \in Connection
  BY DEF ConnInv
<1>2. /\ k.inFlight \in Nat /\ k.sent \in Nat /\ k.completed \in Nat /\ k.aborted \in Nat
      /\ a \in Nat
  BY <1>1, NumberFields, CounterType
<1>3. run /\ Balanced(k) => k.sent = k.completed + a + 0
  <2>1. ASSUME run, Balanced(k)
        PROVE  k.sent = k.completed + (k.aborted + k.inFlight) + 0
    BY <1>2, <2>1 DEF Balanced
  <2>2. run => a = k.aborted + k.inFlight
    BY DEF Recorded
  <2>3. QED
    BY <2>1, <2>2, Zenon
<1> HIDE DEF a
<1>4. LetGo(k, run) = q
  <2> DEFINE p == [k EXCEPT !.timer = 0, !.poll = FALSE]
             e == [k EXCEPT !.timer = 0, !.poll = FALSE, !.backpressured = FALSE]
  <2>1. p \in Connection /\ p.poll = FALSE /\ p.aborted = k.aborted
    BY <1>1 DEF Connection
  <2>2. EndBackpressure(p) = [p EXCEPT !.backpressured = FALSE, !.poll = FALSE]
    BY <2>1 DEF EndBackpressure
  <2>3. EndBackpressure(p) = e
    BY <1>1, <2>2 DEF Connection
  <2>4. LetGo(k, run) =
          [e EXCEPT !.sock = "none", !.connected = FALSE, !.over = FALSE,
                    !.aborted = @ + Recorded(run, k.inFlight), !.inFlight = 0,
                    !.reconnect = TRUE, !.outstanding = 0]
    BY <2>3 DEF LetGo
  <2>5. e \in Connection /\ e.aborted = k.aborted
    BY <1>1 DEF Connection
  <2>6. LetGo(k, run) =
          [e EXCEPT !.sock = "none", !.connected = FALSE, !.over = FALSE,
                    !.aborted = a, !.inFlight = 0,
                    !.reconnect = TRUE, !.outstanding = 0]
    BY <2>4, <2>5 DEF a
  <2>7. QED
    BY <1>1, <2>6 DEF Connection
<1>5. q \in Connection
  BY <1>1, <1>2 DEF Connection, SocketState
<1>6. /\ q.sock = "none" /\ q.reconnect /\ q.inFlight = 0 /\ ~q.connected /\ q.late = k.late
      /\ q.timer = 0 /\ q.outstanding = 0 /\ ~q.backpressured
      /\ q.sent = k.sent /\ q.completed = k.completed /\ q.aborted = a
  BY <1>1 DEF Connection
<1> HIDE DEF q
<1>7. ConnInv(q)
  BY <1>2, <1>5, <1>6, MaxInFlightAssumption DEF ConnInv, Oldest
<1>8. run /\ Balanced(k) => Balanced(q)
  BY <1>3, <1>6 DEF Balanced
<1>9. QED
  BY <1>4, <1>6, <1>7, <1>8

\* So has one that discards a socket which is still alive.
LEMMA DiscardInv ==
    ASSUME NEW k, ConnInv(k), NEW run \in BOOLEAN
    PROVE  LET q == Discard(k, run)
           IN  /\ ConnInv(q) /\ q.sock = "none" /\ q.reconnect /\ q.inFlight = 0 /\ ~q.connected
               /\ run /\ Balanced(k) => Balanced(q)
<1> DEFINE p == LetGo(k, run)
           m == AtMost(k.late + k.outstanding, MaxLate)
           q == [p EXCEPT !.late = m]
<1>1. /\ ConnInv(p) /\ p.sock = "none" /\ p.reconnect /\ p.inFlight = 0 /\ ~p.connected
      /\ p.late = k.late
      /\ run /\ Balanced(k) => Balanced(p)
  BY LetGoInv
<1>2. m \in Nat
  <2>1. k.late \in Nat /\ k.outstanding \in Nat
    BY NumberFields DEF ConnInv
  <2>2. QED
    BY <2>1, MaxLateAssumption DEF AtMost
<1>3. Discard(k, run) = q
  BY <1>1 DEF Discard
<1> HIDE DEF p, m
<1>4. p \in Connection
  BY <1>1 DEF ConnInv
<1>5. q \in Connection
  BY <1>2, <1>4 DEF Connection
<1>6. ConnInv(q) /\ q.sock = "none" /\ q.reconnect /\ q.inFlight = 0 /\ ~q.connected
  BY <1>1, <1>4, <1>5 DEF ConnInv, Connection, Oldest
<1>7. Balanced(p) => Balanced(q)
  BY <1>4 DEF Balanced, Connection
<1>8. QED
  BY <1>1, <1>3, <1>6, <1>7
--------------------------------------------------------------------------------
\* A batch that fits is in flight afterwards and timed by its oldest request,
\* unless a send threw and took the socket with it.
LEMMA SendBatchInv ==
    ASSUME NEW k, ConnInv(k), k.sock = "open", NEW b \in Batch, Possible(b, Room(k)),
           NEW run \in BOOLEAN, run
    PROVE  LET q == SendBatch(k, b, run)
           IN  /\ ConnInv(q)
               /\ Recovering(q)
               /\ Balanced(k) => Balanced(q)
               /\ b.last = "under" => q.inFlight = k.inFlight + b.n
               /\ b.last = "over" => q.backpressured
               /\ b.last = "throws" => q.sock = "none"
<1> DEFINE f == k.inFlight + b.n
           o == k.outstanding + b.n
           t == k.sent + Recorded(run, b.n)
           v == (b.last = "over")
           p == [k EXCEPT !.inFlight = f, !.outstanding = o, !.sent = t, !.over = v]
           i == Oldest(p)
           q == [p EXCEPT !.timer = i]
           w == [q EXCEPT !.backpressured = TRUE, !.poll = TRUE]
<1>1. k \in Connection /\ b.last \in {"under", "over", "throws"} /\ v \in BOOLEAN
  BY DEF ConnInv, Batch
<1>2. /\ k.inFlight \in Nat /\ k.outstanding \in Nat /\ k.sent \in Nat /\ k.completed \in Nat
      /\ k.aborted \in Nat /\ b.n \in Nat
  BY <1>1, NumberFields, MaxInFlightAssumption DEF Batch
<1>3. t = k.sent + b.n
  BY DEF Recorded
<1>4. b.n <= MaxInFlight - k.inFlight
  <2>1. If1(b.last = "throws") \in {0, 1}
    BY DEF If1
  <2>2. b.n + If1(b.last = "throws") <= MaxInFlight - k.inFlight
    BY DEF Possible, Attempts, Room
  <2>3. QED
    BY <1>2, <2>1, <2>2, MaxInFlightAssumption
<1>5. /\ f \in Nat /\ o \in Nat /\ t \in Nat /\ f <= MaxInFlight /\ f <= t
      /\ k.inFlight = k.outstanding => f = o
  <2>1. k.inFlight <= k.sent
    BY DEF ConnInv
  <2>2. t \in Nat /\ k.inFlight + b.n <= t
    <3> HIDE DEF t
    <3>1. QED
      BY <1>2, <1>3, <2>1
  <2> HIDE DEF t
  <2>3. /\ k.inFlight + b.n \in Nat /\ k.outstanding + b.n \in Nat
        /\ k.inFlight + b.n <= MaxInFlight
    BY <1>2, <1>4, MaxInFlightAssumption
  <2>4. QED
    BY <2>2, <2>3
<1>6. Balanced(k) => t = k.completed + k.aborted + f
  <2> HIDE DEF t
  <2>1. ASSUME k.sent = k.completed + k.aborted + k.inFlight
        PROVE  k.sent + b.n = k.completed + k.aborted + (k.inFlight + b.n)
    BY <1>2, <2>1
  <2>2. QED
    BY <1>3, <2>1 DEF Balanced
<1>7. SendBatch(k, b, run) =
        IF b.last = "under" THEN q
        ELSE IF b.last = "over" THEN StartBackpressure(q) ELSE Discard(q, run)
  BY <1>1 DEF SendBatch, ScheduleTimeout
<1> HIDE DEF f, o, t, v
<1>8. /\ p \in Connection /\ p.inFlight = f /\ p.sent = t /\ p.outstanding = o
      /\ p.sock = "open" /\ p.connected = k.connected /\ p.completed = k.completed
      /\ p.aborted = k.aborted /\ p.backpressured = k.backpressured /\ p.poll = k.poll
  BY <1>1, <1>5 DEF Connection
<1> HIDE DEF p
<1>9. i \in Nat
  BY <1>5, <1>8, OldestType
<1>10. i = IF f = 0 THEN 0 ELSE t - f + 1
  BY <1>8 DEF Oldest
<1> HIDE DEF i
<1>11. /\ q \in Connection /\ q.inFlight = f /\ q.sent = t /\ q.outstanding = o
       /\ q.sock = "open" /\ q.connected = k.connected /\ q.completed = k.completed
       /\ q.aborted = k.aborted /\ q.backpressured = k.backpressured /\ q.poll = k.poll
       /\ q.timer = i
  BY <1>8, <1>9 DEF Connection
<1> HIDE DEF q
<1>12. ConnInv(q) /\ Recovering(q)
  BY <1>5, <1>10, <1>11 DEF ConnInv, Recovering, Oldest
<1>13. Balanced(k) => Balanced(q)
  BY <1>6, <1>11 DEF Balanced
<1>14. StartBackpressure(q) = w
  <2>1. q.backpressured => q.poll
    BY <1>12 DEF ConnInv
  <2>2. q.poll \in BOOLEAN /\ q.backpressured \in BOOLEAN
    BY <1>11 DEF Connection
  <2>3. (q.poll \/ ~q.backpressured) = TRUE
    BY <2>1, <2>2
  <2>4. QED
    BY <2>3 DEF StartBackpressure
<1>15. /\ w \in Connection /\ w.inFlight = f /\ w.sent = t /\ w.outstanding = o
       /\ w.sock = "open" /\ w.connected = k.connected /\ w.completed = k.completed
       /\ w.aborted = k.aborted /\ w.backpressured = TRUE /\ w.poll = TRUE /\ w.timer = i
  BY <1>11 DEF Connection
<1> HIDE DEF w
<1>16. ConnInv(w) /\ Recovering(w)
  BY <1>5, <1>10, <1>11, <1>12, <1>15 DEF ConnInv, Recovering, Oldest
<1>17. Balanced(k) => Balanced(w)
  BY <1>6, <1>15 DEF Balanced
<1>18. /\ ConnInv(Discard(q, run)) /\ Recovering(Discard(q, run))
       /\ Discard(q, run).sock = "none"
       /\ Balanced(k) => Balanced(Discard(q, run))
  BY <1>12, <1>13, DiscardInv DEF Recovering
<1>19. q.inFlight = k.inFlight + b.n
  BY <1>11 DEF f
<1>20. QED
  BY <1>1, <1>7, <1>12, <1>13, <1>14, <1>15, <1>16, <1>17, <1>18, <1>19

\* A closed loop that may send fills the pipeline, or stops at a full buffer or a
\* lost socket; otherwise nothing happens.
LEMMA FillInv ==
    ASSUME NEW k, ConnInv(k), NEW run \in BOOLEAN, NEW paced \in BOOLEAN,
           NEW b \in Fills(k, run, paced)
    PROVE  LET q == FillClosedLoop(k, b, run, paced)
           IN  /\ ConnInv(q)
               /\ Recovering(k) => Recovering(q)
               /\ run /\ Balanced(k) => Balanced(q)
               /\ run /\ ~paced => Working(q)
               /\ q.connected => k.connected
               /\ ~run => q = k
<1>1. k \in Connection /\ k.inFlight \in Nat /\ k.inFlight <= MaxInFlight
  BY NumberFields DEF ConnInv
<1>2. CASE ~(MayFill(k, run, paced) /\ Room(k) > 0)
  <2>1. FillClosedLoop(k, b, run, paced) = k
    BY <1>2 DEF FillClosedLoop
  <2>2. run /\ ~paced => Working(k)
    <3>1. Room(k) > 0 \/ k.inFlight = MaxInFlight
      BY <1>1, MaxInFlightAssumption DEF Room
    <3>2. QED
      BY <1>2, <3>1 DEF MayFill, Working, ConnInv
  <2>3. QED
    BY <2>1, <2>2
<1>3. CASE MayFill(k, run, paced) /\ Room(k) > 0
  <2> DEFINE q == SendBatch(k, b, run)
  <2>1. /\ FillClosedLoop(k, b, run, paced) = q
        /\ run /\ k.connected /\ k.sock = "open"
        /\ b \in Batch /\ Possible(b, Room(k)) /\ (b.last = "under" => b.n = Room(k))
    BY <1>3 DEF FillClosedLoop, MayFill, Fills
  <2>2. /\ ConnInv(q)
        /\ Recovering(q)
        /\ Balanced(k) => Balanced(q)
        /\ b.last = "under" => q.inFlight = k.inFlight + b.n
        /\ b.last = "over" => q.backpressured
        /\ b.last = "throws" => q.sock = "none"
    BY <2>1, SendBatchInv
  <2> HIDE DEF q
  <2>3. k.inFlight + Room(k) = MaxInFlight
    BY <1>1, MaxInFlightAssumption DEF Room
  <2>4. b.last \in {"under", "over", "throws"}
    BY <2>1 DEF Batch
  <2>5. Working(q)
    BY <2>1, <2>2, <2>3, <2>4 DEF Working
  <2>6. QED
    BY <2>1, <2>2, <2>5
<1>4. QED
  BY <1>2, <1>3

\* Arrivals at a fixed rate are sent while there is room for them.
LEMMA ScheduleInv ==
    ASSUME NEW k, ConnInv(k), NEW run \in BOOLEAN, run, NEW paced \in BOOLEAN,
           NEW b \in Batch, Possible(b, Capacity(k, run, paced))
    PROVE  LET q == ScheduleOperations(k, b, run)
           IN  /\ ConnInv(q)
               /\ Recovering(k) => Recovering(q)
               /\ Balanced(k) => Balanced(q)
               /\ q.connected => k.connected
<1>1. CASE Attempts(b) = 0
  BY <1>1 DEF ScheduleOperations
<1>2. CASE Attempts(b) # 0
  <2> DEFINE q == SendBatch(k, b, run)
  <2>1. ScheduleOperations(k, b, run) = q
    BY <1>2 DEF ScheduleOperations
  <2>2. CanScheduleOperation(k, run, paced)
    <3>1. Attempts(b) \in Nat
      <4>1. If1(b.last = "throws") \in {0, 1}
        BY DEF If1
      <4>2. b.n \in Nat
        BY MaxInFlightAssumption DEF Batch
      <4>3. QED
        BY <4>1, <4>2 DEF Attempts
    <3>2. ASSUME ~CanScheduleOperation(k, run, paced)
          PROVE  Attempts(b) = 0
      <4>1. Possible(b, 0)
        BY <3>2, Zenon DEF Capacity
      <4>2. Attempts(b) <= 0
        BY <4>1 DEF Possible
      <4>3. PICK m \in Nat : m = Attempts(b)
        BY <3>1
      <4>4. m = 0
        BY <4>2, <4>3
      <4>5. QED
        BY <4>3, <4>4
    <3>3. QED
      BY <1>2, <3>2
  <2>3. k.sock = "open" /\ k.connected /\ Possible(b, Room(k))
    BY <2>2 DEF CanScheduleOperation, Capacity
  <2>4. ConnInv(q) /\ Recovering(q) /\ (Balanced(k) => Balanced(q))
    BY <2>3, SendBatchInv
  <2> HIDE DEF q
  <2>5. QED
    BY <2>1, <2>3, <2>4
<1>3. QED
  BY <1>1, <1>2
--------------------------------------------------------------------------------
\* 'open' brings up a socket with nothing in flight on it.
LEMMA OpenedInv ==
    ASSUME NEW k, ConnInv(k), k.sock = "opening"
    PROVE  LET q == Opened(k)
           IN  /\ ConnInv(q) /\ q.connected /\ q.inFlight = 0 /\ Recovering(q)
               /\ Balanced(k) => Balanced(q)
<1>1. k \in Connection /\ k.inFlight = 0 /\ k.outstanding = 0
  BY DEF ConnInv
<1> DEFINE q == Opened(k)
<1>2. /\ q \in Connection /\ q.sock = "open" /\ q.connected /\ q.inFlight = 0 /\ q.outstanding = 0
      /\ q.sent = k.sent /\ q.completed = k.completed /\ q.aborted = k.aborted
      /\ q.timer = k.timer /\ q.backpressured = k.backpressured /\ q.poll = k.poll
  BY <1>1 DEF Opened, Connection, SocketState
<1> HIDE DEF q
<1>3. ConnInv(q)
  BY <1>1, <1>2 DEF ConnInv, Oldest
<1>4. Recovering(q) /\ (Balanced(k) => Balanced(q))
  BY <1>1, <1>2 DEF Recovering, Balanced
<1>5. QED
  BY <1>2, <1>3, <1>4 DEF q

\* Ending an episode of backpressure ends its poll too.
LEMMA EndBackpressureInv ==
    ASSUME NEW k, ConnInv(k)
    PROVE  LET q == EndBackpressure(k)
           IN  /\ ConnInv(q)
               /\ q.inFlight = k.inFlight /\ q.connected = k.connected /\ q.sock = k.sock
               /\ q.reconnect = k.reconnect /\ q.late = k.late /\ ~q.backpressured
               /\ Balanced(k) => Balanced(q)
<1> DEFINE z == k.poll /\ ~k.backpressured
           q == [k EXCEPT !.backpressured = FALSE, !.poll = z]
<1>1. k \in Connection
  BY DEF ConnInv
<1>2. z \in BOOLEAN /\ EndBackpressure(k) = q
  BY <1>1 DEF EndBackpressure, Connection
<1> HIDE DEF z
<1>3. /\ q \in Connection /\ q.sock = k.sock /\ q.connected = k.connected
      /\ q.inFlight = k.inFlight /\ q.outstanding = k.outstanding
      /\ q.sent = k.sent /\ q.completed = k.completed /\ q.aborted = k.aborted
      /\ q.timer = k.timer /\ q.backpressured = FALSE
      /\ q.reconnect = k.reconnect /\ q.late = k.late
  BY <1>1, <1>2 DEF Connection
<1> HIDE DEF q
<1>4. ConnInv(q)
  BY <1>1, <1>3 DEF ConnInv, Oldest
<1>5. QED
  BY <1>2, <1>3, <1>4 DEF Balanced

\* An answer takes the oldest request out of flight, on both sides.
LEMMA AnsweredInv ==
    ASSUME NEW k, ConnInv(k), k.sock = "open", k.inFlight > 0, NEW run \in BOOLEAN
    PROVE  LET q == Answered(k, run)
           IN  /\ ConnInv(q) /\ q.connected = k.connected /\ Recovering(q)
               /\ run /\ Balanced(k) => Balanced(q)
<1> DEFINE f == k.inFlight - 1
           t == k.completed + Recorded(run, 1)
           o == k.outstanding - 1
           p == [k EXCEPT !.inFlight = f, !.completed = t, !.outstanding = o]
           i == Oldest(p)
           q == [p EXCEPT !.timer = i]
<1>1. k \in Connection /\ k.inFlight = k.outstanding /\ k.inFlight <= k.sent
      /\ k.inFlight <= MaxInFlight
  BY DEF ConnInv
<1>2. /\ k.inFlight \in Nat /\ k.outstanding \in Nat /\ k.sent \in Nat /\ k.completed \in Nat
      /\ k.aborted \in Nat /\ t \in Nat
  BY <1>1, NumberFields, CounterType
<1>3. f \in Nat /\ o \in Nat /\ f = o /\ f <= k.sent /\ f <= MaxInFlight
  BY <1>1, <1>2, MaxInFlightAssumption
<1>4. run /\ Balanced(k) => k.sent = t + k.aborted + f
  <2>1. ASSUME k.sent = k.completed + k.aborted + k.inFlight
        PROVE  k.sent = (k.completed + 1) + k.aborted + (k.inFlight - 1)
    BY <1>2, <2>1
  <2>2. run => t = k.completed + 1
    BY DEF Recorded
  <2>3. QED
    BY <2>1, <2>2, Zenon DEF Balanced
<1>5. Answered(k, run) = IF ~q.over THEN EndBackpressure(q) ELSE q
  BY DEF Answered, ScheduleTimeout
<1> HIDE DEF f, t, o
<1>6. /\ p \in Connection /\ p.inFlight = f /\ p.outstanding = o /\ p.completed = t
      /\ p.sent = k.sent /\ p.aborted = k.aborted /\ p.sock = "open"
      /\ p.connected = k.connected /\ p.backpressured = k.backpressured /\ p.poll = k.poll
  BY <1>1, <1>2, <1>3 DEF Connection
<1> HIDE DEF p
<1>7. i \in Nat
  BY <1>2, <1>3, <1>6, OldestType
<1>8. i = IF f = 0 THEN 0 ELSE k.sent - f + 1
  BY <1>6 DEF Oldest
<1> HIDE DEF i
<1>9. /\ q \in Connection /\ q.inFlight = f /\ q.outstanding = o /\ q.completed = t
      /\ q.sent = k.sent /\ q.aborted = k.aborted /\ q.sock = "open" /\ q.timer = i
      /\ q.connected = k.connected /\ q.backpressured = k.backpressured /\ q.poll = k.poll
  BY <1>6, <1>7 DEF Connection
<1> HIDE DEF q
<1>10. ConnInv(q)
  BY <1>1, <1>3, <1>8, <1>9 DEF ConnInv, Oldest
<1>11. run /\ Balanced(k) => Balanced(q)
  BY <1>4, <1>9 DEF Balanced
<1>12. /\ ConnInv(EndBackpressure(q)) /\ EndBackpressure(q).connected = q.connected
       /\ EndBackpressure(q).sock = q.sock
       /\ Balanced(q) => Balanced(EndBackpressure(q))
  BY <1>10, EndBackpressureInv
<1>13. QED
  BY <1>5, <1>9, <1>10, <1>11, <1>12 DEF Recovering

\* The end of a socket, the network and a stale message move nothing in flight.
LEMMA QuietEventsInv ==
    ASSUME NEW k, ConnInv(k)
    PROVE  /\ k.sock \in {"opening", "open"} => ConnInv([k EXCEPT !.sock = "closing"])
           /\ ConnInv([k EXCEPT !.over = FALSE])
           /\ k.late > 0 => ConnInv([k EXCEPT !.late = @ - 1])
           /\ k.sock = "none" => ConnInv(Reconnect(k))
           /\ ConnInv([k EXCEPT !.reconnect = FALSE])
<1>1. k \in Connection /\ k.late \in Nat
  BY DEF ConnInv, Connection
<1>2. k.sock \in {"opening", "open"} => ConnInv([k EXCEPT !.sock = "closing"])
  <2> DEFINE q == [k EXCEPT !.sock = "closing"]
  <2>1. q \in Connection
    BY <1>1 DEF Connection, SocketState
  <2>2. QED
    BY <1>1, <2>1 DEF ConnInv, Connection, Oldest
<1>3. ConnInv([k EXCEPT !.over = FALSE])
  <2> DEFINE q == [k EXCEPT !.over = FALSE]
  <2>1. q \in Connection
    BY <1>1 DEF Connection
  <2>2. QED
    BY <1>1, <2>1 DEF ConnInv, Connection, Oldest
<1>4. k.late > 0 => ConnInv([k EXCEPT !.late = @ - 1])
  <2> SUFFICES ASSUME k.late > 0
               PROVE  ConnInv([k EXCEPT !.late = k.late - 1])
    OBVIOUS
  <2> DEFINE m == k.late - 1
             q == [k EXCEPT !.late = m]
  <2>1. m \in Nat
    BY <1>1
  <2> HIDE DEF m
  <2>2. q \in Connection
    BY <1>1, <2>1 DEF Connection
  <2>3. ConnInv(q)
    BY <1>1, <2>2 DEF ConnInv, Connection, Oldest
  <2>4. QED
    BY <2>3 DEF m
<1>5. k.sock = "none" => ConnInv(Reconnect(k))
  <2> DEFINE q == [k EXCEPT !.reconnect = FALSE, !.sock = "opening"]
  <2>1. q \in Connection
    BY <1>1 DEF Connection, SocketState
  <2>2. QED
    BY <1>1, <2>1 DEF ConnInv, Connection, Oldest, Reconnect
<1>6. ConnInv([k EXCEPT !.reconnect = FALSE])
  <2> DEFINE q == [k EXCEPT !.reconnect = FALSE]
  <2>1. q \in Connection
    BY <1>1 DEF Connection
  <2>2. QED
    BY <1>1, <2>1 DEF ConnInv, Connection, Oldest
<1>7. QED
  BY <1>2, <1>3, <1>4, <1>5, <1>6
--------------------------------------------------------------------------------
\* A phase starts from counters at zero on a connection with nothing in flight.
LEMMA ResetInv ==
    ASSUME NEW k, ConnInv(k), k.inFlight = 0
    PROVE  /\ ResetPhaseState(k) = k
           /\ LET q == ResetCounters(k)
              IN  /\ ConnInv(q) /\ Balanced(q) /\ q.inFlight = 0 /\ q.connected = k.connected
                  /\ q.sock = k.sock /\ q.reconnect = k.reconnect
<1>1. k \in Connection /\ k.timer = 0
  BY DEF ConnInv, Oldest
<1>2. ResetPhaseState(k) = k
  BY <1>1 DEF ResetPhaseState, Connection
<1> DEFINE q == ResetCounters(k)
<1>3. /\ q \in Connection /\ q.sent = 0 /\ q.completed = 0 /\ q.aborted = 0 /\ q.inFlight = 0
      /\ q.connected = k.connected /\ q.sock = k.sock /\ q.reconnect = k.reconnect
      /\ q.timer = 0 /\ q.outstanding = k.outstanding
      /\ q.backpressured = k.backpressured /\ q.poll = k.poll
  BY <1>1 DEF ResetCounters, Connection
<1> HIDE DEF q
<1>4. ConnInv(q) /\ Balanced(q)
  BY <1>1, <1>3, MaxInFlightAssumption DEF ConnInv, Oldest, Balanced
<1>5. QED
  BY <1>2, <1>3, <1>4 DEF q

\* stop() takes what is in flight into the result, and no event comes after it.
LEMMA StopInv ==
    ASSUME NEW k, ConnInv(k)
    PROVE  LET q == Stop(k)
           IN  /\ ConnInv(q) /\ Stopped(q) /\ q.inFlight = 0
               /\ Balanced(k) => BalancedAtStop(q)
<1> DEFINE e == EndBackpressure(k)
           q == [e EXCEPT !.atStop = k.inFlight, !.sock = "none", !.connected = FALSE,
                          !.over = FALSE, !.reconnect = FALSE, !.timer = 0, !.poll = FALSE,
                          !.inFlight = 0, !.outstanding = 0, !.late = 0]
<1>1. k \in Connection /\ k.inFlight \in Nat
  BY NumberFields DEF ConnInv
<1>2. /\ e \in Connection /\ ~e.backpressured /\ e.inFlight = k.inFlight
      /\ Balanced(k) => Balanced(e)
  BY EndBackpressureInv DEF ConnInv
<1>3. Stop(k) = q
  BY DEF Stop
<1> HIDE DEF e
<1>4. /\ q \in Connection /\ q.atStop = k.inFlight /\ q.sock = "none" /\ ~q.connected
      /\ ~q.reconnect /\ q.timer = 0 /\ ~q.poll /\ q.inFlight = 0 /\ q.outstanding = 0
      /\ q.late = 0 /\ ~q.backpressured
      /\ q.sent = e.sent /\ q.completed = e.completed /\ q.aborted = e.aborted
  BY <1>1, <1>2 DEF Connection, SocketState
<1> HIDE DEF q
<1>5. q.sent \in Nat
  BY <1>4, NumberFields
<1>6. ConnInv(q) /\ Stopped(q)
  BY <1>4, <1>5, MaxInFlightAssumption DEF ConnInv, Stopped, Oldest
<1>7. Balanced(k) => BalancedAtStop(q)
  BY <1>2, <1>4 DEF Balanced, BalancedAtStop
<1>8. QED
  BY <1>3, <1>4, <1>6, <1>7
--------------------------------------------------------------------------------
(* The worker: its handlers, one by one. *)

\* What a worker posts.
Messages == {"ready", "warmup-complete", "result", "fatal"}

\* The types of the variables.
Types ==
    /\ conn \in [Conns -> Connection]
    /\ phase \in Phase
    /\ posted \in Seq(Messages)
    /\ rate \in BOOLEAN /\ running \in BOOLEAN
    /\ connected \in Nat /\ scheduled \in Nat /\ dropped \in Nat

\* The phase, the #running flag and the posted messages go together.
PhaseInv ==
    /\ running <=> phase \in {"warmup", "measurement"}
    /\ phase = "idle" => posted \in {<<>>, Ready, WarmedUp}
    /\ phase \in {"warmup", "warmup-draining"} => posted = Ready
    /\ phase = "measurement" => posted \in {Ready, WarmedUp}
    /\ phase = "finished" =>
          posted \in {<<"fatal">>, Append(Ready, "result"), Append(WarmedUp, "result")}

\* What a connection may owe, and be counted for, in each phase.
Ledger(k, run, rt, ph, msgs) ==
    /\ ConnInv(k)
    /\ run => Balanced(k)
    /\ run /\ ~rt => Working(k)
    /\ ph = "idle" => k.inFlight = 0
    /\ ph # "finished" => Recovering(k)
    /\ ph = "finished" => Stopped(k)
    /\ ph = "finished" /\ msgs # <<"fatal">> => BalancedAtStop(k)

\* Every connection keeps its ledger.
LedgerInv == \A c \in Conns : Ledger(conn[c], running, rate, phase, posted)

\* The connections whose #connected is set, and the worker's number of them: were
\* it too small, a batch that loses sockets would take it below zero.
Up == {c \in Conns : conn[c].connected}

\* #connected is their number.
CountInv == phase # "finished" => connected = Cardinality(Up)

\* The inductive invariant.
IInv == Types /\ PhaseInv /\ LedgerInv /\ CountInv
--------------------------------------------------------------------------------
\* The histories of messages a worker can have posted, and where a result is.
LEMMA PostedValues ==
    /\ {<<>>, <<"fatal">>, Ready, WarmedUp, Append(Ready, "result"), Append(WarmedUp, "result")}
          \subseteq Seq(Messages)
    /\ Append(<<>>, "ready") = Ready
    /\ \A s \in {Ready, WarmedUp, <<"fatal">>, Append(Ready, "result"), Append(WarmedUp, "result")} :
          s # <<>>
    /\ \A s \in {<<>>, Ready, WarmedUp, <<"fatal">>} : "result" \notin Range(s)
<1>1. <<>> \in Seq(Messages) /\ <<"fatal">> \in Seq(Messages) /\ Ready \in Seq(Messages)
  BY DEF Messages, Ready
<1>2. "warmup-complete" \in Messages /\ "result" \in Messages
  BY DEF Messages
<1>3. WarmedUp \in Seq(Messages)
  BY <1>1, <1>2 DEF WarmedUp
<1>4. Append(Ready, "result") \in Seq(Messages) /\ Append(WarmedUp, "result") \in Seq(Messages)
  BY <1>1, <1>2, <1>3
<1>5. Append(<<>>, "ready") = Ready /\ Ready # <<>> /\ <<"fatal">> # <<>>
  BY DEF Ready
<1>6. WarmedUp # <<>> /\ Append(Ready, "result") # <<>> /\ Append(WarmedUp, "result") # <<>>
  BY <1>1, <1>2, <1>3, AppendProperties DEF WarmedUp
<1>7. "result" \notin Range(<<>>) /\ "result" \notin Range(<<"fatal">>)
  BY DEF Range
<1>8. "result" \notin Range(Ready) /\ "result" \notin Range(WarmedUp)
  BY DEF Range, Ready, WarmedUp
<1>9. QED
  BY <1>1, <1>3, <1>4, <1>5, <1>6, <1>7, <1>8

\* Fresh connections, or stopped ones, satisfy the inductive invariant.
LEMMA InitIInv == WorkerInit => IInv
<1> SUFFICES ASSUME WorkerInit
             PROVE  IInv
  OBVIOUS
<1>1. /\ rate \in BOOLEAN /\ running = FALSE
      /\ connected = 0 /\ scheduled = 0 /\ dropped = 0
  BY RatesAssumption DEF WorkerInit
<1>2. NewConnection \in Connection
  BY DEF NewConnection, Connection, SocketState
<1>3. ConnInv(NewConnection) /\ Recovering(NewConnection) /\ NewConnection.inFlight = 0
      /\ Balanced(NewConnection) /\ ~NewConnection.connected
  BY <1>2, MaxInFlightAssumption DEF ConnInv, NewConnection, Recovering, Oldest, Balanced
<1>4. ConnInv(Stop(NewConnection)) /\ Stopped(Stop(NewConnection))
  BY <1>3, StopInv
<1>5. CASE Init /\ conn = [c \in Conns |-> NewConnection]
  <2>1. phase = "idle" /\ posted = <<>>
    BY <1>5 DEF Init
  <2>2. Types
    BY <1>1, <1>2, <1>5, <2>1, PostedValues DEF Types, Phase
  <2>3. PhaseInv
    BY <1>1, <2>1 DEF PhaseInv
  <2>4. LedgerInv
    BY <1>1, <1>3, <1>5, <2>1 DEF LedgerInv, Ledger
  <2>5. Up = {}
    BY <1>3, <1>5 DEF Up
  <2>6. CountInv
    BY <1>1, <2>5, FS_EmptySet DEF CountInv
  <2>7. QED
    BY <2>2, <2>3, <2>4, <2>6 DEF IInv
<1>6. CASE InitFailed /\ conn = [c \in Conns |-> Stop(NewConnection)]
  <2>1. phase = "finished" /\ posted = <<"fatal">>
    BY <1>6 DEF InitFailed
  <2>2. Types
    BY <1>1, <1>4, <1>6, <2>1, PostedValues DEF Types, Phase, ConnInv
  <2>3. PhaseInv
    BY <1>1, <2>1 DEF PhaseInv
  <2>4. LedgerInv
    BY <1>1, <1>4, <1>6, <2>1 DEF LedgerInv, Ledger
  <2>5. QED
    BY <2>1, <2>2, <2>3, <2>4 DEF IInv, CountInv
<1>7. QED
  BY <1>5, <1>6 DEF WorkerInit
--------------------------------------------------------------------------------
\* How the number of connections that are up follows one that changes.
LEMMA CountOne ==
    ASSUME NEW S \in SUBSET Conns, NEW c \in Conns
    PROVE  /\ IsFiniteSet(S) /\ Cardinality(S) \in Nat
           /\ c \notin S => Cardinality(S \union {c}) = Cardinality(S) + 1
           /\ c \in S => Cardinality(S) > 0 /\ Cardinality(S \ {c}) = Cardinality(S) - 1
<1>1. IsFiniteSet(S)
  BY ConnsAssumption, FS_Subset
<1>2. Cardinality(S) \in Nat
  BY <1>1, FS_CardinalityType
<1>3. c \notin S => Cardinality(S \union {c}) = Cardinality(S) + 1
  BY <1>1, FS_AddElement
<1>4. c \in S => Cardinality(S \ {c}) = Cardinality(S) - 1
  BY <1>1, FS_RemoveElement
<1>5. c \in S => Cardinality(S) # 0
  BY <1>1, FS_EmptySet
<1>6. QED
  BY <1>1, <1>2, <1>3, <1>4, <1>5

\* The reports of a connection keep the worker's number right, and the floor at
\* zero of onConnectionDisconnected is never reached.
LEMMA CountOneChange ==
    ASSUME IInv, phase # "finished", NEW c \in Conns, NEW up \in BOOLEAN,
           \A d \in Conns : conn'[d].connected = IF d = c THEN up ELSE conn[d].connected,
           CountConnected(conn[c].connected, up)
    PROVE  connected' \in Nat /\ connected' = Cardinality(Up')
<1>1. Up \in SUBSET Conns /\ connected = Cardinality(Up)
  BY DEF Up, IInv, CountInv
<1>2. CASE up /\ ~conn[c].connected
  <2>1. connected' = connected + 1
    BY <1>2 DEF CountConnected
  <2>2. Up' = Up \union {c} /\ c \notin Up
    BY <1>2 DEF Up
  <2>3. QED
    BY <1>1, <2>1, <2>2, CountOne
<1>3. CASE ~up /\ conn[c].connected
  <2>1. Up' = Up \ {c} /\ c \in Up
    BY <1>3 DEF Up
  <2>2. Cardinality(Up) > 0 /\ Cardinality(Up \ {c}) = Cardinality(Up) - 1
        /\ Cardinality(Up) \in Nat
    BY <1>1, <2>1, CountOne
  <2>3. connected > 0
    BY <1>1, <2>2
  <2>4. connected' = connected - 1
    BY <1>3, <2>3 DEF CountConnected
  <2>5. QED
    BY <1>1, <2>1, <2>2, <2>4
<1>4. CASE (up /\ conn[c].connected) \/ (~up /\ ~conn[c].connected)
  <2>1. connected' = connected
    BY <1>4 DEF CountConnected
  <2>2. Up' = Up
    BY <1>4 DEF Up
  <2>3. QED
    BY <1>1, <2>1, <2>2, CountOne
<1>5. QED
  BY <1>2, <1>3, <1>4

\* A batch on every connection may take down several at once.
LEMMA CountManyDown ==
    ASSUME IInv, phase # "finished",
           \A d \in Conns : conn'[d].connected => conn[d].connected,
           NEW lost, lost = {d \in Conns : conn[d].connected /\ ~conn'[d].connected},
           connected' = connected - Cardinality(lost)
    PROVE  connected' \in Nat /\ connected' = Cardinality(Up')
<1>1. Up \in SUBSET Conns /\ Up' \in SUBSET Conns /\ connected = Cardinality(Up)
  BY DEF Up, IInv, CountInv
<1>2. lost = Up \ Up' /\ Up \intersect Up' = Up'
  BY DEF Up
<1>3. IsFiniteSet(Up) /\ IsFiniteSet(Up')
  BY <1>1, ConnsAssumption, FS_Subset
<1>4. Cardinality(Up) \in Nat /\ Cardinality(Up') \in Nat
  BY <1>3, FS_CardinalityType
<1>5. Cardinality(Up \ Up') = Cardinality(Up) - Cardinality(Up \intersect Up')
  BY <1>3, FS_Difference
<1>6. QED
  <2>1. PICK n \in Nat : n = Cardinality(Up)
    BY <1>4
  <2>2. PICK m \in Nat : m = Cardinality(Up')
    BY <1>4
  <2>3. Cardinality(lost) = n - m
    BY <1>2, <1>5, <2>1, <2>2
  <2>4. n - (n - m) = m
    OBVIOUS
  <2>5. connected' = m
    BY <1>1, <2>1, <2>3, <2>4
  <2>6. QED
    BY <2>2, <2>5
--------------------------------------------------------------------------------
\* A handler that leaves one connection with a correct ledger keeps the invariant,
\* whether or not the warmup is complete with it.
LEMMA BecomesInv ==
    ASSUME IInv, phase # "finished", NEW c \in Conns, NEW k,
           Ledger(k, running, rate, phase, posted), Becomes(c, k)
    PROVE  IInv'
<1> DEFINE conns == [conn EXCEPT ![c] = k]
<1>1. /\ CountConnected(conn[c].connected, k.connected)
      /\ MaybeCompleteWarmup(conns)
      /\ UNCHANGED <<rate, running, scheduled, dropped>>
  BY DEF Becomes, arrivals
<1>2. k \in Connection /\ k.connected \in BOOLEAN
  BY DEF Ledger, ConnInv, Connection
<1>3. conn \in [Conns -> Connection]
  BY DEF IInv, Types
<1>4. \A d \in Conns : conns[d] = IF d = c THEN k ELSE conn[d]
  BY <1>3
<1>5. conns \in [Conns -> Connection]
  BY <1>2, <1>3
<1>6. \A d \in Conns : Ledger(conns[d], running, rate, phase, posted)
  BY <1>4 DEF IInv, LedgerInv
<1> HIDE DEF conns
<1>7. CASE phase = "warmup-draining" /\ Drained(conns)
  <2>1. /\ phase' = "idle" /\ posted' = WarmedUp /\ ~running /\ ~running'
        /\ conn' = [d \in Conns |-> ResetPhaseState(conns[d])]
    BY <1>1, <1>7 DEF MaybeCompleteWarmup, IInv, PhaseInv, WarmedUp
  <2>2. \A d \in Conns : ResetPhaseState(conns[d]) = conns[d] /\ conns[d].inFlight = 0
    BY <1>6, <1>7, ResetInv DEF Drained, Ledger
  <2>3. conn' = conns
    BY <1>5, <2>1, <2>2
  <2>4. \A d \in Conns : conn'[d].connected = IF d = c THEN k.connected ELSE conn[d].connected
    BY <1>4, <2>3
  <2>5. connected' \in Nat /\ connected' = Cardinality(Up')
    BY <1>1, <1>2, <2>4, CountOneChange
  <2>6. Types'
    BY <1>1, <1>5, <2>1, <2>3, <2>5, PostedValues DEF IInv, Types, Phase
  <2>7. PhaseInv'
    BY <2>1 DEF PhaseInv
  <2>8. LedgerInv'
    BY <1>6, <1>7, <2>1, <2>2, <2>3 DEF LedgerInv, Ledger
  <2>9. QED
    BY <2>5, <2>6, <2>7, <2>8 DEF IInv, CountInv
<1>8. CASE ~(phase = "warmup-draining" /\ Drained(conns))
  <2>1. conn' = conns /\ UNCHANGED <<phase, posted>>
    BY <1>1, <1>8 DEF MaybeCompleteWarmup
  <2>2. \A d \in Conns : conn'[d].connected = IF d = c THEN k.connected ELSE conn[d].connected
    BY <1>4, <2>1
  <2>3. connected' \in Nat /\ connected' = Cardinality(Up')
    BY <1>1, <1>2, <2>2, CountOneChange
  <2>4. Types'
    BY <1>1, <1>5, <2>1, <2>3 DEF IInv, Types
  <2>5. PhaseInv'
    BY <1>1, <2>1 DEF IInv, PhaseInv
  <2>6. LedgerInv'
    BY <1>1, <1>6, <2>1 DEF LedgerInv
  <2>7. QED
    BY <2>3, <2>4, <2>5, <2>6 DEF IInv, CountInv
<1>9. QED
  BY <1>7, <1>8

\* The same for a handler that ends with the fill of its pipeline: what it leaves
\* to the fill need not be full.
LEMMA FillsUpInv ==
    ASSUME IInv, phase # "finished", NEW c \in Conns, NEW k, ConnInv(k), Recovering(k),
           running => Balanced(k), phase = "idle" => k.inFlight = 0, FillsUp(c, k)
    PROVE  IInv'
<1>1. running \in BOOLEAN /\ rate \in BOOLEAN /\ (phase = "idle" => ~running)
  BY DEF IInv, Types, PhaseInv
<1>2. PICK b \in Fills(k, running, rate) : Becomes(c, FillClosedLoop(k, b, running, rate))
  BY DEF FillsUp
<1> DEFINE q == FillClosedLoop(k, b, running, rate)
<1>3. /\ ConnInv(q) /\ Recovering(q)
      /\ running => Balanced(q)
      /\ running /\ ~rate => Working(q)
      /\ ~running => q = k
  BY <1>1, FillInv
<1> HIDE DEF q
<1>4. Ledger(q, running, rate, phase, posted)
  BY <1>1, <1>3 DEF Ledger
<1>5. QED
  BY <1>2, <1>4, BecomesInv DEF q

\* No event reaches a stopped connection.
LEMMA FinishedIsSilent ==
    ASSUME IInv, NEW c \in Conns, ConnectionEvent(c)
    PROVE  phase # "finished"
<1>1. SUFFICES ASSUME Stopped(conn[c])
               PROVE  FALSE
  BY DEF IInv, LedgerInv, Ledger
<1>2. QED
  BY <1>1 DEF Stopped, ConnectionEvent, Open, Message, UnsolicitedMessage, StaleMessage,
     SocketEnds, SocketClose, BufferDrains, TimeoutTimer, PollTimer, ReconnectTimer

\* A socket that opens starts loading; the last one reports 'ready'.
LEMMA OpenStep ==
    ASSUME IInv, phase # "finished", NEW c \in Conns, Open(c)
    PROVE  IInv'
<1> DEFINE o == Opened(conn[c])
<1>1. /\ ConnInv(conn[c]) /\ conn[c].sock = "opening" /\ (running => Balanced(conn[c]))
      /\ running \in BOOLEAN /\ rate \in BOOLEAN /\ conn \in [Conns -> Connection]
  BY DEF Open, IInv, Types, LedgerInv, Ledger
<1>2. /\ ConnInv(o) /\ o.inFlight = 0 /\ Recovering(o) /\ (Balanced(conn[c]) => Balanced(o))
  BY <1>1, OpenedInv
<1>3. PICK b \in Fills(o, running, rate) :
          LET k == FillClosedLoop(o, b, running, rate)
          IN  /\ conn' = [conn EXCEPT ![c] = k]
              /\ CountConnected(FALSE, k.connected)
  BY DEF Open
<1> DEFINE k == FillClosedLoop(o, b, running, rate)
<1>4. conn' = [conn EXCEPT ![c] = k] /\ CountConnected(FALSE, k.connected)
  BY <1>3
<1>5. /\ posted' = posted \/ (posted = <<>> /\ posted' = Ready)
      /\ UNCHANGED <<phase, rate, running, scheduled, dropped>>
  BY PostedValues DEF Open, arrivals
<1> HIDE DEF o
<1>6. /\ ConnInv(k) /\ Recovering(k)
      /\ running => Balanced(k)
      /\ running /\ ~rate => Working(k)
      /\ ~running => k = o
  BY <1>1, <1>2, FillInv
<1> HIDE DEF k
<1>7. posted = <<>> => phase = "idle"
  BY PostedValues DEF IInv, PhaseInv, Types, Phase
<1>8. phase = "idle" => ~running
  BY DEF IInv, PhaseInv
<1>9. Ledger(k, running, rate, phase, posted)
  BY <1>2, <1>6, <1>8 DEF Ledger
<1>10. \A d \in Conns : conn'[d] = IF d = c THEN k ELSE conn[d]
  BY <1>1, <1>4
<1>11. connected' \in Nat /\ connected' = Cardinality(Up')
  <2>1. k.connected \in BOOLEAN
    BY <1>6 DEF ConnInv, Connection
  <2>2. ~conn[c].connected /\ conn[c].connected \in BOOLEAN
    BY <1>1 DEF ConnInv, Connection
  <2>3. CountConnected(conn[c].connected, k.connected)
    BY <1>4, <2>2 DEF CountConnected
  <2>4. \A d \in Conns : conn'[d].connected = IF d = c THEN k.connected ELSE conn[d].connected
    BY <1>10
  <2>5. QED
    BY <2>1, <2>3, <2>4, CountOneChange
<1>12. Types'
  <2>1. conn' \in [Conns -> Connection]
    BY <1>1, <1>4, <1>6 DEF ConnInv
  <2>2. posted' \in Seq(Messages)
    BY <1>5, PostedValues DEF IInv, Types
  <2>3. QED
    BY <1>5, <1>11, <2>1, <2>2 DEF IInv, Types
<1>13. PhaseInv'
  BY <1>5, <1>7 DEF IInv, PhaseInv
<1>14. LedgerInv'
  <2>1. \A d \in Conns : Ledger(conn'[d], running, rate, phase, posted)
    BY <1>9, <1>10 DEF IInv, LedgerInv
  <2>2. QED
    BY <1>5, <2>1 DEF LedgerInv, Ledger
<1>15. QED
  BY <1>11, <1>12, <1>13, <1>14 DEF IInv, CountInv

\* 'message' and the poll of the buffer change one connection and fill it again.
LEMMA RefillStep ==
    ASSUME IInv, phase # "finished", NEW c \in Conns, Message(c) \/ PollTimer(c)
    PROVE  IInv'
<1>1. /\ ConnInv(conn[c]) /\ (running => Balanced(conn[c])) /\ Recovering(conn[c])
      /\ phase = "idle" => conn[c].inFlight = 0
      /\ running \in BOOLEAN
  BY DEF IInv, Types, LedgerInv, Ledger
<1>2. CASE Message(c)
  <2> DEFINE k == Answered(conn[c], running)
  <2>1. conn[c].sock = "open" /\ conn[c].inFlight > 0 /\ FillsUp(c, k)
    BY <1>2 DEF Message
  <2>2. phase # "idle"
    BY <1>1, <2>1
  <2>3. ConnInv(k) /\ Recovering(k) /\ (running /\ Balanced(conn[c]) => Balanced(k))
    BY <1>1, <2>1, AnsweredInv
  <2> HIDE DEF k
  <2>4. QED
    BY <1>1, <2>1, <2>2, <2>3, FillsUpInv
<1>3. CASE PollTimer(c)
  <2> DEFINE e == EndBackpressure(conn[c])
  <2>1. FillsUp(c, conn[c]) \/ FillsUp(c, e)
    BY <1>3 DEF PollTimer, Polled
  <2>2. /\ ConnInv(e) /\ e.inFlight = conn[c].inFlight /\ e.sock = conn[c].sock
        /\ e.reconnect = conn[c].reconnect
        /\ Balanced(conn[c]) => Balanced(e)
    BY <1>1, EndBackpressureInv
  <2> HIDE DEF e
  <2>3. Recovering(e)
    BY <1>1, <2>2 DEF Recovering
  <2>4. QED
    BY <1>1, <2>1, <2>2, <2>3, FillsUpInv
<1>4. QED
  BY <1>2, <1>3

\* A socket that is lost takes what was in flight with it, however it is lost.
LEMMA LossStep ==
    ASSUME IInv, phase # "finished", NEW c \in Conns,
           UnsolicitedMessage(c) \/ SocketClose(c) \/ TimeoutTimer(c)
    PROVE  IInv'
<1>1. /\ ConnInv(conn[c]) /\ (running => Balanced(conn[c])) /\ running \in BOOLEAN
  BY DEF IInv, Types, LedgerInv, Ledger
<1>2. TimeoutTimer(c) => conn[c].inFlight # 0 /\ conn[c].sock # "none"
  BY <1>1 DEF TimeoutTimer, ConnInv, Oldest
<1>3. PICK k \in {Discard(conn[c], running), LetGo(conn[c], running)} : Becomes(c, k)
  BY <1>2 DEF UnsolicitedMessage, SocketClose, TimeoutTimer, Closed
<1>4. /\ ConnInv(k) /\ k.sock = "none" /\ k.reconnect /\ k.inFlight = 0
      /\ running /\ Balanced(conn[c]) => Balanced(k)
  BY <1>1, <1>3, DiscardInv, LetGoInv
<1>5. Ledger(k, running, rate, phase, posted)
  BY <1>1, <1>4 DEF Ledger, Working, Recovering
<1>6. QED
  BY <1>3, <1>5, BecomesInv

\* The other events move nothing that the ledger counts.
LEMMA QuietStep ==
    ASSUME IInv, phase # "finished", NEW c \in Conns,
           StaleMessage(c) \/ SocketEnds(c) \/ BufferDrains(c) \/ ReconnectTimer(c)
    PROVE  IInv'
<1>1. /\ Ledger(conn[c], running, rate, phase, posted) /\ ConnInv(conn[c])
      /\ conn[c] \in Connection
  BY DEF IInv, LedgerInv, Ledger, ConnInv
<1>2. ASSUME NEW k, ConnInv(k), Becomes(c, k), k.inFlight = conn[c].inFlight,
             k.sent = conn[c].sent, k.completed = conn[c].completed,
             k.aborted = conn[c].aborted, k.backpressured = conn[c].backpressured,
             k.sock = "open" => conn[c].sock = "open",
             Recovering(k)
      PROVE  IInv'
  <2>1. Ledger(k, running, rate, phase, posted)
    BY <1>1, <1>2 DEF Ledger, Balanced, Working
  <2>2. QED
    BY <1>2, <2>1, BecomesInv
<1>3. Recovering(conn[c])
  BY <1>1 DEF Ledger
<1>4. CASE StaleMessage(c)
  <2> DEFINE m == conn[c].late - 1
             k == [conn[c] EXCEPT !.late = m]
  <2>1. ConnInv(k) /\ Becomes(c, k)
    BY <1>1, <1>4, QuietEventsInv DEF StaleMessage
  <2> HIDE DEF m
  <2>2. /\ k.inFlight = conn[c].inFlight /\ k.sent = conn[c].sent
        /\ k.completed = conn[c].completed /\ k.aborted = conn[c].aborted
        /\ k.backpressured = conn[c].backpressured /\ k.sock = conn[c].sock
        /\ k.reconnect = conn[c].reconnect
    BY <1>1 DEF Connection
  <2> HIDE DEF k
  <2>3. QED
    BY <1>2, <1>3, <2>1, <2>2 DEF Recovering
<1>5. CASE SocketEnds(c)
  <2> DEFINE k == [conn[c] EXCEPT !.sock = "closing"]
  <2>1. ConnInv(k) /\ Becomes(c, k)
    BY <1>1, <1>5, QuietEventsInv DEF SocketEnds
  <2>2. /\ k.inFlight = conn[c].inFlight /\ k.sent = conn[c].sent
        /\ k.completed = conn[c].completed /\ k.aborted = conn[c].aborted
        /\ k.backpressured = conn[c].backpressured /\ k.sock = "closing"
    BY <1>1 DEF Connection
  <2> HIDE DEF k
  <2>3. QED
    BY <1>2, <2>1, <2>2 DEF Recovering
<1>6. CASE BufferDrains(c)
  <2> DEFINE k == [conn[c] EXCEPT !.over = FALSE]
  <2>1. ConnInv(k) /\ Becomes(c, k)
    BY <1>1, <1>6, QuietEventsInv DEF BufferDrains
  <2>2. /\ k.inFlight = conn[c].inFlight /\ k.sent = conn[c].sent
        /\ k.completed = conn[c].completed /\ k.aborted = conn[c].aborted
        /\ k.backpressured = conn[c].backpressured /\ k.sock = conn[c].sock
        /\ k.reconnect = conn[c].reconnect
    BY <1>1 DEF Connection
  <2> HIDE DEF k
  <2>3. QED
    BY <1>2, <1>3, <2>1, <2>2 DEF Recovering
<1>7. CASE ReconnectTimer(c)
  <2> DEFINE k == IF conn[c].sock = "none" THEN Reconnect(conn[c])
                  ELSE [conn[c] EXCEPT !.reconnect = FALSE]
  <2>1. ConnInv(k) /\ Becomes(c, k)
    BY <1>1, <1>7, QuietEventsInv DEF ReconnectTimer
  <2>2. /\ k.inFlight = conn[c].inFlight /\ k.sent = conn[c].sent
        /\ k.completed = conn[c].completed /\ k.aborted = conn[c].aborted
        /\ k.backpressured = conn[c].backpressured
        /\ k.sock = "open" => conn[c].sock = "open"
        /\ k.sock # "none"
    BY <1>1 DEF Connection, Reconnect
  <2> HIDE DEF k
  <2>3. QED
    BY <1>2, <2>1, <2>2 DEF Recovering
<1>8. QED
  BY <1>4, <1>5, <1>6, <1>7

\* Every event of a connection keeps the invariant.
LEMMA ConnectionEventStep ==
    ASSUME IInv, NEW c \in Conns, ConnectionEvent(c)
    PROVE  IInv'
<1>1. phase # "finished"
  BY FinishedIsSilent
<1>2. QED
  BY <1>1, OpenStep, RefillStep, LossStep, QuietStep DEF ConnectionEvent
--------------------------------------------------------------------------------
\* A phase begins on connections with nothing in flight: the counters restart from
\* zero and a closed loop fills every pipeline.
LEMMA BeginPhaseStep ==
    ASSUME IInv, phase = "idle", posted \in {Ready, WarmedUp}, BeginPhase(conn),
           \/ phase' = "warmup" /\ posted = Ready
           \/ phase' = "measurement"
    PROVE  IInv'
<1> DEFINE fresh(c) == ResetCounters(conn[c])
<1>1. /\ rate \in BOOLEAN /\ conn \in [Conns -> Connection]
      /\ \A c \in Conns : ConnInv(conn[c]) /\ conn[c].inFlight = 0 /\ Recovering(conn[c])
  BY DEF IInv, Types, LedgerInv, Ledger
<1>2. PICK bs \in [Conns -> Batch] :
          /\ \A c \in Conns : bs[c] \in Fills(fresh(c), TRUE, rate)
          /\ conn' = [c \in Conns |-> FillClosedLoop(fresh(c), bs[c], TRUE, rate)]
          /\ connected' = connected
                - Cardinality({c \in Conns : conn[c].connected /\ ~conn'[c].connected})
          /\ running' = TRUE
          /\ scheduled' = 0 /\ dropped' = 0
          /\ UNCHANGED <<posted, rate>>
  BY DEF BeginPhase
<1>3. \A c \in Conns : /\ ConnInv(conn'[c]) /\ Balanced(conn'[c]) /\ Recovering(conn'[c])
                       /\ ~rate => Working(conn'[c])
                       /\ conn'[c].connected => conn[c].connected
  <2> TAKE c \in Conns
  <2> DEFINE q == ResetCounters(conn[c])
  <2>1. PICK run \in BOOLEAN : run = TRUE
    OBVIOUS
  <2>2. /\ ConnInv(q) /\ Balanced(q) /\ q.connected = conn[c].connected
        /\ q.sock = conn[c].sock /\ q.reconnect = conn[c].reconnect
    BY <1>1, ResetInv
  <2>3. Recovering(q)
    BY <1>1, <2>2 DEF Recovering
  <2>4. bs[c] \in Fills(q, run, rate) /\ conn'[c] = FillClosedLoop(q, bs[c], run, rate)
    BY <1>2, <2>1
  <2> HIDE DEF q
  <2> DEFINE p == FillClosedLoop(q, bs[c], run, rate)
  <2>5. /\ ConnInv(p) /\ Recovering(p) /\ Balanced(p) /\ (~rate => Working(p))
        /\ p.connected => q.connected
    BY <1>1, <2>1, <2>2, <2>3, <2>4, FillInv
  <2> HIDE DEF p
  <2>6. QED
    BY <2>2, <2>4, <2>5 DEF p
<1>4. conn' \in [Conns -> Connection]
  <2>1. \A c \in Conns : conn'[c] \in Connection
    BY <1>3 DEF ConnInv
  <2>2. QED
    BY <1>2, <2>1
<1>5. connected' \in Nat /\ connected' = Cardinality(Up')
  BY <1>2, <1>3, CountManyDown
<1>6. Types'
  BY <1>2, <1>4, <1>5 DEF IInv, Types, Phase
<1>7. PhaseInv'
  BY <1>2 DEF PhaseInv
<1>8. LedgerInv'
  BY <1>2, <1>3 DEF LedgerInv, Ledger
<1>9. QED
  BY <1>5, <1>6, <1>7, <1>8 DEF IInv, CountInv

\* Both phases are started on a worker that is idle, hence owes nothing.
LEMMA BeginStep ==
    ASSUME IInv, BeginWarmup \/ BeginMeasurement
    PROVE  IInv'
<1>1. CASE BeginWarmup
  BY <1>1, BeginPhaseStep DEF BeginWarmup
<1>2. CASE BeginMeasurement
  <2>1. phase = "idle" /\ posted \in {Ready, WarmedUp} /\ phase' = "measurement"
        /\ BeginPhase([c \in Conns |-> ResetPhaseState(conn[c])])
    BY <1>2 DEF BeginMeasurement
  <2>2. \A c \in Conns : ResetPhaseState(conn[c]) = conn[c]
    BY <2>1, ResetInv DEF IInv, LedgerInv, Ledger
  <2>3. [c \in Conns |-> ResetPhaseState(conn[c])] = conn
    BY <2>2 DEF IInv, Types
  <2>4. BeginPhase(conn)
    BY <2>1, <2>3
  <2>5. QED
    BY <2>1, <2>4, BeginPhaseStep
<1>3. QED
  BY <1>1, <1>2

\* The end of the warmup leaves a worker that drains, or one that owes nothing.
LEMMA WarmupTimerStep ==
    ASSUME IInv, WarmupTimer
    PROVE  IInv'
<1>1. /\ phase = "warmup" /\ posted = Ready /\ running' = FALSE
      /\ UNCHANGED <<rate, connected, scheduled, dropped>>
  BY DEF WarmupTimer, arrivals, IInv, PhaseInv
<1>2. CASE Drained(conn)
  <2>1. /\ phase' = "idle" /\ posted' = WarmedUp
        /\ conn' = [c \in Conns |-> ResetPhaseState(conn[c])]
    BY <1>1, <1>2 DEF WarmupTimer, WarmedUp
  <2>2. \A c \in Conns : ResetPhaseState(conn[c]) = conn[c] /\ conn[c].inFlight = 0
    BY <1>2, ResetInv DEF Drained, IInv, LedgerInv, Ledger
  <2>3. conn' = conn
    BY <2>1, <2>2 DEF IInv, Types
  <2>4. Types'
    BY <1>1, <2>1, <2>3, PostedValues DEF IInv, Types, Phase
  <2>5. PhaseInv'
    BY <1>1, <2>1 DEF PhaseInv
  <2>6. LedgerInv'
    BY <1>1, <2>1, <2>2, <2>3 DEF IInv, LedgerInv, Ledger
  <2>7. CountInv'
    BY <1>1, <2>3 DEF IInv, CountInv, Up
  <2>8. QED
    BY <2>4, <2>5, <2>6, <2>7 DEF IInv
<1>3. CASE ~Drained(conn)
  <2>1. phase' = "warmup-draining" /\ UNCHANGED <<posted, conn>>
    BY <1>3 DEF WarmupTimer
  <2>2. Types' /\ PhaseInv'
    BY <1>1, <2>1 DEF IInv, Types, Phase, PhaseInv
  <2>3. LedgerInv' /\ CountInv'
    BY <1>1, <2>1 DEF IInv, LedgerInv, Ledger, CountInv, Up
  <2>4. QED
    BY <2>2, <2>3 DEF IInv
<1>4. QED
  BY <1>2, <1>3

\* The end of the measurement takes what is in flight into the result.
LEMMA MeasurementTimerStep ==
    ASSUME IInv, MeasurementTimer
    PROVE  IInv'
<1>1. /\ phase = "measurement" /\ posted \in {Ready, WarmedUp} /\ running
      /\ phase' = "finished" /\ running' = FALSE
      /\ conn' = [c \in Conns |-> Stop(conn[c])]
      /\ posted' = Append(posted, "result")
      /\ UNCHANGED <<rate, connected, scheduled, dropped>>
  BY DEF MeasurementTimer, arrivals, IInv, PhaseInv
<1>2. \A c \in Conns : ConnInv(Stop(conn[c])) /\ Stopped(Stop(conn[c])) /\ BalancedAtStop(Stop(conn[c]))
  BY <1>1, StopInv DEF IInv, LedgerInv, Ledger
<1>3. posted' \in {Append(Ready, "result"), Append(WarmedUp, "result")}
  BY <1>1
<1>4. Types'
  BY <1>1, <1>2, <1>3, PostedValues DEF IInv, Types, Phase, ConnInv
<1>5. PhaseInv'
  BY <1>1, <1>3 DEF PhaseInv
<1>6. LedgerInv'
  BY <1>1, <1>2 DEF LedgerInv, Ledger
<1>7. CountInv'
  BY <1>1 DEF CountInv
<1>8. QED
  BY <1>4, <1>5, <1>6, <1>7 DEF IInv

\* Connections take arrivals while they have room; a send that throws costs a socket.
LEMMA RateTickStep ==
    ASSUME IInv, NEW due \in 1 .. MaxScheduled, NEW bs \in [Conns -> Batch], RateTick(due, bs)
    PROVE  IInv'
<1>1. /\ running /\ rate
      /\ \A c \in Conns : Possible(bs[c], Capacity(conn[c], running, rate))
      /\ scheduled' = scheduled + due
      /\ conn' = [c \in Conns |-> ScheduleOperations(conn[c], bs[c], running)]
      /\ connected' = connected
            - Cardinality({c \in Conns : conn[c].connected /\ ~conn'[c].connected})
      /\ UNCHANGED <<rate, phase, posted, running>>
  BY DEF RateTick
<1>2. dropped' \in Nat
  <2> DEFINE taken == FoldFunction(+, 0, [c \in Conns |-> Attempts(bs[c])])
  <2>1. taken \in 0 .. due /\ dropped' = dropped + (due - taken)
    BY DEF RateTick
  <2> HIDE DEF taken
  <2>2. due \in Nat /\ dropped \in Nat
    BY BoundsAssumption DEF IInv, Types
  <2>3. QED
    BY <2>1, <2>2
<1>3. phase # "finished" /\ phase # "idle" /\ running \in BOOLEAN /\ rate \in BOOLEAN
  BY <1>1 DEF IInv, PhaseInv, Types
<1>4. \A c \in Conns : /\ ConnInv(conn'[c]) /\ Balanced(conn'[c]) /\ Recovering(conn'[c])
                       /\ conn'[c].connected => conn[c].connected
  <2> TAKE c \in Conns
  <2>1. ConnInv(conn[c]) /\ Balanced(conn[c]) /\ Recovering(conn[c])
    BY <1>1, <1>3 DEF IInv, LedgerInv, Ledger
  <2> DEFINE q == ScheduleOperations(conn[c], bs[c], running)
  <2>2. /\ ConnInv(q) /\ Balanced(q) /\ Recovering(q)
        /\ q.connected => conn[c].connected
    BY <1>1, <1>3, <2>1, ScheduleInv
  <2>3. conn'[c] = q
    BY <1>1
  <2> HIDE DEF q
  <2>4. QED
    BY <2>2, <2>3
<1>5. conn' \in [Conns -> Connection]
  <2>1. \A c \in Conns : conn'[c] \in Connection
    BY <1>4 DEF ConnInv
  <2>2. QED
    BY <1>1, <2>1
<1>6. connected' \in Nat /\ connected' = Cardinality(Up')
  BY <1>1, <1>3, <1>4, CountManyDown
<1>7. Types'
  <2>1. due \in Nat /\ scheduled \in Nat
    BY BoundsAssumption DEF IInv, Types
  <2>2. scheduled' \in Nat
    BY <1>1, <2>1
  <2>3. UNCHANGED <<rate, phase, posted, running>>
    BY <1>1
  <2>4. QED
    BY <1>2, <1>5, <1>6, <2>2, <2>3 DEF IInv, Types
<1>8. PhaseInv'
  BY <1>1 DEF IInv, PhaseInv
<1>9. LedgerInv'
  BY <1>1, <1>3, <1>4 DEF LedgerInv, Ledger
<1>10. QED
  BY <1>6, <1>7, <1>8, <1>9 DEF IInv, CountInv

\* Every handler keeps the inductive invariant.
LEMMA StepIInv == IInv /\ [WorkerNext]_vars => IInv'
<1> SUFFICES ASSUME IInv, [WorkerNext]_vars
             PROVE  IInv'
  OBVIOUS
<1>1. CASE UNCHANGED vars
  BY <1>1 DEF vars, IInv, Types, PhaseInv, LedgerInv, CountInv, Up
<1>2. CASE WorkerNext
  BY <1>2, ConnectionEventStep, BeginStep, WarmupTimerStep, MeasurementTimerStep, RateTickStep
     DEF WorkerNext
<1>3. QED
  BY <1>1, <1>2

\* In every reachable state each connection has the ledger of the worker's phase, and
\* #connected is the number of those that are up.
THEOREM Invariance == Spec => []IInv
<1>1. WorkerInit => IInv
  BY InitIInv
<1>2. IInv /\ [WorkerNext]_vars => IInv'
  BY StepIInv
<1>3. QED
  BY <1>1, <1>2, PTL DEF Spec
--------------------------------------------------------------------------------
\* No message is lost from the accounts of a phase or of its result, nor counted
\* twice: not by a discarded socket, a reconnect or a send that throws.
THEOREM ConservationHolds == Spec => []Conservation
<1>1. IInv => Conservation
  <2> SUFFICES ASSUME IInv
               PROVE  Conservation
    OBVIOUS
  <2>1. "result" \in Range(posted) => phase = "finished" /\ posted # <<"fatal">>
    BY PostedValues DEF IInv, PhaseInv, Types, Phase
  <2>2. \A c \in Conns :
            /\ running => conn[c].sent = conn[c].completed + conn[c].aborted + conn[c].inFlight
            /\ "result" \in Range(posted) =>
                  conn[c].sent = conn[c].completed + conn[c].aborted + conn[c].atStop
    BY <2>1 DEF IInv, LedgerInv, Ledger, Balanced, BalancedAtStop
  <2>3. QED
    BY <2>2 DEF IInv, Types, Messages, Conservation
<1>2. QED
  BY <1>1, Invariance, PTL

\* An answer on the current socket is the answer to one of its own requests: the
\* late ones of discarded sockets never reach the timestamps.
THEOREM AnswersAreOwnHolds == Spec => []AnswersAreOwn
<1>1. IInv => AnswersAreOwn
  BY DEF IInv, LedgerInv, Ledger, ConnInv, AnswersAreOwn
<1>2. QED
  BY <1>1, Invariance, PTL

\* The timeout always runs for the oldest request in flight, and for no other.
THEOREM TimerOnOldestHolds == Spec => []TimerOnOldest
<1>1. IInv => TimerOnOldest
  BY DEF IInv, LedgerInv, Ledger, ConnInv, TimerOnOldest
<1>2. QED
  BY <1>1, Invariance, PTL

\* No order of events leaves a connection of a running closed loop with room in its
\* pipeline and nothing due that would fill it.
THEOREM NeverStallsHolds == Spec => []NeverStalls
<1>1. IInv => NeverStalls
  BY DEF IInv, LedgerInv, Ledger, ConnInv, Recovering, Working, NeverStalls
<1>2. QED
  BY <1>1, Invariance, PTL
--------------------------------------------------------------------------------
\* Every handler is a step of the contract, or leaves the phase and the messages
\* as they are.
LEMMA StepRefines == IInv /\ [WorkerNext]_vars => [Next]_contractVars
<1> SUFFICES ASSUME IInv, [WorkerNext]_vars
             PROVE  Next \/ UNCHANGED <<phase, posted>>
  BY DEF contractVars
<1>1. ASSUME NEW c, NEW k, Becomes(c, k)
      PROVE  CompleteWarmup \/ UNCHANGED <<phase, posted>>
  BY <1>1 DEF Becomes, MaybeCompleteWarmup, CompleteWarmup, IInv, PhaseInv, WarmedUp
<1>2. ASSUME NEW c \in Conns, Open(c)
      PROVE  BecomeReady \/ UNCHANGED <<phase, posted>>
  <2>1. posted = <<>> => phase = "idle"
    BY PostedValues DEF IInv, PhaseInv, Types, Phase
  <2>2. QED
    BY <1>2, <2>1, PostedValues DEF Open, BecomeReady
<1>3. ASSUME NEW c \in Conns, ConnectionEvent(c)
      PROVE  BecomeReady \/ CompleteWarmup \/ UNCHANGED <<phase, posted>>
  BY <1>1, <1>2, <1>3 DEF ConnectionEvent, Message, FillsUp, UnsolicitedMessage, StaleMessage,
     SocketEnds, SocketClose, BufferDrains, TimeoutTimer, PollTimer, ReconnectTimer
<1>4. CASE BeginWarmup
  BY <1>4 DEF BeginWarmup, BeginPhase, StartWarmup, Next
<1>5. CASE BeginMeasurement
  BY <1>5 DEF BeginMeasurement, BeginPhase, StartMeasurement, Next
<1>6. CASE WarmupTimer
  BY <1>6 DEF WarmupTimer, EndWarmup, CompleteWarmup, Next, IInv, PhaseInv, WarmedUp
<1>7. CASE MeasurementTimer
  BY <1>7 DEF MeasurementTimer, Finish, Next
<1>8. QED
  BY <1>3, <1>4, <1>5, <1>6, <1>7 DEF WorkerNext, Next, RateTick, vars

\* The WebSocket worker keeps the same promises as the HTTP/1 worker: the phases in
\* order, each message once, at the end of the phase it reports.
THEOREM ContractRefined == Spec => ImplementsContract
<1>1. WorkerInit => Init \/ InitFailed
  BY DEF WorkerInit
<1>2. IInv /\ [WorkerNext]_vars => [Next]_contractVars
  BY StepRefines
<1>3. QED
  BY <1>1, <1>2, Invariance, PTL DEF Spec, ImplementsContract, ContractSpec
================================================================================
