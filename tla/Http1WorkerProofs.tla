--------------------------- MODULE Http1WorkerProofs ---------------------------
(***************************************************************************)
(* The worker keeps its accounts, its pipelines and its contract: proved   *)
(* for any set of connections, any pipelining, either load mode and any    *)
(* order of socket events, timers and commands.                            *)
(***************************************************************************)
EXTENDS Http1Worker, FoldTheorems, SequenceTheorems, TLAPS
--------------------------------------------------------------------------------
(* What every handler of a connection preserves: lemmas about its operators. *)

\* What holds of a connection between two handlers.
ConnInv(k) ==
    /\ k \in Connection
    /\ ~k.threw
    /\ k.inFlight + k.pending <= Pipelining
    /\ FixedRate => k.pending = 0
    /\ k.sock \in {"none", "opening"} => k.inFlight = 0 /\ k.pending = 0 /\ ~k.backpressured
    /\ k.sock = "opening" => ~k.connected
    /\ k.reconnect => k.sock = "none"

\* Every request counted as sent is accounted for.
Balanced(k) == k.sent = k.completed + k.aborted + k.inFlight

\* The same of a connection that was stopped with requests in flight.
BalancedAtStop(k) == k.sent = k.completed + k.aborted + k.atStop

\* Without a socket it waits for its reconnect timer.
Recovering(k) == k.sock = "none" => k.reconnect /\ ~k.connected

\* The connection owes nothing and is owed nothing.
Quiet(k) == k.inFlight = 0 /\ k.pending = 0

\* A counter that may grow by one, or by n while the phase records.
LEMMA CounterType ==
    /\ \A n \in Nat, b \in BOOLEAN : n + If1(b) \in Nat
    /\ \A n, m \in Nat, run \in BOOLEAN : n + Recorded(run, m) \in Nat
    BY DEF If1, Recorded

\* Ending an episode of backpressure touches nothing but its own bookkeeping.
LEMMA FinishBackpressureInv ==
    ASSUME NEW k, ConnInv(k)
    PROVE  /\ ConnInv(FinishBackpressure(k))
           /\ Recovering(k) => Recovering(FinishBackpressure(k))
           /\ ~FinishBackpressure(k).backpressured
           /\ Balanced(k) => Balanced(FinishBackpressure(k))
<1> DEFINE w == k.waits + If1(k.backpressured /\ k.measured)
<1>1. k \in Connection
  BY DEF ConnInv
<1>2. w \in Nat
  BY <1>1, CounterType DEF Connection
<1>3. FinishBackpressure(k) =
        [k EXCEPT !.waits = w, !.backpressured = FALSE, !.measured = FALSE]
  BY DEF FinishBackpressure
<1> HIDE DEF w
<1>4. FinishBackpressure(k) \in Connection
  BY <1>1, <1>2, <1>3 DEF Connection
<1>5. QED
  BY <1>1, <1>3, <1>4 DEF ConnInv, Connection, Balanced, Recovering

\* Neither does beginning one.
LEMMA BeginBackpressureInv ==
    ASSUME NEW k, ConnInv(k), k.sock \notin {"none", "opening"}, NEW run \in BOOLEAN
    PROVE  /\ ConnInv(BeginBackpressure(k, run))
           /\ Recovering(k) => Recovering(BeginBackpressure(k, run))
           /\ Balanced(k) => Balanced(BeginBackpressure(k, run))
<1> DEFINE e == k.events + If1(run)
           q == [k EXCEPT !.backpressured = TRUE, !.measured = run, !.events = e]
<1>1. k \in Connection
  BY DEF ConnInv
<1>2. e \in Nat
  BY <1>1, CounterType DEF Connection
<1>3. BeginBackpressure(k, run) \in {k, q}
  BY DEF BeginBackpressure
<1> HIDE DEF e
<1>4. q \in Connection
  BY <1>1, <1>2 DEF Connection
<1>5. ConnInv(q) /\ (Balanced(k) => Balanced(q)) /\ (Recovering(k) => Recovering(q))
  BY <1>1, <1>4 DEF ConnInv, Connection, Balanced, Recovering
<1>6. QED
  BY <1>3, <1>5

\* A batch that fits beside what is in flight and waiting can be sent: it does
\* not throw, and it is counted as sent exactly when the phase records.
LEMMA SendInv ==
    ASSUME NEW k, ConnInv(k), NEW n \in Nat, NEW run \in BOOLEAN, NEW acc \in BOOLEAN,
           k.inFlight + k.pending + n <= Pipelining
    PROVE  /\ ConnInv(Send(k, n, run, acc))
           /\ Recovering(k) => Recovering(Send(k, n, run, acc))
           /\ run /\ Balanced(k) => Balanced(Send(k, n, run, acc))
<1> DEFINE f == k.inFlight + n
           t == k.sent + Recorded(run, n)
           q == [k EXCEPT !.inFlight = f, !.sent = t]
<1>1. CASE k.sock = "none" \/ ~k.connected \/ n = 0
  BY <1>1 DEF Send
<1>2. CASE ~(k.sock = "none" \/ ~k.connected \/ n = 0)
  <2>1. k \in Connection
    BY DEF ConnInv
  <2>0. /\ k.inFlight \in Nat /\ k.pending \in Nat /\ k.sent \in Nat
        /\ k.completed \in Nat /\ k.aborted \in Nat
    BY <2>1 DEF Connection
  <2>2. f \in Nat /\ t \in Nat /\ ~(f > Pipelining) /\ f + k.pending <= Pipelining
    <3>1. t \in Nat
      BY <2>0, CounterType
    <3>2. QED
      BY <2>0, <3>1, PipeliningAssumption
  <2>3. run => t = k.sent + n
    BY DEF Recorded
  <2>4. Send(k, n, run, acc) =
          IF acc /\ k.sock = "open" THEN q ELSE BeginBackpressure(q, run)
    BY <1>2, <2>2, Zenon DEF Send
  <2>5. run /\ Balanced(k) => t = k.completed + k.aborted + f
    <3>1. ASSUME run, Balanced(k)
          PROVE  k.sent + n = k.completed + k.aborted + (k.inFlight + n)
      BY <2>0, <3>1 DEF Balanced
    <3>2. QED
      BY <2>3, <3>1, Zenon
  <2> HIDE DEF f, t
  <2>6. q \in Connection
    BY <2>1, <2>2 DEF Connection
  <2>7. ConnInv(q) /\ q.sock \notin {"none", "opening"} /\ (Recovering(k) => Recovering(q))
    BY <1>2, <2>1, <2>2, <2>6 DEF ConnInv, Connection, Recovering
  <2>8. run /\ Balanced(k) => Balanced(q)
    <3>1. q.sent = t /\ q.inFlight = f /\ q.completed = k.completed /\ q.aborted = k.aborted
      BY <2>1 DEF Connection
    <3>2. QED
      BY <2>5, <3>1 DEF Balanced
  <2> HIDE DEF q
  <2>9. QED
    BY <2>4, <2>7, <2>8, BeginBackpressureInv
<1>3. QED
  BY <1>1, <1>2

\* The same for the requests of a closed loop, sent at once or held back.
LEMMA ReplenishInv ==
    ASSUME NEW k, ConnInv(k), NEW n \in Nat, NEW run \in BOOLEAN, NEW acc \in BOOLEAN,
           k.inFlight + k.pending + n <= Pipelining
    PROVE  /\ ConnInv(Replenish(k, n, run, acc))
           /\ Recovering(k) => Recovering(Replenish(k, n, run, acc))
           /\ run /\ Balanced(k) => Balanced(Replenish(k, n, run, acc))
<1>1. CASE ~ClosedLoopActive(run) \/ n = 0
  BY <1>1 DEF Replenish
<1>2. CASE ClosedLoopActive(run) /\ n # 0 /\ k.backpressured
  <2> DEFINE p == k.pending + n
             q == [k EXCEPT !.pending = p]
  <2>1. Replenish(k, n, run, acc) = q
    BY <1>2 DEF Replenish
  <2>2. k \in Connection /\ ~FixedRate
    BY <1>2 DEF ConnInv, ClosedLoopActive
  <2>3. p \in Nat /\ k.inFlight + p <= Pipelining
    BY <2>2, PipeliningAssumption DEF Connection
  <2> HIDE DEF p
  <2>4. q \in Connection
    BY <2>2, <2>3 DEF Connection
  <2>5. ConnInv(q) /\ (Balanced(k) => Balanced(q)) /\ (Recovering(k) => Recovering(q))
    BY <1>2, <2>2, <2>3, <2>4 DEF ConnInv, Connection, Balanced, Recovering
  <2>6. QED
    BY <2>1, <2>5
<1>3. CASE ClosedLoopActive(run) /\ n # 0 /\ ~k.backpressured
  BY <1>3, SendInv DEF Replenish
<1>4. QED
  BY <1>1, <1>2, <1>3

\* An empty pipeline with nothing waiting can be filled.
LEMMA FillClosedLoopInv ==
    ASSUME NEW k, ConnInv(k), NEW run \in BOOLEAN, NEW acc \in BOOLEAN,
           k.inFlight = 0 => k.pending = 0
    PROVE  /\ ConnInv(FillClosedLoop(k, run, acc))
           /\ Recovering(k) => Recovering(FillClosedLoop(k, run, acc))
           /\ run /\ Balanced(k) => Balanced(FillClosedLoop(k, run, acc))
<1>1. CASE ClosedLoopActive(run) /\ k.connected /\ k.inFlight = 0
  <2>1. k.inFlight + k.pending + Pipelining <= Pipelining
    BY <1>1, PipeliningAssumption
  <2>2. QED
    BY <1>1, <2>1, ReplenishInv, PipeliningAssumption DEF FillClosedLoop
<1>2. CASE ~(ClosedLoopActive(run) /\ k.connected /\ k.inFlight = 0)
  BY <1>2 DEF FillClosedLoop
<1>3. QED
  BY <1>1, <1>2

\* A socket that connects starts with a full pipeline, or an empty one.
LEMMA ConnectedInv ==
    ASSUME NEW k, ConnInv(k), k.sock = "opening", NEW run \in BOOLEAN, NEW acc \in BOOLEAN
    PROVE  /\ ConnInv(Connected(k, run, acc))
           /\ Recovering(Connected(k, run, acc))
           /\ run /\ Balanced(k) => Balanced(Connected(k, run, acc))
           /\ ~run => Quiet(Connected(k, run, acc))
<1> DEFINE q == [k EXCEPT !.sock = "open", !.connected = TRUE, !.reconnect = FALSE]
<1>1. k \in Connection
  BY DEF ConnInv
<1>2. q \in Connection
  BY <1>1 DEF Connection, SocketState
<1>3. ConnInv(q) /\ Quiet(q) /\ (Balanced(k) => Balanced(q)) /\ Recovering(q)
  BY <1>1, <1>2 DEF ConnInv, Connection, Balanced, Recovering, Quiet
<1>4. Connected(k, run, acc) = FillClosedLoop(q, run, acc)
  BY DEF Connected
<1> HIDE DEF q
<1>5. ~run => Connected(k, run, acc) = q
  BY <1>4 DEF FillClosedLoop, ClosedLoopActive
<1>6. q.inFlight = 0 => q.pending = 0
  BY <1>3 DEF Quiet
<1>7. QED
  BY <1>3, <1>4, <1>5, <1>6, FillClosedLoopInv

\* Destroying a socket leaves its requests for 'close' to abort.
LEMMA DestroyInv ==
    ASSUME NEW k, ConnInv(k), k.sock # "none"
    PROVE  /\ ConnInv(Destroy(k))
           /\ Recovering(k) => Recovering(Destroy(k))
           /\ Balanced(k) => Balanced(Destroy(k))
           /\ Quiet(k) => Quiet(Destroy(k))
           /\ Destroy(k).inFlight = k.inFlight /\ Destroy(k).pending = k.pending
<1>1. k \in Connection
  BY DEF ConnInv
<1>2. Destroy(k) \in Connection
  BY <1>1 DEF Connection, SocketState, Destroy
<1>3. QED
  BY <1>1, <1>2 DEF ConnInv, Connection, Balanced, Recovering, Quiet, Destroy

\* Responses move requests from in flight to completed.
LEMMA AnswerInv ==
    ASSUME NEW k, ConnInv(k), NEW n \in 0 .. k.inFlight, NEW run \in BOOLEAN
    PROVE  /\ ConnInv(Answer(k, n, run))
           /\ Recovering(k) => Recovering(Answer(k, n, run))
           /\ run /\ Balanced(k) => Balanced(Answer(k, n, run))
           /\ Quiet(k) => Quiet(Answer(k, n, run))
           /\ Answer(k, n, run).inFlight = k.inFlight - n
           /\ Answer(k, n, run).pending = k.pending
           /\ Answer(k, n, run).sock = k.sock
<1> DEFINE f == k.inFlight - n
           t == k.completed + Recorded(run, n)
           q == [k EXCEPT !.inFlight = f, !.completed = t]
<1>1. k \in Connection
  BY DEF ConnInv
<1>2. /\ k.inFlight \in Nat /\ k.pending \in Nat /\ k.sent \in Nat
      /\ k.completed \in Nat /\ k.aborted \in Nat
  BY <1>1 DEF Connection
<1>3. t \in Nat
  <2>1. n \in Nat
    BY <1>2
  <2>2. QED
    BY <1>2, <2>1, CounterType
<1>4. f \in Nat /\ f <= k.inFlight /\ (k.inFlight = 0 => f = 0)
  <2>1. n \in Nat /\ n <= k.inFlight
    BY <1>2
  <2>2. QED
    BY <1>2, <2>1
<1>5. f + k.pending <= Pipelining
  BY <1>2, <1>4, PipeliningAssumption DEF ConnInv
<1>6. run /\ Balanced(k) => k.sent = t + k.aborted + f
  <2>1. ASSUME run, Balanced(k)
        PROVE  k.sent = (k.completed + n) + k.aborted + f
    BY <1>2, <2>1 DEF Balanced
  <2>2. run => t = k.completed + n
    BY DEF Recorded
  <2>3. QED
    BY <2>1, <2>2, Zenon
<1>7. Answer(k, n, run) = q
  BY DEF Answer
<1> HIDE DEF f, t
<1>8. q \in Connection
  BY <1>1, <1>3, <1>4 DEF Connection
<1>9. ConnInv(q) /\ q.sock = k.sock /\ (Recovering(k) => Recovering(q))
  BY <1>1, <1>4, <1>5, <1>8 DEF ConnInv, Connection, Recovering
<1>10. q.inFlight = f /\ q.pending = k.pending
  BY <1>1 DEF Connection
<1>11. run /\ Balanced(k) => Balanced(q)
  <2>1. q.sent = k.sent /\ q.inFlight = f /\ q.completed = t /\ q.aborted = k.aborted
    BY <1>1 DEF Connection
  <2>2. QED
    BY <1>6, <2>1 DEF Balanced
<1>12. Quiet(k) => Quiet(q)
  BY <1>4, <1>10 DEF Quiet
<1>13. QED
  BY <1>7, <1>9, <1>10, <1>11, <1>12 DEF f

\* A chunk, whatever it holds, never overfills the pipeline: it asks for at most
\* as many requests as it answered.
LEMMA DataInv ==
    ASSUME NEW k, ConnInv(k), k.sock = "open", NEW n \in 0 .. k.inFlight, NEW r \in 0 .. n,
           NEW tail, NEW run \in BOOLEAN, NEW acc \in BOOLEAN
    PROVE  /\ ConnInv(Data(k, n, tail, r, run, acc))
           /\ Recovering(k) => Recovering(Data(k, n, tail, r, run, acc))
           /\ run /\ Balanced(k) => Balanced(Data(k, n, tail, r, run, acc))
           /\ ~run /\ Quiet(k) => Quiet(Data(k, n, tail, r, run, acc))
<1> DEFINE answered == Answer(k, n, run)
           base == IF tail = "surplus" THEN Destroy(answered) ELSE answered
           refilled == Replenish(base, r, run, acc)
<1>1. /\ ConnInv(answered)
      /\ Recovering(k) => Recovering(answered)
      /\ run /\ Balanced(k) => Balanced(answered)
      /\ Quiet(k) => Quiet(answered)
      /\ answered.inFlight = k.inFlight - n /\ answered.pending = k.pending
      /\ answered.sock = "open"
  BY AnswerInv
<1>2. /\ ConnInv(Destroy(answered))
      /\ Recovering(k) => Recovering(Destroy(answered))
      /\ run /\ Balanced(k) => Balanced(Destroy(answered))
      /\ Quiet(k) => Quiet(Destroy(answered))
      /\ Destroy(answered).inFlight = k.inFlight - n
      /\ Destroy(answered).pending = k.pending
  <2> HIDE DEF answered
  <2>1. QED
    BY <1>1, DestroyInv
<1>3. /\ ConnInv(base)
      /\ Recovering(k) => Recovering(base)
      /\ run /\ Balanced(k) => Balanced(base)
      /\ Quiet(k) => Quiet(base)
      /\ base.inFlight = k.inFlight - n /\ base.pending = k.pending
  BY <1>1, <1>2
<1> HIDE DEF answered, base
<1>4. base.inFlight + base.pending + r <= Pipelining
  <2>1. k.inFlight \in Nat /\ k.pending \in Nat /\ k.inFlight + k.pending <= Pipelining
    BY DEF ConnInv, Connection
  <2>2. QED
    BY <1>3, <2>1, PipeliningAssumption
<1>5. r \in Nat
  <2>1. k.inFlight \in Nat
    BY DEF ConnInv, Connection
  <2>2. QED
    BY <2>1
<1>6. /\ ConnInv(refilled)
      /\ Recovering(k) => Recovering(refilled)
      /\ run /\ Balanced(k) => Balanced(refilled)
  BY <1>3, <1>4, <1>5, ReplenishInv
<1>7. ~run => refilled = base
  BY DEF Replenish, ClosedLoopActive
<1>8. ~refilled.threw
  BY <1>6 DEF ConnInv
<1>9. Data(k, n, tail, r, run, acc) =
        IF tail = "malformed" THEN Destroy(answered) ELSE refilled
  BY <1>8 DEF Data, answered, base
<1> HIDE DEF refilled
<1>10. QED
  BY <1>2, <1>3, <1>6, <1>7, <1>9

\* 'drain' sends what was waiting, and nothing is waiting any more.
LEMMA DrainInv ==
    ASSUME NEW k, ConnInv(k), k.sock \notin {"none", "opening"},
           NEW run \in BOOLEAN, NEW acc \in BOOLEAN
    PROVE  /\ ConnInv(Drain(k, run, acc))
           /\ Recovering(k) => Recovering(Drain(k, run, acc))
           /\ run /\ Balanced(k) => Balanced(Drain(k, run, acc))
           /\ ~run /\ Quiet(k) => Quiet(Drain(k, run, acc))
<1> DEFINE q == FinishBackpressure(k)
           e == [q EXCEPT !.pending = 0]
<1>1. /\ ConnInv(q) /\ (Balanced(k) => Balanced(q)) /\ (Recovering(k) => Recovering(q))
      /\ q.inFlight = k.inFlight /\ q.pending = k.pending
  BY FinishBackpressureInv DEF FinishBackpressure, ConnInv, Connection
<1>2. k \in Connection /\ q \in Connection
  BY <1>1 DEF ConnInv
<1>3. CASE ~k.backpressured
  BY <1>3 DEF Drain
<1>4. CASE k.backpressured /\ ~(k.pending > 0 /\ ClosedLoopActive(run))
  <2>1. Drain(k, run, acc) = q
    BY <1>4 DEF Drain
  <2>2. QED
    BY <1>1, <2>1 DEF Quiet
<1>5. CASE k.backpressured /\ k.pending > 0 /\ ClosedLoopActive(run)
  <2>1. Drain(k, run, acc) = Send(e, k.pending, run, acc)
    BY <1>5 DEF Drain
  <2> HIDE DEF q
  <2>2. e \in Connection /\ e.inFlight = q.inFlight /\ e.pending = 0
    BY <1>2 DEF Connection
  <2>3. ConnInv(e) /\ (Recovering(k) => Recovering(e))
    BY <1>1, <1>2, <2>2, PipeliningAssumption DEF ConnInv, Connection, Recovering
  <2>4. Balanced(k) => Balanced(e)
    BY <1>1, <1>2 DEF Balanced, Connection
  <2>5. /\ k.pending \in Nat
        /\ e.inFlight + e.pending + k.pending <= Pipelining
    <3>1. k.inFlight \in Nat /\ k.pending \in Nat /\ k.inFlight + k.pending <= Pipelining
      BY DEF ConnInv, Connection
    <3>2. QED
      BY <1>1, <2>2, <3>1, PipeliningAssumption
  <2>6. run
    BY <1>5 DEF ClosedLoopActive
  <2> HIDE DEF e
  <2>7. QED
    BY <2>1, <2>3, <2>4, <2>5, <2>6, SendInv
<1>6. QED
  BY <1>3, <1>4, <1>5

\* 'close' moves what is in flight to the aborted requests.
LEMMA ClosedInv ==
    ASSUME NEW k, ConnInv(k), NEW run \in BOOLEAN
    PROVE  /\ ConnInv(Closed(k, run))
           /\ Recovering(Closed(k, run))
           /\ run /\ Balanced(k) => Balanced(Closed(k, run))
           /\ Quiet(Closed(k, run))
<1> DEFINE q == FinishBackpressure(k)
           a == q.aborted + Recorded(run, k.inFlight)
           d == [q EXCEPT !.sock = "none", !.connected = FALSE, !.reconnect = TRUE,
                          !.failed = FALSE, !.aborted = a, !.inFlight = 0, !.pending = 0]
<1>1. /\ ConnInv(q) /\ (Balanced(k) => Balanced(q)) /\ (Recovering(k) => Recovering(q)) /\ ~q.backpressured
      /\ q.inFlight = k.inFlight
  BY FinishBackpressureInv DEF FinishBackpressure, ConnInv, Connection
<1>2. q \in Connection /\ ~q.threw
  BY <1>1 DEF ConnInv
<1> HIDE DEF q
<1>3. /\ q.aborted \in Nat /\ q.inFlight \in Nat /\ q.sent \in Nat /\ q.completed \in Nat
  BY <1>2 DEF Connection
<1>4. a \in Nat
  BY <1>1, <1>3, CounterType
<1>5. run /\ Balanced(q) => q.sent = q.completed + a + 0
  <2>1. ASSUME run, Balanced(q)
        PROVE  q.sent = q.completed + (q.aborted + k.inFlight) + 0
    BY <1>1, <1>3, <2>1 DEF Balanced
  <2>2. run => a = q.aborted + k.inFlight
    BY DEF Recorded
  <2>3. QED
    BY <2>1, <2>2, Zenon
<1>6. Closed(k, run) = d
  BY DEF Closed, q
<1> HIDE DEF a
<1>7. d \in Connection
  BY <1>2, <1>4 DEF Connection, SocketState
<1>8. ConnInv(d) /\ Quiet(d) /\ Recovering(d)
  BY <1>1, <1>2, <1>7, PipeliningAssumption DEF ConnInv, Connection, Quiet, Recovering
<1>9. run /\ Balanced(q) => Balanced(d)
  <2>1. d.sent = q.sent /\ d.completed = q.completed /\ d.aborted = a /\ d.inFlight = 0
    BY <1>2 DEF Connection
  <2>2. QED
    BY <1>5, <2>1 DEF Balanced
<1>10. QED
  BY <1>1, <1>6, <1>8, <1>9

\* A reconnect opens a socket for a connection that has none.
LEMMA ReconnectInv ==
    ASSUME NEW k, ConnInv(k), k.sock = "none", NEW stopped \in BOOLEAN,
           ~stopped => ~k.connected
    PROVE  /\ ConnInv(Reconnect(k, stopped))
           /\ ~stopped => Recovering(Reconnect(k, stopped))
           /\ Balanced(k) => Balanced(Reconnect(k, stopped))
           /\ BalancedAtStop(k) => BalancedAtStop(Reconnect(k, stopped))
           /\ Quiet(Reconnect(k, stopped))
           /\ stopped => Reconnect(k, stopped).sock = "none"
<1> DEFINE sk == IF stopped THEN k.sock ELSE "opening"
           q == [k EXCEPT !.reconnect = FALSE, !.sock = sk]
<1>1. Reconnect(k, stopped) = q
  BY DEF Reconnect
<1>2. /\ sk \in {"none", "opening"}
      /\ sk = "opening" => ~k.connected
      /\ IF stopped THEN sk = "none" ELSE sk = "opening"
  BY DEF ConnInv, Connection
<1> HIDE DEF sk
<1>3. k \in Connection /\ q \in Connection
  BY <1>2 DEF ConnInv, Connection, SocketState
<1>4. QED
  BY <1>1, <1>2, <1>3 DEF ConnInv, Connection, Balanced, BalancedAtStop, Recovering, Quiet

\* A phase starts from counters at zero on connections with nothing in flight.
LEMMA ResetInv ==
    ASSUME NEW k, ConnInv(k)
    PROVE  /\ ConnInv(ResetPhaseState(k))
           /\ Quiet(k) => ResetPhaseState(k) = k
           /\ k.inFlight = 0 => Quiet(ResetPhaseState(k))
           /\ ConnInv(ResetCounters(k))
           /\ Recovering(k) => Recovering(ResetPhaseState(k)) /\ Recovering(ResetCounters(k))
           /\ Quiet(k) => Quiet(ResetCounters(k)) /\ Balanced(ResetCounters(k))
<1>1. k \in Connection
  BY DEF ConnInv
<1>2. ResetPhaseState(k) \in Connection /\ ResetCounters(k) \in Connection
  BY <1>1 DEF Connection, ResetPhaseState, ResetCounters
<1>3. ConnInv(ResetPhaseState(k))
  BY <1>1, <1>2, PipeliningAssumption DEF ConnInv, Connection, ResetPhaseState
<1>4. ConnInv(ResetCounters(k))
  BY <1>1, <1>2 DEF ConnInv, Connection, ResetCounters
<1>5. QED
  BY <1>1, <1>2, <1>3, <1>4 DEF Connection, ResetPhaseState, ResetCounters, Quiet, Balanced, Recovering

\* stop() takes what is in flight into the result and leaves nothing behind.
LEMMA StopInv ==
    ASSUME NEW k, ConnInv(k)
    PROVE  /\ ConnInv(Stop(k))
           /\ Balanced(k) => BalancedAtStop(Stop(k))
           /\ Stop(k).sock = "none"
           /\ Quiet(Stop(k))
<1> DEFINE q == FinishBackpressure(k)
           d == [q EXCEPT !.atStop = k.inFlight, !.sock = "none", !.inFlight = 0, !.pending = 0]
<1>1. /\ ConnInv(q) /\ (Balanced(k) => Balanced(q)) /\ (Recovering(k) => Recovering(q)) /\ ~q.backpressured
      /\ q.inFlight = k.inFlight
  BY FinishBackpressureInv DEF FinishBackpressure, ConnInv, Connection
<1>2. q \in Connection /\ k \in Connection
  BY <1>1 DEF ConnInv
<1>3. Stop(k) = d
  BY DEF Stop
<1> HIDE DEF q
<1>4. d \in Connection
  BY <1>2 DEF Connection, SocketState
<1>5. QED
  BY <1>1, <1>2, <1>3, <1>4, PipeliningAssumption
     DEF ConnInv, Connection, Quiet, Balanced, BalancedAtStop
--------------------------------------------------------------------------------
(* Which fields the senders change, for the properties about one of them *)

\* A batch that fits goes out whole on a working socket.
LEMMA SendFields ==
    ASSUME NEW k \in Connection, NEW n \in Nat, NEW run \in BOOLEAN, NEW acc \in BOOLEAN,
           k.inFlight + n <= Pipelining
    PROVE  LET q == Send(k, n, run, acc)
           IN  /\ q.connected = k.connected /\ q.failed = k.failed /\ q.pending = k.pending
               /\ k.connected /\ k.sock # "none" => q.inFlight = k.inFlight + n
<1> DEFINE f == k.inFlight + n
           t == k.sent + Recorded(run, n)
           q == [k EXCEPT !.inFlight = f, !.sent = t]
           b == [q EXCEPT !.backpressured = TRUE, !.measured = run, !.events = @ + If1(run)]
<1>1. k.inFlight \in Nat /\ f \in Nat /\ ~(f > Pipelining) /\ (n = 0 => f = k.inFlight)
  <2>1. k.inFlight \in Nat
    BY DEF Connection
  <2>2. QED
    BY <2>1, PipeliningAssumption
<1>2. Send(k, n, run, acc) =
        IF k.sock = "none" \/ ~k.connected \/ n = 0 THEN k
        ELSE IF acc /\ k.sock = "open" THEN q ELSE BeginBackpressure(q, run)
  BY <1>1, Zenon DEF Send
<1>3. BeginBackpressure(q, run) \in {q, b}
  BY DEF BeginBackpressure
<1> HIDE DEF f, t
<1>4. /\ q.connected = k.connected /\ q.failed = k.failed /\ q.pending = k.pending
      /\ q.inFlight = f
      /\ b.connected = k.connected /\ b.failed = k.failed /\ b.pending = k.pending
      /\ b.inFlight = f
  BY DEF Connection
<1> HIDE DEF q, b
<1>5. QED
  BY <1>1, <1>2, <1>3, <1>4 DEF f

\* What a closed loop asks for is in flight afterwards, or waits for 'drain'.
LEMMA ReplenishFields ==
    ASSUME NEW k \in Connection, NEW n \in Nat, NEW run \in BOOLEAN, NEW acc \in BOOLEAN,
           k.inFlight + n <= Pipelining
    PROVE  LET q == Replenish(k, n, run, acc)
           IN  /\ q.connected = k.connected /\ q.failed = k.failed
               /\ ClosedLoopActive(run) /\ k.connected /\ k.sock # "none" =>
                     q.inFlight + q.pending = k.inFlight + k.pending + n
<1>0. k.inFlight \in Nat /\ k.pending \in Nat
  BY DEF Connection
<1>1. CASE ~ClosedLoopActive(run) \/ n = 0
  BY <1>0, <1>1 DEF Replenish
<1>2. CASE ClosedLoopActive(run) /\ n # 0 /\ k.backpressured
  <2> DEFINE p == k.pending + n
             q == [k EXCEPT !.pending = p]
  <2>1. Replenish(k, n, run, acc) = q
    BY <1>2 DEF Replenish
  <2>2. k.inFlight + p = k.inFlight + k.pending + n
    BY <1>0
  <2> HIDE DEF p
  <2>3. q.connected = k.connected /\ q.failed = k.failed /\ q.inFlight = k.inFlight /\ q.pending = p
    BY DEF Connection
  <2> HIDE DEF q
  <2>4. QED
    BY <2>1, <2>2, <2>3
<1>3. CASE ClosedLoopActive(run) /\ n # 0 /\ ~k.backpressured
  <2>1. Replenish(k, n, run, acc) = Send(k, n, run, acc)
    BY <1>3 DEF Replenish
  <2>2. k.inFlight + n + k.pending = k.inFlight + k.pending + n
    BY <1>0
  <2> DEFINE q == Send(k, n, run, acc)
  <2>3. /\ q.connected = k.connected /\ q.failed = k.failed /\ q.pending = k.pending
        /\ k.connected /\ k.sock # "none" => q.inFlight = k.inFlight + n
    BY SendFields
  <2> HIDE DEF q
  <2>4. QED
    BY <2>1, <2>2, <2>3 DEF q
<1>4. QED
  BY <1>1, <1>2, <1>3

--------------------------------------------------------------------------------
\* A working connection has its pipeline full.
FullPipe(k) == k.connected /\ ~k.failed => k.inFlight + k.pending = Pipelining

\* An empty pipeline is filled whole, whatever the socket answers.
LEMMA FillFull ==
    ASSUME NEW k, ConnInv(k), Quiet(k), k.connected => k.sock # "none",
           NEW run \in BOOLEAN, ClosedLoopActive(run), NEW acc \in BOOLEAN
    PROVE  FullPipe(FillClosedLoop(k, run, acc))
<1>1. k \in Connection /\ k.inFlight = 0 /\ k.pending = 0
  BY DEF ConnInv, Quiet
<1>2. CASE ~k.connected
  BY <1>2 DEF FillClosedLoop, FullPipe
<1>3. CASE k.connected
  <2>1. FillClosedLoop(k, run, acc) = Replenish(k, Pipelining, run, acc)
    BY <1>1, <1>3 DEF FillClosedLoop
  <2>2. Pipelining \in Nat /\ k.inFlight + Pipelining <= Pipelining
        /\ k.inFlight + k.pending + Pipelining = Pipelining
    BY <1>1, PipeliningAssumption
  <2> DEFINE q == Replenish(k, Pipelining, run, acc)
  <2>3. q.inFlight + q.pending = k.inFlight + k.pending + Pipelining
    BY <1>1, <1>3, <2>2, ReplenishFields
  <2> HIDE DEF q
  <2>4. QED
    BY <2>1, <2>2, <2>3 DEF q, FullPipe
<1>4. QED
  BY <1>2, <1>3

\* A socket that connects while the loop runs starts with a full pipeline.
LEMMA ConnectedFull ==
    ASSUME NEW k, ConnInv(k), k.sock = "opening",
           NEW run \in BOOLEAN, ClosedLoopActive(run), NEW acc \in BOOLEAN
    PROVE  FullPipe(Connected(k, run, acc))
<1> DEFINE q == [k EXCEPT !.sock = "open", !.connected = TRUE, !.reconnect = FALSE]
<1>1. k \in Connection
  BY DEF ConnInv
<1>2. q \in Connection
  BY <1>1 DEF Connection, SocketState
<1>3. ConnInv(q) /\ Quiet(q) /\ q.sock # "none"
  BY <1>1, <1>2 DEF ConnInv, Connection, Quiet
<1>4. Connected(k, run, acc) = FillClosedLoop(q, run, acc)
  BY DEF Connected
<1> HIDE DEF q
<1>5. QED
  BY <1>3, <1>4, FillFull

\* Every response that comes in time is replaced, backpressure or not.
LEMMA DataFull ==
    ASSUME NEW k, ConnInv(k), k.sock = "open", FullPipe(k), NEW n \in 0 .. k.inFlight,
           NEW tail, NEW run \in BOOLEAN, ClosedLoopActive(run), NEW acc \in BOOLEAN
    PROVE  FullPipe(Data(k, n, tail, n, run, acc))
<1> DEFINE a == Answer(k, n, run)
           q == Replenish(a, n, run, acc)
<1>1. k \in Connection /\ k.inFlight \in Nat /\ k.pending \in Nat /\ n \in Nat /\ n <= k.inFlight
  <2>1. k \in Connection
    BY DEF ConnInv
  <2>2. k.inFlight \in Nat /\ k.pending \in Nat
    BY <2>1 DEF Connection
  <2>3. QED
    BY <2>1, <2>2
<1>2. /\ ConnInv(a) /\ a.inFlight = k.inFlight - n /\ a.pending = k.pending /\ a.sock = "open"
  BY AnswerInv
<1>3. a.connected = k.connected /\ a.failed = k.failed
  <2> DEFINE f == k.inFlight - n
             t == k.completed + Recorded(run, n)
  <2> HIDE DEF f, t
  <2>1. Answer(k, n, run) = [k EXCEPT !.inFlight = f, !.completed = t]
    BY DEF Answer, f, t
  <2>2. QED
    BY <1>1, <2>1 DEF Connection
<1>4. a \in Connection /\ a.inFlight + n <= Pipelining
      /\ a.inFlight + a.pending + n = k.inFlight + k.pending
  <2>1. k.inFlight + k.pending <= Pipelining
    BY DEF ConnInv
  <2>2. QED
    BY <1>1, <1>2, <2>1, PipeliningAssumption DEF ConnInv
<1> HIDE DEF a
<1>5. /\ q.connected = a.connected /\ q.failed = a.failed
      /\ a.connected => q.inFlight + q.pending = a.inFlight + a.pending + n
  BY <1>1, <1>2, <1>4, ReplenishFields
<1> HIDE DEF q
<1>6. FullPipe(q)
  BY <1>3, <1>4, <1>5 DEF FullPipe
<1>7. \A x \in Connection : FullPipe(Destroy(x))
  BY DEF FullPipe, Destroy, Connection
<1>8. CASE tail = "malformed"
  BY <1>4, <1>7, <1>8 DEF Data, a
<1>9. CASE tail = "surplus"
  <2> DEFINE d == Destroy(a)
             p == Replenish(d, n, run, acc)
  <2>1. d \in Connection /\ d.failed /\ d.inFlight = a.inFlight
    BY <1>4 DEF Destroy, Connection, SocketState
  <2> HIDE DEF d
  <2>2. p.failed
    BY <1>1, <1>4, <2>1, ReplenishFields
  <2>3. p \in Connection
    <3>1. ConnInv(d)
      BY <1>2, DestroyInv DEF d
    <3>2. d.inFlight + d.pending + n <= Pipelining
      <4>1. d.pending = a.pending
        BY <1>2, DestroyInv DEF d
      <4>2. QED
        BY <1>1, <1>2, <1>4, <2>1, <4>1, PipeliningAssumption DEF ConnInv
    <3>3. QED
      BY <1>1, <3>1, <3>2, ReplenishInv DEF ConnInv
  <2>4. Data(k, n, tail, n, run, acc) \in {p, Destroy(p)}
    BY <1>9 DEF Data, a, d
  <2> HIDE DEF p
  <2>5. QED
    BY <1>7, <2>2, <2>3, <2>4 DEF FullPipe
<1>10. CASE tail \notin {"malformed", "surplus"}
  <2>1. Data(k, n, tail, n, run, acc) = IF q.threw THEN Destroy(q) ELSE q
    BY <1>10 DEF Data, a, q
  <2>2. q \in Connection
    <3>1. a.inFlight + a.pending + n <= Pipelining
      BY <1>4 DEF ConnInv
    <3>2. QED
      BY <1>1, <1>2, <3>1, ReplenishInv DEF ConnInv, q
  <2>3. QED
    BY <1>6, <1>7, <2>1, <2>2
<1>11. QED
  BY <1>8, <1>9, <1>10

\* 'drain' puts in flight exactly what was waiting.
LEMMA DrainFull ==
    ASSUME NEW k, ConnInv(k), k.sock = "open", FullPipe(k),
           NEW run \in BOOLEAN, ClosedLoopActive(run), NEW acc \in BOOLEAN
    PROVE  FullPipe(Drain(k, run, acc))
<1> DEFINE q == FinishBackpressure(k)
           e == [q EXCEPT !.pending = 0]
<1>1. k \in Connection /\ k.inFlight \in Nat /\ k.pending \in Nat
      /\ k.inFlight + k.pending <= Pipelining
  BY DEF ConnInv, Connection
<1>2. q \in Connection /\ q.inFlight = k.inFlight /\ q.pending = k.pending
      /\ q.connected = k.connected /\ q.failed = k.failed /\ q.sock = "open"
  <2>1. q \in Connection
    BY FinishBackpressureInv DEF ConnInv
  <2>2. QED
    BY <1>1, <2>1 DEF FinishBackpressure, Connection
<1>3. CASE ~k.backpressured
  BY <1>3 DEF Drain
<1>4. CASE k.backpressured /\ k.pending = 0
  BY <1>1, <1>2, <1>4 DEF Drain, FullPipe
<1>5. CASE k.backpressured /\ k.pending # 0
  <2>1. Drain(k, run, acc) = Send(e, k.pending, run, acc)
    BY <1>1, <1>5 DEF Drain
  <2> HIDE DEF q
  <2>2. /\ e \in Connection /\ e.inFlight = k.inFlight /\ e.pending = 0
        /\ e.connected = k.connected /\ e.failed = k.failed /\ e.sock = "open"
    BY <1>2 DEF Connection
  <2>3. e.inFlight + k.pending <= Pipelining
    BY <1>1, <2>2
  <2> HIDE DEF e
  <2> DEFINE p == Send(e, k.pending, run, acc)
  <2>4. /\ p.connected = e.connected /\ p.failed = e.failed /\ p.pending = e.pending
        /\ e.connected => p.inFlight = e.inFlight + k.pending
    BY <1>1, <2>2, <2>3, SendFields
  <2> HIDE DEF p
  <2>5. FullPipe(p)
    BY <1>1, <2>2, <2>4 DEF FullPipe
  <2>6. QED
    BY <2>1, <2>5 DEF p
<1>6. QED
  BY <1>3, <1>4, <1>5
--------------------------------------------------------------------------------
\* Every backpressure event has its wait recorded, but for the episode that runs.
WaitsKept(k) == k.waits + If1(k.backpressured /\ k.measured) >= k.events

\* Beginning an episode counts its event, ending it records its wait.
LEMMA EpisodeWaits ==
    ASSUME NEW k \in Connection, WaitsKept(k), NEW run \in BOOLEAN
    PROVE  /\ WaitsKept(BeginBackpressure(k, run))
           /\ WaitsKept(FinishBackpressure(k))
<1>1. k.waits \in Nat /\ k.events \in Nat /\ k.backpressured \in BOOLEAN /\ k.measured \in BOOLEAN
  BY DEF Connection
<1>2. WaitsKept(BeginBackpressure(k, run))
  <2>1. CASE k.backpressured
    BY <2>1 DEF BeginBackpressure
  <2>2. CASE ~k.backpressured
    <3> DEFINE e == k.events + If1(run)
               q == [k EXCEPT !.backpressured = TRUE, !.measured = run, !.events = e]
    <3>1. BeginBackpressure(k, run) = q
      BY <2>2 DEF BeginBackpressure
    <3>2. k.waits + If1(run) >= e
      BY <1>1, <2>2 DEF WaitsKept, If1
    <3> HIDE DEF e
    <3>3. q.waits = k.waits /\ q.backpressured = TRUE /\ q.measured = run /\ q.events = e
      BY DEF Connection
    <3> HIDE DEF q
    <3>4. QED
      BY <3>1, <3>2, <3>3 DEF WaitsKept
  <2>3. QED
    BY <2>1, <2>2
<1>3. WaitsKept(FinishBackpressure(k))
  <2> DEFINE w == k.waits + If1(k.backpressured /\ k.measured)
             q == [k EXCEPT !.waits = w, !.backpressured = FALSE, !.measured = FALSE]
  <2>1. FinishBackpressure(k) = q
    BY DEF FinishBackpressure
  <2>2. w \in Nat /\ w >= k.events
    BY <1>1 DEF WaitsKept, If1
  <2> HIDE DEF w
  <2>3. q.waits = w /\ q.backpressured = FALSE /\ q.events = k.events
    BY DEF Connection
  <2> HIDE DEF q
  <2>4. w + If1(FALSE /\ q.measured) >= k.events
    BY <1>1, <2>2 DEF If1
  <2>5. QED
    BY <2>1, <2>3, <2>4 DEF WaitsKept
<1>4. QED
  BY <1>2, <1>3

\* The senders open episodes, and do nothing else to the waits.
LEMMA SendWaits ==
    ASSUME NEW k \in Connection, WaitsKept(k), NEW n \in Nat, NEW run \in BOOLEAN,
           NEW acc \in BOOLEAN
    PROVE  /\ WaitsKept(Send(k, n, run, acc))
           /\ WaitsKept(Replenish(k, n, run, acc))
<1> DEFINE f == k.inFlight + n
           t == k.sent + Recorded(run, n)
           p == k.pending + n
           q == [k EXCEPT !.inFlight = f, !.sent = t]
           o == [k EXCEPT !.threw = TRUE]
           h == [k EXCEPT !.pending = p]
<1>1. f \in Nat /\ t \in Nat /\ p \in Nat
  <2>1. k.inFlight \in Nat /\ k.sent \in Nat /\ k.pending \in Nat
    BY DEF Connection
  <2>2. t \in Nat
    BY <2>1, CounterType
  <2>3. QED
    BY <2>1, <2>2
<1>2. Send(k, n, run, acc) \in {k, o, q, BeginBackpressure(q, run)}
  BY DEF Send
<1>3. Replenish(k, n, run, acc) \in {k, h, Send(k, n, run, acc)}
  BY DEF Replenish
<1> HIDE DEF f, t, p
<1>4. q \in Connection
  BY <1>1 DEF Connection
<1>5. WaitsKept(q) /\ WaitsKept(o) /\ WaitsKept(h)
  BY DEF WaitsKept, Connection
<1> HIDE DEF q, o, h
<1>6. WaitsKept(BeginBackpressure(q, run))
  BY <1>4, <1>5, EpisodeWaits
<1>7. QED
  BY <1>2, <1>3, <1>5, <1>6

\* So do the fill of a pipeline and a socket that connects.
LEMMA FillWaits ==
    ASSUME NEW k \in Connection, WaitsKept(k), NEW run \in BOOLEAN, NEW acc \in BOOLEAN
    PROVE  /\ WaitsKept(FillClosedLoop(k, run, acc))
           /\ WaitsKept(Connected(k, run, acc))
<1> DEFINE q == [k EXCEPT !.sock = "open", !.connected = TRUE, !.reconnect = FALSE]
<1>1. q \in Connection /\ WaitsKept(q)
  BY DEF Connection, SocketState, WaitsKept
<1>2. Connected(k, run, acc) = FillClosedLoop(q, run, acc)
  BY DEF Connected
<1> HIDE DEF q
<1>3. \A x \in Connection : WaitsKept(x) => WaitsKept(FillClosedLoop(x, run, acc))
  BY SendWaits, PipeliningAssumption DEF FillClosedLoop
<1>4. QED
  BY <1>1, <1>2, <1>3

\* A chunk of responses, whatever it holds, loses no wait.
LEMMA DataWaits ==
    ASSUME NEW k, ConnInv(k), WaitsKept(k), k.sock = "open", NEW n \in 0 .. k.inFlight,
           NEW r \in 0 .. n, NEW tail, NEW run \in BOOLEAN, NEW acc \in BOOLEAN
    PROVE  WaitsKept(Data(k, n, tail, r, run, acc))
<1> DEFINE a == Answer(k, n, run)
           d == Destroy(a)
           ar == Replenish(a, r, run, acc)
           dr == Replenish(d, r, run, acc)
<1>1. k \in Connection /\ k.inFlight \in Nat /\ r \in Nat
  <2>1. k \in Connection
    BY DEF ConnInv
  <2>2. k.inFlight \in Nat
    BY <2>1 DEF Connection
  <2>3. QED
    BY <2>1, <2>2
<1>2. ConnInv(a) /\ a.sock = "open" /\ a.inFlight = k.inFlight - n /\ a.pending = k.pending
  BY AnswerInv
<1>3. WaitsKept(a)
  <2> DEFINE f == k.inFlight - n
             t == k.completed + Recorded(run, n)
  <2> HIDE DEF f, t
  <2>1. Answer(k, n, run) = [k EXCEPT !.inFlight = f, !.completed = t]
    BY DEF Answer, f, t
  <2>2. QED
    BY <1>1, <2>1 DEF Connection, WaitsKept
<1> HIDE DEF a
<1>4. a.inFlight + a.pending + r <= Pipelining
  <2>1. k.pending \in Nat /\ k.inFlight + k.pending <= Pipelining
    BY DEF ConnInv, Connection
  <2>2. QED
    BY <1>1, <1>2, <2>1, PipeliningAssumption
<1>5. \A x \in Connection : WaitsKept(x) => WaitsKept(Destroy(x))
  BY DEF WaitsKept, Destroy, Connection
<1>6. ConnInv(d) /\ WaitsKept(d) /\ d.inFlight + d.pending + r <= Pipelining
  <2>1. a \in Connection
    BY <1>2 DEF ConnInv
  <2>2. QED
    BY <1>2, <1>3, <1>4, <1>5, <2>1, DestroyInv
<1> HIDE DEF d
<1>7. WaitsKept(ar) /\ WaitsKept(dr) /\ ConnInv(ar) /\ ConnInv(dr)
  <2>1. a \in Connection /\ d \in Connection
    BY <1>2, <1>6 DEF ConnInv
  <2>2. WaitsKept(ar) /\ WaitsKept(dr)
    BY <1>1, <1>3, <1>6, <2>1, SendWaits
  <2>3. ConnInv(ar) /\ ConnInv(dr)
    BY <1>1, <1>2, <1>4, <1>6, ReplenishInv
  <2>4. QED
    BY <2>2, <2>3
<1> HIDE DEF ar, dr
<1>8. Data(k, n, tail, r, run, acc) \in {d, ar, dr, Destroy(ar), Destroy(dr)}
  BY DEF Data, a, d, ar, dr
<1>9. QED
  BY <1>5, <1>6, <1>7, <1>8 DEF ConnInv

\* Neither does the end of an episode, by 'drain', by 'close' or by stop().
LEMMA FinishWaits ==
    ASSUME NEW k, ConnInv(k), WaitsKept(k), NEW run \in BOOLEAN, NEW acc \in BOOLEAN
    PROVE  /\ WaitsKept(Drain(k, run, acc))
           /\ WaitsKept(Closed(k, run))
           /\ WaitsKept(Stop(k))
<1> DEFINE q == FinishBackpressure(k)
           e == [q EXCEPT !.pending = 0]
<1>1. k \in Connection /\ q \in Connection
  BY FinishBackpressureInv DEF ConnInv
<1>2. WaitsKept(q)
  BY <1>1, EpisodeWaits
<1>3. Drain(k, run, acc) \in {k, q, Send(e, k.pending, run, acc)}
  BY DEF Drain
<1>4. k.pending \in Nat
  BY <1>1 DEF Connection
<1>5. WaitsKept(Closed(k, run))
  <2> DEFINE z == q.aborted + Recorded(run, k.inFlight)
  <2>1. Closed(k, run) =
          [q EXCEPT !.sock = "none", !.connected = FALSE, !.reconnect = TRUE,
                    !.failed = FALSE, !.aborted = z, !.inFlight = 0, !.pending = 0]
    BY DEF Closed
  <2> HIDE DEF z, q
  <2>2. QED
    BY <1>1, <1>2, <2>1 DEF WaitsKept, Connection
<1>6. WaitsKept(Stop(k))
  <2>1. Stop(k) = [q EXCEPT !.atStop = k.inFlight, !.sock = "none", !.inFlight = 0, !.pending = 0]
    BY DEF Stop
  <2> HIDE DEF q
  <2>2. QED
    BY <1>1, <1>2, <2>1 DEF WaitsKept, Connection
<1> HIDE DEF q
<1>7. e \in Connection /\ WaitsKept(e)
  BY <1>1, <1>2 DEF WaitsKept, Connection
<1> HIDE DEF e
<1>8. WaitsKept(Send(e, k.pending, run, acc))
  BY <1>4, <1>7, SendWaits
<1>9. QED
  BY <1>2, <1>3, <1>5, <1>6, <1>8

\* What does not touch the bookkeeping of backpressure, or restarts it from zero.
LEMMA OtherWaits ==
    ASSUME NEW k \in Connection, WaitsKept(k), NEW b \in BOOLEAN, NEW sk
    PROVE  /\ WaitsKept(Destroy(k))
           /\ WaitsKept([k EXCEPT !.sock = sk])
           /\ WaitsKept(Reconnect(k, b))
           /\ WaitsKept(ResetPhaseState(k))
           /\ WaitsKept(ResetCounters(k))
<1>1. WaitsKept(Reconnect(k, b))
  <2> DEFINE s == IF b THEN k.sock ELSE "opening"
  <2> HIDE DEF s
  <2>1. Reconnect(k, b) = [k EXCEPT !.reconnect = FALSE, !.sock = s]
    BY DEF Reconnect, s
  <2>2. QED
    BY <2>1 DEF WaitsKept, Connection
<1>2. WaitsKept(ResetCounters(k))
  <2> DEFINE q == ResetCounters(k)
  <2>1. q.waits = 0 /\ q.events = 0
    BY DEF ResetCounters, Connection
  <2> HIDE DEF q
  <2>2. 0 + If1(q.backpressured /\ q.measured) >= 0
    BY DEF If1
  <2>3. QED
    BY <2>1, <2>2 DEF WaitsKept, q
<1>3. QED
  BY <1>1, <1>2 DEF WaitsKept, Destroy, ResetPhaseState, Connection
--------------------------------------------------------------------------------
\* Sending never changes whether the connection is connected.
LEMMA SendConnected ==
    ASSUME NEW k \in Connection, NEW run \in BOOLEAN, NEW acc \in BOOLEAN
    PROVE  /\ \A n : Send(k, n, run, acc).connected = k.connected
           /\ \A n : Replenish(k, n, run, acc).connected = k.connected
           /\ FillClosedLoop(k, run, acc).connected = k.connected
<1>1. ASSUME NEW n
      PROVE  Send(k, n, run, acc).connected = k.connected
  <2> DEFINE f == k.inFlight + n
             t == k.sent + Recorded(run, n)
             q == [k EXCEPT !.inFlight = f, !.sent = t]
             b == [q EXCEPT !.backpressured = TRUE, !.measured = run, !.events = @ + If1(run)]
             o == [k EXCEPT !.threw = TRUE]
  <2>1. Send(k, n, run, acc) \in {k, o, q, BeginBackpressure(q, run)}
    BY DEF Send
  <2>2. BeginBackpressure(q, run) \in {q, b}
    BY DEF BeginBackpressure
  <2> HIDE DEF f, t
  <2>3. q.connected = k.connected /\ o.connected = k.connected /\ b.connected = k.connected
    BY DEF Connection
  <2> HIDE DEF q, b, o
  <2>4. QED
    BY <2>1, <2>2, <2>3
<1>2. ASSUME NEW n
      PROVE  Replenish(k, n, run, acc).connected = k.connected
  <2> DEFINE p == k.pending + n
             h == [k EXCEPT !.pending = p]
  <2>1. Replenish(k, n, run, acc) \in {k, h, Send(k, n, run, acc)}
    BY DEF Replenish
  <2> HIDE DEF p
  <2>2. h.connected = k.connected
    BY DEF Connection
  <2> HIDE DEF h
  <2>3. QED
    BY <1>1, <2>1, <2>2
<1>3. QED
  BY <1>1, <1>2 DEF FillClosedLoop

\* Only a socket that connects and one that closes change it.
LEMMA HandlersConnected ==
    ASSUME NEW k, ConnInv(k), NEW run \in BOOLEAN, NEW acc \in BOOLEAN
    PROVE  /\ Connected(k, run, acc).connected
           /\ ~Closed(k, run).connected
           /\ Drain(k, run, acc).connected = k.connected
           /\ k.sock = "open" => \A n \in 0 .. k.inFlight : \A r, tail :
                 Data(k, n, tail, r, run, acc).connected = k.connected
<1>1. k \in Connection
  BY DEF ConnInv
<1>2. Connected(k, run, acc).connected
  <2> DEFINE q == [k EXCEPT !.sock = "open", !.connected = TRUE, !.reconnect = FALSE]
  <2>1. q \in Connection /\ q.connected
    BY <1>1 DEF Connection, SocketState
  <2>2. Connected(k, run, acc) = FillClosedLoop(q, run, acc)
    BY DEF Connected
  <2> HIDE DEF q
  <2>3. QED
    BY <2>1, <2>2, SendConnected
<1> DEFINE q == FinishBackpressure(k)
<1>3. q \in Connection /\ q.connected = k.connected
  <2> DEFINE w == k.waits + If1(k.backpressured /\ k.measured)
  <2>1. q \in Connection
    BY FinishBackpressureInv DEF ConnInv
  <2>2. q = [k EXCEPT !.waits = w, !.backpressured = FALSE, !.measured = FALSE]
    BY DEF FinishBackpressure
  <2> HIDE DEF w, q
  <2>3. QED
    BY <1>1, <2>1, <2>2 DEF Connection
<1>4. ~Closed(k, run).connected
  <2> DEFINE z == q.aborted + Recorded(run, k.inFlight)
  <2>1. Closed(k, run) =
          [q EXCEPT !.sock = "none", !.connected = FALSE, !.reconnect = TRUE,
                    !.failed = FALSE, !.aborted = z, !.inFlight = 0, !.pending = 0]
    BY DEF Closed
  <2> HIDE DEF z, q
  <2>2. QED
    BY <1>3, <2>1 DEF Connection
<1>5. Drain(k, run, acc).connected = k.connected
  <2> DEFINE e == [q EXCEPT !.pending = 0]
  <2>1. Drain(k, run, acc) \in {k, q, Send(e, k.pending, run, acc)}
    BY DEF Drain
  <2> HIDE DEF q
  <2>2. e \in Connection /\ e.connected = k.connected
    BY <1>3 DEF Connection
  <2> HIDE DEF e
  <2>3. QED
    BY <1>3, <2>1, <2>2, SendConnected
<1>6. ASSUME NEW n \in 0 .. k.inFlight, NEW r, NEW tail, k.sock = "open"
      PROVE  Data(k, n, tail, r, run, acc).connected = k.connected
  <2> DEFINE a == Answer(k, n, run)
             d == Destroy(a)
             ar == Replenish(a, r, run, acc)
             dr == Replenish(d, r, run, acc)
  <2>1. a \in Connection
    BY AnswerInv DEF ConnInv
  <2>2. a.connected = k.connected
    <3> DEFINE f == k.inFlight - n
               t == k.completed + Recorded(run, n)
    <3>1. a = [k EXCEPT !.inFlight = f, !.completed = t]
      BY DEF Answer
    <3> HIDE DEF f, t, a
    <3>2. QED
      BY <1>1, <3>1 DEF Connection
  <2> HIDE DEF a
  <2>3. d \in Connection /\ d.connected = a.connected
    BY <2>1 DEF Destroy, Connection, SocketState
  <2> HIDE DEF d
  <2>4. ar.connected = a.connected /\ dr.connected = a.connected
    BY <2>1, <2>3, SendConnected
  <2>5. \A x : [x EXCEPT !.failed = TRUE, !.sock = "destroyed"].connected = x.connected
    OBVIOUS
  <2>6. QED
    BY <2>2, <2>3, <2>4, <2>5 DEF Data, a, d, ar, dr, Destroy
<1>7. QED
  BY <1>2, <1>4, <1>5, <1>6
--------------------------------------------------------------------------------
\* At a fixed rate no socket event sends: only the rate timer does.
LEMMA HandlersSent ==
    ASSUME FixedRate, NEW k \in Connection, NEW run \in BOOLEAN, NEW acc
    PROVE  /\ Connected(k, run, acc).sent = k.sent
           /\ Drain(k, run, acc).sent = k.sent
           /\ Closed(k, run).sent = k.sent
           /\ Destroy(k).sent = k.sent
           /\ \A s : [k EXCEPT !.sock = s].sent = k.sent
           /\ \A b : Reconnect(k, b).sent = k.sent
<1>1. ~ClosedLoopActive(run)
  BY DEF ClosedLoopActive
<1>2. Connected(k, run, acc).sent = k.sent
  BY <1>1 DEF Connected, FillClosedLoop, Connection
<1>3. FinishBackpressure(k).sent = k.sent /\ "sent" \in DOMAIN FinishBackpressure(k)
  BY DEF FinishBackpressure, Connection
<1>4. Drain(k, run, acc).sent = k.sent
  BY <1>1, <1>3 DEF Drain
<1>5. Closed(k, run).sent = k.sent
  <2> DEFINE a == k.aborted + Recorded(run, k.inFlight)
             w == k.waits + If1(k.backpressured /\ k.measured)
  <2>1. FinishBackpressure(k) =
           [k EXCEPT !.waits = w, !.backpressured = FALSE, !.measured = FALSE]
    BY DEF FinishBackpressure, Connection
  <2>2. FinishBackpressure(k).aborted = k.aborted
    BY <2>1 DEF Connection
  <2>3. Closed(k, run) = [FinishBackpressure(k) EXCEPT
           !.sock = "none", !.connected = FALSE, !.reconnect = TRUE, !.failed = FALSE,
           !.aborted = a, !.inFlight = 0, !.pending = 0]
    BY <2>2 DEF Closed
  <2> HIDE DEF a, w
  <2>4. QED
    BY <1>3, <2>3
<1>6. Destroy(k).sent = k.sent /\ \A s : [k EXCEPT !.sock = s].sent = k.sent
  BY DEF Destroy, Connection
<1>7. ASSUME NEW b
      PROVE  Reconnect(k, b).sent = k.sent
  BY DEF Reconnect, Connection
<1>8. QED
  BY <1>2, <1>4, <1>5, <1>6, <1>7

\* Nor does a chunk of responses.
LEMMA DataSent ==
    ASSUME NEW run, ~ClosedLoopActive(run), NEW k \in Connection, NEW acc,
           NEW n, NEW r, NEW tail
    PROVE  Data(k, n, tail, r, run, acc).sent = k.sent
<1> DEFINE i == k.inFlight - n
           d == k.completed + Recorded(run, n)
           q == [k EXCEPT !.inFlight = i, !.completed = d]
           p == [q EXCEPT !.failed = TRUE, !.sock = "destroyed"]
           pp == [p EXCEPT !.failed = TRUE, !.sock = "destroyed"]
<1>1. Answer(k, n, run) = q
  BY DEF Answer
<1> HIDE DEF i, d
<1>2. q.sent = k.sent /\ p.sent = k.sent /\ pp.sent = k.sent
  BY DEF Connection
<1> HIDE DEF q
<1>3. Destroy(q) = p /\ Destroy(p) = pp
  BY DEF Destroy
<1> HIDE DEF p, pp
<1>4. Data(k, n, tail, r, run, acc) \in {q, p, pp}
  BY <1>1, <1>3 DEF Data, Replenish
<1>5. QED
  BY <1>2, <1>4

\* A connection that has the capacity for a batch counts all of it as sent.
LEMMA BatchSent ==
    ASSUME NEW k, ConnInv(k), Recovering(k), NEW n \in Nat, NEW run \in BOOLEAN,
           n <= Capacity(k, run), run, NEW acc
    PROVE  Send(k, n, run, acc).sent = k.sent + n
<1>1. k \in Connection
  BY DEF ConnInv
<1>2. CASE n = 0
  BY <1>1, <1>2 DEF Send, Connection
<1>3. CASE n # 0
  <2>1. k.connected /\ ~k.backpressured /\ n <= Pipelining - k.inFlight
    BY <1>3 DEF Capacity, CanScheduleOperation
  <2>2. k.inFlight \in Nat /\ k.sent \in Nat /\ ~(k.inFlight + n > Pipelining)
    BY <1>1, <2>1, PipeliningAssumption DEF Connection
  <2>3. k.sock # "none"
    BY <2>1 DEF Recovering
  <2> DEFINE f == k.inFlight + n
             t == k.sent + n
             q == [k EXCEPT !.inFlight = f, !.sent = t]
             b == [q EXCEPT !.backpressured = TRUE, !.measured = run, !.events = @ + If1(run)]
  <2>4. Send(k, n, run, acc) \in {q, BeginBackpressure(q, run)}
    BY <1>3, <2>1, <2>2, <2>3 DEF Send, Recorded
  <2>5. BeginBackpressure(q, run) \in {q, b}
    BY DEF BeginBackpressure
  <2> HIDE DEF f, t
  <2>6. q.sent = t /\ b.sent = t
    BY <1>1 DEF Connection
  <2> HIDE DEF q, b
  <2>7. QED
    BY <2>4, <2>5, <2>6 DEF t
<1>4. QED
  BY <1>2, <1>3
--------------------------------------------------------------------------------
(* The worker: its handlers, one by one. *)

\* The phase, the #running flag and the posted messages go together.
PhaseInv ==
    /\ phase \in Phase
    /\ running <=> phase \in {"warmup", "measurement"}
    /\ phase = "idle" => posted \in {<<>>, Ready, WarmedUp}
    /\ phase \in {"warmup", "warmup-draining"} => posted = Ready
    /\ phase = "measurement" => posted \in {Ready, WarmedUp}
    /\ phase = "finished" =>
          posted \in {<<"fatal">>, Append(Ready, "result"), Append(WarmedUp, "result")}

\* What a connection may owe, and be counted for, in each phase.
Ledger(k, run, ph, msgs) ==
    /\ ConnInv(k)
    /\ run => Balanced(k)
    /\ ph = "idle" => Quiet(k)
    /\ ph # "finished" => Recovering(k)
    /\ ph = "finished" => k.sock = "none"
    /\ ph = "finished" /\ msgs # <<"fatal">> => BalancedAtStop(k)

\* Every connection keeps its ledger.
LedgerInv == \A c \in Conns : Ledger(conn[c], running, phase, posted)

\* The inductive invariant.
IInv == TypeOK /\ PhaseInv /\ LedgerInv
--------------------------------------------------------------------------------
\* What a worker posts.
Message == {"ready", "warmup-complete", "result", "fatal"}

\* The histories of messages a worker can have posted.
LEMMA PostedValues ==
    /\ <<>> \in Seq(Message) /\ <<"fatal">> \in Seq(Message)
    /\ Ready \in Seq(Message) /\ WarmedUp \in Seq(Message)
    /\ Append(Ready, "result") \in Seq(Message)
    /\ Append(WarmedUp, "result") \in Seq(Message)
    /\ Append(<<>>, "ready") = Ready
    /\ \A s \in {Ready, WarmedUp, <<"fatal">>, Append(Ready, "result"), Append(WarmedUp, "result")} :
          s # <<>>
<1>1. <<>> \in Seq(Message) /\ <<"fatal">> \in Seq(Message)
  BY DEF Message
<1>2. Ready \in Seq(Message)
  BY DEF Ready, Message
<1>3. "warmup-complete" \in Message /\ "result" \in Message
  BY DEF Message
<1>4. WarmedUp \in Seq(Message)
  BY <1>2, <1>3 DEF WarmedUp
<1>5. Append(Ready, "result") \in Seq(Message) /\ Append(WarmedUp, "result") \in Seq(Message)
  BY <1>2, <1>3, <1>4
<1>6. Append(<<>>, "ready") = Ready
  BY DEF Ready
<1>7. Ready # <<>> /\ <<"fatal">> # <<>>
  BY DEF Ready
<1>8. WarmedUp # <<>> /\ Append(Ready, "result") # <<>> /\ Append(WarmedUp, "result") # <<>>
  BY <1>2, <1>3, <1>4, AppendProperties DEF WarmedUp
<1>9. QED
  BY <1>1, <1>2, <1>4, <1>5, <1>6, <1>7, <1>8

\* Before the worker has finished, no message in its history is a result.
LEMMA NoResultYet ==
    \A s \in {<<>>, Ready, WarmedUp, <<"fatal">>} : "result" \notin Range(s)
<1>1. "result" \notin Range(<<>>)
  BY DEF Range
<1>2. "result" \notin Range(Ready)
  BY DEF Range, Ready
<1>3. "result" \notin Range(WarmedUp)
  BY DEF Range, WarmedUp, Ready
<1>4. "result" \notin Range(<<"fatal">>)
  BY DEF Range
<1>5. QED
  BY <1>1, <1>2, <1>3, <1>4
--------------------------------------------------------------------------------
\* Fresh connections, or stopped ones, satisfy the inductive invariant.
LEMMA InitIInv == WorkerInit => IInv
<1> SUFFICES ASSUME WorkerInit
             PROVE  IInv
  OBVIOUS
<1>1. NewConnection \in Connection
  BY DEF NewConnection, Connection, SocketState
<1>2. ConnInv(NewConnection) /\ Balanced(NewConnection) /\ Quiet(NewConnection)
      /\ Recovering(NewConnection)
  BY <1>1, PipeliningAssumption DEF ConnInv, NewConnection, Balanced, Quiet, Recovering
<1>3. ConnInv(Stop(NewConnection)) /\ Stop(NewConnection).sock = "none"
  BY <1>2, StopInv
<1>4. Stop(NewConnection) \in Connection
  BY <1>3 DEF ConnInv
<1>5. CASE Init /\ conn = [c \in Conns |-> NewConnection]
  <2>1. phase = "idle" /\ posted = <<>> /\ running = FALSE
    BY <1>5 DEF WorkerInit, Init
  <2>2. TypeOK
    BY <1>1, <1>5, <2>1, PostedValues DEF WorkerInit, TypeOK, Phase, Message
  <2>3. PhaseInv
    BY <2>1 DEF PhaseInv, Phase
  <2>4. LedgerInv
    BY <1>2, <1>5, <2>1 DEF LedgerInv, Ledger
  <2>5. QED
    BY <2>2, <2>3, <2>4 DEF IInv
<1>6. CASE InitFailed /\ conn = [c \in Conns |-> Stop(NewConnection)]
  <2>1. phase = "finished" /\ posted = <<"fatal">> /\ running = FALSE
    BY <1>6 DEF WorkerInit, InitFailed
  <2>2. TypeOK
    BY <1>4, <1>6, <2>1, PostedValues DEF WorkerInit, TypeOK, Phase, Message
  <2>3. PhaseInv
    BY <2>1 DEF PhaseInv, Phase
  <2>4. LedgerInv
    BY <1>3, <1>6, <2>1 DEF LedgerInv, Ledger
  <2>5. QED
    BY <2>2, <2>3, <2>4 DEF IInv
<1>7. QED
  BY <1>5, <1>6 DEF WorkerInit

\* A handler that touches one connection and leaves the phase alone needs only
\* to keep that connection's ledger.
LEMMA OneConnection ==
    ASSUME IInv, NEW c \in Conns, NEW k, Becomes(c, k),
           UNCHANGED <<phase, running>>,
           posted' = posted \/ (posted = <<>> /\ posted' = Ready),
           Ledger(k, running, phase, posted),
           pastStop' \in BOOLEAN, connected' \in Nat, timeouts' \in Nat,
           scheduled' \in Nat, dropped' \in Nat
    PROVE  IInv'
<1>1. k \in Connection
  BY DEF Ledger, ConnInv
<1>2. conn \in [Conns -> Connection] /\ conn' = [conn EXCEPT ![c] = k]
  BY DEF IInv, TypeOK, Becomes
<1>3. conn' \in [Conns -> Connection]
  BY <1>1, <1>2
<1>4. \A d \in Conns : conn'[d] = IF d = c THEN k ELSE conn[d]
  BY <1>2
<1>5. posted = <<>> => phase = "idle"
  BY PostedValues DEF IInv, PhaseInv, Phase
<1>6. TypeOK'
  BY <1>3, PostedValues DEF IInv, TypeOK, Message
<1>7. PhaseInv'
  BY <1>5 DEF IInv, PhaseInv
<1>8. LedgerInv'
  <2>1. \A d \in Conns : Ledger(conn'[d], running, phase, posted)
    BY <1>4 DEF IInv, LedgerInv
  <2>2. QED
    BY <1>5, <2>1 DEF LedgerInv, Ledger
<1>9. QED
  BY <1>6, <1>7, <1>8 DEF IInv

\* A handler that ends with the check of the warmup's drain: conns is what it
\* leaves, and the check may complete the warmup.
LEMMA MaybeCompleteWarmupInv ==
    ASSUME IInv, NEW conns \in [Conns -> Connection],
           \A c \in Conns : Ledger(conns[c], running, phase, posted),
           MaybeCompleteWarmup(conns),
           UNCHANGED running,
           pastStop' \in BOOLEAN, connected' \in Nat, timeouts' \in Nat,
           scheduled' \in Nat, dropped' \in Nat
    PROVE  IInv'
<1>1. CASE phase = "warmup-draining" /\ Drained(conns)
  <2>1. /\ phase' = "idle" /\ posted' = WarmedUp /\ ~running
        /\ conn' = [c \in Conns |-> ResetPhaseState(conns[c])]
    BY <1>1 DEF MaybeCompleteWarmup, IInv, PhaseInv, WarmedUp
  <2>2. \A c \in Conns : Ledger(ResetPhaseState(conns[c]), running', phase', posted')
    <3> TAKE c \in Conns
    <3>1. ConnInv(conns[c]) /\ conns[c].inFlight = 0 /\ Recovering(conns[c])
      BY <1>1 DEF Drained, Ledger
    <3>2. QED
      BY <2>1, <3>1, ResetInv DEF Ledger
  <2>3. \A c \in Conns : ResetPhaseState(conns[c]) \in Connection
    BY <2>2 DEF Ledger, ConnInv
  <2>4. TypeOK'
    BY <2>1, <2>3, PostedValues DEF IInv, TypeOK, Phase, Message
  <2>5. PhaseInv'
    BY <2>1 DEF IInv, PhaseInv, Phase
  <2>6. LedgerInv'
    BY <2>1, <2>2 DEF LedgerInv
  <2>7. QED
    BY <2>4, <2>5, <2>6 DEF IInv
<1>2. CASE ~(phase = "warmup-draining" /\ Drained(conns))
  <2>1. conn' = conns /\ UNCHANGED <<phase, posted>>
    BY <1>2 DEF MaybeCompleteWarmup
  <2>2. QED
    BY <2>1 DEF IInv, TypeOK, PhaseInv, LedgerInv
<1>3. QED
  BY <1>1, <1>2
--------------------------------------------------------------------------------
\* A socket that connects starts loading; the last one reports 'ready'.
LEMMA ConnectStep ==
    ASSUME IInv, NEW c \in Conns, NEW acc \in BOOLEAN, Connect(c, acc)
    PROVE  IInv'
<1> DEFINE k == Connected(conn[c], running, acc)
<1>1. /\ conn[c].sock = "opening" /\ Becomes(c, k)
      /\ posted' = posted \/ (posted = <<>> /\ posted' = Ready)
      /\ connected' = connected + 1
      /\ UNCHANGED <<phase, running, pastStop, scheduled, dropped, timeouts>>
  BY PostedValues DEF Connect, timers
<1>2. Ledger(conn[c], running, phase, posted) /\ running \in BOOLEAN /\ phase # "finished"
  BY <1>1 DEF IInv, LedgerInv, TypeOK, Ledger
<1>3. phase = "idle" => ~running
  BY DEF IInv, PhaseInv
<1>4. Ledger(k, running, phase, posted)
  BY <1>1, <1>2, <1>3, ConnectedInv DEF Ledger
<1> HIDE DEF k
<1>5. QED
  BY <1>1, <1>4, OneConnection DEF IInv, TypeOK

\* A chunk of responses moves requests out of flight, and may complete the warmup.
LEMMA ReceiveStep ==
    ASSUME IInv, NEW c \in Conns, NEW n \in 0 .. Pipelining, NEW r \in 0 .. Pipelining,
           NEW tail \in ChunkTail, NEW acc \in BOOLEAN, Receive(c, n, tail, r, acc)
    PROVE  IInv'
<1> DEFINE k == Data(conn[c], n, tail, r, running, acc)
           conns == [conn EXCEPT ![c] = k]
<1>1. /\ conn[c].sock = "open" /\ n \in 0 .. conn[c].inFlight /\ r \in 0 .. n
      /\ MaybeCompleteWarmup(conns)
      /\ pastStop' = (pastStop \/ (ClosedLoopActive(running) /\ r < n))
      /\ UNCHANGED <<running, connected, timeouts, scheduled, dropped>>
  BY DEF Receive
<1>2. Ledger(conn[c], running, phase, posted) /\ running \in BOOLEAN /\ phase # "finished"
  BY <1>1 DEF IInv, LedgerInv, TypeOK, Ledger
<1>3. phase = "idle" => ~running
  BY DEF IInv, PhaseInv
<1>4. Ledger(k, running, phase, posted)
  BY <1>1, <1>2, <1>3, DataInv DEF Ledger
<1>5. k \in Connection
  BY <1>4 DEF Ledger, ConnInv
<1> HIDE DEF k
<1>6. conns \in [Conns -> Connection]
  BY <1>5 DEF IInv, TypeOK
<1>7. \A d \in Conns : Ledger(conns[d], running, phase, posted)
  BY <1>4 DEF IInv, TypeOK, LedgerInv
<1>8. pastStop' \in BOOLEAN
  BY <1>1
<1> HIDE DEF conns
<1>9. QED
  BY <1>1, <1>6, <1>7, <1>8, MaybeCompleteWarmupInv DEF IInv, TypeOK

\* 'drain' sends what a full socket held back, never more than fits.
LEMMA DrainStep ==
    ASSUME IInv, NEW c \in Conns, NEW acc \in BOOLEAN, SocketDrain(c, acc)
    PROVE  IInv'
<1> DEFINE k == Drain(conn[c], running, acc)
<1>1. /\ conn[c].sock = "open" /\ Becomes(c, k)
      /\ UNCHANGED <<phase, posted, running, connected, pastStop, scheduled, dropped, timeouts>>
  BY DEF SocketDrain, timers
<1>2. Ledger(conn[c], running, phase, posted) /\ running \in BOOLEAN /\ phase # "finished"
  BY <1>1 DEF IInv, LedgerInv, TypeOK, Ledger
<1>3. phase = "idle" => ~running
  BY DEF IInv, PhaseInv
<1>4. Ledger(k, running, phase, posted)
  BY <1>1, <1>2, <1>3, DrainInv DEF Ledger
<1> HIDE DEF k
<1>5. QED
  BY <1>1, <1>4, OneConnection DEF IInv, TypeOK

\* A timeout destroys the socket and leaves its requests for 'close'.
LEMMA TimeoutStep ==
    ASSUME IInv, NEW c \in Conns, Timeout(c)
    PROVE  IInv'
<1> DEFINE k == Destroy(conn[c])
<1>1. /\ conn[c].sock \in {"opening", "open", "ending"} /\ Becomes(c, k)
      /\ timeouts' = timeouts + If1(running)
      /\ UNCHANGED <<phase, posted, running, connected, pastStop, scheduled, dropped>>
  BY DEF Timeout, timers, LiveSocket
<1>2. Ledger(conn[c], running, phase, posted) /\ phase # "finished"
  BY <1>1 DEF IInv, LedgerInv, Ledger
<1>3. Ledger(k, running, phase, posted)
  BY <1>1, <1>2, DestroyInv DEF Ledger
<1>4. timeouts' \in Nat
  BY <1>1, CounterType DEF IInv, TypeOK
<1> HIDE DEF k
<1>5. QED
  BY <1>1, <1>3, <1>4, OneConnection DEF IInv, TypeOK

\* 'error' and the FIN of the server only change the state of the socket.
LEMMA SocketStateStep ==
    ASSUME IInv, NEW c \in Conns, SocketError(c) \/ RemoteEnd(c)
    PROVE  IInv'
<1>1. PICK sk \in {"ending", "destroyed"} :
          /\ conn[c].sock \in {"opening", "open", "ending"}
          /\ sk = "ending" => conn[c].sock = "open"
          /\ Becomes(c, [conn[c] EXCEPT !.sock = sk])
          /\ UNCHANGED <<phase, posted, running, connected, pastStop, scheduled, dropped, timeouts>>
  BY DEF SocketError, RemoteEnd, timers, LiveSocket
<1> DEFINE k == [conn[c] EXCEPT !.sock = sk]
<1>2. Ledger(conn[c], running, phase, posted) /\ phase # "finished"
  BY <1>1 DEF IInv, LedgerInv, Ledger
<1>3. conn[c] \in Connection
  BY <1>2 DEF Ledger, ConnInv
<1>4. k \in Connection
  BY <1>3 DEF Connection, SocketState
<1>5. Ledger(k, running, phase, posted)
  BY <1>1, <1>2, <1>3, <1>4 DEF Ledger, ConnInv, Connection, Balanced, Quiet, Recovering
<1> HIDE DEF k
<1>6. QED
  BY <1>1, <1>5, OneConnection DEF IInv, TypeOK, k

\* 'close' aborts what is in flight, schedules the reconnect, and may complete the
\* warmup.
LEMMA CloseStep ==
    ASSUME IInv, NEW c \in Conns, SocketClose(c)
    PROVE  IInv'
<1> DEFINE k == Closed(conn[c], running)
           conns == [conn EXCEPT ![c] = k]
<1>1. /\ conn[c].sock \in {"ending", "destroyed"} /\ MaybeCompleteWarmup(conns)
      /\ connected' = IF conn[c].connected /\ connected > 0 THEN connected - 1 ELSE connected
      /\ UNCHANGED <<running, pastStop, scheduled, dropped, timeouts>>
  BY DEF SocketClose, timers
<1>2. Ledger(conn[c], running, phase, posted) /\ running \in BOOLEAN /\ phase # "finished"
  BY <1>1 DEF IInv, LedgerInv, TypeOK, Ledger
<1>3. Ledger(k, running, phase, posted)
  BY <1>1, <1>2, ClosedInv DEF Ledger
<1>4. k \in Connection
  BY <1>3 DEF Ledger, ConnInv
<1> HIDE DEF k
<1>5. conns \in [Conns -> Connection]
  BY <1>4 DEF IInv, TypeOK
<1>6. \A d \in Conns : Ledger(conns[d], running, phase, posted)
  BY <1>3 DEF IInv, TypeOK, LedgerInv
<1>7. connected' \in Nat
  BY <1>1 DEF IInv, TypeOK
<1> HIDE DEF conns
<1>8. QED
  BY <1>1, <1>5, <1>6, <1>7, MaybeCompleteWarmupInv DEF IInv, TypeOK

\* The reconnect timer opens a socket for a connection that has none.
LEMMA ReconnectStep ==
    ASSUME IInv, NEW c \in Conns, ReconnectTimer(c)
    PROVE  IInv'
<1> DEFINE stopped == phase = "finished"
           k == Reconnect(conn[c], stopped)
<1>1. /\ conn[c].reconnect /\ Becomes(c, k)
      /\ UNCHANGED <<phase, posted, running, connected, pastStop, scheduled, dropped, timeouts>>
  BY DEF ReconnectTimer, timers
<1>2. Ledger(conn[c], running, phase, posted) /\ stopped \in BOOLEAN
  BY <1>1 DEF IInv, LedgerInv
<1>3. conn[c].sock = "none" /\ (~stopped => ~conn[c].connected)
  BY <1>1, <1>2 DEF Ledger, ConnInv, Recovering
<1>4. Ledger(k, running, phase, posted)
  BY <1>2, <1>3, ReconnectInv DEF Ledger
<1> HIDE DEF k
<1>5. QED
  BY <1>1, <1>4, OneConnection DEF IInv, TypeOK

\* A phase begins on connections that are quiet: the counters restart from zero
\* and a closed loop fills every pipeline.
LEMMA BeginPhaseStep ==
    ASSUME IInv, phase = "idle", posted \in {Ready, WarmedUp},
           NEW conns \in [Conns -> Connection],
           \A c \in Conns : Ledger(conns[c], running, phase, posted),
           NEW accs \in [Conns -> BOOLEAN], BeginPhase(conns, accs),
           \/ phase' = "warmup" /\ posted = Ready
           \/ phase' = "measurement"
    PROVE  IInv'
<1>1. /\ conn' = [c \in Conns |-> FillClosedLoop(ResetCounters(conns[c]), TRUE, accs[c])]
      /\ running' = TRUE /\ pastStop' = FALSE
      /\ timeouts' = 0 /\ scheduled' = 0 /\ dropped' = 0
      /\ UNCHANGED <<posted, connected>>
  BY DEF BeginPhase
<1>2. \A c \in Conns : LET k == FillClosedLoop(ResetCounters(conns[c]), TRUE, accs[c])
                       IN  ConnInv(k) /\ Balanced(k) /\ Recovering(k)
  <2> TAKE c \in Conns
  <2> DEFINE q == ResetCounters(conns[c])
  <2>1. ConnInv(conns[c]) /\ Quiet(conns[c]) /\ Recovering(conns[c])
    BY DEF Ledger
  <2>2. ConnInv(q) /\ Quiet(q) /\ Balanced(q) /\ Recovering(q)
    BY <2>1, ResetInv
  <2>3. q.inFlight = 0 => q.pending = 0
    BY <2>2 DEF Quiet
  <2>4. PICK run \in BOOLEAN : run = TRUE
    OBVIOUS
  <2>5. accs[c] \in BOOLEAN
    OBVIOUS
  <2> HIDE DEF q
  <2>6. ConnInv(FillClosedLoop(q, run, accs[c]))
        /\ Balanced(FillClosedLoop(q, run, accs[c]))
        /\ Recovering(FillClosedLoop(q, run, accs[c]))
    BY <2>2, <2>3, <2>4, <2>5, FillClosedLoopInv
  <2>7. QED
    BY <2>4, <2>6, Zenon DEF q
<1>3. \A c \in Conns : ConnInv(conn'[c]) /\ Balanced(conn'[c]) /\ Recovering(conn'[c])
  BY <1>1, <1>2
<1>4. conn' \in [Conns -> Connection]
  BY <1>1, <1>2 DEF ConnInv
<1>5. TypeOK'
  BY <1>1, <1>4 DEF IInv, TypeOK, Phase
<1>6. PhaseInv'
  BY <1>1 DEF PhaseInv, Phase
<1>7. LedgerInv'
  BY <1>3 DEF LedgerInv, Ledger
<1>8. QED
  BY <1>5, <1>6, <1>7 DEF IInv

\* A warmup begins on a worker that is idle, hence quiet.
LEMMA BeginWarmupStep ==
    ASSUME IInv, NEW accs \in [Conns -> BOOLEAN], BeginWarmup(accs)
    PROVE  IInv'
<1>1. phase = "idle" /\ posted = Ready /\ phase' = "warmup" /\ BeginPhase(conn, accs)
  BY DEF BeginWarmup
<1>2. QED
  BY <1>1, BeginPhaseStep DEF IInv, TypeOK, LedgerInv

\* A measurement begins on a worker that is idle, hence quiet, warmed up or not.
LEMMA BeginMeasurementStep ==
    ASSUME IInv, NEW accs \in [Conns -> BOOLEAN], BeginMeasurement(accs)
    PROVE  IInv'
<1> DEFINE conns == [c \in Conns |-> ResetPhaseState(conn[c])]
<1>1. /\ phase = "idle" /\ posted \in {Ready, WarmedUp} /\ phase' = "measurement"
      /\ BeginPhase(conns, accs)
  BY DEF BeginMeasurement
<1>2. \A c \in Conns : conns[c] = conn[c]
  BY <1>1, ResetInv DEF IInv, LedgerInv, Ledger
<1>3. conns \in [Conns -> Connection]
  BY <1>2 DEF IInv, TypeOK
<1>4. \A c \in Conns : Ledger(conns[c], running, phase, posted)
  BY <1>2 DEF IInv, LedgerInv
<1> HIDE DEF conns
<1>5. QED
  BY <1>1, <1>3, <1>4, BeginPhaseStep

\* The end of the warmup leaves a worker that drains, or one that is quiet.
LEMMA WarmupTimerStep ==
    ASSUME IInv, WarmupTimer
    PROVE  IInv'
<1>1. /\ phase = "warmup" /\ posted = Ready /\ running' = FALSE /\ pastStop' = FALSE
      /\ UNCHANGED <<connected, timeouts, scheduled, dropped>>
  BY DEF WarmupTimer, IInv, PhaseInv
<1>2. CASE Drained(conn)
  <2>1. /\ phase' = "idle" /\ posted' = WarmedUp
        /\ conn' = [c \in Conns |-> ResetPhaseState(conn[c])]
    BY <1>1, <1>2 DEF WarmupTimer, WarmedUp
  <2>2. \A c \in Conns : Ledger(ResetPhaseState(conn[c]), running', phase', posted')
    <3> TAKE c \in Conns
    <3>1. ConnInv(conn[c]) /\ conn[c].inFlight = 0 /\ Recovering(conn[c])
      BY <1>1, <1>2 DEF Drained, Ledger, IInv, LedgerInv
    <3>2. QED
      BY <1>1, <2>1, <3>1, ResetInv DEF Ledger
  <2>3. \A c \in Conns : ResetPhaseState(conn[c]) \in Connection
    BY <2>2 DEF Ledger, ConnInv
  <2>4. TypeOK'
    BY <1>1, <2>1, <2>3, PostedValues DEF IInv, TypeOK, Phase, Message
  <2>5. PhaseInv'
    BY <1>1, <2>1 DEF PhaseInv, Phase
  <2>6. LedgerInv'
    BY <2>1, <2>2 DEF LedgerInv
  <2>7. QED
    BY <2>4, <2>5, <2>6 DEF IInv
<1>3. CASE ~Drained(conn)
  <2>1. phase' = "warmup-draining" /\ UNCHANGED <<posted, conn>>
    BY <1>3 DEF WarmupTimer
  <2>2. QED
    BY <1>1, <2>1 DEF IInv, TypeOK, Phase, PhaseInv, LedgerInv, Ledger
<1>4. QED
  BY <1>2, <1>3

\* The end of the measurement takes what is in flight into the result.
LEMMA MeasurementTimerStep ==
    ASSUME IInv, MeasurementTimer
    PROVE  IInv'
<1>1. /\ phase = "measurement" /\ posted \in {Ready, WarmedUp} /\ running
      /\ phase' = "finished" /\ running' = FALSE /\ pastStop' = FALSE
      /\ conn' = [c \in Conns |-> Stop(conn[c])]
      /\ posted' = Append(posted, "result")
      /\ UNCHANGED <<connected, timeouts, scheduled, dropped>>
  BY DEF MeasurementTimer, IInv, PhaseInv
<1>2. \A c \in Conns : /\ ConnInv(Stop(conn[c])) /\ BalancedAtStop(Stop(conn[c]))
                       /\ Stop(conn[c]).sock = "none"
  BY <1>1, StopInv DEF IInv, LedgerInv, Ledger
<1>3. \A c \in Conns : Stop(conn[c]) \in Connection
  BY <1>2 DEF ConnInv
<1>4. posted' \in {Append(Ready, "result"), Append(WarmedUp, "result")}
  BY <1>1
<1>5. TypeOK'
  BY <1>1, <1>3, <1>4, PostedValues DEF IInv, TypeOK, Phase, Message
<1>6. PhaseInv'
  BY <1>1, <1>4 DEF PhaseInv, Phase
<1>7. LedgerInv'
  BY <1>1, <1>2 DEF LedgerInv, Ledger
<1>8. QED
  BY <1>5, <1>6, <1>7 DEF IInv

\* A connection takes no more arrivals than it has room for.
LEMMA RateTickStep ==
    ASSUME IInv, NEW due \in 1 .. MaxScheduled, NEW batch \in [Conns -> 0 .. Pipelining],
           NEW accs \in [Conns -> BOOLEAN], RateTick(due, batch, accs)
    PROVE  IInv'
<1>1. /\ running /\ FixedRate
      /\ \A c \in Conns : batch[c] <= Capacity(conn[c], running)
      /\ scheduled' = scheduled + due
      /\ conn' = [c \in Conns |-> Send(conn[c], batch[c], running, accs[c])]
      /\ UNCHANGED <<phase, posted, running, pastStop, connected, timeouts>>
  BY DEF RateTick
<1>2. dropped' \in Nat
  <2> DEFINE taken == FoldFunction(+, 0, batch)
  <2>1. taken \in 0 .. due /\ dropped' = dropped + Dropped(due, taken)
    BY DEF RateTick
  <2> HIDE DEF taken
  <2>2. due \in Nat /\ dropped \in Nat
    BY BoundsAssumption DEF IInv, TypeOK
  <2>3. QED
    BY <2>1, <2>2 DEF Dropped
<1>3. phase # "finished" /\ phase # "idle"
  BY <1>1 DEF IInv, PhaseInv
<1>4. \A c \in Conns :
        LET k == Send(conn[c], batch[c], running, accs[c])
        IN  ConnInv(k) /\ Balanced(k) /\ Recovering(k)
  <2> TAKE c \in Conns
  <2>1. ConnInv(conn[c]) /\ Balanced(conn[c]) /\ Recovering(conn[c])
    BY <1>1, <1>3 DEF IInv, LedgerInv, Ledger
  <2>2. conn[c].inFlight \in Nat /\ conn[c].pending = 0 /\ conn[c].inFlight <= Pipelining
    BY <1>1, <2>1, PipeliningAssumption DEF ConnInv, Connection
  <2>3. batch[c] \in Nat /\ batch[c] <= Capacity(conn[c], running)
    <3>1. batch[c] \in 0 .. Pipelining
      OBVIOUS
    <3>2. batch[c] \in Nat
      BY <3>1, PipeliningAssumption
    <3>3. QED
      BY <1>1, <3>2, Zenon
  <2>4. conn[c].inFlight + conn[c].pending + batch[c] <= Pipelining
    BY <2>2, <2>3, PipeliningAssumption DEF Capacity
  <2>5. QED
    BY <1>1, <2>1, <2>3, <2>4, SendInv
<1>5. \A c \in Conns : ConnInv(conn'[c]) /\ Balanced(conn'[c]) /\ Recovering(conn'[c])
  BY <1>1, <1>4
<1>6. conn' \in [Conns -> Connection]
  BY <1>1, <1>4 DEF ConnInv
<1>7. TypeOK'
  <2>1. due \in Nat /\ scheduled \in Nat
    BY BoundsAssumption DEF IInv, TypeOK
  <2>2. scheduled' \in Nat
    BY <1>1, <2>1
  <2>3. UNCHANGED <<phase, posted, running, pastStop, connected, timeouts>>
    BY <1>1
  <2>4. QED
    BY <1>2, <1>6, <2>2, <2>3 DEF IInv, TypeOK
<1>8. PhaseInv'
  BY <1>1 DEF IInv, PhaseInv
<1>9. LedgerInv'
  BY <1>1, <1>3, <1>5 DEF LedgerInv, Ledger
<1>10. QED
  BY <1>7, <1>8, <1>9 DEF IInv

\* Every handler keeps the inductive invariant.
LEMMA StepIInv == IInv /\ [WorkerNext]_vars => IInv'
<1> SUFFICES ASSUME IInv, [WorkerNext]_vars
             PROVE  IInv'
  OBVIOUS
<1>1. ASSUME NEW c \in Conns, SocketEvent(c)
      PROVE  IInv'
  BY <1>1, ConnectStep, DrainStep, ReceiveStep, TimeoutStep, SocketStateStep, CloseStep,
     ReconnectStep DEF SocketEvent
<1>2. ASSUME NEW accs \in [Conns -> BOOLEAN],
             \/ BeginWarmup(accs)
             \/ BeginMeasurement(accs)
             \/ \E due \in 1 .. MaxScheduled, batch \in [Conns -> 0 .. Pipelining] :
                   RateTick(due, batch, accs)
      PROVE  IInv'
  BY <1>2, BeginWarmupStep, BeginMeasurementStep, RateTickStep
<1>3. CASE StopTimePasses
  BY <1>3 DEF StopTimePasses, IInv, TypeOK, PhaseInv, LedgerInv
<1>4. CASE WarmupTimer
  BY <1>4, WarmupTimerStep
<1>5. CASE MeasurementTimer
  BY <1>5, MeasurementTimerStep
<1>6. CASE UNCHANGED vars
  BY <1>6 DEF vars, IInv, TypeOK, PhaseInv, LedgerInv
<1>7. QED
  BY <1>1, <1>2, <1>3, <1>4, <1>5, <1>6 DEF WorkerNext

\* The ledger of every connection stays balanced and within its pipeline, and an
\* idle worker is quiet, in every reachable state: the inductive invariant from
\* which the theorems below follow.
THEOREM Invariance == Spec => []IInv
<1>1. WorkerInit => IInv
  BY InitIInv
<1>2. IInv /\ [WorkerNext]_vars => IInv'
  BY StepIInv
<1>3. QED
  BY <1>1, <1>2, PTL DEF Spec
--------------------------------------------------------------------------------
\* The variables have their types, whatever happens on the sockets.
THEOREM TypeCorrect == Spec => []TypeOK
<1>1. IInv => TypeOK
  BY DEF IInv
<1>2. QED
  BY <1>1, Invariance, PTL

\* No request is lost from the accounts: what a phase or its result counts as
\* sent, it counts as completed, aborted or in flight.
THEOREM ConservationHolds == Spec => []Conservation
<1>1. IInv => Conservation
  <2> SUFFICES ASSUME IInv, NEW c \in Conns
               PROVE  /\ running => conn[c].sent =
                            conn[c].completed + conn[c].aborted + conn[c].inFlight
                      /\ "result" \in Range(posted) => conn[c].sent =
                            conn[c].completed + conn[c].aborted + conn[c].atStop
    BY DEF Conservation
  <2>1. Ledger(conn[c], running, phase, posted)
    BY DEF IInv, LedgerInv
  <2>2. "result" \in Range(posted) => phase = "finished" /\ posted # <<"fatal">>
    BY NoResultYet DEF IInv, PhaseInv, Phase
  <2>3. QED
    BY <2>1, <2>2 DEF Ledger, Balanced, BalancedAtStop
<1>2. QED
  BY <1>1, Invariance, PTL

\* #send never throws its overflow error, in whatever handler it is called.
THEOREM PipelineBoundHolds == Spec => []PipelineBound
<1>1. IInv => PipelineBound
  BY DEF IInv, LedgerInv, Ledger, ConnInv, PipelineBound
<1>2. QED
  BY <1>1, Invariance, PTL

\* A measurement never starts with an answer to the warmup outstanding.
THEOREM IdleIsQuietHolds == Spec => []IdleIsQuiet
<1>1. IInv => IdleIsQuiet
  BY DEF IInv, LedgerInv, Ledger, Quiet, IdleIsQuiet
<1>2. QED
  BY <1>1, Invariance, PTL

\* A connection that loses its socket always comes back.
THEOREM NeverLostHolds == Spec => []NeverLost
<1>1. IInv => NeverLost
  BY DEF IInv, LedgerInv, Ledger, Recovering, NeverLost
<1>2. QED
  BY <1>1, Invariance, PTL
--------------------------------------------------------------------------------
\* Every handler is a step of the contract, or leaves the phase and the messages
\* as they are.
LEMMA StepRefines == IInv /\ [WorkerNext]_vars => [Next]_contractVars
<1> SUFFICES ASSUME IInv, [WorkerNext]_vars
             PROVE  Next \/ UNCHANGED <<phase, posted>>
  BY DEF contractVars
<1>1. ASSUME NEW conns, MaybeCompleteWarmup(conns)
      PROVE  CompleteWarmup \/ UNCHANGED <<phase, posted>>
  BY <1>1 DEF MaybeCompleteWarmup, CompleteWarmup, IInv, PhaseInv, WarmedUp
<1>2. ASSUME NEW c \in Conns, NEW acc \in BOOLEAN, Connect(c, acc)
      PROVE  BecomeReady \/ UNCHANGED <<phase, posted>>
  <2>1. posted = <<>> => phase = "idle"
    BY PostedValues DEF IInv, PhaseInv, Phase
  <2>2. QED
    BY <1>2, <2>1, PostedValues DEF Connect, BecomeReady
<1>3. ASSUME NEW c \in Conns, SocketEvent(c)
      PROVE  BecomeReady \/ CompleteWarmup \/ UNCHANGED <<phase, posted>>
  BY <1>1, <1>2, <1>3 DEF SocketEvent, SocketDrain, Receive, Timeout, SocketError, RemoteEnd,
     SocketClose, ReconnectTimer
<1>4. ASSUME NEW accs \in [Conns -> BOOLEAN], BeginWarmup(accs)
      PROVE  StartWarmup
  BY <1>4 DEF BeginWarmup, BeginPhase, StartWarmup
<1>5. ASSUME NEW accs \in [Conns -> BOOLEAN], BeginMeasurement(accs)
      PROVE  StartMeasurement
  BY <1>5 DEF BeginMeasurement, BeginPhase, StartMeasurement
<1>6. CASE WarmupTimer
  BY <1>6 DEF WarmupTimer, EndWarmup, CompleteWarmup, Next, IInv, PhaseInv, WarmedUp
<1>7. CASE MeasurementTimer
  BY <1>7 DEF MeasurementTimer, Finish, Next
<1>8. QED
  BY <1>3, <1>4, <1>5, <1>6, <1>7
     DEF WorkerNext, Next, RateTick, StopTimePasses, vars

\* The worker keeps what the coordinator relies on: it goes through its phases in
\* order and posts each message once, at the end of the phase it reports.
THEOREM ContractRefined == Spec => ImplementsContract
<1>1. WorkerInit => Init \/ InitFailed
  BY DEF WorkerInit
<1>2. IInv /\ [WorkerNext]_vars => [Next]_contractVars
  BY StepRefines
<1>3. QED
  BY <1>1, <1>2, Invariance, PTL DEF Spec, ImplementsContract, ContractSpec
--------------------------------------------------------------------------------
\* While a phase runs, no handler completes the warmup: conns is what it leaves.
LEMMA RunningLeaves ==
    ASSUME IInv, running, NEW conns, MaybeCompleteWarmup(conns)
    PROVE  conn' = conns
BY DEF MaybeCompleteWarmup, IInv, PhaseInv

\* What holds of the record a handler leaves holds of its connection afterwards.
LEMMA BecomesOne ==
    ASSUME TypeOK, NEW c \in Conns, NEW k, Becomes(c, k), NEW d \in Conns
    PROVE  conn'[d] = IF d = c THEN k ELSE conn[d]
BY DEF Becomes, TypeOK

\* The socket events of a running closed loop keep every pipeline full.
LEMMA SocketEventFull ==
    ASSUME IInv, PipelineFull, ClosedLoopActive(running), ~pastStop, ~pastStop',
           NEW c \in Conns, SocketEvent(c), NEW d \in Conns
    PROVE  FullPipe(conn'[d])
<1>1. /\ TypeOK /\ running \in BOOLEAN /\ running /\ phase # "finished"
      /\ conn \in [Conns -> Connection]
  BY DEF ClosedLoopActive, IInv, TypeOK, PhaseInv
<1>2. \A e \in Conns : FullPipe(conn[e])
  BY DEF PipelineFull, FullPipe
<1>3. /\ ConnInv(conn[c]) /\ Recovering(conn[c]) /\ conn[c] \in Connection
  BY <1>1 DEF IInv, LedgerInv, Ledger, ConnInv
<1>4. ASSUME NEW acc \in BOOLEAN, Connect(c, acc)
      PROVE  FullPipe(conn'[d])
  <2>1. conn[c].sock = "opening" /\ Becomes(c, Connected(conn[c], running, acc))
    BY <1>4 DEF Connect
  <2>2. FullPipe(Connected(conn[c], running, acc))
    BY <1>1, <1>3, <2>1, ConnectedFull
  <2>3. QED
    BY <1>1, <1>2, <2>1, <2>2, BecomesOne
<1>5. ASSUME NEW acc \in BOOLEAN, SocketDrain(c, acc)
      PROVE  FullPipe(conn'[d])
  <2>1. conn[c].sock = "open" /\ Becomes(c, Drain(conn[c], running, acc))
    BY <1>5 DEF SocketDrain
  <2>2. FullPipe(Drain(conn[c], running, acc))
    BY <1>1, <1>2, <1>3, <2>1, DrainFull
  <2>3. QED
    BY <1>1, <1>2, <2>1, <2>2, BecomesOne
<1>6. ASSUME NEW n \in 0 .. Pipelining, NEW r \in 0 .. Pipelining, NEW tail \in ChunkTail,
             NEW acc \in BOOLEAN, Receive(c, n, tail, r, acc)
      PROVE  FullPipe(conn'[d])
  <2> DEFINE k == Data(conn[c], n, tail, r, running, acc)
  <2>1. /\ conn[c].sock = "open" /\ n \in 0 .. conn[c].inFlight /\ r \in 0 .. n
        /\ ~(r < n)
        /\ MaybeCompleteWarmup([conn EXCEPT ![c] = k])
    BY <1>6 DEF Receive
  <2>2. r = n
    BY <2>1, PipeliningAssumption
  <2>3. FullPipe(k)
    BY <1>1, <1>2, <1>3, <2>1, <2>2, DataFull
  <2> HIDE DEF k
  <2>4. conn' = [conn EXCEPT ![c] = k]
    BY <1>1, <2>1, RunningLeaves
  <2>5. QED
    BY <1>1, <1>2, <2>3, <2>4
<1>7. ASSUME Timeout(c)
      PROVE  FullPipe(conn'[d])
  <2>1. Becomes(c, Destroy(conn[c])) /\ FullPipe(Destroy(conn[c]))
    BY <1>3, <1>7 DEF Timeout, FullPipe, Destroy, Connection
  <2>2. QED
    BY <1>1, <1>2, <2>1, BecomesOne
<1>8. ASSUME SocketError(c) \/ RemoteEnd(c)
      PROVE  FullPipe(conn'[d])
  <2>1. PICK sk \in {"ending", "destroyed"} : Becomes(c, [conn[c] EXCEPT !.sock = sk])
    BY <1>8 DEF SocketError, RemoteEnd
  <2>2. FullPipe([conn[c] EXCEPT !.sock = sk])
    BY <1>2, <1>3 DEF FullPipe, Connection
  <2>3. QED
    BY <1>1, <1>2, <2>1, <2>2, BecomesOne
<1>9. ASSUME SocketClose(c)
      PROVE  FullPipe(conn'[d])
  <2> DEFINE k == Closed(conn[c], running)
  <2>1. MaybeCompleteWarmup([conn EXCEPT ![c] = k])
    BY <1>9 DEF SocketClose
  <2>2. FullPipe(k)
    BY <1>1, <1>3, HandlersConnected DEF FullPipe
  <2> HIDE DEF k
  <2>3. conn' = [conn EXCEPT ![c] = k]
    BY <1>1, <2>1, RunningLeaves
  <2>4. QED
    BY <1>1, <1>2, <2>2, <2>3
<1>10. ASSUME ReconnectTimer(c)
       PROVE  FullPipe(conn'[d])
  <2>1. Becomes(c, Reconnect(conn[c], FALSE)) /\ conn[c].reconnect
    BY <1>1, <1>10 DEF ReconnectTimer
  <2>2. ~conn[c].connected
    BY <1>3, <2>1 DEF ConnInv, Recovering
  <2>3. FullPipe(Reconnect(conn[c], FALSE))
    BY <1>3, <2>2 DEF FullPipe, Reconnect, Connection
  <2>4. QED
    BY <1>1, <1>2, <2>1, <2>3, BecomesOne
<1>11. QED
  BY <1>4, <1>5, <1>6, <1>7, <1>8, <1>9, <1>10 DEF SocketEvent

\* A phase of a closed loop starts with every pipeline full.
LEMMA BeginPhaseFull ==
    ASSUME IInv, phase = "idle", NEW conns \in [Conns -> Connection],
           \A c \in Conns : Ledger(conns[c], running, phase, posted),
           NEW accs \in [Conns -> BOOLEAN], BeginPhase(conns, accs), ~FixedRate, NEW d \in Conns
    PROVE  FullPipe(conn'[d])
<1> DEFINE q == ResetCounters(conns[d])
<1>1. conn'[d] = FillClosedLoop(q, TRUE, accs[d])
  BY DEF BeginPhase
<1>2. ConnInv(conns[d]) /\ Quiet(conns[d]) /\ Recovering(conns[d])
  BY DEF Ledger
<1>3. ConnInv(q) /\ Quiet(q) /\ Recovering(q)
  BY <1>2, ResetInv
<1>4. q.connected => q.sock # "none"
  BY <1>3 DEF Recovering
<1>5. PICK run \in BOOLEAN : run = TRUE
  OBVIOUS
<1>6. ClosedLoopActive(run) /\ accs[d] \in BOOLEAN
  BY <1>5 DEF ClosedLoopActive
<1> HIDE DEF q
<1>7. FullPipe(FillClosedLoop(q, run, accs[d]))
  BY <1>3, <1>4, <1>6, FillFull
<1>8. QED
  BY <1>1, <1>5, <1>7

\* No step takes a request out of a full pipeline without replacing it.
LEMMA StepFull == IInv /\ PipelineFull /\ [WorkerNext]_vars => PipelineFull'
<1> SUFFICES ASSUME IInv, PipelineFull, [WorkerNext]_vars,
                    running', ~FixedRate, ~pastStop', NEW d \in Conns
             PROVE  FullPipe(conn'[d])
  BY DEF PipelineFull, FullPipe, ClosedLoopActive
<1>1. ASSUME NEW c \in Conns, SocketEvent(c)
      PROVE  FullPipe(conn'[d])
  <2>1. running /\ ~pastStop
    <3>1. ASSUME NEW acc, NEW n, NEW r, NEW tail, Receive(c, n, tail, r, acc)
          PROVE  (running' => running) /\ (pastStop => pastStop')
      BY <3>1 DEF Receive
    <3>2. ASSUME \/ \E acc \in BOOLEAN : Connect(c, acc) \/ SocketDrain(c, acc)
                 \/ Timeout(c) \/ SocketError(c) \/ RemoteEnd(c)
                 \/ SocketClose(c) \/ ReconnectTimer(c)
          PROVE  UNCHANGED <<running, pastStop>>
      BY <3>2 DEF Connect, SocketDrain, Timeout, SocketError, RemoteEnd,
         SocketClose, ReconnectTimer, timers
    <3>3. (running' => running) /\ (pastStop => pastStop')
      <4>1. CASE UNCHANGED <<running, pastStop>>
        BY <4>1, Zenon
      <4>2. QED
        BY <1>1, <3>1, <3>2, <4>1, Zenon DEF SocketEvent
    <3>4. QED
      BY <3>3
  <2>2. QED
    BY <1>1, <2>1, SocketEventFull DEF ClosedLoopActive
<1>2. ASSUME NEW accs \in [Conns -> BOOLEAN], BeginWarmup(accs)
      PROVE  FullPipe(conn'[d])
  BY <1>2, BeginPhaseFull DEF BeginWarmup, IInv, TypeOK, LedgerInv
<1>3. ASSUME NEW accs \in [Conns -> BOOLEAN], BeginMeasurement(accs)
      PROVE  FullPipe(conn'[d])
  <2> DEFINE conns == [c \in Conns |-> ResetPhaseState(conn[c])]
  <2>1. phase = "idle" /\ BeginPhase(conns, accs)
    BY <1>3 DEF BeginMeasurement
  <2>2. \A c \in Conns : conns[c] = conn[c]
    BY <2>1, ResetInv DEF IInv, LedgerInv, Ledger
  <2>3. conns \in [Conns -> Connection]
    BY <2>2 DEF IInv, TypeOK
  <2>4. \A c \in Conns : Ledger(conns[c], running, phase, posted)
    BY <2>2 DEF IInv, LedgerInv
  <2> HIDE DEF conns
  <2>5. QED
    BY <2>1, <2>3, <2>4, BeginPhaseFull
<1>4. CASE UNCHANGED vars
  BY <1>4 DEF vars, PipelineFull, FullPipe, ClosedLoopActive
<1>5. ASSUME NEW accs, NEW due, NEW batch, RateTick(due, batch, accs)
      PROVE  FALSE
  BY <1>5 DEF RateTick
<1>6. ~StopTimePasses /\ ~WarmupTimer /\ ~MeasurementTimer
  BY DEF StopTimePasses, WarmupTimer, MeasurementTimer
<1>7. QED
  BY <1>1, <1>2, <1>3, <1>4, <1>5, <1>6 DEF WorkerNext

\* Until the stop time a closed loop loses no request slot: not to backpressure,
\* not to a reconnect, and not to an event that comes late.
THEOREM PipelineFullHolds == Spec => []PipelineFull
<1>1. WorkerInit => PipelineFull
  BY DEF WorkerInit, PipelineFull, ClosedLoopActive
<1>2. IInv /\ PipelineFull /\ [WorkerNext]_vars => PipelineFull'
  BY StepFull
<1>3. QED
  BY <1>1, <1>2, Invariance, PTL DEF Spec
--------------------------------------------------------------------------------
\* Every episode of backpressure that has ended has had its wait recorded.
WaitsInv == \A c \in Conns : WaitsKept(conn[c])

\* The drain check leaves a connection as it is, or without what it held back.
LEMMA LeavesOrResets ==
    ASSUME NEW conns, MaybeCompleteWarmup(conns), NEW d \in Conns
    PROVE  conn'[d] = conns[d] \/ conn'[d] = ResetPhaseState(conns[d])
BY DEF MaybeCompleteWarmup

\* The socket events forget no wait.
LEMMA SocketEventWaits ==
    ASSUME IInv, WaitsInv, NEW c \in Conns, SocketEvent(c), NEW d \in Conns
    PROVE  WaitsKept(conn'[d])
<1>1. TypeOK /\ running \in BOOLEAN /\ conn \in [Conns -> Connection]
  BY DEF IInv, TypeOK
<1>2. \A e \in Conns : WaitsKept(conn[e])
  BY DEF WaitsInv
<1>3. ConnInv(conn[c]) /\ conn[c] \in Connection
  BY DEF IInv, LedgerInv, Ledger, ConnInv
<1>4. ASSUME NEW k, WaitsKept(k), Becomes(c, k)
      PROVE  WaitsKept(conn'[d])
  BY <1>1, <1>2, <1>4, BecomesOne
<1>5. ASSUME NEW k \in Connection, WaitsKept(k), MaybeCompleteWarmup([conn EXCEPT ![c] = k])
      PROVE  WaitsKept(conn'[d])
  <2> DEFINE conns == [conn EXCEPT ![c] = k]
  <2>1. conns[d] \in Connection /\ WaitsKept(conns[d])
    BY <1>1, <1>2, <1>5
  <2>2. WaitsKept(ResetPhaseState(conns[d]))
    BY <2>1, OtherWaits
  <2> HIDE DEF conns
  <2>3. QED
    BY <1>5, <2>1, <2>2, LeavesOrResets DEF conns
<1>6. ASSUME NEW acc \in BOOLEAN, Connect(c, acc)
      PROVE  WaitsKept(conn'[d])
  <2>1. Becomes(c, Connected(conn[c], running, acc))
    BY <1>6 DEF Connect
  <2>2. WaitsKept(Connected(conn[c], running, acc))
    BY <1>1, <1>2, <1>3, FillWaits
  <2>3. QED
    BY <1>4, <2>1, <2>2
<1>7. ASSUME NEW acc \in BOOLEAN, SocketDrain(c, acc)
      PROVE  WaitsKept(conn'[d])
  <2>1. Becomes(c, Drain(conn[c], running, acc))
    BY <1>7 DEF SocketDrain
  <2>2. WaitsKept(Drain(conn[c], running, acc))
    BY <1>1, <1>2, <1>3, FinishWaits
  <2>3. QED
    BY <1>4, <2>1, <2>2
<1>8. ASSUME NEW n \in 0 .. Pipelining, NEW r \in 0 .. Pipelining, NEW tail \in ChunkTail,
             NEW acc \in BOOLEAN, Receive(c, n, tail, r, acc)
      PROVE  WaitsKept(conn'[d])
  <2> DEFINE k == Data(conn[c], n, tail, r, running, acc)
  <2>1. /\ conn[c].sock = "open" /\ n \in 0 .. conn[c].inFlight /\ r \in 0 .. n
        /\ MaybeCompleteWarmup([conn EXCEPT ![c] = k])
    BY <1>8 DEF Receive
  <2>2. WaitsKept(k)
    BY <1>1, <1>2, <1>3, <2>1, DataWaits
  <2>3. k \in Connection
    BY <1>1, <1>3, <2>1, DataInv DEF ConnInv
  <2> HIDE DEF k
  <2>4. QED
    BY <1>5, <2>1, <2>2, <2>3
<1>9. ASSUME Timeout(c) \/ SocketError(c) \/ RemoteEnd(c) \/ ReconnectTimer(c)
      PROVE  WaitsKept(conn'[d])
  <2>1. PICK sk \in {"ending", "destroyed"}, b \in BOOLEAN :
            \/ Becomes(c, Destroy(conn[c]))
            \/ Becomes(c, [conn[c] EXCEPT !.sock = sk])
            \/ Becomes(c, Reconnect(conn[c], b))
    <3>1. (phase = "finished") \in BOOLEAN
      OBVIOUS
    <3>2. QED
      BY <1>9, <3>1 DEF Timeout, SocketError, RemoteEnd, ReconnectTimer
  <2>2. /\ WaitsKept(Destroy(conn[c])) /\ WaitsKept([conn[c] EXCEPT !.sock = sk])
        /\ WaitsKept(Reconnect(conn[c], b))
    BY <1>2, <1>3, OtherWaits
  <2>3. QED
    BY <1>4, <2>1, <2>2
<1>10. ASSUME SocketClose(c)
       PROVE  WaitsKept(conn'[d])
  <2>1. MaybeCompleteWarmup([conn EXCEPT ![c] = Closed(conn[c], running)])
    BY <1>10 DEF SocketClose
  <2>2. WaitsKept(Closed(conn[c], running)) /\ Closed(conn[c], running) \in Connection
    BY <1>1, <1>2, <1>3, FinishWaits, ClosedInv DEF ConnInv
  <2>3. QED
    BY <1>5, <2>1, <2>2
<1>11. QED
  BY <1>6, <1>7, <1>8, <1>9, <1>10 DEF SocketEvent

\* Neither do the commands and the timers of the worker.
LEMMA StepWaits == IInv /\ WaitsInv /\ [WorkerNext]_vars => WaitsInv'
<1> SUFFICES ASSUME IInv, WaitsInv, [WorkerNext]_vars, NEW d \in Conns
             PROVE  WaitsKept(conn'[d])
  BY DEF WaitsInv
<1>1. /\ running \in BOOLEAN /\ conn[d] \in Connection /\ WaitsKept(conn[d]) /\ ConnInv(conn[d])
  BY DEF IInv, TypeOK, LedgerInv, Ledger, WaitsInv
<1>2. ASSUME NEW c \in Conns, SocketEvent(c)
      PROVE  WaitsKept(conn'[d])
  BY <1>2, SocketEventWaits
<1>3. ASSUME NEW k \in Connection, WaitsKept(k), NEW acc \in BOOLEAN
      PROVE  WaitsKept(FillClosedLoop(ResetCounters(k), TRUE, acc))
  <2>1. ResetCounters(k) \in Connection
    BY DEF ResetCounters, Connection
  <2>2. WaitsKept(ResetCounters(k))
    BY <1>3, OtherWaits
  <2>3. PICK run \in BOOLEAN : run = TRUE
    OBVIOUS
  <2>4. QED
    BY <2>1, <2>2, <2>3, FillWaits
<1>4. ASSUME NEW accs \in [Conns -> BOOLEAN], BeginWarmup(accs) \/ BeginMeasurement(accs)
      PROVE  WaitsKept(conn'[d])
  <2> DEFINE r == ResetPhaseState(conn[d])
  <2>1. accs[d] \in BOOLEAN
    OBVIOUS
  <2>2. r \in Connection /\ WaitsKept(r)
    BY <1>1, ResetInv, OtherWaits DEF ConnInv
  <2> HIDE DEF r
  <2>3. \/ conn'[d] = FillClosedLoop(ResetCounters(conn[d]), TRUE, accs[d])
        \/ conn'[d] = FillClosedLoop(ResetCounters(r), TRUE, accs[d])
    BY <1>4 DEF BeginWarmup, BeginMeasurement, BeginPhase, r
  <2>4. QED
    BY <1>1, <1>3, <2>1, <2>2, <2>3
<1>5. ASSUME NEW due \in 1 .. MaxScheduled, NEW batch \in [Conns -> 0 .. Pipelining],
             NEW accs \in [Conns -> BOOLEAN], RateTick(due, batch, accs)
      PROVE  WaitsKept(conn'[d])
  <2>1. batch[d] \in Nat /\ accs[d] \in BOOLEAN
    <3>1. batch[d] \in 0 .. Pipelining
      OBVIOUS
    <3>2. QED
      BY <3>1, PipeliningAssumption
  <2>2. conn'[d] = Send(conn[d], batch[d], running, accs[d])
    BY <1>5 DEF RateTick
  <2>3. QED
    BY <1>1, <2>1, <2>2, SendWaits
<1>6. CASE StopTimePasses \/ UNCHANGED vars
  BY <1>1, <1>6 DEF StopTimePasses, vars
<1>7. CASE WarmupTimer
  <2>1. conn'[d] = conn[d] \/ conn'[d] = ResetPhaseState(conn[d])
    BY <1>7 DEF WarmupTimer
  <2>2. QED
    BY <1>1, <2>1, OtherWaits
<1>8. CASE MeasurementTimer
  <2>1. conn'[d] = Stop(conn[d])
    BY <1>8 DEF MeasurementTimer
  <2>2. QED
    BY <1>1, <2>1, FinishWaits
<1>9. QED
  BY <1>2, <1>4, <1>5, <1>6, <1>7, <1>8 DEF WorkerNext

\* A connection that has not started has no wait to record.
LEMMA InitWaits == WorkerInit => WaitsInv
<1>1. ConnInv(NewConnection)
  <2>1. NewConnection \in Connection
    BY DEF NewConnection, Connection, SocketState
  <2>2. QED
    BY <2>1, PipeliningAssumption DEF ConnInv, NewConnection
<1>2. WaitsKept(NewConnection)
  BY DEF WaitsKept, NewConnection, If1
<1>3. WaitsKept(Stop(NewConnection))
  <2>1. PICK b \in BOOLEAN : TRUE
    OBVIOUS
  <2>2. QED
    BY <1>1, <1>2, <2>1, FinishWaits
<1>4. QED
  BY <1>2, <1>3 DEF WorkerInit, WaitsInv

\* A result holds the wait of every backpressure event it counts, also of one that
\* was still running when the measurement ended.
THEOREM WaitsCompleteHolds == Spec => []WaitsComplete
<1>1. IInv /\ WaitsInv => WaitsComplete
  <2> SUFFICES ASSUME IInv, WaitsInv, phase = "finished", NEW c \in Conns
               PROVE  conn[c].waits >= conn[c].events
    BY DEF WaitsComplete
  <2>1. conn[c] \in Connection /\ ~conn[c].backpressured
    BY DEF IInv, LedgerInv, Ledger, ConnInv
  <2>2. If1(conn[c].backpressured /\ conn[c].measured) = 0
    BY <2>1 DEF If1
  <2>3. conn[c].waits + 0 >= conn[c].events /\ conn[c].waits \in Nat
    BY <2>1, <2>2 DEF WaitsInv, WaitsKept, Connection
  <2>4. QED
    BY <2>3
<1>2. WorkerInit => WaitsInv
  BY InitWaits
<1>3. IInv /\ WaitsInv /\ [WorkerNext]_vars => WaitsInv'
  BY StepWaits
<1>4. QED
  BY <1>1, <1>2, <1>3, Invariance, PTL DEF Spec
--------------------------------------------------------------------------------
\* The connections whose #connected is set.
Up == {c \in Conns : conn[c].connected}

\* How the number of connections that are up follows one that changes.
LEMMA CountOne ==
    ASSUME NEW S \in SUBSET Conns, NEW c \in Conns
    PROVE  /\ IsFiniteSet(S) /\ Cardinality(S) \in Nat
           /\ c \notin S => Cardinality(S \union {c}) = Cardinality(S) + 1
           /\ c \in S => Cardinality(S) > 0 /\ Cardinality(S \ {c}) = Cardinality(S) - 1
<1>1. IsFiniteSet(S)
  BY ConnsAssumption, FS_Subset
<1>2. Cardinality(S) \in Nat
  BY <1>1, FS_CardinalityType
<1>3. c \notin S => Cardinality(S \union {c}) = Cardinality(S) + 1
  BY <1>1, FS_AddElement
<1>4. c \in S => Cardinality(S \ {c}) = Cardinality(S) - 1
  BY <1>1, FS_RemoveElement
<1>5. c \in S => Cardinality(S) # 0
  BY <1>1, FS_EmptySet
<1>6. QED
  BY <1>1, <1>2, <1>3, <1>4, <1>5

\* A handler that leaves every #connected as it was leaves the number as it was.
LEMMA SameUp ==
    ASSUME ConnectedCount, phase' # "finished" => phase # "finished", connected' = connected,
           \A d \in Conns : conn'[d].connected = conn[d].connected
    PROVE  ConnectedCount'
<1>1. Up' = Up
  BY DEF Up
<1>2. QED
  BY <1>1 DEF ConnectedCount, Up

\* Each socket event moves #connected with the #connected of its connection.
LEMMA SocketEventCount ==
    ASSUME IInv, ConnectedCount, NEW c \in Conns, SocketEvent(c)
    PROVE  ConnectedCount'
<1>1. TypeOK /\ running \in BOOLEAN /\ conn \in [Conns -> Connection] /\ connected \in Nat
  BY DEF IInv, TypeOK
<1>2. /\ ConnInv(conn[c]) /\ conn[c] \in Connection
      /\ conn[c].sock # "none" => phase # "finished"
  BY DEF IInv, LedgerInv, Ledger, ConnInv
<1>3. Up \in SUBSET Conns
  BY DEF Up
<1>4. \A k \in Connection : ResetPhaseState(k).connected = k.connected
  BY DEF ResetPhaseState, Connection
<1>5. ASSUME NEW k \in Connection, MaybeCompleteWarmup([conn EXCEPT ![c] = k]), NEW d \in Conns
      PROVE  conn'[d].connected = IF d = c THEN k.connected ELSE conn[d].connected
  <2> DEFINE conns == [conn EXCEPT ![c] = k]
  <2>1. conns[d] \in Connection /\ conns[d] = IF d = c THEN k ELSE conn[d]
    BY <1>1
  <2> HIDE DEF conns
  <2>2. conn'[d].connected = conns[d].connected
    BY <1>4, <1>5, <2>1, LeavesOrResets DEF conns
  <2>3. QED
    BY <2>1, <2>2
<1>6. ASSUME NEW k, Becomes(c, k), k.connected = conn[c].connected,
             UNCHANGED <<phase, connected>>
      PROVE  ConnectedCount'
  <2>1. \A d \in Conns : conn'[d].connected = conn[d].connected
    BY <1>1, <1>6, BecomesOne
  <2>2. QED
    BY <1>6, <2>1, SameUp
<1>7. ASSUME NEW acc \in BOOLEAN, Connect(c, acc)
      PROVE  ConnectedCount'
  <2> DEFINE k == Connected(conn[c], running, acc)
  <2>1. conn[c].sock = "opening" /\ Becomes(c, k) /\ connected' = connected + 1 /\ phase' = phase
    BY <1>7 DEF Connect
  <2>2. k.connected /\ ~conn[c].connected
    BY <1>1, <1>2, <2>1, HandlersConnected DEF ConnInv
  <2>3. \A d \in Conns : conn'[d] = IF d = c THEN k ELSE conn[d]
    BY <1>1, <2>1, BecomesOne
  <2> HIDE DEF k
  <2>4. Up' = Up \union {c} /\ c \notin Up
    BY <2>2, <2>3 DEF Up
  <2>5. Cardinality(Up \union {c}) = Cardinality(Up) + 1
    BY <1>3, <2>4, CountOne
  <2>6. connected = Cardinality(Up)
    BY <1>2, <2>1 DEF ConnectedCount, Up
  <2>7. connected' = Cardinality(Up')
    BY <2>1, <2>4, <2>5, <2>6
  <2>8. QED
    BY <2>7 DEF ConnectedCount, Up
<1>8. ASSUME NEW acc \in BOOLEAN, SocketDrain(c, acc)
      PROVE  ConnectedCount'
  <2>1. Becomes(c, Drain(conn[c], running, acc)) /\ UNCHANGED <<phase, connected>>
    BY <1>8 DEF SocketDrain
  <2>2. QED
    BY <1>1, <1>2, <1>6, <2>1, HandlersConnected
<1>9. ASSUME NEW n \in 0 .. Pipelining, NEW r \in 0 .. Pipelining, NEW tail \in ChunkTail,
             NEW acc \in BOOLEAN, Receive(c, n, tail, r, acc)
      PROVE  ConnectedCount'
  <2> DEFINE k == Data(conn[c], n, tail, r, running, acc)
  <2>1. /\ conn[c].sock = "open" /\ n \in 0 .. conn[c].inFlight /\ r \in 0 .. n
        /\ MaybeCompleteWarmup([conn EXCEPT ![c] = k]) /\ connected' = connected
    BY <1>9 DEF Receive
  <2>2. k.connected = conn[c].connected
    BY <1>1, <1>2, <2>1, HandlersConnected
  <2>3. k \in Connection
    BY <1>1, <1>2, <2>1, DataInv DEF ConnInv
  <2> HIDE DEF k
  <2>4. \A d \in Conns : conn'[d].connected = conn[d].connected
    BY <1>5, <2>1, <2>2, <2>3
  <2>5. QED
    BY <1>2, <2>1, <2>4, SameUp
<1>10. ASSUME Timeout(c) \/ SocketError(c) \/ RemoteEnd(c) \/ ReconnectTimer(c)
       PROVE  ConnectedCount'
  <2>1. PICK sk, b :
            /\ \/ Becomes(c, Destroy(conn[c]))
               \/ Becomes(c, [conn[c] EXCEPT !.sock = sk])
               \/ Becomes(c, Reconnect(conn[c], b))
            /\ UNCHANGED <<phase, connected>>
    BY <1>10 DEF Timeout, SocketError, RemoteEnd, ReconnectTimer
  <2>2. /\ Destroy(conn[c]).connected = conn[c].connected
        /\ [conn[c] EXCEPT !.sock = sk].connected = conn[c].connected
        /\ Reconnect(conn[c], b).connected = conn[c].connected
    BY <1>2 DEF Destroy, Reconnect, Connection
  <2>3. QED
    BY <1>6, <2>1, <2>2
<1>11. ASSUME SocketClose(c)
       PROVE  ConnectedCount'
  <2> DEFINE k == Closed(conn[c], running)
  <2>1. /\ MaybeCompleteWarmup([conn EXCEPT ![c] = k]) /\ conn[c].sock # "none"
        /\ connected' = IF conn[c].connected /\ connected > 0 THEN connected - 1 ELSE connected
    BY <1>11 DEF SocketClose
  <2>2. ~k.connected /\ k \in Connection
    BY <1>1, <1>2, HandlersConnected, ClosedInv DEF ConnInv
  <2> HIDE DEF k
  <2>3. \A d \in Conns : conn'[d].connected = IF d = c THEN k.connected ELSE conn[d].connected
    BY <1>5, <2>1, <2>2
  <2>4. Up' = Up \ {c}
    BY <2>2, <2>3 DEF Up
  <2>5. /\ Cardinality(Up) \in Nat
        /\ c \in Up => Cardinality(Up) > 0 /\ Cardinality(Up \ {c}) = Cardinality(Up) - 1
    BY <1>3, CountOne
  <2>6. connected = Cardinality(Up)
    BY <1>2, <2>1 DEF ConnectedCount, Up
  <2>7. connected' = Cardinality(Up')
    <3>1. CASE conn[c].connected
      <4>1. c \in Up
        BY <3>1 DEF Up
      <4>2. QED
        BY <2>1, <2>4, <2>5, <2>6, <3>1, <4>1
    <3>2. CASE ~conn[c].connected
      <4>1. Up \ {c} = Up
        BY <3>2 DEF Up
      <4>2. QED
        BY <2>1, <2>4, <2>6, <3>2, <4>1
    <3>3. QED
      BY <3>1, <3>2
  <2>8. QED
    BY <2>7 DEF ConnectedCount, Up
<1>12. QED
  BY <1>7, <1>8, <1>9, <1>10, <1>11 DEF SocketEvent

\* The commands and the timers leave both as they are.
LEMMA StepCount == IInv /\ ConnectedCount /\ [WorkerNext]_vars => ConnectedCount'
<1> SUFFICES ASSUME IInv, ConnectedCount, [WorkerNext]_vars
             PROVE  ConnectedCount'
  OBVIOUS
<1>1. running \in BOOLEAN /\ \A c \in Conns : conn[c] \in Connection
  BY DEF IInv, TypeOK
<1>2. ASSUME NEW c \in Conns, SocketEvent(c)
      PROVE  ConnectedCount'
  BY <1>2, SocketEventCount
<1>3. ASSUME NEW k \in Connection
      PROVE  /\ ResetPhaseState(k) \in Connection /\ ResetPhaseState(k).connected = k.connected
             /\ ResetCounters(k) \in Connection /\ ResetCounters(k).connected = k.connected
  BY DEF ResetPhaseState, ResetCounters, Connection
<1>4. ASSUME NEW k \in Connection, NEW acc \in BOOLEAN
      PROVE  FillClosedLoop(ResetCounters(k), TRUE, acc).connected = k.connected
  <2>1. PICK run \in BOOLEAN : run = TRUE
    OBVIOUS
  <2>2. FillClosedLoop(ResetCounters(k), run, acc).connected = ResetCounters(k).connected
    BY <1>3, SendConnected
  <2>3. QED
    BY <1>3, <2>1, <2>2
<1>5. ASSUME NEW accs \in [Conns -> BOOLEAN], BeginWarmup(accs) \/ BeginMeasurement(accs)
      PROVE  ConnectedCount'
  <2>1. \A d \in Conns : conn'[d].connected = conn[d].connected
    <3> TAKE d \in Conns
    <3> DEFINE r == ResetPhaseState(conn[d])
    <3>1. r \in Connection /\ r.connected = conn[d].connected /\ accs[d] \in BOOLEAN
      BY <1>1, <1>3
    <3> HIDE DEF r
    <3>2. \/ conn'[d] = FillClosedLoop(ResetCounters(conn[d]), TRUE, accs[d])
          \/ conn'[d] = FillClosedLoop(ResetCounters(r), TRUE, accs[d])
      BY <1>5 DEF BeginWarmup, BeginMeasurement, BeginPhase, r
    <3>3. QED
      BY <1>1, <1>4, <3>1, <3>2
  <2>2. phase # "finished" /\ connected' = connected
    BY <1>5 DEF BeginWarmup, BeginMeasurement, BeginPhase
  <2>3. QED
    BY <2>1, <2>2, SameUp
<1>6. ASSUME NEW due \in 1 .. MaxScheduled, NEW batch \in [Conns -> 0 .. Pipelining],
             NEW accs \in [Conns -> BOOLEAN], RateTick(due, batch, accs)
      PROVE  ConnectedCount'
  <2>1. \A d \in Conns : conn'[d].connected = conn[d].connected
    <3> TAKE d \in Conns
    <3>1. conn'[d] = Send(conn[d], batch[d], running, accs[d]) /\ accs[d] \in BOOLEAN
      BY <1>6 DEF RateTick
    <3>2. QED
      BY <1>1, <3>1, SendConnected
  <2>2. phase' = phase /\ connected' = connected
    BY <1>6 DEF RateTick
  <2>3. QED
    BY <2>1, <2>2, SameUp
<1>7. CASE StopTimePasses \/ UNCHANGED vars
  BY <1>7 DEF StopTimePasses, vars, ConnectedCount
<1>8. CASE WarmupTimer
  <2>1. \A d \in Conns : conn'[d] = conn[d] \/ conn'[d] = ResetPhaseState(conn[d])
    BY <1>8 DEF WarmupTimer
  <2>2. \A d \in Conns : conn'[d].connected = conn[d].connected
    BY <1>1, <1>3, <2>1
  <2>3. phase # "finished" /\ connected' = connected
    BY <1>8 DEF WarmupTimer
  <2>4. QED
    BY <2>2, <2>3, SameUp
<1>9. CASE MeasurementTimer
  BY <1>9 DEF MeasurementTimer, ConnectedCount
<1>10. QED
  BY <1>2, <1>5, <1>6, <1>7, <1>8, <1>9 DEF WorkerNext

\* #connected, from which the worker tells that it is ready, is the number of its
\* connections that are up, in whatever order sockets open, fail and close.
THEOREM ConnectedCountHolds == Spec => []ConnectedCount
<1>1. WorkerInit => ConnectedCount
  <2> SUFFICES ASSUME WorkerInit, phase # "finished"
               PROVE  connected = Cardinality(Up)
    BY DEF ConnectedCount, Up
  <2>1. conn = [c \in Conns |-> NewConnection] /\ connected = 0
    BY DEF WorkerInit, InitFailed
  <2>2. Up = {}
    BY <2>1 DEF Up, NewConnection
  <2>3. QED
    BY <2>1, <2>2, FS_EmptySet
<1>2. IInv /\ ConnectedCount /\ [WorkerNext]_vars => ConnectedCount'
  BY StepCount
<1>3. QED
  BY <1>1, <1>2, Invariance, PTL DEF Spec
--------------------------------------------------------------------------------
\* What the connections have sent in the phase that records.
Sent == [c \in Conns |-> conn[c].sent]

\* The account, with the sum by its name.
Account == running /\ FixedRate => scheduled = dropped + SumOf(Sent)

\* It is the account of the specification.
LEMMA AccountIs == ArrivalsAccounted <=> Account
BY DEF ArrivalsAccounted, Account, Sent, SumOf

\* The same of the state after a step.
LEMMA AccountNext ==
    ArrivalsAccounted' <=> (running' /\ FixedRate => scheduled' = dropped' + SumOf(Sent'))
<1>1. ArrivalsAccounted' <=> Account'
  BY AccountIs, PTL
<1>2. Account' <=> (running' /\ FixedRate => scheduled' = dropped' + SumOf(Sent'))
  BY DEF Account
<1>3. QED
  BY <1>1, <1>2

\* A step that leaves what was sent and what was scheduled keeps the account.
LEMMA SameAccount ==
    ASSUME ArrivalsAccounted, running' => running, UNCHANGED <<scheduled, dropped>>,
           running => \A d \in Conns : conn'[d].sent = conn[d].sent
    PROVE  ArrivalsAccounted'
<1>1. running' => Sent' = Sent
  BY DEF Sent
<1>2. running /\ FixedRate => scheduled = dropped + SumOf(Sent)
  BY AccountIs DEF Account
<1>3. QED
  BY <1>1, <1>2, AccountNext

\* At a fixed rate a socket event sends nothing.
LEMMA SocketEventSends ==
    ASSUME IInv, FixedRate, running, NEW c \in Conns, SocketEvent(c), NEW d \in Conns
    PROVE  conn'[d].sent = conn[d].sent
<1>1. TypeOK /\ running \in BOOLEAN /\ conn \in [Conns -> Connection] /\ conn[c] \in Connection
  BY DEF IInv, TypeOK
<1>2. ASSUME NEW k, k.sent = conn[c].sent, conn' = [conn EXCEPT ![c] = k]
      PROVE  conn'[d].sent = conn[d].sent
  BY <1>1, <1>2
<1>3. ASSUME NEW acc \in BOOLEAN, Connect(c, acc) \/ SocketDrain(c, acc)
      PROVE  conn'[d].sent = conn[d].sent
  <2> DEFINE k1 == Connected(conn[c], running, acc)
             k2 == Drain(conn[c], running, acc)
  <2>1. Becomes(c, k1) \/ Becomes(c, k2)
    BY <1>3 DEF Connect, SocketDrain
  <2>2. k1.sent = conn[c].sent /\ k2.sent = conn[c].sent
    BY <1>1, HandlersSent, Zenon
  <2> HIDE DEF k1, k2
  <2>3. QED
    BY <1>2, <2>1, <2>2 DEF Becomes
<1>4. ASSUME NEW n, NEW r, NEW tail, NEW acc \in BOOLEAN, Receive(c, n, tail, r, acc)
      PROVE  conn'[d].sent = conn[d].sent
  <2> DEFINE k == Data(conn[c], n, tail, r, running, acc)
  <2>1. MaybeCompleteWarmup([conn EXCEPT ![c] = k])
    BY <1>4 DEF Receive
  <2>2. conn[c] \in Connection /\ ~ClosedLoopActive(running)
    BY <1>1 DEF ClosedLoopActive
  <2>3. k.sent = conn[c].sent
    <3>1. PICK x : x = conn[c]
      OBVIOUS
    <3>2. PICK run : run = running
      OBVIOUS
    <3>3. x \in Connection /\ ~ClosedLoopActive(run)
      BY <2>2, <3>1, <3>2
    <3>4. Data(x, n, tail, r, run, acc).sent = x.sent
      BY <3>3, DataSent
    <3>5. QED
      BY <3>1, <3>2, <3>4
  <2> HIDE DEF k
  <2>4. QED
    BY <1>2, <2>1, <2>3, RunningLeaves
<1>5. ASSUME Timeout(c) \/ SocketError(c) \/ RemoteEnd(c) \/ ReconnectTimer(c)
      PROVE  conn'[d].sent = conn[d].sent
  <2>1. PICK s, b :
            \/ Becomes(c, Destroy(conn[c]))
            \/ Becomes(c, [conn[c] EXCEPT !.sock = s])
            \/ Becomes(c, Reconnect(conn[c], b))
    BY <1>5 DEF Timeout, SocketError, RemoteEnd, ReconnectTimer
  <2>2. QED
    BY <1>1, <1>2, <2>1, HandlersSent DEF Becomes
<1>6. ASSUME SocketClose(c)
      PROVE  conn'[d].sent = conn[d].sent
  <2>1. MaybeCompleteWarmup([conn EXCEPT ![c] = Closed(conn[c], running)])
    BY <1>6 DEF SocketClose
  <2>2. Closed(conn[c], running).sent = conn[c].sent
    BY <1>1, HandlersSent
  <2>3. QED
    BY <1>2, <2>1, <2>2, RunningLeaves
<1>7. QED
  BY <1>3, <1>4, <1>5, <1>6 DEF SocketEvent

\* A phase at a fixed rate begins with nothing scheduled and nothing sent.
LEMMA BeginPhaseAccount ==
    ASSUME NEW conns \in [Conns -> Connection], NEW accs, BeginPhase(conns, accs)
    PROVE  ArrivalsAccounted'
<1> SUFFICES ASSUME FixedRate
             PROVE  scheduled' = dropped' + SumOf(Sent')
  BY AccountNext
<1>1. \A c \in Conns : FillClosedLoop(ResetCounters(conns[c]), TRUE, accs[c]).sent = 0
  BY DEF FillClosedLoop, ClosedLoopActive, ResetCounters, Connection
<1>2. conn' = [c \in Conns |-> FillClosedLoop(ResetCounters(conns[c]), TRUE, accs[c])]
  BY DEF BeginPhase
<1>3. \A c \in Conns : conn'[c].sent = 0
  BY <1>1, <1>2
<1>4. Sent' \in [Conns -> Int] /\ \A c \in Conns : (Sent')[c] = 0
  BY <1>3 DEF Sent
<1>5. SumOf(Sent') = 0
  BY <1>4, ConnsAssumption, SumZero
<1>6. QED
  BY <1>5 DEF BeginPhase

\* What a tick schedules it sends or counts as dropped.
LEMMA RateTickAccount ==
    ASSUME IInv, ArrivalsAccounted,
           NEW due \in 1 .. MaxScheduled, NEW batch \in [Conns -> 0 .. Pipelining],
           NEW accs \in [Conns -> BOOLEAN], RateTick(due, batch, accs)
    PROVE  ArrivalsAccounted'
<1> DEFINE taken == SumOf(batch)
<1>1. /\ running /\ FixedRate
      /\ \A c \in Conns : batch[c] <= Capacity(conn[c], running)
      /\ taken \in 0 .. due
      /\ dropped' = dropped + (due - taken) /\ scheduled' = scheduled + due
      /\ conn' = [c \in Conns |-> Send(conn[c], batch[c], running, accs[c])]
  BY DEF RateTick, Dropped, SumOf
<1>2. \A c \in Conns : batch[c] \in Nat
  BY PipeliningAssumption
<1>3. \A c \in Conns : /\ ConnInv(conn[c]) /\ Recovering(conn[c])
                       /\ conn[c] \in Connection /\ conn[c].sent \in Nat
  BY <1>1 DEF IInv, PhaseInv, LedgerInv, Ledger, ConnInv, Connection
<1>4. \A c \in Conns : conn'[c].sent = conn[c].sent + batch[c]
  BY <1>1, <1>2, <1>3, BatchSent DEF IInv, TypeOK
<1>5. Sent \in [Conns -> Int] /\ Sent' \in [Conns -> Int] /\ batch \in [Conns -> Int]
      /\ \A c \in Conns : (Sent')[c] = Sent[c] + batch[c]
  BY <1>2, <1>3, <1>4 DEF Sent
<1>6. Sent \in [Conns -> Nat]
  BY <1>3 DEF Sent
<1>7. SumOf(Sent') = SumOf(Sent) + taken
  BY <1>5, ConnsAssumption, SumPlus
<1>8. SumOf(Sent) \in Nat
  BY <1>6, ConnsAssumption, SumType
<1>9. scheduled = dropped + SumOf(Sent)
  BY <1>1, AccountIs DEF Account
<1>10. scheduled \in Nat /\ dropped \in Nat /\ due \in Nat
  BY BoundsAssumption DEF IInv, TypeOK
<1> HIDE DEF taken
<1>11. scheduled' = dropped' + SumOf(Sent')
  BY <1>1, <1>7, <1>8, <1>9, <1>10
<1>12. QED
  BY <1>11, AccountNext

\* Every step of the worker keeps the account of the arrivals.
LEMMA StepAccount == IInv /\ ArrivalsAccounted /\ [WorkerNext]_vars => ArrivalsAccounted'
<1> SUFFICES ASSUME IInv, ArrivalsAccounted, [WorkerNext]_vars, FixedRate
             PROVE  ArrivalsAccounted'
  BY DEF ArrivalsAccounted
<1>1. conn \in [Conns -> Connection]
  BY DEF IInv, TypeOK
<1>2. ASSUME NEW c \in Conns, SocketEvent(c)
      PROVE  ArrivalsAccounted'
  <2>1. running' = running /\ UNCHANGED <<scheduled, dropped>>
    BY <1>2 DEF SocketEvent, Connect, SocketDrain, Receive, Timeout, SocketError, RemoteEnd,
       SocketClose, ReconnectTimer, timers
  <2>2. running => \A d \in Conns : conn'[d].sent = conn[d].sent
    BY <1>2, SocketEventSends
  <2>3. QED
    BY <2>1, <2>2, SameAccount
<1>3. ASSUME NEW accs, BeginWarmup(accs) \/ BeginMeasurement(accs)
      PROVE  ArrivalsAccounted'
  <2> DEFINE conns == [c \in Conns |-> ResetPhaseState(conn[c])]
  <2>1. BeginPhase(conn, accs) \/ BeginPhase(conns, accs)
    BY <1>3 DEF BeginWarmup, BeginMeasurement
  <2>2. conns \in [Conns -> Connection]
    BY <1>1 DEF ResetPhaseState, Connection
  <2> HIDE DEF conns
  <2>3. QED
    BY <1>1, <2>1, <2>2, BeginPhaseAccount
<1>4. ASSUME NEW accs \in [Conns -> BOOLEAN], NEW due \in 1 .. MaxScheduled,
             NEW batch \in [Conns -> 0 .. Pipelining], RateTick(due, batch, accs)
      PROVE  ArrivalsAccounted'
  BY <1>4, RateTickAccount
<1>5. CASE StopTimePasses \/ UNCHANGED vars
  BY <1>5, SameAccount DEF StopTimePasses, vars
<1>6. CASE WarmupTimer \/ MeasurementTimer
  BY <1>6 DEF WarmupTimer, MeasurementTimer, ArrivalsAccounted
<1>7. QED
  BY <1>2, <1>3, <1>4, <1>5, <1>6 DEF WorkerNext

\* At a fixed rate every arrival of the phase was sent on some connection or
\* counted as dropped, never both and never neither: no reconnect, timeout or
\* backpressure puts a request into the account or takes one out.
THEOREM ArrivalsAccountedHolds == Spec => []ArrivalsAccounted
<1>1. WorkerInit => ArrivalsAccounted
  BY DEF WorkerInit, ArrivalsAccounted
<1>2. IInv /\ ArrivalsAccounted /\ [WorkerNext]_vars => ArrivalsAccounted'
  BY StepAccount
<1>3. QED
  BY <1>1, <1>2, Invariance, PTL DEF Spec
================================================================================
