---------------------------- MODULE Http1Connection ----------------------------
(***************************************************************************)
(* One HTTP/1 load connection: the socket it owns, the requests it has in  *)
(* flight, and the backpressure bookkeeping it inherits from               *)
(* LoadConnection.  A connection is a record, and every handler of the     *)
(* class is an operator from the record before the handler to the record   *)
(* after it; Http1Worker turns them into actions.                          *)
(*                                                                         *)
(* The measurement counters of the worker are kept per connection here     *)
(* (sent, completed, aborted, events, waits): the worker's counter is      *)
(* their sum, and the balance they obey holds connection by connection.    *)
(*                                                                         *)
(*   run   stands for LoadWorker.recordingActive (its #running flag)       *)
(*   acc   is what socket.write answered: FALSE asks the sender to wait    *)
(*                                                                         *)
(* An operator that PROJECT.json lists as a mutant is a plausible bug in   *)
(* the operator that follows it; nothing in the specification uses it.     *)
(***************************************************************************)
EXTENDS Naturals

CONSTANTS
    Pipelining,     \* requests a connection may have in flight
    FixedRate       \* TRUE: arrivals at a fixed rate; FALSE: closed loop

ASSUME PipeliningAssumption == Pipelining \in Nat \ {0}
ASSUME FixedRateAssumption == FixedRate \in BOOLEAN

\* "ending": the peer has sent its FIN and Node is ending our side, so nothing
\* can be written any more; "destroyed": destroy() was called, 'close' is due.
SocketState == {"none", "opening", "open", "ending", "destroyed"}

Connection ==
    [sock : SocketState,        \* #socket, with the life cycle of the net.Socket
     connected : BOOLEAN,       \* #connected
     reconnect : BOOLEAN,       \* #reconnectScheduled: the 25 ms timer is armed
     failed : BOOLEAN,          \* #protocolFailure or #timeoutFailure
     inFlight : Nat,            \* #timestamps.size
     pending : Nat,             \* #pendingClosedLoop
     backpressured : BOOLEAN,   \* #backpressured
     measured : BOOLEAN,        \* #backpressureMeasured
     threw : BOOLEAN,           \* #send has thrown its overflow error
     atStop : Nat,              \* this connection's share of inFlightAtStop
     sent : Nat, completed : Nat, aborted : Nat,
     events : Nat,              \* backpressureEvents
     waits : Nat]               \* waits added to backpressureWaitMs

\* connect() on a fresh connection: a socket is being opened.
NewConnection ==
    [sock |-> "opening", connected |-> FALSE, reconnect |-> FALSE, failed |-> FALSE,
     inFlight |-> 0, pending |-> 0, backpressured |-> FALSE, measured |-> FALSE,
     threw |-> FALSE, atStop |-> 0,
     sent |-> 0, completed |-> 0, aborted |-> 0, events |-> 0, waits |-> 0]

If1(b) == IF b THEN 1 ELSE 0
Recorded(run, n) == IF run THEN n ELSE 0

ClosedLoopActive(run) == run /\ ~FixedRate

LiveSocket(k) == k.sock \in {"opening", "open", "ending"}
--------------------------------------------------------------------------------
(* Backpressure *)

BeginBackpressure(k, run) ==
    IF k.backpressured
    THEN k
    ELSE [k EXCEPT !.backpressured = TRUE, !.measured = run, !.events = @ + If1(run)]

\* The wait is recorded whenever its start was, without asking recordingActive.
FinishBackpressure(k) ==
    [k EXCEPT !.waits = @ + If1(k.backpressured /\ k.measured),
              !.backpressured = FALSE,
              !.measured = FALSE]
--------------------------------------------------------------------------------
(* Sending *)

\* write() on a socket that is not open answers FALSE: its bytes go nowhere.
Send(k, n, run, acc) ==
    LET q == [k EXCEPT !.inFlight = @ + n, !.sent = @ + Recorded(run, n)]
    IN  IF k.sock = "none" \/ ~k.connected \/ n = 0 THEN k
        ELSE IF k.inFlight + n > Pipelining THEN [k EXCEPT !.threw = TRUE]
        ELSE IF acc /\ k.sock = "open" THEN q
        ELSE BeginBackpressure(q, run)

\* Mutant: the responses that arrive under backpressure are not replaced.
ReplenishOnlyWhenWritable(k, n, run, acc) ==
    IF ClosedLoopActive(run) /\ ~k.backpressured THEN Send(k, n, run, acc) ELSE k

Replenish(k, n, run, acc) ==
    IF ~ClosedLoopActive(run) \/ n = 0 THEN k
    ELSE IF k.backpressured THEN [k EXCEPT !.pending = @ + n]
    ELSE Send(k, n, run, acc)

FillClosedLoop(k, run, acc) ==
    IF ClosedLoopActive(run) /\ k.connected /\ k.inFlight = 0
    THEN Replenish(k, Pipelining, run, acc)
    ELSE k

CanScheduleOperation(k, run) ==
    run /\ FixedRate /\ k.connected /\ ~k.backpressured /\ k.inFlight < Pipelining

\* Mutant: a batch may fill the pipeline whatever is in flight already.
CapacityIgnoringInFlight(k, run) == IF CanScheduleOperation(k, run) THEN Pipelining ELSE 0

\* How many operations a connection accepts before canScheduleOperation says no.
Capacity(k, run) == IF CanScheduleOperation(k, run) THEN Pipelining - k.inFlight ELSE 0
--------------------------------------------------------------------------------
(* Socket events *)

Connected(k, run, acc) ==
    FillClosedLoop([k EXCEPT !.sock = "open", !.connected = TRUE, !.reconnect = FALSE], run, acc)

Destroy(k) == [k EXCEPT !.failed = TRUE, !.sock = "destroyed"]

\* n responses answer the n oldest requests.
Answer(k, n, run) == [k EXCEPT !.inFlight = @ - n, !.completed = @ + Recorded(run, n)]

\* A chunk that completes n responses, the first r of them before the stop time,
\* and then holds nothing more ("ok"), a response nobody asked for ("surplus")
\* or bytes the parser rejects ("malformed": the exception skips the replenish).
Data(k, n, tail, r, run, acc) ==
    LET answered == Answer(k, n, run)
        refilled == Replenish(IF tail = "surplus" THEN Destroy(answered) ELSE answered, r, run, acc)
    IN  IF tail = "malformed" THEN Destroy(answered)
        ELSE IF refilled.threw THEN Destroy(refilled)
        ELSE refilled

\* Mutant: what was waiting is sent but stays marked as waiting.
DrainKeepsPending(k, run, acc) ==
    IF k.backpressured
    THEN Replenish(FinishBackpressure(k), k.pending, run, acc)
    ELSE k

Drain(k, run, acc) ==
    LET q == FinishBackpressure(k)
    IN  IF ~k.backpressured THEN k
        ELSE IF k.pending > 0 /\ ClosedLoopActive(run)
        THEN Send([q EXCEPT !.pending = 0], k.pending, run, acc)
        ELSE q

\* Mutant: the timestamps of the aborted requests are not cleared.
ClosedKeepsTimestamps(k, run) ==
    [FinishBackpressure(k) EXCEPT
        !.sock = "none", !.connected = FALSE, !.reconnect = TRUE, !.failed = FALSE,
        !.aborted = @ + Recorded(run, k.inFlight), !.pending = 0]

\* Mutant: a socket that never connected is not replaced.
ClosedReconnectsIfConnected(k, run) ==
    [FinishBackpressure(k) EXCEPT
        !.sock = "none", !.connected = FALSE, !.reconnect = k.connected, !.failed = FALSE,
        !.aborted = @ + Recorded(run, k.inFlight), !.inFlight = 0, !.pending = 0]

\* 'close': what was in flight is aborted, and a reconnect is scheduled.
Closed(k, run) ==
    [FinishBackpressure(k) EXCEPT
        !.sock = "none", !.connected = FALSE, !.reconnect = TRUE, !.failed = FALSE,
        !.aborted = @ + Recorded(run, k.inFlight), !.inFlight = 0, !.pending = 0]

\* The reconnect timer; connect() opens nothing once the connection is stopped.
Reconnect(k, stopped) ==
    [k EXCEPT !.reconnect = FALSE, !.sock = IF stopped THEN @ ELSE "opening"]
--------------------------------------------------------------------------------
(* Calls of the worker *)

\* Mutant: the requests a full socket held back survive the phase.
ResetKeepsPending(k) == k

ResetPhaseState(k) == [k EXCEPT !.pending = 0]

\* Mutant: the errors are not among what is reset.
ResetCountersButErrors(k) ==
    [k EXCEPT !.sent = 0, !.completed = 0, !.events = 0, !.waits = 0]

\* measurement.start(): the counters restart from zero.
ResetCounters(k) ==
    [k EXCEPT !.sent = 0, !.completed = 0, !.aborted = 0, !.events = 0, !.waits = 0]

\* Mutant: a wait that is still running is not recorded.
StopForgetsWait(k) ==
    [k EXCEPT !.backpressured = FALSE, !.measured = FALSE,
              !.atStop = k.inFlight, !.sock = "none", !.inFlight = 0, !.pending = 0]

\* stop(), after the worker has added this connection's inFlight to the total.
Stop(k) ==
    [FinishBackpressure(k) EXCEPT
        !.atStop = k.inFlight, !.sock = "none", !.inFlight = 0, !.pending = 0]
================================================================================
