-------------------------- MODULE WebSocketConnection --------------------------
(***************************************************************************)
(* One WebSocket load connection, as operators on a record from before a   *)
(* handler to after it.  Unlike the HTTP/1 connection it may drop a socket *)
(* that is still alive (#discard) and open another: what the old socket    *)
(* still delivers must not be taken for an answer of the new one.          *)
(*                                                                         *)
(*   run   stands for LoadWorker.recordingActive                           *)
(*   rate  stands for data.ratePerSecond # undefined                       *)
(*                                                                         *)
(* What backpressure counts is the same for both protocols, and is checked *)
(* with Http1Connection.  Two fields are the server's: outstanding, what   *)
(* it owes on the current socket, and late, what may still arrive on       *)
(* discarded ones.                                                         *)
(***************************************************************************)
EXTENDS Naturals

CONSTANTS
    MaxInFlight,    \* data.maxInFlight
    MaxLate         \* bound: messages discarded sockets still deliver

ASSUME MaxInFlightAssumption == MaxInFlight \in Nat \ {0}
ASSUME MaxLateAssumption == MaxLate \in Nat

\* "closing" stands for CLOSING and CLOSED: the 'close' event is due.
SocketState == {"none", "opening", "open", "closing"}

Connection ==
    [sock : SocketState,        \* #socket and its readyState
     connected : BOOLEAN,       \* #connected
     reconnect : BOOLEAN,       \* #reconnectTimer is armed
     inFlight : Nat,            \* #timestamps.size
     timer : Nat,               \* #timeoutTimer: the request it is set for, 0 for none
     poll : BOOLEAN,            \* #backpressureTimer is armed
     over : BOOLEAN,            \* socket.bufferedAmount > maxBufferedBytes
     backpressured : BOOLEAN,   \* #backpressured
     atStop : Nat,              \* this connection's share of inFlightAtStop
     sent : Nat, completed : Nat, aborted : Nat,
     outstanding : Nat, late : Nat]

\* connect() on a fresh connection.
NewConnection ==
    [sock |-> "opening", connected |-> FALSE, reconnect |-> FALSE,
     inFlight |-> 0, timer |-> 0, poll |-> FALSE, over |-> FALSE,
     backpressured |-> FALSE, atStop |-> 0,
     sent |-> 0, completed |-> 0, aborted |-> 0,
     outstanding |-> 0, late |-> 0]

If1(b) == IF b THEN 1 ELSE 0
Recorded(run, n) == IF run THEN n ELSE 0
AtMost(n, bound) == IF n > bound THEN bound ELSE n
--------------------------------------------------------------------------------
(* Timers and backpressure *)

\* Requests are numbered in the order of the phase: the oldest of those in flight.
Oldest(k) == IF k.inFlight = 0 THEN 0 ELSE k.sent - k.inFlight + 1

\* Mutant: a timer that runs already is left alone.
ScheduleTimeoutOnce(k) == IF k.timer # 0 /\ k.inFlight > 0 THEN k ELSE [k EXCEPT !.timer = Oldest(k)]

\* Clear the timer and set it for the oldest request, if there is one.
ScheduleTimeout(k) == [k EXCEPT !.timer = Oldest(k)]

StartBackpressure(k) == [k EXCEPT !.backpressured = TRUE, !.poll = @ \/ ~k.backpressured]

EndBackpressure(k) == [k EXCEPT !.backpressured = FALSE, !.poll = @ /\ ~k.backpressured]

\* What 'close' and #discard have in common, with the reports to the worker.
LetGo(k, run) ==
    [EndBackpressure([k EXCEPT !.timer = 0, !.poll = FALSE]) EXCEPT
        !.sock = "none", !.connected = FALSE, !.over = FALSE,
        !.aborted = @ + Recorded(run, k.inFlight), !.inFlight = 0,
        !.reconnect = TRUE, !.outstanding = 0]

\* The socket is closed in the background and may deliver until then.
Discard(k, run) ==
    [LetGo(k, run) EXCEPT !.late = AtMost(@ + k.outstanding, MaxLate)]
--------------------------------------------------------------------------------
(* Sending: a batch of n messages, of which the last leaves the buffer over   *)
(* its mark ("over"), or after which one more send throws ("throws")          *)

Batch == [n : 0 .. MaxInFlight, last : {"under", "over", "throws"}]

Room(k) == MaxInFlight - k.inFlight

Attempts(b) == b.n + If1(b.last = "throws")

\* The batch is one the loop over #send can make when it may send `most`.
Possible(b, most) ==
    /\ Attempts(b) <= most
    /\ b.last = "over" => b.n > 0

SendBatch(k, b, run) ==
    LET q == ScheduleTimeout([k EXCEPT
                 !.inFlight = @ + b.n, !.outstanding = @ + b.n,
                 !.sent = @ + Recorded(run, b.n), !.over = (b.last = "over")])
    IN  CASE b.last = "under" -> q
          [] b.last = "over" -> StartBackpressure(q)
          [] b.last = "throws" -> Discard(q, run)

MayFill(k, run, rate) ==
    run /\ ~rate /\ k.connected /\ ~k.backpressured /\ k.sock = "open"

\* The batches fillClosedLoop can send: it stops when the pipeline is full, the
\* buffer over its mark or the socket gone.
Fills(k, run, rate) ==
    IF MayFill(k, run, rate) /\ Room(k) > 0
    THEN {b \in Batch : Possible(b, Room(k)) /\ (b.last = "under" => b.n = Room(k))}
    ELSE {[n |-> 0, last |-> "under"]}

FillClosedLoop(k, b, run, rate) ==
    IF MayFill(k, run, rate) /\ Room(k) > 0 THEN SendBatch(k, b, run) ELSE k

CanScheduleOperation(k, run, rate) ==
    /\ run /\ rate
    /\ k.connected /\ ~k.backpressured /\ k.sock = "open" /\ ~k.over
    /\ Room(k) > 0

Capacity(k, run, rate) == IF CanScheduleOperation(k, run, rate) THEN Room(k) ELSE 0

ScheduleOperations(k, b, run) == IF Attempts(b) = 0 THEN k ELSE SendBatch(k, b, run)
--------------------------------------------------------------------------------
(* Events of the current socket *)

Opened(k) == [k EXCEPT !.sock = "open", !.connected = TRUE]

\* An answer, up to the fill: it is matched with the oldest request.
Answered(k, run) ==
    LET q == ScheduleTimeout([k EXCEPT
                 !.inFlight = @ - 1, !.completed = @ + Recorded(run, 1),
                 !.outstanding = @ - 1])
    IN  IF ~q.over THEN EndBackpressure(q) ELSE q

\* 'close': the socket is gone, and what it owed never comes.
Closed(k, run) == LetGo(k, run)

\* The poll timer, up to the fill; over its mark it is armed again.
Polled(k) == IF k.over THEN k ELSE EndBackpressure(k)

Reconnect(k) == [k EXCEPT !.reconnect = FALSE, !.sock = "opening"]
--------------------------------------------------------------------------------
(* Calls of the worker *)

ResetPhaseState(k) == [k EXCEPT !.inFlight = 0, !.timer = 0]

\* measurement.start()
ResetCounters(k) ==
    [k EXCEPT !.sent = 0, !.completed = 0, !.aborted = 0]

\* stop(), after the worker has added inFlight to the total: every timer is
\* cleared, and no later event finds its socket.
Stop(k) ==
    [EndBackpressure(k) EXCEPT
        !.atStop = k.inFlight, !.sock = "none", !.connected = FALSE, !.over = FALSE,
        !.reconnect = FALSE, !.timer = 0, !.poll = FALSE, !.inFlight = 0,
        !.outstanding = 0, !.late = 0]
================================================================================
