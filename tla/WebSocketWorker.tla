---------------------------- MODULE WebSocketWorker ----------------------------
(***************************************************************************)
(* A WebSocket load worker thread: LoadWorker driving WebSocketConnections,*)
(* closed loop or at a fixed rate.  An action is a handler of the thread.  *)
(* It keeps the same contract with the coordinator as Http1Worker, though  *)
(* nothing of how its connections fail, wait and recover is the same.      *)
(***************************************************************************)
EXTENDS WebSocketConnection, WorkerContract, FiniteSets, Functions

CONSTANTS
    Conns,          \* the worker's connections
    Rates,          \* which modes are explored: TRUE for a fixed rate
    MaxSent,        \* bound: messages a connection sends in a phase
    MaxScheduled    \* bound: fixed-rate arrivals in a phase

ASSUME ConnsAssumption == IsFiniteSet(Conns) /\ Conns # {}
ASSUME RatesAssumption == Rates \subseteq BOOLEAN /\ Rates # {}
ASSUME BoundsAssumption == MaxSent \in Nat /\ MaxScheduled \in Nat

VARIABLES
    conn,           \* [Conns -> Connection]
    rate,           \* data.ratePerSecond is given
    running,        \* #running
    connected,      \* #connected
    scheduled,      \* #phaseScheduled
    dropped         \* rateDropped

vars == <<conn, rate, phase, posted, running, connected, scheduled, dropped>>

arrivals == <<scheduled, dropped>>

WorkerInit ==
    /\ rate \in Rates
    /\ \/ /\ Init
          /\ conn = [c \in Conns |-> NewConnection]
       \/ /\ InitFailed
          /\ conn = [c \in Conns |-> Stop(NewConnection)]
    /\ running = FALSE /\ connected = 0
    /\ scheduled = 0 /\ dropped = 0

Drained(conns) == \A c \in Conns : conns[c].inFlight = 0

\* #maybeCompleteWarmup, reached through onConnectionIdle.
MaybeCompleteWarmup(conns) ==
    IF phase = "warmup-draining" /\ Drained(conns)
    THEN /\ conn' = [c \in Conns |-> ResetPhaseState(conns[c])]
         /\ phase' = "idle"
         /\ posted' = Append(posted, "warmup-complete")
    ELSE /\ conn' = conns
         /\ UNCHANGED <<phase, posted>>

\* onConnectionConnected and onConnectionDisconnected, which the handlers call
\* whenever they change #connected of a connection.
CountConnected(before, after) ==
    connected' = CASE after /\ ~before -> connected + 1
                   [] before /\ ~after /\ connected > 0 -> connected - 1
                   [] OTHER -> connected

\* A handler of c leaves it as k, and may have completed the warmup.
Becomes(c, k) ==
    /\ k.sent <= MaxSent
    /\ CountConnected(conn[c].connected, k.connected)
    /\ MaybeCompleteWarmup([conn EXCEPT ![c] = k])
    /\ UNCHANGED <<rate, running, arrivals>>

\* The handler ends with fillClosedLoop.
FillsUp(c, k) ==
    \E b \in Fills(k, running, rate) : Becomes(c, FillClosedLoop(k, b, running, rate))
--------------------------------------------------------------------------------
(* Events of the current socket *)

\* 'open'; the first time all connections are up the worker is ready.
Open(c) ==
    /\ conn[c].sock = "opening"
    /\ \E b \in Fills(Opened(conn[c]), running, rate) :
        LET k == FillClosedLoop(Opened(conn[c]), b, running, rate)
        IN  /\ k.sent <= MaxSent
            /\ conn' = [conn EXCEPT ![c] = k]
            /\ CountConnected(FALSE, k.connected)
    /\ posted' = IF posted = <<>> /\ connected + 1 = Cardinality(Conns)
                 THEN Append(posted, "ready") ELSE posted
    /\ UNCHANGED <<phase, rate, running, arrivals>>

\* 'message' that answers the oldest request.
Message(c) ==
    /\ conn[c].sock = "open" /\ conn[c].outstanding > 0 /\ conn[c].inFlight > 0
    /\ FillsUp(c, Answered(conn[c], running))

\* 'message' with no request to match it.
UnsolicitedMessage(c) ==
    /\ conn[c].sock = "open" /\ conn[c].inFlight = 0
    /\ Becomes(c, Discard(conn[c], running))

\* Mutant: the listeners do not ask whose event it is.
StaleMessageCounted(c) ==
    /\ conn[c].late > 0
    /\ LET k == [conn[c] EXCEPT !.late = @ - 1]
       IN  IF k.sock = "open" /\ k.inFlight > 0
           THEN Becomes(c, [k EXCEPT !.inFlight = @ - 1, !.completed = @ + Recorded(running, 1)])
           ELSE Becomes(c, k)

\* 'message' of a discarded socket: socket !== this.#socket.
StaleMessage(c) ==
    /\ conn[c].late > 0
    /\ Becomes(c, [conn[c] EXCEPT !.late = @ - 1])

\* 'error', or the peer's closing handshake: nothing is sent or received any
\* more, and 'close' follows.
SocketEnds(c) ==
    /\ conn[c].sock \in {"opening", "open"}
    /\ Becomes(c, [conn[c] EXCEPT !.sock = "closing"])

\* Mutant: a socket that never opened is not replaced.
SocketCloseUnlessFailed(c) ==
    /\ conn[c].sock = "closing"
    /\ Becomes(c, [Closed(conn[c], running) EXCEPT !.reconnect = conn[c].connected])

SocketClose(c) ==
    /\ conn[c].sock = "closing"
    /\ Becomes(c, Closed(conn[c], running))

\* The network takes what was buffered.
BufferDrains(c) ==
    /\ conn[c].sock \in {"open", "closing"} /\ conn[c].over
    /\ Becomes(c, [conn[c] EXCEPT !.over = FALSE])
--------------------------------------------------------------------------------
(* Timers of a connection *)

\* Mutant: a connection that timed out is discarded without the idle check.
TimeoutTimerSilent(c) ==
    /\ conn[c].timer # 0
    /\ conn' = [conn EXCEPT ![c] = Discard(conn[c], running)]
    /\ CountConnected(conn[c].connected, FALSE)
    /\ UNCHANGED <<phase, posted, rate, running, arrivals>>

\* The oldest request has been in flight for timeoutMs.
TimeoutTimer(c) ==
    /\ conn[c].timer # 0
    /\ Becomes(c, IF conn[c].inFlight = 0 \/ conn[c].sock = "none"
                  THEN [conn[c] EXCEPT !.timer = 0]
                  ELSE Discard(conn[c], running))

PollTimer(c) ==
    /\ conn[c].poll
    /\ FillsUp(c, Polled(conn[c]))

\* connect() does nothing when there is a socket.
ReconnectTimer(c) ==
    /\ conn[c].reconnect
    /\ Becomes(c, IF conn[c].sock = "none"
                  THEN Reconnect(conn[c])
                  ELSE [conn[c] EXCEPT !.reconnect = FALSE])
--------------------------------------------------------------------------------
(* The coordinator's commands and the timers of the worker *)

\* #startPhase once the connections are ready for it.
BeginPhase(conns) ==
    LET fresh(c) == ResetCounters(conns[c])
    IN  \E bs \in [Conns -> Batch] :
        /\ \A c \in Conns : bs[c] \in Fills(fresh(c), TRUE, rate)
        /\ conn' = [c \in Conns |-> FillClosedLoop(fresh(c), bs[c], TRUE, rate)]
        /\ \A c \in Conns : conn'[c].sent <= MaxSent
        /\ connected' = connected
              - Cardinality({c \in Conns : conns[c].connected /\ ~conn'[c].connected})
        /\ running' = TRUE
        /\ scheduled' = 0 /\ dropped' = 0
        /\ UNCHANGED <<posted, rate>>

BeginWarmup ==
    /\ phase = "idle" /\ posted = Ready
    /\ phase' = "warmup"
    /\ BeginPhase(conn)

BeginMeasurement ==
    /\ phase = "idle" /\ posted \in {Ready, WarmedUp}
    /\ phase' = "measurement"
    /\ BeginPhase([c \in Conns |-> ResetPhaseState(conn[c])])

\* Mutant: the warmup is reported at its timer, and again when it has drained.
WarmupTimerReportsEarly ==
    /\ phase = "warmup"
    /\ running' = FALSE
    /\ phase' = IF Drained(conn) THEN "idle" ELSE "warmup-draining"
    /\ posted' = Append(posted, "warmup-complete")
    /\ UNCHANGED <<conn, rate, connected, arrivals>>

WarmupTimer ==
    /\ phase = "warmup"
    /\ running' = FALSE
    /\ IF Drained(conn)
       THEN /\ phase' = "idle"
            /\ posted' = Append(posted, "warmup-complete")
            /\ conn' = [c \in Conns |-> ResetPhaseState(conn[c])]
       ELSE /\ phase' = "warmup-draining"
            /\ UNCHANGED <<posted, conn>>
    /\ UNCHANGED <<rate, connected, arrivals>>

\* Mutant: the connections are stopped before what they have in flight is counted.
MeasurementTimerStopsFirst ==
    /\ phase = "measurement"
    /\ phase' = "finished"
    /\ running' = FALSE
    /\ conn' = [c \in Conns |-> [Stop(conn[c]) EXCEPT !.atStop = 0]]
    /\ posted' = Append(posted, "result")
    /\ UNCHANGED <<rate, connected, arrivals>>

MeasurementTimer ==
    /\ phase = "measurement"
    /\ phase' = "finished"
    /\ running' = FALSE
    /\ conn' = [c \in Conns |-> Stop(conn[c])]
    /\ posted' = Append(posted, "result")
    /\ UNCHANGED <<rate, connected, arrivals>>

\* #scheduleRate: connections take arrivals while they have room, their buffer
\* stays below the mark and no send throws; the others are dropped.
RateTick(due, bs) ==
    /\ running /\ rate
    /\ scheduled + due <= MaxScheduled
    /\ \A c \in Conns : Possible(bs[c], Capacity(conn[c], running, rate))
    /\ LET taken == FoldFunction(+, 0, [c \in Conns |-> Attempts(bs[c])])
       IN  /\ taken \in 0 .. due
           /\ taken < due => \A c \in Conns :
                bs[c].last = "under" => bs[c].n = Capacity(conn[c], running, rate)
           /\ dropped' = dropped + (due - taken)
    /\ scheduled' = scheduled + due
    /\ conn' = [c \in Conns |-> ScheduleOperations(conn[c], bs[c], running)]
    /\ connected' = connected
          - Cardinality({c \in Conns : conn[c].connected /\ ~conn'[c].connected})
    /\ \A c \in Conns : conn'[c].sent <= MaxSent
    /\ UNCHANGED <<rate, phase, posted, running>>
--------------------------------------------------------------------------------
ConnectionEvent(c) ==
    \/ Open(c) \/ Message(c) \/ UnsolicitedMessage(c) \/ StaleMessage(c)
    \/ SocketEnds(c) \/ SocketClose(c) \/ BufferDrains(c)
    \/ TimeoutTimer(c) \/ PollTimer(c) \/ ReconnectTimer(c)

WorkerNext ==
    \/ \E c \in Conns : ConnectionEvent(c)
    \/ BeginWarmup
    \/ BeginMeasurement
    \/ WarmupTimer
    \/ MeasurementTimer
    \/ \E due \in 1 .. MaxScheduled, bs \in [Conns -> Batch] : RateTick(due, bs)

\* Timers fire.  Nothing is assumed of the server or the network.
Fairness ==
    /\ WF_vars(WarmupTimer)
    /\ \A c \in Conns : WF_vars(TimeoutTimer(c))

Spec == WorkerInit /\ [][WorkerNext]_vars
FairSpec == Spec /\ Fairness
--------------------------------------------------------------------------------
\* The variables have their types, and every message counted as sent in a phase
\* has been counted as received or lost in it or is still in flight; the result
\* adds up with inFlightAtStop: no discarded socket, reconnect or phase change
\* loses one or counts it twice.
Conservation ==
    /\ conn \in [Conns -> Connection]
    /\ phase \in Phase
    /\ posted \in Seq({"ready", "warmup-complete", "result", "fatal"})
    /\ {rate, running} \subseteq BOOLEAN
    /\ {connected, scheduled, dropped} \subseteq Nat
    /\ \A c \in Conns :
        /\ running => conn[c].sent = conn[c].completed + conn[c].aborted + conn[c].inFlight
        /\ "result" \in Range(posted) =>
              conn[c].sent = conn[c].completed + conn[c].aborted + conn[c].atStop

\* What a connection has in flight is what the server owes it on the current
\* socket: no answer of a discarded socket, and none of the warmup, is matched
\* with another request's timestamp.
AnswersAreOwn ==
    \A c \in Conns : conn[c].sock = "open" => conn[c].inFlight = conn[c].outstanding

\* The timeout is armed for the oldest request in flight, and only while there
\* is one: a request is never timed by the clock of the one before it.
TimerOnOldest == \A c \in Conns : conn[c].timer = Oldest(conn[c])

\* A connection in a running closed loop is never stuck: its pipeline is full,
\* or something that will fill it again is due - a poll of the buffer, the close
\* of its socket or a reconnect.
NeverStalls ==
    phase # "finished" => \A c \in Conns :
        /\ conn[c].sock = "none" => conn[c].reconnect
        /\ conn[c].backpressured => conn[c].poll
        /\ running /\ ~rate /\ conn[c].sock = "open" /\ ~conn[c].backpressured =>
              conn[c].inFlight = MaxInFlight

\* The warmup drain ends although the server may never answer: whatever is still
\* in flight runs into its timeout.
DrainCompletes == phase = "warmup-draining" ~> phase # "warmup-draining"

\* The WebSocket worker keeps the contract the coordinator relies on.
ImplementsContract == ContractSpec
================================================================================
