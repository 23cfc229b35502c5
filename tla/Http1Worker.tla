------------------------------ MODULE Http1Worker ------------------------------
(***************************************************************************)
(* An HTTP/1 load worker thread: LoadWorker driving its Http1Connections.  *)
(* The thread runs one handler at a time, so a handler is one action; what *)
(* interleaves is the order in which socket events, timers and the         *)
(* coordinator's commands reach it.                                        *)
(*                                                                         *)
(* The coordinator's side is the guard of the two start commands: a phase  *)
(* is started once every worker has answered the one before (LoadRun).     *)
(***************************************************************************)
EXTENDS Http1Connection, WorkerContract, FiniteSets, Functions

CONSTANTS
    Conns,          \* the worker's connections
    MaxSent,        \* bound: requests a connection sends in a phase
    MaxTimeouts,    \* bound: timeouts recorded in a phase
    MaxScheduled    \* bound: fixed-rate arrivals in a phase

ASSUME ConnsAssumption == IsFiniteSet(Conns) /\ Conns # {}
ASSUME BoundsAssumption == MaxSent \in Nat /\ MaxTimeouts \in Nat /\ MaxScheduled \in Nat

VARIABLES
    conn,           \* [Conns -> Connection]
    running,        \* #running: the phase records and sends
    pastStop,       \* performance.now() >= #stopAt
    connected,      \* #connected
    timeouts,       \* errors.timeout
    scheduled,      \* #phaseScheduled
    dropped         \* rateDropped

vars == <<conn, phase, posted, running, pastStop, connected, timeouts, scheduled, dropped>>

timers == <<pastStop, scheduled, dropped>>
--------------------------------------------------------------------------------
\* start(): every connection is being opened, or one could not be created, and
\* then all of them are stopped and the worker reports a fatal error.
WorkerInit ==
    /\ \/ /\ Init
          /\ conn = [c \in Conns |-> NewConnection]
       \/ /\ InitFailed
          /\ conn = [c \in Conns |-> Stop(NewConnection)]
    /\ running = FALSE /\ pastStop = FALSE
    /\ connected = 0
    /\ timeouts = 0 /\ scheduled = 0 /\ dropped = 0

Drained(conns) == \A c \in Conns : conns[c].inFlight = 0

WithinBounds(conns) == \A c \in Conns : conns[c].sent <= MaxSent

\* #maybeCompleteWarmup, which a handler calls (through onConnectionIdle) after
\* it has taken something out of flight: conns is what the handler leaves.
MaybeCompleteWarmup(conns) ==
    IF phase = "warmup-draining" /\ Drained(conns)
    THEN /\ conn' = [c \in Conns |-> ResetPhaseState(conns[c])]
         /\ phase' = "idle"
         /\ posted' = Append(posted, "warmup-complete")
    ELSE /\ conn' = conns
         /\ UNCHANGED <<phase, posted>>

\* A handler of connection c leaves it as k.
Becomes(c, k) ==
    /\ k.sent <= MaxSent
    /\ conn' = [conn EXCEPT ![c] = k]
--------------------------------------------------------------------------------
(* Socket events.  A stopped connection has let go of its socket: sock = "none" *)

Connect(c, acc) ==
    /\ conn[c].sock = "opening"
    /\ Becomes(c, Connected(conn[c], running, acc))
    /\ connected' = connected + 1
    /\ posted' = IF posted = <<>> /\ connected + 1 = Cardinality(Conns)
                 THEN Append(posted, "ready") ELSE posted
    /\ UNCHANGED <<phase, running, timers, timeouts>>

\* The clock may pass the stop time while a chunk is handled: the last n - r
\* responses are then too late to be replaced.
Receive(c, n, tail, r, acc) ==
    /\ conn[c].sock = "open"
    /\ n \in 0 .. conn[c].inFlight /\ r \in 0 .. n
    /\ tail = "ok" => n > 0
    /\ tail = "surplus" => n = conn[c].inFlight
    /\ pastStop \/ ~ClosedLoopActive(running) => r = 0
    /\ pastStop' = (pastStop \/ (ClosedLoopActive(running) /\ r < n))
    /\ LET k == Data(conn[c], n, tail, r, running, acc)
       IN  /\ k.sent <= MaxSent
           /\ MaybeCompleteWarmup([conn EXCEPT ![c] = k])
    /\ UNCHANGED <<running, connected, timeouts, scheduled, dropped>>

\* Node emits 'drain' when the bytes write() complained about are out.
SocketDrain(c, acc) ==
    /\ conn[c].sock = "open" /\ conn[c].backpressured
    /\ Becomes(c, Drain(conn[c], running, acc))
    /\ UNCHANGED <<phase, posted, running, connected, timers, timeouts>>

\* The socket has been silent for timeoutMs, whether or not it owes an answer.
Timeout(c) ==
    /\ LiveSocket(conn[c])
    /\ timeouts' = timeouts + If1(running)
    /\ timeouts' <= MaxTimeouts
    /\ Becomes(c, Destroy(conn[c]))
    /\ UNCHANGED <<phase, posted, running, connected, timers>>

\* 'error': Node destroys the socket; the handler only counts.
SocketError(c) ==
    /\ LiveSocket(conn[c])
    /\ Becomes(c, [conn[c] EXCEPT !.sock = "destroyed"])
    /\ UNCHANGED <<phase, posted, running, connected, timers, timeouts>>

\* The server closes its side: nothing more will be received or written.
RemoteEnd(c) ==
    /\ conn[c].sock = "open"
    /\ Becomes(c, [conn[c] EXCEPT !.sock = "ending"])
    /\ UNCHANGED <<phase, posted, running, connected, timers, timeouts>>

\* Mutant: onConnectionDisconnected without its floor, for every closed socket.
SocketCloseUnderflows(c) ==
    /\ conn[c].sock \in {"ending", "destroyed"}
    /\ connected' = connected - 1
    /\ MaybeCompleteWarmup([conn EXCEPT ![c] = Closed(conn[c], running)])
    /\ UNCHANGED <<running, timers, timeouts>>

\* Mutant: onConnectionDisconnected also for a socket that never connected.
SocketCloseMiscounts(c) ==
    /\ conn[c].sock \in {"ending", "destroyed"}
    /\ connected' = IF connected > 0 THEN connected - 1 ELSE connected
    /\ MaybeCompleteWarmup([conn EXCEPT ![c] = Closed(conn[c], running)])
    /\ UNCHANGED <<running, timers, timeouts>>

\* Mutant: 'close' does not look whether the warmup is drained now.
SocketCloseSilent(c) ==
    /\ conn[c].sock \in {"ending", "destroyed"}
    /\ connected' = IF conn[c].connected /\ connected > 0 THEN connected - 1 ELSE connected
    /\ conn' = [conn EXCEPT ![c] = Closed(conn[c], running)]
    /\ UNCHANGED <<phase, posted, running, timers, timeouts>>

SocketClose(c) ==
    /\ conn[c].sock \in {"ending", "destroyed"}
    /\ connected' = IF conn[c].connected /\ connected > 0 THEN connected - 1 ELSE connected
    /\ MaybeCompleteWarmup([conn EXCEPT ![c] = Closed(conn[c], running)])
    /\ UNCHANGED <<running, timers, timeouts>>

ReconnectTimer(c) ==
    /\ conn[c].reconnect
    /\ Becomes(c, Reconnect(conn[c], phase = "finished"))
    /\ UNCHANGED <<phase, posted, running, connected, timers, timeouts>>
--------------------------------------------------------------------------------
(* The coordinator's commands *)

\* What both phases do once the connections are ready for them; accs[c] is what
\* connection c's socket answers to the first batch of a closed loop.
BeginPhase(conns, accs) ==
    /\ conn' = [c \in Conns |-> FillClosedLoop(ResetCounters(conns[c]), TRUE, accs[c])]
    /\ WithinBounds(conn')
    /\ running' = TRUE /\ pastStop' = FALSE
    /\ timeouts' = 0 /\ scheduled' = 0 /\ dropped' = 0
    /\ UNCHANGED <<posted, connected>>

BeginWarmup(accs) ==
    /\ phase = "idle" /\ posted = Ready
    /\ phase' = "warmup"
    /\ BeginPhase(conn, accs)

BeginMeasurement(accs) ==
    /\ phase = "idle" /\ posted \in {Ready, WarmedUp}
    /\ phase' = "measurement"
    /\ BeginPhase([c \in Conns |-> ResetPhaseState(conn[c])], accs)
--------------------------------------------------------------------------------
(* Timers of the worker *)

\* performance.now() reaches #stopAt; the stop timer may fire later.
StopTimePasses ==
    /\ running /\ ~pastStop
    /\ pastStop' = TRUE
    /\ UNCHANGED <<conn, phase, posted, running, connected, timeouts, scheduled, dropped>>

\* Mutant: the warmup is reported complete when its time is over.
WarmupTimerReportsEarly ==
    /\ phase = "warmup"
    /\ running' = FALSE /\ pastStop' = FALSE
    /\ phase' = IF Drained(conn) THEN "idle" ELSE "warmup-draining"
    /\ posted' = Append(posted, "warmup-complete")
    /\ conn' = [c \in Conns |-> ResetPhaseState(conn[c])]
    /\ UNCHANGED <<connected, timeouts, scheduled, dropped>>

\* #endPhase of the warmup.
WarmupTimer ==
    /\ phase = "warmup"
    /\ running' = FALSE /\ pastStop' = FALSE
    /\ IF Drained(conn)
       THEN /\ phase' = "idle"
            /\ posted' = Append(posted, "warmup-complete")
            /\ conn' = [c \in Conns |-> ResetPhaseState(conn[c])]
       ELSE /\ phase' = "warmup-draining"
            /\ UNCHANGED <<posted, conn>>
    /\ UNCHANGED <<connected, timeouts, scheduled, dropped>>

\* #endPhase of the measurement: the result is built from the counters.
MeasurementTimer ==
    /\ phase = "measurement"
    /\ phase' = "finished"
    /\ running' = FALSE /\ pastStop' = FALSE
    /\ conn' = [c \in Conns |-> Stop(conn[c])]
    /\ posted' = Append(posted, "result")
    /\ UNCHANGED <<connected, timeouts, scheduled, dropped>>

\* Mutant: the arrival that found no connection is not counted with the rest.
DroppedAfterFirst(due, taken) == IF taken < due THEN due - taken - 1 ELSE 0

\* The arrival that found no connection (already taken off due) and the rest.
Dropped(due, taken) == due - taken

\* #scheduleRate with due arrivals: connection c takes batch[c] of them and
\* sends them at once, and the arrivals no connection can take are dropped.
\* Which connection takes which arrival is RateSchedule's subject.
RateTick(due, batch, accs) ==
    /\ running /\ FixedRate
    /\ scheduled + due <= MaxScheduled
    /\ \A c \in Conns : batch[c] <= Capacity(conn[c], running)
    /\ LET taken == FoldFunction(+, 0, batch)
       IN  /\ taken \in 0 .. due
           /\ taken < due => \A c \in Conns : batch[c] = Capacity(conn[c], running)
           /\ dropped' = dropped + Dropped(due, taken)
    /\ scheduled' = scheduled + due
    /\ conn' = [c \in Conns |-> Send(conn[c], batch[c], running, accs[c])]
    /\ WithinBounds(conn')
    /\ UNCHANGED <<phase, posted, running, pastStop, connected, timeouts>>
--------------------------------------------------------------------------------
ChunkTail == {"ok", "surplus", "malformed"}

SocketEvent(c) ==
    \/ \E acc \in BOOLEAN :
        \/ Connect(c, acc)
        \/ SocketDrain(c, acc)
        \/ \E n, r \in 0 .. Pipelining, tail \in ChunkTail : Receive(c, n, tail, r, acc)
    \/ Timeout(c)
    \/ SocketError(c)
    \/ RemoteEnd(c)
    \/ SocketClose(c)
    \/ ReconnectTimer(c)

WorkerNext ==
    \/ \E c \in Conns : SocketEvent(c)
    \/ \E accs \in [Conns -> BOOLEAN] :
        \/ BeginWarmup(accs)
        \/ BeginMeasurement(accs)
        \/ \E due \in 1 .. MaxScheduled, batch \in [Conns -> 0 .. Pipelining] :
            RateTick(due, batch, accs)
    \/ StopTimePasses
    \/ WarmupTimer
    \/ MeasurementTimer

Spec == WorkerInit /\ [][WorkerNext]_vars

\* Timers fire, a destroyed socket is closed, and a socket that stays silent
\* times out; nothing says that the server answers, or how soon.
Fairness ==
    /\ WF_vars(WarmupTimer)
    /\ WF_vars(MeasurementTimer)
    /\ \A c \in Conns :
        /\ WF_vars(Timeout(c))
        /\ WF_vars(conn[c].sock = "destroyed" /\ SocketClose(c))
        /\ WF_vars(ReconnectTimer(c))

FairSpec == Spec /\ Fairness
--------------------------------------------------------------------------------
(* Safety *)

\* The variables have their types.
TypeOK ==
    /\ conn \in [Conns -> Connection]
    /\ phase \in Phase
    /\ posted \in Seq({"ready", "warmup-complete", "result", "fatal"})
    /\ running \in BOOLEAN /\ pastStop \in BOOLEAN
    /\ connected \in Nat /\ timeouts \in Nat /\ scheduled \in Nat /\ dropped \in Nat

\* While a phase records, every request it counted as sent has been counted as
\* completed or aborted, or is still in flight; and the result is balanced the
\* same way, with inFlightAtStop for what the end of the measurement left
\* unanswered.  No closed or failed socket, no reconnect and no response left
\* over from the warmup unbalances them.
Conservation ==
    \A c \in Conns :
        /\ running => conn[c].sent = conn[c].completed + conn[c].aborted + conn[c].inFlight
        /\ "result" \in Range(posted) =>
              conn[c].sent = conn[c].completed + conn[c].aborted + conn[c].atStop

\* A connection never holds more than `pipelining` requests, those waiting for
\* 'drain' included, so the overflow error of #send is never thrown: in 'drain'
\* or in the rate timer nothing would catch it.
PipelineBound ==
    \A c \in Conns :
        /\ conn[c].inFlight + conn[c].pending <= Pipelining
        /\ ~conn[c].threw

\* Until the stop time a closed loop keeps the pipeline of a working connection
\* full: no request slot is lost to backpressure, a reconnect or a late event.
PipelineFull ==
    ClosedLoopActive(running) /\ ~pastStop => \A c \in Conns :
        conn[c].connected /\ ~conn[c].failed =>
            conn[c].inFlight + conn[c].pending = Pipelining

\* An idle worker owes and is owed nothing: the measurement that starts from
\* here gets no answer to a request of the warmup.
IdleIsQuiet ==
    phase = "idle" => \A c \in Conns : conn[c].inFlight = 0 /\ conn[c].pending = 0

\* #connected, which decides when 'ready' is posted, is the number of connections
\* that are connected, although every socket event adjusts it on its own.
ConnectedCount ==
    phase # "finished" => connected = Cardinality({c \in Conns : conn[c].connected})

\* A connection without a socket has its reconnect timer armed: no order of
\* errors, timeouts and closes takes a connection out of the load for good.
NeverLost ==
    phase # "finished" => \A c \in Conns : conn[c].sock = "none" => conn[c].reconnect

\* Every backpressure event in a result has had its wait added to it.
WaitsComplete ==
    phase = "finished" => \A c \in Conns : conn[c].waits >= conn[c].events

\* Every arrival of the schedule was sent on some connection or counted as
\* dropped, never both and never neither.
ArrivalsAccounted ==
    running /\ FixedRate =>
        scheduled = dropped + FoldFunction(+, 0, [c \in Conns |-> conn[c].sent])
--------------------------------------------------------------------------------
(* Claims of the repository's documentation that the code does not keep *)

\* "start() discards its counters [...] before the measured phase"
\* (load-worker.ts:191): a wait the measurement counts began in the measurement.
WaitsBelongToPhase ==
    running => \A c \in Conns : conn[c].waits <= conn[c].events

\* "Per-request inactivity timeout" (http1/types.ts:122): what is counted as a
\* timeout is a connection that waits for an answer.
TimeoutMeansRequestWaiting ==
    [][timeouts' > timeouts =>
        \E c \in Conns : conn[c].inFlight > 0 /\ conn'[c].failed /\ ~conn[c].failed]_vars
--------------------------------------------------------------------------------
(* Progress and refinement *)

\* The drain of the warmup comes to an end even if the server never answers:
\* silent sockets time out, and what they owed is given up with them.
DrainCompletes == phase = "warmup-draining" ~> phase # "warmup-draining"

\* The worker goes through the phases, and posts the messages, that the
\* coordinator relies on.
ImplementsContract == ContractSpec
================================================================================
