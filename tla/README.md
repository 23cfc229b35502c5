# A formal model of benchkit

TLA+ modules, TLC configurations and TLAPS proofs for the benchmark toolkit in
`src/`. It covers both load generators and the coordinator that drives their worker threads, the
control plane of a target (session, agent, target runtime, and how they end), the two stream
decoders, and the measurement: counters, histograms, samplers, statistics and verdicts.

## The system

benchkit has two halves that meet in the benchmark script.

**Load generation** (`src/src/load`). `LoadCoordinator.run()` lives in the main thread. It starts
worker threads, waits for `ready` from each, sends `start warmup`, waits for `warmup-complete`
from each, sends `start measurement`, waits for a `result` from each, and terminates the threads
whatever happened. A `LoadWorker` owns a number of connections (`Http1Connection` or
`WebSocketConnection`) which call it back on every socket event; it counts what they report while
a phase is *running*. Connections keep their pipelines full (closed loop) or take arrivals from a
1 ms timer (fixed rate).

**Target control** (`src/src/target-provider`, `agent`, `target`, `control`, `orchestration`).
`TargetProvider.start()` spawns an agent, locally or over SSH, and talks NDJSON with it through
`ControlClient`; the agent forks the target and relays metrics and shutdown commands to the
`TargetRuntime` in it over IPC. Session and agent each run a `TargetStateMachine`.

Around these are measurement helpers, statistics, regression guards, profiling and reporting,
which compute on data and have little behaviour.

| Component | State | Operations | Talks to | Hard part | What makes it correct |
|---|---|---|---|---|---|
| HTTP/1 connection | socket, timestamps in flight, requests held back, backpressure episode, failure flags, reconnect timer | socket events, fill, schedule, reset, stop | its worker (calls), the server | event order, requests held back for `drain`, reconnects | never over the pipeline; balanced counters; always comes back |
| Load worker | phase, connected count, running flag, timers, counters | start a phase, end it, drain, rate tick | connections, coordinator (messages) | late answers at the phase boundary | no warmup request leaks into the measurement; the drain ends |
| Fixed-rate scheduler | arrivals scheduled, whose turn it is | tick | connections | split over workers, drops | every arrival sent or dropped once, evenly, in order |
| Load coordinator | what it waits for, its workers, sampler | `run` | workers (messages, events), abort signal | failures of one worker in any phase | lock step; always settles; leaves nothing behind |
| WebSocket connection | socket, timestamps, three timers | socket events, discard | its worker, the server | events of discarded sockets, request timer | as HTTP/1 |
| Control client, session | pending requests, failure, state machine | request, close, start/stop metrics, stop | agent (NDJSON) | answers after the timeout, transport failure in a request | state agrees with the agent, or is `failed` |
| Agent | state machine, target, pending target requests, queues | handle, start, terminate | client, target (IPC) | checks before an await and transitions after it; cleanup on every exit path | no target outlives its agent |
| Target runtime | measuring flag, hooks, shutdown promise | metrics commands, shutdown | agent | shutdown asked for twice and by several ways | hooks run once |
| Child processes | - | wait for exit, terminate | OS | exit races deadlines | bounded, escalates |
| Parsers (HTTP/1, NDJSON) | partial input | push | connection, client, agent | arbitrary chunking | same result for every chunking |
| Latency recorder, statistics | histogram | record, merge, quantile | - | boundaries | merge is the union |

The hazards of each component, at their lines, are in `PROJECT.json`.

## Modules

| Module | Models | From |
|---|---|---|
| `WorkerContract` | what any load worker promises the coordinator: phases and messages | `load-worker.ts`, abstractly |
| `Http1Connection` | the handlers of one connection, as operators on a record | `http1-connection.ts`, `load-connection.ts` |
| `Http1Worker` | a worker thread and its connections as a state machine; refines `WorkerContract` | `load-worker.ts`, `http1-load-worker.ts` |
| `MCHttp1Worker` | connection symmetry for TLC | |
| `MCHttp1Modes` | the worker in either mode, each on its own bounds, in one state space | |
| `RateSchedule` | the schedule over all workers: split, round robin, drops | `#scheduleRate`, `#nextAvailableRateConnection`, `#startWorkers` |
| `LoadRun` | `LoadCoordinator.run()`, the worker threads and the ports between them | `load-coordinator.ts` |
| `WebSocketConnection` | the handlers of one connection, as operators on a record | `websocket-connection.ts` |
| `WebSocketWorker` | a WebSocket worker thread and its connections; refines `WorkerContract` | `load-worker.ts`, `websocket-load-worker.ts` |
| `TargetControl` | provider, client, session, agent and runtime, with the streams between them | `target-provider/`, `agent/`, `target/`, `control/state-machine.ts` |
| `TargetShutdown` | how agent and target end: deadlines, signals, hooks | `agent.ts`, `agent-stdio-runtime.ts`, `runtime.ts`, `managed-child-process.ts` |
| `ResponseParser` | the HTTP/1 response parser over any cut of a stream | `response-parser.ts` |
| `NdjsonDecoder` | the decoder of the control stream over any cut | `ndjson.ts` |
| `LatencyHistogram` | the mergeable histogram, as operators | `bounded-latency-recorder.ts` |
| `LoadMeasurement` | what workers record, post, and what is aggregated | `load-worker-measurement.ts`, `aggregate-load-phase.ts`, `run-*-load.ts` |
| `RingBuffers` | the queue of request timestamps and the legacy recorder | `timestamp-queue.ts`, `latency-recorder.ts` |
| `MemorySampling` | `Metrics`, `ProcessMemorySampler`, `measureBatch`, `measureMemoryGrowth` | `measurement/` |
| `Samples` | sum, product and order of a sequence of samples, as operators | `measurement/`, `statistics/` |
| `Statistics` | medians, quantiles, hinges, paired comparison, as operators | `statistics/` |
| `Regression` | a balanced schedule, its measurements and the three guards | `balanced-schedule.ts`, `regression/` |
| `MCData` | the sequential modules and `RateSchedule` side by side, one of them moving | |
| `Http1WorkerProofs`, `WebSocketWorkerProofs`, `LoadRunProofs`, `RateScheduleProofs`, `TargetControlProofs`, `TargetShutdownProofs` | the theorems below about the module each is named after, and about its connections | |
| `MeasurementProofs` | the theorems below about `RingBuffers`, `MemorySampling`, `Statistics`, `Regression` and `LoadMeasurement`, with its `LatencyHistogram` | |
| `FoldTheorems` | induction over numbers, finite sets and sequences, folds, sums, division: lemmas the others cite | |

### Http1Connection and Http1Worker

A thread runs one handler at a time, so an action is a whole handler with every call it makes:
`SocketClose` is the `close` listener together with `onConnectionDisconnected`,
`onConnectionClosed`, the idle check that may complete the warmup, and the arming of the
reconnect timer. What interleaves is the order in which sockets, timers and commands reach the
thread.

| Code | Model |
|---|---|
| `#socket` and the life of its `net.Socket` | `sock`: none, opening, open, ending (FIN received), destroyed (`close` is due) |
| `#timestamps.size`, `#pendingClosedLoop` | `inFlight`, `pending` |
| `#protocolFailure`, `#timeoutFailure` | `failed` |
| `#rateBatch` | empty between handlers: filled and flushed within one `RateTick` |
| counters of `LoadWorkerMeasurement` | kept per connection; the worker's counter is their sum |
| `performance.now() >= #stopAt` | `pastStop`; in a chunk, the last responses may be past it (`r` of `n`) |
| `socket.write` returning `false` | `acc = FALSE`; on a socket that is no longer open, always |
| what the parser makes of a chunk | `n` responses and a tail: nothing more, a surplus response, or malformed bytes |
| `#send`'s overflow exception | `threw`; `Data` catches it, the other callers would not |

The two start commands are guarded by what the coordinator does: a phase starts when the worker
is idle and has posted the previous answer. `LoadRun` checks that guard
(`WorkersKeepContract`).

### RateSchedule

Time is counted in arrivals: at a tick a worker sees how many arrivals of the run are due by its
clock (`globalExpected`), never fewer than before and never more than by the stop time. The loop of
`#scheduleRate` is a fold over the arrivals due. What happens between ticks (answers, closed
sockets, reconnects, `drain`) is nondeterministic. `RateTick` of `Http1Worker` is the same tick
without the question who takes what, but with the full connection behind it. Arrivals that fall
due after a worker's last tick are neither sent nor dropped, in the code as in the model.

`EvenLoad` says two things of a tick. Within it no connection gets more than one arrival above
another, while none fills up (`SharesEven`). And a tick goes on where the last one has stopped
(`TurnGoesOn`): behind the connection that has the worker's latest arrival in flight, the next one
is first if it has room. The second is said without the variable that holds the turn, so a turn
that starts over at every tick violates it although each tick by itself is even.

### LoadRun

An action is a callback of the main thread and the continuation of `run()` it releases, because
promise reactions run before the next callback. `waits[w]` is the wait that
`#waitForWorkerMessage` has armed for worker `w`: message, error, exit, abort and timeout all
settle it. `posted[w]` is every message the worker has posted and `delivered[w]` how many of them
the main thread has handled; `commands[w]` are start commands under way. The worker's own steps
are those of the contract, at any speed; it refuses a start out of phase as the code does, with
`fatal`. A worker may die of an uncaught exception (`WorkerError`): without an armed wait nothing
listens for `error`, and Node ends the process (`outcome = "crashed"`).

### WebSocketConnection and WebSocketWorker

The same worker with a connection that behaves otherwise: it may throw away a socket that is still
alive (`#discard` after a timeout or an unexpected message), it has a timer for its oldest request,
and it learns of backpressure by polling `bufferedAmount`. `inFlight` is the size of `#timestamps`,
`timer` the request the timer is armed for (requests are numbered in the order of the phase).
`outstanding` and `late` belong to the server: what it owes on the current socket, and what may
still arrive on discarded ones. The code tells them apart by `#socket !== socket`; the model by the
action (`Message`, `StaleMessage`). How a batch ends (all sent, a send that throws, the buffer
over its limit) is chosen in `Batch`.

### TargetControl

`client` is `TargetProvider.start()`, the session and the `ControlClient`; `agent` the stdio
runtime and `BenchkitAgent`; `target` the process and its `TargetRuntime`; four sequences are the
pipes and the IPC channel. An action is one callback. Continuations of a settled request
(`settled`) run after the frames of the same chunk, because one chunk may hold several frames.
Every wait may time out whenever its timer is armed, so all orders of deadlines are explored, and
the session's calls may overlap. The agent may die at any time, and so may the target; how the
agent terminates it is one wait here.

### TargetShutdown

Here the deadlines are compared. Timers count down with a common `Tick`, which happens only when
nothing is due (`~Due`): the guard of each urgent action is an operator, and `Due` is their
disjunction (it is `ENABLED Step`, but for steps that may come early, written out because the
prover has no rules for `ENABLED`). A behaviour begins when the agent has read `target:start`.

| Code | Model |
|---|---|
| where `start()`, `stop()` and `ControlClient.close()` are, and the timer of that wait | `client.step`, `client.left` |
| an answer that came after its request had timed out, which fails the client (`control-client.ts:197`) | `client.failed` |
| the command `handle` is at, and its timer | `agent.busy`: *port* and *boot* in `#start`, *metrics*, *terminate*; `agent.left` |
| `#commandQueue` behind it | `waiting` metrics commands, and `queued` for `target:stop` |
| `AgentStdioRuntime.close()`, which waits for the queue it finds | `closing`, `ahead` |
| `BenchkitAgent.close()`, and who called it first | `closed` |
| the listeners that `process.once` has added for SIGTERM and SIGINT | `handles` |
| a listener that has run: `process.exit` follows `close()` | `exits` |
| the end of the agent: of itself, by the default action of a signal, by SIGKILL | `process`: *exited*, *terminated*, *killed* |
| a call of `#terminateTarget` | `term[t].stage`: asks, waits, has sent SIGTERM, has sent SIGKILL |

The end may begin with `target:stop`, a readiness timeout on either side, the end of stdin, a
signal, a fatal protocol or stdout error, or the death of the runner, at any moment. Signals may
come at any time and any number of times: the first of a kind closes the agent behind its commands,
a second of that kind finds no listener and ends it at once. The SIGTERM of `ControlClient.close()`
is one of them (`Signalled`), so after a SIGTERM from elsewhere it is fatal. `#start` first waits
for a port (`Port` ticks at most), forks, and from then on for `benchkit:ready`; its timer, `Ready`,
starts at the fork, and so after the client's of the same length. While it waits, `close()` waits
behind it and the client's deadlines run on. A start that succeeds while the agent closes is
followed by the close that waits for it. Metrics commands may overlap and pile up in the queue, a
caller may go on when one was given up, and a command that times out in the agent may answer too
late and fail the client, which leaves only `2 killMs` for the rest. Two terminators of one target
may overlap (a command and `close()`), as they do in the code, under the one request id.

A target is *booting* (no runtime yet: SIGTERM kills it, messages wait), *prompt* (it answers
metrics commands at once, and shuts down as slowly as it likes), or from any moment on *deaf* (its
event loop is blocked for good: only SIGKILL helps). A block that ends is left out: while it lasts
the target is a deaf one, and what `NoneForgotten` grants a deaf target has to be granted to one
that was blocked when its agent was killed. Left out, too, are a target that exits on its own, which
leaves nothing to forget, and `ssh`, between the client and an agent on another host.

### ResponseParser and NdjsonDecoder

A stream is written from messages, so the expected output is known without parsing; then it is cut
at every place. In `ResponseParser` a symbol is a CR, a LF, a byte of a body or a line's content,
because the code parses a line only when all of it is there. In `NdjsonDecoder` a character may be
two bytes, and `chunk.toString()` decodes each chunk by itself: a character that a chunk boundary
cuts comes out as U+FFFD, once for each half. `FramesExact` says exactly which frames are then read
(`Received`, from the bytes after which the stream was cut), the frame that becomes too long by its
damage included; that they are not the frames the peer wrote is the run `cut_character`. The size
limit of a header block counts what has arrived of its final CR LF CR LF when a chunk ends there, so
a block of exactly the limit passes or not as it is cut: `FailsIfInvalid` says when
(`CutInHeaderEnd`), for such a block among the others, and the run `header_at_limit` shows the
refusal. The limit of a chunk-size line applies only when the line is split, which shows with
extensions longer than any of the streams here.

### Measurement, statistics, regression

`LoadMeasurement` has two workers that record events of any kind, in a warmup and a measurement that
start and end for both at once (how they really do is `LoadRun`); it ends with the aggregate of
either protocol. What may happen to a worker is the constant `Events`: `MCData` puts a latency on
each side of every edge of the histogram, and the theorem is about any events whatever.
`LatencyHistogram` takes `relativeAccuracy` 1/2, so the base of its buckets is 2 and midpoints are
whole numbers. `RingBuffers` keeps both times in the queue (a queue that does not track timeouts
answers with the latency start); the percentiles of three slots are their maximum, and only the
proof is about more slots. `MemorySampling` assumes of garbage collection that `Cycles` cycles
collect all garbage. `Statistics` and `Regression` compute in whole numbers, a median twice and a
quantile four times over, and the percentages of the rounds with their common denominator, the
product of the references, so that their median is exact; samples are sorted by rank. `NotFinite`
stands for everything that is not a finite number. Values are not negative: for a negative reference
the allowance of `relativeMetricGuard` and the sign of a percentage turn round, which `VerdictSound`
does not cover.

## Runs

| Run | Question | Bounds | States |
|---|---|---|---|
| `http1_closed` | books, pipelines, phases under every order of events; refinement of the contract | 2 connections, pipelining 2, 3 requests per connection and phase, 1 timeout | 497 000 |
| `http1_modes` | arrivals accounted for at a fixed rate; the warmup drain ends in either mode | fixed rate: 2 connections, 2 arrivals, 1 timeout; closed loop: 1 connection, 6 requests, 2 timeouts; pipelining 2 | 251 000 |
| `load_run` | lock step, no missed message, settling and cleanup | 3 workers, 1 death, with and without warmup | 39 000 |
| `websocket` | the WebSocket worker: discarded sockets, timers, drain, contract | 2 connections, both modes, 2 in flight, 3 messages, 1 late message each, 3 arrivals | 313 000 |
| `target_control` | session and agent agree, exits are noticed | 5 requests in a session, every timeout, death of agent and target | 103 000 |
| `target_shutdown` | an agent that ends has told its target, hooks run once, the agent ends | every deadline one tick; signals at any time and again; 2 metrics commands at a time, 2 hooks | 817 000 |
| `data` | decoders, rate schedule, measurement, samplers, statistics, verdicts against references | 2 responses and 3 frames in every cut; 6 arrivals on 2 workers with 2 and 1 connections, pipelining 2; 2 workers, 3 events; rings of 3; 4 rounds | 441 000 |
| `http1_warmup_wait` | *violated*: a wait counted in a phase began in it | 1 connection | |
| `http1_idle_timeout` | *violated*: a timeout is counted for a waiting request | 1 connection, fixed rate | |
| `shutdown_deaf_target` | *violated*: a failed start() cleans up the target it started | default deadlines in units of 2 s, a shorter readiness timeout | |
| `header_at_limit` | *violated*: responses whose header blocks keep to the limit are parsed | 1 response, in every cut | |
| `cut_character` | *violated*: every complete frame is emitted as it was written | 1 frame, in every cut | |

What the properties say:

- `Conservation`: while a phase records, sent = completed + aborted + in flight on every
  connection, and in the result the same with `inFlightAtStop` (both workers).
- `PipelineBound`: in flight plus held back never exceeds `pipelining`; `#send` never throws.
- `PipelineFull`: until the stop time a working connection of a closed loop has its pipeline full,
  requests held back for `drain` included.
- `IdleIsQuiet`: an idle worker has nothing in flight and nothing held back, so a measurement starts
clean.
- `ConnectedCount`: `#connected` is the number of connected connections.
- `NeverLost`: a connection without a socket has its reconnect armed.
- `WaitsComplete`: a result contains a wait for each of its backpressure events.
- `ArrivalsAccounted`: scheduled = sent + held back + lost with a socket + dropped. Which arrivals
  are due, and the off by one in it, is the business of `EveryArrivalOnce`.
- `DrainCompletes`: the drain ends although the server may never answer (both workers, both modes).
- `ImplementsContract`: the refinement of `WorkerContract` by either worker (the variables have the
  same names, so the mapping is the identity).
- `LockStep`: no worker measures while another is in its warmup or draining.
- `NoAnswerDropped`: an undelivered message of a live worker is the one awaited, or `fatal`.
- `CleanSettle`: when `run()` has settled there is no thread, no sampler and no armed wait.
- `ResolvedMeansMeasured`: `run()` resolves only with the result of every worker.
- `WorkersKeepContract`: no start command is ever refused; every worker follows the contract.
- `Settles`: `run()` settles although workers may hang in any phase.
- `EveryArrivalOnce`, `DropsOnlyWhenFull`, `EvenLoad`: each arrival is sent or dropped by its one
  worker, in order, dropped only when nothing has room, and dealt in turns that go on over the
  ticks; the reference for the split is the set of arrivals congruent to the worker's
  index.
- `AnswersAreOwn`: what a WebSocket connection has in flight is what the server owes it on the
  current socket.
- `TimerOnOldest`: the request timer is armed for the oldest request in flight, if there is one.
- `NeverStalls`: a running closed-loop connection is full, or something that refills it is due.
- `StatesAgree`: with nothing under way the session is in the agent's state, and the target measures
  as it says. The one exception is named: a command that timed out in the agent (`lost`) may have
  been carried out. That agent and target then disagree is a hazard of the code and not caught by
  any property.
- `StoppedMeansGone`: a session is `stopped` only when its target process has exited.
- `ExitNoticed`: when the target dies the session leaves `ready` and `measuring`.
- `NoneForgotten`: an agent that exits has told its target to shut down, and so has one that is killed,
  with two exceptions that it names: a second signal of a kind ended the agent, or it was killed
  and the deadlines are too short (`DeadlinesTooShort`: it looked for a port for `2 killMs` or more,
  or the target is deaf and the metrics commands before the end take as long as the client waits).
- `HooksOnceThenExit`: the hooks run once and, unless killed, the target leaves after all of them.
- `AgentEnds`: once the end has begun the agent exits.
- `AnswersExact`, `FailsIfInvalid`: for every cut, exactly the responses that have arrived are
  reported; the parser fails on invalid streams, and otherwise only on a block of the greatest
  length that is cut within its end. `HeadersWithinLimitPass`: that it does not.
- `FramesExact`: the same for NDJSON frames as they are read; a bad frame ends the decoding.
  `EveryFrameEmitted`: as they were written.
- `AggregateExact`: the result of a run is that of one worker that measured everything: counters,
  maxima and histogram are those of a replay of all events, memory is the sum of the workers' peaks,
  every completed operation has a latency or a rejected one, and in HTTP/1 a status, and quantiles
  and mean are within the accuracy of the histogram. The other means, the utilization of the event
  loops and the saturation flag are modelled and in no property, which could only repeat their
  expressions.
- `RingsExact`: queue and recorder hold what a sequence would.
- `IntervalsExact`: a summary is of its own interval; a settled batch has no timer.
- `StatisticsExact`: medians, quantiles, hinges and wins agree with each other and the data.
- `VerdictSound`: a balanced schedule cancels a drift; guards pass nothing that was not measured,
  and never punish an improvement.

### Bounds and why they are enough

Two connections give every pair of events an order; a handler touches one connection and, through
the drain check and `#connected`, the state of the others only as "all empty" and a count.
Pipelining 2 is the least that distinguishes an empty, a partly and a completely full pipeline,
and a partial from a full refill. `MaxSent`, `MaxTimeouts`, `MaxScheduled` bound what a phase
sends, and every count restarts with the phase: 3 requests let a connection fill its pipeline,
refill a slot and lose its socket. The events a bound cuts off
(a fourth request) are those a real run would have too, so a bounded behaviour is a prefix of a
real one; `http1_modes` allows enough requests for the closed loop to be cut off by the end of the
warmup rather than by the bound; there one connection is enough, as the drain waits for each
connection by itself, and at a fixed rate two arrivals, of which one can be dropped or lost.
Symmetry is used only in safety runs. In `load_run` three workers
make "all but one" and "one of the others" different. The schedule in `data` has an uneven share
of connections (2 and 1) and enough arrivals to go round them, over several ticks, and drop some.

`MaxLate` is how many messages discarded sockets still deliver: one is enough to be mistaken for an
answer. Five requests let a session start, measure, stop measuring, overlap one call with another
and stop. In `target_shutdown` every deadline is one tick, which is where the exceptions of
`NoneForgotten` for short deadlines do not apply (two metrics commands take less than the client
waits), so there it is checked without them; the theorem is for all deadlines.
`shutdown_deaf_target` has the defaults of `control/config.ts` in units of 2 s, but for a readiness
timeout of two units, of which only the order with the others matters. In `data` streams are short
but contain every kind of framing and every error, latencies fall on each side of every bucket edge,
five samples wrap a ring of three, and four rounds are the least with two of each order.

`CHECK_DEADLOCK FALSE` is set where the system ends: a finished worker is waiting to be
terminated, a settled run or stopped session is over, a stream has been read.

### Fairness

- `Http1Worker`: armed timers fire (`WarmupTimer`, `MeasurementTimer`, `ReconnectTimer`), a
  destroyed socket is closed by Node, and a socket that stays silent times out. Nothing is assumed
  of the server. `WF(Timeout)` stands for a *silent* server: one that keeps sending single bytes
  of an unfinished response resets the socket's timer for ever, and there the drain is ended by the
  coordinator's deadline (`WaitTimeout` in `LoadRun`) and not by the worker.
- `WebSocketWorker`: the warmup timer and the request timers fire. The request timer is not reset
  by traffic, so here the drain ends whatever the server sends.
- `LoadRun`: `run()` goes on, armed timers fire, and a thread that was told to terminate or has
  died exits. Nothing is assumed of the workers.
- `TargetControl`: pipes deliver, continuations run, and Node reports the exit of a child.
  Nothing is assumed of timers, of the agent's commands or of the target.
- `MCHttp1Modes`: that of `Http1Worker`, in the mode of the behaviour.
- `TargetShutdown`: time passes and what is due happens, and a session does not send metrics
  commands for ever (an agent whose queue is never empty answers them all before it closes); a target
  need not do anything.

## Findings

1. `http1_warmup_wait`. `onBackpressureEnded` does not ask whether the worker records, so a wait
   that began in the warmup and ends in the measurement is added to the measurement's
   `drainWaitMs`, although its event was discarded with the warmup. The comment in
   `load-worker.ts:191` and the README (99-102) say the warmup's counters are discarded.
2. `http1_idle_timeout`. The timeout is the inactivity of the *socket*. At a low fixed rate a
   connection with nothing in flight is counted under `errors.timeout` and torn down;
   `http1/types.ts` (122, 221) documents a per-request timeout.
3. `shutdown_deaf_target`. A `start()` that fails by its deadline kills the agent after twice
   `killMs`, but the agent needs `shutdownGraceMs + killMs` before it sends SIGKILL to a target
   whose event loop is blocked. With the default deadlines the agent dies first and the target is
   left running, contrary to `tests/integration/target/target-provider.test.ts:67`, whose fixture
   reacts to the request.
4. `header_at_limit`. `push()` measures a header block without the CR LF CR LF behind it, but
   `#retain` (`response-parser.ts:205`) what has arrived of both: a block of exactly `maxHeaderBytes`,
   or up to two bytes less, is a protocol error when a chunk ends within its CR LF CR LF.
   `http1/types.ts:140` calls the option the "Maximum response-header block size in bytes."
5. `cut_character`. `push()` of the NDJSON decoder decodes every chunk by itself, so a character
   that a chunk boundary cuts becomes two U+FFFD, and its frame arrives changed, or too long, which
   ends the session. `ndjson.ts:43` says that it "Appends a UTF-8 chunk and synchronously emits
   every complete frame."

Three ways to leave a target running are in no document's way and are exceptions of `NoneForgotten`
rather than runs of their own. A second SIGTERM or SIGINT ends the agent at once (`process.once`,
`agent-stdio-runtime.ts:36-37`), for instance while it waits for the target to boot or for a metrics
command. `stop()` allows `target:stop` `shutdownGraceMs + 2 killMs`, and `close()` another `2
killMs`, but `target:stop` queues behind metrics commands, and with a blocked event loop one of them
takes `commandMs`: by default 15 s, against 10 s, and the agent is killed before it has told the
target anything. And if the search for a port takes `2 killMs` or more, the agent's readiness timer
runs that much later than the client's, and the agent is killed while it still waits for its target.

## Proofs

Every theorem holds for all values of the constants that the named `ASSUME`s of the modules admit:
any finite set of connections or workers, any pipelining, both modes, any deadlines, any number of
requests in a session. The bounds (`MaxSent`, `MaxErrors`, `MaxRequests`, ...) are guards of actions
and only they make the runs finite; the theorems hold for each value of them. In each module an
invariant `IInv` is shown to hold initially and to be kept by every action; the properties follow
from it. None of the properties is inductive.

| Module | Theorems (each states the property of that name) |
|---|---|
| `Http1WorkerProofs` | `TypeCorrect`, `ConservationHolds`, `PipelineBoundHolds`, `PipelineFullHolds`, `IdleIsQuietHolds`, `ConnectedCountHolds`, `NeverLostHolds`, `WaitsCompleteHolds`, `ArrivalsAccountedHolds`, and `ContractRefined`: `Spec => ImplementsContract` |
| `WebSocketWorkerProofs` | `ConservationHolds`, `AnswersAreOwnHolds`, `TimerOnOldestHolds`, `NeverStallsHolds`, and `ContractRefined` |
| `LoadRunProofs` | `LockStepHolds`, `NoAnswerDroppedHolds`, `CleanSettleHolds`, `ResolvedMeansMeasuredHolds`, and `ContractKept`: `Spec => WorkersKeepContract` |
| `TargetControlProofs` | `StoppedMeansGoneHolds`, `StatesAgreeHolds` |
| `TargetShutdownProofs` | `HooksOnceThenExitHolds`, `NoneForgottenHolds` |
| `RateScheduleProofs` | `EveryArrivalOnceHolds`, `DropsOnlyWhenFullHolds`, `EvenLoadHolds` |
| `MeasurementProofs` | `RingsExactHolds`, `IntervalsExactHolds`, `StatisticsExactHolds`, `VerdictSoundHolds`, `AggregateExactHolds` |

### The workers

`IInv` of `Http1Worker` is `TypeOK /\ PhaseInv /\ LedgerInv`. `LedgerInv` says of every connection:
requests in flight and held back together fit the pipeline and nothing has thrown (`ConnInv`);
nothing is held back at a fixed rate; a connection without an open socket owes nothing, is under no
backpressure, and has at most one of a socket and an armed reconnect; its ledger is balanced while
the worker records, and balanced with `atStop` once there is a result; it is quiet while the worker
is idle; and without a socket its reconnect is armed until the worker has finished. `PhaseInv` ties
`running`, `phase` and `posted` together, which is what the refinement needs. The bound on the
requests in flight alone, for instance, is not preserved by `drain`, which sends what was held
back: that this fits follows from the bound on the sum.

`Http1WorkerProofs` first shows that every operator on a connection keeps `ConnInv` (one lemma an
operator), and then lifts this with one lemma a handler (`ConnectStep`, `ReceiveStep`,
...), through `OneConnection` for handlers that touch one connection and `MaybeCompleteWarmupInv`
for those that end in the drain check. Three properties are inductive relative to `IInv`, with
facts of their own about the operators: `PipelineFull` (`FillFull`, `DataFull`, `DrainFull`: a
refill that stops short leaves the rest held back), `WaitsComplete` through `WaitsInv` (every
episode that has ended has had its wait recorded, and the one that is open is recorded when the
phase ends), and `ConnectedCount` (a handler changes the set of connected connections by its own
one at most, and counts accordingly). `ArrivalsAccounted` is about a sum over all connections: a
socket event leaves every `sent` as it is at a fixed rate (`SocketEventSends`), and a tick adds to
the sum what it takes from the arrivals due (`RateTickAccount`, with `SumPlus`).

The WebSocket worker has the same shape with `Types /\ PhaseInv /\ LedgerInv /\ CountInv`. There
`ConnInv` contains that the request timer is on the oldest request and that an open socket owes
exactly what is in flight; a full pipeline (`Working`) and an armed reconnect (`Recovering`) are part
of the ledger. `CountInv` (the number of connected connections) is needed for the types: were
`#connected` too small, losing a socket would take it below zero.

### The load run

`IInv == Types /\ StageInv /\ EndInv`. `StageInv` says there is one stage that every worker is in:
each is at work on it, has answered it, or has failed to open its connections (`Position`, which
fixes the worker's messages, how many of them were heard, its phase and its commands all at once),
and while `run()` waits it waits for exactly the workers it has not heard, which are alive
(`WaitMatches`). Lock step alone is not inductive: that no worker can be ahead of the others follows
from what each has posted and what was heard of it. It also holds after `run()` has left the stage
by a failure, while workers go on until their threads exit. `EndInv` says what `run()` settles with
and what it may leave behind. `WorkersKeepContract` is a refinement: `StepIInv` proves with the
invariant that every step of the run is a step of `WorkerContract` or a stutter for each worker.

### The rate schedule

A worker's tick is a fold over the arrivals that have fallen due, in which each deal depends on
where the one before left off. `Dealing` is that run of intermediate values, which `TickHasRun`
finds; `DealOne` says what a deal does to it. `IInv` has a part for every worker (`WorkerOK`): the
arrivals sent are the worker's own up to the last due one, less as many as were dropped, and each
connection's queue is in order. The set of the worker's arrivals, those congruent to its index, has
the cardinality the code computes by division (`OwnCardinality`), so that none is missed by the
rounding of the split.

`EvenLoad` is a property of a step and holds of all deals of a tick together: while no connection is
full, `Turns` and `RoundStep` relate what each connection has been given to its distance from the
one whose turn it was when the tick began, so two of them never differ by more than one. That the
next tick goes on in turn needs a part of `IInv` (`TurnOK`): the connection that has the latest
arrival of the worker in flight is the one before `next`. `LatestAppended` and `FirstStays` follow
the latest and the first arrival through the deals of a tick, and `TickTurns` puts them together.

### Session, agent and target

`TargetControl` has eight parts. `StageInv` ties the command the agent is at to its state machine.
`IdsInv`: a request keeps its id and its type wherever it goes, so an answer settles what it
answers. `GoneInv`: an answer that says the target was stopped is true wherever it is. `FailedInv`:
a failed client has a failed session. `StartInv`: `target:start` is answered once, with no other
request before it, and no `target:stop` is about before `stop()` is called. `SyncInv` is the core of
`StatesAgree`: while the session is in a running state and nothing has told it of the target's
exit, the answers that are settled and on their way *lead* (`Leads`) from the session's state to
the agent's. `MeasuringInv` is the same between agent and target: unless the agent has given up a
command, there is at most the command at hand between them, and the target measures as the agent
says or the answer on its way says what it does instead. Queues are reasoned about by the sets of
their messages and by the last that changes a state (`QueueAppend`, `QueueTail`, `LeadsAppend`,
`LeadsTail`), so nothing recurses over them. A lemma an action (`...Fields`) says what it changes,
and each part has a lemma that the steps keep it.

### The end of a target

`IInv` is `Types /\ HooksInv /\ OrderInv /\ ToldInv /\ StartInv /\ MetricsInv /\ ClockInv`.
`OrderInv`: the commands follow one another, the start before the metrics before the stop.
`ToldInv`: a command that terminates the target, and a close, have told it by the time anything
waits for them, and a close that waits for the queue has in `ahead` what it waits for, so it does
not overtake a start. That the agent is not killed before either has begun is a matter of time:
`StartInv` relates what is left of the start (its search for a port, its readiness timer) to what is
left of the client's deadline through each of its steps, `MetricsInv` does so for the metrics
commands, those at hand and those that wait (`Rest`), with all of them and after the first has
failed the client, and `ClockInv` concludes that whatever the agent was busy with is over when
SIGKILL is sent, or the deadlines are too short.

`NoneForgottenHolds` has no hypothesis: the exceptions are part of the property. A second signal may
end the agent anywhere, so nothing is said of a *terminated* one. That `DeadlinesTooShort` is needed
TLC shows: with two metrics commands of `Command` 2, or one of 5, or a `Port` of 2, where the other
deadlines are 1, it finds a target that is never told, and none with one command of 4.

### Measurement and verdicts

The ring buffers' invariant `RingsInv` says which slot holds which of the retained entries: the
`i`-th is at `(start + i) % Capacity`, and the sequence a buffer stands for has no more than
`Capacity` of them (`PushKeeps`, `ShiftKeeps`, `ClearKeeps`, `RecordSampleKeeps`, with the lemmas on
remainders in `FoldTheorems`). A percentile is a rank: `SortExists` shows that any values can be put
in order, `AscendingIs` that the operator `Ascending`, which names a value by how many are below it,
is that order, and `SameBelow` that a rank does not depend on where in the ring a value is.

`IntervalsExact` follows from one invariant for each sampler (`MetricsInv`, `BatchInv`,
`GrowthInv`), which tie its sums and peaks to the sequence of what it has seen in its interval.

`VerdictInv` says only that the schedule is a balanced one of an even number of rounds and that runs
and profiles are of their types; the properties are theorems about what is computed from them.
`FourLabels` gives the order of two rounds, whose places add up the same for either side
(`ScheduleFairHolds`), and a lemma a guard does the rest of `VerdictSound`. For `StatisticsExact`
the median is half the sum of the values at `(n + 1) \div 2` and `n \div 2 + 1` of the order
(`MedianIs`), which gives at once that no more than half of the values lie on either side
(`MedianHalves`), that it is the half quantile (`MedianQuantile`) and that hinges enclose it
(`HingesEnclose`). Interpolated quantiles rise with their fraction (`BetweenRises`). That a side
which wins every round has the better median is `MedianDominates`: were the `k`-th of its values no
greater than the other's, `k` values would fit where fewer than `k` do.

### What a load measures

`AggregateExactHolds` is about any finite set of workers, any events (latencies, bytes and usages of
memory of any size) and any `Lowest` and `Highest` that `LatencyAssumption` admits; fixed are the
`relativeAccuracy` of 1/2 and the two status codes, one of success and one not. Its invariant
(`MeasurementInvariant`) is that what a running worker has measured is the replay of what is in its
log, which says that a start forgets the warmup (`StartForgets`), and that a finished worker has
posted it.

The rest is about replays. `Join` puts two measurements together: it adds counters, takes the
greater of maxima and memory and merges histograms. It is associative, and a measurement that has
seen nothing is its zero. Every record method joins a measurement with what it would record in an
unused one (`ApplyJoins`, with `RecordMerges` for the histogram), so the replay of one sequence
after another is the join of their replays (`ReplayedBoth`). `Combines` lifts this over the workers,
and `aggregateLoadPhase` with its sums, maxima and merges is that join, field by field (`SumsAgree`,
`MaximaAgree`, `LatencyAgrees`, `CodesAgree`).

What a histogram says of the latencies behind it is `Exactly`: its count is theirs, each cumulative
count is that of the latencies up to the end of the bucket, and its total is near theirs. An event
more keeps this (`ExactlyAppend`). The bucket in which the cumulative count reaches the rank of a
quantile is then the one that holds the latency of that rank (`QuantileNear`), and the midpoint of a
bucket is near everything in it (`MidpointNear`).

### Induction over data

The induction theorems of the library take an operator as a parameter, which the provers cannot
instantiate. `FoldTheorems` therefore proves induction over a *set* of numbers, from the
well-foundedness of `<` (`LeastNatural`, `Induction`, `BoundedInduction`, and `SetInduction` over
the subsets of a finite set), and that a recursion over the subsets of a finite set has a solution
when its step is a *function* (`SetRecursion`). The folds of the community modules are such
recursions: `SequenceFold`, `SumFold` and `ChosenFold` say so for a fold over a sequence and a sum
over a function. What a particular fold computes is then shown once, as a run of partial results
with a lemma for one step of it (`SequenceSum`, `SequenceProduct`, `FiniteRun`, `TickHasRun`,
`ReplayExists`). `SequenceInduction` is induction over the sequences that end in one element more.

### Only model-checked

- Liveness: `DrainCompletes` of both workers, `Settles`, `ExitNoticed`, `AgentEnds`. The prover has
  no rules for `ENABLED`, and so none for fairness.
- `AnswersExact`, `FailsIfInvalid` and `FramesExact`, which compare the output of a parser with streams
  put together by nested folds over texts; the messages of the parser, too, are written out for
  one `MaxHeaderBytes`.

## Not modelled

- Bytes, TLS, DNS, host names; the `abort` command of a worker, which nothing sends; failures of
  `measurement.finish`; resource limits of the operating system. In `LoadRun` an `AbortSignal` that
  fires in the microtasks between two stages, when no wait is armed, is lost in the code; the model
  has no state in which it could.
- `waitReachable`, `getFreePort` and `runChild`, which ask the operating system. That a port may be
  taken between probe and use is between two of its processes. `TargetShutdown` knows of
  `getFreePort` that it takes at most `Port`.
- An `error` event on the stdin of an agent that has just died, for which the client has no
  listener; `TargetControl` takes such a write as lost.
- Option normalisation, value guards, URLs, environment, baselines and artifacts: validation and
  files, with no state between calls. `shuffle` draws random numbers.
- Profiling: parsers of tool output, and a heap sampler whose inspector session is V8's.
- Reporting and the repository's scripts.
- `push()` of the NDJSON decoder strips a CR before a newline; frames here have none.

## Plan

1. Proofs: `FramesExact`, once what a fold over texts computes is among the lemmas.
2. Models: `waitReachable`, the heap sampler's start and stop.
