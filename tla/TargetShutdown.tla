----------------------------- MODULE TargetShutdown -----------------------------
(***************************************************************************)
(* How a target and its agent come to an end: the runner closes or kills   *)
(* the agent, the agent terminates the target, the target runs its hooks.  *)
(* What matters is which deadline is first, so there is a clock: timers    *)
(* count down together, and time passes only when none of them is due.     *)
(* Durations are in units of a common tick.                                *)
(***************************************************************************)
EXTENDS Integers, FiniteSets

CONSTANTS
    Ready, ShutdownGrace, Kill, Command,
                    \* targetReadyTimeoutMs, shutdownGraceMs, killMs, commandMs
    Port,           \* how long #start looks for a port, at most
    MaxMetrics,     \* bound: metrics commands in the agent at a time
    NumHooks        \* shutdown hooks of the target

ASSUME DurationsAssumption ==
    {Ready, ShutdownGrace, Kill, Command} \subseteq Nat \ {0} /\ Port \in Nat
ASSUME MetricsAssumption == MaxMetrics \in Nat
ASSUME HooksAssumption == NumHooks \in Nat

VARIABLES
    client,     \* start() or stop(), and ControlClient.close()
    agent,      \* AgentStdioRuntime: the command at hand and the way it closes
    term,       \* the calls of #terminateTarget
    asking,     \* whose shutdown request #pendingTarget holds
    target

vars == <<client, agent, term, asking, target>>
--------------------------------------------------------------------------------
\* #terminateTarget is called by a command (target:stop, a failed start) and by
\* BenchkitAgent.close(); its first request has the same id in both.
Terminator == {"command", "close"}

Signal == {"SIGTERM", "SIGINT"}

\* "booting": it has no TargetRuntime yet and may never have one; "prompt": its
\* event loop runs; "deaf": it is blocked for good, so nothing but SIGKILL helps.
Kind == {"booting", "prompt", "deaf"}

Client ==
    [step : {"starting", "running", "stopping", "ended", "signalled", "done", "crashed"},
     left : Nat,
     failed : BOOLEAN]      \* an answer came after its request had timed out

Agent ==
    [process : {"up", "exited", "terminated", "killed"},    \* or how it came to its end
     busy : {"none", "port", "boot", "metrics", "terminate"},   \* the command at hand
     left : Nat,            \* until it times out
     waiting : Nat,         \* metrics commands in #commandQueue
     queued : BOOLEAN,      \* target:stop is behind them
     answered : BOOLEAN,    \* target:stop, or a failed target:start, has been answered
     handles : SUBSET Signal,   \* the signals that still have their listener
     closing : {"no", "queue", "drained"},  \* close() waits for #commandQueue, and is past it
     ahead : Nat,           \* commands it waits for
     exits : BOOLEAN,       \* a signal: process.exit follows close()
     closed : {"no", "close", "fail"}]  \* who has called BenchkitAgent.close() first

Stage == {"none", "ask", "wait", "term", "kill", "done"}

Target ==
    [alive : BOOLEAN, kind : Kind,
     asked : BOOLEAN,           \* benchkit:shutdown is in its channel
     signalled : BOOLEAN,       \* SIGTERM is pending
     killed : BOOLEAN,          \* SIGKILL has been sent
     runs : Nat,                \* executions of #runShutdown
     hooks : 0 .. NumHooks,     \* hooks that have finished
     callers : SUBSET {"ipc", "signal"}]   \* who waits for shutdown()

NotCalled == [stage |-> "none", left |-> 0]

\* The agent has just read target:start.
Init ==
    /\ client = [step |-> "starting", left |-> Ready, failed |-> FALSE]
    /\ agent = [process |-> "up", busy |-> "port", left |-> Port, waiting |-> 0,
                queued |-> FALSE, answered |-> FALSE, handles |-> Signal,
                closing |-> "no", ahead |-> 0, exits |-> FALSE, closed |-> "no"]
    /\ term = [t \in Terminator |-> NotCalled]
    /\ asking = "none"
    /\ target = [alive |-> FALSE, kind |-> "booting", asked |-> FALSE, signalled |-> FALSE,
                 killed |-> FALSE, runs |-> 0, hooks |-> 0, callers |-> {}]

Less(n) == IF n > 0 THEN n - 1 ELSE 0
--------------------------------------------------------------------------------
(* Terminating the target *)

\* #terminateTarget: nothing to do, or the target is asked to shut down.
Terminate(t) ==
    IF ~target.alive
    THEN /\ term' = [term EXCEPT ![t] = [stage |-> "done", left |-> 0]]
         /\ UNCHANGED <<asking, target>>
    ELSE /\ term' = [term EXCEPT ![t] = [stage |-> "ask", left |-> ShutdownGrace]]
         /\ asking' = t
         /\ target' = [target EXCEPT !.asked = TRUE]

DeadlineDue(t) ==
    /\ agent.process = "up" /\ term[t].left = 0
    /\ term[t].stage = "ask" \/ (term[t].stage \in {"wait", "term"} /\ target.alive)

\* A deadline of a call of #terminateTarget and terminateChildProcess.
Escalate(t) ==
    /\ DeadlineDue(t)
    /\ \/ /\ term[t].stage = "ask"      \* forgets the id, whoever asked last
          /\ term' = [term EXCEPT ![t].stage = "wait"]
          /\ asking' = "none"
          /\ UNCHANGED target
       \/ /\ term[t].stage = "wait"
          /\ term' = [term EXCEPT ![t] = [stage |-> "term", left |-> Kill]]
          /\ target' = [target EXCEPT !.signalled = TRUE]
          /\ UNCHANGED asking
       \/ /\ term[t].stage = "term"
          /\ term' = [term EXCEPT ![t] = [stage |-> "kill", left |-> Kill]]
          /\ target' = [target EXCEPT !.killed = TRUE]
          /\ UNCHANGED asking
    /\ UNCHANGED <<client, agent>>

ExitDue(t) ==
    /\ agent.process = "up" /\ ~target.alive
    /\ term[t].stage \in {"wait", "term", "kill"} \/ (term[t].stage = "ask" /\ asking = t)

\* The target has exited: 'exit' rejects the request in #pendingTarget, and
\* ends every waitForChildExit.
SeeExit(t) ==
    /\ ExitDue(t)
    /\ term' = [term EXCEPT ![t] = [stage |-> "done", left |-> 0]]
    /\ asking' = IF asking = t THEN "none" ELSE asking
    /\ UNCHANGED <<client, agent, target>>
--------------------------------------------------------------------------------
(* The commands of the agent *)

CommandOver(a) == [a EXCEPT !.busy = "none", !.left = 0, !.ahead = Less(@)]

\* #start has a port and a profile directory, and forks.
Fork ==
    /\ agent.process = "up" /\ agent.busy = "port"
    /\ agent' = [agent EXCEPT !.busy = "boot", !.left = Ready]
    /\ target' = [target EXCEPT !.alive = TRUE]
    /\ UNCHANGED <<client, term, asking>>

\* Mutant: the readiness timer is cleared when the agent is told to close.
StartHangs ==
    /\ agent.process = "up" /\ agent.busy \in {"port", "boot"} /\ agent.closing = "no"
    /\ agent.left = 0 \/ (agent.busy = "boot" /\ ~target.alive)

StartDue ==
    /\ agent.process = "up" /\ agent.busy \in {"port", "boot"}
    /\ agent.left = 0 \/ (agent.busy = "boot" /\ ~target.alive)

\* There is no port, or the target exits, is not ready in time or says nonsense:
\* target:start cleans up what it started.
StartFails ==
    /\ agent.process = "up"
    /\ \/ StartDue
       \/ agent.busy = "port"
       \/ agent.busy = "boot" /\ target.kind = "prompt"
    /\ agent' = [agent EXCEPT !.busy = "terminate", !.left = 0]
    /\ Terminate("command")
    /\ UNCHANGED client

\* benchkit:ready, and the answer to target:start if start() still waits for it.
StartSucceeds ==
    /\ agent.process = "up" /\ agent.busy = "boot" /\ target.alive /\ target.kind = "prompt"
    /\ agent' = CommandOver(agent)
    /\ client' = IF client.step = "starting" THEN [client EXCEPT !.step = "running", !.left = 0]
                 ELSE client
    /\ UNCHANGED <<term, asking, target>>

MetricsDue == agent.process = "up" /\ agent.busy = "none" /\ agent.waiting > 0

\* metrics:start or metrics:stop, when it is its turn.
MetricsBegins ==
    /\ MetricsDue
    /\ agent' = [agent EXCEPT !.busy = "metrics", !.left = Command, !.waiting = @ - 1]
    /\ UNCHANGED <<client, term, asking, target>>

StopDue == agent.process = "up" /\ agent.busy = "none" /\ agent.waiting = 0 /\ agent.queued

\* target:stop, when it is its turn.
StopCommand ==
    /\ StopDue
    /\ agent' = [agent EXCEPT !.busy = "terminate", !.queued = FALSE]
    /\ Terminate("command")
    /\ UNCHANGED client

CommandDue ==
    /\ agent.process = "up"
    /\ \/ agent.busy = "metrics" /\ (agent.left = 0 \/ target.kind = "prompt" \/ ~target.alive)
       \/ agent.busy = "terminate" /\ term["command"].stage = "done"

\* The command at hand is done: metrics:* with an answer or its timeout, the others
\* when the target is terminated.  The client's timer of a metrics command is as
\* long as the agent's and began before it: the answer is late, and fails the client.
CommandEnds ==
    /\ CommandDue
    /\ agent' = [CommandOver(agent) EXCEPT !.answered = agent.busy = "terminate"]
    /\ \/ UNCHANGED client
       \/ /\ agent.busy = "metrics" /\ agent.left = 0
          /\ client' = [client EXCEPT !.failed = TRUE]
    /\ UNCHANGED <<term, asking, target>>
--------------------------------------------------------------------------------
(* How the agent closes *)

\* AgentStdioRuntime.close() waits for the commands it finds in the queue.
BeginClose(a) ==
    IF a.closing # "no" THEN a
    ELSE [a EXCEPT !.closing = "queue",
                   !.ahead = a.waiting + (IF a.busy = "none" THEN 0 ELSE 1)
                                       + (IF a.queued THEN 1 ELSE 0)]

\* BenchkitAgent.close(): only the first call has something to wait for.
CloseAgent(a, who) ==
    IF a.closed # "no" \/ ~target.alive
    THEN /\ agent' = [a EXCEPT !.closed = IF @ = "no" THEN who ELSE @,
                               !.process = IF who = "fail" THEN "exited" ELSE @]
         /\ UNCHANGED <<term, asking, target>>
    ELSE /\ agent' = [a EXCEPT !.closed = who]
         /\ Terminate("close")

DrainDue == agent.process = "up" /\ agent.closing = "queue" /\ agent.ahead = 0

\* Mutant: close() does not wait for the command at hand.
CloseOvertakes ==
    /\ agent.process = "up" /\ agent.closing = "queue"
    /\ CloseAgent([agent EXCEPT !.closing = "drained"], "close")
    /\ UNCHANGED client

\* The commands are done, and the target is terminated.
QueueDrained ==
    /\ DrainDue
    /\ CloseAgent([agent EXCEPT !.closing = "drained"], "close")
    /\ UNCHANGED client

\* Mutant: a fatal error exits without terminating the target.
FailWithoutCleanup ==
    /\ agent.process = "up"
    /\ agent' = [agent EXCEPT !.process = "exited"]
    /\ UNCHANGED <<client, term, asking, target>>

\* fail() and the error of stdout do not wait for the queue; a second caller of
\* BenchkitAgent.close() exits without waiting for the first.
AgentFails ==
    /\ agent.process = "up"
    /\ CloseAgent(agent, "fail")
    /\ UNCHANGED client

AgentExitDue ==
    LET terminated == term["close"].stage \in {"none", "done"}
    IN  /\ agent.process = "up"
        /\ \/ agent.closed = "fail" /\ terminated
           \/ agent.closing = "drained" /\ agent.exits /\ (agent.closed = "fail" \/ terminated)
           \/ /\ agent.closing = "drained" /\ terminated
              /\ agent.busy = "none" /\ agent.waiting = 0 /\ ~agent.queued

\* process.exit, or nothing is left to wait for.
AgentExits ==
    /\ AgentExitDue
    /\ agent' = [agent EXCEPT !.process = "exited"]
    /\ UNCHANGED <<client, term, asking, target>>

\* The listeners are once(): a second signal of a kind has its default action.
Signalled(sig) ==
    IF sig \in agent.handles
    THEN [BeginClose(agent) EXCEPT !.exits = TRUE, !.handles = @ \ {sig}]
    ELSE [agent EXCEPT !.process = "terminated"]

\* From a terminal, a service manager or an operator, as often as they like.
AgentSignalled ==
    /\ agent.process = "up"
    /\ \E sig \in Signal : agent' = Signalled(sig)
    /\ UNCHANGED <<client, term, asking, target>>
--------------------------------------------------------------------------------
(* The runner *)

\* The end of stdin, if anybody is there to read it.
StdinEnds == agent' = IF agent.process = "up" THEN BeginClose(agent) ELSE agent

CloseClient ==
    /\ client' = [client EXCEPT !.step = "ended", !.left = Kill]
    /\ StdinEnds

\* startMetrics() and stopMetrics(); calls may overlap, and do not wait for an answer
\* that was given up.
MetricsCommand ==
    /\ client.step = "running" /\ ~client.failed /\ agent.process = "up"
    /\ agent.waiting + (IF agent.busy = "metrics" THEN 1 ELSE 0) < MaxMetrics
    /\ agent' = [agent EXCEPT !.waiting = @ + 1]
    /\ UNCHANGED <<client, term, asking, target>>

\* stop(), with target:stop unless the client has failed.
RunnerStops ==
    /\ client.step = "running"
    /\ IF client.failed THEN CloseClient
       ELSE /\ client' = [client EXCEPT !.step = "stopping", !.left = ShutdownGrace + 2 * Kill]
            /\ agent' = [agent EXCEPT !.queued = TRUE]
    /\ UNCHANGED <<term, asking, target>>

RequestDue ==
    /\ client.step \in {"starting", "stopping"}
    /\ client.left = 0 \/ agent.answered \/ (client.step = "stopping" /\ client.failed)

\* target:start has failed, or target:stop is over: answered, timed out, or failed
\* with the client, which an agent:error, target:exit or the agent's exit brings about.
RequestEnds ==
    /\ \/ RequestDue
       \/ /\ client.step \in {"starting", "stopping"}
          /\ \/ agent.closed = "fail" \/ agent.process # "up"
             \/ client.step = "stopping" /\ ~target.alive
    /\ CloseClient
    /\ UNCHANGED <<term, asking, target>>

CloseDue == agent.process = "up" /\ client.left = 0 /\ client.step \in {"ended", "signalled"}

\* Mutant: close() does without SIGTERM.
KillTooSoon ==
    /\ CloseDue
    /\ client' = [client EXCEPT !.step = "done"]
    /\ agent' = [agent EXCEPT !.process = "killed"]
    /\ UNCHANGED <<term, asking, target>>

\* ControlClient.close(): SIGTERM after killMs, SIGKILL after another.
ClientEscalates ==
    /\ CloseDue
    /\ \/ /\ client.step = "ended"
          /\ client' = [client EXCEPT !.step = "signalled", !.left = Kill]
          /\ agent' = Signalled("SIGTERM")
       \/ /\ client.step = "signalled"
          /\ client' = [client EXCEPT !.step = "done"]
          /\ agent' = [agent EXCEPT !.process = "killed"]
    /\ UNCHANGED <<term, asking, target>>

\* The runner is killed: the pipe to the agent closes.
RunnerCrashes ==
    /\ client.step # "crashed"
    /\ client' = [client EXCEPT !.step = "crashed", !.left = 0]
    /\ StdinEnds
    /\ UNCHANGED <<term, asking, target>>
--------------------------------------------------------------------------------
(* The target *)

\* The TargetRuntime comes into being; what is in its channel is read then.
TargetBoots ==
    /\ target.alive /\ target.kind = "booting"
    /\ target' = [target EXCEPT !.kind = "prompt"]
    /\ UNCHANGED <<client, agent, term, asking>>

\* Its event loop blocks.
TargetBlocks ==
    /\ target.alive /\ target.kind = "prompt"
    /\ target' = [target EXCEPT !.kind = "deaf"]
    /\ UNCHANGED <<client, agent, term, asking>>

\* shutdown(): later callers share the promise of the first.
Shutdown(by) ==
    [target EXCEPT !.callers = @ \cup {by},
                   !.runs = IF @ = 0 THEN 1 ELSE @]

\* The shutdown command or the signal reaches the runtime.
ShutdownRequested ==
    /\ target.alive /\ target.kind = "prompt"
    /\ \/ /\ target.asked
          /\ target' = [Shutdown("ipc") EXCEPT !.asked = FALSE]
       \/ /\ target.signalled
          /\ target' = [Shutdown("signal") EXCEPT !.signalled = FALSE]
    /\ UNCHANGED <<client, agent, term, asking>>

HookFinishes ==
    /\ target.alive /\ target.kind = "prompt" /\ target.runs > 0 /\ target.hooks < NumHooks
    /\ target' = [target EXCEPT !.hooks = @ + 1]
    /\ UNCHANGED <<client, agent, term, asking>>

\* Mutant: the process exits without waiting for the promise.
ShutdownCompleteTooSoon == target.callers # {}

ShutdownComplete == target.callers # {} /\ target.hooks = NumHooks

\* The answer to the command, if that is what asked, and process.exit; the exit
\* may overtake the answer.
TargetLeaves ==
    /\ target.alive /\ target.kind = "prompt" /\ ShutdownComplete
    /\ target' = [target EXCEPT !.alive = FALSE]
    /\ \/ /\ "ipc" \in target.callers /\ asking # "none"
          /\ term' = [term EXCEPT ![asking].stage = "wait"]
          /\ asking' = "none"
       \/ UNCHANGED <<term, asking>>
    /\ UNCHANGED <<client, agent>>

KillDue == target.alive /\ (target.killed \/ (target.signalled /\ target.kind = "booting"))

\* SIGKILL, or SIGTERM before there is a runtime to handle it.
TargetKilled ==
    /\ KillDue
    /\ target' = [target EXCEPT !.alive = FALSE]
    /\ UNCHANGED <<client, agent, term, asking>>
--------------------------------------------------------------------------------
\* The timers, and what an event handler or the kernel does at once.
Step ==
    \/ \E t \in Terminator : Escalate(t) \/ SeeExit(t)
    \/ Fork \/ StartFails \/ MetricsBegins \/ StopCommand \/ CommandEnds
    \/ QueueDrained \/ AgentExits
    \/ RequestEnds \/ ClientEscalates
    \/ TargetKilled

\* Something is due.
Due ==
    \/ \E t \in Terminator : DeadlineDue(t) \/ ExitDue(t)
    \/ StartDue \/ MetricsDue \/ StopDue \/ CommandDue \/ DrainDue \/ AgentExitDue
    \/ RequestDue \/ CloseDue
    \/ KillDue

\* Time passes only when nothing is due.
Tick ==
    /\ ~Due
    /\ client' = [client EXCEPT !.left = Less(@)]
    /\ agent' = [agent EXCEPT !.left = Less(@)]
    /\ term' = [t \in Terminator |-> [term[t] EXCEPT !.left = Less(@)]]
    /\ UNCHANGED <<asking, target>>

Next ==
    \/ Step \/ Tick
    \/ StartSucceeds
    \/ AgentFails \/ AgentSignalled
    \/ MetricsCommand \/ RunnerStops \/ RunnerCrashes
    \/ TargetBoots \/ TargetBlocks \/ ShutdownRequested \/ HookFinishes \/ TargetLeaves

\* Time passes and what is due happens, and a session sends metrics commands only so
\* many times; a target need not do anything.
Fairness == WF_vars(Step) /\ WF_vars(Tick) /\ <>[][~MetricsCommand]_vars

Spec == Init /\ [][Next]_vars
FairSpec == Spec /\ Fairness
--------------------------------------------------------------------------------
\* Something has told the target to shut down.
Told == target.asked \/ target.signalled \/ target.runs > 0

\* The deadlines with which the client may kill an agent that has not come to tell
\* its target: it was long in starting it, or a target whose event loop is blocked
\* keeps it in metrics commands, of which the first may fail the client.
DeadlinesTooShort ==
    \/ Port >= 2 * Kill
    \/ /\ target.kind = "deaf"
       /\ \/ MaxMetrics * Command >= ShutdownGrace + 4 * Kill
          \/ (MaxMetrics - 1) * Command >= 2 * Kill

\* An agent that exits has told its target to shut down, however the runner, a signal
\* or a failure brought its end about and whatever it was waiting for: none is left
\* running unawares.  One that is killed has, too, unless a second signal of a kind
\* met it without a listener, or the client's deadlines are too short.
NoneForgotten ==
    agent.process # "up" /\ target.alive =>
        \/ Told
        \/ agent.process = "terminated"
        \/ agent.process = "killed" /\ DeadlinesTooShort

\* The variables have their types.  The shutdown hooks run once, though the command
\* and repeated signals ask for it, and a target that leaves without SIGKILL has
\* finished all of them.
HooksOnceThenExit ==
    /\ client \in Client /\ agent \in Agent /\ target \in Target
    /\ term \in [Terminator -> [stage : Stage, left : Nat]]
    /\ asking \in Terminator \cup {"none"}
    /\ target.runs <= 1
    /\ ~target.alive /\ ~target.killed /\ target.kind = "prompt" => target.hooks = NumHooks

\* However the end begins, the agent's process ends: no wait for a target, a queue or
\* a second terminator keeps it.
AgentEnds ==
    client.step = "stopping" \/ agent.closing # "no" \/ agent.closed # "no"
        ~> agent.process # "up"

\* "target readiness timeout cleans up a started fixture process"
\* (target-provider.test.ts:67): when start() has closed the agent for good, what is
\* left of the target has been killed or can still do what it was told.
CleansUp ==
    client.step = "done" /\ agent.closed # "fail" /\ target.alive =>
        target.killed \/ (Told /\ target.kind # "deaf")
================================================================================
