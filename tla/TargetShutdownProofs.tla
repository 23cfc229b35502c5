------------------------- MODULE TargetShutdownProofs -------------------------
(***************************************************************************)
(* The shutdown hooks run once and all of them, and an agent that ends has *)
(* told its target to shut down, unless a second signal or too short       *)
(* deadlines ended it: for every deadline and number of hooks.             *)
(***************************************************************************)
EXTENDS TargetShutdown, TLAPS

Types ==
    /\ client \in Client /\ agent \in Agent /\ target \in Target
    /\ term \in [Terminator -> [stage : Stage, left : Nat]]
    /\ asking \in Terminator \cup {"none"}

\* What a target does on its way out.
HooksInv ==
    /\ target.runs <= 1
    /\ ~target.alive /\ ~target.killed /\ target.kind = "prompt" => target.hooks = NumHooks

\* A metrics command is at hand or waits.
Measuring == agent.waiting > 0 \/ agent.busy = "metrics"

\* The commands follow one another: the start, the metrics, the stop.
OrderInv ==
    /\ agent.waiting > 0 => agent.busy \in {"none", "metrics"}
    /\ Measuring => ~agent.answered /\ target.kind # "booting"
    /\ agent.busy \in {"port", "boot"} => /\ ~agent.answered /\ ~agent.queued
                                         /\ client.step \notin {"running", "stopping"}
    /\ client.step = "starting" => ~Measuring /\ ~agent.queued
    /\ client.step = "running" => /\ agent.busy \in {"none", "metrics"} /\ ~agent.answered
                                  /\ ~agent.queued /\ target.kind # "booting"
    /\ agent.waiting + (IF agent.busy = "metrics" THEN 1 ELSE 0) <= MaxMetrics
    /\ agent.busy = "metrics" => agent.left <= Command

\* The commands that are not done.
Undone == agent.waiting + (IF agent.busy = "none" THEN 0 ELSE 1) + (IF agent.queued THEN 1 ELSE 0)

\* A target is told before its agent stops looking after it: a command that
\* terminates it has told it, and so has a close(), which a start does not outlast.
ToldInv ==
    /\ agent.busy = "port" => ~target.alive
    /\ agent.process = "up" /\ agent.closed # "no" => agent.busy # "port"
    /\ agent.busy = "port" /\ agent.closing # "no" => agent.closing = "queue" /\ agent.ahead > 0
    /\ agent.closing = "queue" => agent.ahead <= Undone
    /\ agent.closing = "drained" => agent.closed # "no"
    /\ agent.busy = "terminate" /\ target.alive => Told
    /\ agent.closed # "no" /\ target.alive => Told
    /\ agent.process = "exited" /\ target.alive => Told
    /\ agent.process = "killed" /\ target.alive => Told \/ DeadlinesTooShort
    /\ term["close"].stage # "none" \/ asking = "close" => agent.closed # "no"

Looked == agent.process = "up" /\ agent.closed = "no"

\* How much of a start the client's deadlines have seen pass.
StartInv ==
    /\ Looked /\ agent.busy = "port" =>
        /\ client.step = "starting" => agent.left + Ready <= Port + client.left
        /\ client.step = "ended" => agent.left + Ready + Kill <= Port + client.left
        /\ client.step = "signalled" => agent.left + Ready + 2 * Kill <= Port + client.left
    /\ Looked /\ agent.busy = "boot" =>
        /\ client.step = "starting" => agent.left <= Port + client.left
        /\ client.step = "ended" => agent.left + Kill <= Port + client.left
        /\ client.step = "signalled" => agent.left + 2 * Kill <= Port + client.left

\* The time that the metrics commands may still take.
Rest == agent.waiting * Command + (IF agent.busy = "metrics" THEN agent.left ELSE 0)

\* How much of the metrics commands they have: with all of them, or after the first
\* has failed the client.
MetricsInv ==
    Looked /\ target.alive /\ Measuring =>
        /\ client.failed => Rest <= (MaxMetrics - 1) * Command
        /\ client.step = "stopping" =>
              Rest + ShutdownGrace + 2 * Kill <= MaxMetrics * Command + client.left
        /\ client.step = "ended" =>
              \/ Rest + ShutdownGrace + 3 * Kill <= MaxMetrics * Command + client.left
              \/ Rest + Kill <= (MaxMetrics - 1) * Command + client.left
        /\ client.step = "signalled" =>
              \/ Rest + ShutdownGrace + 4 * Kill <= MaxMetrics * Command + client.left
              \/ Rest + 2 * Kill <= (MaxMetrics - 1) * Command + client.left

\* When the client comes to kill the agent, the target has been told, or could not be.
ClockInv ==
    agent.process = "up" =>
        /\ client.step \in {"ended", "signalled"} => agent.closing # "no"
        /\ client.step = "signalled" /\ client.left = 0 =>
              /\ target.alive => Told \/ DeadlinesTooShort
              /\ agent.busy = "port" => DeadlinesTooShort

IInv == Types /\ HooksInv /\ OrderInv /\ ToldInv /\ StartInv /\ MetricsInv /\ ClockInv
--------------------------------------------------------------------------------
(* What the shared pieces of the actions do *)

LEMMA ConstantFacts ==
    /\ Ready \in Nat /\ ShutdownGrace \in Nat /\ Kill \in Nat /\ Command \in Nat
    /\ Port \in Nat /\ MaxMetrics \in Nat /\ NumHooks \in Nat
    /\ Ready # 0 /\ Kill # 0 /\ Command # 0
BY DurationsAssumption, MetricsAssumption, HooksAssumption

\* Terminating a live target tells it to shut down; a dead one is left as it is.
LEMMA TerminateFields ==
    ASSUME Types, NEW t \in Terminator, Terminate(t)
    PROVE  /\ term' \in [Terminator -> [stage : Stage, left : Nat]]
           /\ asking' \in Terminator \cup {"none"}
           /\ target.alive => target' = [target EXCEPT !.asked = TRUE]
           /\ ~target.alive => target' = target
           /\ \A s \in Terminator \ {t} : term'[s] = term[s]
           /\ asking' \in {asking, t}
<1>1. CASE target.alive
  BY <1>1, ConstantFacts DEF Types, Terminate, Terminator, Stage
<1>2. CASE ~target.alive
  BY <1>2 DEF Types, Terminate, Terminator, Stage
<1>. QED
  BY <1>1, <1>2

\* The command at hand and those that wait are as they were.
SameWork ==
    /\ agent'.busy = agent.busy /\ agent'.left = agent.left /\ agent'.waiting = agent.waiting
    /\ agent'.queued = agent.queued /\ agent'.answered = agent.answered

\* close() goes on waiting, or begins to wait for every command there is.
SameClosing ==
    \/ agent'.closing = agent.closing /\ agent'.ahead = agent.ahead
    \/ agent.closing = "no" /\ agent'.closing = "queue" /\ agent'.ahead = Undone

LEMMA BeginCloseFields ==
    ASSUME Types, agent' = BeginClose(agent)
    PROVE  /\ agent' \in Agent /\ SameWork /\ SameClosing /\ agent'.closing # "no"
           /\ agent'.process = agent.process /\ agent'.closed = agent.closed
           /\ agent'.handles = agent.handles
<1>1. CASE agent.closing # "no"
  BY <1>1 DEF BeginClose, Types, SameWork, SameClosing
<1>2. CASE agent.closing = "no"
  <2>1. PICK n \in Nat : n = Undone
    BY DEF Types, Agent, Undone
  <2>2. agent' = [agent EXCEPT !.closing = "queue", !.ahead = n]
    BY <1>2, <2>1 DEF BeginClose, Undone
  <2>. QED
    BY <1>2, <2>1, <2>2 DEF Types, Agent, SameWork, SameClosing
<1>. QED
  BY <1>1, <1>2

LEMMA StdinFields ==
    ASSUME Types, StdinEnds
    PROVE  /\ agent' \in Agent /\ SameWork /\ SameClosing
           /\ agent.process = "up" => agent'.closing # "no"
           /\ agent'.process = agent.process /\ agent'.closed = agent.closed
<1>1. CASE agent.process = "up"
  BY <1>1, BeginCloseFields DEF StdinEnds
<1>2. CASE agent.process # "up"
  BY <1>2 DEF StdinEnds, Types, SameWork, SameClosing
<1>. QED
  BY <1>1, <1>2

LEMMA SignalFields ==
    ASSUME Types, NEW sig \in Signal, agent' = Signalled(sig)
    PROVE  /\ agent' \in Agent /\ SameWork /\ SameClosing
           /\ agent'.process \in {agent.process, "terminated"}
           /\ agent'.process = "terminated" \/ agent'.closing # "no"
           /\ agent'.closed = agent.closed
<1>1. CASE sig \in agent.handles
  <2>1. PICK n \in Nat : n = Undone
    BY DEF Types, Agent, Undone
  <2>2. PICK h \in SUBSET Signal : h = agent.handles \ {sig}
    BY DEF Types, Agent
  <2>3. CASE agent.closing = "no"
    <3>1. agent' = [agent EXCEPT !.closing = "queue", !.ahead = n, !.exits = TRUE, !.handles = h]
      BY <1>1, <2>1, <2>2, <2>3 DEF Signalled, BeginClose, Undone, Types, Agent
    <3>. QED
      BY <2>1, <2>3, <3>1 DEF Types, Agent, SameWork, SameClosing
  <2>4. CASE agent.closing # "no"
    <3>1. agent' = [agent EXCEPT !.exits = TRUE, !.handles = h]
      BY <1>1, <2>2, <2>4 DEF Signalled, BeginClose
    <3>. QED
      BY <2>4, <3>1 DEF Types, Agent, SameWork, SameClosing
  <2>. QED
    BY <2>3, <2>4
<1>2. CASE sig \notin agent.handles
  <2>1. agent' = [agent EXCEPT !.process = "terminated"]
    BY <1>2 DEF Signalled
  <2>. QED
    BY <2>1 DEF Types, Agent, SameWork, SameClosing
<1>. QED
  BY <1>1, <1>2

\* BenchkitAgent.close(): the agent is closed from then on, and a live target that
\* no close() has told is told, before the process may exit.
LEMMA CloseFields ==
    ASSUME Types, NEW a \in Agent, a.process = "up", NEW who \in {"close", "fail"},
           CloseAgent(a, who)
    PROVE  /\ agent' \in Agent /\ target' \in Target
           /\ agent'.busy = a.busy /\ agent'.left = a.left /\ agent'.waiting = a.waiting
           /\ agent'.queued = a.queued /\ agent'.answered = a.answered
           /\ agent'.closing = a.closing /\ agent'.ahead = a.ahead
           /\ agent'.closed # "no" /\ agent'.process \in {"up", "exited"}
           /\ a.closed # "no" \/ ~target.alive =>
                 target' = target /\ (who = "fail" => agent'.process = "exited")
           /\ ~(a.closed # "no" \/ ~target.alive) =>
                 agent'.process = "up" /\ target' = [target EXCEPT !.asked = TRUE]
           /\ term' \in [Terminator -> [stage : Stage, left : Nat]]
           /\ asking' \in Terminator \cup {"none"}
<1>1. CASE a.closed # "no" \/ ~target.alive
  <2>1. UNCHANGED <<term, asking, target>>
    BY <1>1 DEF CloseAgent
  <2>2. PICK c \in {"close", "fail"}, p \in {"up", "exited"} :
           /\ agent' = [a EXCEPT !.closed = c, !.process = p]
           /\ who = "fail" => p = "exited"
    BY <1>1 DEF CloseAgent, Agent
  <2>3. agent' \in Agent
    BY <2>2 DEF Agent
  <2>. QED
    BY <1>1, <2>1, <2>2, <2>3 DEF Types, Agent
<1>2. CASE ~(a.closed # "no" \/ ~target.alive)
  <2>1. agent' = [a EXCEPT !.closed = who] /\ Terminate("close")
    BY <1>2 DEF CloseAgent
  <2>2. "close" \in Terminator
    BY DEF Terminator
  <2>3. target' = [target EXCEPT !.asked = TRUE]
    BY <1>2, <2>1, <2>2, TerminateFields
  <2>4. agent' \in Agent /\ target' \in Target
    BY <2>1, <2>3 DEF Agent, Types, Target
  <2>. QED
    BY <1>2, <2>1, <2>2, <2>3, <2>4, TerminateFields DEF Agent
<1>. QED
  BY <1>1, <1>2

\* close() past the queue.
LEMMA DrainFields ==
    ASSUME Types, QueueDrained
    PROVE  /\ agent' \in Agent /\ target' \in Target /\ SameWork /\ client' = client
           /\ agent.process = "up" /\ agent.closing = "queue" /\ agent.ahead = 0
           /\ agent'.closing = "drained" /\ agent'.ahead = agent.ahead
           /\ agent'.closed # "no" /\ agent'.process \in {"up", "exited"}
           /\ agent.closed # "no" \/ ~target.alive => target' = target
           /\ ~(agent.closed # "no" \/ ~target.alive) => target' = [target EXCEPT !.asked = TRUE]
           /\ term' \in [Terminator -> [stage : Stage, left : Nat]]
           /\ asking' \in Terminator \cup {"none"}
<1>1. DEFINE a == [agent EXCEPT !.closing = "drained"]
<1>2. /\ a \in Agent /\ a.process = "up" /\ CloseAgent(a, "close") /\ client' = client
      /\ agent.closing = "queue" /\ agent.ahead = 0 /\ a.closing = "drained" /\ a.ahead = agent.ahead
      /\ a.busy = agent.busy /\ a.left = agent.left /\ a.waiting = agent.waiting
      /\ a.queued = agent.queued /\ a.answered = agent.answered /\ a.closed = agent.closed
      /\ agent.process = "up"
  BY DEF QueueDrained, DrainDue, Types, Agent
<1>3. "close" \in {"close", "fail"}
  OBVIOUS
<1>. HIDE DEF a
<1>. QED
  BY <1>2, <1>3, CloseFields DEF SameWork

\* A fatal error: close() at once, and the process exits if there is no target.
LEMMA FailFields ==
    ASSUME Types, AgentFails
    PROVE  /\ agent' \in Agent /\ target' \in Target /\ SameWork /\ client' = client
           /\ agent.process = "up" /\ agent'.closing = agent.closing /\ agent'.ahead = agent.ahead
           /\ agent'.closed # "no" /\ agent'.process \in {"up", "exited"}
           /\ ~target.alive => agent'.process = "exited"
           /\ agent.closed # "no" \/ ~target.alive => target' = target
           /\ ~(agent.closed # "no" \/ ~target.alive) => target' = [target EXCEPT !.asked = TRUE]
           /\ term' \in [Terminator -> [stage : Stage, left : Nat]]
           /\ asking' \in Terminator \cup {"none"}
<1>1. agent \in Agent /\ agent.process = "up" /\ CloseAgent(agent, "fail") /\ client' = client
  BY DEF AgentFails, Types
<1>2. "fail" \in {"close", "fail"}
  OBVIOUS
<1>. QED
  BY <1>1, <1>2, CloseFields DEF SameWork

\* A command that is over is one less for close() to wait for.
LEMMA OverFields ==
    ASSUME Types
    PROVE  LET b == CommandOver(agent)
           IN  /\ b \in Agent /\ b.busy = "none" /\ b.left = 0 /\ b.ahead = Less(agent.ahead)
               /\ b.process = agent.process /\ b.waiting = agent.waiting
               /\ b.queued = agent.queued /\ b.answered = agent.answered
               /\ b.closing = agent.closing /\ b.closed = agent.closed
               /\ b.handles = agent.handles /\ b.exits = agent.exits
<1>1. PICK n \in Nat : n = Less(agent.ahead)
  BY DEF Types, Agent, Less
<1>2. DEFINE b == CommandOver(agent)
<1>3. b = [agent EXCEPT !.busy = "none", !.left = 0, !.ahead = n]
  BY <1>1 DEF CommandOver
<1>. HIDE DEF b
<1>4. /\ b \in Agent /\ b.busy = "none" /\ b.left = 0 /\ b.ahead = Less(agent.ahead)
      /\ b.process = agent.process /\ b.waiting = agent.waiting
      /\ b.queued = agent.queued /\ b.answered = agent.answered
      /\ b.closing = agent.closing /\ b.closed = agent.closed
      /\ b.handles = agent.handles /\ b.exits = agent.exits
  BY <1>1, <1>3 DEF Types, Agent
<1>. QED
  BY <1>4 DEF b

\* The first request starts the hooks, and no request starts them again.
LEMMA RequestedFields ==
    ASSUME Types, ShutdownRequested
    PROVE  /\ target' \in Target
           /\ target'.alive = target.alive /\ target'.kind = target.kind
           /\ target'.killed = target.killed /\ target'.hooks = target.hooks
           /\ target'.runs > 0
           /\ target.runs <= 1 => target'.runs <= 1
<1>1. PICK by \in {"ipc", "signal"} :
        \/ target' = [Shutdown(by) EXCEPT !.asked = FALSE]
        \/ target' = [Shutdown(by) EXCEPT !.signalled = FALSE]
  BY DEF ShutdownRequested
<1>2. DEFINE s == Shutdown(by)
<1>3. /\ s \in Target
      /\ s.alive = target.alive /\ s.kind = target.kind
      /\ s.killed = target.killed /\ s.hooks = target.hooks
      /\ s.runs > 0
      /\ target.runs <= 1 => s.runs <= 1
  <2>1. PICK n \in Nat : n = IF target.runs = 0 THEN 1 ELSE target.runs
    BY DEF Types, Target
  <2>2. n > 0 /\ (target.runs <= 1 => n <= 1)
    BY <2>1 DEF Types, Target
  <2>3. PICK who \in SUBSET {"ipc", "signal"} : who = target.callers \cup {by}
    BY DEF Types, Target
  <2>4. s = [target EXCEPT !.callers = who, !.runs = n]
    BY <2>1, <2>3 DEF Shutdown
  <2>. HIDE DEF s
  <2>. QED
    BY <2>2, <2>4 DEF Types, Target
<1>4. target' = [s EXCEPT !.asked = FALSE] \/ target' = [s EXCEPT !.signalled = FALSE]
  BY <1>1
<1>. HIDE DEF s
<1>. QED
  BY <1>3, <1>4 DEF Target
--------------------------------------------------------------------------------
(* The variables keep their types *)

LEMMA TypesNext ==
    ASSUME Types, Next
    PROVE  Types'
<1>. USE ConstantFacts
<1>1. ASSUME NEW t \in Terminator, Escalate(t)
      PROVE  Types'
  <2>1. term' \in [Terminator -> [stage : Stage, left : Nat]]
    BY <1>1 DEF Types, Escalate, Stage
  <2>2. \/ target' = target \/ target' = [target EXCEPT !.signalled = TRUE]
        \/ target' = [target EXCEPT !.killed = TRUE]
    BY <1>1 DEF Escalate
  <2>3. target' \in Target
    BY <2>2 DEF Types, Target
  <2>4. asking' \in Terminator \cup {"none"}
    BY <1>1 DEF Types, Escalate
  <2>. QED
    BY <1>1, <2>1, <2>3, <2>4 DEF Types, Escalate
<1>2. ASSUME NEW t \in Terminator, SeeExit(t)
      PROVE  Types'
  BY <1>2 DEF Types, SeeExit, Terminator, Stage
<1>3. CASE Fork
  BY <1>3 DEF Types, Fork, Agent, Target
<1>4. CASE StartFails \/ StopCommand
  <2>1. Terminate("command") /\ "command" \in Terminator /\ client' = client
    BY <1>4 DEF StartFails, StopCommand, Terminator
  <2>2. \/ agent' = [agent EXCEPT !.busy = "terminate", !.left = 0]
        \/ agent' = [agent EXCEPT !.busy = "terminate", !.queued = FALSE]
    BY <1>4 DEF StartFails, StopCommand
  <2>3. agent' \in Agent
    <3>1. CASE agent' = [agent EXCEPT !.busy = "terminate", !.left = 0]
      BY <3>1 DEF Types, Agent
    <3>2. CASE agent' = [agent EXCEPT !.busy = "terminate", !.queued = FALSE]
      BY <3>2 DEF Types, Agent
    <3>. QED
      BY <2>2, <3>1, <3>2
  <2>4. target' \in Target
    BY <2>1, TerminateFields DEF Types, Target
  <2>. QED
    BY <2>1, <2>3, <2>4, TerminateFields DEF Types
<1>5. CASE StartSucceeds
  <2>1. agent' \in Agent
    BY <1>5, OverFields DEF StartSucceeds
  <2>2. client' \in Client
    BY <1>5 DEF StartSucceeds, Types, Client
  <2>. QED
    BY <1>5, <2>1, <2>2 DEF StartSucceeds, Types
<1>6. CASE MetricsBegins
  <2>1. PICK n \in Nat : n = agent.waiting - 1
    BY <1>6 DEF MetricsBegins, MetricsDue, Types, Agent
  <2>2. agent' = [agent EXCEPT !.busy = "metrics", !.left = Command, !.waiting = n]
    BY <1>6, <2>1 DEF MetricsBegins
  <2>3. agent' \in Agent
    BY <2>1, <2>2 DEF Types, Agent
  <2>. QED
    BY <1>6, <2>3 DEF MetricsBegins, Types
<1>7. CASE CommandEnds
  <2>1. DEFINE b == CommandOver(agent)
  <2>2. b \in Agent /\ agent' = [b EXCEPT !.answered = agent.busy = "terminate"]
    BY <1>7, OverFields DEF CommandEnds
  <2>. HIDE DEF b
  <2>3. agent' \in Agent
    BY <2>2 DEF Agent
  <2>4. client' \in Client
    BY <1>7 DEF CommandEnds, Types, Client
  <2>. QED
    BY <1>7, <2>3, <2>4 DEF CommandEnds, Types
<1>8. CASE QueueDrained
  BY <1>8, DrainFields DEF Types
<1>9. CASE AgentFails
  BY <1>9, FailFields DEF Types
<1>10. CASE AgentExits
  BY <1>10 DEF Types, AgentExits, Agent
<1>11. CASE AgentSignalled
  BY <1>11, SignalFields DEF Types, AgentSignalled
<1>12. CASE RequestEnds
  <2>1. client' \in Client /\ StdinEnds
    BY <1>12 DEF RequestEnds, CloseClient, Types, Client
  <2>. QED
    BY <1>12, <2>1, StdinFields DEF RequestEnds, Types
<1>13. CASE ClientEscalates
  <2>1. client' \in Client
    BY <1>13 DEF Types, ClientEscalates, Client
  <2>2. agent' \in Agent
    <3>1. CASE agent' = Signalled("SIGTERM")
      BY <3>1, SignalFields DEF Signal
    <3>2. CASE agent' = [agent EXCEPT !.process = "killed"]
      BY <3>2 DEF Types, Agent
    <3>. QED
      BY <1>13, <3>1, <3>2 DEF ClientEscalates
  <2>. QED
    BY <1>13, <2>1, <2>2 DEF Types, ClientEscalates
<1>14. CASE TargetKilled
  BY <1>14 DEF Types, TargetKilled, Target
<1>15. CASE Tick
  <2>1. \A n \in Nat : Less(n) \in Nat
    BY DEF Less
  <2>2. client' \in Client /\ agent' \in Agent
    BY <1>15, <2>1 DEF Types, Tick, Client, Agent
  <2>3. term' \in [Terminator -> [stage : Stage, left : Nat]]
    BY <1>15, <2>1 DEF Types, Tick
  <2>. QED
    BY <1>15, <2>2, <2>3 DEF Types, Tick
<1>16. CASE MetricsCommand
  <2>1. agent' \in Agent
    BY <1>16 DEF MetricsCommand, Types, Agent
  <2>. QED
    BY <1>16, <2>1 DEF MetricsCommand, Types
<1>17. CASE RunnerStops
  <2>1. client' \in Client
    <3>1. PICK n \in Nat : n = ShutdownGrace + 2 * Kill
      OBVIOUS
    <3>2. \/ client' = [client EXCEPT !.step = "ended", !.left = Kill]
          \/ client' = [client EXCEPT !.step = "stopping", !.left = n]
      BY <1>17, <3>1 DEF RunnerStops, CloseClient
    <3>. QED
      BY <3>2 DEF Types, Client
  <2>2. agent' \in Agent
    <3>1. CASE StdinEnds
      BY <3>1, StdinFields
    <3>2. CASE agent' = [agent EXCEPT !.queued = TRUE]
      BY <3>2 DEF Types, Agent
    <3>. QED
      BY <1>17, <3>1, <3>2 DEF RunnerStops, CloseClient
  <2>. QED
    BY <1>17, <2>1, <2>2 DEF Types, RunnerStops
<1>18. CASE RunnerCrashes
  <2>1. client' \in Client /\ StdinEnds
    BY <1>18 DEF RunnerCrashes, Types, Client
  <2>. QED
    BY <1>18, <2>1, StdinFields DEF RunnerCrashes, Types
<1>19. CASE TargetBoots \/ TargetBlocks
  BY <1>19 DEF Types, TargetBoots, TargetBlocks, Target, Kind
<1>20. CASE ShutdownRequested
  <2>1. target' \in Target
    BY <1>20, RequestedFields
  <2>. QED
    BY <1>20, <2>1 DEF Types, ShutdownRequested
<1>21. CASE HookFinishes
  BY <1>21 DEF Types, HookFinishes, Target
<1>22. CASE TargetLeaves
  <2>1. target' \in Target
    BY <1>22 DEF Types, TargetLeaves, Target
  <2>2. term' \in [Terminator -> [stage : Stage, left : Nat]]
    BY <1>22 DEF Types, TargetLeaves, Stage
  <2>3. asking' \in Terminator \cup {"none"}
    BY <1>22 DEF Types, TargetLeaves
  <2>. QED
    BY <1>22, <2>1, <2>2, <2>3 DEF Types, TargetLeaves
<1>. QED
  BY <1>1, <1>2, <1>3, <1>4, <1>5, <1>6, <1>7, <1>8, <1>9, <1>10, <1>11, <1>12,
     <1>13, <1>14, <1>15, <1>16, <1>17, <1>18, <1>19, <1>20, <1>21, <1>22 DEF Next, Step
--------------------------------------------------------------------------------
(* The hooks run once, and all of them *)

LEMMA HooksNext ==
    ASSUME Types, HooksInv, Next
    PROVE  HooksInv'
<1>. DEFINE Same == /\ target'.runs = target.runs /\ target'.alive = target.alive
                    /\ target'.kind = target.kind /\ target'.hooks = target.hooks
                    /\ target.killed => target'.killed
<1>a. ASSUME Same
      PROVE  HooksInv'
  BY <1>a DEF HooksInv
<1>b. ASSUME target' = target \/ target' = [target EXCEPT !.asked = TRUE]
      PROVE  HooksInv'
  <2>1. Same
    BY <1>b DEF Types, Target
  <2>. QED
    BY <2>1, <1>a
<1>1. ASSUME NEW t \in Terminator, Escalate(t)
      PROVE  HooksInv'
  <2>1. \/ target' = target \/ target' = [target EXCEPT !.signalled = TRUE]
        \/ target' = [target EXCEPT !.killed = TRUE]
    BY <1>1 DEF Escalate
  <2>2. Same
    BY <2>1 DEF Types, Target
  <2>. QED
    BY <2>2, <1>a
<1>2. ASSUME NEW t \in Terminator, SeeExit(t)
      PROVE  HooksInv'
  BY <1>2, <1>b DEF SeeExit
<1>3. CASE Fork
  BY <1>3 DEF Fork, HooksInv, Types, Target
<1>4. CASE StartFails \/ StopCommand
  BY <1>4, <1>b, TerminateFields DEF StartFails, StopCommand, Terminator
<1>5. CASE \/ StartSucceeds \/ MetricsBegins \/ CommandEnds \/ AgentExits \/ AgentSignalled
           \/ RequestEnds \/ ClientEscalates \/ Tick \/ MetricsCommand \/ RunnerStops
           \/ RunnerCrashes
  BY <1>5, <1>b DEF StartSucceeds, MetricsBegins, CommandEnds, AgentExits, AgentSignalled,
                    RequestEnds, ClientEscalates, Tick, MetricsCommand, RunnerStops, RunnerCrashes
<1>6. CASE QueueDrained
  BY <1>6, <1>b, DrainFields
<1>7. CASE AgentFails
  BY <1>7, <1>b, FailFields
<1>8. CASE TargetKilled
  BY <1>8 DEF TargetKilled, KillDue, HooksInv, Types, Target
<1>9. CASE TargetBoots \/ TargetBlocks
  BY <1>9 DEF TargetBoots, TargetBlocks, HooksInv, Types, Target
<1>10. CASE ShutdownRequested
  BY <1>10, RequestedFields DEF ShutdownRequested, HooksInv
<1>11. CASE HookFinishes
  <2>1. target'.runs = target.runs /\ target'.alive
    BY <1>11 DEF HookFinishes, Types, Target
  <2>. QED
    BY <2>1 DEF HooksInv
<1>12. CASE TargetLeaves
  BY <1>12 DEF TargetLeaves, ShutdownComplete, HooksInv, Types, Target
<1>. QED
  BY <1>1, <1>2, <1>3, <1>4, <1>5, <1>6, <1>7, <1>8, <1>9, <1>10, <1>11, <1>12 DEF Next, Step
--------------------------------------------------------------------------------
(* What is done to a target stays done *)

\* Once told, a live target stays told: the request is dropped only when the hooks
\* are started.
ToldKept == target'.alive => target.alive /\ (Told => Told')

\* A target boots once, and is blocked for good.
KindKept ==
    /\ target'.kind = "booting" => target.kind = "booting"
    /\ target.kind = "deaf" => target'.kind = "deaf"

\* The target is left alone, is told more, or gets on with it.
LEMMA TargetGoesOn ==
    ASSUME Types,
           \/ target' = target
           \/ target' \in {[target EXCEPT !.asked = TRUE], [target EXCEPT !.signalled = TRUE],
                           [target EXCEPT !.killed = TRUE], [target EXCEPT !.alive = FALSE]}
           \/ TargetBoots \/ TargetBlocks \/ HookFinishes \/ ShutdownRequested
    PROVE  ToldKept /\ KindKept
<1>1. CASE target' = target
  BY <1>1 DEF ToldKept, KindKept, Told
<1>2. CASE target' \in {[target EXCEPT !.asked = TRUE], [target EXCEPT !.signalled = TRUE],
                        [target EXCEPT !.killed = TRUE], [target EXCEPT !.alive = FALSE]}
  BY <1>2 DEF ToldKept, KindKept, Told, Types, Target
<1>3. CASE HookFinishes
  <2>1. PICK n : n = target.hooks + 1
    OBVIOUS
  <2>2. target' = [target EXCEPT !.hooks = n]
    BY <1>3, <2>1 DEF HookFinishes
  <2>. QED
    BY <2>2 DEF ToldKept, KindKept, Told, Types, Target
<1>4. CASE ShutdownRequested
  BY <1>4, RequestedFields DEF ToldKept, KindKept, Told
<1>5. CASE TargetBoots \/ TargetBlocks
  BY <1>5 DEF TargetBoots, TargetBlocks, ToldKept, KindKept, Told, Types, Target
<1>. QED
  BY <1>1, <1>2, <1>3, <1>4, <1>5

\* Apart from fork, every step leaves a told target told.
LEMMA ToldStays ==
    ASSUME Types, Next, ~Fork
    PROVE  ToldKept /\ KindKept
<1>1. ASSUME NEW t \in Terminator, Escalate(t)
      PROVE  ToldKept /\ KindKept
  BY <1>1, TargetGoesOn DEF Escalate
<1>2. ASSUME NEW t \in Terminator, SeeExit(t)
      PROVE  ToldKept /\ KindKept
  BY <1>2, TargetGoesOn DEF SeeExit
<1>3. CASE StartFails \/ StopCommand
  BY <1>3, TargetGoesOn, TerminateFields DEF StartFails, StopCommand, Terminator
<1>4. CASE \/ StartSucceeds \/ MetricsBegins \/ CommandEnds \/ AgentExits \/ AgentSignalled
           \/ RequestEnds \/ ClientEscalates \/ Tick \/ MetricsCommand \/ RunnerStops
           \/ RunnerCrashes
  BY <1>4, TargetGoesOn DEF StartSucceeds, MetricsBegins, CommandEnds, AgentExits, AgentSignalled,
        RequestEnds, ClientEscalates, Tick, MetricsCommand, RunnerStops, RunnerCrashes
<1>5. CASE QueueDrained
  BY <1>5, TargetGoesOn, DrainFields
<1>6. CASE AgentFails
  BY <1>6, TargetGoesOn, FailFields
<1>7. CASE TargetKilled \/ TargetLeaves
  BY <1>7, TargetGoesOn DEF TargetKilled, TargetLeaves
<1>8. CASE ShutdownRequested \/ HookFinishes \/ TargetBoots \/ TargetBlocks
  BY <1>8, TargetGoesOn
<1>. QED
  BY <1>1, <1>2, <1>3, <1>4, <1>5, <1>6, <1>7, <1>8 DEF Next, Step

\* Fork finds no target, and leaves one that boots or is what it was.
LEMMA ForkFields ==
    ASSUME Types, Fork
    PROVE  /\ agent.process = "up" /\ agent.busy = "port"
           /\ agent'.busy = "boot" /\ agent'.left = Ready
           /\ agent'.waiting = agent.waiting /\ agent'.queued = agent.queued
           /\ agent'.answered = agent.answered /\ agent'.closing = agent.closing
           /\ agent'.ahead = agent.ahead /\ agent'.closed = agent.closed
           /\ agent'.process = "up" /\ target'.kind = target.kind
           /\ UNCHANGED <<client, term, asking>>
BY DEF Fork, Types, Agent, Target
--------------------------------------------------------------------------------
(* What each step does to the agent and the client *)

\* A step that is not about a command, or one of the target.
Apart ==
    /\ SameWork /\ SameClosing /\ agent'.closed = agent.closed
    /\ UNCHANGED <<term, asking, target>>

LEMMA EndFields ==
    ASSUME Types, CloseClient, UNCHANGED <<term, asking, target>>
    PROVE  /\ Apart /\ agent'.process = agent.process
           /\ agent.process = "up" => agent'.closing # "no"
           /\ client'.step = "ended" /\ client'.left = Kill /\ client'.failed = client.failed
<1>1. StdinEnds /\ client' = [client EXCEPT !.step = "ended", !.left = Kill]
  BY DEF CloseClient
<1>2. client'.step = "ended" /\ client'.left = Kill /\ client'.failed = client.failed
  BY <1>1 DEF Types, Client
<1>. QED
  BY <1>1, <1>2, StdinFields DEF Apart

LEMMA EscalateFields ==
    ASSUME Types, ClientEscalates
    PROVE  /\ Apart /\ agent.process = "up" /\ client.left = 0 /\ client'.failed = client.failed
           /\ \/ /\ client.step = "ended" /\ client'.step = "signalled" /\ client'.left = Kill
                 /\ \/ agent'.process = "terminated"
                    \/ agent'.process = "up" /\ agent'.closing # "no"
              \/ /\ client.step = "signalled" /\ client'.step = "done"
                 /\ agent'.process = "killed"
<1>0. /\ client \in Client /\ agent \in Agent /\ agent.process = "up" /\ client.left = 0
      /\ UNCHANGED <<term, asking, target>>
  BY DEF Types, ClientEscalates, CloseDue
<1>1. CASE client.step = "ended"
  <2>1. client' = [client EXCEPT !.step = "signalled", !.left = Kill]
        /\ agent' = Signalled("SIGTERM")
    BY <1>1 DEF ClientEscalates
  <2>2. client'.step = "signalled" /\ client'.left = Kill /\ client'.failed = client.failed
    BY <2>1, <1>0 DEF Client
  <2>3. "SIGTERM" \in Signal
    BY DEF Signal
  <2>4. /\ SameWork /\ SameClosing /\ agent'.closed = agent.closed
        /\ agent'.process \in {agent.process, "terminated"}
        /\ agent'.process = "terminated" \/ agent'.closing # "no"
    BY <2>1, <2>3, SignalFields
  <2>5. Apart
    BY <1>0, <2>4 DEF Apart
  <2>. QED
    BY <1>0, <1>1, <2>2, <2>4, <2>5
<1>2. CASE client.step = "signalled"
  <2>1. client' = [client EXCEPT !.step = "done"] /\ agent' = [agent EXCEPT !.process = "killed"]
    BY <1>2 DEF ClientEscalates
  <2>2. client'.step = "done" /\ client'.failed = client.failed
    BY <2>1, <1>0 DEF Client
  <2>3. SameWork /\ SameClosing /\ agent'.closed = agent.closed /\ agent'.process = "killed"
    BY <2>1, <1>0 DEF Agent, SameWork, SameClosing
  <2>. QED
    BY <1>0, <1>2, <2>2, <2>3 DEF Apart
<1>. QED
  BY <1>1, <1>2 DEF ClientEscalates

LEMMA CrashFields ==
    ASSUME Types, RunnerCrashes
    PROVE  /\ Apart /\ agent'.process = agent.process /\ client'.failed = client.failed
           /\ client'.step = "crashed"
<1>1. client'.step = "crashed" /\ client'.failed = client.failed /\ StdinEnds
      /\ UNCHANGED <<term, asking, target>>
  BY DEF RunnerCrashes, Types, Client
<1>. QED
  BY <1>1, StdinFields DEF Apart

LEMMA AgentSignalledFields ==
    ASSUME Types, AgentSignalled
    PROVE  /\ Apart /\ client' = client
           /\ agent.process = "up" /\ agent'.process \in {"up", "terminated"}
           /\ agent'.process = "terminated" \/ agent'.closing # "no"
BY SignalFields DEF AgentSignalled, Apart

LEMMA AgentExitsFields ==
    ASSUME Types, AgentExits
    PROVE  Apart /\ client' = client /\ agent.process = "up" /\ agent'.process = "exited"
<1>1. agent' = [agent EXCEPT !.process = "exited"] /\ UNCHANGED <<client, term, asking, target>>
      /\ agent.process = "up"
  BY DEF AgentExits, AgentExitDue
<1>. QED
  BY <1>1 DEF Types, Agent, SameWork, SameClosing, Apart

\* The steps that leave the agent and the client as they are.
TargetStep ==
    \/ \E t \in Terminator : Escalate(t) \/ SeeExit(t)
    \/ TargetKilled \/ TargetBoots \/ TargetBlocks \/ ShutdownRequested \/ HookFinishes
    \/ TargetLeaves

LEMMA TargetStepFields ==
    ASSUME TargetStep
    PROVE  agent' = agent /\ client' = client
BY DEF TargetStep, Escalate, SeeExit, TargetKilled, TargetBoots, TargetBlocks, ShutdownRequested,
       HookFinishes, TargetLeaves

LEMMA StartFailsFields ==
    ASSUME Types, StartFails \/ StopCommand
    PROVE  /\ agent.process = "up" /\ agent'.process = "up" /\ client' = client
           /\ StartFails => agent.busy \in {"port", "boot"} /\ agent'.queued = agent.queued
           /\ StopCommand => agent.busy = "none" /\ agent.waiting = 0 /\ agent.queued
           /\ agent'.busy = "terminate" /\ agent'.waiting = agent.waiting
           /\ agent'.answered = agent.answered /\ agent'.closing = agent.closing
           /\ agent'.ahead = agent.ahead /\ agent'.closed = agent.closed
           /\ StopCommand => ~agent'.queued
           /\ target'.alive => Told'
           /\ term'["close"] = term["close"] /\ asking' \in {asking, "command"}
<1>0. agent \in Agent /\ target \in Target
  BY DEF Types
<1>1. Terminate("command") /\ "command" \in Terminator /\ "close" \in Terminator \ {"command"}
  BY DEF StartFails, StopCommand, Terminator
<1>2. target'.alive => Told'
  BY <1>0, <1>1, TerminateFields DEF Told, Target
<1>3. CASE StartFails
  <2>1. /\ agent' = [agent EXCEPT !.busy = "terminate", !.left = 0]
        /\ agent.process = "up" /\ agent.busy \in {"port", "boot"} /\ client' = client
    BY <1>3 DEF StartFails, StartDue
  <2>2. ~StopCommand
    BY <2>1 DEF StopCommand, StopDue
  <2>. QED
    BY <1>0, <1>1, <1>2, <2>1, <2>2, TerminateFields DEF Agent
<1>4. CASE StopCommand
  <2>1. /\ agent' = [agent EXCEPT !.busy = "terminate", !.queued = FALSE]
        /\ agent.process = "up" /\ agent.busy = "none" /\ agent.waiting = 0 /\ agent.queued
        /\ client' = client
    BY <1>4 DEF StopCommand, StopDue
  <2>2. ~StartFails
    BY <2>1 DEF StartFails, StartDue
  <2>. QED
    BY <1>0, <1>1, <1>2, <2>1, <2>2, TerminateFields DEF Agent
<1>. QED
  BY <1>3, <1>4

LEMMA StartSucceedsFields ==
    ASSUME Types, StartSucceeds
    PROVE  /\ agent.process = "up" /\ agent.busy = "boot" /\ agent'.busy = "none"
           /\ agent'.process = "up" /\ agent'.left = 0 /\ agent'.waiting = agent.waiting
           /\ agent'.queued = agent.queued /\ agent'.answered = agent.answered
           /\ agent'.closing = agent.closing /\ agent'.ahead = Less(agent.ahead)
           /\ agent'.closed = agent.closed /\ target.kind = "prompt"
           /\ UNCHANGED <<term, asking, target>> /\ client'.failed = client.failed
           /\ \/ client.step = "starting" /\ client'.step = "running"
              \/ client.step # "starting" /\ client' = client
<1>1. agent.process = "up" /\ agent.busy = "boot" /\ target.kind = "prompt"
      /\ agent' = CommandOver(agent) /\ UNCHANGED <<term, asking, target>>
  BY DEF StartSucceeds
<1>2. client'.failed = client.failed
      /\ \/ client.step = "starting" /\ client'.step = "running"
         \/ client.step # "starting" /\ client' = client
  BY DEF StartSucceeds, Types, Client
<1>. QED
  BY <1>1, <1>2, OverFields

LEMMA CommandEndsFields ==
    ASSUME Types, CommandEnds
    PROVE  /\ agent.process = "up" /\ agent.busy \in {"metrics", "terminate"}
           /\ agent'.process = "up" /\ agent'.busy = "none" /\ agent'.left = 0
           /\ agent'.waiting = agent.waiting /\ agent'.queued = agent.queued
           /\ (agent'.answered <=> agent.busy = "terminate")
           /\ agent'.closing = agent.closing /\ agent'.ahead = Less(agent.ahead)
           /\ agent'.closed = agent.closed /\ UNCHANGED <<term, asking, target>>
           /\ client'.step = client.step /\ client'.left = client.left
           /\ client'.failed => client.failed \/ agent.busy = "metrics"
<1>1. DEFINE b == CommandOver(agent)
<1>2. /\ b \in Agent /\ b.busy = "none" /\ b.left = 0 /\ b.ahead = Less(agent.ahead)
      /\ b.process = agent.process /\ b.waiting = agent.waiting
      /\ b.queued = agent.queued /\ b.closing = agent.closing /\ b.closed = agent.closed
  BY OverFields
<1>3. agent.process = "up" /\ agent.busy \in {"metrics", "terminate"}
      /\ UNCHANGED <<term, asking, target>> /\ agent' = [b EXCEPT !.answered = agent.busy = "terminate"]
  BY DEF CommandEnds, CommandDue
<1>4. /\ client'.step = client.step /\ client'.left = client.left
      /\ client'.failed => client.failed \/ agent.busy = "metrics"
  BY DEF CommandEnds, Types, Client
<1>. HIDE DEF b
<1>. QED
  BY <1>2, <1>3, <1>4 DEF Agent

LEMMA MetricsBeginsFields ==
    ASSUME Types, MetricsBegins
    PROVE  /\ agent.process = "up" /\ agent.busy = "none" /\ agent.waiting > 0
           /\ agent'.process = "up" /\ agent'.busy = "metrics" /\ agent'.left = Command
           /\ agent'.waiting = agent.waiting - 1 /\ agent'.queued = agent.queued
           /\ agent'.answered = agent.answered /\ agent'.closing = agent.closing
           /\ agent'.ahead = agent.ahead /\ agent'.closed = agent.closed
           /\ UNCHANGED <<client, term, asking, target>>
BY DEF MetricsBegins, MetricsDue, Types, Agent

LEMMA MetricsCommandFields ==
    ASSUME Types, MetricsCommand
    PROVE  /\ client.step = "running" /\ ~client.failed
           /\ agent.waiting + (IF agent.busy = "metrics" THEN 1 ELSE 0) < MaxMetrics
           /\ agent'.process = agent.process /\ agent'.busy = agent.busy
           /\ agent'.left = agent.left /\ agent'.waiting = agent.waiting + 1
           /\ agent'.queued = agent.queued /\ agent'.answered = agent.answered
           /\ agent'.closing = agent.closing /\ agent'.ahead = agent.ahead
           /\ agent'.closed = agent.closed /\ UNCHANGED <<client, term, asking, target>>
BY DEF MetricsCommand, Types, Agent

LEMMA RunnerStopsFields ==
    ASSUME Types, RunnerStops
    PROVE  /\ client.step = "running" /\ UNCHANGED <<term, asking, target>>
           /\ client'.failed = client.failed
           /\ \/ /\ client.failed /\ CloseClient
              \/ /\ ~client.failed /\ client'.step = "stopping"
                 /\ client'.left = ShutdownGrace + 2 * Kill
                 /\ agent'.process = agent.process /\ agent'.busy = agent.busy
                 /\ agent'.left = agent.left /\ agent'.waiting = agent.waiting
                 /\ agent'.queued /\ agent'.answered = agent.answered
                 /\ agent'.closing = agent.closing /\ agent'.ahead = agent.ahead
                 /\ agent'.closed = agent.closed
<1>1. CASE client.failed
  <2>1. CloseClient /\ client.step = "running" /\ UNCHANGED <<term, asking, target>>
    BY <1>1 DEF RunnerStops
  <2>. QED
    BY <1>1, <2>1, EndFields
<1>2. CASE ~client.failed
  <2>1. PICK n : n = ShutdownGrace + 2 * Kill
    OBVIOUS
  <2>2. client.step = "running" /\ client' = [client EXCEPT !.step = "stopping", !.left = n]
        /\ agent' = [agent EXCEPT !.queued = TRUE] /\ UNCHANGED <<term, asking, target>>
    BY <1>2, <2>1 DEF RunnerStops
  <2>. QED
    BY <1>2, <2>1, <2>2 DEF Types, Client, Agent
<1>. QED
  BY <1>1, <1>2

LEMMA TickFields ==
    ASSUME Types, Tick
    PROVE  /\ ~Due /\ client'.step = client.step /\ client'.failed = client.failed
           /\ client'.left = Less(client.left) /\ agent'.left = Less(agent.left)
           /\ agent'.process = agent.process /\ agent'.busy = agent.busy
           /\ agent'.waiting = agent.waiting /\ agent'.queued = agent.queued
           /\ agent'.answered = agent.answered /\ agent'.closing = agent.closing
           /\ agent'.ahead = agent.ahead /\ agent'.closed = agent.closed
           /\ UNCHANGED <<asking, target>>
           /\ \A t \in Terminator : term'[t].stage = term[t].stage
BY DEF Tick, Types, Client, Agent
--------------------------------------------------------------------------------
(* The commands follow one another *)

\* The steps that have nothing to do with the commands.
LEMMA OrderByOthers ==
    ASSUME OrderInv, KindKept, SameWork,
           client'.step \in {"starting", "running", "stopping"} => client'.step = client.step
    PROVE  OrderInv'
<1>1. Measuring' <=> Measuring
  BY DEF SameWork, Measuring
<1>2. /\ agent'.waiting > 0 => agent'.busy \in {"none", "metrics"}
      /\ Measuring' => ~agent'.answered /\ target'.kind # "booting"
      /\ agent'.busy \in {"port", "boot"} => /\ ~agent'.answered /\ ~agent'.queued
                                            /\ client'.step \notin {"running", "stopping"}
      /\ agent'.busy = "metrics" => agent'.left <= Command
  BY <1>1 DEF OrderInv, SameWork, KindKept
<1>3. /\ client'.step = "starting" => ~Measuring' /\ ~agent'.queued
      /\ client'.step = "running" => /\ agent'.busy \in {"none", "metrics"} /\ ~agent'.answered
                                     /\ ~agent'.queued /\ target'.kind # "booting"
  BY <1>1 DEF OrderInv, SameWork, KindKept
<1>4. agent'.waiting + (IF agent'.busy = "metrics" THEN 1 ELSE 0) <= MaxMetrics
  BY DEF OrderInv, SameWork
<1>. QED
  BY <1>2, <1>3, <1>4 DEF OrderInv

LEMMA OrderNext ==
    ASSUME Types, OrderInv, Next
    PROVE  OrderInv'
<1>0. agent \in Agent /\ agent.waiting \in Nat
  BY DEF Types, Agent
<1>. SUFFICES ASSUME ~Fork
              PROVE  OrderInv'
  BY ForkFields DEF OrderInv, Measuring
<1>1. KindKept
  BY ToldStays
<1>2. CASE TargetStep
  BY <1>1, <1>2, TargetStepFields, OrderByOthers DEF SameWork
<1>3. CASE QueueDrained
  BY <1>1, <1>3, DrainFields, OrderByOthers
<1>4. CASE AgentFails
  BY <1>1, <1>4, FailFields, OrderByOthers
<1>5. CASE AgentExits \/ AgentSignalled
  BY <1>1, <1>5, AgentExitsFields, AgentSignalledFields, OrderByOthers DEF Apart
<1>6. CASE RequestEnds \/ (RunnerStops /\ client.failed)
  <2>1. CloseClient /\ UNCHANGED <<term, asking, target>>
    BY <1>6 DEF RequestEnds, RunnerStops
  <2>2. SameWork /\ client'.step = "ended"
    BY <2>1, EndFields DEF Apart
  <2>. QED
    BY <1>1, <2>2, OrderByOthers
<1>7. CASE ClientEscalates \/ RunnerCrashes
  <2>1. SameWork /\ client'.step \in {"signalled", "done", "crashed"}
    BY <1>7, EscalateFields, CrashFields DEF Apart
  <2>. QED
    BY <1>1, <2>1, OrderByOthers
<1>8. CASE StartFails \/ StopCommand
  <2>1. agent.waiting = 0 /\ client.step # "running"
    BY <1>0, <1>8, StartFailsFields DEF OrderInv
  <2>2. /\ agent'.busy = "terminate" /\ agent'.waiting = 0 /\ client' = client
        /\ agent'.queued => agent.queued
    BY <1>8, <2>1, StartFailsFields
  <2>3. ~Measuring'
    BY <2>2 DEF Measuring
  <2>. QED
    BY <2>1, <2>2, <2>3, ConstantFacts DEF OrderInv
<1>9. CASE StartSucceeds
  <2>1. agent.waiting = 0 /\ ~agent.answered /\ ~agent.queued
    BY <1>0, <1>9, StartSucceedsFields DEF OrderInv
  <2>2. /\ agent'.busy = "none" /\ agent'.waiting = 0 /\ ~agent'.answered /\ ~agent'.queued
        /\ target'.kind # "booting" /\ client'.step # "starting"
    BY <1>9, <2>1, StartSucceedsFields
  <2>3. ~Measuring'
    BY <2>2 DEF Measuring
  <2>. QED
    BY <2>2, <2>3, ConstantFacts DEF OrderInv
<1>10. CASE CommandEnds
  <2>1. /\ agent'.busy = "none" /\ agent'.waiting = agent.waiting /\ agent'.queued = agent.queued
        /\ (agent'.answered <=> agent.busy = "terminate")
        /\ agent.busy \in {"metrics", "terminate"}
        /\ client'.step = client.step /\ target' = target
    BY <1>10, CommandEndsFields
  <2>2. Measuring' => Measuring /\ ~agent'.answered
    BY <2>1 DEF Measuring, OrderInv
  <2>3. agent'.waiting <= MaxMetrics
    BY <1>0, <2>1, ConstantFacts DEF OrderInv
  <2>4. /\ client'.step = "starting" => ~Measuring' /\ ~agent'.queued
        /\ client'.step = "running" => /\ agent'.busy \in {"none", "metrics"} /\ ~agent'.answered
                                       /\ ~agent'.queued /\ target'.kind # "booting"
    BY <2>1, <2>2 DEF OrderInv, Measuring
  <2>5. agent'.waiting + (IF agent'.busy = "metrics" THEN 1 ELSE 0) <= MaxMetrics
    BY <1>0, <2>1, <2>3
  <2>6. Measuring' => target'.kind # "booting"
    BY <2>1, <2>2 DEF OrderInv
  <2>. QED
    BY <2>1, <2>2, <2>4, <2>5, <2>6 DEF OrderInv
<1>11. CASE MetricsBegins
  <2>1. /\ agent.busy = "none" /\ agent.waiting > 0 /\ agent'.busy = "metrics"
        /\ agent'.left = Command /\ agent'.waiting = agent.waiting - 1
        /\ agent'.queued = agent.queued /\ agent'.answered = agent.answered
        /\ client' = client /\ target' = target
    BY <1>11, MetricsBeginsFields
  <2>2. Measuring
    BY <2>1 DEF Measuring
  <2>3. agent'.waiting + 1 <= MaxMetrics /\ agent'.left <= Command
    BY <1>0, <2>1, ConstantFacts DEF OrderInv
  <2>. QED
    BY <2>1, <2>2, <2>3 DEF OrderInv
<1>12. CASE MetricsCommand
  <2>1. /\ client.step = "running"
        /\ agent.waiting + (IF agent.busy = "metrics" THEN 1 ELSE 0) < MaxMetrics
        /\ agent'.busy = agent.busy /\ agent'.left = agent.left
        /\ agent'.waiting = agent.waiting + 1
        /\ agent'.queued = agent.queued /\ agent'.answered = agent.answered
        /\ client' = client /\ target' = target
    BY <1>12, MetricsCommandFields
  <2>2. agent'.waiting + (IF agent'.busy = "metrics" THEN 1 ELSE 0) <= MaxMetrics
    BY <1>0, <2>1, ConstantFacts
  <2>. QED
    BY <2>1, <2>2 DEF OrderInv
<1>13. CASE RunnerStops /\ ~client.failed
  <2>1. /\ client.step = "running" /\ client'.step = "stopping" /\ agent'.busy = agent.busy
        /\ agent'.left = agent.left /\ agent'.waiting = agent.waiting
        /\ agent'.answered = agent.answered /\ target' = target
    BY <1>13, RunnerStopsFields
  <2>2. Measuring' <=> Measuring
    BY <2>1 DEF Measuring
  <2>. QED
    BY <2>1, <2>2 DEF OrderInv
<1>14. CASE Tick
  <2>1. /\ client'.step = client.step /\ agent'.left = Less(agent.left)
        /\ agent'.busy = agent.busy /\ agent'.waiting = agent.waiting
        /\ agent'.queued = agent.queued /\ agent'.answered = agent.answered /\ target' = target
    BY <1>14, TickFields
  <2>2. Measuring' <=> Measuring
    BY <2>1 DEF Measuring
  <2>3. agent'.left <= agent.left /\ agent.left \in Nat /\ agent'.left \in Nat
    BY <2>1 DEF Types, Agent, Less
  <2>4. agent'.busy = "metrics" => agent'.left <= Command
    BY <2>1, <2>3, ConstantFacts DEF OrderInv
  <2>. QED
    BY <2>1, <2>2, <2>4 DEF OrderInv
<1>. QED
  BY <1>2, <1>3, <1>4, <1>5, <1>6, <1>7, <1>8, <1>9, <1>10, <1>11, <1>12, <1>13, <1>14
     DEF Next, Step, TargetStep
--------------------------------------------------------------------------------
(* No agent gives up a target that nobody has told to shut down *)

LEMMA ShortStays ==
    ASSUME KindKept, DeadlinesTooShort
    PROVE  DeadlinesTooShort'
BY DEF KindKept, DeadlinesTooShort

\* The steps that are not about a command.
LEMMA ToldByOthers ==
    ASSUME Types, ToldInv, ToldKept, KindKept, SameWork, SameClosing,
           agent'.closed = agent.closed,
           agent'.process = "up" => agent.process = "up",
           agent'.process = "exited" => agent.process = "exited" \/ (target'.alive => Told'),
           agent'.process = "killed" =>
              agent.process = "killed" \/ (target'.alive => Told' \/ DeadlinesTooShort'),
           agent.closed # "no" \/ term'["close"].stage = "none" \/ term'["close"] = term["close"],
           agent.closed # "no" \/ asking' # "close" \/ asking' = asking
    PROVE  ToldInv'
<1>0. agent.waiting \in Nat /\ (Undone)' = Undone
  BY DEF Types, Agent, SameWork, Undone
<1>1. /\ agent'.busy = "port" => ~target'.alive
      /\ agent'.process = "up" /\ agent'.closed # "no" => agent'.busy # "port"
      /\ agent'.closing = "drained" => agent'.closed # "no"
  BY DEF ToldInv, ToldKept, SameWork, SameClosing
<1>2. agent.busy = "port" => Undone > 0
  BY <1>0 DEF Undone
<1>3. /\ agent'.busy = "port" /\ agent'.closing # "no" => agent'.closing = "queue" /\ agent'.ahead > 0
      /\ agent'.closing = "queue" => agent'.ahead <= Undone'
  <2>0. PICK n \in Nat : n = Undone
    BY <1>0 DEF Types, Agent, Undone
  <2>1. CASE agent'.closing = agent.closing /\ agent'.ahead = agent.ahead
    BY <1>0, <2>1 DEF ToldInv, SameWork
  <2>2. CASE agent.closing = "no" /\ agent'.closing = "queue" /\ agent'.ahead = Undone
    BY <1>0, <1>2, <2>0, <2>2 DEF SameWork
  <2>. QED
    BY <2>1, <2>2 DEF SameClosing
<1>4. /\ agent'.busy = "terminate" /\ target'.alive => Told'
      /\ agent'.closed # "no" /\ target'.alive => Told'
      /\ agent'.process = "exited" /\ target'.alive => Told'
  BY DEF ToldInv, ToldKept, SameWork
<1>5. agent'.process = "killed" /\ target'.alive => Told' \/ DeadlinesTooShort'
  BY ShortStays DEF ToldInv, ToldKept
<1>6. term'["close"].stage # "none" \/ asking' = "close" => agent'.closed # "no"
  BY DEF ToldInv
<1>. QED
  BY <1>1, <1>3, <1>4, <1>5, <1>6 DEF ToldInv

\* The steps that are, fork apart.
LEMMA ToldByWork ==
    ASSUME ToldInv, ToldKept, KindKept,
           agent'.closing = agent.closing, agent'.closed = agent.closed,
           agent'.process = agent.process,
           agent'.busy = "port" => agent.busy = "port" /\ agent'.ahead = agent.ahead,
           agent.closing = "queue" => agent'.ahead <= Undone',
           agent'.busy = "terminate" /\ target'.alive => Told',
           term'["close"].stage = term["close"].stage,
           asking' \in {asking, "command"}
    PROVE  ToldInv'
<1>1. /\ agent'.busy = "port" => ~target'.alive
      /\ agent'.process = "up" /\ agent'.closed # "no" => agent'.busy # "port"
      /\ agent'.busy = "port" /\ agent'.closing # "no" => agent'.closing = "queue" /\ agent'.ahead > 0
      /\ agent'.closing = "queue" => agent'.ahead <= Undone'
      /\ agent'.closing = "drained" => agent'.closed # "no"
  BY DEF ToldInv, ToldKept
<1>2. /\ agent'.closed # "no" /\ target'.alive => Told'
      /\ agent'.process = "exited" /\ target'.alive => Told'
  BY DEF ToldInv, ToldKept
<1>3. agent'.process = "killed" /\ target'.alive => Told' \/ DeadlinesTooShort'
  BY ShortStays DEF ToldInv, ToldKept
<1>4. term'["close"].stage # "none" \/ asking' = "close" => agent'.closed # "no"
  BY DEF ToldInv
<1>. QED
  BY <1>1, <1>2, <1>3, <1>4 DEF ToldInv

\* close() tells the target, unless it is gone or has been told by an earlier one.
LEMMA ToldByClose ==
    ASSUME Types, ToldInv, QueueDrained \/ AgentFails
    PROVE  ToldInv'
<1>0. target \in Target
  BY DEF Types
<1>1. /\ SameWork /\ agent.process = "up" /\ agent'.closed # "no"
      /\ agent'.process \in {"up", "exited"} /\ agent'.ahead = agent.ahead
      /\ agent'.closing \in {agent.closing, "drained"}
      /\ agent.closed # "no" \/ ~target.alive => target' = target
      /\ ~(agent.closed # "no" \/ ~target.alive) => target' = [target EXCEPT !.asked = TRUE]
  BY DrainFields, FailFields
<1>2. target'.alive => Told' /\ target.alive
  <2>1. CASE target.alive /\ agent.closed = "no"
    <3>1. target' = [target EXCEPT !.asked = TRUE]
      BY <1>1, <2>1
    <3>. QED
      BY <1>0, <2>1, <3>1 DEF Told, Target
  <2>2. CASE ~(target.alive /\ agent.closed = "no")
    <3>1. target' = target
      BY <1>1, <2>2
    <3>. QED
      BY <2>2, <3>1 DEF ToldInv, Told
  <2>. QED
    BY <2>1, <2>2
<1>3. agent.busy = "port" => agent'.process = "exited" /\ agent'.closing = agent.closing
  <2>1. CASE QueueDrained
    BY <2>1, DrainFields DEF ToldInv
  <2>2. CASE AgentFails
    BY <2>2, FailFields DEF ToldInv
  <2>. QED
    BY <2>1, <2>2
<1>4. /\ agent'.busy = "port" => ~target'.alive
      /\ agent'.process = "up" /\ agent'.closed # "no" => agent'.busy # "port"
  BY <1>1, <1>2, <1>3 DEF ToldInv, SameWork
<1>5. Undone' = Undone
  BY <1>1 DEF SameWork, Undone
<1>6. /\ agent'.busy = "port" /\ agent'.closing # "no" => agent'.closing = "queue" /\ agent'.ahead > 0
      /\ agent'.closing = "queue" => agent'.ahead <= Undone'
  BY <1>1, <1>3, <1>5 DEF ToldInv, SameWork
<1>. QED
  BY <1>1, <1>2, <1>4, <1>6 DEF ToldInv

LEMMA ToldNext ==
    ASSUME Types, OrderInv, ToldInv, ClockInv, Next
    PROVE  ToldInv'
<1>0. /\ agent \in Agent /\ agent.waiting \in Nat /\ agent.ahead \in Nat
      /\ term \in [Terminator -> [stage : Stage, left : Nat]] /\ "close" \in Terminator
  BY DEF Types, Terminator, Agent
<1>1. CASE Fork
  <2>1. /\ agent'.busy = "boot" /\ agent'.closed = agent.closed /\ agent'.process = "up"
        /\ agent'.closing = agent.closing /\ agent'.ahead = agent.ahead
        /\ agent.busy = "port" /\ agent.process = "up" /\ term' = term /\ asking' = asking
        /\ agent'.waiting = agent.waiting /\ agent'.queued = agent.queued
    BY <1>1, ForkFields
  <2>2. agent.closed = "no"
    BY <2>1 DEF ToldInv
  <2>3. Undone' = Undone
    BY <2>1 DEF Undone
  <2>. QED
    BY <2>1, <2>2, <2>3 DEF ToldInv
<1>. SUFFICES ASSUME ~Fork
              PROVE  ToldInv'
  BY <1>1
<1>2. ToldKept /\ KindKept
  BY ToldStays
<1>3. CASE QueueDrained \/ AgentFails
  BY <1>3, ToldByClose
<1>4. ASSUME NEW t \in Terminator, Escalate(t) \/ SeeExit(t)
      PROVE  ToldInv'
  <2>1. agent' = agent /\ asking' \in {asking, "none"} /\ (t # "close" => term'["close"] = term["close"])
    BY <1>0, <1>4 DEF Escalate, SeeExit
  <2>2. t = "close" => agent.closed # "no"
    BY <1>4 DEF Escalate, SeeExit, DeadlineDue, ExitDue, ToldInv
  <2>3. SameWork /\ SameClosing
    BY <2>1 DEF SameWork, SameClosing
  <2>. QED
    BY <1>2, <2>1, <2>2, <2>3, ToldByOthers
<1>5. CASE TargetKilled \/ TargetBoots \/ TargetBlocks \/ ShutdownRequested \/ HookFinishes
  <2>1. agent' = agent /\ term' = term /\ asking' = asking
    BY <1>5 DEF TargetKilled, TargetBoots, TargetBlocks, ShutdownRequested, HookFinishes
  <2>2. SameWork /\ SameClosing
    BY <2>1 DEF SameWork, SameClosing
  <2>. QED
    BY <1>2, <2>1, <2>2, ToldByOthers
<1>6. CASE TargetLeaves
  <2>1. agent' = agent /\ asking' \in {asking, "none"}
        /\ (asking # "close" => term'["close"] = term["close"])
    BY <1>0, <1>6 DEF TargetLeaves
  <2>2. asking = "close" => agent.closed # "no"
    BY DEF ToldInv
  <2>3. SameWork /\ SameClosing
    BY <2>1 DEF SameWork, SameClosing
  <2>. QED
    BY <1>2, <2>1, <2>2, <2>3, ToldByOthers
<1>7. CASE AgentSignalled
  BY <1>2, <1>7, AgentSignalledFields, ToldByOthers DEF Apart
<1>8. CASE AgentExits
  <2>1. Apart /\ client' = client /\ agent.process = "up" /\ agent'.process = "exited"
    BY <1>8, AgentExitsFields
  <2>2. target'.alive => Told'
    BY <1>2, <1>8 DEF AgentExits, AgentExitDue, ToldInv, ToldKept
  <2>. QED
    BY <1>2, <2>1, <2>2, ToldByOthers DEF Apart
<1>9. CASE RequestEnds \/ (RunnerStops /\ client.failed)
  <2>1. CloseClient /\ UNCHANGED <<term, asking, target>>
    BY <1>9 DEF RequestEnds, RunnerStops
  <2>2. Apart /\ agent'.process = agent.process
    BY <2>1, EndFields
  <2>. QED
    BY <1>2, <2>2, ToldByOthers DEF Apart
<1>10. CASE RunnerCrashes
  BY <1>2, <1>10, CrashFields, ToldByOthers DEF Apart
<1>11. CASE ClientEscalates
  <2>1. /\ Apart /\ agent.process = "up" /\ client.left = 0
        /\ \/ agent'.process \in {"up", "terminated"}
           \/ client.step = "signalled" /\ agent'.process = "killed"
    BY <1>11, EscalateFields
  <2>2. ASSUME agent'.process = "killed", target'.alive
        PROVE  Told' \/ DeadlinesTooShort'
    BY <1>2, <2>1, <2>2, ShortStays DEF ClockInv, ToldKept
  <2>. QED
    BY <1>2, <2>1, <2>2, ToldByOthers DEF Apart
<1>12. CASE StartFails \/ StopCommand
  <2>1. /\ agent'.busy = "terminate" /\ agent'.process = agent.process
        /\ agent'.closing = agent.closing /\ agent'.closed = agent.closed
        /\ agent'.ahead = agent.ahead /\ (target'.alive => Told')
        /\ term'["close"] = term["close"] /\ asking' \in {asking, "command"}
    BY <1>12, StartFailsFields
  <2>2. Undone <= Undone'
    <3>1. CASE StartFails
      BY <1>0, <3>1, StartFailsFields DEF Undone
    <3>2. CASE StopCommand
      BY <1>0, <3>2, StartFailsFields DEF Undone
    <3>. QED
      BY <1>12, <3>1, <3>2
  <2>3. Undone \in Nat /\ Undone' \in Nat
    <3>1. agent'.waiting = agent.waiting
      BY <1>12, StartFailsFields
    <3>. QED
      BY <1>0, <3>1 DEF Undone
  <2>4. agent.closing = "queue" => agent'.ahead <= Undone'
    BY <1>0, <2>1, <2>2, <2>3 DEF ToldInv
  <2>. QED
    BY <1>2, <2>1, <2>4, ToldByWork
<1>13. CASE StartSucceeds \/ CommandEnds
  <2>1. /\ agent.busy # "none" /\ agent'.busy = "none" /\ agent'.process = agent.process
        /\ agent'.closing = agent.closing /\ agent'.closed = agent.closed
        /\ agent'.ahead = Less(agent.ahead) /\ agent'.waiting = agent.waiting
        /\ agent'.queued = agent.queued /\ term' = term /\ asking' = asking
    BY <1>13, StartSucceedsFields, CommandEndsFields
  <2>2. Undone' + 1 = Undone /\ Undone' \in Nat /\ Undone \in Nat
    BY <1>0, <2>1 DEF Undone
  <2>3. agent.closing = "queue" => agent'.ahead <= Undone'
    <3>. SUFFICES ASSUME agent.closing = "queue"
                  PROVE  agent'.ahead <= Undone'
      OBVIOUS
    <3>1. agent.ahead <= Undone
      BY DEF ToldInv
    <3>. QED
      BY <1>0, <2>1, <2>2, <3>1 DEF Less
  <2>. QED
    BY <1>2, <2>1, <2>3, ToldByWork
<1>14. CASE MetricsBegins
  <2>1. /\ agent.busy = "none" /\ agent'.busy = "metrics" /\ agent'.process = agent.process
        /\ agent'.closing = agent.closing /\ agent'.closed = agent.closed
        /\ agent'.ahead = agent.ahead /\ agent'.waiting = agent.waiting - 1
        /\ agent'.queued = agent.queued /\ term' = term /\ asking' = asking
    BY <1>14, MetricsBeginsFields
  <2>2. Undone' = Undone
    BY <1>0, <2>1 DEF Undone
  <2>3. agent.closing = "queue" => agent'.ahead <= Undone'
    BY <2>1, <2>2 DEF ToldInv
  <2>. QED
    BY <1>2, <2>1, <2>3, ToldByWork
<1>15. CASE MetricsCommand \/ (RunnerStops /\ ~client.failed)
  <2>1. /\ agent'.busy = agent.busy /\ agent'.process = agent.process
        /\ agent'.closing = agent.closing /\ agent'.closed = agent.closed
        /\ agent'.ahead = agent.ahead /\ term' = term /\ asking' = asking
        /\ target' = target
    BY <1>15, MetricsCommandFields, RunnerStopsFields
  <2>2. Undone <= Undone' /\ Undone \in Nat /\ Undone' \in Nat
    <3>1. CASE MetricsCommand
      BY <1>0, <3>1, MetricsCommandFields DEF Undone
    <3>2. CASE RunnerStops /\ ~client.failed
      BY <1>0, <3>2, RunnerStopsFields DEF Undone
    <3>. QED
      BY <1>15, <3>1, <3>2
  <2>3. agent.closing = "queue" => agent'.ahead <= Undone'
    BY <1>0, <2>1, <2>2 DEF ToldInv
  <2>4. agent'.busy = "terminate" /\ target'.alive => Told'
    BY <2>1 DEF ToldInv, Told
  <2>. QED
    BY <1>2, <2>1, <2>3, <2>4, ToldByWork
<1>16. CASE Tick
  <2>1. /\ agent'.busy = agent.busy /\ agent'.process = agent.process
        /\ agent'.closing = agent.closing /\ agent'.closed = agent.closed
        /\ agent'.ahead = agent.ahead /\ agent'.waiting = agent.waiting
        /\ agent'.queued = agent.queued /\ asking' = asking /\ target' = target
        /\ term'["close"].stage = term["close"].stage
    BY <1>0, <1>16, TickFields
  <2>2. Undone' = Undone
    BY <2>1 DEF Undone
  <2>3. agent.closing = "queue" => agent'.ahead <= Undone'
    BY <2>1, <2>2 DEF ToldInv
  <2>4. agent'.busy = "terminate" /\ target'.alive => Told'
    BY <2>1 DEF ToldInv, Told
  <2>. QED
    BY <1>2, <2>1, <2>3, <2>4, ToldByWork
<1>. QED
  BY <1>3, <1>4, <1>5, <1>6, <1>7, <1>8, <1>9, <1>10, <1>11, <1>12, <1>13, <1>14, <1>15, <1>16
     DEF Next, Step
--------------------------------------------------------------------------------
(* How much of a start the client's deadlines have seen pass *)

\* The steps after which the start is where it was, or is over.
LEMMA StartByOthers ==
    ASSUME StartInv,
           agent'.busy \in {"port", "boot"} => agent'.busy = agent.busy /\ agent'.left = agent.left,
           agent'.closed = agent.closed \/ agent'.closed # "no",
           agent'.process = "up" => agent.process = "up",
           client'.step \in {"starting", "ended", "signalled"} =>
              client'.step = client.step /\ client'.left = client.left
    PROVE  StartInv'
<1>1. Looked' => Looked
  BY DEF Looked
<1>. QED
  BY <1>1 DEF StartInv

\* start() and close() end one deadline and begin the next.
LEMMA StartEnds ==
    ASSUME Types, OrderInv, StartInv, RequestEnds
    PROVE  StartInv'
<1>1. CloseClient /\ UNCHANGED <<term, asking, target>>
  BY DEF RequestEnds
<1>2. /\ SameWork /\ agent'.closed = agent.closed /\ agent'.process = agent.process
      /\ client'.step = "ended" /\ client'.left = Kill
  BY <1>1, EndFields DEF Apart
<1>. SUFFICES ASSUME Looked, agent.busy \in {"port", "boot"}
              PROVE  /\ agent.busy = "port" => agent.left + Ready + Kill <= Port + Kill
                     /\ agent.busy = "boot" => agent.left + Kill <= Port + Kill
  BY <1>2 DEF StartInv, Looked, SameWork
<1>3. client.step = "starting" /\ client.left = 0
  BY DEF RequestEnds, RequestDue, OrderInv, Looked
<1>4. /\ agent.busy = "port" => agent.left + Ready <= Port
      /\ agent.busy = "boot" => agent.left <= Port
  BY <1>3, ConstantFacts DEF StartInv
<1>5. agent.left \in Nat
  BY DEF Types, Agent
<1>. QED
  BY <1>4, <1>5, ConstantFacts

LEMMA StartEscalates ==
    ASSUME Types, StartInv, ClientEscalates
    PROVE  StartInv'
<1>1. /\ SameWork /\ agent'.closed = agent.closed /\ agent.process = "up" /\ client.left = 0
      /\ \/ /\ client.step = "ended" /\ client'.step = "signalled" /\ client'.left = Kill
         \/ client'.step = "done"
  BY EscalateFields DEF Apart
<1>2. CASE client'.step = "done"
  BY <1>2 DEF StartInv
<1>3. CASE client.step = "ended" /\ client'.step = "signalled" /\ client'.left = Kill
  <2>1. agent.left \in Nat
    BY DEF Types, Agent
  <2>2. Looked /\ agent.busy = "port" => agent.left + Ready + 2 * Kill <= Port + Kill
    BY <1>1, <1>3, <2>1, ConstantFacts DEF StartInv
  <2>3. Looked /\ agent.busy = "boot" => agent.left + 2 * Kill <= Port + Kill
    BY <1>1, <1>3, <2>1, ConstantFacts DEF StartInv
  <2>. QED
    BY <1>1, <1>3, <2>2, <2>3 DEF StartInv, Looked, SameWork
<1>. QED
  BY <1>1, <1>2, <1>3

\* Time passes for the start and for the client that waits.
LEMMA StartTick ==
    ASSUME Types, StartInv, Tick
    PROVE  StartInv'
<1>1. /\ ~Due /\ client'.step = client.step /\ client'.left = Less(client.left)
      /\ agent'.left = Less(agent.left) /\ agent'.busy = agent.busy
      /\ agent'.process = agent.process /\ agent'.closed = agent.closed
  BY TickFields
<1>2. agent.left \in Nat /\ client.left \in Nat
  BY DEF Types, Agent, Client
<1>. SUFFICES ASSUME Looked, agent.busy \in {"port", "boot"},
                     client.step \in {"starting", "ended", "signalled"}
              PROVE  agent'.left = agent.left - 1 /\ client'.left = client.left - 1
  BY <1>1, <1>2, ConstantFacts DEF StartInv, Looked
<1>3. agent.left # 0
  BY <1>1 DEF Due, StartDue, Looked
<1>4. client.left # 0
  BY <1>1 DEF Due, RequestDue, CloseDue, Looked
<1>. QED
  BY <1>1, <1>2, <1>3, <1>4 DEF Less

LEMMA StartNext ==
    ASSUME Types, OrderInv, StartInv, Next
    PROVE  StartInv'
<1>1. CASE TargetStep
  BY <1>1, TargetStepFields, StartByOthers
<1>2. CASE Fork
  <2>1. /\ agent.process = "up" /\ agent.busy = "port" /\ agent'.busy = "boot"
        /\ agent'.left = Ready /\ agent'.closed = agent.closed /\ client' = client
    BY <1>2, ForkFields
  <2>2. agent.left \in Nat /\ client.left \in Nat
    BY DEF Types, Agent, Client
  <2>. QED
    BY <2>1, <2>2, ConstantFacts DEF StartInv, Looked
<1>3. CASE QueueDrained \/ AgentFails
  BY <1>3, DrainFields, FailFields, StartByOthers DEF SameWork
<1>4. CASE AgentSignalled \/ AgentExits
  BY <1>4, AgentSignalledFields, AgentExitsFields, StartByOthers DEF Apart, SameWork
<1>5. CASE RequestEnds
  BY <1>5, StartEnds
<1>6. CASE ClientEscalates
  BY <1>6, StartEscalates
<1>7. CASE RunnerCrashes
  BY <1>7, CrashFields, StartByOthers DEF Apart, SameWork
<1>8. CASE StartFails \/ StopCommand
  BY <1>8, StartFailsFields, StartByOthers
<1>9. CASE StartSucceeds
  <2>1. agent'.busy = "none" /\ agent'.process = "up" /\ agent.process = "up"
        /\ agent'.closed = agent.closed
    BY <1>9, StartSucceedsFields
  <2>. QED
    BY <2>1 DEF StartInv
<1>10. CASE CommandEnds
  BY <1>10, CommandEndsFields, StartByOthers
<1>11. CASE MetricsBegins \/ MetricsCommand
  BY <1>11, MetricsBeginsFields, MetricsCommandFields, StartByOthers
<1>12. CASE RunnerStops
  <2>1. agent.busy \notin {"port", "boot"}
    BY <1>12, RunnerStopsFields DEF OrderInv
  <2>2. CASE client.failed /\ CloseClient
    BY <1>12, <2>1, <2>2, EndFields, RunnerStopsFields DEF Apart, SameWork, StartInv
  <2>3. CASE ~(client.failed /\ CloseClient)
    BY <1>12, <2>1, <2>3, RunnerStopsFields DEF StartInv
  <2>. QED
    BY <2>2, <2>3
<1>13. CASE Tick
  BY <1>13, StartTick
<1>. QED
  BY <1>1, <1>2, <1>3, <1>4, <1>5, <1>6, <1>7, <1>8, <1>9, <1>10, <1>11, <1>12, <1>13
     DEF Next, Step, TargetStep
--------------------------------------------------------------------------------
(* How much of the metrics commands the client's deadlines have seen pass *)

LEMMA OneMore ==
    ASSUME NEW n \in Nat, NEW c \in Nat
    PROVE  n * c \in Nat /\ (n + 1) * c = n * c + c
OBVIOUS

LEMMA NoMore ==
    ASSUME NEW n \in Nat, NEW m \in Nat, n <= m, NEW c \in Nat
    PROVE  n * c <= m * c
<1>1. PICK d \in Nat : m = n + d
  <2>1. m - n \in Nat /\ m = n + (m - n)
    OBVIOUS
  <2>. QED
    BY <2>1
<1>2. m * c = n * c + d * c /\ d * c \in Nat /\ n * c \in Nat
  BY <1>1
<1>. QED
  BY <1>2

\* What may be left to do is at most all of them, and less by one with none at hand.
LEMMA RestOfAll ==
    ASSUME NEW a \in Agent, a.busy = "metrics" => a.left <= Command,
           a.waiting + (IF a.busy = "metrics" THEN 1 ELSE 0) <= MaxMetrics
    PROVE  LET rest == a.waiting * Command + (IF a.busy = "metrics" THEN a.left ELSE 0)
           IN  rest \in Nat /\ rest <= MaxMetrics * Command
<1>. DEFINE rest == a.waiting * Command + (IF a.busy = "metrics" THEN a.left ELSE 0)
<1>1. a.waiting \in Nat /\ a.left \in Nat
  BY DEF Agent
<1>2. PICK w \in Nat : w = a.waiting * Command
  BY <1>1, ConstantFacts
<1>3. PICK all \in Nat : all = MaxMetrics * Command
  BY ConstantFacts
<1>4. CASE a.busy = "metrics"
  <2>1. a.waiting + 1 <= MaxMetrics /\ a.left <= Command
    BY <1>4
  <2>2. (a.waiting + 1) * Command <= all /\ (a.waiting + 1) * Command = w + Command
    BY <1>1, <1>2, <1>3, <2>1, ConstantFacts, NoMore, OneMore
  <2>3. rest = w + a.left
    BY <1>2, <1>4
  <2>. QED
    BY <1>1, <1>3, <2>1, <2>2, <2>3, ConstantFacts
<1>5. CASE a.busy # "metrics"
  <2>1. a.waiting <= MaxMetrics
    BY <1>1, <1>5
  <2>2. w <= all
    BY <1>1, <1>2, <1>3, <2>1, ConstantFacts, NoMore
  <2>. QED
    BY <1>2, <1>3, <1>5, <2>2
<1>. QED
  BY <1>4, <1>5

LEMMA RestBound ==
    ASSUME Types, OrderInv
    PROVE  Rest \in Nat /\ Rest <= MaxMetrics * Command
BY RestOfAll DEF Types, OrderInv, Rest

LEMMA RestBoundNext ==
    ASSUME Types', OrderInv'
    PROVE  Rest' \in Nat /\ Rest' <= MaxMetrics * Command
BY RestOfAll DEF Types, OrderInv, Rest

\* What remains of all the commands but one.
LEMMA RestButOne ==
    (MaxMetrics - 1) * Command \in Int
BY ConstantFacts

\* The steps that add nothing to do.
LEMMA MetricsByOthers ==
    ASSUME MetricsInv, Rest \in Nat, Rest' \in Nat, Rest' <= Rest, client \in Client,
           Looked' /\ target'.alive /\ Measuring' => Looked /\ target.alive /\ Measuring,
           client'.failed => client.failed \/ Rest' <= (MaxMetrics - 1) * Command,
           client'.step \in {"stopping", "ended", "signalled"} =>
              client'.step = client.step /\ client'.left = client.left
    PROVE  MetricsInv'
<1>1. PICK a \in Nat : a = MaxMetrics * Command
  BY ConstantFacts
<1>2. PICK b \in Int : b = (MaxMetrics - 1) * Command
  BY RestButOne
<1>3. client.left \in Nat
  BY DEF Client
<1>. SUFFICES ASSUME Looked', target'.alive, Measuring'
              PROVE  /\ client'.failed => Rest' <= b
                     /\ client'.step = "stopping" => Rest' + ShutdownGrace + 2 * Kill <= a + client'.left
                     /\ client'.step = "ended" =>
                           \/ Rest' + ShutdownGrace + 3 * Kill <= a + client'.left
                           \/ Rest' + Kill <= b + client'.left
                     /\ client'.step = "signalled" =>
                           \/ Rest' + ShutdownGrace + 4 * Kill <= a + client'.left
                           \/ Rest' + 2 * Kill <= b + client'.left
  BY <1>1, <1>2 DEF MetricsInv
<1>4. /\ client.failed => Rest <= b
      /\ client.step = "stopping" => Rest + ShutdownGrace + 2 * Kill <= a + client.left
      /\ client.step = "ended" => \/ Rest + ShutdownGrace + 3 * Kill <= a + client.left
                                  \/ Rest + Kill <= b + client.left
      /\ client.step = "signalled" => \/ Rest + ShutdownGrace + 4 * Kill <= a + client.left
                                      \/ Rest + 2 * Kill <= b + client.left
  BY <1>1, <1>2 DEF MetricsInv
<1>. QED
  BY <1>2, <1>3, <1>4, ConstantFacts

LEMMA SameRest ==
    ASSUME SameWork
    PROVE  Rest' = Rest /\ (Measuring' <=> Measuring)
BY DEF SameWork, Rest, Measuring

\* The request or the client is given up, with commands still to come.
LEMMA MetricsEnd ==
    ASSUME Types, OrderInv, MetricsInv, RequestEnds \/ (RunnerStops /\ client.failed)
    PROVE  MetricsInv'
<1>1. CloseClient /\ UNCHANGED <<term, asking, target>>
  BY DEF RequestEnds, RunnerStops
<1>2. /\ SameWork /\ agent'.closed = agent.closed /\ agent'.process = agent.process
      /\ client'.step = "ended" /\ client'.left = Kill /\ client'.failed = client.failed
  BY <1>1, EndFields DEF Apart
<1>3. PICK a \in Nat : a = MaxMetrics * Command
  BY ConstantFacts
<1>4. PICK b \in Int : b = (MaxMetrics - 1) * Command
  BY RestButOne
<1>5. PICK r \in Nat : r = Rest
  BY RestBound
<1>6. Rest' = r /\ (Measuring' <=> Measuring) /\ (Looked' <=> Looked) /\ target' = target
  BY <1>1, <1>2, <1>5, SameRest DEF Looked
<1>. SUFFICES ASSUME Looked, target.alive, Measuring
              PROVE  /\ client.failed => r <= b
                     /\ \/ r + ShutdownGrace + 3 * Kill <= a + Kill
                        \/ r + Kill <= b + Kill
  BY <1>2, <1>3, <1>4, <1>6 DEF MetricsInv
<1>7. client.failed => r <= b
  BY <1>4, <1>5 DEF MetricsInv
<1>8. client.failed \/ (client.step = "stopping" /\ client.left = 0)
  BY DEF RequestEnds, RequestDue, OrderInv, Looked
<1>9. CASE client.failed
  BY <1>7, <1>9, ConstantFacts
<1>10. CASE client.step = "stopping" /\ client.left = 0
  <2>1. r + ShutdownGrace + 2 * Kill <= a
    BY <1>3, <1>5, <1>10, ConstantFacts DEF MetricsInv
  <2>. QED
    BY <1>7, <2>1, ConstantFacts
<1>. QED
  BY <1>8, <1>9, <1>10

LEMMA MetricsEscalate ==
    ASSUME Types, OrderInv, MetricsInv, ClientEscalates
    PROVE  MetricsInv'
<1>1. /\ SameWork /\ agent'.closed = agent.closed /\ agent.process = "up" /\ client.left = 0
      /\ client'.failed = client.failed /\ target' = target
      /\ \/ /\ client.step = "ended" /\ client'.step = "signalled" /\ client'.left = Kill
         \/ client'.step = "done"
  BY EscalateFields DEF Apart
<1>2. PICK a \in Nat : a = MaxMetrics * Command
  BY ConstantFacts
<1>3. PICK b \in Int : b = (MaxMetrics - 1) * Command
  BY RestButOne
<1>4. PICK r \in Nat : r = Rest
  BY RestBound
<1>5. Rest' = r /\ (Measuring' <=> Measuring) /\ (Looked' => Looked)
  BY <1>1, <1>4, SameRest DEF Looked
<1>. SUFFICES ASSUME Looked, target.alive, Measuring
              PROVE  /\ client.failed => r <= b
                     /\ client.step = "ended" => \/ r + ShutdownGrace + 4 * Kill <= a + Kill
                                                 \/ r + 2 * Kill <= b + Kill
  BY <1>1, <1>2, <1>3, <1>5 DEF MetricsInv
<1>6. client.failed => r <= b
  BY <1>3, <1>4 DEF MetricsInv
<1>7. client.step = "ended" => r + ShutdownGrace + 3 * Kill <= a \/ r + Kill <= b
  BY <1>1, <1>2, <1>3, <1>4, ConstantFacts DEF MetricsInv
<1>. QED
  BY <1>6, <1>7, ConstantFacts

\* A command ends before another begins, or times out on a blocked target.
LEMMA MetricsCommandOver ==
    ASSUME Types, OrderInv, MetricsInv, CommandEnds, Types', OrderInv'
    PROVE  MetricsInv'
<1>1. /\ agent.process = "up" /\ agent.busy \in {"metrics", "terminate"}
      /\ agent'.busy = "none" /\ agent'.waiting = agent.waiting /\ agent'.closed = agent.closed
      /\ client'.step = client.step /\ client'.left = client.left /\ target' = target
      /\ client'.failed => client.failed \/ agent.busy = "metrics"
  BY CommandEndsFields
<1>2. agent.waiting \in Nat /\ agent.left \in Nat /\ Rest \in Nat /\ Rest' \in Nat
  BY RestBound, RestBoundNext DEF Types, Agent
<1>3. PICK w \in Nat : w = agent.waiting * Command
  BY <1>2, ConstantFacts
<1>4. Rest' = w
  BY <1>1, <1>3 DEF Rest
<1>5. Rest' <= Rest
  BY <1>1, <1>2, <1>3, <1>4 DEF Rest
<1>6. Measuring' => Measuring
  BY <1>1 DEF Measuring
<1>7. agent.busy = "metrics" => Rest' <= (MaxMetrics - 1) * Command
  <2>. SUFFICES ASSUME agent.busy = "metrics"
                PROVE  Rest' <= (MaxMetrics - 1) * Command
    OBVIOUS
  <2>1. agent.waiting + 1 <= MaxMetrics
    BY DEF OrderInv
  <2>2. MaxMetrics - 1 \in Nat /\ agent.waiting <= MaxMetrics - 1
    BY <1>2, <2>1, ConstantFacts
  <2>. QED
    BY <1>2, <1>3, <1>4, <2>2, ConstantFacts, NoMore
<1>. QED
  BY <1>1, <1>2, <1>5, <1>6, <1>7, MetricsByOthers DEF Looked, Types

LEMMA MetricsTick ==
    ASSUME Types, OrderInv, MetricsInv, Tick
    PROVE  MetricsInv'
<1>1. /\ ~Due /\ client'.step = client.step /\ client'.left = Less(client.left)
      /\ client'.failed = client.failed /\ agent'.waiting = agent.waiting
      /\ agent'.left = Less(agent.left) /\ agent'.busy = agent.busy
      /\ agent'.process = agent.process /\ agent'.closed = agent.closed /\ target' = target
  BY TickFields
<1>2. /\ agent.left \in Nat /\ agent.waiting \in Nat /\ client.left \in Nat
      /\ client.step \in {"starting", "running", "stopping", "ended", "signalled", "done", "crashed"}
  BY DEF Types, Agent, Client
<1>3. PICK a \in Nat : a = MaxMetrics * Command
  BY ConstantFacts
<1>4. PICK b \in Int : b = (MaxMetrics - 1) * Command
  BY RestButOne
<1>5. PICK w \in Nat : w = agent.waiting * Command
  BY <1>2, ConstantFacts
<1>6. (Measuring' <=> Measuring) /\ (Looked' <=> Looked)
  BY <1>1 DEF Measuring, Looked
<1>. SUFFICES ASSUME Looked, target.alive, Measuring
              PROVE  /\ client.failed => Rest' <= b
                     /\ client.step = "stopping" => Rest' + ShutdownGrace + 2 * Kill <= a + client'.left
                     /\ client.step = "ended" => \/ Rest' + ShutdownGrace + 3 * Kill <= a + client'.left
                                                 \/ Rest' + Kill <= b + client'.left
                     /\ client.step = "signalled" => \/ Rest' + ShutdownGrace + 4 * Kill <= a + client'.left
                                                     \/ Rest' + 2 * Kill <= b + client'.left
  BY <1>1, <1>3, <1>4, <1>6 DEF MetricsInv
<1>7. agent.busy = "metrics" /\ agent.left # 0
  BY <1>1 DEF Due, MetricsDue, CommandDue, OrderInv, Looked, Measuring
<1>8. Rest = w + agent.left /\ Rest' = w + (agent.left - 1)
  BY <1>1, <1>2, <1>5, <1>7 DEF Rest, Less
<1>9. client.step \in {"stopping", "ended", "signalled"} => client'.left = client.left - 1
  BY <1>1, <1>2 DEF Due, RequestDue, CloseDue, Looked, Less
<1>10. /\ client.failed => Rest <= b
       /\ client.step = "stopping" => Rest + ShutdownGrace + 2 * Kill <= a + client.left
       /\ client.step = "ended" => \/ Rest + ShutdownGrace + 3 * Kill <= a + client.left
                                   \/ Rest + Kill <= b + client.left
       /\ client.step = "signalled" => \/ Rest + ShutdownGrace + 4 * Kill <= a + client.left
                                       \/ Rest + 2 * Kill <= b + client.left
  BY <1>3, <1>4 DEF MetricsInv
<1>. QED
  BY <1>2, <1>8, <1>9, <1>10, ConstantFacts

LEMMA MetricsNext ==
    ASSUME Types, OrderInv, MetricsInv, Next, Types', OrderInv'
    PROVE  MetricsInv'
<1>0. /\ Rest \in Nat /\ Rest' \in Nat /\ client \in Client /\ agent.waiting \in Nat
      /\ agent'.waiting \in Nat
  BY RestBound, RestBoundNext DEF Types, Agent
<1>1. CASE Fork
  BY <1>0, <1>1, ForkFields DEF MetricsInv, Measuring, OrderInv
<1>. SUFFICES ASSUME ~Fork
              PROVE  MetricsInv'
  BY <1>1
<1>2. target'.alive => target.alive
  BY ToldStays DEF ToldKept
<1>3. CASE TargetStep
  <2>1. agent' = agent /\ client' = client
    BY <1>3, TargetStepFields
  <2>2. Rest' = Rest /\ (Measuring' <=> Measuring) /\ (Looked' <=> Looked)
    BY <2>1 DEF Rest, Measuring, Looked
  <2>. QED
    BY <1>0, <1>2, <2>1, <2>2, MetricsByOthers
<1>4. CASE QueueDrained \/ AgentFails
  BY <1>4, DrainFields, FailFields DEF MetricsInv, Looked
<1>5. CASE AgentSignalled \/ AgentExits \/ RunnerCrashes
  <2>1. Apart /\ (agent'.process = "up" => agent.process = "up") /\ client'.failed = client.failed
        /\ (client' = client \/ client'.step = "crashed")
    BY <1>5, AgentSignalledFields, AgentExitsFields, CrashFields
  <2>2. Rest' = Rest /\ (Measuring' <=> Measuring) /\ (Looked' => Looked)
    BY <2>1, SameRest DEF Apart, Looked
  <2>. QED
    BY <1>0, <1>2, <2>1, <2>2, MetricsByOthers
<1>6. CASE RequestEnds \/ (RunnerStops /\ client.failed)
  BY <1>6, MetricsEnd
<1>7. CASE ClientEscalates
  BY <1>7, MetricsEscalate
<1>8. CASE StartFails \/ StopCommand \/ StartSucceeds
  <2>1. agent'.waiting = agent.waiting /\ agent.waiting = 0 /\ agent'.busy # "metrics"
    BY <1>0, <1>8, StartFailsFields, StartSucceedsFields DEF OrderInv
  <2>. QED
    BY <2>1 DEF MetricsInv, Measuring
<1>9. CASE CommandEnds
  BY <1>9, MetricsCommandOver
<1>10. CASE MetricsBegins
  <2>1. /\ agent.process = "up" /\ agent.busy = "none" /\ agent.waiting > 0
        /\ agent'.busy = "metrics" /\ agent'.left = Command /\ agent'.waiting = agent.waiting - 1
        /\ agent'.closed = agent.closed /\ client' = client
    BY <1>10, MetricsBeginsFields
  <2>2. agent.waiting * Command = agent'.waiting * Command + Command
    <3>1. agent.waiting = agent'.waiting + 1
      BY <1>0, <2>1
    <3>. QED
      BY <1>0, <3>1, OneMore, ConstantFacts
  <2>3. Rest' = Rest
    BY <1>0, <2>1, <2>2 DEF Rest
  <2>. QED
    BY <1>0, <1>2, <2>1, <2>3, MetricsByOthers DEF Measuring, Looked
<1>11. CASE MetricsCommand
  BY <1>11, MetricsCommandFields DEF MetricsInv
<1>12. CASE RunnerStops /\ ~client.failed
  <2>1. /\ client'.step = "stopping" /\ client'.left = ShutdownGrace + 2 * Kill /\ ~client'.failed
    BY <1>12, RunnerStopsFields
  <2>2. PICK a \in Nat : a = MaxMetrics * Command
    BY ConstantFacts
  <2>3. Rest' <= a
    BY <2>2, RestBoundNext
  <2>4. PICK r \in Nat : r = Rest'
    BY <1>0
  <2>5. PICK c \in Nat : c = client'.left /\ c = ShutdownGrace + 2 * Kill
    BY <2>1, ConstantFacts
  <2>6. r + ShutdownGrace + 2 * Kill <= a + c
    <3>1. r <= a
      BY <2>3, <2>4
    <3>2. c = ShutdownGrace + 2 * Kill
      BY <2>5
    <3>. QED
      BY <3>1, <3>2, ConstantFacts
  <2>7. c = client'.left /\ client'.step = "stopping" /\ ~client'.failed
    BY <2>1, <2>5
  <2>. QED
    BY <2>2, <2>4, <2>6, <2>7, ConstantFacts DEF MetricsInv
<1>13. CASE Tick
  BY <1>13, MetricsTick
<1>. QED
  BY <1>3, <1>4, <1>5, <1>6, <1>7, <1>8, <1>9, <1>10, <1>11, <1>12, <1>13
     DEF Next, Step, TargetStep
--------------------------------------------------------------------------------
(* The target is told before the client kills the agent *)

\* An agent that closes and has nothing to do at once is in the middle of a command.
LEMMA BusyWhenIdle ==
    ASSUME Types, ToldInv, ~Due, Looked, agent.closing # "no"
    PROVE  agent.busy # "none"
<1>1. agent.waiting \in Nat /\ agent.ahead \in Nat
      /\ agent.closing \in {"no", "queue", "drained"}
  BY DEF Types, Agent
<1>2. agent.closing = "queue" /\ agent.ahead # 0
  BY <1>1 DEF Due, DrainDue, ToldInv, Looked
<1>. SUFFICES ASSUME agent.busy = "none"
              PROVE  FALSE
  OBVIOUS
<1>3. agent.waiting = 0 /\ ~agent.queued
  BY <1>1 DEF Due, MetricsDue, StopDue, Looked
<1>4. Undone = 0
  BY <1>3 DEF Undone
<1>. QED
  BY <1>1, <1>2, <1>4 DEF ToldInv

\* In the last moment before SIGKILL, a target has been told or its agent's command
\* has outlasted the deadlines.
LEMMA ToldWhenIdle ==
    ASSUME Types, OrderInv, ToldInv, StartInv, MetricsInv, ClockInv, ~Due,
           agent.process = "up", client.step = "signalled", client.left = 1
    PROVE  /\ target.alive => Told \/ DeadlinesTooShort
           /\ agent.busy = "port" => DeadlinesTooShort
<1>1. CASE agent.closed # "no"
  BY <1>1 DEF ToldInv
<1>2. CASE agent.closed = "no"
  <2>1. Looked /\ agent.closing # "no"
    BY <1>2 DEF Looked, ClockInv
  <2>2. agent.busy \in {"port", "boot", "metrics", "terminate"} /\ agent.left \in Nat
    BY <2>1, BusyWhenIdle DEF Types, Agent
  <2>3. CASE agent.busy \in {"port", "boot"}
    <3>1. agent.left # 0
      BY <2>3 DEF Due, StartDue
    <3>2. Port >= 2 * Kill
      <4>1. CASE agent.busy = "port"
        <5>1. agent.left + Ready + 2 * Kill <= Port + 1
          BY <2>1, <4>1 DEF StartInv
        <5>. QED
          BY <2>2, <3>1, <5>1, ConstantFacts
      <4>2. CASE agent.busy = "boot"
        <5>1. agent.left + 2 * Kill <= Port + 1
          BY <2>1, <4>2 DEF StartInv
        <5>. QED
          BY <2>2, <3>1, <5>1, ConstantFacts
      <4>. QED
        BY <2>3, <4>1, <4>2
    <3>. QED
      BY <3>2 DEF DeadlinesTooShort
  <2>4. CASE agent.busy = "metrics"
    <3>1. agent.left # 0 /\ target.kind # "prompt" /\ target.alive
      BY <2>4 DEF Due, CommandDue
    <3>2. Measuring /\ target.kind = "deaf"
      BY <2>4, <3>1 DEF Measuring, OrderInv, Types, Target, Kind
    <3>3. PICK w \in Nat : w = agent.waiting * Command
      BY ConstantFacts DEF Types, Agent
    <3>4. PICK a \in Nat : a = MaxMetrics * Command
      BY ConstantFacts
    <3>5. PICK b \in Int : b = (MaxMetrics - 1) * Command
      BY RestButOne
    <3>6. PICK r \in Nat : r = Rest /\ r # 0
      BY <2>2, <2>4, <3>1, <3>3 DEF Rest
    <3>7. r + ShutdownGrace + 4 * Kill <= a + 1 \/ r + 2 * Kill <= b + 1
      BY <2>1, <3>1, <3>2, <3>4, <3>5, <3>6 DEF MetricsInv
    <3>8. a >= ShutdownGrace + 4 * Kill \/ b >= 2 * Kill
      BY <3>6, <3>7, ConstantFacts
    <3>. QED
      BY <2>4, <3>2, <3>4, <3>5, <3>8 DEF DeadlinesTooShort
  <2>5. CASE agent.busy = "terminate"
    BY <2>5 DEF ToldInv
  <2>. QED
    BY <2>2, <2>3, <2>4, <2>5
<1>. QED
  BY <1>1, <1>2

LEMMA ClockByOthers ==
    ASSUME ClockInv, ToldKept, KindKept,
           agent'.process = "up" => agent.process = "up",
           agent'.closing = "no" => agent.closing = "no",
           agent'.busy = "port" => agent.busy = "port",
           client'.step \in {"ended", "signalled"} =>
              client'.step = client.step /\ client'.left = client.left
    PROVE  ClockInv'
BY ShortStays DEF ClockInv, ToldKept

LEMMA ClockNext ==
    ASSUME Types, OrderInv, ToldInv, StartInv, MetricsInv, ClockInv, Next
    PROVE  ClockInv'
<1>1. CASE Fork
  <2>1. /\ agent.process = "up" /\ agent.busy = "port" /\ agent'.busy = "boot"
        /\ agent'.closing = agent.closing /\ client' = client /\ target'.kind = target.kind
    BY <1>1, ForkFields
  <2>2. DeadlinesTooShort => DeadlinesTooShort'
    BY <2>1 DEF DeadlinesTooShort
  <2>. QED
    BY <2>1, <2>2 DEF ClockInv
<1>. SUFFICES ASSUME ~Fork
              PROVE  ClockInv'
  BY <1>1
<1>2. ToldKept /\ KindKept
  BY ToldStays
<1>3. CASE TargetStep
  BY <1>2, <1>3, TargetStepFields, ClockByOthers
<1>4. CASE QueueDrained \/ AgentFails
  <2>1. /\ agent.process = "up" /\ client' = client /\ agent'.busy = agent.busy
        /\ agent'.closing = agent.closing \/ agent'.closing = "drained"
    BY <1>4, DrainFields, FailFields DEF SameWork
  <2>. QED
    BY <1>2, <2>1, ClockByOthers
<1>5. CASE AgentSignalled \/ AgentExits \/ RunnerCrashes
  <2>1. Apart /\ (agent'.process = "up" => agent.process = "up")
        /\ (client' = client \/ client'.step = "crashed")
    BY <1>5, AgentSignalledFields, AgentExitsFields, CrashFields
  <2>. QED
    BY <1>2, <2>1, ClockByOthers DEF Apart, SameWork, SameClosing
<1>6. CASE RequestEnds \/ (RunnerStops /\ client.failed)
  <2>1. CloseClient /\ UNCHANGED <<term, asking, target>>
    BY <1>6 DEF RequestEnds, RunnerStops
  <2>. QED
    BY <2>1, EndFields DEF ClockInv
<1>7. CASE ClientEscalates
  BY <1>7, EscalateFields, ConstantFacts DEF ClockInv
<1>8. CASE StartFails \/ StopCommand
  BY <1>2, <1>8, StartFailsFields, ClockByOthers
<1>9. CASE StartSucceeds
  <2>1. client'.step = "running" \/ client' = client
    BY <1>9, StartSucceedsFields
  <2>. QED
    BY <1>2, <1>9, <2>1, StartSucceedsFields, ClockByOthers
<1>10. CASE CommandEnds
  BY <1>2, <1>10, CommandEndsFields, ClockByOthers
<1>11. CASE MetricsBegins \/ MetricsCommand
  BY <1>2, <1>11, MetricsBeginsFields, MetricsCommandFields, ClockByOthers
<1>12. CASE RunnerStops /\ ~client.failed
  BY <1>2, <1>12, RunnerStopsFields, ClockByOthers
<1>13. CASE Tick
  <2>1. /\ ~Due /\ client'.step = client.step /\ client'.left = Less(client.left)
        /\ agent'.process = agent.process /\ agent'.closing = agent.closing
        /\ agent'.busy = agent.busy /\ target' = target /\ client.left \in Nat
    BY <1>13, TickFields DEF Types, Client
  <2>2. (Told' <=> Told) /\ (DeadlinesTooShort' <=> DeadlinesTooShort)
    BY <2>1 DEF Told, DeadlinesTooShort
  <2>. SUFFICES ASSUME agent.process = "up", client.step = "signalled", client'.left = 0
                PROVE  /\ target.alive => Told \/ DeadlinesTooShort
                       /\ agent.busy = "port" => DeadlinesTooShort
    BY <2>1, <2>2 DEF ClockInv
  <2>3. client.left = 1
    BY <2>1 DEF Due, CloseDue, Less
  <2>. QED
    BY <2>1, <2>3, ToldWhenIdle
<1>. QED
  BY <1>3, <1>4, <1>5, <1>6, <1>7, <1>8, <1>9, <1>10, <1>11, <1>12, <1>13
     DEF Next, Step, TargetStep
--------------------------------------------------------------------------------
(* The theorems *)

LEMMA InitHolds == Init => IInv
<1>. SUFFICES ASSUME Init
              PROVE  IInv
  OBVIOUS
<1>. USE ConstantFacts
<1>1. /\ client.step = "starting" /\ client.left = Ready /\ ~client.failed
      /\ agent.process = "up" /\ agent.busy = "port" /\ agent.left = Port /\ agent.waiting = 0
      /\ ~agent.queued /\ ~agent.answered /\ agent.closing = "no" /\ agent.closed = "no"
      /\ ~target.alive /\ target.kind = "booting" /\ target.runs = 0
      /\ term["close"].stage = "none" /\ asking = "none"
  BY DEF Init, NotCalled, Terminator
<1>2. Types
  BY DEF Init, Types, Client, Agent, Target, Kind, Stage, NotCalled
<1>3. HooksInv
  BY <1>1 DEF HooksInv
<1>4. OrderInv
  BY <1>1 DEF OrderInv, Measuring
<1>5. ToldInv
  BY <1>1 DEF ToldInv
<1>6. StartInv
  BY <1>1 DEF StartInv
<1>7. MetricsInv
  BY <1>1 DEF MetricsInv, Measuring
<1>8. ClockInv
  BY <1>1 DEF ClockInv
<1>. QED
  BY <1>2, <1>3, <1>4, <1>5, <1>6, <1>7, <1>8 DEF IInv

\* The hooks run at most once, and a target that was not killed has finished them
\* all when it leaves: whatever deadlines the agent and the runner have, and
\* however they end (TargetRuntime.shutdown and #runShutdown).
THEOREM HooksOnceThenExitHolds == Spec => []HooksOnceThenExit
<1>1. Init => Types /\ HooksInv
  BY InitHolds DEF IInv
<1>2. Types /\ HooksInv /\ [Next]_vars => (Types /\ HooksInv)'
  <2>1. ASSUME Types, HooksInv, UNCHANGED vars
        PROVE  (Types /\ HooksInv)'
    BY <2>1 DEF vars, Types, HooksInv
  <2>. QED
    BY <2>1, TypesNext, HooksNext
<1>3. Types /\ HooksInv => HooksOnceThenExit
  BY DEF Types, HooksInv, HooksOnceThenExit
<1>. QED
  BY <1>1, <1>2, <1>3, PTL DEF Spec

\* No agent that exits leaves a target behind that has not been told to shut down,
\* whatever it was waiting for, and none that is killed does unless a second signal
\* ended it or the deadlines of session.stop() and ControlClient.close() are shorter
\* than a start or the metrics commands of a blocked target: for every deadline.
THEOREM NoneForgottenHolds == Spec => []NoneForgotten
<1>1. Init => IInv
  BY InitHolds
<1>2. IInv /\ [Next]_vars => IInv'
  <2>1. ASSUME IInv, UNCHANGED vars
        PROVE  IInv'
    <3>1. Types' /\ HooksInv' /\ OrderInv'
      BY <2>1 DEF vars, IInv, Types, HooksInv, OrderInv, Measuring
    <3>2. ToldInv'
      BY <2>1 DEF vars, IInv, ToldInv, Told, Undone, DeadlinesTooShort
    <3>3. StartInv'
      BY <2>1 DEF vars, IInv, StartInv, Looked
    <3>4. MetricsInv'
      <4>1. Rest' = Rest /\ (Measuring' <=> Measuring) /\ (Looked' <=> Looked)
            /\ client' = client /\ target' = target
        BY <2>1 DEF vars, Rest, Measuring, Looked
      <4>. QED
        BY <2>1, <4>1 DEF IInv, MetricsInv
    <3>5. ClockInv'
      BY <2>1 DEF vars, IInv, ClockInv, Told, DeadlinesTooShort
    <3>. QED
      BY <3>1, <3>2, <3>3, <3>4, <3>5 DEF IInv
  <2>2. ASSUME IInv, Next
        PROVE  IInv'
    <3>1. Types' /\ HooksInv' /\ OrderInv'
      BY <2>2, TypesNext, HooksNext, OrderNext DEF IInv
    <3>. QED
      BY <2>2, <3>1, ToldNext, StartNext, MetricsNext, ClockNext DEF IInv
  <2>. QED
    BY <2>1, <2>2
<1>3. IInv => NoneForgotten
  BY DEF IInv, Types, Agent, ToldInv, NoneForgotten
<1>. QED
  BY <1>1, <1>2, <1>3, PTL DEF Spec
================================================================================
