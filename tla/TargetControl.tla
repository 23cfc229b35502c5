----------------------------- MODULE TargetControl -----------------------------
(***************************************************************************)
(* The control plane of one target: TargetProvider.start(), the session    *)
(* and ControlClient in the runner, the agent that reads its commands from *)
(* a pipe and runs the target, and the TargetRuntime inside the target.    *)
(*                                                                         *)
(*   runner --toAgent--> agent --ipcIn--> target                           *)
(*   runner <--toClient-- agent <--ipcOut-- target                         *)
(*                                                                         *)
(* Each side runs one callback at a time.  Deadlines are not compared with *)
(* each other: a timer may fire whenever it is armed (TargetShutdown has   *)
(* the clock).  How the agent terminates a target is one wait here.        *)
(***************************************************************************)
EXTENDS Naturals, Sequences, FiniteSets

CONSTANT MaxRequests    \* bound: requests of a session, target:start included

ASSUME MaxRequestsAssumption == MaxRequests \in Nat \ {0}

VARIABLES
    client,     \* provider, session and ControlClient
    agent,      \* AgentStdioRuntime and BenchkitAgent
    target,     \* the target process and its TargetRuntime
    toAgent,    \* requests in the pipe or in #commandQueue
    toClient,   \* responses and events in the pipe
    ipcIn, ipcOut

vars == <<client, agent, target, toAgent, toClient, ipcIn, ipcOut>>
--------------------------------------------------------------------------------
RequestType == {"target:start", "metrics:start", "metrics:stop", "target:stop"}
EventType == {"agent:ready", "agent:error", "target:exit"}

Request == [id : 1 .. MaxRequests, type : RequestType]
Message == [id : 0 .. MaxRequests, type : RequestType \cup EventType, ok : BOOLEAN]

Event(type, ok) == [id |-> 0, type |-> type, ok |-> ok]
Answer(command, ok) == [id |-> command.id, type |-> command.type, ok |-> ok]

TargetState == {"starting", "ready", "measuring", "stopping", "stopped", "failed"}

CanTransition(from, to) ==
    to \in CASE from = "starting" -> {"ready", "failed"}
             [] from = "ready" -> {"measuring", "stopping", "failed"}
             [] from = "measuring" -> {"ready", "stopping", "failed"}
             [] from = "stopping" -> {"stopped", "failed"}
             [] OTHER -> {}

\* machine.transition(to), where a refused transition throws and changes nothing.
Moved(from, to) == IF CanTransition(from, to) THEN to ELSE from

NoCommand == [id |-> 0, type |-> "none", stage |-> "none"]

\* start: what provider.start() waits for; settled: the requests answered whose
\* continuations (microtasks) have yet to run.
Client ==
    [start : {"agent", "target", "up", "failed"},
     session : {"none"} \cup TargetState,
     pending : SUBSET Request, nextId : Nat,
     settled : Seq(Message),
     failure : BOOLEAN,         \* #failure
     closed : BOOLEAN]          \* #closed: stdin has been ended

Agent ==
    [process : {"booting", "up", "closing", "gone"},
     machine : {"none"} \cup TargetState,
     command : [id : Nat, type : {"none"} \cup RequestType,
                stage : {"none", "port", "boot", "target", "terminate", "cleanup"}],
     expected : BOOLEAN,        \* #targetExpectedExit
     sawExit : BOOLEAN,         \* the target's 'exit' has been handled
     lost : BOOLEAN]            \* a command to the target has timed out

Target == [process : {"none", "booting", "up", "exited"}, measuring : BOOLEAN]

Init ==
    /\ client = [start |-> "agent", session |-> "none", pending |-> {}, nextId |-> 1,
                 settled |-> <<>>, failure |-> FALSE, closed |-> FALSE]
    /\ agent = [process |-> "booting", machine |-> "none", command |-> NoCommand,
                expected |-> FALSE, sawExit |-> FALSE, lost |-> FALSE]
    /\ target = [process |-> "none", measuring |-> FALSE]
    /\ toAgent = <<>> /\ toClient = <<>> /\ ipcIn = <<>> /\ ipcOut = <<>>
--------------------------------------------------------------------------------
(* The runner *)

\* #fail rejects what start() waits for, unless that has been answered already.
RejectsStart(c) ==
    \/ c.start = "agent" /\ c.settled = <<>>
    \/ \E p \in c.pending : p.type = "target:start"

\* #fail: the first failure fails the session and rejects every request; a
\* rejected start() or stop() closes the client.
Fail(c) ==
    IF c.failure
    THEN c
    ELSE [c EXCEPT
            !.failure = TRUE,
            !.session = Moved(c.session, "failed"),
            !.pending = {},
            !.start = IF RejectsStart(c) THEN "failed" ELSE @,
            !.closed = @ \/ RejectsStart(c) \/ \E p \in c.pending : p.type = "target:stop"]

\* Mutant: an answer nobody waits for is ignored.
DeliverIgnoresUnknown(c, m) ==
    IF m.id = 0 /\ m.type = "agent:ready" THEN [c EXCEPT !.settled = Append(@, m)]
    ELSE IF m.id = 0 THEN Fail(c)
    ELSE LET asked == {p \in c.pending : p.id = m.id}
         IN  IF asked = {} THEN c
             ELSE [c EXCEPT !.pending = @ \ asked, !.settled = Append(@, m)]

\* #onMessage: an answer settles its request, and one that comes after the
\* request has timed out fails the client.
Delivered(c, m) ==
    IF m.id = 0 /\ m.type = "agent:ready" THEN [c EXCEPT !.settled = Append(@, m)]
    ELSE IF m.id = 0 THEN Fail(c)
    ELSE LET asked == {p \in c.pending : p.id = m.id}
         IN  IF asked = {} THEN Fail(c)
             ELSE [c EXCEPT !.pending = @ \ asked, !.settled = Append(@, m)]

\* A chunk may hold several frames, so the next may come before continuations.
Deliver ==
    /\ toClient # <<>>
    /\ client' = Delivered(client, Head(toClient))
    /\ toClient' = Tail(toClient)
    /\ UNCHANGED <<agent, target, toAgent, ipcIn, ipcOut>>

\* request(): c is the client as the caller leaves it.
Send(c, type) ==
    /\ c.nextId <= MaxRequests
    /\ LET r == [id |-> c.nextId, type |-> type]
       IN  /\ client' = [c EXCEPT !.pending = @ \cup {r}, !.nextId = @ + 1]
           /\ toAgent' = Append(toAgent, r)
    /\ UNCHANGED <<agent, target, toClient, ipcIn, ipcOut>>

\* The continuation of start() after a rejection, and of stop() in any case.
Close(c) == [c EXCEPT !.closed = TRUE]

\* Mutant: stop() that failed leaves the session as if it had stopped.
SettledAlwaysStops(c, type, ok) ==
    CASE type = "target:start" /\ ok ->
            [c EXCEPT !.start = "up", !.session = IF c.failure THEN "failed" ELSE "ready"]
      [] type = "agent:ready" /\ c.start = "agent" -> Close([c EXCEPT !.start = "failed"])
      [] type = "target:start" /\ ~ok -> Close([c EXCEPT !.start = "failed"])
      [] type = "metrics:start" /\ ok -> [c EXCEPT !.session = Moved(@, "measuring")]
      [] type = "metrics:stop" /\ ok -> [c EXCEPT !.session = Moved(@, "ready")]
      [] type = "target:stop" -> Close([c EXCEPT !.session = Moved(@, "stopped")])
      [] OTHER -> c

\* What start(), startMetrics(), stopMetrics() and stop() do with their answer.
Settled(c, type, ok) ==
    CASE type = "target:start" /\ ok ->
            [c EXCEPT !.start = "up", !.session = IF c.failure THEN "failed" ELSE "ready"]
      [] type = "agent:ready" /\ c.start = "agent" -> Close([c EXCEPT !.start = "failed"])
      [] type = "target:start" /\ ~ok -> Close([c EXCEPT !.start = "failed"])
      [] type = "metrics:start" /\ ok -> [c EXCEPT !.session = Moved(@, "measuring")]
      [] type = "metrics:stop" /\ ok -> [c EXCEPT !.session = Moved(@, "ready")]
      [] type = "target:stop" ->
            Close([c EXCEPT !.session = Moved(@, IF ok THEN "stopped" ELSE "failed")])
      [] OTHER -> c

Continue ==
    /\ client.settled # <<>>
    /\ LET m == Head(client.settled)
           c == [client EXCEPT !.settled = Tail(@)]
       IN  IF m.type = "agent:ready" /\ c.start = "agent" /\ ~c.failure
           THEN Send([c EXCEPT !.start = "target"], "target:start")
           ELSE /\ client' = Settled(c, m.type, m.ok)
                /\ UNCHANGED <<agent, target, toAgent, toClient, ipcIn, ipcOut>>

\* The deadline of a request; continuations have run before a timer does.
RequestTimeout(p) ==
    /\ client.settled = <<>> /\ p \in client.pending
    /\ client' = Settled([client EXCEPT !.pending = @ \ {p}], p.type, FALSE)
    /\ UNCHANGED <<agent, target, toAgent, toClient, ipcIn, ipcOut>>

AgentStartupTimeout ==
    /\ client.settled = <<>> /\ client.start = "agent"
    /\ client' = Close([client EXCEPT !.start = "failed"])
    /\ UNCHANGED <<agent, target, toAgent, toClient, ipcIn, ipcOut>>

\* 'exit' of the agent, or of the ssh that carries it.
TransportExit ==
    /\ agent.process = "gone" /\ ~client.closed /\ ~client.failure
    /\ client' = Fail(client)
    /\ UNCHANGED <<agent, target, toAgent, toClient, ipcIn, ipcOut>>

\* Calls of the benchmark: refused ones throw before anything has changed.
StartMetrics == CanTransition(client.session, "measuring") /\ Send(client, "metrics:start")

StopMetrics == CanTransition(client.session, "ready") /\ Send(client, "metrics:stop")

StopSession ==
    \/ /\ CanTransition(client.session, "stopping")
       /\ Send([client EXCEPT !.session = "stopping"], "target:stop")
    \/ /\ client.session = "failed" /\ ~client.closed
       /\ client' = Close(client)
       /\ UNCHANGED <<agent, target, toAgent, toClient, ipcIn, ipcOut>>
--------------------------------------------------------------------------------
(* The agent *)

AgentStarts ==
    /\ agent.process = "booting"
    /\ \E ok \in BOOLEAN :      \* a configuration it cannot accept ends it
        /\ agent' = [agent EXCEPT !.process = IF ok THEN "up" ELSE "gone"]
        /\ toClient' = Append(toClient, Event(IF ok THEN "agent:ready" ELSE "agent:error", ok))
    /\ UNCHANGED <<client, target, toAgent, ipcIn, ipcOut>>

\* handle() writes the answer of the command at hand; a is the agent without it.
Respond(a, ok) ==
    /\ agent' = [a EXCEPT !.command = NoCommand]
    /\ toClient' = Append(toClient, Answer(agent.command, ok))

\* #dispatch refuses r in the state the agent is in.
Refuses(r) ==
    CASE r.type = "target:start" -> agent.machine # "none"
      [] r.type = "metrics:start" -> ~CanTransition(agent.machine, "measuring")
      [] r.type = "metrics:stop" -> ~CanTransition(agent.machine, "ready")
      [] r.type = "target:stop" -> ~CanTransition(agent.machine, "stopping")

\* The next command of the queue, which are handled one at a time.
TakeCommand ==
    /\ agent.process = "up" /\ agent.command = NoCommand /\ toAgent # <<>>
    /\ toAgent' = Tail(toAgent)
    /\ LET r == Head(toAgent)
           asked(stage) == [id |-> r.id, type |-> r.type, stage |-> stage]
           relays == r.type \in {"metrics:start", "metrics:stop"}
       IN  IF Refuses(r) \/ (relays /\ target.process = "exited")
           THEN /\ toClient' = Append(toClient, Answer(r, FALSE))
                /\ UNCHANGED <<agent, ipcIn>>
           ELSE IF relays
           THEN /\ agent' = [agent EXCEPT !.command = asked("target")]
                /\ ipcIn' = Append(ipcIn, r)
                /\ UNCHANGED toClient
           ELSE /\ agent' = IF r.type = "target:start"
                            THEN [agent EXCEPT !.machine = "starting", !.command = asked("port")]
                            ELSE [agent EXCEPT !.machine = "stopping", !.expected = TRUE,
                                               !.command = asked("terminate")]
                /\ UNCHANGED <<toClient, ipcIn>>
    /\ UNCHANGED <<client, target, ipcOut>>

\* A free port has been found and the target is forked, or none was.
Fork ==
    /\ agent.command.stage = "port" /\ agent.process # "gone"
    /\ \/ /\ target' = [target EXCEPT !.process = "booting"]
          /\ agent' = [agent EXCEPT !.command.stage = "boot"]
          /\ UNCHANGED toClient
       \/ /\ Respond([agent EXCEPT !.machine = "failed"], FALSE)
          /\ UNCHANGED target
    /\ UNCHANGED <<client, toAgent, ipcIn, ipcOut>>

\* A message of the target: its readiness, or the answer of the command at hand.
\* Any other is the answer of a command that has timed out.
HearTarget ==
    /\ ipcOut # <<>> /\ agent.process # "gone"
    /\ ipcOut' = Tail(ipcOut)
    /\ LET m == Head(ipcOut)
           to == IF m.type = "metrics:start" THEN "measuring" ELSE "ready"
       IN  IF \/ m.type = "target:start" /\ agent.command.stage = "boot"
              \/ m.id = agent.command.id /\ agent.command.stage = "target" /\ m.ok
           THEN Respond([agent EXCEPT !.machine = Moved(@, to)],
                        CanTransition(agent.machine, to))
           ELSE IF m.id = agent.command.id /\ agent.command.stage = "target"
           THEN Respond(agent, FALSE)
           ELSE UNCHANGED <<agent, toClient>>
    /\ UNCHANGED <<client, target, toAgent, ipcIn>>

\* commandMs or targetReadyTimeoutMs is over.
TargetTimeout ==
    /\ agent.process # "gone"
    /\ \/ /\ agent.command.stage = "target"
          /\ Respond([agent EXCEPT !.lost = TRUE], FALSE)
       \/ /\ agent.command.stage = "boot"
          /\ agent' = [agent EXCEPT !.machine = Moved(@, "failed"), !.expected = TRUE,
                                    !.command.stage = "cleanup"]
          /\ UNCHANGED toClient
    /\ UNCHANGED <<client, target, toAgent, ipcIn, ipcOut>>

\* Mutant: only a ready target can exit unexpectedly.
ExitIsNews(a) == ~a.expected /\ a.machine = "ready"

\* The exit handler reports an exit that was not asked for.
ExitUnexpected(a) == ~a.expected /\ CanTransition(a.machine, "failed")

\* 'exit' of the target: it is reported, a command waiting for the target fails,
\* and a termination is complete.
SeeExit ==
    /\ target.process = "exited" /\ ~agent.sawExit /\ agent.process # "gone"
    /\ LET news == ExitUnexpected(agent)
           a == [agent EXCEPT !.sawExit = TRUE,
                              !.machine = IF news THEN "failed" ELSE @]
           told == IF news THEN Append(toClient, Event("target:exit", FALSE)) ELSE toClient
           stage == agent.command.stage
       IN  IF stage \in {"none", "port"}
           THEN agent' = a /\ toClient' = told
           ELSE /\ agent' = [a EXCEPT
                    !.command = NoCommand,
                    !.machine = IF stage = "terminate" THEN Moved(@, "stopped") ELSE @]
                /\ toClient' = Append(told, Answer(agent.command, stage = "terminate"))
    /\ UNCHANGED <<client, target, toAgent, ipcIn, ipcOut>>

\* The target outlives every deadline of its termination.
TerminationFails ==
    /\ agent.command.stage \in {"terminate", "cleanup"} /\ agent.process # "gone"
    /\ target.process # "exited"
    /\ Respond(agent, FALSE)
    /\ UNCHANGED <<client, target, toAgent, ipcIn, ipcOut>>

\* The end of stdin: the agent closes once its queue is empty, and exits when
\* the target has, or could not be terminated.
AgentCloses ==
    /\ \/ /\ agent.process = "up" /\ client.closed
          /\ toAgent = <<>> /\ agent.command = NoCommand
          /\ agent' = [agent EXCEPT !.process = "closing", !.expected = TRUE]
       \/ /\ agent.process = "closing"
          /\ agent' = [agent EXCEPT !.process = "gone"]
    /\ UNCHANGED <<client, target, toAgent, toClient, ipcIn, ipcOut>>

\* The agent is killed, crashes, or the connection to its host breaks.
AgentDies ==
    /\ agent.process \in {"booting", "up"}
    /\ agent' = [agent EXCEPT !.process = "gone"]
    /\ UNCHANGED <<client, target, toAgent, toClient, ipcIn, ipcOut>>
--------------------------------------------------------------------------------
(* The target *)

TargetReady ==
    /\ target.process = "booting"
    /\ target' = [target EXCEPT !.process = "up"]
    /\ ipcOut' = Append(ipcOut, Event("target:start", TRUE))
    /\ UNCHANGED <<client, agent, toAgent, toClient, ipcIn>>

\* A metrics command: it succeeds unless metrics are running or not as they are.
TargetCommand ==
    /\ target.process = "up" /\ ipcIn # <<>>
    /\ LET r == Head(ipcIn)
           ok == target.measuring = (r.type = "metrics:stop")
       IN  /\ target' = [target EXCEPT !.measuring = IF ok THEN r.type = "metrics:start" ELSE @]
           /\ ipcOut' = Append(ipcOut, Answer(r, ok))
    /\ ipcIn' = Tail(ipcIn)
    /\ UNCHANGED <<client, agent, toAgent, toClient>>

\* It crashes, or does what it was told.
TargetExits ==
    /\ target.process \in {"booting", "up"}
    /\ target' = [process |-> "exited", measuring |-> FALSE]
    /\ ipcIn' = <<>>
    /\ UNCHANGED <<client, agent, toAgent, toClient, ipcOut>>
--------------------------------------------------------------------------------
Runner ==
    \/ Deliver \/ Continue \/ AgentStartupTimeout \/ TransportExit
    \/ \E p \in client.pending : RequestTimeout(p)
    \/ StartMetrics \/ StopMetrics \/ StopSession

AgentNext ==
    \/ AgentStarts \/ TakeCommand \/ Fork \/ HearTarget \/ TargetTimeout
    \/ SeeExit \/ TerminationFails \/ AgentCloses \/ AgentDies

TargetNext == TargetReady \/ TargetCommand \/ TargetExits

Next == Runner \/ AgentNext \/ TargetNext

\* Pipes deliver, continuations run and exits are noticed.
Fairness ==
    /\ WF_vars(Deliver) /\ WF_vars(Continue)
    /\ WF_vars(SeeExit) /\ WF_vars(TransportExit)

Spec == Init /\ [][Next]_vars
FairSpec == Spec /\ Fairness
--------------------------------------------------------------------------------
\* Nothing is under way between the session and the agent.
Quiet ==
    /\ agent.process = "up" /\ agent.command = NoCommand
    /\ client.pending = {} /\ client.settled = <<>>
    /\ toAgent = <<>> /\ toClient = <<>>

\* The variables have their types.  When nothing is under way the session's state
\* is the agent's, whatever calls overlapped, timed out or failed, and the target
\* is measuring as it says, unless the agent gave up a command that may have been
\* carried out all the same.  A failed client has a failed session.
StatesAgree ==
    /\ client \in Client /\ agent \in Agent /\ target \in Target
    /\ {toAgent, ipcIn} \subseteq Seq(Request)
    /\ {toClient, ipcOut} \subseteq Seq(Message)
    /\ Quiet /\ client.session \in {"ready", "measuring"} =>
          /\ agent.machine = client.session
          /\ target.process = "up" /\ ~agent.lost =>
                target.measuring = (client.session = "measuring")
    /\ client.failure => client.session \notin {"ready", "measuring", "stopping"}

\* stop() succeeds, and the session says "stopped", only when the target process
\* has exited.
StoppedMeansGone == client.session = "stopped" => target.process = "exited"

\* A target that crashes does not go unnoticed: its session leaves the states in
\* which a benchmark would go on measuring.
ExitNoticed ==
    (target.process = "exited" /\ client.session \in {"ready", "measuring"})
        ~> client.session \notin {"ready", "measuring"}
================================================================================
