-------------------------- MODULE TargetControlProofs --------------------------
(***************************************************************************)
(* The session, the agent and the target agree whenever nothing is under   *)
(* way between them, and a session that has stopped has no target left:    *)
(* for any number of requests.                                             *)
(***************************************************************************)
EXTENDS TargetControl, SequenceTheorems, TLAPS

\* The messages of a queue; those of S occur in it at most once.
Elems(q) == {q[i] : i \in DOMAIN q}
Alone(q, S) == \A i, j \in DOMAIN q : q[i] \in S /\ q[j] \in S => i = j
--------------------------------------------------------------------------------
(* The inductive invariant *)

Metrics == {"metrics:start", "metrics:stop"}

Types ==
    /\ client \in Client /\ agent \in Agent /\ target \in Target
    /\ client.nextId # 0
    /\ toAgent \in Seq(Request) /\ ipcIn \in Seq(Request)
    /\ toClient \in Seq(Message) /\ ipcOut \in Seq(Message)

\* The state an ok answer of each type leaves the agent in.
After(type) == IF type = "metrics:start" THEN "measuring" ELSE "ready"

\* The command at hand, the agent's machine and the target's process.
StageInv ==
    LET c == agent.command
    IN  /\ c.stage = "none" => c = NoCommand
        /\ c.stage # "none" => c.id \in 1 .. MaxRequests /\ c.type \in RequestType
        /\ c.stage \in {"port", "boot"} => c.type = "target:start" /\ agent.machine = "starting"
        /\ c.stage = "cleanup" => c.type = "target:start" /\ agent.machine = "failed"
        /\ c.stage = "terminate" => c.type = "target:stop"
        /\ c.stage = "target" =>
              /\ c.type \in Metrics
              /\ agent.machine = IF c.type = "metrics:start" THEN "ready" ELSE "measuring"
        /\ agent.machine = "starting" => c.stage \in {"port", "boot"} /\ ~agent.expected
        /\ agent.machine = "none" =>
              /\ c.stage = "none" /\ target.process = "none"
              /\ agent.process \in {"booting", "up"} => ~agent.expected
        /\ c.stage = "port" => target.process = "none"

\* A request keeps its id and its type wherever it goes.
Named(f) ==
    /\ \A r \in Elems(toAgent) \cup Elems(ipcIn) : r.id < client.nextId /\ r.type = f[r.id]
    /\ agent.command.stage # "none" =>
          /\ agent.command.id < client.nextId
          /\ agent.command.type = f[agent.command.id]
    /\ \A m \in Elems(ipcOut) : m.id # 0 => m.id < client.nextId /\ m.type = f[m.id]

IdsInv == \E f \in [1 .. MaxRequests -> RequestType] : Named(f)

\* An answer that says the target has been stopped is true.
Stops == {m \in Message : m.type = "target:stop" /\ m.ok}

GoneInv ==
    \/ target.process = "exited"
    \/ client.session # "stopped" /\ (Elems(client.settled) \cup Elems(toClient)) \cap Stops = {}

FailedInv ==
    /\ client.failure => client.session \notin {"ready", "measuring", "stopping"}
    /\ client.session # "starting"

\* target:start succeeds once; until then there are no other requests, and until
\* stop() is called no target:stop.
Starts == {m \in Message : m.type = "target:start" /\ m.ok}

StartInv ==
    LET s == client.settled
    IN  /\ Alone(s, Starts) /\ Alone(toClient, Starts)
        /\ Elems(s) \cap Starts = {} \/ Elems(toClient) \cap Starts = {}
        /\ (client.session # "none" \/ agent.machine \in {"none", "starting"}) =>
              (Elems(s) \cup Elems(toClient)) \cap Starts = {}
        /\ agent.machine \in {"none", "starting"} => client.session = "none"
        /\ client.session = "none" =>
              /\ \A m \in Elems(s) \cup Elems(toClient) \cup Elems(toAgent) :
                    m.type \notin Metrics \cup {"target:stop"}
              /\ agent.command.type \notin Metrics \cup {"target:stop"}
        /\ client.session \in {"none", "ready", "measuring"} =>
              /\ \A r \in Elems(toAgent) : r.type # "target:stop"
              /\ agent.command.type # "target:stop"
              /\ agent.machine \notin {"stopping", "stopped"}

\* Message m leaves a state alone, or leaves After(m.type).  From state s, the
\* messages of q lead to t.
Changes == {m \in Message : m.ok /\ m.type \in Metrics \cup {"target:start"}}

Leads(s, q, t) ==
    /\ Elems(q) \cap Changes = {} => t = s
    /\ \A i \in DOMAIN q :
          q[i] \in Changes /\ (\A j \in DOMAIN q : j > i => q[j] \notin Changes)
             => t = After(q[i].type)

\* What the session makes of the agent's machine: once it has applied the answers
\* that are on their way to it, its state is the agent's, unless it is about to
\* hear that the target is gone.
Seen(machine) == IF machine \in {"ready", "measuring"} THEN machine ELSE "none"

ExitTold == \E m \in Elems(toClient) : m.id = 0 /\ m.type = "target:exit"

SyncInv ==
    client.session \in {"none", "ready", "measuring"} /\ ~client.failure /\ ~ExitTold =>
       \E mid \in {"none", "ready", "measuring"} :
          /\ Leads(client.session, client.settled, mid)
          /\ Leads(mid, toClient, Seen(agent.machine))

\* Between the agent and a live target there is at most the command at hand, if
\* the agent has never given one up.
Answers == {m \in Message : m.id # 0}

Agreed ==
    agent.machine \in {"none", "starting", "ready", "measuring"} =>
        target.measuring = (agent.machine = "measuring")

\* No metrics command is at hand; the target is to answer it; it has.
Idle ==
    /\ agent.command.stage # "target" /\ ipcIn = <<>>
    /\ Elems(ipcOut) \cap Answers = {}
    /\ Agreed

ToAnswer ==
    /\ agent.command.stage = "target"
    /\ ipcIn = <<[id |-> agent.command.id, type |-> agent.command.type]>>
    /\ Elems(ipcOut) \cap Answers = {}
    /\ Agreed

Answered ==
    /\ agent.command.stage = "target" /\ ipcIn = <<>>
    /\ \E m \in Elems(ipcOut) :
          /\ m.id = agent.command.id /\ m.type = agent.command.type
          /\ target.measuring = IF m.ok THEN agent.command.type = "metrics:start"
                                        ELSE agent.machine = "measuring"

MeasuringInv ==
    ~agent.lost /\ target.process # "exited" =>
       /\ Alone(ipcOut, Answers)
       /\ target.process = "up" \/ ~target.measuring
       /\ Idle \/ ToAnswer \/ Answered

IInv ==
    /\ Types /\ StageInv /\ IdsInv /\ GoneInv /\ FailedInv /\ StartInv /\ SyncInv /\ MeasuringInv
--------------------------------------------------------------------------------
(* Queues *)

LEMMA QueueAppend ==
    ASSUME NEW S, NEW q \in Seq(S), NEW m \in S
    PROVE  /\ Append(q, m) \in Seq(S) /\ Append(q, m) # <<>>
           /\ Elems(Append(q, m)) = Elems(q) \cup {m}
<1>1. /\ Append(q, m) \in Seq(S) /\ Len(Append(q, m)) = Len(q) + 1
      /\ DOMAIN q = 1 .. Len(q) /\ Len(q) \in Nat
      /\ DOMAIN Append(q, m) = 1 .. Len(q) + 1
      /\ \A i \in 1 .. Len(q) : Append(q, m)[i] = q[i]
      /\ Append(q, m)[Len(q) + 1] = m
  OBVIOUS
<1>2. Elems(q) \subseteq Elems(Append(q, m))
  <2>. SUFFICES ASSUME NEW i \in DOMAIN q
                PROVE  q[i] \in Elems(Append(q, m))
    BY DEF Elems
  <2>1. i \in DOMAIN Append(q, m) /\ Append(q, m)[i] = q[i]
    BY <1>1
  <2>. QED
    BY <2>1 DEF Elems
<1>3. m \in Elems(Append(q, m))
  BY <1>1 DEF Elems
<1>4. Elems(Append(q, m)) \subseteq Elems(q) \cup {m}
  <2>. SUFFICES ASSUME NEW i \in DOMAIN Append(q, m)
                PROVE  Append(q, m)[i] \in Elems(q) \cup {m}
    BY DEF Elems
  <2>1. CASE i \in 1 .. Len(q)
    BY <1>1, <2>1 DEF Elems
  <2>2. CASE i = Len(q) + 1
    BY <1>1, <2>2
  <2>. QED
    BY <1>1, <2>1, <2>2
<1>. QED
  BY <1>1, <1>2, <1>3, <1>4

LEMMA QueueTail ==
    ASSUME NEW S, NEW q \in Seq(S), q # <<>>
    PROVE  /\ Head(q) \in Elems(q) /\ Head(q) \in S
           /\ Tail(q) \in Seq(S) /\ Elems(Tail(q)) \subseteq Elems(q)
           /\ Elems(q) = {Head(q)} \cup Elems(Tail(q))
<1>1. /\ Len(q) \in Nat \ {0} /\ DOMAIN q = 1 .. Len(q) /\ Head(q) = q[1]
      /\ Tail(q) \in Seq(S) /\ DOMAIN Tail(q) = 1 .. Len(q) - 1
      /\ \A i \in 1 .. Len(q) - 1 : Tail(q)[i] = q[i + 1]
  BY EmptySeq, HeadTailProperties, LenProperties
<1>2. Head(q) \in Elems(q) /\ Head(q) \in S
  BY <1>1, HeadTailProperties DEF Elems
<1>3. Elems(Tail(q)) \subseteq Elems(q)
  <2>. SUFFICES ASSUME NEW i \in DOMAIN Tail(q)
                PROVE  Tail(q)[i] \in Elems(q)
    BY DEF Elems
  <2>1. i + 1 \in DOMAIN q /\ Tail(q)[i] = q[i + 1]
    BY <1>1
  <2>. QED
    BY <2>1 DEF Elems
<1>4. Elems(q) \subseteq {Head(q)} \cup Elems(Tail(q))
  <2>. SUFFICES ASSUME NEW i \in DOMAIN q, i # 1
                PROVE  q[i] \in Elems(Tail(q))
    BY <1>1 DEF Elems
  <2>1. i - 1 \in DOMAIN Tail(q) /\ Tail(q)[i - 1] = q[i]
    BY <1>1
  <2>. QED
    BY <2>1 DEF Elems
<1>. QED
  BY <1>1, <1>2, <1>3, <1>4

LEMMA EmptyQueue == Elems(<<>>) = {} /\ \A S : Alone(<<>>, S)
BY DEF Elems, Alone

LEMMA ElemsTyped ==
    ASSUME NEW S, NEW q \in Seq(S)
    PROVE  Elems(q) \subseteq S
BY ElementOfSeq, LenProperties DEF Elems

\* A message of S may join a queue that has none.
LEMMA AloneAppend ==
    ASSUME NEW T, NEW q \in Seq(T), NEW m \in T, NEW S, Alone(q, S),
           m \notin S \/ Elems(q) \cap S = {}
    PROVE  Alone(Append(q, m), S)
<1>1. /\ DOMAIN q = 1 .. Len(q) /\ Len(q) \in Nat
      /\ DOMAIN Append(q, m) = 1 .. Len(q) + 1
      /\ \A i \in 1 .. Len(q) : Append(q, m)[i] = q[i]
      /\ Append(q, m)[Len(q) + 1] = m
  OBVIOUS
<1>. SUFFICES ASSUME NEW i \in DOMAIN Append(q, m), NEW j \in DOMAIN Append(q, m),
                     Append(q, m)[i] \in S, Append(q, m)[j] \in S
              PROVE  i = j
  BY DEF Alone
<1>2. CASE i \in 1 .. Len(q) /\ j \in 1 .. Len(q)
  BY <1>1, <1>2 DEF Alone
<1>3. CASE i = Len(q) + 1 /\ j = Len(q) + 1
  BY <1>3
<1>4. ASSUME NEW k \in 1 .. Len(q), q[k] \in S, m \in S
      PROVE  FALSE
  BY <1>1, <1>4 DEF Elems
<1>. QED
  BY <1>1, <1>2, <1>3, <1>4

\* A message of S that leaves a queue leaves none behind.
LEMMA AloneTail ==
    ASSUME NEW T, NEW q \in Seq(T), q # <<>>, NEW S, Alone(q, S)
    PROVE  /\ Alone(Tail(q), S)
           /\ Head(q) \in S => Elems(Tail(q)) \cap S = {}
<1>1. /\ Len(q) \in Nat \ {0} /\ DOMAIN q = 1 .. Len(q) /\ Head(q) = q[1]
      /\ DOMAIN Tail(q) = 1 .. Len(q) - 1
      /\ \A i \in 1 .. Len(q) - 1 : Tail(q)[i] = q[i + 1]
  BY EmptySeq, HeadTailProperties, LenProperties
<1>2. Alone(Tail(q), S)
  <2>. SUFFICES ASSUME NEW i \in DOMAIN Tail(q), NEW j \in DOMAIN Tail(q),
                       Tail(q)[i] \in S, Tail(q)[j] \in S
                PROVE  i = j
    BY DEF Alone
  <2>1. i + 1 = j + 1
    BY <1>1 DEF Alone
  <2>. QED
    BY <2>1, <1>1
<1>3. ASSUME Head(q) \in S, NEW i \in DOMAIN Tail(q), Tail(q)[i] \in S
      PROVE  FALSE
  <2>1. 1 = i + 1
    BY <1>1, <1>3 DEF Alone
  <2>. QED
    BY <2>1, <1>1
<1>. QED
  BY <1>2, <1>3 DEF Elems

\* Where a queue leads when a message is added, and when one is taken.
Then(s, m) == IF m \in Changes THEN After(m.type) ELSE s

LEMMA LeadsAppend ==
    ASSUME NEW q \in Seq(Message), NEW m \in Message, NEW s, NEW t, Leads(s, q, t)
    PROVE  Leads(s, Append(q, m), Then(t, m))
<1>1. /\ DOMAIN q = 1 .. Len(q) /\ Len(q) \in Nat
      /\ DOMAIN Append(q, m) = 1 .. Len(q) + 1
      /\ \A i \in 1 .. Len(q) : Append(q, m)[i] = q[i]
      /\ Append(q, m)[Len(q) + 1] = m
  OBVIOUS
<1>2. Elems(Append(q, m)) = Elems(q) \cup {m}
  BY QueueAppend
<1>3. CASE m \in Changes
  <2>1. ASSUME NEW i \in DOMAIN Append(q, m),
               \A j \in DOMAIN Append(q, m) : j > i => Append(q, m)[j] \notin Changes
        PROVE  Append(q, m)[i] = m
    BY <1>1, <1>3, <2>1
  <2>. QED
    BY <1>2, <1>3, <2>1 DEF Leads, Then
<1>4. CASE m \notin Changes
  <2>1. ASSUME NEW i \in DOMAIN Append(q, m), Append(q, m)[i] \in Changes,
               \A j \in DOMAIN Append(q, m) : j > i => Append(q, m)[j] \notin Changes
        PROVE  t = After(Append(q, m)[i].type)
    <3>1. i \in DOMAIN q /\ q[i] = Append(q, m)[i]
      BY <1>1, <1>4, <2>1
    <3>2. \A j \in DOMAIN q : j > i => q[j] \notin Changes
      BY <1>1, <2>1
    <3>. QED
      BY <2>1, <3>1, <3>2 DEF Leads
  <2>2. Elems(Append(q, m)) \cap Changes = {} => t = s
    BY <1>2 DEF Leads
  <2>. QED
    BY <1>4, <2>1, <2>2 DEF Leads, Then
<1>. QED
  BY <1>3, <1>4

LEMMA LeadsTail ==
    ASSUME NEW q \in Seq(Message), q # <<>>, NEW s, NEW t, Leads(s, q, t)
    PROVE  Leads(Then(s, Head(q)), Tail(q), t)
<1>1. /\ Len(q) \in Nat \ {0} /\ DOMAIN q = 1 .. Len(q) /\ Head(q) = q[1]
      /\ DOMAIN Tail(q) = 1 .. Len(q) - 1
      /\ \A i \in 1 .. Len(q) - 1 : Tail(q)[i] = q[i + 1]
  BY EmptySeq, HeadTailProperties, LenProperties
<1>2. ASSUME Elems(Tail(q)) \cap Changes = {}
      PROVE  t = Then(s, Head(q))
  <2>1. CASE Head(q) \in Changes
    <3>1. ASSUME NEW j \in DOMAIN q, j > 1
          PROVE  q[j] \notin Changes
      <4>1. j - 1 \in DOMAIN Tail(q) /\ Tail(q)[j - 1] = q[j]
        BY <1>1, <3>1
      <4>. QED
        BY <1>2, <4>1 DEF Elems
    <3>2. 1 \in DOMAIN q
      BY <1>1
    <3>. QED
      BY <1>1, <2>1, <3>1, <3>2 DEF Leads, Then
  <2>2. CASE Head(q) \notin Changes
    <3>1. Elems(q) \cap Changes = {}
      BY <1>2, <2>2, QueueTail
    <3>. QED
      BY <2>2, <3>1 DEF Leads, Then
  <2>. QED
    BY <2>1, <2>2
<1>3. ASSUME NEW i \in DOMAIN Tail(q), Tail(q)[i] \in Changes,
             \A j \in DOMAIN Tail(q) : j > i => Tail(q)[j] \notin Changes
      PROVE  t = After(Tail(q)[i].type)
  <2>1. i + 1 \in DOMAIN q /\ q[i + 1] = Tail(q)[i]
    BY <1>1
  <2>2. ASSUME NEW j \in DOMAIN q, j > i + 1
        PROVE  q[j] \notin Changes
    <3>1. j - 1 \in DOMAIN Tail(q) /\ Tail(q)[j - 1] = q[j] /\ j - 1 > i
      BY <1>1, <2>2
    <3>. QED
      BY <1>3, <3>1
  <2>. QED
    BY <1>3, <2>1, <2>2 DEF Leads
<1>. QED
  BY <1>2, <1>3 DEF Leads
--------------------------------------------------------------------------------
(* What the client does with a message, an answer or a failure *)

LEMMA Transitions ==
    ASSUME NEW from, NEW to
    PROVE  /\ CanTransition(from, to) <=>
                 \/ from = "starting" /\ to \in {"ready", "failed"}
                 \/ from = "ready" /\ to \in {"measuring", "stopping", "failed"}
                 \/ from = "measuring" /\ to \in {"ready", "stopping", "failed"}
                 \/ from = "stopping" /\ to \in {"stopped", "failed"}
           /\ Moved(from, to) = IF CanTransition(from, to) THEN to ELSE from
<1>1. CanTransition(from, to) <=>
                 \/ from = "starting" /\ to \in {"ready", "failed"}
                 \/ from = "ready" /\ to \in {"measuring", "stopping", "failed"}
                 \/ from = "measuring" /\ to \in {"ready", "stopping", "failed"}
                 \/ from = "stopping" /\ to \in {"stopped", "failed"}
  BY DEF CanTransition
<1>. QED
  BY <1>1 DEF Moved

LEMMA MovedTyped ==
    ASSUME NEW s \in {"none"} \cup TargetState, NEW to \in TargetState
    PROVE  Moved(s, to) \in {"none"} \cup TargetState
BY Transitions

LEMMA FailFields ==
    ASSUME NEW c \in Client
    PROVE  /\ Fail(c) \in Client /\ Fail(c).failure
           /\ Fail(c).nextId = c.nextId /\ Fail(c).settled = c.settled
           /\ Fail(c).session = IF c.failure THEN c.session ELSE Moved(c.session, "failed")
<1>1. CASE c.failure
  BY <1>1 DEF Fail
<1>2. CASE ~c.failure
  <2>1. PICK s : s = Moved(c.session, "failed")
    OBVIOUS
  <2>2. s \in {"none"} \cup TargetState
    BY <2>1, MovedTyped DEF Client, TargetState
  <2>3. PICK r \in BOOLEAN : r = RejectsStart(c)
    BY DEF RejectsStart
  <2>4. PICK b \in BOOLEAN : b = (c.closed \/ RejectsStart(c) \/ \E p \in c.pending : p.type = "target:stop")
    OBVIOUS
  <2>5. Fail(c) = [c EXCEPT !.failure = TRUE, !.session = s, !.pending = {},
                            !.start = IF r THEN "failed" ELSE c.start, !.closed = b]
    BY <1>2, <2>1, <2>3, <2>4 DEF Fail
  <2>. QED
    BY <1>2, <2>1, <2>2, <2>5 DEF Client
<1>. QED
  BY <1>1, <1>2

\* A message either joins the answers whose continuations are to run, or fails
\* the client.
LEMMA DeliveredFields ==
    ASSUME NEW c \in Client, NEW m \in Message
    PROVE  /\ Delivered(c, m) \in Client /\ Delivered(c, m).nextId = c.nextId
           /\ \/ Delivered(c, m) = Fail(c)
              \/ /\ Delivered(c, m).settled = Append(c.settled, m)
                 /\ Delivered(c, m).session = c.session
                 /\ Delivered(c, m).failure = c.failure
                 /\ m.id = 0 => m.type = "agent:ready"
<1>1. Append(c.settled, m) \in Seq(Message)
  BY QueueAppend DEF Client
<1>2. PICK q \in Seq(Message) : q = Append(c.settled, m)
  BY <1>1
<1>3. CASE Delivered(c, m) = Fail(c)
  BY <1>3, FailFields
<1>4. CASE Delivered(c, m) = [c EXCEPT !.settled = q] /\ (m.id = 0 => m.type = "agent:ready")
  BY <1>2, <1>4 DEF Client
<1>5. ASSUME NEW p \in SUBSET Request, Delivered(c, m) = [c EXCEPT !.pending = p, !.settled = q], m.id # 0
      PROVE  /\ Delivered(c, m) \in Client /\ Delivered(c, m).nextId = c.nextId
             /\ Delivered(c, m).settled = q
             /\ Delivered(c, m).session = c.session
             /\ Delivered(c, m).failure = c.failure
  BY <1>5 DEF Client
<1>6. c.pending \ {p \in c.pending : p.id = m.id} \in SUBSET Request
  BY DEF Client
<1>7. \/ Delivered(c, m) = Fail(c)
      \/ Delivered(c, m) = [c EXCEPT !.settled = q] /\ (m.id = 0 => m.type = "agent:ready")
      \/ \E p \in SUBSET Request :
            Delivered(c, m) = [c EXCEPT !.pending = p, !.settled = q] /\ m.id # 0
  BY <1>2, <1>6 DEF Delivered
<1>. QED
  BY <1>2, <1>3, <1>4, <1>5, <1>7

\* The state of a session in which an answer has come, f if it has failed.
Applied(s, f, type, ok) ==
    CASE type = "target:start" /\ ok -> IF f THEN "failed" ELSE "ready"
      [] type = "metrics:start" /\ ok -> Moved(s, "measuring")
      [] type = "metrics:stop" /\ ok -> Moved(s, "ready")
      [] type = "target:stop" -> Moved(s, IF ok THEN "stopped" ELSE "failed")
      [] OTHER -> s

\* An answer moves the session, and changes nothing else the invariant is about.
LEMMA SettledFields ==
    ASSUME NEW c \in Client, NEW type, NEW ok \in BOOLEAN
    PROVE  /\ Settled(c, type, ok) \in Client
           /\ Settled(c, type, ok).nextId = c.nextId
           /\ Settled(c, type, ok).settled = c.settled
           /\ Settled(c, type, ok).failure = c.failure
           /\ Settled(c, type, ok).session = Applied(c.session, c.failure, type, ok)
<1>1. CASE type = "target:start" /\ ok
  <2>1. PICK s \in TargetState : s = IF c.failure THEN "failed" ELSE "ready"
    BY DEF TargetState
  <2>2. Settled(c, type, ok) = [c EXCEPT !.start = "up", !.session = s]
    BY <1>1, <2>1 DEF Settled
  <2>. QED
    BY <1>1, <2>1, <2>2 DEF Client, Applied
<1>2. CASE type = "metrics:start" /\ ok
  <2>1. PICK s \in {"none"} \cup TargetState : s = Moved(c.session, "measuring")
    BY MovedTyped DEF Client, TargetState
  <2>2. Settled(c, type, ok) = [c EXCEPT !.session = s]
    BY <1>2, <2>1 DEF Settled
  <2>. QED
    BY <1>2, <2>1, <2>2 DEF Client, Applied
<1>3. CASE type = "metrics:stop" /\ ok
  <2>1. PICK s \in {"none"} \cup TargetState : s = Moved(c.session, "ready")
    BY MovedTyped DEF Client, TargetState
  <2>2. Settled(c, type, ok) = [c EXCEPT !.session = s]
    BY <1>3, <2>1 DEF Settled
  <2>. QED
    BY <1>3, <2>1, <2>2 DEF Client, Applied
<1>4. CASE type = "target:stop"
  <2>1. PICK s \in {"none"} \cup TargetState : s = Moved(c.session, IF ok THEN "stopped" ELSE "failed")
    BY MovedTyped DEF Client, TargetState
  <2>2. Settled(c, type, ok) = [[c EXCEPT !.session = s] EXCEPT !.closed = TRUE]
    BY <1>4, <2>1 DEF Settled, Close
  <2>3. [c EXCEPT !.session = s] \in Client
    BY <2>1 DEF Client
  <2>. QED
    BY <1>4, <2>1, <2>2 DEF Client, Applied
<1>5. CASE ~((type \in {"target:start", "metrics:start", "metrics:stop"} /\ ok) \/ type = "target:stop")
  <2>1. \/ Settled(c, type, ok) = c
        \/ Settled(c, type, ok) = [[c EXCEPT !.start = "failed"] EXCEPT !.closed = TRUE]
    BY <1>5 DEF Settled, Close
  <2>. QED
    BY <1>5, <2>1 DEF Client, Applied
<1>. QED
  BY <1>1, <1>2, <1>3, <1>4, <1>5

LEMMA CloseFields ==
    ASSUME NEW c \in Client
    PROVE  /\ Close(c) \in Client
           /\ Close(c).nextId = c.nextId /\ Close(c).settled = c.settled
           /\ Close(c).failure = c.failure /\ Close(c).session = c.session
BY DEF Close, Client

\* A request goes to the agent with the next id.
LEMMA SendFields ==
    ASSUME NEW c \in Client, c.nextId # 0, NEW type \in RequestType, Send(c, type)
    PROVE  /\ client' \in Client /\ client'.nextId = c.nextId + 1
           /\ client'.settled = c.settled /\ client'.session = c.session
           /\ client'.failure = c.failure
           /\ [id |-> c.nextId, type |-> type] \in Request
           /\ toAgent' = Append(toAgent, [id |-> c.nextId, type |-> type])
           /\ UNCHANGED <<agent, target, toClient, ipcIn, ipcOut>>
<1>1. [id |-> c.nextId, type |-> type] \in Request
  BY MaxRequestsAssumption DEF Send, Request, Client
<1>2. PICK r \in Request : r = [id |-> c.nextId, type |-> type]
  BY <1>1
<1>3. client' = [c EXCEPT !.pending = @ \cup {r}, !.nextId = @ + 1]
  BY <1>2 DEF Send
<1>4. c.pending \cup {r} \in SUBSET Request /\ c.nextId + 1 \in Nat
  BY DEF Client
<1>5. PICK p \in SUBSET Request, n \in Nat : p = c.pending \cup {r} /\ n = c.nextId + 1
  BY <1>4
<1>6. client' = [c EXCEPT !.pending = p, !.nextId = n]
  BY <1>3, <1>5
<1>7. /\ client' \in Client /\ client'.nextId = n
      /\ client'.settled = c.settled /\ client'.session = c.session
      /\ client'.failure = c.failure
  BY <1>6 DEF Client
<1>. QED
  BY <1>1, <1>5, <1>7 DEF Send

\* A continuation sends target:start, or applies its answer to the session.
LEMMA ContinueFields ==
    ASSUME Types, Continue
    PROVE  /\ client.settled # <<>> /\ client'.settled = Tail(client.settled)
           /\ client' \in Client /\ client'.nextId # 0 /\ client'.failure = client.failure
           /\ UNCHANGED <<agent, target, toClient, ipcIn, ipcOut>>
           /\ \/ /\ Head(client.settled).type = "agent:ready" /\ client'.session = client.session
                 /\ client'.nextId = client.nextId + 1
                 /\ [id |-> client.nextId, type |-> "target:start"] \in Request
                 /\ toAgent' = Append(toAgent, [id |-> client.nextId, type |-> "target:start"])
              \/ /\ client'.session = Applied(client.session, client.failure,
                                              Head(client.settled).type, Head(client.settled).ok)
                 /\ client'.nextId = client.nextId
                 /\ toAgent' = toAgent
<1>. DEFINE m == Head(client.settled)
<1>. DEFINE c == [client EXCEPT !.settled = Tail(@)]
<1>1. client \in Client /\ client.settled \in Seq(Message) /\ client.settled # <<>>
  BY DEF Types, Client, Continue
<1>2. m \in Message /\ Tail(client.settled) \in Seq(Message)
  BY <1>1, QueueTail
<1>3. /\ c \in Client /\ c.nextId = client.nextId /\ c.settled = Tail(client.settled)
      /\ c.failure = client.failure /\ c.session = client.session /\ c.start = client.start
  BY <1>1, <1>2 DEF Client
<1>. HIDE DEF c
<1>4. client.nextId # 0 /\ client.nextId \in Nat
  BY <1>1 DEF Types, Client
<1>5. CASE m.type = "agent:ready" /\ c.start = "agent" /\ ~c.failure
  <2>1. Send([c EXCEPT !.start = "target"], "target:start")
    BY <1>5 DEF Continue, c
  <2>2. PICK d : d = [c EXCEPT !.start = "target"]
    OBVIOUS
  <2>3. /\ d \in Client /\ d.nextId = client.nextId /\ d.settled = Tail(client.settled)
        /\ d.failure = client.failure /\ d.session = client.session
    BY <1>3, <2>2 DEF Client
  <2>4. "target:start" \in RequestType /\ Send(d, "target:start")
    BY <2>1, <2>2 DEF RequestType
  <2>. QED
    BY <1>1, <1>4, <1>5, <2>3, <2>4, SendFields
<1>6. CASE ~(m.type = "agent:ready" /\ c.start = "agent" /\ ~c.failure)
  <2>1. /\ client' = Settled(c, m.type, m.ok)
        /\ UNCHANGED <<agent, target, toAgent, toClient, ipcIn, ipcOut>>
    BY <1>6 DEF Continue, c
  <2>2. m.ok \in BOOLEAN
    BY <1>2 DEF Message
  <2>. QED
    BY <1>1, <1>3, <1>4, <2>1, <2>2, SettledFields
<1>. QED
  BY <1>5, <1>6

LEMMA TimeoutFields ==
    ASSUME Types, NEW p \in client.pending, RequestTimeout(p)
    PROVE  /\ client' \in Client /\ client'.nextId = client.nextId
           /\ client'.settled = client.settled /\ client'.failure = client.failure
           /\ p.type \in RequestType
           /\ client'.session = Applied(client.session, client.failure, p.type, FALSE)
           /\ UNCHANGED <<agent, target, toAgent, toClient, ipcIn, ipcOut>>
<1>. DEFINE c == [client EXCEPT !.pending = @ \ {p}]
<1>1. /\ c \in Client /\ c.nextId = client.nextId /\ c.settled = client.settled
      /\ c.failure = client.failure /\ c.session = client.session
  BY DEF Types, Client
<1>2. client' = Settled(c, p.type, FALSE)
  BY DEF RequestTimeout
<1>3. p.type \in RequestType
  BY DEF Types, Client, Request
<1>. HIDE DEF c
<1>4. PICK ok \in BOOLEAN : ok = FALSE
  OBVIOUS
<1>5. client' = Settled(c, p.type, ok)
  BY <1>2, <1>4
<1>6. UNCHANGED <<agent, target, toAgent, toClient, ipcIn, ipcOut>>
  BY DEF RequestTimeout
<1>7. /\ client' \in Client /\ client'.nextId = client.nextId
      /\ client'.settled = client.settled /\ client'.failure = client.failure
      /\ client'.session = Applied(client.session, client.failure, p.type, ok)
  BY <1>1, <1>5, SettledFields
<1>. QED
  BY <1>3, <1>4, <1>6, <1>7

\* The benchmark asks for something, and leaves the session in state.
Asks(type, state) ==
    /\ client.session \in {"ready", "measuring"}
    /\ client'.nextId = client.nextId + 1 /\ client'.session = state
    /\ \E r \in Request : r.id = client.nextId /\ r.type = type /\ toAgent' = Append(toAgent, r)

\* The calls of the benchmark: a refused one changes nothing.
LEMMA CallFields ==
    ASSUME Types, FailedInv, StartMetrics \/ StopMetrics \/ StopSession
    PROVE  /\ client' \in Client /\ client'.nextId # 0
           /\ client'.settled = client.settled /\ client'.failure = client.failure
           /\ UNCHANGED <<agent, target, toClient, ipcIn, ipcOut>>
           /\ \/ /\ UNCHANGED toAgent
                 /\ client'.nextId = client.nextId /\ client'.session = client.session
              \/ \E type \in Metrics : Asks(type, client.session)
              \/ Asks("target:stop", "stopping")
<1>1. client \in Client /\ client.nextId # 0 /\ client.nextId \in Nat
  BY DEF Types, Client
<1>2. ASSUME NEW type \in RequestType, NEW c \in Client, Send(c, type),
             c.nextId = client.nextId, c.settled = client.settled, c.failure = client.failure,
             client.session \in {"ready", "measuring"}
      PROVE  /\ client' \in Client /\ client'.nextId # 0
             /\ client'.settled = client.settled /\ client'.failure = client.failure
             /\ UNCHANGED <<agent, target, toClient, ipcIn, ipcOut>>
             /\ Asks(type, c.session)
  <2>1. PICK r \in Request : r = [id |-> client.nextId, type |-> type]
    BY <1>1, <1>2, SendFields
  <2>2. r.id = client.nextId /\ r.type = type
    BY <2>1
  <2>3. client'.nextId = client.nextId + 1 /\ client'.session = c.session
        /\ toAgent' = Append(toAgent, r)
    BY <1>1, <1>2, <2>1, SendFields
  <2>4. Asks(type, c.session)
    BY <1>2, <2>2, <2>3 DEF Asks
  <2>5. client.nextId + 1 # 0
    BY <1>1
  <2>6. /\ client' \in Client
        /\ client'.settled = client.settled /\ client'.failure = client.failure
        /\ UNCHANGED <<agent, target, toClient, ipcIn, ipcOut>>
    BY <1>1, <1>2, SendFields
  <2>. QED
    BY <2>3, <2>4, <2>5, <2>6
<1>3. CASE StartMetrics
  <2>1. Send(client, "metrics:start") /\ client.session \in {"ready", "measuring"}
    BY <1>3, Transitions DEF StartMetrics
  <2>2. "metrics:start" \in RequestType /\ "metrics:start" \in Metrics
    BY DEF RequestType, Metrics
  <2>. QED
    BY <1>1, <1>2, <2>1, <2>2
<1>4. CASE StopMetrics
  <2>1. Send(client, "metrics:stop") /\ client.session \in {"ready", "measuring"}
    BY <1>4, Transitions DEF StopMetrics, FailedInv
  <2>2. "metrics:stop" \in RequestType /\ "metrics:stop" \in Metrics
    BY DEF RequestType, Metrics
  <2>. QED
    BY <1>1, <1>2, <2>1, <2>2
<1>5. CASE StopSession
  <2>1. CASE CanTransition(client.session, "stopping")
                /\ Send([client EXCEPT !.session = "stopping"], "target:stop")
    <3>1. client.session \in {"ready", "measuring"}
      BY <2>1, Transitions
    <3>2. PICK c : c = [client EXCEPT !.session = "stopping"]
      OBVIOUS
    <3>3. /\ c \in Client /\ c.nextId = client.nextId /\ c.settled = client.settled
          /\ c.failure = client.failure /\ c.session = "stopping"
      BY <1>1, <3>2 DEF Client, TargetState
    <3>4. "target:stop" \in RequestType /\ Send(c, "target:stop")
      BY <2>1, <3>2 DEF RequestType
    <3>. QED
      BY <1>2, <3>1, <3>3, <3>4
  <2>2. CASE client' = Close(client)
                /\ UNCHANGED <<agent, target, toAgent, toClient, ipcIn, ipcOut>>
    BY <1>1, <2>2, CloseFields
  <2>. QED
    BY <1>5, <2>1, <2>2 DEF StopSession
<1>. QED
  BY <1>3, <1>4, <1>5

\* The waits for the agent end in a failure.
LEMMA WaitFields ==
    ASSUME Types, AgentStartupTimeout \/ TransportExit
    PROVE  /\ client' \in Client /\ client'.nextId = client.nextId
           /\ client'.settled = client.settled
           /\ \/ client'.session = client.session /\ client'.failure = client.failure
              \/ client' = Fail(client)
           /\ UNCHANGED <<agent, target, toAgent, toClient, ipcIn, ipcOut>>
<1>1. CASE AgentStartupTimeout
  <2>1. PICK c : c = [client EXCEPT !.start = "failed"]
    OBVIOUS
  <2>2. /\ c \in Client /\ c.nextId = client.nextId /\ c.settled = client.settled
        /\ c.failure = client.failure /\ c.session = client.session
    BY <2>1 DEF Types, Client
  <2>3. client' = Close(c)
    BY <1>1, <2>1 DEF AgentStartupTimeout
  <2>. QED
    BY <1>1, <2>2, <2>3, CloseFields DEF AgentStartupTimeout
<1>2. CASE TransportExit
  BY <1>2, FailFields DEF TransportExit, Types
<1>. QED
  BY <1>1, <1>2
--------------------------------------------------------------------------------
(* The variables keep their types *)

LEMMA RequestFields ==
    ASSUME NEW r \in Request
    PROVE  /\ r.id \in 1 .. MaxRequests /\ r.id \in Nat /\ r.id # 0 /\ r.type \in RequestType
           /\ r.type \notin EventType
BY MaxRequestsAssumption DEF Request, RequestType, EventType

LEMMA MessageFields ==
    ASSUME NEW m \in Message
    PROVE  m.id \in Nat /\ m.type \in RequestType \cup EventType /\ m.ok \in BOOLEAN
BY MaxRequestsAssumption DEF Message

LEMMA EventFields ==
    ASSUME NEW type \in EventType \cup {"target:start"}, NEW ok \in BOOLEAN
    PROVE  /\ Event(type, ok) \in Message /\ Event(type, ok).id = 0
           /\ Event(type, ok).type = type /\ Event(type, ok).ok = ok
BY MaxRequestsAssumption DEF Event, Message, EventType, RequestType

LEMMA AnswerFields ==
    ASSUME NEW c, c.id \in 1 .. MaxRequests, c.type \in RequestType, NEW ok \in BOOLEAN
    PROVE  /\ Answer(c, ok) \in Message /\ Answer(c, ok).id = c.id /\ Answer(c, ok).id # 0
           /\ Answer(c, ok).type = c.type /\ Answer(c, ok).ok = ok
BY MaxRequestsAssumption DEF Answer, Message

LEMMA NoCommandFields ==
    NoCommand.id = 0 /\ NoCommand.type = "none" /\ NoCommand.stage = "none"
BY DEF NoCommand

\* The answer of the command at hand.
LEMMA RespondFields ==
    ASSUME Types, StageInv, agent.command.stage # "none", NEW a \in Agent, NEW ok \in BOOLEAN,
           Respond(a, ok)
    PROVE  /\ agent' = [a EXCEPT !.command = NoCommand] /\ agent' \in Agent
           /\ agent'.command = NoCommand /\ agent'.machine = a.machine
           /\ agent'.lost = a.lost /\ agent'.expected = a.expected
           /\ agent'.process = a.process
           /\ Answer(agent.command, ok) \in Message
           /\ toClient' = Append(toClient, Answer(agent.command, ok))
           /\ toClient' \in Seq(Message)
<1>1. agent.command.id \in 1 .. MaxRequests /\ agent.command.type \in RequestType
  BY DEF StageInv
<1>2. Answer(agent.command, ok) \in Message
  BY <1>1, AnswerFields
<1>3. agent' = [a EXCEPT !.command = NoCommand]
  BY DEF Respond
<1>4. NoCommand \in [id : Nat, type : {"none"} \cup RequestType,
                stage : {"none", "port", "boot", "target", "terminate", "cleanup"}]
  BY DEF NoCommand
<1>5. /\ agent' \in Agent /\ agent'.command = NoCommand /\ agent'.machine = a.machine
      /\ agent'.lost = a.lost /\ agent'.expected = a.expected
      /\ agent'.process = a.process
  BY <1>3, <1>4 DEF Agent
<1>6. toClient' = Append(toClient, Answer(agent.command, ok))
  BY DEF Respond
<1>7. toClient' \in Seq(Message)
  BY <1>2, <1>6, QueueAppend DEF Types
<1>. QED
  BY <1>2, <1>3, <1>5, <1>6, <1>7

\* TakeCommand: the command is refused, relayed to the target, or begun.
LEMMA TakeFields ==
    ASSUME Types, TakeCommand
    PROVE  LET r == Head(toAgent)
               begun(stage) == [id |-> r.id, type |-> r.type, stage |-> stage]
           IN  /\ toAgent # <<>> /\ toAgent' = Tail(toAgent) /\ r \in Request
               /\ r \in Elems(toAgent) /\ Elems(toAgent') \subseteq Elems(toAgent)
               /\ toAgent' \in Seq(Request)
               /\ agent.process = "up" /\ agent.command = NoCommand
               /\ UNCHANGED <<client, target, ipcOut>>
               /\ agent' \in Agent /\ agent'.lost = agent.lost /\ agent'.process = "up"
               /\ \/ /\ UNCHANGED <<agent, ipcIn>> /\ Answer(r, FALSE) \in Message
                     /\ toClient' = Append(toClient, Answer(r, FALSE))
                  \/ /\ r.type \in Metrics /\ ~Refuses(r) /\ target.process # "exited"
                     /\ agent'.command = begun("target") /\ agent'.machine = agent.machine
                     /\ agent'.expected = agent.expected
                     /\ ipcIn' = Append(ipcIn, r) /\ UNCHANGED toClient
                  \/ /\ r.type = "target:start" /\ agent.machine = "none"
                     /\ agent'.command = begun("port") /\ agent'.machine = "starting"
                     /\ agent'.expected = agent.expected /\ UNCHANGED <<toClient, ipcIn>>
                  \/ /\ r.type = "target:stop" /\ ~Refuses(r)
                     /\ agent'.command = begun("terminate") /\ agent'.machine = "stopping"
                     /\ UNCHANGED <<toClient, ipcIn>>
<1>. DEFINE r == Head(toAgent)
<1>. DEFINE begun(stage) == [id |-> r.id, type |-> r.type, stage |-> stage]
<1>1. /\ toAgent # <<>> /\ toAgent' = Tail(toAgent) /\ agent.process = "up"
      /\ agent.command = NoCommand /\ UNCHANGED <<client, target, ipcOut>>
  BY DEF TakeCommand
<1>2. /\ r \in Request /\ r \in Elems(toAgent) /\ toAgent' \in Seq(Request)
      /\ Elems(toAgent') \subseteq Elems(toAgent)
  BY <1>1, QueueTail DEF Types
<1>3. r.id \in 1 .. MaxRequests /\ r.id \in Nat /\ r.type \in RequestType
  BY <1>2, RequestFields
<1>4. \A stage \in {"port", "target", "terminate"} : begun(stage) \in
         [id : Nat, type : {"none"} \cup RequestType,
          stage : {"none", "port", "boot", "target", "terminate", "cleanup"}]
  BY <1>3
<1>5. agent \in Agent
  BY DEF Types
<1>a. CASE UNCHANGED <<agent, ipcIn>> /\ toClient' = Append(toClient, Answer(r, FALSE))
  <2>1. PICK ok \in BOOLEAN : ok = FALSE
    OBVIOUS
  <2>2. Answer(r, ok) \in Message
    BY <1>3, AnswerFields
  <2>. QED
    BY <1>1, <1>2, <1>5, <1>a, <2>1, <2>2
<1>b. CASE /\ r.type \in Metrics /\ ~Refuses(r) /\ target.process # "exited"
           /\ agent' = [agent EXCEPT !.command = begun("target")]
           /\ ipcIn' = Append(ipcIn, r) /\ UNCHANGED toClient
  <2>1. PICK c : c = begun("target")
    OBVIOUS
  <2>2. c \in [id : Nat, type : {"none"} \cup RequestType,
          stage : {"none", "port", "boot", "target", "terminate", "cleanup"}]
    BY <1>4, <2>1
  <2>3. agent' = [agent EXCEPT !.command = c]
    BY <1>b, <2>1
  <2>4. /\ agent' \in Agent /\ agent'.lost = agent.lost /\ agent'.process = agent.process
        /\ agent'.command = c /\ agent'.machine = agent.machine
        /\ agent'.expected = agent.expected
    BY <1>5, <2>2, <2>3 DEF Agent
  <2>. QED
    BY <1>1, <1>2, <1>b, <2>1, <2>4
<1>c. CASE /\ r.type = "target:start" /\ agent.machine = "none"
           /\ agent' = [agent EXCEPT !.machine = "starting", !.command = begun("port")]
           /\ UNCHANGED <<toClient, ipcIn>>
  <2>1. PICK c : c = begun("port")
    OBVIOUS
  <2>2. c \in [id : Nat, type : {"none"} \cup RequestType,
          stage : {"none", "port", "boot", "target", "terminate", "cleanup"}]
    BY <1>4, <2>1
  <2>3. agent' = [agent EXCEPT !.machine = "starting", !.command = c]
    BY <1>c, <2>1
  <2>4. /\ agent' \in Agent /\ agent'.lost = agent.lost /\ agent'.process = agent.process
        /\ agent'.command = c /\ agent'.machine = "starting"
        /\ agent'.expected = agent.expected
    BY <1>5, <2>2, <2>3 DEF Agent, TargetState
  <2>. QED
    BY <1>1, <1>2, <1>c, <2>1, <2>4
<1>d. CASE /\ r.type = "target:stop" /\ ~Refuses(r)
           /\ agent' = [agent EXCEPT !.machine = "stopping", !.expected = TRUE,
                                     !.command = begun("terminate")]
           /\ UNCHANGED <<toClient, ipcIn>>
  <2>1. PICK c : c = begun("terminate")
    OBVIOUS
  <2>2. c \in [id : Nat, type : {"none"} \cup RequestType,
          stage : {"none", "port", "boot", "target", "terminate", "cleanup"}]
    BY <1>4, <2>1
  <2>3. agent' = [agent EXCEPT !.machine = "stopping", !.expected = TRUE, !.command = c]
    BY <1>d, <2>1
  <2>4. /\ agent' \in Agent /\ agent'.lost = agent.lost /\ agent'.process = agent.process
        /\ agent'.command = c /\ agent'.machine = "stopping"
    BY <1>5, <2>2, <2>3 DEF Agent, TargetState
  <2>. QED
    BY <1>1, <1>2, <1>d, <2>1, <2>4
<1>6. r.type = "target:start" /\ ~Refuses(r) => agent.machine = "none"
  BY DEF Refuses
<1>7. r.type \in Metrics \cup {"target:start", "target:stop"}
  BY <1>3 DEF RequestType, Metrics
<1>. QED
  BY <1>6, <1>7, <1>a, <1>b, <1>c, <1>d DEF TakeCommand, Metrics

CommandType ==
    [id : Nat, type : {"none"} \cup RequestType,
     stage : {"none", "port", "boot", "target", "terminate", "cleanup"}]

LEMMA ForkFields ==
    ASSUME Types, StageInv, Fork
    PROVE  /\ agent.command.stage = "port" /\ agent.command.type = "target:start"
           /\ agent.machine = "starting" /\ target.process = "none"
           /\ UNCHANGED <<client, toAgent, ipcIn, ipcOut>>
           /\ agent' \in Agent /\ agent'.lost = agent.lost /\ agent'.expected = agent.expected
           /\ target' \in Target /\ target'.measuring = target.measuring
           /\ \/ /\ target'.process = "booting" /\ agent'.machine = "starting"
                 /\ agent'.command.stage = "boot" /\ agent'.command.id = agent.command.id
                 /\ agent'.command.type = "target:start"
                 /\ UNCHANGED toClient
              \/ /\ target' = target /\ agent'.machine = "failed" /\ agent'.command = NoCommand
                 /\ Answer(agent.command, FALSE) \in Message
                 /\ toClient' = Append(toClient, Answer(agent.command, FALSE))
<1>1. /\ agent.command.stage = "port" /\ agent.command.type = "target:start"
      /\ agent.machine = "starting" /\ target.process = "none"
      /\ UNCHANGED <<client, toAgent, ipcIn, ipcOut>> /\ agent \in Agent /\ target \in Target
  BY DEF Fork, StageInv, Types
<1>2. CASE /\ target' = [target EXCEPT !.process = "booting"]
           /\ agent' = [agent EXCEPT !.command.stage = "boot"]
           /\ UNCHANGED toClient
  <2>1. PICK c \in CommandType : c = [agent.command EXCEPT !.stage = "boot"]
    BY <1>1 DEF Agent, CommandType
  <2>2. c.stage = "boot" /\ c.id = agent.command.id /\ c.type = agent.command.type
    BY <1>1, <2>1 DEF Agent
  <2>3. agent' = [agent EXCEPT !.command = c]
    BY <1>2, <2>1
  <2>4. /\ agent' \in Agent /\ agent'.command = c /\ agent'.machine = agent.machine
        /\ agent'.lost = agent.lost /\ agent'.expected = agent.expected
    BY <1>1, <2>3 DEF Agent, CommandType
  <2>5. target' \in Target /\ target'.measuring = target.measuring /\ target'.process = "booting"
    BY <1>1, <1>2 DEF Target
  <2>. QED
    BY <1>1, <1>2, <2>2, <2>4, <2>5
<1>3. CASE Respond([agent EXCEPT !.machine = "failed"], FALSE) /\ UNCHANGED target
  <2>1. PICK a : a = [agent EXCEPT !.machine = "failed"]
    OBVIOUS
  <2>2. /\ a \in Agent /\ a.machine = "failed" /\ a.lost = agent.lost /\ a.expected = agent.expected
    BY <1>1, <2>1 DEF Agent, TargetState
  <2>3. PICK ok \in BOOLEAN : ok = FALSE
    OBVIOUS
  <2>4. Respond(a, ok)
    BY <1>3, <2>1, <2>3
  <2>. QED
    BY <1>1, <1>3, <2>2, <2>3, <2>4, RespondFields
<1>. QED
  BY <1>2, <1>3 DEF Fork

\* HearTarget: the target is ready, it has answered the command at hand, or the
\* message is nobody's.
LEMMA HearFields ==
    ASSUME Types, StageInv, IdsInv, HearTarget
    PROVE  LET m == Head(ipcOut)
               c == agent.command
               answers(ok) == /\ agent'.command = NoCommand
                              /\ Answer(c, ok) \in Message
                              /\ toClient' = Append(toClient, Answer(c, ok))
           IN  /\ ipcOut # <<>> /\ ipcOut' = Tail(ipcOut) /\ m \in Elems(ipcOut)
               /\ ipcOut' \in Seq(Message) /\ Elems(ipcOut') \subseteq Elems(ipcOut)
               /\ UNCHANGED <<client, target, toAgent, ipcIn>>
               /\ agent' \in Agent /\ agent'.lost = agent.lost /\ agent'.expected = agent.expected
               /\ \/ /\ UNCHANGED <<agent, toClient>>
                     /\ ~(c.stage = "target" /\ m.id = c.id)
                  \/ /\ c.stage = "boot" /\ c.type = "target:start" /\ agent.machine = "starting"
                     /\ agent'.machine = "ready" /\ answers(TRUE)
                  \/ /\ c.stage = "target" /\ m.id = c.id /\ m.type = c.type /\ m.ok
                     /\ agent'.machine = After(c.type) /\ answers(TRUE)
                  \/ /\ c.stage = "target" /\ m.id = c.id /\ ~m.ok
                     /\ agent'.machine = agent.machine /\ answers(FALSE)
<1>. DEFINE m == Head(ipcOut)
<1>. DEFINE c == agent.command
<1>. DEFINE to == IF m.type = "metrics:start" THEN "measuring" ELSE "ready"
<1>1. /\ ipcOut # <<>> /\ ipcOut' = Tail(ipcOut) /\ m \in Elems(ipcOut) /\ m \in Message
      /\ ipcOut' \in Seq(Message) /\ Elems(ipcOut') \subseteq Elems(ipcOut)
      /\ UNCHANGED <<client, target, toAgent, ipcIn>> /\ agent \in Agent
  BY QueueTail DEF HearTarget, Types
<1>2. c.stage = "target" /\ m.id = c.id => m.type = c.type
  <2>. SUFFICES ASSUME c.stage = "target", m.id = c.id
                PROVE  m.type = c.type
    OBVIOUS
  <2>1. PICK f : Named(f)
    BY DEF IdsInv
  <2>2. c.id # 0
    BY MaxRequestsAssumption DEF StageInv
  <2>. QED
    BY <1>1, <2>1, <2>2 DEF Named
<1>3. ASSUME c.stage # "none", NEW s \in TargetState, NEW ok \in BOOLEAN,
             Respond([agent EXCEPT !.machine = s], ok)
      PROVE  /\ agent' \in Agent /\ agent'.lost = agent.lost /\ agent'.expected = agent.expected
             /\ agent'.machine = s /\ agent'.command = NoCommand
             /\ Answer(c, ok) \in Message /\ toClient' = Append(toClient, Answer(c, ok))
  <2>1. PICK a : a = [agent EXCEPT !.machine = s]
    OBVIOUS
  <2>2. /\ a \in Agent /\ a.machine = s /\ a.lost = agent.lost /\ a.expected = agent.expected
    BY <1>1, <2>1 DEF Agent
  <2>3. Respond(a, ok)
    BY <1>3, <2>1
  <2>. QED
    BY <1>3, <2>2, <2>3, RespondFields
<1>4. CASE /\ \/ m.type = "target:start" /\ c.stage = "boot"
              \/ m.id = c.id /\ c.stage = "target" /\ m.ok
           /\ Respond([agent EXCEPT !.machine = Moved(@, to)], CanTransition(agent.machine, to))
  <2>1. PICK s \in TargetState, ok \in BOOLEAN :
           /\ s = Moved(agent.machine, to) /\ ok = CanTransition(agent.machine, to)
           /\ s = to /\ ok
    <3>1. to \in TargetState
      BY DEF TargetState
    <3>2. CanTransition(agent.machine, to)
      <4>1. CASE m.type = "target:start" /\ c.stage = "boot"
        BY <4>1, Transitions DEF StageInv
      <4>2. CASE m.id = c.id /\ c.stage = "target" /\ m.ok
        BY <1>2, <4>2, Transitions DEF StageInv, Metrics
      <4>. QED
        BY <1>4, <4>1, <4>2
    <3>3. Moved(agent.machine, to) = to
      BY <3>2, Transitions
    <3>4. CanTransition(agent.machine, to) = TRUE
      BY <3>2 DEF CanTransition
    <3>. QED
      BY <3>1, <3>2, <3>3, <3>4
  <2>2. Respond([agent EXCEPT !.machine = s], ok)
    BY <1>4, <2>1
  <2>3. c.stage # "none"
    BY <1>4
  <2>4. /\ agent' \in Agent /\ agent'.lost = agent.lost /\ agent'.expected = agent.expected
        /\ agent'.machine = to /\ agent'.command = NoCommand
        /\ Answer(c, ok) \in Message /\ toClient' = Append(toClient, Answer(c, ok))
    BY <1>3, <2>1, <2>2, <2>3
  <2>5. ok = TRUE
    BY <2>1
  <2>6. CASE m.type = "target:start" /\ c.stage = "boot"
    BY <1>1, <2>4, <2>5, <2>6 DEF StageInv
  <2>7. CASE m.id = c.id /\ c.stage = "target" /\ m.ok
    <3>1. m.type = c.type /\ to = After(c.type)
      BY <1>2, <2>7 DEF After
    <3>. QED
      BY <1>1, <2>4, <2>5, <2>7, <3>1
  <2>. QED
    BY <1>4, <2>6, <2>7
<1>5. CASE m.id = c.id /\ c.stage = "target" /\ ~m.ok /\ Respond(agent, FALSE)
  <2>1. PICK ok \in BOOLEAN : ok = FALSE
    OBVIOUS
  <2>2. Respond(agent, ok) /\ c.stage # "none"
    BY <1>5, <2>1
  <2>3. /\ agent' \in Agent /\ agent'.lost = agent.lost /\ agent'.expected = agent.expected
        /\ agent'.machine = agent.machine /\ agent'.command = NoCommand
        /\ Answer(c, ok) \in Message /\ toClient' = Append(toClient, Answer(c, ok))
    BY <1>1, <2>2, RespondFields
  <2>. QED
    BY <1>1, <1>5, <2>1, <2>3
<1>6. CASE UNCHANGED <<agent, toClient>> /\ ~(m.id = c.id /\ c.stage = "target")
  BY <1>1, <1>6
<1>. QED
  BY <1>4, <1>5, <1>6 DEF HearTarget

\* The command at hand fails: the target has not answered it, or has not gone.
FailsCommand ==
    /\ agent'.command = NoCommand /\ agent'.machine = agent.machine
    /\ Answer(agent.command, FALSE) \in Message
    /\ toClient' = Append(toClient, Answer(agent.command, FALSE))

LEMMA GiveUpFields ==
    ASSUME Types, StageInv, TargetTimeout \/ TerminationFails
    PROVE  /\ agent.command.stage \notin {"none", "port"}
           /\ UNCHANGED <<client, target, toAgent, ipcIn, ipcOut>>
           /\ agent' \in Agent /\ agent'.process = agent.process
           /\ \/ FailsCommand /\ agent'.expected = agent.expected
                    /\ (agent.command.stage = "target" => agent'.lost)
                    /\ agent.command.stage # "boot"
                    /\ (agent.lost => agent'.lost)
              \/ /\ agent.command.stage = "boot" /\ agent.command.type = "target:start"
                 /\ agent.machine = "starting" /\ agent'.machine = "failed"
                 /\ agent'.command.stage = "cleanup" /\ agent'.command.id = agent.command.id
                 /\ agent'.command.type = "target:start"
                 /\ agent'.lost = agent.lost /\ UNCHANGED toClient
<1>1. agent \in Agent
  BY DEF Types
<1>2. PICK ok \in BOOLEAN : ok = FALSE
  OBVIOUS
<1>3. CASE TargetTimeout /\ agent.command.stage = "target"
  <2>1. PICK a : a = [agent EXCEPT !.lost = TRUE]
    OBVIOUS
  <2>2. /\ a \in Agent /\ a.lost /\ a.machine = agent.machine /\ a.expected = agent.expected
        /\ a.process = agent.process
    BY <1>1, <2>1 DEF Agent
  <2>3. Respond(a, ok)
    BY <1>2, <1>3, <2>1 DEF TargetTimeout
  <2>4. /\ FailsCommand /\ agent'.lost /\ agent'.expected = agent.expected /\ agent' \in Agent
        /\ agent'.process = agent.process
    BY <1>2, <1>3, <2>2, <2>3, RespondFields DEF FailsCommand
  <2>. QED
    BY <1>3, <2>4 DEF TargetTimeout
<1>4. CASE TargetTimeout /\ agent.command.stage = "boot"
  <2>1. agent.machine = "starting" /\ agent.command.type = "target:start"
    BY <1>4 DEF StageInv
  <2>2. Moved(agent.machine, "failed") = "failed"
    BY <2>1, Transitions
  <2>3. PICK c \in CommandType : c = [agent.command EXCEPT !.stage = "cleanup"]
    BY <1>1 DEF Agent, CommandType
  <2>4. c.stage = "cleanup" /\ c.id = agent.command.id /\ c.type = agent.command.type
    BY <1>1, <2>3 DEF Agent
  <2>5. /\ agent' = [agent EXCEPT !.machine = Moved(@, "failed"), !.expected = TRUE,
                                    !.command.stage = "cleanup"]
        /\ UNCHANGED toClient
    BY <1>4 DEF TargetTimeout
  <2>6. agent' = [agent EXCEPT !.machine = "failed", !.expected = TRUE, !.command = c]
    BY <2>2, <2>3, <2>5
  <2>7. /\ agent' \in Agent /\ agent'.command = c /\ agent'.machine = "failed"
        /\ agent'.lost = agent.lost /\ agent'.process = agent.process
    BY <1>1, <2>6 DEF Agent, CommandType, TargetState
  <2>. QED
    BY <1>4, <2>1, <2>4, <2>5, <2>7 DEF TargetTimeout
<1>5. CASE TerminationFails
  <2>1. Respond(agent, ok) /\ agent.command.stage \in {"terminate", "cleanup"}
    BY <1>2, <1>5 DEF TerminationFails
  <2>2. /\ FailsCommand /\ agent'.lost = agent.lost /\ agent'.expected = agent.expected
        /\ agent' \in Agent /\ agent'.process = agent.process
    BY <1>1, <1>2, <2>1, RespondFields DEF FailsCommand
  <2>. QED
    BY <1>5, <2>1, <2>2 DEF TerminationFails
<1>. QED
  BY <1>3, <1>4, <1>5 DEF TargetTimeout

\* SeeExit: the exit is reported if it is news, and ends the command at hand.
LEMMA ExitFields ==
    ASSUME Types, StageInv, SeeExit
    PROVE  /\ target.process = "exited"
           /\ UNCHANGED <<client, target, toAgent, ipcIn, ipcOut>>
           /\ agent' \in Agent /\ agent'.lost = agent.lost /\ agent'.process = agent.process
           /\ agent'.expected = agent.expected
           /\ \E told \in Seq(Message), ok \in BOOLEAN :
                 /\ \/ told = toClient /\ ~ExitUnexpected(agent)
                    \/ /\ ExitUnexpected(agent) /\ Event("target:exit", FALSE) \in Message
                       /\ told = Append(toClient, Event("target:exit", FALSE))
                 /\ \/ /\ agent.command.stage = "none" /\ agent'.command = agent.command
                       /\ toClient' = told
                       /\ agent'.machine = IF ExitUnexpected(agent) THEN "failed" ELSE agent.machine
                    \/ /\ agent.command.stage # "none" /\ agent'.command = NoCommand
                       /\ ok = (agent.command.stage = "terminate")
                       /\ Answer(agent.command, ok) \in Message
                       /\ toClient' = Append(told, Answer(agent.command, ok))
                       /\ \/ agent'.machine = IF ExitUnexpected(agent) THEN "failed" ELSE agent.machine
                          \/ agent.machine = "stopping" /\ agent'.machine = "stopped"
<1>1. /\ target.process = "exited" /\ agent \in Agent
      /\ UNCHANGED <<client, target, toAgent, ipcIn, ipcOut>>
  BY DEF SeeExit, Types
<1>2. PICK news \in BOOLEAN : news = ExitUnexpected(agent)
  BY DEF ExitUnexpected
<1>3. PICK s \in {"none"} \cup TargetState : s = IF news THEN "failed" ELSE agent.machine
  BY <1>1 DEF Agent, TargetState
<1>4. PICK a : a = [agent EXCEPT !.sawExit = TRUE, !.machine = s]
  OBVIOUS
<1>5. /\ a \in Agent /\ a.machine = s /\ a.lost = agent.lost /\ a.expected = agent.expected
      /\ a.process = agent.process /\ a.command = agent.command
  BY <1>1, <1>4 DEF Agent
<1>6. PICK ev \in Message : ev = Event("target:exit", FALSE)
  <2>1. PICK no \in BOOLEAN : no = FALSE
    OBVIOUS
  <2>2. Event("target:exit", no) \in Message
    BY EventFields DEF EventType
  <2>. QED
    BY <2>1, <2>2
<1>7. PICK told \in Seq(Message) : told = IF news THEN Append(toClient, ev) ELSE toClient
  BY QueueAppend DEF Types
<1>8. agent.command.stage # "port"
  BY <1>1 DEF StageInv
<1>9. CASE agent.command.stage = "none"
  <2>1. agent' = a /\ toClient' = told
    BY <1>2, <1>3, <1>4, <1>6, <1>7, <1>9 DEF SeeExit
  <2>2. \A ok \in BOOLEAN : 
                 /\ \/ told = toClient /\ ~ExitUnexpected(agent)
                    \/ /\ ExitUnexpected(agent) /\ Event("target:exit", FALSE) \in Message
                       /\ told = Append(toClient, Event("target:exit", FALSE))
                 /\ \/ /\ agent.command.stage = "none" /\ agent'.command = agent.command
                       /\ toClient' = told
                       /\ agent'.machine = IF ExitUnexpected(agent) THEN "failed" ELSE agent.machine
    BY <1>2, <1>3, <1>5, <1>6, <1>7, <1>9, <2>1
  <2>. QED
    BY <1>1, <1>5, <2>1, <2>2
<1>10. CASE agent.command.stage # "none"
  <2>1. PICK ok \in BOOLEAN : ok = (agent.command.stage = "terminate")
    OBVIOUS
  <2>2. PICK t \in {"none"} \cup TargetState : t = IF ok THEN Moved(a.machine, "stopped") ELSE s
    BY <1>5, MovedTyped DEF TargetState
  <2>3. toClient' = Append(told, Answer(agent.command, ok))
    BY <1>2, <1>6, <1>7, <1>8, <1>10, <2>1 DEF SeeExit
  <2>4. agent' = [a EXCEPT !.command = NoCommand, !.machine = t]
    BY <1>2, <1>3, <1>4, <1>5, <1>8, <1>10, <2>1, <2>2 DEF SeeExit
  <2>5. NoCommand \in CommandType
    BY DEF CommandType, NoCommand
  <2>6. /\ agent' \in Agent /\ agent'.command = NoCommand /\ agent'.machine = t
        /\ agent'.lost = agent.lost /\ agent'.expected = agent.expected
        /\ agent'.process = agent.process
    BY <1>5, <2>4, <2>5 DEF Agent, CommandType
  <2>7. Answer(agent.command, ok) \in Message
    BY <1>10, AnswerFields DEF StageInv
  <2>8. t = s \/ (agent.machine = "stopping" /\ t = "stopped")
    BY <1>3, <1>5, <2>2, Transitions
  <2>9. \/ told = toClient /\ ~ExitUnexpected(agent)
        \/ /\ ExitUnexpected(agent) /\ Event("target:exit", FALSE) \in Message
           /\ told = Append(toClient, Event("target:exit", FALSE))
    BY <1>2, <1>6, <1>7
  <2>10. \/ t = IF ExitUnexpected(agent) THEN "failed" ELSE agent.machine
         \/ agent.machine = "stopping" /\ t = "stopped"
    BY <1>2, <1>3, <2>8
  <2>. QED
    BY <1>1, <1>10, <2>1, <2>3, <2>6, <2>7, <2>9, <2>10
<1>. QED
  BY <1>9, <1>10

\* The agent comes up, closes or dies: its command and its machine are as they were.
LEMMA ProcessFields ==
    ASSUME Types, AgentStarts \/ AgentCloses \/ AgentDies
    PROVE  /\ UNCHANGED <<client, target, toAgent, ipcIn, ipcOut>>
           /\ agent' \in Agent /\ agent'.lost = agent.lost
           /\ agent'.command = agent.command /\ agent'.machine = agent.machine
           /\ \/ agent'.expected = agent.expected /\ agent'.process \in {"up", "gone"}
                     /\ (agent'.process = "up" => agent.process = "booting")
              \/ agent.command = NoCommand /\ agent'.process = "closing"
           /\ \/ UNCHANGED toClient
              \/ \E m \in Message :
                    /\ m.type \in {"agent:ready", "agent:error"} /\ m.id = 0
                    /\ toClient' = Append(toClient, m)
<1>1. agent \in Agent
  BY DEF Types
<1>2. CASE AgentStarts
  <2>1. PICK ok \in BOOLEAN, p \in {"up", "gone"}, type \in {"agent:ready", "agent:error"} :
          /\ agent' = [agent EXCEPT !.process = p]
          /\ toClient' = Append(toClient, Event(type, ok))
    BY <1>2 DEF AgentStarts
  <2>2. Event(type, ok) \in Message /\ Event(type, ok).type = type /\ Event(type, ok).id = 0
    BY EventFields DEF EventType
  <2>. QED
    BY <1>1, <1>2, <2>1, <2>2 DEF AgentStarts, Agent
<1>3. CASE AgentCloses
  BY <1>1, <1>3 DEF AgentCloses, Agent
<1>4. CASE AgentDies
  BY <1>1, <1>4 DEF AgentDies, Agent
<1>. QED
  BY <1>2, <1>3, <1>4

\* What a target's own steps change.
LEMMA TargetFields ==
    ASSUME Types, TargetNext
    PROVE  /\ UNCHANGED <<client, agent, toAgent, toClient>>
           /\ target' \in Target /\ ipcIn' \in Seq(Request) /\ ipcOut' \in Seq(Message)
           /\ Elems(ipcIn') \subseteq Elems(ipcIn)
           /\ target.process # "none"
           /\ \/ /\ target.process = "booting" /\ target'.process = "up"
                 /\ target'.measuring = target.measuring /\ UNCHANGED ipcIn
                 /\ \E m \in Message : m.id = 0 /\ ipcOut' = Append(ipcOut, m)
              \/ /\ target.process = "up" /\ target'.process = "up" /\ ipcIn # <<>>
                 /\ ipcIn' = Tail(ipcIn)
                 /\ \E m \in Message :
                       /\ m.id = Head(ipcIn).id /\ m.type = Head(ipcIn).type
                       /\ ipcOut' = Append(ipcOut, m)
                       /\ m.ok = (target.measuring = (m.type = "metrics:stop"))
                       /\ target'.measuring = IF m.ok THEN m.type = "metrics:start"
                                                      ELSE target.measuring
              \/ /\ target.process \in {"booting", "up"} /\ target'.process = "exited"
                 /\ ipcIn' = <<>> /\ UNCHANGED ipcOut
<1>1. target \in Target
  BY DEF Types
<1>2. CASE TargetReady
  <2>1. PICK m \in Message : m = Event("target:start", TRUE)
    <3>1. PICK ok \in BOOLEAN : ok = TRUE
      OBVIOUS
    <3>. QED
      BY <3>1, EventFields
  <2>2. m.id = 0
    BY <2>1 DEF Event
  <2>3. ipcOut' = Append(ipcOut, m) /\ ipcOut' \in Seq(Message)
    BY <1>2, <2>1, QueueAppend DEF TargetReady, Types
  <2>. QED
    BY <1>1, <1>2, <2>2, <2>3 DEF TargetReady, Target, Types
<1>3. CASE TargetCommand
  <2>1. /\ target.process = "up" /\ ipcIn # <<>> /\ ipcIn' = Tail(ipcIn)
        /\ UNCHANGED <<client, agent, toAgent, toClient>>
    BY <1>3 DEF TargetCommand
  <2>2. PICK r \in Request : r = Head(ipcIn)
    BY <2>1, QueueTail DEF Types
  <2>3. ipcIn' \in Seq(Request) /\ Elems(ipcIn') \subseteq Elems(ipcIn)
    BY <2>1, QueueTail DEF Types
  <2>4. PICK ok \in BOOLEAN : ok = (target.measuring = (r.type = "metrics:stop"))
    OBVIOUS
  <2>5. PICK m \in Message : m = Answer(r, ok)
    BY <2>4, RequestFields, AnswerFields
  <2>6. m.id = r.id /\ m.type = r.type /\ m.ok = ok
    BY <2>5, RequestFields, AnswerFields
  <2>7. ipcOut' = Append(ipcOut, m)
    BY <1>3, <2>2, <2>4, <2>5 DEF TargetCommand
  <2>8. ipcOut' \in Seq(Message)
    BY <2>7, QueueAppend DEF Types
  <2>9. PICK b \in BOOLEAN : b = IF ok THEN r.type = "metrics:start" ELSE target.measuring
    BY <1>1 DEF Target
  <2>10. target' = [target EXCEPT !.measuring = b]
    BY <1>3, <2>2, <2>4, <2>9 DEF TargetCommand
  <2>11. target' \in Target /\ target'.measuring = b /\ target'.process = "up"
    BY <1>1, <2>1, <2>10 DEF Target
  <2>12. \E n \in Message :
                       /\ n.id = Head(ipcIn).id /\ n.type = Head(ipcIn).type
                       /\ ipcOut' = Append(ipcOut, n)
                       /\ n.ok = (target.measuring = (n.type = "metrics:stop"))
                       /\ target'.measuring = IF n.ok THEN n.type = "metrics:start"
                                                      ELSE target.measuring
    BY <2>2, <2>4, <2>6, <2>7, <2>9, <2>11
  <2>. QED
    BY <2>1, <2>3, <2>8, <2>11, <2>12
<1>4. CASE TargetExits
  BY <1>1, <1>4, EmptyQueue, EmptySeq DEF TargetExits, Target, Types
<1>. QED
  BY <1>2, <1>3, <1>4 DEF TargetNext

LEMMA TypesNext ==
    ASSUME Types, StageInv, IdsInv, FailedInv, Next
    PROVE  Types'
<1>a. \A m \in Message : Append(toClient, m) \in Seq(Message)
  BY QueueAppend DEF Types
<1>b. \A r \in Request : Append(toAgent, r) \in Seq(Request) /\ Append(ipcIn, r) \in Seq(Request)
  BY QueueAppend DEF Types
<1>1. CASE Deliver
  <2>1. toClient # <<>> /\ client' = Delivered(client, Head(toClient)) /\ toClient' = Tail(toClient)
        /\ UNCHANGED <<agent, target, toAgent, ipcIn, ipcOut>>
    BY <1>1 DEF Deliver
  <2>2. Head(toClient) \in Message /\ toClient' \in Seq(Message)
    BY <2>1, QueueTail DEF Types
  <2>. QED
    BY <2>1, <2>2, DeliveredFields DEF Types
<1>2. CASE Continue
  <2>1. toAgent' \in Seq(Request)
    BY <1>2, ContinueFields, QueueAppend DEF Types
  <2>. QED
    BY <1>2, <2>1, ContinueFields DEF Types
<1>3. CASE AgentStartupTimeout \/ TransportExit
  BY <1>3, WaitFields DEF Types
<1>4. ASSUME NEW p \in client.pending, RequestTimeout(p)
      PROVE  Types'
  BY <1>4, TimeoutFields DEF Types
<1>5. CASE StartMetrics \/ StopMetrics \/ StopSession
  <2>1. toAgent' = toAgent \/ \E r \in Request : toAgent' = Append(toAgent, r)
    BY <1>5, CallFields DEF Asks
  <2>. QED
    BY <1>b, <1>5, <2>1, CallFields DEF Types
<1>6. CASE AgentStarts \/ AgentCloses \/ AgentDies
  <2>1. toClient' \in Seq(Message)
    BY <1>6, ProcessFields, QueueAppend DEF Types
  <2>. QED
    BY <1>6, <2>1, ProcessFields DEF Types
<1>7. CASE TakeCommand
  <2>1. toClient' = toClient \/ \E m \in Message : toClient' = Append(toClient, m)
    BY <1>7, TakeFields
  <2>2. ipcIn' = ipcIn \/ \E r \in Request : ipcIn' = Append(ipcIn, r)
    BY <1>7, TakeFields
  <2>3. UNCHANGED <<client, target, ipcOut>> /\ toAgent' \in Seq(Request) /\ agent' \in Agent
    BY <1>7, TakeFields
  <2>. QED
    BY <1>a, <1>b, <2>1, <2>2, <2>3 DEF Types
<1>8. CASE Fork
  <2>1. toClient' \in Seq(Message)
    BY <1>8, ForkFields, QueueAppend DEF Types
  <2>. QED
    BY <1>8, <2>1, ForkFields DEF Types
<1>9. CASE HearTarget
  <2>1. toClient' \in Seq(Message)
    BY <1>9, HearFields, QueueAppend DEF Types
  <2>. QED
    BY <1>9, <2>1, HearFields DEF Types
<1>10. CASE TargetTimeout \/ TerminationFails
  <2>1. toClient' = toClient \/ \E m \in Message : toClient' = Append(toClient, m)
    BY <1>10, GiveUpFields DEF FailsCommand
  <2>. QED
    BY <1>a, <1>10, <2>1, GiveUpFields DEF Types
<1>11. CASE SeeExit
  <2>1. toClient' \in Seq(Message)
    BY <1>11, ExitFields, QueueAppend DEF Types
  <2>. QED
    BY <1>11, <2>1, ExitFields DEF Types
<1>12. CASE TargetNext
  BY <1>12, TargetFields DEF Types
<1>. QED
  BY <1>1, <1>2, <1>3, <1>4, <1>5, <1>6, <1>7, <1>8, <1>9, <1>10, <1>11, <1>12
     DEF Next, Runner, AgentNext
--------------------------------------------------------------------------------
(* The steps that have nothing to do with the agent, or with the session *)

\* The client alone, and what is in the pipes.
LEMMA RunnerFields ==
    ASSUME Types, FailedInv, Runner
    PROVE  UNCHANGED <<agent, target, ipcIn, ipcOut>>
<1>1. ASSUME Continue
      PROVE  UNCHANGED <<agent, target, ipcIn, ipcOut>>
  BY <1>1, ContinueFields
<1>2. ASSUME NEW p \in client.pending, RequestTimeout(p)
      PROVE  UNCHANGED <<agent, target, ipcIn, ipcOut>>
  BY <1>2, TimeoutFields
<1>3. ASSUME StartMetrics \/ StopMetrics \/ StopSession
      PROVE  UNCHANGED <<agent, target, ipcIn, ipcOut>>
  BY <1>3, CallFields
<1>4. ASSUME AgentStartupTimeout \/ TransportExit
      PROVE  UNCHANGED <<agent, target, ipcIn, ipcOut>>
  BY <1>4, WaitFields
<1>. QED
  BY <1>1, <1>2, <1>3, <1>4 DEF Runner, Deliver

LEMMA StageNext ==
    ASSUME Types, StageInv, IdsInv, FailedInv, Next
    PROVE  StageInv'
<1>0. agent \in Agent /\ target \in Target
  BY DEF Types
<1>1. CASE Runner
  BY <1>1, RunnerFields DEF StageInv
<1>2. CASE AgentStarts \/ AgentCloses \/ AgentDies
  <2>1. UNCHANGED target /\ agent'.command = agent.command /\ agent'.machine = agent.machine
    BY <1>2, ProcessFields
  <2>2. agent.machine = "starting" => ~agent'.expected
    BY <1>2, ProcessFields DEF StageInv, NoCommand
  <2>3. agent.machine = "none" /\ agent'.process \in {"booting", "up"} => ~agent'.expected
    BY <1>2, ProcessFields DEF StageInv
  <2>. QED
    BY <2>1, <2>2, <2>3 DEF StageInv
<1>3. CASE TakeCommand
  <2>1. UNCHANGED target /\ Head(toAgent) \in Request /\ agent.command = NoCommand
        /\ agent.process = "up"
    BY <1>3, TakeFields
  <2>2. /\ Head(toAgent).id \in 1 .. MaxRequests /\ Head(toAgent).type \in RequestType
    BY <2>1, RequestFields
  <2>3. CASE UNCHANGED agent
    BY <2>1, <2>3 DEF StageInv
  <2>4. CASE /\ Head(toAgent).type \in Metrics /\ ~Refuses(Head(toAgent))
             /\ agent'.command = [id |-> Head(toAgent).id, type |-> Head(toAgent).type, stage |-> "target"]
             /\ agent'.machine = agent.machine
    <3>1. agent.machine # "starting"
      BY <2>1 DEF StageInv, NoCommand
    <3>2. agent.machine = IF Head(toAgent).type = "metrics:start" THEN "ready" ELSE "measuring"
      <4>1. CASE Head(toAgent).type = "metrics:start"
        <5>1. CanTransition(agent.machine, "measuring")
          BY <2>4, <4>1 DEF Refuses
        <5>. QED
          BY <4>1, <5>1, Transitions
      <4>2. CASE Head(toAgent).type = "metrics:stop"
        <5>1. CanTransition(agent.machine, "ready")
          BY <2>4, <4>2 DEF Refuses
        <5>. QED
          BY <3>1, <4>2, <5>1, Transitions
      <4>. QED
        BY <2>4, <4>1, <4>2 DEF Metrics
    <3>. QED
      BY <2>1, <2>2, <2>4, <3>1, <3>2 DEF StageInv
  <2>5. CASE /\ Head(toAgent).type = "target:start" /\ agent.machine = "none"
             /\ agent'.command = [id |-> Head(toAgent).id, type |-> Head(toAgent).type, stage |-> "port"]
             /\ agent'.machine = "starting" /\ agent'.expected = agent.expected
    BY <2>1, <2>2, <2>5 DEF StageInv
  <2>6. CASE /\ Head(toAgent).type = "target:stop"
             /\ agent'.command = [id |-> Head(toAgent).id, type |-> Head(toAgent).type, stage |-> "terminate"]
             /\ agent'.machine = "stopping"
    BY <2>1, <2>2, <2>6 DEF StageInv
  <2>. QED
    BY <1>3, <2>3, <2>4, <2>5, <2>6, TakeFields
<1>4. CASE Fork
  <2>1. agent.command.id \in 1 .. MaxRequests /\ "target:start" \in RequestType
    BY <1>4, ForkFields DEF StageInv, RequestType
  <2>2. ~agent'.expected
    BY <1>4, ForkFields DEF StageInv
  <2>3. CASE agent'.command.stage = "boot"
    <3>1. /\ agent'.command.id = agent.command.id /\ agent'.command.type = "target:start"
          /\ agent'.machine = "starting"
      <4>1. agent'.command # NoCommand
        BY <2>3 DEF NoCommand
      <4>. QED
        BY <1>4, <4>1, ForkFields
    <3>. QED
      BY <2>1, <2>2, <2>3, <3>1 DEF StageInv
  <2>4. CASE agent'.command = NoCommand /\ agent'.machine = "failed"
    BY <2>4 DEF StageInv, NoCommand
  <2>. QED
    BY <1>4, <2>3, <2>4, ForkFields
<1>5. CASE HearTarget
  <2>1. CASE UNCHANGED agent
    BY <1>5, <2>1, HearFields DEF StageInv
  <2>2. CASE agent'.command = NoCommand /\ agent'.machine \notin {"starting", "none"}
    BY <2>2 DEF StageInv, NoCommand
  <2>3. \/ UNCHANGED agent
        \/ agent'.command = NoCommand /\ agent'.machine \notin {"starting", "none"}
    BY <1>5, HearFields DEF StageInv, After
  <2>. QED
    BY <2>1, <2>2, <2>3
<1>6. CASE TargetTimeout \/ TerminationFails
  <2>1. CASE FailsCommand /\ agent.command.stage # "boot"
    <3>1. agent.machine # "starting" /\ agent.machine # "none"
      BY <1>6, <2>1, GiveUpFields DEF StageInv
    <3>. QED
      BY <2>1, <3>1 DEF StageInv, FailsCommand, NoCommand
  <2>2. CASE ~(FailsCommand /\ agent.command.stage # "boot")
    BY <1>6, <2>2, GiveUpFields DEF StageInv
  <2>. QED
    BY <2>1, <2>2
<1>7. CASE SeeExit
  <2>1. agent.machine # "none" /\ UNCHANGED target
    BY <1>7, ExitFields DEF StageInv
  <2>2. agent.machine = "starting" => ExitUnexpected(agent)
    BY Transitions DEF StageInv, ExitUnexpected
  <2>3. agent'.machine \notin {"none", "starting"}
    BY <1>7, <2>1, <2>2, ExitFields
  <2>4. agent'.command = NoCommand
    BY <1>7, ExitFields DEF StageInv
  <2>. QED
    BY <2>3, <2>4 DEF StageInv, NoCommand
<1>8. CASE TargetNext
  BY <1>8, TargetFields DEF StageInv
<1>. QED
  BY <1>1, <1>2, <1>3, <1>4, <1>5, <1>6, <1>7, <1>8 DEF Next, AgentNext

\* A step that brings no new request.
LEMMA IdsKept ==
    ASSUME Types, IdsInv, client'.nextId = client.nextId,
           Elems(toAgent') \cup Elems(ipcIn') \subseteq Elems(toAgent) \cup Elems(ipcIn),
           \/ agent'.command.stage = "none"
           \/ /\ agent.command.stage # "none"
              /\ agent'.command.id = agent.command.id /\ agent'.command.type = agent.command.type
           \/ \E r \in Elems(toAgent) :
                 agent'.command.id = r.id /\ agent'.command.type = r.type,
           \A m \in Elems(ipcOut') : \/ m \in Elems(ipcOut) \/ m.id = 0
                                     \/ \E r \in Elems(ipcIn) : m.id = r.id /\ m.type = r.type
    PROVE  IdsInv'
<1>1. PICK f \in [1 .. MaxRequests -> RequestType] : Named(f)
  BY DEF IdsInv
<1>2. \A r \in Elems(toAgent') \cup Elems(ipcIn') : r.id < client'.nextId /\ r.type = f[r.id]
  BY <1>1 DEF Named
<1>3. agent'.command.stage # "none" =>
         /\ agent'.command.id < client'.nextId
         /\ agent'.command.type = f[agent'.command.id]
  BY <1>1 DEF Named
<1>4. \A m \in Elems(ipcOut') : m.id # 0 => m.id < client'.nextId /\ m.type = f[m.id]
  <2>. SUFFICES ASSUME NEW m \in Elems(ipcOut'), m.id # 0
                PROVE  m.id < client'.nextId /\ m.type = f[m.id]
    OBVIOUS
  <2>1. CASE m \in Elems(ipcOut)
    BY <1>1, <2>1 DEF Named
  <2>2. CASE \E r \in Elems(ipcIn) : m.id = r.id /\ m.type = r.type
    BY <1>1, <2>2 DEF Named
  <2>. QED
    BY <2>1, <2>2
<1>5. Named(f)'
  BY <1>2, <1>3, <1>4 DEF Named
<1>. QED
  BY <1>5 DEF IdsInv

\* A request gets an id that none has had.
LEMMA IdsGrow ==
    ASSUME Types, StageInv, IdsInv, NEW r \in Request, r.id = client.nextId,
           client'.nextId = client.nextId + 1, toAgent' = Append(toAgent, r),
           UNCHANGED <<agent, ipcIn, ipcOut>>
    PROVE  IdsInv'
<1>1. PICK f \in [1 .. MaxRequests -> RequestType] : Named(f)
  BY DEF IdsInv
<1>2. /\ r.id \in 1 .. MaxRequests /\ r.type \in RequestType /\ r.id \in Nat
  BY RequestFields
<1>3. DEFINE g == [f EXCEPT ![r.id] = r.type]
<1>4. /\ g \in [1 .. MaxRequests -> RequestType] /\ g[r.id] = r.type
      /\ \A i \in 1 .. MaxRequests : i # r.id => g[i] = f[i]
  BY <1>2
<1>. HIDE DEF g
<1>5. Elems(toAgent') = Elems(toAgent) \cup {r}
  BY QueueAppend DEF Types
<1>6. ASSUME NEW q \in Elems(toAgent') \cup Elems(ipcIn)
      PROVE  q.id < client'.nextId /\ q.type = g[q.id]
  <2>1. CASE q = r
    BY <1>2, <1>4, <2>1
  <2>2. CASE q \in Elems(toAgent) \cup Elems(ipcIn)
    <3>1. q.id \in 1 .. MaxRequests /\ q.id \in Nat
      BY <2>2, ElemsTyped, RequestFields DEF Types
    <3>2. q.id < client.nextId /\ q.type = f[q.id]
      BY <1>1, <2>2 DEF Named
    <3>. QED
      BY <1>2, <1>4, <3>1, <3>2
  <2>. QED
    BY <1>5, <1>6, <2>1, <2>2
<1>7. ASSUME agent.command.stage # "none"
      PROVE  agent.command.id < client'.nextId /\ agent.command.type = g[agent.command.id]
  <2>1. agent.command.id \in 1 .. MaxRequests
    BY <1>7 DEF StageInv
  <2>2. agent.command.id < client.nextId /\ agent.command.type = f[agent.command.id]
    BY <1>1, <1>7 DEF Named
  <2>. QED
    BY <1>2, <1>4, <2>1, <2>2
<1>8. ASSUME NEW m \in Elems(ipcOut), m.id # 0
      PROVE  m.id < client'.nextId /\ m.type = g[m.id]
  <2>1. m.id \in 1 .. MaxRequests
    <3>1. m \in Message
      BY ElemsTyped DEF Types
    <3>. QED
      BY <1>8, <3>1, MaxRequestsAssumption DEF Message
  <2>2. m.id < client.nextId /\ m.type = f[m.id]
    BY <1>1, <1>8 DEF Named
  <2>. QED
    BY <1>2, <1>4, <2>1, <2>2
<1>9. Named(g)'
  BY <1>6, <1>7, <1>8 DEF Named
<1>. QED
  BY <1>4, <1>9 DEF IdsInv

LEMMA IdsNext ==
    ASSUME Types, StageInv, IdsInv, FailedInv, Next
    PROVE  IdsInv'
<1>1. CASE Runner
  <2>1. UNCHANGED <<agent, target, ipcIn, ipcOut>>
    BY <1>1, RunnerFields
  <2>2. \/ UNCHANGED toAgent /\ client'.nextId = client.nextId
        \/ \E r \in Request : /\ r.id = client.nextId /\ toAgent' = Append(toAgent, r)
                              /\ client'.nextId = client.nextId + 1
    <3>1. CASE Deliver
      <4>1. Head(toClient) \in Message
        BY <3>1, QueueTail DEF Deliver, Types
      <4>. QED
        BY <3>1, <4>1, DeliveredFields DEF Deliver, Types
    <3>2. CASE Continue
      <4>1. CASE [id |-> client.nextId, type |-> "target:start"] \in Request
                    /\ toAgent' = Append(toAgent, [id |-> client.nextId, type |-> "target:start"])
                    /\ client'.nextId = client.nextId + 1
        <5>1. PICK r \in Request : r = [id |-> client.nextId, type |-> "target:start"]
          BY <4>1
        <5>2. r.id = client.nextId
          BY <5>1
        <5>. QED
          BY <4>1, <5>1, <5>2
      <4>. QED
        BY <3>2, <4>1, ContinueFields
    <3>3. CASE AgentStartupTimeout \/ TransportExit
      BY <3>3, WaitFields
    <3>4. CASE \E p \in client.pending : RequestTimeout(p)
      BY <3>4, TimeoutFields
    <3>5. CASE StartMetrics \/ StopMetrics \/ StopSession
      BY <3>5, CallFields DEF Asks
    <3>. QED
      BY <1>1, <3>1, <3>2, <3>3, <3>4, <3>5 DEF Runner
  <2>3. CASE UNCHANGED toAgent /\ client'.nextId = client.nextId
    BY <2>1, <2>3, IdsKept
  <2>4. ASSUME NEW r \in Request, r.id = client.nextId, toAgent' = Append(toAgent, r),
               client'.nextId = client.nextId + 1
        PROVE  IdsInv'
    BY <2>1, <2>4, IdsGrow
  <2>. QED
    BY <2>2, <2>3, <2>4
<1>2. CASE AgentStarts \/ AgentCloses \/ AgentDies
  BY <1>2, ProcessFields, IdsKept
<1>3. CASE TakeCommand
  <2>1. /\ client' = client /\ Elems(toAgent') \subseteq Elems(toAgent) /\ ipcOut' = ipcOut
        /\ Head(toAgent) \in Elems(toAgent) /\ Head(toAgent) \in Request
        /\ agent.command = NoCommand
    BY <1>3, TakeFields
  <2>2. Elems(ipcIn') \subseteq Elems(toAgent) \cup Elems(ipcIn)
    <3>1. ipcIn' = ipcIn \/ ipcIn' = Append(ipcIn, Head(toAgent))
      BY <1>3, TakeFields
    <3>2. Elems(Append(ipcIn, Head(toAgent))) = Elems(ipcIn) \cup {Head(toAgent)}
      BY <2>1, QueueAppend DEF Types
    <3>. QED
      BY <2>1, <3>1, <3>2
  <2>3. \/ agent'.command.stage = "none"
        \/ \E r \in Elems(toAgent) :
                 agent'.command.id = r.id /\ agent'.command.type = r.type
    <3>1. \/ agent'.command = NoCommand
          \/ agent'.command.id = Head(toAgent).id /\ agent'.command.type = Head(toAgent).type
      <4>1. CASE UNCHANGED agent
        BY <2>1, <4>1
      <4>2. CASE \E stage \in {"port", "target", "terminate"} :
               agent'.command = [id |-> Head(toAgent).id, type |-> Head(toAgent).type, stage |-> stage]
        BY <4>2
      <4>. QED
        BY <1>3, <4>1, <4>2, TakeFields
    <3>. QED
      BY <2>1, <3>1, NoCommandFields
  <2>. QED
    BY <2>1, <2>2, <2>3, IdsKept
<1>4. CASE Fork
  <2>1. \/ agent'.command.stage = "none"
        \/ /\ agent'.command.id = agent.command.id /\ agent'.command.type = agent.command.type
    BY <1>4, ForkFields, NoCommandFields
  <2>. QED
    BY <1>4, <2>1, ForkFields, IdsKept
<1>5. CASE HearTarget
  <2>1. agent'.command.stage = "none" \/ agent'.command = agent.command
    BY <1>5, HearFields, NoCommandFields
  <2>. QED
    BY <1>5, <2>1, HearFields, IdsKept
<1>6. CASE TargetTimeout \/ TerminationFails
  <2>1. \/ agent'.command.stage = "none"
        \/ /\ agent'.command.id = agent.command.id /\ agent'.command.type = agent.command.type
    BY <1>6, GiveUpFields, NoCommandFields DEF FailsCommand
  <2>. QED
    BY <1>6, <2>1, GiveUpFields, IdsKept
<1>7. CASE SeeExit
  <2>1. agent'.command.stage = "none"
    BY <1>7, ExitFields, NoCommandFields
  <2>. QED
    BY <1>7, <2>1, ExitFields, IdsKept
<1>8. CASE TargetNext
  <2>1. /\ UNCHANGED <<client, agent, toAgent>> /\ Elems(ipcIn') \subseteq Elems(ipcIn)
    BY <1>8, TargetFields
  <2>2. ASSUME NEW m \in Elems(ipcOut')
        PROVE  \/ m \in Elems(ipcOut) \/ m.id = 0
               \/ \E r \in Elems(ipcIn) : m.id = r.id /\ m.type = r.type
    <3>1. \/ ipcOut' = ipcOut
          \/ \E n \in Message : n.id = 0 /\ ipcOut' = Append(ipcOut, n)
          \/ ipcIn # <<>> /\ \E n \in Message : /\ n.id = Head(ipcIn).id /\ n.type = Head(ipcIn).type
                                             /\ ipcOut' = Append(ipcOut, n)
      BY <1>8, TargetFields
    <3>2. ipcIn # <<>> => Head(ipcIn) \in Elems(ipcIn)
      BY QueueTail DEF Types
    <3>3. \A n \in Message : Elems(Append(ipcOut, n)) = Elems(ipcOut) \cup {n}
      BY QueueAppend DEF Types
    <3>. QED
      BY <2>2, <3>1, <3>2, <3>3
  <2>. QED
    BY <2>1, <2>2, IdsKept
<1>. QED
  BY <1>1, <1>2, <1>3, <1>4, <1>5, <1>6, <1>7, <1>8 DEF Next, AgentNext
--------------------------------------------------------------------------------
(* A target that is said to be stopped has exited *)

\* An exited target stays exited: the agent forks one at most.
LEMMA ExitedForGood ==
    ASSUME Types, StageInv, IdsInv, FailedInv, Next, target.process = "exited"
    PROVE  target'.process = "exited"
<1>1. CASE Runner
  BY <1>1, RunnerFields
<1>2. CASE AgentStarts \/ AgentCloses \/ AgentDies
  BY <1>2, ProcessFields
<1>3. CASE TakeCommand \/ HearTarget
  BY <1>3, TakeFields, HearFields
<1>4. CASE Fork
  BY <1>4, ForkFields
<1>5. CASE TargetTimeout \/ TerminationFails \/ SeeExit
  BY <1>5, GiveUpFields, ExitFields
<1>6. CASE TargetNext
  BY <1>6, TargetFields
<1>. QED
  BY <1>1, <1>2, <1>3, <1>4, <1>5, <1>6 DEF Next, AgentNext

\* While the target lives the agent does not answer that it has been stopped.
LEMMA NoFalseStop ==
    ASSUME Types, StageInv, IdsInv, AgentNext, target.process # "exited"
    PROVE  Elems(toClient') \cap Stops \subseteq Elems(toClient)
<1>1. ASSUME NEW m \in Message, m \notin Stops, toClient' = Append(toClient, m)
      PROVE  Elems(toClient') \cap Stops \subseteq Elems(toClient)
  <2>1. Elems(toClient') = Elems(toClient) \cup {m}
    BY <1>1, QueueAppend DEF Types
  <2>. QED
    BY <1>1, <2>1
<1>2. ASSUME NEW c, c.id \in 1 .. MaxRequests, c.type \in RequestType, NEW ok \in BOOLEAN,
             ok => c.type # "target:stop", toClient' = Append(toClient, Answer(c, ok))
      PROVE  Elems(toClient') \cap Stops \subseteq Elems(toClient)
  <2>1. Answer(c, ok) \in Message /\ Answer(c, ok) \notin Stops
    BY <1>2, AnswerFields DEF Stops
  <2>. QED
    BY <1>1, <1>2, <2>1
<1>3. PICK no \in BOOLEAN, yes \in BOOLEAN : no = FALSE /\ yes = TRUE
  OBVIOUS
<1>4. agent.command.stage # "none" =>
         agent.command.id \in 1 .. MaxRequests /\ agent.command.type \in RequestType
  BY DEF StageInv
<1>5. CASE AgentStarts \/ AgentCloses \/ AgentDies
  BY <1>1, <1>5, ProcessFields DEF Stops
<1>6. CASE TakeCommand
  <2>1. Head(toAgent).id \in 1 .. MaxRequests /\ Head(toAgent).type \in RequestType
    BY <1>6, TakeFields, RequestFields
  <2>2. UNCHANGED toClient \/ toClient' = Append(toClient, Answer(Head(toAgent), no))
    BY <1>3, <1>6, TakeFields
  <2>. QED
    BY <1>2, <1>3, <2>1, <2>2
<1>7. CASE Fork
  <2>1. UNCHANGED toClient \/ toClient' = Append(toClient, Answer(agent.command, no))
    BY <1>3, <1>7, ForkFields
  <2>2. agent.command.stage # "none"
    BY <1>7, ForkFields
  <2>. QED
    BY <1>2, <1>3, <1>4, <2>1, <2>2
<1>8. CASE HearTarget
  <2>1. \/ UNCHANGED toClient
        \/ /\ agent.command.stage \in {"boot", "target"}
           /\ \/ toClient' = Append(toClient, Answer(agent.command, no))
              \/ toClient' = Append(toClient, Answer(agent.command, yes))
    BY <1>3, <1>8, HearFields
  <2>2. agent.command.stage \in {"boot", "target"} => agent.command.type # "target:stop"
    BY DEF StageInv, Metrics
  <2>. QED
    BY <1>2, <1>3, <1>4, <2>1, <2>2
<1>9. CASE TargetTimeout \/ TerminationFails
  <2>1. UNCHANGED toClient \/ toClient' = Append(toClient, Answer(agent.command, no))
    BY <1>3, <1>9, GiveUpFields DEF FailsCommand
  <2>2. agent.command.stage # "none"
    BY <1>9, GiveUpFields
  <2>. QED
    BY <1>2, <1>3, <1>4, <2>1, <2>2
<1>10. CASE SeeExit
  BY <1>10, ExitFields
<1>. QED
  BY <1>5, <1>6, <1>7, <1>8, <1>9, <1>10 DEF AgentNext

\* What the runner may make of its answers: none is new, and one that is taken has
\* been applied to the session.
LEMMA AnswersTaken ==
    ASSUME Types, FailedInv, Runner
    PROVE  /\ Elems(client'.settled) \cup Elems(toClient') \subseteq
                 Elems(client.settled) \cup Elems(toClient)
           /\ \/ client'.session \in {client.session, "stopping"}
              \/ client'.failure /\ client'.session = Moved(client.session, "failed")
              \/ \E m \in Elems(client.settled) : client'.session = Applied(client.session, client.failure, m.type, m.ok)
              \/ \E type : client'.session = Applied(client.session, client.failure, type, FALSE)
<1>0. client \in Client /\ client.settled \in Seq(Message) /\ toClient \in Seq(Message)
  BY DEF Types, Client
<1>1. CASE Deliver
  <2>1. /\ toClient # <<>> /\ client' = Delivered(client, Head(toClient))
        /\ toClient' = Tail(toClient)
    BY <1>1 DEF Deliver
  <2>2. /\ Head(toClient) \in Message /\ Head(toClient) \in Elems(toClient)
        /\ Elems(toClient') \subseteq Elems(toClient)
    BY <1>0, <2>1, QueueTail
  <2>3. CASE client' = Fail(client)
    BY <1>0, <2>2, <2>3, FailFields
  <2>4. CASE /\ client'.settled = Append(client.settled, Head(toClient))
             /\ client'.session = client.session
    <3>1. Elems(client'.settled) = Elems(client.settled) \cup {Head(toClient)}
      BY <1>0, <2>2, <2>4, QueueAppend
    <3>. QED
      BY <2>2, <2>4, <3>1
  <2>. QED
    BY <1>0, <2>1, <2>2, <2>3, <2>4, DeliveredFields
<1>2. CASE Continue
  <2>1. /\ Head(client.settled) \in Elems(client.settled) /\ toClient' = toClient
        /\ Elems(client'.settled) \subseteq Elems(client.settled)
    BY <1>0, <1>2, ContinueFields, QueueTail
  <2>. QED
    BY <1>2, <2>1, ContinueFields
<1>3. CASE AgentStartupTimeout \/ TransportExit
  <2>1. client'.settled = client.settled /\ toClient' = toClient
    BY <1>3, WaitFields
  <2>2. \/ client'.session = client.session
        \/ client' = Fail(client)
    BY <1>3, WaitFields
  <2>3. /\ Fail(client).failure
        /\ Fail(client).session \in {client.session, Moved(client.session, "failed")}
    BY <1>0, FailFields
  <2>4. \/ client'.session = client.session
        \/ client'.failure /\ client'.session = Moved(client.session, "failed")
    BY <2>2, <2>3
  <2>. QED
    BY <2>1, <2>4
<1>4. ASSUME NEW p \in client.pending, RequestTimeout(p)
      PROVE  /\ client'.settled = client.settled /\ toClient' = toClient
             /\ \E type : client'.session = Applied(client.session, client.failure, type, FALSE)
  BY <1>4, TimeoutFields
<1>5. CASE StartMetrics \/ StopMetrics \/ StopSession
  BY <1>5, CallFields DEF Asks
<1>. QED
  BY <1>1, <1>2, <1>3, <1>4, <1>5 DEF Runner

LEMMA GoneNext ==
    ASSUME Types, StageInv, IdsInv, FailedInv, GoneInv, Next
    PROVE  GoneInv'
<1>. SUFFICES ASSUME target'.process # "exited"
              PROVE  /\ client'.session # "stopped"
                     /\ (Elems(client'.settled) \cup Elems(toClient')) \cap Stops = {}
  BY DEF GoneInv
<1>1. /\ target.process # "exited" /\ client.session # "stopped"
      /\ (Elems(client.settled) \cup Elems(toClient)) \cap Stops = {}
  BY ExitedForGood DEF GoneInv
<1>2. CASE Runner
  <2>1. \A f, ok, type : Applied(client.session, f, type, ok) = "stopped" => type = "target:stop" /\ ok
    BY <1>1, Transitions DEF Applied
  <2>2. \A m \in Elems(client.settled) : ~(m.type = "target:stop" /\ m.ok)
    BY <1>1, ElemsTyped DEF Types, Client, Stops
  <2>3. Moved(client.session, "failed") # "stopped"
    BY <1>1, Transitions
  <2>. QED
    BY <1>1, <1>2, <2>1, <2>2, <2>3, AnswersTaken
<1>3. CASE AgentNext
  <2>1. Elems(toClient') \cap Stops \subseteq Elems(toClient)
    BY <1>1, <1>3, NoFalseStop
  <2>2. UNCHANGED client
    BY <1>3, ProcessFields, TakeFields, ForkFields, HearFields, GiveUpFields, ExitFields DEF AgentNext
  <2>. QED
    BY <1>1, <2>1, <2>2
<1>4. CASE TargetNext
  BY <1>1, <1>4, TargetFields
<1>. QED
  BY <1>2, <1>3, <1>4 DEF Next

LEMMA FailedNext ==
    ASSUME Types, StageInv, IdsInv, FailedInv, Next
    PROVE  FailedInv'
<1>1. CASE Runner
  <2>0. client \in Client
    BY DEF Types
  <2>1. ASSUME client'.session = Moved(client.session, "failed")
        PROVE  FailedInv'
    <3>1. client'.session \notin {"ready", "measuring", "stopping", "starting"}
      BY <2>1, Transitions DEF FailedInv
    <3>. QED
      BY <3>1 DEF FailedInv
  <2>2. ASSUME NEW type, NEW ok, client'.failure = client.failure,
               client'.session = Applied(client.session, client.failure, type, ok)
        PROVE  FailedInv'
    <3>1. client'.session # "starting"
      BY <2>2, Transitions DEF Applied, FailedInv
    <3>2. client.failure => client'.session \notin {"ready", "measuring", "stopping"}
      BY <2>2, Transitions DEF Applied, FailedInv
    <3>. QED
      BY <2>2, <3>1, <3>2 DEF FailedInv
  <2>3. CASE Deliver
    <3>1. Head(toClient) \in Message
      BY <2>3, QueueTail DEF Deliver, Types
    <3>2. \/ client' = Fail(client)
          \/ client'.session = client.session /\ client'.failure = client.failure
      BY <2>0, <2>3, <3>1, DeliveredFields DEF Deliver
    <3>. QED
      BY <2>0, <2>1, <3>2, FailFields DEF FailedInv
  <2>4. CASE Continue
    BY <2>2, <2>4, ContinueFields DEF FailedInv
  <2>5. CASE AgentStartupTimeout \/ TransportExit
    BY <2>0, <2>1, <2>5, WaitFields, FailFields DEF FailedInv
  <2>6. CASE \E p \in client.pending : RequestTimeout(p)
    BY <2>2, <2>6, TimeoutFields
  <2>7. CASE StartMetrics \/ StopMetrics \/ StopSession
    BY <2>7, CallFields DEF Asks, FailedInv
  <2>. QED
    BY <1>1, <2>3, <2>4, <2>5, <2>6, <2>7 DEF Runner
<1>2. CASE AgentNext \/ TargetNext
  <2>1. UNCHANGED client
    BY <1>2, ProcessFields, TakeFields, ForkFields, HearFields, GiveUpFields, ExitFields, TargetFields
       DEF AgentNext
  <2>. QED
    BY <2>1 DEF FailedInv
<1>. QED
  BY <1>1, <1>2 DEF Next
--------------------------------------------------------------------------------
(* The target is started once, and nothing is asked of it before *)

Live == {"none", "ready", "measuring"}
Unstarted == {"none", "starting"}
Later == Metrics \cup {"target:stop"}

\* What a runner's step makes of the session when no start has been answered.
LEMMA AppliedFields ==
    ASSUME FailedInv, NEW f \in BOOLEAN, NEW type, NEW ok \in BOOLEAN
    PROVE  LET to == Applied(client.session, f, type, ok)
           IN  /\ ~(type = "target:start" /\ ok) =>
                     /\ to = "none" <=> client.session = "none"
                     /\ to \in Live => client.session \in Live
               /\ type = "target:start" /\ ok => to \in {"ready", "failed"}
               /\ ~ok /\ to \in Live => to = client.session
BY Transitions DEF Applied, FailedInv, Live

\* A step of the runner that applies no answer of target:start.
LEMMA StartKeptByRunner ==
    ASSUME Types, StartInv, UNCHANGED agent,
           client'.session = "none" <=> client.session = "none",
           client'.session \in Live => client.session \in Live,
           Elems(client'.settled) \cup Elems(toClient') \subseteq Elems(client.settled) \cup Elems(toClient),
           Alone(client'.settled, Starts), Alone(toClient', Starts),
           Elems(client'.settled) \cap Starts = {} \/ Elems(toClient') \cap Starts = {},
           \A r \in Elems(toAgent') :
              \/ r \in Elems(toAgent) \/ r.type \notin Later
              \/ client.session # "none" /\ r.type # "target:stop"
              \/ client'.session \notin Live
    PROVE  StartInv'
BY DEF StartInv, Live, Later

LEMMA StartByRunner ==
    ASSUME Types, FailedInv, StartInv, Runner
    PROVE  StartInv'
<1>0. /\ client \in Client /\ client.settled \in Seq(Message) /\ toClient \in Seq(Message)
      /\ client.failure \in BOOLEAN
  BY DEF Types, Client
<1>1. UNCHANGED agent
  BY RunnerFields
<1>2. /\ Alone(client.settled, Starts) /\ Alone(toClient, Starts)
      /\ Elems(client.settled) \cap Starts = {} \/ Elems(toClient) \cap Starts = {}
  BY DEF StartInv
<1>3. /\ Moved(client.session, "failed") = "none" <=> client.session = "none"
      /\ Moved(client.session, "failed") \in Live => client.session \in Live
  BY Transitions DEF FailedInv, Live
<1>4. CASE Deliver
  <2>. DEFINE m == Head(toClient)
  <2>1. /\ toClient # <<>> /\ client' = Delivered(client, m) /\ toClient' = Tail(toClient)
        /\ toAgent' = toAgent
    BY <1>4 DEF Deliver
  <2>2. /\ m \in Message /\ m \in Elems(toClient) /\ Elems(toClient) = {m} \cup Elems(toClient')
    BY <1>0, <2>1, QueueTail
  <2>3. Alone(toClient', Starts) /\ (m \in Starts => Elems(toClient') \cap Starts = {})
    BY <1>0, <1>2, <2>1, AloneTail
  <2>4. CASE client' = Fail(client)
    <3>1. /\ client'.settled = client.settled
          /\ client'.session \in {client.session, Moved(client.session, "failed")}
      BY <1>0, <2>4, FailFields
    <3>2. /\ client'.session = "none" <=> client.session = "none"
          /\ client'.session \in Live => client.session \in Live
      BY <1>3, <3>1
    <3>. QED
      BY <1>1, <1>2, <2>1, <2>2, <2>3, <3>1, <3>2, StartKeptByRunner
  <2>5. CASE client'.settled = Append(client.settled, m) /\ client'.session = client.session
    <3>1. Elems(client'.settled) = Elems(client.settled) \cup {m}
      BY <1>0, <2>2, <2>5, QueueAppend
    <3>2. Alone(client'.settled, Starts)
      BY <1>0, <1>2, <2>2, <2>5, AloneAppend
    <3>3. Elems(client'.settled) \cap Starts = {} \/ Elems(toClient') \cap Starts = {}
      BY <1>2, <2>2, <2>3, <3>1
    <3>. QED
      BY <1>1, <2>1, <2>2, <2>3, <2>5, <3>1, <3>2, <3>3, StartKeptByRunner
  <2>. QED
    BY <1>0, <2>1, <2>2, <2>4, <2>5, DeliveredFields
<1>5. CASE Continue
  <2>. DEFINE m == Head(client.settled)
  <2>1. client.settled # <<>> /\ client'.settled = Tail(client.settled) /\ toClient' = toClient
    BY <1>5, ContinueFields
  <2>2. /\ m \in Message /\ m \in Elems(client.settled)
        /\ Elems(client.settled) = {m} \cup Elems(client'.settled)
    BY <1>0, <2>1, QueueTail
  <2>3. /\ Alone(client'.settled, Starts)
        /\ m \in Starts => Elems(client'.settled) \cap Starts = {}
    BY <1>0, <1>2, <2>1, AloneTail
  <2>4. m.ok \in BOOLEAN
    BY <2>2, MessageFields
  <2>5. ASSUME NEW r \in Elems(toAgent')
        PROVE  r \in Elems(toAgent) \/ r.type \notin Later
    <3>1. CASE toAgent' = toAgent
      BY <2>5, <3>1
    <3>2. CASE /\ [id |-> client.nextId, type |-> "target:start"] \in Request
               /\ toAgent' = Append(toAgent, [id |-> client.nextId, type |-> "target:start"])
      <4>1. PICK q \in Request : q = [id |-> client.nextId, type |-> "target:start"]
        BY <3>2
      <4>2. Elems(toAgent') = Elems(toAgent) \cup {q} /\ q.type = "target:start"
        BY <3>2, <4>1, QueueAppend DEF Types
      <4>. QED
        BY <2>5, <4>2 DEF Later, Metrics
    <3>. QED
      BY <1>5, <3>1, <3>2, ContinueFields
  <2>6. CASE m \in Starts
    <3>1. client'.session \in {"ready", "failed"}
      <4>1. m.type = "target:start" /\ m.ok
        BY <2>6 DEF Starts
      <4>2. client'.session = Applied(client.session, client.failure, m.type, m.ok)
        BY <1>5, <4>1, ContinueFields
      <4>. QED
        BY <1>0, <2>4, <4>1, <4>2, AppliedFields
    <3>2. /\ client.session = "none" /\ agent.machine \notin Unstarted
          /\ Elems(toClient) \cap Starts = {}
      BY <1>2, <2>2, <2>6 DEF StartInv, Unstarted
    <3>3. (Elems(client'.settled) \cup Elems(toClient')) \cap Starts = {}
      BY <2>1, <2>3, <2>6, <3>2
    <3>4. Elems(client'.settled) \subseteq Elems(client.settled)
      BY <2>2
    <3>5. /\ \A r \in Elems(toAgent') : r.type # "target:stop"
          /\ agent'.command.type # "target:stop"
          /\ agent'.machine \notin {"stopping", "stopped"}
      BY <1>1, <2>5, <3>2 DEF StartInv, Later
    <3>. QED
      BY <1>1, <1>2, <2>1, <2>3, <3>1, <3>2, <3>3, <3>5 DEF StartInv, Unstarted
  <2>7. CASE m \notin Starts
    <3>1. ~(m.type = "target:start" /\ m.ok)
      BY <2>2, <2>7 DEF Starts
    <3>2. /\ client'.session = "none" <=> client.session = "none"
          /\ client'.session \in Live => client.session \in Live
      BY <1>0, <1>5, <2>4, <3>1, ContinueFields, AppliedFields
    <3>. QED
      BY <1>1, <1>2, <2>1, <2>2, <2>3, <2>5, <3>2, StartKeptByRunner
  <2>. QED
    BY <2>6, <2>7
<1>6. CASE AgentStartupTimeout \/ TransportExit
  <2>1. client'.settled = client.settled /\ toClient' = toClient /\ toAgent' = toAgent
    BY <1>6, WaitFields
  <2>2. client'.session \in {client.session, Moved(client.session, "failed")}
    <3>1. client'.session = client.session \/ client' = Fail(client)
      BY <1>6, WaitFields
    <3>2. Fail(client).session \in {client.session, Moved(client.session, "failed")}
      BY <1>0, FailFields
    <3>. QED
      BY <3>1, <3>2
  <2>3. /\ client'.session = "none" <=> client.session = "none"
        /\ client'.session \in Live => client.session \in Live
    BY <1>3, <2>2
  <2>. QED
    BY <1>1, <1>2, <2>1, <2>3, StartKeptByRunner
<1>7. ASSUME NEW p \in client.pending, RequestTimeout(p)
      PROVE  StartInv'
  <2>1. /\ client'.settled = client.settled /\ toClient' = toClient /\ toAgent' = toAgent
        /\ client'.session = Applied(client.session, client.failure, p.type, FALSE)
    BY <1>7, TimeoutFields
  <2>2. PICK no \in BOOLEAN : no = FALSE
    OBVIOUS
  <2>3. client'.session = Applied(client.session, client.failure, p.type, no)
    BY <2>1, <2>2
  <2>4. /\ client'.session = "none" <=> client.session = "none"
        /\ client'.session \in Live => client.session \in Live
    BY <1>0, <2>2, <2>3, AppliedFields
  <2>. QED
    BY <1>1, <1>2, <2>1, <2>4, StartKeptByRunner
<1>8. CASE StartMetrics \/ StopMetrics \/ StopSession
  <2>1. client'.settled = client.settled /\ toClient' = toClient
    BY <1>8, CallFields
  <2>2. \/ toAgent' = toAgent /\ client'.session = client.session
        \/ \E r \in Request :
              /\ toAgent' = Append(toAgent, r) /\ client.session \in {"ready", "measuring"}
              /\ \/ r.type # "target:stop" /\ client'.session = client.session
                 \/ client'.session = "stopping"
    BY <1>8, CallFields DEF Asks, Metrics
  <2>3. /\ client'.session = "none" <=> client.session = "none"
        /\ client'.session \in Live => client.session \in Live
    BY <2>2 DEF Live
  <2>4. ASSUME NEW q \in Elems(toAgent')
        PROVE  \/ q \in Elems(toAgent)
               \/ client.session # "none" /\ q.type # "target:stop"
               \/ client'.session \notin Live
    <3>1. \A r \in Request : Elems(Append(toAgent, r)) = Elems(toAgent) \cup {r}
      BY QueueAppend DEF Types
    <3>. QED
      BY <2>2, <2>4, <3>1 DEF Live
  <2>. QED
    BY <1>1, <1>2, <2>1, <2>3, <2>4, StartKeptByRunner
<1>. QED
  BY <1>4, <1>5, <1>6, <1>7, <1>8 DEF Runner

\* What the agent may tell the runner: nothing of a type it was not asked for, and
\* that the target has started only when it starts.
Tells(m) ==
    /\ \/ m.type \notin Later \/ m.type = agent.command.type
       \/ \E r \in Elems(toAgent) : m.type = r.type
    /\ m \in Starts => agent.machine \in Unstarted /\ agent'.machine \notin Unstarted

Told ==
    /\ Alone(toClient', Starts)
    /\ \A m \in Elems(toClient') : m \in Elems(toClient) \/ Tells(m)

LEMMA ToldOne ==
    ASSUME Types, StartInv, NEW m \in Message, Tells(m), toClient' = Append(toClient, m)
    PROVE  Told
<1>1. toClient \in Seq(Message) /\ Elems(toClient') = Elems(toClient) \cup {m}
  BY QueueAppend DEF Types
<1>2. Alone(toClient, Starts) /\ (m \in Starts => Elems(toClient) \cap Starts = {})
  BY DEF StartInv, Tells, Unstarted
<1>3. Alone(toClient', Starts)
  BY <1>1, <1>2, AloneAppend
<1>. QED
  BY <1>1, <1>3 DEF Told

LEMMA AgentTells ==
    ASSUME Types, StageInv, IdsInv, StartInv, AgentNext
    PROVE  Told
<1>0. toClient \in Seq(Message) /\ Alone(toClient, Starts)
  BY DEF Types, StartInv
<1>1. CASE toClient' = toClient
  BY <1>0, <1>1 DEF Told
<1>2. PICK no \in BOOLEAN, yes \in BOOLEAN : no = FALSE /\ yes = TRUE
  OBVIOUS
<1>3. agent.command.stage # "none" =>
         agent.command.id \in 1 .. MaxRequests /\ agent.command.type \in RequestType
  BY DEF StageInv
<1>4. ASSUME NEW c, c.id \in 1 .. MaxRequests, c.type \in RequestType, NEW ok \in BOOLEAN,
             c.type = agent.command.type \/ \E r \in Elems(toAgent) : c.type = r.type,
             ok => \/ c.type # "target:start"
                   \/ agent.machine \in Unstarted /\ agent'.machine \notin Unstarted
      PROVE  Answer(c, ok) \in Message /\ Tells(Answer(c, ok))
  <2>1. /\ Answer(c, ok) \in Message /\ Answer(c, ok).type = c.type /\ Answer(c, ok).ok = ok
    BY <1>4, AnswerFields
  <2>. QED
    BY <1>4, <2>1 DEF Tells, Starts
<1>5. CASE AgentStarts \/ AgentCloses \/ AgentDies
  <2>1. \A m \in Message : m.type \in {"agent:ready", "agent:error"} => Tells(m)
    BY DEF Tells, Starts, Later, Metrics
  <2>2. UNCHANGED toClient \/ \E m \in Message : Tells(m) /\ toClient' = Append(toClient, m)
    BY <1>5, <2>1, ProcessFields
  <2>. QED
    BY <1>1, <2>2, ToldOne
<1>6. CASE TakeCommand
  <2>1. /\ Head(toAgent).id \in 1 .. MaxRequests /\ Head(toAgent).type \in RequestType
        /\ Head(toAgent) \in Elems(toAgent)
    BY <1>6, TakeFields, RequestFields
  <2>2. UNCHANGED toClient \/ toClient' = Append(toClient, Answer(Head(toAgent), no))
    BY <1>2, <1>6, TakeFields
  <2>. QED
    BY <1>1, <1>2, <1>4, <2>1, <2>2, ToldOne
<1>7. CASE Fork \/ TargetTimeout \/ TerminationFails
  <2>1. UNCHANGED toClient \/ toClient' = Append(toClient, Answer(agent.command, no))
    BY <1>2, <1>7, ForkFields, GiveUpFields DEF FailsCommand
  <2>2. agent.command.stage # "none"
    BY <1>7, ForkFields, GiveUpFields
  <2>. QED
    BY <1>1, <1>2, <1>3, <1>4, <2>1, <2>2, ToldOne
<1>8. CASE HearTarget
  <2>1. CASE toClient' = Append(toClient, Answer(agent.command, no)) /\ agent.command.stage = "target"
    BY <1>2, <1>3, <1>4, <2>1, ToldOne
  <2>2. CASE /\ toClient' = Append(toClient, Answer(agent.command, yes)) /\ agent.command.stage = "boot"
             /\ agent.machine = "starting" /\ agent'.machine = "ready"
    <3>1. agent.machine \in Unstarted /\ agent'.machine \notin Unstarted
      BY <2>2 DEF Unstarted
    <3>. QED
      BY <1>3, <1>4, <2>2, <3>1, ToldOne
  <2>3. CASE toClient' = Append(toClient, Answer(agent.command, yes)) /\ agent.command.stage = "target"
    <3>1. agent.command.type # "target:start"
      BY <2>3 DEF StageInv, Metrics
    <3>. QED
      BY <1>3, <1>4, <2>3, <3>1, ToldOne
  <2>. QED
    BY <1>1, <1>2, <1>8, <2>1, <2>2, <2>3, HearFields
<1>9. CASE SeeExit
  <2>1. PICK told \in Seq(Message), ok \in BOOLEAN :
                 /\ \/ told = toClient
                    \/ /\ Event("target:exit", FALSE) \in Message
                       /\ told = Append(toClient, Event("target:exit", FALSE))
                 /\ \/ toClient' = told
                    \/ /\ agent.command.stage # "none"
                       /\ ok = (agent.command.stage = "terminate")
                       /\ toClient' = Append(told, Answer(agent.command, ok))
    BY <1>9, ExitFields
  <2>2. /\ Alone(told, Starts) /\ \A m \in Elems(told) : m \in Elems(toClient) \/ Tells(m)
        /\ Elems(told) \cap Starts \subseteq Elems(toClient)
    <3>1. CASE told = toClient
      BY <1>0, <3>1
    <3>2. CASE /\ Event("target:exit", no) \in Message
               /\ told = Append(toClient, Event("target:exit", no))
      <4>1. PICK e \in Message : e = Event("target:exit", no)
        BY <3>2
      <4>2. e.type = "target:exit"
        BY <4>1 DEF Event
      <4>3. e \notin Starts /\ Tells(e)
        BY <4>2 DEF Starts, Tells, Later, Metrics
      <4>4. Alone(told, Starts) /\ Elems(told) = Elems(toClient) \cup {e}
        BY <1>0, <3>2, <4>1, <4>3, AloneAppend, QueueAppend
      <4>. QED
        BY <4>3, <4>4
    <3>. QED
      BY <1>2, <2>1, <3>1, <3>2
  <2>3. CASE toClient' = told
    BY <2>2, <2>3 DEF Told
  <2>4. CASE /\ agent.command.stage # "none"
             /\ ok = (agent.command.stage = "terminate")
             /\ toClient' = Append(told, Answer(agent.command, ok))
    <3>1. ok => agent.command.type # "target:start"
      BY <2>4 DEF StageInv
    <3>2. /\ Answer(agent.command, ok) \in Message /\ Tells(Answer(agent.command, ok))
      BY <1>3, <1>4, <2>4, <3>1
    <3>3. Answer(agent.command, ok) \notin Starts
      BY <1>3, <2>4, <3>1, AnswerFields DEF Starts
    <3>4. /\ Elems(toClient') = Elems(told) \cup {Answer(agent.command, ok)}
          /\ Alone(toClient', Starts)
      BY <2>2, <2>4, <3>2, <3>3, AloneAppend, QueueAppend
    <3>. QED
      BY <2>2, <3>2, <3>4 DEF Told
  <2>. QED
    BY <2>1, <2>3, <2>4
<1>. QED
  BY <1>5, <1>6, <1>7, <1>8, <1>9 DEF AgentNext

\* What the agent makes of its requests and of its machine.
LEMMA AgentMoves ==
    ASSUME Types, StageInv, IdsInv, AgentNext
    PROVE  /\ UNCHANGED client /\ Elems(toAgent') \subseteq Elems(toAgent)
           /\ agent'.machine \in Unstarted => agent.machine \in Unstarted
           /\ \/ agent'.command.type \in {"none", agent.command.type}
              \/ \E r \in Elems(toAgent) : agent'.command.type = r.type
           /\ agent'.machine \in {"stopping", "stopped"} =>
                 \/ agent.machine \in {"stopping", "stopped"}
                 \/ \E r \in Elems(toAgent) : r.type = "target:stop"
<1>1. CASE AgentStarts \/ AgentCloses \/ AgentDies
  BY <1>1, ProcessFields
<1>2. CASE TakeCommand
  <2>1. /\ UNCHANGED client /\ Elems(toAgent') \subseteq Elems(toAgent)
        /\ Head(toAgent) \in Elems(toAgent)
    BY <1>2, TakeFields
  <2>2. \/ agent' = agent
        \/ agent'.command.type = Head(toAgent).type /\ agent'.machine = agent.machine
        \/ /\ agent'.command.type = Head(toAgent).type
           /\ agent.machine = "none" /\ agent'.machine = "starting"
        \/ /\ agent'.command.type = Head(toAgent).type
           /\ Head(toAgent).type = "target:stop" /\ agent'.machine = "stopping"
    <3>1. CASE \E stage \in {"port", "target", "terminate"} :
               agent'.command = [id |-> Head(toAgent).id, type |-> Head(toAgent).type, stage |-> stage]
      <4>1. agent'.command.type = Head(toAgent).type
        BY <3>1
      <4>. QED
        BY <1>2, <4>1, TakeFields
    <3>. QED
      BY <1>2, <3>1, TakeFields
  <2>. QED
    BY <2>1, <2>2 DEF Unstarted
<1>3. CASE Fork
  BY <1>3, ForkFields, NoCommandFields DEF Unstarted
<1>4. CASE HearTarget
  BY <1>4, HearFields, NoCommandFields DEF Unstarted, After
<1>5. CASE TargetTimeout \/ TerminationFails
  BY <1>5, GiveUpFields, NoCommandFields DEF Unstarted, FailsCommand
<1>6. CASE SeeExit
  BY <1>6, ExitFields, NoCommandFields DEF Unstarted
<1>. QED
  BY <1>1, <1>2, <1>3, <1>4, <1>5, <1>6 DEF AgentNext

LEMMA StartByAgent ==
    ASSUME Types, StageInv, IdsInv, StartInv, AgentNext
    PROVE  StartInv'
<1>1. Told
  BY AgentTells
<1>2. UNCHANGED client /\ Elems(toAgent') \subseteq Elems(toAgent)
  BY AgentMoves
<1>3. agent'.machine \in Unstarted => agent.machine \in Unstarted
  BY AgentMoves
<1>4. ASSUME NEW types, agent.command.type \notin types, "none" \notin types,
             \A r \in Elems(toAgent) : r.type \notin types
      PROVE  agent'.command.type \notin types
  BY <1>4, AgentMoves
<1>5. \/ Elems(toClient') \cap Starts \subseteq Elems(toClient)
      \/ agent.machine \in Unstarted /\ agent'.machine \notin Unstarted
  BY <1>1 DEF Told, Tells
<1>6. agent.machine \in Unstarted => /\ client.session = "none"
                                     /\ (Elems(client.settled) \cup Elems(toClient)) \cap Starts = {}
  BY DEF StartInv, Unstarted
<1>7. ASSUME client.session = "none"
      PROVE  /\ \A m \in Elems(client'.settled) \cup Elems(toClient') \cup Elems(toAgent') :
                   m.type \notin Later
             /\ agent'.command.type \notin Later
  <2>1. /\ \A m \in Elems(client.settled) \cup Elems(toClient) \cup Elems(toAgent) : m.type \notin Later
        /\ agent.command.type \notin Later
    BY <1>7 DEF StartInv, Later
  <2>2. agent'.command.type \notin Later
    BY <1>4, <2>1 DEF Later, Metrics
  <2>. QED
    BY <1>1, <1>2, <2>1, <2>2 DEF Told, Tells
<1>8. ASSUME client.session \in Live
      PROVE  /\ \A r \in Elems(toAgent') : r.type # "target:stop"
             /\ agent'.command.type # "target:stop"
             /\ agent'.machine \notin {"stopping", "stopped"}
  <2>1. /\ \A r \in Elems(toAgent) : r.type # "target:stop"
        /\ agent.command.type # "target:stop"
        /\ agent.machine \notin {"stopping", "stopped"}
    BY <1>8 DEF StartInv, Live
  <2>2. agent'.command.type \notin {"target:stop"}
    BY <1>4, <2>1
  <2>. QED
    BY <1>2, <2>1, <2>2, AgentMoves
<1>9. /\ Alone(client'.settled, Starts) /\ Alone(toClient', Starts)
      /\ Elems(client'.settled) \cap Starts = {} \/ Elems(toClient') \cap Starts = {}
      /\ (client'.session # "none" \/ agent'.machine \in Unstarted) =>
              (Elems(client'.settled) \cup Elems(toClient')) \cap Starts = {}
      /\ agent'.machine \in Unstarted => client'.session = "none"
  <2>1. CASE agent.machine \in Unstarted /\ agent'.machine \notin Unstarted
    BY <1>1, <1>2, <1>6, <2>1 DEF Told, StartInv
  <2>2. CASE Elems(toClient') \cap Starts \subseteq Elems(toClient)
    BY <1>1, <1>2, <1>3, <2>2 DEF Told, StartInv, Unstarted
  <2>. QED
    BY <1>5, <2>1, <2>2
<1>. QED
  BY <1>2, <1>7, <1>8, <1>9 DEF StartInv, Unstarted, Live, Later

LEMMA StartNext ==
    ASSUME Types, StageInv, IdsInv, FailedInv, StartInv, Next
    PROVE  StartInv'
<1>1. CASE TargetNext
  BY <1>1, TargetFields DEF StartInv
<1>. QED
  BY <1>1, StartByRunner, StartByAgent DEF Next
--------------------------------------------------------------------------------
(* The session follows the agent's machine *)

\* The session applies an answer as the invariant says.
LEMMA AppliedThen ==
    ASSUME FailedInv, client.session \in Live, NEW m \in Message,
           client.session = "none" => m.type \notin Later,
           Applied(client.session, FALSE, m.type, m.ok) \in Live
    PROVE  Applied(client.session, FALSE, m.type, m.ok) = Then(client.session, m)
<1>1. CASE m.type = "target:start"
  BY <1>1 DEF Applied, Then, Changes, After
<1>2. CASE m.type \in Metrics
  <2>1. client.session \in {"ready", "measuring"}
    BY <1>2 DEF Later, Live
  <2>2. m.ok => Applied(client.session, FALSE, m.type, m.ok) = After(m.type)
    BY <1>2, <2>1, Transitions DEF Applied, After, Metrics
  <2>3. ~m.ok => Applied(client.session, FALSE, m.type, m.ok) = client.session
    BY <1>2 DEF Applied, Metrics
  <2>. QED
    BY <1>2, <2>2, <2>3 DEF Then, Changes
<1>3. CASE m.type = "target:stop"
  <2>1. Applied(client.session, FALSE, m.type, m.ok) = client.session
    BY <1>3, Transitions DEF Applied, Live
  <2>. QED
    BY <1>3, <2>1 DEF Then, Changes, Metrics
<1>4. CASE m.type \notin RequestType
  BY <1>4 DEF Applied, Then, Changes, Metrics, RequestType
<1>. QED
  BY <1>1, <1>2, <1>3, <1>4 DEF RequestType, Metrics

\* The state of the session and the one its settled answers lead to.
Leading(mid) ==
    /\ Leads(client.session, client.settled, mid)
    /\ Leads(mid, toClient, Seen(agent.machine))

LEMMA SyncByRunner ==
    ASSUME Types, FailedInv, StartInv, SyncInv, Runner
    PROVE  SyncInv'
<1>0. /\ client \in Client /\ client.settled \in Seq(Message) /\ toClient \in Seq(Message)
  BY DEF Types, Client
<1>1. UNCHANGED agent
  BY RunnerFields
<1>. SUFFICES ASSUME client'.session \in Live, ~client'.failure, ~ExitTold'
              PROVE  \E mid \in Live : Leading(mid)'
  BY DEF SyncInv, Live, Leading
<1>2. client.session \in Live /\ ~client.failure /\ ~ExitTold => \E mid \in Live : Leading(mid)
  BY DEF SyncInv, Live, Leading
<1>3. CASE Deliver
  <2>. DEFINE m == Head(toClient)
  <2>1. /\ toClient # <<>> /\ client' = Delivered(client, m) /\ toClient' = Tail(toClient)
    BY <1>3 DEF Deliver
  <2>2. /\ m \in Message /\ Elems(toClient) = {m} \cup Elems(toClient')
    BY <1>0, <2>1, QueueTail
  <2>3. /\ client'.settled = Append(client.settled, m) /\ client'.session = client.session
        /\ client'.failure = client.failure
        /\ m.id = 0 => m.type = "agent:ready"
    <3>1. client' # Fail(client)
      BY <1>0, FailFields
    <3>. QED
      BY <1>0, <2>1, <2>2, <3>1, DeliveredFields
  <2>4. ~ExitTold
    BY <2>2, <2>3 DEF ExitTold
  <2>5. PICK mid \in Live : Leading(mid)
    BY <1>2, <2>3, <2>4
  <2>6. PICK next \in Live : next = Then(mid, m)
    BY DEF Then, After, Live
  <2>7. Leads(client.session, Append(client.settled, m), next)
    BY <1>0, <2>2, <2>5, <2>6, LeadsAppend DEF Leading
  <2>8. Leads(next, Tail(toClient), Seen(agent.machine))
    BY <1>0, <2>1, <2>5, <2>6, LeadsTail DEF Leading
  <2>9. Leading(next)'
    BY <1>1, <2>1, <2>3, <2>7, <2>8 DEF Leading
  <2>. QED
    BY <2>6, <2>9
<1>4. CASE Continue
  <2>. DEFINE m == Head(client.settled)
  <2>1. /\ client.settled # <<>> /\ client'.settled = Tail(client.settled) /\ toClient' = toClient
        /\ client'.failure = client.failure
    BY <1>4, ContinueFields
  <2>2. /\ m \in Message /\ m \in Elems(client.settled)
    BY <1>0, <2>1, QueueTail
  <2>3. ~ExitTold
    BY <2>1 DEF ExitTold
  <2>4. PICK f \in BOOLEAN, ok \in BOOLEAN : f = FALSE /\ ok = m.ok
    BY <2>2, MessageFields
  <2>5. \/ m.type = "agent:ready" /\ client'.session = client.session
        \/ client'.session = Applied(client.session, FALSE, m.type, m.ok)
    <3>1. client.failure = FALSE
      BY <1>0, <2>1 DEF Client
    <3>. QED
      BY <1>4, <3>1, ContinueFields
  <2>6. client.session \in Live
    <3>1. CASE m.type = "target:start" /\ m.ok
      <4>1. client.session = "none"
        BY <2>2, <3>1 DEF StartInv, Starts
      <4>. QED
        BY <4>1 DEF Live
    <3>2. CASE ~(m.type = "target:start" /\ ok)
      <4>1. Applied(client.session, f, m.type, ok) \in Live => client.session \in Live
        BY <2>4, <3>2, AppliedFields
      <4>. QED
        BY <2>4, <2>5, <4>1
    <3>. QED
      BY <2>4, <3>1, <3>2
  <2>7. client.session = "none" => m.type \notin Later
    BY <2>2 DEF StartInv, Later
  <2>8. client'.session = Then(client.session, m)
    <3>1. CASE m.type = "agent:ready" /\ client'.session = client.session
      BY <3>1 DEF Then, Changes, Metrics
    <3>2. CASE client'.session = Applied(client.session, FALSE, m.type, m.ok)
      BY <2>2, <2>6, <2>7, <3>2, AppliedThen
    <3>. QED
      BY <2>5, <3>1, <3>2
  <2>9. PICK mid \in Live : Leading(mid)
    BY <1>2, <2>1, <2>3, <2>6
  <2>10. Leads(Then(client.session, m), Tail(client.settled), mid)
    BY <1>0, <2>1, <2>9, LeadsTail DEF Leading
  <2>11. Leading(mid)'
    BY <1>1, <2>1, <2>8, <2>9, <2>10 DEF Leading
  <2>. QED
    BY <2>9, <2>11
<1>5. CASE /\ client'.settled = client.settled /\ toClient' = toClient
           /\ client'.session = client.session /\ client'.failure = client.failure
  <2>1. PICK mid \in Live : Leading(mid)
    BY <1>2, <1>5 DEF ExitTold
  <2>2. Leading(mid)'
    BY <1>1, <1>5, <2>1 DEF Leading
  <2>. QED
    BY <2>1, <2>2
<1>6. CASE AgentStartupTimeout \/ TransportExit
  BY <1>0, <1>5, <1>6, WaitFields, FailFields
<1>7. ASSUME NEW p \in client.pending, RequestTimeout(p)
      PROVE  \E mid \in Live : Leading(mid)'
  <2>1. /\ client'.settled = client.settled /\ toClient' = toClient
        /\ client'.failure = client.failure
        /\ client'.session = Applied(client.session, client.failure, p.type, FALSE)
    BY <1>7, TimeoutFields
  <2>2. PICK no \in BOOLEAN, f \in BOOLEAN : no = FALSE /\ f = client.failure
    BY <1>0 DEF Client
  <2>3. client'.session = Applied(client.session, f, p.type, no)
    BY <2>1, <2>2
  <2>4. client'.session = client.session
    BY <2>2, <2>3, AppliedFields
  <2>. QED
    BY <1>5, <2>1, <2>4
<1>8. CASE StartMetrics \/ StopMetrics \/ StopSession
  <2>1. client'.settled = client.settled /\ toClient' = toClient /\ client'.failure = client.failure
    BY <1>8, CallFields
  <2>2. client'.session \in {client.session, "stopping"}
    BY <1>8, CallFields DEF Asks
  <2>. QED
    BY <1>5, <2>1, <2>2 DEF Live
<1>. QED
  BY <1>3, <1>4, <1>6, <1>7, <1>8 DEF Runner

\* The agent tells the runner of every change that a live session is to see.
Follows ==
    \/ toClient' = toClient /\ Seen(agent'.machine) = Seen(agent.machine)
    \/ \E m \in Message : /\ toClient' = Append(toClient, m)
                          /\ Seen(agent'.machine) = Then(Seen(agent.machine), m)
    \/ ExitTold'

LEMMA AgentFollows ==
    ASSUME Types, StageInv, IdsInv, StartInv, AgentNext, client.session \in Live
    PROVE  Follows
<1>1. PICK no \in BOOLEAN, yes \in BOOLEAN : no = FALSE /\ yes = TRUE
  OBVIOUS
<1>2. agent.command.stage # "none" =>
         agent.command.id \in 1 .. MaxRequests /\ agent.command.type \in RequestType
  BY DEF StageInv
<1>3. ASSUME NEW c, c.id \in 1 .. MaxRequests, c.type \in RequestType,
             NEW ok \in BOOLEAN, toClient' = Append(toClient, Answer(c, ok)),
             Seen(agent'.machine) = IF ok /\ c.type # "target:stop" THEN After(c.type)
                                                                  ELSE Seen(agent.machine)
      PROVE  Follows
  <2>1. PICK m \in Message : m = Answer(c, ok)
    BY <1>3, AnswerFields
  <2>2. m.type = c.type /\ m.ok = ok
    BY <1>3, <2>1, AnswerFields
  <2>3. Then(Seen(agent.machine), m) = IF ok /\ c.type # "target:stop" THEN After(c.type)
                                                                  ELSE Seen(agent.machine)
    BY <1>3, <2>2 DEF Then, Changes, Metrics, RequestType
  <2>. QED
    BY <1>3, <2>1, <2>3 DEF Follows
<1>4. CASE AgentStarts \/ AgentCloses \/ AgentDies
  <2>1. \A m \in Message :
           m.type \in {"agent:ready", "agent:error"} =>
              Then(Seen(agent.machine), m) = Seen(agent.machine)
    BY DEF Then, Changes, Metrics
  <2>. QED
    BY <1>4, <2>1, ProcessFields DEF Follows
<1>5. CASE TakeCommand
  <2>1. /\ Head(toAgent).id \in 1 .. MaxRequests /\ Head(toAgent).type \in RequestType
        /\ Head(toAgent) \in Elems(toAgent)
    BY <1>5, TakeFields, RequestFields
  <2>2. Head(toAgent).type # "target:stop"
    BY <2>1 DEF StartInv, Live
  <2>3. \/ agent' = agent /\ toClient' = Append(toClient, Answer(Head(toAgent), no))
        \/ agent'.machine = agent.machine /\ toClient' = toClient
        \/ /\ agent.machine = "none" /\ agent'.machine = "starting" /\ toClient' = toClient
    BY <1>1, <1>5, <2>2, TakeFields
  <2>4. Seen("none") = Seen("starting")
    BY DEF Seen
  <2>. QED
    BY <1>1, <1>3, <2>1, <2>3, <2>4 DEF Follows
<1>6. CASE Fork \/ TargetTimeout \/ TerminationFails
  <2>1. /\ agent.command.stage # "none"
        /\ \/ agent'.machine = agent.machine
           \/ agent.machine = "starting" /\ agent'.machine = "failed"
    BY <1>6, ForkFields, GiveUpFields DEF FailsCommand
  <2>2. UNCHANGED toClient \/ toClient' = Append(toClient, Answer(agent.command, no))
    BY <1>1, <1>6, ForkFields, GiveUpFields DEF FailsCommand
  <2>3. Seen(agent'.machine) = Seen(agent.machine)
    BY <2>1 DEF Seen
  <2>. QED
    BY <1>1, <1>2, <1>3, <2>1, <2>2, <2>3 DEF Follows
<1>7. CASE HearTarget
  <2>1. CASE UNCHANGED <<agent, toClient>>
    BY <2>1 DEF Follows
  <2>2. CASE /\ agent.command.stage \in {"boot", "target"}
             /\ agent'.machine = After(agent.command.type)
             /\ toClient' = Append(toClient, Answer(agent.command, yes))
    <3>1. agent.command.type # "target:stop"
      BY <2>2 DEF StageInv, Metrics
    <3>2. Seen(agent'.machine) = After(agent.command.type)
      BY <2>2 DEF Seen, After
    <3>. QED
      BY <1>1, <1>2, <1>3, <2>2, <3>1, <3>2
  <2>3. CASE /\ agent.command.stage = "target" /\ agent'.machine = agent.machine
             /\ toClient' = Append(toClient, Answer(agent.command, no))
    BY <1>1, <1>2, <1>3, <2>3
  <2>4. After("target:start") = "ready"
    BY DEF After
  <2>. QED
    BY <1>1, <1>7, <2>1, <2>2, <2>3, <2>4, HearFields
<1>8. CASE SeeExit
  <2>1. PICK told \in Seq(Message), ok \in BOOLEAN :
                 /\ \/ told = toClient /\ ~ExitUnexpected(agent)
                    \/ /\ ExitUnexpected(agent) /\ Event("target:exit", FALSE) \in Message
                       /\ told = Append(toClient, Event("target:exit", FALSE))
                 /\ \/ /\ toClient' = told
                       /\ agent'.machine = IF ExitUnexpected(agent) THEN "failed" ELSE agent.machine
                    \/ /\ agent.command.stage # "none"
                       /\ ok = (agent.command.stage = "terminate")
                       /\ Answer(agent.command, ok) \in Message
                       /\ toClient' = Append(told, Answer(agent.command, ok))
                       /\ \/ agent'.machine = IF ExitUnexpected(agent) THEN "failed" ELSE agent.machine
                          \/ agent.machine = "stopping" /\ agent'.machine = "stopped"
    BY <1>8, ExitFields
  <2>2. CASE /\ Event("target:exit", no) \in Message
             /\ told = Append(toClient, Event("target:exit", no))
    <3>1. PICK e \in Message : e = Event("target:exit", no)
      BY <2>2
    <3>2. e.id = 0 /\ e.type = "target:exit"
      BY <3>1 DEF Event
    <3>3. e \in Elems(told)
      BY <2>2, <3>1, QueueAppend DEF Types
    <3>4. Elems(told) \subseteq Elems(toClient')
      <4>1. toClient' = told \/ \E n \in Message : toClient' = Append(told, n)
        BY <2>1
      <4>2. \A n \in Message : Elems(told) \subseteq Elems(Append(told, n))
        BY QueueAppend
      <4>. QED
        BY <4>1, <4>2
    <3>. QED
      BY <3>2, <3>3, <3>4 DEF Follows, ExitTold
  <2>3. CASE told = toClient /\ ~ExitUnexpected(agent)
    <3>1. Seen(agent'.machine) = Seen(agent.machine)
      BY <2>1, <2>3 DEF Seen
    <3>2. CASE toClient' = told
      BY <2>3, <3>1, <3>2 DEF Follows
    <3>3. CASE /\ agent.command.stage # "none" /\ ok = (agent.command.stage = "terminate")
               /\ toClient' = Append(told, Answer(agent.command, ok))
      <4>1. ok => agent.command.type = "target:stop"
        BY <3>3 DEF StageInv
      <4>. QED
        BY <1>2, <1>3, <2>3, <3>1, <3>3, <4>1
    <3>. QED
      BY <2>1, <3>2, <3>3
  <2>. QED
    BY <1>1, <2>1, <2>2, <2>3
<1>. QED
  BY <1>4, <1>5, <1>6, <1>7, <1>8 DEF AgentNext

\* The agent's messages leave the pipe only by the runner's hand.
LEMMA ToClientGrows ==
    ASSUME Types, StageInv, IdsInv, AgentNext
    PROVE  Elems(toClient) \subseteq Elems(toClient')
<1>0. ASSUME NEW q \in Seq(Message), NEW m \in Message
      PROVE  Append(q, m) \in Seq(Message) /\ Elems(q) \subseteq Elems(Append(q, m))
  BY QueueAppend
<1>. SUFFICES \/ toClient' = toClient
              \/ \E m \in Message : toClient' = Append(toClient, m)
              \/ \E m \in Message, n \in Message : toClient' = Append(Append(toClient, m), n)
  <2>1. toClient \in Seq(Message)
    BY DEF Types
  <2>2. ASSUME NEW m \in Message, NEW n \in Message, toClient' = Append(Append(toClient, m), n)
        PROVE  Elems(toClient) \subseteq Elems(toClient')
    <3>1. PICK q \in Seq(Message) : q = Append(toClient, m)
      BY <1>0, <2>1
    <3>2. Elems(toClient) \subseteq Elems(q) /\ Elems(q) \subseteq Elems(toClient')
      BY <1>0, <2>1, <2>2, <3>1
    <3>. QED
      BY <3>2
  <2>. QED
    BY <1>0, <2>1, <2>2
<1>1. CASE AgentStarts \/ AgentCloses \/ AgentDies
  BY <1>1, ProcessFields
<1>2. CASE TakeCommand
  BY <1>2, TakeFields
<1>3. CASE Fork
  BY <1>3, ForkFields
<1>4. CASE HearTarget
  BY <1>4, HearFields
<1>5. CASE TargetTimeout \/ TerminationFails
  BY <1>5, GiveUpFields DEF FailsCommand
<1>6. CASE SeeExit
  BY <1>6, ExitFields
<1>. QED
  BY <1>1, <1>2, <1>3, <1>4, <1>5, <1>6 DEF AgentNext

LEMMA SyncByAgent ==
    ASSUME Types, StageInv, IdsInv, StartInv, SyncInv, AgentNext
    PROVE  SyncInv'
<1>1. UNCHANGED client
  BY AgentMoves
<1>. SUFFICES ASSUME client.session \in Live, ~client.failure, ~ExitTold'
              PROVE  \E mid \in Live : Leading(mid)'
  BY <1>1 DEF SyncInv, Live, Leading
<1>2. ~ExitTold
  BY ToClientGrows DEF ExitTold
<1>3. PICK mid \in Live : Leading(mid)
  BY <1>2 DEF SyncInv, Live, Leading
<1>4. Leads(mid, toClient', Seen(agent'.machine))
  <2>1. CASE toClient' = toClient /\ Seen(agent'.machine) = Seen(agent.machine)
    BY <1>3, <2>1 DEF Leading
  <2>2. ASSUME NEW m \in Message, toClient' = Append(toClient, m),
               Seen(agent'.machine) = Then(Seen(agent.machine), m)
        PROVE  Leads(mid, toClient', Seen(agent'.machine))
    BY <1>3, <2>2, LeadsAppend DEF Leading, Types
  <2>. QED
    BY <2>1, <2>2, AgentFollows DEF Follows
<1>5. Leading(mid)'
  BY <1>1, <1>3, <1>4 DEF Leading
<1>. QED
  BY <1>3, <1>5

LEMMA SyncNext ==
    ASSUME Types, StageInv, IdsInv, FailedInv, StartInv, SyncInv, Next
    PROVE  SyncInv'
<1>1. CASE TargetNext
  BY <1>1, TargetFields DEF SyncInv, ExitTold
<1>. QED
  BY <1>1, SyncByRunner, SyncByAgent DEF Next
--------------------------------------------------------------------------------
(* The target measures as the agent believes *)

LEMMA MeasuringNext ==
    ASSUME Types, StageInv, IdsInv, FailedInv, MeasuringInv, Next
    PROVE  MeasuringInv'
<1>. SUFFICES ASSUME ~agent'.lost, target'.process # "exited"
              PROVE  /\ Alone(ipcOut', Answers)
                     /\ target'.process = "up" \/ ~target'.measuring
                     /\ Idle' \/ ToAnswer' \/ Answered'
  BY DEF MeasuringInv
<1>1. target.process # "exited"
  BY ExitedForGood
<1>2. ~agent.lost
  <2>1. CASE Runner
    BY <2>1, RunnerFields
  <2>2. CASE AgentNext
    BY <2>2, ProcessFields, TakeFields, ForkFields, HearFields, GiveUpFields, ExitFields DEF AgentNext
  <2>3. CASE TargetNext
    BY <2>3, TargetFields
  <2>. QED
    BY <2>1, <2>2, <2>3 DEF Next
<1>3. /\ Alone(ipcOut, Answers)
      /\ target.process = "up" \/ ~target.measuring
      /\ Idle \/ ToAnswer \/ Answered
  BY <1>1, <1>2 DEF MeasuringInv
<1>4. agent \in Agent /\ target \in Target /\ ipcOut \in Seq(Message) /\ ipcIn \in Seq(Request)
  BY DEF Types
<1>5. CASE /\ UNCHANGED <<target, ipcIn, ipcOut>>
           /\ agent'.command = agent.command /\ agent'.machine = agent.machine
  BY <1>3, <1>5 DEF Idle, ToAnswer, Answered, Agreed
<1>6. CASE Runner
  BY <1>5, <1>6, RunnerFields
<1>7. CASE AgentStarts \/ AgentCloses \/ AgentDies
  BY <1>5, <1>7, ProcessFields
<1>8. CASE TakeCommand
  <2>1. UNCHANGED <<target, ipcOut>> /\ Idle
    BY <1>3, <1>8, TakeFields, NoCommandFields DEF ToAnswer, Answered
  <2>2. PICK r \in Request : r = Head(toAgent)
    BY <1>8, TakeFields
  <2>3. CASE UNCHANGED <<agent, ipcIn>>
    BY <1>5, <2>1, <2>3
  <2>4. CASE /\ agent'.command = [id |-> r.id, type |-> r.type, stage |-> "target"]
             /\ agent'.machine = agent.machine /\ ipcIn' = Append(ipcIn, r)
    <3>1. r = [id |-> r.id, type |-> r.type]
      BY DEF Request
    <3>2. ipcIn' = <<r>>
      BY <2>1, <2>4 DEF Idle
    <3>3. agent'.command.stage = "target" /\ agent'.command.id = r.id /\ agent'.command.type = r.type
      BY <2>4
    <3>4. ToAnswer'
      BY <2>1, <2>4, <3>1, <3>2, <3>3 DEF ToAnswer, Idle, Agreed
    <3>. QED
      BY <1>3, <2>1, <3>4
  <2>5. CASE /\ agent'.command.stage # "target" /\ UNCHANGED ipcIn
             /\ \/ agent.machine = "none" /\ agent'.machine = "starting"
                \/ agent'.machine = "stopping"
    <3>1. Idle'
      BY <1>4, <2>1, <2>5 DEF Idle, Agreed
    <3>. QED
      BY <1>3, <2>1, <3>1
  <2>6. CASE \E stage \in {"port", "terminate"} :
               /\ agent'.command = [id |-> r.id, type |-> r.type, stage |-> stage]
               /\ UNCHANGED ipcIn
               /\ \/ agent.machine = "none" /\ agent'.machine = "starting"
                  \/ agent'.machine = "stopping"
    <3>1. agent'.command.stage # "target"
      BY <2>6
    <3>. QED
      BY <2>5, <2>6, <3>1
  <2>. QED
    BY <1>8, <2>2, <2>3, <2>4, <2>6, TakeFields
<1>9. CASE Fork
  <2>1. /\ UNCHANGED <<ipcIn, ipcOut>> /\ target'.measuring = target.measuring
        /\ agent.machine = "starting" /\ target.process = "none" /\ Idle
    BY <1>3, <1>9, ForkFields DEF ToAnswer, Answered
  <2>2. /\ agent'.command.stage # "target"
        /\ agent'.machine \in {"starting", "failed"}
    BY <1>9, ForkFields, NoCommandFields
  <2>3. Idle'
    BY <2>1, <2>2 DEF Idle, Agreed
  <2>. QED
    BY <1>3, <2>1, <2>3
<1>10. CASE HearTarget
  <2>. DEFINE m == Head(ipcOut)
  <2>1. /\ ipcOut # <<>> /\ ipcOut' = Tail(ipcOut) /\ UNCHANGED <<target, ipcIn>>
    BY <1>10, HearFields
  <2>2. /\ m \in Message /\ m \in Elems(ipcOut) /\ Elems(ipcOut) = {m} \cup Elems(ipcOut')
        /\ Alone(ipcOut', Answers) /\ (m \in Answers => Elems(ipcOut') \cap Answers = {})
    BY <1>3, <1>4, <2>1, QueueTail, AloneTail
  <2>3. CASE agent' = agent /\ ~(agent.command.stage = "target" /\ m.id = agent.command.id)
    <3>1. Idle => Idle'
      BY <2>1, <2>2, <2>3 DEF Idle, Agreed
    <3>2. ToAnswer => ToAnswer'
      BY <2>1, <2>2, <2>3 DEF ToAnswer, Agreed
    <3>3. Answered => Answered'
      BY <2>1, <2>2, <2>3 DEF Answered
    <3>. QED
      BY <1>3, <2>1, <2>2, <3>1, <3>2, <3>3
  <2>4. CASE /\ agent.command.stage = "boot" /\ agent.machine = "starting"
             /\ agent'.machine = "ready" /\ agent'.command = NoCommand
    <3>1. Idle
      BY <1>3, <2>4 DEF ToAnswer, Answered
    <3>2. Idle'
      BY <2>1, <2>2, <2>4, <3>1, NoCommandFields DEF Idle, Agreed
    <3>. QED
      BY <1>3, <2>1, <2>2, <3>2
  <2>5. CASE /\ agent.command.stage = "target" /\ m.id = agent.command.id
             /\ agent'.command = NoCommand
             /\ agent'.machine = IF m.ok THEN After(agent.command.type) ELSE agent.machine
    <3>1. agent.command.id # 0 /\ agent.command.type \in Metrics
          /\ agent.machine \in {"ready", "measuring"}
      BY <2>5, MaxRequestsAssumption DEF StageInv
    <3>2. m \in Answers
      BY <2>2, <2>5, <3>1 DEF Answers
    <3>3. Answered /\ Elems(ipcOut') \cap Answers = {}
      BY <1>3, <2>2, <2>5, <3>2 DEF Idle, ToAnswer
    <3>4. PICK w \in Elems(ipcOut) :
             /\ w.id = agent.command.id /\ w.type = agent.command.type
             /\ target.measuring = IF w.ok THEN agent.command.type = "metrics:start"
                                           ELSE agent.machine = "measuring"
      BY <3>3 DEF Answered
    <3>5. w \in Answers
      BY <1>4, <3>1, <3>4, ElemsTyped DEF Answers
    <3>6. w = m
      BY <2>2, <3>3, <3>5
    <3>7. target.measuring = (agent'.machine = "measuring")
      BY <2>5, <3>1, <3>4, <3>6 DEF After, Metrics
    <3>8. Idle'
      BY <2>1, <2>5, <3>3, <3>7, NoCommandFields DEF Idle, Answered, Agreed
    <3>. QED
      BY <1>3, <2>1, <2>2, <3>8
  <2>. QED
    BY <1>10, <2>3, <2>4, <2>5, HearFields
<1>11. CASE TargetTimeout \/ TerminationFails
  <2>1. /\ UNCHANGED <<target, ipcIn, ipcOut>> /\ agent.command.stage # "target"
        /\ agent'.command.stage # "target"
        /\ agent'.machine \in {agent.machine, "failed"}
    BY <1>11, GiveUpFields, NoCommandFields DEF FailsCommand
  <2>2. Idle
    BY <1>3, <2>1 DEF ToAnswer, Answered
  <2>3. Idle'
    BY <2>1, <2>2 DEF Idle, Agreed
  <2>. QED
    BY <1>3, <2>1, <2>3
<1>12. CASE SeeExit
  BY <1>1, <1>12, ExitFields
<1>13. CASE TargetNext
  <2>1. UNCHANGED agent
    BY <1>13, TargetFields
  <2>2. CASE /\ target.process = "booting" /\ target'.process = "up"
             /\ target'.measuring = target.measuring /\ UNCHANGED ipcIn
             /\ \E m \in Message : m.id = 0 /\ ipcOut' = Append(ipcOut, m)
    <3>1. PICK m \in Message : m.id = 0 /\ ipcOut' = Append(ipcOut, m)
      BY <2>2
    <3>2. m \notin Answers /\ Elems(ipcOut') = Elems(ipcOut) \cup {m}
      BY <1>4, <3>1, QueueAppend DEF Answers
    <3>3. Alone(ipcOut', Answers)
      BY <1>3, <1>4, <3>1, <3>2, AloneAppend
    <3>4. Idle' \/ ToAnswer' \/ Answered'
      BY <1>3, <2>1, <2>2, <3>2 DEF Idle, ToAnswer, Answered, Agreed
    <3>. QED
      BY <2>2, <3>3, <3>4
  <2>3. CASE /\ target.process = "up" /\ target'.process = "up" /\ ipcIn # <<>>
             /\ ipcIn' = Tail(ipcIn)
             /\ \E m \in Message :
                   /\ m.id = Head(ipcIn).id /\ m.type = Head(ipcIn).type
                   /\ ipcOut' = Append(ipcOut, m)
                   /\ m.ok = (target.measuring = (m.type = "metrics:stop"))
                   /\ target'.measuring = IF m.ok THEN m.type = "metrics:start"
                                                  ELSE target.measuring
    <3>1. ToAnswer
      BY <1>3, <2>3 DEF Idle, Answered
    <3>2. PICK r : r = [id |-> agent.command.id, type |-> agent.command.type] /\ ipcIn = <<r>>
      BY <3>1 DEF ToAnswer
    <3>3. r.id = agent.command.id /\ r.type = agent.command.type /\ Head(ipcIn) = r /\ Tail(ipcIn) = <<>>
      BY <3>2
    <3>4. PICK m \in Message :
             /\ m.id = agent.command.id /\ m.type = agent.command.type
             /\ ipcOut' = Append(ipcOut, m)
             /\ target'.measuring = IF m.ok THEN agent.command.type = "metrics:start"
                                            ELSE target.measuring
      BY <2>3, <3>3
    <3>5. Elems(ipcOut') = Elems(ipcOut) \cup {m} /\ Alone(ipcOut', Answers)
      BY <1>3, <1>4, <3>1, <3>4, QueueAppend, AloneAppend DEF ToAnswer
    <3>6. target.measuring = (agent.machine = "measuring")
      BY <3>1 DEF ToAnswer, Agreed, StageInv
    <3>7. Answered'
      BY <2>1, <2>3, <3>1, <3>3, <3>4, <3>5, <3>6 DEF Answered, ToAnswer
    <3>. QED
      BY <2>3, <3>5, <3>7
  <2>. QED
    BY <1>13, <2>2, <2>3, TargetFields
<1>. QED
  BY <1>6, <1>7, <1>8, <1>9, <1>10, <1>11, <1>12, <1>13 DEF Next, AgentNext
--------------------------------------------------------------------------------
(* The invariant and what it says *)

LEMMA InitHolds == Init => IInv
<1>. SUFFICES ASSUME Init
              PROVE  IInv
  OBVIOUS
<1>1. Types
  BY EmptySeq DEF Init, Types, Client, Agent, Target, NoCommand
<1>2. StageInv
  BY DEF Init, StageInv, NoCommand
<1>3. /\ Elems(toAgent) = {} /\ Elems(ipcIn) = {} /\ Elems(ipcOut) = {}
      /\ Elems(toClient) = {} /\ Elems(client.settled) = {}
      /\ client.session = "none" /\ agent.command = NoCommand /\ agent.machine = "none"
      /\ ~client.failure /\ client.settled = <<>> /\ toClient = <<>>
  BY EmptyQueue DEF Init
<1>4. IdsInv
  <2>1. PICK f : f = [i \in 1 .. MaxRequests |-> "target:start"]
    OBVIOUS
  <2>2. f \in [1 .. MaxRequests -> RequestType] /\ Named(f)
    BY <1>3, <2>1, NoCommandFields DEF Named, RequestType
  <2>. QED
    BY <2>2 DEF IdsInv
<1>5. GoneInv /\ FailedInv
  BY <1>3 DEF GoneInv, FailedInv
<1>6. StartInv
  BY <1>3, EmptyQueue, NoCommandFields DEF StartInv, Metrics
<1>7. SyncInv
  <2>1. Leads("none", <<>>, "none")
    BY EmptyQueue DEF Leads
  <2>2. Seen("none") = "none"
    BY DEF Seen
  <2>. QED
    BY <1>3, <2>1, <2>2 DEF SyncInv
<1>8. MeasuringInv
  BY <1>3, EmptyQueue, NoCommandFields DEF Init, MeasuringInv, Idle, Agreed
<1>. QED
  BY <1>1, <1>2, <1>4, <1>5, <1>6, <1>7, <1>8 DEF IInv

LEMMA IInvNext == IInv /\ [Next]_vars => IInv'
<1>. SUFFICES ASSUME IInv, [Next]_vars
              PROVE  IInv'
  OBVIOUS
<1>1. CASE Next
  BY <1>1, TypesNext, StageNext, IdsNext, GoneNext, FailedNext, StartNext, SyncNext, MeasuringNext
     DEF IInv
<1>2. CASE UNCHANGED vars
  <2>1. Types' /\ GoneInv' /\ FailedInv'
    BY <1>2 DEF vars, IInv, Types, GoneInv, FailedInv
  <2>2. StageInv' /\ StartInv'
    BY <1>2 DEF vars, IInv, StageInv, StartInv
  <2>3. IdsInv'
    BY <1>2 DEF vars, IInv, IdsInv, Named
  <2>4. SyncInv'
    BY <1>2 DEF vars, IInv, SyncInv, ExitTold
  <2>5. MeasuringInv'
    BY <1>2 DEF vars, IInv, MeasuringInv, Idle, ToAnswer, Answered, Agreed
  <2>. QED
    BY <2>1, <2>2, <2>3, <2>4, <2>5 DEF IInv
<1>. QED
  BY <1>1, <1>2

LEMMA Invariant == Spec => []IInv
BY InitHolds, IInvNext, PTL DEF Spec

\* A queue that is empty leads nowhere.
LEMMA LeadsNowhere == \A s, t : Leads(s, <<>>, t) => t = s
BY EmptyQueue DEF Leads

\* stop() succeeds, and the session says "stopped", only when the target process
\* has exited: however the answer, the exit and the deadlines interleave.
THEOREM StoppedMeansGoneHolds == Spec => []StoppedMeansGone
<1>1. IInv => StoppedMeansGone
  BY DEF IInv, GoneInv, StoppedMeansGone
<1>. QED
  BY <1>1, Invariant, PTL

\* Whenever nothing is under way between them, the session is in the agent's state
\* and the target measures as it says, unless the agent has given up a command.
THEOREM StatesAgreeHolds == Spec => []StatesAgree
<1>1. IInv => StatesAgree
  <2>. SUFFICES ASSUME IInv
                PROVE  StatesAgree
    OBVIOUS
  <2>1. /\ client \in Client /\ agent \in Agent /\ target \in Target
        /\ {toAgent, ipcIn} \subseteq Seq(Request)
        /\ {toClient, ipcOut} \subseteq Seq(Message)
    BY DEF IInv, Types
  <2>2. client.failure => client.session \notin {"ready", "measuring", "stopping"}
    BY DEF IInv, FailedInv
  <2>3. ASSUME Quiet, client.session \in {"ready", "measuring"}
        PROVE  agent.machine = client.session
    <3>1. client.settled = <<>> /\ toClient = <<>>
      BY <2>3 DEF Quiet
    <3>2. ~client.failure /\ ~ExitTold
      BY <2>2, <2>3, <3>1, EmptyQueue DEF ExitTold
    <3>3. PICK mid : /\ Leads(client.session, client.settled, mid)
                     /\ Leads(mid, toClient, Seen(agent.machine))
      BY <2>3, <3>2 DEF IInv, SyncInv
    <3>4. Seen(agent.machine) = client.session
      BY <3>1, <3>3, LeadsNowhere
    <3>. QED
      BY <2>3, <3>4 DEF Seen
  <2>4. ASSUME Quiet, client.session \in {"ready", "measuring"}, target.process = "up", ~agent.lost
        PROVE  target.measuring = (client.session = "measuring")
    <3>1. agent.command.stage = "none" /\ agent.machine = client.session
      BY <2>3, <2>4, NoCommandFields DEF Quiet
    <3>2. Idle
      BY <2>4, <3>1 DEF IInv, MeasuringInv, ToAnswer, Answered
    <3>. QED
      BY <2>4, <3>1, <3>2 DEF Idle, Agreed
  <2>. QED
    BY <2>1, <2>2, <2>3, <2>4 DEF StatesAgree
<1>. QED
  BY <1>1, Invariant, PTL
================================================================================
