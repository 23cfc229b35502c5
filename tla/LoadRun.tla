-------------------------------- MODULE LoadRun --------------------------------
(***************************************************************************)
(* One load run: LoadCoordinator.run() in the main thread, its worker      *)
(* threads, and the message ports between them.  A worker is what          *)
(* WorkerContract says of it, and may be slow, hang or die; the            *)
(* coordinator waits for one message of each worker at a time.             *)
(*                                                                         *)
(* The main thread runs one callback at a time, and the promise reactions  *)
(* of a callback before the next one: an action is a callback and the      *)
(* continuation of run() it releases.                                      *)
(***************************************************************************)
EXTENDS Naturals, Sequences, FiniteSets

CONSTANTS
    Workers,        \* the worker threads
    MaxErrors       \* bound: workers that die of an uncaught exception

ASSUME WorkersAssumption == IsFiniteSet(Workers) /\ Workers # {}
ASSUME MaxErrorsAssumption == MaxErrors \in Nat

VARIABLES
    withWarmup,     \* warmupMs > 0, a parameter of the run
    stage,          \* where run() is: what it awaits, or how far its finally is
    outcome,        \* what run() is going to settle with
    waits,          \* waits[w]: the message #waitForWorkerMessage waits for
    sampling,       \* the process memory sampler is running
    thread,         \* thread[w]: the thread of worker w
    phase,          \* phase[w]: #phase of worker w
    posted,         \* posted[w]: the messages worker w has posted
    delivered,      \* delivered[w]: how many of them the main thread has seen
    commands,       \* commands[w]: start commands worker w has not received yet
    errors          \* worker deaths so far

workerVars == <<withWarmup, thread, phase, posted, commands, errors>>
vars == <<stage, outcome, waits, sampling, delivered, workerVars>>

Waiting == {"startup", "warmup", "measurement"}
NoWait == "none"
Unheard == [w \in Workers |-> 0]

W(w) == INSTANCE WorkerContract WITH phase <- phase[w], posted <- posted[w]
--------------------------------------------------------------------------------
\* What start() does in a worker's thread, which runs once there is one: the
\* connections are being opened, or cannot be (as in Http1Worker).
Init ==
    /\ withWarmup \in BOOLEAN
    /\ stage = "created" /\ outcome = "pending"
    /\ waits = [w \in Workers |-> NoWait]
    /\ sampling = FALSE
    /\ thread = [w \in Workers |-> "absent"]
    /\ \E broken \in SUBSET Workers :
        /\ phase = [w \in Workers |-> IF w \in broken THEN "finished" ELSE "idle"]
        /\ posted = [w \in Workers |-> IF w \in broken THEN <<"fatal">> ELSE <<>>]
    /\ delivered = Unheard
    /\ commands = [w \in Workers |-> <<>>]
    /\ errors = 0

AwaitAll(message) == waits' = [w \in Workers |-> message]

\* The finally block begins: the sampler is stopped and every worker is being
\* terminated.  The waits that are still armed stay armed.
Leave(result, armed) ==
    /\ stage' = "terminating" /\ outcome' = result
    /\ waits' = armed
    /\ sampling' = FALSE

\* run(): an aborted signal ends it before there is anything to terminate.
RunAborted ==
    /\ stage = "created"
    /\ stage' = "settled" /\ outcome' = "rejected"
    /\ UNCHANGED <<waits, sampling, delivered, workerVars>>

\* #startWorkers and the waits for 'ready'; a Worker that cannot be created ends
\* the run with the workers before it already started.
Run(started) ==
    /\ stage = "created"
    /\ thread' = [w \in Workers |-> IF w \in started THEN "up" ELSE "absent"]
    /\ IF started = Workers
       THEN /\ stage' = "startup" /\ AwaitAll("ready")
            /\ UNCHANGED <<outcome, sampling>>
       ELSE Leave("rejected", waits)
    /\ UNCHANGED <<withWarmup, delivered, phase, posted, commands, errors>>

StartPhase(name) == commands' = [w \in Workers |-> Append(commands[w], name)]

\* Mutant: the waits for the end of the warmup are registered after it has begun.
BeginWarmupUnheard ==
    /\ stage' = "warmup" /\ StartPhase("warmup")
    /\ waits' = [w \in Workers |-> NoWait]
    /\ UNCHANGED <<outcome, sampling>>

BeginWarmup ==
    /\ stage' = "warmup" /\ AwaitAll("warmup-complete") /\ StartPhase("warmup")
    /\ UNCHANGED <<outcome, sampling>>

BeginMeasurement ==
    /\ stage' = "measurement" /\ AwaitAll("result") /\ StartPhase("measurement")
    /\ sampling' = TRUE
    /\ UNCHANGED outcome

\* All waits of the stage have resolved.
Advance ==
    IF stage = "measurement"
    THEN Leave("resolved", [w \in Workers |-> NoWait]) /\ UNCHANGED commands
    ELSE IF stage = "startup" /\ withWarmup THEN BeginWarmup ELSE BeginMeasurement

\* Mutant: the first answer releases the phase (Promise.any for Promise.all).
AnswerReleases(w) ==
    IF stage \in Waiting
    THEN Advance
    ELSE /\ waits' = [waits EXCEPT ![w] = NoWait]
         /\ UNCHANGED <<stage, outcome, sampling, commands>>

\* The wait for worker w resolves.
Answered(w) ==
    IF stage \in Waiting /\ \A v \in Workers \ {w} : waits[v] = NoWait
    THEN Advance
    ELSE /\ waits' = [waits EXCEPT ![w] = NoWait]
         /\ UNCHANGED <<stage, outcome, sampling, commands>>

\* Mutant: once the run is over, a wait that was left behind is not cleaned up.
FailedOnce(w) ==
    IF stage \in Waiting
    THEN Leave("rejected", [waits EXCEPT ![w] = NoWait])
    ELSE UNCHANGED <<stage, outcome, waits, sampling>>

\* The wait for worker w rejects, and with it the run; the run is over already
\* when the wait was left behind by the failure of another one.
Failed(w) ==
    IF stage \in Waiting
    THEN Leave("rejected", [waits EXCEPT ![w] = NoWait])
    ELSE /\ waits' = [waits EXCEPT ![w] = NoWait]
         /\ UNCHANGED <<stage, outcome, sampling>>
--------------------------------------------------------------------------------
(* Callbacks of the main thread *)

\* A settled run is over, and a crashed process.
Alive == stage # "settled"

\* 'message': what nobody waits for is ignored.
Deliver(w) ==
    /\ Alive /\ thread[w] = "up" /\ delivered[w] < Len(posted[w])
    /\ delivered' = [delivered EXCEPT ![w] = @ + 1]
    /\ LET message == posted[w][delivered'[w]]
       IN  CASE waits[w] # NoWait /\ message = "fatal" -> Failed(w) /\ UNCHANGED commands
             [] waits[w] # NoWait /\ message = waits[w] -> Answered(w)
             [] OTHER -> UNCHANGED <<stage, outcome, waits, sampling, commands>>
    /\ UNCHANGED <<withWarmup, thread, phase, posted, errors>>

\* Mutant: only the startup has a deadline.
WaitTimeoutAtStartup(w) ==
    /\ Alive /\ waits[w] = "ready"
    /\ Failed(w)
    /\ UNCHANGED <<delivered, workerVars>>

WaitTimeout(w) ==
    /\ Alive /\ waits[w] # NoWait
    /\ Failed(w)
    /\ UNCHANGED <<delivered, workerVars>>

\* The signal reaches every wait that is armed.
Abort ==
    /\ stage \in Waiting \cup {"terminating"}
    /\ \E w \in Workers : waits[w] # NoWait
    /\ IF stage \in Waiting
       THEN Leave("rejected", [w \in Workers |-> NoWait])
       ELSE /\ waits' = [w \in Workers |-> NoWait]
            /\ UNCHANGED <<stage, outcome, sampling>>
    /\ UNCHANGED <<delivered, workerVars>>

\* A worker dies of an uncaught exception: 'error' rejects the wait, and without
\* a listener for it Node ends the process.
WorkerError(w) ==
    /\ Alive /\ thread[w] = "up" /\ errors < MaxErrors
    /\ errors' = errors + 1
    /\ thread' = [thread EXCEPT ![w] = "exiting"]
    /\ IF waits[w] # NoWait
       THEN Failed(w)
       ELSE /\ stage' = "settled" /\ outcome' = "crashed"
            /\ UNCHANGED <<waits, sampling>>
    /\ UNCHANGED <<withWarmup, delivered, phase, posted, commands>>

\* 'exit': the thread was terminated, died, or had nothing left to do once it
\* had closed its port; messages are delivered before the exit of its own.
WorkerExit(w) ==
    /\ \/ thread[w] = "exiting"
       \/ thread[w] = "up" /\ stage = "terminating"
       \/ thread[w] = "up" /\ phase[w] = "finished" /\ delivered[w] = Len(posted[w])
    /\ Alive
    /\ thread' = [thread EXCEPT ![w] = "gone"]
    /\ IF waits[w] # NoWait THEN Failed(w) ELSE UNCHANGED <<stage, outcome, waits, sampling>>
    /\ UNCHANGED <<withWarmup, delivered, phase, posted, commands, errors>>

\* Every terminate() has settled, and run() with them.
Settle ==
    /\ stage = "terminating"
    /\ \A w \in Workers : thread[w] \in {"absent", "gone"}
    /\ stage' = "settled"
    /\ UNCHANGED <<outcome, waits, sampling, delivered, workerVars>>
--------------------------------------------------------------------------------
(* The workers *)

\* Worker w takes a step of its own: it posts messages, or ends a phase.
Step(w, action) ==
    /\ Alive /\ thread[w] = "up"
    /\ action
    /\ UNCHANGED <<withWarmup, stage, outcome, waits, sampling, delivered, thread, errors>>

Becomes(w, next, messages) ==
    /\ phase' = [phase EXCEPT ![w] = next]
    /\ posted' = [posted EXCEPT ![w] = @ \o messages]

BecomeReady(w) ==
    /\ phase[w] = "idle" /\ posted[w] = <<>>
    /\ Becomes(w, "idle", <<"ready">>) /\ UNCHANGED commands

\* #startPhase refuses to start a phase in a worker that is not idle.
ReceiveStart(w) ==
    /\ commands[w] # <<>> /\ phase[w] # "finished"
    /\ commands' = [commands EXCEPT ![w] = Tail(@)]
    /\ IF phase[w] = "idle"
       THEN Becomes(w, Head(commands[w]), <<>>)
       ELSE Becomes(w, "finished", <<"fatal">>)

EndWarmup(w) ==
    /\ phase[w] = "warmup"
    /\ Becomes(w, "warmup-draining", <<>>) /\ UNCHANGED commands

CompleteWarmup(w) ==
    /\ phase[w] \in {"warmup", "warmup-draining"}
    /\ Becomes(w, "idle", <<"warmup-complete">>) /\ UNCHANGED commands

Finish(w) ==
    /\ phase[w] = "measurement"
    /\ Becomes(w, "finished", <<"result">>) /\ UNCHANGED commands

WorkerStep(w) ==
    \/ Step(w, BecomeReady(w))
    \/ Step(w, ReceiveStart(w))
    \/ Step(w, EndWarmup(w))
    \/ Step(w, CompleteWarmup(w))
    \/ Step(w, Finish(w))
--------------------------------------------------------------------------------
Callback(w) == Deliver(w) \/ WaitTimeout(w) \/ WorkerError(w) \/ WorkerExit(w)

Next ==
    \/ RunAborted
    \/ \E started \in SUBSET Workers : Run(started)
    \/ Abort
    \/ Settle
    \/ \E w \in Workers : Callback(w) \/ WorkerStep(w)

Spec == Init /\ [][Next]_vars

\* Nothing is asked of the workers: timers fire, and a thread that was told to
\* terminate, or died, exits.
Fairness ==
    /\ WF_vars(\E started \in SUBSET Workers : Run(started))
    /\ WF_vars(Settle)
    /\ \A w \in Workers : WF_vars(WaitTimeout(w)) /\ WF_vars(WorkerExit(w))

FairSpec == Spec /\ Fairness
--------------------------------------------------------------------------------
(* Properties *)

Messages == {"ready", "warmup-complete", "result", "fatal"}

\* The types of the variables; a worker posts at most one message a stage.
TypeOK ==
    /\ withWarmup \in BOOLEAN
    /\ stage \in Waiting \cup {"created", "terminating", "settled"}
    /\ outcome \in {"pending", "resolved", "rejected", "crashed"}
    /\ waits \in [Workers -> {NoWait, "ready", "warmup-complete", "result"}]
    /\ sampling \in BOOLEAN
    /\ thread \in [Workers -> {"absent", "up", "exiting", "gone"}]
    /\ \A w \in Workers :
        /\ phase[w] \in {"idle", "warmup", "warmup-draining", "measurement", "finished"}
        /\ posted[w] \in Seq(Messages) /\ Len(posted[w]) <= 3
        /\ delivered[w] \in 0 .. Len(posted[w])
        /\ commands[w] \in Seq({"warmup", "measurement"})
    /\ errors \in 0 .. MaxErrors

\* However slow the workers are and in whatever order their messages and the
\* deadlines come, no start command reaches a worker in a phase it refuses it
\* in: each goes through the phases of the contract and reports each once.
WorkersKeepContract ==
    /\ \A w \in Workers : W(w)!Init \/ W(w)!InitFailed
    /\ [][\A w \in Workers : [W(w)!Next]_(W(w)!contractVars)]_vars

\* The workers load the target together: none measures before every other one
\* has finished its warmup, its outstanding warmup requests included.
LockStep ==
    \A v, w \in Workers :
        phase[v] = "measurement" /\ thread[v] = "up" =>
            phase[w] \notin {"warmup", "warmup-draining"}

\* Every message of a live worker finds the wait it is for: none is posted
\* before the wait is registered, or behind an answer that moved it on.
NoAnswerDropped ==
    stage \in Waiting => \A w \in Workers :
        thread[w] = "up" => \A i \in delivered[w] + 1 .. Len(posted[w]) :
            posted[w][i] \in {waits[w], "fatal"}

\* The variables have their types, and when run() has settled nothing of it is
\* left: no thread, no sampler, and no armed wait whose timer would keep the
\* process alive.
CleanSettle ==
    /\ TypeOK
    /\ stage = "settled" /\ outcome # "crashed" =>
        /\ ~sampling
        /\ \A w \in Workers : waits[w] = NoWait /\ thread[w] \in {"absent", "gone"}

\* A run that resolves has the result of every worker, and none that failed,
\* timed out or exited on the way.
ResolvedMeansMeasured ==
    outcome = "resolved" =>
        \A w \in Workers : \E i \in 1 .. delivered[w] : posted[w][i] = "result"

\* A run settles although its workers may hang or die at any point.
Settles == <>(stage = "settled")
================================================================================
