----------------------------- MODULE LoadRunProofs -----------------------------
(***************************************************************************)
(* A load run keeps its workers in lock step, hears every answer, and      *)
(* leaves nothing behind: proved for any set of workers, however slow they *)
(* are, and for deaths, deadlines and aborts at any moment.                *)
(***************************************************************************)
EXTENDS LoadRun, SequenceTheorems, TLAPS

WarmedUp == Append(<<"ready">>, "warmup-complete")

\* What every worker has posted when stage s begins, and what is waited for in it.
Prior(s) ==
    CASE s = "startup" -> <<>>
      [] s = "warmup" -> <<"ready">>
      [] s = "measurement" -> IF withWarmup THEN WarmedUp ELSE <<"ready">>

Answer(s) ==
    CASE s = "startup" -> "ready"
      [] s = "warmup" -> "warmup-complete"
      [] s = "measurement" -> "result"

After(s) == Append(Prior(s), Answer(s))

\* Worker w is at work on stage s, or has not received its command yet.
AtWork(s, w) ==
    /\ posted[w] = Prior(s) /\ delivered[w] = Len(Prior(s))
    /\ \/ s = "startup" /\ phase[w] = "idle" /\ commands[w] = <<>>
       \/ s # "startup" /\ phase[w] = "idle" /\ commands[w] = <<s>>
       \/ s = "warmup" /\ phase[w] \in {"warmup", "warmup-draining"} /\ commands[w] = <<>>
       \/ s = "measurement" /\ phase[w] = "measurement" /\ commands[w] = <<>>

\* Worker w has posted its answer to stage s.
HasAnswered(s, w) ==
    /\ posted[w] = After(s)
    /\ delivered[w] \in {Len(Prior(s)), Len(Prior(s)) + 1}
    /\ phase[w] = IF s = "measurement" THEN "finished" ELSE "idle"
    /\ commands[w] = <<>>

\* Worker w could not open its connections.
HasFailed(s, w) ==
    /\ s = "startup"
    /\ posted[w] = <<"fatal">> /\ delivered[w] \in {0, 1}
    /\ phase[w] = "finished" /\ commands[w] = <<>>

\* The main thread has handled the answer of worker w to stage s.
Heard(s, w) == posted[w] = After(s) /\ delivered[w] = Len(Prior(s)) + 1

Position(s, w) == AtWork(s, w) \/ HasAnswered(s, w) \/ HasFailed(s, w)

\* Every worker is in the same stage of the run, also when run() has left it.
InStage(s) ==
    /\ s = "warmup" => withWarmup
    /\ \A w \in Workers : Position(s, w)

\* While run() waits, it waits for exactly the workers it has not heard, and
\* these are alive.
WaitMatches(s, w) ==
    IF Heard(s, w)
    THEN /\ waits[w] = NoWait
         /\ thread[w] = "up" \/ (thread[w] = "gone" /\ s = "measurement")
    ELSE /\ waits[w] = Answer(s) /\ thread[w] = "up"
         /\ delivered[w] = Len(Prior(s))

\* The stage that all workers are in, and what the coordinator has to do with it.
Together(s) ==
    /\ InStage(s)
    /\ stage = "created" => s = "startup" /\ delivered = Unheard
    /\ stage \in Waiting => stage = s /\ \A w \in Workers : WaitMatches(s, w)
    /\ outcome = "resolved" => \A w \in Workers : s = "measurement" /\ Heard(s, w)

StageInv == \E s \in Waiting : Together(s)

\* How far run() is, what it will settle with, and what it may leave behind.
EndInv ==
    /\ outcome = "pending" <=> stage \in Waiting \cup {"created"}
    /\ outcome = "crashed" => stage = "settled"
    /\ stage = "created" => \A w \in Workers : thread[w] = "absent" /\ waits[w] = NoWait
    /\ sampling => stage = "measurement" \/ outcome = "crashed"
    /\ \A w \in Workers : thread[w] \in {"absent", "gone"} => waits[w] = NoWait
    /\ stage = "settled" /\ outcome # "crashed" =>
          \A w \in Workers : thread[w] \in {"absent", "gone"}

\* The types of the variables, each as a function of the workers.
Types ==
    /\ withWarmup \in BOOLEAN
    /\ stage \in Waiting \cup {"created", "terminating", "settled"}
    /\ outcome \in {"pending", "resolved", "rejected", "crashed"}
    /\ waits \in [Workers -> {NoWait, "ready", "warmup-complete", "result"}]
    /\ sampling \in BOOLEAN
    /\ thread \in [Workers -> {"absent", "up", "exiting", "gone"}]
    /\ phase \in [Workers -> {"idle", "warmup", "warmup-draining", "measurement", "finished"}]
    /\ posted \in [Workers -> Seq(Messages)]
    /\ delivered \in [Workers -> Nat]
    /\ commands \in [Workers -> Seq({"warmup", "measurement"})]
    /\ errors \in 0 .. MaxErrors

IInv == Types /\ StageInv /\ EndInv
--------------------------------------------------------------------------------
(* The messages of a stage *)

\* Every history a worker can have is a sequence of messages.
LEMMA Histories ==
    /\ <<>> \in Seq(Messages) /\ <<"fatal">> \in Seq(Messages)
    /\ <<"ready">> \in Seq(Messages) /\ WarmedUp \in Seq(Messages)
    /\ Len(<<>>) = 0 /\ Len(<<"ready">>) = 1 /\ Len(WarmedUp) = 2
    /\ Len(<<"fatal">>) = 1 /\ <<"fatal">>[1] = "fatal"
    /\ <<"ready">>[1] = "ready" /\ WarmedUp[1] = "ready" /\ WarmedUp[2] = "warmup-complete"
    /\ Append(<<>>, "ready") = <<"ready">>
<1>1. <<>> \in Seq(Messages) /\ Len(<<>>) = 0
  OBVIOUS
<1>2. <<"fatal">> \in Seq(Messages) /\ Len(<<"fatal">>) = 1 /\ <<"fatal">>[1] = "fatal"
  BY DEF Messages
<1>3. <<"ready">> \in Seq(Messages) /\ Len(<<"ready">>) = 1 /\ <<"ready">>[1] = "ready"
  BY DEF Messages
<1>4. "warmup-complete" \in Messages
  BY DEF Messages
<1>5. /\ WarmedUp \in Seq(Messages) /\ Len(WarmedUp) = 2
      /\ WarmedUp[1] = "ready" /\ WarmedUp[2] = "warmup-complete"
  BY <1>3, <1>4, AppendProperties DEF WarmedUp
<1>6. Append(<<>>, "ready") = <<"ready">>
  OBVIOUS
<1>7. QED
  BY <1>1, <1>2, <1>3, <1>5, <1>6

\* What the history of a stage says before and after the answer to it.
LEMMA StageFacts ==
    ASSUME withWarmup \in BOOLEAN, NEW s \in Waiting
    PROVE  /\ Prior(s) \in Seq(Messages) /\ Len(Prior(s)) \in 0 .. 2
           /\ After(s) \in Seq(Messages) /\ Len(After(s)) = Len(Prior(s)) + 1
           /\ After(s)[Len(Prior(s)) + 1] = Answer(s)
           /\ \A i \in 1 .. Len(After(s)) : After(s)[i] # "fatal"
           /\ Answer(s) \in {"ready", "warmup-complete", "result"}
<1>1. Prior(s) \in {<<>>, <<"ready">>, WarmedUp}
  BY DEF Prior, Waiting
<1>2. Prior(s) \in Seq(Messages) /\ Len(Prior(s)) \in 0 .. 2
  <2>1. CASE Prior(s) = <<>>
    BY <2>1, Histories
  <2>2. CASE Prior(s) = <<"ready">>
    BY <2>2, Histories
  <2>3. CASE Prior(s) = WarmedUp
    BY <2>3, Histories
  <2>4. QED
    BY <1>1, <2>1, <2>2, <2>3
<1>3. Answer(s) \in {"ready", "warmup-complete", "result"}
  BY DEF Answer, Waiting
<1>4. Answer(s) \in Messages
  BY <1>3 DEF Messages
<1>5. /\ After(s) \in Seq(Messages) /\ Len(After(s)) = Len(Prior(s)) + 1
      /\ After(s)[Len(Prior(s)) + 1] = Answer(s)
      /\ \A i \in 1 .. Len(Prior(s)) : After(s)[i] = Prior(s)[i]
  BY <1>2, <1>4, AppendProperties DEF After
<1>6. \A i \in 1 .. Len(Prior(s)) : Prior(s)[i] # "fatal"
  BY <1>1, Histories
<1>7. \A i \in 1 .. Len(After(s)) : After(s)[i] # "fatal"
  BY <1>2, <1>3, <1>5, <1>6
<1>8. QED
  BY <1>2, <1>3, <1>5, <1>7

\* The histories of a stage are told apart, and by their lengths.
LEMMA StageHistories ==
    ASSUME withWarmup \in BOOLEAN, NEW s \in Waiting
    PROVE  Prior(s) # After(s) /\ <<"fatal">> \notin {Prior(s), After(s)} /\ After(s) # <<>>
<1>1. Prior(s) # After(s) /\ After(s) # <<>>
  BY StageFacts, Histories
<1>2. <<"fatal">> # After(s)
  BY StageFacts, Histories
<1>3. <<"fatal">> # Prior(s)
  BY Histories DEF Prior, Waiting
<1>4. QED
  BY <1>1, <1>2, <1>3

\* One stage begins where the one before it ended.
LEMMA NextStage ==
    ASSUME withWarmup \in BOOLEAN
    PROVE  /\ Prior("startup") = <<>>
           /\ Prior("warmup") = After("startup")
           /\ ~withWarmup => Prior("measurement") = After("startup")
           /\ withWarmup => Prior("measurement") = After("warmup")
  BY Histories DEF Prior, After, Answer, WarmedUp
--------------------------------------------------------------------------------
(* What a step leaves as it is *)

LEMMA SameStage ==
    ASSUME UNCHANGED withWarmup, NEW s
    PROVE  Prior(s)' = Prior(s) /\ After(s)' = After(s)
  BY DEF Prior, After

\* A step that does not touch worker w, nor what was delivered of it, does not
\* change its position.
LEMMA PositionKept ==
    ASSUME UNCHANGED withWarmup, NEW s, NEW w,
           UNCHANGED <<posted[w], phase[w], commands[w], delivered[w]>>
    PROVE  (Position(s, w)' <=> Position(s, w)) /\ (Heard(s, w)' <=> Heard(s, w))
  BY SameStage DEF Position, AtWork, HasAnswered, HasFailed, Heard

\* run() may leave its stages at any point: its workers stay where they are.
LEMMA LeavesStage ==
    ASSUME NEW s \in Waiting, Together(s),
           UNCHANGED <<withWarmup, posted, phase, commands, delivered>>,
           stage' \in {"terminating", "settled"},
           outcome' = "resolved" => outcome = "resolved"
    PROVE  StageInv'
<1>1. \A w \in Workers : (Position(s, w)' <=> Position(s, w)) /\ (Heard(s, w)' <=> Heard(s, w))
  BY PositionKept
<1>2. InStage(s)'
  BY <1>1 DEF Together, InStage
<1>3. Together(s)'
  BY <1>1, <1>2 DEF Together, Waiting
<1>4. QED
  BY <1>3 DEF StageInv

\* A worker that has posted something undelivered has answered, or failed.
LEMMA Undelivered ==
    ASSUME Types, NEW s \in Waiting, NEW w \in Workers, Position(s, w),
           delivered[w] < Len(posted[w])
    PROVE  \/ HasAnswered(s, w) /\ delivered[w] = Len(Prior(s))
           \/ HasFailed(s, w) /\ delivered[w] = 0
<1>1. ~AtWork(s, w)
  BY StageFacts DEF AtWork, Types
<1>2. CASE HasAnswered(s, w)
  BY <1>2, StageFacts DEF HasAnswered, Types
<1>3. CASE HasFailed(s, w)
  BY <1>3, Histories DEF HasFailed
<1>4. QED
  BY <1>1, <1>2, <1>3 DEF Position
--------------------------------------------------------------------------------
(* The callbacks of the main thread *)

LEMMA InitIInv == Init => IInv
<1> SUFFICES ASSUME Init
             PROVE  IInv
  OBVIOUS
<1>1. Types
  <2>1. posted \in [Workers -> Seq(Messages)]
    BY Histories DEF Init
  <2>2. commands \in [Workers -> Seq({"warmup", "measurement"})]
    BY DEF Init
  <2>3. errors \in 0 .. MaxErrors
    BY MaxErrorsAssumption DEF Init
  <2>4. QED
    BY <2>1, <2>2, <2>3 DEF Init, Types, Unheard, NoWait
<1>2. EndInv
  BY DEF Init, EndInv, Waiting
<1>3. Together("startup")
  <2>1. \A w \in Workers : Position("startup", w)
    BY NextStage, Histories DEF Init, Position, AtWork, HasFailed, Unheard
  <2>2. QED
    BY <2>1 DEF Init, Together, InStage, Waiting
<1>4. QED
  BY <1>1, <1>2, <1>3 DEF IInv, StageInv, Waiting

LEMMA RunAbortedStep == IInv /\ RunAborted => IInv'
<1> SUFFICES ASSUME IInv, RunAborted
             PROVE  IInv'
  OBVIOUS
<1> USE DEF RunAborted, workerVars
<1>1. Types'
  BY DEF IInv, Types
<1>2. StageInv'
  BY LeavesStage DEF IInv, StageInv
<1>3. EndInv'
  BY DEF IInv, EndInv, Waiting
<1>4. QED
  BY <1>1, <1>2, <1>3 DEF IInv

LEMMA RunStep ==
    ASSUME IInv, NEW started \in SUBSET Workers, Run(started)
    PROVE  IInv'
<1> USE DEF Run
<1>1. Types'
  BY DEF IInv, Types, Leave, AwaitAll, Waiting
<1>2. EndInv'
  BY DEF IInv, EndInv, Leave, AwaitAll, Waiting
<1>3. PICK s \in Waiting : Together(s)
  BY DEF IInv, StageInv
<1>4. StageInv'
  <2>1. CASE started # Workers
    BY <1>3, <2>1, LeavesStage DEF Leave
  <2>2. CASE started = Workers
    <3>1. s = "startup" /\ delivered = Unheard
      BY <1>3 DEF Together
    <3>2. \A w \in Workers : delivered[w] = 0 /\ waits'[w] = "ready" /\ thread'[w] = "up"
      BY <2>2, <3>1 DEF Unheard, AwaitAll
    <3>3. \A w \in Workers : ~Heard(s, w)
      BY <3>1, <3>2, NextStage, Histories DEF Heard
    <3>4. \A w \in Workers : (Position(s, w)' <=> Position(s, w)) /\ ~Heard(s, w)'
      BY <3>3, PositionKept
    <3>5. InStage(s)'
      BY <1>3, <3>4 DEF Together, InStage
    <3>6. \A w \in Workers : WaitMatches(s, w)'
      BY <3>1, <3>2, <3>4, NextStage, Histories DEF WaitMatches, Answer, Prior
    <3>7. Together(s)'
      BY <2>2, <3>1, <3>5, <3>6 DEF Together, IInv, EndInv, Waiting
    <3>8. QED
      BY <3>7 DEF StageInv
  <2>3. QED
    BY <2>1, <2>2
<1>5. QED
  BY <1>1, <1>2, <1>4 DEF IInv

LEMMA AbortStep == IInv /\ Abort => IInv'
<1> SUFFICES ASSUME IInv, Abort
             PROVE  IInv'
  OBVIOUS
<1> USE DEF Abort, workerVars, Leave
<1>1. Types'
  BY DEF IInv, Types, Waiting, NoWait
<1>2. StageInv'
  BY LeavesStage DEF IInv, StageInv
<1>3. EndInv'
  BY DEF IInv, EndInv, Waiting
<1>4. QED
  BY <1>1, <1>2, <1>3 DEF IInv

LEMMA SettleStep == IInv /\ Settle => IInv'
<1> SUFFICES ASSUME IInv, Settle
             PROVE  IInv'
  OBVIOUS
<1> USE DEF Settle, workerVars
<1>1. Types'
  BY DEF IInv, Types
<1>2. StageInv'
  BY LeavesStage DEF IInv, StageInv
<1>3. EndInv'
  BY DEF IInv, EndInv, Waiting
<1>4. QED
  BY <1>1, <1>2, <1>3 DEF IInv

LEMMA WaitTimeoutStep ==
    ASSUME IInv, NEW w \in Workers, WaitTimeout(w)
    PROVE  IInv'
<1> USE DEF WaitTimeout, workerVars, Failed, Leave
<1>1. Types'
  BY DEF IInv, Types, Waiting, NoWait
<1>2. stage' \in {"terminating", "settled"}
  BY DEF IInv, Types, EndInv
<1>3. StageInv'
  BY <1>2, LeavesStage DEF IInv, StageInv
<1>4. EndInv'
  BY DEF IInv, EndInv, Types, Waiting
<1>5. QED
  BY <1>1, <1>3, <1>4 DEF IInv

LEMMA WorkerErrorStep ==
    ASSUME IInv, NEW w \in Workers, WorkerError(w)
    PROVE  IInv'
<1> USE DEF WorkerError, Failed, Leave
<1>1. Types'
  <2>1. errors' \in 0 .. MaxErrors
    BY MaxErrorsAssumption DEF IInv, Types
  <2>2. QED
    BY <2>1 DEF IInv, Types, Waiting, NoWait
<1>2. stage' \in {"terminating", "settled"}
  BY DEF IInv, Types, EndInv, Alive
<1>3. StageInv'
  BY <1>2, LeavesStage DEF IInv, StageInv
<1>4. EndInv'
  BY DEF IInv, EndInv, Types, Waiting, Alive
<1>5. QED
  BY <1>1, <1>3, <1>4 DEF IInv

LEMMA WorkerExitStep ==
    ASSUME IInv, NEW w \in Workers, WorkerExit(w)
    PROVE  IInv'
<1> USE DEF WorkerExit, Failed, Leave
<1>1. Types'
  BY DEF IInv, Types, Waiting, NoWait
<1>2. EndInv'
  BY DEF IInv, EndInv, Types, Waiting, Alive
<1>3. PICK s \in Waiting : Together(s)
  BY DEF IInv, StageInv
<1>4. stage # "created"
  BY DEF IInv, EndInv
<1>5. ASSUME stage' \in {"terminating", "settled"}
      PROVE  StageInv'
  BY <1>3, <1>5, LeavesStage
<1>6. ASSUME stage' \notin {"terminating", "settled"}
      PROVE  StageInv'
  \* The thread of a worker that has been heard ends by itself.
  <2>1. stage = s /\ UNCHANGED <<stage, outcome, waits>> /\ waits[w] = NoWait
    BY <1>3, <1>4, <1>6 DEF IInv, Types, Together, Waiting
  <2>2. WaitMatches(s, w)
    BY <1>3, <2>1 DEF Together
  <2>3. Answer(s) # NoWait
    BY StageFacts DEF IInv, Types, NoWait
  <2>4. Heard(s, w)
    BY <2>1, <2>2, <2>3 DEF WaitMatches
  <2>5. phase[w] = "finished"
    BY <2>1, <2>2, <2>4 DEF WaitMatches, Waiting
  <2>6. s = "measurement"
    BY <1>3, <2>4, <2>5, StageHistories DEF Together, InStage, Position, AtWork, HasAnswered,
       HasFailed, Heard, IInv, Types
  <2>7. \A v \in Workers : (Position(s, v)' <=> Position(s, v)) /\ (Heard(s, v)' <=> Heard(s, v))
    BY PositionKept
  <2>8. \A v \in Workers : v # w => thread'[v] = thread[v]
    BY DEF IInv, Types
  <2>9. \A v \in Workers : WaitMatches(s, v)'
    <3> TAKE v \in Workers
    <3>1. WaitMatches(s, v)
      BY <1>3, <2>1 DEF Together
    <3>2. CASE v = w
      BY <2>1, <2>4, <2>6, <2>7, <3>2 DEF WaitMatches, IInv, Types
    <3>3. CASE v # w
      BY <2>1, <2>7, <2>8, <3>1, <3>3, SameStage DEF WaitMatches
    <3>4. QED
      BY <3>2, <3>3
  <2>10. Together(s)'
    BY <1>3, <2>1, <2>7, <2>9 DEF Together, InStage
  <2>11. QED
    BY <2>10 DEF StageInv
<1>7. QED
  BY <1>1, <1>2, <1>5, <1>6 DEF IInv

\* An answer is heard: all workers have answered the stage, and the next begins.
LEMMA AdvanceStep ==
    ASSUME Types, EndInv, NEW s \in Waiting, stage = s, InStage(s),
           Advance, UNCHANGED <<withWarmup, thread, phase, posted, errors>>,
           delivered' \in [Workers -> Nat],
           \A v \in Workers : Position(s, v) /\ Heard(s, v)',
           \A v \in Workers :
              thread[v] = "up" \/ (thread[v] = "gone" /\ s = "measurement")
    PROVE  IInv'
<1>1. withWarmup \in BOOLEAN /\ withWarmup' = withWarmup
  BY DEF Types
<1>2. \A v \in Workers : posted[v] = After(s) /\ delivered'[v] = Len(Prior(s)) + 1
  BY <1>1, SameStage DEF Heard
<1>3. \A v \in Workers : HasAnswered(s, v)
  BY <1>1, <1>2, StageHistories DEF Position, AtWork, HasFailed
<1>4. CASE s = "measurement"
  <2>1. Leave("resolved", [v \in Workers |-> NoWait]) /\ UNCHANGED commands
    BY <1>4 DEF Advance
  <2>2. Types'
    BY <2>1 DEF Types, Leave
  <2>3. EndInv'
    BY <2>1 DEF Types, EndInv, Leave, Waiting
  <2>4. \A v \in Workers : Position(s, v)'
    BY <1>1, <1>2, <1>3, <2>1, SameStage DEF Position, HasAnswered
  <2>5. Together(s)'
    BY <1>4, <2>1, <2>4 DEF Together, InStage, Leave, Waiting
  <2>6. QED
    BY <2>2, <2>3, <2>5 DEF IInv, StageInv
<1>5. CASE s # "measurement"
  <2>1. PICK t \in {"warmup", "measurement"} :
           /\ t = IF s = "startup" /\ withWarmup THEN "warmup" ELSE "measurement"
           /\ stage' = t /\ waits' = [v \in Workers |-> Answer(t)]
           /\ commands' = [v \in Workers |-> Append(commands[v], t)]
           /\ UNCHANGED outcome
           /\ sampling' = IF t = "measurement" THEN TRUE ELSE sampling
    BY <1>5 DEF Advance, BeginWarmup, BeginMeasurement, AwaitAll, StartPhase, Answer
  <2>2. t \in Waiting /\ t # "startup" /\ (t = "warmup" => withWarmup)
    BY <2>1 DEF Waiting
  <2>3. s = "warmup" => withWarmup
    BY DEF InStage
  <2>4. Prior(t) = After(s)
    BY <1>1, <1>5, <2>1, <2>3, NextStage DEF Waiting
  <2>5. \A v \in Workers : commands'[v] = <<t>>
    <3> SUFFICES ASSUME NEW v \in Workers
                 PROVE  Append(commands[v], t) = <<t>>
      BY <2>1
    <3>1. commands[v] = <<>>
      BY <1>3 DEF HasAnswered
    <3>2. QED
      BY <3>1
  <2>6. \A v \in Workers : delivered'[v] = Len(Prior(t))
    BY <1>1, <1>2, <2>4, StageFacts
  <2>7. \A v \in Workers : phase[v] = "idle"
    BY <1>3, <1>5 DEF HasAnswered
  <2>8. \A v \in Workers : AtWork(t, v)'
    BY <1>1, <1>2, <2>2, <2>4, <2>5, <2>6, <2>7, SameStage DEF AtWork
  <2>9. InStage(t)'
    BY <1>1, <2>2, <2>8 DEF InStage, Position
  <2>10. \A v \in Workers : ~Heard(t, v)'
    BY <1>1, <1>2, <2>2, <2>4, StageHistories, SameStage DEF Heard
  <2>11. \A v \in Workers : WaitMatches(t, v)'
    BY <1>1, <1>5, <2>1, <2>6, <2>10, SameStage DEF WaitMatches
  <2>12. outcome' # "resolved"
    BY <2>1 DEF EndInv
  <2>13. Together(t)'
    BY <2>1, <2>2, <2>9, <2>11, <2>12 DEF Together, Waiting
  <2>14. Types'
    <3>1. Answer(t) \in {"ready", "warmup-complete", "result"}
      BY <1>1, <2>2, StageFacts
    <3>2. commands' = [v \in Workers |-> <<t>>]
      BY <2>1, <2>5
    <3>3. <<t>> \in Seq({"warmup", "measurement"})
      BY <2>2 DEF Waiting
    <3>4. waits' \in [Workers -> {NoWait, "ready", "warmup-complete", "result"}]
      BY <2>1, <3>1
    <3>5. commands' \in [Workers -> Seq({"warmup", "measurement"})]
      BY <3>2, <3>3
    <3>6. stage' \in Waiting /\ sampling' \in BOOLEAN
      BY <2>1, <2>2 DEF Types
    <3>7. QED
      BY <2>1, <3>4, <3>5, <3>6 DEF Types
  <2>15. EndInv'
    BY <1>5, <2>1, <2>2 DEF EndInv, Waiting
  <2>16. QED
    BY <2>2, <2>13, <2>14, <2>15 DEF IInv, StageInv
<1>6. QED
  BY <1>4, <1>5

\* A message is delivered: it is an answer that is waited for or the failure of
\* a worker, unless run() has left its stages.
LEMMA DeliverStep ==
    ASSUME IInv, NEW w \in Workers, Deliver(w)
    PROVE  IInv'
<1>1. PICK s \in Waiting : Together(s)
  BY DEF IInv, StageInv
<1>2. /\ thread[w] = "up" /\ delivered[w] < Len(posted[w])
      /\ delivered' = [delivered EXCEPT ![w] = delivered[w] + 1]
      /\ UNCHANGED <<withWarmup, thread, phase, posted, errors>>
  BY DEF Deliver
<1>3. Types /\ EndInv /\ withWarmup \in BOOLEAN
  BY DEF IInv, Types
<1>4. stage \in Waiting \cup {"terminating"}
  BY <1>2, <1>3 DEF Types, EndInv, Deliver, Alive
<1>5. delivered[w] \in Nat /\ delivered'[w] = delivered[w] + 1
      /\ \A v \in Workers : v # w => delivered'[v] = delivered[v]
  BY <1>2, <1>3 DEF Types
<1>6. delivered' \in [Workers -> Nat]
  BY <1>2, <1>3 DEF Types
<1>7. \A v \in Workers : Position(s, v)
  BY <1>1 DEF Together, InStage
<1>8. \/ HasAnswered(s, w) /\ delivered[w] = Len(Prior(s))
      \/ HasFailed(s, w) /\ delivered[w] = 0
  BY <1>2, <1>3, <1>7, Undelivered
<1> DEFINE message == posted[w][delivered[w] + 1]
<1>9. /\ HasAnswered(s, w) => message = Answer(s) /\ Heard(s, w)'
      /\ HasFailed(s, w) => message = "fatal"
      /\ ~Heard(s, w)
  <2>1. Len(Prior(s)) \in Nat /\ After(s)[Len(Prior(s)) + 1] = Answer(s)
    BY <1>3, StageFacts
  <2>2. <<"fatal">> \notin {Prior(s), After(s)}
    BY <1>3, StageHistories
  <2>3. CASE HasAnswered(s, w)
    BY <1>2, <1>5, <1>8, <2>1, <2>2, <2>3, SameStage DEF HasAnswered, HasFailed, Heard
  <2>4. CASE HasFailed(s, w)
    <3>1. ~HasAnswered(s, w) /\ ~Heard(s, w) /\ delivered[w] = 0
      BY <1>8, <2>2, <2>4 DEF HasAnswered, HasFailed, Heard
    <3>2. QED
      BY <2>4, <3>1, Histories DEF HasFailed
  <2>5. QED
    BY <1>8, <2>3, <2>4
<1>10. Answer(s) \notin {NoWait, "fatal"}
  BY <1>3, StageFacts DEF NoWait
<1>11. ASSUME UNCHANGED commands, NEW v \in Workers, v # w
       PROVE  (Position(s, v)' <=> Position(s, v)) /\ (Heard(s, v)' <=> Heard(s, v))
  BY <1>2, <1>5, <1>11, PositionKept
<1>12. \A v \in Workers : v # w => (Heard(s, v)' <=> Heard(s, v))
  BY <1>2, <1>5, SameStage DEF Heard
<1>13. ASSUME UNCHANGED commands
       PROVE  InStage(s)'
  <2>1. Position(s, w)'
    BY <1>2, <1>3, <1>5, <1>8, <1>13, StageFacts, SameStage DEF Position, HasAnswered, HasFailed
  <2>2. QED
    BY <1>1, <1>2, <1>7, <1>11, <1>13, <2>1 DEF Together, InStage
<1>14. /\ waits[w] # NoWait /\ message = "fatal" => Failed(w) /\ UNCHANGED commands
       /\ waits[w] # NoWait /\ message # "fatal" /\ message = waits[w] => Answered(w)
       /\ waits[w] = NoWait \/ message \notin {"fatal", waits[w]} =>
             UNCHANGED <<stage, outcome, waits, sampling, commands>>
  <2>1. message = posted[w][delivered'[w]]
    BY <1>5
  <2> HIDE DEF message
  <2>2. CASE waits[w] # NoWait /\ message = "fatal"
    <3>1. waits[w] # message
      BY <1>3, <2>2 DEF Types, NoWait
    <3>2. QED
      BY <2>1, <2>2, <3>1 DEF Deliver
  <2>3. CASE waits[w] # NoWait /\ message # "fatal" /\ message = waits[w]
    BY <2>1, <2>3 DEF Deliver
  <2>4. CASE waits[w] = NoWait \/ message \notin {"fatal", waits[w]}
    BY <2>1, <2>4 DEF Deliver
  <2>5. QED
    BY <2>2, <2>3, <2>4
<1> HIDE DEF message
<1>15. CASE stage = "terminating"
  <2>1. /\ UNCHANGED <<stage, outcome, sampling, commands>>
        /\ waits' \in {waits, [waits EXCEPT ![w] = NoWait]}
    BY <1>14, <1>15 DEF Failed, Answered, Waiting
  <2>2. Types'
    BY <1>2, <1>3, <1>6, <2>1 DEF Types
  <2>3. EndInv'
    BY <1>2, <1>3, <1>15, <2>1 DEF Types, EndInv, Waiting
  <2>4. outcome = "resolved" => \A v \in Workers : s = "measurement" /\ Heard(s, v)'
    BY <1>1, <1>9, <1>12 DEF Together
  <2>5. Together(s)'
    BY <1>13, <1>15, <2>1, <2>4 DEF Together, Waiting
  <2>6. QED
    BY <2>2, <2>3, <2>5 DEF IInv, StageInv
<1>16. CASE stage \in Waiting
  <2>1. stage = s /\ waits[w] = Answer(s) /\ \A v \in Workers : WaitMatches(s, v)
    BY <1>1, <1>9, <1>16 DEF Together, WaitMatches
  <2>2. CASE HasFailed(s, w)
    <3>1. Leave("rejected", [waits EXCEPT ![w] = NoWait]) /\ UNCHANGED commands
      BY <1>9, <1>10, <1>14, <1>16, <2>1, <2>2 DEF Failed
    <3>2. Types'
      BY <1>2, <1>3, <1>6, <3>1 DEF Types, Leave
    <3>3. EndInv'
      BY <1>2, <1>3, <3>1 DEF Types, EndInv, Leave, Waiting
    <3>4. Together(s)'
      BY <1>13, <3>1 DEF Together, Leave, Waiting
    <3>5. QED
      BY <3>2, <3>3, <3>4 DEF IInv, StageInv
  <2>3. CASE HasAnswered(s, w)
    <3>1. Answered(w) /\ Heard(s, w)'
      BY <1>9, <1>10, <1>14, <2>1, <2>3
    <3>2. CASE \A v \in Workers \ {w} : waits[v] = NoWait
      <4>1. \A v \in Workers : v # w => Heard(s, v)
        BY <1>10, <2>1, <3>2 DEF WaitMatches
      <4>2. \A v \in Workers : Position(s, v) /\ Heard(s, v)'
        BY <3>1, <1>7, <1>12, <4>1
      <4>3. \A v \in Workers : thread[v] = "up" \/ (thread[v] = "gone" /\ s = "measurement")
        BY <2>1 DEF WaitMatches
      <4>4. Advance
        BY <1>16, <3>1, <3>2 DEF Answered
      <4>5. InStage(s)
        BY <1>1 DEF Together
      <4>6. QED
        BY <1>2, <1>3, <1>6, <2>1, <4>2, <4>3, <4>4, <4>5, AdvanceStep
    <3>3. CASE ~\A v \in Workers \ {w} : waits[v] = NoWait
      <4>1. /\ waits' = [waits EXCEPT ![w] = NoWait]
            /\ UNCHANGED <<stage, outcome, sampling, commands>>
        BY <3>1, <3>3 DEF Answered
      <4>2. Types'
        BY <1>2, <1>3, <1>6, <4>1 DEF Types
      <4>3. EndInv'
        BY <1>2, <1>3, <4>1 DEF Types, EndInv, Waiting
      <4>4. \A v \in Workers : WaitMatches(s, v)'
        <5> TAKE v \in Workers
        <5>1. CASE v = w
          BY <1>2, <1>3, <3>1, <4>1, <5>1 DEF WaitMatches, Types
        <5>2. CASE v # w
          <6>1. WaitMatches(s, v) /\ waits'[v] = waits[v]
            BY <1>3, <2>1, <4>1, <5>2 DEF Types
          <6>2. QED
            BY <1>2, <1>5, <1>12, <5>2, <6>1, SameStage DEF WaitMatches
        <5>3. QED
          BY <5>1, <5>2
      <4>5. outcome # "resolved"
        BY <1>3, <1>16 DEF EndInv
      <4>6. Together(s)'
        BY <1>13, <1>16, <2>1, <4>1, <4>4, <4>5 DEF Together, Waiting
      <4>7. QED
        BY <4>2, <4>3, <4>6 DEF IInv, StageInv
    <3>4. QED
      BY <3>2, <3>3
  <2>4. QED
    BY <1>8, <2>2, <2>3
<1>17. QED
  BY <1>4, <1>15, <1>16
--------------------------------------------------------------------------------
(* The steps of the workers *)

\* A worker takes a step within its stage: it has not been heard, and its answer,
\* if it posts one, is still to be delivered.
LEMMA WorkerStepInv ==
    ASSUME IInv, NEW w \in Workers, NEW s \in Waiting, Together(s),
           UNCHANGED <<withWarmup, stage, outcome, waits, sampling, delivered, thread, errors>>,
           NEW ph \in {"idle", "warmup", "warmup-draining", "measurement", "finished"},
           phase' = [phase EXCEPT ![w] = ph],
           NEW msgs \in Seq(Messages), posted' = [posted EXCEPT ![w] = msgs],
           NEW cmds \in Seq({"warmup", "measurement"}),
           commands' = [commands EXCEPT ![w] = cmds],
           AtWork(s, w), stage # "created",
           \/ /\ msgs = Prior(s) /\ cmds = <<>>
              /\ \/ s = "warmup" /\ ph \in {"warmup", "warmup-draining"}
                 \/ s = "measurement" /\ ph = "measurement"
           \/ /\ msgs = After(s) /\ cmds = <<>>
              /\ ph = IF s = "measurement" THEN "finished" ELSE "idle"
    PROVE  IInv'
<1>1. Types /\ EndInv /\ withWarmup \in BOOLEAN
  BY DEF IInv, Types
<1>2. phase'[w] = ph /\ posted'[w] = msgs /\ commands'[w] = cmds
  BY <1>1 DEF Types
<1>3. Types'
  BY <1>1 DEF Types
<1>4. EndInv'
  BY <1>1 DEF EndInv
<1>5. \A v \in Workers : v # w =>
         (Position(s, v)' <=> Position(s, v)) /\ (Heard(s, v)' <=> Heard(s, v))
  <2> SUFFICES ASSUME NEW v \in Workers, v # w
               PROVE  (Position(s, v)' <=> Position(s, v)) /\ (Heard(s, v)' <=> Heard(s, v))
    OBVIOUS
  <2>1. UNCHANGED <<posted[v], phase[v], commands[v], delivered[v]>>
    BY <1>1 DEF Types
  <2>2. QED
    BY <2>1, PositionKept
<1>6. delivered'[w] = Len(Prior(s)) /\ Len(Prior(s)) \in Nat /\ ~Heard(s, w) /\ ~Heard(s, w)'
  BY <1>1, StageFacts, SameStage DEF AtWork, Heard
<1>7. Position(s, w)'
  BY <1>1, <1>2, <1>6, SameStage DEF Position, AtWork, HasAnswered
<1>8. InStage(s)'
  BY <1>5, <1>7 DEF Together, InStage
<1>9. ASSUME stage \in Waiting, NEW v \in Workers
      PROVE  WaitMatches(s, v)'
  <2>1. WaitMatches(s, v)
    BY <1>9 DEF Together
  <2>2. QED
    BY <1>5, <1>6, <2>1, SameStage DEF WaitMatches
<1>10. outcome # "resolved"
  BY <1>6 DEF Together
<1>11. Together(s)'
  BY <1>8, <1>9, <1>10 DEF Together
<1>12. QED
  BY <1>3, <1>4, <1>11 DEF IInv, StageInv

\* Where a worker is when it takes a step of its own, and that run() has started.
LEMMA StepSituation ==
    ASSUME IInv, NEW w \in Workers, NEW action, Step(w, action)
    PROVE  /\ stage # "created" /\ Types /\ withWarmup \in BOOLEAN
           /\ posted[w] \in Seq(Messages)
           /\ \E s \in Waiting : Together(s) /\ Position(s, w)
<1>1. Types /\ EndInv
  BY DEF IInv
<1>2. thread[w] = "up"
  BY DEF Step
<1>3. stage # "created"
  BY <1>1, <1>2 DEF EndInv
<1>4. \E s \in Waiting : Together(s) /\ Position(s, w)
  BY DEF IInv, StageInv, Together, InStage
<1>5. QED
  BY <1>1, <1>3, <1>4 DEF Types

\* What Becomes does to the history: a message, or nothing, is appended.
LEMMA Posting ==
    ASSUME NEW msgs \in Seq(Messages), NEW m \in Messages
    PROVE  msgs \o <<m>> = Append(msgs, m) /\ msgs \o <<>> = msgs
  OBVIOUS

LEMMA BecomeReadyStep ==
    ASSUME IInv, NEW w \in Workers, Step(w, BecomeReady(w))
    PROVE  IInv' /\ W(w)!Next
<1>1. PICK s \in Waiting : Together(s) /\ Position(s, w)
  BY StepSituation
<1>2. stage # "created" /\ Types /\ withWarmup \in BOOLEAN /\ posted[w] \in Seq(Messages)
  BY StepSituation
<1>3. phase[w] = "idle" /\ posted[w] = <<>>
  BY DEF Step, BecomeReady
<1>4. AtWork(s, w)
  BY <1>1, <1>2, <1>3, StageHistories DEF Position, HasAnswered, HasFailed
<1>5. s = "startup" /\ commands[w] = <<>>
  BY <1>3, <1>4, Histories DEF AtWork, Prior, Waiting
<1>6. "ready" \in Messages
  BY DEF Messages
<1>7. After(s) = posted[w] \o <<"ready">> /\ After(s) \in Seq(Messages) /\ After(s) = <<"ready">>
  BY <1>2, <1>3, <1>5, <1>6, Posting, Histories, NextStage DEF After, Answer
<1>8. /\ phase' = [phase EXCEPT ![w] = "idle"]
      /\ posted' = [posted EXCEPT ![w] = After(s)]
      /\ commands' = [commands EXCEPT ![w] = <<>>]
      /\ UNCHANGED <<withWarmup, stage, outcome, waits, sampling, delivered, thread, errors>>
  BY <1>2, <1>5, <1>7 DEF Step, BecomeReady, Becomes, Types
<1>9. IInv'
  <2>1. <<>> \in Seq({"warmup", "measurement"})
    OBVIOUS
  <2>2. s # "measurement"
    BY <1>5
  <2>3. QED
    BY <1>1, <1>2, <1>4, <1>7, <1>8, <2>1, <2>2, WorkerStepInv
<1>10. W(w)!BecomeReady
  BY <1>2, <1>3, <1>7, <1>8 DEF W!BecomeReady, W!Ready, Types
<1>11. QED
  BY <1>9, <1>10 DEF W!Next

LEMMA ReceiveStartStep ==
    ASSUME IInv, NEW w \in Workers, Step(w, ReceiveStart(w))
    PROVE  IInv' /\ W(w)!Next
<1>1. PICK s \in Waiting : Together(s) /\ Position(s, w)
  BY StepSituation
<1>2. stage # "created" /\ Types /\ withWarmup \in BOOLEAN /\ posted[w] \in Seq(Messages)
  BY StepSituation
<1>3. commands[w] # <<>>
  BY DEF Step, ReceiveStart
<1>4. /\ AtWork(s, w) /\ posted[w] = Prior(s)
      /\ phase[w] = "idle" /\ commands[w] = <<s>> /\ s \in {"warmup", "measurement"}
  BY <1>1, <1>3 DEF Position, AtWork, HasAnswered, HasFailed, Waiting
<1>5. Head(commands[w]) = s /\ Tail(commands[w]) = <<>> /\ posted[w] \o <<>> = posted[w]
  BY <1>2, <1>4, ConcatEmptySeq
<1>6. /\ phase' = [phase EXCEPT ![w] = s]
      /\ posted' = [posted EXCEPT ![w] = Prior(s)]
      /\ commands' = [commands EXCEPT ![w] = <<>>]
      /\ UNCHANGED <<withWarmup, stage, outcome, waits, sampling, delivered, thread, errors>>
  BY <1>2, <1>4, <1>5 DEF Step, ReceiveStart, Becomes
<1>7. IInv'
  <2>1. <<>> \in Seq({"warmup", "measurement"}) /\ Prior(s) \in Seq(Messages)
    BY <1>2, <1>4
  <2>2. s \in {"idle", "warmup", "warmup-draining", "measurement", "finished"}
    BY <1>4
  <2>3. \/ s = "warmup" /\ s \in {"warmup", "warmup-draining"}
        \/ s = "measurement" /\ s = "measurement"
    BY <1>4
  <2>4. QED
    BY <1>1, <1>2, <1>4, <1>6, <2>1, <2>2, <2>3, WorkerStepInv
<1>8. phase'[w] = s /\ posted'[w] = posted[w]
  BY <1>2, <1>4, <1>6 DEF Types
<1>9. W(w)!Next
  <2>1. CASE s = "warmup"
    BY <1>4, <1>8, <2>1 DEF W!Next, W!StartWarmup, W!Ready, Prior
  <2>2. CASE s = "measurement"
    BY <1>4, <1>8, <2>2
       DEF W!Next, W!StartMeasurement, W!Ready, W!WarmedUp, Prior, WarmedUp
  <2>3. QED
    BY <1>4, <2>1, <2>2
<1>10. QED
  BY <1>7, <1>9

LEMMA EndWarmupStep ==
    ASSUME IInv, NEW w \in Workers, Step(w, EndWarmup(w))
    PROVE  IInv' /\ W(w)!Next
<1>1. PICK s \in Waiting : Together(s) /\ Position(s, w)
  BY StepSituation
<1>2. stage # "created" /\ Types /\ withWarmup \in BOOLEAN /\ posted[w] \in Seq(Messages)
  BY StepSituation
<1>3. phase[w] = "warmup"
  BY DEF Step, EndWarmup
<1>4. AtWork(s, w) /\ posted[w] = Prior(s) /\ s = "warmup" /\ commands[w] = <<>>
  BY <1>1, <1>3 DEF Position, AtWork, HasAnswered, HasFailed
<1>5. /\ phase' = [phase EXCEPT ![w] = "warmup-draining"]
      /\ posted' = [posted EXCEPT ![w] = Prior(s)]
      /\ commands' = [commands EXCEPT ![w] = <<>>]
      /\ UNCHANGED <<withWarmup, stage, outcome, waits, sampling, delivered, thread, errors>>
  BY <1>2, <1>4, ConcatEmptySeq DEF Step, EndWarmup, Becomes, Types
<1>6. IInv'
  <2>1. <<>> \in Seq({"warmup", "measurement"}) /\ Prior(s) \in Seq(Messages)
    BY <1>2, <1>4
  <2>2. QED
    BY <1>1, <1>2, <1>4, <1>5, <2>1, WorkerStepInv
<1>7. W(w)!EndWarmup
  BY <1>2, <1>3, <1>4, <1>5 DEF W!EndWarmup, Types
<1>8. QED
  BY <1>6, <1>7 DEF W!Next

LEMMA CompleteWarmupStep ==
    ASSUME IInv, NEW w \in Workers, Step(w, CompleteWarmup(w))
    PROVE  IInv' /\ W(w)!Next
<1>1. PICK s \in Waiting : Together(s) /\ Position(s, w)
  BY StepSituation
<1>2. stage # "created" /\ Types /\ withWarmup \in BOOLEAN /\ posted[w] \in Seq(Messages)
  BY StepSituation
<1>3. phase[w] \in {"warmup", "warmup-draining"}
  BY DEF Step, CompleteWarmup
<1>4. AtWork(s, w) /\ posted[w] = Prior(s) /\ s = "warmup" /\ commands[w] = <<>>
  BY <1>1, <1>3 DEF Position, AtWork, HasAnswered, HasFailed
<1>5. "warmup-complete" \in Messages
  BY DEF Messages
<1>6. /\ After(s) = posted[w] \o <<"warmup-complete">> /\ After(s) \in Seq(Messages)
      /\ After(s) = WarmedUp
  BY <1>2, <1>4, <1>5, Posting, StageFacts DEF After, Answer, Prior, WarmedUp
<1>7. /\ phase' = [phase EXCEPT ![w] = "idle"]
      /\ posted' = [posted EXCEPT ![w] = After(s)]
      /\ commands' = [commands EXCEPT ![w] = <<>>]
      /\ UNCHANGED <<withWarmup, stage, outcome, waits, sampling, delivered, thread, errors>>
  BY <1>2, <1>4, <1>6 DEF Step, CompleteWarmup, Becomes, Types
<1>8. IInv'
  <2>1. <<>> \in Seq({"warmup", "measurement"})
    OBVIOUS
  <2>2. s # "measurement"
    BY <1>4
  <2>3. QED
    BY <1>1, <1>2, <1>4, <1>6, <1>7, <2>1, <2>2, WorkerStepInv
<1>9. W(w)!CompleteWarmup
  BY <1>2, <1>3, <1>6, <1>7 DEF W!CompleteWarmup, W!WarmedUp, W!Ready, WarmedUp, Types
<1>10. QED
  BY <1>8, <1>9 DEF W!Next

LEMMA FinishStep ==
    ASSUME IInv, NEW w \in Workers, Step(w, Finish(w))
    PROVE  IInv' /\ W(w)!Next
<1>1. PICK s \in Waiting : Together(s) /\ Position(s, w)
  BY StepSituation
<1>2. stage # "created" /\ Types /\ withWarmup \in BOOLEAN /\ posted[w] \in Seq(Messages)
  BY StepSituation
<1>3. phase[w] = "measurement"
  BY DEF Step, Finish
<1>4. AtWork(s, w) /\ posted[w] = Prior(s) /\ s = "measurement" /\ commands[w] = <<>>
  BY <1>1, <1>3 DEF Position, AtWork, HasAnswered, HasFailed
<1>5. "result" \in Messages
  BY DEF Messages
<1>6. /\ After(s) = posted[w] \o <<"result">> /\ After(s) \in Seq(Messages)
      /\ After(s) = Append(posted[w], "result")
  BY <1>2, <1>4, <1>5, Posting, StageFacts DEF After, Answer
<1>7. /\ phase' = [phase EXCEPT ![w] = "finished"]
      /\ posted' = [posted EXCEPT ![w] = After(s)]
      /\ commands' = [commands EXCEPT ![w] = <<>>]
      /\ UNCHANGED <<withWarmup, stage, outcome, waits, sampling, delivered, thread, errors>>
  BY <1>2, <1>4, <1>6 DEF Step, Finish, Becomes, Types
<1>8. IInv'
  <2>1. <<>> \in Seq({"warmup", "measurement"})
    OBVIOUS
  <2>2. QED
    BY <1>1, <1>2, <1>4, <1>6, <1>7, <2>1, WorkerStepInv
<1>9. W(w)!Finish
  BY <1>2, <1>3, <1>6, <1>7 DEF W!Finish, Types
<1>10. QED
  BY <1>8, <1>9 DEF W!Next
--------------------------------------------------------------------------------
(* The invariant, and what the workers do in a step *)

WorkersStep == \A w \in Workers : W(w)!Next \/ UNCHANGED <<phase[w], posted[w]>>

LEMMA StepIInv == IInv /\ [Next]_vars => IInv' /\ WorkersStep
<1> SUFFICES ASSUME IInv, [Next]_vars
             PROVE  IInv' /\ WorkersStep
  OBVIOUS
<1>1. CASE RunAborted
  BY <1>1, RunAbortedStep DEF RunAborted, workerVars, WorkersStep
<1>2. ASSUME NEW started \in SUBSET Workers, Run(started)
      PROVE  IInv' /\ WorkersStep
  BY <1>2, RunStep DEF Run, WorkersStep
<1>3. CASE Abort
  BY <1>3, AbortStep DEF Abort, workerVars, WorkersStep
<1>4. CASE Settle
  BY <1>4, SettleStep DEF Settle, workerVars, WorkersStep
<1>5. ASSUME NEW w \in Workers, Callback(w)
      PROVE  IInv' /\ WorkersStep
  <2>1. UNCHANGED <<phase, posted>>
    BY <1>5 DEF Callback, Deliver, WaitTimeout, WorkerError, WorkerExit, workerVars
  <2>2. IInv'
    BY <1>5, DeliverStep, WaitTimeoutStep, WorkerErrorStep, WorkerExitStep DEF Callback
  <2>3. QED
    BY <2>1, <2>2 DEF WorkersStep
<1>6. ASSUME NEW w \in Workers, WorkerStep(w)
      PROVE  IInv' /\ WorkersStep
  <2>1. IInv' /\ W(w)!Next
    BY <1>6, BecomeReadyStep, ReceiveStartStep, EndWarmupStep, CompleteWarmupStep, FinishStep
       DEF WorkerStep
  <2>2. \A v \in Workers : v # w => UNCHANGED <<phase[v], posted[v]>>
    BY <1>6 DEF WorkerStep, Step, BecomeReady, ReceiveStart, EndWarmup, CompleteWarmup, Finish,
       Becomes, IInv, Types
  <2>3. QED
    BY <2>1, <2>2 DEF WorkersStep
<1>7. CASE UNCHANGED vars
  <2>1. UNCHANGED <<withWarmup, stage, outcome, waits, sampling, thread, phase, posted,
                    delivered, commands, errors>>
    BY <1>7 DEF vars, workerVars
  <2>2. Types' /\ EndInv'
    BY <2>1 DEF IInv, Types, EndInv
  <2>3. StageInv'
    <3>1. PICK s \in Waiting : Together(s)
      BY DEF IInv, StageInv
    <3>2. \A w \in Workers :
             (Position(s, w)' <=> Position(s, w)) /\ (Heard(s, w)' <=> Heard(s, w))
      BY <2>1, PositionKept
    <3>3. \A w \in Workers : WaitMatches(s, w)' <=> WaitMatches(s, w)
      BY <2>1, <3>2, SameStage DEF WaitMatches
    <3>4. Together(s)'
      BY <2>1, <3>1, <3>2, <3>3 DEF Together, InStage
    <3>5. QED
      BY <3>4 DEF StageInv
  <2>4. QED
    BY <2>1, <2>2, <2>3 DEF IInv, WorkersStep
<1>8. QED
  BY <1>1, <1>2, <1>3, <1>4, <1>5, <1>6, <1>7 DEF Next

\* Every worker is in the stage the run is in, and whoever has not been heard is
\* waited for, in every reachable state: the invariant the theorems follow from.
THEOREM LoadRunInvariance == Spec => []IInv
<1>1. Init => IInv
  BY InitIInv
<1>2. IInv /\ [Next]_vars => IInv'
  BY StepIInv
<1>3. QED
  BY <1>1, <1>2, PTL DEF Spec
--------------------------------------------------------------------------------
(* The properties *)

\* No worker measures while another one is still in its warmup, however far
\* apart their messages and commands travel.
THEOREM LockStepHolds == Spec => []LockStep
<1>1. IInv => LockStep
  BY DEF IInv, StageInv, Together, InStage, Position, AtWork, HasAnswered, HasFailed, LockStep
<1>2. QED
  BY <1>1, LoadRunInvariance, PTL

\* The coordinator never misses a message it has to react to.
THEOREM NoAnswerDroppedHolds == Spec => []NoAnswerDropped
<1>1. IInv => NoAnswerDropped
  <2> SUFFICES ASSUME IInv, stage \in Waiting, NEW w \in Workers,
                      NEW i \in delivered[w] + 1 .. Len(posted[w])
               PROVE  posted[w][i] \in {waits[w], "fatal"}
    BY DEF NoAnswerDropped
  <2>1. PICK s \in Waiting : Together(s)
    BY DEF IInv, StageInv
  <2>2. Types /\ withWarmup \in BOOLEAN /\ Position(s, w) /\ WaitMatches(s, w)
    BY <2>1 DEF IInv, Types, Together, InStage
  <2>3. delivered[w] \in Nat /\ Len(posted[w]) \in Nat
    BY <2>2 DEF Types
  <2>4. \/ HasAnswered(s, w) /\ delivered[w] = Len(Prior(s))
        \/ HasFailed(s, w) /\ delivered[w] = 0
    BY <2>2, <2>3, Undelivered
  <2>5. CASE HasAnswered(s, w) /\ delivered[w] = Len(Prior(s))
    <3>1. Len(Prior(s)) \in Nat /\ Len(After(s)) = Len(Prior(s)) + 1
          /\ After(s)[Len(Prior(s)) + 1] = Answer(s)
      BY <2>2, StageFacts
    <3>2. i = Len(Prior(s)) + 1 /\ ~Heard(s, w)
      BY <2>5, <3>1 DEF HasAnswered, Heard
    <3>3. QED
      BY <2>2, <2>5, <3>1, <3>2 DEF HasAnswered, WaitMatches
  <2>6. CASE HasFailed(s, w) /\ delivered[w] = 0
    <3>1. posted[w] = <<"fatal">> /\ i = 1
      BY <2>6, Histories DEF HasFailed
    <3>2. QED
      BY <3>1, Histories
  <2>7. QED
    BY <2>4, <2>5, <2>6
<1>2. QED
  BY <1>1, LoadRunInvariance, PTL

\* When run() has settled no thread, no sampler and no armed wait is left.
THEOREM CleanSettleHolds == Spec => []CleanSettle
<1>1. IInv => CleanSettle
  <2> SUFFICES ASSUME IInv
               PROVE  CleanSettle
    OBVIOUS
  <2>1. PICK s \in Waiting : Together(s)
    BY DEF IInv, StageInv
  <2>2. Types /\ EndInv /\ withWarmup \in BOOLEAN
    BY DEF IInv, Types
  <2>3. \A w \in Workers : Len(posted[w]) <= 3 /\ delivered[w] \in 0 .. Len(posted[w])
    <3> TAKE w \in Workers
    <3>1. Position(s, w)
      BY <2>1 DEF Together, InStage
    <3>2. PICK n \in 0 .. 2 : Len(Prior(s)) = n /\ Len(After(s)) = n + 1
      BY <2>2, StageFacts
    <3>3. CASE AtWork(s, w)
      BY <3>2, <3>3 DEF AtWork
    <3>4. CASE HasAnswered(s, w)
      <4>1. Len(posted[w]) = n + 1 /\ delivered[w] \in {n, n + 1}
        BY <3>2, <3>4 DEF HasAnswered
      <4>2. QED
        BY <4>1
    <3>5. CASE HasFailed(s, w)
      BY <3>5, Histories DEF HasFailed
    <3>6. QED
      BY <3>1, <3>3, <3>4, <3>5 DEF Position
  <2>4. TypeOK
    BY <2>2, <2>3 DEF Types, TypeOK
  <2>5. QED
    BY <2>2, <2>4 DEF EndInv, CleanSettle, Waiting
<1>2. QED
  BY <1>1, LoadRunInvariance, PTL

\* A run that resolves has heard a result from every worker.
THEOREM ResolvedMeansMeasuredHolds == Spec => []ResolvedMeansMeasured
<1>1. IInv => ResolvedMeansMeasured
  <2> SUFFICES ASSUME IInv, outcome = "resolved", NEW w \in Workers
               PROVE  \E i \in 1 .. delivered[w] : posted[w][i] = "result"
    BY DEF ResolvedMeansMeasured
  <2>1. Heard("measurement", w) /\ withWarmup \in BOOLEAN
    BY DEF IInv, StageInv, Together, Types
  <2>2. "measurement" \in Waiting
    BY DEF Waiting
  <2>3. Len(Prior("measurement")) \in 0 .. 2
        /\ After("measurement")[Len(Prior("measurement")) + 1] = "result"
    BY <2>1, <2>2, StageFacts DEF Answer
  <2>4. Len(Prior("measurement")) + 1 \in 1 .. delivered[w]
    BY <2>1, <2>3 DEF Heard
  <2>5. QED
    BY <2>1, <2>3, <2>4 DEF Heard
<1>2. QED
  BY <1>1, LoadRunInvariance, PTL

\* No start command reaches a worker in a phase it refuses it in: every worker,
\* also while the run is being torn down, goes through the contract's phases.
THEOREM ContractKept == Spec => WorkersKeepContract
<1>1. Init => \A w \in Workers : W(w)!Init \/ W(w)!InitFailed
  BY DEF Init, W!Init, W!InitFailed
<1>2. WorkersStep => \A w \in Workers : [W(w)!Next]_(W(w)!contractVars)
  BY DEF WorkersStep, W!contractVars
<1>3. IInv /\ [Next]_vars => [\A w \in Workers : [W(w)!Next]_(W(w)!contractVars)]_vars
  BY <1>2, StepIInv
<1>4. QED
  BY <1>1, <1>3, LoadRunInvariance, PTL DEF Spec, WorkersKeepContract
================================================================================
