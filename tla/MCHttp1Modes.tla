------------------------------ MODULE MCHttp1Modes ------------------------------
(***************************************************************************)
(* Http1Worker at a fixed rate, where two connections share the arrivals   *)
(* of one schedule, and in a closed loop with one connection, deep enough  *)
(* to refill its pipeline after a reconnect: a second one adds nothing a   *)
(* drain waits for that one does not.                                      *)
(***************************************************************************)
CONSTANTS Conns, MaxScheduled, MaxSent, MaxTimeouts

VARIABLES
    fixedRate,      \* how the behaviour's load is driven
    conn, phase, posted, running, pastStop, connected, timeouts, scheduled, dropped

workerVars == <<conn, phase, posted, running, pastStop, connected, timeouts, scheduled, dropped>>

OneConnection == {CHOOSE c \in Conns : TRUE}

Rate == INSTANCE Http1Worker WITH FixedRate <- TRUE, Pipelining <- 2, MaxSent <- MaxScheduled,
                                  MaxTimeouts <- 1
Closed == INSTANCE Http1Worker WITH FixedRate <- FALSE, Pipelining <- 2, Conns <- OneConnection,
                                    MaxScheduled <- 0

Init ==
    \/ fixedRate = TRUE /\ Rate!WorkerInit
    \/ fixedRate = FALSE /\ Closed!WorkerInit

Next ==
    /\ UNCHANGED fixedRate
    /\ \/ fixedRate /\ Rate!WorkerNext
       \/ ~fixedRate /\ Closed!WorkerNext

\* Fairness of Http1Worker, in the mode of the behaviour.
Fairness ==
    /\ WF_workerVars(IF fixedRate THEN Rate!WarmupTimer ELSE Closed!WarmupTimer)
    /\ WF_workerVars(IF fixedRate THEN Rate!MeasurementTimer ELSE Closed!MeasurementTimer)
    /\ \A c \in Conns :
        LET kept == fixedRate \/ c \in OneConnection
        IN  /\ WF_workerVars(/\ kept
                             /\ IF fixedRate THEN Rate!Timeout(c) ELSE Closed!Timeout(c))
            /\ WF_workerVars(/\ kept /\ conn[c].sock = "destroyed"
                             /\ IF fixedRate THEN Rate!SocketClose(c) ELSE Closed!SocketClose(c))
            /\ WF_workerVars(/\ kept
                             /\ IF fixedRate THEN Rate!ReconnectTimer(c)
                                             ELSE Closed!ReconnectTimer(c))

Spec == Init /\ [][Next]_<<fixedRate, workerVars>> /\ Fairness
--------------------------------------------------------------------------------
\* Every arrival of the schedule was sent on some connection or counted as
\* dropped, never both and never neither.
ArrivalsAccounted == fixedRate => Rate!ArrivalsAccounted

\* The drain of the warmup comes to an end even if the server never answers,
\* however the load is driven.
DrainCompletes == Closed!DrainCompletes
================================================================================
