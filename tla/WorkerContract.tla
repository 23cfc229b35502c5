----------------------------- MODULE WorkerContract -----------------------------
(***************************************************************************)
(* What a load worker promises the coordinator, whatever protocol its      *)
(* connections speak: the phases it goes through and the messages it posts,*)
(* each message at most once and only at the end of the phase it reports.  *)
(* Http1Worker implements it; LoadRun relies on it.                        *)
(***************************************************************************)
EXTENDS Sequences

VARIABLES
    phase,      \* LoadWorker.#phase
    posted      \* the messages the worker has posted, oldest first

contractVars == <<phase, posted>>

Phase == {"idle", "warmup", "warmup-draining", "measurement", "finished"}

Ready == <<"ready">>
WarmedUp == Append(Ready, "warmup-complete")

Init == phase = "idle" /\ posted = <<>>

InitFailed == phase = "finished" /\ posted = <<"fatal">>

\* All connections are up for the first time.
BecomeReady ==
    /\ phase = "idle" /\ posted = <<>>
    /\ posted' = Ready
    /\ UNCHANGED phase

StartWarmup ==
    /\ phase = "idle" /\ posted = Ready
    /\ phase' = "warmup"
    /\ UNCHANGED posted

\* The warmup time is over but answers are still outstanding.
EndWarmup ==
    /\ phase = "warmup"
    /\ phase' = "warmup-draining"
    /\ UNCHANGED posted

\* The last outstanding answer is in (or none was when the time was over).
CompleteWarmup ==
    /\ phase \in {"warmup", "warmup-draining"}
    /\ phase' = "idle"
    /\ posted' = WarmedUp

StartMeasurement ==
    /\ phase = "idle" /\ posted \in {Ready, WarmedUp}
    /\ phase' = "measurement"
    /\ UNCHANGED posted

Finish ==
    /\ phase = "measurement"
    /\ phase' = "finished"
    /\ posted' = Append(posted, "result")

Next ==
    \/ BecomeReady \/ StartWarmup \/ EndWarmup \/ CompleteWarmup
    \/ StartMeasurement \/ Finish

ContractSpec == (Init \/ InitFailed) /\ [][Next]_contractVars
================================================================================
