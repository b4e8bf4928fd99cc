------------------------------- MODULE LoopRun -------------------------------
(***************************************************************************)
(* One agent loop run with everything that acts on it: the deliveries of   *)
(* its step workflow, the watchdog and the stall sweep, the operator's     *)
(* pause, resume, retry and cancel (run-controls.ts), the owner and the    *)
(* policy that change the loop it came from, and the faults of the         *)
(* platform underneath.                                                    *)
(***************************************************************************)
EXTENDS LoopWatchdog

CONSTANTS
  MaxControls,   \* bound: operator requests in a behaviour
  MaxFaults,     \* bound: crashes, redeliveries and failed calls
  MaxSweeps,     \* bound: times the sweep finds the run silent
  MaxChanges     \* bound: changes of the source

ASSUME RunBounds == {MaxControls, MaxFaults, MaxSweeps, MaxChanges} \subseteq Nat

VARIABLES
  calls,   \* start() calls of the trigger, resume and retry requests in flight
  spent    \* how much of each bound is used

vars == <<storeVars, chainVars, watchdogVars, calls, spent>>

CallKind == {"trigger", "resume", "retry"}

Call == [kind : CallKind, step : StepId, failed : BOOLEAN]

Spent == [controls : 0..MaxControls, faults : 0..MaxFaults,
          sweeps : 0..MaxSweeps, changes : 0..MaxChanges]

\* Types of the store, the deliveries, the watchdog and what is under way.
TypeOK ==
  /\ StoreTypeOK
  /\ ChainTypeOK
  /\ WatchdogTypeOK
  /\ calls \subseteq Call
  /\ spent \in Spent

\* dispatchLoopRun has set the pointer and is about to start the start node.
Init ==
  /\ StoreInit
  /\ ChainInit
  /\ WatchdogInit
  /\ calls = {[kind |-> "trigger", step |-> 1, failed |-> FALSE]}
  /\ spent = [controls |-> 0, faults |-> 0, sweeps |-> 0, changes |-> 0]

-----------------------------------------------------------------------------
(* Bounds                                                                  *)

SpendControl == spent.controls < MaxControls /\ spent' = [spent EXCEPT !.controls = @ + 1]
SpendFault   == spent.faults < MaxFaults /\ spent' = [spent EXCEPT !.faults = @ + 1]
SpendSweep   == spent.sweeps < MaxSweeps /\ spent' = [spent EXCEPT !.sweeps = @ + 1]
SpendChange  == spent.changes < MaxChanges /\ spent' = [spent EXCEPT !.changes = @ + 1]

-----------------------------------------------------------------------------
(* Operator requests                                                       *)

Pause ==
  /\ CanTransition({"running", "queued"})
  /\ SetStatus("paused")
  /\ SpendControl
  /\ UNCHANGED <<source, countVars, rowVars, chainVars, watchdogVars, calls>>

\* A mistake: a run that has failed can be cancelled.
CancelFailed ==
  /\ CanTransition({"running", "queued", "paused", "failed"})
  /\ SetStatus("cancelled")
  /\ SpendControl
  /\ UNCHANGED <<source, countVars, rowVars, chainVars, watchdogVars, calls>>

Cancel ==
  /\ CanTransition({"running", "queued", "paused"})
  /\ SetStatus("cancelled")
  /\ SpendControl
  /\ UNCHANGED <<source, countVars, rowVars, chainVars, watchdogVars, calls>>

\* paused -> running, then start the step the pointer named at that moment.
Resume ==
  /\ CanTransition({"paused"})
  /\ LoopActive
  /\ SetStatus("running")
  /\ calls' = calls \cup {[kind |-> "resume", step |-> cur, failed |-> FALSE]}
  /\ SpendControl
  /\ UNCHANGED <<source, countVars, rowVars, chainVars, watchdogVars>>

\* A mistake: a queued current step is not reused.
RetryAfresh ==
  /\ CanTransition({"failed", "stalled"})
  /\ LoopActive
  /\ SetStatus("running")
  /\ InsertStep(cur, NodeOf(cur), MaxAttempt(NodeOf(cur)) + 1, "retry")
  /\ calls' = calls \cup {[kind |-> "retry", step |-> rows + 1, failed |-> FALSE]}
  /\ SpendControl
  /\ UNCHANGED <<source, stepCount, iterationCount, chainVars, watchdogVars>>

\* failed or stalled -> running.  A queued current step is used as it is; any
\* other is retried as the next attempt of its node.
Retry ==
  /\ CanTransition({"failed", "stalled"})
  /\ LoopActive
  /\ SetStatus("running")
  /\ \/ /\ stepRun[cur].status = "queued"
        /\ calls' = calls \cup {[kind |-> "retry", step |-> cur, failed |-> FALSE]}
        /\ UNCHANGED <<cur, rowVars>>
     \/ /\ stepRun[cur].status # "queued"
        /\ InsertStep(cur, NodeOf(cur), MaxAttempt(NodeOf(cur)) + 1, "retry")
        /\ calls' = calls \cup {[kind |-> "retry", step |-> rows + 1, failed |-> FALSE]}
  /\ SpendControl
  /\ UNCHANGED <<source, stepCount, iterationCount, chainVars, watchdogVars>>

\* The request starts the workflow ...
StartCall(c) ==
  /\ c \in calls /\ ~c.failed
  /\ TakeSlot
  /\ dl' = [dl EXCEPT ![nDl + 1] = At("load", c.step, nDl + 1)]
  /\ calls' = calls \ {c}
  /\ UNCHANGED <<storeVars, watchdogVars, spent>>

\* ... or start() throws ...
StartCallFails(c) ==
  /\ c \in calls /\ ~c.failed
  /\ calls' = (calls \ {c}) \cup {[c EXCEPT !.failed = TRUE]}
  /\ SpendFault
  /\ UNCHANGED <<storeVars, chainVars, watchdogVars>>

\* ... and the run is failed, if it is still as the request left it ...
FailCall(c) ==
  /\ c \in calls /\ c.failed
  /\ Transition("failed", IF c.kind = "resume" THEN {"running", "queued", "paused"}
                          ELSE {"queued", "running"})
  /\ calls' = calls \ {c}
  /\ UNCHANGED <<source, countVars, rowVars, chainVars, watchdogVars, spent>>

\* ... or the request dies before either.
CallCrash(c) ==
  /\ c \in calls
  /\ calls' = calls \ {c}
  /\ SpendFault
  /\ UNCHANGED <<storeVars, chainVars, watchdogVars>>

-----------------------------------------------------------------------------
(* The source of the run                                                   *)

\* The owner edits the loop's status, or policy changes its mind.
ChangeSource ==
  /\ Linked
  /\ source' \in IF source = "active" THEN {"inactive", "revoked"} ELSE {"active"}
  /\ SpendChange
  /\ UNCHANGED <<runVars, countVars, rowVars, chainVars, watchdogVars, calls>>

\* deleteAgentLoop: one transaction cancels a live run, skips its live steps
\* and unlinks it.
DeleteSource ==
  LET live == status \in {"queued", "running", "paused", "stalled"}
  IN  /\ Linked
      /\ source' = "deleted"
      /\ IF live
         THEN /\ SetStatus("cancelled")
              /\ stepRun' = [s \in StepId |->
                   IF s <= rows /\ stepRun[s].status \in {"queued", "running"}
                   THEN [stepRun[s] EXCEPT !.status = "skipped"] ELSE stepRun[s]]
         ELSE UNCHANGED <<runVars, stepRun>>
      /\ SpendChange
      /\ UNCHANGED <<countVars, rows, hist, chainVars, watchdogVars, calls>>

-----------------------------------------------------------------------------
(* The processes                                                           *)

Deliver(d) == Step(d) /\ UNCHANGED <<watchdogVars, calls, spent>>

\* Work is lost: the worker dies, and with it the watchdog invocation inside
\* it, or the next step is not started.
Crash(d) ==
  /\ Restart(d) \/ Lose(d) \/ DispatchFails(d)
  /\ wd' = [wd EXCEPT ![d] = Off]
  /\ SpendFault
  /\ UNCHANGED <<retries, sweep, calls>>

\* Work is repeated or refused, and nothing is lost.
Disturb(d) ==
  /\ Redeliver(d) \/ Throw(d)
  /\ SpendFault
  /\ UNCHANGED <<watchdogVars, calls>>

Watch(p) == Watchdog(p) /\ UNCHANGED <<calls, spent>>

WatchFault(p) ==
  /\ RetryDispatchFails(p) \/ WatchdogThrows(p)
  /\ SpendFault
  /\ UNCHANGED calls

Sweep == Stall /\ SpendSweep /\ UNCHANGED calls

SweepStep == (SweepRead \/ SweepRevoke) /\ UNCHANGED <<calls, spent>>

SweepFault == SweepCrash /\ SpendFault /\ UNCHANGED calls

Request == \E c \in calls : StartCall(c) \/ FailCall(c)

RequestFault == \E c \in calls : StartCallFails(c) \/ CallCrash(c)

Next ==
  \/ \E d \in Delivery : Deliver(d) \/ Crash(d) \/ Disturb(d)
  \/ \E p \in Caller : Watch(p) \/ WatchFault(p)
  \/ Sweep \/ SweepStep \/ SweepFault
  \/ Pause \/ Cancel \/ Resume \/ Retry
  \/ Request \/ RequestFault
  \/ ChangeSource \/ DeleteSource

Spec == Init /\ [][Next]_vars
=============================================================================
