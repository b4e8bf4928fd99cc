---------------------------- MODULE LoopWatchdog ----------------------------
(***************************************************************************)
(* The watchdog of watchdog.ts and the stall sweep of sweep.ts that calls  *)
(* it.  invokeWatchdog runs inside its caller: a delivery whose step       *)
(* failed with no failure edge, or the sweep (process 0) for a stalled     *)
(* run.  The model it asks is external: its answer is any decision.        *)
(***************************************************************************)
EXTENDS LoopChain

CONSTANT
  WatchdogBudget   \* the frozen watchdog.retryBudget

ASSUME WatchdogAssumption == WatchdogBudget \in Nat

VARIABLES
  wd,        \* the watchdog invocation of each caller
  retries,   \* per node: watchdog rows whose decision is "retry"
  sweep      \* where the stall sweep is with the run

watchdogVars == <<wd, retries, sweep>>

Sweeper == 0
Caller == Delivery \cup {Sweeper}

Decision == {"retry", "skip", "pause"}

WatchdogPC == {"off", "decide", "apply", "dispatch", "record"}

WatchdogRec ==
  [pc       : WatchdogPC,
   step     : 0..MaxRows,               \* the step diagnosed (expectedStepRunId)
   decision : Decision \cup {"none"},
   next     : 0..MaxRows]               \* the step run it inserted

Off == [pc |-> "off", step |-> 0, decision |-> "none", next |-> 0]

SweepPC == {"idle", "read", "revoke", "watchdog"}

WatchdogTypeOK ==
  /\ wd \in [Caller -> WatchdogRec]
  /\ retries \in [Node -> Nat]
  /\ sweep \in [pc : SweepPC, step : 0..MaxRows]

WatchdogInit ==
  /\ wd = [p \in Caller |-> Off]
  /\ retries = [n \in Node |-> 0]
  /\ sweep = [pc |-> "idle", step |-> 0]

-----------------------------------------------------------------------------
(* Calling and returning                                                   *)

Calls(p) == IF p = Sweeper THEN sweep.pc = "watchdog" ELSE dl[p].pc = "watchdog"

Diagnosed(p) == IF p = Sweeper THEN sweep.step ELSE dl[p].step

\* The result goes back to the caller: the sweep moves on either way, the chain
\* fails the run when the watchdog was not invoked, which is also what it is
\* told when the run changed before the decision could apply.
Return(p, invoked) ==
  /\ wd' = [wd EXCEPT ![p] = Off]
  /\ IF p = Sweeper
     THEN sweep' = [pc |-> "idle", step |-> 0] /\ UNCHANGED dl
     ELSE UNCHANGED sweep /\ GoToOrFinish(p, ~invoked, "failRun")

Continue(p, pc) ==
  /\ wd' = [wd EXCEPT ![p].pc = pc]
  /\ UNCHANGED <<dl, sweep>>

\* pauseLoopRunSystem: whatever step the pointer names.
PauseFrom == {"running", "queued", "stalled"}

PauseSystem(p) ==
  /\ Transition("paused", PauseFrom)
  /\ IF CanTransition(PauseFrom) THEN Continue(p, "record") ELSE Return(p, FALSE)
  /\ UNCHANGED <<source, countVars, rowVars>>

-----------------------------------------------------------------------------
(* invokeWatchdog                                                          *)

\* Check that execution is still allowed and read the retries spent on the
\* node; a spent budget decides for a pause without asking.
Open(p) ==
  LET spent == retries[NodeOf(Diagnosed(p))] >= WatchdogBudget
  IN  /\ Calls(p)
      /\ wd[p].pc = "off"
      /\ \/ /\ ~SourceLive
            /\ Return(p, FALSE)
         \/ /\ SourceLive
            /\ wd' = [wd EXCEPT ![p] =
                 [pc       |-> IF spent THEN "apply" ELSE "decide",
                  step     |-> Diagnosed(p),
                  decision |-> IF spent THEN "pause" ELSE "none",
                  next     |-> 0]]
            /\ UNCHANGED <<dl, sweep>>
      /\ UNCHANGED <<storeVars, nDl, retries>>

\* A mistake: a stall may be skipped like a failure.
DecideAnything(p) ==
  /\ wd[p].pc = "decide"
  /\ \E answer \in Decision : wd' = [wd EXCEPT ![p].pc = "apply", ![p].decision = answer]
  /\ UNCHANGED <<storeVars, chainVars, retries, sweep>>

\* The answer arrives (an invalid one or a timeout is a pause), and execution
\* may have been revoked meanwhile.  A skip is coerced to a pause for a stall.
Decide(p) ==
  /\ wd[p].pc = "decide"
  /\ \/ /\ ~SourceLive
        /\ Return(p, FALSE)
     \/ /\ SourceLive
        /\ \E answer \in Decision :
             wd' = [wd EXCEPT ![p].pc = "apply",
                              ![p].decision = IF answer = "skip" /\ p = Sweeper
                                              THEN "pause" ELSE answer]
        /\ UNCHANGED <<dl, sweep>>
  /\ UNCHANGED <<storeVars, nDl, retries>>

\* A mistake: the pointer is not compared with the diagnosed step.
CanRetryAnything(p) == Linked /\ status \in {"stalled", "running"}

\* retryCurrentStepForWatchdog's transaction: the pointer must still name the
\* diagnosed step and the run be live; the step's own status is not read.
CanRetry(p) == Linked /\ cur = wd[p].step /\ status \in {"stalled", "running"}

ApplyRetry(p) ==
  /\ wd[p].pc = "apply"
  /\ wd[p].decision = "retry"
  /\ CanRetry(p)
  /\ InsertStep(wd[p].step, NodeOf(cur), MaxAttempt(NodeOf(cur)) + 1, "watchdog")
  /\ SetStatus("running")
  /\ wd' = [wd EXCEPT ![p].pc = "dispatch", ![p].next = rows + 1]
  /\ UNCHANGED <<source, stepCount, iterationCount, chainVars, retries, sweep>>

\* A mistake: the refused retry stays the decision that is recorded.
RetryRefusedKept(p) ==
  /\ wd[p].pc = "apply"
  /\ wd[p].decision = "retry"
  /\ ~CanRetry(p)
  /\ Transition("paused", PauseFrom)
  /\ Continue(p, "record")
  /\ UNCHANGED <<source, countVars, rowVars, nDl, retries>>

\* The transaction was refused: fall back to a pause.
RetryRefused(p) ==
  /\ wd[p].pc = "apply"
  /\ wd[p].decision = "retry"
  /\ ~CanRetry(p)
  /\ Transition("paused", PauseFrom)
  /\ IF CanTransition(PauseFrom)
     THEN /\ wd' = [wd EXCEPT ![p].pc = "record", ![p].decision = "pause"]
          /\ UNCHANGED <<dl, sweep>>
     ELSE Return(p, FALSE)
  /\ UNCHANGED <<source, countVars, rowVars, nDl, retries>>

\* A pause, or a skip with no failure edge to follow.
ApplyPause(p) ==
  /\ wd[p].pc = "apply"
  /\ \/ wd[p].decision = "pause"
     \/ wd[p].decision = "skip" /\ EvaluateEdges(NodeOf(wd[p].step), "failure") = NoNode
  /\ PauseSystem(p)
  /\ UNCHANGED <<nDl, retries>>

\* dispatchStepWorkflow: start the step if it is the queued current step of a
\* running run of an active loop; otherwise the row is finalised as failed.
Dispatchable(s) ==
  cur = s /\ status = "running" /\ LoopActive /\ stepRun[s].status = "queued"

RetryDispatch(p) ==
  LET s == wd[p].next
  IN  /\ wd[p].pc = "dispatch"
      /\ \/ /\ Dispatchable(s)
            /\ TakeSlot
            /\ dl' = [dl EXCEPT ![nDl + 1] = At("load", s, nDl + 1)]
            /\ wd' = [wd EXCEPT ![p].pc = "record"]
            /\ UNCHANGED sweep
         \/ /\ ~Dispatchable(s)
            /\ Return(p, FALSE)
            /\ UNCHANGED nDl
      /\ UNCHANGED <<storeVars, retries>>

\* start() throws: the retry is recorded all the same.
RetryDispatchFails(p) ==
  /\ wd[p].pc = "dispatch"
  /\ Dispatchable(wd[p].next)
  /\ Continue(p, "record")
  /\ UNCHANGED <<storeVars, nDl, retries>>

\* The decided row, written last: only now does a retry count.
Record(p) ==
  LET counts == Linked /\ wd[p].decision = "retry"
  IN  /\ wd[p].pc = "record"
      /\ retries' = IF counts THEN [retries EXCEPT ![NodeOf(wd[p].step)] = @ + 1]
                    ELSE retries
      /\ Return(p, TRUE)
      /\ UNCHANGED <<storeVars, nDl>>

\* A database call throws: the chain falls back to failing the run.
WatchdogThrows(p) ==
  /\ wd[p].pc # "off"
  /\ Return(p, FALSE)
  /\ UNCHANGED <<storeVars, nDl, retries>>

Watchdog(p) ==
  \/ Open(p) \/ Decide(p) \/ ApplyRetry(p) \/ RetryRefused(p) \/ ApplyPause(p)
  \/ RetryDispatch(p) \/ Record(p)

-----------------------------------------------------------------------------
(* sweepStalledLoopRuns, for this run                                      *)

\* A run with no event for the stall threshold: queued or running -> stalled.
\* Any pause in progress may have been that long.
Stall ==
  /\ sweep.pc = "idle"
  /\ CanTransition({"queued", "running"})
  /\ SetStatus("stalled")
  /\ sweep' = [pc |-> "read", step |-> 0]
  /\ UNCHANGED <<source, countVars, rowVars, chainVars, wd, retries>>

\* Load the run again and route it to the watchdog with the pointer it has now.
SweepRead ==
  /\ sweep.pc = "read"
  /\ sweep' = IF source = "revoked" THEN [pc |-> "revoke", step |-> 0]
              ELSE IF Linked /\ WatchdogEnabled THEN [pc |-> "watchdog", step |-> cur]
              ELSE [pc |-> "idle", step |-> 0]
  /\ UNCHANGED <<storeVars, chainVars, wd, retries>>

\* Policy no longer admits the run: fail it, if nothing moved it on.
SweepRevoke ==
  /\ sweep.pc = "revoke"
  /\ Transition("failed", {"stalled"})
  /\ sweep' = [pc |-> "idle", step |-> 0]
  /\ UNCHANGED <<source, countVars, rowVars, chainVars, wd, retries>>

\* The cron function dies between two statements.
SweepCrash ==
  /\ sweep.pc # "idle"
  /\ sweep' = [pc |-> "idle", step |-> 0]
  /\ wd' = [wd EXCEPT ![Sweeper] = Off]
  /\ UNCHANGED <<storeVars, chainVars, retries>>
=============================================================================
