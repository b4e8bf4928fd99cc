------------------------------ MODULE LoopChain ------------------------------
(***************************************************************************)
(* Deliveries of the step workflow: runAgentLoopStep of chain.ts with the  *)
(* step executor it calls.  start(runAgentLoopStepWorkflow, ...) creates a *)
(* delivery; the workflow platform runs it at least once, so a delivery    *)
(* may crash and run again, or run twice at the same time.  Each action is *)
(* the code between two round trips to the database.                       *)
(***************************************************************************)
EXTENDS LoopStore

CONSTANTS
  MaxSteps,         \* guardrail maxStepsPerRun
  MaxIterations,    \* guardrail maxIterations
  WatchdogEnabled   \* the frozen watchdog.enabled

ASSUME ChainAssumption ==
  /\ MaxSteps \in Nat \ {0}
  /\ MaxIterations \in Nat \ {0}
  /\ WatchdogEnabled \in BOOLEAN

VARIABLES
  dl,     \* the deliveries
  nDl     \* how many have been started

chainVars == <<dl, nDl>>

DeliveryPC == {"idle", "load", "deny", "skip", "begin", "guard", "claim",
               "generation", "correlate", "work", "endStep", "throw",
               "failRun", "reload", "plan", "advance", "dispatch",
               "watchdog", "done"}

(***************************************************************************)
(* What a delivery holds in memory between its round trips.                *)
(***************************************************************************)
DeliveryRec ==
  [pc      : DeliveryPC,
   step    : 0..MaxRows,          \* the step run it was started for
   wf      : 0..MaxDeliveries,    \* its workflow run
   steps   : Nat,                 \* loopRun.stepCount, as loaded
   iters   : Nat,                 \* loopRun.iterationCount, as loaded
   timed   : BOOLEAN,             \* loopRun.startedAt was set when loaded
   hadWf   : BOOLEAN,             \* stepRun.workflowRunId was set when loaded
   wfSeen  : 0..MaxDeliveries,    \* stepRun.workflowRunId the executor loaded
   out     : Outcome \cup {"none"},
   hold    : BOOLEAN,             \* pausedMidExecution or stalledMidExecution
   attempt : Nat,                 \* attempt computed for the next step
   revisit : BOOLEAN,             \* the next node has been visited before
   next    : 0..MaxRows]          \* the step run to dispatch

At(pc, s, wf) ==
  [pc |-> pc, step |-> s, wf |-> wf, steps |-> 0, iters |-> 0, timed |-> FALSE,
   hadWf |-> FALSE, wfSeen |-> 0, out |-> "none", hold |-> FALSE,
   attempt |-> 0, revisit |-> FALSE, next |-> 0]

NotStarted == At("idle", 0, 0)

ChainTypeOK ==
  /\ dl \in [Delivery -> DeliveryRec]
  /\ nDl \in 0..MaxDeliveries

ChainInit ==
  /\ dl = [d \in Delivery |-> NotStarted]
  /\ nDl = 0

-----------------------------------------------------------------------------
\* A delivery that has ended keeps nothing but which step it was for.
Ended(d) == At("done", dl[d].step, dl[d].wf)

Become(d, rec) == dl' = [dl EXCEPT ![d] = rec]

GoTo(d, pc) == Become(d, [dl[d] EXCEPT !.pc = pc])

Finish(d) == Become(d, Ended(d))

GoToOrFinish(d, continue, pc) == IF continue THEN GoTo(d, pc) ELSE Finish(d)

\* start(runAgentLoopStepWorkflow, ...) takes the next delivery slot.
TakeSlot ==
  /\ nDl < MaxDeliveries
  /\ nDl' = nDl + 1

KindOf(d) == Kind[NodeOf(dl[d].step)]

NextNode(d) == EvaluateEdges(NodeOf(dl[d].step), dl[d].out)

InFlight(d) == dl[d].pc \notin {"idle", "done"}

Unfinished == {"queued", "running", "stalled"}

-----------------------------------------------------------------------------
(* runAgentLoopStep up to the executor                                     *)

\* A mistake: the run's status is not looked at before executing.
LoadAnyway(d) ==
  LET s == dl[d].step
  IN  /\ dl[d].pc = "load"
      /\ IF Linked /\ cur = s
         THEN Become(d, [dl[d] EXCEPT !.pc = "guard", !.steps = stepCount,
                                      !.iters = iterationCount])
         ELSE Finish(d)
      /\ UNCHANGED <<storeVars, nDl>>

\* Load the step with its run and policy; stop for a deleted source, a
\* pointer that names another step, or a run that must not execute.
Load(d) ==
  LET s == dl[d].step
      runnable == cur = s /\ status \in Unfinished
  IN  /\ dl[d].pc = "load"
      /\ \/ /\ source = "revoked"
            /\ GoTo(d, "deny")
         \/ /\ source # "revoked"
            /\ Linked /\ runnable
            /\ Become(d, [dl[d] EXCEPT !.pc = IF status = "queued" THEN "begin" ELSE "guard",
                                       !.steps = stepCount,
                                       !.iters = iterationCount,
                                       !.timed = startedAt,
                                       !.hadWf = (stepRun[s].wf # 0)])
         \/ /\ source # "revoked"
            /\ ~(Linked /\ runnable)
            /\ Finish(d)
      /\ UNCHANGED <<storeVars, nDl>>

\* The policy error fails the run; only the winner skips the step.
Deny(d) ==
  /\ dl[d].pc = "deny"
  /\ Transition("failed", Unfinished)
  /\ GoToOrFinish(d, CanTransition(Unfinished), "skip")
  /\ UNCHANGED <<source, countVars, rowVars, nDl>>

\* Mark the step skipped, whatever its status is by now.
SkipStep(d) ==
  /\ dl[d].pc = "skip"
  /\ IF CanUpdateStep(dl[d].step, StepStatus)
     THEN SetStep(dl[d].step, "skipped")
     ELSE UNCHANGED stepRun
  /\ Finish(d)
  /\ UNCHANGED <<source, runVars, countVars, rows, hist, nDl>>

\* queued -> running; losing this race means a control action came first.
Begin(d) ==
  /\ dl[d].pc = "begin"
  /\ Transition("running", {"queued"})
  /\ GoToOrFinish(d, CanTransition({"queued"}), "guard")
  /\ UNCHANGED <<source, countVars, rowVars, nDl>>

\* Mistakes: one step too many; no limit at all.
CountExceeded(d) == dl[d].steps > MaxSteps \/ dl[d].iters > MaxIterations
NeverTripped(d) == FALSE

CountTripped(d) == dl[d].steps >= MaxSteps \/ dl[d].iters >= MaxIterations

\* A guardrail tripped (a counter, or the wall clock of a run that had
\* started): fail the run; only the winner skips the step.
Trip(d) ==
  /\ dl[d].pc = "guard"
  /\ CountTripped(d) \/ dl[d].timed
  /\ Transition("failed", Unfinished)
  /\ GoToOrFinish(d, CanTransition(Unfinished), "skip")
  /\ UNCHANGED <<source, countVars, rowVars, nDl>>

-----------------------------------------------------------------------------
(* executeAgentLoopStep                                                    *)

\* The executor loads everything again and decides who owns the step.
Enter(d) ==
  LET s == dl[d].step
      row == stepRun[s]
      agent == KindOf(d) = "agent_step"
  IN  /\ dl[d].pc = "guard"
      /\ ~CountTripped(d)
      /\ \/ /\ ~Linked
            /\ Become(d, [dl[d] EXCEPT !.pc = "reload", !.out = "failure"])
         \/ /\ source = "revoked"
            /\ GoTo(d, "throw")
         \/ /\ Linked /\ source # "revoked"
            /\ row.status \in StepTerminal
            /\ Finish(d)
         \/ /\ Linked /\ source # "revoked"
            /\ row.status = "queued"
            /\ Become(d, [dl[d] EXCEPT !.pc = "claim", !.wfSeen = row.wf])
         \/ /\ Linked /\ source # "revoked"
            /\ row.status = "running" /\ agent
            /\ Become(d, [dl[d] EXCEPT !.pc = "generation", !.wfSeen = row.wf])
         \/ /\ Linked /\ source # "revoked"
            /\ row.status = "running" /\ ~agent
            /\ GoToOrFinish(d, row.wf = dl[d].wf, "work")
      /\ UNCHANGED <<storeVars, nDl>>

\* activeStepDeliveries: a delivery already running in this process turns a
\* second one of the same step and workflow away.
LocalDuplicate(d) ==
  /\ dl[d].pc = "guard"
  /\ ~CountTripped(d)
  /\ \E e \in Delivery \ {d} :
       /\ dl[e].step = dl[d].step /\ dl[e].wf = dl[d].wf
       /\ dl[e].pc \in {"claim", "generation", "correlate", "work", "endStep"}
  /\ Finish(d)
  /\ UNCHANGED <<storeVars, nDl>>

\* queued -> running, recording the workflow run.
Claim(d) ==
  LET s == dl[d].step
      won == CanUpdateStep(s, {"queued"})
  IN  /\ dl[d].pc = "claim"
      /\ stepRun' = IF won THEN [stepRun EXCEPT ![s].status = "running",
                                               ![s].wf = dl[d].wf]
                    ELSE stepRun
      /\ GoToOrFinish(d, won, IF KindOf(d) = "agent_step" THEN "generation" ELSE "work")
      /\ UNCHANGED <<source, runVars, countVars, rows, hist, nDl>>

\* The delivery may perform the external side effects of the attempt.
BeginWork(d) == hist' = [hist EXCEPT ![dl[d].step].execs = @ + 1]

\* A mistake: the claim generation is overwritten.
ClaimGenerationAgain(d) ==
  LET s == dl[d].step
      won == CanUpdateStep(s, {"running"})
  IN  /\ dl[d].pc = "generation"
      /\ stepRun' = IF won THEN [stepRun EXCEPT ![s].gen = d] ELSE stepRun
      /\ IF won THEN BeginWork(d) ELSE UNCHANGED hist
      /\ GoToOrFinish(d, won, "work")
      /\ UNCHANGED <<source, runVars, countVars, rows, nDl>>

\* Write the claim generation if no delivery has.
ClaimGeneration(d) ==
  LET s == dl[d].step
      won == CanUpdateStep(s, {"running"}) /\ stepRun[s].gen = 0
      correlated == dl[d].wfSeen = dl[d].wf
  IN  /\ dl[d].pc = "generation"
      /\ stepRun' = IF won THEN [stepRun EXCEPT ![s].gen = d] ELSE stepRun
      /\ IF won /\ correlated THEN BeginWork(d) ELSE UNCHANGED hist
      /\ GoToOrFinish(d, won, IF correlated THEN "work" ELSE "correlate")
      /\ UNCHANGED <<source, runVars, countVars, rows, nDl>>

\* Repair the workflow correlation under the generation just written.
Correlate(d) ==
  LET s == dl[d].step
      won == CanUpdateStep(s, {"running"}) /\ stepRun[s].gen = d
  IN  /\ dl[d].pc = "correlate"
      /\ stepRun' = IF won THEN [stepRun EXCEPT ![s].wf = dl[d].wf] ELSE stepRun
      /\ IF won THEN BeginWork(d) ELSE UNCHANGED hist
      /\ GoToOrFinish(d, won, "work")
      /\ UNCHANGED <<source, runVars, countVars, rows, nDl>>

\* The step update of an executor branch: on success the chain continues with
\* the outcome; refused, the delivery ends as a replay.
Report(d, updated, to, outcome) ==
  /\ IF updated THEN SetStep(dl[d].step, to) ELSE UNCHANGED stepRun
  /\ IF updated THEN Become(d, [dl[d] EXCEPT !.pc = "reload", !.out = outcome]) ELSE Finish(d)
  /\ UNCHANGED <<source, runVars, countVars, rows, hist, nDl>>

\* A start, condition or github_check node succeeds.  The update names no
\* expected status and its result is ignored.
Succeed(d) ==
  /\ dl[d].pc = "work"
  /\ KindOf(d) \in {"start", "condition", "github_check"}
  /\ IF Linked THEN SetStep(dl[d].step, "succeeded") ELSE UNCHANGED stepRun
  /\ \E outcome \in IF KindOf(d) = "condition" THEN {"true", "false"} ELSE {"success"} :
       Become(d, [dl[d] EXCEPT !.pc = "reload", !.out = outcome])
  /\ UNCHANGED <<source, runVars, countVars, rows, hist, nDl>>

\* recordStepFailure without a claim generation: no expected status either,
\* but a step of a deleted source is reported as a replay.
Fail(d) ==
  /\ dl[d].pc = "work"
  /\ KindOf(d) \in {"condition", "github_check"}
  /\ Report(d, CanUpdateStep(dl[d].step, StepStatus), "failed", "failure")

OwnsExecution(d) ==
  LET s == dl[d].step
  IN  CanUpdateStep(s, {"running"}) /\ stepRun[s].wf = dl[d].wf /\ stepRun[s].gen = d

\* executeAgentStep ends, in success or failure, under its claim.
FinishAgent(d) ==
  /\ dl[d].pc = "work"
  /\ KindOf(d) = "agent_step"
  /\ \/ Report(d, OwnsExecution(d), "succeeded", "success")
     \/ Report(d, OwnsExecution(d), "failed", "failure")

\* The end node completes the run.  When a control action came first the
\* executor returns success and the chain stops at the end node.
CompleteRun(d) ==
  LET active == {"queued", "running"}
  IN  /\ dl[d].pc = "work"
      /\ KindOf(d) = "end"
      /\ Transition("completed", active)
      /\ GoToOrFinish(d, CanTransition(active), "endStep")
      /\ UNCHANGED <<source, countVars, rowVars, nDl>>

EndStep(d) ==
  /\ dl[d].pc = "endStep"
  /\ IF Linked THEN SetStep(dl[d].step, "succeeded") ELSE UNCHANGED stepRun
  /\ Finish(d)
  /\ UNCHANGED <<source, runVars, countVars, rows, hist, nDl>>

\* A mistake: the step fails whatever became of it.
ThrowOverwrites(d) ==
  /\ dl[d].pc = "throw"
  /\ IF Linked THEN SetStep(dl[d].step, "failed") ELSE UNCHANGED stepRun
  /\ GoTo(d, "failRun")
  /\ UNCHANGED <<source, runVars, countVars, rows, hist, nDl>>

\* The executor threw: fail the step if it is still live (and ours, when it
\* was already correlated at load), then the run.
ThrowStep(d) ==
  LET s == dl[d].step
  IN  /\ dl[d].pc = "throw"
      /\ IF /\ CanUpdateStep(s, {"queued", "running"})
            /\ dl[d].hadWf => stepRun[s].wf = dl[d].wf
         THEN SetStep(s, "failed")
         ELSE UNCHANGED stepRun
      /\ GoTo(d, "failRun")
      /\ UNCHANGED <<source, runVars, countVars, rows, hist, nDl>>

\* A mistake: the update names no expected status.
FailAnyRun(d) ==
  /\ dl[d].pc = "failRun"
  /\ Transition("failed", RunStatus)
  /\ Finish(d)
  /\ UNCHANGED <<source, countVars, rowVars, nDl>>

\* Fail the run: executor error, default sink, missing route or revoked source.
FailRun(d) ==
  /\ dl[d].pc = "failRun"
  /\ Transition("failed", Unfinished)
  /\ Finish(d)
  /\ UNCHANGED <<source, countVars, rowVars, nDl>>

-----------------------------------------------------------------------------
(* After the executor: routing, advance, dispatch                          *)

NoAdvance == {"cancelled", "completed", "failed"}

\* A mistake: a missing route is followed.
ReloadUnrouted(d) ==
  /\ dl[d].pc = "reload"
  /\ IF status \in NoAdvance THEN Finish(d) ELSE GoTo(d, "plan")
  /\ UNCHANGED <<storeVars, nDl>>

\* Reload the run's status and evaluate the edges.  A run paused or stalled
\* meanwhile still advances, but does not dispatch.
Reload(d) ==
  /\ dl[d].pc = "reload"
  /\ \/ /\ status \in NoAdvance
        /\ Finish(d)
     \/ /\ status \notin NoAdvance
        /\ NextNode(d) # NoNode
        /\ Become(d, [dl[d] EXCEPT !.pc = "plan", !.hold = (status \in {"paused", "stalled"})])
     \/ /\ status \notin NoAdvance
        /\ NextNode(d) = NoNode
        /\ GoTo(d, IF dl[d].out = "failure" /\ WatchdogEnabled THEN "watchdog" ELSE "failRun")
  /\ UNCHANGED <<storeVars, nDl>>

\* A mistake: the first revisit is not counted.
PlanOffByOne(d) ==
  /\ dl[d].pc = "plan"
  /\ Become(d, [dl[d] EXCEPT !.pc = "advance",
                             !.attempt = MaxAttempt(NextNode(d)) + 1,
                             !.revisit = (Cardinality(StepsOf(NextNode(d))) > 1)])
  /\ UNCHANGED <<storeVars, nDl>>

\* countStepRunsForNode and getMaxAttemptForNode, before the transaction.
Plan(d) ==
  /\ dl[d].pc = "plan"
  /\ Become(d, [dl[d] EXCEPT !.pc = "advance",
                             !.attempt = MaxAttempt(NextNode(d)) + 1,
                             !.revisit = (StepsOf(NextNode(d)) # {})])
  /\ UNCHANGED <<storeVars, nDl>>

\* createAndAdvanceAgentLoopStep: under the run's row lock, insert the next
\* step and move the pointer.  The run's status is not looked at; the counters
\* come from the first load.
AdvanceWhen(d, wins) ==
  /\ dl[d].pc = "advance"
  /\ \/ /\ wins
        /\ InsertStep(dl[d].step, NextNode(d), dl[d].attempt, "advance")
        /\ stepCount' = dl[d].steps + 1
        /\ iterationCount' = dl[d].iters + (IF dl[d].revisit THEN 1 ELSE 0)
        /\ IF dl[d].hold THEN Finish(d)
           ELSE Become(d, [dl[d] EXCEPT !.pc = "dispatch", !.next = rows + 1])
     \/ /\ ~wins
        /\ Finish(d)
        /\ UNCHANGED <<countVars, rowVars>>
  /\ UNCHANGED <<source, runVars, nDl>>

\* Mistakes: advance without comparing the pointer, and without asking whether
\* the source still exists.
AdvanceFromAnywhere(d) ==
  AdvanceWhen(d, Linked /\ ~AttemptTaken(NextNode(d), dl[d].attempt))

AdvanceUnlinked(d) ==
  AdvanceWhen(d, cur = dl[d].step /\ ~AttemptTaken(NextNode(d), dl[d].attempt))

\* The pointer still names this step and the unique index admits the next.
Advance(d) ==
  AdvanceWhen(d, /\ cur = dl[d].step
                 /\ Linked
                 /\ ~AttemptTaken(NextNode(d), dl[d].attempt))

\* Start the next step's workflow if the source is live, else fail the run.
Dispatch(d) ==
  /\ dl[d].pc = "dispatch"
  /\ \/ /\ SourceLive
        /\ TakeSlot
        /\ dl' = [dl EXCEPT ![d] = Ended(d),
                            ![nDl + 1] = At("load", dl[d].next, nDl + 1)]
     \/ /\ ~SourceLive
        /\ GoTo(d, "failRun")
        /\ UNCHANGED nDl
  /\ UNCHANGED storeVars

\* A start() that fails leaves the run running with its queued next step.
DispatchFails(d) ==
  /\ dl[d].pc = "dispatch"
  /\ SourceLive
  /\ Finish(d)
  /\ UNCHANGED <<storeVars, nDl>>

-----------------------------------------------------------------------------
(* The workflow platform                                                   *)

\* The worker dies, or an unguarded database call throws: the platform runs
\* the delivery again from the start under the same workflow run ...
Restart(d) ==
  /\ InFlight(d)
  /\ dl[d].pc # "load"
  /\ Become(d, At("load", dl[d].step, dl[d].wf))
  /\ UNCHANGED <<storeVars, nDl>>

\* ... or has used up its attempts.
Lose(d) ==
  /\ InFlight(d)
  /\ Finish(d)
  /\ UNCHANGED <<storeVars, nDl>>

\* At-least-once delivery: a second worker runs a delivery that is in flight.
Redeliver(d) ==
  /\ InFlight(d)
  /\ TakeSlot
  /\ dl' = [dl EXCEPT ![nDl + 1] = At("load", dl[d].step, dl[d].wf)]
  /\ UNCHANGED storeVars

\* The executor throws out of its work.
Throw(d) ==
  /\ dl[d].pc = "work"
  /\ GoTo(d, "throw")
  /\ UNCHANGED <<storeVars, nDl>>

\* One round trip of a delivery that nothing interrupts.
Step(d) ==
  \/ Load(d) \/ Deny(d) \/ SkipStep(d) \/ Begin(d) \/ Trip(d)
  \/ Enter(d) \/ LocalDuplicate(d) \/ Claim(d) \/ ClaimGeneration(d) \/ Correlate(d)
  \/ Succeed(d) \/ Fail(d) \/ FinishAgent(d) \/ CompleteRun(d) \/ EndStep(d)
  \/ ThrowStep(d) \/ FailRun(d)
  \/ Reload(d) \/ Plan(d) \/ Advance(d) \/ Dispatch(d)

\* What the platform or the network may do to it.
Fault(d) ==
  Restart(d) \/ Lose(d) \/ Redeliver(d) \/ Throw(d) \/ DispatchFails(d)
=============================================================================
