----------------------------- MODULE BackgroundRun -----------------------------
(***************************************************************************)
(* One run of a background agent, that is one idempotency key: the events  *)
(* and cron ticks that may create it, the workflow step that executes it,  *)
(* and the sweep that gives it up.  A step is one round trip to the        *)
(* database, the workflow platform or the sandbox provider.                *)
(***************************************************************************)
EXTENDS Integers, Sequences

CONSTANTS
  Process,         \* requests that report the trigger's event, and cron jobs
  Casts,           \* what the processes may be, and what the trigger may look like
  MaxDeliveries,   \* bound: deliveries of the workflow's step, duplicates included
  MaxFaults,       \* bound: deaths, throws, duplicates and failing stops
  TokenTurns,      \* turns after which the token fuse blows
  GraceTurns, FinalizeTurns    \* the stall budgets

Delivery == 1..MaxDeliveries

\* model: the inference profile that the agent names exists, as do those of the agents
\* whose triggers the same tick reaches first.
Trigger == [enabled : BOOLEAN, due : BOOLEAN, builtin : BOOLEAN, model : BOOLEAN]

ASSUME BackgroundParams ==
  /\ {MaxDeliveries, TokenTurns, GraceTurns, FinalizeTurns} \subseteq Nat \ {0}
  /\ MaxFaults \in Nat
  /\ Casts \subseteq [kinds : [Process -> {"event", "cron"}], trigger : Trigger]

VARIABLES
  row,       \* background_agent_runs: status, and updatedAt within the stale window
  trigger,   \* the trigger and its agent: enabled, nextRunAt in the past, builtinKind, model
  log,       \* background_agent_events, those that end a run
  proc,      \* the processes
  exec,      \* the deliveries
  vm,        \* the run's sandbox runs
  spent      \* the faults so far, and whether one left a sandbox to its timeout

vars == <<row, trigger, log, proc, exec, vm, spent>>

Live == {"queued", "running"}
Ended == {"succeeded", "failed"}

Ending == {"completed", "failed", "swept", "startFailed"}

ProcessPC == {"idle", "sweep", "sweepEvent", "list", "find", "freeze", "insert", "advance", "start",
              "startFailed", "startEvent", "done"}

ProcessRec == [kind : {"event", "cron"}, pc : ProcessPC, made : BOOLEAN]

TurnPC == {"turn", "generate", "observe"}

ExecPC == TurnPC \cup
  {"idle", "load", "refuse", "claim", "check", "connect", "ready", "extract", "verify",
   "conclude", "succeed", "completed", "fail", "failed", "dispose",
   "unwind", "over"}

Stage == {"running", "nudged", "escalating"}

BudgetOf(stage) == IF stage = "nudged" THEN GraceTurns ELSE FinalizeTurns

Capped(n, cap) == IF n > cap THEN cap ELSE n

\* tokens counts turns up to the fuse; granted is history: the turns in which the agent
\* was told to finalize.
ExecRec ==
  [pc : ExecPC, ours : BOOLEAN, held : BOOLEAN,
   stage : Stage, n : Nat, tokens : 0..TokenTurns, fused : BOOLEAN,
   granted : 0..(FinalizeTurns + 1), cut : BOOLEAN]

\* Types of the run, the processes and the deliveries; a stall counter that reaches its
\* budget is acted on in the same turn.
TypeOK ==
  /\ row \in [status : Live \cup Ended \cup {"none"}, heard : BOOLEAN]
  /\ trigger \in Trigger
  /\ log \in Seq(Ending)
  /\ proc \in [Process -> ProcessRec]
  /\ exec \in [Delivery -> ExecRec]
  /\ \A e \in Delivery : exec[e].n < BudgetOf(exec[e].stage)
  /\ vm \in BOOLEAN
  /\ spent \in [faults : 0..MaxFaults, leaked : BOOLEAN]

Fresh(kind) == [kind |-> kind, pc |-> "idle", made |-> FALSE]

\* What a delivery keeps in memory when it gets to pc and has not begun the agent's loop.
Blank(pc, held) ==
  [pc |-> pc, ours |-> FALSE, held |-> held, stage |-> "running", n |-> 0,
   tokens |-> 0, fused |-> FALSE, granted |-> 0, cut |-> FALSE]

Init ==
  /\ row = [status |-> "none", heard |-> TRUE]
  /\ log = <<>>
  /\ \E cast \in Casts :
       /\ trigger = cast.trigger
       /\ proc = [p \in Process |-> Fresh(cast.kinds[p])]
  /\ exec = [e \in Delivery |-> Blank("idle", FALSE)]
  /\ vm = FALSE
  /\ spent = [faults |-> 0, leaked |-> FALSE]

Fault(leaks) ==
  /\ spent.faults < MaxFaults
  /\ spent' = [faults |-> spent.faults + 1, leaked |-> spent.leaked \/ leaks]

\* updateBackgroundAgentRunStatus, once its condition holds.
Write(status) == row' = [status |-> status, heard |-> TRUE]

\* recordBackgroundAgentEvent
Record(event) == log' = Append(log, event)

-----------------------------------------------------------------------------
(* dispatchBackgroundTriggerEvent, dispatchWebhookErrorEvent,               *)
(* dispatchManualBackgroundAgentTest and the cron route                     *)

At(p, pc) == proc[p].pc = pc

Goto(p, pc) == proc' = [proc EXCEPT ![p].pc = pc]

\* Matching and the budget of the pull request, which other runs may have used up.
ReceiveEvent(p) ==
  /\ At(p, "idle") /\ proc[p].kind = "event"
  /\ \/ trigger.enabled /\ Goto(p, "find")
     \/ Goto(p, "done")
  /\ UNCHANGED <<row, trigger, log, exec, vm, spent>>

\* A tick, the first or five minutes after the last: listStaleBackgroundAgentRuns.
ListStale(p) ==
  /\ At(p, "idle") \/ At(p, "done")
  /\ proc[p].kind = "cron"
  /\ proc' = [proc EXCEPT ![p].made = FALSE,
                          ![p].pc = IF row.status \in Live /\ ~row.heard THEN "sweep" ELSE "list"]
  /\ UNCHANGED <<row, trigger, log, exec, vm, spent>>

\* A mistake: the event is recorded whether or not the run was still to be ended.
SweepUnchecked(p) ==
  /\ At(p, "sweep")
  /\ Goto(p, "sweepEvent")
  /\ IF row.status \in Live THEN Write("failed") ELSE UNCHANGED row
  /\ UNCHANGED <<trigger, log, exec, vm, spent>>

\* The forced update compares the status, not the time that made the run stale.
Sweep(p) ==
  /\ At(p, "sweep")
  /\ IF row.status \in Live THEN Write("failed") /\ Goto(p, "sweepEvent")
                            ELSE Goto(p, "list") /\ UNCHANGED row
  /\ UNCHANGED <<trigger, log, exec, vm, spent>>

RecordSwept(p) ==
  /\ At(p, "sweepEvent")
  /\ Record("swept") /\ Goto(p, "list")
  /\ UNCHANGED <<row, trigger, exec, vm, spent>>

\* listEnabledScheduleTriggers, and which of them are due.
ListDue(p) ==
  /\ At(p, "list")
  /\ Goto(p, IF trigger.enabled /\ trigger.due THEN "find" ELSE "done")
  /\ UNCHANGED <<row, trigger, log, exec, vm, spent>>


\* A schedule is advanced whether or not this tick created the run.
NextAfter(p, made) ==
  IF proc[p].kind = "cron" THEN "advance" ELSE IF made THEN "start" ELSE "done"

\* createRunForTrigger looks for the key first ...
FindRun(p) ==
  /\ At(p, "find")
  /\ Goto(p, IF row.status = "none" THEN "freeze" ELSE NextAfter(p, FALSE))
  /\ UNCHANGED <<row, trigger, log, exec, vm, spent>>

\* ... then freezes the definition, resolveBackgroundAgentInferenceSnapshot first.  Without
\* the profile that throws, and nothing catches it: the request, or the tick with all the
\* triggers it has not reached, ends here, its schedule not advanced.
Freeze(p) ==
  /\ At(p, "freeze")
  /\ Goto(p, IF trigger.model THEN "insert" ELSE "done")
  /\ UNCHANGED <<row, trigger, log, exec, vm, spent>>

\* The insert does nothing when the key is taken.
InsertRun(p) ==
  LET made == row.status = "none" IN
  /\ At(p, "insert")
  /\ IF made THEN Write("queued") ELSE UNCHANGED row
  /\ proc' = [proc EXCEPT ![p].pc = NextAfter(p, made), ![p].made = made]
  /\ UNCHANGED <<trigger, log, exec, vm, spent>>

\* advanceTriggerScheduleState, to the first slot after now.
Advance(p) ==
  /\ At(p, "advance")
  /\ trigger' = [trigger EXCEPT !.due = FALSE]
  /\ Goto(p, IF proc[p].made THEN "start" ELSE "done")
  /\ UNCHANGED <<row, log, exec, vm, spent>>

\* start(): a call that throws may have started the workflow.
StartRun(p) ==
  /\ At(p, "start")
  /\ \/ exec' = [exec EXCEPT ![1] = Blank("load", FALSE)] /\ Goto(p, "done")
     \/ UNCHANGED exec /\ Goto(p, "startFailed")
     \/ exec' = [exec EXCEPT ![1] = Blank("load", FALSE)] /\ Goto(p, "startFailed")
  /\ UNCHANGED <<row, trigger, log, vm, spent>>

\* recordWorkflowStartFailure ends any run that has not ended ...
FailStart(p) ==
  /\ At(p, "startFailed")
  /\ IF row.status \in Live THEN Write("failed") ELSE UNCHANGED row
  /\ Goto(p, "startEvent")
  /\ UNCHANGED <<trigger, log, exec, vm, spent>>

\* ... and records that it did, even if the run had ended.
RecordStartFailed(p) ==
  /\ At(p, "startEvent")
  /\ Record("startFailed") /\ Goto(p, "done")
  /\ UNCHANGED <<row, trigger, exec, vm, spent>>

\* A call throws, or the server ends the request: the rest of it is not done.
ProcessDies(p) ==
  /\ ~At(p, "idle") /\ ~At(p, "done")
  /\ Fault(FALSE)
  /\ Goto(p, "done")
  /\ UNCHANGED <<row, trigger, log, exec, vm>>

ProcessStep(p) ==
  \/ ReceiveEvent(p) \/ ListStale(p) \/ Sweep(p) \/ RecordSwept(p) \/ ListDue(p)
  \/ FindRun(p) \/ Freeze(p) \/ InsertRun(p) \/ Advance(p) \/ StartRun(p) \/ FailStart(p)
  \/ RecordStartFailed(p)

-----------------------------------------------------------------------------
(* executeBackgroundAgentRun                                                *)

InStep(e, pc) == exec[e].pc = pc

Continue(e, pc) == exec' = [exec EXCEPT ![e].pc = pc]

\* Going on without what the agent's loop kept.
Abandon(e, pc) == exec' = [exec EXCEPT ![e] = Blank(pc, @.held)]

\* A mistake: only a step that runs to its end disposes of the sandbox.
LeaveUndisposed(e) == exec' = [exec EXCEPT ![e] = Blank("over", FALSE)]

\* A return from the middle of the step, through its finally.
Leave(e) ==
  exec' = [exec EXCEPT ![e] = Blank(IF @.held THEN "dispose" ELSE "over", @.held)]

\* assertLiveBackgroundExecution: the run is running, and may be.  What it finds out
\* about repositories, models and policies is in enabled.
Owned == row.status = "running"
Allowed == Owned /\ trigger.enabled

\* ensureLiveAuthorization: who has lost the run leaves, who may not go on fails it.
Guarded(e, onward) ==
  IF Allowed THEN onward ELSE IF Owned THEN Abandon(e, "fail") ELSE Leave(e)

\* The run, and then what it may do.  The row is looked at again when it is claimed.
Load(e) ==
  /\ InStep(e, "load")
  /\ IF row.status \in Ended THEN Leave(e)
     ELSE exec' = [exec EXCEPT ![e].ours = row.status = "running",
                               ![e].pc = IF trigger.enabled THEN "claim" ELSE "refuse"]
  /\ UNCHANGED <<row, trigger, log, proc, vm, spent>>

\* Only a queued run is failed before the claim; one of an earlier try is left to the sweep.
Refuse(e) ==
  /\ InStep(e, "refuse")
  /\ IF row.status = "queued" THEN Write("failed") /\ Abandon(e, "failed")
                              ELSE Leave(e) /\ UNCHANGED row
  /\ UNCHANGED <<trigger, log, proc, vm, spent>>

\* A run has one workflow: one that is running is this workflow's.
Claim(e) ==
  /\ InStep(e, "claim")
  /\ \/ exec[e].ours /\ Continue(e, "check") /\ UNCHANGED row
     \/ ~exec[e].ours /\ row.status = "queued" /\ Write("running") /\ Continue(e, "check")
     \/ ~exec[e].ours /\ row.status # "queued" /\ Leave(e) /\ UNCHANGED row
  /\ UNCHANGED <<trigger, log, proc, vm, spent>>

\* The checks before the sandbox, on the checkout, the input, the policy and the model.  A
\* look that finds no access or no agent returns and leaves the run to the sweep.
Check(e) ==
  /\ InStep(e, "check")
  /\ \/ Guarded(e, Continue(e, IF trigger.builtin THEN "extract" ELSE "connect"))
     \/ Abandon(e, "fail")
     \/ Allowed /\ Leave(e)
  /\ UNCHANGED <<row, trigger, log, proc, vm, spent>>

\* The wrapper learns of the sandbox when connecting returns; what fails inside it may
\* leave one running.
Connect(e) ==
  /\ InStep(e, "connect")
  /\ \/ vm' = TRUE /\ exec' = [exec EXCEPT ![e] = Blank("ready", TRUE)] /\ UNCHANGED spent
     \/ Abandon(e, "fail") /\ UNCHANGED <<vm, spent>>
     \/ Abandon(e, "fail") /\ vm' = TRUE /\ Fault(TRUE)
  /\ UNCHANGED <<row, trigger, log, proc>>

\* The checks after it: git context, working branch, tools.
Ready(e) ==
  /\ InStep(e, "ready")
  /\ Guarded(e, Continue(e, "turn")) \/ Abandon(e, "fail")
  /\ UNCHANGED <<row, trigger, log, proc, vm, spent>>

\* executeLearningsAgentRun, which needs no sandbox and catches what it throws.
Extract(e) ==
  /\ InStep(e, "extract")
  /\ \/ Allowed /\ Continue(e, "conclude")
     \/ Abandon(e, "fail")
  /\ UNCHANGED <<row, trigger, log, proc, vm, spent>>

\* runBackgroundAgent, whose exceptions, a lost run among them, all end in recordFailure,
\* as does the hard turn cap.
Turn(e) ==
  /\ InStep(e, "turn")
  /\ \/ Allowed /\ Continue(e, "generate")
     \/ Abandon(e, "fail")
  /\ UNCHANGED <<row, trigger, log, proc, vm, spent>>

\* A mistake: the fuse blows in every turn once the tokens are spent.
FuseBlowsAgain(x) == x.tokens + 1 >= TokenTurns

\* The token fuse tells the agent to finalize, unless it has been told.
FuseBlows(x) == x.stage # "escalating" /\ x.tokens + 1 >= TokenTurns

\* A turn has been generated and its usage recorded.
Generated(x) ==
  [x EXCEPT !.tokens = Capped(x.tokens + 1, TokenTurns),
            !.granted = IF x.stage = "escalating" THEN Capped(x.granted + 1, FinalizeTurns + 1) ELSE 0,
            !.fused = FuseBlows(x),
            !.stage = IF FuseBlows(x) THEN "escalating" ELSE @,
            !.n = IF FuseBlows(x) THEN 0 ELSE @]

\* An agent that stops by itself has done its work, unless it was told to finalize.
Generate(e) ==
  LET x == Generated(exec[e]) IN
  /\ InStep(e, "generate")
  /\ \/ Abandon(e, "fail")
     \/ Allowed /\ exec' = [exec EXCEPT ![e] = [x EXCEPT !.pc = "observe"]]
     \/ Allowed /\ exec' = [exec EXCEPT ![e] =
                              [x EXCEPT !.pc = IF x.stage = "escalating" THEN "fail" ELSE "verify"]]
  /\ UNCHANGED <<row, trigger, log, proc, vm, spent>>

\* A mistake: a budget is passed, not reached.
SpentLate(x, budget) == x.n + 1 > budget

Spent(x, budget) == x.n + 1 >= budget

\* createStallEscalation: what observe() makes of a turn that stalled or did not.
Escalation(x, stalled) ==
  CASE x.stage = "running" /\ stalled -> [x EXCEPT !.stage = "nudged", !.n = 0]
    [] x.stage = "running" /\ ~stalled -> x
    [] x.stage = "nudged" /\ ~stalled -> [x EXCEPT !.stage = "running", !.n = 0]
    [] x.stage = "nudged" /\ stalled ->
         IF Spent(x, GraceTurns) THEN [x EXCEPT !.stage = "escalating", !.n = 0]
                                 ELSE [x EXCEPT !.n = @ + 1]
    [] x.stage = "escalating" ->
         IF Spent(x, FinalizeTurns) THEN [x EXCEPT !.pc = "fail", !.cut = TRUE]
                                    ELSE [x EXCEPT !.n = @ + 1]

\* A mistake: the turn that blew the fuse counts as one of the turns to finalize.
ObserveFusedTurn(x, stalled) == Escalation([x EXCEPT !.pc = "turn", !.fused = FALSE], stalled)

\* The turn that blew the fuse is not observed.
Observed(x, stalled) ==
  IF x.fused THEN [x EXCEPT !.pc = "turn", !.fused = FALSE]
             ELSE Escalation([x EXCEPT !.pc = "turn"], stalled)

\* Heartbeat, then the git budget and the repetition detector, either of which may say
\* that the run is stalled.
Observe(e) ==
  /\ InStep(e, "observe")
  /\ row' = [row EXCEPT !.heard = @ \/ row.status \in Live]
  /\ \E stalled \in BOOLEAN : exec' = [exec EXCEPT ![e] = Observed(@, stalled)]
  /\ UNCHANGED <<trigger, log, proc, vm, spent>>

\* The sandbox, the branch and the pull request are checked once more.
Verify(e) ==
  /\ InStep(e, "verify")
  /\ \/ Allowed /\ Continue(e, "conclude")
     \/ Abandon(e, "fail")
  /\ UNCHANGED <<row, trigger, log, proc, vm, spent>>

\* The last look before success.
Conclude(e) ==
  /\ InStep(e, "conclude")
  /\ IF Allowed THEN Continue(e, "succeed") ELSE Abandon(e, "fail")
  /\ UNCHANGED <<row, trigger, log, proc, vm, spent>>

Succeed(e) ==
  /\ InStep(e, "succeed")
  /\ IF Owned THEN Write("succeeded") /\ Abandon(e, "completed") ELSE Leave(e) /\ UNCHANGED row
  /\ UNCHANGED <<trigger, log, proc, vm, spent>>

RecordCompleted(e) ==
  /\ InStep(e, "completed")
  /\ Record("completed") /\ Leave(e)
  /\ UNCHANGED <<row, trigger, proc, vm, spent>>

\* recordFailure, after the claim.
Fail(e) ==
  /\ InStep(e, "fail")
  /\ IF Owned THEN Write("failed") /\ Abandon(e, "failed") ELSE Leave(e) /\ UNCHANGED row
  /\ UNCHANGED <<trigger, log, proc, vm, spent>>

RecordFailed(e) ==
  /\ InStep(e, "failed")
  /\ Record("failed") /\ Leave(e)
  /\ UNCHANGED <<row, trigger, proc, vm, spent>>

\* After a step that threw, the platform tries again or gives up.
AfterStep(e, threw) ==
  \/ exec' = [exec EXCEPT ![e] = Blank("over", FALSE)]
  \/ threw /\ exec' = [exec EXCEPT ![e] = Blank("load", FALSE)]

\* disposeRunSandbox: when stopping fails the sandbox is left to its timeout.
Dispose(e) ==
  /\ exec[e].pc \in {"dispose", "unwind"}
  /\ \/ vm' = FALSE /\ UNCHANGED spent
     \/ UNCHANGED vm /\ Fault(TRUE)
  /\ AfterStep(e, InStep(e, "unwind"))
  /\ UNCHANGED <<row, trigger, log, proc>>

\* A call throws where nothing catches it: the step throws, through its finally.
Throws(e) ==
  /\ exec[e].pc \notin TurnPC \cup {"idle", "connect", "extract", "dispose", "unwind", "over"}
  /\ Fault(FALSE)
  /\ IF exec[e].held THEN exec' = [exec EXCEPT ![e] = Blank("unwind", TRUE)]
                     ELSE AfterStep(e, TRUE)
  /\ UNCHANGED <<row, trigger, log, proc, vm>>

\* The platform loses the step, with its memory, and tries again or gives up.
Dies(e) ==
  /\ ~InStep(e, "idle") /\ ~InStep(e, "over")
  /\ Fault(exec[e].held)
  /\ AfterStep(e, TRUE)
  /\ UNCHANGED <<row, trigger, log, proc, vm>>

\* The platform delivers a started step once more.
Duplicate(e) ==
  /\ InStep(e, "idle") /\ ~InStep(1, "idle")
  /\ Fault(FALSE)
  /\ exec' = [exec EXCEPT ![e] = Blank("load", FALSE)]
  /\ UNCHANGED <<row, trigger, log, proc, vm>>

ExecStep(e) ==
  \/ Load(e) \/ Refuse(e) \/ Claim(e) \/ Check(e) \/ Connect(e) \/ Ready(e) \/ Extract(e)
  \/ Turn(e) \/ Generate(e) \/ Observe(e) \/ Verify(e) \/ Conclude(e) \/ Succeed(e)
  \/ RecordCompleted(e) \/ Fail(e) \/ RecordFailed(e) \/ Dispose(e)

ExecFault(e) == Throws(e) \/ Dies(e) \/ Duplicate(e)

-----------------------------------------------------------------------------
\* The stale threshold passes without a write to the run.  Turns are far shorter.
Silence ==
  /\ row.status \in Live /\ row.heard
  /\ \A e \in Delivery : exec[e].pc \notin TurnPC
  /\ row' = [row EXCEPT !.heard = FALSE]
  /\ UNCHANGED <<trigger, log, proc, exec, vm, spent>>

\* The owner or the policy turns the agent off, or on again.
Toggle ==
  /\ trigger' = [trigger EXCEPT !.enabled = ~@]
  /\ UNCHANGED <<row, log, proc, exec, vm, spent>>

\* A profile is deleted, or the owner chooses another model.  Who has frozen the model
\* does not look again, so the changes that are followed are those while nobody has.
ChangeModel ==
  /\ row.status = "none" /\ \A p \in Process : ~At(p, "insert")
  /\ trigger' = [trigger EXCEPT !.model = ~@]
  /\ UNCHANGED <<row, log, proc, exec, vm, spent>>

Next ==
  \/ \E p \in Process : ProcessStep(p) \/ ProcessDies(p)
  \/ \E e \in Delivery : ExecStep(e) \/ ExecFault(e)
  \/ Silence \/ Toggle \/ ChangeModel

Spec == Init /\ [][Next]_vars

Fairness ==
  /\ \A p \in Process : WF_vars(ProcessStep(p))
  /\ \A e \in Delivery : WF_vars(ExecStep(e))
  /\ WF_vars(Silence)

FairSpec == Spec /\ Fairness

-----------------------------------------------------------------------------
(* Properties                                                               *)

\* Sweep, failing start, two deliveries and retries race to end a run: at most one of
\* them records that it did, and it records what the row says (#1396).  Only the
\* dispatcher's "start failed" is recorded blindly.
OneEnding ==
  /\ \A i, j \in DOMAIN log : log[i] # "startFailed" /\ log[j] # "startFailed" => i = j
  /\ \A i \in DOMAIN log :
       /\ log[i] = "completed" => row.status = "succeeded"
       /\ log[i] \in {"failed", "swept"} => row.status = "failed"

\* Whatever return or exception ends the step, its sandbox does not outlive it (#1210),
\* unless the process dies or the provider fails.
SandboxReleased == vm => spent.leaked \/ \E e \in Delivery : exec[e].held

\* An agent told to finalize is cut off after the finalize turns and not before, whether
\* a stall or the token fuse told it (#916, #917), and its run cannot succeed.
FinalizeTurnsGranted ==
  \A e \in Delivery :
    /\ exec[e].granted <= FinalizeTurns
    /\ exec[e].cut => exec[e].granted = FinalizeTurns
    /\ exec[e].pc \in {"verify", "conclude", "succeed"} => exec[e].stage # "escalating"

\* Every run ends: an agent that works for ever meets the token fuse, and a run that
\* nobody executes any more, or ever did, is swept.
RunEnds == row.status \in Live ~> row.status \in Ended

=============================================================================
