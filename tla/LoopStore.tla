------------------------------ MODULE LoopStore ------------------------------
(***************************************************************************)
(* The durable rows of one agent loop run and the conditional updates of   *)
(* lib/agent-loops/store.ts.  Every operator below is one SQL statement or *)
(* one transaction: the processes of LoopChain, LoopWatchdog and LoopRun   *)
(* interleave between them, never inside one.                              *)
(***************************************************************************)
EXTENDS LoopGraph, FiniteSetsExt

CONSTANTS
  MaxRows,        \* bound: step rows a behaviour may insert
  MaxDeliveries   \* bound: workflow deliveries a behaviour may start

ASSUME StoreBounds == MaxRows \in Nat \ {0} /\ MaxDeliveries \in Nat \ {0}

VARIABLES
  source,          \* the loop the run came from, and whether policy allows it
  status,          \* agent_loop_runs.status
  startedAt,       \* agent_loop_runs.started_at IS NOT NULL
  cur,             \* agent_loop_runs.current_step_run_id, as a row number
  stepCount,       \* agent_loop_runs.step_count
  iterationCount,  \* agent_loop_runs.iteration_count
  rows,            \* number of rows of agent_loop_step_runs
  stepRun,         \* those rows
  hist             \* history of each row, read by properties only

runVars   == <<status, startedAt>>
countVars == <<cur, stepCount, iterationCount>>
rowVars   == <<rows, stepRun, hist>>
storeVars == <<source, runVars, countVars, rowVars>>

(***************************************************************************)
(* "active": the loop row is active and policy (feature flag, repository   *)
(* allowlist) admits it; "inactive": its owner moved it out of active;     *)
(* "revoked": policy no longer admits it; "deleted": the row is gone and   *)
(* the run's loop_id is NULL.                                              *)
(***************************************************************************)
SourceState == {"active", "inactive", "revoked", "deleted"}

RunStatus == {"queued", "running", "paused", "completed",
              "failed", "cancelled", "stalled"}

StepStatus == {"queued", "running", "succeeded", "failed", "skipped"}

StepTerminal == {"succeeded", "failed", "skipped"}

StepId == 1..MaxRows
Delivery == 1..MaxDeliveries

StepRow == [node    : Node,
            attempt : Nat,
            status  : StepStatus,
            wf      : 0..MaxDeliveries,   \* workflow_run_id, 0 when NULL
            gen     : 0..MaxDeliveries]   \* execution_claim_generation, 0 when NULL

(***************************************************************************)
(* via: which operation inserted the row; from: the step the pointer left  *)
(* for it; under: the run's status at that moment; execs: how many         *)
(* deliveries have begun the external side effects of this attempt.        *)
(***************************************************************************)
HistRow == [via   : {"trigger", "advance", "retry", "watchdog"},
            from  : 0..MaxRows,
            under : RunStatus,
            execs : Nat]

FreshRow(node, attempt) ==
  [node |-> node, attempt |-> attempt, status |-> "queued", wf |-> 0, gen |-> 0]

FreshHist(via, from, under) ==
  [via |-> via, from |-> from, under |-> under, execs |-> 0]

StoreTypeOK ==
  /\ source \in SourceState
  /\ status \in RunStatus
  /\ startedAt \in BOOLEAN
  /\ cur \in StepId
  /\ stepCount \in Nat
  /\ iterationCount \in Nat
  /\ rows \in StepId
  /\ stepRun \in [StepId -> StepRow]
  /\ hist \in [StepId -> HistRow]

\* The rows after dispatchLoopRun created the run, its start step and the
\* pointer.  Row numbers above rows are not in the table yet.
StoreInit ==
  /\ source = "active"
  /\ status = "queued"
  /\ startedAt = FALSE
  /\ cur = 1
  /\ stepCount = 0
  /\ iterationCount = 0
  /\ rows = 1
  /\ stepRun = [s \in StepId |-> FreshRow(StartNode, 1)]
  /\ hist = [s \in StepId |-> FreshHist("trigger", 0, "queued")]

-----------------------------------------------------------------------------
(* Reads                                                                   *)

\* loop_id IS NOT NULL, the guard of every update of the run and its steps.
Linked == source # "deleted"

\* The joined loop row has status active.
LoopActive == source \in {"active", "revoked"}

\* isAgentLoopRunSourceLive with a policy: loop active and allowed.
SourceLive == source = "active"

NodeOf(s) == stepRun[s].node

StepsOf(node) == {s \in 1..rows : stepRun[s].node = node}

\* A mistake: only finished attempts are counted.
MaxFinishedAttempt(node) ==
  Max({0} \cup {stepRun[s].attempt : s \in {r \in StepsOf(node) : stepRun[r].status \in StepTerminal}})

\* getMaxAttemptForNode, 0 when the node has no row.
MaxAttempt(node) == Max({0} \cup {stepRun[s].attempt : s \in StepsOf(node)})

-----------------------------------------------------------------------------
(* Updates                                                                 *)

\* conditionallyTransitionRunStatus matches a row.
CanTransition(from) == Linked /\ status \in from

SetStatus(to) ==
  /\ status' = to
  /\ startedAt' = IF to = "running" THEN TRUE ELSE startedAt

\* conditionallyTransitionRunStatus when the caller ignores its result.
Transition(to, from) ==
  IF CanTransition(from) THEN SetStatus(to) ELSE UNCHANGED runVars

\* updateAgentLoopStepRun on step s, with the expected statuses it names.
CanUpdateStep(s, expected) == Linked /\ stepRun[s].status \in expected

SetStep(s, to) == stepRun' = [stepRun EXCEPT ![s].status = to]

\* Insert the next row and move the pointer to it from step s, in one
\* transaction.
InsertStep(s, node, attempt, via) ==
  /\ rows < MaxRows
  /\ rows' = rows + 1
  /\ stepRun' = [stepRun EXCEPT ![rows + 1] = FreshRow(node, attempt)]
  /\ hist' = [hist EXCEPT ![rows + 1] = FreshHist(via, s, status)]
  /\ cur' = rows + 1

\* The unique index on (loop run, node, attempt) refuses the row.
AttemptTaken(node, attempt) ==
  \E s \in StepsOf(node) : stepRun[s].attempt = attempt
=============================================================================
