--------------------------- MODULE LoopStepProofs ---------------------------
(***************************************************************************)
(* Proofs about how LoopRun executes steps and moves its pointer, on top   *)
(* of the invariant of LoopRunProofs.                                      *)
(***************************************************************************)
EXTENDS LoopRunProofs

-----------------------------------------------------------------------------
(* What a step of the run may do to the table                              *)

Present(d) == dl[d].pc \notin {"idle", "done"}

\* A delivery that has got past its load may change the status of its step: to
\* skipped, from a live status, or in an executor that names no expected status.
Permits(d, to) ==
  /\ Present(d) /\ dl[d].pc \notin {"load", "deny"}
  /\ \/ to = "skipped"
     \/ stepRun[dl[d].step].status \in {"queued", "running"}
     \/ dl[d].pc = "endStep" \/ KindOf(d) # "agent_step"

\* No row is inserted and no execution claimed; a status is changed by a
\* delivery, or by the deletion of the source of a live run.
RowsKept ==
  /\ UNCHANGED <<cur, stepCount, iterationCount, rows, hist>>
  /\ \A s \in StepId :
       /\ stepRun'[s].node = stepRun[s].node
       /\ stepRun'[s].gen = stepRun[s].gen
       /\ stepRun'[s].status = "queued" => stepRun[s].status = "queued"
       /\ stepRun'[s].status # stepRun[s].status =>
            \/ status \notin Final /\ stepRun'[s].status = "skipped"
            \/ \E d \in Delivery : dl[d].step = s /\ Permits(d, stepRun'[s].status)
  /\ source = "deleted" => source' = "deleted"

\* Delivery d wins the advance from the step the pointer names.
AdvanceWins(d) ==
  /\ dl[d].pc = "advance" /\ dl[d].step = cur /\ Linked
  /\ InsertStep(cur, NextNode(d), dl[d].attempt, "advance")
  /\ stepCount' = dl[d].steps + 1
  /\ iterationCount' = dl[d].iters + (IF dl[d].revisit THEN 1 ELSE 0)
  /\ UNCHANGED <<source, runVars>>

\* The watchdog, or an operator, has the step the pointer names tried again.
TriesAgain(via) ==
  /\ Linked
  /\ InsertStep(cur, NodeOf(cur), MaxAttempt(NodeOf(cur)) + 1, via)
  /\ status \in {"failed", "stalled", "running"}
  /\ status' = "running"
  /\ UNCHANGED <<source, stepCount, iterationCount>>

WatchdogRetries(p) == ApplyRetry(p) /\ TriesAgain("watchdog") /\ cur = wd[p].step

OperatorRetries ==
  Retry /\ TriesAgain("retry") /\ stepRun[cur].status # "queued" /\ UNCHANGED <<chainVars, watchdogVars>>

TableStep ==
  \/ RowsKept
  \/ \E d \in Delivery : ClaimGeneration(d) \/ Correlate(d)
  \/ \E d \in Delivery : AdvanceWins(d)
  \/ \E p \in Caller : WatchdogRetries(p)
  \/ OperatorRetries

LEMMA TableUntouched ==
  ASSUME UNCHANGED <<countVars, rowVars>>, source = "deleted" => source' = "deleted"
  PROVE  RowsKept
BY DEF countVars, rowVars, RowsKept

LEMMA StoreUntouched ==
  ASSUME UNCHANGED storeVars
  PROVE  RowsKept
BY TableUntouched DEF storeVars

\* A delivery changes the status of its own step, which was not a fresh start.
LEMMA StatusSet ==
  ASSUME StoreOK, NEW d \in Delivery, dl[d].step \in StepId, NEW to \in StepTerminal,
         (SetStep(dl[d].step, to) /\ Permits(d, to)) \/ UNCHANGED stepRun,
         UNCHANGED <<source, countVars, rows, hist>>
  PROVE  RowsKept
<1>1. stepRun \in [StepId -> StepRow]
  BY DEF StoreOK, StoreTypeOK
<1>2. \A s \in StepId : stepRun[s] \in StepRow
  BY <1>1
<1>3. CASE UNCHANGED stepRun
  BY <1>3 DEF RowsKept, countVars
<1>4. CASE SetStep(dl[d].step, to) /\ Permits(d, to)
  <2>1. \A s \in StepId : stepRun'[s] = IF s = dl[d].step THEN [stepRun[s] EXCEPT !.status = to]
                                        ELSE stepRun[s]
    BY <1>1, <1>4 DEF SetStep
  <2>2. \A s \in StepId : /\ stepRun'[s].node = stepRun[s].node
                          /\ stepRun'[s].gen = stepRun[s].gen
                          /\ stepRun'[s].status = "queued" => stepRun[s].status = "queued"
                          /\ stepRun'[s].status # stepRun[s].status =>
                               s = dl[d].step /\ stepRun'[s].status = to
    BY <1>2, <2>1 DEF StepRow, StepTerminal
  <2> QED BY <1>4, <2>2 DEF RowsKept, countVars
<1> QED BY <1>3, <1>4

LEMMA StepTable ==
  ASSUME Inv, NEW d \in Delivery, Step(d)
  PROVE  TableStep
<1>1. StoreOK /\ DeliveriesOK
  BY DEF Inv
<1>2. CASE Load(d) \/ Enter(d) \/ LocalDuplicate(d) \/ Reload(d) \/ Plan(d) \/ Dispatch(d)
  BY <1>2, StoreUntouched DEF Load, Enter, LocalDuplicate, Reload, Plan, Dispatch, TableStep
<1>3. CASE Deny(d) \/ Begin(d) \/ Trip(d) \/ CompleteRun(d) \/ FailRun(d)
  BY <1>3, TableUntouched DEF Deny, Begin, Trip, CompleteRun, FailRun, TableStep
<1>4. CASE SkipStep(d) \/ EndStep(d) \/ ThrowStep(d) \/ Succeed(d) \/ Fail(d) \/ FinishAgent(d)
  <2>1. Present(d) /\ dl[d].pc \notin {"load", "deny"}
    BY <1>4 DEF SkipStep, EndStep, ThrowStep, Succeed, Fail, FinishAgent, Present
  <2>2. dl[d].step \in StepId
    BY <1>1, <2>1, Located DEF Present
  <2>3. \E to \in StepTerminal : (SetStep(dl[d].step, to) /\ Permits(d, to)) \/ UNCHANGED stepRun
    <3>1. CASE SkipStep(d) \/ EndStep(d) \/ ThrowStep(d)
      BY <2>1, <3>1 DEF SkipStep, EndStep, ThrowStep, CanUpdateStep, Permits, StepTerminal
    <3>2. CASE Succeed(d) \/ Fail(d)
      BY <2>1, <3>2 DEF Succeed, Fail, Report, Permits, StepTerminal
    <3>3. CASE FinishAgent(d)
      BY <2>1, <3>3 DEF FinishAgent, Report, OwnsExecution, CanUpdateStep, Permits, StepTerminal
    <3> QED BY <1>4, <3>1, <3>2, <3>3
  <2>4. UNCHANGED <<source, countVars, rows, hist>>
    BY <1>4 DEF SkipStep, EndStep, ThrowStep, Succeed, Fail, FinishAgent, Report
  <2> QED BY <1>1, <2>1, <2>2, <2>3, <2>4, StatusSet DEF TableStep
<1>5. CASE Claim(d)
  <2>1. Present(d) /\ dl[d].pc \notin {"load", "deny"}
    BY <1>5 DEF Claim, Present
  <2>2. dl[d].step \in StepId
    BY <1>1, <2>1, Located DEF Present
  <2>3. stepRun \in [StepId -> StepRow]
    BY <1>1 DEF StoreOK, StoreTypeOK
  <2>4. \A s \in StepId : stepRun[s] \in StepRow
    BY <2>3
  <2>5. \A s \in StepId : /\ stepRun'[s].node = stepRun[s].node
                          /\ stepRun'[s].gen = stepRun[s].gen
                          /\ stepRun'[s].status = "queued" => stepRun[s].status = "queued"
                          /\ stepRun'[s].status # stepRun[s].status =>
                               s = dl[d].step /\ stepRun[s].status = "queued"
    <3>1. CASE stepRun' = stepRun
      BY <3>1
    <3>2. CASE stepRun' = [stepRun EXCEPT ![dl[d].step].status = "running",
                                          ![dl[d].step].wf = dl[d].wf]
      <4>1. \A s \in StepId : s # dl[d].step => stepRun'[s] = stepRun[s]
        BY <2>3, <3>2
      <4>2. stepRun'[dl[d].step] = [stepRun[dl[d].step] EXCEPT !.status = "running", !.wf = dl[d].wf]
        BY <2>2, <2>3, <3>2
      <4>3. stepRun[dl[d].step] \in StepRow
        BY <2>2, <2>4
      <4>4. /\ stepRun'[dl[d].step].node = stepRun[dl[d].step].node
            /\ stepRun'[dl[d].step].gen = stepRun[dl[d].step].gen
            /\ stepRun'[dl[d].step].status = "running"
        BY <4>2, <4>3 DEF StepRow
      <4>5. CASE stepRun[dl[d].step].status = "queued"
        BY <4>1, <4>4, <4>5
      <4>6. CASE stepRun[dl[d].step].status # "queued"
        <5>1. stepRun' = stepRun
          BY <1>5, <4>6 DEF Claim, CanUpdateStep
        <5> QED BY <5>1
      <4> QED BY <4>5, <4>6
    <3> QED BY <1>5, <3>1, <3>2 DEF Claim
  <2>6. UNCHANGED <<source, countVars, rows, hist>>
    BY <1>5 DEF Claim
  <2> QED BY <2>1, <2>5, <2>6 DEF RowsKept, Permits, TableStep, countVars
<1>6. CASE ClaimGeneration(d) \/ Correlate(d)
  BY <1>6 DEF TableStep
<1>7. CASE Advance(d)
  <2>1. CASE UNCHANGED <<countVars, rowVars>>
    BY <1>7, <2>1, TableUntouched DEF Advance, AdvanceWhen, TableStep
  <2>2. CASE ~UNCHANGED <<countVars, rowVars>>
    BY <1>7, <2>2 DEF Advance, AdvanceWhen, AdvanceWins, TableStep
  <2> QED BY <2>1, <2>2
<1> QED BY <1>2, <1>3, <1>4, <1>5, <1>6, <1>7 DEF Step

LEMMA NextTable == Inv /\ [Next]_vars => TableStep
<1> SUFFICES ASSUME Inv, [Next]_vars PROVE TableStep
  OBVIOUS
<1>1. CASE UNCHANGED vars
  BY <1>1, StoreUntouched DEF vars, TableStep
<1>2. ASSUME NEW d \in Delivery, Deliver(d) \/ Crash(d) \/ Disturb(d) PROVE TableStep
  <2>1. CASE Step(d)
    BY <2>1, StepTable
  <2>2. CASE Restart(d) \/ Lose(d) \/ DispatchFails(d) \/ Redeliver(d) \/ Throw(d)
    BY <2>2, StoreUntouched DEF Restart, Lose, DispatchFails, Redeliver, Throw, TableStep
  <2> QED BY <1>2, <2>1, <2>2 DEF Deliver, Crash, Disturb
<1>3. ASSUME NEW p \in Caller, Watch(p) \/ WatchFault(p) PROVE TableStep
  <2>1. CASE Open(p) \/ Decide(p) \/ RetryDispatch(p) \/ Record(p)
             \/ RetryDispatchFails(p) \/ WatchdogThrows(p)
    BY <2>1, StoreUntouched DEF Open, Decide, RetryDispatch, Record, RetryDispatchFails,
                                WatchdogThrows, TableStep
  <2>2. CASE RetryRefused(p) \/ ApplyPause(p)
    BY <2>2, TableUntouched DEF RetryRefused, ApplyPause, PauseSystem, TableStep
  <2>3. CASE ApplyRetry(p)
    <3>1. TriesAgain("watchdog") /\ cur = wd[p].step
      BY <2>3 DEF ApplyRetry, CanRetry, TriesAgain, SetStatus
    <3> QED BY <2>3, <3>1 DEF WatchdogRetries, TableStep
  <2> QED BY <1>3, <2>1, <2>2, <2>3 DEF Watch, WatchFault, Watchdog
<1>4. CASE Sweep \/ SweepStep \/ SweepFault
  BY <1>4, StoreUntouched, TableUntouched
     DEF Sweep, SweepStep, SweepFault, Stall, SweepRead, SweepRevoke, SweepCrash, TableStep
<1>5. CASE Pause \/ Cancel \/ Resume
  BY <1>5, TableUntouched DEF Pause, Cancel, Resume, TableStep
<1>6. CASE Retry
  <2>1. CASE stepRun[cur].status = "queued" /\ UNCHANGED <<cur, rowVars>>
    BY <1>6, <2>1, TableUntouched DEF Retry, TableStep, countVars
  <2>2. CASE stepRun[cur].status # "queued"
    BY <1>6, <2>2 DEF Retry, OperatorRetries, TriesAgain, CanTransition, SetStatus, TableStep
  <2> QED BY <1>6, <2>1, <2>2 DEF Retry
<1>7. CASE Request \/ RequestFault
  <2>1. PICK c \in calls : StartCall(c) \/ FailCall(c) \/ StartCallFails(c) \/ CallCrash(c)
    BY <1>7 DEF Request, RequestFault
  <2> QED BY <2>1, StoreUntouched, TableUntouched
          DEF StartCall, FailCall, StartCallFails, CallCrash, TableStep
<1>8. CASE ChangeSource
  BY <1>8, TableUntouched DEF ChangeSource, Linked, TableStep
<1>9. CASE DeleteSource
  <2>1. stepRun \in [StepId -> StepRow]
    BY DEF Inv, StoreOK, StoreTypeOK
  <2>2. \A s \in StepId : stepRun[s] \in StepRow
    BY <2>1
  <2>3. UNCHANGED <<countVars, rows, hist>> /\ source' = "deleted"
    BY <1>9 DEF DeleteSource
  <2>4. CASE stepRun' = stepRun
    BY <2>3, <2>4 DEF RowsKept, TableStep, countVars
  <2>5. CASE /\ status \in {"queued", "running", "paused", "stalled"}
             /\ stepRun' = [s \in StepId |->
                   IF s <= rows /\ stepRun[s].status \in {"queued", "running"}
                   THEN [stepRun[s] EXCEPT !.status = "skipped"] ELSE stepRun[s]]
    <3>1. status \notin Final
      BY <2>5 DEF Final
    <3>2. \A s \in StepId : \/ stepRun'[s] = stepRun[s]
                            \/ stepRun'[s] = [stepRun[s] EXCEPT !.status = "skipped"]
      BY <2>5
    <3>3. \A s \in StepId : /\ stepRun'[s].node = stepRun[s].node
                            /\ stepRun'[s].gen = stepRun[s].gen
                            /\ stepRun'[s].status = "queued" => stepRun[s].status = "queued"
                            /\ stepRun'[s].status # stepRun[s].status => stepRun'[s].status = "skipped"
      BY <2>2, <3>2 DEF StepRow
    <3> QED BY <2>3, <3>1, <3>3 DEF RowsKept, TableStep, countVars
  <2> QED BY <1>9, <2>4, <2>5 DEF DeleteSource
<1> QED BY <1>1, <1>2, <1>3, <1>4, <1>5, <1>6, <1>7, <1>8, <1>9 DEF Next

\* Claiming the execution of a step touches that step's claim, and counts.
ClaimsOnly(t) ==
  /\ UNCHANGED <<source, status, cur, stepCount, iterationCount, rows>>
  /\ \A s \in StepId :
       /\ stepRun'[s].node = stepRun[s].node
       /\ stepRun'[s].status = stepRun[s].status
       /\ stepRun[s].gen # 0 => stepRun'[s].gen = stepRun[s].gen
       /\ hist'[s].via = hist[s].via /\ hist'[s].under = hist[s].under
       /\ s # t => stepRun'[s] = stepRun[s] /\ hist'[s] = hist[s]

LEMMA ClaimEffect ==
  ASSUME StoreOK, DeliveriesOK, NEW d \in Delivery, ClaimGeneration(d) \/ Correlate(d)
  PROVE  ClaimsOnly(dl[d].step)
<1> DEFINE t == dl[d].step
<1>1. UNCHANGED <<source, status, cur, stepCount, iterationCount, rows>> /\ dl[d].pc \notin {"idle", "done"}
  BY DEF ClaimGeneration, Correlate, runVars, countVars
<1>2. t \in 1..rows /\ t \in StepId /\ dl[d] \in DeliveryRec
  BY <1>1, Located
<1>3. stepRun \in [StepId -> StepRow] /\ hist \in [StepId -> HistRow]
  BY DEF StoreOK, StoreTypeOK
<1>4. stepRun[t] \in StepRow /\ hist[t] \in HistRow
  BY <1>2, <1>3
<1>5. /\ \A s \in StepId : s # t => stepRun'[s] = stepRun[s]
      /\ stepRun'[t].node = stepRun[t].node
      /\ stepRun'[t].status = stepRun[t].status
      /\ stepRun[t].gen # 0 => stepRun'[t].gen = stepRun[t].gen
  <2>1. CASE stepRun' = stepRun
    BY <2>1
  <2>2. CASE stepRun[t].gen = 0 /\ stepRun' = [stepRun EXCEPT ![t].gen = d]
    <3>1. stepRun'[t] = [stepRun[t] EXCEPT !.gen = d]
      BY <1>2, <1>3, <2>2
    <3> QED BY <1>2, <1>3, <1>4, <2>2, <3>1 DEF StepRow
  <2>3. CASE stepRun' = [stepRun EXCEPT ![t].wf = dl[d].wf]
    <3>1. stepRun'[t] = [stepRun[t] EXCEPT !.wf = dl[d].wf]
      BY <1>2, <1>3, <2>3
    <3> QED BY <1>2, <1>3, <1>4, <2>3, <3>1 DEF StepRow
  <2> QED BY <2>1, <2>2, <2>3 DEF ClaimGeneration, Correlate
<1>6. /\ \A s \in StepId : s # t => hist'[s] = hist[s]
      /\ hist'[t].via = hist[t].via /\ hist'[t].under = hist[t].under
  <2>1. CASE hist' = hist
    BY <2>1
  <2>2. CASE BeginWork(d)
    <3>1. hist'[t] = [hist[t] EXCEPT !.execs = @ + 1]
      BY <1>2, <1>3, <2>2 DEF BeginWork
    <3> QED BY <1>2, <1>3, <1>4, <2>2, <3>1 DEF BeginWork, HistRow
  <2> QED BY <2>1, <2>2 DEF ClaimGeneration, Correlate
<1> QED BY <1>1, <1>5, <1>6 DEF ClaimsOnly

\* The inserted row is fresh, the others stay.
LEMMA InsertEffect ==
  ASSUME StoreOK, NEW node, NEW attempt, NEW via, InsertStep(cur, node, attempt, via)
  PROVE  /\ rows \in Nat /\ rows' = rows + 1 /\ cur' = rows + 1 /\ rows + 1 \in StepId /\ cur = rows
         /\ \A s \in 1..rows : stepRun'[s] = stepRun[s] /\ hist'[s] = hist[s]
         /\ stepRun'[rows + 1].node = node /\ stepRun'[rows + 1].status = "queued"
         /\ stepRun'[rows + 1].gen = 0
         /\ hist'[rows + 1].via = via /\ hist'[rows + 1].under = status /\ hist'[rows + 1].execs = 0
         /\ \A s \in 1..rows' : s \in 1..rows \/ s = rows + 1
<1>1. /\ rows \in Nat /\ rows' = rows + 1 /\ cur' = rows + 1 /\ rows + 1 \in StepId
      /\ \A s \in 1..rows : s \in StepId /\ s # rows + 1
      /\ \A s \in 1..rows' : s \in 1..rows \/ s = rows + 1
  BY StoreBounds DEF InsertStep, StoreOK, StoreTypeOK, StepId
<1>2. stepRun \in [StepId -> StepRow] /\ hist \in [StepId -> HistRow] /\ cur = rows
  BY DEF StoreOK, StoreTypeOK
<1>3. \A s \in 1..rows : stepRun'[s] = stepRun[s] /\ hist'[s] = hist[s]
  BY <1>1, <1>2 DEF InsertStep
<1>4. stepRun'[rows + 1] = FreshRow(node, attempt) /\ hist'[rows + 1] = FreshHist(via, cur, status)
  BY <1>1, <1>2 DEF InsertStep
<1> QED BY <1>1, <1>2, <1>3, <1>4 DEF FreshRow, FreshHist

\* What every step does to the rows that are in the table.
Extends ==
  /\ source = "deleted" => source' = "deleted"
  /\ \A s \in 1..rows :
       /\ stepRun'[s].node = stepRun[s].node
       /\ stepRun[s].gen # 0 => stepRun'[s].gen = stepRun[s].gen
       /\ stepRun'[s].status = "queued" => stepRun[s].status = "queued"
       /\ hist'[s].via = hist[s].via /\ hist'[s].under = hist[s].under
  /\ \/ UNCHANGED <<cur, stepCount, iterationCount, rows>>
     \/ rows' = rows + 1 /\ cur' = rows + 1

LEMMA TableExtends ==
  ASSUME Inv, TableStep
  PROVE  Extends
<1>1. StoreOK /\ DeliveriesOK /\ rows \in Nat /\ \A s \in 1..rows : s \in StepId
  BY StoreBounds DEF Inv, StoreOK, StoreTypeOK, StepId
<1>2. CASE RowsKept
  BY <1>1, <1>2 DEF RowsKept, Extends
<1>3. ASSUME NEW d \in Delivery, ClaimGeneration(d) \/ Correlate(d) PROVE Extends
  <2>1. ClaimsOnly(dl[d].step)
    BY <1>1, <1>3, ClaimEffect
  <2>2. \A s \in 1..rows : /\ stepRun'[s].node = stepRun[s].node
                           /\ stepRun'[s].status = stepRun[s].status
                           /\ stepRun[s].gen # 0 => stepRun'[s].gen = stepRun[s].gen
                           /\ hist'[s].via = hist[s].via /\ hist'[s].under = hist[s].under
    BY <1>1, <2>1 DEF ClaimsOnly
  <2>3. UNCHANGED <<source, cur, stepCount, iterationCount, rows>>
    BY <2>1 DEF ClaimsOnly
  <2> QED BY <2>2, <2>3 DEF Extends
<1>4. ASSUME NEW node, NEW attempt, NEW via, InsertStep(cur, node, attempt, via), source' = source
      PROVE  Extends
  BY <1>1, <1>4, InsertEffect DEF Extends
<1>5. ASSUME NEW d \in Delivery, AdvanceWins(d) PROVE Extends
  BY <1>4, <1>5 DEF AdvanceWins
<1>6. ASSUME NEW via, TriesAgain(via) PROVE Extends
  BY <1>4, <1>6 DEF TriesAgain
<1> QED BY <1>2, <1>3, <1>5, <1>6 DEF TableStep, WatchdogRetries, OperatorRetries

-----------------------------------------------------------------------------
(* What a delivery knows of its step                                       *)

Loaded == {"begin", "guard", "claim", "generation", "correlate", "work", "reload", "plan", "advance"}

Begun == {"generation", "correlate", "work", "endStep", "reload", "plan", "advance", "watchdog"}

Reported == {"reload", "plan", "advance", "watchdog"}

NodeFor(d) == NodeOf(dl[d].step)

\* The counters a delivery loaded are still those of the run while the pointer
\* names its step, and so is what it knows of the next node's visits.
CountsFit(d) ==
  /\ dl[d].pc \in Loaded /\ dl[d].step = cur =>
       dl[d].steps = stepCount /\ dl[d].iters = iterationCount
  /\ dl[d].pc = "advance" /\ dl[d].step = cur =>
       dl[d].revisit = (StepsOf(NextNode(d)) # {})

\* A delivery past its claim holds a step that has begun; if it is an agent
\* step the claim is the delivery's own.
ClaimFits(d) ==
  /\ dl[d].pc \in Begun /\ Linked => stepRun[dl[d].step].status # "queued"
  /\ dl[d].pc = "correlate" => stepRun[dl[d].step].gen = d
  /\ dl[d].pc = "work" /\ Kind[NodeFor(d)] = "agent_step" => stepRun[dl[d].step].gen = d
  /\ dl[d].pc \in Reported /\ Kind[NodeFor(d)] = "agent_step" /\ Linked =>
       stepRun[dl[d].step].gen = d

\* Where a delivery is says what its node is like.
NodeFits(d) ==
  /\ dl[d].pc = "endStep" => Kind[NodeFor(d)] = "end"
  /\ dl[d].pc = "watchdog" => EvaluateEdges(NodeFor(d), "failure") = NoNode

Fits(d) == CountsFit(d) /\ ClaimFits(d) /\ NodeFits(d)

FitsOK == \A d \in Delivery : Fits(d)

\* Places that ask nothing.
LEMMA CalmFits ==
  ASSUME NEW d \in Delivery,
         dl'[d].pc \in {"idle", "load", "done", "deny", "skip", "throw", "failRun", "dispatch"}
  PROVE  Fits(d)'
BY DEF Fits, CountsFit, ClaimFits, NodeFits, Loaded, Begun, Reported

\* A delivery that does nothing.
LEMMA IdleFits ==
  ASSUME Inv, Inv', Extends, NEW d \in Delivery, Fits(d), dl'[d] = dl[d]
  PROVE  Fits(d)'
<1> DEFINE t == dl[d].step
<1>1. CASE dl[d].pc \in {"idle", "done"}
  <2>1. dl'[d].pc \in {"idle", "done"}
    BY <1>1
  <2> QED BY <2>1, CalmFits
<1>2. CASE dl[d].pc \notin {"idle", "done"}
  <2>0. StoreOK /\ DeliveriesOK
    BY DEF Inv
  <2>1. t \in 1..rows
    BY <1>2, <2>0, Located
  <2>2. /\ NodeFor(d)' = NodeFor(d) /\ NextNode(d)' = NextNode(d)
        /\ stepRun[t].gen # 0 => stepRun'[t].gen = stepRun[t].gen
        /\ stepRun'[t].status = "queued" => stepRun[t].status = "queued"
        /\ Linked' => Linked
    BY <2>1 DEF Extends, NodeFor, NextNode, NodeOf, Linked
  <2>3. d # 0 /\ rows \in Nat
    BY <2>0, StoreBounds DEF Delivery, StoreOK, StoreTypeOK, StepId
  <2>4. CountsFit(d)'
    <3>1. CASE UNCHANGED <<cur, stepCount, iterationCount, rows>>
      <4>1. \A node : StepsOf(node)' = StepsOf(node)
        BY <3>1 DEF Extends, StepsOf
      <4> QED BY <2>2, <3>1, <4>1 DEF Fits, CountsFit
    <3>2. CASE cur' = rows + 1
      <4>1. t # cur'
        BY <2>1, <2>3, <3>2
      <4> QED BY <4>1 DEF CountsFit
    <3> QED BY <3>1, <3>2 DEF Extends
  <2>5. ClaimFits(d)'
    BY <2>2, <2>3 DEF Fits, ClaimFits
  <2>6. NodeFits(d)'
    BY <2>2 DEF Fits, NodeFits
  <2> QED BY <2>4, <2>5, <2>6 DEF Fits
<1> QED BY <1>1, <1>2

\* A delivery that moves to another place keeps what it holds.
LEMMA GoToFields ==
  ASSUME DeliveriesOK, NEW d \in Delivery, NEW pc, GoTo(d, pc)
  PROVE  /\ dl'[d].pc = pc /\ dl'[d].step = dl[d].step /\ dl'[d].steps = dl[d].steps
         /\ dl'[d].iters = dl[d].iters /\ dl'[d].out = dl[d].out /\ dl'[d].revisit = dl[d].revisit
<1>1. dl \in [Delivery -> DeliveryRec] /\ dl[d] \in DeliveryRec
  BY DEF DeliveriesOK
<1>2. dl'[d] = [dl[d] EXCEPT !.pc = pc]
  BY <1>1 DEF GoTo, Become
<1> QED BY <1>1, <1>2 DEF DeliveryRec

LEMMA FinishFields ==
  ASSUME DeliveriesOK, NEW d \in Delivery, Finish(d)
  PROVE  dl'[d].pc = "done"
<1>1. dl \in [Delivery -> DeliveryRec]
  BY DEF DeliveriesOK
<1>2. dl'[d] = Ended(d)
  BY <1>1 DEF Finish, Become
<1> QED BY <1>2 DEF Ended, At

LEMMA GoToOrFinishFields ==
  ASSUME DeliveriesOK, NEW d \in Delivery, NEW continue, NEW pc, GoToOrFinish(d, continue, pc)
  PROVE  \/ dl'[d].pc = "done"
         \/ continue /\ GoTo(d, pc)
BY FinishFields DEF GoToOrFinish

\* Nothing in the store moves, and delivery d goes on with its step.
LEMMA StayFields ==
  ASSUME UNCHANGED storeVars, NEW d \in Delivery, dl'[d].step = dl[d].step
  PROVE  /\ UNCHANGED <<source, cur, stepCount, iterationCount, rows, stepRun>>
         /\ NodeFor(d)' = NodeFor(d) /\ Linked' = Linked
         /\ \A node : StepsOf(node)' = StepsOf(node)
BY DEF storeVars, runVars, countVars, rowVars, NodeFor, NodeOf, Linked, StepsOf

LEMMA LoadFits ==
  ASSUME Inv, NEW d \in Delivery, Load(d)
  PROVE  Fits(d)'
<1>1. DeliveriesOK /\ UNCHANGED storeVars /\ dl \in [Delivery -> DeliveryRec] /\ dl[d] \in DeliveryRec
  BY DEF Inv, DeliveriesOK, Load
<1>2. CASE Finish(d) \/ GoTo(d, "deny")
  <2>1. dl'[d].pc \in {"done", "deny"}
    BY <1>1, <1>2, FinishFields, GoToFields
  <2> QED BY <2>1, CalmFits
<1>3. CASE Become(d, [dl[d] EXCEPT !.pc = IF status = "queued" THEN "begin" ELSE "guard",
                                   !.steps = stepCount, !.iters = iterationCount,
                                   !.timed = startedAt, !.hadWf = (stepRun[dl[d].step].wf # 0)])
  <2>1. dl'[d] = [dl[d] EXCEPT !.pc = IF status = "queued" THEN "begin" ELSE "guard",
                               !.steps = stepCount, !.iters = iterationCount,
                               !.timed = startedAt, !.hadWf = (stepRun[dl[d].step].wf # 0)]
    BY <1>1, <1>3 DEF Become
  <2>2. dl'[d].pc \in {"begin", "guard"} /\ dl'[d].steps = stepCount /\ dl'[d].iters = iterationCount
    BY <1>1, <2>1 DEF DeliveryRec
  <2>3. stepCount' = stepCount /\ iterationCount' = iterationCount
    BY <1>1 DEF storeVars, countVars
  <2> QED BY <2>2, <2>3 DEF Fits, CountsFit, ClaimFits, NodeFits, Begun, Reported
<1> QED BY <1>2, <1>3 DEF Load

\* A delivery that only passed on what it had loaded.
LEMMA PassFits ==
  ASSUME Inv, NEW d \in Delivery, Fits(d), dl[d].pc \in Loaded, NEW pc \in {"guard", "claim"},
         dl'[d].pc = pc, dl'[d].step = dl[d].step, dl'[d].steps = dl[d].steps,
         dl'[d].iters = dl[d].iters, UNCHANGED <<cur, stepCount, iterationCount>>
  PROVE  Fits(d)'
BY DEF Fits, CountsFit, ClaimFits, NodeFits, Loaded, Begun, Reported

LEMMA RunStepFits ==
  ASSUME Inv, NEW d \in Delivery, Fits(d),
         Deny(d) \/ Begin(d) \/ Trip(d) \/ CompleteRun(d) \/ FailRun(d)
  PROVE  Fits(d)'
<1>1. DeliveriesOK /\ UNCHANGED <<source, countVars, rowVars>>
  BY DEF Inv, Deny, Begin, Trip, CompleteRun, FailRun
<1>2. CASE Deny(d) \/ Trip(d) \/ FailRun(d)
  <2>1. dl'[d].pc \in {"done", "skip"}
    BY <1>1, <1>2, FinishFields, GoToFields, GoToOrFinishFields DEF Deny, Trip, FailRun
  <2> QED BY <2>1, CalmFits
<1>3. CASE Begin(d)
  <2>1. CASE GoTo(d, "guard")
    <3>1. dl[d].pc \in Loaded
      BY <1>3 DEF Begin, Loaded
    <3>2. UNCHANGED <<cur, stepCount, iterationCount>>
      BY <1>1 DEF countVars
    <3>3. /\ dl'[d].pc = "guard" /\ dl'[d].step = dl[d].step
          /\ dl'[d].steps = dl[d].steps /\ dl'[d].iters = dl[d].iters
      BY <1>1, <2>1, GoToFields
    <3> QED BY <3>1, <3>2, <3>3, PassFits
  <2>2. CASE dl'[d].pc = "done"
    BY <2>2, CalmFits
  <2> QED BY <1>1, <1>3, <2>1, <2>2, GoToOrFinishFields DEF Begin
<1>4. CASE CompleteRun(d)
  <2>1. CASE GoTo(d, "endStep")
    <3>1. dl'[d].pc = "endStep" /\ dl'[d].step = dl[d].step
      BY <1>1, <2>1, GoToFields
    <3>2. Kind[NodeFor(d)] = "end" /\ dl[d].pc = "work"
      BY <1>4 DEF CompleteRun, KindOf, NodeFor
    <3>3. NodeFor(d)' = NodeFor(d) /\ stepRun' = stepRun /\ Linked' = Linked
      BY <1>1, <3>1 DEF NodeFor, NodeOf, rowVars, Linked
    <3> QED BY <3>1, <3>2, <3>3 DEF Fits, CountsFit, ClaimFits, NodeFits, Loaded, Begun, Reported
  <2>2. CASE dl'[d].pc = "done"
    BY <2>2, CalmFits
  <2> QED BY <1>1, <1>4, <2>1, <2>2, GoToOrFinishFields DEF CompleteRun
<1> QED BY <1>2, <1>3, <1>4

LEMMA EnterFits ==
  ASSUME Inv, NEW d \in Delivery, Fits(d), Enter(d)
  PROVE  Fits(d)'
<1> DEFINE s == dl[d].step
<1>1. /\ DeliveriesOK /\ UNCHANGED storeVars /\ dl[d].pc = "guard" /\ dl[d].pc \in Loaded
      /\ dl \in [Delivery -> DeliveryRec] /\ dl[d] \in DeliveryRec
  BY DEF Inv, DeliveriesOK, Enter, Loaded
<1>2. UNCHANGED <<source, cur, stepCount, iterationCount, rows, stepRun>>
  BY <1>1 DEF storeVars, countVars, rowVars
<1>3. CASE dl'[d].pc \in {"done", "throw"}
  BY <1>3, CalmFits
<1>4. CASE ~Linked /\ Become(d, [dl[d] EXCEPT !.pc = "reload", !.out = "failure"])
  <2>1. dl'[d] = [dl[d] EXCEPT !.pc = "reload", !.out = "failure"]
    BY <1>1, <1>4 DEF Become
  <2>2. /\ dl'[d].pc = "reload" /\ dl'[d].step = s /\ dl'[d].steps = dl[d].steps
        /\ dl'[d].iters = dl[d].iters
    BY <1>1, <2>1 DEF DeliveryRec
  <2>3. ~Linked'
    BY <1>2, <1>4 DEF Linked
  <2> QED BY <1>1, <1>2, <2>2, <2>3 DEF Fits, CountsFit, ClaimFits, NodeFits, Loaded, Begun, Reported
<1>5. CASE Become(d, [dl[d] EXCEPT !.pc = "claim", !.wfSeen = stepRun[s].wf])
  <2>1. dl'[d] = [dl[d] EXCEPT !.pc = "claim", !.wfSeen = stepRun[s].wf]
    BY <1>1, <1>5 DEF Become
  <2>2. /\ dl'[d].pc = "claim" /\ dl'[d].step = s /\ dl'[d].steps = dl[d].steps
        /\ dl'[d].iters = dl[d].iters
    BY <1>1, <2>1 DEF DeliveryRec
  <2> QED BY <1>1, <1>2, <2>2, PassFits
<1>6. CASE stepRun[s].status = "running" /\ Become(d, [dl[d] EXCEPT !.pc = "generation", !.wfSeen = stepRun[s].wf])
  <2>1. dl'[d] = [dl[d] EXCEPT !.pc = "generation", !.wfSeen = stepRun[s].wf]
    BY <1>1, <1>6 DEF Become
  <2>2. /\ dl'[d].pc = "generation" /\ dl'[d].step = s /\ dl'[d].steps = dl[d].steps
        /\ dl'[d].iters = dl[d].iters
    BY <1>1, <2>1 DEF DeliveryRec
  <2> QED BY <1>1, <1>2, <1>6, <2>2 DEF Fits, CountsFit, ClaimFits, NodeFits, Loaded, Begun, Reported
<1>7. CASE stepRun[s].status = "running" /\ KindOf(d) # "agent_step" /\ GoTo(d, "work")
  <2>1. /\ dl'[d].pc = "work" /\ dl'[d].step = s /\ dl'[d].steps = dl[d].steps
        /\ dl'[d].iters = dl[d].iters
    BY <1>1, <1>7, GoToFields
  <2>2. NodeFor(d)' = NodeFor(d) /\ Kind[NodeFor(d)] # "agent_step"
    BY <1>2, <1>7, <2>1 DEF NodeFor, NodeOf, KindOf
  <2> QED BY <1>1, <1>2, <1>7, <2>1, <2>2 DEF Fits, CountsFit, ClaimFits, NodeFits, Loaded, Begun, Reported
<1>8. Finish(d) => dl'[d].pc = "done"
  BY <1>1, FinishFields
<1>9. GoTo(d, "throw") => dl'[d].pc = "throw"
  BY <1>1, GoToFields
<1>10. \A continue : GoToOrFinish(d, continue, "work") => dl'[d].pc = "done" \/ GoTo(d, "work")
  BY <1>8 DEF GoToOrFinish
<1> QED BY <1>3, <1>4, <1>5, <1>6, <1>7, <1>8, <1>9, <1>10 DEF Enter

\* The claim makes the step a running one.
LEMMA ClaimStepFits ==
  ASSUME Inv, NEW d \in Delivery, Fits(d), Claim(d)
  PROVE  Fits(d)'
<1> DEFINE s == dl[d].step
           agent == KindOf(d) = "agent_step"
<1>1. /\ StoreOK /\ DeliveriesOK /\ dl[d].pc = "claim" /\ dl[d].pc \in Loaded
      /\ UNCHANGED <<source, cur, stepCount, iterationCount, rows>>
  BY DEF Inv, Claim, Loaded, countVars
<1>2. s \in StepId /\ stepRun \in [StepId -> StepRow] /\ stepRun[s] \in StepRow
  <2>1. s \in StepId
    BY <1>1, Located
  <2> QED BY <1>1, <2>1 DEF StoreOK, StoreTypeOK
<1>3. CASE dl'[d].pc = "done"
  BY <1>3, CalmFits
<1>4. CASE /\ CanUpdateStep(s, {"queued"})
           /\ GoTo(d, IF agent THEN "generation" ELSE "work")
  <2>1. stepRun' = [stepRun EXCEPT ![s].status = "running", ![s].wf = dl[d].wf]
    BY <1>4 DEF Claim
  <2>2. stepRun'[s] = [stepRun[s] EXCEPT !.status = "running", !.wf = dl[d].wf]
    BY <1>2, <2>1
  <2>3. stepRun'[s].status = "running" /\ stepRun'[s].node = stepRun[s].node
    BY <1>2, <2>2 DEF StepRow
  <2>4. /\ dl'[d].pc = (IF agent THEN "generation" ELSE "work") /\ dl'[d].step = s
        /\ dl'[d].steps = dl[d].steps /\ dl'[d].iters = dl[d].iters
    BY <1>1, <1>4, GoToFields
  <2>5. NodeFor(d)' = NodeFor(d) /\ (agent <=> Kind[NodeFor(d)] = "agent_step")
    BY <2>3, <2>4 DEF NodeFor, NodeOf, KindOf
  <2> QED BY <1>1, <2>3, <2>4, <2>5 DEF Fits, CountsFit, ClaimFits, NodeFits, Loaded, Begun, Reported
<1> QED BY <1>1, <1>3, <1>4, GoToOrFinishFields DEF Claim

\* The claim generation is the delivery's own.
LEMMA GenerationFits ==
  ASSUME Inv, NEW d \in Delivery, Fits(d), ClaimGeneration(d) \/ Correlate(d)
  PROVE  Fits(d)'
<1> DEFINE s == dl[d].step
<1>1. /\ StoreOK /\ DeliveriesOK /\ dl[d].pc \in {"generation", "correlate"}
      /\ UNCHANGED <<source, cur, stepCount, iterationCount, rows>>
  BY DEF Inv, ClaimGeneration, Correlate, countVars
<1>2. ClaimsOnly(s)
  BY <1>1, ClaimEffect
<1>3. s \in StepId /\ stepRun \in [StepId -> StepRow] /\ stepRun[s] \in StepRow
  <2>1. s \in StepId
    BY <1>1, Located
  <2> QED BY <1>1, <2>1 DEF StoreOK, StoreTypeOK
<1>4. stepRun'[s].node = stepRun[s].node /\ stepRun'[s].status = stepRun[s].status
  BY <1>2, <1>3 DEF ClaimsOnly
<1>5. ASSUME NEW pc \in {"work", "correlate"}, GoTo(d, pc), stepRun'[s].gen = d
      PROVE  Fits(d)'
  <2>1. /\ dl'[d].pc = pc /\ dl'[d].step = s /\ dl'[d].steps = dl[d].steps
        /\ dl'[d].iters = dl[d].iters
    BY <1>1, <1>5, GoToFields
  <2> QED BY <1>1, <1>4, <1>5, <2>1 DEF Fits, CountsFit, ClaimFits, NodeFits, Loaded, Begun, Reported, Linked
<1>6. CASE dl'[d].pc = "done"
  BY <1>6, CalmFits
<1>7. CASE ClaimGeneration(d)
  <2> DEFINE won == CanUpdateStep(s, {"running"}) /\ stepRun[s].gen = 0
             to == IF dl[d].wfSeen = dl[d].wf THEN "work" ELSE "correlate"
  <2>1. CASE won /\ GoTo(d, to)
    <3>1. stepRun' = [stepRun EXCEPT ![s].gen = d]
      BY <1>7, <2>1 DEF ClaimGeneration
    <3>2. stepRun'[s] = [stepRun[s] EXCEPT !.gen = d]
      BY <1>3, <3>1
    <3>3. stepRun'[s].gen = d
      BY <1>3, <3>2 DEF StepRow
    <3> QED BY <1>5, <2>1, <3>3
  <2> QED BY <1>1, <1>6, <1>7, <2>1, GoToOrFinishFields DEF ClaimGeneration
<1>8. CASE Correlate(d)
  <2> DEFINE won == CanUpdateStep(s, {"running"}) /\ stepRun[s].gen = d
  <2>1. CASE won /\ GoTo(d, "work")
    <3>1. stepRun' = [stepRun EXCEPT ![s].wf = dl[d].wf]
      BY <1>8, <2>1 DEF Correlate
    <3>2. stepRun'[s] = [stepRun[s] EXCEPT !.wf = dl[d].wf]
      BY <1>3, <3>1
    <3>3. stepRun'[s].gen = d
      BY <1>3, <2>1, <3>2 DEF StepRow
    <3> QED BY <1>5, <2>1, <3>3
  <2> QED BY <1>1, <1>6, <1>8, <2>1, GoToOrFinishFields DEF Correlate
<1> QED BY <1>7, <1>8

\* An executor has reported its outcome.
LEMMA OutcomeFits ==
  ASSUME Inv, NEW d \in Delivery, Fits(d), Succeed(d) \/ Fail(d) \/ FinishAgent(d)
  PROVE  Fits(d)'
<1> DEFINE s == dl[d].step
<1>1. /\ StoreOK /\ DeliveriesOK /\ dl[d].pc = "work"
      /\ UNCHANGED <<source, cur, stepCount, iterationCount, rows>>
      /\ dl \in [Delivery -> DeliveryRec] /\ dl[d] \in DeliveryRec
  BY DEF Inv, Succeed, Fail, FinishAgent, Report, countVars, DeliveriesOK
<1>2. s \in StepId /\ stepRun \in [StepId -> StepRow] /\ stepRun[s] \in StepRow
  <2>1. s \in StepId
    BY <1>1, Located
  <2> QED BY <1>1, <2>1 DEF StoreOK, StoreTypeOK
<1>3. ASSUME NEW to \in StepTerminal, SetStep(s, to) \/ (UNCHANGED stepRun /\ ~Linked),
             NEW outcome, Become(d, [dl[d] EXCEPT !.pc = "reload", !.out = outcome])
      PROVE  Fits(d)'
  <2>1. dl'[d] = [dl[d] EXCEPT !.pc = "reload", !.out = outcome]
    BY <1>1, <1>3 DEF Become
  <2>2. /\ dl'[d].pc = "reload" /\ dl'[d].step = s /\ dl'[d].steps = dl[d].steps
        /\ dl'[d].iters = dl[d].iters
    BY <1>1, <2>1 DEF DeliveryRec
  <2>3. /\ stepRun'[s].node = stepRun[s].node /\ stepRun'[s].gen = stepRun[s].gen
        /\ Linked => stepRun'[s].status = to
    <3>1. CASE UNCHANGED stepRun /\ ~Linked
      BY <3>1
    <3>2. CASE SetStep(s, to)
      <4>1. stepRun'[s] = [stepRun[s] EXCEPT !.status = to]
        BY <1>2, <3>2 DEF SetStep
      <4> QED BY <1>2, <4>1 DEF StepRow
    <3> QED BY <1>3, <3>1, <3>2
  <2>4. NodeFor(d)' = NodeFor(d) /\ Linked' = Linked /\ to # "queued"
    BY <1>1, <2>2, <2>3 DEF NodeFor, NodeOf, Linked, StepTerminal
  <2> QED BY <1>1, <2>2, <2>3, <2>4 DEF Fits, CountsFit, ClaimFits, NodeFits, Loaded, Begun, Reported
<1>4. CASE dl'[d].pc = "done"
  BY <1>4, CalmFits
<1>5. CASE Succeed(d)
  <2>1. SetStep(s, "succeeded") \/ (UNCHANGED stepRun /\ ~Linked)
    BY <1>5 DEF Succeed
  <2>2. PICK outcome : Become(d, [dl[d] EXCEPT !.pc = "reload", !.out = outcome])
    BY <1>5 DEF Succeed
  <2> QED BY <1>3, <2>1, <2>2 DEF StepTerminal
<1>6. ASSUME NEW updated, NEW to \in StepTerminal, NEW outcome, Report(d, updated, to, outcome)
      PROVE  Fits(d)'
  <2>1. CASE Finish(d)
    BY <1>1, <1>4, <2>1, FinishFields
  <2>2. CASE SetStep(s, to) /\ Become(d, [dl[d] EXCEPT !.pc = "reload", !.out = outcome])
    BY <1>3, <2>2
  <2> QED BY <1>6, <2>1, <2>2 DEF Report
<1> QED BY <1>5, <1>6 DEF Fail, FinishAgent, StepTerminal

LEMMA ReloadFits ==
  ASSUME Inv, NEW d \in Delivery, Fits(d), Reload(d)
  PROVE  Fits(d)'
<1>1. /\ DeliveriesOK /\ UNCHANGED storeVars /\ dl[d].pc = "reload"
      /\ dl \in [Delivery -> DeliveryRec] /\ dl[d] \in DeliveryRec
  BY DEF Inv, DeliveriesOK, Reload
<1>2. UNCHANGED <<source, cur, stepCount, iterationCount, rows, stepRun>>
  BY <1>1 DEF storeVars, countVars, rowVars
<1>3. CASE Finish(d) \/ GoTo(d, "failRun")
  <2>1. dl'[d].pc \in {"done", "failRun"}
    BY <1>1, <1>3, FinishFields, GoToFields
  <2> QED BY <2>1, CalmFits
<1>4. ASSUME NEW hold, Become(d, [dl[d] EXCEPT !.pc = "plan", !.hold = hold])
      PROVE  Fits(d)'
  <2>1. dl'[d] = [dl[d] EXCEPT !.pc = "plan", !.hold = hold]
    BY <1>1, <1>4 DEF Become
  <2>2. /\ dl'[d].pc = "plan" /\ dl'[d].step = dl[d].step /\ dl'[d].steps = dl[d].steps
        /\ dl'[d].iters = dl[d].iters
    BY <1>1, <2>1 DEF DeliveryRec
  <2> QED BY <1>1, <1>2, <2>2
          DEF Fits, CountsFit, ClaimFits, NodeFits, NodeFor, NodeOf, Linked, Loaded, Begun, Reported
<1>5. CASE NextNode(d) = NoNode /\ dl[d].out = "failure" /\ GoTo(d, "watchdog")
  <2>1. dl'[d].pc = "watchdog" /\ dl'[d].step = dl[d].step
    BY <1>1, <1>5, GoToFields
  <2> QED BY <1>1, <1>2, <1>5, <2>1
          DEF Fits, CountsFit, ClaimFits, NodeFits, NodeFor, NodeOf, NextNode, Linked, Loaded, Begun, Reported
<1> QED BY <1>3, <1>4, <1>5 DEF Reload

LEMMA PlanFits ==
  ASSUME Inv, NEW d \in Delivery, Fits(d), Plan(d)
  PROVE  Fits(d)'
<1>1. /\ DeliveriesOK /\ UNCHANGED storeVars /\ dl[d].pc = "plan"
      /\ dl \in [Delivery -> DeliveryRec] /\ dl[d] \in DeliveryRec
  BY DEF Inv, DeliveriesOK, Plan
<1>2. /\ UNCHANGED <<source, cur, stepCount, iterationCount, rows, stepRun>>
      /\ \A node : StepsOf(node)' = StepsOf(node)
  BY <1>1 DEF storeVars, countVars, rowVars, StepsOf
<1> DEFINE a == MaxAttempt(NextNode(d)) + 1
           v == StepsOf(NextNode(d)) # {}
<1>3. dl'[d] = [dl[d] EXCEPT !.pc = "advance", !.attempt = a, !.revisit = v]
  BY <1>1 DEF Plan, Become
<1> HIDE DEF a
<1>4. /\ dl'[d].pc = "advance" /\ dl'[d].step = dl[d].step /\ dl'[d].steps = dl[d].steps
      /\ dl'[d].iters = dl[d].iters /\ dl'[d].out = dl[d].out /\ dl'[d].revisit = v
  BY <1>1, <1>3 DEF DeliveryRec
<1>5. NextNode(d)' = NextNode(d) /\ NodeFor(d)' = NodeFor(d) /\ Linked' = Linked
  BY <1>2, <1>4 DEF NextNode, NodeOf, NodeFor, Linked
<1>6. v' = v
  BY <1>2, <1>5
<1> HIDE DEF v
<1>7. CountsFit(d)'
  BY <1>1, <1>2, <1>4, <1>5, <1>6 DEF v, Fits, CountsFit, Loaded
<1>8. ClaimFits(d)' /\ NodeFits(d)'
  BY <1>1, <1>2, <1>4, <1>5 DEF Fits, ClaimFits, NodeFits, Begun, Reported
<1> QED BY <1>7, <1>8 DEF Fits

\* The remaining steps end the delivery, or leave it where nothing is asked.
LEMMA LastFits ==
  ASSUME Inv, NEW d \in Delivery,
         \/ SkipStep(d) \/ EndStep(d) \/ ThrowStep(d) \/ LocalDuplicate(d) \/ Advance(d)
         \/ Dispatch(d) \/ Throw(d)
  PROVE  Fits(d)'
<1>1. DeliveriesOK /\ dl \in [Delivery -> DeliveryRec] /\ dl[d] \in DeliveryRec
  BY DEF Inv, DeliveriesOK
<1>2. CASE Finish(d)
  <2>1. dl'[d].pc = "done"
    BY <1>1, <1>2, FinishFields
  <2> QED BY <2>1, CalmFits
<1>3. ASSUME NEW pc \in {"failRun", "throw"}, GoTo(d, pc) PROVE Fits(d)'
  <2>1. dl'[d].pc = pc
    BY <1>1, <1>3, GoToFields
  <2> QED BY <2>1, CalmFits
<1>4. ASSUME NEW next, Become(d, [dl[d] EXCEPT !.pc = "dispatch", !.next = next]) PROVE Fits(d)'
  <2>1. dl'[d] = [dl[d] EXCEPT !.pc = "dispatch", !.next = next]
    BY <1>1, <1>4 DEF Become
  <2>2. dl'[d].pc = "dispatch"
    BY <1>1, <2>1 DEF DeliveryRec
  <2> QED BY <2>2, CalmFits
<1>5. ASSUME NEW next, dl' = [dl EXCEPT ![d] = Ended(d), ![nDl + 1] = At("load", next, nDl + 1)]
      PROVE Fits(d)'
  <2>1. dl'[d] \in {Ended(d), At("load", next, nDl + 1)}
    BY <1>1, <1>5
  <2>2. dl'[d].pc \in {"done", "load"}
    BY <2>1 DEF Ended, At
  <2> QED BY <2>2, CalmFits
<1> QED BY <1>2, <1>3, <1>4, <1>5
        DEF SkipStep, EndStep, ThrowStep, LocalDuplicate, Advance, AdvanceWhen, Dispatch, Throw

LEMMA StepFits ==
  ASSUME Inv, NEW d \in Delivery, Fits(d), Step(d) \/ Throw(d)
  PROVE  Fits(d)'
<1>1. CASE Load(d)
  BY <1>1, LoadFits
<1>2. CASE Deny(d) \/ Begin(d) \/ Trip(d) \/ CompleteRun(d) \/ FailRun(d)
  BY <1>2, RunStepFits
<1>3. CASE Enter(d)
  BY <1>3, EnterFits
<1>4. CASE Claim(d)
  BY <1>4, ClaimStepFits
<1>5. CASE ClaimGeneration(d) \/ Correlate(d)
  BY <1>5, GenerationFits
<1>6. CASE Succeed(d) \/ Fail(d) \/ FinishAgent(d)
  BY <1>6, OutcomeFits
<1>7. CASE Reload(d)
  BY <1>7, ReloadFits
<1>8. CASE Plan(d)
  BY <1>8, PlanFits
<1> QED BY <1>1, <1>2, <1>3, <1>4, <1>5, <1>6, <1>7, <1>8, LastFits DEF Step

-----------------------------------------------------------------------------
(* What a step of the run may do to the deliveries                         *)

\* A delivery stays, starts over, ends, is told by the watchdog to fail the
\* run, or takes its own next step.
DeliveryStep(e) ==
  \/ dl'[e] = dl[e]
  \/ dl'[e].pc \in {"load", "done"}
  \/ dl[e].pc = "watchdog" /\ dl'[e].pc = "failRun" /\ dl'[e].step = dl[e].step
  \/ Step(e) \/ Throw(e)

\* Only delivery d, and a new one, may change.
LEMMA OnlyOne ==
  ASSUME DeliveriesOK, NEW d \in Delivery, NEW r, Become(d, r)
  PROVE  \A e \in Delivery : e # d => dl'[e] = dl[e]
BY DEF Become, DeliveriesOK

LEMMA NewSlot ==
  ASSUME DeliveriesOK, NEW i, NEW t, NEW w, dl' = [dl EXCEPT ![i] = At("load", t, w)]
  PROVE  \A e \in Delivery : dl'[e] = dl[e] \/ dl'[e].pc = "load"
<1>1. dl \in [Delivery -> DeliveryRec]
  BY DEF DeliveriesOK
<1>2. \A e \in Delivery : dl'[e] = dl[e] \/ dl'[e] = At("load", t, w)
  BY <1>1
<1> QED BY <1>2 DEF At

LEMMA StepAlone ==
  ASSUME DeliveriesOK, NEW d \in Delivery, Step(d) \/ Throw(d), NEW e \in Delivery, e # d
  PROVE  dl'[e] = dl[e] \/ dl'[e].pc = "load"
<1>1. CASE Dispatch(d)
  <2>1. CASE GoTo(d, "failRun")
    BY <2>1, OnlyOne DEF GoTo
  <2>2. CASE dl' = [dl EXCEPT ![d] = Ended(d), ![nDl + 1] = At("load", dl[d].next, nDl + 1)]
    <3>1. dl'[e] = dl[e] \/ dl'[e] = At("load", dl[d].next, nDl + 1)
      BY <2>2 DEF DeliveriesOK
    <3> QED BY <3>1 DEF At
  <2> QED BY <1>1, <2>1, <2>2 DEF Dispatch
<1>2. CASE ~Dispatch(d)
  <2>1. \E r : Become(d, r)
    BY <1>2 DEF Step, Load, Deny, SkipStep, Begin, Trip, Enter, LocalDuplicate, Claim,
         ClaimGeneration, Correlate, Succeed, Fail, FinishAgent, Report, CompleteRun, EndStep,
         ThrowStep, FailRun, Reload, Plan, Advance, AdvanceWhen, Throw, GoToOrFinish, GoTo, Finish
  <2> QED BY <2>1, OnlyOne
<1> QED BY <1>1, <1>2

\* The watchdog gives its answer back.
LEMMA ReturnDeliveries ==
  ASSUME DeliveriesOK, NEW p \in Caller, p # Sweeper => dl[p].pc = "watchdog",
         NEW invoked, Return(p, invoked), NEW e \in Delivery
  PROVE  DeliveryStep(e)
<1>1. CASE p = Sweeper
  BY <1>1 DEF Return, DeliveryStep
<1>2. CASE p # Sweeper
  <2>1. p \in Delivery /\ GoToOrFinish(p, ~invoked, "failRun")
    BY <1>2, CallerType DEF Return
  <2>2. CASE e = p
    BY <1>2, <2>1, <2>2, GoToOrFinishFields, GoToFields DEF DeliveryStep
  <2>3. CASE e # p
    <3>1. \E r : Become(p, r)
      BY <2>1 DEF GoToOrFinish, GoTo, Finish
    <3> QED BY <2>1, <2>3, <3>1, OnlyOne DEF DeliveryStep
  <2> QED BY <2>2, <2>3
<1> QED BY <1>1, <1>2

LEMMA NextDeliveries ==
  ASSUME Inv, [Next]_vars, NEW e \in Delivery
  PROVE  DeliveryStep(e)
<1>1. DeliveriesOK
  BY DEF Inv
<1>2. CASE dl' = dl
  BY <1>2 DEF DeliveryStep
<1>3. ASSUME NEW d \in Delivery, Deliver(d) \/ Crash(d) \/ Disturb(d) PROVE DeliveryStep(e)
  <2>1. CASE Step(d) \/ Throw(d)
    <3>1. CASE e = d
      BY <2>1, <3>1 DEF DeliveryStep
    <3>2. CASE e # d
      BY <1>1, <2>1, <3>2, StepAlone DEF DeliveryStep
    <3> QED BY <3>1, <3>2
  <2>2. CASE Redeliver(d)
    BY <1>1, <2>2, NewSlot DEF Redeliver, DeliveryStep
  <2>3. CASE Lose(d) \/ DispatchFails(d)
    BY <1>1, <2>3, FinishFields, OnlyOne DEF Lose, DispatchFails, DeliveryStep, Finish
  <2>4. CASE Restart(d)
    BY <1>1, <2>4, NewSlot DEF Restart, Become, DeliveryStep
  <2> QED BY <1>3, <2>1, <2>2, <2>3, <2>4 DEF Deliver, Crash, Disturb
<1>4. ASSUME NEW p \in Caller, Watch(p) \/ WatchFault(p) PROVE DeliveryStep(e)
  <2>0. p # Sweeper => dl[p].pc = "watchdog"
    <3>1. Calls(p) \/ wd[p].pc # "off"
      BY <1>4 DEF Watch, WatchFault, Watchdog, Open, Decide, ApplyRetry, RetryRefused, ApplyPause,
                  RetryDispatch, Record, RetryDispatchFails, WatchdogThrows
    <3> QED BY <3>1, CallerType DEF Calls, Inv, WatchdogOK
  <2>1. CASE \E invoked : Return(p, invoked)
    BY <1>1, <2>0, <2>1, ReturnDeliveries
  <2>2. CASE \E t : dl' = [dl EXCEPT ![nDl + 1] = At("load", t, nDl + 1)]
    BY <1>1, <2>2, NewSlot DEF DeliveryStep
  <2>3. CASE dl' = dl
    BY <1>2, <2>3
  <2> QED BY <1>4, <2>1, <2>2, <2>3
          DEF Watch, WatchFault, Watchdog, Open, Decide, ApplyRetry, RetryRefused, ApplyPause,
              PauseSystem, Continue, RetryDispatch, Record, RetryDispatchFails, WatchdogThrows, chainVars
<1>5. CASE Request \/ RequestFault
  <2>1. PICK c \in calls : StartCall(c) \/ FailCall(c) \/ StartCallFails(c) \/ CallCrash(c)
    BY <1>5 DEF Request, RequestFault
  <2>2. CASE StartCall(c)
    BY <1>1, <2>2, NewSlot DEF StartCall, DeliveryStep
  <2>3. CASE FailCall(c) \/ StartCallFails(c) \/ CallCrash(c)
    BY <1>2, <2>3 DEF FailCall, StartCallFails, CallCrash, chainVars
  <2> QED BY <2>1, <2>2, <2>3
<1>6. CASE \/ UNCHANGED vars \/ Sweep \/ SweepStep \/ SweepFault \/ Pause \/ Cancel \/ Resume \/ Retry
           \/ ChangeSource \/ DeleteSource
  BY <1>2, <1>6 DEF vars, Sweep, SweepStep, SweepFault, Stall, SweepRead, SweepRevoke, SweepCrash,
                    Pause, Cancel, Resume, Retry, ChangeSource, DeleteSource, chainVars
<1> QED BY <1>3, <1>4, <1>5, <1>6 DEF Next

\* The places of a delivery in the order its own steps visit them.
Moves == {
  <<"load", "deny">>, <<"load", "begin">>, <<"load", "guard">>, <<"load", "done">>,
  <<"deny", "skip">>, <<"deny", "done">>, <<"skip", "done">>,
  <<"begin", "guard">>, <<"begin", "done">>,
  <<"guard", "skip">>, <<"guard", "done">>, <<"guard", "reload">>, <<"guard", "throw">>,
  <<"guard", "claim">>, <<"guard", "generation">>, <<"guard", "work">>,
  <<"claim", "generation">>, <<"claim", "work">>, <<"claim", "done">>,
  <<"generation", "correlate">>, <<"generation", "work">>, <<"generation", "done">>,
  <<"correlate", "work">>, <<"correlate", "done">>,
  <<"work", "reload">>, <<"work", "endStep">>, <<"work", "throw">>, <<"work", "done">>,
  <<"endStep", "done">>, <<"throw", "failRun">>, <<"failRun", "done">>,
  <<"reload", "plan">>, <<"reload", "watchdog">>, <<"reload", "failRun">>, <<"reload", "done">>,
  <<"plan", "advance">>, <<"advance", "dispatch">>, <<"advance", "done">>,
  <<"dispatch", "failRun">>, <<"dispatch", "done">>}

MovesOn(d) == <<dl[d].pc, dl'[d].pc>> \in Moves /\ dl'[d].step = dl[d].step

LEMMA FinishMoves ==
  ASSUME DeliveriesOK, NEW d \in Delivery, Finish(d), <<dl[d].pc, "done">> \in Moves
  PROVE  MovesOn(d)
<1>1. dl'[d] = Ended(d)
  BY DEF DeliveriesOK, Finish, Become
<1>2. dl'[d].pc = "done" /\ dl'[d].step = dl[d].step
  BY <1>1 DEF Ended, At
<1> QED BY <1>2 DEF MovesOn

LEMMA GoToMoves ==
  ASSUME DeliveriesOK, NEW d \in Delivery, NEW pc, GoTo(d, pc), <<dl[d].pc, pc>> \in Moves
  PROVE  MovesOn(d)
BY GoToFields DEF MovesOn

LEMMA GoToOrFinishMoves ==
  ASSUME DeliveriesOK, NEW d \in Delivery, NEW continue, NEW pc, GoToOrFinish(d, continue, pc),
         <<dl[d].pc, pc>> \in Moves, <<dl[d].pc, "done">> \in Moves
  PROVE  MovesOn(d)
BY GoToMoves, FinishMoves DEF GoToOrFinish

LEMMA StepMoves ==
  ASSUME DeliveriesOK, NEW d \in Delivery, Step(d) \/ Throw(d)
  PROVE  MovesOn(d)
<1>1. dl \in [Delivery -> DeliveryRec] /\ dl[d] \in DeliveryRec
  BY DEF DeliveriesOK
<1>2. CASE Load(d)
  <2> DEFINE to == IF status = "queued" THEN "begin" ELSE "guard"
             hadWf == stepRun[dl[d].step].wf # 0
  <2>1. dl[d].pc = "load"
    BY <1>2 DEF Load
  <2>2. CASE Become(d, [dl[d] EXCEPT !.pc = to, !.steps = stepCount, !.iters = iterationCount,
                                     !.timed = startedAt, !.hadWf = hadWf])
    <3>1. dl'[d] = [dl[d] EXCEPT !.pc = to, !.steps = stepCount, !.iters = iterationCount,
                                 !.timed = startedAt, !.hadWf = hadWf]
      BY <1>1, <2>2 DEF Become
    <3>2. dl'[d].pc \in {"begin", "guard"} /\ dl'[d].step = dl[d].step
      BY <1>1, <3>1 DEF DeliveryRec
    <3> QED BY <2>1, <3>2 DEF MovesOn, Moves
  <2>3. CASE GoTo(d, "deny")
    BY <2>1, <2>3, GoToMoves DEF Moves
  <2>4. CASE Finish(d)
    BY <2>1, <2>4, FinishMoves DEF Moves
  <2> QED BY <1>2, <2>2, <2>3, <2>4 DEF Load
<1>3. CASE Deny(d) \/ Begin(d) \/ Trip(d) \/ CompleteRun(d)
  BY <1>3, GoToOrFinishMoves DEF Deny, Begin, Trip, CompleteRun, Moves
<1>4. CASE SkipStep(d) \/ FailRun(d) \/ EndStep(d) \/ LocalDuplicate(d)
  BY <1>4, FinishMoves DEF SkipStep, FailRun, EndStep, LocalDuplicate, Moves
<1>5. CASE ThrowStep(d) \/ Throw(d)
  BY <1>5, GoToMoves DEF ThrowStep, Throw, Moves
<1>6. CASE Enter(d)
  <2>1. dl[d].pc = "guard"
    BY <1>6 DEF Enter
  <2>2. CASE Finish(d)
    BY <2>1, <2>2, FinishMoves DEF Moves
  <2>3. CASE GoTo(d, "throw") \/ GoTo(d, "work")
    BY <2>1, <2>3, GoToMoves DEF Moves
  <2>4. CASE Become(d, [dl[d] EXCEPT !.pc = "reload", !.out = "failure"])
    <3>1. dl'[d] = [dl[d] EXCEPT !.pc = "reload", !.out = "failure"]
      BY <1>1, <2>4 DEF Become
    <3>2. dl'[d].pc = "reload" /\ dl'[d].step = dl[d].step
      BY <1>1, <3>1 DEF DeliveryRec
    <3> QED BY <2>1, <3>2 DEF MovesOn, Moves
  <2>5. ASSUME NEW pc \in {"claim", "generation"}, NEW wf, Become(d, [dl[d] EXCEPT !.pc = pc, !.wfSeen = wf])
        PROVE  MovesOn(d)
    <3>1. dl'[d] = [dl[d] EXCEPT !.pc = pc, !.wfSeen = wf]
      BY <1>1, <2>5 DEF Become
    <3>2. dl'[d].pc = pc /\ dl'[d].step = dl[d].step
      BY <1>1, <3>1 DEF DeliveryRec
    <3> QED BY <2>1, <3>2 DEF MovesOn, Moves
  <2> QED BY <1>6, <2>2, <2>3, <2>4, <2>5 DEF Enter, GoToOrFinish
<1>7. CASE Claim(d) \/ ClaimGeneration(d) \/ Correlate(d)
  BY <1>7, GoToOrFinishMoves DEF Claim, ClaimGeneration, Correlate, Moves
<1>8. CASE Succeed(d) \/ Fail(d) \/ FinishAgent(d)
  <2>1. dl[d].pc = "work"
    BY <1>8 DEF Succeed, Fail, FinishAgent
  <2>2. CASE Finish(d)
    BY <2>1, <2>2, FinishMoves DEF Moves
  <2>3. ASSUME NEW outcome, Become(d, [dl[d] EXCEPT !.pc = "reload", !.out = outcome])
        PROVE  MovesOn(d)
    <3>1. dl'[d] = [dl[d] EXCEPT !.pc = "reload", !.out = outcome]
      BY <1>1, <2>3 DEF Become
    <3>2. dl'[d].pc = "reload" /\ dl'[d].step = dl[d].step
      BY <1>1, <3>1 DEF DeliveryRec
    <3> QED BY <2>1, <3>2 DEF MovesOn, Moves
  <2> QED BY <1>8, <2>2, <2>3 DEF Succeed, Fail, FinishAgent, Report
<1>9. CASE Reload(d)
  <2>1. dl[d].pc = "reload"
    BY <1>9 DEF Reload
  <2>2. CASE Finish(d)
    BY <2>1, <2>2, FinishMoves DEF Moves
  <2>3. CASE GoTo(d, "watchdog") \/ GoTo(d, "failRun")
    BY <2>1, <2>3, GoToMoves DEF Moves
  <2>4. ASSUME NEW hold, Become(d, [dl[d] EXCEPT !.pc = "plan", !.hold = hold])
        PROVE  MovesOn(d)
    <3>1. dl'[d] = [dl[d] EXCEPT !.pc = "plan", !.hold = hold]
      BY <1>1, <2>4 DEF Become
    <3>2. dl'[d].pc = "plan" /\ dl'[d].step = dl[d].step
      BY <1>1, <3>1 DEF DeliveryRec
    <3> QED BY <2>1, <3>2 DEF MovesOn, Moves
  <2> QED BY <1>9, <2>2, <2>3, <2>4 DEF Reload
<1>10. CASE Plan(d)
  <2> DEFINE a == MaxAttempt(NextNode(d)) + 1
             v == StepsOf(NextNode(d)) # {}
  <2>1. dl[d].pc = "plan" /\ dl'[d] = [dl[d] EXCEPT !.pc = "advance", !.attempt = a, !.revisit = v]
    BY <1>1, <1>10 DEF Plan, Become
  <2> HIDE DEF a, v
  <2>2. dl'[d].pc = "advance" /\ dl'[d].step = dl[d].step
    BY <1>1, <2>1 DEF DeliveryRec
  <2> QED BY <2>1, <2>2 DEF MovesOn, Moves
<1>11. CASE Advance(d)
  <2>1. dl[d].pc = "advance"
    BY <1>11 DEF Advance, AdvanceWhen
  <2>2. CASE Finish(d)
    BY <2>1, <2>2, FinishMoves DEF Moves
  <2>3. CASE Become(d, [dl[d] EXCEPT !.pc = "dispatch", !.next = rows + 1])
    <3>1. dl'[d] = [dl[d] EXCEPT !.pc = "dispatch", !.next = rows + 1]
      BY <1>1, <2>3 DEF Become
    <3>2. dl'[d].pc = "dispatch" /\ dl'[d].step = dl[d].step
      BY <1>1, <3>1 DEF DeliveryRec
    <3> QED BY <2>1, <3>2 DEF MovesOn, Moves
  <2> QED BY <1>11, <2>2, <2>3 DEF Advance, AdvanceWhen
<1>12. CASE Dispatch(d)
  <2>1. dl[d].pc = "dispatch"
    BY <1>12 DEF Dispatch
  <2>2. CASE GoTo(d, "failRun")
    BY <2>1, <2>2, GoToMoves DEF Moves
  <2>3. CASE TakeSlot /\ dl' = [dl EXCEPT ![d] = Ended(d), ![nDl + 1] = At("load", dl[d].next, nDl + 1)]
    <3>1. nDl \in Nat /\ (d > nDl => dl[d].pc = "idle") /\ d \in Nat
      BY <2>3, StoreBounds DEF DeliveriesOK, Delivery
    <3>2. d # nDl + 1
      BY <2>1, <3>1
    <3>3. dl'[d] = Ended(d)
      BY <1>1, <2>3, <3>2
    <3>4. dl'[d].pc = "done" /\ dl'[d].step = dl[d].step
      BY <3>3 DEF Ended, At
    <3> QED BY <2>1, <3>4 DEF MovesOn, Moves
  <2> QED BY <1>12, <2>2, <2>3 DEF Dispatch
<1> QED BY <1>2, <1>3, <1>4, <1>5, <1>6, <1>7, <1>8, <1>9, <1>10, <1>11, <1>12 DEF Step

LEMMA NextFits == Inv /\ Inv' /\ FitsOK /\ [Next]_vars => FitsOK'
<1> SUFFICES ASSUME Inv, Inv', FitsOK, [Next]_vars, NEW d \in Delivery PROVE Fits(d)'
  BY DEF FitsOK
<1>1. Fits(d) /\ Extends /\ DeliveryStep(d)
  BY NextTable, TableExtends, NextDeliveries DEF FitsOK
<1>2. CASE dl'[d] = dl[d]
  BY <1>1, <1>2, IdleFits
<1>3. CASE dl'[d].pc \in {"load", "done", "failRun"}
  BY <1>3, CalmFits
<1>4. CASE Step(d) \/ Throw(d)
  BY <1>1, <1>4, StepFits
<1> QED BY <1>1, <1>2, <1>3, <1>4 DEF DeliveryStep

LEMMA InitFits == Init => FitsOK
BY DEF Init, ChainInit, NotStarted, At, FitsOK, Fits, CountsFit, ClaimFits, NodeFits,
       Loaded, Begun, Reported

\* What a delivery holds in memory is still right wherever it is used: the
\* counters it will write, the claim it reports under, the visits of the node
\* it will advance to.
THEOREM DeliveriesFit == Spec => []FitsOK
<1>1. Inv /\ Inv' /\ FitsOK /\ [Next]_vars => FitsOK'
  BY NextFits
<1> QED BY <1>1, InitFits, InvHolds, PTL DEF Spec

-----------------------------------------------------------------------------
(* Execution of steps                                                      *)

\* The verdict on an agent step stands: only the claim's owner reports on a
\* running agent step, a throw spares a finished one, and the executors that
\* name no expected status never run on one.
THEOREM VerdictsStand == Spec => VerdictStands
<1> DEFINE Kept == \A s \in StepRows :
             /\ Kind[stepRun[s].node] = "agent_step"
             /\ stepRun[s].status \in {"succeeded", "failed"}
             => stepRun'[s].status \in {stepRun[s].status, "skipped"}
<1>1. Inv /\ FitsOK /\ [Next]_vars => [Kept]_vars
  <2> SUFFICES ASSUME Inv, FitsOK, [Next]_vars PROVE Kept
    OBVIOUS
  <2> SUFFICES ASSUME NEW s \in StepRows, Kind[stepRun[s].node] = "agent_step",
                      stepRun[s].status \in {"succeeded", "failed"}
               PROVE  stepRun'[s].status \in {stepRun[s].status, "skipped"}
    OBVIOUS
  <2>1. /\ StoreOK /\ DeliveriesOK /\ TableStep /\ s \in StepId /\ s \in 1..rows
    BY NextTable, StoreBounds DEF Inv, StoreOK, StoreTypeOK, StepId, StepRows
  <2>2. CASE RowsKept
    <3>1. ASSUME NEW d \in Delivery, dl[d].step = s, Permits(d, stepRun'[s].status)
          PROVE  stepRun'[s].status = "skipped"
      <4>1. KindOf(d) = "agent_step" /\ NodeFor(d) = stepRun[s].node
        BY <3>1 DEF KindOf, NodeOf, NodeFor
      <4>2. dl[d].pc # "endStep"
        BY <4>1 DEF FitsOK, Fits, NodeFits
      <4> QED BY <3>1, <4>1, <4>2 DEF Permits
    <3> QED BY <2>1, <2>2, <3>1 DEF RowsKept
  <2>3. ASSUME NEW d \in Delivery, ClaimGeneration(d) \/ Correlate(d)
        PROVE  stepRun'[s].status = stepRun[s].status
    <3>1. ClaimsOnly(dl[d].step)
      BY <2>1, <2>3, ClaimEffect
    <3> QED BY <2>1, <3>1 DEF ClaimsOnly
  <2>4. ASSUME NEW node, NEW attempt, NEW via, InsertStep(cur, node, attempt, via)
        PROVE  stepRun'[s].status = stepRun[s].status
    BY <2>1, <2>4, InsertEffect
  <2> QED BY <2>1, <2>2, <2>3, <2>4
          DEF TableStep, AdvanceWins, WatchdogRetries, OperatorRetries, TriesAgain
<1> QED BY <1>1, InvHolds, DeliveriesFit, PTL DEF Spec, VerdictStands

\* An attempt that no delivery has claimed has not been begun, and neither has
\* one whose claimant still has to repair the workflow correlation.
ExecutionOK ==
  \A s \in 1..rows :
    /\ hist[s].execs <= 1
    /\ stepRun[s].gen = 0 => hist[s].execs = 0
    /\ \A d \in Delivery :
         dl[d].pc = "correlate" /\ dl[d].step = s /\ stepRun[s].gen = d => hist[s].execs = 0

\* A delivery comes to correlate only by claiming.
LEMMA ComesToCorrelate ==
  ASSUME DeliveriesOK, NEW e \in Delivery, DeliveryStep(e), dl'[e].pc = "correlate"
  PROVE  dl'[e] = dl[e] \/ ClaimGeneration(e)
<1>1. CASE Step(e) \/ Throw(e)
  <2>1. dl[e].pc = "generation"
    BY <1>1, StepMoves DEF MovesOn, Moves
  <2> QED BY <1>1, <2>1
          DEF Step, Load, Deny, SkipStep, Begin, Trip, Enter, LocalDuplicate, Claim, Correlate,
              Succeed, Fail, FinishAgent, CompleteRun, EndStep, ThrowStep, FailRun, Reload, Plan,
              Advance, AdvanceWhen, Dispatch, Throw
<1> QED BY <1>1 DEF DeliveryStep

LEMMA NextExecution == Inv /\ ExecutionOK /\ [Next]_vars => ExecutionOK'
<1> SUFFICES ASSUME Inv, ExecutionOK, [Next]_vars PROVE ExecutionOK'
  OBVIOUS
<1>1. StoreOK /\ DeliveriesOK /\ TableStep /\ \A e \in Delivery : DeliveryStep(e)
  BY NextTable, NextDeliveries DEF Inv
<1>2. /\ rows \in Nat /\ (\A s \in 1..rows : s \in StepId)
      /\ stepRun \in [StepId -> StepRow] /\ hist \in [StepId -> HistRow]
  BY <1>1, StoreBounds DEF StoreOK, StoreTypeOK, StepId
<1>3. ASSUME UNCHANGED rows,
             \A s \in 1..rows : stepRun'[s].gen = stepRun[s].gen /\ hist'[s].execs = hist[s].execs,
             \A e \in Delivery : dl'[e].pc = "correlate" => dl'[e] = dl[e]
      PROVE  ExecutionOK'
  BY <1>3 DEF ExecutionOK
<1>4. ASSUME NEW d \in Delivery, ClaimGeneration(d) PROVE ExecutionOK'
  <2> DEFINE t == dl[d].step
             won == CanUpdateStep(t, {"running"}) /\ stepRun[t].gen = 0
             correlated == dl[d].wfSeen = dl[d].wf
  <2>1. dl[d].pc = "generation" /\ rows' = rows
    BY <1>4 DEF ClaimGeneration
  <2>2. t \in 1..rows /\ t \in StepId /\ stepRun[t] \in StepRow /\ hist[t] \in HistRow
    BY <1>1, <1>2, <2>1, Located
  <2>3. \A e \in Delivery : e # d => ~ClaimGeneration(e) \/ dl'[e] = dl[e]
    <3>1. \E r : Become(d, r)
      BY <1>4 DEF ClaimGeneration, GoToOrFinish, GoTo, Finish
    <3> QED BY <1>1, <3>1, OnlyOne
  <2>4. \A e \in Delivery : e # d /\ dl'[e].pc = "correlate" => dl'[e] = dl[e]
    BY <1>1, <2>3, ComesToCorrelate
  <2>5. CASE ~won
    <3>1. stepRun' = stepRun /\ hist' = hist /\ Finish(d)
      BY <1>4, <2>5 DEF ClaimGeneration, GoToOrFinish
    <3>2. dl'[d].pc = "done"
      BY <1>1, <3>1, FinishFields
    <3> QED BY <1>3, <2>1, <2>4, <3>1, <3>2
  <2>6. CASE won
    <3>1. /\ stepRun' = [stepRun EXCEPT ![t].gen = d]
          /\ IF correlated THEN BeginWork(d) ELSE hist' = hist
          /\ GoTo(d, IF correlated THEN "work" ELSE "correlate")
      BY <1>4, <2>6 DEF ClaimGeneration, GoToOrFinish
    <3>2. stepRun'[t] = [stepRun[t] EXCEPT !.gen = d] /\ \A s \in 1..rows : s # t => stepRun'[s] = stepRun[s]
      BY <1>2, <2>2, <3>1
    <3>3. stepRun'[t].gen = d /\ d # 0 /\ d \in Nat
      BY <2>2, <3>2 DEF StepRow, Delivery
    <3>4. hist[t].execs = 0 /\ stepRun[t].gen = 0
      BY <2>2, <2>6 DEF ExecutionOK
    <3>5. hist'[t].execs = (IF correlated THEN 1 ELSE 0) /\ \A s \in 1..rows : s # t => hist'[s] = hist[s]
      <4>1. CASE ~correlated
        BY <3>1, <3>4, <4>1
      <4>2. CASE correlated
        <5>1. hist'[t] = [hist[t] EXCEPT !.execs = @ + 1] /\ \A s \in 1..rows : s # t => hist'[s] = hist[s]
          BY <1>2, <2>2, <3>1, <4>2 DEF BeginWork
        <5>2. hist'[t].execs = hist[t].execs + 1
          BY <2>2, <5>1 DEF HistRow
        <5> QED BY <3>4, <4>2, <5>1, <5>2
      <4> QED BY <4>1, <4>2
    <3>6. dl'[d].pc = (IF correlated THEN "work" ELSE "correlate") /\ dl'[d].step = t
      BY <1>1, <3>1, GoToFields
    <3>7. SUFFICES ASSUME NEW s \in 1..rows
                   PROVE  /\ hist'[s].execs <= 1
                          /\ stepRun'[s].gen = 0 => hist'[s].execs = 0
                          /\ \A e \in Delivery :
                               dl'[e].pc = "correlate" /\ dl'[e].step = s /\ stepRun'[s].gen = e
                                 => hist'[s].execs = 0
      BY <2>1 DEF ExecutionOK
    <3>8. CASE s # t
      BY <2>4, <3>2, <3>5, <3>6, <3>8 DEF ExecutionOK
    <3>9. CASE s = t
      BY <3>3, <3>5, <3>6, <3>9
    <3> QED BY <3>8, <3>9
  <2> QED BY <2>5, <2>6
<1>5. ASSUME NEW d \in Delivery, Correlate(d) PROVE ExecutionOK'
  <2> DEFINE t == dl[d].step
             won == CanUpdateStep(t, {"running"}) /\ stepRun[t].gen = d
  <2>1. dl[d].pc = "correlate" /\ rows' = rows
    BY <1>5 DEF Correlate
  <2>2. t \in 1..rows /\ t \in StepId /\ stepRun[t] \in StepRow /\ hist[t] \in HistRow
    BY <1>1, <1>2, <2>1, Located
  <2>3. dl'[d].pc \in {"work", "done"} /\ \A e \in Delivery : e # d => dl'[e] = dl[e]
    <3>1. \E r : Become(d, r)
      BY <1>5 DEF Correlate, GoToOrFinish, GoTo, Finish
    <3>2. dl'[d].pc \in {"work", "done"}
      BY <1>1, <1>5, GoToOrFinishFields, GoToFields DEF Correlate
    <3> QED BY <1>1, <3>1, <3>2, OnlyOne
  <2>4. CASE ~won
    <3>1. stepRun' = stepRun /\ hist' = hist
      BY <1>5, <2>4 DEF Correlate
    <3> QED BY <1>3, <2>1, <2>3, <3>1
  <2>5. CASE won
    <3>1. stepRun' = [stepRun EXCEPT ![t].wf = dl[d].wf] /\ BeginWork(d)
      BY <1>5, <2>5 DEF Correlate
    <3>2. stepRun'[t] = [stepRun[t] EXCEPT !.wf = dl[d].wf] /\ \A s \in 1..rows : s # t => stepRun'[s] = stepRun[s]
      BY <1>2, <2>2, <3>1
    <3>3. stepRun'[t].gen = d /\ d # 0
      BY <2>2, <2>5, <3>2 DEF StepRow, Delivery
    <3>4. hist'[t] = [hist[t] EXCEPT !.execs = @ + 1] /\ \A s \in 1..rows : s # t => hist'[s] = hist[s]
      BY <1>2, <2>2, <3>1 DEF BeginWork
    <3>5. hist[t].execs = 0
      BY <2>1, <2>2, <2>5 DEF ExecutionOK
    <3>6. hist'[t].execs = 1
      BY <2>2, <3>4, <3>5 DEF HistRow
    <3>7. SUFFICES ASSUME NEW s \in 1..rows
                   PROVE  /\ hist'[s].execs <= 1
                          /\ stepRun'[s].gen = 0 => hist'[s].execs = 0
                          /\ \A e \in Delivery :
                               dl'[e].pc = "correlate" /\ dl'[e].step = s /\ stepRun'[s].gen = e
                                 => hist'[s].execs = 0
      BY <2>1 DEF ExecutionOK
    <3>8. CASE s # t
      BY <2>3, <3>2, <3>4, <3>8 DEF ExecutionOK
    <3>9. CASE s = t
      BY <2>3, <3>3, <3>6, <3>9
    <3> QED BY <3>8, <3>9
  <2> QED BY <2>4, <2>5
<1>6. CASE \A d \in Delivery : ~ClaimGeneration(d) /\ ~Correlate(d)
  <2>1. \A e \in Delivery : dl'[e].pc = "correlate" => dl'[e] = dl[e]
    BY <1>1, <1>6, ComesToCorrelate
  <2>2. CASE RowsKept
    BY <1>2, <1>3, <2>1, <2>2 DEF RowsKept
  <2>3. ASSUME NEW node, NEW attempt, NEW via, InsertStep(cur, node, attempt, via) PROVE ExecutionOK'
    <3>1. /\ \A s \in 1..rows : stepRun'[s] = stepRun[s] /\ hist'[s] = hist[s]
          /\ stepRun'[rows + 1].gen = 0 /\ hist'[rows + 1].execs = 0
          /\ \A s \in 1..rows' : s \in 1..rows \/ s = rows + 1
      BY <1>1, <2>3, InsertEffect
    <3> QED BY <2>1, <3>1 DEF ExecutionOK
  <2> QED BY <1>1, <1>6, <2>2, <2>3
          DEF TableStep, AdvanceWins, WatchdogRetries, OperatorRetries, TriesAgain
<1> QED BY <1>4, <1>5, <1>6

LEMMA InitExecution == Init => ExecutionOK
<1> SUFFICES ASSUME Init PROVE ExecutionOK
  OBVIOUS
<1>1. \A s \in 1..rows : s \in StepId
  BY StoreBounds DEF Init, StoreInit, StepId
<1>2. \A s \in StepId : hist[s] = FreshHist("trigger", 0, "queued")
  BY DEF Init, StoreInit
<1>3. \A s \in 1..rows : hist[s].execs = 0
  BY <1>1, <1>2 DEF FreshHist
<1> QED BY <1>3 DEF ExecutionOK

\* The external side effects of an attempt begin at most once, whatever is
\* redelivered, restarted or dispatched twice: execution_claim_generation.
THEOREM AttemptsRunOnce == Spec => []ExecutesOnce
<1>1. ExecutionOK => ExecutesOnce
  BY DEF ExecutionOK, ExecutesOnce, StepRows
<1>2. Inv /\ ExecutionOK /\ [Next]_vars => ExecutionOK'
  BY NextExecution
<1> QED BY <1>1, <1>2, InitExecution, InvHolds, PTL DEF Spec

-----------------------------------------------------------------------------
(* Runs that have ended                                                    *)

LEMMA FinalStays ==
  ASSUME [Next]_vars, status \in Final
  PROVE  status' = status
<1>1. CASE UNCHANGED vars
  BY <1>1 DEF vars, storeVars, runVars
<1>2. CASE Next
  BY <1>2, DeliverySpares, WatchdogSpares, OthersSpare DEF Next
<1> QED BY <1>1, <1>2

\* The pointer reached the row after the run had been cancelled or completed.
Late(s) == hist[s].under \in Final

\* A late row is queued for good: the run keeps its final status, and whoever
\* is started for the row stops at its load.
LateOK ==
  /\ \A s \in 1..rows : Late(s) => status = hist[s].under /\ stepRun[s].status = "queued"
  /\ \A d \in Delivery : Present(d) /\ Late(dl[d].step) => dl[d].pc \in {"load", "deny"}

LEMMA LateStops ==
  ASSUME Inv, NEW d \in Delivery, Step(d) \/ Throw(d), dl[d].pc \in {"load", "deny"}, status \in Final
  PROVE  dl'[d].pc \in {"deny", "done"}
<1>1. DeliveriesOK
  BY DEF Inv
<1>2. CASE Load(d)
  BY <1>1, <1>2, GoToFields, FinishFields DEF Load, Unfinished, Final
<1>3. CASE Deny(d)
  BY <1>1, <1>3, FinishFields DEF Deny, GoToOrFinish, CanTransition, Unfinished, Final
<1> QED BY <1>2, <1>3
        DEF Step, SkipStep, Begin, Trip, Enter, LocalDuplicate, Claim, ClaimGeneration, Correlate,
            Succeed, Fail, FinishAgent, CompleteRun, EndStep, ThrowStep, FailRun, Reload, Plan,
            Advance, AdvanceWhen, Dispatch, Throw

LEMMA NextLate == Inv /\ LateOK /\ [Next]_vars => LateOK'
<1> SUFFICES ASSUME Inv, LateOK, [Next]_vars PROVE LateOK'
  OBVIOUS
<1>1. /\ StoreOK /\ DeliveriesOK /\ TableStep /\ Extends /\ \A e \in Delivery : DeliveryStep(e)
  BY NextTable, TableExtends, NextDeliveries DEF Inv
<1>2. rows \in Nat /\ \A s \in 1..rows : s \in StepId
  BY <1>1, StoreBounds DEF StoreOK, StoreTypeOK, StepId
<1>3. \A s \in 1..rows : (Late(s)' <=> Late(s)) /\ hist'[s].under = hist[s].under
  BY <1>1 DEF Extends, Late
<1>4. \A s \in 1..rows : Late(s) => status' = status /\ status' = hist'[s].under
  BY <1>3, FinalStays DEF LateOK, Late
<1>5. \A s \in 1..rows : Late(s) => stepRun'[s].status = "queued"
  <2> SUFFICES ASSUME NEW s \in 1..rows, Late(s) PROVE stepRun'[s].status = "queued"
    OBVIOUS
  <2>1. status \in Final /\ stepRun[s].status = "queued" /\ s \in StepId
    BY <1>2 DEF LateOK, Late
  <2>2. CASE RowsKept
    <3>1. \A d \in Delivery : dl[d].step = s => ~Permits(d, stepRun'[s].status)
      BY DEF LateOK, Permits
    <3> QED BY <2>1, <2>2, <3>1 DEF RowsKept
  <2>3. ASSUME NEW d \in Delivery, ClaimGeneration(d) \/ Correlate(d)
        PROVE  stepRun'[s].status = "queued"
    <3>1. ClaimsOnly(dl[d].step)
      BY <1>1, <2>3, ClaimEffect
    <3> QED BY <2>1, <3>1 DEF ClaimsOnly
  <2>4. ASSUME NEW node, NEW attempt, NEW via, InsertStep(cur, node, attempt, via)
        PROVE  stepRun'[s].status = "queued"
    BY <1>1, <2>1, <2>4, InsertEffect
  <2> QED BY <1>1, <2>2, <2>3, <2>4
          DEF TableStep, AdvanceWins, WatchdogRetries, OperatorRetries, TriesAgain
<1>6. \A s \in 1..rows' : s \notin 1..rows /\ hist'[s].under \in Final =>
        status' = hist'[s].under /\ stepRun'[s].status = "queued"
  <2>1. CASE rows' = rows
    BY <2>1
  <2>2. ASSUME NEW node, NEW attempt, NEW via, InsertStep(cur, node, attempt, via)
        PROVE  /\ \A s \in 1..rows' : s \in 1..rows \/ s = rows + 1
               /\ hist'[rows + 1].under = status /\ stepRun'[rows + 1].status = "queued"
    BY <1>1, <2>2, InsertEffect
  <2>3. ASSUME NEW d \in Delivery, AdvanceWins(d)
        PROVE  /\ \A s \in 1..rows' : s \in 1..rows \/ s = rows + 1
               /\ status' = hist'[rows + 1].under /\ stepRun'[rows + 1].status = "queued"
    BY <2>2, <2>3 DEF AdvanceWins, runVars
  <2>4. ASSUME NEW via, TriesAgain(via)
        PROVE  /\ \A s \in 1..rows' : s \in 1..rows \/ s = rows + 1
               /\ hist'[rows + 1].under \notin Final
    BY <2>2, <2>4 DEF TriesAgain, Final
  <2>5. ASSUME NEW d \in Delivery, ClaimGeneration(d) \/ Correlate(d) PROVE rows' = rows
    BY <2>5 DEF ClaimGeneration, Correlate
  <2> QED BY <1>1, <2>1, <2>3, <2>4, <2>5
          DEF TableStep, RowsKept, WatchdogRetries, OperatorRetries
<1>7. \A s \in 1..rows' : Late(s)' => status' = hist'[s].under /\ stepRun'[s].status = "queued"
  BY <1>3, <1>4, <1>5, <1>6 DEF Late, Final
<1>8. ASSUME NEW e \in Delivery, Present(e)', Late(dl[e].step)'
      PROVE  dl'[e].pc \in {"load", "deny"}
  <2>1. CASE dl'[e].pc \in {"load", "done"}
    BY <1>8, <2>1 DEF Present
  <2>2. CASE /\ dl'[e].step = dl[e].step /\ Present(e)
             /\ dl'[e] = dl[e] \/ dl[e].pc = "watchdog" \/ Step(e) \/ Throw(e)
    <3>1. dl[e].step \in 1..rows
      BY <1>1, <2>2, Located DEF Present
    <3>2. Late(dl[e].step)
      BY <1>3, <1>8, <2>2, <3>1
    <3>3. dl[e].pc \in {"load", "deny"} /\ status \in Final
      BY <2>2, <3>1, <3>2 DEF LateOK, Late
    <3> QED BY <1>8, <2>2, <3>3, LateStops DEF Present
  <2>3. Step(e) \/ Throw(e) => Present(e) /\ dl'[e].step = dl[e].step
    BY <1>1, StepMoves DEF MovesOn, Moves, Present
  <2>4. dl[e].pc = "watchdog" => Present(e)
    BY DEF Present
  <2>5. dl'[e] = dl[e] => Present(e)
    BY <1>8 DEF Present
  <2> QED BY <1>1, <2>1, <2>2, <2>3, <2>4, <2>5 DEF DeliveryStep
<1>9. QED
  <2>1. \A e \in Delivery : (Present(e) /\ Late(dl[e].step))' => dl'[e].pc \in {"load", "deny"}
    BY <1>8
  <2> QED BY <1>7, <2>1 DEF LateOK

LEMMA InitLate == Init => LateOK
<1> SUFFICES ASSUME Init PROVE LateOK
  OBVIOUS
<1>1. 1 \in StepId /\ (\A s \in 1..rows : s \in StepId) /\ \A d \in Delivery : dl[d] = NotStarted
  BY StoreBounds DEF Init, StoreInit, ChainInit, StepId
<1>2. \A s \in StepId : hist[s] = FreshHist("trigger", 0, "queued")
  BY DEF Init, StoreInit
<1>3. \A s \in 1..rows : ~Late(s)
  BY <1>1, <1>2 DEF FreshHist, Late, Final
<1>4. \A d \in Delivery : ~Present(d)
  BY <1>1 DEF NotStarted, At, Present
<1> QED BY <1>3, <1>4 DEF LateOK

LEMMA LateHolds == Spec => []LateOK
<1>1. Inv /\ LateOK /\ [Next]_vars => LateOK'
  BY NextLate
<1> QED BY <1>1, InitLate, InvHolds, PTL DEF Spec

\* A step the pointer reached after the end is never executed: the advance
\* does not look at the run's status, but the load of the next delivery does.
THEOREM EndedRunsStay == Spec => []NothingRunsAfterEnd
<1>1. LateOK => NothingRunsAfterEnd
  BY DEF LateOK, Late, Final, NothingRunsAfterEnd, StepRows
<1> QED BY <1>1, LateHolds, PTL
=============================================================================
