-------------------------- MODULE LoopOutcomeProofs --------------------------
(***************************************************************************)
(* Proofs about what a run shows to the outside: that it implements        *)
(* RunLifecycle, that its counters are exact, that no queued step is       *)
(* orphaned, and what the watchdog may do.  They rest on the invariants    *)
(* of LoopRunProofs and LoopStepProofs.                                    *)
(***************************************************************************)
EXTENDS LoopStepProofs

-----------------------------------------------------------------------------
(* The lifecycle                                                           *)

StatusMoves(from, to) == status \in from /\ status' = to

\* What the update of any process may do to the status of the run.
StatusStep ==
  \/ status' = status
  \/ StatusMoves({"queued"}, "running")
  \/ StatusMoves({"queued", "running", "stalled"}, "paused")
  \/ StatusMoves({"paused"}, "running")
  \/ StatusMoves({"queued", "running"}, "stalled")
  \/ StatusMoves({"queued", "running"}, "completed")
  \/ StatusMoves({"queued", "running", "stalled", "paused"}, "failed")
  \/ StatusMoves({"queued", "running", "paused", "stalled"}, "cancelled")
  \/ StatusMoves({"failed", "stalled"}, "running")

LEMMA TransitionMoves ==
  ASSUME NEW to, NEW from, Transition(to, from)
  PROVE  status' = status \/ StatusMoves(from, to)
BY DEF Transition, CanTransition, SetStatus, StatusMoves, runVars

LEMMA FailMoves ==
  ASSUME NEW from, Transition("failed", from), from \subseteq {"queued", "running", "stalled", "paused"}
  PROVE  StatusStep
BY TransitionMoves DEF StatusMoves, StatusStep

LEMMA NextStatus == [Next]_vars => StatusStep
<1> SUFFICES ASSUME [Next]_vars PROVE StatusStep
  OBVIOUS
<1>1. CASE UNCHANGED status
  BY <1>1 DEF StatusStep
<1>2. ASSUME NEW d \in Delivery, Deliver(d) \/ Crash(d) \/ Disturb(d) PROVE StatusStep
  <2>1. CASE Deny(d) \/ Trip(d) \/ FailRun(d)
    BY <2>1, FailMoves DEF Deny, Trip, FailRun, Unfinished
  <2>2. CASE Begin(d)
    BY <2>2, TransitionMoves DEF Begin, StatusStep
  <2>3. CASE CompleteRun(d)
    BY <2>3, TransitionMoves DEF CompleteRun, StatusStep
  <2>4. CASE \/ SkipStep(d) \/ Claim(d) \/ ClaimGeneration(d) \/ Correlate(d) \/ Succeed(d)
             \/ Fail(d) \/ FinishAgent(d) \/ EndStep(d) \/ ThrowStep(d) \/ Advance(d)
    BY <1>1, <2>4 DEF SkipStep, Claim, ClaimGeneration, Correlate, Succeed, Fail, FinishAgent,
                      Report, EndStep, ThrowStep, Advance, AdvanceWhen, runVars
  <2>5. CASE \/ Load(d) \/ Enter(d) \/ LocalDuplicate(d) \/ Reload(d) \/ Plan(d) \/ Dispatch(d)
             \/ Restart(d) \/ Lose(d) \/ Redeliver(d) \/ Throw(d) \/ DispatchFails(d)
    BY <1>1, <2>5 DEF Load, Enter, LocalDuplicate, Reload, Plan, Dispatch, Restart, Lose, Redeliver,
                      Throw, DispatchFails, storeVars, runVars
  <2> QED BY <1>2, <2>1, <2>2, <2>3, <2>4, <2>5 DEF Deliver, Crash, Disturb, Step
<1>3. ASSUME NEW p \in Caller, Watch(p) \/ WatchFault(p) PROVE StatusStep
  <2>1. CASE RetryRefused(p) \/ ApplyPause(p)
    <3>1. Transition("paused", PauseFrom)
      BY <2>1 DEF RetryRefused, ApplyPause, PauseSystem
    <3> QED BY <3>1, TransitionMoves DEF PauseFrom, StatusMoves, StatusStep
  <2>2. CASE ApplyRetry(p)
    BY <2>2 DEF ApplyRetry, CanRetry, SetStatus, StatusMoves, StatusStep
  <2>3. CASE \/ Open(p) \/ Decide(p) \/ RetryDispatch(p) \/ Record(p)
             \/ RetryDispatchFails(p) \/ WatchdogThrows(p)
    BY <1>1, <2>3 DEF Open, Decide, RetryDispatch, Record, RetryDispatchFails, WatchdogThrows,
                      storeVars, runVars
  <2> QED BY <1>3, <2>1, <2>2, <2>3 DEF Watch, WatchFault, Watchdog
<1>4. CASE Sweep \/ SweepStep \/ SweepFault
  <2>1. CASE Stall
    BY <2>1 DEF Stall, CanTransition, SetStatus, StatusMoves, StatusStep
  <2>2. CASE SweepRevoke
    BY <2>2, FailMoves DEF SweepRevoke
  <2>3. CASE SweepRead \/ SweepCrash
    BY <1>1, <2>3 DEF SweepRead, SweepCrash, storeVars, runVars
  <2> QED BY <1>4, <2>1, <2>2, <2>3 DEF Sweep, SweepStep, SweepFault
<1>5. CASE Pause \/ Cancel \/ Resume \/ Retry
  BY <1>5 DEF Pause, Cancel, Resume, Retry, CanTransition, SetStatus, StatusMoves, StatusStep
<1>6. CASE Request \/ RequestFault
  <2>1. PICK c \in calls : StartCall(c) \/ FailCall(c) \/ StartCallFails(c) \/ CallCrash(c)
    BY <1>6 DEF Request, RequestFault
  <2>2. CASE FailCall(c)
    BY <2>2, FailMoves DEF FailCall
  <2>3. CASE StartCall(c) \/ StartCallFails(c) \/ CallCrash(c)
    BY <1>1, <2>3 DEF StartCall, StartCallFails, CallCrash, storeVars, runVars
  <2> QED BY <2>1, <2>2, <2>3
<1>7. CASE ChangeSource \/ DeleteSource
  BY <1>1, <1>7 DEF ChangeSource, DeleteSource, SetStatus, StatusMoves, StatusStep, runVars
<1>8. CASE UNCHANGED vars
  BY <1>1, <1>8 DEF vars, storeVars, runVars
<1> QED BY <1>2, <1>3, <1>4, <1>5, <1>6, <1>7, <1>8 DEF Next

\* The pointer reached its row after the end.
Overtaken == hist[cur].under \in {"cancelled", "completed"}

LEMMA StepImplements == Inv /\ LateOK /\ [Next]_vars => [Abstract!Next]_<<status, rows, Overtaken>>
<1> SUFFICES ASSUME Inv, LateOK, [Next]_vars
             PROVE  Abstract!Next \/ UNCHANGED <<status, rows, Overtaken>>
  OBVIOUS
<1>1. StoreOK /\ DeliveriesOK /\ TableStep /\ StatusStep
  BY NextTable, NextStatus DEF Inv
<1>2. cur \in 1..rows /\ cur \in StepId
  BY <1>1, StoreBounds DEF StoreOK, StoreTypeOK, StepId
<1>3. Overtaken <=> Late(cur)
  BY DEF Overtaken, Late, Final
<1>4. ASSUME rows' = rows, cur' = cur, hist'[cur].under = hist[cur].under
      PROVE  Abstract!Next \/ UNCHANGED <<status, rows, Overtaken>>
  <2>1. Overtaken' = Overtaken
    BY <1>4 DEF Overtaken
  <2> QED BY <1>1, <1>4, <2>1
          DEF StatusStep, StatusMoves, Overtaken, Abstract!Next, Abstract!Begin, Abstract!PauseRun,
              Abstract!ResumeIt, Abstract!StallIt, Abstract!Complete, Abstract!FailIt,
              Abstract!CancelIt, Abstract!Reuse, Abstract!Move
<1>5. CASE RowsKept
  BY <1>4, <1>5 DEF RowsKept
<1>6. ASSUME NEW d \in Delivery, ClaimGeneration(d) \/ Correlate(d)
      PROVE  Abstract!Next \/ UNCHANGED <<status, rows, Overtaken>>
  <2>1. ClaimsOnly(dl[d].step)
    BY <1>1, <1>6, ClaimEffect
  <2> QED BY <1>2, <1>4, <2>1 DEF ClaimsOnly
<1>7. ASSUME NEW node, NEW attempt, NEW via, InsertStep(cur, node, attempt, via), ~Late(cur)
      PROVE  Abstract!Reach
  <2>1. rows' = rows + 1 /\ cur' = rows + 1 /\ hist'[rows + 1].under = status
    BY <1>1, <1>7, InsertEffect
  <2>2. Overtaken' = (status \in {"completed", "cancelled"})
    BY <2>1 DEF Overtaken
  <2> QED BY <1>3, <1>7, <2>1, <2>2 DEF Overtaken, Abstract!Reach, Abstract!Ended
<1>8. ASSUME NEW d \in Delivery, AdvanceWins(d) PROVE Abstract!Next
  <2>1. ~Late(cur)
    BY <1>2, <1>8 DEF AdvanceWins, LateOK, Present
  <2>2. Abstract!Reach /\ status' = status
    BY <1>7, <1>8, <2>1 DEF AdvanceWins, runVars
  <2> QED BY <2>2 DEF Abstract!Next, Abstract!Advance
<1>9. ASSUME NEW via, TriesAgain(via) PROVE Abstract!Next
  <2>1. ~Late(cur)
    BY <1>2, <1>9 DEF TriesAgain, LateOK, Late, Final
  <2>2. Abstract!Reach
    BY <1>7, <1>9, <2>1 DEF TriesAgain
  <2> QED BY <1>9, <2>2 DEF TriesAgain, Abstract!Next, Abstract!Reattempt
<1> QED BY <1>1, <1>5, <1>6, <1>8, <1>9 DEF TableStep, WatchdogRetries, OperatorRetries

LEMMA InitImplements == Init => Abstract!Init
<1> SUFFICES ASSUME Init PROVE Abstract!Init
  OBVIOUS
<1>1. status = "queued" /\ rows = 1 /\ cur = 1 /\ 1 \in StepId
  BY StoreBounds DEF Init, StoreInit, StepId
<1>2. hist[1] = FreshHist("trigger", 0, "queued")
  BY <1>1 DEF Init, StoreInit
<1>3. hist[cur].under = "queued"
  BY <1>1, <1>2 DEF FreshHist
<1> QED BY <1>1, <1>3 DEF Abstract!Init

\* Seen from outside, the whole system, with its deliveries, watchdog, sweep,
\* operators and faults, is the run lifecycle: no status change but the listed
\* ones, and at most one step reached after the end.
THEOREM RunImplementsLifecycle == Spec => ImplementsLifecycle
<1>1. Inv /\ LateOK /\ [Next]_vars => [Abstract!Next]_<<status, rows, Overtaken>>
  BY StepImplements
<1> QED BY <1>1, InitImplements, InvHolds, LateHolds, PTL DEF Spec, ImplementsLifecycle, Abstract!Spec, Overtaken

-----------------------------------------------------------------------------
(* Counters                                                                *)

\* The rows inserted by advances that came back to a node.
Revisits == {s \in Inserted("advance") : \E r \in 1..(s - 1) : stepRun[r].node = stepRun[s].node}

LEMMA RowsFinite ==
  ASSUME StoreOK, NEW S, S \subseteq StepRows
  PROVE  IsFiniteSet(S)
<1>1. IsFiniteSet(1..rows)
  BY FS_Interval, StoreBounds DEF StoreOK, StoreTypeOK, StepId
<1> QED BY <1>1, FS_Subset DEF StepRows

\* A new row joins the inserted ones, and the revisits if its node has rows.
LEMMA InsertCounts ==
  ASSUME StoreOK, NEW node, NEW attempt, NEW via, InsertStep(cur, node, attempt, via)
  PROVE  /\ via = "advance" =>
              /\ Inserted("advance")' = Inserted("advance") \cup {rows + 1}
              /\ Revisits' = IF StepsOf(node) # {} THEN Revisits \cup {rows + 1} ELSE Revisits
         /\ via # "advance" =>
              Inserted("advance")' = Inserted("advance") /\ Revisits' = Revisits
<1>1. /\ rows \in Nat /\ rows' = rows + 1
      /\ \A s \in 1..rows : stepRun'[s] = stepRun[s] /\ hist'[s] = hist[s]
      /\ stepRun'[rows + 1].node = node /\ hist'[rows + 1].via = via
      /\ \A s \in 1..rows' : s \in 1..rows \/ s = rows + 1
  BY InsertEffect
<1>2. (rows + 1) - 1 = rows /\ \A s \in 1..rows : \A r \in 1..(s - 1) : r \in 1..rows
  BY <1>1
<1>3. rows + 1 \in 1..rows' /\ rows + 1 \notin 1..rows /\ \A s \in 1..rows : s \in 1..rows'
  BY <1>1
<1>4. Inserted("advance")' = IF via = "advance" THEN Inserted("advance") \cup {rows + 1}
                             ELSE Inserted("advance")
  BY <1>1, <1>3 DEF Inserted, StepRows
<1>5. \A s \in 1..rows : s \in Revisits' <=> s \in Revisits
  BY <1>1, <1>2, <1>3 DEF Revisits, Inserted, StepRows
<1>6. rows + 1 \in Revisits' <=> via = "advance" /\ StepsOf(node) # {}
  <2>1. rows + 1 \in Revisits' <=> via = "advance" /\ \E r \in 1..rows : stepRun'[r].node = node
    BY <1>1, <1>2, <1>3 DEF Revisits, Inserted, StepRows
  <2> QED BY <1>1, <2>1 DEF StepsOf
<1>7. Revisits \subseteq 1..rows /\ Revisits' \subseteq 1..rows'
  BY DEF Revisits, Inserted, StepRows
<1> HIDE DEF Revisits
<1> QED BY <1>1, <1>3, <1>4, <1>5, <1>6, <1>7

LEMMA NextCounters == Inv /\ Inv' /\ FitsOK /\ CountersExact /\ [Next]_vars => CountersExact'
<1> SUFFICES ASSUME Inv, Inv', FitsOK, CountersExact, [Next]_vars PROVE CountersExact'
  OBVIOUS
<1>1. StoreOK /\ DeliveriesOK /\ TableStep /\ Extends
  BY NextTable, TableExtends DEF Inv
<1>2. stepCount = Cardinality(Inserted("advance")) /\ iterationCount = Cardinality(Revisits)
  BY DEF CountersExact, Revisits
<1>3. /\ IsFiniteSet(Inserted("advance")) /\ IsFiniteSet(Revisits)
      /\ rows + 1 \notin Inserted("advance") /\ rows + 1 \notin Revisits
  <2>1. Inserted("advance") \subseteq StepRows /\ Revisits \subseteq StepRows
    BY DEF Inserted, Revisits
  <2>2. rows + 1 \notin StepRows
    BY <1>1, StoreBounds DEF StoreOK, StoreTypeOK, StepId, StepRows
  <2> QED BY <1>1, <2>1, <2>2, RowsFinite
<1>4. SUFFICES /\ stepCount' = Cardinality(Inserted("advance")')
               /\ iterationCount' = Cardinality(Revisits')
  BY DEF CountersExact, Revisits
<1>5. CASE UNCHANGED <<cur, stepCount, iterationCount, rows>>
  <2>1. \A s \in 1..rows : stepRun'[s].node = stepRun[s].node /\ hist'[s].via = hist[s].via
    BY <1>1 DEF Extends
  <2>2. Inserted("advance")' = Inserted("advance")
    BY <1>5, <2>1 DEF Inserted, StepRows
  <2>3. \A s \in 1..rows : \A r \in 1..(s - 1) : r \in 1..rows
    BY <1>1, StoreBounds DEF StoreOK, StoreTypeOK, StepId
  <2>4. Revisits' = Revisits
    BY <1>5, <2>1, <2>2, <2>3 DEF Revisits, Inserted, StepRows
  <2> QED BY <1>2, <1>5, <2>2, <2>4
<1>6. ASSUME NEW d \in Delivery, AdvanceWins(d)
      PROVE  /\ stepCount' = Cardinality(Inserted("advance")')
             /\ iterationCount' = Cardinality(Revisits')
  <2> DEFINE node == NextNode(d)
  <2>1. /\ dl[d].steps = stepCount /\ dl[d].iters = iterationCount
        /\ dl[d].revisit = (StepsOf(node) # {})
    BY <1>6 DEF AdvanceWins, FitsOK, Fits, CountsFit, Loaded
  <2>2. /\ Inserted("advance")' = Inserted("advance") \cup {rows + 1}
        /\ Revisits' = IF StepsOf(node) # {} THEN Revisits \cup {rows + 1} ELSE Revisits
    BY <1>1, <1>6, InsertCounts DEF AdvanceWins
  <2>3. stepCount' = stepCount + 1 /\ iterationCount' = iterationCount + (IF StepsOf(node) # {} THEN 1 ELSE 0)
    BY <1>6, <2>1 DEF AdvanceWins
  <2>4. /\ Cardinality(Inserted("advance") \cup {rows + 1}) = Cardinality(Inserted("advance")) + 1
        /\ Cardinality(Revisits \cup {rows + 1}) = Cardinality(Revisits) + 1
    BY <1>3, FS_AddElement
  <2>5. stepCount' = Cardinality(Inserted("advance")')
    BY <1>2, <2>2, <2>3, <2>4
  <2>6. iterationCount \in Nat
    BY <1>1 DEF StoreOK, StoreTypeOK
  <2>7. CASE StepsOf(node) # {}
    BY <1>2, <2>2, <2>3, <2>4, <2>5, <2>7
  <2>8. CASE StepsOf(node) = {}
    BY <1>2, <2>2, <2>3, <2>5, <2>6, <2>8
  <2> QED BY <2>7, <2>8
<1>7. ASSUME NEW via, TriesAgain(via), via # "advance"
      PROVE  /\ stepCount' = Cardinality(Inserted("advance")')
             /\ iterationCount' = Cardinality(Revisits')
  BY <1>1, <1>2, <1>7, InsertCounts DEF TriesAgain
<1>8. RowsKept => UNCHANGED <<cur, stepCount, iterationCount, rows>>
  BY DEF RowsKept
<1>9. ASSUME NEW d \in Delivery, ClaimGeneration(d) \/ Correlate(d)
      PROVE  UNCHANGED <<cur, stepCount, iterationCount, rows>>
  BY <1>9 DEF ClaimGeneration, Correlate, countVars
<1> QED BY <1>1, <1>5, <1>6, <1>7, <1>8, <1>9 DEF TableStep, WatchdogRetries, OperatorRetries

LEMMA InitCounters == Init => CountersExact
<1> SUFFICES ASSUME Init PROVE CountersExact
  OBVIOUS
<1>1. rows = 1 /\ stepCount = 0 /\ iterationCount = 0 /\ 1 \in StepId
  BY StoreBounds DEF Init, StoreInit, StepId
<1>2. hist[1] = FreshHist("trigger", 0, "queued")
  BY <1>1 DEF Init, StoreInit
<1>3. \A s \in StepRows : s = 1
  BY <1>1 DEF StepRows
<1>4. Inserted("advance") = {}
  BY <1>2, <1>3 DEF Inserted, FreshHist
<1> QED BY <1>1, <1>4, FS_EmptySet DEF CountersExact

\* The counters the guardrails compare are exact, although every delivery
\* writes them from values it loaded before it executed: the one that wins the
\* advance from a step has loaded them when the pointer named that step.
THEOREM CountersAreExact == Spec => []CountersExact
<1>1. Inv /\ Inv' /\ FitsOK /\ CountersExact /\ [Next]_vars => CountersExact'
  BY NextCounters
<1> QED BY <1>1, InitCounters, InvHolds, DeliveriesFit, PTL DEF Spec

-----------------------------------------------------------------------------
(* Queued steps                                                            *)

\* A row left queued behind the pointer was left so by the watchdog, which
\* does not look at the status of the step it retries.
OrphanOK == \A s \in 1..rows : stepRun[s].status = "queued" => s = cur \/ hist[s + 1].via = "watchdog"

LEMMA NextOrphan == Inv /\ FitsOK /\ OrphanOK /\ [Next]_vars => OrphanOK'
<1> SUFFICES ASSUME Inv, FitsOK, OrphanOK, [Next]_vars, NEW s \in 1..rows', stepRun'[s].status = "queued"
             PROVE  s = cur' \/ hist'[s + 1].via = "watchdog"
  BY DEF OrphanOK
<1>1. StoreOK /\ DeliveriesOK /\ TableStep /\ Extends
  BY NextTable, TableExtends DEF Inv
<1>2. rows \in Nat /\ cur = rows /\ cur \in 1..rows
  BY <1>1, StoreBounds DEF StoreOK, StoreTypeOK, StepId
<1>3. \A r \in 1..rows : r # cur => r + 1 \in 1..rows
  BY <1>2
<1>4. ASSUME s \in 1..rows, s # cur PROVE hist'[s + 1].via = "watchdog"
  <2>1. stepRun[s].status = "queued"
    BY <1>1, <1>4 DEF Extends
  <2>2. hist[s + 1].via = "watchdog" /\ s + 1 \in 1..rows
    BY <1>3, <1>4, <2>1 DEF OrphanOK
  <2> QED BY <1>1, <2>2 DEF Extends
<1>5. CASE UNCHANGED <<cur, rows>>
  BY <1>4, <1>5
<1>6. ASSUME NEW node, NEW attempt, NEW via, InsertStep(cur, node, attempt, via),
             stepRun[cur].status # "queued" \/ via = "watchdog"
      PROVE  s = cur' \/ hist'[s + 1].via = "watchdog"
  <2>1. /\ cur' = rows + 1 /\ hist'[rows + 1].via = via
        /\ s \in 1..rows \/ s = rows + 1
    BY <1>1, <1>6, InsertEffect
  <2>2. CASE s = cur
    <3>1. stepRun[s].status = "queued"
      BY <1>1, <1>2, <2>2 DEF Extends
    <3> QED BY <1>2, <1>6, <2>1, <2>2, <3>1
  <2> QED BY <1>4, <2>1, <2>2
<1>7. ASSUME NEW d \in Delivery, AdvanceWins(d) PROVE stepRun[cur].status # "queued"
  BY <1>7 DEF AdvanceWins, FitsOK, Fits, ClaimFits, Begun
<1> QED BY <1>1, <1>5, <1>6, <1>7 DEF TableStep, RowsKept, ClaimGeneration, Correlate, countVars,
           AdvanceWins, WatchdogRetries, OperatorRetries, TriesAgain

LEMMA InitOrphan == Init => OrphanOK
<1> SUFFICES ASSUME Init PROVE OrphanOK
  OBVIOUS
<1>1. rows = 1 /\ cur = 1
  BY DEF Init, StoreInit
<1> QED BY <1>1 DEF OrphanOK

\* A queued step is the current one, or the watchdog retried it unexecuted.
THEOREM OrphansAreTheWatchdogs == Spec => []OrphanOK
<1>1. Inv /\ FitsOK /\ OrphanOK /\ [Next]_vars => OrphanOK'
  BY NextOrphan
<1> QED BY <1>1, InitOrphan, InvHolds, DeliveriesFit, PTL DEF Spec

\* Nobody has invoked the watchdog, and none of its rows is in the table.
NoWatchdog ==
  /\ \A p \in Caller : ~Calls(p) /\ wd[p].pc = "off"
  /\ \A s \in 1..rows : hist[s].via # "watchdog"

LEMMA NobodyCalls ==
  ASSUME ~WatchdogEnabled, Inv, [Next]_vars, NEW p \in Caller, ~Calls(p)
  PROVE  ~Calls(p)'
<1>1. CASE p = Sweeper
  <2>1. CASE sweep' = sweep \/ sweep' = [pc |-> "idle", step |-> 0]
    BY <1>1, <2>1 DEF Calls
  <2>2. CASE SweepRead
    BY <1>1, <2>2 DEF SweepRead, Calls
  <2>3. CASE Stall
    BY <1>1, <2>3 DEF Stall, Calls
  <2> QED BY <2>1, <2>2, <2>3
          DEF Next, vars, watchdogVars, Deliver, Crash, Disturb, Watch, WatchFault, Watchdog, Open, Decide,
              ApplyRetry, RetryRefused, ApplyPause, PauseSystem, Continue, Return, RetryDispatch, Record,
              RetryDispatchFails, WatchdogThrows, Sweep, SweepStep, SweepFault, SweepRevoke, SweepCrash,
              Pause, Cancel, Resume, Retry, Request, RequestFault, StartCall, FailCall, StartCallFails,
              CallCrash, ChangeSource, DeleteSource
<1>2. CASE p # Sweeper
  <2>1. p \in Delivery /\ DeliveryStep(p) /\ DeliveriesOK /\ dl[p].pc # "watchdog"
    BY <1>2, CallerType, NextDeliveries DEF Inv, Calls
  <2>2. ASSUME Step(p) \/ Throw(p), dl'[p].pc = "watchdog" PROVE FALSE
    <3>1. dl[p].pc = "reload"
      BY <2>1, <2>2, StepMoves DEF MovesOn, Moves
    <3>2. Reload(p)
      BY <2>2, <3>1
         DEF Step, Throw, Load, Deny, SkipStep, Begin, Trip, Enter, LocalDuplicate, Claim,
             ClaimGeneration, Correlate, Succeed, Fail, FinishAgent, CompleteRun, EndStep, ThrowStep,
             FailRun, Plan, Advance, AdvanceWhen, Dispatch
    <3>3. CASE Finish(p)
      BY <2>1, <2>2, <3>3, FinishFields
    <3>4. CASE GoTo(p, "failRun")
      BY <2>1, <2>2, <3>4, GoToFields
    <3>5. CASE Become(p, [dl[p] EXCEPT !.pc = "plan", !.hold = (status \in {"paused", "stalled"})])
      <4> DEFINE held == status \in {"paused", "stalled"}
      <4>1. dl'[p] = [dl[p] EXCEPT !.pc = "plan", !.hold = held] /\ dl[p] \in DeliveryRec
        BY <2>1, <3>5 DEF Become, DeliveriesOK
      <4> HIDE DEF held
      <4> QED BY <2>2, <4>1 DEF DeliveryRec
    <3> QED BY <3>2, <3>3, <3>4, <3>5 DEF Reload
  <2> QED BY <1>2, <2>1, <2>2 DEF DeliveryStep, Calls
<1> QED BY <1>1, <1>2

LEMMA NextNoWatchdog == ~WatchdogEnabled /\ Inv /\ NoWatchdog /\ [Next]_vars => NoWatchdog'
<1> SUFFICES ASSUME ~WatchdogEnabled, Inv, NoWatchdog, [Next]_vars PROVE NoWatchdog'
  OBVIOUS
<1>1. StoreOK /\ WatchdogOK /\ TableStep /\ Extends
  BY NextTable, TableExtends DEF Inv
<1>2. \A p \in Caller : ~Calls(p)'
  BY NobodyCalls DEF NoWatchdog
<1>3. ASSUME NEW p \in Caller, Watch(p) \/ WatchFault(p) PROVE FALSE
  BY <1>3 DEF NoWatchdog, Watch, WatchFault, Watchdog, Open, Decide, ApplyRetry, RetryRefused,
              ApplyPause, RetryDispatch, Record, RetryDispatchFails, WatchdogThrows
<1>4. \A p \in Caller : wd'[p].pc = "off"
  <2>1. wd \in [Caller -> WatchdogRec] /\ \A p \in Caller : wd[p].pc = "off"
    BY <1>1 DEF NoWatchdog, WatchdogOK, WatchdogTypeOK
  <2>2. CASE wd' = wd
    BY <2>1, <2>2
  <2>3. CASE \E q : wd' = [wd EXCEPT ![q] = Off]
    BY <2>1, <2>3 DEF Off
  <2> QED BY <1>3, <2>2, <2>3
          DEF Next, vars, watchdogVars, Deliver, Crash, Disturb, Sweep, SweepStep, SweepFault, Stall,
              SweepRead, SweepRevoke, SweepCrash, Pause, Cancel, Resume, Retry, Request, RequestFault,
              StartCall, FailCall, StartCallFails, CallCrash, ChangeSource, DeleteSource
<1>5. \A s \in 1..rows : hist'[s].via # "watchdog"
  BY <1>1 DEF Extends, NoWatchdog
<1>6. \A s \in 1..rows' : s \in 1..rows \/ hist'[s].via # "watchdog"
  <2>1. ASSUME NEW node, NEW attempt, NEW via, via # "watchdog", InsertStep(cur, node, attempt, via)
        PROVE  \A s \in 1..rows' : s \in 1..rows \/ hist'[s].via # "watchdog"
    BY <1>1, <2>1, InsertEffect
  <2>2. \A p \in Caller : ~WatchdogRetries(p)
    BY DEF WatchdogRetries, ApplyRetry, NoWatchdog
  <2> QED BY <1>1, <2>1, <2>2 DEF TableStep, RowsKept, ClaimGeneration, Correlate, AdvanceWins,
             OperatorRetries, TriesAgain
<1> QED BY <1>2, <1>4, <1>5, <1>6 DEF NoWatchdog

LEMMA InitNoWatchdog == Init => NoWatchdog
<1> SUFFICES ASSUME Init PROVE NoWatchdog
  OBVIOUS
<1>1. rows = 1 /\ 1 \in StepId /\ hist \in [StepId -> {FreshHist("trigger", 0, "queued")}]
  BY StoreBounds DEF Init, StoreInit, StepId
<1>2. \A s \in 1..rows : hist[s].via = "trigger"
  BY <1>1 DEF FreshHist
<1>3. \A p \in Caller : wd[p].pc = "off"
  BY DEF Init, WatchdogInit, Off
<1>4. sweep.pc = "idle" /\ \A d \in Delivery : dl[d].pc = "idle"
  BY DEF Init, WatchdogInit, ChainInit, NotStarted, At
<1> QED BY <1>2, <1>3, <1>4, CallerType DEF NoWatchdog, Calls

\* Without a watchdog the only queued step is the current one: advances leave a
\* step only once it has begun, and retryCurrentStep reuses a queued one.
THEOREM NoOrphans == ~WatchdogEnabled => (Spec => []NoOrphanQueued)
<1> SUFFICES ASSUME ~WatchdogEnabled PROVE Spec => []NoOrphanQueued
  OBVIOUS
<1>1. Inv /\ NoWatchdog /\ [Next]_vars => NoWatchdog'
  BY NextNoWatchdog
<1>2. Inv /\ NoWatchdog /\ OrphanOK => NoOrphanQueued
  <2> SUFFICES ASSUME Inv, NoWatchdog, OrphanOK PROVE NoOrphanQueued
    OBVIOUS
  <2>1. cur = rows /\ rows \in Nat
    BY StoreBounds DEF Inv, StoreOK, StoreTypeOK, StepId
  <2>2. \A s \in 1..rows : s # cur => s + 1 \in 1..rows
    BY <2>1
  <2> QED BY <2>2 DEF NoWatchdog, OrphanOK, NoOrphanQueued, StepRows
<1> QED BY <1>1, <1>2, InitNoWatchdog, InvHolds, OrphansAreTheWatchdogs, PTL DEF Spec

-----------------------------------------------------------------------------
(* Invocations of the watchdog                                             *)

\* Where the invocation of p goes from one place to the next; the answer that
\* is applied and recorded is only ever replaced by a pause.
InvocationMoves(p) ==
  /\ wd[p].pc # "off" /\ wd'[p].step = wd[p].step
  /\ \/ wd[p].pc = "decide" /\ wd'[p].pc = "apply" /\ (p = Sweeper => wd'[p].decision # "skip")
     \/ wd[p].pc = "apply" /\ wd'[p].pc = "record" /\ wd'[p].decision # "retry"
        /\ wd'[p].decision \in {wd[p].decision, "pause"}
     \/ wd[p].pc = "dispatch" /\ wd'[p].pc = "record" /\ wd'[p].decision = wd[p].decision
     \/ ApplyRetry(p) /\ wd'[p].pc = "dispatch" /\ wd'[p].decision = wd[p].decision

InvocationStep(p) ==
  \/ wd'[p] = wd[p]
  \/ wd'[p] = Off
  \/ /\ wd[p].pc = "off" /\ Calls(p) /\ dl' = dl
     /\ wd'[p].step = Diagnosed(p) /\ wd'[p].pc \in {"decide", "apply"}
     /\ wd'[p].decision \in {"pause", "none"}
  \/ InvocationMoves(p)

\* A record of an invocation with a new place, and one with a new decision too.
LEMMA PlaceSet ==
  ASSUME WatchdogOK, NEW p \in Caller, NEW pc, wd' = [wd EXCEPT ![p].pc = pc]
  PROVE  wd'[p].pc = pc /\ wd'[p].step = wd[p].step /\ wd'[p].decision = wd[p].decision
<1>1. wd \in [Caller -> WatchdogRec] /\ wd[p] \in WatchdogRec
  BY DEF WatchdogOK, WatchdogTypeOK
<1>2. wd'[p] = [wd[p] EXCEPT !.pc = pc]
  BY <1>1
<1> QED BY <1>1, <1>2 DEF WatchdogRec

LEMMA AnswerSet ==
  ASSUME WatchdogOK, NEW p \in Caller, NEW pc, NEW answer,
         wd' = [wd EXCEPT ![p].pc = pc, ![p].decision = answer]
  PROVE  wd'[p].pc = pc /\ wd'[p].step = wd[p].step /\ wd'[p].decision = answer
<1>1. wd \in [Caller -> WatchdogRec] /\ wd[p] \in WatchdogRec
  BY DEF WatchdogOK, WatchdogTypeOK
<1>2. wd'[p] = [wd[p] EXCEPT !.pc = pc, !.decision = answer]
  BY <1>1
<1> QED BY <1>1, <1>2 DEF WatchdogRec

LEMMA WatchInvocation ==
  ASSUME WatchdogOK, NEW p \in Caller, Watch(p) \/ WatchFault(p)
  PROVE  InvocationStep(p) /\ \A q \in Caller : q # p => wd'[q] = wd[q]
<1>1. wd \in [Caller -> WatchdogRec] /\ wd[p] \in WatchdogRec
  BY DEF WatchdogOK, WatchdogTypeOK
<1>2. CASE \E invoked : Return(p, invoked)
  <2>1. wd' = [wd EXCEPT ![p] = Off]
    BY <1>2 DEF Return
  <2> QED BY <1>1, <2>1 DEF InvocationStep
<1>3. CASE Open(p) /\ ~Return(p, FALSE)
  <2> DEFINE over == retries[NodeOf(Diagnosed(p))] >= WatchdogBudget
             w == [pc       |-> IF over THEN "apply" ELSE "decide",
                   step     |-> Diagnosed(p),
                   decision |-> IF over THEN "pause" ELSE "none",
                   next     |-> 0]
  <2>1. wd' = [wd EXCEPT ![p] = w] /\ dl' = dl /\ Calls(p) /\ wd[p].pc = "off"
    BY <1>3 DEF Open
  <2>2. w.pc \in {"decide", "apply"} /\ w.step = Diagnosed(p) /\ w.decision \in {"pause", "none"}
    OBVIOUS
  <2> HIDE DEF w
  <2>3. wd'[p] = w /\ \A q \in Caller : q # p => wd'[q] = wd[q]
    BY <1>1, <2>1
  <2> QED BY <2>1, <2>2, <2>3 DEF InvocationStep
<1>4. CASE Decide(p) /\ ~Return(p, FALSE)
  <2>1. PICK answer \in Decision : wd' = [wd EXCEPT ![p].pc = "apply",
                                            ![p].decision = IF answer = "skip" /\ p = Sweeper
                                                            THEN "pause" ELSE answer]
    BY <1>4 DEF Decide
  <2> DEFINE given == IF answer = "skip" /\ p = Sweeper THEN "pause" ELSE answer
  <2>2. given = "skip" => p # Sweeper
    OBVIOUS
  <2>3. wd' = [wd EXCEPT ![p].pc = "apply", ![p].decision = given]
    BY <2>1
  <2> HIDE DEF given
  <2>4. wd'[p].pc = "apply" /\ wd'[p].step = wd[p].step /\ wd'[p].decision = given
    BY <2>3, AnswerSet
  <2>5. \A q \in Caller : q # p => wd'[q] = wd[q]
    BY <1>1, <2>3
  <2> QED BY <1>4, <2>2, <2>4, <2>5 DEF Decide, InvocationStep, InvocationMoves
<1>5. CASE ApplyRetry(p)
  <2>1. wd' = [wd EXCEPT ![p].pc = "dispatch", ![p].next = rows + 1] /\ wd[p].pc = "apply"
    BY <1>5 DEF ApplyRetry
  <2>2. wd'[p] = [wd[p] EXCEPT !.pc = "dispatch", !.next = rows + 1]
    BY <1>1, <2>1
  <2>3. wd'[p].pc = "dispatch" /\ wd'[p].step = wd[p].step /\ wd'[p].decision = wd[p].decision
    BY <1>1, <2>2 DEF WatchdogRec
  <2>4. \A q \in Caller : q # p => wd'[q] = wd[q]
    BY <1>1, <2>1
  <2> QED BY <1>5, <2>1, <2>3, <2>4 DEF InvocationStep, InvocationMoves
<1>6. CASE RetryRefused(p) /\ ~Return(p, FALSE)
  <2>1. wd' = [wd EXCEPT ![p].pc = "record", ![p].decision = "pause"] /\ wd[p].pc = "apply"
    BY <1>6 DEF RetryRefused
  <2>2. wd'[p].pc = "record" /\ wd'[p].step = wd[p].step /\ wd'[p].decision = "pause"
    BY <2>1, AnswerSet
  <2>3. \A q \in Caller : q # p => wd'[q] = wd[q]
    BY <1>1, <2>1
  <2> QED BY <2>1, <2>2, <2>3 DEF InvocationStep, InvocationMoves
<1>7. CASE ApplyPause(p) /\ ~Return(p, FALSE)
  <2>1. /\ wd' = [wd EXCEPT ![p].pc = "record"] /\ wd[p].pc = "apply"
        /\ wd[p].decision \in {"pause", "skip"}
    BY <1>7 DEF ApplyPause, PauseSystem, Continue
  <2>2. wd'[p].pc = "record" /\ wd'[p].step = wd[p].step /\ wd'[p].decision = wd[p].decision
    BY <2>1, PlaceSet
  <2>3. \A q \in Caller : q # p => wd'[q] = wd[q]
    BY <1>1, <2>1
  <2> QED BY <2>1, <2>2, <2>3 DEF InvocationStep, InvocationMoves
<1>8. CASE (RetryDispatch(p) \/ RetryDispatchFails(p)) /\ ~Return(p, FALSE)
  <2>1. wd' = [wd EXCEPT ![p].pc = "record"] /\ wd[p].pc = "dispatch"
    BY <1>8 DEF RetryDispatch, RetryDispatchFails, Continue
  <2>2. wd'[p].pc = "record" /\ wd'[p].step = wd[p].step /\ wd'[p].decision = wd[p].decision
    BY <2>1, PlaceSet
  <2>3. \A q \in Caller : q # p => wd'[q] = wd[q]
    BY <1>1, <2>1
  <2> QED BY <2>1, <2>2, <2>3 DEF InvocationStep, InvocationMoves
<1>9. CASE Record(p) \/ WatchdogThrows(p)
  BY <1>2, <1>9 DEF Record, WatchdogThrows
<1> QED BY <1>2, <1>3, <1>4, <1>5, <1>6, <1>7, <1>8, <1>9 DEF Watch, WatchFault, Watchdog

\* No step but the watchdog's own touches an invocation, except to end it.
LEMMA InvocationsSpared ==
  ASSUME [Next]_vars, \A p \in Caller : ~(Watch(p) \/ WatchFault(p))
  PROVE  wd' = wd \/ \E q : wd' = [wd EXCEPT ![q] = Off]
BY DEF Next, vars, watchdogVars, Deliver, Crash, Disturb, Sweep, SweepStep, SweepFault, Stall,
       SweepRead, SweepRevoke, SweepCrash, Pause, Cancel, Resume, Retry, Request, RequestFault,
       StartCall, FailCall, StartCallFails, CallCrash, ChangeSource, DeleteSource

LEMMA NextInvocation ==
  ASSUME Inv, [Next]_vars, NEW p \in Caller
  PROVE  InvocationStep(p)
<1>1. WatchdogOK /\ wd \in [Caller -> WatchdogRec]
  BY DEF Inv, WatchdogOK, WatchdogTypeOK
<1>2. ASSUME NEW q \in Caller, Watch(q) \/ WatchFault(q) PROVE InvocationStep(p)
  <2>1. p = q \/ wd'[p] = wd[p]
    BY <1>1, <1>2, WatchInvocation
  <2>2. InvocationStep(q)
    BY <1>1, <1>2, WatchInvocation
  <2> QED BY <2>1, <2>2 DEF InvocationStep
<1>3. CASE \A q \in Caller : ~(Watch(q) \/ WatchFault(q))
  BY <1>1, <1>3, InvocationsSpared DEF InvocationStep
<1> QED BY <1>2, <1>3

\* An invocation diagnoses the step of its delivery, and the sweep's is never
\* told to skip.
InvokedOK ==
  /\ \A d \in Delivery : wd[d].pc # "off" => wd[d].step = dl[d].step
  /\ wd[Sweeper].decision # "skip"

\* A delivery under its watchdog waits for it.
LEMMA DeliveryWaits ==
  ASSUME Inv, [Next]_vars, NEW d \in Delivery, dl[d].pc = "watchdog", dl'[d].pc = "watchdog"
  PROVE  dl'[d] = dl[d]
<1>1. DeliveriesOK /\ DeliveryStep(d)
  BY NextDeliveries DEF Inv
<1>2. ~(Step(d) \/ Throw(d))
  BY <1>1, StepMoves DEF MovesOn, Moves
<1> QED BY <1>1, <1>2 DEF DeliveryStep

LEMMA NextInvoked == Inv /\ Inv' /\ InvokedOK /\ [Next]_vars => InvokedOK'
<1> SUFFICES ASSUME Inv, Inv', InvokedOK, [Next]_vars PROVE InvokedOK'
  OBVIOUS
<1>1. \A p \in Caller : InvocationStep(p)
  BY NextInvocation
<1>2. ASSUME NEW d \in Delivery, wd'[d].pc # "off" PROVE wd'[d].step = dl'[d].step
  <2>1. d \in Caller /\ d # Sweeper /\ dl'[d].pc = "watchdog"
    BY <1>2, CallerType DEF Inv, WatchdogOK
  <2>2. CASE wd[d].pc # "off"
    <3>1. dl[d].pc = "watchdog" /\ wd[d].step = dl[d].step
      BY <2>2 DEF Inv, WatchdogOK, InvokedOK
    <3>2. dl'[d] = dl[d]
      BY <2>1, <3>1, DeliveryWaits
    <3>3. wd'[d].step = wd[d].step
      BY <1>1, <1>2, <2>1, <2>2 DEF InvocationStep, InvocationMoves, Off
    <3> QED BY <3>1, <3>2, <3>3
  <2>3. CASE wd[d].pc = "off"
    BY <1>1, <1>2, <2>1, <2>3 DEF InvocationStep, InvocationMoves, Off, Diagnosed
  <2> QED BY <2>2, <2>3
<1>3. wd'[Sweeper].decision # "skip"
  BY <1>1, CallerType DEF InvocationStep, InvocationMoves, InvokedOK, Off
<1> QED BY <1>2, <1>3 DEF InvokedOK

LEMMA InitInvoked == Init => InvokedOK
BY CallerType DEF Init, WatchdogInit, InvokedOK, Off

LEMMA InvokedHolds == Spec => []InvokedOK
<1>1. Inv /\ Inv' /\ InvokedOK /\ [Next]_vars => InvokedOK'
  BY NextInvoked
<1> QED BY <1>1, InitInvoked, InvHolds, PTL DEF Spec

\* A skip never has an edge to follow: the chain asks the watchdog only when
\* its step has no failure edge, and the sweep's skip becomes a pause.
THEOREM SkipsGoNowhere == Spec => []SkipHasNowhereToGo
<1>1. Inv /\ FitsOK /\ InvokedOK => SkipHasNowhereToGo
  <2> SUFFICES ASSUME Inv, FitsOK, InvokedOK,
                      NEW p \in Caller, wd[p].pc = "apply", wd[p].decision = "skip"
               PROVE  EvaluateEdges(NodeOf(wd[p].step), "failure") = NoNode
    BY DEF SkipHasNowhereToGo
  <2>1. p \in Delivery
    BY CallerType DEF InvokedOK
  <2>2. wd[p].step = dl[p].step /\ dl[p].pc = "watchdog"
    BY <2>1 DEF InvokedOK, Inv, WatchdogOK
  <2> QED BY <2>1, <2>2 DEF FitsOK, Fits, NodeFits, NodeFor
<1> QED BY <1>1, InvHolds, DeliveriesFit, InvokedHolds, PTL

-----------------------------------------------------------------------------
(* The retry budget                                                        *)

WatchdogRows(n) == {s \in Inserted("watchdog") : stepRun[s].node = n}

\* Invocations that have inserted a retry of the node and not yet recorded it.
Pending(n) ==
  {p \in Caller : /\ wd[p].pc \in {"dispatch", "record"} /\ wd[p].decision = "retry"
                  /\ NodeOf(wd[p].step) = n}

\* Every retry that is charged, or will be, has a row of its own.
BudgetOK == \A n \in Node : retries[n] + Cardinality(Pending(n)) <= Cardinality(WatchdogRows(n))

LEMMA PendingFinite == \A n : IsFiniteSet(Pending(n)) /\ IsFiniteSet(Pending(n)')
<1>1. IsFiniteSet(Delivery)
  BY FS_Interval, StoreBounds DEF Delivery
<1>2. IsFiniteSet(Caller)
  BY <1>1, FS_AddElement DEF Caller
<1>3. \A n : Pending(n) \subseteq Caller /\ Pending(n)' \subseteq Caller
  BY DEF Pending
<1> QED BY <1>2, <1>3, FS_Subset

LEMMA WatchdogRowsGrow ==
  ASSUME Inv, Inv', Extends, NEW n
  PROVE  /\ IsFiniteSet(WatchdogRows(n)) /\ IsFiniteSet(WatchdogRows(n)')
         /\ WatchdogRows(n) \subseteq WatchdogRows(n)'
         /\ Cardinality(WatchdogRows(n)) <= Cardinality(WatchdogRows(n)')
<1>1. IsFiniteSet(StepRows) /\ IsFiniteSet(StepRows')
  <2>1. rows \in Nat /\ rows' \in Nat
    BY StoreBounds DEF Inv, StoreOK, StoreTypeOK, StepId
  <2> QED BY <2>1, FS_Interval DEF StepRows
<1>2. WatchdogRows(n) \subseteq StepRows /\ WatchdogRows(n)' \subseteq StepRows'
  BY DEF WatchdogRows, Inserted
<1>3. IsFiniteSet(WatchdogRows(n)) /\ IsFiniteSet(WatchdogRows(n)')
  BY <1>1, <1>2, FS_Subset
<1>4. \A s \in 1..rows : s \in 1..rows'
  BY StoreBounds DEF Extends, Inv, StoreOK, StoreTypeOK, StepId
<1>5. WatchdogRows(n) \subseteq WatchdogRows(n)'
  BY <1>4 DEF WatchdogRows, Inserted, StepRows, Extends
<1> QED BY <1>3, <1>5, FS_Subset

\* An invocation comes to be pending only by inserting its retry.
LEMMA ComesToPend ==
  ASSUME Inv, Extends, [Next]_vars, NEW n, NEW p \in Caller, p \in Pending(n)'
  PROVE  p \in Pending(n) \/ (ApplyRetry(p) /\ NodeOf(wd[p].step) = n)
<1>1. InvocationStep(p) /\ wd'[p].pc \in {"dispatch", "record"} /\ wd'[p].decision = "retry"
  BY NextInvocation DEF Pending
<1>2. wd'[p].pc # "off" /\ stepRun'[wd'[p].step].node = n
  BY <1>1 DEF Pending, NodeOf
<1>3. wd[p].pc # "off" /\ wd'[p].step = wd[p].step
  BY <1>1, <1>2 DEF InvocationStep, InvocationMoves, Off
<1>4. wd[p].step \in 1..rows
  BY <1>3 DEF Inv, WatchdogOK
<1>5. NodeOf(wd[p].step) = n
  BY <1>2, <1>3, <1>4 DEF Extends, NodeOf
<1>6. CASE wd'[p] = wd[p]
  BY <1>1, <1>5, <1>6 DEF Pending
<1>7. CASE InvocationMoves(p)
  BY <1>1, <1>5, <1>7 DEF InvocationMoves, Pending
<1> QED BY <1>1, <1>2, <1>3, <1>6, <1>7 DEF InvocationStep, Off

\* Only the decided row charges the budget.
LEMMA OnlyRecordCharges ==
  ASSUME [Next]_vars, \A p \in Caller : ~Record(p)
  PROVE  retries' = retries
BY DEF Next, vars, watchdogVars, Deliver, Crash, Disturb, Watch, WatchFault, Watchdog, Open, Decide,
       ApplyRetry, RetryRefused, ApplyPause, RetryDispatch, RetryDispatchFails, WatchdogThrows,
       Sweep, SweepStep, SweepFault, Stall, SweepRead, SweepRevoke, SweepCrash, Pause, Cancel,
       Resume, Retry, Request, RequestFault, StartCall, FailCall, StartCallFails, CallCrash,
       ChangeSource, DeleteSource

LEMMA NextBudget == Inv /\ Inv' /\ BudgetOK /\ [Next]_vars => BudgetOK'
<1> SUFFICES ASSUME Inv, Inv', BudgetOK, [Next]_vars, NEW n \in Node
             PROVE  retries'[n] + Cardinality(Pending(n)') <= Cardinality(WatchdogRows(n)')
  BY DEF BudgetOK
<1>1. StoreOK /\ WatchdogOK /\ TableStep /\ Extends
  BY NextTable, TableExtends DEF Inv
<1>2. /\ IsFiniteSet(WatchdogRows(n)) /\ IsFiniteSet(WatchdogRows(n)')
      /\ Cardinality(WatchdogRows(n)) <= Cardinality(WatchdogRows(n)')
      /\ IsFiniteSet(Pending(n)) /\ IsFiniteSet(Pending(n)')
  BY <1>1, WatchdogRowsGrow, PendingFinite
<1>3. /\ Cardinality(WatchdogRows(n)) \in Nat /\ Cardinality(WatchdogRows(n)') \in Nat
      /\ Cardinality(Pending(n)) \in Nat /\ Cardinality(Pending(n)') \in Nat
      /\ retries \in [Node -> Nat] /\ retries[n] \in Nat
  BY <1>1, <1>2, FS_CardinalityType DEF WatchdogOK, WatchdogTypeOK
<1>4. retries[n] + Cardinality(Pending(n)) <= Cardinality(WatchdogRows(n))
  BY DEF BudgetOK
<1>5. ASSUME NEW p \in Caller, ApplyRetry(p)
      PROVE  retries'[n] + Cardinality(Pending(n)') <= Cardinality(WatchdogRows(n)')
  <2>1. /\ cur = wd[p].step /\ retries' = retries
        /\ InsertStep(cur, NodeOf(cur), MaxAttempt(NodeOf(cur)) + 1, "watchdog")
    BY <1>5 DEF ApplyRetry, CanRetry
  <2>2. \A q \in Caller : q # p => ~ApplyRetry(q)
    <3>1. \A q \in Caller : q # p => wd'[q] = wd[q]
      <4>1. wd \in [Caller -> WatchdogRec]
        BY <1>1 DEF WatchdogOK, WatchdogTypeOK
      <4> QED BY <1>5, <4>1 DEF ApplyRetry
    <3>2. \A q \in Caller : ApplyRetry(q) => wd[q].pc = "apply" /\ wd'[q].pc # "apply"
      <4> SUFFICES ASSUME NEW q \in Caller, ApplyRetry(q)
                   PROVE  wd[q].pc = "apply" /\ wd'[q].pc # "apply"
        OBVIOUS
      <4>1. wd[q] \in WatchdogRec /\ wd \in [Caller -> WatchdogRec]
        BY <1>1 DEF WatchdogOK, WatchdogTypeOK
      <4>2. wd'[q] = [wd[q] EXCEPT !.pc = "dispatch", !.next = rows + 1] /\ wd[q].pc = "apply"
        BY <4>1 DEF ApplyRetry
      <4> QED BY <4>1, <4>2 DEF WatchdogRec
    <3> QED BY <3>1, <3>2
  <2>3. CASE NodeOf(cur) # n
    <3>1. Pending(n)' \subseteq Pending(n)
      BY <1>1, <2>1, <2>2, <2>3, ComesToPend DEF Pending
    <3>2. Cardinality(Pending(n)') <= Cardinality(Pending(n))
      BY <1>2, <3>1, FS_Subset
    <3> QED BY <1>2, <1>3, <1>4, <2>1, <3>2
  <2>4. CASE NodeOf(cur) = n
    <3>1. Pending(n)' \subseteq Pending(n) \cup {p}
      <4> SUFFICES ASSUME NEW q \in Caller, q \in Pending(n)', q # p PROVE q \in Pending(n)
        BY DEF Pending
      <4>1. ~ApplyRetry(q)
        BY <2>2
      <4>2. q \in Pending(n) \/ ApplyRetry(q)
        BY <1>1, ComesToPend
      <4> QED BY <4>1, <4>2
    <3>2. IsFiniteSet(Pending(n) \cup {p}) /\ Cardinality(Pending(n) \cup {p}) <= Cardinality(Pending(n)) + 1
      <4>1. /\ IsFiniteSet(Pending(n) \cup {p})
            /\ Cardinality(Pending(n) \cup {p}) =
                 IF p \in Pending(n) THEN Cardinality(Pending(n)) ELSE Cardinality(Pending(n)) + 1
        BY <1>2, FS_AddElement, Zenon
      <4> QED BY <1>3, <4>1
    <3>3. Cardinality(Pending(n)') <= Cardinality(Pending(n) \cup {p})
      BY <3>1, <3>2, FS_Subset
    <3>4. IsFiniteSet(WatchdogRows(n) \cup {rows + 1})
          /\ Cardinality(WatchdogRows(n) \cup {rows + 1}) = Cardinality(WatchdogRows(n)) + 1
      <4>1. rows + 1 \notin WatchdogRows(n)
        BY <1>1, StoreBounds DEF StoreOK, StoreTypeOK, StepId, WatchdogRows, Inserted, StepRows
      <4> QED BY <1>2, <4>1, FS_AddElement
    <3>5. WatchdogRows(n) \cup {rows + 1} \subseteq WatchdogRows(n)'
      <4>1. /\ rows' = rows + 1 /\ rows \in Nat
            /\ stepRun'[rows + 1].node = n /\ hist'[rows + 1].via = "watchdog"
        BY <1>1, <2>1, <2>4, InsertEffect
      <4>2. rows + 1 \in WatchdogRows(n)'
        BY <4>1 DEF WatchdogRows, Inserted, StepRows
      <4> QED BY <1>1, <4>2, WatchdogRowsGrow
    <3>6. Cardinality(WatchdogRows(n)) + 1 <= Cardinality(WatchdogRows(n)')
      BY <1>2, <3>4, <3>5, FS_Subset
    <3>7. Cardinality(Pending(n)') <= Cardinality(Pending(n)) + 1
      <4>1. Cardinality(Pending(n) \cup {p}) \in Nat
        BY <3>2, FS_CardinalityType
      <4> QED BY <1>3, <3>2, <3>3, <4>1
    <3> QED BY <1>3, <1>4, <2>1, <3>6, <3>7
  <2> QED BY <2>3, <2>4
<1>6. ASSUME \A p \in Caller : ~ApplyRetry(p)
      PROVE  retries'[n] + Cardinality(Pending(n)') <= Cardinality(WatchdogRows(n)')
  <2>1. Pending(n)' \subseteq Pending(n)
    BY <1>1, <1>6, ComesToPend DEF Pending
  <2>2. Cardinality(Pending(n)') <= Cardinality(Pending(n))
    BY <1>2, <2>1, FS_Subset
  <2>3. CASE retries'[n] = retries[n]
    BY <1>2, <1>3, <1>4, <2>2, <2>3
  <2>4. ASSUME NEW p \in Caller, Record(p), wd[p].decision = "retry", NodeOf(wd[p].step) = n,
               retries'[n] = retries[n] + 1
        PROVE  retries'[n] + Cardinality(Pending(n)') <= Cardinality(WatchdogRows(n)')
    <3>1. p \in Pending(n)
      BY <2>4 DEF Record, Pending
    <3>2. wd'[p] = Off
      BY <1>1, <2>4 DEF Record, Return, WatchdogOK, WatchdogTypeOK
    <3>3. p \notin Pending(n)'
      BY <3>2 DEF Pending, Off
    <3>4. Pending(n)' \subseteq Pending(n) \ {p}
      BY <2>1, <3>3
    <3>5. IsFiniteSet(Pending(n) \ {p}) /\ Cardinality(Pending(n) \ {p}) = Cardinality(Pending(n)) - 1
      BY <1>2, <3>1, FS_RemoveElement
    <3>6. Cardinality(Pending(n)') <= Cardinality(Pending(n)) - 1
      BY <3>4, <3>5, FS_Subset
    <3> QED BY <1>2, <1>3, <1>4, <2>4, <3>6
  <2>5. CASE \A p \in Caller : ~Record(p)
    BY <2>3, <2>5, OnlyRecordCharges
  <2>6. ASSUME NEW p \in Caller, Record(p)
        PROVE  \/ retries'[n] = retries[n]
               \/ wd[p].decision = "retry" /\ NodeOf(wd[p].step) = n /\ retries'[n] = retries[n] + 1
    BY <1>3, <2>6 DEF Record
  <2> QED BY <2>3, <2>4, <2>5, <2>6
<1> QED BY <1>5, <1>6

LEMMA InitBudget == Init => BudgetOK
<1> SUFFICES ASSUME Init, NEW n \in Node
             PROVE  retries[n] + Cardinality(Pending(n)) <= Cardinality(WatchdogRows(n))
  BY DEF BudgetOK
<1>1. Pending(n) = {}
  BY DEF Init, WatchdogInit, Off, Pending
<1>2. rows = 1 /\ retries[n] = 0
  BY DEF Init, StoreInit, WatchdogInit
<1>3. Cardinality(WatchdogRows(n)) \in Nat
  <2>1. WatchdogRows(n) \subseteq 1..1
    BY <1>2 DEF WatchdogRows, Inserted, StepRows
  <2>2. IsFiniteSet(WatchdogRows(n))
    BY <2>1, FS_Interval, FS_Subset
  <2> QED BY <2>2, FS_CardinalityType
<1> QED BY <1>1, <1>2, <1>3, FS_EmptySet

\* The budget of a node is never charged for a retry that did not happen,
\* although the charge is written after the retry was inserted and dispatched.
THEOREM RetriesAreReal == Spec => []NoPhantomRetry
<1>1. Inv /\ Inv' /\ BudgetOK /\ [Next]_vars => BudgetOK'
  BY NextBudget
<1>2. Inv /\ BudgetOK => NoPhantomRetry
  <2> SUFFICES ASSUME Inv, BudgetOK, NEW n \in Node
               PROVE  retries[n] <= Cardinality(WatchdogRows(n))
    BY DEF NoPhantomRetry, WatchdogRows
  <2>1. Cardinality(Pending(n)) \in Nat /\ retries[n] \in Nat
    BY PendingFinite, FS_CardinalityType DEF Inv, WatchdogOK, WatchdogTypeOK
  <2>2. Cardinality(WatchdogRows(n)) \in Nat
    <3>1. WatchdogRows(n) \subseteq StepRows
      BY DEF WatchdogRows, Inserted
    <3>2. IsFiniteSet(WatchdogRows(n))
      BY <3>1, RowsFinite DEF Inv
    <3> QED BY <3>2, FS_CardinalityType
  <2> QED BY <2>1, <2>2 DEF BudgetOK
<1> QED BY <1>1, <1>2, InitBudget, InvHolds, PTL DEF Spec

-----------------------------------------------------------------------------
(* One agent at a time                                                     *)

\* Neither the sweep nor an operator has handed the run over.
HandsOff == spent.sweeps = 0 /\ spent.controls = 0

AtWork(d) == dl[d].pc \in {"correlate", "work"} /\ KindOf(d) = "agent_step"

\* The sweep is idle, every agent step behind the pointer was claimed, and a
\* delivery that owns an agent step works on the current one.
SoloOK ==
  HandsOff =>
    /\ sweep.pc = "idle" /\ wd[Sweeper].pc = "off"
    /\ \A s \in 1..rows : s # cur /\ Kind[stepRun[s].node] = "agent_step" => stepRun[s].gen # 0
    /\ \A d \in Delivery : AtWork(d) => dl[d].step = cur

\* The sweep and the operators leave their mark, and it stays.
LEMMA NextHands ==
  ASSUME Inv, [Next]_vars, HandsOff'
  PROVE  HandsOff /\ ~Sweep /\ ~Retry
<1>1. spent \in Spent
  BY DEF Inv, RequestsOK
<1>2. /\ spent.controls \in Nat /\ spent.sweeps \in Nat
  <2>1. MaxControls \in Nat /\ MaxSweeps \in Nat
    BY RunBounds
  <2> QED BY <1>1, <2>1 DEF Spent
<1>3. SpendControl => spent'.controls = spent.controls + 1
  BY <1>1 DEF SpendControl, Spent
<1>4. SpendSweep => spent'.sweeps = spent.sweeps + 1
  BY <1>1 DEF SpendSweep, Spent
<1>5. SpendFault \/ SpendChange => spent'.controls = spent.controls /\ spent'.sweeps = spent.sweeps
  BY <1>1 DEF SpendFault, SpendChange, Spent
<1>6. ~SpendControl /\ ~SpendSweep
  BY <1>2, <1>3, <1>4 DEF HandsOff
<1>7. ~Sweep /\ ~Pause /\ ~Cancel /\ ~Resume /\ ~Retry
  BY <1>6 DEF Sweep, Pause, Cancel, Resume, Retry
<1>8. spent' = spent \/ SpendFault \/ SpendChange
  BY <1>7 DEF Next, vars, Deliver, Crash, Disturb, Watch, WatchFault, SweepStep, SweepFault,
              Request, RequestFault, StartCall, FailCall, StartCallFails, CallCrash,
              ChangeSource, DeleteSource
<1> QED BY <1>5, <1>7, <1>8 DEF HandsOff

LEMMA SweepSleeps ==
  ASSUME Inv, [Next]_vars, ~Sweep, sweep.pc = "idle", wd[Sweeper].pc = "off"
  PROVE  sweep'.pc = "idle" /\ wd'[Sweeper].pc = "off"
<1>1. sweep' = sweep \/ sweep' = [pc |-> "idle", step |-> 0]
  BY DEF Next, vars, watchdogVars, Deliver, Crash, Disturb, Watch, WatchFault, Watchdog, Open, Decide,
         ApplyRetry, RetryRefused, ApplyPause, PauseSystem, Continue, Return, RetryDispatch, Record,
         RetryDispatchFails, WatchdogThrows, SweepStep, SweepFault, SweepRead, SweepRevoke, SweepCrash,
         Pause, Cancel, Resume, Retry, Request, RequestFault, StartCall, FailCall, StartCallFails,
         CallCrash, ChangeSource, DeleteSource
<1>2. InvocationStep(Sweeper)
  BY NextInvocation, CallerType
<1>3. wd'[Sweeper].pc = "off"
  BY <1>2 DEF InvocationStep, InvocationMoves, Calls, Off
<1> QED BY <1>1, <1>3

\* A delivery comes to own an agent step by claiming it, or by repairing the
\* correlation of a claim.
LEMMA ComesToWork ==
  ASSUME Inv, [Next]_vars, NEW d \in Delivery, AtWork(d)'
  PROVE  /\ dl'[d].step = dl[d].step /\ KindOf(d) = "agent_step"
         /\ dl[d].step \in 1..rows
         /\ AtWork(d) \/ (dl[d].pc = "generation" /\ ClaimGeneration(d) /\ stepRun[dl[d].step].gen = 0)
<1>1. StoreOK /\ DeliveriesOK /\ DeliveryStep(d) /\ TableStep /\ Extends
  BY NextDeliveries, NextTable, TableExtends DEF Inv
<1>2. dl'[d].pc \in {"correlate", "work"}
  BY DEF AtWork
<1>3. dl'[d] = dl[d] \/ Step(d) \/ Throw(d)
  BY <1>1, <1>2 DEF DeliveryStep
<1>4. dl[d].pc \notin {"idle", "done"} /\ dl'[d].step = dl[d].step
  BY <1>1, <1>2, <1>3, StepMoves DEF MovesOn, Moves
<1>5. dl[d].step \in 1..rows
  BY <1>1, <1>4, Located
<1>6. KindOf(d) = "agent_step"
  BY <1>1, <1>4, <1>5 DEF AtWork, KindOf, NodeOf, Extends
<1>7. CASE dl'[d] = dl[d]
  BY <1>2, <1>4, <1>5, <1>6, <1>7 DEF AtWork
<1>8. CASE Step(d) \/ Throw(d)
  <2>1. dl[d].pc \in {"guard", "claim", "generation", "correlate"}
    BY <1>1, <1>2, <1>8, StepMoves DEF MovesOn, Moves
  <2>2. CASE dl[d].pc = "correlate"
    BY <1>4, <1>5, <1>6, <2>2 DEF AtWork
  <2>3. CASE dl[d].pc = "generation"
    <3>1. ClaimGeneration(d)
      BY <1>8, <2>3
         DEF Step, Throw, Load, Deny, SkipStep, Begin, Trip, Enter, LocalDuplicate, Claim, Correlate,
             Succeed, Fail, FinishAgent, CompleteRun, EndStep, ThrowStep, FailRun, Reload, Plan,
             Advance, AdvanceWhen, Dispatch
    <3>2. ~Finish(d)
      BY <1>1, <1>2, FinishFields
    <3>3. stepRun[dl[d].step].gen = 0
      BY <3>1, <3>2 DEF ClaimGeneration, GoToOrFinish
    <3> QED BY <1>4, <1>5, <1>6, <2>3, <3>1, <3>3
  <2>4. CASE dl[d].pc = "claim"
    <3>1. Claim(d)
      BY <1>8, <2>4
         DEF Step, Throw, Load, Deny, SkipStep, Begin, Trip, Enter, LocalDuplicate, ClaimGeneration,
             Correlate, Succeed, Fail, FinishAgent, CompleteRun, EndStep, ThrowStep, FailRun, Reload,
             Plan, Advance, AdvanceWhen, Dispatch
    <3>2. dl'[d].pc = "done" \/ GoTo(d, "generation")
      BY <1>1, <1>6, <3>1, GoToOrFinishFields DEF Claim
    <3> QED BY <1>1, <1>2, <3>2, GoToFields
  <2>5. CASE dl[d].pc = "guard"
    <3>1. Trip(d) \/ Enter(d) \/ LocalDuplicate(d)
      BY <1>8, <2>5
         DEF Step, Throw, Load, Deny, SkipStep, Begin, Claim, ClaimGeneration,
             Correlate, Succeed, Fail, FinishAgent, CompleteRun, EndStep, ThrowStep, FailRun, Reload,
             Plan, Advance, AdvanceWhen, Dispatch
    <3>2. CASE Trip(d)
      BY <1>1, <1>2, <3>2, GoToOrFinishFields, GoToFields DEF Trip
    <3>3. CASE LocalDuplicate(d)
      BY <1>1, <1>2, <3>3, FinishFields DEF LocalDuplicate
    <3>4. CASE Enter(d)
      <4>1. dl \in [Delivery -> DeliveryRec] /\ dl[d] \in DeliveryRec
        BY <1>1 DEF DeliveriesOK
      <4>2. ASSUME Become(d, [dl[d] EXCEPT !.pc = "reload", !.out = "failure"]) PROVE FALSE
        <5>1. dl'[d] = [dl[d] EXCEPT !.pc = "reload", !.out = "failure"]
          BY <4>1, <4>2 DEF Become
        <5> QED BY <1>2, <4>1, <5>1 DEF DeliveryRec
      <4>3. ASSUME NEW pc \in {"claim", "generation"},
                   Become(d, [dl[d] EXCEPT !.pc = pc, !.wfSeen = stepRun[dl[d].step].wf])
            PROVE  FALSE
        <5> DEFINE seen == stepRun[dl[d].step].wf
        <5>1. dl'[d] = [dl[d] EXCEPT !.pc = pc, !.wfSeen = seen]
          BY <4>1, <4>3 DEF Become
        <5> HIDE DEF seen
        <5> QED BY <1>2, <4>1, <4>3, <5>1 DEF DeliveryRec
      <4>4. ~GoTo(d, "throw") /\ ~Finish(d)
        BY <1>1, <1>2, GoToFields, FinishFields
      <4> QED BY <1>6, <3>4, <4>2, <4>3, <4>4 DEF Enter
    <3> QED BY <3>1, <3>2, <3>3, <3>4
  <2> QED BY <2>1, <2>2, <2>3, <2>4, <2>5
<1> QED BY <1>3, <1>7, <1>8

\* Whoever moves the pointer while the run is left to itself holds the claim of
\* the step it leaves.
LEMMA PointerOwner ==
  ASSUME Inv, FitsOK, InvokedOK, SoloOK, HandsOff, [Next]_vars, ~Retry, cur' # cur,
         Kind[stepRun[cur].node] = "agent_step"
  PROVE  \E d \in Delivery : dl[d].pc \in {"advance", "watchdog"} /\ stepRun[cur].gen = d
<1>1. StoreOK /\ WatchdogOK /\ TableStep
  BY NextTable DEF Inv
<1>2. ASSUME NEW d \in Delivery, AdvanceWins(d)
      PROVE  dl[d].pc \in {"advance", "watchdog"} /\ stepRun[cur].gen = d
  BY <1>2 DEF AdvanceWins, FitsOK, Fits, ClaimFits, Reported, NodeFor, NodeOf
<1>3. ASSUME NEW p \in Caller, WatchdogRetries(p)
      PROVE  p \in Delivery /\ dl[p].pc \in {"advance", "watchdog"} /\ stepRun[cur].gen = p
  <2>1. wd[p].pc # "off" /\ cur = wd[p].step /\ Linked
    BY <1>3 DEF WatchdogRetries, ApplyRetry, CanRetry
  <2>2. p \in Delivery
    BY <2>1, CallerType DEF SoloOK
  <2>3. dl[p].pc = "watchdog" /\ dl[p].step = cur
    BY <1>1, <2>1, <2>2 DEF WatchdogOK, InvokedOK
  <2>4. stepRun[cur].gen = p
    BY <2>1, <2>2, <2>3 DEF FitsOK, Fits, ClaimFits, Reported, NodeFor, NodeOf
  <2> QED BY <2>2, <2>3, <2>4
<1>4. ~OperatorRetries
  BY DEF OperatorRetries
<1>5. RowsKept \/ (\E d \in Delivery : ClaimGeneration(d) \/ Correlate(d)) => cur' = cur
  BY DEF RowsKept, ClaimGeneration, Correlate, countVars
<1> QED BY <1>1, <1>2, <1>3, <1>4, <1>5 DEF TableStep

LEMMA NextSolo == Inv /\ Inv' /\ FitsOK /\ InvokedOK /\ SoloOK /\ [Next]_vars => SoloOK'
<1> SUFFICES ASSUME Inv, Inv', FitsOK, InvokedOK, SoloOK, [Next]_vars, HandsOff'
             PROVE  /\ sweep'.pc = "idle" /\ wd'[Sweeper].pc = "off"
                    /\ \A s \in 1..rows' : s # cur' /\ Kind[stepRun'[s].node] = "agent_step"
                         => stepRun'[s].gen # 0
                    /\ \A d \in Delivery : AtWork(d)' => dl'[d].step = cur'
  BY DEF SoloOK
<1>1. StoreOK /\ DeliveriesOK /\ TableStep /\ Extends /\ HandsOff /\ ~Sweep /\ ~Retry
  BY NextTable, TableExtends, NextHands DEF Inv
<1>2. sweep'.pc = "idle" /\ wd'[Sweeper].pc = "off"
  BY <1>1, SweepSleeps DEF SoloOK
<1>3. rows \in Nat /\ cur = rows /\ cur \in 1..rows /\ \A d \in Delivery : d # 0
  BY <1>1, StoreBounds DEF StoreOK, StoreTypeOK, StepId, Delivery
<1>4. ASSUME NEW s \in 1..rows', s # cur', Kind[stepRun'[s].node] = "agent_step"
      PROVE  stepRun'[s].gen # 0
  <2>1. s \in 1..rows
    BY <1>1, <1>3, <1>4 DEF Extends
  <2>2. Kind[stepRun[s].node] = "agent_step"
    BY <1>1, <1>4, <2>1 DEF Extends
  <2>3. stepRun[s].gen # 0
    <3>1. CASE s # cur
      BY <1>1, <2>1, <2>2, <3>1 DEF SoloOK
    <3>2. CASE s = cur
      BY <1>1, <1>3, <1>4, <2>2, <3>2, PointerOwner
    <3> QED BY <3>1, <3>2
  <2> QED BY <1>1, <2>1, <2>3 DEF Extends
<1>5. ASSUME NEW d \in Delivery, AtWork(d)' PROVE dl'[d].step = cur'
  <2>1. /\ dl'[d].step = dl[d].step /\ KindOf(d) = "agent_step" /\ dl[d].step \in 1..rows
        /\ AtWork(d) \/ (dl[d].pc = "generation" /\ ClaimGeneration(d) /\ stepRun[dl[d].step].gen = 0)
    BY <1>5, ComesToWork
  <2>2. CASE AtWork(d)
    <3>1. dl[d].step = cur /\ dl[d].pc \in {"correlate", "work"}
      BY <1>1, <2>2 DEF SoloOK, AtWork
    <3>2. stepRun[cur].gen = d /\ Kind[stepRun[cur].node] = "agent_step"
      BY <2>1, <3>1 DEF FitsOK, Fits, ClaimFits, KindOf, NodeFor, NodeOf
    <3>3. cur' = cur
      BY <1>1, <3>1, <3>2, PointerOwner
    <3> QED BY <2>1, <3>1, <3>3
  <2>3. CASE ClaimGeneration(d) /\ stepRun[dl[d].step].gen = 0
    <3>1. dl[d].step = cur
      BY <1>1, <2>1, <2>3 DEF SoloOK, KindOf, NodeOf
    <3> QED BY <2>1, <2>3, <3>1 DEF ClaimGeneration, countVars
  <2> QED BY <2>1, <2>2, <2>3
<1> QED BY <1>2, <1>4, <1>5

LEMMA InitSolo == Init => SoloOK
<1> SUFFICES ASSUME Init PROVE SoloOK
  OBVIOUS
<1>1. rows = 1 /\ cur = 1
  BY DEF Init, StoreInit
<1>2. sweep.pc = "idle" /\ wd[Sweeper].pc = "off" /\ \A d \in Delivery : dl[d].pc = "idle"
  BY CallerType DEF Init, WatchdogInit, ChainInit, NotStarted, At, Off
<1> QED BY <1>1, <1>2 DEF SoloOK, AtWork

\* While neither the sweep nor an operator hands the run over, at most one
\* agent works on it: the one whose claim the current step carries.
THEOREM OneAgent == Spec => []OneAgentAtWork
<1>1. Inv /\ Inv' /\ FitsOK /\ InvokedOK /\ SoloOK /\ [Next]_vars => SoloOK'
  BY NextSolo
<1>2. Inv /\ FitsOK /\ SoloOK => OneAgentAtWork
  <2> DEFINE atWork == {d \in Delivery : dl[d].pc = "work" /\ KindOf(d) = "agent_step"}
  <2> SUFFICES ASSUME Inv, FitsOK, SoloOK, HandsOff PROVE Cardinality(atWork) <= 1
    BY DEF OneAgentAtWork, HandsOff
  <2>1. \A d \in atWork : stepRun[cur].gen = d
    BY DEF SoloOK, AtWork, FitsOK, Fits, ClaimFits, KindOf, NodeFor
  <2>2. atWork \subseteq {stepRun[cur].gen}
    BY <2>1
  <2> HIDE DEF atWork
  <2>3. IsFiniteSet({stepRun[cur].gen}) /\ Cardinality({stepRun[cur].gen}) = 1
    BY FS_Singleton
  <2> QED BY <2>2, <2>3, FS_Subset
<1> QED BY <1>1, <1>2, InitSolo, InvHolds, DeliveriesFit, InvokedHolds, PTL DEF Spec
=============================================================================
