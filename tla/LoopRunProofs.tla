--------------------------- MODULE LoopRunProofs ---------------------------
(***************************************************************************)
(* Proofs about LoopRun, for every graph, guardrail, budget and bound.     *)
(***************************************************************************)
EXTENDS LoopRunProps, TLAPS, FiniteSetTheorems, WellFoundedInduction

-----------------------------------------------------------------------------
(* The inductive invariant                                                 *)

AfterGuard == {"claim", "generation", "correlate", "work", "endStep",
               "reload", "plan", "advance"}

\* What a delivery holds in memory is still about the table of n rows.
Good(r, n, table) ==
  /\ r \in DeliveryRec
  /\ r.pc \notin {"idle", "done"} => r.step \in 1..n
  /\ r.pc = "dispatch" => r.next \in 1..n
  /\ r.pc \in AfterGuard => r.steps < MaxSteps /\ r.iters < MaxIterations
  /\ r.pc \in {"plan", "advance"} => EvaluateEdges(table[r.step].node, r.out) \in Node
  /\ r.pc = "advance" => r.attempt <= n + 1

DeliveriesOK ==
  /\ nDl \in 0..MaxDeliveries
  /\ dl \in [Delivery -> DeliveryRec]
  /\ \A d \in Delivery : Good(dl[d], rows, stepRun)
  /\ \A d \in Delivery : d > nDl => dl[d].pc = "idle"

StoreOK ==
  /\ StoreTypeOK
  /\ cur = rows
  /\ \A s \in 1..rows : hist[s].from = s - 1
  /\ \A s \in 1..rows : stepRun[s].attempt <= rows
  /\ AttemptsUnique
  /\ WithinGuardrails

WatchdogOK ==
  /\ WatchdogTypeOK
  /\ \A p \in Caller : wd[p].pc # "off" => wd[p].step \in 1..rows
  /\ \A p \in Caller : wd[p].pc = "dispatch" => wd[p].next \in 1..rows
  /\ sweep.pc = "watchdog" => sweep.step \in 1..rows
  /\ \A d \in Delivery : wd[d].pc # "off" => dl[d].pc = "watchdog"

RequestsOK ==
  /\ calls \subseteq Call
  /\ \A c \in calls : c.step \in 1..rows
  /\ spent \in Spent

Inv == StoreOK /\ DeliveriesOK /\ WatchdogOK /\ RequestsOK

\* The table only grows.
Grows == rows <= rows' /\ \A s \in 1..rows : stepRun'[s].node = stepRun[s].node

-----------------------------------------------------------------------------
(* Lemmas on functions, maxima and records                                 *)

LEMMA UpdateType ==
  ASSUME NEW S, NEW T, NEW f \in [S -> T], NEW x \in S, NEW v \in T
  PROVE  [f EXCEPT ![x] = v] \in [S -> T]
OBVIOUS

LEMMA LeastNat ==
  ASSUME NEW T, T \subseteq Nat, T # {}
  PROVE  \E x \in T : \A y \in T : x <= y
<1> DEFINE R == OpToRel(<, Nat)
<1>1. IsWellFoundedOn(R, Nat)
  BY NatLessThanWellFounded
<1>2. \E x \in T : \A y \in T : <<y, x>> \notin R
  <2> HIDE DEF R
  <2> QED BY <1>1, WFMin
<1>3. PICK x \in T : \A y \in T : <<y, x>> \notin R
  BY <1>2
<1>4. \A y \in T : ~(y < x)
  <2> TAKE y \in T
  <2>1. y \in Nat /\ x \in Nat
    OBVIOUS
  <2>2. <<y, x>> \in Nat \X Nat
    BY <2>1
  <2> QED BY <1>3, <2>1, <2>2 DEF OpToRel
<1> QED BY <1>4

\* Max of a bounded set of naturals is what its name says.
LEMMA MaxExists ==
  ASSUME NEW S, S \subseteq Nat, 0 \in S, NEW b \in Nat, \A x \in S : x <= b
  PROVE  Max(S) \in S /\ \A x \in S : Max(S) >= x
<1> DEFINE T == {n \in Nat : \A x \in S : x <= n}
<1>1. T \subseteq Nat /\ b \in T
  OBVIOUS
<1>2. PICK m \in T : \A y \in T : m <= y
  BY <1>1, LeastNat
<1>3. m \in S
  <2>1. CASE m = 0
    BY <2>1
  <2>2. CASE m # 0
    <3>1. SUFFICES ASSUME m \notin S PROVE FALSE
      OBVIOUS
    <3>2. \A x \in S : x <= m - 1
      BY <3>1
    <3>3. m - 1 \in T
      BY <3>2, <2>2
    <3> QED BY <3>3, <1>2
  <2> QED BY <2>1, <2>2
<1>4. \A x \in S : m >= x
  OBVIOUS
<1> QED BY <1>3, <1>4 DEF Max

\* getMaxAttemptForNode returns an upper bound of the node's attempts, and no
\* more than the table has rows.
LEMMA MaxAttemptBound ==
  ASSUME StoreOK, NEW node
  PROVE  /\ MaxAttempt(node) \in Nat
         /\ MaxAttempt(node) <= rows
         /\ \A s \in StepsOf(node) : stepRun[s].attempt <= MaxAttempt(node)
<1> DEFINE S == {0} \cup {stepRun[s].attempt : s \in StepsOf(node)}
<1>1. rows \in Nat /\ \A s \in StepsOf(node) : stepRun[s].attempt \in Nat /\ stepRun[s].attempt <= rows
  BY StoreBounds DEF StoreOK, StoreTypeOK, StepsOf, StepId, StepRow
<1>2. S \subseteq Nat /\ 0 \in S /\ \A x \in S : x <= rows
  BY <1>1
<1>3. Max(S) \in S /\ \A x \in S : Max(S) >= x
  <2> HIDE DEF S
  <2> QED BY <1>1, <1>2, MaxExists
<1>4. MaxAttempt(node) = Max(S)
  BY DEF MaxAttempt
<1>5. Max(S) \in Nat
  BY <1>2, <1>3
<1> HIDE DEF S
<1>6. Max(S) <= rows
  BY <1>2, <1>3
<1>7. \A s \in StepsOf(node) : stepRun[s].attempt <= Max(S)
  BY <1>1, <1>3, <1>5 DEF S
<1> QED BY <1>4, <1>5, <1>6, <1>7

LEMMA AtGood ==
  ASSUME NEW n \in Nat, NEW table, NEW pc \in {"load", "done", "idle"},
         NEW s \in 0..MaxRows, NEW w \in 0..MaxDeliveries, pc = "load" => s \in 1..n
  PROVE  At(pc, s, w) \in DeliveryRec /\ Good(At(pc, s, w), n, table)
<1>1. At(pc, s, w) \in DeliveryRec
  BY StoreBounds DEF At, DeliveryRec, DeliveryPC, Outcome
<1>2. At(pc, s, w).pc = pc /\ At(pc, s, w).step = s
  BY DEF At
<1> QED BY <1>1, <1>2 DEF Good, AfterGuard

\* A delivery record changed at one place.
LEMMA BecomeValue ==
  ASSUME dl \in [Delivery -> DeliveryRec], NEW d \in Delivery, NEW r \in DeliveryRec, Become(d, r)
  PROVE  /\ dl' \in [Delivery -> DeliveryRec]
         /\ dl'[d] = r
         /\ \A e \in Delivery : e # d => dl'[e] = dl[e]
BY UpdateType DEF Become

\* The table grows around a delivery that does nothing.
LEMMA GoodGrows ==
  ASSUME StoreOK, StoreOK', Grows, NEW r, Good(r, rows, stepRun)
  PROVE  Good(r, rows', stepRun')
<1>1. rows \in Nat /\ rows' \in Nat /\ rows <= rows'
  BY StoreBounds DEF StoreOK, StoreTypeOK, StepId, Grows
<1>2. r.pc \in {"plan", "advance"} => r.step \in 1..rows
  BY DEF Good
<1>3. r.pc \in {"plan", "advance"} => stepRun'[r.step].node = stepRun[r.step].node
  BY <1>2 DEF Grows
<1>4. r.attempt \in Nat
  BY DEF Good, DeliveryRec
<1> QED BY <1>1, <1>3, <1>4 DEF Good

\* A step of delivery d leaves the others alone, new ones apart.
Others(d) == \A e \in Delivery : e # d /\ dl[e].pc # "idle" => dl'[e] = dl[e]

LEMMA DeliveriesStep ==
  ASSUME StoreOK, StoreOK', Grows, DeliveriesOK, nDl' = nDl,
         NEW d \in Delivery, dl[d].pc # "idle", NEW r, Become(d, r), Good(r, rows', stepRun')
  PROVE  DeliveriesOK' /\ Others(d)
<1>1. r \in DeliveryRec
  BY DEF Good
<1>2. /\ dl' \in [Delivery -> DeliveryRec]
      /\ dl'[d] = r
      /\ \A e \in Delivery : e # d => dl'[e] = dl[e]
  BY <1>1, BecomeValue DEF DeliveriesOK
<1>3. \A e \in Delivery : Good(dl'[e], rows', stepRun')
  <2> TAKE e \in Delivery
  <2>1. CASE e = d
    BY <2>1, <1>2
  <2>2. CASE e # d
    <3>1. Good(dl[e], rows', stepRun')
      BY GoodGrows DEF DeliveriesOK
    <3> QED BY <3>1, <2>2, <1>2
  <2> QED BY <2>1, <2>2
<1>4. \A e \in Delivery : e > nDl' => dl'[e].pc = "idle"
  BY <1>2 DEF DeliveriesOK
<1> QED BY <1>2, <1>3, <1>4 DEF DeliveriesOK, Others

LEMMA DeliveriesGrow ==
  ASSUME StoreOK, StoreOK', Grows, DeliveriesOK, UNCHANGED chainVars
  PROVE  DeliveriesOK'
<1>1. dl' = dl /\ nDl' = nDl
  BY DEF chainVars
<1>2. \A e \in Delivery : Good(dl[e], rows', stepRun')
  BY GoodGrows DEF DeliveriesOK
<1> QED BY <1>1, <1>2 DEF DeliveriesOK

\* A new delivery of an existing step takes the next slot.
LEMMA DeliveriesStart ==
  ASSUME StoreOK, StoreOK', Grows, DeliveriesOK, TakeSlot,
         NEW s \in 1..rows, NEW w \in 0..MaxDeliveries,
         dl' = [dl EXCEPT ![nDl + 1] = At("load", s, w)]
  PROVE  /\ DeliveriesOK'
         /\ \A e \in Delivery : dl[e].pc # "idle" => dl'[e] = dl[e]
<1>1. nDl + 1 \in Delivery /\ nDl' \in 0..MaxDeliveries
  BY StoreBounds DEF TakeSlot, DeliveriesOK, Delivery
<1>2. rows' \in Nat /\ s \in 1..rows' /\ s \in 0..MaxRows
  BY StoreBounds DEF StoreOK, StoreTypeOK, StepId, Grows
<1> DEFINE new == At("load", s, w)
<1>3. new \in DeliveryRec /\ Good(new, rows', stepRun')
  BY <1>2, AtGood
<1> HIDE DEF new
<1>4. dl' \in [Delivery -> DeliveryRec]
  <2>1. dl' = [dl EXCEPT ![nDl + 1] = new]
    BY DEF new
  <2> QED BY <1>1, <1>3, <2>1, UpdateType DEF DeliveriesOK
<1>5. \A e \in Delivery : Good(dl'[e], rows', stepRun')
  <2> TAKE e \in Delivery
  <2>1. Good(dl[e], rows', stepRun')
    BY GoodGrows DEF DeliveriesOK
  <2>2. dl'[e] = IF e = nDl + 1 THEN new ELSE dl[e]
    BY <1>1 DEF DeliveriesOK, new
  <2> QED BY <1>3, <2>1, <2>2
<1>6. \A e \in Delivery : e # nDl + 1 => dl'[e] = dl[e]
  BY <1>1 DEF DeliveriesOK
<1>7. nDl' = nDl + 1 /\ nDl \in Nat /\ \A e \in Delivery : e \in Nat
  BY StoreBounds DEF TakeSlot, DeliveriesOK, Delivery
<1>8. \A e \in Delivery : e > nDl' => e # nDl + 1 /\ e > nDl
  BY <1>7
<1>9. \A e \in Delivery : e > nDl' => dl'[e].pc = "idle"
  BY <1>6, <1>8 DEF DeliveriesOK
<1>10. \A e \in Delivery : dl[e].pc # "idle" => e # nDl + 1
  BY <1>1, <1>7 DEF DeliveriesOK
<1> QED BY <1>1, <1>4, <1>5, <1>6, <1>9, <1>10 DEF DeliveriesOK

-----------------------------------------------------------------------------
(* Lemmas on the store                                                     *)

\* Updates of the run and of existing rows.
LEMMA StoreKept ==
  ASSUME StoreOK, source' \in SourceState, status' \in RunStatus, startedAt' \in BOOLEAN,
         UNCHANGED <<countVars, rows>>,
         stepRun' \in [StepId -> StepRow], hist' \in [StepId -> HistRow],
         \A s \in StepId : /\ stepRun'[s].node = stepRun[s].node
                           /\ stepRun'[s].attempt = stepRun[s].attempt
                           /\ hist'[s].from = hist[s].from
  PROVE  StoreOK' /\ Grows
<1>1. rows' = rows /\ cur' = cur /\ stepCount' = stepCount /\ iterationCount' = iterationCount
  BY DEF countVars
<1>2. rows \in Nat /\ \A s \in 1..rows : s \in StepId
  BY StoreBounds DEF StoreOK, StoreTypeOK, StepId
<1>3. StoreTypeOK'
  BY <1>1 DEF StoreOK, StoreTypeOK
<1>4. Grows
  BY <1>1, <1>2 DEF Grows
<1>5. (\A s \in 1..rows : hist[s].from = s - 1)'
  BY <1>1, <1>2 DEF StoreOK
<1>6. (\A s \in 1..rows : stepRun[s].attempt <= rows)'
  BY <1>1, <1>2 DEF StoreOK
<1>7. AttemptsUnique'
  BY <1>1, <1>2 DEF StoreOK, AttemptsUnique, StepRows
<1>8. WithinGuardrails'
  BY <1>1 DEF StoreOK, WithinGuardrails
<1> QED BY <1>1, <1>3, <1>4, <1>5, <1>6, <1>7, <1>8 DEF StoreOK

\* Updates of the run alone.
LEMMA RunKept ==
  ASSUME StoreOK, source' \in SourceState, status' \in RunStatus, startedAt' \in BOOLEAN,
         UNCHANGED <<countVars, rowVars>>
  PROVE  StoreOK' /\ Grows
<1>1. UNCHANGED <<countVars, rows>> /\ stepRun' = stepRun /\ hist' = hist
  BY DEF rowVars
<1>2. stepRun' \in [StepId -> StepRow] /\ hist' \in [StepId -> HistRow]
  BY <1>1 DEF StoreOK, StoreTypeOK
<1> QED BY <1>1, <1>2, StoreKept

LEMMA NothingKept ==
  ASSUME StoreOK, UNCHANGED storeVars
  PROVE  StoreOK' /\ Grows
<1>1. /\ UNCHANGED <<countVars, rowVars>>
      /\ source' = source /\ status' = status /\ startedAt' = startedAt
  BY DEF storeVars, runVars
<1> QED BY <1>1, RunKept DEF StoreOK, StoreTypeOK

LEMMA StatusType ==
  ASSUME StoreOK, NEW to \in RunStatus, NEW from, SetStatus(to) \/ Transition(to, from)
  PROVE  status' \in RunStatus /\ startedAt' \in BOOLEAN
BY DEF SetStatus, Transition, runVars, StoreOK, StoreTypeOK

LEMMA TransitionKept ==
  ASSUME StoreOK, NEW to \in RunStatus, NEW from, SetStatus(to) \/ Transition(to, from),
         UNCHANGED <<source, countVars, rowVars>>
  PROVE  StoreOK' /\ Grows
<1>1. source' = source /\ UNCHANGED <<countVars, rowVars>>
  OBVIOUS
<1>2. source' \in SourceState
  BY <1>1 DEF StoreOK, StoreTypeOK
<1> QED BY <1>1, <1>2, StatusType, RunKept

\* One row whose node and attempt stay.
LEMMA RowKept ==
  ASSUME StoreOK, NEW s \in StepId, NEW row \in StepRow,
         row.node = stepRun[s].node, row.attempt = stepRun[s].attempt,
         stepRun' = [stepRun EXCEPT ![s] = row],
         hist' \in [StepId -> HistRow], \A t \in StepId : hist'[t].from = hist[t].from,
         UNCHANGED <<source, runVars, countVars, rows>>
  PROVE  StoreOK' /\ Grows
<1>1. /\ source' = source /\ status' = status /\ startedAt' = startedAt
      /\ UNCHANGED <<countVars, rows>>
  BY DEF runVars
<1>2. stepRun \in [StepId -> StepRow]
  BY DEF StoreOK, StoreTypeOK
<1>3. stepRun' \in [StepId -> StepRow]
  BY <1>2, UpdateType
<1>4. \A t \in StepId : /\ stepRun'[t].node = stepRun[t].node
                        /\ stepRun'[t].attempt = stepRun[t].attempt
  BY <1>2
<1> QED BY <1>1, <1>3, <1>4, StoreKept DEF StoreOK, StoreTypeOK

LEMMA SetStepKept ==
  ASSUME StoreOK, NEW s \in StepId, NEW to \in StepStatus,
         SetStep(s, to) \/ UNCHANGED stepRun,
         UNCHANGED <<source, runVars, countVars, rows, hist>>
  PROVE  StoreOK' /\ Grows
<1>1. hist' \in [StepId -> HistRow] /\ \A t \in StepId : hist'[t].from = hist[t].from
  BY DEF StoreOK, StoreTypeOK
<1>2. CASE SetStep(s, to)
  <2> DEFINE row == [stepRun[s] EXCEPT !.status = to]
  <2>1. stepRun \in [StepId -> StepRow]
    BY DEF StoreOK, StoreTypeOK
  <2>2. stepRun[s] \in StepRow
    BY <2>1
  <2>3. row \in StepRow /\ row.node = stepRun[s].node /\ row.attempt = stepRun[s].attempt
    BY <2>2 DEF StepRow
  <2>4. stepRun' = [stepRun EXCEPT ![s] = row]
    BY <1>2 DEF SetStep
  <2> HIDE DEF row
  <2>5. UNCHANGED <<source, runVars, countVars, rows>>
    OBVIOUS
  <2> QED BY <1>1, <2>3, <2>4, <2>5, RowKept
<1>3. CASE UNCHANGED stepRun
  <2>1. UNCHANGED storeVars
    BY <1>3 DEF storeVars, rowVars
  <2> QED BY <2>1, NothingKept
<1> QED BY <1>2, <1>3

\* An insert after the row the pointer names.
LEMMA InsertKept ==
  ASSUME StoreOK, NEW node \in Node, NEW attempt \in Nat, attempt <= rows + 1,
         ~AttemptTaken(node, attempt),
         NEW via \in {"trigger", "advance", "retry", "watchdog"},
         InsertStep(cur, node, attempt, via),
         source' = source, status' \in RunStatus, startedAt' \in BOOLEAN,
         stepCount' \in Nat, stepCount' <= MaxSteps,
         iterationCount' \in Nat, iterationCount' <= MaxIterations
  PROVE  StoreOK' /\ Grows
<1> DEFINE new == FreshRow(node, attempt)
           newHist == FreshHist(via, cur, status)
<1>1. /\ rows \in Nat /\ rows + 1 \in StepId /\ rows' = rows + 1 /\ cur' = rows + 1
      /\ \A s \in 1..rows : s \in StepId
  BY StoreBounds DEF InsertStep, StoreOK, StoreTypeOK, StepId
<1>2. /\ stepRun \in [StepId -> StepRow] /\ hist \in [StepId -> HistRow]
      /\ cur = rows /\ cur \in 0..MaxRows
  BY DEF StoreOK, StoreTypeOK, StepId
<1>3. new \in StepRow /\ new.node = node /\ new.attempt = attempt
  BY StoreBounds DEF StepRow, FreshRow, StepStatus
<1>4. newHist \in HistRow /\ newHist.from = cur
  BY <1>2 DEF HistRow, FreshHist, StoreOK, StoreTypeOK
<1>5. stepRun' = [stepRun EXCEPT ![rows + 1] = new] /\ hist' = [hist EXCEPT ![rows + 1] = newHist]
  BY DEF InsertStep
<1> HIDE DEF new, newHist
<1>6. stepRun' \in [StepId -> StepRow] /\ hist' \in [StepId -> HistRow]
  BY <1>1, <1>2, <1>3, <1>4, <1>5, UpdateType
<1>7. StoreTypeOK'
  BY <1>1, <1>6 DEF StoreOK, StoreTypeOK
<1>8. \A s \in 1..rows : stepRun'[s] = stepRun[s] /\ hist'[s] = hist[s]
  BY <1>1, <1>2, <1>5
<1>9. stepRun'[rows + 1] = new /\ hist'[rows + 1] = newHist
  BY <1>1, <1>2, <1>5
<1>10. \A s \in 1..(rows + 1) : s \in 1..rows \/ s = rows + 1
  BY <1>1
<1>11. Grows
  BY <1>1, <1>8 DEF Grows
<1>12. (\A s \in 1..rows : hist[s].from = s - 1)'
  BY <1>1, <1>2, <1>4, <1>8, <1>9, <1>10 DEF StoreOK
<1>13. \A s \in 1..rows : stepRun[s].attempt \in Nat /\ stepRun[s].attempt <= rows
  BY <1>1, <1>2 DEF StoreOK, StepRow
<1>14. (\A s \in 1..rows : stepRun[s].attempt <= rows)'
  BY <1>1, <1>3, <1>8, <1>9, <1>10, <1>13
<1>15. AttemptsUnique'
  <2> SUFFICES ASSUME NEW r \in 1..(rows + 1), NEW s \in 1..(rows + 1), r # s
               PROVE  <<stepRun'[r].node, stepRun'[r].attempt>> # <<stepRun'[s].node, stepRun'[s].attempt>>
    BY <1>1 DEF AttemptsUnique, StepRows
  <2>1. \A t \in 1..rows : <<stepRun[t].node, stepRun[t].attempt>> # <<node, attempt>>
    BY DEF AttemptTaken, StepsOf
  <2>2. CASE r \in 1..rows /\ s \in 1..rows
    BY <2>2, <1>8 DEF StoreOK, AttemptsUnique, StepRows
  <2>3. CASE r = rows + 1 /\ s \in 1..rows
    BY <2>1, <2>3, <1>3, <1>8, <1>9
  <2>4. CASE r \in 1..rows /\ s = rows + 1
    BY <2>1, <2>4, <1>3, <1>8, <1>9
  <2> QED BY <2>2, <2>3, <2>4, <1>10
<1>16. WithinGuardrails'
  BY DEF WithinGuardrails
<1> QED BY <1>1, <1>7, <1>11, <1>12, <1>14, <1>15, <1>16 DEF StoreOK

\* MAX(attempt) + 1 is free, and fits the table.
LEMMA NextAttempt ==
  ASSUME StoreOK, NEW node
  PROVE  /\ MaxAttempt(node) + 1 \in Nat
         /\ MaxAttempt(node) + 1 <= rows + 1
         /\ ~AttemptTaken(node, MaxAttempt(node) + 1)
<1>1. rows \in Nat /\ \A s \in StepsOf(node) : stepRun[s].attempt \in Nat
  BY StoreBounds DEF StoreOK, StoreTypeOK, StepsOf, StepId, StepRow
<1>2. \A s \in StepsOf(node) : stepRun[s].attempt # MaxAttempt(node) + 1
  BY <1>1, MaxAttemptBound
<1> QED BY <1>1, <1>2, MaxAttemptBound DEF AttemptTaken

\* A retry, by the operator or the watchdog.
LEMMA RetryKept ==
  ASSUME StoreOK, NEW via \in {"retry", "watchdog"},
         InsertStep(cur, NodeOf(cur), MaxAttempt(NodeOf(cur)) + 1, via),
         SetStatus("running"), UNCHANGED <<source, stepCount, iterationCount>>
  PROVE  StoreOK' /\ Grows
<1>1. NodeOf(cur) \in Node
  BY DEF NodeOf, StoreOK, StoreTypeOK, StepRow
<1>2. /\ stepCount' \in Nat /\ stepCount' <= MaxSteps
      /\ iterationCount' \in Nat /\ iterationCount' <= MaxIterations
      /\ source' = source
  BY DEF StoreOK, StoreTypeOK, WithinGuardrails
<1>3. status' \in RunStatus /\ startedAt' \in BOOLEAN
  BY StatusType DEF RunStatus
<1> QED BY <1>1, <1>2, <1>3, NextAttempt, InsertKept

-----------------------------------------------------------------------------
(* Lemmas on deliveries                                                    *)

\* What Good asks of a record depends on these fields only.
LEMMA GoodFields ==
  ASSUME NEW n, NEW table, NEW r, NEW q \in DeliveryRec, Good(r, n, table), r.pc \notin {"idle", "done"},
         q.step = r.step, q.pc \notin {"dispatch", "plan", "advance"},
         q.pc \in AfterGuard => q.steps < MaxSteps /\ q.iters < MaxIterations
  PROVE  Good(q, n, table)
BY DEF Good

LEMMA SetPC ==
  ASSUME NEW r \in DeliveryRec, NEW pc \in DeliveryPC
  PROVE  /\ [r EXCEPT !.pc = pc] \in DeliveryRec
         /\ [r EXCEPT !.pc = pc].pc = pc
         /\ [r EXCEPT !.pc = pc].step = r.step
         /\ [r EXCEPT !.pc = pc].steps = r.steps
         /\ [r EXCEPT !.pc = pc].iters = r.iters
BY DEF DeliveryRec

LEMMA EndedGood ==
  ASSUME DeliveriesOK, NEW d \in Delivery, NEW n \in Nat, NEW table
  PROVE  Good(Ended(d), n, table)
<1>1. dl[d].step \in 0..MaxRows /\ dl[d].wf \in 0..MaxDeliveries
  BY DEF DeliveriesOK, DeliveryRec
<1> QED BY <1>1, AtGood DEF Ended

\* A delivery that ends, or goes to a place that asks nothing new of it.
LEMMA FinishOK ==
  ASSUME StoreOK, StoreOK', Grows, DeliveriesOK, nDl' = nDl,
         NEW d \in Delivery, dl[d].pc \notin {"idle", "done"}, Finish(d)
  PROVE  DeliveriesOK' /\ Others(d)
<1>1. rows' \in Nat
  BY StoreBounds DEF StoreOK, StoreTypeOK, StepId
<1>2. Good(Ended(d), rows', stepRun')
  BY <1>1, EndedGood
<1> QED BY <1>2, DeliveriesStep DEF Finish

Plain == DeliveryPC \ {"idle", "done", "dispatch", "plan", "advance"}

LEMMA GoToOK ==
  ASSUME StoreOK, StoreOK', Grows, DeliveriesOK, nDl' = nDl,
         NEW d \in Delivery, dl[d].pc \notin {"idle", "done"}, NEW pc \in Plain,
         pc \in AfterGuard => dl[d].steps < MaxSteps /\ dl[d].iters < MaxIterations,
         GoTo(d, pc)
  PROVE  DeliveriesOK' /\ Others(d)
<1> DEFINE q == [dl[d] EXCEPT !.pc = pc]
<1>1. dl[d] \in DeliveryRec /\ pc \in DeliveryPC
  BY DEF DeliveriesOK, Plain
<1>2. /\ q \in DeliveryRec /\ q.pc = pc /\ q.step = dl[d].step
      /\ q.steps = dl[d].steps /\ q.iters = dl[d].iters
  BY <1>1, SetPC
<1>3. Good(dl[d], rows', stepRun')
  BY GoodGrows DEF DeliveriesOK
<1>4. Become(d, q)
  BY DEF GoTo
<1> HIDE DEF q
<1>5. Good(q, rows', stepRun')
  BY <1>2, <1>3, GoodFields DEF Plain
<1> QED BY <1>4, <1>5, DeliveriesStep

LEMMA GoToOrFinishOK ==
  ASSUME StoreOK, StoreOK', Grows, DeliveriesOK, nDl' = nDl,
         NEW d \in Delivery, dl[d].pc \notin {"idle", "done"}, NEW pc \in Plain,
         pc \in AfterGuard => dl[d].steps < MaxSteps /\ dl[d].iters < MaxIterations,
         NEW continue, GoToOrFinish(d, continue, pc)
  PROVE  DeliveriesOK' /\ Others(d)
BY GoToOK, FinishOK DEF GoToOrFinish

LEMMA Located ==
  ASSUME StoreOK, DeliveriesOK, NEW d \in Delivery, dl[d].pc \notin {"idle", "done"}
  PROVE  /\ dl[d] \in DeliveryRec
         /\ dl[d].step \in 1..rows
         /\ dl[d].step \in StepId
         /\ dl[d].pc \in AfterGuard => dl[d].steps < MaxSteps /\ dl[d].iters < MaxIterations
BY StoreBounds DEF StoreOK, StoreTypeOK, DeliveriesOK, Good, StepId

\* A delivery that keeps its step and changes what it has loaded.
LEMMA BecomeOK ==
  ASSUME StoreOK, StoreOK', Grows, DeliveriesOK, nDl' = nDl,
         NEW d \in Delivery, dl[d].pc \notin {"idle", "done"},
         NEW q \in DeliveryRec, q.step = dl[d].step, q.pc \notin {"dispatch", "plan", "advance"},
         q.pc \in AfterGuard => q.steps < MaxSteps /\ q.iters < MaxIterations,
         Become(d, q)
  PROVE  DeliveriesOK' /\ Others(d)
<1>1. Good(dl[d], rows', stepRun')
  BY GoodGrows DEF DeliveriesOK
<1>2. Good(q, rows', stepRun')
  BY <1>1, GoodFields
<1> QED BY <1>2, DeliveriesStep

-----------------------------------------------------------------------------
(* The steps of a delivery                                                 *)

ChainOK(d) == StoreOK' /\ Grows /\ DeliveriesOK' /\ Others(d)

LEMMA LoadKeeps ==
  ASSUME StoreOK, DeliveriesOK, NEW d \in Delivery, Load(d)
  PROVE  ChainOK(d)
<1>1. dl[d].pc = "load" /\ UNCHANGED storeVars /\ nDl' = nDl
  BY DEF Load
<1>2. StoreOK' /\ Grows
  BY <1>1, NothingKept
<1>3. dl[d].pc \notin {"idle", "done"}
  BY <1>1
<1>4. CASE GoTo(d, "deny")
  BY <1>1, <1>2, <1>3, <1>4, GoToOK DEF Plain, DeliveryPC, AfterGuard, ChainOK
<1>5. CASE Finish(d)
  BY <1>1, <1>2, <1>5, FinishOK DEF ChainOK
<1> DEFINE q == [dl[d] EXCEPT !.pc = IF status = "queued" THEN "begin" ELSE "guard",
                              !.steps = stepCount, !.iters = iterationCount,
                              !.timed = startedAt,
                              !.hadWf = (stepRun[dl[d].step].wf # 0)]
<1>6. CASE Become(d, q)
  <2>1. dl[d] \in DeliveryRec /\ stepCount \in Nat /\ iterationCount \in Nat /\ startedAt \in BOOLEAN
    BY <1>3, Located DEF StoreOK, StoreTypeOK
  <2>2. q \in DeliveryRec /\ q.step = dl[d].step
    BY <2>1 DEF DeliveryRec, DeliveryPC
  <2>3. q.pc \in {"begin", "guard"}
    BY <2>1 DEF DeliveryRec
  <2> HIDE DEF q
  <2> QED BY <1>1, <1>2, <1>3, <1>6, <2>2, <2>3, BecomeOK DEF AfterGuard, ChainOK
<1> QED BY <1>4, <1>5, <1>6 DEF Load

\* Deny, Begin, Trip, CompleteRun and FailRun change the run only.
LEMMA RunStepKeeps ==
  ASSUME StoreOK, DeliveriesOK, NEW d \in Delivery,
         Deny(d) \/ Begin(d) \/ Trip(d) \/ CompleteRun(d) \/ FailRun(d)
  PROVE  ChainOK(d)
<1>1. nDl' = nDl /\ UNCHANGED <<source, countVars, rowVars>>
  BY DEF Deny, Begin, Trip, CompleteRun, FailRun
<1>2. \E to \in RunStatus : \E from \in SUBSET RunStatus : Transition(to, from)
  BY DEF Deny, Begin, Trip, CompleteRun, FailRun, RunStatus, Unfinished
<1>3. StoreOK' /\ Grows
  BY <1>1, <1>2, TransitionKept
<1>4. dl[d].pc \notin {"idle", "done"}
  BY DEF Deny, Begin, Trip, CompleteRun, FailRun
<1>5. CASE Deny(d) \/ Trip(d)
  <2>1. GoToOrFinish(d, CanTransition(Unfinished), "skip")
    BY <1>5 DEF Deny, Trip
  <2> QED BY <1>1, <1>3, <1>4, <2>1, GoToOrFinishOK DEF Plain, DeliveryPC, AfterGuard, ChainOK
<1>6. CASE Begin(d)
  <2>1. GoToOrFinish(d, CanTransition({"queued"}), "guard")
    BY <1>6 DEF Begin
  <2> QED BY <1>1, <1>3, <1>4, <2>1, GoToOrFinishOK DEF Plain, DeliveryPC, AfterGuard, ChainOK
<1>7. CASE CompleteRun(d)
  <2>1. GoToOrFinish(d, CanTransition({"queued", "running"}), "endStep") /\ dl[d].pc \in AfterGuard
    BY <1>7 DEF CompleteRun, AfterGuard
  <2> QED BY <1>1, <1>3, <1>4, <2>1, Located, GoToOrFinishOK DEF Plain, DeliveryPC, ChainOK
<1>8. CASE FailRun(d)
  <2>1. Finish(d)
    BY <1>8 DEF FailRun
  <2> QED BY <1>1, <1>3, <1>4, <2>1, FinishOK DEF ChainOK
<1> QED BY <1>5, <1>6, <1>7, <1>8

\* SkipStep, EndStep and ThrowStep change the status of the delivery's step.
LEMMA StepStatusKeeps ==
  ASSUME StoreOK, DeliveriesOK, NEW d \in Delivery, SkipStep(d) \/ EndStep(d) \/ ThrowStep(d)
  PROVE  ChainOK(d)
<1>1. nDl' = nDl /\ UNCHANGED <<source, runVars, countVars, rows, hist>>
  BY DEF SkipStep, EndStep, ThrowStep
<1>2. dl[d].pc \notin {"idle", "done"}
  BY DEF SkipStep, EndStep, ThrowStep
<1>3. \E to \in StepStatus : SetStep(dl[d].step, to) \/ UNCHANGED stepRun
  BY DEF SkipStep, EndStep, ThrowStep, StepStatus
<1>4. StoreOK' /\ Grows
  BY <1>1, <1>2, <1>3, Located, SetStepKept
<1>5. CASE Finish(d)
  BY <1>1, <1>2, <1>4, <1>5, FinishOK DEF ChainOK
<1>6. CASE GoTo(d, "failRun")
  BY <1>1, <1>2, <1>4, <1>6, GoToOK DEF Plain, DeliveryPC, AfterGuard, ChainOK
<1> QED BY <1>5, <1>6 DEF SkipStep, EndStep, ThrowStep

LEMMA EnterKeeps ==
  ASSUME StoreOK, DeliveriesOK, NEW d \in Delivery, Enter(d)
  PROVE  ChainOK(d)
<1>1. dl[d].pc = "guard" /\ ~CountTripped(d) /\ UNCHANGED storeVars /\ nDl' = nDl
  BY DEF Enter
<1>2. StoreOK' /\ Grows
  BY <1>1, NothingKept
<1>3. dl[d].pc \notin {"idle", "done"}
  BY <1>1
<1>4. dl[d] \in DeliveryRec /\ dl[d].step \in StepId
  BY <1>3, Located
<1>5. dl[d].steps < MaxSteps /\ dl[d].iters < MaxIterations
  BY <1>1, <1>4, ChainAssumption DEF CountTripped, DeliveryRec
<1>6. CASE Finish(d)
  BY <1>1, <1>2, <1>6, FinishOK DEF ChainOK
<1>7. CASE GoTo(d, "throw")
  BY <1>1, <1>2, <1>3, <1>7, GoToOK DEF Plain, DeliveryPC, AfterGuard, ChainOK
<1>8. CASE GoToOrFinish(d, stepRun[dl[d].step].wf = dl[d].wf, "work")
  BY <1>1, <1>2, <1>3, <1>5, <1>8, GoToOrFinishOK DEF Plain, DeliveryPC, ChainOK
<1>9. CASE Become(d, [dl[d] EXCEPT !.pc = "reload", !.out = "failure"])
  <2> DEFINE q == [dl[d] EXCEPT !.pc = "reload", !.out = "failure"]
  <2>1. /\ q \in DeliveryRec /\ q.step = dl[d].step /\ q.pc = "reload"
        /\ q.steps = dl[d].steps /\ q.iters = dl[d].iters
    BY <1>4 DEF DeliveryRec, DeliveryPC, Outcome
  <2>2. Become(d, q)
    BY <1>9
  <2> HIDE DEF q
  <2> QED BY <1>1, <1>2, <1>3, <1>5, <2>1, <2>2, BecomeOK DEF ChainOK
<1>10. ASSUME NEW pc \in {"claim", "generation"},
              Become(d, [dl[d] EXCEPT !.pc = pc, !.wfSeen = stepRun[dl[d].step].wf])
       PROVE  ChainOK(d)
  <2> DEFINE q == [dl[d] EXCEPT !.pc = pc, !.wfSeen = stepRun[dl[d].step].wf]
  <2>1. stepRun[dl[d].step].wf \in 0..MaxDeliveries
    BY <1>4 DEF StoreOK, StoreTypeOK, StepRow
  <2>2. /\ q \in DeliveryRec /\ q.step = dl[d].step /\ q.pc = pc
        /\ q.steps = dl[d].steps /\ q.iters = dl[d].iters
    BY <1>4, <2>1 DEF DeliveryRec, DeliveryPC
  <2>3. Become(d, q)
    BY <1>10
  <2> HIDE DEF q
  <2> QED BY <1>1, <1>2, <1>3, <1>5, <2>2, <2>3, BecomeOK DEF ChainOK
<1> QED BY <1>6, <1>7, <1>8, <1>9, <1>10 DEF Enter

LEMMA LocalDuplicateKeeps ==
  ASSUME StoreOK, DeliveriesOK, NEW d \in Delivery, LocalDuplicate(d)
  PROVE  ChainOK(d)
<1>1. UNCHANGED storeVars /\ nDl' = nDl /\ Finish(d)
  BY DEF LocalDuplicate
<1>2. StoreOK' /\ Grows
  BY <1>1, NothingKept
<1> QED BY <1>1, <1>2, FinishOK DEF LocalDuplicate, ChainOK

\* The claims: row fields other than node and attempt, and the history's count.
LEMMA ClaimKeeps ==
  ASSUME StoreOK, DeliveriesOK, NEW d \in Delivery, Claim(d) \/ ClaimGeneration(d) \/ Correlate(d)
  PROVE  ChainOK(d)
<1> DEFINE s == dl[d].step
<1>1. dl[d].pc \in AfterGuard /\ dl[d].pc \notin {"idle", "done"}
  BY DEF Claim, ClaimGeneration, Correlate, AfterGuard
<1>2. nDl' = nDl /\ UNCHANGED <<source, runVars, countVars, rows>>
  BY DEF Claim, ClaimGeneration, Correlate
<1>3. /\ s \in StepId /\ dl[d] \in DeliveryRec
      /\ dl[d].steps < MaxSteps /\ dl[d].iters < MaxIterations
  BY <1>1, Located
<1>4. /\ stepRun \in [StepId -> StepRow] /\ hist \in [StepId -> HistRow]
      /\ stepRun[s] \in StepRow /\ hist[s] \in HistRow
  BY <1>3 DEF StoreOK, StoreTypeOK
<1>5. /\ hist' \in [StepId -> HistRow]
      /\ \A t \in StepId : hist'[t].from = hist[t].from
  <2>1. CASE BeginWork(d)
    <3> DEFINE h == [hist[s] EXCEPT !.execs = @ + 1]
    <3>1. h \in HistRow /\ h.from = hist[s].from
      BY <1>4 DEF HistRow
    <3>2. hist' = [hist EXCEPT ![s] = h]
      BY <2>1 DEF BeginWork
    <3> HIDE DEF h
    <3> QED BY <1>3, <1>4, <3>1, <3>2, UpdateType
  <2>2. CASE UNCHANGED hist
    BY <1>4, <2>2
  <2> QED BY <2>1, <2>2 DEF Claim, ClaimGeneration, Correlate
<1> DEFINE Swap(row) == /\ row \in StepRow
                        /\ row.node = stepRun[s].node /\ row.attempt = stepRun[s].attempt
                        /\ stepRun' = [stepRun EXCEPT ![s] = row]
           Swapped == \E row : Swap(row)
<1>6. Swapped
  <2>1. CASE UNCHANGED stepRun
    BY <1>3, <1>4, <2>1
  <2>2. ASSUME stepRun' = [stepRun EXCEPT ![s].status = "running", ![s].wf = dl[d].wf]
        PROVE  Swapped
    <3> DEFINE row == [stepRun[s] EXCEPT !.status = "running", !.wf = dl[d].wf]
    <3>1. dl[d].wf \in 0..MaxDeliveries
      BY <1>3 DEF DeliveryRec
    <3>2. row \in StepRow /\ row.node = stepRun[s].node /\ row.attempt = stepRun[s].attempt
      BY <1>4, <3>1 DEF StepRow, StepStatus
    <3>3. stepRun' = [stepRun EXCEPT ![s] = row]
      BY <1>3, <1>4, <2>2
    <3> HIDE DEF row
    <3> QED
      <4>1. Swap(row)
        BY <3>2, <3>3
      <4> QED BY <4>1
  <2>3. ASSUME NEW w \in 0..MaxDeliveries, \/ stepRun' = [stepRun EXCEPT ![s].gen = w]
                                           \/ stepRun' = [stepRun EXCEPT ![s].wf = w]
        PROVE  Swapped
    <3>1. /\ [stepRun[s] EXCEPT !.gen = w] \in StepRow
          /\ [stepRun[s] EXCEPT !.gen = w].node = stepRun[s].node
          /\ [stepRun[s] EXCEPT !.gen = w].attempt = stepRun[s].attempt
          /\ [stepRun[s] EXCEPT !.wf = w] \in StepRow
          /\ [stepRun[s] EXCEPT !.wf = w].node = stepRun[s].node
          /\ [stepRun[s] EXCEPT !.wf = w].attempt = stepRun[s].attempt
      BY <1>4 DEF StepRow
    <3>2. stepRun' = [stepRun EXCEPT ![s] = [stepRun[s] EXCEPT !.gen = w]] => Swapped
      BY <3>1
    <3>3. stepRun' = [stepRun EXCEPT ![s] = [stepRun[s] EXCEPT !.wf = w]] => Swapped
      BY <3>1
    <3>4. \/ stepRun' = [stepRun EXCEPT ![s] = [stepRun[s] EXCEPT !.gen = w]]
          \/ stepRun' = [stepRun EXCEPT ![s] = [stepRun[s] EXCEPT !.wf = w]]
      BY <2>3
    <3> QED BY <3>2, <3>3, <3>4
  <2>4. dl[d].wf \in 0..MaxDeliveries /\ d \in 0..MaxDeliveries
    BY <1>3, StoreBounds DEF DeliveryRec, Delivery
  <2>5. \/ UNCHANGED stepRun
        \/ stepRun' = [stepRun EXCEPT ![s].status = "running", ![s].wf = dl[d].wf]
        \/ stepRun' = [stepRun EXCEPT ![s].gen = d]
        \/ stepRun' = [stepRun EXCEPT ![s].wf = dl[d].wf]
    BY DEF Claim, ClaimGeneration, Correlate
  <2> HIDE DEF Swapped
  <2> QED BY <2>1, <2>2, <2>3, <2>4, <2>5
<1>7. StoreOK' /\ Grows
  BY <1>2, <1>3, <1>5, <1>6, RowKept
<1>8. ASSUME NEW continue, NEW pc \in {"work", "generation", "correlate"}, GoToOrFinish(d, continue, pc)
      PROVE  ChainOK(d)
  BY <1>1, <1>2, <1>3, <1>7, <1>8, GoToOrFinishOK DEF Plain, DeliveryPC, ChainOK
<1> QED BY <1>8 DEF Claim, ClaimGeneration, Correlate

\* The executor's updates of the step, and the outcome it hands back.
LEMMA OutcomeKeeps ==
  ASSUME StoreOK, DeliveriesOK, NEW d \in Delivery, Succeed(d) \/ Fail(d) \/ FinishAgent(d)
  PROVE  ChainOK(d)
<1>1. dl[d].pc \in AfterGuard /\ dl[d].pc \notin {"idle", "done"}
  BY DEF Succeed, Fail, FinishAgent, AfterGuard
<1>2. nDl' = nDl /\ UNCHANGED <<source, runVars, countVars, rows, hist>>
  BY DEF Succeed, Fail, FinishAgent, Report
<1>3. /\ dl[d].step \in StepId /\ dl[d] \in DeliveryRec
      /\ dl[d].steps < MaxSteps /\ dl[d].iters < MaxIterations
  BY <1>1, Located
<1>4. \E to \in StepStatus : SetStep(dl[d].step, to) \/ UNCHANGED stepRun
  BY DEF Succeed, Fail, FinishAgent, Report, StepStatus
<1>5. StoreOK' /\ Grows
  BY <1>2, <1>3, <1>4, SetStepKept
<1>6. CASE Finish(d)
  BY <1>1, <1>2, <1>5, <1>6, FinishOK DEF ChainOK
<1>7. ASSUME NEW outcome \in Outcome, Become(d, [dl[d] EXCEPT !.pc = "reload", !.out = outcome])
      PROVE  ChainOK(d)
  <2> DEFINE q == [dl[d] EXCEPT !.pc = "reload", !.out = outcome]
  <2>1. /\ q \in DeliveryRec /\ q.step = dl[d].step /\ q.pc = "reload"
        /\ q.steps = dl[d].steps /\ q.iters = dl[d].iters
    BY <1>3 DEF DeliveryRec, DeliveryPC
  <2>2. Become(d, q)
    BY <1>7
  <2> HIDE DEF q
  <2> QED BY <1>1, <1>2, <1>3, <1>5, <2>1, <2>2, BecomeOK DEF ChainOK
<1> QED BY <1>6, <1>7 DEF Succeed, Fail, FinishAgent, Report, Outcome

\* A delivery that plans its advance knows where it goes.
LEMMA Routed ==
  ASSUME NEW node, NEW out, EvaluateEdges(node, out) # NoNode
  PROVE  EvaluateEdges(node, out) \in Node
BY DEF EvaluateEdges

LEMMA PlanningGood ==
  ASSUME NEW n, NEW table, NEW q \in DeliveryRec, q.step \in 1..n, q.pc \in {"plan", "advance"},
         q.steps < MaxSteps, q.iters < MaxIterations,
         EvaluateEdges(table[q.step].node, q.out) \in Node,
         q.pc = "advance" => q.attempt <= n + 1
  PROVE  Good(q, n, table)
BY DEF Good

LEMMA ReloadKeeps ==
  ASSUME StoreOK, DeliveriesOK, NEW d \in Delivery, Reload(d)
  PROVE  ChainOK(d)
<1>1. /\ dl[d].pc = "reload" /\ dl[d].pc \in AfterGuard
      /\ dl[d].pc \notin {"idle", "done"} /\ UNCHANGED storeVars /\ nDl' = nDl
  BY DEF Reload, AfterGuard
<1>2. StoreOK' /\ Grows /\ rows' = rows /\ stepRun' = stepRun
  BY <1>1, NothingKept DEF storeVars, rowVars
<1>3. /\ dl[d] \in DeliveryRec /\ dl[d].step \in 1..rows
      /\ dl[d].steps < MaxSteps /\ dl[d].iters < MaxIterations
  BY <1>1, Located
<1>4. CASE Finish(d)
  BY <1>1, <1>2, <1>4, FinishOK DEF ChainOK
<1>5. ASSUME NEW pc \in {"watchdog", "failRun"}, GoTo(d, pc)
      PROVE  ChainOK(d)
  BY <1>1, <1>2, <1>5, GoToOK DEF Plain, DeliveryPC, AfterGuard, ChainOK
<1> DEFINE held == status \in {"paused", "stalled"}
           q == [dl[d] EXCEPT !.pc = "plan", !.hold = held]
<1>6. CASE NextNode(d) # NoNode /\ Become(d, q)
  <2>0. held \in BOOLEAN
    OBVIOUS
  <2> HIDE DEF held
  <2>1. /\ q \in DeliveryRec /\ q.step = dl[d].step /\ q.pc = "plan" /\ q.out = dl[d].out
        /\ q.steps = dl[d].steps /\ q.iters = dl[d].iters
    BY <1>3, <2>0 DEF DeliveryRec, DeliveryPC
  <2>2. Become(d, q)
    BY <1>6
  <2> HIDE DEF q
  <2>3. EvaluateEdges(stepRun[q.step].node, q.out) \in Node
    BY <1>6, <2>1, Routed DEF NextNode, NodeOf
  <2>4. Good(q, rows', stepRun')
    BY <1>2, <1>3, <2>1, <2>3, PlanningGood
  <2> QED BY <1>1, <1>2, <2>2, <2>4, DeliveriesStep DEF ChainOK
<1> QED BY <1>1, <1>4, <1>5, <1>6 DEF Reload

LEMMA PlanKeeps ==
  ASSUME StoreOK, DeliveriesOK, NEW d \in Delivery, Plan(d)
  PROVE  ChainOK(d)
<1>1. /\ dl[d].pc = "plan" /\ dl[d].pc \in AfterGuard
      /\ dl[d].pc \notin {"idle", "done"} /\ UNCHANGED storeVars /\ nDl' = nDl
  BY DEF Plan, AfterGuard
<1>2. StoreOK' /\ Grows /\ rows' = rows /\ stepRun' = stepRun
  BY <1>1, NothingKept DEF storeVars, rowVars
<1>3. /\ dl[d] \in DeliveryRec /\ dl[d].step \in 1..rows
      /\ dl[d].steps < MaxSteps /\ dl[d].iters < MaxIterations
  BY <1>1, Located
<1> DEFINE q == [dl[d] EXCEPT !.pc = "advance", !.attempt = MaxAttempt(NextNode(d)) + 1,
                              !.revisit = (StepsOf(NextNode(d)) # {})]
<1>4. MaxAttempt(NextNode(d)) + 1 \in Nat /\ MaxAttempt(NextNode(d)) + 1 <= rows + 1
  BY NextAttempt
<1>5. /\ q \in DeliveryRec /\ q.step = dl[d].step /\ q.pc = "advance" /\ q.out = dl[d].out
      /\ q.steps = dl[d].steps /\ q.iters = dl[d].iters
      /\ q.attempt = MaxAttempt(NextNode(d)) + 1
  BY <1>3, <1>4 DEF DeliveryRec, DeliveryPC
<1>6. Become(d, q)
  BY DEF Plan
<1> HIDE DEF q
<1>7. EvaluateEdges(stepRun[q.step].node, q.out) \in Node
  BY <1>1, <1>5 DEF DeliveriesOK, Good
<1>8. Good(q, rows', stepRun')
  BY <1>2, <1>3, <1>4, <1>5, <1>7, PlanningGood
<1> QED BY <1>1, <1>2, <1>6, <1>8, DeliveriesStep DEF ChainOK

\* createAndAdvanceAgentLoopStep: the transaction that makes the pointer unique.
LEMMA AdvanceKeeps ==
  ASSUME StoreOK, DeliveriesOK, NEW d \in Delivery, Advance(d)
  PROVE  ChainOK(d)
<1>1. /\ dl[d].pc = "advance" /\ dl[d].pc \in AfterGuard
      /\ dl[d].pc \notin {"idle", "done"} /\ UNCHANGED <<source, runVars>> /\ nDl' = nDl
  BY DEF Advance, AdvanceWhen, AfterGuard
<1>2. /\ dl[d] \in DeliveryRec /\ dl[d].step \in 1..rows
      /\ dl[d].steps < MaxSteps /\ dl[d].iters < MaxIterations
  BY <1>1, Located
<1>3. CASE Finish(d) /\ UNCHANGED <<countVars, rowVars>>
  <2>1. UNCHANGED storeVars
    BY <1>1, <1>3 DEF storeVars
  <2>2. StoreOK' /\ Grows
    BY <2>1, NothingKept
  <2> QED BY <1>1, <1>3, <2>2, FinishOK DEF ChainOK
<1>4. ASSUME cur = dl[d].step, ~AttemptTaken(NextNode(d), dl[d].attempt),
             InsertStep(dl[d].step, NextNode(d), dl[d].attempt, "advance"),
             stepCount' = dl[d].steps + 1,
             iterationCount' = dl[d].iters + (IF dl[d].revisit THEN 1 ELSE 0),
             IF dl[d].hold THEN Finish(d)
             ELSE Become(d, [dl[d] EXCEPT !.pc = "dispatch", !.next = rows + 1])
      PROVE  ChainOK(d)
  <2>1. dl[d].steps \in Nat /\ dl[d].iters \in Nat /\ dl[d].attempt \in Nat
    BY <1>2 DEF DeliveryRec
  <2>2. NextNode(d) \in Node /\ dl[d].attempt <= rows + 1
    BY <1>1 DEF DeliveriesOK, Good, NextNode, NodeOf
  <2>3. /\ stepCount' \in Nat /\ stepCount' <= MaxSteps
        /\ iterationCount' \in Nat /\ iterationCount' <= MaxIterations
    BY <1>2, <1>4, <2>1, ChainAssumption
  <2>4. source' = source /\ status' \in RunStatus /\ startedAt' \in BOOLEAN
    BY <1>1 DEF runVars, StoreOK, StoreTypeOK
  <2>5. StoreOK' /\ Grows
    BY <1>4, <2>1, <2>2, <2>3, <2>4, InsertKept
  <2>6. CASE Finish(d)
    BY <1>1, <2>5, <2>6, FinishOK DEF ChainOK
  <2> DEFINE q == [dl[d] EXCEPT !.pc = "dispatch", !.next = rows + 1]
  <2>7. CASE Become(d, q)
    <3>0. InsertStep(dl[d].step, NextNode(d), dl[d].attempt, "advance")
      BY <1>4
    <3>1. /\ rows + 1 \in 0..MaxRows /\ rows' = rows + 1 /\ rows \in Nat
      BY <3>0, StoreBounds DEF InsertStep, StoreOK, StoreTypeOK, StepId
    <3>2. /\ q \in DeliveryRec /\ q.step = dl[d].step /\ q.pc = "dispatch" /\ q.next = rows + 1
      BY <1>2, <3>1 DEF DeliveryRec, DeliveryPC
    <3>3. Become(d, q)
      BY <2>7
    <3> HIDE DEF q
    <3>4. Good(q, rows', stepRun')
      BY <1>2, <3>1, <3>2 DEF Good, AfterGuard
    <3> QED BY <1>1, <2>5, <3>3, <3>4, DeliveriesStep DEF ChainOK
  <2> QED BY <1>4, <2>6, <2>7
<1> QED BY <1>3, <1>4 DEF Advance, AdvanceWhen

LEMMA DispatchKeeps ==
  ASSUME StoreOK, DeliveriesOK, NEW d \in Delivery, Dispatch(d)
  PROVE  ChainOK(d)
<1>1. dl[d].pc = "dispatch" /\ dl[d].pc \notin {"idle", "done"} /\ UNCHANGED storeVars
  BY DEF Dispatch
<1>2. StoreOK' /\ Grows /\ rows' = rows /\ stepRun' = stepRun
  BY <1>1, NothingKept DEF storeVars, rowVars
<1>3. CASE GoTo(d, "failRun") /\ UNCHANGED nDl
  BY <1>1, <1>2, <1>3, GoToOK DEF Plain, DeliveryPC, AfterGuard, ChainOK
<1>4. CASE TakeSlot /\ dl' = [dl EXCEPT ![d] = Ended(d),
                                        ![nDl + 1] = At("load", dl[d].next, nDl + 1)]
  <2>1. nDl + 1 \in Delivery /\ nDl + 1 \in 0..MaxDeliveries /\ nDl' \in 0..MaxDeliveries
    BY <1>4, StoreBounds DEF TakeSlot, DeliveriesOK, Delivery
  <2>2. dl[d].next \in 1..rows /\ rows \in Nat /\ dl[d].next \in 0..MaxRows
    BY <1>1, StoreBounds DEF DeliveriesOK, Good, StoreOK, StoreTypeOK, StepId
  <2> DEFINE new == At("load", dl[d].next, nDl + 1)
             old == Ended(d)
  <2>3. new \in DeliveryRec /\ Good(new, rows, stepRun)
    BY <2>1, <2>2, AtGood
  <2>4. Good(old, rows, stepRun)
    BY <2>2, EndedGood
  <2>5. old \in DeliveryRec
    BY <2>4 DEF Good
  <2>6. dl' = [[dl EXCEPT ![d] = old] EXCEPT ![nDl + 1] = new]
    BY <1>4
  <2> HIDE DEF new, old
  <2>7. dl \in [Delivery -> DeliveryRec] /\ \A e \in Delivery : Good(dl[e], rows, stepRun)
    BY DEF DeliveriesOK
  <2> DEFINE mid == [dl EXCEPT ![d] = old]
  <2>8. mid \in [Delivery -> DeliveryRec] /\ \A e \in Delivery : Good(mid[e], rows, stepRun)
    <3>1. mid \in [Delivery -> DeliveryRec]
      BY <2>5, <2>7, UpdateType
    <3>2. \A e \in Delivery : mid[e] = IF e = d THEN old ELSE dl[e]
      BY <2>7
    <3> QED BY <3>1, <3>2, <2>4, <2>7
  <2>9. dl' = [mid EXCEPT ![nDl + 1] = new]
    BY <2>6
  <2> HIDE DEF mid
  <2>10. dl' \in [Delivery -> DeliveryRec]
    BY <2>1, <2>3, <2>8, <2>9, UpdateType
  <2>11. \A e \in Delivery : dl'[e] = IF e = nDl + 1 THEN new ELSE mid[e]
    BY <2>8, <2>9
  <2>12. \A e \in Delivery : Good(dl'[e], rows, stepRun)
    BY <2>3, <2>8, <2>11
  <2>13. nDl' = nDl + 1 /\ nDl \in Nat /\ \A e \in Delivery : e \in Nat
    BY <1>4, StoreBounds DEF TakeSlot, DeliveriesOK, Delivery
  <2>14. \A e \in Delivery : e > nDl => dl[e].pc = "idle"
    BY DEF DeliveriesOK
  <2>15. \A e \in Delivery : dl[e].pc # "idle" => e # nDl + 1
    BY <2>1, <2>13, <2>14
  <2>16. \A e \in Delivery : e # d /\ e # nDl + 1 => dl'[e] = dl[e]
    BY <2>7, <2>11 DEF mid
  <2>17. Others(d)
    BY <2>15, <2>16 DEF Others
  <2>18. \A e \in Delivery : e > nDl' => e # d /\ e # nDl + 1 /\ e > nDl
    BY <1>1, <2>13, <2>14
  <2>19. \A e \in Delivery : e > nDl' => dl'[e].pc = "idle"
    BY <2>14, <2>16, <2>18
  <2> QED BY <1>2, <2>1, <2>10, <2>12, <2>17, <2>19 DEF DeliveriesOK, ChainOK
<1> QED BY <1>3, <1>4 DEF Dispatch

LEMMA StepKeeps ==
  ASSUME StoreOK, DeliveriesOK, NEW d \in Delivery, Step(d)
  PROVE  ChainOK(d)
BY LoadKeeps, RunStepKeeps, StepStatusKeeps, EnterKeeps, LocalDuplicateKeeps, ClaimKeeps,
   OutcomeKeeps, ReloadKeeps, PlanKeeps, AdvanceKeeps, DispatchKeeps DEF Step

LEMMA FaultKeeps ==
  ASSUME StoreOK, DeliveriesOK, NEW d \in Delivery,
         Restart(d) \/ Lose(d) \/ Redeliver(d) \/ Throw(d) \/ DispatchFails(d)
  PROVE  ChainOK(d)
<1>1. UNCHANGED storeVars
  BY DEF Restart, Lose, Redeliver, Throw, DispatchFails
<1>2. StoreOK' /\ Grows /\ rows' = rows /\ stepRun' = stepRun
  BY <1>1, NothingKept DEF storeVars, rowVars
<1>3. dl[d].pc \notin {"idle", "done"}
  BY DEF Restart, Lose, Redeliver, Throw, DispatchFails, InFlight
<1>4. dl[d] \in DeliveryRec /\ dl[d].step \in 1..rows /\ rows \in Nat
  BY <1>3, Located, StoreBounds DEF StoreOK, StoreTypeOK, StepId
<1>5. dl[d].step \in 0..MaxRows /\ dl[d].wf \in 0..MaxDeliveries
  BY <1>4 DEF DeliveryRec
<1>6. CASE Restart(d)
  <2>1. Good(At("load", dl[d].step, dl[d].wf), rows', stepRun')
    BY <1>2, <1>4, <1>5, AtGood
  <2> QED BY <1>2, <1>3, <1>6, <2>1, DeliveriesStep DEF Restart, ChainOK
<1>7. CASE Lose(d) \/ DispatchFails(d)
  BY <1>2, <1>3, <1>7, FinishOK DEF Lose, DispatchFails, ChainOK
<1>8. CASE Redeliver(d)
  BY <1>2, <1>4, <1>5, <1>8, DeliveriesStart DEF Redeliver, Others, ChainOK
<1>9. CASE Throw(d)
  BY <1>2, <1>3, <1>9, GoToOK DEF Throw, Plain, DeliveryPC, AfterGuard, ChainOK
<1> QED BY <1>6, <1>7, <1>8, <1>9

-----------------------------------------------------------------------------
(* The watchdog and the requests around a step                             *)

LEMMA WatchdogGrows ==
  ASSUME StoreOK, StoreOK', Grows, WatchdogOK, UNCHANGED watchdogVars,
         \A d \in Delivery : dl[d].pc = "watchdog" => dl'[d].pc = "watchdog"
  PROVE  WatchdogOK'
<1>1. rows \in Nat /\ rows' \in Nat /\ rows <= rows'
  BY StoreBounds DEF StoreOK, StoreTypeOK, StepId, Grows
<1>2. wd' = wd /\ retries' = retries /\ sweep' = sweep
  BY DEF watchdogVars
<1> QED BY <1>1, <1>2 DEF WatchdogOK, WatchdogTypeOK

LEMMA RequestsGrow ==
  ASSUME StoreOK, StoreOK', Grows, RequestsOK, calls' \subseteq calls, spent' \in Spent
  PROVE  RequestsOK'
<1>1. rows \in Nat /\ rows' \in Nat /\ rows <= rows'
  BY StoreBounds DEF StoreOK, StoreTypeOK, StepId, Grows
<1> QED BY <1>1 DEF RequestsOK

\* One more request in flight, for a step of the new table.
LEMMA RequestAdded ==
  ASSUME StoreOK, StoreOK', Grows, RequestsOK, NEW c \in Call, c.step \in 1..rows',
         calls' = calls \cup {c}, spent' \in Spent
  PROVE  RequestsOK'
<1>1. rows \in Nat /\ rows' \in Nat /\ rows <= rows'
  BY StoreBounds DEF StoreOK, StoreTypeOK, StepId, Grows
<1> QED BY <1>1 DEF RequestsOK

LEMMA SpendType ==
  ASSUME RequestsOK, SpendControl \/ SpendFault \/ SpendSweep \/ SpendChange
  PROVE  spent' \in Spent
BY RunBounds DEF RequestsOK, Spent, SpendControl, SpendFault, SpendSweep, SpendChange

\* A delivery whose watchdog runs does not step itself.
LEMMA StepNotWatching ==
  ASSUME NEW d \in Delivery, Step(d) \/ Throw(d)
  PROVE  dl[d].pc # "watchdog" /\ dl[d].pc # "idle"
BY DEF Step, Load, Deny, SkipStep, Begin, Trip, Enter, LocalDuplicate, Claim, ClaimGeneration,
       Correlate, Succeed, Fail, FinishAgent, CompleteRun, EndStep, ThrowStep, FailRun, Reload,
       Plan, Advance, AdvanceWhen, Dispatch, Throw

LEMMA CallerType ==
  /\ Sweeper \in Caller /\ Sweeper \notin Delivery
  /\ \A p \in Caller : p # Sweeper => p \in Delivery
  /\ \A d \in Delivery : d \in Caller /\ d # Sweeper
BY StoreBounds DEF Caller, Sweeper, Delivery

\* The invocation of p goes on, or begins.
LEMMA InvocationKeeps ==
  ASSUME StoreOK, StoreOK', Grows, DeliveriesOK, WatchdogOK, NEW p \in Caller,
         p # Sweeper => dl[p].pc = "watchdog",
         NEW w \in WatchdogRec, w.pc # "off", w.step \in 1..rows,
         w.pc = "dispatch" => w.next \in 1..rows',
         wd' = [wd EXCEPT ![p] = w], UNCHANGED <<dl, nDl, retries, sweep>>
  PROVE  DeliveriesOK' /\ WatchdogOK'
<1>1. rows \in Nat /\ rows' \in Nat /\ rows <= rows'
  BY StoreBounds DEF StoreOK, StoreTypeOK, StepId, Grows
<1>2. DeliveriesOK'
  BY DeliveriesGrow DEF chainVars
<1>3. wd \in [Caller -> WatchdogRec]
  BY DEF WatchdogOK, WatchdogTypeOK
<1>4. wd' \in [Caller -> WatchdogRec]
  BY <1>3, UpdateType
<1>5. \A q \in Caller : wd'[q] = IF q = p THEN w ELSE wd[q]
  BY <1>3
<1>6. WatchdogTypeOK'
  BY <1>4 DEF WatchdogOK, WatchdogTypeOK
<1>7. (\A q \in Caller : wd[q].pc # "off" => wd[q].step \in 1..rows)'
  BY <1>1, <1>5 DEF WatchdogOK
<1>8. (\A q \in Caller : wd[q].pc = "dispatch" => wd[q].next \in 1..rows)'
  BY <1>1, <1>5 DEF WatchdogOK
<1>9. (\A d \in Delivery : wd[d].pc # "off" => dl[d].pc = "watchdog")'
  BY <1>5, CallerType DEF WatchdogOK
<1> QED BY <1>1, <1>2, <1>6, <1>7, <1>8, <1>9 DEF WatchdogOK

\* The invocation of p is over.
LEMMA ReturnKeeps ==
  ASSUME StoreOK, StoreOK', Grows, DeliveriesOK, WatchdogOK, NEW p \in Caller,
         p # Sweeper => dl[p].pc = "watchdog",
         NEW invoked, Return(p, invoked), nDl' = nDl, retries' \in [Node -> Nat]
  PROVE  DeliveriesOK' /\ WatchdogOK'
<1>1. rows \in Nat /\ rows' \in Nat /\ rows <= rows'
  BY StoreBounds DEF StoreOK, StoreTypeOK, StepId, Grows
<1>2. wd \in [Caller -> WatchdogRec] /\ sweep \in [pc : SweepPC, step : 0..MaxRows]
  BY DEF WatchdogOK, WatchdogTypeOK
<1>3. Off \in WatchdogRec /\ Off.pc = "off"
  BY StoreBounds DEF Off, WatchdogRec, WatchdogPC, Decision
<1>4. wd' = [wd EXCEPT ![p] = Off]
  BY DEF Return
<1>5. wd' \in [Caller -> WatchdogRec]
  BY <1>2, <1>3, <1>4, UpdateType
<1>6. \A q \in Caller : wd'[q] = IF q = p THEN Off ELSE wd[q]
  BY <1>2, <1>4
<1>7. (\A q \in Caller : wd[q].pc # "off" => wd[q].step \in 1..rows)'
  BY <1>1, <1>3, <1>6 DEF WatchdogOK
<1>8. (\A q \in Caller : wd[q].pc = "dispatch" => wd[q].next \in 1..rows)'
  BY <1>1, <1>3, <1>6 DEF WatchdogOK
<1>9. CASE p = Sweeper
  <2>1. sweep' = [pc |-> "idle", step |-> 0] /\ dl' = dl
    BY <1>9 DEF Return
  <2>2. sweep' \in [pc : SweepPC, step : 0..MaxRows] /\ sweep'.pc = "idle"
    BY <2>1, StoreBounds DEF SweepPC
  <2>3. DeliveriesOK'
    BY <2>1, DeliveriesGrow DEF chainVars
  <2>4. (\A d \in Delivery : wd[d].pc # "off" => dl[d].pc = "watchdog")'
    BY <1>6, <1>9, <2>1, CallerType DEF WatchdogOK
  <2> QED BY <1>5, <1>7, <1>8, <2>2, <2>3, <2>4 DEF WatchdogOK, WatchdogTypeOK
<1>10. CASE p # Sweeper
  <2>1. sweep' = sweep /\ GoToOrFinish(p, ~invoked, "failRun")
    BY <1>10 DEF Return
  <2>2. p \in Delivery /\ dl[p].pc \notin {"idle", "done"}
    BY <1>10, CallerType
  <2>3. DeliveriesOK' /\ Others(p)
    BY <2>1, <2>2, GoToOrFinishOK DEF Plain, DeliveryPC, AfterGuard
  <2>4. (\A d \in Delivery : wd[d].pc # "off" => dl[d].pc = "watchdog")'
    BY <1>3, <1>6, <2>3, CallerType DEF WatchdogOK, Others
  <2>5. (sweep.pc = "watchdog" => sweep.step \in 1..rows)'
    BY <1>1, <2>1 DEF WatchdogOK
  <2> QED BY <1>2, <1>5, <1>7, <1>8, <2>1, <2>3, <2>4, <2>5 DEF WatchdogOK, WatchdogTypeOK
<1> QED BY <1>9, <1>10

-----------------------------------------------------------------------------
(* The steps of an invocation                                              *)

WatchOK == StoreOK' /\ Grows /\ DeliveriesOK' /\ WatchdogOK'

\* What an invocation under way knows.
LEMMA Invoked ==
  ASSUME StoreOK, WatchdogOK, NEW p \in Caller, wd[p].pc # "off"
  PROVE  /\ wd[p] \in WatchdogRec
         /\ wd[p].step \in 1..rows
         /\ p # Sweeper => dl[p].pc = "watchdog"
         /\ retries \in [Node -> Nat]
BY CallerType DEF WatchdogOK, WatchdogTypeOK

LEMMA OpenKeeps ==
  ASSUME StoreOK, DeliveriesOK, WatchdogOK, NEW p \in Caller, Open(p)
  PROVE  WatchOK
<1>1. UNCHANGED <<storeVars, nDl, retries>> /\ Calls(p)
  BY DEF Open
<1>2. StoreOK' /\ Grows
  BY <1>1, NothingKept
<1>3. p # Sweeper => dl[p].pc = "watchdog"
  BY <1>1 DEF Calls
<1>4. Diagnosed(p) \in 1..rows /\ Diagnosed(p) \in 0..MaxRows
  <2>1. Diagnosed(p) \in 1..rows
    <3>1. CASE p = Sweeper
      BY <1>1, <3>1 DEF Calls, Diagnosed, WatchdogOK
    <3>2. CASE p # Sweeper
      <4>1. p \in Delivery /\ dl[p].pc \notin {"idle", "done"}
        BY <1>3, <3>2, CallerType
      <4> QED BY <3>2, <4>1, Located DEF Diagnosed
    <3> QED BY <3>1, <3>2
  <2> QED BY <2>1, StoreBounds DEF StoreOK, StoreTypeOK, StepId
<1>5. retries' \in [Node -> Nat]
  BY <1>1 DEF WatchdogOK, WatchdogTypeOK
<1>6. CASE Return(p, FALSE)
  BY <1>1, <1>2, <1>3, <1>5, <1>6, ReturnKeeps DEF WatchOK
<1>7. ASSUME NEW spentNow \in BOOLEAN, UNCHANGED <<dl, sweep>>,
             wd' = [wd EXCEPT ![p] = [pc       |-> IF spentNow THEN "apply" ELSE "decide",
                                      step     |-> Diagnosed(p),
                                      decision |-> IF spentNow THEN "pause" ELSE "none",
                                      next     |-> 0]]
      PROVE  WatchOK
  <2> DEFINE w == [pc       |-> IF spentNow THEN "apply" ELSE "decide",
                   step     |-> Diagnosed(p),
                   decision |-> IF spentNow THEN "pause" ELSE "none",
                   next     |-> 0]
  <2>1. w \in WatchdogRec /\ w.pc \in {"apply", "decide"} /\ w.step = Diagnosed(p)
    BY <1>4, StoreBounds DEF WatchdogRec, WatchdogPC, Decision
  <2>2. wd' = [wd EXCEPT ![p] = w]
    BY <1>7
  <2> HIDE DEF w
  <2> QED BY <1>1, <1>2, <1>3, <1>4, <1>7, <2>1, <2>2, InvocationKeeps DEF WatchOK
<1> QED BY <1>6, <1>7 DEF Open

\* An invocation that moves to pc, keeping the step it diagnosed.
LEMMA MoveKeeps ==
  ASSUME StoreOK, StoreOK', Grows, DeliveriesOK, WatchdogOK, NEW p \in Caller, wd[p].pc # "off",
         NEW pc \in {"decide", "apply", "record"}, NEW decision \in Decision \cup {"none"},
         \/ wd' = [wd EXCEPT ![p].pc = pc]
         \/ wd' = [wd EXCEPT ![p].pc = pc, ![p].decision = decision],
         UNCHANGED <<dl, nDl, retries, sweep>>
  PROVE  WatchOK
<1>1. /\ wd[p] \in WatchdogRec /\ wd[p].step \in 1..rows
      /\ p # Sweeper => dl[p].pc = "watchdog"
  BY Invoked
<1>2. wd \in [Caller -> WatchdogRec]
  BY DEF WatchdogOK, WatchdogTypeOK
<1> DEFINE u == [wd[p] EXCEPT !.pc = pc]
           v == [wd[p] EXCEPT !.pc = pc, !.decision = decision]
<1>3. u \in WatchdogRec /\ u.pc = pc /\ u.step = wd[p].step
  BY <1>1 DEF WatchdogRec, WatchdogPC
<1>4. v \in WatchdogRec /\ v.pc = pc /\ v.step = wd[p].step
  BY <1>1 DEF WatchdogRec, WatchdogPC
<1>5. wd' = [wd EXCEPT ![p] = u] \/ wd' = [wd EXCEPT ![p] = v]
  BY <1>2
<1> HIDE DEF u, v
<1>6. ASSUME NEW w \in {u, v}, wd' = [wd EXCEPT ![p] = w]
      PROVE  WatchOK
  BY <1>1, <1>3, <1>4, <1>6, InvocationKeeps DEF WatchOK
<1> QED BY <1>5, <1>6

LEMMA DecideKeeps ==
  ASSUME StoreOK, DeliveriesOK, WatchdogOK, NEW p \in Caller, Decide(p)
  PROVE  WatchOK
<1>1. UNCHANGED <<storeVars, nDl, retries>> /\ wd[p].pc # "off"
  BY DEF Decide
<1>2. StoreOK' /\ Grows
  BY <1>1, NothingKept
<1>3. (p # Sweeper => dl[p].pc = "watchdog") /\ retries' \in [Node -> Nat]
  BY <1>1, Invoked
<1>4. CASE Return(p, FALSE)
  BY <1>1, <1>2, <1>3, <1>4, ReturnKeeps DEF WatchOK
<1>5. ASSUME NEW decision \in Decision, UNCHANGED <<dl, sweep>>,
             wd' = [wd EXCEPT ![p].pc = "apply", ![p].decision = decision]
      PROVE  WatchOK
  BY <1>1, <1>2, <1>5, MoveKeeps
<1>6. CASE \E answer \in Decision :
             wd' = [wd EXCEPT ![p].pc = "apply",
                              ![p].decision = IF answer = "skip" /\ p = Sweeper
                                              THEN "pause" ELSE answer]
  <2>1. PICK answer \in Decision :
             wd' = [wd EXCEPT ![p].pc = "apply",
                              ![p].decision = IF answer = "skip" /\ p = Sweeper
                                              THEN "pause" ELSE answer]
    BY <1>6
  <2> DEFINE decision == IF answer = "skip" /\ p = Sweeper THEN "pause" ELSE answer
  <2>2. decision \in Decision
    BY DEF Decision
  <2>3. wd' = [wd EXCEPT ![p].pc = "apply", ![p].decision = decision]
    BY <2>1
  <2> HIDE DEF decision
  <2>4. CASE UNCHANGED <<dl, sweep>>
    BY <1>5, <2>2, <2>3, <2>4
  <2> QED BY <1>4, <2>4 DEF Decide
<1> QED BY <1>4, <1>6 DEF Decide

\* retryCurrentStepForWatchdog.
LEMMA ApplyRetryKeeps ==
  ASSUME StoreOK, DeliveriesOK, WatchdogOK, NEW p \in Caller, ApplyRetry(p)
  PROVE  WatchOK
<1>1. /\ wd[p].pc # "off" /\ cur = wd[p].step /\ UNCHANGED <<source, stepCount, iterationCount>>
      /\ InsertStep(wd[p].step, NodeOf(cur), MaxAttempt(NodeOf(cur)) + 1, "watchdog")
      /\ SetStatus("running") /\ UNCHANGED <<chainVars, retries, sweep>>
      /\ wd' = [wd EXCEPT ![p].pc = "dispatch", ![p].next = rows + 1]
  BY DEF ApplyRetry, CanRetry
<1>2. InsertStep(cur, NodeOf(cur), MaxAttempt(NodeOf(cur)) + 1, "watchdog")
  BY <1>1
<1>3. StoreOK' /\ Grows
  BY <1>1, <1>2, RetryKept
<1>4. /\ wd[p] \in WatchdogRec /\ wd[p].step \in 1..rows
      /\ p # Sweeper => dl[p].pc = "watchdog"
  BY <1>1, Invoked
<1>5. wd \in [Caller -> WatchdogRec]
  BY DEF WatchdogOK, WatchdogTypeOK
<1>6. rows' = rows + 1 /\ rows + 1 \in 0..MaxRows /\ rows \in Nat
  BY <1>2, StoreBounds DEF InsertStep, StoreOK, StoreTypeOK, StepId
<1> DEFINE w == [wd[p] EXCEPT !.pc = "dispatch", !.next = rows + 1]
<1>7. w \in WatchdogRec /\ w.pc # "off" /\ w.step = wd[p].step /\ w.next = rows + 1
  BY <1>4, <1>6 DEF WatchdogRec, WatchdogPC
<1>8. wd' = [wd EXCEPT ![p] = w]
  BY <1>1, <1>5
<1> HIDE DEF w
<1>9. w.next \in 1..rows' /\ w.step \in 1..rows
  BY <1>4, <1>6, <1>7
<1>10. UNCHANGED <<dl, nDl, retries, sweep>>
  BY <1>1 DEF chainVars
<1> QED BY <1>3, <1>4, <1>7, <1>8, <1>9, <1>10, InvocationKeeps DEF WatchOK

\* pauseLoopRunSystem, after a pause decision or a refused retry.
LEMMA PauseKeeps ==
  ASSUME StoreOK, DeliveriesOK, WatchdogOK, NEW p \in Caller, RetryRefused(p) \/ ApplyPause(p)
  PROVE  WatchOK
<1>1. /\ wd[p].pc # "off" /\ UNCHANGED <<source, countVars, rowVars>>
      /\ UNCHANGED <<nDl, retries>> /\ Transition("paused", PauseFrom)
  BY DEF RetryRefused, ApplyPause, PauseSystem
<1>2. StoreOK' /\ Grows
  BY <1>1, TransitionKept DEF RunStatus
<1>3. (p # Sweeper => dl[p].pc = "watchdog") /\ retries' \in [Node -> Nat]
  BY <1>1, Invoked
<1>4. CASE Return(p, FALSE)
  BY <1>1, <1>2, <1>3, <1>4, ReturnKeeps DEF WatchOK
<1>5. CASE /\ wd' = [wd EXCEPT ![p].pc = "record", ![p].decision = "pause"]
           /\ UNCHANGED <<dl, sweep>>
  <2>1. "pause" \in Decision
    BY DEF Decision
  <2> QED BY <1>1, <1>2, <1>5, <2>1, MoveKeeps
<1>6. CASE Continue(p, "record")
  <2>1. wd' = [wd EXCEPT ![p].pc = "record"] /\ UNCHANGED <<dl, sweep>>
    BY <1>6 DEF Continue
  <2> QED BY <1>1, <1>2, <2>1, MoveKeeps
<1> QED BY <1>4, <1>5, <1>6 DEF RetryRefused, ApplyPause, PauseSystem

LEMMA RetryDispatchKeeps ==
  ASSUME StoreOK, DeliveriesOK, WatchdogOK, NEW p \in Caller, RetryDispatch(p)
  PROVE  WatchOK
<1>1. /\ wd[p].pc = "dispatch" /\ wd[p].pc # "off" /\ UNCHANGED storeVars /\ retries' = retries
  BY DEF RetryDispatch
<1>2. StoreOK' /\ Grows /\ rows' = rows
  BY <1>1, NothingKept DEF storeVars, rowVars
<1>3. /\ wd[p] \in WatchdogRec /\ wd[p].step \in 1..rows
      /\ p # Sweeper => dl[p].pc = "watchdog"
      /\ retries' \in [Node -> Nat]
  BY <1>1, Invoked
<1>4. CASE Return(p, FALSE) /\ UNCHANGED nDl
  BY <1>1, <1>2, <1>3, <1>4, ReturnKeeps DEF WatchOK
<1>5. CASE /\ TakeSlot
           /\ dl' = [dl EXCEPT ![nDl + 1] = At("load", wd[p].next, nDl + 1)]
           /\ wd' = [wd EXCEPT ![p].pc = "record"]
           /\ UNCHANGED sweep
  <2>1. wd[p].next \in 1..rows
    BY <1>1 DEF WatchdogOK
  <2>2. nDl + 1 \in 0..MaxDeliveries
    BY <1>5, StoreBounds DEF TakeSlot, DeliveriesOK
  <2>3. /\ DeliveriesOK'
        /\ \A e \in Delivery : dl[e].pc # "idle" => dl'[e] = dl[e]
    BY <1>2, <1>5, <2>1, <2>2, DeliveriesStart
  <2>4. wd \in [Caller -> WatchdogRec]
    BY DEF WatchdogOK, WatchdogTypeOK
  <2> DEFINE w == [wd[p] EXCEPT !.pc = "record"]
  <2>5. w \in WatchdogRec /\ w.pc = "record" /\ w.step = wd[p].step
    BY <1>3 DEF WatchdogRec, WatchdogPC
  <2>6. wd' = [wd EXCEPT ![p] = w]
    BY <1>5, <2>4
  <2> HIDE DEF w
  <2>7. wd' \in [Caller -> WatchdogRec]
    BY <2>4, <2>5, <2>6, UpdateType
  <2>8. \A q \in Caller : wd'[q] = IF q = p THEN w ELSE wd[q]
    BY <2>4, <2>6
  <2>9. WatchdogTypeOK'
    BY <1>1, <1>5, <2>7 DEF WatchdogOK, WatchdogTypeOK
  <2>10. (\A q \in Caller : wd[q].pc # "off" => wd[q].step \in 1..rows)'
    BY <1>2, <1>3, <2>5, <2>8 DEF WatchdogOK
  <2>11. (\A q \in Caller : wd[q].pc = "dispatch" => wd[q].next \in 1..rows)'
    BY <1>2, <2>5, <2>8 DEF WatchdogOK
  <2>12. (\A d \in Delivery : wd[d].pc # "off" => dl[d].pc = "watchdog")'
    <3>1. \A d \in Delivery : wd'[d].pc # "off" => dl[d].pc = "watchdog"
      BY <1>3, <2>8, CallerType DEF WatchdogOK
    <3> QED BY <2>3, <3>1
  <2> QED BY <1>2, <1>5, <2>3, <2>9, <2>10, <2>11, <2>12 DEF WatchOK, WatchdogOK
<1> QED BY <1>4, <1>5 DEF RetryDispatch

LEMMA RecordKeeps ==
  ASSUME StoreOK, DeliveriesOK, WatchdogOK, NEW p \in Caller, Record(p)
  PROVE  WatchOK
<1>1. UNCHANGED <<storeVars, nDl>> /\ wd[p].pc # "off" /\ Return(p, TRUE)
  BY DEF Record
<1>2. StoreOK' /\ Grows
  BY <1>1, NothingKept
<1>3. /\ p # Sweeper => dl[p].pc = "watchdog"
      /\ retries \in [Node -> Nat] /\ wd[p].step \in 1..rows
  BY <1>1, Invoked
<1>4. NodeOf(wd[p].step) \in Node
  <2>1. wd[p].step \in StepId
    BY <1>3, StoreBounds DEF StoreOK, StoreTypeOK, StepId
  <2> QED BY <2>1 DEF NodeOf, StoreOK, StoreTypeOK, StepRow
<1>5. retries' \in [Node -> Nat]
  <2>1. CASE retries' = retries
    BY <1>3, <2>1
  <2>2. CASE retries' = [retries EXCEPT ![NodeOf(wd[p].step)] = @ + 1]
    <3>1. retries[NodeOf(wd[p].step)] + 1 \in Nat
      BY <1>3, <1>4
    <3> QED BY <1>3, <1>4, <2>2, <3>1, UpdateType
  <2> QED BY <2>1, <2>2 DEF Record
<1> QED BY <1>1, <1>2, <1>3, <1>5, ReturnKeeps DEF WatchOK

LEMMA WatchFaultKeeps ==
  ASSUME StoreOK, DeliveriesOK, WatchdogOK, NEW p \in Caller,
         RetryDispatchFails(p) \/ WatchdogThrows(p)
  PROVE  WatchOK
<1>1. UNCHANGED <<storeVars, nDl, retries>> /\ wd[p].pc # "off"
  BY DEF RetryDispatchFails, WatchdogThrows
<1>2. StoreOK' /\ Grows
  BY <1>1, NothingKept
<1>3. (p # Sweeper => dl[p].pc = "watchdog") /\ retries' \in [Node -> Nat]
  BY <1>1, Invoked
<1>4. CASE Return(p, FALSE)
  BY <1>1, <1>2, <1>3, <1>4, ReturnKeeps DEF WatchOK
<1>5. CASE Continue(p, "record")
  <2>1. wd' = [wd EXCEPT ![p].pc = "record"] /\ UNCHANGED <<dl, sweep>>
    BY <1>5 DEF Continue
  <2> QED BY <1>1, <1>2, <2>1, MoveKeeps
<1> QED BY <1>4, <1>5 DEF RetryDispatchFails, WatchdogThrows

LEMMA WatchKeeps ==
  ASSUME StoreOK, DeliveriesOK, WatchdogOK, NEW p \in Caller, Watchdog(p)
  PROVE  WatchOK
BY OpenKeeps, DecideKeeps, ApplyRetryKeeps, PauseKeeps, RetryDispatchKeeps, RecordKeeps DEF Watchdog

-----------------------------------------------------------------------------
(* The sweep and the requests                                              *)

\* An action that touches neither deliveries nor invocations.
Quiet == StoreOK' /\ Grows /\ DeliveriesOK' /\ WatchdogOK'

LEMMA QuietKeeps ==
  ASSUME Inv, StoreOK', Grows, UNCHANGED <<chainVars, watchdogVars>>
  PROVE  Quiet
<1>1. UNCHANGED chainVars /\ UNCHANGED watchdogVars /\ dl' = dl
  BY DEF chainVars
<1>2. DeliveriesOK'
  BY <1>1, DeliveriesGrow DEF Inv
<1>3. WatchdogOK'
  BY <1>1, WatchdogGrows DEF Inv
<1> QED BY <1>2, <1>3 DEF Quiet

\* The sweep moves; invocations of deliveries do not.
LEMMA SweepMoves ==
  ASSUME Inv, StoreOK', Grows, UNCHANGED <<chainVars, retries>>,
         wd' = wd \/ wd' = [wd EXCEPT ![Sweeper] = Off],
         NEW pc \in SweepPC, NEW s \in 0..MaxRows, sweep' = [pc |-> pc, step |-> s],
         pc = "watchdog" => s \in 1..rows
  PROVE  Quiet
<1>1. rows \in Nat /\ rows' \in Nat /\ rows <= rows'
  BY StoreBounds DEF Inv, StoreOK, StoreTypeOK, StepId, Grows
<1>2. dl' = dl /\ nDl' = nDl
  BY DEF chainVars
<1>3. DeliveriesOK'
  BY DeliveriesGrow DEF Inv
<1>4. Off \in WatchdogRec /\ Off.pc = "off"
  BY StoreBounds DEF Off, WatchdogRec, WatchdogPC, Decision
<1>5. wd \in [Caller -> WatchdogRec]
  BY DEF Inv, WatchdogOK, WatchdogTypeOK
<1>6. wd' \in [Caller -> WatchdogRec] /\ \A q \in Caller : wd'[q] \in {Off, wd[q]}
  BY <1>4, <1>5
<1>7. sweep' \in [pc : SweepPC, step : 0..MaxRows] /\ sweep'.pc = pc /\ sweep'.step = s
  OBVIOUS
<1>8. WatchdogTypeOK'
  BY <1>6, <1>7 DEF Inv, WatchdogOK, WatchdogTypeOK
<1>9. (\A q \in Caller : wd[q].pc # "off" => wd[q].step \in 1..rows)'
  BY <1>1, <1>4, <1>6 DEF Inv, WatchdogOK
<1>10. (\A q \in Caller : wd[q].pc = "dispatch" => wd[q].next \in 1..rows)'
  BY <1>1, <1>4, <1>6 DEF Inv, WatchdogOK
<1>11. (\A d \in Delivery : wd[d].pc # "off" => dl[d].pc = "watchdog")'
  BY <1>2, <1>4, <1>6, CallerType DEF Inv, WatchdogOK
<1>12. (sweep.pc = "watchdog" => sweep.step \in 1..rows)'
  BY <1>1, <1>7
<1> QED BY <1>3, <1>8, <1>9, <1>10, <1>11, <1>12 DEF Quiet, WatchdogOK

LEMMA SweepKeeps ==
  ASSUME Inv, Stall \/ SweepRead \/ SweepRevoke \/ SweepCrash
  PROVE  Quiet
<1>1. UNCHANGED <<chainVars, retries>>
  BY DEF Stall, SweepRead, SweepRevoke, SweepCrash
<1>2. StoreOK' /\ Grows
  <2>1. CASE UNCHANGED storeVars
    BY <2>1, NothingKept DEF Inv
  <2>2. CASE /\ UNCHANGED <<source, countVars, rowVars>>
             /\ \E to \in RunStatus, from \in SUBSET RunStatus : SetStatus(to) \/ Transition(to, from)
    BY <2>2, TransitionKept DEF Inv
  <2>3. "stalled" \in RunStatus /\ "failed" \in RunStatus /\ {"stalled"} \in SUBSET RunStatus
    BY DEF RunStatus
  <2> QED BY <2>1, <2>2, <2>3 DEF Stall, SweepRead, SweepRevoke, SweepCrash
<1>3. wd' = wd \/ wd' = [wd EXCEPT ![Sweeper] = Off]
  BY DEF Stall, SweepRead, SweepRevoke, SweepCrash
<1>4. 0 \in 0..MaxRows /\ cur \in 1..rows /\ cur \in 0..MaxRows
  BY StoreBounds DEF Inv, StoreOK, StoreTypeOK, StepId
<1>5. \E pc \in SweepPC, s \in 0..MaxRows :
        sweep' = [pc |-> pc, step |-> s] /\ (pc = "watchdog" => s \in 1..rows)
  BY <1>4 DEF Stall, SweepRead, SweepRevoke, SweepCrash, SweepPC
<1> QED BY <1>1, <1>2, <1>3, <1>5, SweepMoves

\* Operator requests: the run moves, and a start() call may be added.
LEMMA ControlKeeps ==
  ASSUME Inv, Pause \/ Cancel \/ Resume \/ Retry
  PROVE  Inv'
<1>1. UNCHANGED <<chainVars, watchdogVars>> /\ source' = source /\ SpendControl
  BY DEF Pause, Cancel, Resume, Retry
<1>2. spent' \in Spent
  BY <1>1, SpendType DEF Inv
<1>3. StoreOK /\ RequestsOK /\ cur \in 1..rows /\ cur \in StepId
  BY StoreBounds DEF Inv, StoreOK, StoreTypeOK, StepId
<1>4. CASE Pause \/ Cancel
  <2>1. UNCHANGED <<source, countVars, rowVars>> /\ calls' = calls
    BY <1>4 DEF Pause, Cancel
  <2>2. SetStatus("paused") \/ SetStatus("cancelled")
    BY <1>4 DEF Pause, Cancel
  <2>3. StoreOK' /\ Grows
    BY <1>3, <2>1, <2>2, TransitionKept DEF RunStatus
  <2>4. RequestsOK'
    BY <1>2, <1>3, <2>1, <2>3, RequestsGrow
  <2> QED BY <1>1, <2>3, <2>4, QuietKeeps DEF Quiet, Inv
<1>5. CASE Resume
  <2> DEFINE c == [kind |-> "resume", step |-> cur, failed |-> FALSE]
  <2>1. /\ UNCHANGED <<source, countVars, rowVars>> /\ SetStatus("running")
        /\ calls' = calls \cup {c}
    BY <1>5 DEF Resume
  <2>2. StoreOK' /\ Grows /\ rows' = rows
    BY <1>3, <2>1, TransitionKept DEF RunStatus, rowVars
  <2>3. c \in Call /\ c.step \in 1..rows'
    BY <1>3, <2>2 DEF Call, CallKind
  <2> HIDE DEF c
  <2>4. RequestsOK'
    BY <1>2, <1>3, <2>1, <2>2, <2>3, RequestAdded
  <2> QED BY <1>1, <2>2, <2>4, QuietKeeps DEF Quiet, Inv
<1>6. CASE Retry
  <2>1. SetStatus("running") /\ UNCHANGED <<source, stepCount, iterationCount>>
    BY <1>6 DEF Retry
  <2>2. CASE /\ calls' = calls \cup {[kind |-> "retry", step |-> cur, failed |-> FALSE]}
             /\ UNCHANGED <<cur, rowVars>>
    <3> DEFINE c == [kind |-> "retry", step |-> cur, failed |-> FALSE]
    <3>1. UNCHANGED <<source, countVars, rowVars>> /\ calls' = calls \cup {c}
      BY <2>1, <2>2 DEF countVars
    <3>2. StoreOK' /\ Grows /\ rows' = rows
      BY <1>3, <2>1, <3>1, TransitionKept DEF RunStatus, rowVars
    <3>3. c \in Call /\ c.step \in 1..rows'
      BY <1>3, <3>2 DEF Call, CallKind
    <3> HIDE DEF c
    <3>4. RequestsOK'
      BY <1>2, <1>3, <3>1, <3>2, <3>3, RequestAdded
    <3> QED BY <1>1, <3>2, <3>4, QuietKeeps DEF Quiet, Inv
  <2>3. CASE /\ InsertStep(cur, NodeOf(cur), MaxAttempt(NodeOf(cur)) + 1, "retry")
             /\ calls' = calls \cup {[kind |-> "retry", step |-> rows + 1, failed |-> FALSE]}
    <3> DEFINE c == [kind |-> "retry", step |-> rows + 1, failed |-> FALSE]
    <3>1. StoreOK' /\ Grows
      BY <1>3, <2>1, <2>3, RetryKept
    <3>2. rows' = rows + 1 /\ rows + 1 \in StepId /\ rows \in Nat
      BY <1>3, <2>3, StoreBounds DEF InsertStep, StoreOK, StoreTypeOK, StepId
    <3>3. c \in Call /\ c.step \in 1..rows'
      BY <3>2 DEF Call, CallKind
    <3>4. calls' = calls \cup {c}
      BY <2>3
    <3> HIDE DEF c
    <3>5. RequestsOK'
      BY <1>2, <1>3, <3>1, <3>3, <3>4, RequestAdded
    <3> QED BY <1>1, <3>1, <3>5, QuietKeeps DEF Quiet, Inv
  <2> QED BY <1>6, <2>2, <2>3 DEF Retry
<1> QED BY <1>4, <1>5, <1>6

LEMMA RequestKeeps ==
  ASSUME Inv, NEW c, StartCall(c) \/ FailCall(c) \/ StartCallFails(c) \/ CallCrash(c)
  PROVE  Inv'
<1>1. StoreOK /\ DeliveriesOK /\ WatchdogOK /\ RequestsOK /\ UNCHANGED watchdogVars
  BY DEF Inv, StartCall, FailCall, StartCallFails, CallCrash
<1>2. c \in calls /\ c \in Call /\ c.step \in 1..rows
  BY <1>1 DEF StartCall, FailCall, StartCallFails, CallCrash, RequestsOK
<1>3. spent' \in Spent
  BY <1>1, SpendType DEF StartCall, FailCall, StartCallFails, CallCrash, RequestsOK
<1>4. CASE StartCall(c)
  <2>1. StoreOK' /\ Grows /\ UNCHANGED storeVars /\ calls' \subseteq calls
    BY <1>1, <1>4, NothingKept DEF StartCall
  <2>2. nDl + 1 \in 0..MaxDeliveries
    BY <1>1, <1>4, StoreBounds DEF StartCall, TakeSlot, DeliveriesOK
  <2>3. DeliveriesOK' /\ \A e \in Delivery : dl[e].pc # "idle" => dl'[e] = dl[e]
    BY <1>1, <1>2, <1>4, <2>1, <2>2, DeliveriesStart DEF StartCall
  <2>4. WatchdogOK'
    BY <1>1, <2>1, <2>3, WatchdogGrows
  <2>5. RequestsOK'
    BY <1>1, <1>3, <2>1, RequestsGrow
  <2> QED BY <2>1, <2>3, <2>4, <2>5 DEF Inv
<1>5. CASE FailCall(c) \/ CallCrash(c)
  <2>1. UNCHANGED <<source, countVars, rowVars>> /\ UNCHANGED chainVars /\ calls' \subseteq calls
    BY <1>5 DEF FailCall, CallCrash, storeVars
  <2>2. UNCHANGED storeVars \/ \E from \in SUBSET RunStatus : Transition("failed", from)
    <3>1. {"running", "queued", "paused"} \in SUBSET RunStatus /\ {"queued", "running"} \in SUBSET RunStatus
      BY DEF RunStatus
    <3> QED BY <1>5, <3>1 DEF FailCall, CallCrash
  <2>3. StoreOK' /\ Grows
    BY <1>1, <2>1, <2>2, NothingKept, TransitionKept DEF RunStatus
  <2>4. RequestsOK'
    BY <1>1, <1>3, <2>1, <2>3, RequestsGrow
  <2> QED BY <1>1, <2>1, <2>3, <2>4, QuietKeeps DEF Quiet, Inv
<1>6. CASE StartCallFails(c)
  <2>1. UNCHANGED storeVars /\ UNCHANGED chainVars
    BY <1>6 DEF StartCallFails
  <2>2. StoreOK' /\ Grows /\ rows' = rows
    BY <1>1, <2>1, NothingKept DEF storeVars, rowVars
  <2>3. [c EXCEPT !.failed = TRUE] \in Call /\ [c EXCEPT !.failed = TRUE].step \in 1..rows
    BY <1>2 DEF Call
  <2>4. calls' = (calls \ {c}) \cup {[c EXCEPT !.failed = TRUE]}
    BY <1>6 DEF StartCallFails
  <2>5. RequestsOK'
    BY <1>1, <1>3, <2>2, <2>3, <2>4 DEF RequestsOK
  <2> QED BY <1>1, <2>1, <2>2, <2>5, QuietKeeps DEF Quiet, Inv
<1> QED BY <1>4, <1>5, <1>6

\* The owner, the policy, and deleteAgentLoop.
LEMMA SourceKeeps ==
  ASSUME Inv, ChangeSource \/ DeleteSource
  PROVE  Inv'
<1>1. /\ StoreOK /\ RequestsOK /\ UNCHANGED <<chainVars, watchdogVars>> /\ calls' = calls
      /\ SpendChange
  BY DEF Inv, ChangeSource, DeleteSource
<1>2. spent' \in Spent
  BY <1>1, SpendType
<1>3. CASE ChangeSource
  <2>1. /\ source' \in SourceState /\ status' = status /\ startedAt' = startedAt
        /\ UNCHANGED <<countVars, rowVars>>
    BY <1>3 DEF ChangeSource, SourceState, runVars
  <2>2. StoreOK' /\ Grows
    BY <1>1, <2>1, RunKept DEF StoreOK, StoreTypeOK
  <2>3. RequestsOK'
    BY <1>1, <1>2, <2>2, RequestsGrow
  <2> QED BY <1>1, <2>2, <2>3, QuietKeeps DEF Quiet, Inv
<1>4. CASE DeleteSource
  <2>1. stepRun \in [StepId -> StepRow] /\ hist \in [StepId -> HistRow]
    BY <1>1 DEF StoreOK, StoreTypeOK
  <2>2. /\ source' \in SourceState /\ UNCHANGED <<countVars, rows>> /\ hist' = hist
        /\ status' \in RunStatus /\ startedAt' \in BOOLEAN
    <3>1. SetStatus("cancelled") \/ UNCHANGED runVars
      BY <1>4 DEF DeleteSource
    <3>2. status' \in RunStatus /\ startedAt' \in BOOLEAN
      BY <1>1, <3>1, StatusType DEF RunStatus, runVars, StoreOK, StoreTypeOK
    <3> QED BY <1>4, <3>2 DEF DeleteSource, SourceState
  <2>3. /\ stepRun' \in [StepId -> StepRow]
        /\ \A s \in StepId : /\ stepRun'[s].node = stepRun[s].node
                             /\ stepRun'[s].attempt = stepRun[s].attempt
    <3>1. CASE stepRun' = stepRun
      BY <2>1, <3>1
    <3>2. CASE stepRun' = [s \in StepId |->
                  IF s <= rows /\ stepRun[s].status \in {"queued", "running"}
                  THEN [stepRun[s] EXCEPT !.status = "skipped"] ELSE stepRun[s]]
      <4>1. \A s \in StepId :
               /\ [stepRun[s] EXCEPT !.status = "skipped"] \in StepRow
               /\ [stepRun[s] EXCEPT !.status = "skipped"].node = stepRun[s].node
               /\ [stepRun[s] EXCEPT !.status = "skipped"].attempt = stepRun[s].attempt
        BY <2>1 DEF StepRow, StepStatus
      <4>2. \A s \in StepId :
               stepRun'[s] \in {stepRun[s], [stepRun[s] EXCEPT !.status = "skipped"]}
        BY <3>2
      <4>3. \A s \in StepId : stepRun'[s] \in StepRow
        BY <2>1, <4>1, <4>2
      <4> QED BY <3>2, <4>1, <4>2, <4>3
    <3> QED BY <1>4, <3>1, <3>2 DEF DeleteSource
  <2>4. StoreOK' /\ Grows
    BY <1>1, <2>1, <2>2, <2>3, StoreKept
  <2>5. RequestsOK'
    BY <1>1, <1>2, <2>4, RequestsGrow
  <2> QED BY <1>1, <2>4, <2>5, QuietKeeps DEF Quiet, Inv
<1> QED BY <1>3, <1>4

-----------------------------------------------------------------------------
(* The invariant                                                           *)

LEMMA InitInv == Init => Inv
<1> SUFFICES ASSUME Init PROVE Inv
  OBVIOUS
<1>1. /\ rows = 1 /\ cur = 1 /\ 1 \in StepId /\ stepCount = 0 /\ iterationCount = 0
      /\ \A s \in 1..1 : s = 1
  BY StoreBounds DEF Init, StoreInit, StepId
<1> DEFINE row == FreshRow(StartNode, 1)
           h == FreshHist("trigger", 0, "queued")
<1>2. row \in StepRow /\ row.attempt = 1
  BY GraphAssumption, StoreBounds DEF FreshRow, StepRow, StepStatus, ValidGraph
<1>3. h \in HistRow /\ h.from = 0
  BY StoreBounds DEF FreshHist, HistRow, RunStatus
<1>4. stepRun = [s \in StepId |-> row] /\ hist = [s \in StepId |-> h]
  BY DEF Init, StoreInit
<1> HIDE DEF row, h
<1>5. StoreTypeOK
  <2>1. stepRun \in [StepId -> StepRow] /\ hist \in [StepId -> HistRow]
    BY <1>2, <1>3, <1>4
  <2>2. source \in SourceState /\ status \in RunStatus /\ startedAt \in BOOLEAN
    BY DEF Init, StoreInit, SourceState, RunStatus
  <2> QED BY <1>1, <2>1, <2>2 DEF StoreTypeOK
<1>6. StoreOK
  BY <1>1, <1>2, <1>3, <1>4, <1>5, ChainAssumption DEF StoreOK, AttemptsUnique, StepRows, WithinGuardrails
<1>7. DeliveriesOK
  <2> DEFINE none == At("idle", 0, 0)
  <2>1. none \in DeliveryRec /\ Good(none, rows, stepRun)
    BY <1>1, StoreBounds, AtGood
  <2>2. none.pc = "idle"
    BY DEF At
  <2>3. dl = [d \in Delivery |-> none] /\ nDl = 0
    BY DEF Init, ChainInit, NotStarted
  <2> HIDE DEF none
  <2> QED BY <2>1, <2>2, <2>3, StoreBounds DEF DeliveriesOK
<1>8. WatchdogOK
  <2>1. Off \in WatchdogRec /\ Off.pc = "off"
    BY StoreBounds DEF Off, WatchdogRec, WatchdogPC, Decision
  <2>2. /\ wd = [p \in Caller |-> Off] /\ retries = [n \in Node |-> 0]
        /\ sweep = [pc |-> "idle", step |-> 0]
    BY DEF Init, WatchdogInit
  <2>3. sweep \in [pc : SweepPC, step : 0..MaxRows] /\ sweep.pc = "idle"
    BY <2>2, StoreBounds DEF SweepPC
  <2> QED BY <2>1, <2>2, <2>3, CallerType DEF WatchdogOK, WatchdogTypeOK
<1>9. RequestsOK
  <2> DEFINE c == [kind |-> "trigger", step |-> 1, failed |-> FALSE]
  <2>1. c \in Call /\ c.step = 1
    BY <1>1 DEF Call, CallKind
  <2>2. calls = {c}
    BY DEF Init
  <2>3. spent \in Spent
    BY RunBounds DEF Init, Spent
  <2> HIDE DEF c
  <2> QED BY <1>1, <2>1, <2>2, <2>3 DEF RequestsOK
<1> QED BY <1>6, <1>7, <1>8, <1>9 DEF Inv

\* Steps of a delivery, faults included: the watchdogs of the others go on.
LEMMA DeliverKeeps ==
  ASSUME Inv, NEW d \in Delivery, Deliver(d) \/ Crash(d) \/ Disturb(d)
  PROVE  Inv'
<1>1. StoreOK /\ DeliveriesOK /\ WatchdogOK /\ RequestsOK
  BY DEF Inv
<1>2. ChainOK(d)
  BY <1>1, StepKeeps, FaultKeeps DEF Deliver, Crash, Disturb
<1>3. StoreOK' /\ Grows /\ DeliveriesOK' /\ Others(d)
  BY <1>2 DEF ChainOK
<1>4. calls' = calls /\ spent' \in Spent
  BY <1>1, SpendType DEF Deliver, Crash, Disturb, RequestsOK
<1>5. RequestsOK'
  BY <1>1, <1>3, <1>4, RequestsGrow
<1>6. CASE Crash(d)
  <2>1. rows \in Nat /\ rows' \in Nat /\ rows <= rows'
    BY <1>1, <1>3, StoreBounds DEF StoreOK, StoreTypeOK, StepId, Grows
  <2>2. Off \in WatchdogRec /\ Off.pc = "off" /\ wd \in [Caller -> WatchdogRec]
    BY <1>1, StoreBounds DEF Off, WatchdogRec, WatchdogPC, Decision, WatchdogOK, WatchdogTypeOK
  <2>3. wd' = [wd EXCEPT ![d] = Off] /\ sweep' = sweep /\ retries' = retries
    BY <1>6 DEF Crash
  <2>4. wd' \in [Caller -> WatchdogRec] /\ \A q \in Caller : wd'[q] = IF q = d THEN Off ELSE wd[q]
    BY <2>2, <2>3
  <2>5. WatchdogTypeOK'
    BY <1>1, <2>3, <2>4 DEF WatchdogOK, WatchdogTypeOK
  <2>6. (\A q \in Caller : wd[q].pc # "off" => wd[q].step \in 1..rows)'
    BY <1>1, <2>1, <2>2, <2>4 DEF WatchdogOK
  <2>7. (\A q \in Caller : wd[q].pc = "dispatch" => wd[q].next \in 1..rows)'
    BY <1>1, <2>1, <2>2, <2>4 DEF WatchdogOK
  <2>8. (\A e \in Delivery : wd[e].pc # "off" => dl[e].pc = "watchdog")'
    BY <1>1, <1>3, <2>2, <2>4, CallerType DEF WatchdogOK, Others
  <2>9. (sweep.pc = "watchdog" => sweep.step \in 1..rows)'
    BY <1>1, <2>1, <2>3 DEF WatchdogOK
  <2> QED BY <1>3, <1>5, <2>5, <2>6, <2>7, <2>8, <2>9 DEF Inv, WatchdogOK
<1>7. CASE Deliver(d) \/ Disturb(d)
  <2>1. UNCHANGED watchdogVars
    BY <1>7 DEF Deliver, Disturb
  <2>2. \A e \in Delivery : dl[e].pc = "watchdog" => dl'[e].pc = "watchdog"
    <3>1. CASE Redeliver(d)
      <4>1. TakeSlot /\ dl' = [dl EXCEPT ![nDl + 1] = At("load", dl[d].step, dl[d].wf)]
        BY <3>1 DEF Redeliver
      <4>2. nDl \in Nat /\ \A e \in Delivery : e = nDl + 1 => dl[e].pc = "idle"
        BY <1>1, StoreBounds DEF DeliveriesOK, Delivery
      <4> QED BY <1>1, <4>1, <4>2 DEF DeliveriesOK
    <3>2. CASE Step(d) \/ Throw(d)
      BY <1>3, <3>2, StepNotWatching DEF Others
    <3> QED BY <1>7, <3>1, <3>2 DEF Deliver, Disturb
  <2>3. WatchdogOK'
    BY <1>1, <1>3, <2>1, <2>2, WatchdogGrows
  <2> QED BY <1>3, <1>5, <2>3 DEF Inv
<1> QED BY <1>6, <1>7

LEMMA NextInv == Inv /\ [Next]_vars => Inv'
<1> SUFFICES ASSUME Inv, [Next]_vars PROVE Inv'
  OBVIOUS
<1>1. StoreOK /\ DeliveriesOK /\ WatchdogOK /\ RequestsOK
  BY DEF Inv
<1>2. CASE UNCHANGED vars
  <2>1. /\ UNCHANGED storeVars /\ UNCHANGED <<chainVars, watchdogVars>>
        /\ calls' = calls /\ spent' = spent
    BY <1>2 DEF vars
  <2>2. StoreOK' /\ Grows
    BY <1>1, <2>1, NothingKept
  <2>3. RequestsOK'
    BY <1>1, <2>1, <2>2, RequestsGrow DEF RequestsOK
  <2> QED BY <2>1, <2>2, <2>3, QuietKeeps DEF Quiet, Inv
<1>3. ASSUME NEW d \in Delivery, Deliver(d) \/ Crash(d) \/ Disturb(d) PROVE Inv'
  BY <1>3, DeliverKeeps
<1>4. ASSUME NEW p \in Caller, Watch(p) \/ WatchFault(p) PROVE Inv'
  <2>1. WatchOK
    BY <1>1, <1>4, WatchKeeps, WatchFaultKeeps DEF Watch, WatchFault
  <2>2. calls' = calls /\ spent' \in Spent
    BY <1>1, <1>4, SpendType DEF Watch, WatchFault, RequestsOK
  <2>3. RequestsOK'
    BY <1>1, <2>1, <2>2, RequestsGrow DEF WatchOK
  <2> QED BY <2>1, <2>3 DEF WatchOK, Inv
<1>5. CASE Sweep \/ SweepStep \/ SweepFault
  <2>1. Quiet
    BY <1>5, SweepKeeps DEF Sweep, SweepStep, SweepFault
  <2>2. calls' = calls /\ spent' \in Spent
    BY <1>1, <1>5, SpendType DEF Sweep, SweepStep, SweepFault, RequestsOK
  <2>3. RequestsOK'
    BY <1>1, <2>1, <2>2, RequestsGrow DEF Quiet
  <2> QED BY <2>1, <2>3 DEF Quiet, Inv
<1>6. CASE Pause \/ Cancel \/ Resume \/ Retry
  BY <1>6, ControlKeeps
<1>7. CASE Request \/ RequestFault
  BY <1>7, RequestKeeps DEF Request, RequestFault
<1>8. CASE ChangeSource \/ DeleteSource
  BY <1>8, SourceKeeps
<1> QED BY <1>2, <1>3, <1>4, <1>5, <1>6, <1>7, <1>8 DEF Next


\* Every reachable state of every instance satisfies Inv.
THEOREM InvHolds == Spec => []Inv
BY InitInv, NextInv, PTL DEF Spec

-----------------------------------------------------------------------------
(* What follows from it                                                    *)

\* The rows, deliveries, watchdog invocations and requests keep their types,
\* whatever the graph, the guardrails and the faults.
THEOREM TypeCorrect == Spec => []TypeOK
<1>1. Inv => TypeOK
  BY DEF Inv, StoreOK, DeliveriesOK, WatchdogOK, RequestsOK, TypeOK, ChainTypeOK
<1> QED BY <1>1, InvHolds, PTL

\* A step is left once: the conditional updates of the pointer in
\* createAndAdvanceAgentLoopStep and both retry transactions never insert two
\* rows after the same step.
THEOREM StepLeftOnce == Spec => []OneSuccessor
<1>1. Inv => OneSuccessor
  <2> SUFFICES ASSUME Inv, NEW r \in StepRows, NEW s \in StepRows, r # s
               PROVE  hist[r].from # hist[s].from
    BY DEF OneSuccessor
  <2>1. rows \in Nat /\ hist[r].from = r - 1 /\ hist[s].from = s - 1
    BY StoreBounds DEF Inv, StoreOK, StoreTypeOK, StepId, StepRows
  <2>2. r \in Nat /\ s \in Nat
    BY <2>1 DEF StepRows
  <2> QED BY <2>1, <2>2
<1> QED BY <1>1, InvHolds, PTL

\* Attempts of a node are numbered once each, although three writers read
\* MAX(attempt) and one of them outside its transaction.
THEOREM AttemptsNumberedOnce == Spec => []AttemptsUnique
<1>1. Inv => AttemptsUnique
  BY DEF Inv, StoreOK
<1> QED BY <1>1, InvHolds, PTL

\* The counters of a run never pass its guardrails, although each delivery
\* writes them from the values it loaded before it executed.
THEOREM GuardrailsHold == Spec => []WithinGuardrails
<1>1. Inv => WithinGuardrails
  BY DEF Inv, StoreOK
<1> QED BY <1>1, InvHolds, PTL

-----------------------------------------------------------------------------
(* Final statuses and deleted sources                                      *)

Final == {"cancelled", "completed"}

\* The executor, the watchdog, the sweep and the operator name the statuses
\* they leave, and none of them is final.
LEMMA TransitionSpares ==
  ASSUME NEW to, NEW from, status \in Final, from \cap Final = {}, Transition(to, from)
  PROVE  status' = status
BY DEF Transition, CanTransition, runVars

LEMMA DeliverySpares ==
  ASSUME status \in Final, NEW d \in Delivery, Deliver(d) \/ Crash(d) \/ Disturb(d)
  PROVE  status' = status
<1>1. CASE Deny(d) \/ Begin(d) \/ Trip(d) \/ CompleteRun(d) \/ FailRun(d)
  <2>1. \E to, from : from \cap Final = {} /\ Transition(to, from)
    BY <1>1 DEF Deny, Begin, Trip, CompleteRun, FailRun, Unfinished, Final
  <2> QED BY <2>1, TransitionSpares
<1>2. CASE \/ SkipStep(d) \/ Claim(d) \/ ClaimGeneration(d) \/ Correlate(d) \/ Succeed(d)
           \/ Fail(d) \/ FinishAgent(d) \/ EndStep(d) \/ ThrowStep(d) \/ Advance(d)
  BY <1>2 DEF SkipStep, Claim, ClaimGeneration, Correlate, Succeed, Fail, FinishAgent, Report,
              EndStep, ThrowStep, Advance, AdvanceWhen, runVars
<1>3. CASE \/ Load(d) \/ Enter(d) \/ LocalDuplicate(d) \/ Reload(d) \/ Plan(d) \/ Dispatch(d)
           \/ Restart(d) \/ Lose(d) \/ Redeliver(d) \/ Throw(d) \/ DispatchFails(d)
  BY <1>3 DEF Load, Enter, LocalDuplicate, Reload, Plan, Dispatch, Restart, Lose, Redeliver,
              Throw, DispatchFails, storeVars, runVars
<1> QED BY <1>1, <1>2, <1>3 DEF Deliver, Crash, Disturb, Step

LEMMA WatchdogSpares ==
  ASSUME status \in Final, NEW p \in Caller, Watch(p) \/ WatchFault(p)
  PROVE  status' = status
<1>1. CASE RetryRefused(p) \/ ApplyPause(p)
  <2>1. Transition("paused", PauseFrom) /\ PauseFrom \cap Final = {}
    BY <1>1 DEF RetryRefused, ApplyPause, PauseSystem, PauseFrom, Final
  <2> QED BY <2>1, TransitionSpares
<1>2. ~ApplyRetry(p)
  BY DEF ApplyRetry, CanRetry, Final
<1>3. CASE \/ Open(p) \/ Decide(p) \/ RetryDispatch(p) \/ Record(p)
           \/ RetryDispatchFails(p) \/ WatchdogThrows(p)
  BY <1>3 DEF Open, Decide, RetryDispatch, Record, RetryDispatchFails, WatchdogThrows,
              storeVars, runVars
<1> QED BY <1>1, <1>2, <1>3 DEF Watch, WatchFault, Watchdog

LEMMA OthersSpare ==
  ASSUME status \in Final,
         \/ Sweep \/ SweepStep \/ SweepFault \/ Pause \/ Cancel \/ Resume \/ Retry
         \/ Request \/ RequestFault \/ ChangeSource \/ DeleteSource
  PROVE  status' = status
<1>1. CASE Sweep \/ SweepStep \/ SweepFault
  <2>1. ~Stall
    BY DEF Stall, CanTransition, Final
  <2>2. CASE SweepRevoke
    <3>1. Transition("failed", {"stalled"}) /\ {"stalled"} \cap Final = {}
      BY <2>2 DEF SweepRevoke, Final
    <3> QED BY <3>1, TransitionSpares
  <2>3. CASE SweepRead \/ SweepCrash
    BY <2>3 DEF SweepRead, SweepCrash, storeVars, runVars
  <2> QED BY <1>1, <2>1, <2>2, <2>3 DEF Sweep, SweepStep, SweepFault
<1>2. ~(Pause \/ Cancel \/ Resume \/ Retry)
  BY DEF Pause, Cancel, Resume, Retry, CanTransition, Final
<1>3. CASE Request \/ RequestFault
  <2>1. PICK c \in calls : StartCall(c) \/ FailCall(c) \/ StartCallFails(c) \/ CallCrash(c)
    BY <1>3 DEF Request, RequestFault
  <2>2. CASE FailCall(c)
    <3>1. \E from : from \cap Final = {} /\ Transition("failed", from)
      BY <2>2 DEF FailCall, Final
    <3> QED BY <3>1, TransitionSpares
  <2>3. CASE StartCall(c) \/ StartCallFails(c) \/ CallCrash(c)
    BY <2>3 DEF StartCall, StartCallFails, CallCrash, storeVars, runVars
  <2> QED BY <2>1, <2>2, <2>3
<1>4. CASE ChangeSource \/ DeleteSource
  BY <1>4 DEF ChangeSource, DeleteSource, runVars, Final
<1> QED BY <1>1, <1>2, <1>3, <1>4

\* cancelled and completed are final, whichever late writer comes: a delivery
\* that still executes, the watchdog, the sweep, an operator or the deletion of
\* the source.
THEOREM EndStaysFinal == Spec => EndIsFinal
<1>1. [Next]_vars => [(status = "cancelled" \/ status = "completed") => status' = status]_vars
  <2> SUFFICES ASSUME Next, status \in Final PROVE status' = status
    BY DEF Final
  <2> QED BY DeliverySpares, WatchdogSpares, OthersSpare DEF Next
<1> QED BY <1>1, PTL DEF Spec, EndIsFinal

\* What deleteAgentLoop leaves of the run.
history == <<status, cur, stepCount, iterationCount, rows, stepRun>>

LEMMA DeliverySparesHistory ==
  ASSUME source = "deleted", NEW d \in Delivery, Deliver(d) \/ Crash(d) \/ Disturb(d)
  PROVE  UNCHANGED history
<1>1. ~Linked
  BY DEF Linked
<1>2. CASE Deny(d) \/ Begin(d) \/ Trip(d) \/ CompleteRun(d) \/ FailRun(d)
  BY <1>1, <1>2 DEF Deny, Begin, Trip, CompleteRun, FailRun, Transition, CanTransition,
                    runVars, countVars, rowVars, history
<1>3. CASE SkipStep(d) \/ Claim(d) \/ ClaimGeneration(d) \/ Correlate(d) \/ ThrowStep(d)
  BY <1>1, <1>3 DEF SkipStep, Claim, ClaimGeneration, Correlate, ThrowStep, CanUpdateStep,
                    runVars, countVars, history
<1>4. CASE Succeed(d) \/ Fail(d) \/ FinishAgent(d) \/ EndStep(d)
  BY <1>1, <1>4 DEF Succeed, Fail, FinishAgent, EndStep, Report, OwnsExecution, CanUpdateStep,
                    runVars, countVars, history
<1>5. CASE Advance(d)
  BY <1>1, <1>5 DEF Advance, AdvanceWhen, runVars, countVars, rowVars, history
<1>6. CASE \/ Load(d) \/ Enter(d) \/ LocalDuplicate(d) \/ Reload(d) \/ Plan(d) \/ Dispatch(d)
           \/ Restart(d) \/ Lose(d) \/ Redeliver(d) \/ Throw(d) \/ DispatchFails(d)
  BY <1>6 DEF Load, Enter, LocalDuplicate, Reload, Plan, Dispatch, Restart, Lose, Redeliver,
              Throw, DispatchFails, storeVars, runVars, countVars, rowVars, history
<1> QED BY <1>2, <1>3, <1>4, <1>5, <1>6 DEF Deliver, Crash, Disturb, Step

LEMMA WatchdogSparesHistory ==
  ASSUME source = "deleted", NEW p \in Caller, Watch(p) \/ WatchFault(p)
  PROVE  UNCHANGED history
<1>1. ~Linked
  BY DEF Linked
<1>2. CASE RetryRefused(p) \/ ApplyPause(p)
  BY <1>1, <1>2 DEF RetryRefused, ApplyPause, PauseSystem, Transition, CanTransition,
                    runVars, countVars, rowVars, history
<1>3. ~ApplyRetry(p)
  BY <1>1 DEF ApplyRetry, CanRetry
<1>4. CASE \/ Open(p) \/ Decide(p) \/ RetryDispatch(p) \/ Record(p)
           \/ RetryDispatchFails(p) \/ WatchdogThrows(p)
  BY <1>4 DEF Open, Decide, RetryDispatch, Record, RetryDispatchFails, WatchdogThrows,
              storeVars, runVars, countVars, rowVars, history
<1> QED BY <1>2, <1>3, <1>4 DEF Watch, WatchFault, Watchdog

LEMMA OthersSpareHistory ==
  ASSUME source = "deleted",
         \/ Sweep \/ SweepStep \/ SweepFault \/ Pause \/ Cancel \/ Resume \/ Retry
         \/ Request \/ RequestFault \/ ChangeSource \/ DeleteSource
  PROVE  UNCHANGED history
<1>1. ~Linked /\ \A from : ~CanTransition(from)
  BY DEF Linked, CanTransition
<1>2. ~(Stall \/ Pause \/ Cancel \/ Resume \/ Retry \/ ChangeSource \/ DeleteSource)
  BY <1>1 DEF Stall, Pause, Cancel, Resume, Retry, ChangeSource, DeleteSource
<1>3. CASE SweepRead \/ SweepRevoke \/ SweepCrash
  BY <1>1, <1>3 DEF SweepRead, SweepRevoke, SweepCrash, Transition,
                    storeVars, runVars, countVars, rowVars, history
<1>4. CASE Request \/ RequestFault
  <2>1. PICK c \in calls : StartCall(c) \/ FailCall(c) \/ StartCallFails(c) \/ CallCrash(c)
    BY <1>4 DEF Request, RequestFault
  <2> QED BY <1>1, <2>1 DEF StartCall, FailCall, StartCallFails, CallCrash, Transition,
                            storeVars, runVars, countVars, rowVars, history
<1> QED BY <1>2, <1>3, <1>4 DEF Sweep, SweepStep, SweepFault

\* Once its source is deleted no process changes a run, its pointer or its
\* steps: every update, on its own or inside a transaction, asks for a loop_id.
THEOREM DeletedStaysHistory == Spec => DeletedIsHistory
<1>1. [Next]_vars => [source = "deleted" => UNCHANGED history]_vars
  <2> SUFFICES ASSUME Next, source = "deleted" PROVE UNCHANGED history
    OBVIOUS
  <2> QED BY DeliverySparesHistory, WatchdogSparesHistory, OthersSpareHistory DEF Next
<1> QED BY <1>1, PTL DEF Spec, DeletedIsHistory, history
=============================================================================
