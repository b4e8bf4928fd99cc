------------------------- MODULE BackgroundRunProofs -------------------------
(***************************************************************************)
(* Proofs about BackgroundRun, for every set of processes, every number of *)
(* deliveries and faults, and every stall and token budget.                *)
(***************************************************************************)
EXTENDS BackgroundRun, SequenceTheorems, TLAPS

-----------------------------------------------------------------------------
(* The inductive invariant                                                  *)

RowRec == [status : Live \cup Ended \cup {"none"}, heard : BOOLEAN]

SpentRec == [faults : 0..MaxFaults, leaked : BOOLEAN]

Typed ==
  /\ row \in RowRec
  /\ trigger \in Trigger
  /\ log \in Seq(Ending)
  /\ proc \in [Process -> ProcessRec]
  /\ vm \in BOOLEAN
  /\ spent \in SpentRec

EarlyPC == {"load", "refuse", "claim", "check", "connect", "ready", "extract"}

\* The turns in which the agent knew that it must finalize are counted by n: up to the
\* last turn between turns, and with this one while it is observed.
Sound(x) ==
  /\ x.n < BudgetOf(x.stage)
  /\ x.granted <= FinalizeTurns
  /\ x.cut => x.granted = FinalizeTurns
  /\ x.pc = "idle" => ~x.held
  /\ x.pc \in EarlyPC => x.stage = "running"
  /\ x.pc \in EarlyPC \cup TurnPC => ~x.cut
  /\ x.pc \in EarlyPC \cup {"turn", "generate"} =>
       /\ ~x.fused
       /\ x.granted = IF x.stage = "escalating" THEN x.n ELSE 0
  /\ x.pc = "observe" =>
       IF x.fused THEN x.stage = "escalating" /\ x.n = 0 /\ x.granted = 0
                  ELSE x.granted = IF x.stage = "escalating" THEN x.n + 1 ELSE 0
  /\ x.pc \in {"verify", "conclude", "succeed"} => x.stage # "escalating"

ExecsOK == exec \in [Delivery -> ExecRec] /\ \A e \in Delivery : Sound(exec[e])

\* Only the process that made the row starts the workflow, and only once.
Starting(p) == At(p, "start") \/ (At(p, "advance") /\ proc[p].made)

Starts ==
  /\ \A p \in Process : Starting(p) => exec[1].pc = "idle"
  /\ \A p, q \in Process : Starting(p) /\ Starting(q) => p = q
  /\ row.status = "none" => exec[1].pc = "idle" /\ \A p \in Process : ~Starting(p)
  /\ \A p \in Process :
       proc[p].pc \in {"idle", "sweep", "sweepEvent", "list", "find", "freeze", "insert"} => ~proc[p].made

\* Who has ended the run and is about to record that.
Ends(e) == exec[e].pc \in {"completed", "failed"}
Sweeps(p) == At(p, "sweepEvent")

Reported == \E i \in DOMAIN log : log[i] # "startFailed"

\* Between them, those about to record the end and the log have it at most once.
Accounts ==
  /\ OneEnding
  /\ \A e \in Delivery : /\ InStep(e, "completed") => row.status = "succeeded"
                         /\ InStep(e, "failed") => row.status = "failed"
                         /\ Ends(e) => ~Reported
  /\ \A p \in Process : Sweeps(p) => row.status = "failed" /\ ~Reported
  /\ \A e, f \in Delivery : Ends(e) /\ Ends(f) => e = f
  /\ \A p, q \in Process : Sweeps(p) /\ Sweeps(q) => p = q
  /\ \A e \in Delivery, p \in Process : ~(Ends(e) /\ Sweeps(p))

Inv == Typed /\ ExecsOK /\ Starts /\ Accounts /\ SandboxReleased

-----------------------------------------------------------------------------
(* Faults and the log                                                       *)

LEMMA Faults ==
  ASSUME spent \in SpentRec, NEW leaks \in BOOLEAN, UNCHANGED spent \/ Fault(leaks)
  PROVE  /\ spent' \in SpentRec
         /\ spent.leaked => spent'.leaked
         /\ Fault(leaks) /\ leaks => spent'.leaked
BY BackgroundParams DEF SpentRec, Fault

LEMMA Recorded ==
  ASSUME log \in Seq(Ending), NEW event \in Ending, Record(event)
  PROVE  /\ log' \in Seq(Ending)
         /\ \A i \in DOMAIN log : i \in DOMAIN log' /\ log'[i] = log[i]
         /\ \A i \in DOMAIN log' : i \in DOMAIN log \/ (i = Len(log) + 1 /\ log'[i] = event)
<1>1. /\ log' \in Seq(Ending) /\ Len(log') = Len(log) + 1 /\ Len(log) \in Nat
      /\ \A i \in 1..Len(log) : log'[i] = log[i]
      /\ log'[Len(log) + 1] = event
  BY AppendProperties DEF Record
<1>2. DOMAIN log = 1..Len(log) /\ DOMAIN log' = 1..Len(log')
  BY <1>1
<1> QED
  BY <1>1, <1>2

\* A run that has not ended has been reported by nobody.
LEMMA NotYet ==
  ASSUME Accounts, log \in Seq(Ending), row.status \notin Ended
  PROVE  /\ ~Reported
         /\ \A e \in Delivery : ~Ends(e)
         /\ \A p \in Process : ~Sweeps(p)
<1>1. \A i \in DOMAIN log : log[i] \in Ending
  BY ElementOfSeq
<1> QED
  BY <1>1 DEF Accounts, OneEnding, Reported, Ends, Sweeps, InStep, Ended, Ending

LEMMA LogGrows ==
  ASSUME log \in Seq(Ending), log' = log \/ Record("startFailed")
  PROVE  /\ log' \in Seq(Ending)
         /\ \A i \in DOMAIN log' : log'[i] # "startFailed" => i \in DOMAIN log /\ log[i] = log'[i]
         /\ Reported' => Reported
BY Recorded DEF Reported, Ending

\* Nobody new is about to record an end.
LEMMA AccountsQuiet ==
  ASSUME Accounts, log \in Seq(Ending), log' = log \/ Record("startFailed"),
         row'.status = row.status \/ row.status \notin Ended,
         \A e \in Delivery : Ends(e)' => exec'[e].pc = exec[e].pc,
         \A p \in Process : Sweeps(p)' => Sweeps(p)
  PROVE  Accounts'
<1>1. \A i \in DOMAIN log' : log'[i] # "startFailed" => i \in DOMAIN log /\ log[i] = log'[i]
  BY LogGrows
<1>2. Reported' => Reported
  BY LogGrows
<1>3. \A e \in Delivery : Ends(e)' => Ends(e)
  BY DEF Ends
<1>4. OneEnding'
  BY <1>1, NotYet DEF Accounts, OneEnding, Reported
<1>5. \A e \in Delivery : /\ InStep(e, "completed")' => row'.status = "succeeded"
                          /\ InStep(e, "failed")' => row'.status = "failed"
                          /\ Ends(e)' => ~Reported'
  BY <1>2, <1>3, NotYet DEF Accounts, InStep, Ends
<1>6. \A p \in Process : Sweeps(p)' => row'.status = "failed" /\ ~Reported'
  BY <1>2, NotYet DEF Accounts
<1> QED
  BY <1>3, <1>4, <1>5, <1>6 DEF Accounts

\* A delivery ends the run.
LEMMA AccountsEnd ==
  ASSUME Accounts, log \in Seq(Ending), log' = log, row.status \notin Ended,
         NEW e \in Delivery, \A f \in Delivery \ {e} : exec'[f] = exec[f],
         \/ exec'[e].pc = "completed" /\ row'.status = "succeeded"
         \/ exec'[e].pc = "failed" /\ row'.status = "failed",
         proc' = proc
  PROVE  Accounts'
<1>1. /\ ~Reported
      /\ \A f \in Delivery : ~Ends(f)
      /\ \A p \in Process : ~Sweeps(p)
  BY NotYet
<1>2. ~Reported' /\ \A p \in Process : ~Sweeps(p)'
  BY <1>1 DEF Reported, Sweeps, At
<1>3. \A f \in Delivery : Ends(f)' => f = e
  BY <1>1 DEF Ends
<1>4. OneEnding'
  BY <1>2 DEF OneEnding, Reported
<1>5. \A f \in Delivery : /\ InStep(f, "completed")' => row'.status = "succeeded"
                          /\ InStep(f, "failed")' => row'.status = "failed"
  BY <1>3 DEF InStep, Ends
<1> QED
  BY <1>2, <1>3, <1>4, <1>5 DEF Accounts

\* Who has ended the run records it.
LEMMA AccountsRecord ==
  ASSUME Accounts, log \in Seq(Ending), NEW event \in Ending \ {"startFailed"}, Record(event),
         row' = row, ~Reported,
         event = "completed" => row.status = "succeeded",
         event \in {"failed", "swept"} => row.status = "failed",
         \A f \in Delivery : ~Ends(f)',
         \A p \in Process : ~Sweeps(p)'
  PROVE  Accounts'
<1>1. \A i \in DOMAIN log' : log'[i] # "startFailed" => i = Len(log) + 1 /\ log'[i] = event
  BY Recorded DEF Reported
<1>2. OneEnding'
  BY <1>1 DEF OneEnding
<1> QED
  BY <1>2 DEF Accounts, Ends, InStep

-----------------------------------------------------------------------------
(* What a step may do to the deliveries and the processes                   *)

\* What a step of a delivery e must establish.
LEMMA ExecKeeps ==
  ASSUME Inv, NEW e \in Delivery, exec[e].pc # "idle" \/ e # 1,
         exec' \in [Delivery -> ExecRec], \A f \in Delivery \ {e} : exec'[f] = exec[f],
         Sound(exec'[e]),
         UNCHANGED <<trigger, log, proc>>,
         row' \in RowRec, vm' \in BOOLEAN, spent' \in SpentRec,
         row'.status = "none" <=> row.status = "none",
         \/ /\ row'.status = row.status \/ row.status \notin Ended
            /\ exec'[e].pc \notin {"completed", "failed"}
         \/ /\ row.status \notin Ended
            /\ \/ exec'[e].pc = "completed" /\ row'.status = "succeeded"
               \/ exec'[e].pc = "failed" /\ row'.status = "failed",
         spent.leaked => spent'.leaked,
         vm' => spent'.leaked \/ exec'[e].held \/ (vm /\ ~exec[e].held)
  PROVE  Inv'
<1>1. Typed'
  BY DEF Inv, Typed
<1>2. ExecsOK'
  BY DEF Inv, ExecsOK
<1>3. Starts'
  <2>1. exec[1].pc = "idle" => exec'[1].pc = "idle"
    BY BackgroundParams DEF Delivery
  <2> QED
    BY <2>1 DEF Inv, Starts, Starting, At
<1>4. Accounts'
  <2>1. CASE exec'[e].pc \notin {"completed", "failed"}
    <3>1. \A f \in Delivery : Ends(f)' => exec'[f].pc = exec[f].pc
      BY <2>1 DEF Ends
    <3>2. row'.status = row.status \/ row.status \notin Ended
      BY <2>1
    <3> QED
      BY <3>1, <3>2, AccountsQuiet DEF Inv, Typed, Sweeps, At
  <2>2. CASE exec'[e].pc \in {"completed", "failed"}
    BY <2>2, AccountsEnd DEF Inv, Typed
  <2> QED
    BY <2>1, <2>2
<1>5. SandboxReleased'
  BY DEF Inv, SandboxReleased
<1> QED
  BY <1>1, <1>2, <1>3, <1>4, <1>5 DEF Inv

\* What a step of a process p must establish.
LEMMA ProcessKeeps ==
  ASSUME Inv, NEW p \in Process,
         proc' \in [Process -> ProcessRec], \A q \in Process \ {p} : proc'[q] = proc[q],
         UNCHANGED <<exec, vm>>,
         row' \in RowRec, trigger' \in Trigger, log' \in Seq(Ending), spent' \in SpentRec,
         row'.status = "none" => row.status = "none" /\ ~Starting(p)',
         Starting(p)' => Starting(p) \/ row.status = "none",
         proc'[p].pc \in {"idle", "sweep", "sweepEvent", "list", "find", "freeze", "insert"} => ~proc'[p].made,
         Accounts',
         spent.leaked => spent'.leaked
  PROVE  Inv'
<1>1. Typed'
  BY DEF Inv, Typed
<1>2. ExecsOK'
  BY DEF Inv, ExecsOK
<1>3. Starts'
  <2>1. \A q \in Process : Starting(q)' => Starting(q) \/ (q = p /\ row.status = "none")
    BY DEF Starting, At
  <2>2. \A q \in Process : q # p => (Starting(q)' <=> Starting(q))
    BY DEF Starting, At
  <2>3. Starts
    BY DEF Inv
  <2>4. \A q \in Process : Starting(q)' => exec'[1].pc = "idle"
    BY <2>1, <2>3 DEF Starts
  <2>5. \A q, r \in Process : Starting(q)' /\ Starting(r)' => q = r
    BY <2>1, <2>3 DEF Starts
  <2>6. row'.status = "none" => exec'[1].pc = "idle" /\ \A q \in Process : ~Starting(q)'
    BY <2>2, <2>3 DEF Starts
  <2>7. \A q \in Process :
          proc'[q].pc \in {"idle", "sweep", "sweepEvent", "list", "find", "freeze", "insert"} => ~proc'[q].made
    BY <2>3 DEF Starts
  <2> QED
    BY <2>4, <2>5, <2>6, <2>7 DEF Starts
<1>4. SandboxReleased'
  BY DEF Inv, SandboxReleased
<1> QED
  BY <1>1, <1>2, <1>3, <1>4 DEF Inv

LEMMA GotoEffect ==
  ASSUME Inv, NEW p \in Process, NEW pc \in ProcessPC, Goto(p, pc)
  PROVE  /\ proc' \in [Process -> ProcessRec]
         /\ \A q \in Process \ {p} : proc'[q] = proc[q]
         /\ proc'[p].pc = pc /\ proc'[p].made = proc[p].made
BY DEF Inv, Typed, Goto, ProcessRec

LEMMA ContinueEffect ==
  ASSUME Inv, NEW e \in Delivery, NEW pc \in ExecPC, Continue(e, pc)
  PROVE  /\ exec' \in [Delivery -> ExecRec]
         /\ \A f \in Delivery \ {e} : exec'[f] = exec[f]
         /\ exec'[e].pc = pc
         /\ exec'[e].held = exec[e].held /\ exec'[e].stage = exec[e].stage
         /\ exec'[e].n = exec[e].n /\ exec'[e].fused = exec[e].fused
         /\ exec'[e].granted = exec[e].granted /\ exec'[e].cut = exec[e].cut
BY DEF Inv, ExecsOK, Continue, ExecRec

\* Moving on without having learnt anything: early, or towards the end.
LEMMA ContinueSound ==
  ASSUME Inv, NEW e \in Delivery, NEW pc \in ExecPC, Continue(e, pc),
         \/ exec[e].pc \in EarlyPC /\ pc \in EarlyPC \cup {"turn", "conclude"}
         \/ exec[e].pc = "turn" /\ pc = "generate"
         \/ exec[e].pc \in {"verify", "conclude"} /\ pc \in {"conclude", "succeed"}
  PROVE  Sound(exec'[e])
<1>1. /\ exec'[e].pc = pc
      /\ exec'[e].stage = exec[e].stage /\ exec'[e].n = exec[e].n
      /\ exec'[e].fused = exec[e].fused /\ exec'[e].granted = exec[e].granted
      /\ exec'[e].cut = exec[e].cut
  BY ContinueEffect
<1>2. Sound(exec[e])
  BY DEF Inv, ExecsOK
<1> QED
  BY <1>1, <1>2 DEF Sound, EarlyPC, TurnPC

LEMMA BlankEffect ==
  ASSUME Inv, NEW e \in Delivery,
         NEW pc \in {"load", "ready", "completed", "fail", "failed", "dispose", "unwind", "over"},
         NEW held \in BOOLEAN, exec' = [exec EXCEPT ![e] = Blank(pc, held)]
  PROVE  /\ exec' \in [Delivery -> ExecRec]
         /\ \A f \in Delivery \ {e} : exec'[f] = exec[f]
         /\ exec'[e].pc = pc /\ exec'[e].held = held
         /\ Sound(exec'[e])
<1> DEFINE x == Blank(pc, held)
<1>1. /\ x.pc = pc /\ x.held = held /\ x.stage = "running" /\ x.n = 0
      /\ x.granted = 0 /\ ~x.fused /\ ~x.cut
  BY DEF Blank
<1>2. x \in ExecRec
  <2>1. pc \in ExecPC /\ "running" \in Stage /\ 0 \in 0..TokenTurns /\ 0 \in 0..(FinalizeTurns + 1)
    BY BackgroundParams DEF ExecPC, Stage
  <2> QED
    BY <2>1 DEF Blank, ExecRec
<1>3. Sound(x)
  BY <1>1, BackgroundParams DEF Sound, BudgetOf, TurnPC
<1> HIDE DEF x
<1>4. exec' = [exec EXCEPT ![e] = x]
  BY DEF x
<1> QED
  BY <1>1, <1>2, <1>3, <1>4 DEF Inv, ExecsOK

LEMMA AbandonEffect ==
  ASSUME Inv, NEW e \in Delivery, NEW pc \in {"fail", "failed", "completed"}, Abandon(e, pc)
  PROVE  /\ exec' \in [Delivery -> ExecRec]
         /\ \A f \in Delivery \ {e} : exec'[f] = exec[f]
         /\ exec'[e].pc = pc /\ exec'[e].held = exec[e].held
         /\ Sound(exec'[e])
<1>1. exec[e].held \in BOOLEAN
  BY DEF Inv, ExecsOK, ExecRec
<1>2. exec' = [exec EXCEPT ![e] = Blank(pc, exec[e].held)]
  BY DEF Abandon
<1> QED
  BY <1>1, <1>2, BlankEffect

LEMMA LeaveEffect ==
  ASSUME Inv, NEW e \in Delivery, Leave(e)
  PROVE  /\ exec' \in [Delivery -> ExecRec]
         /\ \A f \in Delivery \ {e} : exec'[f] = exec[f]
         /\ exec'[e].pc \in {"dispose", "over"} /\ exec'[e].held = exec[e].held
         /\ Sound(exec'[e])
<1>1. exec[e].held \in BOOLEAN
  BY DEF Inv, ExecsOK, ExecRec
<1>2. PICK pc \in {"dispose", "over"} :
        exec' = [exec EXCEPT ![e] = Blank(pc, exec[e].held)]
  BY <1>1 DEF Leave, Blank
<1> QED
  BY <1>1, <1>2, BlankEffect

LEMMA AfterStepEffect ==
  ASSUME Inv, NEW e \in Delivery, NEW threw \in BOOLEAN, AfterStep(e, threw)
  PROVE  /\ exec' \in [Delivery -> ExecRec]
         /\ \A f \in Delivery \ {e} : exec'[f] = exec[f]
         /\ exec'[e].pc \in {"load", "over"} /\ ~exec'[e].held
         /\ Sound(exec'[e])
<1>1. PICK pc \in {"load", "over"} :
        exec' = [exec EXCEPT ![e] = Blank(pc, FALSE)]
  BY DEF AfterStep, Blank
<1> QED
  BY <1>1, BlankEffect

-----------------------------------------------------------------------------
(* The processes keep the invariant                                         *)

\* Most actions of a process leave a run that has ended alone and end none themselves.
LEMMA MovesOn ==
  ASSUME Inv, NEW p \in Process, NEW pc \in ProcessPC \ {"sweepEvent"}, Goto(p, pc),
         pc = "start" => Starting(p),
         pc = "advance" => ~proc[p].made,
         pc \in {"idle", "sweep", "list", "find", "freeze", "insert"} => ~proc[p].made,
         UNCHANGED <<exec, vm>>, row' \in RowRec, trigger' \in Trigger, spent' \in SpentRec,
         log' = log \/ Record("startFailed"),
         \/ row'.status = row.status
         \/ row.status \in Live /\ row'.status # "none",
         spent.leaked => spent'.leaked
  PROVE  Inv'
<1>1. /\ proc' \in [Process -> ProcessRec]
      /\ \A q \in Process \ {p} : proc'[q] = proc[q]
      /\ proc'[p].pc = pc /\ proc'[p].made = proc[p].made
  BY GotoEffect
<1>2. log' \in Seq(Ending)
  BY LogGrows DEF Inv, Typed
<1>3. Accounts'
  <2>1. \A q \in Process : Sweeps(q)' => Sweeps(q)
    BY <1>1 DEF Sweeps, At
  <2>2. row'.status = row.status \/ row.status \notin Ended
    BY DEF Live, Ended
  <2>3. \A e \in Delivery : Ends(e)' => exec'[e].pc = exec[e].pc
    OBVIOUS
  <2> QED
    BY <2>1, <2>2, <2>3, AccountsQuiet DEF Inv, Typed
<1>4. Starting(p)' => Starting(p)
  BY <1>1 DEF Starting, At
<1>5. row'.status = "none" => row.status = "none" /\ ~Starting(p)'
  BY <1>4 DEF Inv, Starts, Live
<1> QED
  BY <1>1, <1>2, <1>3, <1>4, <1>5, ProcessKeeps

LEMMA ProcessActions ==
  ASSUME Inv, NEW p \in Process, ProcessStep(p) \/ ProcessDies(p)
  PROVE  Inv'
<1>1. /\ row \in RowRec /\ trigger \in Trigger /\ log \in Seq(Ending) /\ spent \in SpentRec
      /\ proc[p].made \in BOOLEAN /\ proc[p] \in ProcessRec /\ proc \in [Process -> ProcessRec]
  BY DEF Inv, Typed, ProcessRec
<1>2. /\ proc[p].pc \in {"idle", "sweep", "sweepEvent", "list", "find", "freeze", "insert"} => ~proc[p].made
      /\ Starts /\ Accounts
  BY DEF Inv, Starts
<1>3. ASSUME NEW status \in Live \cup Ended, Write(status)
      PROVE  row' \in RowRec /\ row'.status = status
  BY <1>3 DEF Write, RowRec
<1>4. {"queued", "failed"} \subseteq Live \cup Ended /\ "none" \notin Live \cup Ended
  BY DEF Live, Ended
<1> USE DEF At, ProcessPC
<1>5. CASE ReceiveEvent(p)
  <2>1. CASE Goto(p, "find")
    BY <1>1, <1>2, <1>5, <2>1, MovesOn DEF ReceiveEvent
  <2>2. CASE Goto(p, "done")
    BY <1>1, <1>2, <1>5, <2>2, MovesOn DEF ReceiveEvent
  <2> QED
    BY <1>5, <2>1, <2>2 DEF ReceiveEvent
<1>6. CASE ListStale(p)
  <2> DEFINE pc == IF row.status \in Live /\ ~row.heard THEN "sweep" ELSE "list"
  <2>1. pc \in {"sweep", "list"} /\ proc' = [proc EXCEPT ![p].made = FALSE, ![p].pc = pc]
    BY <1>6 DEF ListStale
  <2> HIDE DEF pc
  <2>2. /\ proc' \in [Process -> ProcessRec]
        /\ \A q \in Process \ {p} : proc'[q] = proc[q]
        /\ proc'[p].pc \in {"sweep", "list"} /\ ~proc'[p].made
    BY <1>1, <2>1 DEF ProcessRec
  <2>3. UNCHANGED <<row, trigger, log, exec, vm, spent>>
    BY <1>6 DEF ListStale
  <2>4. Accounts'
    <3>1. \A q \in Process : Sweeps(q)' => Sweeps(q)
      BY <2>2 DEF Sweeps
    <3>2. \A e \in Delivery : Ends(e)' => exec'[e].pc = exec[e].pc
      BY <2>3
    <3> QED
      BY <1>1, <1>2, <2>3, <3>1, <3>2, AccountsQuiet
  <2>5. ~Starting(p)'
    BY <2>2 DEF Starting
  <2> QED
    BY <1>1, <2>2, <2>3, <2>4, <2>5, ProcessKeeps
<1>7. CASE Sweep(p)
  <2>1. CASE row.status \notin Live
    BY <1>1, <1>2, <1>7, <2>1, MovesOn DEF Sweep
  <2>2. CASE row.status \in Live
    <3>1. row' \in RowRec /\ row'.status = "failed" /\ Goto(p, "sweepEvent")
      BY <1>3, <1>4, <1>7, <2>2 DEF Sweep
    <3>2. UNCHANGED <<trigger, log, exec, vm, spent>>
      BY <1>7 DEF Sweep
    <3>3. /\ proc' \in [Process -> ProcessRec]
          /\ \A q \in Process \ {p} : proc'[q] = proc[q]
          /\ proc'[p].pc = "sweepEvent" /\ proc'[p].made = proc[p].made
      BY <3>1, GotoEffect
    <3>4. row.status \notin Ended
      BY <2>2 DEF Live, Ended
    <3>5. /\ ~Reported
          /\ \A e \in Delivery : ~Ends(e)
          /\ \A q \in Process : ~Sweeps(q)
      BY <1>1, <1>2, <3>4, NotYet
    <3>6. Accounts'
      <4>1. ~Reported' /\ \A e \in Delivery : ~Ends(e)' /\ ~InStep(e, "completed")' /\ ~InStep(e, "failed")'
        BY <3>2, <3>5 DEF Reported, Ends, InStep
      <4>2. \A q \in Process : Sweeps(q)' => q = p
        BY <3>3, <3>5 DEF Sweeps
      <4>3. OneEnding'
        BY <4>1 DEF OneEnding, Reported
      <4> QED
        BY <3>1, <4>1, <4>2, <4>3 DEF Accounts
    <3>7. ~Starting(p)'
      BY <3>3 DEF Starting
    <3> QED
      BY <1>1, <1>2, <1>7, <3>1, <3>2, <3>3, <3>6, <3>7, ProcessKeeps DEF Sweep
  <2> QED
    BY <2>1, <2>2
<1>8. CASE RecordSwept(p)
  <2>1. /\ proc' \in [Process -> ProcessRec]
        /\ \A q \in Process \ {p} : proc'[q] = proc[q]
        /\ proc'[p].pc = "list" /\ proc'[p].made = proc[p].made
    BY <1>8, GotoEffect DEF RecordSwept
  <2>2. UNCHANGED <<row, trigger, exec, vm, spent>> /\ Record("swept") /\ Sweeps(p)
    BY <1>8 DEF RecordSwept, Sweeps
  <2>3. "swept" \in Ending \ {"startFailed"}
    BY DEF Ending
  <2>4. log' \in Seq(Ending)
    BY <1>1, <2>2, <2>3, Recorded
  <2>5. ~Reported /\ row.status = "failed"
    BY <1>2, <2>2 DEF Accounts
  <2>6. (\A e \in Delivery : ~Ends(e)') /\ \A q \in Process : ~Sweeps(q)'
    <3>1. \A e \in Delivery : ~Ends(e)'
      BY <1>2, <2>2 DEF Accounts, Ends
    <3>2. \A q \in Process : ~Sweeps(q)'
      BY <1>2, <2>1, <2>2 DEF Accounts, Sweeps
    <3> QED
      BY <3>1, <3>2
  <2>7. Accounts'
    BY <1>1, <1>2, <2>2, <2>3, <2>5, <2>6, AccountsRecord
  <2>8. ~Starting(p)'
    BY <2>1 DEF Starting
  <2> QED
    BY <1>1, <1>2, <1>8, <2>1, <2>2, <2>4, <2>7, <2>8, ProcessKeeps DEF RecordSwept
<1>9. CASE ListDue(p)
  <2> DEFINE pc == IF trigger.enabled /\ trigger.due THEN "find" ELSE "done"
  <2>1. pc \in {"find", "done"} /\ Goto(p, pc)
    BY <1>9 DEF ListDue
  <2> HIDE DEF pc
  <2> QED
    BY <1>1, <1>2, <1>9, <2>1, MovesOn DEF ListDue
<1>10. CASE FindRun(p)
  <2> DEFINE pc == IF row.status = "none" THEN "freeze" ELSE NextAfter(p, FALSE)
  <2>1. pc \in {"freeze", "advance", "done"} /\ Goto(p, pc)
    BY <1>10 DEF FindRun, NextAfter
  <2> HIDE DEF pc
  <2> QED
    BY <1>1, <1>2, <1>10, <2>1, MovesOn DEF FindRun
<1>11. CASE InsertRun(p)
  <2> DEFINE made == row.status = "none"
             pc == NextAfter(p, made)
             x == [proc[p] EXCEPT !.pc = pc, !.made = made]
  <2>1. made \in BOOLEAN /\ pc \in {"advance", "start", "done"} /\ (pc = "start" => made)
    BY DEF NextAfter
  <2>2. proc' = [proc EXCEPT ![p] = x]
    BY <1>11 DEF InsertRun
  <2>3. x \in ProcessRec /\ x.pc = pc /\ x.made = made
    BY <1>1, <2>1 DEF ProcessRec
  <2> HIDE DEF x
  <2>4. /\ proc' \in [Process -> ProcessRec]
        /\ \A q \in Process \ {p} : proc'[q] = proc[q]
        /\ proc'[p].pc = pc /\ proc'[p].made = made
    BY <1>1, <2>2, <2>3
  <2>5. /\ row' \in RowRec
        /\ IF made THEN row'.status = "queued" ELSE row' = row
    BY <1>1, <1>3, <1>4, <1>11 DEF InsertRun
  <2>6. UNCHANGED <<trigger, log, exec, vm, spent>>
    BY <1>11 DEF InsertRun
  <2>7. row'.status # "none"
    BY <1>4, <2>5 DEF Live
  <2> HIDE DEF pc
  <2>8. Accounts'
    <3>1. \A q \in Process : Sweeps(q)' => Sweeps(q)
      BY <2>1, <2>4 DEF Sweeps
    <3>2. row'.status = row.status \/ row.status \notin Ended
      BY <2>5 DEF Ended
    <3>3. \A e \in Delivery : Ends(e)' => exec'[e].pc = exec[e].pc
      BY <2>6
    <3> QED
      BY <1>1, <1>2, <2>6, <3>1, <3>2, <3>3, AccountsQuiet
  <2>9. Starting(p)' => row.status = "none"
    BY <2>1, <2>4 DEF Starting
  <2> QED
    BY <1>1, <2>1, <2>4, <2>5, <2>6, <2>7, <2>8, <2>9, ProcessKeeps
<1>12. CASE Advance(p)
  <2> DEFINE pc == IF proc[p].made THEN "start" ELSE "done"
  <2>1. pc \in {"start", "done"} /\ (pc = "start" => proc[p].made) /\ Goto(p, pc)
    BY <1>12 DEF Advance
  <2>2. trigger' \in Trigger
    BY <1>1, <1>12 DEF Advance, Trigger
  <2> HIDE DEF pc
  <2> QED
    BY <1>1, <1>2, <1>12, <2>1, <2>2, MovesOn DEF Advance, Starting
<1>13. CASE StartRun(p)
  <2>1. PICK pc \in {"done", "startFailed"} : Goto(p, pc)
    BY <1>13 DEF StartRun
  <2>2. UNCHANGED <<row, trigger, log, vm, spent>> /\ Starting(p)
    BY <1>13 DEF StartRun, Starting
  <2>3. CASE UNCHANGED exec
    BY <1>1, <1>2, <1>13, <2>1, <2>2, <2>3, MovesOn
  <2>4. CASE exec' = [exec EXCEPT ![1] = Blank("load", FALSE)]
    <3>1. 1 \in Delivery
      BY BackgroundParams DEF Delivery
    <3>2. /\ exec' \in [Delivery -> ExecRec]
          /\ \A f \in Delivery \ {1} : exec'[f] = exec[f]
          /\ exec'[1].pc = "load" /\ Sound(exec'[1])
      BY <2>4, <3>1, BlankEffect
    <3>3. /\ proc' \in [Process -> ProcessRec]
          /\ \A q \in Process \ {p} : proc'[q] = proc[q]
          /\ proc'[p].pc = pc /\ proc'[p].made = proc[p].made
      BY <2>1, GotoEffect
    <3>4. Typed' /\ ExecsOK'
      BY <2>2, <3>2, <3>3 DEF Inv, Typed, ExecsOK
    <3>5. Starts'
      <4>1. \A q \in Process : ~Starting(q)'
        BY <1>2, <2>2, <3>3 DEF Starts, Starting
      <4> QED
        BY <1>2, <2>2, <3>3, <4>1 DEF Starts
    <3>6. Accounts'
      <4>1. \A e \in Delivery : Ends(e)' => exec'[e].pc = exec[e].pc
        BY <3>2 DEF Ends
      <4>2. \A q \in Process : Sweeps(q)' => Sweeps(q)
        BY <3>3 DEF Sweeps
      <4> QED
        BY <1>1, <1>2, <2>2, <4>1, <4>2, AccountsQuiet
    <3>7. SandboxReleased'
      BY <1>2, <2>2, <3>1, <3>2 DEF Inv, Starts, ExecsOK, Sound, SandboxReleased
    <3> QED
      BY <3>4, <3>5, <3>6, <3>7 DEF Inv
  <2> QED
    BY <1>13, <2>3, <2>4 DEF StartRun
<1>14. CASE FailStart(p)
  <2>1. row' \in RowRec
    BY <1>1, <1>3, <1>4, <1>14 DEF FailStart
  <2>2. \/ row'.status = row.status
        \/ row.status \in Live /\ row'.status # "none"
    BY <1>3, <1>4, <1>14 DEF FailStart
  <2> QED
    BY <1>1, <1>2, <1>14, <2>1, <2>2, MovesOn DEF FailStart
<1>15. CASE RecordStartFailed(p)
  BY <1>1, <1>2, <1>15, MovesOn DEF RecordStartFailed
<1>16. CASE ProcessDies(p)
  <2>1. spent' \in SpentRec /\ (spent.leaked => spent'.leaked)
    BY <1>1, <1>16, Faults DEF ProcessDies
  <2> QED
    BY <1>1, <1>2, <1>16, <2>1, MovesOn DEF ProcessDies
<1>17. CASE Freeze(p)
  <2>1. CASE Goto(p, "insert")
    BY <1>1, <1>2, <1>17, <2>1, MovesOn DEF Freeze
  <2>2. CASE Goto(p, "done")
    BY <1>1, <1>2, <1>17, <2>2, MovesOn DEF Freeze
  <2> QED
    BY <1>17, <2>1, <2>2 DEF Freeze
<1> QED
  BY <1>5, <1>6, <1>7, <1>8, <1>9, <1>10, <1>11, <1>12, <1>13, <1>14, <1>15, <1>16, <1>17
  DEF ProcessStep

-----------------------------------------------------------------------------
(* The deliveries keep the invariant                                        *)

LEMMA Continues ==
  ASSUME Inv, NEW e \in Delivery, exec[e].pc # "idle",
         NEW pc \in ExecPC \ {"completed", "failed"}, Continue(e, pc),
         \/ exec[e].pc \in EarlyPC /\ pc \in EarlyPC \cup {"turn", "conclude"}
         \/ exec[e].pc = "turn" /\ pc = "generate"
         \/ exec[e].pc \in {"verify", "conclude"} /\ pc \in {"conclude", "succeed"},
         UNCHANGED <<trigger, log, proc, vm, spent>>,
         \/ row' = row
         \/ row' \in RowRec /\ row.status \in Live /\ row'.status # "none"
  PROVE  Inv'
<1>1. Sound(exec'[e])
  BY ContinueSound
<1>2. row \in RowRec /\ vm \in BOOLEAN /\ spent \in SpentRec
  BY DEF Inv, Typed
<1>3. row.status \in Live => row.status # "none" /\ row.status \notin Ended
  BY DEF Live, Ended
<1>4. /\ exec' \in [Delivery -> ExecRec]
      /\ \A f \in Delivery \ {e} : exec'[f] = exec[f]
      /\ exec'[e].pc = pc /\ exec'[e].held = exec[e].held
  BY ContinueEffect
<1>5. exec[e].held \in BOOLEAN
  BY DEF Inv, ExecsOK, ExecRec
<1> QED
  BY <1>1, <1>2, <1>3, <1>4, <1>5, ExecKeeps

LEMMA EndsRun ==
  ASSUME Inv, NEW e \in Delivery, exec[e].pc # "idle", row.status \in Live,
         NEW pc \in {"completed", "failed"}, Abandon(e, pc),
         Write(IF pc = "completed" THEN "succeeded" ELSE "failed"),
         UNCHANGED <<trigger, log, proc, vm, spent>>
  PROVE  Inv'
<1>1. /\ exec' \in [Delivery -> ExecRec]
      /\ \A f \in Delivery \ {e} : exec'[f] = exec[f]
      /\ exec'[e].pc = pc /\ exec'[e].held = exec[e].held
      /\ Sound(exec'[e])
  BY AbandonEffect
<1>2. vm \in BOOLEAN /\ spent \in SpentRec /\ exec[e].held \in BOOLEAN
  BY DEF Inv, Typed, ExecsOK, ExecRec
<1>3. row.status # "none" /\ row.status \notin Ended
  BY DEF Live, Ended
<1>4. /\ row' \in RowRec
      /\ row'.status = IF pc = "completed" THEN "succeeded" ELSE "failed"
  BY DEF Write, RowRec, Ended
<1> QED
  BY <1>1, <1>2, <1>3, <1>4, ExecKeeps

\* Towards recordFailure.
LEMMA Aborts ==
  ASSUME Inv, NEW e \in Delivery, exec[e].pc # "idle", Abandon(e, "fail"),
         UNCHANGED <<row, trigger, log, proc, vm, spent>>
  PROVE  Inv'
<1>1. /\ exec' \in [Delivery -> ExecRec]
      /\ \A f \in Delivery \ {e} : exec'[f] = exec[f]
      /\ exec'[e].pc = "fail" /\ exec'[e].held = exec[e].held
      /\ Sound(exec'[e])
  BY AbandonEffect
<1>2. row \in RowRec /\ vm \in BOOLEAN /\ spent \in SpentRec /\ exec[e].held \in BOOLEAN
  BY DEF Inv, Typed, ExecsOK, ExecRec
<1> QED
  BY <1>1, <1>2, ExecKeeps

LEMMA Leaves ==
  ASSUME Inv, NEW e \in Delivery, exec[e].pc # "idle", Leave(e),
         UNCHANGED <<row, trigger, log, proc, vm, spent>>
  PROVE  Inv'
<1>1. /\ exec' \in [Delivery -> ExecRec]
      /\ \A f \in Delivery \ {e} : exec'[f] = exec[f]
      /\ exec'[e].pc \in {"dispose", "over"} /\ exec'[e].held = exec[e].held
      /\ Sound(exec'[e])
  BY LeaveEffect
<1>2. row \in RowRec /\ vm \in BOOLEAN /\ spent \in SpentRec /\ exec[e].held \in BOOLEAN
  BY DEF Inv, Typed, ExecsOK, ExecRec
<1> QED
  BY <1>1, <1>2, ExecKeeps

\* Who has ended the run records it and leaves.
LEMMA Records ==
  ASSUME Inv, NEW e \in Delivery, NEW event \in {"completed", "failed"}, InStep(e, event),
         Record(event), Leave(e), UNCHANGED <<row, trigger, proc, vm, spent>>
  PROVE  Inv'
<1>1. /\ exec' \in [Delivery -> ExecRec]
      /\ \A f \in Delivery \ {e} : exec'[f] = exec[f]
      /\ exec'[e].pc \in {"dispose", "over"} /\ exec'[e].held = exec[e].held
      /\ Sound(exec'[e])
  BY LeaveEffect
<1>2. event \in Ending \ {"startFailed"} /\ Accounts /\ log \in Seq(Ending)
  BY DEF Ending, Inv, Typed
<1>3. Typed' /\ ExecsOK'
  <2>1. log' \in Seq(Ending)
    BY <1>2, Recorded
  <2> QED
    BY <1>1, <2>1 DEF Inv, Typed, ExecsOK
<1>4. Starts'
  <2>1. exec'[1].pc = "idle" <=> exec[1].pc = "idle"
    BY <1>1, BackgroundParams DEF Delivery, InStep
  <2> QED
    BY <2>1 DEF Inv, Starts, Starting, At
<1>5. Accounts'
  <2>1. Ends(e) /\ ~Reported
    BY <1>2 DEF Ends, InStep, Accounts
  <2>2. (\A f \in Delivery : ~Ends(f)') /\ \A p \in Process : ~Sweeps(p)'
    <3>1. \A f \in Delivery : ~Ends(f)'
      BY <1>1, <1>2, <2>1 DEF Accounts, Ends
    <3>2. \A p \in Process : ~Sweeps(p)'
      BY <1>2, <2>1 DEF Accounts, Sweeps, At
    <3> QED
      BY <3>1, <3>2
  <2>3. /\ event = "completed" => row.status = "succeeded"
        /\ event \in {"failed", "swept"} => row.status = "failed"
    BY <1>2 DEF Accounts
  <2> QED
    BY <1>2, <2>1, <2>2, <2>3, AccountsRecord
<1>6. SandboxReleased'
  BY <1>1 DEF Inv, SandboxReleased
<1> QED
  BY <1>3, <1>4, <1>5, <1>6 DEF Inv

\* The checks before, between and after the turns.
LEMMA ExecChecks ==
  ASSUME Inv, NEW e \in Delivery,
         \/ Load(e) \/ Refuse(e) \/ Claim(e) \/ Check(e) \/ Ready(e) \/ Extract(e)
         \/ Turn(e) \/ Verify(e) \/ Conclude(e) \/ Succeed(e) \/ Fail(e)
  PROVE  Inv'
<1> USE DEF InStep, EarlyPC
<1>1. {"refuse", "claim", "check", "extract", "connect", "turn", "generate", "conclude",
       "succeed", "fail"} \subseteq ExecPC \ {"completed", "failed"}
  BY DEF ExecPC, TurnPC
<1>2. row \in RowRec /\ exec[e] \in ExecRec /\ exec \in [Delivery -> ExecRec] /\ Sound(exec[e])
  BY DEF Inv, Typed, ExecsOK
<1>3. ASSUME NEW status \in Live \cup Ended, Write(status)
      PROVE  row' \in RowRec /\ row'.status = status
  BY <1>3 DEF Write, RowRec
<1>4. CASE Load(e)
  <2>1. CASE row.status \in Ended
    BY <1>4, <2>1, Leaves DEF Load
  <2>2. CASE row.status \notin Ended
    <3> DEFINE pc == IF trigger.enabled THEN "claim" ELSE "refuse"
               x == [exec[e] EXCEPT !.ours = row.status = "running", !.pc = pc]
    <3>1. pc \in ExecPC /\ pc \in {"claim", "refuse"}
      BY <1>1
    <3>2. exec' = [exec EXCEPT ![e] = x]
      BY <1>4, <2>2 DEF Load
    <3>3. /\ x \in ExecRec /\ x.pc = pc /\ x.held = exec[e].held /\ x.stage = exec[e].stage
          /\ x.n = exec[e].n /\ x.fused = exec[e].fused /\ x.granted = exec[e].granted
          /\ x.cut = exec[e].cut
      BY <1>2, <3>1 DEF ExecRec
    <3> HIDE DEF pc
    <3>4. Sound(x)
      BY <1>2, <1>4, <3>1, <3>3 DEF Sound, Load, TurnPC
    <3> HIDE DEF x
    <3>5. /\ exec' \in [Delivery -> ExecRec] /\ exec'[e] = x
          /\ \A f \in Delivery \ {e} : exec'[f] = exec[f]
      BY <1>2, <3>2, <3>3
    <3>6. UNCHANGED <<row, trigger, log, proc, vm, spent>> /\ exec[e].pc = "load"
      BY <1>4 DEF Load
    <3>7. vm \in BOOLEAN /\ spent \in SpentRec /\ exec[e].held \in BOOLEAN
      BY <1>2 DEF Inv, Typed, ExecRec
    <3> QED
      BY <1>2, <3>1, <3>3, <3>4, <3>5, <3>6, <3>7, ExecKeeps
  <2> QED
    BY <2>1, <2>2
<1>5. CASE Refuse(e)
  <2>1. CASE row.status = "queued"
    BY <1>5, <2>1, EndsRun DEF Refuse, Live
  <2>2. CASE row.status # "queued"
    BY <1>5, <2>2, Leaves DEF Refuse
  <2> QED
    BY <2>1, <2>2
<1>6. CASE Claim(e)
  <2>1. CASE Continue(e, "check") /\ UNCHANGED row
    BY <1>1, <1>6, <2>1, Continues DEF Claim
  <2>2. CASE row.status = "queued" /\ Write("running") /\ Continue(e, "check")
    <3>1. row' \in RowRec /\ row'.status = "running" /\ row.status \in Live
      BY <1>3, <2>2 DEF Live
    <3> QED
      BY <1>1, <1>6, <2>2, <3>1, Continues DEF Claim
  <2>3. CASE Leave(e) /\ UNCHANGED row
    BY <1>6, <2>3, Leaves DEF Claim
  <2> QED
    BY <1>6, <2>1, <2>2, <2>3 DEF Claim
<1>7. CASE Check(e)
  <2> DEFINE pc == IF trigger.builtin THEN "extract" ELSE "connect"
  <2>1. pc \in {"extract", "connect"}
    OBVIOUS
  <2>2. Continue(e, pc) \/ Abandon(e, "fail") \/ Leave(e)
    BY <1>7 DEF Check, Guarded
  <2> HIDE DEF pc
  <2>3. UNCHANGED <<row, trigger, log, proc, vm, spent>> /\ exec[e].pc = "check"
    BY <1>7 DEF Check
  <2> QED
    BY <1>1, <2>1, <2>2, <2>3, Continues, Aborts, Leaves
<1>8. CASE Ready(e)
  <2>1. Continue(e, "turn") \/ Abandon(e, "fail") \/ Leave(e)
    BY <1>8 DEF Ready, Guarded
  <2> QED
    BY <1>1, <1>8, <2>1, Continues, Aborts, Leaves DEF Ready
<1>9. CASE Extract(e)
  <2>1. Continue(e, "conclude") \/ Abandon(e, "fail")
    BY <1>9 DEF Extract
  <2> QED
    BY <1>1, <1>9, <2>1, Continues, Aborts DEF Extract
<1>10. CASE Turn(e)
  <2>1. Continue(e, "generate") \/ Abandon(e, "fail")
    BY <1>10 DEF Turn
  <2> QED
    BY <1>1, <1>10, <2>1, Continues, Aborts DEF Turn
<1>11. CASE Verify(e)
  <2>1. Continue(e, "conclude") \/ Abandon(e, "fail")
    BY <1>11 DEF Verify
  <2> QED
    BY <1>1, <1>11, <2>1, Continues, Aborts DEF Verify
<1>12. CASE Conclude(e)
  <2>1. Continue(e, "succeed") \/ Abandon(e, "fail")
    BY <1>12 DEF Conclude
  <2> QED
    BY <1>1, <1>12, <2>1, Continues, Aborts DEF Conclude
<1>13. CASE Succeed(e)
  <2>1. CASE Owned
    BY <1>13, <2>1, EndsRun DEF Succeed, Owned, Live
  <2>2. CASE ~Owned
    BY <1>13, <2>2, Leaves DEF Succeed
  <2> QED
    BY <2>1, <2>2
<1>14. CASE Fail(e)
  <2>1. CASE Owned
    BY <1>14, <2>1, EndsRun DEF Fail, Owned, Live
  <2>2. CASE ~Owned
    BY <1>14, <2>2, Leaves DEF Fail
  <2> QED
    BY <2>1, <2>2
<1> QED
  BY <1>4, <1>5, <1>6, <1>7, <1>8, <1>9, <1>10, <1>11, <1>12, <1>13, <1>14

\* A turn that has been generated is counted when the agent knew that it must finalize.
LEMMA GeneratedTurn ==
  ASSUME NEW x \in ExecRec, Sound(x), x.pc = "generate", NEW y, y = Generated(x)
  PROVE  /\ y \in ExecRec /\ y.held = x.held /\ ~y.cut
         /\ y.n < BudgetOf(y.stage) /\ y.granted <= FinalizeTurns
         /\ IF y.fused THEN y.stage = "escalating" /\ y.n = 0 /\ y.granted = 0
                       ELSE y.granted = IF y.stage = "escalating" THEN y.n + 1 ELSE 0
<1>1. /\ TokenTurns \in Nat \ {0} /\ GraceTurns \in Nat \ {0} /\ FinalizeTurns \in Nat \ {0}
  BY BackgroundParams
<1>2. /\ x.stage \in Stage /\ x.n \in Nat /\ x.tokens \in 0..TokenTurns
      /\ x.granted \in 0..(FinalizeTurns + 1) /\ FuseBlows(x) \in BOOLEAN
  BY DEF ExecRec, FuseBlows
<1>3. /\ ~x.cut /\ ~x.fused /\ x.n < BudgetOf(x.stage)
      /\ x.granted = IF x.stage = "escalating" THEN x.n ELSE 0
  BY DEF Sound, TurnPC
<1> DEFINE tokens == Capped(x.tokens + 1, TokenTurns)
           granted == IF x.stage = "escalating" THEN Capped(x.granted + 1, FinalizeTurns + 1) ELSE 0
           stage == IF FuseBlows(x) THEN "escalating" ELSE x.stage
           n == IF FuseBlows(x) THEN 0 ELSE x.n
<1>4. tokens \in 0..TokenTurns
  BY <1>1, <1>2 DEF Capped
<1>5. granted \in 0..(FinalizeTurns + 1) /\ granted <= FinalizeTurns
      /\ granted = IF x.stage = "escalating" THEN x.n + 1 ELSE 0
  BY <1>1, <1>2, <1>3 DEF Capped, BudgetOf
<1>6. stage \in Stage /\ n \in Nat /\ n < BudgetOf(stage)
  BY <1>1, <1>2, <1>3 DEF Stage, BudgetOf
<1>7. FuseBlows(x) => x.stage # "escalating"
  BY DEF FuseBlows
<1>8. y = [x EXCEPT !.tokens = tokens, !.granted = granted, !.fused = FuseBlows(x),
                    !.stage = stage, !.n = n]
  BY DEF Generated
<1>9. /\ FuseBlows(x) => stage = "escalating" /\ n = 0
      /\ ~FuseBlows(x) => stage = x.stage /\ n = x.n
  OBVIOUS
<1> HIDE DEF tokens, granted, stage, n
<1>10. /\ y \in ExecRec /\ y.held = x.held /\ y.cut = x.cut /\ y.granted = granted
       /\ y.fused = FuseBlows(x) /\ y.stage = stage /\ y.n = n
  BY <1>2, <1>4, <1>5, <1>6, <1>8 DEF ExecRec
<1> QED
  BY <1>3, <1>5, <1>6, <1>7, <1>9, <1>10

\* y is t at the beginning of a stage.
Keeps(y, t, stage) ==
  /\ y \in ExecRec /\ y.stage = stage /\ y.n = 0 /\ y.pc = t.pc /\ y.fused = t.fused
  /\ y.granted = t.granted /\ y.cut = t.cut /\ y.held = t.held

LEMMA Restaged ==
  ASSUME NEW t \in ExecRec, NEW stage \in Stage, NEW y, y = [t EXCEPT !.stage = stage, !.n = 0]
  PROVE  Keeps(y, t, stage)
<1>1. \A n \in Nat : y = [t EXCEPT !.stage = stage, !.n = n] =>
        /\ y \in ExecRec /\ y.stage = stage /\ y.n = n /\ y.pc = t.pc /\ y.fused = t.fused
        /\ y.granted = t.granted /\ y.cut = t.cut /\ y.held = t.held
  BY DEF ExecRec
<1>2. 0 \in Nat
  OBVIOUS
<1> QED
  BY <1>1, <1>2, Zenon DEF Keeps

\* A stage begins soundly when the agent has had no turn to finalize.
LEMMA KeptSound ==
  ASSUME NEW y, NEW t, NEW stage \in Stage, Keeps(y, t, stage), t.pc = "turn", ~t.fused, ~t.cut,
         t.granted = 0
  PROVE  Sound(y)
<1>1. y.n < BudgetOf(y.stage) /\ y.granted <= FinalizeTurns
  BY BackgroundParams DEF Keeps, BudgetOf
<1> QED
  BY <1>1 DEF Keeps, Sound, EarlyPC, TurnPC

\* A turn that has been observed: the agent goes on, or its finalize turns are over.
LEMMA ObservedTurn ==
  ASSUME NEW x \in ExecRec, Sound(x), x.pc = "observe", NEW stalled \in BOOLEAN,
         NEW y, y = Observed(x, stalled)
  PROVE  y \in ExecRec /\ Sound(y) /\ y.held = x.held /\ y.pc \in {"turn", "fail"}
<1>1. GraceTurns \in Nat \ {0} /\ FinalizeTurns \in Nat \ {0}
  BY BackgroundParams
<1>2. /\ x.stage \in Stage /\ x.n \in Nat /\ x.granted \in 0..(FinalizeTurns + 1)
  BY DEF ExecRec
<1>3. /\ ~x.cut /\ x.granted <= FinalizeTurns /\ x.n < BudgetOf(x.stage)
      /\ IF x.fused THEN x.stage = "escalating" /\ x.n = 0 /\ x.granted = 0
                    ELSE x.granted = IF x.stage = "escalating" THEN x.n + 1 ELSE 0
  BY DEF Sound, TurnPC
<1>4. /\ "turn" \in ExecPC /\ "fail" \in ExecPC
      /\ "running" \in Stage /\ "nudged" \in Stage /\ "escalating" \in Stage
  BY DEF ExecPC, TurnPC, Stage
<1>7. ~x.fused /\ x.stage # "escalating" => x.granted = 0
  BY <1>3
<1>5. CASE x.fused
  <2>1. y = [x EXCEPT !.pc = "turn", !.fused = FALSE]
    BY <1>5 DEF Observed
  <2>2. /\ y \in ExecRec /\ y.pc = "turn" /\ ~y.fused /\ y.stage = x.stage /\ y.n = x.n
        /\ y.granted = x.granted /\ y.cut = x.cut /\ y.held = x.held
    BY <1>4, <2>1 DEF ExecRec
  <2> QED
    BY <1>3, <1>5, <2>2 DEF Sound, EarlyPC, TurnPC
<1>6. CASE ~x.fused
  <2> DEFINE t == [x EXCEPT !.pc = "turn"]
  <2>1. /\ t \in ExecRec /\ t.pc = "turn" /\ t.stage = x.stage /\ t.n = x.n /\ ~t.fused
        /\ t.granted = x.granted /\ ~t.cut /\ t.held = x.held
    BY <1>3, <1>4, <1>6 DEF ExecRec
  <2>2. y = Escalation(t, stalled)
    BY <1>6 DEF Observed
  <2> HIDE DEF t
  <2>3. CASE x.stage = "running" /\ stalled
    <3>1. y = [t EXCEPT !.stage = "nudged", !.n = 0]
      BY <2>1, <2>2, <2>3 DEF Escalation
    <3>2. Keeps(y, t, "nudged")
      BY <1>4, <2>1, <3>1, Restaged
    <3> QED
      BY <1>4, <1>6, <1>7, <2>1, <2>3, <3>2, KeptSound DEF Keeps
  <2>4. CASE x.stage = "running" /\ ~stalled
    <3>1. y = t
      BY <2>1, <2>2, <2>4 DEF Escalation
    <3> QED
      BY <1>3, <1>6, <2>1, <2>4, <3>1 DEF Sound, EarlyPC, TurnPC
  <2>5. CASE x.stage = "nudged" /\ ~stalled
    <3>1. y = [t EXCEPT !.stage = "running", !.n = 0]
      BY <2>1, <2>2, <2>5 DEF Escalation
    <3>2. Keeps(y, t, "running")
      BY <1>4, <2>1, <3>1, Restaged
    <3> QED
      BY <1>4, <1>6, <1>7, <2>1, <2>5, <3>2, KeptSound DEF Keeps
  <2>6. CASE x.stage = "nudged" /\ stalled
    <3>1. y = IF Spent(t, GraceTurns) THEN [t EXCEPT !.stage = "escalating", !.n = 0]
                                      ELSE [t EXCEPT !.n = @ + 1]
      BY <2>1, <2>2, <2>6 DEF Escalation
    <3>2. CASE Spent(t, GraceTurns)
      <4>1. y = [t EXCEPT !.stage = "escalating", !.n = 0]
        BY <3>1, <3>2
      <4>2. Keeps(y, t, "escalating")
        BY <1>4, <2>1, <4>1, Restaged
      <4> QED
        BY <1>4, <1>7, <1>6, <2>1, <2>6, <4>2, KeptSound DEF Keeps
    <3>3. CASE ~Spent(t, GraceTurns)
      <4>1. /\ y \in ExecRec /\ y.pc = "turn" /\ y.stage = "nudged" /\ y.n = x.n + 1 /\ ~y.fused
            /\ y.granted = x.granted /\ ~y.cut /\ y.held = x.held
        <5>1. y = [t EXCEPT !.n = t.n + 1] /\ t.n + 1 \in Nat
          BY <1>2, <2>1, <3>1, <3>3
        <5> QED
          BY <2>1, <2>6, <5>1 DEF ExecRec
      <4>2. x.n + 1 < GraceTurns
        BY <1>1, <1>2, <2>1, <3>3 DEF Spent
      <4> QED
        BY <1>3, <1>6, <2>6, <4>1, <4>2 DEF Sound, EarlyPC, TurnPC, BudgetOf
    <3> QED
      BY <3>2, <3>3
  <2>7. CASE x.stage = "escalating"
    <3>1. y = IF Spent(t, FinalizeTurns) THEN [t EXCEPT !.pc = "fail", !.cut = TRUE]
                                         ELSE [t EXCEPT !.n = @ + 1]
      BY <2>1, <2>2, <2>7 DEF Escalation
    <3>2. CASE Spent(t, FinalizeTurns)
      <4>1. /\ y \in ExecRec /\ y.pc = "fail" /\ y.stage = "escalating" /\ y.n = x.n
            /\ y.granted = x.granted /\ y.cut /\ y.held = x.held
        BY <1>4, <2>1, <2>7, <3>1, <3>2 DEF ExecRec
      <4>2. x.granted = FinalizeTurns
        BY <1>1, <1>2, <1>3, <1>6, <2>1, <2>7, <3>2 DEF Spent, BudgetOf
      <4> QED
        BY <1>1, <1>3, <2>7, <4>1, <4>2 DEF Sound, EarlyPC, TurnPC
    <3>3. CASE ~Spent(t, FinalizeTurns)
      <4>1. /\ y \in ExecRec /\ y.pc = "turn" /\ y.stage = "escalating" /\ y.n = x.n + 1
            /\ ~y.fused /\ y.granted = x.granted /\ ~y.cut /\ y.held = x.held
        BY <1>2, <2>1, <2>7, <3>1, <3>3 DEF ExecRec
      <4>2. x.n + 1 < FinalizeTurns
        BY <1>1, <1>2, <2>1, <3>3 DEF Spent
      <4> QED
        BY <1>3, <1>6, <2>7, <4>1, <4>2 DEF Sound, EarlyPC, TurnPC, BudgetOf
    <3> QED
      BY <3>2, <3>3
  <2> QED
    BY <1>2, <2>3, <2>4, <2>5, <2>6, <2>7 DEF Stage
<1> QED
  BY <1>5, <1>6

LEMMA ExecTurns ==
  ASSUME Inv, NEW e \in Delivery, Generate(e) \/ Observe(e)
  PROVE  Inv'
<1>1. /\ row \in RowRec /\ exec[e] \in ExecRec /\ exec \in [Delivery -> ExecRec]
      /\ Sound(exec[e]) /\ vm \in BOOLEAN /\ spent \in SpentRec /\ exec[e].held \in BOOLEAN
  BY DEF Inv, Typed, ExecsOK, ExecRec
<1>2. "fail" \in ExecPC /\ "observe" \in ExecPC /\ "verify" \in ExecPC
  BY DEF ExecPC, TurnPC
<1>3. CASE Generate(e)
  <2> DEFINE y == Generated(exec[e])
  <2>1. exec[e].pc = "generate" /\ UNCHANGED <<row, trigger, log, proc, vm, spent>>
    BY <1>3 DEF Generate, InStep
  <2>2. /\ y \in ExecRec /\ y.held = exec[e].held /\ ~y.cut
        /\ y.n < BudgetOf(y.stage) /\ y.granted <= FinalizeTurns
        /\ IF y.fused THEN y.stage = "escalating" /\ y.n = 0 /\ y.granted = 0
                      ELSE y.granted = IF y.stage = "escalating" THEN y.n + 1 ELSE 0
    BY <1>1, <2>1, GeneratedTurn
  <2>3. CASE Abandon(e, "fail")
    BY <2>1, <2>3, Aborts
  <2>4. ASSUME NEW pc \in {"observe", "verify", "fail"},
               pc = "verify" => y.stage # "escalating",
               exec' = [exec EXCEPT ![e] = [y EXCEPT !.pc = pc]]
        PROVE  Inv'
    <3> DEFINE z == [y EXCEPT !.pc = pc]
    <3> HIDE DEF y
    <3>1. /\ z \in ExecRec /\ z.pc = pc /\ z.held = y.held /\ z.stage = y.stage /\ z.n = y.n
          /\ z.granted = y.granted /\ z.fused = y.fused /\ z.cut = y.cut
      BY <1>2, <2>2 DEF ExecRec
    <3>2. exec' = [exec EXCEPT ![e] = z]
      BY <2>4
    <3> HIDE DEF z
    <3>3. Sound(z)
      BY <2>2, <2>4, <3>1 DEF Sound, EarlyPC, TurnPC
    <3>4. /\ exec' \in [Delivery -> ExecRec] /\ exec'[e] = z
          /\ \A f \in Delivery \ {e} : exec'[f] = exec[f]
      BY <1>1, <3>1, <3>2
    <3>5. exec'[e].pc \notin {"completed", "failed"} /\ exec'[e].held = exec[e].held
      BY <2>2, <3>1, <3>4
    <3> QED
      BY <1>1, <2>1, <3>3, <3>4, <3>5, ExecKeeps
  <2>5. \/ Abandon(e, "fail")
        \/ exec' = [exec EXCEPT ![e] = [y EXCEPT !.pc = "observe"]]
        \/ exec' = [exec EXCEPT ![e] = [y EXCEPT !.pc = IF y.stage = "escalating" THEN "fail" ELSE "verify"]]
    BY <1>3 DEF Generate
  <2> HIDE DEF y
  <2>6. CASE exec' = [exec EXCEPT ![e] = [y EXCEPT !.pc = "observe"]]
    BY <2>4, <2>6
  <2>7. CASE exec' = [exec EXCEPT ![e] = [y EXCEPT !.pc = IF y.stage = "escalating" THEN "fail" ELSE "verify"]]
    BY <2>4, <2>7
  <2> QED
    BY <2>3, <2>5, <2>6, <2>7
<1>4. CASE Observe(e)
  <2>1. exec[e].pc = "observe" /\ UNCHANGED <<trigger, log, proc, vm, spent>>
    BY <1>4 DEF Observe, InStep
  <2>2. row' \in RowRec /\ row'.status = row.status
    BY <1>1, <1>4 DEF Observe, RowRec
  <2>3. PICK stalled \in BOOLEAN : exec' = [exec EXCEPT ![e] = Observed(exec[e], stalled)]
    BY <1>4 DEF Observe
  <2> DEFINE y == Observed(exec[e], stalled)
  <2>4. /\ y \in ExecRec /\ Sound(y) /\ y.held = exec[e].held /\ y.pc \in {"turn", "fail"}
    BY <1>1, <2>1, ObservedTurn
  <2>5. exec' = [exec EXCEPT ![e] = y]
    BY <2>3
  <2> HIDE DEF y
  <2>6. /\ exec' \in [Delivery -> ExecRec] /\ exec'[e] = y
        /\ \A f \in Delivery \ {e} : exec'[f] = exec[f]
    BY <1>1, <2>4, <2>5
  <2> QED
    BY <1>1, <2>1, <2>2, <2>4, <2>6, ExecKeeps
<1> QED
  BY <1>3, <1>4

\* Where the sandbox comes and goes, and where a delivery is lost or repeated.
LEMMA ExecSandbox ==
  ASSUME Inv, NEW e \in Delivery,
         Connect(e) \/ Dispose(e) \/ Throws(e) \/ Dies(e) \/ Duplicate(e)
  PROVE  Inv'
<1>1. /\ row \in RowRec /\ exec[e] \in ExecRec /\ vm \in BOOLEAN /\ spent \in SpentRec
      /\ exec[e].held \in BOOLEAN
  BY DEF Inv, Typed, ExecsOK, ExecRec
<1>2. ASSUME NEW leaks \in BOOLEAN, Fault(leaks)
      PROVE  spent' \in SpentRec /\ (spent.leaked => spent'.leaked) /\ (leaks => spent'.leaked)
  BY <1>1, <1>2, Faults
<1>3. CASE Connect(e)
  <2>1. exec[e].pc = "connect" /\ UNCHANGED <<row, trigger, log, proc>>
    BY <1>3 DEF Connect, InStep
  <2>2. CASE vm' = TRUE /\ exec' = [exec EXCEPT ![e] = Blank("ready", TRUE)] /\ UNCHANGED spent
    <3>1. /\ exec' \in [Delivery -> ExecRec]
          /\ \A f \in Delivery \ {e} : exec'[f] = exec[f]
          /\ exec'[e].pc = "ready" /\ exec'[e].held /\ Sound(exec'[e])
      BY <2>2, BlankEffect
    <3> QED
      BY <1>1, <2>1, <2>2, <3>1, ExecKeeps
  <2>3. CASE Abandon(e, "fail") /\ UNCHANGED <<vm, spent>>
    BY <1>1, <2>1, <2>3, Aborts
  <2>4. CASE Abandon(e, "fail") /\ vm' = TRUE /\ Fault(TRUE)
    <3>1. /\ exec' \in [Delivery -> ExecRec]
          /\ \A f \in Delivery \ {e} : exec'[f] = exec[f]
          /\ exec'[e].pc = "fail" /\ Sound(exec'[e])
      BY <2>4, AbandonEffect
    <3>2. spent' \in SpentRec /\ spent'.leaked
      BY <1>2, <2>4
    <3> QED
      BY <1>1, <2>1, <2>4, <3>1, <3>2, ExecKeeps
  <2> QED
    BY <1>3, <2>2, <2>3, <2>4 DEF Connect
<1>4. CASE Dispose(e)
  <2>1. /\ exec[e].pc \in {"dispose", "unwind"} /\ UNCHANGED <<row, trigger, log, proc>>
        /\ AfterStep(e, InStep(e, "unwind"))
    BY <1>4 DEF Dispose
  <2>2. /\ exec' \in [Delivery -> ExecRec]
        /\ \A f \in Delivery \ {e} : exec'[f] = exec[f]
        /\ exec'[e].pc \in {"load", "over"} /\ ~exec'[e].held
        /\ Sound(exec'[e])
    <3>1. InStep(e, "unwind") \in BOOLEAN
      BY DEF InStep
    <3> QED
      BY <2>1, <3>1, AfterStepEffect
  <2>3. \/ ~vm' /\ vm' \in BOOLEAN /\ UNCHANGED spent
        \/ UNCHANGED vm /\ spent' \in SpentRec /\ spent'.leaked
    BY <1>2, <1>4 DEF Dispose
  <2> QED
    BY <1>1, <2>1, <2>2, <2>3, ExecKeeps
<1>5. CASE Throws(e)
  <2>1. /\ exec[e].pc # "idle" /\ UNCHANGED <<row, trigger, log, proc, vm>> /\ Fault(FALSE)
    BY <1>5 DEF Throws
  <2>2. spent' \in SpentRec /\ (spent.leaked => spent'.leaked)
    BY <1>2, <2>1
  <2>3. CASE exec[e].held /\ exec' = [exec EXCEPT ![e] = Blank("unwind", TRUE)]
    <3>1. /\ exec' \in [Delivery -> ExecRec]
          /\ \A f \in Delivery \ {e} : exec'[f] = exec[f]
          /\ exec'[e].pc = "unwind" /\ exec'[e].held /\ Sound(exec'[e])
      BY <2>3, BlankEffect
    <3> QED
      BY <1>1, <2>1, <2>2, <3>1, ExecKeeps
  <2>4. CASE ~exec[e].held /\ AfterStep(e, TRUE)
    <3>1. /\ exec' \in [Delivery -> ExecRec]
          /\ \A f \in Delivery \ {e} : exec'[f] = exec[f]
          /\ exec'[e].pc \in {"load", "over"} /\ Sound(exec'[e])
      BY <2>4, AfterStepEffect
    <3> QED
      BY <1>1, <2>1, <2>2, <2>4, <3>1, ExecKeeps
  <2> QED
    BY <1>5, <2>3, <2>4 DEF Throws
<1>6. CASE Dies(e)
  <2>1. /\ exec[e].pc # "idle" /\ UNCHANGED <<row, trigger, log, proc, vm>>
        /\ Fault(exec[e].held) /\ AfterStep(e, TRUE)
    BY <1>6 DEF Dies, InStep
  <2>2. /\ spent' \in SpentRec /\ (spent.leaked => spent'.leaked)
        /\ exec[e].held => spent'.leaked
    BY <1>1, <1>2, <2>1
  <2>3. /\ exec' \in [Delivery -> ExecRec]
        /\ \A f \in Delivery \ {e} : exec'[f] = exec[f]
        /\ exec'[e].pc \in {"load", "over"} /\ Sound(exec'[e])
    BY <2>1, AfterStepEffect
  <2> QED
    BY <1>1, <2>1, <2>2, <2>3, ExecKeeps
<1>7. CASE Duplicate(e)
  <2>1. /\ e # 1 /\ exec[e].pc = "idle" /\ UNCHANGED <<row, trigger, log, proc, vm>>
        /\ Fault(FALSE) /\ exec' = [exec EXCEPT ![e] = Blank("load", FALSE)]
    BY <1>7 DEF Duplicate, InStep
  <2>2. spent' \in SpentRec /\ (spent.leaked => spent'.leaked)
    BY <1>2, <2>1
  <2>3. ~exec[e].held
    BY <2>1 DEF Inv, ExecsOK, Sound
  <2>4. /\ exec' \in [Delivery -> ExecRec]
        /\ \A f \in Delivery \ {e} : exec'[f] = exec[f]
        /\ exec'[e].pc = "load" /\ Sound(exec'[e])
    BY <2>1, BlankEffect
  <2> QED
    BY <1>1, <2>1, <2>2, <2>3, <2>4, ExecKeeps
<1> QED
  BY <1>3, <1>4, <1>5, <1>6, <1>7

-----------------------------------------------------------------------------
(* The theorems                                                             *)

LEMMA InitInv == Init => Inv
<1> SUFFICES ASSUME Init PROVE Inv
  OBVIOUS
<1>1. PICK cast \in Casts : trigger = cast.trigger /\ proc = [p \in Process |-> Fresh(cast.kinds[p])]
  BY DEF Init
<1>2. cast.trigger \in Trigger /\ cast.kinds \in [Process -> {"event", "cron"}]
  BY BackgroundParams
<1>3. /\ proc \in [Process -> ProcessRec]
      /\ \A p \in Process : proc[p].pc = "idle" /\ ~proc[p].made
  BY <1>1, <1>2 DEF Fresh, ProcessRec, ProcessPC
<1>4. Typed
  <2>1. log \in Seq(Ending)
    BY DEF Init
  <2>2. row \in RowRec
    BY DEF Init, RowRec
  <2>3. spent \in SpentRec
    <3>1. 0 \in 0..MaxFaults
      BY BackgroundParams
    <3> QED
      BY <3>1 DEF Init, SpentRec
  <2>4. vm \in BOOLEAN
    BY DEF Init
  <2> QED
    BY <1>1, <1>2, <1>3, <2>1, <2>2, <2>3, <2>4 DEF Typed
<1>5. ExecsOK /\ \A e \in Delivery : exec[e].pc = "idle" /\ ~exec[e].held
  <2> DEFINE x == Blank("idle", FALSE)
  <2>1. /\ x.pc = "idle" /\ ~x.held /\ x.stage = "running" /\ x.n = 0
        /\ x.granted = 0 /\ ~x.fused /\ ~x.cut
    BY DEF Blank
  <2>2. x \in ExecRec
    <3>1. "idle" \in ExecPC /\ "running" \in Stage /\ 0 \in 0..TokenTurns /\ 0 \in 0..(FinalizeTurns + 1)
      BY BackgroundParams DEF ExecPC, Stage
    <3> QED
      BY <3>1 DEF Blank, ExecRec
  <2>4. exec = [e \in Delivery |-> x]
    BY DEF Init
  <2> HIDE DEF x
  <2>3. Sound(x)
    BY <2>1, BackgroundParams DEF Sound, BudgetOf, EarlyPC, TurnPC
  <2> QED
    BY <2>1, <2>2, <2>3, <2>4 DEF ExecsOK
<1>6. Starts
  <2>1. 1 \in Delivery
    BY BackgroundParams DEF Delivery
  <2> QED
    BY <1>3, <1>5, <2>1 DEF Starts, Starting, At
<1>7. Accounts
  <2>1. log = <<>>
    BY DEF Init
  <2>2. OneEnding
    BY <2>1 DEF OneEnding
  <2> QED
    BY <1>3, <1>5, <2>2 DEF Accounts, Ends, Sweeps, At, InStep
<1>8. SandboxReleased
  BY DEF Init, SandboxReleased
<1> QED
  BY <1>4, <1>5, <1>6, <1>7, <1>8 DEF Inv

LEMMA StepInv == Inv /\ [Next]_vars => Inv'
<1> SUFFICES ASSUME Inv, [Next]_vars PROVE Inv'
  OBVIOUS
<1>1. ASSUME NEW p \in Process, ProcessStep(p) \/ ProcessDies(p) PROVE Inv'
  BY <1>1, ProcessActions
<1>2. ASSUME NEW e \in Delivery, ExecStep(e) \/ ExecFault(e) PROVE Inv'
  <2>1. CASE RecordCompleted(e)
    BY <2>1, Records DEF RecordCompleted
  <2>2. CASE RecordFailed(e)
    BY <2>2, Records DEF RecordFailed
  <2> QED
    BY <1>2, <2>1, <2>2, ExecChecks, ExecTurns, ExecSandbox DEF ExecStep, ExecFault
<1>3. ASSUME row' \in RowRec, row'.status = row.status, trigger' \in Trigger,
             UNCHANGED <<log, proc, exec, vm, spent>>
      PROVE  Inv'
  <2>1. Accounts'
    <3>1. \A e \in Delivery : Ends(e)' => exec'[e].pc = exec[e].pc
      BY <1>3
    <3>2. \A p \in Process : Sweeps(p)' => Sweeps(p)
      BY <1>3 DEF Sweeps, At
    <3> QED
      BY <1>3, <3>1, <3>2, AccountsQuiet DEF Inv, Typed
  <2>2. Starts'
    BY <1>3 DEF Inv, Starts, Starting, At
  <2> QED
    BY <1>3, <2>1, <2>2 DEF Inv, Typed, ExecsOK, SandboxReleased
<1>4. CASE Silence
  BY <1>3, <1>4 DEF Silence, Inv, Typed, RowRec
<1>5. CASE Toggle \/ ChangeModel
  BY <1>3, <1>5 DEF Toggle, ChangeModel, Inv, Typed, Trigger
<1>6. CASE UNCHANGED vars
  BY <1>3, <1>6 DEF vars, Inv, Typed
<1> QED
  BY <1>1, <1>2, <1>4, <1>5, <1>6 DEF Next

\* The strengthening of the invariants below is kept by every step of the code.
THEOREM InvHolds == Spec => []Inv
BY InitInv, StepInv, PTL DEF Spec

\* The run, its processes and its deliveries keep their types, and no stall budget is
\* ever overdrawn.
THEOREM TypeCorrect == Spec => []TypeOK
<1>1. Inv => TypeOK
  BY DEF Inv, Typed, ExecsOK, Sound, TypeOK, RowRec, SpentRec
<1> QED
  BY <1>1, InvHolds, PTL

\* However sweeps, failing starts, retries and duplicates interleave, at most one of them
\* records that it ended the run, and what it records is what the row says.
THEOREM EndsOnce == Spec => []OneEnding
<1>1. Inv => OneEnding
  BY DEF Inv, Accounts
<1> QED
  BY <1>1, InvHolds, PTL

\* No way out of the step forgets the sandbox.
THEOREM SandboxIsReleased == Spec => []SandboxReleased
<1>1. Inv => SandboxReleased
  BY DEF Inv
<1> QED
  BY <1>1, InvHolds, PTL

\* An agent that must finalize has exactly the finalize turns, whatever the budgets are.
THEOREM FinalizeTurnsAreGranted == Spec => []FinalizeTurnsGranted
<1>1. Inv => FinalizeTurnsGranted
  BY DEF Inv, ExecsOK, Sound, FinalizeTurnsGranted
<1> QED
  BY <1>1, InvHolds, PTL
=============================================================================
