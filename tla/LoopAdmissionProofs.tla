-------------------------- MODULE LoopAdmissionProofs --------------------------
(***************************************************************************)
(* Proofs about LoopAdmission, for any number of dispatchers, keys, runs   *)
(* and moves.                                                              *)
(***************************************************************************)
EXTENDS LoopAdmission, FiniteSetTheorems, TLAPS

-----------------------------------------------------------------------------
(* The inductive invariant                                                 *)

\* A row that has not been inserted.
Blank(r) == run[r].status = "queued" /\ ~run[r].step /\ ~run[r].pointer /\ run[r].starts = 0

RunsOK ==
  /\ \A r \in Run \ Existing : Blank(r)
  /\ \A r, s \in Existing : run[r].key = run[s].key => r = s
  /\ AdmitsOneAtATime
  /\ loop = "deleted" => \A r \in Existing : run[r].status \notin Active
  /\ StartedOnce

\* The dispatcher that created a run is bringing it up, or has answered for it.
Owns(p) ==
  \/ call[p].pc \in {"step", "pointer", "start", "fail"}
  \/ call[p].result \in {"created", "dispatch_failed"}

\* What a dispatcher knows of the run it created.
Good(p) ==
  /\ call[p].pc # "done" => call[p].result = "none"
  /\ Owns(p) => call[p].run \in Existing
  /\ call[p].pc \in {"step", "pointer", "start"} => run[call[p].run].starts = 0
  /\ call[p].pc \in {"pointer", "start"} => run[call[p].run].step
  /\ call[p].pc = "start" => loop = "deleted" \/ run[call[p].run].pointer
  /\ call[p].result = "created" => run[call[p].run].starts = 1
  /\ call[p].result = "dispatch_failed" => run[call[p].run].status # "queued"

CallsOK ==
  /\ \A p \in Dispatcher : Good(p)
  /\ \A p, q \in Dispatcher : Owns(p) /\ Owns(q) /\ call[p].run = call[q].run => p = q

Inv == TypeOK /\ RunsOK /\ CallsOK

LEMMA InitInv == Init => Inv
<1> SUFFICES ASSUME Init PROVE Inv
  OBVIOUS
<1>1. /\ call \in [Dispatcher -> CallRec]
      /\ \A p \in Dispatcher : call[p].pc = "new" /\ call[p].result = "none"
  <2>1. \A k \in Key : [pc |-> "new", key |-> k, run |-> 0, result |-> "none"] \in CallRec
    BY AdmissionBounds DEF CallRec, CallPC, Result
  <2> QED
    BY <2>1 DEF Init
<1>2. run \in [Run -> RunRec] /\ \A r \in Run : Blank(r)
  <2>1. \A k \in Key : [status |-> "queued", key |-> k, step |-> FALSE, pointer |-> FALSE,
                       starts |-> 0, back |-> 0] \in RunRec
    BY AdmissionBounds DEF RunRec, Status
  <2> QED
    BY <2>1 DEF Init, Blank
<1>3. Existing = {}
  BY DEF Init, Existing
<1>4. TypeOK
  <2>1. MaxRuns \in Nat /\ MaxMoves \in Nat
    BY AdmissionBounds
  <2>2. loop = "active" /\ nRuns = 0 /\ moves = 0
    BY DEF Init
  <2> QED
    BY <1>1, <1>2, <2>1, <2>2 DEF TypeOK
<1>5. RunsOK
  BY <1>2, <1>3 DEF Init, RunsOK, ActiveRuns, AdmitsOneAtATime, StartedOnce
<1>6. CallsOK
  BY <1>1 DEF CallsOK, Good, Owns
<1> QED
  BY <1>4, <1>5, <1>6 DEF Inv

-----------------------------------------------------------------------------
(* Dispatchers                                                             *)

LEMMA GoToEffect ==
  ASSUME TypeOK, NEW p \in Dispatcher, NEW pc \in CallPC, GoTo(p, pc)
  PROVE  /\ call' \in [Dispatcher -> CallRec]
         /\ \A q \in Dispatcher \ {p} : call'[q] = call[q]
         /\ call'[p].pc = pc /\ call'[p].run = call[p].run
         /\ call'[p].result = call[p].result /\ call'[p].key = call[p].key
BY DEF TypeOK, GoTo, CallRec

LEMMA AnswerEffect ==
  ASSUME TypeOK, NEW p \in Dispatcher, NEW result \in Result, Answer(p, result)
  PROVE  /\ call' \in [Dispatcher -> CallRec]
         /\ \A q \in Dispatcher \ {p} : call'[q] = call[q]
         /\ call'[p].pc = "done" /\ call'[p].run = call[p].run
         /\ call'[p].result = result
BY DEF TypeOK, Answer, CallRec, CallPC

\* A dispatcher that only reads.
LEMMA Reads ==
  ASSUME Inv, NEW p \in Dispatcher, UNCHANGED <<loop, nRuns, run, moves>>,
         call' \in [Dispatcher -> CallRec], \A q \in Dispatcher \ {p} : call'[q] = call[q],
         call'[p].run = call[p].run, Good(p)', Owns(p)' => Owns(p)
  PROVE  Inv'
<1>1. TypeOK' /\ RunsOK'
  BY DEF Inv, TypeOK, RunsOK, Blank, Existing, ActiveRuns, AdmitsOneAtATime, StartedOnce
<1>2. \A q \in Dispatcher : Good(q)'
  BY DEF Inv, CallsOK, Good, Owns, Existing
<1>3. \A q, s \in Dispatcher : Owns(q)' /\ Owns(s)' /\ call'[q].run = call'[s].run => q = s
  BY DEF Inv, CallsOK, Owns
<1> QED
  BY <1>1, <1>2, <1>3 DEF Inv, CallsOK

\* A dispatcher that changes the run it owns: r has the only row that changes.
LEMMA Brings ==
  ASSUME Inv, NEW p \in Dispatcher, Owns(p), UNCHANGED <<loop, nRuns, moves>>,
         call' \in [Dispatcher -> CallRec], \A q \in Dispatcher \ {p} : call'[q] = call[q],
         call'[p].run = call[p].run, Good(p)', run' \in [Run -> RunRec],
         \A s \in Run \ {call[p].run} : run'[s] = run[s],
         NEW r, r = call[p].run,
         run'[r].key = run[r].key, run'[r].back = run[r].back,
         run'[r].status = run[r].status \/ run'[r].status = "failed",
         run'[r].starts <= 1,
         run'[r].starts = 1 /\ loop # "deleted" => run'[r].step /\ run'[r].pointer
  PROVE  Inv'
<1>1. r \in Existing /\ Existing \subseteq Run /\ Existing' = Existing
  BY AdmissionBounds DEF Inv, TypeOK, CallsOK, Good, Existing, Run
<1>2. TypeOK'
  BY DEF Inv, TypeOK
<1>3. AdmitsOneAtATime'
  <2>1. \A s \in ActiveRuns' : s \in ActiveRuns /\ run'[s].back = run[s].back
    BY <1>1 DEF ActiveRuns, Active
  <2> QED
    BY <2>1 DEF Inv, RunsOK, AdmitsOneAtATime
<1>4. \A s \in Run \ Existing : Blank(s)'
  BY <1>1 DEF Inv, RunsOK, Blank
<1>5. \A s, t \in Existing : run'[s].key = run'[t].key => s = t
  BY <1>1 DEF Inv, RunsOK
<1>6. loop = "deleted" => \A s \in Existing : run'[s].status \notin Active
  BY <1>1 DEF Inv, RunsOK, Active
<1>7. StartedOnce'
  BY <1>1 DEF Inv, RunsOK, StartedOnce
<1>8. RunsOK'
  BY <1>1, <1>3, <1>4, <1>5, <1>6, <1>7 DEF Inv, RunsOK
<1>9. \A q \in Dispatcher : Good(q)'
  <2> SUFFICES ASSUME NEW q \in Dispatcher, q # p PROVE Good(q)'
    OBVIOUS
  <2>1. call'[q] = call[q] /\ Good(q)
    BY DEF Inv, CallsOK
  <2>2. Owns(q) => call[q].run # r /\ run'[call[q].run] = run[call[q].run]
    BY <1>1, <2>1 DEF Inv, CallsOK, Good
  <2>3. Owns(q)' <=> Owns(q)
    BY <2>1 DEF Owns
  <2>4. call[q].pc \in {"step", "pointer", "start", "fail"}
          \/ call[q].result \in {"created", "dispatch_failed"} => Owns(q)
    BY DEF Owns
  <2> QED
    BY <1>1, <2>1, <2>2, <2>3, <2>4 DEF Good
<1>10. \A q, s \in Dispatcher : Owns(q)' /\ Owns(s)' /\ call'[q].run = call'[s].run => q = s
  BY DEF Inv, CallsOK, Owns
<1> QED
  BY <1>2, <1>8, <1>9, <1>10 DEF Inv, CallsOK

LEMMA DispatchKeeps ==
  ASSUME Inv, NEW p \in Dispatcher, Dispatch(p) \/ Crash(p)
  PROVE  Inv'
<1>1. TypeOK /\ call[p] \in CallRec /\ Good(p)
  BY DEF Inv, TypeOK, CallsOK
<1>2. {"check", "lookup", "insert", "winner", "step", "pointer", "start", "fail"} \subseteq CallPC
  BY DEF CallPC
<1>3. CASE \/ Receive(p) \/ CheckActive(p) \/ Lookup(p) \/ Winner(p) \/ Crash(p)
           \/ (Insert(p) /\ UNCHANGED <<nRuns, run>>)
  <2>1. UNCHANGED <<loop, nRuns, run, moves>>
    BY <1>3 DEF Receive, CheckActive, Lookup, Winner, Crash, Insert, InsertUnless
  <2>2. \/ \E pc \in {"check", "lookup", "insert", "winner"} :
             GoTo(p, pc) /\ call[p].pc \in {"new", "check", "lookup", "insert"}
        \/ \E result \in {"loop_inactive", "active_run", "duplicate", "ownership_fail", "none"} :
             Answer(p, result)
    <3>1. CASE Insert(p) /\ UNCHANGED <<nRuns, run>>
      <4>1. nRuns \in Nat /\ nRuns' # nRuns + 1
        BY <1>1, <3>1, AdmissionBounds DEF TypeOK
      <4> QED
        BY <3>1, <4>1 DEF Insert, InsertUnless
    <3> QED
      BY <1>3, <3>1 DEF Receive, CheckActive, Lookup, Winner, Crash
  <2>3. CASE \E pc \in {"check", "lookup", "insert", "winner"} :
               GoTo(p, pc) /\ call[p].pc \in {"new", "check", "lookup", "insert"}
    <3>1. PICK pc \in {"check", "lookup", "insert", "winner"} :
                 GoTo(p, pc) /\ call[p].pc \in {"new", "check", "lookup", "insert"}
      BY <2>3
    <3>2. /\ call' \in [Dispatcher -> CallRec]
          /\ \A q \in Dispatcher \ {p} : call'[q] = call[q]
          /\ call'[p].pc = pc /\ call'[p].run = call[p].run /\ call'[p].result = call[p].result
      BY <1>1, <1>2, <3>1, GoToEffect
    <3>3. Good(p)' /\ ~Owns(p)'
      BY <1>1, <3>1, <3>2 DEF Good, Owns
    <3> QED
      BY <2>1, <3>2, <3>3, Reads
  <2>4. ASSUME NEW result \in {"loop_inactive", "active_run", "duplicate", "ownership_fail", "none"},
               Answer(p, result)
        PROVE  Inv'
    <3>1. result \in Result
      BY DEF Result
    <3>2. /\ call' \in [Dispatcher -> CallRec]
          /\ \A q \in Dispatcher \ {p} : call'[q] = call[q]
          /\ call'[p].pc = "done" /\ call'[p].run = call[p].run /\ call'[p].result = result
      BY <1>1, <2>4, <3>1, AnswerEffect
    <3>3. Good(p)' /\ ~Owns(p)'
      BY <3>2 DEF Good, Owns
    <3> QED
      BY <2>1, <3>2, <3>3, Reads
  <2> QED
    BY <2>2, <2>3, <2>4
<1>4. CASE Insert(p) /\ ~UNCHANGED <<nRuns, run>>
  <2> DEFINE r == nRuns + 1
             y == [call[p] EXCEPT !.pc = "step", !.run = r]
  <2>1. /\ call[p].pc = "insert" /\ loop = "active" /\ UNCHANGED <<loop, moves>>
        /\ WithKey(call[p].key) = {} /\ ActiveRuns = {}
        /\ nRuns < MaxRuns /\ nRuns' = r /\ run' = [run EXCEPT ![r].key = call[p].key]
        /\ call' = [call EXCEPT ![p] = y]
    BY <1>4 DEF Insert, InsertUnless
  <2>2. nRuns \in Nat /\ r \in Run /\ r \notin Existing /\ Existing' = Existing \cup {r}
    BY <1>1, <2>1, AdmissionBounds DEF TypeOK, Existing, Run
  <2>3. Existing \subseteq Run
    BY <1>1, AdmissionBounds DEF TypeOK, Existing, Run
  <2>4. y \in CallRec /\ y.pc = "step" /\ y.run = r /\ y.result = "none"
    <3>1. r \in 0..MaxRuns
      BY <2>2, AdmissionBounds DEF Run
    <3> HIDE DEF r
    <3> QED
      BY <1>1, <1>2, <2>1, <3>1 DEF CallRec, Good
  <2>5. nRuns' \in 0..MaxRuns
    BY <2>1, <2>2 DEF Run
  <2> HIDE DEF r, y
  <2>6. /\ call' \in [Dispatcher -> CallRec] /\ call'[p] = y
        /\ \A q \in Dispatcher \ {p} : call'[q] = call[q]
    BY <1>1, <2>1, <2>4 DEF TypeOK
  <2>7. /\ run' \in [Run -> RunRec] /\ \A s \in Run \ {r} : run'[s] = run[s]
        /\ run'[r].key = call[p].key /\ run'[r].starts = run[r].starts
        /\ run'[r].status = run[r].status
    BY <1>1, <2>1, <2>2 DEF TypeOK, RunRec, CallRec
  <2>8. Blank(r)
    BY <2>2 DEF Inv, RunsOK
  <2>9. TypeOK'
    BY <1>1, <2>1, <2>5, <2>6, <2>7 DEF TypeOK
  <2>10. RunsOK'
    <3>1. \A s \in Run \ Existing' : Blank(s)'
      BY <2>2, <2>7 DEF Inv, RunsOK, Blank
    <3>2. \A s, t \in Existing' : run'[s].key = run'[t].key => s = t
      <4>1. \A s \in Existing : run'[s].key # call[p].key
        BY <2>1, <2>2, <2>3, <2>7 DEF WithKey
      <4> QED
        BY <2>2, <2>3, <2>7, <4>1 DEF Inv, RunsOK
    <3>3. AdmitsOneAtATime'
      <4>1. ActiveRuns' \subseteq {r}
        BY <2>1, <2>2, <2>3, <2>7 DEF ActiveRuns
      <4> QED
        BY <2>1, <4>1 DEF AdmitsOneAtATime
    <3>4. StartedOnce'
      BY <2>1, <2>2, <2>3, <2>7, <2>8 DEF Inv, RunsOK, StartedOnce, Blank
    <3> QED
      BY <2>1, <3>1, <3>2, <3>3, <3>4 DEF RunsOK
  <2>11. \A q \in Dispatcher \ {p} : Good(q)' /\ (Owns(q)' <=> Owns(q)) /\ (Owns(q) => call[q].run # r)
    BY <2>1, <2>2, <2>3, <2>6, <2>7 DEF Inv, CallsOK, Good, Owns
  <2>12. Good(p)'
    BY <2>2, <2>4, <2>6, <2>7, <2>8 DEF Good, Blank
  <2>13. CallsOK'
    BY <2>4, <2>6, <2>11, <2>12 DEF Inv, CallsOK
  <2> QED
    BY <2>9, <2>10, <2>13 DEF Inv
\* The run that p owns.
<1>5. ASSUME call[p].pc \in {"step", "pointer", "start", "fail"}
      PROVE  /\ Owns(p) /\ call[p].run \in Run /\ call[p].run \in Existing
             /\ run[call[p].run] \in RunRec /\ call[p].result = "none"
             /\ call[p].pc # "fail" => run[call[p].run].starts = 0
             /\ run[call[p].run].starts \in {0, 1}
             /\ (run[call[p].run].starts = 1 /\ loop # "deleted")
                  => (run[call[p].run].step /\ run[call[p].run].pointer)
  <2>1. call[p].run \in Run /\ call[p].run \in Existing /\ run[call[p].run] \in RunRec
    BY <1>1, <1>5, AdmissionBounds DEF Good, Owns, TypeOK, Existing, Run
  <2>2. run[call[p].run].starts \in Nat /\ run[call[p].run].starts <= 1
    BY <2>1 DEF Inv, RunsOK, StartedOnce, RunRec
  <2> QED
    BY <1>1, <1>5, <2>1, <2>2 DEF Inv, RunsOK, StartedOnce, Good, Owns
<1>6. CASE CreateStep(p)
  <2> DEFINE r == call[p].run
             x == [run[r] EXCEPT !.step = TRUE]
  <2>1. call[p].pc = "step" /\ run' = [run EXCEPT ![r] = x] /\ GoTo(p, "pointer")
        /\ UNCHANGED <<loop, nRuns, moves>>
    BY <1>6 DEF CreateStep
  <2>2. Owns(p) /\ r \in Run /\ r \in Existing /\ run[r] \in RunRec /\ call[p].result = "none"
        /\ run[r].starts = 0
    BY <1>5, <2>1
  <2>3. x \in RunRec /\ x.step /\ x.key = run[r].key /\ x.back = run[r].back /\ x.status = run[r].status /\ x.starts = 0
    BY <2>2 DEF RunRec
  <2> HIDE DEF x
  <2>4. run' \in [Run -> RunRec] /\ run'[r] = x /\ \A s \in Run \ {r} : run'[s] = run[s]
    BY <1>1, <2>1, <2>2, <2>3 DEF TypeOK
  <2>5. /\ call' \in [Dispatcher -> CallRec]
        /\ \A q \in Dispatcher \ {p} : call'[q] = call[q]
        /\ call'[p].pc = "pointer" /\ call'[p].run = r /\ call'[p].result = "none"
    BY <1>1, <1>2, <2>1, <2>2, GoToEffect
  <2>6. Good(p)'
    BY <2>1, <2>2, <2>3, <2>4, <2>5 DEF Good, Existing
  <2> QED
    BY <2>1, <2>2, <2>3, <2>4, <2>5, <2>6, Brings
<1>7. CASE SetPointer(p)
  <2> DEFINE r == call[p].run
             x == IF loop # "deleted" THEN [run[r] EXCEPT !.pointer = TRUE] ELSE run[r]
  <2>1. call[p].pc = "pointer" /\ GoTo(p, "start") /\ UNCHANGED <<loop, nRuns, moves>>
    BY <1>7 DEF SetPointer
  <2>2. Owns(p) /\ r \in Run /\ r \in Existing /\ run[r] \in RunRec /\ call[p].result = "none"
        /\ run[r].starts = 0 /\ run[r].step
    BY <1>1, <1>5, <2>1 DEF Good
  <2>3. /\ x \in RunRec /\ x.step /\ x.key = run[r].key /\ x.back = run[r].back /\ x.status = run[r].status
        /\ x.starts = 0 /\ (loop = "deleted" \/ x.pointer)
    BY <2>2 DEF RunRec
  <2>4. run' \in [Run -> RunRec] /\ run'[r] = x /\ \A s \in Run \ {r} : run'[s] = run[s]
    BY <1>1, <1>7, <2>2, <2>3 DEF TypeOK, SetPointer
  <2> HIDE DEF x
  <2>5. /\ call' \in [Dispatcher -> CallRec]
        /\ \A q \in Dispatcher \ {p} : call'[q] = call[q]
        /\ call'[p].pc = "start" /\ call'[p].run = r /\ call'[p].result = "none"
    BY <1>1, <1>2, <2>1, <2>2, GoToEffect
  <2>6. Good(p)'
    BY <2>1, <2>2, <2>3, <2>4, <2>5 DEF Good, Existing
  <2> QED
    BY <2>1, <2>2, <2>3, <2>4, <2>5, <2>6, Brings
\* Neither the start nor the event; then the start, with the event or without.
<1>8. CASE Start(p) /\ UNCHANGED run
  <2>1. call[p].pc = "start" /\ UNCHANGED <<loop, nRuns, run, moves>>
    BY <1>8 DEF Start
  <2>2. Owns(p) /\ call[p].run \in Run /\ run[call[p].run] \in RunRec /\ call[p].result = "none"
        /\ run[call[p].run].starts = 0
    BY <1>5, <2>1
  <2>3. GoTo(p, "fail")
    <3>1. [run EXCEPT ![call[p].run].starts = @ + 1] # run
      BY <1>1, <2>2 DEF TypeOK, RunRec
    <3> QED
      BY <1>8, <3>1 DEF Start
  <2>4. /\ call' \in [Dispatcher -> CallRec]
        /\ \A q \in Dispatcher \ {p} : call'[q] = call[q]
        /\ call'[p].pc = "fail" /\ call'[p].run = call[p].run /\ call'[p].result = "none"
    BY <1>1, <1>2, <2>2, <2>3, GoToEffect
  <2>5. Good(p)'
    BY <1>1, <2>1, <2>2, <2>4 DEF Good, Existing, Owns
  <2> QED
    BY <2>1, <2>2, <2>4, <2>5, Reads
<1>9. CASE Start(p) /\ ~UNCHANGED run
  <2> DEFINE r == call[p].run
             x == [run[r] EXCEPT !.starts = @ + 1]
  <2>1. call[p].pc = "start" /\ run' = [run EXCEPT ![r] = x] /\ (Answer(p, "created") \/ GoTo(p, "fail"))
        /\ UNCHANGED <<loop, nRuns, moves>>
    BY <1>9 DEF Start
  <2>2. Owns(p) /\ r \in Run /\ r \in Existing /\ run[r] \in RunRec
        /\ call[p].result = "none" /\ run[r].starts = 0 /\ run[r].step /\ (loop = "deleted" \/ run[r].pointer)
    BY <1>1, <1>5, <2>1 DEF Good
  <2>3. /\ x \in RunRec /\ x.step /\ x.key = run[r].key /\ x.back = run[r].back /\ x.status = run[r].status
        /\ x.starts = 1 /\ x.pointer = run[r].pointer
    BY <2>2 DEF RunRec
  <2> HIDE DEF x
  <2>4. run' \in [Run -> RunRec] /\ run'[r] = x /\ \A s \in Run \ {r} : run'[s] = run[s]
    BY <1>1, <2>1, <2>2, <2>3 DEF TypeOK
  <2>5. /\ call' \in [Dispatcher -> CallRec]
        /\ \A q \in Dispatcher \ {p} : call'[q] = call[q]
        /\ call'[p].run = r
        /\ \/ call'[p].pc = "done" /\ call'[p].result = "created"
           \/ call'[p].pc = "fail" /\ call'[p].result = "none"
    <3>1. CASE Answer(p, "created")
      BY <1>1, <3>1, AnswerEffect DEF Result
    <3>2. CASE GoTo(p, "fail")
      BY <1>1, <1>2, <2>2, <3>2, GoToEffect
    <3> QED
      BY <2>1, <3>1, <3>2
  <2>6. Good(p)'
    BY <2>1, <2>2, <2>3, <2>4, <2>5 DEF Good, Existing
  <2> QED
    BY <2>1, <2>2, <2>3, <2>4, <2>5, <2>6, Brings
<1>10. CASE FailRun(p)
  <2> DEFINE r == call[p].run
             x == IF loop # "deleted" /\ run[r].status \in {"queued", "running"}
                  THEN [run[r] EXCEPT !.status = "failed"] ELSE run[r]
  <2>1. call[p].pc = "fail" /\ Answer(p, "dispatch_failed")
        /\ UNCHANGED <<loop, nRuns, moves>>
    BY <1>10 DEF FailRun
  <2>2. /\ Owns(p) /\ r \in Run /\ r \in Existing /\ run[r] \in RunRec
        /\ run[r].starts \in {0, 1}
        /\ run[r].starts = 1 /\ loop # "deleted" => run[r].step /\ run[r].pointer
    BY <1>5, <2>1
  <2>3. loop = "deleted" => run[r].status # "queued"
    BY <2>2 DEF Inv, RunsOK, Active
  <2>4. /\ x \in RunRec /\ x.key = run[r].key /\ x.back = run[r].back /\ (x.status = run[r].status \/ x.status = "failed")
        /\ x.starts = run[r].starts /\ x.step = run[r].step /\ x.pointer = run[r].pointer
        /\ x.status # "queued"
    BY <2>2, <2>3 DEF RunRec, Status
  <2>5. run' \in [Run -> RunRec] /\ run'[r] = x /\ \A s \in Run \ {r} : run'[s] = run[s]
    BY <1>1, <1>10, <2>2, <2>4 DEF TypeOK, FailRun
  <2> HIDE DEF x
  <2>6. /\ call' \in [Dispatcher -> CallRec]
        /\ \A q \in Dispatcher \ {p} : call'[q] = call[q]
        /\ call'[p].pc = "done" /\ call'[p].run = r /\ call'[p].result = "dispatch_failed"
    BY <1>1, <2>1, AnswerEffect DEF Result
  <2>7. Good(p)'
    BY <2>1, <2>2, <2>4, <2>5, <2>6 DEF Good, Existing
  <2> QED
    BY <2>1, <2>2, <2>4, <2>5, <2>6, <2>7, Brings
<1> QED
  BY <1>3, <1>4, <1>6, <1>7, <1>8, <1>9, <1>10 DEF Dispatch

-----------------------------------------------------------------------------
(* The rest of the system                                                  *)

\* Only statuses move, none of them back to queued, and who comes back notes the newest.
LEMMA Moves ==
  ASSUME Inv, UNCHANGED <<nRuns, call>>,
         loop' \in {"active", "inactive", "deleted"}, loop = "deleted" => loop' = "deleted",
         moves' \in 0..MaxMoves,
         run' \in [Run -> RunRec],
         \A r \in Run : /\ run'[r].key = run[r].key /\ run'[r].step = run[r].step
                        /\ run'[r].pointer = run[r].pointer /\ run'[r].starts = run[r].starts
                        /\ run'[r].status = "queued" => run[r].status = "queued",
         \A r \in Run \ Existing : run'[r] = run[r],
         loop' = "deleted" => \A r \in Existing : run'[r].status \notin Active,
         \A r \in Existing : run'[r].status \in Active =>
           \/ run[r].status \in Active /\ run'[r].back = run[r].back
           \/ run'[r].back = nRuns
  PROVE  Inv'
<1>1. Existing' = Existing /\ Existing \subseteq Run
  BY AdmissionBounds DEF Inv, TypeOK, Existing, Run
<1>2. TypeOK'
  BY DEF Inv, TypeOK
<1>3. AdmitsOneAtATime'
  <2>1. \A r \in ActiveRuns' : (r \in ActiveRuns /\ run'[r].back = run[r].back) \/ run'[r].back = nRuns
    BY <1>1 DEF ActiveRuns
  <2> QED
    BY <2>1 DEF Inv, RunsOK, AdmitsOneAtATime
<1>4. StartedOnce'
  BY <1>1 DEF Inv, RunsOK, StartedOnce
<1>5. RunsOK'
  <2>1. \A r \in Run \ Existing : Blank(r)'
    BY DEF Inv, RunsOK, Blank
  <2>2. \A r, s \in Existing : run'[r].key = run'[s].key => r = s
    BY <1>1 DEF Inv, RunsOK
  <2> QED
    BY <1>1, <1>3, <1>4, <2>1, <2>2 DEF Inv, RunsOK
<1>6. \A p \in Dispatcher : Good(p)'
  <2> SUFFICES ASSUME NEW p \in Dispatcher PROVE Good(p)'
    OBVIOUS
  <2>1. Good(p) /\ (Owns(p) => call[p].run \in Run) /\ call'[p] = call[p]
    BY <1>1 DEF Inv, CallsOK, Good
  <2> QED
    BY <1>1, <2>1 DEF Good, Owns
<1>7. \A p, q \in Dispatcher : Owns(p)' /\ Owns(q)' /\ call'[p].run = call'[q].run => p = q
  BY DEF Inv, CallsOK, Owns
<1> QED
  BY <1>2, <1>5, <1>6, <1>7 DEF Inv, CallsOK

LEMMA BecomesKeeps ==
  ASSUME Inv, NEW r \in Existing, NEW from, NEW to \in Status \ {"queued"}, Becomes(r, from, to)
  PROVE  Inv'
<1> DEFINE back == IF run[r].status \notin Active /\ to \in Active THEN nRuns ELSE run[r].back
           x == [run[r] EXCEPT !.status = to, !.back = back]
<1>1. /\ run \in [Run -> RunRec] /\ r \in Run /\ Existing \subseteq Run /\ nRuns \in 0..MaxRuns
      /\ loop \in {"active", "inactive", "deleted"} /\ MaxMoves \in Nat /\ moves \in 0..MaxMoves
  BY AdmissionBounds DEF Inv, TypeOK, Existing, Run
<1>2. /\ loop # "deleted" /\ moves < MaxMoves /\ moves' = moves + 1
      /\ UNCHANGED <<loop, nRuns, call>> /\ run' = [run EXCEPT ![r] = x]
  BY DEF Becomes, Move
<1>3. back \in 0..MaxRuns
  BY <1>1 DEF RunRec
<1>4. to \in Active => (run[r].status \in Active /\ back = run[r].back) \/ back = nRuns
  OBVIOUS
<1> HIDE DEF back
<1>5. /\ x \in RunRec /\ x.status = to /\ x.key = run[r].key /\ x.step = run[r].step
      /\ x.pointer = run[r].pointer /\ x.starts = run[r].starts /\ x.back = back
  BY <1>1, <1>3 DEF RunRec
<1> HIDE DEF x
<1>6. run' \in [Run -> RunRec] /\ run'[r] = x /\ \A s \in Run \ {r} : run'[s] = run[s]
  BY <1>1, <1>2, <1>5
<1>7. moves' \in 0..MaxMoves
  BY <1>1, <1>2
<1>8. \A s \in Run : /\ run'[s].key = run[s].key /\ run'[s].step = run[s].step
                     /\ run'[s].pointer = run[s].pointer /\ run'[s].starts = run[s].starts
                     /\ run'[s].status = "queued" => run[s].status = "queued"
  BY <1>5, <1>6
<1>9. \A s \in Existing : run'[s].status \in Active =>
        (run[s].status \in Active /\ run'[s].back = run[s].back) \/ run'[s].back = nRuns
  BY <1>1, <1>4, <1>5, <1>6
<1> QED
  BY <1>1, <1>2, <1>6, <1>7, <1>8, <1>9, Moves

LEMMA RestKeeps ==
  ASSUME Inv,
         \/ \E r \in Existing : Proceed(r) \/ Control(r) \/ Stall(r) \/ Decide(r) \/ Retry(r)
         \/ Toggle \/ Delete
  PROVE  Inv'
<1>1. TypeOK /\ MaxRuns \in Nat /\ MaxMoves \in Nat /\ Existing \subseteq Run
  BY AdmissionBounds DEF Inv, TypeOK, Existing, Run
<1>2. Move => moves' \in 0..MaxMoves
  BY <1>1 DEF TypeOK, Move
<1>3. /\ loop \in {"active", "inactive", "deleted"} /\ moves \in 0..MaxMoves
      /\ loop = "deleted" => \A r \in Existing : run[r].status \notin Active
  BY <1>1 DEF TypeOK, Inv, RunsOK
<1>4. ASSUME NEW r \in Existing, Proceed(r) \/ Control(r) \/ Stall(r) \/ Decide(r) \/ Retry(r)
      PROVE  Inv'
  <2>1. ASSUME NEW from, NEW to \in {"running", "completed", "failed", "paused", "cancelled", "stalled"},
               Becomes(r, from, to)
        PROVE  Inv'
    <3>1. to \in Status \ {"queued"}
      BY DEF Status
    <3> QED
      BY <2>1, <3>1, BecomesKeeps
  <2>2. CASE Proceed(r)
    BY <2>1, <2>2, Zenon DEF Proceed
  <2>3. CASE Control(r)
    BY <2>1, <2>3, Zenon DEF Control
  <2>4. CASE Stall(r)
    BY <2>1, <2>4 DEF Stall
  <2>5. CASE Decide(r)
    BY <2>1, <2>5 DEF Decide
  <2>6. CASE Retry(r)
    BY <2>1, <2>6 DEF Retry
  <2> QED
    BY <1>4, <2>2, <2>3, <2>4, <2>5, <2>6
<1>6. CASE Toggle
  <2>1. /\ loop # "deleted" /\ loop' \in {"active", "inactive"} /\ Move
        /\ UNCHANGED <<nRuns, run, call>>
    BY <1>6 DEF Toggle
  <2> QED
    BY <1>1, <1>2, <1>3, <2>1, Moves DEF TypeOK
<1>7. CASE Delete
  <2> DEFINE Ends(r) == r \in Existing /\ run[r].status \in Active \cup {"stalled"}
             after(r) == IF Ends(r) THEN [run[r] EXCEPT !.status = "cancelled"] ELSE run[r]
  <2>1. loop' = "deleted" /\ Move /\ UNCHANGED <<nRuns, call>>
    BY <1>7 DEF Delete
  <2>2. run' = [r \in Run |-> after(r)]
    BY <1>7 DEF Delete
  <2>3. \A r \in Run : /\ after(r) \in RunRec /\ after(r).key = run[r].key
                       /\ after(r).step = run[r].step /\ after(r).pointer = run[r].pointer
                       /\ after(r).starts = run[r].starts /\ after(r).back = run[r].back
                       /\ after(r).status = IF Ends(r) THEN "cancelled" ELSE run[r].status
                       /\ r \notin Existing => after(r) = run[r]
    BY <1>1 DEF TypeOK, RunRec, Status
  <2> HIDE DEF after
  <2>4. run' \in [Run -> RunRec] /\ \A r \in Run : run'[r] = after(r)
    BY <2>2, <2>3
  <2>5. \A r \in Existing : run'[r].status \notin Active
    BY <1>1, <2>3, <2>4 DEF Active
  <2>6. \A r \in Run : run'[r].status = "queued" => run[r].status = "queued"
    BY <2>3, <2>4
  <2> HIDE DEF Ends
  <2> QED
    BY <1>2, <1>3, <2>1, <2>3, <2>4, <2>5, <2>6, Moves
<1> QED
  BY <1>4, <1>6, <1>7

LEMMA StepInv == Inv /\ [Next]_vars => Inv'
<1> SUFFICES ASSUME Inv, [Next]_vars PROVE Inv'
  OBVIOUS
<1>1. CASE UNCHANGED vars
  BY <1>1 DEF vars, Inv, TypeOK, RunsOK, CallsOK, Good, Owns, Blank, Existing, ActiveRuns,
              AdmitsOneAtATime, StartedOnce
<1>2. CASE Next
  BY <1>2, DispatchKeeps, RestKeeps DEF Next
<1> QED
  BY <1>1, <1>2

-----------------------------------------------------------------------------
(* Theorems                                                                *)

\* The inductive invariant holds.
THEOREM InvHolds == Spec => []Inv
  BY InitInv, StepInv, PTL DEF Spec

\* Types of the runs and the calls.
THEOREM TypeCorrect == Spec => []TypeOK
<1>1. Inv => TypeOK
  BY DEF Inv
<1> QED
  BY <1>1, InvHolds, PTL

\* A set of runs with no two elements has at most one.
LEMMA AtMostOne ==
  ASSUME TypeOK, NEW S \in SUBSET Existing, \A r, s \in S : r = s
  PROVE  Cardinality(S) <= 1
<1>1. IsFiniteSet(S)
  <2>1. IsFiniteSet(Existing)
    BY FS_Interval, AdmissionBounds DEF TypeOK, Existing
  <2> QED
    BY <2>1, FS_Subset
<1>2. CASE S = {}
  BY <1>2, FS_EmptySet
<1>3. ASSUME NEW r \in S
      PROVE  Cardinality(S) = 1
  <2>1. S = {r}
    BY <1>3
  <2> QED
    BY <2>1, FS_Singleton
<1> QED
  BY <1>2, <1>3

\* A run that is queued, running or paused is the newest run of its loop, or it had failed
\* or stalled and came back after the newest was admitted: whatever dispatchers, verdicts
\* and retries interleave with, no run is admitted beside an active one.
THEOREM OneIsAdmitted == Spec => []AdmitsOneAtATime
<1>1. Inv => AdmitsOneAtATime
  BY DEF Inv, RunsOK
<1> QED
  BY <1>1, InvHolds, PTL

\* No event becomes two runs.
THEOREM KeysAreUnique == Spec => []OneRunPerKey
<1>1. Inv => OneRunPerKey
  <2> SUFFICES ASSUME Inv, NEW k \in Key PROVE Cardinality(WithKey(k)) <= 1
    BY DEF OneRunPerKey
  <2>1. WithKey(k) \in SUBSET Existing /\ \A r, s \in WithKey(k) : r = s
    BY DEF Inv, RunsOK, WithKey
  <2> QED
    BY <2>1, AtMostOne DEF Inv
<1> QED
  BY <1>1, InvHolds, PTL

\* A run is started by its creator only, once, and with its pointer in place.
THEOREM StartsAreOnce == Spec => []StartedOnce
<1>1. Inv => StartedOnce
  BY DEF Inv, RunsOK
<1> QED
  BY <1>1, InvHolds, PTL

\* "created" and "dispatch_failed" are true of the run they are said of.
THEOREM NoSuccessIsFalse == Spec => []NoFalseSuccess
<1>1. Inv => NoFalseSuccess
  BY DEF Inv, CallsOK, Good, NoFalseSuccess
<1> QED
  BY <1>1, InvHolds, PTL

=============================================================================
