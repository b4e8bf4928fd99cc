---------------------------- MODULE ChatRunProofs ----------------------------
(***************************************************************************)
(* Proofs about ChatRun, for every number of runs, requests, rounds of     *)
(* reconciliation and faults.                                              *)
(***************************************************************************)
EXTENDS ChatRun, TLAPS

-----------------------------------------------------------------------------
(* The inductive invariant                                                  *)

Begun(r) == r \in Run /\ run[r].pc # "unborn"

\* A run's status, row and place agree.
Coherent(x) ==
  /\ x \in RunRec
  /\ x.status = "none" <=> x.pc = "unborn"
  /\ x.status \in {"completed", "failed"} => x.pc = "over"
  /\ x.recorded => x.pc \in {"close", "over"}

RunsOK == run \in [Run -> RunRec] /\ \A r \in Run : Coherent(run[r])

\* What a request holds names runs that have begun, and what it means to clear after
\* cancelling has nothing ahead of it.
Sensible(q) ==
  /\ req[q].pc \in {"ask", "answered"} => req[q].seen = NoRun
  /\ req[q].pc # "answered" => req[q].answer = "none"
  /\ req[q].pc \in {"lookup", "isRecorded", "unblock", "cancelRun", "unslot"} => Begun(req[q].seen)
  /\ req[q].pc \in {"claimOwn", "cancelOwn"} => Begun(req[q].own)
  /\ req[q].pc = "unslot" => ~Ahead(req[q].seen)

Inv ==
  /\ slot # NoRun => Begun(slot)
  /\ RunsOK
  /\ req \in [Request -> RequestRec] /\ \A q \in Request : Sensible(q)
  /\ spent \in [faults : 0..MaxFaults, blind : BOOLEAN]
  /\ WorkIsVisible
  /\ StaleIsStale

-----------------------------------------------------------------------------
(* What a step may do to the runs                                           *)

\* Nothing that has begun is undone, and nothing that is past comes back.
Forward ==
  \A r \in Run : /\ run[r].pc # "unborn" => run'[r].pc # "unborn"
                 /\ run[r].pc # "unborn" /\ ~Ahead(r) => ~Ahead(r)'

\* A fault may be the first blind one; none is forgotten.
Spent == spent \in [faults : 0..MaxFaults, blind : BOOLEAN]

LEMMA Faults ==
  ASSUME Spent, UNCHANGED spent \/ Fault \/ BlindFault
  PROVE  Spent' /\ (~spent'.blind => ~spent.blind)
<1>1. CASE UNCHANGED spent
  BY <1>1 DEF Spent
<1>2. ASSUME NEW b \in BOOLEAN, FaultAs(b)
      PROVE  Spent' /\ (~spent'.blind => ~spent.blind)
  BY <1>2, ChatParams DEF FaultAs, Spent
<1> QED
  BY <1>1, <1>2 DEF Fault, BlindFault

LEMMA Blinded ==
  ASSUME BlindFault PROVE spent'.blind
BY DEF BlindFault, FaultAs

LEMMA RunUpdate ==
  ASSUME NEW r \in Run, NEW x, Coherent(x), x.pc # "unborn", RunsOK,
         run' = [run EXCEPT ![r] = x],
         run[r].pc # "unborn" /\ ~Ahead(r)
           => ~(x.pc \in {"queued", "turn"} /\ x.status # "cancelled")
  PROVE  RunsOK' /\ Forward /\ run'[r] = x /\ \A s \in Run \ {r} : run'[s] = run[s]
<1>1. run'[r] = x /\ \A s \in Run \ {r} : run'[s] = run[s]
  BY DEF RunsOK
<1>2. RunsOK'
  BY <1>1 DEF RunsOK, Coherent
<1>3. Forward
  BY <1>1 DEF Forward, Ahead
<1> QED
  BY <1>1, <1>2, <1>3

LEMMA CancelledUpdate ==
  ASSUME NEW r, Begun(r), RunsOK, run' = Cancelled(r)
  PROVE  RunsOK' /\ Forward /\ ~Ahead(r)' /\ \A s \in Run : AtWork(s)' => AtWork(s)
<1>1. CASE run[r].status \in Live
  <2> DEFINE x == [run[r] EXCEPT !.status = "cancelled"]
  <2>1. Coherent(x) /\ x.pc = run[r].pc /\ x.status = "cancelled"
    BY <1>1 DEF Coherent, RunRec, Live, Terminal, Begun, RunsOK
  <2>2. run' = [run EXCEPT ![r] = x]
    BY <1>1 DEF Cancelled
  <2> HIDE DEF x
  <2>3. RunsOK' /\ Forward /\ run'[r] = x /\ \A s \in Run \ {r} : run'[s] = run[s]
    BY <2>1, <2>2, RunUpdate DEF Begun
  <2> QED
    BY <2>1, <2>3 DEF AtWork, Ahead, Begun
<1>2. CASE run[r].status \notin Live
  <2>1. run' = run
    BY <1>2 DEF Cancelled
  <2>2. run[r].status \in Terminal
    BY <1>2 DEF Begun, Coherent, RunRec, RunsOK
  <2>3. ~Ahead(r)'
    BY <2>1, <2>2 DEF Ahead, Begun, Coherent, RunsOK, Terminal
  <2>4. RunsOK'
    BY <2>1 DEF RunsOK, Coherent
  <2>5. Forward /\ \A s \in Run : AtWork(s)' => AtWork(s)
    BY <2>1 DEF Forward, AtWork, Ahead
  <2> QED
    BY <2>3, <2>4, <2>5
<1> QED
  BY <1>1, <1>2

-----------------------------------------------------------------------------
(* What a step may do to the requests                                       *)

RequestsOK == req \in [Request -> RequestRec] /\ \A q \in Request : Sensible(q)

LEMMA ToRequestEffect ==
  ASSUME NEW q \in Request, NEW pc \in RequestPC, RequestsOK, ToRequest(q, pc)
  PROVE  /\ req' \in [Request -> RequestRec]
         /\ \A p \in Request \ {q} : req'[p] = req[p]
         /\ req'[q].pc = pc /\ req'[q].kind = req[q].kind /\ req'[q].seen = req[q].seen
         /\ req'[q].own = req[q].own /\ req'[q].answer = req[q].answer
BY DEF RequestsOK, ToRequest, RequestRec

LEMMA ProceedEffect ==
  ASSUME NEW q \in Request, NEW pc \in {"startRun", "edit"}, RequestsOK, Proceed(q, pc)
  PROVE  /\ req' \in [Request -> RequestRec]
         /\ \A p \in Request \ {q} : req'[p] = req[p]
         /\ Sensible(q)' /\ req'[q].pc = pc /\ req'[q].answer = "none"
<1> DEFINE x == At(pc, req[q].kind, "none")
<1>1. /\ x \in RequestRec /\ x.pc = pc /\ x.answer = "none" /\ x.seen = NoRun
  <2>1. req[q].kind \in Kind /\ 0 \in 0..(MaxAttempts - 1)
    BY ChatParams DEF RequestsOK, RequestRec
  <2> QED
    BY <2>1 DEF At, RequestRec, RequestPC, Answer
<1>2. req' = [req EXCEPT ![q] = x]
  BY DEF Proceed
<1> HIDE DEF x
<1> QED
  BY <1>1, <1>2 DEF RequestsOK, Sensible

LEMMA ReplyEffect ==
  ASSUME NEW q \in Request, NEW answer \in Answer, RequestsOK, Reply(q, answer)
  PROVE  /\ req' \in [Request -> RequestRec]
         /\ \A p \in Request \ {q} : req'[p] = req[p]
         /\ Sensible(q)' /\ req'[q].pc = "answered" /\ req'[q].answer = answer
<1> DEFINE x == At("answered", req[q].kind, answer)
<1>1. /\ x \in RequestRec /\ x.pc = "answered" /\ x.answer = answer /\ x.seen = NoRun
  <2>1. req[q].kind \in Kind /\ 0 \in 0..(MaxAttempts - 1)
    BY ChatParams DEF RequestsOK, RequestRec
  <2> QED
    BY <2>1 DEF At, RequestRec, RequestPC
<1>2. req' = [req EXCEPT ![q] = x]
  BY DEF Reply
<1> HIDE DEF x
<1>3. req' \in [Request -> RequestRec] /\ req'[q] = x /\ \A p \in Request \ {q} : req'[p] = req[p]
  BY <1>1, <1>2 DEF RequestsOK
<1> QED
  BY <1>1, <1>3 DEF Sensible

\* The requests that a step leaves alone stay sensible, and their verdicts right.
LEMMA OtherRequests ==
  ASSUME NEW q, RequestsOK, Forward, StaleIsStale,
         ~spent'.blind => ~spent.blind,
         \A p \in Request \ {q} : req'[p] = req[p]
  PROVE  /\ \A p \in Request \ {q} : Sensible(p)'
         /\ ~spent'.blind =>
              \A p \in Request \ {q} : req'[p].pc = "unblock" => ~(Ahead(req[p].seen)')
<1> SUFFICES ASSUME NEW p \in Request \ {q}
             PROVE  /\ Sensible(p)'
                    /\ ~spent'.blind => (req'[p].pc = "unblock" => ~(Ahead(req[p].seen)'))
  OBVIOUS
<1>1. Sensible(p) /\ req'[p] = req[p]
  BY DEF RequestsOK
<1> QED
  BY <1>1 DEF Sensible, Forward, StaleIsStale, Begun, Ahead

-----------------------------------------------------------------------------
(* The invariant is kept                                                    *)

\* What the action of a run must establish, of a run r that has begun.
LEMMA RunKeeps ==
  ASSUME Inv, NEW r \in Run, Begun(r), UNCHANGED req,
         RunsOK', Forward, Spent', ~spent'.blind => ~spent.blind,
         \A s \in Run \ {r} : run'[s] = run[s],
         slot' \in {slot, r} \/ (slot' = NoRun /\ slot \in {NoRun, r}),
         ~spent'.blind => /\ AtWork(r)' => slot' = r
                          /\ slot' = slot \/ slot \in {NoRun, r}
  PROVE  Inv'
<1>1. slot' # NoRun => Begun(slot)'
  BY DEF Inv, Begun, Forward
<1>2. \A q \in Request : Sensible(q)'
  BY DEF Inv, Sensible, Forward, Begun
<1>3. WorkIsVisible'
  <2> SUFFICES ASSUME ~spent'.blind, NEW s \in Run, AtWork(s)'
               PROVE  slot' = s
    BY DEF WorkIsVisible
  <2>1. CASE s # r
    BY <2>1, ChatParams DEF Inv, WorkIsVisible, AtWork, NoRun, Run
  <2> QED
    BY <2>1
<1>4. StaleIsStale'
  BY DEF Inv, StaleIsStale, Sensible, Forward, Begun
<1> QED
  BY <1>1, <1>2, <1>3, <1>4 DEF Inv, Spent, RunsOK

LEMMA RunActions ==
  ASSUME Inv, NEW r \in Run, RunStep(r) \/ EnrollFails(r) \/ WriteFails(r) \/ End(r)
  PROVE  Inv'
<1> USE DEF Begun
<1>1. RunsOK /\ Spent /\ Coherent(run[r]) /\ run[r] \in RunRec /\ WorkIsVisible
  BY DEF Inv, Spent, RunsOK
<1>2. CASE Enroll(r)
  <2>1. CASE CanClaim(r) /\ slot' = r /\ run' = [run EXCEPT ![r] = Delivered(@, "turn", "running")]
    <3> DEFINE x == Delivered(run[r], "turn", "running")
    <3>1. Coherent(x) /\ x.pc = "turn" /\ (x.status = "cancelled" <=> run[r].status = "cancelled")
      BY <1>1, <1>2 DEF Enroll, Delivered, Coherent, RunRec, RunPC, Live, Terminal
    <3>2. run' = [run EXCEPT ![r] = x]
      BY <2>1
    <3> HIDE DEF x
    <3>3. RunsOK' /\ Forward /\ \A s \in Run \ {r} : run'[s] = run[s]
      BY <1>1, <1>2, <3>1, <3>2, RunUpdate DEF Ahead, Enroll
    <3> QED
      BY <1>1, <1>2, <2>1, <3>3, RunKeeps DEF Enroll, CanClaim, Spent
  <2>2. CASE run' = [run EXCEPT ![r] = Delivered(@, "over", "completed")] /\ UNCHANGED slot
    <3> DEFINE x == Delivered(run[r], "over", "completed")
    <3>1. Coherent(x) /\ x.pc = "over"
      BY <1>1, <1>2 DEF Enroll, Delivered, Coherent, RunRec, RunPC, Live, Terminal
    <3>2. run' = [run EXCEPT ![r] = x]
      BY <2>2
    <3> HIDE DEF x
    <3>3. RunsOK' /\ Forward /\ run'[r] = x /\ \A s \in Run \ {r} : run'[s] = run[s]
      BY <1>1, <1>2, <3>1, <3>2, RunUpdate DEF Ahead, Enroll
    <3>4. ~AtWork(r)' /\ Spent' /\ (~spent'.blind => ~spent.blind) /\ UNCHANGED req
      BY <1>1, <1>2, <3>1, <3>3 DEF Enroll, AtWork, Spent
    <3> QED
      BY <1>1, <1>2, <2>2, <3>3, <3>4, RunKeeps DEF Enroll
  <2> QED
    BY <1>2, <2>1, <2>2 DEF Enroll
<1>3. CASE EnrollFails(r)
  <2> DEFINE x == Delivered(run[r], "turn", "running")
  <2>1. Coherent(x) /\ x.pc = "turn" /\ (x.status = "cancelled" <=> run[r].status = "cancelled")
    BY <1>1, <1>3 DEF EnrollFails, Delivered, Coherent, RunRec, RunPC, Live, Terminal
  <2>2. run' = [run EXCEPT ![r] = x]
    BY <1>3 DEF EnrollFails
  <2> HIDE DEF x
  <2>3. RunsOK' /\ Forward /\ \A s \in Run \ {r} : run'[s] = run[s]
    BY <1>1, <1>3, <2>1, <2>2, RunUpdate DEF Ahead, EnrollFails
  <2>4. Spent' /\ spent'.blind
    BY <1>1, <1>3, Faults, Blinded DEF EnrollFails
  <2> QED
    BY <1>3, <2>3, <2>4, RunKeeps DEF EnrollFails
\* Every other action moves r to a place past its turn.
<1>4. CASE \/ Turn(r) \/ ClearActiveStream(r) \/ RecordUsage(r) \/ Close(r)
           \/ WriteFails(r) \/ End(r)
  <2>1. PICK x : /\ Coherent(x) /\ x.pc \in {"clear", "record", "close", "over"}
                 /\ run' = [run EXCEPT ![r] = x]
    <3>1. CASE Turn(r)
      <4>1. Coherent([run[r] EXCEPT !.pc = "clear"])
        BY <1>1, <3>1 DEF Turn, Coherent, RunRec, RunPC
      <4> QED
        BY <1>1, <3>1, <4>1 DEF Turn, AdvanceRun, RunRec
    <3>2. CASE ClearActiveStream(r)
      <4>1. Coherent([run[r] EXCEPT !.pc = "record"])
        BY <1>1, <3>2 DEF ClearActiveStream, Coherent, RunRec, RunPC
      <4> QED
        BY <1>1, <3>2, <4>1 DEF ClearActiveStream, AdvanceRun, RunRec
    <3>3. CASE RecordUsage(r)
      <4>1. Coherent([run[r] EXCEPT !.pc = "close", !.recorded = TRUE])
        BY <1>1, <3>3 DEF RecordUsage, Coherent, RunRec, RunPC
      <4> QED
        BY <1>1, <3>3, <4>1 DEF RecordUsage, RunRec
    <3>4. CASE Close(r)
      <4>1. PICK status \in {"completed", "failed", "running"} :
              run' = [run EXCEPT ![r].pc = "over",
                                 ![r].status = IF @ = "cancelled" THEN @ ELSE status]
        BY <3>4 DEF Close
      <4> DEFINE x == [run[r] EXCEPT !.pc = "over",
                                     !.status = IF @ = "cancelled" THEN @ ELSE status]
      <4>2. Coherent(x) /\ x.pc = "over"
        BY <1>1, <3>4 DEF Close, Coherent, RunRec, RunPC, Live, Terminal
      <4>3. run' = [run EXCEPT ![r] = x]
        BY <4>1
      <4> QED
        BY <4>2, <4>3
    <3>5. CASE WriteFails(r)
      <4>1. /\ run[r].pc = "clear" => Coherent([run[r] EXCEPT !.pc = "record"])
            /\ run[r].pc = "record" => Coherent([run[r] EXCEPT !.pc = "close"])
        BY <1>1, <3>5 DEF WriteFails, Coherent, RunRec, RunPC
      <4> QED
        BY <1>1, <3>5, <4>1 DEF WriteFails, AdvanceRun, RunRec
    <3>6. CASE End(r)
      <4>1. Coherent([run[r] EXCEPT !.pc = "over"])
        BY <1>1, <3>6 DEF End, Coherent, RunRec, RunPC, Live, Terminal
      <4> QED
        BY <1>1, <3>6, <4>1 DEF End, AdvanceRun, RunRec
    <3> QED
      BY <1>4, <3>1, <3>2, <3>3, <3>4, <3>5, <3>6
  <2>2. Begun(r)
    BY <1>1, <1>4 DEF Turn, ClearActiveStream, RecordUsage, Close, WriteFails, End, Coherent
  <2>3. RunsOK' /\ Forward /\ run'[r] = x /\ \A s \in Run \ {r} : run'[s] = run[s]
    BY <1>1, <2>1, <2>2, RunUpdate
  <2>4. ~AtWork(r)'
    BY <2>1, <2>3 DEF AtWork
  <2>5. Spent' /\ (~spent'.blind => ~spent.blind)
    BY <1>1, <1>4, Faults
    DEF Turn, ClearActiveStream, RecordUsage, Close, WriteFails, End
  <2>6. UNCHANGED req /\ (UNCHANGED slot \/ (slot' = NoRun /\ slot \in {NoRun, r}))
    BY <1>4 DEF Turn, ClearActiveStream, RecordUsage, Close, WriteFails, End, Vacate
  <2> QED
    BY <2>2, <2>3, <2>4, <2>5, <2>6, RunKeeps
<1> QED
  BY <1>2, <1>3, <1>4 DEF RunStep
\* What the action of a request q must establish.
LEMMA RequestKeeps ==
  ASSUME Inv, NEW q \in Request,
         RunsOK', Forward, \A s \in Run : AtWork(s)' => AtWork(s),
         Spent', ~spent'.blind => ~spent.blind,
         req' \in [Request -> RequestRec], \A p \in Request \ {q} : req'[p] = req[p],
         Sensible(q)',
         ~spent'.blind => (req'[q].pc = "unblock" => ~(Ahead(req[q].seen)')),
         slot' # NoRun => Begun(slot)',
         ~spent'.blind => \A s \in Run : slot = s /\ AtWork(s)' => slot' = s
  PROVE  Inv'
<1>1. /\ \A p \in Request \ {q} : Sensible(p)'
      /\ ~spent'.blind =>
           \A p \in Request \ {q} : req'[p].pc = "unblock" => ~(Ahead(req[p].seen)')
  BY OtherRequests DEF Inv, RequestsOK
<1>2. StaleIsStale'
  BY <1>1 DEF StaleIsStale
<1>3. WorkIsVisible'
  BY DEF Inv, WorkIsVisible
<1> QED
  BY <1>1, <1>2, <1>3 DEF Inv, Spent, RunsOK

\* Most actions leave the runs alone and end in an answer or move on.
LEMMA Answers ==
  ASSUME Inv, NEW q \in Request, NEW answer \in Answer, Reply(q, answer),
         UNCHANGED run, UNCHANGED spent \/ Fault,
         slot' # NoRun => Begun(slot'),
         ~spent.blind => \A s \in Run : slot = s /\ AtWork(s) => slot' = s
  PROVE  Inv'
<1>1. RunsOK' /\ Forward /\ \A s \in Run : AtWork(s)' <=> AtWork(s)
  BY DEF Inv, RunsOK, Forward, AtWork, Ahead
<1>2. Spent' /\ (~spent'.blind => ~spent.blind)
  BY Faults DEF Inv, Spent
<1>3. /\ req' \in [Request -> RequestRec]
      /\ \A p \in Request \ {q} : req'[p] = req[p]
      /\ Sensible(q)' /\ req'[q].pc = "answered"
  BY ReplyEffect DEF Inv, RequestsOK
<1>4. slot' # NoRun => Begun(slot)'
  BY DEF Begun
<1> QED
  BY <1>1, <1>2, <1>3, <1>4, RequestKeeps

LEMMA Proceeds ==
  ASSUME Inv, NEW q \in Request, NEW pc \in {"startRun", "edit"}, Proceed(q, pc),
         UNCHANGED <<run, spent>>,
         slot' # NoRun => Begun(slot'),
         ~spent.blind => \A s \in Run : slot = s /\ AtWork(s) => slot' = s
  PROVE  Inv'
<1>1. RunsOK' /\ Forward /\ \A s \in Run : AtWork(s)' <=> AtWork(s)
  BY DEF Inv, RunsOK, Forward, AtWork, Ahead
<1>2. Spent' /\ (~spent'.blind => ~spent.blind)
  BY DEF Inv, Spent
<1>3. /\ req' \in [Request -> RequestRec]
      /\ \A p \in Request \ {q} : req'[p] = req[p]
      /\ Sensible(q)' /\ req'[q].pc = pc
  BY ProceedEffect DEF Inv, RequestsOK
<1>4. slot' # NoRun => Begun(slot)'
  BY DEF Begun
<1> QED
  BY <1>1, <1>2, <1>3, <1>4, RequestKeeps

LEMMA MovesOn ==
  ASSUME Inv, NEW q \in Request, NEW pc \in RequestPC \ {"ask", "answered"},
         ToRequest(q, pc), UNCHANGED run,
         UNCHANGED spent \/ Fault \/ BlindFault,
         pc \in {"lookup", "isRecorded", "unblock", "cancelRun", "unslot"} => Begun(req[q].seen),
         pc \in {"claimOwn", "cancelOwn"} => Begun(req[q].own),
         pc = "unslot" => ~Ahead(req[q].seen),
         pc = "unblock" => BlindFault \/ ~Ahead(req[q].seen),
         req[q].pc # "answered",
         slot' # NoRun => Begun(slot'),
         ~spent.blind => \A s \in Run : slot = s /\ AtWork(s) => slot' = s
  PROVE  Inv'
<1>1. RunsOK' /\ Forward /\ \A s \in Run : AtWork(s)' <=> AtWork(s)
  BY DEF Inv, RunsOK, Forward, AtWork, Ahead
<1>2. Spent' /\ (~spent'.blind => ~spent.blind) /\ (BlindFault => spent'.blind)
  BY Faults, Blinded DEF Inv, Spent
<1>3. /\ req' \in [Request -> RequestRec]
      /\ \A p \in Request \ {q} : req'[p] = req[p]
      /\ req'[q].pc = pc /\ req'[q].seen = req[q].seen
      /\ req'[q].own = req[q].own /\ req'[q].answer = req[q].answer
  BY ToRequestEffect DEF Inv, RequestsOK
<1>4. req[q].answer = "none"
  BY DEF Inv, Sensible
<1>5. Sensible(q)' /\ (req'[q].pc = "unblock" => BlindFault \/ ~(Ahead(req[q].seen)'))
  BY <1>3, <1>4 DEF Sensible, Begun, Ahead
<1>6. slot' # NoRun => Begun(slot)'
  BY DEF Begun
<1> QED
  BY <1>1, <1>2, <1>3, <1>5, <1>6, RequestKeeps

\* Emptying the slot of a run that has nothing ahead of it hides nobody.
LEMMA Vacates ==
  ASSUME Inv, NEW r, ~spent.blind => ~Ahead(r), Vacate(r)
  PROVE  /\ slot' # NoRun => Begun(slot')
         /\ ~spent.blind => \A s \in Run : slot = s /\ AtWork(s) => slot' = s
BY DEF Inv, Vacate, Begun, AtWork, Ahead

LEMMA RequestActions ==
  ASSUME Inv, NEW q \in Request, RequestStep(q) \/ RequestFault(q)
  PROVE  Inv'
<1>1. /\ Sensible(q) /\ RunsOK /\ RequestsOK /\ Spent /\ req[q] \in RequestRec
      /\ ~spent.blind => (req[q].pc = "unblock" => ~Ahead(req[q].seen))
  BY DEF Inv, RequestsOK, Spent, StaleIsStale
<1>2. UNCHANGED slot => /\ slot' # NoRun => Begun(slot')
                        /\ \A s \in Run : slot = s /\ AtWork(s) => slot' = s
  BY DEF Inv
<1>3. /\ {"started", "resumed", "conflict", "stopped", "nothing", "error", "ok"} \subseteq Answer
      /\ {"lookup", "isRecorded", "unblock", "reread", "startRun", "claimOwn", "cancelOwn",
          "cancelRun", "unslot", "edit"} \subseteq RequestPC \ {"ask", "answered"}
  BY DEF Answer, RequestPC
<1>4. CASE Ask(q)
  <2>1. CASE slot = NoRun
    BY <1>2, <1>3, <1>4, <2>1, Answers, Proceeds DEF Ask
  <2>2. CASE slot # NoRun
    <3> DEFINE pc == IF req[q].kind = "stop" THEN "cancelRun" ELSE "lookup"
    <3>1. pc \in {"cancelRun", "lookup"}
      OBVIOUS
    <3>2. req' = [req EXCEPT ![q] = [@ EXCEPT !.seen = slot, !.pc = pc]]
      BY <1>4, <2>2 DEF Ask
    <3> HIDE DEF pc
    <3>3. slot \in Run /\ run[slot].pc # "unborn"
      BY <2>2 DEF Inv, Begun
    <3>4. /\ req' \in [Request -> RequestRec]
          /\ \A p \in Request \ {q} : req'[p] = req[p]
          /\ req'[q].pc = pc /\ req'[q].seen = slot /\ req'[q].answer = req[q].answer
      <4> DEFINE x == [req[q] EXCEPT !.seen = slot, !.pc = pc]
      <4>1. x \in RequestRec /\ x.pc = pc /\ x.seen = slot /\ x.answer = req[q].answer
        BY <1>1, <3>1, <3>3 DEF RequestRec, RequestPC
      <4>2. req' = [req EXCEPT ![q] = x]
        BY <3>2
      <4> HIDE DEF x
      <4> QED
        BY <1>1, <4>1, <4>2 DEF RequestsOK
    <3>5. UNCHANGED <<slot, run, spent>> /\ req[q].pc = "ask"
      BY <1>4 DEF Ask
    <3>6. Sensible(q)' /\ req'[q].pc # "unblock"
      BY <1>1, <3>1, <3>3, <3>4, <3>5 DEF Sensible, Begun
    <3>7. RunsOK' /\ Forward /\ (\A s \in Run : AtWork(s)' <=> AtWork(s)) /\ Spent'
      BY <1>1, <3>5 DEF RunsOK, Forward, AtWork, Ahead, Spent
    <3> QED
      BY <1>2, <3>3, <3>4, <3>5, <3>6, <3>7, RequestKeeps DEF Begun
  <2> QED
    BY <2>1, <2>2
<1>5. CASE Lookup(q)
  <2>1. ASSUME run[req[q].seen].status \in Terminal
        PROVE  ~Ahead(req[q].seen)
    BY <1>1, <1>5, <2>1 DEF Lookup, LookupTaking, Sensible, Begun, RunsOK, Coherent, Terminal, Ahead
  <2>2. Begun(req[q].seen)
    BY <1>1, <1>5 DEF Lookup, LookupTaking, Sensible
  <2>3. req[q].pc = "lookup" /\ UNCHANGED <<slot, run, spent>>
    BY <1>5 DEF Lookup, LookupTaking
  <2>4. \/ ToRequest(q, "unblock") /\ ~Ahead(req[q].seen)
        \/ ToRequest(q, "isRecorded")
        \/ Reply(q, "resumed")
        \/ Reply(q, "conflict")
    BY <1>5, <2>1 DEF Lookup, LookupTaking
  <2> QED
    BY <1>2, <1>3, <2>2, <2>3, <2>4, Answers, MovesOn
<1>6. CASE LookupFails(q)
  BY <1>1, <1>2, <1>3, <1>6, MovesOn DEF LookupFails, Sensible
<1>7. CASE CheckRecorded(q)
  <2>1. Begun(req[q].seen) /\ req[q].pc = "isRecorded" /\ UNCHANGED <<slot, run, spent>>
    BY <1>1, <1>7 DEF CheckRecorded, Sensible
  <2>2. run[req[q].seen].recorded => ~Ahead(req[q].seen)
    BY <1>1, <2>1 DEF Begun, RunsOK, Coherent, Ahead
  <2>3. (ToRequest(q, "unblock") /\ ~Ahead(req[q].seen)) \/ Reply(q, "resumed")
    BY <1>7, <2>2 DEF CheckRecorded
  <2> QED
    BY <1>2, <1>3, <2>1, <2>3, Answers, MovesOn
<1>8. CASE CheckRecordedFails(q) \/ CancelOwnFails(q) \/ CancelRunFails(q) \/ Dies(q) \/ Edit(q)
  <2>1. \/ Reply(q, "resumed") \/ Reply(q, "conflict") \/ Reply(q, "error")
        \/ Reply(q, "ok")
    BY <1>8 DEF CheckRecordedFails, CancelOwnFails, CancelRunFails, Dies, Edit
  <2>2. UNCHANGED slot /\ UNCHANGED run /\ (UNCHANGED spent \/ Fault)
    BY <1>8 DEF CheckRecordedFails, CancelOwnFails, CancelRunFails, Dies, Edit
  <2> QED
    BY <1>2, <1>3, <2>1, <2>2, Answers
<1>9. CASE ClearStale(q)
  <2>1. /\ req[q].pc = "unblock" /\ Vacate(req[q].seen) /\ UNCHANGED <<run, spent>>
    BY <1>9 DEF ClearStale
  <2>2. /\ slot' # NoRun => Begun(slot')
        /\ ~spent.blind => \A s \in Run : slot = s /\ AtWork(s) => slot' = s
    BY <1>1, <2>1, Vacates
  <2>3. \/ Proceed(q, "startRun") \/ ToRequest(q, "reread") \/ Proceed(q, "edit")
        \/ Reply(q, "nothing")
    BY <1>9 DEF ClearStale
  <2> QED
    BY <1>3, <2>1, <2>2, <2>3, Answers, Proceeds, MovesOn
<1>10. CASE Reread(q)
  <2>1. req[q].pc = "reread" /\ UNCHANGED <<slot, run, spent>>
    BY <1>10 DEF Reread
  <2>2. CASE Proceed(q, "startRun") \/ Reply(q, "conflict")
    BY <1>2, <1>3, <2>1, <2>2, Answers, Proceeds
  <2>3. CASE /\ slot # NoRun /\ req[q].tries + 1 # MaxAttempts
             /\ req' = [req EXCEPT ![q].seen = slot, ![q].tries = @ + 1, ![q].pc = "lookup"]
    <3> DEFINE x == [req[q] EXCEPT !.seen = slot, !.tries = @ + 1, !.pc = "lookup"]
    <3>1. slot \in Run /\ run[slot].pc # "unborn"
      BY <2>3 DEF Inv, Begun
    <3>2. req[q].tries + 1 \in 0..(MaxAttempts - 1)
      <4>1. req[q].tries \in 0..(MaxAttempts - 1)
        BY <1>1 DEF RequestRec
      <4> QED
        BY <2>3, <4>1, ChatParams
    <3>3. x \in RequestRec /\ x.pc = "lookup" /\ x.seen = slot /\ x.answer = req[q].answer
      BY <1>1, <3>1, <3>2 DEF RequestRec, RequestPC
    <3>4. req' = [req EXCEPT ![q] = x]
      BY <2>3
    <3> HIDE DEF x
    <3>5. /\ req' \in [Request -> RequestRec]
          /\ \A p \in Request \ {q} : req'[p] = req[p]
          /\ req'[q].pc = "lookup" /\ req'[q].seen = slot /\ req'[q].answer = req[q].answer
      BY <1>1, <3>3, <3>4 DEF RequestsOK
    <3>6. Sensible(q)'
      BY <1>1, <2>1, <3>1, <3>5 DEF Sensible, Begun
    <3>7. RunsOK' /\ Forward /\ (\A s \in Run : AtWork(s)' <=> AtWork(s)) /\ Spent'
      BY <1>1, <2>1 DEF RunsOK, Forward, AtWork, Ahead, Spent
    <3> QED
      BY <1>2, <2>1, <3>1, <3>5, <3>6, <3>7, RequestKeeps DEF Begun
  <2> QED
    BY <1>10, <2>2, <2>3 DEF Reread
<1>11. CASE StartRun(q)
  <2>1. CASE Reply(q, "error") /\ UNCHANGED run
    BY <1>2, <1>3, <1>11, <2>1, Answers DEF StartRun
  <2>2. ASSUME NEW r \in Run, run[r].pc = "unborn",
               run' = [run EXCEPT ![r].pc = "queued", ![r].status = "pending"],
               req' = [req EXCEPT ![q].own = r, ![q].pc = "claimOwn"]
        PROVE  Inv'
    <3> DEFINE x == [run[r] EXCEPT !.pc = "queued", !.status = "pending"]
    <3>1. Coherent(x) /\ x.pc = "queued"
      BY <1>1, <2>2 DEF RunsOK, Coherent, RunRec, RunPC, Live
    <3>2. run' = [run EXCEPT ![r] = x]
      BY <2>2
    <3> HIDE DEF x
    <3>3. RunsOK' /\ Forward /\ run'[r] = x /\ \A s \in Run \ {r} : run'[s] = run[s]
      BY <1>1, <2>2, <3>1, <3>2, RunUpdate
    <3> DEFINE y == [req[q] EXCEPT !.own = r, !.pc = "claimOwn"]
    <3>4. y \in RequestRec /\ y.pc = "claimOwn" /\ y.own = r /\ y.answer = req[q].answer
      BY <1>1 DEF RequestRec, RequestPC
    <3>5. req' = [req EXCEPT ![q] = y]
      BY <2>2
    <3> HIDE DEF y
    <3>6. /\ req' \in [Request -> RequestRec]
          /\ \A p \in Request \ {q} : req'[p] = req[p]
          /\ req'[q].pc = "claimOwn" /\ req'[q].own = r /\ req'[q].answer = req[q].answer
      BY <1>1, <3>4, <3>5 DEF RequestsOK
    <3>7. UNCHANGED <<slot, spent>> /\ req[q].pc = "startRun"
      BY <1>11 DEF StartRun
    <3>8. Sensible(q)' /\ Spent' /\ \A s \in Run : AtWork(s)' => AtWork(s)
      BY <1>1, <3>1, <3>3, <3>6, <3>7 DEF Sensible, Begun, AtWork, Spent
    <3>9. slot' # NoRun => Begun(slot)'
      BY <3>3, <3>7 DEF Inv, Begun, Forward
    <3> QED
      BY <3>3, <3>6, <3>7, <3>8, <3>9, RequestKeeps
  <2> QED
    BY <1>11, <2>1, <2>2 DEF StartRun
<1>12. CASE ClaimOwn(q)
  <2>1. Begun(req[q].own) /\ req[q].pc = "claimOwn" /\ UNCHANGED <<run, spent>>
    BY <1>1, <1>12 DEF ClaimOwn, Sensible
  <2>2. CASE CanClaim(req[q].own) /\ slot' = req[q].own /\ Reply(q, "started")
    <3>1. \A s \in Run : slot = s => slot' = s
      BY <2>2, ChatParams DEF CanClaim, Run, NoRun
    <3> QED
      BY <1>3, <2>1, <2>2, <3>1, Answers
  <2>3. CASE ToRequest(q, "cancelOwn") /\ UNCHANGED slot
    BY <1>2, <1>3, <2>1, <2>3, MovesOn
  <2> QED
    BY <1>12, <2>2, <2>3 DEF ClaimOwn
<1>13. CASE CancelOwn(q)
  <2>1. Begun(req[q].own) /\ run' = Cancelled(req[q].own) /\ Reply(q, "conflict")
    BY <1>1, <1>13 DEF CancelOwn, Sensible
  <2>2. UNCHANGED <<slot, spent>>
    BY <1>13 DEF CancelOwn
  <2>3. RunsOK' /\ Forward /\ \A s \in Run : AtWork(s)' => AtWork(s)
    BY <1>1, <2>1, CancelledUpdate
  <2>4. /\ req' \in [Request -> RequestRec]
        /\ \A p \in Request \ {q} : req'[p] = req[p]
        /\ Sensible(q)' /\ req'[q].pc = "answered"
    BY <1>1, <1>3, <2>1, ReplyEffect
  <2>5. Spent' /\ (slot' # NoRun => Begun(slot)')
    BY <1>1, <2>2, <2>3 DEF Spent, Inv, Begun, Forward
  <2> QED
    BY <2>2, <2>3, <2>4, <2>5, RequestKeeps
<1>14. CASE CancelRun(q)
  <2>1. Begun(req[q].seen) /\ req[q].pc = "cancelRun" /\ UNCHANGED spent
    BY <1>1, <1>14 DEF CancelRun, Sensible
  <2>2. CASE ToRequest(q, "unslot") /\ run' = Cancelled(req[q].seen) /\ UNCHANGED slot
    <3>1. /\ RunsOK' /\ Forward /\ \A s \in Run : AtWork(s)' => AtWork(s)
          /\ ~(Ahead(req[q].seen)')
          /\ Begun(req[q].seen)
      <4>1. ASSUME NEW r, r = req[q].seen
            PROVE  /\ RunsOK' /\ Forward /\ \A s \in Run : AtWork(s)' => AtWork(s)
                   /\ ~(Ahead(r)')
        BY <1>1, <2>1, <2>2, <4>1, CancelledUpdate
      <4>2. req'[q].seen = req[q].seen
        BY <1>1, <1>3, <2>2, ToRequestEffect
      <4> QED
        BY <2>1, <4>1, <4>2 DEF Ahead
    <3>2. /\ req' \in [Request -> RequestRec]
          /\ \A p \in Request \ {q} : req'[p] = req[p]
          /\ req'[q].pc = "unslot" /\ req'[q].seen = req[q].seen
          /\ req'[q].answer = req[q].answer
      BY <1>1, <1>3, <2>2, ToRequestEffect
    <3>3. Sensible(q)'
      BY <1>1, <2>1, <3>1, <3>2 DEF Sensible, Begun, Forward
    <3>4. Spent' /\ (slot' # NoRun => Begun(slot)')
      BY <1>1, <2>1, <2>2, <3>1 DEF Spent, Inv, Begun, Forward
    <3> QED
      BY <2>1, <2>2, <3>1, <3>2, <3>3, <3>4, RequestKeeps
  <2>3. CASE /\ run[req[q].seen].pc = "over"
             /\ Vacate(req[q].seen) /\ Reply(q, "nothing") /\ UNCHANGED run
    <3>1. /\ slot' # NoRun => Begun(slot')
          /\ ~spent.blind => \A s \in Run : slot = s /\ AtWork(s) => slot' = s
      BY <2>3, Vacates DEF Ahead
    <3> QED
      BY <1>3, <2>1, <2>3, <3>1, Answers
  <2> QED
    BY <1>14, <2>2, <2>3 DEF CancelRun
<1>15. CASE Unslot(q)
  <2>1. ~Ahead(req[q].seen) /\ Vacate(req[q].seen) /\ UNCHANGED <<run, spent>> /\ Reply(q, "stopped")
    BY <1>1, <1>15 DEF Unslot, Sensible
  <2>2. /\ slot' # NoRun => Begun(slot')
        /\ ~spent.blind => \A s \in Run : slot = s /\ AtWork(s) => slot' = s
    BY <2>1, Vacates
  <2> QED
    BY <1>3, <2>1, <2>2, Answers
<1>16. CASE UnslotFails(q)
  BY <1>2, <1>3, <1>16, Answers DEF UnslotFails
<1>17. CASE Again(q)
  <2> DEFINE x == Fresh(req[q].kind)
  <2>1. x \in RequestRec /\ x.pc = "ask" /\ x.seen = NoRun /\ x.answer = "none"
    <3>1. req[q].kind \in Kind /\ 0 \in 0..(MaxAttempts - 1) /\ "none" \in Answer
      BY <1>1, ChatParams DEF RequestRec, Answer
    <3> QED
      BY <3>1 DEF Fresh, At, RequestRec, RequestPC
  <2>2. req' = [req EXCEPT ![q] = x] /\ UNCHANGED <<slot, run, spent>>
    BY <1>17 DEF Again
  <2> HIDE DEF x
  <2>3. /\ req' \in [Request -> RequestRec] /\ req'[q] = x
        /\ \A p \in Request \ {q} : req'[p] = req[p]
    BY <1>1, <2>1, <2>2 DEF RequestsOK
  <2>4. Sensible(q)' /\ req'[q].pc = "ask"
    BY <2>1, <2>3 DEF Sensible
  <2>5. RunsOK' /\ Forward /\ (\A s \in Run : AtWork(s)' <=> AtWork(s)) /\ Spent'
    BY <1>1, <2>2 DEF RunsOK, Forward, AtWork, Ahead, Spent
  <2>6. slot' # NoRun => Begun(slot)'
    BY <2>2 DEF Inv, Begun
  <2> QED
    BY <2>2, <2>3, <2>4, <2>5, <2>6, RequestKeeps
<1> QED
  BY <1>4, <1>5, <1>6, <1>7, <1>8, <1>9, <1>10, <1>11, <1>12, <1>13, <1>14, <1>15, <1>16, <1>17
  DEF RequestStep, RequestFault

-----------------------------------------------------------------------------
(* The theorems                                                             *)

LEMMA InitInv == Init => Inv
<1> SUFFICES ASSUME Init PROVE Inv
  OBVIOUS
<1>1. PICK cast \in Casts : req = [q \in Request |-> Fresh(cast[q])]
  BY DEF Init
<1>2. cast \in [Request -> Kind] /\ 0 \in 0..(MaxAttempts - 1) /\ 0 \in 0..MaxFaults
  BY <1>1, ChatParams
<1>3. req \in [Request -> RequestRec]
  <2>1. \A kind \in Kind : Fresh(kind) \in RequestRec
    BY <1>2 DEF Fresh, At, RequestRec, RequestPC, Answer
  <2> QED
    BY <1>1, <1>2, <2>1
<1>4. \A q \in Request : req[q].pc = "ask" /\ req[q].seen = NoRun /\ req[q].answer = "none"
  BY <1>1 DEF Fresh, At
<1>5. RunsOK
  <2>1. Coherent(Unborn)
    BY DEF Coherent, Unborn, RunRec, RunPC, Live, Terminal
  <2> QED
    BY <2>1 DEF Init, RunsOK, Coherent
<1>6. \A r \in Run : run[r].pc = "unborn"
  BY DEF Init, Unborn
<1> QED
  BY <1>2, <1>3, <1>4, <1>5, <1>6
  DEF Init, Inv, Sensible, WorkIsVisible, StaleIsStale, AtWork

LEMMA StepInv == Inv /\ [Next]_vars => Inv'
<1> SUFFICES ASSUME Inv, [Next]_vars PROVE Inv'
  OBVIOUS
<1>1. CASE UNCHANGED vars
  BY <1>1 DEF vars, Inv, RunsOK, Coherent, Sensible, Begun, Ahead, AtWork, WorkIsVisible,
              StaleIsStale
<1>2. CASE Next
  BY <1>2, RunActions, RequestActions DEF Next
<1> QED
  BY <1>1, <1>2

\* The inductive invariant holds.
THEOREM InvHolds == Spec => []Inv
  BY InitInv, StepInv, PTL DEF Spec

\* Types of the slot, the runs and the requests, for every number of them, of rounds
\* and of faults.
THEOREM TypeCorrect == Spec => []TypeOK
<1>1. Inv => TypeOK
  BY DEF Inv, RunsOK, Coherent, Begun, TypeOK
<1> QED
  BY <1>1, InvHolds, PTL

\* A run at work is in the slot until a blind fault: no compare-and-set of any request
\* takes the slot from it.
THEOREM WorkStaysVisible == Spec => []WorkIsVisible
<1>1. Inv => WorkIsVisible
  BY DEF Inv
<1> QED
  BY <1>1, InvHolds, PTL

\* No two runs are at work for a chat until a blind fault.
THEOREM OneRun == Spec => []OneRunPerChat
<1>1. Inv => OneRunPerChat
  BY DEF Inv, WorkIsVisible, OneRunPerChat
<1> QED
  BY <1>1, InvHolds, PTL

\* What a request found stale is still stale when it clears the slot.
THEOREM StaleStaysStale == Spec => []StaleIsStale
<1>1. Inv => StaleIsStale
  BY DEF Inv
<1> QED
  BY <1>1, InvHolds, PTL

\* A stop that reports success leaves nothing of the run to come.
THEOREM StopsAreHonest == Spec => StopIsHonest
<1> DEFINE Honest(q, r) ==
      /\ req[q].kind = "stop" /\ req[q].seen = r
      /\ req'[q].answer \in {"stopped", "nothing"}
      => ~Ahead(r)'
<1>1. Inv /\ [Next]_vars => \A q \in Request, r \in Run : Honest(q, r)
  <2> SUFFICES ASSUME Inv, [Next]_vars, NEW q \in Request, NEW r \in Run,
                      req[q].kind = "stop", req[q].seen = r,
                      req'[q].answer \in {"stopped", "nothing"}
               PROVE  ~Ahead(r)'
    OBVIOUS
  <2>1. Sensible(q) /\ r # NoRun /\ RequestsOK
    BY ChatParams DEF Inv, Run, NoRun, RequestsOK
  <2>2. req[q].pc \notin {"ask", "answered"} /\ req[q].answer = "none"
    BY <2>1 DEF Sensible
  <2>3. PICK p \in Request : RequestStep(p) \/ RequestFault(p)
    <3>1. ~UNCHANGED req
      BY <2>2
    <3> QED
      BY <3>1 DEF vars, Next, RunStep, Enroll, Turn, ClearActiveStream, RecordUsage, Close,
                  EnrollFails, WriteFails, End
  <2>4. \A a \in Answer : Reply(p, a) => p = q /\ a = req'[q].answer
    BY <2>1, <2>2, ReplyEffect DEF RequestsOK
  <2>5. \A pc \in RequestPC : ~ToRequest(p, pc)
    BY <2>1, <2>2, ToRequestEffect DEF RequestsOK
  <2>6. \A pc \in {"startRun", "edit"} : ~Proceed(p, pc)
    BY <2>1, <2>2, ProceedEffect DEF RequestsOK
  <2>7. \/ p = q /\ Reply(q, "stopped") /\ (Unslot(q) \/ UnslotFails(q))
        \/ p = q /\ Reply(q, "nothing") /\ CancelRun(q)
    <3>1. {"started", "resumed", "conflict", "stopped", "nothing", "error", "ok"} \subseteq Answer
      BY DEF Answer
    <3>2. {"isRecorded", "unblock", "reread", "startRun", "cancelOwn", "unslot", "edit"}
            \subseteq RequestPC
      BY DEF RequestPC
    <3>0. ASSUME NEW x, x.answer = req[p].answer, req' = [req EXCEPT ![p] = x]
          PROVE  FALSE
      BY <2>1, <2>2, <3>0 DEF RequestsOK
    <3>3. CASE Ask(p)
      BY <2>1, <2>2, <2>4, <2>5, <2>6, <3>1, <3>2, <3>3 DEF Ask, RequestsOK, RequestPC
    <3>4. CASE Lookup(p) \/ LookupFails(p)
      BY <2>4, <2>5, <3>1, <3>2, <3>4 DEF Lookup, LookupTaking, LookupFails
    <3>5. CASE CheckRecorded(p) \/ CheckRecordedFails(p)
      BY <2>4, <2>5, <3>1, <3>2, <3>5 DEF CheckRecorded, CheckRecordedFails
    <3>6. CASE ClearStale(p)
      BY <2>4, <2>5, <2>6, <3>1, <3>2, <3>6 DEF ClearStale
    <3>7. CASE Reread(p)
      <4> DEFINE x == [req[p] EXCEPT !.seen = slot, !.tries = @ + 1, !.pc = "lookup"]
      <4>1. x.answer = req[p].answer
        BY <2>1 DEF RequestsOK, RequestRec
      <4>2. req' # [req EXCEPT ![p] = x]
        <5> HIDE DEF x
        <5> QED
          BY <3>0, <4>1
      <4> QED
        BY <2>4, <2>5, <2>6, <3>1, <3>2, <3>7, <4>2 DEF Reread
    <3>8. CASE StartRun(p)
      <4>1. ASSUME NEW own \in Run, req' = [req EXCEPT ![p].own = own, ![p].pc = "claimOwn"]
            PROVE  FALSE
        <5> DEFINE x == [req[p] EXCEPT !.own = own, !.pc = "claimOwn"]
        <5>1. x.answer = req[p].answer /\ req' = [req EXCEPT ![p] = x]
          BY <2>1, <4>1 DEF RequestsOK, RequestRec
        <5> HIDE DEF x
        <5> QED
          BY <3>0, <5>1
      <4> QED
        BY <2>4, <3>1, <3>8, <4>1 DEF StartRun
    <3>9. CASE ClaimOwn(p) \/ CancelOwn(p) \/ CancelOwnFails(p)
      BY <2>4, <2>5, <3>1, <3>2, <3>9 DEF ClaimOwn, CancelOwn, CancelOwnFails
    <3>10. CASE CancelRun(p)
      BY <2>4, <2>5, <3>1, <3>2, <3>10 DEF CancelRun
    <3>11. CASE CancelRunFails(p) \/ Edit(p) \/ Dies(p)
      BY <2>4, <3>1, <3>11 DEF CancelRunFails, Edit, Dies
    <3>12. CASE Unslot(p) \/ UnslotFails(p)
      BY <2>4, <3>1, <3>12 DEF Unslot, UnslotFails
    <3>13. CASE Again(p)
      <4>1. p # q
        BY <2>2, <3>13 DEF Again
      <4> QED
        BY <2>1, <2>2, <3>13, <4>1 DEF Again, RequestsOK
    <3> QED
      BY <2>3, <3>3, <3>4, <3>5, <3>6, <3>7, <3>8, <3>9, <3>10, <3>11, <3>12, <3>13
      DEF RequestStep, RequestFault
  <2>8. CASE Unslot(q) \/ UnslotFails(q)
    BY <2>1, <2>8 DEF Unslot, UnslotFails, Sensible, Ahead
  <2>9. CASE Reply(q, "nothing") /\ CancelRun(q)
    <3>1. ~ToRequest(q, "unslot")
      BY <2>5, <2>7, <2>9, <2>1, <2>2, ToRequestEffect DEF RequestPC
    <3> QED
      BY <2>9, <3>1 DEF CancelRun, Ahead
  <2> QED
    BY <2>7, <2>8, <2>9
<1> QED
  BY <1>1, InvHolds, PTL DEF Spec, StopIsHonest

=============================================================================
