----------------------------- MODULE SandboxProofs -----------------------------
(***************************************************************************)
(* Proofs about SandboxSession, for any finite set of processes, any       *)
(* scenes and any bounds.                                                  *)
(*                                                                         *)
(* The invariant says of every process what its step and its kind have to  *)
(* do with each other, and what the timers and streams it remembers mean;  *)
(* of the row, that it describes a granted lifetime and that its lease has *)
(* a holder.  `Moves` names what a step of one process may change,         *)
(* `MovesKeepInv` shows that this keeps the invariant, and there is one    *)
(* lemma per action, or per few alike, that shows it makes such a step.    *)
(***************************************************************************)
EXTENDS SandboxSession, FiniteSetTheorems, TLAPS

\* Only a workflow run or its kick is here ...
WorkflowPC == {"kick", "unstale", "claim", "start", "unclaim", "unclaimWrite",
               "decide", "lease", "leaseWrite", "leaseVerify", "sleep",
               "release", "releaseWrite"}

\* ... and only a request or a turn here.
RequestOnlyPC == {"read", "connect", "write", "work", "refresh", "persistConnect",
                  "persist", "final", "force", "extend", "halt", "clear", "archive",
                  "finalize", "archFailWrite"}

KindFits(kind, pc) ==
  /\ pc \in WorkflowPC => kind = "lifecycle"
  /\ pc \in RequestOnlyPC => kind # "lifecycle"

\* Where the timers may be remembered, and where they are still to be compared.
LookPC  == {"stream1", "mark", "attach", "stream2", "recheck"}
TimerPC == {"lease", "leaseWrite", "leaseVerify", "sleep", "release", "releaseWrite",
            "stream1", "mark", "attach", "stream2", "recheck", "evalFail", "restore"}

\* Where the turn of a chat is over.
OffStream == {"force", "done", "evaluate", "stream1", "evalFail", "restore", "mark",
              "attach", "stream2", "recheck", "stream3", "stop", "hibernate",
              "archConnect", "archStop", "archClear", "archFail", "archFailWrite"}

\* A workflow run that still has its lease to give up.
Holding(r) ==
  r.kind = "lifecycle" /\ r.pc \notin {"new", "done", "kick", "unstale", "claim"}

RowOK ==
  /\ vm \in VmRec /\ row \in RowRec /\ faults \in 0..MaxFaults
  /\ vm.past <= vm.life /\ row.hexp <= vm.life
  /\ Operable <=> row.hexp # 0
  /\ row.timer # 0

ProcsOK ==
  /\ proc \in [Proc -> ProcRec(PC)]
  /\ \A p \in Proc :
       /\ proc[p].hexp <= vm.life
       /\ KindFits(proc[p].kind, proc[p].pc)
       /\ proc[p].timer # 0 => proc[p].pc \in TimerPC
       /\ ~proc[p].spare

\* What made an evaluation due lasts until the timers are written.
FreshOK ==
  \A p \in Proc :
    proc[p].pc \in LookPC /\ proc[p].timer = row.timer => row.idle \/ Past(proc[p].rexp)

\* The turns an evaluation saw when it read the timers again do not start over, and
\* it goes on to stop the machine only when they have ended.
RivalsOK ==
  \A p \in Proc : proc[p].pc \in {"stream3", "stop"} =>
    \A q \in proc[p].rivals :
      /\ q \in Proc
      /\ proc[q].kind \in ChatKind /\ proc[q].pc # "new"
      /\ proc[p].pc = "stop" => proc[q].pc \in OffStream

LeaseOK == row.lease # NoLease /\ faults = 0 => Holding(proc[row.lease])

Inv == RowOK /\ ProcsOK /\ FreshOK /\ RivalsOK /\ LeaseOK

-----------------------------------------------------------------------------
(* What a step of process p may change                                      *)

\* The row, the machine and the faults.
RowMoves(p) ==
  /\ vm' \in VmRec /\ row' \in RowRec /\ faults' \in 0..MaxFaults
  /\ vm'.past <= vm'.life /\ row'.hexp <= vm'.life
  /\ row'.handle = "live" <=> row'.hexp # 0
  /\ row'.timer # 0
  /\ vm'.past = vm.past /\ vm.life <= vm'.life
  /\ \/ row'.timer = row.timer /\ row'.idle = row.idle
     \/ \A q \in Proc : proc[q].timer # row'.timer
  /\ row'.lease \in {row.lease, NoLease, p}
  /\ faults <= faults'
  /\ row'.lease = p => faults' # 0 \/ Holding(proc'[p])

\* Its own record, and a free process that it leaves its kick to.
ProcMoves(p) ==
  /\ proc' \in [Proc -> ProcRec(PC)]
  /\ \A q \in Proc \ {p} : proc'[q] = proc[q] \/ (Free(q) /\ proc'[q] = Blank("lifecycle", "kick"))

RecordFits(p) ==
  /\ proc'[p].hexp <= vm'.life
  /\ KindFits(proc'[p].kind, proc'[p].pc)
  /\ proc'[p].timer # 0 => proc'[p].pc \in TimerPC
  /\ ~proc'[p].spare

\* A chat neither starts over nor claims its stream again.
StaysOver(p) ==
  proc[p].kind \in ChatKind =>
    /\ proc'[p].kind = proc[p].kind /\ proc'[p].pc # "new"
    /\ proc[p].pc \in OffStream => proc'[p].pc \in OffStream

LooksOn(p) ==
  /\ proc'[p].pc = "stream3" => proc'[p].rivals \subseteq Streams
  /\ proc'[p].pc = "stop" =>
       proc[p].pc = "stream3" /\ proc'[p].rivals = proc[p].rivals /\ Streams = {}
  /\ proc'[p].pc \in LookPC /\ proc'[p].timer = row'.timer =>
       row'.idle \/ (proc'[p].rexp # 0 /\ proc'[p].rexp <= vm'.past)

Moves(p) == RowMoves(p) /\ ProcMoves(p) /\ RecordFits(p) /\ StaysOver(p) /\ LooksOn(p)

LEMMA ProcNotZero == NoLease \notin Proc
  BY SessionParams

\* Who is not off the stream, and not new, is streaming.
LEMMA StreamsDef ==
  ASSUME NEW p \in Proc, proc[p].kind \in ChatKind, proc[p].pc # "new",
         ~Streaming(p)
  PROVE  proc[p].pc \in OffStream
  BY DEF Streaming, OffStream, EvalPC, StopPC

LEMMA OffStreamDef ==
  ASSUME NEW p \in Proc, Streaming(p)
  PROVE  proc[p].kind \in ChatKind /\ proc[p].pc # "new"
  BY DEF Streaming

LEMMA MovesKeepInv ==
  ASSUME Inv, NEW p \in Proc, Moves(p)
  PROVE  Inv'
<1> USE DEF Moves
<1>t. /\ proc \in [Proc -> ProcRec(PC)] /\ proc' \in [Proc -> ProcRec(PC)]
      /\ vm.life \in Nat /\ vm'.life \in Nat /\ vm.past \in Nat /\ vm'.past \in Nat
      /\ \A q \in Proc : proc[q].hexp \in Nat /\ proc[q].rexp \in Nat
      /\ MaxLives \in Nat /\ MaxFaults \in Nat
      /\ faults \in Nat /\ faults' \in Nat
  <2>1. MaxLives \in Nat /\ MaxFaults \in Nat
    BY SessionParams
  <2> QED BY <2>1 DEF Inv, RowOK, ProcsOK, ProcMoves, RowMoves, VmRec, RowRec, ProcRec, Life
<1>k. ASSUME NEW q \in Proc
      PROVE  Blank("lifecycle", "kick") = [kind |-> "lifecycle", pc |-> "kick",
               live |-> FALSE, note |-> FALSE, timer |-> 0, rexp |-> 0, hexp |-> 0,
               on |-> FALSE, spare |-> FALSE, rivals |-> {}]
  BY DEF Blank
<1>1. RowOK'
  BY DEF RowMoves, RowOK, Operable
<1>2. ProcsOK'
  <2> SUFFICES ASSUME NEW q \in Proc
               PROVE  /\ proc'[q].hexp <= vm'.life
                      /\ KindFits(proc'[q].kind, proc'[q].pc)
                      /\ proc'[q].timer # 0 => proc'[q].pc \in TimerPC
                      /\ ~proc'[q].spare
    BY <1>t DEF ProcsOK
  <2>1. CASE q = p
    BY <2>1 DEF RecordFits
  <2>2. CASE proc'[q] = proc[q]
    BY <2>2, <1>t DEF Inv, ProcsOK, RowMoves
  <2>3. CASE proc'[q] = Blank("lifecycle", "kick")
    BY <2>3, <1>t, <1>k DEF KindFits, RequestOnlyPC
  <2> QED BY <2>1, <2>2, <2>3 DEF ProcMoves
<1>3. FreshOK'
  <2> SUFFICES ASSUME NEW q \in Proc, proc'[q].pc \in LookPC, proc'[q].timer = row'.timer
               PROVE  row'.idle \/ (proc'[q].rexp # 0 /\ proc'[q].rexp <= vm'.past)
    BY DEF FreshOK, Past
  <2>1. CASE q = p
    BY <2>1 DEF LooksOn
  <2>2. CASE proc'[q] = proc[q]
    <3>1. row'.timer = row.timer /\ row'.idle = row.idle /\ vm'.past = vm.past
      <4>1. ~ \A x \in Proc : proc[x].timer # row'.timer
        BY <2>2
      <4> QED BY <4>1, Zenon DEF RowMoves
    <3>2. proc[q].pc \in LookPC /\ proc[q].timer = row.timer
      BY <3>1, <2>2
    <3>3. row.idle \/ Past(proc[q].rexp)
      BY <3>2, Zenon DEF Inv, FreshOK
    <3>4. CASE row.idle
      BY <3>1, <3>4, Zenon
    <3>5. CASE Past(proc[q].rexp)
      BY <3>1, <3>5, <2>2 DEF Past
    <3> QED BY <3>3, <3>4, <3>5
  <2>3. CASE proc'[q] = Blank("lifecycle", "kick")
    BY <2>3, <1>k DEF LookPC
  <2> QED BY <2>1, <2>2, <2>3 DEF ProcMoves
<1>4. RivalsOK'
  <2>a. ASSUME NEW x \in Proc, proc[x].kind \in ChatKind, proc[x].pc # "new"
        PROVE  /\ proc'[x].kind \in ChatKind /\ proc'[x].pc # "new"
               /\ proc[x].pc \in OffStream => proc'[x].pc \in OffStream
    <3>1. CASE x = p
      BY <3>1, <2>a DEF StaysOver
    <3>2. CASE x # p
      <4>1. ~Free(x)
        BY <2>a DEF Free, ChatKind
      <4> QED BY <3>2, <4>1, <2>a DEF ProcMoves
    <3> QED BY <3>1, <3>2
  <2> SUFFICES ASSUME NEW q \in Proc, proc'[q].pc \in {"stream3", "stop"},
                      NEW x \in proc'[q].rivals
               PROVE  /\ x \in Proc
                      /\ proc'[x].kind \in ChatKind /\ proc'[x].pc # "new"
                      /\ proc'[q].pc = "stop" => proc'[x].pc \in OffStream
    BY DEF RivalsOK
  <2>1. CASE q = p
    <3>1. CASE proc'[p].pc = "stream3"
      <4>1. x \in Proc /\ Streaming(x)
        BY <3>1, <2>1 DEF LooksOn, Streams
      <4> QED BY <4>1, <3>1, <2>1, <2>a, OffStreamDef
    <3>2. CASE proc'[p].pc = "stop"
      <4>1. proc[p].pc = "stream3" /\ x \in proc[p].rivals /\ Streams = {}
        BY <3>2, <2>1 DEF LooksOn
      <4>2. x \in Proc /\ proc[x].kind \in ChatKind /\ proc[x].pc # "new"
        BY <4>1 DEF Inv, RivalsOK
      <4>3. ~Streaming(x)
        BY <4>1, <4>2 DEF Streams
      <4> QED BY <4>2, <4>3, <2>a, StreamsDef
    <3> QED BY <3>1, <3>2, <2>1
  <2>2. CASE proc'[q] = proc[q]
    <3>1. /\ x \in Proc /\ proc[x].kind \in ChatKind /\ proc[x].pc # "new"
          /\ proc[q].pc = "stop" => proc[x].pc \in OffStream
      BY <2>2 DEF Inv, RivalsOK
    <3> QED BY <3>1, <2>2, <2>a
  <2>3. CASE proc'[q] = Blank("lifecycle", "kick")
    BY <2>3, <1>k
  <2> QED BY <2>1, <2>2, <2>3 DEF ProcMoves
<1>5. LeaseOK'
  <2> SUFFICES ASSUME row'.lease # NoLease, faults' = 0
               PROVE  Holding(proc'[row'.lease])
    BY DEF LeaseOK, Holding
  <2>1. CASE row'.lease = p
    BY <2>1 DEF RowMoves
  <2>2. CASE row'.lease # p
    <3>1. row'.lease = row.lease /\ row.lease # NoLease /\ faults = 0
      BY <2>2, <1>t DEF RowMoves
    <3>2. Holding(proc[row.lease])
      BY <3>1 DEF Inv, LeaseOK
    <3>3. row.lease \in Proc
      BY <3>1 DEF Inv, RowOK, RowRec
    <3>4. ~Free(row.lease)
      BY DEF Free
    <3>5. proc'[row.lease] = proc[row.lease]
      BY <3>1, <3>3, <3>4, <2>2 DEF ProcMoves
    <3> QED BY <3>1, <3>2, <3>5
  <2> QED BY <2>1, <2>2
<1> QED BY <1>1, <1>2, <1>3, <1>4, <1>5 DEF Inv

-----------------------------------------------------------------------------
(* Lemmas that the actions share                                            *)

\* What a step makes of the processes.
Steps(p) == ProcMoves(p) /\ RecordFits(p) /\ StaysOver(p) /\ LooksOn(p)

LEMMA Types ==
  ASSUME Inv
  PROVE  /\ proc \in [Proc -> ProcRec(PC)] /\ vm \in VmRec /\ row \in RowRec
         /\ faults \in 0..MaxFaults
         /\ MaxLives \in Nat \ {0} /\ MaxFaults \in Nat
  BY SessionParams DEF Inv, RowOK, ProcsOK

LEMMA BlankType ==
  ASSUME NEW kind \in Kind, NEW pc \in PC
  PROVE  /\ Blank(kind, pc) \in ProcRec(PC)
         /\ Blank(kind, pc).kind = kind /\ Blank(kind, pc).pc = pc
         /\ Blank(kind, pc).timer = 0 /\ Blank(kind, pc).hexp = 0
         /\ Blank(kind, pc).rexp = 0 /\ ~Blank(kind, pc).spare
         /\ Blank(kind, pc).rivals = {} /\ ~Blank(kind, pc).on
<1>1. 0 \in Life
  BY SessionParams DEF Life
<1>2. 0 \in Timer
  BY SessionParams, FS_CardinalityType DEF Timer
<1> QED BY <1>1, <1>2 DEF Blank, ProcRec

\* One process gets record r, or r and a kick.
LEMMA PutMoves ==
  ASSUME Inv, NEW p \in Proc, NEW r \in ProcRec(PC),
         proc' = [proc EXCEPT ![p] = r] \/ LeaveKick(p, r)
  PROVE  ProcMoves(p) /\ proc'[p] = r
<1>t. proc \in [Proc -> ProcRec(PC)]
  BY Types
<1>1. CASE proc' = [proc EXCEPT ![p] = r]
  BY <1>1, <1>t DEF ProcMoves
<1>2. CASE LeaveKick(p, r)
  <2> DEFINE k == Blank("lifecycle", "kick")
  <2>1. k \in ProcRec(PC)
    <3>1. "lifecycle" \in Kind /\ "kick" \in PC
      BY DEF Kind, PC, KickPC
    <3> QED BY <3>1, BlankType
  <2> HIDE DEF k
  <2>2. proc' = [q \in Proc |-> IF q = p THEN r
                          ELSE IF Free(q) /\ \A f \in Proc : Free(f) => q <= f
                               THEN k ELSE proc[q]]
    BY <1>2 DEF LeaveKick, k
  <2>3. proc' \in [Proc -> ProcRec(PC)]
    BY <2>1, <2>2, <1>t
  <2>4. \A q \in Proc \ {p} : proc'[q] = proc[q] \/ (Free(q) /\ proc'[q] = k)
    BY <2>2
  <2> QED BY <2>2, <2>3, <2>4 DEF ProcMoves, k
<1> QED BY <1>1, <1>2

\* A step that changes the record only.
LEMMA RowUnmoved ==
  ASSUME Inv, NEW p \in Proc, UNCHANGED <<vm, row>>, UNCHANGED faults \/ Fault,
         UNCHANGED faults /\ Holding(proc[p]) => Holding(proc'[p])
  PROVE  RowMoves(p)
<1>1. faults' \in 0..MaxFaults /\ faults <= faults' /\ faults \in Nat
  BY Types DEF Fault
<1>2. row.lease = p => faults' # 0 \/ Holding(proc'[p])
  <2>1. CASE Fault
    BY <2>1, <1>1 DEF Fault
  <2>2. CASE UNCHANGED faults
    BY <2>2, ProcNotZero DEF Inv, LeaseOK
  <2> QED BY <2>1, <2>2
<1>3. vm.life \in Nat
  BY Types DEF VmRec, Life
<1> QED BY <1>1, <1>2, <1>3 DEF RowMoves, Inv, RowOK, Operable

\* A step that writes columns of the row other than its timers.
LEMMA ColumnsMove ==
  ASSUME Inv, NEW p \in Proc, UNCHANGED <<vm, faults>>, row' \in RowRec,
         row'.hexp <= vm.life, row'.handle = "live" <=> row'.hexp # 0,
         row'.timer = row.timer, row'.idle = row.idle,
         \/ row'.lease \in {row.lease, NoLease} /\ (Holding(proc[p]) => Holding(proc'[p]))
         \/ row'.lease = p /\ Holding(proc'[p])
  PROVE  RowMoves(p)
<1>1. faults \in Nat /\ vm.life \in Nat
  BY Types DEF VmRec, Life
<1>2. row'.lease = p => faults' # 0 \/ Holding(proc'[p])
  BY ProcNotZero DEF Inv, LeaseOK
<1>3. row'.lease \in {row.lease, NoLease, p}
  OBVIOUS
<1> QED BY <1>1, <1>2, <1>3 DEF RowMoves, Inv, RowOK

\* The single columns that are written.
LEMMA ColumnWrite ==
  ASSUME Inv, NEW p \in Proc, UNCHANGED <<vm, faults>>,
         NEW s \in LifecycleState, NEW e \in Life, NEW l \in {p, NoLease},
         \/ row' = [row EXCEPT !.lease = l]
         \/ row' = [row EXCEPT !.lc = s]
         \/ row' = [row EXCEPT !.lc = s, !.lease = NoLease]
         \/ row' = [row EXCEPT !.lc = s, !.rexp = e]
         \/ row' = [row EXCEPT !.archived = FALSE, !.lc = s],
         IF row'.lease = p /\ row.lease # p THEN Holding(proc'[p])
         ELSE Holding(proc[p]) => Holding(proc'[p])
  PROVE  RowMoves(p) /\ row'.timer = row.timer /\ row'.idle = row.idle
<1>1. row \in RowRec
  BY Types
<1>2. /\ row' \in RowRec /\ row'.hexp = row.hexp /\ row'.handle = row.handle
      /\ row'.timer = row.timer /\ row'.idle = row.idle /\ row'.lease \in {row.lease, l, NoLease}
  <2>1. CASE row' = [row EXCEPT !.lease = l]
    BY <1>1, <2>1 DEF RowRec
  <2>2. CASE row' = [row EXCEPT !.lc = s]
    BY <1>1, <2>2 DEF RowRec
  <2>3. CASE row' = [row EXCEPT !.lc = s, !.lease = NoLease]
    BY <1>1, <2>3 DEF RowRec
  <2>4. CASE row' = [row EXCEPT !.lc = s, !.rexp = e]
    BY <1>1, <2>4 DEF RowRec
  <2>5. CASE row' = [row EXCEPT !.archived = FALSE, !.lc = s]
    BY <1>1, <2>5 DEF RowRec
  <2> QED BY <2>1, <2>2, <2>3, <2>4, <2>5
<1>3. row.hexp <= vm.life /\ (row.handle = "live" <=> row.hexp # 0)
  BY DEF Inv, RowOK, Operable
<1>4. \/ row'.lease \in {row.lease, NoLease} /\ (Holding(proc[p]) => Holding(proc'[p]))
      \/ row'.lease = p /\ Holding(proc'[p])
  BY <1>2
<1> QED BY <1>2, <1>3, <1>4, ColumnsMove

\* While a process that remembers no timers writes, there is a value nobody remembers.
LEMMA NewTimerExists ==
  ASSUME Inv, NEW p \in Proc, proc[p].timer = 0
  PROVE  /\ NewTimer \in Timer /\ NewTimer # 0 /\ NewTimer # row.timer
         /\ \A q \in Proc : proc[q].timer # NewTimer
<1> DEFINE held == {proc[q].timer : q \in Proc \ {p}}
           used == held \cup {0, row.timer}
<1>f. IsFiniteSet(Proc) /\ Cardinality(Proc) \in Nat
  BY SessionParams, FS_CardinalityType
<1>1. IsFiniteSet(Proc \ {p}) /\ Cardinality(Proc \ {p}) = Cardinality(Proc) - 1
  BY <1>f, FS_RemoveElement
<1>2. IsFiniteSet(held) /\ Cardinality(held) <= Cardinality(Proc) - 1
  <2>1. DEFINE f == [q \in Proc \ {p} |-> proc[q].timer]
  <2>2. f \in Surjection(Proc \ {p}, held)
    BY DEF Surjection
  <2> QED BY <2>2, <1>1, FS_Surjection
<1> HIDE DEF held
<1>3. IsFiniteSet(held \cup {0}) /\ Cardinality(held \cup {0}) <= Cardinality(Proc)
  <2>1. Cardinality(held) \in Nat
    BY <1>2, FS_CardinalityType
  <2>2. /\ IsFiniteSet(held \cup {0})
        /\ Cardinality(held \cup {0}) = Cardinality(held) \/ Cardinality(held \cup {0}) = Cardinality(held) + 1
    BY <1>2, FS_AddElement, Zenon
  <2> QED BY <2>1, <2>2, <1>2, <1>f
<1>4. IsFiniteSet(used) /\ Cardinality(used) <= Cardinality(Proc) + 1
  <2>1. Cardinality(held \cup {0}) \in Nat
    BY <1>3, FS_CardinalityType
  <2>2. /\ IsFiniteSet((held \cup {0}) \cup {row.timer})
        /\ \/ Cardinality((held \cup {0}) \cup {row.timer}) = Cardinality(held \cup {0})
           \/ Cardinality((held \cup {0}) \cup {row.timer}) = Cardinality(held \cup {0}) + 1
    BY <1>3, FS_AddElement, Zenon
  <2>3. used = (held \cup {0}) \cup {row.timer}
    OBVIOUS
  <2> QED BY <2>1, <2>2, <2>3, <1>3, <1>f
<1>5. Cardinality(Timer) = Cardinality(Proc) + 2
  <2>1. 0 \in Int /\ Cardinality(Proc) + 1 \in Int
    BY <1>f
  <2>2. Cardinality(0..(Cardinality(Proc) + 1)) = IF 0 > Cardinality(Proc) + 1 THEN 0 ELSE (Cardinality(Proc) + 1) - 0 + 1
    BY <2>1, FS_Interval
  <2> QED BY <2>2, <1>f DEF Timer
<1>6. ~(Timer \subseteq used)
  <2>1. SUFFICES ASSUME Timer \subseteq used
                 PROVE  FALSE
    OBVIOUS
  <2>2. Cardinality(Timer) <= Cardinality(used)
    BY <2>1, <1>4, FS_Subset
  <2>3. Cardinality(used) \in Nat
    BY <1>4, FS_CardinalityType
  <2> HIDE DEF used
  <2> QED BY <2>2, <2>3, <1>4, <1>5, <1>f
<1>7. PICK t \in Timer : t \notin used
  BY <1>6
<1>8. t \in Timer \ {0, row.timer} /\ \A q \in Proc : proc[q].timer # t
  <2>1. t \notin {0, row.timer} /\ t \notin held
    BY <1>7
  <2>2. \A q \in Proc \ {p} : proc[q].timer \in held
    BY DEF held
  <2> QED BY <2>1, <2>2
<1>9. NewTimer \in Timer \ {0, row.timer} /\ \A q \in Proc : proc[q].timer # NewTimer
  BY <1>8, Zenon DEF NewTimer
<1> QED BY <1>9

\* A step that writes the timers of the row.
LEMMA TimersMove ==
  ASSUME Inv, NEW p \in Proc, UNCHANGED <<vm, faults>>, row' \in RowRec,
         row'.hexp <= vm.life, row'.handle = "live" <=> row'.hexp # 0,
         proc[p].timer = 0, row'.timer = NewTimer,
         row'.lease \in {row.lease, NoLease},
         Holding(proc[p]) => Holding(proc'[p])
  PROVE  RowMoves(p)
<1>1. faults \in Nat /\ vm.life \in Nat
  BY Types DEF VmRec, Life
<1>2. NewTimer # 0 /\ \A q \in Proc : proc[q].timer # NewTimer
  BY NewTimerExists
<1>3. row'.lease = p => faults' # 0 \/ Holding(proc'[p])
  BY ProcNotZero DEF Inv, LeaseOK
<1> QED BY <1>1, <1>2, <1>3 DEF RowMoves, Inv, RowOK

\* What the updates of the row write.
LEMMA TouchType ==
  ASSUME row \in RowRec, NewTimer \in Timer, NEW b \in BOOLEAN
  PROVE  LET r == Touch(row, b)
         IN  /\ r \in RowRec
             /\ r.hexp = row.hexp /\ r.handle = row.handle /\ r.lease = row.lease
             /\ r.timer = NewTimer
  BY DEF Touch, RowRec

LEMMA RefreshType ==
  ASSUME row \in RowRec, NewTimer \in Timer
  PROVE  LET r == Refresh(row)
         IN  /\ r \in RowRec
             /\ r.hexp = row.hexp /\ r.handle = row.handle /\ r.lease = row.lease
             /\ r.timer = NewTimer
<1>1. Refresh(row) = [row EXCEPT !.idle = FALSE, !.timer = NewTimer, !.lc = "active"]
  BY DEF Refresh, Touch, RowRec
<1> QED BY <1>1 DEF RowRec, LifecycleState

LEMMA SetActiveType ==
  ASSUME row \in RowRec, NewTimer \in Timer, NEW e \in Life
  PROVE  LET r == SetActive(row, e)
         IN  /\ r \in RowRec
             /\ r.hexp = e /\ r.handle = (IF e = 0 THEN "paused" ELSE "live")
             /\ r.lease = row.lease /\ r.timer = NewTimer
<1> DEFINE h == IF e = 0 THEN "paused" ELSE "live"
<1>1. SetActive(row, e) = [row EXCEPT !.idle = FALSE, !.timer = NewTimer, !.lc = "active",
                                      !.handle = h, !.hexp = e, !.rexp = e]
  BY DEF SetActive, Refresh, Touch, RowRec
<1>2. h \in Handle
  BY DEF Handle
<1> HIDE DEF h
<1>3. SetActive(row, e) \in RowRec /\ SetActive(row, e).handle = h
  BY <1>1, <1>2 DEF RowRec, LifecycleState
<1>4. SetActive(row, e).hexp = e /\ SetActive(row, e).lease = row.lease /\ SetActive(row, e).timer = NewTimer
  BY <1>1 DEF RowRec
<1> QED BY <1>3, <1>4 DEF h

LEMMA ClearType ==
  ASSUME row \in RowRec, NewTimer \in Timer, NEW r,
         r \in {SetHibernated(row), [Clear(row) EXCEPT !.lc = "archived"]}
  PROVE  /\ r \in RowRec
         /\ r.hexp = 0 /\ r.handle = "paused" /\ r.timer = NewTimer
         /\ r.lease \in {row.lease, NoLease}
<1>0. 0 \in Life
  BY SessionParams DEF Life
<1>1. CASE r = SetHibernated(row)
  <2>1. r = [row EXCEPT !.rexp = 0, !.timer = NewTimer, !.handle = "paused", !.hexp = 0,
                        !.lc = "hibernated", !.lease = NoLease]
    BY <1>1 DEF SetHibernated, Clear, NoTimer, RowRec
  <2> QED BY <2>1, <1>0 DEF RowRec, LifecycleState, Handle
<1>2. CASE r = [Clear(row) EXCEPT !.lc = "archived"]
  <2>1. r = [row EXCEPT !.rexp = 0, !.timer = NewTimer, !.handle = "paused", !.hexp = 0,
                        !.lc = "archived"]
    BY <1>2 DEF Clear, NoTimer, RowRec
  <2> QED BY <2>1, <1>0 DEF RowRec, LifecycleState, Handle
<1> QED BY <1>1, <1>2

LEMMA SetArchivedType ==
  ASSUME row \in RowRec, NewTimer \in Timer, NEW r,
         r \in {SetArchived(row), [SetArchived(row) EXCEPT !.archived = TRUE]}
  PROVE  /\ r \in RowRec
         /\ r.hexp = row.hexp /\ r.handle = row.handle /\ r.timer = NewTimer
         /\ r.lease = row.lease
<1>0. 0 \in Life
  BY SessionParams DEF Life
<1>1. CASE r = SetArchived(row)
  BY <1>0, <1>1 DEF SetArchived, NoTimer, RowRec, LifecycleState
<1>2. CASE r = [SetArchived(row) EXCEPT !.archived = TRUE]
  <2>1. r = [row EXCEPT !.rexp = 0, !.timer = NewTimer, !.lc = "archived", !.archived = TRUE]
    BY <1>2 DEF SetArchived, NoTimer, RowRec
  <2> QED BY <2>1, <1>0 DEF RowRec, LifecycleState
<1> QED BY <1>1, <1>2

-----------------------------------------------------------------------------
(* Moves of the record                                                      *)

\* A record that is not one of those that look at timers or streams.
LEMMA PlainMoves ==
  ASSUME Inv, NEW p \in Proc, NEW r \in ProcRec(PC),
         proc' = [proc EXCEPT ![p] = r] \/ LeaveKick(p, r),
         r.hexp <= vm'.life, KindFits(r.kind, r.pc),
         r.timer # 0 => r.pc \in TimerPC, ~r.spare,
         proc[p].kind \in ChatKind =>
           /\ r.kind = proc[p].kind /\ r.pc # "new"
           /\ proc[p].pc \in OffStream => r.pc \in OffStream,
         r.pc \notin LookPC \cup {"stream3", "stop"}
  PROVE  Steps(p) /\ proc'[p] = r
<1>1. ProcMoves(p) /\ proc'[p] = r
  BY PutMoves
<1>2. RecordFits(p) /\ StaysOver(p)
  BY <1>1 DEF RecordFits, StaysOver
<1>3. LooksOn(p)
  BY <1>1 DEF LooksOn
<1> QED BY <1>1, <1>2, <1>3 DEF Steps

\* GoTo keeps what is remembered, or forgets everything at the end.
LEMMA GoToRecord ==
  ASSUME Inv, NEW p \in Proc, NEW pc \in PC, GoTo(p, pc)
  PROVE  \E r \in ProcRec(PC) :
           /\ proc' = [proc EXCEPT ![p] = r]
           /\ r.kind = proc[p].kind /\ r.pc = pc /\ ~r.spare
           /\ r.hexp <= vm.life /\ r.timer \in {0, proc[p].timer}
           /\ pc = "done" => r.timer = 0
           /\ pc # "done" => r = [proc[p] EXCEPT !.pc = pc]
<1>t. /\ proc \in [Proc -> ProcRec(PC)] /\ proc[p] \in ProcRec(PC)
      /\ proc[p].hexp <= vm.life /\ ~proc[p].spare /\ vm.life \in Nat
  BY Types DEF Inv, ProcsOK, VmRec, Life
<1>1. CASE pc = "done"
  <2> DEFINE r == Blank(proc[p].kind, pc)
  <2>1. proc' = [proc EXCEPT ![p] = r]
    BY <1>1 DEF GoTo
  <2>2. proc[p].kind \in Kind
    BY <1>t DEF ProcRec
  <2>3. /\ r \in ProcRec(PC) /\ r.kind = proc[p].kind /\ r.pc = pc /\ ~r.spare
        /\ r.hexp = 0 /\ r.timer = 0
    BY <2>2, BlankType
  <2>4. r.hexp <= vm.life
    BY <2>3, <1>t
  <2> HIDE DEF r
  <2>5. /\ proc' = [proc EXCEPT ![p] = r]
        /\ r.kind = proc[p].kind /\ r.pc = pc /\ ~r.spare
        /\ r.hexp <= vm.life /\ r.timer \in {0, proc[p].timer}
        /\ pc = "done" => r.timer = 0
        /\ pc # "done" => r = [proc[p] EXCEPT !.pc = pc]
    BY <2>1, <2>3, <2>4, <1>1
  <2> QED BY <2>3, <2>5, Zenon
<1>2. CASE pc # "done"
  <2> DEFINE r == [proc[p] EXCEPT !.pc = pc]
  <2>1. proc' = [proc EXCEPT ![p] = r]
    BY <1>2 DEF GoTo
  <2>2. r \in ProcRec(PC) /\ r.kind = proc[p].kind /\ r.pc = pc /\ r.spare = proc[p].spare
        /\ r.hexp = proc[p].hexp /\ r.timer = proc[p].timer
    BY <1>t DEF ProcRec
  <2>3. r = [proc[p] EXCEPT !.pc = pc]
    OBVIOUS
  <2> HIDE DEF r
  <2> QED BY <2>1, <2>2, <2>3, <1>2, <1>t
<1> QED BY <1>1, <1>2

LEMMA GoToMoves ==
  ASSUME Inv, NEW p \in Proc, NEW pc \in PC, GoTo(p, pc),
         vm' \in VmRec, vm.life <= vm'.life,
         KindFits(proc[p].kind, pc),
         proc[p].pc \in TimerPC => pc \in TimerPC \cup {"done"},
         proc[p].kind \in ChatKind =>
           /\ pc # "new"
           /\ proc[p].pc \in OffStream => pc \in OffStream,
         pc \notin LookPC \cup {"stream3", "stop"}
  PROVE  Steps(p) /\ proc'[p].kind = proc[p].kind /\ proc'[p].pc = pc
<1>1. PICK r \in ProcRec(PC) :
        /\ proc' = [proc EXCEPT ![p] = r]
        /\ r.kind = proc[p].kind /\ r.pc = pc /\ ~r.spare
        /\ r.hexp <= vm.life /\ r.timer \in {0, proc[p].timer}
        /\ pc = "done" => r.timer = 0
  BY GoToRecord
<1>2. r.hexp <= vm'.life
  <2>1. r.hexp \in Nat /\ vm.life \in Nat /\ vm'.life \in Nat
    BY Types DEF ProcRec, VmRec, Life
  <2> QED BY <2>1, <1>1
<1>3. r.timer # 0 => r.pc \in TimerPC
  BY <1>1 DEF Inv, ProcsOK
<1> QED BY <1>1, <1>2, <1>3, PlainMoves

\* Forgetting everything.
LEMMA ForgetMoves ==
  ASSUME Inv, NEW p \in Proc, NEW pc \in PC, Forget(p, pc),
         vm' \in VmRec,
         KindFits(proc[p].kind, pc),
         proc[p].kind \in ChatKind =>
           /\ pc # "new"
           /\ proc[p].pc \in OffStream => pc \in OffStream,
         pc \notin LookPC \cup {"stream3", "stop"}
  PROVE  Steps(p) /\ proc'[p].kind = proc[p].kind /\ proc'[p].pc = pc
<1> DEFINE r == Blank(proc[p].kind, pc)
<1>1. proc' = [proc EXCEPT ![p] = r]
  BY DEF Forget
<1>2. proc[p].kind \in Kind
  BY Types DEF ProcRec
<1>3. /\ r \in ProcRec(PC) /\ r.kind = proc[p].kind /\ r.pc = pc /\ ~r.spare
      /\ r.hexp = 0 /\ r.timer = 0
  BY <1>2, BlankType
<1>4. 0 <= vm'.life
  BY SessionParams DEF VmRec, Life
<1> HIDE DEF r
<1> QED BY <1>1, <1>3, <1>4, PlainMoves

\* An evaluation ends.
LEMMA ReturnMoves ==
  ASSUME Inv, NEW p \in Proc, NEW again \in BOOLEAN, Return(p, again),
         vm' \in VmRec, proc[p].pc \notin {"new", "done", "kick", "unstale", "claim"}
  PROVE  Steps(p) /\ (Holding(proc[p]) => Holding(proc'[p]))
<1> DEFINE pc == IF proc[p].kind # "lifecycle" THEN "done" ELSE IF again THEN "decide" ELSE "release"
<1>1. Forget(p, pc)
  BY DEF Return
<1>2. /\ pc \in PC /\ KindFits(proc[p].kind, pc)
      /\ proc[p].kind \in ChatKind => pc # "new" /\ pc \in OffStream
      /\ pc \notin LookPC \cup {"stream3", "stop"}
      /\ proc[p].kind = "lifecycle" => pc \in {"decide", "release"}
  BY DEF PC, RequestPC, DecidePC, ReleasePC, KindFits, WorkflowPC, RequestOnlyPC, ChatKind,
         OffStream, LookPC
<1> HIDE DEF pc
<1>3. Steps(p) /\ proc'[p].kind = proc[p].kind /\ proc'[p].pc = pc
  BY <1>1, <1>2, ForgetMoves
<1> QED BY <1>2, <1>3 DEF Holding

\* The three groups of places GoTo is used between.
LEMMA WorkflowGoTo ==
  ASSUME Inv, NEW p \in Proc, proc[p].pc \in WorkflowPC,
         NEW pc \in WorkflowPC \cup {"done"}, GoTo(p, pc), UNCHANGED vm,
         proc[p].pc \in TimerPC => pc \in TimerPC \cup {"done"}
  PROVE  /\ Steps(p) /\ proc[p].kind = "lifecycle"
         /\ proc'[p].kind = "lifecycle" /\ proc'[p].pc = pc
<1>1. proc[p].kind = "lifecycle"
  BY DEF Inv, ProcsOK, KindFits
<1>2. pc \in PC /\ pc \notin LookPC \cup {"stream3", "stop"} /\ KindFits("lifecycle", pc)
  BY DEF PC, WorkflowPC, KickPC, DecidePC, ReleasePC, RequestPC, LookPC, KindFits, RequestOnlyPC
<1>3. vm' \in VmRec /\ vm.life <= vm'.life
  BY Types DEF VmRec, Life
<1>4. proc[p].kind \notin ChatKind
  BY <1>1 DEF ChatKind
<1> QED BY <1>1, <1>2, <1>3, <1>4, GoToMoves

LEMMA RequestGoTo ==
  ASSUME Inv, NEW p \in Proc, proc[p].pc \in RequestOnlyPC \cup {"new"},
         proc[p].kind # "lifecycle", proc[p].pc # "force",
         NEW pc \in RequestOnlyPC \cup {"done"}, GoTo(p, pc),
         vm' \in VmRec, vm.life <= vm'.life,
         proc[p].pc = "archFailWrite" => pc = "done"
  PROVE  Steps(p) /\ proc'[p].kind = proc[p].kind /\ proc'[p].pc = pc /\ ~Holding(proc[p])
<1>1. pc \in PC /\ pc \notin LookPC \cup {"stream3", "stop"} /\ pc # "new"
  BY DEF PC, RequestOnlyPC, EvalPC, StopPC, RequestPC, LookPC
<1>2. KindFits(proc[p].kind, pc)
  BY DEF KindFits, WorkflowPC, RequestOnlyPC
<1>3. proc[p].pc \notin TimerPC
  BY DEF TimerPC, RequestOnlyPC
<1>4. proc[p].pc \in OffStream => pc \in OffStream
  BY DEF OffStream, RequestOnlyPC
<1>5. ~Holding(proc[p])
  BY DEF Holding
<1>6. Steps(p) /\ proc'[p].kind = proc[p].kind /\ proc'[p].pc = pc
  BY <1>1, <1>2, <1>3, <1>4, GoToMoves
<1> QED BY <1>5, <1>6

LEMMA EvaluationGoTo ==
  ASSUME Inv, NEW p \in Proc,
         proc[p].pc \in {"attach", "stream2", "stream3", "stop", "archConnect", "archStop"},
         NEW pc \in {"evalFail", "restore", "hibernate", "archClear", "archFail"},
         GoTo(p, pc), vm' \in VmRec, vm.life <= vm'.life,
         proc[p].pc \in TimerPC => pc \in TimerPC
  PROVE  Steps(p) /\ (Holding(proc[p]) => Holding(proc'[p]))
<1>1. pc \in PC /\ pc \notin LookPC \cup {"stream3", "stop"}
  BY DEF PC, EvalPC, StopPC, LookPC
<1>2. KindFits(proc[p].kind, pc) /\ pc # "new" /\ pc \in OffStream
  BY DEF KindFits, WorkflowPC, RequestOnlyPC, OffStream
<1>3. Steps(p) /\ proc'[p].kind = proc[p].kind /\ proc'[p].pc = pc
  BY <1>1, <1>2, GoToMoves
<1> QED BY <1>3 DEF Holding

\* From one look to the next, with the timers as they were.
LEMMA LookOn ==
  ASSUME Inv, NEW p \in Proc, proc[p].pc \in {"stream1", "mark", "attach", "stream2"},
         NEW r \in ProcRec(PC), proc' = [proc EXCEPT ![p] = r],
         r.pc \in {"mark", "attach", "stream2", "recheck"}, r.kind = proc[p].kind,
         r.timer = proc[p].timer, r.rexp = proc[p].rexp, r.hexp = proc[p].hexp,
         ~r.spare,
         UNCHANGED vm, row'.timer = row.timer, row'.idle = row.idle
  PROVE  Steps(p) /\ (Holding(proc[p]) => Holding(proc'[p]))
<1>1. ProcMoves(p) /\ proc'[p] = r
  BY PutMoves
<1>2. RecordFits(p)
  BY <1>1 DEF RecordFits, Inv, ProcsOK, KindFits, WorkflowPC, RequestOnlyPC, TimerPC
<1>3. StaysOver(p)
  BY <1>1 DEF StaysOver, OffStream
<1>4. LooksOn(p)
  <2>1. proc'[p].pc \notin {"stream3", "stop"}
    BY <1>1
  <2>2. ASSUME proc'[p].timer = row'.timer
        PROVE  row'.idle \/ (proc'[p].rexp # 0 /\ proc'[p].rexp <= vm'.past)
    <3>1. proc[p].pc \in LookPC /\ proc[p].timer = row.timer
      BY <2>2, <1>1 DEF LookPC
    <3>2. row.idle \/ Past(proc[p].rexp)
      BY <3>1, Zenon DEF Inv, FreshOK
    <3>3. CASE row.idle
      BY <3>3, Zenon
    <3>4. CASE Past(proc[p].rexp)
      BY <3>4, <1>1 DEF Past
    <3> QED BY <3>2, <3>3, <3>4
  <2> QED BY <2>1, <2>2 DEF LooksOn
<1>5. Holding(proc[p]) => Holding(proc'[p])
  BY <1>1 DEF Holding
<1> QED BY <1>1, <1>2, <1>3, <1>4, <1>5 DEF Steps

LEMMA LookGoTo ==
  ASSUME Inv, NEW p \in Proc, proc[p].pc \in {"stream1", "mark", "stream2"},
         NEW pc \in {"mark", "attach", "recheck"}, GoTo(p, pc),
         UNCHANGED vm, row'.timer = row.timer, row'.idle = row.idle
  PROVE  Steps(p) /\ (Holding(proc[p]) => Holding(proc'[p]))
<1>1. pc \in PC /\ pc # "done"
  BY DEF PC, EvalPC, StopPC
<1>2. PICK r \in ProcRec(PC) :
        /\ proc' = [proc EXCEPT ![p] = r]
        /\ r.kind = proc[p].kind /\ r.pc = pc /\ ~r.spare
        /\ r = [proc[p] EXCEPT !.pc = pc]
  BY <1>1, GoToRecord
<1>3. proc[p] \in ProcRec(PC)
  BY Types
<1>4. r.timer = proc[p].timer /\ r.rexp = proc[p].rexp /\ r.hexp = proc[p].hexp
  BY <1>2, <1>3 DEF ProcRec
<1> QED BY <1>2, <1>4, LookOn
\* The lease is written off by a step that ends the run, or that takes it away.
LEMMA LeaseGone ==
  ASSUME Inv, NEW p \in Proc, UNCHANGED <<vm, faults>>, row' = [row EXCEPT !.lease = NoLease]
  PROVE  RowMoves(p)
<1>1. row \in RowRec /\ vm.life \in Nat /\ faults \in Nat
  BY Types DEF VmRec, Life
<1>2. /\ row' \in RowRec /\ row'.lease = NoLease /\ row'.hexp = row.hexp
      /\ row'.handle = row.handle /\ row'.timer = row.timer /\ row'.idle = row.idle
  BY <1>1 DEF RowRec
<1> QED BY <1>1, <1>2, ProcNotZero DEF RowMoves, Inv, RowOK, Operable

-----------------------------------------------------------------------------
(* kickSandboxLifecycleWorkflow                                             *)

LEMMA ClaimMoves ==
  ASSUME Inv, NEW p \in Proc, Claim(p)
  PROVE  Moves(p)
<1>1. CASE row.lease = NoLease
  <2>1. /\ proc[p].pc \in WorkflowPC /\ proc[p].pc \notin TimerPC /\ "start" \in WorkflowPC
        /\ GoTo(p, "start") /\ UNCHANGED <<vm, faults>> /\ row' = [row EXCEPT !.lease = p]
    BY <1>1 DEF Claim, WorkflowPC, TimerPC
  <2>2. Steps(p) /\ proc'[p].kind = "lifecycle" /\ proc'[p].pc = "start"
    BY <2>1, WorkflowGoTo
  <2>3. Holding(proc'[p])
    BY <2>2 DEF Holding
  <2>4. RowMoves(p)
    <3>1. "none" \in LifecycleState /\ 0 \in Life
      BY SessionParams DEF LifecycleState, Life
    <3> QED BY <3>1, <2>1, <2>3, ColumnWrite
  <2> QED BY <2>2, <2>4 DEF Moves, Steps
<1>2. CASE row.lease # NoLease
  <2>1. /\ proc[p].pc = "claim" /\ proc[p].pc \in WorkflowPC /\ proc[p].pc \notin TimerPC
        /\ GoTo(p, "done") /\ UNCHANGED <<vm, row, faults>>
    BY <1>2 DEF Claim, WorkflowPC, TimerPC
  <2>2. Steps(p)
    BY <2>1, WorkflowGoTo
  <2>3. RowMoves(p)
    BY <2>1, RowUnmoved DEF Holding
  <2> QED BY <2>2, <2>3 DEF Moves, Steps
<1> QED BY <1>1, <1>2

LEMMA UnstaleMoves ==
  ASSUME Inv, NEW p \in Proc, Unstale(p)
  PROVE  Moves(p)
<1> DEFINE pc == IF proc[p].live THEN "claim" ELSE "done"
<1>1. /\ proc[p].pc = "unstale" /\ GoTo(p, pc) /\ UNCHANGED <<vm, faults>>
      /\ row' = [row EXCEPT !.lease = NoLease]
  BY DEF Unstale
<1>2. pc \in WorkflowPC \cup {"done"} /\ proc[p].pc \in WorkflowPC /\ proc[p].pc \notin TimerPC
  BY <1>1 DEF WorkflowPC, TimerPC
<1> HIDE DEF pc
<1>3. Steps(p)
  BY <1>1, <1>2, WorkflowGoTo
<1>4. RowMoves(p)
  BY <1>1, LeaseGone
<1> QED BY <1>3, <1>4 DEF Moves, Steps

\* A kick and a workflow run that go on, with the row as it was.
LEMMA WorkflowGoesOn ==
  ASSUME Inv, NEW p \in Proc, NEW pc \in WorkflowPC \cup {"done"}, GoTo(p, pc),
         proc[p].pc \in WorkflowPC, proc[p].pc \in TimerPC => pc \in TimerPC \cup {"done"},
         UNCHANGED <<vm, row>>, UNCHANGED faults \/ Fault,
         \/ ~Holding(proc[p])
         \/ pc \notin {"done", "kick", "unstale", "claim"}
         \/ Fault
         \/ row.lease # p
  PROVE  Moves(p)
<1>1. Steps(p) /\ proc'[p].kind = "lifecycle" /\ proc'[p].pc = pc
  BY WorkflowGoTo
<1>2. pc # "new"
  BY DEF WorkflowPC
<1>3. RowMoves(p)
  <2>1. CASE row.lease # p
    <3>1. faults' \in 0..MaxFaults /\ faults <= faults' /\ faults \in Nat /\ vm.life \in Nat
      BY Types DEF Fault, VmRec, Life
    <3> QED BY <2>1, <3>1 DEF RowMoves, Inv, RowOK, Operable
  <2>2. CASE Fault \/ ~Holding(proc[p]) \/ pc \notin {"done", "kick", "unstale", "claim"}
    <3>1. faults \in Nat
      BY Types
    <3>2. UNCHANGED faults /\ Holding(proc[p]) => Holding(proc'[p])
      BY <2>2, <1>1, <1>2, <3>1 DEF Holding, Fault
    <3> QED BY <3>2, RowUnmoved
  <2> QED BY <2>1, <2>2
<1> QED BY <1>1, <1>3 DEF Moves, Steps

LEMMA KickReadMoves ==
  ASSUME Inv, NEW p \in Proc, KickRead(p)
  PROVE  Moves(p)
<1>1. /\ proc[p].pc = "kick" /\ UNCHANGED <<vm, row, faults>>
      /\ GoTo(p, "claim") \/ GoTo(p, "done")
  BY DEF KickRead
<1>2. /\ {"claim", "done"} \subseteq WorkflowPC \cup {"done"}
      /\ proc[p].pc \in WorkflowPC /\ proc[p].pc \notin TimerPC /\ ~Holding(proc[p])
  BY <1>1 DEF WorkflowPC, TimerPC, Holding
<1> QED BY <1>1, <1>2, WorkflowGoesOn

LEMMA KickStaleMoves ==
  ASSUME Inv, NEW p \in Proc, KickStale(p)
  PROVE  Moves(p)
<1> DEFINE b == Operable
           r == [proc[p] EXCEPT !.pc = "unstale", !.live = b]
<1>t. proc \in [Proc -> ProcRec(PC)] /\ proc[p] \in ProcRec(PC) /\ b \in BOOLEAN
  BY Types DEF Operable
<1>1. /\ proc[p].pc = "kick" /\ UNCHANGED <<vm, row, faults>>
      /\ proc' = [proc EXCEPT ![p] = r]
  BY <1>t DEF KickStale
<1> HIDE DEF b
<1>2. /\ r \in ProcRec(PC) /\ r.kind = proc[p].kind /\ r.pc = "unstale"
      /\ r.timer = proc[p].timer /\ r.hexp = proc[p].hexp /\ r.spare = proc[p].spare
  BY <1>t DEF ProcRec, PC, KickPC
<1> HIDE DEF r
<1>3. /\ proc[p].kind = "lifecycle" /\ proc[p].timer = 0
      /\ proc[p].hexp <= vm.life /\ ~proc[p].spare
  BY <1>1 DEF Inv, ProcsOK, KindFits, WorkflowPC, TimerPC
<1>4. Steps(p)
  <2>1. KindFits(r.kind, r.pc) /\ r.pc \notin LookPC \cup {"stream3", "stop"} /\ proc[p].kind \notin ChatKind
    BY <1>2, <1>3 DEF KindFits, RequestOnlyPC, LookPC, ChatKind
  <2>2. r.hexp <= vm'.life /\ r.timer = 0 /\ ~r.spare
    BY <1>1, <1>2, <1>3
  <2> QED BY <2>1, <2>2, <1>1, <1>2, PlainMoves
<1>5. RowMoves(p)
  BY <1>1, RowUnmoved DEF Holding
<1> QED BY <1>4, <1>5 DEF Moves, Steps

LEMMA StartMoves ==
  ASSUME Inv, NEW p \in Proc, Start(p)
  PROVE  Moves(p)
<1>1. /\ proc[p].pc = "start" /\ UNCHANGED <<vm, row>>
      /\ (GoTo(p, "decide") /\ UNCHANGED faults) \/ (GoTo(p, "unclaim") /\ Fault)
  BY DEF Start
<1>2. /\ {"decide", "unclaim"} \subseteq WorkflowPC \cup {"done"}
      /\ proc[p].pc \in WorkflowPC /\ proc[p].pc \notin TimerPC
  BY <1>1 DEF WorkflowPC, TimerPC
<1> QED BY <1>1, <1>2, WorkflowGoesOn

\* The fallback: an evaluation that has no lease.
LEMMA InlineMoves ==
  ASSUME Inv, NEW p \in Proc, Inline(p), UNCHANGED vm,
         proc[p].pc \in {"unclaim", "unclaimWrite"}
  PROVE  Steps(p)
<1> DEFINE r == Blank("inline", "evaluate")
<1>1. "inline" \in Kind /\ "evaluate" \in PC
  BY DEF Kind, PC, EvalPC
<1>2. /\ r \in ProcRec(PC) /\ r.kind = "inline" /\ r.pc = "evaluate" /\ ~r.spare
      /\ r.hexp = 0 /\ r.timer = 0
  BY <1>1, BlankType
<1>3. proc' = [proc EXCEPT ![p] = r]
  BY DEF Inline
<1> HIDE DEF r
<1>4. KindFits(r.kind, r.pc) /\ r.pc \notin LookPC \cup {"stream3", "stop"}
  BY <1>2 DEF KindFits, WorkflowPC, RequestOnlyPC, LookPC
<1>5. proc[p].kind \notin ChatKind
  BY DEF Inv, ProcsOK, KindFits, WorkflowPC, ChatKind
<1>6. r.hexp <= vm'.life
  BY <1>2, Types DEF VmRec, Life
<1> QED BY <1>2, <1>3, <1>4, <1>5, <1>6, PlainMoves

LEMMA UnclaimMoves ==
  ASSUME Inv, NEW p \in Proc, Unclaim(p)
  PROVE  Moves(p)
<1>1. proc[p].pc = "unclaim" /\ UNCHANGED <<vm, row, faults>>
  BY DEF Unclaim
<1>2. CASE row.lease = p
  <2>1. GoTo(p, "unclaimWrite") /\ "unclaimWrite" \in WorkflowPC \cup {"done"}
        /\ proc[p].pc \in WorkflowPC /\ proc[p].pc \notin TimerPC
    BY <1>1, <1>2 DEF Unclaim, WorkflowPC, TimerPC
  <2> QED BY <1>1, <2>1, WorkflowGoesOn
<1>3. CASE row.lease # p
  <2>1. Steps(p)
    BY <1>1, <1>3, InlineMoves DEF Unclaim
  <2>2. RowMoves(p)
    <3>1. vm.life \in Nat /\ faults \in Nat
      BY Types DEF VmRec, Life
    <3> QED BY <1>1, <1>3, <3>1 DEF RowMoves, Inv, RowOK, Operable
  <2> QED BY <2>1, <2>2 DEF Moves, Steps
<1> QED BY <1>2, <1>3

LEMMA UnclaimWriteMoves ==
  ASSUME Inv, NEW p \in Proc, UnclaimWrite(p)
  PROVE  Moves(p)
<1>1. /\ proc[p].pc = "unclaimWrite" /\ UNCHANGED <<vm, faults>> /\ Inline(p)
      /\ row' = [row EXCEPT !.lease = NoLease]
  BY DEF UnclaimWrite
<1>2. Steps(p)
  BY <1>1, InlineMoves
<1>3. RowMoves(p)
  BY <1>1, LeaseGone
<1> QED BY <1>2, <1>3 DEF Moves, Steps

LEMMA KickStepMoves ==
  ASSUME Inv, NEW p \in Proc, KickStep(p)
  PROVE  Moves(p)
  BY KickReadMoves, KickStaleMoves, UnstaleMoves, ClaimMoves, StartMoves, UnclaimMoves,
     UnclaimWriteMoves DEF KickStep

-----------------------------------------------------------------------------
(* sandboxLifecycleWorkflow                                                 *)

LEMMA DecideMoves ==
  ASSUME Inv, NEW p \in Proc, Decide(p)
  PROVE  Moves(p)
<1>1. proc[p].pc = "decide" /\ UNCHANGED <<vm, row, faults>>
  BY DEF Decide
<1>2. CASE ~Operable
  <2>1. GoTo(p, "release") /\ "release" \in WorkflowPC \cup {"done"}
        /\ proc[p].pc \in WorkflowPC /\ proc[p].pc \notin TimerPC
    BY <1>1, <1>2 DEF Decide, WorkflowPC, TimerPC
  <2> QED BY <1>1, <2>1, WorkflowGoesOn
<1>3. CASE Operable
  <2> DEFINE b == IsArchived
             r == [proc[p] EXCEPT !.pc = "lease", !.note = b, !.timer = row.timer,
                                  !.rexp = row.rexp]
  <2>t. /\ proc \in [Proc -> ProcRec(PC)] /\ proc[p] \in ProcRec(PC) /\ row \in RowRec
        /\ b \in BOOLEAN
    BY Types DEF IsArchived, RowRec
  <2>1. proc' = [proc EXCEPT ![p] = r]
    BY <1>3, <2>t DEF Decide
  <2> HIDE DEF b
  <2>2. /\ r \in ProcRec(PC) /\ r.kind = proc[p].kind /\ r.pc = "lease"
        /\ r.hexp = proc[p].hexp /\ r.spare = proc[p].spare
    BY <2>t DEF ProcRec, RowRec, PC, DecidePC
  <2> HIDE DEF r
  <2>3. proc[p].kind = "lifecycle" /\ proc[p].hexp <= vm.life /\ ~proc[p].spare
    BY <1>1 DEF Inv, ProcsOK, KindFits, WorkflowPC
  <2>4. /\ KindFits(r.kind, r.pc) /\ r.pc \notin LookPC \cup {"stream3", "stop"}
        /\ proc[p].kind \notin ChatKind /\ r.pc \in TimerPC
    BY <2>2, <2>3 DEF KindFits, RequestOnlyPC, LookPC, ChatKind, TimerPC
  <2>5. r.hexp <= vm'.life /\ ~r.spare
    BY <1>1, <2>2, <2>3
  <2>6. Steps(p) /\ proc'[p] = r
    BY <2>1, <2>2, <2>4, <2>5, PlainMoves
  <2>7. RowMoves(p)
    <3>1. Holding(proc'[p])
      BY <2>6, <2>2, <2>3 DEF Holding
    <3> QED BY <1>1, <3>1, RowUnmoved
  <2> QED BY <2>6, <2>7 DEF Moves, Steps
<1> QED BY <1>2, <1>3

LEMMA ReadLeaseMoves ==
  ASSUME Inv, NEW p \in Proc, ReadLease(p) \/ VerifyLease(p)
  PROVE  Moves(p)
<1>1. /\ proc[p].pc \in {"lease", "leaseVerify"} /\ UNCHANGED <<vm, row, faults>>
      /\ GoTo(p, "leaseWrite") \/ GoTo(p, "leaseVerify") \/ GoTo(p, "release") \/ GoTo(p, "sleep")
  BY DEF ReadLease, VerifyLease
<1>2. /\ {"leaseWrite", "leaseVerify", "release", "sleep"} \subseteq WorkflowPC \cup {"done"}
      /\ {"leaseWrite", "leaseVerify", "release", "sleep"} \subseteq TimerPC
      /\ proc[p].pc \in WorkflowPC
  BY <1>1 DEF WorkflowPC, TimerPC
<1> QED BY <1>1, <1>2, WorkflowGoesOn

LEMMA WriteLeaseMoves ==
  ASSUME Inv, NEW p \in Proc, WriteLease(p)
  PROVE  Moves(p)
<1>1. /\ proc[p].pc \in WorkflowPC /\ "leaseVerify" \in WorkflowPC /\ "leaseVerify" \in TimerPC
      /\ GoTo(p, "leaseVerify") /\ UNCHANGED <<vm, faults>> /\ row' = [row EXCEPT !.lease = p]
  BY DEF WriteLease, WorkflowPC, TimerPC
<1>2. Steps(p) /\ proc'[p].kind = "lifecycle" /\ proc'[p].pc = "leaseVerify"
  BY <1>1, WorkflowGoTo
<1>3. Holding(proc'[p])
  BY <1>2 DEF Holding
<1>4. RowMoves(p)
  <2>1. "none" \in LifecycleState /\ 0 \in Life
    BY SessionParams DEF LifecycleState, Life
  <2> QED BY <2>1, <1>1, <1>3, ColumnWrite
<1> QED BY <1>2, <1>4 DEF Moves, Steps

\* A workflow run that forgets what it read.
LEMMA WorkflowForgets ==
  ASSUME Inv, NEW p \in Proc, proc[p].kind = "lifecycle",
         NEW pc \in {"decide", "evaluate"}, Forget(p, pc),
         UNCHANGED <<vm, row>>, UNCHANGED faults \/ Fault
  PROVE  Moves(p)
<1>1. /\ pc \in PC /\ KindFits(proc[p].kind, pc) /\ pc \notin LookPC \cup {"stream3", "stop"}
      /\ proc[p].kind \notin ChatKind
  BY DEF PC, DecidePC, EvalPC, KindFits, RequestOnlyPC, LookPC, ChatKind
<1>2. Steps(p) /\ proc'[p].kind = "lifecycle" /\ proc'[p].pc = pc
  BY <1>1, Types, ForgetMoves
<1>3. Holding(proc'[p])
  BY <1>2 DEF Holding
<1> QED BY <1>2, <1>3, RowUnmoved DEF Moves, Steps

LEMMA WakeMoves ==
  ASSUME Inv, NEW p \in Proc, Wake(p)
  PROVE  Moves(p)
<1>1. proc[p].pc = "sleep" /\ Forget(p, "evaluate") /\ UNCHANGED <<vm, row, faults>>
  BY DEF Wake
<1>2. proc[p].kind = "lifecycle"
  BY <1>1 DEF Inv, ProcsOK, KindFits, WorkflowPC
<1> QED BY <1>1, <1>2, WorkflowForgets

LEMMA ReleaseMoves ==
  ASSUME Inv, NEW p \in Proc, Release(p)
  PROVE  Moves(p)
<1>1. /\ proc[p].pc = "release" /\ UNCHANGED <<vm, row, faults>>
      /\ GoTo(p, "releaseWrite") \/ (row.lease # p /\ GoTo(p, "done"))
  BY DEF Release
<1>2. /\ {"releaseWrite", "done"} \subseteq WorkflowPC \cup {"done"}
      /\ {"releaseWrite", "done"} \subseteq TimerPC \cup {"done"}
      /\ proc[p].pc \in WorkflowPC
  BY <1>1 DEF WorkflowPC, TimerPC
<1> QED BY <1>1, <1>2, WorkflowGoesOn

LEMMA ReleaseWriteMoves ==
  ASSUME Inv, NEW p \in Proc, ReleaseWrite(p)
  PROVE  Moves(p)
<1>1. /\ proc[p].pc \in WorkflowPC /\ GoTo(p, "done") /\ UNCHANGED <<vm, faults>>
      /\ row' = [row EXCEPT !.lease = NoLease]
  BY DEF ReleaseWrite, WorkflowPC
<1>2. Steps(p)
  BY <1>1, WorkflowGoTo
<1> QED BY <1>1, <1>2, LeaseGone DEF Moves, Steps

LEMMA WorkflowStepMoves ==
  ASSUME Inv, NEW p \in Proc, WorkflowStep(p)
  PROVE  Moves(p)
  BY DecideMoves, ReadLeaseMoves, WriteLeaseMoves, WakeMoves, ReleaseMoves, ReleaseWriteMoves
     DEF WorkflowStep

-----------------------------------------------------------------------------
(* The platform                                                             *)

LEMMA RedoMoves ==
  ASSUME Inv, NEW p \in Proc, Redo(p)
  PROVE  Moves(p)
<1>1. /\ proc[p].kind = "lifecycle" /\ Fault /\ UNCHANGED <<vm, row>>
      /\ \/ Forget(p, "decide") \/ Forget(p, "evaluate")
         \/ proc[p].pc = "releaseWrite" /\ GoTo(p, "release")
  BY DEF Redo
<1>2. CASE Forget(p, "decide") \/ Forget(p, "evaluate")
  BY <1>1, <1>2, WorkflowForgets
<1>3. CASE proc[p].pc = "releaseWrite" /\ GoTo(p, "release")
  <2>1. proc[p].pc \in WorkflowPC /\ "release" \in WorkflowPC \cup {"done"} /\ "release" \in TimerPC
    BY <1>3 DEF WorkflowPC, TimerPC
  <2> QED BY <1>1, <1>3, <2>1, WorkflowGoesOn
<1> QED BY <1>1, <1>2, <1>3

LEMMA KickDiesMoves ==
  ASSUME Inv, NEW p \in Proc, KickDies(p)
  PROVE  Moves(p)
<1>1. proc[p].pc \in WorkflowPC /\ GoTo(p, "done") /\ Fault /\ UNCHANGED <<vm, row>>
  BY DEF KickDies, KickPC, WorkflowPC
<1> QED BY <1>1, WorkflowGoesOn

-----------------------------------------------------------------------------
(* evaluateSandboxLifecycle                                                 *)

LEMMA EvaluateMoves ==
  ASSUME Inv, NEW p \in Proc, Evaluate(p)
  PROVE  Moves(p)
<1>1. proc[p].pc = "evaluate" /\ UNCHANGED <<vm, row, faults>> /\ vm' \in VmRec
  BY Types DEF Evaluate
<1>2. CASE Return(p, FALSE) \/ Return(p, TRUE)
  <2>1. Steps(p) /\ (Holding(proc[p]) => Holding(proc'[p]))
    BY <1>1, <1>2, ReturnMoves
  <2> QED BY <1>1, <2>1, RowUnmoved DEF Moves, Steps
<1>3. CASE Forget(p, "archConnect")
  <2>1. /\ "archConnect" \in PC /\ KindFits(proc[p].kind, "archConnect")
        /\ "archConnect" \notin LookPC \cup {"stream3", "stop"} /\ "archConnect" \in OffStream
    BY DEF PC, EvalPC, StopPC, KindFits, WorkflowPC, RequestOnlyPC, LookPC, OffStream
  <2>2. Steps(p) /\ proc'[p].kind = proc[p].kind /\ proc'[p].pc = "archConnect"
    BY <1>1, <1>3, <2>1, ForgetMoves
  <2>3. Holding(proc[p]) => Holding(proc'[p])
    BY <2>2 DEF Holding
  <2> QED BY <1>1, <2>2, <2>3, RowUnmoved DEF Moves, Steps
<1>4. CASE /\ Due
           /\ proc' = [proc EXCEPT ![p] = [Blank(@.kind, "stream1") EXCEPT
                         !.timer = row.timer, !.rexp = row.rexp, !.hexp = row.hexp]]
  <2> DEFINE b == Blank(proc[p].kind, "stream1")
             r == [b EXCEPT !.timer = row.timer, !.rexp = row.rexp, !.hexp = row.hexp]
  <2>t. proc \in [Proc -> ProcRec(PC)] /\ row \in RowRec /\ row.hexp <= vm.life
    BY Types DEF Inv, RowOK
  <2>1. proc' = [proc EXCEPT ![p] = r]
    BY <1>4
  <2>2. b \in ProcRec(PC) /\ b.kind = proc[p].kind /\ b.pc = "stream1" /\ ~b.spare
    <3>1. proc[p].kind \in Kind /\ "stream1" \in PC
      BY <2>t DEF ProcRec, PC, EvalPC
    <3> QED BY <3>1, BlankType
  <2> HIDE DEF b
  <2>3. /\ r \in ProcRec(PC) /\ r.kind = b.kind /\ r.pc = b.pc
        /\ r.timer = row.timer /\ r.rexp = row.rexp /\ r.hexp = row.hexp /\ r.spare = b.spare
    BY <2>2, <2>t DEF ProcRec, RowRec
  <2> HIDE DEF r
  <2>4. ProcMoves(p) /\ proc'[p] = r
    BY <2>1, <2>3, PutMoves
  <2>5. RecordFits(p)
    BY <2>2, <2>3, <2>4, <2>t, <1>1
       DEF RecordFits, KindFits, WorkflowPC, RequestOnlyPC, TimerPC
  <2>6. StaysOver(p)
    BY <2>2, <2>3, <2>4 DEF StaysOver, OffStream
  <2>7. LooksOn(p)
    <3>1. CASE row.idle
      BY <1>1, <2>2, <2>3, <2>4, <3>1 DEF LooksOn
    <3>2. CASE Past(row.rexp)
      BY <1>1, <2>2, <2>3, <2>4, <3>2 DEF LooksOn, Past
    <3> QED BY <1>4, <3>1, <3>2 DEF Due
  <2>8. Holding(proc[p]) => Holding(proc'[p])
    BY <2>2, <2>3, <2>4 DEF Holding
  <2> QED BY <1>1, <2>4, <2>5, <2>6, <2>7, <2>8, RowUnmoved DEF Moves
<1> QED BY <1>1, <1>2, <1>3, <1>4 DEF Evaluate

LEMMA FirstCheckMoves ==
  ASSUME Inv, NEW p \in Proc, FirstCheck(p)
  PROVE  Moves(p)
<1>1. /\ proc[p].pc = "stream1" /\ UNCHANGED <<vm, row, faults>> /\ vm' \in VmRec
      /\ GoTo(p, "mark") \/ Return(p, TRUE)
  BY Types DEF FirstCheck
<1>2. Steps(p) /\ (Holding(proc[p]) => Holding(proc'[p]))
  BY <1>1, LookGoTo, ReturnMoves
<1> QED BY <1>1, <1>2, RowUnmoved DEF Moves, Steps

LEMMA MarkMoves ==
  ASSUME Inv, NEW p \in Proc, Mark(p)
  PROVE  Moves(p)
<1>1. /\ proc[p].pc = "mark" /\ UNCHANGED <<vm, faults>> /\ GoTo(p, "attach")
      /\ row' = [row EXCEPT !.lc = "hibernating"]
  BY DEF Mark
<1>2. row'.timer = row.timer /\ row'.idle = row.idle
  BY <1>1, Types DEF RowRec
<1>3. Steps(p) /\ (Holding(proc[p]) => Holding(proc'[p]))
  BY <1>1, <1>2, LookGoTo
<1>4. RowMoves(p)
  <2>1. "hibernating" \in LifecycleState /\ 0 \in Life /\ row'.lease = row.lease
    BY <1>1, Types, SessionParams DEF LifecycleState, Life, RowRec
  <2> QED BY <1>1, <1>3, <2>1, ColumnWrite
<1> QED BY <1>3, <1>4 DEF Moves, Steps

\* What a failing call leads to.
LEMMA EvaluationGoesOn ==
  ASSUME Inv, NEW p \in Proc,
         proc[p].pc \in {"attach", "stream2", "stream3", "stop", "archConnect", "archStop"},
         NEW pc \in {"evalFail", "restore", "hibernate", "archClear", "archFail"},
         GoTo(p, pc), UNCHANGED <<vm, row>>, UNCHANGED faults \/ Fault,
         proc[p].pc \in TimerPC => pc \in TimerPC
  PROVE  Moves(p)
<1>1. vm' \in VmRec /\ vm.life <= vm'.life
  BY Types DEF VmRec, Life
<1>2. Steps(p) /\ (Holding(proc[p]) => Holding(proc'[p]))
  BY <1>1, EvaluationGoTo
<1> QED BY <1>2, RowUnmoved DEF Moves, Steps

LEMMA ConnectMoves ==
  ASSUME Inv, NEW p \in Proc, Connect(p)
  PROVE  Moves(p)
<1>1. proc[p].pc = "attach" /\ UNCHANGED <<vm, row>>
  BY DEF Connect
<1>2. CASE GoTo(p, "evalFail") /\ Fault
  <2>1. "evalFail" \in TimerPC
    BY DEF TimerPC
  <2> QED BY <1>1, <1>2, <2>1, EvaluationGoesOn
<1>3. CASE proc' = [proc EXCEPT ![p].pc = "stream2", ![p].on = vm.on] /\ UNCHANGED faults
  <2> DEFINE r == [proc[p] EXCEPT !.pc = "stream2", !.on = vm.on]
  <2>t. proc \in [Proc -> ProcRec(PC)] /\ proc[p] \in ProcRec(PC) /\ vm \in VmRec /\ ~proc[p].spare
    BY Types DEF Inv, ProcsOK
  <2>1. proc' = [proc EXCEPT ![p] = r]
    BY <1>3, <2>t DEF ProcRec
  <2>2. /\ r \in ProcRec(PC) /\ r.kind = proc[p].kind /\ r.pc = "stream2"
        /\ r.timer = proc[p].timer /\ r.rexp = proc[p].rexp /\ r.hexp = proc[p].hexp
        /\ r.spare = proc[p].spare
    BY <2>t DEF ProcRec, VmRec, PC, EvalPC, StopPC
  <2> HIDE DEF r
  <2>3. Steps(p) /\ (Holding(proc[p]) => Holding(proc'[p]))
    BY <1>1, <2>1, <2>2, <2>t, LookOn
  <2> QED BY <1>1, <1>3, <2>3, RowUnmoved DEF Moves, Steps
<1> QED BY <1>2, <1>3 DEF Connect

LEMMA SecondCheckMoves ==
  ASSUME Inv, NEW p \in Proc, SecondCheck(p)
  PROVE  Moves(p)
<1>1. /\ proc[p].pc = "stream2" /\ UNCHANGED <<vm, row, faults>>
      /\ GoTo(p, "recheck") \/ GoTo(p, "restore")
  BY DEF SecondCheck
<1>2. CASE GoTo(p, "recheck")
  <2>1. Steps(p) /\ (Holding(proc[p]) => Holding(proc'[p]))
    BY <1>1, <1>2, LookGoTo
  <2> QED BY <1>1, <2>1, RowUnmoved DEF Moves, Steps
<1>3. CASE GoTo(p, "restore")
  <2>1. "restore" \in TimerPC
    BY DEF TimerPC
  <2> QED BY <1>1, <1>3, <2>1, EvaluationGoesOn
<1> QED BY <1>1, <1>2, <1>3

\* Timers that are as they were are due as they were, so nothing fresh is passed over.
LEMMA RecheckMoves ==
  ASSUME Inv, NEW p \in Proc, Recheck(p)
  PROVE  Moves(p)
<1> DEFINE changed == row.timer # proc[p].timer \/ row.rexp # proc[p].rexp
           refreshed == Operable /\ changed /\ ~Due
           spare == ~refreshed /\ Operable /\ ~Due
           pc == IF refreshed THEN "restore" ELSE "stream3"
           b == Blank(proc[p].kind, pc)
           h == IF refreshed THEN row.hexp ELSE proc[p].hexp
           rivals == IF refreshed THEN {} ELSE Streams
           r == [b EXCEPT !.hexp = h, !.on = proc[p].on, !.spare = spare, !.rivals = rivals]
<1>t. /\ proc \in [Proc -> ProcRec(PC)] /\ proc[p] \in ProcRec(PC)
      /\ row \in RowRec /\ row.hexp <= vm.life /\ proc[p].hexp <= vm.life
  BY Types DEF Inv, RowOK, ProcsOK
<1>1. /\ proc[p].pc = "recheck" /\ UNCHANGED <<vm, row, faults>>
      /\ proc' = [proc EXCEPT ![p] = r]
  BY Zenon DEF Recheck, RecheckWhen
<1>2. ~spare
  <2>1. SUFFICES ASSUME ~changed, ~Due
                 PROVE  FALSE
    OBVIOUS
  <2>2. proc[p].pc \in LookPC /\ proc[p].timer = row.timer /\ proc[p].rexp = row.rexp
    BY <1>1, <2>1 DEF LookPC
  <2>3. row.idle \/ Past(proc[p].rexp)
    BY <2>2, Zenon DEF Inv, FreshOK
  <2>4. row.idle \/ Past(row.rexp)
    BY <2>2, <2>3
  <2> QED BY <2>1, <2>4 DEF Due
<1>3. b \in ProcRec(PC) /\ b.kind = proc[p].kind /\ b.pc = pc /\ b.timer = 0
  <2>1. proc[p].kind \in Kind /\ pc \in PC
    BY <1>t DEF ProcRec, PC, EvalPC, StopPC
  <2> QED BY <2>1, BlankType
<1>4. /\ pc \in {"restore", "stream3"} /\ h \in Life /\ h <= vm.life
      /\ rivals \subseteq Streams /\ rivals \in SUBSET Proc /\ spare \in BOOLEAN
  BY <1>3, <1>t DEF ProcRec, RowRec, Streams
<1> HIDE DEF b, pc, h, rivals, spare, changed
<1>5. /\ r \in ProcRec(PC) /\ r.kind = proc[p].kind /\ r.pc = pc /\ r.timer = 0
      /\ r.hexp = h /\ r.spare = spare /\ r.rivals = rivals
  BY <1>3, <1>4, <1>t DEF ProcRec
<1> HIDE DEF r
<1>6. ProcMoves(p) /\ proc'[p] = r
  BY <1>1, <1>5, PutMoves
<1>7. RecordFits(p)
  BY <1>1, <1>2, <1>4, <1>5, <1>6 DEF RecordFits, KindFits, WorkflowPC, RequestOnlyPC
<1>8. StaysOver(p)
  BY <1>4, <1>5, <1>6 DEF StaysOver, OffStream
<1>9. LooksOn(p)
  BY <1>4, <1>5, <1>6 DEF LooksOn, LookPC
<1>10. Holding(proc[p]) => Holding(proc'[p])
  BY <1>4, <1>5, <1>6 DEF Holding
<1> QED BY <1>1, <1>6, <1>7, <1>8, <1>9, <1>10, RowUnmoved DEF Moves

LEMMA FinalCheckMoves ==
  ASSUME Inv, NEW p \in Proc, FinalCheck(p)
  PROVE  Moves(p)
<1>1. proc[p].pc = "stream3" /\ UNCHANGED <<vm, row, faults>> /\ proc[p].pc \notin TimerPC
  BY DEF FinalCheck, TimerPC
<1>2. CASE Streams # {}
  <2>1. GoTo(p, "restore")
    BY <1>2 DEF FinalCheck
  <2> QED BY <1>1, <2>1, EvaluationGoesOn
<1>3. CASE Streams = {}
  <2>1. GoTo(p, "stop") /\ "stop" \in PC
    BY <1>3 DEF FinalCheck, PC, EvalPC, StopPC
  <2>2. PICK r \in ProcRec(PC) :
          /\ proc' = [proc EXCEPT ![p] = r]
          /\ r.kind = proc[p].kind /\ r.pc = "stop" /\ ~r.spare
          /\ r.hexp <= vm.life /\ r.timer \in {0, proc[p].timer}
          /\ r = [proc[p] EXCEPT !.pc = "stop"]
    BY <2>1, GoToRecord
  <2>3. r.rivals = proc[p].rivals
    BY <2>2, Types DEF ProcRec
  <2>4. r.timer = 0
    BY <1>1, <2>2 DEF Inv, ProcsOK
  <2>5. ProcMoves(p) /\ proc'[p] = r
    BY <2>2, PutMoves
  <2>6. RecordFits(p)
    BY <1>1, <2>2, <2>4, <2>5 DEF RecordFits, KindFits, WorkflowPC, RequestOnlyPC
  <2>7. StaysOver(p) /\ LooksOn(p)
    BY <1>1, <1>3, <2>2, <2>3, <2>5 DEF StaysOver, OffStream, LooksOn, LookPC
  <2>8. Holding(proc[p]) => Holding(proc'[p])
    BY <2>2, <2>5 DEF Holding
  <2> QED BY <1>1, <2>5, <2>6, <2>7, <2>8, RowUnmoved DEF Moves
<1> QED BY <1>2, <1>3

\* An evaluation writes a column of the row and returns.
LEMMA WriteAndReturn ==
  ASSUME Inv, NEW p \in Proc, NEW again \in BOOLEAN, Return(p, again),
         proc[p].pc \notin {"new", "done", "kick", "unstale", "claim"}, UNCHANGED <<vm, faults>>,
         NEW s \in LifecycleState, NEW e \in Life,
         \/ row' = [row EXCEPT !.lc = s]
         \/ row' = [row EXCEPT !.lc = s, !.lease = NoLease]
         \/ row' = [row EXCEPT !.lc = s, !.rexp = e]
  PROVE  Moves(p)
<1>1. Steps(p) /\ (Holding(proc[p]) => Holding(proc'[p]))
  BY Types, ReturnMoves
<1>2. row'.lease \in {row.lease, NoLease}
  BY Types DEF RowRec
<1>3. ~(row'.lease = p /\ row.lease # p)
  BY <1>2, ProcNotZero
<1>4. RowMoves(p)
  BY <1>1, <1>3, ColumnWrite
<1> QED BY <1>1, <1>4 DEF Moves, Steps

LEMMA RestoreMoves ==
  ASSUME Inv, NEW p \in Proc, Restore(p)
  PROVE  Moves(p)
<1>1. /\ proc[p].pc = "restore" /\ UNCHANGED <<vm, faults>> /\ Return(p, TRUE)
      /\ row' = [row EXCEPT !.lc = "active", !.rexp = proc[p].hexp]
  BY DEF Restore
<1>2. "active" \in LifecycleState /\ proc[p].hexp \in Life
  BY Types DEF LifecycleState, ProcRec
<1> QED BY <1>1, <1>2, WriteAndReturn

LEMMA EvaluationFailsMoves ==
  ASSUME Inv, NEW p \in Proc, EvaluationFails(p)
  PROVE  Moves(p)
<1>1. /\ proc[p].pc = "evalFail" /\ UNCHANGED <<vm, faults>> /\ Return(p, FALSE)
      /\ row' = [row EXCEPT !.lc = "failed", !.lease = NoLease]
  BY DEF EvaluationFails
<1>2. "failed" \in LifecycleState /\ 0 \in Life
  BY SessionParams DEF LifecycleState, Life
<1> QED BY <1>1, <1>2, WriteAndReturn

\* A step on the machine, which may stop it.
LEMMA MachineMoves ==
  ASSUME Inv, NEW p \in Proc, UNCHANGED row, UNCHANGED faults,
         vm' \in VmRec, vm'.past = vm.past, vm.life <= vm'.life,
         Holding(proc[p]) => Holding(proc'[p])
  PROVE  RowMoves(p)
<1>1. /\ faults \in Nat /\ vm.life \in Nat /\ vm'.life \in Nat /\ vm.past \in Nat
      /\ row.hexp \in Nat
  BY Types DEF VmRec, RowRec, Life
<1>2. row.lease = p => faults # 0 \/ Holding(proc'[p])
  BY ProcNotZero DEF Inv, LeaseOK
<1>3. vm'.past <= vm'.life /\ row.hexp <= vm'.life
  BY <1>1 DEF Inv, RowOK
<1> QED BY <1>1, <1>2, <1>3 DEF RowMoves, Inv, RowOK, Operable

LEMMA StopMachineType ==
  ASSUME Inv, NEW p \in Proc, StopMachine(p)
  PROVE  vm' \in VmRec /\ vm'.past = vm.past /\ vm'.life = vm.life /\ vm.life <= vm'.life
<1>1. vm \in VmRec /\ vm.life \in Nat
  BY Types DEF VmRec, Life
<1>2. CASE vm' = [vm EXCEPT !.on = FALSE]
  <2>1. vm' \in VmRec /\ vm'.past = vm.past /\ vm'.life = vm.life
    BY <1>1, <1>2 DEF VmRec
  <2> QED BY <1>1, <2>1
<1>3. CASE vm' = vm
  BY <1>1, <1>3
<1> QED BY <1>2, <1>3 DEF StopMachine

LEMMA StopMoves ==
  ASSUME Inv, NEW p \in Proc, Stop(p) \/ ArchStop(p)
  PROVE  Moves(p)
<1>1. /\ proc[p].pc \in {"stop", "archStop"} /\ UNCHANGED row /\ proc[p].pc \notin TimerPC
      /\ \/ /\ StopMachine(p) /\ UNCHANGED faults
            /\ GoTo(p, "hibernate") \/ GoTo(p, "archClear")
         \/ /\ Fault /\ UNCHANGED vm
            /\ GoTo(p, "evalFail") \/ GoTo(p, "archFail")
  BY DEF Stop, ArchStop, TimerPC
<1>2. CASE StopMachine(p) /\ UNCHANGED faults /\ (GoTo(p, "hibernate") \/ GoTo(p, "archClear"))
  <2>1. Steps(p) /\ (Holding(proc[p]) => Holding(proc'[p]))
    BY <1>1, <1>2, StopMachineType, EvaluationGoTo
  <2> QED BY <1>1, <1>2, <2>1, StopMachineType, MachineMoves DEF Moves, Steps
<1>3. CASE Fault /\ UNCHANGED vm /\ (GoTo(p, "evalFail") \/ GoTo(p, "archFail"))
  BY <1>1, <1>3, EvaluationGoesOn
<1> QED BY <1>1, <1>2, <1>3

LEMMA HibernateMoves ==
  ASSUME Inv, NEW p \in Proc, Hibernate(p) \/ ArchClear(p)
  PROVE  Moves(p)
<1>1. /\ proc[p].pc \in {"hibernate", "archClear"} /\ UNCHANGED <<vm, faults>> /\ Return(p, FALSE)
      /\ row' \in {SetHibernated(row), [Clear(row) EXCEPT !.lc = "archived"]}
  BY DEF Hibernate, ArchClear
<1>2. proc[p].timer = 0
  BY <1>1 DEF Inv, ProcsOK, TimerPC
<1>3. NewTimer \in Timer
  BY <1>2, NewTimerExists
<1>4. /\ row' \in RowRec /\ row'.hexp = 0 /\ row'.handle = "paused" /\ row'.timer = NewTimer
      /\ row'.lease \in {row.lease, NoLease}
  BY <1>1, <1>3, Types, ClearType
<1>5. Steps(p) /\ (Holding(proc[p]) => Holding(proc'[p]))
  BY <1>1, Types, ReturnMoves
<1>6. RowMoves(p)
  <2>1. 0 <= vm.life
    BY Types DEF VmRec, Life
  <2> QED BY <1>1, <1>2, <1>4, <1>5, <2>1, TimersMove
<1> QED BY <1>5, <1>6 DEF Moves, Steps

LEMMA ArchConnectMoves ==
  ASSUME Inv, NEW p \in Proc, ArchConnect(p)
  PROVE  Moves(p)
<1>1. proc[p].pc = "archConnect" /\ UNCHANGED <<vm, row>> /\ proc[p].pc \notin TimerPC
  BY DEF ArchConnect, TimerPC
<1>2. CASE GoTo(p, "archFail") /\ Fault
  BY <1>1, <1>2, EvaluationGoesOn
<1>3. CASE proc' = [proc EXCEPT ![p].pc = "archStop", ![p].on = vm.on] /\ UNCHANGED faults
  <2> DEFINE r == [proc[p] EXCEPT !.pc = "archStop", !.on = vm.on]
  <2>t. /\ proc \in [Proc -> ProcRec(PC)] /\ proc[p] \in ProcRec(PC) /\ vm \in VmRec
        /\ ~proc[p].spare /\ proc[p].timer = 0 /\ proc[p].hexp <= vm.life
    BY <1>1, Types DEF Inv, ProcsOK
  <2>1. proc' = [proc EXCEPT ![p] = r]
    BY <1>3, <2>t DEF ProcRec
  <2>2. /\ r \in ProcRec(PC) /\ r.kind = proc[p].kind /\ r.pc = "archStop"
        /\ r.timer = proc[p].timer /\ r.hexp = proc[p].hexp /\ r.spare = proc[p].spare
    BY <2>t DEF ProcRec, VmRec, PC, EvalPC, StopPC
  <2> HIDE DEF r
  <2>3. KindFits(r.kind, r.pc) /\ r.pc \notin LookPC \cup {"stream3", "stop"} /\ r.pc \in OffStream
    BY <2>2 DEF KindFits, WorkflowPC, RequestOnlyPC, LookPC, OffStream
  <2>4. r.hexp <= vm'.life /\ r.timer = 0 /\ ~r.spare /\ r.pc # "new"
    BY <1>1, <2>2, <2>t
  <2>5. Steps(p) /\ proc'[p] = r
    BY <2>1, <2>2, <2>3, <2>4, PlainMoves
  <2>6. Holding(proc[p]) => Holding(proc'[p])
    BY <2>2, <2>5 DEF Holding
  <2> QED BY <1>1, <1>3, <2>5, <2>6, RowUnmoved DEF Moves, Steps
<1> QED BY <1>2, <1>3 DEF ArchConnect

LEMMA ArchFailMoves ==
  ASSUME Inv, NEW p \in Proc, ArchFail(p)
  PROVE  Moves(p)
<1>1. proc[p].pc = "archFail" /\ UNCHANGED <<vm, faults>> /\ proc[p].pc \notin TimerPC
  BY DEF ArchFail, TimerPC
<1>2. CASE proc[p].kind = "archive"
  <2>1. UNCHANGED row /\ (GoTo(p, "archFailWrite") \/ GoTo(p, "done"))
    BY <1>2 DEF ArchFail
  <2>2. /\ {"archFailWrite", "done"} \subseteq PC
        /\ {"archFailWrite", "done"} \cap (LookPC \cup {"stream3", "stop"}) = {}
        /\ KindFits("archive", "archFailWrite") /\ KindFits("archive", "done")
        /\ "archive" \notin ChatKind
    BY DEF PC, RequestPC, EvalPC, StopPC, LookPC, KindFits, WorkflowPC, ChatKind
  <2>3. Steps(p)
    BY <1>1, <1>2, <2>1, <2>2, Types, GoToMoves DEF VmRec, Life
  <2>4. ~Holding(proc[p])
    BY <1>2 DEF Holding
  <2> QED BY <1>1, <2>1, <2>3, <2>4, RowUnmoved DEF Moves, Steps
<1>3. CASE proc[p].kind # "archive"
  <2>1. row' = [row EXCEPT !.lc = "archived"] /\ Return(p, TRUE)
    BY <1>3 DEF ArchFail
  <2>2. "archived" \in LifecycleState /\ 0 \in Life
    BY SessionParams DEF LifecycleState, Life
  <2> QED BY <1>1, <2>1, <2>2, WriteAndReturn
<1> QED BY <1>2, <1>3

\* A request writes the timers of the row and is over.
LEMMA WriteTimers ==
  ASSUME Inv, NEW p \in Proc, proc[p].pc \in RequestOnlyPC, Steps(p),
         UNCHANGED <<vm, faults>>, row' \in RowRec, row'.timer = NewTimer,
         row'.hexp <= vm.life, row'.handle = "live" <=> row'.hexp # 0,
         row'.lease \in {row.lease, NoLease}
  PROVE  Moves(p)
<1>1. proc[p].timer = 0 /\ ~Holding(proc[p])
  BY DEF Inv, ProcsOK, KindFits, RequestOnlyPC, TimerPC, Holding
<1> QED BY <1>1, TimersMove DEF Moves, Steps

LEMMA RequestTimer ==
  ASSUME Inv, NEW p \in Proc, proc[p].pc \in RequestOnlyPC
  PROVE  NewTimer \in Timer /\ proc[p].kind # "lifecycle"
<1>1. proc[p].timer = 0 /\ proc[p].kind # "lifecycle"
  BY DEF Inv, ProcsOK, KindFits, RequestOnlyPC, TimerPC
<1> QED BY <1>1, NewTimerExists

LEMMA ArchFailWriteMoves ==
  ASSUME Inv, NEW p \in Proc, ArchFailWrite(p)
  PROVE  Moves(p)
<1>1. /\ proc[p].pc = "archFailWrite" /\ UNCHANGED <<vm, faults>> /\ GoTo(p, "done")
      /\ row' = SetArchived(row) /\ proc[p].pc \in RequestOnlyPC /\ proc[p].pc # "force"
  BY DEF ArchFailWrite, RequestOnlyPC
<1>2. NewTimer \in Timer /\ proc[p].kind # "lifecycle"
  BY <1>1, RequestTimer
<1>3. /\ row' \in RowRec /\ row'.hexp = row.hexp /\ row'.handle = row.handle
      /\ row'.timer = NewTimer /\ row'.lease = row.lease
  BY <1>1, <1>2, Types, SetArchivedType
<1>4. row.hexp <= vm.life /\ (row.handle = "live" <=> row.hexp # 0)
  BY DEF Inv, RowOK, Operable
<1>5. vm' \in VmRec /\ vm.life <= vm'.life
  BY <1>1, Types DEF VmRec, Life
<1>6. Steps(p)
  BY <1>1, <1>2, <1>5, RequestGoTo
<1> QED BY <1>1, <1>3, <1>4, <1>6, WriteTimers

LEMMA EvaluationStepMoves ==
  ASSUME Inv, NEW p \in Proc, EvaluationStep(p)
  PROVE  Moves(p)
  BY EvaluateMoves, FirstCheckMoves, MarkMoves, ConnectMoves, SecondCheckMoves, RecheckMoves,
     FinalCheckMoves, RestoreMoves, StopMoves, HibernateMoves, EvaluationFailsMoves,
     ArchConnectMoves, ArchFailMoves, ArchFailWriteMoves DEF EvaluationStep

-----------------------------------------------------------------------------
(* Requests that provision                                                  *)

\* A request that goes on, with the row as it was.
LEMMA RequestGoesOn ==
  ASSUME Inv, NEW p \in Proc, proc[p].pc \in RequestOnlyPC \cup {"new"},
         proc[p].kind # "lifecycle", proc[p].pc # "force",
         NEW pc \in RequestOnlyPC \cup {"done"}, GoTo(p, pc),
         UNCHANGED <<vm, row>>, UNCHANGED faults \/ Fault,
         proc[p].pc = "archFailWrite" => pc = "done"
  PROVE  Moves(p)
<1>1. vm' \in VmRec /\ vm.life <= vm'.life
  BY Types DEF VmRec, Life
<1>2. Steps(p) /\ ~Holding(proc[p])
  BY <1>1, RequestGoTo
<1> QED BY <1>2, RowUnmoved DEF Moves, Steps

\* A request that remembers something new, with the row as it was.
LEMMA RequestPuts ==
  ASSUME Inv, NEW p \in Proc, proc[p].pc \in RequestOnlyPC \cup {"new"},
         proc[p].kind # "lifecycle", proc[p].pc # "force", proc[p].pc # "archFailWrite",
         NEW r \in ProcRec(PC), proc' = [proc EXCEPT ![p] = r] \/ LeaveKick(p, r),
         r.kind = proc[p].kind, r.pc \in RequestOnlyPC \cup {"done"}, r.timer = 0, ~r.spare,
         vm' \in VmRec, r.hexp <= vm'.life
  PROVE  Steps(p) /\ ~Holding(proc[p])
<1>1. /\ r.pc \notin LookPC \cup {"stream3", "stop"} /\ r.pc # "new"
      /\ KindFits(r.kind, r.pc)
  BY DEF RequestOnlyPC, LookPC, KindFits, WorkflowPC
<1>2. proc[p].pc \notin OffStream
  BY DEF RequestOnlyPC, OffStream
<1>3. ~Holding(proc[p])
  BY DEF Holding
<1>4. Steps(p)
  BY <1>1, <1>2, PlainMoves
<1> QED BY <1>3, <1>4

\* Remember notes the expiry and whether the lifecycle has failed.
LEMMA RememberMoves ==
  ASSUME Inv, NEW p \in Proc, proc[p].pc \in {"new", "read"}, proc[p].kind # "lifecycle",
         NEW pc \in {"connect", "write"}, Remember(p, pc), UNCHANGED <<vm, row, faults>>
  PROVE  Moves(p)
<1> DEFINE b == row.lc = "failed"
           r == [proc[p] EXCEPT !.pc = pc, !.hexp = row.hexp, !.note = b]
<1>t. /\ proc \in [Proc -> ProcRec(PC)] /\ proc[p] \in ProcRec(PC) /\ row \in RowRec
      /\ ~proc[p].spare /\ proc[p].timer = 0 /\ row.hexp <= vm.life
  BY Types DEF Inv, ProcsOK, RowOK, TimerPC
<1>1. proc' = [proc EXCEPT ![p] = r]
  BY <1>t DEF Remember, ProcRec
<1> HIDE DEF b
<1>2. /\ r \in ProcRec(PC) /\ r.kind = proc[p].kind /\ r.pc = pc
      /\ r.timer = proc[p].timer /\ r.hexp = row.hexp /\ r.spare = proc[p].spare
  <2>1. b \in BOOLEAN /\ pc \in PC
    BY DEF b, PC, RequestPC
  <2> QED BY <1>t, <2>1 DEF ProcRec, RowRec
<1> HIDE DEF r
<1>3. r.pc \in RequestOnlyPC /\ proc[p].pc \in RequestOnlyPC \cup {"new"}
  BY <1>2 DEF RequestOnlyPC
<1>4. vm' \in VmRec /\ r.hexp <= vm'.life /\ r.timer = 0 /\ ~r.spare
  BY <1>t, <1>2, Types
<1>5. Steps(p) /\ ~Holding(proc[p])
  BY <1>1, <1>2, <1>3, <1>4, RequestPuts
<1> QED BY <1>5, RowUnmoved DEF Moves, Steps

LEMMA ChatKindNot == "lifecycle" \notin Provisioners /\ "lifecycle" \notin ChatKind /\ "lifecycle" \notin Stoppers
  BY DEF Provisioners, ChatKind, Stoppers

LEMMA ClaimStreamMoves ==
  ASSUME Inv, NEW p \in Proc, ClaimStream(p)
  PROVE  Moves(p)
<1>1. /\ proc[p].pc = "new" /\ proc[p].kind # "lifecycle" /\ GoTo(p, "read")
      /\ UNCHANGED <<vm, row, faults>> /\ "read" \in RequestOnlyPC \cup {"done"}
  BY ChatKindNot DEF ClaimStream, RequestOnlyPC
<1> QED BY <1>1, RequestGoesOn

\* Giving up: a turn goes through its finally.
LEMMA GiveUpGoTo ==
  ASSUME NEW p \in Proc, GiveUp(p)
  PROVE  \E pc \in RequestOnlyPC \cup {"done"} : pc \in {"final", "done"} /\ GoTo(p, pc)
<1>1. {"final", "done"} \subseteq RequestOnlyPC \cup {"done"}
  BY DEF RequestOnlyPC
<1>2. GoTo(p, "final") \/ GoTo(p, "done")
  BY DEF GiveUp
<1> QED BY <1>1, <1>2

LEMMA ReadToProvisionMoves ==
  ASSUME Inv, NEW p \in Proc, ReadToProvision(p)
  PROVE  Moves(p)
<1>1. /\ proc[p].pc \in {"new", "read"} /\ proc[p].kind # "lifecycle"
      /\ UNCHANGED <<vm, row, faults>>
      /\ Remember(p, "connect") \/ GiveUp(p)
  BY ChatKindNot DEF ReadToProvision
<1>2. CASE Remember(p, "connect")
  BY <1>1, <1>2, RememberMoves
<1>3. CASE GiveUp(p)
  <2>1. PICK pc \in RequestOnlyPC \cup {"done"} : GoTo(p, pc)
    BY <1>3, GiveUpGoTo
  <2>2. proc[p].pc \in RequestOnlyPC \cup {"new"} /\ proc[p].pc # "force" /\ proc[p].pc # "archFailWrite"
    BY <1>1 DEF RequestOnlyPC
  <2> QED BY <1>1, <2>1, <2>2, RequestGoesOn
<1> QED BY <1>1, <1>2, <1>3

LEMMA ReportedType ==
  ASSUME Inv, NEW known \in Life, known <= vm.life, NEW m \in VmRec, vm.life <= m.life
  PROVE  Reported(known, m) \in Life /\ Reported(known, m) <= m.life
<1>1. /\ 0 \in Life /\ m.life \in Life /\ m.life \in Nat /\ known \in Nat /\ vm.life \in Nat
  BY SessionParams, Types DEF VmRec, Life
<1> QED BY <1>1 DEF Reported

LEMMA ProvisionMoves ==
  ASSUME Inv, NEW p \in Proc, Provision(p)
  PROVE  Moves(p)
<1>1. /\ proc[p].pc = "connect" /\ proc[p].kind # "lifecycle" /\ UNCHANGED row
      /\ proc[p].pc \in RequestOnlyPC \cup {"new"}
  BY ChatKindNot DEF Provision, RequestOnlyPC
<1>t. /\ proc \in [Proc -> ProcRec(PC)] /\ proc[p] \in ProcRec(PC) /\ vm \in VmRec
      /\ ~proc[p].spare /\ proc[p].timer = 0 /\ proc[p].hexp <= vm.life
      /\ MaxLives \in Nat \ {0} /\ vm.life \in Nat /\ proc[p].hexp \in Life /\ 0 \in Life
  BY <1>1, Types, SessionParams DEF Inv, ProcsOK, TimerPC, VmRec, ProcRec, Life
<1>2. CASE GiveUp(p) /\ (Fault \/ NoMoreLives) /\ UNCHANGED vm
  <2>1. PICK pc \in RequestOnlyPC \cup {"done"} : GoTo(p, pc)
    BY <1>2, GiveUpGoTo
  <2>2. UNCHANGED faults \/ Fault
    BY <1>2 DEF NoMoreLives
  <2> QED BY <1>1, <1>2, <2>1, <2>2, RequestGoesOn
<1>3. CASE /\ vm.on \/ vm.life < MaxLives
           /\ vm' = PowerOn(vm)
           /\ LET known == IF proc[p].kind \in {"create", "resume"} THEN 0 ELSE proc[p].hexp
              IN  proc' = [proc EXCEPT ![p].pc = "write", ![p].on = TRUE,
                                       ![p].hexp = Reported(known, vm')]
           /\ UNCHANGED faults
  <2> DEFINE known == IF proc[p].kind \in {"create", "resume"} THEN 0 ELSE proc[p].hexp
             h == Reported(known, vm')
             r == [proc[p] EXCEPT !.pc = "write", !.on = TRUE, !.hexp = h]
  <2>1. vm' \in VmRec /\ vm'.past = vm.past /\ vm.life <= vm'.life
    <3>1. CASE vm.on
      BY <1>t, <1>3, <3>1 DEF PowerOn
    <3>2. CASE ~vm.on
      <4>1. vm' = [vm EXCEPT !.on = TRUE, !.life = vm.life + 1] /\ vm.life + 1 \in Life
        BY <1>t, <1>3, <3>2 DEF PowerOn, Life
      <4>2. vm' \in VmRec /\ vm'.past = vm.past /\ vm'.life = vm.life + 1
        BY <1>t, <4>1 DEF VmRec
      <4> QED BY <1>t, <4>2
    <3> QED BY <3>1, <3>2
  <2>2. known \in Life /\ known <= vm.life
    BY <1>t
  <2>3. h \in Life /\ h <= vm'.life
    BY <2>1, <2>2, ReportedType
  <2>4. proc' = [proc EXCEPT ![p] = r]
    BY <1>3, <1>t DEF ProcRec
  <2> HIDE DEF h
  <2>5. /\ r \in ProcRec(PC) /\ r.kind = proc[p].kind /\ r.pc = "write"
        /\ r.timer = proc[p].timer /\ r.hexp = h /\ r.spare = proc[p].spare
    BY <1>t, <2>3 DEF ProcRec, PC, RequestPC
  <2> HIDE DEF r
  <2>6. r.pc \in RequestOnlyPC
    BY <2>5 DEF RequestOnlyPC
  <2>7. Steps(p) /\ ~Holding(proc[p])
    BY <1>1, <1>t, <2>1, <2>3, <2>4, <2>5, <2>6, RequestPuts
  <2> QED BY <1>1, <1>3, <2>1, <2>7, MachineMoves DEF Moves, Steps
<1> QED BY <1>2, <1>3 DEF Provision

LEMMA ReleaseUnusableMoves ==
  ASSUME Inv, NEW p \in Proc, ReleaseUnusable(p)
  PROVE  Moves(p)
<1>1. /\ proc[p].pc = "write" /\ proc[p].kind # "lifecycle" /\ UNCHANGED <<row, faults>>
      /\ proc[p].pc \in RequestOnlyPC \cup {"new"} /\ GoTo(p, "done")
      /\ vm' = [vm EXCEPT !.on = FALSE]
  BY DEF ReleaseUnusable, RequestOnlyPC
<1>2. vm' \in VmRec /\ vm'.past = vm.past /\ vm'.life = vm.life
  BY <1>1, Types DEF VmRec
<1>3. vm.life <= vm'.life
  BY <1>2, Types DEF VmRec, Life
<1>4. Steps(p) /\ ~Holding(proc[p])
  BY <1>1, <1>2, <1>3, RequestGoTo
<1> QED BY <1>1, <1>2, <1>3, <1>4, MachineMoves DEF Moves, Steps

\* The row gets the state of a connection, expiry and all.
LEMMA SetActiveMoves ==
  ASSUME Inv, NEW p \in Proc, proc[p].pc \in RequestOnlyPC, Steps(p),
         row' = SetActive(row, proc[p].hexp), UNCHANGED <<vm, faults>>
  PROVE  Moves(p)
<1>1. NewTimer \in Timer
  BY RequestTimer
<1>2. proc[p].hexp \in Life /\ proc[p].hexp <= vm.life
  BY Types DEF ProcRec, Inv, ProcsOK
<1>3. /\ row' \in RowRec /\ row'.hexp = proc[p].hexp
      /\ row'.handle = (IF proc[p].hexp = 0 THEN "paused" ELSE "live")
      /\ row'.lease = row.lease /\ row'.timer = NewTimer
  BY <1>1, <1>2, Types, SetActiveType
<1> QED BY <1>2, <1>3, WriteTimers

\* The request becomes its kick.
LEMMA KicksMoves ==
  ASSUME Inv, NEW p \in Proc, Kicks(p), proc[p].kind \notin ChatKind, UNCHANGED vm
  PROVE  Steps(p)
<1> DEFINE r == Blank("lifecycle", "kick")
<1>1. "lifecycle" \in Kind /\ "kick" \in PC
  BY DEF Kind, PC, KickPC
<1>2. /\ r \in ProcRec(PC) /\ r.kind = "lifecycle" /\ r.pc = "kick" /\ ~r.spare
      /\ r.hexp = 0 /\ r.timer = 0
  BY <1>1, BlankType
<1>3. proc' = [proc EXCEPT ![p] = r]
  BY DEF Kicks
<1> HIDE DEF r
<1>4. /\ r.pc \notin LookPC \cup {"stream3", "stop"} /\ KindFits(r.kind, r.pc)
      /\ r.hexp <= vm'.life
  BY <1>2, Types DEF LookPC, KindFits, RequestOnlyPC, VmRec, Life
<1> QED BY <1>2, <1>3, <1>4, PlainMoves

LEMMA RecordSandboxMoves ==
  ASSUME Inv, NEW p \in Proc, RecordSandbox(p)
  PROVE  Moves(p)
<1>1. /\ proc[p].pc = "write" /\ proc[p].pc \in RequestOnlyPC /\ proc[p].kind # "lifecycle"
      /\ row' = SetActive(row, proc[p].hexp) /\ UNCHANGED <<vm, faults>>
  BY ChatKindNot DEF RecordSandbox, RequestOnlyPC
<1>2. CASE proc[p].kind \in ChatKind
  <2> DEFINE r == [proc[p] EXCEPT !.pc = "work"]
  <2>t. /\ proc \in [Proc -> ProcRec(PC)] /\ proc[p] \in ProcRec(PC)
        /\ ~proc[p].spare /\ proc[p].timer = 0 /\ proc[p].hexp <= vm.life
    BY <1>1, Types DEF Inv, ProcsOK, TimerPC
  <2>1. LeaveKick(p, r)
    BY <1>2 DEF RecordSandbox
  <2>2. /\ r \in ProcRec(PC) /\ r.kind = proc[p].kind /\ r.pc = "work"
        /\ r.timer = proc[p].timer /\ r.hexp = proc[p].hexp /\ r.spare = proc[p].spare
    BY <2>t DEF ProcRec, PC, RequestPC
  <2> HIDE DEF r
  <2>3. r.pc \in RequestOnlyPC /\ vm' \in VmRec /\ r.hexp <= vm'.life
    BY <1>1, <2>2, <2>t, Types DEF RequestOnlyPC
  <2>4. Steps(p)
    BY <1>1, <2>1, <2>2, <2>3, <2>t, RequestPuts
  <2> QED BY <1>1, <2>4, SetActiveMoves
<1>3. CASE proc[p].kind \notin ChatKind
  <2>1. Kicks(p)
    BY <1>3 DEF RecordSandbox
  <2>2. Steps(p)
    BY <1>1, <1>3, <2>1, KicksMoves
  <2> QED BY <1>1, <2>2, SetActiveMoves
<1> QED BY <1>2, <1>3

LEMMA ProvisionStepMoves ==
  ASSUME Inv, NEW p \in Proc, ProvisionStep(p)
  PROVE  Moves(p)
  BY ClaimStreamMoves, ReadToProvisionMoves, ProvisionMoves, ReleaseUnusableMoves,
     RecordSandboxMoves DEF ProvisionStep

-----------------------------------------------------------------------------
(* The end of a turn                                                        *)

\* A request that writes is at a place of its own kind.
LEMMA WorkMoves ==
  ASSUME Inv, NEW p \in Proc, Work(p)
  PROVE  Moves(p)
<1>1. /\ proc[p].pc = "work" /\ proc[p].pc \in RequestOnlyPC /\ UNCHANGED <<vm, row>>
      /\ UNCHANGED faults \/ Fault
      /\ GoTo(p, "refresh") \/ GiveUp(p)
  BY DEF Work, RequestOnlyPC
<1>2. proc[p].kind # "lifecycle" /\ "refresh" \in RequestOnlyPC \cup {"done"}
  BY <1>1, RequestTimer DEF RequestOnlyPC
<1>3. CASE GoTo(p, "refresh")
  BY <1>1, <1>2, <1>3, RequestGoesOn
<1>4. CASE GiveUp(p)
  <2>1. PICK pc \in RequestOnlyPC \cup {"done"} : GoTo(p, pc)
    BY <1>4, GiveUpGoTo
  <2> QED BY <1>1, <1>2, <2>1, RequestGoesOn
<1> QED BY <1>1, <1>3, <1>4

LEMMA RefreshMoves ==
  ASSUME Inv, NEW p \in Proc, RefreshLifecycleActivity(p) \/ RecordActivity(p)
  PROVE  Moves(p)
<1>1. /\ proc[p].pc \in {"refresh", "write"} /\ proc[p].pc \in RequestOnlyPC
      /\ row' = Refresh(row) /\ UNCHANGED <<vm, faults>>
      /\ GoTo(p, "persistConnect") \/ GoTo(p, "done")
  BY DEF RefreshLifecycleActivity, RecordActivity, RequestOnlyPC
<1>2. NewTimer \in Timer /\ proc[p].kind # "lifecycle"
  BY <1>1, RequestTimer
<1>3. /\ row' \in RowRec /\ row'.hexp = row.hexp /\ row'.handle = row.handle
      /\ row'.timer = NewTimer /\ row'.lease = row.lease
  BY <1>1, <1>2, Types, RefreshType
<1>4. row.hexp <= vm.life /\ (row.handle = "live" <=> row.hexp # 0)
  BY DEF Inv, RowOK, Operable
<1>5. /\ vm' \in VmRec /\ vm.life <= vm'.life
      /\ {"persistConnect", "done"} \subseteq RequestOnlyPC \cup {"done"}
  BY <1>1, Types DEF VmRec, Life, RequestOnlyPC
<1>6. Steps(p)
  BY <1>1, <1>2, <1>5, RequestGoTo
<1> QED BY <1>1, <1>3, <1>4, <1>6, WriteTimers

LEMMA PersistConnectMoves ==
  ASSUME Inv, NEW p \in Proc, PersistConnect(p)
  PROVE  Moves(p)
<1>1. proc[p].pc = "persistConnect" /\ proc[p].pc \in RequestOnlyPC /\ UNCHANGED <<vm, row>>
  BY DEF PersistConnect, RequestOnlyPC
<1>2. proc[p].kind # "lifecycle"
  BY <1>1, RequestTimer
<1>3. CASE GoTo(p, "final") /\ Fault
  <2>1. "final" \in RequestOnlyPC \cup {"done"}
    BY DEF RequestOnlyPC
  <2> QED BY <1>1, <1>2, <1>3, <2>1, RequestGoesOn
<1>4. CASE /\ proc' = [proc EXCEPT ![p].pc = "persist", ![p].hexp = Reported(@, vm)]
           /\ UNCHANGED faults
  <2> DEFINE h == Reported(proc[p].hexp, vm)
             r == [proc[p] EXCEPT !.pc = "persist", !.hexp = h]
  <2>t. /\ proc \in [Proc -> ProcRec(PC)] /\ proc[p] \in ProcRec(PC) /\ vm \in VmRec
        /\ ~proc[p].spare /\ proc[p].timer = 0 /\ proc[p].hexp <= vm.life
        /\ proc[p].hexp \in Life /\ vm.life <= vm.life
    BY <1>1, Types DEF Inv, ProcsOK, TimerPC, VmRec, ProcRec, Life
  <2>1. h \in Life /\ h <= vm.life
    BY <2>t, ReportedType
  <2>2. proc' = [proc EXCEPT ![p] = r]
    BY <1>4, <2>t DEF ProcRec
  <2> HIDE DEF h
  <2>3. /\ r \in ProcRec(PC) /\ r.kind = proc[p].kind /\ r.pc = "persist"
        /\ r.timer = proc[p].timer /\ r.hexp = h /\ r.spare = proc[p].spare
    BY <2>t, <2>1 DEF ProcRec, PC, RequestPC
  <2> HIDE DEF r
  <2>4. r.pc \in RequestOnlyPC /\ vm' \in VmRec /\ r.hexp <= vm'.life
    BY <1>1, <2>1, <2>3, <2>t DEF RequestOnlyPC
  <2>5. Steps(p) /\ ~Holding(proc[p])
    BY <1>1, <1>2, <2>2, <2>3, <2>4, <2>t, RequestPuts
  <2> QED BY <1>1, <1>4, <2>5, RowUnmoved DEF Moves, Steps
<1> QED BY <1>3, <1>4 DEF PersistConnect

LEMMA PersistMoves ==
  ASSUME Inv, NEW p \in Proc, PersistSandboxState(p)
  PROVE  Moves(p)
<1>1. /\ proc[p].pc = "persist" /\ proc[p].pc \in RequestOnlyPC
      /\ row' = SetActive(row, proc[p].hexp) /\ UNCHANGED <<vm, faults>>
      /\ GoTo(p, "final") /\ "final" \in RequestOnlyPC \cup {"done"}
  BY DEF PersistSandboxState, RequestOnlyPC
<1>2. /\ proc[p].kind # "lifecycle" /\ vm' \in VmRec /\ vm.life <= vm'.life
  BY <1>1, RequestTimer, Types DEF VmRec, Life
<1>3. Steps(p)
  BY <1>1, <1>2, RequestGoTo
<1> QED BY <1>1, <1>3, SetActiveMoves

LEMMA EndStreamMoves ==
  ASSUME Inv, NEW p \in Proc, EndStream(p)
  PROVE  Moves(p)
<1>1. /\ proc[p].pc = "final" /\ proc[p].pc \in RequestOnlyPC /\ UNCHANGED <<vm, row, faults>>
      /\ GoTo(p, "force") \/ GoTo(p, "done")
      /\ {"force", "done"} \subseteq RequestOnlyPC \cup {"done"}
  BY DEF EndStream, RequestOnlyPC
<1>2. proc[p].kind # "lifecycle"
  BY <1>1, RequestTimer
<1> QED BY <1>1, <1>2, RequestGoesOn

\* A turn that was off the stream stays so while it hibernates its sandbox.
LEMMA ForceDueMoves ==
  ASSUME Inv, NEW p \in Proc, ForceDue(p)
  PROVE  Moves(p)
<1>1. /\ proc[p].pc = "force" /\ proc[p].pc \in RequestOnlyPC
      /\ row' = Touch(row, TRUE) /\ UNCHANGED <<vm, faults>> /\ GoTo(p, "evaluate")
  BY DEF ForceDue, RequestOnlyPC
<1>2. NewTimer \in Timer /\ proc[p].kind # "lifecycle"
  BY <1>1, RequestTimer
<1>3. /\ row' \in RowRec /\ row'.hexp = row.hexp /\ row'.handle = row.handle
      /\ row'.timer = NewTimer /\ row'.lease = row.lease
  BY <1>1, <1>2, Types, TouchType
<1>4. row.hexp <= vm.life /\ (row.handle = "live" <=> row.hexp # 0)
  BY DEF Inv, RowOK, Operable
<1>5. vm' \in VmRec /\ vm.life <= vm'.life
  BY <1>1, Types DEF VmRec, Life
<1>6. /\ "evaluate" \in PC /\ "evaluate" \notin LookPC \cup {"stream3", "stop"}
      /\ KindFits(proc[p].kind, "evaluate") /\ proc[p].pc \notin TimerPC
      /\ "evaluate" \in OffStream
  BY <1>1 DEF PC, EvalPC, LookPC, KindFits, WorkflowPC, RequestOnlyPC, TimerPC, OffStream
<1>7. Steps(p)
  BY <1>1, <1>5, <1>6, GoToMoves
<1> QED BY <1>1, <1>3, <1>4, <1>7, WriteTimers

LEMMA TurnStepMoves ==
  ASSUME Inv, NEW p \in Proc, TurnStep(p)
  PROVE  Moves(p)
  BY WorkMoves, RefreshMoves, PersistConnectMoves, PersistMoves, EndStreamMoves, ForceDueMoves
     DEF TurnStep

-----------------------------------------------------------------------------
(* extend, activity, status and reconnect                                   *)

LEMMA ReadMoves ==
  ASSUME Inv, NEW p \in Proc,
         ReadToExtend(p) \/ ConnectToExtend(p) \/ ReadActivity(p) \/ ReadToReconnect(p)
  PROVE  Moves(p)
<1>1. /\ proc[p].pc \in {"new", "connect"} /\ proc[p].kind # "lifecycle"
      /\ UNCHANGED <<vm, row, faults>>
      /\ \/ proc[p].pc = "new" /\ Remember(p, "connect")
         \/ GoTo(p, "done") \/ GoTo(p, "extend") \/ GoTo(p, "write")
  BY DEF ReadToExtend, ConnectToExtend, ReadActivity, ReadToReconnect
<1>2. /\ {"done", "extend", "write"} \subseteq RequestOnlyPC \cup {"done"}
      /\ proc[p].pc \in RequestOnlyPC \cup {"new"}
  BY <1>1 DEF RequestOnlyPC
<1>3. CASE proc[p].pc = "new" /\ Remember(p, "connect")
  BY <1>1, <1>3, RememberMoves
<1>4. CASE GoTo(p, "done") \/ GoTo(p, "extend") \/ GoTo(p, "write")
  BY <1>1, <1>2, <1>4, RequestGoesOn
<1> QED BY <1>1, <1>3, <1>4

LEMMA ExtendTimeoutMoves ==
  ASSUME Inv, NEW p \in Proc, ExtendTimeout(p)
  PROVE  Moves(p)
<1>1. /\ proc[p].pc = "extend" /\ proc[p].pc \in RequestOnlyPC /\ UNCHANGED <<row, faults>>
  BY DEF ExtendTimeout, RequestOnlyPC
<1>2. proc[p].kind # "lifecycle"
  BY <1>1, RequestTimer
<1>3. CASE UNCHANGED vm /\ GoTo(p, "done")
  <2>1. "done" \in RequestOnlyPC \cup {"done"}
    OBVIOUS
  <2> QED BY <1>1, <1>2, <1>3, <2>1, RequestGoesOn
<1>4. CASE /\ vm.life < MaxLives /\ vm' = Extended(vm)
           /\ proc' = [proc EXCEPT ![p].pc = "write", ![p].hexp = vm'.life]
  <2> DEFINE h == vm'.life
             r == [proc[p] EXCEPT !.pc = "write", !.hexp = h]
  <2>t. /\ proc \in [Proc -> ProcRec(PC)] /\ proc[p] \in ProcRec(PC) /\ vm \in VmRec
        /\ ~proc[p].spare /\ proc[p].timer = 0 /\ vm.life \in Nat /\ MaxLives \in Nat
    BY <1>1, Types DEF Inv, ProcsOK, TimerPC, VmRec, Life
  <2>1. vm' = [vm EXCEPT !.life = vm.life + 1] /\ vm.life + 1 \in Life
    BY <1>4, <2>t DEF Extended, Life
  <2>2. vm' \in VmRec /\ vm'.past = vm.past /\ vm'.life = vm.life + 1
    BY <2>1, <2>t DEF VmRec
  <2>3. vm.life <= vm'.life /\ h \in Life /\ h <= vm'.life
    BY <2>1, <2>2, <2>t
  <2>4. proc' = [proc EXCEPT ![p] = r]
    BY <1>4, <2>t DEF ProcRec
  <2> HIDE DEF h
  <2>5. /\ r \in ProcRec(PC) /\ r.kind = proc[p].kind /\ r.pc = "write"
        /\ r.timer = proc[p].timer /\ r.hexp = h /\ r.spare = proc[p].spare
    BY <2>t, <2>3 DEF ProcRec, PC, RequestPC
  <2> HIDE DEF r
  <2>6. r.pc \in RequestOnlyPC
    BY <2>5 DEF RequestOnlyPC
  <2>7. Steps(p) /\ ~Holding(proc[p])
    BY <1>1, <1>2, <2>2, <2>3, <2>4, <2>5, <2>6, <2>t, RequestPuts
  <2> QED BY <1>1, <2>2, <2>3, <2>7, MachineMoves DEF Moves, Steps
<1> QED BY <1>3, <1>4 DEF ExtendTimeout

LEMMA RecordExtensionMoves ==
  ASSUME Inv, NEW p \in Proc, RecordExtension(p)
  PROVE  Moves(p)
<1>1. /\ proc[p].pc \in RequestOnlyPC /\ proc[p].kind \notin ChatKind
      /\ row' = SetActive(row, proc[p].hexp) /\ UNCHANGED <<vm, faults>> /\ Kicks(p)
  BY DEF RecordExtension, RequestOnlyPC, ChatKind
<1>2. Steps(p)
  BY <1>1, KicksMoves
<1> QED BY <1>1, <1>2, SetActiveMoves

\* A poll is over and leaves a kick.
LEMMA LeavesKick ==
  ASSUME Inv, NEW p \in Proc, proc[p].kind = "status", proc[p].pc \in {"new", "write"},
         LeaveKick(p, Blank("status", "done")), UNCHANGED vm
  PROVE  Steps(p) /\ ~Holding(proc[p])
<1> DEFINE r == Blank("status", "done")
<1>1. "status" \in Kind /\ "done" \in PC
  BY DEF Kind, PC, RequestPC
<1>2. /\ r \in ProcRec(PC) /\ r.kind = "status" /\ r.pc = "done" /\ ~r.spare
      /\ r.hexp = 0 /\ r.timer = 0
  BY <1>1, BlankType
<1>3. LeaveKick(p, r)
  OBVIOUS
<1> HIDE DEF r
<1>4. /\ proc[p].pc \in RequestOnlyPC \cup {"new"} /\ vm' \in VmRec /\ r.hexp <= vm'.life
  BY <1>2, Types DEF RequestOnlyPC, VmRec, Life
<1> QED BY <1>2, <1>3, <1>4, RequestPuts

LEMMA ReadStatusMoves ==
  ASSUME Inv, NEW p \in Proc, ReadStatus(p)
  PROVE  Moves(p)
<1>1. /\ proc[p].kind = "status" /\ proc[p].pc = "new" /\ UNCHANGED <<vm, row, faults>>
      /\ Remember(p, "write") \/ LeaveKick(p, Blank("status", "done")) \/ GoTo(p, "done")
  BY DEF ReadStatus
<1>2. CASE Remember(p, "write")
  BY <1>1, <1>2, RememberMoves
<1>3. CASE LeaveKick(p, Blank("status", "done"))
  <2>1. Steps(p) /\ ~Holding(proc[p])
    BY <1>1, <1>3, LeavesKick
  <2> QED BY <1>1, <2>1, RowUnmoved DEF Moves, Steps
<1>4. CASE GoTo(p, "done")
  <2>1. "done" \in RequestOnlyPC \cup {"done"}
    OBVIOUS
  <2> QED BY <1>1, <1>4, <2>1, RequestGoesOn
<1> QED BY <1>1, <1>2, <1>3, <1>4

LEMMA RecoverStatusMoves ==
  ASSUME Inv, NEW p \in Proc, RecoverStatus(p)
  PROVE  Moves(p)
<1>1. /\ proc[p].kind = "status" /\ proc[p].pc = "write" /\ UNCHANGED <<vm, faults>>
      /\ row' = [row EXCEPT !.lc = "active", !.rexp = proc[p].hexp]
      /\ LeaveKick(p, Blank("status", "done")) \/ GoTo(p, "done")
  BY DEF RecoverStatus
<1>2. /\ vm' \in VmRec /\ vm.life <= vm'.life /\ "done" \in RequestOnlyPC \cup {"done"}
      /\ proc[p].pc \in RequestOnlyPC \cup {"new"}
  BY <1>1, Types DEF VmRec, Life, RequestOnlyPC
<1>3. Steps(p) /\ ~Holding(proc[p])
  BY <1>1, <1>2, LeavesKick, RequestGoTo
<1>4. RowMoves(p)
  <2>1. "active" \in LifecycleState /\ proc[p].hexp \in Life /\ row'.lease = row.lease
    BY <1>1, Types DEF LifecycleState, ProcRec, RowRec
  <2> QED BY <1>1, <1>3, <2>1, ColumnWrite
<1> QED BY <1>3, <1>4 DEF Moves, Steps

LEMMA PollMoves ==
  ASSUME Inv, NEW p \in Proc, Poll(p)
  PROVE  Moves(p)
<1>1. /\ proc[p].kind = "status" /\ proc[p].pc = "done" /\ UNCHANGED <<vm, row, faults>>
      /\ GoTo(p, "new")
  BY DEF Poll
<1>2. /\ "new" \in PC /\ "new" \notin LookPC \cup {"stream3", "stop"} /\ KindFits("status", "new")
      /\ proc[p].pc \notin TimerPC /\ "status" \notin ChatKind
      /\ vm' \in VmRec /\ vm.life <= vm'.life
  BY <1>1, Types DEF PC, RequestPC, LookPC, KindFits, WorkflowPC, TimerPC, ChatKind, VmRec, Life
<1>3. Steps(p)
  BY <1>1, <1>2, GoToMoves
<1>4. ~Holding(proc[p])
  BY <1>1 DEF Holding
<1> QED BY <1>1, <1>3, <1>4, RowUnmoved DEF Moves, Steps

LEMMA ReconnectMoves ==
  ASSUME Inv, NEW p \in Proc, Reconnect(p)
  PROVE  Moves(p)
<1> DEFINE ok == proc' = [proc EXCEPT ![p].pc = "write", ![p].hexp = Reported(@, vm), ![p].on = TRUE]
           h == IF ok THEN Reported(proc[p].hexp, vm) ELSE 0
           on == IF ok THEN TRUE ELSE FALSE
           r == [proc[p] EXCEPT !.pc = "write", !.hexp = h, !.on = on]
<1>1. /\ proc[p].kind = "reconnect" /\ proc[p].pc = "connect" /\ UNCHANGED <<vm, row>>
      /\ UNCHANGED faults \/ Fault
  BY DEF Reconnect
<1>t. /\ proc \in [Proc -> ProcRec(PC)] /\ proc[p] \in ProcRec(PC) /\ vm \in VmRec
      /\ ~proc[p].spare /\ proc[p].timer = 0 /\ proc[p].hexp <= vm.life /\ vm.life \in Nat
      /\ proc[p].hexp \in Life /\ vm.life <= vm.life /\ 0 \in Life
  BY <1>1, Types DEF Inv, ProcsOK, TimerPC, VmRec, ProcRec, Life
<1>2. h \in Life /\ h <= vm.life
  BY <1>t, ReportedType
<1>3. proc' = [proc EXCEPT ![p] = r]
  <2>1. CASE ok
    BY <2>1, <1>t DEF ProcRec
  <2>2. CASE ~ok
    BY <2>2, <1>t DEF ProcRec, Reconnect
  <2> QED BY <2>1, <2>2
<1>4. on \in BOOLEAN
  OBVIOUS
<1> HIDE DEF h, on, ok
<1>5. /\ r \in ProcRec(PC) /\ r.kind = proc[p].kind /\ r.pc = "write"
      /\ r.timer = proc[p].timer /\ r.hexp = h /\ r.spare = proc[p].spare
  BY <1>t, <1>2, <1>4 DEF ProcRec, PC, RequestPC
<1> HIDE DEF r
<1>6. /\ r.pc \in RequestOnlyPC /\ proc[p].pc \in RequestOnlyPC \cup {"new"}
      /\ vm' \in VmRec /\ r.hexp <= vm'.life
  BY <1>1, <1>2, <1>5, <1>t DEF RequestOnlyPC
<1>7. Steps(p) /\ ~Holding(proc[p])
  BY <1>1, <1>3, <1>5, <1>6, <1>t, RequestPuts
<1> QED BY <1>1, <1>7, RowUnmoved DEF Moves, Steps

LEMMA RecordReconnectMoves ==
  ASSUME Inv, NEW p \in Proc, RecordReconnect(p)
  PROVE  Moves(p)
<1>1. /\ proc[p].kind = "reconnect" /\ proc[p].pc = "write" /\ UNCHANGED <<vm, faults>>
      /\ GoTo(p, "done") /\ "done" \in RequestOnlyPC \cup {"done"}
      /\ proc[p].pc \in RequestOnlyPC
  BY DEF RecordReconnect, RequestOnlyPC
<1>2. /\ vm' \in VmRec /\ vm.life <= vm'.life /\ row \in RowRec
      /\ proc[p].hexp \in Life /\ proc[p].hexp <= vm.life
  BY <1>1, Types DEF VmRec, Life, ProcRec, Inv, ProcsOK
<1>3. Steps(p) /\ ~Holding(proc[p])
  BY <1>1, <1>2, RequestGoTo
<1>4. CASE proc[p].on
  <2> DEFINE h == IF proc[p].hexp = 0 THEN "paused" ELSE "live"
             l == IF proc[p].note THEN "active" ELSE row.lc
  <2>1. row' = [row EXCEPT !.handle = h, !.hexp = proc[p].hexp, !.rexp = proc[p].hexp, !.lc = l]
    BY <1>4 DEF RecordReconnect
  <2>2. h \in Handle /\ l \in LifecycleState /\ (h = "live" <=> proc[p].hexp # 0)
    BY <1>2 DEF Handle, LifecycleState, RowRec
  <2> HIDE DEF h, l
  <2>3. /\ row' \in RowRec /\ row'.hexp = proc[p].hexp /\ row'.handle = h
        /\ row'.timer = row.timer /\ row'.idle = row.idle /\ row'.lease = row.lease
    BY <1>2, <2>1, <2>2 DEF RowRec
  <2>4. RowMoves(p)
    BY <1>1, <1>2, <1>3, <2>2, <2>3, ColumnsMove
  <2> QED BY <1>3, <2>4 DEF Moves, Steps
<1>5. CASE ~proc[p].on
  <2>1. row' = SetHibernated(row) /\ NewTimer \in Timer /\ 0 <= vm.life
    BY <1>1, <1>2, <1>5, RequestTimer, Types DEF RecordReconnect, VmRec, Life
  <2>2. /\ row' \in RowRec /\ row'.hexp = 0 /\ row'.handle = "paused" /\ row'.timer = NewTimer
        /\ row'.lease \in {row.lease, NoLease}
    BY <2>1, <1>2, ClearType
  <2> QED BY <1>1, <1>3, <2>1, <2>2, WriteTimers
<1> QED BY <1>4, <1>5

LEMMA SmallRequestStepMoves ==
  ASSUME Inv, NEW p \in Proc, SmallRequestStep(p)
  PROVE  Moves(p)
  BY ReadMoves, ExtendTimeoutMoves, RecordExtensionMoves, RefreshMoves, ReadStatusMoves,
     RecoverStatusMoves, PollMoves, ReconnectMoves, RecordReconnectMoves DEF SmallRequestStep

-----------------------------------------------------------------------------
(* pause, delete, archive and unarchive                                     *)

LEMMA ReadToStopMoves ==
  ASSUME Inv, NEW p \in Proc, ReadToStop(p) \/ ReadToArchive(p) \/ ReadToUnarchive(p)
  PROVE  Moves(p)
<1>1. /\ proc[p].pc = "new" /\ proc[p].kind # "lifecycle" /\ UNCHANGED <<vm, row, faults>>
      /\ GoTo(p, "connect") \/ GoTo(p, "archive") \/ GoTo(p, "write") \/ GoTo(p, "done")
  BY ChatKindNot DEF ReadToStop, ReadToArchive, ReadToUnarchive
<1>2. {"connect", "archive", "write", "done"} \subseteq RequestOnlyPC \cup {"done"}
  BY DEF RequestOnlyPC
<1> QED BY <1>1, <1>2, RequestGoesOn

LEMMA ConnectToStopMoves ==
  ASSUME Inv, NEW p \in Proc, ConnectToStop(p)
  PROVE  Moves(p)
<1>1. /\ proc[p].pc = "connect" /\ proc[p].pc \in RequestOnlyPC \cup {"new"}
      /\ proc[p].kind # "lifecycle" /\ UNCHANGED <<vm, row>>
  BY ChatKindNot DEF ConnectToStop, RequestOnlyPC
<1>2. CASE GoTo(p, "done") /\ Fault
  <2>1. "done" \in RequestOnlyPC \cup {"done"}
    OBVIOUS
  <2> QED BY <1>1, <1>2, <2>1, RequestGoesOn
<1>3. CASE proc' = [proc EXCEPT ![p].pc = "halt", ![p].on = vm.on] /\ UNCHANGED faults
  <2> DEFINE r == [proc[p] EXCEPT !.pc = "halt", !.on = vm.on]
  <2>t. /\ proc \in [Proc -> ProcRec(PC)] /\ proc[p] \in ProcRec(PC) /\ vm \in VmRec
        /\ ~proc[p].spare /\ proc[p].timer = 0 /\ proc[p].hexp <= vm.life
    BY <1>1, Types DEF Inv, ProcsOK, TimerPC
  <2>1. proc' = [proc EXCEPT ![p] = r]
    BY <1>3, <2>t DEF ProcRec
  <2>2. /\ r \in ProcRec(PC) /\ r.kind = proc[p].kind /\ r.pc = "halt"
        /\ r.timer = proc[p].timer /\ r.hexp = proc[p].hexp /\ r.spare = proc[p].spare
    BY <2>t DEF ProcRec, VmRec, PC, RequestPC
  <2> HIDE DEF r
  <2>3. r.pc \in RequestOnlyPC /\ vm' \in VmRec /\ r.hexp <= vm'.life
    BY <1>1, <2>2, <2>t DEF RequestOnlyPC
  <2>4. Steps(p) /\ ~Holding(proc[p])
    BY <1>1, <2>1, <2>2, <2>3, <2>t, RequestPuts
  <2> QED BY <1>1, <1>3, <2>4, RowUnmoved DEF Moves, Steps
<1> QED BY <1>2, <1>3 DEF ConnectToStop

LEMMA HaltMoves ==
  ASSUME Inv, NEW p \in Proc, Halt(p)
  PROVE  Moves(p)
<1>1. /\ proc[p].pc = "halt" /\ proc[p].pc \in RequestOnlyPC /\ UNCHANGED row
      /\ {"clear", "done"} \subseteq RequestOnlyPC \cup {"done"}
  BY DEF Halt, RequestOnlyPC
<1>2. proc[p].kind # "lifecycle"
  BY <1>1, RequestTimer
<1>3. CASE StopMachine(p) /\ GoTo(p, "clear") /\ UNCHANGED faults
  <2>1. Steps(p) /\ ~Holding(proc[p])
    BY <1>1, <1>2, <1>3, StopMachineType, RequestGoTo
  <2> QED BY <1>1, <1>3, <2>1, StopMachineType, MachineMoves DEF Moves, Steps
<1>4. CASE GoTo(p, "done") /\ Fault /\ UNCHANGED vm
  BY <1>1, <1>2, <1>4, RequestGoesOn
<1> QED BY <1>3, <1>4 DEF Halt

LEMMA RecordStopMoves ==
  ASSUME Inv, NEW p \in Proc, RecordStop(p)
  PROVE  Moves(p)
<1>1. /\ proc[p].pc = "clear" /\ proc[p].pc \in RequestOnlyPC /\ UNCHANGED <<vm, faults>>
      /\ row' = SetHibernated(row) /\ GoTo(p, "done") /\ "done" \in RequestOnlyPC \cup {"done"}
  BY DEF RecordStop, RequestOnlyPC
<1>2. /\ NewTimer \in Timer /\ proc[p].kind # "lifecycle" /\ 0 <= vm.life
      /\ vm' \in VmRec /\ vm.life <= vm'.life
  BY <1>1, RequestTimer, Types DEF VmRec, Life
<1>3. /\ row' \in RowRec /\ row'.hexp = 0 /\ row'.handle = "paused" /\ row'.timer = NewTimer
      /\ row'.lease \in {row.lease, NoLease}
  BY <1>1, <1>2, Types, ClearType
<1>4. Steps(p)
  BY <1>1, <1>2, RequestGoTo
<1> QED BY <1>1, <1>2, <1>3, <1>4, WriteTimers

LEMMA ArchiveMoves ==
  ASSUME Inv, NEW p \in Proc, Archive(p)
  PROVE  Moves(p)
<1>1. /\ proc[p].pc = "archive" /\ proc[p].pc \in RequestOnlyPC /\ UNCHANGED <<vm, faults>>
      /\ row' = [SetArchived(row) EXCEPT !.archived = TRUE]
      /\ GoTo(p, "finalize") /\ "finalize" \in RequestOnlyPC \cup {"done"}
  BY DEF Archive, RequestOnlyPC
<1>2. /\ NewTimer \in Timer /\ proc[p].kind # "lifecycle"
      /\ vm' \in VmRec /\ vm.life <= vm'.life
  BY <1>1, RequestTimer, Types DEF VmRec, Life
<1>3. /\ row' \in RowRec /\ row'.hexp = row.hexp /\ row'.handle = row.handle
      /\ row'.timer = NewTimer /\ row'.lease = row.lease
  BY <1>1, <1>2, Types, SetArchivedType
<1>4. row.hexp <= vm.life /\ (row.handle = "live" <=> row.hexp # 0)
  BY DEF Inv, RowOK, Operable
<1>5. Steps(p)
  BY <1>1, <1>2, RequestGoTo
<1> QED BY <1>1, <1>3, <1>4, <1>5, WriteTimers

LEMMA FinalizeMoves ==
  ASSUME Inv, NEW p \in Proc, Finalize(p)
  PROVE  Moves(p)
<1>1. /\ proc[p].pc = "finalize" /\ proc[p].pc \in RequestOnlyPC /\ UNCHANGED <<vm, row, faults>>
      /\ Forget(p, "archConnect") \/ GoTo(p, "done")
  BY DEF Finalize, RequestOnlyPC
<1>2. proc[p].kind # "lifecycle" /\ vm' \in VmRec
  BY <1>1, RequestTimer, Types
<1>3. CASE GoTo(p, "done")
  <2>1. "done" \in RequestOnlyPC \cup {"done"}
    OBVIOUS
  <2> QED BY <1>1, <1>2, <1>3, <2>1, RequestGoesOn
<1>4. CASE Forget(p, "archConnect")
  <2>1. /\ "archConnect" \in PC /\ KindFits(proc[p].kind, "archConnect")
        /\ "archConnect" \notin LookPC \cup {"stream3", "stop"} /\ "archConnect" \in OffStream
    BY DEF PC, EvalPC, StopPC, KindFits, WorkflowPC, RequestOnlyPC, LookPC, OffStream
  <2>2. Steps(p)
    BY <1>1, <1>2, <1>4, <2>1, ForgetMoves
  <2>3. ~Holding(proc[p])
    BY <1>2 DEF Holding
  <2> QED BY <1>1, <2>2, <2>3, RowUnmoved DEF Moves, Steps
<1> QED BY <1>1, <1>3, <1>4

LEMMA UnarchiveMoves ==
  ASSUME Inv, NEW p \in Proc, Unarchive(p)
  PROVE  Moves(p)
<1>1. /\ proc[p].pc = "write" /\ proc[p].pc \in RequestOnlyPC /\ UNCHANGED <<vm, faults>>
      /\ row' = [row EXCEPT !.archived = FALSE, !.lc = "none"]
      /\ GoTo(p, "done") /\ "done" \in RequestOnlyPC \cup {"done"}
  BY DEF Unarchive, RequestOnlyPC
<1>2. proc[p].kind # "lifecycle" /\ vm' \in VmRec /\ vm.life <= vm'.life
  BY <1>1, RequestTimer, Types DEF VmRec, Life
<1>3. Steps(p) /\ ~Holding(proc[p])
  BY <1>1, <1>2, RequestGoTo
<1>4. RowMoves(p)
  <2>1. "none" \in LifecycleState /\ 0 \in Life /\ row'.lease = row.lease
    BY <1>1, Types, SessionParams DEF LifecycleState, Life, RowRec
  <2> QED BY <1>1, <1>3, <2>1, ColumnWrite
<1> QED BY <1>3, <1>4 DEF Moves, Steps

LEMMA StopRequestStepMoves ==
  ASSUME Inv, NEW p \in Proc, StopRequestStep(p)
  PROVE  Moves(p)
  BY ReadToStopMoves, ConnectToStopMoves, HaltMoves, RecordStopMoves, ArchiveMoves,
     FinalizeMoves, UnarchiveMoves DEF StopRequestStep

-----------------------------------------------------------------------------
(* The invariant                                                            *)

LEMMA TimePasses ==
  ASSUME Inv, Time
  PROVE  Inv'
<1>1. UNCHANGED <<proc, faults>> /\ (IdlePasses \/ Ages \/ ProviderStops)
  BY DEF Time
<1>t. /\ vm \in VmRec /\ row \in RowRec /\ faults \in 0..MaxFaults
      /\ vm.life \in Nat /\ vm.past \in Nat /\ MaxLives \in Nat
      /\ \A p \in Proc : proc[p].rexp \in Nat
  BY Types DEF VmRec, Life, ProcRec
<1>2. /\ vm' \in VmRec /\ row' \in RowRec /\ vm'.life = vm.life
      /\ vm.past <= vm'.past /\ vm'.past <= vm'.life
      /\ row'.hexp = row.hexp /\ row'.handle = row.handle /\ row'.timer = row.timer
      /\ row'.lease = row.lease
      /\ row.idle => row'.idle
  <2>1. CASE IdlePasses
    <3>1. row' = [row EXCEPT !.idle = TRUE] /\ vm' = vm
      BY <2>1 DEF IdlePasses
    <3>2. /\ row' \in RowRec /\ row'.hexp = row.hexp /\ row'.handle = row.handle
          /\ row'.timer = row.timer /\ row'.lease = row.lease /\ row'.idle
      BY <1>t, <3>1 DEF RowRec
    <3> QED BY <1>t, <3>1, <3>2 DEF Inv, RowOK
  <2>2. CASE Ages
    <3>1. vm.past + 1 \in Life /\ vm' = [vm EXCEPT !.past = vm.past + 1] /\ row' = row
      BY <1>t, <2>2 DEF Ages, VmRec, Life
    <3>2. vm' \in VmRec /\ vm'.life = vm.life /\ vm'.past = vm.past + 1
      BY <1>t, <3>1 DEF VmRec
    <3> QED BY <1>t, <2>2, <3>1, <3>2 DEF Ages
  <2>3. CASE ProviderStops
    <3>1. vm' \in VmRec /\ vm'.life = vm.life /\ vm'.past = vm.past /\ row' = row
      BY <1>t, <2>3 DEF ProviderStops, VmRec
    <3> QED BY <1>t, <3>1 DEF Inv, RowOK
  <2> QED BY <1>1, <2>1, <2>2, <2>3
<1>3. RowOK'
  BY <1>1, <1>2, <1>t DEF RowOK, Inv, Operable
<1>4. ProcsOK'
  BY <1>1, <1>2 DEF ProcsOK, Inv
<1>5. FreshOK'
  <2>1. \A e \in Nat : Past(e) => e # 0 /\ e <= vm'.past
    <3>1. vm'.past \in Nat
      BY <1>2 DEF VmRec, Life
    <3> QED BY <3>1, <1>2, <1>t DEF Past
  <2> SUFFICES ASSUME NEW p \in Proc, proc[p].pc \in LookPC, proc[p].timer = row.timer
               PROVE  row'.idle \/ (proc[p].rexp # 0 /\ proc[p].rexp <= vm'.past)
    BY <1>1, <1>2 DEF FreshOK, Past
  <2>2. row.idle \/ Past(proc[p].rexp)
    BY Zenon DEF Inv, FreshOK
  <2>3. CASE row.idle
    BY <2>3, <1>2
  <2>4. CASE Past(proc[p].rexp)
    BY <2>4, <2>1, <1>1, <1>t
  <2> QED BY <2>2, <2>3, <2>4
<1>6. RivalsOK'
  BY <1>1 DEF RivalsOK, Inv
<1>7. LeaseOK'
  BY <1>1, <1>2 DEF LeaseOK, Holding, Inv
<1> QED BY <1>3, <1>4, <1>5, <1>6, <1>7 DEF Inv

LEMMA AsleepType ==
  ASSUME 1 \in Life, 1 \in Timer
  PROVE  /\ Asleep \in ProcRec(PC) /\ Asleep.kind = "lifecycle" /\ Asleep.pc = "sleep"
         /\ Asleep.hexp = 0 /\ ~Asleep.spare /\ Asleep.rivals = {}
<1> DEFINE b == Blank("lifecycle", "sleep")
<1>1. b \in ProcRec(PC) /\ b.kind = "lifecycle" /\ b.pc = "sleep" /\ b.hexp = 0 /\ ~b.spare
      /\ b.rivals = {}
  <2>1. "lifecycle" \in Kind /\ "sleep" \in PC
    BY DEF Kind, PC
  <2> QED BY <2>1, BlankType
<1>2. Asleep = [b EXCEPT !.rexp = 1, !.timer = 1]
  BY DEF Asleep, LiveRow
<1> HIDE DEF b
<1> QED BY <1>1, <1>2 DEF ProcRec

LEMMA InitInv == Init => Inv
<1> SUFFICES ASSUME Init PROVE Inv
  OBVIOUS
<1>1. PICK scene \in Scenes :
        /\ vm = IF scene.fresh THEN [on |-> FALSE, life |-> 0, past |-> 0]
                ELSE [on |-> TRUE, life |-> 1, past |-> 0]
        /\ row = IF scene.fresh THEN NewRow ELSE LiveRow
        /\ proc \in [Proc -> UNION {Cast(scene, p) : p \in Proc}]
        /\ \A p \in Proc : proc[p] \in Cast(scene, p)
        /\ faults = 0
  BY DEF Init
<1>2. /\ DOMAIN scene.kinds \subseteq Proc
      /\ \A p \in DOMAIN scene.kinds : scene.kinds[p] \subseteq Kind
      /\ ~scene.fresh => 1 \in Proc /\ 1 \in DOMAIN scene.kinds
  BY SessionParams
<1>3. /\ MaxLives \in Nat \ {0} /\ MaxFaults \in Nat /\ 0 \in Life /\ 1 \in Life
      /\ 0 \in Timer /\ 1 \in Timer
  BY SessionParams, FS_CardinalityType DEF Life, Timer
<1>4. ASSUME NEW p \in Proc
      PROVE  \/ proc[p] = Blank("lifecycle", "done")
             \/ \E kind \in Kind : proc[p] = Blank(kind, "new")
             \/ ~scene.fresh /\ proc[p] = Asleep
  BY <1>1, <1>2 DEF Cast
<1>5. ASSUME NEW p \in Proc
      PROVE  /\ proc[p] \in ProcRec(PC) /\ proc[p].hexp = 0 /\ ~proc[p].spare
             /\ proc[p].timer # 0 => proc[p].pc = "sleep"
             /\ \/ proc[p].kind = "lifecycle" /\ proc[p].pc = "sleep"
                \/ proc[p].pc \in {"new", "done"}
  <2>1. "lifecycle" \in Kind /\ "done" \in PC /\ "new" \in PC
    BY DEF Kind, PC, RequestPC
  <2>2. CASE proc[p] = Blank("lifecycle", "done")
    BY <2>1, <2>2, BlankType
  <2>3. CASE \E kind \in Kind : proc[p] = Blank(kind, "new")
    BY <2>1, <2>3, BlankType
  <2>4. CASE proc[p] = Asleep
    BY <2>4, <1>3, AsleepType
  <2> QED BY <1>4, <2>2, <2>3, <2>4
<1>6. proc \in [Proc -> ProcRec(PC)]
  BY <1>1, <1>5
<1>7. RowOK
  <2>1. vm \in VmRec /\ row \in RowRec /\ faults \in 0..MaxFaults
    BY <1>1, <1>2, <1>3 DEF VmRec, RowRec, NewRow, LiveRow, Handle, LifecycleState
  <2> QED BY <2>1, <1>1 DEF RowOK, NewRow, LiveRow, Operable
<1>8. ProcsOK
  <2>1. 0 <= vm.life
    BY <1>1
  <2> QED BY <2>1, <1>5, <1>6 DEF ProcsOK, KindFits, WorkflowPC, RequestOnlyPC, TimerPC
<1>9. FreshOK /\ RivalsOK
  BY <1>5 DEF FreshOK, RivalsOK, LookPC
<1>10. LeaseOK
  <2> SUFFICES ASSUME row.lease # NoLease
               PROVE  Holding(proc[row.lease])
    BY DEF LeaseOK
  <2>1. ~scene.fresh /\ row.lease = 1
    BY <1>1 DEF NewRow, LiveRow
  <2>2. proc[1] = Asleep
    BY <1>1, <1>2, <2>1 DEF Cast
  <2> QED BY <2>1, <2>2, <1>3, AsleepType DEF Holding
<1> QED BY <1>7, <1>8, <1>9, <1>10 DEF Inv

LEMMA NextInv == Inv /\ [Next]_lifecycleVars => Inv'
<1> SUFFICES ASSUME Inv, [Next]_lifecycleVars PROVE Inv'
  OBVIOUS
<1>1. CASE UNCHANGED lifecycleVars
  BY <1>1 DEF lifecycleVars, Inv, RowOK, ProcsOK, FreshOK, RivalsOK, LeaseOK, Operable, Past, Holding
<1>2. ASSUME NEW p \in Proc, Step(p) \/ Redo(p) \/ KickDies(p)
      PROVE  Inv'
  <2>1. Moves(p)
    BY <1>2, KickStepMoves, WorkflowStepMoves, EvaluationStepMoves, ProvisionStepMoves,
       TurnStepMoves, SmallRequestStepMoves, StopRequestStepMoves, RedoMoves, KickDiesMoves
       DEF Step
  <2> QED BY <2>1, MovesKeepInv
<1>3. CASE Time
  BY <1>3, TimePasses
<1>4. CASE AllDone
  BY <1>4, <1>1 DEF AllDone
<1> QED BY <1>1, <1>2, <1>3, <1>4 DEF Next

\* The invariant holds in every state: sandboxLifecycleWorkflow, evaluateSandboxLifecycle
\* and the requests of the web interface, in any number and any order.
THEOREM InvHolds == Spec => []Inv
<1> QED BY InitInv, NextInv, PTL DEF Spec

\* The row never describes a lifetime the provider has not granted, and has an expiry
\* exactly while its sandbox state is runtime state.
THEOREM TypeCorrect == Spec => []TypeOK
<1>1. Inv => TypeOK
  BY DEF Inv, RowOK, ProcsOK, TypeOK
<1> QED BY <1>1, InvHolds, PTL

\* evaluateSandboxLifecycle does not stop the machine under a turn that had claimed
\* its stream when the timers were read again.
THEOREM OlderStreamsAreSpared == Spec => []SparesOlderStreams
<1>1. Inv => SparesOlderStreams
  <2> SUFFICES ASSUME Inv, NEW p \in Proc, proc[p].pc = "stop",
                      NEW q \in proc[p].rivals, q \in Streams
               PROVE  FALSE
    BY DEF SparesOlderStreams
  <2>1. q \in Proc /\ proc[q].kind \in ChatKind /\ proc[q].pc \in OffStream
    BY DEF Inv, RivalsOK
  <2>2. Streaming(q)
    BY DEF Streams
  <2>3. proc[q].pc # "archFailWrite" /\ proc[q].pc \notin {"new", "force", "done"} \cup EvalPC
    BY <2>1, <2>2 DEF Streaming, EvalPC, StopPC
  <2> QED BY <2>1, <2>3 DEF OffStream, EvalPC, StopPC
<1> QED BY <1>1, InvHolds, PTL

\* Nor does it go on to stop a sandbox whose timers were started again before it
\* compared them.
THEOREM FreshActivityIsSpared == Spec => []SparesFreshActivity
<1>1. Inv => SparesFreshActivity
  BY DEF Inv, ProcsOK, SparesFreshActivity
<1> QED BY <1>1, InvHolds, PTL

\* While nothing fails, the lease that keeps kicks from starting a workflow names one
\* that is still on its way.
THEOREM LeasesAreHeld == Spec => []LeaseHasHolder
<1>1. Inv => LeaseHasHolder
  BY DEF Inv, LeaseOK, Holding, LeaseHasHolder
<1> QED BY <1>1, InvHolds, PTL

-----------------------------------------------------------------------------
(* The handle of a running machine                                          *)
(*                                                                          *)
(* Where nobody starts the machine, and no failing reconnection declares it *)
(* lost, the row gives the handle up only after the machine was stopped:    *)
(* whoever is about to clear the row has stopped it, or connected to it     *)
(* when it was stopped, and it has stayed so.                               *)

NobodyStartsIt ==
  \A scene \in Scenes : \A p \in DOMAIN scene.kinds : scene.kinds[p] \cap Provisioners = {}

NobodyReconnects ==
  \A scene \in Scenes : \A p \in DOMAIN scene.kinds : "reconnect" \notin scene.kinds[p]

HaltedPC   == {"hibernate", "archClear", "clear"}
AttachedPC == {"stream2", "recheck", "stream3", "stop", "archStop", "halt"}
TurnPC     == {"read", "work", "refresh", "persistConnect", "persist", "final", "force"}

HandleInv ==
  /\ vm.on => vm.life # 0
  /\ faults = 0 \/ NobodyReconnects => (vm.on => Operable)
  /\ \A p \in Proc :
       /\ proc[p].kind \notin Provisioners
       /\ NobodyReconnects => proc[p].kind # "reconnect"
       /\ proc[p].pc \notin TurnPC
       /\ proc[p].pc = "extend" => proc[p].kind = "extend"
       /\ proc[p].kind = "extend" /\ proc[p].pc = "write" => proc[p].hexp # 0
       /\ proc[p].kind = "reconnect" /\ proc[p].pc = "write" /\ faults = 0 =>
            proc[p].on /\ (proc[p].hexp = 0 => ~vm.on)
       /\ proc[p].pc \in HaltedPC => ~vm.on
       /\ proc[p].pc \in AttachedPC /\ ~proc[p].on => ~vm.on

\* What a step of p may do.
HandleSafe(p) ==
  /\ vm'.on => vm.on
  /\ faults' = 0 \/ NobodyReconnects =>
       row'.handle = row.handle \/ row'.handle = "live" \/ ~vm'.on
  /\ proc'[p].kind \notin Provisioners
  /\ NobodyReconnects => proc'[p].kind # "reconnect"
  /\ proc'[p].pc \notin TurnPC
  /\ proc'[p].pc = "extend" => proc'[p].kind = "extend"
  /\ proc'[p].kind = "extend" /\ proc'[p].pc = "write" => proc'[p].hexp # 0
  /\ proc'[p].kind = "reconnect" /\ proc'[p].pc = "write" /\ faults' = 0 =>
       proc'[p].on /\ (proc'[p].hexp = 0 => ~vm'.on)
  /\ proc'[p].pc \in HaltedPC => ~vm'.on
  /\ proc'[p].pc \in AttachedPC /\ ~proc'[p].on => ~vm'.on

\* And what most steps do: nothing of this is touched.
Quiet(p) ==
  /\ vm'.on = vm.on
  /\ row'.handle = row.handle
  /\ proc'[p].kind \in {proc[p].kind, "lifecycle", "inline", "status"}
  /\ proc'[p].pc \notin HaltedPC \cup AttachedPC \cup TurnPC
  /\ proc'[p].pc = "extend" => proc'[p].kind = "extend"
  /\ proc'[p].pc = "write" => proc'[p].kind \notin {"extend", "reconnect"}

LEMMA QuietIsSafe ==
  ASSUME HandleInv, NEW p \in Proc, Quiet(p)
  PROVE  HandleSafe(p)
<1>1. proc'[p].kind \notin Provisioners /\ (NobodyReconnects => proc'[p].kind # "reconnect")
  BY DEF HandleInv, Quiet, Provisioners, ChatKind
<1> QED BY <1>1 DEF Quiet, HandleSafe

LEMMA HandleStep ==
  ASSUME Inv, HandleInv, NEW p \in Proc, Moves(p), HandleSafe(p)
  PROVE  HandleInv'
<1>t. /\ vm'.life \in Nat /\ vm.life \in Nat /\ vm.life <= vm'.life
      /\ faults' = 0 => faults = 0
  <2>1. /\ vm' \in VmRec /\ vm \in VmRec /\ faults' \in 0..MaxFaults /\ faults \in 0..MaxFaults
        /\ vm.life <= vm'.life /\ faults <= faults'
    BY Types DEF Moves, RowMoves
  <2> QED BY <2>1, SessionParams DEF VmRec, Life
<1>1. (vm'.on => vm.on) /\ (vm'.on => vm'.life # 0)
  BY <1>t DEF HandleInv, HandleSafe
<1>2. faults' = 0 \/ NobodyReconnects => (vm'.on => row'.handle = "live")
  BY <1>t DEF HandleInv, HandleSafe, Operable
<1>3. ASSUME NEW q \in Proc
      PROVE  /\ proc'[q].kind \notin Provisioners
             /\ NobodyReconnects => proc'[q].kind # "reconnect"
             /\ proc'[q].pc \notin TurnPC
             /\ proc'[q].pc = "extend" => proc'[q].kind = "extend"
             /\ proc'[q].kind = "extend" /\ proc'[q].pc = "write" => proc'[q].hexp # 0
             /\ proc'[q].kind = "reconnect" /\ proc'[q].pc = "write" /\ faults' = 0 =>
                  proc'[q].on /\ (proc'[q].hexp = 0 => ~vm'.on)
             /\ proc'[q].pc \in HaltedPC => ~vm'.on
             /\ proc'[q].pc \in AttachedPC /\ ~proc'[q].on => ~vm'.on
  <2>1. CASE q = p
    BY <2>1 DEF HandleSafe
  <2>2. CASE proc'[q] = proc[q]
    BY <1>t, <1>1, <2>2 DEF HandleInv
  <2>3. CASE proc'[q] = Blank("lifecycle", "kick")
    BY <2>3, ChatKindNot DEF Blank, HaltedPC, AttachedPC, TurnPC
  <2> QED BY <2>1, <2>2, <2>3 DEF Moves, ProcMoves
<1> QED BY <1>1, <1>2, <1>3 DEF HandleInv, Operable

LEMMA GoesTo ==
  ASSUME Inv, NEW p \in Proc, NEW pc, GoTo(p, pc)
  PROVE  /\ proc'[p].kind = proc[p].kind /\ proc'[p].pc = pc
         /\ pc # "done" => proc'[p].on = proc[p].on /\ proc'[p].hexp = proc[p].hexp
<1>t. proc \in [Proc -> ProcRec(PC)] /\ proc[p] \in ProcRec(PC)
  BY Types
<1>1. CASE pc = "done"
  BY <1>1, <1>t DEF GoTo, Blank
<1>2. CASE pc # "done"
  BY <1>2, <1>t DEF GoTo, ProcRec
<1> QED BY <1>1, <1>2

LEMMA Forgets ==
  ASSUME Inv, NEW p \in Proc, NEW pc, Forget(p, pc)
  PROVE  proc'[p].kind = proc[p].kind /\ proc'[p].pc = pc
<1>t. proc \in [Proc -> ProcRec(PC)]
  BY Types
<1> QED BY <1>t DEF Forget, Blank

LEMMA Returns ==
  ASSUME Inv, NEW p \in Proc, NEW again \in BOOLEAN, Return(p, again)
  PROVE  proc'[p].kind = proc[p].kind /\ proc'[p].pc \in {"done", "decide", "release"}
<1>1. PICK pc \in {"done", "decide", "release"} : Forget(p, pc)
  BY DEF Return
<1> QED BY <1>1, Forgets

\* Where a step that touches none of this may lead.
LoudPC == HaltedPC \cup AttachedPC \cup TurnPC \cup {"write", "extend"}

LEMMA GoesQuietly ==
  ASSUME Inv, HandleInv, NEW p \in Proc, NEW pc, pc \notin LoudPC,
         GoTo(p, pc) \/ Forget(p, pc),
         vm'.on = vm.on, row'.handle = row.handle
  PROVE  HandleSafe(p)
<1>1. proc'[p].kind = proc[p].kind /\ proc'[p].pc = pc
  BY GoesTo, Forgets
<1>2. Quiet(p)
  BY <1>1 DEF Quiet, LoudPC
<1> QED BY <1>2, QuietIsSafe

LEMMA ReturnsQuietly ==
  ASSUME Inv, HandleInv, NEW p \in Proc, NEW again \in BOOLEAN, Return(p, again),
         vm'.on = vm.on, row'.handle = row.handle
  PROVE  HandleSafe(p)
<1>1. PICK pc \in {"done", "decide", "release"} : Forget(p, pc)
  BY DEF Return
<1>2. pc \notin LoudPC
  BY DEF LoudPC, HaltedPC, AttachedPC, TurnPC
<1> QED BY <1>1, <1>2, GoesQuietly

LEMMA BecomesQuietly ==
  ASSUME Inv, HandleInv, NEW p \in Proc, NEW r, proc'[p] = r,
         r.kind \in {proc[p].kind, "lifecycle", "inline", "status"}, r.pc \notin LoudPC,
         vm'.on = vm.on, row'.handle = row.handle
  PROVE  HandleSafe(p)
<1>1. Quiet(p)
  BY DEF Quiet, LoudPC
<1> QED BY <1>1, QuietIsSafe

LEMMA KickKeeps ==
  ASSUME Inv, HandleInv, NEW p \in Proc, KickStep(p)
  PROVE  HandleSafe(p)
<1>t. row \in RowRec /\ proc \in [Proc -> ProcRec(PC)] /\ proc[p] \in ProcRec(PC)
  BY Types
<1>l. \A pc \in KickPC \cup {"decide", "done", "evaluate"} : pc \notin LoudPC
  BY DEF LoudPC, HaltedPC, AttachedPC, TurnPC, KickPC
<1>i. ASSUME Inline(p), vm' = vm, row'.handle = row.handle
      PROVE  HandleSafe(p)
  <2>1. proc'[p] = Blank("inline", "evaluate")
    BY <1>t, <1>i DEF Inline
  <2>2. Blank("inline", "evaluate").kind = "inline" /\ Blank("inline", "evaluate").pc = "evaluate"
    BY DEF Blank
  <2> QED BY <2>1, <2>2, <1>i, <1>l, BecomesQuietly
<1>w. \A q \in Proc \cup {NoLease} : [row EXCEPT !.lease = q].handle = row.handle
  BY <1>t DEF RowRec
<1>1. CASE KickRead(p)
  <2>1. PICK pc \in {"claim", "done"} : GoTo(p, pc)
    BY <1>1 DEF KickRead
  <2>2. vm' = vm /\ row' = row
    BY <1>1 DEF KickRead
  <2> QED BY <2>1, <2>2, <1>l, GoesQuietly DEF KickPC
<1>2. CASE KickStale(p)
  <2>1. /\ proc' = [proc EXCEPT ![p].pc = "unstale", ![p].live = Operable]
        /\ vm' = vm /\ row' = row
    BY <1>2 DEF KickStale
  <2>2. proc'[p].kind = proc[p].kind /\ proc'[p].pc = "unstale"
    BY <1>t, <2>1 DEF ProcRec
  <2> QED BY <2>1, <2>2, <1>l, BecomesQuietly DEF KickPC
<1>3. CASE Unstale(p)
  <2>1. PICK pc \in {"claim", "done"} : GoTo(p, pc)
    BY <1>3 DEF Unstale
  <2>2. vm' = vm /\ row'.handle = row.handle
    BY <1>3, <1>w DEF Unstale
  <2> QED BY <2>1, <2>2, <1>l, GoesQuietly DEF KickPC
<1>4. CASE Claim(p)
  <2>1. PICK pc \in {"start", "done"} : GoTo(p, pc)
    BY <1>4 DEF Claim
  <2>2. vm' = vm /\ row'.handle = row.handle
    BY <1>4, <1>w DEF Claim
  <2> QED BY <2>1, <2>2, <1>l, GoesQuietly DEF KickPC
<1>5. CASE Start(p)
  <2>1. PICK pc \in {"decide", "unclaim"} : GoTo(p, pc)
    BY <1>5 DEF Start
  <2>2. vm' = vm /\ row' = row
    BY <1>5 DEF Start
  <2> QED BY <2>1, <2>2, <1>l, GoesQuietly DEF KickPC
<1>6. CASE Unclaim(p)
  <2>1. vm' = vm /\ row' = row /\ (GoTo(p, "unclaimWrite") \/ Inline(p))
    BY <1>6 DEF Unclaim
  <2> QED BY <2>1, <1>i, <1>l, GoesQuietly DEF KickPC
<1>7. CASE UnclaimWrite(p)
  <2>1. vm' = vm /\ row'.handle = row.handle /\ Inline(p)
    BY <1>7, <1>w DEF UnclaimWrite
  <2> QED BY <2>1, <1>i
<1> QED BY <1>1, <1>2, <1>3, <1>4, <1>5, <1>6, <1>7 DEF KickStep

LEMMA WorkflowKeeps ==
  ASSUME Inv, HandleInv, NEW p \in Proc, WorkflowStep(p)
  PROVE  HandleSafe(p)
<1>t. row \in RowRec /\ proc \in [Proc -> ProcRec(PC)] /\ proc[p] \in ProcRec(PC)
  BY Types
<1>l. \A pc \in DecidePC \cup ReleasePC \cup {"sleep", "evaluate", "done"} : pc \notin LoudPC
  BY DEF LoudPC, HaltedPC, AttachedPC, TurnPC, DecidePC, ReleasePC
<1>w. \A q \in Proc \cup {NoLease} : [row EXCEPT !.lease = q].handle = row.handle
  BY <1>t DEF RowRec
<1>v. vm' = vm /\ row'.handle = row.handle
  BY <1>w DEF WorkflowStep, Decide, ReadLease, WriteLease, VerifyLease, Wake, Release, ReleaseWrite
<1>1. CASE Decide(p)
  <2>1. CASE GoTo(p, "release")
    BY <2>1, <1>v, <1>l, GoesQuietly DEF ReleasePC
  <2>2. CASE proc' = [proc EXCEPT ![p] = [@ EXCEPT !.pc = "lease", !.note = IsArchived,
                                             !.timer = row.timer, !.rexp = row.rexp]]
    <3>1. proc'[p].kind = proc[p].kind /\ proc'[p].pc = "lease"
      BY <1>t, <2>2 DEF ProcRec
    <3> QED BY <3>1, <1>v, <1>l, BecomesQuietly DEF DecidePC
  <2> QED BY <1>1, <2>1, <2>2 DEF Decide
<1>2. CASE Wake(p)
  BY <1>2, <1>v, <1>l, GoesQuietly DEF Wake
<1>3. CASE ReadLease(p) \/ WriteLease(p) \/ VerifyLease(p) \/ Release(p) \/ ReleaseWrite(p)
  <2>1. PICK pc \in DecidePC \cup ReleasePC \cup {"sleep", "done"} : GoTo(p, pc)
    BY <1>3 DEF ReadLease, WriteLease, VerifyLease, Release, ReleaseWrite, DecidePC, ReleasePC
  <2> QED BY <2>1, <1>v, <1>l, GoesQuietly
<1> QED BY <1>1, <1>2, <1>3 DEF WorkflowStep

LEMMA FaultsKeep ==
  ASSUME Inv, HandleInv, NEW p \in Proc, Redo(p) \/ KickDies(p)
  PROVE  HandleSafe(p)
<1>1. PICK pc \in {"decide", "evaluate", "release", "done"} : GoTo(p, pc) \/ Forget(p, pc)
  BY DEF Redo, KickDies
<1>2. vm' = vm /\ row' = row /\ pc \notin LoudPC
  BY DEF Redo, KickDies, LoudPC, HaltedPC, AttachedPC, TurnPC
<1> QED BY <1>1, <1>2, GoesQuietly

\* Connecting tells whether the machine runs.
LEMMA AttachKeeps ==
  ASSUME Inv, HandleInv, NEW p \in Proc, NEW pc \in AttachedPC,
         proc' = [proc EXCEPT ![p].pc = pc, ![p].on = vm.on], UNCHANGED <<vm, row>>
  PROVE  HandleSafe(p)
<1>t. proc \in [Proc -> ProcRec(PC)] /\ proc[p] \in ProcRec(PC)
  BY Types
<1>1. proc'[p].kind = proc[p].kind /\ proc'[p].pc = pc /\ proc'[p].on = vm.on
  BY <1>t DEF ProcRec
<1>2. proc'[p].pc \notin HaltedPC \cup TurnPC \cup {"write", "extend"}
  BY <1>1 DEF HaltedPC, AttachedPC, TurnPC
<1> QED BY <1>1, <1>2 DEF HandleInv, HandleSafe

\* A connection is passed on.
LEMMA PassesOn ==
  ASSUME Inv, HandleInv, NEW p \in Proc, proc[p].pc \in AttachedPC,
         proc'[p].kind = proc[p].kind, proc'[p].on = proc[p].on, proc'[p].pc \in AttachedPC,
         UNCHANGED <<vm, row>>
  PROVE  HandleSafe(p)
<1>1. proc'[p].pc \notin HaltedPC \cup TurnPC \cup {"write", "extend"}
  BY DEF HaltedPC, AttachedPC, TurnPC
<1> QED BY <1>1 DEF HandleInv, HandleSafe

\* Stopping a machine that runs, or that did not when it was connected to.
LEMMA StopKeeps ==
  ASSUME Inv, HandleInv, NEW p \in Proc, proc[p].pc \in AttachedPC, StopMachine(p),
         NEW pc \in HaltedPC, GoTo(p, pc), row' = row
  PROVE  HandleSafe(p)
<1>t. vm \in VmRec
  BY Types
<1>1. proc'[p].kind = proc[p].kind /\ proc'[p].pc = pc
  BY GoesTo
<1>2. ~vm'.on
  BY <1>t DEF HandleInv, StopMachine, VmRec
<1>3. proc'[p].pc \notin AttachedPC \cup TurnPC \cup {"write", "extend"}
  BY <1>1 DEF HaltedPC, AttachedPC, TurnPC
<1> QED BY <1>1, <1>2, <1>3 DEF HandleInv, HandleSafe

\* The handle of a machine that does not run may go.
LEMMA ClearKeeps ==
  ASSUME Inv, HandleInv, NEW p \in Proc, proc[p].pc \in HaltedPC, vm' = vm,
         NEW pc, pc \notin LoudPC, GoTo(p, pc) \/ Forget(p, pc)
  PROVE  HandleSafe(p)
<1>1. proc'[p].kind = proc[p].kind /\ proc'[p].pc = pc
  BY GoesTo, Forgets
<1>2. ~vm'.on
  BY DEF HandleInv
<1> QED BY <1>1, <1>2 DEF HandleInv, HandleSafe, LoudPC

LEMMA RecheckKeeps ==
  ASSUME Inv, HandleInv, NEW p \in Proc, Recheck(p)
  PROVE  HandleSafe(p)
<1>t. proc \in [Proc -> ProcRec(PC)] /\ proc[p] \in ProcRec(PC)
  BY Types
<1> DEFINE refreshed == Operable /\ (row.timer # proc[p].timer \/ row.rexp # proc[p].rexp) /\ ~Due
           pc == IF refreshed THEN "restore" ELSE "stream3"
<1>1. proc'[p] = [Blank(proc[p].kind, pc) EXCEPT
                   !.hexp = IF refreshed THEN row.hexp ELSE proc[p].hexp,
                   !.on = proc[p].on,
                   !.spare = ~refreshed /\ Operable /\ ~Due,
                   !.rivals = IF refreshed THEN {} ELSE Streams]
  BY <1>t DEF Recheck, RecheckWhen
<1>p. pc \in {"restore", "stream3"}
  OBVIOUS
<1> HIDE DEF refreshed, pc
<1>2. proc'[p].kind = proc[p].kind /\ proc'[p].pc = pc /\ proc'[p].on = proc[p].on
  BY <1>1 DEF Blank
<1>3. vm' = vm /\ row' = row /\ proc[p].pc = "recheck"
  BY DEF Recheck, RecheckWhen
<1>4. CASE pc = "restore"
  <2>1. Quiet(p)
    BY <1>2, <1>3, <1>4 DEF Quiet, HaltedPC, AttachedPC, TurnPC
  <2> QED BY <2>1, QuietIsSafe
<1>5. CASE pc = "stream3"
  <2>1. proc[p].pc \in AttachedPC /\ proc'[p].pc \in AttachedPC
    BY <1>2, <1>3, <1>5 DEF AttachedPC
  <2> QED BY <2>1, <1>2, <1>3, PassesOn
<1> QED BY <1>p, <1>4, <1>5

LEMMA EvaluationKeeps ==
  ASSUME Inv, HandleInv, NEW p \in Proc, EvaluationStep(p)
  PROVE  HandleSafe(p)
<1>t. row \in RowRec /\ vm \in VmRec /\ proc \in [Proc -> ProcRec(PC)] /\ proc[p] \in ProcRec(PC)
  BY Types
<1>l. /\ \A pc \in {"decide", "release", "done", "stream1", "evalFail", "restore", "mark", "attach",
                    "archConnect", "archFail", "archFailWrite"} : pc \notin LoudPC
      /\ {"hibernate", "archClear"} \subseteq HaltedPC
      /\ {"stream2", "recheck", "stream3", "stop", "archStop"} \subseteq AttachedPC
  BY DEF LoudPC, HaltedPC, AttachedPC, TurnPC
<1>w. \A l, e, r : /\ [row EXCEPT !.lc = l].handle = row.handle
                   /\ [row EXCEPT !.lc = l, !.rexp = e].handle = row.handle
                   /\ [row EXCEPT !.lc = l, !.lease = r].handle = row.handle
  BY <1>t DEF RowRec
<1>1. CASE Evaluate(p)
  <2>1. vm' = vm /\ row' = row
    BY <1>1 DEF Evaluate
  <2>2. CASE Return(p, FALSE) \/ Return(p, TRUE)
    BY <2>1, <2>2, ReturnsQuietly
  <2>3. CASE Forget(p, "archConnect")
    BY <2>1, <2>3, <1>l, GoesQuietly
  <2>4. CASE proc' = [proc EXCEPT ![p] = [Blank(@.kind, "stream1") EXCEPT
                       !.timer = row.timer, !.rexp = row.rexp, !.hexp = row.hexp]]
    <3>1. proc'[p].kind = proc[p].kind /\ proc'[p].pc = "stream1"
      BY <1>t, <2>4 DEF Blank
    <3> QED BY <2>1, <3>1, <1>l, BecomesQuietly
  <2> QED BY <1>1, <2>2, <2>3, <2>4 DEF Evaluate
<1>2. CASE FirstCheck(p)
  <2>1. vm' = vm /\ row' = row /\ (GoTo(p, "mark") \/ Return(p, TRUE))
    BY <1>2 DEF FirstCheck
  <2> QED BY <2>1, <1>l, GoesQuietly, ReturnsQuietly
<1>3. CASE Mark(p)
  <2>1. vm' = vm /\ row'.handle = row.handle /\ GoTo(p, "attach")
    BY <1>3, <1>w DEF Mark
  <2> QED BY <2>1, <1>l, GoesQuietly
<1>4. CASE Connect(p)
  <2>1. vm' = vm /\ row' = row
    BY <1>4 DEF Connect
  <2>2. CASE proc' = [proc EXCEPT ![p].pc = "stream2", ![p].on = vm.on]
    BY <2>1, <2>2, <1>l, AttachKeeps
  <2>3. CASE GoTo(p, "evalFail")
    BY <2>1, <2>3, <1>l, GoesQuietly
  <2> QED BY <1>4, <2>2, <2>3 DEF Connect
<1>5. CASE SecondCheck(p) \/ FinalCheck(p)
  <2>1. vm' = vm /\ row' = row /\ proc[p].pc \in AttachedPC
    BY <1>5, <1>l DEF SecondCheck, FinalCheck
  <2>2. PICK pc \in {"recheck", "stop", "restore"} : GoTo(p, pc)
    BY <1>5 DEF SecondCheck, FinalCheck
  <2>3. CASE pc = "restore"
    BY <2>1, <2>2, <2>3, <1>l, GoesQuietly
  <2>4. CASE pc \in {"recheck", "stop"}
    <3>1. proc'[p].kind = proc[p].kind /\ proc'[p].pc = pc /\ proc'[p].on = proc[p].on
      BY <2>2, <2>4, GoesTo
    <3> QED BY <2>1, <2>4, <3>1, <1>l, PassesOn
  <2> QED BY <2>3, <2>4
<1>6. CASE Restore(p)
  <2>1. vm' = vm /\ row'.handle = row.handle /\ Return(p, TRUE)
    BY <1>6, <1>w DEF Restore
  <2> QED BY <2>1, ReturnsQuietly
<1>7. CASE Stop(p) \/ ArchStop(p)
  <2>1. row' = row /\ proc[p].pc \in AttachedPC
    BY <1>7, <1>l DEF Stop, ArchStop
  <2>2. CASE StopMachine(p) /\ \E pc \in {"hibernate", "archClear"} : GoTo(p, pc)
    BY <2>1, <2>2, <1>l, StopKeeps
  <2>3. CASE vm' = vm /\ \E pc \in {"evalFail", "archFail"} : GoTo(p, pc)
    BY <2>1, <2>3, <1>l, GoesQuietly
  <2> QED BY <1>7, <2>2, <2>3 DEF Stop, ArchStop
<1>8. CASE Hibernate(p) \/ ArchClear(p)
  <2>1. vm' = vm /\ proc[p].pc \in HaltedPC /\ Return(p, FALSE)
    BY <1>8, <1>l DEF Hibernate, ArchClear
  <2>2. PICK pc \in {"done", "decide", "release"} : Forget(p, pc)
    BY <2>1 DEF Return
  <2> QED BY <2>1, <2>2, <1>l, ClearKeeps
<1>9. CASE EvaluationFails(p)
  <2>1. vm' = vm /\ row'.handle = row.handle /\ Return(p, FALSE)
    BY <1>9, <1>w DEF EvaluationFails
  <2> QED BY <2>1, ReturnsQuietly
<1>10. CASE ArchConnect(p)
  <2>1. vm' = vm /\ row' = row
    BY <1>10 DEF ArchConnect
  <2>2. CASE proc' = [proc EXCEPT ![p].pc = "archStop", ![p].on = vm.on]
    BY <2>1, <2>2, <1>l, AttachKeeps
  <2>3. CASE GoTo(p, "archFail")
    BY <2>1, <2>3, <1>l, GoesQuietly
  <2> QED BY <1>10, <2>2, <2>3 DEF ArchConnect
<1>11. CASE ArchFail(p)
  <2>1. vm' = vm /\ row'.handle = row.handle
    BY <1>11, <1>w DEF ArchFail
  <2>2. GoTo(p, "archFailWrite") \/ GoTo(p, "done") \/ Return(p, TRUE)
    BY <1>11 DEF ArchFail
  <2> QED BY <2>1, <2>2, <1>l, GoesQuietly, ReturnsQuietly
<1>12. CASE ArchFailWrite(p)
  <2>1. vm' = vm /\ row'.handle = row.handle /\ GoTo(p, "done")
    BY <1>12, <1>t DEF ArchFailWrite, SetArchived, NoTimer, RowRec
  <2> QED BY <2>1, <1>l, GoesQuietly
<1>13. CASE Recheck(p)
  BY <1>13, RecheckKeeps
<1> QED BY <1>1, <1>2, <1>3, <1>4, <1>5, <1>6, <1>7, <1>8, <1>9, <1>10, <1>11, <1>12, <1>13
        DEF EvaluationStep

\* A turn that is not there does not step, and nobody provisions.
LEMMA NobodyProvisions ==
  ASSUME Inv, HandleInv, NEW p \in Proc
  PROVE  ~ProvisionStep(p) /\ ~TurnStep(p)
<1>1. proc[p].kind \notin Provisioners /\ proc[p].kind \notin ChatKind /\ proc[p].kind # "create"
  BY DEF HandleInv, Provisioners
<1>2. ~ProvisionStep(p)
  BY <1>1 DEF ProvisionStep, ClaimStream, ReadToProvision, Provision, ReleaseUnusable, RecordSandbox
<1>3. ~TurnStep(p)
  BY DEF HandleInv, TurnPC, TurnStep, Work, RefreshLifecycleActivity, PersistConnect,
         PersistSandboxState, EndStream, ForceDue
<1> QED BY <1>2, <1>3

LEMMA StopRequestKeeps ==
  ASSUME Inv, HandleInv, NEW p \in Proc, StopRequestStep(p)
  PROVE  HandleSafe(p)
<1>t. row \in RowRec /\ vm \in VmRec /\ proc \in [Proc -> ProcRec(PC)] /\ proc[p] \in ProcRec(PC)
  BY Types
<1>l. /\ \A pc \in {"connect", "done", "archive", "finalize", "archConnect"} : pc \notin LoudPC
      /\ "clear" \in HaltedPC /\ "halt" \in AttachedPC
  BY DEF LoudPC, HaltedPC, AttachedPC, TurnPC
<1>1. CASE ReadToStop(p) \/ ReadToArchive(p) \/ Finalize(p)
  <2>1. vm' = vm /\ row' = row
    BY <1>1 DEF ReadToStop, ReadToArchive, Finalize
  <2>2. PICK pc \in {"connect", "done", "archive", "archConnect"} : GoTo(p, pc) \/ Forget(p, pc)
    BY <1>1 DEF ReadToStop, ReadToArchive, Finalize
  <2> QED BY <2>1, <2>2, <1>l, GoesQuietly
<1>2. CASE ConnectToStop(p)
  <2>1. vm' = vm /\ row' = row
    BY <1>2 DEF ConnectToStop
  <2>2. CASE proc' = [proc EXCEPT ![p].pc = "halt", ![p].on = vm.on]
    BY <2>1, <2>2, <1>l, AttachKeeps
  <2>3. CASE GoTo(p, "done")
    BY <2>1, <2>3, <1>l, GoesQuietly
  <2> QED BY <1>2, <2>2, <2>3 DEF ConnectToStop
<1>3. CASE Halt(p)
  <2>1. row' = row /\ proc[p].pc \in AttachedPC
    BY <1>3, <1>l DEF Halt
  <2>2. CASE StopMachine(p) /\ GoTo(p, "clear")
    BY <2>1, <2>2, <1>l, StopKeeps
  <2>3. CASE vm' = vm /\ GoTo(p, "done")
    BY <2>1, <2>3, <1>l, GoesQuietly
  <2> QED BY <1>3, <2>2, <2>3 DEF Halt
<1>4. CASE RecordStop(p)
  <2>1. vm' = vm /\ proc[p].pc \in HaltedPC /\ GoTo(p, "done")
    BY <1>4, <1>l DEF RecordStop
  <2> QED BY <2>1, <1>l, ClearKeeps
<1>5. CASE Archive(p)
  <2>1. vm' = vm /\ row'.handle = row.handle /\ GoTo(p, "finalize")
    BY <1>5, <1>t DEF Archive, SetArchived, NoTimer, RowRec
  <2> QED BY <2>1, <1>l, GoesQuietly
<1>6. CASE ReadToUnarchive(p)
  <2>1. PICK pc \in {"write", "done"} : GoTo(p, pc)
    BY <1>6 DEF ReadToUnarchive
  <2>2. proc'[p].kind = "unarchive" /\ proc'[p].pc = pc
    BY <2>1, <1>6, GoesTo DEF ReadToUnarchive
  <2>3. vm' = vm /\ row' = row
    BY <1>6 DEF ReadToUnarchive
  <2>4. proc'[p].pc \notin HaltedPC \cup AttachedPC \cup TurnPC
    BY <2>2 DEF HaltedPC, AttachedPC, TurnPC
  <2>5. Quiet(p)
    BY <2>2, <2>3, <2>4, <1>6 DEF Quiet, ReadToUnarchive
  <2> QED BY <2>5, QuietIsSafe
<1>7. CASE Unarchive(p)
  <2>1. vm' = vm /\ row'.handle = row.handle /\ GoTo(p, "done")
    BY <1>7, <1>t DEF Unarchive, RowRec
  <2> QED BY <2>1, <1>l, GoesQuietly
<1> QED BY <1>1, <1>2, <1>3, <1>4, <1>5, <1>6, <1>7 DEF StopRequestStep

\* Extending leaves the row with a handle.
LEMMA ExtendKeeps ==
  ASSUME Inv, HandleInv, NEW p \in Proc,
         ReadToExtend(p) \/ ConnectToExtend(p) \/ ExtendTimeout(p) \/ RecordExtension(p)
  PROVE  HandleSafe(p)
<1>t. row \in RowRec /\ vm \in VmRec /\ proc \in [Proc -> ProcRec(PC)] /\ proc[p] \in ProcRec(PC)
  BY Types
<1>l. \A pc \in {"connect", "done", "kick"} : pc \notin LoudPC
  BY DEF LoudPC, HaltedPC, AttachedPC, TurnPC
<1>1. CASE ReadToExtend(p)
  <2>1. vm' = vm /\ row' = row /\ (Remember(p, "connect") \/ GoTo(p, "done"))
    BY <1>1 DEF ReadToExtend
  <2>2. CASE Remember(p, "connect")
    <3>1. proc'[p].kind = proc[p].kind /\ proc'[p].pc = "connect"
      BY <1>t, <2>2 DEF Remember, ProcRec
    <3> QED BY <2>1, <3>1, <1>l, BecomesQuietly
  <2> QED BY <2>1, <2>2, <1>l, GoesQuietly
<1>2. CASE ConnectToExtend(p)
  <2>1. PICK pc \in {"extend", "done"} : GoTo(p, pc)
    BY <1>2 DEF ConnectToExtend
  <2>2. vm' = vm /\ row' = row /\ proc[p].kind = "extend"
    BY <1>2 DEF ConnectToExtend
  <2>3. proc'[p].kind = "extend" /\ proc'[p].pc = pc
    BY <2>1, <2>2, GoesTo
  <2>4. Quiet(p)
    BY <2>2, <2>3 DEF Quiet, HaltedPC, AttachedPC, TurnPC
  <2> QED BY <2>4, QuietIsSafe
<1>3. CASE ExtendTimeout(p)
  <2>1. CASE GoTo(p, "done") /\ vm' = vm
    <3>1. row' = row
      BY <1>3 DEF ExtendTimeout
    <3> QED BY <2>1, <3>1, <1>l, GoesQuietly
  <2>2. CASE vm' = Extended(vm) /\ proc' = [proc EXCEPT ![p].pc = "write", ![p].hexp = vm'.life]
    <3>1. vm'.on = vm.on /\ vm'.life = vm.life + 1 /\ row' = row
      BY <1>t, <1>3, <2>2 DEF Extended, VmRec, ExtendTimeout
    <3>2. vm.life \in Nat
      BY <1>t, SessionParams DEF VmRec, Life
    <3>3. /\ proc'[p].kind = proc[p].kind /\ proc'[p].pc = "write" /\ proc'[p].hexp = vm'.life
      BY <1>t, <2>2 DEF ProcRec
    <3>4. proc'[p].hexp # 0
      BY <3>1, <3>2, <3>3
    <3>5. proc'[p].pc \notin HaltedPC \cup AttachedPC \cup TurnPC
      BY <3>3 DEF HaltedPC, AttachedPC, TurnPC
    <3>6. proc[p].kind = "extend"
      BY <1>3 DEF ExtendTimeout, HandleInv
    <3> QED BY <3>1, <3>3, <3>4, <3>5, <3>6 DEF HandleInv, HandleSafe
  <2> QED BY <1>3, <2>1, <2>2 DEF ExtendTimeout
<1>4. CASE RecordExtension(p)
  <2>1. proc[p].hexp # 0
    BY <1>4 DEF RecordExtension, HandleInv
  <2>2. row'.handle = "live"
    BY <1>t, <1>4, <2>1 DEF RecordExtension, SetActive, Refresh, Touch, RowRec
  <2>3. proc'[p] = Blank("lifecycle", "kick") /\ vm' = vm
    BY <1>t, <1>4 DEF RecordExtension, Kicks
  <2>4. proc'[p].kind = "lifecycle" /\ proc'[p].pc = "kick"
    BY <2>3 DEF Blank
  <2>5. proc'[p].pc \notin LoudPC
    BY <2>4, <1>l
  <2> QED BY <2>2, <2>3, <2>4, <2>5, ChatKindNot DEF HandleInv, HandleSafe, LoudPC
<1> QED BY <1>1, <1>2, <1>3, <1>4

LEMMA StatusKeeps ==
  ASSUME Inv, HandleInv, NEW p \in Proc, ReadStatus(p) \/ RecoverStatus(p) \/ Poll(p)
  PROVE  HandleSafe(p)
<1>t. row \in RowRec /\ vm \in VmRec /\ proc \in [Proc -> ProcRec(PC)] /\ proc[p] \in ProcRec(PC)
  BY Types
<1>v. vm' = vm /\ row'.handle = row.handle /\ proc[p].kind = "status"
  BY <1>t DEF ReadStatus, RecoverStatus, Poll, RowRec
<1>1. CASE Remember(p, "write")
  <2>1. proc'[p].kind = "status" /\ proc'[p].pc = "write"
    BY <1>t, <1>v, <1>1 DEF Remember, ProcRec
  <2>2. Quiet(p)
    BY <2>1, <1>v DEF Quiet, HaltedPC, AttachedPC, TurnPC
  <2> QED BY <2>2, QuietIsSafe
<1>2. CASE LeaveKick(p, Blank("status", "done"))
  <2>1. proc'[p] = Blank("status", "done")
    BY <1>2 DEF LeaveKick
  <2>2. Quiet(p)
    BY <2>1, <1>v DEF Quiet, Blank, HaltedPC, AttachedPC, TurnPC
  <2> QED BY <2>2, QuietIsSafe
<1>3. CASE GoTo(p, "done") \/ GoTo(p, "new")
  <2>1. "done" \notin LoudPC /\ "new" \notin LoudPC
    BY DEF LoudPC, HaltedPC, AttachedPC, TurnPC
  <2> QED BY <2>1, <1>3, <1>v, GoesQuietly
<1> QED BY <1>1, <1>2, <1>3 DEF ReadStatus, RecoverStatus, Poll

LEMMA ActivityKeeps ==
  ASSUME Inv, HandleInv, NEW p \in Proc, ReadActivity(p) \/ RecordActivity(p)
  PROVE  HandleSafe(p)
<1>t. row \in RowRec
  BY Types
<1>v. vm' = vm /\ row'.handle = row.handle /\ proc[p].kind = "activity"
  BY <1>t DEF ReadActivity, RecordActivity, Refresh, Touch, RowRec
<1>1. PICK pc \in {"write", "done"} : GoTo(p, pc)
  BY DEF ReadActivity, RecordActivity
<1>2. proc'[p].kind = "activity" /\ proc'[p].pc = pc
  BY <1>1, <1>v, GoesTo
<1>3. Quiet(p)
  BY <1>2, <1>v DEF Quiet, HaltedPC, AttachedPC, TurnPC
<1> QED BY <1>3, QuietIsSafe

\* A connection that did not fail tells what it found, and the machine has not been
\* started since.
LEMMA ReconnectKeeps ==
  ASSUME Inv, HandleInv, NEW p \in Proc, ReadToReconnect(p) \/ Reconnect(p) \/ RecordReconnect(p)
  PROVE  HandleSafe(p)
<1>t. /\ row \in RowRec /\ vm \in VmRec /\ proc \in [Proc -> ProcRec(PC)] /\ proc[p] \in ProcRec(PC)
      /\ faults \in Nat
  BY Types, SessionParams
<1>k. proc[p].kind = "reconnect" /\ ~NobodyReconnects /\ vm' = vm
  BY DEF HandleInv, ReadToReconnect, Reconnect, RecordReconnect
<1>p. "reconnect" \notin Provisioners
  BY DEF Provisioners, ChatKind
<1>1. CASE ReadToReconnect(p)
  <2>1. row' = row
    BY <1>1 DEF ReadToReconnect
  <2>2. CASE Remember(p, "connect")
    <3>1. proc'[p].kind = proc[p].kind /\ proc'[p].pc = "connect"
      BY <1>t, <2>2 DEF Remember, ProcRec
    <3>2. "connect" \notin LoudPC
      BY DEF LoudPC, HaltedPC, AttachedPC, TurnPC
    <3> QED BY <1>k, <2>1, <3>1, <3>2, BecomesQuietly
  <2>3. CASE GoTo(p, "done")
    <3>1. "done" \notin LoudPC
      BY DEF LoudPC, HaltedPC, AttachedPC, TurnPC
    <3> QED BY <1>k, <2>1, <2>3, <3>1, GoesQuietly
  <2> QED BY <1>1, <2>2, <2>3 DEF ReadToReconnect
<1>2. CASE Reconnect(p)
  <2>1. row' = row
    BY <1>2 DEF Reconnect
  <2>2. /\ proc'[p].kind = "reconnect" /\ proc'[p].pc = "write"
        /\ faults' = 0 => proc'[p].on /\ proc'[p].hexp = Reported(proc[p].hexp, vm)
    <3>1. CASE /\ proc' = [proc EXCEPT ![p].pc = "write", ![p].hexp = Reported(@, vm), ![p].on = TRUE]
               /\ UNCHANGED faults
      BY <1>t, <1>k, <3>1 DEF ProcRec
    <3>2. CASE /\ proc' = [proc EXCEPT ![p].pc = "write", ![p].hexp = 0, ![p].on = FALSE]
               /\ Fault
      <4>1. proc'[p].kind = "reconnect" /\ proc'[p].pc = "write"
        BY <1>t, <1>k, <3>2 DEF ProcRec
      <4>2. faults' # 0
        BY <1>t, <3>2 DEF Fault
      <4> QED BY <4>1, <4>2
    <3> QED BY <1>2, <3>1, <3>2 DEF Reconnect
  <2>3. Reported(proc[p].hexp, vm) = 0 => ~vm.on
    BY DEF Reported, HandleInv
  <2>4. proc'[p].pc \notin HaltedPC \cup AttachedPC \cup TurnPC
    BY <2>2 DEF HaltedPC, AttachedPC, TurnPC
  <2> QED BY <1>k, <1>p, <2>1, <2>2, <2>3, <2>4 DEF HandleSafe
<1>3. CASE RecordReconnect(p)
  <2>1. proc'[p].kind = "reconnect" /\ proc'[p].pc = "done"
    BY <1>3, <1>k, GoesTo DEF RecordReconnect
  <2>2. ASSUME faults' = 0
        PROVE  row'.handle = "live" \/ ~vm'.on
    <3>1. proc[p].on /\ (proc[p].hexp = 0 => ~vm.on)
      BY <1>3, <2>2 DEF RecordReconnect, HandleInv
    <3>2. proc[p].hexp # 0 => row'.handle = "live"
      BY <1>t, <1>3, <3>1 DEF RecordReconnect, RowRec
    <3> QED BY <1>k, <3>1, <3>2
  <2>3. proc'[p].pc \notin LoudPC
    BY <2>1 DEF LoudPC, HaltedPC, AttachedPC, TurnPC
  <2> QED BY <1>k, <1>p, <2>1, <2>2, <2>3 DEF HandleSafe, LoudPC
<1> QED BY <1>1, <1>2, <1>3

LEMMA SmallRequestKeeps ==
  ASSUME Inv, HandleInv, NEW p \in Proc, SmallRequestStep(p)
  PROVE  HandleSafe(p)
  BY ExtendKeeps, StatusKeeps, ActivityKeeps, ReconnectKeeps DEF SmallRequestStep

LEMMA TimeKeepsHandle ==
  ASSUME Inv, HandleInv, Time
  PROVE  HandleInv'
<1>t. row \in RowRec /\ vm \in VmRec
  BY Types
<1>1. proc' = proc
  BY DEF Time
<1>2. (vm'.on => vm.on) /\ row'.handle = row.handle /\ vm'.life = vm.life /\ faults' = faults
  BY <1>t DEF Time, IdlePasses, Ages, ProviderStops, RowRec, VmRec
<1> QED BY <1>1, <1>2 DEF HandleInv, Operable

LEMMA InitHandle == NobodyStartsIt /\ Init => HandleInv
<1> SUFFICES ASSUME NobodyStartsIt, Init PROVE HandleInv
  OBVIOUS
<1>1. PICK scene \in Scenes :
        /\ vm = IF scene.fresh THEN [on |-> FALSE, life |-> 0, past |-> 0]
                ELSE [on |-> TRUE, life |-> 1, past |-> 0]
        /\ row = IF scene.fresh THEN NewRow ELSE LiveRow
        /\ \A p \in Proc : proc[p] \in Cast(scene, p)
  BY DEF Init
<1>2. vm.on => Operable /\ vm.life # 0
  BY <1>1 DEF Operable, LiveRow
<1>3. ASSUME NEW p \in Proc
      PROVE  /\ proc[p].kind \notin Provisioners
             /\ NobodyReconnects => proc[p].kind # "reconnect"
             /\ proc[p].pc \in {"new", "sleep", "done"}
  <2>1. CASE proc[p] = Blank("lifecycle", "done") \/ proc[p] = Asleep
    <3>1. proc[p].kind = "lifecycle" /\ proc[p].pc \in {"sleep", "done"}
      <4>1. 1 \in Life /\ 1 \in Timer
        BY SessionParams, FS_CardinalityType DEF Life, Timer
      <4>2. Blank("lifecycle", "done").kind = "lifecycle" /\ Blank("lifecycle", "done").pc = "done"
        BY DEF Blank
      <4> QED BY <2>1, <4>1, <4>2, AsleepType
    <3>2. "lifecycle" \notin Provisioners
      BY ChatKindNot
    <3> QED BY <3>1, <3>2
  <2>2. CASE /\ p \in DOMAIN scene.kinds
             /\ \E kind \in scene.kinds[p] : proc[p] = Blank(kind, "new")
    BY <2>2, <1>1 DEF Blank, NobodyStartsIt, NobodyReconnects
  <2> QED BY <1>1, <2>1, <2>2 DEF Cast
<1> QED BY <1>2, <1>3 DEF HandleInv, HaltedPC, AttachedPC, TurnPC

LEMMA NextHandle == Inv /\ HandleInv /\ [Next]_lifecycleVars => HandleInv'
<1> SUFFICES ASSUME Inv, HandleInv, [Next]_lifecycleVars PROVE HandleInv'
  OBVIOUS
<1>1. CASE UNCHANGED lifecycleVars
  BY <1>1 DEF lifecycleVars, HandleInv, Operable
<1>2. ASSUME NEW p \in Proc, Step(p) \/ Redo(p) \/ KickDies(p)
      PROVE  HandleInv'
  <2>1. Moves(p)
    BY <1>2, KickStepMoves, WorkflowStepMoves, EvaluationStepMoves, ProvisionStepMoves,
       TurnStepMoves, SmallRequestStepMoves, StopRequestStepMoves, RedoMoves, KickDiesMoves
       DEF Step
  <2>2. HandleSafe(p)
    BY <1>2, KickKeeps, WorkflowKeeps, EvaluationKeeps, NobodyProvisions, SmallRequestKeeps,
       StopRequestKeeps, FaultsKeep DEF Step
  <2> QED BY <2>1, <2>2, HandleStep
<1>3. CASE Time
  BY <1>3, TimeKeepsHandle
<1>4. CASE AllDone
  BY <1>4, <1>1 DEF AllDone
<1> QED BY <1>1, <1>2, <1>3, <1>4 DEF Next

\* A machine that runs can be stopped: whatever stops and evaluations fail, in whatever
\* order, the row keeps the sandbox of evaluateSandboxLifecycle, of the archive request
\* and of the requests that stop and extend it until it is stopped.
THEOREM HandlesAreKept ==
  NobodyStartsIt /\ (NobodyReconnects \/ MaxFaults = 0) => (Spec => []HandleKept)
<1>1. ASSUME NobodyReconnects \/ MaxFaults = 0, Inv, HandleInv
      PROVE  HandleKept
  <2>1. faults = 0 \/ NobodyReconnects
    BY <1>1 DEF Inv, RowOK
  <2> QED BY <1>1, <2>1 DEF HandleInv, HandleKept
<1>2. ASSUME NobodyStartsIt, NobodyReconnects \/ MaxFaults = 0
      PROVE  Spec => []HandleKept
  <2>1. Init => HandleInv
    BY <1>2, InitHandle
  <2>2. Inv /\ HandleInv => HandleKept
    BY <1>1, <1>2
  <2> QED BY <2>1, <2>2, NextHandle, InvHolds, PTL DEF Spec
<1> QED BY <1>2

-----------------------------------------------------------------------------
(* The wake-up                                                              *)
(*                                                                          *)
(* Where nobody starts it, and while nothing fails, a running machine has   *)
(* its lease taken only by a kick that is about to claim it; its workflow   *)
(* ends only when another one holds the lease.                              *)

EndPC == {"releaseWrite", "evalFail", "unclaim", "unclaimWrite"}

AttendInv ==
  vm.on /\ faults = 0 =>
    /\ row.lease = NoLease => \E p \in Proc : proc[p].pc = "claim"
    /\ \A p \in Proc :
         /\ proc[p].pc \notin EndPC
         /\ proc[p].pc = "release" => row.lease # p
         /\ proc[p].pc = "unstale" => proc[p].live

\* What a step of p may do while the machine runs and nothing has failed.
AttendSafe(p) ==
  /\ row'.lease = NoLease => \/ proc'[p].pc = "claim"
                             \/ row.lease = NoLease /\ proc[p].pc # "claim"
  /\ proc'[p].pc \notin EndPC
  /\ proc'[p].pc = "release" => row'.lease # p
  /\ proc'[p].pc = "unstale" => proc'[p].live

LEMMA AttendStep ==
  ASSUME Inv, HandleInv, AttendInv, NEW p \in Proc, Moves(p), HandleSafe(p),
         vm'.on /\ vm.on /\ faults' = 0 /\ faults = 0 => AttendSafe(p)
  PROVE  AttendInv'
<1> SUFFICES ASSUME vm'.on, faults' = 0 PROVE AttendInv'
  BY DEF AttendInv
<1>1. vm.on /\ faults = 0
  <2>1. faults \in Nat /\ faults <= faults'
    BY Types, SessionParams DEF Moves, RowMoves
  <2> QED BY <2>1 DEF HandleSafe
<1>2. AttendSafe(p)
  BY <1>1
<1>3. \A q \in Proc \ {p} : proc'[q] = proc[q] \/ (Free(q) /\ proc'[q] = Blank("lifecycle", "kick"))
  BY DEF Moves, ProcMoves
<1>4. row'.lease \in {row.lease, NoLease, p}
  BY DEF Moves, RowMoves
<1>5. ASSUME row'.lease = NoLease
      PROVE  \E q \in Proc : proc'[q].pc = "claim"
  <2>1. CASE proc'[p].pc = "claim"
    BY <2>1
  <2>2. CASE row.lease = NoLease /\ proc[p].pc # "claim"
    <3>1. PICK q \in Proc : proc[q].pc = "claim"
      BY <1>1, <2>2 DEF AttendInv
    <3>2. q # p /\ ~Free(q)
      BY <2>2, <3>1 DEF Free
    <3>3. proc'[q] = proc[q]
      BY <1>3, <3>2
    <3> QED BY <3>1, <3>3
  <2> QED BY <1>2, <1>5, <2>1, <2>2 DEF AttendSafe
<1>6. ASSUME NEW q \in Proc
      PROVE  /\ proc'[q].pc \notin EndPC
             /\ proc'[q].pc = "release" => row'.lease # q
             /\ proc'[q].pc = "unstale" => proc'[q].live
  <2>1. CASE q = p
    BY <1>2, <2>1 DEF AttendSafe
  <2>2. CASE q # p /\ proc'[q] = proc[q]
    BY <1>1, <1>4, <2>2, ProcNotZero DEF AttendInv
  <2>3. CASE proc'[q] = Blank("lifecycle", "kick")
    <3>1. proc'[q].pc = "kick"
      BY <2>3 DEF Blank
    <3> QED BY <3>1 DEF EndPC
  <2> QED BY <1>3, <2>1, <2>2, <2>3
<1> QED BY <1>5, <1>6 DEF AttendInv

\* Most steps leave the lease alone and end no workflow.
LEMMA Carries ==
  ASSUME NEW p \in Proc, row'.lease = row.lease, proc[p].pc # "claim",
         proc'[p].pc \notin EndPC \cup {"release", "unstale"}
  PROVE  AttendSafe(p)
  BY DEF AttendSafe, EndPC

LEMMA CarriesGoing ==
  ASSUME Inv, NEW p \in Proc, row'.lease = row.lease, proc[p].pc # "claim",
         NEW pc, pc \notin EndPC \cup {"release", "unstale"}, GoTo(p, pc) \/ Forget(p, pc)
  PROVE  AttendSafe(p)
<1>1. proc'[p].pc = pc
  BY GoesTo, Forgets
<1> QED BY <1>1, Carries

LEMMA CarriesReturn ==
  ASSUME Inv, NEW p \in Proc, row'.lease = row.lease, proc[p].pc # "claim", Return(p, TRUE)
  PROVE  AttendSafe(p)
<1>1. PICK pc \in {"done", "decide"} : Forget(p, pc)
  BY DEF Return
<1>2. pc \notin EndPC \cup {"release", "unstale"}
  BY DEF EndPC
<1> QED BY <1>1, <1>2, CarriesGoing

LEMMA NotFailed ==
  ASSUME Inv, faults = 0, faults' = 0
  PROVE  ~Fault
  BY DEF Fault

LEMMA KickAttends ==
  ASSUME Inv, HandleInv, AttendInv, NEW p \in Proc, KickStep(p), vm.on, faults = 0, faults' = 0
  PROVE  AttendSafe(p)
<1>t. row \in RowRec /\ proc \in [Proc -> ProcRec(PC)] /\ proc[p] \in ProcRec(PC)
  BY Types
<1>l. \A pc \in {"claim", "done", "start", "decide"} : pc \notin EndPC \cup {"release", "unstale"}
  BY DEF EndPC
<1>1. CASE KickRead(p)
  <2>1. PICK pc \in {"claim", "done"} : GoTo(p, pc)
    BY <1>1 DEF KickRead
  <2> QED BY <1>1, <2>1, <1>l, CarriesGoing DEF KickRead
<1>2. CASE KickStale(p)
  <2>1. proc' = [proc EXCEPT ![p].pc = "unstale", ![p].live = Operable] /\ row' = row
    BY <1>2 DEF KickStale
  <2>2. proc'[p].pc = "unstale" /\ proc'[p].live = Operable
    BY <1>t, <2>1 DEF ProcRec
  <2>3. Operable
    BY DEF HandleInv
  <2>4. proc[p].pc # "claim"
    BY <1>2 DEF KickStale
  <2> QED BY <2>1, <2>2, <2>3, <2>4 DEF AttendSafe, EndPC
<1>3. CASE Unstale(p)
  <2>1. proc[p].live
    BY <1>3 DEF Unstale, AttendInv
  <2>2. GoTo(p, "claim")
    BY <1>3, <2>1 DEF Unstale
  <2>3. proc'[p].pc = "claim"
    BY <2>2, GoesTo
  <2> QED BY <2>3 DEF AttendSafe, EndPC
<1>4. CASE Claim(p)
  <2>1. CASE row.lease = NoLease
    <3>1. row'.lease = p /\ GoTo(p, "start")
      BY <1>t, <1>4, <2>1 DEF Claim, RowRec
    <3>2. proc'[p].pc = "start"
      BY <3>1, GoesTo
    <3> QED BY <3>1, <3>2, ProcNotZero DEF AttendSafe, EndPC
  <2>2. CASE row.lease # NoLease
    <3>1. row' = row /\ GoTo(p, "done")
      BY <1>4, <2>2 DEF Claim
    <3>2. proc'[p].pc = "done"
      BY <3>1, GoesTo
    <3> QED BY <2>2, <3>1, <3>2 DEF AttendSafe, EndPC
  <2> QED BY <2>1, <2>2
<1>5. CASE Start(p)
  <2>1. GoTo(p, "decide") /\ row' = row /\ proc[p].pc = "start"
    BY <1>5, NotFailed DEF Start
  <2> QED BY <2>1, <1>l, CarriesGoing
<1>6. ~Unclaim(p) /\ ~UnclaimWrite(p)
  BY DEF AttendInv, EndPC, Unclaim, UnclaimWrite
<1> QED BY <1>1, <1>2, <1>3, <1>4, <1>5, <1>6 DEF KickStep

LEMMA WorkflowAttends ==
  ASSUME Inv, HandleInv, AttendInv, NEW p \in Proc, WorkflowStep(p), vm.on, faults = 0, faults' = 0
  PROVE  AttendSafe(p)
<1>t. row \in RowRec /\ proc \in [Proc -> ProcRec(PC)] /\ proc[p] \in ProcRec(PC)
  BY Types
<1>l. \A pc \in {"leaseWrite", "leaseVerify", "sleep", "evaluate", "done"} :
        pc \notin EndPC \cup {"release", "unstale"}
  BY DEF EndPC
<1>1. CASE Decide(p)
  <2>1. Operable
    BY DEF HandleInv
  <2>2. proc' = [proc EXCEPT ![p] = [@ EXCEPT !.pc = "lease", !.note = IsArchived,
                                             !.timer = row.timer, !.rexp = row.rexp]]
    BY <1>1, <2>1 DEF Decide
  <2>3. proc'[p].pc = "lease"
    BY <1>t, <2>2 DEF ProcRec
  <2>4. row' = row /\ proc[p].pc # "claim"
    BY <1>1 DEF Decide
  <2> QED BY <2>3, <2>4, Carries DEF EndPC
<1>2. CASE ReadLease(p) \/ VerifyLease(p)
  <2>1. row' = row /\ proc[p].pc # "claim"
    BY <1>2 DEF ReadLease, VerifyLease
  <2>2. CASE \E pc \in {"leaseWrite", "leaseVerify", "sleep"} : GoTo(p, pc)
    BY <2>1, <2>2, <1>l, CarriesGoing
  <2>3. CASE GoTo(p, "release") /\ row.lease # p
    <3>1. proc'[p].pc = "release"
      BY <2>3, GoesTo
    <3> QED BY <2>1, <2>3, <3>1 DEF AttendSafe, EndPC
  <2> QED BY <1>2, <2>2, <2>3 DEF ReadLease, VerifyLease
<1>3. CASE WriteLease(p)
  <2>1. row'.lease = p /\ GoTo(p, "leaseVerify")
    BY <1>t, <1>3 DEF WriteLease, RowRec
  <2>2. proc'[p].pc = "leaseVerify"
    BY <2>1, GoesTo
  <2> QED BY <2>1, <2>2, ProcNotZero DEF AttendSafe, EndPC
<1>4. CASE Wake(p)
  <2>1. row' = row /\ proc[p].pc # "claim" /\ Forget(p, "evaluate")
    BY <1>4 DEF Wake
  <2> QED BY <2>1, <1>l, CarriesGoing
<1>5. CASE Release(p)
  <2>1. row.lease # p
    BY <1>5 DEF AttendInv, Release
  <2>2. row' = row /\ proc[p].pc # "claim" /\ GoTo(p, "done")
    BY <1>5, <2>1 DEF Release
  <2> QED BY <2>2, <1>l, CarriesGoing
<1>6. ~ReleaseWrite(p)
  BY DEF AttendInv, EndPC, ReleaseWrite
<1> QED BY <1>1, <1>2, <1>3, <1>4, <1>5, <1>6 DEF WorkflowStep

LEMMA EvaluationAttends ==
  ASSUME Inv, HandleInv, AttendInv, NEW p \in Proc, EvaluationStep(p), vm.on, faults = 0, faults' = 0
  PROVE  AttendSafe(p)
<1>t. row \in RowRec /\ proc \in [Proc -> ProcRec(PC)] /\ proc[p] \in ProcRec(PC)
  BY Types
<1>l. \A pc \in (EvalPC \ {"evalFail"}) \cup {"done", "archFailWrite"} : pc \notin EndPC \cup {"release", "unstale"}
  BY DEF EndPC, EvalPC, StopPC
<1>c. proc[p].pc # "claim"
  BY DEF EvaluationStep, Evaluate, FirstCheck, Mark, Connect, SecondCheck, Recheck, RecheckWhen,
         FinalCheck, Restore, Stop, Hibernate, EvaluationFails, ArchConnect, ArchStop, ArchClear,
         ArchFail, ArchFailWrite
<1>w. /\ \A l, e : [row EXCEPT !.lc = l].lease = row.lease
                   /\ [row EXCEPT !.lc = l, !.rexp = e].lease = row.lease
      /\ SetArchived(row).lease = row.lease
  BY <1>t DEF RowRec, SetArchived, NoTimer
<1>1. CASE Evaluate(p)
  <2>1. row' = row /\ Operable
    BY <1>1 DEF Evaluate, HandleInv
  <2>2. CASE Return(p, TRUE)
    BY <2>1, <2>2, <1>c, CarriesReturn
  <2>3. CASE Forget(p, "archConnect")
    BY <2>1, <2>3, <1>l, <1>c, CarriesGoing DEF EvalPC, StopPC
  <2>4. CASE proc' = [proc EXCEPT ![p] = [Blank(@.kind, "stream1") EXCEPT
                       !.timer = row.timer, !.rexp = row.rexp, !.hexp = row.hexp]]
    <3>1. proc'[p].pc = "stream1"
      BY <1>t, <2>4 DEF Blank
    <3> QED BY <2>1, <3>1, <1>l, <1>c, Carries DEF EvalPC, StopPC
  <2> QED BY <1>1, <2>1, <2>2, <2>3, <2>4 DEF Evaluate
<1>2. CASE FirstCheck(p)
  <2>1. row' = row /\ (GoTo(p, "mark") \/ Return(p, TRUE))
    BY <1>2 DEF FirstCheck
  <2> QED BY <2>1, <1>l, <1>c, CarriesGoing, CarriesReturn DEF EvalPC, StopPC
<1>3. CASE Mark(p)
  <2>1. row'.lease = row.lease /\ GoTo(p, "attach")
    BY <1>3, <1>w DEF Mark
  <2> QED BY <2>1, <1>l, <1>c, CarriesGoing DEF EvalPC, StopPC
<1>4. CASE Connect(p) \/ ArchConnect(p)
  <2>1. row' = row
    BY <1>4 DEF Connect, ArchConnect
  <2>2. PICK pc \in {"stream2", "archStop"} :
          proc' = [proc EXCEPT ![p].pc = pc, ![p].on = vm.on]
    BY <1>4, NotFailed DEF Connect, ArchConnect
  <2>3. proc'[p].pc = pc
    BY <1>t, <2>2 DEF ProcRec
  <2> QED BY <2>1, <2>3, <1>l, <1>c, Carries DEF EvalPC, StopPC
<1>5. CASE SecondCheck(p) \/ FinalCheck(p)
  <2>1. PICK pc \in {"recheck", "stop", "restore"} : GoTo(p, pc)
    BY <1>5 DEF SecondCheck, FinalCheck
  <2>2. row' = row
    BY <1>5 DEF SecondCheck, FinalCheck
  <2> QED BY <2>1, <2>2, <1>l, <1>c, CarriesGoing DEF EvalPC, StopPC
<1>6. CASE Recheck(p)
  <2>1. proc'[p].pc \in {"restore", "stream3"} /\ row' = row
    <3> DEFINE refreshed == Operable /\ (row.timer # proc[p].timer \/ row.rexp # proc[p].rexp) /\ ~Due
               pc == IF refreshed THEN "restore" ELSE "stream3"
    <3>1. proc'[p] = [Blank(proc[p].kind, pc) EXCEPT
                       !.hexp = IF refreshed THEN row.hexp ELSE proc[p].hexp,
                       !.on = proc[p].on,
                       !.spare = ~refreshed /\ Operable /\ ~Due,
                       !.rivals = IF refreshed THEN {} ELSE Streams]
      BY <1>6, <1>t DEF Recheck, RecheckWhen
    <3>2. pc \in {"restore", "stream3"}
      OBVIOUS
    <3>3. row' = row
      BY <1>6 DEF Recheck, RecheckWhen
    <3> HIDE DEF refreshed, pc
    <3>4. proc'[p].pc = pc
      BY <3>1 DEF Blank
    <3> QED BY <3>2, <3>3, <3>4
  <2> QED BY <2>1, <1>l, <1>c, Carries DEF EvalPC, StopPC
<1>7. CASE Restore(p)
  <2>1. row'.lease = row.lease /\ Return(p, TRUE)
    BY <1>7, <1>w DEF Restore
  <2> QED BY <2>1, <1>c, CarriesReturn
<1>8. CASE Stop(p) \/ ArchStop(p)
  <2>1. PICK pc \in {"hibernate", "archClear"} : GoTo(p, pc)
    BY <1>8, NotFailed DEF Stop, ArchStop
  <2>2. row' = row
    BY <1>8 DEF Stop, ArchStop
  <2> QED BY <2>1, <2>2, <1>l, <1>c, CarriesGoing DEF EvalPC, StopPC
<1>9. ~Hibernate(p) /\ ~ArchClear(p)
  BY DEF HandleInv, HaltedPC, Hibernate, ArchClear
<1>10. ~EvaluationFails(p)
  BY DEF AttendInv, EndPC, EvaluationFails
<1>11. CASE ArchFail(p)
  <2>1. row'.lease = row.lease
    BY <1>11, <1>w DEF ArchFail
  <2>2. GoTo(p, "archFailWrite") \/ GoTo(p, "done") \/ Return(p, TRUE)
    BY <1>11 DEF ArchFail
  <2> QED BY <2>1, <2>2, <1>l, <1>c, CarriesGoing, CarriesReturn DEF EvalPC, StopPC
<1>12. CASE ArchFailWrite(p)
  <2>1. row'.lease = row.lease /\ GoTo(p, "done")
    BY <1>12, <1>w DEF ArchFailWrite
  <2> QED BY <2>1, <1>l, <1>c, CarriesGoing
<1> QED BY <1>1, <1>2, <1>3, <1>4, <1>5, <1>6, <1>7, <1>8, <1>9, <1>10, <1>11, <1>12
        DEF EvaluationStep

LEMMA StopRequestAttends ==
  ASSUME Inv, HandleInv, AttendInv, NEW p \in Proc, StopRequestStep(p), vm.on, faults = 0, faults' = 0
  PROVE  AttendSafe(p)
<1>t. row \in RowRec /\ proc \in [Proc -> ProcRec(PC)] /\ proc[p] \in ProcRec(PC)
  BY Types
<1>c. proc[p].pc # "claim"
  BY DEF StopRequestStep, ReadToStop, ConnectToStop, Halt, RecordStop, ReadToArchive, Archive,
         Finalize, ReadToUnarchive, Unarchive
<1>1. ~RecordStop(p)
  BY DEF HandleInv, HaltedPC, RecordStop
<1>2. row'.lease = row.lease
  <2>1. CASE row' = row
    BY <2>1
  <2>2. CASE Archive(p)
    BY <2>2, <1>t DEF Archive, SetArchived, NoTimer, RowRec
  <2>3. CASE Unarchive(p)
    BY <2>3, <1>t DEF Unarchive, RowRec
  <2> QED BY <1>1, <2>1, <2>2, <2>3
       DEF StopRequestStep, ReadToStop, ConnectToStop, Halt, ReadToArchive, Finalize, ReadToUnarchive
<1>3. CASE proc' = [proc EXCEPT ![p].pc = "halt", ![p].on = vm.on]
  <2>1. proc'[p].pc = "halt"
    BY <1>t, <1>3 DEF ProcRec
  <2> QED BY <2>1, <1>c, <1>2, Carries DEF EndPC
<1>4. CASE \E pc \in {"connect", "done", "clear", "archive", "finalize", "archConnect", "write"} :
             GoTo(p, pc) \/ Forget(p, pc)
  <2>1. PICK pc \in {"connect", "done", "clear", "archive", "finalize", "archConnect", "write"} :
             GoTo(p, pc) \/ Forget(p, pc)
    BY <1>4
  <2>2. pc \notin EndPC \cup {"release", "unstale"}
    BY DEF EndPC
  <2> QED BY <2>1, <2>2, <1>c, <1>2, CarriesGoing
<1> QED BY <1>1, <1>3, <1>4 DEF StopRequestStep, ReadToStop, ConnectToStop, Halt, ReadToArchive,
         Archive, Finalize, ReadToUnarchive, Unarchive

LEMMA SmallRequestAttends ==
  ASSUME Inv, HandleInv, AttendInv, NEW p \in Proc, SmallRequestStep(p), vm.on, faults = 0, faults' = 0
  PROVE  AttendSafe(p)
<1>t. row \in RowRec /\ proc \in [Proc -> ProcRec(PC)] /\ proc[p] \in ProcRec(PC)
  BY Types
<1>c. proc[p].pc # "claim"
  BY DEF SmallRequestStep, ReadToExtend, ConnectToExtend, ExtendTimeout, RecordExtension,
         ReadActivity, RecordActivity, ReadStatus, RecoverStatus, Poll,
         ReadToReconnect, Reconnect, RecordReconnect
<1>2. row'.lease = row.lease
  <2>1. CASE row' = row
    BY <2>1
  <2>2. CASE RecordExtension(p)
    BY <2>2, <1>t DEF RecordExtension, SetActive, Refresh, Touch, RowRec
  <2>3. CASE RecordActivity(p)
    BY <2>3, <1>t DEF RecordActivity, Refresh, Touch, RowRec
  <2>4. CASE RecoverStatus(p)
    BY <2>4, <1>t DEF RecoverStatus, RowRec
  <2>5. CASE RecordReconnect(p)
    <3>1. proc[p].on
      BY <2>5 DEF RecordReconnect, HandleInv
    <3> QED BY <2>5, <3>1, <1>t DEF RecordReconnect, RowRec
  <2> QED BY <2>1, <2>2, <2>3, <2>4, <2>5
       DEF SmallRequestStep, ReadToExtend, ConnectToExtend, ExtendTimeout, ReadActivity,
           ReadStatus, Poll, ReadToReconnect, Reconnect
<1>3. CASE \E pc \in {"connect", "done", "extend", "write", "new"} : GoTo(p, pc) \/ Remember(p, pc)
  <2>1. PICK pc \in {"connect", "done", "extend", "write", "new"} : GoTo(p, pc) \/ Remember(p, pc)
    BY <1>3
  <2>2. proc'[p].pc = pc
    <3>1. CASE GoTo(p, pc)
      BY <3>1, GoesTo
    <3>2. CASE Remember(p, pc)
      BY <3>2, <1>t DEF Remember, ProcRec
    <3> QED BY <2>1, <3>1, <3>2
  <2> QED BY <2>2, <1>c, <1>2, Carries DEF EndPC
<1>4. CASE Kicks(p) \/ LeaveKick(p, Blank("status", "done"))
  <2>1. proc'[p] \in {Blank("lifecycle", "kick"), Blank("status", "done")}
    BY <1>4, <1>t DEF Kicks, LeaveKick
  <2>2. proc'[p].pc \in {"kick", "done"}
    BY <2>1 DEF Blank
  <2> QED BY <2>2, <1>c, <1>2, Carries DEF EndPC
<1>5. CASE proc' = [proc EXCEPT ![p].pc = "write", ![p].hexp = vm'.life]
  <2>1. proc'[p].pc = "write"
    BY <1>t, <1>5 DEF ProcRec
  <2> QED BY <2>1, <1>c, <1>2, Carries DEF EndPC
<1>6. CASE Reconnect(p)
  <2>1. proc' = [proc EXCEPT ![p].pc = "write", ![p].hexp = Reported(@, vm), ![p].on = TRUE]
    BY <1>6, NotFailed DEF Reconnect
  <2>2. proc'[p].pc = "write"
    BY <1>t, <2>1 DEF ProcRec
  <2> QED BY <2>2, <1>c, <1>2, Carries DEF EndPC
<1> QED BY <1>3, <1>4, <1>5, <1>6
     DEF SmallRequestStep, ReadToExtend, ConnectToExtend, ExtendTimeout, RecordExtension,
         ReadActivity, RecordActivity, ReadStatus, RecoverStatus, Poll, ReadToReconnect,
         RecordReconnect

LEMMA InitAttends == NobodyStartsIt /\ Init => AttendInv
<1> SUFFICES ASSUME NobodyStartsIt, Init, vm.on
             PROVE  /\ row.lease # NoLease
                    /\ \A p \in Proc : proc[p].pc \notin EndPC \cup {"release", "unstale"}
  BY DEF AttendInv
<1>1. PICK scene \in Scenes :
        /\ vm = IF scene.fresh THEN [on |-> FALSE, life |-> 0, past |-> 0]
                ELSE [on |-> TRUE, life |-> 1, past |-> 0]
        /\ row = IF scene.fresh THEN NewRow ELSE LiveRow
        /\ \A p \in Proc : proc[p] \in Cast(scene, p)
  BY DEF Init
<1>2. row.lease # NoLease
  BY <1>1 DEF LiveRow, NoLease
<1>3. ASSUME NEW p \in Proc
      PROVE  proc[p].pc \in {"new", "sleep", "done"}
  <2>1. CASE proc[p] = Asleep
    <3>1. 1 \in Life /\ 1 \in Timer
      BY SessionParams, FS_CardinalityType DEF Life, Timer
    <3> QED BY <2>1, <3>1, AsleepType
  <2>2. CASE \E kind, pc : proc[p] = Blank(kind, pc) /\ pc \in {"new", "done"}
    BY <2>2 DEF Blank
  <2> QED BY <1>1, <2>1, <2>2 DEF Cast
<1> QED BY <1>2, <1>3 DEF EndPC

LEMMA NextAttends == Inv /\ HandleInv /\ AttendInv /\ [Next]_lifecycleVars => AttendInv'
<1> SUFFICES ASSUME Inv, HandleInv, AttendInv, [Next]_lifecycleVars PROVE AttendInv'
  OBVIOUS
<1>1. CASE UNCHANGED lifecycleVars
  BY <1>1 DEF lifecycleVars, AttendInv
<1>2. ASSUME NEW p \in Proc, Step(p) \/ Redo(p) \/ KickDies(p)
      PROVE  AttendInv'
  <2>1. Moves(p)
    BY <1>2, KickStepMoves, WorkflowStepMoves, EvaluationStepMoves, ProvisionStepMoves,
       TurnStepMoves, SmallRequestStepMoves, StopRequestStepMoves, RedoMoves, KickDiesMoves
       DEF Step
  <2>2. HandleSafe(p)
    BY <1>2, KickKeeps, WorkflowKeeps, EvaluationKeeps, NobodyProvisions, SmallRequestKeeps,
       StopRequestKeeps, FaultsKeep DEF Step
  <2>3. ASSUME vm'.on, vm.on, faults' = 0, faults = 0
        PROVE  AttendSafe(p)
    <3>1. ~Redo(p) /\ ~KickDies(p)
      BY <2>3, NotFailed DEF Redo, KickDies
    <3> QED BY <1>2, <2>3, <3>1, KickAttends, WorkflowAttends, EvaluationAttends, NobodyProvisions,
               SmallRequestAttends, StopRequestAttends DEF Step
  <2> QED BY <2>1, <2>2, <2>3, AttendStep
<1>3. CASE Time
  <2>1. row \in RowRec /\ vm \in VmRec
    BY Types
  <2>2. proc' = proc /\ faults' = faults
    BY <1>3 DEF Time
  <2>3. (vm'.on => vm.on) /\ row'.lease = row.lease
    BY <1>3, <2>1 DEF Time, IdlePasses, Ages, ProviderStops, RowRec, VmRec
  <2> QED BY <2>2, <2>3 DEF AttendInv
<1>4. CASE AllDone
  BY <1>4, <1>1 DEF AllDone
<1> QED BY <1>1, <1>2, <1>3, <1>4 DEF Next

\* No wake-up is lost: while nothing fails, a running machine whose processes have all
\* come to rest has a workflow asleep that will look at it, whichever kicks of
\* kickSandboxLifecycleWorkflow found whose lease, took over a stale run or lost the claim.
THEOREM WakeUpsAreKept == NobodyStartsIt => (Spec => []Attended)
<1>1. Inv /\ HandleInv /\ AttendInv => Attended
  <2> SUFFICES ASSUME Inv, AttendInv, vm.on, faults = 0,
                      \A p \in Proc : proc[p].pc \in {"new", "sleep", "done"}
               PROVE  row.lease # NoLease /\ proc[row.lease].pc = "sleep"
    BY DEF Attended
  <2>1. row.lease # NoLease
    BY DEF AttendInv
  <2>2. Holding(proc[row.lease]) /\ row.lease \in Proc
    BY <2>1, Types DEF Inv, LeaseOK, RowRec
  <2> QED BY <2>1, <2>2 DEF Holding
<1>2. ASSUME NobodyStartsIt
      PROVE  Spec => []Attended
  <2>1. Init => HandleInv /\ AttendInv
    BY <1>2, InitHandle, InitAttends
  <2> QED BY <2>1, <1>1, NextHandle, NextAttends, InvHolds, PTL DEF Spec
<1> QED BY <1>2
=============================================================================
