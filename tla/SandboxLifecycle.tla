--------------------------- MODULE SandboxLifecycle ---------------------------
(***************************************************************************)
(* kickSandboxLifecycleWorkflow, the durable sandboxLifecycleWorkflow it   *)
(* starts, and evaluateSandboxLifecycle, which either of them runs.  A     *)
(* process of kind "lifecycle" is one call of kick and, if its claim       *)
(* succeeds, the workflow run whose id the call made up; the process       *)
(* stands for that id.                                                     *)
(***************************************************************************)
EXTENDS SandboxStore

CONSTANTS MaxFaults    \* bound: failing calls, dying processes, redeliveries

VARIABLES faults

lifecycleVars == <<vm, row, proc, faults>>

Kind == {"lifecycle", "inline", "create", "prewarm", "resume", "chat", "headless", "extend",
         "activity", "status", "reconnect", "pause", "delete", "archive", "unarchive"}

KickPC == {"kick", "unstale", "claim", "start", "unclaim", "unclaimWrite"}
DecidePC == {"decide", "lease", "leaseWrite", "leaseVerify"}
StopPC == {"mark", "attach", "stream2", "recheck", "stream3", "stop", "hibernate",
           "archConnect", "archStop", "archClear", "archFail", "archFailWrite"}
EvalPC == {"evaluate", "stream1", "evalFail", "restore"} \cup StopPC
ReleasePC == {"release", "releaseWrite"}

\* A process, what it remembers of its last read of the row, and for the
\* properties what it saw when it last looked at the timers and the streams.
ProcRec(PC) == [kind   : Kind,
                pc     : PC,
                live   : BOOLEAN,          \* the sandbox was operable
                note   : BOOLEAN,          \* it was archived (a workflow), failed (a reconnect)
                timer  : Timer,
                rexp   : Life,
                hexp   : Life,
                on     : BOOLEAN,          \* the machine was running when it connected
                spare  : BOOLEAN,
                rivals : SUBSET Proc]

Blank(kind, pc) ==
  [kind |-> kind, pc |-> pc, live |-> FALSE, note |-> FALSE,
   timer |-> 0, rexp |-> 0, hexp |-> 0, on |-> FALSE,
   spare |-> FALSE, rivals |-> {}]

ChatKind == {"chat", "headless"}

\* A chat with an activeStreamId: the turn of process p, from its claim to its end.
Streaming(p) ==
  proc[p].kind \in ChatKind /\ proc[p].pc \notin {"new", "force", "done"} \cup EvalPC

Streams == {p \in Proc : Streaming(p)}

GoTo(p, pc) ==
  proc' = [proc EXCEPT ![p] = IF pc = "done" THEN Blank(@.kind, pc) ELSE [@ EXCEPT !.pc = pc]]

\* Move on with nothing remembered.
Forget(p, pc) == proc' = [proc EXCEPT ![p] = Blank(@.kind, pc)]

\* Remember the expiry of the sandbox state just read, and a failed lifecycle.
Remember(p, pc) ==
  proc' = [proc EXCEPT ![p].pc = pc, ![p].hexp = row.hexp, ![p].note = (row.lc = "failed")]

\* A mistake: the workflow never looks again.
ReturnOnce(p, again) ==
  Forget(p, IF proc[p].kind # "lifecycle" THEN "done" ELSE "release")

\* An evaluation is over: the workflow looks again or ends, anybody else is done.
Return(p, again) ==
  Forget(p, IF proc[p].kind # "lifecycle" THEN "done" ELSE IF again THEN "decide" ELSE "release")

Fault == faults < MaxFaults /\ faults' = faults + 1

-----------------------------------------------------------------------------
(* kickSandboxLifecycleWorkflow                                             *)

KickRead(p) ==
  /\ proc[p].pc = "kick"
  /\ GoTo(p, IF Operable /\ row.lease = NoLease THEN "claim" ELSE "done")
  /\ UNCHANGED <<vm, row, faults>>

\* A run is stale when it should have acted some time ago.  How long ago is not
\* modelled: one that is due may be stale or not.
KickStale(p) ==
  /\ proc[p].pc = "kick"
  /\ row.lease # NoLease /\ row.lc = "active" /\ Due
  /\ proc' = [proc EXCEPT ![p].pc = "unstale", ![p].live = Operable]
  /\ UNCHANGED <<vm, row, faults>>

\* The stale run loses its lease, unconditionally.
Unstale(p) ==
  /\ proc[p].pc = "unstale"
  /\ row' = [row EXCEPT !.lease = NoLease]
  /\ GoTo(p, IF proc[p].live THEN "claim" ELSE "done")
  /\ UNCHANGED <<vm, faults>>

\* claimSessionLifecycleRunId: the one conditional update.
Claim(p) ==
  /\ proc[p].pc = "claim"
  /\ IF row.lease = NoLease
     THEN row' = [row EXCEPT !.lease = p] /\ GoTo(p, "start")
     ELSE GoTo(p, "done") /\ UNCHANGED row
  /\ UNCHANGED <<vm, faults>>

\* start(sandboxLifecycleWorkflow, ...), or the inline fallback.
Start(p) ==
  /\ proc[p].pc = "start"
  /\ \/ GoTo(p, "decide") /\ UNCHANGED faults
     \/ GoTo(p, "unclaim") /\ Fault
  /\ UNCHANGED <<vm, row>>

\* The fallback evaluates once and is done: it is not a workflow.
Inline(p) == proc' = [proc EXCEPT ![p] = Blank("inline", "evaluate")]

Unclaim(p) ==
  /\ proc[p].pc = "unclaim"
  /\ IF row.lease = p THEN GoTo(p, "unclaimWrite") ELSE Inline(p)
  /\ UNCHANGED <<vm, row, faults>>

UnclaimWrite(p) ==
  /\ proc[p].pc = "unclaimWrite"
  /\ row' = [row EXCEPT !.lease = NoLease]
  /\ Inline(p)
  /\ UNCHANGED <<vm, faults>>

-----------------------------------------------------------------------------
(* sandboxLifecycleWorkflow                                                 *)

\* computeLifecycleWakeDecision reads the row ...
Decide(p) ==
  /\ proc[p].pc = "decide"
  /\ IF ~Operable THEN GoTo(p, "release")
     ELSE proc' = [proc EXCEPT ![p] = [@ EXCEPT !.pc = "lease", !.note = IsArchived,
                                                !.timer = row.timer, !.rexp = row.rexp]]
  /\ UNCHANGED <<vm, row, faults>>

\* ... and claimLifecycleLease reads, writes and reads it again.
ReadLease(p) ==
  /\ proc[p].pc = "lease"
  /\ GoTo(p, IF row.lease = NoLease THEN "leaseWrite"
             ELSE IF row.lease = p THEN "leaseVerify" ELSE "release")
  /\ UNCHANGED <<vm, row, faults>>

WriteLease(p) ==
  /\ proc[p].pc = "leaseWrite"
  /\ row' = [row EXCEPT !.lease = p]
  /\ GoTo(p, "leaseVerify")
  /\ UNCHANGED <<vm, faults>>

VerifyLease(p) ==
  /\ proc[p].pc = "leaseVerify"
  /\ GoTo(p, IF row.lease = p THEN "sleep" ELSE "release")
  /\ UNCHANGED <<vm, row, faults>>

\* The due time that Decide read has come.  If the timers were written since, it
\* may come before theirs.
Wake(p) ==
  /\ proc[p].pc = "sleep"
  /\ proc[p].note \/ proc[p].timer # row.timer \/ row.idle \/ Past(proc[p].rexp)
  /\ Forget(p, "evaluate")
  /\ UNCHANGED <<vm, row, faults>>

\* A mistake: the workflow ends with its lease.
NoRelease(p) ==
  /\ proc[p].pc = "release"
  /\ GoTo(p, "done")
  /\ UNCHANGED <<vm, row, faults>>

\* clearLifecycleRunIdIfOwned reads, then writes.
Release(p) ==
  /\ proc[p].pc = "release"
  /\ GoTo(p, IF row.lease = p THEN "releaseWrite" ELSE "done")
  /\ UNCHANGED <<vm, row, faults>>

ReleaseWrite(p) ==
  /\ proc[p].pc = "releaseWrite"
  /\ row' = [row EXCEPT !.lease = NoLease]
  /\ GoTo(p, "done")
  /\ UNCHANGED <<vm, faults>>

-----------------------------------------------------------------------------
(* evaluateSandboxLifecycle                                                 *)

Evaluate(p) ==
  /\ proc[p].pc = "evaluate"
  /\ \/ ~Operable /\ Return(p, FALSE)
     \/ Operable /\ IsArchived /\ Forget(p, "archConnect")
     \/ /\ Operable /\ ~IsArchived /\ Due
        /\ proc' = [proc EXCEPT ![p] = [Blank(@.kind, "stream1") EXCEPT
                       !.timer = row.timer, !.rexp = row.rexp, !.hexp = row.hexp]]
     \/ Operable /\ ~IsArchived /\ ~Due /\ Return(p, TRUE)
  /\ UNCHANGED <<vm, row, faults>>

FirstCheck(p) ==
  /\ proc[p].pc = "stream1"
  /\ IF Streams = {} THEN GoTo(p, "mark") ELSE Return(p, TRUE)
  /\ UNCHANGED <<vm, row, faults>>

Mark(p) ==
  /\ proc[p].pc = "mark"
  /\ row' = [row EXCEPT !.lc = "hibernating"]
  /\ GoTo(p, "attach")
  /\ UNCHANGED <<vm, faults>>

\* connectSandbox attaches to the machine in whatever state it is.
Connect(p) ==
  /\ proc[p].pc = "attach"
  /\ \/ proc' = [proc EXCEPT ![p].pc = "stream2", ![p].on = vm.on] /\ UNCHANGED faults
     \/ GoTo(p, "evalFail") /\ Fault
  /\ UNCHANGED <<vm, row>>

SecondCheck(p) ==
  /\ proc[p].pc = "stream2"
  /\ GoTo(p, IF Streams = {} THEN "recheck" ELSE "restore")
  /\ UNCHANGED <<vm, row, faults>>

\* The timers may have been written since they were first read.
RecheckWhen(p, changed) ==
  /\ proc[p].pc = "recheck"
  /\ LET refreshed == Operable /\ changed /\ ~Due
     IN proc' = [proc EXCEPT ![p] = [Blank(@.kind, IF refreshed THEN "restore" ELSE "stream3") EXCEPT
                    !.hexp = IF refreshed THEN row.hexp ELSE proc[p].hexp,
                    !.on = proc[p].on,
                    !.spare = ~refreshed /\ Operable /\ ~Due,
                    !.rivals = IF refreshed THEN {} ELSE Streams]]
  /\ UNCHANGED <<vm, row, faults>>

\* A mistake: only the expiry is compared.
RecheckExpiry(p) == RecheckWhen(p, row.rexp # proc[p].rexp)

Recheck(p) == RecheckWhen(p, row.timer # proc[p].timer \/ row.rexp # proc[p].rexp)

\* A mistake: the last look is left out.
NoFinalCheck(p) ==
  /\ proc[p].pc = "stream3"
  /\ GoTo(p, "stop")
  /\ UNCHANGED <<vm, row, faults>>

FinalCheck(p) ==
  /\ proc[p].pc = "stream3"
  /\ GoTo(p, IF Streams = {} THEN "stop" ELSE "restore")
  /\ UNCHANGED <<vm, row, faults>>

\* restoreActiveLifecycleState with the expiry this evaluation read.
Restore(p) ==
  /\ proc[p].pc = "restore"
  /\ row' = [row EXCEPT !.lc = "active", !.rexp = proc[p].hexp]
  /\ Return(p, TRUE)
  /\ UNCHANGED <<vm, faults>>

\* sandbox.stop(): nothing to do on an object that connected to a stopped machine.
StopMachine(p) == vm' = IF proc[p].on THEN [vm EXCEPT !.on = FALSE] ELSE vm

Stop(p) ==
  /\ proc[p].pc = "stop"
  /\ \/ StopMachine(p) /\ GoTo(p, "hibernate") /\ UNCHANGED faults
     \/ GoTo(p, "evalFail") /\ Fault /\ UNCHANGED vm
  /\ UNCHANGED row

Hibernate(p) ==
  /\ proc[p].pc = "hibernate"
  /\ row' = SetHibernated(row)
  /\ Return(p, FALSE)
  /\ UNCHANGED <<vm, faults>>

EvaluationFails(p) ==
  /\ proc[p].pc = "evalFail"
  /\ row' = [row EXCEPT !.lc = "failed", !.lease = NoLease]
  /\ Return(p, FALSE)
  /\ UNCHANGED <<vm, faults>>

-----------------------------------------------------------------------------
(* Stopping the sandbox of an archived session: retryArchivedSandboxStop for  *)
(* an evaluation, finalizeArchivedSessionSandbox for the archive request.     *)

ArchConnect(p) ==
  /\ proc[p].pc = "archConnect"
  /\ \/ proc' = [proc EXCEPT ![p].pc = "archStop", ![p].on = vm.on] /\ UNCHANGED faults
     \/ GoTo(p, "archFail") /\ Fault
  /\ UNCHANGED <<vm, row>>

ArchStop(p) ==
  /\ proc[p].pc = "archStop"
  /\ \/ StopMachine(p) /\ GoTo(p, "archClear") /\ UNCHANGED faults
     \/ GoTo(p, "archFail") /\ Fault /\ UNCHANGED vm
  /\ UNCHANGED row

\* Only now is the handle given up.
ArchClear(p) ==
  /\ proc[p].pc = "archClear"
  /\ row' = [Clear(row) EXCEPT !.lc = "archived"]
  /\ Return(p, FALSE)
  /\ UNCHANGED <<vm, faults>>

\* A failed stop keeps the handle.  The retry writes at once, the request reads
\* the status first.
ArchFail(p) ==
  /\ proc[p].pc = "archFail"
  /\ IF proc[p].kind = "archive"
     THEN GoTo(p, IF row.archived THEN "archFailWrite" ELSE "done") /\ UNCHANGED row
     ELSE row' = [row EXCEPT !.lc = "archived"] /\ Return(p, TRUE)
  /\ UNCHANGED <<vm, faults>>

\* A mistake: the handle goes with the failed stop.
ArchFailForgets(p) ==
  /\ proc[p].pc = "archFailWrite"
  /\ row' = [Clear(row) EXCEPT !.lc = "archived"]
  /\ GoTo(p, "done")
  /\ UNCHANGED <<vm, faults>>

ArchFailWrite(p) ==
  /\ proc[p].pc = "archFailWrite"
  /\ row' = SetArchived(row)
  /\ GoTo(p, "done")
  /\ UNCHANGED <<vm, faults>>

-----------------------------------------------------------------------------
(* The platform                                                             *)

\* A step of the workflow dies and is run again from its start.
Redo(p) ==
  /\ proc[p].kind = "lifecycle"
  /\ \/ proc[p].pc \in DecidePC \ {"decide"} /\ Forget(p, "decide")
     \/ proc[p].pc \in EvalPC \ {"evaluate"} /\ Forget(p, "evaluate")
     \/ proc[p].pc = "releaseWrite" /\ GoTo(p, "release")
  /\ Fault
  /\ UNCHANGED <<vm, row>>

\* A kick runs after its request was answered, and may be cut short.
KickDies(p) ==
  /\ proc[p].pc \in KickPC
  /\ GoTo(p, "done")
  /\ Fault
  /\ UNCHANGED <<vm, row>>

KickStep(p) ==
  \/ KickRead(p) \/ KickStale(p) \/ Unstale(p) \/ Claim(p) \/ Start(p) \/ Unclaim(p) \/ UnclaimWrite(p)

WorkflowStep(p) ==
  \/ Decide(p) \/ ReadLease(p) \/ WriteLease(p) \/ VerifyLease(p)
  \/ Wake(p) \/ Release(p) \/ ReleaseWrite(p)

EvaluationStep(p) ==
  \/ Evaluate(p) \/ FirstCheck(p) \/ Mark(p) \/ Connect(p) \/ SecondCheck(p)
  \/ Recheck(p) \/ FinalCheck(p) \/ Restore(p) \/ Stop(p) \/ Hibernate(p)
  \/ EvaluationFails(p) \/ ArchConnect(p) \/ ArchStop(p) \/ ArchClear(p)
  \/ ArchFail(p) \/ ArchFailWrite(p)
=============================================================================
