--------------------------- MODULE SandboxRequests ---------------------------
(***************************************************************************)
(* What else touches the sandbox of a session: the requests of the web     *)
(* interface, prewarm, and a chat turn from its stream claim to its end.   *)
(* Each step is one round trip to the database or to the provider, and     *)
(* every write is of columns computed from what was read before.           *)
(***************************************************************************)
EXTENDS SandboxLifecycle

RequestPC == {"new", "read", "connect", "write", "work", "refresh", "persistConnect",
              "persist", "final", "force", "extend", "halt", "clear", "archive",
              "finalize", "done"}

\* A request that provisions: POST of sandbox, prewarm, PUT of snapshot, a chat.
Provisioners == {"create", "prewarm", "resume"} \cup ChatKind

\* POST of snapshot and DELETE of sandbox: stop now.
Stoppers == {"pause", "delete"}

\* The request is over and its kick goes on.
Kicks(p) == proc' = [proc EXCEPT ![p] = Blank("lifecycle", "kick")]

\* A process that is over and whose id nothing holds stands for a new one.
Free(f) == proc[f].kind = "lifecycle" /\ proc[f].pc \in {"new", "done"} /\ row.lease # f

\* Process p goes on as r and leaves its kick to a free process.  The kick may be
\* lost instead; where none is free it is (KickDies covers the rest).
LeaveKick(p, r) ==
  proc' = [q \in Proc |-> IF q = p THEN r
                          ELSE IF Free(q) /\ \A f \in Proc : Free(f) => q <= f
                               THEN Blank("lifecycle", "kick") ELSE proc[q]]

\* An error ends a request, and a turn through its finally.
GiveUp(p) == GoTo(p, IF proc[p].kind \in ChatKind THEN "final" ELSE "done")

-----------------------------------------------------------------------------
(* Provisioning                                                             *)

\* The stream is claimed before anything else (ChatRun has the details).
ClaimStream(p) ==
  /\ proc[p].pc = "new" /\ proc[p].kind \in ChatKind
  /\ ~row.archived
  /\ GoTo(p, "read")
  /\ UNCHANGED <<vm, row, faults>>

\* Whether there is anything to provision.
Wanted(kind) ==
  CASE kind \in ChatKind -> ~row.archived
    [] kind = "create"   -> ~IsSandboxActive
    [] kind = "prewarm"  -> ~row.archived /\ ~IsSandboxActive
    [] kind = "resume"   -> row.handle = "paused"

ReadToProvision(p) ==
  /\ proc[p].kind \in Provisioners
  /\ proc[p].pc = IF proc[p].kind \in ChatKind THEN "read" ELSE "new"
  /\ IF Wanted(proc[p].kind) THEN Remember(p, "connect") ELSE GiveUp(p)
  /\ UNCHANGED <<vm, row, faults>>

\* A provider that grants no more lifetimes fails: this ends a bounded model.
NoMoreLives == vm.life = MaxLives /\ UNCHANGED faults

\* connectSandbox with resume: the machine runs afterwards.  Prewarm and the chat
\* connect with the state they read, expiresAt included.
Provision(p) ==
  /\ proc[p].kind \in Provisioners /\ proc[p].pc = "connect"
  /\ \/ /\ vm.on \/ vm.life < MaxLives
        /\ vm' = PowerOn(vm)
        /\ LET known == IF proc[p].kind \in {"create", "resume"} THEN 0 ELSE proc[p].hexp
           IN  proc' = [proc EXCEPT ![p].pc = "write", ![p].on = TRUE,
                                    ![p].hexp = Reported(known, vm')]
        /\ UNCHANGED faults
     \/ GiveUp(p) /\ (Fault \/ NoMoreLives) /\ UNCHANGED vm
  /\ UNCHANGED row

\* releaseUnusableSandbox: the repository is not in the machine, which is stopped
\* and never recorded.
ReleaseUnusable(p) ==
  /\ proc[p].kind = "create" /\ proc[p].pc = "write"
  /\ vm' = [vm EXCEPT !.on = FALSE]
  /\ GoTo(p, "done")
  /\ UNCHANGED <<row, faults>>

\* The row gets the state of the connection, and the kick starts.
RecordSandbox(p) ==
  /\ proc[p].kind \in Provisioners /\ proc[p].pc = "write"
  /\ row' = SetActive(row, proc[p].hexp)
  /\ IF proc[p].kind \in ChatKind
     THEN LeaveKick(p, [proc[p] EXCEPT !.pc = "work"])
     ELSE Kicks(p)
  /\ UNCHANGED <<vm, faults>>

-----------------------------------------------------------------------------
(* The end of a turn                                                        *)

\* The agent's work, of any length, is over or has failed.
Work(p) ==
  /\ proc[p].pc = "work"
  /\ \/ GoTo(p, "refresh") /\ UNCHANGED faults
     \/ GiveUp(p) /\ Fault
  /\ UNCHANGED <<vm, row>>

RefreshLifecycleActivity(p) ==
  /\ proc[p].pc = "refresh"
  /\ row' = Refresh(row)
  /\ GoTo(p, "persistConnect")
  /\ UNCHANGED <<vm, faults>>

\* persistSandboxState connects with the state of the start of the turn.
PersistConnect(p) ==
  /\ proc[p].pc = "persistConnect"
  /\ \/ /\ proc' = [proc EXCEPT ![p].pc = "persist", ![p].hexp = Reported(@, vm)]
        /\ UNCHANGED faults
     \/ GoTo(p, "final") /\ Fault
  /\ UNCHANGED <<vm, row>>

PersistSandboxState(p) ==
  /\ proc[p].pc = "persist"
  /\ row' = SetActive(row, proc[p].hexp)
  /\ GoTo(p, "final")
  /\ UNCHANGED <<vm, faults>>

\* clearActiveStream; a headless turn goes on to hibernate.
EndStream(p) ==
  /\ proc[p].pc = "final"
  /\ GoTo(p, IF proc[p].kind = "headless" THEN "force" ELSE "done")
  /\ UNCHANGED <<vm, row, faults>>

\* hibernateHeadlessSandboxAtTurnEnd makes hibernateAfter now, then evaluates.
ForceDue(p) ==
  /\ proc[p].pc = "force"
  /\ row' = Touch(row, TRUE)
  /\ GoTo(p, "evaluate")
  /\ UNCHANGED <<vm, faults>>

-----------------------------------------------------------------------------
(* extend, activity, status and reconnect                                   *)

ReadToExtend(p) ==
  /\ proc[p].kind = "extend" /\ proc[p].pc = "new"
  /\ IF IsSandboxActive THEN Remember(p, "connect") ELSE GoTo(p, "done")
  /\ UNCHANGED <<vm, row, faults>>

ConnectToExtend(p) ==
  /\ proc[p].kind = "extend" /\ proc[p].pc = "connect"
  /\ IF vm.on THEN GoTo(p, "extend") ELSE GoTo(p, "done")
  /\ UNCHANGED <<vm, row, faults>>

\* extendTimeout fails on a machine stopped in between.
ExtendTimeout(p) ==
  /\ proc[p].pc = "extend"
  /\ IF vm.on /\ vm.life < MaxLives
     THEN /\ vm' = Extended(vm)
          /\ proc' = [proc EXCEPT ![p].pc = "write", ![p].hexp = vm'.life]
     ELSE GoTo(p, "done") /\ UNCHANGED vm
  /\ UNCHANGED <<row, faults>>

RecordExtension(p) ==
  /\ proc[p].kind = "extend" /\ proc[p].pc = "write"
  /\ row' = SetActive(row, proc[p].hexp)
  /\ Kicks(p)
  /\ UNCHANGED <<vm, faults>>

ReadActivity(p) ==
  /\ proc[p].kind = "activity" /\ proc[p].pc = "new"
  /\ GoTo(p, IF row.lc = "active" THEN "write" ELSE "done")
  /\ UNCHANGED <<vm, row, faults>>

RecordActivity(p) ==
  /\ proc[p].kind = "activity" /\ proc[p].pc = "write"
  /\ row' = Refresh(row)
  /\ GoTo(p, "done")
  /\ UNCHANGED <<vm, faults>>

\* A mistake: a failed evaluation is not recovered from.
ReadStatusActive(p) ==
  /\ proc[p].kind = "status" /\ proc[p].pc = "new"
  /\ IF Operable /\ row.lc = "active" /\ Due THEN LeaveKick(p, Blank("status", "done"))
     ELSE GoTo(p, "done")
  /\ UNCHANGED <<vm, row, faults>>

\* GET of status: a failed evaluation is recovered from, an overdue one kicked.
ReadStatus(p) ==
  /\ proc[p].kind = "status" /\ proc[p].pc = "new"
  /\ IF Operable /\ ~Past(row.rexp) /\ row.lc = "failed" THEN Remember(p, "write")
     ELSE IF Operable /\ row.lc = "active" /\ Due THEN LeaveKick(p, Blank("status", "done"))
     ELSE GoTo(p, "done")
  /\ UNCHANGED <<vm, row, faults>>

RecoverStatus(p) ==
  /\ proc[p].kind = "status" /\ proc[p].pc = "write"
  /\ row' = [row EXCEPT !.lc = "active", !.rexp = proc[p].hexp]
  /\ IF row.idle \/ Past(proc[p].hexp) THEN LeaveKick(p, Blank("status", "done")) ELSE GoTo(p, "done")
  /\ UNCHANGED <<vm, faults>>

\* The page of an open session asks again and again.  Its polls are seconds apart: a
\* kick and the decision of the workflow it starts are over by the next one.
Poll(p) ==
  /\ proc[p].kind = "status" /\ proc[p].pc = "done"
  /\ \A q \in Proc : proc[q].pc \notin KickPC \cup DecidePC
  /\ GoTo(p, "new")
  /\ UNCHANGED <<vm, row, faults>>

\* GET of reconnect: a future expiry is believed, else the machine is asked.
ReadToReconnect(p) ==
  /\ proc[p].kind = "reconnect" /\ proc[p].pc = "new"
  /\ IF Operable /\ ~(row.lc = "active" /\ row.rexp # 0 /\ ~Past(row.rexp) /\ ~Past(row.hexp))
     THEN Remember(p, "connect") ELSE GoTo(p, "done")
  /\ UNCHANGED <<vm, row, faults>>

Reconnect(p) ==
  /\ proc[p].kind = "reconnect" /\ proc[p].pc = "connect"
  /\ \/ /\ proc' = [proc EXCEPT ![p].pc = "write", ![p].hexp = Reported(@, vm), ![p].on = TRUE]
        /\ UNCHANGED faults
     \/ /\ proc' = [proc EXCEPT ![p].pc = "write", ![p].hexp = 0, ![p].on = FALSE]
        /\ Fault
  /\ UNCHANGED <<vm, row>>

\* The timers stay as they are; an unavailable sandbox is hibernated.
RecordReconnect(p) ==
  /\ proc[p].kind = "reconnect" /\ proc[p].pc = "write"
  /\ row' = IF proc[p].on
            THEN [row EXCEPT !.handle = IF proc[p].hexp = 0 THEN "paused" ELSE "live",
                             !.hexp = proc[p].hexp, !.rexp = proc[p].hexp,
                             !.lc = IF proc[p].note THEN "active" ELSE @]
            ELSE SetHibernated(row)
  /\ GoTo(p, "done")
  /\ UNCHANGED <<vm, faults>>
-----------------------------------------------------------------------------
(* pause, delete, archive and unarchive                                     *)

ReadToStop(p) ==
  /\ proc[p].kind \in Stoppers /\ proc[p].pc = "new"
  /\ GoTo(p, IF Operable THEN "connect" ELSE "done")
  /\ UNCHANGED <<vm, row, faults>>

ConnectToStop(p) ==
  /\ proc[p].kind \in Stoppers /\ proc[p].pc = "connect"
  /\ \/ proc' = [proc EXCEPT ![p].pc = "halt", ![p].on = vm.on] /\ UNCHANGED faults
     \/ GoTo(p, "done") /\ Fault
  /\ UNCHANGED <<vm, row>>

Halt(p) ==
  /\ proc[p].pc = "halt"
  /\ \/ StopMachine(p) /\ GoTo(p, "clear") /\ UNCHANGED faults
     \/ GoTo(p, "done") /\ Fault /\ UNCHANGED vm
  /\ UNCHANGED row

RecordStop(p) ==
  /\ proc[p].pc = "clear"
  /\ row' = SetHibernated(row)
  /\ GoTo(p, "done")
  /\ UNCHANGED <<vm, faults>>

\* archiveSession writes the statuses at once ...
ReadToArchive(p) ==
  /\ proc[p].kind = "archive" /\ proc[p].pc = "new"
  /\ GoTo(p, IF row.archived THEN "done" ELSE "archive")
  /\ UNCHANGED <<vm, row, faults>>

Archive(p) ==
  /\ proc[p].pc = "archive"
  /\ row' = [SetArchived(row) EXCEPT !.archived = TRUE]
  /\ GoTo(p, "finalize")
  /\ UNCHANGED <<vm, faults>>

\* ... and finalizeArchivedSessionSandbox, in the background, reads the row again.
Finalize(p) ==
  /\ proc[p].pc = "finalize"
  /\ IF row.archived /\ Operable THEN Forget(p, "archConnect") ELSE GoTo(p, "done")
  /\ UNCHANGED <<vm, row, faults>>

\* PATCH to running: refused while the handle is live.
ReadToUnarchive(p) ==
  /\ proc[p].kind = "unarchive" /\ proc[p].pc = "new"
  /\ GoTo(p, IF row.archived /\ ~Operable THEN "write" ELSE "done")
  /\ UNCHANGED <<vm, row, faults>>

Unarchive(p) ==
  /\ proc[p].kind = "unarchive" /\ proc[p].pc = "write"
  /\ row' = [row EXCEPT !.archived = FALSE, !.lc = "none"]
  /\ GoTo(p, "done")
  /\ UNCHANGED <<vm, faults>>

-----------------------------------------------------------------------------
ProvisionStep(p) ==
  \/ ClaimStream(p) \/ ReadToProvision(p) \/ Provision(p) \/ ReleaseUnusable(p)
  \/ RecordSandbox(p)

TurnStep(p) ==
  \/ Work(p) \/ RefreshLifecycleActivity(p) \/ PersistConnect(p)
  \/ PersistSandboxState(p) \/ EndStream(p) \/ ForceDue(p)

SmallRequestStep(p) ==
  \/ ReadToExtend(p) \/ ConnectToExtend(p) \/ ExtendTimeout(p) \/ RecordExtension(p)
  \/ ReadActivity(p) \/ RecordActivity(p)
  \/ ReadStatus(p) \/ RecoverStatus(p) \/ Poll(p)
  \/ ReadToReconnect(p) \/ Reconnect(p) \/ RecordReconnect(p)

StopRequestStep(p) ==
  \/ ReadToStop(p) \/ ConnectToStop(p) \/ Halt(p) \/ RecordStop(p)
  \/ ReadToArchive(p) \/ Archive(p) \/ Finalize(p)
  \/ ReadToUnarchive(p) \/ Unarchive(p)
=============================================================================
