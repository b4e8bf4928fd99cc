---------------------------- MODULE SandboxSession ----------------------------
(***************************************************************************)
(* One session: its lifecycle workflows, the requests and chat turns that  *)
(* race with them, the provider, and time.                                 *)
(***************************************************************************)
EXTENDS SandboxRequests

CONSTANTS Scenes    \* where to start, and what each process may turn out to be

PC == RequestPC \cup KickPC \cup DecidePC \cup EvalPC \cup ReleasePC \cup {"sleep"}

\* Process 1 is the workflow that the sandbox of a live scene was created with.
ASSUME SessionParams ==
  /\ IsFiniteSet(Proc) /\ Proc \subseteq Nat \ {NoLease}
  /\ \A scene \in Scenes :
       /\ scene.fresh \in BOOLEAN
       /\ DOMAIN scene.kinds \subseteq Proc
       /\ \A p \in DOMAIN scene.kinds : scene.kinds[p] \subseteq Kind
       /\ ~scene.fresh => 1 \in DOMAIN scene.kinds
  /\ MaxLives \in Nat \ {0} /\ MaxFaults \in Nat

\* The row describes a lifetime the provider granted, and it has an expiry exactly
\* while its sandbox state is runtime state.
TypeOK ==
  /\ vm \in VmRec
  /\ vm.past <= vm.life /\ row.hexp <= vm.life
  /\ Operable <=> row.hexp # 0
  /\ row \in RowRec
  /\ proc \in [Proc -> ProcRec(PC)]
  /\ faults \in 0..MaxFaults

NewRow ==
  [archived |-> FALSE, handle |-> "none", hexp |-> 0, lc |-> "provisioning",
   lease |-> NoLease, rexp |-> 0, idle |-> FALSE, timer |-> 1]

\* A recent past: the sandbox was created and its workflow, process 1, sleeps.
LiveRow ==
  [archived |-> FALSE, handle |-> "live", hexp |-> 1, lc |-> "active", lease |-> 1,
   rexp |-> 1, idle |-> FALSE, timer |-> 1]

Asleep == [Blank("lifecycle", "sleep") EXCEPT !.rexp = 1, !.timer = LiveRow.timer]

\* What p may be before it starts, in a scene; who has no part in it is done.
Cast(scene, p) ==
  IF p \notin DOMAIN scene.kinds THEN {Blank("lifecycle", "done")}
  ELSE IF ~scene.fresh /\ p = 1 THEN {Asleep}
  ELSE {Blank(kind, "new") : kind \in scene.kinds[p]}

\* No sandbox yet, or a live one whose workflow is process 1.
Init ==
  \E scene \in Scenes :
    /\ vm = IF scene.fresh THEN [on |-> FALSE, life |-> 0, past |-> 0]
            ELSE [on |-> TRUE, life |-> 1, past |-> 0]
    /\ row = IF scene.fresh THEN NewRow ELSE LiveRow
    /\ proc \in [Proc -> UNION {Cast(scene, p) : p \in Proc}]
    /\ \A p \in Proc : proc[p] \in Cast(scene, p)
    /\ faults = 0

Step(p) ==
  \/ KickStep(p) \/ WorkflowStep(p) \/ EvaluationStep(p)
  \/ ProvisionStep(p) \/ TurnStep(p) \/ SmallRequestStep(p) \/ StopRequestStep(p)

Time == (IdlePasses \/ Ages \/ ProviderStops) /\ UNCHANGED <<proc, faults>>

AllDone == (\A p \in Proc : proc[p].pc \in {"new", "done"}) /\ UNCHANGED lifecycleVars

Next == (\E p \in Proc : Step(p) \/ Redo(p) \/ KickDies(p)) \/ Time \/ AllDone

Spec == Init /\ [][Next]_lifecycleVars

\* Workflows are durable, requests and turns end, the inactivity window passes.
\* Neither the end of a lifetime nor the provider's stop is counted on.
\* A lease that stays overdue is stale in the end.
Fairness ==
  /\ \A p \in Proc : WF_lifecycleVars(Step(p))
  /\ WF_lifecycleVars(IdlePasses /\ UNCHANGED <<proc, faults>>)
  /\ SF_lifecycleVars(\E p \in Proc : KickStale(p))

FairSpec == Spec /\ Fairness

-----------------------------------------------------------------------------
(* Properties                                                               *)

\* An evaluation does not stop the machine under a turn that it could see: a
\* stream that was there when the timers were read again is noticed by the last
\* check (#1399), however the turn and the evaluation interleave.
SparesOlderStreams ==
  \A p \in Proc : proc[p].pc = "stop" => proc[p].rivals \cap Streams = {}

\* Nor does it go on to stop a sandbox whose timers were started again, by
\* activity, an extension or a turn, before it read them the second time.
SparesFreshActivity == \A p \in Proc : proc[p].pc = "stop" => ~proc[p].spare

\* A lease that nobody will give up keeps every kick from starting a workflow: the
\* holder is still on its way, unless the process that claimed it died.
LeaseHasHolder ==
  row.lease # NoLease /\ faults = 0 =>
    proc[row.lease].kind = "lifecycle" /\ proc[row.lease].pc \notin {"new", "done"}

\* No wake-up is lost between a kick that finds a lease and a workflow that gives it
\* up, is found stale or loses the claim: when everything has settled, a live sandbox
\* has a workflow that will look at it.  Of scenes in which nobody starts the machine
\* again while the workflow of its last life ends: there its late write (Release reads,
\* ReleaseWrite clears) takes the lease that the new kick trusted.
Attended ==
  vm.on /\ Operable /\ faults = 0 /\ (\A p \in Proc : proc[p].pc \in {"new", "sleep", "done"}) =>
    row.lease # NoLease /\ proc[row.lease].pc = "sleep"

\* A machine that runs can be stopped: the row keeps the handle, or a request that
\* just started the machine is about to write it.
HandleKept ==
  vm.on => Operable \/ \E p \in Proc : proc[p].kind \in Provisioners /\ proc[p].pc = "write"

\* A machine that nobody uses is stopped long before the provider would do it,
\* whatever evaluation or kick failed before, as long as the session's page polls.
Reclaimed == vm.on ~> ~vm.on \/ vm.past > 0

=============================================================================
