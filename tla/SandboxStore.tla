----------------------------- MODULE SandboxStore -----------------------------
(***************************************************************************)
(* The sandbox of one session: the virtual machine at the provider and     *)
(* the columns of the session row that describe it.                        *)
(*                                                                         *)
(* Times are abstracted.  Each lifetime the provider grants the machine    *)
(* has a number, and their ends come in that order; an expiresAt that the  *)
(* code stores is the number of the lifetime it was read from, 0 when      *)
(* there is none.  `idle` says that the inactivity window has passed, and  *)
(* `timer` identifies (lastActivityAt, hibernateAfter), which the code     *)
(* compares for change.                                                    *)
(***************************************************************************)
EXTENDS Integers, FiniteSets

CONSTANTS
  Proc,       \* requests, chat turns and lifecycle workflows
  MaxLives    \* bound: lifetimes granted by the provider

VARIABLES
  vm,     \* the machine
  row,    \* the session row
  proc    \* the processes

NoLease == 0

\* "none": never had a sandbox.  "paused": a name to resume.  "live": a name and an
\* expiresAt, which is what the code calls runtime state.
Handle == {"none", "paused", "live"}

LifecycleState == {"none", "provisioning", "active", "hibernating", "hibernated",
                   "archived", "failed"}

Life == 0..MaxLives

\* The lifetime last granted, and the last one whose end has passed.
VmRec == [on : BOOLEAN, life : Life, past : Life]

\* Values of the timers: as many as can be told apart at a time.
Timer == 0..(Cardinality(Proc) + 1)

RowRec == [archived : BOOLEAN,            \* status is archived
           handle   : Handle,             \* sandboxState
           hexp     : Life,               \* sandboxState.expiresAt
           lc       : LifecycleState,
           lease    : Proc \cup {NoLease},  \* lifecycleRunId
           rexp     : Life,               \* sandboxExpiresAt
           idle     : BOOLEAN,
           timer    : Timer]

-----------------------------------------------------------------------------
(* What the code reads from the row                                         *)

Past(e) == e # 0 /\ e <= vm.past

\* canOperateOnSandbox, hasRuntimeSandboxState.
Operable == row.handle = "live"

\* isSandboxActive.
IsSandboxActive == Operable /\ ~Past(row.hexp)

\* getLifecycleDueAtMs has come: inactivity or the approaching expiry.
Due == row.idle \/ Past(row.rexp)

\* Either column says archived.
IsArchived == row.archived \/ row.lc = "archived"

-----------------------------------------------------------------------------
(* Updates of the row.  None is conditional.                                *)

\* A value that nobody remembers; 0 is not remembering any.
NewTimer == CHOOSE t \in Timer \ {0, row.timer} : \A p \in Proc : proc[p].timer # t

Touch(r, idle) == [r EXCEPT !.idle = idle, !.timer = NewTimer]

\* buildLifecycleActivityUpdate.
Refresh(r) == [Touch(r, FALSE) EXCEPT !.lc = "active"]

\* buildActiveLifecycleUpdate with the state of a connected sandbox.
SetActive(r, e) == [Refresh(r) EXCEPT !.handle = IF e = 0 THEN "paused" ELSE "live",
                                      !.hexp = e, !.rexp = e]

\* clearSandboxState, sandboxExpiresAt and hibernateAfter null.
NoTimer(r) == [r EXCEPT !.rexp = 0, !.timer = NewTimer]

\* A mistake: the sandbox keeps its expiresAt.
ClearPartly(r) == [NoTimer(r) EXCEPT !.handle = "paused"]

Clear(r) == [NoTimer(r) EXCEPT !.handle = "paused", !.hexp = 0]

\* buildHibernatedLifecycleUpdate.
SetHibernated(r) == [Clear(r) EXCEPT !.lc = "hibernated", !.lease = NoLease]

\* The columns an archived session gets.
SetArchived(r) == [NoTimer(r) EXCEPT !.lc = "archived"]

-----------------------------------------------------------------------------
(* The provider                                                             *)

\* Resume or create the named machine; a running one is left alone.
PowerOn(m) == IF m.on THEN m ELSE [m EXCEPT !.on = TRUE, !.life = @ + 1]

\* extendTimeout grants a later end.
Extended(m) == [m EXCEPT !.life = @ + 1]

\* The expiresAt a connection reports: the one it was given while that is in the
\* future, else the machine's own, and none for a machine that is stopped.
Reported(known, m) ==
  IF ~m.on THEN 0 ELSE IF known # 0 /\ ~Past(known) THEN known ELSE m.life

\* Time passes: the inactivity window, the end of a lifetime.
IdlePasses ==
  /\ ~row.idle
  /\ row' = [row EXCEPT !.idle = TRUE]
  /\ UNCHANGED vm

Ages ==
  /\ vm.past < vm.life
  /\ vm' = [vm EXCEPT !.past = @ + 1]
  /\ UNCHANGED row

\* The provider stops a machine whose lifetime is over.
ProviderStops ==
  /\ vm.on /\ vm.past = vm.life
  /\ vm' = [vm EXCEPT !.on = FALSE]
  /\ UNCHANGED row
=============================================================================
