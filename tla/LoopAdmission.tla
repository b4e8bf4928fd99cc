---------------------------- MODULE LoopAdmission ----------------------------
(***************************************************************************)
(* How runs of one agent loop come to be: dispatchLoopRun of               *)
(* dispatcher-bridge.ts, called for webhook, schedule and manual triggers  *)
(* by any number of dispatchers at once, with createAgentLoopRun, and with *)
(* the operator's retry and the watchdog's verdict, which bring an older   *)
(* run back.  What a run does once it is started is LoopRun; here only its *)
(* status moves.                                                           *)
(***************************************************************************)
EXTENDS Integers, FiniteSets

CONSTANTS
  Dispatcher,   \* calls of dispatchLoopRun
  Key,          \* idempotency keys of the trigger events
  MaxRuns,      \* bound: rows of agent_loop_runs
  MaxMoves      \* bound: moves of the runs and changes of the loop

ASSUME AdmissionBounds == MaxRuns \in Nat \ {0} /\ MaxMoves \in Nat

VARIABLES
  loop,    \* the loop's row: active, inactive or deleted
  nRuns,   \* number of runs
  run,     \* the runs
  call,    \* the dispatchers
  moves    \* moves made

vars == <<loop, nRuns, run, call, moves>>

Run == 1..MaxRuns

Status == {"queued", "running", "paused", "completed", "failed", "cancelled", "stalled"}

\* The statuses that keep another run from being admitted.
Active == {"queued", "running", "paused"}

RunRec == [status  : Status,
           key     : Key,
           step    : BOOLEAN,   \* its first step run exists
           pointer : BOOLEAN,   \* current_step_run_id IS NOT NULL
           starts  : Nat,       \* start() calls of dispatchers for its first step
           back    : 0..MaxRuns]   \* history: the newest run when it last came back

CallPC == {"new", "check", "lookup", "insert", "winner", "step", "pointer",
           "start", "fail", "done"}

Result == {"none", "loop_inactive", "active_run", "ownership_fail", "duplicate",
           "created", "dispatch_failed"}

\* Keys are not compared with anything but keys, so any key stands for none.
CallRec == [pc : CallPC, key : Key, run : 0..MaxRuns, result : Result]

\* Types of the runs and of the dispatchers' calls.
TypeOK ==
  /\ loop \in {"active", "inactive", "deleted"}
  /\ nRuns \in 0..MaxRuns
  /\ run \in [Run -> RunRec]
  /\ call \in [Dispatcher -> CallRec]
  /\ moves \in 0..MaxMoves

Init ==
  /\ loop = "active"
  /\ nRuns = 0
  /\ \E k \in Key :
       run = [r \in Run |-> [status |-> "queued", key |-> k, step |-> FALSE,
                             pointer |-> FALSE, starts |-> 0, back |-> 0]]
  /\ call \in [Dispatcher -> {[pc |-> "new", key |-> k, run |-> 0, result |-> "none"] :
                              k \in Key}]
  /\ moves = 0

Existing == 1..nRuns

ActiveRuns == {r \in Existing : run[r].status \in Active /\ loop # "deleted"}

WithKey(k) == {r \in Existing : run[r].key = k}

-----------------------------------------------------------------------------
(* dispatchLoopRun                                                         *)

GoTo(p, pc) == call' = [call EXCEPT ![p].pc = pc]

Answer(p, result) == call' = [call EXCEPT ![p].pc = "done", ![p].result = result]

\* The gates before dispatchLoopRun, on the loop row the caller loaded.
Receive(p) ==
  /\ call[p].pc = "new"
  /\ IF loop = "active" THEN GoTo(p, "check") ELSE Answer(p, "loop_inactive")
  /\ UNCHANGED <<loop, nRuns, run, moves>>

\* hasActiveRunForLoop, outside the transaction.
CheckActive(p) ==
  /\ call[p].pc = "check"
  /\ IF ActiveRuns = {} THEN GoTo(p, "lookup") ELSE Answer(p, "active_run")
  /\ UNCHANGED <<loop, nRuns, run, moves>>

\* A mistake: a duplicate starts the existing run again.
LookupRestarts(p) ==
  /\ call[p].pc = "lookup"
  /\ IF WithKey(call[p].key) = {} THEN GoTo(p, "insert")
     ELSE call' = [call EXCEPT ![p].pc = "start", ![p].run = CHOOSE r \in WithKey(call[p].key) : TRUE]
  /\ UNCHANGED <<loop, nRuns, run, moves>>

\* createAgentLoopRun first looks for the winner of the key.
Lookup(p) ==
  /\ call[p].pc = "lookup"
  /\ IF WithKey(call[p].key) = {} THEN GoTo(p, "insert") ELSE Answer(p, "duplicate")
  /\ UNCHANGED <<loop, nRuns, run, moves>>

\* The transaction, under a lock on the active loop row: the winner of the key,
\* an active run, or a new run.
InsertUnless(p, known, busy) ==
  /\ call[p].pc = "insert"
  /\ \/ /\ loop # "active"
        /\ GoTo(p, "winner")
        /\ UNCHANGED <<nRuns, run>>
     \/ /\ loop = "active" /\ known
        /\ Answer(p, "duplicate")
        /\ UNCHANGED <<nRuns, run>>
     \/ /\ loop = "active" /\ ~known /\ busy
        /\ Answer(p, "active_run")
        /\ UNCHANGED <<nRuns, run>>
     \/ /\ loop = "active" /\ ~known /\ ~busy
        /\ nRuns < MaxRuns
        /\ nRuns' = nRuns + 1
        /\ run' = [run EXCEPT ![nRuns + 1].key = call[p].key]
        /\ call' = [call EXCEPT ![p].pc = "step", ![p].run = nRuns + 1]
  /\ UNCHANGED <<loop, moves>>

\* Mistakes: one of the two checks is made before the lock only.
InsertBusy(p) == InsertUnless(p, WithKey(call[p].key) # {}, FALSE)
InsertAgain(p) == InsertUnless(p, FALSE, ActiveRuns # {})

Insert(p) == InsertUnless(p, WithKey(call[p].key) # {}, ActiveRuns # {})

\* The loop was not active under the lock: look for the winner once more.
Winner(p) ==
  /\ call[p].pc = "winner"
  /\ Answer(p, IF WithKey(call[p].key) = {} THEN "ownership_fail" ELSE "duplicate")
  /\ UNCHANGED <<loop, nRuns, run, moves>>

CreateStep(p) ==
  /\ call[p].pc = "step"
  /\ run' = [run EXCEPT ![call[p].run].step = TRUE]
  /\ GoTo(p, "pointer")
  /\ UNCHANGED <<loop, nRuns, moves>>

\* setInitialStepPointer; a deleted loop is not noticed.
SetPointer(p) ==
  /\ call[p].pc = "pointer"
  /\ run' = IF loop # "deleted" THEN [run EXCEPT ![call[p].run].pointer = TRUE] ELSE run
  /\ GoTo(p, "start")
  /\ UNCHANGED <<loop, nRuns, moves>>

\* start(runAgentLoopStepWorkflow, ...), and the event that says so, in one try:
\* either may throw.
Start(p) ==
  /\ call[p].pc = "start"
  /\ \/ /\ run' = [run EXCEPT ![call[p].run].starts = @ + 1]
        /\ Answer(p, "created") \/ GoTo(p, "fail")
     \/ /\ GoTo(p, "fail")
        /\ UNCHANGED run
  /\ UNCHANGED <<loop, nRuns, moves>>

\* Mistakes: the error kind is stored as the status; the run is left as it is.
FailRunKind(p) ==
  /\ call[p].pc = "fail"
  /\ run' = [run EXCEPT ![call[p].run].status = "dispatch_failed"]
  /\ Answer(p, "dispatch_failed")
  /\ UNCHANGED <<loop, nRuns, moves>>

FailRunIgnored(p) ==
  /\ call[p].pc = "fail"
  /\ Answer(p, "dispatch_failed")
  /\ UNCHANGED <<loop, nRuns, run, moves>>

\* A failed start fails the run, unless something moved it on.
FailRun(p) ==
  LET r == call[p].run
  IN  /\ call[p].pc = "fail"
      /\ run' = IF loop # "deleted" /\ run[r].status \in {"queued", "running"}
                THEN [run EXCEPT ![r].status = "failed"] ELSE run
      /\ Answer(p, "dispatch_failed")
      /\ UNCHANGED <<loop, nRuns, moves>>

\* The request dies; the trigger may be delivered again to another dispatcher.
Crash(p) ==
  /\ call[p].pc \notin {"new", "done"}
  /\ Answer(p, "none")
  /\ UNCHANGED <<loop, nRuns, run, moves>>

Dispatch(p) ==
  \/ Receive(p) \/ CheckActive(p) \/ Lookup(p) \/ Insert(p) \/ Winner(p)
  \/ CreateStep(p) \/ SetPointer(p) \/ Start(p) \/ FailRun(p)

-----------------------------------------------------------------------------
(* The rest of the system                                                  *)

Move == moves < MaxMoves /\ moves' = moves + 1

\* A status that LoopRun writes.  A run that was not active and is again comes back.
Becomes(r, from, to) ==
  /\ loop # "deleted"
  /\ run[r].status \in from
  /\ run' = [run EXCEPT ![r].status = to,
                        ![r].back = IF run[r].status \notin Active /\ to \in Active
                                    THEN nRuns ELSE run[r].back]
  /\ Move
  /\ UNCHANGED <<loop, nRuns, call>>

\* The chain begins a run that was started, or refuses to; completes it or fails it, as
\* does a resume or retry that cannot dispatch.
Proceed(r) ==
  \/ run[r].starts > 0 /\ \E to \in {"running", "failed"} : Becomes(r, {"queued"}, to)
  \/ Becomes(r, {"running"}, "completed")
  \/ Becomes(r, {"running", "stalled", "paused"}, "failed")

\* Pause, resume and cancel.
Control(r) ==
  \/ Becomes(r, {"queued", "running"}, "paused")
  \/ loop = "active" /\ Becomes(r, {"paused"}, "running")
  \/ Becomes(r, Active, "cancelled")

\* The sweep; a run whose snapshot it then refuses fails, as in Proceed.
Stall(r) == Becomes(r, {"queued", "running"}, "stalled")

\* The watchdog's verdict on a run that has stalled: pause, or retry.  While its model
\* was asked the run held no place in the loop, and nothing looks whether another took it.
Decide(r) == run[r].pointer /\ \E to \in {"paused", "running"} : Becomes(r, {"stalled"}, to)

\* retryCurrentStep of a failed or stalled run that has a pointer.  It does
\* not look at the loop's other runs.
Retry(r) ==
  /\ loop = "active"
  /\ run[r].pointer
  /\ Becomes(r, {"failed", "stalled"}, "running")

\* The owner edits the loop's status ...
Toggle ==
  /\ loop # "deleted"
  /\ loop' = IF loop = "active" THEN "inactive" ELSE "active"
  /\ Move
  /\ UNCHANGED <<nRuns, run, call>>

\* ... or deletes it, which cancels its live runs.
Delete ==
  /\ loop # "deleted"
  /\ loop' = "deleted"
  /\ run' = [r \in Run |-> IF r \in Existing /\ run[r].status \in Active \cup {"stalled"}
                           THEN [run[r] EXCEPT !.status = "cancelled"] ELSE run[r]]
  /\ Move
  /\ UNCHANGED <<nRuns, call>>

Next ==
  \/ \E p \in Dispatcher : Dispatch(p) \/ Crash(p)
  \/ \E r \in Existing : Proceed(r) \/ Control(r) \/ Stall(r) \/ Decide(r) \/ Retry(r)
  \/ Toggle \/ Delete

Spec == Init /\ [][Next]_vars

-----------------------------------------------------------------------------
(* Properties                                                              *)

\* "One active run per loop", as far as admission can keep it: a run that is queued,
\* running or paused is the newest one, or it had failed or stalled and came back, by the
\* operator's retry or the watchdog's verdict, after the newest was admitted.  So two
\* runs are active at once only through one that came back, which looks at no other run:
\* no interleaving of dispatchers, nor of a dispatcher with a verdict, admits a run beside
\* an active one.  The check before the transaction is not enough; the one under the lock
\* in createAgentLoopRun is.
AdmitsOneAtATime == \A r \in ActiveRuns : r = nRuns \/ run[r].back = nRuns

\* A trigger event becomes at most one run, whatever is delivered twice (the table's
\* unique key would refuse the second one too; here it is never asked).
OneRunPerKey == \A k \in Key : Cardinality(WithKey(k)) <= 1

\* Among dispatchers, only the one that created a run starts its first step, once, and
\* with the pointer in place (a start before the pointer would end every run after its
\* start node).  Resume and the operator's retry may start a first step that is still
\* queued again: that is a second delivery of it, and LoopRun's matter.
StartedOnce ==
  \A r \in Existing :
    /\ run[r].starts <= 1
    /\ run[r].starts = 1 /\ loop # "deleted" => run[r].step /\ run[r].pointer

\* No false success: a dispatcher answers "created" only for a run it started,
\* and a run whose start failed is not left queued to block the loop.
NoFalseSuccess ==
  \A p \in Dispatcher :
    /\ call[p].result = "created" => run[call[p].run].starts = 1
    /\ call[p].result = "dispatch_failed" => run[call[p].run].status # "queued"

=============================================================================
