---------------------------- MODULE RunLifecycle ----------------------------
(***************************************************************************)
(* What a loop run promises to whoever watches it, with no process, row or *)
(* message: a status, and a count of the steps the pointer has reached.    *)
(* Which status may follow which is the union of what pause, resume, retry,*)
(* cancel, the chain, the watchdog and the stall sweep are allowed to do.  *)
(***************************************************************************)
EXTENDS Naturals

VARIABLES
  state,   \* the run's status
  steps,   \* how many steps the pointer has reached
  late     \* the last of them was reached after the run had ended

Ended == {"completed", "cancelled"}

Init == state = "queued" /\ steps = 1 /\ late = FALSE

\* The status changes, the pointer stays.
Move(from, to) ==
  /\ state \in from
  /\ state' = to
  /\ UNCHANGED <<steps, late>>

\* The pointer moves on one step.  A run that has ended is overtaken by at
\* most one step whose bookkeeping was under way.
Reach ==
  /\ ~late
  /\ steps' = steps + 1
  /\ late' = (state \in Ended)

Begin    == Move({"queued"}, "running")
PauseRun == Move({"queued", "running", "stalled"}, "paused")
ResumeIt == Move({"paused"}, "running")
StallIt  == Move({"queued", "running"}, "stalled")
Complete == Move({"queued", "running"}, "completed")
FailIt   == Move({"queued", "running", "stalled", "paused"}, "failed")
CancelIt == Move({"queued", "running", "paused", "stalled"}, "cancelled")
Reuse    == Move({"failed", "stalled"}, "running")

\* A retry from failed or stalled, or the watchdog's from running.
Reattempt ==
  /\ state \in {"failed", "stalled", "running"}
  /\ state' = "running"
  /\ Reach

Advance == Reach /\ UNCHANGED state

Next ==
  \/ Begin \/ PauseRun \/ ResumeIt \/ StallIt \/ Complete \/ FailIt \/ CancelIt
  \/ Reuse \/ Reattempt \/ Advance

Spec == Init /\ [][Next]_<<state, steps, late>>
=============================================================================
