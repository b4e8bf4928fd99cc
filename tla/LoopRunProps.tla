---------------------------- MODULE LoopRunProps ----------------------------
(***************************************************************************)
(* What is claimed of LoopRun, and what the repository says of it that the *)
(* code does not keep.                                                     *)
(***************************************************************************)
EXTENDS LoopRun

StepRows == 1..rows

Inserted(via) == {s \in StepRows : hist[s].via = via}

-----------------------------------------------------------------------------
(* Routing: the pointer, attempts and counters                             *)

\* A step is left once.  Whatever deliveries race to advance from a step, and
\* whichever retry competes with them, at most one row has it as the step it
\* came from: the compare-and-set on current_step_run_id in
\* createAndAdvanceAgentLoopStep and in both retry transactions.
OneSuccessor ==
  \A r, s \in StepRows : r # s => hist[r].from # hist[s].from

\* Attempts of a node are numbered once each, although MAX(attempt) is read
\* outside the transaction that inserts (chain.ts) and by three writers.
AttemptsUnique ==
  \A r, s \in StepRows :
    r # s => <<stepRun[r].node, stepRun[r].attempt>> # <<stepRun[s].node, stepRun[s].attempt>>

\* The counters the guardrails compare are exact, although every delivery
\* writes them from the values it loaded before it executed: stepCount is the
\* number of advances, iterationCount the number of them that revisit a node.
CountersExact ==
  /\ stepCount = Cardinality(Inserted("advance"))
  /\ iterationCount = Cardinality({s \in Inserted("advance") :
                        \E r \in 1..(s - 1) : stepRun[r].node = stepRun[s].node})

\* No interleaving of deliveries, retries and sweeps carries a run past its
\* guardrails.
WithinGuardrails == stepCount <= MaxSteps /\ iterationCount <= MaxIterations

\* The only queued row is the one the pointer names: no step that never ran is
\* left behind for a newer one (the reason retryCurrentStep reuses a queued
\* step).
NoOrphanQueued == \A s \in StepRows : stepRun[s].status = "queued" => s = cur

-----------------------------------------------------------------------------
(* Execution of steps                                                      *)

\* The external side effects of an agent step attempt are begun by at most one
\* delivery, whatever is redelivered, restarted or dispatched twice: the
\* execution_claim_generation compare-and-set.
ExecutesOnce == \A s \in StepRows : hist[s].execs <= 1

\* While neither the sweep nor an operator hands the run over, at most one
\* agent works on it, redelivered and restarted workers included.
OneAgentAtWork ==
  spent.sweeps = 0 /\ spent.controls = 0 =>
    Cardinality({d \in Delivery : dl[d].pc = "work" /\ KindOf(d) = "agent_step"}) <= 1

\* The verdict on an agent step is never reversed: once it has succeeded or
\* failed, a late delivery can skip it but not turn it into the other.
VerdictStands ==
  [][\A s \in StepRows :
       /\ Kind[stepRun[s].node] = "agent_step"
       /\ stepRun[s].status \in {"succeeded", "failed"}
       => stepRun'[s].status \in {stepRun[s].status, "skipped"}]_vars

\* A step the pointer reaches after the run was cancelled or had completed is
\* never executed.
NothingRunsAfterEnd ==
  \A s \in StepRows :
    hist[s].under \in {"cancelled", "completed"} => stepRun[s].status \in {"queued", "skipped"}

-----------------------------------------------------------------------------
(* The run                                                                 *)

\* cancelled and completed are final against every late writer.
EndIsFinal ==
  [][(status = "cancelled" \/ status = "completed") => status' = status]_vars

\* After its source is deleted a run is history: no process changes the run,
\* its pointer or any of its steps again.
DeletedIsHistory ==
  [][source = "deleted" => UNCHANGED <<status, cur, stepCount, iterationCount, rows, stepRun>>]_vars

Abstract == INSTANCE RunLifecycle WITH
  state <- status,
  steps <- rows,
  late  <- hist[cur].under \in {"cancelled", "completed"}

\* The whole system implements the run's lifecycle.
ImplementsLifecycle == Abstract!Spec

-----------------------------------------------------------------------------
(* The watchdog                                                            *)

\* No phantom retry: the retries charged to a node's budget never exceed the
\* attempts the watchdog really inserted for it.
NoPhantomRetry ==
  \A n \in Node :
    retries[n] <= Cardinality({s \in Inserted("watchdog") : stepRun[s].node = n})

\* A skip never has an edge to follow: the chain asks the watchdog only when
\* the failure edge is missing, and a stall may not skip.
SkipHasNowhereToGo ==
  \A p \in Caller :
    wd[p].pc = "apply" /\ wd[p].decision = "skip"
      => EvaluateEdges(NodeOf(wd[p].step), "failure") = NoNode

-----------------------------------------------------------------------------
(* Progress                                                                *)

\* No worker dies, every start() succeeds and nobody intervenes; deliveries may
\* still be duplicated and executors may throw.
LosslessNext ==
  \/ \E d \in Delivery : Deliver(d) \/ Disturb(d)
  \/ \E p \in Caller : Watch(p)
  \/ Request

\* Workers take their next step, and start() requests are carried out.
FairSpec ==
  /\ Init /\ [][LosslessNext]_vars
  /\ \A d \in Delivery : WF_vars(Deliver(d))
  /\ \A p \in Caller : WF_vars(Watch(p))
  /\ WF_vars(Request)

\* A run without watchdog ends, even when its graph has a cycle and the
\* condition never leaves it: the guardrails stop it, and of two workers that
\* run the same delivery one always carries the run on.
RunEnds == <>(status \in {"completed", "failed"})

-----------------------------------------------------------------------------
(* What the repository says and the code does not keep                     *)

\* store.ts: after a pause that landed mid-execution, resume dispatches the
\* queued next step at once.  Here: with no fault, a running run always has
\* something under way.
ResumeContinues ==
  status = "running" /\ spent.faults = 0
    => \/ calls # {}
       \/ \E d \in Delivery : InFlight(d)
       \/ sweep.pc # "idle"
=============================================================================
