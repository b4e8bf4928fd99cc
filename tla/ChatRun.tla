------------------------------- MODULE ChatRun -------------------------------
(***************************************************************************)
(* One chat: its active-stream slot, chats.active_stream_id, the durable   *)
(* runs of runAgentWorkflow that compete for it, and the requests that     *)
(* send a message, stop the run, follow its stream or delete messages.     *)
(* A step is one round trip to the database or to the workflow platform.   *)
(***************************************************************************)
EXTENDS Integers, FiniteSets

CONSTANTS
  MaxRuns,       \* bound: the runs that are started
  Request,
  Casts,         \* what the requests may be, as functions from Request to Kind
  MaxAttempts,   \* ACTIVE_STREAM_RECONCILIATION_MAX_ATTEMPTS
  MaxFaults      \* bound: calls that fail and requests that die

Kind == {"send", "stop", "stream", "delete"}

ASSUME ChatParams ==
  /\ MaxRuns \in Nat
  /\ Casts \subseteq [Request -> Kind]
  /\ MaxAttempts \in Nat \ {0}
  /\ MaxFaults \in Nat

\* Runs are numbered in the order in which start() makes them.
Run == 1..MaxRuns

\* An empty slot.
NoRun == 0

VARIABLES
  slot,   \* chats.active_stream_id
  run,    \* the platform's status, how far each run is, its workflow_runs row
  req,    \* the requests
  spent   \* the faults so far, and whether one of them was a blind one

vars == <<slot, run, req, spent>>

Live == {"pending", "running"}
Terminal == {"completed", "failed", "cancelled"}

RunPC == {"unborn", "queued", "turn", "clear", "record", "close", "over"}

RunRec == [status : Live \cup Terminal \cup {"none"}, pc : RunPC, recorded : BOOLEAN]

RequestPC == {"ask", "lookup", "isRecorded", "unblock", "reread", "startRun", "claimOwn",
              "cancelOwn", "cancelRun", "unslot", "edit", "answered"}

Answer == {"none", "started", "resumed", "conflict", "stopped", "nothing", "error", "ok"}

RequestRec == [kind : Kind, pc : RequestPC, seen : Run \cup {NoRun}, own : Run \cup {NoRun},
               tries : 0..(MaxAttempts - 1), answer : Answer]

\* Types of the slot, the runs and the requests.  What takes a recorded run for one
\* that is over may do so: its row is written when it has let go of the slot.
TypeOK ==
  /\ slot \in Run \cup {NoRun}
  /\ run \in [Run -> RunRec]
  /\ \A r \in Run : run[r].recorded => run[r].pc \in {"close", "over"}
  /\ req \in [Request -> RequestRec]
  /\ spent \in [faults : 0..MaxFaults, blind : BOOLEAN]

Unborn == [status |-> "none", pc |-> "unborn", recorded |-> FALSE]

At(pc, kind, answer) ==
  [kind |-> kind, pc |-> pc, seen |-> NoRun, own |-> NoRun, tries |-> 0, answer |-> answer]

Fresh(kind) == At("ask", kind, "none")

Init ==
  /\ slot = NoRun
  /\ run = [r \in Run |-> Unborn]
  /\ \E cast \in Casts : req = [q \in Request |-> Fresh(cast[q])]
  /\ spent = [faults |-> 0, blind |-> FALSE]

FaultAs(blind) ==
  /\ spent.faults < MaxFaults
  /\ spent' = [faults |-> spent.faults + 1, blind |-> spent.blind \/ blind]

Fault == FaultAs(FALSE)

\* A lookup of a run that fails reads as "no such run", and a claim that fails as
\* leave to go on without the slot: after one, a run may work unseen.
BlindFault == FaultAs(TRUE)

\* A mistake: the last writer wins.
ClaimAnyway(r) == TRUE

\* claimChatActiveStreamId: the slot if it is empty or already ours.
CanClaim(r) == slot \in {NoRun, r}

\* A mistake: clearing without comparing.
ClearBlindly(r) == slot' = NoRun

\* compareAndSetChatActiveStreamId(chat, r, null).
Vacate(r) == slot' = IF slot = r THEN NoRun ELSE slot

Cancelled(r) == IF run[r].status \in Live THEN [run EXCEPT ![r].status = "cancelled"] ELSE run

\* The agent is at work for the chat, and nobody has told it to stop.
AtWork(r) == run[r].pc = "turn" /\ run[r].status # "cancelled"

-----------------------------------------------------------------------------
(* runAgentWorkflow                                                         *)

AdvanceRun(r, pc) == run' = [run EXCEPT ![r].pc = pc]

Delivered(record, pc, status) ==
  [record EXCEPT !.pc = pc, !.status = IF @ = "pending" THEN status ELSE @]

\* The platform delivers a run it was asked to start, whose first step is
\* claimActiveStream: one that finds another run in the slot returns.
Enroll(r) ==
  /\ run[r].pc = "queued"
  /\ \/ /\ CanClaim(r)
        /\ slot' = r
        /\ run' = [run EXCEPT ![r] = Delivered(@, "turn", "running")]
     \/ /\ ~CanClaim(r)
        /\ run' = [run EXCEPT ![r] = Delivered(@, "over", "completed")]
        /\ UNCHANGED slot
  /\ UNCHANGED <<req, spent>>

\* The claim fails three times: the turn goes on without the slot.
EnrollFails(r) ==
  /\ run[r].pc = "queued"
  /\ BlindFault
  /\ run' = [run EXCEPT ![r] = Delivered(@, "turn", "running")]
  /\ UNCHANGED <<slot, req>>

\* A mistake: the usage is recorded with the turn, while the slot is still taken.
TurnRecords(r) ==
  /\ run[r].pc = "turn"
  /\ run' = [run EXCEPT ![r].pc = "clear", ![r].recorded = TRUE]
  /\ UNCHANGED <<slot, req, spent>>

\* The turn, from resolving its runtime to its last message.
Turn(r) ==
  /\ run[r].pc = "turn"
  /\ AdvanceRun(r, "clear")
  /\ UNCHANGED <<slot, req, spent>>

\* clearActiveStream, at the end of the turn or in finally.
ClearActiveStream(r) ==
  /\ run[r].pc = "clear"
  /\ Vacate(r)
  /\ AdvanceRun(r, "record")
  /\ UNCHANGED <<req, spent>>

\* recordWorkflowUsage writes the workflow_runs row.
RecordUsage(r) ==
  /\ run[r].pc = "record"
  /\ run' = [run EXCEPT ![r].pc = "close", ![r].recorded = TRUE]
  /\ UNCHANGED <<slot, req, spent>>

\* Both swallow their errors.
WriteFails(r) ==
  /\ Fault
  /\ \/ run[r].pc = "clear" /\ AdvanceRun(r, "record")
     \/ run[r].pc = "record" /\ AdvanceRun(r, "close")
  /\ UNCHANGED <<slot, req>>

\* The function returns, or throws what it caught.  The platform may go on to report
\* as running a run that returned because it waits for a tool approval (#1275).
Close(r) ==
  /\ run[r].pc = "close"
  /\ \E status \in {"completed", "failed", "running"} :
       run' = [run EXCEPT ![r].pc = "over",
                          ![r].status = IF @ = "cancelled" THEN @ ELSE status]
  /\ UNCHANGED <<slot, req, spent>>

\* A cancelled run may be ended between two of its steps, or go on until it notices.
End(r) ==
  /\ run[r].status = "cancelled" /\ run[r].pc # "over"
  /\ AdvanceRun(r, "over")
  /\ UNCHANGED <<slot, req, spent>>

RunStep(r) ==
  Enroll(r) \/ Turn(r) \/ ClearActiveStream(r) \/ RecordUsage(r) \/ Close(r)

-----------------------------------------------------------------------------
(* startChatRun, stopChatRun, and the stream and message routes             *)

ToRequest(q, pc) == req' = [req EXCEPT ![q].pc = pc]

\* The slot is free: the request goes on, and what was in it is forgotten.
Proceed(q, pc) == req' = [req EXCEPT ![q] = At(pc, @.kind, "none")]

Reply(q, answer) == req' = [req EXCEPT ![q] = At("answered", @.kind, answer)]

\* Every request begins by reading the chat.
Ask(q) ==
  /\ req[q].pc = "ask"
  /\ IF slot # NoRun
       THEN req' = [req EXCEPT ![q].seen = slot,
                               ![q].pc = IF req[q].kind = "stop" THEN "cancelRun" ELSE "lookup"]
       ELSE CASE req[q].kind = "send"   -> Proceed(q, "startRun")
              [] req[q].kind = "delete" -> Proceed(q, "edit")
              [] OTHER                  -> Reply(q, "nothing")
  /\ UNCHANGED <<slot, run, spent>>

LookupTaking(q, gone) ==
  /\ req[q].pc = "lookup"
  /\ IF run[req[q].seen].status \in gone THEN ToRequest(q, "unblock")
     ELSE CASE req[q].kind = "send"   -> ToRequest(q, "isRecorded")
            [] req[q].kind = "stream" -> Reply(q, "resumed")
            [] OTHER                  -> Reply(q, "conflict")
  /\ UNCHANGED <<slot, run, spent>>

\* Two mistakes: a run that has not started is taken for one that is over, and one
\* that failed is not.
LookupRunningOnly(q) == LookupTaking(q, Terminal \cup {"pending"})
LookupForgetsFailed(q) == LookupTaking(q, Terminal \ {"failed"})

\* The three routes that ask the platform about the run in the slot.
Lookup(q) == LookupTaking(q, Terminal)

\* A lookup that throws is taken for a run that no longer exists.
LookupFails(q) ==
  /\ req[q].pc = "lookup"
  /\ BlindFault
  /\ ToRequest(q, "unblock")
  /\ UNCHANGED <<slot, run>>

\* isWorkflowRunAlreadyRecorded: a run the platform calls live may be over.
CheckRecorded(q) ==
  /\ req[q].pc = "isRecorded"
  /\ IF run[req[q].seen].recorded THEN ToRequest(q, "unblock") ELSE Reply(q, "resumed")
  /\ UNCHANGED <<slot, run, spent>>

CheckRecordedFails(q) ==
  /\ req[q].pc = "isRecorded"
  /\ Fault
  /\ Reply(q, "resumed")
  /\ UNCHANGED <<slot, run>>

\* compareAndSetChatActiveStreamId(chat, seen, null).
ClearStale(q) ==
  /\ req[q].pc = "unblock"
  /\ Vacate(req[q].seen)
  /\ CASE req[q].kind = "send"   -> IF slot = req[q].seen THEN Proceed(q, "startRun")
                                                       ELSE ToRequest(q, "reread")
       [] req[q].kind = "stream" -> Reply(q, "nothing")
       [] OTHER                  -> Proceed(q, "edit")
  /\ UNCHANGED <<run, spent>>

\* The end of a round of reconcileExistingActiveStream.
Reread(q) ==
  /\ req[q].pc = "reread"
  /\ IF slot = NoRun THEN Proceed(q, "startRun")
     ELSE IF req[q].tries + 1 = MaxAttempts THEN Reply(q, "conflict")
     ELSE req' = [req EXCEPT ![q].seen = slot, ![q].tries = @ + 1, ![q].pc = "lookup"]
  /\ UNCHANGED <<slot, run, spent>>

\* start(runAgentWorkflow), which throws when the platform refuses the run.
StartRun(q) ==
  /\ req[q].pc = "startRun"
  /\ \/ Reply(q, "error") /\ UNCHANGED run
     \/ \E r \in Run :
          /\ run[r].pc = "unborn" /\ \A s \in 1..(r - 1) : run[s].pc # "unborn"
          /\ run' = [run EXCEPT ![r].pc = "queued", ![r].status = "pending"]
          /\ req' = [req EXCEPT ![q].own = r, ![q].pc = "claimOwn"]
  /\ UNCHANGED <<slot, spent>>

\* The handler claims the slot too, for a run that may have run already.
ClaimOwn(q) ==
  /\ req[q].pc = "claimOwn"
  /\ \/ CanClaim(req[q].own) /\ slot' = req[q].own /\ Reply(q, "started")
     \/ ~CanClaim(req[q].own) /\ ToRequest(q, "cancelOwn") /\ UNCHANGED slot
  /\ UNCHANGED <<run, spent>>

\* Another run has the slot: this request's run is a duplicate.
CancelOwn(q) ==
  /\ req[q].pc = "cancelOwn"
  /\ run' = Cancelled(req[q].own)
  /\ Reply(q, "conflict")
  /\ UNCHANGED <<slot, spent>>

\* The request says the same when the cancellation fails.
CancelOwnFails(q) ==
  /\ req[q].pc = "cancelOwn"
  /\ Fault
  /\ Reply(q, "conflict")
  /\ UNCHANGED <<slot, run>>

\* stopChatRun cancels what the slot named.  A run that is over may be gone from the
\* platform, which is all that a false "nothing was running" may mean.
CancelRun(q) ==
  /\ req[q].pc = "cancelRun"
  /\ \/ ToRequest(q, "unslot") /\ run' = Cancelled(req[q].seen) /\ UNCHANGED slot
     \/ /\ run[req[q].seen].pc = "over"
        /\ Vacate(req[q].seen) /\ Reply(q, "nothing") /\ UNCHANGED run
  /\ UNCHANGED spent

\* A mistake: any failure is taken for a run that does not exist.
CancelRunShrugs(q) ==
  /\ req[q].pc = "cancelRun"
  /\ Fault
  /\ Vacate(req[q].seen) /\ Reply(q, "nothing")
  /\ UNCHANGED run

CancelRunFails(q) ==
  /\ req[q].pc = "cancelRun"
  /\ Fault
  /\ Reply(q, "error")
  /\ UNCHANGED <<slot, run>>

\* The slot is emptied at once, before the cancelled run notices.
Unslot(q) ==
  /\ req[q].pc = "unslot"
  /\ Vacate(req[q].seen)
  /\ Reply(q, "stopped")
  /\ UNCHANGED <<run, spent>>

UnslotFails(q) ==
  /\ req[q].pc = "unslot"
  /\ Fault
  /\ Reply(q, "stopped")
  /\ UNCHANGED <<slot, run>>

\* deleteChatMessageAndFollowing.
Edit(q) ==
  /\ req[q].pc = "edit"
  /\ Reply(q, "ok")
  /\ UNCHANGED <<slot, run, spent>>

\* The server ends the request between two awaits, or a call it makes throws.
Dies(q) ==
  /\ req[q].pc \notin {"ask", "answered"}
  /\ Fault
  /\ Reply(q, "error")
  /\ UNCHANGED <<slot, run>>

\* The client sends, stops, deletes or opens the page again.
Again(q) ==
  /\ req[q].pc = "answered"
  /\ req' = [req EXCEPT ![q] = Fresh(@.kind)]
  /\ UNCHANGED <<slot, run, spent>>

RequestStep(q) ==
  \/ Ask(q) \/ Lookup(q) \/ CheckRecorded(q) \/ ClearStale(q) \/ Reread(q) \/ StartRun(q)
  \/ ClaimOwn(q) \/ CancelOwn(q) \/ CancelRun(q) \/ Unslot(q) \/ Edit(q) \/ Again(q)

RequestFault(q) ==
  \/ LookupFails(q) \/ CheckRecordedFails(q) \/ CancelOwnFails(q) \/ CancelRunFails(q)
  \/ UnslotFails(q) \/ Dies(q)

-----------------------------------------------------------------------------
Next ==
  \/ \E r \in Run : RunStep(r) \/ EnrollFails(r) \/ WriteFails(r) \/ End(r)
  \/ \E q \in Request : RequestStep(q) \/ RequestFault(q)

Spec == Init /\ [][Next]_vars

Fairness ==
  /\ \A r \in Run : WF_vars(RunStep(r))
  /\ \A q \in Request : WF_vars(RequestStep(q))

FairSpec == Spec /\ Fairness

-----------------------------------------------------------------------------
(* Properties                                                               *)

\* The run may still read or write the conversation.
Ahead(r) == run[r].pc \in {"queued", "turn"} /\ run[r].status # "cancelled"

\* "chats.active_stream_id is the only thing that stops one chat from spawning two
\* concurrent (billable) workflow runs" (start-run.ts): at most one run has the agent
\* at work, whatever requests, retries and late claims cross each other, until a blind fault.
OneRunPerChat ==
  ~spent.blind => \A r, s \in Run : AtWork(r) /\ AtWork(s) => r = s

\* A run at work is in the slot, where a stop, a resume and the sandbox's lifecycle
\* look for it: nobody's clearing takes the slot from it.
WorkIsVisible ==
  ~spent.blind => \A r \in Run : AtWork(r) => slot = r

\* A request that decided a run was stale decided rightly, and what it then clears is
\* never a run that has still to work, for all the steps between the look and the
\* clearing.
StaleIsStale ==
  ~spent.blind =>
    \A q \in Request : req[q].pc = "unblock" => ~Ahead(req[q].seen)

\* A stop that answered that it stopped a run, or that nothing was running where the
\* slot named a run, left none of that run's work to come.
StopIsHonest ==
  [][\A q \in Request, r \in Run :
       /\ req[q].kind = "stop" /\ req[q].seen = r
       /\ req'[q].answer \in {"stopped", "nothing"}
       => ~Ahead(r)']_vars

\* A slot left with a run that is over is emptied, as long as somebody opens the chat.
Freed ==
  \A r \in Run : slot = r /\ run[r].pc = "over" /\ run[r].status \in Terminal ~> slot # r
=============================================================================
