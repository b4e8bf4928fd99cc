------------------------------ MODULE MCSandbox ------------------------------
(* Who takes part in each run.                                               *)
EXTENDS SandboxSession

Workflow == {"lifecycle"}

Live(kinds)  == [fresh |-> FALSE, kinds |-> kinds]
Fresh(kinds) == [fresh |-> TRUE,  kinds |-> kinds]

\* A live sandbox, a turn and activity, or a reconnection.
Turns == {Live(<<Workflow, {"chat"}, {"activity", "reconnect"}>>),
          Live(<<Workflow, {"headless"}, {"activity"}>>)}

\* A live sandbox that two requests use, with room for a second workflow; and
\* requests that race to provision a new session and to use what they made.
Requests == {Live(<<Workflow, {"extend", "status", "reconnect"}, {"activity"}, Workflow>>),
             Fresh(<<{"create", "prewarm"}, {"create", "resume", "extend"}>>)}

\* A session that is archived while somebody else acts.
Archiving == {Live(<<Workflow, {"archive"},
                     {"pause", "delete", "extend", "status", "archive", "unarchive"}>>)}

\* A polled session.
Polled == {Live(<<Workflow, {"activity"}, {"status"}, Workflow>>)}
=============================================================================
