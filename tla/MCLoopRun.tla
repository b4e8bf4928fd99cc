------------------------------ MODULE MCLoopRun ------------------------------
(* Small graphs and the constants of the runs of LoopRun.                    *)
EXTENDS LoopRunProps, TLC

CONSTANTS nStart, nAgent, nCond, nEnd, nCheck

\* start -> agent -> condition, which loops back to the agent or ends.
CycleKind  == nStart :> "start" @@ nAgent :> "agent_step" @@ nCond :> "condition" @@ nEnd :> "end"
CycleEdges == {[source |-> nStart, when |-> "success", target |-> nAgent],
               [source |-> nAgent, when |-> "success", target |-> nCond],
               [source |-> nCond, when |-> "true",    target |-> nEnd],
               [source |-> nCond, when |-> "false",   target |-> nAgent]}

\* start -> agent -> end, with no failure edge.
LineKind  == nStart :> "start" @@ nAgent :> "agent_step" @@ nEnd :> "end"
LineEdges == {[source |-> nStart, when |-> "always",  target |-> nAgent],
              [source |-> nAgent, when |-> "success", target |-> nEnd]}

\* start -> agent -> check, which ends the run or sends it back to the agent.
CheckKind  == nStart :> "start" @@ nAgent :> "agent_step" @@ nCheck :> "github_check" @@ nEnd :> "end"
CheckEdges == {[source |-> nStart, when |-> "success", target |-> nAgent],
               [source |-> nAgent, when |-> "success", target |-> nCheck],
               [source |-> nCheck, when |-> "success", target |-> nEnd],
               [source |-> nCheck, when |-> "failure", target |-> nAgent]}
=============================================================================
