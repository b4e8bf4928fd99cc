------------------------------ MODULE LoopGraph ------------------------------
(***************************************************************************)
(* The graph an agent loop run walks: the frozen definition snapshot of    *)
(* lib/agent-loops, after validateLoopDefinition has accepted it.  A node  *)
(* is a model value, an edge a record; ids, labels and configuration of    *)
(* nodes are left out, because no state change of a run depends on them.   *)
(***************************************************************************)
EXTENDS Integers, FiniteSets

CONSTANTS
  Node,        \* the nodes the definition declares
  NoNode,      \* "no next node" (null in the code)
  StartNode,   \* the one node of kind start
  Kind,        \* the kind of each node
  Edges        \* the edges, records [source, when, target]

NodeKind == {"start", "end", "condition", "github_check", "agent_step"}

Outcome == {"success", "failure", "true", "false"}

EdgeWhen == Outcome \cup {"always"}

-----------------------------------------------------------------------------
Outgoing(node) == {e \in Edges : e.source = node}

\* The nodes a walk from the start node visits: the least set that contains it
\* and is closed under the edges.
Reachable ==
  {n \in Node : \A S \in SUBSET Node :
     StartNode \in S /\ (\A e \in Edges : e.source \in S => e.target \in S) => n \in S}

(***************************************************************************)
(* The rules of validateLoopDefinition that concern the graph; those on    *)
(* ids, sizes and node configuration have no counterpart here.             *)
(***************************************************************************)
ValidGraph ==
  /\ StartNode \in Node
  /\ \A n \in Node : Kind[n] = "start" <=> n = StartNode
  /\ \A e \in Edges : e.source \in Node /\ e.target \in Node
  /\ \A n \in Node : Kind[n] # "end" => Outgoing(n) # {}
  /\ \A n \in Node : Kind[n] = "condition" => {e.when : e \in Outgoing(n)} = {"true", "false"}
  /\ \A e \in Edges : e.when \in {"true", "false"} => Kind[e.source] = "condition"
  /\ \A e, f \in Edges : e.source = f.source /\ e.when = f.when => e = f
  /\ \E n \in Reachable : Kind[n] = "end"

ASSUME GraphAssumption ==
  /\ NoNode \notin Node
  /\ Kind \in [Node -> NodeKind]
  /\ \A e \in Edges : e.when \in EdgeWhen
  /\ ValidGraph

-----------------------------------------------------------------------------
EdgesFor(node, when) == {e \in Edges : e.source = node /\ e.when = when}

\* The edge that matches the outcome, else the "always" edge, else none; an
\* edge whose target is not declared leads nowhere.
EvaluateEdges(node, outcome) ==
  LET direct  == EdgesFor(node, outcome)
      matches == IF direct # {} THEN direct ELSE EdgesFor(node, "always")
  IN  IF \E e \in matches : e.target \in Node
      THEN (CHOOSE e \in matches : e.target \in Node).target
      ELSE NoNode
=============================================================================
