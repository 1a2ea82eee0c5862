------------------------------ MODULE Dataflow ------------------------------
(***************************************************************************)
(* What the executor of a parallel workflow promises, whatever queues it   *)
(* keeps: a node begins once all nodes before it have finished or are      *)
(* known never to run, and one of them chose it; it begins once; and a     *)
(* node that none of them chose never runs.                                *)
(* ("summarize has two predecessors and runs only when both active         *)
(* branches are complete", docs/skills/fae-workflow/references/recipes.md) *)
(***************************************************************************)
EXTENDS WorkflowGraph

VARIABLES graph,   \* the graph of the workflow
          begun,   \* the nodes that have begun
          done,    \* of these, the ones that have chosen their targets
          never,   \* the nodes that never run
          chosen   \* the edges that a finished node chose

flow_vars == <<graph, begun, done, never, chosen>>

\* The targets a node may choose.
Choices(n) ==
  IF graph[n].kind = "decision" THEN {graph[n].yes, graph[n].no}
                                ELSE {graph[n].yes}

Decided(n) == Predecessors(graph, n) \subseteq done \cup never

Called(n) ==
  \/ graph[n].kind \in Opening
  \/ \E p \in Predecessors(graph, n) : <<p, n>> \in chosen

Fresh(n) == n \notin begun \cup never /\ Decided(n)

\* A node that takes time begins.
Begin(n) ==
  /\ Fresh(n)
  /\ Called(n)
  /\ begun' = begun \cup {n}
  /\ UNCHANGED <<graph, done, never, chosen>>

\* It has finished and chooses its targets.
Finish(n) ==
  /\ n \in begun \ done
  /\ done' = done \cup {n}
  /\ \E targets \in Choices(n) : chosen' = chosen \cup ({n} \X targets)
  /\ UNCHANGED <<graph, begun, never>>

\* A node that takes no time begins and finishes.
Pass(n) ==
  /\ Fresh(n)
  /\ Called(n)
  /\ begun' = begun \cup {n}
  /\ done' = done \cup {n}
  /\ \E targets \in Choices(n) : chosen' = chosen \cup ({n} \X targets)
  /\ UNCHANGED <<graph, never>>

\* No node before it chose it.
Drop(n) ==
  /\ Fresh(n)
  /\ ~Called(n)
  /\ never' = never \cup {n}
  /\ UNCHANGED <<graph, begun, done, chosen>>

FlowInit ==
  /\ graph \in Graph
  /\ begun = {}
  /\ done = {}
  /\ never = {}
  /\ chosen = {}

FlowNext == \E n \in Nodes : Begin(n) \/ Finish(n) \/ Pass(n) \/ Drop(n)

FlowSpec == FlowInit /\ [][FlowNext]_flow_vars
=============================================================================
