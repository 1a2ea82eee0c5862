---------------------------- MODULE MCPlanRuntime ----------------------------
(* A small instance of PlanRuntime. *)
EXTENDS PlanRuntime

CONSTANTS root, child, tool

\* A root that asks for a tool and a plan at once; the plan asks for nothing.
FlatParent == [c \in Contexts \ {Root} |-> root]
PairBatches == [p \in Plans |-> IF p = root THEN <<<<tool, child>>>> ELSE <<>>]

AllThreads ==
  {Run(p) : p \in Plans} \cup {Watch(p) : p \in Plans}
    \cup {Call(n) : n \in Contexts \ {Root}} \cup {User}
=============================================================================
