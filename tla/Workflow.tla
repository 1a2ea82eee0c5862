------------------------------ MODULE Workflow ------------------------------
(***************************************************************************)
(* A workflow from its definition to its end: the metadata is validated,   *)
(* and the plan that build_workflow_plan makes of it is the executor of    *)
(* WorkflowDag or, for a graph without fan-out and joins, the sequential   *)
(* WorkflowPlan (workflow/plan.rs), which is modelled here.  It uses mode  *)
(* and pending as WorkflowDag does, and alone may run loops.               *)
(***************************************************************************)
EXTENDS WorkflowDag, WorkflowValidation

CONSTANTS Graphs,        \* the definitions that somebody writes
          MaxIterations  \* max_iterations of every loop

VARIABLES current,   \* the node the sequential plan is at
          loops      \* iterations of every loop

seq_vars == <<current, loops>>
vars == <<dag_vars, seq_vars>>
dag_queues == <<ready, scheduled, skipped, live, dead, settling, tasks>>

ASSUME WorkflowAssumption == Graphs \subseteq Graph /\ MaxIterations \in Nat \ {0}

\* build_workflow_plan, of a definition that validate_metadata accepts.
Init ==
  /\ graph \in {g \in Graphs : Valid(g)}
  /\ DagInit
  /\ current = StartOf(graph)
  /\ loops = [n \in Nodes |-> 0]

-----------------------------------------------------------------------------
(* WorkflowPlan: advance                                                    *)

\* only_target, and the node that it names.
GoTo(targets) ==
  IF \E t \in Nodes : targets = {t}
  THEN current' \in targets /\ UNCHANGED mode
  ELSE mode' = "bug" /\ UNCHANGED current

AtStart ==
  /\ graph[current].kind \in Opening
  /\ IF graph[current].kind = "start"
     THEN GoTo(graph[current].yes)
     ELSE mode' = "bug" /\ UNCHANGED current
  /\ UNCHANGED <<loops, pending>>

AtDecision ==
  /\ graph[current].kind = "decision"
  /\ GoTo(graph[current].yes) \/ GoTo(graph[current].no)
  /\ UNCHANGED <<loops, pending>>

\* Seeded fault: the iteration is not counted.
IterateUncounted ==
  /\ graph[current].kind = "loop"
  /\ GoTo(graph[current].yes)
  /\ UNCHANGED <<loops, pending>>

\* The condition is true: one more iteration, or an error at the cap.
Iterate ==
  /\ graph[current].kind = "loop"
  /\ IF loops[current] < MaxIterations
     THEN /\ loops' = [loops EXCEPT ![current] = @ + 1]
          /\ GoTo(graph[current].yes)
     ELSE /\ mode' = "failed"
          /\ UNCHANGED <<current, loops>>
  /\ UNCHANGED pending

\* The condition is false.
Exit ==
  /\ graph[current].kind = "loop"
  /\ GoTo(graph[current].no)
  /\ UNCHANGED <<loops, pending>>

\* action_task, which refuses a second action.
AtExecute ==
  /\ graph[current].kind = "execute"
  /\ mode' = IF pending = {} THEN "wait" ELSE "bug"
  /\ pending' = pending \cup {current}
  /\ UNCHANGED seq_vars

AtEnd ==
  /\ graph[current].kind \in Closing
  /\ mode' = IF graph[current].kind = "end" THEN "ended" ELSE "bug"
  /\ UNCHANGED <<seq_vars, pending>>

SeqAdvance ==
  /\ mode = "advance"
  /\ AtStart \/ AtDecision \/ Iterate \/ Exit \/ AtExecute \/ AtEnd
  /\ UNCHANGED <<graph, dag_queues>>

\* next: the answer of the pending action, and on to the next node.
SeqAnswer ==
  /\ mode = "wait"
  /\ pending' = {}
  /\ IF /\ graph[current].kind = "execute"
        /\ current \in pending
        /\ \E t \in Nodes : graph[current].yes = {t}
     THEN /\ mode' = "advance"
          /\ current' \in graph[current].yes
     ELSE /\ mode' = "bug"
          /\ UNCHANGED current
  /\ UNCHANGED <<graph, dag_queues, loops>>

-----------------------------------------------------------------------------
ParallelStep == DagProgress /\ UNCHANGED seq_vars
SequentialStep == SeqAdvance \/ SeqAnswer

Progress == IF RequiresDag(graph) THEN ParallelStep ELSE SequentialStep

Next == Progress \/ (Stop /\ UNCHANGED seq_vars)

WorkflowSpec == Init /\ [][Next]_vars

\* The plan runtime calls the plan as long as it has answers, and every action
\* ends (PlansEnd of PlanRuntime); nothing makes a workflow stop early.
FairSpec == WorkflowSpec /\ WF_vars(Progress)

-----------------------------------------------------------------------------
\* Every cycle of the graph takes the body of a loop, whose counter bounds it.
CyclesCount(g) ==
  LET uncounted == {e \in Edges(g) : e[1] \in Loops(g) => e[2] \notin g[e[1]].yes}
  IN  \A e \in uncounted : e[1] \notin Closure(uncounted, {e[2]})

\* A workflow ends or fails whatever its conditions say, by its joins, its
\* skips and the caps of its loops, provided that every cycle of it counts
\* (plan.rs:439, 514, 1200).  Nothing but the definition's author provides it:
\* a cycle through the exit of a loop is valid and may spin for ever.
WorkflowEnds == CyclesCount(graph) ~> mode \in {"ended", "failed"}

=============================================================================
