---------------------------- MODULE WorkflowDag ----------------------------
(***************************************************************************)
(* DagWorkflowPlan (workflow/plan.rs): the executor of a workflow with     *)
(* fan-out or joins.  init and next are runs of steps here: advance pops   *)
(* one ready node per step, resolve_outgoing settles one edge per step,    *)
(* and nothing else happens while edges are left to settle.  The order in  *)
(* which a node's edges are settled is left open, which covers every order *)
(* of targets a definition may have.                                       *)
(*                                                                         *)
(* mode: "advance" inside advance, "answer" inside next, "wait" between    *)
(* calls, "ended" after PlanNext::End, "failed" after abort, "bug" when    *)
(* the code gives up with an error that no input of a valid workflow       *)
(* should cause: an edge settled twice, an end with actions pending, a     *)
(* loop in a parallel graph, nothing left to run.                          *)
(***************************************************************************)
EXTENDS WorkflowGraph, Sequences

VARIABLES graph,      \* metadata.nodes
          mode,       \* where the plan is
          ready,      \* VecDeque of nodes whose edges are all settled
          scheduled,  \* nodes popped from ready
          skipped,    \* nodes none of whose edges is active
          live,       \* edge_states: edges settled as active
          dead,       \* edge_states: edges settled as inactive
          settling,   \* resolved in resolve_outgoing: edges to settle
          tasks,      \* actions asked for by this run of advance
          pending     \* actions without an answer, by node

flow_part == <<scheduled, skipped, live, dead, settling>>
dag_vars == <<graph, mode, ready, scheduled, skipped, live, dead, settling,
              tasks, pending>>

Modes == {"advance", "answer", "wait", "ended", "failed", "bug"}

\* The edges of n, those to the active targets marked.
Outgoing(n, active) == {<<n, t, t \in active>> : t \in Successors(graph, n)}

\* The edges of a skipped node.
Declined(n) == {<<n, t, FALSE>> : t \in Successors(graph, n)}

DagInit ==
  /\ graph \in Graph
  /\ WellFormed(graph)
  /\ mode = "advance"
  /\ ready = <<StartOf(graph)>>
  /\ scheduled = {}
  /\ skipped = {}
  /\ live = {}
  /\ dead = {}
  /\ settling = {}
  /\ tasks = {}
  /\ pending = {}

-----------------------------------------------------------------------------
(* advance                                                                  *)

\* A start, a decision: the node is complete, its edges are settled next.
Decide(n) ==
  /\ graph[n].kind \in Opening \cup {"decision"}
  /\ \E active \in {graph[n].yes} \cup
                   (IF graph[n].kind = "decision" THEN {graph[n].no} ELSE {}) :
       settling' = Outgoing(n, active)
  /\ UNCHANGED <<mode, tasks, pending>>

\* action_task: the action joins the batch that advance returns.
Execute(n) ==
  /\ graph[n].kind = "execute"
  /\ tasks' = tasks \cup {n}
  /\ pending' = pending \cup {n}
  /\ UNCHANGED <<mode, settling>>

\* An end; or a loop, which this executor refuses.
Conclude(n) ==
  /\ graph[n].kind \in Closing \cup {"loop"}
  /\ mode' = IF graph[n].kind = "loop" \/ tasks # {} \/ pending # {}
             THEN "bug" ELSE "ended"
  /\ UNCHANGED <<settling, tasks, pending>>

\* One turn of the loop; a node that is scheduled already is passed over.
Pop(n) ==
  /\ mode = "advance"
  /\ settling = {}
  /\ ready # <<>>
  /\ n = Head(ready)
  /\ ready' = Tail(ready)
  /\ scheduled' = scheduled \cup {n}
  /\ IF n \in scheduled THEN UNCHANGED <<mode, settling, tasks, pending>>
                         ELSE Decide(n) \/ Execute(n) \/ Conclude(n)
  /\ UNCHANGED <<graph, skipped, live, dead>>

\* ready is empty: the batch is handed to the runtime.
HandOut ==
  /\ mode = "advance"
  /\ settling = {}
  /\ ready = <<>>
  /\ mode' = IF tasks = {} THEN "bug" ELSE "wait"
  /\ tasks' = {}
  /\ UNCHANGED <<graph, ready, flow_part, pending>>

-----------------------------------------------------------------------------
(* resolve_outgoing                                                         *)

\* Seeded fault: one settled edge is enough.
AllInAny(t, states) == \E p \in Predecessors(graph, t) : <<p, t>> \in states

\* states.len() == predecessors.len() once the edges of "states" are settled.
AllIn(t, states) == \A p \in Predecessors(graph, t) : <<p, t>> \in states

\* Seeded fault: a node all of whose edges are settled runs.
AnyLiveAssumed(t, active) == Predecessors(graph, t) # {}

AnyLive(t, active) == \E p \in Predecessors(graph, t) : <<p, t>> \in active

\* An edge is settled; when it was the last one of its target, the target is
\* ready, or is skipped and all its edges are settled as inactive.
Settle(e) ==
  LET edge == <<e[1], e[2]>>
      t == e[2]
      active == IF e[3] THEN live \cup {edge} ELSE live
      idle == IF e[3] THEN dead ELSE dead \cup {edge}
      last == AllIn(t, active \cup idle)
      runs == last /\ AnyLive(t, active)
      skips == last /\ ~AnyLive(t, active) /\ t \notin skipped
  IN  /\ e \in settling
      /\ IF edge \in live \cup dead
         THEN /\ mode' = "bug"
              /\ settling' = {}
              /\ UNCHANGED <<ready, skipped, live, dead>>
         ELSE /\ live' = active
              /\ dead' = idle
              /\ ready' = IF runs /\ t \notin scheduled
                          THEN Append(ready, t) ELSE ready
              /\ skipped' = IF skips THEN skipped \cup {t} ELSE skipped
              /\ settling' = (settling \ {e}) \cup
                             (IF skips THEN Declined(t) ELSE {})
              /\ UNCHANGED mode
      /\ UNCHANGED <<graph, scheduled, tasks, pending>>

-----------------------------------------------------------------------------
(* next, abort                                                              *)

\* The answer of an action: its output is kept, its edges are settled next.
\* The runtime gives the answers of a batch one by one, in any order here.
Answer(n) ==
  /\ mode = "wait"
  /\ n \in pending
  /\ mode' = "answer"
  /\ pending' = pending \ {n}
  /\ settling' = Outgoing(n, graph[n].yes)
  /\ UNCHANGED <<graph, ready, scheduled, skipped, live, dead, tasks>>

\* Seeded fault: what is ready runs without waiting for the batch.
ResumeAtOnce ==
  /\ mode = "answer"
  /\ settling = {}
  /\ mode' = "advance"
  /\ UNCHANGED <<graph, ready, flow_part, tasks, pending>>

\* The end of next: no new batch before the last one is answered.
Resume ==
  /\ mode = "answer"
  /\ settling = {}
  /\ mode' = IF pending = {} THEN "advance" ELSE "wait"
  /\ UNCHANGED <<graph, ready, flow_part, tasks, pending>>

\* A hook, a template, an action or its answer fails, or the context is
\* cancelled: the runtime calls abort, which forgets the pending actions.  A
\* next that the runtime still calls then is refused: nothing is pending.
Stop ==
  /\ mode \in {"advance", "wait"}
  /\ settling = {}
  /\ mode' = "failed"
  /\ pending' = {}
  /\ tasks' = {}
  /\ UNCHANGED <<graph, ready, flow_part>>

DagProgress ==
  \/ \E n \in Nodes : Pop(n) \/ Answer(n)
  \/ \E e \in settling : Settle(e)
  \/ HandOut
  \/ Resume

DagNext == DagProgress \/ Stop

DagSpec == DagInit /\ [][DagNext]_dag_vars

-----------------------------------------------------------------------------
\* The type invariant of the plan; a batch is open only inside advance
\* (plan.rs:1117-1201).
DagTypeOK ==
  /\ graph \in Graph
  /\ mode \in Modes
  /\ ready \in Seq(Nodes)
  /\ scheduled \subseteq Nodes
  /\ skipped \subseteq Nodes
  /\ live \subseteq Nodes \X Nodes
  /\ dead \subseteq Nodes \X Nodes
  /\ settling \subseteq Nodes \X Nodes \X BOOLEAN
  /\ tasks \subseteq pending
  /\ pending \subseteq Nodes
  /\ mode \in {"wait", "answer"} => tasks = {}
  /\ mode = "wait" => settling = {}

\* The internal errors of the executors (plan.rs:1056, 1169, 1191, 1200) are
\* out of reach: validation admits no graph on which an edge is settled twice,
\* the end becomes ready with actions pending, or nothing is left to run
\* before the end, whatever the decisions and the order of answers.
NoInternalError == mode # "bug"

\* A workflow that ends has settled every node: each one ran to its end or was
\* skipped, and none did both (plan.rs:1026-1090).
EndSettlesAll ==
  mode = "ended" /\ RequiresDag(graph) =>
                    /\ scheduled \cup skipped = Nodes
                    /\ scheduled \cap skipped = {}
                    /\ live \cup dead = Edges(graph)

\* The executor implements Dataflow: a node has chosen its targets once all
\* its edges are settled or queued for it.
Sent == live \cup dead \cup {<<e[1], e[2]>> : e \in settling}
Complete == {n \in scheduled : \A t \in Successors(graph, n) : <<n, t>> \in Sent}
Taken == live \cup {<<e[1], e[2]>> : e \in {f \in settling : f[3]}}

Flow == INSTANCE Dataflow
          WITH begun <- scheduled, done <- Complete, never <- skipped,
               chosen <- Taken

FlowSpec == Flow!FlowSpec
=============================================================================
