--------------------------- MODULE WorkflowGraph ---------------------------
(***************************************************************************)
(* The graph of a workflow (workflow/definition.rs) and the part of        *)
(* validate_metadata (workflow/builder.rs) that looks at one node at a     *)
(* time.  A graph gives every node its kind and two sets of targets: "yes" *)
(* is next, on_true or the body of a loop; "no" is on_false or the next of *)
(* a loop.  Ids, actions, conditions and templates are left out.           *)
(***************************************************************************)
EXTENDS Naturals, FiniteSets

CONSTANT Nodes

Opening == {"start", "parallel_start"}
Closing == {"end", "join_end"}
Kinds == Opening \cup Closing \cup {"execute", "decision", "loop"}

Graph == [Nodes -> [kind : Kinds, yes : SUBSET Nodes, no : SUBSET Nodes]]

Successors(g, n) == g[n].yes \cup g[n].no

Edges(g) == UNION {{n} \X Successors(g, n) : n \in Nodes}

Predecessors(g, n) == {p \in Nodes : n \in Successors(g, p)}

Starts(g) == {n \in Nodes : g[n].kind \in Opening}
Ends(g) == {n \in Nodes : g[n].kind \in Closing}
Loops(g) == {n \in Nodes : g[n].kind = "loop"}

\* What the kind of a node asks of its targets: validate_targets refuses an
\* empty list, the checks of a loop equal targets of its body and its exit.
TargetsOK(g, n) ==
  CASE g[n].kind \in Opening \cup {"execute"} -> g[n].yes # {} /\ g[n].no = {}
    [] g[n].kind \in Closing -> Successors(g, n) = {}
    [] g[n].kind = "decision" -> g[n].yes # {} /\ g[n].no # {}
    [] g[n].kind = "loop" -> \E b, x \in Nodes : /\ b # x
                                                 /\ g[n].yes = {b}
                                                 /\ g[n].no = {x}

WellFormed(g) ==
  /\ \E s \in Nodes : Starts(g) = {s} /\ Predecessors(g, s) = {}
  /\ \E e \in Nodes : Ends(g) = {e}
  /\ \A n \in Nodes : TargetsOK(g, n)

StartOf(g) == CHOOSE s \in Nodes : g[s].kind \in Opening

\* requires_dag_execution: a fan-out, or a node other than a loop that two
\* nodes lead to.
RequiresDag(g) ==
  \/ \E n \in Nodes : g[n].kind \in {"parallel_start", "join_end"}
  \/ \E n \in Nodes \ Loops(g) :
       \/ Cardinality(g[n].yes) > 1
       \/ Cardinality(g[n].no) > 1
       \/ Cardinality(Predecessors(g, n)) > 1

\* What validation is to give the executor of parallel graphs, said of sets of
\* nodes: no loop; a set that holds the start and all that follows is all
\* nodes, and so is one that holds the end and all that leads to it; and no
\* cycle, for every set of nodes has a first one and a last one.
DagSound(g) ==
  /\ Loops(g) = {}
  /\ \A S \in SUBSET Nodes :
       Starts(g) \subseteq S /\ (\A n \in S : Successors(g, n) \subseteq S) => S = Nodes
  /\ \A S \in SUBSET Nodes :
       Ends(g) \subseteq S /\ (\A n \in S : Predecessors(g, n) \subseteq S) => S = Nodes
  /\ \A S \in (SUBSET Nodes) \ {{}} :
       /\ \E n \in S : Predecessors(g, n) \cap S = {}
       /\ \E n \in S : Successors(g, n) \cap S = {}
=============================================================================
