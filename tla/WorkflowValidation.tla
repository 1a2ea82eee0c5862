------------------------- MODULE WorkflowValidation -------------------------
(***************************************************************************)
(* The rest of validate_metadata: which graphs of well-formed nodes a      *)
(* workflow may have (workflow/builder.rs).                                *)
(***************************************************************************)
EXTENDS WorkflowGraph, FiniteSetsExt

\* collect_reachable, by the edges of a set: the nodes that one may come to
\* from n, n among them.
RECURSIVE Closure(_, _)
Closure(edges, found) ==
  LET more == found \cup {m \in Nodes : \E n \in found : <<n, m>> \in edges}
  IN  IF more = found THEN found ELSE Closure(edges, more)

Reachable(g, n) == Closure(Edges(g), {n})

\* collect_predecessors.
CanReach(g, n) == Closure({<<e[2], e[1]>> : e \in Edges(g)}, {n})

\* visit of validate_cycles: a depth-first search that colours n grey, looks
\* at its successors and colours it black; "ok" stays FALSE once a successor
\* was grey and no loop.
RECURSIVE Visit(_, _, _)
Visit(g, n, colours) ==
  LET Look(m, seen) ==
        IF m \in seen.grey
        THEN [seen EXCEPT !.ok = @ /\ g[m].kind = "loop"]
        ELSE IF m \in seen.black THEN seen ELSE Visit(g, m, seen)
      after == FoldSet(Look, [colours EXCEPT !.grey = @ \cup {n}],
                       Successors(g, n))
  IN  [after EXCEPT !.grey = @ \ {n}, !.black = @ \cup {n}]

CyclesReturnToLoops(g) ==
  Visit(g, StartOf(g), [grey |-> {}, black |-> {}, ok |-> TRUE]).ok

\* validate_metadata.
Valid(g) ==
  /\ WellFormed(g)
  /\ RequiresDag(g) => Loops(g) = {}
  /\ Reachable(g, StartOf(g)) = Nodes
  /\ \A e \in Ends(g) : CanReach(g, e) = Nodes
  /\ CyclesReturnToLoops(g)
  /\ \A n \in Loops(g) : \A b \in g[n].yes : n \in Reachable(g, b)
=============================================================================
