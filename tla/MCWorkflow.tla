----------------------------- MODULE MCWorkflow -----------------------------
(* The graphs that Workflow is checked with: node 1 starts, node 5 ends.   *)
EXTENDS Workflow

N(kind, yes, no) == [kind |-> kind, yes |-> yes, no |-> no]

\* The nodes whose branches are sets of F; which branch of a decision is
\* taken when is open, so one order of them is enough.
Executes(F) == {N("execute", t, {}) : t \in F}
Decisions(F) ==
  {N("decision", CHOOSE t \in p : TRUE, CHOOSE u \in p : p = {CHOOSE t \in p : TRUE, u}) :
     p \in {{t, u} : t, u \in F}}
LoopNodes(F) == {N("loop", t, u) : t, u \in F}

One(S) == {{t} : t \in S}
Some(S) == (SUBSET S) \ {{}}

FiveNodes == 1 .. 5
End5 == N("end", {}, {})

\* One target per branch, forward and back: loops, chains, joins, cycles.
Sequential ==
  LET F == One(2 .. 5)
      Any == Executes(F) \cup Decisions(F) \cup LoopNodes(F)
  IN  {<<N("start", {2}, {}), a, b, c, End5>> : a, b \in Any, c \in Executes(F)}

\* Any number of targets per branch, all ahead of the node.
Parallel ==
  LET Inner(i) == Executes(Some(i + 1 .. 5)) \cup Decisions(Some(i + 1 .. 5))
  IN  {<<N(IF s = 3 .. 5 THEN "parallel_start" ELSE "start", {2} \cup s, {}),
         a, b, c, IF s = 3 .. 4 THEN N("join_end", {}, {}) ELSE End5>> :
         s \in SUBSET (3 .. 5), a \in Inner(2), b \in Inner(3), c \in Inner(4)}

AllGraphs == Sequential \cup Parallel

\* validate_metadata, with its searches, accepts of the parallel graphs the
\* sound ones and no other.
ASSUME ValidIsSound ==
  \A g \in AllGraphs : WellFormed(g) /\ RequiresDag(g) => (Valid(g) <=> DagSound(g))
=============================================================================
