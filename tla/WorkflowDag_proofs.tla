------------------------- MODULE WorkflowDag_proofs -------------------------
(***************************************************************************)
(* Proofs about the executor of parallel workflows, for every graph of     *)
(* well-formed nodes, cyclic or not: its type invariant, that no edge is   *)
(* settled twice, and that it implements Dataflow; and, where the graph is *)
(* sound as the builder demands (DagSound), that no internal error occurs  *)
(* and that the end node is reached with everything settled.               *)
(***************************************************************************)
EXTENDS WorkflowDag, TLAPS

\* What the graph has of WellFormed, node by node.
StartAlone == \A n \in Nodes : graph[n].kind \in Opening =>
                                 Predecessors(graph, n) = {}
ManyWays == \A n \in Nodes : graph[n].kind \notin Closing => Successors(graph, n) # {}
OneWay == \A n \in Nodes : graph[n].kind \in Opening \cup {"execute"} =>
                             Successors(graph, n) = graph[n].yes
NoWay == \A n \in Nodes : graph[n].kind \in Closing => Successors(graph, n) = {}
GraphOK == StartAlone /\ ManyWays /\ OneWay /\ NoWay

\* All edges to n are settled: it may run, or it never will.
May(n) == \/ graph[n].kind \in Opening
          \/ AllIn(n, live \cup dead) /\ AnyLive(n, live)
MayNot(n) == /\ Predecessors(graph, n) # {}
             /\ AllIn(n, live \cup dead)
             /\ ~AnyLive(n, live)

\* The books the executor keeps.
Queued(n) == \E i \in 1 .. Len(ready) : n = ready[i]
ReadyMay == \A n \in Nodes : Queued(n) => May(n)
ScheduledMay == \A n \in scheduled : May(n)
SkippedMayNot == \A n \in skipped : MayNot(n)
SettledOnce == /\ live \cap dead = {}
               /\ \A e \in settling : /\ e[2] \in Successors(graph, e[1])
                                      /\ <<e[1], e[2]>> \notin live \cup dead
               /\ \A e, f \in settling : e[1] = f[1] /\ e[2] = f[2] => e = f
SentByDone == \A s, t \in Nodes : <<s, t>> \in Sent =>
                s \in skipped \/ (s \in scheduled /\ s \notin pending)
SentTogether == \A s, t \in Nodes : <<s, t>> \in Sent =>
                  \A u \in Successors(graph, s) : <<s, u>> \in Sent
PendingOK == pending \subseteq scheduled /\ \A n \in pending : graph[n].kind = "execute"

Books == /\ GraphOK
         /\ ReadyMay
         /\ ScheduledMay
         /\ SkippedMayNot
         /\ SettledOnce
         /\ SentByDone
         /\ SentTogether
         /\ PendingOK

\* No edge that is left to settle is settled already: the error of plan.rs:1056
\* is out of reach.
NoEdgeTwice == \A e \in settling : <<e[1], e[2]>> \notin live \cup dead

-----------------------------------------------------------------------------
LEMMA GraphLemma ==
  ASSUME graph \in Graph, WellFormed(graph)
  PROVE  GraphOK /\ StartOf(graph) \in Nodes /\ graph[StartOf(graph)].kind \in Opening
<1>1. PICK s \in Nodes : Starts(graph) = {s} /\ Predecessors(graph, s) = {}
  BY DEF WellFormed
<1>2. \A n \in Nodes : graph[n].kind \in Opening => n = s
  BY <1>1 DEF Starts
<1>3. graph[s].kind \in Opening
  BY <1>1 DEF Starts
<1>4. StartAlone
  BY <1>1, <1>2 DEF StartAlone
<1>5. \A n \in Nodes : TargetsOK(graph, n)
  BY DEF WellFormed
<1>6. \A n \in Nodes : graph[n].kind \in Kinds
  BY DEF Graph
<1>7. ASSUME NEW n \in Nodes
      PROVE  /\ graph[n].kind \notin Closing => Successors(graph, n) # {}
             /\ graph[n].kind \in Opening \cup {"execute"} =>
                  Successors(graph, n) = graph[n].yes
             /\ graph[n].kind \in Closing => Successors(graph, n) = {}
  BY <1>5, <1>6 DEF TargetsOK, Kinds, Opening, Closing, Successors
<1>8. StartOf(graph) \in Nodes /\ graph[StartOf(graph)].kind \in Opening
  BY <1>3 DEF StartOf
<1> QED
  BY <1>4, <1>7, <1>8 DEF GraphOK, ManyWays, OneWay, NoWay

LEMMA SuccessorsType ==
  ASSUME graph \in Graph, NEW n \in Nodes
  PROVE  /\ Successors(graph, n) \subseteq Nodes
         /\ graph[n].yes \subseteq Successors(graph, n)
         /\ graph[n].no \subseteq Successors(graph, n)
         /\ graph[n].kind \in Kinds
         /\ \A active : Outgoing(n, active) \subseteq Nodes \X Nodes \X BOOLEAN
         /\ Declined(n) \subseteq Nodes \X Nodes \X BOOLEAN
<1>1. /\ graph[n].yes \subseteq Nodes
      /\ graph[n].no \subseteq Nodes
      /\ graph[n].kind \in Kinds
  BY DEF Graph
<1>2. Successors(graph, n) \subseteq Nodes
  BY <1>1 DEF Successors
<1>3. ASSUME NEW active PROVE Outgoing(n, active) \subseteq Nodes \X Nodes \X BOOLEAN
  <2>1. \A t \in Successors(graph, n) : (t \in active) \in BOOLEAN
    OBVIOUS
  <2>2. \A t \in Successors(graph, n) :
          <<n, t, t \in active>> \in Nodes \X Nodes \X BOOLEAN
    BY <1>2, <2>1, Zenon
  <2> QED
    BY <2>2, Zenon DEF Outgoing
<1>4. Declined(n) \subseteq Nodes \X Nodes \X BOOLEAN
  <2>1. \A t \in Successors(graph, n) : <<n, t, FALSE>> \in Nodes \X Nodes \X BOOLEAN
    BY <1>2, Zenon
  <2> QED
    BY <2>1, Zenon DEF Declined
<1> QED
  BY <1>1, <1>2, <1>3, <1>4 DEF Successors

-----------------------------------------------------------------------------
LEMMA TypeInit == DagInit => DagTypeOK
<1> SUFFICES ASSUME DagInit PROVE DagTypeOK
  OBVIOUS
<1>1. StartOf(graph) \in Nodes
  BY GraphLemma DEF DagInit
<1>2. <<StartOf(graph)>> \in Seq(Nodes)
  BY <1>1
<1> QED
  BY <1>2 DEF DagInit, DagTypeOK, Modes

LEMMA TypeStep == DagTypeOK /\ [DagNext]_dag_vars => DagTypeOK'
<1> SUFFICES ASSUME DagTypeOK, [DagNext]_dag_vars PROVE DagTypeOK'
  OBVIOUS
<1> USE DEF DagTypeOK, Modes
<1>1. ASSUME NEW n \in Nodes, Pop(n) PROVE DagTypeOK'
  <2>1. ready' \in Seq(Nodes) /\ scheduled' \subseteq Nodes
    BY <1>1 DEF Pop
  <2>2. CASE n \in scheduled
    BY <1>1, <2>1, <2>2 DEF Pop
  <2>3. CASE n \notin scheduled /\ Decide(n)
    BY <1>1, <2>1, <2>3, SuccessorsType DEF Pop, Decide
  <2>4. CASE n \notin scheduled /\ Execute(n)
    BY <1>1, <2>1, <2>4 DEF Pop, Execute
  <2>5. CASE n \notin scheduled /\ Conclude(n)
    BY <1>1, <2>1, <2>5 DEF Pop, Conclude
  <2> QED
    BY <1>1, <2>2, <2>3, <2>4, <2>5 DEF Pop
<1>2. ASSUME NEW n \in Nodes, Answer(n) PROVE DagTypeOK'
  BY <1>2, SuccessorsType DEF Answer
<1>3. ASSUME NEW e \in settling, Settle(e) PROVE DagTypeOK'
  <2>1. e[1] \in Nodes /\ e[2] \in Nodes
    OBVIOUS
  <2>2. live' \subseteq Nodes \X Nodes /\ dead' \subseteq Nodes \X Nodes
    BY <1>3, <2>1 DEF Settle
  <2>3. skipped' \subseteq Nodes /\ mode' \in {mode, "bug"}
    BY <1>3, <2>1 DEF Settle
  <2>5. ready' \in Seq(Nodes)
    <3>1. ready' = ready \/ ready' = Append(ready, e[2])
      BY <1>3 DEF Settle
    <3> QED
      BY <2>1, <3>1
  <2>4. settling' \subseteq Nodes \X Nodes \X BOOLEAN
    BY <1>3, <2>1, SuccessorsType DEF Settle
  <2> QED
    BY <1>3, <2>2, <2>3, <2>4, <2>5 DEF Settle
<1>4. CASE HandOut
  BY <1>4 DEF HandOut, flow_part
<1>5. CASE Resume
  BY <1>5 DEF Resume, flow_part
<1>6. CASE Stop
  BY <1>6 DEF Stop, flow_part
<1>7. CASE UNCHANGED dag_vars
  BY <1>7 DEF dag_vars
<1> QED
  BY <1>1, <1>2, <1>3, <1>4, <1>5, <1>6, <1>7 DEF DagNext, DagProgress

-----------------------------------------------------------------------------
\* A node none of whose edges was sent sends them.
LEMMA SendLemma ==
  ASSUME DagTypeOK, SettledOnce, SentTogether, settling = {},
         NEW n \in Nodes, NEW active \in SUBSET Successors(graph, n),
         settling' = Outgoing(n, active), UNCHANGED <<graph, live, dead>>,
         \A t \in Nodes : <<n, t>> \notin Sent
  PROVE  /\ Sent' = Sent \cup ({n} \X Successors(graph, n))
         /\ Taken' = Taken \cup ({n} \X active)
         /\ SettledOnce'
         /\ SentTogether'
<1>1. Successors(graph, n) \subseteq Nodes
  BY SuccessorsType DEF DagTypeOK
<1>2. \A e \in settling' : \E t \in Successors(graph, n) : e = <<n, t, t \in active>>
  BY DEF Outgoing
<1>3. \A t \in Successors(graph, n) : <<n, t, t \in active>> \in settling'
  BY DEF Outgoing
<1>4. {<<e[1], e[2]>> : e \in settling'} = {n} \X Successors(graph, n)
  <2>1. ASSUME NEW e \in settling'
        PROVE  <<e[1], e[2]>> \in {n} \X Successors(graph, n)
    BY <1>2
  <2>2. ASSUME NEW t \in Successors(graph, n)
        PROVE  \E e \in settling' : <<e[1], e[2]>> = <<n, t>>
    <3>1. <<n, t, t \in active>> \in settling'
      BY <1>3
    <3> WITNESS <<n, t, t \in active>> \in settling'
    <3> QED
      OBVIOUS
  <2> QED
    BY <2>1, <2>2
<1>5. Sent = live \cup dead /\ Taken = live
  BY DEF Sent, Taken
<1>6. Sent' = Sent \cup ({n} \X Successors(graph, n))
  BY <1>4, <1>5 DEF Sent
<1>7. {<<e[1], e[2]>> : e \in {f \in settling' : f[3]}} = {n} \X active
  <2>1. ASSUME NEW e \in settling', e[3]
        PROVE  <<e[1], e[2]>> \in {n} \X active
    <3>1. PICK t \in Successors(graph, n) : e = <<n, t, t \in active>>
      BY <1>2
    <3>2. e[1] = n /\ e[2] = t /\ e[3] = (t \in active)
      BY <3>1
    <3>3. t \in active
      BY <2>1, <3>2, Zenon
    <3> QED
      BY <3>2, <3>3
  <2>2. ASSUME NEW t \in active
        PROVE  \E e \in settling' : e[3] /\ <<e[1], e[2]>> = <<n, t>>
    <3>1. <<n, t, t \in active>> \in settling'
      BY <1>3
    <3>2. <<n, t, TRUE>> \in settling'
      BY <2>2, <3>1
    <3> WITNESS <<n, t, TRUE>> \in settling'
    <3> QED
      OBVIOUS
  <2> QED
    BY <2>1, <2>2
<1>8. Taken' = Taken \cup ({n} \X active)
  BY <1>5, <1>7 DEF Taken
<1>9. SettledOnce'
  <2>1. live' \cap dead' = {}
    BY DEF SettledOnce
  <2>2. ASSUME NEW e \in settling'
        PROVE  e[2] \in Successors(graph, e[1])' /\ <<e[1], e[2]>> \notin live' \cup dead'
    BY <1>1, <1>2, <1>5 DEF Successors
  <2>3. ASSUME NEW e \in settling', NEW f \in settling', e[1] = f[1], e[2] = f[2]
        PROVE  e = f
    <3>1. PICK t \in Successors(graph, n) : e = <<n, t, t \in active>>
      BY <1>2
    <3>2. PICK u \in Successors(graph, n) : f = <<n, u, u \in active>>
      BY <1>2
    <3> QED
      BY <3>1, <3>2, <2>3
  <2> QED
    BY <2>1, <2>2, <2>3 DEF SettledOnce
<1>10. SentTogether'
  <2>1. ASSUME NEW s \in Nodes, NEW t \in Nodes, <<s, t>> \in Sent',
               NEW u \in Successors(graph, s)
        PROVE  <<s, u>> \in Sent'
    <3>1. CASE s = n
      BY <1>6, <3>1, <2>1
    <3>2. CASE s # n
      <4>1. <<s, t>> \in Sent
        BY <1>6, <3>2, <2>1
      <4> QED
        BY <1>6, <4>1, <2>1 DEF SentTogether
    <3> QED
      BY <3>1, <3>2
  <2> QED
    BY <2>1 DEF SentTogether, Successors
<1> QED
  BY <1>6, <1>8, <1>9, <1>10

\* What was decided about a node stays so while edges are settled.
LEMMA MayStays ==
  ASSUME NEW n \in Nodes, May(n), UNCHANGED graph,
         live \subseteq live', dead \subseteq dead'
  PROVE  May(n)'
BY DEF May, AllIn, AnyLive, Predecessors, Successors

LEMMA MayOrNot ==
  ASSUME NEW n \in Nodes, GraphOK, May(n)
  PROVE  ~MayNot(n)
BY DEF May, MayNot, GraphOK, StartAlone

LEMMA StillTrue ==
  ASSUME NEW n \in Nodes, UNCHANGED <<graph, live, dead>>
  PROVE  (May(n) => May(n)') /\ (MayNot(n) => MayNot(n)')
BY DEF May, MayNot, AllIn, AnyLive, Predecessors, Successors

LEMMA GraphStays == GraphOK /\ UNCHANGED graph => GraphOK'
BY DEF GraphOK, StartAlone, ManyWays, OneWay, NoWay, Predecessors, Successors

-----------------------------------------------------------------------------
LEMMA BooksInit == DagInit => Books
<1> SUFFICES ASSUME DagInit PROVE Books
  OBVIOUS
<1>1. GraphOK /\ May(StartOf(graph))
  BY GraphLemma DEF DagInit, May
<1>2. ReadyMay
  BY <1>1 DEF DagInit, ReadyMay, Queued
<1>3. Sent = {}
  BY DEF DagInit, Sent
<1> QED
  BY <1>1, <1>2, <1>3 DEF DagInit, Books, ScheduledMay, SkippedMayNot, SettledOnce,
     SentByDone, SentTogether, PendingOK

\* A node that is about to run has sent nothing.
LEMMA FreshSent ==
  ASSUME Books, NEW n \in Nodes, May(n), n \notin scheduled
  PROVE  n \notin skipped /\ \A t \in Nodes : <<n, t>> \notin Sent
<1>1. n \notin skipped
  BY MayOrNot DEF Books, SkippedMayNot
<1> QED
  BY <1>1 DEF Books, SentByDone

LEMMA ReadyHead ==
  ASSUME DagTypeOK, ReadyMay, ready # <<>>
  PROVE  Head(ready) \in Nodes /\ May(Head(ready))
BY DEF DagTypeOK, ReadyMay, Queued

\* What a step that settles nothing keeps.
LEMMA QueueStays ==
  ASSUME DagTypeOK, Books, UNCHANGED <<graph, skipped, live, dead>>,
         ready' = ready \/ (ready # <<>> /\ ready' = Tail(ready)),
         NEW n, scheduled' = scheduled \cup {n}, n \in Nodes, May(n)
  PROVE  GraphOK' /\ ReadyMay' /\ ScheduledMay' /\ SkippedMayNot'
<1>1. GraphOK'
  BY GraphStays DEF Books
<1>2. ASSUME NEW m \in Nodes, Queued(m)' PROVE Queued(m)
  <2>1. CASE ready' = ready
    BY <1>2, <2>1 DEF Queued
  <2>2. CASE ready # <<>> /\ ready' = Tail(ready)
    <3>1. PICK i \in 1 .. Len(ready') : m = ready'[i]
      BY <1>2 DEF Queued
    <3>2. i + 1 \in 1 .. Len(ready) /\ ready'[i] = ready[i + 1]
      BY <2>2 DEF DagTypeOK
    <3> QED
      BY <3>1, <3>2 DEF Queued
  <2> QED
    BY <2>1, <2>2
<1>3. ReadyMay'
  BY <1>2, StillTrue DEF ReadyMay, Books
<1>4. \A m \in scheduled' : m \in Nodes /\ May(m)
  BY DEF DagTypeOK, Books, ScheduledMay
<1>5. ScheduledMay'
  BY <1>4, StillTrue DEF ScheduledMay
<1>6. SkippedMayNot'
  BY StillTrue DEF Books, SkippedMayNot, DagTypeOK
<1> QED
  BY <1>1, <1>3, <1>5, <1>6

LEMMA SameSent ==
  ASSUME SettledOnce, SentTogether, UNCHANGED <<graph, live, dead, settling>>
  PROVE  /\ Sent' = Sent
         /\ Taken' = Taken
         /\ SettledOnce'
         /\ SentTogether'
BY DEF Sent, Taken, SettledOnce, SentTogether, Successors

LEMMA PopBooks ==
  ASSUME DagTypeOK, Books, NEW n \in Nodes, Pop(n)
  PROVE  Books'
<1>1. May(n)
  BY ReadyHead DEF Pop, Books
<1>2. GraphOK' /\ ReadyMay' /\ ScheduledMay' /\ SkippedMayNot'
  BY <1>1, QueueStays DEF Pop
<1>3. SettledOnce /\ SentTogether /\ SentByDone /\ PendingOK
  BY DEF Books
<1>4. SettledOnce' /\ SentTogether' /\ SentByDone' /\ PendingOK'
  <2>1. CASE n \in scheduled
    <3>1. UNCHANGED <<graph, live, dead, settling, pending, skipped, scheduled>>
      BY <2>1 DEF Pop
    <3>2. Sent' = Sent /\ SettledOnce' /\ SentTogether'
      BY <1>3, <3>1, SameSent
    <3> QED
      BY <1>3, <3>1, <3>2 DEF SentByDone, PendingOK
  <2>2. CASE n \notin scheduled /\ Decide(n)
    <3>1. PICK active \in SUBSET Successors(graph, n) : settling' = Outgoing(n, active)
      BY <2>2 DEF Decide, Successors
    <3>2. \A t \in Nodes : <<n, t>> \notin Sent
      BY <1>1, <2>2, FreshSent
    <3>3. settling = {} /\ UNCHANGED <<graph, live, dead, skipped, pending>>
      BY <2>2 DEF Pop, Decide
    <3>4. /\ Sent' = Sent \cup ({n} \X Successors(graph, n))
          /\ SettledOnce'
          /\ SentTogether'
      BY <1>3, <3>1, <3>2, <3>3, SendLemma
    <3>5. scheduled' = scheduled \cup {n} /\ n \notin pending
      BY <1>3, <2>2 DEF Pop, PendingOK
    <3>6. SentByDone'
      BY <1>3, <3>3, <3>4, <3>5 DEF SentByDone
    <3> QED
      BY <1>3, <3>3, <3>4, <3>5, <3>6 DEF PendingOK
  <2>3. CASE n \notin scheduled /\ Execute(n)
    <3>1. \A t \in Nodes : <<n, t>> \notin Sent
      BY <1>1, <2>3, FreshSent
    <3>2. /\ UNCHANGED <<graph, live, dead, settling, skipped>>
          /\ scheduled' = scheduled \cup {n}
          /\ pending' = pending \cup {n}
          /\ graph[n].kind = "execute"
      BY <2>3 DEF Pop, Execute
    <3>3. Sent' = Sent /\ SettledOnce' /\ SentTogether'
      BY <1>3, <3>2, SameSent
    <3>4. SentByDone'
      BY <1>3, <3>1, <3>2, <3>3 DEF SentByDone
    <3> QED
      BY <1>3, <3>2, <3>3, <3>4 DEF PendingOK
  <2>4. CASE n \notin scheduled /\ Conclude(n)
    <3>1. /\ UNCHANGED <<graph, live, dead, settling, skipped, pending>>
          /\ scheduled' = scheduled \cup {n}
      BY <2>4 DEF Pop, Conclude
    <3>2. Sent' = Sent /\ SettledOnce' /\ SentTogether'
      BY <1>3, <3>1, SameSent
    <3> QED
      BY <1>3, <3>1, <3>2 DEF SentByDone, PendingOK
  <2> QED
    BY <2>1, <2>2, <2>3, <2>4 DEF Pop
<1> QED
  BY <1>2, <1>4 DEF Books

LEMMA AnswerBooks ==
  ASSUME DagTypeOK, Books, NEW n \in Nodes, Answer(n), settling = {}
  PROVE  /\ Books'
         /\ n \in scheduled /\ graph[n].kind = "execute"
         /\ \A t \in Nodes : <<n, t>> \notin Sent
         /\ Sent' = Sent \cup ({n} \X Successors(graph, n))
         /\ Taken' = Taken \cup ({n} \X graph[n].yes)
<1>1. SettledOnce /\ SentTogether /\ SentByDone /\ PendingOK
  BY DEF Books
<1>2. n \in pending /\ n \in scheduled /\ graph[n].kind = "execute"
  BY <1>1 DEF Answer, PendingOK
<1>3. n \notin skipped
  BY <1>2, MayOrNot DEF Books, ScheduledMay, SkippedMayNot
<1>4. \A t \in Nodes : <<n, t>> \notin Sent
  BY <1>1, <1>2, <1>3 DEF SentByDone
<1>5. /\ UNCHANGED <<graph, live, dead, ready, scheduled, skipped>>
      /\ pending' = pending \ {n}
      /\ settling' = Outgoing(n, graph[n].yes)
  BY DEF Answer
<1>6. graph[n].yes \in SUBSET Successors(graph, n)
  BY DEF Successors
<1>7. /\ Sent' = Sent \cup ({n} \X Successors(graph, n))
      /\ Taken' = Taken \cup ({n} \X graph[n].yes)
      /\ SettledOnce'
      /\ SentTogether'
  BY <1>1, <1>4, <1>5, <1>6, SendLemma
<1>8. GraphOK' /\ ReadyMay' /\ ScheduledMay' /\ SkippedMayNot'
  BY <1>2, <1>5, QueueStays DEF Books, ScheduledMay
<1>9. SentByDone'
  BY <1>1, <1>2, <1>5, <1>7 DEF SentByDone
<1>10. PendingOK'
  BY <1>1, <1>5 DEF PendingOK
<1> QED
  BY <1>2, <1>4, <1>7, <1>8, <1>9, <1>10 DEF Books

-----------------------------------------------------------------------------
LEMMA MayNotStays ==
  ASSUME NEW n \in Nodes, MayNot(n), UNCHANGED graph,
         NEW s \in Nodes, NEW t \in Nodes, t \in Successors(graph, s),
         <<s, t>> \notin live \cup dead,
         live' \subseteq live \cup {<<s, t>>},
         live \cup dead \subseteq live' \cup dead'
  PROVE  MayNot(n)'
<1>1. n # t
  BY DEF MayNot, AllIn, Predecessors
<1> QED
  BY <1>1 DEF MayNot, AllIn, AnyLive, Predecessors, Successors

\* What every settling of an edge does to the edges.
LEMMA SettleEdges ==
  ASSUME DagTypeOK, Books, NEW e \in settling, Settle(e)
  PROVE  /\ e[1] \in Nodes /\ e[2] \in Nodes
         /\ e[2] \in Successors(graph, e[1])
         /\ <<e[1], e[2]>> \notin live \cup dead
         /\ live \subseteq live' /\ dead \subseteq dead'
         /\ live' = live \cup {<<f[1], f[2]>> : f \in {g \in {e} : g[3]}}
         /\ live' \cup dead' = live \cup dead \cup {<<e[1], e[2]>>}
         /\ live' \cap dead' = {}
         /\ UNCHANGED <<graph, scheduled, tasks, pending, mode>>
<1>1. e[1] \in Nodes /\ e[2] \in Nodes /\ e[3] \in BOOLEAN
  BY DEF DagTypeOK
<1>2. e[2] \in Successors(graph, e[1]) /\ <<e[1], e[2]>> \notin live \cup dead
  BY DEF Books, SettledOnce
<1>3. live \cap dead = {}
  BY DEF Books, SettledOnce
<1>4. /\ live' = IF e[3] THEN live \cup {<<e[1], e[2]>>} ELSE live
      /\ dead' = IF e[3] THEN dead ELSE dead \cup {<<e[1], e[2]>>}
      /\ UNCHANGED <<graph, scheduled, tasks, pending, mode>>
  BY <1>2 DEF Settle
<1>5. CASE e[3]
  <2>1. {<<f[1], f[2]>> : f \in {g \in {e} : g[3]}} = {<<e[1], e[2]>>}
    BY <1>5
  <2> QED
    BY <1>1, <1>2, <1>3, <1>4, <1>5, <2>1
<1>6. CASE ~e[3]
  <2>1. {<<f[1], f[2]>> : f \in {g \in {e} : g[3]}} = {}
    BY <1>6
  <2> QED
    BY <1>1, <1>2, <1>3, <1>4, <1>6, <2>1
<1> QED
  BY <1>5, <1>6

\* The last edge of a node is settled and none is active.
SkipsNow(e) == /\ AllIn(e[2], live' \cup dead')
               /\ ~AnyLive(e[2], live')
               /\ e[2] \notin skipped

LEMMA SettleEffect ==
  ASSUME DagTypeOK, Books, NEW e \in settling, Settle(e)
  PROVE  \/ /\ SkipsNow(e)
            /\ ready' = ready
            /\ skipped' = skipped \cup {e[2]}
            /\ settling' = (settling \ {e}) \cup Declined(e[2])
         \/ /\ ~SkipsNow(e)
            /\ skipped' = skipped
            /\ settling' = settling \ {e}
            /\ \/ ready' = ready
               \/ /\ ready' = Append(ready, e[2])
                  /\ AllIn(e[2], live' \cup dead')
                  /\ AnyLive(e[2], live')
<1>1. <<e[1], e[2]>> \notin live \cup dead
  BY SettleEdges
<1> QED
  BY <1>1 DEF Settle, SkipsNow

\* Sent and Taken, with the edges of the queue kept apart.
EdgesOf(queue) == {<<f[1], f[2]>> : f \in queue}
ActiveOf(queue) == {<<f[1], f[2]>> : f \in {g \in queue : g[3]}}

LEMMA QueueParts ==
  /\ Sent = live \cup dead \cup EdgesOf(settling)
  /\ Taken = live \cup ActiveOf(settling)
  /\ \A q, r : /\ EdgesOf(q \cup r) = EdgesOf(q) \cup EdgesOf(r)
               /\ ActiveOf(q \cup r) = ActiveOf(q) \cup ActiveOf(r)
<1>1. Sent = live \cup dead \cup EdgesOf(settling) /\ Taken = live \cup ActiveOf(settling)
  BY DEF Sent, Taken, EdgesOf, ActiveOf
<1>2. ASSUME NEW q, NEW r
      PROVE  /\ EdgesOf(q \cup r) = EdgesOf(q) \cup EdgesOf(r)
             /\ ActiveOf(q \cup r) = ActiveOf(q) \cup ActiveOf(r)
  BY DEF EdgesOf, ActiveOf
<1> QED
  BY <1>1, <1>2

LEMMA QueuePartsNext ==
  /\ Sent' = live' \cup dead' \cup EdgesOf(settling')
  /\ Taken' = live' \cup ActiveOf(settling')
BY DEF Sent, Taken, EdgesOf, ActiveOf

LEMMA DeclinedParts ==
  ASSUME NEW t
  PROVE  /\ EdgesOf(Declined(t)) = {t} \X Successors(graph, t)
         /\ ActiveOf(Declined(t)) = {}
<1>1. \A u \in Successors(graph, t) : <<t, u, FALSE>> \in Declined(t)
  BY Zenon DEF Declined
<1>2. ASSUME NEW f \in Declined(t)
      PROVE  ~f[3] /\ <<f[1], f[2]>> \in {t} \X Successors(graph, t)
  <2>1. PICK u \in Successors(graph, t) : f = <<t, u, FALSE>>
    BY Zenon DEF Declined
  <2> QED
    BY <2>1
<1>3. ASSUME NEW u \in Successors(graph, t)
      PROVE  \E f \in Declined(t) : <<f[1], f[2]>> = <<t, u>>
  <2>1. <<t, u, FALSE>> \in Declined(t)
    BY <1>1
  <2> WITNESS <<t, u, FALSE>> \in Declined(t)
  <2> QED
    OBVIOUS
<1>4. EdgesOf(Declined(t)) = {t} \X Successors(graph, t)
  BY <1>2, <1>3 DEF EdgesOf
<1>5. ActiveOf(Declined(t)) = {}
  BY <1>2 DEF ActiveOf
<1> QED
  BY <1>4, <1>5

\* A node that is skipped ran never, was not skipped before, and sends its
\* edges now.
LEMMA SkipsFresh ==
  ASSUME DagTypeOK, Books, NEW e \in settling, Settle(e), SkipsNow(e)
  PROVE  /\ e[2] \notin scheduled
         /\ graph[e[2]].kind \notin Opening
         /\ \A u \in Nodes : <<e[2], u>> \notin Sent
<1> DEFINE t == e[2]
<1>1. /\ t \in Nodes /\ e[1] \in Nodes /\ e[1] \in Predecessors(graph, t)
      /\ <<e[1], t>> \notin live \cup dead
  BY SettleEdges DEF Predecessors
<1>2. graph[t].kind \notin Opening
  BY <1>1 DEF Books, GraphOK, StartAlone
<1>3. ~May(t)
  BY <1>1, <1>2 DEF May, AllIn
<1>4. t \notin scheduled
  BY <1>3 DEF Books, ScheduledMay
<1>5. t \notin skipped
  BY DEF SkipsNow
<1> QED
  BY <1>1, <1>2, <1>4, <1>5 DEF Books, SentByDone

LEMMA SettleSent ==
  ASSUME DagTypeOK, Books, NEW e \in settling, Settle(e)
  PROVE  /\ Taken' = Taken
         /\ SkipsNow(e) => Sent' = Sent \cup ({e[2]} \X Successors(graph, e[2]))
         /\ ~SkipsNow(e) => Sent' = Sent
<1> DEFINE rest == settling \ {e}
<1>1. settling = rest \cup {e}
  OBVIOUS
<1>2. EdgesOf({e}) = {<<e[1], e[2]>>}
  BY DEF EdgesOf
<1>3. /\ live' = live \cup ActiveOf({e})
      /\ live' \cup dead' = live \cup dead \cup EdgesOf({e})
  BY <1>2, SettleEdges DEF ActiveOf
<1>4. /\ Sent = live \cup dead \cup EdgesOf(rest) \cup EdgesOf({e})
      /\ Taken = live \cup ActiveOf(rest) \cup ActiveOf({e})
  <2> HIDE DEF rest
  <2> QED
    BY <1>1, QueueParts
<1>5. CASE SkipsNow(e)
  <2>1. settling' = rest \cup Declined(e[2])
    BY <1>5, SettleEffect
  <2>2. /\ EdgesOf(settling') = EdgesOf(rest) \cup ({e[2]} \X Successors(graph, e[2]))
        /\ ActiveOf(settling') = ActiveOf(rest)
    <3>1. /\ EdgesOf(Declined(e[2])) = {e[2]} \X Successors(graph, e[2])
          /\ ActiveOf(Declined(e[2])) = {}
      BY DeclinedParts
    <3> HIDE DEF rest
    <3> QED
      BY <2>1, <3>1, QueueParts
  <2> QED
    BY <1>3, <1>4, <1>5, <2>2, QueuePartsNext
<1>6. CASE ~SkipsNow(e)
  <2>1. settling' = rest
    BY <1>6, SettleEffect
  <2> QED
    BY <1>3, <1>4, <1>6, <2>1, QueuePartsNext
<1> QED
  BY <1>5, <1>6

LEMMA SettleQueue ==
  ASSUME DagTypeOK, Books, NEW e \in settling, Settle(e)
  PROVE  SettledOnce' /\ SentTogether' /\ SentByDone'
<1> DEFINE t == e[2]
<1>1. /\ t \in Nodes /\ e[1] \in Nodes
      /\ live' \cup dead' = live \cup dead \cup {<<e[1], e[2]>>}
      /\ live' \cap dead' = {}
      /\ UNCHANGED <<graph, scheduled, pending>>
  BY SettleEdges
<1>2. SettledOnce /\ SentTogether /\ SentByDone
  BY DEF Books
<1>3. ASSUME NEW f \in settling, f # e
      PROVE  /\ f[2] \in Successors(graph, f[1])
             /\ <<f[1], f[2]>> \notin live' \cup dead'
             /\ \A g \in settling : f[1] = g[1] /\ f[2] = g[2] => f = g
  <2>1. <<f[1], f[2]>> # <<e[1], e[2]>>
    BY <1>2, <1>3 DEF SettledOnce
  <2> QED
    BY <1>1, <1>2, <2>1 DEF SettledOnce
<1>4. CASE SkipsNow(e)
  <2>1. /\ \A u \in Nodes : <<t, u>> \notin Sent
        /\ Sent' = Sent \cup ({t} \X Successors(graph, t))
        /\ skipped' = skipped \cup {t}
        /\ settling' = (settling \ {e}) \cup Declined(t)
    BY <1>4, SkipsFresh, SettleSent, SettleEffect
  <2>2. \A f \in Declined(t) : \E u \in Successors(graph, t) : f = <<t, u, FALSE>>
    BY DEF Declined
  <2>3. Successors(graph, t) \subseteq Nodes
    BY <1>1, SuccessorsType DEF DagTypeOK
  <2>4. <<e[1], e[2]>> \in Sent /\ live \cup dead \subseteq Sent
    BY DEF Sent
  <2>5. \A f \in settling : <<f[1], f[2]>> \in Sent
    BY DEF Sent
  <2>6. \A f \in Declined(t) : /\ f[2] \in Successors(graph, f[1])
                                   /\ <<f[1], f[2]>> \notin Sent
    <3>1. ASSUME NEW f \in Declined(t)
          PROVE  f[2] \in Successors(graph, f[1]) /\ <<f[1], f[2]>> \notin Sent
      <4>1. PICK u \in Successors(graph, t) : f = <<t, u, FALSE>>
        BY <2>2
      <4>2. f[1] = t /\ f[2] = u
        BY <4>1
      <4> QED
        BY <4>2, <2>1, <2>3
    <3> QED
      BY <3>1
  <2>7. \A f \in settling' : /\ f[2] \in Successors(graph, f[1])'
                             /\ <<f[1], f[2]>> \notin live' \cup dead'
    <3>1. \A f \in settling' : f[2] \in Successors(graph, f[1])
      BY <2>1, <1>3, <2>6
    <3>2. \A f \in settling' : <<f[1], f[2]>> \notin live' \cup dead'
      BY <2>1, <1>1, <1>3, <2>4, <2>6
    <3> QED
      BY <1>1, <3>1, <3>2 DEF Successors
  <2>8. ASSUME NEW f \in settling', NEW g \in settling', f[1] = g[1], f[2] = g[2]
        PROVE  f = g
    <3>1. CASE f \in settling /\ g \in settling
      BY <1>2, <2>8, <3>1 DEF SettledOnce
    <3>2. CASE f \in Declined(t) /\ g \in Declined(t)
      <4>1. PICK u \in Successors(graph, t) : f = <<t, u, FALSE>>
        BY <2>2, <3>2
      <4>2. PICK v \in Successors(graph, t) : g = <<t, v, FALSE>>
        BY <2>2, <3>2
      <4> QED
        BY <4>1, <4>2, <2>8
    <3>3. CASE f \in settling /\ g \in Declined(t)
      BY <2>5, <2>6, <2>8, <3>3
    <3>4. CASE f \in Declined(t) /\ g \in settling
      BY <2>5, <2>6, <2>8, <3>4
    <3> QED
      BY <2>1, <3>1, <3>2, <3>3, <3>4
  <2>9. SettledOnce'
    BY <1>1, <2>7, <2>8 DEF SettledOnce
  <2>10. SentTogether'
    <3>1. ASSUME NEW a \in Nodes, NEW b \in Nodes, <<a, b>> \in Sent',
                 NEW u \in Successors(graph, a)
          PROVE  <<a, u>> \in Sent'
      <4>1. CASE a = t
        BY <2>1, <3>1, <4>1
      <4>2. CASE a # t
        BY <1>2, <2>1, <3>1, <4>2 DEF SentTogether
      <4> QED
        BY <4>1, <4>2
    <3> QED
      BY <1>1, <3>1 DEF SentTogether, Successors
  <2>11. SentByDone'
    BY <1>1, <1>2, <2>1 DEF SentByDone
  <2> QED
    BY <2>9, <2>10, <2>11
<1>5. CASE ~SkipsNow(e)
  <2>1. Sent' = Sent /\ skipped' = skipped /\ settling' = settling \ {e}
    BY <1>5, SettleSent, SettleEffect
  <2>2. SettledOnce'
    BY <1>1, <1>3, <2>1 DEF SettledOnce, Successors
  <2>3. SentTogether' /\ SentByDone'
    BY <1>1, <1>2, <2>1 DEF SentTogether, SentByDone, Successors
  <2> QED
    BY <2>2, <2>3
<1> QED
  BY <1>4, <1>5

LEMMA SettleBooks ==
  ASSUME DagTypeOK, Books, NEW e \in settling, Settle(e)
  PROVE  Books'
<1>1. /\ e[1] \in Nodes /\ e[2] \in Nodes
      /\ e[2] \in Successors(graph, e[1])
      /\ <<e[1], e[2]>> \notin live \cup dead
      /\ live \subseteq live' /\ dead \subseteq dead'
      /\ live' \subseteq live \cup {<<e[1], e[2]>>}
      /\ live' \cup dead' = live \cup dead \cup {<<e[1], e[2]>>}
      /\ UNCHANGED <<graph, scheduled, pending>>
  BY SettleEdges
<1>2. GraphOK'
  BY <1>1, GraphStays DEF Books
<1>3. ASSUME NEW n \in Nodes, Queued(n)', ~Queued(n)
      PROVE  May(n)'
  <2>1. ready' = Append(ready, e[2]) /\ AllIn(e[2], live' \cup dead') /\ AnyLive(e[2], live')
    BY <1>3, SettleEffect DEF Queued
  <2>2. n = e[2]
    BY <1>3, <2>1 DEF Queued, DagTypeOK
  <2> QED
    BY <1>1, <2>1, <2>2 DEF May, AllIn, AnyLive, Predecessors, Successors
<1>4. ReadyMay'
  BY <1>1, <1>3, MayStays DEF ReadyMay, Books
<1>5. ScheduledMay'
  BY <1>1, MayStays DEF ScheduledMay, Books, DagTypeOK
<1>6. \A n \in skipped : MayNot(n)'
  BY <1>1, MayNotStays DEF Books, SkippedMayNot, DagTypeOK
<1>7. SkipsNow(e) => MayNot(e[2])'
  BY <1>1 DEF SkipsNow, MayNot, AllIn, AnyLive, Predecessors, Successors
<1>8. SkippedMayNot'
  BY <1>6, <1>7, SettleEffect DEF SkippedMayNot
<1>9. PendingOK'
  BY <1>1 DEF PendingOK, Books
<1> QED
  BY <1>2, <1>4, <1>5, <1>8, <1>9, SettleQueue DEF Books

LEMMA QuietBooks ==
  ASSUME DagTypeOK, Books,
         UNCHANGED <<graph, ready, scheduled, skipped, live, dead, settling>>,
         pending' \subseteq pending
  PROVE  /\ Books'
         /\ Sent' = Sent
         /\ Taken' = Taken
<1>1. SettledOnce /\ SentTogether /\ SentByDone /\ PendingOK /\ GraphOK
  BY DEF Books
<1>2. Sent' = Sent /\ Taken' = Taken /\ SettledOnce' /\ SentTogether'
  BY <1>1, SameSent
<1>3. SentByDone' /\ PendingOK'
  BY <1>1, <1>2 DEF SentByDone, PendingOK
<1>4. GraphOK'
  BY <1>1, GraphStays
<1>5. ReadyMay' /\ ScheduledMay' /\ SkippedMayNot'
  BY StillTrue DEF Books, ReadyMay, Queued, ScheduledMay, SkippedMayNot, DagTypeOK
<1> QED
  BY <1>2, <1>3, <1>4, <1>5 DEF Books

LEMMA BooksStep == DagTypeOK /\ Books /\ [DagNext]_dag_vars => Books'
<1> SUFFICES ASSUME DagTypeOK, Books, [DagNext]_dag_vars PROVE Books'
  OBVIOUS
<1>1. ASSUME NEW n \in Nodes, Pop(n) PROVE Books'
  BY <1>1, PopBooks
<1>2. ASSUME NEW n \in Nodes, Answer(n) PROVE Books'
  <2>1. settling = {}
    BY <1>2 DEF Answer, DagTypeOK
  <2> QED
    BY <1>2, <2>1, AnswerBooks
<1>3. ASSUME NEW e \in settling, Settle(e) PROVE Books'
  BY <1>3, SettleBooks
<1>4. CASE HandOut
  BY <1>4, QuietBooks DEF HandOut, flow_part
<1>5. CASE Resume
  BY <1>5, QuietBooks DEF Resume, flow_part
<1>6. CASE Stop
  BY <1>6, QuietBooks DEF Stop, flow_part
<1>7. CASE UNCHANGED dag_vars
  BY <1>7, QuietBooks DEF dag_vars
<1> QED
  BY <1>1, <1>2, <1>3, <1>4, <1>5, <1>6, <1>7 DEF DagNext, DagProgress

LEMMA Invariance == DagSpec => [](DagTypeOK /\ Books)
<1>1. DagInit => DagTypeOK /\ Books
  BY TypeInit, BooksInit
<1>2. DagTypeOK /\ Books /\ [DagNext]_dag_vars => (DagTypeOK /\ Books)'
  BY TypeStep, BooksStep
<1> QED
  BY <1>1, <1>2, PTL DEF DagSpec

\* The plan of every workflow of well-formed nodes keeps its types, cyclic or
\* not (plan.rs:321-357).
THEOREM DagTypes == DagSpec => []DagTypeOK
BY Invariance, PTL

\* No edge of any graph of well-formed nodes is settled twice (plan.rs:1056).
THEOREM EdgesSettledOnce == DagSpec => []NoEdgeTwice
<1>1. Books => NoEdgeTwice
  BY DEF Books, SettledOnce, NoEdgeTwice
<1> QED
  BY <1>1, Invariance, PTL

-----------------------------------------------------------------------------
(* The executor implements Dataflow.                                        *)

LEMMA DecidedLemma ==
  ASSUME Books, NEW n \in Nodes, AllIn(n, live \cup dead)
  PROVE  Predecessors(graph, n) \subseteq Complete \cup skipped
<1>1. ASSUME NEW p \in Predecessors(graph, n), p \notin skipped
      PROVE  p \in Complete
  <2>1. p \in Nodes /\ <<p, n>> \in Sent
    BY DEF Predecessors, AllIn, Sent
  <2>2. p \in scheduled
    BY <1>1, <2>1 DEF Books, SentByDone
  <2>3. \A u \in Successors(graph, p) : <<p, u>> \in Sent
    BY <2>1 DEF Books, SentTogether
  <2> QED
    BY <2>2, <2>3 DEF Complete
<1> QED
  BY <1>1

\* A node that may run is called, all before it being decided.
LEMMA CalledLemma ==
  ASSUME Books, NEW n \in Nodes, May(n)
  PROVE  Flow!Called(n) /\ Flow!Decided(n)
<1>1. CASE graph[n].kind \in Opening
  <2>1. Predecessors(graph, n) = {}
    BY <1>1 DEF Books, GraphOK, StartAlone
  <2> QED
    BY <1>1, <2>1 DEF Flow!Called, Flow!Decided, Flow!Opening, Opening,
       Flow!Predecessors, Flow!Successors, Predecessors, Successors
<1>2. CASE AllIn(n, live \cup dead) /\ AnyLive(n, live)
  <2>1. Predecessors(graph, n) \subseteq Complete \cup skipped
    BY <1>2, DecidedLemma
  <2>2. \E p \in Predecessors(graph, n) : <<p, n>> \in Taken
    BY <1>2 DEF AnyLive, Taken
  <2> QED
    BY <2>1, <2>2 DEF Flow!Called, Flow!Decided,
       Flow!Predecessors, Flow!Successors, Predecessors, Successors
<1> QED
  BY <1>1, <1>2 DEF May

LEMMA CompleteGrows ==
  ASSUME Books, NEW n \in Nodes, \A t \in Nodes : <<n, t>> \notin Sent,
         UNCHANGED graph, scheduled' = scheduled \cup {n}, graph \in Graph,
         Sent' = Sent \cup ({n} \X Successors(graph, n))
  PROVE  Complete' = Complete \cup {n}
<1>1. ASSUME NEW m, m # n PROVE m \in Complete' <=> m \in Complete
  BY <1>1 DEF Complete, Successors
<1>2. n \in Complete'
  BY DEF Complete, Successors
<1> QED
  BY <1>1, <1>2

LEMMA CompleteStays ==
  ASSUME UNCHANGED graph, Sent' = Sent, NEW n \in Nodes, graph \in Graph,
         scheduled' = scheduled \cup {n},
         n \in scheduled \/ (Successors(graph, n) # {} /\
                             \A t \in Nodes : <<n, t>> \notin Sent)
  PROVE  Complete' = Complete
<1>1. CASE n \in scheduled
  BY <1>1 DEF Complete, Successors
<1>2. CASE Successors(graph, n) # {} /\ \A t \in Nodes : <<n, t>> \notin Sent
  <2>1. n \notin Complete'
    BY <1>2, SuccessorsType DEF Complete, Successors
  <2>2. n \notin Complete
    BY <1>2, SuccessorsType DEF Complete
  <2>3. ASSUME NEW m, m # n PROVE m \in Complete' <=> m \in Complete
    BY <2>3 DEF Complete, Successors
  <2> QED
    BY <2>1, <2>2, <2>3
<1> QED
  BY <1>1, <1>2

LEMMA PopFlow ==
  ASSUME DagTypeOK, Books, NEW n \in Nodes, Pop(n)
  PROVE  [Flow!FlowNext]_(Flow!flow_vars)
<1>1. May(n)
  BY ReadyHead DEF Pop, Books
<1>2. /\ graph \in Graph /\ UNCHANGED <<graph, skipped, live, dead>>
      /\ scheduled' = scheduled \cup {n}
  BY DEF Pop, DagTypeOK
<1>3. SettledOnce /\ SentTogether /\ GraphOK
  BY DEF Books
<1>4. CASE n \in scheduled
  <2>1. settling' = settling
    BY <1>4 DEF Pop
  <2>2. Sent' = Sent /\ Taken' = Taken
    BY <1>2, <1>3, <2>1, SameSent
  <2>3. Complete' = Complete
    BY <1>2, <1>4, <2>2, CompleteStays
  <2> QED
    BY <1>2, <1>4, <2>2, <2>3 DEF Flow!flow_vars
<1>5. CASE n \notin scheduled
  <2>1. n \notin skipped /\ \A t \in Nodes : <<n, t>> \notin Sent
    BY <1>1, <1>5, FreshSent
  <2>2. Flow!Fresh(n) /\ Flow!Called(n)
    BY <1>1, <1>5, <2>1, CalledLemma DEF Flow!Fresh
  <2>3. ASSUME settling' = settling, Successors(graph, n) # {}
        PROVE  Flow!Begin(n)
    <3>1. Sent' = Sent /\ Taken' = Taken
      BY <1>2, <1>3, <2>3, SameSent
    <3>2. Complete' = Complete
      BY <1>2, <2>1, <2>3, <3>1, CompleteStays
    <3> QED
      BY <1>2, <2>2, <3>1, <3>2 DEF Flow!Begin
  <2>4. CASE Decide(n)
    <3>1. PICK active \in {graph[n].yes} \cup
                 (IF graph[n].kind = "decision" THEN {graph[n].no} ELSE {}) :
            settling' = Outgoing(n, active)
      BY <2>4 DEF Decide
    <3>2. active \in SUBSET Successors(graph, n) /\ active \in Flow!Choices(n)
      BY <3>1 DEF Successors, Flow!Choices
    <3>3. settling = {}
      BY DEF Pop
    <3>4. /\ Sent' = Sent \cup ({n} \X Successors(graph, n))
          /\ Taken' = Taken \cup ({n} \X active)
      BY <1>2, <1>3, <2>1, <3>1, <3>2, <3>3, SendLemma
    <3>5. Complete' = Complete \cup {n}
      BY <1>2, <2>1, <3>4, CompleteGrows
    <3>6. Flow!Pass(n)
      BY <1>2, <2>2, <3>2, <3>4, <3>5 DEF Flow!Pass
    <3> QED
      BY <3>6 DEF Flow!FlowNext
  <2>5. CASE Execute(n)
    <3>1. settling' = settling /\ Successors(graph, n) # {}
      BY <1>3, <2>5 DEF Execute, GraphOK, ManyWays, Closing
    <3> QED
      BY <2>3, <3>1 DEF Flow!FlowNext
  <2>6. CASE Conclude(n) /\ graph[n].kind = "loop"
    <3>1. settling' = settling /\ Successors(graph, n) # {}
      BY <1>3, <2>6 DEF Conclude, GraphOK, ManyWays, Closing
    <3> QED
      BY <2>3, <3>1 DEF Flow!FlowNext
  <2>7. CASE Conclude(n) /\ graph[n].kind \in Closing
    <3>1. settling' = settling /\ Successors(graph, n) = {}
      BY <1>3, <2>7 DEF Conclude, GraphOK, NoWay
    <3>2. Sent' = Sent /\ Taken' = Taken
      BY <1>2, <1>3, <3>1, SameSent
    <3>3. Complete' = Complete \cup {n}
      BY <1>2, <2>1, <3>1, <3>2, CompleteGrows
    <3>4. graph[n].yes = {} /\ graph[n].yes \in Flow!Choices(n)
      BY <3>1 DEF Successors, Flow!Choices
    <3>5. Taken' = Taken \cup ({n} \X graph[n].yes)
      BY <3>2, <3>4
    <3>6. Flow!Pass(n)
      BY <1>2, <2>2, <3>3, <3>4, <3>5 DEF Flow!Pass
    <3> QED
      BY <3>6 DEF Flow!FlowNext
  <2> QED
    BY <1>5, <2>4, <2>5, <2>6, <2>7 DEF Pop, Conclude
<1> QED
  BY <1>4, <1>5

LEMMA AnswerFlow ==
  ASSUME DagTypeOK, Books, NEW n \in Nodes, Answer(n)
  PROVE  Flow!Finish(n)
<1>1. settling = {}
  BY DEF Answer, DagTypeOK
<1>2. /\ n \in scheduled /\ graph[n].kind = "execute"
      /\ \A t \in Nodes : <<n, t>> \notin Sent
      /\ Sent' = Sent \cup ({n} \X Successors(graph, n))
      /\ Taken' = Taken \cup ({n} \X graph[n].yes)
  BY <1>1, AnswerBooks
<1>3. UNCHANGED <<graph, scheduled, skipped>> /\ graph \in Graph
  BY DEF Answer, DagTypeOK
<1>4. Complete' = Complete \cup {n}
  <2>1. scheduled' = scheduled \cup {n}
    BY <1>2, <1>3
  <2> QED
    BY <1>2, <1>3, <2>1, CompleteGrows
<1>5. Successors(graph, n) # {}
  BY <1>2 DEF Books, GraphOK, ManyWays, Closing
<1>6. n \notin Complete
  BY <1>2, <1>3, <1>5, SuccessorsType DEF Complete
<1>7. graph[n].yes \in Flow!Choices(n)
  BY <1>2 DEF Flow!Choices
<1> QED
  BY <1>2, <1>3, <1>4, <1>6, <1>7 DEF Flow!Finish

LEMMA SettleFlow ==
  ASSUME DagTypeOK, Books, NEW e \in settling, Settle(e)
  PROVE  [Flow!FlowNext]_(Flow!flow_vars)
<1> DEFINE t == e[2]
<1>1. /\ t \in Nodes /\ e[1] \in Predecessors(graph, t)
      /\ live' \cup dead' = live \cup dead \cup {<<e[1], t>>}
      /\ UNCHANGED <<graph, scheduled>>
  BY SettleEdges DEF Predecessors
<1>2. graph \in Graph /\ Taken' = Taken
  BY SettleSent DEF DagTypeOK
<1>3. CASE SkipsNow(e)
  <2>1. /\ t \notin scheduled /\ graph[t].kind \notin Opening
        /\ \A u \in Nodes : <<t, u>> \notin Sent
        /\ Sent' = Sent \cup ({t} \X Successors(graph, t))
        /\ skipped' = skipped \cup {t}
    BY <1>3, SkipsFresh, SettleSent, SettleEffect
  <2>2. Complete' = Complete
    BY <1>1, <1>2, <2>1 DEF Complete, Successors
  <2>3. \A p \in Predecessors(graph, t) : <<p, t>> \in live' \cup dead'
    BY <1>3 DEF SkipsNow, AllIn
  <2>4. \A p \in Predecessors(graph, t) : <<p, t>> \in Sent
    BY <1>1, <2>3 DEF Sent
  <2>5. Predecessors(graph, t) \subseteq Complete \cup skipped
    <3>1. ASSUME NEW p \in Predecessors(graph, t), p \notin skipped
          PROVE  p \in Complete
      <4>1. p \in Nodes /\ <<p, t>> \in Sent
        BY <2>4 DEF Predecessors
      <4>2. p \in scheduled
        BY <1>1, <3>1, <4>1 DEF Books, SentByDone
      <4>3. \A u \in Successors(graph, p) : <<p, u>> \in Sent
        BY <1>1, <4>1 DEF Books, SentTogether
      <4> QED
        BY <4>2, <4>3 DEF Complete
    <3> QED
      BY <3>1
  <2>6. ASSUME NEW p \in Predecessors(graph, t), <<p, t>> \in Taken
        PROVE  FALSE
    <3>1. <<p, t>> \notin live'
      BY <1>3 DEF SkipsNow, AnyLive
    <3>2. <<p, t>> \in Taken'
      BY <1>2, <2>6
    <3>3. PICK f \in settling' : f[3] /\ <<f[1], f[2]>> = <<p, t>>
      BY <3>1, <3>2 DEF Taken
    <3>4. <<p, t>> \notin live' \cup dead'
      BY <3>3, SettleQueue DEF SettledOnce
    <3> QED
      BY <2>3, <3>4
  <2>7. Flow!Fresh(t) /\ ~Flow!Called(t)
    BY <1>3, <2>1, <2>5, <2>6 DEF SkipsNow, Flow!Fresh, Flow!Called, Flow!Decided,
       Flow!Predecessors, Flow!Successors, Predecessors, Successors,
       Flow!Opening, Opening
  <2>8. Flow!Drop(t)
    BY <1>1, <1>2, <2>1, <2>2, <2>7 DEF Flow!Drop
  <2> QED
    BY <1>1, <2>8 DEF Flow!FlowNext
<1>4. CASE ~SkipsNow(e)
  <2>1. Sent' = Sent /\ skipped' = skipped
    BY <1>4, SettleSent, SettleEffect
  <2>2. Complete' = Complete
    BY <1>1, <2>1 DEF Complete, Successors
  <2> QED
    BY <1>1, <1>2, <2>1, <2>2 DEF Flow!flow_vars
<1> QED
  BY <1>3, <1>4

LEMMA FlowQuiet ==
  ASSUME DagTypeOK, Books, pending' \subseteq pending,
         UNCHANGED <<graph, ready, scheduled, skipped, live, dead, settling>>
  PROVE  UNCHANGED Flow!flow_vars
<1>1. Sent' = Sent /\ Taken' = Taken
  BY QuietBooks
<1>2. Complete' = Complete
  BY <1>1 DEF Complete, Successors
<1> QED
  BY <1>1, <1>2 DEF Flow!flow_vars

LEMMA FlowStep ==
  DagTypeOK /\ Books /\ [DagNext]_dag_vars => [Flow!FlowNext]_(Flow!flow_vars)
<1> SUFFICES ASSUME DagTypeOK, Books, [DagNext]_dag_vars
             PROVE  [Flow!FlowNext]_(Flow!flow_vars)
  OBVIOUS
<1>1. ASSUME NEW n \in Nodes, Pop(n) PROVE [Flow!FlowNext]_(Flow!flow_vars)
  BY <1>1, PopFlow
<1>2. ASSUME NEW n \in Nodes, Answer(n) PROVE [Flow!FlowNext]_(Flow!flow_vars)
  BY <1>2, AnswerFlow DEF Flow!FlowNext
<1>3. ASSUME NEW e \in settling, Settle(e) PROVE [Flow!FlowNext]_(Flow!flow_vars)
  BY <1>3, SettleFlow
<1>4. CASE HandOut
  BY <1>4, FlowQuiet DEF HandOut, flow_part
<1>5. CASE Resume
  BY <1>5, FlowQuiet DEF Resume, flow_part
<1>6. CASE Stop
  BY <1>6, FlowQuiet DEF Stop, flow_part
<1>7. CASE UNCHANGED dag_vars
  BY <1>7, FlowQuiet DEF dag_vars
<1> QED
  BY <1>1, <1>2, <1>3, <1>4, <1>5, <1>6, <1>7 DEF DagNext, DagProgress

\* The executor of parallel workflows implements Dataflow, for every graph of
\* well-formed nodes: a node runs when all before it are decided and one of
\* them chose it, once, and never otherwise (plan.rs:1026-1201).
THEOREM DagImplementsFlow == DagSpec => FlowSpec
<1>1. DagInit => Flow!FlowInit
  BY DEF DagInit, Flow!FlowInit, Complete, Taken, Flow!Graph, Graph, Flow!Kinds,
     Kinds, Flow!Opening, Opening, Flow!Closing, Closing
<1> QED
  BY <1>1, FlowStep, Invariance, PTL DEF DagSpec, FlowSpec, Flow!FlowSpec
-----------------------------------------------------------------------------
(* A sound graph is run to its end, and the internal errors of the executor *)
(* are out of reach.                                                        *)

Underway == mode \in {"advance", "answer", "wait"}
Treated == skipped \cup (scheduled \ pending)

\* What is decided about a node was acted upon.
Handled == \A n \in Nodes : /\ May(n) => Queued(n) \/ n \in scheduled
                            /\ MayNot(n) => n \in skipped

\* A node that is done or skipped has sent its edges, the first to somebody.
SendsAll == \A n \in Treated : \A t \in Successors(graph, n) : <<n, t>> \in Sent
ChoseSome == \A n \in scheduled \ pending : \E t \in Nodes : <<n, t>> \in Taken

\* The batch being built is all that waits for an answer; no end was reached.
OneBatch == mode = "advance" => pending = tasks
NotYet == scheduled \cap Ends(graph) = {}

\* All nodes were treated and all edges settled.
AllSettled == /\ scheduled \cup skipped = Nodes
              /\ Edges(graph) \subseteq live \cup dead
              /\ settling = {}

Course == /\ WellFormed(graph)
          /\ mode # "bug"
          /\ live \cup dead \subseteq Edges(graph)
          /\ Underway => Handled /\ SendsAll /\ ChoseSome /\ OneBatch /\ NotYet
          /\ mode = "ended" => AllSettled

LEMMA EdgeLemma ==
  \A e : e \in Edges(graph) <=> \E n \in Nodes : \E t \in Successors(graph, n) : e = <<n, t>>
<1>1. \A e : e \in Edges(graph) <=> \E n \in Nodes : e \in {n} \X Successors(graph, n)
  BY DEF Edges
<1>2. ASSUME NEW e, NEW n \in Nodes
      PROVE  e \in {n} \X Successors(graph, n) <=>
             \E t \in Successors(graph, n) : e = <<n, t>>
  OBVIOUS
<1> QED
  BY <1>1, <1>2

\* All that leads to a decided node is treated, its edges settled.
LEMMA BeforeLemma ==
  ASSUME DagTypeOK, Books, NEW n \in Nodes, May(n) \/ MayNot(n),
         NEW p \in Predecessors(graph, n)
  PROVE  p \in Treated /\ <<p, n>> \in live \cup dead
<1>1. <<p, n>> \in live \cup dead
  BY DEF May, MayNot, AllIn, Books, GraphOK, StartAlone
<1>2. p \in Nodes /\ <<p, n>> \in Sent
  BY <1>1 DEF Predecessors, Sent
<1> QED
  BY <1>1, <1>2 DEF Books, SentByDone, Treated

LEMMA CourseInit == DagInit => Course
<1> SUFFICES ASSUME DagInit PROVE Course
  OBVIOUS
<1> DEFINE s == StartOf(graph)
<1>1. s \in Nodes /\ GraphOK
  BY GraphLemma DEF DagInit
<1>2. \A n \in Nodes : graph[n].kind \in Opening => n = s
  <2>1. PICK r \in Nodes : Starts(graph) = {r}
    BY DEF DagInit, WellFormed
  <2>2. graph[s].kind \in Opening
    BY GraphLemma DEF DagInit
  <2> HIDE DEF s
  <2> QED
    BY <1>1, <2>1, <2>2 DEF Starts
<1>3. Queued(s)
  <2> HIDE DEF s
  <2>1. ready = <<s>>
    BY DEF DagInit, s
  <2> QED
    BY <2>1 DEF Queued
<1>4. ASSUME NEW n \in Nodes
      PROVE  (May(n) => n = s) /\ ~MayNot(n)
  <2> HIDE DEF s
  <2> QED
    BY <1>2 DEF DagInit, May, MayNot, AllIn, AnyLive
<1>5. Handled
  BY <1>3, <1>4 DEF Handled
<1> QED
  BY <1>5 DEF DagInit, Course, SendsAll, ChoseSome, OneBatch, NotYet, Treated

\* A step that changes neither the graph nor what is settled keeps the
\* decisions.
LEMMA SameDecisions ==
  ASSUME NEW n \in Nodes, UNCHANGED <<graph, live, dead>>
  PROVE  (May(n)' <=> May(n)) /\ (MayNot(n)' <=> MayNot(n))
BY DEF May, MayNot, AllIn, AnyLive, Predecessors, Successors

LEMMA WellFormedStays ==
  WellFormed(graph) /\ UNCHANGED graph =>
    WellFormed(graph)' /\ Edges(graph)' = Edges(graph) /\ Ends(graph)' = Ends(graph)
<1> SUFFICES ASSUME WellFormed(graph), UNCHANGED graph
             PROVE  /\ WellFormed(graph)' /\ Edges(graph)' = Edges(graph)
                    /\ Ends(graph)' = Ends(graph)
  OBVIOUS
<1>1. /\ Starts(graph)' = Starts(graph)
      /\ Ends(graph)' = Ends(graph)
      /\ \A n : Successors(graph, n)' = Successors(graph, n)
      /\ \A n : Predecessors(graph, n)' = Predecessors(graph, n)
  BY DEF Starts, Ends, Successors, Predecessors
<1>2. \A n \in Nodes : TargetsOK(graph, n)'
  <2>1. \A n \in Nodes : TargetsOK(graph, n) => TargetsOK(graph, n)'
    BY <1>1 DEF TargetsOK
  <2> QED
    BY <2>1 DEF WellFormed
<1>3. Edges(graph)' = Edges(graph)
  BY DEF Edges, Successors
<1> QED
  BY <1>1, <1>2, <1>3 DEF WellFormed

-----------------------------------------------------------------------------
\* The end is ready only once nothing waits for an answer, and then all is
\* settled: what is treated, the end with it, holds all that leads to it.
LEMMA EndLemma ==
  ASSUME DagTypeOK, Books, DagSound(graph), WellFormed(graph),
         NEW n \in Nodes, graph[n].kind \in Closing, May(n), n \notin scheduled
  PROVE  /\ pending = {}
         /\ scheduled \cup {n} \cup skipped = Nodes
         /\ Edges(graph) \subseteq live \cup dead
<1> DEFINE S == Treated \cup {n}
<1>1. S \subseteq Nodes
  BY DEF DagTypeOK, Treated
<1>2. Ends(graph) \subseteq S
  BY DEF WellFormed, Ends
<1>3. \A m \in S : m \in Nodes /\ (May(m) \/ MayNot(m))
  BY <1>1 DEF Treated, Books, ScheduledMay, SkippedMayNot
<1>4. \A m \in S : Predecessors(graph, m) \subseteq S
  BY <1>3, BeforeLemma
<1>5. S = Nodes
  <2> HIDE DEF S
  <2> QED
    BY <1>1, <1>2, <1>4 DEF DagSound
<1>6. \A m \in scheduled : m \notin skipped
  BY MayOrNot DEF Books, ScheduledMay, SkippedMayNot, DagTypeOK
<1>7. pending = {}
  <2>1. ASSUME NEW q \in pending PROVE FALSE
    <3>1. q \in scheduled /\ q \in Nodes
      BY DEF Books, PendingOK, DagTypeOK
    <3> QED
      BY <1>5, <1>6, <3>1 DEF Treated
  <2> QED
    BY <2>1
<1>8. scheduled \cup {n} \cup skipped = Nodes
  BY <1>5, <1>1 DEF Treated, DagTypeOK
<1>9. Edges(graph) \subseteq live \cup dead
  <2>1. ASSUME NEW m \in Nodes, NEW t \in Successors(graph, m)
        PROVE  <<m, t>> \in live \cup dead
    <3>1. t \in Nodes /\ m \in Predecessors(graph, t)
      BY <2>1, SuccessorsType DEF DagTypeOK, Predecessors
    <3> QED
      BY <1>3, <1>5, <3>1, BeforeLemma
  <2> QED
    BY <2>1, EdgeLemma
<1> QED
  BY <1>7, <1>8, <1>9

\* Before the end there is something to run: an undecided node has an
\* undecided one before it, and were all decided, the last node that ran would
\* have chosen a node that was skipped.
LEMMA NeverIdle ==
  ASSUME DagTypeOK, Books, DagSound(graph), Course, mode = "advance",
         settling = {}, ready = <<>>
  PROVE  tasks # {}
<1> SUFFICES ASSUME tasks = {} PROVE FALSE
  OBVIOUS
<1>1. Handled /\ SendsAll /\ ChoseSome /\ NotYet /\ pending = {}
  BY DEF Course, Underway, OneBatch
<1>2. Sent = live \cup dead /\ Taken = live
  BY DEF Sent, Taken
<1>3. \A n \in Nodes : ~Queued(n)
  BY DEF Queued
<1>4. \A n \in Nodes : (May(n) => n \in scheduled) /\ (MayNot(n) => n \in skipped)
  BY <1>1, <1>3 DEF Handled
<1> DEFINE U == Nodes \ (scheduled \cup skipped)
<1>5. ASSUME U # {} PROVE FALSE
  <2>1. PICK n \in U : Predecessors(graph, n) \cap U = {}
    <3> HIDE DEF U
    <3>1. U \subseteq Nodes
      BY DEF U
    <3>2. U \in (SUBSET Nodes) \ {{}}
      BY <1>5, <3>1
    <3> QED
      BY <3>2 DEF DagSound
  <2>2. n \in Nodes /\ n \notin scheduled /\ n \notin skipped
    BY <2>1
  <2>3. ASSUME NEW p \in Predecessors(graph, n) PROVE <<p, n>> \in live \cup dead
    <3>1. p \in Nodes /\ n \in Successors(graph, p)
      BY DEF Predecessors
    <3>2. p \in Treated
      BY <1>1, <2>1, <3>1 DEF Treated
    <3> QED
      BY <1>1, <1>2, <3>1, <3>2 DEF SendsAll
  <2>4. Predecessors(graph, n) # {}
    <3>1. SUFFICES ASSUME Predecessors(graph, n) = {} PROVE FALSE
      OBVIOUS
    <3> DEFINE S == Nodes \ {n}
    <3>2. \A m \in S : Successors(graph, m) \subseteq S
      BY <3>1, SuccessorsType DEF DagTypeOK, Predecessors
    <3>3. graph[n].kind \notin Opening
      BY <1>4, <2>2 DEF May
    <3>4. Starts(graph) \subseteq S
      BY <3>3 DEF Starts
    <3>5. S = Nodes
      <4> HIDE DEF S
      <4>1. S \in SUBSET Nodes
        BY DEF S
      <4> QED
        BY <3>2, <3>4, <4>1 DEF DagSound
    <3> QED
      BY <2>2, <3>5
  <2>5. AllIn(n, live \cup dead)
    BY <2>3 DEF AllIn
  <2> QED
    BY <1>4, <2>2, <2>4, <2>5 DEF May, MayNot
<1>6. ASSUME U = {} PROVE FALSE
  <2>1. scheduled \cup skipped = Nodes
    BY <1>6 DEF DagTypeOK
  <2>2. scheduled # {}
    <3>1. PICK s \in Nodes : Starts(graph) = {s}
      BY DEF Course, WellFormed
    <3>2. May(s)
      BY <3>1 DEF Starts, May
    <3> QED
      BY <1>4, <3>2
  <2>3. PICK n \in scheduled : Successors(graph, n) \cap scheduled = {}
    BY <2>2 DEF DagSound, DagTypeOK
  <2>4. PICK t \in Nodes : <<n, t>> \in live
    BY <1>1, <1>2 DEF ChoseSome
  <2>5. t \in Successors(graph, n) /\ n \in Nodes
    BY <2>4, EdgeLemma DEF Course
  <2>6. t \in skipped
    BY <2>1, <2>3, <2>5
  <2> QED
    BY <2>4, <2>5, <2>6 DEF Books, SkippedMayNot, MayNot, AnyLive, Predecessors
<1> QED
  BY <1>5, <1>6

-----------------------------------------------------------------------------
LEMMA PopCourse ==
  ASSUME DagTypeOK, Books, DagSound(graph), Course, NEW n \in Nodes, Pop(n)
  PROVE  Course'
<1>1. /\ mode = "advance" /\ settling = {} /\ ready # <<>> /\ n = Head(ready)
      /\ ready' = Tail(ready) /\ scheduled' = scheduled \cup {n}
      /\ UNCHANGED <<graph, skipped, live, dead>>
  BY DEF Pop
<1>2. May(n)
  BY <1>1, ReadyHead DEF Books
<1>3. Handled /\ SendsAll /\ ChoseSome /\ pending = tasks /\ NotYet
  BY <1>1 DEF Course, Underway, OneBatch
<1>4. /\ WellFormed(graph)' /\ live' \cup dead' \subseteq Edges(graph)'
      /\ Ends(graph)' = Ends(graph)
  BY <1>1, WellFormedStays DEF Course
<1>5. Handled'
  <2>1. ASSUME NEW m \in Nodes, Queued(m), m # n PROVE Queued(m)'
    <3>1. PICK i \in 1 .. Len(ready) : m = ready[i]
      BY <2>1 DEF Queued
    <3>2. i # 1
      BY <1>1, <2>1, <3>1 DEF DagTypeOK
    <3>3. i - 1 \in 1 .. Len(ready') /\ ready'[i - 1] = ready[i]
      BY <1>1, <3>2 DEF DagTypeOK
    <3> QED
      BY <3>1, <3>3 DEF Queued
  <2>2. \A m \in Nodes : (May(m)' <=> May(m)) /\ (MayNot(m)' <=> MayNot(m))
    BY <1>1, SameDecisions
  <2> QED
    BY <1>1, <1>3, <2>1, <2>2 DEF Handled
<1>6. SettledOnce /\ SentTogether
  BY DEF Books
<1>7. CASE n \in scheduled
  <2>1. UNCHANGED <<graph, live, dead, settling, mode, tasks, pending, scheduled, skipped>>
    BY <1>1, <1>7 DEF Pop
  <2>2. Sent' = Sent /\ Taken' = Taken
    BY <1>6, <2>1, SameSent
  <2>3. SendsAll' /\ ChoseSome'
    BY <1>3, <2>1, <2>2 DEF SendsAll, ChoseSome, Treated, Successors
  <2>4. OneBatch' /\ NotYet'
    BY <1>3, <1>4, <2>1 DEF OneBatch, NotYet
  <2> QED
    BY <1>1, <1>4, <1>5, <2>1, <2>3, <2>4 DEF Course
<1>8. CASE n \notin scheduled /\ Decide(n)
  <2>1. PICK active \in {graph[n].yes} \cup
               (IF graph[n].kind = "decision" THEN {graph[n].no} ELSE {}) :
          settling' = Outgoing(n, active)
    BY <1>8 DEF Decide
  <2>2. active \in SUBSET Successors(graph, n)
    BY <2>1 DEF Successors
  <2>3. active # {}
    <3>1. TargetsOK(graph, n)
      BY DEF Course, WellFormed
    <3> QED
      BY <1>8, <2>1, <3>1 DEF TargetsOK, Decide, Opening, Closing
  <2>4. \A t \in Nodes : <<n, t>> \notin Sent
    BY <1>2, <1>8, FreshSent
  <2>5. /\ Sent' = Sent \cup ({n} \X Successors(graph, n))
        /\ Taken' = Taken \cup ({n} \X active)
    BY <1>1, <1>6, <2>1, <2>2, <2>4, SendLemma
  <2>6. UNCHANGED <<mode, tasks, pending>> /\ n \notin Ends(graph)
    BY <1>8 DEF Decide, Ends, Opening, Closing
  <2>7. SendsAll'
    BY <1>1, <1>3, <2>5, <2>6 DEF SendsAll, Treated, Successors
  <2>8. PICK t \in active : t \in Nodes
    BY <2>2, <2>3, SuccessorsType DEF DagTypeOK
  <2>9. ChoseSome'
    BY <1>1, <1>3, <2>5, <2>6, <2>8 DEF ChoseSome
  <2>10. OneBatch' /\ NotYet'
    BY <1>1, <1>3, <1>4, <2>6 DEF OneBatch, NotYet
  <2> QED
    BY <1>1, <1>4, <1>5, <2>6, <2>7, <2>9, <2>10 DEF Course
<1>9. CASE n \notin scheduled /\ Execute(n)
  <2>1. /\ UNCHANGED <<mode, settling>> /\ tasks' = tasks \cup {n}
        /\ pending' = pending \cup {n} /\ n \notin Ends(graph)
    BY <1>9 DEF Execute, Ends, Closing
  <2>2. Sent' = Sent /\ Taken' = Taken
    BY <1>1, <1>6, <2>1, SameSent
  <2>3. SendsAll' /\ ChoseSome'
    BY <1>1, <1>3, <2>1, <2>2 DEF SendsAll, ChoseSome, Treated, Successors
  <2>4. OneBatch' /\ NotYet'
    BY <1>1, <1>3, <1>4, <2>1 DEF OneBatch, NotYet
  <2> QED
    BY <1>1, <1>4, <1>5, <2>1, <2>3, <2>4 DEF Course
<1>10. CASE n \notin scheduled /\ Conclude(n)
  <2>1. graph[n].kind \in Closing
    BY <1>10 DEF Conclude, DagSound, Loops
  <2>2. /\ pending = {} /\ scheduled \cup {n} \cup skipped = Nodes
        /\ Edges(graph) \subseteq live \cup dead
    BY <1>2, <1>10, <2>1, EndLemma DEF Course
  <2>3. mode' = "ended" /\ UNCHANGED settling
    BY <1>3, <1>10, <2>1, <2>2 DEF Conclude, Closing
  <2>4. AllSettled'
    BY <1>1, <2>2, <2>3, WellFormedStays DEF AllSettled, Course
  <2> QED
    BY <1>4, <2>3, <2>4 DEF Course, Underway
<1> QED
  BY <1>7, <1>8, <1>9, <1>10 DEF Pop

LEMMA AnswerCourse ==
  ASSUME DagTypeOK, Books, DagSound(graph), Course, NEW n \in Nodes, Answer(n)
  PROVE  Course'
<1>1. /\ mode = "wait" /\ n \in pending /\ mode' = "answer"
      /\ pending' = pending \ {n}
      /\ UNCHANGED <<graph, ready, scheduled, skipped, live, dead, tasks>>
  BY DEF Answer
<1>2. settling = {}
  BY <1>1 DEF DagTypeOK
<1>3. /\ n \in scheduled /\ graph[n].kind = "execute"
      /\ Sent' = Sent \cup ({n} \X Successors(graph, n))
      /\ Taken' = Taken \cup ({n} \X graph[n].yes)
  BY <1>2, AnswerBooks
<1>4. Handled /\ SendsAll /\ ChoseSome /\ NotYet
  BY <1>1 DEF Course, Underway
<1>5. \E t \in Nodes : t \in graph[n].yes
  <2>1. graph[n].yes # {}
    BY <1>3 DEF Course, WellFormed, TargetsOK, Closing
  <2> QED
    BY <2>1, SuccessorsType DEF DagTypeOK
<1>6. Handled'
  <2>1. \A m \in Nodes : (May(m)' <=> May(m)) /\ (MayNot(m)' <=> MayNot(m))
    BY <1>1, SameDecisions
  <2> QED
    BY <1>1, <1>4, <2>1 DEF Handled, Queued
<1>7. SendsAll'
  BY <1>1, <1>3, <1>4 DEF SendsAll, Treated, Successors
<1>8. ChoseSome'
  BY <1>1, <1>3, <1>4, <1>5 DEF ChoseSome
<1>9. WellFormed(graph)' /\ live' \cup dead' \subseteq Edges(graph)' /\ NotYet'
  BY <1>1, <1>4, WellFormedStays DEF Course, NotYet
<1> QED
  BY <1>1, <1>6, <1>7, <1>8, <1>9 DEF Course, OneBatch

LEMMA SettleCourse ==
  ASSUME DagTypeOK, Books, DagSound(graph), Course, NEW e \in settling, Settle(e)
  PROVE  Course'
<1> DEFINE t == e[2]
<1>1. /\ e[1] \in Nodes /\ t \in Nodes /\ t \in Successors(graph, e[1])
      /\ <<e[1], t>> \notin live \cup dead
      /\ live \subseteq live' /\ dead \subseteq dead'
      /\ live' \subseteq live \cup {<<e[1], t>>}
      /\ live' \cup dead' = live \cup dead \cup {<<e[1], t>>}
      /\ UNCHANGED <<graph, scheduled, tasks, pending, mode>>
  BY SettleEdges
<1>2. /\ WellFormed(graph)' /\ Edges(graph)' = Edges(graph) /\ Ends(graph)' = Ends(graph)
  BY <1>1, WellFormedStays DEF Course
<1>3. live' \cup dead' \subseteq Edges(graph)'
  BY <1>1, <1>2, EdgeLemma DEF Course
<1>4. mode # "ended"
  BY DEF Course, AllSettled
<1>5. ASSUME Underway PROVE Handled' /\ SendsAll' /\ ChoseSome' /\ OneBatch' /\ NotYet'
  <2>1. Handled /\ SendsAll /\ ChoseSome /\ OneBatch /\ NotYet
    BY <1>5 DEF Course
  <2>2. Taken' = Taken /\ Sent \subseteq Sent'
    BY SettleSent
  <2>3. ChoseSome' /\ OneBatch' /\ NotYet'
    BY <1>1, <1>2, <2>1, <2>2 DEF ChoseSome, OneBatch, NotYet
  <2>4. skipped' = IF SkipsNow(e) THEN skipped \cup {t} ELSE skipped
    BY SettleEffect
  <2>5. SendsAll'
    <3>1. ASSUME NEW n \in Treated', NEW u \in Successors(graph, n)
          PROVE  <<n, u>> \in Sent'
      <4>1. CASE n \in Treated
        BY <2>1, <2>2, <4>1 DEF SendsAll
      <4>2. CASE n \notin Treated
        BY <1>1, <2>4, <4>2, SettleSent DEF Treated
      <4> QED
        BY <4>1, <4>2
    <3> QED
      BY <1>1, <3>1 DEF SendsAll, Successors
  <2>6. Handled'
    <3>1. ASSUME NEW n \in Nodes, n # t
          PROVE  (May(n)' => May(n)) /\ (MayNot(n)' => MayNot(n))
      <4>1. \A p : <<p, n>> \in live' \cup dead' <=> <<p, n>> \in live \cup dead
        BY <1>1, <3>1
      <4>2. \A p : <<p, n>> \in live' <=> <<p, n>> \in live
        BY <1>1, <3>1
      <4> QED
        BY <1>1, <4>1, <4>2 DEF May, MayNot, AllIn, AnyLive, Predecessors, Successors
    <3>2. \A n \in Nodes : Queued(n) => Queued(n)'
      <4>1. ready' = ready \/ ready' = Append(ready, t)
        BY SettleEffect
      <4>2. \A i \in 1 .. Len(ready) : i \in 1 .. Len(ready') /\ ready'[i] = ready[i]
        BY <4>1 DEF DagTypeOK
      <4> QED
        BY <4>2 DEF Queued
    <3>3. May(t)' => Queued(t)' \/ t \in scheduled
      <4>1. SUFFICES ASSUME May(t)', t \notin scheduled PROVE Queued(t)'
        OBVIOUS
      <4>2. e[1] \in Predecessors(graph, t)
        BY <1>1 DEF Predecessors
      <4>3. AllIn(t, live' \cup dead') /\ AnyLive(t, live')
        <5>1. graph'[t].kind \notin Opening
          BY <1>1, <4>2 DEF Books, GraphOK, StartAlone
        <5> QED
          BY <1>1, <4>1, <5>1 DEF May, AllIn, AnyLive, Predecessors, Successors
      <4>4. ready' = Append(ready, t)
        BY <1>1, <4>1, <4>3 DEF Settle
      <4>5. Len(ready) + 1 \in 1 .. Len(ready') /\ ready'[Len(ready) + 1] = t
        BY <1>1, <4>4 DEF DagTypeOK
      <4> QED
        BY <4>5 DEF Queued
    <3>4. MayNot(t)' => t \in skipped'
      BY <1>1, <2>4 DEF MayNot, SkipsNow, AllIn, AnyLive, Predecessors, Successors
    <3>5. skipped \subseteq skipped'
      BY <2>4
    <3> QED
      BY <1>1, <2>1, <3>1, <3>2, <3>3, <3>4, <3>5 DEF Handled
  <2> QED
    BY <2>3, <2>5, <2>6
<1> QED
  BY <1>1, <1>2, <1>3, <1>4, <1>5 DEF Course, Underway

\* A step that leaves the flow alone and moves on in the calls.
LEMMA QuietCourse ==
  ASSUME DagTypeOK, Books, Course,
         UNCHANGED <<graph, ready, scheduled, skipped, live, dead, settling, pending>>,
         mode' # "bug", mode' = "ended" => mode = "ended",
         Underway' => Underway, OneBatch'
  PROVE  Course'
<1>1. Sent' = Sent /\ Taken' = Taken
  BY QuietBooks
<1>2. /\ WellFormed(graph)' /\ Edges(graph)' = Edges(graph) /\ Ends(graph)' = Ends(graph)
  BY WellFormedStays DEF Course
<1>3. AllSettled => AllSettled'
  BY <1>2 DEF AllSettled
<1>4. \A n \in Nodes : (May(n)' <=> May(n)) /\ (MayNot(n)' <=> MayNot(n))
  BY SameDecisions
<1>5. Handled => Handled'
  BY <1>4 DEF Handled, Queued
<1>6. (SendsAll => SendsAll') /\ (ChoseSome => ChoseSome') /\ (NotYet => NotYet')
  BY <1>1, <1>2 DEF SendsAll, ChoseSome, NotYet, Treated, Successors
<1> QED
  BY <1>2, <1>3, <1>5, <1>6 DEF Course

LEMMA CourseStep ==
  DagTypeOK /\ Books /\ DagSound(graph) /\ Course /\ [DagNext]_dag_vars => Course'
<1> SUFFICES ASSUME DagTypeOK, Books, DagSound(graph), Course, [DagNext]_dag_vars
             PROVE  Course'
  OBVIOUS
<1>1. ASSUME NEW n \in Nodes, Pop(n) PROVE Course'
  BY <1>1, PopCourse
<1>2. ASSUME NEW n \in Nodes, Answer(n) PROVE Course'
  BY <1>2, AnswerCourse
<1>3. ASSUME NEW e \in settling, Settle(e) PROVE Course'
  BY <1>3, SettleCourse
<1>4. CASE HandOut
  <2>1. tasks # {}
    BY <1>4, NeverIdle DEF HandOut
  <2>2. /\ mode = "advance" /\ mode' = "wait"
        /\ UNCHANGED <<graph, ready, scheduled, skipped, live, dead, settling, pending>>
    BY <1>4, <2>1 DEF HandOut, flow_part
  <2> QED
    BY <2>2, QuietCourse DEF OneBatch, Underway
<1>5. CASE Resume
  <2>1. /\ mode = "answer" /\ mode' = (IF pending = {} THEN "advance" ELSE "wait")
        /\ UNCHANGED <<graph, ready, scheduled, skipped, live, dead, settling, pending, tasks>>
    BY <1>5 DEF Resume, flow_part
  <2>2. OneBatch'
    BY <2>1 DEF OneBatch, DagTypeOK
  <2> QED
    BY <2>1, <2>2, QuietCourse DEF Underway
<1>6. CASE Stop
  <2>1. mode' = "failed" /\ UNCHANGED <<graph, live, dead>>
    BY <1>6 DEF Stop, flow_part
  <2>2. WellFormed(graph)' /\ Edges(graph)' = Edges(graph)
    BY <2>1, WellFormedStays DEF Course
  <2> QED
    BY <2>1, <2>2 DEF Course, Underway
<1>7. CASE UNCHANGED dag_vars
  BY <1>7, QuietCourse DEF dag_vars, Course, Underway, OneBatch
<1> QED
  BY <1>1, <1>2, <1>3, <1>4, <1>5, <1>6, <1>7 DEF DagNext, DagProgress

LEMMA SoundCourse == DagSpec => [](DagSound(graph) => Course /\ DagTypeOK /\ Books)
<1>1. DagSound(graph)' /\ [DagNext]_dag_vars => DagSound(graph)
  <2>1. [DagNext]_dag_vars => UNCHANGED graph
    BY DEF DagNext, DagProgress, Pop, Answer, Settle, HandOut, Resume, Stop, dag_vars
  <2>2. UNCHANGED graph /\ DagSound(graph)' => DagSound(graph)
    <3> SUFFICES ASSUME UNCHANGED graph, DagSound(graph)' PROVE DagSound(graph)
      OBVIOUS
    <3>1. /\ Starts(graph)' = Starts(graph)
          /\ Ends(graph)' = Ends(graph)
          /\ Loops(graph)' = Loops(graph)
          /\ \A n : Successors(graph, n)' = Successors(graph, n)
          /\ \A n : Predecessors(graph, n)' = Predecessors(graph, n)
      BY DEF Starts, Ends, Loops, Successors, Predecessors
    <3> QED
      BY <3>1 DEF DagSound
  <2> QED
    BY <2>1, <2>2
<1>2. DagInit => (DagSound(graph) => Course)
  BY CourseInit
<1>3. /\ DagTypeOK /\ Books /\ (DagSound(graph) => Course) /\ [DagNext]_dag_vars
      => (DagSound(graph) => Course)'
  BY <1>1, CourseStep
<1> QED
  BY <1>2, <1>3, Invariance, PTL DEF DagSpec

\* No internal error of the executor can be reached on a sound graph of any
\* size, whatever the decisions and the order of the answers
\* (plan.rs:1056, 1169, 1191, 1200).
THEOREM NoInternalErrorOnSound == DagSpec => [](DagSound(graph) => NoInternalError)
<1>1. Course => NoInternalError
  BY DEF Course, NoInternalError
<1> QED
  BY <1>1, SoundCourse, PTL

\* A workflow with a sound graph that ends has settled every node and edge
\* (plan.rs:1026-1090).
THEOREM EndSettlesSound == DagSpec => [](DagSound(graph) => EndSettlesAll)
<1>1. ASSUME Course, DagTypeOK, Books PROVE EndSettlesAll
  <2>1. scheduled \cap skipped = {}
    BY <1>1, MayOrNot DEF Books, ScheduledMay, SkippedMayNot, DagTypeOK
  <2> QED
    BY <1>1, <2>1 DEF Course, AllSettled, EndSettlesAll
<1> QED
  BY <1>1, SoundCourse, PTL
=============================================================================
