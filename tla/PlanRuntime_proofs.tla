-------------------------- MODULE PlanRuntime_proofs --------------------------
(***************************************************************************)
(* Theorems about ContextTree, and about the plan runtime through it:      *)
(* PlanRuntime changes contexts only as ContextTree allows, so that what   *)
(* holds of the tree holds of every tree of plans and tasks.               *)
(*                                                                         *)
(* Then the answers: what a plan is told, and what it tells.  The          *)
(* invariant is one formula for each plan, Sound: one for each of its      *)
(* tasks, one for each thread that drives it, and that one thread at a     *)
(* time leads it and one ends it.  A step concerns one plan, or a plan and *)
(* its parent; a lemma for every action says that Sound stands.            *)
(***************************************************************************)
EXTENDS PlanRuntime, SequenceTheorems, TLAPS

\* The context a plan is launched with is the only one at first.
LEMMA TreeTypeInit == TreeInit => TreeTypeOK
<1> SUFFICES ASSUME TreeInit PROVE TreeTypeOK
  OBVIOUS
<1>1. PICK s \in {"created", "running"} :
        context = [c \in Contexts |-> IF c = Root THEN s ELSE "none"]
  BY DEF TreeInit
<1>2. context \in [Contexts -> States]
  BY <1>1 DEF States
<1>3. pending \in [Threads -> SUBSET (Contexts \ {Root})]
  BY DEF TreeInit
<1> QED BY <1>2, <1>3 DEF TreeTypeOK

\* fork and set_state keep to the states of a context.
LEMMA TreeTypeStep == TreeTypeOK /\ [TreeNext]_tree_vars => TreeTypeOK'
<1> SUFFICES ASSUME TreeTypeOK, [TreeNext]_tree_vars PROVE TreeTypeOK'
  OBVIOUS
<1> USE DEF TreeTypeOK
<1>1. ASSUME NEW c \in Contexts, Fork(c) PROVE TreeTypeOK'
  BY <1>1 DEF Fork, States
<1>2. ASSUME NEW t \in Threads, NEW c \in Contexts, NEW s \in States, SetState(t, c, s)
      PROVE TreeTypeOK'
  BY <1>2 DEF SetState, Children
<1>3. ASSUME NEW t \in Threads, PassOn(t) PROVE TreeTypeOK'
  <2>1. PICK c \in pending[t] :
          LET others == pending[t] \ {c} IN
          IF May(c, "cancelled")
          THEN /\ context' = [context EXCEPT ![c] = "cancelled"]
               /\ pending' = [pending EXCEPT ![t] = others \cup Children(c)]
          ELSE /\ pending' = [pending EXCEPT ![t] = others]
               /\ UNCHANGED context
    BY <1>3 DEF PassOn
  <2>2. c \in Contexts /\ "cancelled" \in States
    BY <2>1 DEF States, Terminal, Stopped
  <2> QED BY <2>1, <2>2 DEF Children
<1>4. CASE UNCHANGED tree_vars
  BY <1>4 DEF tree_vars
<1> QED BY <1>1, <1>2, <1>3, <1>4 DEF TreeNext

\* Every context has one of its states, whatever the tree.
THEOREM TreeTypes == TreeSpec => []TreeTypeOK
BY TreeTypeInit, TreeTypeStep, PTL DEF TreeSpec

\* set_state: whoever is first to end a context decides how it ended.
LEMMA FinalStep ==
  ASSUME TreeTypeOK, [TreeNext]_tree_vars, NEW d \in Contexts, IsTerminal(d)
  PROVE  context'[d] = context[d]
<1>1. ASSUME NEW c \in Contexts, Fork(c) PROVE context'[d] = context[d]
  BY <1>1 DEF Fork, TreeTypeOK, IsTerminal, Terminal, Stopped
<1>2. ASSUME NEW t \in Threads, NEW c \in Contexts, NEW s \in States, SetState(t, c, s)
      PROVE context'[d] = context[d]
  BY <1>2 DEF SetState, May, TreeTypeOK, IsTerminal, Terminal, Stopped
<1>3. ASSUME NEW t \in Threads, PassOn(t) PROVE context'[d] = context[d]
  BY <1>3 DEF PassOn, May, TreeTypeOK, IsTerminal, Terminal, Stopped
<1>4. CASE UNCHANGED tree_vars
  BY <1>4 DEF tree_vars
<1> QED BY <1>1, <1>2, <1>3, <1>4 DEF TreeNext

-----------------------------------------------------------------------------
(* NoneEscapes is inductive with the type of the state                     *)

\* At first nobody has a parent.
LEMMA EscapeInit == TreeInit => NoneEscapes
<1> SUFFICES ASSUME TreeInit, NEW c \in Contexts \ {Root} PROVE context[c] = "none"
  BY DEF NoneEscapes
<1>1. PICK s \in {"created", "running"} :
        context = [d \in Contexts |-> IF d = Root THEN s ELSE "none"]
  BY DEF TreeInit
<1> QED BY <1>1

\* Either a child is forked before its parent stops, and is passed on to, or it is
\* refused.
LEMMA EscapeStep ==
  TreeTypeOK /\ NoneEscapes /\ [TreeNext]_tree_vars => NoneEscapes'
<1> SUFFICES ASSUME TreeTypeOK, NoneEscapes, [TreeNext]_tree_vars,
                    NEW d \in Contexts \ {Root},
                    context'[d] # "none", context'[Parent[d]] \in Stopped
             PROVE  IsTerminal(d)' \/ \E t \in Threads : d \in pending'[t]
  BY DEF NoneEscapes
<1>0. Parent[d] \in Contexts
  BY TreeAssumption
<1>f. IsTerminal(d) => IsTerminal(d)'
  BY FinalStep DEF IsTerminal
<1>1. ASSUME NEW c \in Contexts, Fork(c)
      PROVE IsTerminal(d)' \/ \E t \in Threads : d \in pending'[t]
  <2>1. context[Parent[d]] \in Stopped
    BY <1>0, <1>1 DEF Fork, TreeTypeOK, Stopped
  <2>2. c # d
    BY <2>1, <1>1 DEF Fork, IsLive, Stopped
  <2>3. context[d] # "none"
    BY <2>2, <1>1 DEF Fork, TreeTypeOK
  <2>4. IsTerminal(d) \/ \E t \in Threads : d \in pending[t]
    BY <2>1, <2>3 DEF NoneEscapes
  <2> QED BY <2>4, <1>f, <1>1 DEF Fork
<1>2. ASSUME NEW t \in Threads, NEW c \in Contexts, NEW s \in States, SetState(t, c, s)
      PROVE IsTerminal(d)' \/ \E u \in Threads : d \in pending'[u]
  <2>0. context[d] # "none"
    BY <1>2 DEF SetState, TreeTypeOK, May
  <2>1. CASE c = Parent[d] /\ s \in Stopped
    <3>1. d \in Children(c)
      BY <2>0, <2>1 DEF Children
    <3> QED BY <3>1, <2>1, <1>2 DEF SetState, TreeTypeOK
  <2>2. CASE ~(c = Parent[d] /\ s \in Stopped)
    <3>1. context[Parent[d]] \in Stopped
      BY <1>0, <2>2, <1>2 DEF SetState, TreeTypeOK
    <3>2. IsTerminal(d) \/ \E u \in Threads : d \in pending[u]
      BY <2>0, <3>1 DEF NoneEscapes
    <3>3. ASSUME NEW u \in Threads, d \in pending[u] PROVE d \in pending'[u]
      BY <3>3, <1>2 DEF SetState, TreeTypeOK
    <3> QED BY <3>2, <3>3, <1>f
  <2> QED BY <2>1, <2>2
<1>3. ASSUME NEW t \in Threads, PassOn(t)
      PROVE IsTerminal(d)' \/ \E u \in Threads : d \in pending'[u]
  <2>1. PICK c \in pending[t] :
          LET others == pending[t] \ {c} IN
          IF May(c, "cancelled")
          THEN /\ context' = [context EXCEPT ![c] = "cancelled"]
               /\ pending' = [pending EXCEPT ![t] = others \cup Children(c)]
          ELSE /\ pending' = [pending EXCEPT ![t] = others]
               /\ UNCHANGED context
    BY <1>3 DEF PassOn
  <2>2. c \in Contexts
    BY <2>1 DEF TreeTypeOK
  <2>3. context[d] # "none"
    BY <2>1, <2>2 DEF TreeTypeOK, May
  <2>4. CASE c = Parent[d] /\ May(c, "cancelled")
    <3>1. d \in Children(c)
      BY <2>3, <2>4 DEF Children
    <3> QED BY <3>1, <2>1, <2>4 DEF TreeTypeOK
  <2>5. CASE ~(c = Parent[d] /\ May(c, "cancelled"))
    <3>1. context[Parent[d]] \in Stopped
      BY <1>0, <2>1, <2>2, <2>5 DEF TreeTypeOK
    <3>2. IsTerminal(d) \/ \E u \in Threads : d \in pending[u]
      BY <2>3, <3>1 DEF NoneEscapes
    <3>3. CASE c # d
      <4>1. ASSUME NEW u \in Threads, d \in pending[u] PROVE d \in pending'[u]
        BY <4>1, <3>3, <2>1 DEF TreeTypeOK
      <4> QED BY <4>1, <3>2, <1>f
    <3>4. CASE c = d
      <4>1. CASE May(d, "cancelled")
        BY <3>4, <4>1, <2>1, <2>2 DEF TreeTypeOK, IsTerminal, Terminal, Stopped
      <4>2. CASE ~May(d, "cancelled")
        <5>1. IsTerminal(d)
          BY <4>2, <2>3 DEF TreeTypeOK, May, IsTerminal, States, Terminal, Stopped
        <5> QED BY <5>1, <1>f
      <4> QED BY <4>1, <4>2
    <3> QED BY <3>3, <3>4
  <2> QED BY <2>4, <2>5
<1>4. CASE UNCHANGED tree_vars
  <2>1. context' = context /\ pending' = pending
    BY <1>4 DEF tree_vars
  <2> QED BY <2>1, <1>f DEF NoneEscapes
<1> QED BY <1>1, <1>2, <1>3, <1>4 DEF TreeNext

\* A cancelled or failed context takes its children along, also those that are
\* forked while that happens, for every tree and every number of threads.
THEOREM CancellationReaches == TreeSpec => []NoneEscapes
<1>1. TreeTypeOK /\ NoneEscapes /\ [TreeNext]_tree_vars => NoneEscapes'
  BY EscapeStep
<1> QED BY EscapeInit, <1>1, TreeTypes, PTL DEF TreeSpec

-----------------------------------------------------------------------------
(* The plan runtime changes contexts as ContextTree allows                 *)

\* Whoever drives a plan is a thread, and the plan has a context.
LEMMA PlansAreContexts ==
  ASSUME NEW t \in Drivers
  PROVE  t \in Threads /\ PlanOf(t) \in Contexts
<1>1. CASE t \in CallThreads
  <2>1. PICK n \in Contexts \ {Root} : t = Call(n)
    BY <1>1 DEF CallThreads
  <2>2. t[2] = n
    BY <2>1 DEF Call
  <2> QED BY <1>1, <2>2, ThreadsAssumption, TreeAssumption DEF PlanOf
<1>2. CASE t \notin CallThreads
  <2>1. PICK p \in Plans : t = Run(p)
    BY <1>2 DEF Drivers, RunThreads
  <2>2. t[2] = p
    BY <2>1 DEF Run
  <2> QED BY <1>2, <2>2, ThreadsAssumption, NodesAssumption DEF PlanOf
<1> QED BY <1>1, <1>2

\* An attempt to set a state is a step of the tree.
LEMMA TrySetIsTreeStep ==
  ASSUME NEW t \in Threads, NEW c \in Contexts, NEW s \in States, TrySet(t, c, s)
  PROVE  [TreeNext]_tree_vars
BY DEF TrySet, TreeNext

\* Every step of the runtime is a step of the tree or leaves it alone.
LEMMA PlanStepIsTreeStep == [PlanNext]_plan_vars => [TreeNext]_tree_vars
<1> SUFFICES ASSUME [PlanNext]_plan_vars PROVE [TreeNext]_tree_vars
  OBVIOUS
<1>s. Terminal \subseteq States /\ "running" \in States
  BY DEF States, Terminal, Stopped
<1>r. "succeeded" \in Terminal /\ "failed" \in Terminal /\ "cancelled" \in Terminal
  BY DEF Terminal, Stopped
<1>1. ASSUME NEW t \in Drivers, Asks(t) PROVE [TreeNext]_tree_vars
  <2>0. t \in Threads /\ PlanOf(t) \in Contexts
    BY PlansAreContexts
  <2>1. CASE GiveResponse(t)
    BY <2>1 DEF GiveResponse
  <2>2. CASE AskNothing(t)
    BY <2>2 DEF AskNothing
  <2>3. CASE AskTasks(t)
    BY <2>3 DEF AskTasks
  <2>4. CASE ForkPlan(t)
    <3> DEFINE n == Head(Tasks(t))
    <3>1. \/ n \in Plans /\ (Fork(n) \/ SetState(t, n, "running"))
          \/ UNCHANGED tree_vars
      BY <2>4 DEF ForkPlan
    <3>2. n \in Plans => n \in Contexts
      BY NodesAssumption
    <3> QED BY <3>1, <3>2, <2>0, <1>s DEF TreeNext
  <2>5. CASE AskedTasks(t)
    BY <2>5 DEF AskedTasks
  <2>6. CASE Commit(t)
    BY <2>6, <2>0, <1>s, <1>r DEF Commit, TreeNext
  <2>7. CASE AskEnd(t)
    BY <2>7 DEF AskEnd
  <2> QED BY <1>1, <2>1, <2>2, <2>3, <2>4, <2>5, <2>6, <2>7 DEF Asks
<1>2. ASSUME NEW t \in Drivers, Drives(t) PROVE [TreeNext]_tree_vars
  <2>0. t \in Threads /\ PlanOf(t) \in Contexts
    BY PlansAreContexts
  <2>1. CASE Refuse(t) \/ Lock(t) \/ Interrupted(t) \/ Aborts(t) \/ Vanished(t)
    BY <2>1 DEF Refuse, Lock, Interrupted, Aborts, Vanished
  <2>2. CASE Advance(t) \/ SpawnPlan(t) \/ PlanSpawned(t) \/ Dispatched(t)
    BY <2>2 DEF Advance, SpawnPlan, PlanSpawned, Dispatched
  <2>3. CASE Finish(t) \/ Remove(t) \/ Abort(t)
    BY <2>3 DEF Finish, Remove, Abort
  <2>4. CASE Check(t) \/ Collect(t) \/ Disregard(t) \/ TakeError(t)
    BY <2>4 DEF Check, Collect, Disregard, TakeError
  <2>5. CASE Begin(t)
    <3>1. TrySet(t, PlanOf(t), "running")
      BY <2>5 DEF Begin
    <3> QED BY <3>1, <2>0, <1>s, TrySetIsTreeStep
  <2>6. CASE ForkTask(t)
    <3>1. \/ Head(Tasks(t)) \in Leaves /\ Fork(Head(Tasks(t)))
          \/ UNCHANGED tree_vars
      BY <2>6 DEF ForkTask
    <3> QED BY <3>1, NodesAssumption DEF TreeNext
  <2>7. CASE SpawnLeaf(t)
    <3> DEFINE n == Head(Tasks(t))
    <3>1. /\ n \in Leaves
          /\ TrySet(t, n, "running") \/ TrySet(t, n, "failed") \/ UNCHANGED tree_vars
      BY <2>7 DEF SpawnLeaf
    <3>2. n \in Contexts
      BY <3>1, NodesAssumption
    <3> HIDE DEF n
    <3> QED BY <3>1, <3>2, <2>0, <1>s, <1>r, TrySetIsTreeStep
  <2>8. CASE Conclude(t)
    <3>1. TrySet(t, PlanOf(t), "succeeded")
      BY <2>8 DEF Conclude
    <3> QED BY <3>1, <2>0, <1>s, <1>r, TrySetIsTreeStep
  <2>9. CASE Fail(t)
    <3>1. TrySet(t, PlanOf(t), "failed")
      BY <2>9 DEF Fail
    <3> QED BY <3>1, <2>0, <1>s, <1>r, TrySetIsTreeStep
  <2> QED BY <1>2, <2>1, <2>2, <2>3, <2>4, <2>5, <2>6, <2>7, <2>8, <2>9 DEF Drives
<1>3. ASSUME NEW t \in WatchThreads, Watches(t) PROVE [TreeNext]_tree_vars
  BY <1>3 DEF Watches, Observe, Stop
<1>4. ASSUME NEW t \in Threads, Propagate(t) PROVE [TreeNext]_tree_vars
  BY <1>4 DEF Propagate, TreeNext
<1>5. ASSUME NEW n \in Leaves, LeafEnds(n) \/ CloseStream(n) PROVE [TreeNext]_tree_vars
  <2>1. CASE LeafEnds(n)
    BY <2>1 DEF LeafEnds
  <2>2. CASE CloseStream(n)
    <3>1. PICK s \in Terminal : TrySet(Call(n), n, s)
      BY <2>2 DEF CloseStream
    <3>2. n \in Contexts \ {Root}
      BY NodesAssumption
    <3>3. Call(n) \in Threads
      BY <3>2, ThreadsAssumption DEF Drivers, CallThreads
    <3> QED BY <3>1, <3>2, <3>3, <1>s, TrySetIsTreeStep
  <2> QED BY <1>5, <2>1, <2>2
<1>6. ASSUME NEW n \in Contexts \ {Root}, Forward(n) PROVE [TreeNext]_tree_vars
  <2>1. UNCHANGED tree_vars
          \/ \E s \in {"succeeded", "failed"} : TrySet(Call(n), n, s)
    BY <1>6 DEF Forward
  <2>2. Call(n) \in Threads
    BY ThreadsAssumption DEF Drivers, CallThreads
  <2> QED BY <2>1, <2>2, <1>s, <1>r, TrySetIsTreeStep
<1>7. CASE Cancel
  BY <1>7, <1>s, <1>r, ThreadsAssumption, TreeAssumption DEF Cancel, TreeNext
<1>8. CASE UNCHANGED plan_vars
  BY <1>8 DEF plan_vars
<1> QED BY <1>1, <1>2, <1>3, <1>4, <1>5, <1>6, <1>7, <1>8 DEF PlanNext

\* start_plan, advance, finish_plan, fail_plan, the callbacks, the forwarder and
\* the streams change contexts only by fork and set_state.
THEOREM PlansKeepTree == PlanSpec => TreeSpec
<1>1. PlanInit => TreeInit
  BY DEF PlanInit
<1> QED BY <1>1, PlanStepIsTreeStep, PTL DEF PlanSpec, TreeSpec

\* No task of any tree of plans escapes the cancellation or failure of its plan.
THEOREM NoTaskEscapes == PlanSpec => []NoneEscapes
BY PlansKeepTree, CancellationReaches, PTL

-----------------------------------------------------------------------------
(* Answers: who decides what a plan does next, and who has the last word   *)

Place(t) == threads[t].at
Elems(s) == {s[i] : i \in 1..Len(s)}
Kids(p) == {n \in Contexts \ {Root} : Parent[n] = p}
DriversOf(p) == {t \in Drivers : PlanOf(t) = p}
EndersOf(p) == DriversOf(p) \cup {Watch(p)}

\* The batch a plan waits for, and the tasks of those it has done with.
Cur(p) == IF batch[p] = 0 THEN <<>> ELSE CurrentBatch(p)
Now(p) == Elems(Cur(p))
Past(p) == UNION {Elems(Batches[p][b]) : b \in 1..(batch[p] - 1)}

\* start_plan has not let the plan in.
Fresh(p) == Place(Run(p)) \in {"none", "start", "refused"}
Started(n) == IF n \in Plans THEN Place(Run(n)) # "none" ELSE task[n] # "none"
Ended(n) == IF n \in Plans THEN told[n] # "nothing" ELSE task[n] = "ended"

\* The response of n has been taken by its plan.
Untaken == {"none", "check", "collect", "error"}
Settled(n) == Answered(n) /\ event[n] = "none" /\ Place(Call(n)) \notin Untaken

\* A task is started once, ends once, and says so once.
TaskInv(n) ==
  LET p == Parent[n] IN
  /\ Ended(n) => Started(n)
  /\ event[n] # "none" => Ended(n) /\ Place(Call(n)) = "none"
  /\ Place(Call(n)) # "none" => Ended(n)
  /\ event[n] = "ok" \/ Place(Call(n)) \in {"check", "collect"} => Answered(n)
  /\ n \in responses[p] => n \in Elems(order[p]) /\ Settled(n)
  /\ Started(n) => n \in Elems(order[p]) \/ Settled(n)
  /\ Started(n) \/ context[n] # "none" => n \in Now(p) \cup Past(p)
  /\ n \in Past(p) => Started(n)

\* t alone decides what the plan does next,
Moving(t) ==
  Place(t) \in {"lock", "asking", "next", "forking", "advance", "finish", "conclude"}
\* or has tasks of the batch to start.
Starts(t) ==
  \/ Place(t) = "fork"
  \/ Place(t) = "spawn" /\ Tasks(t) # <<>>
  \/ Place(t) = "wait" /\ Tail(Tasks(t)) # <<>>
ToStart(t, p) ==
  CASE Place(t) = "fork" -> Now(p)
    [] Place(t) = "spawn" -> Elems(Tasks(t))
    [] Place(t) = "wait" -> Elems(Tail(Tasks(t)))
    [] OTHER -> {}
Leads(t) == Moving(t) \/ Starts(t)

\* s is the batch without its first k tasks, and these the plan has been given.
Rest(s, k, p) ==
  /\ Len(s) = Len(Cur(p)) - k
  /\ \A i \in 1..Len(s) : s[i] = Cur(p)[i + k]
Given(k, p) ==
  /\ k <= Len(seen[p])
  /\ \A i \in 1..k : seen[p][Len(seen[p]) - k + i] = Cur(p)[i]
Suffix(s, p) == \E k \in 0..Len(Cur(p)) : Rest(s, k, p)
Listening(s, p) == \E k \in 0..Len(Cur(p)) : Rest(s, k, p) /\ Given(k, p)

AllStarted(p) == \A n \in Kids(p) : n \in Now(p) => Started(n)
NoneStarted(p) == \A n \in Kids(p) : n \in Now(p) => ~Started(n)

\* What a thread that is where it is knows of the batch of its plan p.
Knows(t, p) ==
  /\ Place(t) # "stop"
  /\ t \in RunThreads => Place(t) \notin {"check", "collect", "error"}
  /\ Place(t) \in {"none", "start"} => Tasks(t) = <<>>
  /\ Moving(t) => order[p] = <<>>
  /\ Starts(t) => order[p] = Cur(p)
  /\ Place(t) = "lock" => Tasks(t) = Cur(p) /\ (batch[p] = 0 <=> t \in RunThreads)
  /\ Place(t) = "lock" /\ t \notin RunThreads => Tasks(t) # <<>>
  /\ Place(t) \in {"lock", "asking", "next", "finish", "conclude"} => AllStarted(p)
  /\ Place(t) \in {"forking", "advance", "fork"} =>
       NoneStarted(p) /\ batch[p] > 0 /\ Cur(p) # <<>>
  /\ Place(t) = "advance" => Tasks(t) = Cur(p)
  /\ Place(t) \in {"next", "fork", "wait"} => Tasks(t) # <<>>
  /\ Place(t) \in {"asking", "next"} => Listening(Tasks(t), p)
  /\ Place(t) = "forking" \/ Starts(t) => Suffix(Tasks(t), p)
  /\ Place(t) = "wait" => LET n == Head(Tasks(t)) IN n \in Kids(p) \cap Plans /\ Started(n)
  /\ \A n \in ToStart(t, p) : ~Started(n)

Alone(p) == \A t, u \in DriversOf(p) : Leads(t) /\ Leads(u) => t = u

\* The response of n, which is in the batch, will never come.
Lost(n) ==
  /\ n \notin responses[Parent[n]]
  /\ \/ Place(Call(n)) \notin {"none", "check", "collect"}
     \/ event[n] = "error"
     \/ n \in Plans /\ Place(Run(n)) = "refused"
     \/ ~Started(n) /\ \A t \in DriversOf(Parent[n]) : n \notin ToStart(t, Parent[n])

\* The plan can only fail.
Doomed(p) ==
  \/ Cancelled(p)
  \/ /\ context[p] # "succeeded"
     /\ \A t \in DriversOf(p) : ~Moving(t)
     /\ order[p] = <<>> \/ \E n \in Kids(p) : n \in Elems(order[p]) /\ Lost(n)

\* t has taken the plan out of the table and will tell how it ended.
Ending(t) == Place(t) \in {"conclude", "fail", "abort", "stop"}

\* A plan that start_plan has not let in has done nothing.
Unborn(p) ==
  /\ p \notin plans /\ batch[p] = 0 /\ seen[p] = <<>>
  /\ Place(Watch(p)) = "none" /\ context[p] # "succeeded"
  /\ p # Root => event[p] = "none" /\ Place(Call(p)) = "none"
  /\ told[p] = IF Place(Run(p)) = "refused" THEN "error" ELSE "nothing"

\* One thread ends the plan, and what it tells is what the context retained.
EndInv(p) ==
  /\ Fresh(p) => Unborn(p)
  /\ ~Fresh(p) => context[p] \notin {"none", "created"}
  /\ order[p] # <<>> => order[p] = Cur(p)
  /\ p \in plans => told[p] = "nothing" /\ \A t \in EndersOf(p) : ~Ending(t)
  /\ \A t \in EndersOf(p) : Ending(t) => told[p] = "nothing"
  /\ \A t, u \in EndersOf(p) : Ending(t) /\ Ending(u) => t = u
  /\ ~Fresh(p) /\ p \notin plans => told[p] # "nothing" \/ \E t \in EndersOf(p) : Ending(t)
  /\ told[p] = "ok" =>
       /\ context[p] = "succeeded" /\ order[p] = <<>> /\ AllStarted(p)
       /\ \A t \in DriversOf(p) : ~Moving(t)
  /\ told[p] = "error" => context[p] \in Stopped /\ Doomed(p)
  /\ p \in aborted => told[p] = "error"
  /\ context[p] = "succeeded" =>
       told[p] = "ok" \/ \E t \in DriversOf(p) : Place(t) \in {"finish", "conclude"}
  /\ \A t \in DriversOf(p) : Place(t) \in {"remove", "fail", "abort"} => Doomed(p)
  /\ \A t \in DriversOf(p) : Place(t) = "abort" => context[p] \in Stopped
  /\ Place(Watch(p)) = "stop" => Cancelled(p)
  /\ Place(Watch(p)) \notin {"conclude", "fail", "abort"}

\* Position i of what the plan was told ends the first j tasks of batch b.
Heard(p, i, b, j) ==
  /\ j <= i
  /\ \A m \in 1..j : seen[p][i - j + m] = Batches[p][b][m]
  /\ \A m \in 1..Len(Batches[p][b]) : Answered(Batches[p][b][m])
HeardInv(p) ==
  \A i \in 1..Len(seen[p]) : \E b \in 1..batch[p] : \E j \in 1..Len(Batches[p][b]) :
    Heard(p, i, b, j)

Sound(p) ==
  /\ \A n \in Kids(p) : TaskInv(n)
  /\ \A t \in DriversOf(p) : Knows(t, p)
  /\ Alone(p) /\ EndInv(p) /\ HeardInv(p)

AnswersInv == \A p \in Plans : Sound(p)

-----------------------------------------------------------------------------
(* Threads and batches *)

LEMMA RunLemma ==
  ASSUME NEW p \in Plans
  PROVE  /\ Run(p) \in RunThreads /\ Run(p) \in Drivers /\ PlanOf(Run(p)) = p
         /\ Run(p) \in DriversOf(p)
         /\ \A q \in Plans : Run(q) = Run(p) => q = p
<1>1. Run(p) \in RunThreads /\ Run(p) \in Drivers
  BY DEF RunThreads, Drivers
<1>2. Run(p)[2] = p /\ Run(p)[1] = "run"
  BY DEF Run
<1>3. Run(p) \notin CallThreads
  <2>1. \A n \in Contexts \ {Root} : Call(n)[1] = "call"
    BY DEF Call
  <2> QED
    BY <1>2, <2>1 DEF CallThreads
<1>4. \A q \in Plans : Run(q)[2] = q
  BY DEF Run
<1> QED
  BY <1>1, <1>2, <1>3, <1>4 DEF PlanOf, DriversOf

LEMMA CallLemma ==
  ASSUME NEW n \in Contexts \ {Root}
  PROVE  /\ Call(n) \in CallThreads /\ Call(n) \in Drivers /\ Call(n) \notin RunThreads
         /\ PlanOf(Call(n)) = Parent[n] /\ Call(n)[2] = n /\ Parent[n] \in Plans
         /\ Call(n) \in DriversOf(Parent[n])
         /\ \A m \in Contexts \ {Root} : Call(m) = Call(n) => m = n
         /\ \A p \in Plans : Call(n) # Run(p)
<1>1. Call(n) \in CallThreads /\ Call(n) \in Drivers
  BY DEF CallThreads, Drivers
<1>2. Call(n)[2] = n /\ Call(n)[1] = "call"
  BY DEF Call
<1>3. \A p \in Plans : Run(p)[1] = "run"
  BY DEF Run
<1>4. \A m \in Contexts \ {Root} : Call(m)[2] = m
  BY DEF Call
<1>5. Parent[n] \in Plans
  BY NodesAssumption
<1> QED
  BY <1>1, <1>2, <1>3, <1>4, <1>5 DEF PlanOf, DriversOf, RunThreads

LEMMA WatchLemma ==
  ASSUME NEW p \in Plans
  PROVE  /\ Watch(p) \in WatchThreads /\ Watch(p) \notin Drivers /\ PlanOf(Watch(p)) = p
         /\ Watch(p) \in Threads
         /\ \A q \in Plans : Watch(q) = Watch(p) => q = p
<1>1. Watch(p)[2] = p /\ Watch(p)[1] = "watch"
  BY DEF Watch
<1>2. /\ \A q \in Plans : Run(q)[1] = "run"
      /\ \A n \in Contexts \ {Root} : Call(n)[1] = "call"
  BY DEF Run, Call
<1>3. \A q \in Plans : Watch(q)[2] = q
  BY DEF Watch
<1>4. Watch(p) \notin RunThreads /\ Watch(p) \notin CallThreads
  BY <1>1, <1>2 DEF RunThreads, CallThreads
<1> QED
  BY <1>1, <1>3, <1>4, ThreadsAssumption DEF PlanOf, Drivers, WatchThreads

LEMMA DriverLemma ==
  ASSUME NEW t \in Drivers
  PROVE  /\ t \in Threads /\ PlanOf(t) \in Plans /\ t \in DriversOf(PlanOf(t))
         /\ \A p \in Plans : t # Watch(p)
         /\ \A p \in Plans : t \in DriversOf(p) => PlanOf(t) = p
         /\ \/ t \in RunThreads /\ t = Run(PlanOf(t))
            \/ \E n \in Kids(PlanOf(t)) : t \notin RunThreads /\ t = Call(n) /\ t[2] = n
<1>1. \A p \in Plans : t # Watch(p)
  BY WatchLemma
<1>2. t \in Threads /\ t \in DriversOf(PlanOf(t)) /\ \A p \in Plans : t \in DriversOf(p) => PlanOf(t) = p
  BY ThreadsAssumption DEF DriversOf
<1>3. CASE t \in RunThreads
  <2>1. PICK p \in Plans : t = Run(p)
    BY <1>3 DEF RunThreads
  <2> QED
    BY <1>1, <1>2, <1>3, <2>1, RunLemma
<1>4. CASE t \in CallThreads
  <2>1. PICK n \in Contexts \ {Root} : t = Call(n)
    BY <1>4 DEF CallThreads
  <2> QED
    BY <1>1, <1>2, <2>1, CallLemma DEF Kids
<1> QED
  BY <1>3, <1>4 DEF Drivers

LEMMA KidsLemma ==
  ASSUME NEW p \in Plans, NEW n \in Kids(p)
  PROVE  /\ n \in Contexts \ {Root} /\ n \in Contexts /\ Parent[n] = p
         /\ Call(n) \in DriversOf(p) /\ Call(n) \in Drivers /\ PlanOf(Call(n)) = p
         /\ n \in Plans \/ n \in Leaves
         /\ ~(n \in Plans /\ n \in Leaves)
BY CallLemma, NodesAssumption DEF Kids

LEMMA ElemsTail ==
  ASSUME NEW S, NEW s \in Seq(S), s # <<>>
  PROVE  /\ Head(s) \in S /\ Tail(s) \in Seq(S)
         /\ Elems(s) = {Head(s)} \cup Elems(Tail(s))
         /\ Len(Tail(s)) = Len(s) - 1 /\ Len(s) >= 1 /\ Head(s) = s[1]
         /\ \A i \in 1..Len(Tail(s)) : Tail(s)[i] = s[i + 1]
<1>1. /\ Head(s) \in S /\ Tail(s) \in Seq(S) /\ Len(Tail(s)) = Len(s) - 1 /\ Len(s) >= 1
      /\ Head(s) = s[1] /\ Len(s) \in Nat
      /\ \A i \in 1..Len(Tail(s)) : Tail(s)[i] = s[i + 1]
  OBVIOUS
<1>2. ASSUME NEW x \in Elems(s) PROVE x = Head(s) \/ x \in Elems(Tail(s))
  <2>1. PICK i \in 1..Len(s) : x = s[i]
    BY DEF Elems
  <2>2. CASE i = 1
    BY <1>1, <2>1, <2>2
  <2>3. CASE i # 1
    <3>1. i - 1 \in 1..Len(Tail(s)) /\ Tail(s)[i - 1] = s[i]
      BY <1>1, <2>3
    <3> QED
      BY <2>1, <3>1 DEF Elems
  <2> QED
    BY <2>2, <2>3
<1>3. ASSUME NEW x \in Elems(Tail(s)) PROVE x \in Elems(s)
  <2>1. PICK i \in 1..Len(Tail(s)) : x = Tail(s)[i]
    BY <1>3 DEF Elems
  <2>2. i + 1 \in 1..Len(s) /\ x = s[i + 1]
    BY <1>1, <2>1
  <2> QED
    BY <2>2 DEF Elems
<1>4. Head(s) \in Elems(s)
  BY <1>1 DEF Elems
<1> QED
  BY <1>1, <1>2, <1>3, <1>4

LEMMA ElemsType ==
  ASSUME NEW S, NEW s \in Seq(S)
  PROVE  Elems(s) \subseteq S /\ (s = <<>> <=> Elems(s) = {})
<1>1. \A i \in 1..Len(s) : s[i] \in S
  OBVIOUS
<1>2. s # <<>> => Elems(s) # {}
  BY ElemsTail
<1>3. s = <<>> => Elems(s) = {}
  BY DEF Elems
<1> QED
  BY <1>1, <1>2, <1>3 DEF Elems

LEMMA BatchLemma ==
  ASSUME NEW p \in Plans, NEW b \in 1..Len(Batches[p])
  PROVE  /\ Batches[p][b] \in Seq(Contexts \ {Root})
         /\ \A i \in 1..Len(Batches[p][b]) : Batches[p][b][i] \in Kids(p)
<1>1. Batches[p] \in Seq(Seq(Contexts \ {Root}))
  BY BatchesAssumption
<1>2. Batches[p][b] \in Seq(Contexts \ {Root})
  BY <1>1
<1>3. \A i \in 1..Len(Batches[p][b]) : Parent[Batches[p][b][i]] = p
  BY BatchesAssumption
<1>4. \A i \in 1..Len(Batches[p][b]) : Batches[p][b][i] \in Contexts \ {Root}
  BY <1>2
<1> QED
  BY <1>2, <1>3, <1>4 DEF Kids

\* The batch a plan waits for has each of its tasks once.
LEMMA CurLemma ==
  ASSUME PlanTypeOK, NEW p \in Plans
  PROVE  /\ Cur(p) \in Seq(Contexts \ {Root}) /\ Len(Cur(p)) \in Nat
         /\ Now(p) \subseteq Kids(p)
         /\ \A i, j \in 1..Len(Cur(p)) : Cur(p)[i] = Cur(p)[j] => i = j
         /\ batch[p] = 0 => Cur(p) = <<>>
         /\ batch[p] # 0 => batch[p] \in 1..Len(Batches[p]) /\ Cur(p) = Batches[p][batch[p]]
<1>1. batch[p] \in Nat /\ batch[p] <= Len(Batches[p]) /\ Batches[p] \in Seq(Seq(Contexts \ {Root}))
  BY BatchesAssumption DEF PlanTypeOK
<1>2. CASE batch[p] = 0
  <2>1. Cur(p) = <<>> /\ Len(Cur(p)) = 0
    BY <1>2 DEF Cur
  <2>2. Now(p) = {} /\ 1..Len(Cur(p)) = {}
    BY <2>1 DEF Now, Elems
  <2> QED
    BY <1>2, <2>1, <2>2
<1>3. CASE batch[p] # 0
  <2>1. batch[p] \in 1..Len(Batches[p]) /\ Cur(p) = Batches[p][batch[p]]
    BY <1>1, <1>3 DEF Cur, CurrentBatch
  <2>2. Cur(p) \in Seq(Contexts \ {Root}) /\ Len(Cur(p)) \in Nat
    BY <1>1, <2>1
  <2>a. PICK b \in 1..Len(Batches[p]) : b = batch[p] /\ Cur(p) = Batches[p][b]
    BY <2>1
  <2>b. /\ \A i \in 1..Len(Batches[p][b]) : Parent[Batches[p][b][i]] = p
        /\ \A i, j \in 1..Len(Batches[p][b]) : Batches[p][b][i] = Batches[p][b][j] => i = j
    <3>1. \A i \in 1..Len(Batches[p][b]) : Parent[Batches[p][b][i]] = p
      BY BatchesAssumption
    <3>2. \A i, j \in 1..Len(Batches[p][b]) : Batches[p][b][i] = Batches[p][b][j] => i = j
      <4> SUFFICES ASSUME NEW i \in 1..Len(Batches[p][b]), NEW j \in 1..Len(Batches[p][b]),
                          Batches[p][b][i] = Batches[p][b][j]
                   PROVE  i = j
        OBVIOUS
      <4>1. Batches[p] \in Seq(Seq(Contexts \ {Root})) /\ b \in 1..Len(Batches[p])
        BY BatchesAssumption
      <4>2. Batches[p][b] \in Seq(Contexts \ {Root})
        BY <4>1
      <4>3. \A c \in 1..Len(Batches[p]) : \A k \in 1..Len(Batches[p][b]), l \in 1..Len(Batches[p][c]) :
              Batches[p][b][k] = Batches[p][c][l] => b = c /\ k = l
        BY OnceAssumption
      <4> QED
        BY <4>1, <4>2, <4>3
    <3> QED
      BY <3>1, <3>2
  <2>3. \A i \in 1..Len(Cur(p)) : Parent[Cur(p)[i]] = p
    BY <2>a, <2>b
  <2>4. \A i, j \in 1..Len(Cur(p)) : Cur(p)[i] = Cur(p)[j] => i = j
    BY <2>a, <2>b
  <2>5. \A i \in 1..Len(Cur(p)) : Cur(p)[i] \in Contexts \ {Root}
    BY <2>2
  <2> QED
    BY <1>3, <2>1, <2>2, <2>3, <2>4, <2>5 DEF Now, Elems, Kids
<1> QED
  BY <1>2, <1>3

LEMMA SuffixTail ==
  ASSUME PlanTypeOK, NEW p \in Plans, NEW s \in Seq(Contexts \ {Root}), Suffix(s, p), s # <<>>
  PROVE  /\ Suffix(Tail(s), p) /\ Head(s) \notin Elems(Tail(s))
         /\ Elems(s) \subseteq Now(p) /\ Head(s) \in Now(p) /\ Head(s) \in Kids(p)
<1>1. PICK k \in 0..Len(Cur(p)) : Rest(s, k, p)
  BY DEF Suffix
<1>2. /\ Len(Tail(s)) = Len(s) - 1 /\ Len(s) >= 1 /\ Head(s) = s[1] /\ Len(s) \in Nat
      /\ \A i \in 1..Len(Tail(s)) : Tail(s)[i] = s[i + 1]
  BY ElemsTail
<1>3. k + 1 \in 0..Len(Cur(p)) /\ Rest(Tail(s), k + 1, p)
  BY <1>1, <1>2, CurLemma DEF Rest
<1>4. Head(s) \notin Elems(Tail(s))
  <2> SUFFICES ASSUME NEW i \in 1..Len(Tail(s)), Tail(s)[i] = s[1] PROVE FALSE
    BY <1>2 DEF Elems
  <2>1. s[i + 1] = Cur(p)[i + 1 + k] /\ s[1] = Cur(p)[1 + k]
    BY <1>1, <1>2 DEF Rest
  <2>2. i + 1 + k \in 1..Len(Cur(p)) /\ 1 + k \in 1..Len(Cur(p))
    BY <1>1, <1>2, CurLemma DEF Rest
  <2>3. Cur(p)[i + 1 + k] = Cur(p)[1 + k]
    BY <1>2, <2>1
  <2>4. i + 1 + k = 1 + k
    BY <2>2, <2>3, CurLemma
  <2> QED
    BY <2>4
<1>5. Elems(s) \subseteq Now(p)
  <2> SUFFICES ASSUME NEW i \in 1..Len(s) PROVE s[i] \in Now(p)
    BY DEF Elems
  <2>1. i + k \in 1..Len(Cur(p)) /\ s[i] = Cur(p)[i + k]
    BY <1>1, CurLemma DEF Rest
  <2> QED
    BY <2>1 DEF Now, Elems
<1> QED
  BY <1>3, <1>4, <1>5, ElemsTail, CurLemma DEF Suffix

LEMMA WholeBatch ==
  ASSUME PlanTypeOK, NEW p \in Plans
  PROVE  Suffix(Cur(p), p) /\ Listening(Cur(p), p)
<1>1. Len(Cur(p)) \in Nat /\ Len(seen[p]) \in Nat
  BY CurLemma DEF PlanTypeOK
<1>2. Rest(Cur(p), 0, p) /\ Given(0, p)
  BY <1>1 DEF Rest, Given
<1> QED
  BY <1>1, <1>2 DEF Suffix, Listening

-----------------------------------------------------------------------------
(* What a step may leave alone *)

\* set_state, as far as one plan sees it: an end is final, nobody begins anew,
\* and it is not a success.
Evolves ==
  \A c \in Contexts :
    /\ IsTerminal(c) => context'[c] = context[c]
    /\ context[c] \notin {"none", "created"} => context'[c] \notin {"none", "created"}
NoBirth == \A c \in Contexts : context'[c] # "none" => context[c] # "none"
NoSuccess == \A c \in Plans : context'[c] = "succeeded" => context[c] = "succeeded"

ContextKept(p) ==
  /\ IsTerminal(p) => context'[p] = context[p]
  /\ context[p] \notin {"none", "created"} => context'[p] \notin {"none", "created"}
  /\ context'[p] = "succeeded" => context[p] = "succeeded"

CallKept(n) ==
  /\ Place(Call(n))' = "none" <=> Place(Call(n)) = "none"
  /\ Place(Call(n))' \in {"check", "collect"} => Place(Call(n)) \in {"check", "collect"}
  /\ Place(Call(n))' \in Untaken => Place(Call(n)) \in Untaken

TaskKept(n) ==
  /\ Started(n)' <=> Started(n)
  /\ Ended(n)' <=> Ended(n)
  /\ Answered(n) => Answered(n)'
  /\ event'[n] = event[n]
  /\ CallKept(n)
  /\ n \in Plans /\ Place(Run(n)) = "refused" => Place(Run(n))' = "refused"
TasksKept(p) == \A n \in Kids(p) : TaskKept(n)
NotForked(p) == \A n \in Kids(p) : context'[n] # "none" => context[n] # "none"

TableKept(p) ==
  /\ order'[p] = order[p] /\ responses'[p] = responses[p]
  /\ batch'[p] = batch[p] /\ seen'[p] = seen[p]

EndKept(p) ==
  /\ told'[p] = told[p] /\ (p \in plans' <=> p \in plans) /\ (p \in aborted' => p \in aborted)
  /\ Fresh(p) /\ p # Root =>
       event'[p] = event[p] /\ (Place(Call(p)) = "none" => Place(Call(p))' = "none")
  /\ Fresh(p) => Place(Run(p))' = Place(Run(p))
  /\ ~Fresh(p) => ~Fresh(p)'

\* A callback starts, which for now says nothing of the plan.
Called(t) == t \in CallThreads /\ Place(t) = "none" /\ Place(t)' \in {"check", "error"}
ThreadsKept(p) == \A t \in EndersOf(p) : threads'[t] = threads[t] \/ Called(t)

LEMMA TrySetEffect ==
  ASSUME TreeTypeOK, NEW t \in Threads, NEW c \in Contexts, NEW s \in States, TrySet(t, c, s)
  PROVE  /\ \A d \in Contexts \ {c} : context'[d] = context[d]
         /\ context'[c] # "none" => context[c] # "none"
         /\ context'[c] = "succeeded" => context[c] = "succeeded" \/ s = "succeeded"
         /\ May(c, s) => context'[c] = s
         /\ ~May(c, s) => context'[c] = context[c]
         /\ NoBirth
<1>1. CASE May(c, s)
  <2>1. context' = [context EXCEPT ![c] = s]
    BY <1>1 DEF TrySet, SetState
  <2> QED
    BY <1>1, <2>1 DEF May, TreeTypeOK, NoBirth
<1>2. CASE ~May(c, s)
  BY <1>2 DEF TrySet, tree_vars, NoBirth
<1> QED
  BY <1>1, <1>2

LEMMA SetStateEffect ==
  ASSUME TreeTypeOK, NEW t \in Threads, NEW c \in Contexts, NEW s \in States, SetState(t, c, s)
  PROVE  /\ \A d \in Contexts \ {c} : context'[d] = context[d]
         /\ context[c] # "none" /\ context'[c] = s
         /\ NoBirth
BY DEF SetState, May, TreeTypeOK, NoBirth

LEMMA PassOnEffect ==
  ASSUME TreeTypeOK, NEW t \in Threads, PassOn(t)
  PROVE  NoBirth /\ NoSuccess
<1>1. PICK c \in pending[t] :
        \/ May(c, "cancelled") /\ context' = [context EXCEPT ![c] = "cancelled"]
        \/ context' = context
  BY DEF PassOn
<1>2. Plans \subseteq Contexts
  BY NodesAssumption
<1> QED
  BY <1>1, <1>2 DEF May, TreeTypeOK, NoBirth, NoSuccess

LEMMA EvolvesLemma ==
  ASSUME TreeTypeOK, [PlanNext]_plan_vars
  PROVE  Evolves
<1>1. [TreeNext]_tree_vars
  BY PlanStepIsTreeStep
<1>2. ASSUME NEW c \in Contexts, IsTerminal(c) PROVE context'[c] = context[c]
  BY <1>1, <1>2, FinalStep
<1>3. ASSUME NEW c \in Contexts, context[c] \notin {"none", "created"}
      PROVE  context'[c] \notin {"none", "created"}
  <2>1. CASE IsTerminal(c)
    BY <1>2, <1>3, <2>1
  <2>2. CASE ~IsTerminal(c)
    <3>1. context[c] = "running"
      BY <1>3, <2>2 DEF TreeTypeOK, States, IsTerminal
    <3>2. ASSUME NEW d \in Contexts, Fork(d) PROVE context'[c] = context[c]
      BY <3>1, <3>2 DEF Fork, TreeTypeOK
    <3>3. ASSUME NEW t \in Threads, NEW d \in Contexts, NEW s \in States, SetState(t, d, s)
          PROVE  context'[c] \notin {"none", "created"}
      BY <3>1, <3>3 DEF SetState, May, TreeTypeOK, Terminal, Stopped
    <3>4. ASSUME NEW t \in Threads, PassOn(t) PROVE context'[c] \notin {"none", "created"}
      BY <3>1, <3>4 DEF PassOn, May, TreeTypeOK, Terminal, Stopped
    <3>5. CASE UNCHANGED tree_vars
      BY <3>1, <3>5 DEF tree_vars
    <3> QED
      BY <1>1, <3>1, <3>2, <3>3, <3>4, <3>5 DEF TreeNext
  <2> QED
    BY <2>1, <2>2
<1> QED
  BY <1>2, <1>3 DEF Evolves

LEMMA CurKept ==
  ASSUME NEW p \in Plans, batch'[p] = batch[p]
  PROVE  Cur(p)' = Cur(p) /\ Now(p)' = Now(p) /\ Past(p)' = Past(p)
BY DEF Cur, CurrentBatch, Now, Past, Elems

LEMMA ToStartKids ==
  ASSUME PlanTypeOK, NEW p \in Plans, NEW t \in DriversOf(p), Knows(t, p)
  PROVE  /\ Tasks(t) \in Seq(Contexts \ {Root})
         /\ ToStart(t, p) \subseteq Kids(p) /\ ToStart(t, p) \subseteq Now(p)
         /\ Starts(t) <=> ToStart(t, p) # {}
         /\ Starts(t) => Tasks(t) # <<>> /\ order[p] = Cur(p) /\ Cur(p) # <<>>
<1>1. t \in Threads /\ threads[t] \in [at : Places, rest : Seq(Contexts \ {Root})]
  BY ThreadsAssumption DEF DriversOf, PlanTypeOK
<1>2. Tasks(t) \in Seq(Contexts \ {Root})
  BY <1>1 DEF Tasks
<1>3. CASE ~Starts(t)
  BY <1>2, <1>3 DEF Starts, ToStart, Elems
<1>4. CASE Starts(t)
  <2>1. Suffix(Tasks(t), p) /\ order[p] = Cur(p)
    BY <1>4 DEF Knows
  <2>2. Tasks(t) # <<>>
    BY <1>4 DEF Starts, Knows
  <2>3. Elems(Tasks(t)) \subseteq Now(p) /\ Elems(Tail(Tasks(t))) \subseteq Elems(Tasks(t))
    BY <1>2, <2>1, <2>2, SuffixTail, ElemsTail
  <2>4. Elems(Tasks(t)) # {}
    BY <1>2, <2>2, ElemsType
  <2>5. Tail(Tasks(t)) # <<>> => Elems(Tail(Tasks(t))) # {}
    BY <1>2, <2>2, ElemsTail, ElemsType
  <2>6. Cur(p) # <<>>
    BY <2>3, <2>4, CurLemma, ElemsType DEF Now
  <2> QED
    BY <1>2, <1>4, <2>1, <2>2, <2>3, <2>4, <2>5, <2>6, CurLemma DEF ToStart, Starts
<1> QED
  BY <1>3, <1>4

\* A task of which only its place among those of its plan may have changed.
LEMMA TaskGoesOn ==
  ASSUME NEW p \in Plans, NEW n \in Kids(p), TaskInv(n), TaskKept(n),
         n \in responses'[p] => n \in Elems(order[p])' /\ (Settled(n) \/ Settled(n)'),
         Started(n) => n \in Elems(order[p])' \/ Settled(n) \/ Settled(n)',
         Started(n) \/ context'[n] # "none" => n \in Now(p)' \cup Past(p)',
         n \in Past(p)' => Started(n)
  PROVE  TaskInv(n)'
<1>1. Parent[n] = p
  BY DEF Kids
<1>2. Settled(n) => Settled(n)'
  BY DEF Settled, TaskKept, CallKept
<1>3. event'[n] = "ok" \/ Place(Call(n))' \in {"check", "collect"} => Answered(n)'
  BY DEF TaskInv, TaskKept, CallKept
<1>4. /\ Ended(n)' => Started(n)'
      /\ event'[n] # "none" => Ended(n)' /\ Place(Call(n))' = "none"
      /\ Place(Call(n))' # "none" => Ended(n)'
  BY DEF TaskInv, TaskKept, CallKept
<1>5. /\ n \in responses'[p] => n \in Elems(order[p])' /\ Settled(n)'
      /\ Started(n)' => n \in Elems(order[p])' \/ Settled(n)'
      /\ Started(n)' \/ context'[n] # "none" => n \in Now(p)' \cup Past(p)'
      /\ n \in Past(p)' => Started(n)'
  BY <1>2 DEF TaskKept
<1> QED
  BY <1>1, <1>3, <1>4, <1>5 DEF TaskInv

LEMMA TaskStays ==
  ASSUME NEW p \in Plans, NEW n \in Kids(p), TaskInv(n), TaskKept(n),
         order'[p] = order[p], responses'[p] = responses[p], batch'[p] = batch[p],
         context'[n] # "none" => context[n] # "none" \/ n \in Now(p)
  PROVE  TaskInv(n)'
<1>1. Parent[n] = p /\ Now(p)' = Now(p) /\ Past(p)' = Past(p)
      /\ Elems(order[p])' = Elems(order[p])
  BY CurKept DEF Kids, Elems
<1> QED
  BY <1>1, TaskGoesOn DEF TaskInv

LEMMA SameThread ==
  ASSUME NEW t, threads'[t] = threads[t]
  PROVE  /\ Place(t)' = Place(t) /\ Tasks(t)' = Tasks(t)
         /\ \A p \in Plans : batch'[p] = batch[p] => ToStart(t, p)' = ToStart(t, p)
         /\ (Moving(t)' <=> Moving(t)) /\ (Starts(t)' <=> Starts(t))
         /\ (Leads(t)' <=> Leads(t)) /\ (Ending(t)' <=> Ending(t))
<1>1. Place(t)' = Place(t) /\ Tasks(t)' = Tasks(t)
  BY DEF Place, Tasks
<1>2. (Starts(t)' <=> Starts(t)) /\ (Moving(t)' <=> Moving(t)) /\ (Ending(t)' <=> Ending(t))
  BY <1>1 DEF Starts, Moving, Ending
<1>3. ASSUME NEW p \in Plans, batch'[p] = batch[p] PROVE ToStart(t, p)' = ToStart(t, p)
  BY <1>1, <1>3, CurKept DEF ToStart, Elems
<1> QED
  BY <1>1, <1>2, <1>3 DEF Leads

LEMMA BatchSame ==
  ASSUME NEW p \in Plans, batch'[p] = batch[p], seen'[p] = seen[p], NEW s, NEW t,
         Tasks(t)' = s
  PROVE  /\ Listening(s, p) => Listening(Tasks(t), p)'
         /\ Suffix(s, p) => Suffix(Tasks(t), p)'
BY CurKept DEF Listening, Suffix, Rest, Given

LEMMA KnowsStays ==
  ASSUME PlanTypeOK, NEW p \in Plans, NEW t \in DriversOf(p), Knows(t, p),
         threads'[t] = threads[t],
         order'[p] = order[p], batch'[p] = batch[p], seen'[p] = seen[p],
         \A n \in Kids(p) : Started(n)' <=> Started(n)
  PROVE  Knows(t, p)'
<1>1. /\ Cur(p)' = Cur(p) /\ Now(p)' = Now(p) /\ order'[p] = order[p] /\ batch'[p] = batch[p]
      /\ seen'[p] = seen[p]
  BY CurKept
<1>2. /\ Place(t)' = Place(t) /\ Tasks(t)' = Tasks(t) /\ (Moving(t)' <=> Moving(t))
      /\ ToStart(t, p)' = ToStart(t, p) /\ (Starts(t)' <=> Starts(t))
  BY <1>1, SameThread
<1>3. (AllStarted(p) => AllStarted(p)') /\ (NoneStarted(p) => NoneStarted(p)')
  BY <1>1 DEF AllStarted, NoneStarted
<1>4. /\ Suffix(Tasks(t), p) => Suffix(Tasks(t), p)'
      /\ Listening(Tasks(t), p) => Listening(Tasks(t), p)'
  BY <1>2, BatchSame
<1>5. \A n \in ToStart(t, p)' : ~Started(n)'
  BY <1>2, ToStartKids DEF Knows
<1>6. Place(t)' = "wait" =>
        Head(Tasks(t))' \in Kids(p) \cap Plans /\ Started(Head(Tasks(t)))'
  <2>1. PICK n : n = Head(Tasks(t))
    OBVIOUS
  <2>2. Place(t) = "wait" => n \in Kids(p) \cap Plans /\ Started(n)
    BY <2>1 DEF Knows
  <2>3. Place(t) = "wait" => Started(n)'
    BY <2>2
  <2>4. Head(Tasks(t))' = n
    BY <1>2, <2>1
  <2> QED
    BY <1>2, <2>2, <2>3, <2>4 DEF Started
<1> QED
  BY <1>1, <1>2, <1>3, <1>4, <1>5, <1>6 DEF Knows

\* What is lost stays lost,
LostKept(n) ==
  /\ Place(Call(n)) \notin {"none", "check", "collect"}
       => Place(Call(n))' \notin {"none", "check", "collect"}
  /\ event[n] = "error"
       => event'[n] = "error" \/ Place(Call(n))' \notin {"none", "check", "collect"}
  /\ n \in Plans /\ Place(Run(n)) = "refused" => Place(Run(n))' = "refused"
  /\ ~Started(n) => ~Started(n)'

\* if nobody begins to drive the plan.
NoLeader(p) ==
  \A t \in DriversOf(p) : (Moving(t)' => Moving(t)) /\ ToStart(t, p)' \subseteq ToStart(t, p)

LEMMA LostStays ==
  ASSUME NEW p \in Plans, NEW n \in Kids(p), Lost(n), LostKept(n),
         responses'[p] = responses[p], NoLeader(p)
  PROVE  Lost(n)'
<1>1. Parent[n] = p
  BY DEF Kids
<1> QED
  BY <1>1 DEF Lost, LostKept, NoLeader

LEMMA DoomedStays ==
  ASSUME NEW p \in Plans, Doomed(p), ContextKept(p), NoLeader(p),
         order'[p] = order[p], responses'[p] = responses[p],
         \A n \in Kids(p) : LostKept(n)
  PROVE  Doomed(p)'
<1>1. CASE Cancelled(p)
  BY <1>1 DEF Doomed, Cancelled, ContextKept, IsTerminal, Terminal, Stopped
<1>2. CASE ~Cancelled(p)
  <2>1. context'[p] # "succeeded" /\ \A t \in DriversOf(p) : ~Moving(t)'
    BY <1>2 DEF Doomed, ContextKept, NoLeader
  <2>2. order'[p] = <<>> \/ \E n \in Kids(p) : n \in Elems(order[p])' /\ Lost(n)'
    BY <1>2, LostStays DEF Doomed, Elems
  <2> QED
    BY <2>1, <2>2 DEF Doomed
<1> QED
  BY <1>1, <1>2

LEMMA KeptIsLostKept ==
  ASSUME NEW p \in Plans, TasksKept(p)
  PROVE  \A n \in Kids(p) : LostKept(n)
BY DEF TasksKept, TaskKept, CallKept, LostKept, Untaken

LEMMA SameThreads ==
  ASSUME NEW p \in Plans, ThreadsKept(p), batch'[p] = batch[p]
  PROVE  /\ NoLeader(p)
         /\ \A t \in EndersOf(p) :
              /\ \/ Place(t)' = Place(t)
                 \/ Place(t) = "none" /\ Place(t)' \in {"check", "error"}
              /\ (Ending(t)' <=> Ending(t)) /\ (Leads(t)' <=> Leads(t)) /\ (Moving(t)' <=> Moving(t))
         /\ Place(Watch(p))' = Place(Watch(p))
         /\ DriversOf(p) \subseteq EndersOf(p) /\ Watch(p) \in EndersOf(p)
<1>1. DriversOf(p) \subseteq EndersOf(p) /\ Watch(p) \in EndersOf(p) /\ Watch(p) \notin CallThreads
  BY WatchLemma DEF EndersOf, Drivers
<1>2. ASSUME NEW t \in EndersOf(p)
      PROVE  /\ \/ Place(t)' = Place(t)
                \/ Place(t) = "none" /\ Place(t)' \in {"check", "error"}
             /\ (Ending(t)' <=> Ending(t)) /\ (Leads(t)' <=> Leads(t)) /\ (Moving(t)' <=> Moving(t))
             /\ ToStart(t, p)' \subseteq ToStart(t, p)
  <2>1. CASE threads'[t] = threads[t]
    BY <2>1, SameThread
  <2>2. CASE Called(t)
    <3>1. Place(t) = "none" /\ Place(t)' \in {"check", "error"}
      BY <2>2 DEF Called
    <3> QED
      BY <3>1 DEF Ending, Leads, Moving, Starts, ToStart
  <2> QED
    BY <2>1, <2>2 DEF ThreadsKept
<1>3. Place(Watch(p))' = Place(Watch(p))
  BY <1>1 DEF ThreadsKept, Called, Place
<1> QED
  BY <1>1, <1>2, <1>3 DEF NoLeader

\* Whoever does not lead knows nothing.
LEMMA IdleKnows ==
  ASSUME NEW t, NEW p,
         \/ Place(t)' \in {"remove", "fail", "abort", "done"}
         \/ Place(t)' \in {"check", "collect", "error"} /\ t \notin RunThreads
  PROVE  /\ Knows(t, p)' /\ ~Moving(t)' /\ ~Starts(t)' /\ ToStart(t, p)' = {} /\ ~Leads(t)'
BY DEF Knows, Moving, Starts, ToStart, Leads

LEMMA AllStartedStays ==
  ASSUME NEW p \in Plans, AllStarted(p), batch'[p] = batch[p],
         \A n \in Kids(p) : Started(n) => Started(n)'
  PROVE  AllStarted(p)'
BY CurKept DEF AllStarted

LEMMA UnbornStays ==
  ASSUME NEW p \in Plans, EndInv(p), EndKept(p), TableKept(p), ContextKept(p),
         Place(Watch(p))' = Place(Watch(p)), Fresh(p)'
  PROVE  Unborn(p)'
<1>1. Fresh(p) /\ Place(Run(p))' = Place(Run(p))
  BY DEF EndKept
<1>2. Unborn(p)
  BY <1>1 DEF EndInv
<1> QED
  BY <1>1, <1>2 DEF Unborn, EndKept, TableKept, ContextKept

LEMMA HeardStays ==
  ASSUME NEW p \in Plans, HeardInv(p), seen'[p] = seen[p], batch'[p] \in Nat, batch[p] \in Nat,
         batch[p] <= batch'[p], batch[p] <= Len(Batches[p]),
         \A n \in Kids(p) : Answered(n) => Answered(n)'
  PROVE  HeardInv(p)'
<1> SUFFICES ASSUME NEW i \in 1..Len(seen[p])
             PROVE  \E b \in 1..batch'[p] : \E j \in 1..Len(Batches[p][b]) : Heard(p, i, b, j)'
  BY DEF HeardInv
<1>1. PICK b \in 1..batch[p] : \E j \in 1..Len(Batches[p][b]) : Heard(p, i, b, j)
  BY DEF HeardInv
<1>2. PICK j \in 1..Len(Batches[p][b]) : Heard(p, i, b, j)
  BY <1>1
<1>3. b \in 1..batch'[p] /\ b \in 1..Len(Batches[p])
  OBVIOUS
<1>4. \A m \in 1..Len(Batches[p][b]) : Batches[p][b][m] \in Kids(p)
  BY <1>3, BatchLemma
<1>5. Heard(p, i, b, j)'
  BY <1>2, <1>4 DEF Heard
<1> QED
  BY <1>3, <1>5

LEMMA EndStays ==
  ASSUME NEW p \in Plans, EndInv(p), EndKept(p), TableKept(p), ContextKept(p),
         ThreadsKept(p), \A n \in Kids(p) : LostKept(n) /\ (Started(n) => Started(n)')
  PROVE  EndInv(p)'
<1>1. /\ order'[p] = order[p] /\ Cur(p)' = Cur(p) /\ told'[p] = told[p]
      /\ (p \in plans' <=> p \in plans)
  BY CurKept DEF TableKept, EndKept
<1>2. /\ \A t \in EndersOf(p) :
           /\ Place(t)' = Place(t) \/ (Place(t) = "none" /\ Place(t)' \in {"check", "error"})
           /\ (Ending(t)' <=> Ending(t)) /\ (Moving(t)' <=> Moving(t))
      /\ Place(Watch(p))' = Place(Watch(p))
      /\ DriversOf(p) \subseteq EndersOf(p) /\ Watch(p) \in EndersOf(p) /\ NoLeader(p)
  BY SameThreads DEF TableKept
<1>3. Doomed(p) => Doomed(p)'
  BY <1>2, DoomedStays DEF TableKept
<1>4. Fresh(p)' => Unborn(p)'
  BY <1>2, UnbornStays
<1>5. ~Fresh(p)' => context'[p] \notin {"none", "created"}
  BY DEF EndInv, EndKept, ContextKept, Fresh
<1>6. /\ order'[p] # <<>> => order'[p] = Cur(p)'
      /\ p \in plans' => told'[p] = "nothing" /\ \A t \in EndersOf(p) : ~Ending(t)'
      /\ \A t \in EndersOf(p) : Ending(t)' => told'[p] = "nothing"
      /\ \A t, u \in EndersOf(p) : Ending(t)' /\ Ending(u)' => t = u
  BY <1>1, <1>2 DEF EndInv
<1>7. ~Fresh(p)' /\ p \notin plans' => told'[p] # "nothing" \/ \E t \in EndersOf(p) : Ending(t)'
  <2>1. Fresh(p) => Fresh(p)'
    BY DEF EndKept, Fresh
  <2> QED
    BY <1>1, <1>2, <2>1 DEF EndInv
<1>8. told'[p] = "ok" =>
       /\ context'[p] = "succeeded" /\ order'[p] = <<>> /\ AllStarted(p)'
       /\ \A t \in DriversOf(p) : ~Moving(t)'
  <2>1. AllStarted(p) => AllStarted(p)'
    BY AllStartedStays DEF TableKept
  <2> QED
    BY <1>1, <1>2, <2>1 DEF EndInv, ContextKept, IsTerminal, Terminal
<1>9. told'[p] = "error" => context'[p] \in Stopped /\ Doomed(p)'
  BY <1>1, <1>3 DEF EndInv, ContextKept, IsTerminal, Terminal
<1>10. p \in aborted' => told'[p] = "error"
  BY DEF EndInv, EndKept
<1>11. context'[p] = "succeeded" =>
         told'[p] = "ok" \/ \E t \in DriversOf(p) : Place(t)' \in {"finish", "conclude"}
  BY <1>1, <1>2 DEF EndInv, ContextKept
<1>12. \A t \in DriversOf(p) : /\ Place(t)' \in {"remove", "fail", "abort"} => Doomed(p)'
                               /\ Place(t)' = "abort" => context'[p] \in Stopped
  BY <1>2, <1>3 DEF EndInv, ContextKept, IsTerminal, Terminal
<1>13. /\ Place(Watch(p))' = "stop" => Cancelled(p)'
       /\ Place(Watch(p))' \notin {"conclude", "fail", "abort"}
  BY <1>2 DEF EndInv, Cancelled, ContextKept, IsTerminal, Terminal, Stopped
<1> HIDE DEF Doomed, Fresh, Unborn
<1> QED
  BY <1>4, <1>5, <1>6, <1>7, <1>8, <1>9, <1>10, <1>11, <1>12, <1>13 DEF EndInv

LEMMA PlanStays ==
  ASSUME PlanTypeOK, NEW p \in Plans, Sound(p), EndKept(p), TableKept(p), ContextKept(p),
         ThreadsKept(p),
         \A n \in Kids(p) : /\ TaskInv(n)' /\ LostKept(n) /\ (Started(n)' <=> Started(n))
                            /\ Answered(n) => Answered(n)'
  PROVE  Sound(p)'
<1>1. \A t \in DriversOf(p) : Knows(t, p)'
  <2> SUFFICES ASSUME NEW t \in DriversOf(p) PROVE Knows(t, p)'
    OBVIOUS
  <2>1. CASE threads'[t] = threads[t]
    BY <2>1, KnowsStays DEF Sound, TableKept
  <2>2. CASE Called(t)
    <3>1. t \notin RunThreads
      BY <2>2, CallLemma DEF Called, CallThreads
    <3> QED
      BY <2>2, <3>1, IdleKnows DEF Called
  <2> QED
    BY <2>1, <2>2 DEF ThreadsKept, EndersOf
<1>2. Alone(p)'
  BY SameThreads DEF Sound, Alone, TableKept
<1>3. EndInv(p)'
  BY EndStays DEF Sound
<1>4. HeardInv(p)'
  <2>1. /\ batch'[p] = batch[p] /\ batch[p] \in Nat /\ batch[p] <= Len(Batches[p])
        /\ seen'[p] = seen[p]
    BY DEF TableKept, PlanTypeOK
  <2> QED
    BY <2>1, HeardStays DEF Sound
<1> QED
  BY <1>1, <1>2, <1>3, <1>4 DEF Sound

LEMMA SoundStays ==
  ASSUME PlanTypeOK, NEW p \in Plans, Sound(p), EndKept(p), TableKept(p), ContextKept(p),
         ThreadsKept(p), TasksKept(p), NotForked(p)
  PROVE  Sound(p)'
<1>1. \A n \in Kids(p) : TaskInv(n)'
  BY TaskStays DEF Sound, TasksKept, NotForked, TableKept
<1>2. \A n \in Kids(p) : LostKept(n)
  BY KeptIsLostKept
<1> QED
  BY <1>1, <1>2, PlanStays DEF TasksKept, TaskKept

-----------------------------------------------------------------------------
(* Steps of a driver that concern its own plan only *)

Entered(t) == Place(t) \notin {"none", "start", "refused"}

LocalStep(t) ==
  /\ \A u \in Threads \ {t} : threads'[u] = threads[u]
  /\ Entered(t) /\ Entered(t)'
  /\ Place(t)' \in {"check", "collect"} => Place(t) \in {"check", "collect"}
  /\ Place(t)' \in Untaken => Place(t) \in Untaken
  /\ UNCHANGED <<task, event, told, aborted>>
  /\ \A q \in Plans \ {PlanOf(t)} : TableKept(q) /\ (q \in plans' <=> q \in plans)

\* The same without its tasks, which the step may start.
OwnStep(t) ==
  /\ \A u \in EndersOf(PlanOf(t)) \ {t} : threads'[u] = threads[u]
  /\ Entered(t) /\ Entered(t)'
  /\ UNCHANGED <<told, aborted>>

LEMMA LocalIsOwn ==
  ASSUME NEW t \in Drivers, LocalStep(t)
  PROVE  OwnStep(t)
<1>1. \A u \in EndersOf(PlanOf(t)) : u \in Threads
  BY DriverLemma, WatchLemma DEF EndersOf, DriversOf
<1> QED
  BY <1>1 DEF LocalStep, OwnStep

LEMMA LocalTasks ==
  ASSUME NEW t \in Drivers, LocalStep(t)
  PROVE  \A n \in Contexts \ {Root} : TaskKept(n)
<1> SUFFICES ASSUME NEW n \in Contexts \ {Root} PROVE TaskKept(n)
  OBVIOUS
<1>1. UNCHANGED <<task, event, told>>
  BY DEF LocalStep
<1>2. Answered(n)' <=> Answered(n)
  BY <1>1 DEF Answered
<1>3. CallKept(n)
  <2>1. Call(n) \in Threads
    BY CallLemma, DriverLemma
  <2>2. CASE Call(n) = t
    BY <2>2 DEF LocalStep, CallKept, Entered
  <2>3. CASE Call(n) # t
    BY <2>1, <2>3 DEF LocalStep, CallKept, Place
  <2> QED
    BY <2>2, <2>3
<1>4. ASSUME n \in Plans
      PROVE  /\ Place(Run(n))' = "none" <=> Place(Run(n)) = "none"
             /\ Place(Run(n)) = "refused" => Place(Run(n))' = "refused"
  <2>1. Run(n) \in Threads
    BY <1>4, RunLemma, DriverLemma
  <2>2. CASE Run(n) = t
    BY <2>2 DEF LocalStep, Entered
  <2>3. CASE Run(n) # t
    BY <2>1, <2>3 DEF LocalStep, Place
  <2> QED
    BY <2>2, <2>3
<1>5. (Started(n)' <=> Started(n)) /\ (Ended(n)' <=> Ended(n))
  BY <1>1, <1>4 DEF Started, Ended
<1> QED
  BY <1>1, <1>2, <1>3, <1>4, <1>5 DEF TaskKept

LEMMA LocalOthers ==
  ASSUME PlanTypeOK, AnswersInv, NEW t \in Drivers, LocalStep(t), Evolves,
         NEW q \in Plans, q # PlanOf(t), NotForked(q),
         context'[q] = "succeeded" => context[q] = "succeeded"
  PROVE  Sound(q)'
<1>1. TableKept(q) /\ (q \in plans' <=> q \in plans) /\ UNCHANGED <<event, told, aborted>>
  BY DEF LocalStep
<1>2. \A n \in Contexts \ {Root} : TaskKept(n)
  BY LocalTasks
<1>3. TasksKept(q)
  BY <1>2 DEF TasksKept, Kids
<1>a. \A u \in EndersOf(q) : threads'[u] = threads[u]
  <2>1. ASSUME NEW u \in EndersOf(q) PROVE u \in Threads \ {t}
    BY DriverLemma, WatchLemma DEF EndersOf, DriversOf
  <2> QED
    BY <2>1 DEF LocalStep
<1>4. ThreadsKept(q)
  BY <1>a DEF ThreadsKept
<1>5. ContextKept(q)
  BY NodesAssumption DEF Evolves, ContextKept
<1>6. EndKept(q)
  <2>1. Run(q) \in EndersOf(q)
    BY RunLemma DEF EndersOf
  <2>2. Place(Run(q))' = Place(Run(q))
    BY <1>a, <2>1 DEF Place
  <2>3. q # Root => (Place(Call(q)) = "none" => Place(Call(q))' = "none")
    BY <1>2, NodesAssumption DEF TaskKept, CallKept
  <2> QED
    BY <1>1, <2>2, <2>3 DEF EndKept, Fresh
<1> QED
  BY <1>1, <1>3, <1>4, <1>5, <1>6, SoundStays DEF AnswersInv

\* Whoever is past the start drives a plan that was let in.
LEMMA EnteredLemma ==
  ASSUME NEW p \in Plans, Sound(p), NEW t \in DriversOf(p), Entered(t)
  PROVE  ~Fresh(p)
<1>1. t \in Drivers /\ PlanOf(t) = p
  BY DEF DriversOf
<1>2. CASE t = Run(p)
  BY <1>2 DEF Entered, Fresh
<1>3. CASE \E n \in Kids(p) : t = Call(n)
  <2>1. PICK n \in Kids(p) : t = Call(n)
    BY <1>3
  <2>2. Parent[n] = p /\ Started(n)
    BY <2>1 DEF Sound, TaskInv, Entered, Kids
  <2>3. n \in Now(p) \cup Past(p)
    BY <2>2 DEF Sound, TaskInv
  <2>4. batch[p] # 0
    <3>1. ASSUME batch[p] = 0 PROVE Cur(p) = <<>> /\ 1..(batch[p] - 1) = {}
      BY <3>1 DEF Cur
    <3>2. ASSUME batch[p] = 0 PROVE Now(p) = {} /\ Past(p) = {}
      BY <3>1, <3>2 DEF Now, Past, Elems
    <3> QED
      BY <2>3, <3>2
  <2> QED
    BY <2>4 DEF Sound, EndInv, Unborn
<1> QED
  BY <1>1, <1>2, <1>3, DriverLemma

\* A step of t in its own plan p, told by what becomes of its parts.
LEMMA LeadSound ==
  ASSUME NEW p \in Plans, Sound(p), NEW t \in DriversOf(p), OwnStep(t), Evolves,
         \A n \in Kids(p) : TaskInv(n)',
         \A u \in DriversOf(p) : Knows(u, p)',
         HeardInv(p)',
         Leads(t)' => \A u \in DriversOf(p) \ {t} : ~Leads(u),
         \/ (p \in plans' <=> p \in plans) /\ (Ending(t)' <=> Ending(t))
         \/ p \in plans /\ p \notin plans' /\ Ending(t)',
         order'[p] # <<>> => order'[p] = Cur(p)',
         Doomed(p) => Doomed(p)',
         Place(t)' \in {"remove", "fail", "abort"} => Doomed(p)',
         Place(t)' = "abort" => context'[p] \in Stopped,
         told[p] = "ok" => order'[p] = <<>> /\ AllStarted(p)' /\ ~Moving(t)',
         context'[p] = "succeeded" =>
           context[p] = "succeeded" \/ Place(t)' \in {"finish", "conclude"},
         context[p] = "succeeded" /\ Place(t) \in {"finish", "conclude"}
           => Place(t)' \in {"finish", "conclude"}
  PROVE  Sound(p)'
<1>1. /\ t \in Drivers /\ PlanOf(t) = p /\ t \in EndersOf(p) /\ p \in Contexts
      /\ told' = told /\ aborted' = aborted
  BY NodesAssumption DEF DriversOf, EndersOf, OwnStep
<1>2. \A u \in EndersOf(p) \ {t} : threads'[u] = threads[u]
  BY <1>1 DEF OwnStep
<1>3. \A u \in EndersOf(p) \ {t} :
        /\ Place(u)' = Place(u) /\ (Ending(u)' <=> Ending(u))
        /\ (Leads(u)' <=> Leads(u)) /\ (Moving(u)' <=> Moving(u))
  BY <1>2, SameThread
<1>4. DriversOf(p) \subseteq EndersOf(p) /\ Watch(p) \in EndersOf(p) /\ Watch(p) # t
  BY <1>1, DriverLemma DEF EndersOf
<1>5. Alone(p)'
  BY <1>3, <1>4 DEF Sound, Alone
<1>6. ~Fresh(p) /\ ~Fresh(p)'
  <2>1. ~Fresh(p)
    BY EnteredLemma DEF OwnStep
  <2>2. CASE t = Run(p)
    BY <2>2 DEF OwnStep, Entered, Fresh
  <2>3. CASE t # Run(p)
    <3>1. Run(p) \in EndersOf(p)
      BY RunLemma, <1>4
    <3> QED
      BY <1>3, <2>1, <2>3, <3>1 DEF Fresh
  <2> QED
    BY <2>1, <2>2, <2>3
<1>7. context'[p] \notin {"none", "created"}
  BY <1>1, <1>6 DEF Sound, EndInv, Evolves
<1>8. /\ p \in plans' => told'[p] = "nothing" /\ \A u \in EndersOf(p) : ~Ending(u)'
      /\ \A u \in EndersOf(p) : Ending(u)' => told'[p] = "nothing"
      /\ \A u, v \in EndersOf(p) : Ending(u)' /\ Ending(v)' => u = v
      /\ p \notin plans' => told'[p] # "nothing" \/ \E u \in EndersOf(p) : Ending(u)'
  <2>0. EndInv(p)
    BY DEF Sound
  <2>1. CASE (p \in plans' <=> p \in plans) /\ (Ending(t)' <=> Ending(t))
    <3>1. \A u \in EndersOf(p) : Ending(u)' <=> Ending(u)
      BY <1>3, <2>1
    <3> QED
      BY <1>1, <1>6, <2>0, <2>1, <3>1 DEF EndInv
  <2>2. CASE p \in plans /\ p \notin plans' /\ Ending(t)'
    <3>1. \A u \in EndersOf(p) \ {t} : ~Ending(u)'
      BY <1>3, <2>0, <2>2 DEF EndInv
    <3>2. told[p] = "nothing"
      BY <2>0, <2>2 DEF EndInv
    <3> QED
      BY <1>1, <2>2, <3>1, <3>2
  <2> QED
    BY <2>1, <2>2
<1>9. told'[p] = "ok" =>
       /\ context'[p] = "succeeded" /\ order'[p] = <<>> /\ AllStarted(p)'
       /\ \A u \in DriversOf(p) : ~Moving(u)'
  BY <1>1, <1>3, <1>4 DEF Sound, EndInv, Evolves, IsTerminal, Terminal
<1>10. told'[p] = "error" => context'[p] \in Stopped /\ Doomed(p)'
  BY <1>1 DEF Sound, EndInv, Evolves, IsTerminal, Terminal
<1>11. p \in aborted' => told'[p] = "error"
  BY <1>1 DEF Sound, EndInv
<1>12. context'[p] = "succeeded" =>
         told'[p] = "ok" \/ \E u \in DriversOf(p) : Place(u)' \in {"finish", "conclude"}
  BY <1>1, <1>3, <1>4 DEF Sound, EndInv
<1>13. \A u \in DriversOf(p) : Place(u)' \in {"remove", "fail", "abort"} => Doomed(p)'
  BY <1>3, <1>4 DEF Sound, EndInv
<1>14. \A u \in DriversOf(p) : Place(u)' = "abort" => context'[p] \in Stopped
  BY <1>1, <1>3, <1>4 DEF Sound, EndInv, Evolves, IsTerminal, Terminal
<1>15. /\ Place(Watch(p))' = "stop" => Cancelled(p)'
       /\ Place(Watch(p))' \notin {"conclude", "fail", "abort"}
  BY <1>1, <1>3, <1>4 DEF Sound, EndInv, Evolves, IsTerminal, Terminal, Cancelled, Stopped
<1>16. EndInv(p)'
  BY <1>6, <1>7, <1>8, <1>9, <1>10, <1>11, <1>12, <1>13, <1>14, <1>15 DEF EndInv
<1> QED
  BY <1>5, <1>16 DEF Sound

\* Before it is finished the plan has not succeeded.
LEMMA NotSucceeded ==
  ASSUME PlanTypeOK, NEW p \in Plans, Sound(p),
         \/ order[p] # <<>>
         \/ \E t \in DriversOf(p) : Leads(t) /\ Place(t) \notin {"finish", "conclude"}
  PROVE  context[p] # "succeeded"
<1> SUFFICES ASSUME context[p] = "succeeded" PROVE FALSE
  OBVIOUS
<1>1. \A t \in DriversOf(p) : /\ Moving(t) => order[p] = <<>>
                              /\ Starts(t) => order[p] # <<>>
  BY ToStartKids DEF Sound, Knows
<1>2. told[p] = "ok" \/ \E t \in DriversOf(p) : Place(t) \in {"finish", "conclude"}
  BY DEF Sound, EndInv
<1>3. CASE told[p] = "ok"
  <2>1. order[p] = <<>> /\ \A t \in DriversOf(p) : ~Moving(t)
    BY <1>3 DEF Sound, EndInv
  <2> QED
    BY <1>1, <2>1 DEF Leads
<1>4. CASE \E t \in DriversOf(p) : Place(t) \in {"finish", "conclude"}
  <2>1. PICK t \in DriversOf(p) : Place(t) \in {"finish", "conclude"}
    BY <1>4
  <2>2. Moving(t) /\ Leads(t)
    BY <2>1 DEF Moving, Leads
  <2> QED
    BY <1>1, <2>1, <2>2 DEF Sound, Alone
<1> QED
  BY <1>2, <1>3, <1>4

\* A task that has answered and is not yet heard of is one of those pending.
LEMMA Expected ==
  ASSUME NEW p \in Plans, Sound(p), NEW n \in Kids(p), Place(Call(n)) \in Untaken,
         Started(n)
  PROVE  n \in Elems(order[p]) /\ n \notin responses[p] /\ order[p] # <<>>
<1>1. Parent[n] = p /\ TaskInv(n) /\ ~Settled(n)
  BY DEF Sound, Kids, Settled
<1>2. n \in Elems(order[p]) /\ n \notin responses[p]
  BY <1>1 DEF TaskInv
<1> QED
  BY <1>2 DEF Elems

LEMMA LostIsDoom ==
  ASSUME PlanTypeOK, NEW p \in Plans, Sound(p), NEW n \in Kids(p), n \in Elems(order[p]), Lost(n)
  PROVE  Doomed(p)
<1>1. order[p] # <<>>
  BY DEF Elems
<1>2. \A t \in DriversOf(p) : ~Moving(t)
  BY <1>1 DEF Sound, Knows
<1>3. context[p] # "succeeded"
  BY <1>1, NotSucceeded
<1> QED
  BY <1>2, <1>3 DEF Doomed

\* Only a plan that was cancelled is taken from the one who leads it.
LEMMA Removed ==
  ASSUME PlanTypeOK, NEW p \in Plans, Sound(p), NEW t \in DriversOf(p),
         p \notin plans, Moving(t), Place(t) # "conclude"
  PROVE  Cancelled(p)
<1>1. EndInv(p)
  BY DEF Sound
<1>2. ~Fresh(p)
  BY EnteredLemma DEF Entered, Moving
<1>3. Doomed(p) => Cancelled(p)
  BY DEF Doomed
<1>4. CASE told[p] # "nothing"
  <2>1. told[p] # "ok"
    BY <1>1 DEF EndInv
  <2>2. told[p] = "error"
    BY <1>4, <2>1 DEF PlanTypeOK
  <2> QED
    BY <1>1, <1>3, <2>2 DEF EndInv
<1>5. CASE told[p] = "nothing"
  <2>1. PICK u \in EndersOf(p) : Ending(u)
    BY <1>1, <1>2, <1>5 DEF EndInv
  <2>2. CASE u = Watch(p) /\ Place(u) = "stop"
    BY <1>1, <2>2 DEF EndInv
  <2>3. CASE u \in DriversOf(p) /\ Place(u) \in {"fail", "abort"}
    BY <1>1, <1>3, <2>3 DEF EndInv
  <2>4. CASE u \in DriversOf(p) /\ Place(u) = "conclude"
    <3>1. u = t
      BY <2>4 DEF Sound, Alone, Leads, Moving
    <3> QED
      BY <2>4, <3>1
  <2>5. u = Watch(p) => Place(u) = "stop"
    BY <1>1, <2>1 DEF EndInv, Ending
  <2>6. u \in DriversOf(p) => Place(u) # "stop"
    BY DEF Sound, Knows
  <2> QED
    BY <2>1, <2>2, <2>3, <2>4, <2>5, <2>6 DEF Ending, EndersOf
<1> QED
  BY <1>4, <1>5

\* Whoever leads the plan and gives it up leaves nobody to go on,
LEMMA LeaderGivesUp ==
  ASSUME PlanTypeOK, NEW p \in Plans, Sound(p), NEW t \in DriversOf(p), LocalStep(t), Evolves,
         order'[p] = order[p], context'[p] = "succeeded" => context[p] = "succeeded",
         ~Moving(t)',
         Moving(t) /\ Place(t) \notin {"finish", "conclude"}
  PROVE  Doomed(p)'
<1>1. order[p] = <<>> /\ Leads(t)
  BY DEF Sound, Knows, Leads
<1>2. context[p] # "succeeded"
  BY <1>1, NotSucceeded
<1>3. ASSUME NEW u \in DriversOf(p) \ {t} PROVE ~Moving(u)'
  <2>1. ~Moving(u)
    BY <1>1 DEF Sound, Alone, Leads
  <2>2. threads'[u] = threads[u]
    BY DriverLemma DEF LocalStep, DriversOf
  <2> QED
    BY <2>1, <2>2, SameThread
<1> QED
  BY <1>1, <1>2, <1>3 DEF Doomed

\* and whoever had tasks to start leaves one that nobody starts.
LEMMA StarterGivesUp ==
  ASSUME PlanTypeOK, NEW p \in Plans, Sound(p), NEW t \in DriversOf(p), LocalStep(t), Evolves,
         TableKept(p), context'[p] = "succeeded" => context[p] = "succeeded",
         Starts(t), ~Moving(t)', ToStart(t, p)' = {}
  PROVE  Doomed(p)'
<1>1. PICK n \in ToStart(t, p) : TRUE
  BY ToStartKids DEF Sound
<1>2. Knows(t, p) /\ n \in Kids(p) /\ ~Started(n) /\ n \in Now(p) /\ order[p] = Cur(p)
  BY <1>1, ToStartKids DEF Sound, Knows
<1>3. context[p] # "succeeded" /\ n \in Elems(order[p])
  <2>1. Leads(t) /\ Place(t) \notin {"finish", "conclude"}
    BY DEF Starts, Leads
  <2> QED
    BY <1>2, <2>1, NotSucceeded DEF Now
<1>4. n \notin responses[p]
  <2>1. TaskInv(n) /\ Parent[n] = p
    BY <1>2 DEF Sound, Kids
  <2>2. Place(Call(n)) = "none"
    BY <1>2, <2>1 DEF TaskInv
  <2>3. ~Settled(n)
    BY <2>2 DEF Settled, Untaken
  <2> QED
    BY <2>1, <2>3 DEF TaskInv
<1>5. ASSUME NEW u \in DriversOf(p) PROVE ~Moving(u)' /\ n \notin ToStart(u, p)'
  <2>1. CASE u = t
    BY <2>1
  <2>2. CASE u # t
    <3>1. ~Leads(u)
      BY <2>2 DEF Sound, Alone, Leads
    <3>2. ~Moving(u) /\ ToStart(u, p) = {}
      BY <3>1, ToStartKids DEF Leads, Sound
    <3>3. threads'[u] = threads[u]
      BY <2>2, DriverLemma DEF LocalStep, DriversOf
    <3> QED
      BY <3>2, <3>3, SameThread DEF TableKept
  <2> QED
    BY <2>1, <2>2
<1>6. Lost(n)'
  <2>1. TaskKept(n) /\ Parent[n] = p
    BY <1>2, LocalTasks DEF Kids, DriversOf
  <2>2. ~Started(n)' /\ n \notin responses'[p]
    BY <1>2, <1>4, <2>1 DEF TaskKept, TableKept
  <2> QED
    BY <1>5, <2>1, <2>2 DEF Lost
<1>7. n \in Elems(order[p])'
  BY <1>3 DEF TableKept, Elems
<1> QED
  BY <1>2, <1>3, <1>5, <1>6, <1>7 DEF Doomed

\* A driver goes on to another place, and the plan is as it was.
LEMMA WalkSound ==
  ASSUME PlanTypeOK, NEW p \in Plans, Sound(p), NEW t \in DriversOf(p), LocalStep(t), Evolves,
         TableKept(p), p \in plans' <=> p \in plans,
         ~Ending(t), ~Ending(t)', Knows(t, p)',
         Moving(t)' => Moving(t), Starts(t)' => Leads(t), ToStart(t, p)' \subseteq ToStart(t, p),
         Place(t)' = "remove" => Doomed(p) \/ Doomed(p)',
         \A n \in Kids(p) : context'[n] # "none" => context[n] # "none" \/ n \in Now(p),
         context'[p] = "succeeded" =>
           context[p] = "succeeded" \/ (Place(t)' = "finish" /\ ~Doomed(p)),
         ~(context[p] = "succeeded" /\ Place(t) = "finish")
  PROVE  Sound(p)'
<1>1. t \in Drivers /\ PlanOf(t) = p /\ p \in Contexts
  BY NodesAssumption DEF DriversOf
<1>2. TasksKept(p)
  BY <1>1, LocalTasks DEF TasksKept, Kids
<1>3. \A n \in Kids(p) : TaskInv(n)'
  BY <1>2, TaskStays DEF TasksKept, Sound, TableKept
<1>4. \A u \in DriversOf(p) \ {t} : threads'[u] = threads[u]
  BY DriverLemma DEF LocalStep, DriversOf
<1>5. \A u \in DriversOf(p) : Knows(u, p)'
  BY <1>2, <1>4, KnowsStays DEF TasksKept, TaskKept, Sound, TableKept
<1>6. HeardInv(p)'
  <2>1. /\ batch'[p] = batch[p] /\ batch[p] \in Nat /\ batch[p] <= Len(Batches[p])
        /\ seen'[p] = seen[p]
    BY DEF TableKept, PlanTypeOK
  <2> QED
    BY <1>2, <2>1, HeardStays DEF Sound, TasksKept, TaskKept
<1>7. Leads(t)' => \A u \in DriversOf(p) \ {t} : ~Leads(u)
  <2>1. Leads(t)' => Leads(t)
    BY DEF Leads
  <2> QED
    BY <2>1 DEF Sound, Alone
<1>8. NoLeader(p)
  <2>1. \A u \in DriversOf(p) \ {t} : (Moving(u)' <=> Moving(u)) /\ ToStart(u, p)' = ToStart(u, p)
    BY <1>4, SameThread DEF TableKept
  <2> QED
    BY <2>1 DEF NoLeader
<1>9. Doomed(p) => Doomed(p)'
  <2>1. Doomed(p) => ContextKept(p)
    BY <1>1 DEF Evolves, ContextKept
  <2> QED
    BY <1>2, <1>8, <2>1, DoomedStays, KeptIsLostKept DEF TableKept
<1>10. order'[p] # <<>> => order'[p] = Cur(p)'
  BY CurKept DEF TableKept, Sound, EndInv
<1>11. told[p] = "ok" => order'[p] = <<>> /\ AllStarted(p)' /\ ~Moving(t)'
  <2>1. ASSUME told[p] = "ok" PROVE order[p] = <<>> /\ AllStarted(p) /\ ~Moving(t)
    BY <2>1 DEF Sound, EndInv
  <2> QED
    BY <1>2, <2>1, AllStartedStays DEF TableKept, TasksKept, TaskKept
<1>12. Place(t) # "conclude" /\ Place(t)' \notin {"conclude", "fail", "abort"}
  BY DEF Ending
<1>13. OwnStep(t)
  BY <1>1, LocalIsOwn
<1> HIDE DEF LocalStep, Evolves
<1> QED
  BY <1>3, <1>5, <1>6, <1>7, <1>9, <1>10, <1>11, <1>12, <1>13, LeadSound

-----------------------------------------------------------------------------
(* The drivers, one action after the other *)

StateKept == UNCHANGED <<plans, order, responses, batch, seen, task, event, told, aborted>>

\* t goes to place, and tasks of its own batch are forked at most.
Walks(t, p, place) ==
  /\ \A u \in Threads \ {t} : threads'[u] = threads[u]
  /\ Place(t)' = place
  /\ \A q \in Plans : context'[q] = "succeeded" => context[q] = "succeeded" \/ q = p
  /\ \A n \in Contexts \ {Root} : context'[n] # "none" => context[n] # "none" \/ n \in Now(p)

LEMMA LocalSound ==
  ASSUME PlanTypeOK, AnswersInv, Evolves, NEW p \in Plans, NEW t \in DriversOf(p), NEW place,
         LocalStep(t), Walks(t, p, place), Sound(p)'
  PROVE  AnswersInv'
<1>1. t \in Drivers /\ PlanOf(t) = p
  BY DEF DriversOf
<1>2. ASSUME NEW q \in Plans \ {p} PROVE Sound(q)'
  <2>1. NotForked(q)
    BY CurLemma DEF NotForked, Walks, Kids
  <2> QED
    BY <1>1, <2>1, LocalOthers DEF Walks
<1> QED
  BY <1>2 DEF AnswersInv

LEMMA WalkStep ==
  ASSUME PlanTypeOK, AnswersInv, Evolves, NEW p \in Plans, NEW t \in DriversOf(p), NEW place,
         Walks(t, p, place), StateKept, Knows(t, p)',
         Entered(t), ~Ending(t),
         place \in {"asking", "next", "forking", "advance", "fork", "spawn", "finish", "remove",
                    "done"} \/ (place = "collect" /\ Place(t) = "check"),
         Moving(t)' => Moving(t), Starts(t)' => Leads(t), ToStart(t, p)' \subseteq ToStart(t, p),
         place = "remove" /\ LocalStep(t) => Doomed(p) \/ Doomed(p)',
         context'[p] = "succeeded" =>
           context[p] = "succeeded" \/ (place = "finish" /\ ~Doomed(p)),
         ~(context[p] = "succeeded" /\ Place(t) = "finish")
  PROVE  AnswersInv'
<1>1. \A q \in Plans : TableKept(q) /\ (q \in plans' <=> q \in plans)
  BY DEF StateKept, TableKept
<1>2. LocalStep(t)
  BY <1>1 DEF Walks, StateKept, LocalStep, Entered, Untaken
<1>3. ~Ending(t)'
  BY DEF Walks, Ending
<1>4. \A n \in Kids(p) : context'[n] # "none" => context[n] # "none" \/ n \in Now(p)
  BY DEF Walks, Kids
<1>5. Sound(p)'
  BY <1>1, <1>2, <1>3, <1>4, WalkSound DEF Walks, AnswersInv
<1> QED
  BY <1>2, <1>5, LocalSound

LEMMA Went ==
  ASSUME PlanTypeOK, NEW p \in Plans, NEW t \in DriversOf(p), NEW place,
         UNCHANGED context \/ (NoBirth /\ NoSuccess)
  PROVE  /\ Goes(t, place) => Walks(t, p, place) /\ Tasks(t)' = Tasks(t)
         /\ \A rest : GoesWith(t, place, rest) => Walks(t, p, place) /\ Tasks(t)' = rest
<1>1. t \in Threads
  BY DriverLemma DEF DriversOf
<1>2. /\ \A q \in Plans : context'[q] = "succeeded" => context[q] = "succeeded" \/ q = p
      /\ \A n \in Contexts \ {Root} : context'[n] # "none" => context[n] # "none" \/ n \in Now(p)
  BY DEF NoBirth, NoSuccess
<1>3. Goes(t, place) => Walks(t, p, place) /\ Tasks(t)' = Tasks(t)
  BY <1>1, <1>2 DEF Goes, Walks, Place, Tasks, PlanTypeOK
<1>4. ASSUME NEW rest, GoesWith(t, place, rest) PROVE Walks(t, p, place) /\ Tasks(t)' = rest
  BY <1>1, <1>2, <1>4 DEF GoesWith, Walks, Place, Tasks, PlanTypeOK
<1> QED
  BY <1>3, <1>4

LEMMA StartedSame ==
  ASSUME NEW p \in Plans, NEW t \in DriversOf(p), NEW place, Walks(t, p, place),
         place # "none", Entered(t), task' = task, batch'[p] = batch[p]
  PROVE  /\ \A n \in Contexts \ {Root} : Started(n)' <=> Started(n)
         /\ AllStarted(p) => AllStarted(p)'
         /\ NoneStarted(p) => NoneStarted(p)'
<1>1. ASSUME NEW n \in Contexts \ {Root} PROVE Started(n)' <=> Started(n)
  <2>1. CASE n \in Plans
    <3>1. CASE Run(n) = t
      BY <2>1, <3>1 DEF Started, Walks, Entered
    <3>2. CASE Run(n) # t
      <4>1. Run(n) \in Threads \ {t}
        BY <2>1, <3>2, RunLemma, DriverLemma
      <4> QED
        BY <2>1, <4>1 DEF Started, Walks, Place
    <3> QED
      BY <3>1, <3>2
  <2>2. CASE n \notin Plans
    BY <2>2 DEF Started
  <2> QED
    BY <2>1, <2>2
<1>2. Now(p)' = Now(p)
  BY CurKept
<1> QED
  BY <1>1, <1>2 DEF AllStarted, NoneStarted, Kids

LEMMA LockSound ==
  ASSUME PlanTypeOK, AnswersInv, Evolves, NEW t \in Drivers, Lock(t)
  PROVE  AnswersInv'
<1> DEFINE p == PlanOf(t)
<1>1. /\ p \in Plans /\ t \in DriversOf(p) /\ t \in Threads /\ Sound(p) /\ Knows(t, p)
  BY DriverLemma DEF AnswersInv, Sound
<1>2. /\ Place(t) = "lock" /\ StateKept /\ UNCHANGED context
      /\ IF t \in RunThreads THEN Goes(t, "asking") ELSE Goes(t, "next")
  BY DEF Lock, At, Place, StateKept, tree_vars, task_vars, end_vars
<1>3. PICK place \in {"asking", "next"} :
        place = (IF t \in RunThreads THEN "asking" ELSE "next") /\ Goes(t, place)
  BY <1>2
<1> HIDE DEF p
<1>4. Walks(t, p, place) /\ Tasks(t)' = Tasks(t) /\ Place(t)' = place
  BY <1>1, <1>2, <1>3, Went DEF Walks
<1>5. /\ Tasks(t) = Cur(p) /\ (t \notin RunThreads => Tasks(t) # <<>>)
      /\ AllStarted(p) /\ order[p] = <<>>
  BY <1>1, <1>2 DEF Knows, Moving
<1>6. Listening(Tasks(t), p)'
  BY <1>1, <1>2, <1>4, <1>5, WholeBatch, BatchSame DEF StateKept
<1>7. AllStarted(p)'
  BY <1>1, <1>2, <1>4, <1>5, StartedSame DEF Entered, StateKept
<1>8. Knows(t, p)' /\ ~Starts(t)' /\ ToStart(t, p)' = {} /\ Moving(t)
  BY <1>2, <1>3, <1>4, <1>5, <1>6, <1>7 DEF Knows, Moving, Starts, ToStart, StateKept
<1> QED
  BY <1>1, <1>2, <1>4, <1>8, WalkStep DEF Entered, Ending

\* Steps at which a driver gives its plan up because it was cancelled.
LEMMA GiveUp ==
  ASSUME PlanTypeOK, AnswersInv, Evolves, NEW t \in Drivers, NEW p \in Plans, p = PlanOf(t),
         Cancelled(p), Entered(t), ~Ending(t), StateKept, UNCHANGED context,
         GoesWith(t, "remove", <<>>)
  PROVE  AnswersInv'
<1>1. t \in DriversOf(p) /\ Walks(t, p, "remove") /\ Place(t)' = "remove"
  BY DriverLemma, Went DEF Walks
<1>2. Doomed(p) /\ context[p] # "succeeded"
  BY DEF Doomed, Cancelled
<1> QED
  BY <1>1, <1>2, IdleKnows, WalkStep

LEMMA InterruptedSound ==
  ASSUME PlanTypeOK, AnswersInv, Evolves, NEW t \in Drivers, Interrupted(t) \/ Aborts(t)
  PROVE  AnswersInv'
<1>1. PICK p \in Plans : p = PlanOf(t)
  BY DriverLemma
<1>2. /\ Cancelled(p) /\ Entered(t) /\ ~Ending(t) /\ StateKept /\ UNCHANGED context
      /\ GoesWith(t, "remove", <<>>)
  BY <1>1 DEF Interrupted, Aborts, Entered, Ending, Place, StateKept, tree_vars, task_vars,
              end_vars, table_vars
<1> QED
  BY <1>1, <1>2, GiveUp

LEMMA AskNothingSound ==
  ASSUME PlanTypeOK, AnswersInv, Evolves, NEW t \in Drivers, AskNothing(t)
  PROVE  AnswersInv'
<1> DEFINE p == PlanOf(t)
<1>1. /\ p \in Plans /\ t \in DriversOf(p) /\ t \in Threads /\ Sound(p) /\ Knows(t, p)
  BY DriverLemma DEF AnswersInv, Sound
<1>2. /\ Place(t) = "asking" /\ Tasks(t) # <<>> /\ StateKept /\ UNCHANGED context
      /\ Goes(t, "next")
  BY DEF AskNothing, At, Place, StateKept, tree_vars, task_vars, end_vars, table_vars
<1> HIDE DEF p
<1>3. Walks(t, p, "next") /\ Tasks(t)' = Tasks(t) /\ Place(t)' = "next"
  BY <1>1, <1>2, Went DEF Walks
<1>4. /\ Listening(Tasks(t), p) /\ AllStarted(p) /\ order[p] = <<>>
  BY <1>1, <1>2 DEF Knows, Moving
<1>5. Listening(Tasks(t), p)'
  BY <1>1, <1>2, <1>3, <1>4, BatchSame DEF StateKept
<1>6. AllStarted(p)'
  BY <1>1, <1>2, <1>3, <1>4, StartedSame DEF Entered, StateKept
<1>7. Knows(t, p)' /\ ~Starts(t)' /\ ToStart(t, p)' = {} /\ Moving(t)
  BY <1>2, <1>3, <1>4, <1>5, <1>6 DEF Knows, Moving, Starts, ToStart, StateKept
<1> QED
  BY <1>1, <1>2, <1>3, <1>7, WalkStep DEF Entered, Ending

\* What a driver at "forking" knows there, of other tasks before it.
LEMMA ForkingKnows ==
  ASSUME PlanTypeOK, NEW p \in Plans, NEW t \in DriversOf(p), Knows(t, p), Place(t) = "forking",
         NEW s, Suffix(s, p), NEW place \in {"forking", "advance"},
         Walks(t, p, place), Tasks(t)' = s, place = "advance" => s = Cur(p), StateKept
  PROVE  Knows(t, p)' /\ ~Starts(t)' /\ ToStart(t, p)' = {} /\ Moving(t)
<1>1. Place(t)' = place /\ Place(t) = "forking" /\ Entered(t)
  BY DEF Walks, Entered
<1>2. NoneStarted(p) /\ batch[p] > 0 /\ Cur(p) # <<>> /\ order[p] = <<>>
  BY DEF Knows, Moving
<1>3. NoneStarted(p)' /\ batch'[p] > 0 /\ Cur(p)' = Cur(p) /\ order'[p] = <<>>
  BY <1>1, <1>2, StartedSame, CurKept DEF StateKept
<1>4. Suffix(Tasks(t), p)'
  BY BatchSame DEF StateKept
<1> QED
  BY <1>1, <1>3, <1>4 DEF Knows, Moving, Starts, ToStart

LEMMA ForkPlanSound ==
  ASSUME PlanTypeOK, AnswersInv, Evolves, NEW t \in Drivers, ForkPlan(t)
  PROVE  AnswersInv'
<1> DEFINE p == PlanOf(t)
<1> DEFINE n == Head(Tasks(t))
<1>1. /\ p \in Plans /\ t \in DriversOf(p) /\ t \in Threads /\ Sound(p) /\ Knows(t, p)
  BY DriverLemma DEF AnswersInv, Sound
<1>2. Place(t) = "forking" /\ Tasks(t) # <<>> /\ StateKept
  BY DEF ForkPlan, At, Place, StateKept, task_vars, end_vars
<1>3. \/ GoesWith(t, "forking", Tail(Tasks(t))) /\ UNCHANGED context
      \/ n \in Plans /\ Fork(n) /\ UNCHANGED threads
      \/ n \in Plans /\ SetState(t, n, "running") /\ GoesWith(t, "forking", Tail(Tasks(t)))
      \/ GoesWith(t, "remove", <<>>) /\ UNCHANGED context
  BY DEF ForkPlan, tree_vars
<1>4. Tasks(t) \in Seq(Contexts \ {Root}) /\ Suffix(Tasks(t), p)
  BY <1>1, <1>2, ToStartKids DEF Knows
<1>5. Suffix(Tail(Tasks(t)), p) /\ n \in Now(p) /\ n \in Contexts
  BY <1>1, <1>2, <1>4, SuffixTail DEF Kids
<1>6. Entered(t) /\ ~Ending(t) /\ Place(t) # "finish" /\ Moving(t)
  BY <1>2 DEF Entered, Ending, Moving
<1>t. TreeTypeOK /\ "running" \in States /\ Plans \subseteq Contexts
  BY NodesAssumption DEF PlanTypeOK, States
<1> HIDE DEF p, n
<1>7. ASSUME GoesWith(t, "forking", Tail(Tasks(t))), UNCHANGED context \/ (NoBirth /\ NoSuccess)
      PROVE  AnswersInv'
  <2>1. Walks(t, p, "forking") /\ Tasks(t)' = Tail(Tasks(t))
    BY <1>1, <1>7, Went
  <2>2. Knows(t, p)' /\ ~Starts(t)' /\ ToStart(t, p)' = {} /\ Moving(t)
    BY <1>1, <1>2, <1>5, <2>1, ForkingKnows
  <2>3. context'[p] = "succeeded" => context[p] = "succeeded"
    BY <1>1, <1>7 DEF NoSuccess
  <2> QED
    BY <1>1, <1>2, <1>6, <2>1, <2>2, <2>3, WalkStep
<1>8. ASSUME n \in Plans, Fork(n), UNCHANGED threads PROVE AnswersInv'
  <2>1. context' = [context EXCEPT ![n] = "created"]
    BY <1>8 DEF Fork
  <2>2. Walks(t, p, "forking") /\ Tasks(t)' = Tasks(t)
    BY <1>2, <1>5, <1>8, <2>1, <1>t DEF Walks, Place, Tasks, TreeTypeOK
  <2>3. Knows(t, p)' /\ ~Starts(t)' /\ ToStart(t, p)' = {} /\ Moving(t)
    BY <1>1, <1>2, <1>4, <2>2, ForkingKnows
  <2>4. context'[p] = "succeeded" => context[p] = "succeeded"
    BY <1>1, <1>5, <2>1, <1>t DEF TreeTypeOK
  <2> QED
    BY <1>1, <1>2, <1>6, <2>2, <2>3, <2>4, WalkStep
<1>9. ASSUME SetState(t, n, "running") PROVE NoBirth /\ NoSuccess
  <2>1. NoBirth /\ (\A d \in Contexts \ {n} : context'[d] = context[d]) /\ context'[n] = "running"
    BY <1>1, <1>5, <1>9, <1>t, SetStateEffect
  <2> QED
    BY <2>1, <1>t DEF NoSuccess
<1>10. ASSUME GoesWith(t, "remove", <<>>), UNCHANGED context PROVE AnswersInv'
  <2>1. Walks(t, p, "remove") /\ Place(t)' = "remove"
    BY <1>1, <1>10, Went DEF Walks
  <2>2. Knows(t, p)' /\ ~Moving(t)' /\ ~Starts(t)' /\ ToStart(t, p)' = {}
    BY <2>1, IdleKnows
  <2>3. LocalStep(t) => Doomed(p)'
    BY <1>1, <1>2, <1>6, <1>10, <2>2, LeaderGivesUp DEF StateKept
  <2> QED
    BY <1>1, <1>2, <1>6, <1>10, <2>1, <2>2, <2>3, WalkStep
<1> QED
  BY <1>3, <1>7, <1>8, <1>9, <1>10

LEMMA AskedTasksSound ==
  ASSUME PlanTypeOK, AnswersInv, Evolves, NEW t \in Drivers, AskedTasks(t)
  PROVE  AnswersInv'
<1> DEFINE p == PlanOf(t)
<1>1. /\ p \in Plans /\ t \in DriversOf(p) /\ t \in Threads /\ Sound(p) /\ Knows(t, p)
  BY DriverLemma DEF AnswersInv, Sound
<1>2. /\ Place(t) = "forking" /\ StateKept /\ UNCHANGED context
      /\ GoesWith(t, "advance", CurrentBatch(p))
  BY DEF AskedTasks, At, Place, StateKept, task_vars, end_vars, tree_vars
<1>3. CurrentBatch(p) = Cur(p)
  BY <1>1, <1>2 DEF Knows, Cur
<1> HIDE DEF p
<1>4. Walks(t, p, "advance") /\ Tasks(t)' = Cur(p)
  BY <1>1, <1>2, <1>3, Went
<1>5. Knows(t, p)' /\ ~Starts(t)' /\ ToStart(t, p)' = {} /\ Moving(t)
  BY <1>1, <1>2, <1>4, ForkingKnows, WholeBatch
<1>6. Entered(t) /\ ~Ending(t) /\ Place(t) # "finish"
  BY <1>2 DEF Entered, Ending
<1> QED
  BY <1>1, <1>2, <1>4, <1>5, <1>6, WalkStep

\* Whoever finishes knows that all is answered.
LEMMA FinishKnows ==
  ASSUME PlanTypeOK, NEW p \in Plans, NEW t \in DriversOf(p), Knows(t, p), Place(t) = "asking",
         Walks(t, p, "finish"), StateKept
  PROVE  Knows(t, p)' /\ ~Starts(t)' /\ ToStart(t, p)' = {} /\ Moving(t)
<1>1. Place(t)' = "finish" /\ Entered(t)
  BY DEF Walks, Entered
<1>2. AllStarted(p)' /\ order'[p] = <<>>
  BY <1>1, StartedSame DEF Knows, Moving, StateKept
<1> QED
  BY <1>1, <1>2 DEF Knows, Moving, Starts, ToStart

LEMMA CommitSound ==
  ASSUME PlanTypeOK, AnswersInv, Evolves, NEW t \in Drivers, Commit(t)
  PROVE  AnswersInv'
<1> DEFINE p == PlanOf(t)
<1>1. /\ p \in Plans /\ t \in DriversOf(p) /\ t \in Threads /\ Sound(p) /\ Knows(t, p)
  BY DriverLemma DEF AnswersInv, Sound
<1>2. /\ Place(t) = "asking" /\ StateKept /\ SetState(t, p, "succeeded") /\ Goes(t, "finish")
  BY DEF Commit, At, Place, StateKept, task_vars, end_vars
<1> HIDE DEF p
<1>3. TreeTypeOK /\ "succeeded" \in States /\ p \in Contexts
  BY <1>1, NodesAssumption DEF PlanTypeOK, States, Terminal
<1>4. /\ \A d \in Contexts \ {p} : context'[d] = context[d]
      /\ context[p] # "none" /\ NoBirth
  BY <1>1, <1>2, <1>3, SetStateEffect
<1>5. Walks(t, p, "finish")
  <2>1. \A u \in Threads \ {t} : threads'[u] = threads[u]
    BY <1>2 DEF Goes, PlanTypeOK
  <2>2. Place(t)' = "finish"
    BY <1>1, <1>2 DEF Goes, Place, PlanTypeOK
  <2> QED
    BY <1>3, <1>4, <2>1, <2>2, NodesAssumption DEF Walks, NoBirth
<1>6. Knows(t, p)' /\ ~Starts(t)' /\ ToStart(t, p)' = {} /\ Moving(t)
  BY <1>1, <1>2, <1>5, FinishKnows
<1>7. ~Doomed(p)
  <2>1. ~Cancelled(p)
    BY <1>2 DEF SetState, May, Cancelled
  <2> QED
    BY <1>1, <1>6, <2>1 DEF Doomed
<1>8. Entered(t) /\ ~Ending(t) /\ Place(t) # "finish"
  BY <1>2 DEF Entered, Ending
<1> QED
  BY <1>1, <1>2, <1>5, <1>6, <1>7, <1>8, WalkStep

LEMMA AskEndSound ==
  ASSUME PlanTypeOK, AnswersInv, Evolves, NEW t \in Drivers, AskEnd(t)
  PROVE  AnswersInv'
<1> DEFINE p == PlanOf(t)
<1>1. /\ p \in Plans /\ t \in DriversOf(p) /\ t \in Threads /\ Sound(p) /\ Knows(t, p)
  BY DriverLemma DEF AnswersInv, Sound
<1>2. /\ Place(t) = "asking" /\ StateKept /\ UNCHANGED context
      /\ GoesWith(t, "finish", <<>>) \/ GoesWith(t, "remove", <<>>)
  BY DEF AskEnd, At, Place, StateKept, task_vars, end_vars, tree_vars
<1> HIDE DEF p
<1>3. Entered(t) /\ ~Ending(t) /\ Place(t) \notin {"finish", "conclude"} /\ Moving(t)
  BY <1>2 DEF Entered, Ending, Moving
<1>4. CASE GoesWith(t, "finish", <<>>)
  <2>1. Walks(t, p, "finish")
    BY <1>1, <1>2, <1>4, Went
  <2>2. Knows(t, p)' /\ ~Starts(t)' /\ ToStart(t, p)' = {} /\ Moving(t)
    BY <1>1, <1>2, <2>1, FinishKnows
  <2> QED
    BY <1>1, <1>2, <1>3, <2>1, <2>2, WalkStep
<1>5. CASE GoesWith(t, "remove", <<>>)
  <2>1. Walks(t, p, "remove") /\ Place(t)' = "remove"
    BY <1>1, <1>2, <1>5, Went DEF Walks
  <2>2. Knows(t, p)' /\ ~Moving(t)' /\ ~Starts(t)' /\ ToStart(t, p)' = {}
    BY <2>1, IdleKnows
  <2>3. LocalStep(t) => Doomed(p)'
    BY <1>1, <1>2, <1>3, <2>2, LeaderGivesUp DEF StateKept
  <2> QED
    BY <1>1, <1>2, <1>3, <2>1, <2>2, <2>3, WalkStep
<1> QED
  BY <1>2, <1>4, <1>5

LEMMA VanishedSound ==
  ASSUME PlanTypeOK, AnswersInv, Evolves, NEW t \in Drivers, Vanished(t)
  PROVE  AnswersInv'
<1> DEFINE p == PlanOf(t)
<1>1. /\ p \in Plans /\ t \in DriversOf(p) /\ t \in Threads /\ Sound(p)
  BY DriverLemma DEF AnswersInv
<1>2. /\ Place(t) \in {"advance", "finish", "check", "remove"} /\ p \notin plans
      /\ StateKept /\ UNCHANGED context /\ GoesWith(t, "done", <<>>)
  BY DEF Vanished, Place, StateKept, task_vars, end_vars, tree_vars, table_vars
<1> HIDE DEF p
<1>3. Entered(t) /\ ~Ending(t)
  BY <1>2 DEF Entered, Ending
<1>4. Place(t) = "finish" => context[p] # "succeeded"
  BY <1>1, <1>2, Removed DEF Moving, Cancelled
<1>5. Walks(t, p, "done") /\ Place(t)' = "done"
  BY <1>1, <1>2, Went DEF Walks
<1> QED
  BY <1>1, <1>2, <1>3, <1>4, <1>5, IdleKnows, WalkStep

\* Steps at which a driver that does not lead goes on, gives up or is done.
LEMMA IdleStep ==
  ASSUME PlanTypeOK, AnswersInv, Evolves, NEW t \in Drivers, NEW p \in Plans, p = PlanOf(t),
         NEW place, Goes(t, place) \/ GoesWith(t, place, <<>>),
         StateKept, NoBirth, NoSuccess, Entered(t), ~Ending(t), Place(t) # "finish",
         \/ place \in {"remove", "done"}
         \/ place = "collect" /\ Place(t) = "check" /\ t \notin RunThreads,
         place = "remove" /\ LocalStep(t) => Doomed(p) \/ Doomed(p)'
  PROVE  AnswersInv'
<1>0. t \in DriversOf(p)
  BY DriverLemma
<1>1. Walks(t, p, place) /\ Place(t)' = place
  BY <1>0, Went DEF Walks
<1>2. Knows(t, p)' /\ ~Moving(t)' /\ ~Starts(t)' /\ ToStart(t, p)' = {}
  BY <1>1, IdleKnows
<1>3. context'[p] = "succeeded" => context[p] = "succeeded"
  BY DEF NoSuccess
<1> QED
  BY <1>0, <1>1, <1>2, <1>3, WalkStep

LEMMA CheckSound ==
  ASSUME PlanTypeOK, AnswersInv, Evolves, NEW t \in Drivers, Check(t)
  PROVE  AnswersInv'
<1>1. PICK p \in Plans : p = PlanOf(t) /\ t \in DriversOf(p)
  BY DriverLemma
<1>2. /\ Place(t) = "check" /\ StateKept /\ UNCHANGED context /\ Goes(t, "collect")
  BY <1>1 DEF Check, At, Place, StateKept, task_vars, end_vars, tree_vars, table_vars
<1>3. t \notin RunThreads
  BY <1>1, <1>2 DEF AnswersInv, Sound, Knows
<1>4. NoBirth /\ NoSuccess /\ Entered(t) /\ ~Ending(t)
  BY <1>2 DEF NoBirth, NoSuccess, Entered, Ending
<1> QED
  BY <1>1, <1>2, <1>3, <1>4, IdleStep

\* Whoever is called back is one the plan knows.
LEMMA CalledBack ==
  ASSUME PlanTypeOK, AnswersInv, NEW t \in Drivers, NEW p \in Plans, p = PlanOf(t),
         Place(t) \in {"check", "collect", "error"}
  PROVE  \E n \in Kids(p) : /\ t = Call(n) /\ t[2] = n /\ Started(n) /\ Ended(n)
                            /\ n \in Elems(order[p]) /\ n \notin responses[p] /\ order[p] # <<>>
<1>1. t \in DriversOf(p) /\ Sound(p)
  BY DriverLemma DEF AnswersInv
<1>2. t \notin RunThreads
  BY <1>1 DEF Sound, Knows
<1>3. PICK n \in Kids(p) : t = Call(n) /\ t[2] = n
  BY <1>2, DriverLemma
<1>4. Ended(n) /\ Started(n)
  BY <1>1, <1>3 DEF Sound, TaskInv
<1> QED
  BY <1>1, <1>3, <1>4, Expected DEF Untaken

LEMMA DisregardSound ==
  ASSUME PlanTypeOK, AnswersInv, Evolves, NEW t \in Drivers, Disregard(t)
  PROVE  AnswersInv'
<1>1. PICK p \in Plans : p = PlanOf(t)
  BY DriverLemma
<1>2. /\ Place(t) = "collect" /\ StateKept /\ UNCHANGED context
      /\ IsTerminal(p) \/ ~Expects(p, t[2])
      /\ GoesWith(t, IF IsTerminal(p) THEN "done" ELSE "remove", <<>>)
  BY <1>1 DEF Disregard, At, Place, StateKept, task_vars, end_vars, tree_vars, table_vars
<1>3. Expects(p, t[2])
  BY <1>1, <1>2, CalledBack DEF Expects, Elems
<1>4. GoesWith(t, "done", <<>>)
  BY <1>2, <1>3
<1>5. NoBirth /\ NoSuccess /\ Entered(t) /\ ~Ending(t)
  BY <1>2 DEF NoBirth, NoSuccess, Entered, Ending
<1> QED
  BY <1>1, <1>2, <1>4, <1>5, IdleStep

LEMMA TakeErrorSound ==
  ASSUME PlanTypeOK, AnswersInv, Evolves, NEW t \in Drivers, TakeError(t)
  PROVE  AnswersInv'
<1>1. PICK p \in Plans : p = PlanOf(t)
  BY DriverLemma
<1>2. /\ Place(t) = "error" /\ StateKept /\ UNCHANGED context
      /\ \/ GoesWith(t, "done", <<>>) \/ Goes(t, "done") \/ Goes(t, "remove")
  BY <1>1 DEF TakeError, At, Place, StateKept, task_vars, end_vars, tree_vars, table_vars
<1>3. PICK place \in {"done", "remove"} : Goes(t, place) \/ GoesWith(t, place, <<>>)
  BY <1>2
<1>4. PICK n \in Kids(p) : /\ t = Call(n) /\ n \in Elems(order[p]) /\ n \notin responses[p]
  BY <1>1, <1>2, CalledBack
<1>5. Lost(n)
  BY <1>2, <1>4 DEF Lost, Kids
<1>6. Doomed(p)
  BY <1>4, <1>5, LostIsDoom DEF AnswersInv
<1>7. NoBirth /\ NoSuccess /\ Entered(t) /\ ~Ending(t)
  BY <1>2 DEF NoBirth, NoSuccess, Entered, Ending
<1> QED
  BY <1>1, <1>2, <1>3, <1>6, <1>7, IdleStep

LEMMA ForkTaskSound ==
  ASSUME PlanTypeOK, AnswersInv, Evolves, NEW t \in Drivers, ForkTask(t)
  PROVE  AnswersInv'
<1>1. PICK p \in Plans : p = PlanOf(t) /\ t \in DriversOf(p) /\ Sound(p) /\ Knows(t, p)
  BY DriverLemma DEF AnswersInv, Sound
<1>2. PICK n : n = Head(Tasks(t))
  OBVIOUS
<1>3. /\ Place(t) = "fork" /\ Tasks(t) # <<>> /\ StateKept
  BY DEF ForkTask, At, Place, StateKept, task_vars, end_vars, table_vars
<1>4. \/ GoesWith(t, "remove", <<>>) /\ UNCHANGED context
      \/ /\ (Fork(n) /\ n # Root) \/ UNCHANGED context
         /\ \/ GoesWith(t, "spawn", CurrentBatch(p))
            \/ Len(Tasks(t)) # 1 /\ GoesWith(t, "fork", Tail(Tasks(t)))
  BY <1>1, <1>2 DEF ForkTask, tree_vars, Fork
<1>5. Tasks(t) \in Seq(Contexts \ {Root}) /\ Suffix(Tasks(t), p) /\ Starts(t) /\ Leads(t)
  BY <1>1, <1>3, ToStartKids DEF Knows, Starts, Leads
<1>6. n \in Now(p) /\ n \in Contexts /\ Suffix(Tail(Tasks(t)), p) /\ Suffix(Cur(p), p)
  BY <1>1, <1>2, <1>3, <1>5, SuffixTail, WholeBatch DEF Kids
<1>7. Entered(t) /\ ~Ending(t) /\ Place(t) # "finish"
  BY <1>3 DEF Entered, Ending
<1>8. /\ order[p] = Cur(p) /\ NoneStarted(p) /\ batch[p] > 0 /\ Cur(p) # <<>>
      /\ CurrentBatch(p) = Cur(p) /\ ToStart(t, p) = Now(p)
  BY <1>1, <1>3, <1>5 DEF Knows, Cur, ToStart
<1>9. CASE GoesWith(t, "remove", <<>>) /\ UNCHANGED context
  <2>1. Walks(t, p, "remove") /\ Place(t)' = "remove"
    BY <1>1, <1>9, Went DEF Walks
  <2>2. ~Moving(t)' /\ ToStart(t, p)' = {}
    BY <2>1, IdleKnows
  <2>3. LocalStep(t) => Doomed(p)'
    BY <1>1, <1>3, <1>5, <1>9, <2>2, StarterGivesUp DEF StateKept, TableKept
  <2>4. NoBirth /\ NoSuccess
    BY <1>9 DEF NoBirth, NoSuccess
  <2> QED
    BY <1>1, <1>3, <1>7, <1>9, <2>3, <2>4, IdleStep
<1>10. ASSUME Fork(n) \/ UNCHANGED context,
              NEW place \in {"spawn", "fork"}, NEW s \in Seq(Contexts \ {Root}), Suffix(s, p),
              GoesWith(t, place, s), place = "fork" => s # <<>>, place = "spawn" => s = Cur(p)
       PROVE  AnswersInv'
  <2>1. /\ context' = context \/ context' = [context EXCEPT ![n] = "created"]
        /\ context \in [Contexts -> States] /\ Plans \subseteq Contexts
    BY <1>10, NodesAssumption DEF Fork, PlanTypeOK, TreeTypeOK
  <2>2. /\ t \in Threads /\ \A u \in Threads \ {t} : threads'[u] = threads[u]
        /\ Place(t)' = place /\ Tasks(t)' = s
    BY <1>1, <1>10, DriverLemma DEF GoesWith, Place, Tasks, PlanTypeOK, DriversOf
  <2>3. /\ \A c \in Contexts : context'[c] # "none" => context[c] # "none" \/ c = n
        /\ \A c \in Contexts : context'[c] = "succeeded" => context[c] = "succeeded"
    BY <1>6, <2>1
  <2>4. Walks(t, p, place)
    BY <1>6, <2>1, <2>2, <2>3 DEF Walks
  <2>5. NoneStarted(p)' /\ batch'[p] > 0 /\ Cur(p)' = Cur(p) /\ Now(p)' = Now(p) /\ order'[p] = Cur(p)
    BY <1>1, <1>3, <1>7, <1>8, <2>4, StartedSame, CurKept DEF StateKept
  <2>6. Suffix(Tasks(t), p)'
    BY <1>1, <1>3, <1>10, <2>2, BatchSame DEF StateKept
  <2>7. ~Moving(t)' /\ (Starts(t)' => Leads(t))
    BY <1>5, <2>2 DEF Moving
  <2>8. ToStart(t, p)' = Now(p)
    BY <1>10, <2>2, <2>5 DEF ToStart, Now, Elems
  <2>9. \A m \in ToStart(t, p)' : ~Started(m)'
    BY <1>1, <2>5, <2>8, CurLemma DEF NoneStarted
  <2>10. Knows(t, p)'
    BY <1>8, <1>10, <2>2, <2>5, <2>6, <2>7, <2>9 DEF Knows
  <2> QED
    BY <1>1, <1>3, <1>7, <1>8, <2>1, <2>3, <2>4, <2>7, <2>8, <2>10, WalkStep
<1>11. /\ Cur(p) \in Seq(Contexts \ {Root}) /\ Tail(Tasks(t)) \in Seq(Contexts \ {Root})
       /\ Len(Tasks(t)) # 1 => Tail(Tasks(t)) # <<>>
  <2>1. Tail(Tasks(t)) \in Seq(Contexts \ {Root}) /\ Len(Tail(Tasks(t))) = Len(Tasks(t)) - 1
        /\ Len(Tasks(t)) \in Nat
    BY <1>3, <1>5, ElemsTail
  <2>2. \A s : s = <<>> => Len(s) = 0
    OBVIOUS
  <2>3. Tail(Tasks(t)) = <<>> => Len(Tail(Tasks(t))) = 0
    BY <2>2, Zenon
  <2>4. Tail(Tasks(t)) = <<>> => Len(Tasks(t)) = 1
    BY <2>1, <2>3
  <2> QED
    BY <1>1, <2>1, <2>4, CurLemma
<1> QED
  BY <1>4, <1>6, <1>8, <1>9, <1>10, <1>11

\* A plan that was refused has told its parent so by its refusal only.
LEMMA RefusedIsLost ==
  ASSUME PlanTypeOK, AnswersInv, NEW p \in Plans, NEW n \in Kids(p), n \in Plans,
         Started(n), Place(Run(n)) = "refused"
  PROVE  Doomed(p)
<1>1. Sound(p) /\ Sound(n) /\ TaskInv(n) /\ Parent[n] = p /\ n # Root
  BY DEF AnswersInv, Sound, Kids
<1>2. Unborn(n)
  BY <1>1 DEF Sound, EndInv, Fresh
<1>3. ~Settled(n)
  BY <1>2 DEF Unborn, Settled, Answered
<1>4. n \in Elems(order[p]) /\ n \notin responses[p]
  BY <1>1, <1>3 DEF TaskInv
<1>5. Lost(n)
  BY <1>1, <1>4 DEF Lost
<1> QED
  BY <1>1, <1>4, <1>5, LostIsDoom

LEMMA PlanSpawnedSound ==
  ASSUME PlanTypeOK, AnswersInv, Evolves, NEW t \in Drivers, PlanSpawned(t)
  PROVE  AnswersInv'
<1>1. PICK p \in Plans : p = PlanOf(t) /\ t \in DriversOf(p) /\ Sound(p) /\ Knows(t, p)
  BY DriverLemma DEF AnswersInv, Sound
<1>2. PICK n : n = Head(Tasks(t))
  OBVIOUS
<1>3. /\ Place(t) = "wait" /\ StateKept /\ UNCHANGED context
      /\ \/ GoesWith(t, "spawn", Tail(Tasks(t)))
         \/ Place(Run(n)) = "refused" /\ GoesWith(t, "remove", <<>>)
  BY <1>2 DEF PlanSpawned, At, Place, StateKept, task_vars, end_vars, table_vars, tree_vars
<1>4. /\ n \in Kids(p) /\ n \in Plans /\ Started(n) /\ Tasks(t) # <<>>
      /\ Tasks(t) \in Seq(Contexts \ {Root})
  BY <1>1, <1>2, <1>3, ToStartKids DEF Knows
<1>5. Entered(t) /\ ~Ending(t) /\ Place(t) # "finish" /\ NoBirth /\ NoSuccess
  BY <1>3 DEF Entered, Ending, NoBirth, NoSuccess
<1>6. CASE GoesWith(t, "remove", <<>>) /\ Place(Run(n)) = "refused"
  BY <1>1, <1>3, <1>4, <1>5, <1>6, RefusedIsLost, IdleStep
<1>7. CASE GoesWith(t, "spawn", Tail(Tasks(t)))
  <2>1. PICK s : s = Tail(Tasks(t))
    OBVIOUS
  <2>2. Walks(t, p, "spawn") /\ Tasks(t)' = s /\ Place(t)' = "spawn"
    BY <1>1, <1>3, <1>7, <2>1, Went DEF Walks
  <2>3. /\ Starts(t)' <=> s # <<>>
        /\ Starts(t) <=> s # <<>>
        /\ ~Moving(t)'
        /\ ToStart(t, p)' = Elems(s) /\ ToStart(t, p) = Elems(s)
    BY <1>3, <2>1, <2>2 DEF Starts, Moving, ToStart, Elems
  <2>4. Starts(t) => order[p] = Cur(p) /\ Suffix(s, p)
    BY <1>1, <1>4, <2>1, SuffixTail DEF Knows
  <2>5. Starts(t)' => Suffix(Tasks(t), p)' /\ order'[p] = Cur(p)'
    BY <1>1, <1>3, <2>2, <2>3, <2>4, BatchSame, CurKept DEF StateKept
  <2>6. \A m \in Elems(s) : m \in Kids(p) /\ ~Started(m)
    BY <1>1, <2>3, ToStartKids DEF Knows
  <2>7. \A m \in ToStart(t, p)' : ~Started(m)'
    BY <1>1, <1>3, <1>5, <2>2, <2>3, <2>6, StartedSame DEF StateKept, Kids
  <2>8. Knows(t, p)'
    BY <2>2, <2>3, <2>5, <2>7 DEF Knows
  <2> QED
    BY <1>1, <1>3, <1>5, <2>2, <2>3, <2>8, WalkStep DEF Leads
<1> QED
  BY <1>3, <1>6, <1>7

LEMMA DispatchedSound ==
  ASSUME PlanTypeOK, AnswersInv, Evolves, NEW t \in Drivers, Dispatched(t)
  PROVE  AnswersInv'
<1>1. PICK p \in Plans : p = PlanOf(t)
  BY DriverLemma
<1>a. Place(t) = "spawn" /\ StateKept /\ UNCHANGED context
  BY DEF Dispatched, At, Place, StateKept, task_vars, end_vars, table_vars, tree_vars
<1>b. GoesWith(t, "done", <<>>) \/ (Cancelled(p) /\ GoesWith(t, "remove", <<>>))
  <2>1. CASE Tasks(t) = <<>>
    BY <2>1 DEF Dispatched
  <2>2. CASE Tasks(t) # <<>>
    BY <1>1, <2>2 DEF Dispatched
  <2> QED
    BY <2>1, <2>2
<1>2. /\ Place(t) = "spawn" /\ StateKept /\ UNCHANGED context
      /\ GoesWith(t, "done", <<>>) \/ (Cancelled(p) /\ GoesWith(t, "remove", <<>>))
  BY <1>a, <1>b
<1>3. Entered(t) /\ ~Ending(t) /\ NoBirth /\ NoSuccess
  BY <1>2 DEF Entered, Ending, NoBirth, NoSuccess
<1> QED
  BY <1>1, <1>2, <1>3, IdleStep, GiveUp

-----------------------------------------------------------------------------
(* Steps at which the batch of the plan, or what it was told, changes *)

\* Those who do not lead know what they knew.
LEMMA FollowerKnows ==
  ASSUME NEW p \in Plans, NEW u \in DriversOf(p), Knows(u, p), threads'[u] = threads[u],
         ~Leads(u), \A n \in Kids(p) : Started(n) => Started(n)'
  PROVE  Knows(u, p)' /\ ~Leads(u)'
<1>1. Place(u)' = Place(u) /\ Tasks(u)' = Tasks(u) /\ (Leads(u)' <=> Leads(u))
  BY SameThread
<1>2. ~Moving(u)' /\ ~Starts(u)'
  BY <1>1 DEF Leads
<1>3. Place(u)' = "wait" =>
        Head(Tasks(u))' \in Kids(p) \cap Plans /\ Started(Head(Tasks(u)))' /\ Tasks(u)' # <<>>
  <2>1. PICK n : n = Head(Tasks(u))
    OBVIOUS
  <2>2. Place(u) = "wait" => n \in Kids(p) \cap Plans /\ Started(n) /\ Tasks(u) # <<>>
    BY <2>1 DEF Knows
  <2>3. Place(u) = "wait" => Started(n)'
    BY <2>2
  <2>4. Head(Tasks(u))' = n
    BY <1>1, <2>1
  <2> QED
    BY <1>1, <2>2, <2>3, <2>4 DEF Started
<1>4. ToStart(u, p)' = {}
  <2>1. Place(u)' # "fork" /\ (Place(u)' = "spawn" => Tasks(u)' = <<>>)
        /\ (Place(u)' = "wait" => Tail(Tasks(u)') = <<>>)
    BY <1>2 DEF Starts
  <2> QED
    BY <2>1 DEF ToStart, Elems
<1> QED
  BY <1>1, <1>2, <1>3, <1>4 DEF Knows, Moving, Starts

\* A step of the one who leads the plan, which leads on.
LEMMA LeaderSound ==
  ASSUME PlanTypeOK, AnswersInv, Evolves, NEW p \in Plans, NEW t \in DriversOf(p), NEW place,
         LocalStep(t), Walks(t, p, place), UNCHANGED context, Moving(t), Knows(t, p)',
         \A n \in Kids(p) : TaskInv(n)', HeardInv(p)',
         order'[p] # <<>> => order'[p] = Cur(p)',
         \/ /\ p \in plans' <=> p \in plans
            /\ Place(t) \notin {"finish", "conclude"} /\ place \in {"asking", "forking", "fork"}
         \/ Place(t) = "finish" /\ p \in plans /\ p \notin plans' /\ place = "conclude"
  PROVE  AnswersInv'
<1>1. Sound(p) /\ t \in Drivers /\ PlanOf(t) = p /\ Leads(t)
  BY DEF AnswersInv, DriversOf, Leads
<1>2. \A u \in DriversOf(p) \ {t} : threads'[u] = threads[u] /\ ~Leads(u)
  BY <1>1, DriverLemma DEF Sound, Alone, DriversOf, LocalStep
<1>3. \A n \in Kids(p) : Started(n) => Started(n)'
  BY <1>1, LocalTasks DEF TaskKept, Kids
<1>4. \A u \in DriversOf(p) : Knows(u, p)'
  BY <1>1, <1>2, <1>3, FollowerKnows DEF Sound
<1>5. Doomed(p) => Doomed(p)'
  BY DEF Doomed, Cancelled
<1>6. told[p] # "ok"
  BY <1>1 DEF Sound, EndInv
<1>7. /\ Place(t)' \notin {"remove", "fail", "abort"}
      /\ Place(t) \in {"finish", "conclude"} => Place(t)' \in {"finish", "conclude"}
  BY DEF Walks
<1>8. \/ (p \in plans' <=> p \in plans) /\ (Ending(t)' <=> Ending(t))
      \/ p \in plans /\ p \notin plans' /\ Ending(t)'
  BY DEF Walks, Ending, Moving
<1> HIDE DEF LocalStep, Evolves, Walks
<1>9. Sound(p)'
  BY <1>1, <1>2, <1>4, <1>5, <1>6, <1>7, <1>8, LeadSound, LocalIsOwn
<1> QED
  BY <1>9, LocalSound

\* The tasks of the batch have all answered when nothing is pending.
LEMMA AllAnswered ==
  ASSUME PlanTypeOK, NEW p \in Plans, Sound(p), order[p] = <<>>, AllStarted(p)
  PROVE  \A n \in Now(p) : Settled(n) /\ Answered(n)
<1> SUFFICES ASSUME NEW n \in Now(p) PROVE Settled(n)
  BY DEF Settled
<1>1. n \in Kids(p) /\ Started(n)
  BY CurLemma DEF AllStarted
<1>2. Parent[n] = p /\ TaskInv(n) /\ n \notin Elems(order[p])
  BY <1>1 DEF Sound, Kids, Elems
<1> QED
  BY <1>1, <1>2 DEF TaskInv

\* The response that comes next in the batch continues what the plan was given of it.
LEMMA NextResponse ==
  ASSUME PlanTypeOK, NEW p \in Plans, HeardInv(p), NEW s \in Seq(Contexts \ {Root}), s # <<>>,
         Listening(s, p), \A n \in Now(p) : Answered(n),
         seen'[p] = Append(seen[p], Head(s)), batch'[p] = batch[p],
         \A n \in Kids(p) : Answered(n) => Answered(n)'
  PROVE  HeardInv(p)' /\ \A t : Tasks(t)' = Tail(s) => Listening(Tasks(t), p)'
<1>1. PICK k \in 0..Len(Cur(p)) : Rest(s, k, p) /\ Given(k, p)
  BY DEF Listening
<1>2. /\ Len(Tail(s)) = Len(s) - 1 /\ Len(s) >= 1 /\ Head(s) = s[1] /\ Len(s) \in Nat
      /\ \A i \in 1..Len(Tail(s)) : Tail(s)[i] = s[i + 1]
  BY ElemsTail
<1>3. k + 1 \in 0..Len(Cur(p)) /\ Rest(Tail(s), k + 1, p) /\ Head(s) = Cur(p)[k + 1]
      /\ Len(Cur(p)) \in Nat /\ k + 1 \in 1..Len(Cur(p))
  BY <1>1, <1>2, CurLemma DEF Rest
<1> DEFINE old == seen[p]
<1> DEFINE new == seen'[p]
<1>4. old \in Seq(Contexts \ {Root}) /\ Head(s) \in Contexts \ {Root}
  BY ElemsTail DEF PlanTypeOK
<1>5. /\ Len(new) = Len(old) + 1 /\ Len(old) \in Nat
      /\ \A i \in 1..Len(old) : new[i] = old[i]
      /\ new[Len(old) + 1] = Cur(p)[k + 1]
  BY <1>3, <1>4
<1>6. /\ k <= Len(old)
      /\ \A i \in 1..k : old[Len(old) - k + i] = Cur(p)[i]
  BY <1>1 DEF Given
<1> HIDE DEF old, new
<1>7. \A i \in 1..(k + 1) : new[Len(old) + 1 - (k + 1) + i] = Cur(p)[i]
  <2> SUFFICES ASSUME NEW i \in 1..(k + 1) PROVE new[Len(old) + 1 - (k + 1) + i] = Cur(p)[i]
    OBVIOUS
  <2>0. Len(old) + 1 - (k + 1) + i = Len(old) - k + i /\ k \in Nat
    BY <1>5
  <2>1. CASE i = k + 1
    BY <1>5, <2>0, <2>1
  <2>2. CASE i # k + 1
    <3>1. i \in 1..k /\ Len(old) - k + i \in 1..Len(old)
      BY <1>5, <1>6, <2>0, <2>2
    <3> QED
      BY <1>5, <1>6, <2>0, <3>1
  <2> QED
    BY <2>1, <2>2
<1>8. Cur(p)' = Cur(p)
  BY CurKept
<1>9. ASSUME NEW t, Tasks(t)' = Tail(s) PROVE Listening(Tasks(t), p)'
  <2>1. Rest(Tasks(t), k + 1, p)'
    BY <1>3, <1>8, <1>9 DEF Rest
  <2>2. Given(k + 1, p)'
    <3>1. k + 1 <= Len(new) /\ Len(new) = Len(old) + 1
      BY <1>5, <1>6
    <3>2. \A i \in 1..(k + 1) : new[Len(new) - (k + 1) + i] = Cur(p)[i]
      BY <1>7, <3>1
    <3> QED
      BY <1>8, <3>1, <3>2 DEF Given, new
  <2> QED
    BY <1>3, <1>8, <2>1, <2>2 DEF Listening
<1>10. /\ batch[p] \in 1..Len(Batches[p]) /\ batch[p] \in 1..batch[p]
       /\ Cur(p) = Batches[p][batch[p]]
  <2>1. batch[p] # 0
    <3>1. ASSUME batch[p] = 0 PROVE Cur(p) = <<>> /\ Len(Cur(p)) = 0
      BY <3>1, CurLemma
    <3> QED
      BY <1>3, <3>1
  <2> QED
    BY <2>1, CurLemma
<1>11. ASSUME NEW i \in 1..Len(old)
       PROVE  \E b \in 1..batch[p] : \E j \in 1..Len(Batches[p][b]) : Heard(p, i, b, j)'
  <2>1. PICK b \in 1..batch[p] : \E j \in 1..Len(Batches[p][b]) : Heard(p, i, b, j)
    BY DEF HeardInv, old
  <2>2. PICK j \in 1..Len(Batches[p][b]) : Heard(p, i, b, j)
    BY <2>1
  <2>3. b \in 1..Len(Batches[p]) /\ batch[p] \in Nat
    BY <1>10
  <2>4. \A m \in 1..Len(Batches[p][b]) : Batches[p][b][m] \in Kids(p)
    BY <2>3, BatchLemma
  <2>5. \A m \in 1..Len(Batches[p][b]) : Answered(Batches[p][b][m])'
    BY <2>2, <2>4 DEF Heard
  <2>6. j <= i /\ \A m \in 1..j : old[i - j + m] = Batches[p][b][m]
    BY <2>2 DEF Heard, old
  <2>7. Len(Batches[p][b]) \in Nat
    BY <2>3, BatchLemma
  <2>8. ASSUME NEW m \in 1..j PROVE new[i - j + m] = old[i - j + m]
    <3>1. i - j + m \in 1..Len(old)
      BY <1>5, <2>6, <2>7
    <3> QED
      BY <1>5, <3>1
  <2>9. Heard(p, i, b, j)'
    BY <2>5, <2>6, <2>8 DEF Heard, new
  <2> QED
    BY <2>9
<1>12. ASSUME NEW i, i = Len(old) + 1, NEW b, b = batch[p]
       PROVE  Heard(p, i, b, k + 1)'
  <2>1. \A m \in 1..Len(Cur(p)) : Cur(p)[m] \in Now(p) /\ Cur(p)[m] \in Kids(p)
    BY CurLemma DEF Now, Elems
  <2>2. Cur(p) = Batches[p][b]
    BY <1>10, <1>12
  <2>3. \A m \in 1..Len(Batches[p][b]) : Answered(Batches[p][b][m])'
    BY <2>1, <2>2
  <2>4. k + 1 <= i /\ \A m \in 1..(k + 1) : new[i - (k + 1) + m] = Batches[p][b][m]
    <3>1. k + 1 <= i
      BY <1>5, <1>6, <1>12
    <3>2. \A m \in 1..(k + 1) : new[i - (k + 1) + m] = Cur(p)[m]
      BY <1>7, <1>12
    <3> QED
      BY <2>2, <3>1, <3>2
  <2> QED
    BY <2>3, <2>4 DEF Heard, new
<1>13. HeardInv(p)'
  <2> SUFFICES ASSUME NEW i \in 1..Len(new)
               PROVE  \E b \in 1..batch[p] : \E j \in 1..Len(Batches[p][b]) : Heard(p, i, b, j)'
    BY DEF HeardInv, new
  <2>1. CASE i \in 1..Len(old)
    BY <1>11, <2>1
  <2>2. CASE i = Len(old) + 1
    <3>1. PICK b \in 1..batch[p] : b = batch[p] /\ k + 1 \in 1..Len(Batches[p][b])
      BY <1>3, <1>10
    <3>2. Heard(p, i, b, k + 1)'
      BY <1>12, <2>2, <3>1
    <3> QED
      BY <3>1, <3>2
  <2> QED
    BY <1>5, <2>1, <2>2
<1> QED
  BY <1>9, <1>13

LEMMA GiveResponseSound ==
  ASSUME PlanTypeOK, AnswersInv, Evolves, NEW t \in Drivers, GiveResponse(t)
  PROVE  AnswersInv'
<1>1. PICK p \in Plans : p = PlanOf(t) /\ t \in DriversOf(p) /\ Sound(p) /\ Knows(t, p)
  BY DriverLemma DEF AnswersInv, Sound
<1>2. /\ Place(t) = "next" /\ UNCHANGED <<context, plans, order, responses, batch>>
      /\ UNCHANGED <<task, event, told, aborted>>
      /\ seen' = [seen EXCEPT ![p] = Append(seen[p], Head(Tasks(t)))]
      /\ GoesWith(t, "asking", Tail(Tasks(t)))
  BY <1>1 DEF GiveResponse, At, Place, task_vars, end_vars, tree_vars
<1>3. PICK s \in Seq(Contexts \ {Root}) : s = Tasks(t) /\ s # <<>> /\ Listening(s, p)
  BY <1>1, <1>2, ToStartKids DEF Knows
<1>4. /\ AllStarted(p) /\ order[p] = <<>> /\ Moving(t)
  BY <1>1, <1>2 DEF Knows, Moving
<1>5. Walks(t, p, "asking") /\ Tasks(t)' = Tail(s) /\ Place(t)' = "asking"
  <2>1. GoesWith(t, "asking", Tail(s))
    BY <1>2, <1>3
  <2> QED
    BY <1>1, <1>2, <2>1, Went DEF Walks
<1>6. seen'[p] = Append(seen[p], Head(s)) /\ \A q \in Plans \ {p} : seen'[q] = seen[q]
  BY <1>2, <1>3 DEF PlanTypeOK
<1>7. LocalStep(t)
  BY <1>1, <1>2, <1>5, <1>6 DEF LocalStep, Walks, Entered, Untaken, TableKept
<1>8. TasksKept(p)
  BY <1>1, <1>7, LocalTasks DEF TasksKept, Kids
<1>9. HeardInv(p)' /\ Listening(Tasks(t), p)'
  <2>1. \A n \in Now(p) : Answered(n)
    BY <1>1, <1>4, AllAnswered
  <2> QED
    BY <1>1, <1>2, <1>3, <1>5, <1>6, <1>8, <2>1, NextResponse DEF TasksKept, TaskKept, Sound
<1>10. AllStarted(p)' /\ order'[p] = <<>>
  BY <1>1, <1>2, <1>4, <1>5, StartedSame DEF Entered
<1>11. Knows(t, p)'
  BY <1>5, <1>9, <1>10 DEF Knows, Moving, Starts, ToStart
<1>12. \A n \in Kids(p) : TaskInv(n)'
  BY <1>1, <1>2, <1>8, TaskStays DEF Sound, TasksKept
<1> QED
  BY <1>1, <1>2, <1>4, <1>5, <1>7, <1>9, <1>10, <1>11, <1>12, LeaderSound

LEMMA FinishSound ==
  ASSUME PlanTypeOK, AnswersInv, Evolves, NEW t \in Drivers, Finish(t)
  PROVE  AnswersInv'
<1>1. PICK p \in Plans : p = PlanOf(t) /\ t \in DriversOf(p) /\ Sound(p) /\ Knows(t, p)
  BY DriverLemma DEF AnswersInv, Sound
<1>2. /\ Place(t) = "finish" /\ UNCHANGED <<context, order, responses, batch, seen>>
      /\ UNCHANGED <<task, event, told, aborted>>
      /\ p \in plans /\ plans' = plans \ {p} /\ Goes(t, "conclude")
  BY <1>1 DEF Finish, At, Place, task_vars, end_vars, tree_vars
<1>3. AllStarted(p) /\ order[p] = <<>> /\ Moving(t)
  BY <1>1, <1>2 DEF Knows, Moving
<1>4. Walks(t, p, "conclude") /\ Place(t)' = "conclude"
  BY <1>1, <1>2, Went DEF Walks
<1>5. LocalStep(t)
  BY <1>1, <1>2, <1>4 DEF LocalStep, Walks, Entered, Untaken, TableKept
<1>6. TasksKept(p)
  BY <1>1, <1>5, LocalTasks DEF TasksKept, Kids
<1>7. AllStarted(p)' /\ order'[p] = <<>>
  BY <1>1, <1>2, <1>3, <1>4, StartedSame DEF Entered
<1>8. Knows(t, p)'
  BY <1>4, <1>7 DEF Knows, Moving, Starts, ToStart
<1>9. \A n \in Kids(p) : TaskInv(n)'
  BY <1>1, <1>2, <1>6, TaskStays DEF Sound, TasksKept
<1>10. HeardInv(p)'
  <2>1. batch[p] \in Nat /\ batch[p] <= Len(Batches[p])
    BY DEF PlanTypeOK
  <2> QED
    BY <1>1, <1>2, <1>6, <2>1, HeardStays DEF Sound, TasksKept, TaskKept
<1> QED
  BY <1>1, <1>2, <1>3, <1>4, <1>5, <1>7, <1>8, <1>9, <1>10, LeaderSound

LEMMA AdvanceSound ==
  ASSUME PlanTypeOK, AnswersInv, Evolves, NEW t \in Drivers, Advance(t)
  PROVE  AnswersInv'
<1>1. PICK p \in Plans : p = PlanOf(t) /\ t \in DriversOf(p) /\ Sound(p) /\ Knows(t, p)
  BY DriverLemma DEF AnswersInv, Sound
<1>2. /\ Place(t) = "advance" /\ UNCHANGED <<context, plans, batch, seen>>
      /\ UNCHANGED <<task, event, told, aborted>>
      /\ order' = [order EXCEPT ![p] = Tasks(t)]
      /\ responses' = [responses EXCEPT ![p] = {}]
      /\ Goes(t, "fork")
  BY <1>1 DEF Advance, At, Place, task_vars, end_vars, tree_vars
<1>3. /\ NoneStarted(p) /\ batch[p] > 0 /\ Cur(p) # <<>> /\ Tasks(t) = Cur(p)
      /\ order[p] = <<>> /\ Moving(t)
  BY <1>1, <1>2 DEF Knows, Moving
<1>4. Walks(t, p, "fork") /\ Tasks(t)' = Cur(p) /\ Place(t)' = "fork"
  BY <1>1, <1>2, <1>3, Went DEF Walks
<1>5. /\ order'[p] = Cur(p) /\ responses'[p] = {}
      /\ \A q \in Plans \ {p} : order'[q] = order[q] /\ responses'[q] = responses[q]
  BY <1>2, <1>3 DEF PlanTypeOK
<1>6. LocalStep(t)
  BY <1>1, <1>2, <1>4, <1>5 DEF LocalStep, Walks, Entered, Untaken, TableKept
<1>7. TasksKept(p)
  BY <1>1, <1>6, LocalTasks DEF TasksKept, Kids
<1>8. /\ NoneStarted(p)' /\ Cur(p)' = Cur(p) /\ Now(p)' = Now(p) /\ Past(p)' = Past(p)
      /\ Suffix(Tasks(t), p)'
  BY <1>1, <1>2, <1>3, <1>4, StartedSame, CurKept, WholeBatch, BatchSame DEF Entered
<1>9. \A n \in Now(p) : ~Started(n)'
  BY <1>8, CurLemma DEF NoneStarted
<1>10. Knows(t, p)'
  <2>1. Place(t)' = "fork" /\ Tasks(t)' # <<>> /\ batch'[p] > 0 /\ Cur(p)' # <<>>
        /\ order'[p] = Cur(p)'
    BY <1>2, <1>3, <1>4, <1>5, <1>8
  <2>2. ToStart(t, p)' = Now(p)
    BY <1>8, <2>1 DEF ToStart
  <2> QED
    BY <1>8, <1>9, <2>1, <2>2 DEF Knows, Moving, Starts
<1>11. ASSUME NEW n \in Kids(p) PROVE TaskInv(n)'
  <2>1. TaskInv(n) /\ TaskKept(n) /\ Parent[n] = p
    BY <1>1, <1>7 DEF Sound, TasksKept, Kids
  <2>2. Started(n) => Settled(n)
    BY <1>3, <2>1 DEF TaskInv, Elems
  <2> QED
    BY <1>2, <1>5, <1>8, <2>1, <2>2, TaskGoesOn DEF TaskInv
<1>12. HeardInv(p)'
  <2>1. batch[p] \in Nat /\ batch[p] <= Len(Batches[p])
    BY DEF PlanTypeOK
  <2> QED
    BY <1>1, <1>2, <1>7, <2>1, HeardStays DEF Sound, TasksKept, TaskKept
<1>13. order'[p] = Cur(p)' /\ Place(t) \notin {"finish", "conclude"} /\ (p \in plans' <=> p \in plans)
  BY <1>2, <1>5, <1>8
<1> QED
  BY <1>1, <1>2, <1>3, <1>4, <1>6, <1>10, <1>11, <1>12, <1>13, LeaderSound

\* The tasks of the next batch are new.
LEMMA NextBatchIsNew ==
  ASSUME PlanTypeOK, NEW p \in Plans, NEW b \in 1..Len(Batches[p]), b = batch[p] + 1
  PROVE  Elems(Batches[p][b]) \cap (Now(p) \cup Past(p)) = {}
<1> SUFFICES ASSUME NEW i \in 1..Len(Batches[p][b]), Batches[p][b][i] \in Now(p) \cup Past(p)
             PROVE  FALSE
  BY DEF Elems
<1>1. batch[p] \in Nat
  BY DEF PlanTypeOK
<1>2. PICK c \in 1..batch[p] : Batches[p][b][i] \in Elems(Batches[p][c])
  <2>1. CASE Batches[p][b][i] \in Past(p)
    <3>1. PICK c \in 1..(batch[p] - 1) : Batches[p][b][i] \in Elems(Batches[p][c])
      BY <2>1 DEF Past
    <3>2. c \in 1..batch[p]
      BY <1>1
    <3> QED
      BY <3>1, <3>2
  <2>2. CASE Batches[p][b][i] \in Now(p)
    <3>1. batch[p] # 0 /\ Cur(p) = Batches[p][batch[p]]
      <4>1. batch[p] = 0 => Now(p) = {}
        BY CurLemma, ElemsType DEF Now
      <4> QED
        BY <2>2, <4>1, CurLemma
    <3>2. batch[p] \in 1..batch[p]
      BY <1>1, <3>1
    <3> QED
      BY <2>2, <3>1, <3>2 DEF Now
  <2> QED
    BY <2>1, <2>2
<1>3. PICK j \in 1..Len(Batches[p][c]) : Batches[p][b][i] = Batches[p][c][j]
  BY <1>2 DEF Elems
<1>4. c \in 1..Len(Batches[p]) /\ c # b
  BY <1>1
<1>5. \A k \in 1..Len(Batches[p][b]), l \in 1..Len(Batches[p][c]) :
        Batches[p][b][k] = Batches[p][c][l] => b = c
  BY <1>4, OnceAssumption
<1> QED
  BY <1>3, <1>4, <1>5

LEMMA AskTasksSound ==
  ASSUME PlanTypeOK, AnswersInv, Evolves, NEW t \in Drivers, AskTasks(t)
  PROVE  AnswersInv'
<1>1. PICK p \in Plans : p = PlanOf(t) /\ t \in DriversOf(p) /\ Sound(p) /\ Knows(t, p)
  BY DriverLemma DEF AnswersInv, Sound
<1>2. /\ Place(t) = "asking" /\ UNCHANGED <<context, plans, order, responses, seen>>
      /\ UNCHANGED <<task, event, told, aborted>>
      /\ batch' = [batch EXCEPT ![p] = @ + 1]
      /\ NextBatch(p) # <<>> /\ GoesWith(t, "forking", NextBatch(p))
  BY <1>1 DEF AskTasks, At, Place, task_vars, end_vars, tree_vars
<1>3. AllStarted(p) /\ order[p] = <<>> /\ Moving(t)
  BY <1>1, <1>2 DEF Knows, Moving
<1>4. batch[p] \in Nat /\ batch[p] < Len(Batches[p]) /\ Len(Batches[p]) \in Nat
  <2>1. batch[p] \in Nat /\ batch[p] < Len(Batches[p])
    BY <1>2 DEF PlanTypeOK, NextBatch
  <2>2. Batches[p] \in Seq(Seq(Contexts \ {Root}))
    BY BatchesAssumption
  <2> QED
    BY <2>1, <2>2
<1>5. PICK b \in 1..Len(Batches[p]) : b = batch[p] + 1 /\ NextBatch(p) = Batches[p][b]
  BY <1>4 DEF NextBatch
<1>6. Walks(t, p, "forking") /\ Tasks(t)' = Batches[p][b] /\ Place(t)' = "forking"
  <2>1. GoesWith(t, "forking", Batches[p][b]) /\ UNCHANGED context
    BY <1>2, <1>5
  <2>2. Walks(t, p, "forking") /\ Tasks(t)' = Batches[p][b]
    BY <1>1, <2>1, Went
  <2> QED
    BY <2>2 DEF Walks
<1>7. batch'[p] = b /\ \A q \in Plans \ {p} : batch'[q] = batch[q]
  BY <1>2, <1>5 DEF PlanTypeOK
<1>8. LocalStep(t)
  BY <1>1, <1>2, <1>6, <1>7 DEF LocalStep, Walks, Entered, Untaken, TableKept
<1>9. TasksKept(p)
  BY <1>1, <1>8, LocalTasks DEF TasksKept, Kids
<1>10. Cur(p)' = Batches[p][b] /\ Now(p)' = Elems(Batches[p][b]) /\ Cur(p)' # <<>>
  BY <1>2, <1>4, <1>5, <1>7 DEF Cur, CurrentBatch, Now, Elems
<1>11. Past(p)' = Past(p) \cup Now(p)
  <2>1. b - 1 = batch[p]
    BY <1>4, <1>5
  <2>2. Past(p)' = UNION {Elems(Batches[p][c]) : c \in 1..batch[p]}
    BY <1>7, <2>1 DEF Past, Elems
  <2>3. CASE batch[p] = 0
    <3>1. Now(p) = {} /\ 1..batch[p] = {} /\ 1..(batch[p] - 1) = {}
      BY <2>3, CurLemma, ElemsType DEF Now
    <3> QED
      BY <2>2, <3>1 DEF Past
  <2>4. CASE batch[p] # 0
    <3>1. 1..batch[p] = 1..(batch[p] - 1) \cup {batch[p]} /\ Now(p) = Elems(Batches[p][batch[p]])
      BY <1>4, <2>4, CurLemma DEF Now
    <3> QED
      BY <2>2, <3>1 DEF Past
  <2> QED
    BY <2>3, <2>4
<1>12. ASSUME NEW n \in Kids(p) PROVE TaskInv(n)'
  <2>1. TaskInv(n) /\ TaskKept(n) /\ Parent[n] = p
    BY <1>1, <1>9 DEF Sound, TasksKept, Kids
  <2>2. Elems(order[p])' = Elems(order[p])
    BY <1>2 DEF Elems
  <2>3. n \in Now(p) => Started(n)
    BY <1>3 DEF AllStarted
  <2>4. n \in Past(p)' => Started(n)
    BY <1>11, <2>1, <2>3 DEF TaskInv
  <2>5. Started(n) \/ context'[n] # "none" => n \in Now(p)' \cup Past(p)'
    BY <1>2, <1>11, <2>1 DEF TaskInv
  <2>6. /\ n \in responses'[p] => n \in Elems(order[p])' /\ Settled(n)
        /\ Started(n) => n \in Elems(order[p])' \/ Settled(n)
    BY <1>2, <2>1, <2>2 DEF TaskInv
  <2> QED
    BY <2>1, <2>4, <2>5, <2>6, TaskGoesOn
<1>13. NoneStarted(p)'
  <2> SUFFICES ASSUME NEW n \in Kids(p), n \in Now(p)' PROVE ~Started(n)'
    BY DEF NoneStarted
  <2>1. n \notin Now(p) \cup Past(p)
    BY <1>5, <1>10, NextBatchIsNew
  <2>2. ~Started(n)
    BY <1>1, <2>1 DEF Sound, TaskInv, Kids
  <2> QED
    BY <1>9, <2>2 DEF TasksKept, TaskKept
<1>14. Suffix(Tasks(t), p)'
  <2>1. Batches[p][b] \in Seq(Contexts \ {Root})
    BY BatchLemma
  <2>2. Len(Batches[p][b]) \in Nat
    BY <2>1
  <2>3. Tasks(t)' = Cur(p)' /\ Len(Cur(p)') \in Nat
    BY <1>6, <1>10, <2>2
  <2>4. Rest(Tasks(t), 0, p)' /\ 0 \in 0..Len(Cur(p)')
    BY <2>3 DEF Rest
  <2> QED
    BY <2>4 DEF Suffix
<1>15. Knows(t, p)'
  <2>1. batch'[p] > 0 /\ order'[p] = <<>>
    BY <1>2, <1>3, <1>4, <1>5, <1>7
  <2> QED
    BY <1>6, <1>10, <1>13, <1>14, <2>1 DEF Knows, Moving, Starts, ToStart
<1>16. HeardInv(p)'
  <2>1. batch[p] \in Nat /\ batch[p] <= Len(Batches[p]) /\ batch'[p] \in Nat /\ batch[p] <= batch'[p]
    BY <1>4, <1>5, <1>7
  <2> QED
    BY <1>1, <1>2, <1>9, <2>1, HeardStays DEF Sound, TasksKept, TaskKept
<1>17. order'[p] = <<>> /\ Place(t) \notin {"finish", "conclude"} /\ (p \in plans' <=> p \in plans)
  BY <1>2, <1>3
<1> QED
  BY <1>1, <1>2, <1>3, <1>6, <1>8, <1>12, <1>15, <1>16, <1>17, LeaderSound

\* A response that is being collected is not lost.
LEMMA CollectedIsNotLost ==
  ASSUME PlanTypeOK, AnswersInv, NEW p \in Plans, NEW n \in Kids(p), Place(Call(n)) = "collect"
  PROVE  ~Lost(n) /\ Answered(n) /\ event[n] = "none"
<1>1. TaskInv(n) /\ Parent[n] = p
  BY DEF AnswersInv, Sound, Kids
<1>2. Started(n) /\ event[n] = "none" /\ Answered(n)
  <2>1. event[n] = "none"
    BY <1>1 DEF TaskInv
  <2> QED
    BY <1>1, <2>1 DEF TaskInv
<1>3. ~(n \in Plans /\ Place(Run(n)) = "refused")
  <2> SUFFICES ASSUME n \in Plans, Place(Run(n)) = "refused" PROVE FALSE
    OBVIOUS
  <2>1. Unborn(n)
    BY DEF AnswersInv, Sound, EndInv, Fresh
  <2>2. told[n] = "error" /\ told[n] = "ok"
    BY <1>2, <2>1 DEF Unborn, Answered
  <2> QED
    BY <2>2
<1> QED
  BY <1>2, <1>3 DEF Lost

LEMMA CollectSound ==
  ASSUME PlanTypeOK, AnswersInv, Evolves, NEW t \in Drivers, Collect(t)
  PROVE  AnswersInv'
<1>1. PICK p \in Plans : p = PlanOf(t) /\ t \in DriversOf(p) /\ Sound(p) /\ EndInv(p)
  BY DriverLemma DEF AnswersInv, Sound
<1>2. Place(t) = "collect"
  BY DEF Collect, At, Place
<1>3. PICK n \in Kids(p) :
        /\ t = Call(n) /\ t[2] = n /\ Started(n) /\ n \in Elems(order[p])
        /\ n \notin responses[p] /\ order[p] # <<>>
  BY <1>1, <1>2, CalledBack
<1>4. PICK stored : stored = responses[p] \cup {n}
  OBVIOUS
<1>5. /\ UNCHANGED <<context, plans, batch, seen>> /\ UNCHANGED <<task, event, told, aborted>>
      /\ ~IsTerminal(p)
      /\ \/ /\ \A i \in 1..Len(order[p]) : order[p][i] \in stored
            /\ GoesWith(t, "lock", order[p])
            /\ order' = [order EXCEPT ![p] = <<>>]
            /\ responses' = [responses EXCEPT ![p] = {}]
         \/ /\ GoesWith(t, "done", <<>>)
            /\ responses' = [responses EXCEPT ![p] = stored]
            /\ order' = order
  <2>1. /\ UNCHANGED <<context, plans, batch, seen>> /\ UNCHANGED <<task, event, told, aborted>>
        /\ ~IsTerminal(p)
    BY <1>1 DEF Collect, task_vars, end_vars, tree_vars
  <2>2. CASE \A i \in 1..Len(order[p]) : order[p][i] \in stored
    BY <1>1, <1>3, <1>4, <2>1, <2>2 DEF Collect
  <2>3. CASE ~\A i \in 1..Len(order[p]) : order[p][i] \in stored
    BY <1>1, <1>3, <1>4, <2>1, <2>3 DEF Collect
  <2> QED
    BY <2>2, <2>3
<1>6. order[p] = Cur(p) /\ Now(p) = Elems(order[p]) /\ batch[p] # 0
  BY <1>1, <1>3, CurLemma DEF EndInv, Now
<1>7. ~Lost(n) /\ Answered(n) /\ event[n] = "none"
  BY <1>2, <1>3, CollectedIsNotLost
<1>8. /\ \A q \in Plans \ {p} : order'[q] = order[q] /\ responses'[q] = responses[q]
      /\ \/ order'[p] = <<>> /\ responses'[p] = {}
         \/ order'[p] = order[p] /\ responses'[p] = stored
  BY <1>5 DEF PlanTypeOK
<1>9. PICK place \in {"lock", "done"} : \E rest : GoesWith(t, place, rest)
  BY <1>5
<1>10. Walks(t, p, place) /\ Place(t)' = place /\ t \in Threads
  BY <1>1, <1>5, <1>9, Went, DriverLemma DEF Walks
<1>11. LocalStep(t)
  BY <1>1, <1>2, <1>5, <1>8, <1>10 DEF LocalStep, Walks, Entered, Untaken, TableKept
<1>12. TasksKept(p) /\ \A m \in Kids(p) : TaskInv(m) /\ Parent[m] = p
  BY <1>1, <1>11, LocalTasks DEF TasksKept, Kids, Sound
<1>13. Settled(n)'
  BY <1>3, <1>5, <1>7, <1>10, <1>12 DEF Settled, Untaken, TasksKept, TaskKept
<1>14. HeardInv(p)'
  <2>1. batch[p] \in Nat /\ batch[p] <= Len(Batches[p])
    BY DEF PlanTypeOK
  <2> QED
    BY <1>1, <1>5, <1>12, <2>1, HeardStays DEF Sound, TasksKept, TaskKept
<1>15. Cur(p)' = Cur(p) /\ Now(p)' = Now(p) /\ Past(p)' = Past(p)
  BY <1>5, CurKept
<1>16. /\ context[p] # "succeeded" /\ context'[p] = context[p] /\ told[p] # "ok"
       /\ ~Cancelled(p) /\ ~Ending(t)
  BY <1>1, <1>2, <1>3, <1>5 DEF IsTerminal, Terminal, Cancelled, Ending, EndInv, Stopped
<1>17. ASSUME Doomed(p) PROVE \E m \in Kids(p) : m \in Elems(order[p]) /\ Lost(m) /\ m # n
  BY <1>3, <1>7, <1>16, <1>17 DEF Doomed
<1>18. \A u \in DriversOf(p) : Knows(u, p) /\ u \in Threads
  BY <1>1, DriverLemma DEF Sound, DriversOf
<1>19. ASSUME NEW u \in DriversOf(p) \ {t} PROVE threads'[u] = threads[u]
  BY <1>10, <1>18 DEF Walks
<1>20. CASE /\ GoesWith(t, "done", <<>>)
            /\ responses' = [responses EXCEPT ![p] = stored]
            /\ order' = order
  <2>1. Place(t)' = "done" /\ responses'[p] = stored /\ order'[p] = order[p]
    <3>1. Walks(t, p, "done")
      BY <1>1, <1>5, <1>20, Went
    <3> QED
      BY <1>20, <3>1 DEF PlanTypeOK, Walks
  <2>2. Knows(t, p)' /\ ~Moving(t)' /\ ~Leads(t)' /\ ToStart(t, p)' = {} /\ ~Ending(t)'
    BY <2>1, IdleKnows DEF Ending
  <2>3. \A u \in DriversOf(p) : Knows(u, p)'
    BY <1>5, <1>12, <1>18, <1>19, <2>1, <2>2, KnowsStays DEF TasksKept, TaskKept
  <2>4. \A m \in Kids(p) : TaskInv(m)'
    <3> SUFFICES ASSUME NEW m \in Kids(p) PROVE TaskInv(m)'
      OBVIOUS
    <3>1. Elems(order[p])' = Elems(order[p])
      BY <2>1 DEF Elems
    <3>2. m \in responses'[p] => m \in Elems(order[p])' /\ (Settled(m) \/ Settled(m)')
      BY <1>3, <1>4, <1>12, <1>13, <2>1, <3>1 DEF TaskInv
    <3> QED
      BY <1>5, <1>12, <1>15, <3>1, <3>2, TaskGoesOn DEF TasksKept, TaskInv
  <2>5. ASSUME Doomed(p) PROVE Doomed(p)'
    <3>1. PICK m \in Kids(p) : m \in Elems(order[p]) /\ Lost(m) /\ m # n
      BY <1>17, <2>5
    <3>2. NoLeader(p)
      <4>1. \A u \in DriversOf(p) \ {t} :
              (Moving(u)' <=> Moving(u)) /\ ToStart(u, p)' = ToStart(u, p)
        BY <1>5, <1>19, SameThread
      <4> QED
        BY <2>2, <4>1 DEF NoLeader
    <3>3. LostKept(m) /\ Parent[m] = p
      BY <1>12, KeptIsLostKept
    <3>4. m \notin responses'[p]
      BY <1>4, <2>1, <3>1, <3>3 DEF Lost
    <3>5. Lost(m)'
      BY <3>1, <3>2, <3>3, <3>4 DEF Lost, LostKept, NoLeader
    <3>6. m \in Elems(order[p])'
      BY <2>1, <3>1 DEF Elems
    <3> QED
      BY <1>16, <2>5, <3>2, <3>5, <3>6 DEF Doomed, NoLeader
  <2>6. Sound(p)'
    BY <1>1, <1>5, <1>6, <1>11, <1>14, <1>15, <1>16, <2>1, <2>2, <2>3, <2>4, <2>5, LeadSound, LocalIsOwn
  <2> QED
    BY <1>1, <1>10, <1>11, <2>6, LocalSound
<1>21. CASE /\ \A i \in 1..Len(order[p]) : order[p][i] \in stored
            /\ GoesWith(t, "lock", order[p])
            /\ order' = [order EXCEPT ![p] = <<>>]
            /\ responses' = [responses EXCEPT ![p] = {}]
  <2>1. /\ Place(t)' = "lock" /\ Tasks(t)' = Cur(p) /\ Cur(p) # <<>>
        /\ responses'[p] = {} /\ order'[p] = <<>>
    <3>1. Walks(t, p, "lock") /\ Tasks(t)' = order[p]
      BY <1>1, <1>5, <1>21, Went
    <3> QED
      BY <1>3, <1>6, <1>21, <3>1 DEF PlanTypeOK, Walks
  <2>2. \A m \in Now(p) : m \in Kids(p) /\ Answered(m) /\ (m = n \/ m \in responses[p])
    <3> SUFFICES ASSUME NEW m \in Now(p)
                 PROVE  m \in Kids(p) /\ Answered(m) /\ (m = n \/ m \in responses[p])
      OBVIOUS
    <3>1. m \in Kids(p) /\ m \in stored
      BY <1>6, <1>21, CurLemma DEF Elems
    <3>2. m \in responses[p] => Answered(m)
      BY <1>12, <3>1 DEF TaskInv, Settled
    <3> QED
      BY <1>4, <1>7, <3>1, <3>2
  <2>3. \A m \in Now(p) : Started(m) /\ (Settled(m) \/ Settled(m)')
    <3> SUFFICES ASSUME NEW m \in Now(p) PROVE Started(m) /\ (Settled(m) \/ Settled(m)')
      OBVIOUS
    <3>1. m \in Kids(p) /\ TaskInv(m) /\ Ended(m)
      <4>1. m \in Kids(p) /\ Answered(m)
        BY <2>2
      <4> QED
        BY <1>12, <4>1 DEF Answered, Ended
    <3>2. Started(m)
      BY <3>1 DEF TaskInv
    <3> QED
      BY <1>12, <1>13, <2>2, <3>1, <3>2 DEF TaskInv
  <2>4. AllStarted(p)'
    BY <1>12, <1>15, <2>3 DEF AllStarted, TasksKept, TaskKept
  <2>5. ASSUME NEW u \in DriversOf(p) PROVE ~Leads(u)
    <3>1. ~Moving(u)
      BY <1>3, <1>18 DEF Knows
    <3>2. ~Starts(u)
      <4>1. Starts(u) => ToStart(u, p) # {}
        BY <1>18, ToStartKids
      <4>2. ToStart(u, p) \subseteq Now(p) /\ \A m \in ToStart(u, p) : ~Started(m)
        BY <1>18, ToStartKids DEF Knows
      <4> QED
        BY <2>3, <4>1, <4>2
    <3> QED
      BY <3>1, <3>2 DEF Leads
  <2>6. Knows(t, p)' /\ ~Ending(t)'
    <3>1. t \notin RunThreads
      BY <1>3, CallLemma DEF Kids
    <3> QED
      BY <1>5, <1>6, <1>15, <2>1, <2>4, <3>1 DEF Knows, Moving, Starts, ToStart, Ending
  <2>7. \A u \in DriversOf(p) : Knows(u, p)'
    BY <1>12, <1>18, <1>19, <2>5, <2>6, FollowerKnows DEF TasksKept, TaskKept
  <2>8. \A m \in Kids(p) : TaskInv(m)'
    <3> SUFFICES ASSUME NEW m \in Kids(p) PROVE TaskInv(m)'
      OBVIOUS
    <3>1. Started(m) => Settled(m) \/ Settled(m)'
      BY <1>6, <1>12, <2>3 DEF TaskInv
    <3> QED
      BY <1>5, <1>12, <1>15, <2>1, <3>1, TaskGoesOn DEF TasksKept, TaskInv
  <2>9. ~Doomed(p)
    <3> SUFFICES ASSUME Doomed(p) PROVE FALSE
      OBVIOUS
    <3>1. PICK m \in Kids(p) : m \in Elems(order[p]) /\ Lost(m) /\ m # n
      BY <1>17
    <3> QED
      BY <1>6, <1>12, <2>2, <3>1 DEF Lost
  <2>10. Sound(p)'
    BY <1>1, <1>5, <1>11, <1>14, <1>16, <2>1, <2>5, <2>6, <2>7, <2>8, <2>9, LeadSound, LocalIsOwn
  <2> QED
    BY <1>1, <1>10, <1>11, <2>10, LocalSound
<1> QED
  BY <1>5, <1>20, <1>21

\* Whoever takes the plan out of the table, or fails it.
LEMMA EndingSound ==
  ASSUME PlanTypeOK, AnswersInv, Evolves, NEW p \in Plans, NEW t \in DriversOf(p), NEW place,
         LocalStep(t), Walks(t, p, place), TableKept(p), NoBirth,
         context'[p] = "succeeded" => context[p] = "succeeded",
         \/ Place(t) = "remove" /\ place = "fail" /\ p \in plans /\ p \notin plans'
         \/ /\ Place(t) = "fail" /\ place = "abort" /\ (p \in plans' <=> p \in plans)
            /\ context'[p] \in Stopped
  PROVE  AnswersInv'
<1>1. Sound(p) /\ t \in Drivers /\ PlanOf(t) = p
  BY DEF AnswersInv, DriversOf
<1>2. TasksKept(p)
  BY <1>1, LocalTasks DEF TasksKept, Kids
<1>3. \A n \in Kids(p) : TaskInv(n)'
  BY <1>1, <1>2, TaskStays DEF Sound, TasksKept, TableKept, NoBirth, Kids
<1>4. Knows(t, p)' /\ ~Moving(t)' /\ ~Leads(t)' /\ ToStart(t, p)' = {} /\ Place(t)' = place
  BY IdleKnows DEF Walks
<1>5. \A u \in DriversOf(p) \ {t} : threads'[u] = threads[u]
  BY DriverLemma DEF LocalStep, DriversOf
<1>6. \A u \in DriversOf(p) : Knows(u, p)'
  BY <1>1, <1>2, <1>4, <1>5, KnowsStays DEF TableKept, TasksKept, TaskKept, Sound
<1>7. HeardInv(p)'
  <2>1. batch[p] \in Nat /\ batch[p] <= Len(Batches[p]) /\ batch'[p] = batch[p] /\ seen'[p] = seen[p]
    BY DEF PlanTypeOK, TableKept
  <2> QED
    BY <1>1, <1>2, <2>1, HeardStays DEF Sound, TasksKept, TaskKept
<1>8. Doomed(p) /\ told[p] = "nothing"
  BY <1>1 DEF Sound, EndInv, Ending, EndersOf
<1>9. Doomed(p)'
  <2>1. NoLeader(p)
    <3>1. \A u \in DriversOf(p) \ {t} :
            (Moving(u)' <=> Moving(u)) /\ ToStart(u, p)' = ToStart(u, p)
      BY <1>5, SameThread DEF TableKept
    <3> QED
      BY <1>4, <3>1 DEF NoLeader
  <2>2. ContextKept(p)
    BY NodesAssumption DEF Evolves, ContextKept
  <2> QED
    BY <1>2, <1>8, <2>1, <2>2, DoomedStays, KeptIsLostKept DEF TableKept
<1>10. order'[p] # <<>> => order'[p] = Cur(p)'
  BY <1>1, CurKept DEF Sound, EndInv, TableKept
<1>11. \/ (p \in plans' <=> p \in plans) /\ (Ending(t)' <=> Ending(t))
       \/ p \in plans /\ p \notin plans' /\ Ending(t)'
  BY <1>4 DEF Ending
<1>12. /\ Place(t)' = "abort" => context'[p] \in Stopped
       /\ Place(t) \notin {"finish", "conclude"}
  BY <1>4
<1> HIDE DEF LocalStep, Evolves, Walks
<1>13. Sound(p)'
  BY <1>1, <1>3, <1>4, <1>6, <1>7, <1>8, <1>9, <1>10, <1>11, <1>12, LeadSound, LocalIsOwn
<1> QED
  BY <1>13, LocalSound

LEMMA RemoveSound ==
  ASSUME PlanTypeOK, AnswersInv, Evolves, NEW t \in Drivers, Remove(t)
  PROVE  AnswersInv'
<1>1. PICK p \in Plans : p = PlanOf(t) /\ t \in DriversOf(p)
  BY DriverLemma
<1>2. /\ Place(t) = "remove" /\ UNCHANGED <<context, order, responses, batch, seen>>
      /\ UNCHANGED <<task, event, told, aborted>>
      /\ p \in plans /\ plans' = plans \ {p} /\ Goes(t, "fail")
  BY <1>1 DEF Remove, At, Place, task_vars, end_vars, tree_vars
<1>3. Walks(t, p, "fail") /\ Place(t)' = "fail"
  BY <1>1, <1>2, Went DEF Walks
<1>4. LocalStep(t) /\ TableKept(p) /\ NoBirth
  BY <1>1, <1>2, <1>3 DEF LocalStep, Walks, Entered, Untaken, TableKept, NoBirth
<1> QED
  BY <1>1, <1>2, <1>3, <1>4, EndingSound

LEMMA FailSound ==
  ASSUME PlanTypeOK, AnswersInv, Evolves, NEW t \in Drivers, Fail(t)
  PROVE  AnswersInv'
<1>1. PICK p \in Plans : p = PlanOf(t) /\ t \in DriversOf(p) /\ Sound(p) /\ t \in Threads
  BY DriverLemma DEF AnswersInv
<1>2. /\ Place(t) = "fail" /\ StateKept /\ TrySet(t, p, "failed") /\ Goes(t, "abort")
  BY <1>1 DEF Fail, At, Place, task_vars, end_vars, StateKept
<1>3. TreeTypeOK /\ "failed" \in States /\ p \in Contexts /\ Plans \subseteq Contexts
  BY NodesAssumption DEF PlanTypeOK, States, Terminal, Stopped
<1>4. /\ NoBirth /\ NoSuccess
      /\ May(p, "failed") => context'[p] = "failed"
      /\ ~May(p, "failed") => context'[p] = context[p]
  <2>1. /\ \A d \in Contexts \ {p} : context'[d] = context[d]
        /\ context'[p] = "succeeded" => context[p] = "succeeded"
        /\ May(p, "failed") => context'[p] = "failed"
        /\ ~May(p, "failed") => context'[p] = context[p]
        /\ NoBirth
    BY <1>1, <1>2, <1>3, TrySetEffect
  <2> QED
    BY <1>3, <2>1 DEF NoSuccess
<1>5. Walks(t, p, "abort") /\ Place(t)' = "abort"
  BY <1>1, <1>2, <1>4, Went DEF Walks
<1>6. LocalStep(t) /\ TableKept(p)
  BY <1>1, <1>2, <1>5 DEF LocalStep, Walks, Entered, Untaken, TableKept, StateKept
<1>7. context[p] # "succeeded" /\ context[p] \notin {"none", "created"}
  <2>1. Doomed(p) /\ ~Fresh(p)
    BY <1>1, <1>2, EnteredLemma DEF Sound, EndInv, Entered
  <2> QED
    BY <1>1, <2>1 DEF Doomed, Cancelled, Sound, EndInv
<1>8. context'[p] \in Stopped
  <2>1. context[p] \in Stopped \/ context[p] = "running"
    BY <1>3, <1>7 DEF TreeTypeOK, States, Terminal
  <2> QED
    BY <1>4, <2>1 DEF May, Terminal, Stopped
<1> QED
  BY <1>1, <1>2, <1>4, <1>5, <1>6, <1>8, EndingSound DEF StateKept, NoSuccess

-----------------------------------------------------------------------------
(* Steps between a task and the plan that asked for it *)

\* What is said of a task is as it was, but for the thread of its callback.
LEMMA SameTask ==
  ASSUME NEW n \in Contexts \ {Root},
         n \in Plans => /\ told'[n] = told[n]
                        /\ Place(Run(n))' = "none" <=> Place(Run(n)) = "none"
                        /\ Place(Run(n)) = "refused" => Place(Run(n))' = "refused",
         n \notin Plans => task'[n] = task[n],
         event'[n] = event[n], CallKept(n)
  PROVE  TaskKept(n)
<1>1. (Started(n)' <=> Started(n)) /\ (Ended(n)' <=> Ended(n)) /\ (Answered(n)' <=> Answered(n))
  BY DEF Started, Ended, Answered
<1> QED
  BY <1>1 DEF TaskKept

\* Of the plan itself nothing changes.
OwnKept(q) ==
  /\ TableKept(q) /\ (q \in plans' <=> q \in plans)
  /\ told'[q] = told[q] /\ (q \in aborted' => q \in aborted)
  /\ context'[q] = "succeeded" => context[q] = "succeeded"
  /\ NotForked(q)
  /\ Fresh(q) /\ q # Root =>
       event'[q] = event[q] /\ (Place(Call(q)) = "none" => Place(Call(q))' = "none")

LEMMA OwnKeptLemma ==
  ASSUME NEW q \in Plans, OwnKept(q), Evolves, ThreadsKept(q)
  PROVE  EndKept(q) /\ TableKept(q) /\ ContextKept(q)
<1>1. q \in Contexts
  BY NodesAssumption
<1>2. Run(q) \in EndersOf(q) /\ Run(q) \notin CallThreads
  <2>1. Run(q) \notin CallThreads
    BY RunLemma, CallLemma DEF CallThreads
  <2> QED
    BY <2>1, RunLemma DEF EndersOf
<1>3. Place(Run(q))' = Place(Run(q))
  BY <1>2 DEF ThreadsKept, Called, Place
<1> QED
  BY <1>1, <1>3 DEF OwnKept, EndKept, ContextKept, Evolves, Fresh

\* A plan that a step does not concern, and one of whose tasks it does.
LEMMA UnconcernedSound ==
  ASSUME PlanTypeOK, AnswersInv, Evolves, NEW q \in Plans, OwnKept(q), ThreadsKept(q), TasksKept(q)
  PROVE  Sound(q)'
BY OwnKeptLemma, SoundStays DEF AnswersInv, OwnKept

LEMMA ParentSound ==
  ASSUME PlanTypeOK, AnswersInv, Evolves, NEW p \in Plans, NEW n \in Kids(p),
         OwnKept(p), ThreadsKept(p), \A m \in Kids(p) \ {n} : TaskKept(m),
         TaskInv(n)', LostKept(n), Started(n)' <=> Started(n), Answered(n) => Answered(n)'
  PROVE  Sound(p)'
<1>1. \A m \in Kids(p) \ {n} : TaskInv(m)' /\ LostKept(m)
  <2> SUFFICES ASSUME NEW m \in Kids(p) \ {n} PROVE TaskInv(m)' /\ LostKept(m)
    OBVIOUS
  <2>1. TaskInv(m)'
    BY TaskStays DEF AnswersInv, Sound, OwnKept, TableKept, NotForked
  <2>2. LostKept(m)
    BY DEF TaskKept, CallKept, LostKept, Untaken
  <2> QED
    BY <2>1, <2>2
<1>2. \A m \in Kids(p) : /\ TaskInv(m)' /\ LostKept(m) /\ (Started(m)' <=> Started(m))
                         /\ Answered(m) => Answered(m)'
  BY <1>1 DEF TaskKept
<1> QED
  BY <1>2, OwnKeptLemma, PlanStays DEF AnswersInv

\* Only contexts change.
LEMMA ContextOnly ==
  ASSUME PlanTypeOK, AnswersInv, Evolves, NoBirth, NoSuccess,
         UNCHANGED <<threads, plans, order, responses, batch, seen, task, event, told, aborted>>
  PROVE  AnswersInv'
<1> SUFFICES ASSUME NEW q \in Plans PROVE Sound(q)'
  BY DEF AnswersInv
<1>1. \A t : Place(t)' = Place(t)
  BY DEF Place
<1>2. OwnKept(q) /\ ThreadsKept(q)
  BY <1>1 DEF OwnKept, TableKept, NotForked, NoBirth, NoSuccess, ThreadsKept, Kids
<1>3. TasksKept(q)
  BY <1>1, SameTask DEF TasksKept, CallKept, Kids
<1> QED
  BY <1>2, <1>3, UnconcernedSound

LEMMA CancelSound ==
  ASSUME PlanTypeOK, AnswersInv, Evolves, Cancel
  PROVE  AnswersInv'
<1>1. TreeTypeOK /\ User \in Threads /\ Root \in Contexts /\ "cancelled" \in States
      /\ Plans \subseteq Contexts
  BY NodesAssumption, ThreadsAssumption DEF PlanTypeOK, States, Terminal, Stopped
<1>2. SetState(User, Root, "cancelled")
  BY DEF Cancel
<1>3. NoBirth /\ \A d \in Contexts : context'[d] = context[d] \/ context'[d] = "cancelled"
  BY <1>1, <1>2, SetStateEffect
<1>4. NoSuccess
  BY <1>1, <1>3 DEF NoSuccess
<1> QED
  BY <1>3, <1>4, ContextOnly DEF Cancel, table_vars, task_vars, end_vars

LEMMA PropagateSound ==
  ASSUME PlanTypeOK, AnswersInv, Evolves, NEW t \in Threads, Propagate(t)
  PROVE  AnswersInv'
<1>1. NoBirth /\ NoSuccess
  BY PassOnEffect DEF PlanTypeOK, Propagate
<1> QED
  BY <1>1, ContextOnly DEF Propagate, table_vars, task_vars, end_vars

LEMMA CloseStreamSound ==
  ASSUME PlanTypeOK, AnswersInv, Evolves, NEW n \in Leaves, CloseStream(n)
  PROVE  AnswersInv'
<1>1. TreeTypeOK /\ n \in Contexts \ {Root} /\ Terminal \subseteq States /\ n \notin Plans
      /\ Plans \subseteq Contexts
  BY NodesAssumption DEF PlanTypeOK, States
<1>2. PICK s \in Terminal : TrySet(Call(n), n, s)
  BY DEF CloseStream
<1>3. NoBirth /\ \A d \in Contexts \ {n} : context'[d] = context[d]
  <2>1. Call(n) \in Threads
    BY <1>1, CallLemma, DriverLemma
  <2> QED
    BY <1>1, <1>2, <2>1, TrySetEffect
<1>4. NoSuccess
  BY <1>1, <1>3 DEF NoSuccess
<1> QED
  BY <1>3, <1>4, ContextOnly DEF CloseStream, table_vars, end_vars

LEMMA LeafEndsSound ==
  ASSUME PlanTypeOK, AnswersInv, Evolves, NEW n \in Leaves, LeafEnds(n)
  PROVE  AnswersInv'
<1>1. n \in Contexts \ {Root} /\ n \notin Plans /\ Plans \subseteq Contexts
  BY NodesAssumption
<1>2. PICK p \in Plans : p = Parent[n] /\ n \in Kids(p)
  BY <1>1, NodesAssumption DEF Kids
<1>3. /\ task[n] = "running" /\ task' = [task EXCEPT ![n] = "ended"]
      /\ UNCHANGED <<context, threads, plans, order, responses, batch, seen, told, aborted>>
  BY DEF LeafEnds, tree_vars, table_vars, end_vars
<1>4. PICK said \in {"ok", "error"} : event' = [event EXCEPT ![n] = said]
  BY DEF LeafEnds
<1>5. /\ task'[n] = "ended" /\ event'[n] = said
      /\ \A m \in Contexts \ {Root} : m # n => event'[m] = event[m]
      /\ \A m \in Leaves : m # n => task'[m] = task[m]
  BY <1>1, <1>3, <1>4 DEF PlanTypeOK
<1>6. \A t : Place(t)' = Place(t)
  BY <1>3 DEF Place
<1>7. ASSUME NEW m \in Contexts \ {Root}, m # n PROVE TaskKept(m)
  <2>1. m \notin Plans => m \in Leaves
    BY NodesAssumption
  <2> QED
    BY <1>3, <1>5, <1>6, <1>7, <2>1, SameTask DEF CallKept
<1>8. ASSUME NEW q \in Plans PROVE OwnKept(q) /\ ThreadsKept(q)
  BY <1>1, <1>3, <1>5, <1>6 DEF OwnKept, TableKept, NotForked, ThreadsKept, Kids
<1>9. ASSUME NEW q \in Plans, q # p PROVE Sound(q)'
  <2>1. TasksKept(q)
    BY <1>2, <1>7, <1>9 DEF TasksKept, Kids
  <2> QED
    BY <1>8, <2>1, UnconcernedSound
<1>10. Sound(p)'
  <2>1. TaskInv(n) /\ Started(n) /\ ~Ended(n) /\ ~Answered(n)
    BY <1>1, <1>2, <1>3 DEF AnswersInv, Sound, Started, Ended, Answered
  <2>2. event[n] = "none" /\ Place(Call(n)) = "none" /\ ~Settled(n)
    BY <2>1 DEF TaskInv, Settled
  <2>3. Started(n)' /\ Ended(n)' /\ Answered(n)'
    BY <1>1, <1>5 DEF Started, Ended, Answered
  <2>4. Cur(p)' = Cur(p) /\ Now(p)' = Now(p) /\ Past(p)' = Past(p) /\ Elems(order[p])' = Elems(order[p])
    BY <1>3, CurKept DEF Elems
  <2>5. TaskInv(n)'
    <3>1. /\ event'[n] # "none" => Ended(n)' /\ Place(Call(n))' = "none"
          /\ Place(Call(n))' # "none" => Ended(n)'
          /\ event'[n] = "ok" \/ Place(Call(n))' \in {"check", "collect"} => Answered(n)'
      BY <1>6, <2>2, <2>3
    <3>2. n \notin responses'[p] /\ n \in Elems(order[p])' /\ n \in Now(p)' \cup Past(p)'
      BY <1>2, <1>3, <2>1, <2>2, <2>4 DEF TaskInv
    <3> QED
      BY <1>2, <2>3, <3>1, <3>2 DEF TaskInv
  <2>6. LostKept(n)
    BY <1>1, <1>6, <2>1, <2>2 DEF LostKept
  <2>7. \A m \in Kids(p) \ {n} : TaskKept(m)
    BY <1>7 DEF Kids
  <2> QED
    BY <1>2, <1>8, <2>1, <2>3, <2>5, <2>6, <2>7, ParentSound
<1> QED
  BY <1>9, <1>10 DEF AnswersInv

\* A plan of which an event has been sent has been let in, and its context has ended.
LEMMA EventsEnd ==
  ASSUME PlanTypeOK, AnswersInv, NEW n \in Plans, n # Root, event[n] # "none"
  PROVE  ~Fresh(n) /\ IsTerminal(n) /\ (event[n] = "ok" => context[n] = "succeeded")
<1>1. n \in Contexts \ {Root}
  BY NodesAssumption
<1>2. PICK p \in Plans : n \in Kids(p)
  BY <1>1, NodesAssumption DEF Kids
<1>3. told[n] # "nothing" /\ (event[n] = "ok" => told[n] = "ok")
  BY <1>2 DEF AnswersInv, Sound, TaskInv, Ended, Answered
<1>4. told[n] = "ok" \/ told[n] = "error"
  BY <1>3 DEF PlanTypeOK
<1> QED
  BY <1>1, <1>3, <1>4 DEF AnswersInv, Sound, EndInv, Unborn, IsTerminal, Terminal

LEMMA ForwardSound ==
  ASSUME PlanTypeOK, AnswersInv, Evolves, NEW n \in Contexts \ {Root}, Forward(n)
  PROVE  AnswersInv'
<1>1. PICK p \in Plans : p = Parent[n] /\ n \in Kids(p) /\ n # p
  BY NodesAssumption DEF Kids
<1>2. PICK t : t = Call(n) /\ t \in CallThreads /\ t \in Threads /\ t \in DriversOf(p)
  BY <1>1, CallLemma, DriverLemma
<1>3. PICK place \in {"check", "error"} :
        /\ Goes(t, place) /\ (place = "check" <=> event[n] = "ok")
  BY <1>2 DEF Forward
<1>4. /\ event[n] # "none" /\ event' = [event EXCEPT ![n] = "none"]
      /\ UNCHANGED <<plans, order, responses, batch, seen, task, told, aborted>>
  BY DEF Forward, table_vars, end_vars
<1>5. /\ NoBirth /\ NoSuccess
  <2>1. TreeTypeOK /\ {"succeeded", "failed"} \subseteq States /\ Plans \subseteq Contexts
    BY NodesAssumption DEF PlanTypeOK, States, Terminal, Stopped
  <2>2. \/ context' = context
        \/ TrySet(t, n, "failed")
        \/ event[n] = "ok" /\ TrySet(t, n, "succeeded")
    BY <1>2 DEF Forward, tree_vars
  <2>3. CASE context' = context
    BY <2>3 DEF NoBirth, NoSuccess
  <2>4. ASSUME NEW s \in {"succeeded", "failed"}, TrySet(t, n, s),
               s = "succeeded" => event[n] = "ok"
        PROVE  NoBirth /\ NoSuccess
    <3>1. /\ NoBirth /\ \A d \in Contexts \ {n} : context'[d] = context[d]
          /\ context'[n] = "succeeded" => context[n] = "succeeded" \/ s = "succeeded"
      BY <1>2, <2>1, <2>4, TrySetEffect
    <3>2. n \in Plans /\ s = "succeeded" => context[n] = "succeeded"
      BY <2>4, EventsEnd
    <3> QED
      BY <2>1, <3>1, <3>2 DEF NoSuccess
  <2> QED
    BY <2>2, <2>3, <2>4
<1>6. event'[n] = "none" /\ \A m \in Contexts \ {Root} : m # n => event'[m] = event[m]
  BY <1>4 DEF PlanTypeOK
<1>7. TaskInv(n) /\ Ended(n) /\ Started(n) /\ Place(t) = "none"
  BY <1>1, <1>2, <1>4 DEF AnswersInv, Sound, TaskInv
<1>8. Place(t)' = place /\ \A u \in Threads \ {t} : threads'[u] = threads[u]
  BY <1>2, <1>3 DEF Goes, Place, PlanTypeOK
<1>9. \A u \in Threads : u = t \/ Place(u)' = Place(u)
  BY <1>8 DEF Place
<1>10. Called(t)
  BY <1>2, <1>3, <1>7, <1>8 DEF Called
<1>11. ASSUME NEW m \in Contexts \ {Root} PROVE m \in Plans => Place(Run(m))' = Place(Run(m))
  <2>1. m \in Plans => Run(m) \in Threads /\ Run(m) # t
    BY <1>2, RunLemma, CallLemma, DriverLemma
  <2> QED
    BY <1>9, <2>1
<1>12. ASSUME NEW m \in Contexts \ {Root}, m # n PROVE TaskKept(m)
  <2>1. Call(m) # t /\ Call(m) \in Threads
    BY <1>2, <1>12, CallLemma, DriverLemma
  <2>2. CallKept(m)
    BY <1>9, <2>1 DEF CallKept
  <2> QED
    BY <1>4, <1>6, <1>11, <1>12, <2>2, SameTask
<1>13. ASSUME NEW q \in Plans PROVE OwnKept(q)
  <2>1. CASE q = n
    <3>1. ~Fresh(q)
      BY <1>4, <2>1, EventsEnd
    <3> QED
      BY <1>4, <1>5, <3>1 DEF OwnKept, TableKept, NotForked, NoBirth, NoSuccess, Kids
  <2>2. CASE q # n
    <3>1. q # Root => Place(Call(q))' = Place(Call(q)) /\ event'[q] = event[q]
      <4>1. q # Root => q \in Contexts \ {Root} /\ Call(q) \in Threads /\ Call(q) # t
        BY <1>2, <2>2, CallLemma, DriverLemma, NodesAssumption
      <4> QED
        BY <1>6, <1>9, <2>2, <4>1
    <3> QED
      BY <1>4, <1>5, <3>1 DEF OwnKept, TableKept, NotForked, NoBirth, NoSuccess, Kids
  <2> QED
    BY <2>1, <2>2
<1>14. ASSUME NEW q \in Plans PROVE ThreadsKept(q)
  <2>1. \A u \in EndersOf(q) : u \in Threads
    BY DriverLemma, WatchLemma DEF EndersOf, DriversOf
  <2> QED
    BY <1>8, <1>10, <2>1 DEF ThreadsKept
<1>15. ASSUME NEW q \in Plans, q # p PROVE Sound(q)'
  <2>1. TasksKept(q)
    BY <1>1, <1>12, <1>15 DEF TasksKept, Kids
  <2> QED
    BY <1>13, <1>14, <2>1, UnconcernedSound
<1>16. Sound(p)'
  <2>1. /\ Started(n)' <=> Started(n)
        /\ Ended(n)' <=> Ended(n)
        /\ Answered(n)' <=> Answered(n)
    BY <1>4, <1>11 DEF Started, Ended, Answered
  <2>2. ~Settled(n)
    BY <1>4 DEF Settled
  <2>3. Cur(p)' = Cur(p) /\ Now(p)' = Now(p) /\ Past(p)' = Past(p) /\ Elems(order[p])' = Elems(order[p])
    BY <1>4, CurKept DEF Elems
  <2>4. TaskInv(n)'
    <3>1. /\ event'[n] # "none" => Ended(n)' /\ Place(Call(n))' = "none"
          /\ Place(Call(n))' # "none" => Ended(n)'
          /\ event'[n] = "ok" \/ Place(Call(n))' \in {"check", "collect"} => Answered(n)'
      BY <1>2, <1>3, <1>6, <1>7, <1>8, <2>1 DEF TaskInv
    <3>2. n \notin responses'[p] /\ n \in Elems(order[p])' /\ n \in Now(p)' \cup Past(p)'
      BY <1>1, <1>4, <1>7, <2>2, <2>3 DEF TaskInv
    <3> QED
      BY <1>1, <1>7, <2>1, <3>1, <3>2 DEF TaskInv
  <2>5. LostKept(n)
    BY <1>2, <1>3, <1>7, <1>8, <1>11, <2>1 DEF LostKept
  <2>6. \A m \in Kids(p) \ {n} : TaskKept(m)
    BY <1>12 DEF Kids
  <2> QED
    BY <1>1, <1>13, <1>14, <2>1, <2>4, <2>5, <2>6, ParentSound
<1> QED
  BY <1>15, <1>16 DEF AnswersInv

-----------------------------------------------------------------------------
(* Plans and tasks that are started *)

\* What is before start_plan lets a plan in.
LEMMA Newborn ==
  ASSUME PlanTypeOK, NEW p \in Plans, Sound(p), Fresh(p)
  PROVE  /\ Unborn(p) /\ order[p] = <<>> /\ Cur(p) = <<>> /\ Now(p) = {}
         /\ \A n \in Kids(p) : ~Started(n)
         /\ \A u \in DriversOf(p) \ {Run(p)} : Place(u) = "none"
<1>1. Unborn(p) /\ EndInv(p)
  BY DEF Sound, EndInv
<1>2. Cur(p) = <<>> /\ Now(p) = {} /\ Past(p) = {}
  <2>1. Cur(p) = <<>> /\ 1..(batch[p] - 1) = {}
    BY <1>1 DEF Unborn, Cur
  <2>2. Now(p) = {}
    BY <2>1 DEF Now, Elems
  <2> QED
    BY <2>1, <2>2 DEF Past
<1>3. order[p] = <<>>
  BY <1>1, <1>2 DEF EndInv
<1>4. \A n \in Kids(p) : ~Started(n) /\ Place(Call(n)) = "none"
  BY <1>2 DEF Sound, TaskInv, Kids
<1>5. ASSUME NEW u \in DriversOf(p) \ {Run(p)} PROVE Place(u) = "none"
  <2>1. u \in Drivers /\ PlanOf(u) = p
    BY DEF DriversOf
  <2> QED
    BY <1>4, <1>5, <2>1, DriverLemma
<1> QED
  BY <1>1, <1>2, <1>3, <1>4, <1>5

\* A plan that is started, refused or let in.
LEMMA BirthSound ==
  ASSUME PlanTypeOK, Evolves, NEW p \in Plans, Sound(p), Fresh(p), TableKept(p), TasksKept(p),
         NotForked(p), \A u \in DriversOf(p) \ {Run(p)} : threads'[u] = threads[u],
         context'[p] # "succeeded", Tasks(Run(p))' = <<>>,
         p \in aborted' => told'[p] = "error", told'[p] = "error" => context'[p] \in Stopped,
         \/ Place(Run(p))' \in {"start", "refused"} /\ Unborn(p)'
         \/ /\ Place(Run(p))' = "lock" /\ p \in plans' /\ told'[p] = "nothing"
            /\ Place(Watch(p))' = "watching" /\ context'[p] \notin {"none", "created"}
  PROVE  Sound(p)'
<1>1. /\ Unborn(p) /\ order[p] = <<>> /\ Cur(p) = <<>> /\ Now(p) = {}
      /\ \A n \in Kids(p) : ~Started(n)
      /\ \A u \in DriversOf(p) \ {Run(p)} : Place(u) = "none"
  BY Newborn
<1>2. /\ order'[p] = <<>> /\ Cur(p)' = <<>> /\ Now(p)' = {} /\ batch'[p] = 0
      /\ Run(p) \in DriversOf(p) /\ Run(p) \in RunThreads
  BY <1>1, CurKept, RunLemma DEF TableKept, Unborn
<1>3. \A n \in Kids(p) : TaskInv(n)'
  BY TaskStays DEF Sound, TableKept, TasksKept, NotForked
<1>4. ASSUME NEW u \in DriversOf(p), u # Run(p)
      PROVE  Knows(u, p)' /\ ~Leads(u)' /\ ~Moving(u)' /\ Place(u)' = "none"
  <2>1. Place(u) = "none" /\ ~Leads(u)
    BY <1>1, <1>4 DEF Leads, Moving, Starts
  <2>2. \A n \in Kids(p) : Started(n) => Started(n)'
    BY <1>1
  <2>3. threads'[u] = threads[u]
    BY <1>4
  <2>4. Knows(u, p)' /\ ~Leads(u)'
    BY <2>1, <2>2, <2>3, FollowerKnows DEF Sound
  <2> QED
    BY <2>1, <2>3, <2>4 DEF Leads, Place
<1>5. AllStarted(p)'
  BY <1>2 DEF AllStarted
<1>6. Knows(Run(p), p)'
  <2>1. PICK r \in DriversOf(p) : r = Run(p) /\ r \in RunThreads
    BY <1>2
  <2>2. Place(r)' \in {"start", "refused", "lock"} /\ Tasks(r)' = <<>>
    BY <2>1
  <2>3. Knows(r, p)'
    BY <1>2, <1>5, <2>1, <2>2 DEF Knows, Moving, Starts, ToStart
  <2> QED
    BY <2>1, <2>3
<1>7. Alone(p)'
  BY <1>4 DEF Alone
<1>8. HeardInv(p)'
  <2>1. batch[p] \in Nat /\ batch[p] <= Len(Batches[p]) /\ batch'[p] = batch[p] /\ seen'[p] = seen[p]
    BY DEF PlanTypeOK, TableKept
  <2> QED
    BY <2>1, HeardStays DEF Sound, TasksKept, TaskKept
<1>9. \A u \in DriversOf(p) : Place(u)' \in {"none", "start", "refused", "lock"}
  BY <1>4
<1>10. CASE Place(Run(p))' \in {"start", "refused"} /\ Unborn(p)'
  <2>1. \A u \in DriversOf(p) : ~Moving(u)'
    BY <1>4, <1>10 DEF Moving
  <2>2. Doomed(p)' /\ Fresh(p)' /\ p \notin plans' /\ told'[p] # "ok"
        /\ Place(Watch(p))' = "none"
    BY <1>2, <1>10, <2>1 DEF Doomed, Fresh, Unborn
  <2>3. \A u \in EndersOf(p) : ~Ending(u)'
    BY <1>9, <2>2 DEF Ending, EndersOf
  <2>4. EndInv(p)'
    BY <1>2, <1>9, <1>10, <2>2, <2>3 DEF EndInv
  <2> QED
    BY <1>3, <1>4, <1>6, <1>7, <1>8, <2>4 DEF Sound
<1>11. CASE /\ Place(Run(p))' = "lock" /\ p \in plans' /\ told'[p] = "nothing"
            /\ Place(Watch(p))' = "watching" /\ context'[p] \notin {"none", "created"}
  <2>1. \A u \in EndersOf(p) : ~Ending(u)'
    BY <1>9, <1>11 DEF Ending, EndersOf
  <2>2. ~Fresh(p)' /\ p \notin aborted'
    BY <1>11 DEF Fresh
  <2>3. EndInv(p)'
    BY <1>2, <1>9, <1>11, <2>1, <2>2 DEF EndInv
  <2> QED
    BY <1>3, <1>4, <1>6, <1>7, <1>8, <2>3 DEF Sound
<1> QED
  BY <1>10, <1>11

\* Of a task that has yet to be started nothing else is true.
LEMMA ToStartIsNew ==
  ASSUME PlanTypeOK, NEW p \in Plans, Sound(p), NEW t \in DriversOf(p), NEW n \in ToStart(t, p)
  PROVE  /\ n \in Kids(p) /\ ~Started(n) /\ ~Ended(n) /\ ~Answered(n) /\ event[n] = "none"
         /\ Place(Call(n)) = "none" /\ n \notin responses[p] /\ n \in Now(p) /\ ~Lost(n)
<1>1. /\ n \in Kids(p) /\ ~Started(n) /\ n \in Now(p) /\ Parent[n] = p /\ TaskInv(n)
  BY ToStartKids DEF Sound, Knows, Kids
<1>2. ~Ended(n) /\ event[n] = "none" /\ Place(Call(n)) = "none"
  BY <1>1 DEF TaskInv
<1>3. ~Answered(n)
  BY <1>2 DEF Ended, Answered
<1>4. n \notin responses[p]
  BY <1>1, <1>3 DEF TaskInv, Settled
<1>5. ~(n \in Plans /\ Place(Run(n)) = "refused")
  BY <1>1 DEF Started
<1>6. ~Lost(n)
  BY <1>1, <1>2, <1>5 DEF Lost
<1> QED
  BY <1>1, <1>2, <1>3, <1>4, <1>6

\* The next task is started: the plan of it.
LEMMA SpawnSound ==
  ASSUME PlanTypeOK, AnswersInv, Evolves, NEW p \in Plans, NEW t \in DriversOf(p), NEW n,
         Place(t) = "spawn", Tasks(t) # <<>>, n = Head(Tasks(t)), ~Cancelled(p),
         OwnStep(t), TableKept(p), p \in plans' <=> p \in plans, NoBirth, NoSuccess,
         \/ Place(t)' = "spawn" /\ Tasks(t)' = Tail(Tasks(t))
         \/ Place(t)' = "wait" /\ Tasks(t)' = Tasks(t) /\ n \in Plans,
         \A m \in Kids(p) \ {n} : TaskKept(m),
         Started(n)', Ended(n)' <=> Ended(n), event'[n] = event[n]
  PROVE  Sound(p)'
<1>1. Sound(p) /\ Knows(t, p) /\ t \in Drivers /\ PlanOf(t) = p
  BY DEF AnswersInv, Sound, DriversOf
<1>2. /\ Starts(t) /\ Leads(t) /\ Tasks(t) \in Seq(Contexts \ {Root})
      /\ ToStart(t, p) = Elems(Tasks(t)) /\ order[p] = Cur(p) /\ Cur(p) # <<>>
  BY <1>1, ToStartKids DEF Starts, Leads, ToStart
<1>3. Suffix(Tasks(t), p)
  BY <1>1, <1>2 DEF Knows
<1>4. /\ Suffix(Tail(Tasks(t)), p) /\ n \notin Elems(Tail(Tasks(t))) /\ n \in Elems(Tasks(t))
      /\ Elems(Tail(Tasks(t))) \subseteq Elems(Tasks(t))
  BY <1>2, <1>3, SuffixTail, ElemsTail
<1>5. /\ n \in Kids(p) /\ ~Started(n) /\ ~Ended(n) /\ ~Answered(n) /\ event[n] = "none"
      /\ Place(Call(n)) = "none" /\ n \notin responses[p] /\ n \in Now(p) /\ ~Lost(n)
      /\ Parent[n] = p
  BY <1>1, <1>2, <1>4, ToStartIsNew DEF Kids
<1>6. \A u \in DriversOf(p) \ {t} : threads'[u] = threads[u] /\ ~Leads(u)
  BY <1>1, <1>2 DEF OwnStep, EndersOf, Sound, Alone
<1>7. /\ Cur(p)' = Cur(p) /\ Now(p)' = Now(p) /\ Past(p)' = Past(p) /\ order'[p] = order[p]
      /\ Elems(order[p])' = Elems(order[p]) /\ responses'[p] = responses[p]
  BY CurKept DEF TableKept, Elems
<1>8. TaskInv(n)'
  <2>1. Place(Call(n))' = "none"
    <3>1. Call(n) \in DriversOf(p) /\ Call(n) # t
      BY <1>5, KidsLemma
    <3> QED
      BY <1>5, <1>6, <3>1 DEF Place
  <2>2. n \in Elems(order[p])' /\ n \notin responses'[p] /\ n \in Now(p)'
    BY <1>2, <1>5, <1>7 DEF Now
  <2> QED
    BY <1>5, <2>1, <2>2 DEF TaskInv
<1>9. \A m \in Kids(p) : TaskInv(m)'
  <2> SUFFICES ASSUME NEW m \in Kids(p), m # n PROVE TaskInv(m)'
    BY <1>8
  <2> QED
    BY <1>1, TaskStays DEF TableKept, NoBirth, Kids, Sound
<1>10. \A m \in Kids(p) : Started(m) => Started(m)'
  BY DEF TaskKept
<1>11. /\ ~Moving(t)' /\ ToStart(t, p)' = Elems(Tail(Tasks(t)))
       /\ Starts(t)' <=> Tail(Tasks(t)) # <<>>
  BY DEF Moving, Starts, ToStart, Elems
<1>12. Knows(t, p)'
  <2>1. Starts(t)' => Suffix(Tasks(t), p)' /\ order'[p] = Cur(p)'
    <3>1. batch'[p] = batch[p] /\ seen'[p] = seen[p]
      BY DEF TableKept
    <3>2. Suffix(Tasks(t)', p) => Suffix(Tasks(t), p)'
      BY <3>1, BatchSame
    <3>3. Suffix(Tasks(t)', p)
      BY <1>3, <1>4
    <3> QED
      BY <1>2, <1>7, <3>2, <3>3
  <2>2. \A m \in ToStart(t, p)' : ~Started(m)'
    <3> SUFFICES ASSUME NEW m \in Elems(Tail(Tasks(t))) PROVE ~Started(m)'
      BY <1>11
    <3>1. m # n /\ m \in ToStart(t, p)
      BY <1>2, <1>4
    <3>2. m \in Kids(p) /\ ~Started(m)
      BY <1>1, <3>1, ToStartIsNew
    <3> QED
      BY <3>1, <3>2 DEF TaskKept
  <2>3. Place(t)' = "wait" =>
          Tasks(t)' # <<>> /\ Head(Tasks(t))' \in Kids(p) \cap Plans /\ Started(Head(Tasks(t)))'
    <3>1. Place(t)' = "wait" => Head(Tasks(t)') = n /\ n \in Plans
      OBVIOUS
    <3> QED
      BY <1>5, <3>1 DEF Started
  <2> QED
    BY <1>11, <2>1, <2>2, <2>3 DEF Knows, Moving
<1>13. \A u \in DriversOf(p) : Knows(u, p)'
  BY <1>1, <1>6, <1>10, <1>12, FollowerKnows DEF Sound
<1>14. HeardInv(p)'
  <2>1. batch[p] \in Nat /\ batch[p] <= Len(Batches[p]) /\ batch'[p] = batch[p] /\ seen'[p] = seen[p]
    BY DEF PlanTypeOK, TableKept
  <2>2. \A m \in Kids(p) : Answered(m) => Answered(m)'
    BY <1>5 DEF TaskKept
  <2> QED
    BY <1>1, <2>1, <2>2, HeardStays DEF Sound
<1>15. ASSUME Doomed(p) PROVE Doomed(p)'
  <2>1. context[p] # "succeeded" /\ \A u \in DriversOf(p) : ~Moving(u)
    BY <1>15 DEF Doomed
  <2>2. PICK m \in Kids(p) : m \in Elems(order[p]) /\ Lost(m) /\ m # n
    BY <1>2, <1>5, <1>15 DEF Doomed
  <2>3. NoLeader(p)
    <3>1. \A u \in DriversOf(p) \ {t} :
            (Moving(u)' <=> Moving(u)) /\ ToStart(u, p)' = ToStart(u, p)
      BY <1>6, SameThread DEF TableKept
    <3> QED
      BY <1>2, <1>4, <1>11, <3>1 DEF NoLeader
  <2>4. LostKept(m)
    BY <2>2 DEF TaskKept, CallKept, LostKept, Untaken
  <2>5. Lost(m)'
    BY <1>7, <2>2, <2>3, <2>4, LostStays
  <2> QED
    BY <1>7, <2>1, <2>2, <2>3, <2>5 DEF Doomed, NoLeader, NoSuccess
<1>16. told[p] # "ok" /\ Place(t)' \notin {"remove", "fail", "abort"} /\ ~Ending(t) /\ ~Ending(t)'
  BY <1>1, <1>2 DEF Sound, EndInv, Ending
<1>17. context'[p] = "succeeded" => context[p] = "succeeded"
  BY DEF NoSuccess
<1> HIDE DEF OwnStep, Evolves
<1> QED
  BY <1>1, <1>2, <1>6, <1>7, <1>9, <1>13, <1>14, <1>15, <1>16, <1>17, LeadSound

\* Every other task is as it was,
LEMMA SpawnTasks ==
  ASSUME PlanTypeOK, NEW p \in Plans, NEW t \in DriversOf(p), NEW n \in Kids(p),
         Place(t) = "spawn", Place(t)' \in {"spawn", "wait"},
         \A u \in Threads \ {t, Run(n)} : threads'[u] = threads[u],
         UNCHANGED <<event, told>>, \A m \in Leaves \ {n} : task'[m] = task[m]
  PROVE  \A m \in Contexts \ {Root} : m # n => TaskKept(m)
<1> SUFFICES ASSUME NEW m \in Contexts \ {Root}, m # n PROVE TaskKept(m)
  OBVIOUS
<1>1. \A u \in Threads \ {t, Run(n)} : Place(u)' = Place(u)
  BY DEF Place
<1>2. m \in Plans => Run(m) \in Threads /\ Run(m) # Run(n)
  <2>1. Run(m)[2] = m /\ Run(n)[2] = n
    BY DEF Run
  <2> QED
    BY <2>1, RunLemma, DriverLemma
<1>3. Call(m) \in Threads /\ Call(m) # Run(n)
  <2>1. Call(m)[1] = "call" /\ Run(n)[1] = "run"
    BY DEF Run, Call
  <2> QED
    BY <2>1, CallLemma, DriverLemma
<1>4. CallKept(m)
  <2>1. Call(m) = t \/ Place(Call(m))' = Place(Call(m))
    BY <1>1, <1>3
  <2> QED
    BY <2>1 DEF CallKept, Untaken
<1>5. m \in Plans => Run(m) = t \/ Place(Run(m))' = Place(Run(m))
  BY <1>1, <1>2
<1>6. m \notin Plans => task'[m] = task[m]
  BY NodesAssumption
<1> QED
  BY <1>4, <1>5, <1>6, SameTask

\* and every other plan.
LEMMA SpawnOthers ==
  ASSUME PlanTypeOK, AnswersInv, Evolves, NEW p \in Plans, NEW t \in DriversOf(p), NEW n \in Kids(p),
         Place(t) = "spawn", Place(t)' \in {"spawn", "wait"},
         \A u \in Threads \ {t, Run(n)} : threads'[u] = threads[u], NoBirth, NoSuccess,
         UNCHANGED <<plans, order, responses, batch, seen, event, told, aborted>>,
         \A m \in Leaves \ {n} : task'[m] = task[m],
         NEW q \in Plans, q # p, q # n
  PROVE  Sound(q)'
<1>1. TasksKept(q)
  BY SpawnTasks DEF TasksKept, Kids
<1>2. ThreadsKept(q)
  <2> SUFFICES ASSUME NEW u \in EndersOf(q) PROVE threads'[u] = threads[u]
    BY DEF ThreadsKept
  <2>1. u \in Threads /\ PlanOf(u) = q
    BY DriverLemma, WatchLemma DEF EndersOf, DriversOf
  <2>2. u # t
    BY <2>1 DEF DriversOf
  <2>3. u # Run(n)
    <3>1. CASE n \in Plans
      BY <2>1, <3>1, RunLemma
    <3>2. CASE n \notin Plans
      <4>1. Run(n)[1] = "run" /\ Run(n)[2] = n
        BY DEF Run
      <4>2. \A m \in Plans : Run(m)[2] = m
        BY DEF Run
      <4>3. \A m \in Contexts \ {Root} : Call(m)[1] = "call"
        BY DEF Call
      <4>4. Watch(q)[1] = "watch"
        BY DEF Watch
      <4> QED
        BY <3>2, <4>1, <4>2, <4>3, <4>4 DEF EndersOf, DriversOf, Drivers, RunThreads, CallThreads
    <3> QED
      BY <3>1, <3>2
  <2> QED
    BY <2>1, <2>2, <2>3
<1>3. OwnKept(q)
  <2>1. q # Root => (Place(Call(q)) = "none" => Place(Call(q))' = "none")
    <3> SUFFICES ASSUME q # Root, Place(Call(q)) = "none" PROVE Place(Call(q))' = "none"
      OBVIOUS
    <3>1. TaskKept(q)
      BY NodesAssumption, SpawnTasks
    <3> QED
      BY <3>1 DEF TaskKept, CallKept
  <2> QED
    BY <2>1 DEF OwnKept, TableKept, NotForked, NoBirth, NoSuccess, Kids
<1> QED
  BY <1>1, <1>2, <1>3, UnconcernedSound

LEMMA SpawnLeafSound ==
  ASSUME PlanTypeOK, AnswersInv, Evolves, NEW t \in Drivers, SpawnLeaf(t)
  PROVE  AnswersInv'
<1>1. PICK p \in Plans : p = PlanOf(t) /\ t \in DriversOf(p) /\ Sound(p) /\ Knows(t, p)
  BY DriverLemma DEF AnswersInv, Sound
<1>2. PICK n : n = Head(Tasks(t))
  OBVIOUS
<1>3. /\ Place(t) = "spawn" /\ Tasks(t) # <<>> /\ n \in Leaves /\ ~Cancelled(p)
      /\ UNCHANGED <<plans, order, responses, batch, seen, event, told, aborted>>
  BY <1>1, <1>2 DEF SpawnLeaf, At, Place, table_vars, end_vars
<1>4. /\ Starts(t) /\ ToStart(t, p) = Elems(Tasks(t)) /\ Tasks(t) \in Seq(Contexts \ {Root})
      /\ Entered(t) /\ ~Ending(t) /\ t \in Threads
  BY <1>1, <1>3, ToStartKids, DriverLemma DEF Starts, ToStart, Entered, Ending
<1>5. n \in ToStart(t, p)
  BY <1>2, <1>3, <1>4, ElemsTail
<1>6. n \in Kids(p) /\ ~Ended(n) /\ n \notin Plans /\ n \in Contexts
  BY <1>1, <1>3, <1>5, ToStartIsNew, KidsLemma
<1>7. TreeTypeOK /\ {"running", "failed"} \subseteq States /\ Plans \subseteq Contexts
  BY NodesAssumption DEF PlanTypeOK, States, Terminal, Stopped
<1>8. ASSUME NEW s \in {"running", "failed"}, TrySet(t, n, s) PROVE NoBirth /\ NoSuccess
  BY <1>4, <1>6, <1>7, <1>8, TrySetEffect DEF NoSuccess
<1>9. CASE TrySet(t, n, "running") /\ task' = [task EXCEPT ![n] = "running"]
           /\ GoesWith(t, "spawn", Tail(Tasks(t)))
  <2>1. NoBirth /\ NoSuccess
    BY <1>8, <1>9
  <2>2. /\ Place(t)' = "spawn" /\ Tasks(t)' = Tail(Tasks(t))
        /\ \A u \in Threads \ {t} : threads'[u] = threads[u]
    BY <1>4, <1>9 DEF GoesWith, Place, Tasks, PlanTypeOK
  <2>3. task'[n] = "running" /\ \A m \in Leaves \ {n} : task'[m] = task[m]
    BY <1>3, <1>9 DEF PlanTypeOK
  <2>4. OwnStep(t)
    <3>1. \A u \in EndersOf(p) : u \in Threads
      BY DriverLemma, WatchLemma DEF EndersOf, DriversOf
    <3> QED
      BY <1>1, <1>3, <2>2, <3>1 DEF OwnStep, Entered
  <2>5. \A m \in Contexts \ {Root} : m # n => TaskKept(m)
    BY <1>1, <1>3, <1>6, <2>2, <2>3, SpawnTasks
  <2>6. Started(n)' /\ (Ended(n)' <=> Ended(n)) /\ event'[n] = event[n]
    BY <1>3, <1>6, <2>3 DEF Started, Ended
  <2>7. Sound(p)'
    <3>1. TableKept(p) /\ (p \in plans' <=> p \in plans)
      BY <1>3 DEF TableKept
    <3>2. \A m \in Kids(p) \ {n} : TaskKept(m)
      BY <2>5 DEF Kids
    <3> QED
      BY <1>1, <1>2, <1>3, <2>1, <2>2, <2>4, <2>6, <3>1, <3>2, SpawnSound
  <2>8. ASSUME NEW q \in Plans, q # p PROVE Sound(q)'
    BY <1>1, <1>3, <1>6, <2>1, <2>2, <2>3, <2>8, SpawnOthers
  <2> QED
    BY <2>7, <2>8 DEF AnswersInv
<1>10. CASE /\ TrySet(t, n, "failed") \/ UNCHANGED tree_vars
            /\ GoesWith(t, "remove", <<>>) /\ UNCHANGED task
  <2>1. NoBirth /\ NoSuccess
    <3>1. CASE UNCHANGED tree_vars
      BY <3>1 DEF NoBirth, NoSuccess, tree_vars
    <3> QED
      BY <1>8, <1>10, <3>1
  <2>2. StateKept
    BY <1>3, <1>10 DEF StateKept
  <2>3. ASSUME LocalStep(t) PROVE Doomed(p)'
    <3>1. Place(t)' = "remove"
      BY <1>4, <1>10 DEF GoesWith, Place, PlanTypeOK
    <3>2. ~Moving(t)' /\ ToStart(t, p)' = {}
      BY <3>1 DEF Moving, ToStart
    <3>3. TableKept(p) /\ (context'[p] = "succeeded" => context[p] = "succeeded")
      BY <1>3, <2>1 DEF TableKept, NoSuccess
    <3> QED
      BY <1>1, <1>4, <2>3, <3>2, <3>3, StarterGivesUp
  <2> QED
    BY <1>1, <1>3, <1>4, <1>10, <2>1, <2>2, <2>3, IdleStep
<1> QED
  BY <1>1, <1>2, <1>9, <1>10 DEF SpawnLeaf

LEMMA SpawnPlanSound ==
  ASSUME PlanTypeOK, AnswersInv, Evolves, NEW t \in Drivers, SpawnPlan(t)
  PROVE  AnswersInv'
<1>1. PICK p \in Plans : p = PlanOf(t) /\ t \in DriversOf(p) /\ Sound(p) /\ Knows(t, p)
  BY DriverLemma DEF AnswersInv, Sound
<1>2. PICK n : n = Head(Tasks(t))
  OBVIOUS
<1>3. /\ Place(t) = "spawn" /\ Tasks(t) # <<>> /\ n \in Plans /\ ~Cancelled(p)
      /\ threads' = [threads EXCEPT ![t].at = "wait", ![Run(n)].at = "start"]
      /\ UNCHANGED <<context, plans, order, responses, batch, seen, task, event, told, aborted>>
  BY <1>1, <1>2 DEF SpawnPlan, At, Place, table_vars, end_vars, tree_vars, task_vars
<1>4. /\ Starts(t) /\ ToStart(t, p) = Elems(Tasks(t)) /\ Tasks(t) \in Seq(Contexts \ {Root})
      /\ t \in Threads
  BY <1>1, <1>3, ToStartKids, DriverLemma DEF Starts, ToStart
<1>5. n \in ToStart(t, p)
  BY <1>2, <1>3, <1>4, ElemsTail
<1>6. /\ n \in Kids(p) /\ ~Started(n) /\ ~Ended(n) /\ Place(Call(n)) = "none" /\ event[n] = "none"
      /\ n \in Contexts \ {Root} /\ n # p
  <2>1. n \in Kids(p)
    BY <1>1, <1>5, ToStartIsNew
  <2>2. n # p
    BY <2>1, NodesAssumption DEF Kids
  <2> QED
    BY <1>1, <1>5, <2>1, <2>2, ToStartIsNew, KidsLemma
<1>7. PICK r : r = Run(n) /\ r \in Threads /\ r \in DriversOf(n) /\ PlanOf(r) = n
  BY <1>3, RunLemma, DriverLemma
<1>8. Place(r) = "none" /\ Fresh(n) /\ Sound(n) /\ Knows(r, n) /\ r # t
  <2>1. Place(r) = "none"
    BY <1>3, <1>6, <1>7 DEF Started
  <2> QED
    BY <1>3, <1>7, <2>1 DEF Fresh, AnswersInv, Sound
<1>9. /\ Place(t)' = "wait" /\ Tasks(t)' = Tasks(t) /\ Place(r)' = "start" /\ Tasks(r)' = Tasks(r)
      /\ \A u \in Threads \ {t, r} : threads'[u] = threads[u]
  BY <1>3, <1>4, <1>7, <1>8 DEF Place, Tasks, PlanTypeOK
<1>10. NoBirth /\ NoSuccess
  BY <1>3 DEF NoBirth, NoSuccess
<1>11. \A m \in Contexts \ {Root} : m # n => TaskKept(m)
  BY <1>1, <1>3, <1>6, <1>7, <1>9, SpawnTasks
<1>12. Sound(p)'
  <2>1. TableKept(p) /\ (p \in plans' <=> p \in plans) /\ event'[n] = event[n]
    BY <1>3 DEF TableKept
  <2>2. \A m \in Kids(p) \ {n} : TaskKept(m)
    BY <1>11 DEF Kids
  <2>3. OwnStep(t)
    <3>1. \A u \in EndersOf(p) : u \in Threads /\ u # r
      <4>1. \A u \in EndersOf(p) : u \in Threads /\ PlanOf(u) = p
        BY DriverLemma, WatchLemma DEF EndersOf, DriversOf
      <4> QED
        BY <1>6, <1>7, <4>1
    <3> QED
      BY <1>1, <1>3, <1>9, <3>1 DEF OwnStep, Entered
  <2>4. Started(n)' /\ (Ended(n)' <=> Ended(n))
    BY <1>3, <1>7, <1>9 DEF Started, Ended
  <2> QED
    BY <1>1, <1>2, <1>3, <1>9, <1>10, <2>1, <2>2, <2>3, <2>4, SpawnSound
<1>13. Sound(n)'
  <2>1. Unborn(n) /\ EndInv(n)
    BY <1>8 DEF Sound, EndInv
  <2>2. TableKept(n) /\ NotForked(n)
    BY <1>3 DEF TableKept, NotForked
  <2>3. TasksKept(n)
    <3>1. \A m \in Kids(n) : m \in Contexts \ {Root} /\ m # n
      BY NodesAssumption DEF Kids
    <3> QED
      BY <1>11, <3>1 DEF TasksKept
  <2>4. \A u \in DriversOf(n) \ {Run(n)} : threads'[u] = threads[u]
    <3> SUFFICES ASSUME NEW u \in DriversOf(n), u # r PROVE threads'[u] = threads[u]
      BY <1>7
    <3>1. u \in Threads /\ PlanOf(u) = n
      BY DriverLemma DEF DriversOf
    <3> QED
      BY <1>1, <1>6, <1>9, <3>1
  <2>5. Tasks(Run(n))' = <<>>
    <3>1. Tasks(r) = <<>>
      BY <1>8 DEF Knows
    <3>2. Tasks(r)' = <<>>
      BY <1>9, <3>1
    <3> QED
      BY <1>7, <3>2
  <2>6. context'[n] # "succeeded" /\ told'[n] = "nothing"
    BY <1>3, <1>7, <1>8, <2>1 DEF Unborn
  <2>7. n \in aborted' => told'[n] = "error"
    BY <1>3, <2>1 DEF EndInv
  <2>8. Place(Run(n))' = "start"
    BY <1>7, <1>9
  <2>9. Place(Watch(n))' = "none" /\ Place(Call(n))' = "none"
    <3>1. Watch(n) \in Threads /\ Watch(n) # t /\ Watch(n) # r
      BY <1>3, <1>7, WatchLemma DEF DriversOf
    <3>2. Call(n) \in Threads /\ Call(n) # t /\ Call(n) # r
      BY <1>3, <1>6, <1>7, CallLemma, DriverLemma
    <3> QED
      BY <1>6, <1>9, <2>1, <3>1, <3>2 DEF Unborn, Place
  <2>10. Unborn(n)'
    BY <1>3, <1>6, <2>1, <2>6, <2>8, <2>9 DEF Unborn
  <2> QED
    BY <1>3, <1>8, <2>2, <2>3, <2>4, <2>5, <2>6, <2>7, <2>8, <2>10, BirthSound
<1>14. ASSUME NEW q \in Plans, q # p, q # n PROVE Sound(q)'
  BY <1>1, <1>3, <1>6, <1>7, <1>9, <1>10, <1>14, SpawnOthers
<1> QED
  BY <1>12, <1>13, <1>14 DEF AnswersInv

-----------------------------------------------------------------------------
(* Plans that are told how they ended *)

\* t tells that p ended with said, or refuses to start it.
Tells(t, p, said) ==
  /\ Place(t) # "none" /\ Place(t) # "refused" /\ Place(t)' \notin Untaken
  /\ \A u \in Threads \ {t} : threads'[u] = threads[u]
  /\ told[p] = "nothing" /\ told'[p] = said /\ \A q \in Plans \ {p} : told'[q] = told[q]
  /\ p # Root => event'[p] = said \/ (event'[p] = event[p] /\ said # "ok")
  /\ \A n \in Contexts \ {Root} : n # p => event'[n] = event[n]
  /\ aborted \subseteq aborted' /\ aborted' \subseteq aborted \cup {p}
  /\ UNCHANGED <<plans, order, responses, batch, seen, task>>
  /\ NoBirth /\ \A q \in Plans \ {p} : context'[q] = "succeeded" => context[q] = "succeeded"

LEMMA TellsTasks ==
  ASSUME NEW p \in Plans, NEW t \in EndersOf(p), NEW said, Tells(t, p, said),
         NEW n \in Contexts \ {Root}, n # p
  PROVE  TaskKept(n)
<1>1. \A u \in Threads \ {t} : Place(u)' = Place(u)
  BY DEF Tells, Place
<1>2. PlanOf(t) = p
  BY DriverLemma, WatchLemma DEF EndersOf, DriversOf
<1>3. n \in Plans => Place(Run(n))' = Place(Run(n))
  BY <1>1, <1>2, RunLemma, DriverLemma
<1>4. CallKept(n)
  <2>1. Call(n) = t \/ Place(Call(n))' = Place(Call(n))
    BY <1>1, CallLemma, DriverLemma
  <2> QED
    BY <2>1 DEF CallKept, Tells, Untaken
<1> QED
  BY <1>3, <1>4, SameTask DEF Tells

\* Only the plan itself, and its parent, are concerned.
LEMMA TellsOthers ==
  ASSUME PlanTypeOK, AnswersInv, Evolves, NEW p \in Plans, NEW t \in EndersOf(p),
         NEW said \in {"ok", "error"}, Tells(t, p, said), Place(Run(p)) # "none",
         NEW q \in Plans, q # p
  PROVE  Sound(q)'
<1>1. PlanOf(t) = p /\ t \in Threads
  BY DriverLemma, WatchLemma DEF EndersOf, DriversOf
<1>2. ThreadsKept(q)
  <2> SUFFICES ASSUME NEW u \in EndersOf(q) PROVE threads'[u] = threads[u]
    BY DEF ThreadsKept
  <2>1. u \in Threads /\ PlanOf(u) = q
    BY DriverLemma, WatchLemma DEF EndersOf, DriversOf
  <2> QED
    BY <1>1, <2>1 DEF Tells
<1>3. OwnKept(q)
  <2>1. q # Root => q \in Contexts \ {Root} /\ TaskKept(q)
    BY NodesAssumption, TellsTasks
  <2>2. q # Root => event'[q] = event[q] /\ (Place(Call(q)) = "none" => Place(Call(q))' = "none")
    BY <2>1 DEF TaskKept, CallKept
  <2>3. q \in aborted' => q \in aborted
    BY DEF Tells
  <2> QED
    BY <2>2, <2>3 DEF Tells, OwnKept, TableKept, NotForked, NoBirth, Kids
<1>4. \A n \in Kids(q) : n # p => TaskKept(n)
  BY TellsTasks DEF Kids
<1>5. CASE p \notin Kids(q)
  BY <1>2, <1>3, <1>4, <1>5, UnconcernedSound DEF TasksKept
<1>6. CASE p \in Kids(q)
  <2>1. /\ TaskInv(p) /\ p # Root /\ Parent[p] = q /\ ~Ended(p) /\ Started(p)
    BY <1>6 DEF AnswersInv, Sound, Kids, Tells, Started, Ended
  <2>2. event[p] = "none" /\ Place(Call(p)) = "none" /\ ~Answered(p)
    BY <2>1 DEF TaskInv, Tells, Answered
  <2>3. Call(p) \in Threads /\ Call(p) # t
    BY <2>1, <1>1, CallLemma, DriverLemma, NodesAssumption
  <2>4. Place(Call(p))' = "none"
    BY <2>2, <2>3 DEF Tells, Place
  <2>5. Place(Run(p)) # "refused" \/ t # Run(p)
    BY DEF Tells
  <2>6. /\ Place(Run(p))' # "none"
        /\ Place(Run(p)) = "refused" => Place(Run(p))' = "refused"
    <3>1. Run(p) \in Threads
      BY RunLemma, DriverLemma
    <3>2. CASE Run(p) = t
      BY <3>2 DEF Tells, Untaken
    <3>3. CASE Run(p) # t
      BY <3>1, <3>3 DEF Tells, Place
    <3> QED
      BY <3>2, <3>3
  <2>7. Started(p)' /\ Ended(p)' /\ (said = "ok" => Answered(p)')
    BY <2>6 DEF Started, Ended, Answered, Tells
  <2>8. Cur(q)' = Cur(q) /\ Now(q)' = Now(q) /\ Past(q)' = Past(q) /\ Elems(order[q])' = Elems(order[q])
    BY CurKept DEF Elems, Tells
  <2>9. TaskInv(p)'
    <3>1. event'[p] = said \/ (event'[p] = "none" /\ said # "ok")
      BY <2>1, <2>2 DEF Tells
    <3>2. /\ event'[p] # "none" => Ended(p)' /\ Place(Call(p))' = "none"
          /\ Place(Call(p))' # "none" => Ended(p)'
          /\ event'[p] = "ok" \/ Place(Call(p))' \in {"check", "collect"} => Answered(p)'
      BY <2>4, <2>7, <3>1
    <3>3. p \notin responses[q] /\ p \in Elems(order[q]) /\ p \in Now(q) \cup Past(q)
      BY <2>1, <2>2 DEF TaskInv, Settled
    <3>4. p \notin responses'[q] /\ p \in Elems(order[q])' /\ p \in Now(q)' \cup Past(q)'
      BY <2>8, <3>3 DEF Tells
    <3> QED
      BY <2>1, <2>7, <3>2, <3>4 DEF TaskInv
  <2>10. LostKept(p)
    BY <2>1, <2>2, <2>6 DEF LostKept
  <2> QED
    BY <1>2, <1>3, <1>4, <1>6, <2>1, <2>2, <2>7, <2>9, <2>10, ParentSound
<1> QED
  BY <1>5, <1>6

LEMMA RefuseSound ==
  ASSUME PlanTypeOK, AnswersInv, Evolves, NEW t \in Drivers, Refuse(t)
  PROVE  AnswersInv'
<1>1. PICK p \in Plans : p = PlanOf(t) /\ t = Run(p) /\ t \in DriversOf(p) /\ t \in Threads
                         /\ Sound(p) /\ p \in Contexts
  BY DriverLemma, NodesAssumption DEF Refuse, AnswersInv
<1>2. /\ Place(t) = "start" /\ IsTerminal(p) /\ GoesWith(t, "refused", <<>>)
      /\ told' = [told EXCEPT ![p] = "error"]
      /\ UNCHANGED <<context, plans, order, responses, batch, seen, task, event>>
      /\ aborted \subseteq aborted' /\ aborted' \subseteq aborted \cup {p}
  BY <1>1 DEF Refuse, At, Place, tree_vars, table_vars, task_vars
<1>3. Fresh(p) /\ Unborn(p) /\ EndInv(p)
  BY <1>1, <1>2 DEF Fresh, Sound, EndInv
<1>4. told[p] = "nothing" /\ context[p] \in Stopped
  BY <1>1, <1>2, <1>3 DEF Unborn, IsTerminal, Terminal
<1>5. /\ Place(t)' = "refused" /\ Tasks(t)' = <<>>
      /\ \A u \in Threads \ {t} : threads'[u] = threads[u]
      /\ told'[p] = "error" /\ \A q \in Plans \ {p} : told'[q] = told[q]
  BY <1>1, <1>2 DEF GoesWith, Place, Tasks, PlanTypeOK
<1>6. Tells(t, p, "error") /\ t \in EndersOf(p)
  BY <1>1, <1>2, <1>4, <1>5 DEF Tells, Untaken, NoBirth, EndersOf
<1>7. ASSUME NEW q \in Plans, q # p PROVE Sound(q)'
  BY <1>1, <1>2, <1>6, <1>7, TellsOthers
<1>8. Sound(p)'
  <2>1. TableKept(p) /\ NotForked(p)
    BY <1>2 DEF TableKept, NotForked
  <2>2. TasksKept(p)
    <3>1. \A n \in Kids(p) : n \in Contexts \ {Root} /\ n # p
      BY NodesAssumption DEF Kids
    <3> QED
      BY <1>6, <3>1, TellsTasks DEF TasksKept
  <2>3. \A u \in DriversOf(p) \ {Run(p)} : threads'[u] = threads[u]
    BY <1>1, <1>5, DriverLemma DEF DriversOf
  <2>4. context'[p] # "succeeded" /\ context'[p] \in Stopped
    BY <1>2, <1>4 DEF Stopped
  <2>5. Place(Run(p))' = "refused" /\ Tasks(Run(p))' = <<>>
    BY <1>1, <1>5
  <2>6. Unborn(p)'
    <3>1. Place(Watch(p))' = "none"
      BY <1>1, <1>3, <1>5, WatchLemma DEF Place, Unborn
    <3>2. p # Root => Place(Call(p))' = "none"
      <4> SUFFICES ASSUME p # Root PROVE Place(Call(p))' = "none"
        OBVIOUS
      <4>1. Call(p) \in Threads /\ Call(p) # t
        BY <1>1, CallLemma, DriverLemma
      <4> QED
        BY <1>3, <1>5, <4>1 DEF Place, Unborn
    <3> QED
      BY <1>2, <1>3, <1>5, <2>4, <2>5, <3>1, <3>2 DEF Unborn
  <2> QED
    BY <1>1, <1>3, <1>5, <2>1, <2>2, <2>3, <2>4, <2>5, <2>6, BirthSound
<1> QED
  BY <1>7, <1>8 DEF AnswersInv

LEMMA BeginSound ==
  ASSUME PlanTypeOK, AnswersInv, Evolves, NEW t \in Drivers, Begin(t)
  PROVE  AnswersInv'
<1>1. PICK p \in Plans : p = PlanOf(t) /\ t = Run(p) /\ t \in DriversOf(p) /\ t \in Threads
                         /\ Sound(p) /\ p \in Contexts
  BY DriverLemma, NodesAssumption DEF Begin, AnswersInv
<1>2. PICK w : w = Watch(p) /\ w \in Threads /\ w # t /\ w \notin Drivers /\ PlanOf(w) = p
  BY <1>1, WatchLemma
<1>3. /\ Place(t) = "start" /\ IsLive(p) /\ TrySet(t, p, "running")
      /\ threads' = [threads EXCEPT ![t].at = "lock", ![w].at = "watching"]
      /\ plans' = plans \cup {p}
      /\ UNCHANGED <<order, responses, batch, seen, task, event, told, aborted>>
  BY <1>1, <1>2 DEF Begin, At, Place, task_vars, end_vars
<1>4. Fresh(p) /\ Unborn(p) /\ EndInv(p) /\ Knows(t, p)
  BY <1>1, <1>3 DEF Fresh, Sound, EndInv
<1>5. told[p] = "nothing" /\ p \notin plans
  BY <1>1, <1>3, <1>4 DEF Unborn
<1>6. /\ NoBirth /\ NoSuccess /\ context'[p] = "running"
  <2>1. TreeTypeOK /\ "running" \in States /\ Plans \subseteq Contexts
    BY NodesAssumption DEF PlanTypeOK, States
  <2>2. /\ NoBirth /\ \A d \in Contexts \ {p} : context'[d] = context[d]
        /\ May(p, "running") => context'[p] = "running"
        /\ ~May(p, "running") => context'[p] = context[p]
    BY <1>1, <1>3, <2>1, TrySetEffect
  <2>3. context[p] = "created" => May(p, "running")
    BY DEF May
  <2>4. context'[p] = "running"
    BY <1>3, <2>2, <2>3 DEF IsLive
  <2> QED
    BY <2>1, <2>2, <2>4 DEF NoSuccess
<1>7. /\ Place(t)' = "lock" /\ Tasks(t)' = Tasks(t) /\ Place(w)' = "watching"
      /\ \A u \in Threads \ {t, w} : threads'[u] = threads[u]
  BY <1>1, <1>2, <1>3 DEF Place, Tasks, PlanTypeOK
<1>8. \A n \in Contexts \ {Root} : TaskKept(n)
  <2> SUFFICES ASSUME NEW n \in Contexts \ {Root} PROVE TaskKept(n)
    OBVIOUS
  <2>1. \A u \in Threads \ {t, w} : Place(u)' = Place(u)
    BY <1>7 DEF Place
  <2>2. Call(n) \in Threads /\ Call(n) # t /\ Call(n) # w
    BY <1>1, <1>2, CallLemma, DriverLemma
  <2>3. CallKept(n)
    BY <2>1, <2>2 DEF CallKept
  <2>4. n \in Plans => /\ Place(Run(n))' = "none" <=> Place(Run(n)) = "none"
                       /\ Place(Run(n)) = "refused" => Place(Run(n))' = "refused"
    <3>1. n \in Plans => Run(n) = t \/ Run(n) \in Threads \ {t, w}
      BY <1>2, RunLemma, DriverLemma
    <3> QED
      BY <1>3, <1>7, <2>1, <3>1
  <2> QED
    BY <1>3, <2>3, <2>4, SameTask
<1>9. ASSUME NEW q \in Plans, q # p PROVE Sound(q)'
  <2>1. ThreadsKept(q) /\ TasksKept(q)
    <3>1. \A u \in EndersOf(q) : u \in Threads /\ PlanOf(u) = q
      BY DriverLemma, WatchLemma DEF EndersOf, DriversOf
    <3> QED
      BY <1>1, <1>2, <1>7, <1>8, <1>9, <3>1 DEF ThreadsKept, TasksKept, Kids
  <2>2. OwnKept(q)
    <3>1. q # Root => q \in Contexts \ {Root} /\ TaskKept(q)
      BY <1>8, NodesAssumption
    <3>2. q # Root => (Place(Call(q)) = "none" => Place(Call(q))' = "none")
      BY <3>1 DEF TaskKept, CallKept
    <3> QED
      BY <1>3, <1>6, <1>9, <3>2 DEF OwnKept, TableKept, NotForked, NoBirth, NoSuccess, Kids
  <2> QED
    BY <2>1, <2>2, UnconcernedSound
<1>10. Sound(p)'
  <2>1. TableKept(p) /\ TasksKept(p) /\ NotForked(p)
    BY <1>3, <1>6, <1>8 DEF TableKept, TasksKept, NotForked, NoBirth, Kids
  <2>2. \A u \in DriversOf(p) \ {Run(p)} : threads'[u] = threads[u]
    BY <1>1, <1>2, <1>7, DriverLemma DEF DriversOf
  <2>3. Tasks(Run(p))' = <<>>
    <3>1. Tasks(t) = <<>>
      BY <1>3, <1>4 DEF Knows
    <3>2. Tasks(t)' = <<>>
      BY <1>7, <3>1
    <3> QED
      BY <1>1, <3>2
  <2>4. Place(Run(p))' = "lock" /\ Place(Watch(p))' = "watching"
    BY <1>1, <1>2, <1>7
  <2>5. p \in plans' /\ told'[p] = "nothing" /\ p \notin aborted'
    BY <1>3, <1>4, <1>5 DEF EndInv
  <2> QED
    BY <1>1, <1>4, <1>6, <2>1, <2>2, <2>3, <2>4, <2>5, BirthSound
<1> QED
  BY <1>9, <1>10 DEF AnswersInv

\* What the thread that ends the plan tells is what its context retains.
LEMMA PublishSound ==
  ASSUME PlanTypeOK, AnswersInv, Evolves, NEW p \in Plans, NEW t \in EndersOf(p),
         NEW said \in {"ok", "error"}, Tells(t, p, said), Ending(t), Place(t)' = "done",
         said = "ok" => /\ Place(t) = "conclude" /\ aborted' = aborted
                        /\ context'[p] = "succeeded" /\ context[p] \notin Stopped,
         said = "error" => context'[p] \in Stopped /\ (IsTerminal(p) => context'[p] = context[p]),
         said = "error" => Place(t) = "conclude" \/ Doomed(p)
  PROVE  AnswersInv'
<1>1. /\ Sound(p) /\ EndInv(p) /\ PlanOf(t) = p /\ t \in Threads /\ p \in Contexts
      /\ DriversOf(p) \subseteq EndersOf(p) /\ Watch(p) \in EndersOf(p)
  BY DriverLemma, WatchLemma, NodesAssumption DEF AnswersInv, Sound, EndersOf, DriversOf
<1>2. ~Fresh(p) /\ Place(Run(p)) # "none"
  <2>1. CASE t \in DriversOf(p)
    BY <1>1, <2>1, EnteredLemma DEF Ending, Entered, Fresh
  <2>2. CASE t = Watch(p)
    BY <1>1, <2>2 DEF EndInv, Unborn, Ending, Fresh
  <2> QED
    BY <2>1, <2>2 DEF EndersOf
<1>3. \A q \in Plans \ {p} : Sound(q)'
  BY <1>2, TellsOthers
<1>4. /\ TableKept(p) /\ NotForked(p) /\ (p \in plans' <=> p \in plans) /\ UNCHANGED <<plans, batch, seen, task>>
  BY DEF Tells, TableKept, NotForked, NoBirth, Kids
<1>5. \A n \in Kids(p) : TaskKept(n)
  BY TellsTasks, NodesAssumption DEF Kids
<1>6. \A n \in Kids(p) : TaskInv(n)'
  BY <1>1, <1>4, <1>5, TaskStays DEF Sound, TableKept, NotForked
<1>7. ASSUME NEW u \in EndersOf(p), u # t
      PROVE  /\ threads'[u] = threads[u] /\ Place(u)' = Place(u) /\ ~Ending(u) /\ ~Ending(u)'
             /\ ToStart(u, p)' = ToStart(u, p)
             /\ (Moving(u)' <=> Moving(u)) /\ (Leads(u)' <=> Leads(u))
  <2>1. u \in Threads
    BY DriverLemma, WatchLemma DEF EndersOf, DriversOf
  <2>2. threads'[u] = threads[u]
    BY <1>7, <2>1 DEF Tells
  <2>3. ~Ending(u)
    BY <1>1, <1>7 DEF EndInv
  <2> QED
    BY <1>4, <2>2, <2>3, SameThread
<1>8. /\ ~Leads(t)' /\ ~Moving(t)' /\ ~Ending(t)' /\ ToStart(t, p)' = {} /\ Knows(t, p)'
  BY IdleKnows DEF Ending
<1>9. \A u \in DriversOf(p) : Knows(u, p)'
  <2> SUFFICES ASSUME NEW u \in DriversOf(p), u # t PROVE Knows(u, p)'
    BY <1>8
  <2>1. threads'[u] = threads[u] /\ Knows(u, p)
    BY <1>1, <1>7 DEF Sound
  <2>2. \A n \in Kids(p) : Started(n)' <=> Started(n)
    BY <1>5 DEF TaskKept
  <2> QED
    BY <1>4, <2>1, <2>2, KnowsStays DEF TableKept
<1>10. Alone(p)'
  BY <1>1, <1>7, <1>8 DEF Sound, Alone
<1>11. HeardInv(p)'
  <2>1. batch[p] \in Nat /\ batch[p] <= Len(Batches[p]) /\ batch'[p] = batch[p] /\ seen'[p] = seen[p]
    BY <1>4 DEF PlanTypeOK
  <2> QED
    BY <1>1, <1>5, <2>1, HeardStays DEF Sound, TaskKept
<1>12. NoLeader(p) /\ TasksKept(p)
  BY <1>1, <1>5, <1>7, <1>8 DEF NoLeader, TasksKept
<1>13. Place(t) = "conclude" =>
         /\ order[p] = <<>> /\ AllStarted(p) /\ t \in DriversOf(p)
         /\ \A u \in DriversOf(p) : u # t => ~Moving(u)
  <2> SUFFICES ASSUME Place(t) = "conclude"
               PROVE  /\ order[p] = <<>> /\ AllStarted(p) /\ t \in DriversOf(p)
                      /\ \A u \in DriversOf(p) : u # t => ~Moving(u)
    OBVIOUS
  <2>1. t \in DriversOf(p)
    BY <1>1 DEF EndInv, EndersOf
  <2>2. Moving(t) /\ Knows(t, p)
    BY <1>1, <2>1 DEF Moving, Sound
  <2> QED
    BY <1>1, <2>1, <2>2 DEF Sound, Alone, Leads, Knows
<1>14. Doomed(p) => Doomed(p)'
  <2> SUFFICES ASSUME Doomed(p) PROVE Doomed(p)'
    OBVIOUS
  <2>1. CASE Cancelled(p)
    BY <1>1, <2>1 DEF Evolves, Doomed, Cancelled, IsTerminal, Terminal, Stopped
  <2>2. CASE ~Cancelled(p)
    <3>1. Place(t) # "conclude"
      BY <1>13, <2>2 DEF Doomed, Moving
    <3>2. said = "error"
      BY <3>1
    <3>3. ContextKept(p)
      BY <1>1, <3>2 DEF ContextKept, Evolves, Stopped
    <3> QED
      BY <1>4, <1>12, <3>3, DoomedStays, KeptIsLostKept DEF TableKept
  <2> QED
    BY <2>1, <2>2
<1>15. said = "error" => Doomed(p)'
  <2> SUFFICES ASSUME said = "error", Place(t) = "conclude" PROVE Doomed(p)'
    BY <1>14
  <2>1. order'[p] = <<>> /\ \A u \in DriversOf(p) : ~Moving(u)'
    BY <1>1, <1>4, <1>7, <1>8, <1>13 DEF TableKept
  <2>2. context'[p] # "succeeded"
    BY DEF Stopped
  <2> QED
    BY <2>1, <2>2 DEF Doomed
<1>16. said = "ok" => \A u \in DriversOf(p) : Place(u)' \notin {"remove", "fail", "abort"}
  <2> SUFFICES ASSUME said = "ok", NEW u \in DriversOf(p), u # t
               PROVE  Place(u)' \notin {"remove", "fail", "abort"}
    OBVIOUS
  <2>1. ~Doomed(p)
    BY <1>13 DEF Doomed, Moving, Cancelled, Stopped
  <2>2. Place(u)' = Place(u)
    BY <1>1, <1>7
  <2> QED
    BY <1>1, <2>1, <2>2 DEF EndInv
<1>17. EndInv(p)'
  <2>1. ~Fresh(p)'
    <3>1. Run(p) \in EndersOf(p)
      BY <1>1, RunLemma
    <3> QED
      BY <1>2, <1>7, <3>1 DEF Fresh
  <2>2. context'[p] \notin {"none", "created"}
    BY <1>1, <1>2 DEF Evolves, EndInv
  <2>3. order'[p] # <<>> => order'[p] = Cur(p)'
    BY <1>1, <1>4, CurKept DEF EndInv, TableKept
  <2>4. p \notin plans' /\ told'[p] = said
    BY <1>1, <1>4 DEF EndInv, Tells
  <2>5. \A u \in EndersOf(p) : ~Ending(u)'
    BY <1>7, <1>8
  <2>6. said = "ok" =>
          /\ context'[p] = "succeeded" /\ order'[p] = <<>> /\ AllStarted(p)'
          /\ \A u \in DriversOf(p) : ~Moving(u)'
    <3> SUFFICES ASSUME said = "ok"
                 PROVE  /\ context'[p] = "succeeded" /\ order'[p] = <<>> /\ AllStarted(p)'
                        /\ \A u \in DriversOf(p) : ~Moving(u)'
      OBVIOUS
    <3>1. AllStarted(p)'
      BY <1>4, <1>5, <1>13, AllStartedStays DEF TaskKept
    <3>2. order'[p] = <<>>
      BY <1>4, <1>13 DEF TableKept
    <3>3. \A u \in DriversOf(p) : ~Moving(u)'
      BY <1>1, <1>7, <1>8, <1>13
    <3> QED
      BY <3>1, <3>2, <3>3
  <2>7. said = "error" => context'[p] \in Stopped /\ context'[p] # "succeeded" /\ Doomed(p)'
    BY <1>15 DEF Stopped
  <2>8. p \in aborted' => said = "error"
    <3>1. p \notin aborted
      BY <1>1 DEF EndInv, Tells
    <3> QED
      BY <3>1
  <2>9. \A u \in DriversOf(p) : Place(u)' \in {"remove", "fail", "abort"} => Doomed(p)'
    BY <1>15, <1>16
  <2>10. /\ \A u \in DriversOf(p) : Place(u)' # "abort"
         /\ Place(Watch(p))' \notin {"stop", "conclude", "fail", "abort"}
    BY <1>1, <2>5 DEF Ending
  <2> QED
    BY <2>1, <2>2, <2>3, <2>4, <2>5, <2>6, <2>7, <2>8, <2>9, <2>10 DEF EndInv
<1>18. Sound(p)'
  BY <1>6, <1>9, <1>10, <1>11, <1>17 DEF Sound
<1> QED
  BY <1>3, <1>18 DEF AnswersInv

\* Of a plan that has yet to be told, how it is told.
LEMMA PublishTells ==
  ASSUME PlanTypeOK, AnswersInv, NEW p \in Plans, NEW t \in EndersOf(p),
         NEW said \in {"ok", "error"}, Publish(p, said), GoesWith(t, "done", <<>>), Ending(t),
         aborted' = aborted \/ aborted' = aborted \cup {p},
         UNCHANGED <<plans, order, responses, batch, seen, task>>,
         NoBirth, \A q \in Plans \ {p} : context'[q] = "succeeded" => context[q] = "succeeded"
  PROVE  Tells(t, p, said) /\ Place(t)' = "done"
<1>1. t \in Threads /\ p \in Contexts /\ told[p] = "nothing"
  BY DriverLemma, WatchLemma, NodesAssumption DEF EndersOf, DriversOf, AnswersInv, Sound, EndInv
<1>2. /\ Place(t)' = "done" /\ \A u \in Threads \ {t} : threads'[u] = threads[u]
  BY <1>1 DEF GoesWith, Place, PlanTypeOK
<1>3. told'[p] = said /\ \A q \in Plans \ {p} : told'[q] = told[q]
  BY DEF Publish, PlanTypeOK
<1>4. /\ p # Root => event'[p] = said
      /\ \A n \in Contexts \ {Root} : n # p => event'[n] = event[n]
  BY <1>1 DEF Publish, PlanTypeOK
<1>5. aborted \subseteq aborted' /\ aborted' \subseteq aborted \cup {p}
  OBVIOUS
<1> QED
  BY <1>1, <1>2, <1>3, <1>4, <1>5 DEF Tells, Ending, Untaken

LEMMA ConcludeSound ==
  ASSUME PlanTypeOK, AnswersInv, Evolves, NEW t \in Drivers, Conclude(t)
  PROVE  AnswersInv'
<1>1. PICK p \in Plans : p = PlanOf(t) /\ t \in DriversOf(p) /\ t \in EndersOf(p) /\ t \in Threads
                         /\ EndInv(p) /\ Sound(p)
  BY DriverLemma DEF AnswersInv, EndersOf, Sound
<1>2. /\ Place(t) = "conclude" /\ TrySet(t, p, "succeeded") /\ GoesWith(t, "done", <<>>)
      /\ UNCHANGED <<plans, order, responses, batch, seen, task>>
  BY <1>1 DEF Conclude, At, Place, table_vars
<1>3. /\ context[p] \in Stopped => Publish(p, "error") /\ aborted' = aborted \cup {p}
      /\ context[p] \notin Stopped => Publish(p, "ok") /\ aborted' = aborted
  BY <1>1 DEF Conclude
<1>4. TreeTypeOK /\ "succeeded" \in States /\ Plans \subseteq Contexts
  BY NodesAssumption DEF PlanTypeOK, States, Terminal
<1>5. /\ NoBirth /\ \A d \in Contexts \ {p} : context'[d] = context[d]
      /\ May(p, "succeeded") => context'[p] = "succeeded"
      /\ ~May(p, "succeeded") => context'[p] = context[p]
  BY <1>1, <1>2, <1>4, TrySetEffect
<1>6. context[p] \in {"running", "succeeded"} \/ context[p] \in Stopped
  <2>1. ~Fresh(p)
    BY <1>1, <1>2, EnteredLemma DEF Entered
  <2>2. context[p] \in States
    BY <1>4 DEF TreeTypeOK
  <2> QED
    BY <1>1, <2>1, <2>2 DEF EndInv, States, Terminal
<1>7. Ending(t)
  BY <1>2 DEF Ending
<1>8. CASE context[p] \in Stopped
  <2>1. Tells(t, p, "error") /\ Place(t)' = "done"
    BY <1>1, <1>2, <1>3, <1>4, <1>5, <1>7, <1>8, PublishTells
  <2>2. context'[p] = context[p]
    BY <1>5, <1>8 DEF May, Stopped
  <2>3. context'[p] \in Stopped /\ (IsTerminal(p) => context'[p] = context[p])
    BY <1>8, <2>2 DEF Stopped
  <2> QED
    BY <1>1, <1>2, <1>7, <2>1, <2>3, PublishSound
<1>9. CASE context[p] \notin Stopped
  <2>1. Tells(t, p, "ok") /\ Place(t)' = "done"
    BY <1>1, <1>2, <1>3, <1>4, <1>5, <1>7, <1>9, PublishTells
  <2>2. context'[p] = "succeeded"
    BY <1>5, <1>6, <1>9 DEF May, Terminal
  <2> QED
    BY <1>1, <1>2, <1>3, <1>7, <1>9, <2>1, <2>2, PublishSound
<1> QED
  BY <1>8, <1>9

LEMMA AbortSound ==
  ASSUME PlanTypeOK, AnswersInv, Evolves, NEW t \in Drivers, Abort(t)
  PROVE  AnswersInv'
<1>1. PICK p \in Plans : p = PlanOf(t) /\ t \in DriversOf(p) /\ t \in EndersOf(p) /\ EndInv(p)
  BY DriverLemma DEF AnswersInv, EndersOf, Sound
<1>2. /\ Place(t) = "abort" /\ GoesWith(t, "done", <<>>) /\ Publish(p, "error")
      /\ aborted' = aborted \cup {p}
      /\ UNCHANGED <<context, plans, order, responses, batch, seen, task>>
  BY <1>1 DEF Abort, At, Place, tree_vars
<1>3. context[p] \in Stopped /\ Doomed(p)
  BY <1>1, <1>2 DEF EndInv
<1>4. Ending(t) /\ NoBirth
  BY <1>2 DEF Ending, NoBirth
<1>5. Tells(t, p, "error") /\ Place(t)' = "done"
  BY <1>1, <1>2, <1>4, PublishTells
<1>6. context'[p] \in Stopped /\ (IsTerminal(p) => context'[p] = context[p])
  BY <1>2, <1>3 DEF Stopped
<1> QED
  BY <1>1, <1>3, <1>4, <1>5, <1>6, PublishSound

LEMMA StopSound ==
  ASSUME PlanTypeOK, AnswersInv, Evolves, NEW t \in WatchThreads, Stop(t)
  PROVE  AnswersInv'
<1>1. PICK p \in Plans : p = PlanOf(t) /\ t = Watch(p) /\ t \in EndersOf(p) /\ EndInv(p)
  BY WatchLemma DEF WatchThreads, AnswersInv, EndersOf, Sound
<1>2. /\ Place(t) = "stop" /\ GoesWith(t, "done", <<>>) /\ Publish(p, "error")
      /\ aborted' = aborted \cup {p}
      /\ UNCHANGED <<context, plans, order, responses, batch, seen, task>>
  BY <1>1 DEF Stop, At, Place, tree_vars, table_vars
<1>3. context[p] \in Stopped /\ Doomed(p)
  BY <1>1, <1>2 DEF EndInv, Cancelled, Doomed, Stopped
<1>4. Ending(t) /\ NoBirth
  BY <1>2 DEF Ending, NoBirth
<1>5. Tells(t, p, "error") /\ Place(t)' = "done"
  BY <1>1, <1>2, <1>4, PublishTells
<1>6. context'[p] \in Stopped /\ (IsTerminal(p) => context'[p] = context[p])
  BY <1>2, <1>3 DEF Stopped
<1> QED
  BY <1>1, <1>3, <1>4, <1>5, <1>6, PublishSound

LEMMA ObserveSound ==
  ASSUME PlanTypeOK, AnswersInv, Evolves, NEW t \in WatchThreads, Observe(t)
  PROVE  AnswersInv'
<1>1. PICK p \in Plans : p = PlanOf(t) /\ t = Watch(p) /\ t \in EndersOf(p) /\ t \notin Drivers
                         /\ t \in Threads /\ EndInv(p) /\ Sound(p) /\ p \in Contexts
  BY WatchLemma, NodesAssumption DEF WatchThreads, AnswersInv, EndersOf, Sound
<1>2. PICK place \in {"stop", "done"} :
        /\ Place(t)' = place /\ \A u \in Threads \ {t} : threads'[u] = threads[u]
        /\ \/ place = "stop" /\ Cancelled(p) /\ p \in plans /\ plans' = plans \ {p}
           \/ place = "done" /\ p \notin plans /\ plans' = plans
  <2>1. CASE Cancelled(p) /\ p \in plans /\ plans' = plans \ {p} /\ Goes(t, "stop")
    BY <1>1, <2>1 DEF Goes, Place, PlanTypeOK
  <2>2. CASE p \notin plans /\ GoesWith(t, "done", <<>>) /\ UNCHANGED plans
    BY <1>1, <2>2 DEF GoesWith, Place, PlanTypeOK
  <2> QED
    BY <1>1, <2>1, <2>2 DEF Observe
<1>3. /\ Place(t) = "watching"
      /\ UNCHANGED <<context, order, responses, batch, seen, task, event, told, aborted>>
  BY <1>1 DEF Observe, At, Place, tree_vars, task_vars, end_vars
<1>4. \A u \in Drivers : u \in Threads /\ threads'[u] = threads[u] /\ Place(u)' = Place(u)
  BY <1>1, <1>2, DriverLemma DEF Place
<1>5. \A n \in Contexts \ {Root} : TaskKept(n)
  <2> SUFFICES ASSUME NEW n \in Contexts \ {Root} PROVE TaskKept(n)
    OBVIOUS
  <2>1. CallKept(n) /\ (n \in Plans => Place(Run(n))' = Place(Run(n)))
    BY <1>4, CallLemma, RunLemma DEF CallKept
  <2> QED
    BY <1>3, <2>1, SameTask
<1>6. \A q \in Plans : TableKept(q) /\ NotForked(q) /\ TasksKept(q)
  BY <1>3, <1>5 DEF TableKept, NotForked, TasksKept, Kids
<1>7. ASSUME NEW q \in Plans, q # p PROVE Sound(q)'
  <2>1. ThreadsKept(q)
    <3>1. \A u \in EndersOf(q) : u \in Threads /\ PlanOf(u) = q
      BY DriverLemma, WatchLemma DEF EndersOf, DriversOf
    <3> QED
      BY <1>1, <1>2, <1>7, <3>1 DEF ThreadsKept
  <2>2. OwnKept(q)
    <3>1. q # Root => Place(Call(q))' = Place(Call(q))
      BY <1>4, CallLemma, NodesAssumption
    <3>2. q # Root => event'[q] = event[q]
      BY <1>3
    <3> QED
      BY <1>2, <1>3, <1>6, <1>7, <3>1, <3>2 DEF OwnKept
  <2> QED
    BY <1>6, <2>1, <2>2, UnconcernedSound
<1>8. \A n \in Kids(p) : TaskInv(n)'
  BY <1>1, <1>6, TaskStays DEF Sound, TableKept, NotForked, TasksKept
<1>9. \A u \in DriversOf(p) : /\ threads'[u] = threads[u] /\ Place(u)' = Place(u)
                              /\ ToStart(u, p)' = ToStart(u, p)
                              /\ (Moving(u)' <=> Moving(u)) /\ (Leads(u)' <=> Leads(u))
                              /\ (Ending(u)' <=> Ending(u)) /\ u # t
  <2> SUFFICES ASSUME NEW u \in DriversOf(p)
               PROVE  /\ threads'[u] = threads[u] /\ Place(u)' = Place(u)
                      /\ ToStart(u, p)' = ToStart(u, p)
                      /\ (Moving(u)' <=> Moving(u)) /\ (Leads(u)' <=> Leads(u))
                      /\ (Ending(u)' <=> Ending(u)) /\ u # t
    OBVIOUS
  <2>1. u \in Drivers /\ threads'[u] = threads[u]
    BY <1>4 DEF DriversOf
  <2> QED
    BY <1>1, <1>4, <1>6, <2>1, SameThread DEF TableKept
<1>10. \A u \in DriversOf(p) : Knows(u, p)'
  <2>1. \A n \in Kids(p) : Started(n)' <=> Started(n)
    BY <1>6 DEF TasksKept, TaskKept
  <2> QED
    BY <1>1, <1>6, <1>9, <2>1, KnowsStays DEF Sound, TableKept
<1>11. Alone(p)'
  BY <1>1, <1>9 DEF Sound, Alone
<1>12. HeardInv(p)'
  <2>1. batch[p] \in Nat /\ batch[p] <= Len(Batches[p]) /\ batch'[p] = batch[p] /\ seen'[p] = seen[p]
    BY <1>6 DEF PlanTypeOK, TableKept
  <2> QED
    BY <1>1, <1>6, <2>1, HeardStays DEF Sound, TasksKept, TaskKept
<1>13. EndInv(p)'
  <2>1. ~Fresh(p) /\ ~Fresh(p)' /\ context'[p] \notin {"none", "created"}
    <3>1. ~Fresh(p)
      BY <1>1, <1>3 DEF EndInv, Unborn
    <3> QED
      BY <1>1, <1>3, <1>9, <3>1, RunLemma DEF EndInv, Fresh
  <2>2. order'[p] # <<>> => order'[p] = Cur(p)'
    BY <1>1, <1>3, CurKept DEF EndInv
  <2>3. Doomed(p) => Doomed(p)'
    <3>1. ContextKept(p) /\ NoLeader(p)
      BY <1>3, <1>9 DEF ContextKept, NoLeader
    <3> QED
      BY <1>6, <3>1, DoomedStays, KeptIsLostKept DEF TableKept
  <2>4. ~Ending(t) /\ (place = "done" => ~Ending(t)') /\ (place = "stop" => Ending(t)')
    BY <1>2, <1>3 DEF Ending
  <2>5. \A u \in EndersOf(p) : u = t \/ u \in DriversOf(p)
    BY <1>1 DEF EndersOf
  <2>6. AllStarted(p) => AllStarted(p)'
    BY <1>3, <1>6, AllStartedStays DEF TasksKept, TaskKept
  <2>7. /\ told'[p] = "ok" =>
             /\ context'[p] = "succeeded" /\ order'[p] = <<>> /\ AllStarted(p)'
             /\ \A u \in DriversOf(p) : ~Moving(u)'
        /\ told'[p] = "error" => context'[p] \in Stopped /\ Doomed(p)'
        /\ p \in aborted' => told'[p] = "error"
        /\ context'[p] = "succeeded" =>
             told'[p] = "ok" \/ \E u \in DriversOf(p) : Place(u)' \in {"finish", "conclude"}
        /\ \A u \in DriversOf(p) : Place(u)' \in {"remove", "fail", "abort"} => Doomed(p)'
        /\ \A u \in DriversOf(p) : Place(u)' = "abort" => context'[p] \in Stopped
    BY <1>1, <1>3, <1>9, <2>3, <2>6 DEF EndInv, Stopped
  <2>8. /\ Place(Watch(p))' = "stop" => Cancelled(p)'
        /\ Place(Watch(p))' \notin {"conclude", "fail", "abort"}
    BY <1>1, <1>2, <1>3 DEF Cancelled
  <2>9. /\ p \in plans' => told'[p] = "nothing" /\ \A u \in EndersOf(p) : ~Ending(u)'
        /\ \A u \in EndersOf(p) : Ending(u)' => told'[p] = "nothing"
        /\ \A u, v \in EndersOf(p) : Ending(u)' /\ Ending(v)' => u = v
        /\ p \notin plans' => told'[p] # "nothing" \/ \E u \in EndersOf(p) : Ending(u)'
    <3>1. CASE place = "stop"
      <4>1. told'[p] = "nothing" /\ p \notin plans' /\ \A u \in DriversOf(p) : ~Ending(u)'
        BY <1>1, <1>2, <1>3, <1>9, <3>1 DEF EndInv, EndersOf
      <4> QED
        BY <1>1, <2>4, <2>5, <3>1, <4>1
    <3>2. CASE place = "done"
      <4>1. \A u \in EndersOf(p) : Ending(u)' <=> Ending(u)
        BY <1>9, <2>4, <2>5, <3>2
      <4>2. p \notin plans' /\ p \notin plans
        BY <1>2, <3>2
      <4> QED
        BY <1>1, <1>3, <2>1, <4>1, <4>2 DEF EndInv
    <3> QED
      BY <3>1, <3>2
  <2> QED
    BY <2>1, <2>2, <2>7, <2>8, <2>9 DEF EndInv
<1>14. Sound(p)'
  BY <1>8, <1>10, <1>11, <1>12, <1>13 DEF Sound
<1> QED
  BY <1>7, <1>14 DEF AnswersInv

-----------------------------------------------------------------------------
(* The form of the state *)

\* PlanTypeOK without the tree, whose form ContextTree keeps.
PlanForm ==
  /\ plans \subseteq Plans /\ aborted \subseteq Plans
  /\ lock \in [Plans -> Threads \cup {Free}]
  /\ order \in [Plans -> Seq(Contexts \ {Root})]
  /\ responses \in [Plans -> SUBSET (Contexts \ {Root})]
  /\ batch \in [Plans -> Nat] /\ \A p \in Plans : batch[p] <= Len(Batches[p])
  /\ seen \in [Plans -> Seq(Contexts \ {Root})]
  /\ threads \in [Threads -> [at : Places, rest : Seq(Contexts \ {Root})]]
  /\ task \in [Leaves -> {"none", "running", "ended"}]
  /\ event \in [Contexts \ {Root} -> {"none", "ok", "error"}]
  /\ stream \in [Leaves -> {"none", "open", "closed"}]
  /\ told \in [Plans -> {"nothing", "ok", "error"}]

LEMMA FormLemma == PlanTypeOK <=> TreeTypeOK /\ PlanForm
BY DEF PlanTypeOK, PlanForm

LEMMA GoesForm ==
  ASSUME PlanForm, NEW t \in Threads, NEW place \in Places, NEW rest \in Seq(Contexts \ {Root}),
         Goes(t, place) \/ GoesWith(t, place, rest)
  PROVE  threads' \in [Threads -> [at : Places, rest : Seq(Contexts \ {Root})]]
<1>1. CASE Goes(t, place)
  BY <1>1 DEF Goes, PlanForm
<1>2. CASE GoesWith(t, place, rest)
  BY <1>2 DEF GoesWith, PlanForm
<1> QED
  BY <1>1, <1>2

LEMMA AsksForm ==
  ASSUME PlanTypeOK, AnswersInv, NEW t \in Drivers, Asks(t)
  PROVE  PlanForm'
<1>1. PlanForm /\ {"asking", "next", "forking", "remove", "finish", "advance"} \subseteq Places
  BY FormLemma DEF Places
<1>2. PICK p \in Plans : /\ p = PlanOf(t) /\ t \in Threads /\ Knows(t, p) /\ p \in Contexts
                         /\ t \in DriversOf(p)
  BY DriverLemma, NodesAssumption DEF AnswersInv, Sound
<1>3. PICK s \in Seq(Contexts \ {Root}) : s = Tasks(t) /\ Len(s) \in Nat
  BY <1>2, ToStartKids
<1>4. <<>> \in Seq(Contexts \ {Root})
  OBVIOUS
<1>5. CASE GiveResponse(t)
  <2>1. s # <<>>
    BY <1>2, <1>3, <1>5 DEF GiveResponse, At, Place, Knows
  <2>2. Head(s) \in Contexts \ {Root} /\ Tail(s) \in Seq(Contexts \ {Root})
    BY <2>1, ElemsTail
  <2>3. /\ seen' = [seen EXCEPT ![p] = Append(seen[p], Head(s))]
        /\ GoesWith(t, "asking", Tail(s))
        /\ UNCHANGED <<plans, lock, order, responses, batch, task, event, stream, told, aborted>>
    BY <1>2, <1>3, <1>5 DEF GiveResponse, task_vars, end_vars
  <2>4. seen' \in [Plans -> Seq(Contexts \ {Root})]
    BY <1>1, <2>2, <2>3 DEF PlanForm
  <2>5. threads' \in [Threads -> [at : Places, rest : Seq(Contexts \ {Root})]]
    BY <1>1, <1>2, <2>2, <2>3, GoesForm
  <2> QED
    BY <1>1, <2>3, <2>4, <2>5 DEF PlanForm
<1>6. CASE AskTasks(t)
  <2>1. /\ batch' = [batch EXCEPT ![p] = @ + 1] /\ NextBatch(p) # <<>>
        /\ GoesWith(t, "forking", NextBatch(p))
        /\ UNCHANGED <<plans, lock, order, responses, seen, task, event, stream, told, aborted>>
    BY <1>2, <1>6 DEF AskTasks, task_vars, end_vars
  <2>2. batch[p] < Len(Batches[p]) /\ NextBatch(p) = Batches[p][batch[p] + 1]
    BY <2>1 DEF NextBatch
  <2>3. Batches[p] \in Seq(Seq(Contexts \ {Root})) /\ Len(Batches[p]) \in Nat
    BY BatchesAssumption
  <2>4. batch[p] + 1 \in 1..Len(Batches[p])
    BY <1>1, <2>2, <2>3 DEF PlanForm
  <2>5. NextBatch(p) \in Seq(Contexts \ {Root})
    BY <2>2, <2>3, <2>4
  <2>6. batch' \in [Plans -> Nat] /\ \A q \in Plans : batch'[q] <= Len(Batches[q])
    BY <1>1, <2>1, <2>4 DEF PlanForm
  <2>7. threads' \in [Threads -> [at : Places, rest : Seq(Contexts \ {Root})]]
    BY <1>1, <1>2, <2>1, <2>5, GoesForm
  <2> QED
    BY <1>1, <2>1, <2>6, <2>7 DEF PlanForm
<1>7. CASE AskNothing(t) \/ ForkPlan(t) \/ AskedTasks(t) \/ Commit(t) \/ AskEnd(t)
  <2>1. /\ lock' = lock \/ lock' = [lock EXCEPT ![p] = Free]
        /\ UNCHANGED <<plans, order, responses, batch, seen, task, event, stream, told, aborted>>
    <3>1. CASE AskNothing(t)
      BY <3>1 DEF AskNothing, table_vars, task_vars, end_vars
    <3>2. CASE ForkPlan(t)
      BY <1>2, <3>2 DEF ForkPlan, task_vars, end_vars
    <3>3. CASE AskedTasks(t)
      BY <1>2, <3>3 DEF AskedTasks, table_vars, task_vars, end_vars
    <3>4. CASE Commit(t)
      BY <1>2, <3>4 DEF Commit, task_vars, end_vars
    <3>5. CASE AskEnd(t)
      BY <1>2, <3>5 DEF AskEnd, table_vars, task_vars, end_vars
    <3> QED
      BY <1>7, <3>1, <3>2, <3>3, <3>4, <3>5
  <2>2. lock' \in [Plans -> Threads \cup {Free}]
    BY <1>1, <2>1 DEF PlanForm
  <2>3. threads' \in [Threads -> [at : Places, rest : Seq(Contexts \ {Root})]]
    <3>1. CASE threads' = threads
      BY <1>1, <3>1 DEF PlanForm
    <3>2. ASSUME NEW place \in Places, Goes(t, place) \/ GoesWith(t, place, <<>>)
          PROVE  threads' \in [Threads -> [at : Places, rest : Seq(Contexts \ {Root})]]
      BY <1>1, <1>2, <1>4, <3>2, GoesForm
    <3>3. CASE AskNothing(t)
      BY <1>1, <3>2, <3>3 DEF AskNothing
    <3>4. CASE ForkPlan(t)
      <4>1. s # <<>>
        BY <1>3, <3>4 DEF ForkPlan
      <4>2. Tail(s) \in Seq(Contexts \ {Root})
        BY <4>1, ElemsTail
      <4>3. threads' = threads \/ GoesWith(t, "forking", Tail(s)) \/ GoesWith(t, "remove", <<>>)
        BY <1>3, <3>4 DEF ForkPlan
      <4> QED
        BY <1>1, <1>2, <3>1, <3>2, <4>2, <4>3, GoesForm
    <3>5. CASE AskedTasks(t)
      <4>1. GoesWith(t, "advance", CurrentBatch(p))
        BY <1>2, <3>5 DEF AskedTasks
      <4>2. CurrentBatch(p) \in Seq(Contexts \ {Root})
        <5>1. batch[p] > 0
          BY <1>2, <3>5 DEF AskedTasks, At, Place, Knows
        <5> QED
          BY <5>1, CurLemma DEF CurrentBatch
      <4> QED
        BY <1>1, <1>2, <4>1, <4>2, GoesForm
    <3>6. CASE Commit(t)
      BY <1>1, <3>2, <3>6 DEF Commit
    <3>7. CASE AskEnd(t)
      BY <1>1, <3>2, <3>7 DEF AskEnd
    <3> QED
      BY <1>7, <3>3, <3>4, <3>5, <3>6, <3>7
  <2> QED
    BY <1>1, <2>1, <2>2, <2>3 DEF PlanForm
<1> QED
  BY <1>5, <1>6, <1>7 DEF Asks

\* Who drives a plan is in one of the places, and has tasks before it.
LEMMA DrivesThreads ==
  ASSUME PlanTypeOK, AnswersInv, NEW t \in Drivers, Drives(t)
  PROVE  threads' \in [Threads -> [at : Places, rest : Seq(Contexts \ {Root})]]
<1> DEFINE Typed == threads' \in [Threads -> [at : Places, rest : Seq(Contexts \ {Root})]]
<1>1. PlanForm /\ <<>> \in Seq(Contexts \ {Root})
  BY FormLemma
<1>2. PICK p \in Plans : /\ p = PlanOf(t) /\ t \in Threads /\ Knows(t, p) /\ p \in Contexts
                         /\ t \in DriversOf(p) /\ Sound(p)
  BY DriverLemma, NodesAssumption DEF AnswersInv, Sound
<1>3. PICK s \in Seq(Contexts \ {Root}) : s = Tasks(t)
  BY <1>2, ToStartKids
<1>4. /\ {"start", "refused", "lock", "asking", "next", "fork", "spawn", "wait"} \subseteq Places
      /\ {"conclude", "remove", "fail", "abort", "done", "watching", "collect"} \subseteq Places
  BY DEF Places
<1>5. ASSUME NEW place \in Places, Goes(t, place) \/ GoesWith(t, place, <<>>) PROVE Typed
  BY <1>1, <1>2, <1>5, GoesForm
<1>6. ASSUME NEW place \in Places, s # <<>>, GoesWith(t, place, Tail(s)) PROVE Typed
  <2>1. Tail(s) \in Seq(Contexts \ {Root})
    BY <1>6, ElemsTail
  <2> QED
    BY <1>1, <1>2, <1>6, <2>1, GoesForm
<1> SUFFICES Typed
  OBVIOUS
<1> HIDE DEF Typed
<1>7. CASE Begin(t)
  <2>1. Watch(p) \in Threads
    BY WatchLemma
  <2>2. threads' = [threads EXCEPT ![t].at = "lock", ![Watch(p)].at = "watching"]
    BY <1>2, <1>7 DEF Begin
  <2>3. PICK x : x = [threads EXCEPT ![t].at = "lock"]
    OBVIOUS
  <2>4. x \in [Threads -> [at : Places, rest : Seq(Contexts \ {Root})]]
    BY <1>1, <1>2, <1>4, <2>3 DEF PlanForm
  <2>5. threads' = [x EXCEPT ![Watch(p)].at = "watching"]
    BY <2>2, <2>3
  <2> QED
    BY <1>4, <2>1, <2>4, <2>5 DEF Typed
<1>8. CASE SpawnPlan(t)
  <2>1. PICK r \in Threads : r = Run(Head(Tasks(t)))
    BY <1>8, RunLemma, DriverLemma DEF SpawnPlan
  <2>2. threads' = [threads EXCEPT ![t].at = "wait", ![r].at = "start"]
    BY <1>8, <2>1 DEF SpawnPlan
  <2>3. PICK x : x = [threads EXCEPT ![t].at = "wait"]
    OBVIOUS
  <2>4. x \in [Threads -> [at : Places, rest : Seq(Contexts \ {Root})]]
    BY <1>1, <1>2, <1>4, <2>3 DEF PlanForm
  <2>5. threads' = [x EXCEPT ![r].at = "start"]
    BY <2>2, <2>3
  <2> QED
    BY <1>4, <2>1, <2>4, <2>5 DEF Typed
<1>9. CASE ForkTask(t)
  <2>1. s # <<>> /\ Place(t) = "fork"
    BY <1>3, <1>9 DEF ForkTask, At, Place
  <2>2. \/ GoesWith(t, "remove", <<>>) \/ GoesWith(t, "spawn", CurrentBatch(p))
        \/ GoesWith(t, "fork", Tail(s))
    BY <1>2, <1>3, <1>9 DEF ForkTask
  <2>3. CurrentBatch(p) \in Seq(Contexts \ {Root})
    <3>1. batch[p] > 0
      BY <1>2, <2>1 DEF Knows
    <3> QED
      BY <3>1, CurLemma DEF CurrentBatch
  <2> QED
    BY <1>1, <1>2, <1>4, <1>5, <1>6, <2>1, <2>2, <2>3, GoesForm DEF Typed
<1>10. CASE SpawnLeaf(t)
  <2>1. s # <<>> /\ (GoesWith(t, "spawn", Tail(s)) \/ GoesWith(t, "remove", <<>>))
    BY <1>3, <1>10 DEF SpawnLeaf
  <2> QED
    BY <1>4, <1>5, <1>6, <2>1
<1>11. CASE PlanSpawned(t)
  <2>1. s # <<>>
    BY <1>2, <1>3, <1>11 DEF PlanSpawned, At, Place, Knows
  <2>2. GoesWith(t, "spawn", Tail(s)) \/ GoesWith(t, "remove", <<>>)
    BY <1>3, <1>11 DEF PlanSpawned
  <2> QED
    BY <1>4, <1>5, <1>6, <2>1, <2>2
<1>12. CASE Collect(t)
  <2>1. GoesWith(t, "lock", order[p]) \/ GoesWith(t, "done", <<>>)
    BY <1>2, <1>12 DEF Collect
  <2>2. order[p] \in Seq(Contexts \ {Root})
    BY <1>1 DEF PlanForm
  <2> QED
    BY <1>1, <1>2, <1>4, <1>5, <2>1, <2>2, GoesForm DEF Typed
<1>13. CASE Refuse(t) \/ Lock(t) \/ Interrupted(t) \/ Aborts(t) \/ Vanished(t)
  <2>1. \/ GoesWith(t, "refused", <<>>) \/ GoesWith(t, "remove", <<>>) \/ GoesWith(t, "done", <<>>)
        \/ Goes(t, "asking") \/ Goes(t, "next")
    BY <1>13 DEF Refuse, Lock, Interrupted, Aborts, Vanished
  <2> QED
    BY <1>4, <1>5, <2>1
<1>14. CASE Advance(t) \/ Dispatched(t) \/ Finish(t) \/ Conclude(t) \/ Remove(t)
  <2>1. \/ Goes(t, "fork") \/ GoesWith(t, "done", <<>>) \/ GoesWith(t, "remove", <<>>)
        \/ Goes(t, "conclude") \/ Goes(t, "fail")
    BY <1>14 DEF Advance, Dispatched, Finish, Conclude, Remove
  <2> QED
    BY <1>4, <1>5, <2>1
<1>15. CASE Fail(t) \/ Abort(t) \/ Check(t) \/ Disregard(t) \/ TakeError(t)
  <2>1. \/ Goes(t, "abort") \/ GoesWith(t, "done", <<>>) \/ Goes(t, "collect")
        \/ GoesWith(t, "remove", <<>>) \/ Goes(t, "remove") \/ Goes(t, "done")
    BY <1>15 DEF Fail, Abort, Check, Disregard, TakeError
  <2> QED
    BY <1>4, <1>5, <2>1
<1> QED
  BY <1>7, <1>8, <1>9, <1>10, <1>11, <1>12, <1>13, <1>14, <1>15 DEF Drives, Typed

LEMMA PublishForm ==
  ASSUME PlanForm, NEW p \in Plans, NEW said \in {"ok", "error"}, Publish(p, said)
  PROVE  /\ event' \in [Contexts \ {Root} -> {"none", "ok", "error"}]
         /\ told' \in [Plans -> {"nothing", "ok", "error"}]
BY NodesAssumption DEF Publish, PlanForm

LEMMA DrivesForm ==
  ASSUME PlanTypeOK, AnswersInv, NEW t \in Drivers, Drives(t)
  PROVE  PlanForm'
<1>1. PlanForm /\ threads' \in [Threads -> [at : Places, rest : Seq(Contexts \ {Root})]]
  BY FormLemma, DrivesThreads
<1>2. PICK p \in Plans : p = PlanOf(t) /\ t \in Threads /\ t \in DriversOf(p) /\ Knows(t, p)
  BY DriverLemma DEF AnswersInv, Sound
<1>3. Tasks(t) \in Seq(Contexts \ {Root})
  BY <1>2, ToStartKids
<1>4. CASE Refuse(t)
  <2>1. /\ told' = [told EXCEPT ![p] = "error"]
        /\ aborted' \subseteq aborted \cup {p}
        /\ UNCHANGED <<table_vars, task_vars>>
    BY <1>2, <1>4 DEF Refuse
  <2> QED
    BY <1>1, <2>1 DEF PlanForm, table_vars, task_vars
<1>5. CASE Conclude(t)
  <2>1. /\ \/ Publish(p, "error") /\ aborted' = aborted \cup {p}
           \/ Publish(p, "ok") /\ aborted' = aborted
        /\ UNCHANGED <<table_vars, task, stream>>
    BY <1>2, <1>5 DEF Conclude
  <2>2. /\ event' \in [Contexts \ {Root} -> {"none", "ok", "error"}]
        /\ told' \in [Plans -> {"nothing", "ok", "error"}]
    BY <1>1, <2>1, PublishForm
  <2> QED
    BY <1>1, <2>1, <2>2 DEF PlanForm, table_vars
<1>6. CASE Abort(t)
  <2>1. /\ Publish(p, "error") /\ aborted' = aborted \cup {p}
        /\ lock' = [lock EXCEPT ![p] = Free]
        /\ UNCHANGED <<plans, order, responses, batch, seen, task, stream>>
    BY <1>2, <1>6 DEF Abort
  <2>2. /\ event' \in [Contexts \ {Root} -> {"none", "ok", "error"}]
        /\ told' \in [Plans -> {"nothing", "ok", "error"}]
    BY <1>1, <2>1, PublishForm
  <2> QED
    BY <1>1, <2>1, <2>2 DEF PlanForm
<1>7. CASE Lock(t) \/ Fail(t) \/ Interrupted(t)
  <2>1. /\ lock' = [lock EXCEPT ![p] = t] \/ lock' = [lock EXCEPT ![p] = Free]
        /\ UNCHANGED <<plans, order, responses, batch, seen, task_vars, end_vars>>
    BY <1>2, <1>7 DEF Lock, Fail, Interrupted
  <2>2. lock' \in [Plans -> Threads \cup {Free}]
    BY <1>1, <1>2, <2>1 DEF PlanForm
  <2> QED
    BY <1>1, <2>1, <2>2 DEF PlanForm, task_vars, end_vars
<1>8. CASE Begin(t) \/ Finish(t) \/ Remove(t)
  <2>1. /\ plans' = plans \cup {p} \/ plans' = plans \ {p}
        /\ UNCHANGED <<lock, order, responses, batch, seen, task_vars, end_vars>>
    BY <1>2, <1>8 DEF Begin, Finish, Remove
  <2> QED
    BY <1>1, <2>1 DEF PlanForm, task_vars, end_vars
<1>9. CASE Advance(t)
  <2>1. /\ order' = [order EXCEPT ![p] = Tasks(t)] /\ responses' = [responses EXCEPT ![p] = {}]
        /\ UNCHANGED <<plans, lock, batch, seen, task_vars, end_vars>>
    BY <1>2, <1>9 DEF Advance
  <2> QED
    BY <1>1, <1>3, <2>1 DEF PlanForm, task_vars, end_vars
<1>10. CASE SpawnLeaf(t)
  <2>1. /\ task' = task \/ task' = [task EXCEPT ![Head(Tasks(t))] = "running"]
        /\ UNCHANGED <<table_vars, event, stream, end_vars>>
    BY <1>10 DEF SpawnLeaf
  <2> QED
    BY <1>1, <2>1 DEF PlanForm, table_vars, end_vars
<1>11. CASE Collect(t)
  <2>1. PICK n \in Contexts \ {Root} : t[2] = n
    <3>1. Place(t) \in {"check", "collect", "error"}
      BY <1>11 DEF Collect, At, Place
    <3>2. \E n \in Kids(p) : t[2] = n
      BY <1>2, <3>1, CalledBack
    <3> QED
      BY <3>2 DEF Kids
  <2>2. /\ order' = order \/ order' = [order EXCEPT ![p] = <<>>]
        /\ \/ responses' = [responses EXCEPT ![p] = {}]
           \/ responses' = [responses EXCEPT ![p] = responses[p] \cup {n}]
        /\ UNCHANGED <<plans, lock, batch, seen, task_vars, end_vars>>
    BY <1>2, <1>11, <2>1 DEF Collect
  <2>3. order' \in [Plans -> Seq(Contexts \ {Root})]
    <3>1. order \in [Plans -> Seq(Contexts \ {Root})] /\ <<>> \in Seq(Contexts \ {Root})
      BY <1>1 DEF PlanForm
    <3>2. order' = order \/ order' = [order EXCEPT ![p] = <<>>]
      BY <2>2
    <3> QED
      BY <3>1, <3>2
  <2>4. responses' \in [Plans -> SUBSET (Contexts \ {Root})]
    <3>1. responses \in [Plans -> SUBSET (Contexts \ {Root})]
      BY <1>1 DEF PlanForm
    <3>2. \/ responses' = [responses EXCEPT ![p] = {}]
          \/ responses' = [responses EXCEPT ![p] = responses[p] \cup {n}]
      BY <2>2
    <3> QED
      BY <3>1, <3>2
  <2> QED
    BY <1>1, <2>2, <2>3, <2>4 DEF PlanForm, task_vars, end_vars
<1>12. CASE UNCHANGED <<table_vars, task_vars, end_vars>>
  BY <1>1, <1>12 DEF PlanForm, table_vars, task_vars, end_vars
<1>13. \/ Refuse(t) \/ Conclude(t) \/ Abort(t) \/ Lock(t) \/ Fail(t) \/ Interrupted(t)
       \/ Begin(t) \/ Finish(t) \/ Remove(t) \/ Advance(t) \/ SpawnLeaf(t) \/ Collect(t)
       \/ UNCHANGED <<table_vars, task_vars, end_vars>>
  BY DEF Drives, Aborts, Vanished, ForkTask, SpawnPlan, PlanSpawned, Dispatched, Check,
         Disregard, TakeError
<1> QED
  BY <1>4, <1>5, <1>6, <1>7, <1>8, <1>9, <1>10, <1>11, <1>12, <1>13

LEMMA WatchesForm ==
  ASSUME PlanForm, NEW t \in WatchThreads, Watches(t)
  PROVE  PlanForm'
<1>1. PICK p \in Plans : p = PlanOf(t) /\ t \in Threads
  BY WatchLemma DEF WatchThreads
<1>2. threads' \in [Threads -> [at : Places, rest : Seq(Contexts \ {Root})]]
  <2>1. Goes(t, "stop") \/ GoesWith(t, "done", <<>>)
    BY DEF Watches, Observe, Stop
  <2>2. "stop" \in Places /\ "done" \in Places /\ <<>> \in Seq(Contexts \ {Root})
    BY DEF Places
  <2> QED
    BY <1>1, <2>1, <2>2, GoesForm
<1>3. CASE Observe(t)
  <2>1. /\ plans' = plans \ {p} \/ plans' = plans
        /\ UNCHANGED <<lock, order, responses, batch, seen, task_vars, end_vars>>
    BY <1>1, <1>3 DEF Observe
  <2> QED
    BY <1>2, <2>1 DEF PlanForm, task_vars, end_vars
<1>4. CASE Stop(t)
  <2>1. /\ Publish(p, "error") /\ aborted' = aborted \cup {p}
        /\ UNCHANGED <<table_vars, task, stream>>
    BY <1>1, <1>4 DEF Stop
  <2>2. /\ event' \in [Contexts \ {Root} -> {"none", "ok", "error"}]
        /\ told' \in [Plans -> {"nothing", "ok", "error"}]
    BY <2>1, PublishForm
  <2> QED
    BY <1>2, <2>1, <2>2 DEF PlanForm, table_vars
<1> QED
  BY <1>3, <1>4 DEF Watches

LEMMA ForwardForm ==
  ASSUME PlanForm, NEW n \in Contexts \ {Root}, Forward(n)
  PROVE  PlanForm'
<1>1. threads' \in [Threads -> [at : Places, rest : Seq(Contexts \ {Root})]]
  <2>1. Goes(Call(n), "check") \/ Goes(Call(n), "error")
    BY DEF Forward
  <2>2. "check" \in Places /\ "error" \in Places /\ <<>> \in Seq(Contexts \ {Root})
    BY DEF Places
  <2>3. Call(n) \in Threads
    BY CallLemma, DriverLemma
  <2> QED
    BY <2>1, <2>2, <2>3, GoesForm
<1>2. /\ event' = [event EXCEPT ![n] = "none"]
      /\ stream' = [stream EXCEPT ![n] = "open"] \/ stream' = stream
      /\ UNCHANGED <<table_vars, task, end_vars>>
  BY DEF Forward
<1> QED
  BY <1>1, <1>2 DEF PlanForm, table_vars, end_vars

LEMMA PlanFormStep ==
  ASSUME PlanTypeOK, AnswersInv, [PlanNext]_plan_vars
  PROVE  PlanTypeOK'
<1>1. TreeTypeOK'
  BY PlanStepIsTreeStep, TreeTypeStep DEF PlanTypeOK
<1> SUFFICES PlanForm'
  BY <1>1 DEF PlanForm, PlanTypeOK
<1>2. PlanForm
  BY FormLemma
<1>3. ASSUME NEW t \in Drivers, Asks(t) PROVE PlanForm'
  BY <1>3, AsksForm
<1>4. ASSUME NEW t \in Drivers, Drives(t) PROVE PlanForm'
  BY <1>4, DrivesForm
<1>5. ASSUME NEW t \in WatchThreads, Watches(t) PROVE PlanForm'
  BY <1>2, <1>5, WatchesForm
<1>6. ASSUME NEW n \in Leaves, LeafEnds(n) PROVE PlanForm'
  <2>1. /\ \E said \in {"ok", "error"} : event' = [event EXCEPT ![n] = said]
        /\ task' = [task EXCEPT ![n] = "ended"]
        /\ UNCHANGED <<table_vars, threads, stream, end_vars>>
    BY <1>6 DEF LeafEnds
  <2> QED
    BY <1>2, <2>1 DEF PlanForm, table_vars, end_vars
<1>7. ASSUME NEW n \in Leaves, CloseStream(n) PROVE PlanForm'
  <2>1. stream' = [stream EXCEPT ![n] = "closed"]
        /\ UNCHANGED <<table_vars, threads, task, event, end_vars>>
    BY <1>7 DEF CloseStream
  <2> QED
    BY <1>2, <2>1 DEF PlanForm, table_vars, end_vars
<1>8. ASSUME NEW n \in Contexts \ {Root}, Forward(n) PROVE PlanForm'
  BY <1>2, <1>8, ForwardForm
<1>9. CASE UNCHANGED <<table_vars, threads, task_vars, end_vars>>
  BY <1>2, <1>9 DEF PlanForm, table_vars, task_vars, end_vars
<1>10. CASE UNCHANGED plan_vars
  BY <1>9, <1>10 DEF plan_vars
<1>11. CASE Cancel \/ \E t \in Threads : Propagate(t)
  BY <1>9, <1>11 DEF Cancel, Propagate
<1> QED
  <2>1. CASE PlanNext
    <3>1. \/ \E t \in Drivers : Asks(t) \/ Drives(t)
          \/ \E t \in WatchThreads : Watches(t)
          \/ \E n \in Leaves : LeafEnds(n) \/ CloseStream(n)
          \/ \E n \in Contexts \ {Root} : Forward(n)
          \/ Cancel \/ \E t \in Threads : Propagate(t)
      BY <2>1 DEF PlanNext
    <3> QED
      BY <1>3, <1>4, <1>5, <1>6, <1>7, <1>8, <1>11, <3>1
  <2> QED
    BY <1>10, <2>1

-----------------------------------------------------------------------------
(* What was said of every plan holds *)

LEMMA PlanFormInit == PlanInit => PlanTypeOK
<1> SUFFICES ASSUME PlanInit PROVE PlanTypeOK
  OBVIOUS
<1>1. TreeTypeOK
  BY TreeTypeInit DEF PlanInit
<1>2. "start" \in Places /\ "none" \in Places /\ <<>> \in Seq(Contexts \ {Root})
  BY DEF Places
<1>3. \A p \in Plans : Len(Batches[p]) \in Nat
  BY BatchesAssumption
<1> QED
  BY <1>1, <1>2, <1>3 DEF PlanInit, PlanTypeOK

LEMMA AnswersInit == PlanInit => AnswersInv
<1> SUFFICES ASSUME PlanInit, NEW p \in Plans PROVE Sound(p)
  BY DEF AnswersInv
<1>1. /\ p \notin plans /\ order[p] = <<>> /\ responses[p] = {} /\ batch[p] = 0 /\ seen[p] = <<>>
      /\ told[p] = "nothing" /\ p \notin aborted
      /\ \A n \in Contexts \ {Root} : event[n] = "none"
      /\ \A n \in Leaves : task[n] = "none"
  BY DEF PlanInit
<1>2. \A t \in Threads : Tasks(t) = <<>> /\ Place(t) = IF t = Run(Root) THEN "start" ELSE "none"
  BY DEF PlanInit, Tasks, Place
<1>3. p \in Contexts /\ Root \in Plans /\ context[p] \notin {"succeeded"}
      /\ \A n \in Contexts \ {Root} : context[n] = "none"
  BY NodesAssumption DEF PlanInit, TreeInit
<1>4. \A n \in Contexts \ {Root} : Place(Call(n)) = "none" /\ (n \in Plans => Place(Run(n)) = "none")
  BY <1>2, <1>3, CallLemma, RunLemma, DriverLemma
<1>5. Place(Watch(p)) = "none"
  BY <1>2, <1>3, WatchLemma, RunLemma
<1>6. \A t \in DriversOf(p) : t \in Threads /\ Place(t) \in {"none", "start"} /\ Tasks(t) = <<>>
  BY <1>2, DriverLemma DEF DriversOf
<1>7. \A t \in DriversOf(p) : ~Moving(t) /\ ~Starts(t) /\ ToStart(t, p) = {} /\ ~Ending(t) /\ ~Leads(t)
  BY <1>6 DEF Moving, Starts, ToStart, Ending, Leads
<1>8. Fresh(p) /\ Place(Run(p)) # "refused"
  BY <1>6, RunLemma DEF Fresh
<1>9. \A n \in Kids(p) : TaskInv(n)
  <2> SUFFICES ASSUME NEW n \in Kids(p) PROVE TaskInv(n)
    OBVIOUS
  <2>1. n \in Contexts \ {Root} /\ Parent[n] = p /\ (n \in Plans \/ n \in Leaves)
    BY KidsLemma
  <2>2. ~Started(n) /\ ~Ended(n) /\ event[n] = "none" /\ Place(Call(n)) = "none" /\ context[n] = "none"
    BY <1>1, <1>3, <1>4, <2>1 DEF Started, Ended, PlanInit
  <2>3. n \notin Past(p)
    <3>1. 1..(batch[p] - 1) = {}
      BY <1>1
    <3> QED
      BY <3>1 DEF Past
  <2> QED
    BY <1>1, <2>1, <2>2, <2>3 DEF TaskInv
<1>10. \A t \in DriversOf(p) : Knows(t, p)
  BY <1>6, <1>7 DEF Knows
<1>11. Alone(p)
  BY <1>7 DEF Alone
<1>12. EndInv(p)
  <2>1. Unborn(p)
    BY <1>1, <1>3, <1>4, <1>5, <1>8 DEF Unborn
  <2>2. \A t \in EndersOf(p) : ~Ending(t)
    BY <1>5, <1>7 DEF EndersOf, Ending
  <2>3. \A t \in DriversOf(p) : Place(t) \notin {"remove", "fail", "abort"}
    BY <1>6
  <2> QED
    BY <1>1, <1>3, <1>5, <1>8, <2>1, <2>2, <2>3 DEF EndInv
<1>13. HeardInv(p)
  <2>1. 1..Len(seen[p]) = {}
    BY <1>1
  <2> QED
    BY <2>1 DEF HeardInv
<1> QED
  BY <1>9, <1>10, <1>11, <1>12, <1>13 DEF Sound

LEMMA StutterSound ==
  ASSUME PlanTypeOK, AnswersInv, Evolves, UNCHANGED plan_vars
  PROVE  AnswersInv'
<1>1. UNCHANGED <<context, threads, plans, order, responses, batch, seen, task, event, told, aborted>>
  BY DEF plan_vars, tree_vars, table_vars, task_vars, end_vars
<1> QED
  BY <1>1, ContextOnly DEF NoBirth, NoSuccess

LEMMA AsksSound ==
  ASSUME PlanTypeOK, AnswersInv, Evolves, NEW t \in Drivers, Asks(t)
  PROVE  AnswersInv'
<1>1. CASE GiveResponse(t) \/ AskNothing(t) \/ AskTasks(t)
  BY <1>1, GiveResponseSound, AskNothingSound, AskTasksSound
<1>2. CASE ForkPlan(t) \/ AskedTasks(t) \/ Commit(t) \/ AskEnd(t)
  BY <1>2, ForkPlanSound, AskedTasksSound, CommitSound, AskEndSound
<1> QED
  BY <1>1, <1>2 DEF Asks

LEMMA DrivesSound ==
  ASSUME PlanTypeOK, AnswersInv, Evolves, NEW t \in Drivers, Drives(t)
  PROVE  AnswersInv'
<1>1. CASE Refuse(t) \/ Begin(t) \/ Lock(t) \/ Interrupted(t) \/ Aborts(t) \/ Vanished(t)
  BY <1>1, RefuseSound, BeginSound, LockSound, InterruptedSound, VanishedSound
<1>2. CASE Advance(t) \/ ForkTask(t) \/ SpawnLeaf(t) \/ SpawnPlan(t) \/ PlanSpawned(t) \/ Dispatched(t)
  BY <1>2, AdvanceSound, ForkTaskSound, SpawnLeafSound, SpawnPlanSound, PlanSpawnedSound,
     DispatchedSound
<1>3. CASE Finish(t) \/ Conclude(t) \/ Remove(t) \/ Fail(t) \/ Abort(t)
  BY <1>3, FinishSound, ConcludeSound, RemoveSound, FailSound, AbortSound
<1>4. CASE Check(t) \/ Collect(t) \/ Disregard(t) \/ TakeError(t)
  BY <1>4, CheckSound, CollectSound, DisregardSound, TakeErrorSound
<1> QED
  BY <1>1, <1>2, <1>3, <1>4 DEF Drives

LEMMA AnswersStep ==
  ASSUME PlanTypeOK, AnswersInv, [PlanNext]_plan_vars
  PROVE  AnswersInv'
<1>1. Evolves
  BY EvolvesLemma DEF PlanTypeOK
<1>2. ASSUME NEW t \in Drivers, Asks(t) \/ Drives(t) PROVE AnswersInv'
  BY <1>1, <1>2, AsksSound, DrivesSound
<1>3. ASSUME NEW t \in WatchThreads, Watches(t) PROVE AnswersInv'
  BY <1>1, <1>3, ObserveSound, StopSound DEF Watches
<1>4. ASSUME NEW t \in Threads, Propagate(t) PROVE AnswersInv'
  BY <1>1, <1>4, PropagateSound
<1>5. ASSUME NEW n \in Leaves, LeafEnds(n) \/ CloseStream(n) PROVE AnswersInv'
  BY <1>1, <1>5, LeafEndsSound, CloseStreamSound
<1>6. ASSUME NEW n \in Contexts \ {Root}, Forward(n) PROVE AnswersInv'
  BY <1>1, <1>6, ForwardSound
<1>7. CASE Cancel
  BY <1>1, <1>7, CancelSound
<1>8. CASE UNCHANGED plan_vars
  BY <1>1, <1>8, StutterSound
<1> QED
  BY <1>2, <1>3, <1>4, <1>5, <1>6, <1>7, <1>8 DEF PlanNext

LEMMA AnswersHold == PlanSpec => [](PlanTypeOK /\ AnswersInv)
<1>1. PlanInit => PlanTypeOK /\ AnswersInv
  BY PlanFormInit, AnswersInit
<1>2. PlanTypeOK /\ AnswersInv /\ [PlanNext]_plan_vars => (PlanTypeOK /\ AnswersInv)'
  BY PlanFormStep, AnswersStep
<1> QED
  BY <1>1, <1>2, PTL DEF PlanSpec

\* Every part of the state of the plan runtime has its form, whatever its threads do:
\* nobody takes a task from a batch that is empty, or asks for a batch there is not.
THEOREM PlanTypes == PlanSpec => []PlanTypeOK
BY AnswersHold, PTL

LEMMA HeardIsInOrder ==
  ASSUME PlanTypeOK, NEW p \in Plans, HeardInv(p)
  PROVE  HeardInOrder(p)
<1> SUFFICES ASSUME NEW i \in 1..Len(seen[p])
             PROVE  \E b \in 1..batch[p] : \E j \in 1..Len(Batches[p][b]) :
                      /\ j <= i
                      /\ SubSeq(seen[p], i - j + 1, i) = SubSeq(Batches[p][b], 1, j)
                      /\ \A k \in 1..Len(Batches[p][b]) : Answered(Batches[p][b][k])
  BY DEF HeardInOrder
<1>1. PICK b \in 1..batch[p] : \E j \in 1..Len(Batches[p][b]) : Heard(p, i, b, j)
  BY DEF HeardInv
<1>2. PICK j \in 1..Len(Batches[p][b]) : Heard(p, i, b, j)
  BY <1>1
<1>3. b \in 1..Len(Batches[p]) /\ seen[p] \in Seq(Contexts \ {Root})
  <2>1. batch[p] \in Nat /\ batch[p] <= Len(Batches[p]) /\ Len(Batches[p]) \in Nat
    BY BatchesAssumption DEF PlanTypeOK
  <2> QED
    BY <2>1 DEF PlanTypeOK
<1>4. Batches[p][b] \in Seq(Contexts \ {Root})
  BY <1>3, BatchLemma
<1>5. /\ i \in Nat /\ j \in Nat /\ j <= i /\ j >= 1 /\ i <= Len(seen[p])
      /\ Len(seen[p]) \in Nat /\ Len(Batches[p][b]) \in Nat /\ j <= Len(Batches[p][b])
      /\ i - j + 1 \in 1..i
  BY <1>2, <1>3, <1>4 DEF Heard
<1>6. /\ SubSeq(seen[p], i - j + 1, i) \in Seq(Contexts \ {Root})
      /\ Len(SubSeq(seen[p], i - j + 1, i)) = j
      /\ \A k \in 1..j : SubSeq(seen[p], i - j + 1, i)[k] = seen[p][i - j + k]
  <2>1. \A k \in (i - j + 1)..i : seen[p][k] \in Contexts \ {Root}
    BY <1>3, <1>5
  <2>2. i - j + 1 \in Int /\ i \in Int /\ i - j + 1 <= i /\ i - (i - j + 1) + 1 = j
    BY <1>5
  <2>3. /\ SubSeq(seen[p], i - j + 1, i) \in Seq(Contexts \ {Root})
        /\ Len(SubSeq(seen[p], i - j + 1, i)) = j
        /\ \A k \in 1..j : SubSeq(seen[p], i - j + 1, i)[k] = seen[p][i - j + 1 + k - 1]
    BY <2>1, <2>2, SubSeqProperties
  <2>4. \A k \in 1..j : i - j + 1 + k - 1 = i - j + k
    BY <1>5
  <2> QED
    BY <2>3, <2>4
<1>7. /\ SubSeq(Batches[p][b], 1, j) \in Seq(Contexts \ {Root})
      /\ Len(SubSeq(Batches[p][b], 1, j)) = j
      /\ \A k \in 1..j : SubSeq(Batches[p][b], 1, j)[k] = Batches[p][b][k]
  <2>1. \A k \in 1..j : Batches[p][b][k] \in Contexts \ {Root}
    BY <1>4, <1>5
  <2>2. 1 \in Int /\ j \in Int /\ 1 <= j /\ j - 1 + 1 = j
    BY <1>5
  <2>3. /\ SubSeq(Batches[p][b], 1, j) \in Seq(Contexts \ {Root})
        /\ Len(SubSeq(Batches[p][b], 1, j)) = j
        /\ \A k \in 1..j : SubSeq(Batches[p][b], 1, j)[k] = Batches[p][b][1 + k - 1]
    BY <2>1, <2>2, SubSeqProperties
  <2>4. \A k \in 1..j : 1 + k - 1 = k
    BY <1>5
  <2> QED
    BY <2>3, <2>4
<1>8. SubSeq(seen[p], i - j + 1, i) = SubSeq(Batches[p][b], 1, j)
  <2>1. \A k \in 1..j : seen[p][i - j + k] = Batches[p][b][k]
    BY <1>2 DEF Heard
  <2>2. \A k \in 1..j : SubSeq(seen[p], i - j + 1, i)[k] = SubSeq(Batches[p][b], 1, j)[k]
    BY <1>6, <1>7, <2>1
  <2> QED
    BY <1>6, <1>7, <2>2, SeqEqual
<1>9. \A k \in 1..Len(Batches[p][b]) : Answered(Batches[p][b][k])
  BY <1>2 DEF Heard
<1> QED
  BY <1>5, <1>8, <1>9

\* finish_plan, fail_plan and the watcher: however they race with callbacks and with
\* the user, what the completion of a plan says is what its context retained, one that
\* said ok was not aborted, and next was given whole batches in the order asked for.
THEOREM AnswersStand == PlanSpec => []AnswersAgree
<1>1. ASSUME PlanTypeOK, AnswersInv, NEW p \in Plans
      PROVE  /\ told[p] = "ok" => context[p] = "succeeded" /\ p \notin aborted
             /\ told[p] = "error" => context[p] \in Stopped
             /\ HeardInOrder(p)
  BY <1>1, HeardIsInOrder DEF AnswersInv, Sound, EndInv
<1>2. PlanTypeOK /\ AnswersInv => AnswersAgree
  BY <1>1 DEF AnswersAgree
<1> QED
  BY <1>2, AnswersHold, PTL

\* A plan that succeeded has had every task of its batches started, and answered.
LEMMA SucceededIsDone ==
  ASSUME PlanTypeOK, AnswersInv, NEW p \in Plans, context[p] = "succeeded", NEW n \in Kids(p)
  PROVE  /\ Started(n) => Answered(n)
         /\ ~Started(n) => context[n] = "none"
<1>1. Sound(p) /\ TaskInv(n) /\ Parent[n] = p
  BY DEF AnswersInv, Sound, Kids
<1>2. order[p] = <<>> /\ AllStarted(p)
  <2>1. CASE told[p] = "ok"
    BY <1>1, <2>1 DEF Sound, EndInv
  <2>2. CASE told[p] # "ok"
    <3>1. PICK t \in DriversOf(p) : Place(t) \in {"finish", "conclude"}
      BY <1>1, <2>2 DEF Sound, EndInv
    <3> QED
      BY <1>1, <3>1 DEF Sound, Knows, Moving
  <2> QED
    BY <2>1, <2>2
<1>3. Elems(order[p]) = {}
  BY <1>2 DEF Elems
<1>4. Started(n) => Answered(n)
  BY <1>1, <1>3 DEF TaskInv, Settled
<1>5. n \in Now(p) \cup Past(p) => Started(n)
  BY <1>1, <1>2 DEF TaskInv, AllStarted
<1> QED
  BY <1>1, <1>4, <1>5 DEF TaskInv

\* set_state stops at a terminal context, so that a task below a plan that succeeded
\* would run on where no cancellation reaches it: there is none, for a plan succeeds
\* only when every task it ever asked for has ended.
THEOREM SuccessesAreQuiet == PlanSpec => []SuccessIsQuiet
<1>1. ASSUME PlanTypeOK, AnswersInv, NEW n \in Contexts \ {Root}, context[Parent[n]] = "succeeded"
      PROVE  /\ n \in Leaves => task[n] # "running"
             /\ n \in Plans => n \notin plans /\ context[n] # "running"
  <2>1. PICK p \in Plans : p = Parent[n] /\ n \in Kids(p)
    BY NodesAssumption DEF Kids
  <2>2. Started(n) => Answered(n)
    BY <1>1, <2>1, SucceededIsDone
  <2>3. ~Started(n) => context[n] = "none"
    BY <1>1, <2>1, SucceededIsDone
  <2>4. CASE n \in Leaves
    <3>1. n \notin Plans
      BY <2>4, NodesAssumption
    <3> QED
      BY <2>2, <2>4, <3>1 DEF Started, Answered
  <2>5. CASE n \in Plans
    <3>1. n \notin Leaves /\ EndInv(n)
      BY <1>1, <2>5, NodesAssumption DEF AnswersInv, Sound
    <3>2. CASE Started(n)
      BY <2>2, <2>5, <3>1, <3>2 DEF Answered, EndInv
    <3>3. CASE ~Started(n)
      BY <2>3, <2>5, <3>1, <3>3 DEF Started, Fresh, EndInv, Unborn
    <3> QED
      BY <3>1, <3>2, <3>3
  <2> QED
    BY <2>4, <2>5, NodesAssumption
<1>2. PlanTypeOK /\ AnswersInv => SuccessIsQuiet
  BY <1>1 DEF SuccessIsQuiet
<1> QED
  BY <1>2, AnswersHold, PTL

=============================================================================
