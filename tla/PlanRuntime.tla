----------------------------- MODULE PlanRuntime -----------------------------
(***************************************************************************)
(* The plan runtime (fae-engine/src/engine_rt/plan_runtime.rs), with the   *)
(* forwarder of events (engine_runtime.rs), the wrapper of the runtimes    *)
(* (fae-agent/src/runtime/runtime.rs) and the contexts of ContextTree.     *)
(*                                                                         *)
(* A plan is a coroutine driven from outside: init and next return a batch *)
(* of tasks, next takes their results, and whoever has the last one of the *)
(* batch drives it on.  Tasks are leaves, which some runtime executes, or  *)
(* plans again, whose context the parent forks itself (fork_call).         *)
(*                                                                         *)
(* A thread is the task that starts a plan, the callback of one result, or *)
(* the watcher of one plan.  The steps below end where a thread awaits or  *)
(* lets go of the table's or an execution's mutex; contexts change at any  *)
(* time, for they are not under these mutexes.                             *)
(*                                                                         *)
(* Left out: what tasks compute, the log of stacks, and room in the event  *)
(* channels (1024).                                                        *)
(***************************************************************************)
EXTENDS ContextTree, Sequences

CONSTANTS
  Plans,    \* the plans, Root among them
  Leaves,   \* the tasks that are not plans
  Batches,  \* of each plan: the batches of tasks it asks for, in order
  Streamed, \* leaves whose result is a ToolResponse or a ModelResponse
  Slow,     \* leaves and plans that may never return until they are cancelled
  Free      \* nobody holds the mutex of the execution

ASSUME NodesAssumption ==
  /\ Contexts = Plans \cup Leaves /\ Plans \cap Leaves = {}
  /\ Root \in Plans /\ \A c \in Contexts \ {Root} : Parent[c] \in Plans \ {c}
  /\ Streamed \subseteq Leaves /\ Slow \subseteq Contexts
ASSUME BatchesAssumption ==
  /\ Batches \in [Plans -> Seq(Seq(Contexts \ {Root}))]
  /\ \A p \in Plans : \A i \in 1..Len(Batches[p]) : \A j \in 1..Len(Batches[p][i]) :
       Parent[Batches[p][i][j]] = p
\* A task is forked once: whatever is asked for again has a context of its own.
ASSUME OnceAssumption ==
  \A p \in Plans : \A b, c \in 1..Len(Batches[p]) :
    \A i \in 1..Len(Batches[p][b]), j \in 1..Len(Batches[p][c]) :
      Batches[p][b][i] = Batches[p][c][j] => b = c /\ i = j

Run(p) == <<"run", p>>
Watch(p) == <<"watch", p>>
Call(n) == <<"call", n>>
User == <<"user", Root>>

RunThreads == {Run(p) : p \in Plans}
CallThreads == {Call(n) : n \in Contexts \ {Root}}
WatchThreads == {Watch(p) : p \in Plans}
Drivers == RunThreads \cup CallThreads

ASSUME ThreadsAssumption ==
  Threads = Drivers \cup WatchThreads \cup {User} /\ Free \notin Threads

VARIABLES
  plans,     \* PlanRuntime.plans: the executions that can be found
  lock,      \* who holds the mutex of each execution
  order,     \* pending_order: the tasks of the batch, in order
  responses, \* the tasks of it whose response has been stored
  batch,     \* how many batches each plan has asked for
  seen,      \* the tasks whose response each plan's next was given
  threads,   \* where each thread is and which tasks it has before it
  task,      \* of each leaf: "none", "running", "ended"
  event,     \* of each task: "none", or the event not yet forwarded
  stream,    \* of each streamed leaf: "none", "open", "closed"
  told,      \* what each plan's completion said: "nothing", "ok", "error"
  aborted    \* the plans whose abort has been called

table_vars == <<plans, lock, order, responses, batch, seen>>
task_vars == <<task, event, stream>>
end_vars == <<told, aborted>>
plan_vars == <<tree_vars, table_vars, threads, task_vars, end_vars>>

PlanOf(t) == IF t \in CallThreads THEN Parent[t[2]] ELSE t[2]

At(t, place) == threads[t].at = place /\ pending[t] = {}

Goes(t, place) == threads' = [threads EXCEPT ![t].at = place]
GoesWith(t, place, rest) == threads' = [threads EXCEPT ![t] = [at |-> place, rest |-> rest]]

Tasks(t) == threads[t].rest
NextBatch(p) == IF batch[p] < Len(Batches[p]) THEN Batches[p][batch[p] + 1] ELSE <<>>
CurrentBatch(p) == Batches[p][batch[p]]

Cancelled(p) == context[p] = "cancelled"

\* The state is set if it may be; the caller ignores a refusal.
TrySet(t, c, s) == IF May(c, s) THEN SetState(t, c, s) ELSE UNCHANGED tree_vars

\* PlanCompletion is taken: the caller that executed the plan is answered, and the
\* parent of one that was spawned is sent an event.  (Nobody listens to a root that
\* was spawned: its context is the answer.)
Publish(p, said) ==
  /\ told' = [told EXCEPT ![p] = said]
  /\ event' = IF p = Root THEN event ELSE [event EXCEPT ![p] = said]

-----------------------------------------------------------------------------
(* start_plan                                                              *)

\* A context that has ended refuses the plan; the plan is told when it was
\* cancelled, unless the runtimes in front of start_plan had refused it.
Refuse(t) ==
  LET p == PlanOf(t) IN
  /\ t \in RunThreads /\ At(t, "start") /\ IsTerminal(p)
  /\ GoesWith(t, "refused", <<>>)
  /\ told' = [told EXCEPT ![p] = "error"]
  /\ aborted' \in {aborted, IF Cancelled(p) THEN aborted \cup {p} ELSE aborted}
  /\ UNCHANGED <<tree_vars, table_vars, task_vars>>

\* Running, in the table, and watched.
Begin(t) ==
  LET p == PlanOf(t) IN
  /\ t \in RunThreads /\ At(t, "start") /\ IsLive(p)
  /\ TrySet(t, p, "running")
  /\ plans' = plans \cup {p}
  /\ threads' = [threads EXCEPT ![t].at = "lock", ![Watch(p)].at = "watching"]
  /\ UNCHANGED <<lock, order, responses, batch, seen, task_vars, end_vars>>

\* The mutex is held while init, or next for every response, is awaited.
Lock(t) ==
  LET p == PlanOf(t) IN
  /\ At(t, "lock") /\ lock[p] = Free
  /\ lock' = [lock EXCEPT ![p] = t]
  /\ IF t \in RunThreads THEN Goes(t, "asking") ELSE Goes(t, "next")
  /\ UNCHANGED <<tree_vars, plans, order, responses, batch, seen, task_vars, end_vars>>

\* Seeded fault: init is awaited without regard to the cancellation.
Interrupted_NotInit(t) ==
  LET p == PlanOf(t) IN
  /\ threads[t].at \in {"next", "forking"} /\ pending[t] = {}
  /\ Cancelled(p)
  /\ lock' = [lock EXCEPT ![p] = Free]
  /\ GoesWith(t, "remove", <<>>)
  /\ UNCHANGED <<tree_vars, plans, order, responses, batch, seen, task_vars, end_vars>>

\* The future of init or next is dropped, or aborted is found true after it.
Interrupted(t) ==
  LET p == PlanOf(t) IN
  /\ threads[t].at \in {"asking", "next", "forking"} /\ pending[t] = {}
  /\ Cancelled(p)
  /\ lock' = [lock EXCEPT ![p] = Free]
  /\ GoesWith(t, "remove", <<>>)
  /\ UNCHANGED <<tree_vars, plans, order, responses, batch, seen, task_vars, end_vars>>

-----------------------------------------------------------------------------
(* What init and next decide; a plan is given its responses one by one     *)

\* task_result_callback hands the next response of the batch to the plan.
GiveResponse(t) ==
  LET p == PlanOf(t) IN
  /\ At(t, "next")
  /\ seen' = [seen EXCEPT ![p] = Append(@, Head(Tasks(t)))]
  /\ GoesWith(t, "asking", Tail(Tasks(t)))
  /\ UNCHANGED <<tree_vars, plans, lock, order, responses, batch, task_vars, end_vars>>

\* Every response but the last asks for nothing.
AskNothing(t) ==
  /\ At(t, "asking") /\ Tasks(t) # <<>>
  /\ Goes(t, "next")
  /\ UNCHANGED <<tree_vars, table_vars, task_vars, end_vars>>

\* Tasks: plans among them are forked here, by fork_call.
AskTasks(t) ==
  LET p == PlanOf(t) IN
  /\ At(t, "asking") /\ Tasks(t) = <<>>
  /\ NextBatch(p) # <<>>
  /\ batch' = [batch EXCEPT ![p] = @ + 1]
  /\ GoesWith(t, "forking", NextBatch(p))
  /\ UNCHANGED <<tree_vars, plans, lock, order, responses, seen, task_vars, end_vars>>

\* Engine::fork_call for each plan: its context is forked, then set Running.
ForkPlan(t) ==
  LET n == Head(Tasks(t)) IN
  /\ At(t, "forking") /\ Tasks(t) # <<>>
  /\ \/ /\ n \in Leaves
        /\ GoesWith(t, "forking", Tail(Tasks(t)))
        /\ UNCHANGED <<tree_vars, lock>>
     \/ /\ n \in Plans /\ Fork(n)
        /\ UNCHANGED <<lock, threads>>
     \/ /\ n \in Plans /\ SetState(t, n, "running")
        /\ GoesWith(t, "forking", Tail(Tasks(t)))
        /\ UNCHANGED lock
     \/ /\ n \in Plans
        /\ IF context[n] = "none" THEN ~IsLive(Parent[n]) ELSE IsTerminal(n)
        /\ lock' = [lock EXCEPT ![PlanOf(t)] = Free]
        /\ GoesWith(t, "remove", <<>>)
        /\ UNCHANGED tree_vars
  /\ UNCHANGED <<plans, order, responses, batch, seen, task_vars, end_vars>>

AskedTasks(t) ==
  LET p == PlanOf(t) IN
  /\ At(t, "forking") /\ Tasks(t) = <<>>
  /\ lock' = [lock EXCEPT ![p] = Free]
  /\ GoesWith(t, "advance", CurrentBatch(p))
  /\ UNCHANGED <<tree_vars, plans, order, responses, batch, seen, task_vars, end_vars>>

\* The final next may commit a typed result to its own context before End.
Commit(t) ==
  LET p == PlanOf(t) IN
  /\ At(t, "asking") /\ SetState(t, p, "succeeded")
  /\ lock' = [lock EXCEPT ![p] = Free]
  /\ Goes(t, "finish")
  /\ UNCHANGED <<plans, order, responses, batch, seen, task_vars, end_vars>>

\* End, or an error: also a batch without tasks.
AskEnd(t) ==
  LET p == PlanOf(t) IN
  /\ At(t, "asking")
  /\ lock' = [lock EXCEPT ![p] = Free]
  /\ \E place \in {"finish", "remove"} : GoesWith(t, place, <<>>)
  /\ UNCHANGED <<tree_vars, plans, order, responses, batch, seen, task_vars, end_vars>>

-----------------------------------------------------------------------------
(* advance: the batch becomes pending, then each task is spawned           *)

\* abort_if_requested finds the plan cancelled.
Aborts(t) ==
  LET p == PlanOf(t) IN
  /\ threads[t].at \in {"advance", "finish", "check"} /\ pending[t] = {}
  /\ p \in plans /\ lock[p] = Free /\ Cancelled(p)
  /\ GoesWith(t, "remove", <<>>)
  /\ UNCHANGED <<tree_vars, table_vars, task_vars, end_vars>>

\* The execution is no longer in the table: there is nothing left to do.
Vanished(t) ==
  /\ threads[t].at \in {"advance", "finish", "check", "remove"}
  /\ pending[t] = {} /\ PlanOf(t) \notin plans
  /\ GoesWith(t, "done", <<>>)
  /\ UNCHANGED <<tree_vars, table_vars, task_vars, end_vars>>

Advance(t) ==
  LET p == PlanOf(t) IN
  /\ At(t, "advance")
  /\ p \in plans /\ lock[p] = Free /\ ~Cancelled(p)
  /\ order' = [order EXCEPT ![p] = Tasks(t)]
  /\ responses' = [responses EXCEPT ![p] = {}]
  /\ Goes(t, "fork")
  /\ UNCHANGED <<tree_vars, plans, lock, batch, seen, task_vars, end_vars>>

\* Leaves get their contexts; plans have theirs.
ForkTask(t) ==
  LET n == Head(Tasks(t)) IN
  /\ At(t, "fork") /\ Tasks(t) # <<>>
  /\ IF n \in Leaves /\ ~IsLive(Parent[n])
     THEN GoesWith(t, "remove", <<>>) /\ UNCHANGED tree_vars
     ELSE /\ IF n \in Leaves THEN Fork(n) ELSE UNCHANGED tree_vars
          /\ IF Len(Tasks(t)) = 1 THEN GoesWith(t, "spawn", CurrentBatch(PlanOf(t)))
             ELSE GoesWith(t, "fork", Tail(Tasks(t)))
  /\ UNCHANGED <<table_vars, task_vars, end_vars>>

\* EngineRuntime::spawn and the wrapper: a task runs, also one that is cancelled
\* after they looked; it fails to start; or it is refused or finds no runtime.
SpawnLeaf(t) ==
  LET n == Head(Tasks(t)) IN
  /\ At(t, "spawn") /\ Tasks(t) # <<>> /\ n \in Leaves
  /\ ~Cancelled(PlanOf(t))
  /\ \/ /\ TrySet(t, n, "running")
        /\ task' = [task EXCEPT ![n] = "running"]
        /\ GoesWith(t, "spawn", Tail(Tasks(t)))
     \/ /\ TrySet(t, n, "failed") \/ UNCHANGED tree_vars
        /\ GoesWith(t, "remove", <<>>)
        /\ UNCHANGED task
  /\ UNCHANGED <<table_vars, event, stream, end_vars>>

\* PlanRuntime::spawn: the child is started within the parent's advance.
SpawnPlan(t) ==
  LET n == Head(Tasks(t)) IN
  /\ At(t, "spawn") /\ Tasks(t) # <<>> /\ n \in Plans
  /\ ~Cancelled(PlanOf(t))
  /\ threads' = [threads EXCEPT ![t].at = "wait", ![Run(n)].at = "start"]
  /\ UNCHANGED <<tree_vars, table_vars, task_vars, end_vars>>

PlanSpawned(t) ==
  LET started == Run(Head(Tasks(t))) IN
  /\ At(t, "wait")
  /\ \/ At(started, "done") /\ GoesWith(t, "spawn", Tail(Tasks(t)))
     \/ At(started, "refused") /\ GoesWith(t, "remove", <<>>)
  /\ UNCHANGED <<tree_vars, table_vars, task_vars, end_vars>>

Dispatched(t) ==
  /\ At(t, "spawn")
  /\ IF Tasks(t) = <<>> THEN GoesWith(t, "done", <<>>)
     ELSE Cancelled(PlanOf(t)) /\ GoesWith(t, "remove", <<>>)
  /\ UNCHANGED <<tree_vars, table_vars, task_vars, end_vars>>

-----------------------------------------------------------------------------
(* finish_plan and fail_plan: who takes the plan out of the table ends it  *)

Finish(t) ==
  LET p == PlanOf(t) IN
  /\ At(t, "finish")
  /\ p \in plans /\ lock[p] = Free /\ ~Cancelled(p)
  /\ plans' = plans \ {p}
  /\ Goes(t, "conclude")
  /\ UNCHANGED <<tree_vars, lock, order, responses, batch, seen, task_vars, end_vars>>

\* Seeded fault: the plan came to its end, so that success is published.
Conclude_Meant(t) ==
  LET p == PlanOf(t) IN
  /\ At(t, "conclude") /\ lock[p] = Free
  /\ TrySet(t, p, "succeeded")
  /\ Publish(p, "ok")
  /\ GoesWith(t, "done", <<>>)
  /\ UNCHANGED <<table_vars, task, stream, aborted>>

\* The state that was retained is published, not the success that was meant.
Conclude(t) ==
  LET p == PlanOf(t) IN
  /\ At(t, "conclude") /\ lock[p] = Free
  /\ TrySet(t, p, "succeeded")
  /\ IF context[p] \in Stopped
     THEN Publish(p, "error") /\ aborted' = aborted \cup {p}
     ELSE Publish(p, "ok") /\ UNCHANGED aborted
  /\ GoesWith(t, "done", <<>>)
  /\ UNCHANGED <<table_vars, task, stream>>

Remove(t) ==
  LET p == PlanOf(t) IN
  /\ At(t, "remove") /\ p \in plans
  /\ plans' = plans \ {p}
  /\ Goes(t, "fail")
  /\ UNCHANGED <<tree_vars, lock, order, responses, batch, seen, task_vars, end_vars>>

\* The failure stops the tasks of the plan before it is published.
Fail(t) ==
  LET p == PlanOf(t) IN
  /\ At(t, "fail") /\ lock[p] = Free
  /\ lock' = [lock EXCEPT ![p] = t]
  /\ TrySet(t, p, "failed")
  /\ Goes(t, "abort")
  /\ UNCHANGED <<plans, order, responses, batch, seen, task_vars, end_vars>>

Abort(t) ==
  LET p == PlanOf(t) IN
  /\ At(t, "abort")
  /\ lock' = [lock EXCEPT ![p] = Free]
  /\ aborted' = aborted \cup {p}
  /\ Publish(p, "error")
  /\ GoesWith(t, "done", <<>>)
  /\ UNCHANGED <<tree_vars, plans, order, responses, batch, seen, task, stream>>

\* The watcher: takes a cancelled plan out of the table, or sees it is out.
Observe(t) ==
  LET p == PlanOf(t) IN
  /\ At(t, "watching")
  /\ IF Cancelled(p) /\ p \in plans
     THEN plans' = plans \ {p} /\ Goes(t, "stop")
     ELSE p \notin plans /\ GoesWith(t, "done", <<>>) /\ UNCHANGED plans
  /\ UNCHANGED <<tree_vars, lock, order, responses, batch, seen, task_vars, end_vars>>

Stop(t) ==
  LET p == PlanOf(t) IN
  /\ At(t, "stop") /\ lock[p] = Free
  /\ aborted' = aborted \cup {p}
  /\ Publish(p, "error")
  /\ GoesWith(t, "done", <<>>)
  /\ UNCHANGED <<tree_vars, table_vars, task, stream>>

-----------------------------------------------------------------------------
(* task_result_callback and task_error_callback                            *)

Check(t) ==
  LET p == PlanOf(t) IN
  /\ At(t, "check")
  /\ p \in plans /\ lock[p] = Free /\ ~Cancelled(p)
  /\ Goes(t, "collect")
  /\ UNCHANGED <<tree_vars, table_vars, task_vars, end_vars>>

Expects(p, n) ==
  n \notin responses[p] /\ \E i \in 1..Len(order[p]) : order[p][i] = n

\* Seeded fault: a response is handed on without the rest of its batch.
Collect_First(t) ==
  LET p == PlanOf(t) IN
  /\ At(t, "collect") /\ lock[p] = Free
  /\ ~IsTerminal(p) /\ Expects(p, t[2])
  /\ GoesWith(t, "lock", <<t[2]>>)
  /\ UNCHANGED <<tree_vars, plans, lock, order, responses, batch, seen, task_vars, end_vars>>

\* The response is stored; the last one takes them all along, in order.
Collect(t) ==
  LET p == PlanOf(t)
      stored == responses[p] \cup {t[2]}
      all == \A i \in 1..Len(order[p]) : order[p][i] \in stored
  IN
  /\ At(t, "collect") /\ lock[p] = Free
  /\ ~IsTerminal(p) /\ Expects(p, t[2])
  /\ IF all
     THEN /\ GoesWith(t, "lock", order[p])
          /\ order' = [order EXCEPT ![p] = <<>>]
          /\ responses' = [responses EXCEPT ![p] = {}]
     ELSE /\ GoesWith(t, "done", <<>>)
          /\ responses' = [responses EXCEPT ![p] = stored]
          /\ UNCHANGED order
  /\ UNCHANGED <<tree_vars, plans, lock, batch, seen, task_vars, end_vars>>

\* A plan that has ended is not driven on; a response it does not expect fails it.
Disregard(t) ==
  LET p == PlanOf(t) IN
  /\ At(t, "collect") /\ lock[p] = Free
  /\ IsTerminal(p) \/ ~Expects(p, t[2])
  /\ GoesWith(t, IF IsTerminal(p) THEN "done" ELSE "remove", <<>>)
  /\ UNCHANGED <<tree_vars, table_vars, task_vars, end_vars>>

\* Seeded fault: an error is passed to nobody.
TakeError_Dropped(t) ==
  /\ At(t, "error")
  /\ GoesWith(t, "done", <<>>)
  /\ UNCHANGED <<tree_vars, table_vars, task_vars, end_vars>>

\* An error of a pending task fails, or aborts, the plan.
TakeError(t) ==
  LET p == PlanOf(t) IN
  /\ At(t, "error")
  /\ \/ p \notin plans /\ GoesWith(t, "done", <<>>)
     \/ /\ p \in plans /\ lock[p] = Free
        /\ Goes(t, IF \E i \in 1..Len(order[p]) : order[p][i] = t[2]
                   THEN "remove" ELSE "done")
  /\ UNCHANGED <<tree_vars, table_vars, task_vars, end_vars>>

-----------------------------------------------------------------------------
(* Tasks, the forwarder, streams, the user                                 *)

\* A leaf's execution ends: by itself, or because its context is cancelled.
LeafEnds(n) ==
  /\ task[n] = "running"
  /\ n \in Slow => Cancelled(n)
  /\ \E said \in {"ok", "error"} : event' = [event EXCEPT ![n] = said]
  /\ task' = [task EXCEPT ![n] = "ended"]
  /\ UNCHANGED <<tree_vars, table_vars, threads, stream, end_vars>>

\* EngineRuntime::forward_events: the context takes the outcome, unless the
\* result is a stream, whose end decides; then the callback is started.
Forward(n) ==
  LET t == Call(n)
      tracked == event[n] = "ok" /\ n \in Streamed
  IN
  /\ event[n] # "none" /\ pending[t] = {}
  /\ event' = [event EXCEPT ![n] = "none"]
  /\ IF tracked THEN UNCHANGED tree_vars
     ELSE TrySet(t, n, IF event[n] = "ok" THEN "succeeded" ELSE "failed")
  /\ stream' = IF tracked THEN [stream EXCEPT ![n] = "open"] ELSE stream
  /\ Goes(t, IF event[n] = "ok" THEN "check" ELSE "error")
  /\ UNCHANGED <<table_vars, task, end_vars>>

\* The response is still in the hands of the runtime, or of the plan.
Held(n) ==
  LET p == Parent[n]
      asked == {t \in Drivers : PlanOf(t) = p /\
                  \E i \in 1..Len(Tasks(t)) : Tasks(t)[i] = n}
  IN
  \/ threads[Call(n)].at \in {"check", "collect"}
  \/ n \in responses[p] /\ p \in plans
  \/ \E t \in asked : threads[t].at \in {"lock", "next", "asking"}

\* ToolCompletion and TrackedModelStream: the end of the stream, an error in
\* it, or its being dropped ends the context of the task.
CloseStream(n) ==
  /\ stream[n] = "open"
  /\ pending[Call(n)] = {}
  /\ stream' = [stream EXCEPT ![n] = "closed"]
  /\ ~Held(n)
  /\ \E s \in Terminal : TrySet(Call(n), n, s)
  /\ UNCHANGED <<table_vars, threads, task, event, end_vars>>

\* Whoever holds the context that was launched cancels it.
Cancel ==
  /\ SetState(User, Root, "cancelled")
  /\ UNCHANGED <<table_vars, threads, task_vars, end_vars>>

Propagate(t) ==
  /\ PassOn(t)
  /\ UNCHANGED <<table_vars, threads, task_vars, end_vars>>

PlanInit ==
  /\ TreeInit
  /\ plans = {} /\ lock = [p \in Plans |-> Free]
  /\ order = [p \in Plans |-> <<>>] /\ responses = [p \in Plans |-> {}]
  /\ batch = [p \in Plans |-> 0] /\ seen = [p \in Plans |-> <<>>]
  /\ threads = [t \in Threads |->
       [at |-> IF t = Run(Root) THEN "start" ELSE "none", rest |-> <<>>]]
  /\ task = [n \in Leaves |-> "none"]
  /\ event = [n \in Contexts \ {Root} |-> "none"]
  /\ stream = [n \in Leaves |-> "none"]
  /\ told = [p \in Plans |-> "nothing"] /\ aborted = {}

Asks(t) ==
  \/ GiveResponse(t) \/ AskNothing(t) \/ AskTasks(t) \/ ForkPlan(t)
  \/ AskedTasks(t) \/ Commit(t) \/ AskEnd(t)

Drives(t) ==
  \/ Refuse(t) \/ Begin(t) \/ Lock(t) \/ Interrupted(t)
  \/ Aborts(t) \/ Vanished(t) \/ Advance(t) \/ ForkTask(t)
  \/ SpawnLeaf(t) \/ SpawnPlan(t) \/ PlanSpawned(t) \/ Dispatched(t)
  \/ Finish(t) \/ Conclude(t) \/ Remove(t) \/ Fail(t) \/ Abort(t)
  \/ Check(t) \/ Collect(t) \/ Disregard(t) \/ TakeError(t)

Watches(t) == Observe(t) \/ Stop(t)

PlanNext ==
  \/ \E t \in Drivers : Asks(t) \/ Drives(t)
  \/ \E t \in WatchThreads : Watches(t)
  \/ \E t \in Threads : Propagate(t)
  \/ \E n \in Leaves : LeafEnds(n) \/ CloseStream(n)
  \/ \E n \in Contexts \ {Root} : Forward(n)
  \/ Cancel

PlanSpec == PlanInit /\ [][PlanNext]_plan_vars

\* Every thread and every task that can go on does, but for what is Slow.  No step
\* can be taken for ever, so that one fairness condition for all of them is as
\* strong as one for each.
Works ==
  \/ \E t \in Drivers : Drives(t) \/ (PlanOf(t) \notin Slow /\ Asks(t))
  \/ \E t \in WatchThreads : Watches(t)
  \/ \E t \in Threads : Propagate(t)
  \/ \E n \in Leaves : LeafEnds(n) \/ CloseStream(n)
  \/ \E n \in Contexts \ {Root} : Forward(n)

PlanFairness == WF_plan_vars(Works)

FairPlanSpec == PlanSpec /\ PlanFairness

-----------------------------------------------------------------------------
Places ==
  {"none", "start", "refused", "lock", "asking", "next", "forking", "advance",
   "fork", "spawn", "wait", "finish", "conclude", "remove", "fail", "abort",
   "done", "watching", "stop", "check", "collect", "error"}

\* Every part of the state has its form.
PlanTypeOK ==
  /\ TreeTypeOK
  /\ plans \subseteq Plans /\ aborted \subseteq Plans
  /\ lock \in [Plans -> Threads \cup {Free}]
  /\ order \in [Plans -> Seq(Contexts \ {Root})]
  /\ responses \in [Plans -> SUBSET (Contexts \ {Root})]
  /\ batch \in [Plans -> Nat] /\ \A p \in Plans : batch[p] <= Len(Batches[p])
  /\ seen \in [Plans -> Seq(Contexts \ {Root})]
  /\ threads \in [Threads -> [at : Places, rest : Seq(Contexts \ {Root})]]
  /\ task \in [Leaves -> {"none", "running", "ended"}]
  /\ event \in [Contexts \ {Root} -> {"none", "ok", "error"}]
  /\ stream \in [Leaves -> {"none", "open", "closed"}]
  /\ told \in [Plans -> {"nothing", "ok", "error"}]

\* Whether the plan's next was given the tasks of its batches in the order it
\* asked for them, each once and only after its whole batch had answered.
Answered(n) == IF n \in Plans THEN told[n] = "ok" ELSE task[n] = "ended"
HeardInOrder(p) ==
  \A i \in 1..Len(seen[p]) :
    \E b \in 1..batch[p] : \E j \in 1..Len(Batches[p][b]) :
      /\ j <= i
      /\ SubSeq(seen[p], i - j + 1, i) = SubSeq(Batches[p][b], 1, j)
      /\ \A k \in 1..Len(Batches[p][b]) : Answered(Batches[p][b][k])

\* finish_plan and fail_plan: what the completion of a plan said is what its
\* context retained, whoever of the watcher, a callback and the user was first.
\* One that said ok was never aborted, and what it was told it was told in order.
AnswersAgree ==
  \A p \in Plans :
    /\ told[p] = "ok" => context[p] = "succeeded" /\ p \notin aborted
    /\ told[p] = "error" => context[p] \in Stopped
    /\ HeardInOrder(p)

\* A plan that succeeded has no task left that would run on where cancelling the
\* tree no longer reaches it: set_state stops at a terminal context.
SuccessIsQuiet ==
  \A n \in Contexts \ {Root} :
    context[Parent[n]] = "succeeded" =>
      /\ n \in Leaves => task[n] # "running"
      /\ n \in Plans => n \notin plans /\ context[n] # "running"

\* Once the launched context is cancelled, everything below it ends: no plan stays
\* in the table, no task and no thread runs, and the caller is told (what it was
\* told before stands).
Quiet ==
  /\ plans = {}
  /\ \A n \in Leaves : task[n] # "running" /\ stream[n] # "open"
  /\ \A c \in Contexts : ~IsLive(c)
  /\ \A t \in Threads : threads[t].at \in {"none", "refused", "done"}
  /\ told[Root] # "nothing"

CancelEndsAll == Cancelled(Root) ~> []Quiet

\* A plan waits only for its tasks: one in the table leaves it, unless a plan or
\* a task below it never returns.
Hangs ==
  \/ \E n \in Slow \cap Leaves : task[n] = "running"
  \/ \E t \in Drivers : PlanOf(t) \in Slow /\ threads[t].at \in {"asking", "next", "forking"}

PlansEnd == plans # {} ~> plans = {} \/ Hangs

=============================================================================
