# Verification of the Free Agent Engine

TLA+ models, TLC runs and TLAPS proofs about the `free-agent-engine`
repository: a Rust workspace in which a background service (`app/fae`) runs
language-model agents and workflows on an engine (`crates/fae-engine`) built
over a set of abstractions (`crates/fae-agent`).

The project is kept beside the code. Each definition that stands for code names
the lines it stands for in `PROJECT.json` ("map"); each property says in a
comment which behaviour it is about.

## 1. Inventory of the system

| part | where | state it keeps | operations | what is hard |
|---|---|---|---|---|
| timer store | `fae-engine/src/engine_rt/timer_runtime.rs`, `timer/store.rs` | one partition per (agent, user): timers, occurrences, idempotency records; in memory and in `state.json` | create, update, delete, query; claim, acknowledge, defer; poll; load, recover | a commit that fails before or after its rename, a crash between two commits of one poll, the wall clock set back, the pending cap shared by all partitions |
| timer schedules | `timer/scheduler.rs` | none | `next`, `latest` | DST gaps and folds |
| timer service | `app/fae/src/server/timer.rs`, `TimerRuntime::watch` | the poller's events, a bounded channel, the dispatcher's claim | poll, send, receive, claim, open, defer, stop | everything between two awaits: capacity, deletion, shutdown; events are resent until taken up |
| session registry | `app/fae/src/server/registry.rs` | entries by key: stream, lease, active, timer, closing, disconnected; groups being cleaned; stopping | open, reserve/finish round, detach, clean, reap, shutdown, open_internal_agent | leases across reconnections, cleaning against rounds, the caps of 8 rounds and 32 sessions |
| session actor | `server/session.rs` | round, cancel_pending, stop, replay, request cache, session, context | mailbox commands | results of a round arrive as messages and interleave with client requests |
| connection | `server/connection.rs`, `server/mod.rs` | outbound queue (256 frames / 8 MiB), close flag | send, read, heartbeat | overflow closes a connection whose queued requests are still handled |
| replay and deduplication | `server/replay.rs` | 4096 events / 16 MiB; 256 requests | push, after, get | eviction while a client is away |
| client | `app/client.rs` | position in the events, frames received while it waited for an answer | send, request, next, reconnect | a connection lost between a request and its answer |
| context tree | `fae-engine/src/context/mod.rs` | state per context, children | set_state, fork, cancel | a fork racing the cancellation of its parent |
| plan runtime | `engine_rt/plan_runtime.rs`, `engine_runtime.rs` | running plans by id, each with its pending tasks and stored responses behind a mutex | start, advance, callback, finish, fail; a watcher per plan | several paths finish one plan; the mutex is free between the steps of a callback |
| agent session | `fae-agent/src/plan/single_agent/session.rs` | the gate (active, accepting, cancel requested, pending inputs), the bound context, the completion | call, answer, set_mode, cancel_active | supplements and replacements against the end of a turn |
| single agent, todo plan | `plan/single_agent/`, `single_agent_todo.rs` | stage, iterations, messages not saved yet; todos, child sessions | init, next, abort | the end of a turn at its limits, an abort while it ends, a handover |
| workflow | `workflow/*` | the graph; states of its edges, ready nodes, pending actions, counters of loops | build, advance, next, abort | joins, skipped branches, loops |
| engine, runtimes, hooks | `engine/*`, `runtime/runtime.rs`, `hook/*` | registered runtimes | launch, select, forward events | event channels |
| session, memory, todo files | `session_runtime.rs`, `memory_runtime.rs`, `tools/todo.rs` | JSON files, locks of a path, of a user, of a plan | append, query, create, update, delete, clean | two writers of one file, a task dropped in the middle of a write |
| service lifecycle | `server/lifecycle.rs`, `server/mod.rs`, `app/daemon.rs` | `server.config`, `server.token`, `server.lock`, `start.lock` | start, stop, look, publish, remove_owned | two starts at once, a stop beside a start, what a killed service leaves |
| TUI, protocol, init, tools, vendored `async-openai` | | | | presentation, I/O |

How they interact. Clients hold a WebSocket connection each; the connection's
handler task asks the registry to open a session and then forwards requests to
the session's actor through its mailbox. The actor owns one engine; a round is
a task that feeds results back into the mailbox. The timer runtime is shared by
all engines: agents call it through the `timer` tool, its poller sends what is
pending to the dispatcher, and the dispatcher claims an occurrence in the store
and opens an actor for it in the registry. The actor gives the receipts
`running` and the outcome. The server stops the timer first, then the
dispatcher, then the registry.

What makes each part correct:

* timer store: at most once, no overlap of a timer, the limit of firings, durable
  answers, idempotent creation, a damaged partition is isolated;
* timer service: the store is used only as its specification allows, rounds are
  bounded, no claim is lost, pending work is taken up, a stop ends;
* registry and actor: one client and one engine per session, the caps hold,
  cleaning excludes rounds, a lease of a closed connection is released;
* replay: a resumed client sees each event once and in order or is told of a gap;
* contexts and plans: a terminal state is final, each plan is finished once;
* agents: a supplement that was accepted is answered in its turn or dropped with it, a
  session that calls itself idle is idle, turns end;
* workflows: a node runs when all nodes before it are through and one of them chose it, once;
* files: what a caller was told is saved stays, what was cleaned does not come back;
* service processes: whoever serves can be found, a stop that says so has stopped.

## 2. Plan

1. `TimerStore`: the durable store. *Done.*
2. `TimerService`: the store composed with poller, dispatcher, rounds and
   shutdown; it implements `TimerStore`. *Done.*
3. `SessionRegistry`, the registry under its mutex, and `Sessions`, its callers:
   actors, rounds, connections, timers; it implements `SessionRegistry`. *Done.*
4. `ContextTree`, the tree of contexts, and `PlanRuntime`, which changes them:
   drivers, watchers, callbacks, streams and cancellation; it implements
   `ContextTree`. *Done.*
5. `AgentSession` and `SingleAgent`: supplements, replacements, answers and
   cancellation against the end of a turn; the todo plan. *Done.*
6. `Workflow`: validation, the sequential executor and the parallel one, which
   implements `Dataflow`, the definition of which nodes run. *Done.*
7. `EventStream`: replay, deduplication and the client, which implements `Delivery`;
   `UserFiles`: todos and memories; `ServiceProcesses`: the lifecycle. *Done.*
8. Theorems: the invariants of `TimerStore` and its refinement by `TimerService`, the invariants of `SessionRegistry`, `UserFiles` and `ServiceProcesses`, the
   refinement, the rounds and the leases of `Sessions`, the tree of contexts, its refinement by
   `PlanRuntime` and the answers of plans, the refinement of `Dataflow` by `WorkflowDag` and the course of
   a sound workflow, the refinement of `Delivery` by `EventStream`, the invariants of `SingleAgent`. *Done.*
9. Left: the schedules at a DST gap or fold (a sequential function), the history file of
   a session, the limits in bytes of queues and replay, the composition of `SingleAgent`
   with `PlanRuntime`.

Each module of the plan gets one run with the two or three properties that are
hardest to get right; a run is added only for a new question.

## 3. Modules

### TimerStore

One action per handler of `TimerHandle`. A handler holds the store mutex over
its commit, so that only a poll, which commits several partitions under one
hold, is split: `PollBegin` counts what is pending, `PollPartition` clones a
partition, `PollTimer` does one timer of it, `PollSave` applies retention and
commits, `PollEnd` releases the mutex. `poll.stage # "idle"` shuts the other
handlers out (`Free`).

| module | code |
|---|---|
| `mem`, `disk`, `damaged` | `Store.partitions`, the files `state.json`, `Store.corrupt` |
| `Create`, `CreateAgain`, `Update`, `Delete` | the branches of `request_inner`; `CreateAgain` is the idempotent answer |
| `Claim`, `Acknowledge`, `Defer` | `claim_inner`, `acknowledge_inner`, `defer_inner` |
| `Save`, `SaveFails` | `save` and `commit`: a failure leaves the old file ("lost") or the new one ("unsynced": the rename is done, the directory's sync fails) and never touches memory |
| `Crash`, `Load`, `Recover`, `Serve` | a kill, `timer::load`, `recover`, the end of `with_resolver` |
| `started`, `told` | history: due times handed off, revisions a client was answered with |

Abstractions. A cron expression is the set of instants it names. Each handler
reads the clock as any instant, because it reads it before it queues for the
mutex and because the host may set it back. Names, inputs and bindings are left
out; a request whose validation fails changes nothing and is not an action.
Age-based retention removes any set of terminal occurrences. A poll visits
partitions and timers in any order.

### TimerService

Extends `TimerStore`. Every step of it that touches the store is a step of
`TimerStore`: they are written as its actions with conditions of the service, so that
this is a theorem (`ServiceImplementsStore`) and no question for a run. `Poller` is the task of `watch`, `Dispatcher` the task of
`ServerServices::start` split at its awaits (`Receive`, `ClaimFired`,
`OpenAgent`, `Settle`), `Actor` the receipts of a timer round
(`Started`, `Finished`, `FinishRound`), `StopTimer`, `CloseRegistry` and `Exit`
the shutdown of `server/mod.rs`. A round that a client's chat took before
InternalStart came is "lent": the dispatcher settles the claim while the client's round gives
receipts for the same occurrence (`GiveReceipt` includes those that come too late). Other sessions appear only as `crowd`: they
leave no room for a timer round, from any moment on and until any other.

### SessionRegistry

The registry is one mutex over its `State`; each operation that takes it is one
action, and the callers, which await in between, are in `Sessions`.

| module | code |
|---|---|
| `entries`, `cleaning`, `stopping` | `State.entries`, `State.cleaning`, `State.stopping` |
| `issued` | history: the uuids given to actors, which are never drawn twice |
| `Lease`, `Insert` | the two ways in which `Registry::open` admits a client |
| `OpenInternalAgent`, `ReserveRound`, `FinishRound` | rounds of timers and of clients |
| `Detach`, `Remove`, `Reap` | the end of a lease, of an incarnation, of idle sessions |
| `BeginClean`, `EndClean`, `Shutdown` | the operations of those names |

A key stands for (kind, target, user, session), its group for (target, user).
Refusals change nothing and are no actions; conflicts of binding (another
workspace or source) are such refusals. That a session was disconnected for half an
hour is any moment after it was disconnected.

### Sessions

| module | code |
|---|---|
| `actors[s]` | the fields of `Actor` that steer it: `lease`, `out` (an outbound is attached), `round` (`current`), `known` (its context has arrived), `cancelling` (`cancel_pending`), `stop`, `launched`, `reserved`, and where its loop is (`at`) |
| `mailbox[s]` | the mpsc channel of its commands, bounded by `MailboxLimit` |
| `tasks[s]` | the task spawned by `Actor::start` |
| `conns[c]` | the handler of one WebSocket: opening, attaching, bound, leaving; its bounded input |
| `stops`, `internal` | a Stop, or an InternalStart, that its sender has still to put in a mailbox |
| `Open`, `Loaded`, `Attach` | `Registry::open` at its awaits: the first look, the second look after loading, the send of Attach |
| `Forward`, `Leave`, `Disconnect` | the handler loop of `server/mod.rs` and the loss of a connection |
| `TakeAttach` ... `TakeOutput` | one arm each of the match in `Actor::run` and `Actor::request` |
| `Reply` | `Actor::send`, which ends the lease of a client that does not keep up |
| `Clean`, `Exit` | the deletion of a group's data, the end of the loop, at their awaits |
| `Launch`, `Complete`, `Unwind`, `Report` | the task: its context, its end, the Finished command |
| `FireTimer`, `SendInternal`, `ReapIdle`, `StopAll`, `SendStop` | `open_internal_agent`, `reap`, `shutdown` |

A step takes the registry's mutex at most once; what is separated by an await in the
code is separated here. `Put` waits for room, and a mailbox disappears with its
actor, with what it still holds. Left out: the contents of events and replies,
requests that change nothing here (status, history, steering), and the cache of
repeated requests. Sizes of frames, the queue of outgoing frames and the heartbeat are one
nondeterministic loss of the connection (`CannotSend`, `Disconnect`).

### ContextTree

`EngineContext`: `context` is the state of each context, "none" before it is
forked, `pending` what a thread inside `set_state` has still to cancel. `Fork`
and `SetState` each happen under the mutex of one context; `PassOn` is the loop over the
children and the `set_state` it calls on each, between which other threads fork
and set contexts. Scopes, outputs and the log of stacks are left out.

### PlanRuntime

| module | code |
|---|---|
| `plans`, `lock`, `order`, `responses` | the table `PlanRuntime.plans`, the mutex of an execution, its `pending_order` and the keys of its `responses` |
| `threads[t]` | a task of the tokio runtime: `Run(p)` is `start_plan`, `Call(n)` the forwarder's handling of the result or error of task n and the callback it starts, `Watch(p)` the watcher; `at` is the await it has reached, `rest` the tasks it still has to handle |
| `batch`, `seen`, `told`, `aborted` | history: batches asked for, responses given to `next`, what `PlanCompletion` said, calls of `abort` |
| `Begin`, `Refuse`, `Observe`, `Stop` | `start_plan` and its watcher |
| `Lock`, `GiveResponse`, `AskNothing`, `AskTasks`, `ForkPlan`, `AskedTasks`, `Commit`, `AskEnd`, `Interrupted` | the await of `init` or `next` under the mutex, what a plan may do in it, and its cancellation |
| `Advance`, `ForkTask`, `SpawnLeaf`, `SpawnPlan`, `PlanSpawned`, `Dispatched` | `advance` and the spawning of a batch |
| `Aborts`, `Vanished`, `Finish`, `Conclude`, `Remove`, `Fail`, `Abort` | `abort_if_requested`, `finish_plan`, `fail_plan` |
| `Check`, `Collect`, `Disregard`, `TakeError` | `task_result_callback`, `task_error_callback` |
| `LeafEnds`, `Forward`, `CloseStream` | a task, `forward_events`, the completion of a `ToolResponse` or `ModelResponse` |

A plan asks for given batches of tasks, one after another, but may end, fail or
commit its result instead at any time; a task is a leaf or a plan again, and is
asked for once. The tree has no contexts between a plan and its tasks. Left
out: room in the event channels (1024), the log of stacks, and batches with
empty or repeated ids, which are one more error of the plan (`AskEnd`). The
`set_state` with which `launch_context` ends changes nothing, because the
context has ended when the caller is answered.

### AgentSession

The gate of a session is one mutex, its binding and its completion are others; a
caller's steps end where it lets go of one of them or awaits.

| module | code |
|---|---|
| `gate`, `binding`, `last` | `CommonSessionState`, the mode of the binding, `next_turn_id` |
| `bound`, `result`, `ctx` | the context the completion holds, the event that completed it, the contexts of turns |
| `call[c]` | where a caller is in `call`, or between the check and the write of `set_mode` |
| `CheckMode`, `WriteMode` | `set_mode` |
| `Build`, `BindSession` | the first turn, from `build_single_agent_plan` |
| `NewChat`, `Claim`, `RequestCancel`, `Interrupt`, `Wake` | the loop in which a new conversation replaces the active one |
| `BindContext`, `SetRunning` | the new turn, up to its spawn |
| `Supplement`, `CancelActive` | `call` with a supplement, `cancel_active` |
| `Release`, `Closed`, `Aborted` | `finish_turn` and `abort_turn`, with the notification of who waits |

`accepted` is history: the turn that was active when an input was accepted.
`cancel_active` may come at any moment.

### SingleAgent

Extends `AgentSession` with the plans behind the gate.

| module | code |
|---|---|
| `plan[t]` | the `SingleAgentPlan` or the todo plan of a turn: its stage, iterations, calls left, todos left |
| `StartRefused`, `StartPlan`, `InitPlan`, `Return` | `spawn` and what `start_plan` does with the plan |
| `AfterMemory`, `AfterHistory`, `AfterCompression`, `EmptyAnswer`, `FinalAnswer`, `ToolCalls`, `ToolReturns`, `ToolsReturn`, `Saved` | `next`, by the stage it finds and the response it is given |
| `TodoInitialized`, `TodosPlanned`, `TodoCompleted`, `TodosQueried`, `TodosSaved`, `Handover` | the todo plan |
| `Complete`, `Finish` | closing the gate, the last events, the end of the plan |
| `NextFails`, `Abort`, `ReportFailure`, `ReleaseTurn` | errors and `abort`, at its two locks |
| `NextAfterAbort` | the callback's `select!` that polls `next` of a plan aborted meanwhile (`plan_runtime.rs:541`) |

`taken`, `unsaved` and `history` follow the inputs into the messages and the session's
history. The children of a todo plan are run to their end inside it; prompts, the contents of messages, hooks
and what compression does to a history are left out.

### WorkflowGraph, WorkflowValidation, WorkflowDag, Workflow, Dataflow

`WorkflowGraph` is the definition and the checks of single nodes, `WorkflowValidation`
the rest of `validate_metadata` (reachability and cycles, as the code's depth-first
search finds them). `WorkflowDag` is the executor of graphs with fan-out or joins,
`Workflow` adds the sequential one and chooses between them. `Dataflow` is what the parallel
executor promises: a node begins once, when the nodes before it are through and one
chose it; one that none of them chose never runs.

| module | code |
|---|---|
| `ready`, `scheduled`, `skipped`, `live`/`dead`, `pending` | the fields of `DagWorkflowPlan`; `live` and `dead` are `edge_states` |
| `Pop` (`Decide`, `Execute`, `Conclude`), `HandOut` | one turn, and the end, of the loop of `advance` |
| `Settle` | `resolve_outgoing`, one edge at a time |
| `Answer`, `Resume`, `Stop` | `next`, `abort` |
| `current`, `loops`, `AtStart` ... `AtEnd`, `SeqAnswer` | `WorkflowPlan` |

A condition is any choice. Values, templates and hooks are left out: where one of them fails
the plan is aborted (`Stop`).

### ServiceProcesses

| module | code |
|---|---|
| `startLock`, `serverLock`, `config`, `token` | `start.lock`, `server.lock`, `server.config`, `server.token`; a file is the instance that wrote it |
| `Begin` ... `Unprobe` | `discover`, with the hello and the probe of `server.lock` |
| `Lock` ... `Poll`, `Deadline` | `start`: clearing what was left, the spawn, waiting for it |
| `ReadKey` ... `Check` | `stop` |
| `AcquireServer` ... `Exit` | `run` of the service: lock, publication, shutdown, `remove_owned` |
| `Kill`, `Crash`, `StartFails`, `Overrun`, `Signal`, `Foreground` | what may happen to processes |

A lock is released by the system with its holder. `calm` and `before` are history: whether a command was left
alone, who served when it began.

### EventStream and Delivery

`Delivery` is what README.md of the application promises a client that follows a session: events
in order, each once, and a report of what it missed. `EventStream` is what does it.

| module | code |
|---|---|
| `replay`, `requests` | `Replay`, `Requests` |
| `actor`, `lease` | the outbound, the lease, what is still to be sent; the registry's lease |
| `conns[c]` | a connection: its outbound queue, the mailbox entries it has queued |
| `client` | `Client`: `seq`, `pending`, what it asks, its tries, `round` (`info.status.round_id`) |
| `Output`, `TakeAttach`, `TakeRequest`, `TakeDetach`, `Send`, `Overflow` | the actor and `Outbound` |
| `SendRequest`, `AwaitAnswer`, `NextPending`, `NextReceived`, `Lost`, `Reopen`, `Resumed`, `TryFails`, `GiveUp` | `send`, `request`, `next`, `reconnect` |
| `Seen`, `Told`, `GoOn` | what `next` and `run_round` make of a message, and `run` after an error |
| `Open`, `Break` | `Registry::open`, the network |

Events are numbers, the last one is Finished. Those in `Oversized` may turn out to be beyond the frame
limit, and are then replaced by an error without a number; such an event may also drop any number of
others from the replay, whose limit in bytes is modelled for these alone. A client that was told of an error has
ended `run_round` ("told"); its user may go on, which follows the round again unless it is known to be over.

### UserFiles

| module | code |
|---|---|
| `todos[t]`, `lease`, `clean` | the file of a turn's plan; holders of `TodoPlanScope`'s shared lock; `lock_for_cleanup` |
| `memory` | the user's file; `torn`: it cannot be parsed |
| `AskTodo`, `AcquireLease`, `Share`, `Load`, `Save`, `Answer` | a todo call at its locks |
| `Clean`, `DeleteTodos`, `Cleaned`, `CleanFails` | `clean_session_data` |
| `AskMemory`, `Edit`, `Truncate`, `Fill`, `WriteFails`, `Acknowledge`, `Drop` | a memory call: the lock of the path, the write in place on a blocking thread, the task dropped with its turn |
| `End`, `DropScope`, `Crash` | a turn ends or is cancelled, its contexts go, the service is killed |

`made`, `dropped`, `cleaned`, `told`, `replaced` and `cut` are history. A turn
is what owns a todo plan, with all its contexts: it has ended once a cancellation has reached
them all, which `ContextTree` says it does.


## 4. Runs

| run | question | bounds |
|---|---|---|
| `store` | no overlap, at most once, the limit and answers under failed commits, crashes, updates of the schedule, a damaged file and any clock | one timer, two occurrences, four instants, one update, a long schedule and one with a limit of one |
| `service_restart` | nothing is executed twice | one timer, two due times, one round, both kinds of failed commit, kills, lost capacity, a client that takes the round, a damaged file |
| `service_live` | pending work is taken up, a stop ends | two timers and keys, one round, a channel and a pending cap of one; each key makes its own timer (`OwnTimers`) |
| `sessions_timer` | one engine for a key, nobody is stranded by a release, cleaning excludes the rounds of its group | two keys of one group, a timer fires one of them, two clients, two incarnations, mailboxes and inputs of one; reaping, failures |
| `sessions_live` | only an answered Close takes a lease from its client, leases end with their client, cancellation and stop end a round that would not end | one workflow, two clients that cancel and close, full queues, reaping, a stop |
| `plans` | nobody escapes a cancellation; completions say what contexts retained; success leaves nothing running; a cancellation ends everything, a plan waits only for its tasks | a root that asks for a streamed tool and a plan that may hang; a cancellation at any time |
| `agent` | supplements are answered, and by the turn that accepted them, unless they stray to an aborted plan; a session that says it is idle is torn down; a new conversation is let in, unless a turn was abandoned | three turns, one input, one caller; cancellations at any moment, `next` after `abort` |
| `agent_todo` | every turn that is not abandoned ends, in todo mode and after handovers, with `next` after `abort` | two turns, one todo, one iteration, one caller |
| `workflow` | no internal error, an end settles all nodes, the executor implements `Dataflow`, workflows end | every valid graph of two families of five nodes; two iterations |
| `service` | whoever serves can be found, a start left alone succeeds, a stop that says so has stopped, commands end | two commands, a service from before and two more |
| `stream` | the client implements `Delivery`; a repeated request runs once; the client comes to the end or is told of an error, unless it goes on after one that stood for Finished | three events, the last two of which may be too large, a replay of two, a queue of three, a cache of one, two connections, one break, one try of a reconnect, two acts of the user: a request, sent again, or going on (nothing is evicted from the cache) |
| `user_files` | todos and memories that were promised stay, what was cleaned stays away | two turns, two calls at once, three calls, one crash |

Why these bounds are enough to be interesting: an overlap, a second hand-off or a
miscount of firings needs two due times of one timer; a race on the cap or on a round needs
two timers, or two keys. A stale Detach or removal needs two clients, or two
incarnations, of one key. The limits (256, 100, 1000, 512, 4096, 32, 8, 2) become 1
or 2, so that each is reached. `MaxRevision` bounds
the updates, `OccIds` the occurrences of a partition, `Streams` the incarnations, `AskLimit`
and `BreakLimit` what a client and the network do;
when they are used up the model only stops adding. In the run of plans one nested plan
beside a task is the least that has a batch of two, a cancellation that passes
through a level, and a parent that waits for its child's start; deeper trees are left to the
theorems. Three turns are the least in which a replaced turn and a late one meet a third; a
todo plan needs one todo for each of its phases. Five nodes have a
fork with a join, a skipped branch before a join, a loop in a loop, and a cycle through
a loop's exit. A start and a stop, or two of a kind, beside the service that was
there and the ones they start are the least for the races about discovery. Three events and a replay of two
have a gap of one and of two. A second try of a reconnect only repeats
the first: a try that fails leaves the client as it was. Three calls of two turns have a lost update, a cleaning between two
calls of a turn, and a write that a dropped task leaves behind.

There are two CONSTRAINTs. `FewMessages` is in `sessions_timer`: a client's request leaves its queue before
anything else is queued. It leaves out schedules in which several queues are full at once,
not orders of handling; full queues are the question of `sessions_live`, and the theorems have
neither bound. `OwnTimers`, in `service_live`, leaves out the states in which a creation key has made the other timer:
they are those kept with the names of the two timers exchanged, and no action under fairness leads to them.
`CHECK_DEADLOCK FALSE` appears where the service stops, work is used up, or
clients may leave for good. Symmetry is used in runs without liveness properties.

Each property has a seeded fault (`PROJECT.json`, "mutants"): a plausible bug in
one definition under which the same run finds the property violated. The
operators before a definition that a comment calls a seeded fault are these.

Type invariants are checked by the proofs where there are any, and otherwise with these runs
while the modules are changed; they take no place in the list of runs.

### Fairness

`FairSpec` of `TimerService` assumes: the poller takes its next step when it can (it sleeps at
most one second); the dispatcher and the rounds take theirs if they can again
and again, since the store's mutex is tokio's, which queues fairly, and a poll
that holds it ends; the shutdown's sequential future goes on. Nothing is assumed
of clients, failures or kills. `PendingIsTakenUp` is checked without write
failures: a partition that cannot be written makes every poll fail.

`FairSpec` of `Sessions` assumes: an actor that can take a step takes one (weak
fairness: nothing else takes its commands); a handler, the task of a round and the senders
of Stop and InternalStart get through if they can again and again (strong fairness: tokio's
channels serve the senders of a full mailbox in the order they came); a
round that was cancelled unwinds. Nothing is assumed of clients, and a round
that is not cancelled need never end.

`FairPlanSpec` of `PlanRuntime` assumes that if some thread or task can go on, one does:
drivers, watchers, callbacks, the propagation of a cancellation and streams. No step can be
taken for ever, so that this one condition has every thread go on in the end, which is what
the tokio runtime does with its tasks. Nothing is assumed of the user, nor of what is
in `Slow`: a plan whose `init` or `next` hangs and a task that ends only when it
is cancelled. That a stream is read to its end or dropped is assumed.

`FairSpec` of `SingleAgent` assumes that tokio polls a caller that can go on, and the runtime
what needs nobody's answer. That models and tools answer, or fail, is assumed (`AnswerSpec`) for `TurnsEnd`
alone: `NewChatSettles` holds though they hang.

`FairSpec` of `Workflow` assumes that the runtime calls the plan as long as it has answers and that
actions end (`PlansEnd`, `CancelEndsAll`); nothing of a condition.

`FairSpec` of `ServiceProcesses` assumes that processes go on and time passes: a command gets a lock
that is free again and again (`server.lock` is probed for moments or held by a service), a deadline
passes.

`FairSpec` of `EventStream` assumes that the actor, the round and the client go on, and that the
writer of a connection does not lose every race against the replay that fills its queue: a resumed
client that always lost it would be thrown out again each time.

### Findings and remarks

Behaviours the models have, met while modelling. No run is about them, except as said.

Timers.

* `defer` puts an occurrence back to pending without looking at its timer
  (`timer_runtime.rs:243`). A deletion that falls between the claim and the deferral leaves a
  deleted timer with work that runs later, where README.md has "Deleting a timer suppresses
  pending work"; nor does `defer` look at the pending cap.
* A `once` timer with a due time queued for want of room, re-armed by an update,
  is completed by a skipped misfire; the queued due time never fires.
* A partition whose file cannot be written makes every poll fail, and no event of any
  partition is sent.
* A receipt of the outcome that cannot be saved is only logged (`session.rs:581`): the occurrence
  stays running, and its timer blocked, until the service starts again.

Sessions.

* The actor answers Close by ending whatever lease is in force (`session.rs:517`). A Close still
  queued on a connection that has already lost its lease ends the lease of the client that came
  after it, while that one stays connected, and a third client is let in beside it; README.md has
  "An active session cannot be opened by a second client." `sessions_live` has these steps, and
  `UsersHoldLease` says that nothing else takes a lease from its client.
* A Clean that a broken connection had queued ends the actor after another
  client leased the session: its Attach is never answered. Cleaning removes the entry before
  the client hears of it: it ends the session for whoever attached meanwhile.
* A client that opens the session of a timer and chats before InternalStart
  arrives takes the round reserved for the timer; the firing then fails as busy,
  and the chat's outcome is given as its receipt: a due time may be recorded as succeeded whose input never ran.
  When the caps are reached by then it is deferred, and runs later, where `timer_runtime.rs:230` says "No actor was
  created for a claimed occurrence". Either way it gets no second actor of its own (`ExecutedOnce`).
* `workflow_launched` is set before a start that the caps may refuse: the session
  then never runs its workflow.

Plans and events.

* A callback lets go of the execution's mutex between collecting the last response and handing
  it to `next` (`plan_runtime.rs:541`). When a cancellation falls there, the watcher aborts the plan and
  answers its caller first; the callback then polls `next` of the aborted plan in a `select!` without
  a bias. The test `context_abort_stops_plan_before_next_callback` asserts that `next` is not
  called, but cancels before the response is there.
* Events of tasks that belong to no plan go to the channel of the `EngineRuntime`
  (1024), which nothing in the service reads: when it is full, the forwarder of that
  runtime, and the callbacks behind it, wait for ever.

Agents.

* A cancellation between the binding of a new turn's context and its `set_state(Running)`
  (`plan/single_agent/session.rs:442`) makes `call` return with an error while the gate stays active for
  ever: every later conversation waits. The liveness properties say so: nothing is promised to who waits for a
  turn that was `Abandoned`. Two callers that start conversations at once reach it without a `cancel_active`.
* In todo mode the turn is released before its plan has reported its failure, so that
  `TornDownWhenIdle` holds for chats without the todo tool only. A handover that fails aborts twice.
* The callback that calls `next` of a plan that was aborted (see above) may take the supplements that the next
  conversation has accepted by then: they go into messages that nobody sends, and a turn may complete without
  having answered them. The properties name these inputs (`Strayed`): a supplement is lost to a completed turn in this
  way and in no other.
* A supplement accepted in todo mode may be taken by a later turn (`single_agent_todo.rs:581`), where
  `session/mod.rs:57` has "Add information to the active conversation without ending it."
* The server accepts the mode "chat" (`server/session.rs:294`), which `SingleAgentMode::parse` refuses.
* `set_mode` checks that no turn is active and writes later: a turn that starts in between
  runs in the old mode. A turn that was replaced may end "succeeded" without a terminal event.

Workflows.

* The counter of a loop is never reset (`plan.rs:515`): a loop that is entered again from an outer one
  goes on counting, and all its entries share one cap, where workflow-api.md:157 speaks of a condition that
  stays true and SKILL.md:103 of an iteration counted from 1.
* A cycle through the exit of a loop is valid and counts nothing: such a workflow may spin for ever.
  `WorkflowEnds` is about graphs all of whose cycles count.
* The parallel executor runs nothing new before its whole batch is answered. When it is aborted, the
  Failed hook runs for the active node alone.

Service processes.

* A command that only looks probes `server.lock`, and a service that starts at that moment finds it
  taken and exits. A stop may end another instance that listens on the same port by now. A stop
  may say that nothing ran when its probe finds the lock busy.
* A stop's reply is lost when the connections are aborted before it is written. A start that times out
  leaves its child running. A service killed between the removals leaves the token behind. An error
  of `accept` ends the service without its cleanup.

Streams.

* A resume replays up to 4096 events into a queue of 256 without awaiting; when the writer does not
  keep up the connection is closed, and the client starts over.
* A client resumes while its old lease may still be held: it is told session_in_use, and gives up after
  five tries, in about 3 s, whereas the server takes up to 45 s to notice a silent connection.
* An event beyond 8 MiB is replaced by an error without a number. It ends `run_round`, also while the round goes on. If
  Finished is that event, the terminal UI does not learn that the round is over: when its user goes on it follows the
  round again, and waits in vain until the connection breaks. `FollowerSettles` leaves out this case and no
  other.
* What the connection still holds after such an error is read when the UI follows its next round: an old Finished
  would end the following of that one. A second round is not modelled.
* A hello that fails ends `reconnect` with tries left (`client.rs:334`). The repository's client draws a new id for
  each request it sends (`client.rs:240`), so that only other clients repeat one.
* Requests that an old connection has queued are executed after the new one is attached.
* A client without a terminal ends at any error, a gap or a refused Cancel included.

Files.

* Memories are written in place (`memory_runtime.rs:306`), on a blocking thread, by a task that is
  dropped, with the lock, when its turn is cancelled. A crash, a full disk or a cancellation in
  the middle of a write may lose all memories. `MemoriesAreKept` is about histories without one (`cut`).
* The id of a memory is one more than the highest: that of the last one deleted is used again.
* The registry's exclusion of rounds does not suffice for cleaning todos: the lease of a plan is needed, since
  a round of another agent may run this one.
* What a cancelled turn has still to append to its history may arrive after a clean: the file is there again.
  A crash in the middle of a line makes the history unreadable.

## 5. Proofs

Everything below holds for every value of the constants, from the named
assumptions in the modules: sets of owners, occurrences and keys are finite, instants are positive
naturals, limits and caps are naturals, schedules are records, groups of keys are given, the names
for "nobody" are not names of clients, turns or streams, clients send the four requests, every
context but the root has a parent, which is another one, plans are the parents of what they ask for,
and a plan asks for each task once. The last two are how the code makes contexts: `fork` makes a new one
under its parent, and every task that a plan asks for is given a context of its own, by `fork_call` or by
`advance` (`OnceAssumption`, `NodesAssumption` of `PlanRuntime`). Nodes of a workflow need no assumption.
There is an occurrence id (`OccIds # {}` in `ServiceAssumption`) and a connection (`Conns # {}` in `StreamAssumption`): the one the client was started with.

| theorem | module | property |
|---|---|---|
| `TypeCorrect` | `TimerService_proofs`, of the store | `TypeOK` |
| `NoOverlapHolds` | | `NoOverlap` |
| `AtMostOnce` | | `NeverStartedTwice` |
| `LimitHolds` | | `LimitRespected` |
| `AnswersSurvive` | | `AnswersAreDurable` |
| `ServiceTypes` | the same, of the service | `ServiceTypeOK` |
| `ServiceImplementsStore` | | refinement of `TimerStore`, by which the theorems above hold in the service |
| `DueTimesRunOnce` | | `ExecutedOnce` |
| `CapsAreKept` | `Sessions_proofs`, of the registry | `CapsHold` |
| `CleaningExcludes`, `ReleasedIsFree`, `AbandonedIsReapable` | | invariants of single entries |
| `StopIsFinal` | | nothing is added after the stop |
| `SessionsTypes` | `Sessions_proofs`, of the service | `SessionsTypeOK` |
| `SessionsImplementRegistry` | | refinement of `SessionRegistry` |
| `ServiceKeepsCaps`, `ServiceCleansAlone` | | the registry's theorems, of the service |
| `RoundsReserved` | the same, of rounds and leases | `RoundsAreReserved` |
| `EnginesAreSingle` | | `OneEngine` |
| `CleaningIsQuiet` | | `CleanedQuietly` |
| `ReleasesStrandNobody` | | `ReleaseStrandsNobody` |
| `UsersKeepLease` | | `UsersHoldLease` |
| `TreeTypes`, `CancellationReaches` | `PlanRuntime_proofs` | types and `NoneEscapes` of `ContextTree` |
| `PlansKeepTree` | | `PlanRuntime` implements `ContextTree` |
| `NoTaskEscapes` | | `NoneEscapes` |
| `PlanTypes` | | `PlanTypeOK` |
| `AnswersStand` | | `AnswersAgree` |
| `SuccessesAreQuiet` | | `SuccessIsQuiet` |
| `IdleIsQuiet` | `SingleAgent_proofs` | `TornDownWhenIdle`, of one caller without the todo tool |
| `SupplementsStayInTurn` | | `InputsStayInTurn`, likewise |
| `CompletionsAnswerInputs` | | `InputsAreAnswered`, likewise |
| `DagTypes`, `EdgesSettledOnce` | `WorkflowDag_proofs` | `DagTypeOK`; no edge is settled twice |
| `DagImplementsFlow` | | `FlowSpec` |
| `NoInternalErrorOnSound` | | `NoInternalError`, of every sound graph |
| `EndSettlesSound` | | `EndSettlesAll`, of every sound graph |
| `FilesTypes` | `UserFiles_proofs` | `FilesTypeOK` |
| `CleanedStaysAway` | | `CleanedForGood` |
| `TodosStay` | | `TodosAreKept` |
| `MemoriesStay` | | `MemoriesAreKept` |
| `ProcessesTypes` | `ServiceProcesses_proofs` | `ProcessesTypeOK` |
| `ServicesArePublished` | | `ServingIsPublished` |
| `CalmStartsSucceed` | | `StartsSucceed` |
| `StopsAreTrue` | | `StopMeansStopped` |
| `StreamDelivers` | `EventStream_proofs` | `DeliverySpec` |
| `RequestsRunAtMostOnce` | | `RequestsRunOnce` |

The argument for the store. None of the properties is inductive alone. The inductive
invariant speaks of every copy of a partition that may become the store: the
one in memory, the one on disk and the one a poll is working on. For each copy
it says that it has one open occurrence per timer, that what is pending was not
handed off, that accepted firings respect the limit and the due times lie
behind `last` and `queued` in the right order; and between the copies, that the
disk is never behind memory in revisions and creation keys (a commit failing after its
rename leaves it ahead), and that `work` still agrees with memory where the poll
has not touched it. The proof has one lemma per action and, within it, one step
per conjunct that the action can disturb. `AtMostOnce` needs the deepest part:
a due time is scheduled only if it is later than the last one, so that a
history of hand-offs never meets a new occurrence, whatever the clock shows.

The argument for the timer service. Each of its steps calls one handler of the store or none, with an
owner and an occurrence of the right type, which `ServiceTypeOK` is needed for. `DueTimesRunOnce`
rests on `HandedOff`: what was executed counts as started, and what the dispatcher has claimed but neither
handed over nor given back is started and not executed. A claim is of something not started
(`NeverStartedTwice`), and only what was not executed is given back. Between claim and hand-over the
mutex is free: the occurrence must still be the one that was claimed, although its timer is changed or deleted and polls
write the partition (`OccurrenceStays`, which needs that a poll's copy holds what memory holds, `Carried`).
TLC checked the two on the instance of `service_restart` before they were proved. A round that a client took
does not count as executed, and its claim may be given back.

The argument for the registry. Each operation adds at most one key to what a cap
counts, and has tested that cap under the mutex. `ReserveRound` does not test the
cap on timers: the strengthening `TimersAreActive` (the mark of a timer does not outlive its
round) says that it need not.

The argument for the sessions. `SessionsImplementRegistry` shows that each step
of an actor, connection, timer or server is one registry operation on keys
and streams of the right type, or none; the registry's invariants follow for the service.
`RoundsInv` is the inductive invariant for rounds and engines: an
entry belongs to the one actor made for it (`Owned`); at each place of its
loop an actor knows whether the entry of its key is still its own (`Placed`: after
a cleaning it is not, and then the actor is stopping and has no round); a
reserved or running round makes that entry active and an engine implies
it is held (`Rounded`); the report of a round is in the mailbox at most once, and only
after its task has ended (`Reported`), so that taking it ends that round and
no later one; one actor cleans a group at a time (`OneCleaner`). Most actions
disturb nothing but one actor (`OneStep`) or no actor at all (`QuietStep`).

The argument for the leases. `LeaseInv` has one formula for each connection, `Visits`: it is attached
once and is detached last, so that no late Detach, and no second Attach, is about another lease of
the same actor; and whatever it waits for or uses (`Needs`), the entry is held and leased to it
(`Leased`). The registry releases only what has no client, so that nobody who waits is left behind. A queued
Close ends the lease in force, whoever sent it (see the hazards). `UsersHoldLease` therefore is about steps: who holds
the lease of a session it uses holds it after the step, unless the step is the answer to a Close or the end of the session.

The argument for the contexts. `NoneEscapes` is inductive with the types: a child
is forked before its parent stops, and then is among the children that are
passed on to, or it is not forked; while a thread has it before it, nobody but
that thread takes it off, and then it has ended, because a terminal state stands
(`FinalStep`). `PlansKeepTree` shows that whatever the runtime does to contexts is a
`Fork`, a `SetState` or a `PassOn`, so that this holds for all plans, tasks and threads.

The argument for the answers of plans. `AnswersInv` says the same of every plan (`Sound`), in five parts:

* `TaskInv`, of each task: it is started once, ends once and says so once, so that its event, its callback and
  its stored response exclude each other; it is in the batch until its response was taken (`Settled`).
* `Knows`, of each thread that drives the plan: what it knows of the batch at the await it has reached, for
  instance that no task of the batch is started while it still forks plans, that the responses it hands on
  continue what `next` was given, that a batch is over (`order = <<>>`) while `init` or `next` is awaited.
* `Alone`: one thread at a time leads the plan, that is, decides what it does next or has tasks of the batch
  to start.
* `EndInv`: who takes the plan out of the table ends it, alone; what it tells is what the context retained. Whoever
  is about to fail the plan knows that it is `Doomed`: cancelled, or without a leader and with a task in
  the batch whose response will never come (`Lost`), so that no callback can drive it on to a success.
* `HeardInv`: each response given to `next` ends a prefix of a batch that has been answered as a whole.

`Doomed` is what makes this inductive: a failure is decided by one thread and published by another step, and
a callback that arrives between must not find the batch complete. A step concerns one plan (`LocalSound`),
or a plan and its parent (`ParentSound`, `TellsOthers`): `SoundStays` says that every other plan is as it was.
`SuccessIsQuiet` follows because a plan succeeds only from `finish`, where all tasks it asked for are settled. TLC checked
`AnswersInv` on four small trees before it was proved.

The argument for the agent. `AgentInv` ties the gate to the last turn: a plan that is alive is the last turn's, and
the gate is active until it is gone (`TurnOK`); a caller that has claimed the turn is the one thing that holds it before
there is a plan (`CallerOK`). What is pending was accepted by that turn, a request to cancel leaves
nothing pending and the gate closed to more, and so does a plan that is about to complete (`GateOK`).
What the turn has accepted is pending, or taken and in its messages or in the history, or has strayed, unless somebody
replaces it (`Safe`), and when it is about to complete it is all in the history or has strayed (`Written`). That `Saved` looks at
the queue and closes the gate under one lock is what this rests on. A callback that calls `next` of an aborted plan
finds a later turn's gate, since the last turn's plan is not gone while its gate is active: it can close that gate to
supplements and take what is pending, which then `Strayed`, and nothing more, for its plan is over
(`NextAfterAbortStep`). The theorems are about a session that one task
holds, of an agent without the todo tool (`Plain`): TLC shows that with two callers, one of which aborts once more a
turn whose start was refused, or with a todo plan, which releases its turn before it reports, a later turn's gate is let go of
by a former one. TLC checked `AgentInv` before it was proved.

The argument for workflows. `Books` is the inductive invariant of the executor: what is ready or was
scheduled has all edges to it settled and one of them live, what is skipped has none live; an edge
is settled, or left to settle, once (`SettledOnce`), after its source was skipped or has its answer
(`SentByDone`), and all edges of a source are sent together (`SentTogether`). The last makes
"complete" a property of the state: a node is complete when its edges are sent. Then a pop is `Begin` or
`Pass`, an answer is `Finish`, a settled edge is `Drop` or a stutter. It needs neither acyclicity nor
reachability, only what the kinds of nodes ask of their targets.
That no internal error occurs does need them. `DagSound` says of a graph what its validation is for, of sets of
nodes and so without recursion: no loop; a set that holds the start and all that follows is all nodes; so is one that holds the
end and all that leads to it; and no cycle, as every set of nodes has a first and a last one. `Course` says that
what is decided about a node was acted upon (`Handled`), that a node that is done or skipped has sent all its edges and one
that ran has chosen one of them (`SendsAll`, `ChoseSome`), that the batch being built is all that waits (`OneBatch`), and
that until the end runs it is not scheduled (`NotYet`). Were the executor idle before the end (`NeverIdle`), the first undecided
node would have only treated ones before it and so be decided, and with none undecided the last node that ran would
have chosen one that was skipped. When the end does run, what is treated is closed under predecessors,
so it is all nodes (`EndLemma`). `ValidIsSound`, that `Valid` accepts exactly the sound graphs among those the
executor takes, is an assumption of the run, which TLC evaluates on all graphs of its instance: `Valid` is a recursive search.

The argument for the processes. `ProcessesInv` says of each command, by the step it has reached, which locks it
holds (`LockOK`), what it may be doing (`CourseOK`) and what it has found (`FoundOK`), and of each instance whether it
holds `server.lock` and which files name it (`HoldingOK`, `PublishedOK`). An instance writes and removes the
files while it holds `server.lock`, and who clears what was left holds it too, so that nobody removes
the files of an instance that serves. `calm` is history: a start keeps it until something is killed, crashes, is signalled, fails or is late,
or somebody else takes the lock to look. Before it spawns, the services of a home where a start is calm serve or
do not run, and none runs once the start has seen that; afterwards its child is the only one on its way up
(`LeftAlone`), so that each read of the start finds what it needs. A stop says "none" only where what held `server.lock` when it
began (`before`) has let go of it, and "stopped" only where the instance it asked is gone.

The argument for the files. `CleanedForGood` rests on `CleanAlone` (no call that writes is between its
locks while a cleaning deletes) and `CleanedOver` (a turn whose todos were cleaned has ended, and no call of it saves
any more). `TodosAreKept` adds that one call saves at a time
and has read what is there (`OneSaves`), that a live turn with a created todo holds its lease
(`Leased`), so that no cleaning comes between its calls, and that what it will be told of is in
the file (`Granted`). For `MemoriesAreKept` one call at a time is between the lock and the answer
(`OneWrites`) as long as no write was cut off, and the file is whole but while it is
being written, when the writer's content has all it had (`Whole`).

The argument for the stream. `StreamInv` is about three queues one behind the other: the messages that the
client put aside while it asked, those in the queue of its connection, and those that the actor is still
sending there (`Flow`). A message that comes when certain events are accounted for, shown or reported as
missed, has to fit (`Fits`): an event follows all the earlier ones, a gap reaches at least as far as what is
accounted for. A queue is sound if each of its messages fits what is ahead of it (`SoundOn`), the three are
sound one on top of the other, and together they lead up to the newest event as long as the actor is attached to the
connection that the client follows. `ConnOK`, `ActorOK` and `ClientOK` say which connection that can be: no
other one is up, so that what the actor sends there is lost. What the client has seen grows by exactly
what a message accounts for (`Progress`), which is a step of `Delivery` or a stutter. `Replay::after` is sound on
what the client asks to resume from, and complete, whatever was evicted (`AfterLemma`). For the requests `Cached`
says that the cache is the end of the history of runs: all of it, or as many as fit.

Left to TLC: liveness and everything that needs ENABLED (out of the prover's
reach); sessions of an agent with the todo tool; that the recursive validation of a
workflow implies `DagSound`.

## 6. Not modelled

The components with status `not_modelled` in `PROJECT.json`. Of these, the
wire types, the terminal UI, the prompt builders, the stateless tools and the
vendored `async-openai` are out of scope: they keep no state across calls that a
model could check, and they are most of the lines of the repository. The runtimes for models, MCP and skills are requests
to services and subprocesses. Of what is modelled in part: civil times at a DST
gap or fold are a sequential function, which the tests call on both folds; the
values of a workflow, the settings of an agent and the history of a session are data that the control
modelled here does not look at; sizes in bytes are a nondeterministic loss.
