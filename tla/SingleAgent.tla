----------------------------- MODULE SingleAgent -----------------------------
(***************************************************************************)
(* The plans of a turn behind the session's gate: the agent's loop over    *)
(* the model and its tools (fae-agent/src/plan/single_agent/), and the     *)
(* todo plan (single_agent_todo.rs), which runs that loop once to plan and *)
(* once for each todo, in a child session of its own.  A loop whose model  *)
(* creates todos hands its turn over to a todo plan.                       *)
(*                                                                         *)
(* The plan runtime calls init, next and abort under the execution's lock, *)
(* so a step is one call of these, ended early where the gate is let go of *)
(* and touched again.  What it promises about them is PlanRuntime's.       *)
(*                                                                         *)
(* Left out: what is said, memories and history but for the supplements,   *)
(* hooks, the events of child sessions, and todos changed by anybody but   *)
(* this plan.                                                              *)
(***************************************************************************)
EXTENDS AgentSession, Functions

CONSTANTS
  MaxIterations, \* max_tool_iterations
  MaxCalls,      \* bound: how many tool calls one answer asks for
  MaxTodos,      \* bound: how many todos are created at once
  HasTodoTool    \* is the tool "todo" configured?

ASSUME AgentAssumption ==
  /\ MaxIterations \in Nat /\ MaxCalls \in Nat \ {0} /\ MaxTodos \in Nat \ {0}
  /\ HasTodoTool \in BOOLEAN /\ ("todo" \in Modes => HasTodoTool)

VARIABLES
  plan,    \* of each turn: its plan
  taken,   \* of each input: the turn whose plan took it
  unsaved, \* of each turn: inputs in unsaved_messages
  history, \* inputs that the session's history has
  channel  \* the outputs that start and end a turn, in order

agent_vars == <<session_vars, plan, taken, unsaved, history, channel>>

Stages == {"Memory", "History", "Compression", "Model", "Tools", "Save"}
\* Of a todo plan; RunningAgent is split by the phase.
TodoStages == {"Initialize", "Planning", "Executing", "CompleteTodo", "Query", "Saving"}
\* Where a plan is: not spawned; before init; waiting for tasks; between
\* closing the gate and completing; after End; after an error; in abort; and
\* aborted, with a callback that called next after that.
PlanPlaces == {"none", "init", "waiting", "completing", "ended", "failing",
               "aborting", "reported", "released", "gone", "overrun"}
PlanRecords ==
  [at : PlanPlaces, stage : Stages, todo : TodoStages \cup {"none"},
   iterations : 0..MaxIterations, retried : BOOLEAN, remaining : 0..MaxCalls,
   creates : BOOLEAN, todos : 0..MaxTodos, executed : BOOLEAN, refused : BOOLEAN, late : BOOLEAN]

AgentTypeOK ==
  /\ SessionTypeOK
  /\ plan \in [Turns -> PlanRecords]
  /\ taken \in [Inputs -> 0..MaxTurns]
  /\ unsaved \in [Turns -> SUBSET Inputs] /\ history \subseteq Inputs
  /\ channel \in Seq(Turns \X {"started", "completed", "failed"})

NewLoop(p) == [p EXCEPT !.stage = "Memory", !.iterations = 0, !.retried = FALSE,
                        !.remaining = 0, !.creates = FALSE]
NoPlan ==
  [at |-> "none", stage |-> "Memory", todo |-> "none", iterations |-> 0, retried |-> FALSE,
   remaining |-> 0, creates |-> FALSE, todos |-> 0, executed |-> FALSE,
   refused |-> FALSE, late |-> FALSE]

Init ==
  /\ SessionInit
  /\ plan = [t \in Turns |-> NoPlan]
  /\ taken = [x \in Inputs |-> NoTurn]
  /\ unsaved = [t \in Turns |-> {}] /\ history = {}
  /\ channel = <<>>

Sets(t, p) == plan' = [plan EXCEPT ![t] = p]
Moves(t, place) == plan' = [plan EXCEPT ![t].at = place]
\* Nobody holds the plan any more, but for a late callback.
Drops(t) ==
  IF plan[t].late THEN Moves(t, "gone") /\ UNCHANGED unsaved
  ELSE /\ Sets(t, [NoPlan EXCEPT !.at = "gone", !.refused = plan[t].refused])
       /\ unsaved' = [unsaved EXCEPT ![t] = {}]
\* The loop runs in the turn's own session, not in a todo plan's child.
Own(t) == plan[t].todo = "none"

SameSession == UNCHANGED session_vars
SameInputs == UNCHANGED <<taken, unsaved, history>>

\* A terminal event completes the session unless another one has.
Emits(t, what) ==
  /\ channel' = Append(channel, <<t, what>>)
  /\ result' = IF what # "started" /\ result = NoTurn THEN t ELSE result

-----------------------------------------------------------------------------
(* The inputs.                                                             *)

PendingSet == {gate.pending[i] : i \in DOMAIN gate.pending}

\* take_pending_inputs and append_user_inputs
TakesInputs(t) ==
  /\ gate' = [gate EXCEPT !.pending = <<>>]
  /\ taken' = [x \in Inputs |-> IF x \in PendingSet THEN t ELSE taken[x]]
  /\ unsaved' = [unsaved EXCEPT ![t] = @ \cup PendingSet]
  /\ UNCHANGED <<binding, last, bound, result, ctx, call, accepted, history, channel>>

\* next_model_task: takes what is pending, and asks the model, or first for
\* a compression when the request is too large.  Right after a compression
\* it can be so only for the inputs just taken.
Requests(t, p, grown) ==
  /\ IF Own(t) THEN TakesInputs(t) ELSE SameSession /\ SameInputs /\ UNCHANGED channel
  /\ \E stage \in {"Model", "Compression"} :
       /\ stage = "Compression" => grown \/ (Own(t) /\ PendingSet # {})
       /\ Sets(t, [p EXCEPT !.stage = stage])

\* next or init returned an error, or one of the tasks failed.
Fails(t) ==
  /\ Moves(t, "failing")
  /\ SameSession /\ SameInputs /\ UNCHANGED channel

Waits(t, p) ==
  /\ Sets(t, p)
  /\ SameSession /\ SameInputs /\ UNCHANGED channel

-----------------------------------------------------------------------------
(* Starting a plan, in the caller's task.                                  *)

\* The context was cancelled before the plan was inserted: the plan is
\* aborted, or, when that happened between the check and set_state, dropped.
StartRefused(c, told) ==
  LET t == call[c].turn IN
  /\ call[c].at = "spawning" /\ plan[t].at = "none" /\ ctx[t] = "cancelled"
  /\ Sets(t, [NoPlan EXCEPT !.at = IF told THEN "aborting" ELSE "reported", !.refused = TRUE,
                            !.todo = IF call[c].mode = "todo" THEN "Initialize" ELSE "none"])
  /\ SameSession /\ SameInputs /\ UNCHANGED channel

StartPlan(c) ==
  LET t == call[c].turn IN
  /\ call[c].at = "spawning" /\ plan[t].at = "none" /\ ctx[t] \in {"created", "running"}
  /\ ctx' = [ctx EXCEPT ![t] = "running"]
  /\ Sets(t, [NoPlan EXCEPT !.at = "init",
                            !.todo = IF call[c].mode = "todo" THEN "Initialize" ELSE "none"])
  /\ UNCHANGED <<gate, binding, last, bound, result, call, accepted>>
  /\ SameInputs /\ UNCHANGED channel

InitPlan(t) ==
  /\ plan[t].at = "init"
  /\ IF gate.cancel
     THEN Moves(t, "ended") /\ UNCHANGED channel /\ UNCHANGED result
     ELSE Moves(t, "waiting") /\ Emits(t, "started")
  /\ UNCHANGED <<gate, binding, last, bound, ctx, call, accepted>> /\ SameInputs

\* spawn returns once init and the first batch are through; a refusal makes
\* call abort the turn itself, which the plan has done already.
Return(c) ==
  LET p == plan[call[c].turn] IN
  /\ call[c].at = "spawning" /\ p.at \notin {"none", "init", "failing"}
  /\ p.refused => p.at = "gone"
  /\ IF p.refused /\ call[c].turn # 1
     THEN gate' = Aborted(gate) /\ call' = [Notified EXCEPT ![c] = Idle]
     ELSE Returns(c) /\ UNCHANGED gate
  /\ UNCHANGED <<binding, last, bound, result, ctx, accepted, plan, channel>> /\ SameInputs

-----------------------------------------------------------------------------
(* The loop of the agent.                                                  *)

\* next is called with a result, and finds no request to cancel.
NextCalled(t) == plan[t].at = "waiting" /\ ~gate.cancel
InLoop(t) == NextCalled(t) /\ plan[t].todo \in {"none", "Planning", "Executing"}

\* consume_model and on_model_resp: the model has answered.
ModelAnswers(t) == InLoop(t) /\ plan[t].stage = "Model"
\* A tool, or an MCP server, has answered; others may still have to.
ToolAnswers(t) == InLoop(t) /\ plan[t].stage = "Tools"

\* A plan that finds the request ends without an event.
NextCancelled(t) ==
  /\ plan[t].at = "waiting" /\ gate.cancel
  /\ Moves(t, "ended")
  /\ SameSession /\ SameInputs /\ UNCHANGED channel

AfterMemory(t) ==
  /\ InLoop(t) /\ plan[t].stage = "Memory"
  /\ Waits(t, [plan[t] EXCEPT !.stage = "History"])

AfterHistory(t) ==
  /\ InLoop(t) /\ plan[t].stage = "History"
  /\ Requests(t, plan[t], TRUE)

AfterCompression(t) ==
  /\ InLoop(t) /\ plan[t].stage = "Compression"
  /\ Requests(t, plan[t], FALSE)

\* Seeded fault: the retry is not counted.
EmptyAnswerUncounted(t) ==
  /\ ModelAnswers(t)
  /\ Requests(t, plan[t], TRUE)

\* The model said nothing: it is asked once more.
EmptyAnswer(t) ==
  /\ ModelAnswers(t)
  /\ IF plan[t].retried THEN Fails(t)
     ELSE Requests(t, [plan[t] EXCEPT !.retried = TRUE], TRUE)

\* An agent that keeps no history is done when its loop has its answer;
\* finish_child: its todo plan marks the todo, or looks at what was planned.
ChildEnds(p) ==
  [p EXCEPT !.todo = IF p.todo = "Executing" THEN "CompleteTodo" ELSE "Query",
            !.stage = "Memory", !.remaining = 0, !.creates = FALSE]

FinalAnswer(t) ==
  /\ ModelAnswers(t)
  /\ IF ~Own(t) THEN Waits(t, ChildEnds(plan[t]))
     ELSE IF gate.pending # <<>> THEN Requests(t, [plan[t] EXCEPT !.retried = FALSE], TRUE)
     ELSE Waits(t, [plan[t] EXCEPT !.stage = "Save", !.retried = FALSE])

\* Calls of unknown tools, and of todo while a todo is executed, are answered
\* on the spot; "creates": one of the others creates todos.
ToolCalls(t) ==
  /\ ModelAnswers(t)
  /\ IF plan[t].iterations = MaxIterations THEN Fails(t)
     ELSE \E n \in 0..MaxCalls, creates \in BOOLEAN :
       LET p == [plan[t] EXCEPT !.iterations = @ + 1, !.retried = FALSE, !.remaining = n,
                                !.creates = creates]
       IN /\ creates => n > 0 /\ HasTodoTool /\ plan[t].todo # "Executing"
          /\ IF n = 0 THEN Requests(t, p, TRUE) ELSE Waits(t, [p EXCEPT !.stage = "Tools"])

ToolReturns(t) ==
  /\ ToolAnswers(t) /\ plan[t].remaining > 1
  /\ Waits(t, [plan[t] EXCEPT !.remaining = @ - 1])

\* The last tool of the answer returned, and no todos were created: nobody
\* asked, or the tool refused.
ToolsReturn(t) ==
  /\ ToolAnswers(t) /\ plan[t].remaining = 1
  /\ plan[t].creates => Own(t)
  /\ Requests(t, [plan[t] EXCEPT !.remaining = 0, !.creates = FALSE], TRUE)

SaveStage(t) == NextCalled(t) /\ Own(t) /\ plan[t].stage = "Save"

\* Seeded fault: what came while the history was written is not looked for.
SavedBlindly(t) ==
  /\ SaveStage(t)
  /\ history' = history \cup unsaved[t]
  /\ unsaved' = [unsaved EXCEPT ![t] = {}]
  /\ gate' = [gate EXCEPT !.accepting = FALSE]
  /\ Moves(t, "completing")
  /\ UNCHANGED <<binding, last, bound, result, ctx, call, accepted, taken, channel>>

\* The history has the messages.  finish_or_take_pending either closes the
\* gate to supplements or takes the ones that came while saving.
Saved(t) ==
  /\ SaveStage(t)
  /\ history' = history \cup unsaved[t]
  /\ IF gate.pending = <<>>
     THEN /\ gate' = [gate EXCEPT !.accepting = FALSE]
          /\ Moves(t, "completing")
          /\ unsaved' = [unsaved EXCEPT ![t] = {}]
          /\ UNCHANGED taken
     ELSE /\ gate' = [gate EXCEPT !.pending = <<>>]
          /\ taken' = [x \in Inputs |-> IF x \in PendingSet THEN t ELSE taken[x]]
          /\ unsaved' = [unsaved EXCEPT ![t] = PendingSet]
          /\ \E stage \in {"Model", "Compression"} : Sets(t, [plan[t] EXCEPT !.stage = stage])
  /\ UNCHANGED <<binding, last, bound, result, ctx, call, accepted, channel>>

\* Seeded fault: the session is released with the last event.
CompleteAndRelease(t) ==
  /\ plan[t].at = "completing"
  /\ ctx' = [ctx EXCEPT ![t] = IF @ = "running" THEN "succeeded" ELSE @]
  /\ Emits(t, "completed") /\ Moves(t, "ended") /\ Release(Closed(gate))
  /\ UNCHANGED <<binding, last, bound, accepted>> /\ SameInputs

\* set_state(succeeded) comes first, and fails when the turn was cancelled.
Complete(t) ==
  /\ plan[t].at = "completing"
  /\ IF ctx[t] = "running"
     THEN /\ ctx' = [ctx EXCEPT ![t] = "succeeded"]
          /\ Emits(t, "completed") /\ Moves(t, "ended")
     ELSE Moves(t, "failing") /\ UNCHANGED <<ctx, result, channel>>
  /\ UNCHANGED <<gate, binding, last, bound, call, accepted>> /\ SameInputs

\* A task failed, or next found something wrong with its result.
NextFails(t) == NextCalled(t) /\ Fails(t)

-----------------------------------------------------------------------------
(* The todo plan.                                                          *)

\* start_child: a child context cannot be forked from a cancelled one.
StartsChild(t, p, phase) ==
  IF ctx[t] = "running" THEN Waits(t, [NewLoop(p) EXCEPT !.todo = phase]) ELSE Fails(t)

TodoInitialized(t) ==
  /\ NextCalled(t) /\ plan[t].todo = "Initialize"
  /\ StartsChild(t, plan[t], "Planning")

\* The child's create ends the planning.
TodosPlanned(t) ==
  /\ ToolAnswers(t) /\ plan[t].todo = "Planning"
  /\ plan[t].remaining = 1 /\ plan[t].creates
  /\ \E n \in 1..MaxTodos : Waits(t, [ChildEnds(plan[t]) EXCEPT !.todos = n])

TodoCompleted(t) ==
  /\ NextCalled(t) /\ plan[t].todo = "CompleteTodo"
  /\ Waits(t, [plan[t] EXCEPT !.todo = "Query", !.todos = @ - 1, !.executed = TRUE])

TodosQueried(t) ==
  /\ NextCalled(t) /\ plan[t].todo = "Query"
  /\ IF plan[t].todos > 0 THEN StartsChild(t, plan[t], "Executing")
     ELSE IF plan[t].executed THEN Waits(t, [plan[t] EXCEPT !.todo = "Saving"])
     ELSE Fails(t)

TodosSaved(t) ==
  /\ NextCalled(t) /\ plan[t].todo = "Saving"
  /\ Moves(t, "completing")
  /\ SameSession /\ SameInputs /\ UNCHANGED channel

\* finish_tool_call: the loop of a chat created todos, and a todo plan takes
\* its turn.  When that plan cannot start its child it is dropped, which
\* aborts the turn, and the error makes the loop's own abort do so again.
Handover(t) ==
  /\ ToolAnswers(t) /\ Own(t)
  /\ plan[t].remaining = 1 /\ plan[t].creates
  /\ IF ctx[t] = "running"
     THEN /\ \E n \in 1..MaxTodos :
               Sets(t, [NewLoop(plan[t]) EXCEPT !.todo = "Executing", !.todos = n])
          /\ SameSession
     ELSE /\ Moves(t, "failing") /\ Release(Aborted(gate))
          /\ UNCHANGED <<binding, last, bound, result, ctx, accepted>>
  /\ SameInputs /\ UNCHANGED channel

-----------------------------------------------------------------------------
(* The end of a plan.                                                      *)

\* finish_plan, then the drop of the plan.
Finish(t) ==
  /\ plan[t].at = "ended" /\ ctx[t] # "cancelled"
  /\ ctx' = [ctx EXCEPT ![t] = "succeeded"]
  /\ Release(Closed(gate))
  /\ Drops(t)
  /\ UNCHANGED <<binding, last, bound, result, accepted, taken, history, channel>>

\* Whoever removes the execution aborts the plan: after an error, or because
\* the context was cancelled.  A callback may hold the execution already.
Abort(t, late) ==
  /\ \/ plan[t].at = "failing"
     \/ plan[t].at \in {"init", "waiting", "ended"} /\ ctx[t] = "cancelled"
  /\ late => plan[t].at \in {"init", "waiting"}
  /\ ctx' = [ctx EXCEPT ![t] = IF @ \in Terminal THEN @ ELSE "failed"]
  /\ Sets(t, [NoPlan EXCEPT !.at = "aborting", !.todo = plan[t].todo, !.late = late,
                            !.stage = IF late THEN plan[t].stage ELSE @])
  /\ UNCHANGED <<gate, binding, last, bound, result, call, accepted, channel>> /\ SameInputs

\* A loop reports first and releases the turn then; a todo plan the other
\* way round.
ReportFailure(t) ==
  /\ \/ plan[t].at = "aborting" /\ Own(t) /\ Moves(t, "reported") /\ UNCHANGED unsaved
     \/ plan[t].at = "released" /\ Drops(t)
  /\ Emits(t, "failed")
  /\ UNCHANGED <<gate, binding, last, bound, ctx, call, accepted, taken, history>>

ReleaseTurn(t) ==
  /\ \/ plan[t].at = "reported" /\ Drops(t)
     \/ plan[t].at = "aborting" /\ ~Own(t) /\ Moves(t, "released") /\ UNCHANGED unsaved
  /\ Release(Aborted(gate))
  /\ UNCHANGED <<binding, last, bound, result, ctx, accepted, taken, history, channel>>

\* The callback that held the execution calls next although abort is over,
\* or start_plan calls init.
NextAfterAbort(t) ==
  /\ plan[t].at = "gone" /\ plan[t].late
  /\ IF <<t, "started">> \notin Range(channel) /\ ~gate.cancel
     THEN /\ Emits(t, "started") /\ Sets(t, [NoPlan EXCEPT !.at = "overrun"])
          /\ UNCHANGED <<gate, binding, last, bound, ctx, call, accepted>> /\ SameInputs
     ELSE IF gate.cancel \/ ~Own(t) \/ plan[t].stage \in {"Memory", "Tools"}
     THEN Waits(t, [NoPlan EXCEPT !.at = "overrun"])
     ELSE IF plan[t].stage = "Save" /\ gate.pending = <<>>
     THEN /\ gate' = [gate EXCEPT !.accepting = FALSE]
          /\ Sets(t, [NoPlan EXCEPT !.at = "overrun"])
          /\ UNCHANGED <<binding, last, bound, result, ctx, call, accepted, channel>>
          /\ SameInputs
     ELSE TakesInputs(t) /\ Sets(t, [NoPlan EXCEPT !.at = "overrun"])

-----------------------------------------------------------------------------
LoopStep(t) ==
  \/ NextCancelled(t) \/ AfterMemory(t) \/ AfterHistory(t) \/ AfterCompression(t)
  \/ EmptyAnswer(t) \/ FinalAnswer(t) \/ ToolCalls(t) \/ ToolReturns(t) \/ ToolsReturn(t)
  \/ Saved(t) \/ NextFails(t)

TodoStep(t) ==
  \/ TodoInitialized(t) \/ TodosPlanned(t) \/ TodoCompleted(t) \/ TodosQueried(t)
  \/ TodosSaved(t) \/ Handover(t)

\* What the runtime does without waiting for anybody.
EndStep(t) ==
  \/ InitPlan(t)
  \/ Complete(t)
  \/ Finish(t)
  \/ \E late \in BOOLEAN : Abort(t, late)
  \/ ReportFailure(t)
  \/ ReleaseTurn(t)

StartStep(c) ==
  \/ \E told \in BOOLEAN : StartRefused(c, told)
  \/ StartPlan(c)
  \/ Return(c)

PlanStep == \E t \in Turns : LoopStep(t) \/ TodoStep(t) \/ EndStep(t) \/ NextAfterAbort(t)

SameAgent == UNCHANGED <<plan, channel>> /\ SameInputs

Next ==
  \/ UserStep /\ SameAgent
  \/ \E c \in Callers : CallerStep(c) /\ SameAgent
  \/ \E c \in Callers : StartStep(c)
  \/ PlanStep

Spec == Init /\ [][Next]_agent_vars

\* Tokio polls a caller that can go on, and the watcher and the drops of the
\* runtime; that models and tools answer is not assumed here.
Fairness ==
  /\ \A c \in Callers : WF_agent_vars((CallerStep(c) /\ SameAgent) \/ StartStep(c))
  /\ \A t \in Turns : WF_agent_vars(EndStep(t))

\* Tasks answer or fail in the end.
TasksAnswer == \A t \in Turns : WF_agent_vars(LoopStep(t) \/ TodoStep(t))

FairSpec == Spec /\ Fairness
AnswerSpec == FairSpec /\ TasksAnswer

-----------------------------------------------------------------------------
(* Properties.                                                             *)

Told(t, what) == <<t, what>> \in Range(channel)

\* While the session says that it is idle, which wait_idle waits for, no plan
\* of it is left that would still complete, report or release a turn.  Of one
\* caller and an agent without the todo tool, as the two properties below.
TornDownWhenIdle ==
  ~gate.active => \A t \in Turns : plan[t].at \in {"none", "gone", "overrun"}

\* The callback of an earlier turn, whose plan was aborted, called next after
\* that and took the input.
Strayed(x) == taken[x] \in Turns /\ taken[x] < accepted[x] /\ plan[taken[x]].at = "overrun"

\* A supplement goes to the conversation that accepted it or to none, or else
\* it strays: nothing but a late next takes it for another, and never a later
\* conversation.
InputsStayInTurn == \A x \in Inputs : taken[x] \in {NoTurn, accepted[x]} \/ Strayed(x)

\* A turn that completed has given the model every supplement it accepted,
\* and the history has them all, but for those that strayed to an aborted plan.
InputsAreAnswered ==
  \A x \in Inputs : accepted[x] # NoTurn /\ Told(accepted[x], "completed")
                      => (taken[x] = accepted[x] /\ x \in history) \/ Strayed(x)

\* The call that claimed the gate returned with an error because its context
\* was cancelled between bind and set_state: nobody will release that turn.
Abandoned ==
  /\ gate.active /\ plan[last].at = "none"
  /\ \A c \in Callers : call[c].at \notin {"claimed", "bound", "spawning"}

\* The caller that asks for a new conversation is let in, whatever the model or
\* the tools of the one it replaces are doing, unless the turn it waits for was
\* abandoned.  Of one caller: of several, others may be let in first.
NewChatSettles ==
  \A c \in Callers : call[c].at = "claiming" ~> call[c].at \in {"claimed", "idle"} \/ Abandoned

\* Every turn that is not abandoned ends, when models and tools answer: the
\* limits on iterations and retries bound its loop.
TurnsEnd == gate.active ~> ~gate.active \/ Abandoned
=============================================================================
