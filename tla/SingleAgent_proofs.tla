------------------------- MODULE SingleAgent_proofs -------------------------
(***************************************************************************)
(* Machine-checked theorems about SingleAgent: the gate of a session is    *)
(* idle only when no plan is left behind it, supplements stay in the turn  *)
(* that accepted them, and a turn that completed has answered them, but    *)
(* for those that a callback of an aborted plan took, for any number of    *)
(* turns and inputs, any limit on iterations and any moment of a           *)
(* cancellation or a replacement.                                          *)
(*                                                                         *)
(* None of them is inductive alone.  The invariant below ties the gate to  *)
(* the last turn: only its plan is alive, what is pending is its own, it   *)
(* accepts nothing once it is about to complete, and what it has accepted  *)
(* is pending, or in its messages, or in the history, or strayed.          *)
(***************************************************************************)
EXTENDS SingleAgent, SequenceTheorems, TLAPS

\* What the theorems are stated under: one task holds the session, and the
\* agent has no todo tool.  Without them a turn can be released by what a former
\* one left behind.
Plain ==
  /\ \A c, d \in Callers : c = d
  /\ ~HasTodoTool

-----------------------------------------------------------------------------
(* The inductive invariant.                                                *)

\* The plans there are without the todo tool.
Plans == {p \in PlanRecords : p.todo = "none" /\ ~p.creates /\ p.at # "released"}
Calls == [at : Places, turn : 0..MaxTurns, woken : BOOLEAN, mode : Modes \cup {"unbound"}]
Outputs == Turns \X {"started", "completed", "failed"}

Types ==
  /\ gate \in Gates /\ binding \in Modes \cup {"unbound"}
  /\ last \in 0..MaxTurns /\ bound \in 0..MaxTurns /\ result \in 0..MaxTurns
  /\ ctx \in [Turns -> ContextStates]
  /\ call \in [Callers -> Calls]
  /\ accepted \in [Inputs -> 0..MaxTurns] /\ taken \in [Inputs -> 0..MaxTurns]
  /\ plan \in [Turns -> Plans]
  /\ unsaved \in [Turns -> SUBSET Inputs] /\ history \subseteq Inputs
  /\ channel \in Seq(Outputs)

Live(t) == plan[t].at \notin {"none", "gone", "overrun"}

\* What a caller between two of its locks relies on.
CallerOK(c) ==
  /\ call[c].at = "building" => /\ binding = "unbound" /\ call[c].turn = 1 /\ bound = 1
                                /\ call[c].mode \in Modes
  /\ call[c].at = "moding" => binding # "unbound" /\ call[c].mode \in Modes
  /\ call[c].at \notin {"idle", "building"} => binding # "unbound"
  /\ call[c].at \in {"claimed", "bound"} =>
       call[c].turn = last /\ gate.active /\ plan[last].at = "none"
  /\ call[c].at = "spawning" =>
       call[c].turn = last /\ last # 0 /\ (plan[last].at = "none" => gate.active)

\* The gate is open for the last turn, the only one that may have a plan.
Bindings ==
  /\ bound = NoTurn => binding = "unbound"
  /\ binding = "unbound" => last = 0
TurnOK ==
  /\ last = 0 => ~gate.active
  /\ \A t \in Turns : t > last => plan[t].at = "none"
  /\ \A t \in Turns : Live(t) => t = last /\ gate.active
  /\ gate.active => plan[last].at \notin {"gone", "overrun"}

\* What is pending is the last turn's.  It takes nothing more once it is over.
GateOK ==
  /\ ~gate.active => gate.pending = <<>>
  /\ gate.cancel => gate.active /\ ~gate.accepting /\ gate.pending = <<>>
  /\ \A x \in PendingSet : accepted[x] = last
  /\ \A x \in Inputs : accepted[x] <= last
  /\ \A t \in Turns : plan[t].at \in {"completing", "ended"} =>
       gate.pending = <<>> /\ ~gate.accepting
  /\ \A t \in Turns, what \in {"started", "completed", "failed"} : Told(t, what) => t <= last
  /\ Told(last, "completed") => gate.pending = <<>> /\ ~(gate.active /\ gate.accepting)

\* Nothing that the last turn accepted is lost, unless somebody replaces it or
\* a callback of an earlier turn takes it.
Kept(x) == taken[x] = last /\ (x \in unsaved[last] \/ x \in history)
Safe == gate.active /\ ~gate.cancel =>
          \A x \in Inputs : accepted[x] = last => x \in PendingSet \/ Kept(x) \/ Strayed(x)
Written == \A t \in Turns : plan[t].at = "completing" =>
             \A x \in Inputs : accepted[x] = t => (taken[x] = t /\ x \in history) \/ Strayed(x)
InputsOK == InputsStayInTurn /\ InputsAreAnswered /\ Safe /\ Written

AgentInv ==
  /\ Types
  /\ \A c \in Callers : CallerOK(c)
  /\ Bindings /\ TurnOK /\ GateOK /\ InputsOK

-----------------------------------------------------------------------------
(* Facts about the operators.                                              *)

LEMMA LastType ==
  ASSUME Types
  PROVE  /\ last \in Nat /\ MaxTurns \in Nat /\ 1 \in Turns /\ 0 \notin Turns
         /\ Turns \subseteq Nat
         /\ last # 0 => last \in Turns
  BY SessionAssumption DEF Types, Turns

LEMMA PendingType ==
  ASSUME Types
  PROVE  PendingSet \subseteq Inputs /\ (gate.pending = <<>> => PendingSet = {})
  <1>1. gate.pending \in Seq(Inputs)
    BY DEF Types, Gates
  <1>2. QED
    BY <1>1 DEF PendingSet

LEMMA PlaceType ==
  ASSUME NEW p \in Plans, NEW place \in PlanPlaces \ {"released"}
  PROVE  [p EXCEPT !.at = place] \in Plans /\ [p EXCEPT !.at = place].at = place
  BY DEF Plans, PlanRecords

LEMMA NoPlanType == NoPlan \in Plans /\ NoPlan.at = "none"
  <1>1. 0 \in 0..MaxIterations /\ 0 \in 0..MaxCalls /\ 0 \in 0..MaxTodos
    BY AgentAssumption
  <1>2. NoPlan \in PlanRecords
    BY <1>1 DEF NoPlan, PlanRecords, PlanPlaces, Stages
  <1>3. NoPlan.todo = "none" /\ ~NoPlan.creates /\ ~NoPlan.late /\ NoPlan.at = "none"
    BY DEF NoPlan
  <1>4. QED
    BY <1>2, <1>3 DEF Plans

LEMMA RefusedType ==
  ASSUME NEW p \in Plans, NEW refused \in BOOLEAN, NEW place \in PlanPlaces \ {"released"}
  PROVE  /\ [p EXCEPT !.at = place, !.refused = refused] \in Plans
         /\ [p EXCEPT !.at = place, !.refused = refused].at = place
  BY DEF Plans, PlanRecords

LEMMA SetsPlan ==
  ASSUME plan \in [Turns -> Plans], NEW t \in Turns, NEW p \in Plans, Sets(t, p)
  PROVE  /\ plan' \in [Turns -> Plans] /\ plan'[t] = p
         /\ \A u \in Turns : u # t => plan'[u] = plan[u]
  BY DEF Sets

LEMMA MovesPlan ==
  ASSUME plan \in [Turns -> Plans], NEW t \in Turns, NEW place \in PlanPlaces \ {"released"},
         Moves(t, place)
  PROVE  Sets(t, [plan[t] EXCEPT !.at = place])
  BY DEF Moves, Sets

LEMMA SaysMore ==
  ASSUME channel \in Seq(Outputs), NEW e \in Outputs, channel' = Append(channel, e)
  PROVE  /\ channel' \in Seq(Outputs)
         /\ Range(channel') = Range(channel) \cup {e}
  <1>1. /\ channel' \in Seq(Outputs) /\ Len(channel') = Len(channel) + 1
        /\ Len(channel) \in Nat /\ channel'[Len(channel) + 1] = e
        /\ \A i \in 1..Len(channel) : channel'[i] = channel[i]
    BY AppendProperties
  <1>2. DOMAIN channel = 1..Len(channel) /\ DOMAIN channel' = 1..(Len(channel) + 1)
    BY <1>1
  <1>3. Range(channel') \subseteq Range(channel) \cup {e}
    BY <1>1, <1>2 DEF Range
  <1>4. e \in Range(channel')
    BY <1>1, <1>2 DEF Range
  <1>5. Range(channel) \subseteq Range(channel')
    <2>1. SUFFICES ASSUME NEW i \in 1..Len(channel) PROVE channel[i] \in Range(channel')
      BY <1>2 DEF Range
    <2>2. i \in DOMAIN channel' /\ channel'[i] = channel[i]
      BY <1>1, <1>2
    <2>3. QED
      BY <2>2 DEF Range
  <1>6. QED
    BY <1>1, <1>3, <1>4, <1>5

\* What strayed has strayed: a plan that a late callback is through with does
\* nothing more.
LEMMA StraysStay ==
  ASSUME UNCHANGED <<taken, accepted>>,
         \A u \in Turns : plan[u].at = "overrun" => plan'[u].at = "overrun"
  PROVE  \A x \in Inputs : Strayed(x) => Strayed(x)'
  BY DEF Strayed

\* A step in which nobody takes an input and no turn is said to be completed.
LEMMA AnswersStay ==
  ASSUME InputsOK, UNCHANGED <<taken, accepted, history>>,
         \A u \in Turns : plan[u].at = "overrun" => plan'[u].at = "overrun",
         \A x \in Inputs : accepted[x] # NoTurn /\ Told(accepted[x], "completed")'
                            => Told(accepted[x], "completed")
  PROVE  InputsStayInTurn' /\ InputsAreAnswered'
  <1>1. \A x \in Inputs : Strayed(x) => Strayed(x)'
    BY StraysStay
  <1>2. InputsStayInTurn'
    BY <1>1 DEF InputsOK, InputsStayInTurn
  <1>3. InputsAreAnswered'
    BY <1>1 DEF InputsOK, InputsAreAnswered
  <1>4. QED
    BY <1>2, <1>3

\* A step that touches nothing the inputs and the gate depend on.
LEMMA GateStays ==
  ASSUME GateOK, InputsOK,
         UNCHANGED <<gate, last, plan, accepted, taken, unsaved, history, channel>>
  PROVE  GateOK' /\ InputsOK'
  <1>1. PendingSet' = PendingSet
    BY DEF PendingSet
  <1>2. GateOK'
    BY <1>1 DEF GateOK, Told
  <1>3. InputsStayInTurn' /\ InputsAreAnswered'
    BY AnswersStay DEF Told
  <1>4. Safe' /\ Written'
    BY <1>1, StraysStay DEF InputsOK, Safe, Written, Kept
  <1>5. QED
    BY <1>2, <1>3, <1>4 DEF InputsOK

LEMMA TurnStays ==
  ASSUME TurnOK, gate'.active = gate.active, UNCHANGED <<last, plan>>
  PROVE  TurnOK'
  BY DEF TurnOK, Live

-----------------------------------------------------------------------------
(* The callers.                                                            *)

\* A step of the one caller in which nothing but its place, and what is bound,
\* changes.
LEMMA CallStays ==
  ASSUME Plain, AgentInv, NEW c \in Callers, NEW r \in Calls,
         call' = [call EXCEPT ![c] = r],
         UNCHANGED <<gate, last, plan, accepted, taken, unsaved, history, channel>>,
         binding' \in Modes \cup {"unbound"}, bound' \in 0..MaxTurns, result' \in 0..MaxTurns,
         ctx' \in [Turns -> ContextStates], Bindings', CallerOK(c)'
  PROVE  AgentInv'
  <1>1. Types'
    BY DEF AgentInv, Types
  <1>2. \A d \in Callers : CallerOK(d)'
    BY DEF Plain
  <1>3. TurnOK' /\ GateOK' /\ InputsOK'
    BY GateStays, TurnStays DEF AgentInv
  <1>4. QED
    BY <1>1, <1>2, <1>3 DEF AgentInv

LEMMA IdleCall ==
  /\ Idle \in Calls /\ Idle.at = "idle"
  BY SessionAssumption DEF Idle, Calls, Places, NoTurn

LEMMA GoesCall ==
  ASSUME Types, NEW c \in Callers, NEW place \in Places, Goes(c, place)
  PROVE  \E r \in Calls : /\ call' = [call EXCEPT ![c] = r]
                          /\ call'[c].at = place /\ call'[c].turn = call[c].turn
                          /\ call'[c].mode = call[c].mode
  <1> DEFINE r == [call[c] EXCEPT !.at = place]
  <1>1. call[c] \in Calls
    BY DEF Types
  <1>2. r \in Calls /\ r.at = place /\ r.turn = call[c].turn /\ r.mode = call[c].mode
    BY <1>1 DEF Calls
  <1>3. call' = [call EXCEPT ![c] = r]
    BY DEF Goes
  <1>4. call'[c] = r
    BY <1>3 DEF Types
  <1> HIDE DEF r
  <1>5. QED
    BY <1>2, <1>3, <1>4

LEMMA CancelledType ==
  ASSUME Types, NEW t
  PROVE  Cancelled(t) \in [Turns -> ContextStates]
  BY DEF Types, Cancelled, ContextStates, Terminal

LEMMA CheckModeStep ==
  ASSUME Plain, AgentInv, NEW c \in Callers, NEW m \in Modes, CheckMode(c, m), SameAgent
  PROVE  AgentInv'
  <1>1. call[c] \in Calls
    BY DEF AgentInv, Types
  <1> DEFINE r == [call[c] EXCEPT !.at = "moding", !.mode = m]
  <1>2. r \in Calls /\ r.at = "moding" /\ r.mode = m
    BY <1>1 DEF Calls, Places
  <1>3. call' = [call EXCEPT ![c] = r]
    BY DEF CheckMode
  <1>4. call'[c] = r
    BY <1>3 DEF AgentInv, Types
  <1> HIDE DEF r
  <1>5. binding # "unbound" /\ UNCHANGED <<gate, binding, last, bound, result, ctx, accepted>>
        /\ UNCHANGED <<plan, taken, unsaved, history, channel>>
    BY DEF CheckMode, SameAgent, SameInputs
  <1>6. CallerOK(c)'
    BY <1>2, <1>4, <1>5 DEF CallerOK, Places
  <1>7. QED
    BY <1>2, <1>3, <1>5, <1>6, CallStays DEF AgentInv, Types, Bindings

LEMMA WriteModeStep ==
  ASSUME Plain, AgentInv, NEW c \in Callers, WriteMode(c), SameAgent
  PROVE  AgentInv'
  <1>1. call' = [call EXCEPT ![c] = Idle] /\ call'[c] = Idle
    BY DEF WriteMode, Returns, AgentInv, Types
  <1>2. binding # "unbound" /\ call[c].mode \in Modes /\ binding' = call[c].mode
        /\ UNCHANGED <<gate, last, bound, result, ctx, accepted>>
        /\ UNCHANGED <<plan, taken, unsaved, history, channel>>
    BY DEF WriteMode, SameAgent, SameInputs, AgentInv, CallerOK
  <1>3. binding' # "unbound"
    BY <1>2, SessionAssumption
  <1>4. CallerOK(c)'
    BY <1>1, IdleCall DEF CallerOK
  <1>5. QED
    BY <1>1, <1>2, <1>3, <1>4, IdleCall, CallStays DEF AgentInv, Types, Bindings

LEMMA BuildStep ==
  ASSUME Plain, AgentInv, NEW c \in Callers, NEW m \in Modes, Build(c, m), SameAgent
  PROVE  AgentInv'
  <1> DEFINE r == [at |-> "building", turn |-> 1, woken |-> FALSE, mode |-> m]
  <1>1. 1 \in 0..MaxTurns /\ 1 # NoTurn
    BY SessionAssumption DEF NoTurn
  <1>2. r \in Calls /\ r.at = "building" /\ r.turn = 1 /\ r.mode = m
    BY <1>1 DEF Calls, Places
  <1>3. call' = [call EXCEPT ![c] = r]
    BY DEF Build
  <1>4. call'[c] = r
    BY <1>3 DEF AgentInv, Types
  <1> HIDE DEF r
  <1>5. /\ binding = "unbound" /\ bound' = 1 /\ result' = NoTurn
        /\ ctx' \in [Turns -> ContextStates]
        /\ UNCHANGED <<gate, binding, last, accepted>>
        /\ UNCHANGED <<plan, taken, unsaved, history, channel>>
    BY DEF Build, SameAgent, SameInputs, AgentInv, Types, Bindings, ContextStates
  <1>6. CallerOK(c)'
    BY <1>2, <1>4, <1>5 DEF CallerOK, Places
  <1>7. QED
    BY <1>1, <1>2, <1>3, <1>5, <1>6, CallStays DEF AgentInv, Types, Bindings, NoTurn

LEMMA NewChatStep ==
  ASSUME Plain, AgentInv, NEW c \in Callers, NewChat(c), SameAgent
  PROVE  AgentInv'
  <1> DEFINE r == [at |-> "claiming", turn |-> NoTurn, woken |-> FALSE, mode |-> binding]
  <1>1. r \in Calls /\ r.at = "claiming"
    BY SessionAssumption DEF Calls, Places, Looping, AgentInv, Types, NoTurn
  <1>2. call' = [call EXCEPT ![c] = r]
    BY DEF NewChat
  <1>3. call'[c] = r
    BY <1>2 DEF AgentInv, Types
  <1> HIDE DEF r
  <1>4. /\ binding # "unbound"
        /\ UNCHANGED <<gate, binding, last, bound, result, ctx, accepted>>
        /\ UNCHANGED <<plan, taken, unsaved, history, channel>>
    BY DEF NewChat, SameAgent, SameInputs
  <1>5. CallerOK(c)'
    BY <1>1, <1>3, <1>4 DEF CallerOK
  <1>6. QED
    BY <1>1, <1>2, <1>4, <1>5, CallStays DEF AgentInv, Types, Bindings

LEMMA InterruptStep ==
  ASSUME Plain, AgentInv, NEW c \in Callers, Interrupt(c), SameAgent
  PROVE  AgentInv'
  <1>1. PICK r \in Calls : /\ call' = [call EXCEPT ![c] = r] /\ call'[c].at = "waiting"
    BY GoesCall DEF Interrupt, AgentInv, Places, Looping
  <1>2. /\ binding # "unbound" /\ ctx' \in [Turns -> ContextStates]
        /\ UNCHANGED <<gate, binding, last, bound, result, accepted>>
        /\ UNCHANGED <<plan, taken, unsaved, history, channel>>
    BY CancelledType DEF Interrupt, SameAgent, SameInputs, AgentInv, CallerOK
  <1>3. CallerOK(c)'
    BY <1>1, <1>2 DEF CallerOK
  <1>4. QED
    BY <1>1, <1>2, <1>3, CallStays DEF AgentInv, Types, Bindings

LEMMA WakeStep ==
  ASSUME Plain, AgentInv, NEW c \in Callers, Wake(c), SameAgent
  PROVE  AgentInv'
  <1>1. call[c] \in Calls
    BY DEF AgentInv, Types
  <1> DEFINE r == [call[c] EXCEPT !.at = "claiming", !.woken = FALSE]
  <1>2. r \in Calls /\ r.at = "claiming"
    BY <1>1 DEF Calls, Places, Looping
  <1>3. call' = [call EXCEPT ![c] = r]
    BY DEF Wake
  <1>4. call'[c] = r
    BY <1>3 DEF AgentInv, Types
  <1> HIDE DEF r
  <1>5. /\ binding # "unbound"
        /\ UNCHANGED <<gate, binding, last, bound, result, ctx, accepted>>
        /\ UNCHANGED <<plan, taken, unsaved, history, channel>>
    BY DEF Wake, SameAgent, SameInputs, AgentInv, CallerOK
  <1>6. CallerOK(c)'
    BY <1>2, <1>4, <1>5 DEF CallerOK
  <1>7. QED
    BY <1>2, <1>3, <1>5, <1>6, CallStays DEF AgentInv, Types, Bindings

LEMMA BindContextStep ==
  ASSUME Plain, AgentInv, NEW c \in Callers, BindContext(c), SameAgent
  PROVE  AgentInv'
  <1>1. PICK r \in Calls : /\ call' = [call EXCEPT ![c] = r] /\ call'[c].at = "bound"
                           /\ call'[c].turn = call[c].turn
    BY GoesCall DEF BindContext, AgentInv, Places
  <1>2. /\ call[c].turn = last /\ gate.active /\ plan[last].at = "none" /\ binding # "unbound"
        /\ bound' = last /\ result' = NoTurn
        /\ UNCHANGED <<gate, binding, last, accepted>>
        /\ UNCHANGED <<plan, taken, unsaved, history, channel>>
    BY DEF BindContext, SameAgent, SameInputs, AgentInv, CallerOK
  <1>3. ctx' \in [Turns -> ContextStates]
    <2>1. "created" \in ContextStates
      BY DEF ContextStates
    <2>2. ctx' = [ctx EXCEPT ![call[c].turn] = "created"]
      BY DEF BindContext
    <2>3. QED
      BY <2>1, <2>2 DEF AgentInv, Types
  <1>4. bound' \in 0..MaxTurns /\ result' \in 0..MaxTurns
    BY <1>2, SessionAssumption DEF AgentInv, Types, NoTurn
  <1>5. CallerOK(c)'
    BY <1>1, <1>2 DEF CallerOK
  <1>6. Bindings' /\ binding' \in Modes \cup {"unbound"}
    BY <1>2 DEF AgentInv, Types, Bindings, TurnOK, NoTurn
  <1>7. QED
    BY <1>1, <1>2, <1>3, <1>4, <1>5, <1>6, CallStays

LEMMA SetRunningStep ==
  ASSUME Plain, AgentInv, NEW c \in Callers, SetRunning(c), SameAgent
  PROVE  AgentInv'
  <1>1. /\ call[c].at = "bound"
        /\ call[c].turn = last /\ last # 0 /\ gate.active /\ binding # "unbound"
        /\ UNCHANGED <<gate, binding, last, bound, result, accepted>>
        /\ UNCHANGED <<plan, taken, unsaved, history, channel>>
    BY DEF SetRunning, SameAgent, SameInputs, AgentInv, CallerOK, TurnOK
  <1>2. ctx' \in [Turns -> ContextStates]
    BY DEF SetRunning, AgentInv, Types, ContextStates
  <1>3. CASE Goes(c, "spawning")
    <2>1. PICK r \in Calls : /\ call' = [call EXCEPT ![c] = r] /\ call'[c].at = "spawning"
                             /\ call'[c].turn = call[c].turn
      BY <1>3, GoesCall DEF AgentInv, Places
    <2>2. CallerOK(c)'
      BY <1>1, <2>1 DEF CallerOK
    <2>3. QED
      BY <1>1, <1>2, <2>1, <2>2, CallStays DEF AgentInv, Types, Bindings
  <1>4. CASE Returns(c)
    <2>1. call' = [call EXCEPT ![c] = Idle] /\ call'[c] = Idle
      BY <1>4 DEF Returns, AgentInv, Types
    <2>2. CallerOK(c)'
      BY <2>1, IdleCall DEF CallerOK
    <2>3. QED
      BY <1>1, <1>2, <2>1, <2>2, IdleCall, CallStays DEF AgentInv, Types, Bindings
  <1>5. QED
    BY <1>3, <1>4 DEF SetRunning

-----------------------------------------------------------------------------
(* The gate.                                                               *)

LEMMA NotifiedType ==
  ASSUME Types
  PROVE  /\ Notified \in [Callers -> Calls]
         /\ \A c \in Callers : Notified[c].at = call[c].at /\ Notified[c].turn = call[c].turn
                               /\ Notified[c].mode = call[c].mode
  <1>1. SUFFICES ASSUME NEW c \in Callers
                 PROVE  /\ [call[c] EXCEPT !.woken = @ \/ call[c].at \in Looping] \in Calls
                        /\ Notified[c] = [call[c] EXCEPT !.woken = @ \/ call[c].at \in Looping]
                        /\ Notified[c].at = call[c].at /\ Notified[c].turn = call[c].turn
                        /\ Notified[c].mode = call[c].mode
    BY DEF Notified
  <1>2. call[c] \in Calls
    BY DEF Types
  <1>3. [call[c] EXCEPT !.woken = @ \/ call[c].at \in Looping] \in Calls
    BY <1>2 DEF Calls
  <1>4. Notified[c] = [call[c] EXCEPT !.woken = @ \/ call[c].at \in Looping]
    BY DEF Notified
  <1>5. /\ Notified[c].at = call[c].at /\ Notified[c].turn = call[c].turn
        /\ Notified[c].mode = call[c].mode
    BY <1>2, <1>4 DEF Calls
  <1>6. QED
    BY <1>3, <1>4, <1>5

LEMMA GateTypes ==
  ASSUME NEW g \in Gates
  PROVE  /\ Opened(g) \in Gates /\ Opened(g).active /\ Opened(g).accepting
         /\ Opened(g).cancel = g.cancel /\ Opened(g).pending = g.pending
         /\ Replaced(g) \in Gates /\ Replaced(g).active = g.active /\ ~Replaced(g).accepting
         /\ Replaced(g).cancel /\ Replaced(g).pending = <<>>
         /\ Closed(g) \in Gates /\ ~Closed(g).active /\ ~Closed(g).accepting
         /\ ~Closed(g).cancel /\ Closed(g).pending = g.pending
         /\ Aborted(g) \in Gates /\ ~Aborted(g).active /\ ~Aborted(g).accepting
         /\ ~Aborted(g).cancel /\ Aborted(g).pending = <<>>
  <1>1. /\ Opened(g) \in Gates /\ Opened(g).active /\ Opened(g).accepting
        /\ Opened(g).cancel = g.cancel /\ Opened(g).pending = g.pending
    BY DEF Gates, Opened
  <1>2. <<>> \in Seq(Inputs)
    OBVIOUS
  <1>3. /\ Replaced(g) \in Gates /\ Replaced(g).active = g.active /\ ~Replaced(g).accepting
        /\ Replaced(g).cancel /\ Replaced(g).pending = <<>>
    BY <1>2 DEF Gates, Replaced
  <1>4. /\ Closed(g) \in Gates /\ ~Closed(g).active /\ ~Closed(g).accepting
        /\ ~Closed(g).cancel /\ Closed(g).pending = g.pending
    BY DEF Gates, Closed
  <1>5. /\ Aborted(g) \in Gates /\ ~Aborted(g).active /\ ~Aborted(g).accepting
        /\ ~Aborted(g).cancel /\ Aborted(g).pending = <<>>
    <2> DEFINE h == Closed(g)
    <2>1. h \in Gates /\ ~h.active /\ ~h.accepting /\ ~h.cancel
      BY <1>4
    <2>2. Aborted(g) = [h EXCEPT !.pending = <<>>]
      BY DEF Aborted
    <2> HIDE DEF h
    <2>3. QED
      BY <1>2, <2>1, <2>2 DEF Gates
  <1>6. QED
    BY <1>1, <1>3, <1>4, <1>5

\* A released gate lets a turn in: the last one, which nothing was said or
\* accepted for yet.
LEMMA OpensTurn ==
  ASSUME AgentInv, ~gate.active, last < MaxTurns, last' = last + 1, gate' = Opened(gate),
         UNCHANGED <<plan, accepted, taken, unsaved, history, channel>>
  PROVE  /\ gate' \in Gates /\ last' \in Turns /\ plan'[last'].at = "none" /\ gate'.active
         /\ TurnOK' /\ GateOK' /\ InputsOK'
  <1>1. gate \in Gates
    BY DEF AgentInv, Types
  <1>2. /\ last \in Nat /\ MaxTurns \in Nat /\ Turns \subseteq Nat /\ last' \in Turns
        /\ last' > last /\ last' # 0
    BY LastType DEF AgentInv, Turns
  <1>3. /\ gate' \in Gates /\ gate'.active /\ gate'.accepting
        /\ gate'.cancel = gate.cancel /\ gate'.pending = gate.pending
    BY <1>1, GateTypes
  <1>4. \A t \in Turns : ~Live(t)
    BY DEF AgentInv, TurnOK
  <1>5. plan[last'].at = "none"
    BY <1>2 DEF AgentInv, TurnOK
  <1>6. TurnOK'
    <2>1. ASSUME NEW t \in Turns, t > last' PROVE plan[t].at = "none"
      <3>1. t \in Nat /\ t > last
        BY <1>2, <2>1
      <3>2. QED
        BY <3>1 DEF AgentInv, TurnOK
    <2>2. QED
      BY <1>2, <1>3, <1>4, <1>5, <2>1 DEF TurnOK, Live
  <1>7. GateOK' /\ InputsOK'
    <2>1. gate.pending = <<>> /\ ~gate.cancel /\ PendingSet' = {}
      BY <1>3 DEF AgentInv, GateOK, PendingSet
    <2>2. /\ \A x \in Inputs : accepted[x] <= last /\ accepted[x] \in Nat
          /\ \A t \in Turns, what \in {"started", "completed", "failed"} : Told(t, what) => t <= last
      BY DEF AgentInv, GateOK, Types
    <2>3. GateOK'
      <3>1. \A x \in Inputs : accepted[x] <= last'
        BY <1>2, <2>2
      <3>2. ASSUME NEW t \in Turns, NEW what \in {"started", "completed", "failed"},
                   Told(t, what)'
            PROVE  t <= last' /\ t # last'
        <4>1. t \in Nat /\ t <= last
          BY <1>2, <2>2, <3>2 DEF Told
        <4>2. QED
          BY <1>2, <4>1
      <3>3. \A t \in Turns : plan[t].at \notin {"completing", "ended"}
        BY <1>4 DEF Live
      <3>4. \A t \in Turns, what \in {"started", "completed", "failed"} :
              Told(t, what)' => t <= last'
        BY <3>2
      <3>5. ~Told(last, "completed")'
        BY <1>2, <3>2 DEF Told
      <3>6. QED
        BY <1>3, <2>1, <3>1, <3>3, <3>4, <3>5 DEF GateOK
    <2>4. InputsOK'
      <3>1. InputsStayInTurn' /\ InputsAreAnswered'
        BY AnswersStay DEF AgentInv, Told
      <3>2. Written'
        BY <1>4 DEF Written, Live
      <3>3. Safe'
        BY <1>2, <2>2 DEF Safe
      <3>4. QED
        BY <3>1, <3>2, <3>3 DEF InputsOK
    <2>5. QED
      BY <2>3, <2>4
  <1>8. QED
    BY <1>2, <1>3, <1>5, <1>6, <1>7 DEF AgentInv

LEMMA BindSessionStep ==
  ASSUME Plain, AgentInv, NEW c \in Callers, BindSession(c), SameAgent
  PROVE  AgentInv'
  <1>1. /\ binding = "unbound" /\ call[c].turn = 1 /\ bound = 1 /\ call[c].mode \in Modes
        /\ binding' = call[c].mode /\ gate' = Opened(gate) /\ last' = 1
        /\ Goes(c, "spawning") /\ UNCHANGED <<bound, result, ctx, accepted>>
        /\ UNCHANGED <<plan, taken, unsaved, history, channel>>
    BY DEF BindSession, SameAgent, SameInputs, AgentInv, CallerOK
  <1>2. last = 0 /\ ~gate.active /\ last < MaxTurns /\ last' = last + 1
    BY <1>1, SessionAssumption DEF AgentInv, Bindings, TurnOK
  <1>3. /\ gate' \in Gates /\ last' \in Turns /\ plan'[last'].at = "none" /\ gate'.active
        /\ TurnOK' /\ GateOK' /\ InputsOK'
    BY <1>1, <1>2, OpensTurn
  <1>4. PICK r \in Calls : /\ call' = [call EXCEPT ![c] = r] /\ call'[c].at = "spawning"
                           /\ call'[c].turn = call[c].turn
    BY <1>1, GoesCall DEF AgentInv, Places
  <1>5. binding' \in Modes /\ binding' # "unbound"
    BY <1>1, SessionAssumption
  <1>6. Types'
    BY <1>1, <1>3, <1>4, <1>5 DEF AgentInv, Types, Turns
  <1>7. CallerOK(c)'
    BY <1>1, <1>3, <1>4, <1>5 DEF CallerOK
  <1>8. Bindings'
    BY <1>1, <1>5 DEF Bindings, NoTurn
  <1>9. QED
    BY <1>3, <1>6, <1>7, <1>8 DEF AgentInv, Plain

LEMMA ClaimStep ==
  ASSUME Plain, AgentInv, NEW c \in Callers, Claim(c), SameAgent
  PROVE  AgentInv'
  <1>1. /\ call[c].at = "claiming" /\ ~gate.active /\ last < MaxTurns
        /\ gate' = Opened(gate) /\ last' = last + 1
        /\ UNCHANGED <<binding, bound, result, ctx, accepted>>
        /\ UNCHANGED <<plan, taken, unsaved, history, channel>>
    BY DEF Claim, SameAgent, SameInputs
  <1>2. binding # "unbound"
    BY <1>1 DEF AgentInv, CallerOK
  <1>3. /\ gate' \in Gates /\ last' \in Turns /\ plan'[last'].at = "none" /\ gate'.active
        /\ TurnOK' /\ GateOK' /\ InputsOK'
    BY <1>1, OpensTurn
  <1> DEFINE r == [call[c] EXCEPT !.at = "claimed", !.turn = last']
  <1>4. r \in Calls /\ r.at = "claimed" /\ r.turn = last'
    <2>1. call[c] \in Calls /\ last' \in 0..MaxTurns /\ "claimed" \in Places
      BY <1>3 DEF AgentInv, Types, Turns, Places
    <2>2. QED
      BY <2>1 DEF Calls
  <1>5. call' = [call EXCEPT ![c] = r]
    BY <1>1 DEF Claim
  <1>6. call'[c] = r
    BY <1>5 DEF AgentInv, Types
  <1> HIDE DEF r
  <1>7. Types'
    BY <1>1, <1>3, <1>4, <1>5 DEF AgentInv, Types, Turns
  <1>8. CallerOK(c)'
    BY <1>1, <1>2, <1>3, <1>4, <1>6 DEF CallerOK
  <1>9. Bindings'
    BY <1>1, <1>2 DEF AgentInv, Bindings
  <1>10. QED
    BY <1>3, <1>7, <1>8, <1>9 DEF AgentInv, Plain

LEMMA RequestCancelStep ==
  ASSUME Plain, AgentInv, NEW c \in Callers, RequestCancel(c), SameAgent
  PROVE  AgentInv'
  <1>1. /\ call[c].at = "claiming" /\ gate.active /\ gate' = Replaced(gate)
        /\ UNCHANGED <<binding, last, bound, result, ctx, accepted>>
        /\ UNCHANGED <<plan, taken, unsaved, history, channel>>
    BY DEF RequestCancel, SameAgent, SameInputs
  <1>2. PICK r \in Calls : call' = [call EXCEPT ![c] = r] /\ call'[c].at = "interrupting"
    BY GoesCall DEF RequestCancel, AgentInv, Places, Looping
  <1>3. /\ gate' \in Gates /\ gate'.active /\ ~gate'.accepting /\ gate'.cancel
        /\ gate'.pending = <<>>
    BY <1>1, GateTypes DEF AgentInv, Types
  <1>4. Types'
    BY <1>1, <1>2, <1>3 DEF AgentInv, Types
  <1>5. CallerOK(c)'
    BY <1>1, <1>2 DEF AgentInv, CallerOK
  <1>6. Bindings' /\ TurnOK'
    BY <1>1, <1>3, TurnStays DEF AgentInv, Bindings
  <1>7. PendingSet' = {}
    BY <1>3 DEF PendingSet
  <1>8. GateOK'
    BY <1>1, <1>3, <1>7 DEF AgentInv, GateOK, Told
  <1>9. InputsOK'
    <2>1. InputsStayInTurn' /\ InputsAreAnswered'
      BY <1>1, AnswersStay DEF AgentInv, Told
    <2>2. Safe' /\ Written'
      BY <1>1, <1>3, StraysStay DEF AgentInv, InputsOK, Safe, Written
    <2>3. QED
      BY <2>1, <2>2 DEF InputsOK
  <1>10. QED
    BY <1>4, <1>5, <1>6, <1>8, <1>9 DEF AgentInv, Plain

LEMMA PendingGrows ==
  ASSUME Types, NEW x \in Inputs, gate' = [gate EXCEPT !.pending = Append(@, x)]
  PROVE  /\ gate' \in Gates /\ gate'.active = gate.active /\ gate'.accepting = gate.accepting
         /\ gate'.cancel = gate.cancel /\ PendingSet' = PendingSet \cup {x}
  <1>1. gate \in Gates /\ gate.pending \in Seq(Inputs)
    BY DEF Types, Gates
  <1> DEFINE s == Append(gate.pending, x)
  <1>2. /\ s \in Seq(Inputs) /\ Len(s) = Len(gate.pending) + 1 /\ s[Len(gate.pending) + 1] = x
        /\ Len(gate.pending) \in Nat /\ \A i \in 1..Len(gate.pending) : s[i] = gate.pending[i]
    BY <1>1, AppendProperties
  <1>3. /\ gate'.pending = s /\ gate' \in Gates /\ gate'.active = gate.active
        /\ gate'.accepting = gate.accepting /\ gate'.cancel = gate.cancel
    BY <1>1, <1>2 DEF Gates
  <1> HIDE DEF s
  <1>4. DOMAIN s = 1..(Len(gate.pending) + 1) /\ DOMAIN gate.pending = 1..Len(gate.pending)
    BY <1>1, <1>2
  <1>5. PendingSet' = {s[i] : i \in 1..(Len(gate.pending) + 1)}
    BY <1>3, <1>4 DEF PendingSet
  <1>6. PendingSet = {gate.pending[i] : i \in 1..Len(gate.pending)}
    BY <1>4 DEF PendingSet
  <1>7. PendingSet' = PendingSet \cup {x}
    BY <1>2, <1>5, <1>6
  <1>8. QED
    BY <1>3, <1>7

LEMMA SupplementStep ==
  ASSUME Plain, AgentInv, NEW x \in Inputs, Supplement(x), SameAgent
  PROVE  AgentInv'
  <1>1. /\ binding # "unbound" /\ accepted[x] = NoTurn /\ gate.active /\ gate.accepting
        /\ accepted' = [accepted EXCEPT ![x] = last]
        /\ UNCHANGED <<binding, last, bound, result, ctx, call>>
        /\ UNCHANGED <<plan, taken, unsaved, history, channel>>
    BY DEF Supplement, SameAgent, SameInputs
  <1>2. /\ gate' \in Gates /\ gate'.active = gate.active /\ gate'.accepting = gate.accepting
        /\ gate'.cancel = gate.cancel /\ PendingSet' = PendingSet \cup {x}
    BY PendingGrows DEF Supplement, AgentInv
  <1>3. /\ accepted' \in [Inputs -> 0..MaxTurns] /\ accepted'[x] = last
        /\ \A y \in Inputs : y # x => accepted'[y] = accepted[y]
    BY <1>1 DEF AgentInv, Types
  <1>4. Types'
    BY <1>1, <1>2, <1>3 DEF AgentInv, Types
  <1>5. (\A c \in Callers : CallerOK(c)') /\ Bindings' /\ TurnOK'
    BY <1>1, <1>2, TurnStays DEF AgentInv, CallerOK, Bindings
  <1>6. GateOK' /\ InputsOK'
    <2>1. /\ ~gate.cancel /\ ~Told(last, "completed") /\ last \in Nat
          /\ \A t \in Turns : plan[t].at \notin {"completing", "ended"}
      BY <1>1, LastType DEF AgentInv, GateOK
    <2>2. GateOK'
      <3>1. \A y \in Inputs : accepted'[y] <= last
        BY <1>3, <2>1 DEF AgentInv, GateOK
      <3>2. \A y \in PendingSet' : accepted'[y] = last
        <4>1. \A y \in PendingSet : y \in Inputs /\ accepted[y] = last
          BY PendingType DEF AgentInv, GateOK
        <4>2. QED
          BY <1>2, <1>3, <4>1
      <3>3. QED
        BY <1>1, <1>2, <2>1, <3>1, <3>2 DEF AgentInv, GateOK, Told
    <2>3. \A y \in Inputs : y # x => (Strayed(y) => Strayed(y)')
      BY <1>1, <1>3 DEF Strayed
    <2>4. taken[x] = NoTurn \/ Strayed(x)'
      <3>1. taken[x] = NoTurn \/ Strayed(x)
        BY <1>1 DEF AgentInv, InputsOK, InputsStayInTurn
      <3>2. ~Strayed(x)
        BY <1>1, LastType DEF AgentInv, Strayed, NoTurn, Turns
      <3>3. QED
        BY <3>1, <3>2
    <2>5. InputsStayInTurn'
      BY <1>1, <1>3, <2>3, <2>4 DEF AgentInv, InputsOK, InputsStayInTurn
    <2>6. InputsAreAnswered'
      BY <1>1, <1>3, <2>1, <2>3 DEF AgentInv, InputsOK, InputsAreAnswered, Told
    <2>7. Safe'
      BY <1>1, <1>2, <1>3, <2>3 DEF AgentInv, InputsOK, Safe, Kept
    <2>8. Written'
      BY <1>1, <2>1 DEF Written
    <2>9. QED
      BY <2>2, <2>5, <2>6, <2>7, <2>8 DEF InputsOK
  <1>7. QED
    BY <1>4, <1>5, <1>6 DEF AgentInv

LEMMA CancelActiveStep ==
  ASSUME Plain, AgentInv, CancelActive, SameAgent
  PROVE  AgentInv'
  <1>1. /\ UNCHANGED <<gate, binding, last, bound, result, call, accepted>>
        /\ UNCHANGED <<plan, taken, unsaved, history, channel>>
        /\ ctx' \in [Turns -> ContextStates]
    BY CancelledType DEF CancelActive, SameAgent, SameInputs, AgentInv
  <1>2. Types' /\ (\A c \in Callers : CallerOK(c)') /\ Bindings'
    BY <1>1 DEF AgentInv, Types, CallerOK, Bindings
  <1>3. TurnOK' /\ GateOK' /\ InputsOK'
    BY <1>1, GateStays, TurnStays DEF AgentInv
  <1>4. QED
    BY <1>2, <1>3 DEF AgentInv
-----------------------------------------------------------------------------
(* The plans.                                                              *)

\* A plan that is somewhere is the last turn's, and its gate is open.
LEMMA LivePlan ==
  ASSUME AgentInv, NEW t \in Turns, Live(t)
  PROVE  /\ t = last /\ last # 0 /\ gate.active /\ plan[t] \in Plans
         /\ \A c \in Callers : call[c].at \notin {"claimed", "bound"}
  BY LastType DEF AgentInv, TurnOK, Types, CallerOK, Live

\* No caller is between the claim of the turn and its plan.
LEMMA CallersStay ==
  ASSUME AgentInv, UNCHANGED <<binding, last, bound>>, last \in Turns,
         plan'[last].at # "none",
         \A c \in Callers : /\ call[c].at \notin {"claimed", "bound"}
                            /\ call'[c].at = call[c].at /\ call'[c].turn = call[c].turn
                            /\ call'[c].mode = call[c].mode
  PROVE  (\A c \in Callers : CallerOK(c)') /\ Bindings'
  <1>1. ASSUME NEW c \in Callers PROVE CallerOK(c)'
    BY DEF AgentInv, CallerOK
  <1>2. Bindings'
    BY DEF AgentInv, Bindings
  <1>3. QED
    BY <1>1, <1>2

\* The last turn's plan moves on without touching the gate or the inputs; it
\* says that the turn is completed only when it was about to.
LEMMA PlanMoves ==
  ASSUME AgentInv, last \in Turns, gate.active, NEW p \in Plans, Sets(last, p),
         p.at \notin {"none", "gone", "overrun", "completing"},
         p.at = "ended" => gate.pending = <<>> /\ ~gate.accepting,
         \A c \in Callers : call[c].at \notin {"claimed", "bound"},
         UNCHANGED <<gate, binding, last, bound, call, accepted, taken, unsaved, history>>,
         result' \in 0..MaxTurns, ctx' \in [Turns -> ContextStates],
         channel' \in Seq(Outputs),
         NEW said \in SUBSET {"started", "completed", "failed"},
         Range(channel') = Range(channel) \cup {<<last, what>> : what \in said},
         "completed" \in said => plan[last].at = "completing"
  PROVE  AgentInv'
  <1>1. /\ plan' \in [Turns -> Plans] /\ plan'[last] = p
        /\ \A u \in Turns : u # last => plan'[u] = plan[u]
    BY SetsPlan DEF AgentInv, Types
  <1>2. Types'
    BY <1>1 DEF AgentInv, Types
  <1>3. (\A c \in Callers : CallerOK(c)') /\ Bindings'
    BY <1>1, CallersStay
  <1>4. /\ last # 0 /\ Turns \subseteq Nat /\ last \in Nat /\ PendingSet' = PendingSet
    BY LastType DEF AgentInv, PendingSet
  <1>5. TurnOK'
    <2>1. \A t \in Turns : t > last => t # last /\ plan'[t].at = "none"
      BY <1>1, <1>4 DEF AgentInv, TurnOK
    <2>2. \A t \in Turns : Live(t)' => t = last
      BY <1>1 DEF AgentInv, TurnOK, Live
    <2>3. QED
      BY <1>1, <1>4, <2>1, <2>2 DEF TurnOK
  <1>6. \A t \in Turns, what \in {"started", "completed", "failed"} :
          Told(t, what)' => Told(t, what) \/ (t = last /\ what \in said)
    BY DEF Told
  <1>7. GateOK'
    <2>1. "completed" \in said => gate.pending = <<>> /\ ~gate.accepting
      BY DEF AgentInv, GateOK
    <2>2. \A t \in Turns : plan'[t].at \in {"completing", "ended"} =>
            gate.pending = <<>> /\ ~gate.accepting
      BY <1>1 DEF AgentInv, GateOK
    <2>3. \A t \in Turns, what \in {"started", "completed", "failed"} : Told(t, what)' => t <= last
      BY <1>4, <1>6 DEF AgentInv, GateOK
    <2>4. Told(last, "completed")' => gate.pending = <<>> /\ ~(gate.active /\ gate.accepting)
      BY <1>6, <2>1 DEF AgentInv, GateOK
    <2>5. QED
      BY <1>4, <2>2, <2>3, <2>4 DEF AgentInv, GateOK
  <1>8. InputsOK'
    <2>1. \A x \in Inputs : Strayed(x) => Strayed(x)'
      <3>1. plan[last].at # "overrun"
        BY DEF AgentInv, TurnOK
      <3>2. QED
        BY <1>1, <3>1, StraysStay
    <2>2. InputsStayInTurn'
      BY <2>1 DEF AgentInv, InputsOK, InputsStayInTurn
    <2>3. InputsAreAnswered'
      <3>1. SUFFICES ASSUME NEW x \in Inputs, accepted[x] # NoTurn, Told(accepted[x], "completed")'
                     PROVE  (taken[x] = accepted[x] /\ x \in history) \/ Strayed(x)
        BY <2>1 DEF InputsAreAnswered
      <3>2. accepted[x] \in Turns
        BY <3>1, SessionAssumption DEF AgentInv, Types, Turns, NoTurn
      <3>3. CASE Told(accepted[x], "completed")
        BY <3>1, <3>3 DEF AgentInv, InputsOK, InputsAreAnswered
      <3>4. CASE accepted[x] = last /\ "completed" \in said
        BY <3>4 DEF AgentInv, InputsOK, Written
      <3>5. QED
        BY <1>6, <3>1, <3>2, <3>3, <3>4
    <2>4. Safe'
      BY <1>4, <2>1 DEF AgentInv, InputsOK, Safe, Kept
    <2>5. Written'
      BY <1>1, <2>1 DEF AgentInv, InputsOK, Written
    <2>6. QED
      BY <2>2, <2>3, <2>4, <2>5 DEF InputsOK
  <1>9. QED
    BY <1>2, <1>3, <1>5, <1>7, <1>8 DEF AgentInv

\* The same, with nothing said.
LEMMA PlanMovesQuietly ==
  ASSUME AgentInv, last \in Turns, gate.active, NEW p \in Plans, Sets(last, p),
         p.at \notin {"none", "gone", "overrun", "completing"},
         p.at = "ended" => gate.pending = <<>> /\ ~gate.accepting,
         \A c \in Callers : call[c].at \notin {"claimed", "bound"},
         UNCHANGED <<gate, binding, last, bound, call, accepted, taken, unsaved, history>>,
         UNCHANGED <<result, channel>>, ctx' \in [Turns -> ContextStates]
  PROVE  AgentInv'
  <1> DEFINE said == {}
  <1>1. said \in SUBSET {"started", "completed", "failed"} /\ "completed" \notin said
    OBVIOUS
  <1>2. Range(channel') = Range(channel) \cup {<<last, what>> : what \in said}
    OBVIOUS
  <1>3. result' \in 0..MaxTurns /\ channel' \in Seq(Outputs)
    BY DEF AgentInv, Types
  <1> HIDE DEF said
  <1>4. QED
    BY <1>1, <1>2, <1>3, PlanMoves

\* The same, with an event.
LEMMA PlanSays ==
  ASSUME AgentInv, last \in Turns, gate.active, NEW p \in Plans, Sets(last, p),
         p.at \notin {"none", "gone", "overrun", "completing"},
         p.at = "ended" => gate.pending = <<>> /\ ~gate.accepting,
         \A c \in Callers : call[c].at \notin {"claimed", "bound"},
         UNCHANGED <<gate, binding, last, bound, call, accepted, taken, unsaved, history>>,
         ctx' \in [Turns -> ContextStates],
         NEW what \in {"started", "completed", "failed"}, Emits(last, what),
         what = "completed" => plan[last].at = "completing"
  PROVE  AgentInv'
  <1>1. <<last, what>> \in Outputs /\ channel' = Append(channel, <<last, what>>)
    BY DEF Outputs, Emits
  <1>2. channel' \in Seq(Outputs) /\ Range(channel') = Range(channel) \cup {<<last, what>>}
    BY <1>1, SaysMore DEF AgentInv, Types
  <1> DEFINE said == {what}
  <1>3. said \in SUBSET {"started", "completed", "failed"}
        /\ ("completed" \in said => plan[last].at = "completing")
    OBVIOUS
  <1>4. Range(channel') = Range(channel) \cup {<<last, w>> : w \in said}
    BY <1>2
  <1>5. result' \in 0..MaxTurns
    BY DEF Emits, AgentInv, Types, Turns
  <1> HIDE DEF said
  <1>6. QED
    BY <1>2, <1>3, <1>4, <1>5, PlanMoves

\* The plan is gone, and the gate released with nothing left behind it.
LEMMA TurnEnds ==
  ASSUME AgentInv, NEW t \in Turns, Live(t), NEW p \in Plans, Sets(t, p), p.at = "gone",
         gate' \in Gates, ~gate'.active, ~gate'.cancel, gate'.pending = <<>>,
         call' = Notified, unsaved' \in [Turns -> SUBSET Inputs],
         ctx' \in [Turns -> ContextStates],
         UNCHANGED <<binding, last, bound, result, accepted, taken, history, channel>>
  PROVE  AgentInv'
  <1>1. t = last /\ last # 0 /\ \A c \in Callers : call[c].at \notin {"claimed", "bound"}
    BY LivePlan
  <1>2. /\ plan' \in [Turns -> Plans] /\ plan'[t] = p
        /\ \A u \in Turns : u # t => plan'[u] = plan[u]
    BY SetsPlan DEF AgentInv, Types
  <1>3. /\ call' \in [Callers -> Calls]
        /\ \A c \in Callers : /\ call'[c].at = call[c].at /\ call'[c].turn = call[c].turn
                              /\ call'[c].mode = call[c].mode
    BY NotifiedType DEF AgentInv
  <1>4. Types'
    BY <1>2, <1>3 DEF AgentInv, Types
  <1>5. (\A c \in Callers : CallerOK(c)') /\ Bindings'
    BY <1>1, <1>2, <1>3, CallersStay
  <1>6. \A u \in Turns : ~Live(u)'
    BY <1>1, <1>2 DEF AgentInv, TurnOK, Live
  <1>7. TurnOK'
    <2>1. Turns \subseteq Nat /\ last \in Nat
      BY LastType DEF AgentInv
    <2>2. \A u \in Turns : u > last => u # last /\ plan'[u].at = "none"
      BY <1>1, <1>2, <2>1 DEF AgentInv, TurnOK
    <2>3. QED
      BY <1>6, <2>2 DEF TurnOK
  <1>8. GateOK'
    <2>1. \A u \in Turns : plan'[u].at \notin {"completing", "ended"}
      BY <1>6 DEF Live
    <2>2. gate'.pending = <<>> /\ PendingSet' = {}
      BY DEF PendingSet
    <2>3. QED
      BY <2>1, <2>2 DEF AgentInv, GateOK, Told
  <1>9. InputsOK'
    <2>1. InputsStayInTurn' /\ InputsAreAnswered'
      <3>1. plan[t].at # "overrun"
        BY DEF Live
      <3>2. QED
        BY <1>2, <3>1, AnswersStay DEF AgentInv, Told
    <2>2. Safe' /\ Written'
      BY <1>6 DEF Safe, Written, Live
    <2>3. QED
      BY <2>1, <2>2 DEF InputsOK
  <1>10. QED
    BY <1>4, <1>5, <1>7, <1>8, <1>9 DEF AgentInv

\* The plan takes what is pending.  Whether it goes on or closes the gate, what
\* its turn accepted is in its messages or in the history.
LEMMA InputsTaken ==
  ASSUME AgentInv, NEW t \in Turns, plan[t].at = "waiting", ~gate.cancel,
         NEW p \in Plans, Sets(t, p), p.at \in {"waiting", "completing"},
         gate' \in Gates, gate'.active = gate.active, ~gate'.cancel, gate'.pending = <<>>,
         gate'.accepting => gate.accepting,
         taken' = [x \in Inputs |-> IF x \in PendingSet THEN t ELSE taken[x]],
         unsaved' \in [Turns -> SUBSET Inputs], history' \subseteq Inputs,
         history \subseteq history', unsaved[t] \cup PendingSet \subseteq unsaved'[t] \cup history',
         p.at = "completing" => ~gate'.accepting /\ unsaved'[t] = {},
         UNCHANGED <<binding, last, bound, result, ctx, call, accepted, channel>>
  PROVE  AgentInv'
  <1>1. /\ t = last /\ last # 0 /\ gate.active
        /\ \A c \in Callers : call[c].at \notin {"claimed", "bound"}
    BY LivePlan DEF Live
  <1>2. /\ plan' \in [Turns -> Plans] /\ plan'[t] = p
        /\ \A u \in Turns : u # t => plan'[u] = plan[u]
    BY SetsPlan DEF AgentInv, Types
  <1>3. PendingSet \subseteq Inputs /\ t \in 0..MaxTurns /\ PendingSet' = {}
    BY PendingType DEF AgentInv, Turns, PendingSet
  <1>4. /\ taken' \in [Inputs -> 0..MaxTurns]
        /\ \A x \in PendingSet : taken'[x] = t
        /\ \A x \in Inputs \ PendingSet : taken'[x] = taken[x]
    BY <1>3 DEF AgentInv, Types
  <1>5. Types'
    BY <1>2, <1>4 DEF AgentInv, Types
  <1>6. (\A c \in Callers : CallerOK(c)') /\ Bindings'
    BY <1>1, <1>2, CallersStay
  <1>7. TurnOK'
    <2>1. Turns \subseteq Nat /\ last \in Nat
      BY LastType DEF AgentInv
    <2>2. \A u \in Turns : u > last => u # last /\ plan'[u].at = "none"
      BY <1>1, <1>2, <2>1 DEF AgentInv, TurnOK
    <2>3. \A u \in Turns : Live(u)' => u = last
      BY <1>1, <1>2 DEF AgentInv, TurnOK, Live
    <2>4. QED
      BY <1>1, <1>2, <2>2, <2>3 DEF TurnOK
  <1>8. GateOK' /\ InputsOK'
    <2>1. \A x \in PendingSet : accepted[x] = t
      BY <1>1 DEF AgentInv, GateOK
    <2>2. GateOK'
      <3>1. \A u \in Turns : plan'[u].at \in {"completing", "ended"} => ~gate'.accepting
        BY <1>2 DEF AgentInv, GateOK
      <3>2. Told(last, "completed")' => ~(gate'.active /\ gate'.accepting)
        BY DEF AgentInv, GateOK, Told
      <3>3. QED
        BY <1>1, <1>3, <3>1, <3>2 DEF AgentInv, GateOK, Told
    <2>3. \A x \in Inputs : Strayed(x) => (x \in PendingSet /\ taken'[x] = t) \/ Strayed(x)'
      <3>1. plan[t].at # "overrun" /\ \A u \in Turns : plan[u].at = "overrun" => plan'[u].at = "overrun"
        BY <1>2
      <3>2. QED
        BY <1>4, <3>1 DEF Strayed
    <2>4. InputsStayInTurn'
      BY <1>4, <2>1, <2>3 DEF AgentInv, InputsOK, InputsStayInTurn
    <2>5. InputsAreAnswered'
      <3>1. ASSUME NEW x \in Inputs, accepted[x] # NoTurn, Told(accepted[x], "completed")
            PROVE  (taken'[x] = accepted[x] /\ x \in history') \/ Strayed(x)'
        <4>1. x \notin PendingSet
          BY <1>1, <2>1, <3>1, PendingType DEF AgentInv, GateOK
        <4>2. (taken[x] = accepted[x] /\ x \in history) \/ Strayed(x)
          BY <3>1 DEF AgentInv, InputsOK, InputsAreAnswered
        <4>3. QED
          BY <1>4, <2>3, <4>1, <4>2
      <3>2. QED
        BY <3>1 DEF InputsAreAnswered, Told
    <2>6. \A x \in Inputs : accepted[x] = last =>
            \/ taken'[x] = last /\ (x \in unsaved'[last] \/ x \in history')
            \/ Strayed(x)'
      <3>1. SUFFICES ASSUME NEW x \in Inputs, accepted[x] = last
                     PROVE  \/ taken'[x] = last /\ (x \in unsaved'[last] \/ x \in history')
                            \/ Strayed(x)'
        OBVIOUS
      <3>2. CASE x \in PendingSet
        BY <1>1, <1>4, <3>2
      <3>3. CASE x \notin PendingSet
        BY <1>1, <1>4, <2>3, <3>1, <3>3 DEF AgentInv, InputsOK, Safe, Kept
      <3>4. QED
        BY <3>2, <3>3
    <2>7. Safe'
      BY <2>6 DEF Safe, Kept
    <2>8. Written'
      <3>1. ASSUME NEW u \in Turns, plan'[u].at = "completing" PROVE u = t /\ p.at = "completing"
        BY <1>1, <1>2, <3>1 DEF AgentInv, TurnOK, Live
      <3>2. QED
        BY <1>1, <2>6, <3>1 DEF Written
    <2>9. QED
      BY <2>2, <2>4, <2>5, <2>7, <2>8 DEF InputsOK
  <1>9. QED
    BY <1>5, <1>6, <1>7, <1>8 DEF AgentInv

LEMMA RequestsStep ==
  ASSUME AgentInv, NEW t \in Turns, plan[t].at = "waiting", ~gate.cancel,
         NEW p \in Plans, p.at = "waiting", NEW grown, Requests(t, p, grown)
  PROVE  AgentInv'
  <1>1. plan[t] \in Plans /\ Own(t)
    BY DEF AgentInv, Types, Plans, Own
  <1>2. PICK stage \in {"Model", "Compression"} : Sets(t, [p EXCEPT !.stage = stage])
    BY DEF Requests
  <1>3. TakesInputs(t)
    BY <1>1 DEF Requests
  <1> DEFINE q == [p EXCEPT !.stage = stage]
  <1>4. q \in Plans /\ q.at = "waiting"
    BY DEF Plans, PlanRecords, Stages
  <1>5. /\ gate' \in Gates /\ gate'.active = gate.active /\ ~gate'.cancel /\ gate'.pending = <<>>
        /\ gate'.accepting => gate.accepting
    <2>1. gate \in Gates /\ gate' = [gate EXCEPT !.pending = <<>>] /\ <<>> \in Seq(Inputs)
      BY <1>3 DEF TakesInputs, AgentInv, Types
    <2>2. QED
      BY <2>1 DEF Gates
  <1>6. PendingSet \subseteq Inputs
    BY PendingType DEF AgentInv
  <1>7. /\ unsaved' \in [Turns -> SUBSET Inputs] /\ unsaved'[t] = unsaved[t] \cup PendingSet
        /\ history' \subseteq Inputs /\ history' = history
    BY <1>3, <1>6 DEF TakesInputs, AgentInv, Types
  <1>8. /\ taken' = [x \in Inputs |-> IF x \in PendingSet THEN t ELSE taken[x]]
        /\ UNCHANGED <<binding, last, bound, result, ctx, call, accepted, channel>>
    BY <1>3 DEF TakesInputs
  <1>9. Sets(t, q)
    BY <1>2
  <1> HIDE DEF q
  <1>10. QED
    BY <1>4, <1>5, <1>7, <1>8, <1>9, InputsTaken

LEMMA WaitsStep ==
  ASSUME AgentInv, NEW t \in Turns, Live(t), NEW p \in Plans, Waits(t, p),
         p.at \notin {"none", "gone", "overrun", "completing"},
         p.at = "ended" => gate.pending = <<>> /\ ~gate.accepting
  PROVE  AgentInv'
  <1>1. /\ t = last /\ last # 0 /\ gate.active
        /\ \A c \in Callers : call[c].at \notin {"claimed", "bound"}
    BY LivePlan
  <1>2. /\ Sets(last, p)
        /\ UNCHANGED <<gate, binding, last, bound, call, accepted, taken, unsaved, history>>
        /\ UNCHANGED <<result, channel>> /\ ctx' = ctx
    BY <1>1 DEF Waits, SameSession, SameInputs, session_vars
  <1>3. ctx' \in [Turns -> ContextStates]
    BY <1>2 DEF AgentInv, Types
  <1>4. QED
    BY <1>1, <1>2, <1>3, PlanMovesQuietly

\* Where a plan goes that only moves.
LEMMA MovesStep ==
  ASSUME AgentInv, NEW t \in Turns, Live(t), NEW place \in PlanPlaces \ {"released"},
         Moves(t, place), SameSession, SameInputs, UNCHANGED channel,
         place \notin {"none", "gone", "overrun", "completing"},
         place = "ended" => gate.pending = <<>> /\ ~gate.accepting
  PROVE  AgentInv'
  <1> DEFINE p == [plan[t] EXCEPT !.at = place]
  <1>1. plan[t] \in Plans /\ plan \in [Turns -> Plans]
    BY DEF AgentInv, Types
  <1>2. p \in Plans /\ p.at = place
    BY <1>1, PlaceType
  <1>3. Sets(t, p)
    BY <1>1, MovesPlan
  <1>4. Waits(t, p)
    BY <1>3 DEF Waits
  <1> HIDE DEF p
  <1>5. QED
    BY <1>2, <1>4, WaitsStep

LEMMA FailsStep ==
  ASSUME AgentInv, NEW t \in Turns, Live(t), Fails(t)
  PROVE  AgentInv'
  <1>1. "failing" \in PlanPlaces \ {"released"}
    BY DEF PlanPlaces
  <1>2. QED
    BY <1>1, MovesStep DEF Fails

LEMMA SavedStep ==
  ASSUME AgentInv, NEW t \in Turns, Saved(t)
  PROVE  AgentInv'
  <1>1. /\ plan[t].at = "waiting" /\ ~gate.cancel /\ plan[t] \in Plans /\ gate \in Gates
        /\ plan \in [Turns -> Plans] /\ taken \in [Inputs -> 0..MaxTurns]
        /\ unsaved \in [Turns -> SUBSET Inputs] /\ history \subseteq Inputs
        /\ history' = history \cup unsaved[t]
        /\ UNCHANGED <<binding, last, bound, result, ctx, call, accepted, channel>>
    BY DEF Saved, SaveStage, NextCalled, AgentInv, Types
  <1>2. history' \subseteq Inputs /\ history \subseteq history'
    BY <1>1
  <1>3. CASE gate.pending = <<>>
    <2>1. /\ gate' = [gate EXCEPT !.accepting = FALSE] /\ Moves(t, "completing")
          /\ unsaved' = [unsaved EXCEPT ![t] = {}] /\ taken' = taken
      BY <1>3 DEF Saved
    <2>2. /\ gate' \in Gates /\ gate'.active = gate.active /\ ~gate'.cancel
          /\ gate'.pending = <<>> /\ ~gate'.accepting
      BY <1>1, <1>3, <2>1 DEF Gates
    <2>3. PendingSet = {}
      BY <1>3, PendingType DEF AgentInv
    <2>4. taken' = [x \in Inputs |-> IF x \in PendingSet THEN t ELSE taken[x]]
      BY <1>1, <2>1, <2>3
    <2>5. unsaved' \in [Turns -> SUBSET Inputs] /\ unsaved'[t] = {}
      BY <1>1, <2>1
    <2>6. unsaved[t] \cup PendingSet \subseteq unsaved'[t] \cup history'
      BY <1>1, <2>3
    <2> DEFINE p == [plan[t] EXCEPT !.at = "completing"]
    <2>7. p \in Plans /\ p.at = "completing" /\ Sets(t, p)
      BY <1>1, <2>1, PlaceType, MovesPlan DEF PlanPlaces
    <2> HIDE DEF p
    <2>8. QED
      BY <1>1, <1>2, <2>2, <2>4, <2>5, <2>6, <2>7, InputsTaken
  <1>4. CASE gate.pending # <<>>
    <2>1. /\ gate' = [gate EXCEPT !.pending = <<>>]
          /\ taken' = [x \in Inputs |-> IF x \in PendingSet THEN t ELSE taken[x]]
          /\ unsaved' = [unsaved EXCEPT ![t] = PendingSet]
      BY <1>4 DEF Saved
    <2>2. PICK stage \in {"Model", "Compression"} : Sets(t, [plan[t] EXCEPT !.stage = stage])
      BY <1>4 DEF Saved
    <2>3. /\ gate' \in Gates /\ gate'.active = gate.active /\ ~gate'.cancel
          /\ gate'.pending = <<>> /\ gate'.accepting = gate.accepting
      <3>1. <<>> \in Seq(Inputs)
        OBVIOUS
      <3>2. QED
        BY <1>1, <2>1, <3>1 DEF Gates
    <2>4. PendingSet \subseteq Inputs
      BY PendingType DEF AgentInv
    <2>5. unsaved' \in [Turns -> SUBSET Inputs] /\ unsaved'[t] = PendingSet
      BY <1>1, <2>1, <2>4
    <2>6. unsaved[t] \cup PendingSet \subseteq unsaved'[t] \cup history'
      BY <1>1, <2>5
    <2> DEFINE p == [plan[t] EXCEPT !.stage = stage]
    <2>7. p \in Plans /\ p.at = "waiting"
      BY <1>1 DEF Plans, PlanRecords, Stages
    <2>8. Sets(t, p)
      BY <2>2
    <2> HIDE DEF p
    <2>9. QED
      BY <1>1, <1>2, <2>1, <2>3, <2>5, <2>6, <2>7, <2>8, InputsTaken
  <1>5. QED
    BY <1>3, <1>4

LEMMA LoopStepStep ==
  ASSUME Plain, AgentInv, NEW t \in Turns, LoopStep(t)
  PROVE  AgentInv'
  <1>1. plan[t].at = "waiting" /\ Live(t) /\ plan[t] \in Plans
    BY DEF LoopStep, NextCancelled, AfterMemory, AfterHistory, AfterCompression, EmptyAnswer,
           FinalAnswer, ToolCalls, ToolReturns, ToolsReturn, Saved, NextFails, SaveStage,
           ModelAnswers, ToolAnswers, InLoop, NextCalled, Live, AgentInv, Types
  <1>2. /\ plan[t] \in PlanRecords /\ Own(t) /\ ~plan[t].creates
    BY <1>1 DEF Plans, Own
  <1>3. CASE NextCancelled(t)
    <2>1. gate.pending = <<>> /\ ~gate.accepting
      BY <1>3 DEF NextCancelled, AgentInv, GateOK
    <2>2. "ended" \in PlanPlaces \ {"released"}
      BY DEF PlanPlaces
    <2>3. QED
      BY <1>1, <1>3, <2>1, <2>2, MovesStep DEF NextCancelled
  <1>4. CASE AfterMemory(t)
    <2> DEFINE p == [plan[t] EXCEPT !.stage = "History"]
    <2>1. p \in Plans /\ p.at = "waiting"
      BY <1>1 DEF Plans, PlanRecords, Stages
    <2>2. Waits(t, p)
      BY <1>4 DEF AfterMemory
    <2> HIDE DEF p
    <2>3. QED
      BY <1>1, <2>1, <2>2, WaitsStep
  <1>5. CASE AfterHistory(t)
    BY <1>1, <1>5, RequestsStep DEF AfterHistory, InLoop, NextCalled
  <1>6. CASE AfterCompression(t)
    BY <1>1, <1>6, RequestsStep DEF AfterCompression, InLoop, NextCalled
  <1>7. CASE EmptyAnswer(t)
    <2> DEFINE p == [plan[t] EXCEPT !.retried = TRUE]
    <2>1. p \in Plans /\ p.at = "waiting"
      BY <1>1 DEF Plans, PlanRecords
    <2>2. ~gate.cancel /\ (Fails(t) \/ Requests(t, p, TRUE))
      BY <1>7 DEF EmptyAnswer, ModelAnswers, InLoop, NextCalled
    <2> HIDE DEF p
    <2>3. QED
      BY <1>1, <2>1, <2>2, FailsStep, RequestsStep
  <1>8. CASE FinalAnswer(t)
    <2> DEFINE p == [plan[t] EXCEPT !.retried = FALSE]
               q == [plan[t] EXCEPT !.stage = "Save", !.retried = FALSE]
    <2>1. p \in Plans /\ p.at = "waiting"
      BY <1>1 DEF Plans, PlanRecords
    <2>2. q \in Plans /\ q.at = "waiting"
      BY <1>1 DEF Plans, PlanRecords, Stages
    <2>3. ~gate.cancel /\ (Waits(t, q) \/ Requests(t, p, TRUE))
      BY <1>2, <1>8 DEF FinalAnswer, ModelAnswers, InLoop, NextCalled
    <2> HIDE DEF p, q
    <2>4. QED
      BY <1>1, <2>1, <2>2, <2>3, WaitsStep, RequestsStep
  <1>9. CASE ToolCalls(t)
    <2>1. CASE Fails(t)
      BY <1>1, <2>1, FailsStep
    <2>2. CASE ~Fails(t)
      <3>1. /\ ~gate.cancel /\ plan[t].iterations # MaxIterations
            /\ \E n \in 0..MaxCalls, creates \in BOOLEAN :
                 LET p == [plan[t] EXCEPT !.iterations = @ + 1, !.retried = FALSE,
                                          !.remaining = n, !.creates = creates]
                 IN /\ creates => HasTodoTool
                    /\ \/ Requests(t, p, TRUE)
                       \/ Waits(t, [p EXCEPT !.stage = "Tools"])
        BY <1>9, <2>2 DEF ToolCalls, ModelAnswers, InLoop, NextCalled
      <3>2. PICK n \in 0..MaxCalls, creates \in BOOLEAN :
              LET p == [plan[t] EXCEPT !.iterations = @ + 1, !.retried = FALSE,
                                       !.remaining = n, !.creates = creates]
              IN /\ creates => HasTodoTool
                 /\ \/ Requests(t, p, TRUE)
                    \/ Waits(t, [p EXCEPT !.stage = "Tools"])
        BY <3>1
      <3>3. ~creates
        BY <3>2 DEF Plain
      <3> DEFINE p == [plan[t] EXCEPT !.iterations = @ + 1, !.retried = FALSE,
                                      !.remaining = n, !.creates = creates]
                 q == [p EXCEPT !.stage = "Tools"]
      <3>4. p \in Plans /\ p.at = "waiting"
        <4>1. plan[t].iterations + 1 \in 0..MaxIterations
          BY <1>2, <3>1, AgentAssumption DEF PlanRecords
        <4>2. QED
          BY <1>1, <3>3, <4>1 DEF Plans, PlanRecords
      <3>5. Requests(t, p, TRUE) \/ Waits(t, q)
        BY <3>2
      <3> HIDE DEF p
      <3>6. q \in Plans /\ q.at = "waiting"
        BY <3>4 DEF Plans, PlanRecords, Stages
      <3> HIDE DEF q
      <3>7. QED
        BY <1>1, <3>1, <3>4, <3>5, <3>6, WaitsStep, RequestsStep
    <2>3. QED
      BY <2>1, <2>2
  <1>10. CASE ToolReturns(t)
    <2> DEFINE p == [plan[t] EXCEPT !.remaining = @ - 1]
    <2>1. plan[t].remaining - 1 \in 0..MaxCalls
      BY <1>2, <1>10, AgentAssumption DEF ToolReturns, PlanRecords
    <2>2. p \in Plans /\ p.at = "waiting"
      BY <1>1, <2>1 DEF Plans, PlanRecords
    <2>3. Waits(t, p)
      BY <1>10 DEF ToolReturns
    <2> HIDE DEF p
    <2>4. QED
      BY <1>1, <2>2, <2>3, WaitsStep
  <1>11. CASE ToolsReturn(t)
    <2> DEFINE p == [plan[t] EXCEPT !.remaining = 0, !.creates = FALSE]
    <2>1. 0 \in 0..MaxCalls
      BY AgentAssumption
    <2>2. p \in Plans /\ p.at = "waiting"
      BY <1>1, <2>1 DEF Plans, PlanRecords
    <2>3. ~gate.cancel /\ Requests(t, p, TRUE)
      BY <1>11 DEF ToolsReturn, ToolAnswers, InLoop, NextCalled
    <2> HIDE DEF p
    <2>4. QED
      BY <1>1, <2>2, <2>3, RequestsStep
  <1>12. CASE Saved(t)
    BY <1>12, SavedStep
  <1>13. CASE NextFails(t)
    BY <1>1, <1>13, FailsStep DEF NextFails
  <1>14. QED
    BY <1>3, <1>4, <1>5, <1>6, <1>7, <1>8, <1>9, <1>10, <1>11, <1>12, <1>13 DEF LoopStep

\* There is no todo plan.
LEMMA NoTodoStep ==
  ASSUME AgentInv, NEW t \in Turns
  PROVE  ~TodoStep(t)
  <1>1. plan[t].todo = "none" /\ ~plan[t].creates
    BY DEF AgentInv, Types, Plans
  <1>2. ~TodoInitialized(t) /\ ~TodosPlanned(t) /\ ~TodoCompleted(t)
    BY <1>1 DEF TodoInitialized, TodosPlanned, TodoCompleted
  <1>3. ~TodosQueried(t) /\ ~TodosSaved(t) /\ ~Handover(t)
    BY <1>1 DEF TodosQueried, TodosSaved, Handover
  <1>4. QED
    BY <1>2, <1>3 DEF TodoStep

\* What a late callback does: it may say that its turn is started, close the
\* gate of another turn to supplements, or take what is pending there.
LEMMA LateTypes ==
  ASSUME AgentInv, NEW t \in Turns, NextAfterAbort(t)
  PROVE  /\ Sets(t, [NoPlan EXCEPT !.at = "overrun"])
         /\ UNCHANGED <<binding, last, bound, ctx, call, accepted, history>>
         /\ gate' \in Gates /\ gate'.active = gate.active /\ gate'.cancel = gate.cancel
         /\ gate'.accepting => gate.accepting
         /\ result' \in 0..MaxTurns /\ taken' \in [Inputs -> 0..MaxTurns]
         /\ unsaved' \in [Turns -> SUBSET Inputs]
         /\ \A u \in Turns : unsaved[u] \subseteq unsaved'[u]
         /\ channel' \in Seq(Outputs)
         /\ Range(channel') \subseteq Range(channel) \cup {<<t, "started">>}
         /\ \/ gate'.pending = gate.pending /\ taken' = taken
            \/ /\ gate'.pending = <<>>
               /\ taken' = [x \in Inputs |-> IF x \in PendingSet THEN t ELSE taken[x]]
  <1> DEFINE over == [NoPlan EXCEPT !.at = "overrun"]
  <1>1. /\ gate \in Gates /\ <<>> \in Seq(Inputs) /\ result \in 0..MaxTurns /\ t \in 0..MaxTurns
        /\ taken \in [Inputs -> 0..MaxTurns] /\ unsaved \in [Turns -> SUBSET Inputs]
        /\ channel \in Seq(Outputs)
    BY DEF AgentInv, Types, Turns
  <1> HIDE DEF over
  <1>2. CASE /\ Emits(t, "started") /\ Sets(t, over)
             /\ UNCHANGED <<gate, binding, last, bound, ctx, call, accepted>> /\ SameInputs
    <2>1. <<t, "started">> \in Outputs /\ channel' = Append(channel, <<t, "started">>)
      BY <1>2 DEF Outputs, Emits
    <2>2. channel' \in Seq(Outputs) /\ Range(channel') = Range(channel) \cup {<<t, "started">>}
      BY <1>1, <2>1, SaysMore
    <2>3. result' \in 0..MaxTurns
      BY <1>1, <1>2 DEF Emits
    <2>4. QED
      BY <1>1, <1>2, <2>2, <2>3 DEF SameInputs, over
  <1>3. CASE Waits(t, over)
    BY <1>1, <1>3 DEF Waits, SameSession, SameInputs, session_vars, over
  <1>4. CASE /\ gate' = [gate EXCEPT !.accepting = FALSE]
             /\ Sets(t, over)
             /\ UNCHANGED <<binding, last, bound, result, ctx, call, accepted, channel>>
             /\ SameInputs
    <2>1. /\ gate' \in Gates /\ gate'.active = gate.active /\ gate'.cancel = gate.cancel
          /\ ~gate'.accepting /\ gate'.pending = gate.pending
      BY <1>1, <1>4 DEF Gates
    <2>2. QED
      BY <1>1, <1>4, <2>1 DEF SameInputs, over
  <1>5. CASE TakesInputs(t) /\ Sets(t, over)
    <2>1. /\ gate' \in Gates /\ gate'.active = gate.active /\ gate'.cancel = gate.cancel
          /\ gate'.accepting = gate.accepting /\ gate'.pending = <<>>
      BY <1>1, <1>5 DEF TakesInputs, Gates
    <2>2. PendingSet \subseteq Inputs
      BY PendingType DEF AgentInv
    <2>3. /\ taken' = [x \in Inputs |-> IF x \in PendingSet THEN t ELSE taken[x]]
          /\ unsaved' = [unsaved EXCEPT ![t] = @ \cup PendingSet]
          /\ UNCHANGED <<binding, last, bound, result, ctx, call, accepted, history, channel>>
      BY <1>5 DEF TakesInputs
    <2>4. taken' \in [Inputs -> 0..MaxTurns]
      BY <1>1, <2>2, <2>3
    <2>5. /\ unsaved' \in [Turns -> SUBSET Inputs]
          /\ \A u \in Turns : unsaved[u] \subseteq unsaved'[u]
      BY <1>1, <2>2, <2>3
    <2>6. QED
      BY <1>1, <1>5, <2>1, <2>3, <2>4, <2>5 DEF over
  <1>6. QED
    BY <1>2, <1>3, <1>4, <1>5 DEF NextAfterAbort, over

\* The turn whose input it takes is a later one: the last turn's plan is not
\* gone while the gate is active, and nothing is pending while it is not.
LEMMA NextAfterAbortStep ==
  ASSUME AgentInv, NEW t \in Turns, NextAfterAbort(t)
  PROVE  AgentInv'
  <1> DEFINE over == [NoPlan EXCEPT !.at = "overrun"]
  <1>1. plan[t].at = "gone"
    BY DEF NextAfterAbort
  <1>2. /\ Sets(t, over)
        /\ UNCHANGED <<binding, last, bound, ctx, call, accepted, history>>
        /\ gate' \in Gates /\ gate'.active = gate.active /\ gate'.cancel = gate.cancel
        /\ gate'.accepting => gate.accepting
        /\ result' \in 0..MaxTurns /\ taken' \in [Inputs -> 0..MaxTurns]
        /\ unsaved' \in [Turns -> SUBSET Inputs]
        /\ \A u \in Turns : unsaved[u] \subseteq unsaved'[u]
        /\ channel' \in Seq(Outputs)
        /\ Range(channel') \subseteq Range(channel) \cup {<<t, "started">>}
        /\ \/ gate'.pending = gate.pending /\ taken' = taken
           \/ /\ gate'.pending = <<>>
              /\ taken' = [x \in Inputs |-> IF x \in PendingSet THEN t ELSE taken[x]]
    BY LateTypes
  <1>3. over \in Plans /\ over.at = "overrun"
    <2>1. "overrun" \in PlanPlaces \ {"released"}
      BY DEF PlanPlaces
    <2>2. QED
      BY <2>1, NoPlanType, PlaceType
  <1> HIDE DEF over
  <1>4. /\ plan' \in [Turns -> Plans] /\ plan'[t].at = "overrun"
        /\ \A u \in Turns : u # t => plan'[u] = plan[u]
    BY <1>2, <1>3, SetsPlan DEF AgentInv, Types
  <1>5. \A u \in Turns : plan'[u].at = plan[u].at \/ (u = t /\ plan'[u].at = "overrun")
    BY <1>1, <1>4
  <1>6. Types'
    BY <1>2, <1>4 DEF AgentInv, Types
  <1>7. /\ last \in Nat /\ t \in Nat /\ t # 0 /\ t <= last
        /\ last # 0 => last \in Turns
    <2>1. last \in Nat /\ t \in Nat /\ t # 0 /\ (last # 0 => last \in Turns)
      BY LastType DEF AgentInv
    <2>2. ~(t > last)
      BY <1>1 DEF AgentInv, TurnOK
    <2>3. QED
      BY <2>1, <2>2
  <1>8. gate.active => t # last /\ t < last
    <2>1. gate.active => t # last
      BY <1>1 DEF AgentInv, TurnOK
    <2>2. QED
      BY <1>7, <2>1
  <1>9. TurnOK'
    <2>1. \A u \in Turns : u > last => u # t /\ plan[u].at = "none"
      BY <1>1 DEF AgentInv, TurnOK
    <2>2. \A u \in Turns : Live(u)' => u = last /\ gate'.active
      BY <1>2, <1>4 DEF AgentInv, TurnOK, Live
    <2>3. gate'.active => plan'[last].at \notin {"gone", "overrun"}
      BY <1>2, <1>4, <1>7, <1>8 DEF AgentInv, TurnOK
    <2>4. QED
      BY <1>2, <1>4, <2>1, <2>2, <2>3 DEF AgentInv, TurnOK
  <1>10. ASSUME NEW c \in Callers PROVE CallerOK(c)'
    <2>1. call[c].at \in {"claimed", "bound"} => last # t /\ last \in Turns
      BY <1>7, <1>8 DEF AgentInv, CallerOK
    <2>2. QED
      BY <1>2, <1>4, <1>7, <2>1 DEF AgentInv, CallerOK
  <1>11. Bindings'
    BY <1>2 DEF AgentInv, Bindings
  <1>12. PendingSet' \subseteq PendingSet /\ (gate.pending = <<>> => gate'.pending = <<>>)
    BY <1>2 DEF PendingSet
  <1>13. \A u, what : Told(u, what)' => Told(u, what) \/ (u = t /\ what = "started")
    BY <1>2 DEF Told
  <1>14. GateOK'
    <2>1. \A u \in Turns : plan'[u].at \in {"completing", "ended"} =>
            gate'.pending = <<>> /\ ~gate'.accepting
      BY <1>2, <1>5, <1>12 DEF AgentInv, GateOK
    <2>2. \A u \in Turns, what \in {"started", "completed", "failed"} : Told(u, what)' => u <= last
      BY <1>7, <1>13 DEF AgentInv, GateOK
    <2>3. Told(last, "completed")' => gate'.pending = <<>> /\ ~(gate'.active /\ gate'.accepting)
      BY <1>2, <1>12, <1>13 DEF AgentInv, GateOK
    <2>4. \A x \in PendingSet' : accepted[x] = last
      BY <1>12 DEF AgentInv, GateOK
    <2>5. \A x \in Inputs : accepted[x] <= last
      BY DEF AgentInv, GateOK
    <2>6. ~gate'.active => gate'.pending = <<>>
      BY <1>2, <1>12 DEF AgentInv, GateOK
    <2>7. gate'.cancel => gate'.active /\ ~gate'.accepting /\ gate'.pending = <<>>
      BY <1>2, <1>12 DEF AgentInv, GateOK
    <2>8. QED
      BY <1>2, <2>1, <2>2, <2>3, <2>4, <2>5, <2>6, <2>7 DEF GateOK
  <1>15. ASSUME NEW x \in Inputs
         PROVE  \/ x \in PendingSet /\ Strayed(x)' /\ gate'.pending = <<>>
                \/ taken'[x] = taken[x] /\ (Strayed(x) => Strayed(x)')
                                       /\ (x \in PendingSet => x \in PendingSet')
    <2>1. CASE x \notin PendingSet \/ (gate'.pending = gate.pending /\ taken' = taken)
      <3>1. taken'[x] = taken[x] /\ (x \in PendingSet => x \in PendingSet')
        BY <1>2, <2>1 DEF PendingSet
      <3>2. Strayed(x) => Strayed(x)'
        BY <1>1, <1>2, <1>4, <3>1 DEF Strayed
      <3>3. QED
        BY <3>1, <3>2
    <2>2. CASE /\ x \in PendingSet /\ gate'.pending = <<>>
               /\ taken' = [y \in Inputs |-> IF y \in PendingSet THEN t ELSE taken[y]]
      <3>1. accepted[x] = last /\ taken'[x] = t
        BY <2>2 DEF AgentInv, GateOK
      <3>2. gate.active
        BY <2>2, PendingType DEF AgentInv, GateOK
      <3>3. QED
        BY <1>2, <1>4, <1>8, <2>2, <3>1, <3>2 DEF Strayed
    <2>3. QED
      BY <1>2, <2>1, <2>2
  <1>16. InputsOK'
    <2>1. InputsStayInTurn'
      BY <1>2, <1>15 DEF AgentInv, InputsOK, InputsStayInTurn
    <2>2. InputsAreAnswered'
      <3>1. \A x \in Inputs : Told(accepted[x], "completed")' => Told(accepted[x], "completed")
        BY <1>2 DEF Told
      <3>2. QED
        BY <1>2, <1>15, <3>1 DEF AgentInv, InputsOK, InputsAreAnswered
    <2>3. Safe'
      <3>1. SUFFICES ASSUME gate'.active, ~gate'.cancel, NEW x \in Inputs, accepted[x] = last
                     PROVE  x \in PendingSet' \/ Kept(x)' \/ Strayed(x)'
        BY <1>2 DEF Safe
      <3>2. x \in PendingSet \/ Kept(x) \/ Strayed(x)
        BY <1>2, <3>1 DEF AgentInv, InputsOK, Safe
      <3>3. Kept(x) /\ taken'[x] = taken[x] => Kept(x)'
        BY <1>2, <1>7, <1>8, <3>1 DEF Kept
      <3>4. QED
        BY <1>15, <3>2, <3>3
    <2>4. Written'
      <3>1. ASSUME NEW u \in Turns, plan'[u].at = "completing", NEW x \in Inputs, accepted'[x] = u
            PROVE  (taken'[x] = u /\ x \in history') \/ Strayed(x)'
        <4>1. plan[u].at = "completing" /\ accepted[x] = u
          BY <1>2, <1>5, <3>1
        <4>2. (taken[x] = u /\ x \in history) \/ Strayed(x)
          BY <4>1 DEF AgentInv, InputsOK, Written
        <4>3. QED
          BY <1>2, <1>15, <4>2
      <3>2. QED
        BY <3>1 DEF Written
    <2>5. QED
      BY <2>1, <2>2, <2>3, <2>4 DEF InputsOK
  <1>17. QED
    BY <1>6, <1>9, <1>10, <1>11, <1>14, <1>16 DEF AgentInv

-----------------------------------------------------------------------------
(* How plans start and end.                                                *)

LEMMA InitPlanStep ==
  ASSUME AgentInv, NEW t \in Turns, InitPlan(t)
  PROVE  AgentInv'
  <1>1. Live(t) /\ plan[t] \in Plans /\ plan \in [Turns -> Plans]
        /\ ctx' \in [Turns -> ContextStates]
    BY DEF InitPlan, Live, AgentInv, Types
  <1>2. /\ t = last /\ last # 0 /\ gate.active
        /\ \A c \in Callers : call[c].at \notin {"claimed", "bound"}
    BY <1>1, LivePlan
  <1>3. UNCHANGED <<gate, binding, last, bound, call, accepted, taken, unsaved, history>>
    BY DEF InitPlan, SameInputs
  <1>4. CASE gate.cancel
    <2> DEFINE p == [plan[t] EXCEPT !.at = "ended"]
    <2>1. p \in Plans /\ p.at = "ended"
      BY <1>1, PlaceType DEF PlanPlaces
    <2>2. Sets(t, p) /\ UNCHANGED <<result, channel>>
      BY <1>1, <1>4, MovesPlan DEF InitPlan, PlanPlaces
    <2>3. gate.pending = <<>> /\ ~gate.accepting
      BY <1>4 DEF AgentInv, GateOK
    <2> HIDE DEF p
    <2>4. QED
      BY <1>1, <1>2, <1>3, <2>1, <2>2, <2>3, PlanMovesQuietly
  <1>5. CASE ~gate.cancel
    <2> DEFINE p == [plan[t] EXCEPT !.at = "waiting"]
    <2>1. p \in Plans /\ p.at = "waiting"
      BY <1>1, PlaceType DEF PlanPlaces
    <2>2. Sets(t, p) /\ Emits(t, "started")
      BY <1>1, <1>5, MovesPlan DEF InitPlan, PlanPlaces
    <2> HIDE DEF p
    <2>3. QED
      BY <1>1, <1>2, <1>3, <2>1, <2>2, PlanSays
  <1>6. QED
    BY <1>4, <1>5

LEMMA CompleteStep ==
  ASSUME AgentInv, NEW t \in Turns, Complete(t)
  PROVE  AgentInv'
  <1>1. Live(t) /\ plan[t].at = "completing" /\ plan[t] \in Plans /\ plan \in [Turns -> Plans]
    BY DEF Complete, Live, AgentInv, Types
  <1>2. /\ t = last /\ last # 0 /\ gate.active
        /\ \A c \in Callers : call[c].at \notin {"claimed", "bound"}
    BY <1>1, LivePlan
  <1>3. UNCHANGED <<gate, binding, last, bound, call, accepted, taken, unsaved, history>>
    BY DEF Complete, SameInputs
  <1>4. ctx' \in [Turns -> ContextStates]
    BY DEF Complete, AgentInv, Types, ContextStates, Terminal
  <1>5. CASE ctx[t] = "running"
    <2> DEFINE p == [plan[t] EXCEPT !.at = "ended"]
    <2>1. p \in Plans /\ p.at = "ended"
      BY <1>1, PlaceType DEF PlanPlaces
    <2>2. Sets(t, p) /\ Emits(t, "completed")
      BY <1>1, <1>5, MovesPlan DEF Complete, PlanPlaces
    <2>3. gate.pending = <<>> /\ ~gate.accepting
      BY <1>1 DEF AgentInv, GateOK
    <2> HIDE DEF p
    <2>4. QED
      BY <1>1, <1>2, <1>3, <1>4, <2>1, <2>2, <2>3, PlanSays
  <1>6. CASE ctx[t] # "running"
    <2> DEFINE p == [plan[t] EXCEPT !.at = "failing"]
    <2>1. p \in Plans /\ p.at = "failing"
      BY <1>1, PlaceType DEF PlanPlaces
    <2>2. Sets(t, p) /\ UNCHANGED <<result, channel>>
      BY <1>1, <1>6, MovesPlan DEF Complete, PlanPlaces
    <2> HIDE DEF p
    <2>3. QED
      BY <1>1, <1>2, <1>3, <1>4, <2>1, <2>2, PlanMovesQuietly
  <1>7. QED
    BY <1>5, <1>6

LEMMA AbortStep ==
  ASSUME Plain, AgentInv, NEW t \in Turns, NEW late \in BOOLEAN, Abort(t, late)
  PROVE  AgentInv'
  <1>1. Live(t) /\ plan[t] \in Plans
    BY DEF Abort, Live, AgentInv, Types
  <1>2. /\ t = last /\ last # 0 /\ gate.active
        /\ \A c \in Callers : call[c].at \notin {"claimed", "bound"}
    BY <1>1, LivePlan
  <1>3. /\ UNCHANGED <<gate, binding, last, bound, call, accepted, taken, unsaved, history>>
        /\ UNCHANGED <<result, channel>>
    BY DEF Abort, SameInputs
  <1>4. ctx' \in [Turns -> ContextStates]
    BY DEF Abort, AgentInv, Types, ContextStates, Terminal
  <1> DEFINE stage == IF late THEN plan[t].stage ELSE "Memory"
             p == [NoPlan EXCEPT !.at = "aborting", !.todo = plan[t].todo, !.late = late,
                                 !.stage = stage]
  <1>5. p \in Plans /\ p.at = "aborting"
    <2>1. stage \in Stages /\ plan[t].todo = "none" /\ "aborting" \in PlanPlaces \ {"released"}
      BY <1>1 DEF Plans, PlanRecords, PlanPlaces, Stages
    <2> HIDE DEF stage
    <2>2. QED
      BY <2>1, NoPlanType DEF Plans, PlanRecords
  <1>6. Sets(t, p)
    <2>1. NoPlan.stage = "Memory"
      BY DEF NoPlan
    <2>2. QED
      BY <2>1 DEF Abort
  <1> HIDE DEF p
  <1>7. QED
    BY <1>1, <1>2, <1>3, <1>4, <1>5, <1>6, PlanMovesQuietly

LEMMA ReportFailureStep ==
  ASSUME AgentInv, NEW t \in Turns, ReportFailure(t)
  PROVE  AgentInv'
  <1>1. plan[t] \in Plans /\ plan \in [Turns -> Plans] /\ ctx' \in [Turns -> ContextStates]
    BY DEF ReportFailure, AgentInv, Types
  <1>2. /\ plan[t].at = "aborting" /\ Moves(t, "reported") /\ Emits(t, "failed")
        /\ UNCHANGED <<gate, binding, last, bound, call, accepted, taken, unsaved, history>>
    BY <1>1 DEF ReportFailure, Plans
  <1>3. /\ t = last /\ last # 0 /\ gate.active
        /\ \A c \in Callers : call[c].at \notin {"claimed", "bound"}
    BY <1>2, LivePlan DEF Live
  <1> DEFINE p == [plan[t] EXCEPT !.at = "reported"]
  <1>4. p \in Plans /\ p.at = "reported" /\ Sets(t, p)
    BY <1>1, <1>2, PlaceType, MovesPlan DEF PlanPlaces
  <1> HIDE DEF p
  <1>5. QED
    BY <1>1, <1>2, <1>3, <1>4, PlanSays

\* What Drops leaves, whether or not a late callback holds the plan.
LEMMA DropsPlan ==
  ASSUME AgentInv, NEW t \in Turns, Drops(t)
  PROVE  \E p \in Plans : /\ p.at = "gone" /\ Sets(t, p)
                          /\ unsaved' \in [Turns -> SUBSET Inputs]
  <1>1. /\ plan[t] \in Plans /\ plan[t].refused \in BOOLEAN /\ plan \in [Turns -> Plans]
        /\ unsaved \in [Turns -> SUBSET Inputs]
    BY DEF AgentInv, Types, Plans, PlanRecords
  <1>2. "gone" \in PlanPlaces \ {"released"}
    BY DEF PlanPlaces
  <1>3. CASE plan[t].late
    <2> DEFINE p == [plan[t] EXCEPT !.at = "gone"]
    <2>1. p \in Plans /\ p.at = "gone"
      BY <1>1, <1>2, PlaceType
    <2>2. Moves(t, "gone") /\ unsaved' = unsaved
      BY <1>3 DEF Drops
    <2>3. Sets(t, p)
      BY <1>1, <1>2, <2>2, MovesPlan
    <2> HIDE DEF p
    <2>4. QED
      BY <1>1, <2>1, <2>2, <2>3
  <1>4. CASE ~plan[t].late
    <2> DEFINE p == [NoPlan EXCEPT !.at = "gone", !.refused = plan[t].refused]
    <2>1. p \in Plans /\ p.at = "gone"
      <3>1. NoPlan \in Plans /\ plan[t].refused \in BOOLEAN
        BY <1>1, NoPlanType
      <3>2. QED
        BY <1>2, <3>1, RefusedType
    <2>2. Sets(t, p) /\ unsaved' = [unsaved EXCEPT ![t] = {}]
      BY <1>4 DEF Drops
    <2> HIDE DEF p
    <2>3. QED
      BY <1>1, <2>1, <2>2
  <1>5. QED
    BY <1>3, <1>4

LEMMA FinishStep ==
  ASSUME AgentInv, NEW t \in Turns, Finish(t)
  PROVE  AgentInv'
  <1>1. /\ plan[t].at = "ended" /\ Live(t) /\ gate' = Closed(gate) /\ call' = Notified
        /\ gate \in Gates
        /\ UNCHANGED <<binding, last, bound, result, accepted, taken, history, channel>>
    BY DEF Finish, Live, Release, AgentInv, Types
  <1>2. ctx' \in [Turns -> ContextStates]
    BY DEF Finish, AgentInv, Types, ContextStates, Terminal
  <1>3. gate.pending = <<>>
    BY <1>1 DEF AgentInv, GateOK
  <1>4. gate' \in Gates /\ ~gate'.active /\ ~gate'.cancel /\ gate'.pending = <<>>
    BY <1>1, <1>3, GateTypes
  <1>5. PICK p \in Plans : /\ p.at = "gone" /\ Sets(t, p)
                           /\ unsaved' \in [Turns -> SUBSET Inputs]
    BY DropsPlan DEF Finish
  <1>6. QED
    BY <1>1, <1>2, <1>4, <1>5, TurnEnds

LEMMA ReleaseTurnStep ==
  ASSUME AgentInv, NEW t \in Turns, ReleaseTurn(t)
  PROVE  AgentInv'
  <1>1. plan[t].todo = "none"
    BY DEF AgentInv, Types, Plans
  <1>2. /\ plan[t].at = "reported" /\ Live(t) /\ gate' = Aborted(gate) /\ call' = Notified
        /\ gate \in Gates /\ ctx' \in [Turns -> ContextStates] /\ Drops(t)
        /\ UNCHANGED <<binding, last, bound, result, accepted, taken, history, channel>>
    BY <1>1 DEF ReleaseTurn, Own, Live, Release, AgentInv, Types
  <1>3. gate' \in Gates /\ ~gate'.active /\ ~gate'.cancel /\ gate'.pending = <<>>
    BY <1>2, GateTypes
  <1>4. PICK p \in Plans : /\ p.at = "gone" /\ Sets(t, p)
                           /\ unsaved' \in [Turns -> SUBSET Inputs]
    BY <1>2, DropsPlan
  <1>5. QED
    BY <1>2, <1>3, <1>4, TurnEnds

\* The mode "todo" needs the tool.
LEMMA NoTodoMode ==
  ASSUME Plain, AgentInv, NEW c \in Callers
  PROVE  call[c].mode # "todo"
  BY AgentAssumption DEF Plain, AgentInv, Types, Calls

\* A spawning caller holds the last turn.
LEMMA Spawning ==
  ASSUME Plain, AgentInv, NEW c \in Callers, call[c].at = "spawning",
         plan[call[c].turn].at = "none"
  PROVE  /\ call[c].turn = last /\ gate.active /\ last \in Turns
         /\ \A d \in Callers : call[d].at \notin {"claimed", "bound"}
  <1>1. call[c].turn = last /\ gate.active
    BY DEF AgentInv, CallerOK
  <1>2. last \in Turns
    BY <1>1, LastType DEF AgentInv, TurnOK
  <1>3. \A d \in Callers : d = c
    BY DEF Plain
  <1>4. QED
    BY <1>1, <1>2, <1>3

LEMMA StartRefusedStep ==
  ASSUME Plain, AgentInv, NEW c \in Callers, NEW told \in BOOLEAN, StartRefused(c, told)
  PROVE  AgentInv'
  <1>1. /\ call[c].turn = last /\ gate.active /\ last \in Turns
        /\ \A d \in Callers : call[d].at \notin {"claimed", "bound"}
    BY Spawning DEF StartRefused
  <1> DEFINE place == IF told THEN "aborting" ELSE "reported"
             p == [NoPlan EXCEPT !.at = place, !.refused = TRUE, !.todo = "none"]
  <1>2. place \in PlanPlaces \ {"released"} /\ place \notin {"none", "gone", "overrun", "completing", "ended"}
    BY DEF PlanPlaces
  <1> HIDE DEF place
  <1>3. p \in Plans /\ p.at = place
    BY <1>2, NoPlanType DEF Plans, PlanRecords
  <1> USE DEF place
  <1>4. Sets(last, p)
    BY <1>1, NoTodoMode DEF StartRefused
  <1>5. /\ UNCHANGED <<gate, binding, last, bound, call, accepted, taken, unsaved, history>>
        /\ UNCHANGED <<result, channel>> /\ ctx' \in [Turns -> ContextStates]
    BY DEF StartRefused, SameSession, SameInputs, session_vars, AgentInv, Types
  <1> HIDE DEF p, place
  <1>6. QED
    BY <1>1, <1>2, <1>3, <1>4, <1>5, PlanMovesQuietly

LEMMA StartPlanStep ==
  ASSUME Plain, AgentInv, NEW c \in Callers, StartPlan(c)
  PROVE  AgentInv'
  <1>1. /\ call[c].turn = last /\ gate.active /\ last \in Turns
        /\ \A d \in Callers : call[d].at \notin {"claimed", "bound"}
    BY Spawning DEF StartPlan
  <1> DEFINE p == [NoPlan EXCEPT !.at = "init", !.todo = "none"]
  <1>2. p \in Plans /\ p.at = "init"
    BY NoPlanType DEF Plans, PlanRecords, PlanPlaces
  <1>3. Sets(last, p)
    BY <1>1, NoTodoMode DEF StartPlan
  <1>4. /\ UNCHANGED <<gate, binding, last, bound, call, accepted, taken, unsaved, history>>
        /\ UNCHANGED <<result, channel>>
    BY DEF StartPlan, SameInputs
  <1>5. ctx' \in [Turns -> ContextStates]
    BY DEF StartPlan, AgentInv, Types, ContextStates
  <1> HIDE DEF p
  <1>6. QED
    BY <1>1, <1>2, <1>3, <1>4, <1>5, PlanMovesQuietly

\* spawn returns.  When the plan was refused and its turn is not the first,
\* the caller aborts a turn that the plan has aborted already.
LEMMA ReturnStep ==
  ASSUME Plain, AgentInv, NEW c \in Callers, Return(c)
  PROVE  AgentInv'
  <1>1. /\ UNCHANGED <<binding, last, bound, result, ctx, accepted>>
        /\ UNCHANGED <<plan, taken, unsaved, history, channel>>
    BY DEF Return, SameInputs
  <1>2. Bindings'
    BY <1>1 DEF AgentInv, Bindings
  <1>3. CASE Returns(c) /\ UNCHANGED gate
    <2>1. call' = [call EXCEPT ![c] = Idle] /\ call'[c] = Idle
      BY <1>3 DEF Returns, AgentInv, Types
    <2>2. CallerOK(c)'
      BY <2>1, IdleCall DEF CallerOK
    <2>3. QED
      BY <1>1, <1>2, <1>3, <2>1, <2>2, IdleCall, CallStays DEF AgentInv, Types
  <1>4. CASE /\ plan[call[c].turn].at = "gone" /\ call[c].at = "spawning"
             /\ gate' = Aborted(gate) /\ call' = [Notified EXCEPT ![c] = Idle]
    <2>1. call[c].turn = last /\ plan[last].at = "gone"
      BY <1>4 DEF AgentInv, CallerOK
    <2>2. ~gate.active
      BY <2>1 DEF AgentInv, TurnOK
    <2>3. gate' \in Gates /\ ~gate'.active /\ ~gate'.cancel /\ gate'.pending = <<>>
      BY <1>4, GateTypes DEF AgentInv, Types
    <2>4. call' \in [Callers -> Calls] /\ call'[c] = Idle
      BY <1>4, NotifiedType, IdleCall DEF AgentInv
    <2>5. CallerOK(c)'
      BY <2>4, IdleCall DEF CallerOK
    <2>6. Types'
      BY <1>1, <2>3, <2>4 DEF AgentInv, Types
    <2>7. TurnOK'
      <3>1. gate'.active = gate.active
        BY <2>2, <2>3 DEF AgentInv, Types, Gates
      <3>2. QED
        BY <1>1, <3>1, TurnStays DEF AgentInv
    <2>8. PendingSet' = {}
      BY <2>3 DEF PendingSet
    <2>9. \A t \in Turns : ~Live(t)
      BY <2>2 DEF AgentInv, TurnOK
    <2>10. GateOK'
      <3>1. \A t \in Turns : plan'[t].at \notin {"completing", "ended"}
        BY <1>1, <2>9 DEF Live
      <3>2. QED
        BY <1>1, <2>3, <2>8, <3>1 DEF AgentInv, GateOK, Told
    <2>11. InputsOK'
      <3>1. InputsStayInTurn' /\ InputsAreAnswered'
        BY <1>1, AnswersStay DEF AgentInv, Told
      <3>2. Safe' /\ Written'
        BY <1>1, <2>3, <2>9 DEF Safe, Written, Live
      <3>3. QED
        BY <3>1, <3>2 DEF InputsOK
    <2>12. QED
      BY <1>2, <2>5, <2>6, <2>7, <2>10, <2>11 DEF AgentInv, Plain
  <1>5. QED
    BY <1>3, <1>4 DEF Return

-----------------------------------------------------------------------------
(* The theorems.                                                           *)

LEMMA AgentInvInit ==
  ASSUME Plain, Init
  PROVE  AgentInv
  <1>1. 0 \in 0..MaxTurns /\ MaxTurns \in Nat /\ Turns \subseteq Nat /\ 0 \notin Turns
    BY SessionAssumption DEF Turns
  <1>2. /\ gate = [active |-> FALSE, accepting |-> FALSE, cancel |-> FALSE, pending |-> <<>>]
        /\ binding = "unbound" /\ last = 0 /\ bound = 0 /\ result = 0
        /\ ctx = [t \in Turns |-> "none"] /\ call = [c \in Callers |-> Idle]
        /\ accepted = [x \in Inputs |-> 0]
    BY DEF Init, SessionInit, NoTurn
  <1>3. /\ plan = [t \in Turns |-> NoPlan] /\ taken = [x \in Inputs |-> 0]
        /\ unsaved = [t \in Turns |-> {}] /\ history = {} /\ channel = <<>>
    BY DEF Init, NoTurn
  <1>4. \A t \in Turns : plan[t] \in Plans /\ plan[t].at = "none"
    BY <1>3, NoPlanType
  <1>5. /\ gate \in Gates /\ ~gate.active /\ ~gate.accepting /\ ~gate.cancel
        /\ gate.pending = <<>>
    <2>1. <<>> \in Seq(Inputs)
      OBVIOUS
    <2>2. QED
      BY <1>2, <2>1 DEF Gates
  <1>6. plan \in [Turns -> Plans] /\ channel \in Seq(Outputs)
    BY <1>3, NoPlanType
  <1>7. call \in [Callers -> Calls] /\ \A c \in Callers : call[c].at = "idle"
    BY <1>2, IdleCall
  <1>8. Types
    BY <1>1, <1>2, <1>3, <1>5, <1>6, <1>7 DEF Types, ContextStates
  <1>9. \A c \in Callers : CallerOK(c)
    BY <1>7 DEF CallerOK
  <1>10. Bindings /\ TurnOK
    BY <1>2, <1>4, <1>5 DEF Bindings, TurnOK, Live
  <1>11. PendingSet = {}
    BY <1>5 DEF PendingSet
  <1>12. \A t, what : ~Told(t, what)
    <2>1. Range(channel) = {}
      BY <1>3 DEF Range
    <2>2. QED
      BY <2>1 DEF Told
  <1>13. GateOK
    BY <1>2, <1>4, <1>5, <1>11, <1>12 DEF GateOK
  <1>14. InputsOK
    BY <1>2, <1>3, <1>4, <1>5, <1>12
       DEF InputsOK, InputsStayInTurn, InputsAreAnswered, Safe, Written, NoTurn
  <1>15. QED
    BY <1>8, <1>9, <1>10, <1>13, <1>14 DEF AgentInv

LEMMA AgentInvStays ==
  ASSUME Plain, AgentInv, UNCHANGED agent_vars
  PROVE  AgentInv'
  <1>1. /\ UNCHANGED <<gate, binding, last, bound, result, ctx, call, accepted>>
        /\ UNCHANGED <<plan, taken, unsaved, history, channel>>
    BY DEF agent_vars, session_vars
  <1>2. Types' /\ (\A c \in Callers : CallerOK(c)') /\ Bindings'
    BY <1>1 DEF AgentInv, Types, CallerOK, Bindings
  <1>3. TurnOK' /\ GateOK' /\ InputsOK'
    BY <1>1, GateStays, TurnStays DEF AgentInv
  <1>4. QED
    BY <1>2, <1>3 DEF AgentInv

LEMMA AgentInvStep ==
  ASSUME Plain, AgentInv, Next
  PROVE  AgentInv'
  <1>1. CASE UserStep /\ SameAgent
    BY <1>1, CheckModeStep, BuildStep, NewChatStep, SupplementStep, CancelActiveStep DEF UserStep
  <1>2. ASSUME NEW c \in Callers, CallerStep(c), SameAgent PROVE AgentInv'
    BY <1>2, WriteModeStep, BindSessionStep, ClaimStep, RequestCancelStep, InterruptStep,
       WakeStep, BindContextStep, SetRunningStep DEF CallerStep
  <1>3. ASSUME NEW c \in Callers, StartStep(c) PROVE AgentInv'
    BY <1>3, StartRefusedStep, StartPlanStep, ReturnStep DEF StartStep
  <1>4. ASSUME NEW t \in Turns, EndStep(t) PROVE AgentInv'
    BY <1>4, InitPlanStep, CompleteStep, FinishStep, AbortStep, ReportFailureStep,
       ReleaseTurnStep DEF EndStep
  <1>5. ASSUME NEW t \in Turns, LoopStep(t) PROVE AgentInv'
    BY <1>5, LoopStepStep
  <1>6. QED
    BY <1>1, <1>2, <1>3, <1>4, <1>5, NoTodoStep, NextAfterAbortStep DEF Next, PlanStep

LEMMA AgentInvAlways == ASSUME Plain PROVE Spec => []AgentInv
  <1>1. Init => AgentInv
    BY AgentInvInit
  <1>2. AgentInv /\ [Next]_agent_vars => AgentInv'
    BY AgentInvStep, AgentInvStays
  <1>3. QED
    BY <1>1, <1>2, PTL DEF Spec

\* While the session says that it is idle, which wait_idle waits for, no plan
\* of it is left that would still report or release a turn: a plan lets go of
\* the gate with its last step, whether it finished or was aborted.
THEOREM IdleIsQuiet == ASSUME Plain PROVE Spec => []TornDownWhenIdle
  <1>1. AgentInv => TornDownWhenIdle
    BY DEF AgentInv, TurnOK, Live, TornDownWhenIdle
  <1>2. QED
    BY <1>1, AgentInvAlways, PTL

\* A supplement that a conversation accepted is not taken by another one: the
\* gate forgets it when the conversation is replaced or aborted, and one that
\* finishes has closed the gate with nothing pending.  The runtime's callback
\* that calls next of an aborted plan is the one way for it to stray.
THEOREM SupplementsStayInTurn == ASSUME Plain PROVE Spec => []InputsStayInTurn
  <1>1. AgentInv => InputsStayInTurn
    BY DEF AgentInv, InputsOK
  <1>2. QED
    BY <1>1, AgentInvAlways, PTL

\* A turn that says it is completed has taken every supplement it accepted,
\* and the session's history has them: what is accepted while the history is
\* written sends the loop back to the model.  Only one that strayed to an
\* aborted plan is not answered.
THEOREM CompletionsAnswerInputs == ASSUME Plain PROVE Spec => []InputsAreAnswered
  <1>1. AgentInv => InputsAreAnswered
    BY DEF AgentInv, InputsOK
  <1>2. QED
    BY <1>1, AgentInvAlways, PTL
=============================================================================
