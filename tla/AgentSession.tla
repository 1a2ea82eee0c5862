---------------------------- MODULE AgentSession ----------------------------
(***************************************************************************)
(* The session of an agent (fae-agent/src/plan/single_agent/session.rs):   *)
(* the gate through which turns, supplements and cancellations pass, and   *)
(* the callers of set_mode, call and cancel_active.  SingleAgent adds the  *)
(* plans that run behind the gate.                                         *)
(*                                                                         *)
(* The gate is one mutex; the binding and the completion are others.  A    *)
(* caller's steps end where it lets go of one of them or awaits.           *)
(*                                                                         *)
(* Left out: texts, images and users; outputs other than the first and     *)
(* the last event of a turn; parents of the session, to which events are   *)
(* also forwarded.                                                         *)
(***************************************************************************)
EXTENDS Integers, Sequences, FiniteSets

CONSTANTS
  Callers,     \* the tasks that hold the session and start conversations
  Inputs,      \* the supplements somebody may send, each at most once
  MaxTurns,    \* bound: how many turns are started
  Modes        \* the modes a caller asks for: "chat" (no mode), "todo"

ASSUME SessionAssumption ==
  /\ MaxTurns \in Nat \ {0} /\ Modes \subseteq {"chat", "todo"}

Turns == 1..MaxTurns
NoTurn == 0

VARIABLES
  gate,     \* CommonSessionState
  binding,  \* the mode of the binding, or "unbound"
  last,     \* next_turn_id - 1
  bound,    \* the turn whose context the completion holds
  result,   \* the turn whose event completed it, or NoTurn
  ctx,      \* the context of each turn
  call,     \* where each caller is, for which turn and mode
  accepted  \* of each input: the turn that was active when it was accepted

session_vars == <<gate, binding, last, bound, result, ctx, call, accepted>>

Gates == [active : BOOLEAN, accepting : BOOLEAN, cancel : BOOLEAN, pending : Seq(Inputs)]
Terminal == {"succeeded", "failed", "cancelled"}
ContextStates == {"none", "created", "running"} \cup Terminal
\* Where a caller may be: in a loop of call, between two of its locks, in
\* spawn, or between the check and the write of set_mode.
Looping == {"claiming", "interrupting", "waiting"}
Places == {"idle", "moding", "building", "claimed", "bound", "spawning"} \cup Looping

SessionTypeOK ==
  /\ gate \in Gates
  /\ binding \in Modes \cup {"unbound"}
  /\ last \in 0..MaxTurns /\ bound \in 0..MaxTurns /\ result \in 0..MaxTurns
  /\ ctx \in [Turns -> ContextStates]
  /\ call \in [Callers -> [at : Places, turn : 0..MaxTurns, woken : BOOLEAN,
                           mode : Modes \cup {"unbound"}]]
  /\ accepted \in [Inputs -> 0..MaxTurns]

Idle == [at |-> "idle", turn |-> NoTurn, woken |-> FALSE, mode |-> "unbound"]

SessionInit ==
  /\ gate = [active |-> FALSE, accepting |-> FALSE, cancel |-> FALSE, pending |-> <<>>]
  /\ binding = "unbound" /\ last = 0 /\ bound = NoTurn /\ result = NoTurn
  /\ ctx = [t \in Turns |-> "none"]
  /\ call = [c \in Callers |-> Idle]
  /\ accepted = [x \in Inputs |-> NoTurn]

-----------------------------------------------------------------------------
(* The gate.                                                               *)

Opened(g) == [g EXCEPT !.active = TRUE, !.accepting = TRUE]
Replaced(g) == [g EXCEPT !.accepting = FALSE, !.cancel = TRUE, !.pending = <<>>]
Closed(g) == [g EXCEPT !.active = FALSE, !.accepting = FALSE, !.cancel = FALSE]
\* Seeded fault: abort_turn does no more than finish_turn.
AbortedAsFinished(g) == Closed(g)

\* abort_turn also forgets the inputs nobody took; finish_turn does not.
Aborted(g) == [Closed(g) EXCEPT !.pending = <<>>]

Goes(c, place) == call' = [call EXCEPT ![c].at = place]
Returns(c) == call' = [call EXCEPT ![c] = Idle]

\* notify_waiters reaches every caller that asked to be notified before, the
\* ones still on their way to the await included.
Notified == [c \in Callers |-> [call[c] EXCEPT !.woken = @ \/ call[c].at \in Looping]]

\* finish_turn and abort_turn
Release(g) == gate' = g /\ call' = Notified

\* A terminal context stays what it is.
Cancelled(t) == [ctx EXCEPT ![t] = IF @ \in Terminal THEN @ ELSE "cancelled"]

-----------------------------------------------------------------------------
(* set_mode.                                                               *)

CheckMode(c, m) ==
  /\ call[c].at = "idle" /\ binding # "unbound" /\ ~gate.active
  /\ call' = [call EXCEPT ![c].at = "moding", ![c].mode = m]
  /\ UNCHANGED <<gate, binding, last, bound, result, ctx, accepted>>

WriteMode(c) ==
  /\ call[c].at = "moding"
  /\ binding' = call[c].mode
  /\ Returns(c)
  /\ UNCHANGED <<gate, last, bound, result, ctx, accepted>>

-----------------------------------------------------------------------------
(* The first turn: the builder binds the context, resolves what the agent  *)
(* uses, and binds the session, which opens the gate.                      *)

Build(c, m) ==
  /\ call[c].at = "idle" /\ bound = NoTurn
  /\ bound' = 1 /\ result' = NoTurn
  /\ ctx' = [ctx EXCEPT ![1] = "created"]
  /\ call' = [call EXCEPT ![c] = [at |-> "building", turn |-> 1, woken |-> FALSE, mode |-> m]]
  /\ UNCHANGED <<gate, binding, last, accepted>>

BindSession(c) ==
  /\ call[c].at = "building"
  /\ binding' = call[c].mode /\ gate' = Opened(gate) /\ last' = 1
  /\ Goes(c, "spawning")
  /\ UNCHANGED <<bound, result, ctx, accepted>>

-----------------------------------------------------------------------------
(* call(NewChat).                                                          *)

\* The mode is read here, and used when the turn starts.
NewChat(c) ==
  /\ call[c].at = "idle" /\ binding # "unbound" /\ last < MaxTurns
  /\ call' = [call EXCEPT ![c] = [at |-> "claiming", turn |-> NoTurn, woken |-> FALSE,
                                  mode |-> binding]]
  /\ UNCHANGED <<gate, binding, last, bound, result, ctx, accepted>>

Claim(c) ==
  /\ call[c].at = "claiming" /\ ~gate.active /\ last < MaxTurns
  /\ gate' = Opened(gate) /\ last' = last + 1
  /\ call' = [call EXCEPT ![c].at = "claimed", ![c].turn = last + 1]
  /\ UNCHANGED <<binding, bound, result, ctx, accepted>>

RequestCancel(c) ==
  /\ call[c].at = "claiming" /\ gate.active
  /\ gate' = Replaced(gate)
  /\ Goes(c, "interrupting")
  /\ UNCHANGED <<binding, last, bound, result, ctx, accepted>>

\* Seeded fault: the plan is left to find the request by itself.
InterruptNothing(c) ==
  /\ call[c].at = "interrupting"
  /\ Goes(c, "waiting")
  /\ UNCHANGED <<gate, binding, last, bound, result, ctx, accepted>>

\* The context that is cancelled is the one the completion holds by now.
Interrupt(c) ==
  /\ call[c].at = "interrupting"
  /\ ctx' = Cancelled(bound)
  /\ Goes(c, "waiting")
  /\ UNCHANGED <<gate, binding, last, bound, result, accepted>>

Wake(c) ==
  /\ call[c].at = "waiting" /\ call[c].woken
  /\ call' = [call EXCEPT ![c].at = "claiming", ![c].woken = FALSE]
  /\ UNCHANGED <<gate, binding, last, bound, result, ctx, accepted>>

BindContext(c) ==
  /\ call[c].at = "claimed"
  /\ bound' = call[c].turn /\ result' = NoTurn
  /\ ctx' = [ctx EXCEPT ![call[c].turn] = "created"]
  /\ Goes(c, "bound")
  /\ UNCHANGED <<gate, binding, last, accepted>>

\* A context that was cancelled in between refuses to run: call returns with
\* the error, and the gate stays open.
SetRunning(c) ==
  LET t == call[c].turn IN
  /\ call[c].at = "bound"
  /\ IF ctx[t] = "created"
     THEN ctx' = [ctx EXCEPT ![t] = "running"] /\ Goes(c, "spawning")
     ELSE UNCHANGED ctx /\ Returns(c)
  /\ UNCHANGED <<gate, binding, last, bound, result, accepted>>

-----------------------------------------------------------------------------
(* call(Supplement) and cancel_active.                                     *)

Supplement(x) ==
  /\ binding # "unbound" /\ accepted[x] = NoTurn
  /\ gate.active /\ gate.accepting
  /\ gate' = [gate EXCEPT !.pending = Append(@, x)]
  /\ accepted' = [accepted EXCEPT ![x] = last]
  /\ UNCHANGED <<binding, last, bound, result, ctx, call>>

CancelActive ==
  /\ bound # NoTurn /\ ctx[bound] \notin Terminal
  /\ ctx' = Cancelled(bound)
  /\ UNCHANGED <<gate, binding, last, bound, result, call, accepted>>

CallerStep(c) ==
  \/ WriteMode(c)
  \/ BindSession(c)
  \/ Claim(c)
  \/ RequestCancel(c)
  \/ Interrupt(c)
  \/ Wake(c)
  \/ BindContext(c)
  \/ SetRunning(c)

UserStep ==
  \/ \E c \in Callers : \E m \in Modes : CheckMode(c, m) \/ Build(c, m)
  \/ \E c \in Callers : NewChat(c)
  \/ \E x \in Inputs : Supplement(x)
  \/ CancelActive
=============================================================================
