----------------------------- MODULE ContextTree -----------------------------
(***************************************************************************)
(* The tree of execution contexts: EngineContext of                        *)
(* fae-engine/src/context/mod.rs.                                          *)
(*                                                                         *)
(* Every task and plan has a context with a state, which anyone who holds  *)
(* it may set.  A context is forked and its state is set under its own     *)
(* mutex; a state that stops a context is passed on to the children it had *)
(* at that moment, one by one, after the mutex is released: other threads  *)
(* fork and set contexts in between.                                       *)
(*                                                                         *)
(* Scopes, outputs and the log of stacks are left out.                     *)
(***************************************************************************)
EXTENDS Naturals

CONSTANTS
  Contexts, \* the contexts that may come to exist
  Root,     \* the one a plan is launched with
  Parent,   \* the context each of the others is forked from
  Threads   \* who may be inside set_state

ASSUME TreeAssumption ==
  Root \in Contexts /\ Parent \in [Contexts \ {Root} -> Contexts]

VARIABLES
  context, \* ContextState of each context, "none" before it is forked
  pending  \* the children each thread still has to cancel in set_state

tree_vars == <<context, pending>>

Stopped == {"failed", "cancelled"}
Terminal == Stopped \cup {"succeeded"}
States == Terminal \cup {"none", "created", "running"}

IsTerminal(c) == context[c] \in Terminal
IsLive(c) == context[c] \in {"created", "running"}

\* set_state: the transitions it applies.
May(c, s) ==
  \/ context[c] = "created" /\ s \in Stopped \cup {"running"}
  \/ context[c] = "running" /\ s \in Terminal

Children(c) ==
  {d \in Contexts \ {Root} : Parent[d] = c /\ context[d] # "none"}

-----------------------------------------------------------------------------
\* Seeded fault: the parent's state is not looked at under its mutex.
Fork_AnyParent(c) ==
  /\ c # Root /\ context[c] = "none" /\ context[Parent[c]] # "none"
  /\ context' = [context EXCEPT ![c] = "created"]
  /\ UNCHANGED pending

\* EngineContext::fork: refused when the parent is terminal.
Fork(c) ==
  /\ c # Root /\ context[c] = "none"
  /\ IsLive(Parent[c])
  /\ context' = [context EXCEPT ![c] = "created"]
  /\ UNCHANGED pending

\* EngineContext::set_state, up to the release of the mutex.
SetState(t, c, s) ==
  /\ pending[t] = {}
  /\ May(c, s)
  /\ context' = [context EXCEPT ![c] = s]
  /\ pending' = [pending EXCEPT ![t] = IF s \in Stopped THEN Children(c) ELSE {}]

\* The loop over the children, and the set_state of each of them.
PassOn(t) ==
  \E c \in pending[t] :
    LET others == pending[t] \ {c} IN
    IF May(c, "cancelled")
    THEN /\ context' = [context EXCEPT ![c] = "cancelled"]
         /\ pending' = [pending EXCEPT ![t] = others \cup Children(c)]
    ELSE /\ pending' = [pending EXCEPT ![t] = others]
         /\ UNCHANGED context

TreeInit ==
  /\ context \in {[c \in Contexts |-> IF c = Root THEN s ELSE "none"] :
                    s \in {"created", "running"}}
  /\ pending = [t \in Threads |-> {}]

TreeNext ==
  \/ \E c \in Contexts : Fork(c)
  \/ \E t \in Threads, c \in Contexts, s \in States : SetState(t, c, s)
  \/ \E t \in Threads : PassOn(t)

TreeSpec == TreeInit /\ [][TreeNext]_tree_vars

-----------------------------------------------------------------------------
\* A context has one of its states, and only existing ones are passed on to.
TreeTypeOK ==
  /\ context \in [Contexts -> States]
  /\ pending \in [Threads -> SUBSET (Contexts \ {Root})]

\* fork_racing_parent_cancellation_cannot_escape_tree: when a context has failed
\* or been cancelled, each of its children has ended, or is among those that a
\* thread is about to cancel, also one forked while that happened.
NoneEscapes ==
  \A c \in Contexts \ {Root} :
    context[c] # "none" /\ context[Parent[c]] \in Stopped =>
      IsTerminal(c) \/ \E t \in Threads : c \in pending[t]

=============================================================================
