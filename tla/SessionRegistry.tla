--------------------------- MODULE SessionRegistry ---------------------------
(***************************************************************************)
(* The session registry of the service: Registry of                        *)
(* app/fae/src/server/registry.rs.                                         *)
(*                                                                         *)
(* The registry is one mutex over the retained sessions.  Whatever takes   *)
(* the mutex is one action here; the callers of these operations, which    *)
(* await between them, are in the module Sessions.                         *)
(*                                                                         *)
(* A key stands for (kind, target, user, session); its group is its        *)
(* (target, user), the unit of cleaning.  A stream is the uuid of one      *)
(* incarnation of a session, a client the id of one connection.  Binding   *)
(* conflicts (another workspace or source) are refusals that change        *)
(* nothing and are left out.                                               *)
(***************************************************************************)
EXTENDS Naturals, FiniteSets

CONSTANTS
  Keys,        \* session keys
  Groups,      \* the (target, user) pairs
  GroupOf,     \* the group of each key
  Clients,     \* connection ids
  Streams,     \* stream ids; bounds the incarnations of the model
  MaxSessions, \* retained sessions (32)
  MaxRounds,   \* active rounds (8)
  TimerRounds, \* TIMER_CONCURRENT_LIMIT
  Nobody,      \* the lease id of an entry nobody has opened
  NoStream     \* the stream of a key without an entry

ASSUME KeysAssumption ==
  IsFiniteSet(Keys) /\ GroupOf \in [Keys -> Groups]
ASSUME NamesAssumption == Nobody \notin Clients /\ NoStream \notin Streams
ASSUME CapsAssumption ==
  MaxSessions \in Nat /\ MaxRounds \in Nat /\ TimerRounds \in Nat

VARIABLES
  entries,  \* State.entries: Absent, or the entry of each key
  cleaning, \* State.cleaning
  stopping, \* State.stopping
  issued    \* streams already given to an actor: a uuid is never drawn twice

registry_vars == <<entries, cleaning, stopping, issued>>

Entry ==
  [stream : Streams \cup {NoStream}, leased : BOOLEAN,
   lease_id : Clients \cup {Nobody}, active : BOOLEAN, timer : BOOLEAN,
   closing : BOOLEAN, disconnected : BOOLEAN]

Absent ==
  [stream |-> NoStream, leased |-> FALSE, lease_id |-> Nobody, active |-> FALSE,
   timer |-> FALSE, closing |-> FALSE, disconnected |-> FALSE]

\* Registry::open inserts an entry with its lease.
Opened(s, c) == [Absent EXCEPT !.stream = s, !.leased = TRUE, !.lease_id = c]

\* Registry::open_internal_agent inserts one with its round.
Internal(s) == [Absent EXCEPT !.stream = s, !.active = TRUE, !.timer = TRUE]

Present == {k \in Keys : entries[k].stream # NoStream}
Rounds == {k \in Keys : entries[k].active}
TimerSessions == {k \in Keys : entries[k].active /\ entries[k].timer}

-----------------------------------------------------------------------------
(* open: a session that exists is leased, a new one inserted               *)

Lease(k, c) ==
  /\ ~stopping
  /\ k \in Present /\ ~entries[k].closing /\ ~entries[k].leased
  /\ entries' = [entries EXCEPT ![k].leased = TRUE, ![k].lease_id = c,
                                ![k].disconnected = FALSE]
  /\ UNCHANGED <<cleaning, stopping, issued>>

Insert(k, c, s) ==
  /\ ~stopping
  /\ k \notin Present /\ Cardinality(Present) < MaxSessions
  /\ s \in Streams \ issued
  /\ entries' = [entries EXCEPT ![k] = Opened(s, c)]
  /\ issued' = issued \cup {s}
  /\ UNCHANGED <<cleaning, stopping>>

OpenInternalAgent(k, s) ==
  /\ ~stopping
  /\ k \notin Present /\ Cardinality(Present) < MaxSessions
  /\ Cardinality(Rounds) < MaxRounds
  /\ Cardinality(TimerSessions) < TimerRounds
  /\ GroupOf[k] \notin cleaning
  /\ s \in Streams \ issued
  /\ entries' = [entries EXCEPT ![k] = Internal(s)]
  /\ issued' = issued \cup {s}
  /\ UNCHANGED <<cleaning, stopping>>

-----------------------------------------------------------------------------
(* Rounds *)

MayReserve(k) ==
  /\ ~stopping /\ Cardinality(Rounds) < MaxRounds
  /\ GroupOf[k] \notin cleaning
  /\ k \in Present /\ ~entries[k].active

ReserveRound(k) ==
  /\ MayReserve(k)
  /\ entries' = [entries EXCEPT ![k].active = TRUE]
  /\ UNCHANGED <<cleaning, stopping, issued>>

\* A timer's session that nobody has opened is released with its round.
Unattended(k) == entries[k].timer /\ ~entries[k].leased

\* Seeded fault: a timer's session is released under its client.
FinishRound_Attended(k) ==
  /\ entries' = IF k \notin Present THEN entries ELSE [entries EXCEPT
       ![k].active = FALSE, ![k].timer = FALSE,
       ![k].closing = entries[k].closing \/ entries[k].timer,
       ![k].disconnected = entries[k].disconnected \/ ~entries[k].leased]
  /\ UNCHANGED <<cleaning, stopping, issued>>
FinishRound(k) ==
  /\ entries' = IF k \notin Present THEN entries ELSE [entries EXCEPT
       ![k].active = FALSE,
       ![k].timer = FALSE,
       ![k].closing = entries[k].closing \/ Unattended(k),
       ![k].disconnected = entries[k].disconnected \/ ~entries[k].leased]
  /\ UNCHANGED <<cleaning, stopping, issued>>

-----------------------------------------------------------------------------
(* The end of a lease and of a session *)

\* detach: of this incarnation and this lease only.
Detach(k, s, c) ==
  /\ entries' = IF entries[k].stream = s /\ entries[k].lease_id = c
                THEN [entries EXCEPT ![k].leased = FALSE, ![k].disconnected = TRUE]
                ELSE entries
  /\ UNCHANGED <<cleaning, stopping, issued>>

\* Seeded fault: an actor that leaves removes its successor.
Remove_AnyStream(k, s) ==
  /\ entries' = [entries EXCEPT ![k] = Absent]
  /\ UNCHANGED <<cleaning, stopping, issued>>
Remove(k, s) ==
  /\ entries' = IF entries[k].stream = s THEN [entries EXCEPT ![k] = Absent]
                ELSE entries
  /\ UNCHANGED <<cleaning, stopping, issued>>

\* reap: these have been disconnected for half an hour.
Expirable == {k \in Present : /\ ~entries[k].leased /\ ~entries[k].active
                              /\ ~entries[k].closing /\ entries[k].disconnected}

Reap(expired) ==
  /\ expired \subseteq Expirable /\ expired # {}
  /\ entries' = [k \in Keys |-> IF k \in expired
                                THEN [entries[k] EXCEPT !.closing = TRUE]
                                ELSE entries[k]]
  /\ UNCHANGED <<cleaning, stopping, issued>>

-----------------------------------------------------------------------------
(* Cleaning and shutdown *)

\* Seeded fault: only the round of the session that cleans matters.
MayClean_OwnRound(k) == GroupOf[k] \notin cleaning /\ ~entries[k].active
MayClean(k) ==
  GroupOf[k] \notin cleaning /\ \A j \in Rounds : GroupOf[j] # GroupOf[k]

BeginClean(k) ==
  /\ MayClean(k)
  /\ cleaning' = cleaning \cup {GroupOf[k]}
  /\ UNCHANGED <<entries, stopping, issued>>

EndClean(k) ==
  /\ cleaning' = cleaning \ {GroupOf[k]}
  /\ UNCHANGED <<entries, stopping, issued>>

Shutdown ==
  /\ stopping' = TRUE
  /\ UNCHANGED <<entries, cleaning, issued>>

-----------------------------------------------------------------------------
RegistryInit ==
  /\ entries = [k \in Keys |-> Absent]
  /\ cleaning = {} /\ stopping = FALSE /\ issued = {}

RegistryNext ==
  \/ \E k \in Keys, c \in Clients :
       Lease(k, c) \/ \E s \in Streams : Insert(k, c, s)
  \/ \E k \in Keys, s \in Streams :
       \/ OpenInternalAgent(k, s) \/ Remove(k, s)
       \/ \E c \in Clients \cup {Nobody} : Detach(k, s, c)
  \/ \E k \in Keys :
       ReserveRound(k) \/ FinishRound(k) \/ BeginClean(k) \/ EndClean(k)
  \/ \E expired \in SUBSET Keys : Reap(expired)
  \/ Shutdown

RegistrySpec == RegistryInit /\ [][RegistryNext]_registry_vars

-----------------------------------------------------------------------------
(* Properties *)

RegistryTypeOK ==
  /\ entries \in [Keys -> Entry] /\ cleaning \subseteq Groups
  /\ stopping \in BOOLEAN /\ issued \subseteq Streams

\* app/fae/README.md: at most 2 timer rounds, 8 rounds and 32 sessions.  The
\* three ways to add to them test the caps under the mutex, none of them all
\* three in the same way.
CapsHold ==
  /\ Cardinality(Present) <= MaxSessions
  /\ Cardinality(Rounds) <= MaxRounds
  /\ Cardinality(TimerSessions) <= TimerRounds

\* No round is active in a group whose data is being cleaned.
CleaningExcludesRounds == \A k \in Rounds : GroupOf[k] \notin cleaning

\* A session that is about to be released has no client: whoever asked for it
\* was refused, so that nobody waits for an actor that leaves.
ReleasedHasNoClient ==
  \A k \in Keys : entries[k].closing => ~entries[k].leased

\* A session nobody uses can be reaped, or is being released: the clock of its
\* half hour is running whichever way its client left.
AbandonedCanBeReaped ==
  \A k \in Present :
    entries[k].leased \/ entries[k].active \/ entries[k].closing \/ k \in Expirable

\* Once the service stops nothing is admitted: no session, lease or round is
\* added to what the shutdown collected under the mutex.
StoppingAdmitsNothing ==
  [][stopping => \A k \in Keys :
       /\ entries'[k].stream \in {entries[k].stream, NoStream}
       /\ entries'[k].leased => entries[k].leased
       /\ entries'[k].active => entries[k].active]_registry_vars

=============================================================================
