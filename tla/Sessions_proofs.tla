--------------------------- MODULE Sessions_proofs ---------------------------
(***************************************************************************)
(* Machine-checked theorems about SessionRegistry and Sessions, for any    *)
(* number of sessions, clients and incarnations, any caps, any mailbox and *)
(* any mixture of requests.  Of the registry: type correctness, the caps,  *)
(* the exclusion of rounds by cleaning, and what is promised to clients    *)
(* and by the shutdown.  Of the service: type correctness, and that every  *)
(* step of the actors, connections, timers and the server is one of the    *)
(* registry, so that what is proved of the registry holds of the service.  *)
(* Last come the rounds, the engines and the leases of sessions.           *)
(***************************************************************************)
EXTENDS Sessions, FiniteSetTheorems, TLAPS

USE DEF registry_vars

-----------------------------------------------------------------------------
(* The entries *)

LEMMA NewEntries ==
  ASSUME NEW s \in Streams, NEW c \in Clients
  PROVE  Absent \in Entry /\ Opened(s, c) \in Entry /\ Internal(s) \in Entry
  BY DEF Absent, Opened, Internal, Entry

LEMMA AbsentType == Absent \in Entry
  BY DEF Absent, Entry

\* What the entries of the mutex's holder become keeps its type.
LEMMA TypeStep == RegistryTypeOK /\ [RegistryNext]_registry_vars => RegistryTypeOK'
  <1> SUFFICES ASSUME RegistryTypeOK, [RegistryNext]_registry_vars
               PROVE  RegistryTypeOK'
    OBVIOUS
  <1>1. ASSUME NEW k \in Keys, NEW c \in Clients, Lease(k, c)
        PROVE  RegistryTypeOK'
    <2>1. entries[k] \in Entry
      BY DEF RegistryTypeOK
    <2>2. [entries[k] EXCEPT !.leased = TRUE, !.lease_id = c, !.disconnected = FALSE] \in Entry
      BY <2>1 DEF Entry
    <2>3. QED
      BY <1>1, <2>2 DEF RegistryTypeOK, Lease
  <1>2. ASSUME NEW k \in Keys, NEW c \in Clients, NEW s \in Streams, Insert(k, c, s)
        PROVE  RegistryTypeOK'
    BY <1>2, NewEntries DEF RegistryTypeOK, Insert
  <1>3. ASSUME NEW k \in Keys, NEW s \in Streams, OpenInternalAgent(k, s)
        PROVE  RegistryTypeOK'
    <2>1. Internal(s) \in Entry
      BY DEF Internal, Absent, Entry
    <2>2. QED
      BY <1>3, <2>1 DEF RegistryTypeOK, OpenInternalAgent
  <1>4. ASSUME NEW k \in Keys, NEW s \in Streams, Remove(k, s)
        PROVE  RegistryTypeOK'
    BY <1>4, AbsentType DEF RegistryTypeOK, Remove
  <1>5. ASSUME NEW k \in Keys, NEW s \in Streams, NEW c \in Clients \cup {Nobody},
               Detach(k, s, c)
        PROVE  RegistryTypeOK'
    <2>1. entries[k] \in Entry
      BY DEF RegistryTypeOK
    <2>2. [entries[k] EXCEPT !.leased = FALSE, !.disconnected = TRUE] \in Entry
      BY <2>1 DEF Entry
    <2>3. QED
      BY <1>5, <2>2 DEF RegistryTypeOK, Detach
  <1>6. ASSUME NEW k \in Keys, ReserveRound(k)
        PROVE  RegistryTypeOK'
    BY <1>6 DEF RegistryTypeOK, ReserveRound, Entry
  <1>7. ASSUME NEW k \in Keys, FinishRound(k)
        PROVE  RegistryTypeOK'
    <2>1. Unattended(k) \in BOOLEAN
      BY DEF Unattended, RegistryTypeOK, Entry
    <2>2. entries[k] \in Entry
      BY DEF RegistryTypeOK
    <2>3. [entries[k] EXCEPT
             !.active = FALSE,
             !.timer = FALSE,
             !.closing = entries[k].closing \/ Unattended(k),
             !.disconnected = entries[k].disconnected \/ ~entries[k].leased] \in Entry
      BY <2>1, <2>2 DEF Entry
    <2>4. QED
      BY <1>7, <2>3 DEF RegistryTypeOK, FinishRound
  <1>8. ASSUME NEW k \in Keys, BeginClean(k) \/ EndClean(k)
        PROVE  RegistryTypeOK'
    BY <1>8, KeysAssumption DEF RegistryTypeOK, BeginClean, EndClean
  <1>9. ASSUME NEW expired \in SUBSET Keys, Reap(expired)
        PROVE  RegistryTypeOK'
    BY <1>9 DEF RegistryTypeOK, Reap, Entry
  <1>10. CASE Shutdown
    BY <1>10 DEF RegistryTypeOK, Shutdown
  <1>11. CASE UNCHANGED registry_vars
    BY <1>11 DEF RegistryTypeOK
  <1>12. QED
    BY <1>1, <1>2, <1>3, <1>4, <1>5, <1>6, <1>7, <1>8, <1>9, <1>10, <1>11
    DEF RegistryNext

\* The entries, groups and streams always have their types.
THEOREM RegistryTypes == RegistrySpec => []RegistryTypeOK
  <1>1. RegistryInit => RegistryTypeOK
    BY AbsentType DEF RegistryInit, RegistryTypeOK
  <1>2. QED
    BY <1>1, TypeStep, PTL DEF RegistrySpec

-----------------------------------------------------------------------------
(* What does not depend on the caps *)

\* The mark of a timer's session does not outlive its round.
TimersAreActive == \A k \in Keys : entries[k].timer => entries[k].active

\* What is said of each entry, and of its group.
EntriesInv ==
  TimersAreActive /\ CleaningExcludesRounds /\ ReleasedHasNoClient /\ AbandonedCanBeReaped

LEMMA EntriesStep ==
  RegistryTypeOK /\ EntriesInv /\ [RegistryNext]_registry_vars => EntriesInv'
  <1> SUFFICES ASSUME RegistryTypeOK, EntriesInv, [RegistryNext]_registry_vars
               PROVE  EntriesInv'
    OBVIOUS
  <1> USE DEF EntriesInv, TimersAreActive, CleaningExcludesRounds, ReleasedHasNoClient,
              AbandonedCanBeReaped, Rounds, Present, Expirable, RegistryTypeOK, Entry
  <1>1. ASSUME NEW k \in Keys, NEW c \in Clients, Lease(k, c)
        PROVE  EntriesInv'
    BY <1>1 DEF Lease
  <1>2. ASSUME NEW k \in Keys, NEW c \in Clients, NEW s \in Streams, Insert(k, c, s)
        PROVE  EntriesInv'
    BY <1>2 DEF Insert, Opened, Absent
  <1>3. ASSUME NEW k \in Keys, NEW s \in Streams, OpenInternalAgent(k, s)
        PROVE  EntriesInv'
    BY <1>3 DEF OpenInternalAgent, Internal, Absent
  <1>4. ASSUME NEW k \in Keys, NEW s \in Streams, Remove(k, s)
        PROVE  EntriesInv'
    BY <1>4 DEF Remove, Absent
  <1>5. ASSUME NEW k \in Keys, NEW s \in Streams, NEW c \in Clients \cup {Nobody},
               Detach(k, s, c)
        PROVE  EntriesInv'
    BY <1>5 DEF Detach
  <1>6. ASSUME NEW k \in Keys, ReserveRound(k)
        PROVE  EntriesInv'
    BY <1>6 DEF ReserveRound, MayReserve
  <1>7. ASSUME NEW k \in Keys, FinishRound(k)
        PROVE  EntriesInv'
    <2>1. CASE k \notin Present
      BY <1>7, <2>1 DEF FinishRound
    <2>2. CASE k \in Present
      <3>1. \A l \in Keys : l # k => entries'[l] = entries[l]
        BY <1>7, <2>2 DEF FinishRound
      <3>2. /\ entries'[k].stream = entries[k].stream /\ entries'[k].leased = entries[k].leased
            /\ ~entries'[k].active /\ ~entries'[k].timer
            /\ entries'[k].closing = (entries[k].closing \/ Unattended(k))
            /\ entries'[k].disconnected = (entries[k].disconnected \/ ~entries[k].leased)
        BY <1>7, <2>2 DEF FinishRound
      <3>3. cleaning' = cleaning
        BY <1>7 DEF FinishRound
      <3>4. TimersAreActive' /\ CleaningExcludesRounds'
        BY <3>1, <3>2, <3>3
      <3>5. ReleasedHasNoClient' /\ AbandonedCanBeReaped'
        BY <3>1, <3>2 DEF Unattended
      <3>6. QED
        BY <3>4, <3>5
    <2>3. QED
      BY <2>1, <2>2
  <1>8. ASSUME NEW k \in Keys, BeginClean(k)
        PROVE  EntriesInv'
    BY <1>8 DEF BeginClean, MayClean
  <1>9. ASSUME NEW k \in Keys, EndClean(k)
        PROVE  EntriesInv'
    BY <1>9 DEF EndClean
  <1>10. ASSUME NEW expired \in SUBSET Keys, Reap(expired)
         PROVE  EntriesInv'
    BY <1>10 DEF Reap
  <1>11. CASE Shutdown
    BY <1>11 DEF Shutdown
  <1>12. CASE UNCHANGED registry_vars
    BY <1>12
  <1>13. QED
    BY <1>1, <1>2, <1>3, <1>4, <1>5, <1>6, <1>7, <1>8, <1>9, <1>10, <1>11, <1>12
    DEF RegistryNext

LEMMA EntriesHold == RegistrySpec => []EntriesInv
  <1>1. RegistryInit => EntriesInv
    BY DEF RegistryInit, EntriesInv, TimersAreActive, CleaningExcludesRounds,
           ReleasedHasNoClient, AbandonedCanBeReaped, Rounds, Present, Absent
  <1>2. QED
    BY <1>1, EntriesStep, RegistryTypes, PTL DEF RegistrySpec

\* While the data of a group is being deleted no round of it is active.
THEOREM CleaningExcludes == RegistrySpec => []CleaningExcludesRounds
  <1>1. EntriesInv => CleaningExcludesRounds
    BY DEF EntriesInv
  <1>2. QED
    BY <1>1, EntriesHold, PTL

\* A session that is being released has no client.
THEOREM ReleasedIsFree == RegistrySpec => []ReleasedHasNoClient
  <1>1. EntriesInv => ReleasedHasNoClient
    BY DEF EntriesInv
  <1>2. QED
    BY <1>1, EntriesHold, PTL

\* Whichever way its client left, a session nobody uses can be reaped.
THEOREM AbandonedIsReapable == RegistrySpec => []AbandonedCanBeReaped
  <1>1. EntriesInv => AbandonedCanBeReaped
    BY DEF EntriesInv
  <1>2. QED
    BY <1>1, EntriesHold, PTL

-----------------------------------------------------------------------------
(* The caps.  Only Insert, OpenInternalAgent and ReserveRound add to what   *)
(* they count, one key each; TimersAreActive says that ReserveRound adds no *)
(* timer's session.                                                         *)

LEMMA Counted ==
  /\ IsFiniteSet(Present) /\ IsFiniteSet(Rounds) /\ IsFiniteSet(TimerSessions)
  <1>1. Present \subseteq Keys /\ Rounds \subseteq Keys /\ TimerSessions \subseteq Keys
    BY DEF Present, Rounds, TimerSessions
  <1>2. QED
    BY <1>1, KeysAssumption, FS_Subset

\* A set that gains at most one member, when it was below the cap, keeps to it.
LEMMA AddOne ==
  ASSUME NEW S, IsFiniteSet(S), NEW T, NEW x, T \subseteq S \cup {x},
         NEW cap \in Nat, Cardinality(S) < cap
  PROVE  Cardinality(T) <= cap
  <1>1. IsFiniteSet(S \cup {x}) /\ Cardinality(S \cup {x}) <= Cardinality(S) + 1
    <2>1. Cardinality(S) \in Nat
      BY FS_CardinalityType
    <2>2. IsFiniteSet(S \cup {x})
      BY FS_AddElement
    <2>3. Cardinality(S \cup {x}) = IF x \in S THEN Cardinality(S) ELSE Cardinality(S) + 1
      BY FS_AddElement
    <2>4. QED
      BY <2>1, <2>2, <2>3
  <1>2. Cardinality(T) <= Cardinality(S \cup {x}) /\ IsFiniteSet(T)
    BY <1>1, FS_Subset
  <1>3. Cardinality(S) \in Nat /\ Cardinality(T) \in Nat /\ Cardinality(S \cup {x}) \in Nat
    BY <1>1, <1>2, FS_CardinalityType
  <1>4. QED
    BY <1>1, <1>2, <1>3

LEMMA KeepCap ==
  ASSUME NEW S, IsFiniteSet(S), NEW T \in SUBSET S, NEW cap \in Nat, Cardinality(S) <= cap
  PROVE  Cardinality(T) <= cap
  <1>1. Cardinality(T) <= Cardinality(S) /\ IsFiniteSet(T)
    BY FS_Subset
  <1>2. Cardinality(S) \in Nat /\ Cardinality(T) \in Nat
    BY <1>1, FS_CardinalityType
  <1>3. QED
    BY <1>1, <1>2

\* A step that adds to none of the three.
LEMMA NothingAdded ==
  ASSUME CapsHold, Present' \subseteq Present, Rounds' \subseteq Rounds,
         TimerSessions' \subseteq TimerSessions
  PROVE  CapsHold'
  BY Counted, KeepCap, CapsAssumption DEF CapsHold

LEMMA CapsStep ==
  RegistryTypeOK /\ TimersAreActive /\ CapsHold /\ [RegistryNext]_registry_vars => CapsHold'
  <1> SUFFICES ASSUME RegistryTypeOK, TimersAreActive, CapsHold,
                      [RegistryNext]_registry_vars
               PROVE  CapsHold'
    OBVIOUS
  <1> USE DEF RegistryTypeOK, Entry, Present, Rounds, TimerSessions
  <1>1. ASSUME NEW k \in Keys, NEW c \in Clients, Lease(k, c)
        PROVE  CapsHold'
    <2>1. /\ Present' \subseteq Present /\ Rounds' \subseteq Rounds
          /\ TimerSessions' \subseteq TimerSessions
      BY <1>1 DEF Lease
    <2>2. QED
      BY <2>1, NothingAdded
  <1>2. ASSUME NEW k \in Keys, NEW c \in Clients, NEW s \in Streams, Insert(k, c, s)
        PROVE  CapsHold'
    <2>1. /\ Present' \subseteq Present \cup {k} /\ Rounds' \subseteq Rounds
          /\ TimerSessions' \subseteq TimerSessions
          /\ Cardinality(Present) < MaxSessions
      BY <1>2 DEF Insert, Opened, Absent
    <2>2. Cardinality(Present') <= MaxSessions
      BY <2>1, Counted, AddOne, CapsAssumption
    <2>3. Cardinality(Rounds') <= MaxRounds /\ Cardinality(TimerSessions') <= TimerRounds
      BY <2>1, Counted, KeepCap, CapsAssumption DEF CapsHold
    <2>4. QED
      BY <2>2, <2>3 DEF CapsHold
  <1>3. ASSUME NEW k \in Keys, NEW s \in Streams, OpenInternalAgent(k, s)
        PROVE  CapsHold'
    <2>1. /\ Present' \subseteq Present \cup {k} /\ Rounds' \subseteq Rounds \cup {k}
          /\ TimerSessions' \subseteq TimerSessions \cup {k}
          /\ Cardinality(Present) < MaxSessions /\ Cardinality(Rounds) < MaxRounds
          /\ Cardinality(TimerSessions) < TimerRounds
      BY <1>3 DEF OpenInternalAgent, Internal, Absent
    <2>2. QED
      BY <2>1, Counted, AddOne, CapsAssumption DEF CapsHold
  <1>4. ASSUME NEW k \in Keys, NEW s \in Streams, Remove(k, s)
        PROVE  CapsHold'
    <2>1. /\ Present' \subseteq Present /\ Rounds' \subseteq Rounds
          /\ TimerSessions' \subseteq TimerSessions
      BY <1>4 DEF Remove, Absent
    <2>2. QED
      BY <2>1, NothingAdded
  <1>5. ASSUME NEW k \in Keys, NEW s \in Streams, NEW c \in Clients \cup {Nobody},
               Detach(k, s, c)
        PROVE  CapsHold'
    <2>1. /\ Present' \subseteq Present /\ Rounds' \subseteq Rounds
          /\ TimerSessions' \subseteq TimerSessions
      BY <1>5 DEF Detach
    <2>2. QED
      BY <2>1, NothingAdded
  <1>6. ASSUME NEW k \in Keys, ReserveRound(k)
        PROVE  CapsHold'
    <2>1. /\ Present' \subseteq Present /\ Rounds' \subseteq Rounds \cup {k}
          /\ TimerSessions' \subseteq TimerSessions
          /\ Cardinality(Rounds) < MaxRounds
      BY <1>6 DEF ReserveRound, MayReserve, TimersAreActive
    <2>2. Cardinality(Rounds') <= MaxRounds
      BY <2>1, Counted, AddOne, CapsAssumption
    <2>3. Cardinality(Present') <= MaxSessions /\ Cardinality(TimerSessions') <= TimerRounds
      BY <2>1, Counted, KeepCap, CapsAssumption DEF CapsHold
    <2>4. QED
      BY <2>2, <2>3 DEF CapsHold
  <1>7. ASSUME NEW k \in Keys, FinishRound(k)
        PROVE  CapsHold'
    <2>1. /\ Present' \subseteq Present /\ Rounds' \subseteq Rounds
          /\ TimerSessions' \subseteq TimerSessions
      BY <1>7 DEF FinishRound
    <2>2. QED
      BY <2>1, NothingAdded
  <1>8. ASSUME NEW expired \in SUBSET Keys, Reap(expired)
        PROVE  CapsHold'
    <2>1. /\ Present' \subseteq Present /\ Rounds' \subseteq Rounds
          /\ TimerSessions' \subseteq TimerSessions
      BY <1>8 DEF Reap
    <2>2. QED
      BY <2>1, NothingAdded
  <1>9. CASE UNCHANGED entries
    BY <1>9, NothingAdded
  <1>10. ASSUME NEW k \in Keys, BeginClean(k) \/ EndClean(k)
         PROVE  CapsHold'
    BY <1>9, <1>10 DEF BeginClean, EndClean
  <1>11. CASE Shutdown
    BY <1>9, <1>11 DEF Shutdown
  <1>12. QED
    BY <1>1, <1>2, <1>3, <1>4, <1>5, <1>6, <1>7, <1>8, <1>9, <1>10, <1>11 DEF RegistryNext

\* At most so many sessions, rounds and rounds of timers, whatever the order of
\* opens, timers, rounds and ends.
THEOREM CapsAreKept == RegistrySpec => []CapsHold
  <1>1. RegistryInit => CapsHold
    <2>1. ASSUME RegistryInit
          PROVE  Present = {} /\ Rounds = {} /\ TimerSessions = {}
      BY <2>1 DEF RegistryInit, Present, Rounds, TimerSessions, Absent
    <2>2. QED
      BY <2>1, FS_EmptySet, CapsAssumption DEF CapsHold
  <1>2. EntriesInv => TimersAreActive
    BY DEF EntriesInv
  <1>3. QED
    BY <1>1, <1>2, EntriesHold, RegistryTypes, CapsStep, PTL DEF RegistrySpec

-----------------------------------------------------------------------------
(* The shutdown *)

\* After the shutdown has taken its list nothing is added to the registry.
THEOREM StopIsFinal == RegistrySpec => StoppingAdmitsNothing
  <1> DEFINE Admits ==
        stopping => \A k \in Keys :
          /\ entries'[k].stream \in {entries[k].stream, NoStream}
          /\ entries'[k].leased => entries[k].leased
          /\ entries'[k].active => entries[k].active
  <1>1. RegistryTypeOK /\ [RegistryNext]_registry_vars => [Admits]_registry_vars
    <2> SUFFICES ASSUME RegistryTypeOK, RegistryNext, stopping
                 PROVE  Admits
      OBVIOUS
    <2> USE DEF RegistryTypeOK, Entry
    <2>1. ASSUME NEW k \in Keys, NEW c \in Clients, Lease(k, c)
          PROVE  Admits
      BY <2>1 DEF Lease
    <2>2. ASSUME NEW k \in Keys, NEW c \in Clients, NEW s \in Streams, Insert(k, c, s)
          PROVE  Admits
      BY <2>2 DEF Insert
    <2>3. ASSUME NEW k \in Keys, NEW s \in Streams, OpenInternalAgent(k, s) \/ Remove(k, s)
          PROVE  Admits
      BY <2>3 DEF OpenInternalAgent, Remove, Absent
    <2>4. ASSUME NEW k \in Keys, NEW s \in Streams, NEW c \in Clients \cup {Nobody},
                 Detach(k, s, c)
          PROVE  Admits
      BY <2>4 DEF Detach
    <2>5. ASSUME NEW k \in Keys, ReserveRound(k)
          PROVE  Admits
      BY <2>5 DEF ReserveRound, MayReserve
    <2>6. ASSUME NEW k \in Keys, FinishRound(k)
          PROVE  Admits
      BY <2>6 DEF FinishRound
    <2>7. ASSUME NEW k \in Keys, BeginClean(k) \/ EndClean(k)
          PROVE  Admits
      BY <2>7 DEF BeginClean, EndClean
    <2>8. ASSUME NEW expired \in SUBSET Keys, Reap(expired)
          PROVE  Admits
      BY <2>8 DEF Reap
    <2>9. CASE Shutdown
      BY <2>9 DEF Shutdown
    <2>10. QED
      BY <2>1, <2>2, <2>3, <2>4, <2>5, <2>6, <2>7, <2>8, <2>9 DEF RegistryNext
  <1>2. QED
    BY <1>1, RegistryTypes, PTL DEF RegistrySpec, StoppingAdmitsNothing

-----------------------------------------------------------------------------
(* Actors and messages *)

LEMMA SomeKey == (CHOOSE k \in Keys : TRUE) \in Keys
  BY SessionsAssumption

LEMMA UnbornType ==
  /\ Unborn \in ActorState
  /\ \A k \in Keys : [Unborn EXCEPT !.key = k, !.at = "gone"] \in ActorState
  BY SomeKey DEF Unborn, ActorState

LEMMA NewActorType ==
  ASSUME NEW k \in Keys, NEW reserved \in BOOLEAN
  PROVE  NewActor(k, reserved) \in ActorState
  BY SomeKey DEF NewActor, Unborn, ActorState

LEMMA SettledType ==
  ASSUME NEW a \in ActorState
  PROVE  Settled(a) \in ActorState
  BY DEF Settled, Resting, ActorState

LEMMA AnsweringType ==
  ASSUME NEW a \in ActorState
  PROVE  Answering(a) \in ActorState
  <1>1. [a EXCEPT !.at = "replying"] \in ActorState
    BY DEF ActorState
  <1>2. QED
    BY <1>1, SettledType DEF Answering

LEMMA CancelledType ==
  ASSUME NEW a \in ActorState, NEW s
  PROVE  Cancelled(a, s) \in ActorState
  BY DEF Cancelled, ActorState

LEMMA StartRoundType ==
  ASSUME NEW a \in ActorState
  PROVE  StartRound(a) \in ActorState
  BY DEF StartRound, ActorState

\* What the actor writes on itself before it answers.
LEMMA MarkedType ==
  ASSUME NEW a \in ActorState, NEW c \in Clients \cup {Nobody}
  PROVE  /\ [a EXCEPT !.lease = c, !.out = TRUE] \in ActorState
         /\ [a EXCEPT !.launched = TRUE] \in ActorState
         /\ [a EXCEPT !.stop = TRUE] \in ActorState
         /\ [a EXCEPT !.known = TRUE] \in ActorState
         /\ [a EXCEPT !.out = FALSE] \in ActorState
         /\ [a EXCEPT !.at = "cleaning"] \in ActorState
         /\ [a EXCEPT !.at = "closing"] \in ActorState
         /\ [a EXCEPT !.at = "cleaned", !.engine = FALSE] \in ActorState
         /\ [a EXCEPT !.at = "removing", !.engine = FALSE] \in ActorState
  BY DEF ActorState

LEMMA CommandType ==
  ASSUME NEW cmd \in Commands, NEW c \in Clients \cup {Nobody}, NEW fresh \in BOOLEAN
  PROVE  Command(cmd, c, fresh) \in Message /\ Plain(cmd) \in Message
  BY DEF Command, Plain, Message

Mailboxes ==
  mailbox \in [Streams -> Seq(Message)] /\ \A s \in Streams : Len(mailbox[s]) <= MailboxLimit

\* A send keeps the mailbox within its bound,
LEMMA PutType ==
  ASSUME Mailboxes, NEW s \in Streams, NEW command \in Message, Put(s, command)
  PROVE  Mailboxes'
  <1> USE DEF Mailboxes
  <1>1. mailbox[s] \in Seq(Message) /\ Len(mailbox[s]) + 1 <= MailboxLimit
    BY SessionsAssumption DEF Put, HasRoom
  <1>2. Append(mailbox[s], command) \in Seq(Message)
        /\ Len(Append(mailbox[s], command)) = Len(mailbox[s]) + 1
    BY <1>1
  <1>3. mailbox' = [mailbox EXCEPT ![s] = Append(mailbox[s], command)]
    BY DEF Put
  <1>4. QED
    BY <1>1, <1>2, <1>3

\* and so does the actor that takes a command.
LEMMA TakesType ==
  ASSUME Mailboxes, NEW s \in Streams, NEW cmd, Takes(s, cmd)
  PROVE  Mailboxes' /\ Head(mailbox[s]) \in Message
  <1> USE DEF Mailboxes
  <1>1. mailbox[s] \in Seq(Message) /\ mailbox[s] # <<>> /\ Len(mailbox[s]) <= MailboxLimit
    BY DEF Takes
  <1>2. /\ Tail(mailbox[s]) \in Seq(Message) /\ Head(mailbox[s]) \in Message
        /\ Len(Tail(mailbox[s])) = Len(mailbox[s]) - 1 /\ Len(mailbox[s]) \in Nat
    BY <1>1
  <1>3. Len(Tail(mailbox[s])) <= MailboxLimit
    BY <1>1, <1>2, SessionsAssumption
  <1>4. mailbox' = [mailbox EXCEPT ![s] = Tail(mailbox[s])]
    BY DEF Takes
  <1>5. QED
    BY <1>2, <1>3, <1>4

Actors == actors \in [Streams -> ActorState]

LEMMA BecomesType ==
  ASSUME Actors, NEW s \in Streams, NEW a \in ActorState, Becomes(s, a)
  PROVE  Actors'
  BY DEF Actors, Becomes

Tasks == tasks \in [Streams -> {"none", "launching", "running", "cancelled", "ended"}]

LEMMA CancelTaskType ==
  ASSUME Tasks, NEW s \in Streams, NEW a, CancelTask(a, s)
  PROVE  Tasks'
  BY DEF Tasks, CancelTask

Connections ==
  /\ conns \in [Clients -> Connection]
  /\ \A c \in Clients :
       /\ Len(conns[c].input) <= InputLimit
       /\ conns[c].at \in {"attaching", "bound", "leaving"} => conns[c].stream \in Streams

LEMMA ConnectionStep ==
  ASSUME Connections, NEW c \in Clients, NEW next \in Connection,
         conns' = [conns EXCEPT ![c] = next],
         Len(next.input) <= InputLimit,
         next.at \in {"attaching", "bound", "leaving"} => next.stream \in Streams
  PROVE  Connections'
  BY DEF Connections

Pending == stops \subseteq Streams /\ internal \in Streams \cup {NoStream}

LEMMA TypeParts ==
  /\ SessionsTypeOK <=> Actors /\ Mailboxes /\ Tasks /\ Connections /\ Pending
  /\ SessionsTypeOK' <=> Actors' /\ Mailboxes' /\ Tasks' /\ Connections' /\ Pending'
  BY DEF SessionsTypeOK, Actors, Mailboxes, Tasks, Connections, Pending

-----------------------------------------------------------------------------
(* Connections *)

LEMMA UnboundType ==
  ASSUME Connections, NEW c \in Clients
  PROVE  /\ Unbound(c) \in Connection /\ Done \in Connection
         /\ Len(Unbound(c).input) <= InputLimit /\ Len(Done.input) <= InputLimit
         /\ Unbound(c).at = "idle" /\ Done.at = "done"
  <1>1. conns[c].open \in BOOLEAN
    BY DEF Connections, Connection
  <1>2. Fresh \in Connection /\ Fresh.input = <<>> /\ Fresh.at = "idle"
    BY SomeKey DEF Fresh, Connection
  <1>3. /\ Unbound(c) \in Connection /\ Unbound(c).input = <<>> /\ Unbound(c).at = "idle"
        /\ Done \in Connection /\ Done.input = <<>> /\ Done.at = "done"
    BY <1>1, <1>2 DEF Unbound, Done, Connection
  <1>4. QED
    BY <1>3, SessionsAssumption

LEMMA OpenType ==
  ASSUME RegistryTypeOK, SessionsTypeOK, NEW c \in Clients, NEW k \in Keys,
         NEW fresh \in BOOLEAN, Open(c, k, fresh)
  PROVE  SessionsTypeOK'
  <1> USE TypeParts
  <1>1. conns[c] \in Connection /\ Len(conns[c].input) <= InputLimit
    BY DEF Connections
  <1>2. ASSUME Lease(k, c),
               conns' = [conns EXCEPT ![c].at = "attaching", ![c].key = k,
                                      ![c].fresh = fresh, ![c].stream = entries[k].stream]
        PROVE  Connections'
    <2> DEFINE next == [conns[c] EXCEPT !.at = "attaching", !.key = k, !.fresh = fresh,
                                        !.stream = entries[k].stream]
    <2>1. entries[k].stream \in Streams
      BY <1>2 DEF Lease, Present, RegistryTypeOK, Entry
    <2>2. next \in Connection /\ Len(next.input) <= InputLimit /\ next.stream \in Streams
      BY <1>1, <2>1 DEF Connection
    <2>3. conns' = [conns EXCEPT ![c] = next]
      BY <1>2 DEF Connections
    <2> HIDE DEF next
    <2>4. QED
      BY <2>2, <2>3, ConnectionStep
  <1>3. ASSUME conns' = [conns EXCEPT ![c].at = "loading", ![c].key = k, ![c].fresh = TRUE]
        PROVE  Connections'
    <2> DEFINE next == [conns[c] EXCEPT !.at = "loading", !.key = k, !.fresh = TRUE]
    <2>1. next \in Connection /\ Len(next.input) <= InputLimit /\ next.at = "loading"
      BY <1>1 DEF Connection
    <2>2. conns' = [conns EXCEPT ![c] = next]
      BY <1>3 DEF Connections
    <2> HIDE DEF next
    <2>3. QED
      BY <2>1, <2>2, ConnectionStep
  <1>4. Connections'
    BY <1>2, <1>3 DEF Open
  <1>5. Actors' /\ Mailboxes' /\ Tasks' /\ Pending'
    BY DEF Open, Actors, Mailboxes, Tasks, Pending
  <1>6. QED
    BY <1>4, <1>5

LEMMA LoadedType ==
  ASSUME RegistryTypeOK, SessionsTypeOK, NEW c \in Clients, Loaded(c)
  PROVE  SessionsTypeOK'
  <1> USE TypeParts
  <1> DEFINE k == conns[c].key
  <1>1. conns[c] \in Connection /\ Len(conns[c].input) <= InputLimit /\ k \in Keys
    BY DEF Connections, Connection
  <1>2. ASSUME NEW s \in Streams,
               conns' = [conns EXCEPT ![c].at = "attaching", ![c].stream = s]
        PROVE  Connections'
    <2> DEFINE next == [conns[c] EXCEPT !.at = "attaching", !.stream = s]
    <2>1. next \in Connection /\ Len(next.input) <= InputLimit /\ next.stream \in Streams
      BY <1>1 DEF Connection
    <2>2. conns' = [conns EXCEPT ![c] = next]
      BY <1>2 DEF Connections
    <2> HIDE DEF next
    <2>3. QED
      BY <2>1, <2>2, ConnectionStep
  <1>3. Mailboxes' /\ Tasks' /\ Pending'
    BY DEF Loaded, Mailboxes, Tasks, Pending
  <1>4. CASE /\ Lease(k, c) /\ UNCHANGED actors
             /\ conns' = [conns EXCEPT ![c].at = "attaching", ![c].stream = entries[k].stream]
    <2>1. entries[k].stream \in Streams
      BY <1>1, <1>4 DEF Lease, Present, RegistryTypeOK, Entry
    <2>2. Connections' /\ Actors'
      BY <1>2, <1>4, <2>1 DEF Actors
    <2>3. QED
      BY <1>3, <2>2
  <1>5. ASSUME NEW s \in Streams,
               actors' = [actors EXCEPT ![s] = NewActor(k, FALSE)],
               conns' = [conns EXCEPT ![c].at = "attaching", ![c].stream = s]
        PROVE  SessionsTypeOK'
    <2>1. Actors'
      BY <1>1, <1>5, NewActorType DEF Actors
    <2>2. QED
      BY <1>2, <1>3, <1>5, <2>1
  <1>6. CASE conns' = [conns EXCEPT ![c] = Unbound(c)] /\ UNCHANGED actors
    <2>1. Connections' /\ Actors'
      BY <1>6, UnboundType, ConnectionStep DEF Actors
    <2>2. QED
      BY <1>3, <2>1
  <1>7. QED
    BY <1>4, <1>5, <1>6 DEF Loaded

\* A request is read: the queue of the connection keeps to its bound.
LEMMA ClientSendsType ==
  ASSUME SessionsTypeOK, NEW c \in Clients, NEW request \in Requests,
         ClientSends(c, request)
  PROVE  SessionsTypeOK'
  <1> USE TypeParts
  <1> DEFINE next == [conns[c] EXCEPT !.input = Append(conns[c].input, request)]
  <1>1. /\ conns[c] \in Connection /\ conns[c].input \in Seq(Requests)
        /\ conns[c].at = "bound" /\ conns[c].stream \in Streams
        /\ Len(conns[c].input) < InputLimit
    BY DEF Connections, Connection, ClientSends
  <1>2. /\ Append(conns[c].input, request) \in Seq(Requests)
        /\ Len(Append(conns[c].input, request)) <= InputLimit
    BY <1>1, SessionsAssumption
  <1>3. /\ next \in Connection /\ next.stream \in Streams
        /\ next.input = Append(conns[c].input, request)
    BY <1>1, <1>2 DEF Connection
  <1>4. conns' = [conns EXCEPT ![c] = next]
    BY DEF ClientSends, Connections
  <1>5. Actors' /\ Mailboxes' /\ Tasks' /\ Pending'
    BY DEF ClientSends, Actors, Mailboxes, Tasks, Pending
  <1> HIDE DEF next
  <1>6. QED
    BY <1>2, <1>3, <1>4, <1>5, ConnectionStep

LEMMA AttachType ==
  ASSUME SessionsTypeOK, NEW c \in Clients, Attach(c)
  PROVE  SessionsTypeOK'
  <1> USE TypeParts
  <1> DEFINE s == conns[c].stream
  <1>1. /\ conns[c] \in Connection /\ Len(conns[c].input) <= InputLimit
        /\ s \in Streams /\ conns[c].fresh \in BOOLEAN
    BY DEF Connections, Connection, Attach
  <1>2. Actors' /\ Tasks' /\ Pending'
    BY DEF Attach, Actors, Tasks, Pending
  <1>3. CASE Put(s, Command("attach", c, conns[c].fresh))
             /\ conns' = [conns EXCEPT ![c].at = "bound"]
    <2> DEFINE next == [conns[c] EXCEPT !.at = "bound"]
    <2>1. next \in Connection /\ Len(next.input) <= InputLimit /\ next.stream \in Streams
      BY <1>1 DEF Connection
    <2>2. conns' = [conns EXCEPT ![c] = next]
      BY <1>3 DEF Connections
    <2>3. Command("attach", c, conns[c].fresh) \in Message
      BY <1>1, CommandType DEF Commands
    <2>4. Mailboxes'
      BY <1>1, <1>3, <2>3, PutType
    <2> HIDE DEF next
    <2>5. QED
      BY <1>2, <2>1, <2>2, <2>4, ConnectionStep
  <1>4. CASE conns' = [conns EXCEPT ![c] = Unbound(c)] /\ UNCHANGED mailbox
    <2>1. Connections' /\ Mailboxes'
      BY <1>4, UnboundType, ConnectionStep DEF Mailboxes
    <2>2. QED
      BY <1>2, <2>1
  <1>5. QED
    BY <1>3, <1>4 DEF Attach

LEMMA ForwardType ==
  ASSUME SessionsTypeOK, NEW c \in Clients, Forward(c)
  PROVE  SessionsTypeOK'
  <1> USE TypeParts
  <1> DEFINE s == conns[c].stream
             request == Head(conns[c].input)
  <1>1. /\ conns[c] \in Connection /\ Len(conns[c].input) <= InputLimit
        /\ conns[c].input \in Seq(Requests) /\ s \in Streams
    BY DEF Connections, Connection, Forward
  <1>2. Actors' /\ Tasks' /\ Pending'
    BY DEF Forward, Actors, Tasks, Pending
  <1>3. ASSUME conns[c].input # <<>>, Put(s, Command(request, c, FALSE)),
               conns' = [conns EXCEPT ![c].input = Tail(conns[c].input),
                                      ![c].at = IF request = "close" THEN "leaving" ELSE "bound"]
        PROVE  SessionsTypeOK'
    <2> DEFINE next == [conns[c] EXCEPT
                          !.input = Tail(conns[c].input),
                          !.at = IF request = "close" THEN "leaving" ELSE "bound"]
    <2>1. /\ Tail(conns[c].input) \in Seq(Requests) /\ request \in Requests
          /\ Len(Tail(conns[c].input)) <= InputLimit
      BY <1>1, <1>3, SessionsAssumption
    <2>2. next \in Connection /\ next.input = Tail(conns[c].input) /\ next.stream \in Streams
      BY <1>1, <2>1 DEF Connection
    <2>3. conns' = [conns EXCEPT ![c] = next]
      BY <1>3 DEF Connections
    <2>4. Command(request, c, FALSE) \in Message
      BY <2>1, CommandType DEF Commands
    <2>5. Mailboxes'
      BY <1>1, <1>3, <2>4, PutType
    <2> HIDE DEF next
    <2>6. QED
      BY <1>2, <2>1, <2>2, <2>3, <2>5, ConnectionStep
  <1>4. ASSUME conns' = [conns EXCEPT ![c].at = "leaving", ![c].input = <<>>],
               UNCHANGED mailbox
        PROVE  SessionsTypeOK'
    <2> DEFINE next == [conns[c] EXCEPT !.at = "leaving", !.input = <<>>]
    <2>0. <<>> \in Seq(Requests) /\ Len(<<>>) <= InputLimit
      BY SessionsAssumption
    <2>1. next \in Connection /\ next.input = <<>> /\ next.stream \in Streams
      BY <1>1, <2>0 DEF Connection
    <2>2. conns' = [conns EXCEPT ![c] = next]
      BY <1>4 DEF Connections
    <2>3. Mailboxes'
      BY <1>4 DEF Mailboxes
    <2> HIDE DEF next
    <2>4. QED
      BY <1>2, <2>0, <2>1, <2>2, <2>3, ConnectionStep
  <1>5. QED
    BY <1>3, <1>4 DEF Forward

LEMMA LeaveType ==
  ASSUME SessionsTypeOK, NEW c \in Clients, Leave(c)
  PROVE  SessionsTypeOK'
  <1> USE TypeParts
  <1> DEFINE s == conns[c].stream
  <1>1. s \in Streams
    BY DEF Connections, Leave
  <1>2. Command("detach", c, FALSE) \in Message
    BY CommandType DEF Commands
  <1>3. Mailboxes'
    <2>1. CASE Put(s, Command("detach", c, FALSE))
      BY <1>1, <1>2, <2>1, PutType
    <2>2. CASE UNCHANGED mailbox
      BY <2>2 DEF Mailboxes
    <2>3. QED
      BY <2>1, <2>2 DEF Leave
  <1>4. conns' = [conns EXCEPT ![c] = Done]
    BY DEF Leave
  <1>5. Connections'
    BY <1>4, UnboundType, ConnectionStep
  <1>6. Actors' /\ Tasks' /\ Pending'
    BY DEF Leave, Actors, Tasks, Pending
  <1>7. QED
    BY <1>3, <1>5, <1>6

\* A connection that is closed, by either side.
LEMMA HangUpType ==
  ASSUME Connections, NEW c \in Clients, HangUp(c)
  PROVE  Connections'
  <1> DEFINE next == [conns[c] EXCEPT !.open = FALSE]
  <1>1. /\ conns[c] \in Connection /\ Len(conns[c].input) <= InputLimit
        /\ conns[c].at \in {"attaching", "bound", "leaving"} => conns[c].stream \in Streams
    BY DEF Connections
  <1>2. next \in Connection /\ next.input = conns[c].input /\ next.at = conns[c].at
        /\ next.stream = conns[c].stream
    BY <1>1 DEF Connection
  <1>3. conns' = [conns EXCEPT ![c] = next]
    BY DEF HangUp, Connections
  <1> HIDE DEF next
  <1>4. QED
    BY <1>1, <1>2, <1>3, ConnectionStep

LEMMA DisconnectType ==
  ASSUME SessionsTypeOK, NEW c \in Clients, Disconnect(c)
  PROVE  SessionsTypeOK'
  <1> USE TypeParts
  <1>1. Connections'
    BY HangUpType DEF Disconnect, HangUp
  <1>2. Actors' /\ Mailboxes' /\ Tasks' /\ Pending'
    BY DEF Disconnect, Actors, Mailboxes, Tasks, Pending
  <1>3. QED
    BY <1>1, <1>2

-----------------------------------------------------------------------------
(* Rounds *)

LEMMA RoundType ==
  ASSUME SessionsTypeOK, NEW s \in Streams, Round(s) \/ Emit(s) \/ Complete(s)
  PROVE  SessionsTypeOK'
  <1> USE TypeParts
  <1>1. \A cmd \in {"started", "finished", "output"} : Plain(cmd) \in Message
    BY CommandType DEF Commands
  <1>2. Mailboxes'
    <2>1. CASE UNCHANGED mailbox
      BY <2>1 DEF Mailboxes
    <2>2. ASSUME NEW cmd \in {"started", "finished", "output"}, Put(s, Plain(cmd))
          PROVE  Mailboxes'
      BY <1>1, <2>2, PutType
    <2>3. QED
      BY <2>1, <2>2 DEF Round, Launch, Unwind, Report, Emit, Complete
  <1>3. Tasks'
    BY DEF Tasks, Round, Launch, Unwind, Report, Emit, Complete
  <1>4. Actors' /\ Connections' /\ Pending'
    BY DEF Round, Launch, Unwind, Report, Emit, Complete, Actors, Connections, Pending
  <1>5. QED
    BY <1>2, <1>3, <1>4

-----------------------------------------------------------------------------
(* The actor *)

\* A command is taken: only the actor and the task of its round change.
LEMMA TookType ==
  ASSUME SessionsTypeOK, NEW s \in Streams, NEW cmd, Takes(s, cmd), Actors', Tasks'
  PROVE  SessionsTypeOK'
  <1>1. Mailboxes'
    BY TypeParts, TakesType
  <1>2. Connections' /\ Pending'
    BY TypeParts DEF Takes, Connections, Pending
  <1>3. QED
    BY <1>1, <1>2, TypeParts

LEMMA StartType ==
  ASSUME Actors, Tasks, NEW s \in Streams, NEW started \in ActorState,
         NEW refused \in ActorState, Start(s, started, refused)
  PROVE  Actors' /\ Tasks'
  <1>1. Actors'
    BY BecomesType DEF Start
  <1>2. Tasks'
    BY DEF Start, Tasks
  <1>3. QED
    BY <1>1, <1>2

\* Commands that may start a round.
LEMMA StartersType ==
  ASSUME SessionsTypeOK, NEW s \in Streams,
         TakeAttach(s) \/ TakeChat(s) \/ TakeInternal(s)
  PROVE  SessionsTypeOK'
  <1> USE TypeParts
  <1>1. actors[s] \in ActorState
    BY DEF Actors
  <1>2. CASE TakeAttach(s)
    <2> DEFINE a == [actors[s] EXCEPT !.lease = Head(mailbox[s]).client, !.out = TRUE]
               b == [a EXCEPT !.launched = TRUE]
    <2>1. Takes(s, "attach")
      BY <1>2 DEF TakeAttach
    <2>2. Head(mailbox[s]).client \in Clients \cup {Nobody}
      BY <2>1, TakesType DEF Message
    <2>3. a \in ActorState
      BY <1>1, <2>2, MarkedType
    <2>4. \/ Start(s, Answering(StartRound(b)), Answering(b))
          \/ Becomes(s, Answering(a)) /\ UNCHANGED tasks
      BY <1>2 DEF TakeAttach
    <2> HIDE DEF a
    <2>5. b \in ActorState
      BY <2>3, MarkedType
    <2> HIDE DEF b
    <2>6. /\ Answering(StartRound(b)) \in ActorState /\ Answering(b) \in ActorState
          /\ Answering(a) \in ActorState
      BY <2>3, <2>5, AnsweringType, StartRoundType
    <2>7. Actors' /\ Tasks'
      BY <2>4, <2>6, StartType, BecomesType DEF Tasks
    <2>8. QED
      BY <2>1, <2>7, TookType
  <1>3. CASE TakeChat(s)
    <2>1. Takes(s, "chat")
      BY <1>3 DEF TakeChat
    <2>2. \/ Start(s, Answering(StartRound(actors[s])), Answering(actors[s]))
          \/ Becomes(s, Answering(actors[s])) /\ UNCHANGED tasks
      BY <1>3 DEF TakeChat
    <2>3. /\ Answering(StartRound(actors[s])) \in ActorState
          /\ Answering(actors[s]) \in ActorState
      BY <1>1, AnsweringType, StartRoundType
    <2>4. Actors' /\ Tasks'
      BY <2>2, <2>3, StartType, BecomesType DEF Tasks
    <2>5. QED
      BY <2>1, <2>4, TookType
  <1>4. CASE TakeInternal(s)
    <2>1. [actors[s] EXCEPT !.stop = TRUE] \in ActorState
      BY <1>1, MarkedType
    <2>2. /\ Settled(StartRound(actors[s])) \in ActorState
          /\ Settled([actors[s] EXCEPT !.stop = TRUE]) \in ActorState
      BY <1>1, <2>1, SettledType, StartRoundType
    <2>3. Takes(s, "internal") /\ Actors' /\ Tasks'
      BY <1>4, <2>2, StartType DEF TakeInternal
    <2>4. QED
      BY <2>3, TookType
  <1>5. QED
    BY <1>2, <1>3, <1>4

\* What requests, and the round's own reports, may make of an actor.
Outcome(a, s) ==
  /\ \/ Becomes(s, Answering(a)) \/ Becomes(s, Settled(a))
     \/ Becomes(s, Answering(Cancelled(a, s))) \/ Becomes(s, Settled(Cancelled(a, s)))
  /\ CancelTask(a, s) \/ UNCHANGED tasks

LEMMA OutcomeType ==
  ASSUME Actors, Tasks, NEW s \in Streams, NEW a \in ActorState, Outcome(a, s)
  PROVE  Actors' /\ Tasks'
  <1>1. Cancelled(a, s) \in ActorState
    BY CancelledType
  <1>2. /\ Answering(a) \in ActorState /\ Settled(a) \in ActorState
        /\ Answering(Cancelled(a, s)) \in ActorState /\ Settled(Cancelled(a, s)) \in ActorState
    BY <1>1, AnsweringType, SettledType
  <1>3. Actors'
    BY <1>2, BecomesType DEF Outcome
  <1>4. Tasks'
    BY CancelTaskType DEF Outcome, Tasks
  <1>5. QED
    BY <1>3, <1>4

LEMMA ReportsType ==
  ASSUME SessionsTypeOK, NEW s \in Streams,
         \/ TakeCancel(s) \/ TakeStarted(s) \/ TakeFinished(s)
         \/ TakeDetach(s) \/ TakeStop(s) \/ TakeOutput(s)
  PROVE  SessionsTypeOK'
  <1> USE TypeParts
  <1>1. actors[s] \in ActorState
    BY DEF Actors
  <1>2. CASE TakeCancel(s) \/ TakeOutput(s)
    <2>1. Outcome(actors[s], s)
      BY <1>2 DEF TakeCancel, TakeOutput, Outcome
    <2>2. Takes(s, "cancel") \/ Takes(s, "output")
      BY <1>2 DEF TakeCancel, TakeOutput
    <2>3. QED
      BY <1>1, <2>1, <2>2, OutcomeType, TookType
  <1>3. CASE TakeStarted(s)
    <2> DEFINE a == [actors[s] EXCEPT !.known = TRUE]
    <2>1. a \in ActorState
      BY <1>1, MarkedType
    <2>2. Takes(s, "started") /\ Outcome(a, s)
      BY <1>3 DEF TakeStarted, Outcome
    <2> HIDE DEF a
    <2>3. QED
      BY <2>1, <2>2, OutcomeType, TookType
  <1>4. CASE TakeFinished(s)
    <2> DEFINE a == [actors[s] EXCEPT
                       !.round = FALSE, !.cancelling = FALSE, !.known = FALSE,
                       !.stop = actors[s].stop \/ Unattended(actors[s].key)]
    <2>1. (actors[s].stop \/ Unattended(actors[s].key)) \in BOOLEAN
      BY <1>1 DEF ActorState, Unattended
    <2>2. a \in ActorState
      BY <1>1, <2>1 DEF ActorState
    <2>3. Takes(s, "finished") /\ Outcome(a, s)
      BY <1>4 DEF TakeFinished, Outcome
    <2> HIDE DEF a
    <2>4. QED
      BY <2>2, <2>3, OutcomeType, TookType
  <1>5. CASE TakeDetach(s)
    <2> DEFINE a == [actors[s] EXCEPT !.out = FALSE]
    <2>1. a \in ActorState
      BY <1>1, MarkedType
    <2>2. Takes(s, "detach") /\ (Outcome(a, s) \/ Outcome(actors[s], s))
      BY <1>5 DEF TakeDetach, Outcome
    <2> HIDE DEF a
    <2>3. QED
      BY <1>1, <2>1, <2>2, OutcomeType, TookType
  <1>6. CASE TakeStop(s)
    <2> DEFINE a == [actors[s] EXCEPT !.stop = TRUE]
    <2>1. a \in ActorState
      BY <1>1, MarkedType
    <2>2. Takes(s, "stop") /\ Outcome(a, s)
      BY <1>6 DEF TakeStop, Outcome
    <2> HIDE DEF a
    <2>3. QED
      BY <2>1, <2>2, OutcomeType, TookType
  <1>7. QED
    BY <1>2, <1>3, <1>4, <1>5, <1>6

LEMMA RequestsType ==
  ASSUME SessionsTypeOK, NEW s \in Streams, TakeClean(s) \/ TakeClose(s)
  PROVE  SessionsTypeOK'
  <1> USE TypeParts
  <1>1. actors[s] \in ActorState
    BY DEF Actors
  <1>2. Takes(s, "clean") \/ Takes(s, "close")
    BY DEF TakeClean, TakeClose
  <1>3. CASE TakeClean(s)
    <2>1. [actors[s] EXCEPT !.at = "cleaning"] \in ActorState /\ Answering(actors[s]) \in ActorState
      BY <1>1, MarkedType, AnsweringType
    <2>2. Actors' /\ Tasks'
      BY <1>3, <2>1, BecomesType DEF TakeClean, Tasks
    <2>3. QED
      BY <1>2, <2>2, TookType
  <1>4. CASE TakeClose(s)
    <2>1. Cancelled(actors[s], s) \in ActorState
      BY <1>1, CancelledType
    <2>2. /\ [Cancelled(actors[s], s) EXCEPT !.at = "closing"] \in ActorState
          /\ [actors[s] EXCEPT !.at = "closing"] \in ActorState
      BY <1>1, <2>1, MarkedType
    <2>3. Actors'
      BY <1>4, <2>2, BecomesType DEF TakeClose
    <2>4. Tasks'
      BY <1>4, CancelTaskType DEF TakeClose, Tasks
    <2>5. QED
      BY <1>2, <2>3, <2>4, TookType
  <1>5. QED
    BY <1>3, <1>4

\* The steps between two commands.
LEMMA BetweenType ==
  ASSUME SessionsTypeOK, NEW s \in Streams, Clean(s) \/ Reply(s) \/ Exit(s)
  PROVE  SessionsTypeOK'
  <1> USE TypeParts
  <1>1. actors[s] \in ActorState
    BY DEF Actors
  <1>2. Tasks' /\ Pending'
    BY DEF Clean, Reply, Exit, Tasks, Pending
  <1>3. CASE Clean(s)
    <2>1. /\ [actors[s] EXCEPT !.at = "cleaned", !.engine = FALSE] \in ActorState
          /\ [actors[s] EXCEPT !.stop = TRUE] \in ActorState
      BY <1>1, MarkedType
    <2>2. Answering(actors[s]) \in ActorState
          /\ Answering([actors[s] EXCEPT !.stop = TRUE]) \in ActorState
      BY <1>1, <2>1, AnsweringType
    <2>3. Actors'
      BY <1>3, <2>1, <2>2, BecomesType DEF Clean
    <2>4. Mailboxes' /\ Connections'
      BY <1>3 DEF Clean, Mailboxes, Connections
    <2>5. QED
      BY <1>2, <2>3, <2>4
  <1>4. CASE Reply(s)
    <2>1. [actors[s] EXCEPT !.out = FALSE] \in ActorState
      BY <1>1, MarkedType
    <2>2. Settled([actors[s] EXCEPT !.out = FALSE]) \in ActorState
          /\ Settled(actors[s]) \in ActorState
      BY <1>1, <2>1, SettledType
    <2>3. Actors'
      BY <1>4, <2>2, BecomesType DEF Reply
    <2>4. Mailboxes'
      BY <1>4 DEF Reply, Mailboxes
    <2>5. Connections'
      <3>1. CASE UNCHANGED conns
        BY <3>1 DEF Connections
      <3>2. CASE HangUp(actors[s].lease) /\ actors[s].lease \in Clients
        BY <3>2, HangUpType
      <3>3. CASE HangUp(actors[s].lease) /\ actors[s].lease \notin Clients
        BY <3>3 DEF HangUp, Connections
      <3>4. QED
        BY <1>4, <3>1, <3>2, <3>3 DEF Reply
    <2>6. QED
      BY <1>2, <2>3, <2>4, <2>5
  <1>5. CASE Exit(s)
    <2>1. actors[s].key \in Keys
      BY <1>1 DEF ActorState
    <2>2. [actors[s] EXCEPT !.at = "removing", !.engine = FALSE] \in ActorState
          /\ [Unborn EXCEPT !.key = actors[s].key, !.at = "gone"] \in ActorState
      BY <1>1, <2>1, MarkedType, UnbornType
    <2>3. Actors'
      BY <1>5, <2>2, BecomesType DEF Exit
    <2>4. <<>> \in Seq(Message) /\ Len(<<>>) <= MailboxLimit
      BY SessionsAssumption
    <2>5. Mailboxes'
      BY <1>5, <2>4 DEF Exit, Mailboxes
    <2>6. Connections'
      BY <1>5 DEF Exit, Connections
    <2>7. QED
      BY <1>2, <2>3, <2>5, <2>6
  <1>6. QED
    BY <1>3, <1>4, <1>5

-----------------------------------------------------------------------------
(* The server *)

LEMMA ServerType ==
  ASSUME RegistryTypeOK, SessionsTypeOK,
         \/ \E k \in TimerKeys : FireTimer(k)
         \/ Server \/ ReapIdle \/ StopAll
  PROVE  SessionsTypeOK'
  <1> USE TypeParts
  <1>1. Tasks' /\ Connections'
    BY DEF FireTimer, Server, SendInternal, SendStop, ReapIdle, StopAll, Tasks, Connections
  <1>2. \A ks \in SUBSET Present : StreamsOf(ks) \subseteq Streams
    BY DEF StreamsOf, Present, RegistryTypeOK, Entry
  <1>3. \A cmd \in {"internal", "stop"} : Plain(cmd) \in Message
    BY CommandType DEF Commands
  <1>4. ASSUME NEW k \in TimerKeys, FireTimer(k)
        PROVE  SessionsTypeOK'
    <2>1. PICK s \in Streams : /\ actors' = [actors EXCEPT ![s] = NewActor(k, TRUE)]
                               /\ internal' = s
      BY <1>4 DEF FireTimer
    <2>2. NewActor(k, TRUE) \in ActorState
      BY NewActorType, SessionsAssumption
    <2>3. Actors' /\ Mailboxes' /\ Pending'
      BY <1>4, <2>1, <2>2 DEF FireTimer, Actors, Mailboxes, Pending
    <2>4. QED
      BY <1>1, <2>3
  <1>5. CASE SendInternal
    <2>1. internal \in Streams
      BY <1>5 DEF SendInternal, Pending
    <2>2. CASE Put(internal, Plain("internal"))
      <3>1. Mailboxes'
        BY <1>3, <2>1, <2>2, PutType
      <3>2. QED
        BY <1>1, <1>5, <3>1 DEF SendInternal, Actors, Pending
    <2>3. CASE UNCHANGED mailbox
      BY <1>1, <1>5, <2>3 DEF SendInternal, Actors, Pending, Mailboxes
    <2>4. QED
      BY <1>5, <2>2, <2>3 DEF SendInternal
  <1>6. ASSUME NEW s \in Streams, SendStop(s)
        PROVE  SessionsTypeOK'
    <2>1. Actors' /\ Pending'
      BY <1>6 DEF SendStop, Actors, Pending
    <2>2. Mailboxes'
      <3>1. CASE Put(s, Plain("stop"))
        BY <1>3, <3>1, PutType
      <3>2. CASE UNCHANGED mailbox
        BY <3>2 DEF Mailboxes
      <3>3. QED
        BY <1>6, <3>1, <3>2 DEF SendStop
    <2>3. QED
      BY <1>1, <2>1, <2>2
  <1>7. CASE ReapIdle
    <2>1. PICK expired \in SUBSET Keys :
            Reap(expired) /\ stops' = stops \cup StreamsOf(expired)
      BY <1>7 DEF ReapIdle
    <2>2. StreamsOf(expired) \subseteq Streams
      BY <1>2, <2>1 DEF Reap, Expirable
    <2>3. QED
      BY <1>1, <1>7, <2>1, <2>2 DEF ReapIdle, Actors, Mailboxes, Pending
  <1>8. CASE StopAll
    BY <1>1, <1>2, <1>8 DEF StopAll, Actors, Mailboxes, Pending
  <1>9. QED
    BY <1>4, <1>5, <1>6, <1>7, <1>8 DEF Server

-----------------------------------------------------------------------------
(* The registry under all this *)

\* The steps of connections,
LEMMA HandlerImplements ==
  ASSUME SessionsTypeOK, NEW c \in Clients, Handler(c) \/ Client(c)
  PROVE  [RegistryNext]_registry_vars
  <1>1. conns[c].key \in Keys
    BY DEF SessionsTypeOK, Connection
  <1>2. CASE Loaded(c)
    BY <1>1, <1>2 DEF Loaded, RegistryNext
  <1>3. CASE Attach(c)
    <2>1. conns[c].stream \in Streams
      BY <1>3 DEF SessionsTypeOK, Attach
    <2>2. QED
      BY <1>1, <1>3, <2>1 DEF Attach, RegistryNext
  <1>4. CASE Forward(c) \/ Leave(c)
    BY <1>4 DEF Forward, Leave
  <1>5. ASSUME NEW k \in Keys, NEW fresh \in BOOLEAN, Open(c, k, fresh)
        PROVE  [RegistryNext]_registry_vars
    BY <1>5 DEF Open, RegistryNext
  <1>6. CASE (\E request \in Requests : ClientSends(c, request)) \/ Disconnect(c)
    BY <1>6 DEF ClientSends, Disconnect
  <1>7. QED
    BY <1>2, <1>3, <1>4, <1>5, <1>6 DEF Handler, Client

\* of actors,
LEMMA ActorImplements ==
  ASSUME SessionsTypeOK, NEW s \in Streams, Actor(s)
  PROVE  [RegistryNext]_registry_vars
  <1>1. actors[s].key \in Keys /\ actors[s].lease \in Clients \cup {Nobody}
    BY DEF SessionsTypeOK, ActorState
  <1>2. ASSUME NEW started, NEW refused, Start(s, started, refused)
        PROVE  [RegistryNext]_registry_vars
    BY <1>1, <1>2 DEF Start, RegistryNext
  <1>3. CASE TakeAttach(s)
    BY <1>2, <1>3 DEF TakeAttach
  <1>4. CASE TakeChat(s) \/ TakeInternal(s)
    BY <1>2, <1>4 DEF TakeChat, TakeInternal
  <1>5. CASE TakeCancel(s) \/ TakeClose(s) \/ TakeStarted(s) \/ TakeStop(s) \/ TakeOutput(s)
    BY <1>5 DEF TakeCancel, TakeClose, TakeStarted, TakeStop, TakeOutput
  <1>6. CASE TakeClean(s) \/ Clean(s)
    BY <1>1, <1>6 DEF TakeClean, Clean, RegistryNext
  <1>7. CASE TakeFinished(s)
    BY <1>1, <1>7 DEF TakeFinished, RegistryNext
  <1>8. CASE TakeDetach(s)
    BY <1>1, <1>8 DEF TakeDetach, RegistryNext
  <1>9. CASE Reply(s) \/ Exit(s)
    BY <1>1, <1>9 DEF Reply, Exit, RegistryNext
  <1>10. QED
    BY <1>3, <1>4, <1>5, <1>6, <1>7, <1>8, <1>9 DEF Actor

\* and of all.
LEMMA StepImplements ==
  ASSUME SessionsTypeOK, [SessionsNext]_all_vars
  PROVE  [RegistryNext]_registry_vars
  <1>1. ASSUME NEW s \in Streams, Round(s) \/ Emit(s) \/ Complete(s)
        PROVE  [RegistryNext]_registry_vars
    BY <1>1 DEF Round, Launch, Unwind, Report, Emit, Complete
  <1>2. ASSUME NEW k \in TimerKeys, FireTimer(k)
        PROVE  [RegistryNext]_registry_vars
    <2>1. k \in Keys
      BY SessionsAssumption
    <2>2. QED
      BY <1>2, <2>1 DEF FireTimer, RegistryNext
  <1>3. CASE Server
    BY <1>3 DEF Server, SendInternal, SendStop
  <1>4. CASE ReapIdle \/ StopAll
    BY <1>4 DEF ReapIdle, StopAll, RegistryNext
  <1>5. CASE UNCHANGED all_vars
    BY <1>5 DEF all_vars
  <1>6. QED
    BY <1>1, <1>2, <1>3, <1>4, <1>5, HandlerImplements, ActorImplements DEF SessionsNext

LEMMA SessionsTypeStep ==
  ASSUME RegistryTypeOK, SessionsTypeOK, [SessionsNext]_all_vars
  PROVE  SessionsTypeOK'
  <1>1. ASSUME NEW c \in Clients, Handler(c)
        PROVE  SessionsTypeOK'
    BY <1>1, LoadedType, AttachType, ForwardType, LeaveType DEF Handler
  <1>2. ASSUME NEW c \in Clients, Client(c)
        PROVE  SessionsTypeOK'
    BY <1>2, OpenType, ClientSendsType, DisconnectType DEF Client
  <1>3. ASSUME NEW s \in Streams, Actor(s)
        PROVE  SessionsTypeOK'
    BY <1>3, StartersType, ReportsType, RequestsType, BetweenType DEF Actor
  <1>4. ASSUME NEW s \in Streams, Round(s) \/ Emit(s) \/ Complete(s)
        PROVE  SessionsTypeOK'
    BY <1>4, RoundType
  <1>5. CASE UNCHANGED all_vars
    BY <1>5, TypeParts
    DEF all_vars, session_vars, Actors, Mailboxes, Tasks, Connections, Pending
  <1>6. QED
    BY <1>1, <1>2, <1>3, <1>4, <1>5, ServerType DEF SessionsNext

LEMMA SessionsTypeInit == SessionsInit => RegistryInit /\ RegistryTypeOK /\ SessionsTypeOK
  <1> SUFFICES ASSUME SessionsInit
               PROVE  RegistryInit /\ RegistryTypeOK /\ SessionsTypeOK
    OBVIOUS
  <1> USE TypeParts DEF SessionsInit
  <1>1. RegistryInit /\ RegistryTypeOK
    BY AbsentType DEF RegistryInit, RegistryTypeOK
  <1>2. Fresh \in Connection /\ Fresh.at = "idle" /\ Fresh.input = <<>>
    BY SomeKey DEF Fresh, Connection
  <1>3. <<>> \in Seq(Message) /\ Len(<<>>) = 0
    OBVIOUS
  <1>4. Connections /\ Mailboxes
    BY <1>2, <1>3, SessionsAssumption DEF Connections, Mailboxes
  <1>5. Actors /\ Tasks /\ Pending
    BY UnbornType DEF Actors, Tasks, Pending
  <1>6. QED
    BY <1>1, <1>4, <1>5

\* Actors, mailboxes, connections and tasks keep their types; mailboxes and
\* the queues of connections their bounds.
THEOREM SessionsTypes == SessionsSpec => [](RegistryTypeOK /\ SessionsTypeOK)
  <1>1. RegistryTypeOK /\ SessionsTypeOK /\ [SessionsNext]_all_vars
        => RegistryTypeOK' /\ SessionsTypeOK'
    BY StepImplements, SessionsTypeStep, TypeStep
  <1>2. QED
    BY <1>1, SessionsTypeInit, PTL DEF SessionsSpec

\* Whatever actors, connections, timers and the server do between their awaits,
\* the registry sees its own operations, each under the mutex as a whole.
THEOREM SessionsImplementRegistry == SessionsSpec => RegistrySpec
  <1>1. SessionsTypeOK /\ [SessionsNext]_all_vars => [RegistryNext]_registry_vars
    BY StepImplements
  <1>2. QED
    BY <1>1, SessionsTypes, SessionsTypeInit, PTL DEF SessionsSpec, RegistrySpec

\* So what is proved of the registry holds of the service: the caps, though
\* every use of them is separated from its request by awaits,
THEOREM ServiceKeepsCaps == SessionsSpec => []CapsHold
  BY SessionsImplementRegistry, CapsAreKept, PTL

\* the exclusion of rounds by cleaning, and that what is released has no client.
THEOREM ServiceCleansAlone == SessionsSpec => [](CleaningExcludesRounds /\ ReleasedHasNoClient)
  BY SessionsImplementRegistry, CleaningExcludes, ReleasedIsFree, PTL

-----------------------------------------------------------------------------
(* The rounds, engines and leases: the invariants RoundsAreReserved,       *)
(* OneEngine, CleanedQuietly, ReleaseStrandsNobody and UsersHoldLease.     *)
(*                                                                         *)
(* None of them is inductive alone.  The invariant below says for each     *)
(* place an actor can be at whether the entry of its key is still its own, *)
(* that a reserved or running round makes that entry active, and that the  *)
(* report of a round is in the mailbox once at most and only after its     *)
(* task has ended.  The leases have an invariant of their own, further     *)
(* down: a connection is attached once and detached last, and as long as   *)
(* it needs its lease the entry of the session names it.                   *)

Held(s) == entries[actors[s].key].stream = s
Counts(s) == Held(s) /\ entries[actors[s].key].active

\* An entry belongs to the one actor that was made for it.
Owned ==
  \A k \in Keys, s \in Streams :
    entries[k].stream = s => s \in issued /\ actors[s].key = k

\* What an actor that is where it is knows of its entry.
Placed(s) ==
  LET a == actors[s]
  IN  /\ a.at \in {"waiting", "closing", "cleaning"} => Held(s)
      /\ a.at = "replying" => Held(s) \/ (a.stop /\ ~a.round)
      /\ a.at \in {"exiting", "removing"} => ~a.round
      /\ a.at \in {"cleaning", "cleaned"} =>
           ~a.round /\ ~a.reserved /\ GroupOf[a.key] \in cleaning

Rounded(s) ==
  /\ actors[s].round => Counts(s)
  /\ actors[s].reserved => Counts(s) /\ ~actors[s].round
  /\ tasks[s] # "none" => actors[s].round
  /\ actors[s].engine => Held(s)

\* The report of a round comes after its task, and once.
IsReport(s, i) == mailbox[s][i].cmd = "finished"
Reported(s) ==
  \A i \in DOMAIN mailbox[s] : IsReport(s, i) =>
    /\ actors[s].round /\ tasks[s] = "none"
    /\ \A j \in DOMAIN mailbox[s] : IsReport(s, j) => i = j

\* One actor cleans a group at a time.
Cleans(s) == actors[s].at \in {"cleaning", "cleaned"}
OneCleaner ==
  \A r, s \in Streams :
    Cleans(r) /\ Cleans(s) /\ GroupOf[actors[r].key] = GroupOf[actors[s].key] => r = s

RoundsInv ==
  /\ Owned /\ OneCleaner
  /\ \A s \in Streams : Placed(s) /\ Rounded(s) /\ Reported(s)

-----------------------------------------------------------------------------
(* What steps do to the entries of other actors *)

\* The registry's operations on leases, cleaning and stopping leave every entry
\* with its actor and its round.
Same ==
  /\ issued' = issued
  /\ \A k \in Keys : entries'[k].stream = entries[k].stream
                     /\ entries'[k].active = entries[k].active

LEMMA SameEntries ==
  ASSUME RegistryTypeOK,
         \/ UNCHANGED registry_vars
         \/ \E k \in Keys :
              \/ BeginClean(k) \/ EndClean(k) \/ Shutdown
              \/ \E expired \in SUBSET Keys : Reap(expired)
              \/ \E c \in Clients : Lease(k, c)
              \/ \E s \in Streams, c \in Clients \cup {Nobody} : Detach(k, s, c)
  PROVE  Same
  <1> USE DEF Same, RegistryTypeOK, Entry
  <1>1. ASSUME NEW k \in Keys, NEW c, NEW s, Detach(k, s, c)
        PROVE  Same
    BY <1>1 DEF Detach
  <1>2. ASSUME NEW k \in Keys, NEW c \in Clients, Lease(k, c)
        PROVE  Same
    BY <1>2 DEF Lease
  <1>3. ASSUME NEW expired \in SUBSET Keys, Reap(expired)
        PROVE  Same
    BY <1>3 DEF Reap
  <1>4. ASSUME NEW k \in Keys, BeginClean(k) \/ EndClean(k) \/ Shutdown
        PROVE  Same
    BY <1>4 DEF BeginClean, EndClean, Shutdown
  <1>5. CASE UNCHANGED registry_vars
    BY <1>5 DEF registry_vars
  <1>6. QED
    BY <1>1, <1>2, <1>3, <1>4, <1>5

\* Nothing about the actor of r, its entry or its group has changed.
Undisturbed(r) ==
  /\ actors'[r] = actors[r] /\ tasks'[r] = tasks[r] /\ mailbox'[r] = mailbox[r]
  /\ Held(r)' <=> Held(r)
  /\ Counts(r)' <=> Counts(r)
  /\ Cleans(r) /\ GroupOf[actors[r].key] \in cleaning => GroupOf[actors[r].key] \in cleaning'

\* A step of one actor, or of its round, has to restore the invariant for it.
LEMMA OneStep ==
  ASSUME RoundsInv, NEW s \in Streams, \A r \in Streams \ {s} : Undisturbed(r),
         Owned', Placed(s)', Rounded(s)', Reported(s)',
         Cleans(s)' => \/ Cleans(s) /\ actors'[s].key = actors[s].key
                       \/ GroupOf[actors'[s].key] \notin cleaning
  PROVE  RoundsInv'
  <1>1. ASSUME NEW r \in Streams \ {s}
        PROVE  Placed(r)' /\ Rounded(r)' /\ Reported(r)'
    <2>1. Placed(r) /\ Rounded(r) /\ Reported(r) /\ Undisturbed(r)
      BY DEF RoundsInv
    <2>2. Placed(r)'
      BY <2>1 DEF Placed, Undisturbed, Cleans
    <2>3. Rounded(r)'
      BY <2>1 DEF Rounded, Undisturbed
    <2>4. Reported(r)'
      BY <2>1 DEF Reported, Undisturbed, IsReport
    <2>5. QED
      BY <2>2, <2>3, <2>4
  <1>2. ASSUME NEW r \in Streams \ {s}
        PROVE  /\ Cleans(r)' <=> Cleans(r)
               /\ actors'[r].key = actors[r].key
               /\ Cleans(r) => GroupOf[actors[r].key] \in cleaning
    BY DEF RoundsInv, Undisturbed, Cleans, Placed
  <1>3. OneCleaner'
    BY <1>2 DEF OneCleaner, RoundsInv
  <1>4. QED
    BY <1>1, <1>3 DEF RoundsInv

-----------------------------------------------------------------------------
(* The mailbox *)

LEMMA PutReports ==
  ASSUME Mailboxes, NEW s \in Streams, NEW command \in Message, Put(s, command), Reported(s),
         actors'[s].round <=> actors[s].round,
         \/ /\ command.cmd # "finished"
            /\ tasks[s] = "none" => tasks'[s] = "none"
         \/ /\ command.cmd = "finished" /\ actors[s].round
            /\ tasks[s] # "none" /\ tasks'[s] = "none"
  PROVE  Reported(s)'
  <1> DEFINE n == Len(mailbox[s]) + 1
  <1>1. mailbox[s] \in Seq(Message) /\ mailbox'[s] = Append(mailbox[s], command)
    BY DEF Mailboxes, Put
  <1>2. /\ DOMAIN mailbox'[s] = DOMAIN mailbox[s] \cup {n} /\ n \notin DOMAIN mailbox[s]
        /\ mailbox'[s][n] = command
        /\ \A i \in DOMAIN mailbox[s] : mailbox'[s][i] = mailbox[s][i]
    BY <1>1
  <1> HIDE DEF n
  <1>3. CASE command.cmd # "finished"
    BY <1>2, <1>3 DEF Reported, IsReport
  <1>4. CASE command.cmd = "finished"
    BY <1>2, <1>4 DEF Reported, IsReport
  <1>5. QED
    BY <1>3, <1>4

LEMMA TakeReports ==
  ASSUME Mailboxes, NEW s \in Streams, NEW cmd, Takes(s, cmd), Reported(s),
         \/ cmd = "finished"
         \/ actors[s].round /\ tasks[s] = "none" => actors'[s].round /\ tasks'[s] = "none"
  PROVE  Reported(s)'
  <1>1. /\ mailbox[s] \in Seq(Message) /\ mailbox[s] # <<>>
        /\ mailbox'[s] = Tail(mailbox[s]) /\ Head(mailbox[s]).cmd = cmd
    BY DEF Mailboxes, Takes
  <1>2. /\ 1 \in DOMAIN mailbox[s] /\ mailbox[s][1].cmd = cmd
        /\ \A i \in DOMAIN mailbox'[s] : /\ i \in Nat /\ i + 1 \in DOMAIN mailbox[s]
                                         /\ mailbox'[s][i] = mailbox[s][i + 1]
                                         /\ i + 1 # 1
    BY <1>1
  <1>3. CASE cmd = "finished"
    BY <1>2, <1>3 DEF Reported, IsReport
  <1>4. CASE actors[s].round /\ tasks[s] = "none" => actors'[s].round /\ tasks'[s] = "none"
    <2>1. ASSUME NEW i \in DOMAIN mailbox'[s], NEW j \in DOMAIN mailbox'[s],
                 IsReport(s, i)', IsReport(s, j)'
          PROVE  i = j /\ actors'[s].round /\ tasks'[s] = "none"
      <3>1. IsReport(s, i + 1) /\ IsReport(s, j + 1)
        BY <1>2, <2>1 DEF IsReport
      <3>2. i + 1 = j + 1 /\ actors[s].round /\ tasks[s] = "none"
        BY <1>2, <3>1 DEF Reported
      <3>3. QED
        BY <1>2, <1>4, <3>2
    <2>2. QED
      BY <2>1 DEF Reported
  <1>5. QED
    BY <1>3, <1>4

-----------------------------------------------------------------------------
(* Steps that leave every actor as it is *)

LEMMA QuietStep ==
  ASSUME SessionsTypeOK, RoundsInv, Same, actors' = actors, cleaning' = cleaning,
         \A s \in Streams : Reported(s)' /\ (tasks'[s] # "none" => tasks[s] # "none")
  PROVE  RoundsInv'
  <1>1. Owned' /\ OneCleaner'
    BY DEF RoundsInv, Owned, OneCleaner, Same, Cleans
  <1>2. ASSUME NEW s \in Streams
        PROVE  Placed(s)' /\ Rounded(s)'
    BY DEF SessionsTypeOK, ActorState, RoundsInv, Placed, Rounded, Same, Held, Counts
  <1>3. QED
    BY <1>1, <1>2 DEF RoundsInv

LEMMA UnchangedReports ==
  ASSUME NEW s \in Streams, Reported(s), mailbox'[s] = mailbox[s],
         actors'[s].round <=> actors[s].round,
         tasks[s] = "none" => tasks'[s] = "none"
  PROVE  Reported(s)'
  BY DEF Reported, IsReport

\* A send by somebody else than the round itself.
LEMMA SendStep ==
  ASSUME RegistryTypeOK, SessionsTypeOK, RoundsInv, Same,
         UNCHANGED <<actors, tasks, cleaning>>,
         \/ UNCHANGED mailbox
         \/ \E s \in Streams, command \in Message :
              command.cmd # "finished" /\ Put(s, command)
  PROVE  RoundsInv'
  <1>1. CASE UNCHANGED mailbox
    BY <1>1, UnchangedReports, QuietStep DEF RoundsInv
  <1>2. ASSUME NEW s \in Streams, NEW command \in Message, command.cmd # "finished",
               Put(s, command)
        PROVE  RoundsInv'
    <2>1. Reported(s)'
      BY <1>2, PutReports, TypeParts DEF RoundsInv
    <2>2. ASSUME NEW r \in Streams, r # s
          PROVE  Reported(r)'
      <3>1. mailbox'[r] = mailbox[r] /\ Reported(r)
        BY <1>2, <2>2, TypeParts DEF Put, Mailboxes, RoundsInv
      <3>2. QED
        BY <3>1, UnchangedReports
    <2>3. QED
      BY <2>1, <2>2, QuietStep
  <1>3. QED
    BY <1>1, <1>2

LEMMA ConnectionRounds ==
  ASSUME RegistryTypeOK, SessionsTypeOK, RoundsInv, NEW c \in Clients,
         \/ Attach(c) \/ Forward(c) \/ Leave(c) \/ Disconnect(c)
         \/ \E k \in Keys, fresh \in BOOLEAN : Open(c, k, fresh)
         \/ \E request \in Requests : ClientSends(c, request)
  PROVE  RoundsInv'
  <1>1. conns[c] \in Connection
    BY DEF SessionsTypeOK
  <1>2. UNCHANGED <<actors, tasks, cleaning>>
    BY DEF Attach, Forward, Leave, Disconnect, Open, ClientSends, Detach, Lease, registry_vars
  <1>3. CASE Attach(c)
    <2> DEFINE s == conns[c].stream
    <2>1. s \in Streams /\ conns[c].key \in Keys /\ conns[c].fresh \in BOOLEAN
      BY <1>1, <1>3 DEF SessionsTypeOK, Attach, Connection
    <2>2. Command("attach", c, conns[c].fresh) \in Message
          /\ Command("attach", c, conns[c].fresh).cmd = "attach"
      BY <2>1, CommandType DEF Commands, Command
    <2>3. Same
      BY <1>3, <2>1, SameEntries DEF Attach
    <2>4. UNCHANGED mailbox \/ Put(s, Command("attach", c, conns[c].fresh))
      BY <1>3 DEF Attach
    <2>5. QED
      BY <1>2, <2>1, <2>2, <2>3, <2>4, SendStep
  <1>4. CASE Forward(c)
    <2> DEFINE s == conns[c].stream
               request == Head(conns[c].input)
    <2>1. s \in Streams /\ conns[c].input \in Seq(Requests)
      BY <1>1, <1>4 DEF SessionsTypeOK, Forward, Connection
    <2>2. ASSUME conns[c].input # <<>>, Put(s, Command(request, c, FALSE))
          PROVE  \E command \in Message : command.cmd # "finished" /\ Put(s, command)
      <3>1. request \in Requests
        BY <2>1, <2>2
      <3>2. Command(request, c, FALSE) \in Message
            /\ Command(request, c, FALSE).cmd = request
        BY <3>1, CommandType DEF Commands, Command
      <3>3. QED
        BY <2>2, <3>1, <3>2, SessionsAssumption
    <2>3. UNCHANGED mailbox \/ \E command \in Message : command.cmd # "finished" /\ Put(s, command)
      BY <1>4, <2>2 DEF Forward
    <2>4. Same
      BY <1>4, SameEntries DEF Forward
    <2>5. QED
      BY <1>2, <2>1, <2>3, <2>4, SendStep
  <1>5. CASE Leave(c)
    <2>1. conns[c].stream \in Streams
      BY <1>5 DEF SessionsTypeOK, Leave
    <2>2. Command("detach", c, FALSE) \in Message /\ Command("detach", c, FALSE).cmd = "detach"
      BY CommandType DEF Commands, Command
    <2>3. Same
      BY <1>5, SameEntries DEF Leave
    <2>4. UNCHANGED mailbox \/ Put(conns[c].stream, Command("detach", c, FALSE))
      BY <1>5 DEF Leave
    <2>5. QED
      BY <1>2, <2>1, <2>2, <2>3, <2>4, SendStep
  <1>6. ASSUME NEW k \in Keys, NEW fresh \in BOOLEAN, Open(c, k, fresh)
        PROVE  RoundsInv'
    <2>1. Same
      BY <1>6, SameEntries DEF Open
    <2>2. UNCHANGED mailbox
      BY <1>6 DEF Open
    <2>3. QED
      BY <1>2, <2>1, <2>2, SendStep
  <1>7. CASE Disconnect(c) \/ \E request \in Requests : ClientSends(c, request)
    <2>1. UNCHANGED registry_vars /\ UNCHANGED mailbox
      BY <1>7 DEF Disconnect, ClientSends
    <2>2. Same
      BY <2>1, SameEntries
    <2>3. QED
      BY <1>2, <2>1, <2>2, SendStep
  <1>8. QED
    BY <1>3, <1>4, <1>5, <1>6, <1>7

LEMMA ServerRounds ==
  ASSUME RegistryTypeOK, SessionsTypeOK, RoundsInv, Server \/ ReapIdle \/ StopAll
  PROVE  RoundsInv'
  <1>1. UNCHANGED <<actors, tasks>>
    BY DEF Server, SendInternal, SendStop, ReapIdle, StopAll, session_vars
  <1>2. \A cmd \in {"internal", "stop"} : Plain(cmd) \in Message /\ Plain(cmd).cmd = cmd
    BY CommandType DEF Commands, Plain, Command
  <1>3. CASE Server
    <2>1. UNCHANGED registry_vars
      BY <1>3 DEF Server, SendInternal, SendStop
    <2>2. Same /\ UNCHANGED cleaning
      BY <2>1, SameEntries DEF registry_vars
    <2>3. \/ UNCHANGED mailbox
          \/ \E s \in Streams, cmd \in {"internal", "stop"} : Put(s, Plain(cmd))
      BY <1>3 DEF Server, SendInternal, SendStop, SessionsTypeOK
    <2>4. QED
      BY <1>1, <1>2, <2>2, <2>3, SendStep
  <1>4. CASE ReapIdle
    <2>1. PICK expired \in SUBSET Keys : Reap(expired)
      BY <1>4 DEF ReapIdle
    <2>2. Same
      BY <2>1, SameEntries, SessionsAssumption
    <2>3. UNCHANGED <<mailbox, cleaning>>
      BY <1>4, <2>1 DEF ReapIdle, Reap
    <2>4. QED
      BY <1>1, <2>2, <2>3, SendStep
  <1>5. CASE StopAll
    <2>1. Shutdown /\ UNCHANGED mailbox
      BY <1>5 DEF StopAll
    <2>2. Same /\ UNCHANGED cleaning
      BY <2>1, SameEntries, SessionsAssumption DEF Shutdown
    <2>3. QED
      BY <1>1, <2>1, <2>2, SendStep
  <1>6. QED
    BY <1>3, <1>4, <1>5

\* The task of a round: it is there until it has ended, and then reports.
LEMMA TaskRounds ==
  ASSUME RegistryTypeOK, SessionsTypeOK, RoundsInv, NEW s \in Streams,
         Round(s) \/ Emit(s) \/ Complete(s)
  PROVE  RoundsInv'
  <1>1. UNCHANGED registry_vars /\ UNCHANGED actors
    BY DEF Round, Launch, Unwind, Report, Emit, Complete
  <1>2. Same /\ UNCHANGED cleaning
    BY <1>1, SameEntries DEF registry_vars
  <1>3. \A cmd \in {"started", "finished", "output"} :
          Plain(cmd) \in Message /\ Plain(cmd).cmd = cmd
    BY CommandType DEF Commands, Plain, Command
  <1>4. /\ \A r \in Streams \ {s} : tasks'[r] = tasks[r] /\ mailbox'[r] = mailbox[r]
        /\ tasks[s] # "none"
    BY DEF Round, Launch, Unwind, Report, Emit, Complete, Put, SessionsTypeOK
  <1>5. Reported(s)'
    <2>1. CASE Report(s)
      <3>1. Put(s, Plain("finished")) /\ tasks'[s] = "none"
        BY <2>1 DEF Report, SessionsTypeOK
      <3>2. actors[s].round /\ Reported(s)
        BY <1>4 DEF RoundsInv, Rounded
      <3>3. QED
        BY <1>1, <1>3, <1>4, <3>1, <3>2, PutReports, TypeParts
    <2>2. ASSUME NEW cmd \in {"started", "output"}, Put(s, Plain(cmd))
          PROVE  Reported(s)'
      BY <1>1, <1>3, <1>4, <2>2, PutReports, TypeParts DEF RoundsInv
    <2>3. CASE UNCHANGED mailbox
      BY <1>1, <1>4, <2>3, UnchangedReports DEF RoundsInv
    <2>4. QED
      BY <2>1, <2>2, <2>3 DEF Round, Launch, Unwind, Emit, Complete
  <1>6. \A r \in Streams : Reported(r)' /\ (tasks'[r] # "none" => tasks[r] # "none")
    BY <1>1, <1>4, <1>5, UnchangedReports DEF RoundsInv
  <1>7. QED
    BY <1>1, <1>2, <1>6, QuietStep

-----------------------------------------------------------------------------
(* Steps of an actor that neither start nor end a round *)

\* b is what the actor becomes from a: on to the next command, to a reply or
\* out of the loop, with its round as it was.
Continues(a, b) ==
  /\ b.key = a.key /\ b.round = a.round /\ b.reserved = a.reserved /\ b.engine = a.engine
  /\ a.stop => b.stop
  /\ \/ b.at = "replying" \/ b.at = Resting(b)
     \/ b.at = "closing" /\ a.at = "waiting"

LEMMA SettledContinues ==
  ASSUME NEW a \in ActorState, NEW b \in ActorState,
         b.key = a.key, b.round = a.round, b.reserved = a.reserved, b.engine = a.engine,
         a.stop => b.stop
  PROVE  Continues(a, Settled(b)) /\ Continues(a, Answering(b))
  <1>1. Continues(a, Settled(b))
    BY DEF Continues, Settled, Resting, ActorState
  <1>2. Continues(a, [b EXCEPT !.at = "replying"])
    BY DEF Continues, ActorState
  <1>3. QED
    BY <1>1, <1>2 DEF Answering

LEMMA CancelledKeeps ==
  ASSUME NEW a \in ActorState, NEW s
  PROVE  LET b == Cancelled(a, s)
         IN  /\ b.key = a.key /\ b.round = a.round /\ b.reserved = a.reserved
             /\ b.engine = a.engine /\ b.stop = a.stop /\ b.at = a.at
  BY DEF Cancelled, ActorState

\* Held and Counts in the next state, where only s has moved.
LEMMA OthersSame ==
  ASSUME SessionsTypeOK, RoundsInv, Same, NEW s \in Streams, NEW b \in ActorState,
         Becomes(s, b), b.key = actors[s].key,
         \A r \in Streams \ {s} : tasks'[r] = tasks[r] /\ mailbox'[r] = mailbox[r],
         \A r \in Streams \ {s} :
           Cleans(r) /\ GroupOf[actors[r].key] \in cleaning
             => GroupOf[actors[r].key] \in cleaning'
  PROVE  /\ \A r \in Streams \ {s} : Undisturbed(r)
         /\ Owned'
         /\ actors'[s] = b
         /\ Held(s)' <=> Held(s)
         /\ Counts(s)' <=> Counts(s)
  <1>1. actors'[s] = b /\ \A r \in Streams \ {s} : actors'[r] = actors[r]
    BY DEF Becomes, SessionsTypeOK
  <1>2. \A r \in Streams : actors[r].key \in Keys
    BY DEF SessionsTypeOK, ActorState
  <1>3. QED
    BY <1>1, <1>2 DEF Undisturbed, Held, Counts, Same, Owned, RoundsInv, Cleans

LEMMA ContinueStep ==
  ASSUME RegistryTypeOK, SessionsTypeOK, RoundsInv, NEW s \in Streams, Same, UNCHANGED cleaning,
         NEW b \in ActorState, Becomes(s, b), Continues(actors[s], b),
         actors[s].at \in {"waiting", "replying", "closing"},
         \/ UNCHANGED mailbox
         \/ \E cmd \in Commands : Takes(s, cmd),
         CancelTask(b, s) \/ CancelTask(actors[s], s) \/ UNCHANGED tasks
  PROVE  RoundsInv'
  <1>1. /\ \A r \in Streams \ {s} : tasks'[r] = tasks[r] /\ mailbox'[r] = mailbox[r]
        /\ tasks'[s] = "none" <=> tasks[s] = "none"
    BY DEF CancelTask, Takes, SessionsTypeOK
  <1>2. /\ \A r \in Streams \ {s} : Undisturbed(r)
        /\ Owned' /\ actors'[s] = b
        /\ Held(s)' <=> Held(s)
        /\ Counts(s)' <=> Counts(s)
    BY <1>1, OthersSame DEF Continues
  <1>3. Placed(s) /\ Rounded(s) /\ Reported(s)
    BY DEF RoundsInv
  <1>4. Placed(s)'
    BY <1>2, <1>3 DEF Placed, Continues, Resting
  <1>5. Rounded(s)'
    BY <1>1, <1>2, <1>3 DEF Rounded, Continues
  <1>6. Reported(s)'
    <2>1. CASE UNCHANGED mailbox
      BY <1>1, <1>2, <1>3, <2>1, UnchangedReports DEF Continues
    <2>2. ASSUME NEW cmd \in Commands, Takes(s, cmd)
          PROVE  Reported(s)'
      BY <1>1, <1>2, <1>3, <2>2, TakeReports, TypeParts DEF Continues
    <2>3. QED
      BY <2>1, <2>2
  <1>7. ~Cleans(s)'
    BY <1>2 DEF Cleans, Continues, Resting
  <1>8. QED
    BY <1>2, <1>4, <1>5, <1>6, <1>7, OneStep

\* Commands that leave the round and the entry alone, and replies.
LEMMA RequestRounds ==
  ASSUME RegistryTypeOK, SessionsTypeOK, RoundsInv, NEW s \in Streams,
         \/ TakeCancel(s) \/ TakeClose(s) \/ TakeStarted(s) \/ TakeDetach(s)
         \/ TakeStop(s) \/ TakeOutput(s) \/ Reply(s)
  PROVE  RoundsInv'
  <1> DEFINE a == actors[s]
  <1>1. a \in ActorState /\ a.key \in Keys /\ a.lease \in Clients \cup {Nobody}
    BY DEF SessionsTypeOK, ActorState
  <1>2. Cancelled(a, s) \in ActorState
    BY <1>1, CancelledType
  <1>3. {"cancel", "close"} \cap Commands \in SUBSET Commands
        /\ {"detach", "started", "stop", "output"} \subseteq Commands
    BY DEF Commands
  <1>4. Same /\ UNCHANGED cleaning
    <2>1. UNCHANGED registry_vars \/ \E c \in Clients \cup {Nobody} : Detach(a.key, s, c)
      BY <1>1 DEF TakeCancel, TakeClose, TakeStarted, TakeDetach, TakeStop, TakeOutput, Reply
    <2>2. QED
      BY <1>1, <2>1, SameEntries DEF Detach, registry_vars
  <1>5. ASSUME NEW cmd, Takes(s, cmd)
        PROVE  cmd \in Commands /\ a.at = "waiting"
    <2>1. Head(mailbox[s]) \in Message /\ Head(mailbox[s]).cmd = cmd
      BY <1>5, TakesType, TypeParts DEF Takes
    <2>2. QED
      BY <1>5, <2>1 DEF Takes, Message
  <1>6. CASE TakeCancel(s) \/ TakeOutput(s)
    <2>1. /\ Answering(a) \in ActorState /\ Answering(Cancelled(a, s)) \in ActorState
          /\ Continues(a, Answering(a)) /\ Continues(a, Answering(Cancelled(a, s)))
      BY <1>1, <1>2, AnsweringType, SettledContinues, CancelledKeeps
    <2>2. \/ Becomes(s, Answering(a)) \/ Becomes(s, Answering(Cancelled(a, s)))
      BY <1>6 DEF TakeCancel, TakeOutput
    <2>3. /\ \E cmd \in Commands : Takes(s, cmd)
          /\ a.at = "waiting" /\ (CancelTask(a, s) \/ UNCHANGED tasks)
      BY <1>5, <1>6 DEF TakeCancel, TakeOutput
    <2>4. QED
      BY <1>4, <2>1, <2>2, <2>3, ContinueStep
  <1>7. CASE TakeClose(s)
    <2> DEFINE b == [a EXCEPT !.at = "closing"]
               d == [Cancelled(a, s) EXCEPT !.at = "closing"]
    <2>1. a.at = "waiting" /\ \E cmd \in Commands : Takes(s, cmd)
      BY <1>5, <1>7 DEF TakeClose
    <2>2. b \in ActorState /\ d \in ActorState
      BY <1>1, <1>2, MarkedType
    <2>3. Continues(a, b) /\ Continues(a, d)
      BY <1>1, <1>2, <2>1, CancelledKeeps DEF Continues, ActorState
    <2>4. (Becomes(s, b) \/ Becomes(s, d)) /\ (CancelTask(a, s) \/ UNCHANGED tasks)
      BY <1>7 DEF TakeClose
    <2> HIDE DEF b, d
    <2>5. QED
      BY <1>4, <2>1, <2>2, <2>3, <2>4, ContinueStep
  <1>8. CASE TakeStarted(s)
    <2> DEFINE b == [a EXCEPT !.known = TRUE]
    <2>1. a.at = "waiting" /\ \E cmd \in Commands : Takes(s, cmd)
      BY <1>5, <1>8 DEF TakeStarted
    <2>2. /\ b \in ActorState /\ b.key = a.key /\ b.round = a.round
          /\ b.reserved = a.reserved /\ b.engine = a.engine /\ b.stop = a.stop
      BY <1>1 DEF ActorState
    <2>3. CASE Becomes(s, Settled(b)) /\ UNCHANGED tasks
      <3>1. Settled(b) \in ActorState /\ Continues(a, Settled(b))
        BY <1>1, <2>2, SettledType, SettledContinues
      <3>2. QED
        BY <1>4, <2>1, <2>3, <3>1, ContinueStep
    <2>4. CASE Becomes(s, Settled(Cancelled(b, s))) /\ CancelTask(b, s)
      <3> DEFINE d == Cancelled(b, s)
      <3>1. d \in ActorState
        BY <2>2, CancelledType
      <3>2. /\ d.key = a.key /\ d.round = a.round /\ d.reserved = a.reserved
            /\ d.engine = a.engine /\ d.stop = a.stop
        BY <2>2, CancelledKeeps
      <3>3. CancelTask(Settled(d), s) \/ UNCHANGED tasks
        BY <2>2, <2>4, CancelledType DEF CancelTask, Settled, Cancelled, ActorState
      <3> HIDE DEF d
      <3>4. Settled(d) \in ActorState /\ Continues(a, Settled(d))
        BY <1>1, <3>1, <3>2, SettledType, SettledContinues
      <3>5. QED
        BY <1>4, <2>1, <2>4, <3>3, <3>4, ContinueStep DEF d
    <2>5. QED
      BY <1>8, <2>3, <2>4 DEF TakeStarted
  <1>9. CASE TakeDetach(s)
    <2> DEFINE b == [a EXCEPT !.out = FALSE]
    <2>1. a.at = "waiting" /\ \E cmd \in Commands : Takes(s, cmd)
      BY <1>5, <1>9 DEF TakeDetach
    <2>2. /\ b \in ActorState /\ b.key = a.key /\ b.round = a.round
          /\ b.reserved = a.reserved /\ b.engine = a.engine /\ b.stop = a.stop
      BY <1>1 DEF ActorState
    <2>3. (Becomes(s, Settled(b)) \/ Becomes(s, Settled(a))) /\ UNCHANGED tasks
      BY <1>9 DEF TakeDetach
    <2>4. /\ Settled(b) \in ActorState /\ Continues(a, Settled(b))
          /\ Settled(a) \in ActorState /\ Continues(a, Settled(a))
      BY <1>1, <2>2, SettledType, SettledContinues
    <2>5. QED
      BY <1>4, <2>1, <2>3, <2>4, ContinueStep
  <1>10. CASE TakeStop(s)
    <2> DEFINE b == [a EXCEPT !.stop = TRUE]
    <2>1. a.at = "waiting" /\ \E cmd \in Commands : Takes(s, cmd)
      BY <1>5, <1>10 DEF TakeStop
    <2>2. /\ b \in ActorState /\ b.key = a.key /\ b.round = a.round
          /\ b.reserved = a.reserved /\ b.engine = a.engine /\ b.stop
          /\ b.known = a.known
      BY <1>1 DEF ActorState
    <2>3. CASE Becomes(s, Settled(b)) /\ UNCHANGED tasks
      <3>1. Settled(b) \in ActorState /\ Continues(a, Settled(b))
        BY <1>1, <2>2, SettledType, SettledContinues
      <3>2. QED
        BY <1>4, <2>1, <2>3, <3>1, ContinueStep
    <2>4. CASE Becomes(s, Settled(Cancelled(b, s))) /\ CancelTask(b, s)
      <3> DEFINE d == Cancelled(b, s)
      <3>1. d \in ActorState
        BY <2>2, CancelledType
      <3>2. /\ d.key = a.key /\ d.round = a.round /\ d.reserved = a.reserved
            /\ d.engine = a.engine /\ d.stop
        BY <2>2, CancelledKeeps
      <3>3. CancelTask(a, s)
        BY <2>2, <2>4 DEF CancelTask
      <3> HIDE DEF d
      <3>4. Settled(d) \in ActorState /\ Continues(a, Settled(d))
        BY <1>1, <3>1, <3>2, SettledType, SettledContinues
      <3>5. QED
        BY <1>4, <2>1, <2>4, <3>3, <3>4, ContinueStep DEF d
    <2>5. QED
      BY <1>10, <2>3, <2>4 DEF TakeStop
  <1>11. CASE Reply(s)
    <2> DEFINE b == [a EXCEPT !.out = FALSE]
    <2>1. a.at \in {"replying", "closing"} /\ UNCHANGED <<mailbox, tasks>>
      BY <1>11 DEF Reply
    <2>2. /\ b \in ActorState /\ b.key = a.key /\ b.round = a.round
          /\ b.reserved = a.reserved /\ b.engine = a.engine /\ b.stop = a.stop
      BY <1>1 DEF ActorState
    <2>3. Becomes(s, Settled(b)) \/ Becomes(s, Settled(a))
      BY <1>11 DEF Reply
    <2>4. /\ Settled(b) \in ActorState /\ Continues(a, Settled(b))
          /\ Settled(a) \in ActorState /\ Continues(a, Settled(a))
      BY <1>1, <2>2, SettledType, SettledContinues
    <2>5. QED
      BY <1>4, <2>1, <2>3, <2>4, ContinueStep
  <1>12. QED
    BY <1>6, <1>7, <1>8, <1>9, <1>10, <1>11

-----------------------------------------------------------------------------
(* The start and the end of a round *)

LEMMA StartStep ==
  ASSUME RegistryTypeOK, SessionsTypeOK, RoundsInv, NEW s \in Streams, NEW cmd, Takes(s, cmd),
         NEW b \in ActorState,
         b.key = actors[s].key, b.round, ~b.reserved, b.at \in {"waiting", "replying"},
         Becomes(s, b), tasks' = [tasks EXCEPT ![s] = "launching"],
         actors[s].reserved \/ MayReserve(actors[s].key),
         IF actors[s].reserved THEN UNCHANGED registry_vars ELSE ReserveRound(actors[s].key)
  PROVE  RoundsInv'
  <1> DEFINE k == actors[s].key
  <1>1. Placed(s) /\ Rounded(s) /\ Reported(s) /\ Owned
    BY DEF RoundsInv
  <1>2. Held(s) /\ k \in Keys
    BY <1>1 DEF Placed, Takes, SessionsTypeOK, ActorState
  <1>3. ~actors[s].round
    BY <1>1 DEF Rounded, MayReserve, Counts
  <1>4. /\ issued' = issued /\ cleaning' = cleaning
        /\ \A j \in Keys : entries'[j].stream = entries[j].stream
        /\ \A j \in Keys \ {k} : entries'[j].active = entries[j].active
        /\ entries'[k].active
    <2>1. CASE actors[s].reserved
      BY <1>1, <2>1 DEF registry_vars, Rounded, Counts
    <2>2. CASE ~actors[s].reserved
      <3>1. ReserveRound(k)
        BY <2>2
      <3>2. QED
        BY <1>2, <3>1 DEF ReserveRound, RegistryTypeOK, Entry
    <2>3. QED
      BY <2>1, <2>2
  <1>5. /\ actors'[s] = b /\ tasks'[s] = "launching"
        /\ \A r \in Streams \ {s} : /\ actors'[r] = actors[r] /\ tasks'[r] = tasks[r]
                                    /\ mailbox'[r] = mailbox[r]
    BY DEF Becomes, Takes, SessionsTypeOK
  <1>6. \A r \in Streams : actors[r].key \in Keys
    BY DEF SessionsTypeOK, ActorState
  <1>7. \A r \in Streams \ {s} : Undisturbed(r)
    BY <1>2, <1>4, <1>5, <1>6 DEF Undisturbed, Held, Counts
  <1>8. Held(s)' /\ Counts(s)'
    BY <1>2, <1>4, <1>5 DEF Held, Counts
  <1>9. Owned'
    BY <1>1, <1>4, <1>5 DEF Owned
  <1>10. Placed(s)' /\ Rounded(s)' /\ ~Cleans(s)'
    BY <1>5, <1>8 DEF Placed, Rounded, Cleans
  <1>11. Reported(s)'
    BY <1>1, <1>3, TakeReports, TypeParts
  <1>12. QED
    BY <1>7, <1>9, <1>10, <1>11, OneStep

LEMMA StartedActor ==
  ASSUME NEW a \in ActorState
  PROVE  \A b \in {Settled(StartRound(a)), Answering(StartRound(a))} :
           /\ b \in ActorState /\ b.key = a.key /\ b.round /\ ~b.reserved
           /\ b.at \in {"waiting", "replying"}
  <1>1. /\ StartRound(a) \in ActorState /\ StartRound(a).key = a.key
        /\ StartRound(a).round /\ ~StartRound(a).reserved
    BY DEF StartRound, ActorState
  <1> DEFINE d == StartRound(a)
  <1> HIDE DEF d
  <1>2. ASSUME d \in ActorState, d.key = a.key, d.round, ~d.reserved
        PROVE  \A b \in {Settled(d), [d EXCEPT !.at = "replying"]} :
                 /\ b \in ActorState /\ b.key = a.key /\ b.round /\ ~b.reserved
                 /\ b.at \in {"waiting", "replying"}
    BY <1>2 DEF Settled, Resting, ActorState
  <1>3. QED
    BY <1>1, <1>2 DEF d, Answering

\* Commands that may start a round.
LEMMA StarterRounds ==
  ASSUME RegistryTypeOK, SessionsTypeOK, RoundsInv, NEW s \in Streams,
         TakeAttach(s) \/ TakeChat(s) \/ TakeInternal(s)
  PROVE  RoundsInv'
  <1> DEFINE a == actors[s]
             Alike(d) == /\ d \in ActorState /\ d.key = a.key /\ d.round = a.round
                         /\ d.reserved = a.reserved /\ d.engine = a.engine
                         /\ a.stop => d.stop
  <1>1. a \in ActorState
    BY DEF SessionsTypeOK
  <1>2. PICK cmd \in {"attach", "chat", "internal"} : Takes(s, cmd)
    BY DEF TakeAttach, TakeChat, TakeInternal
  <1>3. /\ Head(mailbox[s]).client \in Clients \cup {Nobody}
        /\ a.at = "waiting" /\ \E c \in Commands : Takes(s, c)
    <2>1. Head(mailbox[s]) \in Message /\ Head(mailbox[s]).cmd = cmd
      BY <1>2, TakesType, TypeParts DEF Takes
    <2>2. QED
      BY <1>2, <2>1 DEF Takes, Message
  <1>4. ASSUME NEW d, Alike(d), UNCHANGED registry_vars, UNCHANGED tasks,
               Becomes(s, Answering(d)) \/ Becomes(s, Settled(d))
        PROVE  RoundsInv'
    <2>1. /\ Answering(d) \in ActorState /\ Continues(a, Answering(d))
          /\ Settled(d) \in ActorState /\ Continues(a, Settled(d))
      BY <1>1, <1>4, AnsweringType, SettledType, SettledContinues
    <2>2. Same /\ UNCHANGED cleaning
      BY <1>4, SameEntries DEF registry_vars
    <2>3. QED
      BY <1>3, <1>4, <2>1, <2>2, ContinueStep
  <1>5. ASSUME NEW d, NEW e, Alike(d), Alike(e), NEW started \in
                 {Settled(StartRound(d)), Answering(StartRound(d))},
               NEW refused \in {Settled(e), Answering(e)},
               Start(s, started, refused)
        PROVE  RoundsInv'
    <2>1. CASE Becomes(s, refused) /\ UNCHANGED <<registry_vars, tasks>>
      BY <1>4, <1>5, <2>1
    <2>2. CASE /\ actors[s].reserved \/ MayReserve(actors[s].key)
               /\ IF actors[s].reserved THEN UNCHANGED registry_vars
                  ELSE ReserveRound(actors[s].key)
               /\ tasks' = [tasks EXCEPT ![s] = "launching"]
               /\ Becomes(s, started)
      <3>1. /\ started \in ActorState /\ started.key = a.key /\ started.round
            /\ ~started.reserved /\ started.at \in {"waiting", "replying"}
        BY <1>5, StartedActor
      <3>2. QED
        BY <1>2, <2>2, <3>1, StartStep
    <2>3. QED
      BY <1>5, <2>1, <2>2 DEF Start
  <1>6. Alike(a) /\ Alike([a EXCEPT !.stop = TRUE])
    BY <1>1 DEF ActorState
  <1>7. CASE TakeAttach(s)
    <2> DEFINE d == [a EXCEPT !.lease = Head(mailbox[s]).client, !.out = TRUE]
               e == [d EXCEPT !.launched = TRUE]
    <2>1. Alike(d)
      BY <1>1, <1>3 DEF ActorState
    <2>2. Alike(e)
      BY <2>1 DEF ActorState
    <2>3. \/ Start(s, Answering(StartRound(e)), Answering(e))
          \/ Becomes(s, Answering(d)) /\ UNCHANGED <<registry_vars, tasks>>
      BY <1>7 DEF TakeAttach
    <2> HIDE DEF d, e, Alike
    <2>4. QED
      BY <1>4, <1>5, <2>1, <2>2, <2>3
  <1>8. CASE TakeChat(s)
    <2>1. \/ Start(s, Answering(StartRound(a)), Answering(a))
          \/ Becomes(s, Answering(a)) /\ UNCHANGED <<registry_vars, tasks>>
      BY <1>8 DEF TakeChat
    <2> HIDE DEF Alike, a
    <2>2. QED
      BY <1>4, <1>5, <1>6, <2>1
  <1>9. CASE TakeInternal(s)
    <2> DEFINE e == [a EXCEPT !.stop = TRUE]
    <2>1. Start(s, Settled(StartRound(a)), Settled(e))
      BY <1>9 DEF TakeInternal
    <2>2. Alike(e)
      BY <1>6
    <2> HIDE DEF Alike, a, e
    <2>3. QED
      BY <1>5, <1>6, <2>1, <2>2
  <1>10. QED
    BY <1>7, <1>8, <1>9

LEMMA FinishRounds ==
  ASSUME RegistryTypeOK, SessionsTypeOK, RoundsInv, NEW s \in Streams, TakeFinished(s)
  PROVE  RoundsInv'
  <1> DEFINE k == actors[s].key
             b == [actors[s] EXCEPT !.round = FALSE, !.cancelling = FALSE, !.known = FALSE,
                                    !.stop = actors[s].stop \/ Unattended(k)]
  <1>1. Placed(s) /\ Rounded(s) /\ Reported(s) /\ Owned
    BY DEF RoundsInv
  <1>2. actors[s] \in ActorState /\ k \in Keys /\ Takes(s, "finished")
    BY DEF SessionsTypeOK, ActorState, TakeFinished
  <1>3. /\ 1 \in DOMAIN mailbox[s] /\ mailbox[s][1].cmd = "finished"
    BY <1>2 DEF Takes, SessionsTypeOK
  <1>4. actors[s].round /\ tasks[s] = "none" /\ ~actors[s].reserved /\ Held(s)
    BY <1>1, <1>3 DEF Reported, IsReport, Rounded, Counts
  <1>5. /\ issued' = issued /\ cleaning' = cleaning
        /\ \A j \in Keys : entries'[j].stream = entries[j].stream
        /\ \A j \in Keys \ {k} : entries'[j].active = entries[j].active
    BY DEF TakeFinished, FinishRound, RegistryTypeOK, Entry
  <1>6. (actors[s].stop \/ Unattended(k)) \in BOOLEAN
    BY <1>2 DEF ActorState, Unattended
  <1>7. /\ b \in ActorState /\ b.key = k /\ ~b.round /\ ~b.reserved /\ b.engine = actors[s].engine
    BY <1>2, <1>4, <1>6 DEF ActorState
  <1>8. Becomes(s, Answering(b)) /\ UNCHANGED tasks
    BY DEF TakeFinished
  <1> HIDE DEF b
  <1>9. LET d == Answering(b)
        IN  /\ d.key = k /\ ~d.round /\ ~d.reserved /\ d.engine = actors[s].engine
            /\ d.at \in {"replying", "waiting", "exiting"}
    BY <1>7 DEF Answering, Settled, Resting, ActorState
  <1>10. /\ actors'[s] = Answering(b)
         /\ \A r \in Streams \ {s} : /\ actors'[r] = actors[r] /\ tasks'[r] = tasks[r]
                                     /\ mailbox'[r] = mailbox[r]
    BY <1>2, <1>8 DEF Becomes, Takes, SessionsTypeOK
  <1>11. \A r \in Streams : actors[r].key \in Keys
    BY DEF SessionsTypeOK, ActorState
  <1>12. \A r \in Streams \ {s} : Undisturbed(r)
    BY <1>4, <1>5, <1>10, <1>11 DEF Undisturbed, Held, Counts
  <1>13. Held(s)'
    BY <1>2, <1>4, <1>5, <1>9, <1>10 DEF Held
  <1>14. Owned'
    BY <1>1, <1>5, <1>9, <1>10 DEF Owned
  <1>15. Placed(s)' /\ Rounded(s)' /\ ~Cleans(s)'
    BY <1>4, <1>8, <1>9, <1>10, <1>13 DEF Placed, Rounded, Cleans
  <1>16. Reported(s)'
    BY <1>1, <1>2, TakeReports, TypeParts
  <1>17. QED
    BY <1>12, <1>14, <1>15, <1>16, OneStep

-----------------------------------------------------------------------------
(* Cleaning, and the end of an actor *)

LEMMA BeginCleanRounds ==
  ASSUME RegistryTypeOK, SessionsTypeOK, RoundsInv, NEW s \in Streams, TakeClean(s)
  PROVE  RoundsInv'
  <1> DEFINE a == actors[s]
             b == [a EXCEPT !.at = "cleaning"]
  <1>1. a \in ActorState /\ a.key \in Keys /\ Takes(s, "clean") /\ UNCHANGED tasks
    BY DEF SessionsTypeOK, ActorState, TakeClean
  <1>2. "clean" \in Commands
    <2>1. Head(mailbox[s]) \in Message /\ Head(mailbox[s]).cmd = "clean"
      BY <1>1, TakesType, TypeParts DEF Takes
    <2>2. QED
      BY <2>1 DEF Message
  <1>3. CASE Becomes(s, Answering(a)) /\ UNCHANGED registry_vars
    <2>1. Answering(a) \in ActorState /\ Continues(a, Answering(a)) /\ a.at = "waiting"
      BY <1>1, AnsweringType, SettledContinues DEF Takes
    <2>2. Same /\ UNCHANGED cleaning
      BY <1>3, SameEntries DEF registry_vars
    <2>3. QED
      BY <1>1, <1>2, <1>3, <2>1, <2>2, ContinueStep
  <1>4. CASE BeginClean(a.key) /\ Becomes(s, b)
    <2>1. Placed(s) /\ Rounded(s) /\ Reported(s)
      BY DEF RoundsInv
    <2>2. Held(s) /\ ~a.round /\ ~a.reserved
      BY <1>1, <1>4, <2>1 DEF Placed, Takes, BeginClean, MayClean, Rounds, Rounded, Counts
    <2>3. Same
      BY <1>1, <1>4, SameEntries
    <2>4. /\ cleaning' = cleaning \cup {GroupOf[a.key]} /\ GroupOf[a.key] \notin cleaning
      BY <1>4 DEF BeginClean, MayClean
    <2>5. /\ b \in ActorState /\ b.key = a.key /\ b.round = a.round
          /\ b.reserved = a.reserved /\ b.engine = a.engine /\ b.at = "cleaning"
      BY <1>1 DEF ActorState
    <2> HIDE DEF b
    <2>6. \A r \in Streams \ {s} : tasks'[r] = tasks[r] /\ mailbox'[r] = mailbox[r]
      BY <1>1 DEF Takes, SessionsTypeOK
    <2>7. /\ \A r \in Streams \ {s} : Undisturbed(r)
          /\ Owned' /\ actors'[s] = b
          /\ Held(s)' <=> Held(s)
          /\ Counts(s)' <=> Counts(s)
      BY <1>4, <2>3, <2>4, <2>5, <2>6, OthersSame
    <2>8. Placed(s)' /\ Rounded(s)'
      BY <1>1, <2>1, <2>2, <2>4, <2>5, <2>7 DEF Placed, Rounded
    <2>9. Reported(s)'
      BY <1>1, <2>1, <2>2, TakeReports, TypeParts DEF Reported
    <2>10. GroupOf[actors'[s].key] \notin cleaning
      BY <2>4, <2>5, <2>7
    <2>11. QED
      BY <2>7, <2>8, <2>9, <2>10, OneStep
  <1>5. QED
    BY <1>3, <1>4 DEF TakeClean

\* The actor of s, which has no round, leaves the entry of its key: what it
\* still knows of it no longer matters.
LEMMA RemoveStep ==
  ASSUME RegistryTypeOK, SessionsTypeOK, RoundsInv, NEW s \in Streams,
         Remove(actors[s].key, s), NEW b \in ActorState, Becomes(s, b),
         ~actors[s].round, b.key = actors[s].key, ~b.round, ~b.reserved, ~b.engine,
         \/ b.at = "gone"
         \/ b.at = "cleaned" /\ actors[s].at = "cleaning",
         UNCHANGED tasks, \A r \in Streams \ {s} : mailbox'[r] = mailbox[r],
         mailbox'[s] = mailbox[s] \/ mailbox'[s] = <<>>
  PROVE  RoundsInv'
  <1> DEFINE k == actors[s].key
  <1>1. Placed(s) /\ Rounded(s) /\ Reported(s) /\ Owned
    BY DEF RoundsInv
  <1>2. k \in Keys /\ \A r \in Streams : actors[r].key \in Keys
    BY DEF SessionsTypeOK, ActorState
  <1>3. actors'[s] = b /\ \A r \in Streams \ {s} : actors'[r] = actors[r]
    BY DEF Becomes, SessionsTypeOK
  <1>4. /\ issued' = issued /\ cleaning' = cleaning
        /\ \A j \in Keys : \/ entries'[j] = entries[j]
                           \/ entries[j].stream = s /\ entries'[j].stream = NoStream
    BY DEF Remove, RegistryTypeOK, Absent
  <1>5. \A r \in Streams \ {s} : Undisturbed(r)
    BY <1>2, <1>3, <1>4, NamesAssumption DEF Undisturbed, Held, Counts
  <1>6. Owned'
    BY <1>1, <1>3, <1>4, NamesAssumption DEF Owned
  <1>7. Placed(s)' /\ Rounded(s)'
    BY <1>1, <1>3, <1>4 DEF Placed, Rounded
  <1>8. Reported(s)'
    BY <1>1, <1>3 DEF Reported, IsReport
  <1>9. Cleans(s)' => Cleans(s) /\ actors'[s].key = actors[s].key
    BY <1>3 DEF Cleans
  <1>10. QED
    BY <1>5, <1>6, <1>7, <1>8, <1>9, OneStep

LEMMA EndCleanStep ==
  ASSUME RegistryTypeOK, SessionsTypeOK, RoundsInv, NEW s \in Streams, Cleans(s),
         EndClean(actors[s].key), NEW b \in ActorState, b.key = actors[s].key,
         b.round = actors[s].round, b.reserved = actors[s].reserved,
         b.engine = actors[s].engine, actors[s].at = "cleaned" => b.stop,
         Becomes(s, Answering(b)), UNCHANGED <<mailbox, tasks>>
  PROVE  RoundsInv'
  <1>1. Placed(s) /\ Rounded(s) /\ Reported(s) /\ ~actors[s].round
    BY DEF RoundsInv, Placed, Cleans
  <1>2. LET d == Answering(b)
        IN  /\ d \in ActorState /\ d.key = b.key /\ d.round = b.round
            /\ d.reserved = b.reserved /\ d.engine = b.engine /\ d.stop = b.stop
            /\ d.at = "replying" \/ d.at = (IF d.stop THEN "exiting" ELSE "waiting")
    <2>1. Answering(b) \in ActorState
      BY AnsweringType
    <2>2. ~b.round
      BY <1>1
    <2>3. QED
      BY <2>1, <2>2 DEF Answering, Settled, Resting, ActorState
  <1> DEFINE d == Answering(b)
  <1> HIDE DEF d
  <1>3. Same /\ cleaning' = cleaning \ {GroupOf[actors[s].key]}
    BY SameEntries DEF EndClean, SessionsTypeOK, ActorState
  <1>4. \A r \in Streams \ {s} : Cleans(r) => GroupOf[actors[r].key] # GroupOf[actors[s].key]
    BY DEF RoundsInv, OneCleaner
  <1>5. /\ \A r \in Streams \ {s} : Undisturbed(r)
        /\ Owned' /\ actors'[s] = d
        /\ Held(s)' <=> Held(s)
        /\ Counts(s)' <=> Counts(s)
    BY <1>2, <1>3, <1>4, OthersSame DEF d
  <1>6. Placed(s)' /\ Rounded(s)' /\ ~Cleans(s)'
    BY <1>1, <1>2, <1>5 DEF Placed, Rounded, Cleans, d
  <1>7. Reported(s)'
    BY <1>1, <1>2, <1>5, UnchangedReports DEF d
  <1>8. QED
    BY <1>5, <1>6, <1>7, OneStep

LEMMA LeavingRounds ==
  ASSUME RegistryTypeOK, SessionsTypeOK, RoundsInv, NEW s \in Streams, Clean(s) \/ Exit(s)
  PROVE  RoundsInv'
  <1> DEFINE a == actors[s]
  <1>1. a \in ActorState /\ a.key \in Keys /\ Placed(s) /\ Rounded(s) /\ Reported(s)
    BY DEF SessionsTypeOK, ActorState, RoundsInv
  <1>2. CASE a.at = "cleaning" /\ Clean(s) /\ Remove(a.key, s)
             /\ Becomes(s, [a EXCEPT !.at = "cleaned", !.engine = FALSE])
    <2> DEFINE b == [a EXCEPT !.at = "cleaned", !.engine = FALSE]
    <2>1. /\ b \in ActorState /\ b.key = a.key /\ b.round = a.round
          /\ b.reserved = a.reserved /\ ~b.engine /\ b.at = "cleaned"
      BY <1>1 DEF ActorState
    <2>2. ~a.round /\ ~a.reserved
      BY <1>1, <1>2 DEF Placed
    <2> HIDE DEF b
    <2>3. QED
      BY <1>2, <2>1, <2>2, RemoveStep DEF b, Clean
  <1>3. CASE a.at = "cleaning" /\ Clean(s) /\ EndClean(a.key) /\ Becomes(s, Answering(a))
    BY <1>1, <1>3, EndCleanStep DEF Cleans, Clean
  <1>4. CASE a.at = "cleaned" /\ Clean(s) /\ EndClean(a.key)
             /\ Becomes(s, Answering([a EXCEPT !.stop = TRUE]))
    <2> DEFINE b == [a EXCEPT !.stop = TRUE]
    <2>1. /\ b \in ActorState /\ b.key = a.key /\ b.round = a.round
          /\ b.reserved = a.reserved /\ b.engine = a.engine /\ b.stop
      BY <1>1 DEF ActorState
    <2> HIDE DEF b
    <2>2. QED
      BY <1>4, <2>1, EndCleanStep DEF b, Cleans, Clean
  <1>5. CASE /\ a.at = "exiting" /\ UNCHANGED <<registry_vars, mailbox, tasks>>
             /\ Becomes(s, [a EXCEPT !.at = "removing", !.engine = FALSE])
    <2> DEFINE b == [a EXCEPT !.at = "removing", !.engine = FALSE]
    <2>1. /\ b \in ActorState /\ b.key = a.key /\ b.round = a.round
          /\ b.reserved = a.reserved /\ ~b.engine /\ b.at = "removing"
      BY <1>1 DEF ActorState
    <2> HIDE DEF b
    <2>2. Same /\ UNCHANGED cleaning
      BY <1>5, SameEntries DEF registry_vars
    <2>3. /\ \A r \in Streams \ {s} : Undisturbed(r)
          /\ Owned' /\ actors'[s] = b
          /\ Held(s)' <=> Held(s)
          /\ Counts(s)' <=> Counts(s)
      BY <1>5, <2>1, <2>2, OthersSame DEF b
    <2>4. Placed(s)' /\ Rounded(s)' /\ ~Cleans(s)'
      BY <1>1, <1>5, <2>1, <2>3 DEF Placed, Rounded, Cleans
    <2>5. Reported(s)'
      BY <1>1, <1>5, <2>1, <2>3, UnchangedReports
    <2>6. QED
      BY <2>3, <2>4, <2>5, OneStep
  <1>6. CASE /\ a.at = "removing" /\ Remove(a.key, s) /\ UNCHANGED tasks
             /\ Becomes(s, [Unborn EXCEPT !.key = a.key, !.at = "gone"])
             /\ mailbox' = [mailbox EXCEPT ![s] = <<>>]
    <2> DEFINE b == [Unborn EXCEPT !.key = a.key, !.at = "gone"]
    <2>0. b.key = a.key /\ ~b.round /\ ~b.reserved /\ ~b.engine /\ b.at = "gone"
      BY DEF Unborn
    <2>1. b \in ActorState
      BY <1>1, UnbornType
    <2>2. ~a.round
      BY <1>1, <1>6 DEF Placed
    <2>3. mailbox'[s] = <<>> /\ \A r \in Streams \ {s} : mailbox'[r] = mailbox[r]
      BY <1>6 DEF SessionsTypeOK
    <2> HIDE DEF b
    <2>4. QED
      BY <1>6, <2>0, <2>1, <2>2, <2>3, RemoveStep DEF b
  <1>7. QED
    BY <1>2, <1>3, <1>4, <1>5, <1>6 DEF Clean, Exit

-----------------------------------------------------------------------------
(* A new actor *)

LEMMA BirthStep ==
  ASSUME RegistryTypeOK, SessionsTypeOK, RoundsInv, NEW s \in Streams \ issued,
         NEW k \in Keys, k \notin Present, NEW reserved \in BOOLEAN, NEW e,
         entries' = [entries EXCEPT ![k] = e], e.stream = s, reserved => e.active,
         issued' = issued \cup {s}, UNCHANGED <<cleaning, mailbox, tasks>>,
         actors' = [actors EXCEPT ![s] = NewActor(k, reserved)]
  PROVE  RoundsInv'
  <1>1. Placed(s) /\ Rounded(s) /\ Reported(s) /\ Owned
    BY DEF RoundsInv
  <1>2. \A r \in Streams : actors[r].key \in Keys
    BY DEF SessionsTypeOK, ActorState
  <1>3. ~Held(s) /\ ~actors[s].round /\ tasks[s] = "none"
    BY <1>1, <1>2 DEF Owned, Held, Rounded, Counts
  <1>4. LET b == NewActor(k, reserved)
        IN  /\ b.key = k /\ ~b.round /\ ~b.engine /\ b.at = "waiting"
            /\ b.reserved => reserved
    BY DEF NewActor, Unborn
  <1>5. /\ actors'[s] = NewActor(k, reserved)
        /\ \A r \in Streams \ {s} : actors'[r] = actors[r]
    BY DEF SessionsTypeOK
  <1>6. /\ entries'[k] = e /\ entries[k].stream = NoStream
        /\ \A j \in Keys \ {k} : entries'[j] = entries[j]
    BY DEF RegistryTypeOK, Present
  <1>7. \A r \in Streams \ {s} : Undisturbed(r)
    BY <1>2, <1>5, <1>6, NamesAssumption DEF Undisturbed, Held, Counts
  <1>8. Held(s)' /\ (reserved => Counts(s)')
    BY <1>4, <1>5, <1>6 DEF Held, Counts
  <1>9. Owned'
    BY <1>1, <1>4, <1>5, <1>6 DEF Owned
  <1>10. Placed(s)' /\ Rounded(s)' /\ ~Cleans(s)'
    BY <1>3, <1>4, <1>5, <1>8 DEF Placed, Rounded, Cleans
  <1>11. Reported(s)'
    BY <1>1, <1>3 DEF Reported, IsReport
  <1>12. QED
    BY <1>7, <1>9, <1>10, <1>11, OneStep

LEMMA BirthRounds ==
  ASSUME RegistryTypeOK, SessionsTypeOK, RoundsInv,
         \/ \E c \in Clients : Loaded(c)
         \/ \E k \in TimerKeys : FireTimer(k)
  PROVE  RoundsInv'
  <1>1. ASSUME NEW k \in TimerKeys, FireTimer(k)
        PROVE  RoundsInv'
    <2>1. PICK s \in Streams : /\ OpenInternalAgent(k, s)
                               /\ actors' = [actors EXCEPT ![s] = NewActor(k, TRUE)]
      BY <1>1 DEF FireTimer
    <2>2. /\ k \in Keys \ Present /\ s \notin issued /\ issued' = issued \cup {s}
          /\ entries' = [entries EXCEPT ![k] = Internal(s)]
          /\ Internal(s).stream = s /\ Internal(s).active
          /\ UNCHANGED <<cleaning, mailbox, tasks>>
      BY <1>1, <2>1, SessionsAssumption
      DEF FireTimer, OpenInternalAgent, Internal, Absent
    <2>3. QED
      BY <2>1, <2>2, BirthStep
  <1>2. ASSUME NEW c \in Clients, Loaded(c)
        PROVE  RoundsInv'
    <2> DEFINE k == conns[c].key
    <2>1. k \in Keys /\ UNCHANGED <<mailbox, tasks>>
      BY <1>2 DEF Loaded, SessionsTypeOK, Connection
    <2>2. CASE (Lease(k, c) \/ UNCHANGED registry_vars) /\ UNCHANGED actors
      <3>1. Same /\ UNCHANGED cleaning
        BY <2>1, <2>2, SameEntries DEF Lease, registry_vars
      <3>2. QED
        BY <2>1, <2>2, <3>1, SendStep
    <2>3. ASSUME NEW s \in Streams, Insert(k, c, s),
                 actors' = [actors EXCEPT ![s] = NewActor(k, FALSE)]
          PROVE  RoundsInv'
      <3>1. /\ k \notin Present /\ s \notin issued /\ issued' = issued \cup {s}
            /\ entries' = [entries EXCEPT ![k] = Opened(s, c)]
            /\ Opened(s, c).stream = s
            /\ UNCHANGED <<cleaning, mailbox, tasks>>
        BY <2>1, <2>3 DEF Insert, Opened, Absent
      <3>2. QED
        BY <2>1, <2>3, <3>1, BirthStep
    <2>4. QED
      BY <1>2, <2>2, <2>3 DEF Loaded
  <1>3. QED
    BY <1>1, <1>2

-----------------------------------------------------------------------------
(* The theorems *)

LEMMA RoundsInit == SessionsInit => RoundsInv
  <1> SUFFICES ASSUME SessionsInit
               PROVE  RoundsInv
    OBVIOUS
  <1>1. \A k \in Keys : entries[k].stream = NoStream
    BY DEF SessionsInit, RegistryInit, Absent
  <1>2. \A s \in Streams : /\ actors[s].at = "unborn" /\ ~actors[s].round
                           /\ ~actors[s].reserved /\ ~actors[s].engine
                           /\ tasks[s] = "none" /\ mailbox[s] = <<>>
    BY DEF SessionsInit, Unborn
  <1>3. Owned /\ OneCleaner
    BY <1>1, <1>2, NamesAssumption DEF Owned, OneCleaner, Cleans
  <1>4. \A s \in Streams : Placed(s) /\ Rounded(s) /\ Reported(s)
    BY <1>2 DEF Placed, Rounded, Reported
  <1>5. QED
    BY <1>3, <1>4 DEF RoundsInv

LEMMA RoundsStep ==
  ASSUME RegistryTypeOK, SessionsTypeOK, RoundsInv, [SessionsNext]_all_vars
  PROVE  RoundsInv'
  <1>1. ASSUME NEW c \in Clients, Handler(c) \/ Client(c)
        PROVE  RoundsInv'
    BY <1>1, ConnectionRounds, BirthRounds DEF Handler, Client
  <1>2. ASSUME NEW s \in Streams, Actor(s)
        PROVE  RoundsInv'
    BY <1>2, StarterRounds, RequestRounds, BeginCleanRounds, LeavingRounds, FinishRounds
    DEF Actor
  <1>3. ASSUME NEW s \in Streams, Round(s) \/ Emit(s) \/ Complete(s)
        PROVE  RoundsInv'
    BY <1>3, TaskRounds
  <1>4. CASE UNCHANGED all_vars
    <2>1. UNCHANGED registry_vars /\ UNCHANGED <<actors, tasks, mailbox, cleaning>>
      BY <1>4 DEF all_vars, session_vars, registry_vars
    <2>2. Same
      BY <2>1, SameEntries
    <2>3. QED
      BY <2>1, <2>2, SendStep
  <1>5. QED
    BY <1>1, <1>2, <1>3, <1>4, BirthRounds, ServerRounds DEF SessionsNext

LEMMA RoundsHold == SessionsSpec => [](SessionsTypeOK /\ RoundsInv)
  <1>1. RegistryTypeOK /\ SessionsTypeOK /\ RoundsInv /\ [SessionsNext]_all_vars => RoundsInv'
    BY RoundsStep
  <1>2. QED
    BY <1>1, RoundsInit, SessionsTypes, PTL DEF SessionsSpec

\* Whatever runs is counted: a round's task exists only while the entry of its
\* key is its actor's and active.
THEOREM RoundsReserved == SessionsSpec => []RoundsAreReserved
  <1>1. RoundsInv => RoundsAreReserved
    BY DEF RoundsInv, Rounded, Counts, Held, RoundsAreReserved
  <1>2. QED
    BY <1>1, RoundsHold, PTL

\* One engine for each key at any time.
THEOREM EnginesAreSingle == SessionsSpec => []OneEngine
  <1>1. RoundsInv => OneEngine
    BY DEF RoundsInv, Rounded, Held, OneEngine
  <1>2. QED
    BY <1>1, RoundsHold, PTL

\* While a group's data is deleted no round of the group runs.
THEOREM CleaningIsQuiet == SessionsSpec => []CleanedQuietly
  <1>1. SessionsTypeOK /\ RoundsInv /\ CleaningExcludesRounds => CleanedQuietly
    BY DEF SessionsTypeOK, ActorState, RoundsInv, Rounded, Placed, Counts,
           CleaningExcludesRounds, Rounds, CleanedQuietly
  <1>2. QED
    BY <1>1, RoundsHold, ServiceCleansAlone, PTL

-----------------------------------------------------------------------------
(* Leases: who has been let in, and who waits to be.                       *)

About(cmd, c, s, i) == mailbox[s][i].cmd = cmd /\ mailbox[s][i].client = c
Attaches(c, s) == \E i \in DOMAIN mailbox[s] : About("attach", c, s, i)
Detaches(c, s) == \E i \in DOMAIN mailbox[s] : About("detach", c, s, i)
AttachesOnce(c, s) ==
  \A i, j \in DOMAIN mailbox[s] : About("attach", c, s, i) /\ About("attach", c, s, j) => i = j

Leased(c, s) ==
  LET entry == entries[actors[s].key] IN entry.leased /\ entry.lease_id = c

\* The lease of c on s is needed: c asks to be attached.
Needs(c, s) ==
  \/ conns[c].at = "attaching" /\ conns[c].stream = s
  \/ Attaches(c, s)

\* A connection is attached once and detached last, so that no late command of
\* another lease is about its own.
Visits(c) ==
  /\ conns[c].at \in {"idle", "loading", "attaching"} =>
       \A s \in Streams : actors[s].lease # c /\ ~Attaches(c, s)
  /\ conns[c].at # "done" => \A s \in Streams : ~Detaches(c, s)
  /\ \A s \in Streams : Attaches(c, s) =>
       /\ AttachesOnce(c, s)
       /\ \A r \in Streams : actors[r].lease # c /\ (Attaches(c, r) => r = s)
  /\ \A s \in Streams : Needs(c, s) => s \in issued /\ (Held(s) => Leased(c, s))

Lives(s) ==
  /\ s \in issued => actors[s].at # "unborn"
  /\ actors[s].at \in {"exiting", "removing"} => actors[s].stop

LeaseInv == (\A c \in Clients : Visits(c)) /\ (\A s \in Streams : Lives(s))

\* What keeps the visit of c: its mail,
MailKept(c) == \A s \in Streams :
  /\ Attaches(c, s)' => Attaches(c, s)
  /\ AttachesOnce(c, s) => AttachesOnce(c, s)'
  /\ Detaches(c, s)' => Detaches(c, s)

\* its connection,
ConnKept(c) ==
  /\ conns'[c].at = conns[c].at \/ (conns[c].at = "bound" /\ conns'[c].at = "leaving")
  /\ conns'[c].stream = conns[c].stream
  /\ conns'[c].open => conns[c].open

\* and its lease, while it is needed.
LeaseKept(c) == \A s \in Streams :
  Needs(c, s) /\ Needs(c, s)' /\ Held(s)' => Held(s) /\ (Leased(c, s) => Leased(c, s)')

LEMMA VisitStays ==
  ASSUME NEW c \in Clients, Visits(c), MailKept(c), ConnKept(c), LeaseKept(c),
         \A s \in Streams : actors'[s].lease = c => actors[s].lease = c,
         issued \subseteq issued'
  PROVE  Visits(c)'
<1>1. \A s \in Streams : Needs(c, s)' => Needs(c, s)
  BY DEF Needs, MailKept, ConnKept
<1>2. \A s \in Streams : Needs(c, s)' => s \in issued' /\ (Held(s)' => Leased(c, s)')
  BY <1>1 DEF Visits, LeaseKept
<1>3. conns'[c].at \in {"idle", "loading", "attaching"} =>
        \A s \in Streams : actors'[s].lease # c /\ ~Attaches(c, s)'
  BY DEF Visits, MailKept, ConnKept
<1>4. conns'[c].at # "done" => \A s \in Streams : ~Detaches(c, s)'
  BY DEF Visits, MailKept, ConnKept
<1>5. \A s \in Streams : Attaches(c, s)' =>
        /\ AttachesOnce(c, s)'
        /\ \A r \in Streams : actors'[r].lease # c /\ (Attaches(c, r)' => r = s)
  BY DEF Visits, MailKept
<1> QED
  BY <1>2, <1>3, <1>4, <1>5 DEF Visits

\* The registry's operations, seen by one who holds a lease.
RegKept(c) == \A k \in Keys :
  /\ entries'[k].stream \in {entries[k].stream, NoStream}
  /\ entries'[k].stream = entries[k].stream /\ entries[k].leased /\ entries[k].lease_id = c =>
       entries'[k].leased /\ entries'[k].lease_id = c

Operates(k) ==
  \/ ReserveRound(k) \/ FinishRound(k) \/ BeginClean(k) \/ EndClean(k) \/ Shutdown
  \/ \E expired \in SUBSET Keys : Reap(expired)
  \/ \E s \in Streams : Remove(k, s)
  \/ \E d \in Clients : Lease(k, d)
  \/ UNCHANGED registry_vars

LEMMA OperationKeeps ==
  ASSUME RegistryTypeOK, NEW k \in Keys, Operates(k)
  PROVE  issued' = issued /\ \A c \in Clients : RegKept(c)
<1> USE DEF RegKept, RegistryTypeOK
<1>1. CASE ReserveRound(k)
  BY <1>1 DEF ReserveRound, Entry
<1>2. CASE FinishRound(k)
  BY <1>2 DEF FinishRound, Entry
<1>3. CASE BeginClean(k) \/ EndClean(k) \/ Shutdown
  BY <1>3 DEF BeginClean, EndClean, Shutdown
<1>4. ASSUME NEW expired \in SUBSET Keys, Reap(expired)
      PROVE  issued' = issued /\ \A c \in Clients : RegKept(c)
  BY <1>4 DEF Reap, Entry
<1>5. ASSUME NEW s \in Streams, Remove(k, s)
      PROVE  issued' = issued /\ \A c \in Clients : RegKept(c)
  BY <1>5, NamesAssumption DEF Remove, Absent, Entry
<1>6. ASSUME NEW d \in Clients, Lease(k, d)
      PROVE  issued' = issued /\ \A c \in Clients : RegKept(c)
  BY <1>6 DEF Lease, Entry
<1>7. CASE UNCHANGED registry_vars
  BY <1>7 DEF registry_vars
<1> QED
  BY <1>1, <1>2, <1>3, <1>4, <1>5, <1>6, <1>7 DEF Operates

\* A Detach is of one lease.
LEMMA DetachKeeps ==
  ASSUME RegistryTypeOK, NEW k \in Keys, NEW s \in Streams, NEW d, Detach(k, s, d)
  PROVE  issued' = issued /\ \A c \in Clients \ {d} : RegKept(c)
BY DEF RegKept, RegistryTypeOK, Detach, Entry

LEMMA LeaseLemma ==
  ASSUME SessionsTypeOK, NEW c \in Clients, RegKept(c),
         \A s \in Streams : actors'[s].key = actors[s].key
  PROVE  LeaseKept(c)
<1>1. \A s \in Streams : actors[s].key \in Keys
  BY DEF SessionsTypeOK, ActorState
<1> QED
  BY <1>1, NamesAssumption DEF RegKept, LeaseKept, Held, Leased

-----------------------------------------------------------------------------
(* Mail *)

LEMMA SameMail ==
  ASSUME UNCHANGED mailbox
  PROVE  \A c \in Clients : MailKept(c)
BY DEF MailKept, Attaches, Detaches, AttachesOnce, About

LEMMA PutMail ==
  ASSUME Mailboxes, NEW s \in Streams, NEW command \in Message, Put(s, command)
  PROVE  \A c \in Clients :
           /\ command.cmd \notin {"attach", "detach"} \/ command.client # c => MailKept(c)
           /\ command.cmd # "attach" => \A r \in Streams :
                (Attaches(c, r)' => Attaches(c, r)) /\ (AttachesOnce(c, r) => AttachesOnce(c, r)')
<1> DEFINE n == Len(mailbox[s]) + 1
<1>1. mailbox[s] \in Seq(Message) /\ mailbox'[s] = Append(mailbox[s], command)
      /\ \A r \in Streams \ {s} : mailbox'[r] = mailbox[r]
  BY DEF Mailboxes, Put
<1>2. /\ DOMAIN mailbox'[s] = DOMAIN mailbox[s] \cup {n} /\ n \notin DOMAIN mailbox[s]
      /\ mailbox'[s][n] = command /\ \A i \in DOMAIN mailbox[s] : mailbox'[s][i] = mailbox[s][i]
  BY <1>1
<1> HIDE DEF n
<1>3. ASSUME NEW c \in Clients, NEW r \in Streams
      PROVE  /\ command.cmd # "attach" \/ command.client # c =>
                  (Attaches(c, r)' => Attaches(c, r)) /\ (AttachesOnce(c, r) => AttachesOnce(c, r)')
             /\ command.cmd # "detach" \/ command.client # c =>
                  (Detaches(c, r)' => Detaches(c, r))
  <2>1. CASE r = s
    BY <1>2, <2>1 DEF Attaches, Detaches, AttachesOnce, About
  <2>2. CASE r # s
    BY <1>1, <2>2 DEF Attaches, Detaches, AttachesOnce, About
  <2> QED
    BY <2>1, <2>2
<1> QED
  BY <1>3 DEF MailKept

\* The Attach that a connection sends is its first and only one.
LEMMA PutAttach ==
  ASSUME Mailboxes, NEW s \in Streams, NEW c \in Clients, NEW fresh \in BOOLEAN,
         Put(s, Command("attach", c, fresh)), \A r \in Streams : ~Attaches(c, r)
  PROVE  /\ AttachesOnce(c, s)'
         /\ \A r \in Streams : Attaches(c, r)' => r = s
         /\ \A r \in Streams : Detaches(c, r)' => Detaches(c, r)
         /\ \A d \in Clients \ {c} : MailKept(d)
<1> DEFINE command == Command("attach", c, fresh)
<1>0. command \in Message /\ command.cmd = "attach" /\ command.client = c
  BY CommandType DEF Commands, Command
<1>1. mailbox[s] \in Seq(Message) /\ mailbox'[s] = Append(mailbox[s], command)
      /\ \A r \in Streams \ {s} : mailbox'[r] = mailbox[r]
  BY DEF Mailboxes, Put
<1>4. \A d \in Clients \ {c} : MailKept(d)
  BY <1>0, PutMail
<1> HIDE DEF command
<1>2. PICK n : /\ DOMAIN mailbox'[s] = DOMAIN mailbox[s] \cup {n} /\ n \notin DOMAIN mailbox[s]
               /\ mailbox'[s][n] = command
               /\ \A i \in DOMAIN mailbox[s] : mailbox'[s][i] = mailbox[s][i]
  <2> DEFINE m == Len(mailbox[s]) + 1
  <2>1. /\ DOMAIN mailbox'[s] = DOMAIN mailbox[s] \cup {m} /\ m \notin DOMAIN mailbox[s]
        /\ mailbox'[s][m] = command /\ \A i \in DOMAIN mailbox[s] : mailbox'[s][i] = mailbox[s][i]
    BY <1>0, <1>1
  <2> QED
    BY <2>1
<1>3. AttachesOnce(c, s)'
  BY <1>2 DEF Attaches, AttachesOnce, About
<1>5. ASSUME NEW r \in Streams
      PROVE  /\ Attaches(c, r)' => r = s
             /\ Detaches(c, r)' => Detaches(c, r)
  <2>1. CASE r = s
    BY <1>0, <1>2, <2>1 DEF Detaches, About
  <2>2. CASE r # s
    BY <1>1, <2>2 DEF Attaches, Detaches, About
  <2> QED
    BY <2>1, <2>2
<1> QED
  BY <1>3, <1>4, <1>5

LEMMA TakeMail ==
  ASSUME Mailboxes, NEW s \in Streams, NEW cmd, Takes(s, cmd)
  PROVE  /\ \A c \in Clients : MailKept(c)
         /\ \A c : c = Head(mailbox[s]).client =>
              /\ cmd = "attach" => Attaches(c, s) /\ (AttachesOnce(c, s) => ~Attaches(c, s)')
              /\ cmd = "detach" => Detaches(c, s)
<1>1. /\ mailbox[s] \in Seq(Message) /\ mailbox[s] # <<>>
      /\ mailbox'[s] = Tail(mailbox[s]) /\ \A r \in Streams \ {s} : mailbox'[r] = mailbox[r]
  BY DEF Mailboxes, Takes
<1>2. /\ 1 \in DOMAIN mailbox[s] /\ mailbox[s][1] = Head(mailbox[s]) /\ mailbox[s][1].cmd = cmd
      /\ \A i \in DOMAIN mailbox'[s] :
           i \in Nat /\ i + 1 \in DOMAIN mailbox[s] /\ mailbox'[s][i] = mailbox[s][i + 1] /\ i + 1 # 1
  <2>1. Head(mailbox[s]).cmd = cmd
    BY DEF Takes
  <2>2. 1 \in DOMAIN mailbox[s] /\ mailbox[s][1] = Head(mailbox[s])
    BY <1>1
  <2>3. ASSUME NEW q \in Seq(Message), q # <<>>, NEW i \in DOMAIN Tail(q)
        PROVE  i \in Nat /\ i + 1 \in DOMAIN q /\ Tail(q)[i] = q[i + 1] /\ i + 1 # 1
    BY <2>3
  <2> QED
    BY <1>1, <2>1, <2>2, <2>3
<1>3. ASSUME NEW c, NEW r \in Streams
      PROVE  /\ Attaches(c, r)' => Attaches(c, r)
             /\ AttachesOnce(c, r) => AttachesOnce(c, r)'
             /\ Detaches(c, r)' => Detaches(c, r)
  <2>1. CASE r = s
    <3>1. Attaches(c, s)' => Attaches(c, s)
      BY <1>2 DEF Attaches, About
    <3>2. Detaches(c, s)' => Detaches(c, s)
      BY <1>2 DEF Detaches, About
    <3>3. AttachesOnce(c, s) => AttachesOnce(c, s)'
      <4>1. SUFFICES ASSUME AttachesOnce(c, s),
                            NEW i \in DOMAIN mailbox'[s], NEW j \in DOMAIN mailbox'[s],
                            About("attach", c, s, i)', About("attach", c, s, j)'
                     PROVE  i = j
        BY DEF AttachesOnce
      <4>2. About("attach", c, s, i + 1) /\ About("attach", c, s, j + 1)
        BY <1>2, <4>1 DEF About
      <4>3. i + 1 = j + 1 /\ i \in Nat /\ j \in Nat
        BY <1>2, <4>1, <4>2 DEF AttachesOnce
      <4> QED
        BY <4>3
    <3> QED
      BY <2>1, <3>1, <3>2, <3>3
  <2>2. CASE r # s
    BY <1>1, <2>2 DEF Attaches, Detaches, AttachesOnce, About
  <2> QED
    BY <2>1, <2>2
<1>4. ASSUME NEW c, c = Head(mailbox[s]).client, cmd = "attach"
      PROVE  Attaches(c, s) /\ (AttachesOnce(c, s) => ~Attaches(c, s)')
  <2>2. About("attach", c, s, 1)
    BY <1>2, <1>4 DEF About
  <2>3. ASSUME AttachesOnce(c, s), NEW i \in DOMAIN mailbox'[s], About("attach", c, s, i)'
        PROVE  FALSE
    <3>1. About("attach", c, s, i + 1) /\ i + 1 \in DOMAIN mailbox[s] /\ i + 1 # 1
      BY <1>2, <2>3 DEF About
    <3> QED
      BY <1>2, <2>2, <2>3, <3>1 DEF AttachesOnce
  <2> QED
    BY <1>2, <2>2, <2>3 DEF Attaches
<1>5. ASSUME NEW c, c = Head(mailbox[s]).client, cmd = "detach" PROVE Detaches(c, s)
  BY <1>2, <1>5 DEF Detaches, About
<1> QED
  BY <1>3, <1>4, <1>5 DEF MailKept

LEMMA ClearMail ==
  ASSUME Mailboxes, NEW s \in Streams, mailbox' = [mailbox EXCEPT ![s] = <<>>]
  PROVE  \A c \in Clients : MailKept(c)
<1>1. /\ DOMAIN mailbox'[s] = {} /\ \A r \in Streams \ {s} : mailbox'[r] = mailbox[r]
  BY DEF Mailboxes
<1>2. ASSUME NEW c \in Clients, NEW r \in Streams
      PROVE  /\ Attaches(c, r)' => Attaches(c, r)
             /\ AttachesOnce(c, r) => AttachesOnce(c, r)'
             /\ Detaches(c, r)' => Detaches(c, r)
  BY <1>1 DEF Attaches, Detaches, AttachesOnce, About
<1> QED
  BY <1>2 DEF MailKept

-----------------------------------------------------------------------------
(* Actors *)

\* What the actor of a step becomes: the same session and lease, and where it
\* may be.
Placeable(b) ==
  /\ b.at # "unborn"
  /\ b.at \in {"exiting", "removing"} => b.stop

Derived(a, b) == b.key = a.key /\ b.lease = a.lease /\ Placeable(b)

LEMMA DerivedSettled ==
  ASSUME NEW a, NEW b \in ActorState, b.key = a.key, b.lease = a.lease
  PROVE  Derived(a, Settled(b)) /\ Derived(a, Answering(b))
<1>1. Derived(a, Settled(b))
  BY DEF Derived, Placeable, Settled, Resting, ActorState
<1>2. Derived(a, [b EXCEPT !.at = "replying"])
  BY DEF Derived, Placeable, ActorState
<1> QED
  BY <1>1, <1>2 DEF Answering

\* What else an actor writes on itself leaves its session and lease alone.
LEMMA WritesLemma ==
  ASSUME NEW a \in ActorState, NEW s
  PROVE  /\ Cancelled(a, s) \in ActorState
         /\ Cancelled(a, s).key = a.key /\ Cancelled(a, s).lease = a.lease
         /\ StartRound(a) \in ActorState
         /\ StartRound(a).key = a.key /\ StartRound(a).lease = a.lease
<1>1. Cancelled(a, s).key = a.key /\ Cancelled(a, s).lease = a.lease
  BY DEF Cancelled, ActorState
<1>2. StartRound(a).key = a.key /\ StartRound(a).lease = a.lease
  BY DEF StartRound, ActorState
<1> QED
  BY <1>1, <1>2, CancelledType, StartRoundType

\* A step of the actor of s that gives its lease to nobody.
LEMMA ActorStep ==
  ASSUME RegistryTypeOK, SessionsTypeOK, LeaseInv, NEW s \in Streams, NEW b,
         Becomes(s, b), b.key = actors[s].key, b.lease \in {actors[s].lease, Nobody},
         Placeable(b), issued' = issued,
         \A c \in Clients : MailKept(c),
         \A c \in Clients : ConnKept(c) /\ (RegKept(c) \/ \A r \in Streams : ~Needs(c, r)')
  PROVE  LeaseInv'
<1>1. actors'[s] = b /\ \A r \in Streams \ {s} : actors'[r] = actors[r]
  BY DEF Becomes, SessionsTypeOK
<1>2. \A r \in Streams : actors'[r].key = actors[r].key
  BY <1>1
<1>3. \A c \in Clients : LeaseKept(c)
  BY <1>2, LeaseLemma DEF LeaseKept
<1>4. \A c \in Clients, r \in Streams : actors'[r].lease = c => actors[r].lease = c
  BY <1>1, NamesAssumption
<1>5. \A c \in Clients : Visits(c)'
  BY <1>3, <1>4, VisitStays DEF LeaseInv
<1>6. \A r \in Streams : Lives(r)'
  BY <1>1 DEF LeaseInv, Lives, Placeable
<1> QED
  BY <1>5, <1>6 DEF LeaseInv

LEMMA SameConns ==
  ASSUME UNCHANGED conns
  PROVE  \A c : ConnKept(c)
BY DEF ConnKept

\* Most steps are of this kind.
LEMMA PlainStep ==
  ASSUME RegistryTypeOK, SessionsTypeOK, LeaseInv, NEW s \in Streams, NEW b,
         Becomes(s, b), Derived(actors[s], b), Operates(actors[s].key), UNCHANGED conns,
         UNCHANGED mailbox \/ \E cmd : Takes(s, cmd)
  PROVE  LeaseInv'
<1>1. actors[s].key \in Keys
  BY DEF SessionsTypeOK, ActorState
<1>2. issued' = issued /\ \A c \in Clients : RegKept(c)
  BY <1>1, OperationKeeps
<1>3. \A c \in Clients : MailKept(c)
  BY SameMail, TakeMail, TypeParts
<1> QED
  BY <1>2, <1>3, ActorStep, SameConns DEF Derived

LEMMA StartLeases ==
  ASSUME RegistryTypeOK, SessionsTypeOK, LeaseInv, NEW s \in Streams, TakeChat(s) \/ TakeInternal(s)
  PROVE  LeaseInv'
<1> DEFINE a == actors[s]
           d == [a EXCEPT !.stop = TRUE]
<1>1. a \in ActorState
  BY DEF SessionsTypeOK
<1>2. d \in ActorState /\ d.key = a.key /\ d.lease = a.lease
  BY <1>1 DEF ActorState
<1>3. /\ Derived(a, Answering(StartRound(a))) /\ Derived(a, Answering(a))
      /\ Derived(a, Settled(StartRound(a))) /\ Derived(a, Settled(d))
  BY <1>1, <1>2, WritesLemma, DerivedSettled
<1>4. ASSUME NEW started, NEW refused, Start(s, started, refused)
      PROVE  (Becomes(s, started) \/ Becomes(s, refused)) /\ Operates(a.key)
  BY <1>4 DEF Start, Operates
<1>5. CASE TakeChat(s)
  <2>1. /\ Becomes(s, Answering(a)) \/ Becomes(s, Answering(StartRound(a)))
        /\ Operates(a.key) /\ Takes(s, "chat")
    BY <1>4, <1>5 DEF TakeChat, Operates
  <2> QED
    BY <1>3, <2>1, PlainStep DEF Takes
<1>6. CASE TakeInternal(s)
  <2>1. /\ Becomes(s, Settled(d)) \/ Becomes(s, Settled(StartRound(a)))
        /\ Operates(a.key) /\ Takes(s, "internal")
    BY <1>4, <1>6 DEF TakeInternal
  <2> QED
    BY <1>3, <2>1, PlainStep DEF Takes
<1> QED
  BY <1>5, <1>6

LEMMA RequestLeases ==
  ASSUME RegistryTypeOK, SessionsTypeOK, LeaseInv, NEW s \in Streams,
         \/ TakeCancel(s) \/ TakeClose(s) \/ TakeStarted(s) \/ TakeStop(s)
         \/ TakeOutput(s) \/ TakeFinished(s) \/ TakeClean(s)
  PROVE  LeaseInv'
<1> DEFINE a == actors[s]
<1>1. a \in ActorState /\ a.key \in Keys
  BY DEF SessionsTypeOK, ActorState
<1>2. UNCHANGED registry_vars => Operates(a.key)
  BY DEF Operates
<1>3. ASSUME NEW cmd, Takes(s, cmd) PROVE UNCHANGED conns
  BY <1>3 DEF Takes
<1>4. CASE TakeCancel(s) \/ TakeOutput(s)
  <2>1. Derived(a, Answering(a)) /\ Derived(a, Answering(Cancelled(a, s)))
    BY <1>1, WritesLemma, DerivedSettled
  <2>2. Becomes(s, Answering(a)) \/ Becomes(s, Answering(Cancelled(a, s)))
    BY <1>4 DEF TakeCancel, TakeOutput
  <2>3. Operates(a.key) /\ \E cmd : Takes(s, cmd)
    BY <1>2, <1>4 DEF TakeCancel, TakeOutput
  <2> QED
    BY <1>3, <2>1, <2>2, <2>3, PlainStep
<1>5. CASE TakeClose(s)
  <2> DEFINE b == [a EXCEPT !.at = "closing"]
             d == [Cancelled(a, s) EXCEPT !.at = "closing"]
  <2>1. Takes(s, "close") /\ Operates(a.key)
    BY <1>2, <1>5 DEF TakeClose
  <2>2. Derived(a, b) /\ Derived(a, d)
    BY <1>1, WritesLemma DEF Derived, Placeable, ActorState
  <2>3. Becomes(s, b) \/ Becomes(s, d)
    BY <1>5 DEF TakeClose
  <2> HIDE DEF b, d
  <2> QED
    BY <1>3, <2>1, <2>2, <2>3, PlainStep
<1>6. CASE TakeStarted(s) \/ TakeStop(s)
  <2> DEFINE b == [a EXCEPT !.known = TRUE]
             d == [a EXCEPT !.stop = TRUE]
  <2>1. /\ b \in ActorState /\ b.key = a.key /\ b.lease = a.lease
        /\ d \in ActorState /\ d.key = a.key /\ d.lease = a.lease
    BY <1>1 DEF ActorState
  <2>2. Operates(a.key) /\ \E cmd : Takes(s, cmd)
    BY <1>2, <1>6 DEF TakeStarted, TakeStop
  <2>3. \/ Becomes(s, Settled(b)) \/ Becomes(s, Settled(Cancelled(b, s)))
        \/ Becomes(s, Settled(d)) \/ Becomes(s, Settled(Cancelled(d, s)))
    BY <1>6 DEF TakeStarted, TakeStop
  <2> HIDE DEF b, d
  <2>4. /\ Derived(a, Settled(b)) /\ Derived(a, Settled(Cancelled(b, s)))
        /\ Derived(a, Settled(d)) /\ Derived(a, Settled(Cancelled(d, s)))
    BY <2>1, WritesLemma, DerivedSettled
  <2> QED
    BY <1>3, <2>2, <2>3, <2>4, PlainStep
<1>7. CASE TakeFinished(s)
  <2> DEFINE over == a.stop \/ Unattended(a.key)
             b == [a EXCEPT !.round = FALSE, !.cancelling = FALSE, !.known = FALSE, !.stop = over]
  <2>1. Takes(s, "finished") /\ Operates(a.key) /\ Becomes(s, Answering(b))
    BY <1>7 DEF TakeFinished, Operates
  <2>2. over \in BOOLEAN
    BY <1>1 DEF ActorState, Unattended
  <2> HIDE DEF over
  <2>3. b \in ActorState /\ b.key = a.key /\ b.lease = a.lease
    BY <1>1, <2>2 DEF ActorState
  <2> HIDE DEF b
  <2> QED
    BY <1>3, <2>1, <2>3, DerivedSettled, PlainStep
<1>8. CASE TakeClean(s)
  <2> DEFINE b == [a EXCEPT !.at = "cleaning"]
  <2>1. /\ Takes(s, "clean") /\ Operates(a.key)
        /\ Becomes(s, b) \/ Becomes(s, Answering(a))
    BY <1>8 DEF TakeClean, Operates
  <2>2. Derived(a, b) /\ Derived(a, Answering(a))
    BY <1>1, DerivedSettled DEF Derived, Placeable, ActorState
  <2> HIDE DEF b
  <2> QED
    BY <1>3, <2>1, <2>2, PlainStep
<1> QED
  BY <1>4, <1>5, <1>6, <1>7, <1>8

\* Cleaning and the end of an actor.
LEMMA LeavingLeases ==
  ASSUME RegistryTypeOK, SessionsTypeOK, LeaseInv, NEW s \in Streams, Clean(s) \/ Exit(s)
  PROVE  LeaseInv'
<1> DEFINE a == actors[s]
           b == [a EXCEPT !.at = "cleaned", !.engine = FALSE]
           d == [a EXCEPT !.stop = TRUE]
           e == [a EXCEPT !.at = "removing", !.engine = FALSE]
           f == [Unborn EXCEPT !.key = a.key, !.at = "gone"]
<1>1. a \in ActorState /\ a.key \in Keys
  BY DEF SessionsTypeOK, ActorState
<1>2. /\ Derived(a, b) /\ d \in ActorState /\ d.key = a.key /\ d.lease = a.lease
      /\ e.key = a.key /\ e.lease = a.lease /\ e.at = "removing" /\ e.stop = a.stop
      /\ f.key = a.key /\ f.lease = Nobody /\ f.at = "gone"
  BY <1>1 DEF Derived, Placeable, Unborn, ActorState
<1>3. CASE Clean(s)
  <2>1. /\ Becomes(s, b) \/ Becomes(s, Answering(a)) \/ Becomes(s, Answering(d))
        /\ Operates(a.key) /\ UNCHANGED <<mailbox, conns>>
    BY <1>3 DEF Clean, Operates
  <2> HIDE DEF b, d
  <2>2. Derived(a, Answering(a)) /\ Derived(a, Answering(d))
    BY <1>1, <1>2, DerivedSettled
  <2> QED
    BY <1>2, <2>1, <2>2, PlainStep
<1>4. CASE a.at = "exiting" /\ Exit(s)
  <2>1. Becomes(s, e) /\ Operates(a.key) /\ UNCHANGED <<mailbox, conns>>
    BY <1>4 DEF Exit, Operates
  <2>2. Derived(a, e)
    BY <1>2, <1>4 DEF LeaseInv, Lives, Derived, Placeable
  <2> HIDE DEF e
  <2> QED
    BY <2>1, <2>2, PlainStep
<1>5. CASE a.at = "removing" /\ Exit(s)
  <2>1. /\ Becomes(s, f) /\ Operates(a.key) /\ UNCHANGED conns
        /\ mailbox' = [mailbox EXCEPT ![s] = <<>>]
    BY <1>5 DEF Exit, Operates
  <2>2. Placeable(f)
    BY <1>2 DEF Placeable
  <2>3. issued' = issued /\ \A c \in Clients : RegKept(c)
    BY <1>1, <2>1, OperationKeeps
  <2>4. \A c \in Clients : MailKept(c)
    BY <2>1, ClearMail, TypeParts
  <2> HIDE DEF f
  <2> QED
    BY <1>2, <2>1, <2>2, <2>3, <2>4, ActorStep, SameConns
<1> QED
  BY <1>3, <1>4, <1>5 DEF Exit

\* The end of a lease.
LEMMA DetachLeases ==
  ASSUME RegistryTypeOK, SessionsTypeOK, LeaseInv, NEW s \in Streams, TakeDetach(s) \/ Reply(s)
  PROVE  LeaseInv'
<1> DEFINE a == actors[s]
           b == [a EXCEPT !.out = FALSE]
<1>1. a \in ActorState /\ a.key \in Keys /\ a.lease \in Clients \cup {Nobody}
  BY DEF SessionsTypeOK, ActorState
<1>2. b \in ActorState /\ b.key = a.key /\ b.lease = a.lease
  BY <1>1 DEF ActorState
<1>3. Derived(a, Settled(a)) /\ Derived(a, Settled(b))
  BY <1>1, <1>2, DerivedSettled
<1>4. /\ Becomes(s, Settled(a)) \/ Becomes(s, Settled(b))
      /\ UNCHANGED registry_vars \/ Detach(a.key, s, a.lease)
  BY DEF TakeDetach, Reply
<1> HIDE DEF b
<1>5. issued' = issued /\ \A c \in Clients \ {a.lease} : RegKept(c)
  BY <1>1, <1>4, DetachKeeps, OperationKeeps DEF Operates
<1>6. /\ \A c \in Clients : MailKept(c) /\ ConnKept(c)
      /\ \A c \in Clients : c = a.lease => RegKept(c) \/ \A r \in Streams : ~Needs(c, r)'
  <2>0. ASSUME NEW c \in Clients, c = a.lease
        PROVE  conns[c].at # "attaching" /\ \A r \in Streams : ~Attaches(c, r)
    BY <2>0 DEF LeaseInv, Visits
  <2>1. CASE TakeDetach(s)
    <3>1. Takes(s, "detach") /\ UNCHANGED conns
      BY <2>1 DEF TakeDetach, Takes
    <3>2. \A d \in Clients : MailKept(d) /\ ConnKept(d)
      BY <3>1, TakeMail, TypeParts, SameConns
    <3>3. CASE Head(mailbox[s]).client # a.lease
      <4>1. UNCHANGED registry_vars
        BY <2>1, <3>3 DEF TakeDetach
      <4> QED
        BY <1>1, <3>2, <4>1, OperationKeeps DEF Operates
    <3>4. CASE Head(mailbox[s]).client = a.lease
      <4>1. ASSUME NEW c \in Clients, c = a.lease, NEW r \in Streams PROVE ~Needs(c, r)'
        <5>1. Detaches(c, s)
          BY <3>1, <3>4, <4>1, TakeMail, TypeParts
        <5>2. conns[c].at = "done"
          BY <5>1 DEF LeaseInv, Visits
        <5>3. conns'[c].at = "done" /\ ~Attaches(c, r)'
          BY <2>0, <3>2, <4>1, <5>2 DEF MailKept, ConnKept
        <5> QED
          BY <5>3 DEF Needs
      <4> QED
        BY <3>2, <4>1
    <3> QED
      BY <3>3, <3>4
  <2>2. CASE Reply(s)
    <3>1. UNCHANGED mailbox
      BY <2>2 DEF Reply
    <3>2. \A c \in Clients : MailKept(c)
      BY <3>1, SameMail
    <3>3. UNCHANGED conns \/ HangUp(a.lease)
      BY <2>2 DEF Reply
    <3>4. \A c \in Clients : ConnKept(c)
      <4>1. ASSUME NEW c \in Clients, HangUp(a.lease) PROVE ConnKept(c)
        <5>1. conns[c] \in Connection
          BY DEF SessionsTypeOK
        <5>2. conns'[c] = conns[c] \/ conns'[c] = [conns[c] EXCEPT !.open = FALSE]
          BY <4>1 DEF HangUp, SessionsTypeOK
        <5> QED
          BY <5>1, <5>2 DEF ConnKept, Connection
      <4> QED
        BY <3>3, <4>1, SameConns
    <3>5. ASSUME NEW c \in Clients, c = a.lease, NEW r \in Streams PROVE ~Needs(c, r)'
      <4>1. conns'[c].at # "attaching" /\ ~Attaches(c, r)'
        BY <2>0, <3>2, <3>4, <3>5 DEF MailKept, ConnKept
      <4> QED
        BY <4>1 DEF Needs
    <3> QED
      BY <3>2, <3>4, <3>5
  <2> QED
    BY <2>1, <2>2
<1>7. ASSUME NEW c \in Clients
      PROVE  MailKept(c) /\ ConnKept(c) /\ (RegKept(c) \/ \A r \in Streams : ~Needs(c, r)')
  BY <1>5, <1>6
<1> QED
  BY <1>3, <1>4, <1>5, <1>7, ActorStep DEF Derived

\* An actor takes an Attach: from now on the lease is in its hands.
LEMMA AttachedLeases ==
  ASSUME RegistryTypeOK, SessionsTypeOK, LeaseInv, NEW s \in Streams, TakeAttach(s)
  PROVE  LeaseInv'
<1> DEFINE command == Head(mailbox[s])
           a == [actors[s] EXCEPT !.lease = command.client, !.out = TRUE]
           b == [a EXCEPT !.launched = TRUE]
<1>1. actors[s] \in ActorState /\ actors[s].key \in Keys
  BY DEF SessionsTypeOK, ActorState
<1>2. Takes(s, "attach") /\ UNCHANGED conns
  BY DEF TakeAttach, Takes
<1>3. command \in Message /\ command.client \in Clients \cup {Nobody}
  BY <1>2, TakesType, TypeParts DEF Message
<1>4. /\ a \in ActorState /\ a.key = actors[s].key /\ a.lease = command.client
      /\ b \in ActorState /\ b.key = actors[s].key /\ b.lease = command.client
  BY <1>1, <1>3 DEF ActorState
<1>5. PICK d : /\ Becomes(s, d) /\ d.key = actors[s].key /\ d.lease = command.client
               /\ Placeable(d)
  <2>1. \/ Becomes(s, Answering(StartRound(b))) \/ Becomes(s, Answering(b))
        \/ Becomes(s, Answering(a))
    BY DEF TakeAttach, Start
  <2> HIDE DEF a, b
  <2>2. Derived(b, Answering(StartRound(b))) /\ Derived(b, Answering(b)) /\ Derived(a, Answering(a))
    BY <1>4, WritesLemma, DerivedSettled
  <2> QED
    BY <1>4, <2>1, <2>2 DEF Derived
<1>6. Operates(actors[s].key)
  BY DEF TakeAttach, Start, Operates
<1> HIDE DEF a, b
<1>7. issued' = issued /\ \A c \in Clients : RegKept(c) /\ MailKept(c) /\ ConnKept(c)
  BY <1>1, <1>2, <1>6, OperationKeeps, TakeMail, TypeParts, SameConns
<1>8. actors'[s] = d /\ \A r \in Streams \ {s} : actors'[r] = actors[r]
  BY <1>5 DEF Becomes, SessionsTypeOK
<1>9. \A c \in Clients : LeaseKept(c)
  BY <1>5, <1>7, <1>8, LeaseLemma
<1>10. ASSUME NEW c \in Clients PROVE Visits(c)'
  <2>1. CASE c # command.client
    BY <1>5, <1>7, <1>8, <1>9, <2>1, VisitStays DEF LeaseInv
  <2>2. CASE c = command.client
    <3>1. Visits(c) /\ Attaches(c, s) /\ ~Attaches(c, s)'
      BY <1>2, <2>2, TakeMail, TypeParts DEF LeaseInv, Visits
    <3>2. \A r \in Streams : ~Attaches(c, r)'
      BY <1>7, <3>1 DEF Visits, MailKept
    <3>3. conns[c].at \notin {"idle", "loading", "attaching"} /\ conns'[c].at = conns[c].at
      BY <1>2, <3>1 DEF Visits
    <3>4. conns'[c].at # "done" => \A r \in Streams : ~Detaches(c, r)'
      BY <1>7, <3>1, <3>3 DEF Visits, MailKept
    <3>5. ASSUME NEW r \in Streams, Needs(c, r)'
          PROVE  r \in issued' /\ (Held(r)' => Leased(c, r)')
      <4>1. Needs(c, r)
        BY <1>7, <3>5 DEF Needs, MailKept, ConnKept
      <4> QED
        BY <1>7, <1>9, <3>1, <3>5, <4>1 DEF Visits, LeaseKept
    <3> QED
      BY <3>2, <3>3, <3>4, <3>5 DEF Visits
  <2> QED
    BY <2>1, <2>2
<1>11. \A r \in Streams : Lives(r)'
  BY <1>5, <1>7, <1>8 DEF LeaseInv, Lives, Placeable
<1> QED
  BY <1>10, <1>11 DEF LeaseInv

-----------------------------------------------------------------------------
(* Connections, timers, the server *)

\* What one connection does, seen by the others.
LEMMA ConnectionStays ==
  ASSUME SessionsTypeOK, LeaseInv, NEW c \in Clients, UNCHANGED actors, issued' = issued,
         \A d \in Clients \ {c} : MailKept(d) /\ RegKept(d) /\ conns'[d] = conns[d],
         Visits(c)'
  PROVE  LeaseInv'
<1>1. ASSUME NEW d \in Clients \ {c} PROVE Visits(d)'
  <2>1. ConnKept(d) /\ LeaseKept(d)
    BY LeaseLemma DEF ConnKept
  <2> QED
    BY <2>1, VisitStays DEF LeaseInv
<1>2. \A s \in Streams : Lives(s)'
  BY DEF LeaseInv, Lives
<1> QED
  BY <1>1, <1>2 DEF LeaseInv

\* Steps of anybody else, who sends no Attach or Detach.
LEMMA BesideLeases ==
  ASSUME RegistryTypeOK, SessionsTypeOK, LeaseInv, UNCHANGED actors, NEW k \in Keys, Operates(k),
         \A c \in Clients : MailKept(c) /\ ConnKept(c)
  PROVE  LeaseInv'
<1>1. issued' = issued /\ \A c \in Clients : LeaseKept(c)
  BY OperationKeeps, LeaseLemma
<1>2. \A c \in Clients : Visits(c)'
  BY <1>1, VisitStays DEF LeaseInv
<1>3. \A s \in Streams : Lives(s)'
  BY <1>1 DEF LeaseInv, Lives
<1> QED
  BY <1>2, <1>3 DEF LeaseInv

\* A connection that has been let in: it has never been attached.
LEMMA Admission ==
  ASSUME NEW c \in Clients, Visits(c), conns[c].at \in {"idle", "loading"},
         UNCHANGED mailbox, \A r \in Streams : actors'[r].lease = c => actors[r].lease = c,
         NEW s \in Streams, conns'[c].at = "attaching", conns'[c].stream = s,
         s \in issued', Leased(c, s)'
  PROVE  Visits(c)'
<1>1. \A r \in Streams : ~Attaches(c, r)' /\ ~Detaches(c, r)'
  BY DEF Visits, Attaches, Detaches, About
<1>2. \A r \in Streams : Needs(c, r)' => r = s
  BY <1>1 DEF Needs
<1> QED
  BY <1>1, <1>2 DEF Visits

\* One that has not: it is where it was before it opened the session.
LEMMA TurnedAway ==
  ASSUME NEW c \in Clients, Visits(c), conns[c].at \in {"idle", "loading", "attaching"},
         UNCHANGED <<mailbox, actors>>, conns'[c].at \in {"idle", "loading"}
  PROVE  Visits(c)'
<1>1. \A r \in Streams : ~Attaches(c, r)' /\ ~Detaches(c, r)'
  BY DEF Visits, Attaches, Detaches, About
<1>2. \A r \in Streams : ~Needs(c, r)'
  BY <1>1 DEF Needs
<1> QED
  BY <1>1, <1>2 DEF Visits

LEMMA LeaseOthers ==
  ASSUME RegistryTypeOK, SessionsTypeOK, RoundsInv, NEW c \in Clients, NEW k \in Keys,
         Lease(k, c), UNCHANGED actors
  PROVE  /\ entries[k].stream \in Streams /\ entries[k].stream \in issued
         /\ issued' = issued /\ \A d \in Clients : RegKept(d)
         /\ \A s \in Streams : s = entries[k].stream => Leased(c, s)'
<1>1. entries[k].stream \in Streams /\ entries'[k].leased /\ entries'[k].lease_id = c
  BY DEF Lease, Present, RegistryTypeOK, Entry
<1>2. issued' = issued /\ \A d \in Clients : RegKept(d)
  BY OperationKeeps DEF Operates
<1>3. \A s \in Streams : s = entries[k].stream => actors[s].key = k /\ s \in issued
  BY DEF RoundsInv, Owned
<1> QED
  BY <1>1, <1>2, <1>3 DEF Leased

LEMMA BirthLeases ==
  ASSUME RegistryTypeOK, SessionsTypeOK, LeaseInv, NEW s \in Streams \ issued,
         NEW k \in Keys, NEW reserved \in BOOLEAN, NEW e,
         entries' = [entries EXCEPT ![k] = e], e.stream = s,
         issued' = issued \cup {s}, UNCHANGED mailbox,
         actors' = [actors EXCEPT ![s] = NewActor(k, reserved)]
  PROVE  /\ \A c \in Clients : conns'[c] = conns[c] => Visits(c)'
         /\ \A r \in Streams : Lives(r)'
         /\ \A c \in Clients, r \in Streams : actors'[r].lease = c => actors[r].lease = c
         /\ actors'[s].key = k /\ entries'[k] = e
<1>1. LET b == NewActor(k, reserved)
      IN  b.key = k /\ b.lease = Nobody /\ b.at = "waiting"
  BY DEF NewActor, Unborn
<1>2. actors'[s] = NewActor(k, reserved) /\ \A r \in Streams \ {s} : actors'[r] = actors[r]
  BY DEF SessionsTypeOK
<1>3. entries'[k] = e /\ \A j \in Keys \ {k} : entries'[j] = entries[j]
  BY DEF RegistryTypeOK
<1>4. \A c \in Clients, r \in Streams : actors'[r].lease = c => actors[r].lease = c
  BY <1>1, <1>2, NamesAssumption
<1>5. ASSUME NEW c \in Clients, conns'[c] = conns[c] PROVE Visits(c)'
  <2>1. MailKept(c) /\ ConnKept(c)
    BY <1>5, SameMail DEF ConnKept
  <2>2. ASSUME NEW r \in Streams, Needs(c, r), Held(r)'
        PROVE  Held(r) /\ (Leased(c, r) => Leased(c, r)')
    <3>1. r # s /\ actors[r].key \in Keys
      BY <2>2 DEF LeaseInv, Visits, SessionsTypeOK, ActorState
    <3>2. actors'[r] = actors[r] /\ actors[r].key # k
      BY <1>2, <1>3, <2>2, <3>1 DEF Held
    <3> QED
      BY <1>3, <2>2, <3>1, <3>2 DEF Held, Leased
  <2>3. LeaseKept(c)
    BY <2>2 DEF LeaseKept
  <2> QED
    BY <1>4, <2>1, <2>3, VisitStays DEF LeaseInv
<1>6. \A r \in Streams : Lives(r)'
  BY <1>1, <1>2 DEF LeaseInv, Lives
<1> QED
  BY <1>1, <1>2, <1>3, <1>4, <1>5, <1>6

LEMMA OpenLeases ==
  ASSUME RegistryTypeOK, SessionsTypeOK, RoundsInv, LeaseInv, NEW c \in Clients, NEW k \in Keys,
         NEW fresh \in BOOLEAN, Open(c, k, fresh)
  PROVE  LeaseInv'
<1>1. /\ conns[c] \in Connection /\ conns[c].at = "idle" /\ UNCHANGED <<actors, mailbox>>
      /\ Visits(c)
  BY DEF Open, SessionsTypeOK, LeaseInv
<1>2. \A d \in Clients : MailKept(d)
  BY <1>1, SameMail
<1>3. CASE /\ Lease(k, c)
           /\ conns' = [conns EXCEPT ![c].at = "attaching", ![c].key = k,
                                     ![c].fresh = fresh, ![c].stream = entries[k].stream]
  <2>1. /\ conns'[c].at = "attaching" /\ conns'[c].stream = entries[k].stream
        /\ \A d \in Clients \ {c} : conns'[d] = conns[d]
    BY <1>1, <1>3 DEF SessionsTypeOK, Connection
  <2>2. Visits(c)'
    BY <1>1, <1>3, <2>1, LeaseOthers, Admission
  <2> QED
    BY <1>1, <1>2, <1>3, <2>1, <2>2, LeaseOthers, ConnectionStays
<1>4. CASE /\ conns' = [conns EXCEPT ![c].at = "loading", ![c].key = k, ![c].fresh = TRUE]
           /\ UNCHANGED registry_vars
  <2>1. /\ conns'[c].at = "loading" /\ \A d \in Clients \ {c} : conns'[d] = conns[d]
    BY <1>1, <1>4 DEF SessionsTypeOK, Connection
  <2>2. Visits(c)'
    BY <1>1, <2>1, TurnedAway
  <2>3. issued' = issued /\ \A d \in Clients : RegKept(d)
    BY <1>4, OperationKeeps DEF Operates
  <2> QED
    BY <1>1, <1>2, <2>1, <2>2, <2>3, ConnectionStays
<1> QED
  BY <1>3, <1>4 DEF Open

LEMMA LoadedLeases ==
  ASSUME RegistryTypeOK, SessionsTypeOK, RoundsInv, LeaseInv, NEW c \in Clients, Loaded(c)
  PROVE  LeaseInv'
<1> DEFINE k == conns[c].key
<1>1. /\ conns[c] \in Connection /\ k \in Keys /\ conns[c].at = "loading" /\ UNCHANGED mailbox
      /\ Visits(c)
  BY DEF Loaded, SessionsTypeOK, LeaseInv, Connection
<1>2. \A d \in Clients : MailKept(d)
  BY <1>1, SameMail
<1>3. CASE /\ Lease(k, c) /\ UNCHANGED actors
           /\ conns' = [conns EXCEPT ![c].at = "attaching", ![c].stream = entries[k].stream]
  <2>1. /\ conns'[c].at = "attaching" /\ conns'[c].stream = entries[k].stream
        /\ \A d \in Clients \ {c} : conns'[d] = conns[d]
    BY <1>1, <1>3 DEF SessionsTypeOK, Connection
  <2>2. Visits(c)'
    BY <1>1, <1>3, <2>1, LeaseOthers, Admission
  <2> QED
    BY <1>1, <1>2, <1>3, <2>1, <2>2, LeaseOthers, ConnectionStays
<1>4. ASSUME NEW s \in Streams, Insert(k, c, s),
             actors' = [actors EXCEPT ![s] = NewActor(k, FALSE)],
             conns' = [conns EXCEPT ![c].at = "attaching", ![c].stream = s]
      PROVE  LeaseInv'
  <2>1. /\ conns'[c].at = "attaching" /\ conns'[c].stream = s
        /\ \A d \in Clients \ {c} : conns'[d] = conns[d]
    BY <1>1, <1>4 DEF SessionsTypeOK, Connection
  <2>2. /\ s \in Streams \ issued /\ issued' = issued \cup {s}
        /\ entries' = [entries EXCEPT ![k] = Opened(s, c)]
        /\ Opened(s, c).stream = s /\ Opened(s, c).leased /\ Opened(s, c).lease_id = c
    BY <1>4 DEF Insert, Opened, Absent
  <2>3. /\ \A d \in Clients : conns'[d] = conns[d] => Visits(d)'
        /\ \A r \in Streams : Lives(r)'
        /\ \A d \in Clients, r \in Streams : actors'[r].lease = d => actors[r].lease = d
        /\ actors'[s].key = k /\ entries'[k] = Opened(s, c)
    <3>1. PICK j \in Keys : j = k
      BY <1>1
    <3>2. PICK e : e = Opened(s, c)
      OBVIOUS
    <3>3. PICK reserved \in BOOLEAN : reserved = FALSE
      OBVIOUS
    <3>4. /\ entries' = [entries EXCEPT ![j] = e] /\ e.stream = s
          /\ actors' = [actors EXCEPT ![s] = NewActor(j, reserved)]
      BY <1>4, <2>2, <3>1, <3>2, <3>3
    <3>5. /\ \A d \in Clients : conns'[d] = conns[d] => Visits(d)'
          /\ \A r \in Streams : Lives(r)'
          /\ \A d \in Clients, r \in Streams : actors'[r].lease = d => actors[r].lease = d
          /\ actors'[s].key = j /\ entries'[j] = e
      <4>1. s \in Streams \ issued /\ issued' = issued \cup {s} /\ UNCHANGED mailbox
        BY <1>1, <2>2
      <4> QED
        BY <3>4, <4>1, BirthLeases, Zenon
    <3> QED
      BY <3>1, <3>2, <3>5
  <2>4. Leased(c, s)'
    BY <2>2, <2>3 DEF Leased
  <2>5. Visits(c)'
    BY <1>1, <2>1, <2>2, <2>3, <2>4, Admission
  <2> QED
    BY <2>1, <2>3, <2>5 DEF LeaseInv
<1>5. CASE conns' = [conns EXCEPT ![c] = Unbound(c)] /\ UNCHANGED registry_vars /\ UNCHANGED actors
  <2>1. /\ conns'[c].at = "idle" /\ \A d \in Clients \ {c} : conns'[d] = conns[d]
    BY <1>5, UnboundType, TypeParts DEF SessionsTypeOK
  <2>2. Visits(c)'
    BY <1>1, <1>5, <2>1, TurnedAway
  <2>3. issued' = issued /\ \A d \in Clients : RegKept(d)
    BY <1>1, <1>5, OperationKeeps DEF Operates
  <2> QED
    BY <1>2, <1>5, <2>1, <2>2, <2>3, ConnectionStays
<1> QED
  BY <1>3, <1>4, <1>5 DEF Loaded

LEMMA AttachLeases ==
  ASSUME RegistryTypeOK, SessionsTypeOK, LeaseInv, NEW c \in Clients, Attach(c)
  PROVE  LeaseInv'
<1> DEFINE s == conns[c].stream
<1>1. /\ conns[c] \in Connection /\ s \in Streams /\ conns[c].fresh \in BOOLEAN
      /\ conns[c].key \in Keys /\ conns[c].at = "attaching" /\ UNCHANGED actors /\ Visits(c)
  BY DEF Attach, SessionsTypeOK, LeaseInv, Connection
<1>2. /\ \A r \in Streams : ~Attaches(c, r) /\ ~Detaches(c, r) /\ actors[r].lease # c
      /\ \A r \in Streams : Needs(c, r) => r \in issued /\ (Held(r) => Leased(c, r))
  BY <1>1 DEF Visits
<1>3. CASE /\ Put(s, Command("attach", c, conns[c].fresh)) /\ UNCHANGED registry_vars
           /\ conns' = [conns EXCEPT ![c].at = "bound"]
  <2>1. PICK r \in Streams : r = s
    BY <1>1
  <2>2. /\ conns'[c].at = "bound" /\ conns'[c].stream = r
        /\ \A d \in Clients \ {c} : conns'[d] = conns[d]
    BY <1>1, <1>3, <2>1 DEF SessionsTypeOK, Connection
  <2>3. /\ AttachesOnce(c, r)'
        /\ \A q \in Streams : Attaches(c, q)' => q = r
        /\ \A q \in Streams : Detaches(c, q)' => Detaches(c, q)
        /\ \A d \in Clients \ {c} : MailKept(d)
    BY <1>1, <1>2, <1>3, <2>1, PutAttach, TypeParts
  <2>4. issued' = issued /\ \A d \in Clients : RegKept(d)
    BY <1>1, <1>3, OperationKeeps DEF Operates
  <2>5. r \in issued' /\ (Held(r)' => Leased(c, r)')
    BY <1>1, <1>2, <1>3, <2>1 DEF Needs, Held, Leased, registry_vars
  <2>6. \A q \in Streams : Needs(c, q)' => q = r
    BY <2>2, <2>3 DEF Needs
  <2>7. Visits(c)'
    BY <1>1, <1>2, <2>2, <2>3, <2>5, <2>6 DEF Visits
  <2> QED
    BY <1>1, <2>2, <2>3, <2>4, <2>7, ConnectionStays
<1>4. CASE /\ Detach(conns[c].key, s, c) /\ UNCHANGED mailbox
           /\ conns' = [conns EXCEPT ![c] = Unbound(c)]
  <2>1. /\ conns'[c].at = "idle" /\ \A d \in Clients \ {c} : conns'[d] = conns[d]
    BY <1>4, UnboundType, TypeParts DEF SessionsTypeOK
  <2>2. Visits(c)'
    BY <1>1, <1>4, <2>1, TurnedAway
  <2>3. issued' = issued /\ \A d \in Clients \ {c} : RegKept(d)
    BY <1>1, <1>4, DetachKeeps
  <2>4. \A d \in Clients : MailKept(d)
    BY <1>4, SameMail
  <2> QED
    BY <1>1, <2>1, <2>2, <2>3, <2>4, ConnectionStays
<1> QED
  BY <1>3, <1>4 DEF Attach

LEMMA HandlerLeases ==
  ASSUME RegistryTypeOK, SessionsTypeOK, LeaseInv, NEW c \in Clients,
         \/ Forward(c) \/ Leave(c) \/ Disconnect(c)
         \/ \E request \in Requests : ClientSends(c, request)
  PROVE  LeaseInv'
<1>1. /\ conns[c] \in Connection /\ Visits(c) /\ UNCHANGED <<actors, registry_vars>>
  BY DEF Forward, Leave, Disconnect, ClientSends, SessionsTypeOK, LeaseInv, registry_vars
<1>2. PICK k \in Keys : Operates(k)
  BY <1>1, SomeKey DEF Operates
<1>3. issued' = issued /\ \A d \in Clients : RegKept(d)
  BY <1>2, OperationKeeps
<1>4. CASE Leave(c)
  <2>1. /\ conns'[c].at = "done" /\ \A d \in Clients \ {c} : conns'[d] = conns[d]
        /\ conns[c].at = "leaving" /\ conns[c].stream \in Streams
    BY <1>4, UnboundType, TypeParts DEF Leave, SessionsTypeOK
  <2>2. /\ Command("detach", c, FALSE) \in Message
        /\ Command("detach", c, FALSE).cmd = "detach" /\ Command("detach", c, FALSE).client = c
    BY CommandType DEF Commands, Command
  <2>3. \A d \in Clients \ {c} : MailKept(d)
    <3>1. UNCHANGED mailbox \/ Put(conns[c].stream, Command("detach", c, FALSE))
      BY <1>4 DEF Leave
    <3> QED
      BY <2>1, <2>2, <3>1, PutMail, SameMail, TypeParts
  <2>4. \A r \in Streams : (Attaches(c, r)' => Attaches(c, r))
                          /\ (AttachesOnce(c, r) => AttachesOnce(c, r)')
    <3>1. UNCHANGED mailbox \/ Put(conns[c].stream, Command("detach", c, FALSE))
      BY <1>4 DEF Leave
    <3> QED
      BY <2>1, <2>2, <3>1, PutMail, SameMail, TypeParts DEF MailKept
  <2>5. ASSUME NEW r \in Streams, Needs(c, r)'
        PROVE  r \in issued' /\ (Held(r)' => Leased(c, r)')
    <3>1. Needs(c, r)
      BY <2>1, <2>4, <2>5 DEF Needs
    <3> QED
      BY <1>1, <3>1 DEF Visits, Held, Leased, registry_vars
  <2>6. Visits(c)'
    BY <1>1, <2>1, <2>4, <2>5 DEF Visits
  <2> QED
    BY <1>1, <1>3, <2>1, <2>3, <2>6, ConnectionStays
<1>5. CASE Forward(c)
  <2> DEFINE request == Head(conns[c].input)
  <2>1. conns[c].at = "bound" /\ conns[c].stream \in Streams /\ conns[c].input \in Seq(Requests)
    BY <1>1, <1>5 DEF Forward, SessionsTypeOK, Connection
  <2>2. \A d \in Clients : ConnKept(d)
    <3>0. PICK at \in {"bound", "leaving"} : \E input :
            conns' = [conns EXCEPT ![c].input = input, ![c].at = at]
            \/ conns' = [conns EXCEPT ![c].at = at, ![c].input = input]
      BY <1>5 DEF Forward
    <3>1. PICK input :
            conns' = [conns EXCEPT ![c].input = input, ![c].at = at]
            \/ conns' = [conns EXCEPT ![c].at = at, ![c].input = input]
      BY <3>0
    <3>2. /\ conns'[c].at = at /\ conns'[c].stream = conns[c].stream
          /\ conns'[c].open = conns[c].open
      BY <1>1, <3>1 DEF SessionsTypeOK, Connection
    <3>3. \A d \in Clients \ {c} : conns'[d] = conns[d]
      BY <3>1 DEF SessionsTypeOK
    <3> QED
      BY <2>1, <3>2, <3>3 DEF ConnKept
  <2>3. UNCHANGED mailbox
        \/ (conns[c].input # <<>> /\ Put(conns[c].stream, Command(request, c, FALSE)))
    BY <1>5 DEF Forward
  <2>4. CASE conns[c].input # <<>> /\ Put(conns[c].stream, Command(request, c, FALSE))
    <3>1. request \in Requests
      BY <2>1, <2>4
    <3> HIDE DEF request
    <3>2. /\ Command(request, c, FALSE) \in Message
          /\ Command(request, c, FALSE).cmd \notin {"attach", "detach"}
      BY <3>1, CommandType, SessionsAssumption DEF Commands, Command
    <3>3. \A d \in Clients : MailKept(d)
      BY <2>1, <2>4, <3>2, PutMail, TypeParts
    <3> QED
      BY <1>1, <1>2, <2>2, <3>3, BesideLeases
  <2>5. CASE UNCHANGED mailbox
    BY <1>1, <1>2, <2>2, <2>5, SameMail, BesideLeases
  <2> QED
    BY <2>3, <2>4, <2>5
<1>6. CASE Disconnect(c) \/ \E request \in Requests : ClientSends(c, request)
  <2>1. UNCHANGED mailbox
    BY <1>6 DEF Disconnect, ClientSends
  <2>2. PICK open, input : /\ \/ conns' = [conns EXCEPT ![c].open = open]
                              \/ conns' = [conns EXCEPT ![c].input = input]
                           /\ ~open
    BY <1>6 DEF Disconnect, ClientSends
  <2>3. /\ conns'[c].at = conns[c].at /\ conns'[c].stream = conns[c].stream
        /\ conns'[c].open => conns[c].open
        /\ \A d \in Clients \ {c} : conns'[d] = conns[d]
    <3>1. CASE conns' = [conns EXCEPT ![c].open = open]
      BY <2>2, <3>1 DEF SessionsTypeOK, Connection
    <3>2. CASE conns' = [conns EXCEPT ![c].input = input]
      BY <3>2 DEF SessionsTypeOK, Connection
    <3> QED
      BY <2>2, <3>1, <3>2
  <2>4. \A d \in Clients : ConnKept(d) /\ MailKept(d)
    BY <2>1, <2>3, SameMail DEF ConnKept
  <2> QED
    BY <1>1, <1>2, <2>4, BesideLeases
<1> QED
  BY <1>4, <1>5, <1>6

\* The task of a round reports, the server stops and reaps.
LEMMA TaskLeases ==
  ASSUME RegistryTypeOK, SessionsTypeOK, LeaseInv,
         \/ Server \/ ReapIdle \/ StopAll
         \/ \E s \in Streams : Round(s) \/ Emit(s) \/ Complete(s)
  PROVE  LeaseInv'
<1>1. UNCHANGED <<actors, conns>>
  BY DEF Server, SendInternal, SendStop, ReapIdle, StopAll, Round, Launch, Unwind, Report,
         Emit, Complete
<1>2. PICK k \in Keys : Operates(k)
  <2>1. \/ UNCHANGED registry_vars \/ Shutdown
        \/ \E expired \in SUBSET Keys : Reap(expired)
    BY DEF Server, SendInternal, SendStop, ReapIdle, StopAll, Round, Launch, Unwind, Report,
           Emit, Complete
  <2> QED
    BY <2>1, SomeKey DEF Operates
<1>3. UNCHANGED mailbox
      \/ \E s \in Streams, cmd \in {"internal", "stop", "started", "finished", "output"} :
           Put(s, Plain(cmd))
  BY DEF Server, SendInternal, SendStop, ReapIdle, StopAll, Round, Launch, Unwind, Report,
         Emit, Complete, SessionsTypeOK
<1>4. \A cmd \in {"internal", "stop", "started", "finished", "output"} :
        Plain(cmd) \in Message /\ Plain(cmd).cmd = cmd
  BY CommandType DEF Commands, Plain, Command
<1>5. \A c \in Clients : MailKept(c)
  BY <1>3, <1>4, PutMail, SameMail, TypeParts
<1> QED
  BY <1>1, <1>2, <1>5, SameConns, BesideLeases

LEMMA FireLeases ==
  ASSUME RegistryTypeOK, SessionsTypeOK, LeaseInv, NEW k \in TimerKeys, FireTimer(k)
  PROVE  LeaseInv'
<1>1. PICK s \in Streams : /\ OpenInternalAgent(k, s)
                           /\ actors' = [actors EXCEPT ![s] = NewActor(k, TRUE)]
  BY DEF FireTimer
<1>2. /\ k \in Keys /\ s \in Streams \ issued /\ issued' = issued \cup {s}
      /\ entries' = [entries EXCEPT ![k] = Internal(s)]
      /\ Internal(s).stream = s /\ UNCHANGED <<mailbox, conns>>
  BY <1>1, SessionsAssumption DEF FireTimer, OpenInternalAgent, Internal, Absent
<1>3. (\A c \in Clients : Visits(c)') /\ (\A r \in Streams : Lives(r)')
  BY <1>1, <1>2, BirthLeases
<1> QED
  BY <1>3 DEF LeaseInv

-----------------------------------------------------------------------------
LEMMA LeaseInit == SessionsInit => LeaseInv
<1> SUFFICES ASSUME SessionsInit PROVE LeaseInv
  OBVIOUS
<1>1. \A s \in Streams : /\ actors[s].at = "unborn" /\ actors[s].lease = Nobody
                        /\ mailbox[s] = <<>> /\ s \notin issued
  BY DEF SessionsInit, RegistryInit, Unborn
<1>2. \A c \in Clients : conns[c].at = "idle"
  BY DEF SessionsInit, Fresh
<1>3. \A c \in Clients, s \in Streams : ~Attaches(c, s) /\ ~Detaches(c, s)
  BY <1>1 DEF Attaches, Detaches
<1>4. \A c \in Clients, s \in Streams : ~Needs(c, s)
  BY <1>2, <1>3 DEF Needs
<1>5. \A c \in Clients : Visits(c)
  BY <1>1, <1>2, <1>3, <1>4, NamesAssumption DEF Visits
<1>6. \A s \in Streams : Lives(s)
  BY <1>1 DEF Lives
<1> QED
  BY <1>5, <1>6 DEF LeaseInv

LEMMA LeaseStep ==
  ASSUME RegistryTypeOK, SessionsTypeOK, RoundsInv, LeaseInv, [SessionsNext]_all_vars
  PROVE  LeaseInv'
<1>1. ASSUME NEW c \in Clients, Handler(c) \/ Client(c) PROVE LeaseInv'
  BY <1>1, OpenLeases, LoadedLeases, AttachLeases, HandlerLeases DEF Handler, Client
<1>2. ASSUME NEW s \in Streams, Actor(s) PROVE LeaseInv'
  BY <1>2, AttachedLeases, StartLeases, RequestLeases, LeavingLeases, DetachLeases DEF Actor
<1>3. CASE UNCHANGED all_vars
  <2>1. UNCHANGED <<actors, mailbox, conns>> /\ UNCHANGED registry_vars
    BY <1>3 DEF all_vars, session_vars
  <2>2. PICK k \in Keys : Operates(k)
    BY <2>1, SomeKey DEF Operates
  <2> QED
    BY <2>1, <2>2, SameMail, SameConns, BesideLeases
<1> QED
  BY <1>1, <1>2, <1>3, TaskLeases, FireLeases DEF SessionsNext

LEMMA LeasesHold == SessionsSpec => []LeaseInv
<1>1. RegistryTypeOK /\ SessionsTypeOK /\ RoundsInv /\ LeaseInv /\ [SessionsNext]_all_vars
        => LeaseInv'
  BY LeaseStep
<1> QED
  BY <1>1, LeaseInit, RoundsHold, SessionsTypes, PTL DEF SessionsSpec

\* Whoever waits to be attached holds the lease, and what is being released has
\* none: nobody waits for an actor that was told to stop for want of a client.
THEOREM ReleasesStrandNobody == SessionsSpec => []ReleaseStrandsNobody
<1>1. ASSUME RegistryTypeOK, SessionsTypeOK, RoundsInv, LeaseInv, ReleasedHasNoClient,
             NEW k \in Keys, k \in Present, entries[k].closing
      PROVE  ~Awaited(entries[k].stream)
  <2>1. PICK s \in Streams : s = entries[k].stream
    BY <1>1 DEF RegistryTypeOK, Entry, Present
  <2>2. actors[s].key = k /\ Held(s)
    BY <1>1, <2>1 DEF RoundsInv, Owned, Held
  <2>3. \A c \in Clients : ~Leased(c, s)
    BY <1>1, <2>2 DEF ReleasedHasNoClient, Leased
  <2>4. \A c \in Clients : ~Needs(c, s)
    BY <1>1, <2>2, <2>3 DEF LeaseInv, Visits
  <2>5. ASSUME NEW c \in Clients, NEW fresh \in BOOLEAN, IsIn(Command("attach", c, fresh), s)
        PROVE  Attaches(c, s)
    BY <2>5 DEF IsIn, Command, Attaches, About
  <2> QED
    BY <2>1, <2>4, <2>5 DEF Awaited, Needs
<1>2. RegistryTypeOK /\ SessionsTypeOK /\ RoundsInv /\ LeaseInv /\ ReleasedHasNoClient
        => ReleaseStrandsNobody
  BY <1>1 DEF ReleaseStrandsNobody, Present
<1> QED
  BY <1>2, LeasesHold, RoundsHold, SessionsTypes, ServiceCleansAlone, PTL

-----------------------------------------------------------------------------
(* Who was let in keeps the lease.                                         *)

\* The end of an incarnation, for its clients.
Ends(s) == actors'[s].at \in {"cleaned", "gone"}

\* An operation of the registry takes no lease; only the actor itself removes its
\* entry, when the session ends, and only a Detach of this very lease ends it.
Harmless(c, s) ==
  \E k \in Keys, r \in Streams :
    \/ ReserveRound(k) \/ FinishRound(k) \/ BeginClean(k) \/ EndClean(k) \/ Shutdown
    \/ \E expired \in SUBSET Keys : Reap(expired)
    \/ \E d \in Clients : Lease(k, d) \/ Insert(k, d, r)
    \/ OpenInternalAgent(k, r)
    \/ r # s /\ Remove(k, r)
    \/ \E d \in Clients \cup {Nobody} : (d # c \/ r # s) /\ Detach(k, r, d)
    \/ UNCHANGED registry_vars

LEMMA HarmlessHolds ==
  ASSUME RegistryTypeOK, NEW s \in Streams, NEW c \in Clients,
         HoldsLease(c, s), Harmless(c, s)
  PROVE  HoldsLease(c, s)'
<1>1. PICK j \in Keys : entries[j].stream = s /\ entries[j].leased /\ entries[j].lease_id = c
  BY DEF HoldsLease, Present
<1> SUFFICES /\ entries'[j].stream = s /\ entries'[j].leased /\ entries'[j].lease_id = c
  BY NamesAssumption DEF HoldsLease, Present
<1>2. entries[j] \in Entry /\ j \in Present
  BY <1>1, NamesAssumption DEF RegistryTypeOK, Present
<1>3. PICK k \in Keys, r \in Streams :
        \/ ReserveRound(k) \/ FinishRound(k) \/ BeginClean(k) \/ EndClean(k) \/ Shutdown
        \/ \E expired \in SUBSET Keys : Reap(expired)
        \/ \E d \in Clients : Lease(k, d) \/ Insert(k, d, r)
        \/ OpenInternalAgent(k, r)
        \/ r # s /\ Remove(k, r)
        \/ \E d \in Clients \cup {Nobody} : (d # c \/ r # s) /\ Detach(k, r, d)
        \/ UNCHANGED registry_vars
  BY DEF Harmless
<1> USE DEF RegistryTypeOK
<1>4. CASE ReserveRound(k) \/ FinishRound(k)
  BY <1>1, <1>2, <1>4 DEF ReserveRound, FinishRound, Entry
<1>5. CASE BeginClean(k) \/ EndClean(k) \/ Shutdown \/ UNCHANGED registry_vars
  BY <1>1, <1>2, <1>5 DEF BeginClean, EndClean, Shutdown, registry_vars
<1>6. ASSUME NEW expired \in SUBSET Keys, Reap(expired)
      PROVE  /\ entries'[j].stream = s /\ entries'[j].leased /\ entries'[j].lease_id = c
  BY <1>1, <1>2, <1>6 DEF Reap, Entry
<1>7. ASSUME NEW d \in Clients, Lease(k, d) \/ Insert(k, d, r)
      PROVE  /\ entries'[j].stream = s /\ entries'[j].leased /\ entries'[j].lease_id = c
  <2>1. j # k
    BY <1>1, <1>2, <1>7 DEF Lease, Insert
  <2> QED
    BY <1>1, <1>2, <1>7, <2>1 DEF Lease, Insert
<1>8. CASE OpenInternalAgent(k, r)
  <2>1. j # k
    BY <1>2, <1>8 DEF OpenInternalAgent
  <2> QED
    BY <1>1, <1>2, <1>8, <2>1 DEF OpenInternalAgent
<1>9. CASE r # s /\ Remove(k, r)
  BY <1>1, <1>2, <1>9 DEF Remove
<1>10. ASSUME NEW d \in Clients \cup {Nobody}, d # c \/ r # s, Detach(k, r, d)
       PROVE  /\ entries'[j].stream = s /\ entries'[j].leased /\ entries'[j].lease_id = c
  BY <1>1, <1>2, <1>10 DEF Detach
<1> QED
  BY <1>3, <1>4, <1>5, <1>6, <1>7, <1>8, <1>9, <1>10

\* A connection gives its lease back only when it is turned away.
LEMMA HandlerHolds ==
  ASSUME RegistryTypeOK, SessionsTypeOK, NEW s \in Streams, NEW c \in Clients,
         NEW d \in Clients, Handler(d) \/ Client(d), LetIn(c, s)'
  PROVE  Harmless(c, s)
<1>1. CASE Attach(d) /\ d = c
  <2>1. CASE conns' = [conns EXCEPT ![c] = Unbound(c)]
    <3>1. conns'[c].at = "idle"
      BY <2>1, UnboundType, TypeParts DEF SessionsTypeOK
    <3> QED
      BY <3>1 DEF LetIn
  <2>2. CASE UNCHANGED registry_vars
    BY <2>2, SomeKey DEF Harmless
  <2> QED
    BY <1>1, <2>1, <2>2 DEF Attach
<1>2. CASE Attach(d) /\ d # c
  <2>1. conns[d].key \in Keys /\ conns[d].stream \in Streams
    BY <1>2 DEF Attach, SessionsTypeOK, Connection
  <2> QED
    BY <1>2, <2>1, SomeKey DEF Attach, Harmless
<1>3. CASE Loaded(d)
  <2>1. conns[d].key \in Keys
    BY DEF SessionsTypeOK, Connection
  <2> QED
    BY <1>3, <2>1 DEF Loaded, Harmless
<1>4. ASSUME NEW k \in Keys, NEW fresh \in BOOLEAN, Open(d, k, fresh) PROVE Harmless(c, s)
  BY <1>4 DEF Open, Harmless
<1>5. CASE Forward(d) \/ Leave(d) \/ Disconnect(d) \/ \E request \in Requests : ClientSends(d, request)
  <2>1. UNCHANGED registry_vars
    BY <1>5 DEF Forward, Leave, Disconnect, ClientSends
  <2> QED
    BY <2>1, SomeKey DEF Harmless
<1> QED
  BY <1>1, <1>2, <1>3, <1>4, <1>5 DEF Handler, Client

\* An actor ends a lease by its own Detach, after the connection, or with the
\* connection, or by a Close.
LEMMA ActorHolds ==
  ASSUME RegistryTypeOK, SessionsTypeOK, LeaseInv, NEW s \in Streams, NEW c \in Clients,
         NEW r \in Streams, Actor(r), LetIn(c, s), LetIn(c, s)',
         actors[s].at # "closing", ~Ends(s)
  PROVE  Harmless(c, s)
<1> DEFINE a == actors[r]
<1>1. a \in ActorState /\ a.key \in Keys /\ a.lease \in Clients \cup {Nobody}
  BY DEF SessionsTypeOK, ActorState
<1>2. ASSUME NEW started, NEW refused, Start(r, started, refused) PROVE Harmless(c, s)
  BY <1>1, <1>2 DEF Start, Harmless
<1>3. CASE UNCHANGED registry_vars
  BY <1>1, <1>3 DEF Harmless
<1>4. CASE TakeAttach(r) \/ TakeChat(r) \/ TakeInternal(r)
  BY <1>2, <1>3, <1>4 DEF TakeAttach, TakeChat, TakeInternal
<1>5. CASE TakeCancel(r) \/ TakeClose(r) \/ TakeStarted(r) \/ TakeStop(r) \/ TakeOutput(r)
  BY <1>3, <1>5 DEF TakeCancel, TakeClose, TakeStarted, TakeStop, TakeOutput
<1>6. CASE TakeFinished(r) \/ TakeClean(r)
  BY <1>1, <1>6 DEF TakeFinished, TakeClean, Harmless
<1>7. ASSUME Remove(a.key, r), actors'[r].at \in {"cleaned", "gone"} PROVE Harmless(c, s)
  <2>1. r # s
    BY <1>7 DEF Ends
  <2> QED
    BY <1>1, <1>7, <2>1 DEF Harmless
<1>8. CASE Clean(r) \/ Exit(r)
  <2>1. [a EXCEPT !.at = "cleaned", !.engine = FALSE].at = "cleaned"
        /\ [Unborn EXCEPT !.key = a.key, !.at = "gone"].at = "gone"
    BY <1>1 DEF ActorState, Unborn
  <2>2. \A b : Becomes(r, b) => actors'[r] = b
    BY DEF Becomes, SessionsTypeOK
  <2>3. \/ UNCHANGED registry_vars \/ EndClean(a.key)
        \/ Remove(a.key, r) /\ actors'[r].at \in {"cleaned", "gone"}
    BY <1>8, <2>1, <2>2 DEF Clean, Exit
  <2> QED
    BY <1>1, <1>3, <1>7, <2>3 DEF Harmless
<1>9. CASE TakeDetach(r)
  <2> DEFINE d == Head(mailbox[r]).client
  <2>1. CASE d = a.lease /\ d = c
    <3>1. Detaches(c, r)
      BY <1>9, <2>1, TakeMail, TypeParts DEF TakeDetach
    <3>2. conns[c].at = "done"
      BY <3>1 DEF LeaseInv, Visits
    <3> QED
      BY <3>2 DEF LetIn
  <2>2. CASE d # a.lease \/ d # c
    BY <1>1, <1>3, <1>9, <2>2 DEF TakeDetach, Harmless
  <2> QED
    BY <2>1, <2>2
<1>10. CASE Reply(r)
  <2>1. CASE a.lease # c \/ r # s
    BY <1>1, <1>3, <1>10, <2>1 DEF Reply, Harmless
  <2>2. CASE a.lease = c /\ r = s
    <3>1. ASSUME HangUp(c) PROVE FALSE
      <4>1. ~conns'[c].open
        BY <3>1 DEF HangUp, SessionsTypeOK, Connection
      <4> QED
        BY <4>1 DEF LetIn
    <3> QED
      BY <1>3, <1>10, <2>2, <3>1 DEF Reply
  <2> QED
    BY <2>1, <2>2
<1> QED
  BY <1>4, <1>5, <1>6, <1>8, <1>9, <1>10 DEF Actor

\* app/fae/README.md: "An active session cannot be opened by a second client."
\* Who was let in keeps the lease while its connection lasts, for any numbers of
\* connections, sessions and incarnations and every mix of requests: until the
\* session ends or the actor answers a Close.
THEOREM UsersKeepLease == SessionsSpec => UsersHoldLease
<1>1. ASSUME RegistryTypeOK, SessionsTypeOK, LeaseInv, SessionsNext,
             NEW s \in Streams, NEW c \in Clients,
             LetIn(c, s), HoldsLease(c, s), LetIn(c, s)',
             actors[s].at # "closing", ~Ends(s)
      PROVE  HoldsLease(c, s)'
  <2>1. ASSUME NEW d \in Clients, Handler(d) \/ Client(d) PROVE Harmless(c, s)
    BY <1>1, <2>1, HandlerHolds
  <2>2. ASSUME NEW r \in Streams, Actor(r) PROVE Harmless(c, s)
    BY <1>1, <2>2, ActorHolds
  <2>3. ASSUME NEW k \in TimerKeys, FireTimer(k) PROVE Harmless(c, s)
    BY <2>3, SessionsAssumption DEF FireTimer, Harmless
  <2>4. ASSUME \/ Server \/ ReapIdle \/ StopAll
               \/ \E r \in Streams : Round(r) \/ Emit(r) \/ Complete(r)
        PROVE  Harmless(c, s)
    <3>1. \/ UNCHANGED registry_vars \/ Shutdown
          \/ \E expired \in SUBSET Keys : Reap(expired)
      BY <2>4 DEF Server, SendInternal, SendStop, ReapIdle, StopAll, Round, Launch, Unwind,
                  Report, Emit, Complete
    <3> QED
      BY <3>1, SomeKey DEF Harmless
  <2>5. Harmless(c, s)
    BY <1>1, <2>1, <2>2, <2>3, <2>4 DEF SessionsNext
  <2> QED
    BY <1>1, <2>5, HarmlessHolds
<1>2. ASSUME RegistryTypeOK, SessionsTypeOK, LeaseInv, [SessionsNext]_all_vars
      PROVE  [\A s \in Streams, c \in Clients :
                LetIn(c, s) /\ HoldsLease(c, s) /\ LetIn(c, s)' /\ ~HoldsLease(c, s)' =>
                  actors[s].at = "closing" \/ actors'[s].at \in {"cleaned", "gone"}]_all_vars
  BY <1>1, <1>2 DEF Ends
<1>3. RegistryTypeOK /\ SessionsTypeOK /\ LeaseInv /\ [SessionsNext]_all_vars =>
        [\A s \in Streams, c \in Clients :
           LetIn(c, s) /\ HoldsLease(c, s) /\ LetIn(c, s)' /\ ~HoldsLease(c, s)' =>
             actors[s].at = "closing" \/ actors'[s].at \in {"cleaned", "gone"}]_all_vars
  BY <1>2
<1> QED
  BY <1>3, LeasesHold, SessionsTypes, PTL DEF UsersHoldLease, SessionsSpec
====
