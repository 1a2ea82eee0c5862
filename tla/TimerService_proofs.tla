------------------------- MODULE TimerService_proofs -------------------------
(***************************************************************************)
(* Machine-checked theorems about TimerStore and TimerService, for every   *)
(* value of their constants.  Of the store: type correctness, and the      *)
(* invariants NoOverlap, NeverStartedTwice, LimitRespected and             *)
(* AnswersAreDurable.  Of the service: that its poller, dispatcher, actors *)
(* and shutdown use the store as its specification says, and that no due   *)
(* time is executed twice.                                                 *)
(***************************************************************************)
EXTENDS TimerService, FiniteSetTheorems, TLAPS

-----------------------------------------------------------------------------
(* The operators on schedules and partitions return what their names say *)

\* timer::next returns no instant or one of the schedule's after the given one.
LEMMA NextFireType ==
  ASSUME NEW s \in Schedules, NEW now
  PROVE  NextFire(s, now) \in Time
  BY SchedulesAssumption DEF NextFire, Time

\* timer::latest returns no instant or one of the schedule's.
LEMMA LatestFireType ==
  ASSUME NEW s \in Schedules, NEW now
  PROVE  LatestFire(s, now) \in Time
  BY SchedulesAssumption DEF LatestFire, Time

LEMMA TimeIsNat == Time \subseteq Nat
  BY InstantsAssumption DEF Time, NoTime

LEMMA LaterType ==
  ASSUME NEW a \in Time, NEW b \in Time
  PROVE  Later(a, b) \in Time
  BY DEF Later

LEMMA EmptyType == EmptyPartition \in Partition /\ Idle.key \in Owners
  <1>1. (CHOOSE s \in Schedules : TRUE) \in Schedules
    BY SchedulesAssumption
  <1>2. (CHOOSE pol \in Policies : TRUE) \in Policies
    BY NonEmptyAssumption
  <1>3. (CHOOSE t \in TimerIds : TRUE) \in TimerIds
    BY NonEmptyAssumption
  <1>4. (CHOOSE k \in Owners : TRUE) \in Owners
    BY NonEmptyAssumption
  <1>5. NoTimer \in TimerDefinition
    BY <1>1, <1>2 DEF NoTimer, TimerDefinition, TimerStates, Time
  <1>6. NoOccurrence \in TimerOccurrence
    BY <1>3 DEF NoOccurrence, TimerOccurrence, Statuses, Time
  <1>7. QED
    BY <1>4, <1>5, <1>6 DEF EmptyPartition, Partition, Idle

\* Installing a definition keeps a partition a partition.
LEMMA SetTimerType ==
  ASSUME NEW p \in Partition, NEW t \in TimerIds, NEW tm \in TimerDefinition
  PROVE  [p EXCEPT !.timers[t] = tm] \in Partition
  BY DEF Partition

LEMMA SetStatusType ==
  ASSUME NEW p \in Partition, NEW o \in OccIds, NEW status \in Statuses
  PROVE  SetStatus(p, o, status) \in Partition
  BY DEF SetStatus, Partition, TimerOccurrence

LEMMA CreatedType ==
  ASSUME NEW p \in Partition, NEW t \in TimerIds, NEW key \in Keys,
         NEW s \in Schedules, NEW policy \in Policies, NEW now \in Instants
  PROVE  Created(p, t, key, s, policy, now) \in Partition
  <1>1. NextFire(s, now) \in Time
    BY NextFireType
  <1>2. [state |-> "active", revision |-> 1, schedule |-> s, policy |-> policy,
         accepted |-> 0, next |-> NextFire(s, now),
         queued |-> NoTime, last |-> NoTime] \in TimerDefinition
    BY <1>1 DEF TimerDefinition, TimerStates, Time
  <1>3. [key |-> key, schedule |-> s, policy |-> policy, id |-> t] \in Idempotency
    BY DEF Idempotency
  <1>4. QED
    BY <1>2, <1>3 DEF Created, Partition

LEMMA UpdatedType ==
  ASSUME NEW tm \in TimerDefinition, NEW s \in Schedules \cup {Keep},
         NEW policy \in Policies \cup {Keep}, NEW enabled, NEW now \in Instants
  PROVE  Updated(tm, s, policy, enabled, now) \in TimerDefinition
  <1>1. Or(s, tm.schedule) \in Schedules /\ Or(policy, tm.policy) \in Policies
    BY DEF Or, TimerDefinition
  <1>2. NextFire(Or(s, tm.schedule), now) \in Time
    BY <1>1, NextFireType
  <1>3. tm.state \in TimerStates
    BY DEF TimerDefinition
  <1>4. QED
    BY <1>1, <1>2, <1>3 DEF Updated, TimerDefinition, TimerStates, Time

LEMMA DeletedType ==
  ASSUME NEW p \in Partition, NEW t \in TimerIds
  PROVE  Deleted(p, t) \in Partition
  <1> DEFINE tm == p.timers[t]
  <1>0. tm \in TimerDefinition /\ tm.revision + 1 \in Nat
    BY DEF Partition, TimerDefinition
  <1>1. Tombstone(tm) \in TimerDefinition
    BY <1>0 DEF Tombstone, TimerDefinition, TimerStates, Time
  <1>2. \A o \in OccIds : Suppressed(p, t, o) \in TimerOccurrence
    BY DEF Suppressed, Partition, TimerOccurrence, Statuses, Terminal
  <1>3. QED
    BY <1>1, <1>2 DEF Deleted, Partition

LEMMA RecoveredType ==
  ASSUME NEW p \in Partition
  PROVE  Recovered(p) \in Partition
  BY DEF Recovered, Interrupted, Partition, TimerOccurrence, Statuses, Terminal

LEMMA RetainedType ==
  ASSUME NEW p \in Partition, NEW old
  PROVE  Retained(p, old) \in Partition
  BY DEF Retained, Partition, TimerOccurrence, Statuses

LEMMA QueueType ==
  ASSUME NEW tm \in TimerDefinition, NEW now \in Time
  PROVE  Queue(tm, now) \in TimerDefinition
  <1>1. LatestFire(tm.schedule, now) \in Time /\ NextFire(tm.schedule, now) \in Time
    BY NextFireType, LatestFireType DEF TimerDefinition
  <1>2. Later(LatestFire(tm.schedule, now), tm.next) \in Time
    BY <1>1, LaterType DEF TimerDefinition
  <1>3. ASSUME NEW q \in Time, NEW st \in TimerStates
        PROVE  [tm EXCEPT !.queued = q, !.state = st,
                          !.next = NextFire(tm.schedule, now)] \in TimerDefinition
    BY <1>1 DEF TimerDefinition
  <1>4. tm.queued \in Time /\ tm.state \in TimerStates /\ "completed" \in TimerStates
    BY DEF TimerDefinition, TimerStates
  <1>5. QED
    BY <1>2, <1>3, <1>4 DEF Queue

LEMMA AcceptType ==
  ASSUME NEW tm \in TimerDefinition
  PROVE  Accept(tm) \in TimerDefinition
  <1>1. tm.accepted + 1 \in Nat
    BY DEF TimerDefinition
  <1>2. QED
    BY <1>1 DEF Accept, TimerDefinition, TimerStates, Time

LEMMA RetireType ==
  ASSUME NEW tm \in TimerDefinition
  PROVE  Retire(tm) \in TimerDefinition
  BY DEF Retire, TimerDefinition, TimerStates

LEMMA NewOccurrenceType ==
  ASSUME NEW tm \in TimerDefinition, NEW t \in TimerIds
  PROVE  NewOccurrence(tm, t) \in TimerOccurrence
  BY DEF NewOccurrence, TimerOccurrence, TimerDefinition, Statuses, Open

-----------------------------------------------------------------------------
(* The inductive invariant.  NoOverlap and NeverStartedTwice are not         *)
(* inductive: that a new occurrence is neither a second open one nor a due   *)
(* time already started rests on last_scheduled_at bounding every due time   *)
(* of the timer's occurrences and every due time ever started, in memory, on *)
(* disk and in the copy a poll is working on.                                *)

Emitted(p, o) == p.occs[o].status # "absent"

\* What holds of every timer of a partition, and of its occurrences.
TimerSound(tm, idem, t) ==
  /\ tm.queued # NoTime => tm.queued > tm.last
  /\ tm.schedule.limit # NoLimit =>
       /\ tm.accepted <= tm.schedule.limit
       /\ tm.state \in {"active", "paused"} => tm.accepted < tm.schedule.limit
  /\ tm.state = "absent" => tm.revision = 0
  /\ tm.state # "absent" => \E e \in idem : e.id = t

OccurrencesSound(p) ==
  /\ \A o \in OccIds : Emitted(p, o) =>
       /\ p.timers[p.occs[o].timer].state # "absent"
       /\ p.occs[o].at <= p.timers[p.occs[o].timer].last
  /\ \A o, n \in OccIds :
       Emitted(p, o) /\ Emitted(p, n) /\ o # n /\ p.occs[o].timer = p.occs[n].timer =>
         /\ p.occs[o].at # p.occs[n].at
         /\ ~(p.occs[o].status \in Open /\ p.occs[n].status \in Open)

Sound(p) ==
  /\ \A t \in TimerIds : TimerSound(p.timers[t], p.idem, t)
  /\ OccurrencesSound(p)

\* Nothing that was started is pending.
Unstarted(k, p, st) ==
  \A o \in OccIds :
    p.occs[o].status = "pending" => <<k, p.occs[o].timer, p.occs[o].at>> \notin st

\* The partition remembers what was started and what clients were told.
Fenced(k, p, st, td) ==
  /\ \A t \in TimerIds, s \in Time :
       <<k, t, s>> \in st => p.timers[t].state # "absent" /\ s <= p.timers[t].last
  /\ \A t \in TimerIds :
       td[k][t] > 0 => td[k][t] <= p.timers[t].revision /\ \E e \in p.idem : e.id = t

Good(k, p, st, td) ==
  p \in Partition /\ Sound(p) /\ Unstarted(k, p, st) /\ Fenced(k, p, st, td)

\* q was derived from p.
Newer(q, p) ==
  /\ \A t \in TimerIds : p.timers[t].revision <= q.timers[t].revision
  /\ p.idem \subseteq q.idem

CopiesGood ==
  \A k \in Owners :
    /\ Good(k, disk[k], started, told)
    /\ Sound(mem[k]) /\ Unstarted(k, mem[k], started)
    /\ k \notin damaged => Fenced(k, mem[k], started, told) /\ Newer(disk[k], mem[k])
    /\ phase # "down" /\ k \in damaged => mem[k] = EmptyPartition

PollGood ==
  /\ poll.stage # "idle" => phase = "up" /\ poll.keys \cap damaged = {}
  /\ poll.stage = "timers" =>
       /\ poll.key \notin damaged
       /\ Good(poll.key, poll.work, started, told)
       /\ Newer(poll.work, mem[poll.key])
       /\ \A t \in poll.todo : poll.work.timers[t].state = "active"

PhaseGood ==
  /\ phase = "down" => unrecovered = {}
  /\ unrecovered \cap damaged = {}

IInv == TypeOK /\ CopiesGood /\ PollGood /\ PhaseGood

-----------------------------------------------------------------------------
(* What each operator preserves *)

\* An occurrence's record may advance: it keeps its timer and its due time,
\* opens again only if it was open, and is pending again only if it was.
Advanced(p, q) ==
  /\ q.timers = p.timers /\ q.idem = p.idem
  /\ \A o \in OccIds :
       /\ q.occs[o].timer = p.occs[o].timer /\ q.occs[o].at = p.occs[o].at
       /\ Emitted(q, o) => Emitted(p, o)
       /\ q.occs[o].status \in Open => p.occs[o].status \in Open

LEMMA AdvancedSound ==
  ASSUME NEW p, NEW q, Sound(p), Advanced(p, q)
  PROVE  Sound(q)
  <1>1. OccurrencesSound(q)
    BY DEF Sound, OccurrencesSound, Advanced
  <1>2. QED
    BY <1>1 DEF Sound, Advanced

LEMMA AdvancedFenced ==
  ASSUME NEW p \in Partition, NEW q, NEW k, NEW st, NEW td,
         Fenced(k, p, st, td), Advanced(p, q)
  PROVE  Fenced(k, q, st, td) /\ Newer(q, p)
  <1>1. \A t \in TimerIds : p.timers[t].revision \in Nat
    BY DEF Partition, TimerDefinition
  <1>2. QED
    BY <1>1 DEF Fenced, Advanced, Newer

LEMMA AdvancedGood ==
  ASSUME NEW p, NEW q \in Partition, NEW k, NEW st, NEW td,
         Good(k, p, st, td), Advanced(p, q),
         \A o \in OccIds : q.occs[o].status = "pending" => p.occs[o].status = "pending"
  PROVE  Good(k, q, st, td)
  <1>1. Sound(q) /\ Fenced(k, q, st, td)
    BY AdvancedSound, AdvancedFenced DEF Good
  <1>2. Unstarted(k, q, st)
    BY DEF Unstarted, Good, Advanced
  <1>3. QED
    BY <1>1, <1>2 DEF Good

\* A definition may be replaced by a later revision of itself that keeps
\* last_scheduled_at, queues only later due times and respects its limit.
LEMMA ReplacedGood ==
  ASSUME NEW k \in Owners, NEW p, NEW st, NEW td, Good(k, p, st, td),
         NEW t \in TimerIds, NEW tm \in TimerDefinition,
         p.timers[t].state # "absent", tm.state # "absent",
         tm.last = p.timers[t].last, p.timers[t].revision <= tm.revision,
         tm.queued # NoTime => tm.queued > tm.last,
         tm.schedule.limit # NoLimit =>
           /\ tm.accepted <= tm.schedule.limit
           /\ tm.state \in {"active", "paused"} => tm.accepted < tm.schedule.limit,
         td \in [Owners -> [TimerIds -> Nat]]
  PROVE  /\ Good(k, [p EXCEPT !.timers[t] = tm], st, td)
         /\ Newer([p EXCEPT !.timers[t] = tm], p)
  <1> DEFINE q == [p EXCEPT !.timers[t] = tm]
  <1>1. p \in Partition /\ q \in Partition
    BY SetTimerType DEF Good
  <1>2. /\ q.occs = p.occs /\ q.idem = p.idem /\ q.timers[t] = tm
        /\ \A u \in TimerIds : u # t => q.timers[u] = p.timers[u]
    BY <1>1 DEF Partition
  <1>3. \A u \in TimerIds : /\ q.timers[u].last = p.timers[u].last
                            /\ p.timers[u].revision <= q.timers[u].revision
                            /\ q.timers[u].state # "absent" <=> p.timers[u].state # "absent"
    BY <1>1, <1>2 DEF Partition, TimerDefinition
  <1> HIDE DEF q
  <1>4. \A o \in OccIds : q.occs[o].timer \in TimerIds
    BY <1>1 DEF Partition, TimerOccurrence
  <1>5. Sound(q)
    <2>1. \A u \in TimerIds : TimerSound(q.timers[u], q.idem, u)
      BY <1>2 DEF Good, Sound, TimerSound
    <2>2. OccurrencesSound(q)
      BY <1>2, <1>3, <1>4 DEF Good, Sound, OccurrencesSound, Emitted
    <2>3. QED
      BY <2>1, <2>2 DEF Sound
  <1>6. Unstarted(k, q, st)
    BY <1>2 DEF Good, Unstarted
  <1>7. Newer(q, p)
    BY <1>2, <1>3 DEF Newer
  <1>8. Fenced(k, q, st, td)
    <2>1. \A u \in TimerIds : td[k][u] \in Nat /\ p.timers[u].revision \in Nat
                                /\ q.timers[u].revision \in Nat
      BY <1>1 DEF Partition, TimerDefinition
    <2>2. QED
      BY <2>1, <1>2, <1>3 DEF Good, Fenced
  <1>9. QED
    BY <1>1, <1>5, <1>6, <1>7, <1>8 DEF Good, q

LEMMA EmptyGood ==
  ASSUME NEW k, NEW st
  PROVE  /\ Sound(EmptyPartition) /\ Unstarted(k, EmptyPartition, st)
         /\ \A t \in TimerIds : EmptyPartition.timers[t].state = "absent"
         /\ \A o \in OccIds : EmptyPartition.occs[o].status = "absent"
  <1>1. /\ \A t \in TimerIds : EmptyPartition.timers[t] = NoTimer
        /\ \A o \in OccIds : EmptyPartition.occs[o] = NoOccurrence
    BY DEF EmptyPartition
  <1>2. /\ NoTimer.queued = NoTime /\ NoTimer.accepted = 0 /\ NoTimer.revision = 0
        /\ NoTimer.state = "absent" /\ NoTimer.schedule \in Schedules
    <2>1. (CHOOSE s \in Schedules : TRUE) \in Schedules
      BY SchedulesAssumption
    <2>2. QED
      BY <2>1 DEF NoTimer
  <1>3. NoTimer.schedule.limit \in Nat
    BY <1>2, SchedulesAssumption
  <1>4. NoOccurrence.status = "absent"
    BY DEF NoOccurrence
  <1>5. Sound(EmptyPartition)
    BY <1>1, <1>2, <1>3, <1>4 DEF Sound, TimerSound, OccurrencesSound, Emitted, NoLimit
  <1>6. QED
    BY <1>1, <1>2, <1>4, <1>5 DEF Unstarted

\* A new timer has no history.
LEMMA CreatedGood ==
  ASSUME NEW k \in Owners, NEW p, NEW st, NEW td \in [Owners -> [TimerIds -> Nat]],
         Good(k, p, st, td), NEW t \in TimerIds, p.timers[t].state = "absent",
         NEW key \in Keys, NEW s \in Schedules, NEW policy \in Policies,
         NEW now \in Instants
  PROVE  /\ Good(k, Created(p, t, key, s, policy, now), st, td)
         /\ Newer(Created(p, t, key, s, policy, now), p)
         /\ Created(p, t, key, s, policy, now).timers[t].state # "absent"
  <1> DEFINE q == Created(p, t, key, s, policy, now)
             e == [key |-> key, schedule |-> s, policy |-> policy, id |-> t]
  <1>1. p \in Partition /\ q \in Partition
    BY CreatedType DEF Good
  <1>2. /\ q.occs = p.occs /\ q.idem = p.idem \cup {e}
        /\ q.timers[t].state = "active" /\ q.timers[t].revision = 1
        /\ q.timers[t].queued = NoTime /\ q.timers[t].schedule = s
        /\ q.timers[t].accepted = 0
        /\ \A u \in TimerIds : u # t => q.timers[u] = p.timers[u]
    BY <1>1 DEF Created, Partition
  <1>3. e \in q.idem /\ e.id = t
    BY <1>2
  <1> HIDE DEF q, e
  <1>4. \A o \in OccIds : p.occs[o].timer \in TimerIds
    BY <1>1 DEF Partition, TimerOccurrence
  <1>5. \A o \in OccIds : Emitted(p, o) => p.occs[o].timer # t
    BY DEF Good, Sound, OccurrencesSound
  <1>6. \A u \in TimerIds : p.timers[u].state = "absent" => p.timers[u].revision = 0
    BY DEF Good, Sound, TimerSound
  <1>7. Sound(q)
    <2>1. s.limit \in Nat
      BY SchedulesAssumption
    <2>2. TimerSound(q.timers[t], q.idem, t)
      BY <2>1, <1>2, <1>3 DEF TimerSound, NoLimit
    <2>3. \A u \in TimerIds : u # t => TimerSound(q.timers[u], q.idem, u)
      BY <1>2 DEF Good, Sound, TimerSound
    <2>4. OccurrencesSound(q)
      BY <1>2, <1>4, <1>5 DEF Good, Sound, OccurrencesSound, Emitted
    <2>5. QED
      BY <2>2, <2>3, <2>4 DEF Sound
  <1>8. Unstarted(k, q, st)
    BY <1>2 DEF Good, Unstarted
  <1>9. Newer(q, p)
    <2>1. p.timers[t].revision <= q.timers[t].revision
      BY <1>2, <1>6
    <2>2. \A u \in TimerIds : p.timers[u].revision \in Nat
      BY <1>1 DEF Partition, TimerDefinition
    <2>3. QED
      BY <2>1, <2>2, <1>2 DEF Newer
  <1>10. Fenced(k, q, st, td)
    <2>1. \A x \in Time : <<k, t, x>> \notin st
      BY DEF Good, Fenced
    <2>2. ~(td[k][t] > 0)
      <3>1. td[k][t] \in Nat /\ p.timers[t].revision = 0
        BY <1>6
      <3>2. QED
        BY <3>1 DEF Good, Fenced
    <2>3. QED
      BY <2>1, <2>2, <1>2 DEF Good, Fenced
  <1>11. QED
    BY <1>1, <1>2, <1>7, <1>8, <1>9, <1>10 DEF Good, q

\* poll puts the queued due time of a quiet timer into a new occurrence.
LEMMA QueueSound ==
  ASSUME NEW tm \in TimerDefinition, NEW now \in Time, NEW idem, NEW t,
         TimerSound(tm, idem, t), tm.state = "active"
  PROVE  LET r == Queue(tm, now)
         IN  /\ TimerSound(r, idem, t)
             /\ r.state \in {"active", "completed"} /\ r.last = tm.last
             /\ r.revision = tm.revision /\ r.schedule = tm.schedule
             /\ r.accepted = tm.accepted
             /\ r.schedule.limit # NoLimit => r.accepted < r.schedule.limit
  <1> DEFINE r == Queue(tm, now)
  <1>1. /\ r.state \in {"active", "completed"} /\ r.last = tm.last
        /\ r.revision = tm.revision /\ r.schedule = tm.schedule
        /\ r.accepted = tm.accepted
        /\ r.queued = tm.queued \/ r.queued > tm.last
    BY DEF Queue, TimerDefinition
  <1>2. QED
    BY <1>1 DEF TimerSound

LEMMA AcceptedGood ==
  ASSUME NEW k \in Owners, NEW p, NEW st, NEW td \in [Owners -> [TimerIds -> Nat]],
         Good(k, p, st, td), NEW t \in TimerIds, NEW o \in OccIds,
         NEW tm \in TimerDefinition, TimerSound(tm, p.idem, t),
         p.timers[t].state # "absent", tm.state \in {"active", "completed"},
         tm.last = p.timers[t].last, tm.revision = p.timers[t].revision,
         tm.schedule.limit # NoLimit => tm.accepted < tm.schedule.limit,
         tm.queued # NoTime, Quiet(p, t), IsFresh(p, o),
         NEW q, q = Accepted(p, t, o, tm)
  PROVE  Good(k, q, st, td) /\ Newer(q, p)
  <1> DEFINE new == Retire(Accept(tm))
             occ == NewOccurrence(tm, t)
  <1>0. q = [p EXCEPT !.timers[t] = new, !.occs[o] = occ]
    BY DEF Accepted
  <1>1. p \in Partition /\ new \in TimerDefinition /\ occ \in TimerOccurrence
    BY AcceptType, RetireType, NewOccurrenceType DEF Good
  <1>2. /\ new.last = tm.queued /\ new.queued = NoTime
        /\ new.accepted = tm.accepted + 1 /\ new.schedule = tm.schedule
        /\ new.revision = tm.revision /\ new.state \in {"active", "completed"}
        /\ new.state = "active" =>
             tm.schedule.limit = NoLimit \/ ~(tm.accepted + 1 >= tm.schedule.limit)
    <2>1. /\ Accept(tm).last = tm.queued /\ Accept(tm).queued = NoTime
          /\ Accept(tm).accepted = tm.accepted + 1 /\ Accept(tm).schedule = tm.schedule
          /\ Accept(tm).revision = tm.revision
          /\ Accept(tm).state \in {"active", "completed"}
          /\ Accept(tm).state = "active" =>
               tm.schedule.limit = NoLimit \/ ~(tm.accepted + 1 >= tm.schedule.limit)
      BY DEF Accept, TimerDefinition
    <2>2. Accept(tm) \in TimerDefinition
      BY AcceptType
    <2>3. QED
      BY <2>1, <2>2 DEF Retire, TimerDefinition
  <1>3. occ.status = "pending" /\ occ.timer = t /\ occ.at = tm.queued
    BY DEF NewOccurrence
  <1> HIDE DEF new, occ
  <1>4. /\ q \in Partition /\ q.idem = p.idem
        /\ q.timers[t] = new /\ q.occs[o] = occ
        /\ \A u \in TimerIds : u # t => q.timers[u] = p.timers[u]
        /\ \A n \in OccIds : n # o => q.occs[n] = p.occs[n]
    <2>1. /\ p.timers \in [TimerIds -> TimerDefinition]
          /\ p.occs \in [OccIds -> TimerOccurrence] /\ p.idem \in SUBSET Idempotency
          /\ p = [timers |-> p.timers, occs |-> p.occs, idem |-> p.idem]
      BY <1>1 DEF Partition
    <2>2. q = [timers |-> [p.timers EXCEPT ![t] = new],
               occs   |-> [p.occs EXCEPT ![o] = occ], idem |-> p.idem]
      BY <1>0, <2>1
    <2>3. QED
      BY <1>1, <2>1, <2>2 DEF Partition
  <1>5. /\ tm.queued > tm.last /\ tm.queued \in Nat /\ tm.last \in Nat
        /\ tm.accepted \in Nat /\ tm.schedule.limit \in Nat
    BY TimeIsNat, SchedulesAssumption DEF TimerSound, TimerDefinition
  <1>6. \A n \in OccIds : /\ p.occs[n].timer \in TimerIds /\ p.occs[n].at \in Nat
                          /\ p.timers[p.occs[n].timer].last \in Nat
    BY <1>1, TimeIsNat DEF Partition, TimerOccurrence, TimerDefinition
  <1>7. \A n \in OccIds : Emitted(p, n) /\ p.occs[n].timer = t =>
          p.occs[n].at < tm.queued /\ p.occs[n].status \notin Open
    BY <1>5, <1>6 DEF Good, Sound, OccurrencesSound, Quiet
  <1>8. Sound(q)
    <2>1. TimerSound(q.timers[t], q.idem, t)
      <3>1. tm.state # "absent" => \E e \in p.idem : e.id = t
        BY DEF TimerSound
      <3>2. QED
        BY <1>2, <1>4, <1>5, <3>1 DEF TimerSound, NoLimit
    <2>2. \A u \in TimerIds : u # t => TimerSound(q.timers[u], q.idem, u)
      BY <1>4 DEF Good, Sound
    <2>3. ~Emitted(p, o) /\ Emitted(q, o)
      BY <1>3, <1>4 DEF Emitted, IsFresh
    <2>4. ASSUME NEW n \in OccIds, Emitted(q, n)
          PROVE  /\ q.timers[q.occs[n].timer].state # "absent"
                 /\ q.occs[n].at <= q.timers[q.occs[n].timer].last
      <3>1. CASE n = o
        BY <3>1, <1>2, <1>3, <1>4, <1>5
      <3>2. CASE n # o
        <4>1. Emitted(p, n) /\ q.occs[n] = p.occs[n]
          BY <3>2, <2>4, <1>4 DEF Emitted
        <4>2. CASE p.occs[n].timer = t
          BY <4>1, <4>2, <1>2, <1>4, <1>5, <1>6, <1>7
        <4>3. CASE p.occs[n].timer # t
          BY <4>1, <4>3, <1>4, <1>6 DEF Good, Sound, OccurrencesSound
        <4>4. QED
          BY <4>2, <4>3
      <3>3. QED
        BY <3>1, <3>2
    <2>5. ASSUME NEW n \in OccIds, NEW m \in OccIds, Emitted(q, n), Emitted(q, m),
                 n # m, q.occs[n].timer = q.occs[m].timer
          PROVE  /\ q.occs[n].at # q.occs[m].at
                 /\ ~(q.occs[n].status \in Open /\ q.occs[m].status \in Open)
      <3>1. CASE n = o
        BY <3>1, <2>5, <1>3, <1>4, <1>5, <1>6, <1>7 DEF Emitted
      <3>2. CASE m = o
        BY <3>2, <2>5, <1>3, <1>4, <1>5, <1>6, <1>7 DEF Emitted
      <3>3. CASE n # o /\ m # o
        BY <3>3, <2>5, <1>4 DEF Good, Sound, OccurrencesSound, Emitted
      <3>4. QED
        BY <3>1, <3>2, <3>3
    <2>6. QED
      BY <2>1, <2>2, <2>4, <2>5 DEF Sound, OccurrencesSound
  <1>9. Unstarted(k, q, st)
    <2>1. <<k, t, tm.queued>> \notin st
      BY <1>5 DEF Good, Fenced, TimerDefinition
    <2>2. QED
      BY <2>1, <1>3, <1>4 DEF Good, Unstarted
  <1>10. Newer(q, p)
    <2>1. \A u \in TimerIds : p.timers[u].revision \in Nat
      BY <1>1 DEF Partition, TimerDefinition
    <2>2. QED
      BY <2>1, <1>2, <1>4 DEF Newer
  <1>11. Fenced(k, q, st, td)
    <2>1. \A u \in TimerIds : p.timers[u].last <= q.timers[u].last
                              /\ p.timers[u].last \in Nat /\ q.timers[u].last \in Nat
      <3>1. \A u \in TimerIds : p.timers[u].last \in Nat
        BY <1>1, TimeIsNat DEF Partition, TimerDefinition
      <3>2. \A x \in Nat : x <= x
        OBVIOUS
      <3>3. p.timers[t].last = tm.last
        OBVIOUS
      <3>4. QED
        BY <1>2, <1>4, <1>5, <3>1, <3>2, <3>3
    <2>2. \A u \in TimerIds : q.timers[u].revision = p.timers[u].revision
      BY <1>2, <1>4
    <2>3. \A u \in TimerIds : p.timers[u].state # "absent" => q.timers[u].state # "absent"
      BY <1>2, <1>4
    <2>4. \A x \in Time : x \in Nat
      BY TimeIsNat
    <2>5. QED
      BY <2>1, <2>2, <2>3, <2>4, <1>4 DEF Good, Fenced
  <1>12. QED
    BY <1>4, <1>8, <1>9, <1>10, <1>11 DEF Good

-----------------------------------------------------------------------------
(* Installing a partition *)

\* What other owners started or were told does not matter to a partition.
LEMMA SameHistory ==
  ASSUME NEW j, NEW r \in Partition, NEW st, NEW td, NEW st2, NEW td2,
         \A t \in TimerIds, s \in Time : <<j, t, s>> \in st2 <=> <<j, t, s>> \in st,
         td2[j] = td[j]
  PROVE  /\ Fenced(j, r, st, td) => Fenced(j, r, st2, td2)
         /\ Unstarted(j, r, st) => Unstarted(j, r, st2)
  <1>1. \A o \in OccIds : r.occs[o].timer \in TimerIds /\ r.occs[o].at \in Time
    BY DEF Partition, TimerOccurrence
  <1>2. QED
    BY <1>1 DEF Fenced, Unstarted

LEMMA MemGood ==
  ASSUME TypeOK, CopiesGood, NEW k \in Owners, k \notin damaged
  PROVE  Good(k, mem[k], started, told)
  BY DEF TypeOK, CopiesGood, Good

LEMMA NewerReflexive ==
  ASSUME NEW p \in Partition
  PROVE  Newer(p, p)
  BY DEF Newer, Partition, TimerDefinition

LEMMA InstallStep ==
  ASSUME TypeOK, CopiesGood, NEW k \in Owners, k \notin damaged,
         NEW p, Good(k, p, started', told'), Newer(p, mem[k]),
         \A j \in Owners \ {k} :
           /\ told'[j] = told[j]
           /\ \A t \in TimerIds, s \in Time :
                <<j, t, s>> \in started' <=> <<j, t, s>> \in started,
         \/ Save(k, p)
         \/ SaveFails(k, p) /\ Good(k, disk[k], started', told')
                            /\ Good(k, mem[k], started', told'),
         UNCHANGED <<damaged, phase>>
  PROVE  /\ CopiesGood'
         /\ mem' \in [Owners -> Partition] /\ disk' \in [Owners -> Partition]
  <1>1. p \in Partition
    BY DEF Good
  <1>2. mem' \in [Owners -> Partition] /\ disk' \in [Owners -> Partition]
    BY <1>1 DEF TypeOK, Save, SaveFails
  <1>3. ASSUME NEW j \in Owners, j # k
        PROVE  /\ Good(j, disk'[j], started', told')
               /\ Sound(mem'[j]) /\ Unstarted(j, mem'[j], started')
               /\ j \notin damaged' =>
                    Fenced(j, mem'[j], started', told') /\ Newer(disk'[j], mem'[j])
               /\ phase' # "down" /\ j \in damaged' => mem'[j] = EmptyPartition
    <2>1. mem'[j] = mem[j] /\ disk'[j] = disk[j]
      BY <1>3 DEF TypeOK, Save, SaveFails
    <2>2. mem[j] \in Partition /\ disk[j] \in Partition
      BY DEF TypeOK
    <2>3. Good(j, disk[j], started', told')
      BY <2>2, <1>3, SameHistory DEF CopiesGood, Good
    <2>4. Unstarted(j, mem[j], started')
      BY <2>2, <1>3, SameHistory DEF CopiesGood
    <2>5. j \notin damaged => Fenced(j, mem[j], started', told')
      BY <2>2, <1>3, SameHistory DEF CopiesGood
    <2>6. QED
      BY <2>1, <2>3, <2>4, <2>5 DEF CopiesGood
  <1>4. /\ Good(k, disk'[k], started', told')
        /\ Sound(mem'[k]) /\ Unstarted(k, mem'[k], started')
        /\ Fenced(k, mem'[k], started', told') /\ Newer(disk'[k], mem'[k])
    <2>1. CASE Save(k, p)
      <3>1. mem'[k] = p /\ disk'[k] = p
        BY <2>1 DEF Save, TypeOK
      <3>2. QED
        BY <3>1, <1>1, NewerReflexive DEF Good
    <2>2. CASE SaveFails(k, p) /\ Good(k, disk[k], started', told')
                               /\ Good(k, mem[k], started', told')
      <3>1. mem'[k] = mem[k] /\ (disk'[k] = disk[k] \/ disk'[k] = p)
        BY <2>2 DEF SaveFails, TypeOK
      <3>2. Newer(disk[k], mem[k])
        BY DEF CopiesGood
      <3>3. QED
        BY <3>1, <3>2, <2>2 DEF Good
    <2>3. QED
      BY <2>1, <2>2
  <1>5. CopiesGood'
    BY <1>3, <1>4 DEF CopiesGood
  <1>6. QED
    BY <1>2, <1>5

\* The same when nothing was started and nobody was told.
LEMMA QuietInstall ==
  ASSUME TypeOK, CopiesGood, NEW k \in Owners, k \notin damaged,
         NEW p, Good(k, p, started, told), Newer(p, mem[k]),
         Save(k, p) \/ SaveFails(k, p),
         UNCHANGED <<damaged, phase, started, told>>
  PROVE  /\ CopiesGood'
         /\ mem' \in [Owners -> Partition] /\ disk' \in [Owners -> Partition]
  <1>1. Good(k, disk[k], started', told') /\ Good(k, mem[k], started', told')
        /\ Good(k, p, started', told')
    BY MemGood DEF CopiesGood
  <1>2. QED
    BY <1>1, InstallStep

\* A request commits its partition and answers with the timer's revision.
LEMMA CommitInstall ==
  ASSUME TypeOK, CopiesGood, NEW k \in Owners, k \notin damaged, NEW t \in TimerIds,
         NEW p, Good(k, p, started, told), Newer(p, mem[k]),
         p.timers[t].state # "absent",
         Commit(k, t, p), UNCHANGED <<damaged, phase, started>>
  PROVE  /\ CopiesGood'
         /\ mem' \in [Owners -> Partition] /\ disk' \in [Owners -> Partition]
         /\ told' \in [Owners -> [TimerIds -> Nat]]
  <1>1. CASE SaveFails(k, p) /\ UNCHANGED told
    BY <1>1, QuietInstall DEF TypeOK
  <1>2. CASE Save(k, p) /\ Tell(k, t, p.timers[t].revision)
    <2>1. p.timers[t].revision \in Nat
      BY DEF Good, Partition, TimerDefinition
    <2>2. /\ told' \in [Owners -> [TimerIds -> Nat]]
          /\ told'[k][t] = p.timers[t].revision
          /\ \A u \in TimerIds : u # t => told'[k][u] = told[k][u]
          /\ \A j \in Owners \ {k} : told'[j] = told[j]
      BY <1>2, <2>1 DEF Tell, TypeOK
    <2>3. \E e \in p.idem : e.id = t
      BY DEF Good, Sound, TimerSound
    <2>4. Good(k, p, started', told')
      BY <2>1, <2>2, <2>3 DEF Good, Fenced
    <2>5. QED
      BY <1>2, <2>2, <2>4, InstallStep
  <1>3. QED
    BY <1>1, <1>2 DEF Commit

-----------------------------------------------------------------------------
(* Every step preserves the inductive invariant *)

\* A handler that runs while no poll holds the mutex.
LEMMA HandlerStep ==
  ASSUME IInv, Free, UNCHANGED <<damaged, phase, unrecovered, poll>>,
         CopiesGood', mem' \in [Owners -> Partition], disk' \in [Owners -> Partition],
         started' \subseteq Owners \X TimerIds \X Time,
         told' \in [Owners -> [TimerIds -> Nat]]
  PROVE  IInv'
  <1>1. TypeOK'
    BY DEF IInv, TypeOK
  <1>2. PollGood'
    BY DEF PollGood, Free
  <1>3. PhaseGood'
    BY DEF IInv, PhaseGood
  <1>4. QED
    BY <1>1, <1>2, <1>3 DEF IInv

LEMMA CreateStep ==
  ASSUME IInv, NEW k \in Owners, NEW t \in TimerIds, NEW key \in Keys,
         NEW s \in Schedules, NEW policy \in Policies, NEW now \in Instants,
         Create(k, t, key, s, policy, now)
  PROVE  IInv'
  <1> DEFINE p == Created(mem[k], t, key, s, policy, now)
  <1>1. Good(k, mem[k], started, told) /\ k \notin damaged
    BY MemGood DEF IInv, Create
  <1>2. Good(k, p, started, told) /\ Newer(p, mem[k]) /\ p.timers[t].state # "absent"
    BY <1>1, CreatedGood DEF IInv, TypeOK, Create
  <1>3. /\ CopiesGood' /\ mem' \in [Owners -> Partition] /\ disk' \in [Owners -> Partition]
        /\ told' \in [Owners -> [TimerIds -> Nat]]
    BY <1>1, <1>2, CommitInstall DEF IInv, Create
  <1>4. QED
    BY <1>3, HandlerStep DEF IInv, TypeOK, Create

LEMMA CreateAgainStep ==
  ASSUME IInv, NEW k \in Owners, NEW key \in Keys, NEW s \in Schedules,
         NEW policy \in Policies, CreateAgain(k, key, s, policy)
  PROVE  IInv'
  <1>1. PICK e \in mem[k].idem : Tell(k, e.id, mem[k].timers[e.id].revision)
    BY DEF CreateAgain
  <1>2. Good(k, mem[k], started, told) /\ k \notin damaged
    BY MemGood DEF IInv, CreateAgain
  <1>3. e.id \in TimerIds /\ mem[k].timers[e.id].revision \in Nat
        /\ e.id \in {d.id : d \in mem[k].idem}
    BY <1>1, <1>2 DEF Good, Partition, Idempotency, TimerDefinition
  <1>4. /\ told' \in [Owners -> [TimerIds -> Nat]]
        /\ told'[k][e.id] = mem[k].timers[e.id].revision
        /\ \A u \in TimerIds : u # e.id => told'[k][u] = told[k][u]
        /\ \A j \in Owners \ {k} : told'[j] = told[j]
    BY <1>1, <1>3 DEF IInv, TypeOK, Tell
  <1>5. Good(k, mem[k], started, told') /\ Fenced(k, disk[k], started, told')
    <2>1. e \in mem[k].idem /\ e \in disk[k].idem
      BY <1>1, <1>2 DEF IInv, CopiesGood, Newer
    <2>2. /\ mem[k].timers[e.id].revision <= disk[k].timers[e.id].revision
          /\ disk[k].timers[e.id].revision \in Nat
      BY <1>2, <1>3 DEF IInv, TypeOK, CopiesGood, Newer, Partition, TimerDefinition
    <2>3. Fenced(k, mem[k], started, told) /\ Fenced(k, disk[k], started, told)
      BY <1>2 DEF Good, IInv, CopiesGood
    <2>4. Fenced(k, mem[k], started, told')
      BY <2>1, <2>3, <1>3, <1>4 DEF Fenced
    <2>5. Fenced(k, disk[k], started, told')
      BY <2>1, <2>2, <2>3, <1>3, <1>4 DEF Fenced
    <2>6. QED
      BY <2>4, <2>5, <1>2 DEF Good
  <1>6. ASSUME NEW j \in Owners, j # k
        PROVE  /\ Good(j, disk[j], started, told')
               /\ j \notin damaged => Fenced(j, mem[j], started, told')
    BY <1>4, <1>6, SameHistory DEF IInv, TypeOK, CopiesGood, Good
  <1>7. /\ mem' = mem /\ disk' = disk /\ damaged' = damaged /\ phase' = phase
        /\ started' = started
    BY DEF CreateAgain
  <1>8. CopiesGood'
    <2>1. Good(k, disk[k], started, told')
      BY <1>5 DEF IInv, CopiesGood, Good
    <2>2. \A j \in Owners :
            /\ Good(j, disk[j], started, told')
            /\ j \notin damaged => Fenced(j, mem[j], started, told')
      BY <2>1, <1>5, <1>6 DEF Good
    <2>3. QED
      BY <2>2, <1>7 DEF IInv, CopiesGood
  <1>9. QED
    BY <1>4, <1>7, <1>8, HandlerStep DEF IInv, TypeOK, CreateAgain

LEMMA UpdateStep ==
  ASSUME IInv, NEW k \in Owners, NEW t \in TimerIds, NEW s \in Schedules \cup {Keep},
         NEW policy \in Policies \cup {Keep}, NEW enabled, NEW now \in Instants,
         Update(k, t, s, policy, enabled, now)
  PROVE  IInv'
  <1> DEFINE tm == mem[k].timers[t]
             new == Updated(tm, s, policy, enabled, now)
             p == [mem[k] EXCEPT !.timers[t] = new]
  <1>1. Good(k, mem[k], started, told) /\ k \notin damaged
    BY MemGood DEF IInv, Update
  <1>2. tm \in TimerDefinition /\ Updatable(tm, s, now)
    BY <1>1 DEF Good, Partition, Update
  <1>3. new \in TimerDefinition
    BY <1>2, UpdatedType
  <1>4. TimerSound(tm, mem[k].idem, t) /\ tm.state \in {"active", "paused"}
    BY <1>1, <1>2 DEF Good, Sound, Updatable
  <1>5. /\ new.state # "absent" /\ new.last = tm.last /\ new.accepted = tm.accepted
        /\ new.revision = tm.revision + 1 /\ new.schedule = Or(s, tm.schedule)
        /\ new.queued = NoTime \/ new.queued = tm.queued
        /\ new.state \in {"active", "paused"} =>
             ~(new.schedule.limit # NoLimit /\ new.schedule.limit = tm.accepted)
    BY <1>4 DEF Updated, Or
  <1>6. new.schedule.limit # NoLimit => tm.accepted <= new.schedule.limit
    <2>1. CASE s = Keep
      BY <2>1, <1>4, <1>5 DEF Or, TimerSound
    <2>2. CASE s # Keep
      <3>1. new.schedule = s /\ s.limit \in Nat /\ tm.accepted \in Nat
        BY <2>2, <1>2, <1>5, SchedulesAssumption DEF Or, TimerDefinition
      <3>2. QED
        BY <2>2, <3>1, <1>2 DEF Updatable
    <2>3. QED
      BY <2>1, <2>2
  <1>7. tm.revision <= new.revision /\ tm.accepted \in Nat /\ new.schedule.limit \in Nat
    BY <1>2, <1>3, <1>5, SchedulesAssumption DEF TimerDefinition
  <1>8. new.queued # NoTime => new.queued > new.last
    BY <1>4, <1>5 DEF TimerSound
  <1> HIDE DEF new
  <1>9. Good(k, p, started, told) /\ Newer(p, mem[k])
    <2>1. new.schedule.limit # NoLimit =>
            /\ new.accepted <= new.schedule.limit
            /\ new.state \in {"active", "paused"} => new.accepted < new.schedule.limit
      BY <1>5, <1>6, <1>7
    <2>2. /\ tm.state # "absent" /\ new.state # "absent" /\ new.last = tm.last
          /\ told \in [Owners -> [TimerIds -> Nat]]
      BY <1>4, <1>5 DEF IInv, TypeOK
    <2>3. QED
      BY <2>1, <2>2, <1>1, <1>3, <1>7, <1>8, ReplacedGood
  <1>10. p.timers[t].state # "absent"
    BY <1>1, <1>5 DEF Good, Partition
  <1>11. Commit(k, t, p)
    BY DEF Update, new
  <1>12. /\ CopiesGood' /\ mem' \in [Owners -> Partition] /\ disk' \in [Owners -> Partition]
         /\ told' \in [Owners -> [TimerIds -> Nat]]
    BY <1>1, <1>9, <1>10, <1>11, CommitInstall DEF IInv, Update
  <1>13. QED
    BY <1>12, HandlerStep DEF IInv, TypeOK, Update

LEMMA DeleteStep ==
  ASSUME IInv, NEW k \in Owners, NEW t \in TimerIds, Delete(k, t)
  PROVE  IInv'
  <1> DEFINE tm == mem[k].timers[t]
             mid == [mem[k] EXCEPT !.timers[t] = Tombstone(tm)]
             p == IF tm.state = "deleted" THEN mem[k] ELSE Deleted(mem[k], t)
  <1>1. Good(k, mem[k], started, told) /\ k \notin damaged /\ tm.state # "absent"
    BY MemGood DEF IInv, Delete
  <1>2. mem[k] \in Partition /\ tm \in TimerDefinition /\ tm.revision + 1 \in Nat
    BY <1>1 DEF Good, Partition, TimerDefinition
  <1>3. Good(k, Deleted(mem[k], t), started, told) /\ Newer(Deleted(mem[k], t), mem[k])
        /\ Deleted(mem[k], t).timers[t].state # "absent"
    <2>1. /\ Tombstone(tm) \in TimerDefinition
          /\ Tombstone(tm).state = "deleted" /\ Tombstone(tm).last = tm.last
          /\ Tombstone(tm).queued = NoTime /\ Tombstone(tm).accepted = tm.accepted
          /\ Tombstone(tm).schedule = tm.schedule
          /\ tm.revision <= Tombstone(tm).revision
      <3>1. Tombstone(tm) \in TimerDefinition
        BY <1>2 DEF Tombstone, TimerDefinition, TimerStates, Time
      <3>2. /\ Tombstone(tm).state = "deleted" /\ Tombstone(tm).last = tm.last
            /\ Tombstone(tm).queued = NoTime /\ Tombstone(tm).accepted = tm.accepted
            /\ Tombstone(tm).schedule = tm.schedule
            /\ Tombstone(tm).revision = tm.revision + 1
        BY <1>2 DEF Tombstone, TimerDefinition
      <3>3. tm.revision <= tm.revision + 1
        BY <1>2 DEF TimerDefinition
      <3>4. QED
        BY <3>1, <3>2, <3>3
    <2>2. tm.schedule.limit # NoLimit => tm.accepted <= tm.schedule.limit
      BY <1>1 DEF Good, Sound, TimerSound
    <2>3. Good(k, mid, started, told) /\ Newer(mid, mem[k])
      BY <1>1, <2>1, <2>2, ReplacedGood DEF IInv, TypeOK
    <2>4. Deleted(mem[k], t) \in Partition
      BY <1>2, DeletedType
    <2>5. /\ mid.occs = mem[k].occs /\ Deleted(mem[k], t).timers = mid.timers
          /\ Deleted(mem[k], t).idem = mid.idem /\ mid.timers[t] = Tombstone(tm)
      BY <1>2 DEF Deleted, Partition
    <2>6. \A o \in OccIds :
            LET old == mem[k].occs[o]
                occ == Deleted(mem[k], t).occs[o]
            IN  /\ occ.timer = old.timer /\ occ.at = old.at
                /\ \/ occ.status = old.status
                   \/ occ.status = "suppressed" /\ old.status = "pending"
      <3>1. \A o \in OccIds : /\ mem[k].occs[o] \in TimerOccurrence
                              /\ Deleted(mem[k], t).occs[o] = Suppressed(mem[k], t, o)
        BY <1>2 DEF Deleted, Partition
      <3>2. QED
        BY <3>1 DEF Suppressed, TimerOccurrence
    <2>7. Advanced(mid, Deleted(mem[k], t))
      <3>1. \A x, y : (x = y \/ (x = "suppressed" /\ y = "pending")) =>
                     /\ x # "absent" => y # "absent"
                     /\ x \in Open => y \in Open
        BY DEF Open
      <3> HIDE DEF mid
      <3>2. QED
        BY <2>5, <2>6, <3>1 DEF Advanced, Emitted
    <2>8. Good(k, Deleted(mem[k], t), started, told)
      <3>1. \A o \in OccIds : Deleted(mem[k], t).occs[o].status = "pending" =>
                               mid.occs[o].status = "pending"
        BY <2>5, <2>6
      <3> HIDE DEF mid
      <3>2. QED
        BY <2>3, <2>4, <2>7, <3>1, AdvancedGood
    <2>9. Newer(Deleted(mem[k], t), mem[k])
      BY <2>3, <2>5 DEF Newer
    <2>10. QED
      BY <2>1, <2>5, <2>8, <2>9
  <1>4. Good(k, p, started, told) /\ Newer(p, mem[k]) /\ p.timers[t].state # "absent"
    BY <1>1, <1>2, <1>3, NewerReflexive
  <1>5. Commit(k, t, p)
    BY DEF Delete
  <1> HIDE DEF p
  <1>6. /\ CopiesGood' /\ mem' \in [Owners -> Partition] /\ disk' \in [Owners -> Partition]
        /\ told' \in [Owners -> [TimerIds -> Nat]]
    BY <1>1, <1>4, <1>5, CommitInstall DEF IInv, Delete
  <1>7. QED
    BY <1>6, HandlerStep DEF IInv, TypeOK, Delete

\* A handler that moves one occurrence to another status.
LEMMA SetStatusGood ==
  ASSUME NEW k, NEW p, NEW st, NEW td, Good(k, p, st, td), NEW o \in OccIds,
         p.occs[o].status \in Open, NEW status \in Statuses,
         NEW q, q = SetStatus(p, o, status)
  PROVE  /\ q \in Partition /\ Sound(q) /\ Fenced(k, q, st, td) /\ Newer(q, p)
         /\ q.occs[o].status = status
         /\ q.occs[o].timer = p.occs[o].timer /\ q.occs[o].at = p.occs[o].at
         /\ \A n \in OccIds : n # o => q.occs[n] = p.occs[n]
  <1>1. p \in Partition /\ q \in Partition
    BY SetStatusType DEF Good
  <1>2. /\ q.timers = p.timers /\ q.idem = p.idem
        /\ q.occs[o].status = status
        /\ q.occs[o].timer = p.occs[o].timer /\ q.occs[o].at = p.occs[o].at
        /\ \A n \in OccIds : n # o => q.occs[n] = p.occs[n]
    BY <1>1 DEF SetStatus, Partition, TimerOccurrence
  <1>3. Advanced(p, q)
    BY <1>2 DEF Advanced, Emitted, Open
  <1>4. QED
    BY <1>1, <1>2, <1>3, AdvancedSound, AdvancedFenced DEF Good

LEMMA KnownOccurrence ==
  ASSUME IInv, NEW k \in Owners, NEW o \in OccIds, phase = "up",
         mem[k].occs[o].status \in Open
  PROVE  k \notin damaged
  BY EmptyGood DEF IInv, CopiesGood, Open

LEMMA DueTimeType ==
  ASSUME TypeOK, NEW k \in Owners, NEW o \in OccIds
  PROVE  /\ DueTime(k, o) = <<k, mem[k].occs[o].timer, mem[k].occs[o].at>>
         /\ DueTime(k, o) \in Owners \X TimerIds \X Time
  BY DEF DueTime, TypeOK, Partition, TimerOccurrence

LEMMA ClaimStep ==
  ASSUME IInv, NEW k \in Owners, NEW o \in OccIds, Claim(k, o)
  PROVE  IInv'
  <1> DEFINE p == SetStatus(mem[k], o, "dispatching")
  <1>1. mem[k].occs[o].status = "pending" /\ phase = "up"
    BY DEF Claim, Free
  <1>2. k \notin damaged /\ Good(k, mem[k], started, told)
    BY <1>1, KnownOccurrence, MemGood DEF IInv, Open
  <1>3. /\ p \in Partition /\ Sound(p) /\ Fenced(k, p, started, told)
        /\ Newer(p, mem[k]) /\ p.occs[o].status = "dispatching"
        /\ \A n \in OccIds : n # o => p.occs[n] = mem[k].occs[n]
    <2>1. mem[k].occs[o].status \in Open /\ "dispatching" \in Statuses
      BY <1>1 DEF Open, Statuses
    <2>2. QED
      BY <2>1, <1>2, SetStatusGood
  <1> HIDE DEF p
  <1>4. Unstarted(k, p, started)
    BY <1>2, <1>3 DEF Unstarted, Good
  <1>5. CASE SaveFails(k, p) /\ UNCHANGED started
    <2>1. CopiesGood' /\ mem' \in [Owners -> Partition] /\ disk' \in [Owners -> Partition]
      BY <1>5, <1>2, <1>3, <1>4, QuietInstall DEF IInv, Claim, Good
    <2>2. QED
      BY <2>1, <1>5, HandlerStep DEF IInv, TypeOK, Claim
  <1>6. CASE Save(k, p) /\ started' = started \cup {DueTime(k, o)}
    <2> DEFINE t == mem[k].occs[o].timer
               at == mem[k].occs[o].at
    <2>1. /\ started' = started \cup {<<k, t, at>>} /\ told' = told
          /\ t \in TimerIds /\ at \in Time
      <3>1. DueTime(k, o) = <<k, t, at>>
        BY DEF DueTime
      <3>2. t \in TimerIds /\ at \in Time
        BY <1>2 DEF Good, Partition, TimerOccurrence
      <3>3. told' = told
        BY DEF Claim
      <3>4. QED
        BY <1>6, <3>1, <3>2, <3>3
    <2>2. mem[k].timers[t].state # "absent" /\ at <= mem[k].timers[t].last
      BY <1>1, <1>2 DEF Good, Sound, OccurrencesSound, Emitted
    <2>3. \A n \in OccIds : mem[k].occs[n].status = "pending" /\ n # o =>
            ~(mem[k].occs[n].timer = t /\ mem[k].occs[n].at = at)
      BY <1>1, <1>2 DEF Good, Sound, OccurrencesSound, Emitted
    <2>4. p.timers = mem[k].timers
      BY <1>2 DEF p, SetStatus, Good, Partition
    <2> HIDE DEF t, at
    <2>5. Unstarted(k, p, started')
      BY <2>1, <2>3, <1>3, <1>4 DEF Unstarted
    <2>6. Fenced(k, p, started', told')
      BY <2>1, <2>2, <2>4, <1>3 DEF Fenced
    <2>7. \A j \in Owners \ {k} :
            /\ told'[j] = told[j]
            /\ \A u \in TimerIds, s \in Time :
                 <<j, u, s>> \in started' <=> <<j, u, s>> \in started
      BY <2>1
    <2>8. CopiesGood' /\ mem' \in [Owners -> Partition] /\ disk' \in [Owners -> Partition]
      BY <1>2, <1>3, <1>6, <2>5, <2>6, <2>7, InstallStep DEF IInv, Claim, Good
    <2>9. started' \subseteq Owners \X TimerIds \X Time
      BY <2>1 DEF IInv, TypeOK
    <2>10. QED
      BY <2>8, <2>9, HandlerStep DEF IInv, TypeOK, Claim
  <1>7. QED
    BY <1>5, <1>6 DEF Claim, p

LEMMA AcknowledgeStep ==
  ASSUME IInv, NEW k \in Owners, NEW o \in OccIds,
         NEW status \in Outcomes \cup {"running"}, Acknowledge(k, o, status)
  PROVE  IInv'
  <1> DEFINE p == SetStatus(mem[k], o, status)
  <1>1. mem[k].occs[o].status \in Open /\ phase = "up"
        /\ status \in Statuses /\ status # "pending"
    BY DEF Acknowledge, Free, Open, Outcomes, Statuses, Terminal
  <1>2. k \notin damaged /\ Good(k, mem[k], started, told)
    BY <1>1, KnownOccurrence, MemGood DEF IInv
  <1>3. /\ p \in Partition /\ Sound(p) /\ Fenced(k, p, started, told)
        /\ Newer(p, mem[k]) /\ p.occs[o].status = status
        /\ \A n \in OccIds : n # o => p.occs[n] = mem[k].occs[n]
    BY <1>1, <1>2, SetStatusGood
  <1> HIDE DEF p
  <1>4. Good(k, p, started, told)
    BY <1>1, <1>2, <1>3 DEF Unstarted, Good
  <1>5. Save(k, p) \/ SaveFails(k, p)
    BY DEF Acknowledge, p
  <1>6. CopiesGood' /\ mem' \in [Owners -> Partition] /\ disk' \in [Owners -> Partition]
    BY <1>2, <1>3, <1>4, <1>5, QuietInstall DEF IInv, Acknowledge
  <1>7. QED
    BY <1>6, HandlerStep DEF IInv, TypeOK, Acknowledge

LEMMA DeferStep ==
  ASSUME IInv, NEW k \in Owners, NEW o \in OccIds, Defer(k, o)
  PROVE  IInv'
  <1> DEFINE p == SetStatus(mem[k], o, "pending")
             t == mem[k].occs[o].timer
             at == mem[k].occs[o].at
  <1>1. mem[k].occs[o].status = "dispatching" /\ phase = "up"
    BY DEF Defer, Free
  <1>2. k \notin damaged /\ Good(k, mem[k], started, told)
    BY <1>1, KnownOccurrence, MemGood DEF IInv, Open
  <1>3. /\ p \in Partition /\ Sound(p) /\ Fenced(k, p, started, told)
        /\ Newer(p, mem[k]) /\ p.occs[o].timer = t /\ p.occs[o].at = at
        /\ \A n \in OccIds : n # o => p.occs[n] = mem[k].occs[n]
    <2>1. mem[k].occs[o].status \in Open /\ "pending" \in Statuses
      BY <1>1 DEF Open, Statuses
    <2>2. QED
      BY <2>1, <1>2, SetStatusGood
  <1>4. started' = started \ {<<k, t, at>>} /\ told' = told
    BY DueTimeType DEF IInv, Defer
  <1>5. Save(k, p) \/ SaveFails(k, p)
    BY DEF Defer
  <1> HIDE DEF p, t, at
  <1>6. \A j \in Owners, r \in Partition :
          /\ Unstarted(j, r, started) => Unstarted(j, r, started')
          /\ Fenced(j, r, started, told) => Fenced(j, r, started', told')
    BY <1>4 DEF Unstarted, Fenced
  <1>7. Unstarted(k, p, started')
    BY <1>2, <1>3, <1>4 DEF Unstarted, Good
  <1>8. Good(k, p, started', told')
    BY <1>3, <1>6, <1>7 DEF Good
  <1>9. Good(k, disk[k], started', told') /\ Good(k, mem[k], started', told')
    BY <1>2, <1>6 DEF Good, IInv, CopiesGood
  <1>10. \A j \in Owners \ {k} :
           /\ told'[j] = told[j]
           /\ \A u \in TimerIds, s \in Time :
                <<j, u, s>> \in started' <=> <<j, u, s>> \in started
    BY <1>4
  <1>11. CopiesGood' /\ mem' \in [Owners -> Partition] /\ disk' \in [Owners -> Partition]
    BY <1>2, <1>3, <1>5, <1>8, <1>9, <1>10, InstallStep DEF IInv, Defer
  <1>12. QED
    BY <1>4, <1>11, HandlerStep DEF IInv, TypeOK, Defer

LEMMA IdleType ==
  /\ Idle \in [stage : {"idle", "partitions", "timers"}, at : Time,
               keys : SUBSET Owners, todo : SUBSET TimerIds,
               key : Owners, work : Partition, pending : Nat]
  /\ Idle.stage = "idle"
  BY EmptyType DEF Idle, Time

LEMMA PendingType == Cardinality(AllPending) \in Nat
  <1>1. AllPending \subseteq Owners \X OccIds
    BY DEF AllPending, PendingOf
  <1>2. IsFiniteSet(Owners \X OccIds)
    BY FiniteAssumption, FS_Product
  <1>3. QED
    BY <1>1, <1>2, FS_Subset, FS_CardinalityType

LEMMA PollBeginStep ==
  ASSUME IInv, NEW now \in Instants, PollBegin(now)
  PROVE  IInv'
  <1>1. Known \subseteq Owners /\ now \in Time
    BY DEF Known, Time
  <1>2. /\ poll'.stage = "partitions" /\ poll'.keys = Known
        /\ poll' \in [stage : {"idle", "partitions", "timers"}, at : Time,
                      keys : SUBSET Owners, todo : SUBSET TimerIds,
                      key : Owners, work : Partition, pending : Nat]
    BY <1>1, IdleType, PendingType DEF PollBegin
  <1>3. phase = "up" /\ Known \cap damaged = {}
    <2>1. phase = "up"
      BY DEF PollBegin, Free
    <2>2. \A k \in damaged : k \in Owners /\ mem[k] = EmptyPartition
      BY <2>1 DEF IInv, TypeOK, CopiesGood
    <2>3. QED
      BY <2>1, <2>2, EmptyGood DEF Known
  <1>4. /\ mem' = mem /\ disk' = disk /\ damaged' = damaged /\ phase' = phase
        /\ unrecovered' = unrecovered /\ started' = started /\ told' = told
    BY DEF PollBegin
  <1>5. TypeOK' /\ CopiesGood' /\ PhaseGood'
    BY <1>2, <1>4 DEF IInv, TypeOK, CopiesGood, PhaseGood
  <1>6. PollGood'
    BY <1>2, <1>3, <1>4 DEF PollGood
  <1>7. QED
    BY <1>5, <1>6 DEF IInv

LEMMA PollPartitionStep ==
  ASSUME IInv, NEW k \in Owners, PollPartition(k)
  PROVE  IInv'
  <1>1. /\ mem' = mem /\ disk' = disk /\ damaged' = damaged /\ phase' = phase
        /\ unrecovered' = unrecovered /\ started' = started /\ told' = told
    BY DEF PollPartition
  <1>2. /\ poll'.stage = "timers" /\ poll'.key = k /\ poll'.work = mem[k]
        /\ poll'.keys = poll.keys \ {k}
        /\ poll'.todo = {t \in TimerIds : mem[k].timers[t].state = "active"}
    BY DEF IInv, TypeOK, PollPartition
  <1>3. poll' \in [stage : {"idle", "partitions", "timers"}, at : Time,
                   keys : SUBSET Owners, todo : SUBSET TimerIds,
                   key : Owners, work : Partition, pending : Nat]
    BY DEF IInv, TypeOK, PollPartition
  <1>4. k \notin damaged /\ phase = "up" /\ poll.keys \cap damaged = {}
    BY DEF IInv, PollGood, PollPartition
  <1>5. Good(k, mem[k], started, told) /\ Newer(mem[k], mem[k])
    BY <1>4, MemGood, NewerReflexive DEF IInv, Good
  <1>6. TypeOK' /\ CopiesGood' /\ PhaseGood'
    BY <1>1, <1>3 DEF IInv, TypeOK, CopiesGood, PhaseGood
  <1>7. PollGood'
    BY <1>1, <1>2, <1>4, <1>5 DEF PollGood
  <1>8. QED
    BY <1>6, <1>7 DEF IInv

LEMMA PollTimerStep ==
  ASSUME IInv, NEW t \in TimerIds, PollTimer(t)
  PROVE  IInv'
  <1> DEFINE k == poll.key
             p == poll.work
             tm == Queue(p.timers[t], poll.at)
             q == poll'.work
  <1>1. /\ mem' = mem /\ disk' = disk /\ damaged' = damaged /\ phase' = phase
        /\ unrecovered' = unrecovered /\ started' = started /\ told' = told
    BY DEF PollTimer
  <1>2. /\ poll.stage = "timers" /\ t \in poll.todo
        /\ poll \in [stage : {"idle", "partitions", "timers"}, at : Time,
                     keys : SUBSET Owners, todo : SUBSET TimerIds,
                     key : Owners, work : Partition, pending : Nat]
    BY DEF PollTimer, IInv, TypeOK
  <1>3. /\ k \in Owners /\ k \notin damaged /\ Good(k, p, started, told)
        /\ Newer(p, mem[k]) /\ \A u \in poll.todo : p.timers[u].state = "active"
        /\ phase = "up" /\ poll.keys \cap damaged = {} /\ poll.at \in Time
    BY <1>2 DEF IInv, PollGood
  <1>4. /\ p \in Partition /\ p.timers[t] \in TimerDefinition
        /\ TimerSound(p.timers[t], p.idem, t)
        /\ p.timers[t].state = "active" /\ mem[k] \in Partition
    BY <1>2, <1>3 DEF Good, Sound, Partition, IInv, TypeOK
  <1>5. /\ tm \in TimerDefinition /\ TimerSound(tm, p.idem, t)
        /\ tm.state \in {"active", "completed"} /\ tm.last = p.timers[t].last
        /\ tm.revision = p.timers[t].revision
        /\ tm.schedule.limit # NoLimit => tm.accepted < tm.schedule.limit
    BY <1>3, <1>4, QueueType, QueueSound
  <1>6. told \in [Owners -> [TimerIds -> Nat]]
    BY DEF IInv, TypeOK
  <1>7. /\ Good(k, q, started, told) /\ Newer(q, p)
        /\ \A u \in TimerIds : u # t => q.timers[u] = p.timers[u]
        /\ poll'.stage = "timers" /\ poll'.key = k /\ poll'.keys = poll.keys
        /\ poll'.todo = poll.todo \ {t} /\ poll'.at = poll.at
        /\ poll'.pending \in {poll.pending, poll.pending + 1}
        /\ poll' = [poll EXCEPT !.todo = poll'.todo, !.pending = poll'.pending,
                                !.work = q]
    <2>1. CASE \E o \in OccIds :
                 /\ tm.queued # NoTime /\ Quiet(p, t) /\ IsFresh(p, o)
                 /\ poll' = [poll EXCEPT
                               !.todo = poll.todo \ {t},
                               !.pending = poll.pending + 1,
                               !.work = Accepted(p, t, o, tm)]
      <3>1. PICK o \in OccIds :
                 /\ tm.queued # NoTime /\ Quiet(p, t) /\ IsFresh(p, o)
                 /\ poll' = [poll EXCEPT
                               !.todo = poll.todo \ {t},
                               !.pending = poll.pending + 1,
                               !.work = Accepted(p, t, o, tm)]
        BY <2>1
      <3>2. q = Accepted(p, t, o, tm)
        BY <3>1, <1>2
      <3>3. p.timers[t].state # "absent"
        BY <1>4
      <3> HIDE DEF tm, p, q, k
      <3>4. Good(k, q, started, told) /\ Newer(q, p)
        <4>1. /\ tm.queued # NoTime /\ Quiet(p, t) /\ IsFresh(p, o)
          BY <3>1
        <4>2. /\ k \in Owners /\ Good(k, p, started, told)
          BY <1>3
        <4>3. QED
          BY <4>1, <4>2, <3>2, <3>3, <1>5, <1>6, AcceptedGood
      <3>5. \A u \in TimerIds : u # t => q.timers[u] = p.timers[u]
        BY <3>2, <1>4 DEF Partition, Accepted
      <3>6. /\ poll'.stage = "timers" /\ poll'.key = k /\ poll'.keys = poll.keys
            /\ poll'.todo = poll.todo \ {t} /\ poll'.at = poll.at
            /\ poll'.pending = poll.pending + 1
            /\ poll' = [poll EXCEPT !.todo = poll'.todo, !.pending = poll'.pending,
                                    !.work = q]
        BY <3>1, <3>2, <1>2 DEF k
      <3>7. QED
        BY <3>4, <3>5, <3>6
    <2>2. CASE poll' = [poll EXCEPT !.todo = poll.todo \ {t},
                                    !.work = [p EXCEPT !.timers[t] = Retire(tm)]]
      <3>1. q = [p EXCEPT !.timers[t] = Retire(tm)]
        BY <2>2, <1>2
      <3>2. Retire(tm) \in TimerDefinition
        BY <1>5, RetireType
      <3>3. /\ Retire(tm).last = tm.last /\ Retire(tm).revision = tm.revision
            /\ Retire(tm).queued = tm.queued /\ Retire(tm).schedule = tm.schedule
            /\ Retire(tm).accepted = tm.accepted
            /\ Retire(tm).state \in {"active", "completed"}
        BY <1>5 DEF Retire, TimerDefinition
      <3>4. /\ p.timers[t].state # "absent" /\ Retire(tm).state # "absent"
            /\ Retire(tm).last = p.timers[t].last
            /\ p.timers[t].revision <= Retire(tm).revision
        BY <3>3, <1>4, <1>5 DEF TimerDefinition
      <3>5. /\ Retire(tm).queued # NoTime => Retire(tm).queued > Retire(tm).last
            /\ Retire(tm).schedule.limit # NoLimit =>
                 /\ Retire(tm).accepted <= Retire(tm).schedule.limit
                 /\ Retire(tm).state \in {"active", "paused"} =>
                      Retire(tm).accepted < Retire(tm).schedule.limit
        BY <3>3, <1>5 DEF TimerSound
      <3> DEFINE new == Retire(tm)
      <3> HIDE DEF tm, p, q, k, new
      <3>6. Good(k, q, started, told) /\ Newer(q, p)
        <4>1. k \in Owners /\ Good(k, p, started, told)
          BY <1>3
        <4>2. q = [p EXCEPT !.timers[t] = new]
          BY <3>1 DEF new
        <4>3. new \in TimerDefinition
          BY <3>2 DEF new
        <4>4. /\ p.timers[t].state # "absent" /\ new.state # "absent"
              /\ new.last = p.timers[t].last /\ p.timers[t].revision <= new.revision
          BY <3>4 DEF new
        <4>5. /\ new.queued # NoTime => new.queued > new.last
              /\ new.schedule.limit # NoLimit =>
                   /\ new.accepted <= new.schedule.limit
                   /\ new.state \in {"active", "paused"} =>
                        new.accepted < new.schedule.limit
          BY <3>5 DEF new
        <4>6. Good(k, [p EXCEPT !.timers[t] = new], started, told)
              /\ Newer([p EXCEPT !.timers[t] = new], p)
          BY <4>1, <4>3, <4>4, <4>5, <1>6, ReplacedGood
        <4>7. QED
          BY <4>2, <4>6
      <3>7. \A u \in TimerIds : u # t => q.timers[u] = p.timers[u]
        BY <3>1, <1>4 DEF Partition
      <3>8. /\ poll'.stage = "timers" /\ poll'.key = k /\ poll'.keys = poll.keys
            /\ poll'.todo = poll.todo \ {t} /\ poll'.at = poll.at
            /\ poll'.pending = poll.pending
            /\ poll' = [poll EXCEPT !.todo = poll'.todo, !.pending = poll'.pending,
                                    !.work = q]
        BY <2>2, <3>1, <1>2 DEF k
      <3>9. QED
        BY <3>6, <3>7, <3>8
    <2>3. QED
      BY <2>1, <2>2 DEF PollTimer
  <1>8. Newer(q, mem[k])
    <2>1. q \in Partition
      BY <1>7 DEF Good
    <2>2. \A u \in TimerIds : /\ mem[k].timers[u].revision \in Nat
                              /\ p.timers[u].revision \in Nat
                              /\ q.timers[u].revision \in Nat
      BY <2>1, <1>4 DEF Partition, TimerDefinition
    <2> HIDE DEF p, q
    <2>3. QED
      BY <2>2, <1>3, <1>7 DEF Newer
  <1>9. poll' \in [stage : {"idle", "partitions", "timers"}, at : Time,
                   keys : SUBSET Owners, todo : SUBSET TimerIds,
                   key : Owners, work : Partition, pending : Nat]
    <2>1. q \in Partition /\ poll.pending + 1 \in Nat
      BY <1>2, <1>7 DEF Good
    <2>2. poll'.todo \in SUBSET TimerIds /\ poll'.pending \in Nat
      BY <2>1, <1>2, <1>7
    <2>3. QED
      BY <2>1, <2>2, <1>2, <1>7
  <1>10. TypeOK' /\ CopiesGood' /\ PhaseGood'
    BY <1>1, <1>9 DEF IInv, TypeOK, CopiesGood, PhaseGood
  <1>11. PollGood'
    <2>1. \A u \in poll'.todo : q.timers[u].state = "active"
      BY <1>2, <1>3, <1>7
    <2>2. QED
      BY <2>1, <1>1, <1>3, <1>7, <1>8 DEF PollGood
  <1>12. QED
    BY <1>10, <1>11 DEF IInv

LEMMA PollSaveStep ==
  ASSUME IInv, NEW old, PollSave(old)
  PROVE  IInv'
  <1> DEFINE k == poll.key
             w == poll.work
             p == Retained(w, old)
             next == [poll EXCEPT !.stage = "partitions", !.key = Idle.key,
                                  !.work = EmptyPartition]
             PollType == [stage : {"idle", "partitions", "timers"}, at : Time,
                          keys : SUBSET Owners, todo : SUBSET TimerIds,
                          key : Owners, work : Partition, pending : Nat]
  <1>1. /\ damaged' = damaged /\ phase' = phase /\ unrecovered' = unrecovered
        /\ started' = started /\ told' = told /\ poll.stage = "timers"
        /\ poll \in PollType
    BY DEF PollSave, IInv, TypeOK
  <1>2. /\ k \in Owners /\ k \notin damaged /\ Good(k, w, started, told)
        /\ Newer(w, mem[k]) /\ phase = "up" /\ poll.keys \cap damaged = {}
        /\ mem[k] \in Partition /\ w \in Partition
    BY <1>1 DEF IInv, TypeOK, PollGood, Good
  <1>3. next \in PollType /\ next.stage = "partitions" /\ next.keys = poll.keys
    BY <1>1, EmptyType
  <1>4. Good(k, p, started, told) /\ Newer(p, mem[k])
    <2>1. p \in Partition
      BY <1>2, RetainedType
    <2>2. /\ Advanced(w, p)
          /\ \A o \in OccIds : p.occs[o].status = "pending" => w.occs[o].status = "pending"
      BY <1>2 DEF Retained, Outlived, Advanced, Emitted, Open, Terminal,
                  Partition, TimerOccurrence
    <2> HIDE DEF p, w, k
    <2>3. Good(k, p, started, told) /\ Newer(p, w)
      BY <1>2, <2>1, <2>2, AdvancedGood, AdvancedFenced DEF Good
    <2>4. \A t \in TimerIds : /\ mem[k].timers[t].revision \in Nat
                              /\ w.timers[t].revision \in Nat
                              /\ p.timers[t].revision \in Nat
      BY <1>2, <2>1 DEF Partition, TimerDefinition
    <2>5. QED
      BY <1>2, <2>3, <2>4 DEF Newer
  <1>5. \/ poll' = next /\ UNCHANGED <<mem, disk>>
        \/ poll' \in {next, Idle} /\ (Save(k, p) \/ SaveFails(k, p))
    BY DEF PollSave
  <1> HIDE DEF p, w, k, next
  <1>6. /\ CopiesGood' /\ mem' \in [Owners -> Partition]
        /\ disk' \in [Owners -> Partition]
    <2>1. CASE UNCHANGED <<mem, disk>>
      BY <2>1, <1>1 DEF IInv, TypeOK, CopiesGood
    <2>2. CASE Save(k, p) \/ SaveFails(k, p)
      BY <2>2, <1>1, <1>2, <1>4, QuietInstall DEF IInv
    <2>3. QED
      BY <1>5, <2>1, <2>2
  <1>7. /\ poll' \in PollType /\ poll'.stage # "timers"
        /\ poll'.stage # "idle" => poll'.keys = poll.keys
    BY <1>3, <1>5, IdleType
  <1>8. TypeOK'
    BY <1>1, <1>6, <1>7 DEF IInv, TypeOK
  <1>9. PollGood' /\ PhaseGood'
    BY <1>1, <1>2, <1>7 DEF IInv, PollGood, PhaseGood
  <1>10. QED
    BY <1>6, <1>8, <1>9 DEF IInv

LEMMA PollEndStep ==
  ASSUME IInv, PollEnd
  PROVE  IInv'
  <1>1. TypeOK' /\ CopiesGood' /\ PhaseGood'
    BY IdleType DEF PollEnd, IInv, TypeOK, CopiesGood, PhaseGood
  <1>2. PollGood'
    BY IdleType DEF PollEnd, PollGood
  <1>3. QED
    BY <1>1, <1>2 DEF IInv

LEMMA CrashStep ==
  ASSUME IInv, Crash
  PROVE  IInv'
  <1>1. TypeOK'
    BY IdleType DEF Crash, IInv, TypeOK
  <1>2. CopiesGood' /\ PhaseGood'
    BY DEF Crash, IInv, CopiesGood, PhaseGood
  <1>3. PollGood'
    BY IdleType DEF Crash, PollGood
  <1>4. QED
    BY <1>1, <1>2, <1>3 DEF IInv

LEMMA DamageStep ==
  ASSUME IInv, NEW k \in Owners, Damage(k)
  PROVE  IInv'
  <1>1. TypeOK' /\ CopiesGood' /\ PhaseGood'
    BY DEF Damage, IInv, TypeOK, CopiesGood, PhaseGood
  <1>2. PollGood'
    BY DEF Damage, IInv, PollGood
  <1>3. QED
    BY <1>1, <1>2 DEF IInv

LEMMA LoadStep ==
  ASSUME IInv, Load
  PROVE  IInv'
  <1>1. /\ disk' = disk /\ damaged' = damaged /\ poll' = poll
        /\ started' = started /\ told' = told /\ phase' = "recovering"
        /\ unrecovered' = Owners \ damaged
    BY DEF Load
  <1>2. \A k \in Owners :
          /\ k \in damaged => mem'[k] = EmptyPartition
          /\ k \notin damaged => mem'[k] = disk[k]
    BY DEF Load
  <1>3. TypeOK'
    BY <1>1, EmptyType DEF Load, IInv, TypeOK
  <1>4. ASSUME NEW k \in Owners
        PROVE  /\ Good(k, disk[k], started, told)
               /\ Sound(mem'[k]) /\ Unstarted(k, mem'[k], started)
               /\ k \notin damaged =>
                    Fenced(k, mem'[k], started, told) /\ Newer(disk[k], mem'[k])
               /\ k \in damaged => mem'[k] = EmptyPartition
    <2>1. Good(k, disk[k], started, told)
      BY DEF IInv, CopiesGood
    <2>2. CASE k \in damaged
      BY <2>1, <2>2, <1>2, EmptyGood
    <2>3. CASE k \notin damaged
      BY <2>1, <2>3, <1>2, NewerReflexive DEF Good
    <2>4. QED
      BY <2>2, <2>3
  <1>5. CopiesGood'
    BY <1>1, <1>4 DEF CopiesGood
  <1>6. PollGood' /\ PhaseGood'
    BY <1>1 DEF Load, IInv, PollGood, PhaseGood
  <1>7. QED
    BY <1>3, <1>5, <1>6 DEF IInv

LEMMA RecoverStep ==
  ASSUME IInv, NEW k \in Owners, Recover(k)
  PROVE  IInv'
  <1> DEFINE p == Recovered(mem[k])
  <1>1. /\ phase = "recovering" /\ k \in unrecovered /\ k \notin damaged
        /\ damaged' = damaged /\ poll' = poll /\ started' = started /\ told' = told
        /\ unrecovered' = IF phase' = "down" THEN {} ELSE unrecovered \ {k}
        /\ poll.stage = "idle"
    BY DEF Recover, IInv, PhaseGood, PollGood
  <1>2. Good(k, mem[k], started, told) /\ mem[k] \in Partition
    BY <1>1, MemGood DEF IInv, Good
  <1>3. Good(k, p, started, told) /\ Newer(p, mem[k])
    <2>1. p \in Partition
      BY <1>2, RecoveredType
    <2>2. /\ Advanced(mem[k], p)
          /\ \A o \in OccIds : p.occs[o].status = "pending"
                                 => mem[k].occs[o].status = "pending"
      BY <1>2 DEF Recovered, Interrupted, Advanced, Emitted, Open,
                  Partition, TimerOccurrence
    <2> HIDE DEF p
    <2>3. QED
      BY <1>2, <2>1, <2>2, AdvancedGood, AdvancedFenced DEF Good
  <1>4. \/ UNCHANGED <<mem, disk, phase>>
        \/ Save(k, p) /\ phase' = phase
        \/ SaveFails(k, p) /\ phase' = "down"
    BY DEF Recover
  <1> HIDE DEF p
  <1>5. /\ CopiesGood' /\ mem' \in [Owners -> Partition]
        /\ disk' \in [Owners -> Partition]
    <2>1. CASE UNCHANGED <<mem, disk, phase>>
      BY <2>1, <1>1 DEF IInv, TypeOK, CopiesGood
    <2>2. CASE Save(k, p) /\ phase' = phase
      BY <2>2, <1>1, <1>2, <1>3, QuietInstall DEF IInv
    <2>3. CASE SaveFails(k, p) /\ phase' = "down"
      <3>1. mem' = mem /\ (disk' = disk \/ disk' = [disk EXCEPT ![k] = p])
        BY <2>3 DEF SaveFails
      <3>2. /\ mem' \in [Owners -> Partition] /\ disk' \in [Owners -> Partition]
            /\ \A j \in Owners : disk'[j] = disk[j] \/ (j = k /\ disk'[j] = p)
        <4>1. p \in Partition
          BY <1>3 DEF Good
        <4>2. mem \in [Owners -> Partition] /\ disk \in [Owners -> Partition]
          BY DEF IInv, TypeOK
        <4>3. QED
          BY <3>1, <4>1, <4>2
      <3>3. CopiesGood'
        BY <3>1, <3>2, <2>3, <1>1, <1>3 DEF IInv, CopiesGood
      <3>4. QED
        BY <3>2, <3>3
    <2>4. QED
      BY <1>4, <2>1, <2>2, <2>3
  <1>6. phase' \in {"recovering", "down"}
    BY <1>1, <1>4
  <1>7. TypeOK'
    BY <1>1, <1>5, <1>6 DEF IInv, TypeOK
  <1>8. PollGood' /\ PhaseGood'
    BY <1>1, <1>6 DEF IInv, PollGood, PhaseGood
  <1>9. QED
    BY <1>5, <1>7, <1>8 DEF IInv

LEMMA ServeStep ==
  ASSUME IInv, Serve
  PROVE  IInv'
  <1>1. TypeOK'
    BY DEF Serve, IInv, TypeOK
  <1>2. CopiesGood' /\ PhaseGood'
    BY DEF Serve, IInv, CopiesGood, PhaseGood
  <1>3. PollGood'
    BY DEF Serve, IInv, PollGood
  <1>4. QED
    BY <1>1, <1>2, <1>3 DEF IInv

-----------------------------------------------------------------------------
(* The invariant is inductive, and implies the properties *)

LEMMA InitStep ==
  ASSUME Init
  PROVE  IInv
  <1>1. TypeOK
    BY EmptyType, IdleType DEF Init, TypeOK
  <1>2. ASSUME NEW k \in Owners
        PROVE  Good(k, EmptyPartition, started, told)
               /\ Newer(EmptyPartition, EmptyPartition)
    <2>1. started = {} /\ \A t \in TimerIds : told[k][t] = 0
      BY DEF Init
    <2>2. QED
      BY <2>1, EmptyType, EmptyGood, NewerReflexive DEF Good, Fenced
  <1>3. CopiesGood
    BY <1>2 DEF Init, CopiesGood, Good
  <1>4. PollGood /\ PhaseGood
    BY IdleType DEF Init, PollGood, PhaseGood
  <1>5. QED
    BY <1>1, <1>3, <1>4 DEF IInv

LEMMA NextStep ==
  ASSUME IInv, [Next]_vars
  PROVE  IInv'
  <1>1. CASE UNCHANGED vars
    <2>1. /\ mem' = mem /\ disk' = disk /\ damaged' = damaged /\ phase' = phase
          /\ unrecovered' = unrecovered /\ poll' = poll
          /\ started' = started /\ told' = told
      BY <1>1 DEF vars
    <2>2. TypeOK' /\ CopiesGood' /\ PollGood' /\ PhaseGood'
      BY <2>1 DEF IInv, TypeOK, CopiesGood, PollGood, PhaseGood
    <2>3. QED
      BY <2>2 DEF IInv
  <1>2. CASE Poll
    BY <1>2, PollBeginStep, PollPartitionStep, PollTimerStep, PollSaveStep, PollEndStep
       DEF Poll
  <1>3. CASE Restart
    BY <1>3, CrashStep, LoadStep, ServeStep, DamageStep, RecoverStep DEF Restart
  <1>4. ASSUME NEW k \in Owners, Request(k)
        PROVE  IInv'
    BY <1>4, CreateStep, CreateAgainStep, UpdateStep, DeleteStep DEF Request
  <1>5. ASSUME NEW k \in Owners, Receipt(k)
        PROVE  IInv'
    BY <1>5, ClaimStep, DeferStep, AcknowledgeStep DEF Receipt
  <1>6. QED
    BY <1>1, <1>2, <1>3, <1>4, <1>5 DEF Next

LEMMA Invariance == Spec => []IInv
  <1>1. Init => IInv
    BY InitStep
  <1>2. IInv /\ [Next]_vars => IInv'
    BY NextStep
  <1>3. QED
    BY <1>1, <1>2, PTL DEF Spec

\* Every record keeps its shape: no handler, failed commit or restart leaves a
\* partition, a poll in progress or the bookkeeping outside its type.
THEOREM TypeCorrect == Spec => []TypeOK
  <1>1. IInv => TypeOK
    BY DEF IInv
  <1>2. QED
    BY <1>1, Invariance, PTL

\* Executions of one timer never overlap, for any number of partitions, timers
\* and occurrences, any schedules and any clock (the busy test of poll).
THEOREM NoOverlapHolds == Spec => []NoOverlap
  <1>1. IInv => NoOverlap
    <2>1. SUFFICES ASSUME IInv, NEW k \in Owners, NEW p \in Copies(k),
                          NEW o \in OccIds, NEW n \in OccIds,
                          p.occs[o].status \in Open, p.occs[n].status \in Open,
                          p.occs[o].timer = p.occs[n].timer, o # n
                   PROVE  FALSE
      BY DEF NoOverlap
    <2>2. Sound(p)
      BY <2>1 DEF IInv, CopiesGood, Copies, Good
    <2>3. Emitted(p, o) /\ Emitted(p, n)
      BY <2>1 DEF Emitted, Open
    <2>4. QED
      BY <2>1, <2>2, <2>3 DEF Sound, OccurrencesSound
  <1>2. QED
    BY <1>1, Invariance, PTL

\* At most once: a due time that was handed off is never pending again, in
\* memory or on disk, whatever the clock, the failed commits and the restarts.
THEOREM AtMostOnce == Spec => []NeverStartedTwice
  <1>1. IInv => NeverStartedTwice
    <2>1. SUFFICES ASSUME IInv, NEW k \in Owners, NEW p \in Copies(k)
                   PROVE  Unstarted(k, p, started)
      BY DEF NeverStartedTwice, Unstarted
    <2>2. QED
      BY <2>1 DEF IInv, CopiesGood, Copies, Good
  <1>2. QED
    BY <1>1, Invariance, PTL

\* No timer accepts more firings than the limit its schedule has at the time,
\* through any sequence of updates, polls, lost writes and restarts.
THEOREM LimitHolds == Spec => []LimitRespected
  <1>1. IInv => LimitRespected
    <2>1. SUFFICES ASSUME IInv, NEW k \in Owners, NEW p \in Copies(k), NEW t \in TimerIds
                   PROVE  TimerSound(p.timers[t], p.idem, t)
      BY DEF LimitRespected, TimerSound
    <2>2. QED
      BY <2>1 DEF IInv, CopiesGood, Copies, Good, Sound
  <1>2. QED
    BY <1>1, Invariance, PTL

\* What a client was told of is on disk: no crash, failed directory sync or
\* later handler takes an answered creation, update or deletion back.
THEOREM AnswersSurvive == Spec => []AnswersAreDurable
  <1>1. IInv => AnswersAreDurable
    <2>1. SUFFICES ASSUME IInv, NEW k \in Owners, NEW t \in TimerIds, told[k][t] > 0
                   PROVE  /\ disk[k].timers[t].revision >= told[k][t]
                          /\ \E e \in disk[k].idem : e.id = t
      BY DEF AnswersAreDurable
    <2>2. /\ told[k][t] <= disk[k].timers[t].revision
          /\ \E e \in disk[k].idem : e.id = t
      BY <2>1 DEF IInv, CopiesGood, Good, Fenced
    <2>3. told[k][t] \in Nat /\ disk[k].timers[t].revision \in Nat
      BY <2>1 DEF IInv, TypeOK, Partition, TimerDefinition
    <2>4. QED
      BY <2>2, <2>3
  <1>2. QED
    BY <1>1, Invariance, PTL

-----------------------------------------------------------------------------
(* The service: what its steps do to the store, and the types of the rest. *)

\* What the poller, the dispatcher and the actors hand to the store is one of
\* its handlers, or leaves it alone.
LEMMA ServiceStep ==
  ASSUME ServiceTypeOK, [ServiceNext]_all_vars
  PROVE  [Next]_vars
  <1>1. CASE UNCHANGED all_vars
    BY <1>1 DEF all_vars
  <1>2. CASE Poller
    <2>1. ASSUME NEW now \in Instants, StartPoll(now)
          PROVE  Next
      BY <2>1 DEF StartPoll, Next, Poll
    <2>2. CASE ContinuePoll
      BY <2>2 DEF ContinuePoll, Next, Poll
    <2>3. CASE FinishPoll
      BY <2>3 DEF FinishPoll, Next, Poll
    <2>4. CASE Wake \/ GiveUpSending \/ \E e \in Occurrences : Send(e)
      BY <2>4 DEF Wake, GiveUpSending, Send
    <2>5. QED
      BY <1>2, <2>1, <2>2, <2>3, <2>4 DEF Poller
  <1>3. CASE Dispatcher
    <2> DEFINE k == dispatcher.for[1]
               o == dispatcher.for[2]
    <2>1. k \in Owners /\ o \in OccIds
      BY DEF ServiceTypeOK, Occurrences
    <2>2. CASE Receive \/ OpenAgent
      BY <2>2 DEF Receive, OpenAgent
    <2>3. CASE ClaimFired
      <3>1. Claim(k, o) \/ UNCHANGED vars
        BY <2>3 DEF ClaimFired
      <3>2. QED
        BY <2>1, <3>1 DEF Next, Receipt
    <2>4. CASE Settle
      <3>1. Defer(k, o) \/ Acknowledge(k, o, "failed") \/ UNCHANGED vars
        BY <2>4 DEF Settle, GiveReceipt
      <3>2. "failed" \in Outcomes \cup {"running"}
        BY DEF Outcomes
      <3>3. QED
        BY <2>1, <3>1, <3>2 DEF Next, Receipt
    <2>5. QED
      BY <1>3, <2>2, <2>3, <2>4 DEF Dispatcher
  <1>4. ASSUME NEW k \in Owners, NEW o \in OccIds, Actor(k, o)
        PROVE  [Next]_vars
    <2>1. CASE FinishRound(k, o)
      BY <2>1 DEF FinishRound
    <2>2. ASSUME NEW status \in Outcomes \cup {"running"}, GiveReceipt(k, o, status)
          PROVE  [Next]_vars
      BY <2>2 DEF GiveReceipt, Next, Receipt
    <2>3. QED
      BY <1>4, <2>1, <2>2 DEF Actor, Started, Finished
  <1>5. ASSUME NEW k \in Owners, ClientRequest(k)
        PROVE  Next
    BY <1>5 DEF ClientRequest, Next
  <1>6. CASE Crowding \/ StopTimer \/ CloseRegistry
    BY <1>6 DEF Crowding, StopTimer, CloseRegistry
  <1>7. CASE Exit \/ Kill
    BY <1>7 DEF Exit, Kill, Halt, Next, Restart
  <1>8. CASE Reopen
    BY <1>8 DEF Reopen, Next, Restart
  <1>9. QED
    BY <1>1, <1>2, <1>3, <1>4, <1>5, <1>6, <1>7, <1>8 DEF ServiceNext

LEMMA WaitingType ==
  /\ Waiting.at = "receive" /\ Waiting.for \in Occurrences
  /\ Waiting \in [at : {"receive", "claim", "open", "refused", "exhausted"},
                  for : Occurrences]
  <1>1. \E e \in Occurrences : TRUE
    <2>1. PICK k \in Owners : TRUE
      BY NonEmptyAssumption
    <2>2. PICK o \in OccIds : TRUE
      BY ServiceAssumption
    <2>3. <<k, o>> \in Occurrences
      BY DEF Occurrences
    <2>4. QED
      BY <2>3
  <1>2. (CHOOSE e \in Occurrences : TRUE) \in Occurrences
    BY <1>1
  <1>3. QED
    BY <1>2 DEF Waiting

LEMMA PendingAreOccurrences == AllPending \subseteq Occurrences
  BY DEF AllPending, PendingOf, Occurrences

\* The places of an actor, and of the dispatcher.
Rounds == [Owners -> [OccIds -> {"none", "opened", "lent", "running", "leaving"}]]
Work == [at : {"receive", "claim", "open", "refused", "exhausted"}, for : Occurrences]

LEMMA ActorMoves ==
  ASSUME actors \in Rounds, NEW k \in Owners, NEW o \in OccIds,
         NEW place \in {"none", "opened", "lent", "running", "leaving"}
  PROVE  [actors EXCEPT ![k][o] = place] \in Rounds
  BY DEF Rounds

LEMMA ServiceTypeStep ==
  ASSUME TypeOK, ServiceTypeOK, [ServiceNext]_all_vars
  PROVE  ServiceTypeOK'
  <1> USE DEF ServiceTypeOK
  <1>1. CASE UNCHANGED service_vars
    BY <1>1 DEF service_vars
  <1>2. CASE UNCHANGED all_vars
    BY <1>1, <1>2 DEF all_vars
  <1>3. CASE Poller
    <2>1. CASE Wake \/ GiveUpSending \/ \E now \in Instants : StartPoll(now)
      BY <2>1 DEF Wake, GiveUpSending, StartPoll
    <2>2. CASE ContinuePoll
      BY <1>1, <2>2 DEF ContinuePoll
    <2>3. CASE FinishPoll
      BY <2>3, PendingAreOccurrences DEF FinishPoll, Fired
    <2>4. ASSUME NEW e \in Occurrences, Send(e)
          PROVE  ServiceTypeOK'
      <3>1. Append(channel, e) \in Seq(Occurrences) /\ Len(Append(channel, e)) = Len(channel) + 1
            /\ Len(channel) \in Nat
        OBVIOUS
      <3>2. Len(Append(channel, e)) <= ChannelLimit
        BY <2>4, <3>1, ServiceAssumption DEF Send
      <3>3. QED
        BY <2>4, <3>1, <3>2 DEF Send
    <2>5. QED
      BY <1>3, <2>1, <2>2, <2>3, <2>4 DEF Poller
  <1>4. CASE Dispatcher
    <2> DEFINE k == dispatcher.for[1]
               o == dispatcher.for[2]
    <2>1. k \in Owners /\ o \in OccIds
      BY DEF Occurrences
    <2>2. CASE Receive
      <3>1. channel # <<>>
        BY <2>2 DEF Receive
      <3>2. /\ Head(channel) \in Occurrences /\ Tail(channel) \in Seq(Occurrences)
            /\ Len(Tail(channel)) = Len(channel) - 1 /\ Len(channel) \in Nat
        BY <3>1
      <3>3. Len(Tail(channel)) <= ChannelLimit
        BY <3>2, ServiceAssumption
      <3>4. QED
        BY <2>2, <3>2, <3>3 DEF Receive
    <2>3. CASE ClaimFired
      <3>1. dispatcher' \in Work
        BY <2>3, WaitingType DEF ClaimFired, Work
      <3>2. QED
        BY <2>3, <3>1 DEF ClaimFired, Work
    <2>4. CASE OpenAgent
      <3>1. dispatcher' \in Work
        BY <2>4, WaitingType DEF OpenAgent, Work
      <3>2. actors' \in Rounds
        <4>1. \/ actors' = actors \/ actors' = [actors EXCEPT ![k][o] = "opened"]
              \/ actors' = [actors EXCEPT ![k][o] = "lent"]
          BY <2>4 DEF OpenAgent
        <4>2. actors \in Rounds
          BY DEF Rounds
        <4>3. /\ [actors EXCEPT ![k][o] = "opened"] \in Rounds
              /\ [actors EXCEPT ![k][o] = "lent"] \in Rounds
          BY <2>1, <4>2, ActorMoves
        <4>4. QED
          BY <4>1, <4>2, <4>3
      <3>3. executed' \subseteq Owners \X TimerIds \X Time
        BY <2>1, <2>4, DueTimeType DEF OpenAgent
      <3>4. UNCHANGED <<awake, outbox, channel, service>> /\ crowd' \in BOOLEAN
        BY <2>4 DEF OpenAgent
      <3>5. QED
        BY <3>1, <3>2, <3>3, <3>4 DEF Work, Rounds
    <2>5. CASE Settle
      BY <2>5, WaitingType DEF Settle
    <2>6. QED
      BY <1>4, <2>2, <2>3, <2>4, <2>5 DEF Dispatcher
  <1>5. ASSUME NEW k \in Owners, NEW o \in OccIds, Actor(k, o)
        PROVE  ServiceTypeOK'
    <2>1. UNCHANGED <<awake, outbox, channel, dispatcher, crowd, service, executed>>
      BY <1>5 DEF Actor, Started, Finished, FinishRound
    <2>2. PICK place \in {"none", "running", "leaving"} :
            actors' = [actors EXCEPT ![k][o] = place]
      BY <1>5 DEF Actor, Started, Finished, FinishRound
    <2>3. actors \in Rounds
      BY DEF Rounds
    <2>4. [actors EXCEPT ![k][o] = place] \in Rounds
      BY <2>3, ActorMoves
    <2>5. QED
      BY <2>1, <2>2, <2>4 DEF Rounds
  <1>6. CASE \E k \in Owners : ClientRequest(k)
    BY <1>1, <1>6 DEF ClientRequest
  <1>7. CASE Crowding \/ StopTimer \/ CloseRegistry
    BY <1>7 DEF Crowding, StopTimer, CloseRegistry
  <1>8. CASE Exit \/ Kill
    <2>1. <<>> \in Seq(Occurrences) /\ Len(<<>>) = 0 /\ 0 <= ChannelLimit
      BY ServiceAssumption
    <2>2. NoActors \in Rounds
      BY DEF NoActors, Rounds
    <2>3. QED
      BY <1>8, <2>1, <2>2, WaitingType DEF Exit, Kill, Halt, Rounds
  <1>9. CASE Reopen
    BY <1>1, <1>9 DEF Reopen
  <1>10. QED
    BY <1>2, <1>3, <1>4, <1>5, <1>6, <1>7, <1>8, <1>9 DEF ServiceNext

LEMMA ServiceInitType == ServiceInit => ServiceTypeOK
  <1>1. <<>> \in Seq(Occurrences) /\ Len(<<>>) = 0 /\ 0 <= ChannelLimit
    BY ServiceAssumption
  <1>2. NoActors \in Rounds
    BY DEF NoActors, Rounds
  <1>3. QED
    BY <1>1, <1>2, WaitingType DEF ServiceInit, ServiceTypeOK, Rounds

LEMMA ServiceInvariance == ServiceSpec => [](IInv /\ ServiceTypeOK)
  <1>1. ServiceInit => IInv /\ ServiceTypeOK
    BY InitStep, ServiceInitType DEF ServiceInit
  <1>2. IInv /\ ServiceTypeOK /\ [ServiceNext]_all_vars => IInv' /\ ServiceTypeOK'
    BY ServiceStep, ServiceTypeStep, NextStep DEF IInv
  <1>3. QED
    BY <1>1, <1>2, PTL DEF ServiceSpec

\* Whatever the poller, the dispatcher, the actors, the clients and the server's
\* shutdown do, and in which order, the store sees one handler at a time of those
\* it has, and what is proved of it holds in the service (timer_runtime.rs;
\* app/fae/src/server/timer.rs, session.rs).
THEOREM ServiceImplementsStore == ServiceSpec => Spec
  <1>1. ServiceInit => Init
    BY DEF ServiceInit
  <1>2. ServiceTypeOK /\ [ServiceNext]_all_vars => [Next]_vars
    BY ServiceStep
  <1>3. QED
    BY <1>1, <1>2, ServiceInvariance, PTL DEF ServiceSpec, Spec

\* The channel of events never holds more than its capacity, and every place of
\* the poller, the dispatcher and the actors is one the code has.
THEOREM ServiceTypes == ServiceSpec => []ServiceTypeOK
  BY ServiceInvariance, PTL

-----------------------------------------------------------------------------
(* No due time is executed twice.                                          *)

\* A poll that holds the mutex has changed no occurrence that memory has.
Carried ==
  poll.stage = "timers" => \A o \in OccIds :
    Emitted(mem[poll.key], o) => poll.work.occs[o] = mem[poll.key].occs[o]

\* What was executed counts as started.  What the dispatcher has claimed, and
\* neither handed over nor given back, is started and not executed; and it is
\* still the occurrence that was claimed, because nothing reuses its id.
HandedOff ==
  /\ executed \subseteq started
  /\ dispatcher.at \in {"open", "refused", "exhausted"} =>
       LET k == dispatcher.for[1]
           o == dispatcher.for[2]
       IN  /\ phase = "up" /\ Emitted(mem[k], o)
           /\ DueTime(k, o) \in started \ executed

\* The occurrence keeps its timer and its due time, and is not forgotten.
Stays(p, q, o) ==
  Emitted(p, o) => Emitted(q, o) /\ q.occs[o].timer = p.occs[o].timer
                                 /\ q.occs[o].at = p.occs[o].at

LEMMA InstalledStays ==
  ASSUME TypeOK, NEW k \in Owners, NEW p, \A o \in OccIds : Stays(mem[k], p, o),
         Save(k, p) \/ SaveFails(k, p)
  PROVE  \A j \in Owners, o \in OccIds : Stays(mem[j], mem'[j], o)
  BY DEF TypeOK, Save, SaveFails, Stays

LEMMA StatusStays ==
  ASSUME NEW p \in Partition, NEW n \in OccIds, NEW status, status # "absent"
  PROVE  \A o \in OccIds : Stays(p, SetStatus(p, n, status), o)
  BY DEF Stays, Emitted, SetStatus, Partition, TimerOccurrence

LEMMA RequestStays ==
  ASSUME TypeOK, NEW k \in Owners, Request(k)
  PROVE  \A j \in Owners, o \in OccIds : Stays(mem[j], mem'[j], o)
  <1>0. mem[k] \in Partition
    BY DEF TypeOK
  <1>1. ASSUME NEW t \in TimerIds, NEW key \in Keys, NEW s \in Schedules, NEW pol \in Policies,
               NEW now \in Instants, Create(k, t, key, s, pol, now)
        PROVE  \A j \in Owners, o \in OccIds : Stays(mem[j], mem'[j], o)
    <2> DEFINE p == Created(mem[k], t, key, s, pol, now)
    <2>1. \A o \in OccIds : Stays(mem[k], p, o)
      BY <1>0 DEF Created, Stays, Emitted, Partition
    <2>2. Save(k, p) \/ SaveFails(k, p)
      BY <1>1 DEF Create, Commit
    <2>3. QED
      BY <2>1, <2>2, InstalledStays
  <1>2. ASSUME NEW key \in Keys, NEW s \in Schedules, NEW pol \in Policies,
               CreateAgain(k, key, s, pol)
        PROVE  \A j \in Owners, o \in OccIds : Stays(mem[j], mem'[j], o)
    BY <1>2 DEF CreateAgain, Stays
  <1>3. ASSUME NEW t \in TimerIds, NEW s, NEW pol, NEW enabled, NEW now,
               Update(k, t, s, pol, enabled, now)
        PROVE  \A j \in Owners, o \in OccIds : Stays(mem[j], mem'[j], o)
    <2> DEFINE p == [mem[k] EXCEPT !.timers[t] = Updated(@, s, pol, enabled, now)]
    <2>1. \A o \in OccIds : Stays(mem[k], p, o)
      BY <1>0 DEF Stays, Emitted, Partition
    <2>2. Save(k, p) \/ SaveFails(k, p)
      BY <1>3 DEF Update, Commit
    <2>3. QED
      BY <2>1, <2>2, InstalledStays
  <1>4. ASSUME NEW t \in TimerIds, Delete(k, t)
        PROVE  \A j \in Owners, o \in OccIds : Stays(mem[j], mem'[j], o)
    <2> DEFINE p == IF mem[k].timers[t].state = "deleted" THEN mem[k] ELSE Deleted(mem[k], t)
    <2>1. \A o \in OccIds : Stays(mem[k], p, o)
      BY <1>0 DEF Deleted, Suppressed, Stays, Emitted, Partition, TimerOccurrence
    <2>2. Save(k, p) \/ SaveFails(k, p)
      BY <1>4 DEF Delete, Commit
    <2>3. QED
      BY <2>1, <2>2, InstalledStays
  <1>5. QED
    BY <1>1, <1>2, <1>3, <1>4 DEF Request

LEMMA ReceiptStays ==
  ASSUME TypeOK, NEW k \in Owners, Receipt(k)
  PROVE  \A j \in Owners, o \in OccIds : Stays(mem[j], mem'[j], o)
  <1>1. PICK o \in OccIds, status \in {"dispatching", "pending", "running"} \cup Outcomes :
          Save(k, SetStatus(mem[k], o, status)) \/ SaveFails(k, SetStatus(mem[k], o, status))
    BY DEF Receipt, Claim, Defer, Acknowledge
  <1>2. status # "absent"
    BY DEF Outcomes
  <1>3. mem[k] \in Partition
    BY DEF TypeOK
  <1>4. \A n \in OccIds : Stays(mem[k], SetStatus(mem[k], o, status), n)
    BY <1>2, <1>3, StatusStays
  <1>5. QED
    BY <1>1, <1>4, InstalledStays

LEMMA PollStays ==
  ASSUME IInv, Carried, Poll
  PROVE  \A j \in Owners, o \in OccIds : Stays(mem[j], mem'[j], o)
  <1>1. CASE UNCHANGED mem
    BY <1>1 DEF Stays
  <1>2. ASSUME NEW old \in SUBSET OccIds, PollSave(old), ~UNCHANGED mem
        PROVE  \A j \in Owners, o \in OccIds : Stays(mem[j], mem'[j], o)
    <2> DEFINE k == poll.key
               p == Retained(poll.work, old)
    <2>1. TypeOK /\ k \in Owners /\ poll.stage = "timers"
          /\ poll.work \in Partition /\ mem[k] \in Partition
      BY <1>2 DEF IInv, TypeOK, PollSave
    <2>2. \A o \in OccIds : Emitted(mem[k], o) => poll.work.occs[o] = mem[k].occs[o]
      BY <2>1 DEF Carried
    <2>3. \A o \in OccIds : Stays(mem[k], p, o)
      BY <2>1, <2>2 DEF Retained, Stays, Emitted, Partition, TimerOccurrence
    <2>4. Save(k, p) \/ SaveFails(k, p)
      BY <1>2 DEF PollSave
    <2>5. QED
      BY <2>1, <2>3, <2>4, InstalledStays
  <1>3. QED
    BY <1>1, <1>2 DEF Poll, PollBegin, PollPartition, PollTimer, PollEnd

LEMMA CarriedStep ==
  ASSUME IInv, Carried, [Next]_vars
  PROVE  Carried'
  <1>0. TypeOK /\ PollGood
    BY DEF IInv
  <1>1. CASE UNCHANGED <<poll, mem>>
    BY <1>1 DEF Carried, Emitted
  <1>2. CASE poll'.stage # "timers"
    BY <1>2 DEF Carried
  <1>3. ASSUME NEW k \in Owners, PollPartition(k)
        PROVE  Carried'
    <2>1. poll'.key = k /\ poll'.work = mem[k] /\ mem' = mem
      BY <1>0, <1>3 DEF PollPartition, TypeOK
    <2>2. QED
      BY <2>1 DEF Carried
  <1>4. ASSUME NEW t \in TimerIds, PollTimer(t)
        PROVE  Carried'
    <2> DEFINE p == poll.work
    <2>1. /\ poll.stage = "timers" /\ p \in Partition /\ mem' = mem
      BY <1>0, <1>4 DEF PollTimer, TypeOK
    <2>2. poll'.key = poll.key
      BY <1>0, <1>4 DEF PollTimer, TypeOK
    <2>3. ASSUME NEW o \in OccIds, Emitted(p, o)
          PROVE  poll'.work.occs[o] = p.occs[o]
      <3>1. ASSUME NEW n \in OccIds, NEW tm, IsFresh(p, n),
                   poll'.work = Accepted(p, t, n, tm)
            PROVE  poll'.work.occs[o] = p.occs[o]
        <4>1. n # o
          BY <2>3, <3>1 DEF IsFresh, Emitted
        <4>2. QED
          BY <2>1, <3>1, <4>1 DEF Accepted, Partition
      <3>2. ASSUME NEW tm, poll'.work = [p EXCEPT !.timers[t] = tm]
            PROVE  poll'.work.occs[o] = p.occs[o]
        BY <2>1, <3>2 DEF Partition
      <3>3. QED
        BY <1>0, <1>4, <3>1, <3>2 DEF PollTimer, TypeOK
    <2>4. \A o \in OccIds : Emitted(mem[poll.key], o) => p.occs[o] = mem[poll.key].occs[o]
      BY <2>1 DEF Carried
    <2>5. QED
      BY <2>1, <2>2, <2>3, <2>4 DEF Carried, Emitted
  <1>5. CASE Poll
    <2>1. ASSUME NEW now \in Instants, PollBegin(now)
          PROVE  poll'.stage # "timers"
      BY <2>1 DEF PollBegin, Idle
    <2>2. ASSUME NEW old \in SUBSET OccIds, PollSave(old)
          PROVE  poll'.stage # "timers"
      <3>1. poll'.stage = "partitions" \/ poll' = Idle
        BY <2>2, <1>0 DEF PollSave, TypeOK
      <3>2. QED
        BY <3>1, IdleType
    <2>3. CASE PollEnd
      BY <1>2, <2>3 DEF PollEnd, Idle
    <2>4. QED
      BY <1>2, <1>3, <1>4, <1>5, <2>1, <2>2, <2>3 DEF Poll
  <1>6. CASE Restart
    <2>1. CASE Crash
      BY <1>2, <2>1 DEF Crash, Idle
    <2>2. CASE phase # "up" /\ UNCHANGED poll
      BY <1>0, <1>2, <2>2 DEF PollGood
    <2>3. QED
      BY <1>6, <2>1, <2>2 DEF Restart, Load, Serve, Damage, Recover
  <1>7. ASSUME NEW k \in Owners, Request(k) \/ Receipt(k)
        PROVE  Carried'
    <2>1. poll.stage = "idle" /\ UNCHANGED poll
      BY <1>7 DEF Request, Create, CreateAgain, Update, Delete, Receipt, Claim, Defer,
                  Acknowledge, Free
    <2>2. QED
      BY <1>2, <2>1
  <1>8. QED
    BY <1>1, <1>5, <1>6, <1>7 DEF Next, vars

\* While the service is up nothing takes an occurrence's place.
LEMMA OccurrenceStays ==
  ASSUME IInv, Carried, [Next]_vars, phase = "up", phase' = "up"
  PROVE  \A j \in Owners, o \in OccIds : Stays(mem[j], mem'[j], o)
  <1>1. CASE UNCHANGED mem
    BY <1>1 DEF Stays
  <1>2. CASE Poll
    BY <1>2, PollStays
  <1>3. CASE Restart
    BY <1>1, <1>3 DEF Restart, Crash, Load, Serve, Damage, Recover
  <1>4. ASSUME NEW k \in Owners, Request(k) \/ Receipt(k)
        PROVE  \A j \in Owners, o \in OccIds : Stays(mem[j], mem'[j], o)
    BY <1>4, RequestStays, ReceiptStays DEF IInv
  <1>5. QED
    BY <1>1, <1>2, <1>3, <1>4 DEF Next, vars

\* A step that neither claims, hands over nor gives back.
LEMMA HeldStays ==
  ASSUME IInv, ServiceTypeOK, Carried, HandedOff, [Next]_vars,
         started' = started, executed' = executed, phase = "up" => phase' = "up",
         \/ dispatcher' = dispatcher
         \/ dispatcher'.at \notin {"open", "refused", "exhausted"}
  PROVE  HandedOff'
  <1> DEFINE k == dispatcher.for[1]
             o == dispatcher.for[2]
  <1>1. k \in Owners /\ o \in OccIds
    BY DEF ServiceTypeOK, Occurrences
  <1>2. CASE dispatcher'.at \notin {"open", "refused", "exhausted"}
    BY <1>2 DEF HandedOff
  <1>3. CASE dispatcher' = dispatcher /\ dispatcher.at \in {"open", "refused", "exhausted"}
    <2>1. phase = "up" /\ Emitted(mem[k], o) /\ DueTime(k, o) \in started \ executed
      BY <1>3 DEF HandedOff
    <2>2. Stays(mem[k], mem'[k], o)
      BY <1>1, <2>1, OccurrenceStays
    <2>3. /\ phase' = "up" /\ Emitted(mem'[k], o)
          /\ <<k, mem'[k].occs[o].timer, mem'[k].occs[o].at>> \in started' \ executed'
      BY <2>1, <2>2 DEF Stays, DueTime
    <2>4. QED
      BY <1>3, <2>3 DEF HandedOff, DueTime
  <1>4. QED
    BY <1>2, <1>3

LEMMA ClaimHands ==
  ASSUME IInv, ServiceTypeOK, Carried, HandedOff, ClaimFired
  PROVE  HandedOff'
  <1> DEFINE k == dispatcher.for[1]
             o == dispatcher.for[2]
             p == SetStatus(mem[k], o, "dispatching")
  <1>1. k \in Owners /\ o \in OccIds /\ executed' = executed /\ TypeOK
    BY DEF ServiceTypeOK, Occurrences, ClaimFired, IInv
  <1>2. started \subseteq started'
    BY DEF ClaimFired, Claim, vars
  <1>3. CASE mem' = mem
    <2>1. dispatcher'.at = "receive"
      BY <1>3, WaitingType DEF ClaimFired
    <2>2. QED
      BY <1>1, <1>2, <2>1 DEF HandedOff
  <1>4. CASE mem' # mem
    <2>1. Claim(k, o)
      BY <1>4 DEF ClaimFired, vars
    <2>2. /\ mem[k].occs[o].status = "pending" /\ phase = "up" /\ phase' = "up"
          /\ Save(k, p) /\ started' = started \cup {DueTime(k, o)}
      BY <1>4, <2>1 DEF Claim, Free, SaveFails
    <2>3. mem[k] \in Partition /\ mem'[k] = p
      BY <1>1, <2>2 DEF Save, TypeOK
    <2>4. /\ Emitted(mem'[k], o) /\ mem'[k].occs[o].timer = mem[k].occs[o].timer
          /\ mem'[k].occs[o].at = mem[k].occs[o].at
      BY <1>1, <2>3 DEF SetStatus, Emitted, Partition, TimerOccurrence
    <2>5. DueTime(k, o) \notin started
      BY <1>1, <2>2 DEF IInv, CopiesGood, Unstarted, DueTime
    <2>6. dispatcher'.for = dispatcher.for
      BY <1>4 DEF ClaimFired, ServiceTypeOK
    <2>7. <<k, mem'[k].occs[o].timer, mem'[k].occs[o].at>> \in started' \ executed'
      BY <1>1, <2>2, <2>4, <2>5 DEF HandedOff, DueTime
    <2>8. executed' \subseteq started'
      BY <1>1, <1>2 DEF HandedOff
    <2>9. QED
      BY <2>2, <2>4, <2>6, <2>7, <2>8 DEF HandedOff, DueTime
  <1>5. QED
    BY <1>3, <1>4

LEMMA OpenHands ==
  ASSUME ServiceTypeOK, HandedOff, OpenAgent
  PROVE  HandedOff'
  <1> DEFINE k == dispatcher.for[1]
             o == dispatcher.for[2]
  <1>1. UNCHANGED vars /\ phase' = phase /\ mem' = mem /\ started' = started
    BY DEF OpenAgent, vars
  <1>2. dispatcher.at = "open"
    BY DEF OpenAgent
  <1>3. DueTime(k, o) \in started \ executed /\ phase = "up" /\ Emitted(mem[k], o)
    BY <1>2 DEF HandedOff
  <1>4. CASE executed' = executed /\ dispatcher'.for = dispatcher.for
    BY <1>1, <1>3, <1>4 DEF HandedOff, Emitted, DueTime
  <1>5. CASE executed' = executed \cup {DueTime(k, o)} /\ dispatcher' = Waiting
    BY <1>1, <1>3, <1>5, WaitingType DEF HandedOff
  <1>6. QED
    BY <1>4, <1>5 DEF OpenAgent, ServiceTypeOK

LEMMA SettleHands ==
  ASSUME HandedOff, Settle
  PROVE  HandedOff'
  <1> DEFINE k == dispatcher.for[1]
             o == dispatcher.for[2]
  <1>1. dispatcher'.at = "receive" /\ executed' = executed
    BY WaitingType DEF Settle
  <1>2. DueTime(k, o) \notin executed
    BY DEF HandedOff, Settle
  <1>3. started' = started \ {DueTime(k, o)} \/ started' = started
    BY DEF Settle, Defer, GiveReceipt, Acknowledge, vars
  <1>4. QED
    BY <1>1, <1>2, <1>3 DEF HandedOff

LEMMA HandedOffStep ==
  ASSUME IInv, ServiceTypeOK, Carried, HandedOff, [ServiceNext]_all_vars
  PROVE  HandedOff'
  <1>1. [Next]_vars
    BY ServiceStep
  <1>2. CASE UNCHANGED all_vars
    BY <1>1, <1>2, HeldStays DEF all_vars, vars, service_vars
  <1>3. CASE Poller
    <2>1. UNCHANGED <<started, executed, dispatcher, phase>>
      BY <1>3 DEF Poller, Wake, StartPoll, ContinuePoll, FinishPoll, GiveUpSending, Send, PollBegin,
                  PollPartition, PollTimer, PollSave, PollEnd, vars, service_vars
    <2>2. QED
      BY <1>1, <2>1, HeldStays
  <1>4. CASE Dispatcher
    <2>1. CASE Receive
      <3>1. /\ UNCHANGED <<started, executed, phase>>
            /\ dispatcher' = dispatcher \/ dispatcher'.at = "claim"
        BY <2>1 DEF Receive, vars
      <3>2. QED
        BY <1>1, <3>1, HeldStays
    <2>2. QED
      BY <1>4, <2>1, ClaimHands, OpenHands, SettleHands DEF Dispatcher
  <1>5. ASSUME NEW k \in Owners, NEW o \in OccIds, Actor(k, o)
        PROVE  HandedOff'
    <2>1. UNCHANGED <<started, executed, dispatcher, phase>>
      BY <1>5 DEF Actor, Started, Finished, FinishRound, GiveReceipt, Acknowledge, vars
    <2>2. QED
      BY <1>1, <2>1, HeldStays
  <1>6. ASSUME NEW k \in Owners, ClientRequest(k)
        PROVE  HandedOff'
    <2>1. UNCHANGED <<started, executed, dispatcher, phase>>
      BY <1>6 DEF ClientRequest, Request, Create, CreateAgain, Update, Delete, service_vars
    <2>2. QED
      BY <1>1, <2>1, HeldStays
  <1>7. CASE Crowding \/ StopTimer \/ CloseRegistry
    <2>1. UNCHANGED <<started, executed, dispatcher, phase>>
      BY <1>7 DEF Crowding, StopTimer, CloseRegistry, vars
    <2>2. QED
      BY <1>1, <2>1, HeldStays
  <1>8. CASE Exit \/ Kill
    <2>1. UNCHANGED <<started, executed>> /\ dispatcher'.at = "receive"
      BY <1>8, WaitingType DEF Exit, Kill, Halt, Crash
    <2>2. QED
      BY <2>1 DEF HandedOff
  <1>9. CASE Reopen
    <2>1. UNCHANGED <<started, executed, dispatcher>> /\ phase # "up"
      BY <1>9 DEF Reopen, Load, Serve, Damage, Recover, service_vars
    <2>2. QED
      BY <1>1, <2>1, HeldStays
  <1>10. QED
    BY <1>2, <1>3, <1>4, <1>5, <1>6, <1>7, <1>8, <1>9 DEF ServiceNext

\* No due time is executed a second time, not even by a service that was killed
\* and restarted between the claim and the first receipt, whatever the clock
\* shows and whichever commits failed (claim and defer in timer_runtime.rs;
\* app/fae/src/server/timer.rs).
THEOREM DueTimesRunOnce == ServiceSpec => ExecutedOnce
  <1> DEFINE All == IInv /\ ServiceTypeOK /\ Carried /\ HandedOff
             Once == \A k \in Owners, o \in OccIds :
                       actors[k][o] = "none" /\ actors'[k][o] = "opened"
                         => DueTime(k, o) \notin executed
  <1>1. ServiceInit => All
    <2>1. ServiceInit => Carried
      BY IdleType DEF ServiceInit, Init, Carried
    <2>2. ServiceInit => HandedOff
      BY WaitingType DEF ServiceInit, Init, HandedOff
    <2>3. QED
      BY <2>1, <2>2, InitStep, ServiceInitType DEF ServiceInit
  <1>2. All /\ [ServiceNext]_all_vars => All'
    <2>1. SUFFICES ASSUME All, [ServiceNext]_all_vars
                   PROVE  IInv' /\ ServiceTypeOK' /\ Carried' /\ HandedOff'
      OBVIOUS
    <2>2. [Next]_vars /\ TypeOK
      BY <2>1, ServiceStep DEF IInv
    <2>3. QED
      BY <2>1, <2>2, NextStep, ServiceTypeStep, CarriedStep, HandedOffStep
  <1>3. All /\ [ServiceNext]_all_vars => [Once]_all_vars
    <2>1. SUFFICES ASSUME All, ServiceNext, NEW k \in Owners, NEW o \in OccIds,
                          actors[k][o] = "none", actors'[k][o] = "opened"
                   PROVE  DueTime(k, o) \notin executed
      OBVIOUS
    <2>2. actors \in Rounds
      BY <2>1 DEF ServiceTypeOK, Rounds
    <2>3. CASE OpenAgent
      <3>1. dispatcher.at = "open" /\ \E place \in {"opened", "lent"} :
              actors' = [actors EXCEPT ![dispatcher.for[1]][dispatcher.for[2]] = place]
        BY <2>1, <2>3 DEF OpenAgent
      <3>2. k = dispatcher.for[1] /\ o = dispatcher.for[2]
        BY <2>1, <2>2, <3>1 DEF Rounds
      <3>3. QED
        BY <2>1, <3>1, <3>2 DEF HandedOff
    <2>4. CASE UNCHANGED actors
      BY <2>1, <2>4
    <2>5. ASSUME NEW j \in Owners, NEW n \in OccIds, Actor(j, n)
          PROVE  FALSE
      <3>1. PICK place \in {"running", "leaving", "none"} :
              actors' = [actors EXCEPT ![j][n] = place]
        BY <2>5 DEF Actor, Started, Finished, FinishRound
      <3>2. QED
        BY <2>1, <2>2, <3>1 DEF Rounds
    <2>6. CASE Exit \/ Kill
      BY <2>1, <2>6 DEF Exit, Kill, Halt, NoActors
    <2>7. QED
      BY <2>1, <2>3, <2>4, <2>5, <2>6
      DEF ServiceNext, Poller, Wake, StartPoll, ContinuePoll, FinishPoll, GiveUpSending, Send,
          Dispatcher, Receive, ClaimFired, Settle, ClientRequest, Crowding, StopTimer, CloseRegistry,
          Reopen, service_vars
  <1>4. QED
    BY <1>1, <1>2, <1>3, PTL DEF ServiceSpec, ExecutedOnce
=============================================================================
