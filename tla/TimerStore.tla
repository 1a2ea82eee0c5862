----------------------------- MODULE TimerStore -----------------------------
(***************************************************************************)
(* The durable timer store of fae-engine: TimerHandle of                   *)
(* crates/fae-engine/src/engine_rt/timer_runtime.rs over the partitions of *)
(* crates/fae-engine/src/timer/store.rs.                                   *)
(*                                                                         *)
(* There is one partition for each (agent, user) pair; it holds the timer  *)
(* definitions, their occurrences and the idempotency records.  A handler  *)
(* holds the store mutex, edits a copy of one partition, commits the copy  *)
(* to its file and only then installs it in memory.  Every handler of      *)
(* TimerHandle is one action; a poll, which commits several partitions     *)
(* under one hold of the mutex, is a sequence of actions during which      *)
(* poll.stage # "idle" shuts the other handlers out, so that a failed      *)
(* commit or a crash may fall between two of its commits.                  *)
(*                                                                         *)
(* Data is abstracted.  A cron expression with its time zone is the set of *)
(* instants it names; the wall clock is read by each handler as any        *)
(* instant whatever, because a handler reads it before it queues for the   *)
(* mutex and because the host may set it back.  Name and input are left    *)
(* out: an occurrence records the revision it was cut from.                *)
(***************************************************************************)
EXTENDS Naturals, FiniteSets

CONSTANTS
  Owners,       \* the (agent, user) pairs, one partition each
  TimerIds,     \* the timer ids of one partition
  OccIds,       \* the occurrence ids of one partition, in order of creation
  Keys,         \* idempotency keys
  Schedules,    \* the schedules a client may submit
  Policies,     \* the misfire policies: a subset of {"coalesce", "skip"}
  Instants,     \* the instants the clock can show
  Grace,        \* how late a due time may be before it is a misfire (2 s)
  PendingLimit, \* TIMER_PENDING_LIMIT
  OwnerLimit,   \* undeleted timers of one partition (100)
  TotalLimit,   \* undeleted timers of the store (1000)
  RetainLimit,  \* terminal occurrences a partition keeps (1000)
  MaxRevision,  \* bound of the model: no update beyond this revision
  Faults,       \* how a commit may fail: a subset of {"lost", "unsynced"}
  Damageable,   \* partitions whose file something else may damage
  Keep          \* stands for a field an update leaves out

ASSUME InstantsAssumption == Instants \subseteq Nat \ {0}
ASSUME OccIdsAssumption == OccIds \subseteq Nat
ASSUME FiniteAssumption == IsFiniteSet(Owners) /\ IsFiniteSet(OccIds)
ASSUME LimitsAssumption ==
  /\ Grace \in Nat /\ PendingLimit \in Nat /\ OwnerLimit \in Nat
  /\ TotalLimit \in Nat /\ RetainLimit \in Nat /\ MaxRevision \in Nat
\* TimerSchedule::limit: 1 for once, max_fires for repeat, 0 (none) for loop.
ASSUME SchedulesAssumption ==
  /\ Schedules # {}
  /\ \A s \in Schedules : /\ s = [fires |-> s.fires, limit |-> s.limit]
                          /\ s.fires \subseteq Instants
                          /\ s.limit \in Nat
ASSUME NonEmptyAssumption == TimerIds # {} /\ Owners # {} /\ Policies # {}

VARIABLES
  mem,        \* Store.partitions: what the running service believes
  disk,       \* state.json of each partition
  damaged,    \* partitions whose file cannot be read: Store.corrupt once loaded
  phase,      \* "down", "recovering" (inside with_resolver) or "up"
  unrecovered,\* partitions that recover() has yet to visit
  poll,       \* the poll that holds the mutex, if any
  started,    \* history: the due times handed off to an executor
  told        \* history: the latest revision a client was answered with

vars == <<mem, disk, damaged, phase, unrecovered, poll, started, told>>

-----------------------------------------------------------------------------
(* Records *)

NoTime == 0
NoLimit == 0
Time == Instants \cup {NoTime}
TimerStates == {"absent", "active", "paused", "completed", "deleted"}
Open == {"pending", "dispatching", "running"}
\* TimerOccurrenceStatus::terminal
Terminal == {"succeeded", "failed", "cancelled", "interrupted", "suppressed"}
\* "absent" has not been emitted yet; "pruned" was dropped by retention.
Statuses == Open \cup Terminal \cup {"absent", "pruned"}

TimerDefinition ==
  [state : TimerStates, revision : Nat, schedule : Schedules,
   policy : Policies, accepted : Nat, next : Time, queued : Time, last : Time]

TimerOccurrence ==
  [status : Statuses, timer : TimerIds, revision : Nat, at : Time]

Idempotency ==
  [key : Keys, schedule : Schedules, policy : Policies, id : TimerIds]

Partition ==
  [timers : [TimerIds -> TimerDefinition],
   occs   : [OccIds -> TimerOccurrence],
   idem   : SUBSET Idempotency]

NoTimer ==
  [state |-> "absent", revision |-> 0, schedule |-> CHOOSE s \in Schedules : TRUE,
   policy |-> CHOOSE pol \in Policies : TRUE, accepted |-> 0,
   next |-> NoTime, queued |-> NoTime, last |-> NoTime]
NoOccurrence ==
  [status |-> "absent", timer |-> CHOOSE t \in TimerIds : TRUE,
   revision |-> 0, at |-> NoTime]

EmptyPartition ==
  [timers |-> [t \in TimerIds |-> NoTimer],
   occs   |-> [o \in OccIds |-> NoOccurrence],
   idem   |-> {}]

Idle == [stage |-> "idle", at |-> NoTime, keys |-> {}, todo |-> {},
         key |-> CHOOSE k \in Owners : TRUE,
         work |-> EmptyPartition, pending |-> 0]

Undeleted(p) == {t \in TimerIds : p.timers[t].state \notin {"absent", "deleted"}}
PendingOf(p) == {o \in OccIds : p.occs[o].status = "pending"}
\* Seeded fault: an occurrence that was claimed but has not started is missed.
Quiet_MissesClaimed(p, t) ==
  \A o \in OccIds : p.occs[o].timer = t => p.occs[o].status # "running"
\* No open occurrence of t: the opposite of "busy" in poll.
Quiet(p, t) ==
  \A o \in OccIds : p.occs[o].timer = t => p.occs[o].status \notin Open
\* timer::commit creates a partition's file with its first timer.
Known == {k \in Owners : \E t \in TimerIds : mem[k].timers[t].state # "absent"}
AllPending == UNION {{<<k, o>> : o \in PendingOf(mem[k])} : k \in Owners}
AllUndeleted == UNION {{<<k, t>> : t \in Undeleted(mem[k])} : k \in Owners}

-----------------------------------------------------------------------------
(* timer::next and timer::latest on the instants of a schedule *)

NextFire(s, after) ==
  LET first == {t \in s.fires : t > after /\ \A u \in s.fires : u > after => t <= u}
  IN  IF first = {} THEN NoTime ELSE CHOOSE t \in first : TRUE

LatestFire(s, now) ==
  LET last == {t \in s.fires : t <= now /\ \A u \in s.fires : u <= now => u <= t}
  IN  IF last = {} THEN NoTime ELSE CHOOSE t \in last : TRUE

Later(a, b) == IF a >= b THEN a ELSE b

-----------------------------------------------------------------------------
(* What each request makes of its partition *)

Created(p, t, key, s, policy, now) ==
  [p EXCEPT !.timers[t] =
              [state |-> "active", revision |-> 1, schedule |-> s, policy |-> policy,
               accepted |-> 0, next |-> NextFire(s, now),
               queued |-> NoTime, last |-> NoTime],
            !.idem = p.idem \cup {[key |-> key, schedule |-> s, policy |-> policy, id |-> t]}]

Or(field, old) == IF field = Keep THEN old ELSE field

\* Seeded fault: the new limit is not compared with the firings accepted so far.
Updatable_AnyLimit(tm, s, now) ==
  tm.state \in {"active", "paused"} /\ (s # Keep => NextFire(s, now) # NoTime)
\* The checks of TimerRequest::Update.
Updatable(tm, s, now) ==
  /\ tm.state \in {"active", "paused"}
  /\ s # Keep => \/ s.limit = NoLimit /\ NextFire(s, now) # NoTime
                 \/ s.limit # NoLimit /\ s.limit = tm.accepted
                 \/ s.limit > tm.accepted /\ NextFire(s, now) # NoTime

Updated(tm, s, policy, enabled, now) ==
  LET schedule   == Or(s, tm.schedule)
      asked      == IF enabled = Keep THEN tm.state
                    ELSE IF enabled = "enable" THEN "active" ELSE "paused"
      state      == IF schedule.limit # NoLimit /\ schedule.limit = tm.accepted
                    THEN "completed" ELSE asked
      reschedule == s # Keep \/ enabled # Keep
      next       == IF state = "active" THEN NextFire(schedule, now) ELSE NoTime
      out        == reschedule /\ state = "active" /\ next = NoTime
  IN  [state    |-> IF out THEN "completed" ELSE state,
       revision |-> tm.revision + 1,
       schedule |-> schedule,
       policy   |-> Or(policy, tm.policy),
       accepted |-> tm.accepted,
       next     |-> IF reschedule THEN next ELSE tm.next,
       queued   |-> IF reschedule THEN NoTime ELSE tm.queued,
       last     |-> tm.last]

Tombstone(tm) ==
  [tm EXCEPT !.state = "deleted", !.revision = tm.revision + 1,
             !.next = NoTime, !.queued = NoTime]

Suppressed(p, t, o) ==
  IF p.occs[o].timer = t /\ p.occs[o].status = "pending"
  THEN [p.occs[o] EXCEPT !.status = "suppressed"] ELSE p.occs[o]

Deleted(p, t) ==
  [timers |-> [p.timers EXCEPT ![t] = Tombstone(p.timers[t])],
   occs   |-> [o \in OccIds |-> Suppressed(p, t, o)],
   idem   |-> p.idem]

SetStatus(p, o, status) == [p EXCEPT !.occs[o].status = status]

\* Seeded fault: a claim without a running receipt is put back in the queue.
Interrupted_Requeued(occ) ==
  IF occ.status = "dispatching" THEN [occ EXCEPT !.status = "pending"] ELSE occ
\* recover(): whatever was claimed when the service died is not run again.
Interrupted(occ) ==
  IF occ.status \in {"dispatching", "running"}
  THEN [occ EXCEPT !.status = "interrupted"] ELSE occ

Recovered(p) == [p EXCEPT !.occs = [o \in OccIds |-> Interrupted(p.occs[o])]]

-----------------------------------------------------------------------------
(* What poll makes of one active timer *)

\* A due time is queued, coalesced with the ones missed since, or skipped.
Queue(tm, now) ==
  LET skip   == now > tm.next + Grace /\ tm.policy = "skip"
      latest == Later(LatestFire(tm.schedule, now), tm.next)
  IN  IF tm.next = NoTime \/ tm.next > now THEN tm
      ELSE [tm EXCEPT
              !.queued = IF ~skip /\ latest > tm.last /\ latest > tm.queued
                         THEN latest ELSE tm.queued,
              !.state  = IF skip /\ tm.schedule.limit = 1
                         THEN "completed" ELSE tm.state,
              !.next   = NextFire(tm.schedule, now)]

\* The queued due time becomes an occurrence, which is counted at once.
Accept(tm) ==
  LET full == tm.schedule.limit # NoLimit /\ tm.accepted + 1 >= tm.schedule.limit
  IN  [tm EXCEPT !.accepted = tm.accepted + 1,
                 !.last     = tm.queued,
                 !.queued   = NoTime,
                 !.state    = IF full THEN "completed" ELSE tm.state,
                 !.next     = IF full THEN NoTime ELSE tm.next]

Retire(tm) ==
  IF tm.next = NoTime /\ tm.queued = NoTime /\ tm.state = "active"
  THEN [tm EXCEPT !.state = "completed"] ELSE tm

NewOccurrence(tm, t) ==
  [status |-> "pending", timer |-> t, revision |-> tm.revision, at |-> tm.queued]

Accepted(p, t, o, tm) ==
  [p EXCEPT !.timers[t] = Retire(Accept(tm)), !.occs[o] = NewOccurrence(tm, t)]

\* Retention: terminal occurrences that are among the newest RetainLimit and
\* were completed less than 30 days ago; old are the ones past that age.
Outlived(p, old, o) ==
  /\ p.occs[o].status \in Terminal
  /\ \/ o \in old
     \/ Cardinality({n \in OccIds : n >= o /\ p.occs[n].status \in Terminal})
          > RetainLimit

Retained(p, old) ==
  [p EXCEPT !.occs = [o \in OccIds |->
     IF Outlived(p, old, o) THEN [p.occs[o] EXCEPT !.status = "pruned"]
     ELSE p.occs[o]]]

-----------------------------------------------------------------------------
(* Commit: the file is replaced, its directory is synced, memory follows *)

Save(k, p) ==
  /\ disk' = [disk EXCEPT ![k] = p]
  /\ mem'  = [mem EXCEPT ![k] = p]

\* timer::commit fails before the rename ("lost") or after it ("unsynced").
SaveFails(k, p) ==
  /\ \/ "lost" \in Faults /\ UNCHANGED disk
     \/ "unsynced" \in Faults /\ disk' = [disk EXCEPT ![k] = p]
  /\ UNCHANGED mem

Free == phase = "up" /\ poll.stage = "idle"

Tell(k, t, revision) == told' = [told EXCEPT ![k][t] = revision]

-----------------------------------------------------------------------------
(* Requests of the agent's timer tool *)

\* Seeded fault: the answer does not wait for the write.
Commit_AnswersFirst(k, t, p) ==
  (Save(k, p) \/ SaveFails(k, p)) /\ Tell(k, t, p.timers[t].revision)
Commit(k, t, p) ==
  \/ Save(k, p) /\ Tell(k, t, p.timers[t].revision)
  \/ SaveFails(k, p) /\ UNCHANGED told

Create(k, t, key, s, policy, now) ==
  /\ Free /\ k \notin damaged
  /\ \A e \in mem[k].idem : e.key # key
  /\ Cardinality(Undeleted(mem[k])) < OwnerLimit
  /\ Cardinality(AllUndeleted) < TotalLimit
  /\ NextFire(s, now) # NoTime
  /\ mem[k].timers[t].state = "absent"
  /\ Commit(k, t, Created(mem[k], t, key, s, policy, now))
  /\ UNCHANGED <<damaged, phase, unrecovered, poll, started>>

\* A retry of a creation: the same fingerprint is answered with the same timer.
CreateAgain(k, key, s, policy) ==
  /\ Free /\ k \notin damaged
  /\ \E e \in mem[k].idem :
       /\ e.key = key /\ e.schedule = s /\ e.policy = policy
       /\ Tell(k, e.id, mem[k].timers[e.id].revision)
  /\ UNCHANGED <<mem, disk, damaged, phase, unrecovered, poll, started>>

\* expected_revision matches: any other update or deletion is refused.
Update(k, t, s, policy, enabled, now) ==
  /\ Free /\ k \notin damaged
  /\ Updatable(mem[k].timers[t], s, now)
  /\ mem[k].timers[t].revision < MaxRevision
  /\ Commit(k, t, [mem[k] EXCEPT !.timers[t] = Updated(@, s, policy, enabled, now)])
  /\ UNCHANGED <<damaged, phase, unrecovered, poll, started>>

\* Deleting again rewrites the same partition and answers with the tombstone.
Delete(k, t) ==
  /\ Free /\ k \notin damaged
  /\ mem[k].timers[t].state # "absent"
  /\ Commit(k, t, IF mem[k].timers[t].state = "deleted" THEN mem[k]
                  ELSE Deleted(mem[k], t))
  /\ UNCHANGED <<damaged, phase, unrecovered, poll, started>>

-----------------------------------------------------------------------------
(* The dispatcher's and the executor's side *)

DueTime(k, o) == <<k, mem[k].occs[o].timer, mem[k].occs[o].at>>

\* Only a durable claim hands the occurrence off.
Claim(k, o) ==
  /\ Free
  /\ mem[k].occs[o].status = "pending"
  /\ LET p == SetStatus(mem[k], o, "dispatching")
     IN  \/ Save(k, p) /\ started' = started \cup {DueTime(k, o)}
         \/ SaveFails(k, p) /\ UNCHANGED started
  /\ UNCHANGED <<damaged, phase, unrecovered, poll, told>>

Outcomes == {"succeeded", "failed", "cancelled"}

\* A receipt for a terminal occurrence is accepted and changes nothing.
Acknowledge(k, o, status) ==
  /\ Free
  /\ \/ status = "running" /\ mem[k].occs[o].status = "dispatching"
     \/ status \in Outcomes /\ mem[k].occs[o].status \in {"dispatching", "running"}
  /\ LET p == SetStatus(mem[k], o, status) IN Save(k, p) \/ SaveFails(k, p)
  /\ UNCHANGED <<damaged, phase, unrecovered, poll, started, told>>

\* No actor was created for the claim; it goes back to the queue.
Defer(k, o) ==
  /\ Free
  /\ mem[k].occs[o].status = "dispatching"
  /\ LET p == SetStatus(mem[k], o, "pending") IN Save(k, p) \/ SaveFails(k, p)
  /\ started' = started \ {DueTime(k, o)}
  /\ UNCHANGED <<damaged, phase, unrecovered, poll, told>>

-----------------------------------------------------------------------------
(* poll: counts the pending occurrences, then visits every partition.  The *)
(* order is a rotation of the sorted keys that advances with each poll and *)
(* is left open here.                                                      *)

PollBegin(now) ==
  /\ Free
  /\ poll' = [Idle EXCEPT !.stage = "partitions", !.at = now, !.keys = Known,
                          !.pending = Cardinality(AllPending)]
  /\ UNCHANGED <<mem, disk, damaged, phase, unrecovered, started, told>>

PollPartition(k) ==
  /\ poll.stage = "partitions" /\ k \in poll.keys
  /\ poll' = [poll EXCEPT !.stage = "timers", !.key = k, !.work = mem[k],
                          !.keys = @ \ {k},
                          !.todo = {t \in TimerIds : mem[k].timers[t].state = "active"}]
  /\ UNCHANGED <<mem, disk, damaged, phase, unrecovered, started, told>>

\* The next id of a partition; OccIds bounds the occurrences of the model.
IsFresh(p, o) ==
  /\ p.occs[o].status = "absent"
  /\ \A n \in OccIds : n < o => p.occs[n].status # "absent"

PollTimer(t) ==
  /\ poll.stage = "timers" /\ t \in poll.todo
  /\ LET p   == poll.work
         tm  == Queue(p.timers[t], poll.at)
         may == tm.queued # NoTime /\ Quiet(p, t) /\ poll.pending < PendingLimit
     IN  \/ \E o \in OccIds :
              /\ may /\ IsFresh(p, o)
              /\ poll' = [poll EXCEPT
                            !.todo = @ \ {t},
                            !.pending = @ + 1,
                            !.work = Accepted(p, t, o, tm)]
         \/ /\ ~(may /\ \E o \in OccIds : IsFresh(p, o))
            /\ poll' = [poll EXCEPT !.todo = @ \ {t},
                                    !.work = [p EXCEPT !.timers[t] = Retire(tm)]]
  /\ UNCHANGED <<mem, disk, damaged, phase, unrecovered, started, told>>

\* An unchanged partition is not written; a failed write abandons the poll.
PollSave(old) ==
  /\ poll.stage = "timers" /\ poll.todo = {}
  /\ LET p    == Retained(poll.work, old)
         next == [poll EXCEPT !.stage = "partitions", !.key = Idle.key,
                               !.work = EmptyPartition]
     IN  \/ p = mem[poll.key] /\ poll' = next /\ UNCHANGED <<mem, disk>>
         \/ p # mem[poll.key] /\ poll' = next /\ Save(poll.key, p)
         \/ p # mem[poll.key] /\ poll' = Idle /\ SaveFails(poll.key, p)
  /\ UNCHANGED <<damaged, phase, unrecovered, started, told>>

PollEnd ==
  /\ poll.stage = "partitions" /\ poll.keys = {}
  /\ poll' = Idle
  /\ UNCHANGED <<mem, disk, damaged, phase, unrecovered, started, told>>

-----------------------------------------------------------------------------
(* Crash, load and recovery *)

Crash ==
  /\ phase # "down"
  /\ phase' = "down" /\ poll' = Idle /\ unrecovered' = {}
  /\ UNCHANGED <<mem, disk, damaged, started, told>>

Damage(k) ==
  /\ phase = "down" /\ k \in Damageable \ damaged
  /\ damaged' = damaged \cup {k}
  /\ UNCHANGED <<mem, disk, phase, unrecovered, poll, started, told>>

\* timer::load sets an unreadable partition apart and reads the others.
Load ==
  /\ phase = "down"
  /\ phase' = "recovering"
  /\ mem' = [k \in Owners |-> IF k \in damaged THEN EmptyPartition ELSE disk[k]]
  /\ unrecovered' = Owners \ damaged
  /\ UNCHANGED <<disk, damaged, poll, started, told>>

\* A recovery that cannot be saved fails the start of the service.
Recover(k) ==
  /\ phase = "recovering" /\ k \in unrecovered
  /\ LET p == Recovered(mem[k])
     IN  \/ p = mem[k] /\ UNCHANGED <<mem, disk, phase>>
         \/ p # mem[k] /\ Save(k, p) /\ UNCHANGED phase
         \/ p # mem[k] /\ SaveFails(k, p) /\ phase' = "down"
  /\ unrecovered' = IF phase' = "down" THEN {} ELSE unrecovered \ {k}
  /\ UNCHANGED <<damaged, poll, started, told>>

Serve ==
  /\ phase = "recovering" /\ unrecovered = {}
  /\ phase' = "up"
  /\ UNCHANGED <<mem, disk, damaged, unrecovered, poll, started, told>>

-----------------------------------------------------------------------------
Init ==
  /\ mem = [k \in Owners |-> EmptyPartition]
  /\ disk = [k \in Owners |-> EmptyPartition]
  /\ damaged = {}
  /\ phase = "up" /\ unrecovered = {} /\ poll = Idle
  /\ started = {}
  /\ told = [k \in Owners |-> [t \in TimerIds |-> 0]]

Request(k) ==
  \/ \E t \in TimerIds, key \in Keys, s \in Schedules, pol \in Policies, now \in Instants :
       Create(k, t, key, s, pol, now)
  \/ \E key \in Keys, s \in Schedules, pol \in Policies : CreateAgain(k, key, s, pol)
  \/ \E t \in TimerIds, s \in Schedules \cup {Keep}, pol \in Policies \cup {Keep},
        enabled \in {"enable", "disable", Keep}, now \in Instants :
       Update(k, t, s, pol, enabled, now)
  \/ \E t \in TimerIds : Delete(k, t)

Receipt(k) ==
  \E o \in OccIds :
    \/ Claim(k, o) \/ Defer(k, o)
    \/ \E status \in Outcomes \cup {"running"} : Acknowledge(k, o, status)

Poll ==
  \/ \E now \in Instants : PollBegin(now)
  \/ \E k \in Owners : PollPartition(k)
  \/ \E t \in TimerIds : PollTimer(t)
  \/ \E old \in SUBSET OccIds : PollSave(old)
  \/ PollEnd

Restart ==
  \/ Crash \/ Load \/ Serve
  \/ \E k \in Owners : Damage(k) \/ Recover(k)

Next == Poll \/ Restart \/ \E k \in Owners : Request(k) \/ Receipt(k)

Spec == Init /\ [][Next]_vars

-----------------------------------------------------------------------------
(* Properties *)

TypeOK ==
  /\ mem \in [Owners -> Partition] /\ disk \in [Owners -> Partition]
  /\ damaged \subseteq Owners /\ unrecovered \subseteq Owners
  /\ phase \in {"down", "recovering", "up"}
  /\ poll \in [stage : {"idle", "partitions", "timers"}, at : Time,
               keys : SUBSET Owners, todo : SUBSET TimerIds,
               key : Owners, work : Partition, pending : Nat]
  /\ started \subseteq Owners \X TimerIds \X Time
  /\ told \in [Owners -> [TimerIds -> Nat]]

\* The partitions a store holds: in memory and on disk.
Copies(k) == {mem[k], disk[k]}

\* Executions of one timer do not overlap: neither in memory nor in what a
\* restart would load are there two open occurrences of a timer, although
\* poll, claim, defer, updates and failed commits interleave.
NoOverlap ==
  \A k \in Owners : \A p \in Copies(k) : \A o, n \in OccIds :
    /\ p.occs[o].status \in Open /\ p.occs[n].status \in Open
    /\ p.occs[o].timer = p.occs[n].timer
    => o = n

\* At most once: a due time that was handed off to an executor is never
\* pending again, neither in memory nor in the file a restart reads, whatever
\* the clock shows and whichever commits failed (claim_inner, defer_inner,
\* recover and the last_scheduled_at guard of poll).
NeverStartedTwice ==
  \A k \in Owners : \A p \in Copies(k) : \A o \in OccIds :
    p.occs[o].status = "pending" => <<k, p.occs[o].timer, p.occs[o].at>> \notin started

\* No timer accepts more firings than its schedule allows, even when an update
\* lowers the limit between two firings.
LimitRespected ==
  \A k \in Owners : \A p \in Copies(k) : \A t \in TimerIds :
    LET tm == p.timers[t]
    IN  tm.schedule.limit # NoLimit => tm.accepted <= tm.schedule.limit

\* A client that was answered finds its change after any crash: no copy is
\* older than the revision it was told, and the creation key still names the
\* timer.
AnswersAreDurable ==
  \A k \in Owners : \A t \in TimerIds :
    told[k][t] > 0 =>
      /\ disk[k].timers[t].revision >= told[k][t]
      /\ \E e \in disk[k].idem : e.id = t

=============================================================================
