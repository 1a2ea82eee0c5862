---------------------------- MODULE TimerService ----------------------------
(***************************************************************************)
(* The timer service: the store of TimerStore, the poller that sends what  *)
(* is pending (TimerRuntime::watch in timer_runtime.rs), the dispatcher of *)
(* app/fae/src/server/timer.rs that claims an occurrence and opens an      *)
(* actor for it (Registry::open_internal_agent), the receipts the actor    *)
(* gives while its round runs (app/fae/src/server/session.rs) and the      *)
(* order in which the server stops them (app/fae/src/server/mod.rs).       *)
(*                                                                         *)
(* The four run concurrently and meet at the store, at a bounded channel   *)
(* of events and at the registry of sessions.  What separates the steps    *)
(* below is an await: the capacity the dispatcher saw may be gone when the *)
(* actor is opened, the timer may have been deleted, the service stopped.  *)
(*                                                                         *)
(* The registry is reduced to what decides whether a timer round may       *)
(* start: its timer rounds, and whether the sessions of clients leave room *)
(* (crowd).  The order in which a poll's events are sent is left open.     *)
(***************************************************************************)
EXTENDS TimerStore, Sequences

CONSTANTS
  ChannelLimit, \* capacity of the event channel: TIMER_PENDING_LIMIT
  TimerRounds,  \* TIMER_CONCURRENT_LIMIT
  Disturbances  \* a subset of {"crash", "stop", "crowd"}: what may happen

ASSUME ServiceAssumption ==
  /\ ChannelLimit \in Nat \ {0} /\ TimerRounds \in Nat
  /\ OccIds # {}

VARIABLES
  awake,      \* the poller found the service running and waits for the store
  outbox,     \* occurrences the poller has still to send
  channel,    \* TimerFired events, in the order the dispatcher receives them
  dispatcher, \* what the dispatcher is doing, and for which occurrence
  actors,     \* the timer round of each occurrence
  crowd,      \* client sessions leave no room for another timer round
  service,    \* "serving", "stopping" (the timer) or "closing" (the registry)
  executed    \* history: due times for which an actor was created

service_vars ==
  <<awake, outbox, channel, dispatcher, actors, crowd, service, executed>>
all_vars == <<vars, service_vars>>

Occurrences == Owners \X OccIds
Waiting == [at |-> "receive", for |-> CHOOSE e \in Occurrences : TRUE]
NoActors == [k \in Owners |-> [o \in OccIds |-> "none"]]
\* Entries of the registry with timer /\ active, until finish_round.
Active == {e \in Occurrences : actors[e[1]][e[2]] # "none"}

\* Registry::timer_capacity, and the test open_internal_agent repeats.
TimerCapacity == service # "closing" /\ ~crowd /\ Cardinality(Active) < TimerRounds

-----------------------------------------------------------------------------
(* The poller *)

\* Every pending occurrence, those already sent included, is sent again.
Fired == AllPending

Wake ==
  /\ phase = "up" /\ service = "serving"
  /\ ~awake /\ poll.stage = "idle" /\ outbox = {}
  /\ awake' = TRUE
  /\ UNCHANGED <<vars, outbox, channel, dispatcher, actors, crowd, service, executed>>

\* Seeded fault: no poll while something is pending, which is then never resent.
StartPoll_OnlyWhenEmpty(now) ==
  /\ awake /\ AllPending = {} /\ PollBegin(now) /\ awake' = FALSE
  /\ UNCHANGED <<outbox, channel, dispatcher, actors, crowd, service, executed>>
StartPoll(now) ==
  /\ awake /\ PollBegin(now)
  /\ awake' = FALSE
  /\ UNCHANGED <<outbox, channel, dispatcher, actors, crowd, service, executed>>

ContinuePoll ==
  /\ \/ \E k \in Owners : PollPartition(k)
     \/ \E t \in TimerIds : PollTimer(t)
     \/ \E old \in SUBSET OccIds : PollSave(old)
  /\ UNCHANGED service_vars

FinishPoll ==
  /\ PollEnd
  /\ outbox' = Fired
  /\ UNCHANGED <<awake, channel, dispatcher, actors, crowd, service, executed>>

Send(e) ==
  /\ service = "serving" /\ e \in outbox /\ Len(channel) < ChannelLimit
  /\ outbox' = outbox \ {e}
  /\ channel' = Append(channel, e)
  /\ UNCHANGED <<vars, awake, dispatcher, actors, crowd, service, executed>>

\* Seeded fault: the end of the service does not end the sending.
GiveUpSending_OnlyWhenFull ==
  /\ outbox # {} /\ Len(channel) = ChannelLimit /\ outbox' = {}
  /\ UNCHANGED <<vars, awake, channel, dispatcher, actors, crowd, service, executed>>
\* A full channel for 50 ms, or the end of the service, ends the sending.
GiveUpSending ==
  /\ outbox # {}
  /\ service # "serving" \/ Len(channel) = ChannelLimit
  /\ outbox' = {}
  /\ UNCHANGED <<vars, awake, channel, dispatcher, actors, crowd, service, executed>>

-----------------------------------------------------------------------------
(* The dispatcher *)

\* Without capacity the event is dropped; claim drops it too once the timer is
\* stopping, a flag it reads before it queues for the store.
Receive ==
  /\ service # "closing" /\ dispatcher.at = "receive" /\ channel # <<>>
  /\ channel' = Tail(channel)
  /\ dispatcher' = IF TimerCapacity /\ service = "serving"
                   THEN [at |-> "claim", for |-> Head(channel)] ELSE dispatcher
  /\ UNCHANGED <<vars, awake, outbox, actors, crowd, service, executed>>

\* claim: None for an occurrence that is no longer pending.
ClaimFired ==
  LET k == dispatcher.for[1]
      o == dispatcher.for[2]
  IN  /\ dispatcher.at = "claim"
      /\ \/ Claim(k, o)
         \/ Free /\ mem[k].occs[o].status # "pending" /\ UNCHANGED vars
      /\ dispatcher' = IF mem' # mem THEN [dispatcher EXCEPT !.at = "open"] ELSE Waiting
      /\ UNCHANGED <<awake, outbox, channel, actors, crowd, service, executed>>

\* open_internal_agent: the binding, the configuration or the session may be
\* refused, the capacity may be gone; otherwise the actor owns the round, unless a
\* client opened its session and chatted before InternalStart came: the round is
\* the client's then, and InternalStart is answered with session_busy or, when the
\* caps are reached by now, with resource_exhausted.
OpenAgent ==
  LET k == dispatcher.for[1]
      o == dispatcher.for[2]
  IN  /\ dispatcher.at = "open"
      /\ \/ /\ dispatcher' = [dispatcher EXCEPT !.at = "refused"]
            /\ UNCHANGED <<actors, crowd, executed>>
         \/ /\ ~TimerCapacity
            /\ dispatcher' = [dispatcher EXCEPT !.at = "exhausted"]
            /\ UNCHANGED <<actors, crowd, executed>>
         \/ /\ TimerCapacity /\ actors[k][o] = "none"
            /\ actors' = [actors EXCEPT ![k][o] = "opened"]
            /\ executed' = executed \cup {DueTime(k, o)}
            /\ dispatcher' = Waiting /\ UNCHANGED crowd
         \/ /\ TimerCapacity /\ actors[k][o] = "none"
            /\ actors' = [actors EXCEPT ![k][o] = "lent"]
            /\ \/ /\ dispatcher' = [dispatcher EXCEPT !.at = "refused"]
                  /\ UNCHANGED crowd
               \/ /\ "crowd" \in Disturbances /\ crowd' = TRUE
                  /\ dispatcher' = [dispatcher EXCEPT !.at = "exhausted"]
            /\ UNCHANGED executed
      /\ UNCHANGED <<vars, awake, outbox, channel, service>>

\* A receipt is refused, or ignored, for an occurrence it does not fit: the round
\* a client took gives receipts for one that the dispatcher settles.
GiveReceipt(k, o, status) ==
  \/ Acknowledge(k, o, status)
  \/ /\ Free /\ UNCHANGED vars
     /\ mem[k].occs[o].status \notin
          (IF status = "running" THEN {"dispatching"} ELSE {"dispatching", "running"})

\* The occurrence goes back, or fails, unless the round that a client took has
\* given it a receipt meanwhile.
Settle ==
  LET k == dispatcher.for[1]
      o == dispatcher.for[2]
  IN  /\ \/ dispatcher.at = "exhausted" /\ Defer(k, o)
         \/ dispatcher.at = "exhausted" /\ Free /\ UNCHANGED vars
            /\ mem[k].occs[o].status # "dispatching"
         \/ dispatcher.at = "refused" /\ GiveReceipt(k, o, "failed")
      /\ dispatcher' = Waiting
      /\ UNCHANGED <<awake, outbox, channel, actors, crowd, service, executed>>

-----------------------------------------------------------------------------
(* The actor of a timer round *)

\* Command::Started.  A running receipt that fails cancels the round.
Started(k, o) ==
  /\ actors[k][o] \in {"opened", "lent"}
  /\ GiveReceipt(k, o, "running")
  /\ actors' = [actors EXCEPT ![k][o] = "running"]
  /\ UNCHANGED <<awake, outbox, channel, dispatcher, crowd, service, executed>>

\* Command::Finished: the terminal receipt, its failure only logged, and then
\* finish_round.  A round that could not be launched finishes without starting; a
\* client's may have started before InternalStart came.
Finished(k, o, outcome) ==
  /\ \/ actors[k][o] \in {"running", "lent"}
     \/ actors[k][o] = "opened" /\ outcome = "failed"
  /\ GiveReceipt(k, o, outcome)
  /\ actors' = [actors EXCEPT ![k][o] = "leaving"]
  /\ UNCHANGED <<awake, outbox, channel, dispatcher, crowd, service, executed>>

FinishRound(k, o) ==
  /\ actors[k][o] = "leaving"
  /\ actors' = [actors EXCEPT ![k][o] = "none"]
  /\ UNCHANGED <<vars, awake, outbox, channel, dispatcher, crowd, service, executed>>

-----------------------------------------------------------------------------
(* Clients, and the end of the service *)

\* request_inner refuses once the timer is stopping; a request that read the
\* flag earlier may still commit while the poller and the dispatcher wind down.
ClientRequest(k) == service # "closing" /\ Request(k) /\ UNCHANGED service_vars

Crowding ==
  /\ "crowd" \in Disturbances /\ phase = "up"
  /\ crowd' = ~crowd
  /\ UNCHANGED <<vars, awake, outbox, channel, dispatcher, actors, service, executed>>

\* TimerRuntime::stop_dispatch raises its flag; the poller and the dispatcher
\* finish what they are doing.
StopTimer ==
  /\ "stop" \in Disturbances /\ phase = "up" /\ service = "serving"
  /\ service' = "stopping"
  /\ UNCHANGED <<vars, awake, outbox, channel, dispatcher, actors, crowd, executed>>

\* Only then is the registry shut down.
CloseRegistry ==
  /\ service = "stopping"
  /\ ~awake /\ poll.stage = "idle" /\ outbox = {} /\ dispatcher.at = "receive"
  /\ service' = "closing"
  /\ UNCHANGED <<vars, awake, outbox, channel, dispatcher, actors, crowd, executed>>

Halt ==
  /\ Crash
  /\ awake' = FALSE /\ outbox' = {} /\ channel' = <<>> /\ dispatcher' = Waiting
  /\ actors' = NoActors /\ crowd' = FALSE /\ service' = "serving"
  /\ UNCHANGED executed

\* The server exits when every actor has reported its completion.
Exit == service = "closing" /\ Active = {} /\ Halt

\* A kill, or a shutdown that exceeded its 10 seconds.
Kill == "crash" \in Disturbances /\ Halt

Reopen ==
  /\ \/ Load \/ Serve
     \/ \E k \in Owners : Damage(k) \/ Recover(k)
  /\ UNCHANGED service_vars

-----------------------------------------------------------------------------
ServiceInit ==
  /\ Init
  /\ awake = FALSE /\ outbox = {} /\ channel = <<>>
  /\ dispatcher = Waiting /\ actors = NoActors
  /\ crowd = FALSE /\ service = "serving" /\ executed = {}

Poller ==
  \/ Wake \/ \E now \in Instants : StartPoll(now)
  \/ ContinuePoll \/ FinishPoll \/ GiveUpSending
  \/ \E e \in Occurrences : Send(e)

Dispatcher == Receive \/ ClaimFired \/ OpenAgent \/ Settle

Actor(k, o) ==
  \/ Started(k, o) \/ FinishRound(k, o)
  \/ \E outcome \in Outcomes : Finished(k, o, outcome)

ServiceNext ==
  \/ Poller \/ Dispatcher
  \/ \E k \in Owners, o \in OccIds : Actor(k, o)
  \/ \E k \in Owners : ClientRequest(k)
  \/ Crowding \/ StopTimer \/ CloseRegistry \/ Exit \/ Kill \/ Reopen

ServiceSpec == ServiceInit /\ [][ServiceNext]_all_vars

\* The poller sleeps at most a second; the mutex of the store is granted in the
\* order in which tasks asked for it, so that a task which is again and again
\* free to take it does take it; a round ends, by itself or cancelled; and the
\* server's shutdown is one sequential future.
FairSpec ==
  /\ ServiceSpec
  /\ WF_all_vars(Poller) /\ SF_all_vars(Dispatcher)
  /\ \A k \in Owners, o \in OccIds : SF_all_vars(Actor(k, o))
  /\ WF_all_vars(CloseRegistry) /\ WF_all_vars(Exit)

-----------------------------------------------------------------------------
(* Properties.  Each step being a handler of the store or none, ServiceSpec *)
(* implements Spec, and what is said of the store holds here.               *)

ServiceTypeOK ==
  /\ awake \in BOOLEAN /\ outbox \subseteq Occurrences
  /\ channel \in Seq(Occurrences) /\ Len(channel) <= ChannelLimit
  /\ dispatcher \in [at : {"receive", "claim", "open", "refused", "exhausted"},
                     for : Occurrences]
  /\ actors \in [Owners -> [OccIds -> {"none", "opened", "lent", "running", "leaving"}]]
  /\ crowd \in BOOLEAN /\ service \in {"serving", "stopping", "closing"}
  /\ executed \subseteq Owners \X TimerIds \X Time

\* No due time is executed a second time, not even by a restarted service, though
\* a claim is given back after its actor was created for a client's round.
ExecutedOnce ==
  [][\A k \in Owners, o \in OccIds :
       actors[k][o] = "none" /\ actors'[k][o] = "opened" => DueTime(k, o) \notin executed
    ]_all_vars

\* While the service runs, a pending occurrence is taken up or suppressed: an
\* event dropped for want of capacity, or kept back by a full channel, is sent
\* again by a later poll.
PendingIsTakenUp ==
  \A k \in Owners, o \in OccIds :
    phase = "up" /\ mem[k].occs[o].status = "pending"
      ~> mem[k].occs[o].status # "pending" \/ service # "serving" \/ phase # "up"

\* A stop ends: neither the poller, the dispatcher nor a round waits for one
\* that was stopped before it.
StopEnds == service = "stopping" ~> phase = "down"

=============================================================================
