------------------------------ MODULE Sessions ------------------------------
(***************************************************************************)
(* Sessions of the service: the registry of SessionRegistry, one actor for *)
(* each incarnation of a session (app/fae/src/server/session.rs), the task *)
(* of its round, and the connections of clients (connection.rs and the     *)
(* handler loop of mod.rs).                                                *)
(*                                                                         *)
(* A connection opens a session in the registry, which leases it, and then *)
(* puts what the client sends in the mailbox of the actor.  The actor      *)
(* takes one command at a time; a round is a task that reports back        *)
(* through the mailbox.  What separates the steps below is the mutex of    *)
(* the registry, taken once in each step, or an await.                     *)
(*                                                                         *)
(* Left out: what is said (histories, events and their numbers, replies),  *)
(* requests that change nothing here (status, history, steering), and the  *)
(* cache of repeated requests.                                             *)
(***************************************************************************)
EXTENDS SessionRegistry, Sequences

CONSTANTS
  Workflows,    \* keys of workflow sessions; the others are agents'
  TimerKeys,    \* keys of the sessions that timers fire
  MailboxLimit, \* commands in a mailbox (512)
  InputLimit,   \* requests a connection has read but not handled (256)
  Requests,     \* what clients send: "chat", "cancel", "clean", "close"
  Disturbances  \* a subset of {"overflow", "reap", "stop", "failure"}

ASSUME SessionsAssumption ==
  /\ Keys # {} /\ TimerKeys \subseteq Keys
  /\ MailboxLimit \in Nat /\ InputLimit \in Nat
  /\ Requests \subseteq {"chat", "cancel", "clean", "close"}

VARIABLES
  actors,  \* what the actor of each stream knows and does
  mailbox, \* the commands it has still to take
  tasks,   \* the task of its round
  conns,   \* the connections
  stops,   \* streams to which a Stop is still to be sent
  internal \* the stream to which InternalStart is still to be sent

session_vars == <<actors, mailbox, tasks, conns, stops, internal>>
all_vars == <<registry_vars, session_vars>>

Command(cmd, c, fresh) == [cmd |-> cmd, client |-> c, fresh |-> fresh]
Plain(cmd) == Command(cmd, Nobody, FALSE)

Unborn ==
  [key |-> CHOOSE k \in Keys : TRUE, at |-> "unborn", lease |-> Nobody,
   out |-> FALSE, round |-> FALSE, known |-> FALSE, cancelling |-> FALSE,
   stop |-> FALSE, launched |-> FALSE, engine |-> FALSE, reserved |-> FALSE]

\* Actor::new; reserved by reserve_internal_round.
NewActor(k, reserved) ==
  [Unborn EXCEPT !.key = k, !.at = "waiting", !.reserved = reserved]

Fresh == [at |-> "idle", key |-> CHOOSE k \in Keys : TRUE, stream |-> NoStream,
          fresh |-> FALSE, open |-> TRUE, input |-> <<>>]

\* A connection without a session, and one whose handler has ended.
Unbound(c) == [Fresh EXCEPT !.open = conns[c].open]
Done == [Fresh EXCEPT !.at = "done", !.open = FALSE]

Gone(s) == actors[s].at = "gone"
HasRoom(s) == Len(mailbox[s]) < MailboxLimit

IsIn(command, s) == \E i \in DOMAIN mailbox[s] : mailbox[s][i] = command

\* A send to a mailbox: it waits for room, and fails once the actor is gone.
Put(s, command) == HasRoom(s) /\ mailbox' = [mailbox EXCEPT ![s] = Append(@, command)]

-----------------------------------------------------------------------------
(* Connections *)

\* Registry::open, first look: a session that exists is leased at once; a new
\* one is loaded first, which awaits.  A refusal changes nothing.  The client may
\* be gone by now; fresh is FALSE when it resumes a stream.
Open(c, k, fresh) ==
  /\ conns[c].at = "idle"
  /\ \/ /\ Lease(k, c)
        /\ conns' = [conns EXCEPT ![c].at = "attaching", ![c].key = k,
                                  ![c].fresh = fresh, ![c].stream = entries[k].stream]
     \/ /\ ~stopping /\ k \notin Present /\ fresh
        /\ conns' = [conns EXCEPT ![c].at = "loading", ![c].key = k, ![c].fresh = TRUE]
        /\ UNCHANGED registry_vars
  /\ UNCHANGED <<actors, mailbox, tasks, stops, internal>>

\* Second look, under the mutex again: the session may exist by now.
Loaded(c) ==
  LET k == conns[c].key
  IN  /\ conns[c].at = "loading"
      /\ \/ /\ Lease(k, c)
            /\ conns' = [conns EXCEPT ![c].at = "attaching", ![c].stream = entries[k].stream]
            /\ UNCHANGED actors
         \/ \E s \in Streams :
              /\ Insert(k, c, s)
              /\ actors' = [actors EXCEPT ![s] = NewActor(k, FALSE)]
              /\ conns' = [conns EXCEPT ![c].at = "attaching", ![c].stream = s]
         \/ /\ conns' = [conns EXCEPT ![c] = Unbound(c)]
            /\ UNCHANGED <<registry_vars, actors>>
      /\ UNCHANGED <<mailbox, tasks, stops, internal>>

\* The Attach command; an actor that is gone gives the lease back.
Attach(c) ==
  LET s == conns[c].stream
  IN  /\ conns[c].at = "attaching"
      /\ \/ /\ ~Gone(s) /\ Put(s, Command("attach", c, conns[c].fresh))
            /\ conns' = [conns EXCEPT ![c].at = "bound"]
            /\ UNCHANGED registry_vars
         \/ /\ Gone(s) /\ Detach(conns[c].key, s, c)
            /\ conns' = [conns EXCEPT ![c] = Unbound(c)]
            /\ UNCHANGED mailbox
      /\ UNCHANGED <<actors, tasks, stops, internal>>

\* The reader queues what the client sends; a queue that is full breaks the
\* connection, which Disconnect stands for.
ClientSends(c, request) ==
  /\ conns[c].at = "bound" /\ conns[c].open /\ Len(conns[c].input) < InputLimit
  /\ conns' = [conns EXCEPT ![c].input = Append(conns[c].input, request)]
  /\ UNCHANGED <<registry_vars, actors, mailbox, tasks, stops, internal>>

\* Seeded fault: a connection that broke is not followed by a Detach.
Forward_Abrupt(c) ==
  /\ conns[c].at = "bound" /\ ~conns[c].open
  /\ conns' = [conns EXCEPT ![c] = Done]
  /\ UNCHANGED <<registry_vars, actors, mailbox, tasks, stops, internal>>
\* The handler forwards it, after the connection broke too; Close is the last
\* request it forwards, an actor that is gone ends it.
Forward(c) ==
  LET s == conns[c].stream
      request == Head(conns[c].input)
  IN  /\ conns[c].at = "bound"
      /\ \/ /\ conns[c].input # <<>> /\ ~Gone(s) /\ Put(s, Command(request, c, FALSE))
            /\ conns' = [conns EXCEPT ![c].input = Tail(conns[c].input),
                                      ![c].at = IF request = "close" THEN "leaving" ELSE "bound"]
         \/ /\ IF conns[c].input = <<>> THEN ~conns[c].open ELSE Gone(s)
            /\ conns' = [conns EXCEPT ![c].at = "leaving", ![c].input = <<>>]
            /\ UNCHANGED mailbox
      /\ UNCHANGED <<registry_vars, actors, tasks, stops, internal>>

\* The handler's last act.
Leave(c) ==
  LET s == conns[c].stream
  IN  /\ conns[c].at = "leaving"
      /\ \/ ~Gone(s) /\ Put(s, Command("detach", c, FALSE))
         \/ Gone(s) /\ UNCHANGED mailbox
      /\ conns' = [conns EXCEPT ![c] = Done]
      /\ UNCHANGED <<registry_vars, actors, tasks, stops, internal>>

\* The client goes away, or its heartbeat stops.
Disconnect(c) ==
  /\ conns[c].open
  /\ conns' = [conns EXCEPT ![c].open = FALSE]
  /\ UNCHANGED <<registry_vars, actors, mailbox, tasks, stops, internal>>

-----------------------------------------------------------------------------
(* The task of a round *)

Launch(s) ==
  /\ tasks[s] = "launching"
  /\ \/ /\ Put(s, Plain("started"))
        /\ tasks' = [tasks EXCEPT ![s] = "running"]
     \/ /\ "failure" \in Disturbances
        /\ tasks' = [tasks EXCEPT ![s] = "ended"] /\ UNCHANGED mailbox
  /\ UNCHANGED <<registry_vars, actors, conns, stops, internal>>

\* What a round says on its way goes through the mailbox too.
Emit(s) ==
  /\ tasks[s] \in {"running", "cancelled"} /\ Put(s, Plain("output"))
  /\ UNCHANGED <<registry_vars, actors, tasks, conns, stops, internal>>

\* A round comes to its own end, in time nobody bounds,
Complete(s) ==
  /\ tasks[s] = "running"
  /\ tasks' = [tasks EXCEPT ![s] = "ended"]
  /\ UNCHANGED <<registry_vars, actors, mailbox, conns, stops, internal>>

\* or is cancelled, and ends once its work has noticed.
Unwind(s) ==
  /\ tasks[s] = "cancelled"
  /\ tasks' = [tasks EXCEPT ![s] = "ended"]
  /\ UNCHANGED <<registry_vars, actors, mailbox, conns, stops, internal>>

Report(s) ==
  /\ tasks[s] = "ended" /\ Put(s, Plain("finished"))
  /\ tasks' = [tasks EXCEPT ![s] = "none"]
  /\ UNCHANGED <<registry_vars, actors, conns, stops, internal>>

-----------------------------------------------------------------------------
(* The actor *)

\* The loop ends when it has been told to stop and no round is left.
Resting(a) == IF a.stop /\ ~a.round THEN "exiting" ELSE "waiting"
Settled(a) == [a EXCEPT !.at = Resting(a)]
\* Whatever is said goes to the client attached now, if there is one.
Answering(a) == IF a.out THEN [a EXCEPT !.at = "replying"] ELSE Settled(a)

Becomes(s, a) == actors' = [actors EXCEPT ![s] = a]

\* The next command of the actor of s is of this kind.
Takes(s, cmd) ==
  /\ actors[s].at = "waiting" /\ mailbox[s] # <<>> /\ Head(mailbox[s]).cmd = cmd
  /\ mailbox' = [mailbox EXCEPT ![s] = Tail(@)]
  /\ UNCHANGED <<conns, stops, internal>>

\* Actor::cancel on the round of a: while it is starting the wish is kept; a
\* context that is already terminal refuses.
Cancelled(a, s) ==
  IF a.known /\ tasks[s] # "running" THEN a ELSE [a EXCEPT !.cancelling = TRUE]
CancelTask(a, s) ==
  tasks' = IF a.known /\ tasks[s] = "running"
           THEN [tasks EXCEPT ![s] = "cancelled"] ELSE tasks

\* Actor::start once the round is reserved.
StartRound(a) ==
  [a EXCEPT !.round = TRUE, !.cancelling = FALSE, !.known = FALSE, !.engine = TRUE,
            !.reserved = FALSE]

\* Actor::start: a started round is what the actor becomes, or else refused.
Start(s, started, refused) ==
  LET k == actors[s].key
  IN  \/ /\ actors[s].reserved \/ MayReserve(k)
         /\ IF actors[s].reserved THEN UNCHANGED registry_vars ELSE ReserveRound(k)
         /\ tasks' = [tasks EXCEPT ![s] = "launching"]
         /\ Becomes(s, started)
      \/ /\ ~actors[s].reserved /\ ~MayReserve(k)
         /\ Becomes(s, refused)
         /\ UNCHANGED <<registry_vars, tasks>>

\* A workflow starts with its first client, and never again.
TakeAttach(s) ==
  LET command == Head(mailbox[s])
      a == [actors[s] EXCEPT !.lease = command.client, !.out = TRUE]
      b == [a EXCEPT !.launched = TRUE]
  IN  /\ Takes(s, "attach")
      /\ IF a.key \in Workflows /\ ~a.launched /\ ~a.round /\ command.fresh
         THEN Start(s, Answering(StartRound(b)), Answering(b))
         ELSE Becomes(s, Answering(a)) /\ UNCHANGED <<registry_vars, tasks>>

TakeChat(s) ==
  LET a == actors[s]
  IN  /\ Takes(s, "chat")
      /\ IF a.key \in Workflows
         THEN Becomes(s, Answering(a)) /\ UNCHANGED <<registry_vars, tasks>>
         ELSE Start(s, Answering(StartRound(a)), Answering(a))

\* A timer's round; a start that is refused ends the actor.
TakeInternal(s) ==
  /\ Takes(s, "internal")
  /\ Start(s, Settled(StartRound(actors[s])), Settled([actors[s] EXCEPT !.stop = TRUE]))

\* The request names a round: it may no longer be the active one.
TakeCancel(s) ==
  LET a == actors[s]
  IN  /\ Takes(s, "cancel")
      /\ \/ a.round /\ Becomes(s, Answering(Cancelled(a, s))) /\ CancelTask(a, s)
         \/ Becomes(s, Answering(a)) /\ UNCHANGED tasks
      /\ UNCHANGED registry_vars

TakeClean(s) ==
  LET a == actors[s]
  IN  /\ Takes(s, "clean")
      /\ \/ /\ a.key \notin Workflows /\ BeginClean(a.key)
            /\ Becomes(s, [a EXCEPT !.at = "cleaning"])
         \/ /\ a.key \in Workflows \/ ~MayClean(a.key)
            /\ Becomes(s, Answering(a)) /\ UNCHANGED registry_vars
      /\ UNCHANGED tasks

\* The data is deleted, the engine left and the entry removed; or one of them
\* failed.  Either way the group is released, in a step of its own.
Clean(s) ==
  LET a == actors[s]
  IN  /\ \/ /\ a.at = "cleaning" /\ Remove(a.key, s)
            /\ Becomes(s, [a EXCEPT !.at = "cleaned", !.engine = FALSE])
         \/ /\ a.at = "cleaning" /\ "failure" \in Disturbances /\ EndClean(a.key)
            /\ Becomes(s, Answering(a))
         \/ /\ a.at = "cleaned" /\ EndClean(a.key)
            /\ Becomes(s, Answering([a EXCEPT !.stop = TRUE]))
      /\ UNCHANGED <<mailbox, tasks, conns, stops, internal>>

\* Close may ask for the round to be cancelled first.
TakeClose(s) ==
  LET a == actors[s]
  IN  /\ Takes(s, "close")
      /\ \/ a.round /\ Becomes(s, [Cancelled(a, s) EXCEPT !.at = "closing"]) /\ CancelTask(a, s)
         \/ Becomes(s, [a EXCEPT !.at = "closing"]) /\ UNCHANGED tasks
      /\ UNCHANGED registry_vars

\* The session of a timer gives a running receipt, which may not be saved.
ReceiptFails(a) == entries[a.key].timer /\ "failure" \in Disturbances

\* Seeded fault: a cancellation asked for while the round started is forgotten.
TakeStarted_Forgets(s) ==
  /\ Takes(s, "started") /\ Becomes(s, Settled([actors[s] EXCEPT !.known = TRUE]))
  /\ UNCHANGED <<registry_vars, tasks>>
\* A running receipt that fails cancels the round too.
TakeStarted(s) ==
  LET a == [actors[s] EXCEPT !.known = TRUE]
  IN  /\ Takes(s, "started")
      /\ \/ /\ ~a.cancelling /\ Becomes(s, Settled(a)) /\ UNCHANGED tasks
         \/ /\ a.cancelling \/ ReceiptFails(a)
            /\ Becomes(s, Settled(Cancelled(a, s))) /\ CancelTask(a, s)
      /\ UNCHANGED registry_vars

TakeFinished(s) ==
  LET a == actors[s]
  IN  /\ Takes(s, "finished")
      /\ FinishRound(a.key)
      /\ Becomes(s, Answering([a EXCEPT !.round = FALSE, !.cancelling = FALSE, !.known = FALSE,
                                        !.stop = a.stop \/ Unattended(a.key)]))
      /\ UNCHANGED tasks

\* Seeded fault: any Detach ends the lease in force.
TakeDetach_AnyLease(s) ==
  /\ Takes(s, "detach")
  /\ Detach(actors[s].key, s, actors[s].lease)
  /\ Becomes(s, Settled([actors[s] EXCEPT !.out = FALSE])) /\ UNCHANGED tasks
TakeDetach(s) ==
  LET a == actors[s]
      c == Head(mailbox[s]).client
  IN  /\ Takes(s, "detach")
      /\ IF c = a.lease
         THEN Detach(a.key, s, c) /\ Becomes(s, Settled([a EXCEPT !.out = FALSE]))
         ELSE Becomes(s, Settled(a)) /\ UNCHANGED registry_vars
      /\ UNCHANGED tasks

\* Seeded fault: a Stop waits for the round to end by itself.
TakeStop_Patient(s) ==
  /\ Takes(s, "stop") /\ Becomes(s, Settled([actors[s] EXCEPT !.stop = TRUE]))
  /\ UNCHANGED <<registry_vars, tasks>>
TakeStop(s) ==
  LET a == [actors[s] EXCEPT !.stop = TRUE]
  IN  /\ Takes(s, "stop")
      /\ IF a.round THEN Becomes(s, Settled(Cancelled(a, s))) /\ CancelTask(a, s)
         ELSE Becomes(s, Settled(a)) /\ UNCHANGED tasks
      /\ UNCHANGED registry_vars

TakeOutput(s) ==
  /\ Takes(s, "output")
  /\ Becomes(s, Answering(actors[s]))
  /\ UNCHANGED <<registry_vars, tasks>>

\* A client that does not keep up, or is gone, loses its connection and lease.
CannotSend(c) == ~conns[c].open \/ "overflow" \in Disturbances

HangUp(c) == conns' = [conns EXCEPT ![c].open = FALSE]

\* Actor::send; after the reply to Close whoever is attached is let go.
Reply(s) ==
  LET a == actors[s]
      c == a.lease
      alone == Settled([a EXCEPT !.out = FALSE])
  IN  /\ \/ a.at = "replying" /\ Becomes(s, Settled(a)) /\ UNCHANGED <<registry_vars, conns>>
         \/ /\ a.at = "replying" /\ CannotSend(c)
            /\ Becomes(s, alone) /\ Detach(a.key, s, c) /\ HangUp(c)
         \/ /\ a.at = "closing"
            /\ Becomes(s, alone) /\ Detach(a.key, s, c)
            /\ \/ UNCHANGED conns
               \/ a.out /\ CannotSend(c) /\ HangUp(c)
      /\ UNCHANGED <<mailbox, tasks, stops, internal>>

\* Seeded fault: the entry is removed before the engine is left.
Exit_RemovesFirst(s) ==
  LET a == actors[s]
  IN  /\ \/ /\ a.at = "exiting" /\ Remove(a.key, s)
            /\ Becomes(s, [a EXCEPT !.at = "removing"]) /\ UNCHANGED mailbox
         \/ /\ a.at = "removing" /\ Becomes(s, [Unborn EXCEPT !.key = a.key, !.at = "gone"])
            /\ mailbox' = [mailbox EXCEPT ![s] = <<>>] /\ UNCHANGED registry_vars
      /\ UNCHANGED <<tasks, conns, stops, internal>>
\* The engine is left, the shutdown told, and only then the entry removed.
Exit(s) ==
  LET a == actors[s]
  IN  /\ \/ /\ a.at = "exiting"
            /\ Becomes(s, [a EXCEPT !.at = "removing", !.engine = FALSE])
            /\ UNCHANGED <<registry_vars, mailbox>>
         \/ /\ a.at = "removing" /\ Remove(a.key, s)
            /\ Becomes(s, [Unborn EXCEPT !.key = a.key, !.at = "gone"])
            /\ mailbox' = [mailbox EXCEPT ![s] = <<>>]
      /\ UNCHANGED <<tasks, conns, stops, internal>>

-----------------------------------------------------------------------------
(* The server: timers, reaping, shutdown *)

\* The dispatcher waits for the answer to its InternalStart, or for its loss.
DispatcherIdle ==
  /\ internal = NoStream
  /\ \A s \in Streams : ~IsIn(Plain("internal"), s)

FireTimer(k) ==
  /\ DispatcherIdle
  /\ \E s \in Streams :
       /\ OpenInternalAgent(k, s)
       /\ actors' = [actors EXCEPT ![s] = NewActor(k, TRUE)]
       /\ internal' = s
  /\ UNCHANGED <<mailbox, tasks, conns, stops>>

SendInternal ==
  /\ internal # NoStream
  /\ \/ ~Gone(internal) /\ Put(internal, Plain("internal"))
     \/ Gone(internal) /\ UNCHANGED mailbox
  /\ internal' = NoStream
  /\ UNCHANGED <<registry_vars, actors, tasks, conns, stops>>

StreamsOf(ks) == {entries[k].stream : k \in ks}

ReapIdle ==
  /\ "reap" \in Disturbances /\ ~stopping /\ stops = {}
  /\ \E expired \in SUBSET Keys : Reap(expired) /\ stops' = stops \cup StreamsOf(expired)
  /\ UNCHANGED <<actors, mailbox, tasks, conns, internal>>

\* The main loop has ended, and the dispatcher, before the registry shuts down.
StopAll ==
  /\ "stop" \in Disturbances /\ ~stopping /\ stops = {} /\ DispatcherIdle
  /\ Shutdown
  /\ stops' = stops \cup StreamsOf(Present)
  /\ UNCHANGED <<actors, mailbox, tasks, conns, internal>>

SendStop(s) ==
  /\ s \in stops
  /\ \/ ~Gone(s) /\ Put(s, Plain("stop"))
     \/ Gone(s) /\ UNCHANGED mailbox
  /\ stops' = stops \ {s}
  /\ UNCHANGED <<registry_vars, actors, tasks, conns, internal>>

-----------------------------------------------------------------------------
SessionsInit ==
  /\ RegistryInit
  /\ actors = [s \in Streams |-> Unborn]
  /\ mailbox = [s \in Streams |-> <<>>]
  /\ tasks = [s \in Streams |-> "none"]
  /\ conns = [c \in Clients |-> Fresh]
  /\ stops = {} /\ internal = NoStream

Handler(c) == Loaded(c) \/ Attach(c) \/ Forward(c) \/ Leave(c)

Client(c) ==
  \/ \E k \in Keys, fresh \in BOOLEAN : Open(c, k, fresh)
  \/ \E request \in Requests : ClientSends(c, request)
  \/ Disconnect(c)

Actor(s) ==
  \/ TakeAttach(s) \/ TakeChat(s) \/ TakeInternal(s) \/ TakeCancel(s)
  \/ TakeClean(s) \/ Clean(s) \/ TakeClose(s) \/ TakeStarted(s)
  \/ TakeFinished(s) \/ TakeDetach(s) \/ TakeStop(s)
  \/ TakeOutput(s) \/ Reply(s) \/ Exit(s)

Round(s) == Launch(s) \/ Unwind(s) \/ Report(s)

Server == SendInternal \/ \E s \in Streams : SendStop(s)

SessionsNext ==
  \/ \E c \in Clients : Handler(c) \/ Client(c)
  \/ \E s \in Streams : Actor(s) \/ Round(s) \/ Emit(s) \/ Complete(s)
  \/ \E k \in TimerKeys : FireTimer(k)
  \/ Server \/ ReapIdle \/ StopAll

SessionsSpec == SessionsInit /\ [][SessionsNext]_all_vars

\* tokio runs every task that can run, and serves the senders of a full mailbox
\* in the order they came; a round that is cancelled unwinds.  Nothing is
\* asked of clients, nor that a round ends by itself.
FairSpec ==
  /\ SessionsSpec
  /\ \A c \in Clients : SF_all_vars(Handler(c))
  /\ \A s \in Streams : WF_all_vars(Actor(s)) /\ SF_all_vars(Round(s))
  /\ \A s \in Streams : SF_all_vars(SendStop(s))
  /\ SF_all_vars(SendInternal)

-----------------------------------------------------------------------------
(* Properties.  Each step being an operation of the registry or none,       *)
(* SessionsSpec implements RegistrySpec, and what is said there holds here. *)

Commands == {"attach", "detach", "internal", "started", "output", "finished", "stop"}
            \cup Requests
Message == [cmd : Commands, client : Clients \cup {Nobody}, fresh : BOOLEAN]

ActorState ==
  [key : Keys, lease : Clients \cup {Nobody},
   at : {"unborn", "waiting", "replying", "closing", "cleaning", "cleaned",
         "exiting", "removing", "gone"},
   out : BOOLEAN, round : BOOLEAN, known : BOOLEAN, cancelling : BOOLEAN,
   stop : BOOLEAN, launched : BOOLEAN, engine : BOOLEAN, reserved : BOOLEAN]

Connection ==
  [at : {"idle", "loading", "attaching", "bound", "leaving", "done"},
   key : Keys, stream : Streams \cup {NoStream}, fresh : BOOLEAN,
   open : BOOLEAN, input : Seq(Requests)]

SessionsTypeOK ==
  /\ actors \in [Streams -> ActorState] /\ mailbox \in [Streams -> Seq(Message)]
  /\ \A s \in Streams : Len(mailbox[s]) <= MailboxLimit
  /\ tasks \in [Streams -> {"none", "launching", "running", "cancelled", "ended"}]
  /\ conns \in [Clients -> Connection]
  /\ \A c \in Clients :
       /\ Len(conns[c].input) <= InputLimit
       /\ conns[c].at \in {"attaching", "bound", "leaving"} => conns[c].stream \in Streams
  /\ stops \subseteq Streams /\ internal \in Streams \cup {NoStream}

\* The registry counts every round that runs: its actor holds the active entry
\* of its key until the task has reported, so that the caps of the registry
\* bound the tasks themselves.
RoundsAreReserved ==
  \A s \in Streams : tasks[s] # "none" =>
    entries[actors[s].key].stream = s /\ entries[actors[s].key].active

\* Two incarnations of one session never hold an engine at the same time: the
\* key is given away only after its actor has left its engine.
OneEngine ==
  \A r, s \in Streams :
    actors[r].engine /\ actors[s].engine /\ actors[r].key = actors[s].key => r = s

\* While an actor deletes the data of its group, and until it has released the
\* group, no round of the group runs: of its session, of another, or of the next
\* incarnation of its own, which may be opened by then.
CleanedQuietly ==
  \A r, s \in Streams :
    /\ actors[r].at \in {"cleaning", "cleaned"}
    /\ GroupOf[actors[r].key] = GroupOf[actors[s].key]
    => tasks[s] = "none"

Awaited(s) ==
  \E c \in Clients :
    \/ \E fresh \in BOOLEAN : IsIn(Command("attach", c, fresh), s)
    \/ conns[c].at = "attaching" /\ conns[c].stream = s
\* A session released for idleness, or with the round of its timer, leaves no
\* client behind that waits for the answer to an Attach.
ReleaseStrandsNobody ==
  \A k \in Present : entries[k].closing => ~Awaited(entries[k].stream)

\* A client that has been let in to s, and holds its lease.
LetIn(c, s) ==
  conns[c].at \in {"attaching", "bound"} /\ conns[c].open /\ conns[c].stream = s
HoldsLease(c, s) ==
  \E k \in Present : entries[k].stream = s /\ entries[k].leased /\ entries[k].lease_id = c

\* app/fae/README.md: "An active session cannot be opened by a second client."
\* Who was let in keeps the lease while its connection lasts, whatever breaks
\* and however late the commands of earlier connections arrive, until the
\* session ends.  Only a Close that is answered takes it away before: the code
\* ends the lease in force, whoever sent the Close (session.rs:517).
UsersHoldLease ==
  [][\A s \in Streams, c \in Clients :
       LetIn(c, s) /\ HoldsLease(c, s) /\ LetIn(c, s)' /\ ~HoldsLease(c, s)' =>
         actors[s].at = "closing" \/ actors'[s].at \in {"cleaned", "gone"}]_all_vars

\* The lease of a connection that is gone is given back.
LeaseIsReleased ==
  \A c \in Clients, k \in Keys :
    ~conns[c].open /\ entries[k].leased /\ entries[k].lease_id = c
      ~> ~(entries[k].leased /\ entries[k].lease_id = c)

\* A cancellation that was accepted ends the round, though it was asked for
\* while the round started and the round never ends by itself.
CancelIsHonoured ==
  \A s \in Streams : actors[s].cancelling ~> ~actors[s].cancelling

\* The shutdown ends: every actor leaves, the ones with a round included.
ShutdownEnds ==
  stopping ~> \A s \in Streams : actors[s].at \in {"unborn", "removing", "gone"}

=============================================================================
