---------------------------- MODULE EventStream ----------------------------
(***************************************************************************)
(* The events of a round on their way to the client that follows it: the   *)
(* replay buffer and the cache of answered requests that the actor of a    *)
(* session keeps (app/fae/src/server/replay.rs, session.rs), the bounded   *)
(* queue of a connection (connection.rs), and the client, which reconnects *)
(* and resumes (app/fae/src/app/client.rs).                                *)
(*                                                                         *)
(* Events are their numbers; the last one is Finished.  The mailbox of the *)
(* actor is not kept: what separate senders put there may come in any      *)
(* order, so that the actor takes the next command of any connection, or   *)
(* the next output of the round.                                           *)
(*                                                                         *)
(* Left out: other clients and Close (Sessions has them), a service that   *)
(* is gone or restarted (the client then ends with resume_expired).        *)
(***************************************************************************)
EXTENDS Naturals, Sequences, FiniteSets

CONSTANTS
  Conns,       \* connections, used again once they are gone
  Nobody,      \* no connection, no request
  LastEvent,   \* bound: the events of the round
  Oversized,   \* events that may exceed MAX_FRAME
  ReplayLimit, \* events kept for replay (4096), and no more than 16 MiB of them
  QueueLimit,  \* messages queued for a connection (256)
  Requests,    \* what the client may ask: records of an id and a body
  CacheLimit,  \* answered requests remembered (256)
  AskLimit,    \* bound: what the user asks of the client
  BreakLimit,  \* bound: connections the network breaks
  Tries        \* of a reconnect (5)

ASSUME StreamAssumption ==
  /\ LastEvent \in Nat \ {0} /\ Oversized \subseteq 1..LastEvent
  /\ {ReplayLimit, QueueLimit, CacheLimit, AskLimit, BreakLimit, Tries} \subseteq Nat
  /\ Conns # {} /\ Nobody \notin Conns \cup Requests

VARIABLES
  replay,   \* seq, the events so far; first, the oldest kept; large, those too large
  requests, \* the cache: the requests last run, with their answers
  ran,      \* history: all requests that have been run
  actor,    \* out, the connection it sends to; lease; say, what it still sends
  lease,    \* the connection that the registry has leased the session to
  conns,    \* the connections, as the service has them
  client,   \* what the client knows and does
  breaks    \* connections the network has broken

stream_vars == <<replay, requests, ran, actor, lease, conns, client, breaks>>

\* Outbound::send replaces an event that exceeds MAX_FRAME by an error.
Event(n, large) ==
  [is |-> IF n \in large THEN "oversized" ELSE "event", n |-> n, to |-> Nobody]
Gap(latest) == [is |-> "gap", n |-> latest, to |-> Nobody]
Answer(r, n) == [is |-> "answer", n |-> n, to |-> r]
Opened == [is |-> "opened", n |-> replay.seq, to |-> Nobody]

Free == [at |-> "free", up |-> FALSE, queue |-> <<>>, input |-> <<>>]
AttachAfter(seq) == [cmd |-> "attach", after |-> seq, request |-> Nobody]
Ask(r) == [cmd |-> "request", after |-> 0, request |-> r]

Closed(c) == [conns EXCEPT ![c].up = FALSE]

-----------------------------------------------------------------------------
(* The actor *)

\* What is said while nobody is attached is lost.
Says(out, messages) == IF out = Nobody THEN <<>> ELSE messages

Ready == actor.say = <<>>

\* Replay::push drops the oldest event beyond ReplayLimit.  Its limit of 16 MiB can
\* drop any more: only for an event that is large by itself are they modelled.
Push(n, large, first) ==
  /\ replay' = [seq |-> n, first |-> first, large |-> large]
  /\ \/ first = IF n < replay.first + ReplayLimit THEN replay.first ELSE replay.first + 1
     \/ n \in large /\ first \in (replay.first + 1)..(n + 1)

Output ==
  /\ Ready /\ replay.seq < LastEvent
  /\ LET n == replay.seq + 1
     IN  \E large \in {replay.large, replay.large \cup ({n} \cap Oversized)},
           first \in 1..(n + 1) :
           /\ Push(n, large, first)
           /\ actor' = [actor EXCEPT !.say = Says(actor.out, <<Event(n, large)>>)]
  /\ UNCHANGED <<requests, ran, lease, conns, client, breaks>>

\* The events of the buffer that come after seq.
Kept(seq) ==
  LET from == IF seq < replay.first THEN replay.first ELSE seq + 1
  IN  [i \in 1..(replay.seq + 1 - from) |-> Event(from + i - 1, replay.large)]

\* Seeded fault: the gap of one event is not seen.
After_OffByOne(seq) ==
  IF seq > replay.seq \/ seq + 2 < replay.first THEN <<Gap(replay.seq)>> ELSE Kept(seq)
\* Replay::after
After(seq) ==
  IF seq > replay.seq \/ seq + 1 < replay.first THEN <<Gap(replay.seq)>> ELSE Kept(seq)

\* The next command of a connection; once it is closed and has no more, Detach.
Takes(c, cmd) ==
  /\ Ready /\ conns[c].at = "bound" /\ conns[c].input # <<>>
  /\ Head(conns[c].input).cmd = cmd
  /\ conns' = [conns EXCEPT ![c].input = Tail(@)]

TakeAttach(c) ==
  /\ Takes(c, "attach")
  /\ actor' = [out |-> c, lease |-> c,
               say |-> <<Opened>> \o After(Head(conns[c].input).after)]
  /\ UNCHANGED <<replay, requests, ran, lease, client, breaks>>

\* Seeded fault: the cache forgets one request too many.
Remember_Fewer(entry) ==
  LET all == Append(requests, entry)
  IN  IF Len(all) >= CacheLimit THEN Tail(all) ELSE all
\* Requests::push
Remember(entry) ==
  LET all == Append(requests, entry)
  IN  IF Len(all) > CacheLimit THEN Tail(all) ELSE all

\* Requests::get: an id that was used is answered as before, or refused when its
\* content is another.
TakeRequest(c) ==
  LET r == Head(conns[c].input).request
      known == {i \in DOMAIN requests : requests[i].request.id = r.id}
  IN  /\ Takes(c, "request")
      /\ \/ /\ known = {}
            /\ ran' = Append(ran, r)
            /\ requests' = Remember([request |-> r, answer |-> Len(ran) + 1])
            /\ actor' = [actor EXCEPT !.say = Says(actor.out, <<Answer(r, Len(ran) + 1)>>)]
         \/ \E i \in known :
              /\ actor' = [actor EXCEPT !.say = Says(actor.out,
                   <<Answer(r, IF requests[i].request = r THEN requests[i].answer ELSE 0)>>)]
              /\ UNCHANGED <<ran, requests>>
      /\ UNCHANGED <<replay, lease, client, breaks>>

\* Registry::detach
Detached(c) == IF lease = c THEN Nobody ELSE lease

TakeDetach(c) ==
  /\ Ready /\ conns[c].at = "bound" /\ ~conns[c].up /\ conns[c].input = <<>>
  /\ conns' = [conns EXCEPT ![c] = Free]
  /\ IF actor.lease = c
     THEN actor' = [actor EXCEPT !.out = Nobody] /\ lease' = Detached(c)
     ELSE UNCHANGED <<actor, lease>>
  /\ UNCHANGED <<replay, requests, ran, client, breaks>>

\* Actor::send puts one message in the queue of the connection, whose writer
\* drains it meanwhile; that of a closed one loses it, until it is gone.
Send ==
  /\ ~Ready
  /\ actor' = [actor EXCEPT !.say = Tail(@)]
  /\ \/ /\ conns[actor.out].up /\ Len(conns[actor.out].queue) < QueueLimit
        /\ conns' = [conns EXCEPT ![actor.out].queue = Append(@, Head(actor.say))]
     \/ ~conns[actor.out].up /\ UNCHANGED conns
  /\ UNCHANGED <<replay, requests, ran, lease, client, breaks>>

\* Seeded fault: the connection whose queue is full is left open.
Overflow_LeftOpen ==
  /\ ~Ready
  /\ conns[actor.out].up => Len(conns[actor.out].queue) >= QueueLimit
  /\ actor' = [actor EXCEPT !.say = <<>>, !.out = Nobody]
  /\ lease' = Detached(actor.lease)
  /\ UNCHANGED <<replay, requests, ran, conns, client, breaks>>
\* Outbound::send fails: the connection is closed, the lease given back.
Overflow ==
  /\ ~Ready
  /\ conns[actor.out].up => Len(conns[actor.out].queue) >= QueueLimit
  /\ conns' = Closed(actor.out)
  /\ actor' = [actor EXCEPT !.say = <<>>, !.out = Nobody]
  /\ lease' = Detached(actor.lease)
  /\ UNCHANGED <<replay, requests, ran, client, breaks>>

-----------------------------------------------------------------------------
(* The client *)

\* An error ends run_round, and the user is asked what to do, but for a gap while
\* the round goes on.
Told(now, goes_on) == IF goes_on THEN now ELSE [now EXCEPT !.at = "told"]

\* What next, and run_round of the terminal, make of a message: the answer to a
\* request that was given up, and an event that was seen, are nothing to them.  The
\* error that stands for an event has no number, and does not move seq.
Seen(msg) ==
  CASE msg.is = "event" ->
         IF msg.n > client.seq
         THEN [client EXCEPT !.seq = msg.n,
                             !.at = IF msg.n = LastEvent THEN "done" ELSE client.at]
         ELSE client
    [] msg.is = "gap" ->
         Told([client EXCEPT !.seq = msg.n, !.missed = @ \cup ((client.seq + 1)..msg.n)],
              client.round)
    [] msg.is = "oversized" ->
         Told([client EXCEPT !.missed = @ \cup ({msg.n} \ 1..client.seq)], FALSE)
    [] OTHER -> client

\* Client::next takes what request has put aside, and then what comes from the
\* connection, from one that is closed too.
NextPending ==
  /\ client.at = "following" /\ client.pending # <<>>
  /\ client' = [Seen(Head(client.pending)) EXCEPT !.pending = Tail(@)]
  /\ UNCHANGED <<replay, requests, ran, actor, lease, conns, breaks>>

Arrived == conns[client.conn].queue

Receives ==
  /\ Arrived # <<>>
  /\ conns' = [conns EXCEPT ![client.conn].queue = Tail(@)]
  /\ UNCHANGED <<replay, requests, ran, actor, lease, breaks>>

NextReceived ==
  /\ client.at = "following" /\ client.pending = <<>>
  /\ Receives /\ client' = Seen(Head(Arrived))

\* The user who was told of an error goes on; run follows the round again if it
\* is not known to be over.
GoOn ==
  /\ client.at = "told" /\ client.round /\ client.asks < AskLimit
  /\ client' = [client EXCEPT !.at = "following", !.asks = @ + 1]
  /\ UNCHANGED <<replay, requests, ran, actor, lease, conns, breaks>>

\* Client::send.  The protocol lets a client send a request again whose answer was
\* lost; Client::send draws a new id each time, so that only others do.
SendRequest(r) ==
  /\ client.at = "following" /\ client.asks < AskLimit
  /\ client' = [client EXCEPT !.at = "asking", !.asked = r, !.asks = @ + 1]
  /\ IF conns[client.conn].up
     THEN conns' = [conns EXCEPT ![client.conn].input = Append(@, Ask(r))]
     ELSE UNCHANGED conns
  /\ UNCHANGED <<replay, requests, ran, actor, lease, breaks>>

\* Client::request puts aside what is not its answer.
AwaitAnswer ==
  /\ client.at = "asking" /\ Receives
  /\ LET msg == Head(Arrived)
     IN  client' = IF msg.is = "answer" /\ msg.to.id = client.asked.id
                   THEN [client EXCEPT !.at = "following", !.asked = Nobody]
                   ELSE [client EXCEPT !.pending = Append(@, msg)]

\* The connection is closed, what it still held is lost: Client::reconnect.
Lost ==
  /\ client.at \in {"following", "asking"} /\ ~conns[client.conn].up
  /\ client.at = "following" => client.pending = <<>>
  /\ client' = [client EXCEPT !.at = "away", !.tries = Tries]
  /\ conns' = [conns EXCEPT ![client.conn].queue = <<>>]
  /\ UNCHANGED <<replay, requests, ran, actor, lease, breaks>>

\* Client::open with the seq seen last, on a new connection.
Reopen(c) ==
  /\ client.at = "away" /\ client.tries > 0 /\ conns[c] = Free
  /\ conns' = [conns EXCEPT ![c] = [at |-> "opening", up |-> TRUE, queue |-> <<>>,
                                    input |-> <<AttachAfter(client.seq)>>]]
  /\ client' = [client EXCEPT !.at = "opening", !.tries = @ - 1, !.trying = c]
  /\ UNCHANGED <<replay, requests, ran, actor, lease, breaks>>

\* Opened comes first, and says whether the round goes on.  A request that was
\* under way ends without an answer.
Resumed ==
  /\ client.at = "opening" /\ conns[client.trying].queue # <<>>
  /\ client' = [client EXCEPT !.at = "following", !.asked = Nobody, !.tries = 0,
                              !.conn = client.trying, !.trying = Nobody,
                              !.round = Head(conns[client.trying].queue).n < LastEvent]
  /\ conns' = [conns EXCEPT ![client.trying].queue = Tail(@)]
  /\ UNCHANGED <<replay, requests, ran, actor, lease, breaks>>

\* The try is given up: ten seconds have passed, or the connection was closed.
TryFails ==
  /\ client.at = "opening"
  /\ client' = [client EXCEPT !.at = "away", !.trying = Nobody]
  /\ conns' = [Closed(client.trying) EXCEPT ![client.trying].queue = <<>>]
  /\ UNCHANGED <<replay, requests, ran, actor, lease, breaks>>

\* All tries have failed, or hello has, which ends reconnect at once.  The error of
\* next ends run_round; that of request does not, and next will try again.
GiveUp ==
  /\ client.at = "away"
  /\ client' = [client EXCEPT !.at = IF client.asked = Nobody THEN "told" ELSE "following",
                              !.asked = Nobody]
  /\ UNCHANGED <<replay, requests, ran, actor, lease, conns, breaks>>

-----------------------------------------------------------------------------
(* The service and the network *)

\* Registry::open leases the session, to a client that is gone by now too, or
\* refuses (session_in_use).
Open(c) ==
  /\ conns[c].at = "opening"
  /\ IF lease = Nobody
     THEN /\ lease' = c /\ conns' = [conns EXCEPT ![c].at = "bound"]
          /\ UNCHANGED client
     ELSE /\ conns' = [conns EXCEPT ![c] = Free]
          /\ client' = IF client.trying = c
                       THEN [client EXCEPT !.at = "away", !.trying = Nobody] ELSE client
          /\ UNCHANGED lease
  /\ UNCHANGED <<replay, requests, ran, actor, breaks>>

\* The network breaks a connection; of what was sent last some may not arrive.
Break(c) ==
  /\ breaks < BreakLimit /\ conns[c].at = "bound" /\ conns[c].up
  /\ \E kept \in 0..Len(conns[c].input) :
       conns' = [Closed(c) EXCEPT ![c].input = SubSeq(@, 1, kept)]
  /\ breaks' = breaks + 1
  /\ UNCHANGED <<replay, requests, ran, actor, lease, client>>

-----------------------------------------------------------------------------
\* The client has opened the session, and its round begins.
Init ==
  /\ replay = [seq |-> 0, first |-> 1, large |-> {}] /\ requests = <<>> /\ ran = <<>> /\ breaks = 0
  /\ LET c == CHOOSE d \in Conns : TRUE
     IN  /\ lease = c /\ actor = [out |-> c, lease |-> c, say |-> <<>>]
         /\ conns = [[d \in Conns |-> Free] EXCEPT ![c].at = "bound", ![c].up = TRUE]
         /\ client = [at |-> "following", conn |-> c, trying |-> Nobody, seq |-> 0,
                      missed |-> {}, pending |-> <<>>, asked |-> Nobody, asks |-> 0,
                      tries |-> 0, round |-> TRUE]

Serve(c) == Open(c) \/ TakeAttach(c) \/ TakeRequest(c) \/ TakeDetach(c)

ClientNext ==
  \/ NextPending \/ NextReceived \/ AwaitAnswer \/ Lost \/ Resumed \/ GiveUp
  \/ \E c \in Conns : Reopen(c)

Next ==
  \/ Output \/ Send \/ Overflow \/ ClientNext \/ TryFails \/ GoOn
  \/ \E r \in Requests : SendRequest(r)
  \/ \E c \in Conns : Serve(c) \/ Break(c)

StreamSpec == Init /\ [][Next]_stream_vars

\* The actor takes its commands and the round goes on; a client reads and tries
\* again.  A replay fills the queue without a pause while the writer, a task of
\* its own, drains it: it does not lose every such race.
FairSpec ==
  /\ StreamSpec
  /\ WF_stream_vars(Output) /\ WF_stream_vars(Send \/ Overflow)
  /\ \A c \in Conns : WF_stream_vars(Serve(c))
  /\ WF_stream_vars(ClientNext) /\ WF_stream_vars(TryFails)
  /\ SF_stream_vars(Resumed /\ conns[client.trying].up)
  /\ SF_stream_vars(NextReceived /\ conns[client.conn].up)

-----------------------------------------------------------------------------
(* Properties *)

StreamTypeOK ==
  /\ replay.seq \in 0..LastEvent /\ replay.first \in 1..(LastEvent + 1)
  /\ replay.large \subseteq Oversized \cap 1..replay.seq
  /\ Len(requests) <= CacheLimit
  /\ actor.out \in Conns \cup {Nobody} /\ lease \in Conns \cup {Nobody}
  /\ \A c \in Conns :
       /\ conns[c].at \in {"free", "opening", "bound"} /\ conns[c].up \in BOOLEAN
       /\ Len(conns[c].queue) <= QueueLimit
  /\ client.at \in {"following", "asking", "away", "opening", "done", "told"}
  /\ client.seq \in 0..replay.seq /\ client.missed \subseteq 1..replay.seq

\* A request that is sent again, over another connection or while the one before
\* is still queued, is not run again before CacheLimit others have been
\* (replay.rs, 54-75).
RequestsRunOnce ==
  \A i, j \in DOMAIN ran : i < j /\ ran[i].id = ran[j].id => j - i > CacheLimit

\* The client is promised its events: see Delivery.
Follower == INSTANCE Delivery WITH produced <- replay.seq, shown <- client.seq,
                                   missed <- client.missed
DeliverySpec == Follower!DeliverySpec

\* Whatever breaks, and how often its user goes on after an error, a client that
\* follows comes to the end of the round or is told of an error.  One case is left:
\* who was told that Finished itself was too large, and goes on, may wait for it in
\* vain (client.rs, 278-351; agent.rs, 73-82 and 177-204; connection.rs, 33-39).
FollowerSettles ==
  client.at \in {"following", "asking", "away", "opening"}
    ~> client.at \in {"done", "told"} \/ LastEvent \in replay.large \cap client.missed
=============================================================================
