------------------------- MODULE EventStream_proofs -------------------------
(***************************************************************************)
(* Proofs about the events of a round on their way to the client, for any  *)
(* number of events, connections, requests and breaks, and for every limit *)
(* of the replay, the queues and the cache: what the client is shown is    *)
(* what Delivery promises, and no request runs again while it is           *)
(* remembered.                                                             *)
(*                                                                         *)
(* The argument is about three queues one after the other: what the client *)
(* has put aside, what its connection holds, and what the actor is still   *)
(* sending.  Each is sound on what is known by what is ahead of it.        *)
(***************************************************************************)
EXTENDS EventStream, SequenceTheorems, TLAPS

-----------------------------------------------------------------------------
(* Queues of messages.                                                     *)

Kinds == {"event", "oversized", "gap", "answer", "opened"}
Message == [is : Kinds, n : Nat, to : Requests \cup {Nobody}]

\* The events that a message accounts for: it shows them, or says that the
\* client will not see them.
Cov(m) == IF m.is \in {"event", "oversized"} THEN {m.n}
          ELSE IF m.is = "gap" THEN 1..m.n ELSE {}
CovTo(Q, i) == UNION {Cov(Q[j]) : j \in 1..i}
All(Q) == CovTo(Q, Len(Q))

\* A message that comes when the events of K are accounted for: nothing is
\* left out before it, and a gap reaches beyond all of them.
Fits(top, K, m) ==
  /\ m.is \in {"event", "oversized"} => m.n \in 1..top /\ 1..(m.n - 1) \subseteq K
  /\ m.is = "gap" => m.n \in 0..top /\ K \subseteq 1..m.n

SoundOn(top, K, Q) == \A i \in 1..Len(Q) : Fits(top, K \cup CovTo(Q, i - 1), Q[i])

LEMMA EmptyLemma == \A top, K : SoundOn(top, K, <<>>) /\ All(<<>>) = {}
BY DEF SoundOn, All, CovTo

LEMMA CovNext ==
  ASSUME NEW Q, NEW i \in Nat
  PROVE  CovTo(Q, i + 1) = CovTo(Q, i) \cup Cov(Q[i + 1])
<1>1. 1..(i + 1) = 1..i \cup {i + 1}
  OBVIOUS
<1> QED
  BY <1>1 DEF CovTo

LEMMA AppendLemma ==
  ASSUME NEW top, NEW K, NEW Q \in Seq(Message), NEW m \in Message,
         NEW L, L = K \cup All(Q), SoundOn(top, K, Q), Fits(top, L, m)
  PROVE  /\ SoundOn(top, K, Append(Q, m))
         /\ All(Append(Q, m)) = All(Q) \cup Cov(m)
<1> DEFINE R == Append(Q, m)
<1>1. /\ Len(Q) \in Nat /\ Len(R) = Len(Q) + 1 /\ R[Len(Q) + 1] = m
      /\ \A i \in 1..Len(Q) : R[i] = Q[i]
  BY AppendProperties
<1> HIDE DEF R
<1>2. ASSUME NEW i \in 0..Len(Q) PROVE CovTo(R, i) = CovTo(Q, i)
  BY <1>1 DEF CovTo
<1>3. All(R) = All(Q) \cup Cov(m)
  <2>1. CovTo(R, Len(Q) + 1) = CovTo(R, Len(Q)) \cup Cov(R[Len(Q) + 1])
    BY <1>1, CovNext
  <2>2. CovTo(R, Len(Q)) = CovTo(Q, Len(Q))
    BY <1>1, <1>2
  <2> QED
    BY <1>1, <2>1, <2>2 DEF All
<1>4. ASSUME NEW i \in 1..Len(R) PROVE Fits(top, K \cup CovTo(R, i - 1), R[i])
  <2>1. CASE i = Len(Q) + 1
    <3>1. i - 1 = Len(Q) /\ CovTo(R, Len(Q)) = CovTo(Q, Len(Q)) /\ R[i] = m
      BY <1>1, <1>2, <2>1
    <3> QED
      BY <3>1 DEF All
  <2>2. CASE i \in 1..Len(Q)
    <3>1. CovTo(R, i - 1) = CovTo(Q, i - 1)
      BY <1>2, <2>2, <1>1
    <3> QED
      BY <1>1, <2>2, <3>1 DEF SoundOn
  <2> QED
    BY <1>1, <2>1, <2>2
<1>5. SoundOn(top, K, R)
  BY <1>4 DEF SoundOn
<1> QED
  BY <1>3, <1>5 DEF R

LEMMA HeadLemma ==
  ASSUME NEW top, NEW K, NEW Q \in Seq(Message), Q # <<>>, SoundOn(top, K, Q)
  PROVE  /\ Head(Q) \in Message /\ Tail(Q) \in Seq(Message)
         /\ Fits(top, K, Head(Q))
         /\ SoundOn(top, K \cup Cov(Head(Q)), Tail(Q))
         /\ All(Q) = Cov(Head(Q)) \cup All(Tail(Q))
<1> DEFINE R == Tail(Q)
<1>0. \A i \in 1..Len(Q) : Fits(top, K \cup CovTo(Q, i - 1), Q[i])
  BY DEF SoundOn
<1>1. /\ Len(Q) \in Nat \ {0} /\ Len(R) = Len(Q) - 1 /\ Head(Q) = Q[1]
      /\ \A i \in 1..Len(R) : R[i] = Q[i + 1]
      /\ R \in Seq(Message) /\ Head(Q) \in Message
  BY HeadTailProperties, EmptySeq
<1> HIDE DEF R
<1>2. ASSUME NEW i \in 0..Len(R) PROVE CovTo(Q, i + 1) = Cov(Q[1]) \cup CovTo(R, i)
  <2>1. \A j \in 1..i : R[j] = Q[j + 1]
    BY <1>1
  <2>2. CovTo(R, i) = UNION {Cov(Q[j]) : j \in 2..(i + 1)}
    <3>1. \A x : x \in CovTo(R, i) <=> \E j \in 1..i : x \in Cov(Q[j + 1])
      BY <2>1 DEF CovTo
    <3>2. \A x : (\E j \in 1..i : x \in Cov(Q[j + 1])) <=> \E j \in 2..(i + 1) : x \in Cov(Q[j])
      <4>1. \A j \in 1..i : j + 1 \in 2..(i + 1)
        BY <1>1
      <4>2. \A j \in 2..(i + 1) : j - 1 \in 1..i /\ (j - 1) + 1 = j
        BY <1>1
      <4> QED
        BY <4>1, <4>2
    <3> QED
      BY <3>1, <3>2
  <2>3. 1..(i + 1) = {1} \cup 2..(i + 1)
    BY <1>1
  <2> QED
    BY <2>2, <2>3 DEF CovTo
<1>3. CovTo(Q, 0) = {}
  BY DEF CovTo
<1>4. Fits(top, K, Head(Q))
  <2>1. Fits(top, K \cup CovTo(Q, 1 - 1), Q[1])
    BY <1>0, 1 \in 1..Len(Q), <1>1
  <2>2. K \cup CovTo(Q, 1 - 1) = K
    BY <1>3
  <2> QED
    BY <1>1, <2>1, <2>2
<1>5. ASSUME NEW i \in 1..Len(R)
      PROVE  Fits(top, (K \cup Cov(Head(Q))) \cup CovTo(R, i - 1), R[i])
  <2>1. Fits(top, K \cup CovTo(Q, (i + 1) - 1), Q[i + 1])
    <3>1. i + 1 \in 1..Len(Q)
      BY <1>1
    <3> QED
      BY <1>0, <3>1
  <2>2. CovTo(Q, (i + 1) - 1) = Cov(Q[1]) \cup CovTo(R, i - 1)
    <3>1. i - 1 \in 0..Len(R) /\ (i - 1) + 1 = (i + 1) - 1
      BY <1>1
    <3> QED
      BY <1>2, <3>1
  <2>3. K \cup CovTo(Q, (i + 1) - 1) = (K \cup Cov(Head(Q))) \cup CovTo(R, i - 1)
    BY <1>1, <2>2
  <2> QED
    BY <1>1, <2>1, <2>3
<1>6. SoundOn(top, K \cup Cov(Head(Q)), R)
  BY <1>5 DEF SoundOn
<1>7. All(Q) = Cov(Head(Q)) \cup All(R)
  BY <1>1, <1>2 DEF All
<1> QED
  BY <1>1, <1>4, <1>6, <1>7 DEF R

\* More events leave a queue sound.
LEMMA TopLemma ==
  ASSUME NEW top \in Nat, NEW more \in Nat, top <= more, NEW K, NEW Q, SoundOn(top, K, Q)
  PROVE  SoundOn(more, K, Q)
<1> SUFFICES ASSUME NEW i \in 1..Len(Q) PROVE Fits(more, K \cup CovTo(Q, i - 1), Q[i])
  BY DEF SoundOn
<1>1. Fits(top, K \cup CovTo(Q, i - 1), Q[i])
  BY DEF SoundOn
<1> QED
  BY <1>1 DEF Fits

\* All that a sound queue accounts for has happened.
LEMMA AllLemma ==
  ASSUME NEW top \in Nat, NEW K, NEW Q, SoundOn(top, K, Q)
  PROVE  All(Q) \subseteq 1..top
<1> SUFFICES ASSUME NEW i \in 1..Len(Q) PROVE Cov(Q[i]) \subseteq 1..top
  BY DEF All, CovTo
<1> QED
  BY DEF SoundOn, Fits, Cov

-----------------------------------------------------------------------------
(* Three queues in a row: P, put aside by the client; Q, of its connection; *)
(* S, which the actor is sending there, when it is attached to it.          *)

Flow(top, K, P, Q, S, attached) ==
  /\ K \subseteq 1..top
  /\ SoundOn(top, K, P)
  /\ SoundOn(top, K \cup All(P), Q)
  /\ SoundOn(top, (K \cup All(P)) \cup All(Q), S)
  /\ attached => 1..top \subseteq ((K \cup All(P)) \cup All(Q)) \cup All(S)

Neutral(m) == m.is \in {"answer", "opened"}

LEMMA NeutralLemma ==
  ASSUME NEW m, Neutral(m) PROVE Cov(m) = {} /\ \A top, K : Fits(top, K, m)
BY DEF Neutral, Cov, Fits

LEMMA EventLemma ==
  ASSUME NEW n \in Nat, NEW large
  PROVE  Event(n, large) \in Message /\ Cov(Event(n, large)) = {n} /\ Event(n, large).n = n
         /\ Event(n, large).is \in {"event", "oversized"}
BY DEF Event, Message, Kinds, Cov

LEMMA SingleLemma ==
  ASSUME NEW top, NEW K, NEW m \in Message, Fits(top, K, m)
  PROVE  SoundOn(top, K, <<m>>) /\ All(<<m>>) = Cov(m)
<1>1. Len(<<m>>) = 1 /\ <<m>>[1] = m
  OBVIOUS
<1>2. K \cup CovTo(<<m>>, 1 - 1) = K
  BY DEF CovTo
<1>3. CovTo(<<m>>, 1) = Cov(m)
  BY <1>1 DEF CovTo
<1>4. ASSUME NEW i \in 1..Len(<<m>>) PROVE Fits(top, K \cup CovTo(<<m>>, i - 1), <<m>>[i])
  <2>1. i = 1
    BY <1>1
  <2> QED
    BY <1>1, <1>2, <2>1
<1> QED
  BY <1>1, <1>3, <1>4 DEF SoundOn, All

LEMMA FlowDrops ==
  ASSUME NEW top, NEW K, NEW P, NEW Q, NEW S, NEW attached, Flow(top, K, P, Q, S, attached)
  PROVE  /\ Flow(top, K, P, Q, <<>>, FALSE)
         /\ Flow(top, K, P, <<>>, <<>>, FALSE)
BY EmptyLemma DEF Flow

LEMMA FlowSays ==
  ASSUME NEW top, NEW K, NEW P, NEW Q, NEW m \in Message, Neutral(m),
         Flow(top, K, P, Q, <<>>, TRUE)
  PROVE  Flow(top, K, P, Q, <<m>>, TRUE)
<1>1. SoundOn(top, (K \cup All(P)) \cup All(Q), <<m>>)
  BY SingleLemma, NeutralLemma
<1> QED
  BY <1>1, EmptyLemma DEF Flow

LEMMA FlowGrows ==
  ASSUME NEW top \in Nat, NEW K, NEW P, NEW Q, NEW S, NEW attached, Flow(top, K, P, Q, S, attached)
  PROVE  Flow(top + 1, K, P, Q, S, FALSE)
<1>1. top + 1 \in Nat /\ top <= top + 1 /\ 1..top \subseteq 1..(top + 1)
  OBVIOUS
<1> QED
  BY <1>1, TopLemma DEF Flow

LEMMA FlowTells ==
  ASSUME NEW top \in Nat, NEW K, NEW P, NEW Q, NEW large, Flow(top, K, P, Q, <<>>, TRUE)
  PROVE  Flow(top + 1, K, P, Q, <<Event(top + 1, large)>>, TRUE)
<1> DEFINE m == Event(top + 1, large)
           B == (K \cup All(P)) \cup All(Q)
<1>1. m \in Message /\ Cov(m) = {top + 1} /\ m.n = top + 1 /\ m.is \in {"event", "oversized"}
  BY EventLemma
<1>2. Flow(top + 1, K, P, Q, <<>>, FALSE)
  BY FlowGrows
<1>3. 1..top \subseteq B /\ All(<<>>) = {}
  BY EmptyLemma DEF Flow
<1> HIDE DEF m, B
<1>4. Fits(top + 1, B, m)
  BY <1>1, <1>3 DEF Fits
<1>5. SoundOn(top + 1, B, <<m>>) /\ All(<<m>>) = Cov(m)
  BY <1>1, <1>4, SingleLemma
<1>6. SoundOn(top + 1, B, <<m>>) /\ All(<<m>>) = {top + 1}
  BY <1>1, <1>5
<1>7. 1..(top + 1) \subseteq B \cup All(<<m>>)
  BY <1>3, <1>6
<1> QED
  BY <1>2, <1>6, <1>7 DEF Flow, B, m

LEMMA FlowSends ==
  ASSUME NEW top, NEW K, NEW P, NEW Q \in Seq(Message), NEW S \in Seq(Message), NEW attached,
         S # <<>>, Flow(top, K, P, Q, S, attached)
  PROVE  Flow(top, K, P, Append(Q, Head(S)), Tail(S), attached)
<1> DEFINE B == K \cup All(P)
           m == Head(S)
<1>1. SoundOn(top, B, Q) /\ SoundOn(top, B \cup All(Q), S)
  BY DEF Flow
<1> HIDE DEF B
<1>2. /\ m \in Message /\ Fits(top, B \cup All(Q), m)
      /\ SoundOn(top, (B \cup All(Q)) \cup Cov(m), Tail(S))
      /\ All(S) = Cov(m) \cup All(Tail(S))
  BY <1>1, HeadLemma
<1> HIDE DEF m
<1>3. SoundOn(top, B, Append(Q, m)) /\ All(Append(Q, m)) = All(Q) \cup Cov(m)
  BY <1>1, <1>2, AppendLemma
<1>4. B \cup All(Append(Q, m)) = (B \cup All(Q)) \cup Cov(m)
  BY <1>3
<1>5. (B \cup All(Append(Q, m))) \cup All(Tail(S)) = (B \cup All(Q)) \cup All(S)
  BY <1>2, <1>3
<1> QED
  BY <1>2, <1>3, <1>4, <1>5 DEF Flow, B, m

LEMMA FlowAside ==
  ASSUME NEW top, NEW K, NEW P \in Seq(Message), NEW Q \in Seq(Message), NEW S, NEW attached,
         Q # <<>>, Flow(top, K, P, Q, S, attached)
  PROVE  Flow(top, K, Append(P, Head(Q)), Tail(Q), S, attached)
<1> DEFINE m == Head(Q)
<1>1. /\ m \in Message /\ Fits(top, K \cup All(P), m)
      /\ SoundOn(top, (K \cup All(P)) \cup Cov(m), Tail(Q))
      /\ All(Q) = Cov(m) \cup All(Tail(Q))
  BY HeadLemma DEF Flow
<1> HIDE DEF m
<1>2. SoundOn(top, K, Append(P, m)) /\ All(Append(P, m)) = All(P) \cup Cov(m)
  BY <1>1, AppendLemma DEF Flow
<1>3. K \cup All(Append(P, m)) = (K \cup All(P)) \cup Cov(m)
  BY <1>2
<1>4. (K \cup All(Append(P, m))) \cup All(Tail(Q)) = (K \cup All(P)) \cup All(Q)
  BY <1>1, <1>2
<1> QED
  BY <1>1, <1>2, <1>3, <1>4 DEF Flow, m

LEMMA FlowSkips ==
  ASSUME NEW top, NEW K, NEW P, NEW Q \in Seq(Message), NEW S, NEW attached,
         Q # <<>>, Neutral(Head(Q)), Flow(top, K, P, Q, S, attached)
  PROVE  Flow(top, K, P, Tail(Q), S, attached)
<1>1. /\ SoundOn(top, (K \cup All(P)) \cup Cov(Head(Q)), Tail(Q))
      /\ All(Q) = Cov(Head(Q)) \cup All(Tail(Q))
  BY HeadLemma DEF Flow
<1>2. Cov(Head(Q)) = {}
  BY NeutralLemma
<1>3. (K \cup All(P)) \cup Cov(Head(Q)) = K \cup All(P) /\ All(Q) = All(Tail(Q))
  BY <1>1, <1>2
<1> QED
  BY <1>1, <1>3 DEF Flow

\* The client has seen the head of what it has put aside, or of its queue.
LEMMA FlowShows ==
  ASSUME NEW top \in Nat, NEW K, NEW P \in Seq(Message), NEW Q, NEW S, NEW attached,
         P # <<>>, Flow(top, K, P, Q, S, attached)
  PROVE  Flow(top, K \cup Cov(Head(P)), Tail(P), Q, S, attached) /\ Fits(top, K, Head(P))
<1> DEFINE m == Head(P)
<1>1. /\ m \in Message /\ Fits(top, K, m)
      /\ SoundOn(top, K \cup Cov(m), Tail(P))
      /\ All(P) = Cov(m) \cup All(Tail(P))
  BY HeadLemma DEF Flow
<1>2. All(P) \subseteq 1..top
  BY AllLemma DEF Flow
<1> HIDE DEF m
<1>3. (K \cup Cov(m)) \cup All(Tail(P)) = K \cup All(P)
  BY <1>1
<1>4. K \cup Cov(m) \subseteq 1..top
  BY <1>1, <1>2 DEF Flow
<1> QED
  BY <1>1, <1>3, <1>4 DEF Flow, m

LEMMA FlowShowsNext ==
  ASSUME NEW top \in Nat, NEW K, NEW Q \in Seq(Message), NEW S, NEW attached,
         Q # <<>>, Flow(top, K, <<>>, Q, S, attached)
  PROVE  Flow(top, K \cup Cov(Head(Q)), <<>>, Tail(Q), S, attached) /\ Fits(top, K, Head(Q))
<1> DEFINE m == Head(Q)
<1>0. K \cup All(<<>>) = K
  BY EmptyLemma
<1>1. /\ m \in Message /\ Fits(top, K, m)
      /\ SoundOn(top, K \cup Cov(m), Tail(Q))
      /\ All(Q) = Cov(m) \cup All(Tail(Q))
  BY <1>0, HeadLemma DEF Flow
<1>2. All(Q) \subseteq 1..top
  BY AllLemma DEF Flow
<1> HIDE DEF m
<1>3. /\ (K \cup Cov(m)) \cup All(<<>>) = K \cup Cov(m)
      /\ ((K \cup Cov(m)) \cup All(<<>>)) \cup All(Tail(Q)) = (K \cup All(<<>>)) \cup All(Q)
  BY <1>0, <1>1
<1>4. K \cup Cov(m) \subseteq 1..top
  BY <1>1, <1>2 DEF Flow
<1> QED
  BY <1>1, <1>3, <1>4, EmptyLemma DEF Flow, m

\* What the actor says to one who attaches accounts for all events after seq.
LEMMA AfterLemma ==
  ASSUME replay.seq \in Nat, replay.first \in Nat, NEW seq \in Nat
  PROVE  /\ <<Opened>> \o After(seq) \in Seq(Message)
         /\ <<Opened>> \o After(seq) # <<>> /\ Neutral(Head(<<Opened>> \o After(seq)))
         /\ \A K : 1..seq \subseteq K /\ K \subseteq 1..replay.seq =>
              /\ SoundOn(replay.seq, K, <<Opened>> \o After(seq))
              /\ 1..replay.seq \subseteq K \cup All(<<Opened>> \o After(seq))
<1> DEFINE top == replay.seq
           S == <<Opened>> \o After(seq)
<1>1. Opened \in Message /\ Neutral(Opened) /\ Cov(Opened) = {}
  BY DEF Opened, Message, Kinds, Neutral, Cov
<1>2. Gap(top) \in Message /\ Gap(top).is = "gap" /\ Gap(top).n = top /\ Cov(Gap(top)) = 1..top
  BY DEF Gap, Message, Kinds, Cov
<1>3. CASE seq > top \/ seq + 1 < replay.first
  <2>1. After(seq) = <<Gap(top)>>
    BY <1>3 DEF After
  <2> HIDE DEF top
  <2>2. S \in Seq(Message) /\ Len(S) = 2 /\ S[1] = Opened /\ S[2] = Gap(top)
    BY <1>1, <1>2, <2>1
  <2>3. S # <<>> /\ Head(S) = Opened
    BY <2>2, HeadTailProperties, EmptySeq
  <2> HIDE DEF S
  <2>4. CovTo(S, 0) = {} /\ CovTo(S, 1) = {} /\ CovTo(S, 2) = 1..top
    <3>1. CovTo(S, 0) = {}
      BY DEF CovTo
    <3>2. CovTo(S, 1) = CovTo(S, 0) \cup Cov(S[1])
      BY CovNext, 0 + 1 = 1
    <3>3. CovTo(S, 2) = CovTo(S, 1) \cup Cov(S[2])
      BY CovNext, 1 + 1 = 2
    <3> QED
      BY <1>1, <1>2, <2>2, <3>1, <3>2, <3>3
  <2>5. ASSUME NEW K, K \subseteq 1..top
        PROVE  SoundOn(top, K, S) /\ 1..top \subseteq K \cup All(S)
    <3>1. Fits(top, K \cup CovTo(S, 0), S[1])
      BY <1>1, <2>2, NeutralLemma
    <3>2. Fits(top, K \cup CovTo(S, 1), S[2])
      <4>1. K \cup CovTo(S, 1) = K /\ top \in Nat
        BY <2>4 DEF top
      <4>2. Fits(top, K, Gap(top))
        BY <1>2, <2>5, <4>1 DEF Fits
      <4> QED
        BY <2>2, <4>1, <4>2
    <3>3. ASSUME NEW i \in 1..Len(S) PROVE Fits(top, K \cup CovTo(S, i - 1), S[i])
      <4>1. (i = 1 /\ i - 1 = 0) \/ (i = 2 /\ i - 1 = 1)
        BY <2>2
      <4> QED
        BY <3>1, <3>2, <4>1
    <3> QED
      BY <2>2, <2>4, <3>3 DEF SoundOn, All
  <2> QED
    BY <1>1, <2>2, <2>3, <2>5 DEF top, S
<1>4. CASE seq <= top /\ replay.first <= seq + 1
  <2> DEFINE E == [i \in 1..(top - seq) |-> Event(seq + i, replay.large)]
  <2>1. After(seq) = E
    <3>1. ~(seq > top \/ seq + 1 < replay.first)
      BY <1>4
    <3>2. (IF seq < replay.first THEN replay.first ELSE seq + 1) = seq + 1
      BY <1>4
    <3>3. Kept(seq) = [i \in 1..(replay.seq + 1 - (seq + 1)) |-> Event((seq + 1) + i - 1, replay.large)]
      BY <3>2 DEF Kept
    <3>4. replay.seq + 1 - (seq + 1) = top - seq
          /\ \A i \in 1..(top - seq) : (seq + 1) + i - 1 = seq + i
      BY <1>4
    <3> QED
      BY <3>1, <3>3, <3>4 DEF After
  <2>2. \A i \in 1..(top - seq) : seq + i \in Nat /\ E[i] = Event(seq + i, replay.large)
    BY <1>4
  <2> HIDE DEF top
  <2>3. top \in Nat /\ seq <= top /\ top - seq \in Nat
    BY <1>4 DEF top
  <2>4. E \in Seq(Message) /\ Len(E) = top - seq
    BY <2>2, <2>3, EventLemma, IsASeq
  <2> HIDE DEF E
  <2>5. /\ S \in Seq(Message) /\ Len(S) = top - seq + 1 /\ S[1] = Opened
        /\ \A i \in 2..Len(S) : S[i] = E[i - 1]
    BY <1>1, <2>1, <2>3, <2>4
  <2>6. S # <<>> /\ Head(S) = Opened
    BY <2>3, <2>5, HeadTailProperties, EmptySeq
  <2> HIDE DEF S
  <2>7. \A i \in 2..Len(S) : S[i] = Event(seq + i - 1, replay.large) /\ seq + i - 1 \in Nat /\ seq + i - 1 <= top
    <3> SUFFICES ASSUME NEW i \in 2..Len(S)
                 PROVE  S[i] = Event(seq + i - 1, replay.large) /\ seq + i - 1 \in Nat /\ seq + i - 1 <= top
      OBVIOUS
    <3>1. i - 1 \in 1..(top - seq) /\ seq + (i - 1) = seq + i - 1
      BY <2>3, <2>5
    <3> QED
      BY <2>2, <2>3, <2>5, <3>1
  <2>8. ASSUME NEW i \in 1..Len(S), NEW k \in Nat, seq < k, k < seq + i PROVE k \in CovTo(S, i)
    <3>1. PICK j \in 1..i : j = k - seq + 1
      BY <2>3, <2>5, <2>8
    <3>2. j \in 2..Len(S) /\ seq + j - 1 = k
      BY <2>3, <2>5, <2>8, <3>1
    <3>3. S[j] = Event(k, replay.large)
      BY <2>7, <3>2
    <3>4. k \in Cov(S[j])
      BY <3>3, EventLemma
    <3> QED
      BY <3>4 DEF CovTo
  <2>9. ASSUME NEW K, 1..seq \subseteq K, K \subseteq 1..top
        PROVE  SoundOn(top, K, S) /\ 1..top \subseteq K \cup All(S)
    <3>1. ASSUME NEW i \in 1..Len(S) PROVE Fits(top, K \cup CovTo(S, i - 1), S[i])
      <4>1. CASE i = 1
        BY <1>1, <2>5, <4>1, NeutralLemma
      <4>2. CASE i \in 2..Len(S)
        <5> DEFINE n == seq + i - 1
        <5>1. S[i] = Event(n, replay.large) /\ n \in Nat /\ n <= top /\ n >= 1
          BY <2>7, <4>2
        <5>2. /\ S[i].is \in {"event", "oversized"} /\ S[i].n = n
              /\ n \in 1..top
          BY <2>3, <5>1, EventLemma
        <5>3. 1..(n - 1) \subseteq K \cup CovTo(S, i - 1)
          <6> SUFFICES ASSUME NEW k \in 1..(n - 1), k \notin 1..seq PROVE k \in CovTo(S, i - 1)
            BY <2>9
          <6>1. i - 1 \in 1..Len(S) /\ k \in Nat /\ seq < k /\ k < seq + (i - 1)
            BY <2>5, <4>2, <5>1
          <6> QED
            BY <2>8, <6>1
        <5> HIDE DEF n
        <5> QED
          BY <5>2, <5>3 DEF Fits
      <4> QED
        BY <2>3, <2>5, <4>1, <4>2
    <3>2. 1..top \subseteq K \cup All(S)
      <4> SUFFICES ASSUME NEW k \in 1..top, k \notin 1..seq PROVE k \in CovTo(S, Len(S))
        BY <2>9 DEF All
      <4>1. Len(S) \in 1..Len(S) /\ k \in Nat /\ seq < k /\ k < seq + Len(S)
        BY <2>3, <2>5
      <4> QED
        BY <2>8, <4>1
    <3> QED
      BY <3>1, <3>2 DEF SoundOn
  <2> QED
    BY <1>1, <2>5, <2>6, <2>9 DEF top, S
<1>5. \/ seq > top \/ seq + 1 < replay.first
      \/ seq <= top /\ replay.first <= seq + 1
  OBVIOUS
<1> QED
  BY <1>3, <1>4, <1>5

-----------------------------------------------------------------------------
(* The invariant.                                                          *)

Attachments == [cmd : {"attach"}, after : Nat, request : {Nobody}]
Questions == [cmd : {"request"}, after : {0}, request : Requests]
Entries == [request : Requests, answer : Nat]
Connection == [at : {"free", "opening", "bound"}, up : BOOLEAN, queue : Seq(Message),
               input : Seq(Attachments \cup Questions)]
ClientPlaces == {"following", "asking", "away", "opening", "done", "told"}
Clients == [at : ClientPlaces, conn : Conns, trying : Conns \cup {Nobody}, seq : Nat,
            missed : SUBSET Nat, pending : Seq(Message), asked : Requests \cup {Nobody},
            asks : Nat, tries : Nat, round : BOOLEAN]

Types ==
  /\ replay \in [seq : 0..LastEvent, first : Nat, large : SUBSET Nat]
  /\ requests \in Seq(Entries) /\ ran \in Seq(Requests)
  /\ actor \in [out : Conns \cup {Nobody}, lease : Conns \cup {Nobody}, say : Seq(Message)]
  /\ lease \in Conns \cup {Nobody}
  /\ conns \in [Conns -> Connection]
  /\ client \in Clients
  /\ breaks \in Nat

\* The connection that the client has, or hopes to have.
Followed == IF client.at = "opening" THEN client.trying ELSE client.conn
Attached == actor.out = Followed /\ conns[Followed].up
Coming == IF Attached THEN actor.say ELSE <<>>
Known == (1..client.seq) \cup client.missed

\* No other connection is up.  The actor is not yet attached to one from which
\* it has still to take the command, the first one there is.
ConnOK(c) ==
  /\ conns[c].up => c = Followed /\ client.at # "away"
  /\ \A i \in 1..Len(conns[c].input) :
       conns[c].input[i].cmd = "attach" =>
         /\ i = 1 /\ conns[c].queue = <<>> /\ actor.out # c
         /\ conns[c].up => client.at = "opening" /\ conns[c].input[i].after = client.seq

ActorOK ==
  /\ actor.out # Nobody => conns[actor.out].at = "bound" /\ actor.lease = actor.out
  /\ actor.say # <<>> => actor.out # Nobody

\* What comes first on a new connection is Opened.
ClientOK ==
  /\ client.at = "opening" <=> client.trying # Nobody
  /\ client.at = "away" \/ (client.at = "opening" /\ client.trying # client.conn) =>
       conns[client.conn].queue = <<>>
  /\ client.at = "opening" /\ conns[client.trying].queue # <<>> =>
       Neutral(Head(conns[client.trying].queue))
  /\ client.at = "opening" /\ conns[client.trying].queue = <<>> /\ Attached =>
       actor.say # <<>> /\ Neutral(Head(actor.say))

StreamOK == Flow(replay.seq, Known, client.pending, conns[Followed].queue, Coming, Attached)

StreamInv == /\ Types
             /\ \A c \in Conns : ConnOK(c)
             /\ ActorOK
             /\ ClientOK
             /\ StreamOK

LEMMA InvInit == Init => StreamInv
<1> SUFFICES ASSUME Init PROVE StreamInv
  OBVIOUS
<1>1. PICK c \in Conns :
        /\ lease = c /\ actor = [out |-> c, lease |-> c, say |-> <<>>]
        /\ conns = [[d \in Conns |-> Free] EXCEPT ![c].at = "bound", ![c].up = TRUE]
        /\ client = [at |-> "following", conn |-> c, trying |-> Nobody, seq |-> 0,
                     missed |-> {}, pending |-> <<>>, asked |-> Nobody, asks |-> 0,
                     tries |-> 0, round |-> TRUE]
  BY StreamAssumption DEF Init
<1>2. /\ conns[c].at = "bound" /\ conns[c].queue = <<>> /\ conns[c].input = <<>>
      /\ \A d \in Conns \ {c} : conns[d] = Free
      /\ conns \in [Conns -> Connection]
  <2>1. PICK one : one = [[d \in Conns |-> Free] EXCEPT ![c].at = "bound"]
    OBVIOUS
  <2>2. /\ one[c] = [Free EXCEPT !.at = "bound"] /\ DOMAIN one = Conns
        /\ \A d \in Conns \ {c} : one[d] = Free
    BY <2>1
  <2>3. Free \in Connection
    <3>1. <<>> \in Seq(Message) /\ <<>> \in Seq(Attachments \cup Questions)
      OBVIOUS
    <3> QED
      BY <3>1 DEF Connection, Free
  <2>4. /\ one[c] \in Connection /\ one[c].at = "bound"
        /\ one[c].queue = <<>> /\ one[c].input = <<>>
    <3>1. Free.queue = <<>> /\ Free.input = <<>>
      BY DEF Free
    <3> QED
      BY <2>2, <2>3, <3>1 DEF Connection
  <2>5. one \in [Conns -> Connection]
    BY <2>1, <2>2, <2>3, <2>4
  <2>6. conns = [one EXCEPT ![c].up = TRUE]
    BY <1>1, <2>1
  <2> QED
    BY <2>2, <2>4, <2>5, <2>6 DEF Connection
<1>3. replay.seq = 0 /\ replay \in [seq : 0..LastEvent, first : Nat, large : SUBSET Nat]
      /\ requests = <<>> /\ ran = <<>> /\ breaks = 0
  BY StreamAssumption DEF Init
<1>4. Types
  BY <1>1, <1>2, <1>3, StreamAssumption DEF Types, Clients, ClientPlaces
<1>5. Followed = c /\ Coming = <<>> /\ Known = {} /\ client.pending = <<>>
  BY <1>1, <1>2 DEF Followed, Coming, Known
<1>6. \A d \in Conns : ConnOK(d)
  BY <1>1, <1>2, <1>5 DEF ConnOK, Free
<1>7. ActorOK
  <2>1. actor.out = c /\ actor.lease = c /\ actor.say = <<>>
    BY <1>1
  <2>2. conns[c].at = "bound"
    BY <1>2
  <2> QED
    BY <2>1, <2>2 DEF ActorOK
<1>8. ClientOK
  BY <1>1 DEF ClientOK
<1>9. StreamOK
  BY <1>2, <1>3, <1>5, EmptyLemma DEF StreamOK, Flow
<1> QED
  BY <1>4, <1>6, <1>7, <1>8, <1>9 DEF StreamInv

\* The followed connection loses what it holds, or what the actor says.
LEMMA StreamLoses ==
  ASSUME StreamOK, replay'.seq = replay.seq, Known' = Known, client'.pending = client.pending,
         conns'[Followed'].queue \in {conns[Followed].queue, <<>>},
         Attached' => Attached /\ conns'[Followed'].queue = conns[Followed].queue
                      /\ actor'.say = actor.say
  PROVE  StreamOK'
<1> DEFINE Q == conns[Followed].queue
           P == client.pending
<1>1. Flow(replay.seq, Known, P, Q, Coming, Attached)
  BY DEF StreamOK
<1>2. Flow(replay.seq, Known, P, Q, <<>>, FALSE) /\ Flow(replay.seq, Known, P, <<>>, <<>>, FALSE)
  BY <1>1, FlowDrops
<1>3. CASE Attached'
  <2>1. Coming' = Coming /\ Attached
    BY <1>3 DEF Coming
  <2>2. Flow(replay.seq, Known, P, Q, Coming, TRUE)
    BY <1>1, <2>1 DEF Flow
  <2>3. Flow(replay.seq, Known, P, Q, Coming, Attached')
    BY <1>3, <2>2 DEF Flow
  <2> QED
    BY <1>3, <2>1, <2>3 DEF StreamOK
<1>4. CASE ~Attached'
  <2>1. Coming' = <<>>
    BY <1>4 DEF Coming
  <2>2. Flow(replay.seq, Known, P, conns'[Followed'].queue, <<>>, FALSE)
    BY <1>2
  <2>3. Flow(replay.seq, Known, P, conns'[Followed'].queue, <<>>, Attached')
    BY <1>4, <2>2 DEF Flow
  <2> QED
    BY <2>1, <2>3 DEF StreamOK
<1> QED
  BY <1>3, <1>4

-----------------------------------------------------------------------------
(* The actor's steps.                                                      *)

LEMMA FollowedLemma ==
  ASSUME Types, ClientOK
  PROVE  Followed \in Conns /\ client.pending \in Seq(Message) /\ Known \subseteq Nat
         /\ replay.seq \in Nat /\ replay.first \in Nat /\ Followed # Nobody
         /\ conns[Followed].queue \in Seq(Message) /\ actor.say \in Seq(Message)
<1>1. Followed \in Conns /\ Followed # Nobody
  BY StreamAssumption DEF Types, Clients, ClientOK, Followed
<1>2. conns[Followed] \in Connection
  BY <1>1 DEF Types
<1>3. Known \subseteq Nat
  <2>1. client.seq \in Nat /\ client.missed \in SUBSET Nat
    BY DEF Types, Clients
  <2> QED
    BY <2>1 DEF Known
<1> QED
  BY <1>1, <1>2, <1>3, StreamAssumption DEF Types, Clients, Connection

FreeOK == Free \in Connection /\ Free.at = "free" /\ ~Free.up /\ Free.queue = <<>>
          /\ Free.input = <<>> /\ Len(<<>>) = 0

LEMMA FreeLemma == FreeOK
<1>1. <<>> \in Seq(Message) /\ <<>> \in Seq(Attachments \cup Questions) /\ Len(<<>>) = 0
  OBVIOUS
<1> QED
  BY <1>1 DEF FreeOK, Connection, Free

LEMMA ConnSame ==
  ASSUME NEW d \in Conns, ConnOK(d), UNCHANGED client, conns'[d] = conns[d],
         actor'.out = d => actor.out = d
  PROVE  ConnOK(d)'
BY DEF ConnOK, Followed

\* A command was taken: those left are no attachments.
LEMMA ConnTakes ==
  ASSUME Types, NEW c \in Conns, NEW cmd, ConnOK(c), UNCHANGED client, Takes(c, cmd)
  PROVE  /\ conns' \in [Conns -> Connection]
         /\ \A d \in Conns \ {c} : conns'[d] = conns[d]
         /\ conns'[c].at = "bound" /\ conns'[c].up = conns[c].up /\ conns'[c].queue = conns[c].queue
         /\ conns[c].input[1] \in Attachments \cup Questions /\ conns[c].input[1].cmd = cmd
         /\ conns[c].input[1] = Head(conns[c].input) /\ 1 \in 1..Len(conns[c].input)
         /\ ConnOK(c)'
<1> DEFINE I == conns[c].input
<1>1. conns[c] \in Connection /\ I \in Seq(Attachments \cup Questions) /\ I # <<>>
      /\ conns[c].at = "bound"
  BY DEF Types, Connection, Takes
<1>2. conns' = [conns EXCEPT ![c].input = Tail(I)] /\ Head(I).cmd = cmd
  BY DEF Takes
<1> HIDE DEF I
<1>3. /\ Len(I) \in Nat \ {0} /\ Head(I) = I[1] /\ Head(I) \in Attachments \cup Questions
      /\ Tail(I) \in Seq(Attachments \cup Questions) /\ Len(Tail(I)) = Len(I) - 1
      /\ \A i \in 1..Len(Tail(I)) : Tail(I)[i] = I[i + 1]
  BY <1>1, HeadTailProperties, EmptySeq
<1>4. /\ conns' \in [Conns -> Connection]
      /\ \A d \in Conns \ {c} : conns'[d] = conns[d]
      /\ conns'[c].at = conns[c].at /\ conns'[c].up = conns[c].up
      /\ conns'[c].queue = conns[c].queue /\ conns'[c].input = Tail(I)
  BY <1>1, <1>2, <1>3 DEF Types, Connection
<1>5. ASSUME NEW i \in 1..Len(Tail(I)) PROVE Tail(I)[i].cmd # "attach"
  <2>1. i + 1 \in 1..Len(I) /\ i + 1 # 1 /\ Tail(I)[i] = I[i + 1]
    BY <1>3
  <2> QED
    BY <2>1 DEF ConnOK, I
<1>6. ConnOK(c)'
  BY <1>4, <1>5 DEF ConnOK, Followed
<1> QED
  BY <1>1, <1>2, <1>3, <1>4, <1>6 DEF I

LEMMA OutputStep == StreamInv /\ Output => StreamInv'
<1> SUFFICES ASSUME StreamInv, Output PROVE StreamInv'
  OBVIOUS
<1> DEFINE n == replay.seq + 1
<1>1. /\ Types /\ ActorOK /\ ClientOK /\ StreamOK /\ \A c \in Conns : ConnOK(c)
      /\ actor.say = <<>> /\ n \in 0..LastEvent
      /\ UNCHANGED <<requests, ran, lease, conns, client, breaks>>
  BY StreamAssumption DEF StreamInv, Output, Ready, Types
<1>2. PICK large \in {replay.large, replay.large \cup ({n} \cap Oversized)}, first \in 1..(n + 1) :
        /\ Push(n, large, first)
        /\ actor' = [actor EXCEPT !.say = Says(actor.out, <<Event(n, large)>>)]
  BY DEF Output
<1>3. replay' \in [seq : 0..LastEvent, first : Nat, large : SUBSET Nat] /\ replay'.seq = n
  <2>1. large \in SUBSET Nat
    BY <1>1, StreamAssumption DEF Types
  <2>2. replay' = [seq |-> n, first |-> first, large |-> large] /\ first \in Nat
    BY <1>1, <1>2 DEF Push
  <2> QED
    BY <1>1, <2>1, <2>2
<1>4. Event(n, large) \in Message /\ <<Event(n, large)>> \in Seq(Message) /\ <<Event(n, large)>> # <<>>
  BY <1>1, EventLemma
<1> HIDE DEF n
<1>5. /\ actor' \in [out : Conns \cup {Nobody}, lease : Conns \cup {Nobody}, say : Seq(Message)]
      /\ actor'.out = actor.out /\ actor'.lease = actor.lease
      /\ actor'.say = IF actor.out = Nobody THEN <<>> ELSE <<Event(n, large)>>
  BY <1>1, <1>2, <1>4 DEF Types, Says
<1>6. Types'
  BY <1>1, <1>3, <1>5 DEF Types
<1>7. \A c \in Conns : ConnOK(c)'
  BY <1>1, <1>5, ConnSame
<1>8. ActorOK'
  BY <1>1, <1>5 DEF ActorOK
<1>9. Followed' = Followed /\ Attached' = Attached /\ Known' = Known /\ Coming = <<>>
  BY <1>1, <1>5 DEF Followed, Attached, Known, Coming
<1>10. ClientOK'
  BY <1>1, <1>5, <1>9 DEF ClientOK
<1>11. StreamOK'
  <2>1. Flow(replay.seq, Known, client.pending, conns[Followed].queue, <<>>, Attached)
        /\ replay.seq \in Nat /\ Followed # Nobody
    BY <1>1, <1>9, FollowedLemma DEF StreamOK
  <2>2. CASE Attached
    <3>1. actor'.say = <<Event(n, large)>>
      BY <1>5, <2>1, <2>2 DEF Attached
    <3>2. Flow(replay.seq, Known, client.pending, conns[Followed].queue, <<>>, TRUE)
      BY <2>1, <2>2 DEF Flow
    <3>3. Flow(n, Known, client.pending, conns[Followed].queue, <<Event(n, large)>>, TRUE)
      BY <2>1, <3>2, FlowTells DEF n
    <3>4. Coming' = <<Event(n, large)>> /\ Attached'
      BY <1>9, <2>2, <3>1 DEF Coming
    <3> QED
      BY <1>1, <1>3, <1>9, <3>3, <3>4 DEF StreamOK, Flow
  <2>3. CASE ~Attached
    <3>1. Flow(n, Known, client.pending, conns[Followed].queue, <<>>, FALSE)
      BY <2>1, FlowGrows DEF n
    <3>2. Coming' = <<>> /\ ~Attached'
      BY <1>9, <2>3 DEF Coming
    <3> QED
      BY <1>1, <1>3, <1>9, <3>1, <3>2 DEF StreamOK, Flow
  <2> QED
    BY <2>2, <2>3
<1> QED
  BY <1>6, <1>7, <1>8, <1>10, <1>11 DEF StreamInv

LEMMA TakeAttachStep == ASSUME NEW c \in Conns PROVE StreamInv /\ TakeAttach(c) => StreamInv'
<1> SUFFICES ASSUME StreamInv, TakeAttach(c) PROVE StreamInv'
  OBVIOUS
<1> DEFINE seq == conns[c].input[1].after
           say == <<Opened>> \o After(seq)
<1>1. /\ Types /\ ActorOK /\ ClientOK /\ StreamOK /\ \A d \in Conns : ConnOK(d)
      /\ actor.say = <<>> /\ Takes(c, "attach")
      /\ UNCHANGED <<replay, requests, ran, lease, client, breaks>>
  BY DEF StreamInv, TakeAttach, Takes, Ready
<1>2. /\ conns' \in [Conns -> Connection]
      /\ \A d \in Conns \ {c} : conns'[d] = conns[d]
      /\ conns'[c].at = "bound" /\ conns'[c].up = conns[c].up /\ conns'[c].queue = conns[c].queue
      /\ conns[c].input[1] \in Attachments \cup Questions /\ conns[c].input[1].cmd = "attach"
      /\ conns[c].input[1] = Head(conns[c].input) /\ 1 \in 1..Len(conns[c].input)
  BY <1>1, ConnTakes
<1>3. /\ conns[c].queue = <<>> /\ actor.out # c /\ seq \in Nat
      /\ conns[c].up => client.at = "opening" /\ seq = client.seq /\ c = Followed
  <2>1. seq \in Nat
    BY <1>2 DEF Attachments, Questions
  <2> QED
    BY <1>1, <1>2, <2>1 DEF ConnOK
<1>4. actor' = [out |-> c, lease |-> c, say |-> say]
  BY <1>2 DEF TakeAttach
<1>5. replay.seq \in Nat /\ replay.first \in Nat /\ Followed \in Conns
  BY <1>1, FollowedLemma
<1> HIDE DEF seq
<1>6. /\ say \in Seq(Message) /\ say # <<>> /\ Neutral(Head(say))
      /\ \A K : 1..seq \subseteq K /\ K \subseteq 1..replay.seq =>
              SoundOn(replay.seq, K, say) /\ 1..replay.seq \subseteq K \cup All(say)
  BY <1>3, <1>5, AfterLemma
<1> HIDE DEF say
<1>7. Types'
  BY <1>1, <1>2, <1>4, <1>6 DEF Types
<1>8. \A d \in Conns : ConnOK(d)'
  <2>1. ConnOK(c)'
    BY <1>1, ConnTakes
  <2>2. ASSUME NEW d \in Conns \ {c} PROVE ConnOK(d)'
    BY <1>1, <1>2, <1>4, ConnSame
  <2> QED
    BY <2>1, <2>2
<1>9. ActorOK'
  <2>1. actor'.out = c /\ actor'.lease = c /\ c # Nobody
    BY <1>4, StreamAssumption
  <2> QED
    BY <1>2, <2>1 DEF ActorOK
<1>10. /\ Followed' = Followed /\ Known' = Known
       /\ Attached' <=> c = Followed /\ conns[c].up
       /\ \A d \in Conns : conns'[d].queue = conns[d].queue
  BY <1>1, <1>2, <1>4 DEF Followed, Known, Attached
<1>11. ClientOK'
  <2>1. client.conn \in Conns /\ (client.at = "opening" => client.trying \in Conns)
    BY <1>1 DEF Types, Clients, ClientOK
  <2> QED
    BY <1>1, <1>4, <1>6, <1>10, <2>1 DEF ClientOK
<1>12. StreamOK'
  <2>1. CASE c = Followed /\ conns[c].up
    <3> DEFINE P == client.pending
    <3>1. Flow(replay.seq, Known, P, <<>>, <<>>, FALSE)
      BY <1>1, FlowDrops DEF StreamOK
    <3>2. 1..seq \subseteq Known
      BY <1>3, <2>1 DEF Known
    <3>3. Known \cup All(P) \subseteq 1..replay.seq
      BY <1>5, <3>1, AllLemma DEF Flow
    <3>4. (Known \cup All(P)) \cup All(<<>>) = Known \cup All(P)
      BY EmptyLemma
    <3>5. Flow(replay.seq, Known, P, <<>>, say, TRUE)
      BY <1>6, <3>1, <3>2, <3>3, <3>4 DEF Flow
    <3>6. Coming' = say /\ Attached'
      BY <1>4, <1>10, <2>1 DEF Coming
    <3>7. conns'[Followed'].queue = <<>>
      BY <1>3, <1>10, <2>1
    <3> QED
      BY <1>1, <1>10, <3>5, <3>6, <3>7 DEF StreamOK, Flow
  <2>2. CASE ~(c = Followed /\ conns[c].up)
    BY <1>1, <1>5, <1>10, <2>2, StreamLoses
  <2> QED
    BY <2>1, <2>2
<1> QED
  BY <1>7, <1>8, <1>9, <1>11, <1>12 DEF StreamInv

LEMMA TakeRequestStep == ASSUME NEW c \in Conns PROVE StreamInv /\ TakeRequest(c) => StreamInv'
<1> SUFFICES ASSUME StreamInv, TakeRequest(c) PROVE StreamInv'
  OBVIOUS
<1> DEFINE r == Head(conns[c].input).request
<1>1. /\ Types /\ ActorOK /\ ClientOK /\ StreamOK /\ \A d \in Conns : ConnOK(d)
      /\ actor.say = <<>> /\ Takes(c, "request")
      /\ UNCHANGED <<replay, lease, client, breaks>>
  BY DEF StreamInv, TakeRequest, Takes, Ready
<1>2. /\ conns' \in [Conns -> Connection]
      /\ \A d \in Conns \ {c} : conns'[d] = conns[d]
      /\ conns'[c].at = "bound" /\ conns'[c].up = conns[c].up /\ conns'[c].queue = conns[c].queue
      /\ conns[c].input[1] \in Attachments \cup Questions /\ conns[c].input[1].cmd = "request"
      /\ conns[c].input[1] = Head(conns[c].input) /\ 1 \in 1..Len(conns[c].input)
      /\ ConnOK(c)'
  BY <1>1, ConnTakes
<1>3. r \in Requests
  BY <1>2 DEF Attachments, Questions
<1>4. /\ ran' \in Seq(Requests) /\ requests' \in Seq(Entries)
      /\ \E a \in Nat : actor' = [actor EXCEPT !.say = Says(actor.out, <<Answer(r, a)>>)]
  <2> DEFINE known == {i \in DOMAIN requests : requests[i].request.id = r.id}
  <2>1. \/ /\ ran' = Append(ran, r)
           /\ requests' = Remember([request |-> r, answer |-> Len(ran) + 1])
           /\ actor' = [actor EXCEPT !.say = Says(actor.out, <<Answer(r, Len(ran) + 1)>>)]
        \/ \E i \in known :
             /\ actor' = [actor EXCEPT !.say = Says(actor.out,
                  <<Answer(r, IF requests[i].request = r THEN requests[i].answer ELSE 0)>>)]
             /\ UNCHANGED <<ran, requests>>
    BY DEF TakeRequest
  <2>2. ran \in Seq(Requests) /\ requests \in Seq(Entries)
    BY <1>1 DEF Types
  <2>3. CASE /\ ran' = Append(ran, r)
             /\ requests' = Remember([request |-> r, answer |-> Len(ran) + 1])
             /\ actor' = [actor EXCEPT !.say = Says(actor.out, <<Answer(r, Len(ran) + 1)>>)]
    <3>1. Len(ran) + 1 \in Nat /\ ran' \in Seq(Requests)
      BY <1>3, <2>2, <2>3
    <3>2. PICK entry : entry = [request |-> r, answer |-> Len(ran) + 1]
      OBVIOUS
    <3>3. entry \in Entries
      BY <1>3, <3>1, <3>2 DEF Entries
    <3>4. Append(requests, entry) \in Seq(Entries)
          /\ Append(requests, entry) # <<>>
      BY <2>2, <3>3, AppendProperties
    <3>5. requests' \in {Append(requests, entry), Tail(Append(requests, entry))}
      BY <2>3, <3>2 DEF Remember
    <3>6. requests' \in Seq(Entries)
      BY <3>4, <3>5, HeadTailProperties
    <3> QED
      BY <2>3, <3>1, <3>6
  <2>4. CASE \E i \in known :
             /\ actor' = [actor EXCEPT !.say = Says(actor.out,
                  <<Answer(r, IF requests[i].request = r THEN requests[i].answer ELSE 0)>>)]
             /\ UNCHANGED <<ran, requests>>
    <3>1. PICK i \in known :
            /\ actor' = [actor EXCEPT !.say = Says(actor.out,
                 <<Answer(r, IF requests[i].request = r THEN requests[i].answer ELSE 0)>>)]
            /\ UNCHANGED <<ran, requests>>
      BY <2>4
    <3>2. i \in 1..Len(requests)
      BY <2>2
    <3>3. requests[i].answer \in Nat
      <4>1. requests[i] \in Entries
        BY <2>2, <3>2, ElementOfSeq
      <4> QED
        BY <4>1 DEF Entries
    <3>4. (IF requests[i].request = r THEN requests[i].answer ELSE 0) \in Nat
      BY <3>3
    <3> QED
      BY <2>2, <3>1, <3>4
  <2> QED
    BY <2>1, <2>3, <2>4
<1> HIDE DEF r
<1>5. PICK a \in Nat : actor' = [actor EXCEPT !.say = Says(actor.out, <<Answer(r, a)>>)]
  BY <1>4
<1>6. PICK m \in Message : m = Answer(r, a) /\ Neutral(m)
  <2>1. Answer(r, a) \in Message /\ Neutral(Answer(r, a))
    BY <1>3 DEF Answer, Message, Kinds, Neutral
  <2> QED
    BY <2>1
<1>7. /\ actor' \in [out : Conns \cup {Nobody}, lease : Conns \cup {Nobody}, say : Seq(Message)]
      /\ actor'.out = actor.out /\ actor'.lease = actor.lease
      /\ actor'.say = IF actor.out = Nobody THEN <<>> ELSE <<m>>
  <2>1. <<m>> \in Seq(Message) /\ <<>> \in Seq(Message)
    OBVIOUS
  <2>2. Says(actor.out, <<Answer(r, a)>>) = IF actor.out = Nobody THEN <<>> ELSE <<m>>
    BY <1>6 DEF Says
  <2> QED
    BY <1>1, <1>5, <2>1, <2>2 DEF Types
<1>8. Types'
  BY <1>1, <1>2, <1>4, <1>7 DEF Types
<1>9. \A d \in Conns : ConnOK(d)'
  BY <1>1, <1>2, <1>7, ConnSame
<1>10. ActorOK'
  <2>1. \A d \in Conns : conns'[d].at = conns[d].at
    BY <1>1, <1>2 DEF Takes
  <2>2. actor.out \in Conns \cup {Nobody}
    BY <1>1 DEF Types
  <2>3. <<m>> # <<>>
    OBVIOUS
  <2> QED
    BY <1>1, <1>7, <2>1, <2>2, <2>3 DEF ActorOK
<1>11. /\ Followed' = Followed /\ Known' = Known /\ Followed \in Conns /\ Followed # Nobody
       /\ \A d \in Conns : conns'[d].queue = conns[d].queue /\ conns'[d].up = conns[d].up
  BY <1>1, <1>2, FollowedLemma DEF Followed, Known
<1>12. Attached' = Attached /\ Coming = <<>>
  BY <1>1, <1>7, <1>11 DEF Attached, Coming
<1>13. ClientOK'
  <2>1. client.conn \in Conns /\ (client.at = "opening" => client.trying \in Conns)
    BY <1>1 DEF Types, Clients, ClientOK
  <2> QED
    BY <1>1, <1>11, <1>12, <2>1 DEF ClientOK
<1>14. StreamOK'
  <2>1. Flow(replay.seq, Known, client.pending, conns[Followed].queue, <<>>, Attached)
    BY <1>1, <1>12 DEF StreamOK
  <2>2. CASE Attached
    <3>1. Coming' = <<m>> /\ Attached'
      BY <1>7, <1>11, <1>12, <2>2 DEF Attached, Coming
    <3>2. Flow(replay.seq, Known, client.pending, conns[Followed].queue, <<>>, TRUE)
      BY <2>1, <2>2 DEF Flow
    <3>3. Flow(replay.seq, Known, client.pending, conns[Followed].queue, <<m>>, TRUE)
      BY <1>6, <3>2, FlowSays
    <3> QED
      BY <1>1, <1>11, <3>1, <3>3 DEF StreamOK, Flow
  <2>3. CASE ~Attached
    BY <1>1, <1>11, <1>12, <2>3, StreamLoses
  <2> QED
    BY <2>2, <2>3
<1> QED
  BY <1>8, <1>9, <1>10, <1>13, <1>14 DEF StreamInv

LEMMA TakeDetachStep == ASSUME NEW c \in Conns PROVE StreamInv /\ TakeDetach(c) => StreamInv'
<1> SUFFICES ASSUME StreamInv, TakeDetach(c) PROVE StreamInv'
  OBVIOUS
<1>1. /\ Types /\ ActorOK /\ ClientOK /\ StreamOK /\ \A d \in Conns : ConnOK(d)
      /\ actor.say = <<>> /\ ~conns[c].up
      /\ UNCHANGED <<replay, requests, ran, client, breaks>>
  BY DEF StreamInv, TakeDetach, Ready
<1>2. /\ conns' = [conns EXCEPT ![c] = Free]
      /\ \/ actor.lease = c /\ actor' = [actor EXCEPT !.out = Nobody] /\ lease' = Detached(c)
         \/ actor.lease # c /\ UNCHANGED <<actor, lease>>
  BY DEF TakeDetach
<1>3. FreeOK
  BY FreeLemma
<1>4. /\ conns' \in [Conns -> Connection] /\ conns'[c] = Free
      /\ \A d \in Conns \ {c} : conns'[d] = conns[d]
  BY <1>1, <1>2, <1>3 DEF Types, FreeOK
<1>5. /\ actor' \in [out : Conns \cup {Nobody}, lease : Conns \cup {Nobody}, say : Seq(Message)]
      /\ actor'.out \in {actor.out, Nobody} /\ actor'.out # c
      /\ actor'.lease = actor.lease /\ actor'.say = actor.say
      /\ lease' \in Conns \cup {Nobody}
  BY <1>1, <1>2, StreamAssumption DEF Types, ActorOK, Detached
<1>6. Types'
  BY <1>1, <1>4, <1>5 DEF Types
<1>7. ASSUME NEW d \in Conns PROVE ConnOK(d)'
  <2>1. CASE d = c
    BY <1>3, <1>4, <2>1 DEF ConnOK, FreeOK
  <2>2. CASE d # c
    BY <1>1, <1>4, <1>5, <2>2, ConnSame, StreamAssumption
  <2> QED
    BY <2>1, <2>2
<1>8. ActorOK'
  BY <1>1, <1>4, <1>5 DEF ActorOK, Types
<1>9. /\ Followed' = Followed /\ Known' = Known /\ Followed \in Conns /\ Followed # Nobody
  BY <1>1, FollowedLemma DEF Followed, Known
<1>10. Attached' => Attached /\ Followed # c
  BY <1>3, <1>4, <1>5, <1>9 DEF Attached, FreeOK
<1>11. \A d \in Conns : conns'[d].queue \in {conns[d].queue, <<>>}
                        /\ (d # c => conns'[d].queue = conns[d].queue)
  BY <1>3, <1>4 DEF FreeOK
<1>12. ClientOK'
  <2>1. client.conn \in Conns /\ (client.at = "opening" => client.trying \in Conns)
    BY <1>1 DEF Types, Clients, ClientOK
  <2>2. client.at = "opening" => Followed = client.trying
    BY DEF Followed
  <2> QED
    BY <1>1, <1>5, <1>10, <1>11, <2>1, <2>2 DEF ClientOK
<1>13. StreamOK'
  BY <1>1, <1>4, <1>5, <1>9, <1>10, <1>11, StreamLoses
<1> QED
  BY <1>6, <1>7, <1>8, <1>12, <1>13 DEF StreamInv

LEMMA SendStep == StreamInv /\ Send => StreamInv'
<1> SUFFICES ASSUME StreamInv, Send PROVE StreamInv'
  OBVIOUS
<1> DEFINE c == actor.out
           m == Head(actor.say)
           Q == conns[c].queue
<1>1. /\ Types /\ ActorOK /\ ClientOK /\ StreamOK /\ \A d \in Conns : ConnOK(d)
      /\ actor.say # <<>> /\ actor' = [actor EXCEPT !.say = Tail(actor.say)]
      /\ UNCHANGED <<replay, requests, ran, lease, client, breaks>>
  BY DEF StreamInv, Send, Ready
<1>2. c \in Conns /\ c # Nobody /\ actor.say \in Seq(Message)
  BY <1>1 DEF Types, ActorOK
<1>3. m \in Message /\ Tail(actor.say) \in Seq(Message)
  BY <1>1, <1>2, HeadTailProperties
<1>4. /\ actor' \in [out : Conns \cup {Nobody}, lease : Conns \cup {Nobody}, say : Seq(Message)]
      /\ actor'.out = c /\ actor'.lease = actor.lease /\ actor'.say = Tail(actor.say)
  BY <1>1, <1>3 DEF Types
<1>5. /\ Followed' = Followed /\ Known' = Known /\ Followed \in Conns /\ client.conn \in Conns
      /\ client.at = "opening" => Followed = client.trying
      /\ client.at # "opening" => Followed = client.conn
  BY <1>1, FollowedLemma DEF Followed, Known, Types, Clients
<1>6. CASE conns[c].up /\ conns' = [conns EXCEPT ![c].queue = Append(Q, m)]
  <2>1. conns[c] \in Connection /\ Q \in Seq(Message)
    BY <1>1, <1>2 DEF Types, Connection
  <2>2. Append(Q, m) \in Seq(Message) /\ Append(Q, m) # <<>>
        /\ Head(Append(Q, m)) = IF Q = <<>> THEN m ELSE Head(Q)
    BY <1>3, <2>1, HeadTailAppend, AppendProperties
  <2> HIDE DEF Q, m
  <2>3. /\ conns' \in [Conns -> Connection]
        /\ conns'[c].queue = Append(Q, m) /\ conns'[c].up = conns[c].up
        /\ conns'[c].at = conns[c].at /\ conns'[c].input = conns[c].input
        /\ \A d \in Conns \ {c} : conns'[d] = conns[d]
    BY <1>1, <1>2, <1>6, <2>1, <2>2 DEF Types, Connection
  <2>4. c = Followed /\ client.at # "away" /\ Attached
    BY <1>1, <1>2, <1>6 DEF ConnOK, Attached
  <2>5. Types'
    BY <1>1, <1>4, <2>3 DEF Types
  <2>6. ASSUME NEW d \in Conns PROVE ConnOK(d)'
    <3>1. CASE d = c
      BY <1>1, <1>2, <1>4, <2>3, <3>1 DEF ConnOK, Followed
    <3>2. CASE d # c
      BY <1>1, <1>4, <2>3, <3>2, ConnSame
    <3> QED
      BY <3>1, <3>2
  <2>7. ActorOK'
    BY <1>1, <1>2, <1>4, <2>3 DEF ActorOK
  <2>8. ClientOK'
    BY <1>1, <1>2, <1>5, <2>2, <2>3, <2>4 DEF ClientOK, Q, m
  <2>9. StreamOK'
    <3>1. Coming = actor.say
      BY <2>4 DEF Coming
    <3>2. Flow(replay.seq, Known, client.pending, Q, actor.say, Attached)
      BY <1>1, <2>4, <3>1 DEF StreamOK, Q
    <3>3. Flow(replay.seq, Known, client.pending, Append(Q, m), Tail(actor.say), Attached)
      BY <1>1, <1>2, <2>1, <3>2, FlowSends DEF m
    <3>4. Attached' /\ Coming' = Tail(actor.say)
      BY <1>4, <1>5, <1>6, <2>3, <2>4 DEF Attached, Coming
    <3> QED
      BY <1>1, <1>5, <2>3, <2>4, <3>3, <3>4 DEF StreamOK, Flow
  <2> QED
    BY <2>5, <2>6, <2>7, <2>8, <2>9 DEF StreamInv
<1>7. CASE ~conns[c].up /\ UNCHANGED conns
  <2>1. Types'
    BY <1>1, <1>4, <1>7 DEF Types
  <2>2. \A d \in Conns : ConnOK(d)'
    BY <1>1, <1>4, <1>7, ConnSame
  <2>3. ActorOK'
    BY <1>1, <1>2, <1>4, <1>7 DEF ActorOK
  <2>4. ~Attached'
    BY <1>2, <1>4, <1>5, <1>7 DEF Attached
  <2>5. ClientOK'
    BY <1>1, <1>7, <2>4 DEF ClientOK
  <2>6. StreamOK'
    BY <1>1, <1>5, <1>7, <2>4, StreamLoses
  <2> QED
    BY <2>1, <2>2, <2>3, <2>5, <2>6 DEF StreamInv
<1> QED
  BY <1>6, <1>7 DEF Send

LEMMA ClosedLemma ==
  ASSUME Types, NEW c \in Conns, NEW now, now = Closed(c)
  PROVE  /\ now \in [Conns -> Connection]
         /\ now[c].up = FALSE /\ now[c].at = conns[c].at
         /\ now[c].queue = conns[c].queue /\ now[c].input = conns[c].input
         /\ \A d \in Conns \ {c} : now[d] = conns[d]
BY DEF Types, Connection, Closed

LEMMA OverflowStep == StreamInv /\ Overflow => StreamInv'
<1> SUFFICES ASSUME StreamInv, Overflow PROVE StreamInv'
  OBVIOUS
<1> DEFINE c == actor.out
<1>1. /\ Types /\ ActorOK /\ ClientOK /\ StreamOK /\ \A d \in Conns : ConnOK(d)
      /\ actor.say # <<>> /\ actor' = [actor EXCEPT !.say = <<>>, !.out = Nobody]
      /\ conns' = Closed(c) /\ lease' = Detached(actor.lease)
      /\ UNCHANGED <<replay, requests, ran, client, breaks>>
  BY DEF StreamInv, Overflow, Ready
<1>2. c \in Conns
  BY <1>1 DEF Types, ActorOK
<1>3. /\ conns' \in [Conns -> Connection]
      /\ conns'[c].up = FALSE /\ conns'[c].at = conns[c].at
      /\ conns'[c].queue = conns[c].queue /\ conns'[c].input = conns[c].input
      /\ \A d \in Conns \ {c} : conns'[d] = conns[d]
  BY <1>1, <1>2, ClosedLemma
<1>4. /\ actor' \in [out : Conns \cup {Nobody}, lease : Conns \cup {Nobody}, say : Seq(Message)]
      /\ actor'.out = Nobody /\ actor'.say = <<>>
      /\ lease' \in Conns \cup {Nobody}
  <2>1. <<>> \in Seq(Message)
    OBVIOUS
  <2> QED
    BY <1>1, <2>1 DEF Types, Detached
<1>5. Types'
  BY <1>1, <1>3, <1>4 DEF Types
<1>6. /\ Followed' = Followed /\ Known' = Known /\ Followed \in Conns /\ client.conn \in Conns
      /\ Followed # Nobody /\ (client.at = "opening" => client.trying \in Conns)
  BY <1>1, FollowedLemma DEF Followed, Known, Types, Clients, ClientOK
<1>7. ASSUME NEW d \in Conns PROVE ConnOK(d)'
  <2>1. CASE d = c
    BY <1>1, <1>2, <1>3, <1>4, <2>1 DEF ConnOK, Followed
  <2>2. CASE d # c
    BY <1>1, <1>3, <1>4, <2>2, ConnSame, StreamAssumption
  <2> QED
    BY <2>1, <2>2
<1>8. ActorOK'
  BY <1>4 DEF ActorOK
<1>9. ~Attached'
  BY <1>4, <1>6 DEF Attached
<1>10. \A d \in Conns : conns'[d].queue = conns[d].queue
  BY <1>3
<1>11. ClientOK'
  BY <1>1, <1>6, <1>9, <1>10 DEF ClientOK
<1>12. StreamOK'
  BY <1>1, <1>6, <1>9, <1>10, StreamLoses
<1> QED
  BY <1>5, <1>7, <1>8, <1>11, <1>12 DEF StreamInv

-----------------------------------------------------------------------------
(* The client's steps.                                                     *)

\* What the client makes of a message is a step of Delivery.
Progress(now) ==
  \/ now.seq = client.seq /\ now.missed = client.missed
  \/ /\ now.seq \in (client.seq + 1)..replay.seq
     /\ (client.seq + 1)..(now.seq - 1) \subseteq client.missed
     /\ now.missed = client.missed
  \/ /\ client.missed \subseteq now.missed
     /\ now.missed \subseteq client.missed \cup ((client.seq + 1)..replay.seq)
     /\ \/ now.seq = client.seq
        \/ /\ now.seq \in (client.seq + 1)..replay.seq
           /\ (client.seq + 1)..now.seq \subseteq now.missed

LEMMA SeenLemma ==
  ASSUME Types, NEW msg \in Message, NEW now, now = Seen(msg),
         Fits(replay.seq, Known, msg), Known \subseteq 1..replay.seq
  PROVE  /\ now \in Clients /\ now.at \in {client.at, "done", "told"}
         /\ now.conn = client.conn /\ now.trying = client.trying /\ now.pending = client.pending
         /\ (1..now.seq) \cup now.missed = Known \cup Cov(msg)
         /\ Progress(now)
<1> DEFINE top == replay.seq
           s == client.seq
           Same(c) == /\ c \in Clients /\ c.at \in {client.at, "done", "told"}
                      /\ c.conn = client.conn /\ c.trying = client.trying
                      /\ c.pending = client.pending
<1>1. top \in Nat /\ s \in Nat /\ client \in Clients /\ client.missed \in SUBSET Nat /\ s <= top
  <2>1. top \in Nat /\ s \in Nat /\ client \in Clients /\ client.missed \in SUBSET Nat
    BY StreamAssumption DEF Types, Clients
  <2>2. s # 0 => s \in Known
    BY <2>1 DEF Known
  <2> QED
    BY <2>1, <2>2
<1>2. msg.n \in Nat
  BY DEF Message
<1>3. ASSUME NEW c, Same(c), NEW goes_on \in BOOLEAN
      PROVE  /\ Same(Told(c, goes_on))
             /\ Told(c, goes_on).seq = c.seq /\ Told(c, goes_on).missed = c.missed
  BY <1>3 DEF Told, Clients, ClientPlaces
<1>4. CASE msg.is = "event"
  <2>1. msg.n \in 1..top /\ 1..(msg.n - 1) \subseteq Known /\ Cov(msg) = {msg.n}
    BY <1>4 DEF Fits, Cov
  <2>2. CASE msg.n > s
    <3>1. now = [client EXCEPT !.seq = msg.n,
                               !.at = IF msg.n = LastEvent THEN "done" ELSE client.at]
      BY <1>4, <2>2 DEF Seen
    <3>2. Same(now) /\ now.seq = msg.n /\ now.missed = client.missed
      BY <1>1, <1>2, <3>1 DEF Clients, ClientPlaces
    <3>3. (1..msg.n) \cup client.missed = Known \cup {msg.n}
      <4>1. 1..msg.n = 1..(msg.n - 1) \cup {msg.n} /\ 1..s \subseteq 1..msg.n
        BY <1>1, <2>1, <2>2
      <4> QED
        BY <2>1, <4>1 DEF Known
    <3>4. (s + 1)..(msg.n - 1) \subseteq client.missed
      <4> SUFFICES ASSUME NEW k \in (s + 1)..(msg.n - 1) PROVE k \in client.missed
        OBVIOUS
      <4>1. k \in 1..(msg.n - 1) /\ k \notin 1..s
        BY <1>1, <1>2
      <4> QED
        BY <2>1, <4>1 DEF Known
    <3>5. msg.n \in (s + 1)..top
      BY <1>1, <2>1, <2>2
    <3>6. Progress(now)
      BY <3>2, <3>4, <3>5 DEF Progress
    <3> QED
      BY <2>1, <3>2, <3>3, <3>6
  <2>3. CASE msg.n <= s
    <3>1. now = client /\ msg.n \in 1..s
      BY <1>1, <1>2, <1>4, <2>1, <2>3 DEF Seen
    <3> QED
      BY <1>1, <2>1, <3>1 DEF Progress, Known
  <2> QED
    BY <1>1, <1>2, <2>2, <2>3
<1>5. CASE msg.is = "oversized"
  <2> DEFINE new == {msg.n} \ 1..s
             to == [client EXCEPT !.missed = @ \cup new]
  <2>1. msg.n \in 1..top /\ Cov(msg) = {msg.n}
    BY <1>5 DEF Fits, Cov
  <2>2. Same(to) /\ to.seq = s /\ to.missed = client.missed \cup new
    BY <1>1, <1>2 DEF Clients
  <2>3. now = [to EXCEPT !.at = "told"]
    BY <1>5 DEF Seen, Told
  <2> HIDE DEF to
  <2>4. Same(now) /\ now.seq = s /\ now.missed = client.missed \cup new
    BY <2>2, <2>3 DEF Clients, ClientPlaces
  <2>5. new \subseteq (s + 1)..top
    BY <1>1, <2>1
  <2>6. Progress(now)
    BY <2>4, <2>5 DEF Progress
  <2>7. (1..now.seq) \cup now.missed = Known \cup Cov(msg)
    BY <2>1, <2>4 DEF Known
  <2> QED
    BY <2>4, <2>6, <2>7
<1>6. CASE msg.is = "gap"
  <2> DEFINE new == (s + 1)..msg.n
             to == [client EXCEPT !.seq = msg.n, !.missed = @ \cup new]
  <2>1. msg.n \in 0..top /\ Known \subseteq 1..msg.n /\ Cov(msg) = 1..msg.n
    BY <1>6 DEF Fits, Cov
  <2>2. new \subseteq Nat /\ s <= msg.n
    <3>1. s # 0 => s \in 1..msg.n
      BY <1>1, <2>1 DEF Known
    <3> QED
      BY <1>1, <1>2, <3>1
  <2>3. Same(to) /\ to.seq = msg.n /\ to.missed = client.missed \cup new
    BY <1>1, <1>2, <2>2 DEF Clients
  <2>4. now = Told(to, client.round)
    BY <1>6 DEF Seen
  <2> HIDE DEF to
  <2>5. Same(now) /\ now.seq = msg.n /\ now.missed = client.missed \cup new
    BY <1>1, <1>3, <2>3, <2>4 DEF Clients
  <2>6. (1..now.seq) \cup now.missed = Known \cup Cov(msg)
    <3>1. new \subseteq 1..msg.n /\ client.missed \subseteq 1..msg.n
      BY <1>1, <2>1 DEF Known
    <3> QED
      BY <2>1, <2>5, <3>1
  <2>7. Progress(now)
    <3>1. new \subseteq (s + 1)..top
      BY <1>1, <2>1
    <3>2. msg.n = s \/ msg.n \in (s + 1)..top
      BY <1>1, <2>1, <2>2
    <3> QED
      BY <2>5, <3>1, <3>2 DEF Progress
  <2> QED
    BY <2>5, <2>6, <2>7
<1>7. CASE msg.is \notin {"event", "oversized", "gap"}
  <2>1. now = client /\ Cov(msg) = {}
    BY <1>7 DEF Seen, Cov
  <2> QED
    BY <1>1, <2>1 DEF Progress, Known
<1> QED
  BY <1>4, <1>5, <1>6, <1>7

\* A step of a client that has a connection.
LEMMA ConnHad ==
  ASSUME NEW d \in Conns, ConnOK(d), client.at \in {"following", "asking"},
         client'.at \notin {"away", "opening"}, client'.conn = client.conn, UNCHANGED actor,
         conns'[d].up = conns[d].up, conns'[d].input = conns[d].input,
         \/ conns'[d].queue = conns[d].queue
         \/ (conns'[d].queue = Tail(conns[d].queue) /\ conns[d].queue # <<>>)
  PROVE  ConnOK(d)'
BY DEF ConnOK, Followed

LEMMA HadLemma ==
  ASSUME Types, ClientOK, client.at \in {"following", "asking"},
         client' \in Clients, client'.at \in {"following", "asking", "done", "told"},
         client'.conn = client.conn, client'.trying = client.trying
  PROVE  ClientOK' /\ Followed = client.conn /\ Followed' = client.conn /\ client.conn \in Conns
BY DEF ClientOK, Followed, Types, Clients

LEMMA NextPendingStep == StreamInv /\ NextPending => StreamInv' /\ Progress(client')
<1> SUFFICES ASSUME StreamInv, NextPending PROVE StreamInv' /\ Progress(client')
  OBVIOUS
<1> DEFINE P == client.pending
           m == Head(P)
           now == Seen(m)
<1>1. /\ Types /\ ActorOK /\ ClientOK /\ StreamOK /\ \A d \in Conns : ConnOK(d)
      /\ client.at = "following" /\ P # <<>> /\ P \in Seq(Message) /\ replay.seq \in Nat
      /\ client' = [now EXCEPT !.pending = Tail(P)]
      /\ UNCHANGED <<replay, requests, ran, actor, lease, conns, breaks>>
  <2>1. client' = [now EXCEPT !.pending = Tail(now.pending)]
    BY DEF NextPending
  <2>2. now.pending = P
    BY DEF StreamInv, Types, Clients, Seen, Told
  <2>3. client.pending \in Seq(Message) /\ replay.seq \in Nat
    BY StreamAssumption DEF StreamInv, Types, Clients
  <2> QED
    BY <2>1, <2>2, <2>3 DEF StreamInv, NextPending
<1>2. /\ Flow(replay.seq, Known \cup Cov(m), Tail(P), conns[Followed].queue, Coming, Attached)
      /\ Fits(replay.seq, Known, m) /\ Known \subseteq 1..replay.seq
      /\ m \in Message /\ Tail(P) \in Seq(Message)
  <2>1. Flow(replay.seq, Known, P, conns[Followed].queue, Coming, Attached)
    BY <1>1 DEF StreamOK
  <2>2. m \in Message /\ Tail(P) \in Seq(Message)
    BY <1>1, HeadTailProperties
  <2> HIDE DEF P
  <2>3. Known \subseteq 1..replay.seq
    BY <2>1 DEF Flow
  <2>4. /\ Flow(replay.seq, Known \cup Cov(Head(P)), Tail(P), conns[Followed].queue, Coming, Attached)
        /\ Fits(replay.seq, Known, Head(P))
    BY <1>1, <2>1, FlowShows
  <2> QED
    BY <2>2, <2>3, <2>4
<1> HIDE DEF m
<1>3. /\ now \in Clients /\ now.at \in {client.at, "done", "told"}
      /\ now.conn = client.conn /\ now.trying = client.trying
      /\ (1..now.seq) \cup now.missed = Known \cup Cov(m)
      /\ Progress(now)
  BY <1>1, <1>2, SeenLemma
<1> HIDE DEF now
<1>4. /\ client' \in Clients /\ client'.at \in {"following", "done", "told"} /\ client'.pending = Tail(P)
      /\ client'.conn = client.conn /\ client'.trying = client.trying
      /\ client'.seq = now.seq /\ client'.missed = now.missed
  BY <1>1, <1>2, <1>3 DEF Clients
<1>5. Types'
  BY <1>1, <1>4 DEF Types
<1>6. ASSUME NEW d \in Conns PROVE ConnOK(d)'
  <2>1. client'.at \notin {"away", "opening"}
    BY <1>4
  <2> QED
    BY <1>1, <1>4, <2>1, ConnHad
<1>7. ActorOK'
  BY <1>1 DEF ActorOK
<1>8. ClientOK' /\ Followed = client.conn /\ Followed' = client.conn
  BY <1>1, <1>4, HadLemma
<1>9. StreamOK'
  <2>1. Attached' = Attached /\ Coming' = Coming /\ Known' = Known \cup Cov(m)
    BY <1>1, <1>3, <1>4, <1>8 DEF Attached, Coming, Known
  <2> QED
    BY <1>1, <1>2, <1>4, <1>8, <2>1 DEF StreamOK
<1>10. Progress(client')
  BY <1>3, <1>4 DEF Progress
<1> QED
  BY <1>5, <1>6, <1>7, <1>8, <1>9, <1>10 DEF StreamInv

\* What Receives makes of the connections.
LEMMA ReceivesLemma ==
  ASSUME Types, Receives
  PROVE  /\ client.conn \in Conns /\ Arrived \in Seq(Message) /\ Arrived # <<>>
         /\ Head(Arrived) \in Message /\ Tail(Arrived) \in Seq(Message)
         /\ conns' \in [Conns -> Connection]
         /\ conns'[client.conn].queue = Tail(Arrived)
         /\ \A d \in Conns : conns'[d].up = conns[d].up /\ conns'[d].at = conns[d].at
                             /\ conns'[d].input = conns[d].input
         /\ \A d \in Conns \ {client.conn} : conns'[d] = conns[d]
<1> DEFINE c == client.conn
<1>1. c \in Conns /\ conns[c] \in Connection /\ Arrived \in Seq(Message) /\ Arrived # <<>>
  BY DEF Types, Clients, Connection, Receives, Arrived
<1>2. Head(Arrived) \in Message /\ Tail(Arrived) \in Seq(Message)
  BY <1>1, HeadTailProperties
<1>3. conns' = [conns EXCEPT ![c].queue = Tail(Arrived)]
  BY DEF Receives, Arrived
<1> HIDE DEF c
<1> QED
  BY <1>1, <1>2, <1>3 DEF Types, Connection, c

LEMMA NextReceivedStep == StreamInv /\ NextReceived => StreamInv' /\ Progress(client')
<1> SUFFICES ASSUME StreamInv, NextReceived PROVE StreamInv' /\ Progress(client')
  OBVIOUS
<1> DEFINE Q == Arrived
           m == Head(Q)
<1>1. /\ Types /\ ActorOK /\ ClientOK /\ StreamOK /\ \A d \in Conns : ConnOK(d)
      /\ client.at = "following" /\ client.pending = <<>> /\ replay.seq \in Nat
      /\ Receives /\ client' = Seen(m)
      /\ UNCHANGED <<replay, requests, ran, actor, lease, breaks>>
  BY StreamAssumption DEF StreamInv, NextReceived, Types, Receives
<1>2. /\ client.conn \in Conns /\ Q \in Seq(Message) /\ Q # <<>>
      /\ m \in Message /\ Tail(Q) \in Seq(Message)
      /\ conns' \in [Conns -> Connection]
      /\ conns'[client.conn].queue = Tail(Q)
      /\ \A d \in Conns : conns'[d].up = conns[d].up /\ conns'[d].at = conns[d].at
                          /\ conns'[d].input = conns[d].input
      /\ \A d \in Conns \ {client.conn} : conns'[d] = conns[d]
  BY <1>1, ReceivesLemma
<1>3. Followed = client.conn /\ Q = conns[client.conn].queue
  BY <1>1 DEF Followed, Arrived
<1> HIDE DEF Q
<1>4. /\ Flow(replay.seq, Known \cup Cov(m), <<>>, Tail(Q), Coming, Attached)
      /\ Fits(replay.seq, Known, m) /\ Known \subseteq 1..replay.seq
  <2>1. Flow(replay.seq, Known, <<>>, Q, Coming, Attached)
    BY <1>1, <1>3 DEF StreamOK
  <2> QED
    BY <1>1, <1>2, <2>1, FlowShowsNext DEF Flow
<1> HIDE DEF m
<1>5. /\ client' \in Clients /\ client'.at \in {client.at, "done", "told"}
      /\ client'.conn = client.conn /\ client'.trying = client.trying
      /\ client'.pending = <<>>
      /\ (1..client'.seq) \cup client'.missed = Known \cup Cov(m)
      /\ Progress(client')
  BY <1>1, <1>2, <1>4, SeenLemma
<1>6. Types'
  BY <1>1, <1>2, <1>5 DEF Types
<1>7. ASSUME NEW d \in Conns PROVE ConnOK(d)'
  <2>1. \/ conns'[d].queue = conns[d].queue
        \/ (conns'[d].queue = Tail(conns[d].queue) /\ conns[d].queue # <<>>)
    <3>1. CASE d = client.conn
      BY <1>2, <1>3, <3>1
    <3>2. CASE d # client.conn
      BY <1>2, <3>2
    <3> QED
      BY <3>1, <3>2
  <2>2. conns'[d].up = conns[d].up /\ conns'[d].input = conns[d].input
    BY <1>2
  <2>3. client'.at \notin {"away", "opening"}
    BY <1>1, <1>5
  <2> QED
    BY <1>1, <1>5, <2>1, <2>2, <2>3, ConnHad
<1>8. ActorOK'
  BY <1>1, <1>2 DEF ActorOK, Types
<1>9. ClientOK' /\ Followed' = client.conn
  BY <1>1, <1>5, HadLemma
<1>10. StreamOK'
  <2>1. Attached' = Attached /\ Coming' = Coming /\ Known' = Known \cup Cov(m)
    BY <1>1, <1>2, <1>3, <1>5, <1>9 DEF Attached, Coming, Known
  <2> QED
    BY <1>1, <1>2, <1>4, <1>5, <1>9, <2>1 DEF StreamOK
<1> QED
  BY <1>5, <1>6, <1>7, <1>8, <1>9, <1>10 DEF StreamInv

LEMMA AwaitAnswerStep == StreamInv /\ AwaitAnswer => StreamInv'
<1> SUFFICES ASSUME StreamInv, AwaitAnswer PROVE StreamInv'
  OBVIOUS
<1> DEFINE Q == Arrived
           m == Head(Q)
           P == client.pending
<1>1. /\ Types /\ ActorOK /\ ClientOK /\ StreamOK /\ \A d \in Conns : ConnOK(d)
      /\ client.at = "asking" /\ P \in Seq(Message)
      /\ Receives
      /\ \/ m.is = "answer" /\ client' = [client EXCEPT !.at = "following", !.asked = Nobody]
         \/ client' = [client EXCEPT !.pending = Append(P, m)]
      /\ UNCHANGED <<replay, requests, ran, actor, lease, breaks>>
  BY DEF StreamInv, AwaitAnswer, Types, Receives, Clients
<1>2. /\ client.conn \in Conns /\ Q \in Seq(Message) /\ Q # <<>>
      /\ m \in Message /\ Tail(Q) \in Seq(Message)
      /\ conns' \in [Conns -> Connection]
      /\ conns'[client.conn].queue = Tail(Q)
      /\ \A d \in Conns : conns'[d].up = conns[d].up /\ conns'[d].at = conns[d].at
                          /\ conns'[d].input = conns[d].input
      /\ \A d \in Conns \ {client.conn} : conns'[d] = conns[d]
  BY <1>1, ReceivesLemma
<1>3. Followed = client.conn /\ Q = conns[client.conn].queue
  BY <1>1 DEF Followed, Arrived
<1> HIDE DEF Q
<1>4. Append(P, m) \in Seq(Message)
  BY <1>1, <1>2, AppendProperties
<1>5. /\ client' \in Clients /\ client'.at \in {"following", "asking"}
      /\ client'.conn = client.conn /\ client'.trying = client.trying
      /\ client'.seq = client.seq /\ client'.missed = client.missed
      /\ (m.is = "answer" /\ client'.pending = P) \/ client'.pending = Append(P, m)
  BY <1>1, <1>4 DEF Types, Clients, ClientPlaces
<1>6. Types'
  BY <1>1, <1>2, <1>5 DEF Types
<1>7. ASSUME NEW d \in Conns PROVE ConnOK(d)'
  <2>1. \/ conns'[d].queue = conns[d].queue
        \/ (conns'[d].queue = Tail(conns[d].queue) /\ conns[d].queue # <<>>)
    <3>1. CASE d = client.conn
      BY <1>2, <1>3, <3>1
    <3>2. CASE d # client.conn
      BY <1>2, <3>2
    <3> QED
      BY <3>1, <3>2
  <2>2. conns'[d].up = conns[d].up /\ conns'[d].input = conns[d].input
    BY <1>2
  <2>3. client'.at \notin {"away", "opening"}
    BY <1>5
  <2> QED
    BY <1>1, <1>5, <2>1, <2>2, <2>3, ConnHad
<1>8. ActorOK'
  BY <1>1, <1>2 DEF ActorOK, Types
<1>9. ClientOK' /\ Followed' = client.conn
  BY <1>1, <1>5, HadLemma
<1>10. StreamOK'
  <2>1. Attached' = Attached /\ Coming' = Coming /\ Known' = Known
    BY <1>1, <1>2, <1>3, <1>5, <1>9 DEF Attached, Coming, Known
  <2>2. Flow(replay.seq, Known, P, Q, Coming, Attached)
    BY <1>1, <1>3 DEF StreamOK
  <2>3. Flow(replay.seq, Known, client'.pending, Tail(Q), Coming, Attached)
    <3>1. CASE m.is = "answer" /\ client'.pending = P
      <4>1. Neutral(m)
        BY <3>1 DEF Neutral
      <4> QED
        BY <1>1, <1>2, <2>2, <3>1, <4>1, FlowSkips
    <3>2. CASE client'.pending = Append(P, m)
      BY <1>1, <1>2, <2>2, <3>2, FlowAside
    <3> QED
      BY <1>5, <3>1, <3>2
  <2> QED
    BY <1>1, <1>2, <1>5, <1>9, <2>1, <2>3 DEF StreamOK
<1> QED
  BY <1>6, <1>7, <1>8, <1>9, <1>10 DEF StreamInv

LEMMA SendRequestStep == ASSUME NEW r \in Requests PROVE StreamInv /\ SendRequest(r) => StreamInv'
<1> SUFFICES ASSUME StreamInv, SendRequest(r) PROVE StreamInv'
  OBVIOUS
<1> DEFINE c == client.conn
           I == conns[c].input
<1>1. /\ Types /\ ActorOK /\ ClientOK /\ StreamOK /\ \A d \in Conns : ConnOK(d)
      /\ client.at = "following"
      /\ client' = [client EXCEPT !.at = "asking", !.asked = r, !.asks = @ + 1]
      /\ UNCHANGED <<replay, requests, ran, actor, lease, breaks>>
  BY DEF StreamInv, SendRequest
<1>2. /\ client' \in Clients /\ client'.at = "asking" /\ client'.conn = client.conn
      /\ client'.trying = client.trying /\ client'.seq = client.seq
      /\ client'.missed = client.missed /\ client'.pending = client.pending
  <2>1. client \in Clients /\ client.asks + 1 \in Nat
    BY <1>1 DEF Types, Clients
  <2>2. PICK asks \in Nat : asks = client.asks + 1
    BY <2>1
  <2>3. client' = [client EXCEPT !.at = "asking", !.asked = r, !.asks = asks]
    BY <1>1, <2>2
  <2> QED
    BY <2>1, <2>3 DEF Clients, ClientPlaces
<1>3. c \in Conns /\ conns[c] \in Connection /\ I \in Seq(Attachments \cup Questions)
  BY <1>1 DEF Types, Clients, Connection
<1>4. Ask(r) \in Attachments \cup Questions /\ Ask(r).cmd = "request"
  BY DEF Ask, Questions
<1>5. /\ conns' \in [Conns -> Connection]
      /\ \A d \in Conns : conns'[d].up = conns[d].up /\ conns'[d].at = conns[d].at
                          /\ conns'[d].queue = conns[d].queue
      /\ \A d \in Conns : \A i \in 1..Len(conns'[d].input) :
           conns'[d].input[i].cmd = "attach" =>
             i \in 1..Len(conns[d].input) /\ conns'[d].input[i] = conns[d].input[i]
  <2>1. CASE conns[c].up
    <3>1. conns' = [conns EXCEPT ![c].input = Append(I, Ask(r))]
      BY <2>1 DEF SendRequest
    <3>2. /\ Append(I, Ask(r)) \in Seq(Attachments \cup Questions)
          /\ Len(I) \in Nat /\ Len(Append(I, Ask(r))) = Len(I) + 1
          /\ \A i \in 1..Len(I) : Append(I, Ask(r))[i] = I[i]
          /\ Append(I, Ask(r))[Len(I) + 1] = Ask(r)
      BY <1>3, <1>4, AppendProperties
    <3> HIDE DEF I
    <3>3. /\ conns' \in [Conns -> Connection]
          /\ \A d \in Conns : conns'[d].up = conns[d].up /\ conns'[d].at = conns[d].at
                              /\ conns'[d].queue = conns[d].queue
          /\ \A d \in Conns \ {c} : conns'[d] = conns[d]
          /\ conns'[c].input = Append(I, Ask(r))
      BY <1>1, <1>3, <3>1, <3>2 DEF Types, Connection
    <3>4. ASSUME NEW i \in 1..Len(Append(I, Ask(r))), Append(I, Ask(r))[i].cmd = "attach"
          PROVE  i \in 1..Len(I) /\ Append(I, Ask(r))[i] = I[i]
      <4>1. i # Len(I) + 1
        BY <1>4, <3>2, <3>4
      <4> QED
        BY <3>2, <4>1
    <3> QED
      BY <3>3, <3>4 DEF I
  <2>2. CASE ~conns[c].up
    BY <1>1, <2>2 DEF SendRequest, Types
  <2> QED
    BY <2>1, <2>2
<1>6. Types'
  BY <1>1, <1>2, <1>5 DEF Types
<1>7. Followed = c /\ Followed' = c /\ Known' = Known /\ ClientOK'
  BY <1>1, <1>2, HadLemma DEF Known
<1>8. ASSUME NEW d \in Conns PROVE ConnOK(d)'
  <2>1. conns'[d].up => d = Followed' /\ client'.at # "away"
    BY <1>1, <1>2, <1>5, <1>7 DEF ConnOK
  <2>2. ASSUME NEW i \in 1..Len(conns'[d].input), conns'[d].input[i].cmd = "attach"
        PROVE  i = 1 /\ conns'[d].queue = <<>> /\ actor'.out # d /\ ~conns'[d].up
    <3>1. i \in 1..Len(conns[d].input) /\ conns'[d].input[i] = conns[d].input[i]
      BY <1>5, <2>2
    <3> QED
      BY <1>1, <1>5, <2>2, <3>1 DEF ConnOK
  <2> QED
    BY <2>1, <2>2 DEF ConnOK
<1>9. ActorOK'
  BY <1>1, <1>5 DEF ActorOK, Types
<1>10. StreamOK'
  BY <1>1, <1>2, <1>3, <1>5, <1>7, StreamLoses DEF Attached
<1> QED
  BY <1>6, <1>7, <1>8, <1>9, <1>10 DEF StreamInv

LEMMA LostStep == StreamInv /\ Lost => StreamInv'
<1> SUFFICES ASSUME StreamInv, Lost PROVE StreamInv'
  OBVIOUS
<1> DEFINE c == client.conn
<1>1. /\ Types /\ ActorOK /\ ClientOK /\ StreamOK /\ \A d \in Conns : ConnOK(d)
      /\ client.at \in {"following", "asking"} /\ ~conns[c].up
      /\ client' = [client EXCEPT !.at = "away", !.tries = Tries]
      /\ conns' = [conns EXCEPT ![c].queue = <<>>]
      /\ UNCHANGED <<replay, requests, ran, actor, lease, breaks>>
  BY DEF StreamInv, Lost
<1>2. /\ client' \in Clients /\ client'.at = "away" /\ client'.conn = client.conn
      /\ client'.trying = client.trying /\ client'.seq = client.seq
      /\ client'.missed = client.missed /\ client'.pending = client.pending
  BY <1>1, StreamAssumption DEF Types, Clients, ClientPlaces
<1>3. /\ c \in Conns /\ conns' \in [Conns -> Connection] /\ conns'[c].queue = <<>>
      /\ \A d \in Conns : conns'[d].up = conns[d].up /\ conns'[d].at = conns[d].at
                          /\ conns'[d].input = conns[d].input
                          /\ conns'[d].queue \in {conns[d].queue, <<>>}
  <2>1. PICK none \in Seq(Message) : none = <<>>
    BY <<>> \in Seq(Message)
  <2>2. c \in Conns /\ conns \in [Conns -> Connection]
    BY <1>1 DEF Types, Clients
  <2>3. conns' = [conns EXCEPT ![c].queue = none]
    BY <1>1, <2>1
  <2> HIDE DEF c
  <2>4. /\ conns' \in [Conns -> Connection] /\ conns'[c].queue = none
        /\ \A d \in Conns : conns'[d].up = conns[d].up /\ conns'[d].at = conns[d].at
                            /\ conns'[d].input = conns[d].input
        /\ \A d \in Conns \ {c} : conns'[d].queue = conns[d].queue
    BY <2>2, <2>3 DEF Connection
  <2> QED
    BY <2>1, <2>2, <2>4
<1>4. Types'
  BY <1>1, <1>2, <1>3 DEF Types
<1>5. Followed = c /\ Followed' = c /\ Known' = Known
  BY <1>1, <1>2 DEF Followed, Known
<1>6. \A d \in Conns : ~conns[d].up
  BY <1>1, <1>5 DEF ConnOK
<1>7. ASSUME NEW d \in Conns PROVE ConnOK(d)'
  BY <1>1, <1>3, <1>6 DEF ConnOK
<1>8. ActorOK'
  BY <1>1, <1>3 DEF ActorOK, Types
<1>9. ClientOK'
  BY <1>1, <1>2, <1>3 DEF ClientOK
<1>10. StreamOK'
  BY <1>1, <1>2, <1>3, <1>5, <1>6, StreamLoses DEF Attached
<1> QED
  BY <1>4, <1>7, <1>8, <1>9, <1>10 DEF StreamInv

LEMMA ReopenStep == ASSUME NEW c \in Conns PROVE StreamInv /\ Reopen(c) => StreamInv'
<1> SUFFICES ASSUME StreamInv, Reopen(c) PROVE StreamInv'
  OBVIOUS
<1> DEFINE attach == AttachAfter(client.seq)
           new == [at |-> "opening", up |-> TRUE, queue |-> <<>>, input |-> <<attach>>]
<1>1. /\ Types /\ ActorOK /\ ClientOK /\ StreamOK /\ \A d \in Conns : ConnOK(d)
      /\ client.at = "away" /\ client.tries > 0 /\ conns[c] = Free
      /\ conns' = [conns EXCEPT ![c] = new]
      /\ client' = [client EXCEPT !.at = "opening", !.tries = @ - 1, !.trying = c]
      /\ UNCHANGED <<replay, requests, ran, actor, lease, breaks>>
  BY DEF StreamInv, Reopen
<1>2. /\ client' \in Clients /\ client'.at = "opening" /\ client'.conn = client.conn
      /\ client'.trying = c /\ client'.seq = client.seq /\ client.seq \in Nat
      /\ client'.missed = client.missed /\ client'.pending = client.pending
      /\ client.conn \in Conns
  <2>1. client \in Clients /\ client.tries - 1 \in Nat /\ client.seq \in Nat /\ client.conn \in Conns
    BY <1>1 DEF Types, Clients
  <2>2. PICK tries \in Nat : tries = client.tries - 1
    BY <2>1
  <2>3. client' = [client EXCEPT !.at = "opening", !.tries = tries, !.trying = c]
    BY <1>1, <2>2
  <2> QED
    BY <2>1, <2>3 DEF Clients, ClientPlaces
<1>3. attach \in Attachments \cup Questions /\ attach.after = client.seq
  BY <1>2 DEF AttachAfter, Attachments
<1> HIDE DEF attach
<1>4. /\ new \in Connection /\ new.up /\ new.queue = <<>> /\ Len(new.input) = 1
      /\ new.input[1] = attach
  <2>1. <<>> \in Seq(Message) /\ <<attach>> \in Seq(Attachments \cup Questions)
        /\ Len(<<attach>>) = 1 /\ <<attach>>[1] = attach
    BY <1>3
  <2> QED
    BY <2>1 DEF Connection
<1> HIDE DEF new
<1>5. /\ conns' \in [Conns -> Connection] /\ conns'[c] = new
      /\ \A d \in Conns \ {c} : conns'[d] = conns[d]
  BY <1>1, <1>4 DEF Types
<1>6. actor.out # c
  BY <1>1, FreeLemma, StreamAssumption DEF ActorOK, FreeOK
<1>7. Types'
  BY <1>1, <1>2, <1>5 DEF Types
<1>8. Followed' = c /\ Known' = Known /\ \A d \in Conns : ~conns[d].up
  BY <1>1, <1>2 DEF Followed, Known, ConnOK
<1>9. ASSUME NEW d \in Conns PROVE ConnOK(d)'
  <2>1. CASE d = c
    <3>1. \A i \in 1..Len(new.input) : i = 1 /\ new.input[i].after = client.seq
      BY <1>3, <1>4
    <3> QED
      BY <1>1, <1>2, <1>4, <1>5, <1>6, <1>8, <2>1, <3>1 DEF ConnOK
  <2>2. CASE d # c
    BY <1>1, <1>5, <1>8, <2>2 DEF ConnOK
  <2> QED
    BY <2>1, <2>2
<1>10. ActorOK'
  BY <1>1, <1>5, <1>6 DEF ActorOK, Types
<1>11. ~Attached'
  BY <1>1, <1>6, <1>8 DEF Attached
<1>12. ClientOK'
  BY <1>1, <1>2, <1>4, <1>5, <1>11, StreamAssumption DEF ClientOK
<1>13. StreamOK'
  BY <1>1, <1>2, <1>4, <1>5, <1>8, <1>11, StreamLoses
<1> QED
  BY <1>7, <1>9, <1>10, <1>12, <1>13 DEF StreamInv

LEMMA ResumedStep == StreamInv /\ Resumed => StreamInv'
<1> SUFFICES ASSUME StreamInv, Resumed PROVE StreamInv'
  OBVIOUS
<1> DEFINE c == client.trying
           Q == conns[c].queue
<1>1. PICK round \in BOOLEAN :
        /\ Types /\ ActorOK /\ ClientOK /\ StreamOK /\ \A d \in Conns : ConnOK(d)
        /\ client.at = "opening" /\ Q # <<>>
        /\ client' = [client EXCEPT !.at = "following", !.asked = Nobody, !.tries = 0,
                                    !.conn = c, !.trying = Nobody, !.round = round]
        /\ conns' = [conns EXCEPT ![c].queue = Tail(Q)]
        /\ UNCHANGED <<replay, requests, ran, actor, lease, breaks>>
  BY (Head(Q).n < LastEvent) \in BOOLEAN DEF StreamInv, Resumed
<1>2. c \in Conns /\ conns[c] \in Connection /\ Q \in Seq(Message) /\ Neutral(Head(Q))
  BY <1>1 DEF Types, Clients, ClientOK, Connection
<1>3. Tail(Q) \in Seq(Message)
  BY <1>1, <1>2, HeadTailProperties
<1> HIDE DEF Q
<1>4. /\ client' \in Clients /\ client'.at = "following" /\ client'.conn = c
      /\ client'.trying = Nobody /\ client'.seq = client.seq
      /\ client'.missed = client.missed /\ client'.pending = client.pending
  BY <1>1, <1>2 DEF Types, Clients, ClientPlaces
<1> HIDE DEF c
<1>5. /\ conns' \in [Conns -> Connection] /\ conns'[c].queue = Tail(Q)
      /\ conns'[c].up = conns[c].up
      /\ \A d \in Conns : conns'[d].up = conns[d].up /\ conns'[d].at = conns[d].at
                          /\ conns'[d].input = conns[d].input
      /\ \A d \in Conns \ {c} : conns'[d].queue = conns[d].queue
  BY <1>1, <1>2, <1>3 DEF Types, Connection
<1>6. Types'
  BY <1>1, <1>4, <1>5 DEF Types
<1>7. Followed = c /\ Followed' = c /\ Known' = Known
  BY <1>1, <1>4 DEF Followed, Known, c
<1>8. ASSUME NEW d \in Conns PROVE ConnOK(d)'
  <2>1. conns'[d].up => d = Followed' /\ client'.at # "away"
    BY <1>1, <1>4, <1>5, <1>7 DEF ConnOK
  <2>2. ASSUME NEW i \in 1..Len(conns'[d].input), conns'[d].input[i].cmd = "attach"
        PROVE  i = 1 /\ conns'[d].queue = <<>> /\ actor'.out # d /\ ~conns'[d].up
    <3>1. conns[d].queue = <<>> /\ i = 1 /\ actor.out # d
      BY <1>1, <1>5, <2>2 DEF ConnOK
    <3>2. d # c
      BY <1>1, <3>1 DEF Q
    <3> QED
      BY <1>1, <1>5, <1>7, <3>1, <3>2 DEF ConnOK
  <2> QED
    BY <2>1, <2>2 DEF ConnOK
<1>9. ActorOK'
  BY <1>1, <1>5 DEF ActorOK, Types
<1>10. ClientOK'
  BY <1>4 DEF ClientOK
<1>11. StreamOK'
  <2>1. Flow(replay.seq, Known, client.pending, Q, Coming, Attached)
    BY <1>1, <1>7 DEF StreamOK, Q
  <2>2. Flow(replay.seq, Known, client.pending, Tail(Q), Coming, Attached)
    BY <1>1, <1>2, <2>1, FlowSkips
  <2>3. Attached' = Attached /\ Coming' = Coming
    BY <1>1, <1>5, <1>7 DEF Attached, Coming
  <2> QED
    BY <1>1, <1>4, <1>5, <1>7, <2>2, <2>3 DEF StreamOK
<1> QED
  BY <1>6, <1>8, <1>9, <1>10, <1>11 DEF StreamInv

LEMMA TryFailsStep == StreamInv /\ TryFails => StreamInv'
<1> SUFFICES ASSUME StreamInv, TryFails PROVE StreamInv'
  OBVIOUS
<1> DEFINE c == client.trying
<1>1. /\ Types /\ ActorOK /\ ClientOK /\ StreamOK /\ \A d \in Conns : ConnOK(d)
      /\ client.at = "opening"
      /\ client' = [client EXCEPT !.at = "away", !.trying = Nobody]
      /\ conns' = [Closed(c) EXCEPT ![c].queue = <<>>]
      /\ UNCHANGED <<replay, requests, ran, actor, lease, breaks>>
  BY DEF StreamInv, TryFails
<1>2. c \in Conns /\ client.conn \in Conns
  BY <1>1 DEF Types, Clients, ClientOK
<1>3. /\ client' \in Clients /\ client'.at = "away" /\ client'.conn = client.conn
      /\ client'.trying = Nobody /\ client'.seq = client.seq
      /\ client'.missed = client.missed /\ client'.pending = client.pending
  BY <1>1 DEF Types, Clients, ClientPlaces
<1>4. Followed = c /\ Followed' = client.conn /\ Known' = Known
  BY <1>1, <1>3 DEF Followed, Known
<1> HIDE DEF c
<1>5. /\ conns' \in [Conns -> Connection] /\ ~conns'[c].up /\ conns'[c].queue = <<>>
      /\ conns'[c].at = conns[c].at /\ conns'[c].input = conns[c].input
      /\ \A d \in Conns \ {c} : conns'[d] = conns[d]
  <2>1. PICK now : now = Closed(c)
    OBVIOUS
  <2>2. /\ now \in [Conns -> Connection]
        /\ now[c].up = FALSE /\ now[c].at = conns[c].at /\ now[c].input = conns[c].input
        /\ \A d \in Conns \ {c} : now[d] = conns[d]
    BY <1>1, <1>2, <2>1, ClosedLemma
  <2>3. conns' = [now EXCEPT ![c].queue = <<>>] /\ <<>> \in Seq(Message)
    BY <1>1, <2>1
  <2> QED
    BY <1>2, <2>2, <2>3 DEF Connection
<1>6. Types'
  BY <1>1, <1>3, <1>5 DEF Types
<1>7. \A d \in Conns : ~conns'[d].up
  BY <1>1, <1>4, <1>5 DEF ConnOK
<1>8. ASSUME NEW d \in Conns PROVE ConnOK(d)'
  <2>1. CASE d = c
    BY <1>1, <1>5, <1>7, <2>1 DEF ConnOK
  <2>2. CASE d # c
    BY <1>1, <1>5, <1>7, <2>2 DEF ConnOK
  <2> QED
    BY <2>1, <2>2
<1>9. ActorOK'
  BY <1>1, <1>5 DEF ActorOK, Types
<1>10. conns'[client.conn].queue = <<>>
  BY <1>1, <1>2, <1>5 DEF ClientOK, c
<1>11. ClientOK'
  BY <1>3, <1>10 DEF ClientOK
<1>12. StreamOK'
  BY <1>1, <1>2, <1>3, <1>4, <1>7, <1>10, StreamLoses DEF Attached
<1> QED
  BY <1>6, <1>8, <1>9, <1>11, <1>12 DEF StreamInv

LEMMA GiveUpStep == StreamInv /\ GiveUp => StreamInv'
<1> SUFFICES ASSUME StreamInv, GiveUp PROVE StreamInv'
  OBVIOUS
<1>1. /\ Types /\ ActorOK /\ ClientOK /\ StreamOK /\ \A d \in Conns : ConnOK(d)
      /\ client.at = "away"
      /\ client' = [client EXCEPT !.at = IF client.asked = Nobody THEN "told" ELSE "following",
                                  !.asked = Nobody]
      /\ UNCHANGED <<replay, requests, ran, actor, lease, conns, breaks>>
  BY DEF StreamInv, GiveUp
<1>2. /\ client' \in Clients /\ client'.at \in {"told", "following"}
      /\ client'.conn = client.conn /\ client'.trying = client.trying /\ client'.seq = client.seq
      /\ client'.missed = client.missed /\ client'.pending = client.pending
      /\ client.conn \in Conns
  BY <1>1 DEF Types, Clients, ClientPlaces
<1>3. Types'
  BY <1>1, <1>2 DEF Types
<1>4. Followed = client.conn /\ Followed' = client.conn /\ Known' = Known
  BY <1>1, <1>2 DEF Followed, Known
<1>5. \A d \in Conns : ~conns[d].up
  BY <1>1 DEF ConnOK
<1>6. \A d \in Conns : ConnOK(d)'
  BY <1>1, <1>5 DEF ConnOK
<1>7. ActorOK'
  BY <1>1 DEF ActorOK
<1>8. ClientOK'
  BY <1>1, <1>2 DEF ClientOK
<1>9. StreamOK'
  BY <1>1, <1>2, <1>4, <1>5, StreamLoses DEF Attached
<1> QED
  BY <1>3, <1>6, <1>7, <1>8, <1>9 DEF StreamInv

LEMMA GoOnStep == StreamInv /\ GoOn => StreamInv'
<1> SUFFICES ASSUME StreamInv, GoOn PROVE StreamInv'
  OBVIOUS
<1>0. client.asks + 1 \in Nat
  BY DEF StreamInv, Types, Clients
<1>1. PICK asks \in Nat :
        /\ Types /\ ActorOK /\ ClientOK /\ StreamOK /\ \A d \in Conns : ConnOK(d)
        /\ client.at = "told"
        /\ client' = [client EXCEPT !.at = "following", !.asks = asks]
        /\ UNCHANGED <<replay, requests, ran, actor, lease, conns, breaks>>
  BY <1>0 DEF StreamInv, GoOn
<1>2. /\ client' \in Clients /\ client'.at = "following"
      /\ client'.conn = client.conn /\ client'.trying = client.trying /\ client'.seq = client.seq
      /\ client'.missed = client.missed /\ client'.pending = client.pending
  BY <1>1 DEF Types, Clients, ClientPlaces
<1>3. Types'
  BY <1>1, <1>2 DEF Types
<1>4. Followed = client.conn /\ Followed' = client.conn /\ Known' = Known
  BY <1>1, <1>2 DEF Followed, Known
<1>5. \A d \in Conns : ConnOK(d)'
  BY <1>1, <1>2, <1>4 DEF ConnOK
<1>6. ActorOK'
  BY <1>1 DEF ActorOK
<1>7. ClientOK'
  BY <1>1, <1>2 DEF ClientOK
<1>8. Attached' = Attached /\ Coming' = Coming
  BY <1>1, <1>4 DEF Attached, Coming
<1>9. StreamOK'
  BY <1>1, <1>2, <1>4, <1>8 DEF StreamOK
<1> QED
  BY <1>3, <1>5, <1>6, <1>7, <1>9 DEF StreamInv

-----------------------------------------------------------------------------
(* The service and the network.                                            *)

LEMMA OpenStep == ASSUME NEW c \in Conns PROVE StreamInv /\ Open(c) => StreamInv'
<1> SUFFICES ASSUME StreamInv, Open(c) PROVE StreamInv'
  OBVIOUS
<1>1. /\ Types /\ ActorOK /\ ClientOK /\ StreamOK /\ \A d \in Conns : ConnOK(d)
      /\ conns[c].at = "opening"
      /\ UNCHANGED <<replay, requests, ran, actor, breaks>>
  BY DEF StreamInv, Open
<1>2. client.conn \in Conns /\ (client.at = "opening" => client.trying \in Conns)
      /\ Followed \in Conns
  BY <1>1, FollowedLemma DEF Types, Clients, ClientOK
<1>3. actor.out # c
  BY <1>1, StreamAssumption DEF ActorOK
<1>4. CASE lease' = c /\ conns' = [conns EXCEPT ![c].at = "bound"] /\ UNCHANGED client
  <2>1. /\ conns' \in [Conns -> Connection]
        /\ \A d \in Conns : conns'[d].up = conns[d].up /\ conns'[d].queue = conns[d].queue
                            /\ conns'[d].input = conns[d].input
        /\ \A d \in Conns \ {c} : conns'[d] = conns[d]
    BY <1>1, <1>4 DEF Types, Connection
  <2>2. Types'
    BY <1>1, <1>4, <2>1 DEF Types
  <2>3. /\ Followed' = Followed /\ Known' = Known /\ Attached' = Attached
    BY <1>1, <1>2, <1>4, <2>1 DEF Followed, Known, Attached
  <2>4. \A d \in Conns : ConnOK(d)'
    BY <1>1, <1>4, <2>1, <2>3 DEF ConnOK
  <2>5. ActorOK'
    BY <1>1, <1>3, <2>1 DEF ActorOK, Types
  <2>6. ClientOK'
    BY <1>1, <1>2, <1>4, <2>1, <2>3 DEF ClientOK
  <2>7. StreamOK'
    BY <1>1, <1>2, <1>4, <2>1, <2>3, StreamLoses
  <2> QED
    BY <2>2, <2>4, <2>5, <2>6, <2>7 DEF StreamInv
<1>5. CASE /\ conns' = [conns EXCEPT ![c] = Free] /\ UNCHANGED lease
           /\ client' = IF client.trying = c
                        THEN [client EXCEPT !.at = "away", !.trying = Nobody] ELSE client
  <2>1. FreeOK
    BY FreeLemma
  <2>2. /\ conns' \in [Conns -> Connection] /\ conns'[c] = Free
        /\ \A d \in Conns \ {c} : conns'[d] = conns[d]
        /\ ~conns'[c].up /\ conns'[c].queue = <<>> /\ Len(conns'[c].input) = 0
    BY <1>1, <1>5, <2>1 DEF Types, FreeOK
  <2>3. ActorOK'
    BY <1>1, <1>3, <2>2 DEF ActorOK, Types
  <2>4. ASSUME client.trying = c PROVE StreamInv'
    <3>1. client.at = "opening" /\ Followed = c
      BY <1>1, <2>4, StreamAssumption DEF ClientOK, Followed
    <3>2. /\ client' \in Clients /\ client'.at = "away" /\ client'.conn = client.conn
          /\ client'.trying = Nobody /\ client'.seq = client.seq
          /\ client'.missed = client.missed /\ client'.pending = client.pending
      BY <1>1, <1>5, <2>4 DEF Types, Clients, ClientPlaces
    <3>3. Types'
      BY <1>1, <1>5, <2>2, <3>2 DEF Types
    <3>4. \A d \in Conns : ~conns'[d].up
      BY <1>1, <2>2, <3>1 DEF ConnOK
    <3>5. ASSUME NEW d \in Conns PROVE ConnOK(d)'
      <4>1. CASE d = c
        BY <2>2, <3>4, <4>1 DEF ConnOK
      <4>2. CASE d # c
        BY <1>1, <2>2, <3>4, <4>2 DEF ConnOK
      <4> QED
        BY <4>1, <4>2
    <3>6. conns'[client.conn].queue = <<>>
      BY <1>1, <1>2, <2>2, <2>4, <3>1 DEF ClientOK
    <3>7. ClientOK'
      BY <3>2, <3>6 DEF ClientOK
    <3>8. StreamOK'
      <4>1. Followed' = client.conn /\ Known' = Known
        BY <3>2 DEF Followed, Known
      <4> QED
        BY <1>1, <1>2, <3>2, <3>4, <3>6, <4>1, StreamLoses DEF Attached
    <3> QED
      BY <2>3, <3>3, <3>5, <3>7, <3>8 DEF StreamInv
  <2>5. ASSUME client.trying # c PROVE StreamInv'
    <3>1. UNCHANGED client
      BY <1>5, <2>5
    <3>2. Types'
      BY <1>1, <1>5, <2>2, <3>1 DEF Types
    <3>3. ASSUME NEW d \in Conns PROVE ConnOK(d)'
      <4>1. CASE d = c
        BY <2>2, <4>1 DEF ConnOK
      <4>2. CASE d # c
        BY <1>1, <2>2, <3>1, <4>2, ConnSame
      <4> QED
        BY <4>1, <4>2
    <3>4. Followed' = Followed /\ Known' = Known
      BY <3>1 DEF Followed, Known
    <3>5. Attached' => Attached /\ Followed # c
      BY <1>1, <1>2, <2>2, <3>4 DEF Attached
    <3>6. \A d \in Conns : conns'[d].queue \in {conns[d].queue, <<>>}
                           /\ (d # c => conns'[d].queue = conns[d].queue)
      BY <2>2
    <3>7. ClientOK'
      BY <1>1, <1>2, <2>5, <3>1, <3>5, <3>6 DEF ClientOK
    <3>8. StreamOK'
      BY <1>1, <1>2, <3>1, <3>4, <3>5, <3>6, StreamLoses
    <3> QED
      BY <2>3, <3>2, <3>3, <3>7, <3>8 DEF StreamInv
  <2> QED
    BY <2>4, <2>5
<1> QED
  BY <1>4, <1>5 DEF Open

LEMMA BreakStep == ASSUME NEW c \in Conns PROVE StreamInv /\ Break(c) => StreamInv'
<1> SUFFICES ASSUME StreamInv, Break(c) PROVE StreamInv'
  OBVIOUS
<1> DEFINE I == conns[c].input
<1>1. /\ Types /\ ActorOK /\ ClientOK /\ StreamOK /\ \A d \in Conns : ConnOK(d)
      /\ UNCHANGED <<replay, requests, ran, actor, lease, client>>
      /\ breaks' \in Nat
  BY DEF StreamInv, Break, Types
<1>2. PICK kept \in 0..Len(I) : conns' = [Closed(c) EXCEPT ![c].input = SubSeq(@, 1, kept)]
  BY DEF Break
<1>3. PICK now : now = Closed(c)
  OBVIOUS
<1>4. /\ now \in [Conns -> Connection]
      /\ now[c].up = FALSE /\ now[c].at = conns[c].at /\ now[c].input = I
      /\ now[c].queue = conns[c].queue
      /\ \A d \in Conns \ {c} : now[d] = conns[d]
  BY <1>1, <1>3, ClosedLemma
<1>5. I \in Seq(Attachments \cup Questions)
  BY <1>1 DEF Types, Connection
<1> HIDE DEF I
<1>6. /\ SubSeq(I, 1, kept) \in Seq(Attachments \cup Questions)
      /\ Len(I) \in Nat /\ Len(SubSeq(I, 1, kept)) = kept
      /\ \A i \in 1..kept : SubSeq(I, 1, kept)[i] = I[i]
  <2>1. Len(I) \in Nat /\ kept \in Nat /\ kept <= Len(I)
    BY <1>5
  <2> QED
    BY <1>5, <2>1, SubSeqProperties
<1>7. PICK J : J = SubSeq(I, 1, kept)
  OBVIOUS
<1>8. conns' = [now EXCEPT ![c].input = J]
  BY <1>2, <1>3, <1>4, <1>7
<1>9. /\ conns' \in [Conns -> Connection] /\ ~conns'[c].up /\ conns'[c].at = conns[c].at
      /\ conns'[c].queue = conns[c].queue /\ conns'[c].input = J
      /\ \A d \in Conns \ {c} : conns'[d] = conns[d]
  BY <1>4, <1>6, <1>7, <1>8 DEF Connection
<1>10. Types'
  BY <1>1, <1>9 DEF Types
<1>11. ASSUME NEW d \in Conns PROVE ConnOK(d)'
  <2>1. CASE d = c
    <3>1. \A i \in 1..Len(J) : i \in 1..Len(I) /\ J[i] = I[i]
      BY <1>6, <1>7
    <3> QED
      BY <1>1, <1>9, <2>1, <3>1 DEF ConnOK, I
  <2>2. CASE d # c
    BY <1>1, <1>9, <2>2, ConnSame
  <2> QED
    BY <2>1, <2>2
<1>12. ActorOK'
  BY <1>1, <1>9 DEF ActorOK, Types
<1>13. /\ Followed' = Followed /\ Known' = Known /\ Followed \in Conns /\ client.conn \in Conns
       /\ (client.at = "opening" => client.trying \in Conns)
       /\ \A d \in Conns : conns'[d].queue = conns[d].queue
  BY <1>1, <1>9, FollowedLemma DEF Followed, Known, Types, Clients, ClientOK
<1>14. Attached' => Attached
  BY <1>1, <1>9, <1>13 DEF Attached
<1>15. ClientOK'
  BY <1>1, <1>13, <1>14 DEF ClientOK
<1>16. StreamOK'
  BY <1>1, <1>13, <1>14, StreamLoses
<1> QED
  BY <1>10, <1>11, <1>12, <1>15, <1>16 DEF StreamInv

LEMMA InvStep == StreamInv /\ [Next]_stream_vars => StreamInv'
<1> SUFFICES ASSUME StreamInv, [Next]_stream_vars PROVE StreamInv'
  OBVIOUS
<1>1. CASE Output \/ Send \/ Overflow
  BY <1>1, OutputStep, SendStep, OverflowStep
<1>2. CASE NextPending \/ NextReceived \/ AwaitAnswer
  BY <1>2, NextPendingStep, NextReceivedStep, AwaitAnswerStep
<1>3. CASE Lost \/ Resumed \/ GiveUp \/ TryFails \/ GoOn
  BY <1>3, LostStep, ResumedStep, GiveUpStep, TryFailsStep, GoOnStep
<1>4. CASE \E c \in Conns : Reopen(c)
  BY <1>4, ReopenStep
<1>5. CASE \E r \in Requests : SendRequest(r)
  BY <1>5, SendRequestStep
<1>6. CASE \E c \in Conns : Serve(c) \/ Break(c)
  BY <1>6, OpenStep, TakeAttachStep, TakeRequestStep, TakeDetachStep, BreakStep DEF Serve
<1>7. CASE UNCHANGED stream_vars
  <2>1. UNCHANGED <<replay, requests, ran, actor, lease, conns, client, breaks>>
    BY <1>7 DEF stream_vars
  <2>2. Types' /\ ActorOK'
    BY <2>1 DEF StreamInv, Types, ActorOK
  <2>3. Followed' = Followed /\ Known' = Known /\ Attached' = Attached /\ Coming' = Coming
    BY <2>1 DEF Followed, Known, Attached, Coming
  <2>4. ClientOK' /\ StreamOK'
    BY <2>1, <2>3 DEF StreamInv, ClientOK, StreamOK
  <2>5. \A c \in Conns : ConnOK(c)'
    BY <2>1 DEF StreamInv, ConnOK, Followed
  <2> QED
    BY <2>2, <2>4, <2>5 DEF StreamInv
<1> QED
  BY <1>1, <1>2, <1>3, <1>4, <1>5, <1>6, <1>7 DEF Next, ClientNext

LEMMA Invariance == StreamSpec => []StreamInv
BY InvInit, InvStep, PTL DEF StreamSpec

-----------------------------------------------------------------------------
(* What the client is promised.                                            *)

LEMMA FollowerStep ==
  ASSUME StreamInv, Next
  PROVE  \/ Follower!Produce \/ Follower!Show \/ Follower!Report
         \/ UNCHANGED <<replay.seq, client.seq, client.missed>>
<1>1. ASSUME UNCHANGED replay, Progress(client')
      PROVE  \/ Follower!Show \/ Follower!Report
             \/ UNCHANGED <<replay.seq, client.seq, client.missed>>
  BY <1>1 DEF Progress, Follower!Show, Follower!Report, Follower!Ahead
<1>2. CASE NextPending \/ NextReceived
  <2>1. UNCHANGED replay
    BY <1>2 DEF NextPending, NextReceived, Receives
  <2>2. Progress(client')
    BY <1>2, NextPendingStep, NextReceivedStep
  <2> QED
    BY <1>1, <2>1, <2>2
<1>3. CASE Output
  <2>1. replay'.seq = replay.seq + 1 /\ replay.seq < LastEvent /\ UNCHANGED client
    BY <1>3 DEF Output, Push
  <2> QED
    BY <2>1 DEF Follower!Produce
<1>4. CASE ~(NextPending \/ NextReceived \/ Output)
  <2>1. UNCHANGED replay
    BY <1>4 DEF Next, ClientNext, Send, Overflow, TryFails, GoOn, SendRequest, Serve, Break, Open,
       TakeAttach, TakeRequest, TakeDetach, AwaitAnswer, Receives, Lost, Resumed, GiveUp, Reopen
  <2>2. client'.seq = client.seq /\ client'.missed = client.missed
    <3>1. client \in Clients
      BY DEF StreamInv, Types
    <3>2. CASE UNCHANGED client
      BY <3>2
    <3>3. CASE AwaitAnswer
      BY <3>1, <3>3 DEF AwaitAnswer, Clients
    <3>4. CASE Lost \/ Resumed \/ GiveUp \/ TryFails \/ GoOn
      BY <3>1, <3>4 DEF Lost, Resumed, GiveUp, TryFails, GoOn, Clients
    <3>5. CASE \E c \in Conns : Reopen(c) \/ Open(c)
      BY <3>1, <3>5 DEF Reopen, Open, Clients
    <3>6. CASE \E r \in Requests : SendRequest(r)
      BY <3>1, <3>6 DEF SendRequest, Clients
    <3>7. CASE \/ Send \/ Overflow
               \/ \E c \in Conns : TakeAttach(c) \/ TakeRequest(c) \/ TakeDetach(c) \/ Break(c)
      <4>1. UNCHANGED client
        BY <3>7 DEF Send, Overflow, TakeAttach, TakeRequest, TakeDetach, Break
      <4> QED
        BY <4>1
    <3> QED
      BY <1>4, <3>2, <3>3, <3>4, <3>5, <3>6, <3>7 DEF Next, ClientNext, Serve
  <2> QED
    BY <2>1, <2>2
<1> QED
  BY <1>2, <1>3, <1>4

\* Whatever breaks, and however full the queues get, the client is shown the
\* events in order, each at most once, and is told of every one that it is not
\* shown before a later one (replay.rs; client.rs, 290-351).
THEOREM StreamDelivers == StreamSpec => DeliverySpec
<1>1. Init => Follower!DeliveryInit
  <2>1. Init => replay.seq = 0 /\ client.seq = 0 /\ client.missed = {}
    BY DEF Init
  <2> QED
    BY <2>1 DEF Follower!DeliveryInit
<1>2. StreamInv /\ [Next]_stream_vars =>
        [Follower!Produce \/ Follower!Show \/ Follower!Report]_(Follower!delivery_vars)
  <2>1. UNCHANGED stream_vars => UNCHANGED <<replay.seq, client.seq, client.missed>>
    BY DEF stream_vars
  <2> QED
    BY <2>1, FollowerStep DEF Follower!delivery_vars
<1> QED
  BY <1>1, <1>2, Invariance, PTL DEF StreamSpec, DeliverySpec, Follower!DeliverySpec

-----------------------------------------------------------------------------
(* The cache of requests.                                                  *)

\* The cache has the requests that were run last, all or as many as it keeps.
Cached ==
  /\ Len(requests) <= Len(ran) /\ Len(requests) <= CacheLimit
  /\ Len(requests) = CacheLimit \/ Len(requests) = Len(ran)
  /\ \A i \in 1..Len(requests) : requests[i].request = ran[Len(ran) - Len(requests) + i]
  /\ RequestsRunOnce

LEMMA CachedStep == StreamInv /\ Cached /\ [Next]_stream_vars => Cached'
<1> SUFFICES ASSUME StreamInv, Cached, [Next]_stream_vars PROVE Cached'
  OBVIOUS
<1>1. CASE UNCHANGED <<ran, requests>>
  BY <1>1 DEF Cached, RequestsRunOnce
<1>2. ASSUME NEW c \in Conns, TakeRequest(c), ~UNCHANGED <<ran, requests>> PROVE Cached'
  <2> DEFINE n == Len(ran)
             k == Len(requests)
  <2>1. /\ ran \in Seq(Requests) /\ requests \in Seq(Entries) /\ n \in Nat /\ k \in Nat
        /\ CacheLimit \in Nat
    BY StreamAssumption DEF StreamInv, Types
  <2>2. PICK r : /\ r = Head(conns[c].input).request
                 /\ {i \in DOMAIN requests : requests[i].request.id = r.id} = {}
                 /\ ran' = Append(ran, r)
                 /\ requests' = Remember([request |-> r, answer |-> Len(ran) + 1])
    BY <1>2 DEF TakeRequest
  <2>3. r \in Requests
    <3>1. conns[c].input[1] \in Attachments \cup Questions /\ conns[c].input[1].cmd = "request"
          /\ conns[c].input[1] = Head(conns[c].input)
      <4>1. Takes(c, "request") /\ Types /\ ConnOK(c) /\ UNCHANGED client
        BY <1>2 DEF TakeRequest, StreamInv
      <4> QED
        BY <4>1, ConnTakes
    <3> QED
      BY <2>2, <3>1 DEF Attachments, Questions
  <2>4. \A i \in 1..k : requests[i].request.id # r.id
    BY <2>1, <2>2
  <2>5. PICK entry \in Entries : entry = [request |-> r, answer |-> Len(ran) + 1] /\ entry.request = r
    <3>1. Len(ran) + 1 \in Nat
      BY <2>1
    <3>2. [request |-> r, answer |-> Len(ran) + 1] \in Entries
      BY <2>3, <3>1 DEF Entries
    <3>3. [request |-> r, answer |-> Len(ran) + 1].request = r
      OBVIOUS
    <3> QED
      BY <3>2, <3>3
  <2> DEFINE longer == Append(requests, entry)
  <2>6. /\ longer \in Seq(Entries) /\ Len(longer) = k + 1 /\ longer # <<>>
        /\ \A i \in 1..k : longer[i] = requests[i]
        /\ longer[k + 1] = entry
    BY <2>1, <2>5, AppendProperties
  <2>7. /\ ran' \in Seq(Requests) /\ Len(ran') = n + 1 /\ ran'[n + 1] = r
        /\ \A i \in 1..n : ran'[i] = ran[i]
    BY <2>1, <2>2, <2>3, AppendProperties
  <2>8. requests' = IF k + 1 > CacheLimit THEN Tail(longer) ELSE longer
    BY <2>2, <2>5, <2>6 DEF Remember
  <2> HIDE DEF longer
  <2>9. /\ Len(Tail(longer)) = k /\ \A i \in 1..k : Tail(longer)[i] = longer[i + 1]
    BY <2>1, <2>6, HeadTailProperties
  <2> HIDE DEF n, k
  <2>10. /\ k <= n /\ k <= CacheLimit /\ (k = CacheLimit \/ k = n)
         /\ \A i \in 1..k : requests[i].request = ran[n - k + i]
    BY DEF Cached, n, k
  <2>11. \A i \in 1..(k + 1) : longer[i].request = ran'[n - k + i]
    <3> SUFFICES ASSUME NEW i \in 1..(k + 1) PROVE longer[i].request = ran'[n - k + i]
      OBVIOUS
    <3>1. CASE i = k + 1
      <4>1. n - k + i = n + 1
        BY <2>1, <3>1
      <4> QED
        BY <2>5, <2>6, <2>7, <3>1, <4>1
    <3>2. CASE i \in 1..k
      <4>1. n - k + i \in 1..n
        BY <2>1, <2>10, <3>2
      <4> QED
        BY <2>6, <2>7, <2>10, <3>2, <4>1
    <3> QED
      BY <2>1, <3>1, <3>2
  <2>12. ASSUME NEW i \in 1..n, ran[i].id = r.id PROVE n + 1 - i > CacheLimit
    <3>1. ~(i > n - k)
      <4>1. ASSUME i > n - k PROVE FALSE
        <5>1. PICK j \in 1..k : j = i - (n - k)
          BY <2>1, <2>10, <4>1
        <5>2. n - k + j = i
          BY <2>1, <2>10, <5>1
        <5>3. requests[j].request = ran[i]
          BY <2>10, <5>2
        <5> QED
          BY <2>4, <2>12, <5>3
      <4> QED
        BY <4>1
    <3>2. k # n
      BY <2>1, <3>1
    <3> QED
      BY <2>1, <2>10, <3>1, <3>2
  <2>13. RequestsRunOnce'
    <3> SUFFICES ASSUME NEW i \in 1..(n + 1), NEW j \in 1..(n + 1), i < j, ran'[i].id = ran'[j].id
                 PROVE  j - i > CacheLimit
      BY <2>7 DEF RequestsRunOnce
    <3>1. CASE j = n + 1
      <4>1. i \in 1..n /\ ran'[i] = ran[i]
        BY <2>1, <2>7, <3>1
      <4>2. ran'[j] = r
        BY <2>7, <3>1
      <4>3. ran[i].id = r.id
        BY <4>1, <4>2
      <4>4. n + 1 - i > CacheLimit
        BY <2>12, <4>1, <4>3
      <4> QED
        BY <2>1, <3>1, <4>1, <4>4
    <3>2. CASE j \in 1..n
      <4>1. i \in 1..n /\ ran'[i] = ran[i] /\ ran'[j] = ran[j]
        BY <2>1, <2>7, <3>2
      <4>2. DOMAIN ran = 1..n
        BY <2>1 DEF n
      <4> QED
        BY <3>2, <4>1, <4>2 DEF Cached, RequestsRunOnce
    <3> QED
      BY <2>1, <3>1, <3>2
  <2>14. CASE k + 1 > CacheLimit
    <3>1. requests' = Tail(longer) /\ Len(requests') = k /\ k = CacheLimit
      BY <2>1, <2>8, <2>9, <2>10, <2>14
    <3>2. ASSUME NEW i \in 1..k PROVE requests'[i].request = ran'[(n + 1) - k + i]
      <4>1. i + 1 \in 1..(k + 1) /\ n - k + (i + 1) = (n + 1) - k + i
        BY <2>1
      <4>2. longer[i + 1].request = ran'[n - k + (i + 1)]
        BY <2>11, <4>1
      <4> QED
        BY <2>9, <3>1, <4>1, <4>2
    <3>3. k <= n + 1
      BY <2>1, <2>10
    <3>4. Len(ran') = n + 1
      BY <2>1, <2>7, <2>9, <3>1
    <3>5. Len(requests') <= Len(ran') /\ Len(requests') <= CacheLimit /\ Len(requests') = CacheLimit
      BY <2>1, <3>1, <3>3, <3>4
    <3>6. \A i \in 1..Len(requests') : requests'[i].request = ran'[Len(ran') - Len(requests') + i]
      BY <3>1, <3>2, <3>4
    <3> QED
      BY <2>13, <3>4, <3>5, <3>6 DEF Cached
  <2>15. CASE k + 1 <= CacheLimit
    <3>1. requests' = longer /\ Len(requests') = k + 1 /\ k = n
      BY <2>1, <2>6, <2>8, <2>10, <2>15
    <3>2. ASSUME NEW i \in 1..(k + 1) PROVE requests'[i].request = ran'[(n + 1) - (k + 1) + i]
      <4>1. n - k + i = (n + 1) - (k + 1) + i
        BY <2>1
      <4> QED
        BY <2>11, <3>1, <4>1
    <3> QED
      BY <2>1, <2>7, <2>13, <2>15, <3>1, <3>2 DEF Cached
  <2> QED
    BY <2>1, <2>14, <2>15
<1>3. CASE ~\E c \in Conns : TakeRequest(c)
  <2>1. UNCHANGED <<ran, requests>>
    BY <1>3 DEF Next, ClientNext, Output, Send, Overflow, TryFails, GoOn, SendRequest, Serve, Break, Open,
       TakeAttach, TakeDetach, NextPending, NextReceived, AwaitAnswer, Receives, Lost, Resumed,
       GiveUp, Reopen, stream_vars
  <2> QED
    BY <1>1, <2>1
<1> QED
  BY <1>1, <1>2, <1>3

\* No request runs twice while less than CacheLimit others have run since, over
\* however many connections it is sent again (replay.rs, 54-75).
THEOREM RequestsRunAtMostOnce == StreamSpec => []RequestsRunOnce
<1>1. Init => Cached
  <2>1. Init => requests = <<>> /\ ran = <<>>
    BY DEF Init
  <2>2. <<>> \in Seq(Requests) /\ Len(<<>>) = 0 /\ CacheLimit \in Nat /\ DOMAIN <<>> = {}
    BY StreamAssumption
  <2> QED
    BY <2>1, <2>2 DEF Cached, RequestsRunOnce
<1>2. Cached => RequestsRunOnce
  BY DEF Cached
<1> QED
  BY <1>1, <1>2, Invariance, CachedStep, PTL DEF StreamSpec
=============================================================================
