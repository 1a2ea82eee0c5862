----------------------------- MODULE MCSessions -----------------------------
(* Small instances of Sessions: every key belongs to one group. *)
EXTENDS Sessions, TLC

CONSTANTS c1, c2, s1, s2, k1, k2, team

OneGroup == [k \in Keys |-> team]

ClientSymmetry == Permutations(Clients)
StreamSymmetry == Permutations(Streams)
Symmetry == ClientSymmetry \cup StreamSymmetry

\* A bound: a client's request leaves its queue before anything else is queued.
FewMessages ==
  \A c \in Clients : conns[c].input # <<>> =>
    /\ \A d \in Clients \ {c} : conns[d].input = <<>>
    /\ \A s \in Streams : mailbox[s] = <<>>
=============================================================================
