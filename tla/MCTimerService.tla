--------------------------- MODULE MCTimerService ---------------------------
(* Instances of TimerService for TLC. *)
EXTENDS TimerService

\* One due time, or two, of a timer without a limit.
OneShot == {[fires |-> {2}, limit |-> NoLimit]}
TwoShots == {[fires |-> {2, 3}, limit |-> NoLimit]}

Upto1 == 1..1
Upto2 == 1..2
Upto3 == 1..3

\* Which creation makes which timer changes names only: each key makes its own.
OwnTimer ==
  CHOOSE f \in [Keys -> TimerIds] :
    Cardinality({f[key] : key \in Keys}) = Cardinality(Keys)
OwnTimers == \A k \in Owners : \A e \in mem[k].idem : e.id = OwnTimer[e.key]
=============================================================================
