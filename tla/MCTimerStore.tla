---------------------------- MODULE MCTimerStore ----------------------------
(* An instance of TimerStore for TLC. *)
EXTENDS TimerStore, TLC

\* A schedule is the set of instants its cron names and its firing limit.  Two
\* firings of Long may be followed by an update to Final, which allows one.
Long  == [fires |-> {1, 2, 3, 4}, limit |-> NoLimit]
Final == [fires |-> {2, 4}, limit |-> 1]

LongAndFinal == {Long, Final}

Upto2 == 1..2
Upto4 == 1..4
=============================================================================
