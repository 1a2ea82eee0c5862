---------------------- MODULE ServiceProcesses_proofs ----------------------
(***************************************************************************)
(* Proofs about the processes of a FAE home, for any number of commands    *)
(* and instances, under kills, crashes, signals, failures and lateness: a  *)
(* service that serves is published, a start that is left alone does not   *)
(* fail, and what a stop says is so.                                       *)
(*                                                                         *)
(* The invariant speaks of one command at a time, so that a step of one    *)
(* carries the others over by one lemma (StaysLemma, CalmStays), and of    *)
(* one instance at a time.  A command is a record: what an action makes of *)
(* it is said field by field in the Effect lemmas, and the steps use those *)
(* instead of the record.                                                  *)
(***************************************************************************)
EXTENDS ServiceProcesses, TLAPS

InLock == {"unprobe", "clear", "clear token", "check"}
Underway(c) == command[c].at \notin {"idle", "begin", "done"}

\* A command holds server.lock where it looks or clears; a start or a stop that
\* is under way holds start.lock.
LockOK(c) ==
  /\ serverLock = c <=> command[c].at \in InLock
  /\ Underway(c) /\ command[c].do \in {"start", "stop"} => startLock = c

\* What a command may be doing where it is.
CourseOK(c) ==
  /\ command[c].at # "done" => command[c].result = "none"
  /\ command[c].at = "idle" <=> command[c].do = "none"
  /\ command[c].at \in {"begin", "lock", "clear", "clear token", "spawn", "poll"} =>
       command[c].do \in {"start", "stop"}
  /\ command[c].at \in {"spawn", "poll"} \/ command[c].child # Nobody => command[c].do = "start"
  /\ command[c].at = "poll" => command[c].child # Nobody
  /\ command[c].at \in {"key", "control", "reply", "wait", "check"} => command[c].do = "stop"
  /\ command[c].child # Nobody => command[c].at \in {"poll", "token", "hello"}
  /\ command[c].at \in {"begin", "idle"} => ~command[c].calm

\* What a command has found has lived; what held server.lock when it began has
\* let go of it once a stop has seen the lock free.
FoundOK(c) ==
  /\ command[c].at \in {"token", "hello", "poll", "key", "control", "reply", "wait", "check"} =>
       command[c].found \in Services /\ service[command[c].found] # "unborn"
  /\ command[c].before \in Services =>
       /\ service[command[c].before] \notin {"unborn", "spawned"}
       /\ command[c].do = "stop" /\ command[c].at \in {"unprobe", "lock", "clear", "clear token"}
            => service[command[c].before] \in {"leaving", "gone"}

\* A start that was left alone.  Before it spawns, the services serve or do not
\* run, and none runs once the start has seen that; after that, its child is
\* the one on its way up.
Before(c) ==
  /\ \A i \in Services : service[i] \in {"unborn", "serving", "gone"}
  /\ command[c].at \notin {"read", "token", "hello"} => \A i \in Services : service[i] # "serving"

After(c) ==
  /\ command[c].found = command[c].child
  /\ \A i \in Services : i # command[c].child => service[i] \in {"unborn", "gone"}
  /\ service[command[c].child] \in {"spawned", "locked", "publishing", "serving"}

LeftAlone(c) ==
  /\ serverLock \in Services \cup {c, Nobody}
  /\ command[c].child = Nobody => Before(c)
  /\ command[c].child # Nobody => After(c)
  /\ command[c].at \in {"token", "hello"} => service[command[c].found] = "serving"
  /\ command[c].at = "hello" => command[c].key = command[c].found

CalmOK(c) == command[c].do = "start" /\ command[c].calm => Underway(c) /\ LeftAlone(c)

CommandOK(c) == LockOK(c) /\ CourseOK(c) /\ FoundOK(c) /\ CalmOK(c)

\* The discovery files are those of the instance that holds server.lock.
PublishedOK(i) ==
  /\ service[i] \in {"publishing", "removing token"} => token = i
  /\ service[i] \in {"serving", "stopping", "removing"} => config = i /\ token = i
  /\ service[i] \in {"unborn", "spawned", "locked", "publishing"} => config # i

HoldingOK(i) == serverLock = i <=> service[i] \in Held

Commanded == command \in [Commands -> Records]
Types == /\ startLock \in Commands \cup {Nobody}
         /\ serverLock \in Commands \cup Services \cup {Nobody}
         /\ config \in Services \cup {Nobody}
         /\ token \in Services \cup {Nobody}
         /\ service \in [Services -> Stages]
         /\ Commanded

ProcessesInv == /\ Types
                /\ \A i \in Services : HoldingOK(i) /\ PublishedOK(i)
                /\ \A c \in Commands : CommandOK(c)

USE ProcessesAssumption DEF Services

\* A command that is where it was, but maybe disturbed.
Stays(d) == /\ command'[d].do = command[d].do
            /\ command'[d].at = command[d].at
            /\ command'[d].found = command[d].found
            /\ command'[d].key = command[d].key
            /\ command'[d].child = command[d].child
            /\ command'[d].result = command[d].result
            /\ command'[d].before = command[d].before
            /\ command'[d].calm => command[d].calm

Others(c) == \A d \in Commands \ {c} : Stays(d)

LEMMA BecomesEffect ==
  ASSUME Commanded, NEW c \in Commands, NEW new \in Records, Becomes(c, new)
  PROVE  Commanded' /\ command'[c] = new /\ Others(c)
BY DEF Becomes, Commanded, Others, Stays

LEMMA SameEffect ==
  ASSUME NEW c, UNCHANGED command
  PROVE  (Commanded => Commanded') /\ Others(c) /\ Stays(c)
BY DEF Others, Stays, Commanded

\* The command goes on to another place.
LEMMA GoesEffect ==
  ASSUME Commanded, NEW c \in Commands, NEW place \in Places, Goes(c, place)
  PROVE  /\ Commanded'
         /\ Others(c)
         /\ command'[c].at = place
         /\ command'[c].do = command[c].do
         /\ command'[c].found = command[c].found
         /\ command'[c].key = command[c].key
         /\ command'[c].child = command[c].child
         /\ command'[c].result = command[c].result
         /\ command'[c].before = command[c].before
         /\ command'[c].calm = command[c].calm
<1> DEFINE new == [command[c] EXCEPT !.at = place]
<1>1. command[c] \in Records
  BY DEF Commanded
<1>2. /\ new \in Records
      /\ new.at = place /\ new.do = command[c].do /\ new.found = command[c].found
      /\ new.key = command[c].key /\ new.child = command[c].child
      /\ new.result = command[c].result /\ new.before = command[c].before
      /\ new.calm = command[c].calm
  BY <1>1 DEF Records
<1> HIDE DEF new
<1>3. Becomes(c, new)
  BY DEF Goes, new
<1> QED
  BY <1>2, <1>3, BecomesEffect

\* The command ends.
Results == {"none", "running", "stopped", "error", "killed"}

LEMMA EndedLemma ==
  ASSUME Commanded, NEW c \in Commands, NEW result \in Results
  PROVE  /\ Ended(c, result) \in Records
         /\ Ended(c, result).at = "done"
         /\ Ended(c, result).do = command[c].do
         /\ Ended(c, result).result = result
         /\ Ended(c, result).child = Nobody
         /\ Ended(c, result).found = Nobody
         /\ Ended(c, result).before = Nobody
         /\ Ended(c, result).calm => command[c].calm /\ result = "error"
<1> DEFINE calm == command[c].calm /\ result = "error"
           do == command[c].do
<1>1. do \in {"none", "start", "stop", "show"} /\ command[c].calm \in BOOLEAN
  BY DEF Commanded, Records
<1>2. calm \in BOOLEAN
  OBVIOUS
<1>3. Ended(c, result) = [Idle EXCEPT !.do = do, !.at = "done", !.result = result, !.calm = calm]
  BY DEF Ended
<1> HIDE DEF calm, do
<1>4. /\ Ended(c, result) \in Records
      /\ Ended(c, result).at = "done"
      /\ Ended(c, result).do = do
      /\ Ended(c, result).result = result
      /\ Ended(c, result).child = Nobody
      /\ Ended(c, result).found = Nobody
      /\ Ended(c, result).before = Nobody
      /\ Ended(c, result).calm = calm
  BY <1>1, <1>2, <1>3 DEF Idle, Records, Results, Places
<1> QED
  BY <1>4 DEF calm, do

LEMMA ReturnEffect ==
  ASSUME Commanded, NEW c \in Commands, NEW result \in Results, Return(c, result)
  PROVE  /\ Commanded'
         /\ Others(c)
         /\ command'[c].at = "done"
         /\ command'[c].do = command[c].do
         /\ command'[c].result = result
         /\ command'[c].child = Nobody
         /\ command'[c].found = Nobody
         /\ command'[c].before = Nobody
         /\ command'[c].calm => command[c].calm /\ result = "error"
         /\ startLock' = Without(startLock, c)
         /\ serverLock' = Without(serverLock, c)
<1>1. Becomes(c, Ended(c, result)) /\ Ended(c, result) \in Records
  BY EndedLemma DEF Return
<1> QED
  BY <1>1, BecomesEffect, EndedLemma DEF Return

\* Everybody is disturbed.
LEMMA DisturbedLemma ==
  ASSUME NEW states \in [Commands -> Records], command' = Disturbed(states)
  PROVE  /\ Commanded'
         /\ \A d \in Commands :
              /\ command'[d].do = states[d].do
              /\ command'[d].at = states[d].at
              /\ command'[d].found = states[d].found
              /\ command'[d].key = states[d].key
              /\ command'[d].child = states[d].child
              /\ command'[d].result = states[d].result
              /\ command'[d].before = states[d].before
              /\ ~command'[d].calm
<1>1. ASSUME NEW d \in Commands
      PROVE  /\ [states[d] EXCEPT !.calm = FALSE] \in Records
             /\ [states[d] EXCEPT !.calm = FALSE].do = states[d].do
             /\ [states[d] EXCEPT !.calm = FALSE].at = states[d].at
             /\ [states[d] EXCEPT !.calm = FALSE].found = states[d].found
             /\ [states[d] EXCEPT !.calm = FALSE].key = states[d].key
             /\ [states[d] EXCEPT !.calm = FALSE].child = states[d].child
             /\ [states[d] EXCEPT !.calm = FALSE].result = states[d].result
             /\ [states[d] EXCEPT !.calm = FALSE].before = states[d].before
             /\ ~[states[d] EXCEPT !.calm = FALSE].calm
  <2>1. states[d] \in Records
    OBVIOUS
  <2> QED
    BY <2>1 DEF Records
<1>2. command' = [d \in Commands |-> [states[d] EXCEPT !.calm = FALSE]]
  BY DEF Disturbed
<1> QED
  BY <1>1, <1>2 DEF Commanded

\* The fields that no step of the search changes.
Same(c) == /\ command'[c].do = command[c].do
           /\ command'[c].child = command[c].child
           /\ command'[c].result = command[c].result
           /\ command'[c].calm => command[c].calm

LEMMA BeginEffect ==
  ASSUME Commanded, NEW c \in Commands, NEW do \in {"start", "stop", "show"}, Begin(c, do)
  PROVE  /\ Commanded' /\ Others(c)
         /\ command'[c].do = do
         /\ command'[c].at = (IF do = "show" THEN "read" ELSE "begin")
         /\ command'[c].found = command[c].found
         /\ command'[c].child = command[c].child
         /\ command'[c].result = command[c].result
         /\ command'[c].before = command[c].before
         /\ command'[c].calm = command[c].calm
<1> DEFINE place == IF do = "show" THEN "read" ELSE "begin"
           new == [command[c] EXCEPT !.do = do, !.at = place]
<1>1. command[c] \in Records /\ place \in Places
  BY DEF Commanded, Places
<1>3. Becomes(c, new)
  BY DEF Begin
<1> HIDE DEF place
<1>2. /\ new \in Records
      /\ new.do = do /\ new.at = place
      /\ new.found = command[c].found /\ new.child = command[c].child
      /\ new.result = command[c].result /\ new.before = command[c].before
      /\ new.calm = command[c].calm
  BY <1>1 DEF Records
<1> HIDE DEF new
<1> QED
  BY <1>2, <1>3, BecomesEffect DEF place

LEMMA AcquireStartEffect ==
  ASSUME Commanded, serverLock \in Commands \cup Services \cup {Nobody},
         NEW c \in Commands, AcquireStart(c)
  PROVE  /\ Commanded' /\ Others(c)
         /\ command'[c].at = "read"
         /\ command'[c].do = command[c].do
         /\ command'[c].child = command[c].child
         /\ command'[c].result = command[c].result
         /\ command'[c].before = serverLock
         /\ command'[c].calm => /\ serverLock \notin Commands
                                /\ \A i \in Services : service[i] \in {"unborn", "serving", "gone"}
<1> DEFINE calm == serverLock \notin Commands
                     /\ \A i \in Services : service[i] \in {"unborn", "serving", "gone"}
           new == [command[c] EXCEPT !.at = "read", !.before = serverLock, !.calm = calm]
<1>1. command[c] \in Records
  BY DEF Commanded
<1>2. calm \in BOOLEAN
  OBVIOUS
<1>3. Becomes(c, new)
  BY DEF AcquireStart
<1> HIDE DEF calm
<1>4. /\ new \in Records
      /\ new.do = command[c].do /\ new.at = "read" /\ new.child = command[c].child
      /\ new.result = command[c].result /\ new.before = serverLock /\ new.calm = calm
  BY <1>1, <1>2 DEF Records, Places
<1> HIDE DEF new
<1>5. command'[c] = new /\ Commanded' /\ Others(c)
  BY <1>3, <1>4, BecomesEffect
<1>6. command'[c].calm = calm
  BY <1>4, <1>5
<1> QED
  BY <1>4, <1>5, <1>6 DEF calm

LEMMA ReadConfigEffect ==
  ASSUME Commanded, config \in Services \cup {Nobody}, NEW c \in Commands, ReadConfig(c)
  PROVE  /\ Commanded' /\ Others(c) /\ Same(c)
         /\ command'[c].found = config
         /\ command'[c].before = command[c].before
         /\ command'[c].at = (IF config # Nobody /\ Alive(config) THEN "token" ELSE "probe")
<1> DEFINE place == IF config # Nobody /\ Alive(config) THEN "token" ELSE "probe"
           new == [command[c] EXCEPT !.found = config, !.at = place]
<1>1. command[c] \in Records
  BY DEF Commanded
<1>2. place \in Places
  BY DEF Places
<1>3. Becomes(c, new)
  BY DEF ReadConfig
<1> HIDE DEF place
<1>4. /\ new \in Records
      /\ new.found = config /\ new.at = place /\ new.do = command[c].do
      /\ new.child = command[c].child /\ new.result = command[c].result
      /\ new.before = command[c].before /\ new.calm = command[c].calm
  BY <1>1, <1>2 DEF Records
<1> HIDE DEF new
<1>5. command'[c] = new /\ Commanded' /\ Others(c)
  BY <1>3, <1>4, BecomesEffect
<1> QED
  BY <1>4, <1>5 DEF Same, place

\* The two places where a command reads the token.
LEMMA ReadKeyEffect ==
  ASSUME Commanded, token \in Services \cup {Nobody}, NEW c \in Commands,
         ReadToken(c) \/ ReadKey(c)
  PROVE  /\ Commanded' /\ Others(c) /\ Same(c)
         /\ command'[c].key = token
         /\ command'[c].found = command[c].found
         /\ command'[c].before = command[c].before
         /\ command'[c].at = (IF command[c].at = "token" THEN "hello" ELSE "control")
<1> DEFINE place == IF command[c].at = "token" THEN "hello" ELSE "control"
           new == [command[c] EXCEPT !.key = token, !.at = place]
<1>1. command[c] \in Records
  BY DEF Commanded
<1>2. place \in Places
  BY DEF Places
<1>3. Becomes(c, new)
  BY DEF ReadToken, ReadKey
<1> HIDE DEF place
<1>4. /\ new \in Records
      /\ new.key = token /\ new.at = place /\ new.do = command[c].do
      /\ new.child = command[c].child /\ new.result = command[c].result
      /\ new.before = command[c].before /\ new.calm = command[c].calm
      /\ new.found = command[c].found
  BY <1>1, <1>2 DEF Records
<1> HIDE DEF new
<1>5. command'[c] = new /\ Commanded' /\ Others(c)
  BY <1>3, <1>4, BecomesEffect
<1> QED
  BY <1>4, <1>5 DEF Same, place

LEMMA HelloFailsEffect ==
  ASSUME Commanded, NEW c \in Commands, HelloFails(c)
  PROVE  /\ Commanded' /\ Others(c) /\ Same(c)
         /\ command'[c].found = command[c].found
         /\ command'[c].before = command[c].before
         /\ command'[c].at = (IF command[c].child = Nobody THEN "probe" ELSE "poll")
         /\ command'[c].calm => ~Reaches(c, command[c].found)
<1> DEFINE place == IF command[c].child = Nobody THEN "probe" ELSE "poll"
           new == [command[c] EXCEPT !.at = place]
           states == [command EXCEPT ![c] = new]
<1>1. command[c] \in Records
  BY DEF Commanded
<1>2. place \in Places
  BY DEF Places
<1>3. /\ Reaches(c, command[c].found) => command' = Disturbed(states)
      /\ ~Reaches(c, command[c].found) => Becomes(c, new)
  BY DEF HelloFails
<1> HIDE DEF place
<1>4. /\ new \in Records
      /\ new.at = place /\ new.do = command[c].do
      /\ new.child = command[c].child /\ new.result = command[c].result
      /\ new.before = command[c].before /\ new.calm = command[c].calm
      /\ new.found = command[c].found /\ new.key = command[c].key
  BY <1>1, <1>2 DEF Records
<1> HIDE DEF new
<1>5. CASE ~Reaches(c, command[c].found)
  <2>1. command'[c] = new /\ Commanded' /\ Others(c)
    BY <1>3, <1>4, <1>5, BecomesEffect
  <2> QED
    BY <1>4, <1>5, <2>1 DEF Same, place
<1>6. CASE Reaches(c, command[c].found)
  <2>1. states \in [Commands -> Records] /\ states[c] = new
        /\ \A d \in Commands \ {c} : states[d] = command[d]
    BY <1>4 DEF Commanded
  <2> HIDE DEF states
  <2>2. command' = Disturbed(states)
    BY <1>3, <1>6
  <2> QED
    BY <1>4, <2>1, <2>2, DisturbedLemma DEF Same, place, Others, Stays
<1> QED
  BY <1>5, <1>6

LEMMA ProbeEffect ==
  ASSUME Commanded, NEW c \in Commands, Probe(c), serverLock = Nobody
  PROVE  /\ Commanded' /\ Others(c) /\ Same(c)
         /\ command'[c].found = command[c].found
         /\ command'[c].before = command[c].before
         /\ command'[c].at = "unprobe"
         /\ command[c].do = "show" => \A d \in Commands : ~command'[d].calm
<1> DEFINE new == [command[c] EXCEPT !.at = "unprobe"]
           states == [command EXCEPT ![c] = new]
<1>1. command[c] \in Records
  BY DEF Commanded
<1>2. command' = IF command[c].do = "show" THEN Disturbed(states) ELSE states
  BY DEF Probe
<1>3. /\ new \in Records
      /\ new.at = "unprobe" /\ new.do = command[c].do
      /\ new.child = command[c].child /\ new.result = command[c].result
      /\ new.before = command[c].before /\ new.calm = command[c].calm
      /\ new.found = command[c].found /\ new.key = command[c].key
  BY <1>1 DEF Records, Places
<1> HIDE DEF new
<1>4. states \in [Commands -> Records] /\ states[c] = new
      /\ \A d \in Commands \ {c} : states[d] = command[d]
  BY <1>3 DEF Commanded
<1> HIDE DEF states
<1>5. CASE command[c].do # "show"
  BY <1>2, <1>3, <1>4, <1>5 DEF Commanded, Same, Others, Stays
<1>6. CASE command[c].do = "show"
  BY <1>2, <1>3, <1>4, <1>6, DisturbedLemma DEF Same, Others, Stays
<1> QED
  BY <1>5, <1>6

LEMMA SpawnEffect ==
  ASSUME Commanded, NEW c \in Commands, Spawn(c)
  PROVE  \E i \in Services :
           /\ service[i] = "unborn"
           /\ service' = [service EXCEPT ![i] = "spawned"]
           /\ Commanded' /\ Others(c)
           /\ command'[c].at = "poll" /\ command'[c].child = i /\ command'[c].found = i
           /\ command'[c].do = command[c].do /\ command'[c].result = command[c].result
           /\ command'[c].before = command[c].before
           /\ command'[c].calm = command[c].calm
<1>1. PICK i \in Services :
        /\ service[i] = "unborn"
        /\ service' = [service EXCEPT ![i] = "spawned"]
        /\ Becomes(c, [command[c] EXCEPT !.at = "poll", !.child = i, !.found = i])
  BY DEF Spawn, FirstUnborn, Unborn
<1> DEFINE new == [command[c] EXCEPT !.at = "poll", !.child = i, !.found = i]
<1>2. command[c] \in Records
  BY DEF Commanded
<1>3. /\ new \in Records
      /\ new.at = "poll" /\ new.do = command[c].do
      /\ new.child = i /\ new.found = i /\ new.result = command[c].result
      /\ new.before = command[c].before /\ new.calm = command[c].calm
  BY <1>2 DEF Records, Places
<1> HIDE DEF new
<1>4. command'[c] = new /\ Commanded' /\ Others(c)
  BY <1>1, <1>3, BecomesEffect DEF new
<1> QED
  BY <1>1, <1>3, <1>4

\* A command that is killed or gives up in time.
LEMMA StruckEffect ==
  ASSUME Commanded, NEW c \in Commands, Deadline(c) \/ Kill(c)
  PROVE  /\ Commanded' /\ Others(c)
         /\ \A d \in Commands : ~command'[d].calm
         /\ command'[c].at = "done"
         /\ command'[c].do = command[c].do
         /\ command'[c].result \in {"error", "killed"}
         /\ command'[c].child = Nobody
         /\ command'[c].found = Nobody
         /\ command'[c].before = Nobody
<1>1. PICK result \in {"error", "killed"} :
        command' = Disturbed([command EXCEPT ![c] = Ended(c, result)])
  BY DEF Deadline, Kill
<1> DEFINE states == [command EXCEPT ![c] = Ended(c, result)]
<1>2. result \in Results
  BY DEF Results
<1>3. states \in [Commands -> Records] /\ states[c] = Ended(c, result)
      /\ \A d \in Commands \ {c} : states[d] = command[d]
  BY <1>2, EndedLemma DEF Commanded
<1>4. command' = Disturbed(states)
  BY <1>1
<1> HIDE DEF states
<1> QED
  BY <1>2, <1>3, <1>4, EndedLemma, DisturbedLemma DEF Others, Stays

\* A step of a service leaves the commands alone or disturbs them.
LEMMA BesideEffect ==
  ASSUME Commanded, UNCHANGED command \/ command' = Disturbed(command)
  PROVE  Commanded' /\ \A d \in Commands : Stays(d)
<1>1. CASE UNCHANGED command
  BY <1>1, SameEffect
<1>2. CASE command' = Disturbed(command)
  BY <1>2, DisturbedLemma DEF Stays, Commanded
<1> QED
  BY <1>1, <1>2
-----------------------------------------------------------------------------
(* What the parts of the invariant have in common.                          *)

\* Of the locks, a command touches what is free or its own.
OwnLocks(p) ==
  /\ startLock' = startLock \/ (startLock \in {p, Nobody} /\ startLock' \in {p, Nobody})
  /\ serverLock' = serverLock \/ (serverLock \in {p, Nobody} /\ serverLock' \in {p, Nobody})

CalmStart(c) == command[c].do = "start" /\ command[c].calm

\* While a start or a stop is under way, no other start is, let alone calmly.
LEMMA AloneLemma ==
  ASSUME ProcessesInv, NEW c \in Commands, Underway(c), command[c].do \in {"start", "stop"},
         NEW d \in Commands \ {c}
  PROVE  ~CalmStart(d)
BY DEF ProcessesInv, CommandOK, LockOK, CalmOK, CalmStart

LEMMA StaysLemma ==
  ASSUME NEW d \in Commands, Stays(d), CommandOK(d),
         serverLock' = d <=> serverLock = d, startLock = d => startLock' = d
  PROVE  /\ LockOK(d)' /\ CourseOK(d)'
         /\ service' = service => FoundOK(d)'
         /\ CalmStart(d)' => CalmStart(d)
<1>1. LockOK(d)'
  BY DEF CommandOK, LockOK, Underway, Stays
<1>2. CourseOK(d)'
  BY DEF CommandOK, CourseOK, Stays
<1>3. service' = service => FoundOK(d)'
  BY DEF CommandOK, FoundOK, Stays
<1>4. CalmStart(d)' => CalmStart(d)
  BY DEF CalmStart, Stays
<1> QED
  BY <1>1, <1>2, <1>3, <1>4

LEMMA CalmStays ==
  ASSUME NEW d \in Commands, Stays(d), CalmOK(d), UNCHANGED service,
         serverLock' \in Services \cup {Nobody}
           \/ serverLock' = serverLock \/ ~CalmStart(d)'
  PROVE  CalmOK(d)'
<1>1. SUFFICES ASSUME CalmStart(d)' PROVE Underway(d)' /\ LeftAlone(d)'
  BY DEF CalmOK, CalmStart
<1>2. Underway(d) /\ LeftAlone(d)
  BY <1>1 DEF CalmOK, CalmStart, Stays
<1> QED
  BY <1>1, <1>2 DEF Underway, LeftAlone, Before, After, Stays

\* A step of a command that leaves the services alone.
LEMMA FilesStep ==
  ASSUME ProcessesInv, NEW c \in Commands, Commanded', Others(c), OwnLocks(c),
         UNCHANGED service,
         config' \in Services \cup {Nobody}, token' \in Services \cup {Nobody},
         \A i \in Services : PublishedOK(i)',
         serverLock' = c /\ serverLock # c =>
           \A d \in Commands \ {c} : ~CalmStart(d)',
         CommandOK(c)'
  PROVE  ProcessesInv'
<1>1. Types'
  BY DEF ProcessesInv, Types, OwnLocks
<1>2. \A i \in Services : HoldingOK(i)'
  <2>1. \A i \in Services : serverLock' = i <=> serverLock = i
    BY DEF OwnLocks
  <2> QED
    BY <2>1 DEF ProcessesInv, HoldingOK
<1>3. ASSUME NEW d \in Commands \ {c} PROVE CommandOK(d)'
  <2>1. Stays(d) /\ CommandOK(d)
    BY DEF Others, ProcessesInv
  <2>2. /\ serverLock' = d <=> serverLock = d
        /\ startLock = d => startLock' = d
    BY DEF OwnLocks
  <2>3. LockOK(d)' /\ CourseOK(d)' /\ FoundOK(d)' /\ (CalmStart(d)' => CalmStart(d))
    BY <2>1, <2>2, StaysLemma
  <2>4. \/ serverLock' \in Services \cup {Nobody}
        \/ serverLock' = serverLock
        \/ ~CalmStart(d)'
    BY <2>1, <2>3 DEF OwnLocks, CommandOK, CalmOK, CalmStart, LeftAlone
  <2>5. CalmOK(d)'
    BY <2>1, <2>4, CalmStays DEF CommandOK
  <2> QED
    BY <2>3, <2>5 DEF CommandOK
<1> QED
  BY <1>1, <1>2, <1>3 DEF ProcessesInv

\* One that leaves the discovery files alone too.
LEMMA QuietStep ==
  ASSUME ProcessesInv, NEW c \in Commands, Commanded', Others(c), OwnLocks(c),
         UNCHANGED <<config, token, service>>,
         serverLock' = c /\ serverLock # c =>
           \A d \in Commands \ {c} : ~CalmStart(d)',
         CommandOK(c)'
  PROVE  ProcessesInv'
<1>1. \A i \in Services : PublishedOK(i)'
  BY DEF ProcessesInv, PublishedOK
<1>2. config' \in Services \cup {Nobody} /\ token' \in Services \cup {Nobody}
  BY DEF ProcessesInv, Types
<1> QED
  BY <1>1, <1>2, FilesStep

\* A command returns, a calm start not with an error.
LEMMA ReturnStep ==
  ASSUME ProcessesInv, NEW c \in Commands, NEW result \in Results, Return(c, result),
         UNCHANGED <<config, token, service>>, command[c].at # "idle",
         result = "error" => ~CalmStart(c)
  PROVE  ProcessesInv'
<1>1. /\ Commanded' /\ Others(c)
      /\ command'[c].at = "done" /\ command'[c].do = command[c].do
      /\ command'[c].child = Nobody /\ command'[c].before = Nobody
      /\ command'[c].calm => command[c].calm /\ result = "error"
      /\ startLock' = Without(startLock, c) /\ serverLock' = Without(serverLock, c)
  BY ReturnEffect DEF ProcessesInv, Types
<1>2. OwnLocks(c) /\ serverLock' # c
  BY <1>1 DEF OwnLocks, Without
<1>3. LockOK(c)'
  BY <1>1, <1>2 DEF LockOK, InLock, Underway
<1>4. CourseOK(c)'
  BY <1>1 DEF CourseOK, ProcessesInv, CommandOK
<1>5. FoundOK(c)'
  BY <1>1 DEF FoundOK
<1>6. CalmOK(c)'
  BY <1>1 DEF CalmOK, CalmStart
<1> QED
  BY <1>1, <1>2, <1>3, <1>4, <1>5, <1>6, QuietStep DEF CommandOK

\* What is known of the command that takes a step.
LEMMA OfCommand ==
  ASSUME ProcessesInv, NEW c \in Commands
  PROVE  /\ LockOK(c) /\ CourseOK(c) /\ FoundOK(c) /\ CalmOK(c) /\ Commanded
         /\ serverLock \in Commands \cup Services \cup {Nobody}
         /\ config \in Services \cup {Nobody} /\ token \in Services \cup {Nobody}
BY DEF ProcessesInv, CommandOK, Types

-----------------------------------------------------------------------------
(* The steps of the commands.                                               *)

LEMMA BeginStep ==
  ASSUME ProcessesInv, NEW c \in Commands, NEW do \in {"start", "stop", "show"}, Begin(c, do)
  PROVE  ProcessesInv'
<1>1. /\ Commanded' /\ Others(c) /\ command[c].at = "idle"
      /\ command'[c].do = do
      /\ command'[c].at = (IF do = "show" THEN "read" ELSE "begin")
      /\ command'[c].found = command[c].found
      /\ command'[c].child = command[c].child
      /\ command'[c].result = command[c].result
      /\ command'[c].before = command[c].before
      /\ command'[c].calm = command[c].calm
      /\ UNCHANGED <<startLock, serverLock, config, token, service>>
  BY BeginEffect, OfCommand DEF Begin
<1>2. LockOK(c)' /\ CourseOK(c)' /\ FoundOK(c)' /\ CalmOK(c)'
  BY <1>1, OfCommand DEF LockOK, InLock, Underway, CourseOK, FoundOK, CalmOK
<1> QED
  BY <1>1, <1>2, QuietStep DEF CommandOK, OwnLocks

LEMMA AcquireStartStep ==
  ASSUME ProcessesInv, NEW c \in Commands, AcquireStart(c)
  PROVE  ProcessesInv'
<1>1. /\ Commanded' /\ Others(c) /\ command[c].at = "begin"
      /\ command'[c].at = "read"
      /\ command'[c].do = command[c].do
      /\ command'[c].child = command[c].child
      /\ command'[c].result = command[c].result
      /\ command'[c].before = serverLock
      /\ command'[c].calm => /\ serverLock \notin Commands
                             /\ \A i \in Services : service[i] \in {"unborn", "serving", "gone"}
      /\ startLock = Nobody /\ startLock' = c
      /\ UNCHANGED <<serverLock, config, token, service>>
  BY AcquireStartEffect, OfCommand DEF AcquireStart
<1>2. LockOK(c)' /\ CourseOK(c)'
  BY <1>1, OfCommand DEF LockOK, InLock, CourseOK
<1>3. FoundOK(c)'
  BY <1>1 DEF FoundOK, ProcessesInv, HoldingOK, Held
<1>4. command[c].child = Nobody
  BY <1>1, OfCommand DEF CourseOK
<1>5. CalmOK(c)'
  BY <1>1, <1>4, OfCommand DEF CalmOK, Underway, LeftAlone, Before
<1> QED
  BY <1>1, <1>2, <1>3, <1>5, QuietStep DEF CommandOK, OwnLocks

LEMMA ReadConfigStep ==
  ASSUME ProcessesInv, NEW c \in Commands, ReadConfig(c)
  PROVE  ProcessesInv'
<1>1. /\ Commanded' /\ Others(c) /\ Same(c) /\ command[c].at = "read"
      /\ command'[c].found = config
      /\ command'[c].before = command[c].before
      /\ command'[c].at = (IF config # Nobody /\ Alive(config) THEN "token" ELSE "probe")
      /\ UNCHANGED <<startLock, serverLock, config, token, service>>
  BY ReadConfigEffect, OfCommand DEF ReadConfig
<1>2. LockOK(c)' /\ CourseOK(c)' /\ FoundOK(c)'
  BY <1>1, OfCommand DEF Same, LockOK, InLock, Underway, CourseOK, FoundOK, Alive
<1>3. CalmOK(c)'
  <2>1. SUFFICES ASSUME CalmStart(c)' PROVE Underway(c)' /\ LeftAlone(c)'
    BY DEF CalmOK, CalmStart
  <2>2. LeftAlone(c) /\ command[c].child = Nobody
    BY <1>1, <2>1, OfCommand DEF CalmOK, CalmStart, Same, CourseOK
  <2>3. \A i \in Services : service[i] = "serving" => config = i
    BY DEF ProcessesInv, PublishedOK
  <2>4. Before(c)'
    BY <1>1, <2>2, <2>3 DEF LeftAlone, Before, Alive
  <2>5. command'[c].at \in {"token", "hello"} => service'[command'[c].found] = "serving"
    BY <1>1, <2>2, OfCommand DEF LeftAlone, Before, Alive
  <2> QED
    BY <1>1, <2>2, <2>4, <2>5 DEF Underway, LeftAlone, Same
<1> QED
  BY <1>1, <1>2, <1>3, QuietStep DEF CommandOK, OwnLocks

LEMMA ReadKeyStep ==
  ASSUME ProcessesInv, NEW c \in Commands, ReadToken(c) \/ ReadKey(c)
  PROVE  ProcessesInv'
<1>1. /\ Commanded' /\ Others(c) /\ Same(c) /\ command[c].at \in {"token", "key"}
      /\ command'[c].key = token
      /\ command'[c].found = command[c].found
      /\ command'[c].before = command[c].before
      /\ command'[c].at = (IF command[c].at = "token" THEN "hello" ELSE "control")
      /\ UNCHANGED <<startLock, serverLock, config, token, service>>
  BY ReadKeyEffect, OfCommand DEF ReadToken, ReadKey
<1>2. LockOK(c)' /\ CourseOK(c)' /\ FoundOK(c)'
  <2>1. LockOK(c)'
    BY <1>1, OfCommand DEF Same, LockOK, InLock, Underway
  <2>2. CourseOK(c)'
    BY <1>1, OfCommand DEF Same, CourseOK
  <2>3. FoundOK(c)'
    BY <1>1, OfCommand DEF Same, FoundOK
  <2> QED
    BY <2>1, <2>2, <2>3
<1>3. CalmOK(c)'
  <2>1. SUFFICES ASSUME CalmStart(c)' PROVE Underway(c)' /\ LeftAlone(c)'
    BY DEF CalmOK, CalmStart
  <2>2. LeftAlone(c) /\ command[c].at = "token"
    BY <1>1, <2>1, OfCommand DEF CalmOK, CalmStart, Same, CourseOK
  <2>3. service[command[c].found] = "serving" /\ command[c].found \in Services
    BY <2>2, OfCommand DEF LeftAlone, FoundOK
  <2>4. token = command[c].found
    BY <2>3 DEF ProcessesInv, PublishedOK
  <2> QED
    BY <1>1, <2>2, <2>3, <2>4 DEF Underway, LeftAlone, Before, After, Same
<1> QED
  BY <1>1, <1>2, <1>3, QuietStep DEF CommandOK, OwnLocks

LEMMA HelloSucceedsStep ==
  ASSUME ProcessesInv, NEW c \in Commands, HelloSucceeds(c)
  PROVE  ProcessesInv'
<1>1. command[c].at = "hello" /\ UNCHANGED <<config, token, service>>
  BY DEF HelloSucceeds
<1>2. CASE command[c].do # "stop"
  <2>1. Return(c, "running")
    BY <1>2 DEF HelloSucceeds
  <2> QED
    BY <1>1, <2>1, ReturnStep DEF Results
<1>3. CASE command[c].do = "stop"
  <2>1. Goes(c, "key") /\ UNCHANGED <<startLock, serverLock>>
    BY <1>3 DEF HelloSucceeds
  <2>2. /\ Commanded' /\ Others(c) /\ command'[c].at = "key"
        /\ command'[c].do = command[c].do /\ command'[c].found = command[c].found
        /\ command'[c].child = command[c].child /\ command'[c].result = command[c].result
        /\ command'[c].before = command[c].before /\ command'[c].calm = command[c].calm
    BY <2>1, GoesEffect, OfCommand DEF Places
  <2>3. LockOK(c)' /\ CourseOK(c)' /\ FoundOK(c)' /\ CalmOK(c)'
    BY <1>1, <1>3, <2>1, <2>2, OfCommand DEF LockOK, InLock, Underway, CourseOK, FoundOK, CalmOK
  <2> QED
    BY <1>1, <2>1, <2>2, <2>3, QuietStep DEF CommandOK, OwnLocks
<1> QED
  BY <1>2, <1>3

LEMMA HelloFailsStep ==
  ASSUME ProcessesInv, NEW c \in Commands, HelloFails(c)
  PROVE  ProcessesInv'
<1>1. /\ Commanded' /\ Others(c) /\ Same(c) /\ command[c].at = "hello"
      /\ command'[c].found = command[c].found
      /\ command'[c].before = command[c].before
      /\ command'[c].at = (IF command[c].child = Nobody THEN "probe" ELSE "poll")
      /\ command'[c].calm => ~Reaches(c, command[c].found)
      /\ UNCHANGED <<startLock, serverLock, config, token, service>>
  BY HelloFailsEffect, OfCommand DEF HelloFails
<1>2. LockOK(c)' /\ CourseOK(c)' /\ FoundOK(c)'
  <2>1. LockOK(c)'
    BY <1>1, OfCommand DEF Same, LockOK, InLock, Underway
  <2>2. CourseOK(c)'
    BY <1>1, OfCommand DEF Same, CourseOK
  <2>3. FoundOK(c)'
    BY <1>1, OfCommand DEF Same, FoundOK
  <2> QED
    BY <2>1, <2>2, <2>3
<1>3. ~CalmStart(c)'
  BY <1>1, OfCommand DEF Same, CalmStart, CalmOK, LeftAlone, Reaches
<1> QED
  BY <1>1, <1>2, <1>3, QuietStep DEF CommandOK, OwnLocks, CalmOK, CalmStart

LEMMA ProbeStep ==
  ASSUME ProcessesInv, NEW c \in Commands, Probe(c)
  PROVE  ProcessesInv'
<1>1. command[c].at = "probe" /\ UNCHANGED <<config, token, service>>
  BY DEF Probe
<1>2. CalmStart(c) => serverLock = Nobody
  <2>1. SUFFICES ASSUME CalmStart(c), serverLock # Nobody PROVE FALSE
    OBVIOUS
  <2>2. LeftAlone(c)
    BY <2>1, OfCommand DEF CalmStart, CalmOK
  <2>3. command[c].child = Nobody
    BY <1>1, OfCommand DEF CourseOK
  <2>4. \A i \in Services : service[i] \in {"unborn", "gone"}
    BY <1>1, <2>2, <2>3 DEF LeftAlone, Before
  <2>5. serverLock \notin Services
    BY <2>4 DEF ProcessesInv, HoldingOK, Held
  <2>6. serverLock # c
    BY <1>1, OfCommand DEF LockOK, InLock
  <2> QED
    BY <2>1, <2>2, <2>5, <2>6 DEF LeftAlone
<1>3. CASE serverLock # Nobody
  <2>1. Return(c, "error")
    BY <1>3 DEF Probe
  <2> QED
    BY <1>1, <1>2, <1>3, <2>1, ReturnStep DEF Results
<1>4. CASE serverLock = Nobody
  <2>1. /\ Commanded' /\ Others(c) /\ Same(c)
        /\ command'[c].found = command[c].found
        /\ command'[c].before = command[c].before
        /\ command'[c].at = "unprobe"
        /\ command[c].do = "show" => \A d \in Commands : ~command'[d].calm
        /\ serverLock' = c /\ startLock' = startLock
    BY <1>4, ProbeEffect, OfCommand DEF Probe
  <2>2. LockOK(c)' /\ CourseOK(c)'
    BY <1>1, <2>1, OfCommand DEF Same, LockOK, InLock, Underway, CourseOK
  <2>3. FoundOK(c)'
    <3>1. command[c].before \in Services => service[command[c].before] \notin Held
      BY <1>4 DEF ProcessesInv, HoldingOK
    <3>2. command[c].before \in Services =>
            /\ service[command[c].before] \in Stages
            /\ service[command[c].before] \notin {"unborn", "spawned"}
      BY OfCommand DEF FoundOK, ProcessesInv, Types
    <3> QED
      BY <1>1, <2>1, <3>1, <3>2, OfCommand DEF FoundOK, Same, Held
  <2>4. CalmOK(c)'
    BY <1>1, <2>1, OfCommand DEF CalmOK, Underway, LeftAlone, Before, CourseOK, Same
  <2>5. \A d \in Commands \ {c} : ~CalmStart(d)'
    <3>1. CASE command[c].do = "show"
      BY <2>1, <3>1 DEF CalmStart
    <3>2. CASE command[c].do # "show"
      <4>1. command[c].do \in {"start", "stop"} /\ Underway(c)
        BY <1>1, <3>2, OfCommand DEF CourseOK, Underway, Commanded, Records
      <4> QED
        BY <2>1, <4>1, AloneLemma DEF Others, Stays, CalmStart
    <3> QED
      BY <3>1, <3>2
  <2> QED
    BY <1>1, <1>4, <2>1, <2>2, <2>3, <2>4, <2>5, QuietStep DEF CommandOK, OwnLocks
<1> QED
  BY <1>3, <1>4

LEMMA UnprobeStep ==
  ASSUME ProcessesInv, NEW c \in Commands, Unprobe(c)
  PROVE  ProcessesInv'
<1>1. command[c].at = "unprobe" /\ UNCHANGED <<config, token, service>>
  BY DEF Unprobe
<1>2. CASE command[c].do = "show"
  <2>1. Return(c, "none")
    BY <1>2 DEF Unprobe
  <2> QED
    BY <1>1, <2>1, ReturnStep DEF Results
<1>3. CASE command[c].do # "show"
  <2>1. Goes(c, "lock") /\ serverLock' = Nobody /\ startLock' = startLock
    BY <1>3 DEF Unprobe
  <2>2. /\ Commanded' /\ Others(c) /\ command'[c].at = "lock"
        /\ command'[c].do = command[c].do /\ command'[c].found = command[c].found
        /\ command'[c].child = command[c].child /\ command'[c].result = command[c].result
        /\ command'[c].before = command[c].before /\ command'[c].calm = command[c].calm
    BY <2>1, GoesEffect, OfCommand DEF Places
  <2>3. command[c].do \in {"start", "stop"} /\ serverLock = c
    BY <1>1, <1>3, OfCommand DEF CourseOK, LockOK, InLock, Commanded, Records
  <2>4. LockOK(c)' /\ CourseOK(c)' /\ FoundOK(c)'
    BY <1>1, <2>1, <2>2, <2>3, OfCommand DEF LockOK, InLock, Underway, CourseOK, FoundOK
  <2>5. CalmOK(c)'
    <3>1. SUFFICES ASSUME CalmStart(c)' PROVE Underway(c)' /\ LeftAlone(c)'
      BY DEF CalmOK, CalmStart
    <3>2. LeftAlone(c) /\ command[c].child = Nobody
      BY <1>1, <2>2, <3>1, OfCommand DEF CalmOK, CalmStart, CourseOK
    <3>3. Before(c)'
      BY <1>1, <2>2, <3>2 DEF LeftAlone, Before
    <3> QED
      BY <2>1, <2>2, <3>2, <3>3 DEF Underway, LeftAlone
  <2> QED
    BY <1>1, <2>1, <2>2, <2>3, <2>4, <2>5, QuietStep DEF CommandOK, OwnLocks
<1> QED
  BY <1>2, <1>3

LEMMA LockStep ==
  ASSUME ProcessesInv, NEW c \in Commands, Lock(c)
  PROVE  ProcessesInv'
<1>1. command[c].at = "lock" /\ UNCHANGED <<config, token, service>>
  BY DEF Lock
<1>2. CalmStart(c) => serverLock = Nobody
  <2>1. SUFFICES ASSUME CalmStart(c), serverLock # Nobody PROVE FALSE
    OBVIOUS
  <2>2. LeftAlone(c)
    BY <2>1, OfCommand DEF CalmStart, CalmOK
  <2>3. command[c].child = Nobody
    BY <1>1, OfCommand DEF CourseOK
  <2>4. \A i \in Services : service[i] \in {"unborn", "gone"}
    BY <1>1, <2>2, <2>3 DEF LeftAlone, Before
  <2>5. serverLock \notin Services
    BY <2>4 DEF ProcessesInv, HoldingOK, Held
  <2>6. serverLock # c
    BY <1>1, OfCommand DEF LockOK, InLock
  <2> QED
    BY <2>1, <2>2, <2>5, <2>6 DEF LeftAlone
<1>3. CASE serverLock # Nobody
  <2>1. Return(c, "none") \/ Return(c, "error")
    BY <1>3 DEF Lock
  <2> QED
    BY <1>1, <1>2, <1>3, <2>1, ReturnStep DEF Results
<1>4. CASE serverLock = Nobody
  <2>1. Goes(c, "clear") /\ serverLock' = c /\ startLock' = startLock
    BY <1>4 DEF Lock
  <2>2. /\ Commanded' /\ Others(c) /\ command'[c].at = "clear"
        /\ command'[c].do = command[c].do /\ command'[c].found = command[c].found
        /\ command'[c].child = command[c].child /\ command'[c].result = command[c].result
        /\ command'[c].before = command[c].before /\ command'[c].calm = command[c].calm
    BY <2>1, GoesEffect, OfCommand DEF Places
  <2>3. LockOK(c)' /\ CourseOK(c)' /\ FoundOK(c)'
    BY <1>1, <2>1, <2>2, OfCommand DEF LockOK, InLock, Underway, CourseOK, FoundOK
  <2>4. CalmOK(c)'
    BY <1>1, <2>1, <2>2, OfCommand DEF CalmOK, Underway, LeftAlone, Before, CourseOK
  <2>5. \A d \in Commands \ {c} : ~CalmStart(d)'
    <3>1. command[c].do \in {"start", "stop"} /\ Underway(c)
      BY <1>1, OfCommand DEF CourseOK, Underway
    <3> QED
      BY <2>2, <3>1, AloneLemma DEF Others, Stays, CalmStart
  <2> QED
    BY <1>1, <1>4, <2>1, <2>2, <2>3, <2>4, <2>5, QuietStep DEF CommandOK, OwnLocks
<1> QED
  BY <1>3, <1>4

LEMMA PollStep ==
  ASSUME ProcessesInv, NEW c \in Commands, Poll(c)
  PROVE  ProcessesInv'
<1>1. command[c].at = "poll" /\ UNCHANGED <<config, token, service>>
  BY DEF Poll
<1>2. command[c].child # Nobody
  BY <1>1, OfCommand DEF CourseOK
<1>3. CASE service[command[c].child] = "gone" /\ Return(c, "error")
  <2>1. ~CalmStart(c)
    BY <1>2, <1>3, OfCommand DEF CalmStart, CalmOK, LeftAlone, After
  <2> QED
    BY <1>1, <1>3, <2>1, ReturnStep DEF Results
<1>4. CASE /\ config = command[c].child /\ Goes(c, "token")
           /\ UNCHANGED <<startLock, serverLock>>
  <2>2. /\ Commanded' /\ Others(c) /\ command'[c].at = "token"
        /\ command'[c].do = command[c].do /\ command'[c].found = command[c].found
        /\ command'[c].child = command[c].child /\ command'[c].result = command[c].result
        /\ command'[c].before = command[c].before /\ command'[c].calm = command[c].calm
    BY <1>4, GoesEffect, OfCommand DEF Places
  <2>3. LockOK(c)' /\ CourseOK(c)' /\ FoundOK(c)'
    BY <1>1, <1>4, <2>2, OfCommand DEF LockOK, InLock, Underway, CourseOK, FoundOK
  <2>4. command[c].child \in Services /\ service[config] \notin {"unborn", "spawned", "locked", "publishing"}
    BY <1>2, <1>4, OfCommand DEF ProcessesInv, PublishedOK
  <2>5. CalmOK(c)'
    <3>1. SUFFICES ASSUME CalmStart(c)' PROVE Underway(c)' /\ LeftAlone(c)'
      BY DEF CalmOK, CalmStart
    <3>2. LeftAlone(c)
      BY <1>1, <2>2, <3>1, OfCommand DEF CalmOK, CalmStart
    <3>3. After(c) /\ After(c)'
      BY <1>1, <1>2, <2>2, <3>2 DEF LeftAlone, After
    <3>4. service[command[c].found] = "serving"
      BY <1>4, <2>4, <3>3 DEF After
    <3> QED
      BY <1>1, <1>2, <1>4, <2>2, <3>2, <3>3, <3>4 DEF Underway, LeftAlone
  <2> QED
    BY <1>1, <1>4, <2>2, <2>3, <2>5, QuietStep DEF CommandOK, OwnLocks
<1> QED
  BY <1>3, <1>4 DEF Poll

\* The steps of a stop that take no service.
LEMMA ReplyStep ==
  ASSUME ProcessesInv, NEW c \in Commands, Reply(c)
  PROVE  ProcessesInv'
<1>1. command[c].at = "reply" /\ UNCHANGED <<config, token, service>>
  BY DEF Reply
<1>2. command[c].do = "stop" /\ ~CalmStart(c)
  BY <1>1, OfCommand DEF CourseOK, CalmStart
<1>3. CASE Return(c, "error")
  BY <1>1, <1>2, <1>3, ReturnStep DEF Results
<1>4. CASE Goes(c, "wait") /\ UNCHANGED <<startLock, serverLock>>
  <2>2. /\ Commanded' /\ Others(c) /\ command'[c].at = "wait"
        /\ command'[c].do = command[c].do /\ command'[c].found = command[c].found
        /\ command'[c].child = command[c].child /\ command'[c].result = command[c].result
        /\ command'[c].before = command[c].before /\ command'[c].calm = command[c].calm
    BY <1>4, GoesEffect, OfCommand DEF Places
  <2>3. LockOK(c)' /\ CourseOK(c)' /\ FoundOK(c)' /\ CalmOK(c)'
    BY <1>1, <1>2, <1>4, <2>2, OfCommand DEF LockOK, InLock, Underway, CourseOK, FoundOK, CalmOK
  <2> QED
    BY <1>1, <1>4, <2>2, <2>3, QuietStep DEF CommandOK, OwnLocks
<1> QED
  BY <1>3, <1>4 DEF Reply

LEMMA WaitStep ==
  ASSUME ProcessesInv, NEW c \in Commands, Wait(c)
  PROVE  ProcessesInv'
<1>1. /\ command[c].at = "wait" /\ serverLock = Nobody /\ serverLock' = c
      /\ Goes(c, "check") /\ UNCHANGED <<startLock, config, token, service>>
  BY DEF Wait
<1>2. command[c].do = "stop" /\ Underway(c)
  BY <1>1, OfCommand DEF CourseOK, Underway
<1>3. /\ Commanded' /\ Others(c) /\ command'[c].at = "check"
      /\ command'[c].do = command[c].do /\ command'[c].found = command[c].found
      /\ command'[c].child = command[c].child /\ command'[c].result = command[c].result
      /\ command'[c].before = command[c].before /\ command'[c].calm = command[c].calm
  BY <1>1, GoesEffect, OfCommand DEF Places
<1>4. LockOK(c)' /\ CourseOK(c)' /\ FoundOK(c)' /\ CalmOK(c)'
  BY <1>1, <1>2, <1>3, OfCommand DEF LockOK, InLock, Underway, CourseOK, FoundOK, CalmOK
<1>5. \A d \in Commands \ {c} : ~CalmStart(d)'
  BY <1>2, <1>3, AloneLemma DEF Others, Stays, CalmStart
<1> QED
  BY <1>1, <1>3, <1>4, <1>5, QuietStep DEF CommandOK, OwnLocks

LEMMA CheckStep ==
  ASSUME ProcessesInv, NEW c \in Commands, Check(c)
  PROVE  ProcessesInv'
<1>1. command[c].at = "check" /\ UNCHANGED <<config, token, service>>
  BY DEF Check
<1>2. command[c].do = "stop" /\ ~CalmStart(c) /\ serverLock = c
  BY <1>1, OfCommand DEF CourseOK, CalmStart, LockOK, InLock
<1>3. CASE \E result \in Results : Return(c, result)
  BY <1>1, <1>2, <1>3, ReturnStep
<1>4. CASE Goes(c, "wait") /\ serverLock' = Nobody /\ UNCHANGED startLock
  <2>2. /\ Commanded' /\ Others(c) /\ command'[c].at = "wait"
        /\ command'[c].do = command[c].do /\ command'[c].found = command[c].found
        /\ command'[c].child = command[c].child /\ command'[c].result = command[c].result
        /\ command'[c].before = command[c].before /\ command'[c].calm = command[c].calm
    BY <1>4, GoesEffect, OfCommand DEF Places
  <2>3. LockOK(c)' /\ CourseOK(c)' /\ FoundOK(c)' /\ CalmOK(c)'
    BY <1>1, <1>2, <1>4, <2>2, OfCommand DEF LockOK, InLock, Underway, CourseOK, FoundOK, CalmOK
  <2> QED
    BY <1>1, <1>2, <1>4, <2>2, <2>3, QuietStep DEF CommandOK, OwnLocks
<1> QED
  BY <1>3, <1>4 DEF Check, Results

LEMMA StruckStep ==
  ASSUME ProcessesInv, NEW c \in Commands, Deadline(c) \/ Kill(c)
  PROVE  ProcessesInv'
<1>1. /\ Commanded' /\ Others(c)
      /\ \A d \in Commands : ~command'[d].calm
      /\ command'[c].at = "done"
      /\ command'[c].do = command[c].do
      /\ command'[c].result \in {"error", "killed"}
      /\ command'[c].child = Nobody
      /\ command'[c].before = Nobody
  BY StruckEffect, OfCommand
<1>2. /\ command[c].at # "idle" /\ UNCHANGED <<config, token, service>>
      /\ startLock' = Without(startLock, c)
      /\ serverLock' = Without(serverLock, c)
  BY OfCommand DEF Deadline, Kill, Without, LockOK, InLock
<1>3. OwnLocks(c) /\ serverLock' # c
  BY <1>2 DEF OwnLocks, Without
<1>4. LockOK(c)' /\ CourseOK(c)' /\ FoundOK(c)' /\ CalmOK(c)'
  BY <1>1, <1>2, <1>3, OfCommand DEF LockOK, InLock, Underway, CourseOK, FoundOK, CalmOK
<1> QED
  BY <1>1, <1>2, <1>3, <1>4, QuietStep DEF CommandOK

\* clear_discovery: no service holds server.lock while a command does.
LEMMA ClearStep ==
  ASSUME ProcessesInv, NEW c \in Commands, Clear(c) \/ ClearToken(c)
  PROVE  ProcessesInv'
<1>1. /\ command[c].at \in {"clear", "clear token"} /\ UNCHANGED service
      /\ config' \in {config, Nobody} /\ token' \in {token, Nobody}
  BY DEF Clear, ClearToken
<1>2. /\ serverLock = c /\ Underway(c) /\ command[c].do \in {"start", "stop"}
      /\ startLock = c
  BY <1>1, OfCommand DEF LockOK, InLock, CourseOK, Underway
<1>3. \A i \in Services : PublishedOK(i)'
  <2>1. \A i \in Services : service[i] \in Stages /\ service[i] \notin Held
    BY <1>2 DEF ProcessesInv, HoldingOK, Types
  <2> QED
    BY <1>1, <2>1 DEF ProcessesInv, PublishedOK, Held
<1>4. config' \in Services \cup {Nobody} /\ token' \in Services \cup {Nobody}
  BY <1>1, OfCommand
<1>5. ASSUME NEW place \in {"clear token", "spawn"}, Goes(c, place), startLock' = startLock,
             place = "clear token" => serverLock' = serverLock,
             place = "spawn" => serverLock' = Nobody /\ command[c].do = "start"
      PROVE  ProcessesInv'
  <2>1. /\ Commanded' /\ Others(c) /\ command'[c].at = place
        /\ command'[c].do = command[c].do /\ command'[c].found = command[c].found
        /\ command'[c].child = command[c].child /\ command'[c].result = command[c].result
        /\ command'[c].before = command[c].before /\ command'[c].calm = command[c].calm
    BY <1>5, GoesEffect, OfCommand DEF Places
  <2>2. LockOK(c)'
    BY <1>1, <1>2, <1>5, <2>1 DEF LockOK, InLock
  <2>3. CourseOK(c)' /\ FoundOK(c)'
    BY <1>1, <1>5, <2>1, OfCommand DEF CourseOK, FoundOK
  <2>4. CalmOK(c)'
    <3>1. SUFFICES ASSUME CalmStart(c)' PROVE Underway(c)' /\ LeftAlone(c)'
      BY DEF CalmOK, CalmStart
    <3>2. LeftAlone(c) /\ command[c].child = Nobody
      BY <1>1, <2>1, <3>1, OfCommand DEF CalmOK, CalmStart, CourseOK
    <3>3. Before(c)'
      BY <1>1, <2>1, <3>2 DEF LeftAlone, Before
    <3> QED
      BY <1>2, <1>5, <2>1, <3>2, <3>3 DEF Underway, LeftAlone
  <2> QED
    BY <1>1, <1>2, <1>3, <1>4, <1>5, <2>1, <2>2, <2>3, <2>4, FilesStep DEF CommandOK, OwnLocks
<1>6. CASE ClearToken(c) /\ Return(c, "none")
  <2>1. /\ Commanded' /\ Others(c)
        /\ command'[c].at = "done" /\ command'[c].do = command[c].do
        /\ command'[c].child = Nobody /\ command'[c].before = Nobody
        /\ ~command'[c].calm
        /\ startLock' = Without(startLock, c) /\ serverLock' = Without(serverLock, c)
    BY <1>6, ReturnEffect, OfCommand DEF Results
  <2>2. OwnLocks(c) /\ serverLock' # c
    BY <2>1 DEF OwnLocks, Without
  <2>3. LockOK(c)' /\ FoundOK(c)' /\ CalmOK(c)'
    BY <2>1, <2>2 DEF LockOK, InLock, Underway, FoundOK, CalmOK
  <2>4. CourseOK(c)'
    BY <1>1, <2>1, OfCommand DEF CourseOK
  <2> QED
    BY <1>1, <1>3, <1>4, <2>1, <2>2, <2>3, <2>4, FilesStep DEF CommandOK
<1>7. CASE Clear(c)
  BY <1>5, <1>7 DEF Clear
<1>8. CASE ClearToken(c) /\ ~Return(c, "none")
  BY <1>1, <1>2, <1>5, <1>8 DEF ClearToken
<1> QED
  BY <1>6, <1>7, <1>8

-----------------------------------------------------------------------------
(* The steps of the services, and those of commands that move one.          *)

\* A service is not unborn again, and what leaves is gone next.
Forward(i, place) ==
  /\ service[i] # "gone"
  /\ service[i] = "leaving" => place = "gone"
  /\ place = "spawned" => service[i] = "unborn"

LEMMA FoundStays ==
  ASSUME ProcessesInv, NEW i \in Services, NEW place \in Stages \ {"unborn"},
         Moves(i, place), Forward(i, place), NEW d \in Commands, Stays(d)
  PROVE  FoundOK(d)'
<1>1. service' = [service EXCEPT ![i] = place] /\ service \in [Services -> Stages]
  BY DEF Moves, ProcessesInv, Types
<1>2. FoundOK(d)
  BY OfCommand
<1>3. \A j \in Services : service'[j] = IF j = i THEN place ELSE service[j]
  BY <1>1
<1> QED
  BY <1>2, <1>3 DEF FoundOK, Stays, Forward

LEMMA MovedTypes ==
  ASSUME ProcessesInv, NEW i \in Services, NEW place \in Stages \ {"unborn"},
         Moves(i, place), serverLock' = i <=> place \in Held,
         serverLock' = serverLock \/ (serverLock \in {i, Nobody} /\ serverLock' \in {i, Nobody})
  PROVE  /\ service' \in [Services -> Stages]
         /\ \A j \in Services : service'[j] = IF j = i THEN place ELSE service[j]
         /\ \A j \in Services : HoldingOK(j)'
<1>1. service' = [service EXCEPT ![i] = place] /\ service \in [Services -> Stages]
  BY DEF Moves, ProcessesInv, Types
<1>2. \A j \in Services : service'[j] = IF j = i THEN place ELSE service[j]
  BY <1>1
<1>3. \A j \in Services : HoldingOK(j)'
  BY <1>2 DEF HoldingOK, ProcessesInv
<1> QED
  BY <1>1, <1>2, <1>3

LEMMA ServiceStep ==
  ASSUME ProcessesInv, NEW i \in Services, NEW place \in Stages \ {"unborn"},
         Moves(i, place), Forward(i, place), UNCHANGED startLock,
         serverLock' = i <=> place \in Held,
         serverLock' = serverLock \/ (serverLock \in {i, Nobody} /\ serverLock' \in {i, Nobody}),
         config' \in Services \cup {Nobody}, token' \in Services \cup {Nobody},
         \A j \in Services : PublishedOK(j)',
         UNCHANGED command \/ command' = Disturbed(command),
         \A c \in Commands : CalmStart(c) /\ UNCHANGED command => LeftAlone(c)'
  PROVE  ProcessesInv'
<1>1. Commanded' /\ \A d \in Commands : Stays(d)
  BY BesideEffect DEF ProcessesInv, Types
<1>2. service' \in [Services -> Stages] /\ \A j \in Services : HoldingOK(j)'
  BY MovedTypes
<1>3. Types'
  BY <1>1, <1>2 DEF ProcessesInv, Types
<1>4. ASSUME NEW d \in Commands PROVE CommandOK(d)'
  <2>1. Stays(d) /\ CommandOK(d)
    BY <1>1 DEF ProcessesInv
  <2>2. (serverLock' = d <=> serverLock = d) /\ (startLock = d => startLock' = d)
    OBVIOUS
  <2>3. LockOK(d)' /\ CourseOK(d)' /\ FoundOK(d)'
    BY <2>1, <2>2, StaysLemma, FoundStays
  <2>4. CalmOK(d)'
    <3>1. CASE command' = Disturbed(command)
      BY <3>1, DisturbedLemma DEF ProcessesInv, Types, Commanded, CalmOK
    <3>2. CASE UNCHANGED command
      BY <2>1, <3>2 DEF CommandOK, CalmOK, CalmStart, Underway
    <3> QED
      BY <3>1, <3>2
  <2> QED
    BY <2>3, <2>4 DEF CommandOK
<1> QED
  BY <1>2, <1>3, <1>4 DEF ProcessesInv

\* A service on its way, and a start that was left alone: it is its child.
LEMMA ChildLemma ==
  ASSUME ProcessesInv, NEW c \in Commands, CalmStart(c), NEW i \in Services,
         service[i] \notin {"unborn", "serving", "gone"}
  PROVE  /\ command[c].child = i /\ i # Nobody /\ command[c].at = "poll"
         /\ service[i] \in {"spawned", "locked", "publishing"}
         /\ serverLock \in {i, Nobody}
         /\ LeftAlone(c) /\ After(c)
<1>1. LeftAlone(c)
  BY OfCommand DEF CalmOK, CalmStart
<1>2. command[c].child # Nobody /\ After(c)
  BY <1>1 DEF LeftAlone, Before
<1>3. command[c].child = i /\ service[i] \in {"spawned", "locked", "publishing"}
  BY <1>2 DEF After
<1>4. command[c].at = "poll"
  BY <1>1, <1>2, <1>3, OfCommand DEF CourseOK, LeftAlone, After
<1>5. serverLock # c
  BY <1>4, OfCommand DEF LockOK, InLock
<1>6. serverLock \in {i, Nobody}
  BY <1>1, <1>2, <1>3, <1>5 DEF LeftAlone, After, ProcessesInv, HoldingOK, Held
<1> QED
  BY <1>1, <1>2, <1>3, <1>4, <1>6

LEMMA ChildRises ==
  ASSUME ProcessesInv, NEW c \in Commands, CalmStart(c), NEW i \in Services,
         service[i] \notin {"unborn", "serving", "gone"},
         NEW place \in {"locked", "publishing", "serving"},
         Moves(i, place), serverLock' \in {i, serverLock}, UNCHANGED command
  PROVE  LeftAlone(c)'
<1>1. /\ command[c].child = i /\ i # Nobody /\ command[c].at = "poll"
      /\ serverLock \in {i, Nobody} /\ LeftAlone(c) /\ After(c)
  BY ChildLemma
<1>2. service' = [service EXCEPT ![i] = place] /\ service \in [Services -> Stages]
  BY DEF Moves, ProcessesInv, Types
<1>3. \A j \in Services : service'[j] = IF j = i THEN place ELSE service[j]
  BY <1>2
<1>4. After(c)'
  BY <1>1, <1>3 DEF After
<1> QED
  BY <1>1, <1>4 DEF LeftAlone

LEMMA OfService ==
  ASSUME ProcessesInv, NEW i \in Services
  PROVE  /\ HoldingOK(i) /\ PublishedOK(i) /\ service[i] \in Stages
         /\ serverLock \in Commands \cup Services \cup {Nobody}
         /\ config \in Services \cup {Nobody} /\ token \in Services \cup {Nobody}
BY DEF ProcessesInv, Types

\* The other services, whatever one that holds server.lock writes.
LEMMA OthersPublished ==
  ASSUME ProcessesInv, NEW i \in Services, NEW j \in Services, j # i,
         service'[j] = service[j],
         UNCHANGED <<config, token>> \/ (serverLock = i /\ config' \in {config, i, Nobody})
  PROVE  PublishedOK(j)'
<1>1. PublishedOK(j) /\ HoldingOK(j) /\ service[j] \in Stages
  BY OfService
<1>2. CASE UNCHANGED <<config, token>>
  BY <1>1, <1>2 DEF PublishedOK
<1>3. CASE serverLock = i /\ config' \in {config, i, Nobody}
  BY <1>1, <1>3 DEF PublishedOK, HoldingOK, Held
<1> QED
  BY <1>2, <1>3

LEMMA RunningStep ==
  ASSUME ProcessesInv, NEW i \in Services, Running(i)
  PROVE  ProcessesInv'
<1> DEFINE Step(place) ==
      /\ Moves(i, place) /\ UNCHANGED <<startLock, command>>
      /\ serverLock' = i <=> place \in Held
      /\ serverLock' = serverLock \/ (serverLock \in {i, Nobody} /\ serverLock' \in {i, Nobody})
      /\ config' \in Services \cup {Nobody} /\ token' \in Services \cup {Nobody}
      /\ UNCHANGED <<config, token>> \/ (serverLock = i /\ config' \in {config, i, Nobody})
<1>0. /\ HoldingOK(i) /\ PublishedOK(i) /\ service[i] \in Stages
      /\ serverLock \in Commands \cup Services \cup {Nobody}
      /\ config \in Services \cup {Nobody} /\ token \in Services \cup {Nobody}
      /\ i # Nobody
  BY OfService
<1>1. ASSUME NEW place \in {"locked", "publishing", "serving"}, Step(place),
             service[i] \in {"spawned", "locked", "publishing"}, Forward(i, place),
             PublishedOK(i)'
      PROVE  ProcessesInv'
  <2>1. \A j \in Services : PublishedOK(j)'
    BY <1>1, MovedTypes, OthersPublished DEF Stages
  <2>2. \A c \in Commands : CalmStart(c) /\ UNCHANGED command => LeftAlone(c)'
    <3>1. serverLock' \in {i, serverLock}
      BY <1>1 DEF Held, Stages
    <3> QED
      BY <1>1, <3>1, ChildRises
  <2> QED
    BY <1>1, <2>1, <2>2, ServiceStep DEF Stages
<1>2. ASSUME NEW place \in Stages \ {"unborn"}, Step(place), Forward(i, place),
             PublishedOK(i)', \A c \in Commands : ~CalmStart(c)
      PROVE  ProcessesInv'
  <2>1. \A j \in Services : PublishedOK(j)'
    BY <1>2, MovedTypes, OthersPublished
  <2> QED
    BY <1>2, <2>1, ServiceStep
<1>3. service[i] \in Stages \ {"unborn", "spawned", "locked", "publishing", "serving", "gone"} =>
        \A c \in Commands : ~CalmStart(c)
  BY ChildLemma
<1>4. \A place : Moves(i, place) => service'[i] = place
  BY DEF Moves, ProcessesInv, Types
<1>5. CASE AcquireServer(i)
  <2>1. CASE serverLock = Nobody
    <3>1. Step("locked") /\ Forward(i, "locked") /\ service[i] = "spawned"
      BY <1>0, <1>5, <2>1 DEF AcquireServer, Forward, Held, Stages
    <3>2. PublishedOK(i)'
      BY <1>0, <1>4, <1>5, <3>1 DEF AcquireServer, PublishedOK
    <3> QED
      BY <1>1, <3>1, <3>2
  <2>2. CASE serverLock # Nobody
    <3>1. Step("gone") /\ Forward(i, "gone") /\ service[i] = "spawned"
      BY <1>0, <1>5, <2>2 DEF AcquireServer, Forward, Held, Stages, HoldingOK
    <3>2. PublishedOK(i)'
      BY <1>0, <1>4, <1>5, <3>1 DEF AcquireServer, PublishedOK
    <3>3. \A c \in Commands : ~CalmStart(c)
      BY <1>0, <2>2, <3>1, ChildLemma DEF HoldingOK, Held
    <3> QED
      BY <1>2, <3>1, <3>2, <3>3 DEF Stages
  <2> QED
    BY <2>1, <2>2
<1>6. CASE PublishToken(i)
  <2>1. Step("publishing") /\ Forward(i, "publishing") /\ service[i] = "locked"
    BY <1>0, <1>6 DEF PublishToken, Forward, Held, Stages, HoldingOK
  <2>2. PublishedOK(i)'
    BY <1>0, <1>4, <1>6, <2>1 DEF PublishToken, PublishedOK
  <2> QED
    BY <1>1, <2>1, <2>2
<1>7. CASE PublishConfig(i)
  <2>1. Step("serving") /\ Forward(i, "serving") /\ service[i] = "publishing"
    BY <1>0, <1>7 DEF PublishConfig, Forward, Held, Stages, HoldingOK
  <2>2. PublishedOK(i)'
    BY <1>0, <1>4, <1>7, <2>1 DEF PublishConfig, PublishedOK
  <2> QED
    BY <1>1, <2>1, <2>2
<1>8. CASE ShutDown(i)
  <2>1. Step("removing") /\ Forward(i, "removing") /\ service[i] = "stopping"
    BY <1>0, <1>8 DEF ShutDown, Forward, Held, Stages, HoldingOK
  <2>2. PublishedOK(i)'
    BY <1>0, <1>4, <1>8, <2>1 DEF ShutDown, PublishedOK
  <2> QED
    BY <1>2, <1>3, <2>1, <2>2 DEF Stages
<1>9. CASE RemoveConfig(i)
  <2>1. config = i /\ service[i] = "removing"
    BY <1>0, <1>9 DEF RemoveConfig, PublishedOK
  <2>2. Step("removing token") /\ Forward(i, "removing token")
    BY <1>0, <1>9, <2>1 DEF RemoveConfig, Forward, Held, Stages, HoldingOK
  <2>3. PublishedOK(i)'
    BY <1>0, <1>4, <1>9, <2>1, <2>2 DEF RemoveConfig, PublishedOK
  <2> QED
    BY <1>2, <1>3, <2>1, <2>2, <2>3 DEF Stages
<1>10. CASE RemoveToken(i)
  <2>1. Step("leaving") /\ Forward(i, "leaving") /\ service[i] = "removing token"
    BY <1>0, <1>10 DEF RemoveToken, Forward, Held, Stages, HoldingOK
  <2>2. PublishedOK(i)'
    BY <1>0, <1>4, <1>10, <2>1 DEF RemoveToken, PublishedOK
  <2> QED
    BY <1>2, <1>3, <2>1, <2>2 DEF Stages
<1>11. CASE Exit(i)
  <2>1. Step("gone") /\ Forward(i, "gone") /\ service[i] = "leaving"
    BY <1>0, <1>11 DEF Exit, Forward, Held, Stages, HoldingOK
  <2>2. PublishedOK(i)'
    BY <1>0, <1>4, <1>11, <2>1 DEF Exit, PublishedOK
  <2> QED
    BY <1>2, <1>3, <2>1, <2>2 DEF Stages
<1> QED
  BY <1>5, <1>6, <1>7, <1>8, <1>9, <1>10, <1>11 DEF Running

\* What disturbs: a failure, a signal, a deadline, a crash, a start by hand.
LEMMA DisturbingStep ==
  ASSUME ProcessesInv, NEW i \in Services,
         StartFails(i) \/ Signal(i) \/ Overrun(i) \/ Crash(i)
           \/ (FirstUnborn(i) /\ Moves(i, "spawned") /\ command' = Disturbed(command)
               /\ UNCHANGED <<startLock, serverLock, config, token>>)
  PROVE  ProcessesInv'
<1>0. /\ HoldingOK(i) /\ PublishedOK(i) /\ service[i] \in Stages
      /\ serverLock \in Commands \cup Services \cup {Nobody}
      /\ config \in Services \cup {Nobody} /\ token \in Services \cup {Nobody}
      /\ i # Nobody
  BY OfService
<1>1. PICK place \in {"gone", "stopping", "leaving", "spawned"} :
        /\ Moves(i, place) /\ Forward(i, place)
        /\ serverLock' = i <=> place \in Held
        /\ serverLock' = serverLock \/ (serverLock = i /\ serverLock' = Nobody)
        /\ place = "stopping" => service[i] = "serving"
        /\ place = "spawned" => service[i] = "unborn"
        /\ command' = Disturbed(command) /\ UNCHANGED <<startLock, config, token>>
  <2>1. CASE StartFails(i)
    BY <1>0, <2>1 DEF StartFails, Forward, Held, Stages, HoldingOK
  <2>2. CASE Signal(i)
    BY <1>0, <2>2 DEF Signal, Forward, Held, Stages, HoldingOK
  <2>3. CASE Overrun(i)
    BY <1>0, <2>3 DEF Overrun, Forward, Held, Stages, HoldingOK
  <2>4. CASE Crash(i)
    BY <1>0, <2>4 DEF Crash, Forward, Held, Stages, HoldingOK, Without, Alive
  <2>5. CASE FirstUnborn(i) /\ Moves(i, "spawned") /\ command' = Disturbed(command)
             /\ UNCHANGED <<startLock, serverLock, config, token>>
    BY <1>0, <2>5 DEF FirstUnborn, Unborn, Forward, Held, Stages, HoldingOK
  <2> QED
    BY <2>1, <2>2, <2>3, <2>4, <2>5
<1>2. place \in Stages \ {"unborn"}
  BY DEF Stages
<1>3. \A j \in Services : service'[j] = IF j = i THEN place ELSE service[j]
  BY <1>1, <1>2, MovedTypes
<1>4. PublishedOK(i)'
  BY <1>0, <1>1, <1>3 DEF PublishedOK
<1>5. \A j \in Services : PublishedOK(j)'
  BY <1>1, <1>3, <1>4, OthersPublished
<1>6. \A c \in Commands : CalmStart(c) /\ UNCHANGED command => LeftAlone(c)'
  <2>1. ASSUME NEW c \in Commands, UNCHANGED command PROVE ~CalmStart(c)
    BY <1>1, <2>1, DisturbedLemma, OfCommand DEF Commanded, CalmStart
  <2> QED
    BY <2>1
<1> QED
  BY <1>0, <1>1, <1>2, <1>5, <1>6, ServiceStep

LEMMA MovingStep ==
  ASSUME ProcessesInv, NEW c \in Commands, Underway(c), command[c].do \in {"start", "stop"},
         NEW i \in Services, NEW place \in Stages \ {"unborn"},
         Moves(i, place), Forward(i, place), Others(c), Commanded',
         UNCHANGED <<startLock, serverLock, config, token>>,
         service[i] \in Held <=> place \in Held, PublishedOK(i)', CommandOK(c)'
  PROVE  ProcessesInv'
<1>1. serverLock' = i <=> place \in Held
  BY OfService DEF HoldingOK
<1>2. /\ service' \in [Services -> Stages] /\ \A j \in Services : HoldingOK(j)'
      /\ \A j \in Services : service'[j] = IF j = i THEN place ELSE service[j]
  BY <1>1, MovedTypes
<1>3. \A j \in Services : PublishedOK(j)'
  BY <1>2, OthersPublished
<1>4. Types'
  BY <1>2 DEF ProcessesInv, Types
<1>5. ASSUME NEW d \in Commands \ {c} PROVE CommandOK(d)'
  <2>1. Stays(d) /\ CommandOK(d)
    BY DEF Others, ProcessesInv
  <2>2. LockOK(d)' /\ CourseOK(d)' /\ (CalmStart(d)' => CalmStart(d))
    BY <2>1, StaysLemma
  <2>3. FoundOK(d)'
    BY <2>1, FoundStays
  <2>4. CalmOK(d)'
    BY <2>2, AloneLemma DEF CalmOK, CalmStart
  <2> QED
    BY <2>2, <2>3, <2>4 DEF CommandOK
<1> QED
  BY <1>2, <1>3, <1>4, <1>5 DEF ProcessesInv

LEMMA SpawnStep ==
  ASSUME ProcessesInv, NEW c \in Commands, Spawn(c)
  PROVE  ProcessesInv'
<1>1. command[c].at = "spawn" /\ UNCHANGED <<startLock, serverLock, config, token>>
  BY DEF Spawn
<1>2. command[c].do = "start" /\ Underway(c) /\ command[c].child = Nobody
  BY <1>1, OfCommand DEF CourseOK, Underway
<1>3. PICK i \in Services :
        /\ service[i] = "unborn"
        /\ service' = [service EXCEPT ![i] = "spawned"]
        /\ Commanded' /\ Others(c)
        /\ command'[c].at = "poll" /\ command'[c].child = i /\ command'[c].found = i
        /\ command'[c].do = command[c].do /\ command'[c].result = command[c].result
        /\ command'[c].before = command[c].before
        /\ command'[c].calm = command[c].calm
  BY SpawnEffect, OfCommand
<1>4. Moves(i, "spawned") /\ Forward(i, "spawned") /\ "spawned" \in Stages \ {"unborn"}
  BY <1>3 DEF Moves, Forward, Stages
<1>5. \A j \in Services : service'[j] = IF j = i THEN "spawned" ELSE service[j]
  BY <1>3 DEF ProcessesInv, Types
<1>6. PublishedOK(i)'
  <2>1. PublishedOK(i) /\ service'[i] = "spawned" /\ config' = config
    BY <1>1, <1>5, OfService
  <2> QED
    BY <1>3, <2>1 DEF PublishedOK
<1>7. LockOK(c)' /\ CourseOK(c)'
  BY <1>1, <1>2, <1>3, OfCommand DEF LockOK, InLock, Underway, CourseOK
<1>8. FoundOK(c)'
  <2>1. FoundOK(c) /\ service'[i] = "spawned"
    BY <1>5, OfCommand
  <2>2. command[c].before \in Services => command[c].before # i
    BY <1>3, <2>1 DEF FoundOK
  <2> QED
    BY <1>2, <1>3, <1>5, <2>1, <2>2 DEF FoundOK
<1>9. CalmOK(c)'
  <2>1. SUFFICES ASSUME CalmStart(c)' PROVE Underway(c)' /\ LeftAlone(c)'
    BY DEF CalmOK, CalmStart
  <2>2. LeftAlone(c)
    BY <1>3, <2>1, OfCommand DEF CalmOK, CalmStart
  <2>3. \A j \in Services : service[j] \in {"unborn", "gone"}
    BY <1>1, <1>2, <2>2 DEF LeftAlone, Before
  <2>4. After(c)'
    BY <1>3, <1>5, <2>3 DEF After
  <2> QED
    BY <1>1, <1>3, <2>2, <2>4 DEF Underway, LeftAlone
<1> QED
  BY <1>1, <1>2, <1>3, <1>4, <1>6, <1>7, <1>8, <1>9, MovingStep DEF CommandOK, Held

LEMMA ControlStep ==
  ASSUME ProcessesInv, NEW c \in Commands, Control(c)
  PROVE  ProcessesInv'
<1>1. command[c].at = "control" /\ UNCHANGED <<config, token>>
  BY DEF Control
<1>2. command[c].do = "stop" /\ Underway(c) /\ ~CalmStart(c)
  BY <1>1, OfCommand DEF CourseOK, Underway, CalmStart
<1>3. CASE Return(c, "error") /\ UNCHANGED service
  BY <1>1, <1>2, <1>3, ReturnStep DEF Results
<1>4. CASE \E i \in Services :
             /\ Reaches(c, i)
             /\ service' = [service EXCEPT ![i] = "stopping"]
             /\ Goes(c, "reply") /\ UNCHANGED <<startLock, serverLock>>
  <2>1. PICK i \in Services :
          /\ Reaches(c, i)
          /\ service' = [service EXCEPT ![i] = "stopping"]
          /\ Goes(c, "reply") /\ UNCHANGED <<startLock, serverLock>>
    BY <1>4
  <2>2. service[i] = "serving" /\ Moves(i, "stopping") /\ Forward(i, "stopping")
        /\ "stopping" \in Stages \ {"unborn"}
    BY <2>1 DEF Reaches, Moves, Forward, Stages
  <2>3. \A j \in Services : service'[j] = IF j = i THEN "stopping" ELSE service[j]
    BY <2>1 DEF ProcessesInv, Types
  <2>4. /\ Commanded' /\ Others(c) /\ command'[c].at = "reply"
        /\ command'[c].do = command[c].do /\ command'[c].found = command[c].found
        /\ command'[c].child = command[c].child /\ command'[c].result = command[c].result
        /\ command'[c].before = command[c].before /\ command'[c].calm = command[c].calm
    BY <2>1, GoesEffect, OfCommand DEF Places
  <2>5. PublishedOK(i)'
    BY <1>1, <2>2, <2>3, OfService DEF PublishedOK
  <2>6. LockOK(c)' /\ CourseOK(c)' /\ CalmOK(c)'
    BY <1>1, <1>2, <2>1, <2>4, OfCommand DEF LockOK, InLock, Underway, CourseOK, CalmOK
  <2>7. FoundOK(c)'
    BY <1>1, <1>2, <2>2, <2>3, <2>4, OfCommand DEF FoundOK
  <2> QED
    BY <1>1, <1>2, <2>1, <2>2, <2>4, <2>5, <2>6, <2>7, MovingStep DEF CommandOK, Held, Stages
<1> QED
  BY <1>3, <1>4 DEF Control

-----------------------------------------------------------------------------
LEMMA ProcessesInit == Init => ProcessesInv
<1> SUFFICES ASSUME Init PROVE ProcessesInv
  OBVIOUS
<1>1. 0 \in Services
  OBVIOUS
<1>2. Idle \in Records
  BY DEF Idle, Records, Places
<1>3. Commanded
  BY <1>2 DEF Init, Commanded
<1>4. \A i \in Services : service[i] = IF i > 0 THEN "unborn"
                                     ELSE IF serverLock = 0 THEN "serving" ELSE "gone"
  BY DEF Init
<1>5. service \in [Services -> Stages]
  BY DEF Init, Stages
<1>6. Types
  BY <1>1, <1>3, <1>5 DEF Init, Types
<1>7. \A i \in Services : HoldingOK(i) /\ PublishedOK(i)
  BY <1>1, <1>4 DEF Init, HoldingOK, PublishedOK, Held, Stages
<1>8. ASSUME NEW c \in Commands PROVE CommandOK(c)
  <2>1. command[c] = Idle
    BY DEF Init
  <2>2. serverLock # c
    BY <1>1 DEF Init
  <2> QED
    BY <2>1, <2>2 DEF CommandOK, LockOK, InLock, Underway, CourseOK, FoundOK, CalmOK, Idle
<1> QED
  BY <1>6, <1>7, <1>8 DEF ProcessesInv

LEMMA ProcessesStep == ProcessesInv /\ [Next]_process_vars => ProcessesInv'
<1> SUFFICES ASSUME ProcessesInv, [Next]_process_vars PROVE ProcessesInv'
  OBVIOUS
<1>1. ASSUME NEW c \in Commands, NEW do \in {"start", "stop"} \cup (Disturbances \cap {"show"}),
             Begin(c, do)
      PROVE  ProcessesInv'
  BY <1>1, BeginStep
<1>2. ASSUME NEW c \in Commands, Searching(c) PROVE ProcessesInv'
  BY <1>2, AcquireStartStep, ReadConfigStep, ReadKeyStep, HelloSucceedsStep, HelloFailsStep,
     ProbeStep, UnprobeStep DEF Searching
<1>3. ASSUME NEW c \in Commands, Starting(c) PROVE ProcessesInv'
  BY <1>3, LockStep, ClearStep, SpawnStep, PollStep DEF Starting
<1>4. ASSUME NEW c \in Commands, Stopping(c) PROVE ProcessesInv'
  BY <1>4, ReadKeyStep, ControlStep, ReplyStep, WaitStep, CheckStep DEF Stopping
<1>5. ASSUME NEW c \in Commands, Deadline(c) \/ Kill(c) PROVE ProcessesInv'
  BY <1>5, StruckStep
<1>6. ASSUME NEW i \in Services, Running(i) PROVE ProcessesInv'
  BY <1>6, RunningStep
<1>7. ASSUME NEW i \in Services, StartFails(i) \/ Signal(i) \/ Overrun(i) \/ Crash(i)
      PROVE  ProcessesInv'
  BY <1>7, DisturbingStep
<1>8. CASE Foreground
  BY <1>8, DisturbingStep DEF Foreground
<1>9. CASE UNCHANGED process_vars
  <2>1. UNCHANGED <<startLock, serverLock, config, token, command, service>>
    BY <1>9 DEF process_vars
  <2>2. Types' /\ \A i \in Services : HoldingOK(i)' /\ PublishedOK(i)'
    BY <2>1 DEF ProcessesInv, Types, Commanded, HoldingOK, PublishedOK
  <2>3. ASSUME NEW c \in Commands PROVE CommandOK(c)'
    <3>1. LockOK(c)' /\ CourseOK(c)' /\ FoundOK(c)'
      BY <2>1, OfCommand DEF LockOK, CourseOK, FoundOK, Underway
    <3>2. CalmOK(c)'
      BY <2>1, CalmStays, OfCommand, SameEffect
    <3> QED
      BY <3>1, <3>2 DEF CommandOK
  <2> QED
    BY <2>2, <2>3 DEF ProcessesInv
<1> QED
  BY <1>1, <1>2, <1>3, <1>4, <1>5, <1>6, <1>7, <1>8, <1>9 DEF Next

LEMMA Invariance == ProcessesSpec => []ProcessesInv
BY ProcessesInit, ProcessesStep, PTL DEF ProcessesSpec

\* The processes keep their types, and a lock of a service is that of one
\* between its first and its last step (server/mod.rs, server/lifecycle.rs).
THEOREM ProcessesTypes == ProcessesSpec => []ProcessesTypeOK
<1>1. ProcessesInv => ProcessesTypeOK
  BY DEF ProcessesInv, Types, Commanded, HoldingOK, ProcessesTypeOK
<1> QED
  BY <1>1, Invariance, PTL

\* However many commands, starts by hand and crashes there are, a service that
\* serves is the one the discovery files name (server/lifecycle.rs).
THEOREM ServicesArePublished == ProcessesSpec => []ServingIsPublished
<1>1. ProcessesInv => ServingIsPublished
  BY DEF ProcessesInv, PublishedOK, ServingIsPublished
<1> QED
  BY <1>1, Invariance, PTL

\* A start that nothing disturbs does not fail (app/daemon.rs, start).
THEOREM CalmStartsSucceed == ProcessesSpec => []StartsSucceed
<1>1. ProcessesInv => StartsSucceed
  <2>1. ASSUME ProcessesInv, NEW c \in Commands, CalmStart(c)
        PROVE  command[c].result # "error"
    BY <2>1, OfCommand DEF CalmOK, CalmStart, Underway, CourseOK
  <2> QED
    BY <2>1 DEF StartsSucceed, CalmStart
<1> QED
  BY <1>1, Invariance, PTL

-----------------------------------------------------------------------------
(* What a stop says of the service.                                         *)

\* The clauses of StopMeansStopped, for one command.
StopSpeaksTrue(c) ==
  command[c].do = "stop" /\ command[c].at # "done" =>
    /\ command'[c].result = "stopped" =>
         service'[command[c].found] = "gone" /\ config' = Nobody
    /\ command'[c].result = "none" /\ command'[c].at = "done" =>
         LET i == command[c].before
         IN  i \in Services => service'[i] \in {"leaving", "gone"}

\* Nothing is said by a step that does not end the command.
LEMMA SilentStep ==
  ASSUME NEW c \in Commands, command'[c].result = "none", command'[c].at # "done"
  PROVE  StopSpeaksTrue(c)
BY DEF StopSpeaksTrue

LEMMA ReturnSpeaks ==
  ASSUME ProcessesInv, NEW c \in Commands, NEW result \in Results, Return(c, result),
         result = "stopped" => service'[command[c].found] = "gone" /\ config' = Nobody,
         result = "none" /\ command[c].do = "stop" /\ command[c].before \in Services =>
           service'[command[c].before] \in {"leaving", "gone"}
  PROVE  StopSpeaksTrue(c)
<1>1. command'[c].result = result
  BY ReturnEffect, OfCommand
<1> QED
  BY <1>1 DEF StopSpeaksTrue

LEMMA OthersSpeak ==
  ASSUME ProcessesInv, NEW d \in Commands, Stays(d)
  PROVE  StopSpeaksTrue(d)
BY OfCommand DEF StopSpeaksTrue, Stays, CourseOK

\* Every step of the command itself.
LEMMA CommandSpeaks ==
  ASSUME ProcessesInv, NEW c \in Commands,
         Searching(c) \/ Starting(c) \/ Stopping(c) \/ Deadline(c) \/ Kill(c)
  PROVE  StopSpeaksTrue(c) /\ Others(c)
<1>0. /\ LockOK(c) /\ CourseOK(c) /\ FoundOK(c) /\ Commanded
      /\ serverLock \in Commands \cup Services \cup {Nobody}
      /\ config \in Services \cup {Nobody} /\ token \in Services \cup {Nobody}
  BY OfCommand
<1> DEFINE Silent == /\ command'[c].at # "done"
                     /\ command'[c].result = command[c].result
                     /\ Others(c)
<1>1. command[c].at # "done" => command[c].result = "none"
  BY <1>0 DEF CourseOK
<1>2. ASSUME Silent, command[c].at # "done" PROVE StopSpeaksTrue(c) /\ Others(c)
  BY <1>1, <1>2, SilentStep
<1>3. ASSUME NEW place \in Places \ {"done"}, Goes(c, place) PROVE Silent
  BY <1>0, <1>3, GoesEffect
<1>4. ASSUME NEW result \in {"running", "error"}, Return(c, result)
      PROVE  StopSpeaksTrue(c) /\ Others(c)
  BY <1>0, <1>4, ReturnSpeaks, ReturnEffect DEF Results
<1>5. CASE AcquireStart(c)
  BY <1>0, <1>2, <1>5, AcquireStartEffect DEF AcquireStart
<1>6. CASE ReadConfig(c)
  BY <1>0, <1>2, <1>6, ReadConfigEffect DEF ReadConfig, Same
<1>7. CASE ReadToken(c) \/ ReadKey(c)
  BY <1>0, <1>2, <1>7, ReadKeyEffect DEF ReadToken, ReadKey, Same
<1>8. CASE HelloSucceeds(c)
  BY <1>2, <1>3, <1>4, <1>8 DEF HelloSucceeds, Places
<1>9. CASE HelloFails(c)
  BY <1>0, <1>2, <1>9, HelloFailsEffect DEF HelloFails, Same
<1>10. CASE Probe(c)
  <2>1. command[c].at = "probe" /\ (serverLock # Nobody => Return(c, "error"))
    BY <1>10 DEF Probe
  <2> QED
    BY <1>0, <1>2, <1>4, <1>10, <2>1, ProbeEffect DEF Same
<1>11. CASE Unprobe(c)
  <2>1. CASE command[c].do = "show"
    <3>1. Return(c, "none")
      BY <1>11, <2>1 DEF Unprobe
    <3> QED
      BY <1>0, <2>1, <3>1, ReturnSpeaks, ReturnEffect DEF Results
  <2>2. CASE command[c].do # "show"
    BY <1>2, <1>3, <1>11, <2>2 DEF Unprobe, Places
  <2> QED
    BY <2>1, <2>2
<1>12. CASE Lock(c)
  <2>1. CASE serverLock = Nobody
    BY <1>2, <1>3, <1>12, <2>1 DEF Lock, Places
  <2>2. CASE serverLock # Nobody /\ command[c].do # "stop"
    BY <1>4, <1>12, <2>2 DEF Lock
  <2>3. CASE serverLock # Nobody /\ command[c].do = "stop"
    <3>1. Return(c, "none") /\ command[c].at = "lock" /\ UNCHANGED service
      BY <1>12, <2>3 DEF Lock
    <3>2. command[c].before \in Services => service'[command[c].before] \in {"leaving", "gone"}
      BY <1>0, <2>3, <3>1 DEF FoundOK
    <3> QED
      BY <1>0, <3>1, <3>2, ReturnSpeaks, ReturnEffect DEF Results
  <2> QED
    BY <2>1, <2>2, <2>3
<1>13. CASE Clear(c)
  BY <1>2, <1>3, <1>13 DEF Clear, Places
<1>14. CASE ClearToken(c)
  <2>1. CASE command[c].do # "stop"
    BY <1>2, <1>3, <1>14, <2>1 DEF ClearToken, Places
  <2>2. CASE command[c].do = "stop"
    <3>1. Return(c, "none") /\ command[c].at = "clear token" /\ UNCHANGED service
      BY <1>14, <2>2 DEF ClearToken
    <3>2. command[c].before \in Services => service'[command[c].before] \in {"leaving", "gone"}
      BY <1>0, <2>2, <3>1 DEF FoundOK
    <3> QED
      BY <1>0, <3>1, <3>2, ReturnSpeaks, ReturnEffect DEF Results
  <2> QED
    BY <2>1, <2>2
<1>15. CASE Spawn(c)
  <2>1. command[c].at = "spawn"
    BY <1>15 DEF Spawn
  <2> QED
    BY <1>0, <1>2, <1>15, <2>1, SpawnEffect
<1>16. CASE Poll(c)
  BY <1>2, <1>3, <1>4, <1>16 DEF Poll, Places
<1>17. CASE Control(c)
  BY <1>2, <1>3, <1>4, <1>17 DEF Control, Places
<1>18. CASE Reply(c)
  BY <1>2, <1>3, <1>4, <1>18 DEF Reply, Places
<1>19. CASE Wait(c)
  BY <1>2, <1>3, <1>19 DEF Wait, Places
<1>20. CASE Check(c)
  <2>1. command[c].at = "check" /\ UNCHANGED <<config, service>>
    BY <1>20 DEF Check
  <2>2. CASE config # Nobody
    BY <1>4, <1>20, <2>2 DEF Check
  <2>3. CASE config = Nobody /\ Alive(command[c].found)
    BY <1>2, <1>3, <1>20, <2>3 DEF Check, Places
  <2>4. CASE config = Nobody /\ ~Alive(command[c].found)
    <3>1. Return(c, "stopped")
      BY <1>20, <2>4 DEF Check
    <3>2. service'[command[c].found] = "gone" /\ config' = Nobody
      BY <1>0, <2>1, <2>4 DEF FoundOK, Alive
    <3> QED
      BY <1>0, <3>1, <3>2, ReturnSpeaks, ReturnEffect DEF Results
  <2> QED
    BY <2>2, <2>3, <2>4
<1>21. CASE Deadline(c) \/ Kill(c)
  BY <1>0, <1>21, StruckEffect DEF StopSpeaksTrue
<1> QED
  BY <1>5, <1>6, <1>7, <1>8, <1>9, <1>10, <1>11, <1>12, <1>13, <1>14, <1>15, <1>16, <1>17,
     <1>18, <1>19, <1>20, <1>21 DEF Searching, Starting, Stopping

LEMMA StopStep ==
  ASSUME ProcessesInv, [Next]_process_vars, NEW d \in Commands
  PROVE  StopSpeaksTrue(d)
<1>0. Commanded
  BY OfCommand
<1>1. ASSUME NEW c \in Commands,
             Searching(c) \/ Starting(c) \/ Stopping(c) \/ Deadline(c) \/ Kill(c)
      PROVE  StopSpeaksTrue(d)
  <2>1. StopSpeaksTrue(c) /\ Others(c)
    BY <1>1, CommandSpeaks
  <2>2. CASE d # c
    BY <2>1, <2>2, OthersSpeak DEF Others
  <2> QED
    BY <2>1, <2>2
<1>2. ASSUME NEW c \in Commands, NEW do \in {"start", "stop", "show"}, Begin(c, do)
      PROVE  StopSpeaksTrue(d)
  <2>1. /\ Others(c) /\ command[c].at = "idle" /\ command'[c].result = command[c].result
        /\ command'[c].at # "done"
    BY <1>0, <1>2, BeginEffect DEF Begin
  <2>2. StopSpeaksTrue(c)
    BY <2>1, SilentStep, OfCommand DEF CourseOK
  <2>3. CASE d # c
    BY <2>1, <2>3, OthersSpeak DEF Others
  <2> QED
    BY <2>2, <2>3
<1>3. CASE UNCHANGED command \/ command' = Disturbed(command)
  BY <1>0, <1>3, BesideEffect, OthersSpeak
<1>4. ASSUME NEW i \in Services,
             Running(i) \/ StartFails(i) \/ Signal(i) \/ Overrun(i) \/ Crash(i)
      PROVE  UNCHANGED command \/ command' = Disturbed(command)
  BY <1>4 DEF Running, AcquireServer, PublishToken, PublishConfig, ShutDown, RemoveConfig,
              RemoveToken, Exit, StartFails, Signal, Overrun, Crash
<1>5. Foreground \/ UNCHANGED process_vars => UNCHANGED command \/ command' = Disturbed(command)
  BY DEF Foreground, process_vars
<1> QED
  BY <1>1, <1>2, <1>3, <1>4, <1>5 DEF Next

\* What a stop says is so: "stopped" when the instance it found is gone and no
\* longer published, "none" when the one there was has let go of server.lock
\* (app/daemon.rs, stop).
THEOREM StopsAreTrue == ProcessesSpec => StopMeansStopped
<1>1. ProcessesInv /\ [Next]_process_vars =>
        [\A c \in Commands :
           command[c].do = "stop" /\ command[c].at # "done" =>
             /\ command'[c].result = "stopped" =>
                  service'[command[c].found] = "gone" /\ config' = Nobody
             /\ command'[c].result = "none" /\ command'[c].at = "done" =>
                  LET i == command[c].before
                  IN  i \in Services => service'[i] \in {"leaving", "gone"}]_process_vars
  BY StopStep DEF StopSpeaksTrue
<1> QED
  BY <1>1, Invariance, PTL DEF ProcessesSpec, StopMeansStopped
====
