-------------------------- MODULE ServiceProcesses --------------------------
(***************************************************************************)
(* The processes of one FAE home: the service (run in                      *)
(* app/fae/src/server/mod.rs) and the commands that start it, stop it and  *)
(* look for it (app/fae/src/app/daemon.rs).  They share four files: two    *)
(* locks, which the system releases with their holder, and the discovery   *)
(* files server.config and server.token (server/lifecycle.rs).             *)
(*                                                                         *)
(* A process may be killed between any two steps, a service may be started *)
(* by hand beside the commands, and everybody may be slow.  What a file    *)
(* says is the instance that wrote it.  All instances listen on one port,  *)
(* so that a request meant for one may reach another.                      *)
(*                                                                         *)
(* Left out: owners and permissions, the log, what goes wrong with a file  *)
(* (each such error ends the command), a start that names another address. *)
(***************************************************************************)
EXTENDS Naturals, FiniteSets

CONSTANTS
  Commands,    \* processes of the command line, each runs one command
  LastService, \* bound: instances 0 .. LastService; 0 is there from before
  Nobody,      \* no process, no instance
  Disturbances \* a subset of {"crash", "kill", "foreground", "signal", "late", "fail", "show"}

ASSUME ProcessesAssumption ==
  /\ LastService \in Nat /\ Nobody \notin Commands
  /\ (Commands \cup {Nobody}) \cap (0..LastService) = {}

VARIABLES
  startLock,  \* holder of start.lock
  serverLock, \* holder of server.lock
  config,     \* the instance server.config names
  token,      \* the instance whose token is in server.token
  command,    \* where each command is
  service     \* where each instance is

process_vars == <<startLock, serverLock, config, token, command, service>>

Services == 0..LastService
Alive(i) == service[i] \notin {"unborn", "gone"}
Unborn == {i \in Services : service[i] = "unborn"}
FirstUnborn(i) == i \in Unborn /\ \A j \in Unborn : i <= j

\* found is the instance discover read of, key the instance whose token the
\* command presents (later the one it reached), child the one it spawned.
\* History: calm if nothing has disturbed the command since it took start.lock,
\* before is who held server.lock then.
Idle == [do |-> "none", at |-> "idle", found |-> Nobody, key |-> Nobody,
         child |-> Nobody, result |-> "none", calm |-> FALSE, before |-> Nobody]

Becomes(c, new) == command' = [command EXCEPT ![c] = new]
Goes(c, place) == Becomes(c, [command[c] EXCEPT !.at = place])

Without(holder, p) == IF holder = p THEN Nobody ELSE holder

Ended(c, result) ==
  [Idle EXCEPT !.do = command[c].do, !.at = "done", !.result = result,
               !.calm = command[c].calm /\ result = "error"]

\* Seeded fault: start.lock is a file that outlives its holder.
Return_Leaves(c, result) ==
  /\ Becomes(c, Ended(c, result))
  /\ serverLock' = Without(serverLock, c) /\ UNCHANGED startLock
\* A command returns, and with it go the locks it holds.
Return(c, result) ==
  /\ Becomes(c, Ended(c, result))
  /\ startLock' = Without(startLock, c) /\ serverLock' = Without(serverLock, c)

\* Nobody who is under way can count on being left alone any more.
Disturbed(commands) == [c \in Commands |-> [commands[c] EXCEPT !.calm = FALSE]]

-----------------------------------------------------------------------------
(* Commands: the search for a service, which start, stop and show begin with *)

Begin(c, do) ==
  /\ command[c].at = "idle"
  /\ Becomes(c, [command[c] EXCEPT !.do = do, !.at = IF do = "show" THEN "read" ELSE "begin"])
  /\ UNCHANGED <<startLock, serverLock, config, token, service>>

\* Seeded fault: a start.lock that is taken is no reason to wait.
AcquireStart_Unasked(c) ==
  /\ command[c].at = "begin" /\ startLock' = c
  /\ Becomes(c, [command[c] EXCEPT
       !.at = "read", !.before = serverLock,
       !.calm = serverLock \notin Commands
                  /\ \A i \in Services : service[i] \in {"unborn", "serving", "gone"}])
  /\ UNCHANGED <<serverLock, config, token, service>>
\* start.lock is waited for.
AcquireStart(c) ==
  /\ command[c].at = "begin" /\ startLock = Nobody
  /\ startLock' = c
  /\ Becomes(c, [command[c] EXCEPT
       !.at = "read", !.before = serverLock,
       !.calm = serverLock \notin Commands
                  /\ \A i \in Services : service[i] \in {"unborn", "serving", "gone"}])
  /\ UNCHANGED <<serverLock, config, token, service>>

\* read_config, and whether its process is alive: one that is not does not come
\* back, and one that dies later does not answer.
ReadConfig(c) ==
  /\ command[c].at = "read"
  /\ Becomes(c, [command[c] EXCEPT
       !.found = config, !.at = IF config # Nobody /\ Alive(config) THEN "token" ELSE "probe"])
  /\ UNCHANGED <<startLock, serverLock, config, token, service>>

\* connect reads server.token when it connects.
ReadToken(c) ==
  /\ command[c].at = "token"
  /\ Becomes(c, [command[c] EXCEPT !.key = token, !.at = "hello"])
  /\ UNCHANGED <<startLock, serverLock, config, token, service>>

Reaches(c, i) == service[i] = "serving" /\ command[c].key = i

\* The instance meant answers.  start has its service, stop goes on to end it.
HelloSucceeds(c) ==
  /\ command[c].at = "hello" /\ Reaches(c, command[c].found)
  /\ IF command[c].do = "stop"
     THEN Goes(c, "key") /\ UNCHANGED <<startLock, serverLock>>
     ELSE Return(c, "running")
  /\ UNCHANGED <<config, token, service>>

\* No answer, a refusal, or the answer of another instance: discover looks at
\* server.lock, start goes on polling.
HelloFails(c) ==
  /\ command[c].at = "hello"
  /\ LET next == [command[c] EXCEPT !.at = IF command[c].child = Nobody THEN "probe" ELSE "poll"]
     IN  IF Reaches(c, command[c].found)
         THEN /\ "late" \in Disturbances
              /\ command' = Disturbed([command EXCEPT ![c] = next])
         ELSE Becomes(c, next)
  /\ UNCHANGED <<startLock, serverLock, config, token, service>>

\* server.lock is tried and, when it was free, held for a moment.
Probe(c) ==
  /\ command[c].at = "probe"
  /\ IF serverLock = Nobody
     THEN /\ serverLock' = c /\ UNCHANGED startLock
          /\ LET next == [command EXCEPT ![c].at = "unprobe"]
             IN  command' = IF command[c].do = "show" THEN Disturbed(next) ELSE next
     ELSE Return(c, "error")
  /\ UNCHANGED <<config, token, service>>

Unprobe(c) ==
  /\ command[c].at = "unprobe"
  /\ IF command[c].do = "show"
     THEN Return(c, "none")
     ELSE Goes(c, "lock") /\ serverLock' = Nobody /\ UNCHANGED startLock
  /\ UNCHANGED <<config, token, service>>

-----------------------------------------------------------------------------
(* Commands: start and stop *)

\* Seeded fault: the discovery files are cleared without server.lock.
Lock_Unheld(c) ==
  /\ command[c].at = "lock" /\ Goes(c, "clear")
  /\ UNCHANGED <<startLock, serverLock, config, token, service>>
\* No service answered: what is left of one is cleared, under server.lock.
Lock(c) ==
  /\ command[c].at = "lock"
  /\ IF serverLock = Nobody
     THEN serverLock' = c /\ Goes(c, "clear") /\ UNCHANGED startLock
     ELSE Return(c, IF command[c].do = "stop" THEN "none" ELSE "error")
  /\ UNCHANGED <<config, token, service>>

\* clear_discovery
Clear(c) ==
  /\ command[c].at = "clear"
  /\ config' = Nobody /\ Goes(c, "clear token")
  /\ UNCHANGED <<startLock, serverLock, token, service>>

ClearToken(c) ==
  /\ command[c].at = "clear token"
  /\ token' = Nobody
  /\ IF command[c].do = "stop"
     THEN Return(c, "none")
     ELSE Goes(c, "spawn") /\ serverLock' = Nobody /\ UNCHANGED startLock
  /\ UNCHANGED <<config, service>>

Spawn(c) ==
  /\ command[c].at = "spawn"
  /\ \E i \in Services :
       /\ FirstUnborn(i)
       /\ service' = [service EXCEPT ![i] = "spawned"]
       /\ Becomes(c, [command[c] EXCEPT !.at = "poll", !.child = i, !.found = i])
  /\ UNCHANGED <<startLock, serverLock, config, token>>

\* The child is gone, or has published itself; else start sleeps.
Poll(c) ==
  /\ command[c].at = "poll"
  /\ \/ service[command[c].child] = "gone" /\ Return(c, "error")
     \/ /\ service[command[c].child] # "gone" /\ config = command[c].child
        /\ Goes(c, "token") /\ UNCHANGED <<startLock, serverLock>>
  /\ UNCHANGED <<config, token, service>>

\* stop connects once more, to say Shutdown: whoever listens and accepts the
\* token stops.
ReadKey(c) ==
  /\ command[c].at = "key"
  /\ Becomes(c, [command[c] EXCEPT !.key = token, !.at = "control"])
  /\ UNCHANGED <<startLock, serverLock, config, token, service>>

Control(c) ==
  /\ command[c].at = "control"
  /\ \/ \E i \in Services :
          /\ Reaches(c, i)
          /\ service' = [service EXCEPT ![i] = "stopping"]
          /\ Goes(c, "reply") /\ UNCHANGED <<startLock, serverLock>>
     \/ /\ \A i \in Services : ~Reaches(c, i)
        /\ Return(c, "error") /\ UNCHANGED service
  /\ UNCHANGED <<config, token>>

\* The answer must be that of the instance meant; it is lost when the instance
\* drops its connections first.
Reply(c) ==
  /\ command[c].at = "reply"
  /\ \/ /\ command[c].key = command[c].found
        /\ Goes(c, "wait") /\ UNCHANGED <<startLock, serverLock>>
     \/ /\ command[c].key # command[c].found \/ service[command[c].key] # "stopping"
        /\ Return(c, "error")
  /\ UNCHANGED <<config, token, service>>

\* Seeded fault: stop looks at the files without waiting for server.lock.
Wait_Unlocked(c) ==
  /\ command[c].at = "wait" /\ config = Nobody
  /\ Return(c, "stopped") /\ UNCHANGED <<config, token, service>>
Wait(c) ==
  /\ command[c].at = "wait" /\ serverLock = Nobody
  /\ serverLock' = c /\ Goes(c, "check")
  /\ UNCHANGED <<startLock, config, token, service>>

Check(c) ==
  /\ command[c].at = "check"
  /\ IF config # Nobody
     THEN Return(c, "error")
     ELSE IF Alive(command[c].found)
     THEN Goes(c, "wait") /\ serverLock' = Nobody /\ UNCHANGED startLock
     ELSE Return(c, "stopped")
  /\ UNCHANGED <<config, token, service>>

\* Ten seconds have passed.
Deadline(c) ==
  /\ "late" \in Disturbances /\ command[c].at \in {"poll", "wait", "reply"}
  /\ command' = Disturbed([command EXCEPT ![c] = Ended(c, "error")])
  /\ startLock' = Without(startLock, c)
  /\ UNCHANGED <<serverLock, config, token, service>>

Kill(c) ==
  /\ "kill" \in Disturbances /\ command[c].at \notin {"idle", "done"}
  /\ command' = Disturbed([command EXCEPT ![c] = Ended(c, "killed")])
  /\ startLock' = Without(startLock, c) /\ serverLock' = Without(serverLock, c)
  /\ UNCHANGED <<config, token, service>>

-----------------------------------------------------------------------------
(* The service *)

Moves(i, place) == service' = [service EXCEPT ![i] = place]

\* `fae server start --foreground`, by hand.
Foreground ==
  /\ "foreground" \in Disturbances
  /\ Cardinality(Unborn) > Cardinality({c \in Commands : command[c].at # "done"})
  /\ \E i \in Services : FirstUnborn(i) /\ Moves(i, "spawned")
  /\ command' = Disturbed(command)
  /\ UNCHANGED <<startLock, serverLock, config, token>>

AcquireServer(i) ==
  /\ service[i] = "spawned"
  /\ IF serverLock = Nobody
     THEN serverLock' = i /\ Moves(i, "locked")
     ELSE Moves(i, "gone") /\ UNCHANGED serverLock
  /\ UNCHANGED <<startLock, config, token, command>>

\* publish: the token first.
PublishToken(i) ==
  /\ service[i] = "locked"
  /\ token' = i /\ Moves(i, "publishing")
  /\ UNCHANGED <<startLock, serverLock, config, command>>

PublishConfig(i) ==
  /\ service[i] = "publishing"
  /\ config' = i /\ Moves(i, "serving")
  /\ UNCHANGED <<startLock, serverLock, token, command>>

\* The port is taken, the timers cannot be loaded, a file cannot be written.
StartFails(i) ==
  /\ "fail" \in Disturbances /\ service[i] \in {"locked", "publishing"}
  /\ Moves(i, "gone") /\ serverLock' = Nobody /\ command' = Disturbed(command)
  /\ UNCHANGED <<startLock, config, token>>

Signal(i) ==
  /\ "signal" \in Disturbances /\ service[i] = "serving"
  /\ Moves(i, "stopping") /\ command' = Disturbed(command)
  /\ UNCHANGED <<startLock, serverLock, config, token>>

\* The sessions are shut down, the connections dropped.
ShutDown(i) ==
  /\ service[i] = "stopping" /\ Moves(i, "removing")
  /\ UNCHANGED <<startLock, serverLock, config, token, command>>

\* A shutdown that fails or takes ten seconds keeps the discovery files.
Overrun(i) ==
  /\ "late" \in Disturbances /\ service[i] = "stopping"
  /\ Moves(i, "leaving") /\ serverLock' = Nobody /\ command' = Disturbed(command)
  /\ UNCHANGED <<startLock, config, token>>

\* remove_owned: only what names this instance.
RemoveConfig(i) ==
  /\ service[i] = "removing"
  /\ IF config = i
     THEN config' = Nobody /\ Moves(i, "removing token") /\ UNCHANGED serverLock
     ELSE serverLock' = Nobody /\ Moves(i, "leaving") /\ UNCHANGED config
  /\ UNCHANGED <<startLock, token, command>>

\* server.lock is dropped at the end of run, before the process is gone.
RemoveToken(i) ==
  /\ service[i] = "removing token"
  /\ token' = Nobody /\ serverLock' = Nobody /\ Moves(i, "leaving")
  /\ UNCHANGED <<startLock, config, command>>

Exit(i) ==
  /\ service[i] = "leaving" /\ Moves(i, "gone")
  /\ UNCHANGED <<startLock, serverLock, config, token, command>>

Crash(i) ==
  /\ "crash" \in Disturbances /\ Alive(i)
  /\ Moves(i, "gone") /\ serverLock' = Without(serverLock, i)
  /\ command' = Disturbed(command)
  /\ UNCHANGED <<startLock, config, token>>

-----------------------------------------------------------------------------
\* A service that runs, or what one has left behind: both files, the token of
\* one killed while it published or removed them, or nothing.
Init ==
  /\ startLock = Nobody /\ command = [c \in Commands |-> Idle]
  /\ \/ config = 0 /\ token = 0 /\ serverLock = 0
     \/ config \in {0, Nobody} /\ token = 0 /\ serverLock = Nobody
     \/ config = Nobody /\ token = Nobody /\ serverLock = Nobody
  /\ service = [i \in Services |-> IF i > 0 THEN "unborn"
                                   ELSE IF serverLock = 0 THEN "serving" ELSE "gone"]

Searching(c) ==
  \/ AcquireStart(c) \/ ReadConfig(c) \/ ReadToken(c) \/ HelloSucceeds(c)
  \/ HelloFails(c) \/ Probe(c) \/ Unprobe(c)

Starting(c) == Lock(c) \/ Clear(c) \/ ClearToken(c) \/ Spawn(c) \/ Poll(c)

Stopping(c) == ReadKey(c) \/ Control(c) \/ Reply(c) \/ Wait(c) \/ Check(c)

Running(i) ==
  \/ AcquireServer(i) \/ PublishToken(i) \/ PublishConfig(i) \/ ShutDown(i)
  \/ RemoveConfig(i) \/ RemoveToken(i) \/ Exit(i)

Next ==
  \/ \E c \in Commands :
       \/ \E do \in {"start", "stop"} \cup (Disturbances \cap {"show"}) : Begin(c, do)
       \/ Searching(c) \/ Starting(c) \/ Stopping(c) \/ Deadline(c) \/ Kill(c)
  \/ \E i \in Services : Running(i) \/ StartFails(i) \/ Signal(i) \/ Overrun(i) \/ Crash(i)
  \/ Foreground

ProcessesSpec == Init /\ [][Next]_process_vars

\* Processes go on, and time passes.  start.lock is granted again and again, and
\* so is server.lock, which is held for moments or by a service.
FairSpec ==
  /\ ProcessesSpec
  /\ \A c \in Commands :
       /\ SF_process_vars(Searching(c) \/ Starting(c) \/ Stopping(c))
       /\ SF_process_vars(Deadline(c))
  /\ \A i \in Services : WF_process_vars(Running(i))

-----------------------------------------------------------------------------
(* Properties *)

Places == {"idle", "begin", "read", "token", "hello", "probe", "unprobe", "lock", "clear",
           "clear token", "spawn", "poll", "key", "control", "reply", "wait", "check", "done"}

Records == [do : {"none", "start", "stop", "show"}, at : Places,
            found : Services \cup {Nobody}, key : Services \cup {Nobody},
            child : Services \cup {Nobody},
            result : {"none", "running", "stopped", "error", "killed"},
            calm : BOOLEAN, before : Services \cup Commands \cup {Nobody}]

Stages == {"unborn", "spawned", "locked", "publishing", "serving", "stopping",
           "removing", "removing token", "leaving", "gone"}
Held == Stages \ {"unborn", "spawned", "leaving", "gone"}

\* The parts of the state have their types, and a lock of a service is that of one
\* that is between its first and its last step.
ProcessesTypeOK ==
  /\ startLock \in Commands \cup {Nobody}
  /\ serverLock \in Commands \cup Services \cup {Nobody}
  /\ config \in Services \cup {Nobody} /\ token \in Services \cup {Nobody}
  /\ command \in [Commands -> Records]
  /\ service \in [Services -> Stages]
  /\ \A i \in Services : serverLock = i <=> service[i] \in Held

\* A service that serves can be found and spoken to: neither a command that met
\* none, nor another instance on its way in or out, touches its discovery files.
ServingIsPublished ==
  \A i \in Services : service[i] = "serving" => config = i /\ token = i

\* app/fae/README.md: "`stop` waits for cancellation, engine cleanup and process
\* exit."  It says so only when the instance it found is gone and no longer
\* published; and when it says that none ran, the one there was has let go of
\* server.lock.
StopMeansStopped ==
  [][\A c \in Commands :
       command[c].do = "stop" /\ command[c].at # "done" =>
         /\ command'[c].result = "stopped" =>
              service'[command[c].found] = "gone" /\ config' = Nobody
         /\ command'[c].result = "none" /\ command'[c].at = "done" =>
              LET i == command[c].before
              IN  i \in Services => service'[i] \in {"leaving", "gone"}]_process_vars

\* Left alone, a start succeeds, whatever was left behind by services before,
\* and however many commands run beside it.
StartsSucceed ==
  \A c \in Commands :
    command[c].do = "start" /\ command[c].calm => command[c].result # "error"

\* Every command ends, though a service hangs or is killed: nobody keeps a lock.
CommandsEnd ==
  \A c \in Commands : command[c].at # "idle" ~> command[c].at = "done"
=============================================================================
