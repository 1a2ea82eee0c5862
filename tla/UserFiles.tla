----------------------------- MODULE UserFiles -----------------------------
(***************************************************************************)
(* The files that tool calls of an agent write for a user: the todos, one  *)
(* file for each plan (fae-engine/src/tools/todo.rs), which cleaning a     *)
(* session deletes, and the user's memories (memory_runtime.rs).           *)
(*                                                                         *)
(* A call runs in a task of its own that is dropped when its turn is       *)
(* cancelled (tools_runtime.rs).  What it has handed to a blocking thread  *)
(* goes on: all of a todo call, with its locks; of a memory call only the  *)
(* write, without the lock, which is dropped with the call.                *)
(*                                                                         *)
(* A turn is here what owns a todo plan, with all its contexts: it has     *)
(* ended once a cancellation has reached them all, as ContextTree says it  *)
(* does.  Left out: queries, what a todo or a memory says, and the history *)
(* that a cleaning deletes before the todos.                               *)
(***************************************************************************)
EXTENDS Naturals, Sequences, FiniteSets

CONSTANTS
  Turns,      \* turns of agents, each with a todo plan
  Nobody,     \* no turn
  Calls,      \* calls that may be under way at once
  AskLimit,   \* bound: calls made
  NamedIds,   \* bound: ids that calls name
  CrashLimit  \* bound: crashes of the service

ASSUME FilesAssumption == AskLimit \in Nat /\ CrashLimit \in Nat /\ Nobody \notin Turns
                    /\ 1 \in NamedIds /\ NamedIds \subseteq Nat

VARIABLES
  turns,    \* unborn, live, ended, or gone: nothing refers to its scope
  lease,    \* turns whose scope holds the maintenance lock, shared
  clean,    \* of a cleaning: idle, or deleting with the lock exclusively
  calls,    \* what each call is at
  todos,    \* the file of each plan: there, its ids, the next id
  memory,   \* the user's file: torn, items, pairs of an id and a text
  asks, crashes,
  \* history:
  made,     \* the ids a turn was told it has created, in order
  dropped,  \* ids it has deleted since
  cleaned,  \* turns that had ended when their todos were cleaned
  told,     \* texts that a caller was told are in the memories
  replaced, \* those that a later call has replaced or deleted
  cut       \* a write of the memories was cut off, or has failed half-way

todo_vars == <<lease, clean, todos, made, dropped, cleaned>>
memory_vars == <<memory, told, replaced, cut>>
files_vars == <<turns, calls, asks, crashes, todo_vars, memory_vars>>

NoFile == [there |-> FALSE, ids |-> {}, next |-> 1]
Empty == [torn |-> FALSE, items |-> {}]
Torn == [torn |-> TRUE, items |-> {}]

\* file is what a todo call has read, content what a memory call will write, and
\* gone the texts that it will not write again.
Idle == [at |-> "idle", turn |-> Nobody, op |-> "create", id |-> 1, text |-> 0,
         file |-> NoFile, content |-> Empty, gone |-> {}]

At(c, stages) == calls[c].at \in stages
Live(c) == turns[calls[c].turn] = "live"
Goes(c, stage) == calls' = [calls EXCEPT ![c].at = stage]
Ends(c) == calls' = [calls EXCEPT ![c] = Idle]

-----------------------------------------------------------------------------
(* Turns *)

Begin(t) ==
  /\ turns[t] = "unborn" /\ turns' = [turns EXCEPT ![t] = "live"]
  /\ UNCHANGED <<calls, asks, crashes, todo_vars, memory_vars>>

\* A turn ends, or is cancelled with its calls under way.
End(t) ==
  /\ turns[t] = "live" /\ turns' = [turns EXCEPT ![t] = "ended"]
  /\ UNCHANGED <<calls, asks, crashes, todo_vars, memory_vars>>

\* The last context of a turn is dropped, and its scope with the lease.
DropScope(t) ==
  /\ turns[t] = "ended"
  /\ \A c \in Calls : ~At(c, {"idle"}) => calls[c].turn # t
  /\ turns' = [turns EXCEPT ![t] = "gone"] /\ lease' = lease \ {t}
  /\ UNCHANGED <<clean, calls, todos, made, dropped, cleaned, asks, crashes, memory_vars>>

Asks(c, call) ==
  /\ At(c, {"idle"}) /\ asks < AskLimit /\ turns[call.turn] = "live"
  /\ calls' = [calls EXCEPT ![c] = call]
  /\ asks' = asks + 1

-----------------------------------------------------------------------------
(* The todo tool *)

AskTodo(c, t) ==
  /\ \E op \in {"initialize", "create", "update", "delete", "clear"}, id \in NamedIds :
       /\ op \notin {"update", "delete"} => id = 1
       /\ Asks(c, [Idle EXCEPT !.at = IF op \in {"initialize", "create"} THEN "leasing" ELSE "sharing",
                                !.turn = t, !.op = op, !.id = id])
  /\ UNCHANGED <<turns, crashes, todo_vars, memory_vars>>

\* TodoPlanScope::acquire_lease: kept for the whole plan.
AcquireLease(c) ==
  /\ At(c, {"leasing"}) /\ (calls[c].turn \in lease \/ clean = "idle")
  /\ lease' = lease \cup {calls[c].turn} /\ Goes(c, "sharing")
  /\ UNCHANGED <<turns, clean, todos, made, dropped, cleaned, asks, crashes, memory_vars>>

Share(c) ==
  /\ At(c, {"sharing"}) /\ clean = "idle" /\ Goes(c, "locking")
  /\ UNCHANGED <<turns, asks, crashes, todo_vars, memory_vars>>

LockIsFree == \A c \in Calls : ~At(c, {"saving"})

Reads(c) == calls' = [calls EXCEPT ![c].at = "saving", ![c].file = todos[calls[c].turn]]

\* Seeded fault: the user's lock is not taken.
Load_Unlocked(c) ==
  /\ At(c, {"locking"}) /\ IF Live(c) THEN Reads(c) ELSE Ends(c)
  /\ UNCHANGED <<turns, asks, crashes, todo_vars, memory_vars>>
\* Seeded fault: that the turn has ended is not looked at again.
Load_Unasked(c) ==
  /\ At(c, {"locking"}) /\ LockIsFree /\ Reads(c)
  /\ UNCHANGED <<turns, asks, crashes, todo_vars, memory_vars>>
\* The user's lock is taken; a call of a turn that has ended is refused.
Load(c) ==
  /\ At(c, {"locking"}) /\ LockIsFree /\ IF Live(c) THEN Reads(c) ELSE Ends(c)
  /\ UNCHANGED <<turns, asks, crashes, todo_vars, memory_vars>>

\* exec_plan: what a call makes of the file it has read.
Written(call) ==
  [there |-> TRUE,
   ids |-> CASE call.op = "create" -> call.file.ids \cup {call.file.next}
             [] call.op = "delete" -> call.file.ids \ {call.id}
             [] call.op = "clear" -> {}
             [] OTHER -> call.file.ids,
   next |-> IF call.op = "create" THEN call.file.next + 1 ELSE call.file.next]

NotFound(call) == call.op \in {"update", "delete"} /\ call.id \notin call.file.ids

\* save_state replaces the file in one step and the locks are released.
Save(c) ==
  LET call == calls[c]
      t == call.turn
  IN  /\ At(c, {"saving"}) /\ ~NotFound(call)
      /\ todos' = [todos EXCEPT ![t] = Written(call)]
      /\ dropped' = [dropped EXCEPT ![t] = @ \cup (call.file.ids \ Written(call).ids)]
      /\ Goes(c, "answering")
      /\ UNCHANGED <<turns, lease, clean, made, cleaned, asks, crashes, memory_vars>>

\* There is no such todo, or the file cannot be read or written.
SaveFails(c) ==
  /\ At(c, {"saving"}) /\ Ends(c)
  /\ UNCHANGED <<turns, asks, crashes, todo_vars, memory_vars>>

\* The caller hears of it unless its turn has ended.
Answer(c) ==
  LET call == calls[c]
  IN  /\ At(c, {"answering"}) /\ Ends(c)
      /\ made' = IF Live(c) /\ call.op = "create"
                 THEN [made EXCEPT ![call.turn] = Append(@, call.file.next)] ELSE made
      /\ UNCHANGED <<turns, lease, clean, todos, dropped, cleaned, asks, crashes, memory_vars>>

-----------------------------------------------------------------------------
(* clean_session_data *)

\* lock_for_cleanup does not wait: whoever shares the lock makes it fail.  That
\* the registry admits no cleaning beside a round of the agent itself is not
\* relied on: a round of another agent may have called this one.
Clean ==
  /\ clean = "idle" /\ lease = {} /\ \A c \in Calls : ~At(c, {"locking", "saving"})
  /\ clean' = "deleting"
  /\ UNCHANGED <<turns, lease, calls, todos, made, dropped, cleaned, asks, crashes, memory_vars>>

\* The files are deleted one after another.
DeleteTodos(t) ==
  /\ clean = "deleting" /\ todos[t].there
  /\ todos' = [todos EXCEPT ![t] = NoFile]
  /\ UNCHANGED <<turns, lease, clean, calls, made, dropped, cleaned, asks, crashes, memory_vars>>

CleanFails ==
  /\ clean = "deleting" /\ clean' = "idle"
  /\ UNCHANGED <<turns, lease, calls, todos, made, dropped, cleaned, asks, crashes, memory_vars>>

Cleaned ==
  /\ clean = "deleting" /\ \A t \in Turns : ~todos[t].there
  /\ clean' = "idle"
  /\ cleaned' = cleaned \cup {t \in Turns : turns[t] \in {"ended", "gone"}}
  /\ UNCHANGED <<turns, lease, calls, todos, made, dropped, asks, crashes, memory_vars>>

-----------------------------------------------------------------------------
(* The memories *)

\* The text of a call is its number.
AskMemory(c, t) ==
  /\ \E op \in {"create", "update", "delete"}, id \in NamedIds :
       /\ op = "create" => id = 1
       /\ Asks(c, [Idle EXCEPT !.at = "waiting", !.turn = t, !.op = op, !.id = id,
                                !.text = asks + 1])
  /\ UNCHANGED <<turns, crashes, todo_vars, memory_vars>>

MemoryIsFree == \A c \in Calls : ~At(c, {"queued", "open", "written"})

Texts(items) == {m[2] : m \in items}
Same(id) == {m \in memory.items : m[1] = id}

\* One more than the highest.
NewId == {n \in 1..(AskLimit + 1) : /\ \A m \in memory.items : m[1] < n
                                    /\ n > 1 => \E m \in memory.items : m[1] = n - 1}

Edited(call) ==
  CASE call.op = "create" -> {memory.items \cup {<<n, call.text>>} : n \in NewId}
    [] call.op = "update" -> {(memory.items \ Same(call.id)) \cup {<<call.id, call.text>>}}
    [] OTHER -> {memory.items \ Same(call.id)}

\* What a call that holds the lock makes of the file; it cannot when the file is
\* damaged or has no such memory.
Edits(c) ==
  /\ IF memory.torn \/ (calls[c].op # "create" /\ Same(calls[c].id) = {})
     THEN Ends(c)
     ELSE \E items \in Edited(calls[c]) :
            calls' = [calls EXCEPT ![c].at = "queued",
                                   ![c].content = [torn |-> FALSE, items |-> items],
                                   ![c].gone = Texts(memory.items \ items)]
  /\ UNCHANGED <<turns, asks, crashes, todo_vars, memory_vars>>

\* Seeded fault: each engine has a lock of its own.
Edit_Alone(c) == At(c, {"waiting"}) /\ Edits(c)
\* The lock of the path is taken, the file is read, its write is queued.
Edit(c) == At(c, {"waiting"}) /\ MemoryIsFree /\ Edits(c)

\* tokio::fs::write, on a blocking thread: the file is truncated ...
Truncate(c) ==
  /\ \/ At(c, {"queued"}) /\ Goes(c, "open")
     \/ At(c, {"adrift"}) /\ Goes(c, "sinking")
  /\ memory' = Empty
  /\ UNCHANGED <<turns, asks, crashes, todo_vars, told, replaced, cut>>

\* ... and written from its start, over what another write left there meanwhile.
Fill(c) ==
  /\ \/ At(c, {"open"}) /\ Goes(c, "written")
     \/ At(c, {"sinking"}) /\ Ends(c)
  /\ memory' \in {calls[c].content} \cup (IF memory = Empty THEN {} ELSE {Torn})
  /\ replaced' = replaced \cup calls[c].gone
  /\ UNCHANGED <<turns, asks, crashes, todo_vars, told, cut>>

\* The file cannot be opened, or not be written to its end.
WriteFails(c) ==
  /\ \/ At(c, {"queued", "adrift"}) /\ UNCHANGED <<memory, cut>>
     \/ At(c, {"open", "sinking"}) /\ memory' \in {memory, Torn} /\ cut' = TRUE
  /\ Ends(c)
  /\ UNCHANGED <<turns, asks, crashes, todo_vars, told, replaced>>

Acknowledge(c) ==
  /\ At(c, {"written"}) /\ Ends(c)
  /\ told' = IF Live(c) /\ calls[c].op \in {"create", "update"}
             THEN told \cup {calls[c].text} ELSE told
  /\ UNCHANGED <<turns, asks, crashes, todo_vars, memory, replaced, cut>>

\* The task of a call of a cancelled turn is dropped, and the lock with it; the
\* write that it waits for is not.
Drop(c) ==
  /\ ~At(c, {"idle"}) /\ ~Live(c)
  /\ \/ At(c, {"waiting", "written"}) /\ Ends(c) /\ UNCHANGED cut
     \/ At(c, {"queued"}) /\ Goes(c, "adrift") /\ cut' = TRUE
     \/ At(c, {"open"}) /\ Goes(c, "sinking") /\ cut' = TRUE
  /\ UNCHANGED <<turns, asks, crashes, todo_vars, memory, told, replaced>>

-----------------------------------------------------------------------------
\* The service is killed and started again.
Crash ==
  /\ crashes < CrashLimit /\ crashes' = crashes + 1
  /\ turns' = [t \in Turns |-> IF turns[t] = "unborn" THEN "unborn" ELSE "gone"]
  /\ calls' = [c \in Calls |-> Idle] /\ lease' = {} /\ clean' = "idle"
  /\ LET writing == \E c \in Calls : At(c, {"open", "sinking"})
     IN  /\ memory' \in {memory} \cup (IF writing THEN {Torn} ELSE {})
         /\ cut' = (cut \/ writing)
  /\ UNCHANGED <<todos, asks, made, dropped, cleaned, told, replaced>>

Init ==
  /\ turns = [t \in Turns |-> "unborn"] /\ calls = [c \in Calls |-> Idle]
  /\ lease = {} /\ clean = "idle" /\ todos = [t \in Turns |-> NoFile]
  /\ memory = Empty /\ asks = 0 /\ crashes = 0
  /\ made = [t \in Turns |-> <<>>] /\ dropped = [t \in Turns |-> {}] /\ cleaned = {}
  /\ told = {} /\ replaced = {} /\ cut = FALSE

TodoCall(c) ==
  AcquireLease(c) \/ Share(c) \/ Load(c) \/ Save(c) \/ SaveFails(c) \/ Answer(c)

MemoryCall(c) ==
  Edit(c) \/ Truncate(c) \/ Fill(c) \/ WriteFails(c) \/ Acknowledge(c) \/ Drop(c)

Next ==
  \/ \E t \in Turns : Begin(t) \/ End(t) \/ DropScope(t) \/ DeleteTodos(t)
  \/ \E c \in Calls, t \in Turns : AskTodo(c, t) \/ AskMemory(c, t)
  \/ \E c \in Calls : TodoCall(c) \/ MemoryCall(c)
  \/ Clean \/ CleanFails \/ Cleaned \/ Crash

FilesSpec == Init /\ [][Next]_files_vars

-----------------------------------------------------------------------------
(* Properties *)

FileState == [there : BOOLEAN, ids : SUBSET Nat, next : Nat]
MemoryState == [torn : BOOLEAN, items : SUBSET (Nat \X Nat)]
CallState ==
  [at : {"idle", "leasing", "sharing", "locking", "saving", "answering", "waiting",
         "queued", "open", "written", "adrift", "sinking"},
   turn : Turns \cup {Nobody},
   op : {"initialize", "create", "update", "delete", "clear"}, id : Nat, text : Nat,
   file : FileState, content : MemoryState, gone : SUBSET Nat]

FilesTypeOK ==
  /\ turns \in [Turns -> {"unborn", "live", "ended", "gone"}]
  /\ lease \subseteq Turns /\ clean \in {"idle", "deleting"}
  /\ calls \in [Calls -> CallState]
  /\ \A c \in Calls : At(c, {"idle"}) \/ calls[c].turn \in Turns
  /\ todos \in [Turns -> FileState] /\ memory \in MemoryState
  /\ asks \in Nat /\ crashes \in Nat /\ cut \in BOOLEAN
  /\ made \in [Turns -> Seq(Nat)] /\ dropped \in [Turns -> SUBSET Nat]
  /\ cleaned \subseteq Turns /\ told \subseteq Nat /\ replaced \subseteq Nat

\* As long as its turn lasts, a todo that it was told it has created is in the
\* file, unless it has deleted it, whatever other calls and cleanings do; and no
\* id is given twice (todo.rs, 205-211, 309-327, 543-549).
TodosAreKept ==
  \A t \in Turns : turns[t] = "live" =>
    /\ \A i, j \in DOMAIN made[t] : made[t][i] = made[t][j] => i = j
    /\ {made[t][i] : i \in DOMAIN made[t]} \subseteq todos[t].ids \cup dropped[t]

\* The todos of a turn that had ended do not come back once they are cleaned,
\* though its calls may go on (todo.rs, 211-216).
CleanedForGood == \A t \in cleaned : ~todos[t].there

\* A memory that a caller was told of stays until a call replaces it, unless a
\* write was cut off: by a crash, a failure, or the cancellation of its turn
\* (memory_runtime.rs, 76-77, 244-267, 306).
MemoriesAreKept ==
  ~cut /\ (\A c \in Calls : ~At(c, {"open"})) =>
    /\ ~memory.torn
    /\ told \ replaced \subseteq Texts(memory.items)
=============================================================================
