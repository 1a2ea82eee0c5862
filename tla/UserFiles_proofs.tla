-------------------------- MODULE UserFiles_proofs --------------------------
(***************************************************************************)
(* Machine-checked theorems about UserFiles, for any number of turns and   *)
(* calls under way at once, any cleaning and any crashes.                  *)
(***************************************************************************)
EXTENDS UserFiles, TLAPS

-----------------------------------------------------------------------------
(* Types *)

LEMMA EmptyTypes ==
  /\ NoFile \in FileState /\ Empty \in MemoryState /\ Torn \in MemoryState
  /\ Idle \in CallState
  BY FilesAssumption DEF NoFile, Empty, Torn, Idle, FileState, MemoryState, CallState

LEMMA EditedType ==
  ASSUME FilesTypeOK, NEW c \in Calls, NEW items \in Edited(calls[c])
  PROVE  items \in SUBSET (Nat \X Nat) /\ Texts(memory.items \ items) \subseteq Nat
  <1>1. memory.items \in SUBSET (Nat \X Nat) /\ calls[c] \in CallState
    BY DEF FilesTypeOK, MemoryState
  <1>2. calls[c].id \in Nat /\ calls[c].text \in Nat /\ NewId \subseteq Nat
    BY <1>1, FilesAssumption DEF CallState, NewId
  <1>3. items \in SUBSET (Nat \X Nat)
    BY <1>1, <1>2 DEF Edited, Same
  <1>4. QED
    BY <1>1, <1>3 DEF Texts

LEMMA WrittenType ==
  ASSUME NEW call \in CallState
  PROVE  Written(call) \in FileState
  BY DEF Written, CallState, FileState

LEMMA TypeInit == Init => FilesTypeOK
  <1> SUFFICES ASSUME Init PROVE FilesTypeOK
    OBVIOUS
  <1>1. calls \in [Calls -> CallState] /\ \A c \in Calls : calls[c].at = "idle"
    BY EmptyTypes DEF Init, Idle
  <1>2. made \in [Turns -> Seq(Nat)] /\ dropped \in [Turns -> SUBSET Nat]
    BY DEF Init
  <1>3. todos \in [Turns -> FileState] /\ memory \in MemoryState
    BY EmptyTypes DEF Init
  <1>4. QED
    BY <1>1, <1>2, <1>3 DEF Init, FilesTypeOK, At

CallsType ==
  /\ calls \in [Calls -> CallState]
  /\ \A c \in Calls : At(c, {"idle"}) \/ calls[c].turn \in Turns

LEMMA EndsType ==
  ASSUME CallsType, NEW c \in Calls, Ends(c)
  PROVE  CallsType'
  BY EmptyTypes DEF CallsType, Ends, At, Idle

Stages == {"idle", "leasing", "sharing", "locking", "saving", "answering", "waiting",
           "queued", "open", "written", "adrift", "sinking"}

LEMMA GoesType ==
  ASSUME CallsType, NEW c \in Calls, ~At(c, {"idle"}), NEW stage \in Stages, Goes(c, stage)
  PROVE  CallsType'
  <1>1. [calls[c] EXCEPT !.at = stage] \in CallState
    BY DEF CallsType, CallState, Stages
  <1>2. QED
    BY <1>1 DEF CallsType, Goes, At, CallState

LEMMA TypeStep == FilesTypeOK /\ [Next]_files_vars => FilesTypeOK'
  <1> SUFFICES ASSUME FilesTypeOK, [Next]_files_vars PROVE FilesTypeOK'
    OBVIOUS
  <1> USE DEF todo_vars, memory_vars
  <1>1. ASSUME NEW t \in Turns, Begin(t) \/ End(t) \/ DropScope(t) \/ DeleteTodos(t)
        PROVE  FilesTypeOK'
    BY <1>1, EmptyTypes DEF Begin, End, DropScope, DeleteTodos, FilesTypeOK, At
  <1>2. ASSUME NEW c \in Calls, NEW t \in Turns, AskTodo(c, t)
        PROVE  FilesTypeOK'
    <2>1. PICK op \in {"initialize", "create", "update", "delete", "clear"}, id \in NamedIds :
            Asks(c, [Idle EXCEPT !.at = IF op \in {"initialize", "create"} THEN "leasing"
                                        ELSE "sharing", !.turn = t, !.op = op, !.id = id])
      BY <1>2 DEF AskTodo
    <2>2. id \in Nat
      BY FilesAssumption
    <2>3. [Idle EXCEPT !.at = IF op \in {"initialize", "create"} THEN "leasing"
                              ELSE "sharing", !.turn = t, !.op = op, !.id = id] \in CallState
      BY <2>2, EmptyTypes DEF CallState
    <2>4. QED
      BY <1>2, <2>1, <2>3 DEF AskTodo, Asks, FilesTypeOK, At, Idle
  <1>3. ASSUME NEW c \in Calls, NEW t \in Turns, AskMemory(c, t)
        PROVE  FilesTypeOK'
    <2>1. PICK op \in {"create", "update", "delete"}, id \in NamedIds :
            Asks(c, [Idle EXCEPT !.at = "waiting", !.turn = t, !.op = op, !.id = id,
                                 !.text = asks + 1])
      BY <1>3 DEF AskMemory
    <2>2. id \in Nat /\ asks + 1 \in Nat
      BY FilesAssumption DEF FilesTypeOK
    <2>3. [Idle EXCEPT !.at = "waiting", !.turn = t, !.op = op, !.id = id,
                       !.text = asks + 1] \in CallState
      BY <2>2, EmptyTypes DEF CallState
    <2>4. QED
      BY <1>3, <2>1, <2>3 DEF AskMemory, Asks, FilesTypeOK, At, Idle
  <1>4. ASSUME NEW c \in Calls, TodoCall(c)
        PROVE  FilesTypeOK'
    <2>1. calls[c] \in CallState /\ (~At(c, {"idle"}) => calls[c].turn \in Turns)
      BY DEF FilesTypeOK
    <2>2. CASE AcquireLease(c)
      BY <2>1, <2>2 DEF AcquireLease, Goes, FilesTypeOK, At, CallState
    <2>3. CASE Share(c)
      BY <2>1, <2>3 DEF Share, Goes, FilesTypeOK, At, CallState
    <2>4. CASE Load(c)
      <3>1. CallsType /\ ~At(c, {"idle"}) /\ todos[calls[c].turn] \in FileState
        BY <2>1, <2>4 DEF Load, FilesTypeOK, CallsType, At
      <3>2. ASSUME Reads(c) PROVE CallsType'
        <4>1. [calls[c] EXCEPT !.at = "saving", !.file = todos[calls[c].turn]] \in CallState
          BY <2>1, <3>1 DEF CallState
        <4>2. calls' = [calls EXCEPT ![c] = [calls[c] EXCEPT !.at = "saving",
                                                           !.file = todos[calls[c].turn]]]
          BY <3>2 DEF Reads
        <4>3. QED
          BY <2>1, <3>1, <4>1, <4>2 DEF CallsType, At, CallState
      <3>3. CallsType'
        BY <2>4, <3>1, <3>2, EndsType DEF Load
      <3>4. QED
        BY <2>4, <3>3 DEF Load, FilesTypeOK, CallsType
    <2>5. CASE Save(c)
      <3>1. Written(calls[c]) \in FileState /\ calls[c].file.ids \subseteq Nat
        BY <2>1, WrittenType DEF CallState, FileState
      <3>2. QED
        BY <2>1, <2>5, <3>1 DEF Save, Goes, FilesTypeOK, At, CallState
    <2>6. CASE SaveFails(c)
      BY <2>6, EmptyTypes DEF SaveFails, Ends, FilesTypeOK, At, Idle
    <2>7. CASE Answer(c)
      <3>1. calls[c].file.next \in Nat /\ calls[c].turn \in Turns
        BY <2>1, <2>7 DEF Answer, At, CallState, FileState
      <3>2. made' \in [Turns -> Seq(Nat)]
        BY <2>7, <3>1 DEF Answer, FilesTypeOK
      <3>3. QED
        BY <2>7, <3>2, EmptyTypes DEF Answer, Ends, FilesTypeOK, At, Idle
    <2>8. QED
      BY <1>4, <2>2, <2>3, <2>4, <2>5, <2>6, <2>7 DEF TodoCall
  <1>5. ASSUME NEW c \in Calls, MemoryCall(c)
        PROVE  FilesTypeOK'
    <2>1. calls[c] \in CallState /\ (~At(c, {"idle"}) => calls[c].turn \in Turns)
      BY DEF FilesTypeOK
    <2>2. CASE Edit(c)
      <3>1. CASE Ends(c)
        BY <2>2, <3>1, EmptyTypes DEF Edit, Edits, Ends, FilesTypeOK, At, Idle
      <3>2. CASE ~Ends(c)
        <4>1. PICK items \in Edited(calls[c]) :
                calls' = [calls EXCEPT ![c].at = "queued",
                                       ![c].content = [torn |-> FALSE, items |-> items],
                                       ![c].gone = Texts(memory.items \ items)]
          BY <2>2, <3>2 DEF Edit, Edits
        <4>2. /\ [torn |-> FALSE, items |-> items] \in MemoryState
              /\ Texts(memory.items \ items) \subseteq Nat
          BY EditedType DEF MemoryState
        <4>3. QED
          BY <2>1, <2>2, <4>1, <4>2 DEF Edit, Edits, FilesTypeOK, At, CallState
      <3>3. QED
        BY <3>1, <3>2
    <2>3. CASE Truncate(c)
      <3>1. CallsType /\ ~At(c, {"idle"})
        BY <2>3 DEF Truncate, FilesTypeOK, CallsType, At
      <3>2. CallsType'
        BY <2>3, <3>1, GoesType DEF Truncate, Stages
      <3>3. QED
        BY <2>3, <3>2, EmptyTypes DEF Truncate, FilesTypeOK, CallsType
    <2>4. CASE Fill(c)
      <3>1. memory' \in MemoryState /\ replaced' \subseteq Nat
        BY <2>1, <2>4, EmptyTypes DEF Fill, FilesTypeOK, CallState
      <3>2. QED
        <4>1. CallsType /\ ~At(c, {"idle"})
          BY <2>4 DEF Fill, FilesTypeOK, CallsType, At
        <4>2. CallsType'
          BY <2>4, <4>1, GoesType, EndsType DEF Fill, Stages
        <4>3. QED
          BY <2>4, <3>1, <4>2 DEF Fill, FilesTypeOK, CallsType
    <2>5. CASE WriteFails(c)
      <3>1. memory' \in MemoryState /\ cut' \in BOOLEAN
        BY <2>5, EmptyTypes DEF WriteFails, FilesTypeOK
      <3>2. QED
        BY <2>5, <3>1, EmptyTypes DEF WriteFails, Ends, FilesTypeOK, At, Idle
    <2>6. CASE Acknowledge(c)
      BY <2>1, <2>6, EmptyTypes DEF Acknowledge, Ends, FilesTypeOK, At, Idle, CallState
    <2>7. CASE Drop(c)
      <3>1. CallsType /\ ~At(c, {"idle"})
        BY <2>7 DEF Drop, FilesTypeOK, CallsType, At
      <3>2. CallsType'
        BY <2>7, <3>1, GoesType, EndsType DEF Drop, Stages
      <3>3. QED
        BY <2>7, <3>2 DEF Drop, FilesTypeOK, CallsType
    <2>8. QED
      BY <1>5, <2>2, <2>3, <2>4, <2>5, <2>6, <2>7 DEF MemoryCall
  <1>6. CASE Clean \/ CleanFails \/ Cleaned
    BY <1>6 DEF Clean, CleanFails, Cleaned, FilesTypeOK, At
  <1>7. CASE Crash
    <2>1. memory' \in MemoryState /\ cut' \in BOOLEAN
      BY <1>7, EmptyTypes DEF Crash, FilesTypeOK
    <2>2. turns' \in [Turns -> {"unborn", "live", "ended", "gone"}]
      BY <1>7 DEF Crash, FilesTypeOK
    <2>3. QED
      BY <1>7, <2>1, <2>2, EmptyTypes DEF Crash, FilesTypeOK, At, Idle
  <1>8. CASE UNCHANGED files_vars
    BY <1>8 DEF files_vars, FilesTypeOK, At
  <1>9. QED
    BY <1>1, <1>2, <1>3, <1>4, <1>5, <1>6, <1>7, <1>8 DEF Next

\* The files and the calls keep their types.
THEOREM FilesTypes == FilesSpec => []FilesTypeOK
BY TypeInit, TypeStep, PTL DEF FilesSpec

-----------------------------------------------------------------------------
(* Invariants *)

\* Nothing that reads or writes a todo file overlaps a cleaning.
CleanAlone ==
  clean = "deleting" => lease = {} /\ \A c \in Calls : ~At(c, {"locking", "saving"})

\* The owner of what was cleaned has ended, and none of its calls writes any more.
CleanedOver ==
  \A t \in cleaned :
    /\ turns[t] \in {"ended", "gone"} /\ ~todos[t].there
    /\ \A c \in Calls : At(c, {"saving"}) => calls[c].turn # t

\* The user's lock: what a call has read is what it will replace.
OneSaves ==
  /\ \A c, d \in Calls : At(c, {"saving"}) /\ At(d, {"saving"}) => c = d
  /\ \A c \in Calls : At(c, {"saving"}) => calls[c].file = todos[calls[c].turn]

\* Before a turn begins nothing is done for it.
Unborn ==
  \A t \in Turns : turns[t] = "unborn" =>
    made[t] = <<>> /\ \A c \in Calls : calls[c].turn # t

Past == {"sharing", "locking", "saving", "answering"}
Creates(c, stages) == At(c, stages) /\ calls[c].op = "create"

\* Whoever has created todos holds the lease.
Leased ==
  /\ \A c \in Calls : Creates(c, Past) => calls[c].turn \in lease
  /\ \A t \in Turns : turns[t] = "live" /\ made[t] # <<>> => t \in lease

\* n was given to a todo of turn t that is still there, or was deleted.
Given(t, n) == n < todos[t].next /\ n \in todos[t].ids \cup dropped[t]

\* What a live turn was told, and what it will be told.
Granted ==
  /\ \A t \in Turns : turns[t] = "live" =>
       \A i \in DOMAIN made[t] : /\ Given(t, made[t][i])
                                 /\ \A j \in DOMAIN made[t] : made[t][i] = made[t][j] => i = j
  /\ \A c \in Calls : Creates(c, {"answering"}) /\ Live(c) =>
       LET t == calls[c].turn
           n == calls[c].file.next
       IN  /\ Given(t, n) /\ \A i \in DOMAIN made[t] : made[t][i] # n
           /\ \A d \in Calls : Creates(d, {"answering"}) /\ calls[d].turn = t
                                 /\ calls[d].file.next = n => d = c

\* The lock of the memories: one call from its read to its answer.
OneWrites ==
  LET writing == {"queued", "open", "written"}
  IN  \A c, d \in Calls : At(c, writing) /\ At(d, writing) => c = d

Kept(texts) == told \ replaced \subseteq texts

\* Until a write is cut off, the file is that of the last call, or will be.
Whole ==
  ~cut =>
    /\ \A c \in Calls : ~At(c, {"adrift", "sinking"})
    /\ (\A c \in Calls : ~At(c, {"open"})) => ~memory.torn /\ Kept(Texts(memory.items))
    /\ \A c \in Calls :
         /\ At(c, {"open"}) => memory = Empty
         /\ At(c, {"written"}) => memory = calls[c].content
         /\ At(c, {"queued", "open"}) =>
              ~calls[c].content.torn /\ Kept(Texts(calls[c].content.items) \cup calls[c].gone)
         /\ At(c, {"queued", "open", "written"}) /\ calls[c].op \in {"create", "update"} =>
              calls[c].text \in Texts(calls[c].content.items)

-----------------------------------------------------------------------------
(* What a step does to the calls *)

LEMMA Ended ==
  ASSUME FilesTypeOK, NEW c \in Calls, Ends(c)
  PROVE  /\ calls'[c] = Idle
         /\ \A d \in Calls \ {c} : calls'[d] = calls[d]
  BY DEF FilesTypeOK, Ends

LEMMA Went ==
  ASSUME FilesTypeOK, NEW c \in Calls, NEW stage, Goes(c, stage)
  PROVE  /\ calls'[c] = [calls[c] EXCEPT !.at = stage]
         /\ calls'[c].at = stage /\ calls'[c].turn = calls[c].turn /\ calls'[c].op = calls[c].op
         /\ calls'[c].file = calls[c].file /\ calls'[c].text = calls[c].text
         /\ calls'[c].content = calls[c].content /\ calls'[c].gone = calls[c].gone
         /\ \A d \in Calls \ {c} : calls'[d] = calls[d]
  BY DEF FilesTypeOK, CallState, Goes

LEMMA Asked ==
  ASSUME FilesTypeOK, NEW c \in Calls, NEW t \in Turns, AskTodo(c, t) \/ AskMemory(c, t)
  PROVE  /\ At(c, {"idle"}) /\ calls'[c].at \in {"leasing", "sharing", "waiting"}
         /\ calls'[c].turn = t /\ turns[t] = "live"
         /\ calls'[c].at = "sharing" => calls'[c].op # "create"
         /\ \A d \in Calls \ {c} : calls'[d] = calls[d]
         /\ UNCHANGED <<turns, crashes, todo_vars, memory_vars>>
  <1>1. CASE AskTodo(c, t)
    <2>1. PICK op \in {"initialize", "create", "update", "delete", "clear"}, id \in NamedIds :
            Asks(c, [Idle EXCEPT !.at = IF op \in {"initialize", "create"} THEN "leasing"
                                        ELSE "sharing", !.turn = t, !.op = op, !.id = id])
      BY <1>1 DEF AskTodo
    <2>2. QED
      BY <1>1, <2>1 DEF AskTodo, Asks, FilesTypeOK, At, Idle
  <1>2. CASE AskMemory(c, t)
    <2>1. PICK op \in {"create", "update", "delete"}, id \in NamedIds :
            Asks(c, [Idle EXCEPT !.at = "waiting", !.turn = t, !.op = op, !.id = id,
                                 !.text = asks + 1])
      BY <1>2 DEF AskMemory
    <2>2. QED
      BY <1>2, <2>1 DEF AskMemory, Asks, FilesTypeOK, At, Idle
  <1>3. QED
    BY <1>1, <1>2

LEMMA Loaded ==
  ASSUME FilesTypeOK, NEW c \in Calls, Load(c)
  PROVE  /\ At(c, {"locking"}) /\ \A d \in Calls : ~At(d, {"saving"})
         /\ \A d \in Calls \ {c} : calls'[d] = calls[d]
         /\ \/ calls'[c] = Idle
            \/ /\ Live(c) /\ calls'[c].at = "saving"
               /\ calls'[c].turn = calls[c].turn /\ calls'[c].op = calls[c].op
               /\ calls'[c].file = todos[calls[c].turn]
         /\ UNCHANGED <<turns, asks, crashes, todo_vars, memory_vars>>
  BY DEF FilesTypeOK, CallState, Load, LockIsFree, Reads, Ends

LEMMA MemoryMoves ==
  ASSUME FilesTypeOK, NEW c \in Calls, MemoryCall(c)
  PROVE  /\ At(c, {"waiting", "queued", "open", "written", "adrift", "sinking"})
         /\ calls'[c].at \in {"queued", "open", "written", "adrift", "sinking", "idle"}
         /\ calls'[c].turn \in {Nobody, calls[c].turn}
         /\ \A d \in Calls \ {c} : calls'[d] = calls[d]
         /\ UNCHANGED <<turns, todo_vars>>
  <1>1. CASE Edit(c)
    <2>1. CASE Ends(c)
      <3>1. At(c, {"waiting"}) /\ UNCHANGED <<turns, todo_vars>>
        BY <1>1 DEF Edit, Edits
      <3>2. QED
        BY <2>1, <3>1, Ended DEF At, Idle
    <2>2. CASE ~Ends(c)
      <3>1. PICK items \in Edited(calls[c]) :
              calls' = [calls EXCEPT ![c].at = "queued",
                                     ![c].content = [torn |-> FALSE, items |-> items],
                                     ![c].gone = Texts(memory.items \ items)]
        BY <1>1, <2>2 DEF Edit, Edits
      <3>2. /\ calls'[c].at = "queued" /\ calls'[c].turn = calls[c].turn
            /\ \A d \in Calls \ {c} : calls'[d] = calls[d]
        BY <3>1 DEF FilesTypeOK, CallState
      <3>3. QED
        BY <1>1, <3>2 DEF Edit, Edits, At
    <2>3. QED
      BY <2>1, <2>2
  <1>2. CASE Truncate(c)
    BY <1>2, Went DEF Truncate, At
  <1>3. CASE Fill(c)
    <2>1. CASE At(c, {"open"}) /\ Goes(c, "written")
      BY <1>3, <2>1, Went DEF Fill, At
    <2>2. CASE At(c, {"sinking"}) /\ Ends(c)
      BY <1>3, <2>2, Ended DEF Fill, At, Idle
    <2>3. QED
      BY <1>3, <2>1, <2>2 DEF Fill
  <1>4. CASE WriteFails(c)
    BY <1>4, Ended DEF WriteFails, At, Idle
  <1>5. CASE Acknowledge(c)
    BY <1>5, Ended DEF Acknowledge, At, Idle
  <1>6. CASE Drop(c)
    <2>1. CASE At(c, {"waiting", "written"}) /\ Ends(c)
      BY <1>6, <2>1, Ended DEF Drop, At, Idle
    <2>2. CASE At(c, {"queued"}) /\ Goes(c, "adrift")
      BY <1>6, <2>2, Went DEF Drop, At
    <2>3. CASE At(c, {"open"}) /\ Goes(c, "sinking")
      BY <1>6, <2>3, Went DEF Drop, At
    <2>4. QED
      BY <1>6, <2>1, <2>2, <2>3 DEF Drop
  <1>7. QED
    BY <1>1, <1>2, <1>3, <1>4, <1>5, <1>6 DEF MemoryCall

-----------------------------------------------------------------------------
(* Cleaning *)

CleaningInv == CleanAlone /\ CleanedOver

LEMMA CleaningStep ==
  ASSUME FilesTypeOK, FilesTypeOK', CleaningInv, [Next]_files_vars
  PROVE  CleaningInv'
  <1> USE DEF CleaningInv, todo_vars, memory_vars
  <1>1. ASSUME NEW t \in Turns, Begin(t) \/ End(t) \/ DropScope(t) \/ DeleteTodos(t)
        PROVE  CleaningInv'
    <2>1. UNCHANGED <<calls, cleaned, clean>> /\ lease' \subseteq lease
      BY <1>1 DEF Begin, End, DropScope, DeleteTodos
    <2>2. CleanAlone'
      BY <2>1 DEF CleanAlone, At
    <2>3. CASE Begin(t) \/ End(t) \/ DropScope(t)
      <3>1. todos' = todos /\ \A u \in cleaned : turns'[u] \in {"ended", "gone"}
        BY <2>3 DEF Begin, End, DropScope, CleanedOver, FilesTypeOK
      <3>2. QED
        BY <2>1, <2>2, <3>1 DEF CleanedOver, At
    <2>4. CASE DeleteTodos(t)
      <3>1. turns' = turns /\ \A u \in cleaned : ~todos'[u].there
        BY <2>4 DEF DeleteTodos, CleanedOver, FilesTypeOK, NoFile
      <3>2. QED
        BY <2>1, <2>2, <3>1 DEF CleanedOver, At
    <2>5. QED
      BY <1>1, <2>3, <2>4
  <1>2. ASSUME NEW c \in Calls, NEW t \in Turns, AskTodo(c, t) \/ AskMemory(c, t)
        PROVE  CleaningInv'
    BY <1>2, Asked DEF CleanAlone, CleanedOver, At
  <1>3. ASSUME NEW c \in Calls, TodoCall(c)
        PROVE  CleaningInv'
    <2>1. CASE AcquireLease(c)
      <3>1. clean # "deleting" /\ UNCHANGED <<turns, clean, todos, cleaned>>
        BY <2>1 DEF AcquireLease, CleanAlone
      <3>2. calls'[c].at = "sharing" /\ \A d \in Calls \ {c} : calls'[d] = calls[d]
        BY <2>1, Went DEF AcquireLease
      <3>3. QED
        BY <3>1, <3>2 DEF CleanAlone, CleanedOver, At
    <2>2. CASE Share(c)
      <3>1. clean # "deleting" /\ UNCHANGED <<turns, clean, todos, cleaned>>
        BY <2>2 DEF Share
      <3>2. calls'[c].at = "locking" /\ \A d \in Calls \ {c} : calls'[d] = calls[d]
        BY <2>2, Went DEF Share
      <3>3. QED
        BY <3>1, <3>2 DEF CleanAlone, CleanedOver, At
    <2>3. CASE Load(c)
      BY <2>3, Loaded DEF CleanAlone, CleanedOver, At, Idle, Live
    <2>4. CASE Save(c)
      <3>1. clean # "deleting" /\ calls[c].turn \notin cleaned
        BY <2>4 DEF Save, CleanAlone, CleanedOver, At
      <3>2. \A t \in cleaned : todos'[t] = todos[t]
        BY <2>4, <3>1 DEF Save, FilesTypeOK
      <3>3. QED
        <4>1. UNCHANGED <<turns, clean, cleaned>>
          BY <2>4 DEF Save
        <4>2. calls'[c].at = "answering" /\ \A d \in Calls \ {c} : calls'[d] = calls[d]
          BY <2>4, Went DEF Save
        <4>3. QED
          BY <3>1, <3>2, <4>1, <4>2 DEF CleanAlone, CleanedOver, At
    <2>5. CASE SaveFails(c) \/ Answer(c)
      BY <2>5, Ended DEF SaveFails, Answer, CleanAlone, CleanedOver, At, Idle
    <2>6. QED
      BY <1>3, <2>1, <2>2, <2>3, <2>4, <2>5 DEF TodoCall
  <1>4. ASSUME NEW c \in Calls, MemoryCall(c)
        PROVE  CleaningInv'
    BY <1>4, MemoryMoves DEF CleanAlone, CleanedOver, At
  <1>5. CASE Clean \/ CleanFails \/ Cleaned
    BY <1>5 DEF Clean, CleanFails, Cleaned, CleanAlone, CleanedOver, FilesTypeOK, At
  <1>6. CASE Crash
    BY <1>6 DEF Crash, CleanAlone, CleanedOver, FilesTypeOK, At, Idle
  <1>7. CASE UNCHANGED files_vars
    BY <1>7 DEF files_vars, CleanAlone, CleanedOver, At
  <1>8. QED
    BY <1>1, <1>2, <1>3, <1>4, <1>5, <1>6, <1>7 DEF Next

\* What has been cleaned after its turn ended stays away, whatever calls of the
\* turn are still under way.
THEOREM CleanedStaysAway == FilesSpec => []CleanedForGood
  <1>1. Init => CleaningInv
    BY DEF Init, CleaningInv, CleanAlone, CleanedOver
  <1>2. FilesTypeOK /\ FilesTypeOK' /\ CleaningInv /\ [Next]_files_vars => CleaningInv'
    BY CleaningStep
  <1>3. CleaningInv => CleanedForGood
    BY DEF CleaningInv, CleanedOver, CleanedForGood
  <1>4. QED
    BY FilesTypes, <1>1, <1>2, <1>3, PTL DEF FilesSpec

-----------------------------------------------------------------------------
(* Todos *)

LEMMA OneSavesStep ==
  ASSUME FilesTypeOK, FilesTypeOK', CleanAlone, OneSaves, [Next]_files_vars
  PROVE  OneSaves'
  <1> USE DEF todo_vars, memory_vars
  <1>1. ASSUME NEW t \in Turns, Begin(t) \/ End(t) \/ DropScope(t)
        PROVE  OneSaves'
    BY <1>1 DEF Begin, End, DropScope, OneSaves, At
  <1>2. ASSUME NEW t \in Turns, DeleteTodos(t)
        PROVE  OneSaves'
    BY <1>2 DEF DeleteTodos, CleanAlone, OneSaves, At
  <1>3. ASSUME NEW c \in Calls, NEW t \in Turns, AskTodo(c, t) \/ AskMemory(c, t)
        PROVE  OneSaves'
    BY <1>3, Asked DEF OneSaves, At
  <1>4. ASSUME NEW c \in Calls, TodoCall(c)
        PROVE  OneSaves'
    <2>1. CASE AcquireLease(c) \/ Share(c)
      <3>1. todos' = todos
        BY <2>1 DEF AcquireLease, Share
      <3>2. calls'[c].at \in {"sharing", "locking"} /\ \A d \in Calls \ {c} : calls'[d] = calls[d]
        BY <2>1, Went DEF AcquireLease, Share
      <3>3. QED
        BY <3>1, <3>2 DEF OneSaves, At
    <2>2. CASE Load(c)
      BY <2>2, Loaded DEF OneSaves, At, Idle
    <2>3. CASE Save(c)
      <3>1. \A d \in Calls \ {c} : ~At(d, {"saving"})
        BY <2>3 DEF Save, OneSaves, At
      <3>2. calls'[c].at = "answering" /\ \A d \in Calls \ {c} : calls'[d] = calls[d]
        BY <2>3, Went DEF Save
      <3>3. QED
        BY <3>1, <3>2 DEF OneSaves, At
    <2>4. CASE SaveFails(c) \/ Answer(c)
      BY <2>4, Ended DEF SaveFails, Answer, OneSaves, At, Idle
    <2>5. QED
      BY <1>4, <2>1, <2>2, <2>3, <2>4 DEF TodoCall
  <1>5. ASSUME NEW c \in Calls, MemoryCall(c)
        PROVE  OneSaves'
    BY <1>5, MemoryMoves DEF OneSaves, At
  <1>6. CASE Clean \/ CleanFails \/ Cleaned
    BY <1>6 DEF Clean, CleanFails, Cleaned, OneSaves, At
  <1>7. CASE Crash
    BY <1>7 DEF Crash, OneSaves, At, Idle
  <1>8. CASE UNCHANGED files_vars
    BY <1>8 DEF files_vars, OneSaves, At
  <1>9. QED
    BY <1>1, <1>2, <1>3, <1>4, <1>5, <1>6, <1>7, <1>8 DEF Next

LEMMA UnbornStep ==
  ASSUME FilesTypeOK, FilesTypeOK', Unborn, [Next]_files_vars
  PROVE  Unborn'
  <1> USE DEF todo_vars, memory_vars
  <1>1. ASSUME NEW t \in Turns, Begin(t) \/ End(t) \/ DropScope(t) \/ DeleteTodos(t)
        PROVE  Unborn'
    BY <1>1 DEF Begin, End, DropScope, DeleteTodos, FilesTypeOK, Unborn
  <1>2. ASSUME NEW c \in Calls, NEW t \in Turns, AskTodo(c, t) \/ AskMemory(c, t)
        PROVE  Unborn'
    BY <1>2, Asked DEF Unborn
  <1>3. ASSUME NEW c \in Calls, TodoCall(c)
        PROVE  Unborn'
    <2>1. calls'[c].turn \in {Nobody, calls[c].turn} /\ \A d \in Calls \ {c} : calls'[d] = calls[d]
      <3>1. CASE AcquireLease(c) \/ Share(c) \/ Save(c)
        BY <3>1, Went DEF AcquireLease, Share, Save
      <3>2. CASE Load(c)
        BY <3>2, Loaded DEF Idle
      <3>3. CASE SaveFails(c) \/ Answer(c)
        BY <3>3, Ended DEF SaveFails, Answer, Idle
      <3>4. QED
        BY <1>3, <3>1, <3>2, <3>3 DEF TodoCall
    <2>2. turns' = turns
      BY <1>3 DEF TodoCall, AcquireLease, Share, Load, Save, SaveFails, Answer
    <2>3. \A t \in Turns : turns[t] = "unborn" => made'[t] = made[t]
      <3>1. CASE Answer(c)
        BY <3>1 DEF Answer, Live, FilesTypeOK
      <3>2. CASE ~Answer(c)
        BY <1>3, <3>2 DEF TodoCall, AcquireLease, Share, Load, Save, SaveFails
      <3>3. QED
        BY <3>1, <3>2
    <2>4. QED
      BY <2>1, <2>2, <2>3, FilesAssumption DEF Unborn
  <1>4. ASSUME NEW c \in Calls, MemoryCall(c)
        PROVE  Unborn'
    <2>1. calls'[c].turn \in {Nobody, calls[c].turn} /\ \A d \in Calls \ {c} : calls'[d] = calls[d]
      BY <1>4, MemoryMoves
    <2>2. QED
      BY <1>4, <2>1, MemoryMoves, FilesAssumption DEF Unborn
  <1>5. CASE Clean \/ CleanFails \/ Cleaned
    BY <1>5 DEF Clean, CleanFails, Cleaned, Unborn
  <1>6. CASE Crash
    BY <1>6, FilesAssumption DEF Crash, FilesTypeOK, Unborn, Idle
  <1>7. CASE UNCHANGED files_vars
    BY <1>7 DEF files_vars, Unborn
  <1>8. QED
    BY <1>1, <1>2, <1>3, <1>4, <1>5, <1>6, <1>7 DEF Next

LEMMA LeasedStep ==
  ASSUME FilesTypeOK, FilesTypeOK', Unborn, Leased, [Next]_files_vars
  PROVE  Leased'
  <1> USE DEF todo_vars, memory_vars
  <1>1. ASSUME NEW t \in Turns, Begin(t) \/ End(t) \/ DeleteTodos(t)
        PROVE  Leased'
    BY <1>1 DEF Begin, End, DeleteTodos, FilesTypeOK, Unborn, Leased, Creates, At
  <1>2. ASSUME NEW t \in Turns, DropScope(t)
        PROVE  Leased'
    <2>1. \A c \in Calls : Creates(c, Past) => calls[c].turn # t
      BY <1>2 DEF DropScope, Creates, At, Past
    <2>2. turns[t] # "live" /\ \A u \in Turns \ {t} : turns'[u] = turns[u]
      BY <1>2 DEF DropScope, FilesTypeOK
    <2>3. UNCHANGED <<calls, made>> /\ lease' = lease \ {t} /\ turns'[t] = "gone"
      BY <1>2 DEF DropScope, FilesTypeOK
    <2>4. QED
      BY <2>1, <2>2, <2>3 DEF Leased, Creates, At
  <1>3. ASSUME NEW c \in Calls, NEW t \in Turns, AskTodo(c, t) \/ AskMemory(c, t)
        PROVE  Leased'
    BY <1>3, Asked DEF Leased, Creates, At, Past
  <1>4. ASSUME NEW c \in Calls, TodoCall(c)
        PROVE  Leased'
    <2>1. CASE AcquireLease(c)
      <3>1. lease' = lease \cup {calls[c].turn} /\ UNCHANGED <<turns, made>>
        BY <2>1 DEF AcquireLease
      <3>2. calls'[c].turn = calls[c].turn /\ \A d \in Calls \ {c} : calls'[d] = calls[d]
        BY <2>1, Went DEF AcquireLease
      <3>3. QED
        BY <3>1, <3>2 DEF Leased, Creates, At
    <2>2. CASE Share(c) \/ Load(c) \/ Save(c)
      <3>1. UNCHANGED <<lease, turns, made>>
        BY <2>2 DEF Share, Load, Save
      <3>2. At(c, Past) /\ \A d \in Calls \ {c} : calls'[d] = calls[d]
        BY <2>2, Went, Loaded DEF Share, Save, At, Past
      <3>3. \/ calls'[c] = Idle
            \/ calls'[c].turn = calls[c].turn /\ calls'[c].op = calls[c].op
        <4>1. CASE Share(c) \/ Save(c)
          BY <4>1, Went DEF Share, Save
        <4>2. CASE Load(c)
          BY <4>2, Loaded
        <4>3. QED
          BY <2>2, <4>1, <4>2
      <3>4. QED
        BY <3>1, <3>2, <3>3 DEF Leased, Creates, At, Idle, Past
    <2>3. CASE SaveFails(c)
      BY <2>3, Ended DEF SaveFails, Leased, Creates, At, Idle, Past
    <2>4. CASE Answer(c)
      <3>1. UNCHANGED <<lease, turns>>
        BY <2>4 DEF Answer
      <3>2. calls'[c] = Idle /\ \A d \in Calls \ {c} : calls'[d] = calls[d]
        BY <2>4, Ended DEF Answer
      <3>3. \A t \in Turns : made'[t] = made[t] \/ (Creates(c, Past) /\ calls[c].turn = t)
        <4>1. At(c, {"answering"}) /\ made \in [Turns -> Seq(Nat)]
          BY <2>4 DEF Answer, FilesTypeOK
        <4>2. \/ made' = made
              \/ /\ calls[c].op = "create"
                 /\ made' = [made EXCEPT ![calls[c].turn] = Append(@, calls[c].file.next)]
          BY <2>4 DEF Answer
        <4>3. QED
          BY <4>1, <4>2 DEF Creates, At, Past
      <3>4. QED
        BY <3>1, <3>2, <3>3 DEF Leased, Creates, At, Idle, Past
    <2>5. QED
      BY <1>4, <2>1, <2>2, <2>3, <2>4 DEF TodoCall
  <1>5. ASSUME NEW c \in Calls, MemoryCall(c)
        PROVE  Leased'
    BY <1>5, MemoryMoves DEF Leased, Creates, At, Past
  <1>6. CASE Clean \/ CleanFails \/ Cleaned
    BY <1>6 DEF Clean, CleanFails, Cleaned, Leased, Creates, At
  <1>7. CASE Crash
    BY <1>7 DEF Crash, FilesTypeOK, Leased, Creates, At, Idle, Past
  <1>8. CASE UNCHANGED files_vars
    BY <1>8 DEF files_vars, Leased, Creates, At
  <1>9. QED
    BY <1>1, <1>2, <1>3, <1>4, <1>5, <1>6, <1>7, <1>8 DEF Next

GivenNext(t, n) == n < todos'[t].next /\ n \in todos'[t].ids \cup dropped'[t]

\* Saving takes nothing away from what was given.
LEMMA GivenOnce ==
  ASSUME FilesTypeOK, OneSaves, NEW c \in Calls, Save(c), NEW t \in Turns, NEW n, Given(t, n)
  PROVE  GivenNext(t, n)
  <1>1. CASE t # calls[c].turn
    BY <1>1 DEF Save, Given, GivenNext, FilesTypeOK
  <1>2. CASE t = calls[c].turn
    <2>1. /\ todos'[t] = Written(calls[c]) /\ calls[c].file = todos[t]
          /\ dropped'[t] = dropped[t] \cup (todos[t].ids \ Written(calls[c]).ids)
      BY <1>2 DEF Save, OneSaves, FilesTypeOK, At
    <2>2. todos[t].next \in Nat /\ todos[t].ids \subseteq Nat
      BY DEF FilesTypeOK, FileState
    <2>3. Written(calls[c]).next >= todos[t].next
      BY <2>1, <2>2 DEF Written
    <2>4. n \in Nat
      BY <2>2 DEF Given, FilesTypeOK
    <2>5. Written(calls[c]).next \in Nat
      BY <2>1, <2>2 DEF Written
    <2>6. QED
      BY <2>1, <2>2, <2>3, <2>4, <2>5 DEF Given, GivenNext
  <1>3. QED
    BY <1>1, <1>2

TodosInv == CleanAlone /\ OneSaves /\ Unborn /\ Leased /\ Granted

LEMMA GrantedStep ==
  ASSUME FilesTypeOK, FilesTypeOK', TodosInv, [Next]_files_vars
  PROVE  Granted'
  <1> USE DEF todo_vars, memory_vars, TodosInv
  <1>1. ASSUME NEW t \in Turns, Begin(t) \/ End(t) \/ DropScope(t)
        PROVE  Granted'
    <2>1. UNCHANGED <<calls, todos, made, dropped>>
      BY <1>1 DEF Begin, End, DropScope
    <2>2. \A u \in Turns : turns'[u] = "live" => turns[u] = "live" \/ turns[u] = "unborn"
      BY <1>1 DEF Begin, End, DropScope, FilesTypeOK
    <2>3. \A c \in Calls : Creates(c, {"answering"}) => calls[c].turn \in Turns
      BY DEF FilesTypeOK, Creates, At
    <2>4. QED
      BY <2>1, <2>2, <2>3 DEF Granted, Given, Creates, At, Live, Unborn
  <1>2. ASSUME NEW t \in Turns, DeleteTodos(t)
        PROVE  Granted'
    <2>1. UNCHANGED <<calls, turns, made>> /\ lease = {}
      BY <1>2 DEF DeleteTodos, CleanAlone
    <2>2. \A u \in Turns : turns[u] = "live" => made[u] = <<>>
      BY <2>1 DEF Leased
    <2>3. \A c \in Calls : ~Creates(c, {"answering"})
      BY <2>1 DEF Leased, Creates, At, Past
    <2>4. QED
      BY <2>1, <2>2, <2>3 DEF Granted, Creates, At
  <1>3. ASSUME NEW c \in Calls, calls'[c].at # "answering",
               \A d \in Calls \ {c} : calls'[d] = calls[d],
               UNCHANGED <<turns, todos, made, dropped>>
        PROVE  Granted'
    BY <1>3 DEF Granted, Given, Creates, At, Live
  <1>4. ASSUME NEW c \in Calls, Save(c)
        PROVE  Granted'
    <2> DEFINE t == calls[c].turn
               n == calls[c].file.next
    <2>1. /\ UNCHANGED <<turns, made>> /\ t \in Turns
          /\ calls'[c].at = "answering" /\ calls'[c].turn = t /\ calls'[c].op = calls[c].op
          /\ calls'[c].file = calls[c].file /\ \A d \in Calls \ {c} : calls'[d] = calls[d]
      <3>1. UNCHANGED <<turns, made>> /\ t \in Turns /\ Goes(c, "answering")
        BY <1>4 DEF Save, FilesTypeOK, At
      <3>2. QED
        BY <3>1, Went
    <2>2. n = todos[t].next /\ n \in Nat
      BY <1>4, <2>1 DEF Save, OneSaves, At, FilesTypeOK, FileState
    <2>3. calls[c].op = "create" => GivenNext(t, n)
      <3>1. todos'[t] = Written(calls[c]) /\ calls[c].file = todos[t]
        BY <1>4, <2>1 DEF Save, OneSaves, At, FilesTypeOK
      <3>2. QED
        BY <2>2, <3>1 DEF Written, GivenNext
    <2>4. \A u \in Turns : turns[u] = "live" =>
            \A i \in DOMAIN made[u] : Given(u, made[u][i]) /\ GivenNext(u, made'[u][i])
      BY <1>4, <2>1, GivenOnce DEF Granted
    <2>5. \A d \in Calls \ {c} : Creates(d, {"answering"}) /\ Live(d) =>
            Given(calls[d].turn, calls[d].file.next) /\ GivenNext(calls[d].turn, calls[d].file.next)
      BY <1>4, GivenOnce DEF Granted, FilesTypeOK, Creates, At
    <2>6. turns[t] = "live" => \A i \in DOMAIN made[t] : made[t][i] # n
      BY <2>1, <2>2, <2>4 DEF Given
    <2>7. \A d \in Calls \ {c} : Creates(d, {"answering"}) /\ Live(d) /\ calls[d].turn = t
            => calls[d].file.next # n
      BY <2>2, <2>5 DEF Given
    <2>8. \A u \in Turns : turns'[u] = "live" =>
            \A i \in DOMAIN made'[u] :
              /\ GivenNext(u, made'[u][i])
              /\ \A j \in DOMAIN made'[u] : made'[u][i] = made'[u][j] => i = j
      BY <2>1, <2>4 DEF Granted
    <2>9. ASSUME NEW d \in Calls, Creates(d, {"answering"})', Live(d)'
          PROVE  LET u == calls'[d].turn
                     m == calls'[d].file.next
                 IN  /\ GivenNext(u, m) /\ \A i \in DOMAIN made'[u] : made'[u][i] # m
                     /\ \A e \in Calls : Creates(e, {"answering"})' /\ calls'[e].turn = u
                                           /\ calls'[e].file.next = m => e = d
      <3>1. CASE d = c
        BY <2>1, <2>3, <2>6, <2>7, <2>9, <3>1 DEF Creates, At, Live
      <3>2. CASE d # c
        <4>1. Creates(d, {"answering"}) /\ Live(d) /\ calls'[d] = calls[d]
          BY <2>1, <2>9, <3>2 DEF Creates, At, Live
        <4>2. QED
          BY <2>1, <2>5, <2>7, <3>2, <4>1 DEF Granted, Creates, At, Live
      <3>3. QED
        BY <3>1, <3>2
    <2>10. QED
      BY <2>8, <2>9 DEF Granted, Given, GivenNext, Creates, At, Live
  <1>5. ASSUME NEW c \in Calls, Answer(c)
        PROVE  Granted'
    <2>1. /\ UNCHANGED <<turns, todos, dropped>> /\ calls'[c] = Idle
          /\ \A d \in Calls \ {c} : calls'[d] = calls[d]
      BY <1>5, Ended DEF Answer
    <2>2. CASE made' = made
      BY <2>1, <2>2, <1>3 DEF Idle
    <2>3. CASE made' # made
      <3> DEFINE t == calls[c].turn
                 n == calls[c].file.next
      <3>1. Creates(c, {"answering"}) /\ Live(c) /\ t \in Turns /\ n \in Nat
        BY <1>5, <2>3 DEF Answer, Creates, At, FilesTypeOK, CallState, FileState
      <3>2. made' = [made EXCEPT ![t] = Append(@, n)]
        BY <1>5, <2>3 DEF Answer
      <3>3. made[t] \in Seq(Nat) /\ made'[t] = Append(made[t], n)
        BY <3>1, <3>2 DEF FilesTypeOK
      <3>4. \A u \in Turns \ {t} : made'[u] = made[u]
        BY <3>2 DEF FilesTypeOK
      <3>5. Given(t, n) /\ \A i \in DOMAIN made[t] : made[t][i] # n
        BY <3>1 DEF Granted
      <3>6. \A i \in DOMAIN made'[t] :
              IF i \in DOMAIN made[t] THEN made'[t][i] = made[t][i]
              ELSE i = Len(made[t]) + 1 /\ made'[t][i] = n
        BY <3>1, <3>3
      <3>7. \A m, u : Given(u, m) => GivenNext(u, m)
        BY <2>1 DEF Given, GivenNext
      <3>8. \A i, j \in DOMAIN made'[t] : made'[t][i] = made'[t][j] => i = j
        BY <3>1, <3>5, <3>6 DEF Granted, Live
      <3>9. \A i \in DOMAIN made'[t] : Given(t, made'[t][i])
        BY <3>1, <3>5, <3>6 DEF Granted, Live
      <3>10. ASSUME NEW d \in Calls, Creates(d, {"answering"})', Live(d)'
             PROVE  LET u == calls'[d].turn
                        m == calls'[d].file.next
                    IN  /\ GivenNext(u, m) /\ \A i \in DOMAIN made'[u] : made'[u][i] # m
                        /\ \A e \in Calls : Creates(e, {"answering"})' /\ calls'[e].turn = u
                                              /\ calls'[e].file.next = m => e = d
        <4>1. d # c /\ calls'[d] = calls[d] /\ Creates(d, {"answering"}) /\ Live(d)
          BY <2>1, <3>10 DEF Creates, At, Live, Idle
        <4>2. calls[d].turn \in Turns
          BY <4>1 DEF FilesTypeOK, Creates, At
        <4>3. calls[d].turn = t => calls[d].file.next # n
          BY <3>1, <4>1 DEF Granted
        <4>4. \A i \in DOMAIN made'[calls[d].turn] :
                made'[calls[d].turn][i] # calls[d].file.next
          <5>1. \A i \in DOMAIN made[calls[d].turn] : made[calls[d].turn][i] # calls[d].file.next
            BY <4>1 DEF Granted
          <5>2. QED
            BY <3>4, <3>6, <4>2, <4>3, <5>1
        <4>5. \A e \in Calls : Creates(e, {"answering"})' => e # c /\ Creates(e, {"answering"})
          BY <2>1 DEF Creates, At, Idle
        <4>6. QED
          BY <2>1, <3>7, <4>1, <4>4, <4>5 DEF Granted
      <3>11. ASSUME NEW u \in Turns, turns'[u] = "live"
             PROVE  \A i \in DOMAIN made'[u] :
                      /\ GivenNext(u, made'[u][i])
                      /\ \A j \in DOMAIN made'[u] : made'[u][i] = made'[u][j] => i = j
        BY <2>1, <3>4, <3>7, <3>8, <3>9, <3>11 DEF Granted, Given
      <3>12. QED
        BY <3>10, <3>11 DEF Granted, Given, GivenNext, Creates, At, Live
    <2>4. QED
      BY <2>2, <2>3
  <1>6. CASE Clean \/ CleanFails \/ Cleaned
    BY <1>6 DEF Clean, CleanFails, Cleaned, Granted, Given, Creates, At, Live
  <1>7. CASE Crash
    BY <1>7 DEF Crash, FilesTypeOK, Granted, Creates, At, Live, Idle
  <1>8. CASE UNCHANGED files_vars
    BY <1>8 DEF files_vars, Granted, Given, Creates, At, Live
  <1>9. ASSUME NEW c \in Calls, NEW t \in Turns, AskTodo(c, t) \/ AskMemory(c, t)
        PROVE  Granted'
    BY <1>3, <1>9, Asked
  <1>10. ASSUME NEW c \in Calls, TodoCall(c)
         PROVE  Granted'
    <2>1. CASE AcquireLease(c) \/ Share(c)
      <3>1. calls'[c].at \in {"sharing", "locking"} /\ \A d \in Calls \ {c} : calls'[d] = calls[d]
        BY <2>1, Went DEF AcquireLease, Share
      <3>2. UNCHANGED <<turns, todos, made, dropped>>
        BY <2>1 DEF AcquireLease, Share
      <3>3. QED
        BY <1>3, <3>1, <3>2
    <2>2. CASE Load(c)
      BY <1>3, <2>2, Loaded DEF Idle
    <2>3. CASE SaveFails(c)
      BY <1>3, <2>3, Ended DEF SaveFails, Idle
    <2>4. QED
      BY <1>4, <1>5, <1>10, <2>1, <2>2, <2>3 DEF TodoCall
  <1>11. ASSUME NEW c \in Calls, MemoryCall(c)
         PROVE  Granted'
    BY <1>3, <1>11, MemoryMoves
  <1>12. QED
    BY <1>1, <1>2, <1>6, <1>7, <1>8, <1>9, <1>10, <1>11 DEF Next

\* What a turn was told it has created is in its file as long as it lasts.
THEOREM TodosStay == FilesSpec => []TodosAreKept
  <1>1. Init => TodosInv /\ CleaningInv
    BY FilesAssumption
    DEF Init, TodosInv, CleaningInv, CleanAlone, CleanedOver, OneSaves, Unborn, Leased, Granted,
        Creates, At, Idle, Past
  <1>2. FilesTypeOK /\ FilesTypeOK' /\ TodosInv /\ CleaningInv /\ [Next]_files_vars
          => TodosInv' /\ CleaningInv'
    BY CleaningStep, OneSavesStep, UnbornStep, LeasedStep, GrantedStep DEF TodosInv, CleaningInv
  <1>3. TodosInv => TodosAreKept
    BY DEF TodosInv, Granted, Given, TodosAreKept
  <1>4. QED
    BY FilesTypes, <1>1, <1>2, <1>3, PTL DEF FilesSpec

-----------------------------------------------------------------------------
(* Memories *)

LEMMA TodoMoves ==
  ASSUME FilesTypeOK, NEW c \in Calls, TodoCall(c)
  PROVE  /\ At(c, {"leasing", "sharing", "locking", "saving", "answering"})
         /\ calls'[c].at \in {"sharing", "locking", "saving", "answering", "idle"}
         /\ \A d \in Calls \ {c} : calls'[d] = calls[d]
         /\ UNCHANGED memory_vars
  <1>1. CASE AcquireLease(c) \/ Share(c) \/ Save(c)
    BY <1>1, Went DEF AcquireLease, Share, Save, At, memory_vars
  <1>2. CASE Load(c)
    BY <1>2, Loaded DEF At, Idle
  <1>3. CASE SaveFails(c) \/ Answer(c)
    BY <1>3, Ended DEF SaveFails, Answer, At, Idle, memory_vars
  <1>4. QED
    BY <1>1, <1>2, <1>3 DEF TodoCall

LEMMA OneWritesStep ==
  ASSUME FilesTypeOK, FilesTypeOK', OneWrites, [Next]_files_vars
  PROVE  OneWrites'
  <1> DEFINE writing == {"queued", "open", "written"}
  <1>1. ASSUME UNCHANGED calls
        PROVE  OneWrites'
    BY <1>1 DEF OneWrites, At
  <1>2. ASSUME NEW c \in Calls, \A d \in Calls \ {c} : calls'[d] = calls[d],
               calls'[c].at \in writing => At(c, writing) \/ \A d \in Calls : ~At(d, writing)
        PROVE  OneWrites'
    BY <1>2 DEF OneWrites, At
  <1>3. ASSUME NEW t \in Turns, Begin(t) \/ End(t) \/ DropScope(t) \/ DeleteTodos(t)
        PROVE  OneWrites'
    BY <1>1, <1>3 DEF Begin, End, DropScope, DeleteTodos
  <1>4. ASSUME NEW c \in Calls, NEW t \in Turns, AskTodo(c, t) \/ AskMemory(c, t)
        PROVE  OneWrites'
    BY <1>2, <1>4, Asked
  <1>5. ASSUME NEW c \in Calls, TodoCall(c)
        PROVE  OneWrites'
    BY <1>2, <1>5, TodoMoves
  <1>6. ASSUME NEW c \in Calls, MemoryCall(c)
        PROVE  OneWrites'
    <2>1. CASE Edit(c)
      BY <1>2, <1>6, <2>1, MemoryMoves DEF Edit, MemoryIsFree
    <2>2. CASE Truncate(c)
      <3>1. CASE At(c, {"queued"}) /\ Goes(c, "open")
        BY <1>2, <3>1, Went DEF At
      <3>2. CASE Goes(c, "sinking")
        <4>1. calls'[c].at = "sinking" /\ \A d \in Calls \ {c} : calls'[d] = calls[d]
          BY <3>2, Went
        <4>2. QED
          BY <1>2, <4>1
      <3>3. QED
        BY <2>2, <3>1, <3>2 DEF Truncate
    <2>3. CASE Fill(c)
      <3>1. CASE At(c, {"open"}) /\ Goes(c, "written")
        BY <1>2, <3>1, Went DEF At
      <3>2. CASE Ends(c)
        BY <1>2, <3>2, Ended DEF Idle
      <3>3. QED
        BY <2>3, <3>1, <3>2 DEF Fill
    <2>4. CASE WriteFails(c) \/ Acknowledge(c)
      BY <1>2, <2>4, Ended DEF WriteFails, Acknowledge, At, Idle
    <2>5. CASE Drop(c)
      <3>1. CASE Ends(c)
        BY <1>2, <3>1, Ended DEF Idle
      <3>2. CASE Goes(c, "adrift") \/ Goes(c, "sinking")
        <4>1. /\ calls'[c].at \in {"adrift", "sinking"}
              /\ \A d \in Calls \ {c} : calls'[d] = calls[d]
          BY <3>2, Went
        <4>2. QED
          BY <1>2, <4>1
      <3>3. QED
        BY <2>5, <3>1, <3>2 DEF Drop
    <2>6. QED
      BY <1>6, <2>1, <2>2, <2>3, <2>4, <2>5 DEF MemoryCall
  <1>7. CASE Clean \/ CleanFails \/ Cleaned
    BY <1>1, <1>7 DEF Clean, CleanFails, Cleaned
  <1>8. CASE Crash
    BY <1>8 DEF Crash, OneWrites, At, Idle
  <1>9. CASE UNCHANGED files_vars
    BY <1>1, <1>9 DEF files_vars
  <1>10. QED
    BY <1>3, <1>4, <1>5, <1>6, <1>7, <1>8, <1>9 DEF Next

MemoryStages == {"queued", "open", "written", "adrift", "sinking"}

\* A call that is not writing the memories, nor starts to, leaves them whole.
LEMMA OthersKeepWhole ==
  ASSUME Whole, NEW c \in Calls, ~At(c, MemoryStages), calls'[c].at \notin MemoryStages,
         \A d \in Calls \ {c} : calls'[d] = calls[d], UNCHANGED memory_vars
  PROVE  Whole'
  BY DEF Whole, Kept, Texts, At, MemoryStages, memory_vars

\* What an edit writes and what it takes away are together what was there.
LEMMA EditedWhole ==
  ASSUME NEW c \in Calls, NEW items \in Edited(calls[c])
  PROVE  /\ Texts(memory.items) \subseteq Texts(items) \cup Texts(memory.items \ items)
         /\ calls[c].op \in {"create", "update"} => calls[c].text \in Texts(items)
  <1>1. Texts(memory.items) \subseteq Texts(items) \cup Texts(memory.items \ items)
    BY DEF Texts
  <1>2. CASE calls[c].op = "create"
    <2>1. PICK n \in NewId : items = memory.items \cup {<<n, calls[c].text>>}
      BY <1>2 DEF Edited
    <2>2. <<n, calls[c].text>> \in items /\ <<n, calls[c].text>>[2] = calls[c].text
      BY <2>1
    <2>3. QED
      BY <1>1, <2>2 DEF Texts
  <1>3. CASE calls[c].op = "update"
    <2>1. items = (memory.items \ Same(calls[c].id)) \cup {<<calls[c].id, calls[c].text>>}
      BY <1>3 DEF Edited
    <2>2. /\ <<calls[c].id, calls[c].text>> \in items
          /\ <<calls[c].id, calls[c].text>>[2] = calls[c].text
      BY <2>1
    <2>3. QED
      BY <1>1, <2>2 DEF Texts
  <1>4. QED
    BY <1>1, <1>2, <1>3

LEMMA WholeStep ==
  ASSUME FilesTypeOK, FilesTypeOK', OneWrites, Whole, [Next]_files_vars
  PROVE  Whole'
  <1> SUFFICES ASSUME ~cut' PROVE Whole'
    BY DEF Whole
  <1>1. ASSUME UNCHANGED <<calls, memory_vars>>
        PROVE  Whole'
    BY <1>1 DEF Whole, Kept, Texts, At, memory_vars
  <1>2. ASSUME NEW t \in Turns, Begin(t) \/ End(t) \/ DropScope(t) \/ DeleteTodos(t)
        PROVE  Whole'
    BY <1>1, <1>2 DEF Begin, End, DropScope, DeleteTodos
  <1>3. ASSUME NEW c \in Calls, NEW t \in Turns, AskTodo(c, t) \/ AskMemory(c, t)
        PROVE  Whole'
    BY <1>3, Asked, OthersKeepWhole DEF At, MemoryStages
  <1>4. ASSUME NEW c \in Calls, TodoCall(c)
        PROVE  Whole'
    BY <1>4, TodoMoves, OthersKeepWhole DEF At, MemoryStages
  <1>5. ASSUME NEW c \in Calls, Edit(c)
        PROVE  Whole'
    <2>1. /\ At(c, {"waiting"}) /\ UNCHANGED memory_vars
          /\ \A d \in Calls : ~At(d, {"queued", "open", "written"})
      BY <1>5 DEF Edit, Edits, MemoryIsFree, memory_vars
    <2>2. CASE Ends(c)
      BY <2>1, <2>2, Ended, OthersKeepWhole DEF At, Idle, MemoryStages
    <2>3. CASE ~Ends(c)
      <3>1. PICK items \in Edited(calls[c]) :
              calls' = [calls EXCEPT ![c].at = "queued",
                                     ![c].content = [torn |-> FALSE, items |-> items],
                                     ![c].gone = Texts(memory.items \ items)]
        BY <1>5, <2>3 DEF Edit, Edits
      <3>2. /\ calls'[c].at = "queued" /\ calls'[c].content = [torn |-> FALSE, items |-> items]
            /\ calls'[c].gone = Texts(memory.items \ items) /\ calls'[c].text = calls[c].text
            /\ calls'[c].op = calls[c].op /\ \A d \in Calls \ {c} : calls'[d] = calls[d]
        BY <3>1 DEF FilesTypeOK, CallState
      <3>3. ~memory.torn /\ Kept(Texts(memory.items)) /\ \A d \in Calls : ~At(d, {"adrift", "sinking"})
        BY <2>1 DEF Whole, At, memory_vars
      <3>4. Kept(Texts(items) \cup Texts(memory.items \ items))
        BY <3>3, EditedWhole DEF Kept
      <3>5. calls[c].op \in {"create", "update"} => calls[c].text \in Texts(items)
        BY EditedWhole
      <3>6. /\ memory' = memory /\ told' = told /\ replaced' = replaced
            /\ \A d \in Calls \ {c} : ~At(d, MemoryStages)'
        BY <2>1, <3>2, <3>3 DEF memory_vars, At, MemoryStages
      <3>7. QED
        BY <3>2, <3>3, <3>4, <3>5, <3>6 DEF Whole, Kept, Texts, At, MemoryStages
    <2>4. QED
      BY <2>2, <2>3
  <1>6. ASSUME NEW c \in Calls, Truncate(c)
        PROVE  Whole'
    <2>1. At(c, {"queued"}) /\ Goes(c, "open") /\ memory' = Empty /\ UNCHANGED <<told, replaced, cut>>
      BY <1>6 DEF Truncate, Whole, At
    <2>2. /\ calls'[c] = [calls[c] EXCEPT !.at = "open"] /\ calls'[c].at = "open"
          /\ calls'[c].op = calls[c].op /\ calls'[c].text = calls[c].text
          /\ calls'[c].content = calls[c].content /\ calls'[c].gone = calls[c].gone
          /\ \A d \in Calls \ {c} : calls'[d] = calls[d]
      BY <2>1, Went
    <2>3. \A d \in Calls \ {c} : ~At(d, MemoryStages)'
      BY <2>1, <2>2 DEF OneWrites, Whole, At, MemoryStages
    <2>4. QED
      BY <2>1, <2>2, <2>3 DEF Whole, Kept, Texts, At, MemoryStages
  <1>7. ASSUME NEW c \in Calls, Fill(c)
        PROVE  Whole'
    <2>1. /\ At(c, {"open"}) /\ Goes(c, "written") /\ memory' = calls[c].content
          /\ replaced' = replaced \cup calls[c].gone /\ UNCHANGED <<told, cut>>
      BY <1>7 DEF Fill, Whole, At
    <2>2. /\ calls'[c].at = "written" /\ calls'[c].op = calls[c].op
          /\ calls'[c].text = calls[c].text /\ calls'[c].content = calls[c].content
          /\ \A d \in Calls \ {c} : calls'[d] = calls[d]
      BY <2>1, Went
    <2>3. \A d \in Calls \ {c} : ~At(d, MemoryStages)'
      BY <2>1, <2>2 DEF OneWrites, Whole, At, MemoryStages
    <2>4. ~memory'.torn /\ told' \ replaced' \subseteq Texts(memory'.items)
      BY <2>1 DEF Whole, Kept, At
    <2>5. QED
      BY <2>1, <2>2, <2>3, <2>4 DEF Whole, Kept, Texts, At, MemoryStages
  <1>8. ASSUME NEW c \in Calls, WriteFails(c)
        PROVE  Whole'
    <2>1. At(c, {"queued"}) /\ Ends(c) /\ UNCHANGED memory_vars
      BY <1>8 DEF WriteFails, Whole, At, memory_vars
    <2>2. calls'[c].at = "idle" /\ \A d \in Calls \ {c} : calls'[d] = calls[d]
      BY <2>1, Ended DEF Idle
    <2>3. QED
      BY <2>1, <2>2 DEF Whole, Kept, Texts, At, memory_vars
  <1>9. ASSUME NEW c \in Calls, Acknowledge(c)
        PROVE  Whole'
    <2>1. /\ At(c, {"written"}) /\ Ends(c) /\ UNCHANGED <<memory, replaced, cut>>
          /\ told' \subseteq told \cup {calls[c].text}
          /\ calls[c].op \notin {"create", "update"} => told' = told
      BY <1>9 DEF Acknowledge
    <2>2. calls'[c].at = "idle" /\ \A d \in Calls \ {c} : calls'[d] = calls[d]
      BY <2>1, Ended DEF Idle
    <2>3. \A d \in Calls \ {c} : ~At(d, MemoryStages)
      BY <2>1 DEF OneWrites, Whole, At, MemoryStages
    <2>4. ~memory.torn /\ told' \ replaced \subseteq Texts(memory.items)
      <3>1. ~memory.torn /\ Kept(Texts(memory.items)) /\ memory = calls[c].content
        BY <2>1, <2>3 DEF Whole, At, MemoryStages
      <3>2. calls[c].op \in {"create", "update"} => calls[c].text \in Texts(memory.items)
        BY <2>1, <3>1 DEF Whole, At
      <3>3. QED
        BY <2>1, <3>1, <3>2 DEF Kept
    <2>5. QED
      BY <2>1, <2>2, <2>3, <2>4 DEF Whole, Kept, Texts, At, MemoryStages
  <1>10. ASSUME NEW c \in Calls, Drop(c)
         PROVE  Whole'
    <2>1. At(c, {"waiting", "written"}) /\ Ends(c) /\ UNCHANGED memory_vars
      BY <1>10 DEF Drop, memory_vars
    <2>2. calls'[c].at = "idle" /\ \A d \in Calls \ {c} : calls'[d] = calls[d]
      BY <2>1, Ended DEF Idle
    <2>3. QED
      BY <2>1, <2>2 DEF Whole, Kept, Texts, At, memory_vars
  <1>11. CASE Clean \/ CleanFails \/ Cleaned
    BY <1>1, <1>11 DEF Clean, CleanFails, Cleaned
  <1>12. CASE Crash
    <2>1. \A c \in Calls : ~At(c, {"open", "sinking"})
      BY <1>12 DEF Crash
    <2>2. \A c \in Calls : calls'[c].at = "idle"
      BY <1>12 DEF Crash, Idle
    <2>3. UNCHANGED <<memory, told, replaced>> /\ ~cut
      BY <1>12, <2>1 DEF Crash
    <2>4. QED
      BY <2>1, <2>2, <2>3 DEF Whole, Kept, Texts, At
  <1>13. CASE UNCHANGED files_vars
    BY <1>1, <1>13 DEF files_vars
  <1>14. QED
    BY <1>2, <1>3, <1>4, <1>5, <1>6, <1>7, <1>8, <1>9, <1>10, <1>11, <1>12, <1>13
    DEF Next, MemoryCall

\* Until a write is cut off, nobody loses a memory they were told of but by a
\* call that replaces it.
THEOREM MemoriesStay == FilesSpec => []MemoriesAreKept
  <1>1. Init => OneWrites /\ Whole
    BY DEF Init, OneWrites, Whole, Kept, At, Idle, Empty
  <1>2. FilesTypeOK /\ FilesTypeOK' /\ OneWrites /\ Whole /\ [Next]_files_vars
          => OneWrites' /\ Whole'
    BY OneWritesStep, WholeStep
  <1>3. Whole => MemoriesAreKept
    BY DEF Whole, Kept, MemoriesAreKept
  <1>4. QED
    BY FilesTypes, <1>1, <1>2, <1>3, PTL DEF FilesSpec
=============================================================================
