--------------------------- MODULE FileStoreProofs ---------------------------
(***************************************************************************)
(* What FileStore promises about a checkpoint file, for any set of writers *)
(* and any bounds.  The inductive invariant has five parts: records are    *)
(* synced before they are linked (Durable), a writer that locks writes     *)
(* alone (Alone), the comparison of Save still holds when the rename comes *)
(* (Armed), no survivor is older than an acknowledged write (Kept), and    *)
(* one Create at most is between its link and its answer (OneCreator).     *)
(***************************************************************************)
EXTENDS FileStore, TLAPS

\* A record that has a name, or is about to get one, was synced.
Durable ==
  /\ \A file \in survivors : file # NoFile => file.synced
  /\ \A w \in Writers : At(w, "publish") \/ At(w, "sync") => calls[w].file.synced

\* With locking, only the holder of the flock has a write in progress.
Alone == locked => \A w \in Writers : ~IsIdle(w) => lock = w

\* With locking, what Save loaded is still the current record until its rename,
\* and what was published is current until the directory is synced.
Armed ==
  locked => \A w \in Writers :
    /\ calls[w].op = "save" /\ calls[w].phase \in {"temp", "publish"}
       => target # NoFile /\ Supersedes(calls[w].file)
    /\ At(w, "sync") => target = calls[w].file

Kept == locked => \A file \in survivors : RevisionOf(file) >= acked

Linked(w) == calls[w].op = "create" /\ calls[w].phase = "sync"

\* The link of Create succeeds once until it is lost or acknowledged.
OneCreator ==
  /\ created \in {0, 1}
  /\ created = 1 => NoFile \notin survivors
  /\ \A w \in Writers : At(w, "sync") => target # NoFile
  /\ \A w \in Writers : Linked(w) => created = 0
  /\ \A w, v \in Writers : Linked(w) /\ Linked(v) => w = v

IInv == TypeOK /\ Durable /\ Alone /\ Armed /\ Kept /\ OneCreator

-----------------------------------------------------------------------------
(* Operators and types.                                                    *)

Call == [op : {"create", "save"}, phase : {"load", "temp", "publish", "sync"},
         file : File]

\* A write in progress is a Call, an idle writer has none.
LEMMA CallType ==
  ASSUME TypeOK, NEW w \in Writers
  PROVE  /\ IsIdle(w) => calls[w] = Idle
         /\ ~IsIdle(w) => calls[w] \in Call
  BY DEF TypeOK, IsIdle, Idle, Call

\* The revision of a file is not below that of a missing one.
LEMMA RevisionOfType ==
  ASSUME NEW file \in File \cup {NoFile}
  PROVE  RevisionOf(file) \in Int /\ RevisionOf(file) >= -1
  BY NoFileAssumption, FileStoreAssumption DEF RevisionOf, File

\* Init satisfies the invariant.
LEMMA InitIInv == Init => IInv
<1> SUFFICES ASSUME Init PROVE IInv
  OBVIOUS
<1> USE FileStoreAssumption DEF Init
<1>1. TypeOK
  BY DEF TypeOK
<1>2. \A w \in Writers : IsIdle(w) /\ calls[w] = Idle
  BY DEF IsIdle, Idle
<1>3. Durable /\ Alone
  BY <1>2 DEF Durable, Alone, At
<1>4. Armed
  BY <1>2 DEF Armed, At, Idle
<1>5. Kept
  BY DEF Kept, RevisionOf
<1>6. OneCreator
  BY <1>2 DEF OneCreator, At, Linked, Idle
<1> QED
  BY <1>1, <1>3, <1>4, <1>5, <1>6 DEF IInv

-----------------------------------------------------------------------------
(* Steps that leave the files alone.                                       *)

\* The files and the counters about them are as they were.
FilesKept == UNCHANGED <<target, survivors, acked, created, locked, boots>>

\* Each writer's call is as it was, over, or was just begun and has reached
\* neither the comparison nor the link.
CallsRetreat ==
  \A w \in Writers :
    \/ calls'[w] = calls[w]
    \/ calls'[w] = Idle
    \/ calls'[w].op = "save" /\ calls'[w].phase = "load"
    \/ calls'[w].op = "create" /\ calls'[w].phase = "temp"

\* Such a step keeps what is known about files and calls.
LEMMA RetreatKeeps ==
  ASSUME IInv, FilesKept, CallsRetreat
  PROVE  Durable' /\ Armed' /\ Kept' /\ OneCreator'
<1> USE DEF FilesKept
<1>1. \A w \in Writers : calls'[w] = calls[w] \/ calls'[w].phase \notin {"publish", "sync"}
  BY DEF CallsRetreat, Idle
<1>2. Durable'
  BY <1>1 DEF IInv, Durable, At, IsIdle
<1>3. Armed'
  BY <1>1 DEF IInv, Armed, At, IsIdle, CallsRetreat, Idle, Supersedes
<1>4. Kept'
  BY DEF IInv, Kept
<1>5. OneCreator'
  BY <1>1 DEF IInv, OneCreator, At, IsIdle, Linked
<1> QED
  BY <1>2, <1>3, <1>4, <1>5

\* LockExecution and Unlock touch neither the calls nor the files.
LEMMA LockingKeeps ==
  ASSUME IInv, NEW w \in Writers, LockExecution(w) \/ Unlock(w)
  PROVE  IInv'
<1>1. FilesKept /\ UNCHANGED calls
  BY DEF LockExecution, Unlock, FilesKept, history
<1>2. TypeOK'
  BY <1>1 DEF IInv, TypeOK, LockExecution, Unlock, FilesKept, Idle
<1>3. Alone'
  BY <1>1, FileStoreAssumption
  DEF IInv, Alone, LockExecution, Unlock, FilesKept, IsIdle, TypeOK
<1> QED
  BY <1>1, <1>2, <1>3, RetreatKeeps DEF CallsRetreat, IInv

\* Load changes nothing.
LEMMA LoadKeeps ==
  ASSUME IInv, NEW w \in Writers, Load(w)
  PROVE  IInv'
<1>1. FilesKept /\ UNCHANGED <<calls, lock>>
  BY DEF Load, FilesKept, history
<1>2. TypeOK'
  BY <1>1 DEF IInv, TypeOK, Load, FilesKept, Idle
<1>3. Alone'
  BY <1>1 DEF IInv, Alone, FilesKept, IsIdle
<1> QED
  BY <1>1, <1>2, <1>3, RetreatKeeps DEF CallsRetreat, IInv

\* A call begins where it has compared nothing yet; the locked caller holds
\* the flock.
LEMMA BeginKeeps ==
  ASSUME IInv, NEW w \in Writers, NEW op \in {"create", "save"},
         NEW revision \in Revisions, Begin(w, op, revision)
  PROVE  IInv'
<1>1. FilesKept /\ UNCHANGED lock
  BY DEF Begin, FilesKept, history
<1>2. CASE revision = Invalid
  <2>1. UNCHANGED calls
    BY <1>2 DEF Begin
  <2>2. TypeOK'
    BY <1>1, <1>2, <2>1 DEF IInv, TypeOK, Begin, FilesKept, Idle
  <2>3. Alone'
    BY <1>1, <2>1 DEF IInv, Alone, FilesKept, IsIdle
  <2> QED
    BY <1>1, <2>1, <2>2, <2>3, RetreatKeeps DEF CallsRetreat, IInv
<1>3. CASE revision # Invalid
  <2> DEFINE file == [revision |-> revision, author |-> w, synced |-> FALSE]
  <2> DEFINE call == [op |-> op,
                      phase |-> IF op = "create" THEN "temp" ELSE "load",
                      file |-> file]
  <2>1. calls' = [calls EXCEPT ![w] = call] /\ answer' = "none"
    BY <1>3 DEF Begin
  <2>2. file \in File
    BY <1>3 DEF File, Revisions
  <2>3. call \in Call
    BY <2>2 DEF Call
  <2>4. calls \in [Writers -> {Idle} \cup Call]
    BY DEF IInv, TypeOK, Call
  <2>5. calls' \in [Writers -> {Idle} \cup Call]
    <3> HIDE DEF call
    <3> QED
      BY <2>1, <2>3, <2>4
  <2>6. TypeOK'
    BY <1>1, <2>1, <2>5 DEF IInv, TypeOK, FilesKept, Call
  <2>7. Alone'
    BY <1>1, <2>1, <2>4 DEF IInv, Alone, FilesKept, IsIdle, Begin, MayWrite
  <2>8. CallsRetreat
    BY <2>1, <2>4 DEF CallsRetreat
  <2> QED
    BY <1>1, <2>6, <2>7, <2>8, RetreatKeeps DEF IInv
<1> QED
  BY <1>2, <1>3

\* A call that ends without a publication, at any of its points.
LEMMA FinishKeeps ==
  ASSUME IInv, NEW w \in Writers, NEW err, ~IsIdle(w),
         err \in {"notfound", "conflict", "store", "exists"},
         Finish(w, err), FilesKept, UNCHANGED lock
  PROVE  IInv'
<1>1. calls \in [Writers -> {Idle} \cup Call]
  BY DEF IInv, TypeOK, Call
<1>2. calls' = [calls EXCEPT ![w] = Idle]
  BY DEF Finish
<1>3. calls' \in [Writers -> {Idle} \cup Call]
  BY <1>1, <1>2
<1>4. TypeOK'
  BY <1>3 DEF IInv, TypeOK, FilesKept, Finish, Call
<1>5. Alone'
  BY <1>1, <1>2 DEF IInv, Alone, FilesKept, IsIdle, Idle
<1>6. CallsRetreat
  BY <1>1, <1>2 DEF CallsRetreat
<1> QED
  BY <1>4, <1>5, <1>6, RetreatKeeps DEF IInv

\* A process that dies leaves nothing but its files.
LEMMA CrashKeeps ==
  ASSUME IInv, NEW w \in Writers, Crash(w)
  PROVE  IInv'
<1>1. calls \in [Writers -> {Idle} \cup Call]
  BY DEF IInv, TypeOK, Call
<1>2. calls' = [calls EXCEPT ![w] = Idle] /\ FilesKept
  BY DEF Crash, FilesKept, history
<1>3. calls' \in [Writers -> {Idle} \cup Call]
  BY <1>1, <1>2
<1>4. TypeOK'
  BY <1>2, <1>3 DEF IInv, TypeOK, FilesKept, Crash, Call
<1>5. Alone'
  BY <1>1, <1>2, FileStoreAssumption
  DEF IInv, Alone, FilesKept, IsIdle, Idle, Crash
<1>6. CallsRetreat
  BY <1>1, <1>2 DEF CallsRetreat
<1> QED
  BY <1>2, <1>4, <1>5, <1>6, RetreatKeeps DEF IInv

-----------------------------------------------------------------------------
(* The steps of a write.                                                   *)

\* The comparison of Save arms the writer against the record it loaded.
LEMMA LoadCurrentKeeps ==
  ASSUME IInv, NEW w \in Writers, LoadCurrent(w)
  PROVE  IInv'
<1>1. FilesKept /\ UNCHANGED lock /\ ~IsIdle(w) /\ calls[w].phase = "load"
  BY DEF LoadCurrent, FilesKept, history, At
<1>2. CASE Finish(w, "notfound") \/ Finish(w, "conflict")
  BY <1>1, <1>2, FinishKeeps
<1>3. CASE target # NoFile /\ Supersedes(calls[w].file) /\ Goto(w, "temp")
  <2>1. calls \in [Writers -> {Idle} \cup Call]
    BY DEF IInv, TypeOK, Call
  <2>2. calls[w] \in Call
    BY <1>1, CallType DEF IInv
  <2>3. /\ calls' = [calls EXCEPT ![w] = [calls[w] EXCEPT !.phase = "temp"]]
        /\ answer' = "none"
    BY <1>3 DEF Goto
  <2>4. [calls[w] EXCEPT !.phase = "temp"] \in Call
    BY <2>2 DEF Call
  <2>5. calls' \in [Writers -> {Idle} \cup Call]
    BY <2>1, <2>3, <2>4
  <2>6. TypeOK'
    BY <1>1, <2>3, <2>5 DEF IInv, TypeOK, FilesKept, Call
  <2>7. /\ \A v \in Writers \ {w} : calls'[v] = calls[v]
        /\ calls'[w].op = calls[w].op /\ calls'[w].file = calls[w].file
        /\ calls'[w].phase = "temp"
    BY <2>1, <2>2, <2>3 DEF Call
  <2>8. Durable'
    BY <1>1, <2>7 DEF IInv, Durable, FilesKept, At, IsIdle
  <2>9. Alone'
    BY <1>1, <2>7 DEF IInv, Alone, FilesKept, IsIdle
  <2>10. Armed'
    BY <1>1, <1>3, <2>7 DEF IInv, Armed, FilesKept, At, IsIdle, Supersedes
  <2>11. Kept'
    BY <1>1 DEF IInv, Kept, FilesKept
  <2>12. OneCreator'
    BY <1>1, <2>7 DEF IInv, OneCreator, FilesKept, At, IsIdle, Linked
  <2> QED
    BY <2>6, <2>8, <2>9, <2>10, <2>11, <2>12 DEF IInv
<1> QED
  BY <1>2, <1>3 DEF LoadCurrent

\* The record is synced before it gets its name.
LEMMA WriteTempKeeps ==
  ASSUME IInv, NEW w \in Writers, WriteTemp(w)
  PROVE  IInv'
<1>1. FilesKept /\ UNCHANGED lock /\ ~IsIdle(w) /\ calls[w].phase = "temp"
  BY DEF WriteTemp, FilesKept, history, At
<1>2. calls \in [Writers -> {Idle} \cup Call]
  BY DEF IInv, TypeOK, Call
<1>3. calls[w] \in Call
  BY <1>1, CallType DEF IInv
<1> DEFINE call == [calls[w] EXCEPT !.phase = "publish", !.file.synced = TRUE]
<1>4. calls' = [calls EXCEPT ![w] = call] /\ answer' = "none"
  BY <1>2 DEF WriteTemp
<1>5. /\ call \in Call
      /\ call.op = calls[w].op /\ call.phase = "publish" /\ call.file.synced
      /\ call.file.revision = calls[w].file.revision
  BY <1>3 DEF Call, File
<1> HIDE DEF call
<1>6. calls' \in [Writers -> {Idle} \cup Call]
  BY <1>2, <1>4, <1>5
<1>7. TypeOK'
  BY <1>1, <1>4, <1>6 DEF IInv, TypeOK, FilesKept, Call
<1>8. calls'[w] = call /\ \A v \in Writers \ {w} : calls'[v] = calls[v]
  BY <1>2, <1>4
<1>9. Durable'
  BY <1>1, <1>5, <1>8 DEF IInv, Durable, FilesKept, At, IsIdle
<1>10. Alone'
  BY <1>1, <1>5, <1>8 DEF IInv, Alone, FilesKept, IsIdle
<1>11. Armed'
  BY <1>1, <1>5, <1>8 DEF IInv, Armed, FilesKept, At, IsIdle, Supersedes
<1>12. Kept'
  BY <1>1 DEF IInv, Kept, FilesKept
<1>13. OneCreator'
  BY <1>1, <1>5, <1>8 DEF IInv, OneCreator, FilesKept, At, IsIdle, Linked
<1> QED
  BY <1>7, <1>9, <1>10, <1>11, <1>12, <1>13 DEF IInv

\* What the second half of Publish does: the record of the call becomes the
\* visible one, and another that a power loss may leave.
Published(w) ==
  /\ calls[w].op = "create" => target = NoFile
  /\ target' = calls[w].file
  /\ survivors' = survivors \cup {target'}
  /\ Goto(w, "sync")

\* A published record is no older than an acknowledged one, because a locked
\* Save was compared with the record that it replaces.
LEMMA PublishedNotOlder ==
  ASSUME IInv, NEW w \in Writers, At(w, "publish"), Published(w), locked
  PROVE  RevisionOf(calls[w].file) >= acked
<1>1. calls[w] \in Call /\ calls[w].file # NoFile
  BY CallType, NoFileAssumption DEF IInv, At, Call
<1>2. RevisionOf(calls[w].file) = calls[w].file.revision /\ calls[w].file.revision \in Nat
  BY <1>1 DEF RevisionOf, Call, File
<1>3. target \in survivors /\ target \in File \cup {NoFile} /\ acked \in Int
  BY FileStoreAssumption DEF IInv, TypeOK
<1>4. RevisionOf(target) >= acked
  BY <1>3 DEF IInv, Kept
<1>5. CASE calls[w].op = "create"
  BY <1>2, <1>3, <1>4, <1>5 DEF Published, RevisionOf
<1>6. CASE calls[w].op = "save"
  <2>1. target # NoFile /\ Supersedes(calls[w].file)
    BY <1>6 DEF IInv, Armed, At
  <2>2. RevisionOf(target) = target.revision /\ target.revision \in Nat
    BY <1>3, <2>1 DEF RevisionOf, File
  <2> QED
    BY <1>2, <1>3, <1>4, <2>1, <2>2 DEF Supersedes
<1> QED
  BY <1>1, <1>5, <1>6 DEF Call

\* Link and rename.
LEMMA PublishKeeps ==
  ASSUME IInv, NEW w \in Writers, Publish(w)
  PROVE  IInv'
<1>1. /\ UNCHANGED <<lock, locked, boots, acked, created>>
      /\ ~IsIdle(w) /\ calls[w].phase = "publish"
  BY DEF Publish, history, At
<1>2. CASE Finish(w, "exists") /\ UNCHANGED <<target, survivors>>
  BY <1>1, <1>2, FinishKeeps DEF FilesKept
<1>3. CASE Published(w)
  <2>1. calls \in [Writers -> {Idle} \cup Call]
    BY DEF IInv, TypeOK, Call
  <2>2. calls[w] \in Call
    BY <1>1, CallType DEF IInv
  <2>3. /\ calls' = [calls EXCEPT ![w] = [calls[w] EXCEPT !.phase = "sync"]]
        /\ answer' = "none"
    BY <1>3 DEF Published, Goto
  <2>4. [calls[w] EXCEPT !.phase = "sync"] \in Call
    BY <2>2 DEF Call
  <2>5. calls' \in [Writers -> {Idle} \cup Call]
    BY <2>1, <2>3, <2>4
  <2>6. /\ calls[w].file \in File
        /\ target' = calls[w].file /\ survivors' = survivors \cup {calls[w].file}
        /\ target' # NoFile
    BY <1>3, <2>2, NoFileAssumption DEF Published, Call
  <2>7. TypeOK'
    BY <1>1, <2>3, <2>5, <2>6 DEF IInv, TypeOK, Call
  <2>8. /\ \A v \in Writers \ {w} : calls'[v] = calls[v]
        /\ calls'[w].op = calls[w].op /\ calls'[w].file = calls[w].file
        /\ calls'[w].phase = "sync"
    BY <2>1, <2>2, <2>3 DEF Call
  <2>9. Durable'
    BY <1>1, <2>6, <2>8 DEF IInv, Durable, At, IsIdle
  <2>10. Alone'
    BY <1>1, <2>8 DEF IInv, Alone, IsIdle
  <2>11. Armed'
    <3>1. locked => \A v \in Writers \ {w} : calls'[v] = Idle
      BY <1>1, <2>8, CallType DEF IInv, Alone
    <3> QED
      BY <1>1, <2>6, <2>8, <3>1 DEF Armed, At, IsIdle, Idle
  <2>12. Kept'
    <3>1. locked => RevisionOf(calls[w].file) >= acked
      BY <1>1, <1>3, PublishedNotOlder DEF At
    <3> QED
      BY <1>1, <2>6, <3>1 DEF IInv, Kept, RevisionOf
  <2>13. OneCreator'
    <3>1. calls[w].op = "create" => created = 0 /\ \A v \in Writers : ~Linked(v)
      BY <1>3 DEF Published, IInv, OneCreator, TypeOK, Linked, At, IsIdle
    <3>2. created = 1 => NoFile \notin survivors'
      BY <2>6 DEF IInv, OneCreator
    <3> QED
      BY <1>1, <2>6, <2>8, <3>1, <3>2 DEF IInv, OneCreator, At, IsIdle, Linked
  <2> QED
    BY <2>7, <2>9, <2>10, <2>11, <2>12, <2>13 DEF IInv
<1> QED
  BY <1>2, <1>3 DEF Publish, Published

\* The directory is synced, then the write is acknowledged.
LEMMA SyncDirectoryKeeps ==
  ASSUME IInv, NEW w \in Writers, SyncDirectory(w)
  PROVE  IInv'
<1>1. /\ UNCHANGED <<target, lock, locked, boots>> /\ survivors' = {target}
      /\ ~IsIdle(w) /\ calls[w].phase = "sync" /\ answer' = "ok"
      /\ calls' = [calls EXCEPT ![w] = Idle]
  BY DEF SyncDirectory, Acknowledged, Finish, At
<1>2. calls \in [Writers -> {Idle} \cup Call] /\ calls[w] \in Call
  BY <1>1, CallType DEF IInv, TypeOK, Call
<1>3. calls' \in [Writers -> {Idle} \cup Call]
  BY <1>1, <1>2
<1>4. calls'[w] = Idle /\ \A v \in Writers \ {w} : calls'[v] = calls[v]
  BY <1>1, <1>2
<1>5. /\ acked' = IF calls[w].file.revision > acked THEN calls[w].file.revision ELSE acked
      /\ created' = created + (IF calls[w].op = "create" THEN 1 ELSE 0)
  BY DEF SyncDirectory, Acknowledged
<1>6. calls[w].file \in File /\ calls[w].file.revision \in 0..MaxRevision
  BY <1>2 DEF Call, File
<1>7. acked \in -1..MaxRevision /\ acked' \in -1..MaxRevision
  BY <1>5, <1>6, FileStoreAssumption DEF IInv, TypeOK
<1>8. created \in {0, 1} /\ created' \in {0, 1} /\ (calls[w].op = "create" => created = 0)
  BY <1>1, <1>5 DEF IInv, OneCreator, Linked
<1>9. TypeOK'
  BY <1>1, <1>3, <1>7, <1>8 DEF IInv, TypeOK, Call
<1>10. Durable'
  BY <1>1, <1>4 DEF IInv, Durable, TypeOK, At, IsIdle, Idle
<1>11. Alone'
  BY <1>1, <1>4 DEF IInv, Alone, IsIdle, Idle
<1>12. Armed'
  BY <1>1, <1>4 DEF IInv, Armed, At, IsIdle, Idle, Supersedes
<1>13. Kept'
  <2>1. SUFFICES ASSUME locked PROVE RevisionOf(target) >= acked'
    BY <1>1 DEF Kept, RevisionOf
  <2>2. target = calls[w].file /\ target # NoFile
    BY <1>1, <1>6, <2>1, NoFileAssumption DEF IInv, Armed, At
  <2>3. RevisionOf(target) >= acked
    BY <2>1 DEF IInv, Kept, TypeOK
  <2> QED
    BY <1>5, <1>6, <1>7, <2>2, <2>3 DEF RevisionOf
<1>14. OneCreator'
  <2>1. target # NoFile
    BY <1>1 DEF IInv, OneCreator, At
  <2>2. \A v \in Writers : Linked(v)' => v # w /\ Linked(v)
    BY <1>4 DEF Linked, Idle
  <2>3. \A v \in Writers : Linked(v)' => created' = 0
    <3> SUFFICES ASSUME NEW v \in Writers, Linked(v)' PROVE created' = 0
      OBVIOUS
    <3>1. v # w /\ Linked(v) /\ created = 0
      BY <2>2 DEF IInv, OneCreator
    <3>2. calls[w].op # "create"
      BY <1>1, <3>1 DEF IInv, OneCreator, Linked
    <3> QED
      BY <1>5, <3>1, <3>2
  <2>4. \A v \in Writers : At(v, "sync")' => target' # NoFile
    BY <1>1, <2>1
  <2>5. created' = 1 => NoFile \notin survivors'
    BY <1>1, <2>1
  <2>6. \A v, u \in Writers : Linked(v)' /\ Linked(u)' => v = u
    BY <2>2 DEF IInv, OneCreator
  <2> QED
    BY <1>8, <2>3, <2>4, <2>5, <2>6 DEF OneCreator
<1> QED
  BY <1>9, <1>10, <1>11, <1>12, <1>13, <1>14 DEF IInv

\* A power loss leaves a survivor, and nobody who writes.
LEMMA PowerLossKeeps ==
  ASSUME IInv, PowerLoss
  PROVE  IInv'
<1> USE DEF PowerLoss
<1>1. \A w \in Writers : calls'[w] = Idle
  OBVIOUS
<1>2. TypeOK'
  BY FileStoreAssumption DEF IInv, TypeOK
<1>3. Durable'
  BY <1>1 DEF IInv, Durable, At, IsIdle, Idle
<1>4. Alone'
  BY <1>1 DEF Alone, IsIdle, Idle
<1>5. Armed'
  BY <1>1 DEF Armed, At, IsIdle, Idle
<1>6. Kept'
  BY DEF IInv, Kept, RevisionOf
<1>7. OneCreator'
  BY <1>1 DEF IInv, OneCreator, At, IsIdle, Linked, Idle
<1> QED
  BY <1>2, <1>3, <1>4, <1>5, <1>6, <1>7 DEF IInv

-----------------------------------------------------------------------------
(* The theorems.                                                           *)

\* Every step of the store and of its environment keeps the invariant.
LEMMA NextIInv == IInv /\ [Next]_vars => IInv'
<1> SUFFICES ASSUME IInv, [Next]_vars PROVE IInv'
  OBVIOUS
<1>1. CASE PowerLoss
  BY <1>1, PowerLossKeeps
<1>2. ASSUME NEW w \in Writers, LockExecution(w) \/ Unlock(w) PROVE IInv'
  BY <1>2, LockingKeeps
<1>3. ASSUME NEW w \in Writers, Load(w) PROVE IInv'
  BY <1>3, LoadKeeps
<1>4. ASSUME NEW w \in Writers, Crash(w) PROVE IInv'
  BY <1>4, CrashKeeps
<1>5. ASSUME NEW w \in Writers, NEW op \in {"create", "save"},
             NEW revision \in Revisions, Begin(w, op, revision)
      PROVE IInv'
  BY <1>5, BeginKeeps
<1>6. ASSUME NEW w \in Writers, LoadCurrent(w) PROVE IInv'
  BY <1>6, LoadCurrentKeeps
<1>7. ASSUME NEW w \in Writers, WriteTemp(w) PROVE IInv'
  BY <1>7, WriteTempKeeps
<1>8. ASSUME NEW w \in Writers, WriteFails(w) \/ SyncFails(w) PROVE IInv'
  <2>1. ~IsIdle(w) /\ Finish(w, "store") /\ FilesKept /\ UNCHANGED lock
    BY <1>8 DEF WriteFails, SyncFails, At, FilesKept, history
  <2> QED
    BY <2>1, FinishKeeps
<1>9. ASSUME NEW w \in Writers, Publish(w) PROVE IInv'
  BY <1>9, PublishKeeps
<1>10. ASSUME NEW w \in Writers, SyncDirectory(w) PROVE IInv'
  BY <1>10, SyncDirectoryKeeps
<1>11. CASE UNCHANGED vars
  <2>1. FilesKept /\ UNCHANGED <<calls, lock, answer>>
    BY <1>11 DEF vars, history, FilesKept
  <2>2. TypeOK' /\ Alone'
    BY <2>1 DEF IInv, TypeOK, Alone, FilesKept, IsIdle, Idle
  <2> QED
    BY <2>1, <2>2, RetreatKeeps DEF IInv, CallsRetreat
<1> QED
  BY <1>1, <1>2, <1>3, <1>4, <1>5, <1>6, <1>7, <1>8, <1>9, <1>10, <1>11 DEF Next

\* The invariant holds throughout.
THEOREM InvHolds == Spec => []IInv
  BY InitIInv, NextIInv, PTL DEF Spec

\* FileStore: a write that reported success survives every power loss, whatever
\* the other writers are in the middle of, and what is found is a whole record.
THEOREM FileStoreKeepsAcknowledged == Spec => []AckedSurvives
<1>1. IInv => AckedSurvives
  BY DEF IInv, Durable, Kept, AckedSurvives
<1> QED
  BY <1>1, InvHolds, PTL

\* Create: at most one call for an execution ever reports success, with or
\* without the lock and across power losses.
THEOREM FileStoreCreatesOnce == Spec => []CreatedOnce
<1>1. IInv => CreatedOnce
  BY DEF IInv, OneCreator, CreatedOnce
<1> QED
  BY <1>1, InvHolds, PTL

\* Save under the lock: the visible record only advances.
THEOREM FileStoreRevisionAdvances == Spec => RevisionAdvances
<1>1. ASSUME IInv, [Next]_vars, locked, boots' = boots, target' # target,
             target # NoFile
      PROVE  target' # NoFile /\ (target.revision > 0 => target'.revision > target.revision)
  <2>1. ~PowerLoss
    <3>1. boots + 1 # boots
      BY <1>1, FileStoreAssumption DEF IInv, TypeOK
    <3>2. PowerLoss => boots' = boots + 1
      BY DEF PowerLoss
    <3> QED
      BY <1>1, <3>1, <3>2
  <2>2. \E w \in Writers : Publish(w)
    BY <1>1, <2>1 DEF Next, vars, LockExecution, Unlock, Load, Crash, Begin,
       LoadCurrent, WriteTemp, WriteFails, SyncDirectory, Acknowledged, SyncFails
  <2>3. PICK w \in Writers : Publish(w)
    BY <2>2
  <2>4. /\ calls[w].op # "create" /\ target' = calls[w].file
        /\ ~IsIdle(w) /\ calls[w].phase = "publish"
    BY <1>1, <2>3 DEF Publish, At
  <2>5. calls[w] \in Call /\ calls[w].op = "save"
    BY <1>1, <2>4, CallType DEF IInv, Call
  <2>6. Supersedes(calls[w].file)
    BY <1>1, <2>4, <2>5 DEF IInv, Armed
  <2> QED
    BY <2>4, <2>5, <2>6, NoFileAssumption DEF Supersedes, Call
<1>2. IInv /\ [Next]_vars
      => [locked /\ boots' = boots /\ target' # target
          => \/ target = NoFile
             \/ /\ target' # NoFile
                /\ target.revision > 0 => target'.revision > target.revision]_vars
  BY <1>1
<1> QED
  BY <1>2, InvHolds, PTL DEF Spec, RevisionAdvances
=============================================================================
