------------------------------ MODULE FileStore ------------------------------
(***************************************************************************)
(* FileStore (file_store.go, file_store_lock_linux.go), seen from one      *)
(* execution: its checkpoint file, its lock file, and the calls of several *)
(* processes, cut at the system calls.                                     *)
(*                                                                         *)
(* The file system (external) behaves as the type's comment requires: link *)
(* and rename are atomic, a synced file keeps its contents.  A change of   *)
(* the directory is visible at once and durable after the directory was    *)
(* synced; a power loss leaves any entry the name had since then, and may  *)
(* damage a file that was not synced.  A flock ends with its process.      *)
(***************************************************************************)
EXTENDS Integers

CONSTANTS
  Writers,      \* goroutines of any process with the directory open
  Nobody,       \* holds the lock when nobody does
  NoFile,       \* the name is not in the directory
  MaxRevision,  \* bound: no checkpoint offered has a larger revision
  MaxBoots      \* bound: number of power losses

ASSUME FileStoreAssumption ==
  /\ Nobody \notin Writers
  /\ MaxRevision \in Nat
  /\ MaxBoots \in Nat

VARIABLES
  locked,      \* TRUE: writers lock first, as Run and Resume do
  target,      \* the file that the name of the execution leads to
  survivors,   \* the files it may lead to after a power loss
  lock,        \* who holds the flock
  calls,       \* calls[w]: the write in progress
  boots,       \* history: power losses so far
  acked,       \* history: the largest revision a write reported as stored
  created,     \* history: Create calls that reported success
  answer       \* what the call that ended in the last step returned, or "none"

history == <<locked, boots, acked, created>>
vars == <<target, survivors, lock, calls, history, answer>>

Invalid == -1
Revisions == {Invalid} \cup 0..MaxRevision

\* author stands for the rest of the contents.
File == [revision : 0..MaxRevision, author : Writers, synced : BOOLEAN]

ASSUME NoFileAssumption == NoFile \notin File

Idle == [op |-> "idle", phase |-> "load", file |-> NoFile]

\* The revision of the record, -1 if there is none.
RevisionOf(file) == IF file = NoFile THEN -1 ELSE file.revision

Init ==
  /\ locked \in BOOLEAN
  /\ target = NoFile
  /\ survivors = {NoFile}
  /\ lock = Nobody
  /\ calls = [w \in Writers |-> Idle]
  /\ boots = 0 /\ acked = -1 /\ created = 0
  /\ answer = "none"

IsIdle(w) == calls[w].op = "idle"

At(w, phase) == ~IsIdle(w) /\ calls[w].phase = phase

Goto(w, phase) ==
  calls' = [calls EXCEPT ![w].phase = phase] /\ answer' = "none"

Finish(w, err) == calls' = [calls EXCEPT ![w] = Idle] /\ answer' = err

-----------------------------------------------------------------------------
(* LockExecution and its release function.                                 *)

\* Mutant of LockExecution: an EWOULDBLOCK is taken for success.
LockExecutionShared(w) ==
  /\ IsIdle(w) /\ lock # w
  /\ lock' = w /\ answer' = "ok"
  /\ UNCHANGED <<target, survivors, calls, history>>

\* A context that ends during the call leaves the lock as it was.
LockExecution(w) ==
  /\ IsIdle(w) /\ lock # w
  /\ \/ lock = Nobody /\ lock' = w /\ answer' = "ok"
     \/ lock # Nobody /\ answer' = "busy" /\ UNCHANGED lock
     \/ answer' = "context" /\ UNCHANGED lock
  /\ UNCHANGED <<target, survivors, calls, history>>

Unlock(w) ==
  /\ IsIdle(w) /\ lock = w
  /\ lock' = Nobody /\ answer' = "none"
  /\ UNCHANGED <<target, survivors, calls, history>>

-----------------------------------------------------------------------------
(* write: Create and Save.                                                 *)

MayWrite(w) == locked => lock = w

Begin(w, op, revision) ==
  /\ IsIdle(w) /\ MayWrite(w)
  /\ \/ revision = Invalid /\ answer' = "invalid" /\ UNCHANGED calls
     \/ /\ revision # Invalid
        /\ answer' = "none"
        /\ calls' = [calls EXCEPT ![w] =
             [op |-> op,
              phase |-> IF op = "create" THEN "temp" ELSE "load",
              file |-> [revision |-> revision, author |-> w, synced |-> FALSE]]]
  /\ UNCHANGED <<target, survivors, lock, history>>

\* Revision zero is the legacy form.
Supersedes(file) ==
  target.revision > 0 => file.revision # 0 /\ file.revision > target.revision

\* Save loads the current record and compares revisions.
LoadCurrent(w) ==
  /\ At(w, "load")
  /\ \/ target = NoFile /\ Finish(w, "notfound")
     \/ target # NoFile /\ ~Supersedes(calls[w].file) /\ Finish(w, "conflict")
     \/ target # NoFile /\ Supersedes(calls[w].file) /\ Goto(w, "temp")
  /\ UNCHANGED <<target, survivors, lock, history>>

\* CreateTemp, Write, Sync, Close.
WriteTemp(w) ==
  /\ At(w, "temp")
  /\ calls' = [calls EXCEPT ![w].phase = "publish", ![w].file.synced = TRUE]
  /\ answer' = "none"
  /\ UNCHANGED <<target, survivors, lock, history>>

\* An operation fails or the context ends before the record is published.
WriteFails(w) ==
  /\ At(w, "load") \/ At(w, "temp") \/ At(w, "publish")
  /\ Finish(w, "store")
  /\ UNCHANGED <<target, survivors, lock, history>>

\* Mutant of Publish: Create checks for the file first and then renames.
PublishOver(w) ==
  /\ At(w, "publish")
  /\ target' = calls[w].file
  /\ survivors' = survivors \cup {target'}
  /\ Goto(w, "sync")
  /\ UNCHANGED <<lock, history>>

\* Link refuses a name that exists; rename replaces it.
Publish(w) ==
  /\ At(w, "publish")
  /\ \/ /\ calls[w].op = "create" /\ target # NoFile
        /\ Finish(w, "exists")
        /\ UNCHANGED <<target, survivors>>
     \/ /\ calls[w].op = "create" => target = NoFile
        /\ target' = calls[w].file
        /\ survivors' = survivors \cup {target'}
        /\ Goto(w, "sync")
  /\ UNCHANGED <<lock, history>>

Acknowledged(w) ==
  /\ acked' = IF calls[w].file.revision > acked THEN calls[w].file.revision ELSE acked
  /\ created' = created + (IF calls[w].op = "create" THEN 1 ELSE 0)
  /\ Finish(w, "ok")
  /\ UNCHANGED <<target, lock, locked, boots>>

\* Mutant of SyncDirectory: success is reported without the sync.
SyncDirectorySkipped(w) ==
  At(w, "sync") /\ Acknowledged(w) /\ UNCHANGED survivors

SyncDirectory(w) ==
  /\ At(w, "sync")
  /\ survivors' = {target}
  /\ Acknowledged(w)

\* The record is visible, the caller is told that the write failed.
SyncFails(w) ==
  /\ At(w, "sync")
  /\ Finish(w, "store")
  /\ UNCHANGED <<target, survivors, lock, history>>

-----------------------------------------------------------------------------
(* Load, and the environment.                                              *)

\* Load returns one file, whole, or fails.
Load(w) ==
  /\ IsIdle(w)
  /\ answer' \in {IF target = NoFile THEN "notfound" ELSE "ok", "store"}
  /\ UNCHANGED <<target, survivors, lock, calls, history>>

\* The process dies: the kernel drops its lock, a temporary file stays behind.
Crash(w) ==
  /\ ~IsIdle(w) \/ lock = w
  /\ calls' = [calls EXCEPT ![w] = Idle]
  /\ lock' = IF lock = w THEN Nobody ELSE lock
  /\ answer' = "none"
  /\ UNCHANGED <<target, survivors, history>>

PowerLoss ==
  /\ boots < MaxBoots
  /\ boots' = boots + 1
  /\ target' \in survivors
  /\ survivors' = {target'}
  /\ lock' = Nobody
  /\ calls' = [w \in Writers |-> Idle]
  /\ answer' = "none"
  /\ UNCHANGED <<locked, acked, created>>

Next ==
  \/ PowerLoss
  \/ \E w \in Writers :
       \/ LockExecution(w) \/ Unlock(w) \/ Load(w) \/ Crash(w)
       \/ \E op \in {"create", "save"}, revision \in Revisions :
            Begin(w, op, revision)
       \/ LoadCurrent(w) \/ WriteTemp(w) \/ WriteFails(w)
       \/ Publish(w) \/ SyncDirectory(w) \/ SyncFails(w)

Spec == Init /\ [][Next]_vars

-----------------------------------------------------------------------------
(* Properties.                                                             *)

TypeOK ==
  /\ target \in File \cup {NoFile}
  /\ target \in survivors /\ survivors \subseteq File \cup {NoFile}
  /\ lock \in Writers \cup {Nobody}
  /\ calls \in [Writers -> {Idle} \cup
       [op : {"create", "save"}, phase : {"load", "temp", "publish", "sync"},
        file : File]]
  /\ boots \in 0..MaxBoots /\ acked \in -1..MaxRevision
  /\ created \in Nat /\ locked \in BOOLEAN
  /\ answer \in {"none", "ok", "busy", "context", "invalid", "notfound",
                 "conflict", "store", "exists"}

\* A write that reported success is not undone by a power loss, at whatever
\* point of other calls it comes: what can be found afterwards is that record or
\* a later one, and a whole one (CheckpointStore: "must not report success until
\* the snapshot is durable").  A later one may be of a writer that died before
\* it synced the directory.
AckedSurvives ==
  \A file \in survivors :
    /\ file # NoFile => file.synced
    /\ locked => RevisionOf(file) >= acked

\* Of all Create calls ever made for an execution at most one reports success,
\* also among writers without a lock and across power losses.
CreatedOnce == created <= 1

\* While the machine is up and writers hold the lock, the visible record only
\* advances.  Without the lock it may not: the comparison in Save and its rename
\* are separate steps.
RevisionAdvances ==
  [][locked /\ boots' = boots /\ target' # target
     => \/ target = NoFile
        \/ /\ target' # NoFile
           /\ target.revision > 0 => target'.revision > target.revision]_vars
=============================================================================
