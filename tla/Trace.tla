-------------------------------- MODULE Trace --------------------------------
(***************************************************************************)
(* Delivery of events to a group of observers (observer.go) one of which   *)
(* is a FileTraceRecorder (trace.go), over a file whose writes and syncs   *)
(* may fail, with panicking observers, process crashes and power losses.   *)
(* One runtime, and so one recorder, may run several executions in turn    *)
(* and resume an interrupted one.                                          *)
(***************************************************************************)
EXTENDS TraceEvents

CONSTANTS
  Group,       \* the observers, in order of registration
  Recorder,    \* the recorder among them
  MaxEvents    \* bound: events emitted

Observers == ToSet(Group)

ASSUME GroupAssumption ==
  /\ Group \in Seq(Observers) /\ IsInjective(Group) /\ Recorder \in Observers
  /\ MaxEvents \in Nat

VARIABLES
  options,   \* the events that the invocation in progress may emit next
  emitted,   \* history: the events emitted so far
  told,      \* history: told[id], those of an execution
  at,        \* index in Group of the observer whose turn it is, 0 for none
  recorder,  \* sequence, err (is there one?), closed
  writing,   \* TRUE: OnEvent has appended a record and not yet synced it
  file,      \* the records in the file
  synced,    \* how many records the last sync covered
  up         \* FALSE after a crash or power loss

execution == <<options, emitted, told>>
disk == <<file, synced>>
vars == <<execution, at, recorder, writing, disk, up>>

Init ==
  /\ options = {} /\ emitted = <<>> /\ told = [id \in Executions |-> <<>>]
  /\ at = 0
  /\ recorder = [sequence |-> 0, err |-> FALSE, closed |-> FALSE]
  /\ writing = FALSE /\ file = <<>> /\ synced = 0 /\ up = TRUE

-----------------------------------------------------------------------------
(* The runtime.                                                            *)

\* Run, or Resume of an execution without a terminal event; its checkpoint may
\* hold one reservation more than was announced.
Start(id) ==
  /\ up /\ at = 0 /\ options = {} /\ Len(emitted) < MaxEvents
  /\ \/ told[id] = <<>> /\ options' = Opens(id, 0, TRUE)
     \/ /\ told[id] # <<>> /\ ~terminalTraceEvent(Last(told[id]).type)
        /\ \E more \in {0, 1} :
             options' = Opens(id, Last(told[id]).attempt + more, FALSE)
  /\ UNCHANGED <<emitted, told, at, recorder, writing, disk, up>>

\* observe: the event goes to the group.
Emit(event) ==
  /\ up /\ at = 0 /\ Len(emitted) < MaxEvents
  /\ emitted' = Append(emitted, event)
  /\ told' = [told EXCEPT ![event.id] = Append(@, event)]
  /\ options' = Follows(event)
  /\ at' = 1
  /\ UNCHANGED <<recorder, writing, disk, up>>

\* The invocation ends without an event: a store failure or a panic.
Abandon ==
  /\ up /\ at = 0 /\ options # {}
  /\ options' = {}
  /\ UNCHANGED <<emitted, told, at, recorder, writing, disk, up>>

-----------------------------------------------------------------------------
(* Delivery.                                                               *)

Turn(o) == up /\ at # 0 /\ Group[at] = o

\* deliverObserver has returned: the next observer of the group.
Delivered == at' = IF at = Len(Group) THEN 0 ELSE at + 1

ObserverReturns(o) ==
  /\ Turn(o) /\ o # Recorder
  /\ Delivered
  /\ UNCHANGED <<execution, recorder, writing, disk, up>>

\* Mutant of ObserverPanics: only observe recovers, and the group is left.
ObserverPanicsThrough(o) ==
  /\ Turn(o) /\ o # Recorder
  /\ at' = 0
  /\ UNCHANGED <<execution, recorder, writing, disk, up>>

\* deliverObserver recovers.
ObserverPanics(o) ==
  /\ Turn(o) /\ o # Recorder
  /\ Delivered
  /\ UNCHANGED <<execution, recorder, writing, disk, up>>

\* OnEvent records while the recorder is open and has not failed.
Accepting == Turn(Recorder) /\ ~writing /\ ~recorder.closed /\ ~recorder.err

OnEventIgnores ==
  /\ Turn(Recorder) /\ ~writing /\ ~Accepting
  /\ Delivered
  /\ UNCHANGED <<execution, recorder, writing, disk, up>>

NextRecord == Record(recorder.sequence + 1, Last(emitted))

\* OnEvent: Write.
OnEventWrites ==
  /\ Accepting
  /\ file' = Append(file, NextRecord)
  /\ writing' = TRUE
  /\ UNCHANGED <<execution, at, recorder, synced, up>>

\* Write fails and may leave a part of the record.
OnEventWriteFails ==
  /\ Accepting
  /\ file' \in {file, Append(file, [NextRecord EXCEPT !.whole = FALSE])}
  /\ recorder' = [recorder EXCEPT !.err = TRUE]
  /\ Delivered
  /\ UNCHANGED <<execution, writing, synced, up>>

\* Mutant of OnEventSyncs: no Sync.
OnEventSyncsNot ==
  /\ up /\ writing
  /\ recorder' = [recorder EXCEPT !.sequence = @ + 1]
  /\ writing' = FALSE
  /\ Delivered
  /\ UNCHANGED <<execution, disk, up>>

\* OnEvent: Sync; the record is accepted.
OnEventSyncs ==
  /\ up /\ writing
  /\ synced' = Len(file)
  /\ recorder' = [recorder EXCEPT !.sequence = @ + 1]
  /\ writing' = FALSE
  /\ Delivered
  /\ UNCHANGED <<execution, file, up>>

OnEventSyncFails ==
  /\ up /\ writing
  /\ recorder' = [recorder EXCEPT !.err = TRUE]
  /\ writing' = FALSE
  /\ Delivered
  /\ UNCHANGED <<execution, disk, up>>

\* Close waits for an OnEvent in progress; later events are ignored.
Close ==
  /\ up /\ ~writing /\ ~recorder.closed
  /\ \/ synced' = Len(file) /\ recorder' = [recorder EXCEPT !.closed = TRUE]
     \/ UNCHANGED synced /\ recorder' = [recorder EXCEPT !.closed = TRUE, !.err = TRUE]
  /\ UNCHANGED <<execution, at, writing, file, up>>

-----------------------------------------------------------------------------
(* Failures of the environment.                                            *)

\* The process dies; the file stays as it is.
Crash ==
  /\ up /\ up' = FALSE
  /\ UNCHANGED <<execution, at, recorder, writing, disk>>

\* Records that were not synced may be lost, the first of them in part.
PowerLoss ==
  /\ up' = FALSE
  /\ \E n \in synced..Len(file) :
       file' \in {SubSeq(file, 1, n)} \cup
         (IF n < Len(file)
          THEN {Append(SubSeq(file, 1, n), [file[n + 1] EXCEPT !.whole = FALSE])} ELSE {})
  /\ synced' = Len(file')
  /\ UNCHANGED <<execution, at, recorder, writing>>

Next ==
  \/ \E id \in Executions : Start(id)
  \/ \E event \in options : Emit(event)
  \/ Abandon
  \/ \E o \in Observers : ObserverReturns(o) \/ ObserverPanics(o)
  \/ OnEventIgnores \/ OnEventWrites \/ OnEventWriteFails
  \/ OnEventSyncs \/ OnEventSyncFails \/ Close
  \/ Crash \/ PowerLoss

Spec == Init /\ [][Next]_vars

-----------------------------------------------------------------------------
(* Properties.                                                             *)

TypeOK ==
  /\ at \in 0..Len(Group)
  /\ recorder \in [sequence : 0..MaxEvents, err : BOOLEAN, closed : BOOLEAN]
  /\ writing \in BOOLEAN /\ up \in BOOLEAN
  /\ Len(emitted) <= MaxEvents
  /\ synced \in 0..Len(file)
  /\ Len(file) <= recorder.sequence + 1

\* A trace that can be read tells the beginning of what happened, without gap,
\* repetition or mixture of executions, whatever failed on the way and whether
\* or not an observer before the recorder panicked; and if it
\* is complete it tells everything that happened in its execution.
TraceIsHistory ==
  LET trace == ReadTrace(file) IN
  trace.ok =>
    /\ Len(file) <= Len(emitted)
    /\ \A i \in DOMAIN file : file[i].event = emitted[i]
    /\ InspectTrace(file).ok /\ InspectTrace(file).complete =>
         told[file[1].event.id] = SubSeq(emitted, 1, Len(file))

\* Every record whose OnEvent returned without an error is in the file, whole
\* and in its place, also after a power loss.
AcceptedKept ==
  /\ Len(file) >= recorder.sequence
  /\ \A i \in 1..recorder.sequence : file[i] = Record(i, emitted[i])

\* The reader accepts what the runtime and the recorder produce: a file of
\* whole records of one execution passes ReadTrace and, unless it is empty,
\* InspectTrace, also when the execution was interrupted and resumed.
ReaderAccepts ==
  (\A i \in DOMAIN file : file[i].whole /\ file[i].event.id = file[1].event.id) =>
    ReadTrace(file).ok /\ (file # <<>> => InspectTrace(file).ok)

\* What an execution did, without its identity.
Story(id) == [i \in DOMAIN told[id] |-> [told[id][i] EXCEPT !.id = ""]]

\* The trace that a recorder of its own would have of an execution.
TraceOf(id) == [i \in DOMAIN told[id] |-> Record(i, told[id][i])]

\* DiffTrace finds the first point at which two executions took different
\* ways: up to there their stories agree, there they do not or one has ended.
\* It reports equivalence of exactly the traces that tell the same story, and
\* exchanging the sides exchanges the answer.
DiffIsExact ==
  \A l, r \in Executions :
    up /\ at = 0 /\ l # r /\ told[l] # <<>> /\ told[r] # <<>> =>
      LET diff == DiffTrace(TraceOf(l), TraceOf(r))
          back == DiffTrace(TraceOf(r), TraceOf(l))
          common == SubSeq(Story(l), 1, diff.first - 1)
      IN /\ diff.ok
         /\ diff.equivalent <=> Story(l) = Story(r)
         /\ ~diff.equivalent =>
              /\ IsPrefix(common, Story(l)) /\ IsPrefix(common, Story(r))
              /\ \/ diff.first > Min({Len(Story(l)), Len(Story(r))})
                 \/ Story(l)[diff.first] # Story(r)[diff.first]
         /\ back.first = diff.first
         /\ back.attemptDelta = -diff.attemptDelta
         /\ back.toolDelta = -diff.toolDelta
=============================================================================
