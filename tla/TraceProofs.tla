----------------------------- MODULE TraceProofs -----------------------------
(***************************************************************************)
(* Proofs about the trace of any executions, in any group of observers,    *)
(* of any length: what the recorder acknowledges is kept, what can be read *)
(* happened, what the runtime emits can be read, and two traces differ     *)
(* first where DiffTrace says.                                             *)
(***************************************************************************)
EXTENDS Trace, FiniteSetTheorems, WellFoundedInduction, TLAPS

-----------------------------------------------------------------------------
(* Events.                                                                 *)

EventTypes ==
  {"execution_started", "model_started", "model_completed", "tool_started",
   "tool_completed", "execution_completed", "execution_failed", "execution_cancelled"}

EventStatuses ==
  {"created", "running_model", "running_tool", "completed", "failed", "cancelled"}

\* What classifyTraceError makes of the errors of the runtime.
Codes ==
  {"", "model_timeout", "model_provider_http_error", "context_canceled",
   "invalid_model_decision", "tool_timeout", "step_limit_exceeded"}

ToolNames == Tools \cup {""}

\* Events that a reader accepts one by one.
Events ==
  {e \in [type : EventTypes, status : EventStatuses, id : Executions, attempt : Nat,
          tool : ToolNames, code : Codes, http : Nat] :
     /\ validTraceEventStatus(e.type, e.status)
     /\ e.http # 0 => e.code = "model_provider_http_error"}

EventsOf(id) == {e \in Events : e.id = id}

\* An event has the status of its type (validTraceEventStatus).
LEMMA StatusFits ==
  ASSUME NEW type \in EventTypes
  PROVE  /\ validTraceEventStatus(type, EventStatus(type))
         /\ EventStatus(type) \in EventStatuses
<1>1. CASE type = "execution_started"
  <2>1. EventStatus(type) = "created"
    BY <1>1, Zenon DEF EventStatus
  <2> QED
    BY <1>1, <2>1 DEF validTraceEventStatus, EventStatuses
<1>2. CASE type \in {"model_started", "model_completed"}
  <2>1. EventStatus(type) = "running_model"
    BY <1>2, Zenon DEF EventStatus
  <2> QED
    BY <1>2, <2>1 DEF validTraceEventStatus, EventStatuses
<1>3. CASE type \in {"tool_started", "tool_completed"}
  <2>1. EventStatus(type) = "running_tool"
    BY <1>3, Zenon DEF EventStatus
  <2> QED
    BY <1>3, <2>1 DEF validTraceEventStatus, EventStatuses
<1>4. CASE type = "execution_completed"
  <2>1. EventStatus(type) = "completed"
    BY <1>4, Zenon DEF EventStatus
  <2> QED
    BY <1>4, <2>1 DEF validTraceEventStatus, EventStatuses
<1>5. CASE type = "execution_failed"
  <2>1. EventStatus(type) = "failed"
    BY <1>5, Zenon DEF EventStatus
  <2> QED
    BY <1>5, <2>1 DEF validTraceEventStatus, EventStatuses
<1>6. CASE type = "execution_cancelled"
  <2>1. EventStatus(type) = "cancelled"
    BY <1>6, Zenon DEF EventStatus
  <2> QED
    BY <1>6, <2>1 DEF validTraceEventStatus, EventStatuses
<1> QED
  BY <1>1, <1>2, <1>3, <1>4, <1>5, <1>6 DEF EventTypes

\* What the runtime makes is an event.
LEMMA EventType ==
  ASSUME NEW type \in EventTypes, NEW id \in Executions, NEW attempt \in Nat,
         NEW tool \in ToolNames, NEW code \in Codes, NEW http \in Nat,
         http # 0 => code = "model_provider_http_error"
  PROVE  Event(type, id, attempt, tool, code, http) \in EventsOf(id)
<1>1. PICK status \in EventStatuses : /\ status = EventStatus(type)
                               /\ validTraceEventStatus(type, status)
  BY StatusFits
<1>2. Event(type, id, attempt, tool, code, http) =
        [type |-> type, status |-> status, id |-> id, attempt |-> attempt,
         tool |-> tool, code |-> code, http |-> http]
  BY <1>1, Zenon DEF Event
<1> DEFINE e == Event(type, id, attempt, tool, code, http)
<1>3. /\ e \in [type : EventTypes, status : EventStatuses, id : Executions, attempt : Nat,
                tool : ToolNames, code : Codes, http : Nat]
      /\ e.type = type /\ e.status = status /\ e.http = http /\ e.code = code /\ e.id = id
  BY <1>1, <1>2
<1> HIDE DEF e
<1>4. e \in Events
  BY <1>1, <1>3 DEF Events
<1> QED
  BY <1>3, <1>4 DEF e, EventsOf

\* Names that occur in events.
LEMMA Names ==
  /\ "execution_started" \in EventTypes /\ "model_started" \in EventTypes
  /\ "model_completed" \in EventTypes /\ "tool_started" \in EventTypes
  /\ "tool_completed" \in EventTypes /\ Terminals \subseteq EventTypes
  /\ "" \in Codes /\ "context_canceled" \in Codes /\ "tool_timeout" \in Codes
  /\ "model_timeout" \in Codes /\ "model_provider_http_error" \in Codes
  /\ "" \in ToolNames /\ Tools \subseteq ToolNames /\ 0 \in Nat /\ 503 \in Nat
<1>1. "" \in ToolNames /\ Tools \subseteq ToolNames
  BY Zenon DEF ToolNames
<1>2. /\ "execution_started" \in EventTypes /\ "model_started" \in EventTypes
      /\ "model_completed" \in EventTypes /\ "tool_started" \in EventTypes
      /\ "tool_completed" \in EventTypes
  BY DEF EventTypes
<1>3. Terminals \subseteq EventTypes
  BY DEF EventTypes, Terminals, Failures
<1>4. /\ "" \in Codes /\ "context_canceled" \in Codes /\ "tool_timeout" \in Codes
      /\ "model_timeout" \in Codes /\ "model_provider_http_error" \in Codes
  BY DEF Codes
<1>5. 0 \in Nat /\ 503 \in Nat
  OBVIOUS
<1> QED
  BY <1>1, <1>2, <1>3, <1>4, <1>5, Zenon

\* An event without an HTTP status.
LEMMA PlainType ==
  ASSUME NEW type \in EventTypes, NEW id \in Executions, NEW attempt \in Nat,
         NEW tool \in ToolNames, NEW code \in Codes
  PROVE  Event(type, id, attempt, tool, code, 0) \in EventsOf(id)
<1>1. 0 \in Nat /\ (0 # 0 => code = "model_provider_http_error")
  OBVIOUS
<1> QED
  BY <1>1, EventType, Zenon

\* Events of one execution.
About(id, S) == S \subseteq EventsOf(id)

\* The terminal events of an execution.
LEMMA EndsType ==
  ASSUME NEW id \in Executions, NEW attempt \in Nat, NEW types \in SUBSET Terminals,
         NEW code \in Codes, NEW http \in Nat,
         http # 0 => code = "model_provider_http_error"
  PROVE  About(id, Ends(id, attempt, types, code, http))
<1> SUFFICES ASSUME NEW e \in Ends(id, attempt, types, code, http)
             PROVE  e \in EventsOf(id)
  BY DEF About
<1>1. PICK type \in types :
        e = Event(type, id, attempt, "",
                  IF type = "execution_cancelled" THEN "context_canceled" ELSE code,
                  IF type = "execution_cancelled" THEN 0 ELSE http)
  BY DEF Ends
<1>2. type \in EventTypes
  BY Names
<1>3. CASE type = "execution_cancelled"
  <2>1. e = Event(type, id, attempt, "", "context_canceled", 0)
    BY <1>1, <1>3
  <2> QED
    BY <1>2, <2>1, PlainType, Names, Zenon
<1>4. CASE type # "execution_cancelled"
  <2>1. e = Event(type, id, attempt, "", code, http)
    BY <1>1, <1>4
  <2> QED
    BY <1>2, <2>1, EventType, Names, Zenon
<1> QED
  BY <1>3, <1>4

\* The model is called for a reserved attempt, or the context has ended.
LEMMA ReservedType ==
  ASSUME NEW id \in Executions, NEW attempt \in Nat
  PROVE  About(id, Reserved(id, attempt))
<1>1. About(id, Ends(id, attempt, {"execution_cancelled"}, "", 0))
  BY EndsType DEF Terminals, Failures, Codes
<1>2. About(id, {Event("model_started", id, attempt, "", "", 0)})
  <2>1. Event("model_started", id, attempt, "", "", 0) \in EventsOf(id)
    BY PlainType, Names, Zenon
  <2> QED
    BY <2>1 DEF About
<1> QED
  BY <1>1, <1>2 DEF Reserved, About

\* Run and Resume open with events of their execution.
LEMMA OpensType ==
  ASSUME NEW id \in Executions, NEW attempts \in Nat, NEW created \in BOOLEAN
  PROVE  About(id, Opens(id, attempts, created))
<1>1. About(id, {Event("execution_started", id, 0, "", "", 0)})
  <2>1. Event("execution_started", id, 0, "", "", 0) \in EventsOf(id)
    BY PlainType, Names, Zenon
  <2> QED
    BY <2>1 DEF About
<1>2. About(id, Reserved(id, attempts + 1))
  BY ReservedType
<1>3. About(id, Ends(id, attempts, Failures, "step_limit_exceeded", 0))
  BY EndsType DEF Terminals, Failures, Codes
<1> QED
  BY <1>1, <1>2, <1>3 DEF Opens, About

\* An event is followed by events of its execution, a terminal one by none.
LEMMA FollowsType ==
  ASSUME NEW e \in Events
  PROVE  About(e.id, Follows(e)) /\ (terminalTraceEvent(e.type) => Follows(e) = {})
<1>1. /\ e.id \in Executions /\ e.attempt \in Nat /\ e.attempt + 1 \in Nat
      /\ e.type \in EventTypes /\ e.tool \in ToolNames /\ e.code \in Codes /\ e.http \in Nat
      /\ e.http # 0 => e.code = "model_provider_http_error"
  BY DEF Events
<1>2. /\ About(e.id, Reserved(e.id, 1)) /\ About(e.id, Reserved(e.id, e.attempt + 1))
      /\ About(e.id, Ends(e.id, 0, {"execution_cancelled"}, "", 0))
      /\ About(e.id, Ends(e.id, e.attempt, {"execution_completed"}, "", 0))
      /\ \A code \in Codes : About(e.id, Ends(e.id, e.attempt, Failures, code, 0))
      /\ About(e.id, Ends(e.id, e.attempt, Failures, e.code, e.http))
  BY <1>1, ReservedType, EndsType DEF Terminals, Failures, Codes
<1>3. CASE e.type = "execution_started"
  <2>1. Follows(e) = Reserved(e.id, 1) \cup Ends(e.id, 0, {"execution_cancelled"}, "", 0)
    BY <1>3, Zenon DEF Follows
  <2> QED
    BY <1>2, <1>3, <2>1 DEF About, terminalTraceEvent, Terminals, Failures
<1>4. CASE e.type = "model_started"
  <2>1. Follows(e) = Completions(e.id, e.attempt)
    BY <1>4, Zenon DEF Follows
  <2>2. About(e.id, Completions(e.id, e.attempt))
    <3>1. PICK id \in Executions, attempt \in Nat : id = e.id /\ attempt = e.attempt
      BY <1>1
    <3>2. 503 # 0 => "model_provider_http_error" = "model_provider_http_error"
      OBVIOUS
    <3>3. Event("model_completed", id, attempt, "", "model_provider_http_error", 503)
            \in EventsOf(id)
      BY <3>2, EventType, Names, Zenon
    <3>4. /\ Event("model_completed", id, attempt, "", "", 0) \in EventsOf(id)
          /\ Event("model_completed", id, attempt, "", "model_timeout", 0) \in EventsOf(id)
      BY PlainType, Names, Zenon
    <3> QED
      BY <3>1, <3>3, <3>4, Zenon DEF Completions, About
  <2> QED
    BY <1>4, <2>1, <2>2 DEF terminalTraceEvent, Terminals, Failures
<1>5. CASE e.type = "model_completed" /\ e.code = ""
  <2> DEFINE calls == {Event("tool_started", e.id, e.attempt, tool, "", 0) : tool \in Tools}
  <2>1. Follows(e) = calls \cup Ends(e.id, e.attempt, {"execution_completed"}, "", 0)
                       \cup Ends(e.id, e.attempt, Failures, "invalid_model_decision", 0)
    BY <1>5, Zenon DEF Follows
  <2>2. About(e.id, calls)
    <3>1. PICK id \in Executions, attempt \in Nat : id = e.id /\ attempt = e.attempt
      BY <1>1
    <3>2. \A tool \in Tools :
            Event("tool_started", id, attempt, tool, "", 0) \in EventsOf(id)
      BY PlainType, Names, Zenon
    <3> QED
      BY <3>1, <3>2, Zenon DEF About
  <2> QED
    BY <1>2, <1>5, <2>1, <2>2 DEF About, terminalTraceEvent, Terminals, Failures, Codes
<1>6. CASE e.type = "model_completed" /\ e.code # ""
  <2>1. Follows(e) = Reserved(e.id, e.attempt + 1)
                       \cup Ends(e.id, e.attempt, Failures, e.code, e.http)
    BY <1>6, Zenon DEF Follows
  <2> QED
    BY <1>2, <1>6, <2>1 DEF About, terminalTraceEvent, Terminals, Failures
<1>7. CASE e.type = "tool_started"
  <2> DEFINE results == {Event("tool_completed", e.id, e.attempt, e.tool, code, 0) :
                           code \in {"", "tool_timeout"}}
  <2>1. Follows(e) = results
    BY <1>7, Zenon DEF Follows
  <2>2. About(e.id, results)
    <3>1. PICK id \in Executions, attempt \in Nat, tool \in ToolNames :
            id = e.id /\ attempt = e.attempt /\ tool = e.tool
      BY <1>1
    <3>2. /\ Event("tool_completed", id, attempt, tool, "", 0) \in EventsOf(id)
          /\ Event("tool_completed", id, attempt, tool, "tool_timeout", 0) \in EventsOf(id)
      BY PlainType, Names, Zenon
    <3> QED
      BY <3>1, <3>2, Zenon DEF About
  <2> QED
    BY <1>7, <2>1, <2>2 DEF terminalTraceEvent, Terminals, Failures
<1>8. CASE e.type = "tool_completed" /\ e.code = ""
  <2>1. Follows(e) = Reserved(e.id, e.attempt + 1)
                       \cup Ends(e.id, e.attempt, Failures, "step_limit_exceeded", 0)
    BY <1>8, Zenon DEF Follows
  <2> QED
    BY <1>2, <1>8, <2>1 DEF About, terminalTraceEvent, Terminals, Failures, Codes
<1>9. CASE e.type = "tool_completed" /\ e.code # ""
  <2>1. Follows(e) = Ends(e.id, e.attempt, Failures, e.code, 0)
    BY <1>9, Zenon DEF Follows
  <2> QED
    BY <1>1, <1>2, <1>9, <2>1 DEF About, terminalTraceEvent, Terminals, Failures
<1>10. CASE e.type \in Terminals
  <2>1. Follows(e) = {}
    BY <1>10, Zenon DEF Follows, Terminals, Failures
  <2> QED
    BY <2>1 DEF About
<1> QED
  BY <1>1, <1>3, <1>4, <1>5, <1>6, <1>7, <1>8, <1>9, <1>10
  DEF EventTypes, Terminals, Failures

-----------------------------------------------------------------------------
(* The inductive invariant.                                                *)

Position == CHOOSE i \in 1..Len(Group) : Group[i] = Recorder

\* The recorder's turn with the newest event is still to come, or not over.
Awaits == at # 0 /\ at <= Position

Typed ==
  /\ at \in 0..Len(Group)
  /\ recorder \in [sequence : Nat, err : BOOLEAN, closed : BOOLEAN]
  /\ writing \in BOOLEAN /\ up \in BOOLEAN
  /\ options \subseteq Events /\ emitted \in Seq(Events)
  /\ told \in [Executions -> Seq(Events)]
  /\ file \in Seq([sequence : Nat, event : Events, whole : BOOLEAN]) /\ synced \in Nat

\* The file has the events in their order, the acknowledged ones whole and synced.
Recorded ==
  /\ recorder.sequence <= synced /\ synced <= Len(file)
  /\ Len(file) <= recorder.sequence + 1 /\ Len(file) <= Len(emitted)
  /\ \A i \in 1..Len(file) :
       /\ file[i].sequence = i /\ file[i].event = emitted[i]
       /\ i <= recorder.sequence => file[i].whole

\* A recorder that is open and has not failed has missed no event.
KeepsUp ==
  /\ writing => at = Position /\ ~recorder.err /\ ~recorder.closed
  /\ up /\ writing => Len(file) = recorder.sequence + 1 /\ file[Len(file)].whole
  /\ up /\ ~recorder.err /\ ~recorder.closed =>
       /\ ~writing => Len(file) = recorder.sequence
       /\ Len(emitted) = recorder.sequence + (IF Awaits THEN 1 ELSE 0)

Ended(id) == \E i \in DOMAIN told[id] : terminalTraceEvent(told[id][i].type)

\* What an execution did ends with its terminal event, if it has one.
TerminalLast ==
  /\ \A id \in Executions : \A i \in DOMAIN told[id] :
       /\ told[id][i].id = id
       /\ terminalTraceEvent(told[id][i].type) => i = Len(told[id])
  /\ \A e \in options : ~Ended(e.id)

\* The same of all events; and an execution that has been alone so far, or was
\* until it ended, has the events up to there.
Ordered ==
  /\ \A i \in DOMAIN emitted : terminalTraceEvent(emitted[i].type) =>
       /\ Ended(emitted[i].id)
       /\ \A j \in DOMAIN emitted : j > i => emitted[j].id # emitted[i].id
  /\ \A id \in Executions, n \in 0..Len(emitted) :
       /\ \A i \in 1..n : emitted[i].id = id
       /\ \A i \in (n + 1)..Len(emitted) : emitted[i].id # id
       => told[id] = SubSeq(emitted, 1, n)

Inv == Typed /\ Recorded /\ KeepsUp /\ TerminalLast /\ Ordered

-----------------------------------------------------------------------------
(* Delivery.                                                               *)

\* The recorder has one place in the group.
LEMMA PositionIs ==
  /\ Len(Group) \in Nat /\ Position \in 1..Len(Group) /\ Group[Position] = Recorder
  /\ \A i \in 1..Len(Group) : Group[i] = Recorder => i = Position
<1>1. Len(Group) \in Nat /\ DOMAIN Group = 1..Len(Group)
  BY GroupAssumption
<1>2. \E i \in 1..Len(Group) : Group[i] = Recorder
  BY <1>1, GroupAssumption DEF Observers, ToSet
<1>3. Position \in 1..Len(Group) /\ Group[Position] = Recorder
  BY <1>2, Zenon DEF Position
<1> QED
  BY <1>1, <1>3, GroupAssumption DEF IsInjective

\* The numbers in the state.
LEMMA Numbers ==
  ASSUME Typed
  PROVE  /\ at \in Nat /\ at <= Len(Group) /\ Len(Group) \in Nat
         /\ recorder.sequence \in Nat /\ recorder.err \in BOOLEAN
         /\ recorder.closed \in BOOLEAN
         /\ Len(file) \in Nat /\ Len(emitted) \in Nat /\ synced \in Nat
         /\ DOMAIN file = 1..Len(file) /\ DOMAIN emitted = 1..Len(emitted)
BY PositionIs DEF Typed

\* Whose turn it is.
LEMMA TurnIs ==
  ASSUME Typed, NEW o, Turn(o)
  PROVE  up /\ at # 0 /\ (o = Recorder <=> at = Position)
<1>1. at \in 1..Len(Group) /\ up /\ Group[at] = o
  BY Numbers DEF Turn
<1> QED
  BY <1>1, PositionIs

\* The group goes on to the next observer, past the recorder after its turn.
LEMMA DeliveredTo ==
  ASSUME Typed, Delivered, at # 0
  PROVE  /\ at' \in 0..Len(Group)
         /\ at = Position => ~Awaits'
         /\ at # Position => (Awaits' <=> Awaits)
<1>1. /\ at \in Nat /\ at <= Len(Group) /\ Len(Group) \in Nat
      /\ Position \in Nat /\ Position > 0 /\ Position <= Len(Group)
  BY Numbers, PositionIs
<1>2. at' = IF at = Len(Group) THEN 0 ELSE at + 1
  BY DEF Delivered
<1>3. Position' = Position
  BY DEF Position
<1> QED
  BY <1>1, <1>2, <1>3 DEF Awaits

\* The order of events is a matter of the events only.
LEMMA OrderedKept ==
  ASSUME Inv, UNCHANGED <<emitted, told>>
  PROVE  Ordered' /\ \A id : Ended(id)' <=> Ended(id)
<1>1. \A id : Ended(id)' <=> Ended(id)
  BY DEF Ended
<1>2. Ordered'
  BY <1>1 DEF Inv, Ordered
<1> QED
  BY <1>1, <1>2

\* Delivery changes nothing of what the executions did.
LEMMA ExecutionKept ==
  ASSUME Inv, UNCHANGED execution
  PROVE  TerminalLast' /\ Ordered'
<1>1. UNCHANGED <<options, emitted, told>>
  BY DEF execution
<1>2. Ordered' /\ \A id : Ended(id)' <=> Ended(id)
  BY <1>1, OrderedKept
<1>3. TerminalLast'
  BY <1>1, <1>2 DEF Inv, TerminalLast
<1> QED
  BY <1>2, <1>3

\* Another observer returns or panics: the recorder gets its turn all the same.
LEMMA ObserverInv ==
  ASSUME Inv, NEW o \in Observers, ObserverReturns(o) \/ ObserverPanics(o)
  PROVE  Inv'
<1>1. /\ Turn(o) /\ o # Recorder /\ Delivered
      /\ UNCHANGED <<execution, recorder, writing, file, synced, up>>
  BY DEF ObserverReturns, ObserverPanics, disk
<1>2. Typed /\ at # 0 /\ at # Position /\ Position' = Position
  BY <1>1, TurnIs DEF Inv, Position
<1>3. at' \in 0..Len(Group) /\ (Awaits' <=> Awaits)
  BY <1>1, <1>2, DeliveredTo
<1>4. Typed' /\ Recorded'
  BY <1>1, <1>3 DEF Inv, Typed, Recorded, execution
<1>5. ~writing /\ KeepsUp'
  BY <1>1, <1>2, <1>3 DEF Inv, KeepsUp, execution
<1> QED
  BY <1>1, <1>4, <1>5, ExecutionKept DEF Inv

\* A closed or failed recorder lets the event pass.
LEMMA IgnoresInv == ASSUME Inv, OnEventIgnores PROVE Inv'
<1>1. /\ Turn(Recorder) /\ ~writing /\ ~Accepting /\ Delivered
      /\ UNCHANGED <<execution, recorder, writing, file, synced, up>>
  BY DEF OnEventIgnores, disk
<1>2. Typed /\ at # 0 /\ (recorder.closed \/ recorder.err)
  BY <1>1, TurnIs DEF Inv, Accepting
<1>3. at' \in 0..Len(Group)
  BY <1>1, <1>2, DeliveredTo
<1>4. Typed' /\ Recorded'
  BY <1>1, <1>3 DEF Inv, Typed, Recorded, execution
<1>5. KeepsUp'
  BY <1>1, <1>2 DEF KeepsUp
<1> QED
  BY <1>1, <1>4, <1>5, ExecutionKept DEF Inv

\* The record that OnEvent writes is that of the newest event, in its place.
LEMMA AcceptingIs ==
  ASSUME Inv, Accepting
  PROVE  /\ up /\ ~writing /\ at = Position /\ at # 0 /\ ~recorder.err /\ ~recorder.closed
         /\ Len(file) = recorder.sequence /\ synced = recorder.sequence
         /\ Len(emitted) = recorder.sequence + 1
         /\ NextRecord = Record(Len(emitted), emitted[Len(emitted)])
         /\ emitted[Len(emitted)] \in Events
<1>1. /\ Typed /\ ~writing /\ up /\ at = Position /\ at # 0
      /\ ~recorder.err /\ ~recorder.closed
  BY TurnIs DEF Inv, Accepting
<1>2. Awaits
  BY <1>1, PositionIs DEF Awaits
<1>3. Len(file) = recorder.sequence /\ Len(emitted) = recorder.sequence + 1
  BY <1>1, <1>2 DEF Inv, KeepsUp
<1>4. synced = recorder.sequence
  BY <1>1, <1>3, Numbers DEF Inv, Recorded
<1>5. emitted[Len(emitted)] \in Events
  BY <1>1, <1>3, Numbers DEF Typed
<1> QED
  BY <1>1, <1>3, <1>4, <1>5 DEF NextRecord, Last

Records == [sequence : Nat, event : Events, whole : BOOLEAN]

\* The file with one more record, whole or not.
LEMMA Appended ==
  ASSUME Inv, Accepting, NEW r \in Records, file' = Append(file, r),
         r.sequence = Len(emitted), r.event = emitted[Len(emitted)],
         UNCHANGED <<emitted, synced, recorder.sequence>>
  PROVE  /\ file' \in Seq(Records) /\ Len(file') = recorder.sequence + 1
         /\ file'[Len(file')] = r /\ Recorded'
<1>1. /\ Typed /\ Recorded /\ Len(file) = recorder.sequence
      /\ Len(emitted) = recorder.sequence + 1
  BY AcceptingIs DEF Inv
<1>2. file \in Seq(Records)
  BY <1>1 DEF Typed, Records
<1>3. /\ file' \in Seq(Records) /\ Len(file') = Len(file) + 1
      /\ \A i \in 1..Len(file) : file'[i] = file[i]
      /\ file'[Len(file) + 1] = r
  BY <1>2
<1>4. ASSUME NEW i \in 1..Len(file')
      PROVE  /\ file'[i].sequence = i /\ file'[i].event = emitted[i]
             /\ i <= recorder.sequence => file'[i].whole
  <2>1. CASE i \in 1..Len(file)
    BY <1>1, <1>3, <2>1 DEF Recorded
  <2>2. CASE i = Len(file) + 1
    BY <1>1, <1>3, <2>2, Numbers
  <2> QED
    BY <1>1, <1>3, <2>1, <2>2, Numbers
<1>5. Recorded'
  BY <1>1, <1>3, <1>4, Numbers DEF Recorded
<1> QED
  BY <1>1, <1>3, <1>5

\* OnEvent has written: the record is in the file and not yet acknowledged.
LEMMA WritesInv == ASSUME Inv, OnEventWrites PROVE Inv'
<1>1. /\ Accepting /\ file' = Append(file, NextRecord) /\ writing' = TRUE
      /\ UNCHANGED <<execution, at, recorder, synced, up>>
  BY DEF OnEventWrites
<1>2. PICK r : r = NextRecord
  OBVIOUS
<1>3. /\ r \in Records /\ r.sequence = Len(emitted) /\ r.event = emitted[Len(emitted)]
      /\ r.whole
  <2>1. /\ r = Record(Len(emitted), emitted[Len(emitted)])
        /\ emitted[Len(emitted)] \in Events /\ Len(emitted) \in Nat
    BY <1>1, <1>2, AcceptingIs, Numbers DEF Inv
  <2>2. r = [sequence |-> Len(emitted), event |-> emitted[Len(emitted)], whole |-> TRUE]
    BY <2>1 DEF Record
  <2> QED
    BY <2>1, <2>2 DEF Records
<1>4. UNCHANGED <<emitted, synced, recorder.sequence, options, told>>
  BY <1>1 DEF execution
<1>5. /\ file' \in Seq(Records) /\ Len(file') = recorder.sequence + 1
      /\ file'[Len(file')] = r /\ Recorded'
  BY <1>1, <1>2, <1>3, <1>4, Appended
<1>6. Typed'
  BY <1>1, <1>4, <1>5 DEF Inv, Typed, Records
<1>7. KeepsUp'
  <2>1. /\ up /\ at = Position /\ ~recorder.err /\ ~recorder.closed
        /\ Len(emitted) = recorder.sequence + 1 /\ Position' = Position
    BY <1>1, AcceptingIs DEF Position
  <2>2. Awaits'
    BY <1>1, <2>1, PositionIs DEF Awaits
  <2> QED
    BY <1>1, <1>3, <1>4, <1>5, <2>1, <2>2 DEF KeepsUp
<1> QED
  BY <1>1, <1>5, <1>6, <1>7, ExecutionKept DEF Inv

\* A failed recorder accepts nothing more, so a torn record stays the last.
LEMMA WriteFailsInv == ASSUME Inv, OnEventWriteFails PROVE Inv'
<1>1. /\ Accepting /\ Delivered /\ UNCHANGED <<execution, writing, synced, up>>
      /\ recorder' = [recorder EXCEPT !.err = TRUE]
      /\ file' \in {file, Append(file, [NextRecord EXCEPT !.whole = FALSE])}
  BY DEF OnEventWriteFails
<1>2. /\ Typed /\ Recorded /\ ~writing /\ at # 0
  BY <1>1, AcceptingIs DEF Inv
<1>3. at' \in 0..Len(Group)
  BY <1>1, <1>2, DeliveredTo
<1>4. /\ recorder' \in [sequence : Nat, err : BOOLEAN, closed : BOOLEAN]
      /\ recorder'.sequence = recorder.sequence /\ recorder'.err = TRUE
      /\ UNCHANGED <<emitted, options, told>>
  BY <1>1, <1>2 DEF Typed, execution
<1>5. file' \in Seq(Records) /\ Recorded'
  <2>1. CASE file' = file
    BY <1>1, <1>2, <1>4, <2>1 DEF Typed, Records, Recorded
  <2>2. CASE file' = Append(file, [NextRecord EXCEPT !.whole = FALSE])
    <3>1. PICK r : r = [NextRecord EXCEPT !.whole = FALSE]
      OBVIOUS
    <3>2. r \in Records /\ r.sequence = Len(emitted) /\ r.event = emitted[Len(emitted)]
      <4>1. NextRecord = Record(Len(emitted), emitted[Len(emitted)])
            /\ emitted[Len(emitted)] \in Events /\ Len(emitted) \in Nat
        BY <1>1, <1>2, AcceptingIs, Numbers
      <4>2. r = [sequence |-> Len(emitted), event |-> emitted[Len(emitted)],
                 whole |-> FALSE]
        BY <3>1, <4>1 DEF Record
      <4> QED
        BY <4>1, <4>2 DEF Records
    <3> QED
      BY <1>1, <1>4, <2>2, <3>1, <3>2, Appended
  <2> QED
    BY <1>1, <2>1, <2>2
<1>6. Typed'
  BY <1>1, <1>2, <1>3, <1>4, <1>5 DEF Typed, Records
<1>7. KeepsUp'
  BY <1>1, <1>2, <1>4 DEF KeepsUp
<1> QED
  BY <1>1, <1>5, <1>6, <1>7, ExecutionKept DEF Inv

\* OnEvent waits between its write and its sync.
LEMMA WritingIs ==
  ASSUME Inv, up, writing
  PROVE  /\ Typed /\ Recorded /\ at = Position /\ at # 0
         /\ ~recorder.err /\ ~recorder.closed
         /\ Len(file) = recorder.sequence + 1 /\ Len(emitted) = Len(file)
         /\ file[Len(file)].whole
<1>1. Typed /\ Recorded /\ at = Position /\ ~recorder.err /\ ~recorder.closed
  BY DEF Inv, KeepsUp
<1>2. at # 0 /\ Awaits
  BY <1>1, PositionIs DEF Awaits
<1> QED
  BY <1>1, <1>2 DEF Inv, KeepsUp

\* The record that is acknowledged is whole, synced and in its place.
LEMMA SyncsInv == ASSUME Inv, OnEventSyncs PROVE Inv'
<1>1. /\ up /\ writing /\ synced' = Len(file) /\ writing' = FALSE /\ Delivered
      /\ recorder' = [recorder EXCEPT !.sequence = @ + 1]
      /\ UNCHANGED <<execution, file, up>>
  BY DEF OnEventSyncs
<1>2. /\ Typed /\ Recorded /\ at = Position /\ at # 0 /\ ~recorder.err /\ ~recorder.closed
      /\ Len(file) = recorder.sequence + 1 /\ Len(emitted) = Len(file)
      /\ file[Len(file)].whole
  BY <1>1, WritingIs
<1>3. at' \in 0..Len(Group) /\ ~Awaits'
  BY <1>1, <1>2, DeliveredTo
<1>4. /\ recorder' \in [sequence : Nat, err : BOOLEAN, closed : BOOLEAN]
      /\ recorder'.sequence = recorder.sequence + 1
      /\ UNCHANGED <<emitted, options, told>>
  <2>1. recorder.sequence + 1 \in Nat
    BY <1>2, Numbers
  <2>2. recorder \in [sequence : Nat, err : BOOLEAN, closed : BOOLEAN]
    BY <1>2 DEF Typed
  <2>3. /\ recorder' \in [sequence : Nat, err : BOOLEAN, closed : BOOLEAN]
        /\ recorder'.sequence = recorder.sequence + 1
        /\ recorder'.err = recorder.err /\ recorder'.closed = recorder.closed
    BY <1>1, <2>1, <2>2
  <2> QED
    BY <1>1, <2>3 DEF execution
<1>5. Typed'
  BY <1>1, <1>2, <1>3, <1>4, Numbers DEF Typed
<1>6. Recorded'
  BY <1>1, <1>2, <1>4, Numbers DEF Recorded
<1>7. KeepsUp'
  BY <1>1, <1>2, <1>3, <1>4, Numbers DEF KeepsUp
<1> QED
  BY <1>1, <1>5, <1>6, <1>7, ExecutionKept DEF Inv

\* After a failed sync the record may be there, but is not acknowledged.
LEMMA SyncFailsInv == ASSUME Inv, OnEventSyncFails PROVE Inv'
<1>1. /\ up /\ writing /\ writing' = FALSE /\ Delivered
      /\ recorder' = [recorder EXCEPT !.err = TRUE]
      /\ UNCHANGED <<execution, file, synced, up>>
  BY DEF OnEventSyncFails, disk
<1>2. Typed /\ Recorded /\ at # 0
  BY <1>1, WritingIs
<1>3. at' \in 0..Len(Group)
  BY <1>1, <1>2, DeliveredTo
<1>4. /\ recorder' \in [sequence : Nat, err : BOOLEAN, closed : BOOLEAN]
      /\ recorder'.sequence = recorder.sequence /\ recorder'.err = TRUE
      /\ UNCHANGED <<emitted, options, told>>
  BY <1>1, <1>2 DEF Typed, execution
<1>5. Typed'
  BY <1>1, <1>2, <1>3, <1>4 DEF Typed
<1>6. Recorded'
  BY <1>1, <1>2, <1>4 DEF Recorded
<1>7. KeepsUp'
  BY <1>1, <1>4 DEF KeepsUp
<1> QED
  BY <1>1, <1>5, <1>6, <1>7, ExecutionKept DEF Inv

\* Close syncs what is there; whether it succeeds or not, no event is recorded
\* any more.
LEMMA CloseInv == ASSUME Inv, Close PROVE Inv'
<1>1. /\ up /\ ~writing /\ synced' \in {synced, Len(file)}
      /\ \/ recorder' = [recorder EXCEPT !.closed = TRUE]
         \/ recorder' = [recorder EXCEPT !.closed = TRUE, !.err = TRUE]
      /\ UNCHANGED <<execution, at, writing, file, up>>
  BY DEF Close
<1>2. Typed /\ Recorded
  BY DEF Inv
<1>3. /\ recorder' \in [sequence : Nat, err : BOOLEAN, closed : BOOLEAN]
      /\ recorder'.sequence = recorder.sequence /\ recorder'.closed = TRUE
      /\ UNCHANGED <<emitted, options, told>>
  BY <1>1, <1>2 DEF Typed, execution
<1>4. Typed'
  BY <1>1, <1>2, <1>3, Numbers DEF Typed
<1>5. Recorded'
  BY <1>1, <1>2, <1>3, Numbers DEF Recorded
<1>6. KeepsUp'
  BY <1>1, <1>3 DEF KeepsUp
<1> QED
  BY <1>1, <1>4, <1>5, <1>6, ExecutionKept DEF Inv

\* A crash leaves the file.
LEMMA CrashInv == ASSUME Inv, Crash PROVE Inv'
<1>1. up' = FALSE /\ UNCHANGED <<execution, at, recorder, writing, file, synced, Position>>
  BY DEF Crash, disk, Position
<1>2. Typed' /\ Recorded' /\ KeepsUp'
  BY <1>1 DEF Inv, Typed, Recorded, KeepsUp, execution
<1> QED
  BY <1>1, <1>2, ExecutionKept DEF Inv

\* A power loss cuts the file off somewhere after the acknowledged records.
LEMMA PowerLossInv == ASSUME Inv, PowerLoss PROVE Inv'
<1>1. /\ up' = FALSE /\ synced' = Len(file')
      /\ UNCHANGED <<execution, at, recorder, writing, emitted, Position>>
  BY DEF PowerLoss, execution, Position
<1>2. Typed /\ Recorded /\ file \in Seq(Records)
  BY DEF Inv, Typed, Records
<1>3. PICK n \in synced..Len(file) :
        \/ file' = SubSeq(file, 1, n)
        \/ /\ n < Len(file)
           /\ file' = Append(SubSeq(file, 1, n), [file[n + 1] EXCEPT !.whole = FALSE])
  BY DEF PowerLoss
<1>4. n \in Nat /\ n <= Len(file) /\ synced <= n /\ recorder.sequence <= n
  BY <1>2, Numbers DEF Recorded
<1>5. /\ SubSeq(file, 1, n) \in Seq(Records) /\ Len(SubSeq(file, 1, n)) = n
      /\ \A i \in 1..n : SubSeq(file, 1, n)[i] = file[i]
  BY <1>2, <1>4, Numbers
<1> DEFINE Kept == /\ file' \in Seq(Records)
                   /\ Len(file') \in Nat /\ n <= Len(file') /\ Len(file') <= Len(file)
                   /\ \A i \in 1..Len(file') :
                        /\ file'[i].sequence = file[i].sequence
                        /\ file'[i].event = file[i].event
                        /\ i <= n => file'[i] = file[i]
<1>6. ASSUME file' = SubSeq(file, 1, n) PROVE Kept
  BY <1>4, <1>5, <1>6
<1>7. ASSUME n < Len(file),
             file' = Append(SubSeq(file, 1, n), [file[n + 1] EXCEPT !.whole = FALSE])
      PROVE  Kept
  <2>1. PICK r : r = [file[n + 1] EXCEPT !.whole = FALSE]
    OBVIOUS
  <2>2. file[n + 1] \in Records
    BY <1>2, <1>4, <1>7, Numbers
  <2>3. r \in Records /\ r.sequence = file[n + 1].sequence /\ r.event = file[n + 1].event
    BY <2>1, <2>2 DEF Records
  <2>4. PICK cut \in Seq(Records) : cut = SubSeq(file, 1, n)
    BY <1>5
  <2>5. /\ file' = Append(cut, r) /\ Len(cut) = n /\ \A i \in 1..n : cut[i] = file[i]
    BY <1>5, <1>7, <2>1, <2>4
  <2>6. /\ file' \in Seq(Records) /\ Len(file') = n + 1
        /\ \A i \in 1..n : file'[i] = file[i]
        /\ file'[n + 1] = r
    BY <1>4, <2>3, <2>4, <2>5
  <2>7. Len(file) \in Nat /\ n + 1 <= Len(file)
    BY <1>2, <1>4, <1>7, Numbers
  <2>8. ASSUME NEW i \in 1..Len(file')
        PROVE  /\ file'[i].sequence = file[i].sequence
               /\ file'[i].event = file[i].event
               /\ i <= n => file'[i] = file[i]
    <3>1. CASE i \in 1..n
      BY <2>6, <3>1
    <3>2. CASE i = n + 1
      BY <1>4, <2>3, <2>6, <3>2
    <3> QED
      BY <1>4, <2>6, <3>1, <3>2
  <2> QED
    BY <1>4, <2>6, <2>7, <2>8
<1>8. Kept
  BY <1>3, <1>6, <1>7
<1>9. Typed'
  BY <1>1, <1>2, <1>8 DEF Typed, Records, execution
<1>10. Recorded'
  <2>1. ASSUME NEW i \in 1..Len(file')
        PROVE  /\ file'[i].sequence = i /\ file'[i].event = emitted[i]
               /\ i <= recorder.sequence => file'[i].whole
    <3>1. /\ i \in 1..Len(file) /\ file[i].sequence = i /\ file[i].event = emitted[i]
          /\ i <= recorder.sequence => file[i].whole /\ i <= n
      BY <1>2, <1>4, <1>8, Numbers DEF Recorded
    <3> QED
      BY <1>8, <3>1
  <2> QED
    BY <1>1, <1>2, <1>4, <1>8, <2>1, Numbers DEF Recorded
<1>11. KeepsUp'
  BY <1>1 DEF Inv, KeepsUp
<1> QED
  BY <1>1, <1>9, <1>10, <1>11, ExecutionKept DEF Inv

-----------------------------------------------------------------------------
(* The runtime.                                                            *)

\* An execution is started or resumed only while it has not ended.
LEMMA StartInv == ASSUME Inv, NEW id \in Executions, Start(id) PROVE Inv'
<1>1. /\ UNCHANGED <<emitted, told, at, recorder, writing, file, synced, up, Position>>
      /\ Typed /\ TerminalLast /\ told[id] \in Seq(Events)
  BY DEF Start, disk, Inv, Position, Typed
<1>2. /\ ~Ended(id)
      /\ \E n \in Nat, created \in BOOLEAN : options' = Opens(id, n, created)
  <2>1. ASSUME told[id] = <<>>, options' = Opens(id, 0, TRUE)
        PROVE  /\ ~Ended(id)
               /\ \E n \in Nat, created \in BOOLEAN : options' = Opens(id, n, created)
    <3>1. ~Ended(id)
      BY <2>1 DEF Ended
    <3> QED
      BY <2>1, <3>1
  <2>2. ASSUME told[id] # <<>>, ~terminalTraceEvent(Last(told[id]).type),
               NEW more \in {0, 1},
               options' = Opens(id, Last(told[id]).attempt + more, FALSE)
        PROVE  /\ ~Ended(id)
               /\ \E n \in Nat, created \in BOOLEAN : options' = Opens(id, n, created)
    <3>1. Last(told[id]) \in Events
      BY <1>1, <2>2 DEF Last
    <3>2. Last(told[id]).attempt \in Nat
      BY <3>1 DEF Events
    <3>3. ~Ended(id)
      BY <1>1, <2>2 DEF Ended, TerminalLast, Last
    <3>4. Last(told[id]).attempt + more \in Nat
      BY <3>2
    <3> QED
      BY <2>2, <3>3, <3>4
  <2> QED
    BY <2>1, <2>2 DEF Start
<1>3. options' \subseteq EventsOf(id)
  BY <1>2, OpensType DEF About
<1>4. options' \subseteq Events /\ \A e \in options' : e.id = id
  BY <1>3 DEF EventsOf
<1>5. Typed' /\ Recorded' /\ KeepsUp'
  BY <1>1, <1>4 DEF Inv, Typed, Recorded, KeepsUp, Awaits
<1>6. Ordered' /\ \A v : Ended(v)' <=> Ended(v)
  BY <1>1, OrderedKept
<1>7. TerminalLast'
  BY <1>1, <1>2, <1>4, <1>6 DEF TerminalLast
<1> QED
  BY <1>5, <1>6, <1>7 DEF Inv

\* An invocation that is abandoned emits nothing more.
LEMMA AbandonInv == ASSUME Inv, Abandon PROVE Inv'
<1>1. /\ options' = {}
      /\ UNCHANGED <<emitted, told, at, recorder, writing, file, synced, up, Position>>
  BY DEF Abandon, disk, Position
<1>2. Typed' /\ Recorded' /\ KeepsUp'
  BY <1>1 DEF Inv, Typed, Recorded, KeepsUp, Awaits
<1>3. Ordered' /\ \A v : Ended(v)' <=> Ended(v)
  BY <1>1, OrderedKept
<1>4. TerminalLast'
  BY <1>1, <1>3 DEF Inv, TerminalLast
<1> QED
  BY <1>2, <1>3, <1>4 DEF Inv

\* What an event adds to the histories.
LEMMA EmitAdds ==
  ASSUME Inv, NEW event \in options, Emit(event)
  PROVE  /\ event \in Events /\ event.id \in Executions
         /\ emitted' \in Seq(Events) /\ Len(emitted') = Len(emitted) + 1
         /\ \A i \in 1..Len(emitted) : emitted'[i] = emitted[i]
         /\ emitted'[Len(emitted) + 1] = event
         /\ told' \in [Executions -> Seq(Events)]
         /\ Len(told'[event.id]) = Len(told[event.id]) + 1
         /\ \A i \in 1..Len(told[event.id]) : told'[event.id][i] = told[event.id][i]
         /\ told'[event.id][Len(told[event.id]) + 1] = event
         /\ \A id \in Executions \ {event.id} : told'[id] = told[id]
<1>1. event \in Events /\ emitted \in Seq(Events) /\ told \in [Executions -> Seq(Events)]
  BY DEF Inv, Typed
<1>2. event.id \in Executions
  BY <1>1 DEF Events
<1>3. PICK id \in Executions : id = event.id
  BY <1>2
<1>4. emitted' = Append(emitted, event) /\ told' = [told EXCEPT ![id] = Append(@, event)]
  BY <1>3 DEF Emit
<1>5. told[id] \in Seq(Events) /\ Append(told[id], event) \in Seq(Events)
  BY <1>1
<1>6. told' \in [Executions -> Seq(Events)] /\ told'[id] = Append(told[id], event)
      /\ \A v \in Executions \ {id} : told'[v] = told[v]
  BY <1>1, <1>4, <1>5
<1>7. /\ emitted' \in Seq(Events) /\ Len(emitted') = Len(emitted) + 1
      /\ \A i \in 1..Len(emitted) : emitted'[i] = emitted[i]
      /\ emitted'[Len(emitted) + 1] = event
  BY <1>1, <1>4
<1>8. /\ Len(told'[id]) = Len(told[id]) + 1
      /\ \A i \in 1..Len(told[id]) : told'[id][i] = told[id][i]
      /\ told'[id][Len(told[id]) + 1] = event
  BY <1>1, <1>5, <1>6
<1> QED
  BY <1>1, <1>3, <1>6, <1>7, <1>8

\* An event is emitted when nothing is being delivered, and goes to the group.
LEMMA EmitRecords ==
  ASSUME Inv, NEW event \in options, Emit(event)
  PROVE  Typed' /\ Recorded' /\ KeepsUp'
<1>1. /\ up /\ at = 0 /\ at' = 1 /\ options' = Follows(event)
      /\ UNCHANGED <<recorder, writing, file, synced, up, Position>>
      /\ Typed /\ Recorded /\ KeepsUp
  BY DEF Emit, disk, Inv, Position
<1>2. /\ event \in Events /\ emitted' \in Seq(Events) /\ Len(emitted') = Len(emitted) + 1
      /\ told' \in [Executions -> Seq(Events)]
      /\ \A i \in 1..Len(emitted) : emitted'[i] = emitted[i]
  BY EmitAdds
<1>3. options' \subseteq Events
  BY <1>1, <1>2, FollowsType DEF About, EventsOf
<1>4. Typed'
  BY <1>1, <1>2, <1>3, PositionIs DEF Typed
<1>5. Recorded'
  <2>1. ASSUME NEW i \in 1..Len(file) PROVE emitted'[i] = emitted[i]
    BY <1>1, <1>2, Numbers DEF Recorded
  <2> QED
    BY <1>1, <1>2, <2>1, Numbers DEF Recorded
<1>6. KeepsUp'
  <2>1. ~writing /\ ~Awaits /\ Awaits'
    BY <1>1, PositionIs DEF KeepsUp, Awaits
  <2> QED
    BY <1>1, <1>2, <2>1, Numbers DEF KeepsUp
<1> QED
  BY <1>4, <1>5, <1>6

\* A terminal event is the last of its execution.
LEMMA EmitEnds ==
  ASSUME Inv, NEW event \in options, Emit(event)
  PROVE  /\ TerminalLast'
         /\ ~Ended(event.id)
         /\ \A id \in Executions : Ended(id) => Ended(id)'
         /\ terminalTraceEvent(event.type) => Ended(event.id)'
<1>1. PICK v \in Executions : v = event.id
  BY EmitAdds
<1>2. /\ event \in Events /\ told' \in [Executions -> Seq(Events)]
      /\ Len(told'[v]) = Len(told[v]) + 1
      /\ \A i \in 1..Len(told[v]) : told'[v][i] = told[v][i]
      /\ told'[v][Len(told[v]) + 1] = event
      /\ \A id \in Executions \ {v} : told'[id] = told[id]
  BY <1>1, EmitAdds
<1>3. /\ told[v] \in Seq(Events) /\ Len(told[v]) \in Nat /\ DOMAIN told[v] = 1..Len(told[v])
      /\ DOMAIN told'[v] = 1..(Len(told[v]) + 1)
  BY <1>1, <1>2 DEF Inv, Typed
<1>4. TerminalLast /\ ~Ended(v)
  BY <1>1 DEF Inv, TerminalLast
<1>5. \A i \in 1..Len(told[v]) : told[v][i].id = v /\ ~terminalTraceEvent(told[v][i].type)
  BY <1>3, <1>4 DEF TerminalLast, Ended
<1>6. ASSUME NEW i \in DOMAIN told'[v]
      PROVE  /\ told'[v][i].id = v
             /\ terminalTraceEvent(told'[v][i].type) =>
                  i = Len(told'[v]) /\ terminalTraceEvent(event.type)
  <2>1. CASE i \in 1..Len(told[v])
    BY <1>2, <1>5, <2>1
  <2>2. CASE i = Len(told[v]) + 1
    BY <1>1, <1>2, <2>2
  <2> QED
    BY <1>3, <2>1, <2>2
<1>7. ASSUME NEW id \in Executions, id # v
      PROVE  /\ Ended(id)' <=> Ended(id)
             /\ \A i \in DOMAIN told'[id] :
                  /\ told'[id][i].id = id
                  /\ terminalTraceEvent(told'[id][i].type) => i = Len(told'[id])
  <2>1. told'[id] = told[id]
    BY <1>2, <1>7
  <2> QED
    BY <1>4, <2>1 DEF Ended, TerminalLast
<1>8. Ended(v)' <=> terminalTraceEvent(event.type)
  <2>1. Len(told[v]) + 1 \in DOMAIN told'[v]
    BY <1>3
  <2> QED
    BY <1>2, <1>6, <2>1 DEF Ended
<1>9. ASSUME NEW e \in options' PROVE ~Ended(e.id)'
  <2>1. e \in Follows(event)
    BY DEF Emit
  <2>2. e.id = v /\ ~terminalTraceEvent(event.type)
    BY <1>1, <1>2, <2>1, FollowsType DEF About, EventsOf
  <2> QED
    BY <1>8, <2>2
<1>10. TerminalLast'
  BY <1>6, <1>7, <1>9 DEF TerminalLast
<1> QED
  BY <1>1, <1>4, <1>7, <1>8, <1>10

\* Nothing of an execution follows its end, among all events.
LEMMA EmitOrders ==
  ASSUME Inv, NEW event \in options, Emit(event)
  PROVE  Ordered'
<1>1. PICK v \in Executions : v = event.id
  BY EmitAdds
<1>2. PICK m \in Nat : m = Len(emitted)
  BY Numbers DEF Inv
<1>3. /\ emitted \in Seq(Events) /\ emitted' \in Seq(Events) /\ Len(emitted') = m + 1
      /\ \A i \in 1..m : emitted'[i] = emitted[i]
      /\ emitted'[m + 1] = event
      /\ \A id \in Executions \ {v} : told'[id] = told[id]
      /\ DOMAIN emitted = 1..m /\ DOMAIN emitted' = 1..(m + 1)
  <2>1. emitted \in Seq(Events)
    BY DEF Inv, Typed
  <2>2. /\ emitted' \in Seq(Events) /\ Len(emitted') = m + 1
        /\ \A i \in 1..m : emitted'[i] = emitted[i]
        /\ emitted'[m + 1] = event
    BY <1>2, EmitAdds
  <2>3. \A id \in Executions \ {v} : told'[id] = told[id]
    BY <1>1, EmitAdds
  <2> QED
    BY <1>2, <2>1, <2>2, <2>3
<1>4. Ordered /\ ~Ended(v) /\ told[v] \in Seq(Events)
  BY <1>1, EmitEnds DEF Inv, Typed
<1>5. ASSUME NEW i \in 1..m, terminalTraceEvent(emitted[i].type)
      PROVE  /\ Ended(emitted[i].id) /\ emitted[i].id \in Executions
             /\ \A j \in 1..m : j > i => emitted[j].id # emitted[i].id
  <2>1. emitted[i] \in Events
    BY <1>3
  <2>2. emitted[i].id \in Executions
    BY <2>1 DEF Events
  <2> QED
    BY <1>3, <1>4, <1>5, <2>2 DEF Ordered
<1>6. ASSUME NEW i \in 1..(m + 1), terminalTraceEvent(emitted'[i].type)
      PROVE  /\ Ended(emitted[i].id)'
             /\ \A j \in 1..(m + 1) : j > i => emitted'[j].id # emitted'[i].id
  <2>1. CASE i = m + 1
    <3>1. Ended(v)'
      BY <1>1, <1>3, <1>6, <2>1, EmitEnds
    <3>2. Ended(emitted[i].id)'
      BY <1>1, <1>3, <2>1, <3>1 DEF Ended
    <3> QED
      BY <1>2, <2>1, <3>2
  <2>2. CASE i \in 1..m
    <3>1. PICK id \in Executions : id = emitted[i].id
      BY <1>3, <1>5, <1>6, <2>2
    <3>2. emitted'[i] = emitted[i] /\ terminalTraceEvent(emitted[i].type)
      BY <1>3, <1>6, <2>2
    <3>3. Ended(id) /\ id # v
      BY <1>4, <1>5, <2>2, <3>1, <3>2
    <3>4. Ended(id)'
      BY <3>3, EmitEnds
    <3>5. ASSUME NEW j \in 1..(m + 1), j > i PROVE emitted'[j].id # id
      <4>1. CASE j \in 1..m
        BY <1>3, <1>5, <2>2, <3>1, <3>2, <3>5, <4>1
      <4>2. CASE j = m + 1
        BY <1>1, <1>3, <3>3, <4>2
      <4> QED
        BY <1>2, <4>1, <4>2
    <3>6. Ended(emitted[i].id)'
      BY <3>1, <3>2, <3>4 DEF Ended
    <3> QED
      BY <3>1, <3>2, <3>5, <3>6
  <2> QED
    BY <1>2, <2>1, <2>2
<1>7. ASSUME NEW id \in Executions, NEW n \in 0..(m + 1),
             \A i \in 1..n : emitted'[i].id = id,
             \A i \in (n + 1)..(m + 1) : emitted'[i].id # id
      PROVE  told'[id] = SubSeq(emitted', 1, n)
  <2>1. CASE n = m + 1
    <3>1. id = v
      BY <1>1, <1>2, <1>3, <1>7, <2>1
    <3>2. /\ \A i \in 1..m : emitted[i].id = id
          /\ \A i \in (m + 1)..m : emitted[i].id # id
      BY <1>2, <1>3, <1>7, <2>1
    <3>3. told[id] = SubSeq(emitted, 1, m)
      BY <1>2, <1>4, <3>2 DEF Ordered
    <3>4. told[v] = emitted
      BY <1>2, <1>3, <3>1, <3>3
    <3>5. told'[v] \in Seq(Events)
      BY EmitAdds
    <3>6. Len(told'[v]) = m + 1 /\ \A i \in 1..(m + 1) : told'[v][i] = emitted'[i]
      <4>1. /\ Len(told'[v]) = Len(told[v]) + 1
            /\ \A i \in 1..Len(told[v]) : told'[v][i] = told[v][i]
            /\ told'[v][Len(told[v]) + 1] = event
        BY <1>1, EmitAdds
      <4> QED
        BY <1>2, <1>3, <3>4, <4>1
    <3>7. told'[v] = emitted'
      BY <1>2, <1>3, <3>5, <3>6
    <3> QED
      BY <1>2, <1>3, <2>1, <3>1, <3>7
  <2>2. CASE n \in 0..m
    <3>1. m + 1 \in (n + 1)..(m + 1)
      BY <1>2, <2>2
    <3>2. id # v
      BY <1>1, <1>3, <1>7, <3>1
    <3>3. /\ \A i \in 1..n : emitted[i].id = id
          /\ \A i \in (n + 1)..m : emitted[i].id # id
      BY <1>2, <1>3, <1>7, <2>2
    <3>4. told[id] = SubSeq(emitted, 1, n)
      BY <1>2, <1>4, <2>2, <3>3 DEF Ordered
    <3>5. SubSeq(emitted', 1, n) = SubSeq(emitted, 1, n)
      BY <1>2, <1>3, <2>2
    <3> QED
      BY <1>3, <3>2, <3>4, <3>5
  <2> QED
    BY <1>2, <2>1, <2>2
<1>8. (\A i \in DOMAIN emitted : terminalTraceEvent(emitted[i].type) =>
         /\ Ended(emitted[i].id)
         /\ \A j \in DOMAIN emitted : j > i => emitted[j].id # emitted[i].id)'
  <2> SUFFICES ASSUME NEW i \in 1..(m + 1), terminalTraceEvent(emitted'[i].type)
               PROVE  /\ Ended(emitted[i].id)'
                      /\ \A j \in 1..(m + 1) : j > i => emitted'[j].id # emitted'[i].id
    BY <1>3 DEF Ended
  <2> QED
    BY <1>6
<1>9. \A id \in Executions, n \in 0..Len(emitted') :
        /\ \A i \in 1..n : emitted'[i].id = id
        /\ \A i \in (n + 1)..Len(emitted') : emitted'[i].id # id
        => told'[id] = SubSeq(emitted', 1, n)
  <2>1. Len(emitted') = m + 1
    BY <1>3
  <2> SUFFICES ASSUME NEW id \in Executions, NEW n \in 0..(m + 1),
                      \A i \in 1..n : emitted'[i].id = id,
                      \A i \in (n + 1)..(m + 1) : emitted'[i].id # id
               PROVE  told'[id] = SubSeq(emitted', 1, n)
    BY <2>1
  <2> QED
    BY <1>7
<1> QED
  BY <1>8, <1>9 DEF Ordered

-----------------------------------------------------------------------------
(* The theorems.                                                           *)

\* At first there are no events and no records.
LEMMA InitInv == Init => Inv
<1> SUFFICES ASSUME Init PROVE Inv
  OBVIOUS
<1>1. Typed
  <2>1. /\ <<>> \in Seq(Events)
        /\ file \in Seq([sequence : Nat, event : Events, whole : BOOLEAN])
    BY DEF Init
  <2>2. told \in [Executions -> Seq(Events)]
    BY <2>1 DEF Init
  <2>3. /\ recorder \in [sequence : Nat, err : BOOLEAN, closed : BOOLEAN]
        /\ at \in 0..Len(Group)
    BY PositionIs DEF Init
  <2> QED
    BY <2>1, <2>2, <2>3 DEF Init, Typed
<1>2. Recorded /\ KeepsUp
  BY PositionIs DEF Init, Recorded, KeepsUp, Awaits
<1>3. TerminalLast
  BY DEF Init, TerminalLast, Ended
<1>4. Ordered
  BY DEF Init, Ordered
<1> QED
  BY <1>1, <1>2, <1>3, <1>4 DEF Inv

\* Every step keeps the invariant.
LEMMA NextInv == ASSUME Inv, [Next]_vars PROVE Inv'
<1>1. ASSUME NEW event \in options, Emit(event) PROVE Inv'
  BY <1>1, EmitRecords, EmitEnds, EmitOrders DEF Inv
<1>2. CASE UNCHANGED vars
  <2>1. UNCHANGED <<execution, options, emitted, told, at, recorder, writing, file, synced,
                    up, Position>>
    BY <1>2 DEF vars, execution, disk, Position
  <2>2. Typed' /\ Recorded' /\ KeepsUp'
    BY <2>1 DEF Inv, Typed, Recorded, KeepsUp, Awaits
  <2> QED
    BY <2>1, <2>2, ExecutionKept DEF Inv
<1> QED
  BY <1>1, <1>2, StartInv, AbandonInv, ObserverInv, IgnoresInv, WritesInv, WriteFailsInv,
     SyncsInv, SyncFailsInv, CloseInv, CrashInv, PowerLossInv
  DEF Next

\* The recorder and the runtime keep the invariant in every behaviour.
THEOREM InvHolds == Spec => []Inv
BY InitInv, NextInv, PTL DEF Spec

\* Every record whose OnEvent returned without an error is in the file, whole
\* and in its place, also after power losses (trace.go: Sync before the sequence
\* advances).
THEOREM RecorderKeepsAccepted == Spec => []AcceptedKept
<1>1. Inv => AcceptedKept
  <2> SUFFICES ASSUME Inv PROVE AcceptedKept
    OBVIOUS
  <2>1. Typed /\ Recorded
    BY DEF Inv
  <2>2. ASSUME NEW i \in 1..recorder.sequence PROVE file[i] = Record(i, emitted[i])
    <3>1. i \in 1..Len(file)
      BY <2>1, Numbers DEF Recorded
    <3>2. file[i] \in Records
      <4>1. file \in Seq(Records)
        BY <2>1 DEF Typed, Records
      <4> QED
        BY <3>1, <4>1
    <3>3. file[i].sequence = i /\ file[i].event = emitted[i] /\ file[i].whole
      BY <2>1, <3>1, Numbers DEF Recorded
    <3>4. file[i].whole = TRUE
      BY <3>2, <3>3, Zenon DEF Records
    <3> QED
      BY <3>2, <3>3, <3>4 DEF Record, Records
  <2> QED
    BY <2>1, <2>2, Numbers DEF AcceptedKept, Recorded
<1> QED
  BY <1>1, InvHolds, PTL

\* What InspectTrace says of a trace, field by field.
LEMMA InspectIs ==
  ASSUME NEW records
  PROVE  /\ InspectTrace(records).ok <=>
              /\ records # <<>>
              /\ \A i \in DOMAIN records :
                   /\ validateTraceRecord(records[i], i)
                   /\ records[i].event.id = records[1].event.id
                   /\ terminalTraceEvent(records[i].event.type) => i = Len(records)
         /\ InspectTrace(records).complete <=>
              records # <<>> /\ terminalTraceEvent(Last(records).event.type)
         /\ InspectTrace(records).attempts =
              Max({0} \cup {records[i].event.attempt : i \in DOMAIN records})
         /\ InspectTrace(records).tools =
              Cardinality({i \in DOMAIN records : records[i].event.type = "tool_started"})
BY DEF InspectTrace

\* A record in its place passes the reader's checks (validateTraceRecord).
LEMMA RecordValid ==
  ASSUME NEW event \in Events, NEW i \in Nat, NEW r, r.sequence = i, r.event = event
  PROVE  validateTraceRecord(r, i)
BY DEF validateTraceRecord, Events

\* A trace that can be read is the beginning of what happened, and a complete
\* one is all that its execution did (trace.go, trace_reader.go).
THEOREM ReadTraceIsHistory == Spec => []TraceIsHistory
<1>1. Inv => TraceIsHistory
  <2> SUFFICES ASSUME Inv, ReadTrace(file).ok
               PROVE  /\ Len(file) <= Len(emitted)
                      /\ \A i \in DOMAIN file : file[i].event = emitted[i]
                      /\ InspectTrace(file).ok /\ InspectTrace(file).complete =>
                           told[file[1].event.id] = SubSeq(emitted, 1, Len(file))
    BY DEF TraceIsHistory
  <2>1. Typed /\ Recorded /\ Ordered
    BY DEF Inv
  <2>2. Len(file) <= Len(emitted) /\ \A i \in DOMAIN file : file[i].event = emitted[i]
    BY <2>1, Numbers DEF Recorded
  <2>3. ASSUME InspectTrace(file).ok, InspectTrace(file).complete
        PROVE  told[file[1].event.id] = SubSeq(emitted, 1, Len(file))
    <3>1. PICK n \in Nat : n = Len(file)
      BY <2>1, Numbers
    <3>2. /\ n > 0 /\ n <= Len(emitted)
          /\ \A i \in 1..n : file[i].event = emitted[i] /\ emitted[i].id = emitted[1].id
          /\ terminalTraceEvent(emitted[n].type)
      <4>1. file # <<>> /\ \A i \in DOMAIN file : file[i].event.id = file[1].event.id
        BY <2>3, InspectIs
      <4>2. terminalTraceEvent(file[Len(file)].event.type)
        BY <2>3, InspectIs DEF Last
      <4>3. n > 0 /\ DOMAIN file = 1..n
        BY <2>1, <3>1, <4>1, Numbers DEF Typed
      <4> QED
        BY <2>2, <3>1, <4>1, <4>2, <4>3
    <3>3. PICK id \in Executions : id = emitted[1].id
      <4>1. emitted[1] \in Events
        BY <2>1, <3>2, Numbers DEF Typed
      <4> QED
        BY <4>1 DEF Events
    <3>4. \A i \in (n + 1)..Len(emitted) : emitted[i].id # id
      BY <2>1, <3>2, <3>3, Numbers DEF Ordered
    <3>5. told[id] = SubSeq(emitted, 1, n)
      BY <2>1, <3>2, <3>3, <3>4, Numbers DEF Ordered
    <3> QED
      BY <3>1, <3>2, <3>3, <3>5
  <2> QED
    BY <2>2, <2>3
<1> QED
  BY <1>1, InvHolds, PTL

\* The reader accepts every file of whole records of one execution, also of an
\* interrupted and resumed one (ReadTrace, InspectTrace).
THEOREM ReaderAcceptsRecorder == Spec => []ReaderAccepts
<1>1. Inv => ReaderAccepts
  <2> SUFFICES ASSUME Inv,
                      \A i \in DOMAIN file :
                        file[i].whole /\ file[i].event.id = file[1].event.id
               PROVE  ReadTrace(file).ok /\ (file # <<>> => InspectTrace(file).ok)
    BY DEF ReaderAccepts
  <2>1. Typed /\ Recorded /\ Ordered
    BY DEF Inv
  <2>2. ASSUME NEW i \in DOMAIN file
        PROVE  /\ validateTraceRecord(file[i], i)
               /\ terminalTraceEvent(file[i].event.type) => i = Len(file)
    <3>1. /\ i \in 1..Len(file) /\ i \in Nat /\ i \in 1..Len(emitted)
          /\ file[i].sequence = i /\ file[i].event = emitted[i]
      BY <2>1, Numbers DEF Recorded
    <3>2. emitted[i] \in Events
      BY <2>1, <3>1 DEF Typed
    <3>3. validateTraceRecord(file[i], i)
      BY <3>1, <3>2, RecordValid
    <3>4. ASSUME terminalTraceEvent(file[i].event.type), i # Len(file) PROVE FALSE
      <4>1. i + 1 \in DOMAIN file /\ i + 1 \in DOMAIN emitted /\ i \in DOMAIN emitted
            /\ file[i + 1].event = emitted[i + 1]
        BY <2>1, <3>1, <3>4, Numbers DEF Recorded
      <4>2. emitted[i + 1].id = emitted[i].id
        BY <3>1, <4>1
      <4>3. emitted[i + 1].id # emitted[i].id
        BY <2>1, <3>1, <3>4, <4>1 DEF Ordered
      <4> QED
        BY <4>2, <4>3
    <3> QED
      BY <3>3, <3>4
  <2>3. ReadTrace(file).ok
    BY <2>2 DEF ReadTrace
  <2>4. ASSUME file # <<>> PROVE InspectTrace(file).ok
    BY <2>2, <2>4, InspectIs
  <2> QED
    BY <2>3, <2>4
<1> QED
  BY <1>1, InvHolds, PTL

-----------------------------------------------------------------------------
(* Comparing traces.  The loop of DiffTrace is a recursive function; what  *)
(* it computes is shown by the least index at which it could go wrong.     *)

\* A set of numbers has a least one.
LEMMA LeastNumber ==
  ASSUME NEW S \in SUBSET Nat, S # {}
  PROVE  \E n \in S : \A m \in S : n <= m
<1>1. PICK n \in S : \A m \in S : ~ (<<m, n>> \in OpToRel(<, Nat))
  BY NatLessThanWellFounded, WFMin, Zenon
<1>2. \A m \in S : ~(m < n)
  BY <1>1 DEF OpToRel
<1> QED
  BY <1>2

\* Traces agree at an index.
SameSignature(left, right, i) ==
  traceEventSignature(left[i]) = traceEventSignature(right[i])

\* f is a loop of firstDivergence over what both traces have.
IsScan(f, left, right, shared) ==
  f = [i \in 1..(shared + 1) |->
         IF i > shared THEN 0
         ELSE IF traceEventSignature(left[i]) # traceEventSignature(right[i]) THEN i
         ELSE f[i + 1]]

\* There is one, so that the definition of firstDivergence defines it.
LEMMA ScanExists ==
  ASSUME NEW left, NEW right, NEW shared \in Nat
  PROVE  \E f : IsScan(f, left, right, shared)
<1> DEFINE Differ(i) == {j \in i..shared : ~SameSignature(left, right, j)}
           First(i) == CHOOSE j \in Differ(i) : \A k \in Differ(i) : j <= k
           g == [i \in 1..(shared + 1) |-> IF Differ(i) = {} THEN 0 ELSE First(i)]
<1>1. ASSUME NEW i \in 1..(shared + 1), Differ(i) # {}
      PROVE  First(i) \in Differ(i) /\ \A k \in Differ(i) : First(i) <= k
  <2>1. Differ(i) \in SUBSET Nat
    OBVIOUS
  <2>2. \E j \in Differ(i) : \A k \in Differ(i) : j <= k
    BY <1>1, <2>1, LeastNumber, Zenon
  <2> QED
    BY <2>2, Zenon
<1>2. ASSUME NEW i \in 1..(shared + 1), i > shared PROVE g[i] = 0
  BY <1>2
<1>3. ASSUME NEW i \in 1..(shared + 1), ~(i > shared), ~SameSignature(left, right, i)
      PROVE  g[i] = i
  <2>1. i \in Differ(i)
    BY <1>3
  <2>2. g[i] = First(i)
    BY <2>1
  <2>3. First(i) \in Differ(i) /\ First(i) <= i
    BY <1>1, <2>1
  <2> HIDE DEF First, g
  <2> QED
    BY <2>2, <2>3
<1>4. ASSUME NEW i \in 1..(shared + 1), ~(i > shared), SameSignature(left, right, i)
      PROVE  g[i] = g[i + 1]
  <2>1. i + 1 \in 1..(shared + 1) /\ Differ(i) = Differ(i + 1)
    BY <1>4
  <2> HIDE DEF Differ
  <2>2. First(i) = First(i + 1)
    BY <2>1
  <2> HIDE DEF First
  <2> QED
    BY <2>1, <2>2
<1> HIDE DEF g
<1>5. \A i \in 1..(shared + 1) :
        g[i] = IF i > shared THEN 0
               ELSE IF traceEventSignature(left[i]) # traceEventSignature(right[i]) THEN i
               ELSE g[i + 1]
  BY <1>2, <1>3, <1>4, Zenon DEF SameSignature
<1>6. g = [i \in 1..(shared + 1) |-> g[i]]
  BY DEF g
<1>7. [i \in 1..(shared + 1) |-> g[i]] =
      [i \in 1..(shared + 1) |->
         IF i > shared THEN 0
         ELSE IF traceEventSignature(left[i]) # traceEventSignature(right[i]) THEN i
         ELSE g[i + 1]]
  BY <1>5, Zenon
<1>8. IsScan(g, left, right, shared)
  BY <1>6, <1>7, Zenon DEF IsScan
<1> QED
  BY <1>8, Zenon

\* The loop returns the first difference, or 0 when there is none.
LEMMA Scans ==
  ASSUME NEW left, NEW right, NEW shared \in Nat, NEW f, IsScan(f, left, right, shared)
  PROVE  /\ f[1] = 0 => \A j \in 1..shared : SameSignature(left, right, j)
         /\ f[1] # 0 => /\ f[1] \in 1..shared /\ ~SameSignature(left, right, f[1])
                        /\ \A j \in 1..(f[1] - 1) : SameSignature(left, right, j)
<1> DEFINE Right(i) ==
      /\ f[i] = 0 => \A j \in i..shared : SameSignature(left, right, j)
      /\ f[i] # 0 => /\ f[i] \in i..shared /\ ~SameSignature(left, right, f[i])
                     /\ \A j \in i..(f[i] - 1) : SameSignature(left, right, j)
<1> DEFINE Wrong == {k \in Nat : k <= shared /\ ~Right(shared + 1 - k)}
<1>1. \A i \in 1..(shared + 1) :
        f[i] = IF i > shared THEN 0
               ELSE IF ~SameSignature(left, right, i) THEN i
               ELSE f[i + 1]
  BY Zenon DEF IsScan, SameSignature
<1>2. ASSUME NEW i \in 1..(shared + 1), i > shared PROVE Right(i)
  <2>1. f[i] = 0 /\ i..shared = {}
    BY <1>1, <1>2
  <2> QED
    BY <2>1
<1>3. ASSUME NEW i \in 1..(shared + 1), ~(i > shared), ~SameSignature(left, right, i)
      PROVE  Right(i)
  <2>1. f[i] = i
    BY <1>1, <1>3
  <2> QED
    BY <1>3, <2>1
<1>4. ASSUME NEW i \in 1..(shared + 1), ~(i > shared), SameSignature(left, right, i),
             Right(i + 1)
      PROVE  Right(i)
  <2>1. f[i] = f[i + 1]
    BY <1>1, <1>4
  <2>2. CASE f[i] = 0
    <3>1. \A j \in (i + 1)..shared : SameSignature(left, right, j)
      BY <1>4, <2>1, <2>2
    <3> QED
      BY <1>4, <2>2, <3>1
  <2>3. CASE f[i] # 0
    <3>1. /\ f[i] \in (i + 1)..shared /\ ~SameSignature(left, right, f[i])
          /\ \A j \in (i + 1)..(f[i] - 1) : SameSignature(left, right, j)
      BY <1>4, <2>1, <2>3
    <3> QED
      BY <1>4, <2>3, <3>1
  <2> QED
    BY <2>2, <2>3
<1> HIDE DEF Right
<1>5. Wrong = {}
  <2> SUFFICES ASSUME Wrong # {} PROVE FALSE
    OBVIOUS
  <2>1. PICK k \in Wrong : \A m \in Wrong : k <= m
    <3>1. Wrong \in SUBSET Nat
      OBVIOUS
    <3> HIDE DEF Wrong
    <3> QED
      BY <3>1, LeastNumber, Zenon
  <2> DEFINE i == shared + 1 - k
  <2>2. i \in 1..(shared + 1) /\ ~Right(i)
    OBVIOUS
  <2>3. ~(i > shared)
    BY <1>2, <2>2
  <2>4. i + 1 = shared + 1 - (k - 1) /\ k - 1 \in Nat /\ k - 1 <= shared
    BY <2>3
  <2>5. k - 1 \notin Wrong
    BY <2>1, <2>4
  <2>6. Right(i + 1)
    BY <2>4, <2>5
  <2> QED
    BY <1>3, <1>4, <2>2, <2>3, <2>6
<1>6. Right(1)
  <2>1. shared \notin Wrong
    BY <1>5, Zenon
  <2>2. shared <= shared /\ shared + 1 - shared = 1
    OBVIOUS
  <2> QED
    BY <2>1, <2>2
<1> QED
  BY <1>6 DEF Right


\* The smaller of two numbers.
LEMMA MinIs ==
  ASSUME NEW a \in Nat, NEW b \in Nat
  PROVE  Min({a, b}) = IF a <= b THEN a ELSE b
<1>1. \E x \in {a, b} : \A y \in {a, b} : x <= y
  BY SMT
<1>2. Min({a, b}) \in {a, b} /\ \A y \in {a, b} : Min({a, b}) <= y
  BY <1>1, Zenon DEF Min
<1> QED
  BY <1>2

\* d is where two traces part: the first index at which their signatures differ
\* or one of them has ended, 0 if there is none.
Parts(d, left, right) ==
  /\ d = 0 => /\ Len(left) = Len(right)
              /\ \A j \in 1..Len(left) : SameSignature(left, right, j)
  /\ d # 0 => /\ d \in Nat /\ d <= Len(left) + 1 /\ d <= Len(right) + 1
              /\ \A j \in 1..(d - 1) : SameSignature(left, right, j)
              /\ \/ d <= Len(left) /\ d <= Len(right) /\ ~SameSignature(left, right, d)
                 \/ Len(left) # Len(right) /\ (d > Len(left) \/ d > Len(right))

\* firstDivergence finds where two traces part.
LEMMA FirstDivergenceIs ==
  ASSUME NEW left, NEW right, Len(left) \in Nat, Len(right) \in Nat
  PROVE  /\ firstDivergence(left, right) \in Nat
         /\ Parts(firstDivergence(left, right), left, right)
<1> DEFINE shared == Min({Len(left), Len(right)})
           f == CHOOSE s : IsScan(s, left, right, shared)
           d == firstDivergence(left, right)
<1>1. shared = IF Len(left) <= Len(right) THEN Len(left) ELSE Len(right)
  BY MinIs
<1>2. d = IF f[1] # 0 THEN f[1] ELSE IF Len(left) # Len(right) THEN shared + 1 ELSE 0
  BY Zenon DEF firstDivergence, IsScan
<1> HIDE DEF shared, d
<1>3. shared \in Nat
  BY <1>1
<1>4. IsScan(f, left, right, shared)
  BY <1>3, ScanExists, Zenon
<1> HIDE DEF f
<1>5. /\ f[1] = 0 => \A j \in 1..shared : SameSignature(left, right, j)
      /\ f[1] # 0 => /\ f[1] \in 1..shared /\ ~SameSignature(left, right, f[1])
                     /\ \A j \in 1..(f[1] - 1) : SameSignature(left, right, j)
  BY <1>3, <1>4, Scans
<1>6. CASE f[1] # 0
  BY <1>1, <1>2, <1>3, <1>5, <1>6 DEF d, Parts
<1>7. CASE f[1] = 0
  BY <1>1, <1>2, <1>3, <1>5, <1>7 DEF d, Parts
<1> QED
  BY <1>6, <1>7

\* Two traces part at one place, whichever is named first.
LEMMA PartsOnce ==
  ASSUME NEW left, NEW right, Len(left) \in Nat, Len(right) \in Nat,
         NEW d \in Nat, NEW b \in Nat, Parts(d, left, right), Parts(b, right, left)
  PROVE  b = d
<1>1. \A j : SameSignature(left, right, j) <=> SameSignature(right, left, j)
  BY DEF SameSignature
<1>2. CASE d < b
  BY <1>1, <1>2 DEF Parts
<1>3. CASE b < d
  BY <1>1, <1>3 DEF Parts
<1> QED
  BY <1>2, <1>3

\* The events of an execution as a trace of its own.
TraceFor(s) == [i \in DOMAIN s |-> Record(i, s[i])]

\* Its records are the events, numbered from 1.
LEMMA TraceForIs ==
  ASSUME NEW s \in Seq(Events)
  PROVE  /\ Len(s) \in Nat /\ DOMAIN s = 1..Len(s)
         /\ DOMAIN TraceFor(s) = 1..Len(s) /\ Len(TraceFor(s)) = Len(s)
         /\ (TraceFor(s) = <<>> <=> s = <<>>)
         /\ \A i \in 1..Len(s) : /\ s[i] \in Events
                                 /\ TraceFor(s)[i].event = s[i]
                                 /\ TraceFor(s)[i].sequence = i
<1>1. Len(s) \in Nat /\ DOMAIN s = 1..Len(s)
  OBVIOUS
<1>2. DOMAIN TraceFor(s) = 1..Len(s)
  BY <1>1 DEF TraceFor
<1>3. \A i \in 1..Len(s) : TraceFor(s)[i] \in Records
  BY <1>1 DEF TraceFor, Record, Records
<1>4. TraceFor(s) \in Seq(Records)
  BY <1>1, <1>2, <1>3 DEF TraceFor
<1>5. \A i \in 1..Len(s) : TraceFor(s)[i].event = s[i] /\ TraceFor(s)[i].sequence = i
  BY <1>1 DEF TraceFor, Record
<1> QED
  BY <1>1, <1>2, <1>4, <1>5

\* Finitely many numbers have a bound.
LEMMA FiniteBound ==
  ASSUME NEW n \in Nat, NEW h \in [1..n -> Nat]
  PROVE  \E m \in Nat : \A i \in 1..n : h[i] <= m
<1> DEFINE Bounds(k) == {m \in Nat : \A i \in 1..k : h[i] <= m}
           Unbounded == {k \in 0..n : Bounds(k) = {}}
<1>1. Unbounded = {}
  <2> SUFFICES ASSUME Unbounded # {} PROVE FALSE
    OBVIOUS
  <2>1. PICK k \in Unbounded : \A j \in Unbounded : k <= j
    <3>1. Unbounded \in SUBSET Nat
      OBVIOUS
    <3> HIDE DEF Unbounded
    <3> QED
      BY <3>1, LeastNumber, Zenon
  <2>2. k \in 0..n /\ Bounds(k) = {}
    OBVIOUS
  <2>3. 0 \in Bounds(0)
    OBVIOUS
  <2>4. k # 0
    BY <2>2, <2>3
  <2>5. k - 1 \in 0..n /\ k \in 1..n /\ k - 1 < k
    BY <2>2, <2>4
  <2>6. Bounds(k - 1) # {}
    <3>1. k - 1 \notin Unbounded
      <4>1. k \in Nat /\ ~(k <= k - 1)
        BY <2>5
      <4> HIDE DEF Unbounded
      <4> QED
        BY <2>1, <4>1, Zenon
    <3> QED
      BY <2>5, <3>1
  <2>7. PICK m \in Nat : \A i \in 1..(k - 1) : h[i] <= m
    BY <2>6
  <2>8. PICK a \in Nat : a = h[k]
    BY <2>5
  <2>9. \A i \in 1..k : h[i] <= m + a
    <3> SUFFICES ASSUME NEW i \in 1..k PROVE h[i] <= m + a
      OBVIOUS
    <3>1. h[i] \in Nat
      BY <2>5
    <3>2. CASE i = k
      BY <2>8, <3>1, <3>2
    <3>3. CASE i # k
      <4>1. i \in 1..(k - 1)
        BY <2>5, <3>3
      <4> QED
        BY <2>7, <3>1, <4>1
    <3> QED
      BY <3>2, <3>3
  <2>10. m + a \in Bounds(k)
    BY <2>9
  <2> QED
    BY <2>2, <2>10, Zenon
<1>2. n \in 0..n
  OBVIOUS
<1>3. Bounds(n) # {}
  BY <1>1, <1>2, Zenon
<1> QED
  BY <1>3

\* The attempts and tool calls that InspectTrace counts are numbers.
LEMMA CountsType ==
  ASSUME NEW s \in Seq(Events)
  PROVE  /\ InspectTrace(TraceFor(s)).attempts \in Nat
         /\ InspectTrace(TraceFor(s)).tools \in Nat
<1> DEFINE r == TraceFor(s)
           n == Len(s)
           attempts == {0} \cup {r[i].event.attempt : i \in DOMAIN r}
           tools == {i \in DOMAIN r : r[i].event.type = "tool_started"}
<1>1. n \in Nat /\ DOMAIN r = 1..n /\ \A i \in 1..n : r[i].event.attempt \in Nat
  BY TraceForIs DEF Events
<1> HIDE DEF r, n
<1>2. Cardinality(tools) \in Nat
  <2>1. IsFiniteSet(1..n)
    BY <1>1, FS_Interval
  <2>2. tools \in SUBSET (1..n)
    BY <1>1
  <2> HIDE DEF tools
  <2> QED
    BY <2>1, <2>2, FS_Subset, FS_CardinalityType, Zenon
<1> DEFINE h == [i \in 1..n |-> r[i].event.attempt]
<1>3. h \in [1..n -> Nat] /\ \A i \in 1..n : h[i] = r[i].event.attempt
  BY <1>1
<1> HIDE DEF h
<1>4. PICK m \in Nat : \A i \in 1..n : h[i] <= m
  BY <1>1, <1>3, FiniteBound, Zenon
<1>5. attempts \in SUBSET Nat /\ 0 \in attempts /\ \A a \in attempts : a <= m
  BY <1>1, <1>3, <1>4
<1> HIDE DEF attempts
<1> DEFINE bounds == {b \in Nat : \A a \in attempts : a <= b}
<1>6. PICK b \in bounds : \A c \in bounds : b <= c
  <2>1. bounds \in SUBSET Nat /\ m \in bounds
    BY <1>5
  <2> HIDE DEF bounds
  <2> QED
    BY <2>1, LeastNumber, Zenon
<1>7. b \in attempts
  <2> SUFFICES ASSUME b \notin attempts PROVE FALSE
    OBVIOUS
  <2>1. b - 1 \in Nat /\ \A a \in attempts : a <= b - 1
    BY <1>5
  <2> QED
    BY <1>6, <2>1
<1>8. \E x \in attempts : \A y \in attempts : x >= y
  BY <1>5, <1>7
<1>9. Max(attempts) \in attempts
  BY <1>8, Zenon DEF Max
<1>10. Max(attempts) \in Nat
  BY <1>5, <1>9, Zenon
<1> QED
  BY <1>2, <1>10, InspectIs DEF attempts, r

\* The records of which events are made.
EventRecords ==
  [type : EventTypes, status : EventStatuses, id : Executions, attempt : Nat,
   tool : ToolNames, code : Codes, http : Nat]

\* What an event tells, without the identity of its execution.
Anonymous(e) == [e EXCEPT !.id = ""]

\* It is what traceEventSignature takes from it.
LEMMA SignatureTells ==
  ASSUME NEW e \in Events, NEW f \in Events, NEW p, NEW q, p.event = e, q.event = f
  PROVE  traceEventSignature(p) = traceEventSignature(q) <=> Anonymous(e) = Anonymous(f)
<1> DEFINE same == /\ e.type = f.type /\ e.status = f.status /\ e.attempt = f.attempt
                   /\ e.tool = f.tool /\ e.code = f.code /\ e.http = f.http
<1>1. traceEventSignature(p) = traceEventSignature(q) <=> same
  BY DEF traceEventSignature
<1>2. e \in EventRecords /\ f \in EventRecords
  BY DEF Events, EventRecords
<1>3. ASSUME same PROVE Anonymous(e) = Anonymous(f)
  BY <1>2, <1>3, Zenon DEF Anonymous, EventRecords
<1>4. ASSUME Anonymous(e) = Anonymous(f) PROVE same
  BY <1>2, <1>4, Zenon DEF Anonymous, EventRecords
<1> QED
  BY <1>1, <1>3, <1>4

\* Where two stories are the same, from what firstDivergence says of their traces.
LEMMA DivergenceTells ==
  ASSUME NEW s \in Seq(Events), NEW t \in Seq(Events)
  PROVE  LET d == firstDivergence(TraceFor(s), TraceFor(t))
         IN  /\ d \in Nat
             /\ d = 0 => /\ Len(s) = Len(t)
                         /\ \A j \in 1..Len(s) : Anonymous(s[j]) = Anonymous(t[j])
             /\ d # 0 => /\ d <= Len(s) + 1 /\ d <= Len(t) + 1
                         /\ \A j \in 1..(d - 1) : Anonymous(s[j]) = Anonymous(t[j])
                         /\ \/ /\ d <= Len(s) /\ d <= Len(t)
                               /\ Anonymous(s[d]) # Anonymous(t[d])
                            \/ Len(s) # Len(t) /\ (d > Len(s) \/ d > Len(t))
<1> DEFINE l == TraceFor(s)
           r == TraceFor(t)
           d == firstDivergence(l, r)
<1>1. /\ Len(l) = Len(s) /\ Len(r) = Len(t) /\ Len(s) \in Nat /\ Len(t) \in Nat
      /\ \A i \in 1..Len(s) : s[i] \in Events /\ l[i].event = s[i]
      /\ \A i \in 1..Len(t) : t[i] \in Events /\ r[i].event = t[i]
  BY TraceForIs
<1>2. \A j \in (1..Len(s)) \cap (1..Len(t)) :
        SameSignature(l, r, j) <=> Anonymous(s[j]) = Anonymous(t[j])
  <2> SUFFICES ASSUME NEW j \in (1..Len(s)) \cap (1..Len(t))
               PROVE  SameSignature(l, r, j) <=> Anonymous(s[j]) = Anonymous(t[j])
    OBVIOUS
  <2>1. s[j] \in Events /\ t[j] \in Events /\ l[j].event = s[j] /\ r[j].event = t[j]
    BY <1>1
  <2>2. PICK e \in Events, f \in Events : e = s[j] /\ f = t[j]
    BY <2>1
  <2>3. PICK p, q : p = l[j] /\ q = r[j] /\ p.event = e /\ q.event = f
    BY <2>1, <2>2
  <2>4. traceEventSignature(p) = traceEventSignature(q) <=> Anonymous(e) = Anonymous(f)
    BY <2>3, SignatureTells
  <2> QED
    BY <2>2, <2>3, <2>4, Zenon DEF SameSignature
<1>3. d \in Nat /\ Parts(d, l, r)
  BY <1>1, FirstDivergenceIs
<1> HIDE DEF l, r, d
<1>4. CASE d = 0
  BY <1>1, <1>2, <1>3, <1>4 DEF Parts, d, l, r
<1>5. CASE d # 0
  <2>1. /\ d <= Len(s) + 1 /\ d <= Len(t) + 1
        /\ \A j \in 1..(d - 1) : SameSignature(l, r, j)
        /\ \/ d <= Len(s) /\ d <= Len(t) /\ ~SameSignature(l, r, d)
           \/ Len(s) # Len(t) /\ (d > Len(s) \/ d > Len(t))
    BY <1>1, <1>3, <1>5 DEF Parts
  <2>2. \A j \in 1..(d - 1) : Anonymous(s[j]) = Anonymous(t[j])
    BY <1>1, <1>2, <1>3, <2>1
  <2>3. d <= Len(s) /\ d <= Len(t) /\ ~SameSignature(l, r, d) =>
          Anonymous(s[d]) # Anonymous(t[d])
    BY <1>1, <1>2, <1>3, <1>5
  <2> QED
    BY <1>3, <1>5, <2>1, <2>2, <2>3 DEF d, l, r
<1> QED
  BY <1>4, <1>5

\* A beginning that two sequences share.
LEMMA SharedBeginning ==
  ASSUME NEW S, NEW a \in Seq(S), NEW b \in Seq(S), NEW n \in Nat,
         n <= Len(a), n <= Len(b), \A j \in 1..n : a[j] = b[j]
  PROVE  IsPrefix(SubSeq(a, 1, n), a) /\ IsPrefix(SubSeq(a, 1, n), b)
<1> DEFINE c == SubSeq(a, 1, n)
<1>1. c \in Seq(S) /\ Len(c) = n /\ \A j \in 1..n : c[j] = a[j]
  OBVIOUS
<1> HIDE DEF c
<1>2. ASSUME NEW x \in Seq(S), n <= Len(x), \A j \in 1..n : c[j] = x[j] PROVE IsPrefix(c, x)
  <2>1. /\ SubSeq(c, 1, n) \in Seq(S) /\ Len(SubSeq(c, 1, n)) = n
        /\ SubSeq(x, 1, n) \in Seq(S) /\ Len(SubSeq(x, 1, n)) = n
        /\ \A j \in 1..n : SubSeq(c, 1, n)[j] = c[j] /\ SubSeq(x, 1, n)[j] = x[j]
    BY <1>1, <1>2
  <2>2. SubSeq(c, 1, n) = SubSeq(x, 1, n)
    BY <1>2, <2>1
  <2> QED
    BY <1>1, <1>2, <2>2 DEF IsPrefix
<1>3. IsPrefix(c, a) /\ IsPrefix(c, b)
  BY <1>1, <1>2
<1> QED
  BY <1>3 DEF c

\* The story of an execution is what its events tell.
LEMMA StoryIs ==
  ASSUME Typed, NEW id \in Executions, NEW s, s = told[id]
  PROVE  /\ s \in Seq(Events) /\ TraceOf(id) = TraceFor(s)
         /\ Story(id) \in Seq({Anonymous(e) : e \in Events}) /\ Len(Story(id)) = Len(s)
         /\ \A j \in 1..Len(s) : Story(id)[j] = Anonymous(s[j])
<1>1. s \in Seq(Events)
  BY DEF Typed
<1>2. TraceOf(id) = TraceFor(s)
  BY DEF TraceOf, TraceFor
<1>3. Story(id) = [j \in DOMAIN s |-> Anonymous(s[j])]
  BY Zenon DEF Story, Anonymous
<1>4. DOMAIN s = 1..Len(s) /\ Len(s) \in Nat /\ \A j \in 1..Len(s) : s[j] \in Events
  BY <1>1
<1>5. \A j \in 1..Len(s) : Anonymous(s[j]) \in {Anonymous(e) : e \in Events}
  BY <1>4, Zenon
<1> DEFINE S == {Anonymous(e) : e \in Events}
           z == [j \in 1..Len(s) |-> Anonymous(s[j])]
<1> HIDE DEF S
<1>6. z \in Seq(S) /\ Len(z) = Len(s) /\ \A j \in 1..Len(s) : z[j] = Anonymous(s[j])
  BY <1>4, <1>5 DEF S
<1>7. Story(id) = z
  BY <1>3, <1>4, Zenon
<1> QED
  BY <1>1, <1>2, <1>6, <1>7, Zenon DEF S

\* The trace that an execution's own recorder would have passes InspectTrace.
LEMMA OwnTraceOk ==
  ASSUME Inv, NEW id \in Executions, told[id] # <<>>
  PROVE  InspectTrace(TraceOf(id)).ok
<1>1. PICK s : s = told[id]
  OBVIOUS
<1>2. Typed /\ TerminalLast
  BY DEF Inv
<1>3. s \in Seq(Events) /\ TraceOf(id) = TraceFor(s)
  BY <1>1, <1>2, StoryIs
<1> DEFINE x == TraceFor(s)
<1>4. /\ Len(s) \in Nat /\ DOMAIN s = 1..Len(s) /\ DOMAIN x = 1..Len(s) /\ Len(x) = Len(s)
      /\ x # <<>> /\ Len(s) > 0
      /\ \A i \in 1..Len(s) : s[i] \in Events /\ x[i].event = s[i] /\ x[i].sequence = i
  BY <1>1, <1>3, TraceForIs
<1> HIDE DEF x
<1>5. \A i \in 1..Len(s) : s[i].id = id /\ (terminalTraceEvent(s[i].type) => i = Len(s))
  BY <1>1, <1>2, <1>4 DEF TerminalLast
<1>6. \A i \in DOMAIN x : validateTraceRecord(x[i], i)
  <2> SUFFICES ASSUME NEW i \in DOMAIN x PROVE validateTraceRecord(x[i], i)
    OBVIOUS
  <2>1. i \in Nat /\ s[i] \in Events /\ x[i].event = s[i] /\ x[i].sequence = i
    BY <1>4
  <2> QED
    BY <2>1, RecordValid
<1>7. \A i \in DOMAIN x : /\ x[i].event.id = x[1].event.id
                          /\ terminalTraceEvent(x[i].event.type) => i = Len(x)
  <2> SUFFICES ASSUME NEW i \in DOMAIN x
               PROVE  /\ x[i].event.id = x[1].event.id
                      /\ terminalTraceEvent(x[i].event.type) => i = Len(x)
    OBVIOUS
  <2>1. i \in 1..Len(s) /\ 1 \in 1..Len(s)
    BY <1>4
  <2>2. x[i].event = s[i] /\ x[1].event = s[1] /\ Len(x) = Len(s)
    BY <1>4, <2>1
  <2>3. s[i].id = id /\ s[1].id = id /\ (terminalTraceEvent(s[i].type) => i = Len(s))
    BY <1>5, <2>1, Zenon
  <2> QED
    BY <2>2, <2>3
<1>8. InspectTrace(x).ok
  BY <1>4, <1>6, <1>7, InspectIs
<1> QED
  BY <1>3, <1>8 DEF x

\* What DiffTrace says of two traces, field by field.
LEMMA DiffIs ==
  ASSUME NEW left, NEW right
  PROVE  LET diff == DiffTrace(left, right)
             l == InspectTrace(left)
             r == InspectTrace(right)
             first == firstDivergence(left, right)
         IN  /\ diff.ok <=> l.ok /\ r.ok
             /\ diff.equivalent <=> first = 0
             /\ diff.first = first
             /\ diff.attemptDelta = r.attempts - l.attempts
             /\ diff.toolDelta = r.tools - l.tools
BY DEF DiffTrace

\* DiffTrace finds the first point at which two executions took different ways,
\* calls equivalent exactly the traces that tell the same story, and exchanging
\* the sides exchanges the answer (trace_diff.go).
THEOREM DiffTraceIsExact == Spec => []DiffIsExact
<1>1. Inv => DiffIsExact
  <2> SUFFICES ASSUME Inv, NEW l \in Executions, NEW r \in Executions,
                      told[l] # <<>>, told[r] # <<>>
               PROVE  LET diff == DiffTrace(TraceOf(l), TraceOf(r))
                          back == DiffTrace(TraceOf(r), TraceOf(l))
                          common == SubSeq(Story(l), 1, diff.first - 1)
                      IN /\ diff.ok
                         /\ diff.equivalent <=> Story(l) = Story(r)
                         /\ ~diff.equivalent =>
                              /\ IsPrefix(common, Story(l)) /\ IsPrefix(common, Story(r))
                              /\ \/ diff.first > Min({Len(Story(l)), Len(Story(r))})
                                 \/ Story(l)[diff.first] # Story(r)[diff.first]
                         /\ back.first = diff.first
                         /\ back.attemptDelta = -diff.attemptDelta
                         /\ back.toolDelta = -diff.toolDelta
    BY Zenon DEF DiffIsExact
  <2>1. PICK s, t : s = told[l] /\ t = told[r]
    OBVIOUS
  <2>2. Typed
    BY DEF Inv
  <2> DEFINE S == {Anonymous(e) : e \in Events}
             x == TraceFor(s)
             y == TraceFor(t)
             d == firstDivergence(x, y)
             diff == DiffTrace(x, y)
             back == DiffTrace(y, x)
  <2>3. s \in Seq(Events) /\ t \in Seq(Events) /\ TraceOf(l) = x /\ TraceOf(r) = y
    BY <2>1, <2>2, StoryIs
  <2>4. PICK a, b : a = Story(l) /\ b = Story(r)
    OBVIOUS
  <2>5. /\ a \in Seq(S) /\ Len(a) = Len(s) /\ \A j \in 1..Len(s) : a[j] = Anonymous(s[j])
        /\ b \in Seq(S) /\ Len(b) = Len(t) /\ \A j \in 1..Len(t) : b[j] = Anonymous(t[j])
    BY <2>1, <2>2, <2>4, StoryIs
  <2>6. Len(s) \in Nat /\ Len(t) \in Nat
    BY <2>3
  <2>7. /\ d \in Nat
        /\ d = 0 => /\ Len(s) = Len(t)
                    /\ \A j \in 1..Len(s) : Anonymous(s[j]) = Anonymous(t[j])
        /\ d # 0 => /\ d <= Len(s) + 1 /\ d <= Len(t) + 1
                    /\ \A j \in 1..(d - 1) : Anonymous(s[j]) = Anonymous(t[j])
                    /\ \/ /\ d <= Len(s) /\ d <= Len(t)
                          /\ Anonymous(s[d]) # Anonymous(t[d])
                       \/ Len(s) # Len(t) /\ (d > Len(s) \/ d > Len(t))
    BY <2>3, DivergenceTells
  <2>8. diff.ok
    <3>1. InspectTrace(x).ok /\ InspectTrace(y).ok
      BY <2>3, OwnTraceOk
    <3> QED
      BY <3>1, DiffIs
  <2>9. diff.first = d /\ (diff.equivalent <=> d = 0)
    BY DiffIs
  <2>10. back.first = d
    <3>1. Len(x) \in Nat /\ Len(y) \in Nat
      BY <2>3, <2>6, TraceForIs
    <3>2. PICK c : c = firstDivergence(y, x)
      OBVIOUS
    <3>3. c \in Nat /\ Parts(c, y, x) /\ Parts(d, x, y)
      BY <3>1, <3>2, FirstDivergenceIs
    <3>4. c = d
      BY <2>7, <3>1, <3>3, PartsOnce
    <3> QED
      BY <3>2, <3>4, DiffIs
  <2>11. back.attemptDelta = -diff.attemptDelta /\ back.toolDelta = -diff.toolDelta
    <3>1. PICK i \in Nat, j \in Nat, m \in Nat, n \in Nat :
            /\ i = InspectTrace(x).attempts /\ j = InspectTrace(y).attempts
            /\ m = InspectTrace(x).tools /\ n = InspectTrace(y).tools
      BY <2>3, CountsType
    <3>2. /\ diff.attemptDelta = j - i /\ diff.toolDelta = n - m
          /\ back.attemptDelta = i - j /\ back.toolDelta = m - n
      BY <3>1, DiffIs
    <3>3. i - j = -(j - i) /\ m - n = -(n - m)
      OBVIOUS
    <3> QED
      BY <3>2, <3>3
  <2> HIDE DEF S, d, diff, back, x, y
  <2>12. diff.equivalent <=> a = b
    <3>1. ASSUME d = 0 PROVE a = b
      <4>1. Len(a) = Len(b) /\ \A j \in 1..Len(a) : a[j] = b[j]
        BY <2>5, <2>6, <2>7, <3>1
      <4> QED
        BY <2>5, <4>1
    <3>2. ASSUME d # 0 PROVE a # b
      <4>1. CASE d <= Len(s) /\ d <= Len(t) /\ Anonymous(s[d]) # Anonymous(t[d])
        <5>1. a[d] # b[d]
          BY <2>5, <2>6, <2>7, <3>2, <4>1
        <5> QED
          BY <5>1
      <4>2. CASE Len(s) # Len(t)
        BY <2>5, <4>2
      <4> QED
        BY <2>7, <3>2, <4>1, <4>2
    <3> QED
      BY <2>9, <3>1, <3>2
  <2>13. ASSUME ~diff.equivalent
         PROVE  /\ IsPrefix(SubSeq(a, 1, diff.first - 1), a)
                /\ IsPrefix(SubSeq(a, 1, diff.first - 1), b)
                /\ diff.first > Min({Len(a), Len(b)}) \/ a[diff.first] # b[diff.first]
    <3>1. d # 0 /\ d - 1 \in Nat /\ d - 1 <= Len(a) /\ d - 1 <= Len(b)
      BY <2>5, <2>6, <2>7, <2>9, <2>13
    <3>2. \A j \in 1..(d - 1) : a[j] = b[j]
      BY <2>5, <2>6, <2>7, <3>1
    <3>3. IsPrefix(SubSeq(a, 1, d - 1), a) /\ IsPrefix(SubSeq(a, 1, d - 1), b)
      <4>1. PICK n \in Nat : n = d - 1
        BY <3>1
      <4>2. IsPrefix(SubSeq(a, 1, n), a) /\ IsPrefix(SubSeq(a, 1, n), b)
        BY <2>5, <3>1, <3>2, <4>1, SharedBeginning
      <4> QED
        BY <4>1, <4>2
    <3>4. Min({Len(a), Len(b)}) = IF Len(a) <= Len(b) THEN Len(a) ELSE Len(b)
      BY <2>5, <2>6, MinIs
    <3>5. CASE d <= Len(s) /\ d <= Len(t) /\ Anonymous(s[d]) # Anonymous(t[d])
      <4>1. a[d] # b[d]
        BY <2>5, <2>6, <2>7, <3>1, <3>5
      <4> QED
        BY <2>9, <3>3, <4>1
    <3>6. CASE Len(s) # Len(t) /\ (d > Len(s) \/ d > Len(t))
      <4>1. d > Min({Len(a), Len(b)})
        BY <2>5, <2>6, <2>7, <3>4, <3>6
      <4> QED
        BY <2>9, <3>3, <4>1
    <3> QED
      BY <2>7, <3>1, <3>5, <3>6
  <2> QED
    BY <2>3, <2>4, <2>8, <2>9, <2>10, <2>11, <2>12, <2>13, Zenon DEF diff, back
<1> QED
  BY <1>1, InvHolds, PTL
=============================================================================
