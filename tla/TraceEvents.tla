----------------------------- MODULE TraceEvents -----------------------------
(***************************************************************************)
(* The events of an execution as the runtime emits them (observer.go and   *)
(* the observe calls of runtime.go), and the operations on recorded events *)
(* (trace_reader.go, trace_diff.go): ReadTrace, InspectTrace, DiffTrace.   *)
(***************************************************************************)
EXTENDS Integers, Sequences, SequencesExt, FiniteSetsExt

CONSTANTS
  Executions,   \* execution IDs
  Tools,        \* tool names
  MaxAttempts   \* bound: model attempts of an execution

ASSUME EventAssumption == MaxAttempts \in Nat

Failures == {"execution_failed", "execution_cancelled"}
Terminals == {"execution_completed"} \cup Failures

\* The status that the runtime gives an event of a type.
EventStatus(type) ==
  CASE type = "execution_started" -> "created"
    [] type \in {"model_started", "model_completed"} -> "running_model"
    [] type \in {"tool_started", "tool_completed"} -> "running_tool"
    [] type = "execution_completed" -> "completed"
    [] type = "execution_failed" -> "failed"
    [] type = "execution_cancelled" -> "cancelled"

\* code and http are what classifyTraceError makes of the error.
Event(type, id, attempt, tool, code, http) ==
  [type |-> type, status |-> EventStatus(type), id |-> id, attempt |-> attempt,
   tool |-> tool, code |-> code, http |-> http]

Completions(id, attempt) ==
  {Event("model_completed", id, attempt, "", "", 0),
   Event("model_completed", id, attempt, "", "model_timeout", 0),
   Event("model_completed", id, attempt, "", "model_provider_http_error", 503)}

Ends(id, attempt, types, code, http) ==
  {Event(type, id, attempt, "", IF type = "execution_cancelled" THEN "context_canceled" ELSE code,
         IF type = "execution_cancelled" THEN 0 ELSE http) : type \in types}

\* After the reservation of an attempt: the model is called, or the context has
\* ended.
Reserved(id, attempt) ==
  IF attempt > MaxAttempts THEN {}
  ELSE {Event("model_started", id, attempt, "", "", 0)}
       \cup Ends(id, attempt, {"execution_cancelled"}, "", 0)

\* The events run may emit after event e of the same invocation.
Follows(e) ==
  CASE e.type = "execution_started" ->
         Reserved(e.id, 1) \cup Ends(e.id, 0, {"execution_cancelled"}, "", 0)
    [] e.type = "model_started" -> Completions(e.id, e.attempt)
    [] e.type = "model_completed" /\ e.code = "" ->
         {Event("tool_started", e.id, e.attempt, tool, "", 0) : tool \in Tools}
         \cup Ends(e.id, e.attempt, {"execution_completed"}, "", 0)
         \cup Ends(e.id, e.attempt, Failures, "invalid_model_decision", 0)
    [] e.type = "model_completed" /\ e.code # "" ->  \* retried, or final
         Reserved(e.id, e.attempt + 1)
         \cup Ends(e.id, e.attempt, Failures, e.code, e.http)
    [] e.type = "tool_started" ->
         {Event("tool_completed", e.id, e.attempt, e.tool, code, 0) :
            code \in {"", "tool_timeout"}}
    [] e.type = "tool_completed" /\ e.code = "" ->
         Reserved(e.id, e.attempt + 1)
         \cup Ends(e.id, e.attempt, Failures, "step_limit_exceeded", 0)
    [] e.type = "tool_completed" /\ e.code # "" ->
         Ends(e.id, e.attempt, Failures, e.code, 0)
    [] OTHER -> {}

\* Run creates and announces; Resume announces nothing and continues with the
\* attempts of the checkpoint.
Opens(id, attempts, created) ==
  IF created THEN {Event("execution_started", id, 0, "", "", 0)}
  ELSE Reserved(id, attempts + 1) \cup Ends(id, attempts, Failures, "step_limit_exceeded", 0)

-----------------------------------------------------------------------------
(* Records: an event with its sequence number.  A record that was cut off  *)
(* in the file is not whole.                                               *)

Record(sequence, event) == [sequence |-> sequence, event |-> event, whole |-> TRUE]

\* Mutant of validTraceEventStatus: tool events happen while the model runs.
validTraceEventStatusModel(type, status) ==
  status = CASE type = "execution_started" -> "created"
             [] type \in {"execution_completed", "execution_failed",
                          "execution_cancelled"} -> EventStatus(type)
             [] OTHER -> "running_model"

validTraceEventStatus(type, status) ==
  \/ type = "execution_started" /\ status = "created"
  \/ type \in {"model_started", "model_completed"} /\ status = "running_model"
  \/ type \in {"tool_started", "tool_completed"} /\ status = "running_tool"
  \/ type = "execution_completed" /\ status = "completed"
  \/ type = "execution_failed" /\ status = "failed"
  \/ type = "execution_cancelled" /\ status = "cancelled"

\* Schema version and timestamp are constants of the recorder.
validateTraceRecord(record, sequence) ==
  /\ record.sequence = sequence
  /\ validTraceEventStatus(record.event.type, record.event.status)
  /\ record.event.attempt >= 0 /\ record.event.http >= 0
  /\ record.event.http # 0 => record.event.code = "model_provider_http_error"

\* ReadTrace: all records of the file, or an error.
ReadTrace(file) ==
  [ok |-> \A i \in DOMAIN file :
            /\ file[i].whole
            /\ validateTraceRecord(file[i], i)
            /\ file[i].event.id = file[1].event.id,
   records |-> file]

terminalTraceEvent(type) == type \in Terminals

\* InspectTrace of what ReadTrace returned.
InspectTrace(records) ==
  [ok |-> /\ records # <<>>
          /\ \A i \in DOMAIN records :
               /\ validateTraceRecord(records[i], i)
               /\ records[i].event.id = records[1].event.id
               /\ terminalTraceEvent(records[i].event.type) => i = Len(records),
   attempts |-> Max({0} \cup {records[i].event.attempt : i \in DOMAIN records}),
   tools |-> Cardinality({i \in DOMAIN records : records[i].event.type = "tool_started"}),
   complete |-> records # <<>> /\ terminalTraceEvent(Last(records).event.type)]

traceEventSignature(record) ==
  [type |-> record.event.type, status |-> record.event.status,
   attempt |-> record.event.attempt, tool |-> record.event.tool,
   code |-> record.event.code, http |-> record.event.http]

\* Mutant of firstDivergence: the loop stops one short.
firstDivergenceShort(left, right) ==
  LET shared == Min({Len(left), Len(right)})
      scan[i \in 1..(shared + 1)] ==
        IF i >= shared THEN 0
        ELSE IF traceEventSignature(left[i]) # traceEventSignature(right[i]) THEN i
        ELSE scan[i + 1]
  IN IF scan[1] # 0 THEN scan[1]
     ELSE IF Len(left) # Len(right) THEN shared + 1 ELSE 0

\* The two loops of DiffTrace: the first index, from 1, at which the traces
\* differ or one of them has ended; 0 if there is none.
firstDivergence(left, right) ==
  LET shared == Min({Len(left), Len(right)})
      scan[i \in 1..(shared + 1)] ==
        IF i > shared THEN 0
        ELSE IF traceEventSignature(left[i]) # traceEventSignature(right[i]) THEN i
        ELSE scan[i + 1]
  IN IF scan[1] # 0 THEN scan[1]
     ELSE IF Len(left) # Len(right) THEN shared + 1 ELSE 0

DiffTrace(left, right) ==
  LET l == InspectTrace(left)
      r == InspectTrace(right)
      first == firstDivergence(left, right)
  IN [ok |-> l.ok /\ r.ok, equivalent |-> first = 0, first |-> first,
      attemptDelta |-> r.attempts - l.attempts, toolDelta |-> r.tools - l.tools]
=============================================================================
