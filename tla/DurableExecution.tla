--------------------------- MODULE DurableExecution ---------------------------
(***************************************************************************)
(* What the harness promises about one durable execution, whoever runs it  *)
(* and however often it is interrupted: the save boundaries of README.md   *)
(* ("Durable checkpoints") as the steps of one stored execution, the rule  *)
(* that a write precedes the callback it announces, and that no callback   *)
(* is dispatched twice for the same reservation.  There are no workers, no *)
(* leases and no failed writes here; Harness implements this module.       *)
(***************************************************************************)
EXTENDS Integers, Sequences

CONSTANTS
  Calls,    \* tool call IDs
  NoCall,   \* no pending call
  Absent    \* the phase before the execution is created

VARIABLES
  phase,       \* Absent or the lifecycle status
  maxAttempts, \* the attempt budget fixed at creation
  maxRetries,  \* the retry budget fixed at creation
  attempts,    \* model attempts reserved so far
  retries,     \* retries reserved so far
  pending,     \* the call whose intent is recorded and whose result is not
  completed,   \* the calls whose results are recorded, in order
  modelCalls,  \* attempts whose model callback was dispatched
  toolCalls,   \* calls whose tool callback was dispatched
  effects      \* calls whose external effect has happened

progress == <<phase, maxAttempts, maxRetries, attempts, retries, pending,
              completed>>
dvars == <<progress, modelCalls, toolCalls, effects>>

Over == {"completed", "failed", "cancelled"}

Recorded == {pending} \cup {completed[i] : i \in DOMAIN completed}

\* Nothing was dispatched yet.  The record may be one an earlier process left.
Init ==
  /\ modelCalls = {}
  /\ toolCalls = {}
  /\ effects \subseteq Recorded \ {NoCall}
  /\ phase = Absent => /\ attempts = 0 /\ retries = 0 /\ pending = NoCall
                       /\ completed = <<>>

Create ==
  /\ phase = Absent
  /\ phase' = "created"
  /\ maxAttempts' \in Nat \ {0}
  /\ maxRetries' \in Nat
  /\ UNCHANGED <<attempts, retries, pending, completed, modelCalls, toolCalls,
                 effects>>

ReserveAttempt ==
  /\ phase \in {"created", "running_model"}
  /\ attempts < maxAttempts
  /\ phase' = "running_model"
  /\ attempts' = attempts + 1
  /\ UNCHANGED <<maxAttempts, maxRetries, retries, pending, completed,
                 modelCalls, toolCalls, effects>>

\* A retry is only reserved when an attempt is left to spend on it, and for an
\* attempt that was dispatched.
ReserveRetry ==
  /\ phase = "running_model"
  /\ retries < maxRetries
  /\ attempts < maxAttempts
  /\ attempts \in modelCalls
  /\ retries' = retries + 1
  /\ UNCHANGED <<phase, maxAttempts, maxRetries, attempts, pending, completed,
                 modelCalls, toolCalls, effects>>

RecordIntent(id) ==
  /\ phase = "running_model"
  /\ attempts \in modelCalls
  /\ id \notin Recorded
  /\ phase' = "running_tool"
  /\ pending' = id
  /\ UNCHANGED <<maxAttempts, maxRetries, attempts, retries, completed,
                 modelCalls, toolCalls, effects>>

\* A result is only recorded for an effect that happened.
RecordResult ==
  /\ phase = "running_tool"
  /\ pending \in effects
  /\ phase' = "running_model"
  /\ completed' = Append(completed, pending)
  /\ pending' = NoCall
  /\ UNCHANGED <<maxAttempts, maxRetries, attempts, retries, modelCalls,
                 toolCalls, effects>>

\* A final answer needs a dispatched attempt that no tool step consumed; a
\* pending call stays on record.
Terminate(outcome) ==
  /\ phase \notin Over \cup {Absent}
  /\ outcome = "completed" => /\ phase = "running_model"
                              /\ attempts \in modelCalls
                              /\ attempts > Len(completed)
  /\ phase' = outcome
  /\ UNCHANGED <<maxAttempts, maxRetries, attempts, retries, pending,
                 completed, modelCalls, toolCalls, effects>>

\* A callback starts only after its reservation is stored, and once.
DispatchModel(n) ==
  /\ n \in 1..attempts
  /\ n \notin modelCalls
  /\ modelCalls' = modelCalls \cup {n}
  /\ UNCHANGED <<progress, toolCalls, effects>>

DispatchTool(id) ==
  /\ id \in Recorded
  /\ id \notin toolCalls
  /\ toolCalls' = toolCalls \cup {id}
  /\ UNCHANGED <<progress, modelCalls, effects>>

Effect(id) ==
  /\ id \in Recorded
  /\ effects' = effects \cup {id}
  /\ UNCHANGED <<progress, modelCalls, toolCalls>>

Next ==
  \/ Create \/ ReserveAttempt \/ ReserveRetry \/ RecordResult
  \/ \E id \in Calls : RecordIntent(id) \/ DispatchTool(id) \/ Effect(id)
  \/ \E outcome \in Over : Terminate(outcome)
  \/ \E n \in 1..attempts : DispatchModel(n)

Spec == Init /\ [][Next]_dvars
=============================================================================
