----------------------------- MODULE Checkpoints -----------------------------
(***************************************************************************)
(* The durable execution snapshot of the harness and the pure rules about  *)
(* it: which lifecycle transitions exist (runtime.go), the logical         *)
(* revision derived from a snapshot (checkpoint.go), and the validation    *)
(* every store applies before a write and after a read (file_store.go,     *)
(* recovery.go).                                                           *)
(*                                                                         *)
(* Data abstraction.  One execution is modelled, so the three execution    *)
(* IDs of a checkpoint always agree and the prompt is nonempty.  A tool    *)
(* call is its ID.  A string matters only in being empty, valid UTF-8 or   *)
(* not valid UTF-8.                                                        *)
(***************************************************************************)
EXTENDS Integers, Sequences, FiniteSets

CONSTANTS
  CallIDs,    \* well-formed tool calls, each identified by its call ID
  BadCall,    \* a tool call with an empty ID or an empty tool name
  NoCall,     \* the nil PendingTool pointer
  NoRecord    \* no checkpoint is stored for the execution

ASSUME CallAssumption ==
  /\ IsFiniteSet(CallIDs)
  /\ BadCall \notin CallIDs
  /\ NoCall \notin CallIDs \cup {BadCall}

-----------------------------------------------------------------------------
(* Lifecycle.                                                              *)

Status == {"created", "running_model", "running_tool",
           "completed", "failed", "cancelled"}

Terminal == {"completed", "failed", "cancelled"}

Transition == [from : Status, to : Status]

validTransition(from, to) ==
  \/ from = "created" /\ to = "running_model"
  \/ from = "running_model"
       /\ to \in {"running_tool", "completed", "failed", "cancelled"}
  \/ from = "running_tool" /\ to \in {"running_model", "failed", "cancelled"}

-----------------------------------------------------------------------------
(* Snapshots.                                                              *)

Text == {"", "ok", "bad"}

validUTF8(text) == text # "bad"

ToolCall == CallIDs \cup {BadCall}

Step == [index : Nat, call : ToolCall, callID : ToolCall, output : Text]

Checkpoint ==
  [schema : 1..3, revision : Nat, maxSteps : Nat, iterations : Nat,
   maxRetries : Nat, retries : Nat, status : Status, output : Text,
   steps : Seq(Step), transitions : Seq(Transition),
   pending : ToolCall \cup {NoCall}, error : Text]

\* The snapshot Run starts from, for a runtime configured with these budgets.
NewCheckpoint(maxSteps, maxRetries) ==
  [schema |-> 3, revision |-> 0, maxSteps |-> maxSteps, iterations |-> 0,
   maxRetries |-> maxRetries, retries |-> 0, status |-> "created",
   output |-> "", steps |-> <<>>, transitions |-> <<>>,
   pending |-> NoCall, error |-> ""]

\* execution.transition: an invalid transition leaves the execution alone.
transition(c, next) ==
  IF validTransition(c.status, next)
  THEN [c EXCEPT !.transitions = Append(@, [from |-> c.status, to |-> next]),
                 !.status = next]
  ELSE c

\* The completed step of call id, appended to the history.
NewStep(c, id, text) ==
  [index |-> Len(c.steps) + 1, call |-> id, callID |-> id, output |-> text]

StepIDs(c) == {c.steps[i].call : i \in DOMAIN c.steps}

ToolStarts(c) ==
  {i \in DOMAIN c.transitions : c.transitions[i].to = "running_tool"}

ToolFinishes(c) ==
  {i \in DOMAIN c.transitions :
     /\ c.transitions[i].from = "running_tool"
     /\ c.transitions[i].to = "running_model"}

-----------------------------------------------------------------------------
(* Revision and validation.                                                *)

\* Mutant of checkpointRevision: retries do not count as progress.
checkpointRevisionNoRetries(c) ==
  1 + c.iterations
    + Cardinality(ToolStarts(c)) + Cardinality(ToolFinishes(c))
    + (IF c.status \in Terminal THEN 1 ELSE 0)

checkpointRevision(c) ==
  1 + c.iterations + c.retries
    + Cardinality(ToolStarts(c)) + Cardinality(ToolFinishes(c))
    + (IF c.status \in Terminal THEN 1 ELSE 0)

validHistory(c) ==
  /\ \A i \in DOMAIN c.transitions :
       LET before == IF i = 1 THEN "created" ELSE c.transitions[i - 1].to
       IN  /\ c.transitions[i].from = before
           /\ validTransition(before, c.transitions[i].to)
  /\ c.status = IF c.transitions = <<>> THEN "created"
                ELSE c.transitions[Len(c.transitions)].to

validateSteps(c) ==
  \A i \in DOMAIN c.steps :
    /\ c.steps[i].index = i
    /\ c.steps[i].callID = c.steps[i].call
    /\ c.steps[i].call \in CallIDs
    /\ \A j \in 1..(i - 1) : c.steps[j].call # c.steps[i].call

validateRecoveryState(c) ==
  LET pending == IF c.pending = NoCall THEN 0 ELSE 1
  IN  /\ c.iterations >= Len(c.steps)
      /\ validateSteps(c)
      /\ pending = 1 => /\ c.pending \in CallIDs
                        /\ c.pending \notin StepIDs(c)
                        /\ c.iterations > Len(c.steps)
      /\ Cardinality(ToolFinishes(c)) = Len(c.steps)
      /\ Cardinality(ToolStarts(c)) = Len(c.steps) + pending
      /\ c.status = "created" =>
           c.iterations = 0 /\ c.retries = 0 /\ pending = 0
      /\ c.status = "running_model" => pending = 0
      /\ c.status = "running_tool" => pending = 1
      /\ c.status = "completed" => pending = 0 /\ c.iterations > Len(c.steps)
      /\ c.status \in {"failed", "cancelled"} =>
           /\ c.error # ""
           /\ (pending = 1) =
                (c.transitions[Len(c.transitions)].from = "running_tool")
      /\ c.status # "completed" => c.output = ""
      /\ c.status \notin {"failed", "cancelled"} => c.error = ""

validText(c) ==
  /\ validUTF8(c.output)
  /\ validUTF8(c.error)
  /\ \A i \in DOMAIN c.steps : validUTF8(c.steps[i].output)

validateCheckpoint(c) ==
  /\ c.schema \in 1..3
  /\ c.maxSteps > 0
  /\ c.iterations \in 0..c.maxSteps
  /\ c.retries <= c.maxRetries
  /\ c.retries <= c.iterations
  /\ c.schema < 3 => c.maxRetries = 0 /\ c.retries = 0
  /\ validHistory(c)
  /\ c.schema >= 2 => validateRecoveryState(c)
  /\ c.revision # 0 => c.revision = checkpointRevision(c)
  /\ validText(c)

\* Stores refuse a save that does not advance a versioned record.
advancesRevision(current, c) ==
  current.revision > 0 => c.revision > current.revision

\* Mutant of completePending: the call is cleared before the step is built.
completePendingCleared(c, text) ==
  LET d == [c EXCEPT !.pending = NoCall]
  IN  [transition(d, "running_model") EXCEPT
         !.steps = Append(@, NewStep(d, d.pending, text))]

\* The pending call as a completed step: completePendingTool's next snapshot.
completePending(c, text) ==
  [transition(c, "running_model") EXCEPT
     !.steps = Append(@, NewStep(c, c.pending, text)),
     !.pending = NoCall]
=============================================================================
