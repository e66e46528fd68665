---------------------------- MODULE HarnessProofs ----------------------------
(***************************************************************************)
(* Proofs about Harness for any number of workers, any calls, budgets,     *)
(* seeds, runtime configurations and store faults.                         *)
(*                                                                         *)
(*   Part 1: checkpoints, types, and the invariants of the lease.          *)
(*   Part 2: a model attempt and an Execute are dispatched at most once.   *)
(*   Part 3: the stored execution behaves as one uninterrupted run, and    *)
(*           the whole implements DurableExecution.                        *)
(***************************************************************************)
EXTENDS Harness, FiniteSetTheorems, SequenceTheorems, TLAPS

-----------------------------------------------------------------------------
(* Checkpoints: each edit yields a checkpoint and touches only the fields  *)
(* it names.                                                               *)

\* The fields on which dispatching depends.
SameCalls(a, b) == a.steps = b.steps /\ a.pending = b.pending

\* A new execution has reserved, called and recorded nothing.
LEMMA NewCheckpointType ==
  ASSUME NEW maxSteps \in Nat, NEW maxRetries \in Nat
  PROVE  LET c == NewCheckpoint(maxSteps, maxRetries)
         IN  /\ c \in Checkpoint
             /\ c.iterations = 0 /\ c.pending = NoCall
             /\ c.steps = <<>>
BY DEF NewCheckpoint, Checkpoint, Status, Text

\* A lifecycle transition changes the status and the history, nothing else.
LEMMA TransitionType ==
  ASSUME NEW c \in Checkpoint, NEW next \in Status
  PROVE  /\ transition(c, next) \in Checkpoint
         /\ SameCalls(transition(c, next), c)
         /\ transition(c, next).iterations = c.iterations
         /\ transition(c, next).status \in {c.status, next}
<1> DEFINE t == [from |-> c.status, to |-> next]
<1>1. t \in Transition
  BY DEF Transition, Checkpoint
<1>2. Append(c.transitions, t) \in Seq(Transition)
  BY <1>1 DEF Checkpoint
<1>3. CASE validTransition(c.status, next)
  BY <1>2, <1>3 DEF transition, Checkpoint, SameCalls
<1>4. CASE ~validTransition(c.status, next)
  BY <1>4 DEF transition, SameCalls
<1> QED
  BY <1>3, <1>4

\* Setting an error, an output or the pending call keeps a checkpoint one.
LEMMA EditType ==
  ASSUME NEW c \in Checkpoint
  PROVE  /\ \A t \in Text : [c EXCEPT !.error = t] \in Checkpoint
         /\ \A t \in Text : [c EXCEPT !.output = t] \in Checkpoint
         /\ \A id \in ToolCall : [c EXCEPT !.pending = id] \in Checkpoint
         /\ [c EXCEPT !.iterations = @ + 1] \in Checkpoint
         /\ [c EXCEPT !.retries = @ + 1] \in Checkpoint
         /\ \A n \in Nat : [c EXCEPT !.revision = n] \in Checkpoint
         /\ \A v \in 1..3 : [c EXCEPT !.schema = v] \in Checkpoint
         /\ \A n \in Nat, v \in 1..3 :
              [c EXCEPT !.schema = v, !.revision = n] \in Checkpoint
<1>1. ASSUME NEW t \in Text PROVE [c EXCEPT !.error = t] \in Checkpoint
  BY DEF Checkpoint
<1>2. ASSUME NEW t \in Text PROVE [c EXCEPT !.output = t] \in Checkpoint
  BY DEF Checkpoint
<1>3. ASSUME NEW id \in ToolCall
      PROVE  [c EXCEPT !.pending = id] \in Checkpoint
  BY DEF Checkpoint
<1>4. [c EXCEPT !.iterations = @ + 1] \in Checkpoint
  BY DEF Checkpoint
<1>5. [c EXCEPT !.retries = @ + 1] \in Checkpoint
  <2>1. c.retries + 1 \in Nat
    BY DEF Checkpoint
  <2>2. \A n \in Nat : [c EXCEPT !.retries = n] \in Checkpoint
    BY DEF Checkpoint
  <2> QED
    BY <2>1, <2>2
<1>6. ASSUME NEW n \in Nat PROVE [c EXCEPT !.revision = n] \in Checkpoint
  BY DEF Checkpoint
<1>7. ASSUME NEW v \in 1..3 PROVE [c EXCEPT !.schema = v] \in Checkpoint
  BY DEF Checkpoint
<1>8. ASSUME NEW n \in Nat, NEW v \in 1..3
      PROVE  [c EXCEPT !.schema = v, !.revision = n] \in Checkpoint
  BY DEF Checkpoint
<1> QED
  BY <1>1, <1>2, <1>3, <1>4, <1>5, <1>6, <1>7, <1>8

\* The revision counts finitely many transitions.
LEMMA RevisionType ==
  ASSUME NEW c \in Checkpoint
  PROVE  checkpointRevision(c) \in Nat
<1>1. c.transitions \in Seq(Transition) /\ c.iterations \in Nat
      /\ c.retries \in Nat
  BY DEF Checkpoint
<1>2. IsFiniteSet(DOMAIN c.transitions)
  <2>1. DOMAIN c.transitions = 1..Len(c.transitions)
        /\ Len(c.transitions) \in Nat
    BY <1>1
  <2> QED
    BY <2>1, FS_Interval
<1>3. /\ Cardinality(ToolStarts(c)) \in Nat
      /\ Cardinality(ToolFinishes(c)) \in Nat
  BY <1>2, FS_Subset, FS_CardinalityType DEF ToolStarts, ToolFinishes
<1> QED
  BY <1>1, <1>3 DEF checkpointRevision

\* Settling the pending call moves it into the history.
LEMMA CompletePendingType ==
  ASSUME NEW c \in Checkpoint, NEW text \in Text, c.pending \in ToolCall
  PROVE  LET d == completePending(c, text)
         IN  /\ d \in Checkpoint
             /\ d.iterations = c.iterations
             /\ d.pending = NoCall
             /\ StepIDs(d) = StepIDs(c) \cup {c.pending}
<1> DEFINE s == NewStep(c, c.pending, text)
           t == transition(c, "running_model")
           d == completePending(c, text)
<1>1. t \in Checkpoint /\ t.steps = c.steps /\ t.iterations = c.iterations
  BY TransitionType DEF SameCalls, Status
<1>2. c.steps \in Seq(Step) /\ Len(c.steps) \in Nat
  BY DEF Checkpoint
<1>3. s \in Step /\ s.call = c.pending
  BY <1>2 DEF NewStep, Step
<1>4. Append(c.steps, s) \in Seq(Step)
  BY <1>2, <1>3
<1>5. d = [t EXCEPT !.steps = Append(c.steps, s), !.pending = NoCall]
  BY <1>1 DEF completePending
<1>6. /\ d \in Checkpoint /\ d.iterations = c.iterations /\ d.pending = NoCall
      /\ d.steps = Append(c.steps, s)
  BY <1>1, <1>4, <1>5 DEF Checkpoint
<1>7. /\ DOMAIN d.steps = (DOMAIN c.steps) \cup {Len(c.steps) + 1}
      /\ \A i \in DOMAIN c.steps : d.steps[i] = c.steps[i]
      /\ d.steps[Len(c.steps) + 1] = s
  BY <1>2, <1>3, <1>6
<1>8. StepIDs(d) = StepIDs(c) \cup {c.pending}
  BY <1>3, <1>7 DEF StepIDs
<1> QED
  BY <1>6, <1>8

-----------------------------------------------------------------------------
(* Types.                                                                  *)

Result == [status : Status \cup {"none"}, err : Errors]

\* Counting one more keeps a table of counters one.
LEMMA CountType ==
  ASSUME NEW S, NEW f \in [S -> Nat], NEW x
  PROVE  [f EXCEPT ![x] = @ + 1] \in [S -> Nat]
<1>1. CASE x \in S
  <2>1. f[x] + 1 \in Nat
    BY <1>1
  <2> QED
    BY <2>1
<1>2. CASE x \notin S
  BY <1>2
<1> QED
  BY <1>1, <1>2

\* A result is made of a status and an error.
LEMMA ResultType ==
  ASSUME NEW s \in Status \cup {"none"}, NEW e \in Errors
  PROVE  [status |-> s, err |-> e] \in Result
BY DEF Result

\* What a persist point writes is a checkpoint with the worker's progress.
LEMMA SnapshotType ==
  ASSUME TypeOK, NEW w \in Workers
  PROVE  /\ Snapshot(w) \in Checkpoint
         /\ Snapshot(w).schema \in 1..3
         /\ SameProgress(Snapshot(w), cur[w])
<1> DEFINE v == IF pc[w] = "recovered" THEN cur[w].schema ELSE 3
           n == checkpointRevision(cur[w])
<1>1. cur[w] \in Checkpoint
  BY DEF TypeOK
<1>2. n \in Nat
  BY <1>1, RevisionType
<1>3. v \in 1..3
  BY <1>1 DEF Checkpoint
<1>4. Snapshot(w) = [cur[w] EXCEPT !.schema = v, !.revision = n]
  BY DEF Snapshot
<1> HIDE DEF v, n
<1>5. Snapshot(w) \in Checkpoint
  <2>1. [cur[w] EXCEPT !.schema = v, !.revision = n] \in Checkpoint
    BY <1>1, <1>2, <1>3, EditType, Zenon
  <2> QED
    BY <1>4, <2>1, Zenon
<1>6. Snapshot(w).schema \in 1..3
  BY <1>5 DEF Checkpoint
<1>7. SameProgress(Snapshot(w), cur[w])
  BY <1>1, <1>4 DEF SameProgress, Checkpoint
<1> QED
  BY <1>5, <1>6, <1>7

\* Entering the loop starts the lifecycle and keeps the counters and calls.
LEMMA EnterType ==
  ASSUME NEW c \in Checkpoint
  PROVE  /\ Enter(c) \in Checkpoint
         /\ SameCalls(Enter(c), c)
         /\ Enter(c).iterations = c.iterations
BY TransitionType DEF Enter, Status, SameCalls

\* A terminal snapshot differs from the execution in its outcome only.
LEMMA OutcomeType ==
  ASSUME NEW c \in Checkpoint, NEW s \in Terminal, NEW t \in Text
  PROVE  /\ [transition(c, s) EXCEPT !.error = t] \in Checkpoint
         /\ SameCalls([transition(c, s) EXCEPT !.error = t], c)
         /\ [transition(c, s) EXCEPT !.error = t].iterations = c.iterations
         /\ [transition(c, s) EXCEPT !.output = t] \in Checkpoint
         /\ SameCalls([transition(c, s) EXCEPT !.output = t], c)
         /\ [transition(c, s) EXCEPT !.output = t].iterations = c.iterations
<1> DEFINE d == transition(c, s)
<1>1. s \in Status
  BY DEF Terminal, Status
<1>2. d \in Checkpoint /\ SameCalls(d, c) /\ d.iterations = c.iterations
  BY <1>1, TransitionType
<1> HIDE DEF d
<1>3. [d EXCEPT !.error = t] \in Checkpoint /\ [d EXCEPT !.output = t] \in Checkpoint
  BY <1>2, EditType
<1>4. /\ SameCalls([d EXCEPT !.error = t], c)
      /\ [d EXCEPT !.error = t].iterations = c.iterations
  BY <1>2 DEF SameCalls, Checkpoint
<1>5. /\ SameCalls([d EXCEPT !.output = t], c)
      /\ [d EXCEPT !.output = t].iterations = c.iterations
  BY <1>2 DEF SameCalls, Checkpoint
<1> QED
  BY <1>3, <1>4, <1>5 DEF d

\* Reserving an attempt advances the attempt counter and nothing else.
LEMMA ReserveType ==
  ASSUME NEW c \in Checkpoint
  PROVE  LET d == [Enter(c) EXCEPT !.iterations = @ + 1]
         IN  /\ d \in Checkpoint
             /\ SameCalls(d, c)
             /\ d.iterations = c.iterations + 1
<1> DEFINE e == Enter(c)
<1>1. e \in Checkpoint /\ SameCalls(e, c) /\ e.iterations = c.iterations
  BY EnterType
<1> HIDE DEF e
<1>2. [e EXCEPT !.iterations = @ + 1] \in Checkpoint
  BY <1>1, EditType
<1>3. /\ SameCalls([e EXCEPT !.iterations = @ + 1], c)
      /\ [e EXCEPT !.iterations = @ + 1].iterations = c.iterations + 1
  BY <1>1 DEF SameCalls, Checkpoint
<1> QED
  BY <1>2, <1>3 DEF e

\* Deciding on a tool call makes it the pending call and nothing else.
LEMMA DecisionType ==
  ASSUME NEW c \in Checkpoint, NEW id \in CallIDs
  PROVE  LET d == [transition(c, "running_tool") EXCEPT !.pending = id]
         IN  /\ d \in Checkpoint
             /\ d.steps = c.steps
             /\ d.pending = id
             /\ d.iterations = c.iterations
<1> DEFINE e == transition(c, "running_tool")
<1>1. e \in Checkpoint /\ SameCalls(e, c) /\ e.iterations = c.iterations
  BY TransitionType DEF Status
<1> HIDE DEF e
<1>2. [e EXCEPT !.pending = id] \in Checkpoint
  BY <1>1, EditType DEF ToolCall
<1>3. /\ [e EXCEPT !.pending = id].steps = c.steps
      /\ [e EXCEPT !.pending = id].pending = id
      /\ [e EXCEPT !.pending = id].iterations = c.iterations
  BY <1>1 DEF SameCalls, Checkpoint
<1> QED
  BY <1>2, <1>3 DEF e

\* Budgets of a runtime are a new execution's budgets.
LEMMA ConfigType ==
  ASSUME NEW w \in Workers
  PROVE  /\ NewCheckpoint(Config[w].maxSteps, Config[w].maxRetries)
              \in Checkpoint
         /\ Blank \in Checkpoint
<1>1. Config[w] \in RuntimeConfig /\ AttemptBound \in Nat
  BY HarnessAssumption
<1>2. Config[w].maxSteps \in Nat /\ Config[w].maxRetries \in Nat
  BY <1>1 DEF RuntimeConfig
<1> QED
  BY <1>2, NewCheckpointType DEF Blank

\* The three ways in which an action ends an invocation keep the types.
LEMMA ReturnType ==
  ASSUME TypeOK, NEW w \in Workers,
         NEW s \in Status \cup {"none"}, NEW e \in Errors,
         Return(w, s, e)
  PROVE  pc' \in [Workers -> PCs] /\ ret' \in [Workers -> Result]
<1>1. [status |-> s, err |-> e] \in Result
  BY ResultType
<1>2. ret \in [Workers -> Result] /\ pc \in [Workers -> PCs]
  BY DEF TypeOK, Result
<1> QED
  BY <1>1, <1>2 DEF Return, PCs, Active

\* Ending with a terminal snapshot yields a typed result and execution.
LEMMA FinishType ==
  ASSUME TypeOK, NEW w \in Workers, NEW c \in Checkpoint, NEW e \in Errors,
         Finish(w, c, e)
  PROVE  /\ pc' \in [Workers -> PCs] /\ ret' \in [Workers -> Result]
         /\ cur' \in [Workers -> Checkpoint]
<1>1. c.status \in Status
  BY DEF Checkpoint
<1>2. [status |-> c.status, err |-> e] \in Result
  BY <1>1, ResultType
<1>3. ret \in [Workers -> Result] /\ pc \in [Workers -> PCs]
      /\ cur \in [Workers -> Checkpoint]
  BY DEF TypeOK, Result
<1> QED
  BY <1>2, <1>3 DEF Finish, PCs, Active

\* The locals of a worker that is gone are blank, and typed.
LEMMA ForgetType ==
  ASSUME TypeOK, NEW w \in Workers, Forget(w)
  PROVE  /\ cur' \in [Workers -> Checkpoint]
         /\ saved' \in [Workers -> Checkpoint]
         /\ tok' \in [Workers -> Nat]
         /\ ctx' \in [Workers -> {"live", "cancelled", "lost"}]
BY ConfigType DEF TypeOK, Forget

\* The stored and the in-memory calls of earlier processes are calls.
LEMMA StepIDsType ==
  ASSUME NEW c \in Checkpoint
  PROVE  StepIDs(c) \subseteq ToolCall
<1>1. c.steps \in Seq(Step)
  BY DEF Checkpoint
<1>2. \A i \in DOMAIN c.steps : c.steps[i] \in Step
  BY <1>1
<1> QED
  BY <1>2 DEF StepIDs, Step

\* The initial states are typed, whatever an earlier process left behind.
LEMMA InitType == Init => TypeOK
<1> SUFFICES ASSUME Init PROVE TypeOK
  OBVIOUS
<1>1. record \in Checkpoint \cup {NoRecord}
  BY HarnessAssumption DEF Init
<1>2. effect \subseteq ToolCall
  <2>1. CASE record = NoRecord
    BY <2>1 DEF Init, EarlierEffects
  <2>2. CASE record # NoRecord
    <3>1. record \in Checkpoint
      BY <1>1, <2>2
    <3>2. record.pending \in ToolCall \cup {NoCall}
      BY <3>1 DEF Checkpoint
    <3>3. StepIDs(record) \subseteq ToolCall
      BY <3>1, StepIDsType
    <3> QED
      BY <2>2, <3>2, <3>3 DEF Init, EarlierEffects
  <2> QED
    BY <2>1, <2>2
<1>3. ASSUME NEW w \in Workers PROVE Blank \in Checkpoint
  BY ConfigType
<1>4. /\ cur \in [Workers -> Checkpoint]
      /\ saved \in [Workers -> Checkpoint]
  BY <1>3 DEF Init
<1>5. ret \in [Workers -> Result]
  BY ResultType DEF Init, Errors
<1> QED
  BY <1>1, <1>2, <1>4, <1>5, HarnessAssumption
  DEF Init, TypeOK, Result, PCs

\* Taking ownership keeps the types of the store and of the token.
LEMMA AcquireType ==
  ASSUME TypeOK, NEW w \in Workers, Acquire(w)
  PROVE  /\ token' \in Nat /\ leased' \in BOOLEAN
         /\ lock' \in Workers \cup {NoWorker}
         /\ tok' \in [Workers -> Nat]
<1>1. leased' \in BOOLEAN
  BY Zenon DEF TypeOK, Acquire
<1>2. token' \in Nat /\ tok' \in [Workers -> Nat]
  <2>1. CASE store = "lease"
    <3>1. token' = token + 1 /\ tok' = [tok EXCEPT ![w] = token + 1]
      BY <2>1, Zenon DEF Acquire
    <3> QED
      BY <3>1 DEF TypeOK
  <2>2. CASE store # "lease"
    BY <2>2 DEF TypeOK, Acquire
  <2> QED
    BY <2>1, <2>2
<1>3. lock' \in Workers \cup {NoWorker}
  BY Zenon DEF TypeOK, Acquire
<1> QED
  BY <1>1, <1>2, <1>3

\* Being refused ownership keeps the types.
LEMMA TurnedAwayType ==
  ASSUME TypeOK, NEW w \in Workers, NEW e \in Errors, TurnedAway(w, e),
         token' \in Nat, leased' \in BOOLEAN
  PROVE  TypeOK'
<1>1. [status |-> "none", err |-> e] \in Result
  BY ResultType
<1>2. ret' \in [Workers -> Result]
  BY <1>1 DEF TypeOK, TurnedAway, Result
<1> QED
  BY <1>2 DEF TypeOK, TurnedAway, Goto, Result, PCs, callVars

\* Returning from recovery without entering run keeps the types.
LEMMA DeclineType ==
  ASSUME TypeOK, NEW w \in Workers,
         NEW s \in Status \cup {"none"}, NEW e \in Errors,
         Decline(w, s, e)
  PROVE  TypeOK'
<1>1. pc' \in [Workers -> PCs] /\ ret' \in [Workers -> Result]
  BY ReturnType DEF Decline
<1> QED
  BY <1>1 DEF TypeOK, Decline, Result, storeVars, callVars

\* The entry of Run and Resume keeps the types.
LEMMA RunType ==
  ASSUME TypeOK, NEW w \in Workers, Run(w) \/ Resume(w)
  PROVE  TypeOK'
<1>1. ASSUME NEW e \in Errors, TurnedAway(w, e), UNCHANGED <<token, leased>>
      PROVE  TypeOK'
  BY <1>1, TurnedAwayType DEF TypeOK
<1>2. ASSUME AcquireBreaks(w) PROVE TypeOK'
  <2>1. leased' \in BOOLEAN
    BY <1>2, Zenon DEF AcquireBreaks, TypeOK
  <2>2. token' \in Nat
    BY <1>2 DEF AcquireBreaks, TypeOK
  <2> QED
    BY <1>2, <2>1, <2>2, TurnedAwayType DEF AcquireBreaks, Errors
<1>3. ASSUME Acquire(w), Goto(w, "create"),
             UNCHANGED <<store, record, ctx, ret, callVars, events>>,
             cur' = [cur EXCEPT ![w] = NewCheckpoint(Config[w].maxSteps,
                                                     Config[w].maxRetries)],
             saved' = [saved EXCEPT ![w] = NewCheckpoint(Config[w].maxSteps,
                                                     Config[w].maxRetries)]
      PROVE  TypeOK'
  BY <1>3, AcquireType, ConfigType
  DEF TypeOK, Goto, callVars, PCs, Active, PersistPoints
<1>4. ASSUME Acquire(w), Goto(w, "load"),
             UNCHANGED <<store, record, ctx, cur, saved, ret, callVars, events>>
      PROVE  TypeOK'
  BY <1>4, AcquireType DEF TypeOK, Goto, callVars, PCs, Active
<1>5. CASE Run(w)
  BY <1>1, <1>2, <1>3, <1>5 DEF Run, Errors
<1>6. CASE Resume(w)
  BY <1>1, <1>2, <1>4, <1>6 DEF Resume, Errors
<1> QED
  BY <1>5, <1>6

\* Settling the pending call keeps the types.
LEMMA SettleType ==
  ASSUME TypeOK, NEW w \in Workers, NEW there \in PersistPoints,
         SettlePending(w, there)
  PROVE  TypeOK'
<1>1. cur[w] \in Checkpoint /\ cur[w].pending \in ToolCall
  BY DEF TypeOK, SettlePending
<1>2. PICK text \in Texts :
        cur' = [cur EXCEPT ![w] = completePending(cur[w], text)]
  BY DEF SettlePending
<1>3. text \in Text
  BY HarnessAssumption DEF Text
<1>4. completePending(cur[w], text) \in Checkpoint
  BY <1>1, <1>3, CompletePendingType
<1>5. cur' \in [Workers -> Checkpoint]
  BY <1>2, <1>4 DEF TypeOK
<1> QED
  BY <1>5 DEF TypeOK, SettlePending, Goto, storeVars, callVars, PCs, Active

\* Loading, settling and declining keep the types.
LEMMA RecoveryType ==
  ASSUME TypeOK, NEW w \in Workers, Recovery(w)
  PROVE  TypeOK'
<1>1. cur[w] \in Checkpoint /\ cur[w].status \in Status
  BY DEF TypeOK, Checkpoint
<1>2. CASE LoadFails(w)
  BY <1>2, DeclineType DEF LoadFails, Errors
<1>3. CASE LoadDeclines(w)
  <2>1. record \in Checkpoint /\ record.status \in Status
    BY <1>3 DEF LoadDeclines, TypeOK, Checkpoint
  <2> QED
    BY <1>3, <2>1, DeclineType DEF LoadDeclines, Errors, Status
<1>4. ASSUME NEW c \in Checkpoint, DispatchReplay(w, c)
      PROVE  /\ pc' \in [Workers -> PCs] /\ ret' \in [Workers -> Result]
             /\ replayed' \in [CallIDs -> Nat]
  <2>1. c.status \in Status
    BY DEF Checkpoint
  <2>2. CASE Goto(w, "replay")
    BY <1>4, <2>2 DEF DispatchReplay, Goto, Return, TypeOK, PCs, Active,
                      Callbacks, Result
  <2>3. CASE ~Config[w].replays
    <3>1. UNCHANGED replayed
      BY <1>4, <2>3 DEF DispatchReplay
    <3> QED
      BY <1>4, <2>1, <2>3, <3>1, ReturnType DEF DispatchReplay, Errors, TypeOK
  <2> QED
    BY <1>4, <2>2, <2>3 DEF DispatchReplay
<1>5. CASE LoadResumes(w)
  <2>1. record \in Checkpoint
    BY <1>5 DEF LoadResumes, TypeOK
  <2>2. [record EXCEPT !.revision = 0] \in Checkpoint
    BY <2>1, EditType
  <2>3. cur' \in [Workers -> Checkpoint] /\ saved' \in [Workers -> Checkpoint]
    BY <1>5, <2>2 DEF LoadResumes, Adopt, TypeOK
  <2>4. /\ pc' \in [Workers -> PCs] /\ ret' \in [Workers -> Result]
        /\ replayed' \in [CallIDs -> Nat]
    <3>1. CASE DispatchReplay(w, record)
      BY <1>4, <2>1, <3>1
    <3>2. CASE ~DispatchReplay(w, record)
      BY <1>5, <3>2
      DEF LoadResumes, TypeOK, Goto, PCs, Active, Callbacks, Result
    <3> QED
      BY <3>1, <3>2
  <2> QED
    BY <1>5, <2>3, <2>4 DEF LoadResumes, TypeOK, storeVars, Result
<1>6. CASE ReconcileFails(w) \/ ReplayFails(w)
  BY <1>1, <1>6, DeclineType DEF ReconcileFails, ReplayFails, Errors
<1>7. CASE ReconcileUnknown(w)
  <2>1. /\ pc' \in [Workers -> PCs] /\ ret' \in [Workers -> Result]
        /\ replayed' \in [CallIDs -> Nat]
    BY <1>1, <1>4, <1>7 DEF ReconcileUnknown
  <2> QED
    BY <1>7, <2>1 DEF ReconcileUnknown, TypeOK, storeVars, Result
<1>8. CASE ReconcileCompleted(w) \/ ReplayCompleted(w)
  BY <1>8, SettleType DEF ReconcileCompleted, ReplayCompleted, PersistPoints
<1> QED
  BY <1>2, <1>3, <1>5, <1>6, <1>7, <1>8 DEF Recovery

\* Ending with a terminal result keeps the types.
LEMMA FinishStepType ==
  ASSUME TypeOK, NEW w \in Workers, NEW c \in Checkpoint, NEW e \in Errors,
         Finish(w, c, e),
         UNCHANGED <<storeVars, ctx, tok, saved, callVars, events>>
  PROVE  TypeOK'
<1>1. /\ pc' \in [Workers -> PCs] /\ ret' \in [Workers -> Result]
      /\ cur' \in [Workers -> Checkpoint]
  BY FinishType
<1> QED
  BY <1>1 DEF TypeOK, Result, storeVars, callVars

\* A step that only edits the execution and moves on keeps the types.
LEMMA EditStepType ==
  ASSUME TypeOK, NEW w \in Workers, NEW c \in Checkpoint, NEW there \in PCs,
         cur' = [cur EXCEPT ![w] = c], Goto(w, there),
         UNCHANGED <<storeVars, ctx, tok, saved, ret, callVars, events>>
  PROVE  TypeOK'
BY DEF TypeOK, Goto, storeVars, callVars

\* Writing a checkpoint, and failing to, keep the types.
LEMMA WriteType ==
  ASSUME TypeOK, NEW w \in Workers,
         Persist(w) \/ PersistTerminal(w) \/ PersistFails(w)
  PROVE  TypeOK'
<1>1. cur[w] \in Checkpoint /\ saved[w] \in Checkpoint
      /\ saved[w].status \in Status
  BY DEF TypeOK, Checkpoint
<1>2. Snapshot(w) \in Checkpoint /\ Snapshot(w).schema \in 1..3
  BY SnapshotType
<1>3. CASE Persist(w)
  <2> DEFINE c == [cur[w] EXCEPT !.schema = Snapshot(w).schema]
  <2>1. c \in Checkpoint
    BY <1>1, <1>2, EditType
  <2>2. cur' = [cur EXCEPT ![w] = c]
    BY <1>3 DEF Persist
  <2> HIDE DEF c
  <2>3. cur' \in [Workers -> Checkpoint]
    BY <2>1, <2>2 DEF TypeOK
  <2>4. saved' \in [Workers -> Checkpoint]
    BY <1>3, <2>3 DEF TypeOK, Persist
  <2>5. events' \in [Terminal \cup {"created"} -> Nat]
    BY <1>3, CountType DEF TypeOK, Persist
  <2>6. pc' \in [Workers -> PCs]
    <3>1. AfterPersist[pc[w]] \in PCs
      BY <1>3 DEF Persist, PersistPoints, AfterPersist, PCs, Active
    <3> QED
      BY <1>3, <3>1 DEF TypeOK, Persist, Goto
  <2> QED
    BY <1>2, <1>3, <2>3, <2>4, <2>5, <2>6 DEF TypeOK, Persist, callVars
<1>4. CASE PersistTerminal(w)
  <2>1. events' \in [Terminal \cup {"created"} -> Nat]
    BY <1>4, CountType DEF TypeOK, PersistTerminal
  <2> QED
    BY <1>1, <1>2, <1>4, <2>1
    DEF TypeOK, PersistTerminal, Goto, callVars, PCs, Active
<1>5. CASE PersistFails(w)
  <2>1. pc' \in [Workers -> PCs] /\ ret' \in [Workers -> Result]
    BY <1>1, <1>5, ReturnType DEF PersistFails, Errors
  <2> QED
    BY <1>2, <1>5, <2>1 DEF TypeOK, PersistFails, Result, callVars
<1> QED
  BY <1>3, <1>4, <1>5

\* The steps of the model/tool loop keep the types.
LEMMA LoopType ==
  ASSUME TypeOK, NEW w \in Workers, Loop(w)
  PROVE  TypeOK'
<1>1. cur[w] \in Checkpoint
  BY DEF TypeOK
<1>2. Texts \subseteq Text /\ "ok" \in Text
  BY HarnessAssumption DEF Text
<1>3. "failed" \in Terminal /\ "cancelled" \in Terminal
      /\ "completed" \in Terminal
  BY DEF Terminal
<1>4. "failed" \in Errors /\ "context" \in Errors /\ "nil" \in Errors
  BY DEF Errors
<1>5. CASE Persist(w) \/ PersistTerminal(w) \/ PersistFails(w)
  BY <1>5, WriteType
<1>6. CASE ContextDone(w)
  <2>3. PICK text \in {"ok", "bad"} :
          /\ Finish(w, [transition(Enter(cur[w]), "cancelled") EXCEPT !.error = text],
                    "context")
          /\ UNCHANGED <<storeVars, ctx, tok, saved, callVars, events>>
    BY <1>6, HarnessAssumption DEF ContextDone
  <2> DEFINE c == [transition(Enter(cur[w]), "cancelled") EXCEPT !.error = text]
  <2>1. c \in Checkpoint
    BY <1>1, <1>2, <1>3, EnterType, OutcomeType DEF Text
  <2>2. /\ Finish(w, c, "context")
        /\ UNCHANGED <<storeVars, ctx, tok, saved, callVars, events>>
    BY <2>3
  <2> HIDE DEF c
  <2> QED
    BY <1>4, <2>1, <2>2, FinishStepType
<1>7. CASE ReserveAttempt(w)
  <2> DEFINE c == [Enter(cur[w]) EXCEPT !.iterations = @ + 1]
  <2>1. c \in Checkpoint
    BY <1>1, ReserveType
  <2>2. /\ cur' = [cur EXCEPT ![w] = c] /\ Goto(w, "attempt")
        /\ UNCHANGED <<storeVars, ctx, tok, saved, ret, callVars, events>>
    BY <1>7 DEF ReserveAttempt
  <2>3. "attempt" \in PCs
    BY DEF PCs, Active, PersistPoints
  <2> HIDE DEF c
  <2> QED
    BY <2>1, <2>2, <2>3, EditStepType
<1>8. CASE CallModel(w)
  <2>1. started' \in [1..AttemptBound -> Nat]
    BY <1>8, CountType DEF TypeOK, CallModel
  <2> QED
    BY <1>8, <2>1
    DEF TypeOK, CallModel, Goto, storeVars, PCs, Active, Callbacks
<1>9. CASE ModelRetries(w)
  <2> DEFINE c == [cur[w] EXCEPT !.retries = @ + 1]
  <2>1. c \in Checkpoint
    BY <1>1, EditType
  <2>2. /\ cur' = [cur EXCEPT ![w] = c] /\ Goto(w, "retry")
        /\ UNCHANGED <<storeVars, ctx, tok, saved, ret, callVars, events>>
    BY <1>9 DEF ModelRetries
  <2>3. "retry" \in PCs
    BY DEF PCs, Active, PersistPoints
  <2> HIDE DEF c
  <2> QED
    BY <2>1, <2>2, <2>3, EditStepType
<1>10. CASE BackoffElapses(w)
  BY <1>10 DEF TypeOK, BackoffElapses, Goto, storeVars, callVars, PCs, Active
<1>11. CASE ModelFinal(w)
  <2>1. PICK t \in Texts :
          Finish(w, [transition(cur[w], "completed") EXCEPT !.output = t], "nil")
    BY <1>11 DEF ModelFinal
  <2> DEFINE c == [transition(cur[w], "completed") EXCEPT !.output = t]
  <2>2. c \in Checkpoint
    BY <1>1, <1>2, <1>3, OutcomeType
  <2>3. /\ Finish(w, c, "nil")
        /\ UNCHANGED <<storeVars, ctx, tok, saved, callVars, events>>
    BY <1>11, <2>1 DEF ModelFinal
  <2> HIDE DEF c
  <2> QED
    BY <1>4, <2>2, <2>3, FinishStepType
<1>12. CASE Fails(w)
  <2>1. PICK d \in {cur[w], Enter(cur[w])}, t \in Text :
          Finish(w, [transition(d, "failed") EXCEPT !.error = t], "failed")
    BY <1>2, <1>12 DEF Fails, Fail
  <2> DEFINE c == [transition(d, "failed") EXCEPT !.error = t]
  <2>2. c \in Checkpoint
    BY <1>1, <1>3, EnterType, OutcomeType
  <2>3. /\ Finish(w, c, "failed")
        /\ UNCHANGED <<storeVars, ctx, tok, saved, callVars, events>>
    BY <1>12, <2>1 DEF Fails
  <2> HIDE DEF c
  <2> QED
    BY <1>4, <2>2, <2>3, FinishStepType
<1>13. CASE ToolDecision(w)
  <2>1. PICK id \in CallIDs :
          cur' = [cur EXCEPT ![w] =
                    [transition(cur[w], "running_tool") EXCEPT !.pending = id]]
    BY <1>13 DEF ToolDecision
  <2> DEFINE c == [transition(cur[w], "running_tool") EXCEPT !.pending = id]
  <2>2. c \in Checkpoint
    BY <1>1, DecisionType
  <2>3. /\ cur' = [cur EXCEPT ![w] = c] /\ Goto(w, "intent")
        /\ UNCHANGED <<storeVars, ctx, tok, saved, ret, callVars, events>>
    BY <1>13, <2>1 DEF ToolDecision
  <2>4. "intent" \in PCs
    BY DEF PCs, Active, PersistPoints
  <2> HIDE DEF c
  <2> QED
    BY <2>2, <2>3, <2>4, EditStepType
<1>14. CASE CallTool(w)
  <2>1. executed' \in [CallIDs -> Nat]
    BY <1>14, CountType DEF TypeOK, CallTool
  <2> QED
    BY <1>14, <2>1
    DEF TypeOK, CallTool, Goto, storeVars, PCs, Active, Callbacks
<1>15. CASE ToolCompleted(w)
  BY <1>15, SettleType DEF ToolCompleted, PersistPoints
<1>16. CASE CallbackPanics(w)
  BY <1>16, DeclineType DEF CallbackPanics, Errors
<1>17. CASE Release(w)
  <2>1. leased' \in BOOLEAN
    BY <1>17, Zenon DEF Release, TypeOK
  <2>2. /\ cur' \in [Workers -> Checkpoint] /\ saved' \in [Workers -> Checkpoint]
        /\ tok' \in [Workers -> Nat]
        /\ ctx' \in [Workers -> {"live", "cancelled", "lost"}]
    BY <1>17, ForgetType DEF Release
  <2> QED
    BY <1>17, <2>1, <2>2 DEF Release, TypeOK, Goto, callVars, PCs
<1> QED
  BY <1>5, <1>6, <1>7, <1>8, <1>9, <1>10, <1>11, <1>12, <1>13, <1>14, <1>15,
     <1>16, <1>17 DEF Loop

\* Every step keeps the types.
LEMMA NextType == TypeOK /\ [Next]_vars => TypeOK'
<1> SUFFICES ASSUME TypeOK, [Next]_vars PROVE TypeOK'
  OBVIOUS
<1>1. ASSUME NEW w \in Workers, Proceed(w) PROVE TypeOK'
  BY <1>1, RecoveryType, LoopType DEF Proceed
<1>2. ASSUME NEW w \in Workers, Crash(w) PROVE TypeOK'
  <2>1. /\ cur' \in [Workers -> Checkpoint] /\ saved' \in [Workers -> Checkpoint]
        /\ tok' \in [Workers -> Nat]
        /\ ctx' \in [Workers -> {"live", "cancelled", "lost"}]
    BY <1>2, ForgetType DEF Crash
  <2> QED
    BY <1>2, <2>1 DEF Crash, TypeOK, Goto, callVars, PCs
<1>3. ASSUME NEW w \in Workers, Cancel(w) \/ LoseLease(w) PROVE TypeOK'
  BY <1>3 DEF Cancel, LoseLease, TypeOK, storeVars, callVars
<1>4. CASE ExpireLease
  <2>1. leased' \in BOOLEAN
    BY <1>4, Zenon DEF ExpireLease
  <2> QED
    BY <1>4, <2>1 DEF ExpireLease, TypeOK, workerVars, callVars
<1>5. ASSUME NEW id \in CallIDs, ToolEffect(id) PROVE TypeOK'
  BY <1>5 DEF ToolEffect, TypeOK, storeVars, workerVars, ToolCall
<1>6. CASE UNCHANGED vars
  BY <1>6 DEF vars, storeVars, workerVars, callVars, TypeOK
<1>7. CASE AllOver
  BY <1>6, <1>7 DEF AllOver
<1> QED
  BY <1>1, <1>2, <1>3, <1>4, <1>5, <1>6, <1>7, RunType DEF Next

\* Run and Resume keep every variable in its type.
THEOREM TypeCorrect == Spec => []TypeOK
BY InitType, NextType, PTL DEF Spec

-----------------------------------------------------------------------------
(***************************************************************************)
(* Part 2.  Run and Resume dispatch a model attempt and an Execute at most *)
(* once, and never ahead of the checkpoint that reserves it, however many  *)
(* workers there are and whatever crashes, expires or fails.               *)
(*                                                                         *)
(* The argument has three layers.  Exclusive: at most one worker can write *)
(* (by token, flock, or by having created the record).  Known: the worker  *)
(* that can write knows the record, and what it is about to write extends  *)
(* it, so that the record only ever grows.  Once: what is about to be      *)
(* dispatched is in the record, was never dispatched, and is about to be   *)
(* dispatched by nobody else.                                              *)
(***************************************************************************)

-----------------------------------------------------------------------------
(* The inductive invariant.                                                *)

\* Tokens are given out once; a worker of a lease store has one.
TokensApart ==
  /\ \A w \in Workers : tok[w] <= token
  /\ \A w, v \in Workers : tok[w] = tok[v] /\ tok[w] > 0 => w = v
  /\ store = "lease" => \A w \in Workers : pc[w] \in Active => tok[w] > 0

\* A worker of a lock store holds the flock.
LockHeld ==
  store = "lock" => \A w \in Workers : pc[w] \in Active => lock = w

\* A store without ownership has served at most the Run that created the
\* record.
CreatorAlone ==
  store = "plain" =>
    /\ \A w \in Workers : pc[w] # "load"
    /\ \A w \in Workers : pc[w] \in Working => record # NoRecord
    /\ \A w, v \in Workers :
         pc[w] \in Working /\ pc[v] \in Working => w = v

Exclusive == TokensApart /\ LockHeld /\ CreatorAlone

SameCounts(a, b) == a.iterations = b.iterations /\ SameCalls(a, b)

\* What a worker is about to write extends what it has last saved.
Extends(w) ==
  LET c == cur[w]
      s == saved[w]
  IN  /\ pc[w] \in {"create", "top", "retry", "backoff", "call_model", "model",
                    "call_tool", "tool", "reconcile", "replay", "terminal"}
           => SameCounts(c, s)
      /\ pc[w] = "attempt" => c.iterations = s.iterations + 1 /\ SameCalls(c, s)
      /\ pc[w] = "intent" =>
           /\ c.iterations = s.iterations /\ c.steps = s.steps
           /\ s.pending = NoCall
           /\ c.pending \in CallIDs \ StepIDs(c)
      /\ pc[w] \in {"step", "recovered"} =>
           /\ c.iterations = s.iterations
           /\ c.pending = NoCall
           /\ StepIDs(c) = StepIDs(s) \cup {s.pending}
      /\ pc[w] \in {"create", "top", "attempt", "call_model", "model", "retry",
                    "backoff"} => c.pending = NoCall
      /\ pc[w] \in {"call_tool", "tool", "reconcile", "replay"} =>
           c.pending \in CallIDs

Known == OwnerKnowsRecord /\ \A w \in Workers : Extends(w)

\* Call id is in the stored checkpoint.
Recorded(id) ==
  record # NoRecord /\ id \in StepIDs(record) \cup {record.pending}

\* Attempt n is in the stored checkpoint.
Reserved(n) == record # NoRecord /\ n <= record.iterations

AttemptsOnce ==
  /\ \A n \in 1..AttemptBound : started[n] <= 1
  /\ \A n \in 1..AttemptBound : started[n] > 0 => Reserved(n)
  /\ \A w \in Workers : pc[w] = "call_model" =>
       /\ Reserved(cur[w].iterations)
       /\ cur[w].iterations \in 1..AttemptBound =>
            started[cur[w].iterations] = 0
  /\ \A w, v \in Workers :
       pc[w] = "call_model" /\ pc[v] = "call_model"
         /\ cur[w].iterations = cur[v].iterations => w = v

CallsOnce ==
  /\ \A id \in CallIDs : executed[id] <= 1
  /\ \A id \in CallIDs : executed[id] > 0 \/ replayed[id] > 0 => Recorded(id)
  /\ \A w \in Workers : pc[w] \in {"call_tool", "reconcile"} =>
       Recorded(cur[w].pending)
  /\ \A w \in Workers : pc[w] = "call_tool" => executed[cur[w].pending] = 0
  /\ \A w, v \in Workers :
       pc[w] = "call_tool" /\ pc[v] = "call_tool"
         /\ cur[w].pending = cur[v].pending => w = v

\* Whatever any worker would record as a step has happened.
StepsBacked ==
  /\ StepsHappened
  /\ \A w \in Workers :
       /\ StepIDs(saved[w]) \subseteq effect
       /\ pc[w] \in {"step", "recovered"} => saved[w].pending \in effect

IInv ==
  /\ TypeOK /\ Exclusive /\ Known
  /\ AttemptsOnce /\ CallsOnce /\ StepsBacked

-----------------------------------------------------------------------------
(* The five kinds of steps, by what they do to what workers share.         *)

\* A step of w leaves the other workers alone.
OthersKeep(w) ==
  \A v \in Workers \ {w} :
    pc'[v] = pc[v] /\ tok'[v] = tok[v] /\ cur'[v] = cur[v] /\ saved'[v] = saved[v]

\* Time, the caller, the renewal goroutine and the external tool.
Outside ==
  /\ UNCHANGED <<store, record, token, lock, pc, tok, cur, saved, started,
                 executed, replayed>>
  /\ leased' => leased
  /\ effect \subseteq effect'

\* w is refused ownership, releases it, or dies.
Leaves(w) ==
  /\ OthersKeep(w)
  /\ UNCHANGED <<store, record, started, executed, replayed, effect>>
  /\ pc'[w] \in {"done", "crashed"}
  /\ tok'[w] \in {0, tok[w]}
  /\ saved'[w] \in {Blank, saved[w]}
  /\ lock' = lock \/ lock = w
  /\ token' = token + 1 \/ (token' = token /\ (leased' => leased))

\* w takes ownership; its first snapshot, if any, is that of a new execution.
Takes(w) ==
  /\ Acquire(w)
  /\ OthersKeep(w)
  /\ UNCHANGED <<store, record, started, executed, replayed, effect>>
  /\ pc'[w] \in {"create", "load"}
  /\ pc'[w] = "load" => store # "plain" /\ UNCHANGED saved
  /\ pc'[w] = "create" =>
       /\ cur'[w] = saved'[w] /\ cur'[w].steps = <<>>
       /\ cur'[w].pending = NoCall

\* w moves between two store operations.
Moves(w) ==
  /\ UNCHANGED <<storeVars, tok, effect>>
  /\ OthersKeep(w)
  /\ pc[w] \in Working \cup {"load"}
  /\ pc'[w] \in (Working \cup {"release"}) \ {"call_model", "call_tool"}
  /\ pc[w] # "load" => saved'[w] = saved[w]
  /\ pc[w] = "load" =>
       \/ saved'[w] = saved[w] /\ pc'[w] = "release"
       \/ /\ record # NoRecord /\ SameProgress(record, saved'[w])
          /\ cur'[w] = saved'[w]
  /\ \/ UNCHANGED started
     \/ /\ pc[w] = "call_model"
        /\ started' = [started EXCEPT ![cur[w].iterations] = @ + 1]
  /\ \/ UNCHANGED executed
     \/ /\ pc[w] = "call_tool"
        /\ executed' = [executed EXCEPT ![cur[w].pending] = @ + 1]
  /\ \/ UNCHANGED replayed
     \/ /\ pc[w] = "load" /\ record # NoRecord
        /\ replayed' = [replayed EXCEPT ![record.pending] = @ + 1]
     \/ /\ pc[w] = "reconcile"
        /\ replayed' = [replayed EXCEPT ![cur[w].pending] = @ + 1]
  /\ pc'[w] = "reconcile" => pc[w] = "load"

\* w's write takes effect.
WriteDone(w) ==
  /\ Accepts(w)
  /\ record' = Snapshot(w)
  /\ \/ pc'[w] = "release"
     \/ /\ pc[w] \in PersistPoints
        /\ pc'[w] = AfterPersist[pc[w]]
        /\ SameProgress(cur'[w], cur[w])
        /\ saved'[w] = cur'[w]

\* w writes; a failed write ends the invocation.
Writes(w) ==
  /\ UNCHANGED <<store, token, leased, lock, tok, callVars>>
  /\ OthersKeep(w)
  /\ pc[w] \in PersistPoints \cup {"terminal"}
  /\ saved'[w] = saved[w] \/ SameProgress(saved'[w], cur[w])
  /\ WriteDone(w) \/ (UNCHANGED record /\ pc'[w] = "release")

-----------------------------------------------------------------------------

\* Run and Resume take ownership or are turned away.
LEMMA EntryKind ==
  ASSUME TypeOK, NEW w \in Workers, Run(w) \/ Resume(w)
  PROVE  Takes(w) \/ Leaves(w)
<1>1. ASSUME NEW e, TurnedAway(w, e),
             UNCHANGED <<token, leased>> \/ token' = token + 1
      PROVE  Leaves(w)
  <2>1. OthersKeep(w) /\ pc'[w] = "done" /\ tok'[w] = tok[w] /\ saved' = saved
    BY <1>1 DEF TypeOK, TurnedAway, OthersKeep, Goto
  <2>2. UNCHANGED <<store, record, lock, started, executed, replayed, effect>>
    BY <1>1 DEF TurnedAway, callVars
  <2>3. token' = token + 1 \/ (token' = token /\ (leased' => leased))
    BY <1>1, Zenon
  <2> QED
    BY <2>1, <2>2, <2>3 DEF Leaves
<1>2. ASSUME AcquireBreaks(w) PROVE Leaves(w)
  BY <1>1, <1>2 DEF AcquireBreaks
<1>3. ASSUME Acquire(w), Goto(w, "create"),
             UNCHANGED <<store, record, ctx, ret, callVars, events>>,
             cur' = [cur EXCEPT ![w] = NewCheckpoint(Config[w].maxSteps,
                                                     Config[w].maxRetries)],
             saved' = [saved EXCEPT ![w] = NewCheckpoint(Config[w].maxSteps,
                                                     Config[w].maxRetries)]
      PROVE  Takes(w)
  <2> DEFINE c == NewCheckpoint(Config[w].maxSteps, Config[w].maxRetries)
  <2>1. c.steps = <<>> /\ c.pending = NoCall
    BY DEF NewCheckpoint
  <2>2. \A v \in Workers \ {w} : tok'[v] = tok[v]
    <3>1. tok' = tok \/ tok' = [tok EXCEPT ![w] = token + 1]
      BY <1>3, Zenon DEF Acquire
    <3> QED
      BY <3>1 DEF TypeOK
  <2> HIDE DEF c
  <2>3. cur' = [cur EXCEPT ![w] = c] /\ saved' = [saved EXCEPT ![w] = c]
    BY <1>3 DEF c
  <2>4. OthersKeep(w)
    BY <1>3, <2>2, <2>3 DEF TypeOK, OthersKeep, Goto
  <2>5. pc'[w] = "create" /\ cur'[w] = c /\ saved'[w] = c
    BY <1>3, <2>3 DEF TypeOK, Goto
  <2> QED
    BY <1>3, <2>1, <2>4, <2>5 DEF Takes, callVars
<1>4. ASSUME store # "plain", Acquire(w), Goto(w, "load"),
             UNCHANGED <<store, record, ctx, cur, saved, ret, callVars, events>>
      PROVE  Takes(w)
  <2>1. tok' = tok \/ tok' = [tok EXCEPT ![w] = token + 1]
    BY <1>4, Zenon DEF Acquire
  <2>2. OthersKeep(w) /\ pc'[w] = "load"
    BY <1>4, <2>1 DEF TypeOK, OthersKeep, Goto
  <2> QED
    BY <1>4, <2>2 DEF Takes, callVars
<1>5. CASE Run(w)
  BY <1>1, <1>2, <1>3, <1>5 DEF Run
<1>6. CASE Resume(w)
  BY <1>1, <1>2, <1>4, <1>6 DEF Resume
<1> QED
  BY <1>5, <1>6

\* Releasing and crashing leave.
LEMMA ExitKind ==
  ASSUME TypeOK, NEW w \in Workers, Release(w) \/ Crash(w)
  PROVE  Leaves(w)
<1>1. /\ UNCHANGED <<store, record, token, started, executed, replayed, effect>>
      /\ lock' = lock \/ lock = w
      /\ Forget(w)
      /\ Goto(w, "done") \/ Goto(w, "crashed")
  BY DEF Release, Crash, callVars
<1>2. leased' => leased
  BY Zenon DEF Release, Crash
<1>3. /\ OthersKeep(w) /\ pc'[w] \in {"done", "crashed"}
      /\ tok'[w] = 0 /\ saved'[w] = Blank
  BY <1>1 DEF TypeOK, OthersKeep, Goto, Forget
<1> QED
  BY <1>1, <1>2, <1>3 DEF Leaves, TypeOK

\* A checkpoint write is acknowledged and moves on, or ends the invocation.
LEMMA WriteKind ==
  ASSUME TypeOK, NEW w \in Workers,
         Persist(w) \/ PersistTerminal(w) \/ PersistFails(w)
  PROVE  Writes(w)
<1>1. cur[w] \in Checkpoint
  BY DEF TypeOK
<1>2. CASE Persist(w)
  <2> DEFINE c == [cur[w] EXCEPT !.schema = Snapshot(w).schema]
  <2>1. cur' = [cur EXCEPT ![w] = c] /\ saved' = [saved EXCEPT ![w] = cur'[w]]
    BY <1>2 DEF Persist
  <2>2. SameProgress(c, cur[w]) /\ c.steps = cur[w].steps
    BY <1>1 DEF SameProgress, Checkpoint
  <2> HIDE DEF c
  <2>3. cur'[w] = c /\ saved'[w] = c
    BY <2>1 DEF TypeOK
  <2>4. OthersKeep(w)
    BY <1>2, <2>1 DEF TypeOK, OthersKeep, Persist, Goto
  <2>5. pc'[w] = AfterPersist[pc[w]]
    BY <1>2 DEF TypeOK, Persist, Goto
  <2> QED
    BY <1>2, <2>2, <2>3, <2>4, <2>5 DEF Persist, Writes, WriteDone
<1>3. CASE PersistTerminal(w)
  <2>1. OthersKeep(w) /\ pc'[w] = "release" /\ saved'[w] = cur[w]
    BY <1>3 DEF TypeOK, OthersKeep, PersistTerminal, Goto
  <2> QED
    BY <1>3, <2>1 DEF PersistTerminal, Writes, WriteDone, At, SameProgress
<1>4. CASE PersistFails(w)
  <2>1. OthersKeep(w) /\ pc'[w] = "release"
    BY <1>4 DEF TypeOK, OthersKeep, PersistFails, Return
  <2> QED
    BY <1>4, <2>1 DEF PersistFails, Writes, WriteDone
<1> QED
  BY <1>2, <1>3, <1>4

\* Nothing outside the workers changes what they have or what is stored.
LEMMA OutsideKind ==
  ASSUME TypeOK,
         \/ \E w \in Workers : Cancel(w) \/ LoseLease(w)
         \/ ExpireLease
         \/ \E id \in CallIDs : ToolEffect(id)
         \/ AllOver
         \/ UNCHANGED vars
  PROVE  Outside
<1>1. /\ UNCHANGED <<store, record, token, lock, pc, tok, cur, saved, started,
                     executed, replayed>>
      /\ effect \subseteq effect'
  BY DEF Cancel, LoseLease, ExpireLease, ToolEffect, AllOver, vars, storeVars,
         workerVars, callVars
<1>2. leased' => leased
  <2>1. CASE ExpireLease
    BY <2>1, Zenon DEF ExpireLease
  <2>2. CASE ~ExpireLease
    <3>1. leased' = leased
      BY <2>2 DEF Cancel, LoseLease, ToolEffect, AllOver, vars, storeVars
    <3> QED
      BY <3>1, Zenon
  <2> QED
    BY <2>1, <2>2
<1> QED
  BY <1>1, <1>2 DEF Outside

\* The steps that Moves describes.
MoveStep(w) ==
  \/ Recovery(w)
  \/ ContextDone(w) \/ ReserveAttempt(w) \/ CallModel(w) \/ ModelRetries(w)
  \/ BackoffElapses(w) \/ ModelFinal(w) \/ Fails(w) \/ ToolDecision(w)
  \/ CallTool(w) \/ ToolCompleted(w) \/ CallbackPanics(w)

\* A step of w that only moves on and edits its execution is a move.
LEMMA EditKind ==
  ASSUME TypeOK, NEW w \in Workers, NEW p, NEW c,
         pc' = [pc EXCEPT ![w] = p],
         cur' = [cur EXCEPT ![w] = c] \/ UNCHANGED cur,
         UNCHANGED <<storeVars, tok, saved, callVars>>,
         pc[w] \in Working \cup {"load"},
         p \in (Working \cup {"release"}) \ {"call_model", "call_tool",
                                             "reconcile"},
         pc[w] = "load" => p = "release"
  PROVE  Moves(w)
BY DEF TypeOK, Moves, OthersKeep, callVars

\* Declining is a move to the release.
LEMMA DeclineKind ==
  ASSUME TypeOK, NEW w \in Workers, NEW s, NEW e, Decline(w, s, e),
         pc[w] \in Working \cup {"load"}
  PROVE  Moves(w) /\ pc'[w] = "release"
<1>1. /\ pc' = [pc EXCEPT ![w] = "release"] /\ UNCHANGED cur
      /\ UNCHANGED <<storeVars, tok, saved, callVars>>
  BY DEF Decline, Return
<1>2. "release" \in (Working \cup {"release"}) \ {"call_model", "call_tool",
                                                   "reconcile"}
  OBVIOUS
<1>3. pc'[w] = "release"
  BY <1>1 DEF TypeOK
<1> QED
  BY <1>1, <1>2, <1>3, EditKind

\* Finishing is a move to the terminal write.
LEMMA FinishKind ==
  ASSUME TypeOK, NEW w \in Workers, NEW c, NEW e, Finish(w, c, e),
         UNCHANGED <<storeVars, ctx, tok, saved, callVars, events>>,
         pc[w] \in Working
  PROVE  Moves(w)
<1>1. /\ pc' = [pc EXCEPT ![w] = "terminal"] /\ cur' = [cur EXCEPT ![w] = c]
      /\ UNCHANGED <<storeVars, tok, saved, callVars>>
  BY DEF Finish
<1>2. "terminal" \in (Working \cup {"release"}) \ {"call_model", "call_tool",
                                                    "reconcile"}
  BY DEF Working, Active
<1>3. pc[w] # "load"
  BY DEF Working
<1> QED
  BY <1>1, <1>2, <1>3, EditKind

\* Loading a resumable checkpoint is a move.
LEMMA ResumesKind ==
  ASSUME TypeOK, NEW w \in Workers, LoadResumes(w)
  PROVE  /\ Moves(w)
         /\ cur'[w] = saved'[w] /\ SameProgress(record, saved'[w])
<1> DEFINE c == [record EXCEPT !.revision = 0]
<1>1. record \in Checkpoint /\ record # NoRecord
  BY DEF LoadResumes, TypeOK
<1>2. SameProgress(record, c)
  BY <1>1 DEF SameProgress, Checkpoint
<1>3. cur' = [cur EXCEPT ![w] = c] /\ saved' = [saved EXCEPT ![w] = c]
  BY DEF LoadResumes, Adopt
<1> HIDE DEF c
<1>4. cur'[w] = c /\ saved'[w] = c
  BY <1>3 DEF TypeOK
<1>5. /\ \E p \in {"top", "reconcile", "replay", "release"} :
           pc' = [pc EXCEPT ![w] = p]
      /\ \/ UNCHANGED replayed
         \/ replayed' = [replayed EXCEPT ![record.pending] = @ + 1]
      /\ pc[w] = "load"
      /\ UNCHANGED <<storeVars, tok, started, executed, effect>>
  BY DEF LoadResumes, DispatchReplay, Goto, Return, At
<1>6. OthersKeep(w) /\ pc'[w] \in {"top", "reconcile", "replay", "release"}
  BY <1>3, <1>5 DEF TypeOK, OthersKeep
<1>7. {"top", "reconcile", "replay", "release"}
        \subseteq (Working \cup {"release"}) \ {"call_model", "call_tool"}
  BY DEF Working, Active, Callbacks, PersistPoints
<1> QED
  BY <1>1, <1>2, <1>4, <1>5, <1>6, <1>7 DEF Moves

\* Every step between two store operations is a move.
LEMMA MoveKind ==
  ASSUME TypeOK, NEW w \in Workers, MoveStep(w)
  PROVE  Moves(w)
<1>1. Callbacks \cup {"top", "call_model", "backoff", "call_tool"}
        \subseteq Working
  BY DEF Working, Active, Callbacks, PersistPoints
<1>2. /\ "model" \in Callbacks /\ "tool" \in Callbacks
      /\ "reconcile" \in Callbacks /\ "replay" \in Callbacks
  BY DEF Callbacks
<1>3. {"replay", "recovered", "attempt", "model", "retry", "top", "intent",
       "tool", "step"}
        \subseteq (Working \cup {"release"}) \ {"call_model", "call_tool",
                                                "reconcile"}
  BY DEF Working, Active, Callbacks, PersistPoints
<1>4. "load" \notin Working
  BY DEF Working
<1>5. CASE LoadFails(w) \/ LoadDeclines(w)
  BY <1>5, DeclineKind DEF LoadFails, LoadDeclines, At
<1>6. CASE LoadResumes(w)
  BY <1>6, ResumesKind
<1>7. CASE ReconcileFails(w) \/ ReplayFails(w) \/ CallbackPanics(w)
  BY <1>1, <1>2, <1>7, DeclineKind
  DEF ReconcileFails, ReplayFails, CallbackPanics, At
<1>8. CASE ReconcileUnknown(w)
  <2>1. /\ pc[w] = "reconcile"
        /\ \/ pc' = [pc EXCEPT ![w] = "replay"]
           \/ pc' = [pc EXCEPT ![w] = "release"]
        /\ \/ UNCHANGED replayed
           \/ replayed' = [replayed EXCEPT ![cur[w].pending] = @ + 1]
        /\ UNCHANGED <<storeVars, tok, cur, saved, started, executed, effect>>
    BY <1>8 DEF ReconcileUnknown, DispatchReplay, Goto, Return, At
  <2>2. OthersKeep(w) /\ pc'[w] \in {"replay", "release"}
    BY <2>1 DEF TypeOK, OthersKeep
  <2> QED
    BY <1>1, <1>2, <1>3, <2>1, <2>2 DEF Moves
<1>9. ASSUME NEW p \in {"recovered", "step"}, SettlePending(w, p),
             pc[w] \in Callbacks
      PROVE  Moves(w)
  <2>1. PICK c : cur' = [cur EXCEPT ![w] = c]
    BY <1>9 DEF SettlePending
  <2> QED
    BY <1>1, <1>3, <1>4, <1>9, <2>1, EditKind DEF SettlePending, Goto
<1>10. CASE ReconcileCompleted(w) \/ ReplayCompleted(w) \/ ToolCompleted(w)
  BY <1>2, <1>9, <1>10 DEF ReconcileCompleted, ReplayCompleted, ToolCompleted, At
<1>11. CASE ContextDone(w)
  BY <1>1, <1>2, <1>11, FinishKind DEF ContextDone
<1>12. CASE ModelFinal(w)
  BY <1>1, <1>2, <1>12, FinishKind DEF ModelFinal, At
<1>13. CASE Fails(w)
  BY <1>1, <1>2, <1>13, FinishKind DEF Fails, Fail, At
<1>14. CASE ReserveAttempt(w)
  BY <1>1, <1>3, <1>4, <1>14, EditKind DEF ReserveAttempt, Goto, At
<1>15. CASE ModelRetries(w)
  <2>1. PICK c : cur' = [cur EXCEPT ![w] = c]
    BY <1>15 DEF ModelRetries
  <2> QED
    BY <1>1, <1>2, <1>3, <1>4, <1>15, <2>1, EditKind DEF ModelRetries, Goto, At
<1>16. CASE BackoffElapses(w)
  BY <1>1, <1>3, <1>4, <1>16, EditKind DEF BackoffElapses, Goto, At
<1>17. CASE ToolDecision(w)
  <2>1. PICK c : cur' = [cur EXCEPT ![w] = c]
    BY <1>17 DEF ToolDecision
  <2> QED
    BY <1>1, <1>2, <1>3, <1>4, <1>17, <2>1, EditKind DEF ToolDecision, Goto, At
<1>18. CASE CallModel(w)
  <2>1. /\ pc[w] = "call_model" /\ pc' = [pc EXCEPT ![w] = "model"]
        /\ started' = [started EXCEPT ![cur[w].iterations] = @ + 1]
        /\ UNCHANGED <<storeVars, tok, cur, saved, executed, replayed, effect>>
    BY <1>18 DEF CallModel, Goto, At
  <2>2. OthersKeep(w) /\ pc'[w] = "model"
    BY <2>1 DEF TypeOK, OthersKeep
  <2> QED
    BY <1>1, <1>3, <2>1, <2>2 DEF Moves
<1>19. CASE CallTool(w)
  <2>1. /\ pc[w] = "call_tool" /\ pc' = [pc EXCEPT ![w] = "tool"]
        /\ executed' = [executed EXCEPT ![cur[w].pending] = @ + 1]
        /\ UNCHANGED <<storeVars, tok, cur, saved, started, replayed, effect>>
    BY <1>19 DEF CallTool, Goto, At
  <2>2. OthersKeep(w) /\ pc'[w] = "tool"
    BY <2>1 DEF TypeOK, OthersKeep
  <2> QED
    BY <1>1, <1>3, <2>1, <2>2 DEF Moves
<1> QED
  BY <1>5, <1>6, <1>7, <1>8, <1>10, <1>11, <1>12, <1>13, <1>14, <1>15, <1>16,
     <1>17, <1>18, <1>19 DEF MoveStep, Recovery

\* Every step of the specification is of one of the five kinds.
LEMMA StepKinds ==
  ASSUME TypeOK, [Next]_vars
  PROVE  \/ Outside
         \/ \E w \in Workers :
              \/ Takes(w) \/ Leaves(w) \/ Writes(w)
              \/ (MoveStep(w) /\ Moves(w))
<1>1. ASSUME NEW w \in Workers, Proceed(w)
      PROVE  Leaves(w) \/ Writes(w) \/ (MoveStep(w) /\ Moves(w))
  BY <1>1, ExitKind, WriteKind, MoveKind DEF Proceed, Loop, MoveStep
<1>2. CASE Next
  BY <1>1, <1>2, EntryKind, ExitKind, OutsideKind DEF Next
<1> QED
  BY <1>2, OutsideKind

-----------------------------------------------------------------------------
(* Exclusive ownership.                                                    *)

\* Program counters of workers that own something.
LEMMA PCFacts ==
  /\ Working \subseteq Active
  /\ {"create", "load", "release"} \subseteq Active
  /\ {"create", "load", "release"} \cap Working = {}
  /\ (PersistPoints \cup {"terminal"}) \ {"create"} \subseteq Working
  /\ \A p \in PersistPoints : AfterPersist[p] \in Working
  /\ {"idle", "done", "crashed"} \cap Active = {}
BY DEF Working, Active, PersistPoints, Callbacks, AfterPersist

\* Nobody owns anything before anybody runs.
LEMMA InitExclusive == Init => Exclusive
<1> SUFFICES ASSUME Init PROVE Exclusive
  OBVIOUS
<1>1. /\ \A w \in Workers : pc[w] = "idle" /\ tok[w] = 0
      /\ token = 0
  BY DEF Init
<1> QED
  BY <1>1, PCFacts DEF Exclusive, TokensApart, LockHeld, CreatorAlone

\* Ownership stays exclusive.
LEMMA NextExclusive ==
  ASSUME TypeOK, Exclusive, [Next]_vars
  PROVE  Exclusive'
<1>1. TypeOK'
  BY NextType
<1>2. CASE Outside
  <2>1. TokensApart'
    BY <1>2 DEF Outside, Exclusive, TokensApart
  <2>2. LockHeld' /\ CreatorAlone'
    BY <1>2 DEF Outside, Exclusive, LockHeld, CreatorAlone
  <2> QED
    BY <2>1, <2>2 DEF Exclusive
<1>3. ASSUME NEW w \in Workers, Takes(w) PROVE Exclusive'
  <2>1. TokensApart'
    <3>1. CASE store = "lease"
      <4>1. token' = token + 1 /\ tok' = [tok EXCEPT ![w] = token + 1]
        BY <1>3, <3>1, Zenon DEF Takes, Acquire
      <4>2. tok'[w] = token + 1 /\ \A v \in Workers \ {w} : tok'[v] = tok[v]
        BY <4>1 DEF TypeOK
      <4>3. \A v \in Workers \ {w} : pc'[v] = pc[v]
        BY <1>3 DEF Takes, OthersKeep
      <4>4. store' = store /\ \A v \in Workers : tok[v] \in Nat /\ token \in Nat
        BY <1>3 DEF Takes, TypeOK
      <4> QED
        BY <4>1, <4>2, <4>3, <4>4 DEF Exclusive, TokensApart
    <3>2. CASE store # "lease"
      <4>1. UNCHANGED <<store, token, tok>>
        BY <1>3, <3>2, Zenon DEF Takes, Acquire
      <4> QED
        BY <3>2, <4>1 DEF Exclusive, TokensApart
    <3> QED
      BY <3>1, <3>2
  <2>2. LockHeld'
    <3>1. CASE store = "lock"
      <4>1. lock = NoWorker /\ lock' = w
        BY <1>3, <3>1 DEF Takes, Acquire, Busy
      <4>2. \A v \in Workers \ {w} : pc'[v] \notin Active
        BY <1>3, <3>1, <4>1, HarnessAssumption
        DEF Takes, OthersKeep, Exclusive, LockHeld
      <4> QED
        BY <4>1, <4>2 DEF LockHeld
    <3>2. CASE store # "lock"
      BY <1>3, <3>2 DEF Takes, LockHeld
    <3> QED
      BY <3>1, <3>2
  <2>3. CreatorAlone'
    BY <1>3, PCFacts DEF Takes, OthersKeep, Exclusive, CreatorAlone
  <2> QED
    BY <2>1, <2>2, <2>3 DEF Exclusive
<1>4. ASSUME NEW w \in Workers, Leaves(w) PROVE Exclusive'
  <2>1. TokensApart'
    <3>1. /\ \A v \in Workers \ {w} : pc'[v] = pc[v] /\ tok'[v] = tok[v]
          /\ tok'[w] \in {0, tok[w]} /\ pc'[w] \notin Active
          /\ store' = store /\ token' \in {token, token + 1}
      BY <1>4, PCFacts DEF Leaves, OthersKeep
    <3>2. token \in Nat /\ \A v \in Workers : tok[v] \in Nat
      BY DEF TypeOK
    <3> QED
      BY <3>1, <3>2 DEF Exclusive, TokensApart
  <2>2. LockHeld'
    BY <1>4, PCFacts DEF Leaves, OthersKeep, Exclusive, LockHeld
  <2>3. CreatorAlone'
    BY <1>4, PCFacts DEF Leaves, OthersKeep, Exclusive, CreatorAlone
  <2> QED
    BY <2>1, <2>2, <2>3 DEF Exclusive
<1>5. ASSUME NEW w \in Workers, Moves(w) PROVE Exclusive'
  <2>1. /\ \A v \in Workers : tok'[v] = tok[v]
        /\ \A v \in Workers \ {w} : pc'[v] = pc[v]
        /\ pc[w] \in Working \cup {"load"}
        /\ pc'[w] \in Working \cup {"release"}
        /\ UNCHANGED <<store, record, token, lock>>
    BY <1>5 DEF Moves, OthersKeep, storeVars
  <2>2. TokensApart' /\ LockHeld'
    BY <2>1, PCFacts DEF Exclusive, TokensApart, LockHeld
  <2>3. CreatorAlone'
    BY <2>1, PCFacts DEF Exclusive, CreatorAlone
  <2> QED
    BY <2>2, <2>3 DEF Exclusive
<1>6. ASSUME NEW w \in Workers, Writes(w) PROVE Exclusive'
  <2>1. /\ \A v \in Workers : tok'[v] = tok[v]
        /\ \A v \in Workers \ {w} : pc'[v] = pc[v]
        /\ pc[w] \in PersistPoints \cup {"terminal"}
        /\ UNCHANGED <<store, token, lock>>
    BY <1>6 DEF Writes, OthersKeep
  <2>2. pc'[w] \in Working \cup {"release"}
    BY <1>6, PCFacts DEF Writes, WriteDone
  <2>3. TokensApart' /\ LockHeld'
    BY <2>1, <2>2, PCFacts DEF Exclusive, TokensApart, LockHeld
  <2>4. CreatorAlone'
    <3>1. CASE UNCHANGED record /\ pc'[w] = "release"
      BY <2>1, <3>1, PCFacts DEF Exclusive, CreatorAlone
    <3>2. CASE WriteDone(w)
      <4>1. record' # NoRecord
        BY <3>2, SnapshotType, HarnessAssumption DEF WriteDone
      <4>2. pc[w] = "create" => record = NoRecord
        BY <3>2 DEF WriteDone, Accepts
      <4>3. pc[w] # "create" => pc[w] \in Working
        BY <2>1, PCFacts
      <4> QED
        BY <2>1, <2>2, <4>1, <4>2, <4>3, PCFacts DEF Exclusive, CreatorAlone
    <3> QED
      BY <1>6, <3>1, <3>2 DEF Writes
  <2> QED
    BY <2>3, <2>4 DEF Exclusive
<1> QED
  BY <1>2, <1>3, <1>4, <1>5, <1>6, StepKinds

\* A worker whose write is accepted is the only one who may write.
LEMMA WriterAlone ==
  ASSUME TypeOK, Exclusive, NEW w \in Workers, Accepts(w),
         pc[w] \in PersistPoints \cup {"terminal"}
  PROVE  /\ \A v \in Workers : Owner(v) => v = w
         /\ pc[w] # "create" => Owner(w)
<1>1. pc[w] \in Active /\ ~Fenced(w)
  BY PCFacts DEF Accepts
<1>2. store = "lock" => lock = w
  BY <1>1 DEF Exclusive, LockHeld
<1>3. pc[w] # "create" => Owner(w)
  BY <1>1, <1>2, PCFacts DEF Owner
<1>4. ASSUME NEW v \in Workers, Owner(v) PROVE v = w
  <2>1. pc[v] \in Working /\ pc[v] \in Active /\ ~Fenced(v)
    BY <1>4, PCFacts DEF Owner
  <2>2. CASE store = "lease"
    <3>1. tok[v] = token /\ tok[w] = token
      BY <1>1, <2>1, <2>2, Zenon DEF Fenced
    <3> QED
      BY <1>1, <2>2, <3>1 DEF Exclusive, TokensApart
  <2>3. CASE store = "lock"
    BY <1>2, <1>4, <2>3 DEF Owner
  <2>4. CASE store = "plain"
    <3>1. record # NoRecord
      BY <2>1, <2>4 DEF Exclusive, CreatorAlone
    <3>2. pc[w] \in Working
      BY <3>1, PCFacts DEF Accepts
    <3> QED
      BY <2>1, <2>4, <3>2 DEF Exclusive, CreatorAlone
  <2> QED
    BY <2>2, <2>3, <2>4, HarnessAssumption DEF TypeOK
<1> QED
  BY <1>3, <1>4

-----------------------------------------------------------------------------
(* The owner knows the record, and extends it.                             *)

\* There is one owner.
OneOwner == \A v, w \in Workers : Owner(v) /\ Owner(w) => v = w

\* Exclusive ownership means that there is one owner.
LEMMA ExclusiveOwner == TypeOK /\ Exclusive => OneOwner
<1> SUFFICES ASSUME TypeOK, Exclusive,
                    NEW v \in Workers, NEW w \in Workers, Owner(v), Owner(w)
             PROVE  v = w
  BY DEF OneOwner
<1>1. /\ pc[v] \in Working /\ pc[v] \in Active /\ ~Fenced(v)
      /\ pc[w] \in Working /\ pc[w] \in Active /\ ~Fenced(w)
  BY PCFacts DEF Owner
<1>2. CASE store = "lease"
  <2>1. tok[v] = token /\ tok[w] = token
    BY <1>1, <1>2, Zenon DEF Fenced
  <2> QED
    BY <1>1, <1>2, <2>1 DEF Exclusive, TokensApart
<1>3. CASE store = "lock"
  BY <1>3 DEF Owner
<1>4. CASE store = "plain"
  BY <1>1, <1>4 DEF Exclusive, CreatorAlone
<1> QED
  BY <1>2, <1>3, <1>4, HarnessAssumption DEF TypeOK

\* The same after a step.
LEMMA ExclusiveOwnerNext == TypeOK' /\ Exclusive' => OneOwner'
BY ExclusiveOwner, PTL

\* Nobody becomes an owner by what another worker or the environment does.
LEMMA OwnerBefore ==
  ASSUME TypeOK, Exclusive, NEW v \in Workers, Owner(v)',
         \/ Outside
         \/ \E w \in Workers \ {v} : Takes(w) \/ Leaves(w) \/ Writes(w) \/ Moves(w)
  PROVE  /\ Owner(v)
         /\ saved'[v] = saved[v] /\ cur'[v] = cur[v] /\ pc'[v] = pc[v]
<1>1. /\ pc'[v] = pc[v] /\ tok'[v] = tok[v]
      /\ saved'[v] = saved[v] /\ cur'[v] = cur[v] /\ store' = store
  BY DEF Outside, Takes, Leaves, Writes, Moves, OthersKeep, storeVars
<1>2. pc[v] \in Working /\ pc[v] \in Active
  BY <1>1, PCFacts DEF Owner
<1>3. store = "lock" => lock = v
  BY <1>2 DEF Exclusive, LockHeld
<1>4. ~Fenced(v)
  <2>1. CASE store # "lease"
    BY <2>1 DEF Fenced
  <2>2. CASE store = "lease"
    <3>1. leased' /\ tok'[v] = token'
      BY <1>1, <2>2, Zenon DEF Owner, Fenced
    <3>2. tok[v] <= token /\ token \in Nat
      BY DEF Exclusive, TokensApart, TypeOK
    <3>3. token' # token + 1
      BY <1>1, <3>1, <3>2
    <3>4. ASSUME NEW w \in Workers, Takes(w) PROVE token' = token + 1
      BY <2>2, <3>4, Zenon DEF Takes, Acquire
    <3>5. token' = token /\ leased
      <4>1. CASE Outside
        BY <3>1, <4>1, Zenon DEF Outside
      <4>2. CASE \E w \in Workers \ {v} : Leaves(w)
        BY <3>1, <3>3, <4>2, Zenon DEF Leaves
      <4>3. CASE \E w \in Workers \ {v} : Writes(w) \/ Moves(w)
        <5>1. leased' = leased /\ token' = token
          BY <4>3 DEF Writes, Moves, storeVars
        <5> QED
          BY <3>1, <5>1, Zenon
      <4> QED
        BY <3>3, <3>4, <4>1, <4>2, <4>3
    <3> QED
      BY <1>1, <3>1, <3>5, Zenon DEF Fenced
  <2> QED
    BY <2>1, <2>2
<1> QED
  BY <1>1, <1>2, <1>3, <1>4 DEF Owner

\* The owner's idea of the record stays right.
LEMMA NextOwnerKnows ==
  ASSUME TypeOK, Exclusive, OwnerKnowsRecord, [Next]_vars
  PROVE  OwnerKnowsRecord'
<1>1. OneOwner'
  BY NextType, NextExclusive, ExclusiveOwnerNext
<1>2. SUFFICES ASSUME NEW v \in Workers, Owner(v)'
               PROVE  record' # NoRecord /\ SameProgress(record', saved'[v])
  BY <1>1 DEF OwnerKnowsRecord, OneOwner
<1>3. pc'[v] \in Working
  BY <1>2 DEF Owner
<1>4. CASE Outside
  <2>1. Owner(v) /\ saved'[v] = saved[v]
    BY <1>2, <1>4, OwnerBefore
  <2> QED
    BY <1>4, <2>1 DEF OwnerKnowsRecord, Outside
<1>5. ASSUME NEW w \in Workers \ {v}, Takes(w) \/ Leaves(w) \/ Moves(w)
      PROVE  record' # NoRecord /\ SameProgress(record', saved'[v])
  <2>1. Owner(v) /\ saved'[v] = saved[v]
    BY <1>2, <1>5, OwnerBefore
  <2>2. UNCHANGED record
    BY <1>5 DEF Takes, Leaves, Moves, storeVars
  <2> QED
    BY <2>1, <2>2 DEF OwnerKnowsRecord
<1>6. ASSUME NEW w \in Workers \ {v}, Writes(w)
      PROVE  record' # NoRecord /\ SameProgress(record', saved'[v])
  <2>1. Owner(v) /\ saved'[v] = saved[v]
    BY <1>2, <1>6, OwnerBefore
  <2>2. UNCHANGED record
    BY <1>6, <2>1, WriterAlone DEF Writes, WriteDone
  <2> QED
    BY <2>1, <2>2 DEF OwnerKnowsRecord
<1>7. ~Takes(v) /\ ~Leaves(v)
  BY <1>3, PCFacts DEF Takes, Leaves
<1>8. CASE Moves(v)
  <2>1. UNCHANGED record
    BY <1>8 DEF Moves, storeVars
  <2>2. CASE pc[v] = "load"
    BY <1>3, <1>8, <2>1, <2>2, PCFacts DEF Moves
  <2>3. CASE pc[v] # "load"
    <3>1. pc[v] \in Working /\ saved'[v] = saved[v]
      BY <1>8, <2>3 DEF Moves
    <3>2. UNCHANGED <<store, token, leased, lock, tok>>
      BY <1>8 DEF Moves, storeVars
    <3>3. Fenced(v)' = Fenced(v)
      BY <3>2, Zenon DEF Fenced
    <3>4. Owner(v)
      BY <1>2, <3>1, <3>2, <3>3 DEF Owner
    <3> QED
      BY <2>1, <3>1, <3>4 DEF OwnerKnowsRecord
  <2> QED
    BY <2>2, <2>3
<1>9. CASE Writes(v)
  <2>1. /\ record' = Snapshot(v) /\ saved'[v] = cur'[v]
        /\ SameProgress(cur'[v], cur[v])
    BY <1>3, <1>9, PCFacts DEF Writes, WriteDone
  <2>2. SameProgress(Snapshot(v), cur[v]) /\ Snapshot(v) \in Checkpoint
    BY SnapshotType
  <2>3. SameProgress(record', saved'[v])
    BY <2>1, <2>2 DEF SameProgress
  <2> QED
    BY <2>1, <2>2, <2>3, HarnessAssumption
<1> QED
  BY <1>4, <1>5, <1>6, <1>7, <1>8, <1>9, StepKinds

\* What a worker would write keeps extending what it has saved.
LEMMA NextExtends ==
  ASSUME TypeOK, \A w \in Workers : Extends(w), [Next]_vars,
         NEW v \in Workers
  PROVE  Extends(v)'
<1>1. ASSUME pc'[v] = pc[v], cur'[v] = cur[v], saved'[v] = saved[v]
      PROVE  Extends(v)'
  BY <1>1 DEF Extends
<1>2. CASE Outside
  BY <1>1, <1>2 DEF Outside
<1>3. ASSUME NEW w \in Workers \ {v},
             Takes(w) \/ Leaves(w) \/ Moves(w) \/ Writes(w)
      PROVE  Extends(v)'
  BY <1>1, <1>3 DEF Takes, Leaves, Moves, Writes, OthersKeep
<1>4. CASE Takes(v)
  BY <1>4 DEF Takes, Extends, SameCounts, SameCalls
<1>5. CASE Leaves(v)
  BY <1>5 DEF Leaves, Extends
<1>6. CASE Writes(v)
  <2>1. CASE pc'[v] = "release"
    BY <2>1 DEF Extends
  <2>2. CASE pc'[v] # "release"
    <3>1. /\ pc[v] \in PersistPoints /\ pc'[v] = AfterPersist[pc[v]]
          /\ SameProgress(cur'[v], cur[v]) /\ saved'[v] = cur'[v]
      BY <1>6, <2>2 DEF Writes, WriteDone
    <3>2. cur'[v].pending = cur[v].pending
      BY <3>1 DEF SameProgress
    <3>3. \/ pc[v] = "intent" /\ pc'[v] = "call_tool"
          \/ /\ pc[v] \in PersistPoints \ {"intent"}
             /\ pc'[v] \in {"top", "call_model", "backoff"}
      BY <3>1 DEF PersistPoints, AfterPersist
    <3>4. CASE pc[v] = "intent"
      BY <3>1, <3>2, <3>3, <3>4 DEF Extends, SameCounts, SameCalls
    <3>5. CASE pc[v] # "intent"
      <4>1. cur'[v].pending = NoCall
        BY <3>2, <3>3, <3>5 DEF Extends, PersistPoints
      <4> QED
        BY <3>1, <3>3, <3>5, <4>1 DEF Extends, SameCounts, SameCalls
    <3> QED
      BY <3>4, <3>5
  <2> QED
    BY <2>1, <2>2
<1>7. CASE MoveStep(v) /\ Moves(v)
  <2>1. cur[v] \in Checkpoint /\ saved[v] \in Checkpoint /\ pc[v] \in PCs
    BY DEF TypeOK
  <2>2. ASSUME NEW s, NEW e, Decline(v, s, e) PROVE Extends(v)'
    BY <2>2 DEF Decline, Return, TypeOK, Extends
  <2>3. ASSUME NEW c, NEW e, Finish(v, c, e), UNCHANGED saved,
               SameCounts(c, cur[v]), SameCounts(cur[v], saved[v])
        PROVE  Extends(v)'
    <3>1. pc'[v] = "terminal" /\ cur'[v] = c /\ saved'[v] = saved[v]
      BY <2>3 DEF Finish, TypeOK
    <3> QED
      BY <2>3, <3>1 DEF Extends, SameCounts, SameCalls
  <2>4. ASSUME NEW p \in {"recovered", "step"}, SettlePending(v, p),
               SameCounts(cur[v], saved[v])
        PROVE  Extends(v)'
    <3>1. PICK t \in Texts :
            cur' = [cur EXCEPT ![v] = completePending(cur[v], t)]
      BY <2>4 DEF SettlePending
    <3>2. t \in Text /\ cur[v].pending \in ToolCall
      BY <2>4, HarnessAssumption DEF Text, SettlePending, TypeOK
    <3>3. /\ cur'[v] = completePending(cur[v], t) /\ saved'[v] = saved[v]
          /\ pc'[v] = p
      BY <2>4, <3>1 DEF TypeOK, SettlePending, Goto
    <3>4. /\ cur'[v].iterations = cur[v].iterations
          /\ cur'[v].pending = NoCall
          /\ StepIDs(cur'[v]) = StepIDs(cur[v]) \cup {cur[v].pending}
      BY <2>1, <3>2, <3>3, CompletePendingType
    <3>5. StepIDs(cur[v]) = StepIDs(saved[v])
      BY <2>4 DEF SameCounts, SameCalls, StepIDs
    <3> QED
      BY <2>4, <3>3, <3>4, <3>5 DEF Extends, SameCounts, SameCalls
  <2>5. CASE LoadFails(v) \/ LoadDeclines(v) \/ ReconcileFails(v)
               \/ ReplayFails(v) \/ CallbackPanics(v)
    BY <2>2, <2>5
    DEF LoadFails, LoadDeclines, ReconcileFails, ReplayFails, CallbackPanics
  <2>6. CASE LoadResumes(v)
    <3>1. cur'[v] = saved'[v] /\ cur'[v].pending = record.pending
      BY <2>6, ResumesKind DEF SameProgress
    <3>2. record.pending # NoCall => record.pending \in CallIDs
      BY <2>6 DEF LoadResumes, validateCheckpoint, validateRecoveryState
    <3>3. \/ pc'[v] = "top" /\ record.pending = NoCall
          \/ pc'[v] \in {"reconcile", "replay"} /\ record.pending # NoCall
          \/ pc'[v] = "release"
      BY <2>6 DEF LoadResumes, DispatchReplay, Goto, Return, TypeOK
    <3> QED
      BY <3>1, <3>2, <3>3 DEF Extends, SameCounts, SameCalls
  <2>7. CASE ReconcileUnknown(v)
    <3>1. /\ pc[v] = "reconcile" /\ pc'[v] \in {"replay", "release"}
          /\ cur' = cur /\ saved' = saved
      BY <2>7 DEF ReconcileUnknown, DispatchReplay, Goto, Return, At, TypeOK
    <3> QED
      BY <3>1 DEF Extends
  <2>8. CASE ReconcileCompleted(v) \/ ReplayCompleted(v) \/ ToolCompleted(v)
    <3>1. SameCounts(cur[v], saved[v])
      BY <2>8 DEF ReconcileCompleted, ReplayCompleted, ToolCompleted, At, Extends
    <3> QED
      BY <2>4, <2>8, <3>1
      DEF ReconcileCompleted, ReplayCompleted, ToolCompleted
  <2>9. CASE ContextDone(v)
    <3>6. PICK text \in {"ok", "bad"} :
            Finish(v, [transition(Enter(cur[v]), "cancelled") EXCEPT !.error = text],
                   "context")
      BY <2>9, HarnessAssumption DEF ContextDone
    <3> DEFINE d == Enter(cur[v])
               c == [transition(d, "cancelled") EXCEPT !.error = text]
    <3>1. SameCounts(cur[v], saved[v])
      BY <2>9 DEF ContextDone, Extends
    <3>2. d \in Checkpoint /\ SameCounts(d, cur[v])
      BY <2>1, EnterType DEF SameCounts
    <3>3. Finish(v, c, "context") /\ UNCHANGED saved
      BY <2>9, <3>6 DEF ContextDone
    <3> HIDE DEF d
    <3>4. SameCounts(c, d)
      BY <3>2, OutcomeType DEF Terminal, Text, SameCounts
    <3> HIDE DEF c
    <3>5. SameCounts(c, cur[v])
      BY <3>2, <3>4 DEF SameCounts, SameCalls
    <3> QED
      BY <2>3, <3>1, <3>3, <3>5
  <2>10. CASE ReserveAttempt(v)
    <3> DEFINE c == [Enter(cur[v]) EXCEPT !.iterations = @ + 1]
    <3>1. SameCounts(cur[v], saved[v]) /\ cur[v].pending = NoCall
      BY <2>10 DEF ReserveAttempt, At, Extends
    <3>2. SameCalls(c, cur[v]) /\ c.iterations = cur[v].iterations + 1
      BY <2>1, ReserveType
    <3>3. /\ cur' = [cur EXCEPT ![v] = c] /\ pc' = [pc EXCEPT ![v] = "attempt"]
          /\ saved' = saved
      BY <2>10 DEF ReserveAttempt, Goto
    <3> HIDE DEF c
    <3>4. cur'[v] = c /\ pc'[v] = "attempt" /\ saved'[v] = saved[v]
      BY <3>3 DEF TypeOK
    <3> QED
      BY <3>1, <3>2, <3>4 DEF Extends, SameCounts, SameCalls
  <2>11. CASE CallModel(v) \/ CallTool(v) \/ BackoffElapses(v)
    <3>1. /\ cur' = cur /\ saved' = saved
          /\ \/ pc[v] = "call_model" /\ pc'[v] = "model"
             \/ pc[v] = "call_tool" /\ pc'[v] = "tool"
             \/ pc[v] = "backoff" /\ pc'[v] = "top"
      BY <2>11 DEF CallModel, CallTool, BackoffElapses, Goto, At, TypeOK
    <3> QED
      BY <3>1 DEF Extends
  <2>12. CASE ModelRetries(v)
    <3> DEFINE c == [cur[v] EXCEPT !.retries = @ + 1]
    <3>1. SameCounts(cur[v], saved[v]) /\ cur[v].pending = NoCall
      BY <2>12 DEF ModelRetries, At, Extends
    <3>2. SameCounts(c, cur[v])
      BY <2>1 DEF SameCounts, SameCalls, Checkpoint
    <3>3. /\ cur' = [cur EXCEPT ![v] = c] /\ pc' = [pc EXCEPT ![v] = "retry"]
          /\ saved' = saved
      BY <2>12 DEF ModelRetries, Goto
    <3> HIDE DEF c
    <3>4. cur'[v] = c /\ pc'[v] = "retry" /\ saved'[v] = saved[v]
      BY <3>3 DEF TypeOK
    <3> QED
      BY <3>1, <3>2, <3>4 DEF Extends, SameCounts, SameCalls
  <2>13. CASE ModelFinal(v)
    <3>1. PICK t \in Texts :
            Finish(v, [transition(cur[v], "completed") EXCEPT !.output = t], "nil")
      BY <2>13 DEF ModelFinal
    <3> DEFINE c == [transition(cur[v], "completed") EXCEPT !.output = t]
    <3>2. SameCounts(cur[v], saved[v]) /\ UNCHANGED saved
      BY <2>13 DEF ModelFinal, At, Extends
    <3>3. t \in Text
      BY HarnessAssumption DEF Text
    <3>4. SameCounts(c, cur[v])
      BY <2>1, <3>3, OutcomeType DEF Terminal, SameCounts
    <3>5. Finish(v, c, "nil")
      BY <3>1
    <3> HIDE DEF c
    <3> QED
      BY <2>3, <3>2, <3>4, <3>5
  <2>14. CASE Fails(v)
    <3>1. PICK d \in {cur[v], Enter(cur[v])}, t \in Text :
            Finish(v, [transition(d, "failed") EXCEPT !.error = t], "failed")
      BY <2>14, HarnessAssumption DEF Fails, Fail, Text
    <3> DEFINE c == [transition(d, "failed") EXCEPT !.error = t]
    <3>2. SameCounts(cur[v], saved[v]) /\ UNCHANGED saved
      BY <2>14 DEF Fails, At, Extends
    <3>3. d \in Checkpoint /\ SameCounts(d, cur[v])
      BY <2>1, EnterType DEF SameCounts, SameCalls
    <3>4. SameCounts(c, d)
      BY <3>3, OutcomeType DEF Terminal, SameCounts
    <3>5. Finish(v, c, "failed")
      BY <3>1
    <3> HIDE DEF c
    <3>6. SameCounts(c, cur[v])
      BY <3>3, <3>4 DEF SameCounts, SameCalls
    <3> QED
      BY <2>3, <3>2, <3>5, <3>6
  <2>15. CASE ToolDecision(v)
    <3>1. PICK id \in CallIDs \ StepIDs(cur[v]) :
            cur' = [cur EXCEPT ![v] =
                      [transition(cur[v], "running_tool") EXCEPT !.pending = id]]
      BY <2>15 DEF ToolDecision
    <3> DEFINE c == [transition(cur[v], "running_tool") EXCEPT !.pending = id]
    <3>2. SameCounts(cur[v], saved[v]) /\ cur[v].pending = NoCall
      BY <2>15 DEF ToolDecision, At, Extends
    <3>3. /\ c.steps = cur[v].steps /\ c.pending = id
          /\ c.iterations = cur[v].iterations
      BY <2>1, DecisionType
    <3>4. cur' = [cur EXCEPT ![v] = c]
      BY <3>1
    <3> HIDE DEF c
    <3>5. cur'[v] = c /\ pc'[v] = "intent" /\ saved'[v] = saved[v]
      BY <2>15, <3>4 DEF TypeOK, ToolDecision, Goto
    <3>6. c.pending \in CallIDs \ StepIDs(c)
      BY <3>1, <3>3 DEF StepIDs
    <3> QED
      BY <3>2, <3>3, <3>5, <3>6 DEF Extends, SameCounts, SameCalls
  <2> QED
    BY <1>7, <2>5, <2>6, <2>7, <2>8, <2>9, <2>10, <2>11, <2>12, <2>13, <2>14,
       <2>15 DEF MoveStep, Recovery
<1> QED
  BY <1>2, <1>3, <1>4, <1>5, <1>6, <1>7, StepKinds

-----------------------------------------------------------------------------
(* The record only grows.                                                  *)

\* An accepted write keeps every reserved attempt and every recorded call.
LEMMA WriteGrows ==
  ASSUME TypeOK, Exclusive, Known, NEW w \in Workers, Writes(w), WriteDone(w),
         record # NoRecord
  PROVE  /\ record' # NoRecord
         /\ pc[w] # "create" /\ Owner(w)
         /\ record.iterations <= record'.iterations
         /\ \A id \in CallIDs : Recorded(id) => Recorded(id)'
<1>1. pc[w] \in (PersistPoints \cup {"terminal"}) \ {"create"} /\ Accepts(w)
  BY DEF Writes, WriteDone, Accepts
<1>2. Owner(w)
  BY <1>1, WriterAlone
<1>3. /\ record' = Snapshot(w) /\ Snapshot(w) \in Checkpoint
      /\ SameProgress(Snapshot(w), cur[w])
  BY SnapshotType DEF WriteDone
<1>4. SameProgress(record, saved[w])
  BY <1>2 DEF Known, OwnerKnowsRecord
<1>5. record' # NoRecord
  BY <1>3, HarnessAssumption
<1>6. /\ cur[w] \in Checkpoint /\ saved[w] \in Checkpoint
      /\ cur[w].iterations \in Nat /\ saved[w].iterations \in Nat
  BY DEF TypeOK, Checkpoint
<1>7. Extends(w)
  BY DEF Known
<1>8. saved[w].iterations <= cur[w].iterations
  BY <1>1, <1>6, <1>7 DEF Extends, SameCounts, PersistPoints
<1>9. record.iterations <= record'.iterations
  BY <1>3, <1>4, <1>8 DEF SameProgress
<1>10. /\ StepIDs(record) = StepIDs(saved[w]) /\ record.pending = saved[w].pending
       /\ StepIDs(record') = StepIDs(cur[w]) /\ record'.pending = cur[w].pending
  BY <1>3, <1>4 DEF SameProgress, StepIDs
<1>11. ASSUME NEW id \in CallIDs, id \in StepIDs(saved[w]) \cup {saved[w].pending}
       PROVE  id \in StepIDs(cur[w]) \cup {cur[w].pending}
  <2>1. CASE pc[w] \in {"attempt", "retry", "terminal"}
    BY <1>7, <1>11, <2>1 DEF Extends, SameCounts, SameCalls, StepIDs
  <2>2. CASE pc[w] = "intent"
    <3>1. saved[w].pending # id
      BY <1>7, <2>2, CallAssumption DEF Extends
    <3> QED
      BY <1>7, <1>11, <2>2, <3>1 DEF Extends, StepIDs
  <2>3. CASE pc[w] \in {"step", "recovered"}
    BY <1>7, <1>11, <2>3 DEF Extends
  <2> QED
    BY <1>1, <2>1, <2>2, <2>3 DEF PersistPoints
<1>12. ASSUME NEW id \in CallIDs, Recorded(id) PROVE Recorded(id)'
  BY <1>5, <1>10, <1>11, <1>12 DEF Recorded
<1> QED
  BY <1>1, <1>2, <1>5, <1>9, <1>12

\* No step refunds an attempt or forgets a call.
LEMMA RecordGrows ==
  ASSUME TypeOK, Exclusive, Known, [Next]_vars
  PROVE  /\ \A n \in Nat : Reserved(n) => Reserved(n)'
         /\ \A id \in CallIDs : Recorded(id) => Recorded(id)'
<1>1. ASSUME UNCHANGED record
      PROVE  /\ \A n \in Nat : Reserved(n) => Reserved(n)'
             /\ \A id \in CallIDs : Recorded(id) => Recorded(id)'
  BY <1>1 DEF Reserved, Recorded
<1>2. ASSUME NEW w \in Workers, Writes(w), WriteDone(w)
      PROVE  /\ \A n \in Nat : Reserved(n) => Reserved(n)'
             /\ \A id \in CallIDs : Recorded(id) => Recorded(id)'
  <2>1. CASE record = NoRecord
    BY <2>1 DEF Reserved, Recorded
  <2>2. CASE record # NoRecord
    <3>1. record \in Checkpoint /\ record' \in Checkpoint
      BY <1>2, <2>2, SnapshotType DEF TypeOK, WriteDone
    <3>2. record.iterations \in Nat /\ record'.iterations \in Nat
      BY <3>1 DEF Checkpoint
    <3> QED
      BY <1>2, <2>2, <3>2, WriteGrows DEF Reserved
  <2> QED
    BY <2>1, <2>2
<1>3. \/ UNCHANGED record
      \/ \E w \in Workers : Writes(w) /\ WriteDone(w)
  BY StepKinds DEF Outside, Takes, Leaves, Moves, Writes, storeVars
<1> QED
  BY <1>1, <1>2, <1>3

-----------------------------------------------------------------------------
(* Dispatching at most once.                                               *)

\* A worker that is about to call the model was so before, or has just saved
\* the reservation of an attempt that nobody had reserved.
LEMMA AboutToCallModel ==
  ASSUME TypeOK, Exclusive, Known, [Next]_vars, NEW v \in Workers,
         pc'[v] = "call_model"
  PROVE  \/ pc[v] = "call_model" /\ cur'[v] = cur[v]
         \/ /\ ~Reserved(cur'[v].iterations) /\ Reserved(cur[v].iterations)'
            /\ \A u \in Workers \ {v} : pc'[u] = pc[u] /\ cur'[u] = cur[u]
            /\ UNCHANGED started
<1>1. CASE Outside
  BY <1>1 DEF Outside
<1>2. ASSUME NEW w \in Workers \ {v},
             Takes(w) \/ Leaves(w) \/ Moves(w) \/ Writes(w)
      PROVE  pc[v] = "call_model" /\ cur'[v] = cur[v]
  BY <1>2 DEF Takes, Leaves, Moves, Writes, OthersKeep
<1>3. ~Takes(v) /\ ~Leaves(v) /\ ~Moves(v)
  BY DEF Takes, Leaves, Moves
<1>4. CASE Writes(v)
  <2>1. /\ pc[v] = "attempt" /\ WriteDone(v) /\ SameProgress(cur'[v], cur[v])
    BY <1>4 DEF Writes, WriteDone, AfterPersist, PersistPoints
  <2>2. Owner(v)
    BY <2>1, WriterAlone DEF WriteDone, PersistPoints
  <2>3. record # NoRecord /\ SameProgress(record, saved[v])
    BY <2>2 DEF Known, OwnerKnowsRecord
  <2>4. cur[v].iterations = saved[v].iterations + 1
    BY <2>1 DEF Known, Extends
  <2>5. record.iterations \in Nat
    BY <2>3 DEF TypeOK, Checkpoint
  <2>6. /\ record' = Snapshot(v) /\ Snapshot(v) \in Checkpoint
        /\ SameProgress(Snapshot(v), cur[v])
    BY <2>1, SnapshotType DEF WriteDone
  <2>7. cur'[v].iterations = record.iterations + 1
    BY <2>1, <2>3, <2>4 DEF SameProgress
  <2>8. record'.iterations = record.iterations + 1 /\ record' # NoRecord
    BY <2>3, <2>4, <2>6, HarnessAssumption DEF SameProgress
  <2>9. ~Reserved(cur'[v].iterations) /\ Reserved(cur[v].iterations)'
    BY <2>3, <2>5, <2>7, <2>8 DEF Reserved
  <2> QED
    BY <1>4, <2>9 DEF Writes, OthersKeep, callVars
<1> QED
  BY <1>1, <1>2, <1>3, <1>4, StepKinds

\* Model attempts stay dispatched at most once.
LEMMA NextAttempts ==
  ASSUME TypeOK, Exclusive, Known, AttemptsOnce, [Next]_vars
  PROVE  AttemptsOnce'
<1> DEFINE At1(v) == pc[v] = "call_model"
           It(v) == cur[v].iterations
<1>1. /\ \A n \in 1..AttemptBound : started[n] \in Nat
      /\ 1..AttemptBound \subseteq Nat
      /\ \A v \in Workers : It(v) \in Nat /\ It(v)' \in Nat
  <2>1. \A v \in Workers : cur[v] \in Checkpoint /\ cur'[v] \in Checkpoint
    BY NextType DEF TypeOK
  <2>2. \A c \in Checkpoint : c.iterations \in Nat
    BY DEF Checkpoint
  <2>3. \A v \in Workers : It(v) \in Nat /\ It(v)' \in Nat
    BY <2>1, <2>2
  <2> QED
    BY <2>3, HarnessAssumption DEF TypeOK
<1>2. \A n \in Nat : Reserved(n) => Reserved(n)'
  BY RecordGrows
<1>3. \/ UNCHANGED started
      \/ \E w \in Workers :
           /\ At1(w) /\ ~At1(w)'
           /\ \A v \in Workers \ {w} : pc'[v] = pc[v] /\ cur'[v] = cur[v]
           /\ started' = [started EXCEPT ![It(w)] = @ + 1]
  BY StepKinds DEF Outside, Takes, Leaves, Moves, Writes, OthersKeep, callVars
<1>4. ASSUME NEW v \in Workers, At1(v)'
      PROVE  \/ At1(v) /\ It(v)' = It(v)
             \/ /\ ~Reserved(cur'[v].iterations) /\ Reserved(It(v))'
                /\ \A u \in Workers \ {v} : pc'[u] = pc[u] /\ cur'[u] = cur[u]
                /\ UNCHANGED started
  BY <1>4, AboutToCallModel
<1>5. ASSUME NEW n \in 1..AttemptBound
      PROVE  started'[n] <= 1 /\ (started'[n] > 0 => Reserved(n)')
  <2>1. CASE UNCHANGED started
    BY <1>1, <1>2, <2>1 DEF AttemptsOnce
  <2>2. CASE ~UNCHANGED started
    <3>1. PICK w \in Workers :
            At1(w) /\ started' = [started EXCEPT ![It(w)] = @ + 1]
      BY <1>3, <2>2
    <3>2. CASE It(w) = n
      <4>1. started[n] = 0 /\ Reserved(n)
        BY <3>1, <3>2 DEF AttemptsOnce
      <4>2. started'[n] = 1
        BY <3>1, <3>2, <4>1 DEF TypeOK
      <4> QED
        BY <1>1, <1>2, <4>1, <4>2
    <3>3. CASE It(w) # n
      <4>1. started'[n] = started[n]
        BY <3>1, <3>3 DEF TypeOK
      <4> QED
        BY <1>1, <1>2, <4>1 DEF AttemptsOnce
    <3> QED
      BY <3>2, <3>3
  <2> QED
    BY <2>1, <2>2
<1>6. ASSUME NEW v \in Workers, At1(v)'
      PROVE  Reserved(It(v))'
  BY <1>1, <1>2, <1>4, <1>6 DEF AttemptsOnce
<1>7. ASSUME NEW v \in Workers, At1(v)', It(v)' \in 1..AttemptBound
      PROVE  started'[It(v)'] = 0
  <2>1. CASE At1(v) /\ It(v)' = It(v)
    <3>1. started[It(v)] = 0
      BY <1>7, <2>1 DEF AttemptsOnce
    <3>2. CASE UNCHANGED started
      BY <2>1, <3>1, <3>2
    <3>3. ASSUME NEW w \in Workers, At1(w), ~At1(w)',
                 started' = [started EXCEPT ![It(w)] = @ + 1]
          PROVE  started'[It(v)'] = 0
      <4>1. w # v
        BY <1>7, <3>3
      <4>2. It(w) # It(v)
        BY <2>1, <3>3, <4>1 DEF AttemptsOnce
      <4> QED
        BY <1>7, <2>1, <3>1, <3>3, <4>2 DEF TypeOK
    <3> QED
      BY <1>3, <3>2, <3>3
  <2>2. CASE ~Reserved(cur'[v].iterations) /\ UNCHANGED started
    <3>1. ~(started[It(v)'] > 0)
      BY <1>7, <2>2 DEF AttemptsOnce
    <3> QED
      BY <1>1, <1>7, <2>2, <3>1
  <2> QED
    BY <1>4, <1>7, <2>1, <2>2
<1>8. ASSUME NEW v \in Workers, NEW w \in Workers, At1(v)', At1(w)',
             It(v)' = It(w)', v # w
      PROVE  FALSE
  <2>1. ASSUME NEW x \in Workers, NEW y \in Workers, x # y,
               At1(y)', It(x)' = It(y)',
               ~Reserved(cur'[x].iterations),
               \A u \in Workers \ {x} : pc'[u] = pc[u] /\ cur'[u] = cur[u]
        PROVE  FALSE
    <3>1. At1(y) /\ It(y) = It(y)'
      BY <2>1
    <3>2. Reserved(It(y))
      BY <3>1 DEF AttemptsOnce
    <3> QED
      BY <2>1, <3>1, <3>2
  <2>2. CASE At1(v) /\ It(v)' = It(v) /\ At1(w) /\ It(w)' = It(w)
    BY <1>8, <2>2 DEF AttemptsOnce
  <2> QED
    BY <1>4, <1>8, <2>1, <2>2
<1> QED
  BY <1>5, <1>6, <1>7, <1>8 DEF AttemptsOnce

\* A worker that is about to execute a call was so before, or has just saved
\* the intent of a call that was not in the record.
LEMMA AboutToCallTool ==
  ASSUME TypeOK, Exclusive, Known, [Next]_vars, NEW v \in Workers,
         pc'[v] = "call_tool"
  PROVE  \/ pc[v] = "call_tool" /\ cur'[v] = cur[v]
         \/ /\ ~Recorded(cur'[v].pending) /\ Recorded(cur[v].pending)'
            /\ \A u \in Workers \ {v} : pc'[u] = pc[u] /\ cur'[u] = cur[u]
            /\ UNCHANGED executed
<1>1. CASE Outside
  BY <1>1 DEF Outside
<1>2. ASSUME NEW w \in Workers \ {v},
             Takes(w) \/ Leaves(w) \/ Moves(w) \/ Writes(w)
      PROVE  pc[v] = "call_tool" /\ cur'[v] = cur[v]
  BY <1>2 DEF Takes, Leaves, Moves, Writes, OthersKeep
<1>3. ~Takes(v) /\ ~Leaves(v) /\ ~Moves(v)
  BY DEF Takes, Leaves, Moves
<1>4. CASE Writes(v)
  <2>1. pc[v] = "intent" /\ WriteDone(v) /\ SameProgress(cur'[v], cur[v])
    BY <1>4 DEF Writes, WriteDone, AfterPersist, PersistPoints
  <2>2. Owner(v)
    BY <2>1, WriterAlone DEF WriteDone, PersistPoints
  <2>3. record # NoRecord /\ SameProgress(record, saved[v])
    BY <2>2 DEF Known, OwnerKnowsRecord
  <2>4. /\ cur[v].steps = saved[v].steps /\ saved[v].pending = NoCall
        /\ cur[v].pending \in CallIDs \ StepIDs(cur[v])
    BY <2>1 DEF Known, Extends
  <2>5. /\ record' = Snapshot(v) /\ Snapshot(v) \in Checkpoint
        /\ SameProgress(Snapshot(v), cur[v])
    BY <2>1, SnapshotType DEF WriteDone
  <2>6. /\ StepIDs(record) = StepIDs(cur[v]) /\ record.pending = NoCall
        /\ cur'[v].pending = cur[v].pending
    BY <2>1, <2>3, <2>4 DEF SameProgress, StepIDs
  <2>7. ~Recorded(cur'[v].pending)
    BY <2>4, <2>6, CallAssumption DEF Recorded
  <2>8. record' # NoRecord /\ record'.pending = cur'[v].pending
    BY <2>1, <2>5, HarnessAssumption DEF SameProgress
  <2>9. Recorded(cur[v].pending)'
    BY <2>8 DEF Recorded
  <2> QED
    BY <1>4, <2>7, <2>9 DEF Writes, OthersKeep, callVars
<1> QED
  BY <1>1, <1>2, <1>3, <1>4, StepKinds

\* A worker that is about to reconcile a call found it pending in the record.
LEMMA AboutToReconcile ==
  ASSUME TypeOK, [Next]_vars, NEW v \in Workers, pc'[v] = "reconcile"
  PROVE  \/ pc[v] = "reconcile" /\ cur'[v] = cur[v]
         \/ Recorded(cur'[v].pending)
<1>1. CASE Outside
  BY <1>1 DEF Outside
<1>2. ASSUME NEW w \in Workers \ {v},
             Takes(w) \/ Leaves(w) \/ Moves(w) \/ Writes(w)
      PROVE  pc[v] = "reconcile" /\ cur'[v] = cur[v]
  BY <1>2 DEF Takes, Leaves, Moves, Writes, OthersKeep
<1>3. ~Takes(v) /\ ~Leaves(v) /\ ~Writes(v)
  BY DEF Takes, Leaves, Writes, WriteDone, AfterPersist, PersistPoints
<1>4. CASE Moves(v)
  <2>1. record # NoRecord /\ SameProgress(record, cur'[v])
    BY <1>4 DEF Moves
  <2> QED
    BY <2>1 DEF Recorded, SameProgress
<1> QED
  BY <1>1, <1>2, <1>3, <1>4, StepKinds

\* Tool calls stay executed at most once, and in the record.
LEMMA NextCalls ==
  ASSUME TypeOK, Exclusive, Known, Known', CallsOnce, [Next]_vars
  PROVE  CallsOnce'
<1> DEFINE At2(v) == pc[v] = "call_tool"
           Id(v) == cur[v].pending
<1>1. /\ \A id \in CallIDs : executed[id] \in Nat /\ replayed[id] \in Nat
      /\ \A v \in Workers : At2(v) \/ pc[v] = "reconcile" => Id(v) \in CallIDs
      /\ \A v \in Workers :
           At2(v)' \/ pc'[v] = "reconcile" => Id(v)' \in CallIDs
  BY DEF TypeOK, Known, Extends
<1>2. \A id \in CallIDs : Recorded(id) => Recorded(id)'
  BY RecordGrows
<1>3. \/ UNCHANGED executed
      \/ \E w \in Workers :
           /\ At2(w) /\ ~At2(w)'
           /\ executed' = [executed EXCEPT ![Id(w)] = @ + 1]
  BY StepKinds DEF Outside, Takes, Leaves, Moves, Writes, callVars
<1>4. \/ UNCHANGED replayed
      \/ \E x : Recorded(x) /\ replayed' = [replayed EXCEPT ![x] = @ + 1]
  <2>1. ASSUME NEW w \in Workers, Moves(w)
        PROVE  \/ UNCHANGED replayed
               \/ \E x : Recorded(x) /\ replayed' = [replayed EXCEPT ![x] = @ + 1]
    <3>1. CASE pc[w] = "load" /\ record # NoRecord
                 /\ replayed' = [replayed EXCEPT ![record.pending] = @ + 1]
      <4>1. Recorded(record.pending)
        BY <3>1 DEF Recorded
      <4> QED
        BY <3>1, <4>1
    <3>2. CASE pc[w] = "reconcile"
                 /\ replayed' = [replayed EXCEPT ![cur[w].pending] = @ + 1]
      <4>1. Recorded(cur[w].pending)
        BY <3>2 DEF CallsOnce
      <4> QED
        BY <3>2, <4>1
    <3> QED
      BY <2>1, <3>1, <3>2 DEF Moves
  <2> QED
    BY <2>1, StepKinds DEF Outside, Takes, Leaves, Writes, callVars
<1>5. ASSUME NEW v \in Workers, At2(v)'
      PROVE  \/ At2(v) /\ Id(v)' = Id(v)
             \/ /\ ~Recorded(cur'[v].pending) /\ Recorded(Id(v))'
                /\ \A u \in Workers \ {v} : pc'[u] = pc[u] /\ cur'[u] = cur[u]
                /\ UNCHANGED executed
  BY <1>5, AboutToCallTool
<1>6. ASSUME NEW id \in CallIDs
      PROVE  executed'[id] <= 1 /\ (executed'[id] > 0 => Recorded(id)')
  <2>1. CASE UNCHANGED executed
    BY <1>1, <1>2, <2>1 DEF CallsOnce
  <2>2. CASE ~UNCHANGED executed
    <3>1. PICK w \in Workers :
            At2(w) /\ executed' = [executed EXCEPT ![Id(w)] = @ + 1]
      BY <1>3, <2>2
    <3>2. CASE Id(w) = id
      <4>1. executed[id] = 0 /\ Recorded(id)
        BY <3>1, <3>2 DEF CallsOnce
      <4>2. executed'[id] = 1
        BY <3>1, <3>2, <4>1 DEF TypeOK
      <4> QED
        BY <1>2, <4>1, <4>2
    <3>3. CASE Id(w) # id
      <4>1. executed'[id] = executed[id]
        BY <3>1, <3>3 DEF TypeOK
      <4> QED
        BY <1>1, <1>2, <4>1 DEF CallsOnce
    <3> QED
      BY <3>2, <3>3
  <2> QED
    BY <2>1, <2>2
<1>7. ASSUME NEW id \in CallIDs, replayed'[id] > 0
      PROVE  Recorded(id)'
  <2>1. CASE UNCHANGED replayed
    BY <1>2, <1>7, <2>1 DEF CallsOnce
  <2>2. CASE ~UNCHANGED replayed
    <3>1. PICK x : Recorded(x) /\ replayed' = [replayed EXCEPT ![x] = @ + 1]
      BY <1>4, <2>2
    <3>2. CASE x = id
      BY <1>2, <3>1, <3>2
    <3>3. CASE x # id
      <4>1. replayed'[id] = replayed[id]
        BY <3>1, <3>3 DEF TypeOK
      <4> QED
        BY <1>2, <1>7, <4>1 DEF CallsOnce
    <3> QED
      BY <3>2, <3>3
  <2> QED
    BY <2>1, <2>2
<1>8. ASSUME NEW v \in Workers, pc'[v] \in {"call_tool", "reconcile"}
      PROVE  Recorded(Id(v))'
  <2>1. CASE pc'[v] = "call_tool"
    <3>1. CASE At2(v) /\ Id(v)' = Id(v)
      <4>1. Recorded(Id(v)) /\ Id(v) \in CallIDs
        BY <1>1, <3>1 DEF CallsOnce
      <4>2. Recorded(Id(v))' = (record' # NoRecord
              /\ Id(v)' \in (StepIDs(record') \cup {record'.pending}))
        BY DEF Recorded
      <4> QED
        BY <1>2, <3>1, <4>1, <4>2 DEF Recorded
    <3>2. CASE Recorded(Id(v))'
      BY <3>2
    <3> QED
      BY <1>5, <2>1, <3>1, <3>2
  <2>2. CASE pc'[v] = "reconcile"
    <3>1. Id(v)' \in CallIDs
      BY <1>1, <2>2
    <3>2. Recorded(cur'[v].pending)
      <4>1. CASE pc[v] = "reconcile" /\ cur'[v] = cur[v]
        BY <4>1 DEF CallsOnce
      <4> QED
        BY <2>2, <4>1, AboutToReconcile
    <3> QED
      BY <1>2, <3>1, <3>2 DEF Recorded
  <2> QED
    BY <1>8, <2>1, <2>2
<1>9. ASSUME NEW v \in Workers, At2(v)'
      PROVE  executed'[Id(v)'] = 0
  <2>1. CASE At2(v) /\ Id(v)' = Id(v)
    <3>1. executed[Id(v)] = 0
      BY <2>1 DEF CallsOnce
    <3>2. CASE UNCHANGED executed
      BY <2>1, <3>1, <3>2
    <3>3. ASSUME NEW w \in Workers, At2(w), ~At2(w)',
                 executed' = [executed EXCEPT ![Id(w)] = @ + 1]
          PROVE  executed'[Id(v)'] = 0
      <4>1. w # v
        BY <1>9, <3>3
      <4>2. Id(w) # Id(v)
        BY <2>1, <3>3, <4>1 DEF CallsOnce
      <4> QED
        BY <1>1, <1>9, <2>1, <3>1, <3>3, <4>2 DEF TypeOK
    <3> QED
      BY <1>3, <3>2, <3>3
  <2>2. CASE ~Recorded(cur'[v].pending) /\ UNCHANGED executed
    <3>1. Id(v)' \in CallIDs
      BY <1>1, <1>9
    <3>2. ~(executed[Id(v)'] > 0)
      BY <2>2, <3>1 DEF CallsOnce
    <3> QED
      BY <1>1, <2>2, <3>1, <3>2
  <2> QED
    BY <1>5, <1>9, <2>1, <2>2
<1>10. ASSUME NEW v \in Workers, NEW w \in Workers, At2(v)', At2(w)',
              Id(v)' = Id(w)', v # w
       PROVE  FALSE
  <2>1. ASSUME NEW x \in Workers, NEW y \in Workers, x # y,
               At2(y)', Id(x)' = Id(y)',
               ~Recorded(cur'[x].pending),
               \A u \in Workers \ {x} : pc'[u] = pc[u] /\ cur'[u] = cur[u]
        PROVE  FALSE
    <3>1. At2(y) /\ Id(y) = Id(y)'
      BY <2>1
    <3>2. Recorded(Id(y))
      BY <3>1 DEF CallsOnce
    <3> QED
      BY <2>1, <3>1, <3>2
  <2>2. CASE At2(v) /\ Id(v)' = Id(v) /\ At2(w) /\ Id(w)' = Id(w)
    BY <1>10, <2>2 DEF CallsOnce
  <2> QED
    BY <1>5, <1>10, <2>1, <2>2
<1> QED
  BY <1>6, <1>7, <1>8, <1>9, <1>10 DEF CallsOnce

-----------------------------------------------------------------------------
(* Steps are backed by effects.                                            *)

\* Only a call whose effect has happened is settled.
LEMMA SettledHappened ==
  ASSUME TypeOK, Known, NEW w \in Workers, MoveStep(w), Moves(w),
         pc'[w] \in {"step", "recovered"}
  PROVE  saved'[w] = saved[w] /\ saved[w].pending \in effect
<1>1. ASSUME pc[w] \in {"reconcile", "replay", "tool"}, cur[w].pending \in effect
      PROVE  saved'[w] = saved[w] /\ saved[w].pending \in effect
  BY <1>1 DEF Known, Extends, SameCounts, SameCalls, Moves
<1>2. CASE ReconcileCompleted(w) \/ ReplayCompleted(w) \/ ToolCompleted(w)
  BY <1>1, <1>2
  DEF ReconcileCompleted, ReplayCompleted, ToolCompleted, SettlePending, At
<1>3. CASE LoadFails(w) \/ LoadDeclines(w) \/ ReconcileFails(w)
             \/ ReplayFails(w) \/ CallbackPanics(w)
  BY <1>3 DEF LoadFails, LoadDeclines, ReconcileFails, ReplayFails,
              CallbackPanics, Decline, Return, TypeOK
<1>4. CASE LoadResumes(w)
  BY <1>4 DEF LoadResumes, DispatchReplay, Goto, Return, TypeOK
<1>5. CASE ReconcileUnknown(w)
  BY <1>5 DEF ReconcileUnknown, DispatchReplay, Goto, Return, TypeOK
<1>6. CASE ContextDone(w) \/ ModelFinal(w) \/ Fails(w)
  BY <1>6 DEF ContextDone, ModelFinal, Fails, Fail, Finish, TypeOK
<1>7. CASE ReserveAttempt(w) \/ CallModel(w) \/ ModelRetries(w)
             \/ BackoffElapses(w) \/ ToolDecision(w) \/ CallTool(w)
  BY <1>7 DEF ReserveAttempt, CallModel, ModelRetries, BackoffElapses,
              ToolDecision, CallTool, Goto, TypeOK
<1> QED
  BY <1>2, <1>3, <1>4, <1>5, <1>6, <1>7 DEF MoveStep, Recovery

\* No step records a result that is not backed by an effect.
LEMMA NextBacked ==
  ASSUME TypeOK, Exclusive, Known, StepsBacked, [Next]_vars
  PROVE  StepsBacked'
<1>1. effect \subseteq effect'
  BY StepKinds DEF Outside, Takes, Leaves, Moves, Writes, callVars
<1>2. \A a, b : a.steps = b.steps => StepIDs(a) = StepIDs(b)
  BY DEF StepIDs
<1>3. ASSUME NEW w \in Workers, pc[w] \in Active \ {"load", "release"}
      PROVE  StepIDs(cur[w]) \subseteq effect
  BY <1>2, <1>3 DEF Known, Extends, SameCounts, SameCalls, StepsBacked, Active,
                    PersistPoints, Callbacks
<1>4. StepsHappened'
  <2>1. CASE UNCHANGED record
    BY <1>1, <2>1 DEF StepsBacked, StepsHappened
  <2>2. ASSUME NEW w \in Workers, Writes(w), WriteDone(w)
        PROVE  StepsHappened'
    <3>1. record' = Snapshot(w) /\ SameProgress(Snapshot(w), cur[w])
      BY <2>2, SnapshotType DEF WriteDone
    <3>2. StepIDs(record') = StepIDs(cur[w])
      BY <1>2, <3>1 DEF SameProgress
    <3>3. pc[w] \in Active \ {"load", "release"}
      BY <2>2 DEF Writes, Active, PersistPoints
    <3> QED
      BY <1>1, <1>3, <3>2, <3>3 DEF StepsHappened
  <2> QED
    BY <2>1, <2>2, StepKinds
    DEF Outside, Takes, Leaves, Moves, Writes, storeVars
<1>5. ASSUME NEW v \in Workers
      PROVE  /\ StepIDs(saved'[v]) \subseteq effect'
             /\ pc'[v] \in {"step", "recovered"} => saved'[v].pending \in effect'
  <2>1. ASSUME saved'[v] = saved[v], pc'[v] \in {pc[v], "release"}
        PROVE  /\ StepIDs(saved'[v]) \subseteq effect'
               /\ pc'[v] \in {"step", "recovered"} => saved'[v].pending \in effect'
    BY <1>1, <2>1 DEF StepsBacked
  <2>2. CASE Outside
    BY <2>1, <2>2 DEF Outside
  <2>3. ASSUME NEW w \in Workers \ {v},
               Takes(w) \/ Leaves(w) \/ Moves(w) \/ Writes(w)
        PROVE  saved'[v] = saved[v] /\ pc'[v] = pc[v]
    BY <2>3 DEF Takes, Leaves, Moves, Writes, OthersKeep
  <2>4. CASE Takes(v)
    <3>1. CASE pc'[v] = "load"
      BY <1>1, <2>4, <3>1 DEF Takes, StepsBacked
    <3>2. CASE pc'[v] = "create"
      <4>1. saved'[v].steps = <<>>
        BY <2>4, <3>2 DEF Takes
      <4> QED
        BY <3>2, <4>1 DEF StepIDs
    <3> QED
      BY <2>4, <3>1, <3>2 DEF Takes
  <2>5. CASE Leaves(v)
    <3>1. StepIDs(Blank) = {}
      BY DEF StepIDs, Blank, NewCheckpoint
    <3> QED
      BY <1>1, <2>5, <3>1 DEF Leaves, StepsBacked
  <2>6. CASE Writes(v)
    <3>1. pc[v] \in Active \ {"load", "release"}
      BY <2>6 DEF Writes, Active, PersistPoints
    <3>2. pc'[v] \notin {"step", "recovered"}
      BY <2>6 DEF Writes, WriteDone, AfterPersist, PersistPoints
    <3>3. StepIDs(saved'[v]) \in {StepIDs(saved[v]), StepIDs(cur[v])}
      BY <1>2, <2>6 DEF Writes, SameProgress
    <3> QED
      BY <1>1, <1>3, <3>1, <3>2, <3>3 DEF StepsBacked
  <2>7. CASE MoveStep(v) /\ Moves(v)
    <3>1. StepIDs(saved'[v]) \subseteq effect'
      <4>1. CASE record # NoRecord /\ SameProgress(record, saved'[v])
        <5>1. StepIDs(saved'[v]) = StepIDs(record)
          BY <1>2, <4>1 DEF SameProgress
        <5> QED
          BY <1>1, <4>1, <5>1 DEF StepsBacked, StepsHappened
      <4>2. CASE saved'[v] = saved[v]
        BY <1>1, <4>2 DEF StepsBacked
      <4> QED
        BY <2>7, <4>1, <4>2 DEF Moves
    <3>2. pc'[v] \in {"step", "recovered"} => saved'[v].pending \in effect'
      BY <1>1, <2>7, SettledHappened
    <3> QED
      BY <3>1, <3>2
  <2> QED
    BY <2>1, <2>2, <2>3, <2>4, <2>5, <2>6, <2>7, StepKinds
<1> QED
  BY <1>4, <1>5 DEF StepsBacked

-----------------------------------------------------------------------------
(* The theorems.                                                           *)

\* The invariant holds before anybody runs.
LEMMA InitIInv == Init => IInv
<1> SUFFICES ASSUME Init PROVE IInv
  OBVIOUS
<1>1. \A w \in Workers : pc[w] = "idle" /\ saved[w] = Blank
  BY DEF Init
<1>2. Known
  BY <1>1 DEF Known, OwnerKnowsRecord, Owner, Working, Active, PersistPoints,
              Callbacks, Extends
<1>3. AttemptsOnce
  <2>1. \A n \in 1..AttemptBound : started[n] = 0
    BY DEF Init
  <2> QED
    BY <1>1, <2>1 DEF AttemptsOnce
<1>4. CallsOnce
  <2>1. \A id \in CallIDs : executed[id] = 0 /\ replayed[id] = 0
    BY DEF Init
  <2> QED
    BY <1>1, <2>1 DEF CallsOnce
<1>5. StepsBacked
  <2>1. StepIDs(Blank) = {}
    BY DEF StepIDs, Blank, NewCheckpoint
  <2>2. StepsHappened
    BY DEF Init, EarlierEffects, StepsHappened
  <2> QED
    BY <1>1, <2>1, <2>2 DEF StepsBacked
<1> QED
  BY <1>2, <1>3, <1>4, <1>5, InitType, InitExclusive DEF IInv

\* Every step keeps the invariant.
LEMMA NextIInv == IInv /\ [Next]_vars => IInv'
<1> SUFFICES ASSUME IInv, [Next]_vars PROVE IInv'
  OBVIOUS
<1>1. TypeOK' /\ Exclusive'
  BY NextType, NextExclusive DEF IInv
<1>2. Known'
  BY NextOwnerKnows, NextExtends DEF IInv, Known
<1>3. AttemptsOnce' /\ CallsOnce' /\ StepsBacked'
  BY <1>2, NextAttempts, NextCalls, NextBacked DEF IInv
<1> QED
  BY <1>1, <1>2, <1>3 DEF IInv

\* The inductive invariant of Run and Resume holds for any number of workers.
THEOREM InvHolds == Spec => []IInv
BY InitIInv, NextIInv, PTL DEF Spec

\* Over all workers, crashes, takeovers and failed writes, a reserved model
\* attempt reaches Next at most once (runtime.go: run saves the attempt first).
THEOREM AttemptsDispatchedOnce == Spec => []AttemptDispatchedOnce
<1>1. IInv => AttemptDispatchedOnce
  BY DEF IInv, AttemptsOnce, AttemptDispatchedOnce
<1> QED
  BY <1>1, InvHolds, PTL

\* Over all workers, crashes, takeovers and failed writes, a call ID reaches
\* Execute at most once (runtime.go: run saves the intent first; recovery.go
\* never executes a pending call).
THEOREM ExecutesDispatchedOnce == Spec => []ExecuteDispatchedOnce
<1>1. IInv => ExecuteDispatchedOnce
  BY DEF IInv, CallsOnce, ExecuteDispatchedOnce
<1> QED
  BY <1>1, InvHolds, PTL

\* No tool callback runs ahead of the checkpoint that holds its call.
THEOREM IntentsDurable == Spec => []IntentDurable
<1>1. IInv => IntentDurable
  <2> SUFFICES ASSUME IInv, NEW id \in CallIDs, executed[id] + replayed[id] > 0
               PROVE  Recorded(id)
    BY DEF IntentDurable, Recorded
  <2>1. executed[id] \in Nat /\ replayed[id] \in Nat
    BY DEF IInv, TypeOK
  <2>2. executed[id] > 0 \/ replayed[id] > 0
    BY <2>1
  <2> QED
    BY <2>2 DEF IInv, CallsOnce
<1> QED
  BY <1>1, InvHolds, PTL

\* There is one owner, and what it has last saved is what is stored.
THEOREM OwnersKnowRecord == Spec => []OwnerKnowsRecord
<1>1. IInv => OwnerKnowsRecord
  BY DEF IInv, Known
<1> QED
  BY <1>1, InvHolds, PTL

\* Every stored step is backed by an external effect that happened.
THEOREM StepsAreBacked == Spec => []StepsHappened
<1>1. IInv => StepsHappened
  BY DEF IInv, StepsBacked
<1> QED
  BY <1>1, InvHolds, PTL

-----------------------------------------------------------------------------
(***************************************************************************)
(* Part 3.  The stored execution behaves as one uninterrupted run: what    *)
(* an owner writes is a valid checkpoint, one lifecycle step ahead of what *)
(* is stored, so that the stores' checks never stop it; a terminal record  *)
(* is final, and is what callers and observers are told; and the whole     *)
(* implements DurableExecution.                                            *)
(*                                                                         *)
(* The invariant of part 2 is strengthened by Shaped: at each point of     *)
(* run, a worker's execution is its last saved snapshot with one named     *)
(* edit applied, and that snapshot is sound.                               *)
(***************************************************************************)

-----------------------------------------------------------------------------
(* The edits between two snapshots.                                        *)

\* What validateRecoveryState asks of a snapshot with no call pending.
Settled(c) ==
  /\ c.pending = NoCall
  /\ c.iterations >= Len(c.steps)
  /\ validateSteps(c)
  /\ Cardinality(ToolFinishes(c)) = Len(c.steps)
  /\ Cardinality(ToolStarts(c)) = Len(c.steps)
  /\ c.status = "created" => c.iterations = 0 /\ c.retries = 0
  /\ c.status # "running_tool"
  /\ c.status = "completed" => c.iterations > Len(c.steps)
  /\ c.status \in {"failed", "cancelled"} =>
       /\ c.error # ""
       /\ c.transitions[Len(c.transitions)].from # "running_tool"
  /\ c.status # "completed" => c.output = ""
  /\ c.status \notin {"failed", "cancelled"} => c.error = ""

\* ... and of one with a pending call.
Open(c) ==
  /\ c.pending \in CallIDs /\ c.pending # NoCall /\ c.pending \notin StepIDs(c)
  /\ c.iterations > Len(c.steps)
  /\ c.iterations >= Len(c.steps)
  /\ validateSteps(c)
  /\ Cardinality(ToolFinishes(c)) = Len(c.steps)
  /\ Cardinality(ToolStarts(c)) = Len(c.steps) + 1
  /\ c.status \notin {"created", "running_model", "completed"}
  /\ c.status \in {"failed", "cancelled"} =>
       /\ c.error # ""
       /\ c.transitions[Len(c.transitions)].from = "running_tool"
  /\ c.output = ""
  /\ c.status \notin {"failed", "cancelled"} => c.error = ""

\* What validateCheckpoint asks of a resumable snapshot, texts and revision
\* aside.
Sound(c) ==
  /\ c.schema \in 2..3
  /\ c.maxSteps > 0 /\ c.iterations <= c.maxSteps
  /\ c.retries <= c.maxRetries /\ c.retries <= c.iterations
  /\ c.schema < 3 => c.maxRetries = 0 /\ c.retries = 0
  /\ validHistory(c)
  /\ Settled(c) \/ Open(c)

\* The last attempt was spent neither on a retry nor on a tool step.
Fresh(c) ==
  /\ c.status = "running_model"
  /\ c.retries < c.iterations /\ Len(c.steps) < c.iterations

IsReservation(c, d) ==
  /\ c.status \in {"created", "running_model"}
  /\ c.iterations < c.maxSteps
  /\ d = [Enter(c) EXCEPT !.iterations = @ + 1]

IsRetry(c, d) ==
  /\ Fresh(c) /\ canRetryModel(c)
  /\ d = [c EXCEPT !.retries = @ + 1]

IsIntent(c, d) ==
  /\ Fresh(c)
  /\ \E id \in CallIDs \ StepIDs(c) :
       d = [transition(c, "running_tool") EXCEPT !.pending = id]

IsResult(c, d) ==
  /\ c.status = "running_tool"
  /\ \E text \in Text : d = completePending(c, text)

IsEnd(c, d, s) ==
  \E text \in {"ok", "bad"} : d = [transition(c, s) EXCEPT !.error = text]

IsStop(c, d) ==
  /\ c.status \notin Terminal
  /\ \E s \in {"failed", "cancelled"} : IsEnd(Enter(c), d, s)

IsAnswer(c, d) ==
  /\ Fresh(c)
  /\ \E text \in Text : d = [transition(c, "completed") EXCEPT !.output = text]

-----------------------------------------------------------------------------
(* The inductive invariant.                                                *)

\* Points where everything that a worker has is saved.
Quiet == {"create", "top", "call_model", "model", "backoff", "call_tool",
          "tool", "reconcile", "replay"}

\* The attempt that c counts last was dispatched.
Dispatched(c) == c.iterations \in 1..AttemptBound /\ started[c.iterations] > 0

\* How the execution of w differs from its last snapshot.
Shape(w) ==
  LET c == cur[w]
      s == saved[w]
  IN  /\ pc[w] \in Working \cup {"create"} =>
           Sound(s) /\ s.maxSteps <= AttemptBound /\ s.status \notin Terminal
      /\ pc[w] \in Quiet => c = s
      /\ pc[w] = "create" =>
           s = NewCheckpoint(Config[w].maxSteps, Config[w].maxRetries)
      /\ pc[w] \in {"top", "backoff"} => s.status \in {"created", "running_model"}
      /\ pc[w] \in {"call_model", "model"} => Fresh(s)
      /\ pc[w] \in {"call_tool", "tool", "reconcile", "replay"} =>
           s.status = "running_tool"
      /\ pc[w] \in {"model", "retry", "intent"} => Dispatched(s)
      /\ pc[w] = "attempt" => IsReservation(s, c)
      /\ pc[w] = "retry" => IsRetry(s, c)
      /\ pc[w] = "intent" => IsIntent(s, c)
      /\ pc[w] \in {"step", "recovered"} => IsResult(s, c)
      /\ pc[w] = "terminal" => IsStop(s, c) \/ (IsAnswer(s, c) /\ Dispatched(s))

\* The stored revision is that of the owner's last snapshot, unless the record
\* is of an earlier process that knew no revisions.
RevisionKnown ==
  /\ record # NoRecord => record.maxSteps <= AttemptBound
  /\ \A w \in Workers : Owner(w) =>
       record.revision \in {0, checkpointRevision(saved[w])}

Shaped == RevisionKnown /\ \A w \in Workers : Shape(w)

\* What was announced, or is about to be returned, is what is stored.
Told ==
  /\ LifecycleEventsOnce
  /\ \A s \in Terminal \cup {"created"} : events[s] > 0 => record # NoRecord
  /\ ReturnedOutcomeIsStored
  /\ \A w \in Workers : pc[w] = "terminal" => ret[w].status = cur[w].status

PInv == IInv /\ Shaped /\ Told

-----------------------------------------------------------------------------
(* Transitions, counted and validated.                                     *)

\* The history of d is that of c and one transition more.
OneMore(c, d, next) ==
  /\ d.transitions = Append(c.transitions, [from |-> c.status, to |-> next])
  /\ d.status = next

\* Counting the tool transitions of a longer history.
LEMMA CountOneMore ==
  ASSUME NEW c \in Checkpoint, NEW d, NEW next \in Status, OneMore(c, d, next)
  PROVE  /\ Cardinality(ToolStarts(c)) \in Nat /\ Cardinality(ToolFinishes(c)) \in Nat
         /\ Cardinality(ToolStarts(d)) =
              Cardinality(ToolStarts(c)) + (IF next = "running_tool" THEN 1 ELSE 0)
         /\ Cardinality(ToolFinishes(d)) = Cardinality(ToolFinishes(c)) +
              (IF c.status = "running_tool" /\ next = "running_model" THEN 1 ELSE 0)
<1> DEFINE n == Len(c.transitions)
           t == [from |-> c.status, to |-> next]
<1>1. c.transitions \in Seq(Transition) /\ t \in Transition /\ n \in Nat
  BY DEF Checkpoint, Transition
<1>2. /\ DOMAIN c.transitions = 1..n /\ DOMAIN d.transitions = 1..(n + 1)
      /\ \A i \in 1..n : d.transitions[i] = c.transitions[i]
      /\ d.transitions[n + 1] = t
  BY <1>1 DEF OneMore
<1>3. IsFiniteSet(1..n)
  BY <1>1, FS_Interval
<1>4. IsFiniteSet(ToolStarts(c)) /\ IsFiniteSet(ToolFinishes(c))
  <2>1. ToolStarts(c) \subseteq 1..n /\ ToolFinishes(c) \subseteq 1..n
    BY <1>2 DEF ToolStarts, ToolFinishes
  <2> QED
    BY <1>3, <2>1, FS_Subset
<1>5. n + 1 \notin ToolStarts(c) /\ n + 1 \notin ToolFinishes(c)
  BY <1>1, <1>2 DEF ToolStarts, ToolFinishes
<1>6. \A i : i \in 1..(n + 1) <=> i \in 1..n \/ i = n + 1
  BY <1>1
<1>7. t.from = c.status /\ t.to = next
  OBVIOUS
<1> HIDE DEF n, t
<1>8. /\ next = "running_tool" => ToolStarts(d) = ToolStarts(c) \cup {n + 1}
      /\ next # "running_tool" => ToolStarts(d) = ToolStarts(c)
  BY <1>2, <1>6, <1>7 DEF ToolStarts
<1>9. IF c.status = "running_tool" /\ next = "running_model"
      THEN ToolFinishes(d) = ToolFinishes(c) \cup {n + 1}
      ELSE ToolFinishes(d) = ToolFinishes(c)
  <2>1. CASE c.status = "running_tool" /\ next = "running_model"
    BY <1>2, <1>6, <1>7, <2>1 DEF ToolFinishes
  <2>2. CASE ~(c.status = "running_tool" /\ next = "running_model")
    BY <1>2, <1>6, <1>7, <2>2 DEF ToolFinishes
  <2> QED
    BY <2>1, <2>2
<1>10. Cardinality(ToolStarts(c)) \in Nat /\ Cardinality(ToolFinishes(c)) \in Nat
  BY <1>4, FS_CardinalityType
<1>11. /\ Cardinality(ToolStarts(c) \cup {n + 1}) = Cardinality(ToolStarts(c)) + 1
       /\ Cardinality(ToolFinishes(c) \cup {n + 1}) = Cardinality(ToolFinishes(c)) + 1
  BY <1>4, <1>5, FS_AddElement
<1>12. Cardinality(ToolStarts(d)) =
         Cardinality(ToolStarts(c)) + (IF next = "running_tool" THEN 1 ELSE 0)
  <2>1. CASE next = "running_tool"
    BY <1>8, <1>11, <2>1
  <2>2. CASE next # "running_tool"
    <3>1. Cardinality(ToolStarts(d)) = Cardinality(ToolStarts(c))
      BY <1>8, <2>2
    <3> QED
      BY <1>10, <2>2, <3>1
  <2> QED
    BY <2>1, <2>2
<1>13. Cardinality(ToolFinishes(d)) = Cardinality(ToolFinishes(c)) +
         (IF c.status = "running_tool" /\ next = "running_model" THEN 1 ELSE 0)
  <2>1. CASE c.status = "running_tool" /\ next = "running_model"
    BY <1>9, <1>11, <2>1
  <2>2. CASE ~(c.status = "running_tool" /\ next = "running_model")
    <3>1. Cardinality(ToolFinishes(d)) = Cardinality(ToolFinishes(c))
      BY <1>9, <2>2
    <3> QED
      BY <1>10, <2>2, <3>1
  <2> QED
    BY <2>1, <2>2
<1> QED
  BY <1>10, <1>12, <1>13

\* A valid history stays one under a valid transition, which is its last.
LEMMA HistoryOneMore ==
  ASSUME NEW c \in Checkpoint, NEW d, NEW next \in Status, OneMore(c, d, next),
         validHistory(c), validTransition(c.status, next)
  PROVE  /\ validHistory(d)
         /\ d.transitions[Len(d.transitions)].from = c.status
<1> DEFINE n == Len(c.transitions)
           t == [from |-> c.status, to |-> next]
<1>1. c.transitions \in Seq(Transition) /\ t \in Transition /\ n \in Nat
  BY DEF Checkpoint, Transition
<1>2. /\ DOMAIN c.transitions = 1..n /\ DOMAIN d.transitions = 1..(n + 1)
      /\ \A i \in 1..n : d.transitions[i] = c.transitions[i]
      /\ d.transitions[n + 1] = t /\ Len(d.transitions) = n + 1
      /\ d.transitions # <<>>
  BY <1>1 DEF OneMore
<1>3. c.status = IF n = 0 THEN "created" ELSE c.transitions[n].to
  BY <1>1 DEF validHistory
<1>4. ASSUME NEW i \in DOMAIN d.transitions
      PROVE  LET before == IF i = 1 THEN "created" ELSE d.transitions[i - 1].to
             IN  /\ d.transitions[i].from = before
                 /\ validTransition(before, d.transitions[i].to)
  <2>1. CASE i = n + 1
    BY <1>1, <1>2, <1>3, <2>1
  <2>2. CASE i # n + 1
    <3>1. i \in 1..n /\ (i # 1 => i - 1 \in 1..n)
      BY <1>1, <1>2, <2>2
    <3> QED
      BY <1>2, <3>1 DEF validHistory
  <2> QED
    BY <2>1, <2>2
<1>5. d.status = d.transitions[Len(d.transitions)].to
  BY <1>2 DEF OneMore
<1> QED
  BY <1>2, <1>4, <1>5 DEF validHistory

\* An edit that touches neither history nor status.
LEMMA SameHistory ==
  ASSUME NEW c, NEW d, d.transitions = c.transitions, d.status = c.status
  PROVE  /\ validHistory(c) => validHistory(d)
         /\ ToolStarts(d) = ToolStarts(c) /\ ToolFinishes(d) = ToolFinishes(c)
BY DEF validHistory, ToolStarts, ToolFinishes

-----------------------------------------------------------------------------
(* Each edit keeps a snapshot sound and advances its revision.             *)

\* The fields that only the creation of an execution sets.
SameBudgets(c, d) == d.maxSteps = c.maxSteps /\ d.maxRetries = c.maxRetries

\* d may follow c in the store.
Advances(c, d) ==
  /\ d \in Checkpoint /\ Sound(d) /\ SameBudgets(c, d)
  /\ checkpointRevision(d) > checkpointRevision(c)

\* The types of the fields that Sound compares.
LEMMA SoundFields ==
  ASSUME NEW c \in Checkpoint
  PROVE  /\ c.schema \in 1..3 /\ c.maxSteps \in Nat /\ c.iterations \in Nat
         /\ c.maxRetries \in Nat /\ c.retries \in Nat /\ c.status \in Status
         /\ c.output \in Text /\ c.error \in Text /\ Len(c.steps) \in Nat
         /\ c.steps \in Seq(Step) /\ c.pending \in ToolCall \cup {NoCall}
         /\ Cardinality(ToolStarts(c)) \in Nat /\ Cardinality(ToolFinishes(c)) \in Nat
<1>1. Cardinality(ToolStarts(c)) \in Nat /\ Cardinality(ToolFinishes(c)) \in Nat
  <2> DEFINE d == [transitions |-> Append(c.transitions,
                                          [from |-> c.status, to |-> "failed"]),
                   status |-> "failed"]
  <2>1. OneMore(c, d, "failed")
    BY DEF OneMore
  <2> QED
    BY <2>1, CountOneMore DEF Status
<1> QED
  BY <1>1 DEF Checkpoint

\* The two predicates together are validateRecoveryState.
LEMMA RecoveryState ==
  ASSUME NEW c, Len(c.steps) \in Nat
  PROVE  /\ validateRecoveryState(c) => Settled(c) \/ Open(c)
         /\ Settled(c) \/ Open(c) => validateRecoveryState(c)
<1>1. Len(c.steps) + 0 = Len(c.steps) /\ 0 # 1
  OBVIOUS
<1>2. /\ c.pending = NoCall => (IF c.pending = NoCall THEN 0 ELSE 1) = 0
      /\ c.pending # NoCall => (IF c.pending = NoCall THEN 0 ELSE 1) = 1
  OBVIOUS
<1>3. ASSUME validateRecoveryState(c) PROVE Settled(c) \/ Open(c)
  <2>1. CASE c.pending = NoCall
    BY <1>1, <1>2, <1>3, <2>1, Zenon DEF validateRecoveryState, Settled
  <2>2. CASE c.pending # NoCall
    BY <1>1, <1>2, <1>3, <2>2, Zenon DEF validateRecoveryState, Open
  <2> QED
    BY <2>1, <2>2
<1>4. ASSUME Settled(c) PROVE validateRecoveryState(c)
    BY <1>1, <1>2, <1>4, Zenon DEF validateRecoveryState, Settled
<1>5. ASSUME Open(c) PROVE validateRecoveryState(c)
    BY <1>1, <1>2, <1>5, Zenon DEF validateRecoveryState, Open
<1> QED
  BY <1>3, <1>4, <1>5

\* An edit that leaves the steps alone.
LEMMA SameSteps ==
  ASSUME NEW c, NEW d, d.steps = c.steps
  PROVE  /\ validateSteps(c) => validateSteps(d)
         /\ StepIDs(d) = StepIDs(c) /\ Len(d.steps) = Len(c.steps)
BY DEF validateSteps, StepIDs

\* A valid transition in full.
LEMMA TransitionFields ==
  ASSUME NEW c \in Checkpoint, NEW next \in Status,
         validTransition(c.status, next)
  PROVE  LET d == transition(c, next)
         IN  /\ d \in Checkpoint /\ OneMore(c, d, next) /\ SameBudgets(c, d)
             /\ d.schema = c.schema /\ d.iterations = c.iterations
             /\ d.retries = c.retries /\ d.steps = c.steps
             /\ d.pending = c.pending /\ d.output = c.output
             /\ d.error = c.error
<1>1. transition(c, next) \in Checkpoint
  BY TransitionType
<1> QED
  BY <1>1 DEF transition, Checkpoint, OneMore, SameBudgets

\* Entering the loop in full.
LEMMA EnterFields ==
  ASSUME NEW c \in Checkpoint
  PROVE  LET d == Enter(c)
         IN  /\ d \in Checkpoint /\ SameBudgets(c, d)
             /\ d.schema = c.schema /\ d.iterations = c.iterations
             /\ d.retries = c.retries /\ d.steps = c.steps
             /\ d.pending = c.pending /\ d.output = c.output
             /\ d.error = c.error
             /\ c.status = "created" => OneMore(c, d, "running_model")
             /\ c.status # "created" => d = c
             /\ d.status # "created"
<1>1. CASE c.status = "created"
  <2>1. validTransition(c.status, "running_model")
    BY <1>1 DEF validTransition
  <2>2. Enter(c) = transition(c, "running_model")
    BY <1>1 DEF Enter
  <2>3. "running_model" \in Status
    BY DEF Status
  <2> QED
    BY <1>1, <2>1, <2>2, <2>3, TransitionFields DEF OneMore
<1>2. CASE c.status # "created"
  BY <1>2 DEF Enter, SameBudgets
<1> QED
  BY <1>1, <1>2

\* Entering the loop keeps a snapshot sound and leaves its revision.
LEMMA EnterSound ==
  ASSUME NEW c \in Checkpoint, Sound(c)
  PROVE  /\ Sound(Enter(c))
         /\ checkpointRevision(Enter(c)) = checkpointRevision(c)
<1> DEFINE d == Enter(c)
<1>1. CASE c.status # "created"
  BY <1>1, EnterFields
<1>2. CASE c.status = "created"
  <2>1. /\ d \in Checkpoint /\ SameBudgets(c, d)
        /\ d.schema = c.schema /\ d.iterations = c.iterations
        /\ d.retries = c.retries /\ d.steps = c.steps
        /\ d.pending = c.pending /\ d.output = c.output
        /\ d.error = c.error /\ OneMore(c, d, "running_model")
    BY <1>2, EnterFields
  <2> HIDE DEF d
  <2>2. validHistory(d)
    BY <1>2, <2>1, HistoryOneMore DEF Sound, validTransition, Status
  <2>3. /\ Cardinality(ToolStarts(d)) = Cardinality(ToolStarts(c))
        /\ Cardinality(ToolFinishes(d)) = Cardinality(ToolFinishes(c))
    BY <1>2, <2>1, CountOneMore DEF Status
  <2>4. d.status = "running_model"
    BY <2>1 DEF OneMore
  <2>5. Settled(d)
    <3>1. Settled(c)
      BY <1>2 DEF Sound, Open
    <3>2. validateSteps(d) /\ Len(d.steps) = Len(c.steps)
      BY <2>1, <3>1, SameSteps DEF Settled
    <3> QED
      BY <1>2, <2>1, <2>3, <2>4, <3>1, <3>2 DEF Settled
  <2>6. Sound(d)
    BY <2>1, <2>2, <2>5 DEF Sound, SameBudgets
  <2>7. checkpointRevision(d) = checkpointRevision(c)
    BY <1>2, <2>1, <2>3, <2>4 DEF checkpointRevision, Terminal
  <2> QED
    BY <2>6, <2>7 DEF d
<1> QED
  BY <1>1, <1>2

\* Reserving an attempt.
LEMMA ReservationAdvances ==
  ASSUME NEW c \in Checkpoint, NEW d, Sound(c), IsReservation(c, d)
  PROVE  /\ Advances(c, d) /\ Fresh(d)
         /\ d.iterations = c.iterations + 1 /\ d.retries = c.retries
         /\ d.steps = c.steps /\ d.pending = c.pending
<1> DEFINE e == Enter(c)
<1>1. /\ e \in Checkpoint /\ SameBudgets(c, e) /\ e.schema = c.schema
      /\ e.iterations = c.iterations /\ e.retries = c.retries
      /\ e.steps = c.steps /\ e.pending = c.pending
      /\ Sound(e) /\ checkpointRevision(e) = checkpointRevision(c)
  BY EnterFields, EnterSound
<1>2. e.status = "running_model"
  BY EnterFields DEF IsReservation, OneMore
<1>3. d = [e EXCEPT !.iterations = @ + 1] /\ c.iterations < c.maxSteps
  BY DEF IsReservation
<1> HIDE DEF e
<1>4. d \in Checkpoint
  BY <1>1, <1>3, EditType
<1>5. /\ d.iterations = e.iterations + 1 /\ d.retries = e.retries
      /\ d.schema = e.schema /\ SameBudgets(e, d) /\ d.status = e.status
      /\ d.steps = e.steps /\ d.pending = e.pending /\ d.output = e.output
      /\ d.error = e.error /\ d.transitions = e.transitions
  BY <1>1, <1>3 DEF Checkpoint, SameBudgets
<1>6. /\ validHistory(d)
      /\ Cardinality(ToolStarts(d)) = Cardinality(ToolStarts(e))
      /\ Cardinality(ToolFinishes(d)) = Cardinality(ToolFinishes(e))
  BY <1>1, <1>5, SameHistory DEF Sound
<1>7. Settled(e) /\ Settled(d)
  <2>1. Settled(e)
    BY <1>1, <1>2 DEF Sound, Open
  <2>2. validateSteps(d) /\ Len(d.steps) = Len(e.steps)
    BY <1>5, <2>1, SameSteps DEF Settled
  <2>3. e.iterations \in Nat /\ Len(e.steps) \in Nat
    BY <1>1, SoundFields
  <2>4. e.iterations >= Len(e.steps)
    BY <2>1 DEF Settled
  <2>5. d.iterations >= Len(d.steps)
    BY <1>5, <2>2, <2>3, <2>4
  <2> QED
    BY <1>2, <1>5, <1>6, <2>1, <2>2, <2>5 DEF Settled
<1>8. Sound(d)
  BY <1>1, <1>3, <1>5, <1>6, <1>7, SoundFields DEF Sound, SameBudgets
<1>9. checkpointRevision(d) > checkpointRevision(e)
  <2>1. /\ e.iterations \in Nat /\ e.retries \in Nat
        /\ Cardinality(ToolStarts(e)) \in Nat /\ Cardinality(ToolFinishes(e)) \in Nat
    BY <1>1, SoundFields
  <2> QED
    BY <1>2, <1>5, <1>6, <2>1 DEF checkpointRevision, Terminal
<1>10. Fresh(d)
  <2>1. e.iterations \in Nat /\ e.retries \in Nat /\ Len(e.steps) \in Nat
    BY <1>1, SoundFields
  <2>2. e.retries <= e.iterations /\ Len(e.steps) <= e.iterations
    BY <1>1, <1>7, <2>1 DEF Sound, Settled
  <2> QED
    BY <1>2, <1>5, <2>1, <2>2 DEF Fresh
<1> QED
  BY <1>1, <1>4, <1>5, <1>8, <1>9, <1>10 DEF Advances, SameBudgets

\* Reserving a retry.
LEMMA RetryAdvances ==
  ASSUME NEW c \in Checkpoint, NEW d, Sound(c), IsRetry(c, d)
  PROVE  /\ Advances(c, d) /\ d.status = "running_model"
         /\ d.iterations = c.iterations /\ d.retries = c.retries + 1
         /\ d.steps = c.steps /\ d.pending = c.pending
<1>1. /\ d = [c EXCEPT !.retries = @ + 1] /\ Fresh(c) /\ canRetryModel(c)
      /\ d \in Checkpoint
  BY EditType DEF IsRetry
<1>2. /\ d.retries = c.retries + 1 /\ d.iterations = c.iterations
      /\ d.schema = c.schema /\ SameBudgets(c, d) /\ d.status = c.status
      /\ d.steps = c.steps /\ d.pending = c.pending /\ d.output = c.output
      /\ d.error = c.error /\ d.transitions = c.transitions
  BY <1>1 DEF Checkpoint, SameBudgets
<1>3. /\ c.status = "running_model" /\ c.retries < c.iterations
      /\ c.retries < c.maxRetries
  BY <1>1 DEF Fresh, canRetryModel
<1>4. /\ validHistory(d)
      /\ Cardinality(ToolStarts(d)) = Cardinality(ToolStarts(c))
      /\ Cardinality(ToolFinishes(d)) = Cardinality(ToolFinishes(c))
  BY <1>2, SameHistory DEF Sound
<1>5. Settled(d)
  <2>1. Settled(c)
    BY <1>3 DEF Sound, Open
  <2>2. validateSteps(d) /\ Len(d.steps) = Len(c.steps)
    BY <1>2, <2>1, SameSteps DEF Settled
  <2> QED
    BY <1>2, <1>3, <1>4, <2>1, <2>2 DEF Settled
<1>6. /\ c.schema \in 1..3 /\ c.iterations \in Nat /\ c.retries \in Nat
      /\ c.maxRetries \in Nat
      /\ Cardinality(ToolStarts(c)) \in Nat /\ Cardinality(ToolFinishes(c)) \in Nat
  BY SoundFields
<1>7. Sound(d)
  BY <1>2, <1>3, <1>4, <1>5, <1>6 DEF Sound, SameBudgets
<1>8. checkpointRevision(d) > checkpointRevision(c)
  BY <1>2, <1>3, <1>4, <1>6 DEF checkpointRevision, Terminal
<1> QED
  BY <1>1, <1>2, <1>3, <1>7, <1>8 DEF Advances

\* Recording the intent to run a tool.
LEMMA IntentAdvances ==
  ASSUME NEW c \in Checkpoint, NEW d, Sound(c), IsIntent(c, d)
  PROVE  /\ Advances(c, d) /\ d.status = "running_tool"
         /\ d.iterations = c.iterations /\ d.retries = c.retries
         /\ d.steps = c.steps /\ c.pending = NoCall
         /\ d.pending \in CallIDs \ StepIDs(c)
<1> DEFINE e == transition(c, "running_tool")
<1>1. /\ c.status = "running_model" /\ c.retries < c.iterations
      /\ Len(c.steps) < c.iterations
  BY DEF IsIntent, Fresh
<1>2. "running_tool" \in Status /\ validTransition(c.status, "running_tool")
  BY <1>1 DEF Status, validTransition
<1>3. /\ e \in Checkpoint /\ OneMore(c, e, "running_tool") /\ SameBudgets(c, e)
      /\ e.schema = c.schema /\ e.iterations = c.iterations
      /\ e.retries = c.retries /\ e.steps = c.steps
      /\ e.output = c.output /\ e.error = c.error
  BY <1>2, TransitionFields
<1>4. PICK id \in CallIDs \ StepIDs(c) : d = [e EXCEPT !.pending = id]
  BY DEF IsIntent
<1> HIDE DEF e
<1>5. d \in Checkpoint
  BY <1>3, <1>4, EditType DEF ToolCall
<1>6. /\ d.iterations = c.iterations /\ d.retries = c.retries
      /\ d.schema = c.schema /\ SameBudgets(c, d)
      /\ d.steps = c.steps /\ d.pending = id /\ d.output = c.output
      /\ d.error = c.error /\ d.transitions = e.transitions
      /\ d.status = e.status
  BY <1>3, <1>4 DEF Checkpoint, SameBudgets
<1>7. OneMore(c, d, "running_tool") /\ d.status = "running_tool"
  BY <1>3, <1>6 DEF OneMore
<1>8. /\ validHistory(d)
      /\ Cardinality(ToolStarts(d)) = Cardinality(ToolStarts(c)) + 1
      /\ Cardinality(ToolFinishes(d)) = Cardinality(ToolFinishes(c)) + 0
  BY <1>1, <1>2, <1>7, HistoryOneMore, CountOneMore DEF Sound
<1>9. /\ c.iterations \in Nat /\ c.retries \in Nat /\ Len(c.steps) \in Nat
      /\ Cardinality(ToolStarts(c)) \in Nat /\ Cardinality(ToolFinishes(c)) \in Nat
  BY SoundFields
<1>10. Settled(c) /\ Open(d)
  <2>1. Settled(c)
    BY <1>1 DEF Sound, Open
  <2>2. /\ validateSteps(d) /\ Len(d.steps) = Len(c.steps)
        /\ StepIDs(d) = StepIDs(c)
    BY <1>6, <2>1, SameSteps DEF Settled
  <2>3. /\ d.iterations > Len(d.steps) /\ d.iterations >= Len(d.steps)
        /\ Cardinality(ToolFinishes(d)) = Len(d.steps)
        /\ Cardinality(ToolStarts(d)) = Len(d.steps) + 1
    <3>1. /\ Cardinality(ToolFinishes(c)) = Len(c.steps)
          /\ Cardinality(ToolStarts(c)) = Len(c.steps)
      BY <2>1 DEF Settled
    <3> QED
      BY <1>1, <1>6, <1>8, <1>9, <2>2, <3>1
  <2>4. d.pending \in CallIDs /\ d.pending # NoCall /\ d.pending \notin StepIDs(d)
    BY <1>4, <1>6, <2>2, CallAssumption
  <2>5. d.output = "" /\ d.error = ""
    BY <1>1, <1>6, <2>1 DEF Settled
  <2> QED
    BY <1>7, <2>1, <2>2, <2>3, <2>4, <2>5 DEF Open
<1>11. Sound(d)
  BY <1>6, <1>8, <1>10 DEF Sound, SameBudgets
<1>12. checkpointRevision(d) > checkpointRevision(c)
  BY <1>1, <1>6, <1>7, <1>8, <1>9 DEF checkpointRevision, Terminal
<1> QED
  BY <1>4, <1>5, <1>6, <1>7, <1>10, <1>11, <1>12 DEF Advances, Settled

\* Appending the result of the pending call keeps the steps valid.
LEMMA StepsOneMore ==
  ASSUME NEW c \in Checkpoint, NEW d, NEW text, validateSteps(c),
         d.steps = Append(c.steps, NewStep(c, c.pending, text)),
         c.pending \in CallIDs \ StepIDs(c)
  PROVE  validateSteps(d) /\ Len(d.steps) = Len(c.steps) + 1
<1> DEFINE n == Len(c.steps)
           s == NewStep(c, c.pending, text)
<1>1. c.steps \in Seq(Step) /\ n \in Nat
  BY DEF Checkpoint
<1>2. s.index = n + 1 /\ s.call = c.pending /\ s.callID = c.pending
  BY DEF NewStep
<1> HIDE DEF s
<1>3. /\ DOMAIN c.steps = 1..n /\ DOMAIN d.steps = 1..(n + 1)
      /\ \A i \in 1..n : d.steps[i] = c.steps[i]
      /\ d.steps[n + 1] = s /\ Len(d.steps) = n + 1
  BY <1>1 DEF s
<1>4. \A i \in 1..n : c.steps[i].call # c.pending
  BY <1>3 DEF StepIDs
<1>5. ASSUME NEW i \in DOMAIN d.steps
      PROVE  /\ d.steps[i].index = i /\ d.steps[i].callID = d.steps[i].call
             /\ d.steps[i].call \in CallIDs
             /\ \A j \in 1..(i - 1) : d.steps[j].call # d.steps[i].call
  <2>1. CASE i = n + 1
    <3>1. 1..(i - 1) = 1..n
      BY <1>1, <2>1
    <3> QED
      BY <1>2, <1>3, <1>4, <2>1, <3>1
  <2>2. CASE i # n + 1
    <3>1. i \in 1..n /\ \A j \in 1..(i - 1) : j \in 1..n
      BY <1>1, <1>3, <2>2
    <3> QED
      BY <1>3, <3>1 DEF validateSteps
  <2> QED
    BY <2>1, <2>2
<1> QED
  BY <1>3, <1>5 DEF validateSteps

\* Recording the result of the pending call.
LEMMA ResultAdvances ==
  ASSUME NEW c \in Checkpoint, NEW d, Sound(c), IsResult(c, d)
  PROVE  /\ Advances(c, d) /\ d.status = "running_model"
         /\ d.iterations = c.iterations /\ d.retries = c.retries
         /\ d.pending = NoCall /\ c.pending \in CallIDs
         /\ \E text : d.steps = Append(c.steps, NewStep(c, c.pending, text))
<1> DEFINE e == transition(c, "running_model")
<1>1. c.status = "running_tool" /\ Open(c)
  BY DEF IsResult, Sound, Settled
<1>2. "running_model" \in Status /\ validTransition(c.status, "running_model")
  BY <1>1 DEF Status, validTransition
<1>3. /\ e \in Checkpoint /\ OneMore(c, e, "running_model") /\ SameBudgets(c, e)
      /\ e.schema = c.schema /\ e.iterations = c.iterations
      /\ e.retries = c.retries /\ e.steps = c.steps
      /\ e.output = c.output /\ e.error = c.error
  BY <1>2, TransitionFields
<1>4. PICK text \in Text : d = completePending(c, text)
  BY DEF IsResult
<1> DEFINE s == NewStep(c, c.pending, text)
<1>5. c.pending \in CallIDs \ StepIDs(c) /\ c.pending \in ToolCall
  BY <1>1 DEF Open, ToolCall
<1>6. d = [e EXCEPT !.steps = Append(@, s), !.pending = NoCall]
  BY <1>4 DEF completePending
<1>7. d \in Checkpoint
  BY <1>4, <1>5, CompletePendingType
<1> HIDE DEF e, s
<1>8. /\ d.iterations = c.iterations /\ d.retries = c.retries
      /\ d.schema = c.schema /\ SameBudgets(c, d)
      /\ d.steps = Append(c.steps, s) /\ d.pending = NoCall
      /\ d.output = c.output /\ d.error = c.error
      /\ d.transitions = e.transitions /\ d.status = e.status
  BY <1>3, <1>6 DEF Checkpoint, SameBudgets
<1>9. OneMore(c, d, "running_model") /\ d.status = "running_model"
  BY <1>3, <1>8 DEF OneMore
<1>10. /\ validHistory(d)
       /\ Cardinality(ToolStarts(d)) = Cardinality(ToolStarts(c)) + 0
       /\ Cardinality(ToolFinishes(d)) = Cardinality(ToolFinishes(c)) + 1
  BY <1>1, <1>2, <1>9, HistoryOneMore, CountOneMore DEF Sound
<1>11. /\ c.iterations \in Nat /\ c.retries \in Nat /\ Len(c.steps) \in Nat
       /\ Cardinality(ToolStarts(c)) \in Nat /\ Cardinality(ToolFinishes(c)) \in Nat
  BY SoundFields
<1>12. Settled(d)
  <2>1. validateSteps(d) /\ Len(d.steps) = Len(c.steps) + 1
    BY <1>1, <1>5, <1>8, StepsOneMore DEF Open, s
  <2>2. /\ d.iterations >= Len(d.steps)
        /\ Cardinality(ToolFinishes(d)) = Len(d.steps)
        /\ Cardinality(ToolStarts(d)) = Len(d.steps)
    <3>1. /\ Cardinality(ToolFinishes(c)) = Len(c.steps)
          /\ Cardinality(ToolStarts(c)) = Len(c.steps) + 1
          /\ c.iterations > Len(c.steps)
      BY <1>1 DEF Open
    <3> QED
      BY <1>8, <1>10, <1>11, <2>1, <3>1
  <2>3. d.output = "" /\ d.error = ""
    BY <1>1, <1>8 DEF Open
  <2> QED
    BY <1>8, <1>9, <2>1, <2>2, <2>3 DEF Settled
<1>13. Sound(d)
  BY <1>8, <1>10, <1>12 DEF Sound, SameBudgets
<1>14. checkpointRevision(d) > checkpointRevision(c)
  BY <1>1, <1>8, <1>9, <1>10, <1>11 DEF checkpointRevision, Terminal
<1> QED
  BY <1>5, <1>7, <1>8, <1>9, <1>13, <1>14 DEF Advances, s

\* Ending a running execution by a failure or a cancellation.
LEMMA EndAdvances ==
  ASSUME NEW b \in Checkpoint, NEW d, Sound(b),
         b.status \in {"running_model", "running_tool"},
         NEW s \in {"failed", "cancelled"}, IsEnd(b, d, s)
  PROVE  /\ Advances(b, d) /\ d.status \in {"failed", "cancelled"}
         /\ d.iterations = b.iterations /\ d.retries = b.retries
         /\ d.steps = b.steps /\ d.pending = b.pending
<1> DEFINE e == transition(b, s)
<1>1. s \in Status /\ validTransition(b.status, s)
  BY DEF Status, validTransition
<1>2. /\ e \in Checkpoint /\ OneMore(b, e, s) /\ SameBudgets(b, e)
      /\ e.schema = b.schema /\ e.iterations = b.iterations
      /\ e.retries = b.retries /\ e.steps = b.steps
      /\ e.output = b.output /\ e.pending = b.pending
  BY <1>1, TransitionFields
<1>3. PICK text \in {"ok", "bad"} : d = [e EXCEPT !.error = text]
  BY DEF IsEnd
<1> HIDE DEF e
<1>4. d \in Checkpoint
  <2>1. text \in Text
    BY DEF Text
  <2> QED
    BY <1>2, <1>3, <2>1, EditType
<1>5. /\ d.iterations = b.iterations /\ d.retries = b.retries
      /\ d.schema = b.schema /\ SameBudgets(b, d)
      /\ d.steps = b.steps /\ d.pending = b.pending
      /\ d.output = b.output /\ d.error = text
      /\ d.transitions = e.transitions /\ d.status = e.status
  BY <1>2, <1>3 DEF Checkpoint, SameBudgets
<1>6. OneMore(b, d, s) /\ d.status = s
  BY <1>2, <1>5 DEF OneMore
<1>7. validHistory(d) /\ d.transitions[Len(d.transitions)].from = b.status
  BY <1>1, <1>6, HistoryOneMore DEF Sound
<1>8. /\ Cardinality(ToolStarts(b)) \in Nat /\ Cardinality(ToolFinishes(b)) \in Nat
      /\ b.iterations \in Nat /\ b.retries \in Nat
  BY SoundFields
<1>9. /\ Cardinality(ToolStarts(d)) = Cardinality(ToolStarts(b))
      /\ Cardinality(ToolFinishes(d)) = Cardinality(ToolFinishes(b))
  <2>1. s # "running_tool" /\ s # "running_model"
    OBVIOUS
  <2>2. /\ Cardinality(ToolStarts(d)) = Cardinality(ToolStarts(b)) + 0
        /\ Cardinality(ToolFinishes(d)) = Cardinality(ToolFinishes(b)) + 0
    BY <1>1, <1>6, <2>1, CountOneMore
  <2> QED
    BY <1>8, <2>2
<1>10. d.status \in {"failed", "cancelled"} /\ d.error # ""
  BY <1>5, <1>6
<1>11. Settled(d) \/ Open(d)
  <2>1. validateSteps(b)
    BY DEF Sound, Settled, Open
  <2>2. /\ validateSteps(d) /\ Len(d.steps) = Len(b.steps)
        /\ StepIDs(d) = StepIDs(b)
    BY <1>5, <2>1, SameSteps
  <2>3. CASE Settled(b)
    <3>1. b.status = "running_model"
      BY <2>3 DEF Settled
    <3> QED
      BY <1>5, <1>7, <1>9, <1>10, <2>2, <2>3, <3>1 DEF Settled
  <2>4. CASE Open(b)
    <3>1. b.status = "running_tool"
      BY <2>4 DEF Open
    <3> QED
      BY <1>5, <1>7, <1>9, <1>10, <2>2, <2>4, <3>1 DEF Open
  <2> QED
    BY <2>3, <2>4 DEF Sound
<1>12. Sound(d)
  BY <1>5, <1>7, <1>11 DEF Sound, SameBudgets
<1>13. checkpointRevision(d) > checkpointRevision(b)
  <2>1. d.status \in Terminal /\ b.status \notin Terminal
    BY <1>10 DEF Terminal
  <2>2. d.iterations = b.iterations /\ d.retries = b.retries
    BY <1>5
  <2> QED
    BY <1>8, <1>9, <2>1, <2>2 DEF checkpointRevision
<1> QED
  BY <1>4, <1>5, <1>10, <1>12, <1>13 DEF Advances

\* Recording a failure or a cancellation; a pending call stays on record.
LEMMA StopAdvances ==
  ASSUME NEW c \in Checkpoint, NEW d, Sound(c), IsStop(c, d)
  PROVE  /\ Advances(c, d) /\ d.status \in {"failed", "cancelled"}
         /\ d.iterations = c.iterations /\ d.retries = c.retries
         /\ d.steps = c.steps /\ d.pending = c.pending
<1> DEFINE b == Enter(c)
<1>1. /\ b \in Checkpoint /\ SameBudgets(c, b)
      /\ b.iterations = c.iterations /\ b.retries = c.retries
      /\ b.steps = c.steps /\ b.pending = c.pending
      /\ Sound(b) /\ checkpointRevision(b) = checkpointRevision(c)
  BY EnterFields, EnterSound
<1>2. b.status \in {"running_model", "running_tool"}
  <2>1. c.status \notin Terminal /\ c.status \in Status
    BY SoundFields DEF IsStop
  <2> QED
    BY <2>1, EnterFields DEF OneMore, Terminal, Status
<1>3. PICK s \in {"failed", "cancelled"} : IsEnd(b, d, s)
  BY DEF IsStop
<1> HIDE DEF b
<1>4. /\ Advances(b, d) /\ d.status \in {"failed", "cancelled"}
      /\ d.iterations = b.iterations /\ d.retries = b.retries
      /\ d.steps = b.steps /\ d.pending = b.pending
  BY <1>1, <1>2, <1>3, EndAdvances
<1> QED
  BY <1>1, <1>4 DEF Advances, SameBudgets

\* Recording the final answer.
LEMMA AnswerAdvances ==
  ASSUME NEW c \in Checkpoint, NEW d, Sound(c), IsAnswer(c, d)
  PROVE  /\ Advances(c, d) /\ d.status = "completed"
         /\ c.status = "running_model" /\ Len(c.steps) < c.iterations
         /\ d.iterations = c.iterations /\ d.retries = c.retries
         /\ d.steps = c.steps /\ d.pending = c.pending
<1> DEFINE e == transition(c, "completed")
<1>1. c.status = "running_model" /\ Len(c.steps) < c.iterations
  BY DEF IsAnswer, Fresh
<1>2. "completed" \in Status /\ validTransition(c.status, "completed")
  BY <1>1 DEF Status, validTransition
<1>3. /\ e \in Checkpoint /\ OneMore(c, e, "completed") /\ SameBudgets(c, e)
      /\ e.schema = c.schema /\ e.iterations = c.iterations
      /\ e.retries = c.retries /\ e.steps = c.steps
      /\ e.pending = c.pending /\ e.error = c.error
  BY <1>2, TransitionFields
<1>4. PICK text \in Text : d = [e EXCEPT !.output = text]
  BY DEF IsAnswer
<1> HIDE DEF e
<1>5. d \in Checkpoint
  BY <1>3, <1>4, EditType
<1>6. /\ d.iterations = c.iterations /\ d.retries = c.retries
      /\ d.schema = c.schema /\ SameBudgets(c, d)
      /\ d.steps = c.steps /\ d.pending = c.pending
      /\ d.error = c.error
      /\ d.transitions = e.transitions /\ d.status = e.status
  BY <1>3, <1>4 DEF Checkpoint, SameBudgets
<1>7. OneMore(c, d, "completed") /\ d.status = "completed"
  BY <1>3, <1>6 DEF OneMore
<1>8. /\ validHistory(d)
      /\ Cardinality(ToolStarts(d)) = Cardinality(ToolStarts(c)) + 0
      /\ Cardinality(ToolFinishes(d)) = Cardinality(ToolFinishes(c)) + 0
  BY <1>1, <1>2, <1>7, HistoryOneMore, CountOneMore DEF Sound
<1>9. /\ c.iterations \in Nat /\ c.retries \in Nat /\ Len(c.steps) \in Nat
      /\ Cardinality(ToolStarts(c)) \in Nat /\ Cardinality(ToolFinishes(c)) \in Nat
  BY SoundFields
<1>10. /\ Cardinality(ToolStarts(d)) = Cardinality(ToolStarts(c))
       /\ Cardinality(ToolFinishes(d)) = Cardinality(ToolFinishes(c))
       /\ c.iterations > Len(c.steps)
  BY <1>1, <1>8, <1>9
<1>11. Settled(d)
  <2>1. Settled(c)
    BY <1>1 DEF Sound, Open
  <2>2. validateSteps(d) /\ Len(d.steps) = Len(c.steps)
    BY <1>6, <2>1, SameSteps DEF Settled
  <2> QED
    BY <1>1, <1>6, <1>7, <1>10, <2>1, <2>2 DEF Settled
<1>12. Sound(d)
  BY <1>6, <1>8, <1>11 DEF Sound, SameBudgets
<1>13. checkpointRevision(d) > checkpointRevision(c)
  BY <1>1, <1>6, <1>7, <1>9, <1>10 DEF checkpointRevision, Terminal
<1> QED
  BY <1>1, <1>5, <1>6, <1>7, <1>12, <1>13 DEF Advances

-----------------------------------------------------------------------------
(* Snapshots that are created, stored and loaded.                          *)

\* Nothing has happened yet in c.
Unstarted(c) ==
  /\ c.schema = 3 /\ c.iterations = 0 /\ c.retries = 0
  /\ c.status = "created" /\ c.pending = NoCall
  /\ c.steps = <<>> /\ c.transitions = <<>>
  /\ c.output = "" /\ c.error = ""

\* A snapshot in which nothing has happened is sound, whatever its budgets.
LEMMA UnstartedSound ==
  ASSUME NEW c, Unstarted(c), c.maxSteps > 0, c.maxRetries \in Nat,
         c.maxSteps \in Nat
  PROVE  Sound(c)
<1>1. /\ DOMAIN c.transitions = {} /\ DOMAIN c.steps = {} /\ Len(c.steps) = 0
      /\ c.transitions = <<>> /\ c.status = "created"
  <2>1. DOMAIN <<>> = {} /\ Len(<<>>) = 0
    OBVIOUS
  <2> QED
    BY <2>1, Zenon DEF Unstarted
<1>2. ToolStarts(c) = {} /\ ToolFinishes(c) = {} /\ validateSteps(c)
  BY <1>1 DEF ToolStarts, ToolFinishes, validateSteps
<1>3. Cardinality(ToolStarts(c)) = 0 /\ Cardinality(ToolFinishes(c)) = 0
  BY <1>2, FS_EmptySet
<1>4. validHistory(c)
  BY <1>1, Zenon DEF validHistory
<1>5. c.schema = 3 /\ c.iterations = 0 /\ c.retries = 0
  BY Zenon DEF Unstarted
<1>6. Settled(c)
  <2>1. c.iterations >= Len(c.steps)
    BY <1>1, <1>5
  <2>2. /\ c.status # "running_tool" /\ c.status # "completed"
        /\ c.status \notin {"failed", "cancelled"}
    BY <1>1
  <2>3. c.pending = NoCall /\ c.output = "" /\ c.error = ""
    BY Zenon DEF Unstarted
  <2> QED
    BY <1>1, <1>2, <1>3, <1>5, <2>1, <2>2, <2>3 DEF Settled
<1> QED
  BY <1>4, <1>5, <1>6 DEF Sound

\* A new execution is sound.
LEMMA NewSound ==
  ASSUME NEW w \in Workers, NEW c,
         c = NewCheckpoint(Config[w].maxSteps, Config[w].maxRetries)
  PROVE  /\ c \in Checkpoint /\ Sound(c) /\ c.maxSteps <= AttemptBound
         /\ Unstarted(c)
<1>1. Config[w] \in RuntimeConfig /\ AttemptBound \in Nat
  BY HarnessAssumption
<1>2. /\ Config[w].maxSteps \in 1..AttemptBound /\ Config[w].maxRetries \in Nat
  BY <1>1 DEF RuntimeConfig
<1>3. Config[w].maxSteps \in Nat /\ Config[w].maxSteps > 0
      /\ Config[w].maxSteps <= AttemptBound
  BY <1>1, <1>2
<1>4. c \in Checkpoint
  BY <1>2, <1>3, NewCheckpointType
<1>5. /\ Unstarted(c) /\ c.maxSteps = Config[w].maxSteps
      /\ c.maxRetries = Config[w].maxRetries
  BY DEF NewCheckpoint, Unstarted
<1> QED
  BY <1>2, <1>3, <1>4, <1>5, UnstartedSound

\* Two snapshots of the same progress.
SameBody(c, d) ==
  /\ SameBudgets(c, d) /\ d.iterations = c.iterations /\ d.retries = c.retries
  /\ d.status = c.status /\ d.output = c.output /\ d.steps = c.steps
  /\ d.transitions = c.transitions /\ d.pending = c.pending
  /\ d.error = c.error

\* Schema and revision are stamped on a snapshot, and are not part of what
\* makes it sound.
LEMMA Restamped ==
  ASSUME NEW c, NEW d, SameBody(c, d), d.schema \in {c.schema, 3}
  PROVE  /\ Sound(c) => Sound(d)
         /\ Fresh(c) => Fresh(d)
         /\ checkpointRevision(d) = checkpointRevision(c)
         /\ validText(c) => validText(d)
         /\ SameProgress(c, d)
<1>1. /\ validHistory(c) => validHistory(d)
      /\ ToolStarts(d) = ToolStarts(c) /\ ToolFinishes(d) = ToolFinishes(c)
  BY SameHistory DEF SameBody
<1>2. /\ validateSteps(c) => validateSteps(d)
      /\ StepIDs(d) = StepIDs(c) /\ Len(d.steps) = Len(c.steps)
  BY SameSteps DEF SameBody
<1>3. Settled(c) => Settled(d)
  BY <1>1, <1>2 DEF SameBody, Settled
<1>4. Open(c) => Open(d)
  BY <1>1, <1>2 DEF SameBody, Open
<1>5. Sound(c) => Sound(d)
  BY <1>1, <1>3, <1>4 DEF SameBody, SameBudgets, Sound
<1>6. Fresh(c) => Fresh(d)
  BY <1>2 DEF SameBody, Fresh
<1>7. checkpointRevision(d) = checkpointRevision(c)
  BY <1>1 DEF SameBody, checkpointRevision
<1>8. validText(c) => validText(d)
  BY DEF SameBody, validText
<1>9. SameProgress(c, d)
  BY DEF SameBody, SameBudgets, SameProgress
<1> QED
  BY <1>5, <1>6, <1>7, <1>8, <1>9

\* What a write stamps.
LEMMA SnapshotStamped ==
  ASSUME TypeOK, NEW w \in Workers
  PROVE  /\ SameBody(cur[w], Snapshot(w))
         /\ Snapshot(w).schema \in {cur[w].schema, 3}
         /\ Snapshot(w).revision = checkpointRevision(cur[w])
<1>1. cur[w] \in Checkpoint
  BY DEF TypeOK
<1> QED
  BY <1>1 DEF Checkpoint, Snapshot, SameBody, SameBudgets

\* A stored checkpoint that Resume accepts is sound once its revision is
\* dropped, and its revision is the one its content has.
LEMMA LoadedSound ==
  ASSUME NEW c \in Checkpoint, validateCheckpoint(c), c.schema >= 2
  PROVE  LET d == [c EXCEPT !.revision = 0]
         IN  /\ Sound(d) /\ SameBody(c, d)
             /\ c.revision \in {0, checkpointRevision(d)}
<1> DEFINE d == [c EXCEPT !.revision = 0]
<1>1. d \in Checkpoint /\ SameBody(c, d) /\ d.schema = c.schema
  BY DEF Checkpoint, SameBody, SameBudgets
<1> HIDE DEF d
<1>2. Len(c.steps) \in Nat /\ c.schema \in 1..3
  BY SoundFields
<1>3. validateRecoveryState(c)
  BY DEF validateCheckpoint
<1>4. Settled(c) \/ Open(c)
  BY <1>2, <1>3, RecoveryState
<1>5. Sound(c)
  BY <1>2, <1>4 DEF validateCheckpoint, Sound
<1>6. Sound(d) /\ checkpointRevision(d) = checkpointRevision(c)
  BY <1>1, <1>5, Restamped
<1> QED
  BY <1>1, <1>6 DEF validateCheckpoint, d

\* A sound snapshot with valid texts and its own revision is accepted by
\* validateCheckpoint.
LEMMA SoundAccepted ==
  ASSUME NEW c \in Checkpoint, Sound(c), validText(c),
         c.revision = checkpointRevision(c)
  PROVE  validateCheckpoint(c)
<1>1. Len(c.steps) \in Nat /\ c.schema \in 1..3 /\ c.iterations \in Nat
      /\ c.maxSteps \in Nat
  BY SoundFields
<1>2. validateRecoveryState(c)
  BY <1>1, RecoveryState DEF Sound
<1> QED
  BY <1>1, <1>2 DEF validateCheckpoint, Sound

-----------------------------------------------------------------------------
(* Every step keeps the shape of every worker.                             *)

\* The steps of the environment.
OutsideStep ==
  \/ \E w \in Workers : Cancel(w) \/ LoseLease(w)
  \/ ExpireLease
  \/ \E id \in CallIDs : ToolEffect(id)
  \/ AllOver
  \/ UNCHANGED vars

\* The steps of worker w, with what they do to what workers share.
WorkerStep(w) ==
  \/ (Run(w) \/ Resume(w)) /\ (Takes(w) \/ Leaves(w))
  \/ (Release(w) \/ Crash(w)) /\ Leaves(w)
  \/ (Persist(w) \/ PersistTerminal(w) \/ PersistFails(w)) /\ Writes(w)
  \/ MoveStep(w) /\ Moves(w)

\* Every step is of one of these forms.
LEMMA StepForms ==
  ASSUME TypeOK, [Next]_vars
  PROVE  (OutsideStep /\ Outside) \/ \E w \in Workers : WorkerStep(w)
<1>1. ASSUME NEW w \in Workers, Proceed(w) PROVE WorkerStep(w)
  BY <1>1, ExitKind, WriteKind, MoveKind DEF Proceed, Loop, MoveStep, WorkerStep
<1>2. ASSUME NEW w \in Workers, Run(w) \/ Resume(w) PROVE WorkerStep(w)
  BY <1>2, EntryKind DEF WorkerStep
<1>3. ASSUME NEW w \in Workers, Crash(w) PROVE WorkerStep(w)
  BY <1>3, ExitKind DEF WorkerStep
<1>4. ASSUME OutsideStep PROVE Outside
  BY <1>4, OutsideKind DEF OutsideStep
<1> QED
  BY <1>1, <1>2, <1>3, <1>4 DEF Next, OutsideStep

\* A dispatched attempt stays dispatched.
LEMMA StartedGrows ==
  ASSUME TypeOK, [Next]_vars
  PROVE  \A n \in 1..AttemptBound : started[n] > 0 => started'[n] > 0
<1>1. \/ UNCHANGED started
      \/ \E x : started' = [started EXCEPT ![x] = @ + 1]
  BY StepKinds DEF Outside, Takes, Leaves, Moves, Writes, callVars
<1>2. \A n \in 1..AttemptBound : started[n] \in Nat
  BY DEF TypeOK
<1>3. CASE UNCHANGED started
  BY <1>3
<1>4. ASSUME NEW x, started' = [started EXCEPT ![x] = @ + 1],
             NEW n \in 1..AttemptBound, started[n] > 0
      PROVE  started'[n] > 0
  BY <1>2, <1>4 DEF TypeOK
<1> QED
  BY <1>1, <1>3, <1>4

\* A worker that the step leaves alone keeps its shape.
LEMMA ShapeKept ==
  ASSUME TypeOK, [Next]_vars, NEW v \in Workers, Shape(v),
         pc'[v] = pc[v], cur'[v] = cur[v], saved'[v] = saved[v]
  PROVE  Shape(v)'
<1>1. \A c : Dispatched(c) => Dispatched(c)'
  BY StartedGrows DEF Dispatched
<1> QED
  BY <1>1 DEF Shape

\* A worker that has nothing, or has returned, has no shape to keep.
LEMMA ShapeGone ==
  ASSUME NEW v \in Workers,
         pc'[v] \in {"idle", "load", "release", "done", "crashed"}
  PROVE  Shape(v)'
BY DEF Shape, Working, Active, PersistPoints, Callbacks, Quiet

\* A worker that starts to end its execution.
LEMMA ShapeTerminal ==
  ASSUME NEW v \in Workers, Shape(v), pc[v] \in Working, pc'[v] = "terminal",
         saved'[v] = saved[v], UNCHANGED started,
         IsStop(saved[v], cur'[v])
           \/ (IsAnswer(saved[v], cur'[v]) /\ Dispatched(saved[v]))
  PROVE  Shape(v)'
<1>1. /\ Sound(saved[v]) /\ saved[v].maxSteps <= AttemptBound
      /\ saved[v].status \notin Terminal
  BY DEF Shape
<1>2. Dispatched(saved[v]) => Dispatched(saved[v])'
  BY DEF Dispatched
<1> QED
  BY <1>1, <1>2 DEF Shape, Quiet

\* A resumed execution starts from what was loaded.
LEMMA LoadShape ==
  ASSUME TypeOK, RevisionKnown, NEW w \in Workers, LoadResumes(w)
  PROVE  /\ Shape(w)'
         /\ record.revision \in {0, checkpointRevision(saved'[w])}
<1> DEFINE c == [record EXCEPT !.revision = 0]
<1>1. /\ record \in Checkpoint /\ record # NoRecord /\ validateCheckpoint(record)
      /\ record.schema >= 2 /\ record.status \notin Terminal
  BY DEF LoadResumes, TypeOK
<1>2. /\ Sound(c) /\ SameBody(record, c)
      /\ record.revision \in {0, checkpointRevision(c)}
  BY <1>1, LoadedSound
<1>3. cur'[w] = c /\ saved'[w] = c
  BY DEF LoadResumes, Adopt, TypeOK
<1>4. record.maxSteps <= AttemptBound
  BY <1>1 DEF RevisionKnown
<1> HIDE DEF c
<1>5. /\ c.status = record.status /\ c.pending = record.pending
      /\ c.maxSteps = record.maxSteps /\ record.status \in Status
  BY <1>1, <1>2, SoundFields DEF SameBody, SameBudgets
<1>6. CASE record.pending = NoCall
  <2>1. pc'[w] = "top"
    BY <1>6 DEF LoadResumes, Goto, TypeOK
  <2>2. c.status \in {"created", "running_model"}
    BY <1>1, <1>2, <1>5, <1>6 DEF Sound, Open, Settled, Status, Terminal
  <2> QED
    BY <1>1, <1>2, <1>3, <1>4, <1>5, <2>1, <2>2 DEF Shape, Quiet
<1>7. CASE record.pending # NoCall
  <2>1. pc'[w] \in {"reconcile", "replay", "release"}
    BY <1>7 DEF LoadResumes, DispatchReplay, Return, Goto, TypeOK
  <2>2. c.status = "running_tool"
    BY <1>1, <1>2, <1>5, <1>7 DEF Sound, Open, Settled, Status, Terminal
  <2>3. CASE pc'[w] = "release"
    BY <1>2, <1>3, <2>3, ShapeGone
  <2>4. CASE pc'[w] \in {"reconcile", "replay"}
    BY <1>1, <1>2, <1>3, <1>4, <1>5, <2>2, <2>4 DEF Shape, Quiet
  <2> QED
    BY <2>1, <2>3, <2>4
<1> QED
  BY <1>6, <1>7

\* Everything is saved where a callback runs or the loop starts over.
LEMMA QuietShape ==
  ASSUME NEW w \in Workers, Shape(w), pc[w] \in Quiet \ {"create"}
  PROVE  /\ cur[w] = saved[w] /\ Sound(saved[w])
         /\ saved[w].maxSteps <= AttemptBound /\ saved[w].status \notin Terminal
BY DEF Shape, Quiet, Working, Active, PersistPoints, Callbacks

\* Settling the pending call.
LEMMA SettleShape ==
  ASSUME TypeOK, NEW w \in Workers, Shape(w), NEW p \in {"step", "recovered"},
         SettlePending(w, p), pc[w] \in {"tool", "reconcile", "replay"}
  PROVE  Shape(w)'
<1>1. /\ cur[w] = saved[w] /\ Sound(saved[w])
      /\ saved[w].maxSteps <= AttemptBound /\ saved[w].status \notin Terminal
      /\ saved[w].status = "running_tool"
  BY QuietShape DEF Quiet, Shape
<1>2. pc'[w] = p /\ saved'[w] = saved[w]
  BY DEF SettlePending, Goto, TypeOK
<1>3. PICK text \in Texts : cur' = [cur EXCEPT ![w] = completePending(cur[w], text)]
  BY DEF SettlePending
<1>4. cur'[w] = completePending(cur[w], text)
  BY <1>3 DEF TypeOK
<1>5. text \in Text
  BY HarnessAssumption DEF Text
<1>6. IsResult(saved[w], cur'[w])
  BY <1>1, <1>4, <1>5 DEF IsResult
<1> QED
  BY <1>1, <1>2, <1>6 DEF Shape, Quiet

\* Recovery, up to its write.
LEMMA RecoveryShape ==
  ASSUME TypeOK, RevisionKnown, NEW w \in Workers, Shape(w), Recovery(w)
  PROVE  Shape(w)'
<1>1. CASE LoadFails(w) \/ LoadDeclines(w) \/ ReconcileFails(w) \/ ReplayFails(w)
  <2>1. pc'[w] = "release"
    BY <1>1 DEF LoadFails, LoadDeclines, ReconcileFails, ReplayFails, Decline,
                Return, TypeOK
  <2> QED
    BY <2>1, ShapeGone
<1>2. CASE LoadResumes(w)
  BY <1>2, LoadShape
<1>3. CASE ReconcileUnknown(w)
  <2>1. /\ pc[w] = "reconcile" /\ pc'[w] \in {"replay", "release"}
        /\ cur'[w] = cur[w] /\ saved'[w] = saved[w]
    BY <1>3 DEF ReconcileUnknown, DispatchReplay, Return, Goto, At, TypeOK
  <2>2. /\ cur[w] = saved[w] /\ Sound(saved[w])
        /\ saved[w].maxSteps <= AttemptBound /\ saved[w].status \notin Terminal
        /\ saved[w].status = "running_tool"
    BY <2>1, QuietShape DEF Quiet, Shape
  <2>3. CASE pc'[w] = "release"
    BY <2>3, ShapeGone
  <2>4. CASE pc'[w] = "replay"
    BY <2>1, <2>2, <2>4 DEF Shape, Quiet
  <2> QED
    BY <2>1, <2>3, <2>4
<1>4. CASE ReconcileCompleted(w) \/ ReplayCompleted(w)
  BY <1>4, SettleShape DEF ReconcileCompleted, ReplayCompleted, At
<1> QED
  BY <1>1, <1>2, <1>3, <1>4 DEF Recovery

\* A cancelled context, a failure or an answer ends the loop.
LEMMA FinishShape ==
  ASSUME TypeOK, NEW w \in Workers, Shape(w),
         ContextDone(w) \/ Fails(w) \/ ModelFinal(w)
  PROVE  Shape(w)'
<1>1. /\ pc[w] \in {"top", "call_model", "model", "backoff", "call_tool", "tool"}
      /\ UNCHANGED <<saved, started>>
  BY DEF ContextDone, Fails, ModelFinal, At, callVars
<1>2. /\ cur[w] = saved[w] /\ Sound(saved[w]) /\ saved[w].status \notin Terminal
      /\ pc[w] \in Working
  <2>1. pc[w] \in Quiet \ {"create"} /\ pc[w] \in Working
    BY <1>1 DEF Quiet, Working, Active, PersistPoints, Callbacks
  <2> QED
    BY <2>1, QuietShape
<1>3. ASSUME NEW c, NEW e, Finish(w, c, e),
             IsStop(saved[w], c) \/ (IsAnswer(saved[w], c) /\ Dispatched(saved[w]))
      PROVE  Shape(w)'
  <2>1. pc'[w] = "terminal" /\ cur'[w] = c
    BY <1>3 DEF Finish, TypeOK
  <2> QED
    BY <1>1, <1>2, <1>3, <2>1, ShapeTerminal
<1>4. ASSUME NEW s \in {"failed", "cancelled"}, NEW text \in {"ok", "bad"}
      PROVE  IsStop(saved[w], [transition(Enter(cur[w]), s) EXCEPT !.error = text])
  BY <1>2 DEF IsStop, IsEnd
<1>5. CASE ContextDone(w)
  <2>1. PICK text \in {"ok", "bad"} :
          Finish(w, [transition(Enter(cur[w]), "cancelled") EXCEPT !.error = text],
                 "context")
    BY <1>5, HarnessAssumption DEF ContextDone
  <2>2. IsStop(saved[w],
               [transition(Enter(cur[w]), "cancelled") EXCEPT !.error = text])
    BY <1>4
  <2> QED
    BY <1>3, <2>1, <2>2
<1>6. CASE Fails(w)
  <2>1. CASE pc[w] \in {"model", "tool"}
    <3>1. saved[w].status # "created"
      BY <2>1 DEF Shape, Fresh
    <3>2. Enter(cur[w]) = cur[w]
      BY <1>2, <3>1 DEF Enter
    <3>3. PICK text \in Texts : Fail(w, text)
      BY <1>6, <2>1 DEF Fails, At
    <3>4. text \in {"ok", "bad"}
      BY HarnessAssumption
    <3>5. Finish(w, [transition(Enter(cur[w]), "failed") EXCEPT !.error = text],
                 "failed")
      BY <3>2, <3>3 DEF Fail
    <3> QED
      BY <1>3, <1>4, <3>4, <3>5
  <2>2. CASE pc[w] \notin {"model", "tool"}
    BY <1>3, <1>4, <1>6, <2>2 DEF Fails
  <2> QED
    BY <2>1, <2>2
<1>7. CASE ModelFinal(w)
  <2>1. Fresh(saved[w]) /\ Dispatched(saved[w])
    BY <1>7 DEF ModelFinal, At, Shape
  <2>2. PICK text \in Texts :
          Finish(w, [transition(cur[w], "completed") EXCEPT !.output = text], "nil")
    BY <1>7 DEF ModelFinal
  <2>3. text \in Text
    BY HarnessAssumption DEF Text
  <2>4. IsAnswer(saved[w], [transition(cur[w], "completed") EXCEPT !.output = text])
    BY <1>2, <2>1, <2>3 DEF IsAnswer
  <2> QED
    BY <1>3, <2>1, <2>2, <2>4
<1> QED
  BY <1>5, <1>6, <1>7

\* The other moves of the loop.
LEMMA LoopShape ==
  ASSUME TypeOK, NEW w \in Workers, Shape(w),
         \/ ReserveAttempt(w) \/ CallModel(w) \/ ModelRetries(w)
         \/ BackoffElapses(w) \/ ToolDecision(w) \/ CallTool(w)
  PROVE  Shape(w)'
<1>1. pc[w] \in {"top", "call_model", "model", "backoff", "call_tool"}
  BY DEF ReserveAttempt, CallModel, ModelRetries, BackoffElapses, ToolDecision,
         CallTool, At
<1>2. /\ cur[w] = saved[w] /\ Sound(saved[w])
      /\ saved[w].maxSteps <= AttemptBound /\ saved[w].status \notin Terminal
  <2>1. pc[w] \in Quiet \ {"create"}
    BY <1>1 DEF Quiet
  <2> QED
    BY <2>1, QuietShape
<1>3. saved'[w] = saved[w]
  BY DEF ReserveAttempt, CallModel, ModelRetries, BackoffElapses, ToolDecision,
         CallTool
<1>4. CASE ReserveAttempt(w)
  <2>1. /\ pc[w] = "top" /\ pc'[w] = "attempt"
        /\ cur'[w] = [Enter(cur[w]) EXCEPT !.iterations = @ + 1]
        /\ cur[w].iterations < cur[w].maxSteps
    BY <1>4 DEF ReserveAttempt, At, Goto, TypeOK
  <2>2. saved[w].status \in {"created", "running_model"}
    BY <2>1 DEF Shape
  <2>3. IsReservation(saved[w], cur'[w])
    BY <1>2, <2>1, <2>2 DEF IsReservation
  <2> QED
    BY <1>2, <1>3, <2>1, <2>3 DEF Shape, Quiet
<1>5. CASE CallModel(w)
  <2>1. /\ pc[w] = "call_model" /\ pc'[w] = "model" /\ cur'[w] = cur[w]
        /\ started' = [started EXCEPT ![cur[w].iterations] = @ + 1]
    BY <1>5 DEF CallModel, At, Goto, TypeOK
  <2>2. Fresh(saved[w])
    BY <2>1 DEF Shape
  <2>3. saved[w].iterations \in 1..AttemptBound
    <3>1. /\ saved[w].iterations \in Nat /\ saved[w].retries \in Nat
          /\ saved[w].maxSteps \in Nat /\ AttemptBound \in Nat
      BY SoundFields, HarnessAssumption DEF TypeOK
    <3>2. /\ saved[w].retries < saved[w].iterations
          /\ saved[w].iterations <= saved[w].maxSteps
      BY <1>2, <2>2 DEF Fresh, Sound
    <3> QED
      BY <1>2, <3>1, <3>2
  <2>4. started'[saved[w].iterations] > 0
    <3>1. started[saved[w].iterations] \in Nat
      BY <2>3 DEF TypeOK
    <3>2. started'[saved[w].iterations] = started[saved[w].iterations] + 1
      BY <1>2, <2>1, <2>3 DEF TypeOK
    <3> QED
      BY <3>1, <3>2
  <2>5. Dispatched(saved[w])'
    BY <1>3, <2>3, <2>4 DEF Dispatched
  <2> QED
    BY <1>2, <1>3, <2>1, <2>2, <2>5 DEF Shape, Quiet
<1>6. CASE ModelRetries(w)
  <2>1. /\ pc[w] = "model" /\ pc'[w] = "retry" /\ canRetryModel(cur[w])
        /\ cur'[w] = [cur[w] EXCEPT !.retries = @ + 1] /\ UNCHANGED started
    BY <1>6 DEF ModelRetries, At, Goto, TypeOK, callVars
  <2>2. Fresh(saved[w]) /\ Dispatched(saved[w])'
    BY <1>3, <2>1 DEF Shape, Dispatched
  <2>3. IsRetry(saved[w], cur'[w])
    BY <1>2, <2>1, <2>2 DEF IsRetry
  <2> QED
    BY <1>2, <1>3, <2>1, <2>2, <2>3 DEF Shape, Quiet
<1>7. CASE BackoffElapses(w)
  <2>1. pc[w] = "backoff" /\ pc'[w] = "top" /\ cur'[w] = cur[w]
    BY <1>7 DEF BackoffElapses, At, Goto, TypeOK
  <2>2. saved[w].status \in {"created", "running_model"}
    BY <2>1 DEF Shape
  <2> QED
    BY <1>2, <1>3, <2>1, <2>2 DEF Shape, Quiet
<1>8. CASE ToolDecision(w)
  <2>1. pc[w] = "model" /\ pc'[w] = "intent" /\ UNCHANGED started
    BY <1>8 DEF ToolDecision, At, Goto, TypeOK, callVars
  <2>2. PICK id \in CallIDs \ StepIDs(cur[w]) :
          cur'[w] = [transition(cur[w], "running_tool") EXCEPT !.pending = id]
    BY <1>8 DEF ToolDecision, TypeOK
  <2>3. Fresh(saved[w]) /\ Dispatched(saved[w])'
    BY <1>3, <2>1 DEF Shape, Dispatched
  <2>4. IsIntent(saved[w], cur'[w])
    BY <1>2, <2>2, <2>3 DEF IsIntent
  <2> QED
    BY <1>2, <1>3, <2>1, <2>3, <2>4 DEF Shape, Quiet
<1>9. CASE CallTool(w)
  <2>1. pc[w] = "call_tool" /\ pc'[w] = "tool" /\ cur'[w] = cur[w]
    BY <1>9 DEF CallTool, At, Goto, TypeOK
  <2>2. saved[w].status = "running_tool"
    BY <2>1 DEF Shape
  <2> QED
    BY <1>2, <1>3, <2>1, <2>2 DEF Shape, Quiet
<1> QED
  BY <1>4, <1>5, <1>6, <1>7, <1>8, <1>9

\* What is about to be written is sound; a worker that has written before is
\* about to advance its own last snapshot.
LEMMA WriteSound ==
  ASSUME TypeOK, NEW w \in Workers, Shape(w),
         pc[w] \in PersistPoints \cup {"terminal"}
  PROVE  /\ Sound(cur[w]) /\ cur[w].maxSteps = saved[w].maxSteps
         /\ cur[w].maxRetries = saved[w].maxRetries
         /\ saved[w].maxSteps <= AttemptBound
         /\ pc[w] # "create" =>
              checkpointRevision(cur[w]) > checkpointRevision(saved[w])
<1>1. /\ saved[w] \in Checkpoint /\ Sound(saved[w])
      /\ saved[w].maxSteps <= AttemptBound
  BY DEF TypeOK, Shape, Working, Active, PersistPoints
<1>2. CASE pc[w] = "create"
  BY <1>1, <1>2 DEF Shape, Quiet
<1>3. CASE pc[w] # "create"
  <2>1. \/ IsReservation(saved[w], cur[w]) \/ IsRetry(saved[w], cur[w])
        \/ IsIntent(saved[w], cur[w]) \/ IsResult(saved[w], cur[w])
        \/ IsStop(saved[w], cur[w]) \/ IsAnswer(saved[w], cur[w])
    BY <1>3 DEF Shape, PersistPoints
  <2>2. Advances(saved[w], cur[w])
    BY <1>1, <2>1, ReservationAdvances, RetryAdvances, IntentAdvances,
       ResultAdvances, StopAdvances, AnswerAdvances
  <2> QED
    BY <1>1, <2>2 DEF Advances, SameBudgets
<1> QED
  BY <1>2, <1>3

\* An acknowledged write.
LEMMA PersistShape ==
  ASSUME TypeOK, NEW w \in Workers, Shape(w), Persist(w)
  PROVE  /\ Shape(w)'
         /\ record' = Snapshot(w)
         /\ record'.revision = checkpointRevision(saved'[w])
<1> DEFINE s == saved[w]
           c == cur[w]
           d == [cur[w] EXCEPT !.schema = Snapshot(w).schema]
<1>1. /\ c \in Checkpoint /\ s \in Checkpoint /\ pc[w] \in PersistPoints
      /\ record' = Snapshot(w)
  BY DEF TypeOK, Persist
<1>2. cur'[w] = d /\ saved'[w] = d
  BY DEF Persist, TypeOK
<1>3. pc'[w] = AfterPersist[pc[w]]
  BY DEF Persist, Goto, TypeOK
<1>4. SameBody(c, d) /\ d.schema \in {c.schema, 3}
  <2>1. Snapshot(w).schema \in {c.schema, 3}
    BY SnapshotStamped
  <2>2. SameBody(c, d) /\ d.schema = Snapshot(w).schema
    BY <1>1 DEF Checkpoint, SameBody, SameBudgets
  <2> QED
    BY <2>1, <2>2
<1>5. record'.revision = checkpointRevision(c)
  BY <1>1, SnapshotStamped
<1>6. Sound(c) /\ c.maxSteps = s.maxSteps /\ s.maxSteps <= AttemptBound
  BY <1>1, WriteSound
<1> HIDE DEF d
<1>7. /\ Sound(d) /\ (Fresh(c) => Fresh(d))
      /\ checkpointRevision(d) = checkpointRevision(c)
      /\ d.status = c.status /\ d.maxSteps = c.maxSteps
  BY <1>4, <1>6, Restamped DEF SameBody, SameBudgets
<1>8. Sound(s)
  BY <1>1 DEF Shape, Working, Active, PersistPoints
<1>9. ASSUME d.status \notin Terminal,
             pc'[w] \in {"top", "backoff"} => d.status \in {"created", "running_model"},
             pc'[w] = "call_model" => Fresh(d),
             pc'[w] = "call_tool" => d.status = "running_tool",
             pc'[w] \in {"top", "backoff", "call_model", "call_tool"}
      PROVE  Shape(w)'
  BY <1>2, <1>6, <1>7, <1>9 DEF Shape, Quiet
<1>10. Shape(w)'
  <2>1. CASE pc[w] = "create"
    <3>1. c.status = "created" /\ pc'[w] = "top"
      <4>1. c = NewCheckpoint(Config[w].maxSteps, Config[w].maxRetries)
        BY <2>1 DEF Shape, Quiet
      <4>2. c.status = "created"
        BY <4>1, NewSound, Zenon DEF Unstarted
      <4> QED
        BY <1>3, <2>1, <4>2 DEF AfterPersist
    <3> QED
      BY <1>7, <1>9, <3>1 DEF Terminal
  <2>2. CASE pc[w] \in {"recovered", "step"}
    <3>1. IsResult(s, c) /\ pc'[w] = "top"
      BY <1>3, <2>2 DEF Shape, AfterPersist
    <3>2. c.status = "running_model"
      BY <1>1, <1>8, <3>1, ResultAdvances
    <3> QED
      BY <1>7, <1>9, <3>1, <3>2 DEF Terminal
  <2>3. CASE pc[w] = "attempt"
    <3>1. IsReservation(s, c) /\ pc'[w] = "call_model"
      BY <1>3, <2>3 DEF Shape, AfterPersist
    <3>2. Fresh(c) /\ c.status = "running_model"
      BY <1>1, <1>8, <3>1, ReservationAdvances DEF Fresh
    <3> QED
      BY <1>7, <1>9, <3>1, <3>2 DEF Terminal
  <2>4. CASE pc[w] = "retry"
    <3>1. IsRetry(s, c) /\ pc'[w] = "backoff"
      BY <1>3, <2>4 DEF Shape, AfterPersist
    <3>2. c.status = "running_model"
      BY <1>1, <1>8, <3>1, RetryAdvances
    <3> QED
      BY <1>7, <1>9, <3>1, <3>2 DEF Terminal
  <2>5. CASE pc[w] = "intent"
    <3>1. IsIntent(s, c) /\ pc'[w] = "call_tool"
      BY <1>3, <2>5 DEF Shape, AfterPersist
    <3>2. c.status = "running_tool"
      BY <1>1, <1>8, <3>1, IntentAdvances
    <3> QED
      BY <1>7, <1>9, <3>1, <3>2 DEF Terminal
  <2> QED
    BY <1>1, <2>1, <2>2, <2>3, <2>4, <2>5 DEF PersistPoints
<1> QED
  BY <1>1, <1>2, <1>5, <1>7, <1>10

\* Run starts from a new execution.
LEMMA EntryShape ==
  ASSUME TypeOK, NEW w \in Workers, Run(w) \/ Resume(w), Takes(w) \/ Leaves(w)
  PROVE  Shape(w)'
<1>1. CASE pc'[w] \in {"load", "done", "crashed"}
  BY <1>1, ShapeGone
<1>2. CASE pc'[w] = "create"
  <2> DEFINE c == NewCheckpoint(Config[w].maxSteps, Config[w].maxRetries)
  <2>1. /\ cur' = [cur EXCEPT ![w] = c] /\ saved' = [saved EXCEPT ![w] = c]
    BY <1>2 DEF Run, Resume, AcquireBreaks, TurnedAway, Goto, TypeOK
  <2>2. c \in Checkpoint /\ Sound(c) /\ c.maxSteps <= AttemptBound /\ Unstarted(c)
    BY NewSound
  <2> HIDE DEF c
  <2>3. cur'[w] = c /\ saved'[w] = c
    BY <2>1 DEF TypeOK
  <2>4. c.status \notin Terminal
    BY <2>2, Zenon DEF Unstarted, Terminal
  <2>5. c = NewCheckpoint(Config[w].maxSteps, Config[w].maxRetries)
    BY DEF c
  <2> QED
    BY <1>2, <2>2, <2>3, <2>4, <2>5 DEF Shape, Quiet
<1> QED
  BY <1>1, <1>2 DEF Takes, Leaves

\* Every step keeps the shape of every worker.
LEMMA NextShape ==
  ASSUME TypeOK, Shaped, [Next]_vars, NEW v \in Workers
  PROVE  Shape(v)'
<1>1. Shape(v) /\ RevisionKnown
  BY DEF Shaped
<1>2. CASE Outside
  BY <1>1, <1>2, ShapeKept DEF Outside
<1>3. ASSUME NEW w \in Workers \ {v}, WorkerStep(w)
      PROVE  Shape(v)'
  <2>1. pc'[v] = pc[v] /\ cur'[v] = cur[v] /\ saved'[v] = saved[v]
    BY <1>3 DEF WorkerStep, Takes, Leaves, Writes, Moves, OthersKeep
  <2> QED
    BY <1>1, <2>1, ShapeKept
<1>4. CASE WorkerStep(v)
  <2>1. CASE (Run(v) \/ Resume(v)) /\ (Takes(v) \/ Leaves(v))
    BY <2>1, EntryShape
  <2>2. CASE Leaves(v)
    BY <2>2, ShapeGone DEF Leaves
  <2>3. CASE Persist(v)
    BY <1>1, <2>3, PersistShape
  <2>4. CASE PersistTerminal(v) \/ PersistFails(v)
    <3>1. pc'[v] = "release"
      BY <2>4 DEF PersistTerminal, PersistFails, Return, Goto, TypeOK
    <3> QED
      BY <3>1, ShapeGone
  <2>5. CASE MoveStep(v)
    <3>1. CASE Recovery(v)
      BY <1>1, <3>1, RecoveryShape
    <3>2. CASE ContextDone(v) \/ Fails(v) \/ ModelFinal(v)
      BY <1>1, <3>2, FinishShape
    <3>3. CASE \/ ReserveAttempt(v) \/ CallModel(v) \/ ModelRetries(v)
               \/ BackoffElapses(v) \/ ToolDecision(v) \/ CallTool(v)
      BY <1>1, <3>3, LoopShape
    <3>4. CASE ToolCompleted(v)
      BY <1>1, <3>4, SettleShape DEF ToolCompleted, At
    <3>5. CASE CallbackPanics(v)
      <4>1. pc'[v] = "release"
        BY <3>5 DEF CallbackPanics, Decline, Return, TypeOK
      <4> QED
        BY <4>1, ShapeGone
    <3> QED
      BY <2>5, <3>1, <3>2, <3>3, <3>4, <3>5 DEF MoveStep
  <2> QED
    BY <1>4, <2>1, <2>2, <2>3, <2>4, <2>5 DEF WorkerStep
<1> QED
  BY <1>2, <1>3, <1>4, StepForms

\* The owner keeps knowing the stored revision.
LEMMA NextRevisionKnown ==
  ASSUME TypeOK, Exclusive, Shaped, [Next]_vars
  PROVE  RevisionKnown'
<1>1. RevisionKnown /\ \A w \in Workers : Shape(w)
  BY DEF Shaped
<1>2. record' # NoRecord => record'.maxSteps <= AttemptBound
  <2>1. CASE UNCHANGED record
    BY <1>1, <2>1 DEF RevisionKnown
  <2>2. ASSUME NEW w \in Workers, Writes(w), WriteDone(w)
        PROVE  record'.maxSteps <= AttemptBound
    <3>1. record' = Snapshot(w) /\ pc[w] \in PersistPoints \cup {"terminal"}
      BY <2>2 DEF Writes, WriteDone
    <3>2. /\ cur[w].maxSteps = saved[w].maxSteps
          /\ saved[w].maxSteps <= AttemptBound
      BY <1>1, <3>1, WriteSound
    <3>3. record'.maxSteps = cur[w].maxSteps
      BY <3>1, SnapshotStamped DEF SameBody, SameBudgets
    <3> QED
      BY <3>2, <3>3
  <2> QED
    BY <2>1, <2>2, StepKinds
    DEF Outside, Takes, Leaves, Moves, Writes, storeVars
<1>3. ASSUME NEW v \in Workers, Owner(v)'
      PROVE  record'.revision \in {0, checkpointRevision(saved'[v])}
  <2>1. pc'[v] \in Working
    BY <1>3 DEF Owner
  <2>2. CASE Outside \/ \E w \in Workers \ {v} : WorkerStep(w)
    <3>1. \/ Outside
          \/ \E w \in Workers \ {v} :
               Takes(w) \/ Leaves(w) \/ Writes(w) \/ Moves(w)
      BY <2>2 DEF WorkerStep
    <3>2. Owner(v) /\ saved'[v] = saved[v]
      BY <1>3, <3>1, OwnerBefore
    <3>3. UNCHANGED record
      <4>1. ASSUME NEW w \in Workers \ {v}, Writes(w), WriteDone(w) PROVE FALSE
        <5>1. Accepts(w) /\ pc[w] \in PersistPoints \cup {"terminal"}
          BY <4>1 DEF Writes, WriteDone
        <5> QED
          BY <3>2, <5>1, WriterAlone
      <4> QED
        BY <3>1, <4>1 DEF Outside, Takes, Leaves, Moves, Writes, storeVars
    <3> QED
      BY <1>1, <3>2, <3>3 DEF RevisionKnown
  <2>3. CASE WorkerStep(v)
    <3>1. ~Takes(v) /\ ~Leaves(v)
      BY <2>1, PCFacts DEF Takes, Leaves
    <3>2. CASE Persist(v)
      BY <1>1, <3>2, PersistShape
    <3>3. ~PersistTerminal(v) /\ ~PersistFails(v)
      <4>1. ASSUME pc'[v] = "release" PROVE FALSE
        BY <2>1, <4>1, PCFacts
      <4> QED
        BY <4>1 DEF PersistTerminal, PersistFails, Return, Goto, TypeOK
    <3>4. CASE MoveStep(v) /\ Moves(v)
      <4>1. UNCHANGED record
        BY <3>4 DEF Moves, storeVars
      <4>2. CASE pc[v] # "load"
        <5>1. saved'[v] = saved[v] /\ Owner(v)
          BY <1>3, <3>4, <4>2 DEF Moves, Owner, Fenced, storeVars
        <5> QED
          BY <1>1, <4>1, <5>1 DEF RevisionKnown
      <4>3. CASE pc[v] = "load"
        <5>1. LoadResumes(v)
          <6>1. ASSUME pc'[v] = "release" PROVE FALSE
            BY <2>1, <6>1, PCFacts
          <6>2. ~LoadFails(v) /\ ~LoadDeclines(v)
            BY <6>1 DEF LoadFails, LoadDeclines, Decline, Return, TypeOK
          <6> QED
            BY <3>4, <4>3, <6>2
            DEF MoveStep, Recovery, ReconcileFails, ReconcileUnknown,
                ReconcileCompleted, ReplayFails, ReplayCompleted, ContextDone,
                ReserveAttempt, CallModel, ModelRetries, BackoffElapses,
                ModelFinal, Fails, ToolDecision, CallTool, ToolCompleted,
                CallbackPanics, Callbacks, At
        <5> QED
          BY <1>1, <4>1, <5>1, LoadShape
      <4> QED
        BY <4>2, <4>3
    <3> QED
      BY <2>3, <3>1, <3>2, <3>3, <3>4 DEF WorkerStep
  <2> QED
    BY <2>2, <2>3, StepForms
<1> QED
  BY <1>2, <1>3 DEF RevisionKnown

-----------------------------------------------------------------------------
(* A terminal record is final, and is what everybody is told.              *)

\* Whoever writes over a stored checkpoint owns it and finds it unfinished.
LEMMA WriterOfRecord ==
  ASSUME TypeOK, Exclusive, Known, Shaped, NEW w \in Workers, Accepts(w),
         pc[w] \in PersistPoints \cup {"terminal"}
  PROVE  IF pc[w] = "create" THEN record = NoRecord
         ELSE /\ record # NoRecord /\ Owner(w)
              /\ SameProgress(record, saved[w]) /\ record.status \notin Terminal
<1>1. CASE pc[w] = "create"
  BY <1>1 DEF Accepts
<1>2. CASE pc[w] # "create"
  <2>1. Owner(w) /\ record # NoRecord /\ pc[w] \in Working
    BY <1>2, WriterAlone DEF Accepts, Owner
  <2>2. SameProgress(record, saved[w])
    BY <2>1 DEF Known, OwnerKnowsRecord
  <2>3. saved[w].status \notin Terminal
    BY <2>1 DEF Shaped, Shape
  <2> QED
    BY <1>2, <2>1, <2>2, <2>3 DEF SameProgress
<1> QED
  BY <1>1, <1>2

\* A stored checkpoint is never lost, and a finished one never overwritten.
LEMMA TerminalFinal ==
  ASSUME TypeOK, Exclusive, Known, Shaped, [Next]_vars, record # NoRecord
  PROVE  /\ record' # NoRecord
         /\ record.status \in Terminal => record' = record
<1>1. ASSUME NEW w \in Workers, Writes(w), WriteDone(w)
      PROVE  record' # NoRecord /\ record.status \notin Terminal
  <2>1. /\ Accepts(w) /\ pc[w] \in PersistPoints \cup {"terminal"}
        /\ record' = Snapshot(w)
    BY <1>1 DEF Writes, WriteDone
  <2> QED
    BY <2>1, WriterOfRecord, SnapshotType, HarnessAssumption
<1> QED
  BY <1>1, StepKinds DEF Outside, Takes, Leaves, Moves, Writes, storeVars

\* A worker's step changes no other worker's result.
LEMMA RetOthers ==
  ASSUME TypeOK, NEW w \in Workers, WorkerStep(w), NEW v \in Workers \ {w}
  PROVE  ret'[v] = ret[v]
<1>1. CASE Run(w) \/ Resume(w)
  BY <1>1 DEF Run, Resume, AcquireBreaks, TurnedAway, TypeOK
<1>2. CASE Release(w) \/ Crash(w)
  BY <1>2 DEF Release, Crash
<1>3. CASE Persist(w) \/ PersistTerminal(w) \/ PersistFails(w)
  BY <1>3 DEF Persist, PersistTerminal, PersistFails, Return, TypeOK
<1>4. CASE Recovery(w)
  BY <1>4 DEF Recovery, LoadFails, LoadDeclines, LoadResumes, ReconcileFails,
              ReconcileUnknown, ReconcileCompleted, ReplayFails,
              ReplayCompleted, SettlePending, DispatchReplay, Decline, Return,
              TypeOK
<1>5. CASE ContextDone(w) \/ Fails(w) \/ ModelFinal(w) \/ CallbackPanics(w)
  BY <1>5 DEF ContextDone, Fails, Fail, ModelFinal, CallbackPanics, Finish,
              Decline, Return, TypeOK
<1>6. CASE \/ ReserveAttempt(w) \/ CallModel(w) \/ ModelRetries(w)
           \/ BackoffElapses(w) \/ ToolDecision(w) \/ CallTool(w)
           \/ ToolCompleted(w)
  BY <1>6 DEF ReserveAttempt, CallModel, ModelRetries, BackoffElapses,
              ToolDecision, CallTool, ToolCompleted, SettlePending
<1> QED
  BY <1>1, <1>2, <1>3, <1>4, <1>5, <1>6 DEF WorkerStep, MoveStep

\* A worker that is about to return a terminal status has found it stored.
ToldTruth(w) ==
  pc[w] \in {"release", "done"} /\ ret[w].status \in Terminal =>
    record # NoRecord /\ record.status = ret[w].status

\* Returning without a terminal status.
LEMMA QuietReturn ==
  ASSUME NEW w \in Workers, ret'[w].status \notin Terminal,
         pc'[w] # "terminal"
  PROVE  ToldTruth(w)' /\ (pc'[w] = "terminal" => ret'[w].status = cur'[w].status)
BY DEF ToldTruth

\* What w returns by its own step is true.
LEMMA OwnTold ==
  ASSUME TypeOK, Told, NEW w \in Workers, Shape(w), WorkerStep(w)
  PROVE  ToldTruth(w)' /\ (pc'[w] = "terminal" => ret'[w].status = cur'[w].status)
<1>1. "none" \notin Terminal
  BY DEF Terminal
<1>2. ASSUME NEW s, NEW e, Decline(w, s, e), s \notin Terminal
      PROVE  ToldTruth(w)' /\ pc'[w] # "terminal"
  <2>1. ret'[w].status = s /\ pc'[w] = "release"
    BY <1>2 DEF Decline, Return, TypeOK
  <2> QED
    BY <1>2, <2>1, QuietReturn
<1>3. ASSUME pc'[w] \notin {"release", "done", "terminal"}
      PROVE  ToldTruth(w)' /\ pc'[w] # "terminal"
  BY <1>3 DEF ToldTruth
<1>4. CASE Run(w) \/ Resume(w)
  <2>1. ASSUME NEW e, TurnedAway(w, e)
        PROVE  ToldTruth(w)' /\ pc'[w] # "terminal"
    <3>1. ret'[w].status = "none" /\ pc'[w] = "done"
      BY <2>1 DEF TurnedAway, Goto, TypeOK
    <3> QED
      BY <1>1, <3>1, QuietReturn
  <2>2. ASSUME Goto(w, "create") \/ Goto(w, "load")
        PROVE  ToldTruth(w)' /\ pc'[w] # "terminal"
    BY <1>3, <2>2 DEF Goto, TypeOK
  <2> QED
    BY <1>4, <2>1, <2>2 DEF Run, Resume, AcquireBreaks
<1>5. CASE Release(w) \/ Crash(w)
  <2>1. /\ pc'[w] = "done" => pc[w] = "release"
        /\ pc'[w] \in {"done", "crashed"}
        /\ UNCHANGED <<record, ret>>
    BY <1>5 DEF Release, Crash, Goto, At, TypeOK
  <2> QED
    BY <2>1 DEF ToldTruth, Told, ReturnedOutcomeIsStored
<1>6. CASE Persist(w)
  <2>1. pc'[w] \in {"top", "call_model", "backoff", "call_tool"}
    BY <1>6 DEF Persist, Goto, TypeOK, AfterPersist, PersistPoints
  <2> QED
    BY <1>3, <2>1
<1>7. CASE PersistTerminal(w)
  <2>1. /\ pc[w] = "terminal" /\ pc'[w] = "release" /\ UNCHANGED ret
        /\ record' = Snapshot(w)
    BY <1>7 DEF PersistTerminal, Goto, At, TypeOK
  <2>2. ret[w].status = cur[w].status /\ Snapshot(w).status = cur[w].status
    BY <2>1, SnapshotStamped DEF Told, SameBody
  <2>3. record' # NoRecord
    BY <2>1, SnapshotType, HarnessAssumption
  <2> QED
    BY <2>1, <2>2, <2>3 DEF ToldTruth
<1>8. CASE PersistFails(w)
  <2>1. ret'[w].status = saved[w].status /\ pc'[w] = "release"
    BY <1>8 DEF PersistFails, Return, TypeOK
  <2>2. saved[w].status \notin Terminal
    BY <1>8 DEF PersistFails, Shape, Working, Active, PersistPoints
  <2> QED
    BY <2>1, <2>2, QuietReturn
<1>9. CASE Recovery(w)
  <2>1. ASSUME pc[w] \in {"reconcile", "replay"} PROVE cur[w].status \notin Terminal
    BY <2>1, QuietShape DEF Quiet
  <2>2. CASE LoadFails(w) \/ ReconcileFails(w) \/ ReplayFails(w)
    BY <1>1, <1>2, <2>1, <2>2 DEF LoadFails, ReconcileFails, ReplayFails, At
  <2>3. CASE LoadDeclines(w)
    <3>1. PICK e : Decline(w, record.status, e)
      BY <2>3 DEF LoadDeclines
    <3>2. ret'[w].status = record.status /\ pc'[w] = "release" /\ UNCHANGED record
      BY <3>1 DEF Decline, Return, TypeOK, storeVars
    <3>3. record # NoRecord
      BY <2>3 DEF LoadDeclines
    <3> QED
      BY <3>2, <3>3 DEF ToldTruth
  <2>4. ASSUME NEW c, c.status \notin Terminal, DispatchReplay(w, c)
        PROVE  ToldTruth(w)' /\ pc'[w] # "terminal"
    <3>1. CASE pc'[w] = "replay"
      BY <1>3, <3>1
    <3>2. CASE pc'[w] # "replay"
      <4>1. ret'[w].status = c.status /\ pc'[w] = "release"
        BY <2>4, <3>2 DEF DispatchReplay, Return, Goto, TypeOK
      <4> QED
        BY <2>4, <4>1, QuietReturn
    <3> QED
      BY <3>1, <3>2
  <2>5. CASE LoadResumes(w)
    <3>1. \/ Goto(w, "top") \/ Goto(w, "reconcile")
          \/ (record.status \notin Terminal /\ DispatchReplay(w, record))
      BY <2>5 DEF LoadResumes
    <3>2. ASSUME Goto(w, "top") \/ Goto(w, "reconcile")
          PROVE  ToldTruth(w)' /\ pc'[w] # "terminal"
      BY <1>3, <3>2 DEF Goto, TypeOK
    <3> QED
      BY <2>4, <3>1, <3>2
  <2>6. CASE ReconcileUnknown(w)
    BY <2>1, <2>4, <2>6 DEF ReconcileUnknown, At
  <2>7. CASE ReconcileCompleted(w) \/ ReplayCompleted(w)
    <3>1. pc'[w] = "recovered"
      BY <2>7 DEF ReconcileCompleted, ReplayCompleted, SettlePending, Goto, TypeOK
    <3> QED
      BY <1>3, <3>1
  <2> QED
    BY <1>9, <2>2, <2>3, <2>5, <2>6, <2>7 DEF Recovery
<1>10. CASE ContextDone(w) \/ Fails(w) \/ ModelFinal(w)
  <2>1. ASSUME NEW c, NEW e, Finish(w, c, e)
        PROVE  /\ pc'[w] = "terminal" /\ ret'[w].status = cur'[w].status
    BY <2>1 DEF Finish, TypeOK
  <2>2. pc'[w] = "terminal" /\ ret'[w].status = cur'[w].status
    BY <1>10, <2>1 DEF ContextDone, Fails, Fail, ModelFinal
  <2> QED
    BY <2>2 DEF ToldTruth
<1>11. CASE CallbackPanics(w)
  BY <1>1, <1>2, <1>11 DEF CallbackPanics
<1>12. CASE \/ ReserveAttempt(w) \/ CallModel(w) \/ ModelRetries(w)
            \/ BackoffElapses(w) \/ ToolDecision(w) \/ CallTool(w)
            \/ ToolCompleted(w)
  <2>1. pc'[w] \in {"attempt", "model", "retry", "top", "intent", "tool", "step"}
    BY <1>12 DEF ReserveAttempt, CallModel, ModelRetries, BackoffElapses,
                 ToolDecision, CallTool, ToolCompleted, SettlePending, Goto, TypeOK
  <2> QED
    BY <1>3, <2>1
<1> QED
  BY <1>4, <1>5, <1>6, <1>7, <1>8, <1>9, <1>10, <1>11, <1>12
  DEF WorkerStep, MoveStep

\* The events of a step: none, the creation, or the stored outcome.
LEMMA EventForms ==
  ASSUME TypeOK, [Next]_vars
  PROVE  \/ UNCHANGED events
         \/ \E w \in Workers :
              /\ Persist(w) /\ pc[w] = "create"
              /\ events' = [events EXCEPT !.created = @ + 1]
         \/ \E w \in Workers : PersistTerminal(w)
<1>1. CASE OutsideStep
  BY <1>1 DEF OutsideStep, Cancel, LoseLease, ExpireLease, ToolEffect, AllOver,
              vars
<1>2. ASSUME NEW w \in Workers, WorkerStep(w)
      PROVE  \/ UNCHANGED events
             \/ /\ Persist(w) /\ pc[w] = "create"
                /\ events' = [events EXCEPT !.created = @ + 1]
             \/ PersistTerminal(w)
  <2>1. CASE Run(w) \/ Resume(w)
    BY <2>1 DEF Run, Resume, AcquireBreaks, TurnedAway
  <2>2. CASE Release(w) \/ Crash(w)
    BY <2>2 DEF Release, Crash
  <2>3. CASE Persist(w) \/ PersistTerminal(w) \/ PersistFails(w)
    BY <2>3 DEF Persist, PersistFails
  <2>4. CASE Recovery(w)
    BY <2>4 DEF Recovery, LoadFails, LoadDeclines, LoadResumes, ReconcileFails,
                ReconcileUnknown, ReconcileCompleted, ReplayFails,
                ReplayCompleted, SettlePending, Decline
  <2>5. CASE MoveStep(w) /\ ~Recovery(w)
    BY <2>5 DEF MoveStep, ContextDone, Fails, ModelFinal, CallbackPanics, Decline,
                ReserveAttempt, CallModel, ModelRetries, BackoffElapses,
                ToolDecision, CallTool, ToolCompleted, SettlePending
  <2> QED
    BY <1>2, <2>1, <2>2, <2>3, <2>4, <2>5 DEF WorkerStep
<1> QED
  BY <1>1, <1>2, StepForms

\* Announcements and results stay true.
LEMMA NextTold ==
  ASSUME TypeOK, Exclusive, Known, Shaped, Told, [Next]_vars
  PROVE  Told'
<1>1. /\ \A s \in Terminal \cup {"created"} : events[s] \in Nat
      /\ \A s \in Terminal : s # "created"
  BY DEF TypeOK, Terminal
<1>2. /\ \A s \in Terminal \cup {"created"} : events[s] > 0 => record # NoRecord
      /\ events["created"] <= 1
      /\ \A s \in Terminal : events[s] > 0 =>
           /\ events[s] = 1 /\ record.status = s
           /\ \A r \in Terminal \ {s} : events[r] = 0
  BY DEF Told, LifecycleEventsOnce
<1>3. record # NoRecord => /\ record' # NoRecord
                           /\ record.status \in Terminal => record' = record
  BY TerminalFinal
<1>4. /\ LifecycleEventsOnce'
      /\ \A s \in Terminal \cup {"created"} : events'[s] > 0 => record' # NoRecord
  <2>1. CASE UNCHANGED events
    BY <1>2, <1>3, <2>1 DEF LifecycleEventsOnce
  <2>2. ASSUME NEW w \in Workers, Persist(w), pc[w] = "create",
               events' = [events EXCEPT !.created = @ + 1]
        PROVE  /\ LifecycleEventsOnce'
               /\ \A s \in Terminal \cup {"created"} :
                    events'[s] > 0 => record' # NoRecord
    <3>1. record = NoRecord /\ record' = Snapshot(w)
      BY <2>2 DEF Persist, Accepts
    <3>2. record' # NoRecord
      BY <3>1, SnapshotType, HarnessAssumption
    <3>3. \A s \in Terminal \cup {"created"} : events[s] = 0
      BY <1>1, <1>2, <3>1
    <3>4. events'["created"] = 1 /\ \A s \in Terminal : events'[s] = 0
      BY <1>1, <2>2, <3>3 DEF TypeOK
    <3> QED
      BY <3>2, <3>4 DEF LifecycleEventsOnce
  <2>3. ASSUME NEW w \in Workers, PersistTerminal(w)
        PROVE  /\ LifecycleEventsOnce'
               /\ \A s \in Terminal \cup {"created"} :
                    events'[s] > 0 => record' # NoRecord
    <3> DEFINE o == cur[w].status
    <3>1. /\ pc[w] = "terminal" /\ Accepts(w) /\ record' = Snapshot(w)
          /\ events' = [events EXCEPT ![o] = @ + 1]
      BY <2>3 DEF PersistTerminal, At
    <3>2. record # NoRecord /\ record.status \notin Terminal
      BY <3>1, WriterOfRecord
    <3>3. o \in Terminal
      <4>1. saved[w] \in Checkpoint /\ Shape(w) /\ Sound(saved[w])
        BY <3>1 DEF TypeOK, Shaped, Shape, Working, Active
      <4>2. IsStop(saved[w], cur[w]) \/ IsAnswer(saved[w], cur[w])
        BY <3>1, <4>1 DEF Shape
      <4> QED
        BY <4>1, <4>2, StopAdvances, AnswerAdvances DEF Terminal
    <3>4. \A s \in Terminal : events[s] = 0
      BY <1>1, <1>2, <3>2
    <3>5. record' # NoRecord /\ record'.status = o
      BY <3>1, SnapshotType, SnapshotStamped, HarnessAssumption DEF SameBody
    <3> HIDE DEF o
    <3>6. /\ events'[o] = 1 /\ events'["created"] = events["created"]
          /\ \A s \in Terminal \ {o} : events'[s] = 0
      BY <1>1, <3>1, <3>3, <3>4 DEF TypeOK
    <3> QED
      BY <1>2, <3>3, <3>5, <3>6 DEF LifecycleEventsOnce
  <2> QED
    BY <2>1, <2>2, <2>3, EventForms
<1>5. ASSUME NEW v \in Workers
      PROVE  ToldTruth(v)' /\ (pc'[v] = "terminal" => ret'[v].status = cur'[v].status)
  <2>1. ASSUME pc'[v] = pc[v], cur'[v] = cur[v], ret'[v] = ret[v]
        PROVE  /\ ToldTruth(v)'
               /\ pc'[v] = "terminal" => ret'[v].status = cur'[v].status
    BY <1>3, <2>1 DEF Told, ReturnedOutcomeIsStored, ToldTruth
  <2>2. CASE OutsideStep /\ Outside
    <3>1. UNCHANGED ret
      BY <2>2 DEF OutsideStep, Cancel, LoseLease, ExpireLease, ToolEffect,
                  AllOver, vars, workerVars
    <3> QED
      BY <2>1, <2>2, <3>1 DEF Outside
  <2>3. ASSUME NEW w \in Workers \ {v}, WorkerStep(w)
        PROVE  pc'[v] = pc[v] /\ cur'[v] = cur[v] /\ ret'[v] = ret[v]
    BY <2>3, RetOthers DEF WorkerStep, Takes, Leaves, Writes, Moves, OthersKeep
  <2>4. CASE WorkerStep(v)
    BY <2>4, OwnTold DEF Shaped
  <2> QED
    BY <2>1, <2>2, <2>3, <2>4, StepForms
<1> QED
  BY <1>4, <1>5 DEF Told, ReturnedOutcomeIsStored, ToldTruth

-----------------------------------------------------------------------------
(* The theorems.                                                           *)

\* The strengthened invariant holds before anybody runs.
LEMMA InitPInv == Init => PInv
<1> SUFFICES ASSUME Init PROVE PInv
  OBVIOUS
<1>1. \A w \in Workers : pc[w] = "idle" /\ ret[w].status = "none"
  BY DEF Init
<1>2. RevisionKnown
  <2>1. record # NoRecord => record.maxSteps <= AttemptBound
    BY HarnessAssumption DEF Init
  <2> QED
    BY <1>1, <2>1 DEF RevisionKnown, Owner, Working, Active, PersistPoints,
                      Callbacks
<1>3. \A w \in Workers : Shape(w)
  BY <1>1 DEF Shape, Working, Active, PersistPoints, Callbacks, Quiet
<1>4. \A s \in Terminal \cup {"created"} : events[s] = 0
  BY DEF Init
<1>5. Told
  BY <1>1, <1>4 DEF Told, LifecycleEventsOnce, ReturnedOutcomeIsStored, Terminal
<1> QED
  BY <1>2, <1>3, <1>5, InitIInv DEF PInv, Shaped

\* Every step keeps the strengthened invariant.
LEMMA NextPInv == PInv /\ [Next]_vars => PInv'
<1> SUFFICES ASSUME PInv, [Next]_vars PROVE PInv'
  OBVIOUS
<1>1. IInv' /\ TypeOK /\ Exclusive /\ Known
  BY NextIInv DEF PInv, IInv
<1>2. \A v \in Workers : Shape(v)'
  BY <1>1, NextShape DEF PInv
<1>3. RevisionKnown' /\ Told'
  BY <1>1, NextRevisionKnown, NextTold DEF PInv
<1> QED
  BY <1>1, <1>2, <1>3 DEF PInv, Shaped

\* The strengthened invariant of Run and Resume, for any number of workers.
THEOREM PromiseInvHolds == Spec => []PInv
BY InitPInv, NextPInv, PTL DEF Spec

\* One execution_started and one terminal event over all workers, and the
\* terminal event names the stored outcome (runtime.go: the deferred function
\* of run emits it after the terminal write only).
THEOREM EventsOnce == Spec => []LifecycleEventsOnce
<1>1. PInv => LifecycleEventsOnce
  BY DEF PInv, Told
<1> QED
  BY <1>1, PromiseInvHolds, PTL

\* A terminal status that Run or Resume returns is the stored one (runtime.go:
\* a failed write returns lastSaved instead).
THEOREM OutcomesStored == Spec => []ReturnedOutcomeIsStored
<1>1. PInv => ReturnedOutcomeIsStored
  BY DEF PInv, Told
<1> QED
  BY <1>1, PromiseInvHolds, PTL

\* The checks of the store never stop the owner: what it writes validates and
\* advances the stored revision (checkpoint.go: checkpointRevision,
\* validateCheckpoint), unless a callback returned invalid UTF-8.
THEOREM OwnersNeverRefused == Spec => []OwnerNeverRefused
<1>1. PInv => OwnerNeverRefused
  <2> SUFFICES ASSUME PInv, NEW w \in Workers,
                      pc[w] \in (PersistPoints \ {"create"}) \cup {"terminal"},
                      Owner(w), ctx[w] # "lost", validText(cur[w])
               PROVE  Accepts(w)
    BY DEF OwnerNeverRefused
  <2>1. /\ TypeOK /\ Shape(w) /\ pc[w] \in PersistPoints \cup {"terminal"}
        /\ pc[w] # "create"
    BY DEF PInv, IInv, Shaped, PersistPoints
  <2>2. /\ record # NoRecord
        /\ record.revision \in {0, checkpointRevision(saved[w])}
    BY DEF PInv, IInv, Known, OwnerKnowsRecord, Shaped, RevisionKnown
  <2>3. /\ Sound(cur[w])
        /\ checkpointRevision(cur[w]) > checkpointRevision(saved[w])
    BY <2>1, WriteSound
  <2>4. /\ Snapshot(w) \in Checkpoint
        /\ Snapshot(w).revision = checkpointRevision(cur[w])
        /\ checkpointRevision(Snapshot(w)) = checkpointRevision(cur[w])
        /\ Sound(Snapshot(w)) /\ validText(Snapshot(w))
    BY <2>1, <2>3, SnapshotType, SnapshotStamped, Restamped
  <2>5. validateCheckpoint(Snapshot(w))
    BY <2>4, SoundAccepted
  <2>6. advancesRevision(record, Snapshot(w))
    BY <2>2, <2>3, <2>4 DEF advancesRevision
  <2>7. ~Fenced(w)
    BY DEF Owner
  <2> QED
    BY <2>1, <2>2, <2>5, <2>6, <2>7 DEF Accepts
<1> QED
  BY <1>1, PromiseInvHolds, PTL

-----------------------------------------------------------------------------
(* Callbacks under a flock, and the lease store seen by its contract.      *)

\* A call that is pending in a sound snapshot is not among its steps.
LEMMA PendingNotStep ==
  ASSUME NEW c, Sound(c), c.status = "running_tool" \/ c.pending # NoCall
  PROVE  c.pending \in CallIDs \ StepIDs(c) /\ c.pending # NoCall
BY DEF Sound, Settled, Open

\* What a dispatched call is, where ownership excludes.
LEMMA LockedDispatch ==
  ASSUME PInv, [Next]_vars, store = "lock", NEW id \in CallIDs,
         executed'[id] + replayed'[id] > executed[id] + replayed[id]
  PROVE  record # NoRecord /\ id \notin StepIDs(record)
<1>1. TypeOK /\ Exclusive /\ Known /\ \A w \in Workers : Shape(w)
  BY DEF PInv, IInv, Shaped
<1>2. executed[id] \in Nat /\ replayed[id] \in Nat
  BY <1>1 DEF TypeOK
<1>3. \A a, b : a.steps = b.steps => StepIDs(a) = StepIDs(b)
  BY DEF StepIDs
<1>4. ASSUME NEW w \in Workers, pc[w] \in {"call_tool", "reconcile"},
             id = cur[w].pending
      PROVE  record # NoRecord /\ id \notin StepIDs(record)
  <2>1. pc[w] \in Quiet \ {"create"} /\ pc[w] \in Working
    BY <1>4 DEF Quiet, Working, Active, Callbacks, PersistPoints
  <2>2. Owner(w)
    BY <1>1, <2>1, PCFacts DEF Owner, Fenced, Exclusive, LockHeld
  <2>3. record # NoRecord /\ SameProgress(record, saved[w])
    BY <1>1, <2>2 DEF Known, OwnerKnowsRecord
  <2>4. cur[w] = saved[w] /\ Sound(saved[w])
    BY <1>1, <2>1, QuietShape
  <2>5. saved[w].status = "running_tool"
    BY <1>1, <1>4 DEF Shape
  <2>6. saved[w].pending \notin StepIDs(saved[w])
    BY <2>4, <2>5, PendingNotStep
  <2>7. StepIDs(record) = StepIDs(saved[w])
    BY <1>3, <2>3 DEF SameProgress
  <2> QED
    BY <1>4, <2>3, <2>4, <2>6, <2>7
<1>5. ASSUME NEW w \in Workers, LoadResumes(w), id = record.pending
      PROVE  record # NoRecord /\ id \notin StepIDs(record)
  <2>1. /\ record # NoRecord /\ record \in Checkpoint
        /\ validateCheckpoint(record) /\ record.schema >= 2
    BY <1>1, <1>5 DEF LoadResumes, TypeOK
  <2>2. Len(record.steps) \in Nat
    BY <2>1, SoundFields
  <2>3. Settled(record) \/ Open(record)
    BY <2>1, <2>2, RecoveryState DEF validateCheckpoint
  <2>4. record.pending # NoCall
    BY <1>5, CallAssumption
  <2> QED
    BY <1>5, <2>1, <2>3, <2>4 DEF Settled, Open
<1>6. executed'[id] # executed[id] \/ replayed'[id] # replayed[id]
  BY <1>2
<1>7. ASSUME NEW w \in Workers, MoveStep(w), Moves(w)
      PROVE  record # NoRecord /\ id \notin StepIDs(record)
  <2>1. CASE executed'[id] # executed[id]
    <3>1. pc[w] = "call_tool" /\ executed' = [executed EXCEPT ![cur[w].pending] = @ + 1]
      BY <1>7, <2>1 DEF Moves
    <3>2. id = cur[w].pending
      BY <1>1, <2>1, <3>1 DEF TypeOK
    <3> QED
      BY <1>4, <3>1, <3>2
  <2>2. CASE replayed'[id] # replayed[id]
    <3>1. CASE /\ pc[w] = "reconcile"
               /\ replayed' = [replayed EXCEPT ![cur[w].pending] = @ + 1]
      <4>1. id = cur[w].pending
        BY <1>1, <2>2, <3>1 DEF TypeOK
      <4> QED
        BY <1>4, <3>1, <4>1
    <3>2. CASE /\ pc[w] = "load"
               /\ replayed' = [replayed EXCEPT ![record.pending] = @ + 1]
      <4>1. id = record.pending
        BY <1>1, <2>2, <3>2 DEF TypeOK
      <4>2. LoadResumes(w)
        <5>1. ~LoadFails(w) /\ ~LoadDeclines(w)
          BY <2>2 DEF LoadFails, LoadDeclines, Decline, callVars
        <5> QED
          BY <1>7, <3>2, <5>1
          DEF MoveStep, Recovery, ReconcileFails, ReconcileUnknown,
              ReconcileCompleted, ReplayFails, ReplayCompleted, ContextDone,
              ReserveAttempt, CallModel, ModelRetries, BackoffElapses,
              ModelFinal, Fails, ToolDecision, CallTool, ToolCompleted,
              CallbackPanics, Callbacks, At
      <4> QED
        BY <1>5, <4>1, <4>2
    <3> QED
      BY <1>7, <2>2, <3>1, <3>2 DEF Moves
  <2> QED
    BY <1>6, <2>1, <2>2
<1> QED
  BY <1>1, <1>6, <1>7, StepKinds DEF Outside, Takes, Leaves, Writes, callVars

\* Under a flock, a call whose result is stored is never dispatched again
\* (recovery.go: Resume loads the checkpoint after it has acquired).
THEOREM LockedNotRedispatched == Spec => LockedNeverRedispatched
<1>1. PInv /\ [Next]_vars =>
        [store = "lock" =>
           \A id \in CallIDs :
             executed'[id] + replayed'[id] > executed[id] + replayed[id] =>
               record # NoRecord /\ id \notin StepIDs(record)]_vars
  BY LockedDispatch
<1> QED
  BY <1>1, PromiseInvHolds, PTL DEF Spec, LockedNeverRedispatched

\* What a step of the runtime does to a lease store.
LEMMA LeaseStoreStep ==
  ASSUME TypeOK, [Next]_vars, store = "lease"
  PROVE  \/ UNCHANGED <<token, leased, record>>
         \/ ~leased /\ token' = token + 1 /\ leased' = TRUE /\ UNCHANGED record
         \/ leased /\ leased' = FALSE /\ UNCHANGED <<token, record>>
         \/ /\ UNCHANGED <<token, leased>> /\ leased
            /\ \E w \in Workers : Accepts(w) /\ record' = Snapshot(w)
                                  /\ pc[w] \in PersistPoints \cup {"terminal"}
<1>1. CASE OutsideStep
  BY <1>1, Zenon DEF OutsideStep, Cancel, LoseLease, ExpireLease, ToolEffect,
                     AllOver, vars, storeVars
<1>2. ASSUME NEW w \in Workers, Run(w) \/ Resume(w)
      PROVE  \/ UNCHANGED <<token, leased, record>>
             \/ ~leased /\ token' = token + 1 /\ leased' = TRUE /\ UNCHANGED record
  <2>1. UNCHANGED record
    BY <1>2 DEF Run, Resume, AcquireBreaks, TurnedAway
  <2>2. \/ UNCHANGED <<token, leased>>
        \/ ~leased /\ token' = token + 1 /\ leased' = TRUE
    <3>1. CASE Run(w)
      BY <3>1, Zenon DEF Run, AcquireBreaks, Acquire, Busy
    <3>2. CASE Resume(w)
      BY <3>2, Zenon DEF Resume, AcquireBreaks, Acquire, Busy
    <3> QED
      BY <1>2, <3>1, <3>2
  <2> QED
    BY <2>1, <2>2, Zenon
<1>3. ASSUME NEW w \in Workers, Release(w) \/ Crash(w)
      PROVE  \/ UNCHANGED <<token, leased, record>>
             \/ leased /\ leased' = FALSE /\ UNCHANGED <<token, record>>
  <2>1. UNCHANGED <<token, record>>
    BY <1>3 DEF Release, Crash
  <2>2. leased' = leased \/ (leased /\ leased' = FALSE)
    <3>1. leased \in BOOLEAN
      BY DEF TypeOK
    <3> QED
      BY <1>3, <3>1, Zenon DEF Release, Crash
  <2> QED
    BY <2>1, <2>2, Zenon
<1>4. ASSUME NEW w \in Workers, Writes(w)
      PROVE  \/ UNCHANGED <<token, leased, record>>
             \/ /\ UNCHANGED <<token, leased>> /\ leased
                /\ Accepts(w) /\ record' = Snapshot(w)
                /\ pc[w] \in PersistPoints \cup {"terminal"}
  <2>1. /\ UNCHANGED <<token, leased>> /\ pc[w] \in PersistPoints \cup {"terminal"}
        /\ (Accepts(w) /\ record' = Snapshot(w)) \/ UNCHANGED record
    BY <1>4 DEF Writes, WriteDone
  <2>2. Accepts(w) => leased
    BY Zenon DEF Accepts, Fenced
  <2> QED
    BY <2>1, <2>2, Zenon
<1>5. ASSUME NEW w \in Workers, Moves(w) PROVE UNCHANGED <<token, leased, record>>
  BY <1>5 DEF Moves, storeVars
<1>6. ASSUME NEW w \in Workers, WorkerStep(w)
      PROVE  \/ Run(w) \/ Resume(w) \/ Release(w) \/ Crash(w)
             \/ Writes(w) \/ Moves(w)
  BY <1>6 DEF WorkerStep
<1> QED
  BY <1>1, <1>2, <1>3, <1>4, <1>5, <1>6, StepForms, Zenon

\* Seen through its contract, the store is a FencedLease: the runtime moves the
\* revision forwards only, and only under a lease in force (execution_lease.go:
\* FencedCheckpointStore; runtime.go: writeCheckpoint).
THEOREM StoreIsFenced == Spec => StoreStaysFenced
<1>1. ASSUME Init, store = "lease" PROVE Fence!Init
  <2>1. record \in Checkpoint \cup {NoRecord} /\ NoRecord \notin Checkpoint
    BY <1>1, InitType, HarnessAssumption DEF TypeOK
  <2>2. Stored("revision", -1) \in Nat \cup {-1}
    BY <2>1 DEF Stored, Checkpoint
  <2> QED
    BY <1>1, <2>2, Zenon DEF Init, Fence!Init
<1>2. ASSUME PInv, [Next]_vars, store = "lease"
      PROVE  [Fence!Next]_(Fence!fvars)
  <2>1. TypeOK
    BY <1>2 DEF PInv, IInv
  <2>2. UNCHANGED record => Stored("revision", -1)' = Stored("revision", -1)
    BY DEF Stored
  <2>3. CASE UNCHANGED <<token, leased, record>>
    BY <2>2, <2>3 DEF Fence!fvars
  <2>4. CASE ~leased /\ token' = token + 1 /\ leased' = TRUE /\ UNCHANGED record
    BY <2>2, <2>4, Zenon DEF Fence!Next, Fence!Grant
  <2>5. CASE leased /\ leased' = FALSE /\ UNCHANGED <<token, record>>
    BY <2>2, <2>5, Zenon DEF Fence!Next, Fence!Lapse
  <2>6. ASSUME UNCHANGED <<token, leased>>, leased, NEW w \in Workers,
               Accepts(w), record' = Snapshot(w)
        PROVE  Fence!Publish
    <3>1. /\ Snapshot(w) \in Checkpoint /\ Snapshot(w).revision \in Nat
          /\ NoRecord \notin Checkpoint
      BY <2>1, SnapshotType, HarnessAssumption DEF Checkpoint
    <3>2. Stored("revision", -1)' = Snapshot(w).revision
      BY <2>6, <3>1 DEF Stored
    <3>3. Stored("revision", -1) > 0 => Snapshot(w).revision > Stored("revision", -1)
      BY <2>6 DEF Stored, Accepts, advancesRevision
    <3> QED
      BY <2>6, <3>1, <3>2, <3>3, Zenon DEF Fence!Publish
  <2>7. Fence!Publish => Fence!Next
    BY Zenon DEF Fence!Next
  <2> QED
    BY <1>2, <2>1, <2>3, <2>4, <2>5, <2>6, <2>7, LeaseStoreStep, Zenon
<1>3. PInv /\ [Next]_vars => [store = "lease" => [Fence!Next]_(Fence!fvars)]_vars
  BY <1>2
<1>4. Init => (store = "lease" => Fence!Init)
  BY <1>1
<1> QED
  BY <1>3, <1>4, PromiseInvHolds, PTL DEF Spec, StoreStaysFenced

-----------------------------------------------------------------------------
(* The harness implements DurableExecution.                                *)

\* The calls of the steps of c, in order.
Done(c) == [i \in DOMAIN c.steps |-> c.steps[i].call]

\* Done lists the step IDs, and grows with the steps.
LEMMA DoneFacts ==
  ASSUME NEW c \in Checkpoint
  PROVE  /\ {Done(c)[i] : i \in DOMAIN Done(c)} = StepIDs(c)
         /\ Done(c) \in Seq(ToolCall) /\ Len(Done(c)) = Len(c.steps)
         /\ c.steps = <<>> => Done(c) = <<>>
<1>1. c.steps \in Seq(Step) /\ \A s \in Step : s.call \in ToolCall
  BY DEF Checkpoint, Step
<1>2. \A i \in DOMAIN c.steps : c.steps[i].call \in ToolCall
  BY <1>1
<1>3. DOMAIN Done(c) = 1..Len(c.steps) /\ Len(c.steps) \in Nat
  BY <1>1 DEF Done
<1>4. Done(c) \in [1..Len(c.steps) -> ToolCall]
  BY <1>1, <1>2 DEF Done
<1>5. Done(c) \in Seq(ToolCall) /\ Len(Done(c)) = Len(c.steps)
  BY <1>3, <1>4
<1>6. c.steps = <<>> => Done(c) = <<>>
  BY <1>5
<1>7. {Done(c)[i] : i \in DOMAIN Done(c)} = StepIDs(c)
  BY DEF Done, StepIDs
<1> QED
  BY <1>5, <1>6, <1>7

\* Recording a result appends the pending call.
LEMMA DoneAppend ==
  ASSUME NEW c \in Checkpoint, NEW d \in Checkpoint, NEW text,
         d.steps = Append(c.steps, NewStep(c, c.pending, text)),
         c.pending \in ToolCall
  PROVE  Done(d) = Append(Done(c), c.pending)
<1> DEFINE n == Len(c.steps)
           s == NewStep(c, c.pending, text)
<1>1. c.steps \in Seq(Step) /\ n \in Nat
  BY DEF Checkpoint
<1>2. s.call = c.pending
  BY DEF NewStep
<1> HIDE DEF s
<1>3. /\ DOMAIN c.steps = 1..n /\ DOMAIN d.steps = 1..(n + 1)
      /\ \A i \in 1..n : d.steps[i] = c.steps[i]
      /\ d.steps[n + 1] = s
  BY <1>1 DEF s
<1>4. Done(c) \in Seq(ToolCall) /\ Len(Done(c)) = n
  BY DoneFacts
<1>5. /\ Append(Done(c), c.pending) \in Seq(ToolCall)
      /\ Len(Append(Done(c), c.pending)) = n + 1
      /\ \A i \in 1..n : Append(Done(c), c.pending)[i] = Done(c)[i]
      /\ Append(Done(c), c.pending)[n + 1] = c.pending
  BY <1>4
<1>6. Done(d) \in Seq(ToolCall) /\ Len(Done(d)) = n + 1
  BY <1>1, <1>3, DoneFacts
<1>7. ASSUME NEW i \in 1..(n + 1)
      PROVE  Done(d)[i] = Append(Done(c), c.pending)[i]
  <2>1. CASE i = n + 1
    <3>1. Done(d)[i] = c.pending
      BY <1>2, <1>3, <2>1 DEF Done
    <3> QED
      BY <1>5, <2>1, <3>1
  <2>2. CASE i # n + 1
    <3>1. i \in 1..n
      BY <1>1, <2>2
    <3>2. Done(d)[i] = Done(c)[i]
      BY <1>3, <3>1 DEF Done
    <3> QED
      BY <1>5, <3>1, <3>2
  <2> QED
    BY <2>1, <2>2
<1> HIDE DEF n
<1> QED
  BY <1>1, <1>5, <1>6, <1>7, SeqEqual

\* The stored execution as DurableExecution sees it.
Seen(c) ==
  /\ Stored("status", "absent") = c.status
  /\ Stored("maxSteps", 0) = c.maxSteps
  /\ Stored("maxRetries", 0) = c.maxRetries
  /\ Stored("iterations", 0) = c.iterations
  /\ Stored("retries", 0) = c.retries
  /\ Stored("pending", NoCall) = c.pending
  /\ (IF record = NoRecord THEN <<>>
      ELSE [i \in DOMAIN record.steps |-> record.steps[i].call]) = Done(c)

\* ... and as it sees it after a step.
SeenNext(c) ==
  /\ Stored("status", "absent")' = c.status
  /\ Stored("maxSteps", 0)' = c.maxSteps
  /\ Stored("maxRetries", 0)' = c.maxRetries
  /\ Stored("iterations", 0)' = c.iterations
  /\ Stored("retries", 0)' = c.retries
  /\ Stored("pending", NoCall)' = c.pending
  /\ (IF record = NoRecord THEN <<>>
      ELSE [i \in DOMAIN record.steps |-> record.steps[i].call])' = Done(c)

\* A stored checkpoint is seen as it is.
LEMMA SeenRecord ==
  ASSUME NEW c
  PROVE  /\ record # NoRecord /\ SameProgress(record, c) => Seen(c)
         /\ record' # NoRecord /\ SameProgress(record', c) => SeenNext(c)
<1>1. ASSUME record # NoRecord, SameProgress(record, c) PROVE Seen(c)
  BY <1>1 DEF Seen, Stored, SameProgress, Done
<1>2. ASSUME record' # NoRecord, SameProgress(record', c) PROVE SeenNext(c)
  BY <1>2 DEF SeenNext, Stored, SameProgress, Done
<1> QED
  BY <1>1, <1>2

\* The calls on record.
LEMMA SeenRecorded ==
  ASSUME NEW c \in Checkpoint, Seen(c)
  PROVE  Promise!Recorded = {c.pending} \cup StepIDs(c)
<1> DEFINE done == IF record = NoRecord THEN <<>>
                   ELSE [i \in DOMAIN record.steps |-> record.steps[i].call]
<1>1. done = Done(c) /\ Stored("pending", NoCall) = c.pending
  BY DEF Seen
<1>2. Promise!Recorded =
        {Stored("pending", NoCall)} \cup {done[i] : i \in DOMAIN done}
  BY DEF Promise!Recorded
<1> HIDE DEF done
<1>3. {done[i] : i \in DOMAIN done} = StepIDs(c)
  BY <1>1, DoneFacts
<1> QED
  BY <1>1, <1>2, <1>3

\* Nothing but the stored execution changes.
OnlyProgress == UNCHANGED <<started, executed, effect>>

\* A reserved attempt is ReserveAttempt of DurableExecution.
LEMMA MapsReservation ==
  ASSUME NEW c \in Checkpoint, NEW d, Sound(c), IsReservation(c, d),
         Seen(c), SeenNext(d), OnlyProgress
  PROVE  Promise!ReserveAttempt
<1>1. /\ Advances(c, d) /\ d.status = "running_model"
      /\ d.iterations = c.iterations + 1 /\ d.retries = c.retries
      /\ d.steps = c.steps /\ d.pending = c.pending
  BY ReservationAdvances DEF Fresh
<1>2. c.status \in {"created", "running_model"} /\ c.iterations < c.maxSteps
  BY DEF IsReservation
<1>3. SameBudgets(c, d) /\ Done(d) = Done(c)
  BY <1>1 DEF Advances, Done
<1> QED
  BY <1>1, <1>2, <1>3
  DEF Promise!ReserveAttempt, Seen, SeenNext, SameBudgets, OnlyProgress

\* A reserved retry is ReserveRetry.
LEMMA MapsRetry ==
  ASSUME NEW c \in Checkpoint, NEW d, Sound(c), IsRetry(c, d), Dispatched(c),
         Seen(c), SeenNext(d), OnlyProgress
  PROVE  Promise!ReserveRetry
<1>1. /\ Advances(c, d) /\ d.status = "running_model"
      /\ d.iterations = c.iterations /\ d.retries = c.retries + 1
      /\ d.steps = c.steps /\ d.pending = c.pending
  BY RetryAdvances
<1>2. /\ c.status = "running_model" /\ c.iterations < c.maxSteps
      /\ c.retries < c.maxRetries
  BY DEF IsRetry, Fresh, canRetryModel
<1>3. SameBudgets(c, d) /\ Done(d) = Done(c)
  BY <1>1 DEF Advances, Done
<1> QED
  BY <1>1, <1>2, <1>3
  DEF Promise!ReserveRetry, Seen, SeenNext, SameBudgets, OnlyProgress, Dispatched

\* A recorded intent is RecordIntent.
LEMMA MapsIntent ==
  ASSUME NEW c \in Checkpoint, NEW d, Sound(c), IsIntent(c, d), Dispatched(c),
         Seen(c), SeenNext(d), OnlyProgress
  PROVE  \E id \in CallIDs : Promise!RecordIntent(id)
<1>1. /\ Advances(c, d) /\ d.status = "running_tool"
      /\ d.iterations = c.iterations /\ d.retries = c.retries
      /\ d.steps = c.steps /\ c.pending = NoCall
      /\ d.pending \in CallIDs \ StepIDs(c)
  BY IntentAdvances
<1>2. c.status = "running_model"
  BY DEF IsIntent, Fresh
<1>3. SameBudgets(c, d) /\ Done(d) = Done(c)
  BY <1>1 DEF Advances, Done
<1>4. d.pending \notin Promise!Recorded
  BY <1>1, SeenRecorded, CallAssumption
<1>5. Promise!RecordIntent(d.pending)
  BY <1>1, <1>2, <1>3, <1>4
  DEF Promise!RecordIntent, Seen, SeenNext, SameBudgets, OnlyProgress, Dispatched
<1> QED
  BY <1>1, <1>5

\* A recorded result is RecordResult.
LEMMA MapsResult ==
  ASSUME NEW c \in Checkpoint, NEW d, Sound(c), IsResult(c, d),
         c.pending \in effect, Seen(c), SeenNext(d), OnlyProgress
  PROVE  Promise!RecordResult
<1>1. /\ Advances(c, d) /\ d.status = "running_model"
      /\ d.iterations = c.iterations /\ d.retries = c.retries
      /\ d.pending = NoCall /\ c.pending \in CallIDs
  BY ResultAdvances
<1>2. PICK text : d.steps = Append(c.steps, NewStep(c, c.pending, text))
  BY ResultAdvances
<1>3. c.status = "running_tool"
  BY DEF IsResult
<1>4. SameBudgets(c, d) /\ d \in Checkpoint
  BY <1>1 DEF Advances
<1>5. Done(d) = Append(Done(c), c.pending)
  BY <1>1, <1>2, <1>4, DoneAppend DEF ToolCall
<1> QED
  BY <1>1, <1>3, <1>4, <1>5
  DEF Promise!RecordResult, Seen, SeenNext, SameBudgets, OnlyProgress

\* A terminal write is Terminate.
LEMMA MapsTerminal ==
  ASSUME NEW c \in Checkpoint, NEW d, Sound(c), c.status \notin Terminal,
         IsStop(c, d) \/ (IsAnswer(c, d) /\ Dispatched(c)),
         Seen(c), SeenNext(d), OnlyProgress
  PROVE  \E outcome \in Promise!Over : Promise!Terminate(outcome)
<1>1. /\ Advances(c, d) /\ d.status \in Terminal
      /\ d.iterations = c.iterations /\ d.retries = c.retries
      /\ d.steps = c.steps /\ d.pending = c.pending
  BY StopAdvances, AnswerAdvances DEF Terminal
<1>2. d.status = "completed" =>
        c.status = "running_model" /\ Len(c.steps) < c.iterations /\ Dispatched(c)
  BY StopAdvances, AnswerAdvances
<1>3. SameBudgets(c, d) /\ Done(d) = Done(c)
  BY <1>1 DEF Advances, Done
<1>4. c.status \notin Terminal \cup {"absent"} /\ Terminal = Promise!Over
  BY SoundFields DEF Terminal, Promise!Over, Status
<1>5. Len(Done(c)) = Len(c.steps) /\ Len(c.steps) \in Nat /\ c.iterations \in Nat
  BY SoundFields, DoneFacts
<1>6. Promise!Terminate(d.status)
  BY <1>1, <1>2, <1>3, <1>4, <1>5
  DEF Promise!Terminate, Seen, SeenNext, SameBudgets, OnlyProgress, Dispatched
<1> QED
  BY <1>1, <1>4, <1>6

\* Creating the execution is Create.
LEMMA MapsCreate ==
  ASSUME NEW w \in Workers, NEW d, record = NoRecord,
         d = NewCheckpoint(Config[w].maxSteps, Config[w].maxRetries),
         SeenNext(d), OnlyProgress
  PROVE  Promise!Create
<1>1. d \in Checkpoint /\ Sound(d) /\ Unstarted(d)
  BY NewSound
<1>2. /\ d.status = "created" /\ d.iterations = 0 /\ d.retries = 0
      /\ d.pending = NoCall /\ d.steps = <<>>
  BY <1>1, Zenon DEF Unstarted
<1>3. d.maxSteps \in Nat \ {0} /\ d.maxRetries \in Nat
  <2>1. d.maxSteps \in Nat /\ d.maxSteps > 0 /\ d.maxRetries \in Nat
    BY <1>1, SoundFields DEF Sound
  <2> QED
    BY <2>1
<1>4. Done(d) = <<>>
  BY <1>1, <1>2, DoneFacts
<1>5. /\ Stored("status", "absent") = "absent" /\ Stored("iterations", 0) = 0
      /\ Stored("retries", 0) = 0 /\ Stored("pending", NoCall) = NoCall
  BY DEF Stored
<1> QED
  BY <1>2, <1>3, <1>4, <1>5 DEF Promise!Create, SeenNext, OnlyProgress

\* Every write that takes effect is a step of DurableExecution.
LEMMA WriteImplements ==
  ASSUME PInv, NEW w \in Workers, Accepts(w), OnlyProgress,
         pc[w] \in PersistPoints \cup {"terminal"}, record' = Snapshot(w)
  PROVE  Promise!Next
<1>1. /\ TypeOK /\ Exclusive /\ Known /\ Shaped /\ Shape(w) /\ StepsBacked
  BY DEF PInv, IInv, Shaped
<1>2. PICK d : d = cur[w]
  OBVIOUS
<1>3. PICK c : c = saved[w]
  OBVIOUS
<1>4. SeenNext(d)
  <2>1. record' # NoRecord /\ SameProgress(record', d)
    BY <1>1, <1>2, SnapshotType, HarnessAssumption
  <2> QED
    BY <2>1, SeenRecord
<1>5. CASE pc[w] = "create"
  <2>1. d = NewCheckpoint(Config[w].maxSteps, Config[w].maxRetries)
    BY <1>1, <1>2, <1>5 DEF Shape, Quiet
  <2>2. record = NoRecord
    BY <1>5 DEF Accepts
  <2>3. Promise!Create
    BY <1>4, <2>1, <2>2, MapsCreate
  <2> QED
    BY <2>3 DEF Promise!Next
<1>6. CASE pc[w] # "create"
  <2>1. record # NoRecord /\ SameProgress(record, c)
    BY <1>1, <1>3, <1>6, WriterOfRecord
  <2>2. Seen(c)
    BY <2>1, SeenRecord
  <2>3. c \in Checkpoint /\ Sound(c) /\ c.status \notin Terminal
    BY <1>1, <1>3, <1>6, PCFacts DEF TypeOK, Shape
  <2>4. CASE pc[w] = "attempt"
    <3>1. IsReservation(c, d)
      BY <1>1, <1>2, <1>3, <2>4 DEF Shape
    <3>2. Promise!ReserveAttempt
      BY <1>4, <2>2, <2>3, <3>1, MapsReservation
    <3> QED
      BY <3>2 DEF Promise!Next
  <2>5. CASE pc[w] = "retry"
    <3>1. IsRetry(c, d) /\ Dispatched(c)
      BY <1>1, <1>2, <1>3, <2>5 DEF Shape
    <3>2. Promise!ReserveRetry
      BY <1>4, <2>2, <2>3, <3>1, MapsRetry
    <3> QED
      BY <3>2 DEF Promise!Next
  <2>6. CASE pc[w] = "intent"
    <3>1. IsIntent(c, d) /\ Dispatched(c)
      BY <1>1, <1>2, <1>3, <2>6 DEF Shape
    <3>2. \E id \in CallIDs : Promise!RecordIntent(id)
      BY <1>4, <2>2, <2>3, <3>1, MapsIntent
    <3> QED
      BY <3>2 DEF Promise!Next
  <2>7. CASE pc[w] \in {"step", "recovered"}
    <3>1. IsResult(c, d)
      BY <1>1, <1>2, <1>3, <2>7 DEF Shape
    <3>2. c.pending \in effect
      BY <1>1, <1>3, <2>7 DEF StepsBacked
    <3>3. Promise!RecordResult
      BY <1>4, <2>2, <2>3, <3>1, <3>2, MapsResult
    <3> QED
      BY <3>3 DEF Promise!Next
  <2>8. CASE pc[w] = "terminal"
    <3>1. IsStop(c, d) \/ (IsAnswer(c, d) /\ Dispatched(c))
      BY <1>1, <1>2, <1>3, <2>8 DEF Shape
    <3>2. \E outcome \in Promise!Over : Promise!Terminate(outcome)
      BY <1>4, <2>2, <2>3, <3>1, MapsTerminal
    <3> QED
      BY <3>2 DEF Promise!Next
  <2> QED
    BY <1>6, <2>4, <2>5, <2>6, <2>7, <2>8 DEF PersistPoints
<1> QED
  BY <1>5, <1>6

\* While the record stays, so does the stored execution.
LEMMA ProgressKept == UNCHANGED record => UNCHANGED Promise!progress
BY DEF Promise!progress, Stored

\* A call in the stored checkpoint is one on record.
LEMMA RecordedSeen ==
  ASSUME TypeOK, NEW id, Recorded(id)
  PROVE  id \in Promise!Recorded
<1>1. record # NoRecord /\ record \in Checkpoint /\ SameProgress(record, record)
  BY DEF Recorded, TypeOK, SameProgress
<1>2. Promise!Recorded = {record.pending} \cup StepIDs(record)
  BY <1>1, SeenRecord, SeenRecorded
<1> QED
  BY <1>2 DEF Recorded

\* Dispatching a model attempt is DispatchModel.
LEMMA ModelImplements ==
  ASSUME PInv, NEW w \in Workers, pc[w] = "call_model",
         started' = [started EXCEPT ![cur[w].iterations] = @ + 1],
         UNCHANGED <<record, executed, effect>>
  PROVE  Promise!Next
<1>0. PICK n : n = cur[w].iterations
  OBVIOUS
<1>1. TypeOK /\ Shape(w) /\ AttemptsOnce
  BY DEF PInv, IInv, Shaped
<1>2. /\ cur[w] = saved[w] /\ Sound(saved[w]) /\ Fresh(saved[w])
      /\ saved[w].maxSteps <= AttemptBound
  BY <1>1, QuietShape DEF Quiet, Shape
<1>3. n \in 1..AttemptBound
  <2>1. /\ saved[w].iterations \in Nat /\ saved[w].retries \in Nat
        /\ saved[w].maxSteps \in Nat /\ AttemptBound \in Nat
    BY <1>1, SoundFields, HarnessAssumption DEF TypeOK
  <2>2. /\ saved[w].retries < saved[w].iterations
        /\ saved[w].iterations <= saved[w].maxSteps
    BY <1>2 DEF Fresh, Sound
  <2> QED
    BY <1>0, <1>2, <2>1, <2>2
<1>4. record # NoRecord /\ n <= record.iterations /\ started[n] = 0
  BY <1>0, <1>1, <1>3 DEF AttemptsOnce, Reserved
<1>5. record.iterations \in Nat /\ n \in 1..record.iterations
  <2>1. record.iterations \in Nat
    BY <1>1, <1>4, SoundFields DEF TypeOK
  <2> QED
    BY <1>3, <1>4, <2>1
<1>6. Stored("iterations", 0) = record.iterations
  BY <1>4 DEF Stored
<1>7. started' = [started EXCEPT ![n] = @ + 1]
  BY <1>0
<1>8. {m \in 1..AttemptBound : started'[m] > 0} =
        {m \in 1..AttemptBound : started[m] > 0} \cup {n}
  <2>1. \A m \in 1..AttemptBound : started[m] \in Nat
    BY <1>1 DEF TypeOK
  <2>2. \A m \in 1..AttemptBound :
          started'[m] = IF m = n THEN started[m] + 1 ELSE started[m]
    BY <1>1, <1>7 DEF TypeOK
  <2>3. \A m \in 1..AttemptBound : started'[m] > 0 <=> started[m] > 0 \/ m = n
    BY <2>1, <2>2
  <2> QED
    BY <1>3, <2>3
<1>9. Promise!DispatchModel(n)
  BY <1>4, <1>5, <1>6, <1>8, ProgressKept DEF Promise!DispatchModel
<1> QED
  BY <1>5, <1>6, <1>9 DEF Promise!Next

\* Dispatching a tool call is DispatchTool.
LEMMA ToolImplements ==
  ASSUME PInv, NEW w \in Workers, pc[w] = "call_tool",
         executed' = [executed EXCEPT ![cur[w].pending] = @ + 1],
         UNCHANGED <<record, started, effect>>
  PROVE  Promise!Next
<1>0. PICK id : id = cur[w].pending
  OBVIOUS
<1>1. TypeOK /\ Known /\ CallsOnce
  BY DEF PInv, IInv
<1>2. id \in CallIDs /\ Recorded(id) /\ executed[id] = 0
  BY <1>0, <1>1 DEF CallsOnce, Known, Extends
<1>3. id \in Promise!Recorded
  BY <1>1, <1>2, RecordedSeen
<1>4. executed' = [executed EXCEPT ![id] = @ + 1]
  BY <1>0
<1>5. {x \in CallIDs : executed'[x] > 0} = {x \in CallIDs : executed[x] > 0} \cup {id}
  <2>1. \A x \in CallIDs : executed[x] \in Nat
    BY <1>1 DEF TypeOK
  <2>2. \A x \in CallIDs :
          executed'[x] = IF x = id THEN executed[x] + 1 ELSE executed[x]
    BY <1>1, <1>4 DEF TypeOK
  <2>3. \A x \in CallIDs : executed'[x] > 0 <=> executed[x] > 0 \/ x = id
    BY <2>1, <2>2
  <2> QED
    BY <1>2, <2>3
<1>6. Promise!DispatchTool(id)
  BY <1>2, <1>3, <1>5, ProgressKept DEF Promise!DispatchTool
<1> QED
  BY <1>2, <1>6 DEF Promise!Next

\* An external effect is Effect.
LEMMA EffectImplements ==
  ASSUME PInv, NEW id \in CallIDs, ToolEffect(id)
  PROVE  Promise!Next
<1>1. TypeOK /\ CallsOnce
  BY DEF PInv, IInv
<1>2. executed[id] \in Nat /\ replayed[id] \in Nat /\ executed[id] + replayed[id] > 0
  BY <1>1 DEF TypeOK, ToolEffect
<1>3. executed[id] > 0 \/ replayed[id] > 0
  BY <1>2
<1>4. id \in Promise!Recorded
  BY <1>1, <1>3, RecordedSeen DEF CallsOnce
<1>5. UNCHANGED <<record, started, executed>> /\ effect' = effect \cup {id}
  BY DEF ToolEffect, storeVars
<1>6. Promise!Effect(id)
  BY <1>4, <1>5, ProgressKept DEF Promise!Effect
<1> QED
  BY <1>6 DEF Promise!Next

\* The harness starts where DurableExecution starts.
LEMMA InitImplements == ASSUME Init PROVE Promise!Init
<1>1. TypeOK /\ record \in Checkpoint \cup {NoRecord}
  BY InitType DEF TypeOK
<1>2. /\ {n \in 1..AttemptBound : started[n] > 0} = {}
      /\ {id \in CallIDs : executed[id] > 0} = {}
  BY DEF Init
<1>3. effect \in EarlierEffects(record)
  BY DEF Init
<1>4. CASE record = NoRecord
  <2>1. effect = {}
    BY <1>3, <1>4 DEF EarlierEffects
  <2> QED
    BY <1>2, <1>4, <2>1 DEF Promise!Init, Stored
<1>5. CASE record # NoRecord
  <2>1. PICK c : c = record
    OBVIOUS
  <2>2. c \in Checkpoint /\ Seen(c)
    BY <1>1, <1>5, <2>1, SeenRecord DEF SameProgress
  <2>3. Promise!Recorded = {c.pending} \cup StepIDs(c)
    BY <2>2, SeenRecorded
  <2>4. NoCall \notin StepIDs(c)
    BY <2>2, StepIDsType, CallAssumption DEF ToolCall
  <2>5. effect \subseteq Promise!Recorded \ {NoCall}
    BY <1>3, <1>5, <2>1, <2>3, <2>4 DEF EarlierEffects
  <2>6. Stored("status", "absent") # "absent"
    BY <2>2, SoundFields DEF Seen, Status
  <2> QED
    BY <1>2, <2>5, <2>6 DEF Promise!Init
<1> QED
  BY <1>4, <1>5

\* Where nothing that DurableExecution sees changes, it stutters.
LEMMA StutterImplements ==
  ASSUME UNCHANGED <<record, started, executed, effect>>
  PROVE  UNCHANGED Promise!dvars
BY ProgressKept DEF Promise!dvars

\* Every step is one of DurableExecution, or a stutter.
LEMMA NextImplements ==
  ASSUME PInv, [Next]_vars
  PROVE  [Promise!Next]_(Promise!dvars)
<1>1. TypeOK
  BY DEF PInv, IInv
<1>2. ASSUME OutsideStep, Outside PROVE [Promise!Next]_(Promise!dvars)
  <2>1. CASE \E id \in CallIDs : ToolEffect(id)
    BY <2>1, EffectImplements
  <2>2. CASE ~ \E id \in CallIDs : ToolEffect(id)
    <3>1. UNCHANGED effect
      BY <1>2, <2>2 DEF OutsideStep, Cancel, LoseLease, ExpireLease, AllOver, vars,
                        storeVars, workerVars, callVars
    <3>2. UNCHANGED <<record, started, executed>>
      BY <1>2 DEF Outside
    <3> QED
      BY <3>1, <3>2, StutterImplements
  <2> QED
    BY <2>1, <2>2
<1>3. ASSUME NEW w \in Workers, Takes(w) \/ Leaves(w)
      PROVE  [Promise!Next]_(Promise!dvars)
  BY <1>3, StutterImplements DEF Takes, Leaves
<1>4. ASSUME NEW w \in Workers, Writes(w) PROVE [Promise!Next]_(Promise!dvars)
  <2>1. OnlyProgress /\ pc[w] \in PersistPoints \cup {"terminal"}
    BY <1>4 DEF Writes, OnlyProgress, callVars
  <2>2. CASE WriteDone(w)
    BY <2>1, <2>2, WriteImplements DEF WriteDone
  <2>3. CASE UNCHANGED record
    BY <2>1, <2>3, StutterImplements DEF OnlyProgress
  <2> QED
    BY <1>4, <2>2, <2>3 DEF Writes
<1>5. ASSUME NEW w \in Workers, Moves(w) PROVE [Promise!Next]_(Promise!dvars)
  <2>1. UNCHANGED <<record, effect>>
    BY <1>5 DEF Moves, storeVars
  <2>2. \/ UNCHANGED started
        \/ /\ pc[w] = "call_model"
           /\ started' = [started EXCEPT ![cur[w].iterations] = @ + 1]
    BY <1>5 DEF Moves
  <2>3. \/ UNCHANGED executed
        \/ /\ pc[w] = "call_tool"
           /\ executed' = [executed EXCEPT ![cur[w].pending] = @ + 1]
    BY <1>5 DEF Moves
  <2>4. CASE UNCHANGED started /\ UNCHANGED executed
    BY <2>1, <2>4, StutterImplements
  <2>5. CASE ~ UNCHANGED started
    <3>1. UNCHANGED executed
      BY <2>2, <2>3, <2>5
    <3> QED
      BY <2>1, <2>2, <2>5, <3>1, ModelImplements
  <2>6. CASE ~ UNCHANGED executed
    <3>1. UNCHANGED started
      BY <2>2, <2>3, <2>6
    <3> QED
      BY <2>1, <2>3, <2>6, <3>1, ToolImplements
  <2> QED
    BY <2>4, <2>5, <2>6
<1> QED
  BY <1>1, <1>2, <1>3, <1>4, <1>5, StepForms DEF WorkerStep

\* Workers, leases, crashes, failed and unacknowledged writes together do to
\* the stored execution only what DurableExecution allows: every callback after
\* the write that announces it and once per reservation, every result after its
\* effect, every completion after a dispatched attempt (runtime.go: run,
\* persist; recovery.go: resume).
THEOREM HarnessImplementsPromise == Spec => ImplementsPromise
BY InitImplements, NextImplements, PromiseInvHolds, PTL
DEF Spec, ImplementsPromise, Promise!Spec
=============================================================================
