------------------------------- MODULE Harness -------------------------------
(***************************************************************************)
(* Run and Resume of the harness runtime over a shared checkpoint store.   *)
(*                                                                         *)
(* Each member of Workers is one invocation of Run or Resume, for the same *)
(* execution, in a process of its own.  The module follows one invocation  *)
(* from ownership (execution_lease.go) through recovery (recovery.go,      *)
(* tool_reconciliation.go, tool_replay.go) and the model/tool loop         *)
(* (runtime.go) to the deferred terminal write and the release.  A step of *)
(* a worker ends where another worker, the caller's cancellation, the      *)
(* renewal goroutine, the passing of time or a crash can intervene: at a   *)
(* store operation, at a context check, at the start and at the return of  *)
(* a callback.                                                             *)
(*                                                                         *)
(* Time is abstracted: a lease expires whenever ExpireLease is taken, and  *)
(* a renewal that succeeds only postpones that.  Model, tool, reconciler   *)
(* and replayer are external; they return any outcome their contracts      *)
(* allow.                                                                  *)
(***************************************************************************)
EXTENDS Checkpoints

CONSTANTS
  Workers,      \* invocations of Run or Resume
  NoWorker,     \* nobody holds the flock
  Config,       \* Config[w]: the runtime that worker w was built with
  StoreKinds,   \* "lease", "lock" or "plain": the store's ownership interface
  StoreFaults,  \* "refused": a write fails; "unacked": it fails yet took effect
  Texts,        \* what callbacks and cancel causes put in outputs and errors
  Seeds,        \* checkpoints an earlier process may have left in the store
  AttemptBound  \* no model-attempt budget in use exceeds this

RuntimeConfig ==
  [maxSteps : 1..AttemptBound, maxRetries : Nat,
   tools : BOOLEAN,         \* a ToolExecutor is configured
   reconciles : BOOLEAN,    \* ... it implements ToolOutcomeReconciler
   replays : BOOLEAN]       \* ... it implements IdempotentToolExecutor

ASSUME HarnessAssumption ==
  /\ NoWorker \notin Workers
  /\ AttemptBound \in Nat
  /\ Config \in [Workers -> RuntimeConfig]
  /\ \A w \in Workers :
       ~Config[w].tools => ~Config[w].reconciles /\ ~Config[w].replays
  /\ StoreKinds \subseteq {"lease", "lock", "plain"}
  /\ StoreFaults \subseteq {"refused", "unacked"}
  /\ Texts \subseteq {"ok", "bad"}
  /\ Seeds \subseteq Checkpoint
  /\ NoRecord \notin Checkpoint
  /\ \A c \in Seeds : validateCheckpoint(c) /\ c.maxSteps <= AttemptBound

VARIABLES
  store,     \* which ownership interface the store implements
  record,    \* the stored checkpoint
  token,     \* the last fencing token issued
  leased,    \* the lease of that token is neither expired nor released
  lock,      \* the holder of the execution's flock
  pc,        \* where each worker is
  ctx,       \* its execution context: live, cancelled, or lost (lease lost)
  tok,       \* its fencing token, 0 for none
  cur,       \* its in-memory execution: what persist would write now
  saved,     \* its last acknowledged snapshot (lastSaved is its Result)
  ret,       \* what it returned
  started,   \* history: Next callbacks dispatched, per attempt number
  executed,  \* history: Execute callbacks dispatched, per call ID
  replayed,  \* history: Replay callbacks dispatched, per call ID
  effect,    \* the calls whose external effect has happened
  events     \* history: execution_started and terminal events observed

storeVars == <<store, record, token, leased, lock>>
workerVars == <<pc, ctx, tok, cur, saved, ret>>
callVars == <<started, executed, replayed, effect>>
vars == <<storeVars, workerVars, callVars, events>>

-----------------------------------------------------------------------------
(* Program counters.                                                       *)

\* The points at which persist (or completePendingTool) writes a snapshot,
\* and where the worker goes once the write is acknowledged.
AfterPersist ==
  [create |-> "top", recovered |-> "top", attempt |-> "call_model",
   retry |-> "backoff", intent |-> "call_tool", step |-> "top"]

PersistPoints == {"create", "recovered", "attempt", "retry", "intent", "step"}

Callbacks == {"model", "tool", "reconcile", "replay"}

Active == PersistPoints \cup Callbacks \cup
            {"load", "top", "call_model", "backoff", "call_tool",
             "terminal", "release"}

PCs == Active \cup {"idle", "done", "crashed"}

Errors == {"nil", "busy", "store", "context", "failed", "terminal",
           "unsupported", "unknown", "reconcile", "replay", "panic"}

Blank == NewCheckpoint(1, 0)

\* What an earlier process achieved: every recorded result, and perhaps the
\* pending call.
EarlierEffects(c) ==
  IF c = NoRecord THEN {{}}
  ELSE {StepIDs(c), StepIDs(c) \cup ({c.pending} \ {NoCall})}

Init ==
  /\ store \in StoreKinds
  /\ record \in Seeds \cup {NoRecord}
  /\ token = 0
  /\ leased = FALSE
  /\ lock = NoWorker
  /\ pc = [w \in Workers |-> "idle"]
  /\ ctx = [w \in Workers |-> "live"]
  /\ tok = [w \in Workers |-> 0]
  /\ cur = [w \in Workers |-> Blank]
  /\ saved = [w \in Workers |-> Blank]
  /\ ret = [w \in Workers |-> [status |-> "none", err |-> "nil"]]
  /\ started = [n \in 1..AttemptBound |-> 0]
  /\ executed = [c \in CallIDs |-> 0]
  /\ replayed = [c \in CallIDs |-> 0]
  /\ effect \in EarlierEffects(record)
  /\ events = [s \in Terminal \cup {"created"} |-> 0]

-----------------------------------------------------------------------------
(* Returning.                                                              *)

\* Return without a terminal write: the worker only has to give up ownership.
Return(w, status, err) ==
  /\ pc' = [pc EXCEPT ![w] = "release"]
  /\ ret' = [ret EXCEPT ![w] = [status |-> status, err |-> err]]

\* Return a terminal result; the deferred function of run persists it first.
Finish(w, c, err) ==
  /\ cur' = [cur EXCEPT ![w] = c]
  /\ pc' = [pc EXCEPT ![w] = "terminal"]
  /\ ret' = [ret EXCEPT ![w] = [status |-> c.status, err |-> err]]

Fail(w, text) ==
  Finish(w, [transition(cur[w], "failed") EXCEPT !.error = text], "failed")

\* The locals of a worker go out of scope.
Forget(w) ==
  /\ cur' = [cur EXCEPT ![w] = Blank]
  /\ saved' = [saved EXCEPT ![w] = Blank]
  /\ tok' = [tok EXCEPT ![w] = 0]
  /\ ctx' = [ctx EXCEPT ![w] = "live"]

At(w, here) == pc[w] = here

Goto(w, there) == pc' = [pc EXCEPT ![w] = there]

-----------------------------------------------------------------------------
(* Ownership: acquireExecutionOwnership.                                   *)

\* Mutant of Busy: the flock is not consulted.
BusyLeaseOnly == store = "lease" /\ leased

\* The store refuses: somebody else holds the lease or the flock.
Busy == \/ store = "lease" /\ leased
        \/ store = "lock" /\ lock # NoWorker

Acquire(w) ==
  /\ ~Busy
  /\ IF store = "lease"
     THEN /\ token' = token + 1
          /\ leased' = TRUE
          /\ tok' = [tok EXCEPT ![w] = token + 1]
     ELSE UNCHANGED <<token, leased, tok>>
  /\ lock' = IF store = "lock" THEN w ELSE lock

\* Run and Resume return before they own anything.
TurnedAway(w, err) ==
  /\ Goto(w, "done")
  /\ ret' = [ret EXCEPT ![w] = [status |-> "none", err |-> err]]
  /\ ctx' = [ctx EXCEPT ![w] = "live"]
  /\ UNCHANGED <<record, store, lock, tok, cur, saved, callVars, events>>

\* The acquisition fails without telling who owns the execution.  An unacked
\* one took effect: the lease is nobody's until it expires.
AcquireBreaks(w) ==
  /\ store # "plain"
  /\ \/ "refused" \in StoreFaults /\ UNCHANGED <<token, leased>>
     \/ /\ "unacked" \in StoreFaults /\ store = "lease" /\ ~leased
        /\ token' = token + 1
        /\ leased' = TRUE
  /\ TurnedAway(w, "store")

\* Run acquires on a context detached from the caller's cancellation.
Run(w) ==
  /\ At(w, "idle")
  /\ \/ Busy /\ TurnedAway(w, "busy") /\ UNCHANGED <<token, leased>>
     \/ AcquireBreaks(w)
     \/ /\ Acquire(w)
        /\ LET c == NewCheckpoint(Config[w].maxSteps, Config[w].maxRetries)
           IN  /\ cur' = [cur EXCEPT ![w] = c]
               /\ saved' = [saved EXCEPT ![w] = c]
        /\ Goto(w, "create")
        /\ UNCHANGED <<store, record, ctx, ret, callVars, events>>

\* Resume acquires on the caller's context and needs an exclusive owner.
Resume(w) ==
  /\ At(w, "idle")
  /\ \/ /\ \/ store = "plain" /\ TurnedAway(w, "unsupported")
           \/ store # "plain" /\ ctx[w] # "live" /\ TurnedAway(w, "context")
           \/ ctx[w] = "live" /\ Busy /\ TurnedAway(w, "busy")
        /\ UNCHANGED <<token, leased>>
     \/ ctx[w] = "live" /\ AcquireBreaks(w)
     \/ /\ store # "plain"
        /\ ctx[w] = "live"
        /\ Acquire(w)
        /\ Goto(w, "load")
        /\ UNCHANGED <<store, record, ctx, cur, saved, ret, callVars, events>>

-----------------------------------------------------------------------------
(* Recovery.                                                               *)

\* Resume returns without entering run.
Decline(w, status, err) ==
  /\ Return(w, status, err)
  /\ UNCHANGED <<storeVars, ctx, tok, cur, saved, callVars, events>>

\* run starts from c; persist derives the revision anew on every write.
Adopt(w, c) ==
  /\ cur' = [cur EXCEPT ![w] = [c EXCEPT !.revision = 0]]
  /\ saved' = [saved EXCEPT ![w] = [c EXCEPT !.revision = 0]]

RetryBudgetDiffers(w, c) ==
  /\ c.schema >= 3
  /\ c.maxRetries > 0
  /\ Config[w].maxRetries # c.maxRetries

\* replayPendingTool up to the callback; only an IdempotentToolExecutor has
\* one.  The timeout wrapper offers Replay for every executor and reports the
\* missing capability itself: a context that ends before that is seen first.
DispatchReplay(w, c) ==
  \/ /\ Config[w].replays
     /\ replayed' = [replayed EXCEPT ![c.pending] = @ + 1]
     /\ Goto(w, "replay")
     /\ UNCHANGED ret
  \/ /\ ~Config[w].replays
     /\ \E err \in {"unknown", "context"} : Return(w, c.status, err)
     /\ UNCHANGED replayed

LoadFails(w) ==
  /\ At(w, "load")
  /\ \/ ctx[w] # "live" /\ Decline(w, "none", "context")
     \/ /\ ctx[w] = "live"
        /\ record = NoRecord \/ "refused" \in StoreFaults
        /\ Decline(w, "none", "store")

\* The checkpoint is loaded, but it is terminal or cannot be resumed here.
LoadDeclines(w) ==
  /\ At(w, "load")
  /\ ctx[w] = "live"
  /\ record # NoRecord
  /\ validateCheckpoint(record)
  /\ \/ record.status = "completed" /\ Decline(w, "completed", "nil")
     \/ /\ record.status \in {"failed", "cancelled"}
        /\ Decline(w, record.status, "terminal")
     \/ /\ record.status \notin Terminal
        /\ record.schema < 2 \/ RetryBudgetDiffers(w, record)
        /\ Decline(w, record.status, "unsupported")

\* The checkpoint is resumable: continue it, or settle its pending call first.
LoadResumes(w) ==
  /\ At(w, "load")
  /\ ctx[w] = "live"
  /\ record # NoRecord
  /\ validateCheckpoint(record)
  /\ record.status \notin Terminal
  /\ record.schema >= 2
  /\ ~RetryBudgetDiffers(w, record)
  /\ Adopt(w, record)
  /\ \/ /\ record.pending = NoCall
        /\ Goto(w, "top")
        /\ UNCHANGED <<ret, replayed>>
     \/ /\ record.pending # NoCall
        /\ Config[w].reconciles
        /\ Goto(w, "reconcile")
        /\ UNCHANGED <<ret, replayed>>
     \/ /\ record.pending # NoCall
        /\ ~Config[w].reconciles
        /\ DispatchReplay(w, record)
  /\ UNCHANGED <<storeVars, ctx, tok, started, executed, effect, events>>

\* ReconcileToolOutcome returned: an error, unknown, or proof of completion.
\* A malformed outcome is the same as an error.
ReconcileFails(w) ==
  /\ At(w, "reconcile")
  /\ \E err \in (IF ctx[w] = "live" THEN {"reconcile"} ELSE {"context"}) :
       Decline(w, cur[w].status, err)

\* completePendingTool up to its write.  A tool result, or evidence of one, is
\* only available once the external operation has happened.
SettlePending(w, there) ==
  /\ cur[w].pending \in effect
  /\ \E text \in Texts :
       cur' = [cur EXCEPT ![w] = completePending(cur[w], text)]
  /\ Goto(w, there)
  /\ UNCHANGED <<storeVars, ctx, tok, saved, ret, callVars, events>>

\* Mutant of ReconcileUnknown: an unknown outcome is taken for a completion.
ReconcileUnknownCompletes(w) ==
  /\ At(w, "reconcile")
  /\ ctx[w] = "live"
  /\ cur' = [cur EXCEPT ![w] = completePending(cur[w], "ok")]
  /\ Goto(w, "recovered")
  /\ UNCHANGED <<storeVars, ctx, tok, saved, ret, callVars, events>>

ReconcileUnknown(w) ==
  /\ At(w, "reconcile")
  /\ ctx[w] = "live"
  /\ DispatchReplay(w, cur[w])
  /\ UNCHANGED <<storeVars, ctx, tok, cur, saved, started, executed, effect,
                 events>>

ReconcileCompleted(w) ==
  /\ At(w, "reconcile")
  /\ ctx[w] = "live"
  /\ SettlePending(w, "recovered")

ReplayFails(w) ==
  /\ At(w, "replay")
  /\ \E err \in (IF ctx[w] = "live" THEN {"replay"} ELSE {"context"}) :
       Decline(w, cur[w].status, err)

ReplayCompleted(w) ==
  /\ At(w, "replay")
  /\ ctx[w] = "live"
  /\ SettlePending(w, "recovered")

-----------------------------------------------------------------------------
(* Checkpoint writes: persist and writeCheckpoint.                         *)

\* What is written.  persist stamps the current schema; completePendingTool
\* keeps the schema of the checkpoint it loaded.
Snapshot(w) ==
  [cur[w] EXCEPT
     !.schema = IF pc[w] = "recovered" THEN cur[w].schema ELSE 3,
     !.revision = checkpointRevision(cur[w])]

\* Mutants of Fenced: only the expiry or only the token is checked.
FencedByExpiry(w) == store = "lease" /\ ~leased

FencedByToken(w) == store = "lease" /\ tok[w] # token

\* The fence of a lease store; the other stores trust their caller.
Fenced(w) == store = "lease" /\ ~(leased /\ tok[w] = token)

Accepts(w) ==
  /\ ctx[w] # "lost"
  /\ ~Fenced(w)
  /\ validateCheckpoint(Snapshot(w))
  /\ IF pc[w] = "create"
     THEN record = NoRecord
     ELSE record # NoRecord /\ advancesRevision(record, Snapshot(w))

Persist(w) ==
  /\ pc[w] \in PersistPoints
  /\ Accepts(w)
  /\ record' = Snapshot(w)
  /\ cur' = [cur EXCEPT ![w].schema = Snapshot(w).schema]
  /\ saved' = [saved EXCEPT ![w] = cur'[w]]
  /\ events' = IF pc[w] = "create" THEN [events EXCEPT !.created = @ + 1]
               ELSE events
  /\ Goto(w, AfterPersist[pc[w]])
  /\ UNCHANGED <<store, token, leased, lock, ctx, tok, ret, callVars>>

\* The deferred terminal write, and the terminal event after it.
PersistTerminal(w) ==
  /\ At(w, "terminal")
  /\ Accepts(w)
  /\ record' = Snapshot(w)
  /\ saved' = [saved EXCEPT ![w] = cur[w]]
  /\ events' = [events EXCEPT ![cur[w].status] = @ + 1]
  /\ Goto(w, "release")
  /\ UNCHANGED <<store, token, leased, lock, ctx, tok, cur, ret, callVars>>

\* Mutants of PersistFails: a refused write is ignored; the unsaved status is
\* returned; the terminal event is emitted although the write failed.
PersistFailsIgnored(w) ==
  /\ pc[w] \in PersistPoints
  /\ "refused" \in StoreFaults
  /\ Goto(w, AfterPersist[pc[w]])
  /\ UNCHANGED <<storeVars, ctx, tok, cur, saved, ret, callVars, events>>

PersistFailsOptimistic(w) ==
  /\ At(w, "terminal")
  /\ Return(w, cur[w].status, "store")
  /\ UNCHANGED <<storeVars, ctx, tok, cur, saved, callVars, events>>

PersistFailsAnnounced(w) ==
  /\ At(w, "terminal")
  /\ Return(w, saved[w].status, "store")
  /\ events' = [events EXCEPT ![cur[w].status] = @ + 1]
  /\ UNCHANGED <<storeVars, ctx, tok, cur, saved, callVars>>

\* A failed write stops the invocation: it returns the last acknowledged
\* snapshot and no terminal event follows.  The store refused the snapshot, or
\* broke down before ("refused") or after ("unacked") the write took effect.
PersistFails(w) ==
  /\ pc[w] \in PersistPoints \cup {"terminal"}
  /\ \/ ~Accepts(w) /\ UNCHANGED record
     \/ "refused" \in StoreFaults /\ UNCHANGED record
     \/ "unacked" \in StoreFaults /\ Accepts(w) /\ record' = Snapshot(w)
  /\ Return(w, saved[w].status, "store")
  /\ UNCHANGED <<store, token, leased, lock, ctx, tok, cur, saved, callVars,
                 events>>

-----------------------------------------------------------------------------
(* The model/tool loop of run.                                             *)

Enter(c) == IF c.status = "created" THEN transition(c, "running_model") ELSE c

\* Mutant of ContextDone: a done context only restarts the loop.
ContextDoneRestarts(w) ==
  /\ pc[w] \in {"top", "call_model", "model", "backoff", "call_tool", "tool"}
  /\ ctx[w] # "live"
  /\ Goto(w, "top")
  /\ UNCHANGED <<storeVars, ctx, tok, cur, saved, ret, callVars, events>>

\* The context is checked before and after every callback and while waiting.
\* Its cause is the error text, and whoever cancels chooses the cause.
ContextDone(w) ==
  /\ pc[w] \in {"top", "call_model", "model", "backoff", "call_tool", "tool"}
  /\ ctx[w] # "live"
  /\ \E text \in Texts :
       Finish(w, [transition(Enter(cur[w]), "cancelled") EXCEPT !.error = text],
              "context")
  /\ UNCHANGED <<storeVars, ctx, tok, saved, callVars, events>>

\* Mutant of ReserveAttempt: the attempt is not saved before the callback.
ReserveAttemptUnsaved(w) ==
  /\ At(w, "top")
  /\ ctx[w] = "live"
  /\ cur[w].iterations < cur[w].maxSteps
  /\ cur' = [cur EXCEPT ![w] = [Enter(cur[w]) EXCEPT !.iterations = @ + 1]]
  /\ Goto(w, "call_model")
  /\ UNCHANGED <<storeVars, ctx, tok, saved, ret, callVars, events>>

ReserveAttempt(w) ==
  /\ At(w, "top")
  /\ ctx[w] = "live"
  /\ cur[w].iterations < cur[w].maxSteps
  /\ cur' = [cur EXCEPT ![w] = [Enter(cur[w]) EXCEPT !.iterations = @ + 1]]
  /\ Goto(w, "attempt")
  /\ UNCHANGED <<storeVars, ctx, tok, saved, ret, callVars, events>>

CallModel(w) ==
  /\ At(w, "call_model")
  /\ ctx[w] = "live"
  /\ started' = [started EXCEPT ![cur[w].iterations] = @ + 1]
  /\ Goto(w, "model")
  /\ UNCHANGED <<storeVars, ctx, tok, cur, saved, ret, executed, replayed,
                 effect, events>>

\* Mutant of canRetryModel: a retry is reserved with no attempt left for it.
canRetryModelUnbudgeted(c) == c.retries < c.maxRetries

canRetryModel(c) == c.retries < c.maxRetries /\ c.iterations < c.maxSteps

\* Next returned a transient error and the retry budget covers it.
ModelRetries(w) ==
  /\ At(w, "model")
  /\ ctx[w] = "live"
  /\ canRetryModel(cur[w])
  /\ cur' = [cur EXCEPT ![w].retries = @ + 1]
  /\ Goto(w, "retry")
  /\ UNCHANGED <<storeVars, ctx, tok, saved, ret, callVars, events>>

\* waitModelRetry: the timer fires, or the delay is zero and nothing waits.
BackoffElapses(w) ==
  /\ At(w, "backoff")
  /\ Goto(w, "top")
  /\ UNCHANGED <<storeVars, ctx, tok, cur, saved, ret, callVars, events>>

ModelFinal(w) ==
  /\ At(w, "model")
  /\ ctx[w] = "live"
  /\ \E text \in Texts :
       Finish(w, [transition(cur[w], "completed") EXCEPT !.output = text],
              "nil")
  /\ UNCHANGED <<storeVars, ctx, tok, saved, callVars, events>>

\* Failures: the step limit, a model error that is not retried, an invalid
\* decision, a reused call ID, a missing executor, a tool error or timeout.
\* The messages of callbacks and the quoted call ID may be any text.
Fails(w) ==
  /\ ctx[w] = "live"
  /\ \/ /\ At(w, "top")
        /\ cur[w].iterations >= cur[w].maxSteps
        /\ Finish(w, [transition(Enter(cur[w]), "failed") EXCEPT
                        !.error = "ok"], "failed")
     \/ pc[w] \in {"model", "tool"} /\ \E text \in Texts : Fail(w, text)
  /\ UNCHANGED <<storeVars, ctx, tok, saved, callVars, events>>

\* Mutant of ToolDecision: the intent is not saved before the callback.
ToolDecisionUnsaved(w) ==
  /\ At(w, "model")
  /\ ctx[w] = "live"
  /\ Config[w].tools
  /\ \E id \in CallIDs \ StepIDs(cur[w]) :
       cur' = [cur EXCEPT ![w] =
                 [transition(cur[w], "running_tool") EXCEPT !.pending = id]]
  /\ Goto(w, "call_tool")
  /\ UNCHANGED <<storeVars, ctx, tok, saved, ret, callVars, events>>

\* Next returned a tool call that can be dispatched.
ToolDecision(w) ==
  /\ At(w, "model")
  /\ ctx[w] = "live"
  /\ Config[w].tools
  /\ \E id \in CallIDs \ StepIDs(cur[w]) :
       cur' = [cur EXCEPT ![w] =
                 [transition(cur[w], "running_tool") EXCEPT !.pending = id]]
  /\ Goto(w, "intent")
  /\ UNCHANGED <<storeVars, ctx, tok, saved, ret, callVars, events>>

CallTool(w) ==
  /\ At(w, "call_tool")
  /\ ctx[w] = "live"
  /\ executed' = [executed EXCEPT ![cur[w].pending] = @ + 1]
  /\ Goto(w, "tool")
  /\ UNCHANGED <<storeVars, ctx, tok, cur, saved, ret, started, replayed,
                 effect, events>>

ToolCompleted(w) ==
  /\ At(w, "tool")
  /\ ctx[w] = "live"
  /\ SettlePending(w, "step")

\* A panic unwinds through the deferred functions with a zero Result: neither
\* a terminal write nor a terminal event, only the release of ownership.
CallbackPanics(w) ==
  /\ pc[w] \in Callbacks
  /\ Decline(w, "none", "panic")

-----------------------------------------------------------------------------
(* Release, and the environment.                                           *)

\* Mutant of Release: the flock is not unlocked.
ReleaseLeaksLock(w) ==
  /\ At(w, "release")
  /\ leased' = (leased /\ ~(store = "lease" /\ tok[w] = token))
  /\ Goto(w, "done")
  /\ Forget(w)
  /\ UNCHANGED <<store, record, token, lock, ret, callVars, events>>

\* The deferred release.  A release of the lease can fail: its error is
\* dropped and the lease is left to expire.
Release(w) ==
  /\ At(w, "release")
  /\ \/ leased' = (leased /\ ~(store = "lease" /\ tok[w] = token))
     \/ StoreFaults # {} /\ UNCHANGED leased
  /\ lock' = IF lock = w THEN NoWorker ELSE lock
  /\ Goto(w, "done")
  /\ Forget(w)
  /\ UNCHANGED <<store, record, token, ret, callVars, events>>

\* The process dies: the kernel drops its flock, its lease stays until expiry.
Crash(w) ==
  /\ pc[w] \in Active
  /\ lock' = IF lock = w THEN NoWorker ELSE lock
  /\ Goto(w, "crashed")
  /\ Forget(w)
  /\ UNCHANGED <<store, record, token, leased, ret, callVars, events>>

\* The caller cancels, or its deadline passes.
Cancel(w) ==
  /\ pc[w] \in (Active \ {"release"}) \cup {"idle"}
  /\ ctx[w] = "live"
  /\ ctx' = [ctx EXCEPT ![w] = "cancelled"]
  /\ UNCHANGED <<storeVars, pc, tok, cur, saved, ret, callVars, events>>

\* The renewal goroutine fails to extend the lease and cancels the execution.
\* It stops by itself once the caller has cancelled.
LoseLease(w) ==
  /\ store = "lease"
  /\ pc[w] \in Active \ {"release"}
  /\ ctx[w] = "live"
  /\ Fenced(w) \/ "refused" \in StoreFaults
  /\ ctx' = [ctx EXCEPT ![w] = "lost"]
  /\ UNCHANGED <<storeVars, pc, tok, cur, saved, ret, callVars, events>>

ExpireLease ==
  /\ leased
  /\ leased' = FALSE
  /\ UNCHANGED <<store, record, token, lock, workerVars, callVars, events>>

\* The external operation of a dispatched call happens, perhaps long after the
\* callback that dispatched it has gone.
ToolEffect(id) ==
  /\ executed[id] + replayed[id] > 0
  /\ id \notin effect
  /\ effect' = effect \cup {id}
  /\ UNCHANGED <<storeVars, workerVars, started, executed, replayed, events>>

\* Every invocation is over; the run of the model may stop here.
AllOver ==
  /\ \A w \in Workers : pc[w] \in {"done", "crashed"}
  /\ UNCHANGED vars

-----------------------------------------------------------------------------
(* Specification.                                                          *)

Recovery(w) ==
  \/ LoadFails(w) \/ LoadDeclines(w) \/ LoadResumes(w)
  \/ ReconcileFails(w) \/ ReconcileUnknown(w) \/ ReconcileCompleted(w)
  \/ ReplayFails(w) \/ ReplayCompleted(w)

Loop(w) ==
  \/ Persist(w) \/ PersistTerminal(w) \/ PersistFails(w)
  \/ ContextDone(w) \/ ReserveAttempt(w) \/ CallModel(w)
  \/ ModelRetries(w) \/ BackoffElapses(w) \/ ModelFinal(w) \/ Fails(w)
  \/ ToolDecision(w) \/ CallTool(w) \/ ToolCompleted(w)
  \/ CallbackPanics(w) \/ Release(w)

\* What an invocation does by itself, once it owns the execution.
Proceed(w) == Recovery(w) \/ Loop(w)

Next ==
  \/ \E w \in Workers :
       \/ Run(w) \/ Resume(w) \/ Proceed(w)
       \/ Crash(w) \/ Cancel(w) \/ LoseLease(w)
  \/ ExpireLease
  \/ \E id \in CallIDs : ToolEffect(id)
  \/ AllOver

Spec == Init /\ [][Next]_vars

\* The code's own steps are taken when they can be: callbacks return (they are
\* cooperative, CALLBACK_TIMEOUTS.md), store calls have a deadline,
\* deferred functions run.  Leases expire.  Nothing makes anybody start,
\* crash, cancel, or lose a lease.
FairSpec ==
  /\ Spec
  /\ \A w \in Workers : WF_vars(Proceed(w))
  /\ WF_vars(ExpireLease)

-----------------------------------------------------------------------------
(* Invariants.                                                             *)

TypeOK ==
  /\ store \in StoreKinds
  /\ record \in Checkpoint \cup {NoRecord}
  /\ token \in Nat
  /\ leased \in BOOLEAN
  /\ lock \in Workers \cup {NoWorker}
  /\ pc \in [Workers -> PCs]
  /\ ctx \in [Workers -> {"live", "cancelled", "lost"}]
  /\ tok \in [Workers -> Nat]
  /\ cur \in [Workers -> Checkpoint]
  /\ saved \in [Workers -> Checkpoint]
  /\ ret \in [Workers -> [status : Status \cup {"none"}, err : Errors]]
  /\ started \in [1..AttemptBound -> Nat]
  /\ executed \in [CallIDs -> Nat]
  /\ replayed \in [CallIDs -> Nat]
  /\ effect \subseteq ToolCall
  /\ events \in [Terminal \cup {"created"} -> Nat]

\* A reserved model attempt is dispatched at most once, over all workers,
\* crashes and recoveries (runtime.go: "Resume must not ... refund an
\* uncertain attempt").
AttemptDispatchedOnce == \A n \in 1..AttemptBound : started[n] <= 1

\* Execute is dispatched at most once per call ID: whatever is uncertain about
\* a call, no recovery path runs Execute for it again.
ExecuteDispatchedOnce == \A id \in CallIDs : executed[id] <= 1

\* No tool callback runs ahead of its checkpoint: every dispatched call is the
\* stored pending call or a stored step, whoever wrote the store since.
IntentDurable ==
  \A id \in CallIDs :
    executed[id] + replayed[id] > 0 =>
      record # NoRecord /\ id \in StepIDs(record) \cup {record.pending}

\* A stored step is backed by an effect that happened: neither a crash, nor a
\* stale worker, nor reconciliation makes up a result.
StepsHappened == record # NoRecord => StepIDs(record) \subseteq effect

\* Workers that are inside run or inside the recovery of a loaded checkpoint,
\* and whose last write did not fail.
Working == (Active \ {"create", "load", "release"})

\* Nobody but w may write: it holds the current lease or the flock.  A store
\* without ownership serves the one Run that created the record.
Owner(w) ==
  /\ pc[w] \in Working
  /\ ~Fenced(w)
  /\ store = "lock" => lock = w

SameProgress(a, b) ==
  /\ a.maxSteps = b.maxSteps /\ a.iterations = b.iterations
  /\ a.maxRetries = b.maxRetries /\ a.retries = b.retries
  /\ a.status = b.status /\ a.steps = b.steps /\ a.pending = b.pending

\* The owner's idea of what is stored is what is stored: no other worker wrote
\* behind its back.  There is one owner.
OwnerKnowsRecord ==
  \A w \in Workers : Owner(w) =>
    /\ record # NoRecord /\ SameProgress(record, saved[w])
    /\ \A v \in Workers : Owner(v) => v = w

\* The stores' own checks never stop a legitimate owner: each snapshot the
\* runtime builds is consistent and advances the revision, as the comment of
\* checkpointRevision claims, unless a callback returned invalid UTF-8 or the
\* cause of a cancellation is.
OwnerNeverRefused ==
  \A w \in Workers :
    /\ pc[w] \in (PersistPoints \ {"create"}) \cup {"terminal"}
    /\ Owner(w)
    /\ ctx[w] # "lost"
    /\ validText(cur[w])
    => Accepts(w)

\* One started event and one terminal event per execution, over all workers,
\* and the terminal event names the stored outcome.
LifecycleEventsOnce ==
  /\ events["created"] <= 1
  /\ \A s \in Terminal : events[s] > 0 =>
       /\ events[s] = 1
       /\ record.status = s
       /\ \A r \in Terminal \ {s} : events[r] = 0

\* Whoever is told a terminal status is told the stored one: no two callers of
\* Run and Resume learn different outcomes.
ReturnedOutcomeIsStored ==
  \A w \in Workers :
    pc[w] \in {"release", "done"} /\ ret[w].status \in Terminal =>
      record # NoRecord /\ record.status = ret[w].status

-----------------------------------------------------------------------------
(* Action properties and refinement.                                       *)

\* A call whose result is stored is never dispatched again (README.md:
\* "Completed tools are reused from checkpoint history").
CompletedNeverDispatched ==
  [][\A id \in CallIDs :
       executed'[id] + replayed'[id] > executed[id] + replayed[id] =>
         record # NoRecord /\ id \notin StepIDs(record)]_vars

\* Where ownership excludes, as the flock does, that is so.
LockedNeverRedispatched ==
  [][store = "lock" =>
       \A id \in CallIDs :
         executed'[id] + replayed'[id] > executed[id] + replayed[id] =>
           record # NoRecord /\ id \notin StepIDs(record)]_vars

Stored(field, absent) ==
  IF record = NoRecord THEN absent ELSE record[field]

\* The store and the callbacks, seen without the workers.
Promise == INSTANCE DurableExecution WITH
  Calls <- CallIDs,
  Absent <- "absent",
  phase <- Stored("status", "absent"),
  maxAttempts <- Stored("maxSteps", 0),
  maxRetries <- Stored("maxRetries", 0),
  attempts <- Stored("iterations", 0),
  retries <- Stored("retries", 0),
  pending <- Stored("pending", NoCall),
  completed <- IF record = NoRecord THEN <<>>
               ELSE [i \in DOMAIN record.steps |-> record.steps[i].call],
  modelCalls <- {n \in 1..AttemptBound : started[n] > 0},
  toolCalls <- {id \in CallIDs : executed[id] > 0},
  effects <- effect

\* Workers, leases, crashes and failed writes together never do more to the
\* stored execution than one uninterrupted run could: DurableExecution.
ImplementsPromise == Promise!Spec

\* What the runtime assumes of a lease store is the contract that the lease
\* stores keep: seen through it, the store is FencedLease.
Fence == INSTANCE FencedLease WITH
  held <- leased,
  revision <- Stored("revision", -1)

\* The runtime moves the revision of a lease store only forwards, and only
\* under a lease in force, whatever record it finds there (writeCheckpoint,
\* CHECKPOINT_REVISIONS.md).
StoreStaysFenced ==
  /\ store = "lease" => Fence!Init
  /\ [][store = "lease" => [Fence!Next]_(Fence!fvars)]_vars

-----------------------------------------------------------------------------
(* What the documents say of cases that the code treats differently.       *)

\* README.md, "Why tool calls are not retried": a call whose outcome a failure
\* left open stays pending, and recovery can reconcile it.
OpenCallRecoverable ==
  record # NoRecord /\ record.status = "failed" => record.pending = NoCall

\* README.md, "Core API": model and tool errors produce the failed state.  The
\* owner of a working store can always record it.
FailureRecorded ==
  \A w \in Workers :
    At(w, "terminal") /\ cur[w].status = "failed" /\ Owner(w)
      /\ ctx[w] # "lost" => Accepts(w)

-----------------------------------------------------------------------------
(* Liveness, under FairSpec.                                               *)

\* Every invocation that owns the execution returns, unless it crashes.
InvocationReturns ==
  \A w \in Workers : pc[w] \in Active ~> pc[w] \in {"done", "crashed"}

\* Ownership does not leak: after a crash, a panic or a failed write, another
\* worker can acquire the execution.
OwnershipFreed == Busy ~> ~Busy
=============================================================================
