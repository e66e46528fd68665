# Formal model of the Agent Harness Runtime

The Agent Harness Runtime drives a language model and its tools through one
*execution*, and stores a checkpoint at every boundary so that another process
can continue after a crash. This directory holds TLA+ modules that model the
runtime, its recovery, its ownership protocols, its three stores, its callbacks
and its traces, the TLC
configurations that check them on small instances, and TLAPS proofs of the
results that hold for every instance.

Paths below are relative to the repository.

## 1. The system

| Component | State it keeps | Operations | Interacts with |
| --- | --- | --- | --- |
| Runtime (`runtime.go`, `model_retry.go`) | the execution in memory: status, transitions, steps, pending call, attempt and retry counts, the last saved result | `Run`, the model/tool loop, `persist`, deferred terminal write | store (writes), model and tools (callbacks), observer (events), ownership |
| Recovery (`recovery.go`, `tool_reconciliation.go`, `tool_replay.go`) | the loaded checkpoint | `Resume`, reconcile, replay, complete the pending call | store, reconciler, replayer, then the loop |
| Checkpoint rules (`checkpoint.go`, `recovery.go`, `file_store.go`) | none | derive a revision, validate a snapshot | every write and read |
| Ownership (`execution_lease.go`) | a fencing token or a lock | acquire, release | lease store or flock |
| Lease renewal (`execution_lease_renewal.go`) | a goroutine, a cancel cause, a stop handshake | tick and renew, stop | lease store; cancels the execution |
| `MemoryLeaseStore` | records, leases, last tokens | acquire, release, renew, fenced create and save, load | its callers, the clock |
| `SQLiteCheckpointStore` | one row per execution | the same as SQL statements | its callers in several processes, the clock |
| `FileStore` | one file per execution, one lock file | link, rename, sync, load, flock | its callers in several processes, the kernel |
| Callback timeouts (`callback_timeout.go`) | a deadline per callback | wrap model and tools | runtime |
| Observers, trace recorder, reader, diff | event stream, JSONL file | deliver, append, read, compare | runtime |
| Model adapter, sandbox and MCP executors | none | one request each | external services |

The hard behaviours are: a process may die between any two store operations; a
store operation may fail although it took effect; several processes may run or
resume the same execution; a lease may expire while its holder is inside a
callback or between a check and a dispatch; the caller may cancel at any point;
a tool may have had its effect although nobody learned of it. `PROJECT.json`
lists these as hazards, each at its line, with the properties that would catch
them going wrong.

What makes the components correct:

* runtime and recovery: no reservation is dispatched twice, no callback runs
  ahead of its checkpoint, no result is made up, budgets survive recovery,
  terminal states are final, callers and observers are told what is stored,
  every invocation ends and gives up ownership;
* checkpoint rules: every snapshot a legitimate owner builds passes validation
  and advances the revision;
* lease store: leases exclude each other, tokens are never reissued, a
  superseded worker can change nothing;
* file store: a checkpoint whose write was acknowledged survives a power loss,
  what survives is whole, creation happens once;
* lease renewal: an execution does not run past its lease, a healthy store
  never loses it, and stopping never hangs;
* callback timeouts: a late result is not committed, the context that ended
  decides the outcome, a hung provider does not hang the execution;
* model adapter and executors: every request is a conversation providers
  accept, and only a result becomes a step;
* trace: a readable trace is what happened, accepted records are kept, a
  panicking observer costs the others nothing, and a diff finds the first
  difference.

## 2. The modules

`Checkpoints` is the data: a checkpoint as a record, the lifecycle relation
(`validTransition`, `transition`), `checkpointRevision`, and
`validateCheckpoint` with `validateRecoveryState`. A tool call is its ID and a
string is empty, valid UTF-8 or not valid UTF-8, because that is all the rules
look at; that holds for the text of a cancellation too, whose cause the caller
chooses. Schema versions 1 to 3 are kept, since validation and recovery differ
for them.

`Harness` is the runtime. A member of `Workers` is one invocation of `Run` or
`Resume`, in its own process, on the one execution that is modelled. `pc[w]` is
the place in the code. The steps are cut where something else can intervene:

| `pc` | place in the code |
| --- | --- |
| `load`, `reconcile`, `replay` | `Resume`: in `store.Load`, in `ReconcileToolOutcome`, in `Replay` |
| `create`, `attempt`, `retry`, `intent`, `step` | in `persist`, at the five save boundaries of `run` |
| `recovered` | in the write of `completePendingTool` |
| `top`, `call_model`, `call_tool` | at the context checks before the reservation, before `Next`, before `Execute` |
| `model`, `tool`, `backoff` | inside `Next`, inside `Execute`, in `waitModelRetry` |
| `terminal`, `release` | in the deferred terminal write, in the deferred release |

`cur[w]` is the execution in memory as `persist` would write it, `saved[w]` the
last acknowledged snapshot (`lastSaved`), `ctx[w]` the state of the execution
context: live, cancelled, or cancelled because the lease was lost. The store is
`record` (the checkpoint), `token` and `leased` (the newest lease), `lock` (the
flock). `started`, `executed`, `replayed`, `effect` and `events` record what
the outside world saw. Three kinds of store are modelled: with leases, with a
lock, and with neither (`Run` only). Failures of the environment are actions:
`Crash`, `Cancel`, `LoseLease`, `ExpireLease`, `CallbackPanics`, and, when
`StoreFaults` allows, operations that fail without effect (`refused`) or with
effect (`unacked`).

External code is modelled by its contract: the model returns a final answer, a
tool call, a transient or a permanent error; a tool result is only available
after the tool's effect; an effect may happen any time after the dispatch, and
perhaps never; a reconciler may answer unknown at any time but proves only what
happened. A timeout (`callback_timeout.go`) is a transient model error or a
tool error.

`DurableExecution` is what the runtime promises of the stored execution: the
save boundaries of the repository's README as steps of one record, with the
dispatches allowed by each. It knows no workers, leases or failures. `Harness`
implements it (`ImplementsPromise`) under the mapping that forgets the workers.

`FencedLease` is the contract of a lease store for one execution: grant, lapse,
publish. `MemoryLeaseStore` implements it for each execution
(`ImplementsFencedLease`), and the lease store inside `Harness` obeys it
(`StoreStaysFenced`), which ties the two levels together.

`MemoryLeaseStore` has one action per method; each runs under the store's mutex
and samples the clock there. Callers are arbitrary: any token at any time.
Tokens are unsigned numbers of a bounded width. `reply` is the last call with
its error, so that properties can speak of who called. Calls with an empty
execution ID are rejected before anything is read and are left out.

`SQLiteStore` is the row of one execution with the calls that several clients
(goroutines of any process) have in flight. A call is cut where the code lets
others in: it checks its arguments and samples the clock
(`AcquireExecutionLease`, `RenewExecutionLease`, `writeFenced`), its statement
executes atomically some time later (`StatementApplies`, `StatementRejects`),
and a rejected acquisition or write reads the row again to choose its error
(`Classify`). `CallBreaks` is a call that ends with an error of the database or
the context, before or after its statement was committed. All clients read one
clock that does not step back: the store is for one host.

`FileStore` is the checkpoint file and the lock file of one execution, with the
calls of several processes cut at the system calls: `Begin` (validation),
`LoadCurrent` (the load and comparison of `Save`), `WriteTemp` (temporary file,
write, sync, close), `Publish` (link or rename), `SyncDirectory`; `WriteFails`
and `SyncFails` are their error paths. A file is its revision, its author and
whether it was synced. `target` is what the name leads to now, `survivors` what
it may lead to after a power loss. Where `locked` is true, writers hold the
flock, as `Run` and `Resume` do; where it is false they are direct users of the
store.

`LeaseRenewal` is the renewal goroutine in time. `body[w]` is the frame of
`Run` and `Resume` around it (acquire, start renewal, run, stop, release),
`cause[w]` the cancel cause of the execution context, `renewal[w]` the
goroutine with its ticker (one pending tick) and the call in flight, which
samples the clock before its statement executes. The frame only spawns the
goroutine; the ticker's period begins when the goroutine first runs
(`TickerStarts`), which like every step of it may be late. `Tick` is one unit of
time.
`setting`, chosen at the start, says what the store is (renewing, without
renewal, or misconfigured), how long a lease lasts, how late a goroutine that
can run does run (`slack`), and whether the store may also fail, before or after
its statement, or not answer before the renewal's own deadline (`faults`).
`Latency` bounds how long a working store takes.

`OpenAIModel` and `ToolExecutors` are operators, since the adapters keep no
state: what `messages` sends for a history, what `Next` makes of every response
(`ModelNext`, `Decide`), which errors are transient, what the MCP and sandbox
executors return for every resolution and reply. An error is the set of
sentinels that `errors.Is` finds in it.

`Conversation` composes the loops of several workers, their checkpoint and the
adapter: each decision is what `ModelNext` makes of some response, writes may
fail with or without effect, workers crash or find their context done, and
`Resume` settles a pending call and goes on. `owner` is the worker that acquired
the execution last. With a lease store (`leased`) it may have taken over from a
worker that is still running; that one's writes are refused. Under the lock no
other worker is running when one resumes. The reservation of an attempt
(`Reserve`) and the request (`Send`) are separate steps, as `persist` and `Next`
are, so a worker can be replaced between them.

`CallbackTimeout` is one callback boundary, for `Next`, `Execute` and `Replay`:
the execution context, the callback's derived context, the wrapper with its two
separate context reads (`CheckParent`, `CheckChild`), the completed event with
its trace code, the context check and the retry decision that follow. What a
callback returns comes from `OpenAIModel` and `ToolExecutors`; a cooperative one
may also notice the end of its context.

`TraceEvents` has the order in which one invocation emits events (`Opens`,
`Follows`) and the reader's operations: `ReadTrace`, `InspectTrace`,
`DiffTrace`. `Trace` delivers events to a group of observers, one of them a
`FileTraceRecorder` whose `OnEvent` is cut between write and sync. One recorder
may see several executions and a resumed one. `emitted` and `told` record what
the runtime emitted, in all and of each execution; the traces that two executions
would have by themselves are what `DiffIsExact` compares.

`MCHarness` gives `Harness` its configurations and the checkpoints that earlier
processes may have left, `MCLeaseRenewal` the settings; `MCSQLiteStore` and
`MCFileStore` add the symmetry of their clients, and `MCTrace` names the group of
observers.

Operators whose comment starts with "Mutant of" are deliberately wrong variants
of the definition that follows; no specification uses them. They serve to
confirm that the property named for them in `PROJECT.json` fails when the code
is wrong in that way. Where one definition stands for a check that recurs in the
loop (`ContextDone`, `Fails`, `AfterPersist`, `Follows`), `PROJECT.json` maps it
to one occurrence, the one around the attempt's reservation or the model's error.

## 3. What is checked

| Run | Instance | Question |
| --- | --- | --- |
| `harness_safety` | 2 workers, 2 calls, 3 attempts, 1 retry, all three kinds of store, both store faults, invalid UTF-8, records of schema 1 to 3 with an attempt left | do the safety invariants survive take-over, unreliable writes and old records? |
| `harness_promise` | 2 different runtimes, one without tools, 3 attempts, 1 retry, lease or flock, unacknowledged writes, pending calls of earlier processes | does everything together implement `DurableExecution`, respect `FencedLease`, return, and give up ownership? |
| `memory_lease_store` | 2 executions, 2 tokens, lease of 2 ticks, 3 ticks | does the store keep the contract, also when tokens run out? |
| `sqlite_store` | 2 clients, 2 tokens, lease of 2 ticks, 3 ticks | do statements with an old clock and a second read still fence, and classify truthfully? |
| `file_store` | 2 writers, with and without the flock, revisions 0 to 2, 2 power losses | is what was acknowledged durable and whole, is creation unique, does the record only advance? |
| `lease_renewal` | 2 workers, five settings: leases of 15 with slack 1, a lease of 3 with slack 4 | does a context end before its lease, does a healthy lease last, does stop return, is a loss noticed? |
| `conversation` | 3 workers, 3 call IDs, 5 attempts, leases or the lock | is every request well formed, and is there one conversation that the owner extends? |
| `callback_timeout` | all three callbacks, 4 attempts, 2 retries | does the right context decide, whatever ends when? |
| `trace` | 2 executions, 2 observers, 6 events | does the trace tell what happened, after every failure, and is the first difference of two executions found? |

The properties, each with the code it speaks of, are stated in the modules.
The ones that say most are

* `AttemptDispatchedOnce` and `ExecuteDispatchedOnce`: over all workers,
  crashes and recoveries, `Next` runs at most once per reserved attempt and
  `Execute` at most once per call;
* `IntentDurable` and `StepsHappened`: nothing is dispatched that is not
  stored, nothing is stored that did not happen;
* `OwnerKnowsRecord`: there is one owner and its view of the store is exact;
* `LockedNeverRedispatched`: under the flock no completed call is dispatched
  again, by any path;
* `OwnerNeverRefused`: the stores' own validation and revision check never stop
  a legitimate owner, at any save boundary, for any schema version;
* `LifecycleEventsOnce` and `ReturnedOutcomeIsStored`: observers and callers
  never hear of an outcome that is not the stored one;
* `ImplementsPromise`: the refinement that contains the budget rules and the
  finality of terminal states;
* `TakeoverAfterExpiry` and `SupersededWriterToldFenced`: in the SQLite store a
  statement that waited never takes a lease that is in force, and a writer that
  was replaced is told so;
* `AckedSurvives`: no power loss, at any point of any other call, undoes a write
  that `FileStore` reported as done;
* `OwnedWhileLive`: the late start of the goroutine, the tick, the deadline of
  the renewal and the notice of its failure fit into the lease, so a context is
  never live without its lease. A third of the duration is not arbitrary: half
  of it fails;
* `ContextDecides` and `OwnDeadlineDecides`: which of two contexts ended first
  settles a callback, whatever it returned and however late;
* `RequestsExtend`: a provider is never told another past, across failed
  writes, crashes, recoveries and takeovers. The owner's request extends all
  earlier ones; a worker that was replaced before `Next` may repeat a beginning
  of them;
* `TraceIsHistory`: after any failure a trace that reads is a prefix of what
  happened, without gap or mixture.

**Bounds.** Two workers suffice for a stale worker beside an owner; any larger
number is a matter of the proofs. Three attempts allow a retry, a tool call and
a final answer in one execution, and two calls a repeated call ID next to a
fresh one. Each worker is one invocation, so tokens are bounded by the number of
workers. `AttemptBound` only has to cover the budgets in use. In
`memory_lease_store` `MaxToken` 2 makes exhaustion happen and `MaxTime` 3 lets a
renewed lease expire. In `sqlite_store` `MaxInt` 2 bounds tokens and revisions,
and one more of each is offered; `MaxInstant` 4 makes deadlines overflow at the
last tick; two clients are a waiting statement and whoever overtakes it. In
`file_store` two power losses let a recovery follow the first and be hit by the
second; two writers suffice for a race, and revision 2 for a record that is
overtaken. In `lease_renewal` only the ratios matter: a lease of 15 has
intervals of 5, in which a latency and three delays of one unit leave room, and
intervals of 4 would not; a lease of 3 with a slack of 4 has no room at all. Five
attempts let a conversation use all three call IDs, a retry and a repeated ID,
and three workers are an owner beside two replaced ones of different age; crashes
and takeovers are not bounded. Six events are a whole execution with
a tool call, or two executions that part. Deadlock is checked in every run;
`AllOver` in `Harness` and `Over` elsewhere are the states in which every
invocation has ended. Symmetry is used only in runs without liveness.

**Fairness** (`FairSpec`). `Proceed(w)`, the code's own steps of an invocation,
is weakly fair: deferred functions run, store calls have deadlines
(`checkpointWriteTimeout`), and callbacks are required to be cooperative
(`CALLBACK_TIMEOUTS.md`). Leases expire. Nothing forces anyone to start, to
cancel, to crash or to lose a lease.

In `LeaseRenewal` time passes and goroutines that can run do run. A store call
returns once its context has ended, as the interface's contexts and both stores
have it; nothing makes a store answer earlier, or an execution end. In
`CallbackTimeout` the runtime's own steps, the callback's deadline and a
cooperative callback that sees its context end are weakly fair; no provider has
to answer and no caller has to cancel.

## 4. Where documents and code differ

Three runs are expected to fail; each shows a shortest behaviour in which the
code does something else than the documents say.

* `stale_dispatch`: the README says completed tools are never dispatched again.
  With a lease store and an idempotent executor, a worker that is paused
  between its intent write and `Execute` and loses its lease there dispatches
  the call after a new owner has completed it. Fencing protects the store, not
  the callback.
* `open_call`: the README's payment example says that a call whose tool timed
  out stays pending and can be reconciled on recovery. The code ends such an
  execution as `failed`, and `Resume` refuses terminal executions.
* `failure_text`: the README says model and tool errors produce `failed`. An
  error text that is not valid UTF-8 is rejected by `validateCheckpoint`, so
  the failure cannot be recorded.

The models also show limits that no run is needed for, since they follow from
how the steps are cut:

* `RevisionAdvances` is stated for writers that hold the flock. `FileStore.Save`
  compares and renames in separate steps, so direct users without the lock can
  both pass the comparison, and the older revision may be renamed last.
* A record that was renamed by a writer which died before the directory sync is
  visible but not durable: the next owner may act on it, and a power loss may
  still bring back the record before it. `AckedSurvives` speaks of acknowledged
  writes only.
* A worker that loses its lease between the reservation of an attempt and `Next`
  still calls the provider, with the history it has. The provider can then get a
  shorter request after a longer one, which is the most that `RequestsExtend`
  allows, and only to a worker that was replaced.
* After a crash, or a release that failed, a lease is freed by its expiry alone;
  `OwnershipFreed` rests on `ExpireLease` there. Only the lock is freed by what
  the code and the kernel do.
* `SQLiteStore` samples the clock before a statement waits, so a renewal can
  extend a lease that expired meanwhile, as long as nobody has replaced its
  token. Exclusion does not suffer (`TakeoverAfterExpiry`,
  `StaleTokenPowerless`).
* The caller's deadline, passing between the two context reads of the timeout
  wrapper, produces a timeout error and trace code. The outcome is still a
  cancellation (`ContextDecides`).
* A power loss during an append can leave a torn last record, for which
  `ReadTrace` rejects the file. The accepted records are in it (`AcceptedKept`).

## 5. What is proved

Every safety property of the passing runs is also a theorem, for every value of
the constants that satisfies the named assumptions of the modules:
`CallAssumption`, `HarnessAssumption`, `StoreAssumption`, `SQLiteAssumption`,
`FileStoreAssumption`, `NoFileAssumption`, `RenewalAssumption`,
`CallbackAssumption`, `AdapterAssumption`, `ConversationAssumption`,
`EventAssumption`, `GroupAssumption`. They say that bounds are numbers, that the
value for "none" is not a member of the set it stands outside of, that runtimes
are configured as the constructor allows and start from checkpoints, and that no
observer is registered twice; the runs evaluate them on their instances. The
bounds are constants too, so they restrict no theorem: any finite behaviour is a behaviour under some bound. Each
inductive invariant was model-checked on a small instance before it was
proved.

**The lease store in memory** (`MemoryLeaseStoreProofs`). `TypeCorrect`,
`TokensAreFresh`, `StaleTokensArePowerless` and `StoreImplementsFencedLease`. The
inductive invariant adds two facts to the types: a lease entry carries the newest
token (`LeaseIsNewest`), and tokens were issued in order without gaps
(`IssuedInOrder`). Without the first, a stale token could match an old entry;
without the second, freshness could not be told from the table alone.

**The runtime** (`HarnessProofs`), for any number of workers, any mix of
runtimes, any seeds and any store faults.

*Part 1* has lemmas on what each edit of a snapshot returns and leaves alone (the
revision is a natural number because the history is finite; settling a pending
call moves exactly that call into the history), and `TypeCorrect`.

*Part 2* proves `AttemptsDispatchedOnce`, `ExecutesDispatchedOnce`,
`IntentsDurable`, `OwnersKnowRecord` and `StepsAreBacked`. None of these
invariants is inductive by itself. `IInv` strengthens them in layers:

1. `Exclusive`: tokens are distinct and a worker of a lease store has one; a
   worker of a lock store holds the flock; a store without ownership has let
   one creator pass. It follows that a worker whose write is accepted is the
   only one who can write (`WriterAlone`).
2. `Known`: the owner's last saved snapshot is the record, and at every program
   point what a worker would write next extends what it saved last
   (`Extends`). It follows that accepted writes never refund an attempt or
   forget a call (`RecordGrows`), although stale workers are still running.
3. `AttemptsOnce`, `CallsOnce`: what a worker is about to dispatch is in the
   record, was not dispatched before, and is about to be dispatched by nobody
   else. A new reservation or intent is larger than the record or absent from
   it, and by layer 2 everything dispatched or about to be is within it.
4. `StepsBacked`: whatever is saved or about to be saved as a step happened.

The proofs classify the actions once (`StepKinds`): a step is a move of one
worker between store operations, a write, an acquisition, a departure, or
something outside the workers. The layers then argue by kind, and only
`NextExtends` goes through the actions one by one.

*Part 3* proves `OwnersNeverRefused`, `EventsOnce`, `OutcomesStored`,
`LockedNotRedispatched`, `StoreIsFenced` and the refinement
`HarnessImplementsPromise`. Extending is not enough here: one has to know what a
worker would write. `Shaped` says it point by point: the execution in memory is
the last saved snapshot with one named edit (a reservation, a retry, an intent, a
result, an end), and that snapshot satisfies what `validateCheckpoint` asks. The
history of transitions is counted on the way, since validation compares the tool
transitions with the steps. `Told` adds that whatever was announced or is being
returned is stored. The invariant is `PInv == IInv /\ Shaped /\ Told`. With it
every accepted write is one step of `DurableExecution` (each save boundary is one
of its actions), a dispatch is one of its dispatches, and every other step is a
stutter.

**SQLite** (`SQLiteStoreProofs`). `SQLiteTakeover`, `SQLiteTokensFresh`,
`SQLiteStaleTokenPowerless`, `SQLiteCheckpointAdvances` and
`SQLiteSupersededToldFenced`, for any number of clients, any lease duration and
any width of the integer column. The invariant adds `SampledBefore` to the types:
the clock that a waiting call has read is not ahead of the clock. A comparison
with a stale clock therefore errs on the side of the owner.

**The file store** (`FileStoreProofs`). `FileStoreKeepsAcknowledged`,
`FileStoreCreatesOnce`, `FileStoreRevisionAdvances`. The invariant: records are
synced before they get a name (`Durable`), a writer that locks writes alone
(`Alone`), what `Save` compared with is still current when its rename comes
(`Armed`), no survivor is older than an acknowledged write (`Kept`), and at most
one `Create` is between its link and its answer (`OneCreator`). `Armed` is what
fails without the flock, and why `RevisionAdvances` asks for it.

**Lease renewal** (`LeaseRenewalProofs`). `LiveOwnsLease`, `HealthyKeepsLease`,
`NoGoroutineLeft`, for any lease duration, scheduling delay and latency. The
invariant has where the goroutine can be (`Framed`) and, for each point of it, how
much of the lease can be used up (`Timing`, `Healthy`): the delay until the
goroutine starts its ticker, an interval until the tick, the delay until the tick
is noticed, and the call, given up after another interval and noticed after a
third delay. Three intervals are at most the duration, so it suffices that the
store's latency and the three delays fit into the third one; that is `Prompt`.
With equality instead of the strict bound TLC finds a live context at the
instant its lease ends. The attempt to prove it without
`Duration > 2` failed for a reason in the code: a third of one or two units
rounds down to nothing, the interval is then the whole duration, and such a lease
is over when it is renewed.

**Callback timeouts** (`CallbackTimeoutProofs`). `CommitsInTime`,
`ContextsDecide`, `OwnDeadlinesDecide`, for any budgets and any answers. The
history variable `late` says what came first. The invariant ties it to what the
runtime can still see: an ended execution context (`LateContext`) or, under a live
one, an expired callback context before the wrapper's second check and a timeout
error after it (`LateOwn`).

**The conversation** (`ConversationProofs`). `ConversationsWellFormed` and
`ConversationsExtend`, for any set of call IDs, any budget and any number of
workers, crashes and takeovers. The checkpoint carries the argument: a running
worker's history is a beginning of the stored one, the owner has the stored
snapshot itself, and under the lock only the owner runs (`InStep`); stored IDs are
distinct and differ from a pending one (`Once`); and what was sent, last or at the
longest, is the beginning of what the stored history is sent as (`Begins`).
Without the last, a request could not be compared with one before a crash or of
another worker.

**The trace** (`TraceProofs`). `RecorderKeepsAccepted`, `ReadTraceIsHistory`,
`ReaderAcceptsRecorder` and `DiffTraceIsExact`, for any executions, observers and
number of events. The invariant: the file has the events in order, the
acknowledged ones whole and synced (`Recorded`); a recorder that is open and has
not failed has missed nothing (`KeepsUp`), which needs that the group reaches it
for every event; an execution's events end with its terminal one (`TerminalLast`);
and an execution that was alone until it ended has told everything up to there
(`Ordered`). The loop of `DiffTrace` is a recursive function. That it has a value
is shown by giving one (`ScanExists`), and what it computes by the least index at
which it could go wrong (`Scans`), since the numbers are well founded. The same
argument bounds the attempts of a trace, so that their maximum exists.

**Only model-checked**: the liveness properties `InvocationReturns`,
`OwnershipFreed`, `StopReturns`, `LossNoticed` and `DeadlineEnds`. They need
fairness and `ENABLED`, which the prover does not support.

## 6. What is not modelled

A runtime without a store (nothing survives it); the contents of prompts,
arguments and outputs; the configuration checks and the JSON encoding of the
model adapter, and other constructors, which only reject their arguments before
any state exists; timestamps and durations in traces; the examples, which are
demonstration programs; invalid UTF-8 inside a tool call, which the store
rejects in the same way as in outputs. `LeaseRenewal`, `CallbackTimeout` and
`Trace` are not composed with `Harness`, which has their outcomes as actions
(`LoseLease`, errors of callbacks, lifecycle events): the product would be out
of TLC's reach.

## 7. Plan

Order of work, the most important behaviour first:

1. `Checkpoints`, `Harness`, `DurableExecution`: runtime, recovery, ownership,
   and their proofs up to the refinement (done).
2. `FencedLease`, `MemoryLeaseStore` and its proofs (done).
3. `SQLiteStore`: statements with the clock sampled before them, several
   processes, integer width of tokens, and proofs of its properties (done). Next:
   the part of `FencedLease` that it keeps, as a refinement.
4. `FileStore`: load-compare-rename, link for creation, the syncs, power loss,
   the flock, and its proofs (done).
5. `LeaseRenewal`: the ticker goroutine, the first cancel cause, the stop
   handshake, with a lease store in time, and its proofs (done).
6. `CallbackTimeout`, `OpenAIModel`, `ToolExecutors`, `Conversation`: callback
   deadlines, adapters and the classification of errors, and proofs of the
   timeouts and the conversation (done). Next: lemmas on the adapter's operators,
   for every response (which errors are transient, what a response can decide).
7. `Trace`, `TraceEvents`: recorder, reader and diff, with crashes during an
   append, and their proofs (done).
