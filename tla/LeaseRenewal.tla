---------------------------- MODULE LeaseRenewal ----------------------------
(***************************************************************************)
(* The renewal goroutine of an execution (execution_lease_renewal.go)      *)
(* between the execution it guards, the caller's context and a lease       *)
(* store, with the time that each of them takes.                           *)
(*                                                                         *)
(* Time is kept as what is left or what has passed: the rest of the lease, *)
(* of the ticker's period, the age of a renewal.  Tick is one unit.        *)
(***************************************************************************)
EXTENDS Integers

CONSTANTS
  Workers,      \* processes that run or resume the execution
  Nobody,       \* the owner of a lease that was never granted or was released
  Settings,     \* stores and schedulers, see Setting
  Latency       \* bound: from the clock sample of a store call to its answer

\* store: "renewing", "fixed" (no ExecutionLeaseRenewer), "broken" (no positive
\* interval).  duration: of a lease.  slack: how late a goroutine that can run
\* does run.  faults: renewals and releases may fail or never answer.
Setting == [store : {"renewing", "fixed", "broken"}, duration : Nat \ {0},
            slack : Nat, faults : BOOLEAN]

ASSUME RenewalAssumption ==
  /\ Nobody \notin Workers
  /\ Settings \subseteq Setting
  /\ Latency \in Nat

VARIABLES
  setting,  \* the store that the workers use, and their scheduler
  lease,    \* the newest lease: its owner (for its token) and the time left
  body,     \* body[w]: where the invocation is in Run or Resume
  cause,    \* cause[w]: why the execution context ended, "live" until then
  renewal,  \* renewal[w]: the goroutine
  late      \* late[w]: how long w has been waiting to run

vars == <<setting, lease, body, cause, renewal, late>>

Duration == setting.duration

\* Mutant of Interval: renewal is attempted half-way.
IntervalHalf == Duration \div 2

\* Mutant of Interval: the whole duration.
IntervalWhole == Duration

\* ExecutionLeaseRenewalInterval of both stores.
Interval == IF Duration \div 3 = 0 THEN Duration ELSE Duration \div 3

\* at: "off" (not started or ended), "start" (spawned, has not run yet),
\* "select", "call" (in RenewExecutionLease, its statement not yet executed),
\* "ok", "fenced" (executed).  timer: the rest of the ticker's period.
\* sampled: the token was in force at the call's clock sample.
Off == [at |-> "off", timer |-> 0, ticked |-> FALSE, age |-> 0, sampled |-> FALSE]

\* Larger ages make no difference.
AgeLimit == Duration + setting.slack + 1

Init ==
  /\ setting \in Settings
  /\ lease = [owner |-> Nobody, left |-> 0]
  /\ body = [w \in Workers |-> "idle"]
  /\ cause = [w \in Workers |-> "live"]
  /\ renewal = [w \in Workers |-> Off]
  /\ late = [w \in Workers |-> 0]

InForce(w) == lease.owner = w /\ lease.left > 0

Calling(w) == renewal[w].at \in {"call", "ok", "fenced"}

\* The goroutine ran: it is not late any more.
Ran(w) == late' = [late EXCEPT ![w] = 0]

\* The first cause of a context stays (context.WithCancelCause).
CancelCause(w, why) ==
  cause' = [cause EXCEPT ![w] = IF @ = "live" THEN why ELSE @]

-----------------------------------------------------------------------------
(* The execution: acquire, start renewal, run, stop renewal, release.      *)

Acquire(w) ==
  /\ body[w] = "idle" /\ lease.left = 0
  /\ lease' = [owner |-> w, left |-> Duration]
  /\ body' = [body EXCEPT ![w] = "acquired"]
  /\ Ran(w)
  /\ UNCHANGED <<setting, cause, renewal>>

startExecutionLeaseRenewal(w) ==
  /\ body[w] = "acquired"
  /\ \/ /\ setting.store = "broken"  \* ErrInvalidLeaseRenewal
        /\ body' = [body EXCEPT ![w] = "release"]
        /\ UNCHANGED renewal
     \/ /\ setting.store = "fixed"
        /\ body' = [body EXCEPT ![w] = "running"]
        /\ UNCHANGED renewal
     \/ /\ setting.store = "renewing"
        /\ body' = [body EXCEPT ![w] = "running"]
        /\ renewal' = [renewal EXCEPT ![w] = [Off EXCEPT !.at = "start"]]
  /\ Ran(w)
  /\ UNCHANGED <<setting, lease, cause>>

\* Mutant of Stop: the goroutine is waited for but never told.
StopSilently(w) ==
  /\ body[w] = "running"
  /\ body' = [body EXCEPT ![w] = "stop"]
  /\ UNCHANGED <<setting, lease, cause, renewal, late>>

\* The execution ends, for whatever reason; the deferred stop begins.
Stop(w) ==
  /\ body[w] = "running"
  /\ body' = [body EXCEPT ![w] = "stop"]
  /\ CancelCause(w, "stop")
  /\ UNCHANGED <<setting, lease, renewal, late>>

\* Mutant of Stopped: stop returns without <-doneCh.
StoppedEarly(w) ==
  /\ body[w] = "stop"
  /\ body' = [body EXCEPT ![w] = "release"]
  /\ UNCHANGED <<setting, lease, cause, renewal, late>>

Stopped(w) ==
  /\ body[w] = "stop" /\ renewal[w].at = "off"
  /\ body' = [body EXCEPT ![w] = "release"]
  /\ UNCHANGED <<setting, lease, cause, renewal, late>>

\* The deferred release acts on the token only, and its error is dropped.
\* The process may then run the execution again.
Release(w) ==
  /\ body[w] = "release"
  /\ \/ lease' = IF lease.owner = w THEN [owner |-> Nobody, left |-> 0] ELSE lease
     \/ setting.faults /\ UNCHANGED lease
  /\ body' = [body EXCEPT ![w] = "idle"]
  /\ cause' = [cause EXCEPT ![w] = "live"]
  /\ UNCHANGED <<setting, renewal, late>>

\* The caller cancels, or its deadline passes.
ParentEnds(w) ==
  /\ body[w] \in {"acquired", "running"} /\ cause[w] = "live"
  /\ CancelCause(w, "parent")
  /\ UNCHANGED <<setting, lease, body, renewal, late>>

Crash(w) ==
  /\ body[w] # "idle"
  /\ body' = [body EXCEPT ![w] = "idle"]
  /\ cause' = [cause EXCEPT ![w] = "live"]
  /\ renewal' = [renewal EXCEPT ![w] = Off]
  /\ Ran(w)
  /\ UNCHANGED <<setting, lease>>

-----------------------------------------------------------------------------
(* The goroutine.                                                          *)

\* The spawned goroutine runs for the first time and creates its ticker.
TickerStarts(w) ==
  /\ renewal[w].at = "start"
  /\ renewal' = [renewal EXCEPT ![w].at = "select", ![w].timer = Interval]
  /\ Ran(w)
  /\ UNCHANGED <<setting, lease, body, cause>>

\* select: runCtx is done (stop ends it before it closes stopCh).  When a
\* tick is pending as well select may choose it, but then the store refuses the
\* ended context at once and the goroutine returns all the same.
SelectDone(w) ==
  /\ renewal[w].at = "select" /\ cause[w] # "live"
  /\ renewal' = [renewal EXCEPT ![w] = Off]
  /\ Ran(w)
  /\ UNCHANGED <<setting, lease, body, cause>>

\* select: a tick; the call samples the clock.
SelectTick(w) ==
  /\ renewal[w].at = "select" /\ renewal[w].ticked /\ cause[w] = "live"
  /\ renewal' = [renewal EXCEPT ![w].at = "call", ![w].ticked = FALSE,
                                ![w].age = 0, ![w].sampled = InForce(w)]
  /\ Ran(w)
  /\ UNCHANGED <<setting, lease, body, cause>>

\* The statement: the token must be the newest and in force at the sample, and
\* gets a full duration from the sample.
RenewExecutionLease(w) ==
  /\ renewal[w].at = "call"
  /\ \/ /\ lease.owner = w /\ renewal[w].sampled
        /\ lease' = [lease EXCEPT !.left = IF renewal[w].age < Duration
                                           THEN Duration - renewal[w].age ELSE 0]
        /\ renewal' = [renewal EXCEPT ![w].at = "ok"]
     \/ /\ ~(lease.owner = w /\ renewal[w].sampled)
        /\ renewal' = [renewal EXCEPT ![w].at = "fenced"]
        /\ UNCHANGED lease
  /\ UNCHANGED <<setting, body, cause, late>>

Renewed(w) ==
  /\ renewal[w].at = "ok"
  /\ renewal' = [renewal EXCEPT ![w].at = "select", ![w].age = 0]
  /\ Ran(w)
  /\ UNCHANGED <<setting, lease, body, cause>>

\* Mutant of Deadline: the call gets runCtx itself.
DeadlineNone(w) == cause[w] # "live"

\* renewCtx has ended: with runCtx, or after one interval.
Deadline(w) == cause[w] # "live" \/ renewal[w].age >= Interval

\* An error comes back: the token was refused, the store failed (perhaps after
\* the statement), or renewCtx ended.
RenewalFails(w) ==
  /\ Calling(w)
  /\ \/ renewal[w].at = "fenced"
     \/ setting.faults \/ Deadline(w)
  /\ CancelCause(w, "lost")
  /\ renewal' = [renewal EXCEPT ![w] = Off]
  /\ Ran(w)
  /\ UNCHANGED <<setting, lease, body>>

-----------------------------------------------------------------------------
(* Time.                                                                   *)

\* w has something to do now: it was spawned, there is an answer or the end of
\* a call to take up, or a branch of select is ready.
Ready(w) ==
  \/ renewal[w].at = "start"
  \/ renewal[w].at = "select" /\ (renewal[w].ticked \/ cause[w] # "live")
  \/ Calling(w) /\ (Deadline(w) \/ (~setting.faults /\ renewal[w].age >= Latency))
  \/ body[w] = "acquired"

Patience(w) == IF body[w] = "acquired" THEN Latency ELSE setting.slack

\* The ticker keeps one tick and drops the rest.
RenewalTicks(r) ==
  IF r.at \in {"off", "start"} THEN r ELSE
    [r EXCEPT !.timer = IF r.timer = 1 THEN Interval ELSE r.timer - 1,
              !.ticked = r.ticked \/ r.timer = 1,
              !.age = IF r.at = "select" \/ r.age = AgeLimit THEN r.age ELSE r.age + 1]

Tick ==
  /\ \A w \in Workers : Ready(w) => late[w] < Patience(w)
  /\ lease' = [lease EXCEPT !.left = IF @ = 0 THEN 0 ELSE @ - 1]
  /\ renewal' = [w \in Workers |-> RenewalTicks(renewal[w])]
  /\ late' = [w \in Workers |-> IF Ready(w) THEN late[w] + 1 ELSE 0]
  /\ UNCHANGED <<setting, body, cause>>

\* The steps of the goroutine, and those around the execution's own run.
Goroutine(w) ==
  TickerStarts(w) \/ SelectDone(w) \/ SelectTick(w) \/ Renewed(w) \/ RenewalFails(w)

Frame(w) == startExecutionLeaseRenewal(w) \/ Stopped(w) \/ Release(w)

Next ==
  \/ Tick
  \/ \E w \in Workers :
       \/ Acquire(w) \/ Stop(w)
       \/ ParentEnds(w) \/ Crash(w) \/ RenewExecutionLease(w)
       \/ Goroutine(w) \/ Frame(w)

Spec == Init /\ [][Next]_vars

\* Time passes, goroutines that can run do run, and a store call returns when
\* its context has ended; nothing makes it answer earlier, or an execution end.
FairSpec ==
  /\ Spec
  /\ WF_vars(Tick)
  /\ \A w \in Workers : WF_vars(Ready(w) /\ Goroutine(w)) /\ WF_vars(Frame(w))

-----------------------------------------------------------------------------
(* Properties.                                                             *)

TypeOK ==
  /\ setting \in Settings
  /\ lease \in [owner : Workers \cup {Nobody}, left : 0..Duration]
  /\ body \in [Workers -> {"idle", "acquired", "running", "stop", "release"}]
  /\ cause \in [Workers -> {"live", "parent", "lost", "stop"}]
  /\ renewal \in [Workers -> [at : {"off", "start", "select", "call", "ok",
                                    "fenced"},
                              timer : 0..Interval, ticked : BOOLEAN,
                              age : 0..AgeLimit, sampled : BOOLEAN]]
  /\ late \in [Workers -> Nat]

Live(w) == setting.store = "renewing" /\ body[w] = "running" /\ cause[w] = "live"

\* The acquisition's answer, the start of the goroutine, the notice of its tick
\* and the notice of its deadline together take less than an interval.  A lease
\* of one or two units has no third: it is renewed when it is over.
Prompt == Duration > 2 /\ Latency + 3 * setting.slack < Interval

\* While an execution context is live its lease is in force: whatever the store
\* answers or fails to answer, the context is cancelled before the lease can
\* run out and another worker start (ExecutionLeaseRenewer: "safe renewal
\* cadence").
OwnedWhileLive == Prompt => \A w \in Workers : Live(w) => InForce(w)

\* With a store that answers in time no lease is lost, however long the
\* execution runs: a renewal reaches the store while the token is in force.
HealthyNeverLost ==
  Prompt /\ ~setting.faults => \A w \in Workers : cause[w] # "lost"

\* No renewal is in flight once the release has begun, nor after the
\* invocation has returned: stop waits for the goroutine.
GoroutineGone ==
  \A w \in Workers : body[w] \in {"idle", "release"} => renewal[w].at = "off"

\* stop returns: the goroutine it waits for ends although a renewal may be in
\* flight and the store may never answer it.
StopReturns == \A w \in Workers : body[w] = "stop" ~> body[w] # "stop"

\* A worker whose lease was taken over is not left running: its context ends,
\* however slow the scheduler was and whether or not the store answers.
LossNoticed == \A w \in Workers : (Live(w) /\ lease.owner # w) ~> ~Live(w)
=============================================================================
