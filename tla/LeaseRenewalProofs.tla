-------------------------- MODULE LeaseRenewalProofs --------------------------
(***************************************************************************)
(* Proofs about the renewal goroutine for any number of workers and any    *)
(* lease duration, slack and latency.                                      *)
(*                                                                         *)
(* The argument adds up the delays.  The lease was taken at most a latency *)
(* before the goroutine was spawned, which starts its ticker within the    *)
(* slack; a tick comes an interval later and is noticed within the slack,  *)
(* and the call that follows is given up after another interval plus the   *)
(* slack: two intervals, a latency and three slacks, and three intervals   *)
(* are at most the duration.  After a renewal less has passed.  Timing     *)
(* says so for each point of the goroutine, in terms of the time left and  *)
(* the ticker.                                                             *)
(***************************************************************************)
EXTENDS LeaseRenewal, TLAPS

-----------------------------------------------------------------------------
(* The inductive invariant.                                                *)

\* Where the goroutine can be, given where the execution is.
Framed(w) ==
  /\ body[w] \in {"idle", "acquired", "release"} => renewal[w].at = "off"
  /\ renewal[w].at # "off" => setting.store = "renewing"
  /\ renewal[w].at \notin {"off", "start"} => renewal[w].timer > 0
  /\ body[w] = "stop" => cause[w] # "live"
  /\ Live(w) => renewal[w].at # "off"

\* The time since the lease was last extended, at each point of the goroutine.
Spawned(w) ==
  renewal[w].at = "start" =>
    ~renewal[w].ticked /\ Duration <= lease.left + Latency + late[w]

Select(w) ==
  renewal[w].at = "select" =>
    IF renewal[w].ticked
    THEN Duration <= lease.left + Interval + late[w] + Latency + setting.slack
    ELSE Duration + renewal[w].timer
           <= lease.left + Interval + Latency + setting.slack

InCall(w) ==
  renewal[w].at \in {"call", "ok"} =>
    /\ renewal[w].age <= Interval + late[w]
    /\ ~renewal[w].ticked => renewal[w].age + renewal[w].timer <= Interval

Sent(w) ==
  renewal[w].at = "call" =>
    /\ renewal[w].sampled
    /\ Duration <= lease.left + Interval + Latency + 2 * setting.slack + renewal[w].age

Done(w) == renewal[w].at = "ok" => lease.left + renewal[w].age = Duration

Timing(w) ==
  /\ body[w] = "acquired" =>
       /\ lease.owner = w /\ late[w] <= Latency
       /\ Duration <= lease.left + late[w]
  /\ Live(w) =>
       /\ lease.owner = w /\ late[w] <= setting.slack
       /\ renewal[w].at # "fenced"
       /\ Spawned(w) /\ Select(w) /\ InCall(w) /\ Sent(w) /\ Done(w)

\* A store without faults answers within the latency.
Healthy(w) ==
  ~setting.faults =>
    /\ cause[w] # "lost"
    /\ Live(w) /\ Calling(w) => renewal[w].age <= Latency + late[w]

Timed == Prompt => \A w \in Workers : Timing(w) /\ Healthy(w)

Inv == TypeOK /\ (\A w \in Workers : Framed(w)) /\ Timed

-----------------------------------------------------------------------------
(* Numbers.                                                                *)

\* The constants of a setting, and how many intervals a duration has.
LEMMA Numbers ==
  ASSUME TypeOK
  PROVE  /\ Duration \in Nat /\ Duration > 0 /\ setting.slack \in Nat /\ Latency \in Nat
         /\ Interval \in Nat /\ Interval > 0 /\ Interval <= Duration
         /\ AgeLimit = Duration + setting.slack + 1 /\ AgeLimit \in Nat
         /\ setting.faults \in BOOLEAN
         /\ Prompt => /\ Interval + Interval + Interval <= Duration
                      /\ Latency + 3 * setting.slack < Interval
<1>1. setting \in Setting /\ Latency \in Nat
  BY RenewalAssumption DEF TypeOK
<1>2. /\ Duration \in Nat /\ Duration > 0 /\ setting.slack \in Nat
      /\ setting.faults \in BOOLEAN
  BY <1>1 DEF Setting, Duration
<1>3. /\ Interval \in Nat /\ Interval > 0 /\ Interval <= Duration
      /\ Duration > 2 => Interval + Interval + Interval <= Duration
  BY <1>2 DEF Interval
<1> QED
  BY <1>1, <1>2, <1>3 DEF Prompt, AgeLimit

\* What a lease and a goroutine consist of.
LEMMA Fields ==
  ASSUME TypeOK, NEW w \in Workers
  PROVE  /\ lease.owner \in Workers \cup {Nobody}
         /\ lease.left \in Nat /\ lease.left <= Duration
         /\ renewal[w].at \in {"off", "start", "select", "call", "ok", "fenced"}
         /\ renewal[w].timer \in Nat /\ renewal[w].timer <= Interval
         /\ renewal[w].age \in Nat /\ renewal[w].age <= AgeLimit
         /\ renewal[w].ticked \in BOOLEAN /\ renewal[w].sampled \in BOOLEAN
         /\ late[w] \in Nat
<1>1. lease.left \in 0..Duration /\ Duration \in Nat /\ Interval \in Nat /\ AgeLimit \in Nat
  BY Numbers DEF TypeOK
<1>2. /\ renewal[w].timer \in 0..Interval /\ renewal[w].age \in 0..AgeLimit
      /\ renewal[w].at \in {"off", "start", "select", "call", "ok", "fenced"}
      /\ renewal[w].ticked \in BOOLEAN /\ renewal[w].sampled \in BOOLEAN
  BY DEF TypeOK
<1>3. lease.owner \in Workers \cup {Nobody} /\ late[w] \in Nat
  BY DEF TypeOK
<1> QED
  BY <1>1, <1>2, <1>3

\* While the context is live, or about to be, the lease is in force.
LEMMA OwnerInForce ==
  ASSUME Inv, Prompt, NEW w \in Workers, body[w] = "acquired" \/ Live(w)
  PROVE  lease.owner = w /\ lease.left > 0
<1>1. TypeOK /\ Framed(w) /\ Timing(w)
  BY DEF Inv, Timed
<1>2. CASE body[w] = "acquired"
  BY <1>1, <1>2, Numbers, Fields DEF Timing
<1>3. CASE Live(w)
  <2>1. /\ lease.owner = w /\ late[w] <= setting.slack
        /\ renewal[w].at \in {"start", "select", "call", "ok"}
        /\ Spawned(w) /\ Select(w) /\ InCall(w) /\ Sent(w) /\ Done(w)
    BY <1>1, <1>3, Fields DEF Timing, Framed
  <2>5. CASE renewal[w].at = "start"
    BY <1>1, <2>1, <2>5, Numbers, Fields DEF Spawned
  <2>2. CASE renewal[w].at = "select"
    BY <1>1, <2>1, <2>2, Numbers, Fields DEF Select
  <2>3. CASE renewal[w].at = "call"
    BY <1>1, <2>1, <2>3, Numbers, Fields DEF Sent, InCall
  <2>4. CASE renewal[w].at = "ok"
    BY <1>1, <2>1, <2>4, Numbers, Fields DEF Done, InCall
  <2> QED
    BY <2>1, <2>2, <2>3, <2>4, <2>5
<1> QED
  BY <1>2, <1>3

-----------------------------------------------------------------------------
(* Types.                                                                  *)

Goroutines ==
  [at : {"off", "start", "select", "call", "ok", "fenced"}, timer : 0..Interval,
   ticked : BOOLEAN, age : 0..AgeLimit, sampled : BOOLEAN]

Begun == [Off EXCEPT !.at = "start"]

\* The goroutine is off, or spawned without a ticker.
LEMMA GoroutineTypes ==
  ASSUME TypeOK
  PROVE  /\ Off \in Goroutines /\ Off.at = "off"
         /\ Begun \in Goroutines /\ Begun.at = "start"
         /\ Begun.ticked = FALSE /\ Begun.age = 0
<1>1. 0 \in 0..Interval /\ 0 \in 0..AgeLimit
  BY Numbers
<1> QED
  BY <1>1 DEF Off, Begun, Goroutines

-----------------------------------------------------------------------------
(* A step of one worker.                                                   *)

\* Only w moves, and the lease only if w has it or it has run out.
Alone(w) ==
  /\ UNCHANGED setting
  /\ \A v \in Workers \ {w} :
       /\ body'[v] = body[v] /\ cause'[v] = cause[v]
       /\ renewal'[v] = renewal[v] /\ late'[v] = late[v]
  /\ lease' = lease \/ lease.owner = w \/ lease.left = 0

\* The setting of a lease store determines its intervals and limits.
LEMMA SettingKept ==
  ASSUME UNCHANGED setting
  PROVE  UNCHANGED <<Duration, Interval, AgeLimit, Prompt>>
BY DEF Duration, Interval, AgeLimit, Prompt

\* The other workers keep their leases and their deadlines.
LEMMA OthersKeep ==
  ASSUME Inv, NEW w \in Workers, Alone(w), NEW v \in Workers \ {w}
  PROVE  Framed(v)' /\ (Prompt => Timing(v)' /\ Healthy(v)')
<1>1. /\ body'[v] = body[v] /\ cause'[v] = cause[v]
      /\ renewal'[v] = renewal[v] /\ late'[v] = late[v]
      /\ UNCHANGED <<setting, Duration, Interval>>
  BY SettingKept DEF Alone
<1>2. Live(v)' <=> Live(v)
  BY <1>1 DEF Live
<1>3. Framed(v)'
  BY <1>1, <1>2 DEF Inv, Framed
<1>4. ASSUME Prompt PROVE Timing(v)' /\ Healthy(v)'
  <2>1. Timing(v) /\ Healthy(v)
    BY <1>4 DEF Inv, Timed
  <2>2. Healthy(v)'
    BY <1>1, <1>2, <2>1 DEF Healthy, Calling
  <2>3. CASE body[v] = "acquired" \/ Live(v)
    <3>1. lease' = lease
      BY <1>4, <2>3, OwnerInForce DEF Alone
    <3> QED
      BY <1>1, <1>2, <2>1, <2>2, <3>1 DEF Timing, Spawned, Select, InCall, Sent, Done
  <2>4. CASE ~(body[v] = "acquired" \/ Live(v))
    BY <1>1, <1>2, <2>2, <2>4 DEF Timing
  <2> QED
    BY <2>3, <2>4
<1> QED
  BY <1>3, <1>4

\* So only what w does to itself remains to be looked at.
LEMMA AloneInv ==
  ASSUME Inv, NEW w \in Workers, Alone(w), TypeOK', Framed(w)',
         Prompt => Timing(w)' /\ Healthy(w)'
  PROVE  Inv'
<1>1. UNCHANGED Prompt
  BY SettingKept DEF Alone
<1>2. \A v \in Workers : Framed(v)' /\ (Prompt => Timing(v)' /\ Healthy(v)')
  BY OthersKeep
<1> QED
  BY <1>1, <1>2 DEF Inv, Timed

Bodies == {"idle", "acquired", "running", "stop", "release"}

Causes == {"live", "parent", "lost", "stop"}

Leases == [owner : Workers \cup {Nobody}, left : 0..Duration]

\* w sets what is its own, within the types.
OwnUpdates(w) ==
  /\ UNCHANGED setting
  /\ lease' \in Leases
  /\ lease' = lease \/ lease.owner = w \/ lease.left = 0
  /\ body' = body \/ \E b \in Bodies : body' = [body EXCEPT ![w] = b]
  /\ cause' = cause \/ \E c \in Causes : cause' = [cause EXCEPT ![w] = c]
  /\ renewal' = renewal \/ \E r \in Goroutines : renewal' = [renewal EXCEPT ![w] = r]
  /\ late' = late \/ late' = [late EXCEPT ![w] = 0]

\* A step of one worker keeps the types and leaves the others alone.
LEMMA Step ==
  ASSUME TypeOK, NEW w \in Workers, OwnUpdates(w)
  PROVE  /\ TypeOK' /\ Alone(w)
         /\ UNCHANGED <<setting, Duration, Interval, AgeLimit, Prompt>>
<1>1. UNCHANGED <<setting, Duration, Interval, AgeLimit, Prompt>>
  BY SettingKept DEF OwnUpdates
<1>2. body' \in [Workers -> Bodies] /\ \A v \in Workers \ {w} : body'[v] = body[v]
  BY DEF OwnUpdates, TypeOK, Bodies
<1>3. cause' \in [Workers -> Causes] /\ \A v \in Workers \ {w} : cause'[v] = cause[v]
  BY DEF OwnUpdates, TypeOK, Causes
<1>4. /\ renewal' \in [Workers -> Goroutines]
      /\ \A v \in Workers \ {w} : renewal'[v] = renewal[v]
  <2>1. renewal \in [Workers -> Goroutines]
    BY DEF TypeOK, Goroutines
  <2> QED
    BY <2>1 DEF OwnUpdates
<1>5. late' \in [Workers -> Nat] /\ \A v \in Workers \ {w} : late'[v] = late[v]
  BY DEF OwnUpdates, TypeOK
<1>6. TypeOK'
  BY <1>1, <1>2, <1>3, <1>4, <1>5
  DEF TypeOK, OwnUpdates, Leases, Bodies, Causes, Goroutines
<1> QED
  BY <1>1, <1>2, <1>3, <1>4, <1>5, <1>6 DEF Alone, OwnUpdates

-----------------------------------------------------------------------------
(* The execution.                                                          *)

\* A lease that has run out gets a new owner.
LEMMA AcquireInv == ASSUME Inv, NEW w \in Workers, Acquire(w) PROVE Inv'
<1>1. TypeOK /\ Framed(w) /\ Timed
  BY DEF Inv
<1>2. /\ body[w] = "idle" /\ lease.left = 0
      /\ lease' = [owner |-> w, left |-> Duration]
      /\ body' = [body EXCEPT ![w] = "acquired"]
      /\ late' = [late EXCEPT ![w] = 0]
      /\ UNCHANGED <<setting, cause, renewal>>
  BY DEF Acquire, Ran
<1>3. lease' \in Leases
  <2>1. Duration \in 0..Duration
    BY <1>1, Numbers
  <2> QED
    BY <1>2, <2>1 DEF Leases
<1>4. OwnUpdates(w)
  BY <1>2, <1>3 DEF OwnUpdates, Bodies
<1>5. /\ TypeOK' /\ Alone(w)
        /\ UNCHANGED <<setting, Duration, Interval, AgeLimit, Prompt>>
  BY <1>1, <1>4, Step
<1>6. /\ body'[w] = "acquired" /\ cause'[w] = cause[w] /\ renewal'[w] = renewal[w]
      /\ late'[w] = 0
  BY <1>1, <1>2 DEF TypeOK
<1>7. renewal[w].at = "off"
  BY <1>1, <1>2 DEF Framed
<1>8. ~Live(w)'
  BY <1>6 DEF Live
<1>9. Framed(w)'
  BY <1>6, <1>7, <1>8 DEF Framed
<1>10. ASSUME Prompt PROVE Timing(w)' /\ Healthy(w)'
  <2>1. Timing(w)'
    BY <1>1, <1>2, <1>5, <1>6, <1>8, Numbers DEF Timing
  <2>2. Healthy(w)'
    BY <1>1, <1>5, <1>6, <1>8, <1>10 DEF Timed, Healthy
  <2> QED
    BY <2>1, <2>2
<1> QED
  BY <1>5, <1>9, <1>10, AloneInv

\* The goroutine is spawned at most a latency after the lease was granted.
LEMMA StartInv ==
  ASSUME Inv, NEW w \in Workers, startExecutionLeaseRenewal(w) PROVE Inv'
<1>1. TypeOK /\ Framed(w) /\ Timed /\ lease \in Leases
  BY DEF Inv, TypeOK, Leases
<1>2. /\ body[w] = "acquired" /\ renewal[w].at = "off"
      /\ late' = [late EXCEPT ![w] = 0]
      /\ UNCHANGED <<setting, lease, cause>>
  BY <1>1 DEF startExecutionLeaseRenewal, Ran, Framed
<1>3. CASE /\ setting.store # "renewing" /\ UNCHANGED renewal
           /\ \E b \in {"running", "release"} : body' = [body EXCEPT ![w] = b]
  <2>1. PICK b \in {"running", "release"} : body' = [body EXCEPT ![w] = b]
    BY <1>3
  <2>2. OwnUpdates(w)
    BY <1>1, <1>2, <1>3, <2>1 DEF OwnUpdates, Bodies
  <2>3. /\ TypeOK' /\ Alone(w)
        /\ UNCHANGED <<setting, Duration, Interval, AgeLimit, Prompt>>
    BY <1>1, <2>2, Step
  <2>4. body'[w] = b /\ cause'[w] = cause[w] /\ renewal'[w] = renewal[w]
    BY <1>1, <1>2, <1>3, <2>1 DEF TypeOK
  <2>5. ~Live(w)'
    BY <1>3, <2>3 DEF Live
  <2>6. Framed(w)'
    BY <1>2, <2>4, <2>5 DEF Framed
  <2>7. ASSUME Prompt PROVE Timing(w)' /\ Healthy(w)'
    BY <1>1, <2>3, <2>4, <2>5, <2>7 DEF Timed, Timing, Healthy
  <2> QED
    BY <2>3, <2>6, <2>7, AloneInv
<1>4. CASE /\ setting.store = "renewing" /\ body' = [body EXCEPT ![w] = "running"]
           /\ renewal' = [renewal EXCEPT ![w] = Begun]
  <2>1. OwnUpdates(w)
    BY <1>1, <1>2, <1>4, GoroutineTypes DEF OwnUpdates, Bodies
  <2>2. /\ TypeOK' /\ Alone(w)
        /\ UNCHANGED <<setting, Duration, Interval, AgeLimit, Prompt>>
    BY <1>1, <2>1, Step
  <2>3. /\ body'[w] = "running" /\ cause'[w] = cause[w] /\ renewal'[w] = Begun
        /\ late'[w] = 0
    BY <1>1, <1>2, <1>4 DEF TypeOK
  <2>4. renewal'[w].at = "start" /\ renewal'[w].ticked = FALSE
    BY <1>1, <2>3, GoroutineTypes
  <2>5. Framed(w)'
    BY <1>1, <1>4, <2>2, <2>3, <2>4, Numbers DEF Framed
  <2>6. ASSUME Prompt PROVE Timing(w)' /\ Healthy(w)'
    <3>1. lease.owner = w /\ Duration <= lease.left + Latency /\ Healthy(w)
      <4>1. /\ lease.owner = w /\ late[w] <= Latency
            /\ Duration <= lease.left + late[w] /\ Healthy(w)
        BY <1>1, <1>2, <2>6 DEF Timed, Timing
      <4> QED
        BY <1>1, <4>1, Numbers, Fields
    <3>2. Spawned(w)'
      BY <1>1, <1>2, <2>2, <2>3, <2>4, <3>1, Numbers, Fields DEF Spawned
    <3>3. Select(w)' /\ InCall(w)' /\ Sent(w)' /\ Done(w)' /\ ~Calling(w)'
      BY <2>4 DEF Select, InCall, Sent, Done, Calling
    <3>4. Timing(w)'
      BY <1>1, <1>2, <2>2, <2>3, <2>4, <3>1, <3>2, <3>3, Numbers DEF Timing
    <3> QED
      BY <2>2, <2>3, <3>1, <3>3, <3>4 DEF Healthy
  <2> QED
    BY <2>2, <2>5, <2>6, AloneInv
<1> QED
  BY <1>3, <1>4 DEF startExecutionLeaseRenewal, Begun

\* After a step that leaves w without a live context there is little to show.
LEMMA QuietInv ==
  ASSUME Inv, NEW w \in Workers, OwnUpdates(w), Framed(w)', ~Live(w)',
         body'[w] = "acquired" => /\ body[w] = "acquired" /\ UNCHANGED lease
                                  /\ late'[w] = late[w],
         Prompt /\ ~setting.faults /\ cause'[w] = "lost" => cause[w] = "lost"
  PROVE  Inv'
<1>1. TypeOK /\ Timed
  BY DEF Inv
<1>2. /\ TypeOK' /\ Alone(w)
        /\ UNCHANGED <<setting, Duration, Interval, AgeLimit, Prompt>>
  BY <1>1, Step
<1>3. ASSUME Prompt PROVE Timing(w)' /\ Healthy(w)'
  <2>1. Timing(w) /\ Healthy(w)
    BY <1>1, <1>3 DEF Timed
  <2>2. Timing(w)'
    BY <1>2, <2>1 DEF Timing
  <2>3. Healthy(w)'
    BY <1>2, <1>3, <2>1 DEF Healthy
  <2> QED
    BY <2>2, <2>3
<1> QED
  BY <1>2, <1>3, AloneInv

\* Ending, waiting for the goroutine, releasing, being cancelled and dying.
LEMMA EndInv ==
  ASSUME Inv, NEW w \in Workers,
         Stop(w) \/ Stopped(w) \/ Release(w) \/ ParentEnds(w) \/ Crash(w)
  PROVE  Inv'
<1>1. /\ TypeOK /\ Framed(w) /\ lease \in Leases
      /\ body[w] \in Bodies /\ cause[w] \in Causes
  BY DEF Inv, TypeOK, Leases, Bodies, Causes
<1>2. CASE Stop(w)
  <2>1. /\ body' = [body EXCEPT ![w] = "stop"]
        /\ UNCHANGED <<setting, lease, renewal, late>>
        /\ cause' = [cause EXCEPT ![w] = IF cause[w] = "live" THEN "stop" ELSE cause[w]]
        /\ body[w] = "running"
    BY <1>2 DEF Stop, CancelCause
  <2>2. OwnUpdates(w)
    BY <1>1, <2>1 DEF OwnUpdates, Bodies, Causes
  <2>3. /\ body'[w] = "stop" /\ cause'[w] # "live" /\ renewal'[w] = renewal[w]
        /\ cause'[w] = "lost" => cause[w] = "lost"
    BY <1>1, <2>1 DEF TypeOK
  <2>4. ~Live(w)'
    BY <2>3 DEF Live
  <2>5. Framed(w)'
    BY <1>1, <2>1, <2>3, <2>4 DEF Framed
  <2> QED
    BY <2>2, <2>3, <2>4, <2>5, QuietInv
<1>3. CASE Stopped(w)
  <2>1. /\ body' = [body EXCEPT ![w] = "release"] /\ renewal[w].at = "off"
        /\ UNCHANGED <<setting, lease, cause, renewal, late>>
    BY <1>3 DEF Stopped
  <2>2. OwnUpdates(w)
    BY <1>1, <2>1 DEF OwnUpdates, Bodies
  <2>3. body'[w] = "release" /\ cause'[w] = cause[w] /\ renewal'[w].at = "off"
    BY <1>1, <2>1 DEF TypeOK
  <2>4. ~Live(w)'
    BY <2>3 DEF Live
  <2>5. Framed(w)'
    BY <2>3, <2>4 DEF Framed
  <2> QED
    BY <2>2, <2>3, <2>4, <2>5, QuietInv
<1>4. CASE Release(w)
  <2>1. /\ body' = [body EXCEPT ![w] = "idle"] /\ cause' = [cause EXCEPT ![w] = "live"]
        /\ body[w] = "release" /\ UNCHANGED <<setting, renewal, late>>
        /\ lease' = lease \/ (lease.owner = w /\ lease' = [owner |-> Nobody, left |-> 0])
    BY <1>4 DEF Release
  <2>2. [owner |-> Nobody, left |-> 0] \in Leases
    <3>1. 0 \in 0..Duration
      BY <1>1, Numbers
    <3> QED
      BY <3>1 DEF Leases
  <2>3. OwnUpdates(w)
    BY <1>1, <2>1, <2>2 DEF OwnUpdates, Bodies, Causes
  <2>4. body'[w] = "idle" /\ cause'[w] = "live" /\ renewal'[w] = renewal[w]
    BY <1>1, <2>1 DEF TypeOK
  <2>5. ~Live(w)'
    BY <2>4 DEF Live
  <2>6. Framed(w)'
    BY <1>1, <2>1, <2>4, <2>5 DEF Framed
  <2> QED
    BY <2>3, <2>4, <2>5, <2>6, QuietInv
<1>5. CASE ParentEnds(w)
  <2>1. /\ cause' = [cause EXCEPT ![w] = "parent"] /\ cause[w] = "live"
        /\ UNCHANGED <<setting, lease, body, renewal, late>>
    BY <1>5 DEF ParentEnds, CancelCause
  <2>2. OwnUpdates(w)
    BY <1>1, <2>1 DEF OwnUpdates, Causes
  <2>3. cause'[w] = "parent"
    BY <1>1, <2>1 DEF TypeOK
  <2>4. ~Live(w)'
    BY <2>3 DEF Live
  <2>5. Framed(w)'
    BY <1>1, <2>1, <2>3, <2>4 DEF Framed
  <2> QED
    BY <2>1, <2>2, <2>3, <2>4, <2>5, QuietInv
<1>6. CASE Crash(w)
  <2>1. /\ body' = [body EXCEPT ![w] = "idle"] /\ cause' = [cause EXCEPT ![w] = "live"]
        /\ renewal' = [renewal EXCEPT ![w] = Off] /\ late' = [late EXCEPT ![w] = 0]
        /\ UNCHANGED <<setting, lease>>
    BY <1>6 DEF Crash, Ran
  <2>2. OwnUpdates(w)
    BY <1>1, <2>1, GoroutineTypes DEF OwnUpdates, Bodies, Causes
  <2>3. body'[w] = "idle" /\ cause'[w] = "live" /\ renewal'[w].at = "off"
    BY <1>1, <2>1, GoroutineTypes DEF TypeOK
  <2>4. ~Live(w)'
    BY <2>3 DEF Live
  <2>5. Framed(w)'
    BY <2>3, <2>4 DEF Framed
  <2> QED
    BY <2>2, <2>3, <2>4, <2>5, QuietInv
<1> QED
  BY <1>2, <1>3, <1>4, <1>5, <1>6

-----------------------------------------------------------------------------
(* The goroutine.                                                          *)

\* A goroutine that is there belongs to an execution that runs or stops.
LEMMA GoroutineOf ==
  ASSUME Inv, NEW w \in Workers, renewal[w].at # "off"
  PROVE  /\ body[w] \in {"running", "stop"} /\ setting.store = "renewing"
         /\ renewal[w].at # "start" => renewal[w].timer > 0
         /\ Live(w) <=> cause[w] = "live"
<1>1. TypeOK /\ Framed(w)
  BY DEF Inv
<1> QED
  BY <1>1 DEF TypeOK, Framed, Live

\* The goroutine ends, with the context or with a renewal that failed.
LEMMA GoneInv ==
  ASSUME Inv, NEW w \in Workers, SelectDone(w) \/ RenewalFails(w)
  PROVE  Inv'
<1>1. /\ TypeOK /\ Framed(w) /\ lease \in Leases /\ cause[w] \in Causes
  BY DEF Inv, TypeOK, Leases, Causes
<1>2. renewal[w].at # "off"
  BY DEF SelectDone, RenewalFails, Calling
<1>3. /\ renewal' = [renewal EXCEPT ![w] = Off] /\ late' = [late EXCEPT ![w] = 0]
      /\ UNCHANGED <<setting, lease, body>>
      /\ \/ UNCHANGED cause /\ cause[w] # "live"
         \/ cause' = [cause EXCEPT ![w] = IF cause[w] = "live" THEN "lost" ELSE cause[w]]
  BY DEF SelectDone, RenewalFails, CancelCause, Ran
<1>4. OwnUpdates(w)
  BY <1>1, <1>3, GoroutineTypes DEF OwnUpdates, Causes
<1>5. /\ renewal'[w].at = "off" /\ cause'[w] # "live" /\ body'[w] = body[w]
      /\ cause'[w] = "lost" => cause[w] \in {"live", "lost"}
  BY <1>1, <1>3, GoroutineTypes DEF TypeOK
<1>6. ~Live(w)'
  BY <1>5 DEF Live
<1>7. Framed(w)'
  BY <1>1, <1>5, <1>6 DEF Framed
<1>8. body'[w] # "acquired"
  BY <1>2, <1>5, GoroutineOf
<1>9. ASSUME Prompt, ~setting.faults, cause'[w] = "lost", cause[w] = "live" PROVE FALSE
  <2>1. Live(w) /\ Timing(w) /\ Healthy(w)
    BY <1>2, <1>9, GoroutineOf DEF Inv, Timed
  <2>2. RenewalFails(w)
    BY <1>9 DEF SelectDone
  <2>3. Calling(w) /\ (renewal[w].at = "fenced" \/ renewal[w].age >= Interval)
    BY <1>9, <2>2 DEF RenewalFails, Deadline
  <2>4. /\ renewal[w].at # "fenced" /\ late[w] <= setting.slack
        /\ renewal[w].age <= Latency + late[w]
    BY <1>9, <2>1, <2>3 DEF Timing, Healthy
  <2> QED
    BY <1>1, <1>9, <2>3, <2>4, Numbers, Fields
<1> QED
  BY <1>4, <1>5, <1>6, <1>7, <1>8, <1>9, QuietInv

\* The goroutine runs and has a whole interval before it.
LEMMA TickerStartsInv == ASSUME Inv, NEW w \in Workers, TickerStarts(w) PROVE Inv'
<1>1. TypeOK /\ Framed(w) /\ lease \in Leases /\ renewal[w] \in Goroutines
  BY DEF Inv, TypeOK, Leases, Goroutines
<1>2. /\ renewal[w].at = "start" /\ UNCHANGED <<setting, lease, body, cause>>
      /\ late' = [late EXCEPT ![w] = 0]
  BY DEF TickerStarts, Ran
<1>3. /\ body[w] \in {"running", "stop"} /\ setting.store = "renewing"
      /\ Live(w) <=> cause[w] = "live"
  BY <1>2, GoroutineOf
<1>4. PICK r : r = [renewal[w] EXCEPT !.at = "select", !.timer = Interval]
  OBVIOUS
<1>5. /\ r \in Goroutines /\ r.at = "select" /\ r.ticked = renewal[w].ticked
      /\ r.timer = Interval
  <2>1. Interval \in 0..Interval
    BY <1>1, Numbers
  <2> QED
    BY <1>1, <1>4, <2>1 DEF Goroutines
<1>6. renewal' = [renewal EXCEPT ![w] = r]
  BY <1>1, <1>4 DEF TickerStarts, TypeOK
<1>7. OwnUpdates(w)
  BY <1>1, <1>2, <1>5, <1>6 DEF OwnUpdates
<1>8. /\ TypeOK' /\ Alone(w)
        /\ UNCHANGED <<setting, Duration, Interval, AgeLimit, Prompt>>
  BY <1>1, <1>7, Step
<1>9. renewal'[w] = r /\ late'[w] = 0
  BY <1>1, <1>2, <1>6 DEF TypeOK
<1>10. Framed(w)'
  BY <1>1, <1>2, <1>3, <1>5, <1>8, <1>9, Numbers DEF Framed
<1>11. CASE ~Live(w)
  <2>1. ~Live(w)'
    BY <1>2, <1>11 DEF Live
  <2> QED
    BY <1>2, <1>3, <1>7, <1>10, <2>1, QuietInv
<1>12. CASE Live(w)
  <2> SUFFICES ASSUME Prompt PROVE Timing(w)' /\ Healthy(w)'
    BY <1>8, <1>10, AloneInv
  <2>1. Timing(w) /\ Healthy(w)
    BY DEF Inv, Timed
  <2>2. /\ lease.owner = w /\ late[w] <= setting.slack /\ ~renewal[w].ticked
        /\ Duration <= lease.left + Latency + late[w]
    BY <1>2, <1>12, <2>1 DEF Timing, Spawned
  <2>3. Select(w)'
    <3>1. Duration + Interval <= lease.left + Interval + Latency + setting.slack
      BY <1>1, <2>2, Numbers, Fields
    <3> QED
      BY <1>2, <1>5, <1>8, <1>9, <2>2, <3>1 DEF Select
  <2>4. Spawned(w)' /\ InCall(w)' /\ Sent(w)' /\ Done(w)' /\ ~Calling(w)'
    BY <1>5, <1>9 DEF Spawned, InCall, Sent, Done, Calling
  <2>5. Timing(w)'
    BY <1>1, <1>2, <1>3, <1>5, <1>8, <1>9, <2>2, <2>3, <2>4, Numbers DEF Timing
  <2>6. Healthy(w)'
    BY <1>2, <1>8, <2>1, <2>4 DEF Healthy
  <2> QED
    BY <2>5, <2>6
<1> QED
  BY <1>11, <1>12

\* A tick is taken up: the token is still in force when the clock is sampled.
LEMMA SelectTickInv == ASSUME Inv, NEW w \in Workers, SelectTick(w) PROVE Inv'
<1>1. TypeOK /\ Framed(w) /\ lease \in Leases /\ renewal[w] \in Goroutines
  BY DEF Inv, TypeOK, Leases, Goroutines
<1>2. /\ renewal[w].at = "select" /\ renewal[w].ticked /\ cause[w] = "live"
      /\ late' = [late EXCEPT ![w] = 0]
      /\ UNCHANGED <<setting, lease, body, cause>>
  BY DEF SelectTick, Ran
<1>3. Live(w) /\ renewal[w].timer > 0 /\ setting.store = "renewing"
      /\ body[w] = "running"
  BY <1>2, GoroutineOf DEF Live
<1>4. PICK r : r = [renewal[w] EXCEPT !.at = "call", !.ticked = FALSE, !.age = 0,
                                     !.sampled = InForce(w)]
  OBVIOUS
<1>5. /\ r.at = "call" /\ r.ticked = FALSE /\ r.age = 0 /\ r.timer = renewal[w].timer
      /\ r.sampled = InForce(w)
  BY <1>1, <1>4, Zenon DEF Goroutines
<1>6. r \in Goroutines
  <2>1. 0 \in 0..AgeLimit /\ InForce(w) \in BOOLEAN
    BY <1>1, Numbers DEF InForce
  <2> QED
    BY <1>1, <1>4, <2>1 DEF Goroutines
<1>7. renewal' = [renewal EXCEPT ![w] = r]
  BY <1>1, <1>4 DEF SelectTick, TypeOK
<1>8. OwnUpdates(w)
  BY <1>1, <1>2, <1>6, <1>7 DEF OwnUpdates
<1>9. /\ TypeOK' /\ Alone(w)
        /\ UNCHANGED <<setting, Duration, Interval, AgeLimit, Prompt>>
  BY <1>1, <1>8, Step
<1>10. renewal'[w] = r /\ late'[w] = 0
  BY <1>1, <1>2, <1>7 DEF TypeOK
<1>11. Framed(w)'
  BY <1>1, <1>2, <1>3, <1>5, <1>9, <1>10 DEF Framed
<1>12. ASSUME Prompt PROVE Timing(w)' /\ Healthy(w)'
  <2>1. Timing(w) /\ Healthy(w) /\ InForce(w)
    BY <1>3, <1>12, OwnerInForce DEF Inv, Timed, InForce
  <2>2. /\ lease.owner = w /\ late[w] <= setting.slack
        /\ Duration <= lease.left + Interval + late[w] + Latency + setting.slack
    BY <1>2, <1>3, <2>1 DEF Timing, Select
  <2>3. InCall(w)'
    BY <1>1, <1>5, <1>9, <1>10, Numbers, Fields DEF InCall
  <2>4. Sent(w)'
    <3>1. Duration <= lease.left + Interval + Latency + 2 * setting.slack
      BY <1>1, <2>2, Numbers, Fields
    <3>2. r.sampled
      BY <1>5, <2>1, Zenon
    <3> QED
      BY <1>1, <1>2, <1>5, <1>9, <1>10, <3>1, <3>2, Numbers, Fields DEF Sent
  <2>5. Spawned(w)' /\ Select(w)' /\ Done(w)'
    BY <1>5, <1>10 DEF Spawned, Select, Done
  <2>6. Timing(w)'
    BY <1>1, <1>2, <1>3, <1>5, <1>9, <1>10, <2>2, <2>3, <2>4, <2>5, Numbers DEF Timing
  <2>7. Healthy(w)'
    BY <1>1, <1>2, <1>5, <1>9, <1>10, <2>1, Numbers DEF Healthy
  <2> QED
    BY <2>6, <2>7
<1> QED
  BY <1>9, <1>11, <1>12, AloneInv

\* The renewal is executed: the lease gets what is left of a full duration.
LEMMA RenewInv == ASSUME Inv, NEW w \in Workers, RenewExecutionLease(w) PROVE Inv'
<1>1. TypeOK /\ Framed(w) /\ lease \in Leases /\ renewal[w] \in Goroutines
  BY DEF Inv, TypeOK, Leases, Goroutines
<1>2. renewal[w].at = "call" /\ UNCHANGED <<setting, body, cause, late>>
  BY DEF RenewExecutionLease
<1>3. /\ body[w] \in {"running", "stop"} /\ setting.store = "renewing"
      /\ renewal[w].timer > 0 /\ (Live(w) <=> cause[w] = "live")
  BY <1>2, GoroutineOf
<1>4. PICK at \in {"ok", "fenced"} :
        /\ renewal' = [renewal EXCEPT ![w].at = at]
        /\ at = "ok" =>
             /\ lease.owner = w
             /\ lease' = [lease EXCEPT !.left = IF renewal[w].age < Duration
                                                THEN Duration - renewal[w].age ELSE 0]
        /\ at = "fenced" => ~(lease.owner = w /\ renewal[w].sampled) /\ UNCHANGED lease
  BY DEF RenewExecutionLease
<1>5. PICK r : r = [renewal[w] EXCEPT !.at = at]
  OBVIOUS
<1>6. /\ r \in Goroutines /\ r.at = at /\ r.ticked = renewal[w].ticked
      /\ r.age = renewal[w].age /\ r.timer = renewal[w].timer
  BY <1>1, <1>5 DEF Goroutines
<1>7. renewal' = [renewal EXCEPT ![w] = r]
  BY <1>1, <1>4, <1>5 DEF TypeOK
<1>8. lease' \in Leases /\ (lease' = lease \/ lease.owner = w)
  <2>1. CASE at = "ok"
    <3>1. (IF renewal[w].age < Duration THEN Duration - renewal[w].age ELSE 0)
            \in 0..Duration
      BY <1>1, Numbers, Fields
    <3> QED
      BY <1>1, <1>4, <2>1, <3>1 DEF Leases
  <2> QED
    BY <1>1, <1>4, <2>1
<1>9. OwnUpdates(w)
  BY <1>2, <1>6, <1>7, <1>8 DEF OwnUpdates
<1>10. /\ TypeOK' /\ Alone(w)
        /\ UNCHANGED <<setting, Duration, Interval, AgeLimit, Prompt>>
  BY <1>1, <1>9, Step
<1>11. renewal'[w] = r
  BY <1>1, <1>7 DEF TypeOK
<1>12. Framed(w)'
  BY <1>1, <1>2, <1>3, <1>6, <1>10, <1>11 DEF Framed
<1>13. CASE ~Live(w)
  <2>1. ~Live(w)'
    BY <1>2, <1>13 DEF Live
  <2> QED
    BY <1>2, <1>3, <1>9, <1>12, <2>1, QuietInv
<1>14. CASE Live(w)
  <2> SUFFICES ASSUME Prompt PROVE Timing(w)' /\ Healthy(w)'
    BY <1>10, <1>12, AloneInv
  <2>1. Timing(w) /\ Healthy(w)
    BY DEF Inv, Timed
  <2>2. /\ lease.owner = w /\ late[w] <= setting.slack /\ renewal[w].sampled
        /\ renewal[w].age <= Interval + late[w]
        /\ ~renewal[w].ticked => renewal[w].age + renewal[w].timer <= Interval
    BY <1>2, <1>14, <2>1 DEF Timing, Sent, InCall
  <2>3. at = "ok"
    BY <1>4, <2>2
  <2>4. lease'.owner = w /\ lease'.left + renewal[w].age = Duration
    <3>1. renewal[w].age < Duration
      BY <1>1, <2>2, Numbers, Fields
    <3>2. lease' = [lease EXCEPT !.left = Duration - renewal[w].age]
      BY <1>4, <2>3, <3>1
    <3>3. lease'.owner = w /\ lease'.left = Duration - renewal[w].age
      BY <1>1, <2>2, <3>2 DEF Leases
    <3> QED
      BY <1>1, <3>3, Numbers, Fields
  <2>5. InCall(w)' /\ Spawned(w)' /\ Select(w)' /\ Sent(w)'
    BY <1>2, <1>6, <1>10, <1>11, <2>2, <2>3 DEF InCall, Spawned, Select, Sent
  <2>6. Done(w)'
    BY <1>6, <1>10, <1>11, <2>3, <2>4 DEF Done
  <2>7. Timing(w)'
    BY <1>2, <1>3, <1>6, <1>10, <1>11, <2>2, <2>3, <2>4, <2>5, <2>6 DEF Timing
  <2>8. Healthy(w)'
    BY <1>2, <1>6, <1>10, <1>11, <1>14, <2>1 DEF Healthy, Calling
  <2> QED
    BY <2>7, <2>8
<1> QED
  BY <1>13, <1>14

\* The answer is taken up: the ticker has run on meanwhile.
LEMMA RenewedInv == ASSUME Inv, NEW w \in Workers, Renewed(w) PROVE Inv'
<1>1. TypeOK /\ Framed(w) /\ lease \in Leases /\ renewal[w] \in Goroutines
  BY DEF Inv, TypeOK, Leases, Goroutines
<1>2. /\ renewal[w].at = "ok" /\ UNCHANGED <<setting, lease, body, cause>>
      /\ late' = [late EXCEPT ![w] = 0]
  BY DEF Renewed, Ran
<1>3. /\ body[w] \in {"running", "stop"} /\ setting.store = "renewing"
      /\ renewal[w].timer > 0 /\ (Live(w) <=> cause[w] = "live")
  BY <1>2, GoroutineOf
<1>4. PICK r : r = [renewal[w] EXCEPT !.at = "select", !.age = 0]
  OBVIOUS
<1>5. /\ r \in Goroutines /\ r.at = "select" /\ r.ticked = renewal[w].ticked
      /\ r.timer = renewal[w].timer
  <2>1. 0 \in 0..AgeLimit
    BY <1>1, Numbers
  <2> QED
    BY <1>1, <1>4, <2>1 DEF Goroutines
<1>6. renewal' = [renewal EXCEPT ![w] = r]
  BY <1>1, <1>4 DEF Renewed, TypeOK
<1>7. OwnUpdates(w)
  BY <1>1, <1>2, <1>5, <1>6 DEF OwnUpdates
<1>8. /\ TypeOK' /\ Alone(w)
        /\ UNCHANGED <<setting, Duration, Interval, AgeLimit, Prompt>>
  BY <1>1, <1>7, Step
<1>9. renewal'[w] = r /\ late'[w] = 0
  BY <1>1, <1>2, <1>6 DEF TypeOK
<1>10. Framed(w)'
  BY <1>1, <1>2, <1>3, <1>5, <1>8, <1>9 DEF Framed
<1>11. CASE ~Live(w)
  <2>1. ~Live(w)'
    BY <1>2, <1>11 DEF Live
  <2> QED
    BY <1>2, <1>3, <1>7, <1>10, <2>1, QuietInv
<1>12. CASE Live(w)
  <2> SUFFICES ASSUME Prompt PROVE Timing(w)' /\ Healthy(w)'
    BY <1>8, <1>10, AloneInv
  <2>1. Timing(w) /\ Healthy(w)
    BY DEF Inv, Timed
  <2>2. /\ lease.owner = w /\ late[w] <= setting.slack
        /\ lease.left + renewal[w].age = Duration
        /\ renewal[w].age <= Interval + late[w]
        /\ ~renewal[w].ticked => renewal[w].age + renewal[w].timer <= Interval
    BY <1>2, <1>12, <2>1 DEF Timing, Done, InCall
  <2>3. Select(w)'
    <3>1. Duration <= lease.left + Interval + 0 + Latency + setting.slack
      BY <1>1, <2>2, Numbers, Fields
    <3>2. ~renewal[w].ticked =>
            Duration + renewal[w].timer
              <= lease.left + Interval + Latency + setting.slack
      BY <1>1, <2>2, Numbers, Fields
    <3> QED
      BY <1>2, <1>5, <1>8, <1>9, <3>1, <3>2 DEF Select
  <2>4. Spawned(w)' /\ InCall(w)' /\ Sent(w)' /\ Done(w)' /\ ~Calling(w)'
    BY <1>5, <1>9 DEF Spawned, InCall, Sent, Done, Calling
  <2>5. Timing(w)'
    BY <1>1, <1>2, <1>3, <1>5, <1>8, <1>9, <2>2, <2>3, <2>4, Numbers DEF Timing
  <2>6. Healthy(w)'
    BY <1>2, <1>8, <2>1, <2>4 DEF Healthy
  <2> QED
    BY <2>5, <2>6
<1> QED
  BY <1>11, <1>12

-----------------------------------------------------------------------------
(* Time.                                                                   *)

\* What a unit of time does to a worker.
LEMMA TickOf ==
  ASSUME Inv, Tick, NEW w \in Workers
  PROVE  LET r == renewal[w]
             s == renewal'[w]
         IN  /\ s \in Goroutines /\ s.at = r.at /\ s.sampled = r.sampled
             /\ r.at \in {"off", "start"} => s = r
             /\ r.at \notin {"off", "start"} =>
                  /\ s.timer = (IF r.timer = 1 THEN Interval ELSE r.timer - 1)
                  /\ s.ticked <=> r.ticked \/ r.timer = 1
                  /\ s.age = (IF r.at = "select" \/ r.age = AgeLimit THEN r.age
                              ELSE r.age + 1)
             /\ late'[w] = (IF Ready(w) THEN late[w] + 1 ELSE 0)
             /\ Ready(w) => late[w] < Patience(w)
<1>1. TypeOK /\ Framed(w) /\ renewal[w] \in Goroutines
  BY DEF Inv, TypeOK, Goroutines
<1>2. PICK r : r = renewal[w]
  OBVIOUS
<1>3. renewal'[w] = RenewalTicks(r)
  BY <1>2 DEF Tick
<1>4. CASE r.at \in {"off", "start"}
  BY <1>1, <1>2, <1>3, <1>4 DEF Tick, RenewalTicks
<1>5. CASE r.at \notin {"off", "start"}
  <2>1. PICK timer : timer = IF r.timer = 1 THEN Interval ELSE r.timer - 1
    OBVIOUS
  <2>2. PICK age : age = IF r.at = "select" \/ r.age = AgeLimit THEN r.age ELSE r.age + 1
    OBVIOUS
  <2>3. PICK ticked : ticked = (r.ticked \/ r.timer = 1)
    OBVIOUS
  <2>4. RenewalTicks(r) = [r EXCEPT !.timer = timer, !.ticked = ticked, !.age = age]
    BY <1>5, <2>1, <2>2, <2>3, Zenon DEF RenewalTicks
  <2>5. timer \in 0..Interval /\ age \in 0..AgeLimit
    <3>1. /\ r.timer \in Nat /\ r.timer > 0 /\ r.timer <= Interval /\ Interval \in Nat
          /\ r.age \in Nat /\ r.age <= AgeLimit /\ AgeLimit \in Nat
      BY <1>1, <1>2, <1>5, Numbers, Fields DEF Framed
    <3> QED
      BY <2>1, <2>2, <3>1
  <2>6. ticked \in BOOLEAN
    BY <2>3
  <2>7. /\ RenewalTicks(r) \in Goroutines /\ RenewalTicks(r).at = r.at
        /\ RenewalTicks(r).sampled = r.sampled
        /\ RenewalTicks(r).timer = timer /\ RenewalTicks(r).age = age
        /\ RenewalTicks(r).ticked = ticked
    BY <1>1, <1>2, <2>4, <2>5, <2>6 DEF Goroutines
  <2>8. /\ late'[w] = (IF Ready(w) THEN late[w] + 1 ELSE 0)
        /\ Ready(w) => late[w] < Patience(w)
    BY DEF Tick
  <2> QED
    BY <1>2, <1>3, <1>5, <2>1, <2>2, <2>3, <2>7, <2>8, Zenon
<1> QED
  BY <1>4, <1>5

\* A unit of time keeps the invariant: it uses up what the delays leave.
LEMMA TickInv == ASSUME Inv, Tick PROVE Inv'
<1>1. TypeOK /\ Timed /\ \A w \in Workers : Framed(w)
  BY DEF Inv
<1>2. UNCHANGED <<setting, body, cause, Duration, Interval, AgeLimit, Prompt>>
  BY SettingKept DEF Tick
<1>3. /\ lease'.owner = lease.owner
      /\ lease'.left = (IF lease.left = 0 THEN 0 ELSE lease.left - 1)
      /\ lease' \in Leases
  <2>1. lease \in Leases /\ lease.left \in 0..Duration /\ Duration \in Nat
    BY <1>1, Numbers DEF TypeOK, Leases
  <2>2. (IF lease.left = 0 THEN 0 ELSE lease.left - 1) \in 0..Duration
    BY <2>1
  <2>3. lease' = [lease EXCEPT !.left = IF lease.left = 0 THEN 0 ELSE lease.left - 1]
    BY DEF Tick
  <2> QED
    BY <2>1, <2>2, <2>3 DEF Leases
<1>4. TypeOK'
  <2>1. \A w \in Workers : renewal'[w] \in Goroutines
    BY TickOf
  <2>2. renewal' \in [Workers -> Goroutines]
    BY <2>1 DEF Tick
  <2>3. late' \in [Workers -> Nat]
    <3>1. late' = [w \in Workers |-> IF Ready(w) THEN late[w] + 1 ELSE 0]
      BY DEF Tick
    <3>2. ASSUME NEW w \in Workers
          PROVE  (IF Ready(w) THEN late[w] + 1 ELSE 0) \in Nat
      <4>1. 0 \in Nat /\ late[w] + 1 \in Nat
        BY <1>1, Fields
      <4> QED
        BY <4>1, Zenon
    <3> QED
      BY <3>1, <3>2, Zenon
  <2> QED
    BY <1>1, <1>2, <1>3, <2>2, <2>3 DEF TypeOK, Leases, Goroutines
<1>5. ASSUME NEW w \in Workers
      PROVE  Framed(w)' /\ (Live(w)' <=> Live(w))
  <2>1. Live(w)' <=> Live(w)
    BY <1>2 DEF Live
  <2>2. renewal'[w].at = renewal[w].at
    BY TickOf
  <2>3. renewal[w].at \notin {"off", "start"} => renewal'[w].timer > 0
    <3>1. renewal[w].at \notin {"off", "start"} =>
            renewal'[w].timer =
              (IF renewal[w].timer = 1 THEN Interval ELSE renewal[w].timer - 1)
      BY TickOf
    <3> QED
      BY <1>1, <3>1, Numbers, Fields DEF Framed
  <2> QED
    BY <1>1, <1>2, <2>1, <2>2, <2>3 DEF Framed
<1>6. ASSUME NEW w \in Workers, Prompt, body[w] = "acquired"
      PROVE  Timing(w)'
  <2>1. Ready(w) /\ Patience(w) = Latency /\ ~Live(w)'
    BY <1>2, <1>6 DEF Ready, Patience, Live
  <2>2. late[w] < Latency /\ late'[w] = late[w] + 1
    BY <2>1, TickOf
  <2>3. lease.owner = w /\ lease.left > 0 /\ Duration <= lease.left + late[w]
    BY <1>1, <1>6, OwnerInForce DEF Timed, Timing
  <2>4. late'[w] <= Latency /\ Duration <= lease'.left + late'[w]
    BY <1>1, <1>3, <2>2, <2>3, Numbers, Fields
  <2> QED
    BY <1>2, <1>3, <2>1, <2>3, <2>4 DEF Timing
<1>7. ASSUME NEW w \in Workers, Prompt, Live(w)
      PROVE  Timing(w)'
  <2>1. /\ lease.owner = w /\ lease.left > 0 /\ lease'.left = lease.left - 1
        /\ lease'.owner = w
    BY <1>3, <1>7, OwnerInForce
  <2>2. /\ Timing(w) /\ body[w] = "running" /\ cause[w] = "live"
        /\ late[w] <= setting.slack
        /\ renewal[w].at \in {"start", "select", "call", "ok"}
        /\ Spawned(w) /\ Select(w) /\ InCall(w) /\ Sent(w) /\ Done(w)
        /\ renewal[w].at # "start" => renewal[w].timer > 0
    BY <1>1, <1>7, Fields DEF Timed, Timing, Live, Framed
  <2>3. Patience(w) = setting.slack
    BY <2>2 DEF Patience
  <2>4. /\ late'[w] = (IF Ready(w) THEN late[w] + 1 ELSE 0)
        /\ Ready(w) => late[w] < setting.slack
        /\ renewal'[w].at = renewal[w].at /\ renewal'[w].sampled = renewal[w].sampled
        /\ renewal[w].at = "start" => renewal'[w] = renewal[w]
        /\ renewal[w].at # "start" =>
             /\ renewal'[w].ticked <=> renewal[w].ticked \/ renewal[w].timer = 1
             /\ renewal[w].timer # 1 => renewal'[w].timer = renewal[w].timer - 1
             /\ renewal[w].at # "select" /\ renewal[w].age # AgeLimit =>
                  renewal'[w].age = renewal[w].age + 1
    BY <2>2, <2>3, TickOf
  <2>5. late'[w] <= setting.slack
    BY <1>1, <2>4, Numbers, Fields
  <2>8. CASE renewal[w].at = "start"
    <3>1. Ready(w) /\ late'[w] = late[w] + 1 /\ renewal'[w] = renewal[w]
      BY <2>4, <2>8 DEF Ready
    <3>2. Spawned(w)'
      BY <1>1, <1>2, <2>1, <2>2, <2>8, <3>1, Numbers, Fields DEF Spawned
    <3> QED
      BY <1>2, <2>1, <2>2, <2>5, <2>8, <3>1, <3>2
      DEF Timing, Select, InCall, Sent, Done
  <2>6. CASE renewal[w].at = "select"
    <3>1. Ready(w) <=> renewal[w].ticked
      BY <2>2, <2>6 DEF Ready, Calling
    <3>2. Select(w)'
      BY <1>1, <1>2, <2>1, <2>2, <2>4, <2>6, <3>1, Numbers, Fields DEF Select
    <3> QED
      BY <1>2, <2>1, <2>2, <2>4, <2>5, <2>6, <3>2
      DEF Timing, Spawned, InCall, Sent, Done
  <2>7. CASE renewal[w].at \in {"call", "ok"}
    <3>1. /\ renewal[w].age <= Interval + late[w]
          /\ ~renewal[w].ticked => renewal[w].age + renewal[w].timer <= Interval
      BY <2>2, <2>7 DEF InCall
    <3>2. renewal'[w].age = renewal[w].age + 1
      BY <1>1, <2>2, <2>4, <2>7, <3>1, Numbers, Fields
    <3>3. ~Ready(w) => renewal[w].age < Interval
      BY <1>1, <2>2, <2>7, Numbers, Fields DEF Ready, Calling, Deadline
    <3>4. renewal'[w].age <= Interval + late'[w]
      BY <1>1, <2>4, <3>1, <3>2, <3>3, Numbers, Fields
    <3>5. ~renewal'[w].ticked => renewal'[w].age + renewal'[w].timer <= Interval
      BY <1>1, <2>4, <3>1, <3>2, Numbers, Fields
    <3>6. InCall(w)'
      BY <1>2, <3>4, <3>5 DEF InCall
    <3>7. Sent(w)'
      BY <1>1, <1>2, <2>1, <2>2, <2>4, <3>2, Numbers, Fields DEF Sent
    <3>8. Done(w)'
      BY <1>1, <1>2, <2>1, <2>2, <2>4, <3>2, Numbers, Fields DEF Done
    <3> QED
      BY <1>2, <2>1, <2>2, <2>4, <2>5, <2>7, <3>6, <3>7, <3>8
      DEF Timing, Spawned, Select
  <2> QED
    BY <2>2, <2>6, <2>7, <2>8
<1>8. ASSUME NEW w \in Workers, Prompt PROVE Healthy(w)'
  <2>1. Healthy(w) /\ renewal'[w].at = renewal[w].at
    BY <1>1, <1>8, TickOf DEF Timed
  <2>2. ASSUME ~setting.faults, Live(w), Calling(w)
        PROVE  renewal'[w].age <= Latency + late'[w]
    <3>1. renewal[w].age <= Latency + late[w] /\ renewal[w].at \notin {"off", "start"}
      BY <2>1, <2>2 DEF Healthy, Calling
    <3>2. /\ renewal'[w].age \in {renewal[w].age, renewal[w].age + 1}
          /\ late'[w] = (IF Ready(w) THEN late[w] + 1 ELSE 0)
      BY <3>1, TickOf
    <3>3. ~Ready(w) => renewal[w].age < Latency
      BY <1>1, <2>2, Numbers, Fields DEF Ready
    <3> QED
      BY <1>1, <3>1, <3>2, <3>3, Numbers, Fields
  <2> QED
    BY <1>2, <1>5, <2>1, <2>2 DEF Healthy, Calling
<1>9. ASSUME NEW w \in Workers, Prompt PROVE Timing(w)'
  <2>1. CASE ~(body[w] = "acquired" \/ Live(w))
    BY <1>2, <1>5, <2>1 DEF Timing
  <2> QED
    BY <1>6, <1>7, <1>9, <2>1
<1> QED
  BY <1>2, <1>4, <1>5, <1>8, <1>9 DEF Inv, Timed

-----------------------------------------------------------------------------
(* The theorems.                                                           *)

\* Nobody has a lease at first.
LEMMA InitInv == Init => Inv
<1> SUFFICES ASSUME Init PROVE Inv
  OBVIOUS
<1>1. /\ setting \in Setting /\ Duration \in Nat /\ Interval \in Nat /\ AgeLimit \in Nat
  BY RenewalAssumption DEF Init, Setting, Duration, Interval, AgeLimit
<1>2. 0 \in 0..Duration /\ 0 \in 0..Interval /\ 0 \in 0..AgeLimit
  BY <1>1
<1>3. TypeOK
  BY <1>2 DEF Init, TypeOK, Off
<1>4. \A w \in Workers : /\ body[w] = "idle" /\ cause[w] = "live"
                         /\ renewal[w].at = "off" /\ ~Live(w)
  BY DEF Init, Off, Live
<1>5. \A w \in Workers : Framed(w) /\ Timing(w) /\ Healthy(w)
  BY <1>4 DEF Framed, Timing, Healthy
<1> QED
  BY <1>3, <1>5 DEF Inv, Timed

\* Every step keeps the invariant.
LEMMA NextInv == ASSUME Inv, [Next]_vars PROVE Inv'
<1>1. CASE UNCHANGED vars
  BY <1>1 DEF vars, Inv, TypeOK, Timed, Framed, Timing, Healthy, Spawned, Select, InCall,
              Sent, Done, Live, Calling, Prompt, Duration, Interval, AgeLimit
<1> QED
  BY <1>1, TickInv, AcquireInv, StartInv, EndInv, GoneInv, TickerStartsInv,
     SelectTickInv, RenewInv, RenewedInv
  DEF Next, Goroutine, Frame

\* The delays add up as Timing says, for every duration, slack and latency.
THEOREM InvHolds == Spec => []Inv
BY InitInv, NextInv, PTL DEF Spec

\* Under a prompt scheduler a live execution has its lease, whatever the store
\* answers (execution_lease_renewal.go: renewCtx ends before the lease can).
THEOREM LiveOwnsLease == Spec => []OwnedWhileLive
<1>1. Inv => OwnedWhileLive
  BY OwnerInForce DEF OwnedWhileLive, InForce
<1> QED
  BY <1>1, InvHolds, PTL

\* A store that answers in time never costs an execution its lease
\* (ExecutionLeaseRenewalInterval: a third of the duration).
THEOREM HealthyKeepsLease == Spec => []HealthyNeverLost
<1>1. Inv => HealthyNeverLost
  BY DEF Inv, Timed, Healthy, HealthyNeverLost
<1> QED
  BY <1>1, InvHolds, PTL

\* The release never races a renewal, and none outlives its invocation
\* (execution_lease_renewal.go: stop waits for doneCh).
THEOREM NoGoroutineLeft == Spec => []GoroutineGone
<1>1. Inv => GoroutineGone
  BY DEF Inv, Framed, GoroutineGone
<1> QED
  BY <1>1, InvHolds, PTL
=============================================================================
