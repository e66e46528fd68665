-------------------------- MODULE SQLiteStoreProofs --------------------------
(***************************************************************************)
(* Proofs about SQLiteCheckpointStore for any number of clients, any lease *)
(* duration and any width of the integer column.                           *)
(*                                                                         *)
(* Inv is TypeOK, which already says that no token was returned above the  *)
(* one in the row, together with SampledBefore: the clock a waiting call   *)
(* has read is not ahead of the clock.  That is what makes a comparison    *)
(* with a stale clock err on the side of the owner.                        *)
(***************************************************************************)
EXTENDS SQLiteStore, TLAPS

\* The clock sample of a call is in the past.
SampledBefore == \A c \in Clients : calls[c].now <= clock

Inv == TypeOK /\ SampledBefore

\* The statement of c applies, whatever c is told.
Applied(c) ==
  /\ Waiting(c) /\ Applies(calls[c])
  /\ row' = Updated(c, calls[c])
  /\ calls' = [calls EXCEPT ![c] = Idle]

-----------------------------------------------------------------------------
(* The inductive invariant.                                                *)

\* A client that calls nothing has sampled no clock.
LEMMA IdleType == Idle \in Call /\ Idle.now = 0
BY SQLiteAssumption DEF Idle, Call

\* What a call and the row consist of.
LEMMA Fields ==
  ASSUME TypeOK
  PROVE  /\ row.token \in 0..MaxInt /\ row.expires \in Nat /\ row.revision \in Nat
         /\ row.author \in Clients \cup {NoClient}
         /\ \A c \in Clients :
              /\ calls[c].op \in Guarded \cup {"idle", "acquire", "release"}
              /\ calls[c].token \in 0..MaxInt /\ calls[c].revision \in Nat
              /\ calls[c].now \in Nat
BY DEF TypeOK, Row, Call

\* What a statement makes of the row.
LEMMA UpdatedRow ==
  ASSUME TypeOK, NEW c \in Clients, Waiting(c), Applies(calls[c])
  PROVE  /\ Updated(c, calls[c]) \in Row
         /\ Updated(c, calls[c]).token =
              IF At(c, "acquire") THEN row.token + 1 ELSE row.token
<1> DEFINE call == calls[c]
           new == Updated(c, call)
<1>1. /\ row \in Row /\ row.token \in 0..MaxInt /\ MaxInt \in Nat \ {0}
      /\ call.now + LeaseDuration \in Nat /\ call.revision \in Nat
  BY Fields, SQLiteAssumption DEF TypeOK
<1>2. call.op \in {"acquire", "renew", "create", "save", "release"}
  BY Fields DEF Waiting, At, Guarded
<1>3. CASE call.op = "acquire"
  <2>1. row.token + 1 \in 0..MaxInt
    BY <1>1, <1>3 DEF Applies, CanAcquire
  <2>2. new = [row EXCEPT !.token = row.token + 1, !.expires = call.now + LeaseDuration]
    BY <1>3 DEF Updated
  <2> QED
    BY <1>1, <1>3, <2>1, <2>2 DEF Row, At
<1>4. CASE call.op = "renew"
  <2>1. new = [row EXCEPT !.expires = call.now + LeaseDuration]
    BY <1>4 DEF Updated
  <2> QED
    BY <1>1, <1>4, <2>1 DEF Row, At
<1>5. CASE call.op \in {"create", "save"}
  <2>1. new = [row EXCEPT !.revision = call.revision, !.author = c]
    BY <1>5 DEF Updated
  <2> QED
    BY <1>1, <1>5, <2>1 DEF Row, At
<1>6. CASE call.op = "release"
  <2>1. new = [row EXCEPT !.expires = 0]
    BY <1>6 DEF Updated
  <2> QED
    BY <1>1, <1>6, <2>1 DEF Row, At
<1> QED
  BY <1>2, <1>3, <1>4, <1>5, <1>6

\* There is no row at first, and nobody calls.
LEMMA InitInv == Init => Inv
<1> SUFFICES ASSUME Init PROVE Inv
  OBVIOUS
<1>1. row \in Row /\ row.token = 0
  BY SQLiteAssumption DEF Init, Row
<1>2. calls \in [Clients -> Call] /\ \A c \in Clients : calls[c].now = 0
  BY IdleType DEF Init
<1> QED
  BY <1>1, <1>2 DEF Init, Inv, TypeOK, SampledBefore, Answers

\* A call is begun with the arguments that the checks let pass.
LEMMA StartedInv ==
  ASSUME Inv, NEW c \in Clients, NEW op \in Guarded \cup {"acquire"},
         NEW token \in 0..MaxInt, NEW revision \in Nat,
         Started(c, op, token, revision)
  PROVE  Inv'
<1> DEFINE call == [op |-> op, phase |-> "statement", token |-> token,
                    revision |-> revision, now |-> clock]
<1>1. call \in Call /\ call.now = clock /\ clock \in Nat
  BY DEF Inv, TypeOK, Call
<1>2. calls' = [calls EXCEPT ![c] = call]
  BY DEF Started
<1> HIDE DEF call
<1>3. calls' \in [Clients -> Call] /\ \A d \in Clients : calls'[d].now <= clock
  BY <1>1, <1>2 DEF Inv, TypeOK, SampledBefore
<1>4. UNCHANGED <<clock, row, releases, issued>> /\ answer' = "none"
  BY DEF Started
<1> QED
  BY <1>3, <1>4 DEF Inv, TypeOK, SampledBefore, Answers

\* A call that ends leaves its client idle.
LEMMA IdleInv ==
  ASSUME Inv, NEW c \in Clients, calls' = [calls EXCEPT ![c] = Idle],
         UNCHANGED clock
  PROVE  /\ calls' \in [Clients -> Call]
         /\ \A d \in Clients : calls'[d].now <= clock'
BY IdleType DEF Inv, TypeOK, SampledBefore

\* A call that is refused changes no row.
LEMMA RejectedInv ==
  ASSUME Inv, NEW err \in Answers, Rejected(err)
  PROVE  Inv'
BY DEF Inv, TypeOK, SampledBefore, Rejected

\* The outcomes that a rejected statement is explained with.
LEMMA ErrorTypes ==
  ASSUME NEW call
  PROVE  AcquisitionError(call) \in {"exhausted", "busy"}
         /\ WriteError(call) \in {"fenced", "exists", "notfound", "conflict"}
BY DEF AcquisitionError, WriteError

\* Every step keeps the invariant.
LEMMA NextInv == ASSUME Inv, [Next]_vars PROVE Inv'
<1>1. /\ TypeOK /\ SampledBefore
  BY DEF Inv
<1>2. CASE UNCHANGED vars
  BY <1>1, <1>2 DEF vars, Inv, TypeOK, SampledBefore
<1>3. CASE Tick
  <2>1. clock' = clock + 1 /\ clock \in Nat
    BY <1>1, <1>3 DEF Tick, TypeOK
  <2>2. UNCHANGED <<row, calls, releases, issued>> /\ answer' = "none"
    BY <1>3 DEF Tick
  <2>3. \A c \in Clients : calls[c].now <= clock'
    BY <1>1, <2>1, Fields DEF SampledBefore
  <2> QED
    BY <1>1, <2>1, <2>2, <2>3 DEF Inv, TypeOK, SampledBefore, Answers
<1>4. ASSUME NEW c \in Clients, AcquireExecutionLease(c) PROVE Inv'
  BY <1>4, StartedInv, RejectedInv, SQLiteAssumption
  DEF AcquireExecutionLease, Answers
<1>5. ASSUME NEW c \in Clients, Unfenced(c) PROVE Inv'
  BY <1>5, RejectedInv DEF Unfenced, Answers
<1>6. ASSUME NEW c \in Clients, NEW token \in Tokens, RenewExecutionLease(c, token)
      PROVE  Inv'
  <2>1. CASE Rejected("required") \/ Rejected("invalid")
    BY <2>1, RejectedInv DEF Answers
  <2>2. CASE token \in 1..MaxInt /\ Started(c, "renew", token, 0)
    <3>1. token \in 0..MaxInt /\ "renew" \in Guarded
      BY <2>2, SQLiteAssumption DEF Guarded
    <3> QED
      BY <2>2, <3>1, StartedInv
  <2> QED
    BY <1>6, <2>1, <2>2 DEF RenewExecutionLease
<1>7. ASSUME NEW c \in Clients, NEW token \in Tokens, NEW op \in {"create", "save"},
             NEW revision \in Revisions, writeFenced(c, op, token, revision)
      PROVE  Inv'
  <2>1. CASE Rejected("required") \/ Rejected("invalid")
    BY <2>1, RejectedInv DEF Answers
  <2>2. CASE /\ revision \in 0..MaxInt /\ token \in 1..MaxInt
             /\ Started(c, op, token, revision)
    <3>1. token \in 0..MaxInt /\ revision \in Nat /\ op \in Guarded
      BY <2>2, SQLiteAssumption DEF Guarded
    <3> QED
      BY <2>2, <3>1, StartedInv
  <2> QED
    BY <1>7, <2>1, <2>2 DEF writeFenced
<1>8. ASSUME NEW c \in Clients, NEW token \in releases, Release(c, token)
      PROVE  Inv'
  <2> DEFINE call == [Idle EXCEPT !.op = "release", !.token = token]
  <2>1. token \in 0..MaxInt
    BY <1>1, Fields, SQLiteAssumption DEF TypeOK
  <2>2. call \in Call /\ call.now = 0
    BY <2>1, IdleType DEF Call
  <2>3. calls' = [calls EXCEPT ![c] = call] /\ releases' \subseteq releases
    BY <1>8 DEF Release
  <2> HIDE DEF call
  <2>4. UNCHANGED <<clock, row, issued>> /\ answer' = "none"
    BY <1>8 DEF Release
  <2> QED
    BY <1>1, <2>2, <2>3, <2>4 DEF Inv, TypeOK, SampledBefore, Answers
<1>9. ASSUME NEW c \in Clients, StatementApplies(c) PROVE Inv'
  <2>1. /\ row' \in Row
        /\ row'.token = IF At(c, "acquire") THEN row.token + 1 ELSE row.token
    BY <1>1, <1>9, UpdatedRow DEF StatementApplies
  <2>2. calls' = [calls EXCEPT ![c] = Idle] /\ answer' = "ok" /\ UNCHANGED clock
    BY <1>9 DEF StatementApplies, Finished
  <2>3. IF At(c, "acquire")
        THEN issued' = row'.token /\ releases' = releases \cup {row'.token}
        ELSE UNCHANGED <<issued, releases>>
    BY <1>9 DEF StatementApplies
  <2>4. issued' \in 0..row'.token /\ releases' \subseteq 1..issued'
    <3>1. /\ row.token \in Nat /\ issued \in Nat /\ issued <= row.token
          /\ releases \subseteq 1..issued
      BY <1>1, Fields DEF TypeOK
    <3>2. CASE At(c, "acquire")
      <4>1. row'.token = row.token + 1 /\ issued' = row'.token
        BY <2>1, <2>3, <3>2
      <4>2. releases' = releases \cup {row'.token}
        BY <2>3, <3>2
      <4>3. issued' \in Nat /\ row'.token \in 1..issued' /\ issued <= issued'
        BY <3>1, <4>1
      <4>4. 1..issued \subseteq 1..issued'
        BY <3>1, <4>3
      <4>5. releases' \subseteq 1..issued'
        BY <3>1, <4>2, <4>3, <4>4, Zenon
      <4>6. issued' \in 0..row'.token
        BY <4>1, <4>3
      <4> QED
        BY <4>5, <4>6
    <3>3. CASE ~At(c, "acquire")
      <4>1. row'.token = row.token /\ UNCHANGED <<issued, releases>>
        BY <2>1, <2>3, <3>3
      <4>2. issued' \in 0..row'.token
        BY <3>1, <4>1
      <4> QED
        BY <3>1, <4>1, <4>2
    <3> QED
      BY <3>2, <3>3
  <2> QED
    BY <1>1, <2>1, <2>2, <2>4, IdleInv DEF Inv, TypeOK, SampledBefore, Answers
<1>10. ASSUME NEW c \in Clients, StatementRejects(c) PROVE Inv'
  <2>1. UNCHANGED <<clock, row, releases, issued>>
    BY <1>10 DEF StatementRejects
  <2>2. CASE Finished(c, "fenced") \/ Finished(c, "ok")
    BY <1>1, <2>1, <2>2, IdleInv DEF Finished, Inv, TypeOK, SampledBefore, Answers
  <2>3. CASE calls' = [calls EXCEPT ![c].phase = "classify"] /\ answer' = "none"
    <3>1. calls' \in [Clients -> Call] /\ \A d \in Clients : calls'[d].now = calls[d].now
      BY <1>1, <2>3 DEF TypeOK, Call
    <3> QED
      BY <1>1, <2>1, <2>3, <3>1 DEF Inv, TypeOK, SampledBefore, Answers
  <2> QED
    BY <1>10, <2>2, <2>3 DEF StatementRejects
<1>11. ASSUME NEW c \in Clients, CallBreaks(c) PROVE Inv'
  <2>1. row' \in Row /\ row'.token \in {row.token, row.token + 1}
    BY <1>1, <1>11, UpdatedRow DEF CallBreaks, TypeOK
  <2>2. /\ UNCHANGED <<clock, releases, issued>> /\ answer' = "store"
        /\ calls' = [calls EXCEPT ![c] = Idle]
    BY <1>11 DEF CallBreaks, Finished
  <2>3. issued' \in 0..row'.token
    BY <1>1, <2>1, <2>2, Fields DEF TypeOK
  <2> QED
    BY <1>1, <2>1, <2>2, <2>3, IdleInv DEF Inv, TypeOK, SampledBefore, Answers
<1>12. ASSUME NEW c \in Clients, Classify(c) PROVE Inv'
  <2>1. UNCHANGED <<clock, row, releases, issued>> /\ calls' = [calls EXCEPT ![c] = Idle]
    BY <1>12 DEF Classify, Finished
  <2>2. answer' \in Answers
    BY <1>12, ErrorTypes DEF Classify, Finished, Answers
  <2> QED
    BY <1>1, <2>1, <2>2, IdleInv DEF Inv, TypeOK, SampledBefore
<1> QED
  BY <1>2, <1>3, <1>4, <1>5, <1>6, <1>7, <1>8, <1>9, <1>10, <1>11, <1>12 DEF Next

\* The types hold, no acquisition returned a token above the row's, and every
\* waiting call read its clock in the past.
THEOREM InvHolds == Spec => []Inv
BY InitInv, NextInv, PTL DEF Spec

-----------------------------------------------------------------------------
(* What a step may do to the row.                                          *)

\* A step changes the calls of one client, and the row only by its statement.
LEMMA RowStep ==
  ASSUME TypeOK, [Next]_vars
  PROVE  \/ row' = row
         \/ \E c \in Clients : Applied(c)
<1>1. ASSUME NEW c \in Clients, StatementApplies(c) \/ CallBreaks(c)
      PROVE  row' = row \/ Applied(c)
  BY <1>1 DEF StatementApplies, CallBreaks, Finished, Applied
<1>2. ASSUME NEW c \in Clients,
             \/ AcquireExecutionLease(c) \/ Unfenced(c) \/ StatementRejects(c)
             \/ Classify(c)
             \/ \E token \in releases : Release(c, token)
             \/ \E token \in Tokens :
                  \/ RenewExecutionLease(c, token)
                  \/ \E op \in {"create", "save"}, revision \in Revisions :
                       writeFenced(c, op, token, revision)
      PROVE  row' = row
  BY <1>2 DEF AcquireExecutionLease, Unfenced, StatementRejects, Classify, Release,
              RenewExecutionLease, writeFenced, Started, Rejected
<1>3. Tick \/ UNCHANGED vars => row' = row
  BY DEF Tick, vars
<1> QED
  BY <1>1, <1>2, <1>3 DEF Next

\* A statement finds the row as its WHERE clause asks, and sets its columns.
LEMMA AppliedRow ==
  ASSUME TypeOK, NEW c \in Clients, Applied(c)
  PROVE  \/ /\ At(c, "acquire") /\ CanAcquire(calls[c])
            /\ row'.token = row.token + 1
            /\ row'.revision = row.revision /\ row'.author = row.author
         \/ /\ calls[c].op \in {"renew", "release"} /\ row.token = calls[c].token
            /\ row'.token = row.token
            /\ row'.revision = row.revision /\ row'.author = row.author
         \/ /\ calls[c].op \in {"create", "save"} /\ CanWrite(calls[c])
            /\ row'.token = row.token /\ row'.expires = row.expires
            /\ row'.revision = calls[c].revision /\ row'.author = c
<1> DEFINE call == calls[c]
<1>1. call.op \in {"acquire", "renew", "create", "save", "release"} /\ row \in Row
  BY Fields DEF Applied, Waiting, At, Guarded, TypeOK
<1>2. Applies(call) /\ row' = Updated(c, call)
  BY DEF Applied
<1>3. CASE call.op = "acquire"
  BY <1>1, <1>2, <1>3 DEF Applies, Updated, Row, At
<1>4. CASE call.op \in {"renew", "release"}
  BY <1>1, <1>2, <1>4 DEF Applies, Updated, Row, CanTouch
<1>5. CASE call.op \in {"create", "save"}
  BY <1>1, <1>2, <1>5 DEF Applies, Updated, Row
<1> QED
  BY <1>1, <1>3, <1>4, <1>5

\* A lease changes hands only after it expired or was released, and then by a
\* new generation, although the statement compares the row with a clock sample
\* that is older than the wait for the database lock (sqlite_store.go:
\* AcquireExecutionLease).
THEOREM SQLiteTakeover == Spec => TakeoverAfterExpiry
<1>1. ASSUME Inv, [Next]_vars
      PROVE  row'.token # row.token => ~InForce /\ row'.token = row.token + 1
  <2> SUFFICES ASSUME row'.token # row.token
               PROVE  ~InForce /\ row'.token = row.token + 1
    OBVIOUS
  <2>1. TypeOK /\ SampledBefore
    BY <1>1 DEF Inv
  <2>2. PICK c \in Clients : Applied(c)
    BY <1>1, <2>1, RowStep
  <2>3. CanAcquire(calls[c]) /\ row'.token = row.token + 1
    BY <2>1, <2>2, AppliedRow
  <2>4. calls[c].now <= clock /\ calls[c].now \in Nat /\ clock \in Nat
    BY <2>1, Fields DEF SampledBefore, TypeOK
  <2> QED
    BY <2>1, <2>3, <2>4, Fields DEF CanAcquire, InForce
<1>2. Inv /\ [Next]_vars =>
        [row'.token # row.token => ~InForce /\ row'.token = row.token + 1]_vars
  BY <1>1
<1> QED
  BY <1>2, InvHolds, PTL DEF Spec, TakeoverAfterExpiry

\* A call in flight ends by one of the four steps of its own client that end it.
LEMMA EndStep ==
  ASSUME TypeOK, [Next]_vars, NEW c \in Clients, ~At(c, "idle"), calls'[c] = Idle
  PROVE  StatementApplies(c) \/ StatementRejects(c) \/ CallBreaks(c) \/ Classify(c)
<1>1. calls'[c] # calls[c] /\ calls'[c].op = "idle" /\ calls \in [Clients -> Call]
  BY DEF At, Idle, TypeOK
<1>2. ~ (Tick \/ UNCHANGED vars)
  BY <1>1 DEF Tick, vars
<1>3. ASSUME NEW d \in Clients,
             StatementApplies(d) \/ StatementRejects(d) \/ CallBreaks(d) \/ Classify(d)
      PROVE  d = c
  BY <1>1, <1>3 DEF StatementApplies, StatementRejects, CallBreaks, Classify, Finished
<1>4. ASSUME NEW d \in Clients, NEW op \in Guarded \cup {"acquire"}, NEW token,
             NEW revision, Started(d, op, token, revision), At(d, "idle")
      PROVE  FALSE
  BY <1>1, <1>4 DEF Started, At
<1>5. ASSUME NEW err, Rejected(err) PROVE FALSE
  BY <1>1, <1>5 DEF Rejected
<1>6. ASSUME NEW d \in Clients, NEW token, Release(d, token) PROVE FALSE
  BY <1>1, <1>6 DEF Release, At
<1>7. ASSUME NEW d \in Clients, AcquireExecutionLease(d) \/ Unfenced(d) PROVE FALSE
  BY <1>4, <1>5, <1>7 DEF AcquireExecutionLease, Unfenced
<1>8. ASSUME NEW d \in Clients, NEW token, RenewExecutionLease(d, token) PROVE FALSE
  BY <1>4, <1>5, <1>8 DEF RenewExecutionLease, Guarded
<1>9. ASSUME NEW d \in Clients, NEW token, NEW op \in {"create", "save"}, NEW revision,
             writeFenced(d, op, token, revision)
      PROVE  FALSE
  BY <1>4, <1>5, <1>9 DEF writeFenced, Guarded
<1> QED
  BY <1>2, <1>3, <1>6, <1>7, <1>8, <1>9 DEF Next

\* An acquisition that returns a token returns one above all that were returned
\* before, whatever acquisitions were committed for callers that saw an error
\* (sqlite_store.go: RETURNING fencing_token).
THEOREM SQLiteTokensFresh == Spec => TokensFresh
<1>1. ASSUME Inv, [Next]_vars, NEW c \in Clients,
             At(c, "acquire"), calls'[c] = Idle, answer' = "ok"
      PROVE  issued < row'.token
  <2>1. TypeOK /\ ~At(c, "idle")
    BY <1>1 DEF Inv, At
  <2>2. StatementApplies(c)
    <3>1. ~CallBreaks(c)
      BY <1>1 DEF CallBreaks, Finished
    <3>2. ~Classify(c)
      BY <1>1, ErrorTypes DEF Classify, Finished
    <3>3. ~StatementRejects(c)
      BY <1>1 DEF StatementRejects, Finished, At
    <3> QED
      BY <1>1, <2>1, <3>1, <3>2, <3>3, EndStep
  <2>3. row'.token = row.token + 1
    BY <1>1, <2>1, <2>2, UpdatedRow DEF StatementApplies
  <2> QED
    BY <2>1, <2>3, Fields DEF TypeOK
<1>2. Inv /\ [Next]_vars =>
        [\A c \in Clients : At(c, "acquire") /\ calls'[c] = Idle /\ answer' = "ok"
           => issued < row'.token]_vars
  BY <1>1
<1> QED
  BY <1>2, InvHolds, PTL DEF Spec, TokensFresh

\* A call that carries a superseded token leaves the row alone, at whatever
\* point the newer owner acquired (sqlite_store.go: RenewExecutionLease,
\* writeFenced, the release function).
THEOREM SQLiteStaleTokenPowerless == Spec => StaleTokenPowerless
<1>1. ASSUME Inv, [Next]_vars, NEW c \in Clients,
             calls[c].op \in Guarded \cup {"release"},
             calls[c].token < row.token, calls'[c] # calls[c]
      PROVE  row' = row
  <2>1. TypeOK /\ calls \in [Clients -> Call]
    BY <1>1 DEF Inv, TypeOK
  <2>2. ASSUME NEW d \in Clients, Applied(d) PROVE FALSE
    <3>1. d = c
      BY <1>1, <2>1, <2>2 DEF Applied
    <3>2. row.token = calls[c].token
      BY <1>1, <2>1, <2>2, <3>1, AppliedRow DEF At, Guarded, CanWrite, CanTouch
    <3> QED
      BY <1>1, <2>1, <3>2, Fields
  <2> QED
    BY <1>1, <2>1, <2>2, RowStep
<1>2. Inv /\ [Next]_vars =>
        [\A c \in Clients :
           /\ calls[c].op \in Guarded \cup {"release"}
           /\ calls[c].token < row.token
           /\ calls'[c] # calls[c]
           => row' = row]_vars
  BY <1>1
<1> QED
  BY <1>2, InvHolds, PTL DEF Spec, StaleTokenPowerless

\* A stored checkpoint is replaced by a save of a larger revision only, which
\* leaves the lease columns alone (sqlite_store.go: writeFenced).
THEOREM SQLiteCheckpointAdvances == Spec => CheckpointAdvances
<1>1. ASSUME Inv, [Next]_vars, row.author # NoClient,
             <<row'.revision, row'.author>> # <<row.revision, row.author>>
      PROVE  /\ row'.author # NoClient
             /\ row.revision > 0 => row'.revision > row.revision
             /\ row'.token = row.token /\ row'.expires = row.expires
  <2>1. TypeOK
    BY <1>1 DEF Inv
  <2>2. PICK c \in Clients : Applied(c)
    BY <1>1, <2>1, RowStep
  <2>3. /\ calls[c].op \in {"create", "save"} /\ CanWrite(calls[c])
        /\ row'.token = row.token /\ row'.expires = row.expires
        /\ row'.revision = calls[c].revision /\ row'.author = c
    BY <1>1, <2>1, <2>2, AppliedRow
  <2>4. row.revision = 0 \/ calls[c].revision > row.revision
    BY <1>1, <2>3 DEF CanWrite
  <2> QED
    BY <2>3, <2>4, SQLiteAssumption
<1>2. Inv /\ [Next]_vars =>
        [/\ row.author # NoClient
         /\ <<row'.revision, row'.author>> # <<row.revision, row.author>>
         => /\ row'.author # NoClient
            /\ row.revision > 0 => row'.revision > row.revision
            /\ row'.token = row.token /\ row'.expires = row.expires]_vars
  BY <1>1
<1> QED
  BY <1>2, InvHolds, PTL DEF Spec, CheckpointAdvances

\* A writer whose token was superseded before the second read is told that it
\* is fenced, if it is told anything (sqlite_store.go: classifyFencedWrite).
THEOREM SQLiteSupersededToldFenced == Spec => SupersededWriterToldFenced
<1>1. ASSUME Inv, [Next]_vars, NEW c \in Clients,
             calls[c].op \in {"create", "save"}, calls[c].phase = "classify",
             calls[c].token < row.token, calls'[c] = Idle
      PROVE  answer' \in {"fenced", "store"}
  <2>1. TypeOK /\ ~At(c, "idle") /\ ~Waiting(c)
    BY <1>1 DEF Inv, At, Waiting
  <2>2. CASE CallBreaks(c)
    BY <2>2 DEF CallBreaks, Finished
  <2>3. CASE Classify(c)
    <3>1. ~CanTouch(calls[c])
      BY <1>1, <2>1, Fields DEF CanTouch
    <3>2. WriteError(calls[c]) = "fenced"
      BY <3>1 DEF WriteError
    <3> QED
      BY <1>1, <2>3, <3>2 DEF Classify, Finished, At
  <2> QED
    BY <1>1, <2>1, <2>2, <2>3, EndStep DEF StatementApplies, StatementRejects
<1>2. Inv /\ [Next]_vars =>
        [\A c \in Clients :
           /\ calls[c].op \in {"create", "save"}
           /\ calls[c].phase = "classify"
           /\ calls[c].token < row.token
           /\ calls'[c] = Idle
           => answer' \in {"fenced", "store"}]_vars
  BY <1>1
<1> QED
  BY <1>2, InvHolds, PTL DEF Spec, SupersededWriterToldFenced
=============================================================================
