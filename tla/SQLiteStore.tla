----------------------------- MODULE SQLiteStore -----------------------------
(***************************************************************************)
(* SQLiteCheckpointStore (sqlite_store.go), seen from one execution: its   *)
(* row, and the calls that several processes have in flight.               *)
(*                                                                         *)
(* A call samples the clock, then executes one statement, and a rejected   *)
(* one reads the row again to say why.  Each statement is atomic (that is  *)
(* SQLite's promise), but it may wait for the database lock: between the   *)
(* sample, the statement and the second read anything can happen.  Callers *)
(* are unconstrained; a caller is one goroutine, so a renewal and a save   *)
(* of the same owner are calls of two clients.                             *)
(***************************************************************************)
EXTENDS Integers

CONSTANTS
  Clients,        \* goroutines of any process that has the database open
  NoClient,       \* nobody: the author of the NULL checkpoint
  LeaseDuration,
  MaxInt,         \* the largest SQLite integer: 2^63 - 1 in the code
  MaxInstant,     \* the largest time the clock's 64 bits can express
  MaxRevision,    \* bound: no checkpoint offered has a larger revision
  MaxTime         \* bound: the clock stops here

ASSUME SQLiteAssumption ==
  /\ NoClient \notin Clients
  /\ LeaseDuration \in Nat \ {0}
  /\ MaxInt \in Nat \ {0}
  /\ MaxInstant \in Nat
  /\ MaxRevision \in Nat
  /\ MaxTime \in Nat

VARIABLES
  clock,     \* the host's clock
  row,       \* the row of the execution; fencing_token 0 if there is none
  calls,     \* calls[c]: the call client c has in flight
  releases,  \* tokens whose release function was not called yet
  issued,    \* history: the largest token that an acquisition returned
  answer     \* what the call that ended in the last step returned, or "none"

vars == <<clock, row, calls, releases, issued, answer>>

\* One more than the largest token and revision can be offered: both are
\* unsigned in the interfaces and signed in the table.
Tokens == 0..(MaxInt + 1)

\* A checkpoint is offered by its revision; Invalid stands for one that
\* validateCheckpoint rejects.
Invalid == -1
Revisions == {Invalid} \cup 0..MaxRevision

\* author stands for the contents of checkpoint_json; NoClient is NULL.
Row == [token : 0..MaxInt, expires : Nat, revision : Nat,
        author : Clients \cup {NoClient}]

Guarded == {"renew", "create", "save"}

Idle == [op |-> "idle", phase |-> "statement", token |-> 0, revision |-> 0,
         now |-> 0]

Call == [op : Guarded \cup {"idle", "acquire", "release"},
         phase : {"statement", "classify"}, token : 0..MaxInt, revision : Nat,
         now : Nat]

Answers == {"none", "ok", "busy", "exhausted", "fenced", "required", "invalid",
            "exists", "notfound", "conflict", "context", "store"}

Init ==
  /\ clock = 0
  /\ row = [token |-> 0, expires |-> 0, revision |-> 0, author |-> NoClient]
  /\ calls = [c \in Clients |-> Idle]
  /\ releases = {}
  /\ issued = 0
  /\ answer = "none"

-----------------------------------------------------------------------------
(* Starting a call.                                                        *)

At(c, op) == calls[c].op = op

\* The call returns before it touches the database.
Rejected(err) ==
  /\ answer' = err
  /\ UNCHANGED <<clock, row, calls, releases, issued>>

\* The arguments are fine: the clock is sampled and the statement follows.
Started(c, op, token, revision) ==
  /\ calls' = [calls EXCEPT ![c] =
                 [op |-> op, phase |-> "statement", token |-> token,
                  revision |-> revision, now |-> clock]]
  /\ answer' = "none"
  /\ UNCHANGED <<clock, row, releases, issued>>

\* now > math.MaxInt64 - delta
DeadlineOverflows == clock > MaxInstant - LeaseDuration

AcquireExecutionLease(c) ==
  /\ At(c, "idle")
  /\ \/ DeadlineOverflows /\ Rejected("invalid")
     \/ ~DeadlineOverflows /\ Started(c, "acquire", 0, 0)

RenewExecutionLease(c, token) ==
  /\ At(c, "idle")
  /\ \/ token = 0 /\ Rejected("required")
     \/ token > MaxInt /\ Rejected("invalid")
     \/ /\ token \in 1..MaxInt
        /\ \/ DeadlineOverflows /\ Rejected("invalid")
           \/ ~DeadlineOverflows /\ Started(c, "renew", token, 0)

\* CreateFenced and SaveFenced.
writeFenced(c, op, token, revision) ==
  /\ At(c, "idle")
  /\ \/ revision = Invalid /\ Rejected("invalid")
     \/ revision # Invalid /\ token = 0 /\ Rejected("required")
     \/ /\ revision # Invalid /\ token # 0
        /\ token > MaxInt \/ revision > MaxInt
        /\ Rejected("invalid")
     \/ /\ revision \in 0..MaxInt /\ token \in 1..MaxInt
        /\ Started(c, op, token, revision)

\* The release function of an acquisition; it acts once.
Release(c, token) ==
  /\ At(c, "idle")
  /\ token \in releases
  /\ releases' = releases \ {token}
  /\ calls' = [calls EXCEPT ![c] = [Idle EXCEPT !.op = "release",
                                               !.token = token]]
  /\ answer' = "none"
  /\ UNCHANGED <<clock, row, issued>>

\* Create and Save without a token, a done context, and Load, which is one
\* statement and changes nothing.
Unfenced(c) ==
  /\ At(c, "idle")
  /\ \/ Rejected("required")
     \/ Rejected("context")
     \/ Rejected(IF row.author = NoClient THEN "notfound" ELSE "ok")

-----------------------------------------------------------------------------
(* The statements.                                                         *)

\* Mutant of CanAcquire: the row is compared with the new deadline.
CanAcquireEarly(call) ==
  /\ row.expires < call.now + LeaseDuration
  /\ row.token < MaxInt

\* INSERT, or ON CONFLICT DO UPDATE ... WHERE.
CanAcquire(call) ==
  \/ row.token = 0
  \/ row.expires <= call.now /\ row.token < MaxInt

\* Mutant of CanTouch: the statement does not mention the token.
CanTouchAny(call) == row.token # 0 /\ row.expires > call.now

\* WHERE fencing_token = ? AND lease_expires_unix_ns > ?
CanTouch(call) == row.token = call.token /\ row.expires > call.now

\* Mutant of CanWrite: an equal revision is accepted.
CanWriteEqual(call) ==
  /\ CanTouch(call)
  /\ call.op = "create" => row.author = NoClient
  /\ call.op = "save" =>
       /\ row.author # NoClient
       /\ row.revision = 0 \/ call.revision >= row.revision

CanWrite(call) ==
  /\ CanTouch(call)
  /\ call.op = "create" => row.author = NoClient
  /\ call.op = "save" =>
       /\ row.author # NoClient
       /\ row.revision = 0 \/ call.revision > row.revision

\* The statement of call applies to the row ...
Applies(call) ==
  \/ call.op = "acquire" /\ CanAcquire(call)
  \/ call.op = "renew" /\ CanTouch(call)
  \/ call.op \in {"create", "save"} /\ CanWrite(call)
  \/ call.op = "release" /\ row.token = call.token

\* Mutant of Updated: a new owner starts with the token of the last one.
UpdatedSameToken(c, call) ==
  CASE call.op = "acquire" -> [row EXCEPT !.token = 1,
                                          !.expires = call.now + LeaseDuration]
    [] call.op = "renew" -> [row EXCEPT !.expires = call.now + LeaseDuration]
    [] call.op \in {"create", "save"} ->
         [row EXCEPT !.revision = call.revision, !.author = c]
    [] call.op = "release" -> [row EXCEPT !.expires = 0]

\* ... and makes it this.
Updated(c, call) ==
  CASE call.op = "acquire" -> [row EXCEPT !.token = @ + 1,
                                          !.expires = call.now + LeaseDuration]
    [] call.op = "renew" -> [row EXCEPT !.expires = call.now + LeaseDuration]
    [] call.op \in {"create", "save"} ->
         [row EXCEPT !.revision = call.revision, !.author = c]
    [] call.op = "release" -> [row EXCEPT !.expires = 0]

Waiting(c) == ~At(c, "idle") /\ calls[c].phase = "statement"

Finished(c, err) ==
  /\ calls' = [calls EXCEPT ![c] = Idle]
  /\ answer' = err

StatementApplies(c) ==
  /\ Waiting(c)
  /\ Applies(calls[c])
  /\ row' = Updated(c, calls[c])
  /\ Finished(c, "ok")
  /\ IF At(c, "acquire")
     THEN issued' = row'.token /\ releases' = releases \cup {row'.token}
     ELSE UNCHANGED <<issued, releases>>
  /\ UNCHANGED clock

\* No row was affected.  A renewal is fenced and a release is done; the others
\* ask why.
StatementRejects(c) ==
  /\ Waiting(c)
  /\ ~Applies(calls[c])
  /\ \/ At(c, "renew") /\ Finished(c, "fenced")
     \/ At(c, "release") /\ Finished(c, "ok")
     \/ /\ calls[c].op \in {"acquire", "create", "save"}
        /\ calls' = [calls EXCEPT ![c].phase = "classify"]
        /\ answer' = "none"
  /\ UNCHANGED <<clock, row, releases, issued>>

\* The database is locked for too long, the context ends, the process dies; the
\* statement may have been committed all the same.
CallBreaks(c) ==
  /\ ~At(c, "idle")
  /\ Finished(c, "store")
  /\ row' = row \/ (Waiting(c) /\ Applies(calls[c]) /\ row' = Updated(c, calls[c]))
  /\ UNCHANGED <<clock, releases, issued>>

\* classifyLeaseAcquisition: a lease that was released meanwhile is busy too.
AcquisitionError(call) ==
  IF row.expires <= call.now /\ row.token = MaxInt THEN "exhausted" ELSE "busy"

\* Mutant of WriteError: the fence is looked at last.
WriteErrorFenceLast(call) ==
  CASE call.op = "create" /\ row.author # NoClient -> "exists"
    [] call.op = "save" /\ row.author = NoClient -> "notfound"
    [] OTHER -> "fenced"

\* classifyFencedWrite.
WriteError(call) ==
  CASE ~CanTouch(call) -> "fenced"
    [] CanTouch(call) /\ call.op = "create" /\ row.author # NoClient -> "exists"
    [] CanTouch(call) /\ call.op = "save" /\ row.author = NoClient -> "notfound"
    [] OTHER -> "conflict"

Classify(c) ==
  /\ calls[c].phase = "classify"
  /\ Finished(c, IF At(c, "acquire") THEN AcquisitionError(calls[c])
                 ELSE WriteError(calls[c]))
  /\ UNCHANGED <<clock, row, releases, issued>>

Tick ==
  /\ clock < MaxTime
  /\ clock' = clock + 1
  /\ answer' = "none"
  /\ UNCHANGED <<row, calls, releases, issued>>

Next ==
  \/ Tick
  \/ \E c \in Clients :
       \/ AcquireExecutionLease(c) \/ Unfenced(c)
       \/ StatementApplies(c) \/ StatementRejects(c) \/ CallBreaks(c)
       \/ Classify(c)
       \/ \E token \in releases : Release(c, token)
       \/ \E token \in Tokens :
            \/ RenewExecutionLease(c, token)
            \/ \E op \in {"create", "save"}, revision \in Revisions :
                 writeFenced(c, op, token, revision)

Spec == Init /\ [][Next]_vars

-----------------------------------------------------------------------------
(* Properties.                                                             *)

TypeOK ==
  /\ clock \in Nat
  /\ row \in Row
  /\ calls \in [Clients -> Call]
  /\ releases \subseteq 1..issued
  /\ issued \in 0..row.token
  /\ answer \in Answers

InForce == row.token > 0 /\ row.expires > clock

\* A statement that waited behind other processes never takes a lease that is
\* in force when it executes, although it compares the row with a clock it read
\* before it waited (AcquireExecutionLease); a takeover is a new generation.
TakeoverAfterExpiry == [][row'.token # row.token =>
                            ~InForce /\ row'.token = row.token + 1]_vars

\* Every acquisition that returns, returns a token above all earlier ones, also
\* with acquisitions committed behind the back of a caller that saw an error,
\* and up to the limit of the integer type.
TokensFresh ==
  [][\A c \in Clients :
       At(c, "acquire") /\ calls'[c] = Idle /\ answer' = "ok"
       => issued < row'.token]_vars

\* A statement carrying a superseded token changes nothing, even if it was
\* checked and sent before the newer owner acquired (writeFenced,
\* RenewExecutionLease, release).
StaleTokenPowerless ==
  [][\A c \in Clients :
       /\ calls[c].op \in Guarded \cup {"release"}
       /\ calls[c].token < row.token
       /\ calls'[c] # calls[c]
       => row' = row]_vars

\* The stored checkpoint only advances: of two writers that computed the same
\* revision one is stored, and nothing but a write touches the checkpoint.
CheckpointAdvances ==
  [][/\ row.author # NoClient
     /\ <<row'.revision, row'.author>> # <<row.revision, row.author>>
     => /\ row'.author # NoClient
        /\ row.revision > 0 => row'.revision > row.revision
        /\ row'.token = row.token /\ row'.expires = row.expires]_vars

\* A writer that lost its lease to a newer owner is told that it is fenced, not
\* that its revision conflicts or that the execution exists, whatever happened
\* between its statement and the second read (classifyFencedWrite).
SupersededWriterToldFenced ==
  [][\A c \in Clients :
       /\ calls[c].op \in {"create", "save"}
       /\ calls[c].phase = "classify"
       /\ calls[c].token < row.token
       /\ calls'[c] = Idle
       => answer' \in {"fenced", "store"}]_vars
=============================================================================
