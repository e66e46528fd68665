--------------------------- MODULE MemoryLeaseStore ---------------------------
(***************************************************************************)
(* MemoryLeaseStore (memory_lease_store.go): expiring leases with fencing  *)
(* tokens and the checkpoints written under them, for many executions.     *)
(*                                                                         *)
(* Every operation runs under the store's mutex and samples the clock      *)
(* there, so each is one action.  Its callers are unconstrained: any       *)
(* worker may call anything with any token at any time, as a stale worker, *)
(* a late renewal or a forgotten release would.  A checkpoint is what the  *)
(* store looks at: whether it validates, and its revision.                 *)
(***************************************************************************)
EXTENDS Integers

CONSTANTS
  Executions,
  LeaseDuration,
  MaxToken,      \* the largest fencing token: 2^64 - 1 in the code
  MaxRevision,   \* bound: no checkpoint offered has a larger revision
  MaxTime,       \* bound: the clock stops here
  NoLease,       \* no entry in the lease map
  NoRecord,      \* no entry in the record map
  NoExecution    \* the empty execution ID

ASSUME StoreAssumption ==
  /\ LeaseDuration \in Nat \ {0}
  /\ MaxToken \in Nat
  /\ MaxRevision \in Nat
  /\ MaxTime \in Nat
  /\ NoExecution \notin Executions
  /\ NoLease \notin [token : Nat, expiresAt : Nat]
  /\ NoRecord \notin Nat

VARIABLES
  now,        \* the store's clock
  records,    \* records[e]: the revision of the stored checkpoint, or NoRecord
  leases,     \* leases[e]: the lease entry, or NoLease; it may have expired
  lastToken,  \* the last token issued for e, 0 for none
  releases,   \* release functions handed out and not yet called
  issued,     \* history: the tokens acquisitions returned
  reply       \* the last call: which, for whom, with which token, its error

storeVars == <<records, leases, lastToken, releases, issued>>
vars == <<now, storeVars, reply>>

Tokens == 0..MaxToken

\* What callers offer.  The revision of an invalid checkpoint is never read.
Checkpoints == [valid : {TRUE}, revision : 0..MaxRevision]
                 \cup {[valid |-> FALSE, revision |-> 0]}

Lease == [token : Tokens, expiresAt : Nat]

Release == [execution : Executions, token : Tokens]

Calls == {"none", "acquire", "release", "renew", "create", "save", "plain",
          "load"}

Errors == {"ok", "busy", "exhausted", "fenced", "required", "invalid",
           "exists", "notfound", "conflict", "context"}

Init ==
  /\ now = 0
  /\ records = [e \in Executions |-> NoRecord]
  /\ leases = [e \in Executions |-> NoLease]
  /\ lastToken = [e \in Executions |-> 0]
  /\ releases = {}
  /\ issued = [e \in Executions |-> {}]
  /\ reply = [call |-> "none", execution |-> NoExecution, token |-> 0,
              err |-> "ok"]

Reply(call, e, token, err) ==
  reply' = [call |-> call, execution |-> e, token |-> token, err |-> err]

\* The call changes nothing but its caller's knowledge.
Answer(call, e, token, err) ==
  Reply(call, e, token, err) /\ UNCHANGED <<now, storeVars>>

\* now.Before(lease.expiresAt)
InForce(e) == leases[e] # NoLease /\ now < leases[e].expiresAt

\* Mutant of Holds: an expired entry still counts.
HoldsExpired(e, token) == leases[e] # NoLease /\ leases[e].token = token

\* The fence of renewals and writes.
Holds(e, token) == InForce(e) /\ leases[e].token = token

-----------------------------------------------------------------------------
(* Operations.                                                             *)

\* Token arithmetic is unsigned and wraps to zero.
NextToken(e) == (lastToken[e] + 1) % (MaxToken + 1)

\* Mutant of AcquireExecutionLease: the token is counted from the lease entry,
\* which a release deletes.
AcquireFromEntry(e) ==
  LET token == IF leases[e] = NoLease THEN 1
               ELSE (leases[e].token + 1) % (MaxToken + 1)
  IN  /\ ~InForce(e)
      /\ token # 0
      /\ lastToken' = [lastToken EXCEPT ![e] = token]
      /\ leases' = [leases EXCEPT ![e] =
                      [token |-> token, expiresAt |-> now + LeaseDuration]]
      /\ releases' = releases \cup {[execution |-> e, token |-> token]}
      /\ issued' = [issued EXCEPT ![e] = @ \cup {token}]
      /\ Reply("acquire", e, token, "ok")
      /\ UNCHANGED <<now, records>>

AcquireExecutionLease(e) ==
  \/ InForce(e) /\ Answer("acquire", e, 0, "busy")
  \/ ~InForce(e) /\ NextToken(e) = 0 /\ Answer("acquire", e, 0, "exhausted")
  \/ /\ ~InForce(e)
     /\ NextToken(e) # 0
     /\ lastToken' = [lastToken EXCEPT ![e] = NextToken(e)]
     /\ leases' = [leases EXCEPT ![e] =
                     [token |-> NextToken(e), expiresAt |-> now + LeaseDuration]]
     /\ releases' = releases \cup {[execution |-> e, token |-> NextToken(e)]}
     /\ issued' = [issued EXCEPT ![e] = @ \cup {NextToken(e)}]
     /\ Reply("acquire", e, NextToken(e), "ok")
     /\ UNCHANGED <<now, records>>

\* Mutant of ReleaseExecutionLease: whatever lease is there is deleted.
ReleaseAnyLease(r) ==
  /\ r \in releases
  /\ releases' = releases \ {r}
  /\ leases' = [leases EXCEPT ![r.execution] = NoLease]
  /\ Reply("release", r.execution, r.token, "ok")
  /\ UNCHANGED <<now, records, lastToken, issued>>

\* The release function of one acquisition, which acts once.  An expired entry
\* is deleted too, unless a newer acquisition replaced it.
ReleaseExecutionLease(r) ==
  /\ r \in releases
  /\ releases' = releases \ {r}
  /\ leases' = IF leases[r.execution] # NoLease
                  /\ leases[r.execution].token = r.token
               THEN [leases EXCEPT ![r.execution] = NoLease]
               ELSE leases
  /\ Reply("release", r.execution, r.token, "ok")
  /\ UNCHANGED <<now, records, lastToken, issued>>

RenewExecutionLease(e, token) ==
  \/ token = 0 /\ Answer("renew", e, token, "required")
  \/ token # 0 /\ ~Holds(e, token) /\ Answer("renew", e, token, "fenced")
  \/ /\ token # 0
     /\ Holds(e, token)
     /\ leases' = [leases EXCEPT ![e].expiresAt = now + LeaseDuration]
     /\ Reply("renew", e, token, "ok")
     /\ UNCHANGED <<now, records, lastToken, releases, issued>>

\* The order in which writeFenced rejects a write.
WriteError(e, token, c, create) ==
  CASE ~c.valid -> "invalid"
    [] c.valid /\ token = 0 -> "required"
    [] c.valid /\ token # 0 /\ ~Holds(e, token) -> "fenced"
    [] c.valid /\ token # 0 /\ Holds(e, token) ->
         IF create
         THEN IF records[e] # NoRecord THEN "exists" ELSE "ok"
         ELSE IF records[e] = NoRecord THEN "notfound"
         ELSE IF records[e] > 0 /\ (c.revision = 0 \/ c.revision <= records[e])
         THEN "conflict" ELSE "ok"

writeFenced(e, token, c, create) ==
  LET err == WriteError(e, token, c, create)
  IN  /\ records' = IF err = "ok" THEN [records EXCEPT ![e] = c.revision]
                    ELSE records
      /\ Reply(IF create THEN "create" ELSE "save", e, token, err)
      /\ UNCHANGED <<now, leases, lastToken, releases, issued>>

CreateFenced(e, token, c) ==
  writeFenced(e, token, c, TRUE)

SaveFenced(e, token, c) ==
  writeFenced(e, token, c, FALSE)

\* Create and Save without a token are rejected.
PlainWrite(e) == Answer("plain", e, 0, "required")

Load(e) ==
  Answer("load", e, 0, IF records[e] = NoRecord THEN "notfound" ELSE "ok")

\* Every operation but a release first fails on a done context.
ContextDone(call, e) == Answer(call, e, 0, "context")

Tick ==
  /\ now < MaxTime
  /\ now' = now + 1
  /\ UNCHANGED <<storeVars, reply>>

Next ==
  \/ Tick
  \/ \E r \in releases : ReleaseExecutionLease(r)
  \/ \E e \in Executions :
       \/ AcquireExecutionLease(e)
       \/ PlainWrite(e)
       \/ Load(e)
       \/ \E call \in Calls \ {"none", "release"} : ContextDone(call, e)
       \/ \E token \in Tokens :
            \/ RenewExecutionLease(e, token)
            \/ \E c \in Checkpoints :
                 \/ CreateFenced(e, token, c)
                 \/ SaveFenced(e, token, c)

Spec == Init /\ [][Next]_vars

-----------------------------------------------------------------------------
(* Properties.                                                             *)

TypeOK ==
  /\ now \in Nat
  /\ records \in [Executions -> Nat \cup {NoRecord}]
  /\ leases \in [Executions -> Lease \cup {NoLease}]
  /\ lastToken \in [Executions -> Tokens]
  /\ releases \subseteq Release
  /\ issued \in [Executions -> SUBSET Tokens]
  /\ reply \in [call : Calls, execution : Executions \cup {NoExecution},
                token : Tokens, err : Errors]

\* Every acquisition that succeeds returns a non-zero token strictly newer than
\* every token the execution's earlier acquisitions returned, whatever was
\* released or expired in between and up to the exhaustion of the 64-bit
\* counter (AcquireExecutionLease; ExecutionLeaser requires it).  Only Tick
\* keeps the reply of an earlier call.
TokensFresh ==
  [][\A e \in Executions :
       /\ now' = now
       /\ reply'.call = "acquire" /\ reply'.execution = e /\ reply'.err = "ok"
       => /\ reply'.token > 0
          /\ \A t \in issued[e] : t < reply'.token]_vars

\* A worker whose token was superseded has no power left: neither its late
\* write, nor its renewal, nor its release changes anything of the execution
\* for the newer owner.
StaleTokenPowerless ==
  [][\A e \in Executions :
       now' = now /\ reply'.execution = e /\ reply'.token < lastToken[e]
         => leases'[e] = leases[e] /\ records'[e] = records[e]]_vars

\* The lease contract of one execution.
Contract(e) == INSTANCE FencedLease WITH
  token <- lastToken[e],
  held <- InForce(e),
  revision <- IF records[e] = NoRecord THEN -1 ELSE records[e]

\* For each execution, whatever happens to the others, the store behaves as
\* the lease contract says: leases exclude each other, tokens grow, writes are
\* fenced and revisions advance.
ImplementsFencedLease ==
  /\ \A e \in Executions : Contract(e)!Init
  /\ [][\A e \in Executions : [Contract(e)!Next]_(Contract(e)!fvars)]_vars
=============================================================================
