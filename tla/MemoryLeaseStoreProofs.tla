----------------------- MODULE MemoryLeaseStoreProofs -----------------------
(***************************************************************************)
(* MemoryLeaseStore keeps the lease contract, for any number of            *)
(* executions, any lease duration and any token width.                     *)
(***************************************************************************)
EXTENDS MemoryLeaseStore, TLAPS

\* A lease entry, expired or not, belongs to the newest acquisition; tokens
\* were issued in order and without gaps.
LeaseIsNewest ==
  \A e \in Executions :
    leases[e] # NoLease => leases[e].token = lastToken[e] /\ lastToken[e] > 0

IssuedInOrder == \A e \in Executions : issued[e] = 1..lastToken[e]

Inv == TypeOK /\ LeaseIsNewest /\ IssuedInOrder

\* Unsigned addition: the successor, or zero after the largest token.
LEMMA NextTokenValue ==
  ASSUME TypeOK, NEW e \in Executions
  PROVE  /\ NextToken(e) \in Tokens
         /\ NextToken(e) # 0 => NextToken(e) = lastToken[e] + 1
<1>1. lastToken[e] \in 0..MaxToken /\ MaxToken \in Nat
  BY StoreAssumption DEF TypeOK, Tokens
<1>2. CASE lastToken[e] = MaxToken
  <2>1. NextToken(e) = 0
    BY <1>1, <1>2 DEF NextToken
  <2> QED
    BY <1>1, <2>1 DEF Tokens
<1>3. CASE lastToken[e] < MaxToken
  <2>1. NextToken(e) = lastToken[e] + 1
    BY <1>1, <1>3 DEF NextToken
  <2> QED
    BY <1>1, <1>3, <2>1 DEF Tokens
<1> QED
  BY <1>1, <1>2, <1>3

\* An operation that only answers its caller preserves the invariant.
LEMMA AnswerPreserves ==
  ASSUME Inv, NEW call \in Calls, NEW e \in Executions, NEW token \in Tokens,
         NEW err \in Errors, Answer(call, e, token, err)
  PROVE  Inv'
BY DEF Inv, TypeOK, LeaseIsNewest, IssuedInOrder, Answer, Reply, storeVars

\* An empty store satisfies the invariant.
LEMMA InitEstablishes == Init => Inv
<1> SUFFICES ASSUME Init PROVE Inv
  OBVIOUS
<1>1. TypeOK
  BY StoreAssumption DEF Init, TypeOK, Tokens, Calls, Errors
<1> QED
  BY <1>1 DEF Init, Inv, LeaseIsNewest, IssuedInOrder

\* Acquiring, refused or not, keeps the invariant.
LEMMA AcquirePreserves ==
  ASSUME Inv, NEW e \in Executions, AcquireExecutionLease(e)
  PROVE  Inv'
<1> USE DEF Inv
<1>0. 0 \in Tokens
  BY StoreAssumption DEF Tokens
<1>1. CASE \E err \in {"busy", "exhausted"} : Answer("acquire", e, 0, err)
  BY <1>0, <1>1, AnswerPreserves DEF Calls, Errors
<1>2. CASE /\ NextToken(e) # 0
           /\ lastToken' = [lastToken EXCEPT ![e] = NextToken(e)]
           /\ leases' = [leases EXCEPT ![e] = [token |-> NextToken(e),
                            expiresAt |-> now + LeaseDuration]]
           /\ releases' = releases
                \cup {[execution |-> e, token |-> NextToken(e)]}
           /\ issued' = [issued EXCEPT ![e] = @ \cup {NextToken(e)}]
           /\ Reply("acquire", e, NextToken(e), "ok")
           /\ UNCHANGED <<now, records>>
  <2>1. NextToken(e) \in Tokens /\ NextToken(e) = lastToken[e] + 1
    BY <1>2, NextTokenValue
  <2>2. TypeOK'
    BY <1>2, <2>1, StoreAssumption
       DEF TypeOK, Lease, Release, Reply, Calls, Errors
  <2>3. LeaseIsNewest'
    BY <1>2, <2>1 DEF TypeOK, LeaseIsNewest, Tokens
  <2>4. IssuedInOrder'
    <3>1. lastToken[e] \in Nat
      BY StoreAssumption DEF TypeOK, Tokens
    <3>2. (1..lastToken[e]) \cup {lastToken[e] + 1} = 1..(lastToken[e] + 1)
      BY <3>1
    <3>3. issued'[e] = 1..lastToken'[e]
      BY <1>2, <2>1, <3>2 DEF TypeOK, IssuedInOrder
    <3> QED
      BY <1>2, <3>3 DEF TypeOK, IssuedInOrder
  <2> QED
    BY <2>2, <2>3, <2>4
<1> QED
  BY <1>1, <1>2 DEF AcquireExecutionLease

\* Releasing keeps the invariant.
LEMMA ReleasePreserves ==
  ASSUME Inv, NEW r \in releases, ReleaseExecutionLease(r)
  PROVE  Inv'
<1>1. r \in Release
  BY DEF Inv, TypeOK
<1>2. TypeOK'
  BY <1>1 DEF Inv, TypeOK, ReleaseExecutionLease, Reply, Release, Calls, Errors
<1>3. LeaseIsNewest' /\ IssuedInOrder'
  BY <1>1 DEF Inv, TypeOK, LeaseIsNewest, IssuedInOrder,
              ReleaseExecutionLease, Release
<1> QED
  BY <1>2, <1>3 DEF Inv

\* Renewing keeps the invariant: it moves the deadline, not the token.
LEMMA RenewPreserves ==
  ASSUME Inv, NEW e \in Executions, NEW token \in Tokens,
         RenewExecutionLease(e, token)
  PROVE  Inv'
<1>1. CASE \E err \in {"required", "fenced"} : Answer("renew", e, token, err)
  BY <1>1, AnswerPreserves DEF Calls, Errors
<1>2. CASE /\ Holds(e, token)
           /\ leases' = [leases EXCEPT ![e].expiresAt = now + LeaseDuration]
           /\ Reply("renew", e, token, "ok")
           /\ UNCHANGED <<now, records, lastToken, releases, issued>>
  <2>1. leases[e] \in Lease
    BY <1>2 DEF Holds, InForce, Inv, TypeOK
  <2>2. TypeOK'
    BY <1>2, <2>1, StoreAssumption
       DEF Inv, TypeOK, Lease, Reply, Calls, Errors
  <2>3. LeaseIsNewest' /\ IssuedInOrder'
    BY <1>2, <2>1 DEF Inv, TypeOK, LeaseIsNewest, IssuedInOrder, Lease,
                      Holds, InForce
  <2> QED
    BY <2>2, <2>3 DEF Inv
<1> QED
  BY <1>1, <1>2 DEF RenewExecutionLease

\* A stored checkpoint has a revision.
LEMMA CheckpointRevision ==
  ASSUME NEW c \in Checkpoints
  PROVE  c.revision \in Nat
<1>1. CASE c \in [valid : {TRUE}, revision : 0..MaxRevision]
  BY <1>1, StoreAssumption
<1>2. CASE c = [valid |-> FALSE, revision |-> 0]
  BY <1>2
<1> QED
  BY <1>1, <1>2 DEF Checkpoints

\* A refused write names one of the store's errors.
LEMMA WriteErrorType ==
  ASSUME NEW e, NEW token, NEW c \in Checkpoints, NEW create \in BOOLEAN
  PROVE  WriteError(e, token, c, create) \in Errors
<1>1. CASE ~c.valid
  BY <1>1 DEF WriteError, Errors
<1>2. CASE c.valid /\ token = 0
  BY <1>2 DEF WriteError, Errors
<1>3. CASE c.valid /\ token # 0 /\ ~Holds(e, token)
  BY <1>3 DEF WriteError, Errors
<1>4. CASE c.valid /\ token # 0 /\ Holds(e, token)
  BY <1>4 DEF WriteError, Errors
<1> QED
  BY <1>1, <1>2, <1>3, <1>4

\* Creating and saving keep the invariant: they leave leases alone.
LEMMA WritePreserves ==
  ASSUME Inv, NEW e \in Executions, NEW token \in Tokens,
         NEW c \in Checkpoints, NEW create \in BOOLEAN,
         writeFenced(e, token, c, create)
  PROVE  Inv'
<1>1. c.revision \in Nat
  BY CheckpointRevision
<1>2. WriteError(e, token, c, create) \in Errors
  BY WriteErrorType
<1>3. reply' \in [call : Calls, execution : Executions \cup {NoExecution},
                   token : Tokens, err : Errors]
  BY <1>2 DEF writeFenced, Reply, Calls
<1>4. records' \in [Executions -> Nat \cup {NoRecord}]
  BY <1>1 DEF Inv, TypeOK, writeFenced
<1>5. TypeOK'
  BY <1>3, <1>4 DEF Inv, TypeOK, writeFenced
<1> QED
  BY <1>5 DEF Inv, LeaseIsNewest, IssuedInOrder, writeFenced

\* Every operation of the store, and the passing of time, keep it.
LEMMA NextPreserves == Inv /\ [Next]_vars => Inv'
<1> SUFFICES ASSUME Inv, [Next]_vars PROVE Inv'
  OBVIOUS
<1>0. 0 \in Tokens
  BY StoreAssumption DEF Tokens
<1>1. CASE Tick
  BY <1>1 DEF Tick, storeVars, Inv, TypeOK, LeaseIsNewest, IssuedInOrder
<1>2. ASSUME NEW r \in releases, ReleaseExecutionLease(r) PROVE Inv'
  BY <1>2, ReleasePreserves
<1>3. ASSUME NEW e \in Executions, AcquireExecutionLease(e) PROVE Inv'
  BY <1>3, AcquirePreserves
<1>4. ASSUME NEW e \in Executions, PlainWrite(e) \/ Load(e) PROVE Inv'
  BY <1>0, <1>4, AnswerPreserves DEF PlainWrite, Load, Calls, Errors
<1>5. ASSUME NEW e \in Executions, NEW call \in Calls \ {"none", "release"},
             ContextDone(call, e)
      PROVE  Inv'
  BY <1>0, <1>5, AnswerPreserves DEF ContextDone, Errors
<1>6. ASSUME NEW e \in Executions, NEW token \in Tokens,
             RenewExecutionLease(e, token)
      PROVE  Inv'
  BY <1>6, RenewPreserves
<1>7. ASSUME NEW e \in Executions, NEW token \in Tokens,
             NEW c \in Checkpoints,
             CreateFenced(e, token, c) \/ SaveFenced(e, token, c)
      PROVE  Inv'
  BY <1>7, WritePreserves DEF CreateFenced, SaveFenced
<1>8. CASE UNCHANGED vars
  BY <1>8 DEF vars, storeVars, Inv, TypeOK, LeaseIsNewest, IssuedInOrder
<1> QED
  BY <1>1, <1>2, <1>3, <1>4, <1>5, <1>6, <1>7, <1>8 DEF Next

\* The store's lease table and its token history agree in every state.
THEOREM InvHolds == Spec => []Inv
BY InitEstablishes, NextPreserves, PTL DEF Spec

\* The store's maps, tokens and replies keep their types.
THEOREM TypeCorrect == Spec => []TypeOK
<1>1. Inv => TypeOK
  BY DEF Inv
<1> QED
  BY <1>1, InvHolds, PTL

\* The steps a call may take are few: it acquires, releases, renews or writes,
\* or it leaves the maps alone.
LEMMA StepKinds ==
  ASSUME Inv, Next
  PROVE  \/ Tick
         \/ UNCHANGED <<now, storeVars>>
         \/ \E r \in releases : ReleaseExecutionLease(r)
         \/ \E e \in Executions :
              \/ AcquireExecutionLease(e)
              \/ \E token \in Tokens : RenewExecutionLease(e, token)
              \/ \E token \in Tokens, c \in Checkpoints, create \in BOOLEAN :
                   writeFenced(e, token, c, create)
<1> USE DEF Answer
<1>1. ASSUME NEW e \in Executions, PlainWrite(e) \/ Load(e)
      PROVE  UNCHANGED <<now, storeVars>>
  BY <1>1 DEF PlainWrite, Load
<1>2. ASSUME NEW e \in Executions, NEW call, ContextDone(call, e)
      PROVE  UNCHANGED <<now, storeVars>>
  BY <1>2 DEF ContextDone
<1> QED
  BY <1>1, <1>2 DEF Next, CreateFenced, SaveFenced

\* Every acquisition that succeeds returns a token larger than all that earlier
\* ones returned, up to the exhaustion of the counter.
THEOREM TokensAreFresh == Spec => TokensFresh
<1> DEFINE Fresh ==
      \A e \in Executions :
        /\ now' = now
        /\ reply'.call = "acquire" /\ reply'.execution = e /\ reply'.err = "ok"
        => /\ reply'.token > 0
           /\ \A t \in issued[e] : t < reply'.token
<1>1. ASSUME Inv, Next PROVE Fresh
  <2> SUFFICES ASSUME NEW e \in Executions, now' = now, reply'.call = "acquire",
                      reply'.execution = e, reply'.err = "ok"
               PROVE  /\ reply'.token > 0
                      /\ \A t \in issued[e] : t < reply'.token
    OBVIOUS
  <2>1. AcquireExecutionLease(e)
    <3>1. ~Tick
      BY <1>1 DEF Tick, Inv, TypeOK
    <3>2. \A r \in releases : ~ReleaseExecutionLease(r)
      BY DEF ReleaseExecutionLease, Reply
    <3>3. ASSUME NEW f \in Executions, AcquireExecutionLease(f)
          PROVE  f = e
      BY <3>3 DEF AcquireExecutionLease, Answer, Reply
    <3>4. ASSUME NEW f \in Executions
          PROVE  /\ ~PlainWrite(f) /\ ~Load(f)
                 /\ \A call \in Calls : ~ContextDone(call, f)
                 /\ \A token \in Tokens : ~RenewExecutionLease(f, token)
      BY DEF PlainWrite, Load, ContextDone, RenewExecutionLease, Answer, Reply
    <3>5. ASSUME NEW f \in Executions, NEW token \in Tokens,
                 NEW c \in Checkpoints
          PROVE  ~CreateFenced(f, token, c) /\ ~SaveFenced(f, token, c)
      <4>1. ASSUME NEW err, Reply("create", f, token, err) PROVE FALSE
        BY <4>1 DEF Reply
      <4>2. ASSUME NEW err, Reply("save", f, token, err) PROVE FALSE
        BY <4>2 DEF Reply
      <4> QED
        BY <4>1, <4>2 DEF CreateFenced, SaveFenced, writeFenced
    <3> QED
      BY <1>1, <3>1, <3>2, <3>3, <3>4, <3>5 DEF Next
  <2>2. NextToken(e) # 0 /\ reply'.token = NextToken(e)
    BY <2>1 DEF AcquireExecutionLease, Answer, Reply
  <2>3. NextToken(e) = lastToken[e] + 1
    BY <1>1, <2>2, NextTokenValue DEF Inv
  <2>4. lastToken[e] \in Nat /\ issued[e] = 1..lastToken[e]
    BY <1>1, StoreAssumption DEF Inv, TypeOK, IssuedInOrder, Tokens
  <2> QED
    BY <2>2, <2>3, <2>4
<1>2. ASSUME Inv, [Next]_vars PROVE [Fresh]_vars
  BY <1>1, <1>2
<1> QED
  BY <1>2, InvHolds, PTL DEF Spec, TokensFresh

\* A superseded worker can neither write, nor extend, nor release.
THEOREM StaleTokensArePowerless == Spec => StaleTokenPowerless
<1> DEFINE Powerless ==
      \A e \in Executions :
        now' = now /\ reply'.execution = e /\ reply'.token < lastToken[e]
          => leases'[e] = leases[e] /\ records'[e] = records[e]
<1>1. ASSUME Inv, Next PROVE Powerless
  <2> SUFFICES ASSUME NEW e \in Executions, now' = now,
                      reply'.execution = e, reply'.token < lastToken[e]
               PROVE  leases'[e] = leases[e] /\ records'[e] = records[e]
    OBVIOUS
  <2>0. /\ lastToken[e] \in Nat
        /\ leases[e] # NoLease => leases[e].token = lastToken[e]
    BY <1>1, StoreAssumption DEF Inv, TypeOK, LeaseIsNewest, Tokens
  <2>1. CASE Tick
    BY <1>1, <2>1 DEF Tick, Inv, TypeOK
  <2>2. CASE UNCHANGED <<now, storeVars>>
    BY <2>2 DEF storeVars
  <2>3. ASSUME NEW r \in releases, ReleaseExecutionLease(r)
        PROVE  leases'[e] = leases[e] /\ records'[e] = records[e]
    BY <2>0, <2>3 DEF ReleaseExecutionLease, Reply
  <2>4. ASSUME NEW f \in Executions, AcquireExecutionLease(f)
        PROVE  leases'[e] = leases[e] /\ records'[e] = records[e]
    <3>1. NextToken(f) # 0 => NextToken(f) = lastToken[f] + 1
      BY <1>1, NextTokenValue DEF Inv
    <3> QED
      BY <2>0, <2>4, <3>1 DEF AcquireExecutionLease, Answer, Reply, storeVars
  <2>5. ASSUME NEW f \in Executions, NEW token \in Tokens,
               RenewExecutionLease(f, token)
        PROVE  leases'[e] = leases[e] /\ records'[e] = records[e]
    BY <2>0, <2>5 DEF RenewExecutionLease, Answer, Reply, storeVars, Holds,
                      InForce
  <2>6. ASSUME NEW f \in Executions, NEW token \in Tokens,
               NEW c \in Checkpoints, NEW create \in BOOLEAN,
               writeFenced(f, token, c, create)
        PROVE  leases'[e] = leases[e] /\ records'[e] = records[e]
    <3>1. f = e /\ token < lastToken[e]
      BY <2>6 DEF writeFenced, Reply
    <3>2. ~Holds(f, token)
      BY <2>0, <3>1 DEF Holds, InForce, Tokens
    <3>3. WriteError(f, token, c, create) # "ok"
      BY <3>2 DEF WriteError
    <3> QED
      BY <2>6, <3>3 DEF writeFenced
  <2> QED
    BY <1>1, <2>1, <2>2, <2>3, <2>4, <2>5, <2>6, StepKinds
<1>2. ASSUME Inv, [Next]_vars PROVE [Powerless]_vars
  BY <1>1, <1>2
<1> QED
  BY <1>2, InvHolds, PTL DEF Spec, StaleTokenPowerless

\* A write that succeeds is fenced and advances a versioned record.
LEMMA WriteAccepted ==
  ASSUME NEW e \in Executions, NEW token \in Tokens, NEW c \in Checkpoints,
         NEW create \in BOOLEAN, WriteError(e, token, c, create) = "ok"
  PROVE  /\ InForce(e)
         /\ records[e] # NoRecord =>
              (records[e] > 0 => ~(c.revision = 0 \/ c.revision <= records[e]))
<1>1. c.valid /\ token # 0 /\ Holds(e, token)
  BY DEF WriteError
<1> QED
  BY <1>1 DEF WriteError, Holds

\* For every execution, each step of the store is a step of the contract.
LEMMA StepRefines ==
  ASSUME Inv, Next, NEW e \in Executions
  PROVE  [Contract(e)!Next]_(Contract(e)!fvars)
<1> USE DEF Contract!Next, Contract!Grant, Contract!Lapse, Contract!Publish,
            Contract!fvars
<1>0. /\ lastToken[e] \in Nat
      /\ records[e] \in Nat \cup {NoRecord}
      /\ leases[e] # NoLease => leases[e] \in Lease
      /\ now \in Nat
  BY StoreAssumption DEF Inv, TypeOK, Tokens
<1>1. CASE Tick
  BY <1>0, <1>1, StoreAssumption DEF Tick, storeVars, InForce, Lease
<1>2. CASE UNCHANGED <<now, storeVars>>
  BY <1>2 DEF storeVars, InForce
<1>3. ASSUME NEW r \in releases, ReleaseExecutionLease(r)
      PROVE  [Contract(e)!Next]_(Contract(e)!fvars)
  BY <1>0, <1>3 DEF ReleaseExecutionLease, InForce, Inv, TypeOK, Release
<1>4. ASSUME NEW f \in Executions, AcquireExecutionLease(f)
      PROVE  [Contract(e)!Next]_(Contract(e)!fvars)
  <2>1. NextToken(f) # 0 => NextToken(f) = lastToken[f] + 1
    BY NextTokenValue DEF Inv
  <2> QED
    BY <1>0, <1>4, <2>1, StoreAssumption
       DEF AcquireExecutionLease, Answer, storeVars, InForce, Inv, TypeOK
<1>5. ASSUME NEW f \in Executions, NEW token \in Tokens,
             RenewExecutionLease(f, token)
      PROVE  [Contract(e)!Next]_(Contract(e)!fvars)
  BY <1>0, <1>5, StoreAssumption
     DEF RenewExecutionLease, Answer, storeVars, Holds, InForce, Inv, TypeOK,
         Lease
<1>6. ASSUME NEW f \in Executions, NEW token \in Tokens,
             NEW c \in Checkpoints, NEW create \in BOOLEAN,
             writeFenced(f, token, c, create)
      PROVE  [Contract(e)!Next]_(Contract(e)!fvars)
  <2>1. c.revision \in Nat
    BY CheckpointRevision
  <2>2. CASE records'[e] = records[e]
    BY <1>6, <2>2 DEF writeFenced, InForce
  <2>3. CASE records'[e] # records[e]
    <3>1. f = e /\ WriteError(e, token, c, create) = "ok"
      BY <1>6, <2>3 DEF writeFenced, Inv, TypeOK
    <3>2. records'[e] = c.revision
      BY <1>6, <3>1 DEF writeFenced, Inv, TypeOK
    <3>3. /\ InForce(e)
          /\ records[e] # NoRecord =>
               (records[e] > 0 => ~(c.revision = 0 \/ c.revision <= records[e]))
      BY <3>1, WriteAccepted
    <3>4. lastToken' = lastToken /\ InForce(e)'
      BY <1>6, <3>3 DEF writeFenced, InForce
    <3> QED
      BY <1>0, <2>1, <3>2, <3>3, <3>4, StoreAssumption
  <2> QED
    BY <2>2, <2>3
<1> QED
  BY <1>1, <1>2, <1>3, <1>4, <1>5, <1>6, StepKinds

\* The store implements the lease contract for every execution at once.
THEOREM StoreImplementsFencedLease == Spec => ImplementsFencedLease
<1>1. Init => \A e \in Executions : Contract(e)!Init
  BY DEF Init, Contract!Init, InForce
<1>2. ASSUME Inv, [Next]_vars
      PROVE  [\A e \in Executions :
                [Contract(e)!Next]_(Contract(e)!fvars)]_vars
  BY <1>2, StepRefines
<1> QED
  BY <1>1, <1>2, InvHolds, PTL DEF Spec, ImplementsFencedLease
=============================================================================
