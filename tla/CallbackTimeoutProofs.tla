------------------------ MODULE CallbackTimeoutProofs ------------------------
(***************************************************************************)
(* Proofs that a deadline or a cancellation that came before the callback  *)
(* returned decides what is recorded, for any budget of attempts and       *)
(* retries and whatever the callback answers.                              *)
(*                                                                         *)
(* The history variable late says what came first.  Inv ties it to what    *)
(* the runtime can still see: a late answer means an ended context         *)
(* (LateContext) or, under a live one, an expired callback context before  *)
(* the wrapper's second check and a timeout error after it (LateOwn).      *)
(***************************************************************************)
EXTENDS CallbackTimeout, TLAPS

\* The wrapper has put the timeout in place of what the callback returned.
TimedOut == ret = Answer(FALSE, Error({TimeoutKind, "DeadlineExceeded"}), "none")

\* What the wrapper checks is there to be seen.
LateContext ==
  /\ late = "ctx" => ctx # "live"
  /\ ctx = "live" => child # "canceled"

LateOwn ==
  late = "own" =>
    /\ config.timeout
    /\ pc \in {"wrapped", "checked"} => child = "deadline"
    /\ pc \in {"returned", "observed"} /\ ctx = "live" => TimedOut
    /\ pc = "observed" /\ ctx = "live" /\ config.kind # "replay" =>
         code \in {"model_timeout", "tool_timeout"}

\* Only a model callback is repeated, and only with an attempt left.
Attempts ==
  /\ pc \in {"top", "backoff"} => attempts < MaxSteps
  /\ pc = "backoff" => config.kind = "model"
  /\ config.kind # "model" /\ pc \in {"top", "dispatch", "call"} => late = "no"

\* A tool succeeded only with a result, and nothing is settled twice.
Results ==
  /\ ret.ok /\ config.kind # "model" => ret.reply = "result"
  /\ pc # "over" => outcome = "none"

Inv ==
  /\ TypeOK /\ LateContext /\ LateOwn /\ Attempts /\ Results
  /\ CommittedInTime /\ ContextDecides /\ OwnDeadlineDecides

-----------------------------------------------------------------------------
(* What callbacks return.                                                  *)

\* What the runtime makes of the adapter's answer a.
Judged(a) ==
  Answer(a.err = NoError /\ Validate(a.decision),
         IF a.err = NoError /\ ~Validate(a.decision)
         THEN Error({"ErrInvalidDecision"}) ELSE a.err, "none")

\* A success carries no error; a tool's is a result.
LEMMA AnswerTypes ==
  ASSUME NEW r \in Answers
  PROVE  /\ r.ok \in BOOLEAN /\ (r.ok => r.err = NoError)
         /\ r.ok /\ config.kind # "model" => r.reply = "result"
<1>1. CASE r \in ModelAnswers /\ config.kind = "model"
  <2>1. CASE r = Answer(FALSE, Error({"callback"}), "none")
    BY <1>1, <2>1 DEF Answer
  <2>2. ASSUME NEW a, r = Judged(a)
        PROVE  r.ok \in BOOLEAN /\ (r.ok => r.err = NoError)
    BY <2>2, Zenon DEF Answer, Judged
  <2> DEFINE S == {ModelNext(response, own) :
                     response \in Response, own \in SUBSET {"DeadlineExceeded"}}
  <2>3. ModelAnswers =
          {Judged(a) : a \in S} \cup {Answer(FALSE, Error({"callback"}), "none")}
    BY DEF ModelAnswers, Judged
  <2> HIDE DEF S
  <2>4. \/ r = Answer(FALSE, Error({"callback"}), "none")
        \/ \E a : r = Judged(a)
    BY <1>1, <2>3
  <2> QED
    BY <1>1, <2>1, <2>2, <2>4, Zenon
<1>2. CASE r \in ToolAnswers /\ config.kind # "model"
  <2>1. PICK e \in Executions :
          r = Answer(e.ok, IF e.ok THEN NoError ELSE Error({e.sentinel}), e.reply)
    BY <1>2 DEF ToolAnswers
  <2>2. PICK resolution, reply :
          \/ e = MCPExecute(resolution, reply)
          \/ e = SandboxExecute(resolution, reply)
    BY DEF Executions
  <2>3. \/ \E s : e = Execution("none", FALSE, s)
        \/ \E s : e = Execution(reply, reply = "result", s)
    BY <2>2, Zenon DEF MCPExecute, SandboxExecute, NotDispatched
  <2>4. e.ok \in BOOLEAN /\ (e.ok => e.reply = "result")
    <3>1. ASSUME NEW s, e = Execution("none", FALSE, s)
          PROVE  e.ok = FALSE
      BY <3>1 DEF Execution
    <3>2. ASSUME NEW s, e = Execution(reply, reply = "result", s)
          PROVE  e.ok = (reply = "result") /\ e.reply = reply
      BY <3>2, Zenon DEF Execution
    <3> QED
      BY <2>3, <3>1, <3>2, Zenon
  <2> QED
    BY <1>2, <2>1, <2>4, Zenon DEF Answer
<1> QED
  BY <1>1, <1>2 DEF Answers

\* A timeout error is traced as one.
LEMMA TimeoutCode ==
  ASSUME TimedOut
  PROVE  classifyTraceError(ret.err) \in {"model_timeout", "tool_timeout"}
<1> DEFINE I == {i \in 1..Len(TraceCodes) : Is(ret.err, TraceCodes[i][1])}
           k == IF config.kind = "model" THEN 1 ELSE 2
<1>1. ret.err = [is |-> {TimeoutKind, "DeadlineExceeded"}, status |-> 0]
  BY DEF TimedOut, Answer, Error
<1>2. /\ Len(TraceCodes) = 8
      /\ TraceCodes[1] = <<"ErrModelTimeout", "model_timeout">>
      /\ TraceCodes[2] = <<"ErrToolTimeout", "tool_timeout">>
  BY DEF TraceCodes
<1>3. k \in I /\ \A i \in I : k <= i
  BY <1>1, <1>2 DEF Is, TimeoutKind
<1>4. SelectInSeq(TraceCodes, LAMBDA entry : Is(ret.err, entry[1])) = k
  <2>1. Min(I) = k
    BY <1>3 DEF Min
  <2> QED
    BY <1>3, <2>1 DEF SelectInSeq
<1>5. ret.err # NoError /\ ret.err.status = 0
  BY <1>1 DEF NoError
<1> QED
  BY <1>2, <1>4, <1>5 DEF classifyTraceError

\* A timeout error is a failure that a model may be retried for.
LEMMA TimeoutError ==
  ASSUME TimedOut
  PROVE  /\ ~ret.ok /\ Is(ret.err, TimeoutKind)
         /\ ~Is(ret.err, "errToolReplayUnsupported")
         /\ config.kind = "model" => IsTransientModelError(ret.err)
<1>1. ret.ok = FALSE /\ ret.err = [is |-> {TimeoutKind, "DeadlineExceeded"}, status |-> 0]
  BY DEF TimedOut, Answer, Error
<1> QED
  BY <1>1 DEF Is, TimeoutKind, IsTransientModelError, NoError

-----------------------------------------------------------------------------
(* The inductive invariant.                                                *)

\* Nothing has been called or committed before the first attempt.
LEMMA InitInv == Init => Inv
<1> SUFFICES ASSUME Init PROVE Inv
  OBVIOUS
<1>1. ret.ok = FALSE
  BY DEF Init, Nothing, Answer
<1>2. /\ attempts \in 0..MaxSteps /\ retries \in 0..MaxRetries
      /\ attempts < MaxSteps
  <2>1. attempts = 0 /\ retries = 0
    BY DEF Init
  <2> QED
    BY <2>1, CallbackAssumption
<1>3. TypeOK
  BY <1>1, <1>2 DEF Init, TypeOK
<1>4. LateContext /\ LateOwn /\ Attempts
  BY <1>2 DEF Init, LateContext, LateOwn, Attempts
<1>5. Results /\ CommittedInTime /\ ContextDecides /\ OwnDeadlineDecides
  BY <1>1 DEF Init, Results, CommittedInTime, ContextDecides, OwnDeadlineDecides
<1> QED
  BY <1>3, <1>4, <1>5 DEF Inv

\* A context that ends, or a deadline that passes, changes no decision.
LEMMA ContextsInv ==
  ASSUME Inv, (\E why \in {"canceled", "deadline", "lost"} : ContextEnds(why))
              \/ ChildExpires
  PROVE  Inv'
<1>1. Inv
  OBVIOUS
<1>2. UNCHANGED <<config, pc, late, ret, progress, code, settled>>
  BY DEF ContextEnds, ChildExpires
<1>3. UNCHANGED <<attempts, retries, outcome, error, TimeoutKind, TimedOut>>
  BY <1>2 DEF progress, settled, TimeoutKind, TimedOut
<1>4. pc # "over"
  BY DEF ContextEnds, ChildExpires, InCallback
<1>5. /\ ctx' \in {"live", "canceled", "deadline", "lost"}
      /\ child' \in {"live", "canceled", "deadline"}
      /\ ctx' = "live" => ctx = "live" /\ child' # "canceled"
      /\ child # "live" => child' = child
  BY <1>1 DEF Inv, TypeOK, LateContext, ContextEnds, ChildExpires
<1>6. TypeOK'
  BY <1>1, <1>2, <1>3, <1>5 DEF Inv, TypeOK
<1>7. LateContext' /\ LateOwn'
  BY <1>1, <1>2, <1>3, <1>5 DEF Inv, LateContext, LateOwn
<1>8. Attempts' /\ Results'
  BY <1>1, <1>2, <1>3 DEF Inv, Attempts, Results
<1>9. CommittedInTime' /\ ContextDecides' /\ OwnDeadlineDecides'
  BY <1>1, <1>2, <1>3, <1>4
  DEF Inv, Results, CommittedInTime, ContextDecides, OwnDeadlineDecides
<1> QED
  BY <1>6, <1>7, <1>8, <1>9 DEF Inv

\* A step that settles nothing keeps what is said of settled callbacks.
LEMMA Unsettled ==
  ASSUME outcome' = "none", pc' \notin {"backoff", "over"}
  PROVE  CommittedInTime' /\ ContextDecides' /\ OwnDeadlineDecides'
BY DEF CommittedInTime, ContextDecides, OwnDeadlineDecides

\* The loop top either ends the execution or reserves an attempt.
LEMMA BeginInv == ASSUME Inv, Begin PROVE Inv'
<1>1. Inv
  OBVIOUS
<1>2. /\ pc = "top" /\ UNCHANGED <<config, ctx, child, late, ret, code>>
      /\ outcome = "none" /\ attempts < MaxSteps
      /\ attempts \in 0..MaxSteps /\ retries \in 0..MaxRetries
  BY <1>1 DEF Inv, Begin, Results, Attempts, TypeOK
<1>3. CASE /\ ctx # "live" /\ pc' = "over" /\ outcome' = "cancelled"
           /\ error' = executionContextErr(ctx) /\ UNCHANGED progress
  <2>1. UNCHANGED <<attempts, retries>>
    BY <1>3 DEF progress
  <2>2. TypeOK'
    BY <1>1, <1>2, <1>3, <2>1 DEF Inv, TypeOK
  <2>3. LateContext' /\ LateOwn' /\ Attempts' /\ Results'
    BY <1>1, <1>2, <1>3 DEF Inv, LateContext, LateOwn, Attempts, Results
  <2>4. CommittedInTime' /\ ContextDecides' /\ OwnDeadlineDecides'
    BY <1>2, <1>3
    DEF CommittedInTime, ContextDecides, OwnDeadlineDecides, executionContextErr, Err
  <2> QED
    BY <2>2, <2>3, <2>4 DEF Inv
<1>4. CASE /\ pc' = "dispatch" /\ attempts' = attempts + 1
           /\ UNCHANGED <<retries, settled>>
  <2>1. attempts' \in 0..MaxSteps
    BY <1>2, <1>4, CallbackAssumption
  <2>2. UNCHANGED <<retries, outcome>>
    BY <1>4 DEF settled
  <2>3. TypeOK'
    BY <1>1, <1>2, <1>4, <2>1, <2>2 DEF Inv, TypeOK
  <2>4. LateContext' /\ LateOwn' /\ Attempts' /\ Results'
    BY <1>1, <1>2, <1>4, <2>2 DEF Inv, LateContext, LateOwn, Attempts, Results
  <2> QED
    BY <1>2, <1>4, <2>2, <2>3, <2>4, Unsettled DEF Inv
<1> QED
  BY <1>3, <1>4 DEF Begin

\* A dispatch starts with a fresh callback context and no answer.
LEMMA DispatchInv == ASSUME Inv, Dispatch PROVE Inv'
<1>1. Inv
  OBVIOUS
<1>2. /\ pc = "dispatch" /\ pc' = "call" /\ late' = "no" /\ ret' = Nothing
      /\ child' = (IF ctx = "lost" THEN "canceled" ELSE ctx)
      /\ UNCHANGED <<config, ctx, attempts, retries, code, outcome, error>>
      /\ outcome = "none"
  BY <1>1 DEF Dispatch, progress, settled, Inv, Results
<1>3. ret'.ok = FALSE
  BY <1>2 DEF Nothing, Answer
<1>4. TypeOK'
  BY <1>1, <1>2, <1>3 DEF Inv, TypeOK
<1>5. LateContext' /\ LateOwn' /\ Attempts' /\ Results'
  BY <1>1, <1>2, <1>3 DEF Inv, LateContext, LateOwn, Attempts, Results, TypeOK
<1> QED
  BY <1>2, <1>4, <1>5, Unsettled DEF Inv

\* A replay that the executor does not have ends unknown, or as an error that
\* the runtime has to look at.
LEMMA ReplayInv == ASSUME Inv, ReplayUnsupported PROVE Inv'
<1>1. Inv
  OBVIOUS
<1>2. /\ config.kind = "replay" /\ pc = "dispatch" /\ outcome = "none" /\ late = "no"
      /\ UNCHANGED <<config, ctx, child, attempts, retries, code>>
  BY <1>1 DEF ReplayUnsupported, progress, Inv, Results, Attempts
<1>3. CASE /\ config.timeout /\ pc' = "returned" /\ ret' = Unsupported
           /\ late' = (IF ctx = "live" THEN "no" ELSE "ctx") /\ UNCHANGED settled
  <2>1. ret'.ok = FALSE /\ UNCHANGED outcome
    BY <1>3 DEF Unsupported, Answer, settled
  <2>2. TypeOK'
    BY <1>1, <1>2, <1>3, <2>1 DEF Inv, TypeOK
  <2>3. LateContext' /\ LateOwn' /\ Attempts' /\ Results'
    BY <1>1, <1>2, <1>3, <2>1 DEF Inv, LateContext, LateOwn, Attempts, Results
  <2> QED
    BY <1>2, <1>3, <2>1, <2>2, <2>3, Unsettled DEF Inv
<1>4. CASE /\ pc' = "over" /\ outcome' = "unknown" /\ UNCHANGED <<ret, late>>
  <2>1. TypeOK'
    BY <1>1, <1>2, <1>4 DEF Inv, TypeOK
  <2>2. LateContext' /\ LateOwn' /\ Attempts' /\ Results'
    BY <1>1, <1>2, <1>4 DEF Inv, LateContext, LateOwn, Attempts, Results
  <2>3. CommittedInTime' /\ ContextDecides' /\ OwnDeadlineDecides'
    BY <1>2, <1>4 DEF CommittedInTime, ContextDecides, OwnDeadlineDecides
  <2> QED
    BY <2>1, <2>2, <2>3 DEF Inv
<1> QED
  BY <1>3, <1>4 DEF ReplayUnsupported

\* The callback returns: late records what had ended by then.
LEMMA ReturnsInv ==
  ASSUME Inv, NEW r, Returns(r),
         r.ok \in BOOLEAN /\ (r.ok => r.err = NoError),
         r.ok /\ config.kind # "model" => r.reply = "result"
  PROVE  Inv'
<1>1. Inv
  OBVIOUS
<1>2. /\ pc = "call" /\ ret' = r /\ outcome = "none"
      /\ pc' = (IF config.timeout THEN "wrapped" ELSE "returned")
      /\ late' = (IF ctx # "live" THEN "ctx"
                  ELSE IF config.timeout /\ child # "live" THEN "own" ELSE "no")
      /\ UNCHANGED <<config, ctx, child, attempts, retries, code, outcome>>
  BY <1>1 DEF Returns, progress, settled, Inv, Results
<1>3. TypeOK'
  BY <1>1, <1>2 DEF Inv, TypeOK
<1>4. LateContext'
  BY <1>1, <1>2 DEF Inv, LateContext
<1>5. LateOwn'
  BY <1>1, <1>2 DEF Inv, LateContext, LateOwn, TypeOK
<1>6. Attempts' /\ Results'
  BY <1>1, <1>2 DEF Inv, Attempts, Results
<1> QED
  BY <1>2, <1>3, <1>4, <1>5, <1>6, Unsettled DEF Inv

\* The wrapper's first check: an ended context replaces the answer.
LEMMA CheckParentInv == ASSUME Inv, CheckParent PROVE Inv'
<1>1. Inv
  OBVIOUS
<1>2. /\ pc = "wrapped" /\ outcome = "none"
      /\ UNCHANGED <<config, ctx, child, late, attempts, retries, code, outcome>>
  BY <1>1 DEF CheckParent, progress, settled, Inv, Results
<1>3. CASE /\ ctx # "live" /\ pc' = "returned"
           /\ ret' = Answer(FALSE, Error(Err(ctx)), "none")
  <2>1. ret'.ok = FALSE
    BY <1>3 DEF Answer
  <2>2. TypeOK'
    BY <1>1, <1>2, <1>3, <2>1 DEF Inv, TypeOK
  <2>3. LateContext' /\ LateOwn' /\ Attempts' /\ Results'
    BY <1>1, <1>2, <1>3, <2>1 DEF Inv, LateContext, LateOwn, Attempts, Results
  <2> QED
    BY <1>2, <1>3, <2>2, <2>3, Unsettled DEF Inv
<1>4. CASE ctx = "live" /\ pc' = "checked" /\ UNCHANGED ret
  <2>1. TypeOK'
    BY <1>1, <1>2, <1>4 DEF Inv, TypeOK
  <2>2. LateContext' /\ LateOwn' /\ Attempts' /\ Results'
    BY <1>1, <1>2, <1>4 DEF Inv, LateContext, LateOwn, Attempts, Results
  <2> QED
    BY <1>2, <1>4, <2>1, <2>2, Unsettled DEF Inv
<1> QED
  BY <1>3, <1>4 DEF CheckParent

\* The wrapper's second check: an expired callback context replaces the answer
\* by a timeout, also a successful one.
LEMMA CheckChildInv == ASSUME Inv, CheckChild PROVE Inv'
<1>1. Inv
  OBVIOUS
<1>2. /\ pc = "checked" /\ pc' = "returned" /\ outcome = "none"
      /\ UNCHANGED <<config, ctx, child, late, attempts, retries, code, outcome>>
  BY <1>1 DEF CheckChild, progress, settled, Inv, Results
<1>3. CASE child = "deadline"
  <2>1. TimedOut'
    BY <1>2, <1>3 DEF CheckChild, TimedOut, TimeoutKind
  <2>2. ret'.ok = FALSE
    BY <2>1 DEF TimedOut, Answer
  <2>3. TypeOK'
    BY <1>1, <1>2, <2>2 DEF Inv, TypeOK
  <2>4. LateContext' /\ LateOwn' /\ Attempts' /\ Results'
    BY <1>1, <1>2, <2>1, <2>2 DEF Inv, LateContext, LateOwn, Attempts, Results
  <2> QED
    BY <1>2, <2>3, <2>4, Unsettled DEF Inv
<1>4. CASE child # "deadline"
  <2>1. UNCHANGED ret
    BY <1>4 DEF CheckChild
  <2>2. TypeOK'
    BY <1>1, <1>2, <2>1 DEF Inv, TypeOK
  <2>3. LateContext' /\ LateOwn' /\ Attempts' /\ Results'
    BY <1>1, <1>2, <1>4, <2>1 DEF Inv, LateContext, LateOwn, Attempts, Results
  <2> QED
    BY <1>2, <2>2, <2>3, Unsettled DEF Inv
<1> QED
  BY <1>3, <1>4

\* The completed event reports a timeout as one.
LEMMA ObserveInv == ASSUME Inv, Observe PROVE Inv'
<1>1. Inv
  OBVIOUS
<1>2. /\ pc = "returned" /\ pc' = "observed" /\ outcome = "none"
      /\ UNCHANGED <<config, ctx, child, late, ret, attempts, retries, outcome>>
      /\ code' = (IF config.kind = "replay" \/ Is(ret.err, "ErrInvalidDecision") THEN ""
                  ELSE classifyTraceError(ret.err))
  BY <1>1 DEF Observe, progress, settled, Inv, Results
<1>3. UNCHANGED TimedOut
  BY <1>2 DEF TimedOut, TimeoutKind
<1>4. TimedOut => ~Is(ret.err, "ErrInvalidDecision")
  BY DEF TimedOut, Answer, Error, Is, TimeoutKind
<1>5. TypeOK'
  BY <1>1, <1>2 DEF Inv, TypeOK
<1>6. LateOwn'
  BY <1>1, <1>2, <1>3, <1>4, TimeoutCode DEF Inv, LateOwn
<1>7. LateContext' /\ Attempts' /\ Results'
  BY <1>1, <1>2 DEF Inv, LateContext, Attempts, Results
<1> QED
  BY <1>2, <1>5, <1>6, <1>7, Unsettled DEF Inv

\* The runtime's own check of the context comes before it believes an answer or
\* an error.
LEMMA SettleInv == ASSUME Inv, Settle PROVE Inv'
<1>1. Inv
  OBVIOUS
<1>2. /\ pc = "observed" /\ outcome = "none"
      /\ UNCHANGED <<config, ctx, child, late, ret, code, TimedOut, TimeoutKind>>
  BY <1>1 DEF Settle, Inv, Results, TimedOut, TimeoutKind
<1>3. /\ attempts \in 0..MaxSteps /\ retries \in 0..MaxRetries
      /\ MaxSteps \in Nat /\ MaxRetries \in Nat
  BY <1>1, CallbackAssumption DEF Inv, TypeOK
<1>4. /\ late = "ctx" => ctx # "live"
      /\ late = "own" /\ ctx = "live" => TimedOut
      /\ late = "own" /\ ctx = "live" /\ config.kind # "replay" =>
           code \in {"model_timeout", "tool_timeout"}
  BY <1>1, <1>2 DEF Inv, LateContext, LateOwn
<1>5. CASE /\ ctx # "live" /\ pc' = "over" /\ outcome' = "cancelled"
           /\ error' = executionContextErr(ctx) /\ UNCHANGED progress
  <2>1. UNCHANGED <<attempts, retries>>
    BY <1>5 DEF progress
  <2>2. TypeOK'
    BY <1>1, <1>2, <1>5, <2>1 DEF Inv, TypeOK
  <2>3. LateContext' /\ LateOwn' /\ Attempts' /\ Results'
    BY <1>1, <1>2, <1>5 DEF Inv, LateContext, LateOwn, Attempts, Results
  <2>4. CommittedInTime' /\ ContextDecides' /\ OwnDeadlineDecides'
    BY <1>2, <1>5
    DEF CommittedInTime, ContextDecides, OwnDeadlineDecides, executionContextErr, Err
  <2> QED
    BY <2>2, <2>3, <2>4 DEF Inv
<1>6. CASE /\ ctx = "live" /\ canRetryModel /\ pc' = "backoff"
           /\ retries' = retries + 1 /\ UNCHANGED <<attempts, settled>>
  <2>1. /\ UNCHANGED <<attempts, outcome, error>> /\ config.kind = "model"
        /\ retries < MaxRetries /\ attempts < MaxSteps
    BY <1>6 DEF settled, canRetryModel
  <2>2. retries' \in 0..MaxRetries
    BY <1>3, <1>6, <2>1
  <2>3. TypeOK'
    BY <1>1, <1>2, <1>6, <2>1, <2>2 DEF Inv, TypeOK
  <2>4. LateContext' /\ LateOwn' /\ Attempts' /\ Results'
    BY <1>1, <1>2, <1>6, <2>1 DEF Inv, LateContext, LateOwn, Attempts, Results
  <2>5. CommittedInTime' /\ ContextDecides' /\ OwnDeadlineDecides'
    BY <1>2, <1>4, <1>6, <2>1 DEF CommittedInTime, ContextDecides, OwnDeadlineDecides
  <2> QED
    BY <2>3, <2>4, <2>5 DEF Inv
<1>7. CASE /\ ctx = "live" /\ ~ret.ok /\ ~canRetryModel /\ pc' = "over"
           /\ outcome' = (IF Is(ret.err, "errToolReplayUnsupported") THEN "unknown"
                          ELSE "failed")
           /\ error' = ret.err /\ UNCHANGED progress
  <2>1. UNCHANGED <<attempts, retries>> /\ outcome' \in {"unknown", "failed"}
    BY <1>7 DEF progress
  <2>2. TypeOK'
    BY <1>1, <1>2, <1>7, <2>1 DEF Inv, TypeOK
  <2>3. LateContext' /\ LateOwn' /\ Attempts' /\ Results'
    BY <1>1, <1>2, <1>7 DEF Inv, LateContext, LateOwn, Attempts, Results
  <2>4. CommittedInTime' /\ ContextDecides'
    BY <1>2, <1>4, <1>7, <2>1 DEF CommittedInTime, ContextDecides
  <2>5. OwnDeadlineDecides'
    <3>1. TimedOut => outcome' = "failed" /\ Is(error', TimeoutKind)
      BY <1>7, TimeoutError
    <3>2. TimedOut /\ config.kind = "model" => retries = MaxRetries \/ attempts = MaxSteps
      BY <1>3, <1>7, TimeoutError DEF canRetryModel
    <3> QED
      BY <1>2, <1>4, <1>7, <2>1, <3>1, <3>2 DEF OwnDeadlineDecides
  <2> QED
    BY <2>2, <2>3, <2>4, <2>5 DEF Inv
<1>8. CASE /\ ctx = "live" /\ ret.ok /\ pc' = "over" /\ outcome' = "committed"
           /\ UNCHANGED progress
  <2>1. UNCHANGED <<attempts, retries>>
    BY <1>8 DEF progress
  <2>2. late = "no"
    BY <1>1, <1>4, <1>8, TimeoutError DEF Inv, TypeOK
  <2>3. TypeOK'
    BY <1>1, <1>2, <1>8, <2>1 DEF Inv, TypeOK
  <2>4. LateContext' /\ LateOwn' /\ Attempts' /\ Results'
    BY <1>1, <1>2, <1>8 DEF Inv, LateContext, LateOwn, Attempts, Results
  <2>5. CommittedInTime'
    BY <1>1, <1>2, <1>8, <2>2 DEF Inv, Results, CommittedInTime
  <2>6. ContextDecides' /\ OwnDeadlineDecides'
    BY <1>2, <1>8, <2>2 DEF ContextDecides, OwnDeadlineDecides
  <2> QED
    BY <2>3, <2>4, <2>5, <2>6 DEF Inv
<1> QED
  BY <1>5, <1>6, <1>7, <1>8 DEF Settle

\* The wait before a retry ends with the timer or with the context.
LEMMA BackoffInv == ASSUME Inv, BackoffElapses \/ BackoffInterrupted PROVE Inv'
<1>1. Inv
  OBVIOUS
<1>2. /\ pc = "backoff" /\ outcome = "none" /\ config.kind = "model"
      /\ attempts < MaxSteps
      /\ UNCHANGED <<config, ctx, child, late, ret, code, attempts, retries>>
  BY <1>1 DEF BackoffElapses, BackoffInterrupted, Inv, Results, Attempts, progress
<1>3. CASE BackoffElapses
  <2>1. pc' = "top" /\ UNCHANGED outcome
    BY <1>3 DEF BackoffElapses, settled
  <2>2. TypeOK'
    BY <1>1, <1>2, <2>1 DEF Inv, TypeOK
  <2>3. LateContext' /\ LateOwn' /\ Attempts' /\ Results'
    BY <1>1, <1>2, <2>1 DEF Inv, LateContext, LateOwn, Attempts, Results
  <2> QED
    BY <1>2, <2>1, <2>2, <2>3, Unsettled DEF Inv
<1>4. CASE BackoffInterrupted
  <2>1. /\ ctx # "live" /\ pc' = "over" /\ outcome' = "cancelled"
        /\ error' = executionContextErr(ctx)
    BY <1>4 DEF BackoffInterrupted
  <2>2. TypeOK'
    BY <1>1, <1>2, <2>1 DEF Inv, TypeOK
  <2>3. LateContext' /\ LateOwn' /\ Attempts' /\ Results'
    BY <1>1, <1>2, <2>1 DEF Inv, LateContext, LateOwn, Attempts, Results
  <2>4. CommittedInTime' /\ ContextDecides' /\ OwnDeadlineDecides'
    BY <1>2, <2>1
    DEF CommittedInTime, ContextDecides, OwnDeadlineDecides, executionContextErr, Err
  <2> QED
    BY <2>2, <2>3, <2>4 DEF Inv
<1> QED
  BY <1>3, <1>4

\* Every step keeps the invariant.
LEMMA NextInv == ASSUME Inv, [Next]_vars PROVE Inv'
<1>1. CASE CallbackAnswers
  <2>1. PICK r \in Answers : Returns(r)
    BY <1>1 DEF CallbackAnswers
  <2> QED
    BY <2>1, AnswerTypes, ReturnsInv
<1>2. CASE CallbackObserves
  <2>1. PICK sentinels : Returns(Answer(FALSE, Error(sentinels), "none"))
    BY <1>2 DEF CallbackObserves
  <2>2. PICK r : r = Answer(FALSE, Error(sentinels), "none")
    OBVIOUS
  <2>3. r.ok = FALSE /\ Returns(r)
    BY <2>1, <2>2 DEF Answer
  <2> QED
    BY <2>3, ReturnsInv
<1>3. CASE UNCHANGED vars
  <2>1. UNCHANGED <<config, pc, ctx, child, late, ret, attempts, retries, code, outcome,
                    error>>
    BY <1>3 DEF vars, progress, settled
  <2>2. UNCHANGED <<TimedOut, TimeoutKind>>
    BY <2>1 DEF TimedOut, TimeoutKind
  <2>3. TypeOK'
    BY <2>1 DEF Inv, TypeOK
  <2>4. LateContext' /\ LateOwn' /\ Attempts' /\ Results'
    BY <2>1, <2>2 DEF Inv, LateContext, LateOwn, Attempts, Results
  <2>5. CommittedInTime' /\ ContextDecides'
    BY <2>1 DEF Inv, CommittedInTime, ContextDecides, executionContextErr, Err
  <2>6. OwnDeadlineDecides'
    BY <2>1, <2>2 DEF Inv, OwnDeadlineDecides
  <2> QED
    BY <2>3, <2>4, <2>5, <2>6 DEF Inv
<1> QED
  BY <1>1, <1>2, <1>3, ContextsInv, BeginInv, DispatchInv, ReplayInv, CheckParentInv,
     CheckChildInv, ObserveInv, SettleInv, BackoffInv
  DEF Next, Runtime, Over

\* The history variable and what the runtime sees stay tied together, which
\* includes the type invariant.
THEOREM InvHolds == Spec => []Inv
BY InitInv, NextInv, PTL DEF Spec

-----------------------------------------------------------------------------

\* No result that came after a deadline or a cancellation is committed, nor one
\* of a tool that was not called or asks for input (callback_timeout.go:
\* callbackTimeoutModel.Next, callbackTimeoutToolExecutor; runtime.go: run).
THEOREM CommitsInTime == Spec => []CommittedInTime
<1>1. Inv => CommittedInTime
  BY DEF Inv
<1> QED
  BY <1>1, InvHolds, PTL

\* A callback during which the execution context ended is cancelled with its
\* cause, and nothing else is cancelled (runtime.go: executionContextErr).
THEOREM ContextsDecide == Spec => []ContextDecides
<1>1. Inv => ContextDecides
  BY DEF Inv
<1> QED
  BY <1>1, InvHolds, PTL

\* A deadline of the callback's own that passed under a live context is recorded
\* as that timeout, and a model's only when its budget is used up
\* (callback_timeout.go; model_retry.go: IsTransientModelError).
THEOREM OwnDeadlinesDecide == Spec => []OwnDeadlineDecides
<1>1. Inv => OwnDeadlineDecides
  BY DEF Inv
<1> QED
  BY <1>1, InvHolds, PTL
=============================================================================
