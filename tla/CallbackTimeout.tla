--------------------------- MODULE CallbackTimeout ---------------------------
(***************************************************************************)
(* One callback boundary of the runtime with its deadline: the wrappers of *)
(* callback_timeout.go around a model or a tool, the contexts that may end *)
(* while it runs, and what run, replayPendingTool and the trace make of    *)
(* the error that comes back.  A model callback is repeated while it fails *)
(* transiently.  Store writes always succeed here; see Harness for those.  *)
(***************************************************************************)
EXTENDS OpenAIModel, ToolExecutors

CONSTANTS
  MaxSteps,    \* model attempts
  MaxRetries   \* automatic retries

ASSUME CallbackAssumption == MaxSteps \in Nat \ {0} /\ MaxRetries \in Nat

VARIABLES
  config,    \* [kind, timeout (configured?), cooperative (observes its context?)]
  pc,        \* where the runtime is
  ctx,       \* the execution context: "live" or why it ended
  child,     \* callbackCtx
  late,      \* history: which deadline or cancellation came before the return
  ret,       \* what the callback, then its wrapper, returned
  attempts, retries,
  code,      \* the error code of the completed event
  outcome,   \* how the callback was settled, "none" until then
  error      \* the error reported with the outcome

progress == <<attempts, retries>>
settled == <<outcome, error>>
vars == <<config, pc, ctx, child, late, ret, progress, code, settled>>

Kinds == {"model", "execute", "replay"}

\* reply is what a tool's external runtime had said.
Answer(ok, err, reply) == [ok |-> ok, err |-> err, reply |-> reply]
Nothing == Answer(FALSE, NoError, "none")
Unsupported == Answer(FALSE, Error({"errToolReplayUnsupported"}), "none")

\* ctx.Err(): a lost lease is a cancellation with a cause.
Err(c) == CASE c = "live" -> {}
            [] c = "deadline" -> {"DeadlineExceeded"}
            [] c \in {"canceled", "lost"} -> {"Canceled"}

\* executionContextErr: the cause where there is one.
executionContextErr(c) ==
  Error(IF c = "lost" THEN {"ErrExecutionLeaseLost"} ELSE Err(c))

Init ==
  /\ config \in [kind : Kinds, timeout : BOOLEAN, cooperative : BOOLEAN]
  /\ pc = "top" /\ ctx = "live" /\ child = "live"
  /\ late = "no" /\ ret = Nothing
  /\ attempts = 0 /\ retries = 0
  /\ code = "" /\ outcome = "none" /\ error = NoError

-----------------------------------------------------------------------------
(* Contexts.                                                               *)

\* The caller cancels, its deadline passes, or the lease is lost.
ContextEnds(why) ==
  /\ ctx = "live" /\ pc # "over"
  /\ ctx' = why
  /\ child' = IF child = "live" THEN (IF why = "deadline" THEN why ELSE "canceled") ELSE child
  /\ UNCHANGED <<config, pc, late, ret, progress, code, settled>>

InCallback == pc \in {"call", "wrapped", "checked"}

\* The deadline of context.WithTimeout.
ChildExpires ==
  /\ config.timeout /\ InCallback /\ child = "live"
  /\ child' = "deadline"
  /\ UNCHANGED <<config, pc, ctx, late, ret, progress, code, settled>>

-----------------------------------------------------------------------------
(* The callback and its wrapper.                                           *)

\* Loop top, reservation and second check.  A tool has one attempt; a replay
\* begins without a check.  A retry leaves room for another attempt.
Begin ==
  /\ pc = "top"
  /\ \/ /\ ctx # "live" /\ config.kind # "replay"
        /\ pc' = "over" /\ outcome' = "cancelled" /\ error' = executionContextErr(ctx)
        /\ UNCHANGED progress
     \/ /\ ctx = "live" \/ config.kind = "replay"
        /\ pc' = "dispatch" /\ attempts' = attempts + 1
        /\ UNCHANGED <<retries, settled>>
  /\ UNCHANGED <<config, ctx, child, late, ret, code>>

\* callbackCtx is derived from ctx, which may have ended meanwhile.
Dispatch ==
  /\ pc = "dispatch"
  /\ pc' = "call"
  /\ child' = IF ctx = "lost" THEN "canceled" ELSE ctx
  /\ late' = "no" /\ ret' = Nothing
  /\ UNCHANGED <<config, ctx, progress, code, settled>>

\* An executor without Replay: the wrapper has the method all the same and
\* refuses; without a wrapper nothing is called, or checked.
ReplayUnsupported ==
  /\ config.kind = "replay" /\ pc = "dispatch"
  /\ \/ /\ config.timeout
        /\ pc' = "returned" /\ ret' = Unsupported
        /\ late' = IF ctx = "live" THEN "no" ELSE "ctx"
        /\ UNCHANGED settled
     \/ /\ ~config.timeout
        /\ pc' = "over" /\ outcome' = "unknown" /\ error' = Unsupported.err
        /\ UNCHANGED <<ret, late>>
  /\ UNCHANGED <<config, ctx, child, progress, code>>

\* Mutant of Given: the wrapper passes on the context it got.
GivenParent == Err(ctx)

\* The error of the context that the callback was given.
Given == IF config.timeout THEN Err(child) ELSE Err(ctx)

Returns(r) ==
  /\ pc = "call"
  /\ ret' = r
  /\ late' = IF ctx # "live" THEN "ctx"
             ELSE IF config.timeout /\ child # "live" THEN "own" ELSE "no"
  /\ pc' = IF config.timeout THEN "wrapped" ELSE "returned"
  /\ UNCHANGED <<config, ctx, child, progress, code, settled>>

\* What a model returns whatever its context: what the adapter makes of the
\* provider's responses (the decision may still be invalid), or another error.
\* An error may wrap a context error of the callback's own, such as that of an
\* http.Client with a timeout.
ModelAnswers ==
  {Answer(a.err = NoError /\ Validate(a.decision),
          IF a.err = NoError /\ ~Validate(a.decision)
          THEN Error({"ErrInvalidDecision"}) ELSE a.err, "none") :
     a \in {ModelNext(r, own) : r \in Response, own \in SUBSET {"DeadlineExceeded"}}}
  \cup {Answer(FALSE, Error({"callback"}), "none")}

ToolAnswers ==
  {Answer(e.ok, IF e.ok THEN NoError ELSE Error({e.sentinel}), e.reply) : e \in Executions}

Answers == IF config.kind = "model" THEN ModelAnswers ELSE ToolAnswers

\* The callback finishes in its own time, perhaps too late.
CallbackAnswers == \E r \in Answers : Returns(r)

\* The callback notices that its context ended.
CallbackObserves ==
  /\ config.cooperative /\ Given # {}
  /\ Returns(Answer(FALSE, Error(Given \cup
       (IF config.kind = "model" THEN {"ErrModelProvider"} ELSE {"callback"})), "none"))

\* The wrapper reads ctx.Err() ...
CheckParent ==
  /\ pc = "wrapped"
  /\ IF ctx # "live"
     THEN pc' = "returned" /\ ret' = Answer(FALSE, Error(Err(ctx)), "none")
     ELSE pc' = "checked" /\ UNCHANGED ret
  /\ UNCHANGED <<config, ctx, child, late, progress, code, settled>>

TimeoutKind == IF config.kind = "model" THEN "ErrModelTimeout" ELSE "ErrToolTimeout"

\* Mutant of CheckChild: only an error is looked at.
CheckChildErrors ==
  /\ pc = "checked"
  /\ ret' = IF child = "deadline" /\ ret.err # NoError
            THEN Answer(FALSE, Error({TimeoutKind, "DeadlineExceeded"}), "none")
            ELSE ret
  /\ pc' = "returned"
  /\ UNCHANGED <<config, ctx, child, late, progress, code, settled>>

\* ... and then callbackCtx.Err().
CheckChild ==
  /\ pc = "checked"
  /\ ret' = IF child = "deadline"
            THEN Answer(FALSE, Error({TimeoutKind, "DeadlineExceeded"}), "none")
            ELSE ret
  /\ pc' = "returned"
  /\ UNCHANGED <<config, ctx, child, late, progress, code, settled>>

-----------------------------------------------------------------------------
(* The runtime.                                                            *)

\* The switch of classifyTraceError in its order, without the sentinels that no
\* error of a callback here can wrap.
TraceCodes == <<
  <<"ErrModelTimeout", "model_timeout">>,
  <<"ErrToolTimeout", "tool_timeout">>,
  <<"Canceled", "context_canceled">>,
  <<"DeadlineExceeded", "context_deadline_exceeded">>,
  <<"ErrInvalidRequest", "invalid_request">>,
  <<"ErrMCPInputRequired", "mcp_input_required">>,
  <<"ErrModelProvider", "model_provider_error">>,
  <<"ErrModelResponse", "model_response_error">> >>

classifyTraceError(err) ==
  LET first == SelectInSeq(TraceCodes, LAMBDA entry : Is(err, entry[1])) IN
  IF err = NoError THEN ""
  ELSE IF err.status # 0 THEN "model_provider_http_error"
  ELSE IF first > 0 THEN TraceCodes[first][2]
  ELSE IF config.kind = "model" THEN "model_callback_error" ELSE "tool_callback_error"

\* The completed event, before anything is decided.  A replay has no events.
\* A decision is validated later, so the event carries no error for it.
Observe ==
  /\ pc = "returned"
  /\ pc' = "observed"
  /\ code' = IF config.kind = "replay" \/ Is(ret.err, "ErrInvalidDecision") THEN ""
             ELSE classifyTraceError(ret.err)
  /\ UNCHANGED <<config, ctx, child, late, ret, progress, settled>>

canRetryModel ==
  /\ config.kind = "model" /\ IsTransientModelError(ret.err)
  /\ retries < MaxRetries /\ attempts < MaxSteps

\* Mutant of Settle: the error of the callback is believed.
SettleUnchecked ==
  /\ pc = "observed"
  /\ \/ ret.err # NoError /\ canRetryModel
        /\ pc' = "backoff" /\ retries' = retries + 1 /\ UNCHANGED <<attempts, settled>>
     \/ ret.err # NoError /\ ~canRetryModel
        /\ pc' = "over" /\ outcome' = "failed" /\ error' = ret.err /\ UNCHANGED progress
     \/ ret.ok
        /\ pc' = "over" /\ outcome' = "committed" /\ error' = NoError /\ UNCHANGED progress
  /\ UNCHANGED <<config, ctx, child, late, ret, code>>

\* The context is checked again, whether there is an error or not.
Settle ==
  /\ pc = "observed"
  /\ \/ /\ ctx # "live"
        /\ pc' = "over" /\ outcome' = "cancelled" /\ error' = executionContextErr(ctx)
        /\ UNCHANGED progress
     \/ /\ ctx = "live" /\ canRetryModel
        /\ pc' = "backoff" /\ retries' = retries + 1
        /\ UNCHANGED <<attempts, settled>>
     \/ /\ ctx = "live" /\ ~ret.ok /\ ~canRetryModel
        /\ pc' = "over"
        /\ outcome' = IF Is(ret.err, "errToolReplayUnsupported") THEN "unknown" ELSE "failed"
        /\ error' = ret.err
        /\ UNCHANGED progress
     \/ /\ ctx = "live" /\ ret.ok
        /\ pc' = "over" /\ outcome' = "committed" /\ error' = NoError
        /\ UNCHANGED progress
  /\ UNCHANGED <<config, ctx, child, late, ret, code>>

\* waitModelRetry: the timer, or the end of the context.  With both ready
\* either may win.
BackoffElapses ==
  /\ pc = "backoff"
  /\ pc' = "top"
  /\ UNCHANGED <<config, ctx, child, late, ret, progress, code, settled>>

BackoffInterrupted ==
  /\ pc = "backoff" /\ ctx # "live"
  /\ pc' = "over" /\ outcome' = "cancelled" /\ error' = executionContextErr(ctx)
  /\ UNCHANGED <<config, ctx, child, late, ret, progress, code>>

Over == pc = "over" /\ UNCHANGED vars

Runtime ==
  \/ Begin \/ Dispatch \/ ReplayUnsupported \/ CheckParent \/ CheckChild \/ Observe \/ Settle
  \/ BackoffElapses \/ BackoffInterrupted

Next ==
  \/ \E why \in {"canceled", "deadline", "lost"} : ContextEnds(why)
  \/ ChildExpires \/ CallbackAnswers \/ CallbackObserves \/ Runtime \/ Over

Spec == Init /\ [][Next]_vars

\* The runtime runs, deadlines pass and a cooperative callback notices.  No
\* caller has to cancel and no provider has to answer.
FairSpec ==
  Spec /\ WF_vars(Runtime) /\ WF_vars(ChildExpires) /\ WF_vars(CallbackObserves)

-----------------------------------------------------------------------------
(* Properties.                                                             *)

TypeOK ==
  /\ config \in [kind : Kinds, timeout : BOOLEAN, cooperative : BOOLEAN]
  /\ pc \in {"top", "dispatch", "call", "wrapped", "checked", "returned",
             "observed", "backoff", "over"}
  /\ ctx \in {"live", "canceled", "deadline", "lost"}
  /\ child \in {"live", "canceled", "deadline"}
  /\ late \in {"no", "own", "ctx"}
  /\ ret.ok \in BOOLEAN /\ (ret.ok => ret.err = NoError)
  /\ attempts \in 0..MaxSteps /\ retries \in 0..MaxRetries
  /\ outcome \in {"none", "committed", "failed", "cancelled", "unknown"}

\* What is committed is a result, and came in time: nothing that arrives after a
\* deadline or a cancellation, although the callback reported success
\* (CALLBACK_TIMEOUTS.md, "Late results"), and of a tool neither a call that was
\* not made nor one that still asks for input.
CommittedInTime ==
  outcome = "committed" =>
    late = "no" /\ (config.kind # "model" => ret.reply = "result")

\* The end of the execution context decides, and nothing else does: ended while
\* the callback ran, the outcome is cancelled with its cause, whatever error
\* came back; still live, neither a timeout nor any error is a cancellation.
ContextDecides ==
  /\ outcome = "cancelled" => ctx # "live" /\ error = executionContextErr(ctx)
  /\ pc \in {"backoff", "over"} /\ late = "ctx" => outcome = "cancelled"

\* The callback's own deadline, passed under a live context before the callback
\* returned, is what is recorded, and for a model it uses up a retry: no late
\* error or late answer of the callback is taken instead.
OwnDeadlineDecides ==
  late = "own" /\ ctx = "live" /\ pc = "over" =>
    /\ outcome = "failed" /\ Is(error, TimeoutKind)
    /\ config.kind # "replay" => code \in {"model_timeout", "tool_timeout"}
    /\ config.kind = "model" => retries = MaxRetries \/ attempts = MaxSteps

\* With a timeout and a cooperative callback every execution comes to an end,
\* although its provider may never answer.
DeadlineEnds == config.timeout /\ config.cooperative => <>(pc = "over")

=============================================================================
