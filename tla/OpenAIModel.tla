----------------------------- MODULE OpenAIModel -----------------------------
(***************************************************************************)
(* The OpenAI-compatible model adapter (openai_model.go) as operators: the *)
(* messages of a request, the decision or error for a response, and the    *)
(* runtime's view of such errors (model_retry.go).                         *)
(*                                                                         *)
(* An error is the set of the sentinels that errors.Is finds in it, with   *)
(* the status of a ModelProviderHTTPError (0: there is none).              *)
(***************************************************************************)
EXTENDS Integers, Sequences, SequencesExt

CONSTANTS
  CallIDs,  \* IDs a provider may give to tool calls
  NoID      \* the empty ID

ASSUME AdapterAssumption == NoID \notin CallIDs

NoError == [is |-> {}, status |-> 0]
Error(sentinels) == [is |-> sentinels, status |-> 0]
Is(err, sentinel) == sentinel \in err.is

\* Status codes: one that succeeds, every transient one, some that are final.
Statuses == {200, 302, 400, 401, 404, 408, 429, 500, 501, 502, 503, 504}

\* The body, and the first choice in it: how many tool calls, of which type,
\* the ID of the first.
Body == [form : {"malformed", "no choices", "choices"},
         calls : 0..2, type : {"", "function", "other"}, id : CallIDs \cup {NoID},
         finish : {"", "stop", "length", "tool_calls"}, content : BOOLEAN]

\* arrived: whether Do and ReadAll succeed.
Response ==
  [arrived : BOOLEAN, oversized : BOOLEAN, status : Statuses, body : Body]

NoDecision == [kind |-> "none", id |-> NoID]

Returned(decision, err) == [decision |-> decision, err |-> err]
Refused(err) == Returned(NoDecision, err)

\* The decision of a message: a tool call takes precedence over content.
Decide(choice) ==
  IF choice.calls > 0
  THEN IF choice.calls = 1 /\ choice.type # "other"
       THEN Returned([kind |-> "tool_call", id |-> choice.id], NoError)
       ELSE Refused(Error({"ErrModelResponse"}))
  ELSE IF choice.finish \in {"", "stop"} /\ choice.content
       THEN Returned([kind |-> "final", id |-> NoID], NoError)
       ELSE Refused(Error({"ErrModelResponse"}))

\* Next of the adapter, from the response on.  ctxErr holds the context error that Do or
\* ReadAll wraps when the request was cut off.
ModelNext(response, ctxErr) ==
  CASE ~response.arrived -> Refused(Error({"ErrModelProvider"} \cup ctxErr))
    [] response.arrived /\ response.oversized -> Refused(Error({"ErrModelResponse"}))
    [] response.arrived /\ ~response.oversized /\ response.status \notin 200..299 ->
         Refused([is |-> {"ErrModelProvider"}, status |-> response.status])
    [] OTHER -> IF response.body.form = "choices" THEN Decide(response.body)
                ELSE Refused(Error({"ErrModelResponse"}))

\* Decision.Validate.  A call without a name is refused like one without an ID,
\* and NoID stands for both.
Validate(decision) ==
  \/ decision.kind = "final"
  \/ decision.kind = "tool_call" /\ decision.id # NoID

\* The conversation that a history of steps (their call IDs) is sent as.  A
\* configured system prompt is one more, constant first message.
messages(steps) ==
  [i \in 1..(1 + 2 * Len(steps)) |->
     IF i = 1 THEN [role |-> "user", id |-> NoID]
     ELSE [role |-> IF i % 2 = 0 THEN "assistant" ELSE "tool", id |-> steps[i \div 2]]]

\* Mutant of IsTransientModelError: a deadline counts as a cancellation.
IsTransientModelErrorNoDeadline(err) ==
  /\ err # NoError /\ ~Is(err, "Canceled") /\ ~Is(err, "DeadlineExceeded")
  /\ \/ Is(err, "ErrModelTimeout")
     \/ err.status \in {408, 429, 500, 502, 503, 504}
     \/ err.status = 0 /\ Is(err, "ErrModelProvider") /\ ~Is(err, "ErrModelResponse")

\* IsTransientModelError.
IsTransientModelError(err) ==
  /\ err # NoError /\ ~Is(err, "Canceled")
  /\ \/ Is(err, "ErrModelTimeout")
     \/ err.status \in {408, 429, 500, 502, 503, 504}
     \/ err.status = 0 /\ Is(err, "ErrModelProvider") /\ ~Is(err, "ErrModelResponse")
=============================================================================
