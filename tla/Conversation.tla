---------------------------- MODULE Conversation ----------------------------
(***************************************************************************)
(* The conversation that a provider sees: the runtime's loop (runtime.go)  *)
(* with the OpenAI adapter as its model, against a provider that answers   *)
(* anything.  Workers crash, are cancelled and resume each other's work;   *)
(* with a lease store a replaced worker may still be running, and is told  *)
(* so by its next write at the latest.  What the provider sees depends on  *)
(* the checkpoint, the loop and the adapter together.                      *)
(***************************************************************************)
EXTENDS OpenAIModel

CONSTANTS
  Workers,   \* processes that run or resume the execution
  MaxSteps   \* the attempt budget

ASSUME ConversationAssumption == Workers # {} /\ MaxSteps \in Nat \ {0}

VARIABLES
  leased,    \* a lease store: a worker can be replaced while it runs; FALSE:
             \* the lock of FileStore, which its process holds to the end
  owner,     \* the worker that acquired the execution last
  pc,        \* pc[w]: "top", "call" (attempt reserved, before Next), "model"
             \* (in Next), "tool" (intent stored, or in Execute), "settle" (in
             \* Resume, before the pending call is settled), "down"
  cur,       \* cur[w]: the snapshot in memory
  stored,    \* the checkpoint
  request,   \* the messages of the last request, of whichever worker
  longest    \* history: the longest request so far

vars == <<leased, owner, pc, cur, stored, request, longest>>

\* A snapshot: call IDs of the steps, the pending call's ID or NoID, the
\* attempts reserved, and whether the execution has ended.
Created == [steps |-> <<>>, pending |-> NoID, attempts |-> 0, over |-> FALSE]

Init ==
  /\ leased \in BOOLEAN /\ owner \in Workers
  /\ pc = [w \in Workers |-> IF w = owner THEN "top" ELSE "down"]
  /\ cur = [w \in Workers |-> Created] /\ stored = Created
  /\ request = <<>> /\ longest = <<>>

\* Where the loop goes on, with what in memory; nothing is kept when it ends.
Goes(w, next, snapshot) ==
  /\ pc' = [pc EXCEPT ![w] = next]
  /\ cur' = [cur EXCEPT ![w] = IF next = "down" THEN Created ELSE snapshot]

\* Mutant of Persist: the write of a replaced worker is accepted.
PersistUnfenced(w, next, snapshot) ==
  /\ \/ stored' = snapshot /\ Goes(w, next, snapshot)
     \/ stored' \in {stored, snapshot} /\ Goes(w, "down", snapshot)
  /\ UNCHANGED <<leased, owner, request, longest>>

\* persist; the write may fail, and may then have taken effect or not.  That of
\* a replaced worker is refused.
Persist(w, next, snapshot) ==
  /\ \/ owner = w /\ stored' = snapshot /\ Goes(w, next, snapshot)
     \/ owner = w /\ stored' \in {stored, snapshot} /\ Goes(w, "down", snapshot)
     \/ owner # w /\ stored' = stored /\ Goes(w, "down", snapshot)
  /\ UNCHANGED <<leased, owner, request, longest>>

\* The deferred write of a terminal outcome.
Finish(w) == Persist(w, "down", [cur[w] EXCEPT !.over = TRUE])

\* Reserve an attempt.
Reserve(w) ==
  /\ pc[w] = "top" /\ cur[w].attempts < MaxSteps
  /\ Persist(w, "call", [cur[w] EXCEPT !.attempts = @ + 1])

\* Next sends the history in memory, whoever owns the execution by now.
Send(w) ==
  /\ pc[w] = "call"
  /\ request' = messages(cur[w].steps)
  /\ longest' = IF Len(request') > Len(longest) THEN request' ELSE longest
  /\ Goes(w, "model", cur[w])
  /\ UNCHANGED <<leased, owner, stored>>

StepLimit(w) ==
  /\ pc[w] = "top" /\ cur[w].attempts = MaxSteps
  /\ Finish(w)

\* Mutant of FreshCall: a repeated ID is accepted.
FreshCallAny(w, id) == id # NoID

\* The duplicate check of the loop.
FreshCall(w, id) == \A i \in DOMAIN cur[w].steps : cur[w].steps[i] # id

\* An error ends the execution or is retried, once the retry is reserved.
AnswerRefused(w, answer) ==
  /\ pc[w] = "model"
  /\ answer.err # NoError \/ ~Validate(answer.decision)
  /\ \/ Finish(w)
     \/ /\ IsTransientModelError(answer.err) /\ cur[w].attempts < MaxSteps
        /\ Persist(w, "top", cur[w])

AnswerFinal(w, answer) ==
  /\ pc[w] = "model" /\ answer.decision.kind = "final"
  /\ Finish(w)

\* A tool call: its intent is stored before Execute.
AnswerToolCall(w, answer) ==
  /\ pc[w] = "model" /\ answer.decision.kind = "tool_call" /\ Validate(answer.decision)
  /\ \/ ~FreshCall(w, answer.decision.id) /\ Finish(w)
     \/ /\ FreshCall(w, answer.decision.id)
        /\ Persist(w, "tool", [cur[w] EXCEPT !.pending = answer.decision.id])

\* Execute, or a replay or reconciliation, returns: the step is stored before
\* the loop goes on.
ToolCompleted(w) ==
  /\ pc[w] \in {"tool", "settle"}
  /\ Persist(w, "top", [cur[w] EXCEPT !.steps = Append(@, cur[w].pending),
                                      !.pending = NoID])

\* A failed Execute ends the execution, with the call still pending.
ToolFails(w) == pc[w] = "tool" /\ Finish(w)

\* The context is found done: the caller cancelled, or the lease was lost.
Cancelled(w) == pc[w] \in {"top", "call", "model", "tool"} /\ Finish(w)

\* The process or the invocation ends and writes nothing.
Ends(w) ==
  /\ Goes(w, "down", cur[w])
  /\ UNCHANGED <<leased, owner, stored, request, longest>>

\* Resume cannot settle the pending call: the execution stays as it is.
Unsettled(w) == pc[w] = "settle" /\ Ends(w)

Crash(w) == pc[w] # "down" /\ Ends(w)

\* Resume acquires the execution, which under the lock no other process may be
\* running, and continues from the checkpoint; a pending call is settled first,
\* by replay or reconciliation.
Resume(w) ==
  /\ pc[w] = "down" /\ ~stored.over
  /\ leased \/ \A v \in Workers : pc[v] = "down"
  /\ owner' = w
  /\ Goes(w, IF stored.pending = NoID THEN "top" ELSE "settle", stored)
  /\ UNCHANGED <<leased, stored, request, longest>>

\* What the adapter makes of every response.
Answers == {ModelNext(response, {}) : response \in Response}

Over == stored.over /\ (\A w \in Workers : pc[w] = "down") /\ UNCHANGED vars

Next ==
  \/ Over
  \/ \E w \in Workers :
       \/ Reserve(w) \/ Send(w) \/ StepLimit(w) \/ ToolCompleted(w) \/ ToolFails(w)
       \/ Cancelled(w) \/ Unsettled(w) \/ Crash(w) \/ Resume(w)
       \/ \E answer \in Answers : \/ AnswerRefused(w, answer) \/ AnswerFinal(w, answer)
                                  \/ AnswerToolCall(w, answer)

Spec == Init /\ [][Next]_vars

-----------------------------------------------------------------------------
(* Properties.                                                             *)

Roles == {"user", "assistant", "tool"}

Snapshots == [steps : Seq(CallIDs), pending : CallIDs \cup {NoID},
              attempts : 0..MaxSteps, over : BOOLEAN]

TypeOK ==
  /\ leased \in BOOLEAN /\ owner \in Workers
  /\ pc \in [Workers -> {"top", "call", "model", "tool", "settle", "down"}]
  /\ cur \in [Workers -> Snapshots] /\ stored \in Snapshots
  /\ request \in Seq([role : Roles, id : CallIDs \cup {NoID}])
  /\ longest \in Seq([role : Roles, id : CallIDs \cup {NoID}])

\* Every request is a conversation providers accept: each call of the
\* assistant is answered at once by the tool message with its ID, and no ID is
\* called or answered twice, whatever the provider returned before and to whom.
RequestWellFormed ==
  \A i \in DOMAIN request :
    /\ request[i].role = "assistant" =>
         /\ i + 1 \in DOMAIN request
         /\ request[i + 1] = [role |-> "tool", id |-> request[i].id]
    /\ request[i].role = "tool" =>
         /\ request[i - 1] = [role |-> "assistant", id |-> request[i].id]
         /\ \A j \in DOMAIN request :
              j # i /\ request[j].role = "tool" => request[j].id # request[i].id

\* There is one conversation, across failed writes, crashes, recovery and
\* takeover: what the owner of the execution sends extends everything that was
\* sent before, by whomever.  A worker that was replaced between its attempt's
\* reservation and Next may send an older history than the new owner did, but
\* only a beginning of the same conversation, never another past.  Under the
\* lock the sender is always the owner.
RequestsExtend ==
  [][\A w \in Workers :
       pc[w] = "call" /\ pc'[w] = "model" =>
         /\ IsPrefix(longest, request') \/ IsPrefix(request', longest)
         /\ owner = w \/ ~leased => IsPrefix(longest, request')]_vars
=============================================================================
