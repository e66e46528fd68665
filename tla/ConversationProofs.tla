------------------------- MODULE ConversationProofs -------------------------
(***************************************************************************)
(* Proofs that a provider is sent one well-formed, growing conversation,   *)
(* for any set of call IDs, any budget, any number of workers, crashes and *)
(* takeovers.                                                              *)
(*                                                                         *)
(* The checkpoint carries the argument: the owner's memory is the stored   *)
(* snapshot, the history of every other worker that is still running is a  *)
(* beginning of the stored one, stored IDs are distinct and differ from a  *)
(* pending one, and what was sent is the beginning of what the stored      *)
(* history is sent as.                                                     *)
(***************************************************************************)
EXTENDS Conversation, TLAPS

Message == [role : Roles, id : CallIDs \cup {NoID}]

Distinct(s) == \A i, j \in DOMAIN s : s[i] = s[j] => i = j

New(id, s) == \A i \in DOMAIN s : s[i] # id

\* A history and a later one.
Starts(s, t) == Len(s) <= Len(t) /\ \A i \in 1..Len(s) : s[i] = t[i]

\* A worker that runs has a beginning of the stored history; the owner has the
\* stored snapshot.  A call is pending exactly in Execute and in Resume.
Has(at, snapshot, s) ==
  at # "down" =>
    /\ Starts(snapshot.steps, s)
    /\ at \in {"tool", "settle"} <=> snapshot.pending # NoID

InStep(w) ==
  /\ Has(pc[w], cur[w], stored.steps)
  /\ owner = w /\ pc[w] # "down" => cur[w] = stored
  /\ ~leased /\ pc[w] # "down" => owner = w

\* No ID occurs twice, be it as a step or as the pending call.
Once(snapshot) == Distinct(snapshot.steps) /\ New(snapshot.pending, snapshot.steps)

\* What was sent is the beginning of a history, up to a tool message.
Begins(sent, s) ==
  /\ Len(sent) = 0 \/ Len(sent) % 2 = 1
  /\ Len(sent) <= 1 + 2 * Len(s)
  /\ \A i \in 1..Len(sent) : sent[i] = messages(s)[i]

Inv ==
  /\ TypeOK /\ Once(stored)
  /\ \A w \in Workers : InStep(w)
  /\ Begins(request, stored.steps) /\ Begins(longest, stored.steps)

-----------------------------------------------------------------------------
(* The messages of a history.                                              *)

\* Which message has which place (OpenAICompatibleModel.messages).
LEMMA MessageAt ==
  ASSUME NEW s \in Seq(CallIDs)
  PROVE  /\ messages(s) \in Seq(Message) /\ Len(messages(s)) = 1 + 2 * Len(s)
         /\ messages(s)[1] = [role |-> "user", id |-> NoID]
         /\ \A k \in 1..Len(s) :
              /\ messages(s)[2 * k] = [role |-> "assistant", id |-> s[k]]
              /\ messages(s)[2 * k + 1] = [role |-> "tool", id |-> s[k]]
<1> DEFINE n == 1 + 2 * Len(s)
           M(i) == IF i = 1 THEN [role |-> "user", id |-> NoID]
                   ELSE [role |-> IF i % 2 = 0 THEN "assistant" ELSE "tool",
                         id |-> s[i \div 2]]
<1>1. Len(s) \in Nat /\ n \in Nat /\ n >= 1
  OBVIOUS
<1>2. messages(s) = [i \in 1..n |-> M(i)]
  BY DEF messages
<1>3. M(1) = [role |-> "user", id |-> NoID]
  OBVIOUS
<1>4. ASSUME NEW k \in 1..Len(s)
      PROVE  /\ M(2 * k) = [role |-> "assistant", id |-> s[k]]
             /\ M(2 * k + 1) = [role |-> "tool", id |-> s[k]]
             /\ 2 * k \in 1..n /\ 2 * k + 1 \in 1..n
  <2>1. /\ 2 * k > 1 /\ (2 * k) % 2 = 0 /\ (2 * k) \div 2 = k /\ 2 * k # 1
        /\ 2 * k + 1 > 1 /\ (2 * k + 1) % 2 = 1 /\ (2 * k + 1) \div 2 = k
        /\ 2 * k + 1 # 1 /\ 2 * k \in 1..n /\ 2 * k + 1 \in 1..n
    BY <1>1
  <2> QED
    BY <2>1
<1>5. ASSUME NEW i \in 1..n PROVE M(i) \in Message
  <2>1. i = 1 \/ \E k \in 1..Len(s) : i = 2 * k \/ i = 2 * k + 1
    <3>1. i # 1 => /\ i \div 2 \in 1..Len(s)
                   /\ i = 2 * (i \div 2) \/ i = 2 * (i \div 2) + 1
      BY <1>1
    <3> QED
      BY <3>1
  <2>2. [role |-> "user", id |-> NoID] \in Message
    BY DEF Message, Roles
  <2>3. ASSUME NEW k \in 1..Len(s)
        PROVE  /\ [role |-> "assistant", id |-> s[k]] \in Message
               /\ [role |-> "tool", id |-> s[k]] \in Message
    BY DEF Message, Roles
  <2> QED
    BY <1>3, <1>4, <2>1, <2>2, <2>3
<1> HIDE DEF n, M
<1>6. messages(s) \in Seq(Message) /\ Len(messages(s)) = n
  BY <1>1, <1>2, <1>5
<1>7. 1 \in 1..n
  BY <1>1
<1> QED
  BY <1>2, <1>3, <1>4, <1>6, <1>7 DEF n

\* Of a longer history the same beginning is sent.
LEMMA LongerHistory ==
  ASSUME NEW s \in Seq(CallIDs), NEW t \in Seq(CallIDs), Starts(s, t),
         NEW sent, Len(sent) \in Nat, Begins(sent, s)
  PROVE  Begins(sent, t)
<1>1. Len(s) \in Nat /\ Len(t) \in Nat /\ Len(s) <= Len(t)
  BY DEF Starts
<1>2. ASSUME NEW i \in 1..(1 + 2 * Len(s)), i # 1
      PROVE  t[i \div 2] = s[i \div 2]
  <2>1. i \div 2 \in 1..Len(s)
    BY <1>1, <1>2
  <2> QED
    BY <2>1 DEF Starts
<1>3. ASSUME NEW i \in 1..Len(sent) PROVE sent[i] = messages(t)[i]
  <2>1. i \in 1..(1 + 2 * Len(s)) /\ i \in 1..(1 + 2 * Len(t))
    BY <1>1 DEF Begins
  <2>2. messages(t)[i] = messages(s)[i]
    BY <1>2, <2>1 DEF messages
  <2> QED
    BY <2>2 DEF Begins
<1> QED
  BY <1>1, <1>3 DEF Begins

\* The history itself is sent whole, and extends whatever was sent of it.
LEMMA HistorySent ==
  ASSUME NEW s \in Seq(CallIDs), NEW sent \in Seq(Message), Begins(sent, s)
  PROVE  Begins(messages(s), s) /\ IsPrefix(sent, messages(s))
<1> DEFINE m == messages(s)
<1>1. m \in Seq(Message) /\ Len(m) = 1 + 2 * Len(s) /\ Len(s) \in Nat
  BY MessageAt
<1>2. (1 + 2 * Len(s)) % 2 = 1
  BY <1>1
<1>3. Begins(m, s)
  BY <1>1, <1>2 DEF Begins
<1>4. Len(sent) <= Len(m) /\ \A i \in 1..Len(sent) : sent[i] = m[i]
  BY <1>1 DEF Begins
<1> HIDE DEF m
<1>5. SubSeq(sent, 1, Len(sent)) = SubSeq(m, 1, Len(sent))
  BY <1>1, <1>4
<1> QED
  BY <1>3, <1>4, <1>5 DEF IsPrefix, m

\* Of two beginnings of one history one extends the other.
LEMMA OneConversation ==
  ASSUME NEW s \in Seq(CallIDs), NEW a \in Seq(Message), NEW b \in Seq(Message),
         Begins(a, s), Begins(b, s)
  PROVE  IsPrefix(a, b) \/ IsPrefix(b, a)
<1>1. Len(a) \in Nat /\ Len(b) \in Nat
  OBVIOUS
<1>2. ASSUME NEW c \in Seq(Message), NEW d \in Seq(Message), Len(c) <= Len(d),
             \A i \in 1..Len(c) : c[i] = d[i]
      PROVE  IsPrefix(c, d)
  <2>1. SubSeq(c, 1, Len(c)) = SubSeq(d, 1, Len(c))
    BY <1>2
  <2> QED
    BY <1>2, <2>1 DEF IsPrefix
<1>3. CASE Len(a) <= Len(b)
  <2>1. \A i \in 1..Len(a) : a[i] = b[i]
    BY <1>1, <1>3 DEF Begins
  <2> QED
    BY <1>2, <1>3, <2>1
<1>4. CASE Len(b) <= Len(a)
  <2>1. \A i \in 1..Len(b) : b[i] = a[i]
    BY <1>1, <1>4 DEF Begins
  <2> QED
    BY <1>2, <1>4, <2>1
<1> QED
  BY <1>1, <1>3, <1>4

\* The beginning of a history of distinct IDs is a well-formed conversation.
LEMMA BeginningWellFormed ==
  ASSUME TypeOK, Distinct(stored.steps), Begins(request, stored.steps)
  PROVE  RequestWellFormed
<1> DEFINE s == stored.steps
           n == Len(request)
<1>1. s \in Seq(CallIDs) /\ Len(s) \in Nat /\ n \in Nat /\ DOMAIN request = 1..n
  BY DEF TypeOK, Snapshots
<1>2. (n = 0 \/ n % 2 = 1) /\ n <= 1 + 2 * Len(s)
  BY DEF Begins
<1> DEFINE Role(i) == IF i % 2 = 0 THEN "assistant" ELSE "tool"
<1>3. /\ 1 \in 1..n => request[1].role = "user"
      /\ \A i \in 1..n : i # 1 => request[i] = [role |-> Role(i), id |-> s[i \div 2]]
  <2>1. ASSUME NEW i \in 1..n
        PROVE  /\ i = 1 => request[i].role = "user"
               /\ i # 1 => request[i] = [role |-> Role(i), id |-> s[i \div 2]]
    <3>1. request[i] = messages(s)[i] /\ i \in 1..(1 + 2 * Len(s))
      BY <1>1, <1>2 DEF Begins
    <3> QED
      BY <3>1 DEF messages
  <2> QED
    BY <2>1
<1> HIDE DEF s, n
<1>4. ASSUME NEW i \in 1..n, i # 1
      PROVE  /\ request[i].role = Role(i) /\ request[i].id = s[i \div 2]
             /\ i \div 2 \in 1..Len(s) /\ i % 2 \in {0, 1}
  <2>1. i \div 2 \in 1..Len(s) /\ i % 2 \in {0, 1}
    BY <1>1, <1>2, <1>4
  <2>2. request[i] = [role |-> Role(i), id |-> s[i \div 2]]
    BY <1>3, <1>4
  <2> QED
    BY <2>1, <2>2
<1>5. ASSUME NEW i \in 1..n, request[i].role = "assistant"
      PROVE  i + 1 \in 1..n /\ request[i + 1] = [role |-> "tool", id |-> request[i].id]
  <2>1. i # 1
    BY <1>3, <1>5
  <2>2. i % 2 = 0
    BY <1>4, <1>5, <2>1
  <2>3. i + 1 \in 1..n /\ i + 1 # 1 /\ (i + 1) % 2 # 0 /\ (i + 1) \div 2 = i \div 2
    BY <1>1, <1>2, <2>2
  <2>4. request[i].id = s[i \div 2]
    BY <1>4, <2>1
  <2> QED
    BY <1>3, <2>3, <2>4
<1>6. ASSUME NEW i \in 1..n, request[i].role = "tool"
      PROVE  /\ request[i - 1] = [role |-> "assistant", id |-> request[i].id]
             /\ \A j \in 1..n :
                  j # i /\ request[j].role = "tool" => request[j].id # request[i].id
  <2>1. \A j \in 1..n : request[j].role = "tool" => j # 1 /\ j % 2 = 1
    BY <1>3, <1>4
  <2>2. /\ i - 1 \in 1..n /\ i - 1 # 1 /\ (i - 1) % 2 = 0 /\ (i - 1) \div 2 = i \div 2
    BY <1>1, <1>6, <2>1
  <2>3. request[i].id = s[i \div 2]
    BY <1>4, <1>6, <2>1
  <2>4. request[i - 1] = [role |-> "assistant", id |-> request[i].id]
    BY <1>3, <2>2, <2>3
  <2>5. ASSUME NEW j \in 1..n, j # i, request[j].role = "tool"
        PROVE  request[j].id # request[i].id
    <3>1. i \div 2 # j \div 2
      BY <1>1, <1>6, <2>1, <2>5
    <3>2. /\ i \div 2 \in DOMAIN s /\ j \div 2 \in DOMAIN s
          /\ request[j].id = s[j \div 2]
      <4>1. i # 1 /\ j # 1
        BY <1>6, <2>1, <2>5
      <4>2. i \div 2 \in 1..Len(s)
        BY <1>4, <4>1
      <4>3. j \div 2 \in 1..Len(s) /\ request[j].id = s[j \div 2]
        BY <1>4, <4>1
      <4>4. DOMAIN s = 1..Len(s)
        BY <1>1
      <4> QED
        BY <4>2, <4>3, <4>4
    <3>3. Distinct(s)
      BY DEF s
    <3> QED
      BY <2>3, <3>1, <3>2, <3>3 DEF Distinct
  <2> QED
    BY <2>4, <2>5
<1> QED
  BY <1>1, <1>5, <1>6 DEF RequestWellFormed

-----------------------------------------------------------------------------
(* The steps of the loop.                                                  *)

\* A decision names an ID of the provider, or none (OpenAICompatibleModel.Next).
LEMMA DecisionType ==
  ASSUME NEW answer \in Answers
  PROVE  answer.decision.id \in CallIDs \cup {NoID}
<1>1. PICK response \in Response : answer = ModelNext(response, {})
  BY DEF Answers
<1>2. ASSUME NEW err PROVE Refused(err).decision.id = NoID
  BY DEF Refused, Returned, NoDecision
<1>3. response.body.id \in CallIDs \cup {NoID}
  BY DEF Response, Body
<1>4. Decide(response.body).decision.id \in CallIDs \cup {NoID}
  <2>1. \/ \E err : Decide(response.body) = Refused(err)
        \/ Decide(response.body) =
             Returned([kind |-> "tool_call", id |-> response.body.id], NoError)
        \/ Decide(response.body) = Returned([kind |-> "final", id |-> NoID], NoError)
    BY Zenon DEF Decide
  <2> QED
    BY <1>2, <1>3, <2>1 DEF Returned
<1>5. \/ \E err : ModelNext(response, {}) = Refused(err)
      \/ ModelNext(response, {}) = Decide(response.body)
  BY Zenon DEF ModelNext
<1> QED
  BY <1>1, <1>2, <1>4, <1>5

\* Starts is an order on histories.
LEMMA StartsOrder ==
  ASSUME NEW s \in Seq(CallIDs), NEW t \in Seq(CallIDs), NEW u \in Seq(CallIDs)
  PROVE  Starts(s, s) /\ (Starts(s, t) /\ Starts(t, u) => Starts(s, u))
<1>1. Len(s) \in Nat /\ Len(t) \in Nat /\ Len(u) \in Nat
  OBVIOUS
<1> QED
  BY <1>1 DEF Starts

\* A worker moves to another point of the loop, or ends.
LEMMA GoesOf ==
  ASSUME TypeOK, NEW w \in Workers, NEW next, NEW snapshot \in Snapshots,
         next \in {"top", "call", "model", "tool", "settle", "down"},
         Goes(w, next, snapshot)
  PROVE  /\ pc'[w] = next /\ (next # "down" => cur'[w] = snapshot)
         /\ \A v \in Workers \ {w} : pc'[v] = pc[v] /\ cur'[v] = cur[v]
         /\ pc' \in [Workers -> {"top", "call", "model", "tool", "settle", "down"}]
         /\ cur' \in [Workers -> Snapshots]
<1>1. Created \in Snapshots
  <2>1. 0 \in 0..MaxSteps /\ <<>> \in Seq(CallIDs)
    BY ConversationAssumption
  <2> QED
    BY <2>1 DEF Created, Snapshots
<1>2. PICK kept \in Snapshots : /\ cur' = [cur EXCEPT ![w] = kept]
                                /\ next # "down" => kept = snapshot
  <2>1. CASE next = "down"
    BY <1>1, <2>1 DEF Goes
  <2>2. CASE next # "down"
    BY <2>2 DEF Goes
  <2> QED
    BY <2>1, <2>2
<1> QED
  BY <1>2 DEF Goes, TypeOK

\* A snapshot that may follow the one in memory.
Follows(w, next, snapshot) ==
  /\ snapshot \in Snapshots
  /\ Starts(cur[w].steps, snapshot.steps)
  /\ Once(cur[w]) => Once(snapshot)
  /\ next \in {"top", "call", "tool", "down"}
  /\ next # "down" => (next = "tool" <=> snapshot.pending # NoID)

\* A write by whoever runs keeps the invariant: the owner's snapshot follows
\* the stored one, and any other write is refused.
LEMMA PersistInv ==
  ASSUME Inv, NEW w \in Workers, pc[w] # "down", NEW next, NEW snapshot,
         Follows(w, next, snapshot), Persist(w, next, snapshot)
  PROVE  Inv' /\ UNCHANGED request
<1>1. /\ TypeOK /\ Once(stored) /\ \A v \in Workers : InStep(v)
      /\ Begins(request, stored.steps) /\ Begins(longest, stored.steps)
      /\ stored \in Snapshots /\ stored.steps \in Seq(CallIDs)
      /\ Len(request) \in Nat /\ Len(longest) \in Nat
  BY DEF Inv, TypeOK, Snapshots
<1>2. UNCHANGED <<leased, owner, request, longest>>
  BY DEF Persist
<1>3. /\ snapshot \in Snapshots /\ snapshot.steps \in Seq(CallIDs)
      /\ next \in {"top", "call", "model", "tool", "settle", "down"}
  BY DEF Follows, Snapshots
<1>4. /\ stored' \in Snapshots /\ stored'.steps \in Seq(CallIDs) /\ Once(stored')
      /\ Starts(stored.steps, stored'.steps)
  <2>1. CASE stored' = stored
    BY <1>1, <2>1, StartsOrder
  <2>2. CASE owner = w /\ stored' = snapshot
    <3>1. cur[w] = stored
      BY <1>1, <2>2 DEF InStep
    <3> QED
      BY <1>1, <1>3, <2>2, <3>1 DEF Follows
  <2> QED
    BY <2>1, <2>2 DEF Persist
<1>5. PICK at \in {next, "down"} :
        /\ Goes(w, at, snapshot)
        /\ at # "down" => owner = w /\ stored' = snapshot
  BY DEF Persist
<1>6. /\ pc'[w] = at /\ (at # "down" => cur'[w] = snapshot)
      /\ \A v \in Workers \ {w} : pc'[v] = pc[v] /\ cur'[v] = cur[v]
      /\ pc' \in [Workers -> {"top", "call", "model", "tool", "settle", "down"}]
      /\ cur' \in [Workers -> Snapshots]
  BY <1>1, <1>3, <1>5, GoesOf
<1>7. TypeOK'
  BY <1>1, <1>2, <1>4, <1>6 DEF TypeOK
<1>8. InStep(w)'
  <2>1. CASE at = "down"
    BY <1>6, <2>1 DEF InStep, Has
  <2>2. CASE at # "down"
    <3>1. at = next /\ cur'[w] = snapshot /\ stored' = snapshot /\ owner' = w
      BY <1>2, <1>5, <1>6, <2>2
    <3>2. Starts(snapshot.steps, snapshot.steps)
      BY <1>3, StartsOrder
    <3>3. at \in {"tool", "settle"} <=> snapshot.pending # NoID
      BY <2>2, <3>1 DEF Follows
    <3> QED
      BY <1>6, <3>1, <3>2, <3>3 DEF InStep, Has
  <2> QED
    BY <2>1, <2>2
<1>9. ASSUME NEW v \in Workers, v # w PROVE InStep(v)'
  <2>1. pc'[v] = pc[v] /\ cur'[v] = cur[v] /\ InStep(v)
    BY <1>1, <1>6, <1>9
  <2>2. pc[v] # "down" => Starts(cur[v].steps, stored'.steps)
    <3>1. cur[v].steps \in Seq(CallIDs)
      BY <1>1 DEF TypeOK, Snapshots
    <3>2. pc[v] # "down" => Starts(cur[v].steps, stored.steps)
      BY <2>1 DEF InStep, Has
    <3> QED
      BY <1>1, <1>4, <3>1, <3>2, StartsOrder
  <2>3. owner = v => stored' = stored
    BY <1>9 DEF Persist
  <2> QED
    BY <1>2, <2>1, <2>2, <2>3 DEF InStep, Has
<1>10. Begins(request', stored'.steps) /\ Begins(longest', stored'.steps)
  BY <1>1, <1>2, <1>4, LongerHistory
<1> QED
  BY <1>2, <1>4, <1>7, <1>8, <1>9, <1>10 DEF Inv

\* What a running worker has in memory.
LEMMA Memory ==
  ASSUME Inv, NEW w \in Workers, pc[w] # "down"
  PROVE  /\ cur[w] \in Snapshots /\ cur[w].steps \in Seq(CallIDs)
         /\ Starts(cur[w].steps, cur[w].steps)
         /\ Starts(cur[w].steps, stored.steps) /\ stored.steps \in Seq(CallIDs)
         /\ pc[w] \in {"tool", "settle"} <=> cur[w].pending # NoID
<1>1. cur[w] \in Snapshots /\ stored \in Snapshots /\ InStep(w)
  BY DEF Inv, TypeOK
<1>2. cur[w].steps \in Seq(CallIDs) /\ stored.steps \in Seq(CallIDs)
  BY <1>1 DEF Snapshots
<1> QED
  BY <1>1, <1>2, StartsOrder DEF InStep, Has

\* A write that keeps the history and the pending call.
LEMMA SameHistory ==
  ASSUME Inv, NEW w \in Workers, pc[w] # "down", NEW snapshot \in Snapshots,
         snapshot.steps = cur[w].steps, snapshot.pending = cur[w].pending,
         NEW next, \/ next = "down"
                   \/ next \in {"top", "call"} /\ pc[w] \notin {"tool", "settle"}
  PROVE  Follows(w, next, snapshot)
BY Memory DEF Follows, Once

\* Every outcome that is written is the history in memory, ended.
LEMMA FinishInv ==
  ASSUME Inv, NEW w \in Workers, pc[w] # "down", Finish(w)
  PROVE  Inv' /\ UNCHANGED request
<1>1. PICK snapshot : snapshot = [cur[w] EXCEPT !.over = TRUE]
  OBVIOUS
<1>2. /\ snapshot \in Snapshots /\ snapshot.steps = cur[w].steps
      /\ snapshot.pending = cur[w].pending
  BY <1>1, Memory DEF Snapshots
<1>3. Follows(w, "down", snapshot)
  BY <1>2, SameHistory
<1> QED
  BY <1>1, <1>3, PersistInv DEF Finish

\* A reservation changes the count only.
LEMMA ReserveInv ==
  ASSUME Inv, NEW w \in Workers, Reserve(w) PROVE Inv' /\ UNCHANGED request
<1>1. pc[w] = "top" /\ cur[w] \in Snapshots /\ cur[w].attempts < MaxSteps
  BY Memory DEF Reserve
<1>2. PICK snapshot : snapshot = [cur[w] EXCEPT !.attempts = cur[w].attempts + 1]
  OBVIOUS
<1>3. cur[w].attempts + 1 \in 0..MaxSteps
  BY <1>1, ConversationAssumption DEF Snapshots
<1>4. /\ snapshot \in Snapshots /\ snapshot.steps = cur[w].steps
      /\ snapshot.pending = cur[w].pending
  BY <1>1, <1>2, <1>3 DEF Snapshots
<1>5. Follows(w, "call", snapshot)
  BY <1>1, <1>4, SameHistory
<1> QED
  BY <1>1, <1>2, <1>5, PersistInv DEF Reserve

\* The request is a beginning of the stored history, and the owner's is all of
\* it.
LEMMA SendInv ==
  ASSUME Inv, NEW w \in Workers, Send(w)
  PROVE  /\ Inv'
         /\ IsPrefix(longest, request') \/ IsPrefix(request', longest)
         /\ owner = w \/ ~leased => IsPrefix(longest, request')
<1>1. /\ pc[w] = "call" /\ cur[w] \in Snapshots /\ cur[w].steps \in Seq(CallIDs)
      /\ Starts(cur[w].steps, stored.steps) /\ stored.steps \in Seq(CallIDs)
      /\ cur[w].pending = NoID
  BY Memory DEF Send
<1>2. /\ request' = messages(cur[w].steps) /\ Goes(w, "model", cur[w])
      /\ UNCHANGED <<leased, owner, stored>> /\ longest' \in {longest, request'}
  BY DEF Send
<1>3. /\ TypeOK /\ Once(stored) /\ \A v \in Workers : InStep(v)
      /\ longest \in Seq(Message) /\ Begins(longest, stored.steps)
  BY DEF Inv, TypeOK, Message
<1>4. request' \in Seq(Message) /\ Len(request') \in Nat
  BY <1>1, <1>2, MessageAt
<1>5. Begins(request', stored.steps)
  <2>1. Begins(<<>>, cur[w].steps) /\ <<>> \in Seq(Message)
    BY <1>1 DEF Begins
  <2>2. Begins(request', cur[w].steps)
    BY <1>1, <1>2, <2>1, HistorySent
  <2> QED
    BY <1>1, <1>4, <2>2, LongerHistory
<1>6. /\ pc'[w] = "model" /\ cur'[w] = cur[w]
      /\ \A v \in Workers \ {w} : pc'[v] = pc[v] /\ cur'[v] = cur[v]
      /\ pc' \in [Workers -> {"top", "call", "model", "tool", "settle", "down"}]
      /\ cur' \in [Workers -> Snapshots]
  BY <1>1, <1>2, <1>3, GoesOf
<1>7. \A v \in Workers : InStep(v)'
  BY <1>1, <1>2, <1>3, <1>6 DEF InStep, Has
<1>8. Inv'
  <2>1. TypeOK'
    BY <1>2, <1>3, <1>4, <1>6 DEF TypeOK, Message
  <2> QED
    BY <1>2, <1>3, <1>5, <1>7, <2>1 DEF Inv
<1>9. ASSUME owner = w \/ ~leased PROVE IsPrefix(longest, request')
  <2>1. cur[w] = stored
    BY <1>1, <1>3, <1>9 DEF InStep
  <2> QED
    BY <1>1, <1>2, <1>3, <2>1, HistorySent
<1> QED
  BY <1>1, <1>3, <1>4, <1>5, <1>8, <1>9, OneConversation

\* An error is final or the attempt is made again.
LEMMA AnswerRefusedInv ==
  ASSUME Inv, NEW w \in Workers, NEW answer \in Answers, AnswerRefused(w, answer)
  PROVE  Inv' /\ UNCHANGED request
<1>1. pc[w] = "model" /\ cur[w] \in Snapshots
  BY Memory DEF AnswerRefused
<1>2. Follows(w, "top", cur[w])
  BY <1>1, SameHistory
<1> QED
  BY <1>1, <1>2, PersistInv, FinishInv DEF AnswerRefused

\* A call is stored as pending only if no step has its ID.
LEMMA ToolCallInv ==
  ASSUME Inv, NEW w \in Workers, NEW answer \in Answers, AnswerToolCall(w, answer)
  PROVE  Inv' /\ UNCHANGED request
<1>1. PICK id : id = answer.decision.id
  OBVIOUS
<1>2. id \in CallIDs /\ id # NoID
  BY <1>1, DecisionType, AdapterAssumption DEF AnswerToolCall, Validate
<1>3. /\ pc[w] = "model" /\ cur[w] \in Snapshots
      /\ Starts(cur[w].steps, cur[w].steps)
  BY Memory DEF AnswerToolCall
<1>4. ASSUME FreshCall(w, id), Persist(w, "tool", [cur[w] EXCEPT !.pending = id])
      PROVE  Inv' /\ UNCHANGED request
  <2>1. PICK snapshot : snapshot = [cur[w] EXCEPT !.pending = id]
    OBVIOUS
  <2>2. /\ snapshot \in Snapshots /\ snapshot.steps = cur[w].steps
        /\ snapshot.pending = id
    BY <1>2, <1>3, <2>1 DEF Snapshots
  <2>3. Once(cur[w]) => Once(snapshot)
    BY <1>4, <2>2 DEF Once, New, FreshCall
  <2>4. Follows(w, "tool", snapshot)
    BY <1>2, <1>3, <2>2, <2>3 DEF Follows
  <2> QED
    BY <1>3, <1>4, <2>1, <2>4, PersistInv
<1> QED
  BY <1>1, <1>3, <1>4, FinishInv DEF AnswerToolCall

\* A settled call becomes the last step, under an ID that no step has.
LEMMA ToolCompletedInv ==
  ASSUME Inv, NEW w \in Workers, ToolCompleted(w)
  PROVE  Inv' /\ UNCHANGED request
<1> DEFINE steps == cur[w].steps
           pending == cur[w].pending
           longer == Append(steps, pending)
<1>1. /\ pc[w] \in {"tool", "settle"} /\ cur[w] \in Snapshots
      /\ steps \in Seq(CallIDs) /\ pending \in CallIDs
  BY Memory DEF ToolCompleted, Snapshots
<1>2. /\ longer \in Seq(CallIDs) /\ Len(longer) = Len(steps) + 1 /\ Len(steps) \in Nat
      /\ \A i \in 1..Len(steps) : longer[i] = steps[i]
      /\ longer[Len(steps) + 1] = pending
      /\ DOMAIN longer = 1..(Len(steps) + 1) /\ DOMAIN steps = 1..Len(steps)
  BY <1>1
<1>3. PICK snapshot : snapshot = [cur[w] EXCEPT !.steps = longer, !.pending = NoID]
  OBVIOUS
<1>4. Persist(w, "top", snapshot)
  BY <1>3 DEF ToolCompleted
<1> HIDE DEF longer, steps, pending
<1>5. ASSUME Distinct(steps), New(pending, steps) PROVE Distinct(longer)
  <2>1. ASSUME NEW i \in DOMAIN longer, NEW j \in DOMAIN longer,
               longer[i] = longer[j], i # j
        PROVE  FALSE
    <3>1. /\ \A k \in 1..Len(steps) : steps[k] # pending
          /\ \A k, l \in 1..Len(steps) : steps[k] = steps[l] => k = l
      BY <1>2, <1>5 DEF Distinct, New
    <3>2. i \in 1..Len(steps) \/ i = Len(steps) + 1
      BY <1>2
    <3>3. j \in 1..Len(steps) \/ j = Len(steps) + 1
      BY <1>2
    <3> QED
      BY <1>2, <2>1, <3>1, <3>2, <3>3
  <2> QED
    BY <2>1 DEF Distinct
<1>6. New(NoID, longer)
  BY <1>2, AdapterAssumption DEF New
<1>7. /\ snapshot \in Snapshots /\ snapshot.steps = longer /\ snapshot.pending = NoID
  BY <1>1, <1>2, <1>3 DEF Snapshots
<1>8. Once(cur[w]) => Once(snapshot)
  BY <1>5, <1>6, <1>7 DEF Once, steps, pending
<1>9. Starts(steps, longer)
  BY <1>2 DEF Starts
<1>10. Follows(w, "top", snapshot)
  BY <1>7, <1>8, <1>9 DEF Follows, steps
<1> QED
  BY <1>1, <1>4, <1>10, PersistInv

\* Whoever takes over has the stored snapshot; the worker it replaces keeps a
\* beginning of the stored history.
LEMMA ResumeInv ==
  ASSUME Inv, NEW w \in Workers, Resume(w) PROVE Inv' /\ UNCHANGED request
<1>1. /\ TypeOK /\ stored \in Snapshots /\ stored.steps \in Seq(CallIDs)
      /\ \A v \in Workers : InStep(v)
  BY DEF Inv, TypeOK, Snapshots
<1>2. PICK next \in {"top", "settle"} :
        /\ Goes(w, next, stored) /\ (next = "settle" <=> stored.pending # NoID)
  BY DEF Resume
<1>3. /\ pc'[w] = next /\ cur'[w] = stored
      /\ \A v \in Workers \ {w} : pc'[v] = pc[v] /\ cur'[v] = cur[v]
      /\ pc' \in [Workers -> {"top", "call", "model", "tool", "settle", "down"}]
      /\ cur' \in [Workers -> Snapshots]
  BY <1>1, <1>2, GoesOf
<1>4. /\ UNCHANGED <<leased, stored, request, longest>> /\ owner' = w
      /\ leased \/ \A v \in Workers : pc[v] = "down"
  BY DEF Resume
<1>5. TypeOK'
  BY <1>1, <1>3, <1>4 DEF TypeOK
<1>6. InStep(w)'
  <2>1. Starts(stored.steps, stored.steps)
    BY <1>1, StartsOrder
  <2> QED
    BY <1>2, <1>3, <1>4, <2>1 DEF InStep, Has
<1>7. ASSUME NEW v \in Workers, v # w PROVE InStep(v)'
  <2>1. pc'[v] = pc[v] /\ cur'[v] = cur[v] /\ InStep(v)
    BY <1>1, <1>3, <1>7
  <2> QED
    BY <1>4, <1>7, <2>1 DEF InStep, Has
<1> QED
  BY <1>4, <1>5, <1>6, <1>7 DEF Inv

\* An end without a write.
LEMMA EndsInv ==
  ASSUME Inv, NEW w \in Workers, pc[w] # "down", Ends(w)
  PROVE  Inv' /\ UNCHANGED request
<1>1. TypeOK /\ cur[w] \in Snapshots /\ \A v \in Workers : InStep(v)
  BY Memory DEF Inv
<1>2. /\ pc'[w] = "down"
      /\ \A v \in Workers \ {w} : pc'[v] = pc[v] /\ cur'[v] = cur[v]
      /\ pc' \in [Workers -> {"top", "call", "model", "tool", "settle", "down"}]
      /\ cur' \in [Workers -> Snapshots]
  BY <1>1, GoesOf DEF Ends
<1>3. UNCHANGED <<leased, owner, stored, request, longest>>
  BY DEF Ends
<1>4. TypeOK'
  BY <1>1, <1>2, <1>3 DEF TypeOK
<1>5. InStep(w)'
  BY <1>2 DEF InStep, Has
<1>6. ASSUME NEW v \in Workers, v # w PROVE InStep(v)'
  <2>1. pc'[v] = pc[v] /\ cur'[v] = cur[v] /\ InStep(v)
    BY <1>1, <1>2, <1>6
  <2> QED
    BY <1>3, <2>1 DEF InStep, Has
<1> QED
  BY <1>3, <1>4, <1>5, <1>6 DEF Inv

\* Nothing has been sent or stored at first.
LEMMA InitInv == Init => Inv
<1> SUFFICES ASSUME Init PROVE Inv
  OBVIOUS
<1>1. /\ <<>> \in Seq(CallIDs) /\ <<>> \in Seq(Message) /\ Len(<<>>) = 0
      /\ 0 \in 0..MaxSteps
  BY ConversationAssumption
<1>2. Created \in Snapshots /\ Created.steps = <<>> /\ Created.pending = NoID
  BY <1>1 DEF Created, Snapshots
<1>3. TypeOK
  BY <1>1, <1>2 DEF Init, TypeOK, Message
<1>4. Once(stored)
  BY <1>2 DEF Init, Once, Distinct, New
<1>5. Starts(<<>>, <<>>)
  BY DEF Starts
<1>6. \A w \in Workers : InStep(w)
  BY <1>2, <1>5 DEF Init, InStep, Has
<1>7. Begins(request, stored.steps) /\ Begins(longest, stored.steps)
  BY <1>2 DEF Init, Begins
<1> QED
  BY <1>3, <1>4, <1>6, <1>7 DEF Inv

\* The steps of a worker that send nothing.
LEMMA QuietInv ==
  ASSUME Inv, NEW w \in Workers,
         \/ Reserve(w) \/ StepLimit(w) \/ ToolCompleted(w) \/ ToolFails(w)
         \/ Cancelled(w) \/ Unsettled(w) \/ Crash(w) \/ Resume(w)
         \/ \E answer \in Answers : \/ AnswerRefused(w, answer) \/ AnswerFinal(w, answer)
                                    \/ AnswerToolCall(w, answer)
  PROVE  Inv' /\ UNCHANGED request
<1>1. CASE \/ StepLimit(w) \/ ToolFails(w) \/ Cancelled(w)
           \/ \E answer \in Answers : AnswerFinal(w, answer)
  <2>1. pc[w] # "down" /\ Finish(w)
    BY <1>1 DEF StepLimit, ToolFails, Cancelled, AnswerFinal
  <2> QED
    BY <2>1, FinishInv
<1>2. CASE Unsettled(w) \/ Crash(w)
  <2>1. pc[w] # "down" /\ Ends(w)
    BY <1>2 DEF Unsettled, Crash
  <2> QED
    BY <2>1, EndsInv
<1>3. CASE \E answer \in Answers : AnswerRefused(w, answer) \/ AnswerToolCall(w, answer)
  BY <1>3, AnswerRefusedInv, ToolCallInv
<1> QED
  BY <1>1, <1>2, <1>3, ReserveInv, ToolCompletedInv, ResumeInv

-----------------------------------------------------------------------------
(* The theorems.                                                           *)

\* What a request may be, given what was sent before.
Extends ==
  \A w \in Workers :
    pc[w] = "call" /\ pc'[w] = "model" =>
      /\ IsPrefix(longest, request') \/ IsPrefix(request', longest)
      /\ owner = w \/ ~leased => IsPrefix(longest, request')

\* Every step keeps the invariant.
LEMMA NextInv == ASSUME Inv, [Next]_vars PROVE Inv'
<1>1. CASE UNCHANGED vars
  BY <1>1 DEF vars, Inv, TypeOK, InStep
<1> QED
  BY <1>1, QuietInv, SendInv DEF Next, Over

\* No other step of a worker takes it, or another one, into Next.
LEMMA OnlySend ==
  ASSUME Inv, NEW v \in Workers, NEW w \in Workers, pc[w] = "call", pc'[w] = "model",
         \/ Reserve(v) \/ StepLimit(v) \/ ToolCompleted(v) \/ ToolFails(v)
         \/ Cancelled(v) \/ Unsettled(v) \/ Crash(v) \/ Resume(v)
         \/ \E answer \in Answers : \/ AnswerRefused(v, answer) \/ AnswerFinal(v, answer)
                                    \/ AnswerToolCall(v, answer)
  PROVE  FALSE
<1> DEFINE Others == {"top", "call", "tool", "settle", "down"}
<1>1. ASSUME NEW next \in Others, NEW snapshot, Goes(v, next, snapshot) PROVE FALSE
  <2>1. pc' = [pc EXCEPT ![v] = next] /\ pc \in [Workers -> Others \cup {"model"}]
    BY <1>1 DEF Goes, Inv, TypeOK
  <2> QED
    BY <1>1, <2>1
<1>2. ASSUME NEW next \in Others, NEW snapshot, Persist(v, next, snapshot) PROVE FALSE
  <2>1. Goes(v, next, snapshot) \/ Goes(v, "down", snapshot)
    BY <1>2 DEF Persist
  <2> QED
    BY <1>1, <2>1
<1>3. ~Finish(v)
  BY <1>2 DEF Finish
<1>4. ~Ends(v)
  BY <1>1 DEF Ends
<1>5. ~Resume(v)
  BY <1>1 DEF Resume
<1>6. ~Reserve(v) /\ ~ToolCompleted(v)
  BY <1>2 DEF Reserve, ToolCompleted
<1>7. ASSUME NEW answer \in Answers
      PROVE  /\ ~AnswerRefused(v, answer) /\ ~AnswerFinal(v, answer)
             /\ ~AnswerToolCall(v, answer)
  BY <1>2, <1>3 DEF AnswerRefused, AnswerFinal, AnswerToolCall
<1> QED
  BY <1>3, <1>4, <1>5, <1>6, <1>7
  DEF StepLimit, ToolFails, Cancelled, Unsettled, Crash

\* So a request that is sent is one that SendInv speaks of.
LEMMA NextExtends == ASSUME Inv, Next PROVE Extends \/ UNCHANGED vars
<1> SUFFICES ASSUME ~UNCHANGED vars, NEW w \in Workers, pc[w] = "call", pc'[w] = "model"
             PROVE  /\ IsPrefix(longest, request') \/ IsPrefix(request', longest)
                    /\ owner = w \/ ~leased => IsPrefix(longest, request')
  BY DEF Extends
<1>1. PICK v \in Workers : Send(v)
  BY OnlySend DEF Next, Over
<1>2. v = w
  <2>1. pc' = [pc EXCEPT ![v] = "model"] /\ pc \in [Workers -> {pc[x] : x \in Workers}]
    BY <1>1 DEF Send, Goes, Inv, TypeOK
  <2> QED
    BY <2>1
<1> QED
  BY <1>1, <1>2, SendInv

\* The checkpoint names every call once and contains what was sent, at every
\* point of every worker's loop.
THEOREM InvHolds == Spec => []Inv
BY InitInv, NextInv, PTL DEF Spec

\* Whatever a provider answers, it is sent conversations that providers accept
\* (openai_model.go: messages, with the duplicate check of runtime.go).
THEOREM ConversationsWellFormed == Spec => []RequestWellFormed
<1>1. Inv => RequestWellFormed
  BY BeginningWellFormed DEF Inv, Once
<1> QED
  BY <1>1, InvHolds, PTL

\* The owner's requests extend whatever any worker sent before, across failed
\* writes, crashes and takeovers, and a replaced worker's are a part of the same
\* conversation (runtime.go: a step is stored before the loop goes on, and only
\* the owner's writes are accepted).
THEOREM ConversationsExtend == Spec => RequestsExtend
<1>1. Inv /\ [Next]_vars => [Extends]_vars
  BY NextExtends
<1> QED
  BY <1>1, InvHolds, PTL DEF Spec, RequestsExtend, Extends
=============================================================================
