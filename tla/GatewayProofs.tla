---------------------------- MODULE GatewayProofs ----------------------------
(***************************************************************************)
(* Theorems about Gateway, for any number of requests, administrators,     *)
(* conversations, texts, scanner findings, guard verdicts and restarts.    *)
(***************************************************************************)
EXTENDS Gateway, FiniteSetTheorems, TLAPS

-----------------------------------------------------------------------------
(* The types of the operators the actions are built from. *)

LEMMA SeverityType == ASSUME NEW t \in Text, NEW g PROVE ClassifyText(t, g) \in Severity
<1>1. "none" \in Severity
  BY DEF Severity, Rank
<1> QED
  BY <1>1 DEF ClassifyText, MaxSeverity, Known

LEMMA IdType ==
    ASSUME NEW k \in Conv, NEW n \in Nat, NEW dir \in Direction
    PROVE  MakeMessageId(k, n, dir) \in MessageId /\ MakeMessageId(k, n, dir).dir = dir
  BY DEF MakeMessageId, MessageId

LEMMA EventTyped ==
    ASSUME NEW msg \in MessageId, NEW type \in EventType, NEW c \in Chat,
           NEW t \in Text \cup {None}
    PROVE  Event(msg, type, c, t) \in EventRow
  BY DEF Event, EventRow

LEMMA ApprovalEventType == ASSUME NEW v \in Verb PROVE ApprovalEvent[v] \in EventType
  BY DEF EventType

LEMMA ClassifiedType ==
    ASSUME NEW msg \in MessageId, NEW c \in Chat, NEW t \in Text
    PROVE  ClassifiedEvents(msg, c, t) \subseteq EventRow
<1>1. ClassifiedTypes["prompt"] \subseteq EventType
      /\ ClassifiedTypes["response"] \subseteq EventType
  BY DEF ClassifiedTypes, EventType
<1>2. msg.dir \in {"prompt", "response"}
  BY DEF MessageId, Direction
<1>3. ClassifiedTypes[msg.dir] \subseteq EventType
  BY <1>1, <1>2
<1> QED
  BY <1>3, EventTyped DEF ClassifiedEvents

LEMMA WriteEventsType ==
    ASSUME NEW es \in SUBSET EventRow, NEW ms, NEW new \in SUBSET EventRow
    PROVE  WriteEvents(es, ms, new) \subseteq EventRow
  BY DEF WriteEvents

LEMMA InsertType ==
    ASSUME NEW ms \in SUBSET MessageRow, IsFiniteSet(ms), NEW id \in MessageId, NEW t \in Text
    PROVE  /\ InsertMessage(ms, id, t) \subseteq MessageRow
           /\ IsFiniteSet(InsertMessage(ms, id, t))
  BY FS_AddElement DEF InsertMessage, MessageRow

LEMMA CountType ==
    ASSUME NEW k, IsFiniteSet(messages)
    PROVE  IsFiniteSet(Responses(messages, k)) /\ CompletedResponses(k) \in Nat
<1>1. IsFiniteSet(Responses(messages, k))
  BY FS_Subset DEF Responses
<1> QED
  BY <1>1, FS_CardinalityType DEF CompletedResponses

-----------------------------------------------------------------------------
(* Type correctness.  The turn index is a cardinality, so the invariant must *)
(* know that the messages table is finite.                                   *)
TypeInv == TypeOK /\ IsFiniteSet(messages)

(* The locals of an arrived request, in their types. *)
LEMMA LocalsType ==
    ASSUME TypeInv, NEW c \in Chat, pc[c] # "idle"
    PROVE  /\ prompt[c] \in Text /\ conv[c] \in Conv
           /\ PromptMsg(c) \in MessageId /\ PromptMsg(c).dir = "prompt"
           /\ ResponseMsg(c) \in MessageId /\ ResponseMsg(c).dir = "response"
           /\ reply[c] # None => reply[c] \in Reply /\ reply[c] \in Text
           /\ HeldText(c) \in Text /\ Redact[HeldText(c)] \in Text
           /\ Anchor(c) \in MessageId /\ Anchor(c).dir = Side(c)
           /\ HeldEvent(c) \in EventId
<1>1. /\ conv[c] \in Conv /\ turn[c] \in Nat /\ prompt[c] \in Prompt
      /\ reply[c] \in Reply \cup {None}
  BY DEF TypeInv, TypeOK, LocalsOK
<1>2. prompt[c] \in Text /\ (reply[c] # None => reply[c] \in Reply /\ reply[c] \in Text)
  BY <1>1, TextAssumption
<1>3. /\ PromptMsg(c) \in MessageId /\ PromptMsg(c).dir = "prompt"
      /\ ResponseMsg(c) \in MessageId /\ ResponseMsg(c).dir = "response"
  BY <1>1, IdType DEF PromptMsg, ResponseMsg, Direction
<1>4. HeldText(c) \in Text /\ Redact[HeldText(c)] \in Text
  BY <1>2, TextAssumption DEF HeldText, Side
<1>5. Anchor(c) \in MessageId /\ Anchor(c).dir = Side(c)
  BY <1>3 DEF Anchor, Side
<1>6. HeldType(c) \in EventType
  BY DEF HeldType, EventType
<1> QED
  BY <1>1, <1>2, <1>3, <1>4, <1>5, <1>6 DEF HeldEvent, EventId

LEMMA DecisionEventsType ==
    ASSUME TypeInv, NEW a \in Chat, pc[a] # "idle", NEW v \in Verb
    PROVE  DecisionEvents(v, a) \subseteq EventRow
<1>1. Event(Anchor(a), ApprovalEvent[v], a,
            IF v = "redacted_resumed" THEN Redact[HeldText(a)] ELSE None) \in EventRow
  BY LocalsType, EventTyped, ApprovalEventType
<1>2. "response.blocked" \in EventType
  BY DEF EventType
<1>3. Event(Anchor(a), "response.blocked", a, None) \in EventRow
  BY <1>2, LocalsType, EventTyped
<1> QED
  BY <1>1, <1>3 DEF DecisionEvents

(* What Decide writes, in types. *)
LEMMA DecideType ==
    ASSUME TypeInv, NEW d \in Admin, NEW v \in Verb, NEW a \in Chat, pc[a] # "idle",
           NEW ms, NEW delivery \in SUBSET EventRow, Decide(d, v, a, ms, delivery)
    PROVE  /\ events' \subseteq EventRow
           /\ adminActions' \subseteq ActionRow
           /\ redactions' \subseteq RedactionRow
           /\ approvals' \in [Chat -> Status]
           /\ pending' \subseteq pending
<1>1. events' \subseteq EventRow
  <2>1. delivery \cup DecisionEvents(v, a) \in SUBSET EventRow
    BY DecisionEventsType
  <2>2. events \in SUBSET EventRow
    BY DEF TypeInv, TypeOK
  <2> QED
    BY <2>1, <2>2, WriteEventsType DEF Decide
<1>2. adminActions' \subseteq ActionRow
  BY LocalsType DEF Decide, ActionRow, TypeInv, TypeOK
<1>3. redactions' \subseteq RedactionRow
  BY LocalsType DEF Decide, RedactionRow, TypeInv, TypeOK
<1>4. approvals' \in [Chat -> Status]
  BY DEF Decide, Status, TypeInv, TypeOK
<1>5. pending' \subseteq pending
  BY DEF Decide
<1> QED
  BY <1>1, <1>2, <1>3, <1>4, <1>5

LEMMA ClassifiedStepType ==
    ASSUME TypeInv, NEW c \in Chat, NEW msg \in MessageId, NEW t \in Text,
           NEW s \in Severity, NEW type \in EventType,
           Classified(c, msg, t, s, {Event(msg, type, c, t)})
    PROVE  sev' \in [Chat -> Severity] /\ events' \subseteq EventRow
<1>1. ClassifiedEvents(msg, c, t) \cup {Event(msg, type, c, t)} \in SUBSET EventRow
  BY ClassifiedType, EventTyped
<1>2. events \in SUBSET EventRow /\ sev \in [Chat -> Severity]
  BY DEF TypeInv, TypeOK
<1> QED
  BY <1>1, <1>2, WriteEventsType DEF Classified

LEMMA TypeNames ==
    /\ "approval.requested" \in EventType /\ "llm.request.started" \in EventType
    /\ "system.error" \in EventType /\ "response.blocked" \in EventType
    /\ "response.delivered" \in EventType /\ "llm.response.generated" \in EventType
  BY DEF EventType

LEMMA ChatTyped ==
    ASSUME TypeInv, NEW c \in Chat, Begin(c) \/ ChatStep(c)
    PROVE  TypeInv'
<1> USE DEF TypeInv, TypeOK, LocalsOK, Awaiting
<1>1. CASE Begin(c)
  <2>1. PICK k \in Conv, t \in Prompt :
           /\ conv' = [conv EXCEPT ![c] = k]
           /\ turn' = [turn EXCEPT ![c] = CompletedResponses(k)]
           /\ prompt' = [prompt EXCEPT ![c] = t]
           /\ messages' = InsertMessage(messages,
                              MakeMessageId(k, CompletedResponses(k), "prompt"), t)
    BY <1>1 DEF Begin
  <2>2. t \in Text
    BY TextAssumption
  <2>3. CompletedResponses(k) \in Nat
    BY CountType
  <2>4. MakeMessageId(k, CompletedResponses(k), "prompt") \in MessageId
    BY <2>3, IdType DEF Direction
  <2>5. messages' \subseteq MessageRow /\ IsFiniteSet(messages')
    BY <2>1, <2>2, <2>4, InsertType
  <2> QED
    BY <1>1, <2>1, <2>3, <2>5 DEF Begin, adminVars, restartVars
<1>2. CASE PausePrompt(c)
  <2>1. prompt[c] \in Text /\ PromptMsg(c) \in MessageId
    BY <1>2, LocalsType DEF PausePrompt
  <2>2. sev' \in [Chat -> Severity] /\ events' \subseteq EventRow
    BY <1>2, <2>1, SeverityType, TypeNames, ClassifiedStepType DEF PausePrompt
  <2>3. /\ pc[c] = "classify_prompt" /\ pc' = [pc EXCEPT ![c] = "paused"]
        /\ approvals' = [approvals EXCEPT ![c] = "pending"] /\ pending' = pending \cup {c}
        /\ UNCHANGED <<conv, turn, prompt, reply, adminVars, messages, adminActions,
                       redactions, sent, restartVars>>
    BY <1>2 DEF PausePrompt, OpenApproval
  <2> QED
    BY <2>2, <2>3 DEF Status, adminVars, restartVars
<1>3. CASE AllowPrompt(c)
  <2>1. prompt[c] \in Text /\ PromptMsg(c) \in MessageId
    BY <1>3, LocalsType DEF AllowPrompt
  <2>2. sev' \in [Chat -> Severity] /\ events' \subseteq EventRow
    BY <1>3, <2>1, SeverityType, TypeNames, ClassifiedStepType DEF AllowPrompt
  <2>3. sent' \subseteq Chat \X Text
    BY <1>3, <2>1 DEF AllowPrompt
  <2>4. /\ pc[c] = "classify_prompt" /\ pc' = [pc EXCEPT ![c] = "generate"]
        /\ UNCHANGED <<conv, turn, prompt, reply, adminVars, messages, approvals,
                       adminActions, redactions, pending, restartVars>>
    BY <1>3 DEF AllowPrompt
  <2> QED
    BY <2>2, <2>3, <2>4 DEF adminVars, restartVars
<1>4. CASE GuardError(c)
  BY <1>4 DEF GuardError, adminVars, dbVars, restartVars
<1>5. CASE Generated(c)
  <2>1. PICK t \in Reply : /\ reply' = [reply EXCEPT ![c] = t]
                           /\ messages' = InsertMessage(messages, ResponseMsg(c), t)
    BY <1>5 DEF Generated
  <2>2. t \in Text
    BY TextAssumption
  <2>3. ResponseMsg(c) \in MessageId
    BY <1>5, LocalsType DEF Generated
  <2>4. messages' \subseteq MessageRow /\ IsFiniteSet(messages')
    BY <2>1, <2>2, <2>3, InsertType
  <2> QED
    BY <1>5, <2>1, <2>4 DEF Generated, adminVars, restartVars
<1>6. CASE GenerateUnavailable(c)
  <2>1. PromptMsg(c) \in MessageId
    BY <1>6, LocalsType DEF GenerateUnavailable
  <2>2. {Event(PromptMsg(c), "system.error", c, None)} \in SUBSET EventRow
    BY <2>1, TypeNames, EventTyped
  <2>3. events' \subseteq EventRow
    BY <1>6, <2>2, WriteEventsType DEF GenerateUnavailable
  <2> QED
    BY <1>6, <2>3 DEF GenerateUnavailable, adminVars, restartVars
<1>7. CASE GenerateError(c)
  BY <1>7 DEF GenerateError, adminVars, dbVars, restartVars
<1>8. CASE PauseResponse(c)
  <2>1. reply[c] \in Text /\ ResponseMsg(c) \in MessageId
    BY <1>8, LocalsType, TextAssumption DEF PauseResponse
  <2>2. sev' \in [Chat -> Severity] /\ events' \subseteq EventRow
    BY <1>8, <2>1, SeverityType, TypeNames, ClassifiedStepType DEF PauseResponse
  <2>3. /\ pc[c] = "classify_response" /\ pc' = [pc EXCEPT ![c] = "paused"]
        /\ approvals' = [approvals EXCEPT ![c] = "pending"] /\ pending' = pending \cup {c}
        /\ UNCHANGED <<conv, turn, prompt, reply, adminVars, messages, adminActions,
                       redactions, sent, restartVars>>
    BY <1>8 DEF PauseResponse, OpenApproval
  <2> QED
    BY <2>2, <2>3 DEF Status, adminVars, restartVars
<1>9. CASE Deliver(c)
  <2>1. reply[c] \in Text /\ ResponseMsg(c) \in MessageId
    BY <1>9, LocalsType, TextAssumption DEF Deliver
  <2>2. sev' \in [Chat -> Severity] /\ events' \subseteq EventRow
    BY <1>9, <2>1, SeverityType, TypeNames, ClassifiedStepType DEF Deliver
  <2> QED
    BY <1>9, <2>2 DEF Deliver, adminVars, restartVars
<1> QED
  BY <1>1, <1>2, <1>3, <1>4, <1>5, <1>6, <1>7, <1>8, <1>9 DEF ChatStep

(* Receive puts a request of an administrator about a paused request on its  *)
(* way; a request about no context is answered at once.                      *)
LEMMA ReceiveType ==
    ASSUME TypeInv, NEW d \in Admin, NEW v \in Verb, NEW a \in Chat,
           NEW where \in {"generate", "done", "not_found"}, Receive(d, v, a, where),
           UNCHANGED chatVars, where = "generate" =>
               pc[a] = "paused" /\ v \in Releasing /\ reply[a] = None
    PROVE  /\ apc' \in [Admin -> {"idle", "generate", "done", "not_found", "outage",
                                  "error", "lost"}]
           /\ verb' \in [Admin -> Verb \cup {None}]
           /\ target' \in [Admin -> Chat \cup {None}]
           /\ \A x \in Admin : apc'[x] # "idle" => target'[x] \in Chat /\ verb'[x] \in Verb
           /\ \A x \in Admin : apc'[x] = "generate" =>
                 pc'[target'[x]] = "paused" /\ verb'[x] \in Releasing /\ reply'[target'[x]] = None
  BY DEF TypeInv, TypeOK, LocalsOK, Receive, chatVars

LEMMA DeliveredType ==
    ASSUME TypeInv, NEW a \in Chat, pc[a] # "idle", NEW t \in Text
    PROVE  /\ Event(ResponseMsg(a), "response.delivered", a, t) \in EventRow
           /\ Event(ResponseMsg(a), "llm.response.generated", a, t) \in EventRow
  BY LocalsType, TypeNames, EventTyped

LEMMA AdminTyped ==
    ASSUME TypeInv, NEW d \in Admin, AdminArrives(d) \/ AdminStep(d)
    PROVE  TypeInv'
<1>0. \A a \in pending : a \in Chat /\ pc[a] = "paused" /\ pc[a] # "idle"
  BY DEF TypeInv, TypeOK, LocalsOK
<1>1. CASE NotFound(d)
  <2>1. PICK v \in Verb, a \in Chat \ pending : Receive(d, v, a, "not_found")
    BY <1>1 DEF NotFound
  <2> QED
    BY <1>1, <2>1, ReceiveType DEF NotFound, TypeInv, TypeOK, LocalsOK, chatVars, dbVars, restartVars
<1>2. ASSUME NEW v \in {"rejected", "escalated"}, NEW a \in pending,
             Receive(d, v, a, "done"), Decide(d, v, a, messages, {}),
             UNCHANGED <<areply, chatVars, messages, sent, restartVars>>
      PROVE  TypeInv'
  <2>1. a \in Chat /\ pc[a] # "idle" /\ v \in Verb /\ {} \in SUBSET EventRow
    BY <1>0 DEF Verb
  <2> QED
    BY <1>2, <2>1, ReceiveType, DecideType
       DEF TypeInv, TypeOK, LocalsOK, chatVars, restartVars
<1>3. CASE Release(d)
  <2>1. PICK v \in Releasing, a \in pending, t \in Text :
           /\ Receive(d, v, a, "done")
           /\ areply' = [areply EXCEPT ![d] = t]
           /\ Decide(d, v, a, messages, {Event(ResponseMsg(a), "response.delivered", a, t)})
    <3>1. PICK v \in Releasing, a \in pending :
             LET t == IF v = "redacted_resumed" THEN Redact[reply[a]] ELSE reply[a] IN
             /\ Side(a) = "response"
             /\ Receive(d, v, a, "done")
             /\ areply' = [areply EXCEPT ![d] = t]
             /\ Decide(d, v, a, messages, {Event(ResponseMsg(a), "response.delivered", a, t)})
      BY <1>3 DEF Release
    <3>2. reply[a] \in Text /\ Redact[reply[a]] \in Text
      BY <1>0, <3>1, LocalsType, TextAssumption DEF Side
    <3> QED
      BY <3>1, <3>2
  <2>2. v \in Verb /\ a \in Chat /\ pc[a] # "idle"
    BY <1>0 DEF Verb, Releasing
  <2>3. {Event(ResponseMsg(a), "response.delivered", a, t)} \in SUBSET EventRow
    BY <2>2, DeliveredType
  <2>4. UNCHANGED <<chatVars, messages, sent, restartVars>>
    BY <1>3 DEF Release
  <2>5. areply' \in [Admin -> Text \cup {None}]
    BY <2>1 DEF TypeInv, TypeOK
  <2> QED
    BY <2>1, <2>2, <2>3, <2>4, <2>5, ReceiveType, DecideType
       DEF TypeInv, TypeOK, LocalsOK, chatVars, restartVars
<1>4. CASE Resume(d)
  <2>1. PICK v \in Releasing, a \in pending :
           /\ Side(a) = "prompt"
           /\ Receive(d, v, a, "generate")
           /\ sent' = sent \cup
                 {<<a, IF v = "redacted_resumed" THEN Redact[prompt[a]] ELSE prompt[a]>>}
    BY <1>4 DEF Resume
  <2>2. /\ v \in Verb /\ a \in Chat /\ pc[a] = "paused" /\ reply[a] = None
        /\ prompt[a] \in Text /\ Redact[prompt[a]] \in Text
    BY <1>0, <2>1, LocalsType, TextAssumption DEF Verb, Releasing, Side
  <2>3. sent' \subseteq Chat \X Text
    BY <2>1, <2>2 DEF TypeInv, TypeOK
  <2>4. UNCHANGED <<areply, chatVars, dbVars, pending, restartVars>>
    BY <1>4 DEF Resume
  <2> QED
    BY <2>1, <2>2, <2>3, <2>4, ReceiveType
       DEF TypeInv, TypeOK, LocalsOK, chatVars, dbVars, restartVars
<1>5. CASE ResumeDelivered(d)
  <2> DEFINE a == target[d]
             msg == ResponseMsg(a)
  <2>1. PICK t \in Reply :
           /\ messages' = InsertMessage(messages, msg, t)
           /\ areply' = [areply EXCEPT ![d] = t]
           /\ Decide(d, verb[d], a, messages',
                 {Event(msg, "llm.response.generated", a, t),
                  Event(msg, "response.delivered", a, t)})
    BY <1>5 DEF ResumeDelivered
  <2>2. a \in Chat /\ pc[a] # "idle" /\ verb[d] \in Verb
    BY <1>5 DEF ResumeDelivered, TypeInv, TypeOK, LocalsOK
  <2>3. t \in Text /\ msg \in MessageId
    BY <2>2, TextAssumption, LocalsType
  <2>4. messages' \subseteq MessageRow /\ IsFiniteSet(messages')
    BY <2>1, <2>3, InsertType DEF TypeInv, TypeOK
  <2>5. {Event(msg, "llm.response.generated", a, t),
         Event(msg, "response.delivered", a, t)} \in SUBSET EventRow
    BY <2>2, <2>3, DeliveredType
  <2>6. /\ apc[d] = "generate" /\ apc' = [apc EXCEPT ![d] = "done"]
        /\ UNCHANGED <<verb, target, chatVars, sent, restartVars>>
    BY <1>5 DEF ResumeDelivered
  <2>7. areply' \in [Admin -> Text \cup {None}]
    BY <2>1, <2>3 DEF TypeInv, TypeOK
  <2>8. /\ events' \subseteq EventRow /\ adminActions' \subseteq ActionRow
        /\ redactions' \subseteq RedactionRow /\ approvals' \in [Chat -> Status]
        /\ pending' \subseteq pending
    BY <2>1, <2>2, <2>5, DecideType
  <2> QED
    BY <2>4, <2>6, <2>7, <2>8 DEF TypeInv, TypeOK, LocalsOK, chatVars, restartVars
<1>6. CASE ResumeFailed(d)
  BY <1>6 DEF ResumeFailed, TypeInv, TypeOK, LocalsOK, chatVars, dbVars, restartVars
<1> QED
  BY <1>1, <1>2, <1>3, <1>4, <1>5, <1>6 DEF AdminArrives, AdminStep, Reject, Escalate

LEMMA TypePreserved == TypeInv /\ [Next]_vars => TypeInv'
<1> SUFFICES ASSUME TypeInv, [Next]_vars PROVE TypeInv'
  OBVIOUS
<1>1. CASE Restart
  <2>1. restarts' \in 0 .. MaxRestarts
    BY <1>1, RestartAssumption DEF Restart, TypeInv, TypeOK
  <2> QED
    BY <1>1, <2>1 DEF Restart, TypeInv, TypeOK, LocalsOK, Awaiting, dbVars
<1>2. CASE UNCHANGED vars
  BY <1>2 DEF vars, chatVars, adminVars, dbVars, restartVars, TypeInv, TypeOK, LocalsOK
<1> QED
  BY <1>1, <1>2, ChatTyped, AdminTyped DEF Next, Quiescent

LEMMA InitTyped == Init => TypeInv
<1> SUFFICES ASSUME Init PROVE TypeInv
  OBVIOUS
<1>1. "none" \in Severity
  BY DEF Severity, Rank
<1>2. restarts \in 0 .. MaxRestarts
  BY RestartAssumption DEF Init
<1>3. IsFiniteSet(messages)
  BY FS_EmptySet DEF Init
<1> QED
  BY <1>1, <1>2, <1>3 DEF Init, TypeInv, TypeOK, LocalsOK, Status

LEMMA TypeInvariant == Spec => []TypeInv
  BY InitTyped, TypePreserved, PTL DEF Spec

(* Every variable keeps its type; what is in the tables and in the resume    *)
(* contexts is about requests that have arrived, and a resumed context is    *)
(* always that of a paused prompt.                                           *)
THEOREM TypeCorrect == Spec => []TypeOK
<1>1. TypeInv => TypeOK
  BY DEF TypeInv
<1> QED
  BY <1>1, TypeInvariant, PTL

-----------------------------------------------------------------------------
(* Turns.  The turn of a request may be stale when its response row is       *)
(* inserted, but it is at most the count, and INSERT OR IGNORE inserts       *)
(* nothing at a turn below the count: so a new row is always the next one.   *)

Contiguous(ms) ==
    \A k \in Conv :
        {m.id.turn : m \in Responses(ms, k)} = 0 .. Cardinality(Responses(ms, k)) - 1

NoFewer(ms, ns) ==
    \A k \in Conv : Cardinality(Responses(ms, k)) <= Cardinality(Responses(ns, k))

LEMMA ContiguousIsTurns ==
    TurnsContiguous <=> /\ Contiguous(messages)
                        /\ \A c \in Chat : pc[c] # "idle" =>
                               turn[c] <= Cardinality(Responses(messages, conv[c]))
  BY DEF TurnsContiguous, Contiguous, ResponseTurns, CompletedResponses

LEMMA PromptInsert ==
    ASSUME TypeInv, Contiguous(messages), NEW id, id.dir = "prompt", NEW t
    PROVE  /\ Contiguous(InsertMessage(messages, id, t))
           /\ NoFewer(messages, InsertMessage(messages, id, t))
<1>1. ASSUME NEW k \in Conv
      PROVE  Responses(InsertMessage(messages, id, t), k) = Responses(messages, k)
  BY DEF InsertMessage, Responses
<1>2. \A k \in Conv : Cardinality(Responses(messages, k)) \in Nat
  BY CountType DEF TypeInv, CompletedResponses
<1> QED
  BY <1>1, <1>2 DEF Contiguous, NoFewer

LEMMA ResponseInsert ==
    ASSUME TypeInv, Contiguous(messages), NEW k \in Conv, NEW n \in Nat,
           n <= Cardinality(Responses(messages, k)), NEW t
    PROVE  LET ms == InsertMessage(messages, MakeMessageId(k, n, "response"), t) IN
           Contiguous(ms) /\ NoFewer(messages, ms)
<1> DEFINE id == MakeMessageId(k, n, "response")
           row == [id |-> id, text |-> t]
           ms == InsertMessage(messages, id, t)
           rs == Responses(messages, k)
<1>0. \A j \in Conv : Cardinality(Responses(messages, j)) \in Nat
  BY CountType DEF TypeInv, CompletedResponses
<1>1. CASE HasRow(messages, id)
  BY <1>0, <1>1 DEF InsertMessage, NoFewer
<1>2. CASE ~HasRow(messages, id)
  <2>1. ms = messages \cup {row}
    BY <1>2 DEF InsertMessage
  <2>2. id.conv = k /\ id.turn = n /\ id.dir = "response"
    BY DEF MakeMessageId
  <2>3. \A j \in Conv : j # k => Responses(ms, j) = Responses(messages, j)
    BY <2>1, <2>2 DEF Responses
  <2>4. Responses(ms, k) = rs \cup {row}
    BY <2>1, <2>2 DEF Responses
  <2>5. n \notin {m.id.turn : m \in rs}
    <3>1. SUFFICES ASSUME NEW m \in rs, m.id.turn = n PROVE FALSE
      OBVIOUS
    <3>2. m \in messages /\ m.id \in MessageId /\ m.id.conv = k /\ m.id.dir = "response"
      BY DEF Responses, TypeInv, TypeOK, MessageRow
    <3>3. m.id = id
      BY <3>1, <3>2, IdType DEF MessageId, MakeMessageId, Direction
    <3> QED
      BY <1>2, <3>2, <3>3 DEF HasRow
  <2>6. row \notin rs /\ n = Cardinality(rs)
    BY <1>0, <2>2, <2>5 DEF Contiguous
  <2>7. Cardinality(Responses(ms, k)) = n + 1
    BY <2>4, <2>6, CountType, FS_AddElement DEF TypeInv
  <2>8. {m.id.turn : m \in Responses(ms, k)} = {m.id.turn : m \in rs} \cup {n}
    <3>1. row.id.turn = n
      BY <2>2
    <3> HIDE DEF row, ms, rs, id
    <3> QED
      BY <2>4, <3>1
  <2>9. {m.id.turn : m \in Responses(ms, k)} = 0 .. Cardinality(Responses(ms, k)) - 1
    BY <2>6, <2>7, <2>8 DEF Contiguous
  <2> QED
    BY <1>0, <2>3, <2>6, <2>7, <2>9 DEF Contiguous, NoFewer
<1> QED
  BY <1>1, <1>2

(* A step that adds rows the conversations' turns can take, and leaves the   *)
(* turns of the requests alone.                                              *)
LEMMA TurnsKept ==
    ASSUME TypeInv, TurnsContiguous, Contiguous(messages'), NoFewer(messages, messages'),
           TypeInv', UNCHANGED <<conv, turn>>,
           \A c \in Chat : pc'[c] # "idle" => pc[c] # "idle"
    PROVE  TurnsContiguous'
<1>1. ASSUME NEW c \in Chat, pc'[c] # "idle"
      PROVE  turn[c] <= Cardinality(Responses(messages', conv[c]))
  <2>1. pc[c] # "idle" /\ conv[c] \in Conv /\ turn[c] \in Nat
    BY <1>1 DEF TypeInv, TypeOK, LocalsOK
  <2>2. turn[c] <= Cardinality(Responses(messages, conv[c]))
    BY <2>1, ContiguousIsTurns
  <2>3. /\ Cardinality(Responses(messages, conv[c])) \in Nat
        /\ Cardinality(Responses(messages', conv[c])) \in Nat
    BY CountType, FS_Subset, FS_CardinalityType DEF TypeInv, Responses, CompletedResponses
  <2> QED
    BY <2>1, <2>2, <2>3 DEF NoFewer
<1> QED
  BY <1>1 DEF TurnsContiguous, Contiguous, ResponseTurns, CompletedResponses

LEMMA TurnsPreserved == TypeInv /\ TurnsContiguous /\ [Next]_vars => TurnsContiguous'
<1> SUFFICES ASSUME TypeInv, TurnsContiguous, [Next]_vars, TypeInv' PROVE TurnsContiguous'
  BY TypePreserved
<1>0. Contiguous(messages) /\ NoFewer(messages, messages)
  BY CountType, ContiguousIsTurns DEF NoFewer, TypeInv, CompletedResponses
<1>1. ASSUME NEW c \in Chat, Begin(c) PROVE TurnsContiguous'
  <2>1. PICK k \in Conv, t \in Prompt :
           /\ conv' = [conv EXCEPT ![c] = k]
           /\ turn' = [turn EXCEPT ![c] = CompletedResponses(k)]
           /\ messages' = InsertMessage(messages,
                              MakeMessageId(k, CompletedResponses(k), "prompt"), t)
    BY <1>1 DEF Begin
  <2>2. Contiguous(messages') /\ NoFewer(messages, messages')
    BY <1>0, <2>1, PromptInsert DEF MakeMessageId
  <2>3. ASSUME NEW x \in Chat, pc'[x] # "idle"
        PROVE  turn'[x] <= Cardinality(Responses(messages', conv'[x]))
    <3>1. \A j \in Conv : /\ Cardinality(Responses(messages, j)) \in Nat
                          /\ Cardinality(Responses(messages', j)) \in Nat
      BY CountType, FS_Subset, FS_CardinalityType DEF TypeInv, Responses, CompletedResponses
    <3>2. CASE x = c
      <4>1. conv'[c] = k /\ turn'[c] = Cardinality(Responses(messages, k))
        BY <2>1 DEF CompletedResponses, TypeInv, TypeOK
      <4> QED
        BY <2>2, <3>1, <3>2, <4>1 DEF NoFewer
    <3>3. CASE x # c
      <4>1. /\ conv'[x] = conv[x] /\ turn'[x] = turn[x] /\ pc[x] # "idle"
            /\ conv[x] \in Conv /\ turn[x] \in Nat
        BY <1>1, <2>1, <2>3, <3>3 DEF Begin, TypeInv, TypeOK, LocalsOK
      <4>2. turn[x] <= Cardinality(Responses(messages, conv[x]))
        BY <4>1, ContiguousIsTurns
      <4> QED
        BY <2>2, <3>1, <4>1, <4>2 DEF NoFewer
    <3> QED
      BY <3>2, <3>3
  <2> QED
    BY <2>2, <2>3 DEF TurnsContiguous, Contiguous, ResponseTurns, CompletedResponses
<1>2. ASSUME NEW c \in Chat, pc[c] # "idle", NEW t,
             messages' = InsertMessage(messages, ResponseMsg(c), t),
             UNCHANGED <<conv, turn>>, \A x \in Chat : pc'[x] # "idle" => pc[x] # "idle"
      PROVE  TurnsContiguous'
  <2>1. /\ conv[c] \in Conv /\ turn[c] \in Nat
        /\ turn[c] <= Cardinality(Responses(messages, conv[c]))
    BY <1>2, ContiguousIsTurns DEF TypeInv, TypeOK, LocalsOK
  <2>2. Contiguous(messages') /\ NoFewer(messages, messages')
    BY <1>0, <1>2, <2>1, ResponseInsert DEF ResponseMsg
  <2> QED
    BY <1>2, <2>2, TurnsKept
<1>3. ASSUME UNCHANGED <<messages, conv, turn>>,
             \A x \in Chat : pc'[x] # "idle" => pc[x] # "idle"
      PROVE  TurnsContiguous'
  BY <1>0, <1>3, TurnsKept
<1>4. ASSUME NEW c \in Chat, ChatStep(c) PROVE TurnsContiguous'
  <2>1. \A x \in Chat : pc'[x] # "idle" => pc[x] # "idle"
    BY <1>4 DEF ChatStep, PausePrompt, AllowPrompt, GuardError, Generated,
         GenerateUnavailable, GenerateError, PauseResponse, Deliver, OpenApproval,
         TypeInv, TypeOK
  <2>2. CASE Generated(c)
    <3>1. PICK t \in Reply : messages' = InsertMessage(messages, ResponseMsg(c), t)
      BY <2>2 DEF Generated
    <3> QED
      BY <1>2, <2>1, <2>2, <3>1 DEF Generated
  <2>3. CASE ~Generated(c)
    BY <1>3, <1>4, <2>1, <2>3 DEF ChatStep, PausePrompt, AllowPrompt, GuardError,
         GenerateUnavailable, GenerateError, PauseResponse, Deliver, dbVars
  <2> QED
    BY <2>2, <2>3
<1>5. ASSUME NEW d \in Admin, AdminArrives(d) \/ AdminStep(d) PROVE TurnsContiguous'
  <2>1. CASE ResumeDelivered(d)
    <3>1. PICK t \in Reply : messages' = InsertMessage(messages, ResponseMsg(target[d]), t)
      BY <2>1 DEF ResumeDelivered
    <3>2. target[d] \in Chat /\ pc[target[d]] # "idle"
      BY <2>1 DEF ResumeDelivered, TypeInv, TypeOK, LocalsOK
    <3> QED
      BY <1>2, <2>1, <3>1, <3>2 DEF ResumeDelivered, chatVars
  <2>2. CASE ~ResumeDelivered(d)
    BY <1>3, <1>5, <2>2 DEF AdminArrives, AdminStep, NotFound, Reject, Escalate, Release,
         Resume, ResumeFailed, chatVars, dbVars
  <2> QED
    BY <2>1, <2>2
<1>6. CASE Restart
  <2>1. \A x \in Chat : pc'[x] # "idle" => pc[x] # "idle"
    BY <1>6 DEF Restart, Awaiting, TypeInv, TypeOK
  <2> QED
    BY <1>3, <1>6, <2>1 DEF Restart, dbVars
<1>7. CASE UNCHANGED vars
  BY <1>3, <1>7 DEF vars, chatVars, dbVars
<1> QED
  BY <1>1, <1>4, <1>5, <1>6, <1>7 DEF Next, Quiescent

(* However many requests read the count of a conversation before one of them *)
(* completes, and however late a resumed one inserts its reply, the          *)
(* conversation's response rows are its turns 0 .. n-1.                      *)
THEOREM TurnsAreContiguous == Spec => []TurnsContiguous
<1>1. Init => TurnsContiguous
  <2> SUFFICES ASSUME Init PROVE TurnsContiguous
    OBVIOUS
  <2>1. \A k : Responses(messages, k) = {}
    BY DEF Init, Responses
  <2>2. Cardinality({}) = 0
    BY FS_EmptySet
  <2>3. \A c \in Chat : pc[c] = "idle"
    BY DEF Init
  <2> QED
    BY <2>1, <2>2, <2>3 DEF TurnsContiguous, ResponseTurns, CompletedResponses
<1> QED
  BY <1>1, TypeInvariant, TurnsPreserved, PTL DEF Spec

-----------------------------------------------------------------------------
(* The queue.  Decide keeps the contexts in memory those of open rows.       *)

LEMMA DecideKeepsQueue ==
    ASSUME TypeInv, OpenRowsResumable, NEW d \in Admin, NEW v \in Verb, NEW a \in Chat,
           NEW ms, NEW delivery, Decide(d, v, a, ms, delivery), UNCHANGED orphaned,
           v = "escalated" => a \in pending
    PROVE  OpenRowsResumable'
<1>1. /\ approvals' = [approvals EXCEPT ![a] = v]
      /\ pending' = pending \ Popped(v, a)
  BY DEF Decide
<1>2. \A x \in Chat : approvals'[x] = IF x = a THEN v ELSE approvals[x]
  BY <1>1 DEF TypeInv, TypeOK
<1>3. CASE v = "escalated"
  BY <1>1, <1>2, <1>3 DEF OpenRowsResumable, Popped, Open, TypeInv, TypeOK
<1>4. CASE v # "escalated"
  BY <1>1, <1>2, <1>4 DEF OpenRowsResumable, Popped, Open, Verb, TypeInv, TypeOK
<1> QED
  BY <1>3, <1>4

LEMMA QueuePreserved == TypeInv /\ OpenRowsResumable /\ [Next]_vars => OpenRowsResumable'
<1> SUFFICES ASSUME TypeInv, OpenRowsResumable, [Next]_vars PROVE OpenRowsResumable'
  OBVIOUS
<1>1. ASSUME UNCHANGED <<approvals, pending, orphaned>> PROVE OpenRowsResumable'
  BY <1>1 DEF OpenRowsResumable
<1>2. ASSUME NEW c \in Chat, OpenApproval(c), UNCHANGED orphaned PROVE OpenRowsResumable'
  BY <1>2 DEF OpenApproval, OpenRowsResumable, Open, TypeInv, TypeOK
<1>3. ASSUME NEW c \in Chat, Begin(c) \/ ChatStep(c) PROVE OpenRowsResumable'
  BY <1>1, <1>2, <1>3 DEF Begin, ChatStep, PausePrompt, AllowPrompt, GuardError, Generated,
     GenerateUnavailable, GenerateError, PauseResponse, Deliver, dbVars, restartVars
<1>4. ASSUME NEW d \in Admin, AdminArrives(d) \/ AdminStep(d) PROVE OpenRowsResumable'
  <2>0. pending \subseteq Chat /\ Releasing \subseteq Verb \ {"escalated"}
        /\ "rejected" \in Verb \ {"escalated"} /\ "escalated" \in Verb
    BY DEF TypeInv, TypeOK, Releasing, Verb
  <2>1. CASE NotFound(d) \/ Resume(d) \/ ResumeFailed(d)
    BY <1>1, <2>1 DEF NotFound, Resume, ResumeFailed, dbVars, restartVars
  <2>2. CASE Reject(d) \/ Escalate(d)
    <3>1. PICK v \in {"rejected", "escalated"}, a \in pending : Decide(d, v, a, messages, {})
      BY <2>2 DEF Reject, Escalate
    <3> QED
      BY <2>0, <2>2, <3>1, DecideKeepsQueue DEF Reject, Escalate, restartVars
  <2>3. CASE Release(d)
    <3>1. PICK v \in Releasing, a \in pending : \E evs : Decide(d, v, a, messages, evs)
      BY <2>3 DEF Release
    <3>2. PICK evs : Decide(d, v, a, messages, evs)
      BY <3>1
    <3> QED
      BY <2>0, <2>3, <3>2, DecideKeepsQueue DEF Release, restartVars
  <2>4. CASE ResumeDelivered(d)
    <3>1. PICK ms, evs : Decide(d, verb[d], target[d], ms, evs)
      BY <2>4 DEF ResumeDelivered
    <3>2. verb[d] \in Releasing /\ target[d] \in Chat
      BY <2>4 DEF ResumeDelivered, TypeInv, TypeOK, LocalsOK
    <3> QED
      BY <2>0, <2>4, <3>1, <3>2, DecideKeepsQueue DEF ResumeDelivered, restartVars
  <2> QED
    BY <1>4, <2>1, <2>2, <2>3, <2>4 DEF AdminArrives, AdminStep
<1>5. CASE Restart
  BY <1>5 DEF Restart, OpenRowsResumable, dbVars
<1>6. CASE UNCHANGED vars
  BY <1>1, <1>6 DEF vars, dbVars, restartVars
<1> QED
  BY <1>3, <1>4, <1>5, <1>6 DEF Next, Quiescent

(* A context in memory is always that of an open approval, and an open       *)
(* approval has lost its context to nothing but a restart: no order of       *)
(* decisions leaves a request stuck in the queue or a resolved one           *)
(* releasable.                                                               *)
THEOREM QueueResumable == Spec => []OpenRowsResumable
<1>1. Init => OpenRowsResumable
  BY DEF Init, OpenRowsResumable, Open
<1> QED
  BY <1>1, TypeInvariant, QueuePreserved, PTL DEF Spec

-----------------------------------------------------------------------------
(* Holding.  The merged severity is no less than the scanner's, so a text    *)
(* the scanner would pause is paused whatever the guard answers.             *)
LEMMA ScannerCounts ==
    ASSUME NEW t \in Text, NEW g, ~IsPaused(ClassifyText(t, g))
    PROVE  ~IsPaused(Scan[t])
<1>1. Scan[t] \in Severity /\ Severity = {"none", "low", "medium", "high", "critical"}
  BY TextAssumption DEF Severity, Rank
<1>2. Known(Scan[t]) = Scan[t]
  BY <1>1 DEF Known
<1>3. ASSUME NEW s \in Severity
      PROVE  /\ IsPaused(s) <=> Rank[s] >= 3
             /\ Rank[s] \in Nat
  BY <1>1 DEF IsPaused, PauseSeverities, Rank
<1>4. Known(Verdict(g)) \in Severity
  BY <1>1 DEF Known
<1> QED
  BY <1>1, <1>2, <1>3, <1>4 DEF ClassifyText, MaxSeverity

(* A decision is about a paused request, and a resolved one has no context.  *)
DecisionInv ==
    /\ \A d \in Admin : apc[d] = "done" => pc[target[d]] = "paused"
    /\ \A d \in Admin : apc[d] = "done" /\ verb[d] \in Resolved => target[d] \notin pending

ReplyInv == DecisionInv /\ ReplyHeldUntilReleased

(* A decision that a handler completes at once on a context in memory.       *)
LEMMA DecidedAtOnce ==
    ASSUME TypeInv, ReplyInv, NEW d \in Admin, NEW v \in Verb, NEW a \in pending,
           NEW ms, NEW delivery, Receive(d, v, a, "done"), Decide(d, v, a, ms, delivery),
           UNCHANGED chatVars
    PROVE  ReplyInv'
<1>1. a \in Chat /\ pc[a] = "paused" /\ pending \subseteq Chat
  BY DEF TypeInv, TypeOK, LocalsOK
<1>2. /\ apc[d] = "idle" /\ apc'[d] = "done" /\ verb'[d] = v /\ target'[d] = a
      /\ \A x \in Admin \ {d} :
            apc'[x] = apc[x] /\ verb'[x] = verb[x] /\ target'[x] = target[x]
  BY DEF Receive, TypeInv, TypeOK
<1>3. pending' \subseteq pending /\ (v \in Resolved => a \notin pending')
  BY DEF Decide, Popped, Resolved
<1>4. UNCHANGED <<pc, reply, sev>> /\ \A x : Side(x)' = Side(x)
  BY DEF chatVars, Side
<1>5. DecisionInv'
  BY <1>1, <1>2, <1>3, <1>4 DEF ReplyInv, DecisionInv
<1>6. ASSUME NEW x \in Admin, NEW y \in Admin, apc'[x] = "done", apc'[y] = "done",
             target'[x] = target'[y], Side(target[x])' = "response",
             verb'[x] \in Releasing, verb'[y] \in Resolved
      PROVE  x = y
  <2>1. verb'[x] \in Resolved
    BY <1>6 DEF Releasing, Resolved, Verb
  <2>2. CASE x # d /\ y # d
    BY <1>2, <1>4, <1>6, <2>2 DEF ReplyInv, ReplyHeldUntilReleased
  <2>3. CASE x # y /\ (x = d \/ y = d)
    BY <1>2, <1>6, <2>1, <2>3 DEF ReplyInv, DecisionInv
  <2> QED
    BY <2>2, <2>3
<1>7. \A c \in Chat : pc'[c] = "delivered" => ~IsPaused(sev'[c]) /\ ~IsPaused(Scan[reply'[c]])
  BY <1>4 DEF ReplyInv, ReplyHeldUntilReleased
<1> QED
  BY <1>5, <1>6, <1>7 DEF ReplyInv, ReplyHeldUntilReleased

(* Other steps of administrators' requests complete no decision about a held *)
(* reply.                                                                    *)
LEMMA NoneDecided ==
    ASSUME TypeInv, ReplyInv, UNCHANGED chatVars, pending' \subseteq pending,
           \A x \in Admin : apc'[x] = "done" =>
               /\ apc[x] \in {"done", "generate"}
               /\ verb'[x] = verb[x] /\ target'[x] = target[x]
               /\ apc[x] = "generate" => target[x] \notin pending'
    PROVE  ReplyInv'
<1>1. UNCHANGED <<pc, reply, sev>> /\ \A x : Side(x)' = Side(x)
  BY DEF chatVars, Side
<1>2. \A x \in Admin : apc[x] = "generate" =>
         pc[target[x]] = "paused" /\ Side(target[x]) = "prompt"
  BY DEF TypeInv, TypeOK, LocalsOK, Side
<1>3. DecisionInv'
  BY <1>1, <1>2 DEF ReplyInv, DecisionInv
<1>4. ReplyHeldUntilReleased'
  BY <1>1, <1>2 DEF ReplyInv, ReplyHeldUntilReleased
<1> QED
  BY <1>3, <1>4 DEF ReplyInv

(* A step of one chat request, which decides nothing. *)
LEMMA ChatKeepsReplies ==
    ASSUME TypeInv, ReplyInv, NEW c \in Chat, Begin(c) \/ ChatStep(c)
    PROVE  ReplyInv'
<1> USE DEF TypeInv, TypeOK, LocalsOK, Awaiting
<1>1. /\ pc[c] \in Awaiting \cup {"idle"}
      /\ \A x \in Chat \ {c} : pc'[x] = pc[x] /\ sev'[x] = sev[x] /\ reply'[x] = reply[x]
      /\ pending' \subseteq pending \cup {c}
      /\ UNCHANGED <<apc, verb, target>>
  BY DEF Begin, ChatStep, PausePrompt, AllowPrompt, GuardError, Generated,
     GenerateUnavailable, GenerateError, PauseResponse, Deliver, Classified, OpenApproval,
     dbVars, adminVars
<1>2. \A d \in Admin : apc[d] = "done" => target[d] \in Chat \ {c}
  BY <1>1 DEF ReplyInv, DecisionInv
<1>3. DecisionInv'
  BY <1>1, <1>2 DEF ReplyInv, DecisionInv
<1>4. pc'[c] = "delivered" => ~IsPaused(sev'[c]) /\ ~IsPaused(Scan[reply'[c]])
  <2>1. SUFFICES ASSUME Deliver(c)
                 PROVE  ~IsPaused(sev'[c]) /\ ~IsPaused(Scan[reply'[c]])
    BY DEF Begin, ChatStep, PausePrompt, AllowPrompt, GuardError, Generated,
       GenerateUnavailable, GenerateError, PauseResponse, OpenApproval
  <2>2. reply[c] \in Text
    BY <2>1, TextAssumption DEF Deliver
  <2> QED
    BY <2>1, <2>2, ScannerCounts DEF Deliver, Classified
<1>5. ReplyHeldUntilReleased'
  BY <1>1, <1>2, <1>4 DEF ReplyInv, ReplyHeldUntilReleased, Side
<1> QED
  BY <1>3, <1>5 DEF ReplyInv

LEMMA RepliesPreserved == TypeInv /\ ReplyInv /\ [Next]_vars => ReplyInv'
<1> SUFFICES ASSUME TypeInv, ReplyInv, [Next]_vars PROVE ReplyInv'
  OBVIOUS
<1>1. ASSUME NEW d \in Admin, AdminArrives(d) \/ AdminStep(d) PROVE ReplyInv'
  <2>1. CASE NotFound(d) \/ Resume(d) \/ ResumeFailed(d)
    BY <2>1, NoneDecided DEF NotFound, Resume, ResumeFailed, Receive, TypeInv, TypeOK
  <2>2. CASE Reject(d) \/ Escalate(d)
    BY <2>2, DecidedAtOnce DEF Reject, Escalate, Verb
  <2>3. CASE Release(d)
    <3>1. PICK v \in Releasing, a \in pending :
             Receive(d, v, a, "done") /\ \E evs : Decide(d, v, a, messages, evs)
      BY <2>3 DEF Release
    <3>2. PICK evs : Decide(d, v, a, messages, evs)
      BY <3>1
    <3>3. v \in Verb
      BY DEF Releasing, Verb
    <3> QED
      BY <2>3, <3>1, <3>2, <3>3, DecidedAtOnce DEF Release
  <2>4. CASE ResumeDelivered(d)
    <3>1. PICK ms, evs : Decide(d, verb[d], target[d], ms, evs)
      BY <2>4 DEF ResumeDelivered
    <3>2. verb[d] \in Releasing
      BY <2>4 DEF ResumeDelivered, TypeInv, TypeOK, LocalsOK
    <3>3. pending' = pending \ {target[d]}
      BY <3>1, <3>2 DEF Decide, Popped, Releasing
    <3>4. \A x \in Admin : apc'[x] = IF x = d THEN "done" ELSE apc[x]
      BY <2>4 DEF ResumeDelivered, TypeInv, TypeOK
    <3> QED
      BY <2>4, <3>3, <3>4, NoneDecided DEF ResumeDelivered
  <2> QED
    BY <1>1, <2>1, <2>2, <2>3, <2>4 DEF AdminArrives, AdminStep
<1>2. CASE Restart
  <2>1. \A x \in Admin : apc'[x] = "done" => apc[x] = "done"
    BY <1>2 DEF Restart, TypeInv, TypeOK
  <2>2. \A c \in Chat : (pc[c] = "paused" => pc'[c] = "paused")
                      /\ (pc'[c] = "delivered" => pc[c] = "delivered")
    BY <1>2 DEF Restart, Awaiting, TypeInv, TypeOK
  <2>3. \A d \in Admin : apc[d] = "done" => target[d] \in Chat
    BY DEF TypeInv, TypeOK, LocalsOK
  <2>4. UNCHANGED <<reply, sev, verb, target>> /\ pending' = {}
    BY <1>2 DEF Restart
  <2>5. DecisionInv'
    BY <2>1, <2>2, <2>3, <2>4 DEF ReplyInv, DecisionInv
  <2>6. ReplyHeldUntilReleased'
    BY <2>1, <2>2, <2>4 DEF ReplyInv, ReplyHeldUntilReleased, Side
  <2> QED
    BY <2>5, <2>6 DEF ReplyInv
<1>3. CASE UNCHANGED vars
  BY <1>3, NoneDecided DEF vars, adminVars, ReplyInv, DecisionInv
<1> QED
  BY <1>1, <1>2, <1>3, ChatKeepsReplies DEF Next, Quiescent

(* No reply the scanner or the guard rates high or critical is delivered to  *)
(* a client, the guard's outages included; and of any number of racing       *)
(* decisions about a held reply at most one resolves it, so a rejected reply *)
(* is never released and a released one is released once.                    *)
THEOREM RepliesHeld == Spec => []ReplyHeldUntilReleased
<1>1. Init => ReplyInv
  BY DEF Init, ReplyInv, DecisionInv, ReplyHeldUntilReleased
<1>2. ReplyInv => ReplyHeldUntilReleased
  BY DEF ReplyInv
<1> QED
  BY <1>1, <1>2, TypeInvariant, RepliesPreserved, PTL DEF Spec

-----------------------------------------------------------------------------
(* Prompts.  A request whose prompt has not been classified has sent nothing *)
(* to the assistant.                                                         *)
NothingSentYet ==
    \A c \in Chat, t \in Text : <<c, t>> \in sent => pc[c] \notin {"idle", "classify_prompt"}

PromptInv == NothingSentYet /\ PromptHeldUntilReleased

(* A release stays one: an administrator's request keeps its verb and target *)
(* once it has arrived, and a chat request its prompt.                       *)
LEMMA ReleaseStays ==
    ASSUME TypeInv, NEW c \in Chat, NEW t, ReleasedPrompt(c, t), pc[c] # "idle",
           prompt'[c] = prompt[c],
           \A x \in Admin : apc[x] \notin {"idle", "not_found"} =>
               /\ apc'[x] \notin {"idle", "not_found"}
               /\ verb'[x] = verb[x] /\ target'[x] = target[x]
    PROVE  ReleasedPrompt(c, t)'
  BY DEF ReleasedPrompt

(* Steps that send nothing and pause nothing. *)
LEMMA NothingSent ==
    ASSUME TypeInv, PromptInv, UNCHANGED <<sent, prompt>>,
           \A c \in Chat : (pc[c] \notin {"idle", "classify_prompt"} =>
                               pc'[c] \notin {"idle", "classify_prompt"})
                        /\ (pc'[c] = "paused" => pc[c] = "paused")
                        /\ (reply'[c] = None => reply[c] = None),
           \A x \in Admin : apc[x] \notin {"idle", "not_found"} =>
               /\ apc'[x] \notin {"idle", "not_found"}
               /\ verb'[x] = verb[x] /\ target'[x] = target[x]
    PROVE  PromptInv'
<1>1. NothingSentYet'
  BY DEF PromptInv, NothingSentYet
<1>2. ASSUME NEW c \in Chat, NEW t \in Text, <<c, t>> \in sent,
             \/ IsPaused(Scan[prompt[c]])
             \/ pc'[c] = "paused" /\ reply'[c] = None
      PROVE  ReleasedPrompt(c, t)'
  <2>1. ReleasedPrompt(c, t) /\ pc[c] # "idle"
    BY <1>2 DEF PromptInv, NothingSentYet, PromptHeldUntilReleased, Side
  <2> QED
    BY <2>1, ReleaseStays
<1>3. PromptHeldUntilReleased'
  BY <1>2 DEF PromptHeldUntilReleased, Side
<1> QED
  BY <1>1, <1>3 DEF PromptInv

(* The four steps of a chat request that concern its prompt. *)
LEMMA ChatKeepsPrompts ==
    ASSUME TypeInv, PromptInv, NEW c \in Chat, Begin(c) \/ ChatStep(c)
    PROVE  PromptInv'
<1> USE DEF TypeInv, TypeOK, LocalsOK, Awaiting
<1>1. /\ UNCHANGED <<apc, verb, target>>
      /\ \A x \in Chat \ {c} : pc'[x] = pc[x] /\ reply'[x] = reply[x] /\ prompt'[x] = prompt[x]
  BY DEF Begin, ChatStep, PausePrompt, AllowPrompt, GuardError, Generated,
     GenerateUnavailable, GenerateError, PauseResponse, Deliver, OpenApproval, adminVars
<1>2. ASSUME NEW x \in Chat \ {c}, NEW t \in Text, <<x, t>> \in sent,
             IsPaused(Scan[prompt'[x]]) \/ (pc'[x] = "paused" /\ reply'[x] = None)
      PROVE  ReleasedPrompt(x, t)'
  <2>1. ReleasedPrompt(x, t) /\ pc[x] # "idle"
    BY <1>1, <1>2 DEF PromptInv, NothingSentYet, PromptHeldUntilReleased, Side
  <2> QED
    BY <1>1, <2>1, ReleaseStays
<1>3. CASE Begin(c) \/ PausePrompt(c)
  <2>1. pc[c] \in {"idle", "classify_prompt"} /\ UNCHANGED sent
    BY <1>3 DEF Begin, PausePrompt
  <2>2. \A t \in Text : <<c, t>> \notin sent
    BY <2>1 DEF PromptInv, NothingSentYet
  <2>3. NothingSentYet'
    BY <1>1, <2>1, <2>2 DEF PromptInv, NothingSentYet
  <2>4. PromptHeldUntilReleased'
    BY <1>2, <2>1, <2>2 DEF PromptHeldUntilReleased, Side
  <2> QED
    BY <2>3, <2>4 DEF PromptInv
<1>4. CASE AllowPrompt(c)
  <2>1. /\ pc[c] = "classify_prompt" /\ pc'[c] = "generate" /\ UNCHANGED prompt
        /\ sent' = sent \cup {<<c, prompt[c]>>}
    BY <1>4 DEF AllowPrompt
  <2>2. ~IsPaused(Scan[prompt'[c]])
    <3>1. prompt[c] \in Text
      BY <2>1, LocalsType
    <3> QED
      BY <1>4, <2>1, <3>1, ScannerCounts DEF AllowPrompt
  <2>3. \A x \in Chat \ {c}, t \in Text : <<x, t>> \in sent' => <<x, t>> \in sent
    BY <2>1
  <2>4. NothingSentYet'
    BY <1>1, <2>1, <2>3 DEF PromptInv, NothingSentYet
  <2>5. PromptHeldUntilReleased'
    BY <1>2, <2>1, <2>2, <2>3 DEF PromptHeldUntilReleased, Side
  <2> QED
    BY <2>4, <2>5 DEF PromptInv
<1>5. CASE ~(Begin(c) \/ PausePrompt(c) \/ AllowPrompt(c) \/ PauseResponse(c))
  <2>1. \A x : (pc'[x] = "paused" => pc[x] = "paused") \/ x \notin Chat
    BY <1>1, <1>5 DEF ChatStep, GuardError, Generated, GenerateUnavailable,
       GenerateError, Deliver
  <2>2. UNCHANGED <<sent, prompt>> /\ (reply'[c] = None => reply[c] = None)
    BY <1>5, TextAssumption DEF ChatStep, GuardError, Generated, GenerateUnavailable,
       GenerateError, Deliver, dbVars
  <2>3. pc[c] \notin {"idle", "classify_prompt"} => pc'[c] \notin {"idle", "classify_prompt"}
    BY <1>5 DEF ChatStep, GuardError, Generated, GenerateUnavailable,
       GenerateError, Deliver
  <2> QED
    BY <1>1, <2>1, <2>2, <2>3, NothingSent
<1>6. CASE PauseResponse(c)
  <2>1. /\ pc[c] = "classify_response" /\ pc'[c] = "paused" /\ reply[c] # None
        /\ UNCHANGED <<sent, prompt, reply>>
    BY <1>6, TextAssumption DEF PauseResponse, OpenApproval
  <2>2. NothingSentYet'
    BY <1>1, <2>1 DEF PromptInv, NothingSentYet
  <2>3. ASSUME NEW t \in Text, <<c, t>> \in sent, IsPaused(Scan[prompt[c]])
        PROVE  ReleasedPrompt(c, t)'
    <3>1. ReleasedPrompt(c, t)
      BY <2>3 DEF PromptInv, PromptHeldUntilReleased
    <3> QED
      BY <1>1, <2>1, <3>1, ReleaseStays
  <2>4. PromptHeldUntilReleased'
    BY <1>2, <2>1, <2>3 DEF PromptHeldUntilReleased, Side
  <2> QED
    BY <2>2, <2>4 DEF PromptInv
<1> QED
  BY <1>3, <1>4, <1>5, <1>6

(* An administrator's step is about that administrator's request only, which *)
(* keeps its verb and its target across its await.                           *)
AdminMove(d) ==
    /\ UNCHANGED chatVars
    /\ apc[d] \in {"idle", "generate"}
    /\ apc[d] = "generate" =>
          apc'[d] \notin {"idle", "not_found"} /\ verb' = verb /\ target' = target
    /\ \A x \in Admin : x # d =>
          /\ apc'[x] = apc[x] /\ verb'[x] = verb[x]
          /\ target'[x] = target[x] /\ areply'[x] = areply[x]

LEMMA AdminMoves ==
    ASSUME TypeInv, NEW d \in Admin, AdminArrives(d) \/ AdminStep(d)
    PROVE  AdminMove(d)
<1>1. /\ DOMAIN apc = Admin
      /\ DOMAIN verb = Admin /\ DOMAIN target = Admin /\ DOMAIN areply = Admin
  BY DEF TypeInv, TypeOK
<1>2. ASSUME NEW v, NEW a, NEW where, Receive(d, v, a, where), UNCHANGED chatVars,
             \A x \in Admin : x # d => areply'[x] = areply[x]
      PROVE  AdminMove(d)
  BY <1>1, <1>2 DEF Receive, AdminMove
<1>3. CASE NotFound(d)
  BY <1>2, <1>3 DEF NotFound
<1>4. CASE Reject(d)
  BY <1>2, <1>4 DEF Reject
<1>5. CASE Escalate(d)
  BY <1>2, <1>5 DEF Escalate
<1>6. CASE Release(d)
  <2>1. \A x \in Admin : x # d => areply'[x] = areply[x]
    BY <1>1, <1>6 DEF Release
  <2> QED
    BY <1>2, <1>6, <2>1 DEF Release
<1>7. CASE Resume(d)
  BY <1>2, <1>7 DEF Resume
<1>8. CASE ResumeDelivered(d)
  BY <1>1, <1>8 DEF ResumeDelivered, AdminMove
<1>9. CASE ResumeFailed(d)
  BY <1>1, <1>9 DEF ResumeFailed, AdminMove
<1> QED
  BY <1>3, <1>4, <1>5, <1>6, <1>7, <1>8, <1>9 DEF AdminArrives, AdminStep

LEMMA PromptsPreserved == TypeInv /\ PromptInv /\ [Next]_vars => PromptInv'
<1> SUFFICES ASSUME TypeInv, PromptInv, [Next]_vars PROVE PromptInv'
  OBVIOUS
<1>1. ASSUME NEW d \in Admin, AdminArrives(d) \/ AdminStep(d) PROVE PromptInv'
  <2>1. UNCHANGED chatVars
    BY <1>1 DEF AdminArrives, AdminStep, NotFound, Reject, Escalate, Release, Resume,
       ResumeDelivered, ResumeFailed
  <2>2. \A x \in Admin : apc[x] \notin {"idle", "not_found"} =>
            /\ apc'[x] \notin {"idle", "not_found"}
            /\ verb'[x] = verb[x] /\ target'[x] = target[x]
    <3>1. AdminMove(d)
      BY <1>1, AdminMoves
    <3> QED
      BY <3>1 DEF AdminMove
  <2>3. CASE Resume(d)
    <3>1. PICK v \in Releasing, a \in pending :
             /\ Receive(d, v, a, "generate")
             /\ sent' = sent \cup
                   {<<a, IF v = "redacted_resumed" THEN Redact[prompt[a]] ELSE prompt[a]>>}
      BY <2>3 DEF Resume
    <3>2. a \in Chat /\ pc[a] = "paused"
      BY DEF TypeInv, TypeOK, LocalsOK
    <3>3. apc'[d] = "generate" /\ verb'[d] = v /\ target'[d] = a
      BY <3>1 DEF Receive, TypeInv, TypeOK
    <3>4. ReleasedPrompt(a, IF v = "redacted_resumed" THEN Redact[prompt[a]] ELSE prompt[a])'
      BY <2>1, <3>3 DEF ReleasedPrompt, Releasing, chatVars
    <3>5. ASSUME NEW c \in Chat, NEW t \in Text, <<c, t>> \in sent,
                 IsPaused(Scan[prompt[c]]) \/ (pc[c] = "paused" /\ Side(c) = "prompt")
          PROVE  ReleasedPrompt(c, t)'
      BY <2>1, <2>2, <3>5, ReleaseStays
         DEF PromptInv, PromptHeldUntilReleased, NothingSentYet, chatVars
    <3>6. PromptHeldUntilReleased'
      BY <2>1, <3>1, <3>4, <3>5 DEF PromptHeldUntilReleased, Side, chatVars
    <3>7. NothingSentYet'
      BY <2>1, <3>1, <3>2 DEF PromptInv, NothingSentYet, chatVars
    <3> QED
      BY <3>6, <3>7 DEF PromptInv
  <2>4. CASE ~Resume(d)
    <3>1. UNCHANGED sent
      BY <1>1, <2>4 DEF AdminArrives, AdminStep, NotFound, Reject, Escalate, Release,
         ResumeDelivered, ResumeFailed
    <3> QED
      BY <2>1, <2>2, <3>1, NothingSent DEF chatVars
  <2> QED
    BY <2>3, <2>4
<1>2. CASE Restart
  <2>1. \A c \in Chat : (pc[c] \notin {"idle", "classify_prompt"} =>
                            pc'[c] \notin {"idle", "classify_prompt"})
                     /\ (pc'[c] = "paused" => pc[c] = "paused")
    BY <1>2 DEF Restart, Awaiting, TypeInv, TypeOK
  <2>2. \A x \in Admin : apc[x] \notin {"idle", "not_found"} =>
            apc'[x] \notin {"idle", "not_found"}
    BY <1>2 DEF Restart, TypeInv, TypeOK
  <2> QED
    BY <1>2, <2>1, <2>2, NothingSent DEF Restart
<1>3. CASE UNCHANGED vars
  BY <1>3, NothingSent DEF vars, chatVars, adminVars
<1> QED
  BY <1>1, <1>2, <1>3, ChatKeepsPrompts DEF Next, Quiescent

(* What the scanner or the guard rates high or critical in a prompt reaches  *)
(* the assistant only by a release of that request, and masked if the        *)
(* release was a redact-resume.                                              *)
THEOREM PromptsHeld == Spec => []PromptHeldUntilReleased
<1>1. Init => PromptInv
  BY DEF Init, PromptInv, NothingSentYet, PromptHeldUntilReleased
<1>2. PromptInv => PromptHeldUntilReleased
  BY DEF PromptInv
<1> QED
  BY <1>1, <1>2, TypeInvariant, PromptsPreserved, PTL DEF Spec
=============================================================================
