----------------------------- MODULE AuditProofs -----------------------------
(***************************************************************************)
(* The audit trail of Gateway: its tables only grow, the status of an      *)
(* approval is an action on record, no event is lost to a foreign key, and *)
(* a request that has its turn for itself is on record with its own texts, *)
(* however the handlers interleave.                                        *)
(***************************************************************************)
EXTENDS GatewayProofs

(* Only a paused request has actions on record: so the row of a request that *)
(* pauses later is not behind a decision already.                            *)
ActionsOnPaused == \A r \in adminActions : r.approval \in Chat /\ pc[r.approval] = "paused"

RecordInv == OpenRowsResumable /\ ActionsOnPaused /\ DecisionsRecorded

TablesGrow ==
    /\ messages \subseteq messages'
    /\ events \subseteq events'
    /\ adminActions \subseteq adminActions'
    /\ redactions \subseteq redactions'

-----------------------------------------------------------------------------
LEMMA InsertGrows == ASSUME NEW ms, NEW id, NEW t PROVE ms \subseteq InsertMessage(ms, id, t)
  BY DEF InsertMessage

LEMMA WriteGrows == ASSUME NEW es, NEW ms, NEW new PROVE es \subseteq WriteEvents(es, ms, new)
  BY DEF WriteEvents

LEMMA DecideGrows ==
    ASSUME NEW d, NEW v, NEW a, NEW ms, NEW delivery, Decide(d, v, a, ms, delivery)
    PROVE  /\ events \subseteq events'
           /\ adminActions \subseteq adminActions'
           /\ redactions \subseteq redactions'
  BY WriteGrows DEF Decide

LEMMA StepGrows == [Next]_vars => TablesGrow
<1> SUFFICES ASSUME [Next]_vars PROVE TablesGrow
  OBVIOUS
<1>1. ASSUME NEW c \in Chat, Begin(c) \/ ChatStep(c) PROVE TablesGrow
  <2>1. CASE Begin(c) \/ Generated(c)
    BY <2>1, InsertGrows DEF Begin, Generated, TablesGrow
  <2>2. CASE PausePrompt(c) \/ AllowPrompt(c)
    BY <2>2, WriteGrows DEF PausePrompt, AllowPrompt, Classified, TablesGrow
  <2>3. CASE PauseResponse(c) \/ Deliver(c) \/ GenerateUnavailable(c)
    BY <2>3, WriteGrows DEF PauseResponse, Deliver, GenerateUnavailable, Classified, TablesGrow
  <2>4. CASE GuardError(c) \/ GenerateError(c)
    BY <2>4 DEF GuardError, GenerateError, dbVars, TablesGrow
  <2> QED
    BY <1>1, <2>1, <2>2, <2>3, <2>4 DEF ChatStep
<1>2. ASSUME NEW d \in Admin, AdminArrives(d) \/ AdminStep(d) PROVE TablesGrow
  <2>1. CASE NotFound(d) \/ Resume(d) \/ ResumeFailed(d)
    BY <2>1 DEF NotFound, Resume, ResumeFailed, dbVars, TablesGrow
  <2>2. CASE Reject(d) \/ Escalate(d) \/ Release(d)
    BY <2>2, DecideGrows DEF Reject, Escalate, Release, TablesGrow
  <2>3. CASE ResumeDelivered(d)
    BY <2>3, DecideGrows, InsertGrows DEF ResumeDelivered, TablesGrow
  <2> QED
    BY <1>2, <2>1, <2>2, <2>3 DEF AdminArrives, AdminStep
<1>3. CASE Restart \/ Quiescent \/ UNCHANGED vars
  BY <1>3 DEF Restart, Quiescent, vars, dbVars, TablesGrow
<1> QED
  BY <1>1, <1>2, <1>3 DEF Next

(* No handler, decision or restart changes or removes a row of the audit     *)
(* tables: INSERT OR IGNORE keeps the first row of an id.                    *)
THEOREM AppendOnly == Spec => AuditAppendOnly
<1>1. [Next]_vars => [TablesGrow]_vars
  BY StepGrows
<1> QED
  BY <1>1, PTL DEF Spec, AuditAppendOnly, TablesGrow

-----------------------------------------------------------------------------
(* A decision on a paused request, complete with its records. *)
LEMMA DecideRecords ==
    ASSUME TypeInv, RecordInv, NEW d \in Admin, NEW v \in Verb, NEW a \in Chat,
           NEW ms, NEW delivery, Decide(d, v, a, ms, delivery), UNCHANGED pc,
           pc[a] = "paused", v = "escalated" => a \in pending
    PROVE  ActionsOnPaused' /\ DecisionsRecorded'
<1> DEFINE new == [by |-> d, approval |-> a, event |-> HeldEvent(a), action |-> v]
<1>1. adminActions' = adminActions \cup {new} /\ redactions \subseteq redactions'
  BY DecideGrows DEF Decide
<1>2. \A x \in Chat : approvals'[x] = IF x = a THEN v ELSE approvals[x]
  BY DEF Decide, TypeInv, TypeOK
<1>3. ActionsOnPaused'
  BY <1>1 DEF RecordInv, ActionsOnPaused
<1>4. ASSUME NEW x \in Chat, approvals'[x] \in Verb
      PROVE  \E r \in adminActions' : r.approval = x /\ r.action = approvals'[x]
  <2>1. CASE x = a
    <3>1. new.approval = x /\ new.action = approvals'[x]
      BY <1>2, <2>1
    <3>2. new \in adminActions'
      BY <1>1
    <3> QED
      BY <3>1, <3>2
  <2>2. CASE x # a
    <3>1. Decided(x, approvals[x]) /\ approvals'[x] = approvals[x]
      BY <1>2, <1>4, <2>2 DEF RecordInv, DecisionsRecorded
    <3> QED
      BY <1>1, <3>1 DEF Decided
  <2> QED
    BY <2>1, <2>2
<1>5. ASSUME NEW r \in adminActions' PROVE approvals'[r.approval] \in Verb
  BY <1>1, <1>2, <1>5 DEF RecordInv, DecisionsRecorded, ActionsOnPaused
<1>6. ASSUME NEW r \in adminActions', r.action \in Resolved
      PROVE  approvals'[r.approval] \in Resolved
  <2>1. CASE r = new
    BY <1>2, <1>6, <2>1
  <2>2. CASE r \in adminActions
    <3>1. r.approval \in Chat /\ approvals[r.approval] \in Resolved
      BY <1>6, <2>2 DEF RecordInv, DecisionsRecorded, ActionsOnPaused
    <3>2. r.approval \notin pending
      BY <3>1 DEF RecordInv, OpenRowsResumable, Open, Resolved, Verb
    <3> QED
      BY <1>2, <3>1, <3>2 DEF Resolved
  <2> QED
    BY <1>1, <1>6, <2>1, <2>2
<1>7. ASSUME NEW r \in adminActions', r.action = "redacted_resumed"
      PROVE  \E x \in redactions' : x.by = r.by /\ x.event = r.event
  <2>1. CASE r = new
    <3> DEFINE row == [by |-> d, event |-> HeldEvent(a), original |-> HeldText(a),
                       redacted |-> Redact[HeldText(a)]]
    <3>1. v = "redacted_resumed" /\ r.by = d /\ r.event = HeldEvent(a)
      BY <1>7, <2>1
    <3>2. row \in redactions'
      BY <3>1 DEF Decide
    <3>3. row.by = r.by /\ row.event = r.event
      BY <3>1
    <3> QED
      BY <3>2, <3>3
  <2>2. CASE r \in adminActions
    BY <1>1, <1>7, <2>2 DEF RecordInv, DecisionsRecorded
  <2> QED
    BY <1>1, <2>1, <2>2
<1> QED
  BY <1>3, <1>4, <1>5, <1>6, <1>7 DEF DecisionsRecorded, Decided

LEMMA RecordPreserved == TypeInv /\ RecordInv /\ [Next]_vars => RecordInv'
<1> SUFFICES ASSUME TypeInv, RecordInv, [Next]_vars PROVE ActionsOnPaused' /\ DecisionsRecorded'
  BY QueuePreserved DEF RecordInv
<1>1. ASSUME UNCHANGED <<adminActions, redactions, approvals>>,
             \A x \in Chat : pc[x] = "paused" => pc'[x] = "paused"
      PROVE  ActionsOnPaused' /\ DecisionsRecorded'
  BY <1>1 DEF RecordInv, ActionsOnPaused, DecisionsRecorded, Decided
<1>2. ASSUME NEW c \in Chat, Begin(c) \/ ChatStep(c)
      PROVE  ActionsOnPaused' /\ DecisionsRecorded'
  <2>1. CASE PausePrompt(c) \/ PauseResponse(c)
    <3>1. /\ pc[c] # "paused" /\ UNCHANGED <<adminActions, redactions>>
          /\ \A x \in Chat : pc'[x] = IF x = c THEN "paused" ELSE pc[x]
          /\ \A x \in Chat : approvals'[x] = IF x = c THEN "pending" ELSE approvals[x]
      BY <2>1 DEF PausePrompt, PauseResponse, OpenApproval, TypeInv, TypeOK
    <3>2. \A r \in adminActions : r.approval \in Chat /\ r.approval # c
      BY <3>1 DEF RecordInv, ActionsOnPaused
    <3>3. ActionsOnPaused'
      BY <3>1, <3>2 DEF RecordInv, ActionsOnPaused
    <3>4. "pending" \notin Verb
      BY DEF Verb
    <3>5. ASSUME NEW x \in Chat, approvals'[x] \in Verb
          PROVE  \E r \in adminActions' : r.approval = x /\ r.action = approvals'[x]
      <4>1. Decided(x, approvals[x]) /\ approvals'[x] = approvals[x]
        BY <3>1, <3>4, <3>5 DEF RecordInv, DecisionsRecorded
      <4> QED
        BY <3>1, <4>1 DEF Decided
    <3>6. \A r \in adminActions' :
              r \in adminActions /\ approvals'[r.approval] = approvals[r.approval]
      BY <3>1, <3>2
    <3> QED
      BY <3>1, <3>3, <3>5, <3>6 DEF RecordInv, DecisionsRecorded, Decided
  <2>2. CASE ~(PausePrompt(c) \/ PauseResponse(c))
    BY <1>1, <1>2, <2>2 DEF Begin, ChatStep, AllowPrompt, GuardError, Generated,
       GenerateUnavailable, GenerateError, Deliver, dbVars, TypeInv, TypeOK
  <2> QED
    BY <2>1, <2>2
<1>3. ASSUME NEW d \in Admin, AdminArrives(d) \/ AdminStep(d)
      PROVE  ActionsOnPaused' /\ DecisionsRecorded'
  <2>1. CASE NotFound(d) \/ Resume(d) \/ ResumeFailed(d)
    BY <1>1, <2>1 DEF NotFound, Resume, ResumeFailed, dbVars, chatVars
  <2>2. \A a \in pending : a \in Chat /\ pc[a] = "paused"
    BY DEF TypeInv, TypeOK, LocalsOK
  <2>3. CASE Reject(d) \/ Escalate(d)
    <3>1. PICK v \in {"rejected", "escalated"}, a \in pending : Decide(d, v, a, messages, {})
      BY <2>3 DEF Reject, Escalate
    <3>2. v \in Verb /\ UNCHANGED pc
      BY <2>3 DEF Reject, Escalate, Verb, chatVars
    <3> QED
      BY <2>2, <3>1, <3>2, DecideRecords
  <2>4. CASE Release(d)
    <3>1. PICK v \in Releasing, a \in pending : \E evs : Decide(d, v, a, messages, evs)
      BY <2>4 DEF Release
    <3>2. PICK evs : Decide(d, v, a, messages, evs)
      BY <3>1
    <3>3. v \in Verb /\ UNCHANGED pc
      BY <2>4 DEF Release, Releasing, Verb, chatVars
    <3> QED
      BY <2>2, <3>2, <3>3, DecideRecords
  <2>5. CASE ResumeDelivered(d)
    <3>1. PICK ms, evs : Decide(d, verb[d], target[d], ms, evs)
      BY <2>5 DEF ResumeDelivered
    <3>2. /\ verb[d] \in Releasing /\ target[d] \in Chat /\ pc[target[d]] = "paused"
          /\ UNCHANGED pc
      BY <2>5 DEF ResumeDelivered, TypeInv, TypeOK, LocalsOK, chatVars
    <3>3. verb[d] \in Verb /\ verb[d] # "escalated"
      BY <3>2 DEF Releasing, Verb
    <3> QED
      BY <3>1, <3>2, <3>3, DecideRecords
  <2> QED
    BY <1>3, <2>1, <2>3, <2>4, <2>5 DEF AdminArrives, AdminStep
<1>4. CASE Restart
  BY <1>1, <1>4 DEF Restart, dbVars, Awaiting, TypeInv, TypeOK
<1>5. CASE Quiescent \/ UNCHANGED vars
  BY <1>1, <1>5 DEF Quiescent, vars, chatVars, dbVars
<1> QED
  BY <1>2, <1>3, <1>4, <1>5 DEF Next

(* The status of an approval is a decision somebody took, no escalation      *)
(* covers up a resolution however the decisions interleave, and every        *)
(* redact-resume left the hashes of what it masked.                          *)
THEOREM DecisionsOnRecord == Spec => []DecisionsRecorded
<1>1. Init => RecordInv
  BY DEF Init, RecordInv, OpenRowsResumable, Open, ActionsOnPaused, DecisionsRecorded, Verb
<1>2. RecordInv => DecisionsRecorded
  BY DEF RecordInv
<1> QED
  BY <1>1, <1>2, TypeInvariant, RecordPreserved, PTL DEF Spec

-----------------------------------------------------------------------------

(* What AuditComplete says of one request, and what it rests on: the rows    *)
(* its events refer to.                                                      *)
OnTrail(c) ==
    /\ pc[c] \in {"idle", "classify_prompt", "generate"} => reply[c] = None
    /\ pc[c] # "idle" => HasRow(messages, PromptMsg(c))
    /\ reply[c] # None => HasRow(messages, ResponseMsg(c))
    /\ PromptClassified(c) => LoggedAll(PromptMsg(c), ClassifiedTypes["prompt"])
    /\ CalledModel(c) => Logged(events, PromptMsg(c), "llm.request.started")
    /\ pc[c] = "unavailable" => Logged(events, PromptMsg(c), "system.error")
    /\ ReplyClassified(c) => LoggedAll(ResponseMsg(c), ClassifiedTypes["response"])
    /\ pc[c] = "delivered" => Logged(events, ResponseMsg(c), "response.delivered")
    /\ pc[c] = "paused" => Logged(events, HeldMsg(c), HeldType(c))

(* What it says of a decision. *)
DecisionOnTrail(r) ==
    /\ Logged(events, HeldMsg(r.approval), ApprovalEvent[r.action])
    /\ r.action \in Releasing =>
          Logged(events, ResponseMsg(r.approval), "response.delivered")

AuditInv ==
    /\ \A c \in Chat : OnTrail(c)
    /\ \A r \in adminActions : DecisionOnTrail(r)

-----------------------------------------------------------------------------
(* Rows and events, once there, stay; what is written is there unless its    *)
(* message has no row.                                                       *)

LEMMA LoggedGrows ==
    ASSUME TablesGrow, NEW msg
    PROVE  /\ HasRow(messages, msg) => HasRow(messages', msg)
           /\ \A type : Logged(events, msg, type) => Logged(events', msg, type)
  BY DEF TablesGrow, HasRow, Logged

LEMMA InsertHasRow ==
    ASSUME NEW ms, NEW id, NEW t
    PROVE  HasRow(InsertMessage(ms, id, t), id)
<1>1. CASE HasRow(ms, id)
  BY <1>1 DEF InsertMessage
<1>2. CASE ~HasRow(ms, id)
  <2>1. [id |-> id, text |-> t] \in InsertMessage(ms, id, t)
    BY <1>2 DEF InsertMessage
  <2> QED
    BY <2>1 DEF HasRow
<1> QED
  BY <1>1, <1>2

LEMMA WrittenLogged ==
    ASSUME NEW es, NEW ms, NEW new, NEW e \in new, HasRow(ms, e.msg)
    PROVE  Logged(WriteEvents(es, ms, new), e.msg, e.type)
  BY DEF WriteEvents, Logged

(* The events of a classification, and the one that follows it. *)
LEMMA ClassifiedLogged ==
    ASSUME NEW c, NEW msg, NEW t, NEW s, NEW type, HasRow(messages, msg),
           Classified(c, msg, t, s, {Event(msg, type, c, t)})
    PROVE  /\ \A x \in ClassifiedTypes[msg.dir] : Logged(events', msg, x)
           /\ Logged(events', msg, type)
<1> DEFINE new == ClassifiedEvents(msg, c, t) \cup {Event(msg, type, c, t)}
<1>1. events' = WriteEvents(events, messages, new)
  BY DEF Classified
<1>2. ASSUME NEW x, Event(msg, x, c, t) \in new PROVE Logged(events', msg, x)
  <2>1. Event(msg, x, c, t).msg = msg /\ Event(msg, x, c, t).type = x
    BY DEF Event
  <2>2. Logged(WriteEvents(events, messages, new), Event(msg, x, c, t).msg,
               Event(msg, x, c, t).type)
    <3> HIDE DEF new
    <3> QED
      BY <1>2, <2>1, WrittenLogged
  <2> QED
    BY <1>1, <2>1, <2>2
<1>3. \A x \in ClassifiedTypes[msg.dir] : Event(msg, x, c, t) \in new
  BY DEF ClassifiedEvents
<1> QED
  BY <1>2, <1>3

-----------------------------------------------------------------------------
(* The trail of a request: who does nothing loses nothing. *)
LEMMA TrailKept ==
    ASSUME TablesGrow, NEW c \in Chat, OnTrail(c),
           conv'[c] = conv[c], turn'[c] = turn[c], reply'[c] = reply[c],
           pc'[c] = pc[c] \/ (pc[c] # "idle" /\ pc'[c] \in {"error", "lost"})
    PROVE  OnTrail(c)'
<1>1. PromptMsg(c)' = PromptMsg(c) /\ ResponseMsg(c)' = ResponseMsg(c)
  BY DEF PromptMsg, ResponseMsg, MakeMessageId
<1>2. HeldMsg(c)' = HeldMsg(c) /\ HeldType(c)' = HeldType(c)
  BY DEF HeldMsg, HeldType, Side, MakeMessageId
<1>3. /\ PromptClassified(c)' => PromptClassified(c)
      /\ CalledModel(c)' => CalledModel(c)
      /\ ReplyClassified(c)' => ReplyClassified(c)
  BY DEF PromptClassified, CalledModel, ReplyClassified
<1> QED
  BY <1>1, <1>2, <1>3, LoggedGrows DEF OnTrail, LoggedAll

(* The decisions keep theirs, since the requests they are about are paused   *)
(* and have no step left.                                                    *)
LEMMA DecisionsKept ==
    ASSUME TablesGrow, AuditInv,
           \A r \in adminActions : /\ conv'[r.approval] = conv[r.approval]
                                   /\ turn'[r.approval] = turn[r.approval]
                                   /\ reply'[r.approval] = reply[r.approval]
    PROVE  \A r \in adminActions : DecisionOnTrail(r)'
<1> SUFFICES ASSUME NEW r \in adminActions PROVE DecisionOnTrail(r)'
  OBVIOUS
<1>1. /\ HeldMsg(r.approval)' = HeldMsg(r.approval)
      /\ ResponseMsg(r.approval)' = ResponseMsg(r.approval)
  BY DEF HeldMsg, ResponseMsg, Side, MakeMessageId
<1> QED
  BY <1>1, LoggedGrows DEF AuditInv, DecisionOnTrail

LEMMA AnchorHeld == \A c : HeldMsg(c) = Anchor(c)
  BY DEF HeldMsg, Anchor, Side, PromptMsg, ResponseMsg

LEMMA OwnTrail ==
    ASSUME TypeInv, AuditInv, NEW c \in Chat, Begin(c) \/ ChatStep(c)
    PROVE  OnTrail(c)'
<1> USE DEF TypeInv, TypeOK
<1>0. OnTrail(c) /\ TablesGrow
  <2>1. [Next]_vars
    BY DEF Next
  <2> QED
    BY <2>1, StepGrows DEF AuditInv
<1>1. ASSUME UNCHANGED <<conv, turn>>
      PROVE  PromptMsg(c)' = PromptMsg(c) /\ ResponseMsg(c)' = ResponseMsg(c)
  BY <1>1 DEF PromptMsg, ResponseMsg, MakeMessageId
<1>2. CASE Begin(c)
  <2>1. PICK k \in Conv, t \in Prompt :
           /\ conv' = [conv EXCEPT ![c] = k]
           /\ turn' = [turn EXCEPT ![c] = CompletedResponses(k)]
           /\ messages' = InsertMessage(messages,
                              MakeMessageId(k, CompletedResponses(k), "prompt"), t)
    BY <1>2 DEF Begin
  <2>2. PromptMsg(c)' = MakeMessageId(k, CompletedResponses(k), "prompt")
    BY <2>1 DEF PromptMsg, MakeMessageId
  <2>3. HasRow(messages', PromptMsg(c)')
    BY <2>1, <2>2, InsertHasRow
  <2>4. pc'[c] = "classify_prompt" /\ reply'[c] = None
    BY <1>0, <1>2 DEF Begin, OnTrail
  <2> QED
    BY <2>3, <2>4 DEF OnTrail, PromptClassified, CalledModel, ReplyClassified, HasRow
<1>3. CASE PausePrompt(c)
  <2>1. /\ reply[c] = None /\ HasRow(messages, PromptMsg(c)) /\ pc'[c] = "paused"
        /\ UNCHANGED <<conv, turn, reply, messages>>
    BY <1>0, <1>3 DEF PausePrompt, OpenApproval, OnTrail
  <2>2. PICK s : Classified(c, PromptMsg(c), prompt[c], s,
                     {Event(PromptMsg(c), "approval.requested", c, prompt[c])})
    BY <1>3 DEF PausePrompt
  <2>3. PromptMsg(c).dir = "prompt"
    BY DEF PromptMsg, MakeMessageId
  <2>4. /\ \A x \in ClassifiedTypes["prompt"] : Logged(events', PromptMsg(c), x)
        /\ Logged(events', PromptMsg(c), "approval.requested")
    BY <2>1, <2>2, <2>3, ClassifiedLogged
  <2>5. HeldMsg(c)' = PromptMsg(c) /\ HeldType(c)' = "approval.requested"
    BY <2>1 DEF HeldMsg, HeldType, Side, PromptMsg, MakeMessageId
  <2> QED
    BY <1>1, <2>1, <2>4, <2>5
       DEF OnTrail, LoggedAll, PromptClassified, CalledModel, ReplyClassified
<1>4. CASE AllowPrompt(c)
  <2>1. /\ reply[c] = None /\ HasRow(messages, PromptMsg(c)) /\ pc'[c] = "generate"
        /\ UNCHANGED <<conv, turn, reply, messages>>
    BY <1>0, <1>4 DEF AllowPrompt, OnTrail
  <2>2. PICK s : Classified(c, PromptMsg(c), prompt[c], s,
                     {Event(PromptMsg(c), "llm.request.started", c, prompt[c])})
    BY <1>4 DEF AllowPrompt
  <2>3. PromptMsg(c).dir = "prompt"
    BY DEF PromptMsg, MakeMessageId
  <2>4. /\ \A x \in ClassifiedTypes["prompt"] : Logged(events', PromptMsg(c), x)
        /\ Logged(events', PromptMsg(c), "llm.request.started")
    BY <2>1, <2>2, <2>3, ClassifiedLogged
  <2> QED
    BY <1>1, <2>1, <2>4
       DEF OnTrail, LoggedAll, PromptClassified, CalledModel, ReplyClassified
<1>5. CASE GuardError(c) \/ GenerateError(c)
  <2>1. pc[c] # "idle" /\ pc'[c] = "error" /\ UNCHANGED <<conv, turn, reply>>
    BY <1>5 DEF GuardError, GenerateError
  <2> QED
    BY <1>0, <2>1, TrailKept
<1>6. CASE Generated(c)
  <2>1. PICK t \in Reply : /\ reply' = [reply EXCEPT ![c] = t]
                           /\ messages' = InsertMessage(messages, ResponseMsg(c), t)
    BY <1>6 DEF Generated
  <2>2. /\ pc[c] = "generate" /\ pc'[c] = "classify_response"
        /\ UNCHANGED <<conv, turn, events>>
    BY <1>6 DEF Generated
  <2>3. HasRow(messages', ResponseMsg(c)) /\ HasRow(messages', PromptMsg(c))
    BY <1>0, <2>1, <2>2, InsertHasRow, LoggedGrows DEF OnTrail
  <2>4. PromptClassified(c) /\ CalledModel(c)
    BY <2>2 DEF PromptClassified, CalledModel
  <2> QED
    BY <1>0, <1>1, <2>2, <2>3, <2>4 DEF OnTrail, LoggedAll, ReplyClassified
<1>7. CASE GenerateUnavailable(c)
  <2> DEFINE e == Event(PromptMsg(c), "system.error", c, None)
  <2>1. /\ pc[c] = "generate" /\ pc'[c] = "unavailable"
        /\ UNCHANGED <<conv, turn, reply, messages>>
        /\ events' = WriteEvents(events, messages, {e})
    BY <1>7 DEF GenerateUnavailable
  <2>2. /\ HasRow(messages, PromptMsg(c)) /\ reply[c] = None
        /\ PromptClassified(c) /\ CalledModel(c)
    BY <1>0, <2>1 DEF OnTrail, PromptClassified, CalledModel
  <2>3. e.msg = PromptMsg(c) /\ e.type = "system.error" /\ e \in {e}
    BY DEF Event
  <2>4. Logged(events', PromptMsg(c), "system.error")
    <3> HIDE DEF e
    <3> QED
      BY <2>1, <2>2, <2>3, WrittenLogged
  <2> QED
    BY <1>0, <1>1, <2>1, <2>2, <2>4, LoggedGrows DEF OnTrail, LoggedAll, ReplyClassified
<1>8. CASE PauseResponse(c) \/ Deliver(c)
  <2> DEFINE type == IF PauseResponse(c) THEN "response.blocked" ELSE "response.delivered"
  <2>1. /\ pc[c] = "classify_response" /\ reply[c] # None
        /\ UNCHANGED <<conv, turn, reply, messages>>
        /\ HasRow(messages, ResponseMsg(c)) /\ HasRow(messages, PromptMsg(c))
    BY <1>0, <1>8, TextAssumption DEF PauseResponse, Deliver, OnTrail, LocalsOK
  <2>2. PICK s : Classified(c, ResponseMsg(c), reply[c], s,
                     {Event(ResponseMsg(c), type, c, reply[c])})
    BY <1>8 DEF PauseResponse, Deliver
  <2>3. ResponseMsg(c).dir = "response"
    BY DEF ResponseMsg, MakeMessageId
  <2>4. /\ \A x \in ClassifiedTypes["response"] : Logged(events', ResponseMsg(c), x)
        /\ Logged(events', ResponseMsg(c), type)
    <3> HIDE DEF type
    <3> QED
      BY <2>1, <2>2, <2>3, ClassifiedLogged
  <2>5. PromptClassified(c) /\ CalledModel(c)
    BY <2>1 DEF PromptClassified, CalledModel
  <2>6. HeldMsg(c)' = ResponseMsg(c) /\ HeldType(c)' = "response.blocked"
    BY <2>1 DEF HeldMsg, HeldType, Side, ResponseMsg, MakeMessageId
  <2>7. /\ pc'[c] = "paused" => type = "response.blocked"
        /\ pc'[c] = "delivered" => type = "response.delivered"
        /\ pc'[c] \in {"paused", "delivered"}
    BY <1>8 DEF PauseResponse, Deliver, OpenApproval
  <2> QED
    BY <1>0, <1>1, <2>1, <2>4, <2>5, <2>6, <2>7, LoggedGrows DEF OnTrail, LoggedAll
<1> QED
  BY <1>2, <1>3, <1>4, <1>5, <1>6, <1>7, <1>8 DEF ChatStep

(* The request of one handler changes no request but its own. *)
LEMMA OthersStay ==
    ASSUME TypeInv, NEW c \in Chat, Begin(c) \/ ChatStep(c), NEW o \in Chat \ {c}
    PROVE  /\ conv'[o] = conv[o] /\ turn'[o] = turn[o] /\ prompt'[o] = prompt[o]
           /\ reply'[o] = reply[o] /\ pc'[o] = pc[o]
  BY DEF TypeInv, TypeOK, ChatStep, Begin, PausePrompt, AllowPrompt, GuardError, Generated,
     GenerateUnavailable, GenerateError, PauseResponse, Deliver, OpenApproval

(* The trail of a decision is complete when the message it is anchored to    *)
(* has its row, and so has the reply it delivers.                            *)
LEMMA DecisionLogged ==
    ASSUME NEW d \in Admin, NEW v \in Verb, NEW a \in Chat, NEW ms, NEW delivery,
           Decide(d, v, a, ms, delivery), UNCHANGED chatVars,
           TablesGrow, AuditInv, HasRow(ms, Anchor(a)),
           v \in Releasing => /\ HasRow(ms, ResponseMsg(a))
                              /\ \E t : Event(ResponseMsg(a), "response.delivered", a, t)
                                            \in delivery
    PROVE  \A r \in adminActions' : DecisionOnTrail(r)'
<1> DEFINE row == [by |-> d, approval |-> a, event |-> HeldEvent(a), action |-> v]
           new == delivery \cup DecisionEvents(v, a)
<1>1. adminActions' = adminActions \cup {row} /\ events' = WriteEvents(events, ms, new)
  BY DEF Decide
<1>2. \A r \in adminActions : DecisionOnTrail(r)'
  BY DecisionsKept DEF chatVars
<1>3. Logged(events', Anchor(a), ApprovalEvent[v])
  <2>1. PICK t : Event(Anchor(a), ApprovalEvent[v], a, t) \in new
    BY DEF DecisionEvents
  <2> DEFINE e == Event(Anchor(a), ApprovalEvent[v], a, t)
  <2>2. e.msg = Anchor(a) /\ e.type = ApprovalEvent[v] /\ e \in new
    BY <2>1 DEF Event
  <2> HIDE DEF e, new
  <2> QED
    BY <1>1, <2>2, WrittenLogged
<1>4. ASSUME v \in Releasing PROVE Logged(events', ResponseMsg(a), "response.delivered")
  <2>1. PICK t : Event(ResponseMsg(a), "response.delivered", a, t) \in new
    BY <1>4
  <2> DEFINE e == Event(ResponseMsg(a), "response.delivered", a, t)
  <2>2. e.msg = ResponseMsg(a) /\ e.type = "response.delivered" /\ e \in new
    BY <2>1 DEF Event
  <2> HIDE DEF e, new
  <2> QED
    BY <1>1, <1>4, <2>2, WrittenLogged
<1>5. HeldMsg(a)' = Anchor(a) /\ ResponseMsg(a)' = ResponseMsg(a)
  BY AnchorHeld DEF HeldMsg, ResponseMsg, Side, MakeMessageId, chatVars
<1>6. ASSUME NEW r, r.approval = a, r.action = v PROVE DecisionOnTrail(r)'
  BY <1>3, <1>4, <1>5, <1>6 DEF DecisionOnTrail
<1>7. row.approval = a /\ row.action = v
  OBVIOUS
<1> HIDE DEF row
<1> QED
  BY <1>1, <1>2, <1>6, <1>7

LEMMA AuditPreserved == TypeInv /\ RecordInv /\ AuditInv /\ [Next]_vars => AuditInv'
<1> SUFFICES ASSUME TypeInv, RecordInv, AuditInv, [Next]_vars PROVE AuditInv'
  OBVIOUS
<1>0. TablesGrow
  BY StepGrows
<1>1. ASSUME NEW c \in Chat, Begin(c) \/ ChatStep(c) PROVE AuditInv'
  <2>1. \A o \in Chat \ {c} : OnTrail(o)'
    BY <1>0, <1>1, OthersStay, TrailKept DEF AuditInv
  <2>2. OnTrail(c)'
    BY <1>1, OwnTrail
  <2>3. pc[c] # "paused" /\ adminActions' = adminActions
    BY <1>1 DEF ChatStep, Begin, PausePrompt, AllowPrompt, GuardError, Generated,
       GenerateUnavailable, GenerateError, PauseResponse, Deliver, dbVars
  <2>4. \A r \in adminActions : r.approval \in Chat \ {c}
    BY <2>3 DEF RecordInv, ActionsOnPaused
  <2>5. \A r \in adminActions : DecisionOnTrail(r)'
    BY <1>0, <1>1, <2>4, OthersStay, DecisionsKept
  <2> QED
    BY <2>1, <2>2, <2>3, <2>5 DEF AuditInv
<1>2. ASSUME UNCHANGED <<conv, turn, reply>>,
             \A c \in Chat : pc'[c] = pc[c] \/ (pc[c] # "idle" /\ pc'[c] \in {"error", "lost"})
      PROVE  (\A c \in Chat : OnTrail(c)') /\ \A r \in adminActions : DecisionOnTrail(r)'
  BY <1>0, <1>2, TrailKept, DecisionsKept DEF AuditInv
<1>3. ASSUME NEW d \in Admin, AdminArrives(d) \/ AdminStep(d) PROVE AuditInv'
  <2>1. UNCHANGED chatVars
    BY <1>3 DEF AdminArrives, AdminStep, NotFound, Reject, Escalate, Release, Resume,
       ResumeDelivered, ResumeFailed
  <2>2. (\A c \in Chat : OnTrail(c)') /\ \A r \in adminActions : DecisionOnTrail(r)'
    BY <1>2, <2>1 DEF chatVars
  <2>3. CASE NotFound(d) \/ Resume(d) \/ ResumeFailed(d)
    BY <2>2, <2>3 DEF NotFound, Resume, ResumeFailed, dbVars, AuditInv
  <2>4. \A a \in Chat : pc[a] = "paused" =>
            /\ HasRow(messages, Anchor(a))
            /\ Side(a) = "response" => HasRow(messages, ResponseMsg(a))
            /\ Side(a) = "prompt" => Anchor(a) = PromptMsg(a)
    BY DEF AuditInv, OnTrail, Anchor, Side
  <2>5. \A a \in pending : a \in Chat /\ pc[a] = "paused"
    BY DEF TypeInv, TypeOK, LocalsOK
  <2>6. CASE Reject(d) \/ Escalate(d)
    <3>1. PICK v \in {"rejected", "escalated"}, a \in pending : Decide(d, v, a, messages, {})
      BY <2>6 DEF Reject, Escalate
    <3>2. v \in Verb \ Releasing
      BY DEF Verb, Releasing
    <3> QED
      BY <1>0, <2>1, <2>2, <2>4, <2>5, <3>1, <3>2, DecisionLogged DEF AuditInv
  <2>7. CASE Release(d)
    <3>1. PICK v \in Releasing, a \in pending :
             /\ Side(a) = "response"
             /\ \E t : Decide(d, v, a, messages,
                           {Event(ResponseMsg(a), "response.delivered", a, t)})
      BY <2>7 DEF Release
    <3>2. v \in Verb
      BY DEF Verb, Releasing
    <3> QED
      BY <1>0, <2>1, <2>2, <2>4, <2>5, <3>1, <3>2, DecisionLogged DEF AuditInv
  <2>8. CASE ResumeDelivered(d)
    <3> DEFINE a == target[d]
               msg == ResponseMsg(a)
    <3>1. PICK t \in Reply :
             /\ messages' = InsertMessage(messages, msg, t)
             /\ Decide(d, verb[d], a, messages',
                       {Event(msg, "llm.response.generated", a, t),
                        Event(msg, "response.delivered", a, t)})
      BY <2>8 DEF ResumeDelivered
    <3>2. /\ a \in Chat /\ pc[a] = "paused" /\ verb[d] \in Verb /\ Side(a) = "prompt"
      BY <2>8 DEF ResumeDelivered, TypeInv, TypeOK, LocalsOK, Releasing, Verb, Side
    <3>3. HasRow(messages', msg) /\ HasRow(messages', Anchor(a))
      BY <1>0, <2>4, <3>1, <3>2, InsertHasRow, LoggedGrows
    <3>4. \E u : Event(msg, "response.delivered", a, u)
                     \in {Event(msg, "llm.response.generated", a, t),
                          Event(msg, "response.delivered", a, t)}
      OBVIOUS
    <3> QED
      BY <1>0, <2>1, <2>2, <3>1, <3>2, <3>3, <3>4, DecisionLogged DEF AuditInv
  <2> QED
    BY <1>3, <2>3, <2>6, <2>7, <2>8 DEF AdminArrives, AdminStep
<1>4. CASE Restart
  <2>1. \A c \in Chat : pc'[c] = pc[c] \/ (pc[c] # "idle" /\ pc'[c] \in {"error", "lost"})
    BY <1>4 DEF Restart, Awaiting, TypeInv, TypeOK
  <2> QED
    BY <1>2, <1>4, <2>1 DEF Restart, dbVars, AuditInv
<1>5. CASE Quiescent \/ UNCHANGED vars
  <2>1. UNCHANGED <<chatVars, adminActions>>
    BY <1>5 DEF Quiescent, vars, dbVars
  <2> QED
    BY <1>2, <2>1 DEF chatVars, AuditInv
<1> QED
  BY <1>1, <1>3, <1>4, <1>5 DEF Next

LEMMA RecordStart == Init => RecordInv
  BY DEF Init, RecordInv, OpenRowsResumable, Open, ActionsOnPaused, DecisionsRecorded, Verb

LEMMA AuditStart == Init => AuditInv
  BY DEF Init, AuditInv, OnTrail, PromptClassified, CalledModel, ReplyClassified

LEMMA AuditInvariant == Spec => [](TypeInv /\ RecordInv /\ AuditInv)
  BY InitTyped, RecordStart, AuditStart, TypePreserved, RecordPreserved, AuditPreserved, PTL
     DEF Spec

(* The foreign keys of the event table never cost the trail an event,        *)
(* whatever order the requests, decisions and restarts come in: every step a *)
(* request took and every decision on it is logged for its message.          *)
THEOREM AuditIsComplete == Spec => []AuditComplete
<1>1. AuditInv => AuditComplete
  BY DEF AuditInv, OnTrail, DecisionOnTrail, AuditComplete
<1> QED
  BY <1>1, AuditInvariant, PTL

-----------------------------------------------------------------------------
(* Whose the rows are.  Two requests may share the ids of a turn, so a row   *)
(* says only that some request on that turn wrote it, with its own text; an  *)
(* event also says which one, in its correlation id.                         *)

PromptTexts == ClassifiedTypes["prompt"] \cup {"approval.requested"}
ReplyTexts == ClassifiedTypes["response"] \cup {"response.blocked"}

OnTurnOf(id, o) == id = MakeMessageId(conv[o], turn[o], id.dir)

RowOwned(m) ==
    \E o \in Chat :
        /\ pc[o] # "idle"
        /\ OnTurnOf(m.id, o)
        /\ m.id.dir = "prompt" => m.text = prompt[o]
        /\ m.id.dir = "response" => pc[o] = "paused" \/ reply[o] # None
        /\ m.id.dir = "response" /\ reply[o] # None => m.text = reply[o]

(* A delivery to a paused request is the answer of a release. *)
DeliveredBy(d, e) ==
    /\ apc[d] = "done" /\ verb[d] \in Releasing
    /\ target[d] = e.corr /\ areply[d] = e.text

EventOwned(e) ==
    /\ e.corr \in Chat /\ pc[e.corr] # "idle"
    /\ OnTurnOf(e.msg, e.corr)
    /\ e.type \in PromptTexts => e.text = prompt[e.corr]
    /\ e.type \in ReplyTexts \cup {"response.delivered"} => pc[e.corr] \in {"paused", "delivered"}
    /\ e.type \in ReplyTexts /\ reply[e.corr] # None => e.text = reply[e.corr]
    /\ e.type = "response.delivered" /\ pc[e.corr] = "paused" =>
           \E d \in Admin : DeliveredBy(d, e)

(* A decision that was answered is on record. *)
Recorded(d) ==
    apc[d] = "done" => \E r \in adminActions : r.approval = target[d] /\ r.action = verb[d]

CaptureInv ==
    /\ \A m \in messages : RowOwned(m)
    /\ \A e \in events : EventOwned(e)
    /\ \A d \in Admin : Recorded(d)

(* What no step changes: the turn of a request that has arrived, the end of  *)
(* one that was paused or delivered, a decision that was answered.           *)
Settles(o) ==
    /\ conv'[o] = conv[o] /\ turn'[o] = turn[o] /\ prompt'[o] = prompt[o]
    /\ pc'[o] # "idle"
    /\ pc[o] \in {"paused", "delivered"} => pc'[o] = pc[o]
    /\ reply'[o] = reply[o] \/ (reply[o] = None /\ pc[o] = "generate")

DoneStays(d) ==
    apc[d] = "done" => /\ apc'[d] = "done" /\ verb'[d] = verb[d]
                       /\ target'[d] = target[d] /\ areply'[d] = areply[d]

LEMMA StepSettles ==
    ASSUME TypeInv, AuditInv, [Next]_vars
    PROVE  /\ \A o \in Chat : pc[o] # "idle" => Settles(o)
           /\ \A d \in Admin : DoneStays(d)
<1>1. ASSUME NEW c \in Chat, Begin(c) \/ ChatStep(c), NEW o \in Chat, pc[o] # "idle"
      PROVE  Settles(o)
  <2>1. CASE o # c
    BY <1>1, <2>1, OthersStay DEF Settles
  <2>2. CASE o = c
    BY <1>1, <2>2 DEF Settles, AuditInv, OnTrail, TypeInv, TypeOK, ChatStep, Begin,
       PausePrompt, AllowPrompt, GuardError, Generated, GenerateUnavailable, GenerateError,
       PauseResponse, Deliver, OpenApproval
  <2> QED
    BY <2>1, <2>2
<1>2. ASSUME NEW c \in Chat, Begin(c) \/ ChatStep(c) PROVE UNCHANGED adminVars
  BY <1>2 DEF ChatStep, Begin, PausePrompt, AllowPrompt, GuardError, Generated,
     GenerateUnavailable, GenerateError, PauseResponse, Deliver
<1>3. ASSUME NEW d \in Admin, AdminArrives(d) \/ AdminStep(d)
      PROVE  UNCHANGED chatVars /\ \A x \in Admin : DoneStays(x)
  <2>1. AdminMove(d)
    BY <1>3, AdminMoves
  <2> QED
    BY <2>1 DEF AdminMove, DoneStays
<1>4. CASE Restart
  BY <1>4 DEF Restart, Awaiting, Settles, DoneStays, TypeInv, TypeOK
<1>5. CASE Quiescent \/ UNCHANGED vars
  BY <1>5 DEF Quiescent, vars, chatVars, adminVars, Settles, DoneStays
<1> QED
  BY <1>1, <1>2, <1>3, <1>4, <1>5 DEF Next, adminVars, chatVars, Settles, DoneStays

LEMMA RowKept ==
    ASSUME NEW m, RowOwned(m), \A o \in Chat : pc[o] # "idle" => Settles(o)
    PROVE  RowOwned(m)'
<1>1. PICK o \in Chat :
         /\ pc[o] # "idle"
         /\ OnTurnOf(m.id, o)
         /\ m.id.dir = "prompt" => m.text = prompt[o]
         /\ m.id.dir = "response" => pc[o] = "paused" \/ reply[o] # None
         /\ m.id.dir = "response" /\ reply[o] # None => m.text = reply[o]
  BY DEF RowOwned
<1>2. Settles(o)
  BY <1>1
<1>3. OnTurnOf(m.id, o)'
  BY <1>1, <1>2 DEF OnTurnOf, Settles, MakeMessageId
<1> QED
  BY <1>1, <1>2, <1>3 DEF RowOwned, Settles

LEMMA EventKept ==
    ASSUME NEW e, EventOwned(e), \A o \in Chat : pc[o] # "idle" => Settles(o),
           \A d \in Admin : DoneStays(d)
    PROVE  EventOwned(e)'
<1>1. Settles(e.corr) /\ OnTurnOf(e.msg, e.corr)'
  BY DEF EventOwned, OnTurnOf, Settles, MakeMessageId
<1>2. \A d \in Admin : DeliveredBy(d, e) => DeliveredBy(d, e)'
  BY DEF DeliveredBy, DoneStays
<1> QED
  BY <1>1, <1>2 DEF EventOwned, Settles

LEMMA RecordKept ==
    ASSUME NEW d \in Admin, Recorded(d), adminActions \subseteq adminActions',
           apc'[d] = "done" => apc[d] = "done", DoneStays(d)
    PROVE  Recorded(d)'
  BY DEF Recorded, DoneStays

(* What the insert of a message or an event adds. *)
LEMMA NewRow ==
    ASSUME NEW ms, NEW id, NEW t, NEW m \in InsertMessage(ms, id, t), m \notin ms
    PROVE  m.id = id /\ m.text = t
  BY DEF InsertMessage

LEMMA NewEvent ==
    ASSUME NEW es, NEW ms, NEW new, NEW e \in WriteEvents(es, ms, new), e \notin es
    PROVE  e \in new /\ ~Logged(es, e.msg, e.type)
  BY DEF WriteEvents

LEMMA NewClassified ==
    ASSUME NEW c, NEW msg, NEW t, NEW s, NEW type, NEW e \in events', e \notin events,
           Classified(c, msg, t, s, {Event(msg, type, c, t)})
    PROVE  /\ e.corr = c /\ e.msg = msg /\ e.text = t
           /\ e.type \in ClassifiedTypes[msg.dir] \cup {type}
<1> DEFINE new == ClassifiedEvents(msg, c, t) \cup {Event(msg, type, c, t)}
<1>1. events' = WriteEvents(events, messages, new)
  BY DEF Classified
<1>2. e \in new
  <2> HIDE DEF new
  <2> QED
    BY <1>1, NewEvent
<1> QED
  BY <1>2 DEF ClassifiedEvents, Event

LEMMA TypeClasses ==
    /\ PromptTexts \cap (ReplyTexts \cup {"response.delivered"}) = {}
    /\ {"llm.request.started", "system.error"} \cap
           (PromptTexts \cup ReplyTexts \cup {"response.delivered"}) = {}
    /\ "response.delivered" \notin ReplyTexts
    /\ \A v \in Verb :
           ApprovalEvent[v] \notin PromptTexts \cup ReplyTexts \cup {"response.delivered"}
  BY DEF PromptTexts, ReplyTexts, ClassifiedTypes, ApprovalEvent, Verb

LEMMA OwnTurn == \A o : OnTurnOf(PromptMsg(o), o) /\ OnTurnOf(ResponseMsg(o), o)
  BY DEF OnTurnOf, PromptMsg, ResponseMsg, MakeMessageId

LEMMA CapturedByChat ==
    ASSUME TypeInv, AuditInv, CaptureInv, NEW c \in Chat, Begin(c) \/ ChatStep(c)
    PROVE  CaptureInv'
<1> USE DEF TypeInv, TypeOK
<1>0. /\ \A o \in Chat : pc[o] # "idle" => Settles(o)
      /\ \A d \in Admin : DoneStays(d)
      /\ OnTrail(c)
  <2>1. [Next]_vars
    BY DEF Next
  <2> QED
    BY <2>1, StepSettles DEF AuditInv
<1>1. (\A m \in messages : RowOwned(m)') /\ \A e \in events : EventOwned(e)'
  BY <1>0, RowKept, EventKept DEF CaptureInv
<1>2. \A d \in Admin : Recorded(d)'
  <2>1. UNCHANGED <<adminVars, adminActions>>
    BY DEF ChatStep, Begin, PausePrompt, AllowPrompt, GuardError, Generated,
       GenerateUnavailable, GenerateError, PauseResponse, Deliver, dbVars
  <2> QED
    BY <1>0, <2>1, RecordKept DEF CaptureInv, adminVars
<1>3. ASSUME UNCHANGED <<conv, turn>>
      PROVE  OnTurnOf(PromptMsg(c), c)' /\ OnTurnOf(ResponseMsg(c), c)'
             /\ PromptMsg(c)' = PromptMsg(c) /\ ResponseMsg(c)' = ResponseMsg(c)
             /\ PromptMsg(c).dir = "prompt" /\ ResponseMsg(c).dir = "response"
  BY <1>3 DEF PromptMsg, ResponseMsg, OnTurnOf, MakeMessageId
<1>4. ASSUME UNCHANGED messages, \A e \in events' \ events : EventOwned(e)' PROVE CaptureInv'
  BY <1>1, <1>2, <1>4 DEF CaptureInv
<1>5. ASSUME UNCHANGED events, \A m \in messages' \ messages : RowOwned(m)' PROVE CaptureInv'
  BY <1>1, <1>2, <1>5 DEF CaptureInv
<1>6. CASE Begin(c)
  <2>1. PICK k \in Conv, t \in Prompt :
           /\ conv' = [conv EXCEPT ![c] = k]
           /\ turn' = [turn EXCEPT ![c] = CompletedResponses(k)]
           /\ prompt' = [prompt EXCEPT ![c] = t]
           /\ messages' = InsertMessage(messages,
                              MakeMessageId(k, CompletedResponses(k), "prompt"), t)
    BY <1>6 DEF Begin
  <2>2. ASSUME NEW m \in messages' \ messages PROVE RowOwned(m)'
    <3>1. m.id = MakeMessageId(k, CompletedResponses(k), "prompt") /\ m.text = t
      BY <2>1, NewRow
    <3>2. m.id.dir = "prompt"
      BY <3>1 DEF MakeMessageId
    <3>3. /\ conv'[c] = k /\ turn'[c] = CompletedResponses(k) /\ prompt'[c] = t
          /\ pc'[c] # "idle"
      BY <1>6, <2>1 DEF Begin
    <3>4. OnTurnOf(m.id, c)'
      BY <3>1, <3>2, <3>3 DEF OnTurnOf, MakeMessageId
    <3> QED
      BY <3>1, <3>2, <3>3, <3>4 DEF RowOwned
  <2> QED
    BY <1>5, <1>6, <2>2 DEF Begin
<1>7. CASE Generated(c)
  <2>1. PICK t \in Reply : /\ reply' = [reply EXCEPT ![c] = t]
                           /\ messages' = InsertMessage(messages, ResponseMsg(c), t)
    BY <1>7 DEF Generated
  <2>2. pc'[c] # "idle" /\ reply'[c] = t /\ t # None
    BY <1>7, <2>1, TextAssumption DEF Generated
  <2>3. ASSUME NEW m \in messages' \ messages PROVE RowOwned(m)'
    <3>1. m.id = ResponseMsg(c) /\ m.text = t
      BY <2>1, NewRow
    <3>2. m.id.dir = "response" /\ OnTurnOf(m.id, c)'
      BY <1>3, <1>7, <3>1 DEF Generated
    <3> QED
      BY <2>2, <3>1, <3>2 DEF RowOwned
  <2> QED
    BY <1>5, <1>7, <2>3 DEF Generated
<1>8. CASE PausePrompt(c) \/ AllowPrompt(c)
  <2>1. /\ UNCHANGED <<conv, turn, prompt, messages>> /\ pc'[c] # "idle"
        /\ \E s, type : /\ type \in {"approval.requested", "llm.request.started"}
                        /\ Classified(c, PromptMsg(c), prompt[c], s,
                                      {Event(PromptMsg(c), type, c, prompt[c])})
    BY <1>8 DEF PausePrompt, AllowPrompt, OpenApproval
  <2>2. ASSUME NEW e \in events' \ events PROVE EventOwned(e)'
    <3>1. /\ e.corr = c /\ e.msg = PromptMsg(c) /\ e.text = prompt[c]
          /\ e.type \in ClassifiedTypes["prompt"] \cup {"approval.requested", "llm.request.started"}
      BY <1>3, <2>1, NewClassified
    <3>2. e.type \notin ReplyTexts \cup {"response.delivered"}
      BY <3>1, TypeClasses DEF PromptTexts
    <3> QED
      BY <1>3, <2>1, <3>1, <3>2 DEF EventOwned
  <2> QED
    BY <1>4, <2>1, <2>2
<1>9. CASE GenerateUnavailable(c)
  <2>1. /\ UNCHANGED <<conv, turn, prompt, messages>> /\ pc'[c] # "idle"
        /\ events' = WriteEvents(events, messages,
                         {Event(PromptMsg(c), "system.error", c, None)})
    BY <1>9 DEF GenerateUnavailable
  <2>2. ASSUME NEW e \in events' \ events PROVE EventOwned(e)'
    <3>1. e.corr = c /\ e.msg = PromptMsg(c) /\ e.type = "system.error"
      BY <2>1, NewEvent DEF Event
    <3> QED
      BY <1>3, <2>1, <3>1, TypeClasses DEF EventOwned
  <2> QED
    BY <1>4, <2>1, <2>2
<1>10. CASE PauseResponse(c) \/ Deliver(c)
  <2>1. /\ UNCHANGED <<conv, turn, prompt, reply, messages>>
        /\ \/ /\ pc'[c] = "paused"
              /\ \E s : Classified(c, ResponseMsg(c), reply[c], s,
                            {Event(ResponseMsg(c), "response.blocked", c, reply[c])})
           \/ /\ pc'[c] = "delivered"
              /\ \E s : Classified(c, ResponseMsg(c), reply[c], s,
                            {Event(ResponseMsg(c), "response.delivered", c, reply[c])})
    BY <1>10 DEF PauseResponse, Deliver, OpenApproval
  <2>2. ASSUME NEW e \in events' \ events PROVE EventOwned(e)'
    <3>1. /\ e.corr = c /\ e.msg = ResponseMsg(c) /\ e.text = reply[c]
          /\ e.type \in ReplyTexts \cup {"response.delivered"}
          /\ pc'[c] = "paused" => e.type \in ReplyTexts
      BY <1>3, <2>1, NewClassified DEF ReplyTexts
    <3>2. e.type \notin PromptTexts /\ (e.type = "response.delivered" => pc'[c] # "paused")
      BY <3>1, TypeClasses
    <3> QED
      BY <1>3, <2>1, <3>1, <3>2 DEF EventOwned
  <2> QED
    BY <1>4, <2>1, <2>2
<1>11. CASE GuardError(c) \/ GenerateError(c)
  BY <1>4, <1>11 DEF GuardError, GenerateError, dbVars
<1> QED
  BY <1>6, <1>7, <1>8, <1>9, <1>10, <1>11 DEF ChatStep

(* A decision writes no text of its own, except the reply it delivers; the   *)
(* response.blocked of a rejection finds the one of the pause and is ignored. *)
LEMMA CapturedByDecision ==
    ASSUME TypeInv, AuditInv, CaptureInv, UNCHANGED chatVars,
           NEW d \in Admin, NEW v \in Verb, NEW a \in Chat, pc[a] = "paused",
           NEW ms, NEW delivery, Decide(d, v, a, ms, delivery),
           apc'[d] = "done", verb'[d] = v, target'[d] = a,
           \A x \in Admin \ {d} : apc'[x] = "done" => apc[x] = "done",
           \A x \in Admin : DoneStays(x),
           \A m \in messages' \ messages : RowOwned(m)',
           \A e \in delivery :
               /\ e.corr = a /\ e.msg = ResponseMsg(a)
               /\ \/ e.type = "response.delivered" /\ v \in Releasing /\ areply'[d] = e.text
                  \/ e.type = "llm.response.generated" /\ reply[a] = None
    PROVE  CaptureInv'
<1> DEFINE row == [by |-> d, approval |-> a, event |-> HeldEvent(a), action |-> v]
           new == delivery \cup DecisionEvents(v, a)
<1>0. \A o \in Chat : pc[o] # "idle" => Settles(o)
  BY DEF chatVars, Settles
<1>1. \A m \in messages' : RowOwned(m)'
  BY <1>0, RowKept DEF CaptureInv
<1>2. ASSUME NEW x \in Admin PROVE Recorded(x)'
  <2>1. adminActions' = adminActions \cup {row}
    BY DEF Decide
  <2>2. CASE x = d
    <3>1. row \in adminActions' /\ row.approval = target'[x] /\ row.action = verb'[x]
      BY <2>1, <2>2
    <3> QED
      BY <3>1 DEF Recorded
  <2>3. CASE x # d
    BY <2>1, <2>3, RecordKept DEF CaptureInv
  <2> QED
    BY <2>2, <2>3
<1>3. /\ OnTurnOf(ResponseMsg(a), a)' /\ OnTurnOf(Anchor(a), a)'
      /\ ResponseMsg(a)' = ResponseMsg(a) /\ Anchor(a)' = Anchor(a)
  BY DEF OnTurnOf, ResponseMsg, PromptMsg, Anchor, Side, MakeMessageId, chatVars
<1>4. ASSUME NEW e \in events' \ events PROVE EventOwned(e)'
  <2>1. e \in new /\ ~Logged(events, e.msg, e.type)
    <3>1. events' = WriteEvents(events, ms, new)
      BY DEF Decide
    <3> HIDE DEF new
    <3> QED
      BY <3>1, NewEvent
  <2>2. UNCHANGED pc /\ UNCHANGED reply /\ pc'[a] = "paused"
    BY DEF chatVars
  <2>3. CASE e \in delivery
    <3>1. "response.delivered" \notin PromptTexts \cup ReplyTexts
          /\ "llm.response.generated" \notin PromptTexts
      BY TypeClasses DEF PromptTexts, ClassifiedTypes
    <3>2. CASE e.type = "response.delivered"
      <4>1. DeliveredBy(d, e)'
        BY <2>3, <3>2 DEF DeliveredBy
      <4> QED
        BY <1>3, <2>2, <2>3, <3>1, <3>2, <4>1 DEF EventOwned
    <3>3. CASE e.type # "response.delivered"
      BY <1>3, <2>2, <2>3, <3>1, <3>3 DEF EventOwned
    <3> QED
      BY <3>2, <3>3
  <2>4. CASE e.corr = a /\ e.msg = Anchor(a) /\ e.type = ApprovalEvent[v]
    BY <1>3, <2>2, <2>4, TypeClasses DEF EventOwned
  <2>5. CASE Side(a) = "response" /\ e.msg = Anchor(a) /\ e.type = "response.blocked"
    <3>1. Logged(events, HeldMsg(a), HeldType(a)) /\ HeldType(a) = "response.blocked"
      BY <2>5 DEF AuditInv, OnTrail, HeldType
    <3> QED
      BY <2>1, <2>5, <3>1, AnchorHeld
  <2> QED
    BY <2>1, <2>3, <2>4, <2>5 DEF DecisionEvents, Event
<1> QED
  BY <1>1, <1>2, <1>3, <1>4, <1>0, EventKept DEF CaptureInv

LEMMA CapturedByAdmin ==
    ASSUME TypeInv, AuditInv, CaptureInv, NEW d \in Admin, AdminArrives(d) \/ AdminStep(d)
    PROVE  CaptureInv'
<1>0. UNCHANGED chatVars /\ \A x \in Admin : DoneStays(x)
  <2>1. [Next]_vars
    BY DEF Next
  <2>2. UNCHANGED chatVars
    BY DEF AdminArrives, AdminStep, NotFound, Reject, Escalate, Release, Resume,
       ResumeDelivered, ResumeFailed
  <2> QED
    BY <2>1, <2>2, StepSettles
<1>1. \A o \in Chat : pc[o] # "idle" => Settles(o)
  BY <1>0 DEF chatVars, Settles
<1>2. \A a \in pending : a \in Chat /\ pc[a] = "paused"
  BY DEF TypeInv, TypeOK, LocalsOK
<1>3. CASE NotFound(d) \/ Resume(d) \/ ResumeFailed(d)
  <2>1. UNCHANGED <<messages, events, adminActions>>
    BY <1>3 DEF NotFound, Resume, ResumeFailed, dbVars
  <2>2. \A x \in Admin : apc'[x] = "done" => apc[x] = "done"
    BY <1>3 DEF NotFound, Resume, ResumeFailed, Receive, TypeInv, TypeOK
  <2> QED
    BY <1>0, <1>1, <2>1, <2>2, RowKept, EventKept, RecordKept DEF CaptureInv
<1>4. ASSUME NEW v, NEW a, Receive(d, v, a, "done")
      PROVE  /\ apc'[d] = "done" /\ verb'[d] = v /\ target'[d] = a
             /\ \A x \in Admin \ {d} : apc'[x] = "done" => apc[x] = "done"
  BY <1>4 DEF Receive, TypeInv, TypeOK
<1>5. CASE Reject(d) \/ Escalate(d)
  <2>1. PICK v \in {"rejected", "escalated"}, a \in pending :
           Receive(d, v, a, "done") /\ Decide(d, v, a, messages, {})
    BY <1>5 DEF Reject, Escalate
  <2>2. v \in Verb /\ UNCHANGED messages
    BY <1>5 DEF Reject, Escalate, Verb
  <2> QED
    BY <1>0, <1>2, <1>4, <2>1, <2>2, CapturedByDecision
<1>6. CASE Release(d)
  <2>1. PICK v \in Releasing, a \in pending :
           \E t : /\ Receive(d, v, a, "done") /\ areply' = [areply EXCEPT ![d] = t]
                  /\ Decide(d, v, a, messages,
                            {Event(ResponseMsg(a), "response.delivered", a, t)})
    BY <1>6 DEF Release
  <2>2. PICK t : /\ Receive(d, v, a, "done") /\ areply' = [areply EXCEPT ![d] = t]
                 /\ Decide(d, v, a, messages,
                           {Event(ResponseMsg(a), "response.delivered", a, t)})
    BY <2>1
  <2>3. v \in Verb /\ UNCHANGED messages /\ areply'[d] = t
    BY <1>6, <2>2 DEF Release, Verb, Releasing, TypeInv, TypeOK
  <2>4. \A e \in {Event(ResponseMsg(a), "response.delivered", a, t)} :
            /\ e.corr = a /\ e.msg = ResponseMsg(a)
            /\ e.type = "response.delivered" /\ v \in Releasing /\ areply'[d] = e.text
    BY <2>3 DEF Event
  <2> QED
    BY <1>0, <1>2, <1>4, <2>2, <2>3, <2>4, CapturedByDecision
<1>7. CASE ResumeDelivered(d)
  <2> DEFINE a == target[d]
             msg == ResponseMsg(a)
  <2>1. PICK t \in Reply :
           /\ messages' = InsertMessage(messages, msg, t)
           /\ areply' = [areply EXCEPT ![d] = t]
           /\ Decide(d, verb[d], a, messages',
                     {Event(msg, "llm.response.generated", a, t),
                      Event(msg, "response.delivered", a, t)})
    BY <1>7 DEF ResumeDelivered
  <2>2. /\ a \in Chat /\ pc[a] = "paused" /\ reply[a] = None
        /\ verb[d] \in Releasing /\ verb[d] \in Verb
    BY <1>7 DEF ResumeDelivered, TypeInv, TypeOK, LocalsOK, Releasing, Verb
  <2>3. /\ apc'[d] = "done" /\ verb'[d] = verb[d] /\ target'[d] = a /\ areply'[d] = t
        /\ \A x \in Admin \ {d} : apc'[x] = "done" => apc[x] = "done"
    BY <1>7, <2>1 DEF ResumeDelivered, TypeInv, TypeOK
  <2>4. ASSUME NEW e \in {Event(msg, "llm.response.generated", a, t),
                          Event(msg, "response.delivered", a, t)}
        PROVE  /\ e.corr = a /\ e.msg = ResponseMsg(a)
               /\ \/ e.type = "response.delivered" /\ verb[d] \in Releasing /\ areply'[d] = e.text
                  \/ e.type = "llm.response.generated" /\ reply[a] = None
    BY <2>2, <2>3 DEF Event
  <2>5. ASSUME NEW m \in messages' \ messages PROVE RowOwned(m)'
    <3>1. PICK o \in Chat : o = a
      BY <2>2
    <3>2. m.id = ResponseMsg(o)
      BY <2>1, <3>1, NewRow
    <3>3. m.id.dir = "response" /\ OnTurnOf(m.id, o)'
      BY <1>0, <3>2 DEF OnTurnOf, ResponseMsg, MakeMessageId, chatVars
    <3>4. pc'[o] = "paused" /\ reply'[o] = None
      BY <1>0, <2>2, <3>1 DEF chatVars
    <3> QED
      BY <3>3, <3>4 DEF RowOwned
  <2> HIDE DEF a, msg
  <2>6. msg = ResponseMsg(a)
    BY DEF msg
  <2> QED
    BY <1>0, <2>1, <2>2, <2>3, <2>4, <2>5, <2>6, CapturedByDecision
<1> QED
  BY <1>3, <1>5, <1>6, <1>7 DEF AdminArrives, AdminStep

LEMMA CapturePreserved == TypeInv /\ AuditInv /\ CaptureInv /\ [Next]_vars => CaptureInv'
<1> SUFFICES ASSUME TypeInv, AuditInv, CaptureInv, [Next]_vars PROVE CaptureInv'
  OBVIOUS
<1>1. CASE Restart \/ Quiescent \/ UNCHANGED vars
  <2>1. UNCHANGED <<messages, events, adminActions>>
    BY <1>1 DEF Restart, Quiescent, vars, dbVars
  <2>2. \A x \in Admin : apc'[x] = "done" => apc[x] = "done"
    BY <1>1 DEF Restart, Quiescent, vars, adminVars, TypeInv, TypeOK
  <2> QED
    BY <2>1, <2>2, StepSettles, RowKept, EventKept, RecordKept DEF CaptureInv
<1> QED
  BY <1>1, CapturedByChat, CapturedByAdmin DEF Next

-----------------------------------------------------------------------------
(* A request that is alone on its turn owns every row of the turn. *)
LEMMA AloneOwns ==
    ASSUME NEW c \in Chat, Alone(c), NEW o \in Chat, pc[o] # "idle", NEW id,
           OnTurnOf(id, o), id \in {PromptMsg(c), ResponseMsg(c)}
    PROVE  o = c
  BY DEF Alone, OnTurnOf, PromptMsg, ResponseMsg, MakeMessageId

LEMMA AloneLogged ==
    ASSUME TypeInv, CaptureInv, NEW c \in Chat, Alone(c),
           NEW msg \in {PromptMsg(c), ResponseMsg(c)}, NEW type, Logged(events, msg, type)
    PROVE  \E e \in events : EventOwned(e) /\ e = Event(msg, type, c, e.text)
<1>1. PICK e \in events : e.msg = msg /\ e.type = type
  BY DEF Logged
<1>2. e \in EventRow /\ EventOwned(e)
  BY DEF TypeInv, TypeOK, CaptureInv
<1>3. e.corr = c
  BY <1>1, <1>2, AloneOwns DEF EventOwned
<1>4. e = Event(msg, type, c, e.text)
  BY <1>1, <1>2, <1>3 DEF Event, EventRow
<1> QED
  BY <1>2, <1>4

LEMMA CaptureShows == TypeInv /\ RecordInv /\ AuditInv /\ CaptureInv => SoleTurnCaptured
<1> SUFFICES ASSUME TypeInv, RecordInv, AuditInv, CaptureInv PROVE SoleTurnCaptured
  OBVIOUS
<1>1. ASSUME NEW c \in Chat, pc[c] # "idle", Alone(c)
      PROVE  /\ [id |-> PromptMsg(c), text |-> prompt[c]] \in messages
             /\ PromptClassified(c) => ClassifiedEvents(PromptMsg(c), c, prompt[c]) \subseteq events
             /\ reply[c] # None => [id |-> ResponseMsg(c), text |-> reply[c]] \in messages
             /\ ReplyClassified(c) => ClassifiedEvents(ResponseMsg(c), c, reply[c]) \subseteq events
             /\ pc[c] = "paused" => Event(Anchor(c), HeldType(c), c, HeldText(c)) \in events
  <2>0. OnTrail(c) /\ PromptMsg(c).dir = "prompt" /\ ResponseMsg(c).dir = "response"
    BY DEF AuditInv, PromptMsg, ResponseMsg, MakeMessageId
  <2>1. ASSUME NEW id \in {PromptMsg(c), ResponseMsg(c)}, HasRow(messages, id)
        PROVE  \E t : /\ [id |-> id, text |-> t] \in messages
                      /\ id.dir = "prompt" => t = prompt[c]
                      /\ id.dir = "response" /\ reply[c] # None => t = reply[c]
    <3>1. PICK m \in messages : m.id = id
      BY <2>1 DEF HasRow
    <3>2. m = [id |-> id, text |-> m.text]
      BY <3>1 DEF TypeInv, TypeOK, MessageRow
    <3>3. PICK o \in Chat :
             /\ pc[o] # "idle" /\ OnTurnOf(id, o)
             /\ id.dir = "prompt" => m.text = prompt[o]
             /\ id.dir = "response" /\ reply[o] # None => m.text = reply[o]
      BY <3>1 DEF CaptureInv, RowOwned
    <3>4. o = c
      BY <1>1, <3>3, AloneOwns
    <3> QED
      BY <3>2, <3>3, <3>4
  <2>2. ASSUME NEW type \in PromptTexts, Logged(events, PromptMsg(c), type)
        PROVE  Event(PromptMsg(c), type, c, prompt[c]) \in events
    <3>1. PICK e \in events : EventOwned(e) /\ e = Event(PromptMsg(c), type, c, e.text)
      BY <1>1, <2>2, AloneLogged
    <3>2. e.corr = c /\ e.type = type
      BY <3>1 DEF Event
    <3> QED
      BY <3>1, <3>2 DEF EventOwned
  <2>3. ASSUME NEW type \in ReplyTexts, reply[c] # None, Logged(events, ResponseMsg(c), type)
        PROVE  Event(ResponseMsg(c), type, c, reply[c]) \in events
    <3>1. PICK e \in events : EventOwned(e) /\ e = Event(ResponseMsg(c), type, c, e.text)
      BY <1>1, <2>3, AloneLogged
    <3>2. e.corr = c /\ e.type = type
      BY <3>1 DEF Event
    <3> QED
      BY <2>3, <3>1, <3>2 DEF EventOwned
  <2>4. /\ [id |-> PromptMsg(c), text |-> prompt[c]] \in messages
        /\ reply[c] # None => [id |-> ResponseMsg(c), text |-> reply[c]] \in messages
    BY <1>1, <2>0, <2>1 DEF OnTrail
  <2>5. ASSUME PromptClassified(c)
        PROVE  ClassifiedEvents(PromptMsg(c), c, prompt[c]) \subseteq events
    BY <2>0, <2>2, <2>5 DEF OnTrail, LoggedAll, ClassifiedEvents, PromptTexts
  <2>6. ASSUME ReplyClassified(c)
        PROVE  ClassifiedEvents(ResponseMsg(c), c, reply[c]) \subseteq events
    BY <2>0, <2>3, <2>6
       DEF OnTrail, LoggedAll, ClassifiedEvents, ReplyTexts, ReplyClassified
  <2>7. ASSUME pc[c] = "paused" PROVE Event(Anchor(c), HeldType(c), c, HeldText(c)) \in events
    <3>1. Logged(events, Anchor(c), HeldType(c))
      BY <2>0, <2>7, AnchorHeld DEF OnTrail
    <3>2. CASE reply[c] = None
      <4>1. /\ Anchor(c) = PromptMsg(c) /\ HeldText(c) = prompt[c]
            /\ HeldType(c) = "approval.requested"
        BY <3>2 DEF Anchor, HeldText, HeldType, Side
      <4> QED
        BY <2>2, <3>1, <4>1 DEF PromptTexts
    <3>3. CASE reply[c] # None
      <4>1. /\ Anchor(c) = ResponseMsg(c) /\ HeldText(c) = reply[c]
            /\ HeldType(c) = "response.blocked"
        BY <3>3 DEF Anchor, HeldText, HeldType, Side
      <4> QED
        BY <2>3, <3>1, <3>3, <4>1 DEF ReplyTexts
    <3> QED
      BY <3>2, <3>3
  <2> QED
    BY <2>4, <2>5, <2>6, <2>7
<1>2. ASSUME NEW d \in Admin, apc[d] = "done", verb[d] \in Releasing,
             Alone(target[d]), OnlyRelease(d)
      PROVE  Event(ResponseMsg(target[d]), "response.delivered", target[d], areply[d]) \in events
  <2>1. PICK r \in adminActions : r.approval = target[d] /\ r.action = verb[d]
    BY <1>2 DEF CaptureInv, Recorded
  <2>2. target[d] \in Chat /\ pc[target[d]] = "paused"
    BY <2>1 DEF RecordInv, ActionsOnPaused
  <2>3. Logged(events, ResponseMsg(target[d]), "response.delivered")
    BY <1>2, <2>1 DEF AuditInv, DecisionOnTrail
  <2>4. PICK e \in events :
           /\ EventOwned(e)
           /\ e = Event(ResponseMsg(target[d]), "response.delivered", target[d], e.text)
    BY <1>2, <2>2, <2>3, AloneLogged
  <2>5. e.corr = target[d] /\ e.type = "response.delivered"
    BY <2>4 DEF Event
  <2>6. PICK x \in Admin : DeliveredBy(x, e)
    BY <2>2, <2>4, <2>5 DEF EventOwned
  <2>7. x = d
    BY <1>2, <2>5, <2>6 DEF OnlyRelease, DeliveredBy
  <2> QED
    BY <2>4, <2>6, <2>7 DEF DeliveredBy
<1> QED
  BY <1>1, <1>2 DEF SoleTurnCaptured

LEMMA CaptureStart == Init => CaptureInv
  BY DEF Init, CaptureInv, Recorded

(* However many requests read the same turn index, and whatever INSERT OR    *)
(* IGNORE drops for it: a request that no other one shares its turn with has *)
(* its prompt, its reply and their classifications on record as its own, and *)
(* its one release the reply it delivered.                                   *)
THEOREM SoleTurnIsCaptured == Spec => []SoleTurnCaptured
  BY AuditInvariant, CaptureStart, CapturePreserved, CaptureShows, PTL DEF Spec
=============================================================================
