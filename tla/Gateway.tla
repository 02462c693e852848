------------------------------- MODULE Gateway -------------------------------
(***************************************************************************)
(* POST /chat (routes/chat.py) and the administrator's decisions on the    *)
(* turns it pauses (routes/admin.py), over the tables that both write      *)
(* (audit/event_sink.py, governance.py).                                   *)
(*                                                                         *)
(* One asyncio event loop runs every handler, so handlers interleave only  *)
(* where one of them awaits a model.  Each action below is the code of one *)
(* handler between two awaits, all its commits included.                   *)
(***************************************************************************)
EXTENDS Taxonomy, FiniteSets

CONSTANTS
    Chat,         \* the POST /chat requests; a request also names the approval
                  \* it may open and its correlation id (both fresh uuid4s)
    Admin,        \* the POST /approvals/{id}/<verb> requests
    Conv,         \* conversation ids
    Text,         \* message contents
    Prompt,       \* the contents clients send
    Reply,        \* the contents the assistant model returns
    Scan,         \* Scan[t]: the highest severity the DLP scanner finds in t
    Redact,       \* Redact[t]: governance.redact(t)
    GuardSev,     \* the severities the guard model may return
    None,         \* no value yet; as a text, one of the fixed notes of the code
    MaxRestarts   \* bound on the restarts of the process

(* The administrator's verbs, by the status they leave. *)
Verb == {"approved", "rejected", "redacted_resumed", "false_positive", "escalated"}

ASSUME TextAssumption ==
    /\ Prompt \subseteq Text
    /\ Reply \subseteq Text
    /\ None \notin Text \cup Chat \cup Conv \cup Verb
    /\ Redact \in [Text -> Text]
    /\ Scan \in [Text -> Severity]
ASSUME GuardAssumption == GuardSev \subseteq Severity
ASSUME RestartAssumption == MaxRestarts \in Nat

(* The verbs that release what was held. *)
Releasing == {"approved", "redacted_resumed", "false_positive"}

Status == {"none", "pending"} \cup Verb

(* An open approval can still be decided; a resolved one must not be. *)
Open == {"pending", "escalated"}
Resolved == Verb \ {"escalated"}

Direction == {"prompt", "response"}

MessageId == [conv : Conv, turn : Nat, dir : Direction]

ApprovalEvent ==
    [approved         |-> "approval.approved",
     rejected         |-> "approval.rejected",
     redacted_resumed |-> "approval.redacted_resumed",
     false_positive   |-> "approval.false_positive_marked",
     escalated        |-> "approval.escalated"]

EventType ==
    {"prompt.received", "prompt.classification.started",
     "prompt.classification.completed", "approval.requested",
     "llm.request.started", "system.error", "llm.response.generated",
     "response.classification.started", "response.classification.completed",
     "response.blocked", "response.delivered"}
        \cup {ApprovalEvent[v] : v \in Verb}

VARIABLES
    (* the handler of POST /chat, and its locals once they are set *)
    pc,           \* where the request is; "idle" before it arrives
    conv, turn, prompt, reply, sev,
    (* the handlers of the administrator's requests *)
    apc, verb, target, areply,
    (* SQLite *)
    messages,     \* rows [id, text]; id is deterministic
    events,       \* rows [msg, type, corr, text]; <<msg, type>> is the event id
    approvals,    \* Chat -> status column of approval_requests, "none": no row
    adminActions, \* rows [by, approval, event, action]
    redactions,   \* rows [by, event, original, redacted]
    (* app.state.pending *)
    pending,      \* the approvals whose resume context is in memory
    (* history *)
    sent,         \* <<c, t>>: text t of request c went to the assistant model
    orphaned,     \* approvals whose context a restart dropped
    restarts

chatVars  == <<pc, conv, turn, prompt, reply, sev>>
adminVars == <<apc, verb, target, areply>>
dbVars    == <<messages, events, approvals, adminActions, redactions>>
restartVars == <<orphaned, restarts>>
vars == <<chatVars, adminVars, dbVars, pending, sent, restartVars>>

-----------------------------------------------------------------------------
(* The sink: identities, INSERT OR IGNORE, foreign keys. *)

(* MUTANT: the conversation is not part of the key. *)
MessageIdWithoutConv(k, n, dir) == [conv |-> None, turn |-> n, dir |-> dir]

MakeMessageId(k, n, dir) == [conv |-> k, turn |-> n, dir |-> dir]

PromptMsg(c) == MakeMessageId(conv[c], turn[c], "prompt")
ResponseMsg(c) == MakeMessageId(conv[c], turn[c], "response")

HasRow(ms, id) == \E m \in ms : m.id = id

(* insert_message: a row whose id is taken is ignored. *)
InsertMessage(ms, id, t) ==
    IF HasRow(ms, id) THEN ms ELSE ms \cup {[id |-> id, text |-> t]}

Responses(ms, k) == {m \in ms : m.id.conv = k /\ m.id.dir = "response"}

(* MUTANT: every row of the conversation is counted. *)
CountAllRows(k) == Cardinality({m \in messages : m.id.conv = k})

CompletedResponses(k) == Cardinality(Responses(messages, k))

Event(msg, type, c, t) == [msg |-> msg, type |-> type, corr |-> c, text |-> t]

Logged(es, msg, type) == \E e \in es : e.msg = msg /\ e.type = type

(* MUTANT: INSERT OR REPLACE. *)
ReplaceEvents(es, ms, new) ==
    {e \in es : ~Logged(new, e.msg, e.type)} \cup {e \in new : HasRow(ms, e.msg)}

(* write_event for each of the events new: the row is ignored when its id is *)
(* taken, and refused (swallowed, False) when its message has no row.        *)
WriteEvents(es, ms, new) ==
    es \cup {e \in new : ~Logged(es, e.msg, e.type) /\ HasRow(ms, e.msg)}

(* prompt.received, or llm.response.generated, and the two events of        *)
(* _write_classification_events.                                            *)
ClassifiedTypes ==
    [prompt   |-> {"prompt.received", "prompt.classification.started",
                   "prompt.classification.completed"},
     response |-> {"llm.response.generated", "response.classification.started",
                   "response.classification.completed"}]

ClassifiedEvents(msg, c, t) ==
    {Event(msg, type, c, t) : type \in ClassifiedTypes[msg.dir]}

-----------------------------------------------------------------------------
(* Classification: the scanner always counts, the guard may be unavailable. *)

Unavailable == "unavailable"

Verdict(g) == IF g = Unavailable THEN "none" ELSE g

(* MUTANT: without the guard's answer the findings are dropped. *)
GuardOnlyWhenUp(t, g) == IF g = Unavailable THEN "none" ELSE MaxSeverity(g, Scan[t])

ClassifyText(t, g) == MaxSeverity(Verdict(g), Scan[t])

Guard == GuardSev \cup {Unavailable}

-----------------------------------------------------------------------------
Init ==
    /\ pc = [c \in Chat |-> "idle"]
    /\ conv = [c \in Chat |-> None]
    /\ turn = [c \in Chat |-> 0]
    /\ prompt = [c \in Chat |-> None]
    /\ reply = [c \in Chat |-> None]
    /\ sev = [c \in Chat |-> "none"]
    /\ apc = [d \in Admin |-> "idle"]
    /\ verb = [d \in Admin |-> None]
    /\ target = [d \in Admin |-> None]
    /\ areply = [d \in Admin |-> None]
    /\ messages = {}
    /\ events = {}
    /\ approvals = [c \in Chat |-> "none"]
    /\ adminActions = {}
    /\ redactions = {}
    /\ pending = {}
    /\ sent = {}
    /\ orphaned = {}
    /\ restarts = 0

-----------------------------------------------------------------------------
(* POST /chat *)

(* Up to the await of the guard on the prompt: the turn index is read, the   *)
(* identities derived from it, and the prompt's row inserted.                *)
Begin(c) ==
    /\ pc[c] = "idle"
    /\ \E k \in Conv, t \in Prompt :
        /\ conv' = [conv EXCEPT ![c] = k]
        /\ turn' = [turn EXCEPT ![c] = CompletedResponses(k)]
        /\ prompt' = [prompt EXCEPT ![c] = t]
        /\ messages' = InsertMessage(messages,
                           MakeMessageId(k, CompletedResponses(k), "prompt"), t)
    /\ pc' = [pc EXCEPT ![c] = "classify_prompt"]
    /\ UNCHANGED <<reply, sev, adminVars, events, approvals, adminActions,
                   redactions, pending, sent, restartVars>>

(* The guard has answered for the text t of the request: the events that     *)
(* carry the classification, and those of the step that follows.             *)
Classified(c, msg, t, s, more) ==
    /\ sev' = [sev EXCEPT ![c] = s]
    /\ events' = WriteEvents(events, messages, ClassifiedEvents(msg, c, t) \cup more)

(* The approval row and the resume context of a paused request. *)
OpenApproval(c) ==
    /\ approvals' = [approvals EXCEPT ![c] = "pending"]
    /\ pending' = pending \cup {c}
    /\ pc' = [pc EXCEPT ![c] = "paused"]

PausePrompt(c) ==
    /\ pc[c] = "classify_prompt"
    /\ \E g \in Guard :
        LET s == ClassifyText(prompt[c], g) IN
        /\ IsPaused(s)
        /\ Classified(c, PromptMsg(c), prompt[c], s,
               {Event(PromptMsg(c), "approval.requested", c, prompt[c])})
    /\ OpenApproval(c)
    /\ UNCHANGED <<conv, turn, prompt, reply, adminVars, messages, adminActions,
                   redactions, sent, restartVars>>

(* Up to the await of the assistant. *)
AllowPrompt(c) ==
    /\ pc[c] = "classify_prompt"
    /\ \E g \in Guard :
        LET s == ClassifyText(prompt[c], g) IN
        /\ ~IsPaused(s)
        /\ Classified(c, PromptMsg(c), prompt[c], s,
               {Event(PromptMsg(c), "llm.request.started", c, prompt[c])})
    /\ pc' = [pc EXCEPT ![c] = "generate"]
    /\ sent' = sent \cup {<<c, prompt[c]>>}
    /\ UNCHANGED <<conv, turn, prompt, reply, adminVars, messages, approvals,
                   adminActions, redactions, pending, restartVars>>

(* The guard fails with anything but GuardUnavailableError (an HTTP 500, a   *)
(* body without the answer): classify_text raises and the request is a 500.  *)
GuardError(c) ==
    /\ pc[c] \in {"classify_prompt", "classify_response"}
    /\ pc' = [pc EXCEPT ![c] = "error"]
    /\ UNCHANGED <<conv, turn, prompt, reply, sev, adminVars, dbVars, pending,
                   sent, restartVars>>

(* Up to the await of the guard on the response. *)
Generated(c) ==
    /\ pc[c] = "generate"
    /\ \E t \in Reply :
        /\ reply' = [reply EXCEPT ![c] = t]
        /\ messages' = InsertMessage(messages, ResponseMsg(c), t)
    /\ pc' = [pc EXCEPT ![c] = "classify_response"]
    /\ UNCHANGED <<conv, turn, prompt, sev, adminVars, events, approvals,
                   adminActions, redactions, pending, sent, restartVars>>

(* MUTANT: an outage starts the turn again. *)
RetryUnavailable(c) ==
    /\ pc[c] = "generate"
    /\ pc' = [pc EXCEPT ![c] = "classify_prompt"]
    /\ UNCHANGED <<conv, turn, prompt, reply, sev, adminVars, dbVars, pending,
                   sent, restartVars>>

(* OllamaUnavailableError: audited, and a 503. *)
GenerateUnavailable(c) ==
    /\ pc[c] = "generate"
    /\ events' = WriteEvents(events, messages,
                     {Event(PromptMsg(c), "system.error", c, None)})
    /\ pc' = [pc EXCEPT ![c] = "unavailable"]
    /\ UNCHANGED <<conv, turn, prompt, reply, sev, adminVars, messages, approvals,
                   adminActions, redactions, pending, sent, restartVars>>

(* Any other failure of the assistant is not caught. *)
GenerateError(c) ==
    /\ pc[c] = "generate"
    /\ pc' = [pc EXCEPT ![c] = "error"]
    /\ UNCHANGED <<conv, turn, prompt, reply, sev, adminVars, dbVars, pending,
                   sent, restartVars>>

PauseResponse(c) ==
    /\ pc[c] = "classify_response"
    /\ \E g \in Guard :
        LET s == ClassifyText(reply[c], g) IN
        /\ IsPaused(s)
        /\ Classified(c, ResponseMsg(c), reply[c], s,
               {Event(ResponseMsg(c), "response.blocked", c, reply[c])})
    /\ OpenApproval(c)
    /\ UNCHANGED <<conv, turn, prompt, reply, adminVars, messages, adminActions,
                   redactions, sent, restartVars>>

Deliver(c) ==
    /\ pc[c] = "classify_response"
    /\ \E g \in Guard :
        LET s == ClassifyText(reply[c], g) IN
        /\ ~IsPaused(s)
        /\ Classified(c, ResponseMsg(c), reply[c], s,
               {Event(ResponseMsg(c), "response.delivered", c, reply[c])})
    /\ pc' = [pc EXCEPT ![c] = "delivered"]
    /\ UNCHANGED <<conv, turn, prompt, reply, adminVars, messages, approvals,
                   adminActions, redactions, pending, sent, restartVars>>

-----------------------------------------------------------------------------
(* POST /approvals/{id}/<verb>.  The resume context of approval a is the     *)
(* frozen locals of request a.                                               *)

Side(a) == IF reply[a] = None THEN "prompt" ELSE "response"

HeldText(a) == IF Side(a) = "prompt" THEN prompt[a] ELSE reply[a]

(* MUTANT: the response's id, which has no row for a held prompt. *)
AnchorResponse(a) == ResponseMsg(a)

(* The message that admin events about a are anchored to, and ctx.event_id.  *)
Anchor(a) == IF Side(a) = "prompt" THEN PromptMsg(a) ELSE ResponseMsg(a)

HeldType(a) == IF Side(a) = "prompt" THEN "approval.requested" ELSE "response.blocked"

HeldEvent(a) == [msg |-> Anchor(a), type |-> HeldType(a)]

DecisionEvents(v, a) ==
    {Event(Anchor(a), ApprovalEvent[v], a,
           IF v = "redacted_resumed" THEN Redact[HeldText(a)] ELSE None)}
        \cup (IF v = "rejected" /\ Side(a) = "response"
              THEN {Event(Anchor(a), "response.blocked", a, None)} ELSE {})

(* MUTANT: false-positive forgets to pop. *)
PoppedUnlessFalsePositive(v, a) == IF v \in {"escalated", "false_positive"} THEN {} ELSE {a}

(* MUTANT: escalate pops. *)
PoppedAlways(v, a) == {a}

(* pending.pop(approval_id, None), which only escalate does not call. *)
Popped(v, a) == IF v = "escalated" THEN {} ELSE {a}

(* The end of every handler that found a context: its events, its            *)
(* admin_actions row, the status of the approval, and unless it escalates    *)
(* the context is popped.  ms is the messages table by then.                 *)
Decide(d, v, a, ms, delivery) ==
    /\ events' = WriteEvents(events, ms, delivery \cup DecisionEvents(v, a))
    /\ adminActions' = adminActions \cup
           {[by |-> d, approval |-> a, event |-> HeldEvent(a), action |-> v]}
    /\ redactions' =
           IF v = "redacted_resumed"
           THEN redactions \cup
                  {[by |-> d, event |-> HeldEvent(a), original |-> HeldText(a),
                    redacted |-> Redact[HeldText(a)]]}
           ELSE redactions
    /\ approvals' = [approvals EXCEPT ![a] = v]
    /\ pending' = pending \ Popped(v, a)

Receive(d, v, a, where) ==
    /\ apc[d] = "idle"
    /\ verb' = [verb EXCEPT ![d] = v]
    /\ target' = [target EXCEPT ![d] = a]
    /\ apc' = [apc EXCEPT ![d] = where]

(* _ctx_or_404 finds no context. *)
NotFound(d) ==
    /\ \E v \in Verb, a \in Chat \ pending : Receive(d, v, a, "not_found")
    /\ UNCHANGED <<areply, chatVars, dbVars, pending, sent, restartVars>>

Reject(d) ==
    /\ \E a \in pending :
        /\ Receive(d, "rejected", a, "done")
        /\ Decide(d, "rejected", a, messages, {})
    /\ UNCHANGED <<areply, chatVars, messages, sent, restartVars>>

(* MUTANT: the approval is looked up by its row, not by its context. *)
EscalateByRow(d) ==
    /\ \E a \in {x \in Chat : approvals[x] # "none"} :
        /\ Receive(d, "escalated", a, "done")
        /\ Decide(d, "escalated", a, messages, {})
    /\ UNCHANGED <<areply, chatVars, messages, sent, restartVars>>

Escalate(d) ==
    /\ \E a \in pending :
        /\ Receive(d, "escalated", a, "done")
        /\ Decide(d, "escalated", a, messages, {})
    /\ UNCHANGED <<areply, chatVars, messages, sent, restartVars>>

(* approve, redact-resume or false-positive of a held response: one step.    *)
Release(d) ==
    /\ \E v \in Releasing, a \in pending :
        LET t == IF v = "redacted_resumed" THEN Redact[reply[a]] ELSE reply[a] IN
        /\ Side(a) = "response"
        /\ Receive(d, v, a, "done")
        /\ areply' = [areply EXCEPT ![d] = t]
        /\ Decide(d, v, a, messages,
                  {Event(ResponseMsg(a), "response.delivered", a, t)})
    /\ UNCHANGED <<chatVars, messages, sent, restartVars>>

(* MUTANT: the side of the context is not looked at. *)
ResumeEitherSide(d) ==
    /\ \E v \in Releasing, a \in pending :
        /\ Receive(d, v, a, "generate")
        /\ sent' = sent \cup {<<a, prompt[a]>>}
    /\ UNCHANGED <<areply, chatVars, dbVars, pending, restartVars>>

(* The same verbs on a held prompt run the assistant first: up to its await. *)
(* A redact-resume masks the message it sends.                               *)
Resume(d) ==
    /\ \E v \in Releasing, a \in pending :
        /\ Side(a) = "prompt"
        /\ Receive(d, v, a, "generate")
        /\ sent' = sent \cup
               {<<a, IF v = "redacted_resumed" THEN Redact[prompt[a]] ELSE prompt[a]>>}
    /\ UNCHANGED <<areply, chatVars, dbVars, pending, restartVars>>

(* The rest of _generate_and_deliver and of the handler.  The context was    *)
(* looked up before the await and is not looked up again.                    *)
ResumeDelivered(d) ==
    LET a == target[d]
        msg == ResponseMsg(a)
    IN
    /\ apc[d] = "generate"
    /\ \E t \in Reply :
        LET ms == InsertMessage(messages, msg, t) IN
        /\ messages' = ms
        /\ areply' = [areply EXCEPT ![d] = t]
        /\ Decide(d, verb[d], a, ms,
                  {Event(msg, "llm.response.generated", a, t),
                   Event(msg, "response.delivered", a, t)})
    /\ apc' = [apc EXCEPT ![d] = "done"]
    /\ UNCHANGED <<verb, target, chatVars, sent, restartVars>>

(* The assistant is unavailable, or fails otherwise: nothing catches it.     *)
ResumeFailed(d) ==
    /\ apc[d] = "generate"
    /\ \E why \in {"outage", "error"} : apc' = [apc EXCEPT ![d] = why]
    /\ UNCHANGED <<verb, target, areply, chatVars, dbVars, pending, sent, restartVars>>

-----------------------------------------------------------------------------
Awaiting == {"classify_prompt", "generate", "classify_response"}

(* The process stops and starts again: the tables persist, app.state.pending *)
(* and the handlers in progress do not.                                      *)
Restart ==
    /\ restarts < MaxRestarts
    /\ restarts' = restarts + 1
    /\ pc' = [c \in Chat |-> IF pc[c] \in Awaiting THEN "lost" ELSE pc[c]]
    /\ apc' = [d \in Admin |-> IF apc[d] = "generate" THEN "lost" ELSE apc[d]]
    /\ orphaned' = orphaned \cup pending
    /\ pending' = {}
    /\ UNCHANGED <<conv, turn, prompt, reply, sev, verb, target, areply, dbVars, sent>>

(* Every request has been answered. *)
Quiescent ==
    /\ \A c \in Chat : pc[c] \notin Awaiting \cup {"idle"}
    /\ \A d \in Admin : apc[d] \notin {"idle", "generate"}
    /\ UNCHANGED vars

(* What a handler does when the model it awaits answers or fails. *)
ChatStep(c) ==
    \/ PausePrompt(c) \/ AllowPrompt(c) \/ GuardError(c)
    \/ Generated(c) \/ GenerateUnavailable(c) \/ GenerateError(c)
    \/ PauseResponse(c) \/ Deliver(c)

AdminStep(d) == ResumeDelivered(d) \/ ResumeFailed(d)

AdminArrives(d) ==
    NotFound(d) \/ Reject(d) \/ Escalate(d) \/ Release(d) \/ Resume(d)

Next ==
    \/ \E c \in Chat : Begin(c) \/ ChatStep(c)
    \/ \E d \in Admin : AdminArrives(d) \/ AdminStep(d)
    \/ Restart
    \/ Quiescent

Spec == Init /\ [][Next]_vars

(* httpx bounds every call to a model by ollama_timeout_seconds, so each     *)
(* await ends.  No client and no administrator has to act.                   *)
FairSpec ==
    /\ Spec
    /\ \A c \in Chat : WF_vars(ChatStep(c))
    /\ \A d \in Admin : WF_vars(AdminStep(d))

-----------------------------------------------------------------------------
(* Types *)

MessageRow == [id : MessageId, text : Text]
EventRow == [msg : MessageId, type : EventType, corr : Chat, text : Text \cup {None}]
EventId == [msg : MessageId, type : EventType]
ActionRow == [by : Admin, approval : Chat, event : EventId, action : Verb]
RedactionRow == [by : Admin, event : EventId, original : Text, redacted : Text]

(* A request has its locals once it has arrived, and its reply once the      *)
(* assistant has answered it; an administrator's request has its target.     *)
LocalsOK ==
    /\ \A c \in Chat : pc[c] # "idle" => conv[c] \in Conv /\ prompt[c] \in Prompt
    /\ \A c \in Chat : pc[c] \in {"classify_response", "delivered"} => reply[c] \in Reply
    /\ \A c \in pending : pc[c] = "paused"
    /\ \A d \in Admin : apc[d] # "idle" => target[d] \in Chat /\ verb[d] \in Verb
    /\ \A d \in Admin : apc[d] = "generate" =>
           pc[target[d]] = "paused" /\ verb[d] \in Releasing /\ reply[target[d]] = None

TypeOK ==
    /\ pc \in [Chat -> Awaiting \cup {"idle", "delivered", "paused", "unavailable",
                                    "error", "lost"}]
    /\ conv \in [Chat -> Conv \cup {None}]
    /\ turn \in [Chat -> Nat]
    /\ prompt \in [Chat -> Prompt \cup {None}]
    /\ reply \in [Chat -> Reply \cup {None}]
    /\ sev \in [Chat -> Severity]
    /\ apc \in [Admin -> {"idle", "generate", "done", "not_found", "outage",
                          "error", "lost"}]
    /\ verb \in [Admin -> Verb \cup {None}]
    /\ target \in [Admin -> Chat \cup {None}]
    /\ areply \in [Admin -> Text \cup {None}]
    /\ messages \subseteq MessageRow
    /\ events \subseteq EventRow
    /\ approvals \in [Chat -> Status]
    /\ adminActions \subseteq ActionRow
    /\ redactions \subseteq RedactionRow
    /\ pending \subseteq Chat
    /\ sent \subseteq Chat \X Text
    /\ orphaned \subseteq Chat
    /\ restarts \in 0 .. MaxRestarts
    /\ LocalsOK

-----------------------------------------------------------------------------
(* Turns *)

ResponseTurns(k) == {m.id.turn : m \in Responses(messages, k)}

(* The response rows of a conversation are its turns 0 .. n-1 with no gap    *)
(* and no double, and no request holds a turn beyond n, although any number  *)
(* of requests read the count before one of them inserts a row.              *)
TurnsContiguous ==
    /\ \A k \in Conv : ResponseTurns(k) = 0 .. CompletedResponses(k) - 1
    /\ \A c \in Chat : pc[c] # "idle" => turn[c] <= CompletedResponses(conv[c])

-----------------------------------------------------------------------------
(* The audit trail *)

LoggedAll(msg, types) == \A type \in types : Logged(events, msg, type)

(* Requests whose prompt has been classified, as far as the trail can tell   *)
(* for one that failed or was lost.                                          *)
PromptClassified(c) ==
    reply[c] # None \/ pc[c] \in {"generate", "delivered", "paused", "unavailable"}

CalledModel(c) == reply[c] # None \/ pc[c] \in {"generate", "delivered", "unavailable"}

ReplyClassified(c) == reply[c] # None /\ pc[c] \in {"delivered", "paused"}

HeldMsg(a) == MakeMessageId(conv[a], turn[a], Side(a))

(* No event is dropped by a foreign key: whatever a request and its          *)
(* decisions have done, an event of every type they write is on record for   *)
(* the message they write it about.                                          *)
AuditComplete ==
    /\ \A c \in Chat :
        /\ PromptClassified(c) => LoggedAll(PromptMsg(c), ClassifiedTypes["prompt"])
        /\ CalledModel(c) => Logged(events, PromptMsg(c), "llm.request.started")
        /\ pc[c] = "unavailable" => Logged(events, PromptMsg(c), "system.error")
        /\ ReplyClassified(c) => LoggedAll(ResponseMsg(c), ClassifiedTypes["response"])
        /\ pc[c] = "delivered" => Logged(events, ResponseMsg(c), "response.delivered")
        /\ pc[c] = "paused" => Logged(events, HeldMsg(c), HeldType(c))
    /\ \A r \in adminActions :
        /\ Logged(events, HeldMsg(r.approval), ApprovalEvent[r.action])
        /\ r.action \in Releasing =>
              Logged(events, ResponseMsg(r.approval), "response.delivered")

(* No other request works on the same turn of the same conversation. *)
Alone(c) ==
    \A o \in Chat \ {c} : pc[o] # "idle" => conv[o] # conv[c] \/ turn[o] # turn[c]

(* The same administrator's answer is the only one that ran the held prompt. *)
OnlyRelease(d) ==
    \A o \in Admin \ {d} :
        apc[o] = "done" /\ verb[o] \in Releasing => target[o] # target[d]

(* Deterministic ids do not hide the turn of one request behind another's:   *)
(* a request that shares its turn with no other has its own texts in its     *)
(* rows and its own correlation id and texts in its events, the one that     *)
(* list_approvals shows for a held text among them, and so has every reply   *)
(* an administrator released.                                                *)
SoleTurnCaptured ==
    /\ \A c \in Chat : pc[c] # "idle" /\ Alone(c) =>
        /\ [id |-> PromptMsg(c), text |-> prompt[c]] \in messages
        /\ PromptClassified(c) => ClassifiedEvents(PromptMsg(c), c, prompt[c]) \subseteq events
        /\ reply[c] # None => [id |-> ResponseMsg(c), text |-> reply[c]] \in messages
        /\ ReplyClassified(c) => ClassifiedEvents(ResponseMsg(c), c, reply[c]) \subseteq events
        /\ pc[c] = "paused" => Event(Anchor(c), HeldType(c), c, HeldText(c)) \in events
    /\ \A d \in Admin :
        apc[d] = "done" /\ verb[d] \in Releasing /\ Alone(target[d]) /\ OnlyRelease(d) =>
            Event(ResponseMsg(target[d]), "response.delivered", target[d], areply[d]) \in events

(* Nothing is ever rewritten or removed in the audit tables. *)
AuditAppendOnly ==
    [][/\ messages \subseteq messages'
       /\ events \subseteq events'
       /\ adminActions \subseteq adminActions'
       /\ redactions \subseteq redactions']_vars

-----------------------------------------------------------------------------
(* Holding and deciding *)

Decided(a, v) == \E r \in adminActions : r.approval = a /\ r.action = v

(* The released prompts: approve and false-positive send it as it is,        *)
(* redact-resume sends it masked.                                            *)
ReleasedPrompt(c, t) ==
    \E d \in Admin :
        /\ target[d] = c /\ apc[d] \notin {"idle", "not_found"}
        /\ \/ verb[d] \in {"approved", "false_positive"} /\ t = prompt[c]
           \/ verb[d] = "redacted_resumed" /\ t = Redact[prompt[c]]

(* APPR-01: what the scanner or the guard finds high or critical in a prompt *)
(* reaches the assistant only by an administrator's release of that very     *)
(* request, whatever the guard's state, and masked if the release masks it.  *)
PromptHeldUntilReleased ==
    \A c \in Chat, t \in Text :
        /\ <<c, t>> \in sent
        /\ IsPaused(Scan[prompt[c]]) \/ (pc[c] = "paused" /\ Side(c) = "prompt")
        => ReleasedPrompt(c, t)

(* APPR-02: no client receives a reply the scanner or the guard finds high   *)
(* or critical, and a held reply leaves the gateway only by one release: a   *)
(* rejected reply never, a released one once.                                *)
ReplyHeldUntilReleased ==
    /\ \A c \in Chat : pc[c] = "delivered" =>
           ~IsPaused(sev[c]) /\ ~IsPaused(Scan[reply[c]])
    /\ \A d, e \in Admin :
           /\ apc[d] = "done" /\ apc[e] = "done" /\ target[d] = target[e]
           /\ Side(target[d]) = "response"
           /\ verb[d] \in Releasing /\ verb[e] \in Resolved
           => d = e

(* An approval that waits in the queue can be decided: every context in      *)
(* memory belongs to an open row, and an open row has lost its context only  *)
(* to a restart.  A resolved one has no context left to release.             *)
OpenRowsResumable ==
    /\ \A a \in pending : approvals[a] \in Open
    /\ \A a \in Chat : approvals[a] \in Open => a \in pending \cup orphaned

(* The status of an approval is an action on record, an escalation never     *)
(* hides a resolution, and every redact-resume has its redactions row.       *)
DecisionsRecorded ==
    /\ \A a \in Chat : approvals[a] \in Verb => Decided(a, approvals[a])
    /\ \A r \in adminActions :
        /\ approvals[r.approval] \in Verb
        /\ r.action \in Resolved => approvals[r.approval] \in Resolved
        /\ r.action = "redacted_resumed" =>
              \E x \in redactions : x.by = r.by /\ x.event = r.event

(* Every request is answered, once the models it awaits answer or time out.  *)
Answered ==
    /\ \A c \in Chat : pc[c] \in Awaiting ~> pc[c] \notin Awaiting
    /\ \A d \in Admin : apc[d] = "generate" ~>
           apc[d] \in {"done", "outage", "error", "lost"}

-----------------------------------------------------------------------------
(* What the documents say and the code does not keep. *)

(* GATE-01, "Gateway captures every inbound user prompt before it reaches    *)
(* the assistant model": the text of a prompt that went to the model is in a *)
(* prompt.received event of its turn, be it one an identical retry left.     *)
PromptsCaptured ==
    \A c \in Chat : <<c, prompt[c]>> \in sent =>
        \E e \in events : e.msg = PromptMsg(c) /\ e.type = "prompt.received"
                          /\ e.text = prompt[c]

(* "approval not found or already resolved" answers a request about a        *)
(* resolved approval: a resolution is final.                                 *)
ResolutionFinal ==
    [][\A a \in Chat : approvals[a] \in Resolved => approvals'[a] = approvals[a]]_vars
=============================================================================
