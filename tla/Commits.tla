------------------------------- MODULE Commits -------------------------------
(***************************************************************************)
(* The handlers of Gateway write by write.  Every write of POST /chat and  *)
(* of the decisions is an execute and a commit of its own on the one       *)
(* connection (audit/event_sink.py, governance.py), and nothing ties the   *)
(* writes of a handler together: one of them may fail, and the process may *)
(* die between any two.                                                    *)
(*                                                                         *)
(* Rules.  A handler runs alone from one await to the next: its writes are *)
(* queued in todo when it resumes, and next says where it is afterwards.   *)
(* write_event swallows its failures; every other write raises, and the    *)
(* request is a 500.  Nobody calls rollback(), so what a failed commit     *)
(* leaves in the open transaction is committed by the next write of        *)
(* anybody, unless the process dies first.                                 *)
(*                                                                         *)
(* The texts are Gateway's business; there is one conversation here, and   *)
(* classification is a choice.                                             *)
(***************************************************************************)
EXTENDS Naturals, Sequences, FiniteSets

CONSTANTS
    Chat,         \* the POST /chat requests, each with the approval it may open
    Admin,        \* the POST /approvals/{id}/<verb> requests
    None,         \* no handler, no value
    MaxFaults,    \* bound on the failures of SQLite
    MaxCrashes    \* bound on the crashes of the process

Handler == Chat \cup Admin

ASSUME HandlerAssumption == Chat \cap Admin = {} /\ None \notin Handler
ASSUME BoundAssumption == MaxFaults \in Nat /\ MaxCrashes \in Nat

Releasing == {"approved", "redacted_resumed", "false_positive"}
Verb == Releasing \cup {"rejected", "escalated"}
Queued == Verb \cup {"pending"}

Direction == {"prompt", "response"}
MessageId == [turn : Nat, dir : Direction]

ApprovalEvent ==
    [approved         |-> "approval.approved",
     rejected         |-> "approval.rejected",
     redacted_resumed |-> "approval.redacted_resumed",
     false_positive   |-> "approval.false_positive_marked",
     escalated        |-> "approval.escalated"]

EventType ==
    {"prompt.received", "prompt.classification.started",
     "prompt.classification.completed", "approval.requested",
     "llm.request.started", "system.error", "llm.response.generated",
     "response.classification.started", "response.classification.completed",
     "response.blocked", "response.delivered"}
        \cup {ApprovalEvent[v] : v \in Verb}

VARIABLES
    pc,           \* where each handler is
    turn, side,   \* of the chat requests; side is that of the text in hand
    verb, target, \* of the administrator's requests
    who,          \* the handler that is running
    todo,         \* the writes it has still to do before its next await
    next,         \* where it is then
    seen,         \* the tables as the connection sees them
    durable,      \* the tables as committed
    pending,      \* app.state.pending
    orphaned,     \* the approvals whose context a crash dropped
    faults, crashes

localVars == <<turn, side, verb, target>>
runVars   == <<who, todo, next>>
boundVars == <<faults, crashes>>
vars == <<pc, localVars, runVars, seen, durable, pending, orphaned, boundVars>>

-----------------------------------------------------------------------------
(* The tables and the writes *)

PromptMsg(c) == [turn |-> turn[c], dir |-> "prompt"]
ResponseMsg(c) == [turn |-> turn[c], dir |-> "response"]

(* _emit_admin_event's message, and ctx.event_id. *)
Anchor(c) == IF side[c] = "prompt" THEN PromptMsg(c) ELSE ResponseMsg(c)
HeldType(c) == IF side[c] = "prompt" THEN "approval.requested" ELSE "response.blocked"
HeldEvent(c) == [msg |-> Anchor(c), type |-> HeldType(c)]

Message(m) == [table |-> "messages", row |-> m]
Event(m, type) == [table |-> "events", row |-> [msg |-> m, type |-> type]]
Approval(c) == [table |-> "approval_requests", row |-> c]
Action(d) == [table |-> "admin_actions", row |-> d]
Redaction(d) == [table |-> "redactions", row |-> d]
Resolution(d) == [table |-> "resolve", row |-> d]

(* The foreign keys. *)
Accepts(db, w) ==
    /\ w.table = "events" => w.row.msg \in db.messages
    /\ w.table = "approval_requests" => HeldEvent(w.row) \in db.events
    /\ w.table \in {"admin_actions", "redactions"} =>
           HeldEvent(target[w.row]) \in db.events
    /\ w.table = "admin_actions" => db.status[target[w.row]] # "none"

(* The statement of w: INSERT OR IGNORE, INSERT with a fresh key, UPDATE. *)
Apply(db, w) ==
    CASE w.table = "messages" -> [db EXCEPT !.messages = @ \cup {w.row}]
      [] w.table = "events" -> [db EXCEPT !.events = @ \cup {w.row}]
      [] w.table = "approval_requests" -> [db EXCEPT !.status[w.row] = "pending"]
      [] w.table = "admin_actions" -> [db EXCEPT !.actions = @ \cup {w.row}]
      [] w.table = "redactions" -> [db EXCEPT !.redactions = @ \cup {w.row}]
      [] w.table = "resolve" -> [db EXCEPT !.status[target[w.row]] = verb[w.row]]

CompletedResponses == Cardinality({m \in seen.messages : m.dir = "response"})

-----------------------------------------------------------------------------
Init ==
    /\ pc = [h \in Handler |-> "idle"]
    /\ turn = [c \in Chat |-> 0]
    /\ side = [c \in Chat |-> "prompt"]
    /\ verb = [d \in Admin |-> None]
    /\ target = [d \in Admin |-> None]
    /\ who = None
    /\ todo = << >>
    /\ next = "idle"
    /\ seen = [messages |-> {}, events |-> {}, status |-> [c \in Chat |-> "none"],
               actions |-> {}, redactions |-> {}]
    /\ durable = seen
    /\ pending = {}
    /\ orphaned = {}
    /\ faults = 0
    /\ crashes = 0

(* MUTANT: a thread for each handler, and no lock. *)
RunConcurrently(h, from, writes, to) ==
    /\ pc[h] = from
    /\ pc' = [pc EXCEPT ![h] = "running"]
    /\ who' = h
    /\ todo' = writes
    /\ next' = to
    /\ UNCHANGED <<seen, durable, pending, orphaned, boundVars>>

(* Handler h resumes at place from: its writes, and where they lead. *)
Run(h, from, writes, to) ==
    /\ who = None
    /\ pc[h] = from
    /\ pc' = [pc EXCEPT ![h] = "running"]
    /\ who' = h
    /\ todo' = writes
    /\ next' = to
    /\ UNCHANGED <<seen, durable, pending, orphaned, boundVars>>

(* Handler h ends, or fails, without a write. *)
End(h, from, to) ==
    /\ who = None
    /\ pc[h] = from
    /\ pc' = [pc EXCEPT ![h] = to]
    /\ UNCHANGED <<runVars, seen, durable, pending, orphaned, boundVars>>

-----------------------------------------------------------------------------
(* POST /chat *)

Begin(c) ==
    /\ turn' = [turn EXCEPT ![c] = CompletedResponses]
    /\ Run(c, "idle",
           <<Message([turn |-> CompletedResponses, dir |-> "prompt"])>>,
           "classify_prompt")
    /\ UNCHANGED <<side, verb, target>>

PromptEvents(c) ==
    <<Event(PromptMsg(c), "prompt.received"),
      Event(PromptMsg(c), "prompt.classification.started"),
      Event(PromptMsg(c), "prompt.classification.completed")>>

(* The pause: its event, its row in the queue. *)
HoldWrites(c) == <<Event(Anchor(c), HeldType(c)), Approval(c)>>

PausePrompt(c) ==
    /\ Run(c, "classify_prompt", PromptEvents(c) \o HoldWrites(c), "held_prompt")
    /\ UNCHANGED localVars

AllowPrompt(c) ==
    /\ Run(c, "classify_prompt",
           PromptEvents(c) \o <<Event(PromptMsg(c), "llm.request.started")>>,
           "generate")
    /\ UNCHANGED localVars

Generated(c) ==
    /\ side' = [side EXCEPT ![c] = "response"]
    /\ Run(c, "generate", <<Message(ResponseMsg(c))>>, "classify_response")
    /\ UNCHANGED <<turn, verb, target>>

(* OllamaUnavailableError. *)
GenerateUnavailable(c) ==
    /\ Run(c, "generate", <<Event(PromptMsg(c), "system.error")>>, "unavailable")
    /\ UNCHANGED localVars

(* Any other failure of a model. *)
ModelError(c) ==
    /\ \E from \in {"classify_prompt", "generate", "classify_response"} :
           End(c, from, "error")
    /\ UNCHANGED localVars

ResponseEvents(c) ==
    <<Event(ResponseMsg(c), "llm.response.generated"),
      Event(ResponseMsg(c), "response.classification.started"),
      Event(ResponseMsg(c), "response.classification.completed")>>

PauseResponse(c) ==
    /\ Run(c, "classify_response", ResponseEvents(c) \o HoldWrites(c), "held_response")
    /\ UNCHANGED localVars

Deliver(c) ==
    /\ Run(c, "classify_response",
           ResponseEvents(c) \o <<Event(ResponseMsg(c), "response.delivered")>>,
           "delivered")
    /\ UNCHANGED localVars

-----------------------------------------------------------------------------
(* POST /approvals/{id}/<verb> *)

(* MUTANT: the status first, then the action. *)
StatusFirst(d, v, a) ==
    (IF v = "redacted_resumed" THEN <<Redaction(d)>> ELSE << >>)
        \o <<Event(Anchor(a), ApprovalEvent[v]), Resolution(d), Action(d)>>

(* MUTANT: the action before its event. *)
ActionFirst(d, v, a) ==
    (IF v = "redacted_resumed" THEN <<Redaction(d)>> ELSE << >>)
        \o <<Action(d), Event(Anchor(a), ApprovalEvent[v]), Resolution(d)>>

(* The end of every decision. *)
DecisionWrites(d, v, a) ==
    (IF v = "redacted_resumed" THEN <<Redaction(d)>> ELSE << >>)
        \o <<Event(Anchor(a), ApprovalEvent[v]), Action(d), Resolution(d)>>

Receive(d, v, a) ==
    /\ verb' = [verb EXCEPT ![d] = v]
    /\ target' = [target EXCEPT ![d] = a]
    /\ UNCHANGED <<turn, side>>

(* _ctx_or_404: no context, or none any more, whatever the id and the verb. *)
NotFound(d) ==
    /\ End(d, "idle", "not_found")
    /\ UNCHANGED localVars

Reject(d) ==
    \E a \in pending :
        /\ Run(d, "idle",
               (IF side[a] = "response"
                THEN <<Event(ResponseMsg(a), "response.blocked")>> ELSE << >>)
                   \o DecisionWrites(d, "rejected", a),
               "done")
        /\ Receive(d, "rejected", a)

Escalate(d) ==
    \E a \in pending :
        /\ Run(d, "idle", DecisionWrites(d, "escalated", a), "done")
        /\ Receive(d, "escalated", a)

(* approve, redact-resume and false-positive of a withheld response. *)
Release(d) ==
    \E v \in Releasing, a \in pending :
        /\ side[a] = "response"
        /\ Run(d, "idle",
               <<Event(ResponseMsg(a), "response.delivered")>> \o DecisionWrites(d, v, a),
               "done")
        /\ Receive(d, v, a)

(* The same for a held prompt, up to the await of the model ... *)
Resume(d) ==
    \E v \in Releasing, a \in pending :
        /\ side[a] = "prompt"
        /\ End(d, "idle", "generate")
        /\ Receive(d, v, a)

(* ... and after it. *)
ResumeDelivered(d) ==
    LET a == target[d] IN
    /\ Run(d, "generate",
           <<Message(ResponseMsg(a)),
             Event(ResponseMsg(a), "llm.response.generated"),
             Event(ResponseMsg(a), "response.delivered")>>
                \o DecisionWrites(d, verb[d], a),
           "done")
    /\ UNCHANGED localVars

(* Nothing catches a failure of the model here. *)
ResumeFailed(d) ==
    /\ End(d, "generate", "error")
    /\ UNCHANGED localVars

-----------------------------------------------------------------------------
(* The running handler *)

(* MUTANT: every writer swallows its failures. *)
FailQuietly ==
    /\ todo' = Tail(todo)
    /\ UNCHANGED <<pc, who, next, localVars, durable, pending, orphaned, crashes>>

(* The failed write is swallowed by write_event and raised by the others. *)
Fail ==
    /\ IF Head(todo).table = "events"
       THEN /\ todo' = Tail(todo)
            /\ UNCHANGED <<pc, who, next>>
       ELSE /\ pc' = [pc EXCEPT ![who] = "error"]
            /\ who' = None
            /\ todo' = << >>
            /\ next' = "idle"
    /\ UNCHANGED <<localVars, durable, pending, orphaned, crashes>>

(* MUTANT: resolve_approval_request without its commit. *)
WrittenUncommitted ==
    /\ todo # << >>
    /\ Accepts(seen, Head(todo))
    /\ seen' = Apply(seen, Head(todo))
    /\ durable' = IF Head(todo).table = "resolve" THEN durable ELSE seen'
    /\ todo' = Tail(todo)
    /\ UNCHANGED <<pc, localVars, who, next, pending, orphaned, boundVars>>

(* A commit makes durable whatever is in the open transaction. *)
Written ==
    /\ todo # << >>
    /\ Accepts(seen, Head(todo))
    /\ seen' = Apply(seen, Head(todo))
    /\ durable' = seen'
    /\ todo' = Tail(todo)
    /\ UNCHANGED <<pc, localVars, who, next, pending, orphaned, boundVars>>

(* A foreign key fails. *)
Refused ==
    /\ todo # << >>
    /\ ~Accepts(seen, Head(todo))
    /\ Fail
    /\ UNCHANGED <<seen, faults>>

(* SQLite fails: at the statement, at the commit, which leaves the           *)
(* transaction open, or so that it rolls the transaction back.               *)
Faulted ==
    /\ todo # << >>
    /\ faults < MaxFaults
    /\ faults' = faults + 1
    /\ seen' \in {seen, durable} \cup
           (IF Accepts(seen, Head(todo)) THEN {Apply(seen, Head(todo))} ELSE {})
    /\ Fail

(* MUTANT: the context goes with every decision, as its row is resolved. *)
ForgetsEscalated(h) == IF h \in Admin THEN {target[h]} ELSE {}

(* MUTANT: false-positive forgets to pop. *)
KeepsFalsePositive(h) ==
    IF h \in Admin /\ verb[h] \notin {"escalated", "false_positive"} THEN {target[h]} ELSE {}

(* The context a handler that answers 200 pops from app.state.pending. *)
Popped(h) == IF h \in Admin /\ verb[h] # "escalated" THEN {target[h]} ELSE {}

Opened(h) == IF next \in {"held_prompt", "held_response"} THEN {h} ELSE {}

(* The handler gets to its next await, or answers. *)
Finish ==
    /\ who # None
    /\ todo = << >>
    /\ pc' = [pc EXCEPT ![who] = next]
    /\ pending' = (pending \cup Opened(who)) \ Popped(who)
    /\ who' = None
    /\ next' = "idle"
    /\ UNCHANGED <<localVars, todo, seen, durable, orphaned, boundVars>>

Interrupted == {"running", "classify_prompt", "generate", "classify_response"}

(* The process dies and is started again. *)
Crash ==
    /\ crashes < MaxCrashes
    /\ crashes' = crashes + 1
    /\ pc' = [h \in Handler |-> IF pc[h] \in Interrupted THEN "lost" ELSE pc[h]]
    /\ who' = None
    /\ todo' = << >>
    /\ next' = "idle"
    /\ seen' = durable
    /\ orphaned' = orphaned \cup pending
    /\ pending' = {}
    /\ UNCHANGED <<localVars, durable, faults>>

(* Every request has been answered. *)
Quiescent ==
    /\ \A h \in Handler : pc[h] \notin Interrupted \cup {"idle"}
    /\ UNCHANGED vars

ChatStep(c) ==
    \/ Begin(c) \/ PausePrompt(c) \/ AllowPrompt(c)
    \/ Generated(c) \/ GenerateUnavailable(c) \/ ModelError(c)
    \/ PauseResponse(c) \/ Deliver(c)

AdminStep(d) ==
    \/ NotFound(d) \/ Reject(d) \/ Escalate(d) \/ Release(d)
    \/ Resume(d) \/ ResumeDelivered(d) \/ ResumeFailed(d)

Next ==
    \/ \E c \in Chat : ChatStep(c)
    \/ \E d \in Admin : AdminStep(d)
    \/ Written \/ Refused \/ Faulted \/ Finish
    \/ Crash
    \/ Quiescent

Spec == Init /\ [][Next]_vars

-----------------------------------------------------------------------------
Held == {"held_prompt", "held_response"}
Place == Interrupted \cup Held \cup
    {"idle", "delivered", "unavailable", "done", "not_found", "error", "lost"}
Table == {"messages", "events", "approval_requests", "admin_actions",
          "redactions", "resolve"}
EventId == [msg : MessageId, type : EventType]

Database ==
    [messages : SUBSET MessageId, events : SUBSET EventId,
     status : [Chat -> Queued \cup {"none"}],
     actions : SUBSET Admin, redactions : SUBSET Admin]

Write ==
    [table : {"messages"}, row : MessageId] \cup [table : {"events"}, row : EventId]
        \cup [table : {"approval_requests"}, row : Chat]
        \cup [table : {"admin_actions", "redactions", "resolve"}, row : Admin]

(* A handler's approval row, action, redaction and status are its own.       *)
TypeOK ==
    /\ pc \in [Handler -> Place]
    /\ turn \in [Chat -> Nat]
    /\ side \in [Chat -> Direction]
    /\ verb \in [Admin -> Verb \cup {None}]
    /\ target \in [Admin -> Chat \cup {None}]
    /\ who \in Handler \cup {None}
    /\ todo \in Seq(Write)
    /\ next \in Place
    /\ seen \in Database
    /\ durable \in Database
    /\ pending \subseteq Chat
    /\ orphaned \subseteq Chat
    /\ faults \in 0 .. MaxFaults
    /\ crashes \in 0 .. MaxCrashes
    /\ \A h \in Handler : pc[h] = "running" <=> who = h
    /\ \A d \in Admin : pc[d] \notin {"idle", "not_found"} =>
           verb[d] \in Verb /\ target[d] \in Chat
    /\ \A i \in DOMAIN todo :
           todo[i].table \notin {"messages", "events"} => todo[i].row = who

-----------------------------------------------------------------------------
Open == {"pending", "escalated"}
Resolved == Queued \ Open

(* Who got a 202 is in the queue for good, with the event the queue shows,   *)
(* whatever write failed and whenever the process died; and unless it died   *)
(* he can be decided on or has been.                                         *)
PausedIsQueued ==
    \A c \in Chat : pc[c] \in Held =>
        /\ durable.status[c] \in Queued
        /\ HeldEvent(c) \in durable.events
        /\ \/ c \in pending \cup orphaned
           \/ \E d \in Admin : pc[d] = "done" /\ target[d] = c /\ verb[d] \in Resolved

(* A decision that was answered with 200 is committed with its action, and   *)
(* one that resolves is never undone: the row is not open again.             *)
DecisionDurable ==
    \A d \in Admin : pc[d] = "done" =>
        /\ d \in durable.actions
        /\ durable.status[target[d]] \in Verb
        /\ verb[d] \in Resolved => durable.status[target[d]] \in Resolved

(* No crash, rollback or late commit leaves a decided status without the     *)
(* action it comes from, or the action of a redact-resume without its        *)
(* redactions row.                                                           *)
TrailBeforeStatus ==
    \A db \in {seen, durable} :
        /\ \A a \in Chat : db.status[a] \in Verb =>
               \E d \in db.actions : target[d] = a /\ verb[d] = db.status[a]
        /\ \A d \in db.actions : verb[d] = "redacted_resumed" => d \in db.redactions

(* The queue and app.state.pending part only in three ways: a decision that  *)
(* failed after its status was written keeps its context, a crash drops the  *)
(* contexts, and the row of a pause that failed is committed without one.    *)
ContextsMatchRows ==
    /\ \A a \in pending : seen.status[a] \in Resolved =>
           \E d \in Admin : /\ target[d] = a /\ verb[d] = seen.status[a]
                            /\ pc[d] \in {"running", "error"}
    /\ \A a \in Chat \ pending : durable.status[a] \in Open =>
           a \in orphaned \/ pc[a] \in {"running", "error", "lost"}

(* Crashes alone lose no event: without a fault of SQLite every decision on  *)
(* record has its event, and every answer of POST /chat has the event that   *)
(* says so.                                                                  *)
AuditedWithoutFaults ==
    faults = 0 =>
        /\ \A d \in durable.actions :
               [msg |-> Anchor(target[d]), type |-> ApprovalEvent[verb[d]]] \in durable.events
        /\ \A c \in Chat :
               /\ pc[c] = "unavailable" =>
                      [msg |-> PromptMsg(c), type |-> "system.error"] \in durable.events
               /\ pc[c] = "delivered" =>
                      [msg |-> ResponseMsg(c), type |-> "response.delivered"] \in durable.events

-----------------------------------------------------------------------------
(* What became of the withheld replies.  A held prompt has no reply to       *)
(* withhold, and an answer is the handler's 200.                             *)
Answered(c, v) == \E d \in Admin : pc[d] = "done" /\ target[d] = c /\ verb[d] \in v

Fate(c) ==
    IF pc[c] # "held_response" THEN "none"
    ELSE IF Answered(c, Releasing) THEN "released"
    ELSE IF Answered(c, {"rejected"}) THEN "rejected"
    ELSE IF c \in pending THEN "held"
    ELSE "dropped"

Replies == INSTANCE HeldReplies WITH
    fate <- [c \in Chat |-> Fate(c)], queue <- durable.status

(* The handlers, with every fault and crash, keep the promise of HeldReplies. *)
ImplementsHeldReplies == Replies!Spec
=============================================================================
