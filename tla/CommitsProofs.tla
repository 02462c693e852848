---------------------------- MODULE CommitsProofs ----------------------------
(***************************************************************************)
(* Proofs about Commits, for any number of requests, faults and crashes.   *)
(***************************************************************************)
EXTENDS Commits, FiniteSetTheorems, TLAPS

USE DEF Handler

-----------------------------------------------------------------------------
(* What the handlers queue *)

(* Rows of messages and of events only. *)
Quiet(s) == s \in Seq(Write) /\ \A i \in DOMAIN s : s[i].table \in {"messages", "events"}

(* Any other row is handler h's own. *)
Own(h, s) ==
    /\ s \in Seq(Write)
    /\ \A i \in DOMAIN s : s[i].table \notin {"messages", "events"} => s[i].row = h

(* The writes of a decision: the status last, behind the action, and that    *)
(* behind the redactions row if there must be one.                           *)
Ordered(d, s) ==
    /\ Own(d, s)
    /\ s # << >> /\ s[Len(s)] = Resolution(d)
    /\ \A i \in DOMAIN s : s[i].table # "approval_requests"
    /\ \A i \in DOMAIN s : s[i].table = "resolve" =>
           \E j \in 1 .. i - 1 : s[j] = Action(d)

(* The redactions row before the action. *)
Redacted(d, s) ==
    \A i \in DOMAIN s : s[i].table = "admin_actions" =>
        \E j \in 1 .. i - 1 : s[j] = Redaction(d)

LEMMA WriteTypes ==
    /\ \A m \in MessageId : Message(m) \in Write /\ Message(m).table = "messages"
    /\ \A m \in MessageId, type \in EventType :
           Event(m, type) \in Write /\ Event(m, type).table = "events"
    /\ \A c \in Chat : /\ Approval(c) \in Write /\ Approval(c).row = c
                       /\ Approval(c).table = "approval_requests"
    /\ \A d \in Admin :
        /\ Action(d) \in Write /\ Action(d).row = d /\ Action(d).table = "admin_actions"
        /\ Redaction(d) \in Write /\ Redaction(d).row = d
        /\ Redaction(d).table = "redactions"
        /\ Resolution(d) \in Write /\ Resolution(d).row = d
        /\ Resolution(d).table = "resolve"
<1>1. \A m \in MessageId, type \in EventType : [msg |-> m, type |-> type] \in EventId
  BY DEF EventId
<1> QED
  BY <1>1 DEF Write, Message, Event, Approval, Action, Redaction, Resolution

LEMMA QuietConcat ==
    ASSUME NEW s, NEW t, Quiet(s), Quiet(t)
    PROVE  Quiet(s \o t)
<1>1. s \o t \in Seq(Write)
  BY DEF Quiet
<1>2. ASSUME NEW i \in DOMAIN (s \o t)
      PROVE  (s \o t)[i].table \in {"messages", "events"}
  <2>1. CASE i <= Len(s)
    BY <2>1 DEF Quiet
  <2>2. CASE i > Len(s)
    BY <2>2 DEF Quiet
  <2> QED
    BY <2>1, <2>2 DEF Quiet
<1> QED
  BY <1>1, <1>2 DEF Quiet

LEMMA OwnConcat ==
    ASSUME NEW h, NEW s, NEW t, Own(h, s), Own(h, t)
    PROVE  Own(h, s \o t)
<1>1. s \o t \in Seq(Write)
  BY DEF Own
<1>2. ASSUME NEW i \in DOMAIN (s \o t), (s \o t)[i].table \notin {"messages", "events"}
      PROVE  (s \o t)[i].row = h
  <2>1. CASE i <= Len(s)
    BY <1>2, <2>1 DEF Own
  <2>2. CASE i > Len(s)
    BY <1>2, <2>2 DEF Own
  <2> QED
    BY <2>1, <2>2 DEF Own
<1> QED
  BY <1>1, <1>2 DEF Own

LEMMA QuietOwn == ASSUME NEW h, NEW s, Quiet(s) PROVE Own(h, s)
  BY DEF Quiet, Own

LEMMA LastConcat ==
    ASSUME NEW s \in Seq(Write), NEW t \in Seq(Write), t # << >>
    PROVE  /\ s \o t # << >>
           /\ (s \o t)[Len(s \o t)] = t[Len(t)]
<1>1. Len(t) > 0 /\ Len(s) \in Nat /\ Len(t) \in Nat /\ Len(s \o t) = Len(s) + Len(t)
  OBVIOUS
<1>2. (s \o t)[Len(s) + Len(t)] = t[Len(t)]
  BY <1>1
<1> QED
  BY <1>1, <1>2

(* Quiet writes in front of a decision's change nothing about its order. *)
LEMMA OrderedConcat ==
    ASSUME NEW d, NEW s, NEW t, Quiet(s), Ordered(d, t)
    PROVE  /\ Ordered(d, s \o t)
           /\ Redacted(d, t) => Redacted(d, s \o t)
<1>1. s \in Seq(Write) /\ t \in Seq(Write) /\ t # << >>
  BY DEF Quiet, Ordered, Own
<1>2. Own(d, s \o t)
  BY QuietOwn, OwnConcat DEF Ordered
<1>3. s \o t # << >> /\ (s \o t)[Len(s \o t)] = Resolution(d)
  BY <1>1, LastConcat DEF Ordered
<1>4. \A i \in DOMAIN (s \o t) :
          \/ i \in DOMAIN s /\ (s \o t)[i] = s[i]
          \/ i - Len(s) \in DOMAIN t /\ (s \o t)[i] = t[i - Len(s)]
  BY <1>1
<1>5. \A j \in DOMAIN t : (s \o t)[j + Len(s)] = t[j]
  BY <1>1
<1>6. ASSUME NEW i \in DOMAIN (s \o t)
      PROVE  (s \o t)[i].table # "approval_requests"
  BY <1>4 DEF Quiet, Ordered
<1>7. ASSUME NEW i \in DOMAIN (s \o t), (s \o t)[i].table = "resolve"
      PROVE  \E j \in 1 .. i - 1 : (s \o t)[j] = Action(d)
  <2>1. i - Len(s) \in DOMAIN t /\ (s \o t)[i] = t[i - Len(s)]
    BY <1>4, <1>7 DEF Quiet
  <2>2. PICK j \in 1 .. i - Len(s) - 1 : t[j] = Action(d)
    BY <1>7, <2>1 DEF Ordered
  <2>3. j \in DOMAIN t /\ j + Len(s) \in 1 .. i - 1
    BY <1>1, <2>1, <2>2
  <2> QED
    BY <1>5, <2>2, <2>3
<1>8. ASSUME Redacted(d, t), NEW i \in DOMAIN (s \o t),
             (s \o t)[i].table = "admin_actions"
      PROVE  \E j \in 1 .. i - 1 : (s \o t)[j] = Redaction(d)
  <2>1. i - Len(s) \in DOMAIN t /\ (s \o t)[i] = t[i - Len(s)]
    BY <1>4, <1>8 DEF Quiet
  <2>2. PICK j \in 1 .. i - Len(s) - 1 : t[j] = Redaction(d)
    BY <1>8, <2>1 DEF Redacted
  <2>3. j \in DOMAIN t /\ j + Len(s) \in 1 .. i - 1
    BY <1>1, <2>1, <2>2
  <2> QED
    BY <1>5, <2>2, <2>3
<1> QED
  BY <1>2, <1>3, <1>6, <1>7, <1>8 DEF Ordered, Redacted

LEMMA Ids ==
    ASSUME TypeOK, NEW c \in Chat
    PROVE  /\ PromptMsg(c) \in MessageId /\ ResponseMsg(c) \in MessageId
           /\ Anchor(c) \in MessageId /\ HeldType(c) \in EventType
<1>1. turn[c] \in Nat
  BY DEF TypeOK
<1>2. PromptMsg(c) \in MessageId /\ ResponseMsg(c) \in MessageId
  BY <1>1 DEF PromptMsg, ResponseMsg, MessageId, Direction
<1>3. HeldType(c) \in EventType
  BY DEF HeldType, EventType
<1> QED
  BY <1>2, <1>3 DEF Anchor

LEMMA ApprovalEventTypes == \A v \in Verb : ApprovalEvent[v] \in EventType
  BY DEF EventType

LEMMA QuietOne ==
    /\ \A m \in MessageId : Quiet(<<Message(m)>>)
    /\ \A m \in MessageId, type \in EventType : Quiet(<<Event(m, type)>>)
  BY WriteTypes DEF Quiet

LEMMA ChatWrites ==
    ASSUME TypeOK, NEW c \in Chat
    PROVE  /\ Quiet(PromptEvents(c)) /\ Quiet(ResponseEvents(c))
           /\ Own(c, HoldWrites(c)) /\ HoldWrites(c) # << >>
           /\ HoldWrites(c)[Len(HoldWrites(c))] = Approval(c)
           /\ \A i \in DOMAIN HoldWrites(c) : HoldWrites(c)[i].table # "resolve"
<1> USE Ids, WriteTypes
<1>0. \A e1, e2, e3 \in Write :
          e1.table = "events" /\ e2.table = "events" /\ e3.table = "events"
              => Quiet(<<e1, e2, e3>>)
  BY DEF Quiet
<1>1. Quiet(PromptEvents(c)) /\ Quiet(ResponseEvents(c))
  <2>1. PromptMsg(c) \in MessageId /\ ResponseMsg(c) \in MessageId
    BY Ids
  <2>2. \A m \in MessageId, t1, t2, t3 \in EventType :
            Quiet(<<Event(m, t1), Event(m, t2), Event(m, t3)>>)
    BY <1>0, WriteTypes
  <2> QED
    BY <2>1, <2>2 DEF PromptEvents, ResponseEvents, EventType
<1>2. /\ Own(c, HoldWrites(c)) /\ HoldWrites(c) # << >>
      /\ HoldWrites(c)[Len(HoldWrites(c))] = Approval(c)
      /\ \A i \in DOMAIN HoldWrites(c) : HoldWrites(c)[i].table # "resolve"
  <2>1. PICK e \in Write : e = Event(Anchor(c), HeldType(c)) /\ e.table = "events"
    OBVIOUS
  <2>2. PICK r \in Write : /\ r = Approval(c) /\ r.table = "approval_requests"
                           /\ r.row = c
    OBVIOUS
  <2>3. HoldWrites(c) = <<e, r>>
    BY <2>1, <2>2 DEF HoldWrites
  <2> QED
    BY <2>1, <2>2, <2>3 DEF Own
<1> QED
  BY <1>1, <1>2

LEMMA Decision ==
    ASSUME TypeOK, NEW d \in Admin, NEW v \in Verb, NEW a \in Chat
    PROVE  /\ Ordered(d, DecisionWrites(d, v, a))
           /\ v = "redacted_resumed" => Redacted(d, DecisionWrites(d, v, a))
<1>1. ApprovalEvent[v] \in EventType
  BY ApprovalEventTypes
<1>2. PICK e \in Write : e = Event(Anchor(a), ApprovalEvent[v]) /\ e.table = "events"
  BY <1>1, Ids, WriteTypes
<1>3. PICK p \in Write : p = Action(d) /\ p.table = "admin_actions" /\ p.row = d
  BY WriteTypes
<1>4. PICK q \in Write : q = Redaction(d) /\ q.table = "redactions" /\ q.row = d
  BY WriteTypes
<1>5. PICK r \in Write : r = Resolution(d) /\ r.table = "resolve" /\ r.row = d
  BY WriteTypes
<1>6. CASE v = "redacted_resumed"
  <2> DEFINE s == <<q>> \o <<e, p, r>>
  <2>1. DecisionWrites(d, v, a) = s
    BY <1>2, <1>3, <1>4, <1>5, <1>6 DEF DecisionWrites
  <2>2. <<q>> \in Seq(Write) /\ <<e, p, r>> \in Seq(Write)
    OBVIOUS
  <2>3. s \in Seq(Write) /\ Len(s) = 4 /\ s # << >>
        /\ s[1] = q /\ s[2] = e /\ s[3] = p /\ s[4] = r /\ DOMAIN s = 1 .. 4
    BY <2>2
  <2> HIDE DEF s
  <2>4. Own(d, s)
    BY <1>2, <1>3, <1>4, <1>5, <2>3 DEF Own
  <2>5. Ordered(d, s)
    BY <1>2, <1>3, <1>4, <1>5, <2>3, <2>4 DEF Ordered
  <2>6. Redacted(d, s)
    BY <1>2, <1>3, <1>4, <1>5, <2>3 DEF Redacted
  <2> QED
    BY <2>1, <2>5, <2>6
<1>7. CASE v # "redacted_resumed"
  <2>1. DecisionWrites(d, v, a) = << >> \o <<e, p, r>>
    BY <1>2, <1>3, <1>5, <1>7 DEF DecisionWrites
  <2>2. << >> \o <<e, p, r>> = <<e, p, r>>
    OBVIOUS
  <2> DEFINE s == <<e, p, r>>
  <2>3. s \in Seq(Write) /\ Len(s) = 3 /\ s # << >>
        /\ s[1] = e /\ s[2] = p /\ s[3] = r /\ DOMAIN s = 1 .. 3
    OBVIOUS
  <2> HIDE DEF s
  <2>4. Own(d, s)
    BY <1>2, <1>3, <1>5, <2>3 DEF Own
  <2>5. Ordered(d, s)
    BY <1>2, <1>3, <1>5, <2>3, <2>4 DEF Ordered
  <2> QED
    BY <1>7, <2>1, <2>2, <2>5 DEF s
<1> QED
  BY <1>6, <1>7

-----------------------------------------------------------------------------
(* Types, and where the handlers can be *)

(* Where a handler is, or will be at the end of its writes. *)
Where(h) == IF who = h THEN next ELSE pc[h]

ChatPlace == {"idle", "classify_prompt", "generate", "classify_response",
              "held_prompt", "held_response", "delivered", "unavailable",
              "error", "lost"}
AdminPlace == {"idle", "generate", "done", "not_found", "error", "lost"}

(* The text in hand is the prompt up to the assistant's answer; decisions    *)
(* are about held requests, and one that runs without an await has found the *)
(* context that is still there.                                              *)
Places ==
    /\ who = None => todo = << >>
    /\ IsFiniteSet(seen.messages) /\ IsFiniteSet(durable.messages)
    /\ \A c \in Chat :
        /\ Where(c) \in ChatPlace
        /\ Where(c) \in {"idle", "classify_prompt", "generate", "held_prompt"}
               => side[c] = "prompt"
        /\ Where(c) \in {"classify_response", "held_response"} => side[c] = "response"
    /\ \A d \in Admin :
        /\ Where(d) \in AdminPlace
        /\ who = d => next = "done"
        /\ pc[d] \notin {"idle", "not_found"} => pc[target[d]] \in Held
        /\ pc[d] = "generate" =>
               pc[target[d]] = "held_prompt" /\ verb[d] \in Releasing
        /\ pc[d] = "running" /\ (verb[d] \notin Releasing \/ pc[target[d]] = "held_response")
               => target[d] \in pending
    /\ \A c \in pending : pc[c] \in Held

LEMMA ApplyTypes ==
    ASSUME TypeOK, NEW db \in Database, IsFiniteSet(db.messages), NEW w \in Write,
           w.table \in {"resolve"} => target[w.row] \in Chat /\ verb[w.row] \in Verb
    PROVE  Apply(db, w) \in Database /\ IsFiniteSet(Apply(db, w).messages)
<1>1. CASE w.table = "messages"
  <2>1. w.row \in MessageId
    BY <1>1 DEF Write
  <2>2. Apply(db, w) = [db EXCEPT !.messages = @ \cup {w.row}]
    BY <1>1 DEF Apply
  <2>3. IsFiniteSet(db.messages \cup {w.row})
    BY FS_AddElement
  <2> QED
    BY <2>1, <2>2, <2>3 DEF Database
<1>2. CASE w.table = "events"
  <2>1. w.row \in EventId
    BY <1>2 DEF Write
  <2>2. Apply(db, w) = [db EXCEPT !.events = @ \cup {w.row}]
    BY <1>2 DEF Apply
  <2> QED
    BY <2>1, <2>2 DEF Database
<1>3. CASE w.table = "approval_requests"
  <2>1. w.row \in Chat
    BY <1>3 DEF Write
  <2>2. Apply(db, w) = [db EXCEPT !.status[w.row] = "pending"]
    BY <1>3 DEF Apply
  <2> QED
    BY <2>1, <2>2 DEF Database, Queued
<1>4. CASE w.table = "admin_actions"
  <2>1. w.row \in Admin
    BY <1>4 DEF Write
  <2>2. Apply(db, w) = [db EXCEPT !.actions = @ \cup {w.row}]
    BY <1>4 DEF Apply
  <2> QED
    BY <2>1, <2>2 DEF Database
<1>5. CASE w.table = "redactions"
  <2>1. w.row \in Admin
    BY <1>5 DEF Write
  <2>2. Apply(db, w) = [db EXCEPT !.redactions = @ \cup {w.row}]
    BY <1>5 DEF Apply
  <2> QED
    BY <2>1, <2>2 DEF Database
<1>6. CASE w.table = "resolve"
  <2>1. Apply(db, w) = [db EXCEPT !.status[target[w.row]] = verb[w.row]]
    BY <1>6 DEF Apply
  <2> QED
    BY <1>6, <2>1 DEF Database, Queued
<1> QED
  BY <1>1, <1>2, <1>3, <1>4, <1>5, <1>6 DEF Write

LEMMA TailFacts ==
    ASSUME NEW h, NEW s, Own(h, s), s # << >>
    PROVE  /\ Head(s) \in Write /\ Head(s) = s[1]
           /\ Own(h, Tail(s))
           /\ Tail(s) # << >> => Tail(s)[Len(Tail(s))] = s[Len(s)]
           /\ Tail(s) = << >> => Len(s) = 1
           /\ \A i \in DOMAIN Tail(s) : i + 1 \in DOMAIN s /\ Tail(s)[i] = s[i + 1]
           /\ \A i \in DOMAIN s : i # 1 => i - 1 \in DOMAIN Tail(s) /\ Tail(s)[i - 1] = s[i]
<1>1. s \in Seq(Write) /\ Len(s) \in Nat /\ Len(s) >= 1
  BY DEF Own
<1>2. Head(s) = s[1] /\ s[1] \in Write
  BY <1>1
<1>3. Tail(s) \in Seq(Write) /\ Len(Tail(s)) = Len(s) - 1
  BY <1>1
<1>4. \A i \in DOMAIN Tail(s) : i + 1 \in DOMAIN s /\ Tail(s)[i] = s[i + 1]
  BY <1>1, <1>3
<1>5. \A i \in DOMAIN s : i # 1 => i - 1 \in DOMAIN Tail(s) /\ Tail(s)[i - 1] = s[i]
  BY <1>1, <1>3
<1>6. Own(h, Tail(s))
  BY <1>3, <1>4 DEF Own
<1>7. Tail(s) # << >> => Tail(s)[Len(Tail(s))] = s[Len(s)]
  <2>1. Tail(s) # << >> => Len(Tail(s)) \in DOMAIN Tail(s)
    BY <1>3
  <2> QED
    BY <1>1, <1>3, <1>4, <2>1
<1> QED
  BY <1>1, <1>2, <1>3, <1>4, <1>5, <1>6, <1>7

(* The handler that runs owns what is to do; its first write is well typed.  *)
LEMMA Running ==
    ASSUME TypeOK, Places, todo # << >>
    PROVE  /\ who \in Handler /\ pc[who] = "running" /\ Own(who, todo)
           /\ Head(todo) \in Write
           /\ Head(todo).table = "resolve" => target[Head(todo).row] \in Chat
                                             /\ verb[Head(todo).row] \in Verb
           /\ Head(todo).table \notin {"messages", "events"} => Head(todo).row = who
<1>1. Own(who, todo)
  BY DEF TypeOK, Own
<1>2. Head(todo) \in Write /\ Head(todo) = todo[1] /\ 1 \in DOMAIN todo
  BY <1>1, TailFacts DEF Own
<1>3. who \in Handler /\ pc[who] = "running"
  BY DEF TypeOK, Places
<1>4. Head(todo).table \notin {"messages", "events"} => Head(todo).row = who
  BY <1>1, <1>2 DEF Own
<1>5. ASSUME Head(todo).table = "resolve"
      PROVE  target[Head(todo).row] \in Chat /\ verb[Head(todo).row] \in Verb
  <2>1. Head(todo).row \in Admin
    BY <1>2, <1>5 DEF Write
  <2> QED
    BY <1>3, <1>4, <1>5, <2>1 DEF TypeOK
<1> QED
  BY <1>1, <1>2, <1>3, <1>4, <1>5

-----------------------------------------------------------------------------
(* Every action is one of six kinds of step.                                 *)

LEMMA RunTypes ==
    ASSUME TypeOK, NEW h \in Handler, NEW from, NEW s, NEW to \in Place,
           Run(h, from, s, to), Own(h, s),
           turn' \in [Chat -> Nat], side' \in [Chat -> Direction],
           verb' \in [Admin -> Verb \cup {None}], target' \in [Admin -> Chat \cup {None}],
           \A d \in Admin : pc'[d] \notin {"idle", "not_found"} =>
               verb'[d] \in Verb /\ target'[d] \in Chat
    PROVE  TypeOK'
<1>1. h # None
  BY HandlerAssumption
<1>2. pc' = [pc EXCEPT ![h] = "running"] /\ who' = h /\ todo' = s /\ next' = to /\ who = None
      /\ UNCHANGED <<seen, durable, pending, orphaned, faults, crashes>>
  BY DEF Run, boundVars
<1>3. pc' \in [Handler -> Place] /\ \A k \in Handler : pc'[k] = "running" <=> who' = k
  BY <1>1, <1>2, HandlerAssumption DEF TypeOK, Place, Interrupted
<1>4. todo' \in Seq(Write)
      /\ \A i \in DOMAIN todo' :
             todo'[i].table \notin {"messages", "events"} => todo'[i].row = who'
  BY <1>2 DEF Own
<1> QED
  BY <1>2, <1>3, <1>4 DEF TypeOK

LEMMA EndTypes ==
    ASSUME TypeOK, NEW h \in Handler, NEW from, NEW to \in Place \ {"running"},
           End(h, from, to),
           turn' \in [Chat -> Nat], side' \in [Chat -> Direction],
           verb' \in [Admin -> Verb \cup {None}], target' \in [Admin -> Chat \cup {None}],
           \A d \in Admin : pc'[d] \notin {"idle", "not_found"} =>
               verb'[d] \in Verb /\ target'[d] \in Chat
    PROVE  TypeOK'
<1>1. pc' = [pc EXCEPT ![h] = to] /\ who = None
      /\ UNCHANGED <<who, todo, next, seen, durable, pending, orphaned, faults, crashes>>
  BY DEF End, boundVars, runVars
<1>2. pc' \in [Handler -> Place] /\ \A k \in Handler : pc'[k] = "running" <=> who' = k
  BY <1>1, HandlerAssumption DEF TypeOK
<1> QED
  BY <1>1, <1>2 DEF TypeOK

LEMMA RunChatPlaces ==
    ASSUME TypeOK, Places, NEW c \in Chat, NEW from, NEW s, NEW to \in ChatPlace,
           from \notin Held, Run(c, from, s, to), UNCHANGED <<verb, target>>,
           \A k \in Chat \ {c} : side'[k] = side[k],
           to \in {"idle", "classify_prompt", "generate", "held_prompt"}
               => side'[c] = "prompt",
           to \in {"classify_response", "held_response"} => side'[c] = "response"
    PROVE  Places'
<1>1. c # None /\ c \notin Admin
  BY HandlerAssumption
<1>2. pc' = [pc EXCEPT ![c] = "running"] /\ who' = c /\ todo' = s /\ next' = to /\ who = None
      /\ pc[c] = from /\ pc \in [Handler -> Place]
      /\ UNCHANGED <<seen, durable, pending>>
  BY DEF Run, TypeOK
<1>3. ASSUME NEW k \in Chat \ {c}
      PROVE  Where(k)' = Where(k) /\ side'[k] = side[k]
  BY <1>1, <1>2, <1>3, HandlerAssumption DEF Where
<1>4. Where(c)' = to
  BY <1>2 DEF Where
<1>5. ASSUME NEW d \in Admin
      PROVE  Where(d)' = Where(d) /\ pc'[d] = pc[d] /\ who' # d
  BY <1>1, <1>2, HandlerAssumption DEF Where
<1>6. \A k \in Chat : pc[k] \in Held => pc'[k] = pc[k]
  BY <1>2
<1>7. \A d \in Admin : pc[d] \notin {"idle", "not_found"} => target[d] \in Chat
  BY DEF TypeOK
<1>9. \A d \in Admin : pc[d] # "idle" /\ pc[d] # "not_found" => pc'[target[d]] = pc[target[d]]
  BY <1>6, <1>7 DEF Places
<1> QED
  BY <1>1, <1>2, <1>3, <1>4, <1>5, <1>6, <1>9 DEF Places, TypeOK

LEMMA EndChatPlaces ==
    ASSUME TypeOK, Places, NEW c \in Chat, NEW from,
           from \notin Held, End(c, from, "error"), UNCHANGED localVars
    PROVE  Places'
<1>1. c # None /\ c \notin Admin
  BY HandlerAssumption
<1>2. pc' = [pc EXCEPT ![c] = "error"] /\ pc[c] = from /\ pc \in [Handler -> Place]
      /\ who = None
      /\ UNCHANGED <<who, todo, next, seen, durable, pending, side, verb, target>>
  BY DEF End, TypeOK, runVars, localVars
<1>3. ASSUME NEW k \in Chat
      PROVE  Where(k)' = IF k = c THEN "error" ELSE Where(k)
  BY <1>1, <1>2, <1>3, HandlerAssumption DEF Where
<1>4. ASSUME NEW d \in Admin
      PROVE  Where(d)' = Where(d) /\ pc'[d] = pc[d]
  BY <1>1, <1>2, HandlerAssumption DEF Where
<1>5. \A k \in Chat : pc[k] \in Held => pc'[k] = pc[k]
  BY <1>2
<1>6. \A d \in Admin : pc[d] # "idle" /\ pc[d] # "not_found" => pc'[target[d]] = pc[target[d]]
  BY <1>5 DEF Places, TypeOK
<1> QED
  BY <1>1, <1>2, <1>3, <1>4, <1>5, <1>6 DEF Places, TypeOK, ChatPlace

LEMMA RunAdminPlaces ==
    ASSUME TypeOK, Places, NEW d \in Admin, NEW from, NEW s,
           Run(d, from, s, "done"), UNCHANGED <<turn, side>>,
           \A e \in Admin \ {d} : verb'[e] = verb[e] /\ target'[e] = target[e],
           target'[d] \in Chat, pc[target'[d]] \in Held,
           verb'[d] \notin Releasing \/ pc[target'[d]] = "held_response"
               => target'[d] \in pending
    PROVE  Places'
<1>1. d # None /\ d \notin Chat
  BY HandlerAssumption
<1>2. pc' = [pc EXCEPT ![d] = "running"] /\ who' = d /\ todo' = s /\ next' = "done"
      /\ who = None /\ pc \in [Handler -> Place]
      /\ UNCHANGED <<seen, durable, pending, side>>
  BY DEF Run, TypeOK
<1>3. ASSUME NEW k \in Chat
      PROVE  Where(k)' = Where(k) /\ pc'[k] = pc[k]
  BY <1>1, <1>2, HandlerAssumption DEF Where
<1>4. ASSUME NEW e \in Admin \ {d}
      PROVE  Where(e)' = Where(e) /\ pc'[e] = pc[e] /\ pc[e] # "running"
  BY <1>1, <1>2, HandlerAssumption DEF Where, TypeOK
<1>5. Where(d)' = "done" /\ pc'[d] = "running"
  BY <1>1, <1>2 DEF Where
<1>6. \A e \in Admin : pc[e] # "idle" /\ pc[e] # "not_found" => target[e] \in Chat
  BY DEF TypeOK
<1> QED
  BY <1>1, <1>2, <1>3, <1>4, <1>5, <1>6 DEF Places, TypeOK, AdminPlace

LEMMA EndAdminPlaces ==
    ASSUME TypeOK, Places, NEW d \in Admin, NEW from,
           NEW to \in AdminPlace \ {"done", "idle"},
           End(d, from, to), UNCHANGED <<turn, side>>,
           \A e \in Admin \ {d} : verb'[e] = verb[e] /\ target'[e] = target[e],
           to # "not_found" => target'[d] \in Chat /\ pc[target'[d]] \in Held,
           to = "generate" => pc[target'[d]] = "held_prompt" /\ verb'[d] \in Releasing
    PROVE  Places'
<1>1. d # None /\ d \notin Chat
  BY HandlerAssumption
<1>2. pc' = [pc EXCEPT ![d] = to] /\ pc \in [Handler -> Place]
      /\ who = None
      /\ UNCHANGED <<who, todo, next, seen, durable, pending, side>>
  BY DEF End, TypeOK, runVars
<1>3. ASSUME NEW k \in Chat
      PROVE  Where(k)' = Where(k) /\ pc'[k] = pc[k]
  BY <1>1, <1>2, HandlerAssumption DEF Where
<1>4. ASSUME NEW e \in Admin \ {d}
      PROVE  Where(e)' = Where(e) /\ pc'[e] = pc[e]
  BY <1>1, <1>2, HandlerAssumption DEF Where
<1>5. Where(d)' = to /\ pc'[d] = to
  BY <1>1, <1>2 DEF Where
<1>6. \A e \in Admin : pc[e] # "idle" /\ pc[e] # "not_found" => target[e] \in Chat
  BY DEF TypeOK
<1>7. to # "running"
  BY DEF AdminPlace
<1> QED
  BY <1>1, <1>2, <1>3, <1>4, <1>5, <1>6, <1>7 DEF Places, TypeOK

-----------------------------------------------------------------------------
(* The writes a chat request queues, and where they lead it.                 *)
ChatRun(c, from, s, to) ==
    /\ Run(c, from, s, to)
    /\ from \in {"idle", "classify_prompt", "generate", "classify_response"}
    /\ to \in ChatPlace
    /\ Own(c, s)
    /\ to \in Held => s # << >> /\ s[Len(s)] = Approval(c)
    /\ to \notin Held => Quiet(s)
    /\ UNCHANGED <<verb, target>>
    /\ turn' \in [Chat -> Nat] /\ side' \in [Chat -> Direction]
    /\ \A k \in Chat \ {c} : side'[k] = side[k] /\ turn'[k] = turn[k]
    /\ from \notin {"idle", "generate"} => UNCHANGED <<turn, side>>
    /\ to \in {"idle", "classify_prompt", "generate", "held_prompt"} => side'[c] = "prompt"
    /\ to \in {"classify_response", "held_response"} => side'[c] = "response"

ChatRuns(c) == \E from, s, to : ChatRun(c, from, s, to)

(* The writes of an administrator's request.                                 *)
AdminRun(d, from, s) ==
    /\ Run(d, from, s, "done")
    /\ from \in {"idle", "generate"}
    /\ UNCHANGED <<turn, side>>
    /\ \A e \in Admin \ {d} : verb'[e] = verb[e] /\ target'[e] = target[e]
    /\ verb' \in [Admin -> Verb \cup {None}] /\ verb'[d] \in Verb
    /\ target' \in [Admin -> Chat \cup {None}] /\ target'[d] \in Chat
    /\ pc[target'[d]] \in Held
    /\ verb'[d] \notin Releasing \/ pc[target'[d]] = "held_response"
           => target'[d] \in pending
    /\ Ordered(d, s)
    /\ verb'[d] = "redacted_resumed" => Redacted(d, s)

AdminRuns(d) == \E from, s : AdminRun(d, from, s)

(* A request that ends, or goes on to an await, without a write.             *)
AdminEnd(d, from, to) ==
    /\ End(d, from, to)
    /\ from \in {"idle", "generate"}
    /\ to \in AdminPlace \ {"done", "idle", "lost"}
    /\ UNCHANGED <<turn, side>>
    /\ \A e \in Admin \ {d} : verb'[e] = verb[e] /\ target'[e] = target[e]
    /\ verb' \in [Admin -> Verb \cup {None}]
    /\ target' \in [Admin -> Chat \cup {None}]
    /\ to # "not_found" => /\ verb'[d] \in Verb /\ target'[d] \in Chat
                           /\ pc[target'[d]] \in Held
    /\ to = "generate" => pc[target'[d]] = "held_prompt" /\ verb'[d] \in Releasing

AdminEnds(d) == \E from, to : AdminEnd(d, from, to)

ChatEnds(c) ==
    \E from \in {"classify_prompt", "generate", "classify_response"} :
        End(c, from, "error") /\ UNCHANGED localVars

LEMMA ChatActions ==
    ASSUME TypeOK, Places, NEW c \in Chat, ChatStep(c)
    PROVE  ChatRuns(c) \/ ChatEnds(c)
<1> USE DEF ChatPlace, Held
<1>0. c # None /\ turn \in [Chat -> Nat] /\ side \in [Chat -> Direction]
  BY HandlerAssumption DEF TypeOK
<1>1. PromptMsg(c) \in MessageId /\ ResponseMsg(c) \in MessageId
  BY Ids
<1>2. ASSUME who = None, pc[c] \in {"idle", "classify_prompt", "generate"}
      PROVE  side[c] = "prompt"
  BY <1>0, <1>2 DEF Places, Where
<1>3. ASSUME who = None, pc[c] = "classify_response"
      PROVE  side[c] = "response"
  BY <1>0, <1>3 DEF Places, Where
<1>4. \A s : Quiet(s) => /\ Own(c, s)
                         /\ Own(c, s \o HoldWrites(c)) /\ s \o HoldWrites(c) # << >>
                         /\ (s \o HoldWrites(c))[Len(s \o HoldWrites(c))] = Approval(c)
  <2> SUFFICES ASSUME NEW s, Quiet(s)
               PROVE  /\ Own(c, s)
                      /\ Own(c, s \o HoldWrites(c)) /\ s \o HoldWrites(c) # << >>
                      /\ (s \o HoldWrites(c))[Len(s \o HoldWrites(c))] = Approval(c)
    OBVIOUS
  <2>1. Own(c, s)
    BY QuietOwn
  <2> QED
    BY <2>1, ChatWrites, OwnConcat, LastConcat DEF Own
<1>5. CASE Begin(c)
  <2>1. CompletedResponses \in Nat
    BY FS_Subset, FS_CardinalityType DEF Places, CompletedResponses
  <2> DEFINE s == <<Message([turn |-> CompletedResponses, dir |-> "prompt"])>>
  <2>2. Quiet(s)
    BY <2>1, QuietOne DEF MessageId, Direction
  <2>3. turn' = [turn EXCEPT ![c] = CompletedResponses] /\ UNCHANGED <<side, verb, target>>
        /\ Run(c, "idle", s, "classify_prompt")
    BY <1>5 DEF Begin
  <2> HIDE DEF s
  <2>4. side'[c] = "prompt"
    BY <1>2, <2>3 DEF Run
  <2>5. ChatRun(c, "idle", s, "classify_prompt")
    BY <1>0, <1>4, <2>1, <2>2, <2>3, <2>4 DEF ChatRun
  <2> QED
    BY <2>5 DEF ChatRuns
<1>6. CASE PausePrompt(c)
  <2> DEFINE s == PromptEvents(c) \o HoldWrites(c)
  <2>1. /\ Own(c, s) /\ s # << >> /\ s[Len(s)] = Approval(c)
    BY <1>4, ChatWrites
  <2>2. Run(c, "classify_prompt", s, "held_prompt") /\ UNCHANGED <<turn, side, verb, target>>
    BY <1>6 DEF PausePrompt, localVars
  <2> HIDE DEF s
  <2>3. side'[c] = "prompt"
    BY <1>2, <2>2 DEF Run
  <2>4. ChatRun(c, "classify_prompt", s, "held_prompt")
    BY <1>0, <2>1, <2>2, <2>3 DEF ChatRun
  <2> QED
    BY <2>4 DEF ChatRuns
<1>7. CASE AllowPrompt(c)
  <2> DEFINE t == <<Event(PromptMsg(c), "llm.request.started")>>
             s == PromptEvents(c) \o t
  <2>1. Quiet(t)
    BY <1>1, QuietOne DEF EventType
  <2>2. Quiet(s)
    BY <2>1, ChatWrites, QuietConcat
  <2>3. Run(c, "classify_prompt", s, "generate") /\ UNCHANGED <<turn, side, verb, target>>
    BY <1>7 DEF AllowPrompt, localVars
  <2> HIDE DEF s
  <2>4. side'[c] = "prompt"
    BY <1>2, <2>3 DEF Run
  <2>5. ChatRun(c, "classify_prompt", s, "generate")
    BY <1>0, <1>4, <2>2, <2>3, <2>4 DEF ChatRun
  <2> QED
    BY <2>5 DEF ChatRuns
<1>8. CASE Generated(c)
  <2> DEFINE s == <<Message(ResponseMsg(c))>>
  <2>1. Quiet(s)
    BY <1>1, QuietOne
  <2>2. Run(c, "generate", s, "classify_response") /\ UNCHANGED <<turn, verb, target>>
        /\ side' = [side EXCEPT ![c] = "response"]
    BY <1>8 DEF Generated
  <2> HIDE DEF s
  <2>3. ChatRun(c, "generate", s, "classify_response")
    BY <1>0, <1>4, <2>1, <2>2 DEF ChatRun, Direction
  <2> QED
    BY <2>3 DEF ChatRuns
<1>9. CASE GenerateUnavailable(c)
  <2> DEFINE s == <<Event(PromptMsg(c), "system.error")>>
  <2>1. Quiet(s)
    BY <1>1, QuietOne DEF EventType
  <2>2. Run(c, "generate", s, "unavailable") /\ UNCHANGED <<turn, side, verb, target>>
    BY <1>9 DEF GenerateUnavailable, localVars
  <2> HIDE DEF s
  <2>3. ChatRun(c, "generate", s, "unavailable")
    BY <1>0, <1>4, <2>1, <2>2 DEF ChatRun
  <2> QED
    BY <2>3 DEF ChatRuns
<1>10. CASE ModelError(c)
  BY <1>10 DEF ModelError, ChatEnds
<1>11. CASE PauseResponse(c)
  <2> DEFINE s == ResponseEvents(c) \o HoldWrites(c)
  <2>1. /\ Own(c, s) /\ s # << >> /\ s[Len(s)] = Approval(c)
    BY <1>4, ChatWrites
  <2>2. Run(c, "classify_response", s, "held_response")
        /\ UNCHANGED <<turn, side, verb, target>>
    BY <1>11 DEF PauseResponse, localVars
  <2> HIDE DEF s
  <2>3. side'[c] = "response"
    BY <1>3, <2>2 DEF Run
  <2>4. ChatRun(c, "classify_response", s, "held_response")
    BY <1>0, <2>1, <2>2, <2>3 DEF ChatRun
  <2> QED
    BY <2>4 DEF ChatRuns
<1>12. CASE Deliver(c)
  <2> DEFINE t == <<Event(ResponseMsg(c), "response.delivered")>>
             s == ResponseEvents(c) \o t
  <2>1. Quiet(t)
    BY <1>1, QuietOne DEF EventType
  <2>2. Quiet(s)
    BY <2>1, ChatWrites, QuietConcat
  <2>3. Run(c, "classify_response", s, "delivered") /\ UNCHANGED <<turn, side, verb, target>>
    BY <1>12 DEF Deliver, localVars
  <2> HIDE DEF s
  <2>4. ChatRun(c, "classify_response", s, "delivered")
    BY <1>0, <1>4, <2>2, <2>3 DEF ChatRun
  <2> QED
    BY <2>4 DEF ChatRuns
<1> QED
  BY <1>5, <1>6, <1>7, <1>8, <1>9, <1>10, <1>11, <1>12 DEF ChatStep

LEMMA AdminActions ==
    ASSUME TypeOK, Places, NEW d \in Admin, AdminStep(d)
    PROVE  AdminRuns(d) \/ AdminEnds(d)
<1>0. /\ d \notin Chat /\ d # None /\ pending \subseteq Chat
      /\ verb \in [Admin -> Verb \cup {None}] /\ target \in [Admin -> Chat \cup {None}]
  BY HandlerAssumption DEF TypeOK
<1>1. ASSUME NEW v \in Verb, NEW a \in Chat, Receive(d, v, a)
      PROVE  /\ UNCHANGED <<turn, side>>
             /\ \A e \in Admin \ {d} : verb'[e] = verb[e] /\ target'[e] = target[e]
             /\ verb' \in [Admin -> Verb \cup {None}] /\ verb'[d] = v
             /\ target' \in [Admin -> Chat \cup {None}] /\ target'[d] = a
  BY <1>0, <1>1 DEF Receive
<1>2. ASSUME NEW a \in pending
      PROVE  /\ pc[a] \in Held
             /\ side[a] = "prompt" => pc[a] = "held_prompt"
             /\ side[a] = "response" => pc[a] = "held_response"
  <2>1. a \in Chat /\ pc[a] \in Held /\ a # None
    BY <1>0, HandlerAssumption DEF Places
  <2>2. who # a
    BY <2>1 DEF TypeOK, Held
  <2> QED
    BY <2>1, <2>2 DEF Places, Where, Held
<1>3. CASE NotFound(d)
  <2>1. AdminEnd(d, "idle", "not_found")
    BY <1>0, <1>3 DEF NotFound, AdminEnd, localVars, AdminPlace
  <2> QED
    BY <2>1 DEF AdminEnds
<1>4. CASE Reject(d)
  <2>1. PICK a \in pending :
            /\ Run(d, "idle",
                   (IF side[a] = "response"
                    THEN <<Event(ResponseMsg(a), "response.blocked")>> ELSE << >>)
                       \o DecisionWrites(d, "rejected", a),
                   "done")
            /\ Receive(d, "rejected", a)
    BY <1>4 DEF Reject
  <2> DEFINE q == IF side[a] = "response"
                  THEN <<Event(ResponseMsg(a), "response.blocked")>> ELSE << >>
             s == q \o DecisionWrites(d, "rejected", a)
  <2>2. a \in Chat /\ "rejected" \in Verb \ Releasing
    BY <1>0 DEF Verb, Releasing
  <2>3. Quiet(q)
    <3>1. Quiet(<< >>)
      BY DEF Quiet
    <3>2. Quiet(<<Event(ResponseMsg(a), "response.blocked")>>)
      BY <2>2, Ids, QuietOne DEF EventType
    <3> QED
      BY <3>1, <3>2
  <2>4. Ordered(d, s)
    BY <2>2, <2>3, Decision, OrderedConcat
  <2>5. Run(d, "idle", s, "done")
    BY <2>1
  <2> HIDE DEF q, s
  <2>6. AdminRun(d, "idle", s)
    BY <1>1, <1>2, <2>1, <2>2, <2>4, <2>5 DEF AdminRun
  <2> QED
    BY <2>6 DEF AdminRuns
<1>5. CASE Escalate(d)
  <2>1. PICK a \in pending :
            /\ Run(d, "idle", DecisionWrites(d, "escalated", a), "done")
            /\ Receive(d, "escalated", a)
    BY <1>5 DEF Escalate
  <2>2. a \in Chat /\ "escalated" \in Verb \ Releasing
    BY <1>0 DEF Verb, Releasing
  <2>3. Ordered(d, DecisionWrites(d, "escalated", a))
    BY <2>2, Decision
  <2>4. AdminRun(d, "idle", DecisionWrites(d, "escalated", a))
    BY <1>1, <1>2, <2>1, <2>2, <2>3 DEF AdminRun
  <2> QED
    BY <2>4 DEF AdminRuns
<1>6. CASE Release(d)
  <2>1. PICK v \in Releasing, a \in pending :
            /\ side[a] = "response"
            /\ Run(d, "idle",
                   <<Event(ResponseMsg(a), "response.delivered")>> \o DecisionWrites(d, v, a),
                   "done")
            /\ Receive(d, v, a)
    BY <1>6 DEF Release
  <2> DEFINE q == <<Event(ResponseMsg(a), "response.delivered")>>
             s == q \o DecisionWrites(d, v, a)
  <2>2. a \in Chat /\ v \in Verb
    BY <1>0 DEF Verb
  <2>3. Quiet(q)
    BY <2>2, Ids, QuietOne DEF EventType
  <2>4. Ordered(d, s) /\ (v = "redacted_resumed" => Redacted(d, s))
    BY <2>2, <2>3, Decision, OrderedConcat
  <2>5. Run(d, "idle", s, "done")
    BY <2>1
  <2> HIDE DEF q, s
  <2>6. AdminRun(d, "idle", s)
    BY <1>1, <1>2, <2>1, <2>2, <2>4, <2>5 DEF AdminRun
  <2> QED
    BY <2>6 DEF AdminRuns
<1>7. CASE Resume(d)
  <2>1. PICK v \in Releasing, a \in pending :
            /\ side[a] = "prompt"
            /\ End(d, "idle", "generate")
            /\ Receive(d, v, a)
    BY <1>7 DEF Resume
  <2>2. a \in Chat /\ v \in Verb
    BY <1>0 DEF Verb
  <2>3. AdminEnd(d, "idle", "generate")
    BY <1>1, <1>2, <2>1, <2>2 DEF AdminEnd, AdminPlace
  <2> QED
    BY <2>3 DEF AdminEnds
<1>8. CASE ResumeDelivered(d)
  <2> DEFINE a == target[d]
             q == <<Message(ResponseMsg(a)),
                    Event(ResponseMsg(a), "llm.response.generated"),
                    Event(ResponseMsg(a), "response.delivered")>>
             s == q \o DecisionWrites(d, verb[d], a)
  <2>1. Run(d, "generate", s, "done") /\ UNCHANGED <<turn, side, verb, target>>
    BY <1>8 DEF ResumeDelivered, localVars
  <2>2. pc[d] = "generate"
    BY <2>1 DEF Run
  <2>3. a \in Chat /\ verb[d] \in Verb /\ verb[d] \in Releasing /\ pc[a] = "held_prompt"
    BY <2>2 DEF TypeOK, Places
  <2>4. Quiet(q)
    <3>1. PICK x \in Write : x = Message(ResponseMsg(a)) /\ x.table = "messages"
      BY <2>3, Ids, WriteTypes
    <3>2. PICK y \in Write : y = Event(ResponseMsg(a), "llm.response.generated")
                             /\ y.table = "events"
      BY <2>3, Ids, WriteTypes DEF EventType
    <3>3. PICK z \in Write : z = Event(ResponseMsg(a), "response.delivered")
                             /\ z.table = "events"
      BY <2>3, Ids, WriteTypes DEF EventType
    <3>4. Quiet(<<x, y, z>>)
      BY <3>1, <3>2, <3>3 DEF Quiet
    <3> QED
      BY <3>1, <3>2, <3>3, <3>4
  <2>5. Ordered(d, s) /\ (verb[d] = "redacted_resumed" => Redacted(d, s))
    BY <2>3, <2>4, Decision, OrderedConcat
  <2> HIDE DEF q, s
  <2>6. AdminRun(d, "generate", s)
    BY <1>0, <2>1, <2>3, <2>5 DEF AdminRun, Held
  <2> QED
    BY <2>6 DEF AdminRuns
<1>9. CASE ResumeFailed(d)
  <2>1. End(d, "generate", "error") /\ UNCHANGED <<turn, side, verb, target>>
    BY <1>9 DEF ResumeFailed, localVars
  <2>2. pc[d] = "generate"
    BY <2>1 DEF End
  <2>3. AdminEnd(d, "generate", "error")
    BY <1>0, <2>1, <2>2 DEF AdminEnd, TypeOK, Places, AdminPlace
  <2> QED
    BY <2>3 DEF AdminEnds
<1> QED
  BY <1>3, <1>4, <1>5, <1>6, <1>7, <1>8, <1>9 DEF AdminStep

(* The shape of a step, by what it does to the running handler.              *)
LEMMA Steps ==
    ASSUME TypeOK, Places, [Next]_vars
    PROVE  \/ \E c \in Chat : ChatRuns(c) \/ ChatEnds(c)
           \/ \E d \in Admin : AdminRuns(d) \/ AdminEnds(d)
           \/ Written \/ Refused \/ Faulted \/ Finish \/ Crash
           \/ UNCHANGED vars
  BY ChatActions, AdminActions DEF Next, Quiescent

-----------------------------------------------------------------------------
(* The tables after a write, whether it succeeded or not.                    *)
LEMMA WriteTypesPreserved ==
    ASSUME TypeOK, Places, todo # << >>
    PROVE  /\ Apply(seen, Head(todo)) \in Database
           /\ IsFiniteSet(Apply(seen, Head(todo)).messages)
           /\ Tail(todo) \in Seq(Write)
           /\ \A i \in DOMAIN Tail(todo) :
                  Tail(todo)[i].table \notin {"messages", "events"}
                      => Tail(todo)[i].row = who
<1>1. Own(who, Tail(todo))
  BY Running, TailFacts
<1>2. seen \in Database /\ IsFiniteSet(seen.messages)
  BY DEF TypeOK, Places
<1> QED
  BY <1>1, <1>2, Running, ApplyTypes DEF Own

(* A handler that fails is where it was, or has answered 500.                *)
LEMMA FailTypes ==
    ASSUME TypeOK, Places, todo # << >>, Fail, seen' \in Database,
           IsFiniteSet(seen'.messages), faults' \in 0 .. MaxFaults
    PROVE  TypeOK' /\ Places'
<1>0. who \in Handler /\ pc[who] = "running" /\ who # None /\ pc \in [Handler -> Place]
  BY Running, HandlerAssumption DEF TypeOK
<1>1. UNCHANGED <<turn, side, verb, target, durable, pending, orphaned, crashes>>
  BY DEF Fail, localVars
<1>2. CASE Head(todo).table = "events"
  <2>1. UNCHANGED <<pc, who, next>> /\ todo' = Tail(todo)
    BY <1>2 DEF Fail
  <2>2. TypeOK'
    BY <1>1, <2>1, WriteTypesPreserved DEF TypeOK
  <2>3. Places'
    BY <1>0, <1>1, <2>1 DEF Places, Where
  <2> QED
    BY <2>2, <2>3
<1>3. CASE Head(todo).table # "events"
  <2>1. pc' = [pc EXCEPT ![who] = "error"] /\ who' = None /\ todo' = << >> /\ next' = "idle"
    BY <1>3 DEF Fail
  <2>2. \A h \in Handler : pc'[h] # "running" /\ h # None
    BY <1>0, <2>1, HandlerAssumption DEF TypeOK
  <2>3. TypeOK'
    <3>1. \A h \in Handler : pc'[h] = "running" <=> who' = h
      BY <2>1, <2>2
    <3>2. \A d \in Admin : pc'[d] \notin {"idle", "not_found"} =>
              verb'[d] \in Verb /\ target'[d] \in Chat
      BY <1>0, <1>1, <2>1 DEF TypeOK
    <3>3. todo' \in Seq(Write) /\ DOMAIN todo' = {} /\ next' \in Place
      BY <2>1 DEF Place
    <3>4. pc' \in [Handler -> Place]
      BY <1>0, <2>1 DEF Place
    <3> QED
      BY <1>1, <2>1, <3>1, <3>2, <3>3, <3>4 DEF TypeOK
  <2>4. \A h \in Handler : Where(h)' = IF h = who THEN "error" ELSE Where(h)
    BY <1>0, <2>1, <2>2 DEF Where
  <2>5. \A c \in Chat : pc[c] \in Held => pc'[c] = pc[c] /\ c # who
    BY <1>0, <2>1 DEF Held
  <2>6. \A d \in Admin : pc'[d] # "running" /\ (pc'[d] # "error" => pc'[d] = pc[d])
    BY <1>0, <2>1, <2>2
  <2>7. \A d \in Admin : pc'[d] \notin {"idle", "not_found"} =>
            target[d] \in Chat /\ pc'[target[d]] \in Held
            /\ pc'[target[d]] = pc[target[d]] /\ pc[d] \notin {"idle", "not_found"}
    BY <1>0, <2>1, <2>5 DEF TypeOK, Places
  <2>8. Places'
    <3>1. \A c \in Chat : /\ Where(c)' \in ChatPlace
                          /\ Where(c)' # "error" => Where(c)' = Where(c)
      BY <2>4 DEF Places, ChatPlace
    <3>2. \A d \in Admin : Where(d)' \in AdminPlace /\ who' # d
      BY <2>1, <2>2, <2>4 DEF Places, AdminPlace
    <3>3. \A d \in Admin : pc'[d] = "generate" => pc[d] = "generate"
      BY <2>6
    <3> QED
      <4>1. \A c \in pending' : pc'[c] \in Held
        BY <1>1, <2>5 DEF Places, TypeOK
      <4>2. \A c \in Chat : side'[c] = side[c]
        BY <1>1
      <4>3. \A d \in Admin : /\ target'[d] = target[d] /\ verb'[d] = verb[d]
                             /\ pc'[d] # "running"
        BY <1>1, <2>6
      <4> QED
        BY <1>1, <2>1, <2>7, <3>1, <3>2, <3>3, <4>1, <4>2, <4>3 DEF Places
  <2> QED
    BY <2>3, <2>8
<1> QED
  BY <1>2, <1>3

LEMMA TypeStep ==
    ASSUME TypeOK, Places, [Next]_vars
    PROVE  TypeOK' /\ Places'
<1>1. ASSUME NEW c \in Chat, ChatRuns(c)
      PROVE  TypeOK' /\ Places'
  <2>1. PICK from, s, to : ChatRun(c, from, s, to)
    BY <1>1 DEF ChatRuns
  <2>2. from \notin Held /\ to \in Place
    BY <2>1 DEF ChatRun, Held, Place, ChatPlace, Interrupted
  <2>3. \A d \in Admin : pc'[d] = pc[d]
    BY <2>1, HandlerAssumption DEF ChatRun, Run, TypeOK
  <2>4. TypeOK'
    <3>1. \A d \in Admin : pc'[d] \notin {"idle", "not_found"} =>
              verb'[d] \in Verb /\ target'[d] \in Chat
      BY <2>1, <2>3 DEF ChatRun, TypeOK
    <3>2. /\ turn' \in [Chat -> Nat] /\ side' \in [Chat -> Direction]
          /\ verb' \in [Admin -> Verb \cup {None}]
          /\ target' \in [Admin -> Chat \cup {None}]
          /\ Run(c, from, s, to) /\ Own(c, s)
      BY <2>1 DEF ChatRun, TypeOK
    <3> QED
      BY <2>2, <3>1, <3>2, RunTypes
  <2>5. Places'
    BY <2>1, <2>2, RunChatPlaces DEF ChatRun
  <2> QED
    BY <2>4, <2>5
<1>2. ASSUME NEW c \in Chat, ChatEnds(c)
      PROVE  TypeOK' /\ Places'
  <2>1. PICK from \in {"classify_prompt", "generate", "classify_response"} :
            End(c, from, "error") /\ UNCHANGED localVars
    BY <1>2 DEF ChatEnds
  <2>2. \A d \in Admin : pc'[d] = pc[d]
    BY <2>1, HandlerAssumption DEF End, TypeOK
  <2>3. TypeOK'
    <3>1. \A d \in Admin : pc'[d] \notin {"idle", "not_found"} =>
              verb'[d] \in Verb /\ target'[d] \in Chat
      BY <2>1, <2>2 DEF localVars, TypeOK
    <3>2. /\ turn' \in [Chat -> Nat] /\ side' \in [Chat -> Direction]
          /\ verb' \in [Admin -> Verb \cup {None}]
          /\ target' \in [Admin -> Chat \cup {None}]
      BY <2>1 DEF localVars, TypeOK
    <3>3. "error" \in Place \ {"running"}
      BY DEF Place
    <3> QED
      BY <2>1, <3>1, <3>2, <3>3, EndTypes
  <2>4. from \notin Held
    BY DEF Held
  <2>5. Places'
    BY <2>1, <2>4, EndChatPlaces
  <2> QED
    BY <2>3, <2>5
<1>3. ASSUME NEW d \in Admin, AdminRuns(d)
      PROVE  TypeOK' /\ Places'
  <2>1. PICK from, s : AdminRun(d, from, s)
    BY <1>3 DEF AdminRuns
  <2>2. \A e \in Admin \ {d} : pc'[e] = pc[e]
    BY <2>1 DEF AdminRun, Run, TypeOK
  <2>3. TypeOK'
    BY <2>1, <2>2, RunTypes DEF AdminRun, Ordered, TypeOK, Place
  <2>4. Places'
    BY <2>1, RunAdminPlaces DEF AdminRun
  <2> QED
    BY <2>3, <2>4
<1>4. ASSUME NEW d \in Admin, AdminEnds(d)
      PROVE  TypeOK' /\ Places'
  <2>1. PICK from, to : AdminEnd(d, from, to)
    BY <1>4 DEF AdminEnds
  <2>2. /\ \A e \in Admin \ {d} : pc'[e] = pc[e]
        /\ pc'[d] = to
    BY <2>1 DEF AdminEnd, End, TypeOK
  <2>3. to \in Place \ {"running"}
    BY <2>1 DEF AdminEnd, AdminPlace, Place, Interrupted
  <2>4. TypeOK'
    <3>1. \A e \in Admin : pc'[e] \notin {"idle", "not_found"} =>
              verb'[e] \in Verb /\ target'[e] \in Chat
      BY <2>1, <2>2 DEF AdminEnd, TypeOK
    <3>2. /\ turn' \in [Chat -> Nat] /\ side' \in [Chat -> Direction]
          /\ verb' \in [Admin -> Verb \cup {None}]
          /\ target' \in [Admin -> Chat \cup {None}]
          /\ End(d, from, to)
      BY <2>1 DEF AdminEnd, TypeOK
    <3> QED
      BY <2>3, <3>1, <3>2, EndTypes
  <2>5. Places'
    BY <2>1, EndAdminPlaces DEF AdminEnd
  <2> QED
    BY <2>4, <2>5
<1>5. CASE Written
  <2>1. todo # << >> /\ seen' = Apply(seen, Head(todo)) /\ durable' = seen'
        /\ todo' = Tail(todo)
        /\ UNCHANGED <<pc, turn, side, verb, target, who, next, pending, orphaned,
                       faults, crashes>>
    BY <1>5 DEF Written, localVars, boundVars
  <2>2. TypeOK'
    BY <2>1, WriteTypesPreserved DEF TypeOK
  <2>3. Places'
    BY <2>1, WriteTypesPreserved, Running, HandlerAssumption DEF Places, Where
  <2> QED
    BY <2>2, <2>3
<1>6. CASE Refused
  BY <1>6, FailTypes DEF Refused, TypeOK, Places
<1>7. CASE Faulted
  <2>1. faults' \in 0 .. MaxFaults
    BY <1>7, BoundAssumption DEF Faulted, TypeOK
  <2>2. seen' \in Database /\ IsFiniteSet(seen'.messages)
    BY <1>7, WriteTypesPreserved DEF Faulted, TypeOK, Places
  <2> QED
    BY <1>7, <2>1, <2>2, FailTypes DEF Faulted
<1>8. CASE Finish
  <2>1. /\ who \in Handler /\ who # None /\ todo = << >> /\ pc' = [pc EXCEPT ![who] = next]
        /\ pending' = (pending \cup Opened(who)) \ Popped(who)
        /\ who' = None /\ next' = "idle"
        /\ UNCHANGED <<turn, side, verb, target, todo, seen, durable, orphaned,
                       faults, crashes>>
    BY <1>8 DEF Finish, localVars, boundVars, TypeOK
  <2>2. pc[who] = "running" /\ next \in Place \ {"running"} /\ pc \in [Handler -> Place]
    BY <2>1, HandlerAssumption
       DEF TypeOK, Places, Where, ChatPlace, AdminPlace
  <2>3. \A h \in Handler : pc'[h] # "running" /\ h # None
    BY <2>1, <2>2, HandlerAssumption DEF TypeOK
  <2>4. Opened(who) \subseteq Chat /\ \A c \in Opened(who) : c = who /\ next \in Held
    BY <2>1 DEF Opened, Places, Held
  <2>5. \A d \in Admin : pc'[d] \notin {"idle", "not_found"} =>
            pc[d] \notin {"idle", "not_found"}
    BY <2>1, <2>2
  <2>6. TypeOK'
    BY <2>1, <2>2, <2>3, <2>4, <2>5 DEF TypeOK, Place
  <2>7. \A h \in Handler : Where(h)' = Where(h)
    BY <2>1, <2>2, <2>3 DEF Where
  <2>8. \A c \in Chat : pc[c] \in Held => pc'[c] = pc[c] /\ c # who
    BY <2>1, <2>2 DEF Held
  <2>9. \A d \in Admin : pc'[d] = "generate" => pc[d] = "generate"
    BY <2>1, <2>2 DEF Places
  <2>10. \A d \in Admin : pc'[d] \notin {"idle", "not_found"} =>
             target[d] \in Chat /\ pc'[target[d]] = pc[target[d]] /\ pc[target[d]] \in Held
    BY <2>5, <2>8 DEF TypeOK, Places
  <2>11. \A c \in pending' : pc'[c] \in Held
    BY <2>1, <2>2, <2>4, <2>8 DEF Places, TypeOK
  <2>12. Places'
    BY <2>1, <2>3, <2>7, <2>8, <2>9, <2>10, <2>11 DEF Places
  <2> QED
    BY <2>6, <2>12
<1>9. CASE Crash
  <2>1. /\ crashes' \in 0 .. MaxCrashes
        /\ who' = None /\ todo' = << >> /\ next' = "idle" /\ seen' = durable
        /\ orphaned' = orphaned \cup pending /\ pending' = {}
        /\ UNCHANGED <<turn, side, verb, target, durable, faults>>
    BY <1>9, BoundAssumption DEF Crash, TypeOK, localVars
  <2>2. \A h \in Handler : pc'[h] = IF pc[h] \in Interrupted THEN "lost" ELSE pc[h]
    BY <1>9 DEF Crash
  <2>3. pc' \in [Handler -> Place]
    BY <1>9 DEF Crash, TypeOK, Place
  <2>4. \A h \in Handler : pc'[h] # "running" /\ h # None
    BY <2>2, HandlerAssumption DEF Interrupted
  <2>5. TypeOK'
    <3>1. \A h \in Handler : pc'[h] = "running" <=> who' = h
      BY <2>1, <2>4
    <3>2. \A d \in Admin : pc'[d] \notin {"idle", "not_found"} =>
              verb'[d] \in Verb /\ target'[d] \in Chat
      BY <2>1, <2>2 DEF TypeOK, Interrupted
    <3>3. todo' \in Seq(Write) /\ DOMAIN todo' = {} /\ next' \in Place
      BY <2>1 DEF Place
    <3> QED
      BY <2>1, <2>3, <3>1, <3>2, <3>3 DEF TypeOK
  <2>6. \A h \in Handler : Where(h)' = pc'[h]
    BY <2>1, <2>4 DEF Where
  <2>7. \A h \in Handler : pc'[h] # "lost" => who # h /\ pc'[h] = pc[h] /\ pc'[h] = Where(h)
    BY <2>2 DEF Interrupted, TypeOK, Where
  <2>8. \A c \in Chat : pc[c] \in Held => pc'[c] = pc[c]
    BY <2>2 DEF Held, Interrupted
  <2>9. \A d \in Admin : pc'[d] \notin {"idle", "not_found"} =>
            target[d] \in Chat /\ pc'[target[d]] \in Held /\ pc'[d] \notin {"generate", "running"}
    <3> SUFFICES ASSUME NEW d \in Admin, pc'[d] \notin {"idle", "not_found"}
                 PROVE  /\ target[d] \in Chat /\ pc'[target[d]] \in Held
                        /\ pc'[d] \notin {"generate", "running"}
      OBVIOUS
    <3>1. d \in Handler /\ pc[d] \notin {"idle", "not_found"}
      BY <2>2 DEF Handler, Interrupted
    <3>2. target[d] \in Chat /\ pc[target[d]] \in Held
      BY <3>1 DEF TypeOK, Places, AdminPlace
    <3>3. pc'[d] \notin {"generate", "running"}
      BY <2>2, <3>1 DEF Interrupted
    <3> QED
      BY <2>8, <3>2, <3>3
  <2>10. Places'
    BY <2>1, <2>4, <2>6, <2>7, <2>9 DEF Places, ChatPlace, AdminPlace
  <2> QED
    BY <2>5, <2>10
<1>10. CASE UNCHANGED vars
  BY <1>10 DEF vars, localVars, runVars, boundVars, TypeOK, Places, Where
<1> QED
  BY <1>1, <1>2, <1>3, <1>4, <1>5, <1>6, <1>7, <1>8, <1>9, <1>10, Steps

LEMMA TypeInit == Init => TypeOK /\ Places
<1> SUFFICES ASSUME Init PROVE TypeOK /\ Places
  OBVIOUS
<1>1. IsFiniteSet({})
  BY FS_EmptySet
<1>2. who = None /\ todo = << >> /\ \A h \in Handler : h # None
  BY HandlerAssumption DEF Init
<1>3. << >> \in Seq(Write) /\ DOMAIN << >> = {}
  OBVIOUS
<1>4. seen \in Database /\ durable = seen
  BY DEF Init, Database
<1>5. TypeOK
  BY <1>2, <1>3, <1>4, BoundAssumption DEF Init, TypeOK, Place, Interrupted, Direction
<1>6. Places
  BY <1>1, <1>2 DEF Init, Places, Where, ChatPlace, AdminPlace
<1> QED
  BY <1>5, <1>6

(* The handlers, the tables and the queued writes have their types and where *)
(* every handler is agrees with what it has in hand, for any number of       *)
(* requests, faults and crashes.                                             *)
THEOREM TypeCorrect == Spec => [](TypeOK /\ Places)
<1>1. TypeOK /\ Places /\ [Next]_vars => TypeOK' /\ Places'
  BY TypeStep
<1> QED
  BY <1>1, TypeInit, PTL DEF Spec

-----------------------------------------------------------------------------
(* What the running handler has done, and has still to do                    *)

HoldToDo ==
    IF todo = << >> THEN seen = durable /\ seen.status[who] = "pending"
    ELSE todo[Len(todo)] = Approval(who)

DecisionToDo ==
    /\ IF todo = << >>
       THEN /\ seen = durable /\ who \in seen.actions
            /\ seen.status[target[who]] = verb[who]
       ELSE todo[Len(todo)] = Resolution(who)
    /\ \A i \in DOMAIN todo : todo[i].table = "resolve" =>
           \/ who \in seen.actions /\ who \in durable.actions
           \/ \E j \in 1 .. i - 1 : todo[j] = Action(who)
    /\ verb[who] = "redacted_resumed" =>
           \A i \in DOMAIN todo : todo[i].table = "admin_actions" =>
               \/ who \in seen.redactions /\ who \in durable.redactions
               \/ \E j \in 1 .. i - 1 : todo[j] = Redaction(who)

(* The approval row of a pause and the status of a decision are written      *)
(* last, each row only behind the rows it rests on.                          *)
ToDo ==
    /\ who \in Chat /\ next \in Held => HoldToDo
    /\ who \in Chat /\ next \notin Held =>
           \A i \in DOMAIN todo : todo[i].table # "approval_requests"
    /\ who \in Admin => DecisionToDo

LEMMA ApplyEffect ==
    ASSUME NEW db \in Database, NEW w \in Write,
           w.table \in {"resolve"} => target[w.row] \in Chat /\ verb[w.row] \in Verb
    PROVE  /\ db.messages \subseteq Apply(db, w).messages
           /\ db.events \subseteq Apply(db, w).events
           /\ Apply(db, w).actions =
                  db.actions \cup (IF w.table = "admin_actions" THEN {w.row} ELSE {})
           /\ Apply(db, w).redactions =
                  db.redactions \cup (IF w.table = "redactions" THEN {w.row} ELSE {})
           /\ \A a \in Chat : Apply(db, w).status[a] =
                  IF w.table = "approval_requests" /\ w.row = a THEN "pending"
                  ELSE IF w.table = "resolve" /\ target[w.row] = a THEN verb[w.row]
                  ELSE db.status[a]
<1>0. w.table \in Table
  BY DEF Write, Table
<1>1. CASE w.table = "messages"
  BY <1>1 DEF Apply, Database
<1>2. CASE w.table = "events"
  BY <1>2 DEF Apply, Database
<1>3. CASE w.table = "approval_requests"
  BY <1>3 DEF Apply, Database, Write
<1>4. CASE w.table = "admin_actions"
  BY <1>4 DEF Apply, Database
<1>5. CASE w.table = "redactions"
  BY <1>5 DEF Apply, Database
<1>6. CASE w.table = "resolve"
  BY <1>6 DEF Apply, Database
<1> QED
  BY <1>0, <1>1, <1>2, <1>3, <1>4, <1>5, <1>6 DEF Table

(* What the first write of the running handler does to the tables.           *)
LEMMA HeadEffect ==
    ASSUME TypeOK, Places, todo # << >>
    PROVE  LET db == Apply(seen, Head(todo)) IN
           /\ db \in Database
           /\ seen.messages \subseteq db.messages
           /\ seen.events \subseteq db.events
           /\ db.actions = seen.actions \cup
                  (IF Head(todo).table = "admin_actions" THEN {who} ELSE {})
           /\ db.redactions = seen.redactions \cup
                  (IF Head(todo).table = "redactions" THEN {who} ELSE {})
           /\ \A a \in Chat : db.status[a] =
                  IF Head(todo).table = "approval_requests" /\ who = a THEN "pending"
                  ELSE IF Head(todo).table = "resolve" /\ target[who] = a THEN verb[who]
                  ELSE seen.status[a]
<1>1. Head(todo) \in Write /\ seen \in Database
  BY Running DEF TypeOK
<1> QED
  BY <1>1, Running, ApplyEffect, WriteTypesPreserved

(* A failed write takes no committed row back, and adds no more than itself. *)
LEMMA FaultEffect ==
    ASSUME TypeOK, Places, Refused \/ Faulted
    PROVE  /\ todo # << >>
           /\ seen' \in {seen, durable, Apply(seen, Head(todo))}
           /\ \/ seen' = seen \/ seen' = durable
              \/ seen' = Apply(seen, Head(todo)) /\ Accepts(seen, Head(todo))
           /\ durable' = durable
           /\ Fail
  BY DEF Refused, Faulted, Fail

LEMMA ToDoStep ==
    ASSUME TypeOK, Places, ToDo, [Next]_vars
    PROVE  ToDo'
<1>0. None \notin Chat /\ None \notin Admin /\ Chat \cap Admin = {}
  BY HandlerAssumption
<1>1. ASSUME NEW c \in Chat, ChatRuns(c)
      PROVE  ToDo'
  <2>1. PICK from, s, to : ChatRun(c, from, s, to)
    BY <1>1 DEF ChatRuns
  <2>2. who' = c /\ todo' = s /\ next' = to /\ c \notin Admin
    BY <1>0, <2>1 DEF ChatRun, Run
  <2> QED
    BY <2>1, <2>2 DEF ChatRun, ToDo, HoldToDo, Quiet
<1>2. ASSUME NEW d \in Admin, AdminRuns(d)
      PROVE  ToDo'
  <2>1. PICK from, s : AdminRun(d, from, s)
    BY <1>2 DEF AdminRuns
  <2>2. who' = d /\ todo' = s /\ d \notin Chat
    BY <1>0, <2>1 DEF AdminRun, Run
  <2>3. s # << >> /\ s[Len(s)] = Resolution(d)
    BY <2>1 DEF AdminRun, Ordered
  <2>4. \A i \in DOMAIN s : s[i].table = "resolve" =>
            \E j \in 1 .. i - 1 : s[j] = Action(d)
    BY <2>1 DEF AdminRun, Ordered
  <2>5. verb'[d] = "redacted_resumed" => \A i \in DOMAIN s : s[i].table = "admin_actions" =>
            \E j \in 1 .. i - 1 : s[j] = Redaction(d)
    BY <2>1 DEF AdminRun, Redacted
  <2>6. DecisionToDo'
    BY <2>2, <2>3, <2>4, <2>5 DEF DecisionToDo
  <2> QED
    BY <2>2, <2>6 DEF ToDo
<1>3. CASE who' = None
  BY <1>0, <1>3 DEF ToDo
<1>4. ASSUME todo # << >>, todo' = Tail(todo), who' = who, next' = next,
             verb' = verb, target' = target,
             who \in seen.actions /\ who \in durable.actions =>
                 who \in seen'.actions /\ who \in durable'.actions,
             who \in seen.redactions /\ who \in durable.redactions =>
                 who \in seen'.redactions /\ who \in durable'.redactions,
             Head(todo).table = "admin_actions" => who \in seen'.actions /\ who \in durable'.actions,
             Head(todo).table = "redactions" =>
                 who \in seen'.redactions /\ who \in durable'.redactions,
             Head(todo).table = "approval_requests" =>
                 seen' = durable' /\ seen'.status[who] = "pending",
             Head(todo).table = "resolve" =>
                 seen' = durable' /\ seen'.status[target[who]] = verb[who]
      PROVE  ToDo'
  <2>0. /\ Head(todo) = todo[1] /\ 1 \in DOMAIN todo
        /\ Tail(todo) # << >> => Tail(todo)[Len(Tail(todo))] = todo[Len(todo)]
        /\ Tail(todo) = << >> => Len(todo) = 1
        /\ \A i \in DOMAIN Tail(todo) : i + 1 \in DOMAIN todo /\ Tail(todo)[i] = todo[i + 1]
        /\ \A i \in DOMAIN todo : i # 1 =>
               i - 1 \in DOMAIN Tail(todo) /\ Tail(todo)[i - 1] = todo[i]
    <3>1. Own(who, todo)
      BY <1>4, Running
    <3>2. todo # << >>
      BY <1>4
    <3>3. 1 \in DOMAIN todo
      BY <3>1, <3>2 DEF Own
    <3>4. /\ Head(todo) = todo[1]
          /\ Tail(todo) # << >> => Tail(todo)[Len(Tail(todo))] = todo[Len(todo)]
          /\ Tail(todo) = << >> => Len(todo) = 1
      BY <3>1, <3>2, TailFacts
    <3>01. todo \in Seq(Write) /\ Len(todo) \in Nat /\ Len(todo) >= 1
      BY <3>1, <3>2 DEF Own
    <3>02. Tail(todo) \in Seq(Write) /\ Len(Tail(todo)) = Len(todo) - 1
      BY <3>01
    <3>5. \A i \in DOMAIN Tail(todo) : i + 1 \in DOMAIN todo /\ Tail(todo)[i] = todo[i + 1]
      BY <3>01, <3>02
    <3>6. \A i \in DOMAIN todo : i # 1 =>
              i - 1 \in DOMAIN Tail(todo) /\ Tail(todo)[i - 1] = todo[i]
      BY <3>01, <3>02
    <3> QED
      BY <3>3, <3>4, <3>5, <3>6
  <2>1. who \in Chat /\ next \in Held => HoldToDo'
    <3> SUFFICES ASSUME who \in Chat, next \in Held PROVE HoldToDo'
      OBVIOUS
    <3>1. todo[Len(todo)] = Approval(who)
      BY <1>4 DEF ToDo, HoldToDo
    <3>2. CASE Tail(todo) = << >>
      BY <1>4, <2>0, <3>1, <3>2 DEF HoldToDo, Approval
    <3>3. CASE Tail(todo) # << >>
      BY <1>4, <2>0, <3>1, <3>3 DEF HoldToDo
    <3> QED
      BY <3>2, <3>3
  <2>2. who \in Chat /\ next \notin Held =>
            \A i \in DOMAIN Tail(todo) : Tail(todo)[i].table # "approval_requests"
    BY <2>0 DEF ToDo
  <2>3. who \in Admin => DecisionToDo'
    <3> SUFFICES ASSUME who \in Admin PROVE DecisionToDo'
      OBVIOUS
    <3>0. DecisionToDo /\ todo \in Seq(Write)
      BY DEF ToDo, TypeOK
    <3>1. todo[Len(todo)] = Resolution(who)
      BY <1>4, <3>0 DEF DecisionToDo
    <3>2. ASSUME NEW i \in DOMAIN todo, todo[i].table = "resolve"
          PROVE  \/ who \in seen'.actions /\ who \in durable'.actions
                 \/ \E j \in 1 .. i - 2 : Tail(todo)[j] = Action(who)
      <4>1. CASE who \in seen.actions /\ who \in durable.actions
        BY <1>4, <4>1
      <4>2. CASE \E j \in 1 .. i - 1 : todo[j] = Action(who)
        <5>1. PICK j \in 1 .. i - 1 : todo[j] = Action(who)
          BY <4>2
        <5>2. CASE j = 1
          BY <1>4, <2>0, <5>1, <5>2 DEF Action
        <5>3. CASE j # 1
          <6>1. j \in DOMAIN todo /\ j - 1 \in 1 .. i - 2
            BY <3>0, <5>1, <5>3
          <6>2. Tail(todo)[j - 1] = Action(who)
            BY <2>0, <5>1, <5>3, <6>1
          <6> QED
            BY <6>1, <6>2
        <5> QED
          BY <5>2, <5>3
      <4> QED
        BY <3>0, <3>2, <4>1, <4>2 DEF DecisionToDo
    <3>3. ASSUME verb[who] = "redacted_resumed",
                 NEW i \in DOMAIN todo, todo[i].table = "admin_actions"
          PROVE  \/ who \in seen'.redactions /\ who \in durable'.redactions
                 \/ \E j \in 1 .. i - 2 : Tail(todo)[j] = Redaction(who)
      <4>1. CASE who \in seen.redactions /\ who \in durable.redactions
        BY <1>4, <4>1
      <4>2. CASE \E j \in 1 .. i - 1 : todo[j] = Redaction(who)
        <5>1. PICK j \in 1 .. i - 1 : todo[j] = Redaction(who)
          BY <4>2
        <5>2. CASE j = 1
          BY <1>4, <2>0, <5>1, <5>2 DEF Redaction
        <5>3. CASE j # 1
          <6>1. j \in DOMAIN todo /\ j - 1 \in 1 .. i - 2
            BY <3>0, <5>1, <5>3
          <6>2. Tail(todo)[j - 1] = Redaction(who)
            BY <2>0, <5>1, <5>3, <6>1
          <6> QED
            BY <6>1, <6>2
        <5> QED
          BY <5>2, <5>3
      <4> QED
        BY <3>0, <3>3, <4>1, <4>2 DEF DecisionToDo
    <3>4. \A i \in DOMAIN Tail(todo) : Tail(todo)[i].table = "resolve" =>
              \/ who \in seen'.actions /\ who \in durable'.actions
              \/ \E j \in 1 .. i - 1 : Tail(todo)[j] = Action(who)
      <4> TAKE i \in DOMAIN Tail(todo)
      <4>1. i + 1 \in DOMAIN todo /\ Tail(todo)[i] = todo[i + 1] /\ (i + 1) - 2 = i - 1
        BY <2>0, <3>0
      <4> QED
        BY <3>2, <4>1
    <3>5. verb[who] = "redacted_resumed" =>
              \A i \in DOMAIN Tail(todo) : Tail(todo)[i].table = "admin_actions" =>
                  \/ who \in seen'.redactions /\ who \in durable'.redactions
                  \/ \E j \in 1 .. i - 1 : Tail(todo)[j] = Redaction(who)
      <4> HAVE verb[who] = "redacted_resumed"
      <4> TAKE i \in DOMAIN Tail(todo)
      <4>1. i + 1 \in DOMAIN todo /\ Tail(todo)[i] = todo[i + 1] /\ (i + 1) - 2 = i - 1
        BY <2>0, <3>0
      <4> QED
        BY <3>3, <4>1
    <3>6. IF Tail(todo) = << >>
          THEN /\ seen' = durable' /\ who \in seen'.actions
               /\ seen'.status[target[who]] = verb[who]
          ELSE Tail(todo)[Len(Tail(todo))] = Resolution(who)
      <4>1. CASE Tail(todo) = << >>
        <5>1. todo[1] = Resolution(who) /\ todo[1].table = "resolve" /\ Head(todo) = todo[1]
          BY <2>0, <3>1, <4>1 DEF Resolution
        <5>2. who \in seen.actions /\ who \in durable.actions
          BY <2>0, <3>0, <5>1 DEF DecisionToDo
        <5> QED
          BY <1>4, <4>1, <5>1, <5>2
      <4>2. CASE Tail(todo) # << >>
        BY <2>0, <3>1, <4>2
      <4> QED
        BY <4>1, <4>2
    <3> QED
      BY <1>4, <3>4, <3>5, <3>6 DEF DecisionToDo
  <2> QED
    BY <1>4, <2>1, <2>2, <2>3 DEF ToDo
<1>5. CASE Written
  <2>1. todo # << >> /\ seen' = Apply(seen, Head(todo)) /\ durable' = seen'
        /\ todo' = Tail(todo)
        /\ UNCHANGED <<verb, target, who, next>>
    BY <1>5 DEF Written, localVars
  <2>2. /\ who \in seen.actions => who \in seen'.actions
        /\ who \in seen.redactions => who \in seen'.redactions
        /\ Head(todo).table = "admin_actions" => who \in seen'.actions
        /\ Head(todo).table = "redactions" => who \in seen'.redactions
    BY <2>1, HeadEffect
  <2>3. Head(todo).table = "approval_requests" => seen'.status[who] = "pending"
    <3> SUFFICES ASSUME Head(todo).table = "approval_requests"
                 PROVE  seen'.status[who] = "pending"
      OBVIOUS
    <3>1. who \in Chat
      BY <2>1, Running DEF Write
    <3> QED
      BY <2>1, <3>1, HeadEffect
  <2>4. Head(todo).table = "resolve" => seen'.status[target[who]] = verb[who]
    <3> SUFFICES ASSUME Head(todo).table = "resolve"
                 PROVE  seen'.status[target[who]] = verb[who]
      OBVIOUS
    <3>1. target[who] \in Chat
      BY <2>1, Running
    <3> QED
      BY <2>1, <3>1, HeadEffect
  <2> QED
    BY <1>4, <2>1, <2>2, <2>3, <2>4
<1>6. CASE Refused \/ Faulted
  <2>1. /\ todo # << >> /\ seen' \in {seen, durable, Apply(seen, Head(todo))}
        /\ durable' = durable /\ UNCHANGED <<verb, target>> /\ Fail
    BY <1>6, FaultEffect DEF Fail, localVars
  <2>2. CASE Head(todo).table = "events"
    <3>1. todo' = Tail(todo) /\ UNCHANGED <<who, next>>
      BY <2>1, <2>2 DEF Fail
    <3>2. /\ who \in seen.actions /\ who \in durable.actions =>
                 who \in seen'.actions /\ who \in durable'.actions
          /\ who \in seen.redactions /\ who \in durable.redactions =>
                 who \in seen'.redactions /\ who \in durable'.redactions
      BY <2>1, HeadEffect
    <3> QED
      BY <1>4, <2>1, <2>2, <3>1, <3>2
  <2>3. CASE Head(todo).table # "events"
    BY <1>3, <2>1, <2>3 DEF Fail
  <2> QED
    BY <2>2, <2>3
<1>7. ASSUME \/ \E c \in Chat : ChatEnds(c)
             \/ \E d \in Admin : AdminEnds(d)
             \/ Finish \/ Crash
      PROVE  who' = None
  BY <1>7 DEF ChatEnds, AdminEnds, AdminEnd, End, runVars, Finish, Crash
<1>8. CASE UNCHANGED vars
  BY <1>8 DEF vars, localVars, runVars, ToDo, HoldToDo, DecisionToDo
<1> QED
  BY <1>1, <1>2, <1>3, <1>5, <1>6, <1>7, <1>8, Steps

LEMMA ToDoInit == Init => ToDo
<1> SUFFICES ASSUME Init PROVE ToDo
  OBVIOUS
<1>1. who \notin Chat /\ who \notin Admin
  BY HandlerAssumption DEF Init
<1> QED
  BY <1>1 DEF ToDo

-----------------------------------------------------------------------------
(* What the rows of the tables rest on                                       *)

(* In a table that db holds: an approval row is of a request that is held,   *)
(* failed or lost, or about to be held, and has its event; a decided status  *)
(* has its action, and the action of a redact-resume its redactions row.     *)
Backed(db) ==
    /\ \A c \in Chat : db.status[c] # "none" =>
           /\ Where(c) \in Held \cup {"error", "lost"}
           /\ HeldEvent(c) \in db.events
    /\ \A d \in db.actions :
           /\ pc[d] \in {"running", "done", "error", "lost"}
           /\ verb[d] = "redacted_resumed" => d \in db.redactions
    /\ \A c \in Chat : db.status[c] \in Verb =>
           \E d \in db.actions : target[d] = c /\ verb[d] = db.status[c]
    /\ \A c \in Chat : pc[c] \in Held => db.status[c] # "none"

(* Where a handler moves, and when its locals change.                        *)
ChatMove(c) ==
    /\ Where(c) \in Held \cup {"error", "lost"} =>
           /\ Where(c)' \in Held \cup {"error", "lost"}
           /\ turn'[c] = turn[c] /\ side'[c] = side[c]
    /\ pc'[c] \in Held => pc[c] = pc'[c] \/ (Finish /\ who = c /\ next \in Held)
    /\ pc[c] \in Held => pc'[c] = pc[c]

AdminMove(d) ==
    /\ pc[d] \in {"running", "done", "error", "lost"} =>
           /\ pc'[d] \in {"running", "done", "error", "lost"}
           /\ verb'[d] = verb[d] /\ target'[d] = target[d]
    /\ pc'[d] = "done" => pc[d] = "done" \/ (Finish /\ who = d)
    /\ pc[d] = "done" => pc'[d] = "done"

LEMMA ChatMoves ==
    ASSUME TypeOK, Places, [Next]_vars, NEW c \in Chat
    PROVE  ChatMove(c)
<1>0. /\ None \notin Handler /\ c \notin Admin /\ pc \in [Handler -> Place]
      /\ pc[c] = "running" <=> who = c
      /\ Where(c) \in ChatPlace
  BY HandlerAssumption DEF TypeOK, Places
<1>1. ASSUME pc'[c] = pc[c], Where(c)' = Where(c), side'[c] = side[c], turn'[c] = turn[c]
      PROVE  ChatMove(c)
  BY <1>1 DEF ChatMove
<1>2. ASSUME pc[c] \notin Held, Where(c) \notin Held \cup {"error", "lost"},
             pc'[c] \notin Held
      PROVE  ChatMove(c)
  BY <1>2 DEF ChatMove
<1>3. CASE \E k \in Chat : ChatRuns(k)
  <2>1. PICK k, from, s, to : k \in Chat /\ ChatRun(k, from, s, to)
    BY <1>3 DEF ChatRuns
  <2>2. who = None /\ pc[k] = from /\ pc' = [pc EXCEPT ![k] = "running"] /\ who' = k
        /\ from \in {"idle", "classify_prompt", "generate", "classify_response"}
    BY <2>1 DEF ChatRun, Run
  <2>3. CASE k = c
    BY <1>0, <1>2, <2>2, <2>3 DEF Where, Held
  <2>4. CASE k # c
    BY <1>0, <1>1, <2>1, <2>2, <2>4 DEF ChatRun, Where
  <2> QED
    BY <2>3, <2>4
<1>4. CASE \E k \in Chat : ChatEnds(k)
  <2>1. PICK k \in Chat, from \in {"classify_prompt", "generate", "classify_response"} :
            End(k, from, "error") /\ UNCHANGED <<turn, side>>
    BY <1>4 DEF ChatEnds, localVars
  <2>2. who = None /\ pc[k] = from /\ pc' = [pc EXCEPT ![k] = "error"] /\ who' = who
    BY <2>1 DEF End, runVars
  <2>3. CASE k = c
    BY <1>0, <1>2, <2>2, <2>3 DEF Where, Held
  <2>4. CASE k # c
    BY <1>0, <1>1, <2>1, <2>2, <2>4 DEF Where
  <2> QED
    BY <2>3, <2>4
<1>5. CASE \E d \in Admin : AdminRuns(d)
  <2>1. PICK d, from, s : d \in Admin /\ AdminRun(d, from, s)
    BY <1>5 DEF AdminRuns
  <2> QED
    BY <1>0, <1>1, <2>1 DEF AdminRun, Run, Where
<1>6. CASE \E d \in Admin : AdminEnds(d)
  <2>1. PICK d, from, to : d \in Admin /\ AdminEnd(d, from, to)
    BY <1>6 DEF AdminEnds
  <2> QED
    BY <1>0, <1>1, <2>1 DEF AdminEnd, End, runVars, Where
<1>7. CASE Written
  BY <1>1, <1>7 DEF Written, localVars, Where
<1>8. CASE Refused \/ Faulted
  <2>1. Fail /\ todo # << >>
    BY <1>8, FaultEffect
  <2>2. UNCHANGED <<turn, side>>
    BY <2>1 DEF Fail, localVars
  <2>3. CASE UNCHANGED <<pc, who, next>>
    BY <1>1, <2>2, <2>3 DEF Where
  <2>4. CASE pc' = [pc EXCEPT ![who] = "error"] /\ who' = None
    <3>1. who \in Handler /\ pc[who] = "running"
      BY <2>1, Running
    <3>2. CASE who = c
      BY <1>0, <2>2, <2>4, <3>1, <3>2 DEF Where, ChatMove, Held
    <3>3. CASE who # c
      BY <1>0, <1>1, <2>2, <2>4, <3>1, <3>3 DEF Where
    <3> QED
      BY <3>2, <3>3
  <2> QED
    BY <2>1, <2>3, <2>4 DEF Fail
<1>9. CASE Finish
  <2>1. who \in Handler /\ pc[who] = "running" /\ pc' = [pc EXCEPT ![who] = next]
        /\ who' = None /\ UNCHANGED <<turn, side>>
    BY <1>0, <1>9 DEF Finish, localVars, TypeOK
  <2>2. CASE who = c
    BY <1>0, <1>9, <2>1, <2>2 DEF Where, ChatMove, Held
  <2>3. CASE who # c
    BY <1>0, <1>1, <2>1, <2>3 DEF Where
  <2> QED
    BY <2>2, <2>3
<1>10. CASE Crash
  <2>1. /\ pc'[c] = IF pc[c] \in Interrupted THEN "lost" ELSE pc[c]
        /\ who' = None /\ UNCHANGED <<turn, side>>
    BY <1>10 DEF Crash, localVars
  <2>2. Where(c)' = pc'[c]
    BY <1>0, <2>1 DEF Where
  <2>3. CASE pc[c] \in Interrupted
    BY <2>1, <2>2, <2>3 DEF ChatMove, Interrupted, Held
  <2>4. CASE pc[c] \notin Interrupted
    BY <1>0, <1>1, <2>1, <2>2, <2>4 DEF Interrupted, Where
  <2> QED
    BY <2>3, <2>4
<1>11. CASE UNCHANGED vars
  BY <1>1, <1>11 DEF vars, localVars, runVars, Where
<1> QED
  BY <1>3, <1>4, <1>5, <1>6, <1>7, <1>8, <1>9, <1>10, <1>11, Steps

LEMMA AdminMoves ==
    ASSUME TypeOK, Places, [Next]_vars, NEW d \in Admin
    PROVE  AdminMove(d)
<1>0. /\ None \notin Handler /\ d \notin Chat /\ pc \in [Handler -> Place]
      /\ pc[d] = "running" <=> who = d
      /\ who = d => next = "done"
  BY HandlerAssumption DEF TypeOK, Places
<1>1. ASSUME pc'[d] = pc[d], verb'[d] = verb[d], target'[d] = target[d]
      PROVE  AdminMove(d)
  BY <1>1 DEF AdminMove
<1>2. CASE \E c \in Chat : ChatRuns(c) \/ ChatEnds(c)
  <2>1. PICK c \in Chat : ChatRuns(c) \/ ChatEnds(c)
    BY <1>2
  <2>2. c # d
    BY <1>0
  <2>3. CASE ChatRuns(c)
    <3>1. PICK from, s, to : ChatRun(c, from, s, to)
      BY <2>3 DEF ChatRuns
    <3> QED
      BY <1>0, <1>1, <2>2, <3>1 DEF ChatRun, Run
  <2>4. CASE ChatEnds(c)
    BY <1>0, <1>1, <2>2, <2>4 DEF ChatEnds, End, localVars
  <2> QED
    BY <2>1, <2>3, <2>4
<1>3. CASE \E e \in Admin : AdminRuns(e)
  <2>1. PICK e, from, s : e \in Admin /\ AdminRun(e, from, s)
    BY <1>3 DEF AdminRuns
  <2>2. pc[e] \in {"idle", "generate"} /\ pc' = [pc EXCEPT ![e] = "running"]
    BY <2>1 DEF AdminRun, Run
  <2>3. CASE e = d
    BY <1>0, <2>2, <2>3 DEF AdminMove
  <2>4. CASE e # d
    BY <1>0, <1>1, <2>1, <2>2, <2>4 DEF AdminRun
  <2> QED
    BY <2>3, <2>4
<1>4. CASE \E e \in Admin : AdminEnds(e)
  <2>1. PICK e, from, to : e \in Admin /\ AdminEnd(e, from, to)
    BY <1>4 DEF AdminEnds
  <2>2. pc[e] \in {"idle", "generate"} /\ pc' = [pc EXCEPT ![e] = to] /\ to # "done"
    BY <2>1 DEF AdminEnd, End
  <2>3. CASE e = d
    BY <1>0, <2>2, <2>3 DEF AdminMove
  <2>4. CASE e # d
    BY <1>0, <1>1, <2>1, <2>2, <2>4 DEF AdminEnd
  <2> QED
    BY <2>3, <2>4
<1>5. CASE Written
  BY <1>1, <1>5 DEF Written, localVars
<1>6. CASE Refused \/ Faulted
  <2>1. Fail /\ todo # << >>
    BY <1>6, FaultEffect
  <2>2. who \in Handler /\ pc[who] = "running" /\ UNCHANGED <<verb, target>>
    BY <2>1, Running DEF Fail, localVars
  <2>3. CASE UNCHANGED pc
    BY <1>1, <2>2, <2>3
  <2>4. CASE pc' = [pc EXCEPT ![who] = "error"]
    BY <1>0, <2>2, <2>4 DEF AdminMove
  <2> QED
    BY <2>1, <2>3, <2>4 DEF Fail
<1>7. CASE Finish
  <2>1. who \in Handler /\ pc[who] = "running" /\ pc' = [pc EXCEPT ![who] = next]
        /\ UNCHANGED <<verb, target>>
    BY <1>0, <1>7 DEF Finish, localVars, TypeOK
  <2> QED
    BY <1>0, <1>7, <2>1 DEF AdminMove
<1>8. CASE Crash
  <2>1. /\ pc'[d] = IF pc[d] \in Interrupted THEN "lost" ELSE pc[d]
        /\ UNCHANGED <<verb, target>>
    BY <1>8 DEF Crash, localVars
  <2> QED
    BY <2>1 DEF AdminMove, Interrupted
<1>9. CASE UNCHANGED vars
  BY <1>1, <1>9 DEF vars, localVars
<1> QED
  BY <1>2, <1>3, <1>4, <1>5, <1>6, <1>7, <1>8, <1>9, Steps

(* The first write of a handler rests on rows that are there.                *)
LEMMA BackedApply ==
    ASSUME TypeOK, Places, ToDo, todo # << >>, Accepts(seen, Head(todo)), Backed(seen)
    PROVE  Backed(Apply(seen, Head(todo)))
<1> DEFINE w == Head(todo)
           db == Apply(seen, w)
<1>0. /\ seen.events \subseteq db.events
      /\ db.actions = seen.actions \cup (IF w.table = "admin_actions" THEN {who} ELSE {})
      /\ db.redactions = seen.redactions \cup (IF w.table = "redactions" THEN {who} ELSE {})
      /\ \A a \in Chat : db.status[a] =
             IF w.table = "approval_requests" /\ who = a THEN "pending"
             ELSE IF w.table = "resolve" /\ target[who] = a THEN verb[who]
             ELSE seen.status[a]
  BY HeadEffect
<1>1. /\ who \in Handler /\ pc[who] = "running" /\ w \in Write /\ w = todo[1]
      /\ 1 \in DOMAIN todo
      /\ w.table \notin {"messages", "events"} => w.row = who
  <2>1. Own(who, todo)
    BY Running
  <2>2. Head(todo) = todo[1]
    BY <2>1, TailFacts
  <2>3. 1 \in DOMAIN todo
    BY <2>1 DEF Own
  <2> QED
    BY <2>2, <2>3, Running
<1>2. w.table = "approval_requests" => who \in Chat
  BY <1>1 DEF Write
<1>3. w.table \in {"admin_actions", "redactions", "resolve"} => who \in Admin
  BY <1>1 DEF Write
<1>4. w.table = "approval_requests" =>
          Where(who) \in Held /\ HeldEvent(who) \in seen.events
  BY <1>1, <1>2 DEF ToDo, Accepts, Where
<1>5. w.table = "admin_actions" /\ verb[who] = "redacted_resumed" => who \in seen.redactions
  BY <1>1, <1>3 DEF ToDo, DecisionToDo
<1>6. w.table = "resolve" =>
          /\ who \in seen.actions /\ target[who] \in Chat /\ verb[who] \in Verb
          /\ pc[target[who]] \in Held
  <2> SUFFICES ASSUME w.table = "resolve"
               PROVE  /\ who \in seen.actions /\ target[who] \in Chat
                      /\ verb[who] \in Verb /\ pc[target[who]] \in Held
    OBVIOUS
  <2>1. who \in Admin
    BY <1>3
  <2>2. verb[who] \in Verb /\ target[who] \in Chat
    BY <1>1, <2>1 DEF TypeOK
  <2>3. pc[target[who]] \in Held
    BY <1>1, <2>1 DEF Places
  <2>4. who \in seen.actions
    BY <1>1, <2>1 DEF ToDo, DecisionToDo
  <2> QED
    BY <2>2, <2>3, <2>4
<1> HIDE DEF w, db
<1>7. ASSUME NEW c \in Chat, db.status[c] # "none"
      PROVE  Where(c) \in Held \cup {"error", "lost"} /\ HeldEvent(c) \in db.events
  <2>1. CASE w.table = "approval_requests" /\ who = c
    BY <1>0, <1>4, <2>1
  <2>2. CASE w.table = "resolve" /\ target[who] = c
    BY <1>0, <1>6, <2>2 DEF Backed
  <2>3. CASE db.status[c] = seen.status[c]
    BY <1>0, <1>7, <2>3 DEF Backed
  <2> QED
    BY <1>0, <2>1, <2>2, <2>3
<1>8. ASSUME NEW d \in db.actions
      PROVE  /\ pc[d] \in {"running", "done", "error", "lost"}
             /\ verb[d] = "redacted_resumed" => d \in db.redactions
  <2>1. CASE d \in seen.actions
    BY <1>0, <2>1 DEF Backed
  <2>2. CASE w.table = "admin_actions" /\ d = who
    BY <1>0, <1>1, <1>5, <2>2
  <2> QED
    BY <1>0, <1>8, <2>1, <2>2
<1>9. ASSUME NEW c \in Chat, db.status[c] \in Verb
      PROVE  \E d \in db.actions : target[d] = c /\ verb[d] = db.status[c]
  <2>1. CASE w.table = "resolve" /\ target[who] = c
    BY <1>0, <1>6, <2>1
  <2>2. CASE db.status[c] = seen.status[c]
    <3>1. PICK d \in seen.actions : target[d] = c /\ verb[d] = seen.status[c]
      BY <1>9, <2>2 DEF Backed
    <3> QED
      BY <1>0, <2>2, <3>1
  <2>3. "pending" \notin Verb
    BY DEF Verb, Releasing
  <2> QED
    BY <1>0, <1>9, <2>1, <2>2, <2>3
<1>10. ASSUME NEW c \in Chat, pc[c] \in Held
       PROVE  db.status[c] # "none"
  BY <1>0, <1>6, <1>10 DEF Backed, Verb, Releasing
<1> QED
  BY <1>7, <1>8, <1>9, <1>10 DEF Backed, db, w

(* Rows that rest on others still do after any step.                         *)
LEMMA BackedKept ==
    ASSUME TypeOK, Places, [Next]_vars, NEW db \in Database, Backed(db),
           Finish /\ who \in Chat /\ next \in Held => db.status[who] # "none"
    PROVE  Backed(db)'
<1>1. ASSUME NEW c \in Chat, db.status[c] # "none"
      PROVE  /\ Where(c)' \in Held \cup {"error", "lost"}
             /\ HeldEvent(c)' = HeldEvent(c)
  <2>1. ChatMove(c) /\ Where(c) \in Held \cup {"error", "lost"}
    BY <1>1, ChatMoves DEF Backed
  <2>2. turn'[c] = turn[c] /\ side'[c] = side[c]
        /\ Where(c)' \in Held \cup {"error", "lost"}
    BY <2>1 DEF ChatMove
  <2> QED
    BY <2>2 DEF HeldEvent, Anchor, HeldType, PromptMsg, ResponseMsg
<1>2. ASSUME NEW d \in db.actions
      PROVE  /\ pc'[d] \in {"running", "done", "error", "lost"}
             /\ verb'[d] = verb[d] /\ target'[d] = target[d]
  <2>1. d \in Admin /\ pc[d] \in {"running", "done", "error", "lost"}
    BY DEF Backed, Database
  <2> QED
    BY <2>1, AdminMoves DEF AdminMove
<1>3. ASSUME NEW c \in Chat, pc'[c] \in Held
      PROVE  db.status[c] # "none"
  BY <1>3, ChatMoves DEF ChatMove, Backed
<1> QED
  BY <1>1, <1>2, <1>3 DEF Backed

LEMMA BackedStep ==
    ASSUME TypeOK, Places, ToDo, Backed(seen), Backed(durable), [Next]_vars
    PROVE  Backed(seen)' /\ Backed(durable)'
<1>1. seen' \in Database /\ durable' \in Database
  BY TypeStep DEF TypeOK
<1>2. Backed(seen') /\ Backed(durable')
  <2>1. CASE Written
    BY <2>1, BackedApply DEF Written
  <2>2. CASE Refused \/ Faulted
    <3>1. /\ todo # << >> /\ durable' = durable
          /\ \/ seen' = seen \/ seen' = durable
             \/ seen' = Apply(seen, Head(todo)) /\ Accepts(seen, Head(todo))
      BY <2>2, FaultEffect
    <3> QED
      BY <3>1, BackedApply
  <2>3. CASE UNCHANGED <<seen, durable>>
    BY <2>3
  <2>4. CASE Crash
    BY <2>4 DEF Crash
  <2>5. CASE Finish
    BY <2>3, <2>5 DEF Finish
  <2>6. CASE \E c \in Chat : ChatRuns(c) \/ ChatEnds(c)
    BY <2>3, <2>6 DEF ChatRuns, ChatRun, Run, ChatEnds, End
  <2>7. CASE \E d \in Admin : AdminRuns(d) \/ AdminEnds(d)
    BY <2>3, <2>7 DEF AdminRuns, AdminRun, Run, AdminEnds, AdminEnd, End
  <2>8. CASE UNCHANGED vars
    BY <2>3, <2>8 DEF vars
  <2> QED
    BY <2>1, <2>2, <2>4, <2>5, <2>6, <2>7, <2>8, Steps
<1>3. Finish /\ who \in Chat /\ next \in Held =>
          seen'.status[who] # "none" /\ durable'.status[who] # "none"
  BY DEF Finish, ToDo, HoldToDo
<1>4. PICK new \in Database : new = seen'
  BY <1>1
<1>5. PICK old \in Database : old = durable'
  BY <1>1
<1>6. Backed(new)' /\ Backed(old)'
  BY <1>2, <1>3, <1>4, <1>5, BackedKept
<1> QED
  BY <1>4, <1>5, <1>6 DEF Backed

LEMMA BackedInit == Init => Backed(seen) /\ Backed(durable)
<1> SUFFICES ASSUME Init PROVE Backed(seen) /\ Backed(durable)
  OBVIOUS
<1>1. /\ \A c \in Chat : pc[c] = "idle" /\ seen.status[c] = "none"
      /\ seen.actions = {} /\ durable = seen
  BY DEF Init
<1>2. "none" \notin Verb /\ "idle" \notin Held
  BY DEF Verb, Releasing, Held
<1> QED
  BY <1>1, <1>2 DEF Backed

-----------------------------------------------------------------------------
(* What a decision that was answered leaves behind                           *)

(* Its action and a decided status are there for good; if it resolved the    *)
(* approval, the row stays resolved and the context is gone.                 *)
Settled ==
    \A d \in Admin : pc[d] = "done" =>
        /\ d \in seen.actions /\ d \in durable.actions
        /\ seen.status[target[d]] \in Verb /\ durable.status[target[d]] \in Verb
        /\ verb[d] \in Resolved =>
               /\ seen.status[target[d]] \in Resolved
               /\ durable.status[target[d]] \in Resolved
               /\ target[d] \notin pending

(* A held request has its context, unless a crash or a decision took it.     *)
Decidable ==
    \A c \in Chat : pc[c] \in Held =>
        \/ c \in pending \cup orphaned
        \/ \E d \in Admin : pc[d] = "done" /\ target[d] = c /\ verb[d] \in Resolved

(* Nothing in the open transaction is about a reply that is settled.         *)
Agreed ==
    \A c \in Chat : pc[c] = "held_response" /\ c \notin pending =>
        seen.status[c] = durable.status[c]

LEMMA VerbFacts ==
    /\ Resolved = Verb \ {"escalated"}
    /\ Releasing \subseteq Resolved /\ "rejected" \in Resolved
    /\ Resolved \subseteq Verb /\ Verb \subseteq Queued /\ "pending" \in Queued
    /\ "escalated" \notin Resolved /\ "none" \notin Queued
  BY DEF Resolved, Open, Queued, Verb, Releasing

(* The only statement about the row of a held request is the update of the   *)
(* decision that runs.                                                       *)
LEMMA StatusKept ==
    ASSUME TypeOK, Places, todo # << >>, NEW c \in Chat, pc[c] \in Held
    PROVE  \/ Apply(seen, Head(todo)).status[c] = seen.status[c]
           \/ /\ who \in Admin /\ target[who] = c /\ verb[who] \in Verb
              /\ pc[who] = "running"
              /\ Apply(seen, Head(todo)).status[c] = verb[who]
<1>1. who # c
  BY DEF TypeOK, Held
<1>2. ASSUME Head(todo).table = "resolve"
      PROVE  who \in Admin /\ verb[who] \in Verb /\ pc[who] = "running"
  <2>1. Head(todo).row \in Admin
    BY <1>2, Running DEF Write
  <2> QED
    BY <1>2, <2>1, Running
<1> QED
  BY <1>1, <1>2, HeadEffect

(* The actions of a table are never deleted by a write.                      *)
LEMMA ActionsKept ==
    ASSUME TypeOK, Places, todo # << >>
    PROVE  seen.actions \subseteq Apply(seen, Head(todo)).actions
  BY HeadEffect

(* The tables after any step.                                                *)
LEMMA TablesStep ==
    ASSUME TypeOK, Places, [Next]_vars
    PROVE  \/ UNCHANGED <<seen, durable>>
           \/ /\ todo # << >> /\ UNCHANGED <<pending, orphaned, verb, target>>
              /\ seen' \in {seen, durable, Apply(seen, Head(todo))}
              /\ \/ durable' = durable
                 \/ seen' = Apply(seen, Head(todo)) /\ durable' = seen'
           \/ Crash
<1>1. CASE Written
  BY <1>1 DEF Written, localVars
<1>2. CASE Refused \/ Faulted
  BY <1>2, FaultEffect DEF Fail, localVars
<1>3. CASE Finish
  BY <1>3 DEF Finish
<1>4. CASE \E c \in Chat : ChatRuns(c) \/ ChatEnds(c)
  BY <1>4 DEF ChatRuns, ChatRun, Run, ChatEnds, End
<1>5. CASE \E d \in Admin : AdminRuns(d) \/ AdminEnds(d)
  BY <1>5 DEF AdminRuns, AdminRun, Run, AdminEnds, AdminEnd, End
<1>6. CASE UNCHANGED vars
  BY <1>6 DEF vars
<1> QED
  BY <1>1, <1>2, <1>3, <1>4, <1>5, <1>6, Steps

(* A running decision that resolves a settled approval cannot be: it has     *)
(* found the context.                                                        *)
LEMMA RunningDecision ==
    ASSUME TypeOK, Places, Settled, NEW d \in Admin, pc[d] = "running",
           NEW e \in Admin, pc[e] = "done", target[e] = target[d], verb[e] \in Resolved
    PROVE  verb[d] \in Releasing /\ pc[target[d]] = "held_prompt"
<1>1. target[d] \notin pending
  BY DEF Settled
<1>2. verb[d] \in Releasing /\ pc[target[d]] # "held_response"
  BY <1>1 DEF Places
<1>3. pc[target[d]] \in Held
  BY DEF Places
<1> QED
  BY <1>2, <1>3 DEF Held

LEMMA SettledStep ==
    ASSUME TypeOK, Places, ToDo, Settled, [Next]_vars
    PROVE  Settled'
<1> SUFFICES ASSUME NEW d \in Admin, pc'[d] = "done"
             PROVE  /\ d \in seen'.actions /\ d \in durable'.actions
                    /\ seen'.status[target'[d]] \in Verb
                    /\ durable'.status[target'[d]] \in Verb
                    /\ verb'[d] \in Resolved =>
                           /\ seen'.status[target'[d]] \in Resolved
                           /\ durable'.status[target'[d]] \in Resolved
                           /\ target'[d] \notin pending'
  BY DEF Settled
<1> USE VerbFacts
<1>1. verb'[d] = verb[d] /\ target'[d] = target[d] /\ (pc[d] = "done" \/ (Finish /\ who = d))
  <2>1. pc[d] = "done" \/ (Finish /\ who = d)
    BY AdminMoves DEF AdminMove
  <2>2. CASE pc[d] = "done"
    BY <2>2, AdminMoves DEF AdminMove
  <2>3. CASE Finish
    BY <2>1, <2>3 DEF Finish, localVars
  <2> QED
    BY <2>1, <2>2, <2>3
<1>2. CASE pc[d] # "done"
  <2>1. Finish /\ who = d /\ pc[d] = "running" /\ verb[d] \in Verb
    BY <1>1, <1>2 DEF TypeOK
  <2>2. /\ d \in seen.actions /\ seen = durable
        /\ seen.status[target[d]] = verb[d]
    BY <2>1 DEF Finish, ToDo, DecisionToDo
  <2>3. UNCHANGED <<seen, durable>>
    BY <2>1 DEF Finish
  <2>4. verb[d] \in Resolved => target[d] \notin pending'
    BY <2>1 DEF Finish, Popped
  <2> QED
    BY <1>1, <2>1, <2>2, <2>3, <2>4
<1>3. CASE pc[d] = "done"
  <2>1. /\ d \in seen.actions /\ d \in durable.actions
        /\ seen.status[target[d]] \in Verb /\ durable.status[target[d]] \in Verb
        /\ verb[d] \in Resolved =>
               /\ seen.status[target[d]] \in Resolved
               /\ durable.status[target[d]] \in Resolved
               /\ target[d] \notin pending
    BY <1>3 DEF Settled
  <2>2. target[d] \in Chat /\ pc[target[d]] \in Held
    BY <1>3 DEF TypeOK, Places
  <2>3. verb[d] \in Resolved => target[d] \notin pending'
    <3> SUFFICES ASSUME verb[d] \in Resolved PROVE target[d] \notin pending'
      OBVIOUS
    <3>1. CASE Finish
      <4>1. pending' \subseteq pending \cup Opened(who)
        BY <3>1 DEF Finish
      <4>2. CASE who = target[d]
        BY <2>2, <4>2 DEF TypeOK, Held
      <4>3. CASE who # target[d]
        BY <2>1, <4>1, <4>3 DEF Opened
      <4> QED
        BY <4>2, <4>3
    <3>2. CASE ~Finish
      <4>1. pending' = pending \/ pending' = {}
        <5>1. CASE \E c \in Chat : ChatRuns(c) \/ ChatEnds(c)
          BY <5>1 DEF ChatRuns, ChatRun, Run, ChatEnds, End
        <5>2. CASE \E e \in Admin : AdminRuns(e) \/ AdminEnds(e)
          BY <5>2 DEF AdminRuns, AdminRun, Run, AdminEnds, AdminEnd, End
        <5>3. CASE Written \/ Refused \/ Faulted \/ Crash
          BY <5>3 DEF Written, Refused, Faulted, Fail, Crash
        <5> QED
          BY <3>2, <5>1, <5>2, <5>3, Steps DEF vars
      <4> QED
        BY <2>1, <4>1
    <3> QED
      BY <3>1, <3>2
  <2>4. CASE UNCHANGED <<seen, durable>>
    BY <1>1, <2>1, <2>3, <2>4
  <2>5. CASE Crash
    BY <1>1, <2>1, <2>3, <2>5 DEF Crash
  <2>6. CASE /\ todo # << >>
             /\ seen' \in {seen, durable, Apply(seen, Head(todo))}
             /\ \/ durable' = durable
                \/ seen' = Apply(seen, Head(todo)) /\ durable' = seen'
    <3> DEFINE db == Apply(seen, Head(todo))
    <3>1. d \in db.actions
      BY <2>1, <2>6, ActionsKept
    <3>2. db.status[target[d]] \in Verb
          /\ (verb[d] \in Resolved => db.status[target[d]] \in Resolved)
      <4>1. CASE db.status[target[d]] = seen.status[target[d]]
        BY <2>1, <4>1
      <4>2. CASE /\ who \in Admin /\ target[who] = target[d] /\ verb[who] \in Verb
                 /\ pc[who] = "running" /\ db.status[target[d]] = verb[who]
        BY <1>3, <4>2, RunningDecision
      <4> HIDE DEF db
      <4>3. \/ db.status[target[d]] = seen.status[target[d]]
            \/ /\ who \in Admin /\ target[who] = target[d] /\ verb[who] \in Verb
               /\ pc[who] = "running" /\ db.status[target[d]] = verb[who]
        BY <2>2, <2>6, StatusKept DEF db
      <4> QED
        BY <4>1, <4>2, <4>3
    <3> HIDE DEF db
    <3>3. /\ seen' \in {seen, durable, db}
          /\ durable' = durable \/ durable' = db
      BY <2>6 DEF db
    <3> QED
      BY <1>1, <2>1, <2>3, <3>1, <3>2, <3>3
  <2> QED
    BY <2>4, <2>5, <2>6, TablesStep
<1> QED
  BY <1>2, <1>3

LEMMA DecidableStep ==
    ASSUME TypeOK, Places, Decidable, [Next]_vars
    PROVE  Decidable'
<1> SUFFICES ASSUME NEW c \in Chat, pc'[c] \in Held
             PROVE  \/ c \in pending' \cup orphaned'
                    \/ \E d \in Admin : /\ pc'[d] = "done" /\ target'[d] = c
                                        /\ verb'[d] \in Resolved
  BY DEF Decidable
<1>1. ASSUME NEW d \in Admin, pc[d] = "done", target[d] = c, verb[d] \in Resolved
      PROVE  pc'[d] = "done" /\ target'[d] = c /\ verb'[d] \in Resolved
  BY <1>1, AdminMoves DEF AdminMove
<1>2. CASE pc[c] \notin Held
  <2>1. Finish /\ who = c /\ next \in Held
    BY <1>2, ChatMoves DEF ChatMove
  <2>2. c \notin Admin
    BY HandlerAssumption
  <2> QED
    BY <2>1, <2>2 DEF Finish, Opened, Popped, Held
<1>3. CASE pc[c] \in Held
  <2>1. CASE \E d \in Admin : pc[d] = "done" /\ target[d] = c /\ verb[d] \in Resolved
    BY <1>1, <2>1
  <2>2. CASE c \in pending \cup orphaned
    <3>1. CASE Finish
      <4>1. CASE who \in Admin /\ c = target[who] /\ verb[who] # "escalated"
        <5>1. pc[who] = "running" /\ verb[who] \in Verb /\ next = "done"
          BY <4>1 DEF TypeOK, Places
        <5>2. verb[who] \in Resolved
          BY <4>1, <5>1, VerbFacts
        <5> QED
          BY <3>1, <4>1, <5>1, <5>2 DEF Finish, TypeOK, localVars
      <4>2. CASE ~(who \in Admin /\ c = target[who] /\ verb[who] # "escalated")
        BY <2>2, <3>1, <4>2 DEF Finish, Popped
      <4> QED
        BY <4>1, <4>2
    <3>2. CASE Crash
      BY <2>2, <3>2 DEF Crash
    <3>3. CASE \E k \in Chat : ChatRuns(k) \/ ChatEnds(k)
      BY <2>2, <3>3 DEF ChatRuns, ChatRun, Run, ChatEnds, End
    <3>4. CASE \E e \in Admin : AdminRuns(e) \/ AdminEnds(e)
      BY <2>2, <3>4 DEF AdminRuns, AdminRun, Run, AdminEnds, AdminEnd, End
    <3>5. CASE Written \/ Refused \/ Faulted
      BY <2>2, <3>5 DEF Written, Refused, Faulted, Fail
    <3> QED
      BY <2>2, <3>1, <3>2, <3>3, <3>4, <3>5, Steps DEF vars
  <2> QED
    BY <1>3, <2>1, <2>2 DEF Decidable
<1> QED
  BY <1>2, <1>3

LEMMA AgreedStep ==
    ASSUME TypeOK, Places, ToDo, Agreed, [Next]_vars
    PROVE  Agreed'
<1> SUFFICES ASSUME NEW c \in Chat, pc'[c] = "held_response", c \notin pending'
             PROVE  seen'.status[c] = durable'.status[c]
  BY DEF Agreed
<1>1. CASE Finish
  <2>1. UNCHANGED <<seen, durable>>
    BY <1>1 DEF Finish
  <2>2. CASE who = c /\ next \in Held
    BY <1>1, <2>1, <2>2 DEF ToDo, HoldToDo, Finish
  <2>3. CASE pc[c] = "held_response" /\ c \notin pending
    BY <2>1, <2>3 DEF Agreed
  <2>4. CASE pc[c] = "held_response" /\ c \in pending
    <3>1. who \in Admin
      BY <1>1, <2>4 DEF Finish, Popped
    <3> QED
      BY <1>1, <2>1, <3>1 DEF Finish, ToDo, DecisionToDo
  <2> QED
    BY <1>1, <2>2, <2>3, <2>4, ChatMoves DEF ChatMove, Held
<1>2. CASE Crash
  BY <1>2 DEF Crash
<1>3. CASE ~Finish /\ ~Crash
  <2>1. pc[c] = "held_response"
    BY <1>3, ChatMoves DEF ChatMove, Held
  <2>2. c \notin pending
    <3>1. CASE \E k \in Chat : ChatRuns(k) \/ ChatEnds(k)
      BY <3>1 DEF ChatRuns, ChatRun, Run, ChatEnds, End
    <3>2. CASE \E e \in Admin : AdminRuns(e) \/ AdminEnds(e)
      BY <3>2 DEF AdminRuns, AdminRun, Run, AdminEnds, AdminEnd, End
    <3>3. CASE Written \/ Refused \/ Faulted
      BY <3>3 DEF Written, Refused, Faulted, Fail
    <3> QED
      BY <1>3, <3>1, <3>2, <3>3, Steps DEF vars
  <2>3. seen.status[c] = durable.status[c]
    BY <2>1, <2>2 DEF Agreed
  <2>4. todo # << >> => Apply(seen, Head(todo)).status[c] = seen.status[c]
    <3> SUFFICES ASSUME todo # << >>
                 PROVE  Apply(seen, Head(todo)).status[c] = seen.status[c]
      OBVIOUS
    <3>1. ASSUME who \in Admin, target[who] = c, pc[who] = "running"
          PROVE  c \in pending
      BY <2>1, <3>1 DEF Places
    <3> QED
      BY <2>1, <2>2, <3>1, StatusKept DEF Held
  <2> QED
    BY <1>3, <2>3, <2>4, TablesStep
<1> QED
  BY <1>1, <1>2, <1>3

-----------------------------------------------------------------------------
(* The theorems *)

IInv ==
    /\ TypeOK /\ Places /\ ToDo
    /\ Backed(seen) /\ Backed(durable)
    /\ Settled /\ Decidable /\ Agreed

LEMMA IInvInit == Init => IInv
<1> SUFFICES ASSUME Init PROVE IInv
  OBVIOUS
<1>1. \A h \in Handler : pc[h] = "idle"
  BY DEF Init
<1>2. Settled /\ Decidable /\ Agreed
  BY <1>1 DEF Settled, Decidable, Agreed, Held
<1> QED
  BY <1>2, TypeInit, ToDoInit, BackedInit DEF IInv

LEMMA IInvStep == IInv /\ [Next]_vars => IInv'
<1> SUFFICES ASSUME IInv, [Next]_vars PROVE IInv'
  OBVIOUS
<1>1. TypeOK' /\ Places'
  BY TypeStep DEF IInv
<1>2. ToDo'
  BY ToDoStep DEF IInv
<1>3. Backed(seen)' /\ Backed(durable)'
  BY BackedStep DEF IInv
<1>4. Settled' /\ Decidable' /\ Agreed'
  BY SettledStep, DecidableStep, AgreedStep DEF IInv
<1> QED
  BY <1>1, <1>2, <1>3, <1>4 DEF IInv

(* The inductive invariant of the handlers, fault by fault and crash by      *)
(* crash.                                                                    *)
THEOREM Invariant == Spec => []IInv
<1> QED
  BY IInvInit, IInvStep, PTL DEF Spec

(* A request that was answered with 202 is in the queue, with its event, and *)
(* can be decided on unless a crash or a decision took its context           *)
(* (chat.py:134-157, 210-231).                                               *)
THEOREM PausedQueued == Spec => []PausedIsQueued
<1>1. IInv => PausedIsQueued
  <2> SUFFICES ASSUME IInv, NEW c \in Chat, pc[c] \in Held
               PROVE  /\ durable.status[c] \in Queued
                      /\ HeldEvent(c) \in durable.events
                      /\ \/ c \in pending \cup orphaned
                         \/ \E d \in Admin : /\ pc[d] = "done" /\ target[d] = c
                                             /\ verb[d] \in Resolved
    BY DEF PausedIsQueued
  <2>1. durable.status[c] # "none" /\ HeldEvent(c) \in durable.events
    BY DEF IInv, Backed
  <2>2. durable.status[c] \in Queued \cup {"none"}
    BY DEF IInv, TypeOK, Database
  <2> QED
    BY <2>1, <2>2 DEF IInv, Decidable
<1> QED
  BY <1>1, Invariant, PTL

(* A decision that was answered with 200 is committed, and one that resolves *)
(* is never undone (admin.py:97-236, governance.py:60-78).                   *)
THEOREM DecisionsDurable == Spec => []DecisionDurable
<1>1. IInv => DecisionDurable
  BY DEF IInv, Settled, DecisionDurable
<1> QED
  BY <1>1, Invariant, PTL

(* No fault and no crash leaves a decided status without its action, or a    *)
(* redact-resume without its redactions row (admin.py:118-122, 168-188).     *)
THEOREM TrailFirst == Spec => []TrailBeforeStatus
<1>1. IInv => TrailBeforeStatus
  BY DEF IInv, Backed, TrailBeforeStatus
<1> QED
  BY <1>1, Invariant, PTL

-----------------------------------------------------------------------------
(* Queue and contexts                                                        *)

(* No context of a decision that a crash cut off is in memory again.         *)
LostLeft == \A d \in Admin : pc[d] = "lost" => target[d] \notin pending

LEMMA LostLeftStep ==
    ASSUME TypeOK, Places, LostLeft, [Next]_vars
    PROVE  LostLeft'
<1>1. CASE Crash
  BY <1>1 DEF Crash, LostLeft
<1>2. CASE Finish
  <2> SUFFICES ASSUME NEW d \in Admin, pc'[d] = "lost" PROVE target'[d] \notin pending'
    BY DEF LostLeft
  <2>1. who # d
    <3>1. who = d => pc'[d] = "done"
      BY <1>2 DEF Finish, Places, TypeOK
    <3> QED
      BY <3>1
  <2>2. pc[d] = "lost" /\ target'[d] = target[d] /\ pending' \subseteq pending \cup Opened(who)
    BY <1>2, <2>1 DEF Finish, TypeOK, localVars
  <2>3. target[d] # who
    <3>1. pc[target[d]] \in Held
      BY <2>2 DEF Places
    <3> QED
      BY <1>2, <3>1 DEF Finish, TypeOK, Held
  <2> QED
    BY <2>2, <2>3 DEF LostLeft, Opened
<1>3. CASE \E c \in Chat : ChatRuns(c) \/ ChatEnds(c)
  <2>1. PICK c \in Chat : ChatRuns(c) \/ ChatEnds(c)
    BY <1>3
  <2>2. UNCHANGED <<target, pending>> /\ \A d \in Admin : pc'[d] = pc[d]
    BY <2>1, HandlerAssumption
       DEF ChatRuns, ChatRun, Run, ChatEnds, End, localVars, TypeOK
  <2> QED
    BY <2>2 DEF LostLeft
<1>4. CASE \E e \in Admin : AdminRuns(e) \/ AdminEnds(e)
  <2>1. PICK e \in Admin : AdminRuns(e) \/ AdminEnds(e)
    BY <1>4
  <2>2. CASE AdminRuns(e)
    BY <2>2 DEF AdminRuns, AdminRun, Run, TypeOK, LostLeft
  <2>3. CASE AdminEnds(e)
    <3>1. PICK from, to : AdminEnd(e, from, to)
      BY <2>3 DEF AdminEnds
    <3> QED
      BY <3>1 DEF AdminEnd, End, TypeOK, LostLeft
  <2> QED
    BY <2>1, <2>2, <2>3
<1>5. CASE Written \/ Refused \/ Faulted
  BY <1>5 DEF Written, Refused, Faulted, Fail, localVars, TypeOK, LostLeft
<1>6. CASE UNCHANGED vars
  BY <1>6 DEF vars, localVars, LostLeft
<1> QED
  BY <1>1, <1>2, <1>3, <1>4, <1>5, <1>6, Steps

LEMMA LostLeftInvariant == Spec => []LostLeft
<1>1. Init => LostLeft
  BY DEF Init, LostLeft
<1>2. IInv /\ LostLeft /\ [Next]_vars => LostLeft'
  BY LostLeftStep DEF IInv
<1> QED
  BY <1>1, <1>2, Invariant, PTL DEF Spec

(* The queue and app.state.pending part only when a decision fails after its *)
(* status, when the process dies, or when a pause fails before its context   *)
(* (admin.py:118-122, chat.py:143-157).                                      *)
THEOREM ContextsMatch == Spec => []ContextsMatchRows
<1>1. ASSUME IInv, LostLeft PROVE ContextsMatchRows
  <2>1. ASSUME NEW a \in pending, seen.status[a] \in Resolved
        PROVE  \E d \in Admin : /\ target[d] = a /\ verb[d] = seen.status[a]
                               /\ pc[d] \in {"running", "error"}
    <3>1. a \in Chat /\ seen.actions \subseteq Admin
      BY <1>1 DEF IInv, TypeOK, Database
    <3>2. PICK d \in seen.actions : target[d] = a /\ verb[d] = seen.status[a]
      BY <1>1, <2>1, <3>1, VerbFacts DEF IInv, Backed
    <3>3. pc[d] \in {"running", "done", "error", "lost"}
      BY <1>1, <3>2 DEF IInv, Backed
    <3>4. pc[d] # "done" /\ pc[d] # "lost"
      BY <1>1, <2>1, <3>1, <3>2 DEF IInv, Settled, LostLeft
    <3> QED
      BY <3>1, <3>2, <3>3, <3>4
  <2>2. ASSUME NEW a \in Chat \ pending, durable.status[a] \in Open
        PROVE  a \in orphaned \/ pc[a] \in {"running", "error", "lost"}
    <3>1. durable.status[a] # "none" /\ durable.status[a] \notin Resolved
      BY <2>2 DEF Open, Resolved
    <3>2. Where(a) \in Held \cup {"error", "lost"}
      BY <1>1, <3>1 DEF IInv, Backed
    <3>3. CASE pc[a] \in Held
      BY <1>1, <2>2, <3>1, <3>3 DEF IInv, Decidable, Settled
    <3>4. CASE pc[a] \notin Held
      BY <1>1, <3>2, <3>4 DEF IInv, TypeOK, Where
    <3> QED
      BY <3>3, <3>4
  <2> QED
    BY <2>1, <2>2 DEF ContextsMatchRows
<1> QED
  BY <1>1, Invariant, LostLeftInvariant, PTL

-----------------------------------------------------------------------------
(* The handlers implement HeldReplies *)

LEMMA FateFacts ==
    ASSUME IInv, NEW c \in Chat
    PROVE  /\ Fate(c) # "none" <=> pc[c] = "held_response"
           /\ Fate(c) = "held" <=> pc[c] = "held_response" /\ c \in pending
           /\ Fate(c) \in {"none", "held", "released", "rejected", "dropped"}
<1>1. ASSUME c \in pending, pc[c] = "held_response"
      PROVE  ~Answered(c, Releasing) /\ ~Answered(c, {"rejected"})
  BY <1>1, VerbFacts DEF IInv, Settled, Answered
<1> QED
  BY <1>1 DEF Fate

(* A step by which no decision is answered changes no answer.                *)
LEMMA AnswersKept ==
    ASSUME IInv, [Next]_vars, NEW c \in Chat, NEW v,
           \A d \in Admin : Finish /\ who = d /\ target[d] = c => verb[d] \notin v
    PROVE  Answered(c, v)' <=> Answered(c, v)
<1>1. ASSUME NEW d \in Admin
      PROVE  (pc'[d] = "done" /\ target'[d] = c /\ verb'[d] \in v)
                 <=> (pc[d] = "done" /\ target[d] = c /\ verb[d] \in v)
  <2>1. AdminMove(d)
    BY AdminMoves DEF IInv
  <2>2. Finish => UNCHANGED <<verb, target>>
    BY DEF Finish, localVars
  <2> QED
    BY <2>1, <2>2 DEF AdminMove
<1> QED
  BY <1>1 DEF Answered

LEMMA FateKept ==
    ASSUME IInv, [Next]_vars, NEW c \in Chat,
           pc'[c] = pc[c] \/ (pc[c] # "held_response" /\ pc'[c] # "held_response"),
           c \in pending' <=> c \in pending,
           \A d \in Admin : Finish /\ who = d /\ target[d] = c =>
               verb[d] \notin Releasing \cup {"rejected"}
    PROVE  Fate(c)' = Fate(c)
<1>1. Answered(c, Releasing)' <=> Answered(c, Releasing)
  BY AnswersKept
<1>2. Answered(c, {"rejected"})' <=> Answered(c, {"rejected"})
  BY AnswersKept
<1> QED
  BY <1>1, <1>2 DEF Fate

FateMap == [c \in Chat |-> Fate(c)]

(* A decision that is answered settles the reply it is about, and no other.  *)
LEMMA SettlesReply ==
    ASSUME IInv, [Next]_vars, Finish, NEW d \in Admin, who = d,
           NEW a \in Chat, target[d] = a
    PROVE  UNCHANGED FateMap \/ Replies!Release(a) \/ Replies!Reject(a)
<1>0. /\ pc[d] = "running" /\ next = "done" /\ todo = << >> /\ who # None
      /\ verb[d] \in Verb /\ a \notin Admin /\ d \notin Chat
      /\ pc \in [Handler -> Place] /\ pc[a] \in Held
  BY HandlerAssumption DEF IInv, TypeOK, Places, Finish
<1>1. /\ pc' = [pc EXCEPT ![d] = "done"] /\ UNCHANGED <<verb, target, durable>>
      /\ pending' = pending \ Popped(d)
  BY <1>0 DEF Finish, localVars, Opened
<1>2. \A c \in Chat : pc'[c] = pc[c]
  BY <1>0, <1>1
<1>3. durable.status[a] = verb[d]
  BY <1>0 DEF IInv, ToDo, DecisionToDo
<1>4. \A c \in Chat \ {a} : Fate(c)' = Fate(c)
  <2> TAKE c \in Chat \ {a}
  <2>1. c \in pending' <=> c \in pending
    BY <1>1 DEF Popped
  <2> QED
    BY <1>2, <2>1, FateKept
<1>5. CASE verb[d] = "escalated"
  <2>1. a \in pending' <=> a \in pending
    BY <1>1, <1>5 DEF Popped
  <2>2. "escalated" \notin Releasing \cup {"rejected"}
    BY DEF Releasing
  <2>3. Fate(a)' = Fate(a)
    BY <1>0, <1>2, <1>5, <2>1, <2>2, FateKept
  <2> QED
    BY <1>4, <2>3 DEF FateMap
<1>6. CASE pc[a] = "held_prompt"
  <2>1. Fate(a) = "none" /\ Fate(a)' = "none"
    BY <1>0, <1>2, <1>6 DEF Fate
  <2> QED
    BY <1>4, <2>1 DEF FateMap
<1>7. CASE pc[a] = "held_response" /\ verb[d] # "escalated"
  <2>1. a \in pending
    BY <1>0, <1>7, Running DEF IInv, Agreed, Decidable, Settled, Places, Held
  <2>2. Fate(a) = "held"
    BY <1>7, <2>1, FateFacts, <1>0
  <2>3. pc'[d] = "done" /\ target'[d] = a /\ verb'[d] = verb[d] /\ pc'[a] = pc[a]
    BY <1>0, <1>1
  <2>4. ~Answered(a, Releasing)
    BY <1>0, <1>7, <2>2 DEF Fate
  <2>5. CASE verb[d] \in Releasing
    <3>1. Fate(a)' = "released"
      BY <1>0, <1>7, <2>3, <2>5 DEF Fate, Answered
    <3>2. FateMap' = [FateMap EXCEPT ![a] = "released"]
      BY <1>0, <1>4, <3>1 DEF FateMap
    <3> QED
      BY <1>0, <1>1, <1>3, <2>2, <2>5, <3>2
         DEF Replies!Release, Replies!Settle, FateMap
  <2>6. CASE verb[d] = "rejected"
    <3>1. "rejected" \notin Releasing
      BY DEF Releasing
    <3>2. ~Answered(a, Releasing)'
      BY <2>4, <2>6, <3>1, AnswersKept, <1>0
    <3>3. Fate(a)' = "rejected"
      BY <1>0, <1>7, <2>3, <2>6, <3>2 DEF Fate, Answered
    <3>4. FateMap' = [FateMap EXCEPT ![a] = "rejected"]
      BY <1>0, <1>4, <3>3 DEF FateMap
    <3> QED
      BY <1>0, <1>1, <1>3, <2>2, <2>6, <3>4
         DEF Replies!Reject, Replies!Settle, FateMap
  <2> QED
    BY <1>0, <1>7, <2>5, <2>6 DEF Verb
<1> QED
  BY <1>0, <1>5, <1>6, <1>7 DEF Held

(* A chat request that is answered holds its reply, or has none to hold.     *)
LEMMA HoldsReply ==
    ASSUME IInv, [Next]_vars, Finish, NEW h \in Chat, who = h
    PROVE  UNCHANGED FateMap \/ Replies!Hold(h)
<1>0. /\ pc[h] = "running" /\ todo = << >> /\ who # None /\ h \notin Admin
      /\ pc \in [Handler -> Place]
      /\ pc' = [pc EXCEPT ![h] = next] /\ UNCHANGED durable
      /\ pending' = pending \cup Opened(h)
  BY HandlerAssumption DEF IInv, TypeOK, Finish, Popped
<1>1. \A c \in Chat \ {h} : Fate(c)' = Fate(c)
  BY <1>0, FateKept DEF Opened
<1>2. Fate(h) = "none"
  BY <1>0 DEF Fate
<1>3. CASE next # "held_response"
  <2>1. Fate(h)' = "none"
    BY <1>0, <1>3 DEF Fate
  <2> QED
    BY <1>1, <1>2, <2>1 DEF FateMap
<1>4. CASE next = "held_response"
  <2>1. pc'[h] = "held_response" /\ h \in pending'
    BY <1>0, <1>4 DEF Opened
  <2>2. \A v : Answered(h, v)' <=> Answered(h, v)
    <3> TAKE v
    <3>1. \A d \in Admin : who # d
      BY <1>0
    <3> QED
      BY <3>1, AnswersKept
  <2>3. \A v : ~Answered(h, v)
    BY <1>0 DEF Answered, IInv, Places, Held
  <2>4. Fate(h)' = "held"
    BY <2>1, <2>2, <2>3 DEF Fate
  <2>5. FateMap' = [FateMap EXCEPT ![h] = "held"]
    BY <1>1, <2>4 DEF FateMap
  <2>6. durable.status[h] = "pending"
    BY <1>0, <1>4 DEF IInv, ToDo, HoldToDo, Held
  <2> QED
    BY <1>0, <1>2, <2>5, <2>6, VerbFacts DEF Replies!Hold, Replies!Settle, FateMap
<1> QED
  BY <1>3, <1>4

(* A crash drops the replies that are held, and no others.                   *)
LEMMA DropsReplies ==
    ASSUME IInv, [Next]_vars, Crash
    PROVE  Replies!Drop
<1>1. /\ pending' = {} /\ UNCHANGED durable
      /\ \A h \in Handler : pc'[h] = IF pc[h] \in Interrupted THEN "lost" ELSE pc[h]
  BY DEF Crash
<1>2. ~Finish
  BY DEF Crash, Finish, boundVars, IInv, TypeOK
<1>3. ASSUME NEW c \in Chat
      PROVE  Fate(c)' = IF Fate(c) = "held" THEN "dropped" ELSE Fate(c)
  <2>1. \A v : Answered(c, v)' <=> Answered(c, v)
    BY AnswersKept, <1>2
  <2>2. pc'[c] = "held_response" <=> pc[c] = "held_response"
    BY <1>1 DEF Interrupted
  <2>3. ~(c \in pending')
    BY <1>1
  <2>4. CASE c \in pending
    BY <2>1, <2>2, <2>3, <2>4, FateFacts DEF Fate
  <2>5. CASE c \notin pending
    BY <2>1, <2>2, <2>3, <2>5, FateFacts DEF Fate
  <2> QED
    BY <2>4, <2>5
<1> QED
  BY <1>1, <1>3 DEF Replies!Drop

(* A write changes no fate, and no row of a reply that is settled.           *)
LEMMA RecordsRows ==
    ASSUME IInv, [Next]_vars, ~Finish, ~Crash
    PROVE  Replies!Record
<1>1. UNCHANGED pending
  <2>1. CASE \E c \in Chat : ChatRuns(c) \/ ChatEnds(c)
    BY <2>1 DEF ChatRuns, ChatRun, Run, ChatEnds, End
  <2>2. CASE \E d \in Admin : AdminRuns(d) \/ AdminEnds(d)
    BY <2>2 DEF AdminRuns, AdminRun, Run, AdminEnds, AdminEnd, End
  <2>3. CASE Written \/ Refused \/ Faulted
    BY <2>3 DEF Written, Refused, Faulted, Fail
  <2> QED
    BY <2>1, <2>2, <2>3, Steps DEF vars, IInv
<1>2. ASSUME NEW c \in Chat
      PROVE  Fate(c)' = Fate(c)
  <2>1. pc'[c] = pc[c] \/ (pc[c] # "held_response" /\ pc'[c] # "held_response")
    BY ChatMoves DEF IInv, ChatMove, Held
  <2> QED
    BY <1>1, <2>1, FateKept
<1>3. ASSUME NEW c \in Chat, Fate(c) \in Replies!Final
      PROVE  durable'.status[c] = durable.status[c]
  <2>1. pc[c] = "held_response" /\ c \notin pending
    BY <1>3, FateFacts DEF Replies!Final
  <2>2. seen.status[c] = durable.status[c]
    BY <2>1 DEF IInv, Agreed
  <2>3. ASSUME todo # << >>
        PROVE  Apply(seen, Head(todo)).status[c] = seen.status[c]
    <3>1. ASSUME who \in Admin, target[who] = c, pc[who] = "running"
          PROVE  c \in pending
      BY <2>1, <3>1 DEF IInv, Places
    <3> QED
      BY <2>1, <2>3, <3>1, StatusKept DEF IInv, Held
  <2> QED
    BY <2>2, <2>3, TablesStep DEF IInv
<1>4. durable'.status \in [Chat -> Queued \cup {"none"}]
  BY TypeStep DEF IInv, TypeOK, Database
<1> QED
  BY <1>2, <1>3, <1>4 DEF Replies!Record

(* The promise about the withheld replies, for any number of requests,       *)
(* faults and crashes: a withheld reply is answered for at most once, and    *)
(* the queue shows that answer first and for good (admin.py:97-236).         *)
THEOREM Refinement == Spec => ImplementsHeldReplies
<1>1. Init => Replies!Init
  BY DEF Init, Replies!Init, Fate, Handler
<1>2. IInv /\ [Next]_vars => [Replies!Next]_(Replies!heldVars)
  <2> SUFFICES ASSUME IInv, [Next]_vars PROVE [Replies!Next]_(Replies!heldVars)
    OBVIOUS
  <2>1. CASE Finish
    <3>1. UNCHANGED durable /\ who \in Handler
      BY <2>1 DEF Finish, IInv, TypeOK
    <3>2. CASE who \in Chat
      <4>1. PICK h \in Chat : who = h
        BY <3>2
      <4> QED
        BY <2>1, <3>1, <4>1, HoldsReply DEF FateMap, Replies!Next, Replies!heldVars
    <3>3. CASE who \in Admin
      <4>1. PICK d \in Admin : who = d
        BY <3>3
      <4>2. PICK a \in Chat : target[d] = a
        BY <4>1 DEF IInv, TypeOK
      <4> QED
        BY <2>1, <3>1, <4>1, <4>2, SettlesReply
           DEF FateMap, Replies!Next, Replies!heldVars
    <3> QED
      BY <3>1, <3>2, <3>3
  <2>2. CASE Crash
    BY <2>2, DropsReplies DEF Replies!Next
  <2>3. CASE ~Finish /\ ~Crash
    BY <2>3, RecordsRows DEF Replies!Next
  <2> QED
    BY <2>1, <2>2, <2>3
<1> QED
  BY <1>1, <1>2, Invariant, PTL DEF Spec, ImplementsHeldReplies, Replies!Spec

-----------------------------------------------------------------------------
(* What the handlers write when SQLite does not fail, however often the      *)
(* process dies                                                              *)
(* A row of messages or of events is in the table.                           *)
Has(db, w) == IF w.table = "messages" THEN w.row \in db.messages ELSE w.row \in db.events

(* It is in the table before the running handler gets to its write i.        *)
Behind(i, w) == Has(seen, w) \/ \E j \in 1 .. i - 1 : todo[j] = w

(* It is in the table, or handler h is about to write it.                    *)
Owed(h, w) == Has(seen, w) \/ (who = h /\ \E j \in DOMAIN todo : todo[j] = w)

DecisionEvent(d) == Event(Anchor(target[d]), ApprovalEvent[verb[d]])

(* Where a chat request has more to write, or an administrator has.          *)
Live == {"classify_prompt", "generate", "classify_response"} \cup Held

(* Every request has the message its events are about, every answer the      *)
(* event that says so, every event its message and every action its event -- *)
(* in the tables, or in front of it in what the running handler has to do.   *)
Announced ==
    /\ \A c \in Chat :
        /\ Where(c) \in Live => Owed(c, Message(Anchor(c)))
        /\ Where(c) = "unavailable" => Owed(c, Event(PromptMsg(c), "system.error"))
        /\ Where(c) = "delivered" => Owed(c, Event(ResponseMsg(c), "response.delivered"))
    /\ \A i \in DOMAIN todo :
        /\ todo[i].table = "events" => Behind(i, Message(todo[i].row.msg))
        /\ todo[i].table = "admin_actions" => Behind(i, DecisionEvent(who))
    /\ \A d \in seen.actions : Has(seen, DecisionEvent(d))

Unfaulted == faults = 0 => seen = durable /\ Announced

-----------------------------------------------------------------------------
(* Queues of writes                                                          *)

(* Every event of s has its message in the table, or before it in s.         *)
Grounded(s) ==
    \A i \in DOMAIN s : s[i].table = "events" =>
        \/ Has(seen, Message(s[i].row.msg))
        \/ \E j \in 1 .. i - 1 : s[j] = Message(s[i].row.msg)

(* Every action of s has the event e before it in s.                         *)
ActionBehind(s, e) ==
    \A i \in DOMAIN s : s[i].table = "admin_actions" => \E j \in 1 .. i - 1 : s[j] = e

LEMMA QueueConcat ==
    ASSUME NEW s \in Seq(Write), NEW t \in Seq(Write), Grounded(s), Grounded(t)
    PROVE  /\ Grounded(s \o t)
           /\ \A e : Quiet(s) /\ ActionBehind(t, e) => ActionBehind(s \o t, e)
           /\ t # << >> => \E j \in DOMAIN (s \o t) : (s \o t)[j] = t[Len(t)]
<1>1. Len(s) \in Nat /\ Len(t) \in Nat /\ Len(s \o t) = Len(s) + Len(t)
      /\ s \o t \in Seq(Write)
  OBVIOUS
<1>2. \A i \in DOMAIN (s \o t) :
          \/ i \in DOMAIN s /\ (s \o t)[i] = s[i]
          \/ i - Len(s) \in DOMAIN t /\ (s \o t)[i] = t[i - Len(s)]
  BY <1>1
<1>3. /\ \A j \in DOMAIN t : (s \o t)[j + Len(s)] = t[j]
      /\ \A j \in DOMAIN s : (s \o t)[j] = s[j]
  BY <1>1
<1>4. ASSUME NEW i \in DOMAIN (s \o t), NEW e,
             i - Len(s) \in DOMAIN t, \E j \in 1 .. i - Len(s) - 1 : t[j] = e
      PROVE  \E j \in 1 .. i - 1 : (s \o t)[j] = e
  <2>1. PICK j \in 1 .. i - Len(s) - 1 : t[j] = e
    BY <1>4
  <2>2. j \in DOMAIN t /\ j + Len(s) \in 1 .. i - 1
    BY <1>1, <1>4, <2>1
  <2> QED
    BY <1>3, <2>1, <2>2
<1>5. ASSUME NEW i \in DOMAIN (s \o t), (s \o t)[i].table = "events"
      PROVE  \/ Has(seen, Message((s \o t)[i].row.msg))
             \/ \E j \in 1 .. i - 1 : (s \o t)[j] = Message((s \o t)[i].row.msg)
  <2>1. CASE i \in DOMAIN s /\ (s \o t)[i] = s[i]
    <3>1. \A j \in 1 .. i - 1 : j \in DOMAIN s
      BY <1>1, <2>1
    <3>2. \/ Has(seen, Message(s[i].row.msg))
          \/ \E j \in 1 .. i - 1 : s[j] = Message(s[i].row.msg)
      BY <1>5, <2>1 DEF Grounded
    <3> QED
      BY <1>3, <2>1, <3>1, <3>2
  <2>2. CASE i - Len(s) \in DOMAIN t /\ (s \o t)[i] = t[i - Len(s)]
    <3>1. \/ Has(seen, Message(t[i - Len(s)].row.msg))
          \/ \E j \in 1 .. i - Len(s) - 1 : t[j] = Message(t[i - Len(s)].row.msg)
      BY <1>5, <2>2 DEF Grounded
    <3>2. CASE Has(seen, Message(t[i - Len(s)].row.msg))
      BY <2>2, <3>2
    <3>3. PICK e : e = Message(t[i - Len(s)].row.msg)
      OBVIOUS
    <3>4. CASE \E j \in 1 .. i - Len(s) - 1 : t[j] = e
      <4>1. \E j \in 1 .. i - 1 : (s \o t)[j] = e
        BY <1>4, <2>2, <3>4
      <4> QED
        BY <2>2, <3>3, <4>1
    <3> QED
      BY <3>1, <3>2, <3>3, <3>4
  <2> QED
    BY <1>2, <2>1, <2>2
<1>6. ASSUME NEW e, Quiet(s), ActionBehind(t, e),
             NEW i \in DOMAIN (s \o t), (s \o t)[i].table = "admin_actions"
      PROVE  \E j \in 1 .. i - 1 : (s \o t)[j] = e
  <2>1. i - Len(s) \in DOMAIN t /\ (s \o t)[i] = t[i - Len(s)]
    BY <1>2, <1>6 DEF Quiet
  <2> QED
    BY <1>4, <1>6, <2>1 DEF ActionBehind
<1>7. t # << >> => \E j \in DOMAIN (s \o t) : (s \o t)[j] = t[Len(t)]
  <2> SUFFICES ASSUME t # << >> PROVE \E j \in DOMAIN (s \o t) : (s \o t)[j] = t[Len(t)]
    OBVIOUS
  <2>1. Len(t) \in DOMAIN t /\ Len(s) + Len(t) \in DOMAIN (s \o t)
    BY <1>1
  <2> QED
    BY <1>3, <2>1
<1> QED
  BY <1>5, <1>6, <1>7 DEF Grounded, ActionBehind

(* Events about a message that is in the table.                              *)
LEMMA EventsGrounded ==
    ASSUME NEW m \in MessageId, m \in seen.messages
    PROVE  /\ \A t1 \in EventType : Grounded(<<Event(m, t1)>>)
           /\ \A t1, t2, t3 \in EventType :
                  Grounded(<<Event(m, t1), Event(m, t2), Event(m, t3)>>)
<1>1. \A type \in EventType : /\ Event(m, type).table = "events"
                              /\ Has(seen, Message(Event(m, type).row.msg))
  BY DEF Event, Message, Has
<1> QED
  BY <1>1 DEF Grounded

LEMMA ChatQueues ==
    ASSUME TypeOK, NEW c \in Chat
    PROVE  /\ PromptMsg(c) \in seen.messages => Grounded(PromptEvents(c))
           /\ ResponseMsg(c) \in seen.messages => Grounded(ResponseEvents(c))
           /\ Anchor(c) \in seen.messages => Grounded(HoldWrites(c))
<1>1. PromptMsg(c) \in MessageId /\ ResponseMsg(c) \in MessageId
  BY Ids
<1>2. PromptMsg(c) \in seen.messages => Grounded(PromptEvents(c))
  BY <1>1, EventsGrounded DEF PromptEvents, EventType
<1>3. ResponseMsg(c) \in seen.messages => Grounded(ResponseEvents(c))
  BY <1>1, EventsGrounded DEF ResponseEvents, EventType
<1>4. ASSUME Anchor(c) \in seen.messages PROVE Grounded(HoldWrites(c))
  <2>1. /\ Event(Anchor(c), HeldType(c)).table = "events"
        /\ Has(seen, Message(Event(Anchor(c), HeldType(c)).row.msg))
        /\ Approval(c).table # "events"
    BY <1>4 DEF Event, Message, Has, Approval
  <2> DEFINE e == Event(Anchor(c), HeldType(c))
             r == Approval(c)
  <2>2. HoldWrites(c) = <<e, r>>
    BY DEF HoldWrites
  <2> HIDE DEF e, r
  <2> QED
    BY <2>1, <2>2 DEF Grounded, e, r
<1> QED
  BY <1>2, <1>3, <1>4

LEMMA DecisionQueue ==
    ASSUME TypeOK, NEW d \in Admin, NEW v \in Verb, NEW a \in Chat,
           Anchor(a) \in seen.messages
    PROVE  /\ Grounded(DecisionWrites(d, v, a))
           /\ ActionBehind(DecisionWrites(d, v, a), Event(Anchor(a), ApprovalEvent[v]))
<1> DEFINE e == Event(Anchor(a), ApprovalEvent[v])
           p == Action(d)
           q == Redaction(d)
           r == Resolution(d)
<1>1. /\ e.table = "events" /\ Has(seen, Message(e.row.msg))
      /\ p.table = "admin_actions" /\ q.table = "redactions" /\ r.table = "resolve"
  BY DEF Event, Message, Has, Action, Redaction, Resolution
<1>2. DecisionWrites(d, v, a) = <<q>> \o <<e, p, r>> \/ DecisionWrites(d, v, a) = << >> \o <<e, p, r>>
  BY DEF DecisionWrites
<1> HIDE DEF e, p, q, r
<1>3. CASE DecisionWrites(d, v, a) = <<q>> \o <<e, p, r>>
  <2> DEFINE s == <<q>> \o <<e, p, r>>
  <2>1. DOMAIN s = 1 .. 4 /\ s[1] = q /\ s[2] = e /\ s[3] = p /\ s[4] = r
    OBVIOUS
  <2> HIDE DEF s
  <2>2. Grounded(s)
    BY <1>1, <2>1 DEF Grounded
  <2>3. \A i \in DOMAIN s : s[i].table = "admin_actions" => i = 3
    BY <1>1, <2>1
  <2>4. 2 \in 1 .. 3 - 1
    OBVIOUS
  <2>5. ActionBehind(s, e)
    BY <2>1, <2>3, <2>4 DEF ActionBehind
  <2> QED
    BY <1>3, <2>2, <2>5 DEF s, e
<1>4. CASE DecisionWrites(d, v, a) = << >> \o <<e, p, r>>
  <2>1. << >> \o <<e, p, r>> = <<e, p, r>>
    OBVIOUS
  <2>2. Grounded(<<e, p, r>>) /\ ActionBehind(<<e, p, r>>, e)
    BY <1>1 DEF Grounded, ActionBehind
  <2> QED
    BY <1>4, <2>1, <2>2 DEF e
<1> QED
  BY <1>2, <1>3, <1>4

-----------------------------------------------------------------------------
(* What a handler queues                                                     *)

(* With nothing in hand, what is owed is in the table.                       *)
LEMMA NothingInHand ==
    ASSUME Announced, who = None, NEW c \in Chat
    PROVE  /\ pc[c] \in Live => Anchor(c) \in seen.messages
           /\ pc[c] = "unavailable" => Has(seen, Event(PromptMsg(c), "system.error"))
           /\ pc[c] = "delivered" => Has(seen, Event(ResponseMsg(c), "response.delivered"))
<1>1. who # c
  BY HandlerAssumption
<1> QED
  BY <1>1 DEF Announced, Owed, Where, Has, Message

LEMMA ChatQueued ==
    ASSUME TypeOK, Places, Announced, NEW c \in Chat, ChatStep(c), ChatRuns(c)
    PROVE  /\ Grounded(todo')
           /\ Where(c)' \in Live => Owed(c, Message(Anchor(c)))'
           /\ Where(c)' = "unavailable" => Owed(c, Event(PromptMsg(c), "system.error"))'
           /\ Where(c)' = "delivered" =>
                  Owed(c, Event(ResponseMsg(c), "response.delivered"))'
<1>0. /\ who = None /\ who' = c /\ seen' = seen /\ Where(c)' = next'
      /\ side[c] \in Direction /\ side \in [Chat -> Direction] /\ turn \in [Chat -> Nat]
      /\ Where(c) = pc[c]
  BY HandlerAssumption DEF ChatRuns, ChatRun, Run, Where, TypeOK
<1>1. /\ PromptMsg(c) \in MessageId /\ ResponseMsg(c) \in MessageId
      /\ PromptEvents(c) \in Seq(Write) /\ ResponseEvents(c) \in Seq(Write)
      /\ HoldWrites(c) \in Seq(Write)
  BY Ids, ChatWrites DEF Quiet, Own
<1>2. ASSUME pc[c] \in {"classify_prompt", "generate"}
      PROVE  PromptMsg(c) \in seen.messages /\ side[c] = "prompt" /\ Anchor(c) = PromptMsg(c)
  <2>1. side[c] = "prompt"
    BY <1>0, <1>2 DEF Places
  <2> QED
    BY <1>0, <1>2, <2>1, NothingInHand DEF Live, Anchor
<1>3. ASSUME pc[c] = "classify_response"
      PROVE  /\ ResponseMsg(c) \in seen.messages /\ side[c] = "response"
             /\ Anchor(c) = ResponseMsg(c)
  <2>1. side[c] = "response"
    BY <1>0, <1>3 DEF Places
  <2> QED
    BY <1>0, <1>3, <2>1, NothingInHand DEF Live, Anchor
<1>4. /\ "unavailable" \notin Live /\ "delivered" \notin Live
  BY DEF Live, Held
<1>5. ASSUME UNCHANGED <<turn, side>>, Anchor(c) \in seen.messages
      PROVE  Owed(c, Message(Anchor(c)))'
  BY <1>0, <1>5 DEF Owed, Has, Message, Anchor, PromptMsg, ResponseMsg
<1>6. \A t \in EventType : /\ Event(PromptMsg(c), t) \in Write
                           /\ Event(ResponseMsg(c), t) \in Write
  BY <1>1, WriteTypes
<1>7. CASE Begin(c)
  <2>1. todo' = <<Message([turn |-> CompletedResponses, dir |-> "prompt"])>>
        /\ turn' = [turn EXCEPT ![c] = CompletedResponses] /\ side' = side
        /\ next' = "classify_prompt" /\ pc[c] = "idle"
    BY <1>7 DEF Begin, Run
  <2>2. side[c] = "prompt" /\ turn'[c] = CompletedResponses
    BY <1>0, <2>1 DEF Places
  <2>3. Message(Anchor(c))' = todo'[1] /\ 1 \in DOMAIN todo'
    BY <2>1, <2>2 DEF Anchor, PromptMsg, Message
  <2>4. Owed(c, Message(Anchor(c)))'
    BY <1>0, <2>3 DEF Owed
  <2>5. Grounded(todo')
    BY <2>1 DEF Grounded, Message
  <2> QED
    BY <1>0, <1>4, <2>1, <2>4, <2>5
<1>8. CASE PausePrompt(c)
  <2>1. todo' = PromptEvents(c) \o HoldWrites(c) /\ next' = "held_prompt"
        /\ UNCHANGED <<turn, side>> /\ pc[c] = "classify_prompt"
    BY <1>8 DEF PausePrompt, Run, localVars
  <2>2. Grounded(todo')
    BY <1>1, <1>2, <2>1, ChatQueues, QueueConcat
  <2> QED
    BY <1>0, <1>2, <1>4, <1>5, <2>1, <2>2
<1>9. CASE AllowPrompt(c)
  <2> DEFINE t == <<Event(PromptMsg(c), "llm.request.started")>>
  <2>1. todo' = PromptEvents(c) \o t /\ next' = "generate"
        /\ UNCHANGED <<turn, side>> /\ pc[c] = "classify_prompt"
    BY <1>9 DEF AllowPrompt, Run, localVars
  <2>2. Grounded(t) /\ t \in Seq(Write)
    BY <1>1, <1>2, <1>6, <2>1, EventsGrounded DEF EventType
  <2> HIDE DEF t
  <2>3. Grounded(todo')
    BY <1>1, <1>2, <2>1, <2>2, ChatQueues, QueueConcat
  <2> QED
    BY <1>0, <1>2, <1>4, <1>5, <2>1, <2>3
<1>10. CASE Generated(c)
  <2>1. todo' = <<Message(ResponseMsg(c))>> /\ next' = "classify_response"
        /\ turn' = turn /\ side' = [side EXCEPT ![c] = "response"]
    BY <1>10 DEF Generated, Run
  <2>2. Message(Anchor(c))' = todo'[1] /\ 1 \in DOMAIN todo'
    BY <1>0, <2>1 DEF Anchor, ResponseMsg, Message
  <2>3. Owed(c, Message(Anchor(c)))'
    BY <1>0, <2>2 DEF Owed
  <2>4. Grounded(todo')
    BY <2>1 DEF Grounded, Message
  <2> QED
    BY <1>0, <1>4, <2>1, <2>3, <2>4
<1>11. CASE GenerateUnavailable(c)
  <2>1. todo' = <<Event(PromptMsg(c), "system.error")>> /\ next' = "unavailable"
        /\ UNCHANGED <<turn, side>> /\ pc[c] = "generate"
    BY <1>11 DEF GenerateUnavailable, Run, localVars
  <2>2. Grounded(todo')
    BY <1>1, <1>2, <2>1, EventsGrounded DEF EventType
  <2>3. Event(PromptMsg(c), "system.error")' = todo'[1] /\ 1 \in DOMAIN todo'
    BY <2>1 DEF Event, PromptMsg
  <2> QED
    BY <1>0, <1>4, <2>1, <2>2, <2>3 DEF Owed
<1>12. CASE PauseResponse(c)
  <2>1. todo' = ResponseEvents(c) \o HoldWrites(c) /\ next' = "held_response"
        /\ UNCHANGED <<turn, side>> /\ pc[c] = "classify_response"
    BY <1>12 DEF PauseResponse, Run, localVars
  <2>2. Grounded(todo')
    BY <1>1, <1>3, <2>1, ChatQueues, QueueConcat
  <2> QED
    BY <1>0, <1>3, <1>4, <1>5, <2>1, <2>2
<1>13. CASE Deliver(c)
  <2> DEFINE e == Event(ResponseMsg(c), "response.delivered")
             t == <<e>>
  <2>1. todo' = ResponseEvents(c) \o t /\ next' = "delivered"
        /\ UNCHANGED <<turn, side>> /\ pc[c] = "classify_response"
    BY <1>13 DEF Deliver, Run, localVars
  <2>2. Grounded(t) /\ t \in Seq(Write) /\ t # << >> /\ t[Len(t)] = e
    BY <1>1, <1>3, <1>6, <2>1, EventsGrounded DEF EventType
  <2>3. Event(ResponseMsg(c), "response.delivered")' = e
    BY <2>1 DEF Event, ResponseMsg
  <2> HIDE DEF t, e
  <2>4. Grounded(todo') /\ \E j \in DOMAIN todo' : todo'[j] = e
    BY <1>1, <1>3, <2>1, <2>2, ChatQueues, QueueConcat
  <2> QED
    BY <1>0, <1>4, <2>1, <2>3, <2>4 DEF Owed
<1>14. CASE ModelError(c)
  BY <1>0, <1>14, HandlerAssumption DEF ModelError, End, runVars
<1> QED
  BY <1>7, <1>8, <1>9, <1>10, <1>11, <1>12, <1>13, <1>14 DEF ChatStep

LEMMA AdminQueued ==
    ASSUME TypeOK, Places, Announced, NEW d \in Admin, AdminStep(d), AdminRuns(d)
    PROVE  Grounded(todo') /\ ActionBehind(todo', DecisionEvent(d)')
<1>0. /\ who = None /\ who' = d /\ seen' = seen /\ UNCHANGED <<turn, side>>
      /\ pending \subseteq Chat /\ d \notin Chat
      /\ target \in [Admin -> Chat \cup {None}] /\ verb \in [Admin -> Verb \cup {None}]
  BY HandlerAssumption DEF AdminRuns, AdminRun, Run, TypeOK
<1>1. ASSUME NEW a \in Chat, pc[a] \in Held
      PROVE  /\ Anchor(a) \in seen.messages /\ ResponseMsg(a) \in MessageId
             /\ side[a] = "response" => Anchor(a) = ResponseMsg(a)
  BY <1>0, <1>1, NothingInHand, Ids DEF Live, Anchor
<1>2. ASSUME NEW a \in Chat, NEW v \in Verb, target'[d] = a, verb'[d] = v
      PROVE  DecisionEvent(d)' = Event(Anchor(a), ApprovalEvent[v])
  BY <1>0, <1>2 DEF DecisionEvent, Event, Anchor, PromptMsg, ResponseMsg
<1>3. ASSUME NEW a \in Chat, NEW v \in Verb, pc[a] \in Held,
             target'[d] = a, verb'[d] = v,
             NEW q, Quiet(q), Grounded(q), todo' = q \o DecisionWrites(d, v, a)
      PROVE  Grounded(todo') /\ ActionBehind(todo', DecisionEvent(d)')
  <2>1. /\ Grounded(DecisionWrites(d, v, a))
        /\ ActionBehind(DecisionWrites(d, v, a), Event(Anchor(a), ApprovalEvent[v]))
    BY <1>1, <1>3, DecisionQueue
  <2>2. q \in Seq(Write) /\ DecisionWrites(d, v, a) \in Seq(Write)
    BY <1>3, Decision DEF Ordered, Own, Quiet
  <2>3. /\ Grounded(q \o DecisionWrites(d, v, a))
        /\ ActionBehind(q \o DecisionWrites(d, v, a), Event(Anchor(a), ApprovalEvent[v]))
    BY <1>3, <2>1, <2>2, QueueConcat
  <2>4. DecisionEvent(d)' = Event(Anchor(a), ApprovalEvent[v])
    BY <1>2, <1>3
  <2> QED
    BY <1>3, <2>3, <2>4
<1>4. Quiet(<< >>) /\ Grounded(<< >>)
  BY DEF Quiet, Grounded
<1>5. ASSUME NEW a \in Chat, pc[a] \in Held, side[a] = "response",
             NEW type \in EventType
      PROVE  Quiet(<<Event(ResponseMsg(a), type)>>) /\ Grounded(<<Event(ResponseMsg(a), type)>>)
  BY <1>1, <1>5, QuietOne, EventsGrounded
<1>6. \A a \in pending : a \in Chat /\ pc[a] \in Held
  BY <1>0 DEF Places
<1>7. ASSUME NEW v \in Verb, NEW a \in Chat, Receive(d, v, a)
      PROVE  target'[d] = a /\ verb'[d] = v
  BY <1>0, <1>7 DEF Receive
<1>8. CASE Reject(d)
  <2>1. PICK a \in pending :
            /\ todo' = (IF side[a] = "response"
                        THEN <<Event(ResponseMsg(a), "response.blocked")>> ELSE << >>)
                           \o DecisionWrites(d, "rejected", a)
            /\ Receive(d, "rejected", a)
    BY <1>8 DEF Reject, Run
  <2> DEFINE q == IF side[a] = "response"
                  THEN <<Event(ResponseMsg(a), "response.blocked")>> ELSE << >>
  <2>2. "rejected" \in Verb /\ "response.blocked" \in EventType
    BY DEF Verb, EventType
  <2>3. Quiet(q) /\ Grounded(q)
    BY <1>4, <1>5, <1>6, <2>2
  <2>4. todo' = q \o DecisionWrites(d, "rejected", a)
    BY <2>1
  <2> HIDE DEF q
  <2> QED
    BY <1>3, <1>6, <1>7, <2>1, <2>2, <2>3, <2>4
<1>9. CASE Escalate(d)
  <2>1. PICK a \in pending : /\ todo' = DecisionWrites(d, "escalated", a)
                             /\ Receive(d, "escalated", a)
    BY <1>9 DEF Escalate, Run
  <2>2. "escalated" \in Verb
    BY DEF Verb
  <2>3. DecisionWrites(d, "escalated", a) \in Seq(Write)
    BY <1>6, <2>2, Decision DEF Ordered, Own
  <2>4. DecisionWrites(d, "escalated", a) = << >> \o DecisionWrites(d, "escalated", a)
    BY <2>3
  <2> QED
    BY <1>3, <1>4, <1>6, <1>7, <2>1, <2>2, <2>4
<1>10. CASE Release(d)
  <2>1. PICK v \in Releasing, a \in pending :
            /\ side[a] = "response"
            /\ todo' = <<Event(ResponseMsg(a), "response.delivered")>>
                           \o DecisionWrites(d, v, a)
            /\ Receive(d, v, a)
    BY <1>10 DEF Release, Run
  <2> DEFINE q == <<Event(ResponseMsg(a), "response.delivered")>>
  <2>2. v \in Verb /\ "response.delivered" \in EventType
    BY DEF Verb, EventType
  <2>3. Quiet(q) /\ Grounded(q)
    BY <1>5, <1>6, <2>1, <2>2
  <2>4. todo' = q \o DecisionWrites(d, v, a)
    BY <2>1
  <2> HIDE DEF q
  <2> QED
    BY <1>3, <1>6, <1>7, <2>1, <2>2, <2>3, <2>4
<1>11. CASE ResumeDelivered(d)
  <2>1. PICK a : a = target[d]
    OBVIOUS
  <2>2. PICK v : v = verb[d]
    OBVIOUS
  <2> DEFINE m == Message(ResponseMsg(a))
             e1 == Event(ResponseMsg(a), "llm.response.generated")
             e2 == Event(ResponseMsg(a), "response.delivered")
             q == <<m, e1, e2>>
  <2>3. /\ todo' = q \o DecisionWrites(d, v, a) /\ pc[d] = "generate"
        /\ target'[d] = a /\ verb'[d] = v
    BY <1>11, <2>1, <2>2 DEF ResumeDelivered, Run, localVars
  <2>4. a \in Chat /\ v \in Verb /\ pc[a] \in Held
    BY <2>1, <2>2, <2>3 DEF TypeOK, Places
  <2>5. "llm.response.generated" \in EventType /\ "response.delivered" \in EventType
    BY DEF EventType
  <2>6. /\ m \in Write /\ e1 \in Write /\ e2 \in Write
        /\ m.table = "messages" /\ e1.table = "events" /\ e2.table = "events"
    BY <1>1, <2>4, <2>5, WriteTypes
  <2>7. Message(e1.row.msg) = m /\ Message(e2.row.msg) = m
    BY DEF Event, Message
  <2> HIDE DEF m, e1, e2
  <2>8. Quiet(q) /\ Grounded(q)
    BY <2>6, <2>7 DEF Quiet, Grounded
  <2> HIDE DEF q
  <2> QED
    BY <1>3, <2>3, <2>4, <2>8
<1>12. CASE NotFound(d) \/ Resume(d) \/ ResumeFailed(d)
  BY <1>0, <1>12, HandlerAssumption DEF NotFound, Resume, ResumeFailed, End, runVars
<1> QED
  BY <1>8, <1>9, <1>10, <1>11, <1>12 DEF AdminStep

-----------------------------------------------------------------------------
(* Step by step                                                              *)

(* The event of a decision that has been queued stays the same one.          *)
LEMMA DecisionEventKept ==
    ASSUME TypeOK, Places, [Next]_vars, NEW d \in Admin,
           pc[d] \in {"running", "done", "error", "lost"}
    PROVE  DecisionEvent(d)' = DecisionEvent(d)
<1>1. target'[d] = target[d] /\ verb'[d] = verb[d]
  BY AdminMoves DEF AdminMove
<1>2. target[d] \in Chat /\ pc[target[d]] \in Held
  BY DEF TypeOK, Places
<1>3. PICK a \in Chat : a = target[d] /\ pc[a] \in Held
  BY <1>2
<1>4. Where(a) \in Held
  BY <1>3 DEF Where, TypeOK, Held
<1>5. turn'[a] = turn[a] /\ side'[a] = side[a]
  BY <1>4, ChatMoves DEF ChatMove
<1> QED
  BY <1>1, <1>3, <1>5 DEF DecisionEvent, Event, Anchor, PromptMsg, ResponseMsg

(* The actions on record keep their events.                                  *)
LEMMA ActionsAnnounced ==
    ASSUME TypeOK, Places, Announced, Backed(seen), [Next]_vars, seen' = seen
    PROVE  (\A d \in seen.actions : Has(seen, DecisionEvent(d)))'
<1> SUFFICES ASSUME NEW d \in seen.actions PROVE Has(seen', DecisionEvent(d)')
  OBVIOUS
<1>1. d \in Admin /\ pc[d] \in {"running", "done", "error", "lost"}
  BY DEF Backed, TypeOK, Database
<1>2. Has(seen, DecisionEvent(d))
  BY DEF Announced
<1> QED
  BY <1>1, <1>2, DecisionEventKept

(* A chat request that does not move keeps what it is owed.                  *)
LEMMA IdleChat ==
    ASSUME Announced, NEW c \in Chat, Where(c)' = Where(c), turn'[c] = turn[c],
           side'[c] = side[c], seen' = seen,
           who # c \/ (who' = who /\ todo' = todo)
    PROVE  /\ Where(c)' \in Live => Owed(c, Message(Anchor(c)))'
           /\ Where(c)' = "unavailable" => Owed(c, Event(PromptMsg(c), "system.error"))'
           /\ Where(c)' = "delivered" =>
                  Owed(c, Event(ResponseMsg(c), "response.delivered"))'
<1>1. Anchor(c)' = Anchor(c) /\ PromptMsg(c)' = PromptMsg(c) /\ ResponseMsg(c)' = ResponseMsg(c)
  BY DEF Anchor, PromptMsg, ResponseMsg
<1>2. \A w : Owed(c, w) => Has(seen', w) \/ (who' = c /\ \E j \in DOMAIN todo' : todo'[j] = w)
  BY DEF Owed
<1> QED
  BY <1>1, <1>2 DEF Announced, Owed, Message, Event

LEMMA AnnouncedChat ==
    ASSUME TypeOK, Places, Announced, Backed(seen), [Next]_vars,
           NEW c \in Chat, ChatStep(c)
    PROVE  Announced'
<1>0. None \notin Handler /\ Chat \cap Admin = {} /\ pc \in [Handler -> Place]
  BY HandlerAssumption DEF TypeOK
<1>1. CASE ChatRuns(c)
  <2>1. PICK from, s, to : ChatRun(c, from, s, to)
    BY <1>1 DEF ChatRuns
  <2>2. /\ who = None /\ who' = c /\ seen' = seen /\ pc' = [pc EXCEPT ![c] = "running"]
        /\ \A k \in Chat \ {c} : side'[k] = side[k] /\ turn'[k] = turn[k]
    BY <2>1 DEF ChatRun, Run
  <2>3. ASSUME NEW k \in Chat \ {c}
        PROVE  /\ Where(k)' \in Live => Owed(k, Message(Anchor(k)))'
               /\ Where(k)' = "unavailable" => Owed(k, Event(PromptMsg(k), "system.error"))'
               /\ Where(k)' = "delivered" =>
                      Owed(k, Event(ResponseMsg(k), "response.delivered"))'
    <3>1. Where(k)' = Where(k) /\ who # k
      BY <1>0, <2>2 DEF Where
    <3> QED
      BY <2>2, <3>1, IdleChat
  <2>4. ASSUME NEW i \in DOMAIN todo'
        PROVE  /\ todo'[i].table = "events" => Behind(i, Message(todo[i].row.msg))'
               /\ todo'[i].table # "admin_actions"
    <3>1. Grounded(todo')
      BY <1>1, ChatQueued
    <3>2. todo'[i].table = "events" => Behind(i, Message(todo[i].row.msg))'
      BY <2>2, <3>1 DEF Grounded, Behind
    <3>3. todo' \in Seq(Write) /\ (todo'[i].table = "admin_actions" => todo'[i].row = c)
      BY <2>2, TypeStep DEF TypeOK
    <3>4. todo'[i] \in Write
      BY <3>3
    <3> QED
      BY <1>0, <3>2, <3>3, <3>4 DEF Write
  <2>5. (\A d \in seen.actions : Has(seen, DecisionEvent(d)))'
    BY <2>2, ActionsAnnounced
  <2>6. /\ Where(c)' \in Live => Owed(c, Message(Anchor(c)))'
        /\ Where(c)' = "unavailable" => Owed(c, Event(PromptMsg(c), "system.error"))'
        /\ Where(c)' = "delivered" =>
               Owed(c, Event(ResponseMsg(c), "response.delivered"))'
    BY <1>1, ChatQueued
  <2> QED
    BY <2>3, <2>4, <2>5, <2>6 DEF Announced
<1>2. CASE ChatEnds(c)
  <2>1. /\ who = None /\ pc' = [pc EXCEPT ![c] = "error"]
        /\ UNCHANGED <<who, todo, next, seen, turn, side, verb, target>>
    BY <1>2 DEF ChatEnds, End, runVars, localVars
  <2>2. ASSUME NEW k \in Chat
        PROVE  /\ Where(k)' \in Live => Owed(k, Message(Anchor(k)))'
               /\ Where(k)' = "unavailable" => Owed(k, Event(PromptMsg(k), "system.error"))'
               /\ Where(k)' = "delivered" =>
                      Owed(k, Event(ResponseMsg(k), "response.delivered"))'
    <3>1. k = c => Where(k)' = "error"
      BY <1>0, <2>1 DEF Where
    <3>2. k # c => Where(k)' = Where(k)
      BY <1>0, <2>1 DEF Where
    <3>3. who # k /\ "error" \notin Live
      BY <1>0, <2>1 DEF Live, Held
    <3> QED
      BY <2>1, <3>1, <3>2, <3>3, IdleChat
  <2>3. todo' = << >>
    BY <2>1 DEF Places
  <2>4. (\A d \in seen.actions : Has(seen, DecisionEvent(d)))'
    BY <2>1, ActionsAnnounced
  <2> QED
    BY <2>2, <2>3, <2>4 DEF Announced
<1> QED
  BY <1>1, <1>2, ChatActions

LEMMA AnnouncedAdmin ==
    ASSUME TypeOK, Places, Announced, Backed(seen), [Next]_vars,
           NEW d \in Admin, AdminStep(d)
    PROVE  Announced'
<1>0. None \notin Handler /\ d \notin Chat /\ pc \in [Handler -> Place]
  BY HandlerAssumption DEF TypeOK
<1>1. ASSUME NEW h \in {d, None}, who = None, who' = h, seen' = seen,
             NEW to, pc' = [pc EXCEPT ![d] = to], UNCHANGED <<turn, side>>,
             NEW k \in Chat
      PROVE  /\ Where(k)' \in Live => Owed(k, Message(Anchor(k)))'
             /\ Where(k)' = "unavailable" => Owed(k, Event(PromptMsg(k), "system.error"))'
             /\ Where(k)' = "delivered" =>
                    Owed(k, Event(ResponseMsg(k), "response.delivered"))'
  <2>1. Where(k)' = Where(k) /\ who # k
    BY <1>0, <1>1 DEF Where
  <2> QED
    BY <1>1, <2>1, IdleChat
<1>2. CASE AdminRuns(d)
  <2>1. /\ who = None /\ who' = d /\ seen' = seen /\ pc' = [pc EXCEPT ![d] = "running"]
        /\ UNCHANGED <<turn, side>>
    BY <1>2 DEF AdminRuns, AdminRun, Run
  <2>2. Grounded(todo') /\ ActionBehind(todo', DecisionEvent(d)')
    BY <1>2, AdminQueued
  <2>3. DecisionEvent(who)' = DecisionEvent(d)'
    BY <2>1 DEF DecisionEvent
  <2>4. PICK e : e = DecisionEvent(who)'
    OBVIOUS
  <2>5. \A i \in DOMAIN todo' :
            /\ todo'[i].table = "events" => Behind(i, Message(todo[i].row.msg))'
            /\ todo'[i].table = "admin_actions" =>
                   Has(seen, e)' \/ \E j \in 1 .. i - 1 : todo'[j] = e
    BY <2>1, <2>2, <2>3, <2>4 DEF Grounded, ActionBehind, Behind
  <2>6. \A i \in DOMAIN todo' :
            todo'[i].table = "admin_actions" => Behind(i, DecisionEvent(who))'
    BY <2>4, <2>5 DEF Behind
  <2>7. (\A k \in seen.actions : Has(seen, DecisionEvent(k)))'
    BY <2>1, ActionsAnnounced
  <2> QED
    BY <1>1, <2>1, <2>5, <2>6, <2>7 DEF Announced
<1>3. CASE AdminEnds(d)
  <2>1. PICK from, to : AdminEnd(d, from, to)
    BY <1>3 DEF AdminEnds
  <2>2. /\ who = None /\ who' = None /\ pc' = [pc EXCEPT ![d] = to]
        /\ UNCHANGED <<todo, seen, turn, side>>
    BY <2>1 DEF AdminEnd, End, runVars
  <2>3. todo' = << >>
    BY <2>2 DEF Places
  <2>4. (\A k \in seen.actions : Has(seen, DecisionEvent(k)))'
    BY <2>2, ActionsAnnounced
  <2>5. None \in {d, None} /\ UNCHANGED <<turn, side>> /\ seen' = seen
    BY <2>2
  <2>6. \A k \in Chat :
            /\ Where(k)' \in Live => Owed(k, Message(Anchor(k)))'
            /\ Where(k)' = "unavailable" => Owed(k, Event(PromptMsg(k), "system.error"))'
            /\ Where(k)' = "delivered" =>
                   Owed(k, Event(ResponseMsg(k), "response.delivered"))'
    BY <1>1, <2>2, <2>5
  <2> QED
    BY <2>3, <2>4, <2>6 DEF Announced
<1> QED
  BY <1>2, <1>3, AdminActions

(* The first write, once it is done, is in the table.                        *)
LEMMA HeadDone ==
    ASSUME TypeOK, Places, todo # << >>
    PROVE  /\ \A w : Has(seen, w) => Has(Apply(seen, Head(todo)), w)
           /\ Head(todo).table \in {"messages", "events"} =>
                  Has(Apply(seen, Head(todo)), Head(todo))
           /\ Head(todo) = todo[1] /\ todo \in Seq(Write)
           /\ Tail(todo) \in Seq(Write) /\ Len(Tail(todo)) = Len(todo) - 1
           /\ \A i \in DOMAIN Tail(todo) : i + 1 \in DOMAIN todo /\ Tail(todo)[i] = todo[i + 1]
           /\ \A i \in DOMAIN todo : i # 1 =>
                  i - 1 \in DOMAIN Tail(todo) /\ Tail(todo)[i - 1] = todo[i]
<1>0. Own(who, todo)
  BY Running
<1>1. /\ Head(todo) = todo[1] /\ todo \in Seq(Write)
      /\ \A i \in DOMAIN Tail(todo) : i + 1 \in DOMAIN todo /\ Tail(todo)[i] = todo[i + 1]
      /\ \A i \in DOMAIN todo : i # 1 =>
             i - 1 \in DOMAIN Tail(todo) /\ Tail(todo)[i - 1] = todo[i]
  BY <1>0, TailFacts DEF Own
<1>2. \A w : Has(seen, w) => Has(Apply(seen, Head(todo)), w)
  BY HeadEffect DEF Has
<1>3. Head(todo).table = "messages" => Has(Apply(seen, Head(todo)), Head(todo))
  BY DEF Apply, Has, TypeOK, Database
<1>4. Head(todo).table = "events" => Has(Apply(seen, Head(todo)), Head(todo))
  BY DEF Apply, Has, TypeOK, Database
<1>5. Tail(todo) \in Seq(Write) /\ Len(Tail(todo)) = Len(todo) - 1
  BY <1>1
<1> QED
  BY <1>1, <1>2, <1>3, <1>4, <1>5

LEMMA AnnouncedWritten ==
    ASSUME TypeOK, Places, Announced, Backed(seen), [Next]_vars, Written
    PROVE  Announced'
<1>1. /\ todo # << >> /\ seen' = Apply(seen, Head(todo)) /\ todo' = Tail(todo)
      /\ UNCHANGED <<pc, turn, side, verb, target, who, next>>
  BY DEF Written, localVars
<1>2. /\ \A w : Has(seen, w) => Has(seen', w)
      /\ Head(todo).table \in {"messages", "events"} => Has(seen', Head(todo))
      /\ Head(todo) = todo[1] /\ todo \in Seq(Write)
      /\ todo' \in Seq(Write) /\ Len(todo') = Len(todo) - 1
      /\ \A i \in DOMAIN todo' : i + 1 \in DOMAIN todo /\ todo'[i] = todo[i + 1]
      /\ \A i \in DOMAIN todo : i # 1 => i - 1 \in DOMAIN todo' /\ todo'[i - 1] = todo[i]
  BY <1>1, HeadDone
<1>3. ASSUME NEW w, w.table \in {"messages", "events"}, NEW h, Owed(h, w)
      PROVE  Has(seen', w) \/ (who' = h /\ \E j \in DOMAIN todo' : todo'[j] = w)
  <2>1. CASE Has(seen, w)
    BY <1>2, <2>1
  <2>2. ASSUME NEW j \in DOMAIN todo, todo[j] = w, who = h
        PROVE  Has(seen', w) \/ (who' = h /\ \E l \in DOMAIN todo' : todo'[l] = w)
    <3>1. CASE j = 1
      BY <1>2, <1>3, <2>2, <3>1
    <3>2. CASE j # 1
      BY <1>1, <1>2, <2>2, <3>2
    <3> QED
      BY <3>1, <3>2
  <2> QED
    BY <1>3, <2>1, <2>2 DEF Owed
<1>4. ASSUME NEW w, w.table \in {"messages", "events"}, NEW i \in DOMAIN todo',
             Behind(i + 1, w)
      PROVE  Has(seen', w) \/ \E j \in 1 .. i - 1 : todo'[j] = w
  <2>1. CASE Has(seen, w)
    BY <1>2, <2>1
  <2>2. ASSUME NEW j \in 1 .. i, todo[j] = w
        PROVE  Has(seen', w) \/ \E l \in 1 .. i - 1 : todo'[l] = w
    <3>1. CASE j = 1
      BY <1>2, <1>4, <2>2, <3>1
    <3>2. CASE j # 1
      <4>1. j \in DOMAIN todo /\ j - 1 \in 1 .. i - 1
        BY <1>2, <2>2, <3>2
      <4> QED
        BY <1>2, <2>2, <3>2, <4>1
    <3> QED
      BY <3>1, <3>2
  <2>3. (i + 1) - 1 = i
    BY <1>2
  <2> QED
    BY <1>4, <2>1, <2>2, <2>3 DEF Behind
<1>5. /\ \A m : Message(m).table \in {"messages", "events"}
      /\ \A m, type : Event(m, type).table \in {"messages", "events"}
      /\ \A d : DecisionEvent(d).table \in {"messages", "events"}
  BY DEF Message, Event, DecisionEvent
<1>6. ASSUME NEW c \in Chat
      PROVE  /\ Where(c)' \in Live => Owed(c, Message(Anchor(c)))'
             /\ Where(c)' = "unavailable" => Owed(c, Event(PromptMsg(c), "system.error"))'
             /\ Where(c)' = "delivered" =>
                    Owed(c, Event(ResponseMsg(c), "response.delivered"))'
  <2>1. /\ Where(c)' = Where(c)
        /\ Message(Anchor(c))' = Message(Anchor(c))
        /\ Event(PromptMsg(c), "system.error")' = Event(PromptMsg(c), "system.error")
        /\ Event(ResponseMsg(c), "response.delivered")' =
               Event(ResponseMsg(c), "response.delivered")
    BY <1>1 DEF Where, Message, Event, Anchor, PromptMsg, ResponseMsg
  <2> QED
    BY <1>3, <1>5, <2>1 DEF Announced, Owed
<1>7. ASSUME NEW i \in DOMAIN todo'
      PROVE  /\ todo'[i].table = "events" => Behind(i, Message(todo[i].row.msg))'
             /\ todo'[i].table = "admin_actions" => Behind(i, DecisionEvent(who))'
  <2>1. i + 1 \in DOMAIN todo /\ todo'[i] = todo[i + 1]
    BY <1>2
  <2>2. ASSUME todo'[i].table = "events" PROVE Behind(i, Message(todo[i].row.msg))'
    <3>1. PICK w : w = Message(todo'[i].row.msg)
      OBVIOUS
    <3>2. Behind(i + 1, w) /\ w.table \in {"messages", "events"}
      BY <1>5, <2>1, <2>2, <3>1 DEF Announced
    <3> QED
      BY <1>4, <3>1, <3>2 DEF Behind
  <2>3. ASSUME todo'[i].table = "admin_actions" PROVE Behind(i, DecisionEvent(who))'
    <3>1. PICK w : w = DecisionEvent(who)
      OBVIOUS
    <3>2. Behind(i + 1, w) /\ w.table \in {"messages", "events"}
      BY <1>5, <2>1, <2>3, <3>1 DEF Announced
    <3>3. DecisionEvent(who)' = w
      BY <1>1, <3>1 DEF DecisionEvent, Event, Anchor, PromptMsg, ResponseMsg
    <3> QED
      BY <1>4, <3>2, <3>3 DEF Behind
  <2> QED
    BY <2>2, <2>3
<1>8. ASSUME NEW d \in seen'.actions
      PROVE  Has(seen', DecisionEvent(d)')
  <2>1. CASE d \in seen.actions
    <3>1. d \in Admin /\ pc[d] \in {"running", "done", "error", "lost"}
      BY <2>1 DEF Backed, TypeOK, Database
    <3>2. DecisionEvent(d)' = DecisionEvent(d) /\ Has(seen, DecisionEvent(d))
      BY <2>1, <3>1, DecisionEventKept DEF Announced
    <3> QED
      BY <1>2, <3>2
  <2>2. CASE d \notin seen.actions
    <3>1. d = who /\ Head(todo).table = "admin_actions"
      BY <1>1, <1>8, <2>2, HeadEffect
    <3>2. Behind(1, DecisionEvent(who))
      BY <1>1, <1>2, <3>1 DEF Announced
    <3>3. Has(seen, DecisionEvent(who))
      BY <3>2 DEF Behind
    <3>4. DecisionEvent(d)' = DecisionEvent(who)
      BY <1>1, <3>1 DEF DecisionEvent, Event, Anchor, PromptMsg, ResponseMsg
    <3> QED
      BY <1>2, <3>3, <3>4
  <2> QED
    BY <2>1, <2>2
<1> QED
  BY <1>6, <1>7, <1>8 DEF Announced

LEMMA AnnouncedRefused ==
    ASSUME TypeOK, Places, Announced, Backed(seen), [Next]_vars, Refused
    PROVE  Announced'
<1>0. None \notin Handler /\ pc \in [Handler -> Place]
  BY HandlerAssumption DEF TypeOK
<1>1. /\ todo # << >> /\ ~Accepts(seen, Head(todo)) /\ Fail /\ seen' = seen
      /\ UNCHANGED <<turn, side, verb, target>>
  BY DEF Refused, Fail, localVars
<1>2. Head(todo).table # "events"
  <2> SUFFICES ASSUME Head(todo).table = "events" PROVE FALSE
    OBVIOUS
  <2>1. Head(todo) = todo[1] /\ todo \in Seq(Write) /\ 1 \in DOMAIN todo
    BY <1>1, HeadDone
  <2>2. Behind(1, Message(todo[1].row.msg))
    BY <2>1 DEF Announced
  <2>3. Head(todo).row.msg \in seen.messages
    BY <2>1, <2>2 DEF Behind, Has, Message
  <2> QED
    BY <1>1, <2>3 DEF Accepts
<1>3. pc' = [pc EXCEPT ![who] = "error"] /\ who' = None /\ todo' = << >>
  BY <1>1, <1>2 DEF Fail
<1>4. who \in Handler
  BY <1>1, Running
<1>5. ASSUME NEW c \in Chat
      PROVE  /\ Where(c)' \in Live => Owed(c, Message(Anchor(c)))'
             /\ Where(c)' = "unavailable" => Owed(c, Event(PromptMsg(c), "system.error"))'
             /\ Where(c)' = "delivered" =>
                    Owed(c, Event(ResponseMsg(c), "response.delivered"))'
  <2>1. c = who => Where(c)' = "error"
    BY <1>0, <1>3, <1>4 DEF Where
  <2>2. c # who => Where(c)' = Where(c)
    BY <1>0, <1>3, <1>4 DEF Where
  <2>3. "error" \notin Live
    BY DEF Live, Held
  <2> QED
    BY <1>1, <2>1, <2>2, <2>3, IdleChat
<1>6. (\A d \in seen.actions : Has(seen, DecisionEvent(d)))'
  BY <1>1, ActionsAnnounced
<1> QED
  BY <1>3, <1>5, <1>6 DEF Announced

LEMMA AnnouncedFinish ==
    ASSUME TypeOK, Places, Announced, Backed(seen), [Next]_vars, Finish
    PROVE  Announced'
<1>1. /\ todo = << >> /\ todo' = << >> /\ pc' = [pc EXCEPT ![who] = next] /\ who' = None
      /\ seen' = seen /\ UNCHANGED <<turn, side>> /\ pc \in [Handler -> Place]
  BY DEF Finish, localVars, TypeOK
<1>2. ASSUME NEW c \in Chat
      PROVE  /\ Where(c)' \in Live => Owed(c, Message(Anchor(c)))'
             /\ Where(c)' = "unavailable" => Owed(c, Event(PromptMsg(c), "system.error"))'
             /\ Where(c)' = "delivered" =>
                    Owed(c, Event(ResponseMsg(c), "response.delivered"))'
  <2>1. /\ Where(c)' = Where(c) /\ Anchor(c)' = Anchor(c)
        /\ PromptMsg(c)' = PromptMsg(c) /\ ResponseMsg(c)' = ResponseMsg(c)
    BY <1>1, HandlerAssumption DEF Where, Anchor, PromptMsg, ResponseMsg
  <2>2. \A w : Owed(c, w) => Has(seen', w)
    BY <1>1 DEF Owed
  <2> QED
    BY <2>1, <2>2 DEF Announced, Owed, Message, Event
<1>3. (\A d \in seen.actions : Has(seen, DecisionEvent(d)))'
  BY <1>1, ActionsAnnounced
<1> QED
  BY <1>1, <1>2, <1>3 DEF Announced

LEMMA AnnouncedCrash ==
    ASSUME TypeOK, Places, Announced, Backed(seen), [Next]_vars, Crash, seen = durable
    PROVE  Announced'
<1>1. /\ todo' = << >> /\ who' = None /\ seen' = seen /\ UNCHANGED <<turn, side>>
      /\ \A c \in Chat : pc'[c] = IF pc[c] \in Interrupted THEN "lost" ELSE pc[c]
  BY DEF Crash, localVars
<1>2. ASSUME NEW c \in Chat
      PROVE  /\ Where(c)' \in Live => Owed(c, Message(Anchor(c)))'
             /\ Where(c)' = "unavailable" => Owed(c, Event(PromptMsg(c), "system.error"))'
             /\ Where(c)' = "delivered" =>
                    Owed(c, Event(ResponseMsg(c), "response.delivered"))'
  <2>1. Where(c)' = pc'[c]
    BY <1>1, HandlerAssumption DEF Where
  <2>2. CASE pc[c] \in Interrupted
    BY <1>1, <2>1, <2>2 DEF Live, Held
  <2>3. CASE pc[c] \notin Interrupted
    <3>1. who # c
      BY <2>3 DEF TypeOK, Interrupted
    <3>2. Where(c)' = Where(c)
      BY <1>1, <2>1, <2>3, <3>1 DEF Where
    <3> QED
      BY <1>1, <3>1, <3>2, IdleChat
  <2> QED
    BY <2>2, <2>3
<1>3. (\A d \in seen.actions : Has(seen, DecisionEvent(d)))'
  BY <1>1, ActionsAnnounced
<1> QED
  BY <1>1, <1>2, <1>3 DEF Announced

LEMMA AnnouncedStutter ==
    ASSUME Announced, UNCHANGED vars
    PROVE  Announced'
<1>1. UNCHANGED <<pc, turn, side, verb, target, who, todo, next, seen>>
  BY DEF vars, localVars, runVars
<1> QED
  BY <1>1 DEF Announced, Where, Owed, Behind, Has, DecisionEvent, Message, Event, Anchor,
              PromptMsg, ResponseMsg

LEMMA UnfaultedStep ==
    ASSUME TypeOK, Places, Backed(seen), Unfaulted, [Next]_vars
    PROVE  Unfaulted'
<1> SUFFICES ASSUME faults' = 0 PROVE seen' = durable' /\ Announced'
  BY DEF Unfaulted
<1>1. ~Faulted /\ faults' = faults
  <2>1. faults \in Nat
    BY BoundAssumption DEF TypeOK
  <2>2. ~Faulted
    BY <2>1 DEF Faulted
  <2>3. \A c \in Chat : ChatStep(c) => faults' = faults
    BY DEF ChatStep, Begin, PausePrompt, AllowPrompt, Generated, GenerateUnavailable,
           ModelError, PauseResponse, Deliver, Run, End, boundVars
  <2>4. \A d \in Admin : AdminStep(d) => faults' = faults
    BY DEF AdminStep, NotFound, Reject, Escalate, Release, Resume, ResumeDelivered,
           ResumeFailed, Run, End, boundVars
  <2> QED
    BY <2>2, <2>3, <2>4
       DEF Next, Written, Refused, Finish, Crash, Quiescent, vars, boundVars
<1>2. seen = durable /\ Announced
  BY <1>1 DEF Unfaulted
<1>3. CASE \E c \in Chat : ChatStep(c)
  <2>1. seen' = seen /\ durable' = durable
    BY <1>3, ChatActions DEF ChatRuns, ChatRun, Run, ChatEnds, End
  <2> QED
    BY <1>2, <1>3, <2>1, AnnouncedChat
<1>4. CASE \E d \in Admin : AdminStep(d)
  <2>1. seen' = seen /\ durable' = durable
    BY <1>4, AdminActions DEF AdminRuns, AdminRun, Run, AdminEnds, AdminEnd, End
  <2> QED
    BY <1>2, <1>4, <2>1, AnnouncedAdmin
<1>5. CASE Written
  BY <1>2, <1>5, AnnouncedWritten DEF Written
<1>6. CASE Refused
  BY <1>2, <1>6, AnnouncedRefused DEF Refused, Fail
<1>7. CASE Finish
  BY <1>2, <1>7, AnnouncedFinish DEF Finish
<1>8. CASE Crash
  BY <1>2, <1>8, AnnouncedCrash DEF Crash
<1>9. CASE UNCHANGED vars
  BY <1>2, <1>9, AnnouncedStutter DEF vars
<1> QED
  BY <1>1, <1>3, <1>4, <1>5, <1>6, <1>7, <1>8, <1>9 DEF Next, Quiescent

LEMMA UnfaultedInvariant == Spec => []Unfaulted
<1>1. Init => Unfaulted
  <2> SUFFICES ASSUME Init PROVE seen = durable /\ Announced
    BY DEF Unfaulted
  <2>1. /\ \A c \in Chat : Where(c) = "idle"
        /\ todo = << >> /\ seen.actions = {} /\ seen = durable
    BY DEF Init, Where
  <2>2. "idle" \notin Live
    BY DEF Live, Held
  <2> QED
    BY <2>1, <2>2 DEF Announced
<1>2. IInv /\ Unfaulted /\ [Next]_vars => Unfaulted'
  BY UnfaultedStep DEF IInv
<1> QED
  BY <1>1, <1>2, Invariant, PTL DEF Spec

(* Crashes alone lose no event: as long as no statement of SQLite fails,     *)
(* every decision on record has its event, and every answer of POST /chat    *)
(* the event that says so, in the committed tables (event_sink.py:30-51,     *)
(* admin.py:97-122, chat.py:170-231).                                        *)
THEOREM CrashesLoseNoEvent == Spec => []AuditedWithoutFaults
<1>1. ASSUME IInv, Unfaulted PROVE AuditedWithoutFaults
  <2> SUFFICES ASSUME faults = 0
               PROVE  /\ \A d \in durable.actions :
                             [msg |-> Anchor(target[d]), type |-> ApprovalEvent[verb[d]]]
                                 \in durable.events
                      /\ \A c \in Chat :
                             /\ pc[c] = "unavailable" =>
                                    [msg |-> PromptMsg(c), type |-> "system.error"]
                                        \in durable.events
                             /\ pc[c] = "delivered" =>
                                    [msg |-> ResponseMsg(c), type |-> "response.delivered"]
                                        \in durable.events
    BY DEF AuditedWithoutFaults
  <2>1. seen = durable /\ Announced
    BY <1>1 DEF Unfaulted
  <2>2. \A d \in durable.actions : Has(seen, DecisionEvent(d))
    BY <2>1 DEF Announced
  <2>3. ASSUME NEW c \in Chat, pc[c] \in {"unavailable", "delivered"}
        PROVE  Where(c) = pc[c] /\ who # c
    BY <1>1, <2>3 DEF IInv, TypeOK, Where
  <2>4. ASSUME NEW c \in Chat
        PROVE  /\ pc[c] = "unavailable" => Has(seen, Event(PromptMsg(c), "system.error"))
               /\ pc[c] = "delivered" => Has(seen, Event(ResponseMsg(c), "response.delivered"))
    BY <2>1, <2>3 DEF Announced, Owed
  <2> QED
    BY <2>1, <2>2, <2>4 DEF Has, DecisionEvent, Event
<1> QED
  BY <1>1, Invariant, UnfaultedInvariant, PTL
=============================================================================
