------------------------------ MODULE EventSink ------------------------------
(***************************************************************************)
(* EventSink.write_event (audit/event_sink.py) with the faults it swallows *)
(* and a crash between any two of its steps.  It is synchronous code on    *)
(* one thread and one connection, so calls do not overlap; but the         *)
(* connection is shared with every other writer of the gateway, whose      *)
(* commit also commits what a failed call left in the open transaction.    *)
(***************************************************************************)
EXTENDS Naturals, Sequences

CONSTANTS
    EventIds,    \* deterministic event ids: a retried write has the same one
    Malformed,   \* those whose event lacks a mandatory field
    MaxFaults    \* bound on the faults and crashes

ASSUME MalformedAssumption == Malformed \subseteq EventIds
ASSUME FaultAssumption == MaxFaults \in Nat

VARIABLES
    pc,          \* where write_event is
    cur,         \* the event it was called with
    isNew,       \* cur.rowcount == 1
    rows,        \* the events table as the connection sees it
    durable,     \* the events table as committed
    log,         \* what was appended to the JSONL file: [ev, part]
    acked,       \* the events a call returned True for
    faults

vars == <<pc, cur, isNew, rows, durable, log, acked, faults>>

Init ==
    /\ pc = "idle"
    /\ cur \in EventIds \ Malformed   \* unused before the first call
    /\ isNew = FALSE
    /\ rows = {}
    /\ durable = {}
    /\ log = << >>
    /\ acked = {}
    /\ faults = 0

Fault ==
    /\ faults < MaxFaults
    /\ faults' = faults + 1

(* MUTANT: no validation. *)
CallUnchecked(e) ==
    /\ pc = "idle"
    /\ cur' = e
    /\ pc' = "insert"
    /\ UNCHANGED <<isNew, rows, durable, log, acked, faults>>

(* Validation: ValueError for a malformed event, before anything is written. *)
Call(e) ==
    /\ pc = "idle"
    /\ e \notin Malformed
    /\ cur' = e
    /\ pc' = "insert"
    /\ UNCHANGED <<isNew, rows, durable, log, acked, faults>>

(* MUTANT: an ignored INSERT counts as a new row. *)
InsertIsNew ==
    /\ pc = "insert"
    /\ isNew' = TRUE
    /\ rows' = rows \cup {cur}
    /\ pc' = "commit"
    /\ UNCHANGED <<cur, durable, log, acked, faults>>

(* INSERT OR IGNORE opens a transaction, or joins the open one. *)
InsertRow ==
    /\ pc = "insert"
    /\ isNew' = (cur \notin rows)
    /\ rows' = rows \cup {cur}
    /\ pc' = "commit"
    /\ UNCHANGED <<cur, durable, log, acked, faults>>

(* The INSERT raises: a foreign key, which leaves the transaction as it was, *)
(* or an I/O fault, on which SQLite may also roll the transaction back.      *)
InsertFails ==
    /\ pc = "insert"
    /\ Fault
    /\ rows' \in {rows, durable}
    /\ pc' = "idle"
    /\ UNCHANGED <<cur, isNew, durable, log, acked>>

(* MUTANT: the append is not gated on the row being new. *)
CommitAppendsAlways ==
    /\ pc = "commit"
    /\ durable' = rows
    /\ pc' = "append"
    /\ UNCHANGED <<cur, isNew, rows, log, acked, faults>>

(* MUTANT: the call has succeeded once the row is committed. *)
CommitAcknowledges ==
    /\ pc = "commit"
    /\ durable' = rows
    /\ pc' = IF isNew THEN "append" ELSE "idle"
    /\ acked' = IF isNew THEN acked \cup {cur} ELSE acked
    /\ UNCHANGED <<cur, isNew, rows, log, faults>>

CommitRow ==
    /\ pc = "commit"
    /\ durable' = rows
    /\ pc' = IF isNew THEN "append" ELSE "idle"
    /\ UNCHANGED <<cur, isNew, rows, log, acked, faults>>

(* The commit raises: a busy database keeps the transaction open, a fault    *)
(* may roll it back.  Nothing in the handler calls rollback().               *)
CommitFails ==
    /\ pc = "commit"
    /\ Fault
    /\ rows' \in {rows, durable}
    /\ pc' = "idle"
    /\ UNCHANGED <<cur, isNew, durable, log, acked>>

(* How much of a line an append left: all of it, all but its newline, or a   *)
(* part that ends between two characters or within one.                      *)
Part == {"all", "bare", "cut", "split"}

Chunk(e, part) == [ev |-> e, part |-> part]

(* MUTANT: no newline. *)
AppendBareLine ==
    /\ pc = "append"
    /\ log' = Append(log, Chunk(cur, "bare"))
    /\ acked' = acked \cup {cur}
    /\ pc' = "idle"
    /\ UNCHANGED <<cur, isNew, rows, durable, faults>>

AppendLine ==
    /\ pc = "append"
    /\ log' = Append(log, Chunk(cur, "all"))
    /\ acked' = acked \cup {cur}
    /\ pc' = "idle"
    /\ UNCHANGED <<cur, isNew, rows, durable, faults>>

(* What is in the file when _append_jsonl does not return: nothing (makedirs *)
(* or open failed), a part of the line (the disk filled up), or all of it    *)
(* (fsync or chmod failed).                                                  *)
AppendInterrupted ==
    log' \in {log} \cup {Append(log, Chunk(cur, part)) : part \in Part}

AppendFails ==
    /\ pc = "append"
    /\ Fault
    /\ AppendInterrupted
    /\ pc' = "idle"
    /\ UNCHANGED <<cur, isNew, rows, durable, acked>>

(* insert_message, upsert_conversation or a writer of governance.py commits  *)
(* on the same connection.                                                   *)
OtherCommit ==
    /\ pc = "idle"
    /\ durable' = rows
    /\ UNCHANGED <<pc, cur, isNew, rows, log, acked, faults>>

(* The process dies and is started again. *)
Crash ==
    /\ Fault
    /\ rows' = durable
    /\ IF pc = "append" THEN AppendInterrupted ELSE UNCHANGED log
    /\ pc' = "idle"
    /\ UNCHANGED <<cur, isNew, durable, acked>>

Next ==
    \/ \E e \in EventIds : Call(e)
    \/ InsertRow \/ InsertFails
    \/ CommitRow \/ CommitFails
    \/ AppendLine \/ AppendFails
    \/ OtherCommit
    \/ Crash

Spec == Init /\ [][Next]_vars

-----------------------------------------------------------------------------
Written(e) == \E i \in DOMAIN log : log[i].ev = e

(* A malformed event is refused before it touches the tables. *)
TypeOK ==
    /\ pc \in {"idle", "insert", "commit", "append"}
    /\ cur \in EventIds \ Malformed
    /\ isNew \in BOOLEAN
    /\ rows \subseteq EventIds \ Malformed
    /\ durable \subseteq EventIds \ Malformed
    /\ log \in Seq([ev : EventIds, part : Part])
    /\ acked \subseteq EventIds
    /\ faults \in 0 .. MaxFaults

(* Why the gate works: a call that found its row new is the first to come as *)
(* far as the file with it, whatever was rolled back, left open, flushed by  *)
(* another writer or lost in a crash before.                                 *)
Gate ==
    /\ durable \subseteq rows
    /\ \A i \in DOMAIN log : log[i].ev \in durable
    /\ pc = "commit" => cur \in rows /\ (isNew => cur \notin durable)
    /\ pc = "append" => cur \in durable /\ ~Written(cur)
    /\ acked \subseteq durable

(* No event has two lines in the file, or a part of a line and a line. *)
WrittenOnce == \A i, j \in DOMAIN log : log[i].ev = log[j].ev => i = j

(* write_event keeps the promise of AuditLog. *)
Abstract == INSTANCE AuditLog WITH recorded <- durable, file <- log, acked <- acked

ImplementsAuditLog == Abstract!Spec
=============================================================================
