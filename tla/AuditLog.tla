------------------------------ MODULE AuditLog ------------------------------
(***************************************************************************)
(* What audit/event_sink.py promises of the pair it writes, the events     *)
(* table and the JSONL file: an event is recorded before any of it reaches *)
(* the file, reaches the file at most once, and write_event answers True   *)
(* only for an event that is in both.                                      *)
(***************************************************************************)
EXTENDS Naturals, Sequences

CONSTANT EventIds

VARIABLES
    recorded,   \* the events in the table for good
    file,       \* what was appended, in order: [ev, part], part = "all" for
                \* a line with its newline
    acked       \* the events write_event has answered True for

auditVars == <<recorded, file, acked>>

Part == {"all", "bare", "cut", "split"}

InFile(e) == \E i \in DOMAIN file : file[i].ev = e

Init ==
    /\ recorded = {}
    /\ file = << >>
    /\ acked = {}

(* A commit makes every row of its transaction durable. *)
Record ==
    /\ \E s \in SUBSET EventIds : recorded' = recorded \cup s
    /\ UNCHANGED <<file, acked>>

(* The line of e is written, in whole or in part, and only then acknowledged. *)
Publish(e) ==
    /\ e \in recorded
    /\ ~InFile(e)
    /\ \E part \in Part, ack \in BOOLEAN :
        /\ ack => part = "all"
        /\ file' = Append(file, [ev |-> e, part |-> part])
        /\ acked' = IF ack THEN acked \cup {e} ELSE acked
    /\ UNCHANGED recorded

Next == Record \/ \E e \in EventIds : Publish(e)

Spec == Init /\ [][Next]_auditVars
=============================================================================
