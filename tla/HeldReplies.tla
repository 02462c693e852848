------------------------------ MODULE HeldReplies ------------------------------
(***************************************************************************)
(* What the gateway promises about the replies it withholds: a withheld    *)
(* reply is in the approval queue, it is answered for at most once, by a   *)
(* release or by a rejection, the queue shows that answer before it is     *)
(* given, and shows it for ever.  A reply that a crash dropped is answered *)
(* for by nobody.                                                          *)
(***************************************************************************)
CONSTANTS
    Chat,        \* the requests whose replies may be withheld
    Releasing,   \* the statuses of a released reply
    Queued       \* the statuses of a row of the queue

VARIABLES
    fate,        \* what became of the reply of each request
    queue        \* the committed status of its approval, "none": no row

heldVars == <<fate, queue>>

Final == {"released", "rejected", "dropped"}

Init ==
    /\ fate = [c \in Chat |-> "none"]
    /\ queue = [c \in Chat |-> "none"]

(* Rows of the queue come and change, but not those that are settled. *)
Record ==
    /\ queue' \in [Chat -> Queued \cup {"none"}]
    /\ \A c \in Chat : fate[c] \in Final => queue'[c] = queue[c]
    /\ UNCHANGED fate

Settle(c, from, to) ==
    /\ fate[c] = from
    /\ fate' = [fate EXCEPT ![c] = to]
    /\ UNCHANGED queue

Hold(c) == queue[c] \in Queued /\ Settle(c, "none", "held")

Release(c) == queue[c] \in Releasing /\ Settle(c, "held", "released")

Reject(c) == queue[c] = "rejected" /\ Settle(c, "held", "rejected")

Drop ==
    /\ fate' = [c \in Chat |-> IF fate[c] = "held" THEN "dropped" ELSE fate[c]]
    /\ UNCHANGED queue

Next ==
    \/ Record
    \/ \E c \in Chat : Hold(c) \/ Release(c) \/ Reject(c)
    \/ Drop

Spec == Init /\ [][Next]_heldVars
=============================================================================
