----------------------------- MODULE MCEventSink -----------------------------
(* An instance of EventSink and Export for TLC. *)
EXTENDS Export, TLC

CONSTANTS e1, e2, e3, bad

Events == {e1, e2, e3}
AllEvents == Events \cup {bad}
=============================================================================
