----------------------------- MODULE MCCardScan -----------------------------
(***************************************************************************)
(* The instance of CardMasking for TLC, with the bounds of the patterns    *)
(* about ten digits lower: candidates of 3 to 5 digits, cards of 2 to 4,   *)
(* "card_number" of 2 to 3, and masks of 4 and 3 characters.               *)
(***************************************************************************)
EXTENDS CardMasking

Digits    == {0, 5, 9}
MCChars   == Digits \cup {Dash, Newline, Letter}
MCMaskLen == [card_number |-> 4, phone |-> 3]
=============================================================================
