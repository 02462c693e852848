------------------------------ MODULE MCRedact ------------------------------
(***************************************************************************)
(* Instances of Redact for TLC: two patterns that may match at the same    *)
(* place, with masks shorter and longer than the matches they replace.     *)
(***************************************************************************)
EXTENDS Redact

MCPatterns == <<"card_number", "phone">>
MCMaskLen == [card_number |-> 3, phone |-> 1]
MCLongMask == [card_number |-> 2, phone |-> 2]
=============================================================================
