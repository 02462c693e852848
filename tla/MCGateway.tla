------------------------------ MODULE MCGateway ------------------------------
(***************************************************************************)
(* Instances of Gateway for TLC.  Two prompts and two replies, one of each *)
(* with a secret the scanner rates high; a guard that says none or high.   *)
(***************************************************************************)
EXTENDS Gateway, TLC

CONSTANTS c1, c2, c3, d1, d2, d3, k1, k2
CONSTANTS benign, secret, answer, leak, masked, maskedLeak

MCText == {benign, secret, answer, leak, masked, maskedLeak}
MCScan == [t \in MCText |-> IF t \in {secret, leak} THEN "high" ELSE "none"]
MCRedact ==
    [t \in MCText |-> CASE t = secret -> masked [] t = leak -> maskedLeak [] OTHER -> t]

(* One text of each kind where only interleavings are in question: the       *)
(* guard may still pause it.                                                 *)
OneText == {benign}
TwoPrompts == {benign, secret}
OneReply == {answer}
TwoReplies == {answer, leak}
GuardHigh == {"none", "high"}
GuardNone == {"none"}

Requests == Permutations(Chat) \cup Permutations(Admin) \cup Permutations(Conv)
=============================================================================
