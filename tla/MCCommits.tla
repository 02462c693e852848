------------------------------ MODULE MCCommits ------------------------------
(* An instance of Commits for TLC. *)
EXTENDS Commits, TLC

CONSTANTS c1, c2, d1, d2

Requests == Permutations({c1, c2}) \cup Permutations({d1, d2})
=============================================================================
