------------------------------ MODULE Taxonomy ------------------------------
(***************************************************************************)
(* The severity scale of the gateway (classification/taxonomy.py) and the  *)
(* pause decision taken on it (policy/policy.yaml through governance.py).  *)
(***************************************************************************)
EXTENDS Naturals

(* SEVERITY_ORDER: the index in the list is the rank. *)
Rank == [none |-> 0, low |-> 1, medium |-> 2, high |-> 3, critical |-> 4]

Severity == DOMAIN Rank

(* max_severity looks a value up in SEVERITY_ORDER and falls back on rank 0, *)
(* so a value outside the scale counts as "none".                            *)
Known(s) == IF s \in Severity THEN s ELSE "none"

MaxSeverity(a, b) ==
    IF Rank[Known(a)] >= Rank[Known(b)] THEN Known(a) ELSE Known(b)

(* SCODE_TO_CANONICAL: the category and the severity of each hazard code of  *)
(* the guard model.                                                          *)
ScodeToCanonical ==
    LET Entry(c, s) == [category |-> c, severity |-> s] IN
    [S1  |-> Entry("dangerous_behavior", "high"),
     S2  |-> Entry("illegal_behavior", "high"),
     S3  |-> Entry("illegal_behavior", "critical"),
     S4  |-> Entry("child_safety", "critical"),
     S5  |-> Entry("unknown", "medium"),
     S6  |-> Entry("specialized_advice", "medium"),
     S7  |-> Entry("privacy", "medium"),
     S8  |-> Entry("intellectual_property", "low"),
     S9  |-> Entry("dangerous_behavior", "critical"),
     S10 |-> Entry("hate_discrimination", "high"),
     S11 |-> Entry("self_harm", "high"),
     S12 |-> Entry("sexual_content", "medium"),
     S13 |-> Entry("elections", "medium"),
     S14 |-> Entry("unknown", "medium")]

(* pause.severities of the policy file; the fallback policy has the same two. *)
PauseSeverities == {"high", "critical"}

IsPaused(s) == s \in PauseSeverities
=============================================================================
