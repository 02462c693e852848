-------------------------- MODULE MCClassification --------------------------
(***************************************************************************)
(* Instances of Classification for TLC: codes of four severities, two in    *)
(* one category, and one that no table knows; findings that                *)
(* share a category and differ in severity.                                *)
(***************************************************************************)
EXTENDS Classification

MCCode == {"S3", "S2", "S8", "S5", "S99"}
MCFinding ==
    {[category |-> "secrets", severity |-> "high"],
     [category |-> "dlp", severity |-> "low"],
     [category |-> "secrets", severity |-> "medium"]}
=============================================================================
