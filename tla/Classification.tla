--------------------------- MODULE Classification ---------------------------
(***************************************************************************)
(* One call of classify_text (classification/orchestrator.py): the scanner *)
(* first, then the guard (adapters/ollama_guard.py, whose answer goes      *)
(* through taxonomy.parse_guard_output and map_scodes), then the merge.    *)
(* The loops of map_scodes and _max_finding_severity are steps, one for    *)
(* each element.                                                           *)
(***************************************************************************)
EXTENDS Taxonomy, Sequences, SequencesExt

CONSTANTS
    Code,        \* the hazard codes the guard model may write
    Finding,     \* the scanner's findings, [category, severity]
    MaxCodes,    \* bound on the codes of one answer
    MaxFindings  \* bound on the findings of one text

(* The categories of the table's entries, and those of the scanner. *)
GuardCategory == {ScodeToCanonical[c].category : c \in DOMAIN ScodeToCanonical}
ScannerCategory == {"secrets", "dlp"}
Category == GuardCategory \cup ScannerCategory

ASSUME FindingAssumption ==
    Finding \subseteq [category : ScannerCategory, severity : Severity]
ASSUME BoundAssumption == MaxCodes \in Nat /\ MaxFindings \in Nat

VARIABLES
    pc,                         \* where the call is
    label, codes,               \* the answer, as parse_guard_output returns it
    i, mapped, guardSev,        \* map_scodes: next code, categories, severity
    findings, j, scanSev,       \* the scanner's findings and their maximum
    overall, categories         \* the merged block

vars == <<pc, label, codes, i, mapped, guardSev,
          findings, j, scanSev, overall, categories>>

Init ==
    /\ pc = "scan"
    /\ label = "unknown"
    /\ codes = <<>>
    /\ i = 1
    /\ mapped = <<>>
    /\ guardSev = "none"
    /\ findings = <<>>
    /\ j = 1
    /\ scanSev = "none"
    /\ overall = "none"
    /\ categories = <<>>

-----------------------------------------------------------------------------
(* dict.fromkeys: the first occurrence of every element, in order. *)
FromKeys(s) ==
    FoldLeft(LAMBDA kept, x : IF Contains(kept, x) THEN kept ELSE Append(kept, x),
             <<>>, s)

(* MUTANT: the codes are read whatever the first word is. *)
AnswersWithCodes == [label : {"safe", "unsafe", "unknown"}, codes : BoundedSeq(Code, MaxCodes)]

(* What parse_guard_output may return: only an answer that starts with       *)
(* "unsafe" has codes, the non-empty fields of its second line, and it may   *)
(* have none (no second line, or an empty one).                              *)
ParsedAnswers ==
    [label : {"unsafe"}, codes : BoundedSeq(Code, MaxCodes)]
        \cup [label : {"safe", "unknown"}, codes : {<<>>}]

Recognised(c) == c \in DOMAIN ScodeToCanonical

-----------------------------------------------------------------------------
(* scanner_adapter.scan, before the guard is asked. *)
ScanText ==
    /\ pc = "scan"
    /\ findings' \in BoundedSeq(Finding, MaxFindings)
    /\ pc' = "guard"
    /\ UNCHANGED <<label, codes, i, mapped, guardSev, j, scanSev,
                   overall, categories>>

GuardAnswers ==
    /\ pc = "guard"
    /\ \E a \in ParsedAnswers : label' = a.label /\ codes' = a.codes
    /\ pc' = "map"
    /\ UNCHANGED <<i, mapped, guardSev, findings, j, scanSev, overall, categories>>

(* ConnectError, a timeout or HTTP 404: _GUARD_UNAVAILABLE_RESULT stands in, *)
(* which is what the locals still hold.                                      *)
GuardUnavailable ==
    /\ pc = "guard"
    /\ pc' = "findings"
    /\ UNCHANGED <<label, codes, i, mapped, guardSev, findings, j,
                   scanSev, overall, categories>>

(* Any other failure: raise_for_status, a body that is not JSON or has no    *)
(* message.  Nothing catches it.                                             *)
GuardRaises ==
    /\ pc = "guard"
    /\ pc' = "raised"
    /\ UNCHANGED <<label, codes, i, mapped, guardSev, findings, j,
                   scanSev, overall, categories>>

(* MUTANT: the severity of the last code instead of the highest. *)
MapLastScode ==
    /\ pc = "map"
    /\ i <= Len(codes)
    /\ IF Recognised(codes[i])
       THEN LET entry == ScodeToCanonical[codes[i]] IN
            /\ mapped' = Append(mapped, entry.category)
            /\ guardSev' = entry.severity
       ELSE UNCHANGED <<mapped, guardSev>>
    /\ i' = i + 1
    /\ UNCHANGED <<pc, label, codes, findings, j, scanSev,
                   overall, categories>>

(* The loop of map_scodes: an unrecognised code is skipped. *)
MapScode ==
    /\ pc = "map"
    /\ i <= Len(codes)
    /\ IF Recognised(codes[i])
       THEN LET entry == ScodeToCanonical[codes[i]] IN
            /\ mapped' = Append(mapped, entry.category)
            /\ guardSev' = MaxSeverity(guardSev, entry.severity)
       ELSE UNCHANGED <<mapped, guardSev>>
    /\ i' = i + 1
    /\ UNCHANGED <<pc, label, codes, findings, j, scanSev,
                   overall, categories>>

(* The end of map_scodes. *)
ScodesMapped ==
    /\ pc = "map"
    /\ i > Len(codes)
    /\ mapped' = FromKeys(mapped)
    /\ pc' = "findings"
    /\ UNCHANGED <<label, codes, i, guardSev, findings, j, scanSev,
                   overall, categories>>

(* The loop of _max_finding_severity. *)
MaxFinding ==
    /\ pc = "findings"
    /\ j <= Len(findings)
    /\ scanSev' = MaxSeverity(scanSev, findings[j].severity)
    /\ j' = j + 1
    /\ UNCHANGED <<pc, label, codes, i, mapped, guardSev, findings,
                   overall, categories>>

(* The categories of the guard and of the findings, before they are merged. *)
Combined == mapped \o [n \in DOMAIN findings |-> findings[n].category]

(* MUTANT: the findings' categories are added to the guard's as they are. *)
MergeWithDuplicates ==
    /\ pc = "findings"
    /\ j > Len(findings)
    /\ overall' = MaxSeverity(guardSev, scanSev)
    /\ categories' = Combined
    /\ pc' = "done"
    /\ UNCHANGED <<label, codes, i, mapped, guardSev, findings, j,
                   scanSev>>

Merge ==
    /\ pc = "findings"
    /\ j > Len(findings)
    /\ overall' = MaxSeverity(guardSev, scanSev)
    /\ categories' = FromKeys(Combined)
    /\ pc' = "done"
    /\ UNCHANGED <<label, codes, i, mapped, guardSev, findings, j,
                   scanSev>>

(* The call has returned, or raised. *)
Returned ==
    /\ pc \in {"done", "raised"}
    /\ UNCHANGED vars

Next ==
    \/ ScanText \/ GuardAnswers \/ GuardUnavailable \/ GuardRaises
    \/ MapScode \/ ScodesMapped \/ MaxFinding \/ Merge
    \/ Returned

Spec == Init /\ [][Next]_vars

-----------------------------------------------------------------------------
(* Types, and what the locals of a call say of each other: only an "unsafe"  *)
(* answer has codes.                                                         *)
TypeOK ==
    /\ pc \in {"scan", "guard", "map", "findings", "done", "raised"}
    /\ label \in {"safe", "unsafe", "unknown"}
    /\ codes \in Seq(Code)
    /\ mapped \in Seq(Category)
    /\ findings \in Seq(Finding)
    /\ i \in 1 .. Len(codes) + 1
    /\ j \in 1 .. Len(findings) + 1
    /\ {guardSev, scanSev, overall} \subseteq Severity
    /\ categories \in Seq(Category)
    /\ codes # <<>> => label = "unsafe"

(* The severities the answer of the guard and the findings of the scanner    *)
(* call for.                                                                 *)
GuardSeverities ==
    {ScodeToCanonical[c].severity : c \in {x \in ToSet(codes) : Recognised(x)}}

ScanSeverities == {f.severity : f \in ToSet(findings)}

(* The severity of the block is the highest of all the recognised codes and  *)
(* all the findings, wherever they stand, and "none" only without any: in    *)
(* particular no outcome of the guard lowers what the scanner found.         *)
OverallIsHighest ==
    pc = "done" =>
        LET all == GuardSeverities \cup ScanSeverities IN
        /\ \A s \in all : Rank[overall] >= Rank[s]
        /\ overall \in all \cup {"none"}

(* The position of the first x of s. *)
FirstIndex(s, x) == CHOOSE n \in DOMAIN s :
    s[n] = x /\ \A m \in 1 .. n - 1 : s[m] # x

CategoriesOf(s) ==
    FoldLeft(LAMBDA cats, c : IF Recognised(c)
                              THEN Append(cats, ScodeToCanonical[c].category)
                              ELSE cats,
             <<>>, s)

GuardCategories == CategoriesOf(codes)

(* The categories of the block are those of the recognised codes, then those *)
(* of the findings, each where it first occurs: merging a list that was      *)
(* deduplicated already neither loses nor reorders nor repeats one.          *)
CategoriesInOrder ==
    pc = "done" =>
        LET all == GuardCategories \o [n \in DOMAIN findings |-> findings[n].category] IN
        /\ ToSet(categories) = ToSet(all)
        /\ \A m, n \in DOMAIN categories : m < n =>
              FirstIndex(all, categories[m]) < FirstIndex(all, categories[n])
=============================================================================
