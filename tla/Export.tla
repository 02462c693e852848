------------------------------- MODULE Export -------------------------------
(***************************************************************************)
(* GET /export/jsonl (routes/admin.py) over the file that EventSink  *)
(* writes.  It reads the file without an await, so no append is under way; *)
(* what it finds is whatever the appends, and their faults, left there.    *)
(***************************************************************************)
EXTENDS EventSink, FiniteSetsExt

(* A chunk that follows an unfinished line continues it. *)
Starts == {i \in DOMAIN log : i = 1 \/ log[i - 1].part = "all"}

(* "for line in fh": the line that begins with chunk i. *)
LineAt(i) ==
    LET later == {j \in Starts : j > i} IN
    SubSeq(log, i, IF later = {} THEN Len(log) ELSE Min(later) - 1)

(* open(..., encoding="utf-8") is strict: a character cut in two raises, and *)
(* only FileNotFoundError is caught.                                         *)
Undecodable == \E i \in DOMAIN log : log[i].part = "split"

(* json.loads takes one whole object, with or without its newline. *)
Parses(line) == Len(line) = 1 /\ line[1].part \in {"all", "bare"}

(* MUTANT: the first line that does not parse ends the export. *)
RedactedBreaks == {i \in Starts : \A j \in Starts : j <= i => Parses(LineAt(j))}

(* mode=redacted drops the lines that do not parse. *)
Redacted == {i \in Starts : Parses(LineAt(i))}

Exported(e) == ~Undecodable /\ \E i \in Redacted : log[i].ev = e

-----------------------------------------------------------------------------
Torn == {i \in DOMAIN log : log[i].part # "all"}

(* An append that failed costs the redacted export, besides its own event,   *)
(* at most the one whose line follows it: as long as the file decodes, no    *)
(* more acknowledged events are missing than appends were torn.              *)
LossBounded ==
    ~Undecodable => Cardinality({e \in acked : ~Exported(e)}) <= Cardinality(Torn)

(* The log is append-only for who reads it too: an acknowledged event that   *)
(* an export has shown is in every later export, unless the file no longer   *)
(* decodes.                                                                  *)
ExportsGrow ==
    [][\A e \in acked : Exported(e) => Exported(e)' \/ Undecodable']_vars
=============================================================================
