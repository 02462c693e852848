------------------------------- MODULE Redact -------------------------------
(***************************************************************************)
(* One call of governance.redact: the spans of every pattern, one pattern  *)
(* after the other, then a mask in the place of each span, from the last   *)
(* start to the first.  The text is a sequence of distinct characters and  *)
(* a mask a sequence of characters of its own.                             *)
(***************************************************************************)
EXTENDS Naturals, Sequences, SequencesExt

CONSTANTS
    Length,      \* the length of the text
    Patterns,    \* the categories of _REDACT_PATTERNS, in their order
    MaskLen,     \* MaskLen[c]: the length of the mask of category c
    MaxMatches   \* bound on the matches of one pattern

ASSUME LengthAssumption == Length \in Nat
ASSUME PatternAssumption ==
    /\ Patterns \in Seq(STRING)
    /\ \A n \in DOMAIN Patterns : MaskLen[Patterns[n]] \in Nat \ {0}
ASSUME MatchAssumption == MaxMatches \in Nat

VARIABLES
    p,         \* the next pattern
    spans,     \* the spans found, in the order they are found
    order,     \* the same from the last start to the first
    k,         \* the next span of order to mask
    redacted   \* the text, masked so far

vars == <<p, spans, order, k, redacted>>

Original == [n \in 1 .. Length |-> <<"char", n>>]
Mask(c) == [n \in 1 .. MaskLen[c] |-> <<c, n>>]

(* text[:n] and text[n:]. *)
Before(text, n) == SubSeq(text, 1, IF n < Len(text) THEN n ELSE Len(text))
From(text, n) == SubSeq(text, n + 1, Len(text))

Init ==
    /\ p = 1
    /\ spans = <<>>
    /\ order = <<>>
    /\ k = 1
    /\ redacted = Original

Searched == p > Len(Patterns)
Sorted == Searched /\ Len(order) = Len(spans)

-----------------------------------------------------------------------------
Apart(x, y) == x.end <= y.start \/ y.end <= x.start

(* What finditer may yield for a pattern: non-empty matches from left to     *)
(* right, none of which overlaps another of the same pattern.                *)
Matches(c) ==
    {m \in BoundedSeq([category : {c}, start : 0 .. Length, end : 0 .. Length], MaxMatches) :
        /\ \A n \in DOMAIN m : m[n].start < m[n].end
        /\ \A n \in DOMAIN m \ {1} : m[n - 1].end <= m[n].start}

FindMatches ==
    /\ ~Searched
    /\ \E m \in Matches(Patterns[p]) : spans' = spans \o m
    /\ p' = p + 1
    /\ UNCHANGED <<order, k, redacted>>

(* MUTANT: the key's default order. *)
FirstStartFirst(s, m, n) == s[m].start < s[n].start \/ (s[m].start = s[n].start /\ m < n)

(* sorted(..., reverse=True) keeps spans of one start in their order. *)
LastStartFirst(s, m, n) == s[m].start > s[n].start \/ (s[m].start = s[n].start /\ m < n)

SortSpans ==
    /\ Searched /\ ~Sorted
    /\ \E ranked \in Bijection(DOMAIN spans, DOMAIN spans) :
        /\ \A m, n \in DOMAIN spans : m < n => LastStartFirst(spans, ranked[m], ranked[n])
        /\ order' = [n \in DOMAIN spans |-> spans[ranked[n]]]
    /\ UNCHANGED <<p, spans, k, redacted>>

(* MUTANT: end is taken for the last character of the span. *)
MaskPastEnd(text, s) ==
    Before(text, s.start) \o Mask(s.category) \o From(text, s.end + 1)

MaskOne(text, s) ==
    Before(text, s.start) \o Mask(s.category) \o From(text, s.end)

MaskSpan ==
    /\ Sorted
    /\ k <= Len(order)
    /\ redacted' = MaskOne(redacted, order[k])
    /\ k' = k + 1
    /\ UNCHANGED <<p, spans, order>>

Finished == Sorted /\ k > Len(order)

(* The call has returned. *)
Returned == Finished /\ UNCHANGED vars

Next == FindMatches \/ SortSpans \/ MaskSpan \/ Returned

Spec == Init /\ [][Next]_vars

-----------------------------------------------------------------------------
Disjoint == \A m, n \in DOMAIN spans : m # n => Apart(spans[m], spans[n])

(* "Apply masks back-to-front so offsets stay valid": the text up to the end *)
(* of the next span is still the original one when no two spans overlap, and *)
(* up to its start in any case.                                              *)
OffsetsValid ==
    Sorted /\ k <= Len(order) =>
        /\ Before(redacted, order[k].start) = Before(Original, order[k].start)
        /\ Disjoint =>
              Before(redacted, order[k].end) = Before(Original, order[k].end)

Inside(n, s) == s.start < n /\ n <= s.end

(* The text read from left to right, with the mask of a span where it starts *)
(* and nothing for the rest of it.                                           *)
Piece(n) ==
    IF \E s \in ToSet(spans) : s.start + 1 = n
    THEN Mask((CHOOSE s \in ToSet(spans) : s.start + 1 = n).category)
    ELSE IF \E s \in ToSet(spans) : Inside(n, s) THEN <<>> ELSE <<Original[n]>>

Joined(pieces) == FoldLeft(LAMBDA done, piece : done \o piece, <<>>, pieces)

MaskedText == Joined([n \in 1 .. Length |-> Piece(n)])

(* When no two matches overlap, every match is replaced by the mask of its   *)
(* category and nothing else changes, whatever the masks' lengths.           *)
MasksExactly == Finished /\ Disjoint => redacted = MaskedText

-----------------------------------------------------------------------------
(* "Mask sensitive substrings", "so offsets stay valid": no character of a   *)
(* match is left.                                                            *)
MatchesMasked ==
    Finished => \A s \in ToSet(spans), n \in 1 .. Length :
        Inside(n, s) => ~Contains(redacted, Original[n])
=============================================================================
