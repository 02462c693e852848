---------------------------- MODULE CardMasking ----------------------------
(***************************************************************************)
(* The card scan and then governance.redact on the same text, as when an   *)
(* administrator releases a text that was held for a card.  Of the         *)
(* patterns redact has, "card_number" and "phone" are the two that can     *)
(* begin and end within a card; their matches overlap.  A character        *)
(* of the redacted text is its place in the original one, 0 in a mask.     *)
(***************************************************************************)
EXTENDS CardScan

CONSTANTS
    MinMask, MaxMask,   \* the digits of "card_number": {13,16}
    PhoneMiddle,        \* the least middle of "phone": {7,}
    MaskLen             \* MaskLen[c]: the length of the mask of category c

Patterns == <<"card_number", "phone">>

(* A candidate of the scan is long enough for "card_number", and a match of  *)
(* "card_number" for "phone": 13, 16 and 7 against candidates from 14 digits. *)
ASSUME MaskAssumption ==
    /\ MinMask \in Nat /\ MaxMask \in Nat /\ MinMask <= MinRep + 1
    /\ PhoneMiddle \in Nat /\ PhoneMiddle + 2 <= MinMask
    /\ \A n \in DOMAIN Patterns : MaskLen[Patterns[n]] \in Nat \ {0}

VARIABLES
    p,         \* the next pattern of redact
    rpos,      \* its finditer goes on after this character
    spans,     \* the spans found
    masked,    \* those of them that are masked
    redacted   \* the text, masked so far

maskVars == <<p, rpos, spans, masked, redacted>>

-----------------------------------------------------------------------------
(* Both patterns, \b(?:\d[ -]*?){13,16}\b and \b(?:\+?\d[\d -]{7,}\d)\b on a *)
(* text without a plus sign, match from a digit to a digit.                  *)
IsNumber(s) ==
    /\ WordEdge(s.start) /\ WordEdge(s.end)
    /\ IsAt(s.start + 1, Digit) /\ IsAt(s.end, Digit)
    /\ \A n \in s.start + 1 .. s.end : text[n] \in Digit \cup {Blank, Dash}

MatchOf(category, s) ==
    /\ IsNumber(s)
    /\ category = "card_number" => Len(DigitsOf(s)) \in MinMask .. MaxMask
    /\ category = "phone" => s.end - s.start >= PhoneMiddle + 2

(* The leftmost match left, and the longest of its start: both are greedy.   *)
NextMatch(category, s) ==
    /\ MatchOf(category, s) /\ rpos <= s.start
    /\ \A t \in Spans : MatchOf(category, t) /\ rpos <= t.start =>
           \/ s.start < t.start
           \/ s.start = t.start /\ t.end <= s.end

Tagged(category, s) == [category |-> category, start |-> s.start, end |-> s.end]

MaskingInit ==
    /\ Init
    /\ p = 1
    /\ rpos = 0
    /\ spans = {}
    /\ masked = {}
    /\ redacted = [n \in 1 .. Len(text) |-> n]

(* Only a text the scan found a card in is held, and then redacted.          *)
Held == pc = "returned" /\ findings # << >>
Searched == p > Len(Patterns)

ScanStep == Next /\ UNCHANGED maskVars

(* MUTANT: the search goes on within the match. *)
FindMatchWithin ==
    /\ Held /\ ~Searched
    /\ \E s \in Spans :
        /\ NextMatch(Patterns[p], s)
        /\ spans' = spans \cup {Tagged(Patterns[p], s)}
        /\ rpos' = s.start + 1
    /\ UNCHANGED <<vars, p, masked, redacted>>

FindMatch ==
    /\ Held /\ ~Searched
    /\ \E s \in Spans :
        /\ NextMatch(Patterns[p], s)
        /\ spans' = spans \cup {Tagged(Patterns[p], s)}
        /\ rpos' = s.end
    /\ UNCHANGED <<vars, p, masked, redacted>>

NextPattern ==
    /\ Held /\ ~Searched
    /\ ~\E s \in Spans : MatchOf(Patterns[p], s) /\ rpos <= s.start
    /\ p' = p + 1
    /\ rpos' = 0
    /\ UNCHANGED <<vars, spans, masked, redacted>>

(* MUTANT: not reversed. *)
FirstStartFirst(s, t) ==
    \/ s.start < t.start
    \/ s.start = t.start /\ s.category = "card_number"

(* sorted(..., reverse=True) keeps the spans of one start in their order.    *)
LastStartFirst(s, t) ==
    \/ s.start > t.start
    \/ s.start = t.start /\ s.category = "card_number"

Mask(category) == [n \in 1 .. MaskLen[category] |-> 0]

(* done[:n] and done[n:]. *)
Before(done, n) == SubSeq(done, 1, IF n < Len(done) THEN n ELSE Len(done))
From(done, n) == SubSeq(done, n + 1, Len(done))

MaskOne(done, s) == Before(done, s.start) \o Mask(s.category) \o From(done, s.end)

MaskSpan ==
    /\ Searched
    /\ \E s \in spans \ masked :
        /\ \A t \in (spans \ masked) \ {s} : LastStartFirst(s, t)
        /\ redacted' = MaskOne(redacted, s)
        /\ masked' = masked \cup {s}
    /\ UNCHANGED <<vars, p, rpos, spans>>

MaskingNext == ScanStep \/ FindMatch \/ NextPattern \/ MaskSpan

MaskingSpec == MaskingInit /\ [][MaskingNext]_<<vars, maskVars>>

-----------------------------------------------------------------------------
Overlap(s, t) == s.start < t.end /\ t.start < s.end
Covers(s, t) == s.start <= t.start /\ t.end <= s.end

Tags == [category : {"card_number", "phone"}, start : 0 .. Len(text), end : 0 .. Len(text)]

(* Types, and what Redact assumes of finditer: the matches of one pattern    *)
(* are not empty and do not overlap.                                         *)
MaskingTypeOK ==
    /\ p \in 1 .. Len(Patterns) + 1
    /\ rpos \in 0 .. Len(text)
    /\ spans \in SUBSET Tags /\ masked \in SUBSET spans
    /\ \A s \in spans : s.start < s.end
    /\ \A s, t \in spans : s.category = t.category /\ Overlap(s, t) => s = t
    /\ redacted \in Seq(0 .. Len(text))

(* Beyond blanks and dashes there is no other digit on either side.          *)
Alone(f) ==
    \A n \in DOMAIN text : text[n] \in Digit =>
        \/ n \in f.start + 1 .. f.end
        \/ \E m \in (n .. f.start) \cup (f.end + 1 .. n) : text[m] \notin Digit \cup {Blank, Dash}

(* One "card_number" match is the whole card, or none can begin in it.       *)
FitsMask(f) ==
    \/ Len(DigitsOf(f)) <= MaxMask
    \/ \A n \in f.start + 1 .. f.end : text[n] \in Digit

Left(f) == \E n \in DOMAIN redacted : redacted[n] \in f.start + 1 .. f.end

(* What holds a text for a card is masked when it is redacted, although the  *)
(* spans of two patterns overlap there and are masked at the offsets of the  *)
(* original text: every card within one match of "card_number", and every    *)
(* card that has no other digits beside it, no newline in it, and either at  *)
(* most 16 digits or no blanks and dashes.                                   *)
CardsMasked ==
    Searched /\ masked = spans =>
        \A n \in DOMAIN findings :
            LET f == findings[n] IN
            \/ \E c \in spans : c.category = "card_number" /\ Covers(c, f)
            \/ /\ Alone(f) /\ FitsMask(f)
               /\ \A m \in f.start + 1 .. f.end : text[m] # Newline
            => ~Left(f)
=============================================================================
