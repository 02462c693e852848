------------------------------ MODULE CardScan ------------------------------
(***************************************************************************)
(* One call of _scan_credit_cards (adapters/dlp_scanner.py): the candidates *)
(* of _CREDIT_CARD_CANDIDATE from left to right, and _luhn_check of each.   *)
(* A character is a number: a digit is itself.  The bounds of the pattern   *)
(* and of the check are constants, so that short texts reach them all.      *)
(***************************************************************************)
EXTENDS Integers, FiniteSetsExt, SequencesExt

CONSTANTS
    MinRep, MaxRep,     \* the quantifier of the pattern: {13,19}
    MinCard, MaxCard,   \* the digits _luhn_check accepts: 13 to 19
    Alphabet,           \* the characters of the texts
    MaxText             \* bound on their length

Digit     == 0 .. 9
Blank     == 10
Dash      == 11
Newline   == 12
Letter    == 13
Dot       == 14
Char      == 0 .. 14
Separator == {Blank, Dash, Newline}

ASSUME BoundAssumption ==
    /\ MinRep \in Nat \ {0} /\ MaxRep \in Nat /\ MinRep <= MaxRep
    /\ MinCard \in Nat /\ MaxCard \in Nat
(* The pattern yields no number so short that _luhn_check refuses it, and    *)
(* reaches the longest it accepts: 13, 19, 13 and 19.                        *)
ASSUME ReachAssumption == MinCard <= MinRep + 1 /\ MaxCard <= MaxRep + 1
ASSUME AlphabetAssumption == Alphabet \subseteq Char /\ MaxText \in Nat

VARIABLES
    text,
    pc,         \* "search", "luhn", "returned"
    pos,        \* finditer goes on after this character
    span,       \* match.start() and match.end() of the candidate
    i, total,   \* of the loop of _luhn_check
    findings    \* the spans of the findings

vars == <<text, pc, pos, span, i, total, findings>>

-----------------------------------------------------------------------------
(* The pattern \b(?:[0-9][\s\-]?){13,19}[0-9]\b *)

IsAt(n, set) == n \in DOMAIN text /\ text[n] \in set

(* \b between the characters n and n + 1. *)
WordEdge(n) == IsAt(n, Digit \cup {Letter}) # IsAt(n + 1, Digit \cup {Letter})

(* The digit that continues a candidate after the one at n, 0 if none does. *)
NextDigit(n) ==
    IF IsAt(n + 1, Digit) THEN n + 1
    ELSE IF IsAt(n + 1, Separator) /\ IsAt(n + 2, Digit) THEN n + 2
    ELSE 0

(* Where a candidate that starts after s has its n-th digit, 0: nowhere. *)
DigitsFrom(s) ==
    LET at[n \in 1 .. MaxRep + 1] ==
            IF n = 1 THEN (IF IsAt(s + 1, Digit) THEN s + 1 ELSE 0)
            ELSE LET before == at[n - 1] IN IF before = 0 THEN 0 ELSE NextDigit(before)
    IN  at

(* The ends a candidate that starts after s may have. *)
Ends(s) ==
    LET at == DigitsFrom(s) IN
    {at[n] : n \in {m \in MinRep + 1 .. MaxRep + 1 : at[m] # 0 /\ WordEdge(at[m])}}

Matches(s) == WordEdge(s) /\ Ends(s) # {}

(* MUTANT: a lazy quantifier. *)
LazyEnd(s) == Min(Ends(s))

(* The quantifier is greedy, and gives back. *)
MatchEnd(s) == Max(Ends(s))

OnlyDigits(chars) ==
    FoldLeft(LAMBDA kept, c : IF c \in Digit THEN Append(kept, c) ELSE kept, << >>, chars)

(* re.sub(r"[\s\-]", "", raw). *)
DigitsOf(s) == OnlyDigits(SubSeq(text, s.start + 1, s.end))

Init ==
    /\ text \in BoundedSeq(Alphabet, MaxText)
    /\ pc = "search"
    /\ pos = 0
    /\ span = [start |-> 0, end |-> 0]
    /\ i = 0
    /\ total = 0
    /\ findings = << >>

(* The next candidate: the leftmost match.  _luhn_check refuses it at once   *)
(* when it has too few or too many digits.                                   *)
FindNext ==
    LET starts == {s \in pos .. Len(text) : Matches(s)} IN
    /\ pc = "search"
    /\ starts # {}
    /\ LET s == Min(starts)
           candidate == [start |-> s, end |-> MatchEnd(s)] IN
        /\ span' = candidate
        /\ pos' = candidate.end
        /\ pc' = IF Len(DigitsOf(candidate)) \in MinCard .. MaxCard
                 THEN "luhn" ELSE "search"
    /\ i' = 0
    /\ total' = 0
    /\ UNCHANGED <<text, findings>>

NoneLeft ==
    /\ pc = "search"
    /\ ~\E s \in pos .. Len(text) : Matches(s)
    /\ pc' = "returned"
    /\ UNCHANGED <<text, pos, span, i, total, findings>>

(* MUTANT: the loop forgets the 9s. *)
DoubledWhole(d) == 2 * d

Doubled(d) == IF 2 * d > 9 THEN 2 * d - 9 ELSE 2 * d

(* MUTANT: enumerate(digits), from the left. *)
AddDigitFromLeft ==
    LET digits == DigitsOf(span) IN
    /\ pc = "luhn"
    /\ i < Len(digits)
    /\ LET d == digits[i + 1] IN
       total' = total + (IF i % 2 = 1 THEN Doubled(d) ELSE d)
    /\ i' = i + 1
    /\ UNCHANGED <<text, pc, pos, span, findings>>

(* for i, d in enumerate(reversed(digits)). *)
AddDigit ==
    LET digits == DigitsOf(span) IN
    /\ pc = "luhn"
    /\ i < Len(digits)
    /\ LET d == digits[Len(digits) - i] IN
       total' = total + (IF i % 2 = 1 THEN Doubled(d) ELSE d)
    /\ i' = i + 1
    /\ UNCHANGED <<text, pc, pos, span, findings>>

Checked ==
    /\ pc = "luhn"
    /\ i = Len(DigitsOf(span))
    /\ findings' = IF total % 10 = 0 THEN Append(findings, span) ELSE findings
    /\ pc' = "search"
    /\ UNCHANGED <<text, pos, span, i, total>>

(* The call has returned. *)
Returned == pc = "returned" /\ UNCHANGED vars

Next == FindNext \/ NoneLeft \/ AddDigit \/ Checked \/ Returned

Spec == Init /\ [][Next]_vars

-----------------------------------------------------------------------------
(* Luhn's formula as it is defined: every second digit counted from the      *)
(* right, the check digit not among them, counts with the cross sum of its   *)
(* double.                                                                   *)
Weight(digits, n) ==
    LET d == digits[n] IN
    IF (Len(digits) - n) % 2 = 0 THEN d ELSE ((2 * d) \div 10) + ((2 * d) % 10)

LuhnSum(digits) ==
    FoldLeft(LAMBDA sum, w : sum + w, 0, [n \in 1 .. Len(digits) |-> Weight(digits, n)])

LuhnValid(digits) == LuhnSum(digits) % 10 = 0

Spans == {s \in [start : 0 .. Len(text), end : 0 .. Len(text)] : s.start < s.end}

(* A run of digits with at most one separator between two of them, and no    *)
(* digit, letter, or separator and digit beside it.                          *)
IsRun(s) ==
    /\ IsAt(s.start + 1, Digit) /\ IsAt(s.end, Digit)
    /\ \A n \in s.start + 1 .. s.end - 1 :
           \/ IsAt(n, Digit) /\ NextDigit(n) # 0
           \/ IsAt(n, Separator) /\ IsAt(n + 1, Digit)
    /\ WordEdge(s.start) /\ WordEdge(s.end)
    /\ NextDigit(s.end) = 0
    /\ ~(IsAt(s.start, Separator) /\ IsAt(s.start - 1, Digit))

Found(s) == \E n \in DOMAIN findings : findings[n] = s

(* The findings are in order and apart, and each is a card: it has as many   *)
(* digits as one, and passes Luhn's formula.                                 *)
FindingsAreCards ==
    \A n \in DOMAIN findings :
        /\ Len(DigitsOf(findings[n])) \in MinRep + 1 .. MaxCard
        /\ LuhnValid(DigitsOf(findings[n]))
        /\ n # 1 => findings[n - 1].end <= findings[n].start

(* A card that stands alone is found, whatever else is in the text: a digit  *)
(* beside it the pattern may take for its own, and a letter (or underscore)  *)
(* beside it leaves it no word boundary.  A card of the fewest digits        *)
(* _luhn_check accepts is left to RunsFound.                                 *)
LoneCardFound ==
    pc = "returned" =>
        \A s \in Spans :
            /\ IsRun(s)
            /\ Len(DigitsOf(s)) \in MinRep + 1 .. MaxCard
            /\ LuhnValid(DigitsOf(s))
            => Found(s)

(* "Find candidate 13-19-digit runs; return only those that pass Luhn", and  *)
(* "13-19 digits with optional spaces or dashes between groups".             *)
RunsFound ==
    pc = "returned" =>
        \A s \in Spans :
            /\ IsRun(s)
            /\ Len(DigitsOf(s)) \in MinCard .. MaxCard
            /\ LuhnValid(DigitsOf(s))
            => Found(s)

(* The loop and the search stay within the text.  *)
TypeOK ==
    /\ text \in Seq(Char)
    /\ pc \in {"search", "luhn", "returned"}
    /\ pos \in 0 .. Len(text)
    /\ span \in [start : 0 .. Len(text), end : 0 .. Len(text)]
    /\ i \in 0 .. Len(text)
    /\ total \in 0 .. 9 * Len(text)
    /\ findings \in Seq(Spans)
=============================================================================
