--------------------------- MODULE CardScanProofs ---------------------------
(***************************************************************************)
(* The card scan for texts of any length and any bounds of its pattern:    *)
(* what the pattern's greedy search yields, what the loop of _luhn_check   *)
(* computes, and what redact then leaves of the cards that were found.     *)
(***************************************************************************)
EXTENDS CardMasking, FoldLemmas, SequenceTheorems

(* What the fold of OnlyDigits passes through. *)
KeptSteps(D, chars) ==
    /\ D \in [0 .. Len(chars) -> Seq(Digit)]
    /\ D[0] = << >>
    /\ \A n \in 1 .. Len(chars) :
          D[n] = IF chars[n] \in Digit THEN Append(D[n - 1], chars[n]) ELSE D[n - 1]
    /\ OnlyDigits(chars) = D[Len(chars)]

LEMMA OnlyDigitsSteps ==
    ASSUME NEW s \in Seq(Char)
    PROVE  \E D : KeptSteps(D, s)
<1> DEFINE A == Seq(Digit)
           Keep(kept, c) == IF c \in Digit THEN Append(kept, c) ELSE kept
           op == [q \in A \X Char |-> Keep(q[1], q[2])]
           IsFold(iter) ==
               iter = [S \in SUBSET DOMAIN s |->
                          IF S = {} THEN << >> ELSE Keep(iter[S \ {Max(S)}], s[Max(S)])]
           fold == CHOOSE iter : IsFold(iter)
<1>1. Len(s) \in Nat /\ DOMAIN s = 1 .. Len(s) /\ \A n \in DOMAIN s : s[n] \in Char
  OBVIOUS
<1>2. \A S \in SUBSET DOMAIN s : S # {} => s[Max(S)] \in Char
  <2> SUFFICES ASSUME NEW S \in SUBSET DOMAIN s, S # {} PROVE s[Max(S)] \in Char
    OBVIOUS
  <2>1. S \subseteq 0 .. Len(s)
    BY <1>1
  <2> QED
    BY <1>1, <2>1, MaxOf
<1>3. \A q \in A, c \in Char : Keep(q, c) \in A
  OBVIOUS
<1> HIDE DEF Keep
<1>4. op \in [A \X Char -> A] /\ << >> \in A /\ s \in Seq(Char)
  BY <1>3
<1>5. \A q \in A, c \in Char : op[q, c] = Keep(q, c)
  OBVIOUS
<1> HIDE DEF op, A
<1>6. PICK iter \in [SUBSET DOMAIN s -> A] : Folds(iter, op, << >>, s)
  BY <1>4, FoldExists
<1>7. IsFold(iter)
  <2>1. iter = [S \in SUBSET DOMAIN s |-> iter[S]]
    OBVIOUS
  <2>2. \A S \in SUBSET DOMAIN s :
            iter[S] = IF S = {} THEN << >> ELSE Keep(iter[S \ {Max(S)}], s[Max(S)])
    BY <1>1, <1>2, <1>5, <1>6 DEF Folds, FoldsTo
  <2> QED
    BY <2>1, <2>2
<1>8. OnlyDigits(s) = fold[DOMAIN s]
  BY DEF OnlyDigits, FoldLeft, MapThenFoldSet, Keep
<1>9. IsFold(fold)
  BY <1>7
<1> HIDE DEF fold
<1>10. FoldsWithin(fold, op, << >>, s, A)
  BY <1>2, <1>5, <1>9 DEF FoldsWithin
<1>11. PICK D : StepsOf(D, fold, op, << >>, s, A)
  BY <1>4, <1>10, FoldSteps
<1>12. \A n \in 1 .. Len(s) : D[n] = Keep(D[n - 1], s[n])
  <2> SUFFICES ASSUME NEW n \in 1 .. Len(s) PROVE D[n] = Keep(D[n - 1], s[n])
    OBVIOUS
  <2>1. n - 1 \in 0 .. Len(s) /\ n \in DOMAIN s
    BY <1>1
  <2>2. D[n - 1] \in A /\ s[n] \in Char /\ D[n] = op[D[n - 1], s[n]]
    BY <1>1, <1>11, <2>1 DEF StepsOf
  <2> QED
    BY <1>5, <2>2
<1>13. KeptSteps(D, s)
  BY <1>8, <1>11, <1>12 DEF KeptSteps, StepsOf, A, Keep
<1> QED
  BY <1>13

LEMMA OnlyDigitsGrow ==
    ASSUME NEW s \in Seq(Char), NEW c \in Char
    PROVE  /\ OnlyDigits(s) \in Seq(Digit)
           /\ OnlyDigits(Append(s, c)) =
                 IF c \in Digit THEN Append(OnlyDigits(s), c) ELSE OnlyDigits(s)
<1>0. Append(s, c) \in Seq(Char)
  OBVIOUS
<1>1. PICK t \in Seq(Char) : t = Append(s, c)
  BY <1>0
<1>2. PICK N \in Nat : N = Len(s)
  OBVIOUS
<1>3. Len(t) = N + 1 /\ t[N + 1] = c /\ \A n \in 1 .. N : t[n] = s[n]
  BY <1>1, <1>2
<1>4. PICK D : KeptSteps(D, s)
  BY OnlyDigitsSteps
<1>5. PICK E : KeptSteps(E, t)
  BY OnlyDigitsSteps
<1> DEFINE R == {n \in 0 .. N : E[n] = D[n]}
<1>6. 0 \in R
  BY <1>4, <1>5 DEF KeptSteps
<1>7. ASSUME NEW n \in 0 .. N - 1, n \in R PROVE n + 1 \in R
  <2>1. n + 1 \in 1 .. N /\ n + 1 \in 1 .. N + 1 /\ n + 1 \in 0 .. N /\ (n + 1) - 1 = n
    OBVIOUS
  <2>2. PICK m : m = n + 1
    OBVIOUS
  <2>3. E[m - 1] = D[m - 1] /\ t[m] = s[m]
    BY <1>3, <1>7, <2>1, <2>2
  <2>4. E[m] = D[m]
    BY <1>2, <1>3, <1>4, <1>5, <2>1, <2>2, <2>3 DEF KeptSteps
  <2> QED
    BY <2>1, <2>2, <2>4
<1>8. E[N] = D[N]
  <2>1. 0 .. N \subseteq R
    <3> HIDE DEF R
    <3> QED
      BY <1>6, <1>7, InductTo
  <2> QED
    BY <2>1
<1>9. D[N] \in Seq(Digit) /\ OnlyDigits(s) = D[N] /\ OnlyDigits(t) = E[N + 1]
  BY <1>2, <1>3, <1>4, <1>5 DEF KeptSteps
<1>10. E[N + 1] = IF c \in Digit THEN Append(E[N], c) ELSE E[N]
  <2>1. N + 1 \in 1 .. Len(t) /\ (N + 1) - 1 = N
    BY <1>3
  <2>2. E[N + 1] = IF t[N + 1] \in Digit THEN Append(E[(N + 1) - 1], t[N + 1]) ELSE E[(N + 1) - 1]
    BY <1>5, <2>1 DEF KeptSteps
  <2> QED
    BY <1>3, <2>1, <2>2
<1> QED
  BY <1>1, <1>8, <1>9, <1>10

-----------------------------------------------------------------------------
(* The digits between two places of the text. *)
DigitsTo(a, b) == DigitsOf([start |-> a, end |-> b])

LEMMA NoDigits ==
    ASSUME text \in Seq(Char), NEW a \in 0 .. Len(text)
    PROVE  DigitsTo(a, a) = << >>
<1>1. SubSeq(text, a + 1, a) = << >>
  BY SubSeqEmpty
<1>2. OnlyDigits(<< >>) = << >>
  <2>0. << >> \in Seq(Char)
    OBVIOUS
  <2>1. PICK none \in Seq(Char) : none = << >>
    BY <2>0
  <2>2. PICK D : KeptSteps(D, none)
    BY OnlyDigitsSteps
  <2>3. Len(none) = 0
    BY <2>1
  <2> QED
    BY <2>1, <2>2, <2>3 DEF KeptSteps
<1> QED
  BY <1>1, <1>2 DEF DigitsTo, DigitsOf

WithinText(a, b) == a \in Nat /\ b \in Nat /\ a <= b /\ b < Len(text)

LEMMA OneMore ==
    ASSUME text \in Seq(Char), NEW a, NEW b, WithinText(a, b)
    PROVE  /\ DigitsTo(a, b) \in Seq(Digit)
           /\ DigitsTo(a, b + 1) = IF text[b + 1] \in Digit THEN Append(DigitsTo(a, b), text[b + 1])
                                                            ELSE DigitsTo(a, b)
<1>0. a \in Nat /\ b \in Nat /\ a <= b /\ b < Len(text) /\ Len(text) \in Nat
  BY DEF WithinText
<1>1. PICK s : s = SubSeq(text, a + 1, b)
  OBVIOUS
<1>2. PICK c : c = text[b + 1]
  OBVIOUS
<1>3. s \in Seq(Char) /\ c \in Char
  BY <1>0, <1>1, <1>2
<1>4. SubSeq(text, a + 1, b + 1) = Append(s, c)
  <2>1. PICK n : n = b + 1
    OBVIOUS
  <2>2. a + 1 \in 1 .. Len(text) /\ n \in a + 1 .. Len(text) /\ n - 1 = b
    BY <1>0, <2>1
  <2>3. SubSeq(text, a + 1, n) = SubSeq(text, a + 1, n - 1) \o <<text[n]>>
    BY <2>2, SubSeqRecursiveSecond
  <2>4. Append(s, c) = s \o <<c>>
    BY <1>3, AppendIsConcat
  <2> QED
    BY <1>1, <1>2, <2>1, <2>2, <2>3, <2>4
<1>5. DigitsTo(a, b) = OnlyDigits(s) /\ DigitsTo(a, b + 1) = OnlyDigits(Append(s, c))
  BY <1>1, <1>4 DEF DigitsTo, DigitsOf
<1>6. /\ OnlyDigits(s) \in Seq(Digit)
      /\ OnlyDigits(Append(s, c)) = IF c \in Digit THEN Append(OnlyDigits(s), c) ELSE OnlyDigits(s)
  BY <1>3, OnlyDigitsGrow
<1> QED
  BY <1>2, <1>5, <1>6

-----------------------------------------------------------------------------
(* What the fold of LuhnSum passes through. *)
SumSteps(G, digits) ==
    /\ G \in [0 .. Len(digits) -> Nat]
    /\ G[0] = 0
    /\ \A n \in 1 .. Len(digits) : G[n] = G[n - 1] + Weight(digits, n)
    /\ LuhnSum(digits) = G[Len(digits)]

LEMMA WeightType ==
    ASSUME NEW digits \in Seq(Digit), NEW n \in 1 .. Len(digits)
    PROVE  Weight(digits, n) \in 0 .. 9
<1>1. PICK d : d = digits[n]
  OBVIOUS
<1>2. d \in 0 .. 9
  BY <1>1 DEF Digit
<1>3. ((2 * d) \div 10) + ((2 * d) % 10) \in 0 .. 9
  BY <1>2
<1> QED
  BY <1>1, <1>2, <1>3 DEF Weight

LEMMA LuhnSumSteps ==
    ASSUME NEW digits \in Seq(Digit)
    PROVE  \E G : SumSteps(G, digits)
<1> DEFINE s == [n \in 1 .. Len(digits) |-> Weight(digits, n)]
           op == [q \in Nat \X Nat |-> q[1] + q[2]]
           IsFold(iter) ==
               iter = [S \in SUBSET DOMAIN s |->
                          IF S = {} THEN 0 ELSE iter[S \ {Max(S)}] + s[Max(S)]]
           fold == CHOOSE iter : IsFold(iter)
<1>1. s \in Seq(Nat) /\ Len(s) = Len(digits) /\ \A n \in 1 .. Len(digits) : s[n] = Weight(digits, n)
  <2>1. \A n \in 1 .. Len(digits) : Weight(digits, n) \in Nat
    BY WeightType
  <2> QED
    BY <2>1
<1>2. LuhnSum(digits) = fold[DOMAIN s]
  BY DEF LuhnSum, FoldLeft, MapThenFoldSet
<1> HIDE DEF s
<1>3. Len(s) \in Nat /\ DOMAIN s = 1 .. Len(s) /\ \A n \in DOMAIN s : s[n] \in Nat
  BY <1>1
<1>4. \A S \in SUBSET DOMAIN s : S # {} => s[Max(S)] \in Nat
  <2> SUFFICES ASSUME NEW S \in SUBSET DOMAIN s, S # {} PROVE s[Max(S)] \in Nat
    OBVIOUS
  <2>1. S \subseteq 0 .. Len(s)
    BY <1>3
  <2> QED
    BY <1>3, <2>1, MaxOf
<1>5. op \in [Nat \X Nat -> Nat] /\ 0 \in Nat
  OBVIOUS
<1>6. \A q, x \in Nat : op[q, x] = q + x
  OBVIOUS
<1> HIDE DEF op
<1>7. PICK iter \in [SUBSET DOMAIN s -> Nat] : Folds(iter, op, 0, s)
  BY <1>1, <1>5, FoldExists
<1>8. IsFold(iter)
  <2>1. iter = [S \in SUBSET DOMAIN s |-> iter[S]]
    OBVIOUS
  <2>2. \A S \in SUBSET DOMAIN s :
            iter[S] = IF S = {} THEN 0 ELSE iter[S \ {Max(S)}] + s[Max(S)]
    BY <1>3, <1>4, <1>6, <1>7 DEF Folds, FoldsTo
  <2> QED
    BY <2>1, <2>2
<1>9. IsFold(fold)
  BY <1>8
<1> HIDE DEF fold
<1>10. FoldsWithin(fold, op, 0, s, Nat)
  <2>1. \A S \in SUBSET DOMAIN s :
            fold[S] = IF S = {} THEN 0 ELSE fold[S \ {Max(S)}] + s[Max(S)]
    BY <1>9
  <2>2. fold[{}] = 0
    BY <2>1
  <2>3. ASSUME NEW S \in SUBSET DOMAIN s, S # {}, fold[S \ {Max(S)}] \in Nat
        PROVE  fold[S] = op[fold[S \ {Max(S)}], s[Max(S)]]
    <3>1. fold[S] = fold[S \ {Max(S)}] + s[Max(S)]
      BY <2>1, <2>3
    <3>2. s[Max(S)] \in Nat
      BY <1>4, <2>3
    <3> HIDE DEF IsFold
    <3> QED
      BY <1>6, <2>3, <3>1, <3>2
  <2> HIDE DEF IsFold
  <2> QED
    BY <2>2, <2>3 DEF FoldsWithin
<1>11. PICK G : StepsOf(G, fold, op, 0, s, Nat)
  BY <1>1, <1>5, <1>10, FoldSteps
<1>12. \A n \in 1 .. Len(s) : G[n] = G[n - 1] + s[n]
  <2> SUFFICES ASSUME NEW n \in 1 .. Len(s) PROVE G[n] = G[n - 1] + s[n]
    OBVIOUS
  <2>1. n - 1 \in 0 .. Len(s) /\ n \in DOMAIN s
    BY <1>3
  <2>2. G[n - 1] \in Nat /\ s[n] \in Nat /\ G[n] = op[G[n - 1], s[n]]
    BY <1>3, <1>11, <2>1 DEF StepsOf
  <2> QED
    BY <1>6, <2>2
<1>13. SumSteps(G, digits)
  BY <1>1, <1>2, <1>11, <1>12 DEF SumSteps, StepsOf
<1> QED
  BY <1>13

(* What the loop adds for the digit at n is its weight. *)
LEMMA LoopWeight ==
    ASSUME NEW digits \in Seq(Digit), NEW n \in 0 .. Len(digits) - 1
    PROVE  LET d == digits[Len(digits) - n] IN
           (IF n % 2 = 1 THEN Doubled(d) ELSE d) = Weight(digits, Len(digits) - n)
<1>1. PICK m : m = Len(digits) - n
  OBVIOUS
<1>2. PICK d : d = digits[m]
  OBVIOUS
<1>3. m \in 1 .. Len(digits) /\ Len(digits) - m = n /\ n \in Nat
  BY <1>1
<1>4. d \in 0 .. 9
  BY <1>2, <1>3 DEF Digit
<1>5. Doubled(d) = ((2 * d) \div 10) + ((2 * d) % 10)
  BY <1>4 DEF Doubled
<1>6. n % 2 = 0 \/ n % 2 = 1
  BY <1>3
<1> QED
  BY <1>1, <1>2, <1>3, <1>5, <1>6 DEF Weight

-----------------------------------------------------------------------------
(* The recursion of DigitsFrom, up to the K-th digit. *)
Chain(at, s, K) ==
    \A n \in 1 .. K :
        at[n] = IF n = 1 THEN (IF IsAt(s + 1, Digit) THEN s + 1 ELSE 0)
                ELSE IF at[n - 1] = 0 THEN 0 ELSE NextDigit(at[n - 1])

LEMMA DigitsFromChain == \A s : Chain(DigitsFrom(s), s, MaxRep + 1)
<1> SUFFICES ASSUME NEW s PROVE Chain(DigitsFrom(s), s, MaxRep + 1)
  OBVIOUS
<1> DEFINE K == MaxRep + 1
           Digit1 == IF IsAt(s + 1, Digit) THEN s + 1 ELSE 0
           After(d) == IF d = 0 THEN 0 ELSE NextDigit(d)
           IsAll(f) == f = [n \in 1 .. K |-> IF n = 1 THEN Digit1 ELSE After(f[n - 1])]
           all == CHOOSE f : IsAll(f)
           Upto(f, m) == \A n \in 1 .. m : f[n] = IF n = 1 THEN Digit1 ELSE After(f[n - 1])
           Done == {m \in 0 .. K : \E f : Upto(f, m)}
<1>1. K \in Nat
  BY BoundAssumption
<1>2. DigitsFrom(s) = all
  BY DEF DigitsFrom
<1> HIDE DEF K, Digit1, After
<1>3. 0 \in Done
  BY <1>1
<1>4. ASSUME NEW m \in 0 .. K - 1, m \in Done PROVE m + 1 \in Done
  <2>1. PICK f : Upto(f, m)
    BY <1>4
  <2> DEFINE g == [n \in 1 .. m + 1 |->
                      IF n = m + 1 THEN (IF n = 1 THEN Digit1 ELSE After(f[n - 1])) ELSE f[n]]
  <2>2. m \in Nat /\ m + 1 \in 0 .. K
    BY <1>1
  <2>3. ASSUME NEW n \in 1 .. m + 1 PROVE g[n] = IF n = 1 THEN Digit1 ELSE After(g[n - 1])
    <3>1. n # 1 => g[n - 1] = f[n - 1]
      BY <2>2
    <3>2. CASE n = m + 1
      BY <3>1, <3>2
    <3>3. CASE n # m + 1
      <4>1. n \in 1 .. m /\ g[n] = f[n]
        BY <2>2, <3>3
      <4> QED
        BY <2>1, <3>1, <4>1
    <3> QED
      BY <3>2, <3>3
  <2>4. Upto(g, m + 1)
    BY <2>3
  <2> HIDE DEF Upto, g
  <2> QED
    BY <2>2, <2>4
<1>5. PICK f : Upto(f, K)
  <2> HIDE DEF Done
  <2>1. 0 .. K \subseteq Done
    BY <1>1, <1>3, <1>4, InductTo
  <2>2. K \in Done
    BY <1>1, <2>1
  <2> QED
    BY <2>2 DEF Done
<1>6. \E g : IsAll(g)
  <2> DEFINE g == [n \in 1 .. K |-> f[n]]
  <2>1. \A n \in 1 .. K : g[n] = IF n = 1 THEN Digit1 ELSE After(g[n - 1])
    BY <1>1, <1>5
  <2>2. IsAll(g)
    BY <2>1
  <2> HIDE DEF g
  <2> QED
    BY <2>2
<1>7. IsAll(all)
  BY <1>6
<1> HIDE DEF all
<1>8. Upto(all, K)
  BY <1>7
<1> QED
  BY <1>2, <1>8 DEF Chain, K, Digit1, After

-----------------------------------------------------------------------------
(* n digits, from a first one after s to a last one at e, with separators.   *)
Candidate(s, e, n) ==
    /\ s \in Nat /\ e \in Nat /\ n \in Nat /\ s + n <= e /\ e <= Len(text)
    /\ text[s + 1] \in Digit /\ text[e] \in Digit
    /\ \A m \in s + 1 .. e : text[m] \in Digit \cup Separator
    /\ DigitsTo(s, e) \in Seq(Digit) /\ Len(DigitsTo(s, e)) = n

LEMMA NextDigitFacts ==
    ASSUME text \in Seq(Char), NEW e \in Nat, NextDigit(e) # 0
    PROVE  \/ NextDigit(e) = e + 1 /\ e + 1 <= Len(text) /\ text[e + 1] \in Digit
           \/ /\ NextDigit(e) = e + 2 /\ e + 2 <= Len(text)
              /\ text[e + 1] \in Separator /\ text[e + 2] \in Digit
<1>1. DOMAIN text = 1 .. Len(text) /\ Len(text) \in Nat
  OBVIOUS
<1> QED
  BY <1>1 DEF NextDigit, IsAt

LEMMA NotBoth == \A c \in Separator : c \notin Digit
  BY DEF Separator, Digit, Blank, Dash, Newline

LEMMA FirstDigit ==
    ASSUME text \in Seq(Char), NEW s \in Nat, IsAt(s + 1, Digit)
    PROVE  Candidate(s, s + 1, 1)
<1>1. s + 1 <= Len(text) /\ text[s + 1] \in Digit /\ Len(text) \in Nat
  BY DEF IsAt
<1>2. DigitsTo(s, s) = << >>
  BY <1>1, NoDigits
<1>3. DigitsTo(s, s + 1) = Append(<< >>, text[s + 1])
  <2>1. WithinText(s, s)
    BY <1>1 DEF WithinText
  <2> QED
    BY <1>1, <1>2, <2>1, OneMore
<1>4. DigitsTo(s, s + 1) \in Seq(Digit) /\ Len(DigitsTo(s, s + 1)) = 1
  <2>1. PICK c \in Digit : c = text[s + 1]
    BY <1>1
  <2>2. Append(<< >>, c) \in Seq(Digit) /\ Len(Append(<< >>, c)) = 1
    OBVIOUS
  <2> QED
    BY <1>3, <2>1, <2>2
<1>5. \A m \in s + 1 .. s + 1 : m = s + 1
  OBVIOUS
<1> QED
  BY <1>1, <1>4, <1>5 DEF Candidate

LEMMA CandidateGrows ==
    ASSUME text \in Seq(Char), NEW s, NEW e, NEW n, Candidate(s, e, n), NextDigit(e) # 0
    PROVE  Candidate(s, NextDigit(e), n + 1)
<1>1. /\ s \in Nat /\ e \in Nat /\ n \in Nat /\ s + n <= e /\ e <= Len(text) /\ s <= e
      /\ Len(text) \in Nat /\ text[s + 1] \in Digit
  BY DEF Candidate
<1>2. PICK digits \in Seq(Digit) : digits = DigitsTo(s, e) /\ Len(digits) = n
  BY DEF Candidate
<1>3. \A m \in s + 1 .. e : text[m] \in Digit \cup Separator
  BY DEF Candidate
<1>4. CASE NextDigit(e) = e + 1 /\ e + 1 <= Len(text) /\ text[e + 1] \in Digit
  <2>0. PICK f : f = e + 1
    OBVIOUS
  <2>1. f \in Nat /\ s + (n + 1) <= f /\ f <= Len(text) /\ text[f] \in Digit /\ n + 1 \in Nat
    BY <1>1, <1>4, <2>0
  <2>2. DigitsTo(s, f) = Append(digits, text[f])
    <3>1. WithinText(s, e)
      BY <1>1, <1>4 DEF WithinText
    <3> QED
      BY <1>2, <1>4, <2>0, <3>1, OneMore
  <2>3. DigitsTo(s, f) \in Seq(Digit) /\ Len(DigitsTo(s, f)) = n + 1
    BY <1>2, <2>1, <2>2
  <2>4. \A m \in s + 1 .. f : text[m] \in Digit \cup Separator
    BY <1>1, <1>3, <2>0, <2>1
  <2>5. Candidate(s, f, n + 1)
    BY <1>1, <2>1, <2>3, <2>4 DEF Candidate
  <2> QED
    BY <1>4, <2>0, <2>5
<1>5. CASE /\ NextDigit(e) = e + 2 /\ e + 2 <= Len(text)
           /\ text[e + 1] \in Separator /\ text[e + 2] \in Digit
  <2>0. PICK f : f = e + 2
    OBVIOUS
  <2>1. f \in Nat /\ s + (n + 1) <= f /\ f <= Len(text) /\ text[f] \in Digit /\ n + 1 \in Nat
    BY <1>1, <1>5, <2>0
  <2>2. DigitsTo(s, f) = Append(digits, text[f])
    <3>1. PICK g : g = e + 1
      OBVIOUS
    <3>2. WithinText(s, e) /\ WithinText(s, g) /\ g + 1 = f
      BY <1>1, <1>5, <2>0, <3>1 DEF WithinText
    <3>3. DigitsTo(s, g) = digits
      BY <1>2, <1>5, <3>1, <3>2, OneMore, NotBoth
    <3>4. DigitsTo(s, g + 1) = Append(DigitsTo(s, g), text[g + 1])
      BY <2>1, <3>2, OneMore
    <3> QED
      BY <3>2, <3>3, <3>4
  <2>3. DigitsTo(s, f) \in Seq(Digit) /\ Len(DigitsTo(s, f)) = n + 1
    BY <1>2, <2>1, <2>2
  <2>4. \A m \in s + 1 .. f : text[m] \in Digit \cup Separator
    <3>1. \A m \in s + 1 .. f : m \in s + 1 .. e \/ m = e + 1 \/ m = f
      BY <1>1, <2>0
    <3> QED
      BY <1>3, <1>5, <2>1, <3>1
  <2>5. Candidate(s, f, n + 1)
    BY <1>1, <2>1, <2>3, <2>4 DEF Candidate
  <2> QED
    BY <1>5, <2>0, <2>5
<1> QED
  BY <1>1, <1>4, <1>5, NextDigitFacts

(* Every digit of DigitsFrom ends a candidate. *)
LEMMA ChainCandidates ==
    ASSUME text \in Seq(Char), NEW s \in Nat
    PROVE  \A n \in 1 .. MaxRep + 1 :
              DigitsFrom(s)[n] # 0 => Candidate(s, DigitsFrom(s)[n], n)
<1>1. PICK at : at = DigitsFrom(s)
  OBVIOUS
<1>2. Chain(at, s, MaxRep + 1)
  BY <1>1, DigitsFromChain
<1> DEFINE R == {n \in 0 .. MaxRep + 1 : n # 0 /\ at[n] # 0 => Candidate(s, at[n], n)}
<1>3. 0 \in R /\ MaxRep \in Nat
  BY BoundAssumption
<1>4. ASSUME NEW n \in 0 .. (MaxRep + 1) - 1, n \in R PROVE n + 1 \in R
  <2>1. n \in Nat /\ n + 1 \in 1 .. MaxRep + 1 /\ n + 1 \in 0 .. MaxRep + 1 /\ (n + 1) - 1 = n
    BY <1>3
  <2>2. ASSUME at[n + 1] # 0 PROVE Candidate(s, at[n + 1], n + 1)
    <3>1. CASE n = 0
      <4>1. at[1] = IF IsAt(s + 1, Digit) THEN s + 1 ELSE 0
        BY <1>2, <2>1, <3>1 DEF Chain
      <4>2. IsAt(s + 1, Digit) /\ at[1] = s + 1
        BY <2>2, <3>1, <4>1
      <4>3. Candidate(s, s + 1, 1)
        BY <4>2, FirstDigit
      <4> QED
        BY <3>1, <4>2, <4>3
    <3>2. CASE n # 0
      <4>1. n + 1 # 1
        BY <2>1, <3>2
      <4>2. at[n + 1] = IF at[n] = 0 THEN 0 ELSE NextDigit(at[n])
        BY <1>2, <2>1, <4>1 DEF Chain
      <4>3. at[n] # 0 /\ at[n + 1] = NextDigit(at[n]) /\ NextDigit(at[n]) # 0
        BY <2>2, <4>2
      <4>4. Candidate(s, at[n], n)
        BY <1>4, <3>2, <4>3
      <4>5. Candidate(s, NextDigit(at[n]), n + 1)
        BY <4>3, <4>4, CandidateGrows
      <4> QED
        BY <4>3, <4>5
    <3> QED
      BY <3>1, <3>2
  <2> QED
    BY <2>1, <2>2
<1>5. 0 .. MaxRep + 1 \subseteq R
  <2>1. MaxRep + 1 \in Nat
    BY <1>3
  <2> HIDE DEF R
  <2> QED
    BY <1>3, <1>4, <2>1, InductTo
<1>6. \A n \in 1 .. MaxRep + 1 : n \in 0 .. MaxRep + 1 /\ n # 0
  BY <1>3
<1> QED
  BY <1>1, <1>5, <1>6

(* What a match spans. *)
IsCandidate(c) ==
    /\ \E n \in MinRep + 1 .. MaxRep + 1 : Candidate(c.start, c.end, n)
    /\ WordEdge(c.start) /\ WordEdge(c.end)

LEMMA MatchIsCandidate ==
    ASSUME text \in Seq(Char), NEW s \in Nat, Matches(s)
    PROVE  /\ IsCandidate([start |-> s, end |-> MatchEnd(s)])
           /\ \A e \in Ends(s) : e <= MatchEnd(s)
<1>1. PICK at : at = DigitsFrom(s)
  OBVIOUS
<1>2. \A n \in 1 .. MaxRep + 1 : at[n] # 0 => Candidate(s, at[n], n)
  BY <1>1, ChainCandidates
<1>3. MinRep \in Nat /\ MaxRep \in Nat /\ Len(text) \in Nat
  BY BoundAssumption
<1>4. Ends(s) = {at[n] : n \in {m \in MinRep + 1 .. MaxRep + 1 : at[m] # 0 /\ WordEdge(at[m])}}
  BY <1>1 DEF Ends
<1>5. ASSUME NEW e \in Ends(s)
      PROVE  /\ \E n \in MinRep + 1 .. MaxRep + 1 : Candidate(s, e, n)
             /\ WordEdge(e) /\ e \in 0 .. Len(text)
  <2>1. PICK n \in MinRep + 1 .. MaxRep + 1 : e = at[n] /\ at[n] # 0 /\ WordEdge(at[n])
    BY <1>4
  <2>2. Candidate(s, e, n)
    BY <1>2, <1>3, <2>1
  <2> QED
    BY <1>3, <2>1, <2>2 DEF Candidate
<1>6. Ends(s) # {} /\ WordEdge(s)
  BY DEF Matches
<1>7. MatchEnd(s) \in Ends(s) /\ \A e \in Ends(s) : e <= MatchEnd(s)
  <2>1. Ends(s) \subseteq 0 .. Len(text)
    BY <1>5
  <2> QED
    BY <1>3, <1>6, <2>1, MaxOf DEF MatchEnd
<1> QED
  BY <1>5, <1>6, <1>7 DEF IsCandidate

-----------------------------------------------------------------------------
(* The loop has added the weights from the right. *)
Balanced(digits, j, sum) ==
    \A G : SumSteps(G, digits) => sum + G[Len(digits) - j] = G[Len(digits)]

IsSpan(s) ==
    /\ s = [start |-> s.start, end |-> s.end]
    /\ s.start \in 0 .. Len(text) /\ s.end \in 0 .. Len(text)

Shape ==
    /\ text \in Seq(Char)
    /\ pc \in {"search", "luhn", "returned"}
    /\ pos \in 0 .. Len(text)
    /\ IsSpan(span)
    /\ i \in 0 .. Len(text)
    /\ total \in Nat /\ total <= 9 * i
    /\ findings \in Seq(Spans)

InLoop ==
    pc = "luhn" =>
        /\ IsCandidate(span) /\ span.end = pos
        /\ Len(DigitsOf(span)) \in MinCard .. MaxCard
        /\ i <= Len(DigitsOf(span))
        /\ Balanced(DigitsOf(span), i, total)

IsCard(f) ==
    /\ IsCandidate(f)
    /\ Len(DigitsOf(f)) <= MaxCard
    /\ LuhnValid(DigitsOf(f))

(* Where the search for the next finding can only go on from here. *)
Reached == IF pc = "luhn" THEN span.start ELSE pos

Cards ==
    \A n \in DOMAIN findings :
        /\ IsCard(findings[n])
        /\ findings[n].end <= Reached
        /\ n # 1 => findings[n - 1].end <= findings[n].start

IInv == Shape /\ InLoop /\ Cards

-----------------------------------------------------------------------------
LEMMA SpanFacts ==
    ASSUME NEW s \in Spans
    PROVE  /\ IsSpan(s) /\ s.start < s.end
           /\ DigitsOf(s) = DigitsTo(s.start, s.end)
  BY DEF Spans, IsSpan, DigitsTo

LEMMA CandidateFacts ==
    ASSUME text \in Seq(Char), NEW c, c = [start |-> c.start, end |-> c.end], IsCandidate(c)
    PROVE  /\ c \in Spans /\ c.start \in Nat /\ c.end \in Nat
           /\ c.start < c.end /\ c.end <= Len(text)
           /\ DigitsOf(c) \in Seq(Digit)
           /\ Len(DigitsOf(c)) \in MinRep + 1 .. MaxRep + 1
           /\ Len(DigitsOf(c)) <= Len(text)
<1>1. PICK n \in MinRep + 1 .. MaxRep + 1 : Candidate(c.start, c.end, n)
  BY DEF IsCandidate
<1>2. MinRep \in Nat /\ Len(text) \in Nat /\ n \in Nat /\ 1 <= n
  BY <1>1, BoundAssumption
<1>3. DigitsOf(c) = DigitsTo(c.start, c.end)
  BY DEF DigitsTo
<1>4. /\ c.start \in Nat /\ c.end \in Nat /\ c.start + n <= c.end /\ c.end <= Len(text)
      /\ DigitsOf(c) \in Seq(Digit) /\ Len(DigitsOf(c)) = n
  BY <1>1, <1>3 DEF Candidate
<1>5. c.start < c.end /\ n <= Len(text) /\ c.start \in 0 .. Len(text) /\ c.end \in 0 .. Len(text)
  BY <1>2, <1>4
<1>6. c \in Spans
  BY <1>5 DEF Spans
<1> QED
  BY <1>1, <1>4, <1>5, <1>6

LEMMA BalancedAtFirst == \A digits \in Seq(Digit) : Balanced(digits, 0, 0)
<1> SUFFICES ASSUME NEW digits \in Seq(Digit), NEW G, SumSteps(G, digits)
             PROVE  0 + G[Len(digits) - 0] = G[Len(digits)]
  BY DEF Balanced
<1>1. Len(digits) \in Nat /\ G[Len(digits)] \in Nat
  BY DEF SumSteps
<1> QED
  BY <1>1

LEMMA BalancedNext ==
    ASSUME NEW digits \in Seq(Digit), NEW j \in 0 .. Len(digits) - 1, NEW sum \in Nat,
           Balanced(digits, j, sum)
    PROVE  Balanced(digits, j + 1, sum + Weight(digits, Len(digits) - j))
<1> SUFFICES ASSUME NEW G, SumSteps(G, digits)
             PROVE  (sum + Weight(digits, Len(digits) - j)) + G[Len(digits) - (j + 1)] = G[Len(digits)]
  BY DEF Balanced
<1>1. PICK m : m = Len(digits) - j
  OBVIOUS
<1>2. m \in 1 .. Len(digits) /\ Len(digits) - (j + 1) = m - 1 /\ m - 1 \in 0 .. Len(digits)
      /\ m \in 0 .. Len(digits)
  BY <1>1
<1>3. sum + G[m] = G[Len(digits)]
  BY <1>1 DEF Balanced
<1>4. G[m] = G[m - 1] + Weight(digits, m) /\ G[m - 1] \in Nat /\ Weight(digits, m) \in Nat
  <2>1. G[m] = G[m - 1] + Weight(digits, m) /\ G[m - 1] \in Nat
    BY <1>2 DEF SumSteps
  <2>2. Weight(digits, m) \in 0 .. 9
    BY <1>2, WeightType
  <2> QED
    BY <2>1, <2>2
<1>5. (sum + Weight(digits, m)) + G[m - 1] = G[Len(digits)]
  BY <1>3, <1>4
<1> QED
  BY <1>1, <1>2, <1>5

LEMMA BalancedAtLast ==
    ASSUME NEW digits \in Seq(Digit), NEW sum \in Nat, Balanced(digits, Len(digits), sum)
    PROVE  sum = LuhnSum(digits)
<1>1. PICK G : SumSteps(G, digits)
  BY LuhnSumSteps
<1>2. Len(digits) - Len(digits) = 0
  OBVIOUS
<1>3. sum + G[0] = G[Len(digits)]
  BY <1>1, <1>2 DEF Balanced
<1> QED
  BY <1>1, <1>3 DEF SumSteps

LEMMA Initially == Init => IInv
<1> SUFFICES ASSUME Init PROVE IInv
  OBVIOUS
<1>1. text \in Seq(Char)
  <2>1. text \in Seq(Alphabet)
    BY AlphabetAssumption, BoundedIsSeq DEF Init
  <2>2. \A n \in 1 .. Len(text) : text[n] \in Char
    BY <2>1, AlphabetAssumption
  <2> QED
    BY <2>1, <2>2
<1>2. Len(text) \in Nat /\ 0 \in 0 .. Len(text)
  BY <1>1
<1>3. /\ pc = "search" /\ pos = 0 /\ span = [start |-> 0, end |-> 0] /\ i = 0 /\ total = 0
      /\ findings = << >>
  BY DEF Init
<1>4. findings \in Seq(Spans) /\ DOMAIN findings = {}
  BY <1>3
<1>5. IsSpan(span)
  BY <1>2, <1>3 DEF IsSpan
<1> QED
  BY <1>1, <1>2, <1>3, <1>4, <1>5 DEF IInv, Shape, InLoop, Cards

(* What FindNext finds. *)
LEMMA NextCandidate ==
    ASSUME Shape, FindNext
    PROVE  \E s \in Nat :
              /\ Matches(s) /\ pos <= s
              /\ \A u \in pos .. Len(text) : Matches(u) => s <= u
              /\ span' = [start |-> s, end |-> MatchEnd(s)]
              /\ pos' = MatchEnd(s)
              /\ pc' = IF Len(DigitsOf([start |-> s, end |-> MatchEnd(s)])) \in MinCard .. MaxCard
                       THEN "luhn" ELSE "search"
<1> DEFINE starts == {s \in pos .. Len(text) : Matches(s)}
<1>1. pos \in Nat /\ Len(text) \in Nat
  BY DEF Shape
<1>2. starts # {}
  BY DEF FindNext
<1>3. PICK s : s = Min(starts)
  OBVIOUS
<1>4. s \in starts /\ \A u \in starts : s <= u
  <2>1. starts \subseteq Nat
    BY <1>1
  <2> HIDE DEF starts
  <2> QED
    BY <1>2, <1>3, <2>1, MinOf
<1>5. /\ span' = [start |-> s, end |-> MatchEnd(s)]
      /\ pos' = MatchEnd(s)
      /\ pc' = IF Len(DigitsOf([start |-> s, end |-> MatchEnd(s)])) \in MinCard .. MaxCard
               THEN "luhn" ELSE "search"
  BY <1>3 DEF FindNext
<1> QED
  BY <1>1, <1>4, <1>5

LEMMA FindNextStep == IInv /\ FindNext => IInv'
<1> SUFFICES ASSUME IInv, FindNext PROVE IInv'
  OBVIOUS
<1>1. Shape /\ text \in Seq(Char)
  BY DEF IInv, Shape
<1>2. PICK s \in Nat :
          /\ Matches(s) /\ pos <= s
          /\ span' = [start |-> s, end |-> MatchEnd(s)]
          /\ pos' = MatchEnd(s)
          /\ pc' = IF Len(DigitsOf([start |-> s, end |-> MatchEnd(s)])) \in MinCard .. MaxCard
                   THEN "luhn" ELSE "search"
  BY <1>1, NextCandidate
<1>3. PICK c : c = [start |-> s, end |-> MatchEnd(s)]
  OBVIOUS
<1>4. c = [start |-> c.start, end |-> c.end] /\ c.start = s /\ c.end = MatchEnd(s)
  BY <1>3
<1>5. IsCandidate(c)
  BY <1>1, <1>2, <1>3, MatchIsCandidate
<1>6. /\ c.start \in Nat /\ c.end \in Nat /\ c.start < c.end /\ c.end <= Len(text)
      /\ DigitsOf(c) \in Seq(Digit)
  BY <1>1, <1>4, <1>5, CandidateFacts
<1>7. /\ text' = text /\ i' = 0 /\ total' = 0 /\ findings' = findings /\ span' = c /\ pos' = c.end
      /\ pc' = IF Len(DigitsOf(c)) \in MinCard .. MaxCard THEN "luhn" ELSE "search"
  BY <1>2, <1>3, <1>4 DEF FindNext
<1>8. Shape'
  <2>1. Len(text) \in Nat /\ c.start \in 0 .. Len(text) /\ c.end \in 0 .. Len(text)
    BY <1>1, <1>6
  <2>2. IsSpan(span)'
    BY <1>4, <1>7, <2>1 DEF IsSpan
  <2>3. pc' \in {"search", "luhn", "returned"} /\ 0 \in 0 .. Len(text) /\ 0 <= 9 * 0
    BY <1>7, <2>1
  <2>4. Spans' = Spans
    BY <1>7 DEF Spans
  <2> QED
    BY <1>1, <1>7, <2>1, <2>2, <2>3, <2>4 DEF Shape
<1>9. InLoop'
  <2>1. IsCandidate(span)'
    BY <1>5, <1>7 DEF IsCandidate, Candidate, DigitsTo, DigitsOf, WordEdge, IsAt
  <2>2. DigitsOf(span)' = DigitsOf(c)
    BY <1>7 DEF DigitsOf
  <2>3. Balanced(DigitsOf(c), 0, 0) /\ 0 <= Len(DigitsOf(c))
    BY <1>6, BalancedAtFirst
  <2> QED
    BY <1>7, <2>1, <2>2, <2>3 DEF InLoop
<1>10. Cards'
  <2>1. pos \in Nat /\ Reached = pos
    BY <1>1 DEF FindNext, Reached, Shape
  <2>2. Reached' \in Nat /\ Reached <= Reached'
    BY <1>2, <1>4, <1>6, <1>7, <2>1 DEF Reached
  <2>3. ASSUME NEW n \in DOMAIN findings
        PROVE  /\ IsCard(findings[n])'
               /\ findings[n].end <= Reached'
               /\ n # 1 => findings[n - 1].end <= findings[n].start
    <3>1. /\ IsCard(findings[n]) /\ findings[n].end <= Reached
          /\ n # 1 => findings[n - 1].end <= findings[n].start
      BY DEF IInv, Cards
    <3>2. IsCard(findings[n])'
      BY <1>7, <3>1 DEF IsCard, IsCandidate, Candidate, DigitsTo, DigitsOf, WordEdge, IsAt
    <3>3. findings[n].end \in Nat
      <4>1. findings[n] \in Spans
        BY <1>1 DEF Shape
      <4> QED
        BY <1>1, <4>1 DEF Spans
    <3> QED
      BY <2>1, <2>2, <3>1, <3>2, <3>3
  <2> QED
    BY <1>7, <2>3 DEF Cards
<1> QED
  BY <1>8, <1>9, <1>10 DEF IInv

LEMMA AddDigitStep == IInv /\ AddDigit => IInv'
<1> SUFFICES ASSUME IInv, AddDigit PROVE IInv'
  OBVIOUS
<1>1. Shape /\ text \in Seq(Char) /\ pc = "luhn" /\ IsCandidate(span)
  BY DEF IInv, Shape, InLoop, AddDigit
<1>2. PICK digits : digits = DigitsOf(span)
  OBVIOUS
<1>3. digits \in Seq(Digit) /\ Len(digits) <= Len(text) /\ Len(digits) \in Nat
  BY <1>1, <1>2, CandidateFacts DEF Shape, IsSpan
<1>4. /\ i \in 0 .. Len(digits) - 1 /\ i \in Nat /\ total \in Nat /\ total <= 9 * i
      /\ Balanced(digits, i, total)
  BY <1>1, <1>2, <1>3 DEF AddDigit, IInv, Shape, InLoop
<1>5. PICK w : w = Weight(digits, Len(digits) - i)
  OBVIOUS
<1>6. w \in 0 .. 9
  <2>1. Len(digits) - i \in 1 .. Len(digits)
    BY <1>3, <1>4
  <2> QED
    BY <1>3, <1>5, <2>1, WeightType
<1>7. /\ total' = total + w /\ i' = i + 1
      /\ UNCHANGED <<text, pc, pos, span, findings>>
  BY <1>2, <1>3, <1>4, <1>5, LoopWeight DEF AddDigit
<1>8. total' \in Nat /\ total' <= 9 * i' /\ i' \in 0 .. Len(text) /\ i' <= Len(digits)
  BY <1>1, <1>3, <1>4, <1>6, <1>7
<1>9. Shape'
  <2>1. Spans' = Spans /\ (IsSpan(span)' <=> IsSpan(span))
    BY <1>7 DEF Spans, IsSpan
  <2> QED
    BY <1>1, <1>7, <1>8, <2>1 DEF Shape
<1>10. Balanced(digits, i', total')
  BY <1>3, <1>4, <1>5, <1>7, BalancedNext
<1>11. InLoop'
  <2>1. DigitsOf(span)' = digits
    BY <1>2, <1>7 DEF DigitsOf
  <2>2. IsCandidate(span)'
    BY <1>1, <1>7 DEF IsCandidate, Candidate, DigitsTo, DigitsOf, WordEdge, IsAt
  <2> QED
    BY <1>1, <1>2, <1>7, <1>8, <1>10, <2>1, <2>2 DEF IInv, InLoop
<1>12. Cards'
  <2>1. Reached' = Reached
    BY <1>7 DEF Reached
  <2>2. \A f : IsCard(f) => IsCard(f)'
    BY <1>7 DEF IsCard, IsCandidate, Candidate, DigitsTo, DigitsOf, WordEdge, IsAt
  <2> QED
    BY <1>7, <2>1, <2>2 DEF IInv, Cards
<1> QED
  BY <1>9, <1>11, <1>12 DEF IInv

LEMMA CheckedStep == IInv /\ Checked => IInv'
<1> SUFFICES ASSUME IInv, Checked PROVE IInv'
  OBVIOUS
<1>1. Shape /\ text \in Seq(Char) /\ pc = "luhn" /\ IsCandidate(span) /\ span.end = pos
  BY DEF IInv, Shape, InLoop, Checked
<1>2. PICK digits : digits = DigitsOf(span)
  OBVIOUS
<1>3. /\ digits \in Seq(Digit) /\ span \in Spans
      /\ span.start \in Nat /\ span.end \in Nat /\ span.start < span.end
  BY <1>1, <1>2, CandidateFacts DEF Shape, IsSpan
<1>4. i = Len(digits) /\ total \in Nat /\ Balanced(digits, i, total) /\ Len(digits) \in MinCard .. MaxCard
  BY <1>1, <1>2 DEF Checked, IInv, Shape, InLoop
<1>5. total = LuhnSum(digits)
  BY <1>3, <1>4, BalancedAtLast
<1>6. /\ findings' = IF total % 10 = 0 THEN Append(findings, span) ELSE findings
      /\ pc' = "search"
      /\ UNCHANGED <<text, pos, span, i, total>>
  BY DEF Checked
<1>7. findings \in Seq(Spans)
  BY <1>1 DEF Shape
<1>8. Shape'
  <2>1. Spans' = Spans /\ (IsSpan(span)' <=> IsSpan(span))
    BY <1>6 DEF Spans, IsSpan
  <2>2. findings' \in Seq(Spans)
    BY <1>3, <1>6, <1>7
  <2> QED
    BY <1>1, <1>6, <2>1, <2>2 DEF Shape
<1>9. InLoop'
  BY <1>6 DEF InLoop
<1>10. Cards'
  <2>1. Reached = span.start /\ Reached' = span.end
    BY <1>1, <1>6 DEF Reached
  <2>2. \A f : IsCard(f) => IsCard(f)'
    BY <1>6 DEF IsCard, IsCandidate, Candidate, DigitsTo, DigitsOf, WordEdge, IsAt
  <2>3. ASSUME NEW n \in DOMAIN findings
        PROVE  /\ findings[n].end \in Nat /\ findings[n].end <= span.start
               /\ n # 1 => findings[n - 1].end <= findings[n].start
    <3>1. /\ IsCard(findings[n]) /\ findings[n].end <= span.start
          /\ n # 1 => findings[n - 1].end <= findings[n].start
      BY <2>1 DEF IInv, Cards
    <3>2. findings[n].end \in Nat
      <4>1. findings[n] \in Spans
        BY <1>7
      <4> QED
        BY <1>1, <4>1 DEF Spans
    <3> QED
      BY <3>1, <3>2
  <2>4. CASE total % 10 = 0
    <3>1. PICK N \in Nat : N = Len(findings)
      BY <1>7
    <3>2. /\ DOMAIN findings' = 1 .. N + 1 /\ findings'[N + 1] = span
          /\ \A n \in 1 .. N : findings'[n] = findings[n]
          /\ DOMAIN findings = 1 .. N
      BY <1>3, <1>6, <1>7, <2>4, <3>1
    <3>3. IsCard(span)'
      <4>1. LuhnValid(digits)
        BY <1>5, <2>4 DEF LuhnValid
      <4>2. Len(digits) <= MaxCard
        BY <1>4, BoundAssumption
      <4>3. IsCard(span)
        BY <1>1, <1>2, <4>1, <4>2 DEF IsCard
      <4> QED
        BY <1>6, <4>3 DEF IsCard, IsCandidate, Candidate, DigitsTo, DigitsOf, WordEdge, IsAt
    <3>4. ASSUME NEW n \in 1 .. N + 1
          PROVE  /\ IsCard(findings[n])'
                 /\ findings'[n].end <= span.end
                 /\ n # 1 => findings'[n - 1].end <= findings'[n].start
      <4>1. CASE n = N + 1
        <5>1. n # 1 => n - 1 \in DOMAIN findings /\ findings'[n - 1] = findings[n - 1]
          BY <3>2, <4>1
        <5>2. n # 1 => findings'[n - 1].end <= span.start
          BY <2>3, <5>1
        <5>3. IsCard(findings[n])'
          BY <1>6, <3>2, <3>3, <4>1
        <5> QED
          BY <1>3, <3>2, <4>1, <5>2, <5>3
      <4>2. CASE n # N + 1
        <5>1. n \in DOMAIN findings /\ findings'[n] = findings[n]
          BY <3>2, <4>2
        <5>2. n # 1 => findings'[n - 1] = findings[n - 1]
          BY <3>2, <4>2
        <5>3. IsCard(findings[n])'
          <6>1. IsCard(findings[n])
            BY <5>1 DEF IInv, Cards
          <6>2. PICK f : f = findings[n]
            OBVIOUS
          <6>3. IsCard(f)'
            BY <2>2, <6>1, <6>2
          <6> QED
            BY <5>1, <6>2, <6>3
        <5> QED
          BY <1>3, <2>3, <5>1, <5>2, <5>3
      <4> QED
        BY <4>1, <4>2
    <3> QED
      BY <2>1, <3>2, <3>4 DEF Cards
  <2>5. CASE total % 10 # 0
    <3>1. findings' = findings
      BY <1>6, <2>5
    <3>2. ASSUME NEW n \in DOMAIN findings PROVE IsCard(findings[n])'
      <4>1. PICK f : f = findings[n] /\ IsCard(f)
        BY DEF IInv, Cards
      <4>2. IsCard(f)'
        BY <2>2, <4>1
      <4> QED
        BY <3>1, <4>1, <4>2
    <3> QED
      BY <1>3, <2>1, <2>3, <3>1, <3>2 DEF Cards
  <2> QED
    BY <2>4, <2>5
<1> QED
  BY <1>8, <1>9, <1>10 DEF IInv

LEMMA Preserved == IInv /\ [Next]_vars => IInv'
<1> SUFFICES ASSUME IInv, [Next]_vars PROVE IInv'
  OBVIOUS
<1>1. CASE NoneLeft
  <2>1. /\ UNCHANGED <<text, pos, span, i, total, findings>>
        /\ pc = "search" /\ pc' = "returned"
    BY <1>1 DEF NoneLeft
  <2> QED
    BY <2>1 DEF IInv, Shape, InLoop, Cards, Spans, IsSpan, Reached,
                IsCard, IsCandidate, Candidate, DigitsTo, DigitsOf, WordEdge, IsAt
<1>2. CASE Returned \/ UNCHANGED vars
  <2>1. UNCHANGED vars
    BY <1>2 DEF Returned
  <2> QED
    BY <2>1 DEF vars, IInv, Shape, InLoop, Cards, Spans, IsSpan, Reached,
                IsCard, IsCandidate, Candidate, DigitsTo, DigitsOf, WordEdge, IsAt
<1> QED
  BY <1>1, <1>2, FindNextStep, AddDigitStep, CheckedStep DEF Next

LEMMA Inductive == Spec => []IInv
  BY Initially, Preserved, PTL DEF Spec

(* The search and the loop of _luhn_check stay within the text, and the sum  *)
(* within nine for each of its characters.                                   *)
THEOREM TypeCorrect == Spec => []TypeOK
<1>1. IInv => TypeOK
  <2> SUFFICES ASSUME IInv PROVE TypeOK
    OBVIOUS
  <2>1. Shape
    BY DEF IInv
  <2>2. total \in 0 .. 9 * Len(text)
    BY <2>1 DEF Shape
  <2>3. span \in [start : 0 .. Len(text), end : 0 .. Len(text)]
    BY <2>1 DEF Shape, IsSpan
  <2> QED
    BY <2>1, <2>2, <2>3 DEF Shape, TypeOK
<1> QED
  BY <1>1, Inductive, PTL

(* What _scan_credit_cards returns: candidates from left to right, none      *)
(* within another, with at least the digits the pattern asks for, at most    *)
(* those _luhn_check accepts, and valid by Luhn's formula as it is defined,  *)
(* which its loop computes from the right without a cross sum.               *)
THEOREM OnlyCardsFound == Spec => []FindingsAreCards
<1>1. IInv => FindingsAreCards
  <2> SUFFICES ASSUME IInv, NEW n \in DOMAIN findings
               PROVE  /\ Len(DigitsOf(findings[n])) \in MinRep + 1 .. MaxCard
                      /\ LuhnValid(DigitsOf(findings[n]))
                      /\ n # 1 => findings[n - 1].end <= findings[n].start
    BY DEF FindingsAreCards
  <2>1. PICK f : f = findings[n]
    OBVIOUS
  <2>2. IsCard(f) /\ (n # 1 => findings[n - 1].end <= findings[n].start)
    BY <2>1 DEF IInv, Cards
  <2>3. f \in Spans /\ text \in Seq(Char)
    BY <2>1 DEF IInv, Shape
  <2>4. Len(DigitsOf(f)) \in MinRep + 1 .. MaxRep + 1
    BY <2>2, <2>3, SpanFacts, CandidateFacts DEF IsCard, IsSpan
  <2>5. Len(DigitsOf(f)) \in MinRep + 1 .. MaxCard /\ LuhnValid(DigitsOf(f))
    BY <2>2, <2>4, BoundAssumption DEF IsCard
  <2> QED
    BY <2>1, <2>2, <2>5
<1> QED
  BY <1>1, Inductive, PTL

-----------------------------------------------------------------------------
LEMMA DigitsType ==
    ASSUME text \in Seq(Char), NEW a \in Nat, NEW b \in 0 .. Len(text)
    PROVE  DigitsTo(a, b) \in Seq(Digit) /\ Len(DigitsTo(a, b)) \in Nat
<1>1. PICK s \in Seq(Char) : s = SubSeq(text, a + 1, b)
  <2>1. \A n \in a + 1 .. b : text[n] \in Char
    OBVIOUS
  <2>2. SubSeq(text, a + 1, b) \in Seq(Char)
    BY <2>1, SubSeqProperties
  <2> QED
    BY <2>2
<1>2. OnlyDigits(s) \in Seq(Digit)
  <2>1. PICK c \in Char : c = 0
    BY DEF Char
  <2> QED
    BY <2>1, OnlyDigitsGrow
<1> QED
  BY <1>1, <1>2 DEF DigitsTo, DigitsOf

LEMMA DigitsMonotone ==
    ASSUME text \in Seq(Char), NEW a \in Nat, NEW b \in a .. Len(text), NEW e \in b .. Len(text)
    PROVE  Len(DigitsTo(a, b)) <= Len(DigitsTo(a, e))
<1>0. PICK d \in Nat : e = b + d
  <2>1. e - b \in Nat /\ e = b + (e - b)
    OBVIOUS
  <2> QED
    BY <2>1
<1> DEFINE R == {m \in 0 .. d : Len(DigitsTo(a, b)) <= Len(DigitsTo(a, b + m))}
<1>1. b \in Nat /\ a <= b /\ b + d <= Len(text) /\ Len(text) \in Nat /\ b \in 0 .. Len(text)
  BY <1>0
<1>2. Len(DigitsTo(a, b)) \in Nat
  BY <1>1, DigitsType
<1>3. 0 \in R
  BY <1>1, <1>2
<1>4. ASSUME NEW m \in 0 .. d - 1, m \in R PROVE m + 1 \in R
  <2>1. PICK n : n = b + m
    OBVIOUS
  <2>2. n \in Nat /\ a <= n /\ n < Len(text) /\ b + (m + 1) = n + 1 /\ m + 1 \in 0 .. d
    BY <1>1, <2>1
  <2>3. WithinText(a, n) /\ n \in 0 .. Len(text)
    BY <1>1, <2>2 DEF WithinText
  <2>4. DigitsTo(a, n) \in Seq(Digit) /\ Len(DigitsTo(a, n)) \in Nat
    BY <2>3, DigitsType
  <2>5. DigitsTo(a, n + 1) = DigitsTo(a, n) \/ DigitsTo(a, n + 1) = Append(DigitsTo(a, n), text[n + 1])
    BY <2>3, OneMore
  <2>6. Len(DigitsTo(a, n)) <= Len(DigitsTo(a, n + 1)) /\ Len(DigitsTo(a, n + 1)) \in Nat
    <3>1. text[n + 1] \in Char
      BY <2>2
    <3>2. Len(Append(DigitsTo(a, n), text[n + 1])) = Len(DigitsTo(a, n)) + 1
      BY <2>4, <3>1
    <3> QED
      BY <2>4, <2>5, <3>2
  <2>7. Len(DigitsTo(a, b)) <= Len(DigitsTo(a, n))
    BY <1>4, <2>1
  <2>8. Len(DigitsTo(a, b)) <= Len(DigitsTo(a, n + 1))
    BY <1>2, <2>4, <2>6, <2>7
  <2> QED
    BY <2>2, <2>8
<1>5. 0 .. d \subseteq R
  <2> HIDE DEF R
  <2> QED
    BY <1>3, <1>4, InductTo
<1> QED
  BY <1>0, <1>5

-----------------------------------------------------------------------------
LEMMA RunFacts ==
    ASSUME text \in Seq(Char), NEW r \in Spans, IsRun(r)
    PROVE  /\ r.start \in Nat /\ r.end \in Nat /\ r.start < r.end /\ r.end <= Len(text)
           /\ Len(text) \in Nat
           /\ text[r.start + 1] \in Digit /\ text[r.end] \in Digit
           /\ NextDigit(r.end) = 0 /\ WordEdge(r.start) /\ WordEdge(r.end)
  BY DEF Spans, IsRun, IsAt

(* Within a run a digit is followed by another one. *)
LEMMA RunGoesOn ==
    ASSUME text \in Seq(Char), NEW r \in Spans, IsRun(r),
           NEW d \in r.start + 1 .. r.end - 1, text[d] \in Digit
    PROVE  NextDigit(d) # 0 /\ NextDigit(d) <= r.end
<1>1. /\ r.start \in Nat /\ r.end \in Nat /\ r.end <= Len(text) /\ Len(text) \in Nat
      /\ text[r.end] \in Digit
  BY RunFacts
<1>2. d \in Nat /\ d + 1 <= r.end
  BY <1>1
<1>3. NextDigit(d) # 0
  BY NotBoth DEF IsRun, IsAt
<1> QED
  BY <1>1, <1>2, <1>3, NextDigitFacts, NotBoth

(* How many digits of a run end at or before x. *)
LEMMA RunCounts ==
    ASSUME text \in Seq(Char), NEW r \in Spans, IsRun(r),
           NEW n, NEW x, Candidate(r.start, x, n), x <= r.end
    PROVE  /\ n <= Len(DigitsOf(r)) /\ (x < r.end => n < Len(DigitsOf(r)))
           /\ x = r.end => n = Len(DigitsOf(r))
<1>1. /\ r.start \in Nat /\ r.end \in Nat /\ r.start < r.end /\ r.end <= Len(text)
      /\ Len(text) \in Nat /\ text[r.end] \in Digit
  BY RunFacts
<1>2. DigitsOf(r) = DigitsTo(r.start, r.end)
  BY SpanFacts
<1>3. /\ x \in Nat /\ n \in Nat /\ r.start + n <= x /\ x <= Len(text)
      /\ n = Len(DigitsTo(r.start, x))
  BY DEF Candidate
<1>4. CASE x = r.end
  BY <1>1, <1>2, <1>3, <1>4
<1>5. CASE x < r.end
  <2>1. PICK a : a = r.start
    OBVIOUS
  <2>2. PICK e : e = r.end - 1
    OBVIOUS
  <2>3. /\ a \in Nat /\ e \in Nat /\ a <= x /\ x <= e /\ e < Len(text) /\ e + 1 = r.end
        /\ x \in a .. Len(text) /\ e \in x .. Len(text) /\ e \in 0 .. Len(text)
    BY <1>1, <1>3, <1>5, <2>1, <2>2
  <2>4. Len(DigitsTo(a, x)) <= Len(DigitsTo(a, e))
    BY <2>3, DigitsMonotone
  <2>5. DigitsTo(a, e) \in Seq(Digit) /\ Len(DigitsTo(a, e)) \in Nat
    BY <2>3, DigitsType
  <2>6. DigitsTo(a, e + 1) = Append(DigitsTo(a, e), text[e + 1])
    <3>1. WithinText(a, e) /\ text[e + 1] \in Digit
      BY <1>1, <2>3 DEF WithinText
    <3> QED
      BY <3>1, OneMore
  <2>7. Len(DigitsOf(r)) = Len(DigitsTo(a, e)) + 1
    BY <1>2, <2>1, <2>3, <2>5, <2>6
  <2> QED
    BY <1>3, <1>5, <2>1, <2>4, <2>5, <2>7
<1> QED
  BY <1>1, <1>3, <1>4, <1>5

(* The digits of DigitsFrom are those of the run, and no more. *)
LEMMA RunChain ==
    ASSUME text \in Seq(Char), NEW r \in Spans, IsRun(r)
    PROVE  \A n \in 1 .. MaxRep + 1 :
              LET d == DigitsFrom(r.start)[n] IN
              \/ n <= Len(DigitsOf(r)) /\ d # 0 /\ d <= r.end /\ Candidate(r.start, d, n)
              \/ n > Len(DigitsOf(r)) /\ d = 0
<1>1. PICK at : at = DigitsFrom(r.start)
  OBVIOUS
<1>2. PICK N : N = Len(DigitsOf(r))
  OBVIOUS
<1> DEFINE In(n) == \/ n <= N /\ at[n] # 0 /\ at[n] <= r.end /\ Candidate(r.start, at[n], n)
                    \/ n > N /\ at[n] = 0
           R == {n \in 0 .. MaxRep + 1 : n # 0 => In(n)}
<1>3. Chain(at, r.start, MaxRep + 1) /\ MaxRep \in Nat
  BY <1>1, DigitsFromChain, BoundAssumption
<1>4. /\ r.start \in Nat /\ r.end \in Nat /\ r.start < r.end /\ r.end <= Len(text)
      /\ Len(text) \in Nat /\ text[r.start + 1] \in Digit /\ NextDigit(r.end) = 0
  BY RunFacts
<1>5. N \in Nat
  <2>1. DigitsOf(r) = DigitsTo(r.start, r.end) /\ r.end \in 0 .. Len(text)
    BY <1>4, SpanFacts
  <2> QED
    BY <1>2, <1>4, <2>1, DigitsType
<1>6. 0 \in R
  BY <1>3
<1>7. ASSUME NEW n \in 0 .. (MaxRep + 1) - 1, n \in R PROVE n + 1 \in R
  <2>1. n \in Nat /\ n + 1 \in 1 .. MaxRep + 1 /\ n + 1 \in 0 .. MaxRep + 1 /\ (n + 1) - 1 = n
    BY <1>3
  <2>2. CASE n = 0
    <3>1. IsAt(r.start + 1, Digit)
      BY <1>4 DEF IsAt
    <3>2. at[1] = r.start + 1
      BY <1>3, <2>1, <2>2, <3>1 DEF Chain
    <3>3. Candidate(r.start, at[1], 1)
      BY <1>4, <3>1, <3>2, FirstDigit
    <3>4. at[1] # 0 /\ at[1] <= r.end
      BY <1>4, <3>2
    <3>5. 1 <= N
      BY <1>2, <3>3, <3>4, RunCounts
    <3> QED
      BY <2>1, <2>2, <3>3, <3>4, <3>5
  <2>3. CASE n # 0
    <3>1. n + 1 # 1
      BY <2>1, <2>3
    <3>2. at[n + 1] = IF at[n] = 0 THEN 0 ELSE NextDigit(at[n])
      BY <1>3, <2>1, <3>1 DEF Chain
    <3>3. In(n)
      BY <1>7, <2>3
    <3>4. CASE n > N /\ at[n] = 0
      BY <1>5, <2>1, <3>2, <3>4
    <3>5. CASE n <= N /\ at[n] # 0 /\ at[n] <= r.end /\ Candidate(r.start, at[n], n)
      <4>1. PICK d : d = at[n]
        OBVIOUS
      <4>2. d # 0 /\ d <= r.end /\ Candidate(r.start, d, n) /\ at[n + 1] = NextDigit(d)
        BY <3>2, <3>5, <4>1
      <4>3. d \in Nat /\ r.start + n <= d /\ text[d] \in Digit
        BY <4>2 DEF Candidate
      <4>4. CASE d = r.end
        <5>1. n = N
          BY <1>2, <4>2, <4>4, RunCounts
        <5>2. n + 1 > N /\ at[n + 1] = 0
          BY <1>4, <1>5, <2>1, <4>2, <4>4, <5>1
        <5> QED
          BY <2>1, <5>2
      <4>5. CASE d # r.end
        <5>1. d < r.end /\ d \in r.start + 1 .. r.end - 1
          BY <1>4, <2>1, <2>3, <4>2, <4>3, <4>5
        <5>2. n < N
          BY <1>2, <4>2, <5>1, RunCounts
        <5>3. NextDigit(d) # 0 /\ NextDigit(d) <= r.end
          BY <4>3, <5>1, RunGoesOn
        <5>4. Candidate(r.start, NextDigit(d), n + 1)
          BY <4>2, <5>3, CandidateGrows
        <5>5. n + 1 <= N
          BY <1>5, <2>1, <5>2
        <5> QED
          BY <2>1, <4>2, <5>3, <5>4, <5>5
      <4> QED
        BY <4>4, <4>5
    <3> QED
      BY <3>3, <3>4, <3>5
  <2> QED
    BY <2>2, <2>3
<1>8. 0 .. MaxRep + 1 \subseteq R
  <2>1. MaxRep + 1 \in Nat
    BY <1>3
  <2> HIDE DEF R
  <2> QED
    BY <1>6, <1>7, <2>1, InductTo
<1>9. ASSUME NEW n \in 1 .. MaxRep + 1 PROVE In(n)
  <2>1. n \in 0 .. MaxRep + 1 /\ n # 0
    BY <1>3
  <2> QED
    BY <1>8, <2>1
<1> QED
  BY <1>1, <1>2, <1>9

-----------------------------------------------------------------------------
(* A card that stands alone. *)
Lone(r) ==
    /\ r \in Spans /\ IsRun(r)
    /\ Len(DigitsOf(r)) \in MinRep + 1 .. MaxCard
    /\ LuhnValid(DigitsOf(r))

(* The greedy match takes the whole of it, *)
LEMMA LoneMatches ==
    ASSUME text \in Seq(Char), NEW r, Lone(r)
    PROVE  Matches(r.start) /\ MatchEnd(r.start) = r.end
<1>1. r \in Spans /\ IsRun(r)
  BY DEF Lone
<1>2. PICK at : at = DigitsFrom(r.start)
  OBVIOUS
<1>3. PICK N : N = Len(DigitsOf(r))
  OBVIOUS
<1>4. N \in MinRep + 1 .. MaxRep + 1 /\ N \in Nat /\ MinRep \in Nat /\ MaxRep \in Nat
  BY <1>3, BoundAssumption, ReachAssumption DEF Lone
<1>5. /\ r.start \in Nat /\ r.end \in Nat /\ r.start < r.end /\ r.end <= Len(text)
      /\ WordEdge(r.start) /\ WordEdge(r.end)
  BY <1>1, RunFacts
<1>6. \A n \in 1 .. MaxRep + 1 :
          \/ n <= N /\ at[n] # 0 /\ at[n] <= r.end /\ Candidate(r.start, at[n], n)
          \/ n > N /\ at[n] = 0
  BY <1>1, <1>2, <1>3, RunChain
<1>7. at[N] = r.end
  <2>1. N \in 1 .. MaxRep + 1 /\ ~(N > N)
    BY <1>4
  <2>2. PICK d : d = at[N] /\ d <= r.end /\ Candidate(r.start, d, N)
    BY <1>6, <2>1
  <2>3. ~(d < r.end)
    <3>1. d < r.end => N < Len(DigitsOf(r))
      BY <1>1, <2>2, RunCounts
    <3> QED
      BY <1>3, <1>4, <3>1
  <2>4. d \in Nat
    BY <2>2 DEF Candidate
  <2> QED
    BY <1>5, <2>2, <2>3, <2>4
<1>8. Ends(r.start) = {at[n] : n \in {m \in MinRep + 1 .. MaxRep + 1 : at[m] # 0 /\ WordEdge(at[m])}}
  BY <1>2 DEF Ends
<1>9. r.end \in Ends(r.start)
  BY <1>4, <1>5, <1>7, <1>8
<1>10. \A e \in Ends(r.start) : e \in 0 .. r.end
  <2> SUFFICES ASSUME NEW e \in Ends(r.start) PROVE e \in 0 .. r.end
    OBVIOUS
  <2>1. PICK n \in MinRep + 1 .. MaxRep + 1 : e = at[n] /\ at[n] # 0
    BY <1>8
  <2>2. n \in 1 .. MaxRep + 1
    BY <1>4
  <2>3. e <= r.end /\ Candidate(r.start, e, n)
    BY <1>6, <2>1, <2>2
  <2> QED
    BY <1>5, <2>3 DEF Candidate
<1>11. MatchEnd(r.start) \in Ends(r.start) /\ r.end <= MatchEnd(r.start)
  BY <1>5, <1>9, <1>10, MaxOf DEF MatchEnd
<1>12. MatchEnd(r.start) = r.end
  BY <1>5, <1>10, <1>11
<1> QED
  BY <1>5, <1>9, <1>12 DEF Matches

(* and none that starts before it takes any of it. *)
LEMMA LoneNotCrossed ==
    ASSUME text \in Seq(Char), NEW r, Lone(r), NEW u \in Nat, u < r.start, Matches(u)
    PROVE  MatchEnd(u) \in Nat /\ MatchEnd(u) < r.start
<1>1. r \in Spans /\ IsRun(r)
  BY DEF Lone
<1>2. PICK b : b = r.start
  OBVIOUS
<1>3. /\ b \in Nat /\ u < b /\ b + 1 <= Len(text) /\ Len(text) \in Nat
      /\ text[b + 1] \in Digit /\ WordEdge(b)
  BY <1>1, <1>2, RunFacts
<1>4. b \in DOMAIN text /\ b + 1 \in DOMAIN text
  BY <1>3
<1>5. text[b] \notin Digit
  BY <1>3, <1>4 DEF WordEdge, IsAt
<1>6. ~(text[b] \in Separator /\ IsAt(b - 1, Digit))
  BY <1>1, <1>2, <1>4 DEF IsRun, IsAt
<1>7. PICK at : at = DigitsFrom(u)
  OBVIOUS
<1>8. /\ \A n \in 1 .. MaxRep + 1 : at[n] # 0 => Candidate(u, at[n], n)
      /\ Chain(at, u, MaxRep + 1) /\ MaxRep \in Nat /\ MinRep \in Nat
  BY <1>7, ChainCandidates, DigitsFromChain, BoundAssumption
<1> DEFINE R == {n \in 0 .. MaxRep + 1 : n # 0 /\ at[n] # 0 => at[n] < b}
<1>9. 0 \in R
  BY <1>8
<1>10. ASSUME NEW n \in 0 .. (MaxRep + 1) - 1, n \in R PROVE n + 1 \in R
  <2>1. n \in Nat /\ n + 1 \in 1 .. MaxRep + 1 /\ n + 1 \in 0 .. MaxRep + 1 /\ (n + 1) - 1 = n
    BY <1>8
  <2>2. ASSUME at[n + 1] # 0 PROVE at[n + 1] < b
    <3>1. CASE n = 0
      <4>1. at[1] = IF IsAt(u + 1, Digit) THEN u + 1 ELSE 0
        BY <1>8, <2>1, <3>1 DEF Chain
      <4>2. at[1] = u + 1 /\ text[u + 1] \in Digit
        BY <2>2, <3>1, <4>1 DEF IsAt
      <4>3. u + 1 # b
        BY <1>5, <4>2
      <4> QED
        BY <1>3, <3>1, <4>2, <4>3
    <3>2. CASE n # 0
      <4>1. at[n + 1] = IF at[n] = 0 THEN 0 ELSE NextDigit(at[n])
        <5>1. n + 1 # 1
          BY <2>1, <3>2
        <5> QED
          BY <1>8, <2>1, <5>1 DEF Chain
      <4>2. PICK d : d = at[n] /\ d # 0 /\ at[n + 1] = NextDigit(d) /\ NextDigit(d) # 0
        BY <2>2, <4>1
      <4>3. n \in 1 .. MaxRep + 1
        <5>1. n <= (MaxRep + 1) - 1 /\ MaxRep \in Nat
          BY <1>8
        <5> QED
          BY <2>1, <3>2, <5>1
      <4>4. Candidate(u, d, n)
        BY <1>8, <4>2, <4>3
      <4>5. d \in Nat /\ d < b /\ text[d] \in Digit /\ d <= Len(text)
        BY <1>10, <3>2, <4>2, <4>4 DEF Candidate
      <4>6. CASE NextDigit(d) = d + 1 /\ text[d + 1] \in Digit
        <5>1. d + 1 # b
          BY <1>5, <4>6
        <5> QED
          BY <1>3, <4>2, <4>5, <4>6, <5>1
      <4>7. CASE NextDigit(d) = d + 2 /\ text[d + 1] \in Separator /\ text[d + 2] \in Digit
        <5>1. d + 2 # b
          BY <1>5, <4>7
        <5>2. d + 1 # b
          <6>1. IsAt(d, Digit)
            BY <1>3, <4>2, <4>5 DEF IsAt
          <6>2. d + 1 = b => b - 1 = d
            BY <4>5
          <6> QED
            BY <1>6, <4>7, <6>1, <6>2
        <5>3. d + 2 < b
          BY <1>3, <4>5, <5>1, <5>2
        <5> QED
          BY <4>2, <4>7, <5>3
      <4> QED
        BY <4>2, <4>5, <4>6, <4>7, NextDigitFacts
    <3> QED
      BY <3>1, <3>2
  <2> QED
    BY <2>1, <2>2
<1>11. 0 .. MaxRep + 1 \subseteq R
  <2>1. MaxRep + 1 \in Nat
    BY <1>8
  <2> HIDE DEF R
  <2> QED
    BY <1>9, <1>10, <2>1, InductTo
<1>12. MatchEnd(u) \in Ends(u)
  <2>1. Ends(u) \subseteq 0 .. b
    <3> SUFFICES ASSUME NEW e \in Ends(u) PROVE e \in 0 .. b
      OBVIOUS
    <3>1. PICK n \in MinRep + 1 .. MaxRep + 1 : e = at[n] /\ at[n] # 0
      BY <1>7 DEF Ends
    <3>2. n \in 0 .. MaxRep + 1 /\ n # 0 /\ n \in 1 .. MaxRep + 1
      BY <1>8
    <3>3. e < b /\ Candidate(u, e, n)
      BY <1>8, <1>11, <3>1, <3>2
    <3> QED
      BY <1>3, <3>3 DEF Candidate
  <2>2. Ends(u) # {}
    BY DEF Matches
  <2> QED
    BY <1>3, <2>1, <2>2, MaxOf DEF MatchEnd
<1>13. PICK n \in MinRep + 1 .. MaxRep + 1 : MatchEnd(u) = at[n] /\ at[n] # 0
  BY <1>7, <1>12 DEF Ends
<1>14. n \in 0 .. MaxRep + 1 /\ n # 0 /\ n \in 1 .. MaxRep + 1
  BY <1>8
<1>15. at[n] < b /\ Candidate(u, at[n], n)
  BY <1>8, <1>11, <1>13, <1>14
<1> QED
  BY <1>2, <1>13, <1>15 DEF Candidate

(* The search has found it, is still before it, or is checking it. *)
Caught ==
    \A r : Lone(r) =>
        \/ Found(r)
        \/ pc # "returned" /\ pos <= r.start
        \/ pc = "luhn" /\ span = r

LEMMA LoneKept == text' = text => \A r : Lone(r)' => Lone(r)
  BY DEF Lone, Spans, IsRun, NextDigit, WordEdge, IsAt, DigitsOf

LEMMA CaughtStep == IInv /\ Caught /\ [Next]_vars => Caught'
<1> SUFFICES ASSUME IInv, Caught, [Next]_vars, NEW r, Lone(r)'
             PROVE  (\/ Found(r)
                     \/ pc # "returned" /\ pos <= r.start
                     \/ pc = "luhn" /\ span = r)'
  BY DEF Caught
<1>1. text' = text
  BY DEF Next, FindNext, NoneLeft, AddDigit, Checked, Returned, vars
<1>2. Lone(r)
  BY <1>1, LoneKept
<1>3. \/ Found(r)
      \/ pc # "returned" /\ pos <= r.start
      \/ pc = "luhn" /\ span = r
  BY <1>2 DEF Caught
<1>4. Shape /\ text \in Seq(Char) /\ findings \in Seq(Spans) /\ pos \in Nat /\ Len(text) \in Nat
  BY DEF IInv, Shape
<1>5. /\ r \in Spans /\ r = [start |-> r.start, end |-> r.end]
      /\ r.start \in Nat /\ r.start <= Len(text)
  BY <1>2, <1>4 DEF Lone, Spans
<1>6. Matches(r.start) /\ MatchEnd(r.start) = r.end
  BY <1>2, <1>4, LoneMatches
<1>7. CASE FindNext
  <2>1. PICK s \in Nat :
            /\ Matches(s) /\ pos <= s
            /\ \A u \in pos .. Len(text) : Matches(u) => s <= u
            /\ span' = [start |-> s, end |-> MatchEnd(s)]
            /\ pos' = MatchEnd(s)
            /\ pc' = IF Len(DigitsOf([start |-> s, end |-> MatchEnd(s)])) \in MinCard .. MaxCard
                     THEN "luhn" ELSE "search"
    BY <1>4, <1>7, NextCandidate
  <2>2. findings' = findings /\ pc = "search"
    BY <1>7 DEF FindNext
  <2>3. CASE Found(r)
    BY <2>2, <2>3 DEF Found
  <2>4. CASE pos <= r.start
    <3>1. s <= r.start
      BY <1>4, <1>5, <1>6, <2>1, <2>4
    <3>2. CASE s = r.start
      <4>1. span' = r
        BY <1>5, <1>6, <2>1, <3>2
      <4>2. Len(DigitsOf(r)) \in MinCard .. MaxCard
        BY <1>2, BoundAssumption, ReachAssumption DEF Lone
      <4>3. pc' = "luhn"
        BY <2>1, <4>1, <4>2
      <4> QED
        BY <4>1, <4>3
    <3>3. CASE s # r.start
      <4>1. s < r.start
        BY <1>5, <2>1, <3>1, <3>3
      <4>2. pos' \in Nat /\ pos' < r.start
        BY <1>2, <1>4, <2>1, <4>1, LoneNotCrossed
      <4>3. pos' <= r.start
        BY <1>5, <4>2
      <4>4. pc' # "returned"
        BY <2>1
      <4> QED
        BY <4>3, <4>4
    <3> QED
      BY <3>2, <3>3
  <2> QED
    BY <1>3, <2>2, <2>3, <2>4
<1>8. CASE NoneLeft
  <2>1. pc = "search" /\ findings' = findings /\ ~\E s \in pos .. Len(text) : Matches(s)
    BY <1>8 DEF NoneLeft
  <2>2. ~(pos <= r.start)
    BY <1>4, <1>5, <1>6, <2>1
  <2> QED
    BY <1>3, <2>1, <2>2 DEF Found
<1>9. CASE AddDigit
  BY <1>3, <1>9 DEF AddDigit, Found
<1>10. CASE Checked
  <2>1. /\ findings' = IF total % 10 = 0 THEN Append(findings, span) ELSE findings
        /\ pc' = "search" /\ pos' = pos /\ pc = "luhn"
    BY <1>10 DEF Checked
  <2>2. span \in Spans
    BY <1>4, <2>1, CandidateFacts DEF IInv, InLoop, Shape, IsSpan
  <2>3. CASE Found(r)
    <3>1. PICK n \in DOMAIN findings : findings[n] = r
      BY <2>3 DEF Found
    <3>2. n \in DOMAIN findings' /\ findings'[n] = r
      BY <1>4, <2>1, <2>2, <3>1
    <3> QED
      BY <3>2 DEF Found
  <2>4. CASE pos <= r.start
    BY <2>1, <2>4
  <2>5. CASE span = r
    <3>1. PICK digits : digits = DigitsOf(r)
      OBVIOUS
    <3>2. /\ digits \in Seq(Digit) /\ total \in Nat /\ i = Len(digits)
          /\ Balanced(digits, i, total)
      BY <1>4, <1>10, <2>1, <2>5, <3>1, CandidateFacts DEF IInv, Shape, InLoop, Checked, IsSpan
    <3>3. total = LuhnSum(digits)
      BY <3>2, BalancedAtLast
    <3>4. total % 10 = 0
      BY <1>2, <3>1, <3>3 DEF Lone, LuhnValid
    <3>5. findings' = Append(findings, r)
      BY <2>1, <2>5, <3>4
    <3>6. Len(findings) + 1 \in DOMAIN findings' /\ findings'[Len(findings) + 1] = r
      BY <1>4, <1>5, <3>5
    <3> QED
      BY <3>6 DEF Found
  <2> QED
    BY <1>3, <2>1, <2>3, <2>4, <2>5
<1>11. CASE Returned \/ UNCHANGED vars
  BY <1>3, <1>11 DEF Returned, vars, Found
<1> QED
  BY <1>7, <1>8, <1>9, <1>10, <1>11 DEF Next

(* What _scan_credit_cards may not miss: a run of digits that stands alone,  *)
(* has as many as the pattern and _luhn_check both ask for and is valid by   *)
(* Luhn's formula is found, whatever else is in the text and whichever       *)
(* candidates the search took before.                                        *)
THEOREM EveryLoneCardFound == Spec => []LoneCardFound
<1>1. Init => Caught
  <2> SUFFICES ASSUME Init, NEW r, Lone(r) PROVE pc # "returned" /\ pos <= r.start
    BY DEF Caught
  <2>1. r.start \in Nat
    BY DEF Lone, Spans
  <2> QED
    BY <2>1 DEF Init
<1>2. IInv /\ Caught => LoneCardFound
  <2> SUFFICES ASSUME Caught, pc = "returned", NEW s \in Spans,
                      IsRun(s), Len(DigitsOf(s)) \in MinRep + 1 .. MaxCard, LuhnValid(DigitsOf(s))
               PROVE  Found(s)
    BY DEF LoneCardFound
  <2>1. Lone(s)
    BY DEF Lone
  <2> QED
    BY <2>1 DEF Caught
<1>3. Spec => []Caught
  BY <1>1, Inductive, CaughtStep, PTL DEF Spec
<1> QED
  BY <1>2, <1>3, Inductive, PTL

-----------------------------------------------------------------------------
(* The two patterns of redact. *)
LEMMA PatternFacts ==
    /\ Len(Patterns) = 2 /\ DOMAIN Patterns = {1, 2}
    /\ Patterns[1] = "card_number" /\ Patterns[2] = "phone"
    /\ \A c \in {"card_number", "phone"} : MaskLen[c] \in Nat \ {0}
<1>1. /\ Len(Patterns) = 2 /\ DOMAIN Patterns = {1, 2}
      /\ Patterns[1] = "card_number" /\ Patterns[2] = "phone"
  BY DEF Patterns
<1> QED
  BY <1>1, MaskAssumption

(* A span has no more digits than characters. *)
LEMMA DigitsBound ==
    ASSUME text \in Seq(Char), NEW a \in Nat, NEW b \in a .. Len(text)
    PROVE  Len(DigitsTo(a, b)) <= b - a
<1>1. PICK d \in Nat : b = a + d
  <2>1. b - a \in Nat /\ b = a + (b - a)
    OBVIOUS
  <2> QED
    BY <2>1
<1> DEFINE R == {m \in 0 .. d : Len(DigitsTo(a, a + m)) <= m}
<1>2. a + d <= Len(text) /\ Len(text) \in Nat /\ a \in 0 .. Len(text)
  BY <1>1
<1>3. 0 \in R
  <2>1. DigitsTo(a, a + 0) = << >>
    BY <1>2, NoDigits
  <2> QED
    BY <2>1
<1>4. ASSUME NEW m \in 0 .. d - 1, m \in R PROVE m + 1 \in R
  <2>1. PICK n : n = a + m
    OBVIOUS
  <2>2. n \in Nat /\ a <= n /\ n < Len(text) /\ a + (m + 1) = n + 1 /\ m + 1 \in 0 .. d
    BY <1>2, <2>1
  <2>3. WithinText(a, n) /\ n \in 0 .. Len(text)
    BY <1>2, <2>2 DEF WithinText
  <2>4. DigitsTo(a, n) \in Seq(Digit) /\ Len(DigitsTo(a, n)) \in Nat
    BY <2>3, DigitsType
  <2>5. DigitsTo(a, n + 1) = DigitsTo(a, n) \/ DigitsTo(a, n + 1) = Append(DigitsTo(a, n), text[n + 1])
    BY <2>3, OneMore
  <2>6. Len(DigitsTo(a, n + 1)) <= Len(DigitsTo(a, n)) + 1 /\ Len(DigitsTo(a, n + 1)) \in Nat
    <3>1. Len(Append(DigitsTo(a, n), text[n + 1])) = Len(DigitsTo(a, n)) + 1
      BY <2>4
    <3> QED
      BY <2>4, <2>5, <3>1
  <2>7. Len(DigitsTo(a, n)) <= m
    BY <1>4, <2>1
  <2>8. Len(DigitsTo(a, n + 1)) <= m + 1
    BY <2>4, <2>6, <2>7
  <2> QED
    BY <2>2, <2>8
<1>5. 0 .. d \subseteq R
  <2> HIDE DEF R
  <2> QED
    BY <1>3, <1>4, InductTo
<1>6. d \in R
  BY <1>5
<1> QED
  BY <1>1, <1>6

(* A match of "card_number" is long enough for "phone". *)
LEMMA CardNumberIsPhone ==
    ASSUME text \in Seq(Char), NEW s, s.start \in Nat, s.end \in s.start .. Len(text),
           MatchOf("card_number", s)
    PROVE  MatchOf("phone", s)
<1>1. IsNumber(s) /\ Len(DigitsTo(s.start, s.end)) \in MinMask .. MaxMask
  BY DEF MatchOf, DigitsTo, DigitsOf
<1>2. Len(DigitsTo(s.start, s.end)) <= s.end - s.start
  BY DigitsBound
<1>3. s.end - s.start >= PhoneMiddle + 2
  BY <1>1, <1>2, MaskAssumption
<1> QED
  BY <1>1, <1>3 DEF MatchOf

(* So is a candidate of the scan without a newline. *)
LEMMA CandidateIsNumber ==
    ASSUME text \in Seq(Char), NEW f \in Spans, IsCandidate(f),
           \A m \in f.start + 1 .. f.end : text[m] # Newline
    PROVE  /\ MatchOf("phone", f)
           /\ Len(DigitsOf(f)) <= MaxMask => MatchOf("card_number", f)
<1>1. PICK n \in MinRep + 1 .. MaxRep + 1 : Candidate(f.start, f.end, n)
  BY DEF IsCandidate
<1>2. /\ f.start \in Nat /\ f.end \in Nat /\ n \in Nat /\ f.start + n <= f.end
      /\ f.end <= Len(text) /\ Len(text) \in Nat /\ MinMask <= n
      /\ text[f.start + 1] \in Digit /\ text[f.end] \in Digit
      /\ Len(DigitsOf(f)) = n
  BY <1>1, BoundAssumption, MaskAssumption, SpanFacts DEF Candidate
<1>3. IsAt(f.start + 1, Digit) /\ IsAt(f.end, Digit)
  <2>1. 1 <= n
    BY <1>2, MaskAssumption
  <2> QED
    BY <1>2, <2>1 DEF IsAt
<1>4. f.end - f.start >= PhoneMiddle + 2
  BY <1>2, MaskAssumption
<1>5. ASSUME NEW m \in f.start + 1 .. f.end PROVE text[m] \in Digit \cup {Blank, Dash}
  <2>1. text[m] \in Digit \cup Separator
    BY <1>1 DEF Candidate
  <2> QED
    BY <2>1 DEF Separator
<1>6. IsNumber(f)
  BY <1>3, <1>5 DEF IsNumber, IsCandidate
<1>7. Len(DigitsOf(f)) <= MaxMask => Len(DigitsOf(f)) \in MinMask .. MaxMask
  BY <1>2, MaskAssumption
<1> QED
  BY <1>4, <1>6, <1>7 DEF MatchOf

(* Nothing that begins or ends beside a card that stands alone overlaps it. *)
LEMMA AloneCovers ==
    ASSUME text \in Seq(Char), NEW f, NEW t, Alone(f), IsNumber(t), Overlap(f, t),
           f.start \in Nat, f.end \in Nat, f.start < f.end, f.end <= Len(text),
           t.start \in Nat, t.end \in Nat, t.start < t.end, t.end <= Len(text)
    PROVE  Covers(f, t)
<1>1. /\ Len(text) \in Nat /\ text[t.start + 1] \in Digit /\ text[t.end] \in Digit
      /\ \A n \in t.start + 1 .. t.end : text[n] \in Digit \cup {Blank, Dash}
      /\ f.start < t.end /\ t.start < f.end
  BY DEF IsNumber, IsAt, Overlap
<1>2. ASSUME t.start < f.start PROVE FALSE
  <2>1. t.start + 1 \in DOMAIN text /\ t.start + 1 \notin f.start + 1 .. f.end
    BY <1>1, <1>2
  <2>2. PICK m \in (t.start + 1 .. f.start) \cup (f.end + 1 .. t.start + 1) :
            text[m] \notin Digit \cup {Blank, Dash}
    BY <1>1, <2>1 DEF Alone
  <2>3. m \in t.start + 1 .. t.end
    BY <1>1, <1>2, <2>2
  <2> QED
    BY <1>1, <2>2, <2>3
<1>3. ASSUME f.end < t.end PROVE FALSE
  <2>1. t.end \in DOMAIN text /\ t.end \notin f.start + 1 .. f.end
    BY <1>1, <1>3
  <2>2. PICK m \in (t.end .. f.start) \cup (f.end + 1 .. t.end) :
            text[m] \notin Digit \cup {Blank, Dash}
    BY <1>1, <2>1 DEF Alone
  <2>3. m \in t.start + 1 .. t.end
    BY <1>1, <1>3, <2>2
  <2> QED
    BY <1>1, <2>2, <2>3
<1> QED
  BY <1>2, <1>3 DEF Covers

-----------------------------------------------------------------------------
(* The invariant of the masking. *)
Typed ==
    /\ text \in Seq(Char) /\ p \in 1 .. 3 /\ rpos \in 0 .. Len(text)
    /\ \A s \in spans : s \in Tags /\ s.start < s.end
    /\ masked \subseteq spans
    /\ redacted \in Seq(0 .. Len(text))

(* The spans are matches, those of one pattern apart, *)
Matched ==
    /\ \A s \in spans : MatchOf(s.category, s)
    /\ \A s, t \in spans : s.category = t.category /\ Overlap(s, t) => s = t
    /\ p = 1 => \A s \in spans : s.category = "card_number"
    /\ p # 3 => \A s \in spans : s.category = Patterns[p] => s.end <= rpos

(* and once searched, no match of "phone" is without one that covers it, nor *)
(* any of "card_number" that stands alone.                                   *)
PhonesCovered ==
    \A t \in Spans : MatchOf("phone", t) =>
        \/ p = 1
        \/ p = 2 /\ rpos <= t.start
        \/ \E u \in spans : u.category = "phone" /\ Covers(u, t)

AloneFound ==
    \A t \in Spans : MatchOf("card_number", t) /\ Alone(t) =>
        \/ p = 1 /\ rpos <= t.start
        \/ Tagged("card_number", t) \in spans

(* The text up to the last mask set is the original one, and after it only   *)
(* later characters and masks follow.                                        *)
Kept(L) ==
    /\ L \in 0 .. Len(text) /\ L <= Len(redacted)
    /\ \A k \in 1 .. L : redacted[k] = k
    /\ \A k \in L + 1 .. Len(redacted) : redacted[k] = 0 \/ redacted[k] > L
    /\ \/ masked = {} /\ L = Len(text)
       \/ \E t \in masked : t.start = L

(* A span is clean if nothing that is masked before it begins in it; once it *)
(* is masked, no character of it is left.                                    *)
Clean(t) == \A u \in spans : u # t /\ LastStartFirst(u, t) => t.end <= u.start

Gone ==
    \A t \in masked : Clean(t) =>
        \A k \in 1 .. Len(redacted) : redacted[k] \notin t.start + 1 .. t.end

InOrder ==
    /\ p # 3 => masked = {}
    /\ \A u \in masked, t \in spans \ masked : LastStartFirst(u, t)
    /\ \E L : Kept(L)

MInv == Typed /\ Matched /\ PhonesCovered /\ AloneFound /\ InOrder /\ Gone

LEMMA TagFacts ==
    ASSUME text \in Seq(Char), NEW s \in Tags
    PROVE  /\ s.start \in Nat /\ s.end \in Nat /\ s.start <= Len(text) /\ s.end <= Len(text)
           /\ s.start \in 0 .. Len(text) /\ s.end \in 0 .. Len(text) /\ Len(text) \in Nat
           /\ s.category \in {"card_number", "phone"}
           /\ s = [category |-> s.category, start |-> s.start, end |-> s.end]
  BY DEF Tags

(* Nothing but redact's variables matters while the text stays. *)
LEMMA TextStays ==
    ASSUME text' = text
    PROVE  /\ Spans' = Spans /\ Tags' = Tags
           /\ \A c, s : MatchOf(c, s)' <=> MatchOf(c, s)
           /\ \A s : Alone(s)' <=> Alone(s)
<1>1. \A s : DigitsOf(s)' = DigitsOf(s)
  BY DEF DigitsOf
<1>2. \A s : IsNumber(s)' <=> IsNumber(s)
  BY DEF IsNumber, WordEdge, IsAt
<1> QED
  BY <1>1, <1>2 DEF Spans, Tags, MatchOf, Alone

LEMMA MaskingInitially == MaskingInit => MInv
<1> SUFFICES ASSUME MaskingInit PROVE MInv
  OBVIOUS
<1>1. text \in Seq(Char) /\ Len(text) \in Nat
  BY Initially DEF MaskingInit, IInv, Shape
<1>2. p = 1 /\ rpos = 0 /\ spans = {} /\ masked = {} /\ redacted = [n \in 1 .. Len(text) |-> n]
  BY DEF MaskingInit
<1>3. redacted \in Seq(0 .. Len(text)) /\ Len(redacted) = Len(text)
      /\ \A k \in 1 .. Len(text) : redacted[k] = k
  BY <1>1, <1>2
<1>4. Kept(Len(text))
  BY <1>1, <1>2, <1>3 DEF Kept
<1>5. Typed
  BY <1>1, <1>2, <1>3 DEF Typed
<1>6. Matched /\ PhonesCovered /\ Gone
  BY <1>2 DEF Matched, PhonesCovered, Gone
<1>7. AloneFound
  BY <1>1, <1>2 DEF AloneFound, Spans
<1> QED
  BY <1>2, <1>4, <1>5, <1>6, <1>7 DEF MInv, InOrder

LEMMA ScanSteps ==
    ASSUME MInv, text' = text, UNCHANGED maskVars
    PROVE  MInv'
<1>1. /\ Spans' = Spans /\ Tags' = Tags
      /\ \A c, s : MatchOf(c, s)' <=> MatchOf(c, s)
      /\ \A s : Alone(s)' <=> Alone(s)
  BY TextStays
<1>2. /\ p' = p /\ rpos' = rpos /\ spans' = spans /\ masked' = masked /\ redacted' = redacted
  BY DEF maskVars
<1>3. Typed' /\ Matched'
  BY <1>1, <1>2 DEF MInv, Typed, Matched
<1>4. PhonesCovered' /\ AloneFound'
  BY <1>1, <1>2 DEF MInv, PhonesCovered, AloneFound
<1>5. InOrder' /\ Gone'
  BY <1>2 DEF MInv, InOrder, Kept, Gone, Clean
<1> QED
  BY <1>3, <1>4, <1>5 DEF MInv

LEMMA NextPatternStep == MInv /\ NextPattern => MInv'
<1> SUFFICES ASSUME MInv, NextPattern PROVE MInv'
  OBVIOUS
<1>1. /\ text' = text /\ rpos' = 0 /\ spans' = spans /\ masked' = masked /\ redacted' = redacted
      /\ p' = p + 1 /\ ~(p > 2)
      /\ \A s \in Spans : MatchOf(Patterns[p], s) => ~(rpos <= s.start)
  BY PatternFacts DEF NextPattern, Searched, vars
<1>2. /\ Spans' = Spans /\ Tags' = Tags
      /\ \A c, s : MatchOf(c, s)' <=> MatchOf(c, s)
      /\ \A s : Alone(s)' <=> Alone(s)
  BY <1>1, TextStays
<1>3. ((p = 1 /\ p' = 2) \/ (p = 2 /\ p' = 3)) /\ Len(text) \in Nat
  BY <1>1 DEF MInv, Typed
<1>4. Typed'
  BY <1>1, <1>2, <1>3 DEF MInv, Typed
<1>5. Matched'
  BY <1>1, <1>2, <1>3, PatternFacts DEF MInv, Matched
<1>6. PhonesCovered'
  <2> SUFFICES ASSUME NEW t \in Spans, MatchOf("phone", t)
               PROVE  \/ p' = 2 /\ 0 <= t.start
                      \/ \E u \in spans : u.category = "phone" /\ Covers(u, t)
    BY <1>1, <1>2 DEF PhonesCovered, Covers
  <2>1. 0 <= t.start
    BY <1>3 DEF Spans
  <2>2. p = 2 => ~(rpos <= t.start)
    BY <1>1, PatternFacts
  <2> QED
    BY <1>3, <2>1, <2>2 DEF MInv, PhonesCovered
<1>7. AloneFound'
  <2> SUFFICES ASSUME NEW t \in Spans, MatchOf("card_number", t), Alone(t)
               PROVE  Tagged("card_number", t) \in spans
    BY <1>1, <1>2 DEF AloneFound, Tagged
  <2>1. p = 1 => ~(rpos <= t.start)
    BY <1>1, PatternFacts
  <2> QED
    BY <2>1 DEF MInv, AloneFound
<1>8. InOrder' /\ Gone'
  BY <1>1, <1>3 DEF MInv, InOrder, Kept, Gone, Clean
<1> QED
  BY <1>4, <1>5, <1>6, <1>7, <1>8 DEF MInv

LEMMA FindMatchStep == MInv /\ FindMatch => MInv'
<1> SUFFICES ASSUME MInv, FindMatch PROVE MInv'
  OBVIOUS
<1>1. PICK s \in Spans :
          /\ NextMatch(Patterns[p], s)
          /\ spans' = spans \cup {Tagged(Patterns[p], s)}
          /\ rpos' = s.end
  BY DEF FindMatch
<1>2. PICK c : c = Patterns[p]
  OBVIOUS
<1>3. PICK u : u = Tagged(c, s)
  OBVIOUS
<1>4. /\ text' = text /\ p' = p /\ masked' = masked /\ redacted' = redacted
      /\ p # 3 /\ spans' = spans \cup {u} /\ rpos' = s.end /\ masked = {}
  BY <1>1, <1>2, <1>3, PatternFacts DEF FindMatch, Searched, vars, MInv, InOrder
<1>5. /\ text \in Seq(Char) /\ Len(text) \in Nat /\ rpos \in Nat
      /\ s.start \in 0 .. Len(text) /\ s.end \in 0 .. Len(text) /\ s.start < s.end
      /\ \A v \in spans : v \in Tags /\ v.start < v.end
  BY DEF MInv, Typed, Spans
<1>6. (p = 1 /\ c = "card_number") \/ (p = 2 /\ c = "phone")
  BY <1>2, <1>4, PatternFacts DEF MInv, Typed
<1>7. u.category = c /\ u.start = s.start /\ u.end = s.end /\ u \in Tags
  BY <1>3, <1>5, <1>6 DEF Tagged, Tags
<1>8. MatchOf(c, s) /\ MatchOf(c, u) /\ rpos <= s.start
  BY <1>1, <1>2, <1>7 DEF NextMatch, MatchOf, IsNumber, DigitsOf
<1>9. \A t \in Spans : MatchOf(c, t) /\ rpos <= t.start =>
          \/ s.start < t.start
          \/ s.start = t.start /\ t.end <= s.end
  BY <1>1, <1>2 DEF NextMatch
<1>10. /\ Spans' = Spans /\ Tags' = Tags
       /\ \A d, t : MatchOf(d, t)' <=> MatchOf(d, t)
       /\ \A t : Alone(t)' <=> Alone(t)
  BY <1>4, TextStays
<1>11. Typed'
  BY <1>4, <1>5, <1>7, <1>10 DEF MInv, Typed
<1>12. Matched'
  <2>1. \A v \in spans' : MatchOf(v.category, v)
    BY <1>4, <1>7, <1>8 DEF MInv, Matched
  <2>2. \A v \in spans : v.category = c => v.end <= rpos
    BY <1>2, <1>4 DEF MInv, Matched
  <2>3. \A v \in spans : v.category = c => ~Overlap(u, v) /\ ~Overlap(v, u)
    <3> SUFFICES ASSUME NEW v \in spans, v.category = c PROVE ~Overlap(u, v) /\ ~Overlap(v, u)
      OBVIOUS
    <3>1. v.end \in Nat /\ v.end <= rpos
      BY <1>5, <2>2, TagFacts
    <3>2. ~(s.start < v.end)
      BY <1>5, <1>8, <3>1
    <3> QED
      BY <1>7, <3>2 DEF Overlap
  <2>4. \A v, w \in spans' : v.category = w.category /\ Overlap(v, w) => v = w
    BY <1>4, <1>7, <2>3 DEF MInv, Matched
  <2>5. p = 1 => \A v \in spans' : v.category = "card_number"
    BY <1>4, <1>6, <1>7 DEF MInv, Matched
  <2>6. \A v \in spans' : v.category = c => v.end <= s.end
    <3> SUFFICES ASSUME NEW v \in spans, v.category = c PROVE v.end <= s.end
      BY <1>4, <1>5, <1>7
    <3>1. v.end \in Nat /\ v.end <= rpos
      BY <1>5, <2>2, TagFacts
    <3> QED
      BY <1>5, <1>8, <3>1
  <2>7. \A v, w : Overlap(v, w)' <=> Overlap(v, w)
    BY DEF Overlap
  <2> QED
    BY <1>2, <1>4, <1>10, <2>1, <2>4, <2>5, <2>6, <2>7 DEF Matched
<1>13. PhonesCovered'
  <2> SUFFICES ASSUME NEW t \in Spans, MatchOf("phone", t), p = 2
               PROVE  \/ s.end <= t.start
                      \/ \E v \in spans' : v.category = "phone" /\ Covers(v, t)
    BY <1>4, <1>6, <1>10 DEF PhonesCovered, Covers
  <2>1. t.start \in 0 .. Len(text) /\ t.end \in 0 .. Len(text) /\ t.start < t.end
    BY DEF Spans
  <2>2. CASE \E v \in spans : v.category = "phone" /\ Covers(v, t)
    BY <1>4, <2>2
  <2>3. CASE rpos <= t.start
    <3>1. s.start <= t.start
      BY <1>5, <1>6, <1>9, <2>1, <2>3
    <3>2. CASE t.start < s.end /\ s.end < t.end
      <4>1. PICK w : w = [start |-> s.start, end |-> t.end]
        OBVIOUS
      <4>2. w.start = s.start /\ w.end = t.end /\ w \in Spans
        BY <1>5, <2>1, <3>1, <4>1 DEF Spans
      <4>3. IsNumber(s) /\ IsNumber(t) /\ s.end - s.start >= PhoneMiddle + 2
        BY <1>6, <1>8 DEF MatchOf
      <4>4. \A n \in w.start + 1 .. w.end : text[n] \in Digit \cup {Blank, Dash}
        <5> SUFFICES ASSUME NEW n \in w.start + 1 .. w.end
                     PROVE  text[n] \in Digit \cup {Blank, Dash}
          OBVIOUS
        <5>1. n \in s.start + 1 .. s.end \/ n \in t.start + 1 .. t.end
          BY <1>5, <2>1, <3>2, <4>2
        <5> QED
          BY <4>3, <5>1 DEF IsNumber
      <4>5. IsNumber(w)
        BY <4>2, <4>3, <4>4 DEF IsNumber
      <4>6. w.end - w.start >= PhoneMiddle + 2
        BY <1>5, <2>1, <3>2, <4>2, <4>3, MaskAssumption
      <4>7. MatchOf(c, w)
        BY <1>6, <4>5, <4>6 DEF MatchOf
      <4>8. w.end <= s.end
        BY <1>5, <1>8, <1>9, <4>2, <4>7
      <4> QED
        BY <1>5, <2>1, <3>2, <4>2, <4>8
    <3>3. CASE t.start < s.end /\ ~(s.end < t.end)
      <4>1. Covers(u, t)
        BY <1>5, <1>7, <2>1, <3>1, <3>3 DEF Covers
      <4> QED
        BY <1>4, <1>6, <1>7, <4>1
    <3> QED
      BY <1>5, <2>1, <3>2, <3>3
  <2> QED
    BY <2>2, <2>3 DEF MInv, PhonesCovered
<1>14. AloneFound'
  <2> SUFFICES ASSUME NEW t \in Spans, MatchOf("card_number", t), Alone(t)
               PROVE  \/ p = 1 /\ s.end <= t.start
                      \/ Tagged("card_number", t) \in spans'
    BY <1>4, <1>10 DEF AloneFound, Tagged
  <2>1. t.start \in 0 .. Len(text) /\ t.end \in 0 .. Len(text) /\ t.start < t.end
    BY DEF Spans
  <2>2. CASE Tagged("card_number", t) \in spans
    BY <1>4, <2>2
  <2>3. CASE p = 1 /\ rpos <= t.start /\ t.start < s.end
    <3>1. s.start < t.start \/ (s.start = t.start /\ t.end <= s.end)
      BY <1>6, <1>9, <2>3
    <3>2. Overlap(t, s)
      BY <1>5, <2>1, <2>3, <3>1 DEF Overlap
    <3>3. Covers(t, s)
      BY <1>5, <1>8, <2>1, <3>2, AloneCovers DEF MatchOf
    <3>4. s.start = t.start /\ s.end = t.end
      BY <1>5, <2>1, <3>1, <3>3 DEF Covers
    <3>5. Tagged("card_number", t) = u
      BY <1>3, <1>6, <2>3, <3>4 DEF Tagged
    <3> QED
      BY <1>4, <3>5
  <2> QED
    BY <1>5, <2>1, <2>2, <2>3 DEF MInv, AloneFound
<1>15. InOrder' /\ Gone'
  BY <1>4 DEF MInv, InOrder, Kept, Gone
<1> QED
  BY <1>11, <1>12, <1>13, <1>14, <1>15 DEF MInv

LEMMA RestIs ==
    ASSUME NEW S, NEW r \in Seq(S), NEW e \in Nat
    PROVE  /\ From(r, e) \in Seq(S)
           /\ \A k \in 1 .. Len(From(r, e)) : e + k \in 1 .. Len(r) /\ From(r, e)[k] = r[e + k]
<1>1. From(r, e) = SubSeq(r, e + 1, Len(r)) /\ Len(r) \in Nat
  BY DEF From
<1>2. CASE e < Len(r)
  <2>1. \A n \in e + 1 .. Len(r) : r[n] \in S
    OBVIOUS
  <2>2. PICK t : t = SubSeq(r, e + 1, Len(r))
    OBVIOUS
  <2>3. /\ t \in Seq(S) /\ Len(t) = Len(r) - e
        /\ \A k \in 1 .. Len(r) - (e + 1) + 1 : t[k] = r[e + 1 + k - 1]
    <3>1. t \in Seq(S) /\ Len(t) = Len(r) - e
      BY <1>1, <1>2, <2>1, <2>2, SubSeqProperties
    <3>2. ASSUME NEW k \in 1 .. Len(r) - (e + 1) + 1 PROVE t[k] = r[e + 1 + k - 1]
      BY <1>1, <1>2, <2>2, SMT
    <3> QED
      BY <3>1, <3>2
  <2>4. ASSUME NEW k \in 1 .. Len(t) PROVE e + k \in 1 .. Len(r) /\ t[k] = r[e + k]
    <3>1. PICK n \in Nat : n = Len(r)
      BY <1>1
    <3>2. k \in 1 .. n - e
      BY <2>3, <3>1
    <3>3. k \in 1 .. n - (e + 1) + 1 /\ e + 1 + k - 1 = e + k /\ e + k \in 1 .. n
      BY <3>2
    <3> QED
      BY <2>3, <3>1, <3>3
  <2> QED
    BY <1>1, <2>2, <2>3, <2>4
<1>3. CASE ~(e < Len(r))
  <2>1. Len(r) < e + 1
    BY <1>1, <1>3
  <2>2. From(r, e) = << >>
    BY <1>1, <2>1, SubSeqEmpty
  <2> QED
    BY <2>2
<1> QED
  BY <1>2, <1>3

(* One span masked: the text before it, zeros, and what came after it. *)
MaskedBy(done, r, s, N) ==
    /\ done \in Seq(0 .. N) /\ s.start <= Len(done)
    /\ \A k \in 1 .. s.start : done[k] = r[k]
    /\ \A k \in s.start + 1 .. Len(done) :
          \/ done[k] = 0
          \/ \E j \in 1 .. Len(r) : j > s.end /\ done[k] = r[j]

LEMMA MaskOneIs ==
    ASSUME NEW N \in Nat, NEW r \in Seq(0 .. N), NEW s,
           s.start \in Nat, s.end \in Nat, s.start < s.end, s.start <= Len(r),
           s.category \in {"card_number", "phone"}, NEW done, done = MaskOne(r, s)
    PROVE  MaskedBy(done, r, s, N)
<1>1. PICK A : A = Before(r, s.start)
  OBVIOUS
<1>2. PICK B : B = Mask(s.category)
  OBVIOUS
<1>3. PICK C : C = From(r, s.end)
  OBVIOUS
<1>4. A \in Seq(0 .. N) /\ Len(A) = s.start /\ \A k \in 1 .. s.start : A[k] = r[k]
  <2>1. A = SubSeq(r, 1, s.start)
    BY <1>1 DEF Before
  <2> QED
    BY <2>1, SubSeqProperties
<1>5. B \in Seq(0 .. N) /\ \A k \in 1 .. Len(B) : B[k] = 0
  <2>1. MaskLen[s.category] \in Nat
    BY PatternFacts
  <2> QED
    BY <1>2, <2>1 DEF Mask
<1>6. C \in Seq(0 .. N) /\ \A k \in 1 .. Len(C) : s.end + k \in 1 .. Len(r) /\ C[k] = r[s.end + k]
  <2>1. PICK S : S = 0 .. N
    OBVIOUS
  <2>2. PICK e \in Nat : e = s.end
    OBVIOUS
  <2>3. r \in Seq(S)
    BY <2>1
  <2>4. /\ From(r, e) \in Seq(S)
        /\ \A k \in 1 .. Len(From(r, e)) : e + k \in 1 .. Len(r) /\ From(r, e)[k] = r[e + k]
    BY <2>3, RestIs
  <2> QED
    BY <1>3, <2>1, <2>2, <2>4
<1>7. PICK D : D = done
  OBVIOUS
<1>8. D = (A \o B) \o C
  BY <1>1, <1>2, <1>3, <1>7 DEF MaskOne
<1>9. /\ D \in Seq(0 .. N) /\ Len(D) = Len(A) + Len(B) + Len(C)
      /\ Len(A) \in Nat /\ Len(B) \in Nat /\ Len(C) \in Nat
  BY <1>4, <1>5, <1>6, <1>8
<1>10. /\ \A k \in 1 .. Len(A) : D[k] = A[k]
       /\ \A k \in Len(A) + 1 .. Len(A) + Len(B) : D[k] = B[k - Len(A)]
       /\ \A k \in Len(A) + Len(B) + 1 .. Len(D) : D[k] = C[k - (Len(A) + Len(B))]
  <2>1. PICK E : E = A \o B
    OBVIOUS
  <2>2. /\ E \in Seq(0 .. N) /\ Len(E) = Len(A) + Len(B)
        /\ \A k \in 1 .. Len(A) + Len(B) : E[k] = IF k <= Len(A) THEN A[k] ELSE B[k - Len(A)]
    <3>1. PICK S : S = 0 .. N
      OBVIOUS
    <3>2. A \in Seq(S) /\ B \in Seq(S)
      BY <1>4, <1>5, <3>1
    <3>3. /\ A \o B \in Seq(S) /\ Len(A \o B) = Len(A) + Len(B)
          /\ \A k \in 1 .. Len(A) + Len(B) :
                (A \o B)[k] = IF k <= Len(A) THEN A[k] ELSE B[k - Len(A)]
      BY <3>2, ConcatProperties
    <3> QED
      BY <2>1, <3>1, <3>3
  <2>3. D = E \o C
    BY <1>8, <2>1
  <2>4. E \in Seq(0 .. N) /\ C \in Seq(0 .. N)
    BY <1>6, <2>2
  <2>5. \A k \in 1 .. Len(E) + Len(C) : D[k] = IF k <= Len(E) THEN E[k] ELSE C[k - Len(E)]
    BY <2>3, <2>4, ConcatProperties
  <2>6. PICK a \in Nat, b \in Nat, c \in Nat : a = Len(A) /\ b = Len(B) /\ c = Len(C)
    BY <1>9
  <2>7. Len(E) = a + b /\ Len(D) = a + b + c
    BY <1>9, <2>2, <2>6
  <2>8. \A k \in 1 .. a : D[k] = A[k]
    <3> SUFFICES ASSUME NEW k \in 1 .. a PROVE D[k] = A[k]
      OBVIOUS
    <3>1. k \in 1 .. a + b /\ k \in 1 .. (a + b) + c /\ k <= a /\ k <= a + b
      OBVIOUS
    <3> QED
      BY <2>2, <2>5, <2>6, <2>7, <3>1
  <2>9. \A k \in a + 1 .. a + b : D[k] = B[k - a]
    <3> SUFFICES ASSUME NEW k \in a + 1 .. a + b PROVE D[k] = B[k - a]
      OBVIOUS
    <3>1. k \in 1 .. a + b /\ k \in 1 .. (a + b) + c /\ ~(k <= a) /\ k <= a + b
      OBVIOUS
    <3> QED
      BY <2>2, <2>5, <2>6, <2>7, <3>1
  <2>10. \A k \in a + b + 1 .. a + b + c : D[k] = C[k - (a + b)]
    <3> SUFFICES ASSUME NEW k \in a + b + 1 .. a + b + c PROVE D[k] = C[k - (a + b)]
      OBVIOUS
    <3>1. k \in 1 .. (a + b) + c /\ ~(k <= a + b)
      OBVIOUS
    <3> QED
      BY <2>5, <2>6, <2>7, <3>1
  <2> QED
    BY <2>6, <2>7, <2>8, <2>9, <2>10
<1>11. \A k \in 1 .. s.start : D[k] = r[k]
  BY <1>4, <1>10
<1>12. ASSUME NEW k \in s.start + 1 .. Len(D)
       PROVE  D[k] = 0 \/ \E j \in 1 .. Len(r) : j > s.end /\ D[k] = r[j]
  <2>1. CASE k <= Len(A) + Len(B)
    <3>1. k \in Nat /\ s.start < k /\ Len(A) = s.start
      BY <1>4, <1>9
    <3>2. PICK a \in Nat, b \in Nat : a = Len(A) /\ b = Len(B)
      BY <1>9
    <3>3. k \in a + 1 .. a + b /\ k - a \in 1 .. b
      BY <2>1, <3>1, <3>2
    <3> QED
      BY <1>5, <1>10, <3>2, <3>3
  <2>2. CASE ~(k <= Len(A) + Len(B))
    <3>1. PICK m : m = k - (Len(A) + Len(B))
      OBVIOUS
    <3>2. k \in Len(A) + Len(B) + 1 .. Len(D) /\ m \in 1 .. Len(C)
      BY <1>9, <2>2, <3>1
    <3>3. D[k] = r[s.end + m] /\ s.end + m \in 1 .. Len(r)
      BY <1>6, <1>10, <3>1, <3>2
    <3>4. s.end + m > s.end
      <4>1. m \in Nat /\ 1 <= m
        BY <1>9, <3>2
      <4> QED
        BY <4>1
    <3> QED
      BY <3>3, <3>4
  <2> QED
    BY <2>1, <2>2
<1>13. s.start <= Len(D)
  BY <1>4, <1>9
<1> QED
  BY <1>7, <1>9, <1>11, <1>12, <1>13 DEF MaskedBy

LEMMA MaskSpanStep == MInv /\ MaskSpan => MInv'
<1> SUFFICES ASSUME MInv, MaskSpan PROVE MInv'
  OBVIOUS
<1>1. PICK s \in spans \ masked :
          /\ \A t \in (spans \ masked) \ {s} : LastStartFirst(s, t)
          /\ redacted' = MaskOne(redacted, s)
          /\ masked' = masked \cup {s}
  BY DEF MaskSpan
<1>2. /\ text' = text /\ p' = p /\ rpos' = rpos /\ spans' = spans /\ p = 3
  BY PatternFacts DEF MaskSpan, Searched, vars, MInv, Typed
<1>3. /\ text \in Seq(Char) /\ Len(text) \in Nat /\ redacted \in Seq(0 .. Len(text))
      /\ Len(redacted) \in Nat /\ masked \subseteq spans
      /\ \A v \in spans : /\ v.start \in 0 .. Len(text) /\ v.end \in 0 .. Len(text) /\ v.start < v.end
                          /\ v.category \in {"card_number", "phone"}
  BY TagFacts DEF MInv, Typed
<1>4. PICK L : Kept(L)
  BY DEF MInv, InOrder
<1>5. \A u \in masked : LastStartFirst(u, s)
  BY <1>1 DEF MInv, InOrder
<1>6. L \in Nat /\ L <= Len(redacted) /\ s.start <= L
  <2>1. CASE masked = {} /\ L = Len(text)
    BY <1>1, <1>3, <1>4, <2>1 DEF Kept
  <2>2. CASE \E t \in masked : t.start = L
    BY <1>1, <1>3, <1>4, <1>5, <2>2 DEF Kept, LastStartFirst
  <2> QED
    BY <1>4, <2>1, <2>2 DEF Kept
<1>7. PICK done : done = MaskOne(redacted, s)
  OBVIOUS
<1>8. /\ done \in Seq(0 .. Len(text)) /\ s.start <= Len(done) /\ Len(done) \in Nat
      /\ \A k \in 1 .. s.start : done[k] = redacted[k]
      /\ \A k \in s.start + 1 .. Len(done) :
            \/ done[k] = 0
            \/ \E j \in 1 .. Len(redacted) : j > s.end /\ done[k] = redacted[j]
  <2>1. s.start \in Nat /\ s.end \in Nat /\ s.start < s.end /\ s.start <= Len(redacted)
    BY <1>1, <1>3, <1>6
  <2>2. s.category \in {"card_number", "phone"}
    BY <1>1, <1>3
  <2>3. PICK N \in Nat : N = Len(text)
    BY <1>3
  <2>4. redacted \in Seq(0 .. N)
    BY <1>3, <2>3
  <2>5. MaskedBy(done, redacted, s, N)
    BY <1>7, <2>1, <2>2, <2>4, MaskOneIs
  <2> QED
    BY <2>3, <2>5 DEF MaskedBy
<1>9. redacted' = done /\ masked' = masked \cup {s}
  BY <1>1, <1>7
(* A character before the last mask set is the original one. *)
<1>10. \A j \in 1 .. Len(redacted) : redacted[j] = 0 \/ redacted[j] = j \/ redacted[j] > L
  BY <1>4, <1>6 DEF Kept
<1>11. \A j \in 1 .. Len(redacted) : redacted[j] \in 0 .. Len(text) /\ redacted[j] \in Nat
  BY <1>3
<1>12. \A k \in 1 .. s.start : done[k] = k
  <2> SUFFICES ASSUME NEW k \in 1 .. s.start PROVE done[k] = k
    OBVIOUS
  <2>1. k \in 1 .. L
    BY <1>1, <1>3, <1>6
  <2> QED
    BY <1>4, <1>8, <2>1 DEF Kept
<1>13. Kept(s.start)'
  <2>1. \A k \in 1 .. s.start : done[k] = k
    BY <1>12
  <2>2. \A k \in s.start + 1 .. Len(done) : done[k] = 0 \/ done[k] > s.start
    <3> SUFFICES ASSUME NEW k \in s.start + 1 .. Len(done), done[k] # 0 PROVE done[k] > s.start
      OBVIOUS
    <3>1. PICK j \in 1 .. Len(redacted) : j > s.end /\ done[k] = redacted[j]
      BY <1>8
    <3>2. PICK x \in Nat : x = redacted[j] /\ (x = 0 \/ x = j \/ x > L)
      BY <1>10, <1>11, <3>1
    <3>3. s.start \in Nat /\ s.end \in Nat /\ s.start < s.end
      BY <1>1, <1>3
    <3> QED
      BY <1>6, <3>1, <3>2, <3>3
  <2> QED
    BY <1>1, <1>2, <1>3, <1>8, <1>9, <2>1, <2>2 DEF Kept
<1>14. InOrder'
  <2>1. \A u \in masked', t \in spans' \ masked' : LastStartFirst(u, t)
    BY <1>1, <1>2 DEF MInv, InOrder
  <2>2. \E M : Kept(M)'
    BY <1>13
  <2> QED
    BY <1>2, <2>1, <2>2 DEF InOrder, LastStartFirst
<1>15. Gone'
  <2> SUFFICES ASSUME NEW t \in masked \cup {s}, Clean(t), NEW k \in 1 .. Len(done)
               PROVE  done[k] \notin t.start + 1 .. t.end
    BY <1>2, <1>9 DEF Gone, Clean, LastStartFirst
  <2>1. t.start \in Nat /\ t.end \in Nat /\ t.start < t.end /\ t.end <= Len(text)
    BY <1>1, <1>3
  <2>2. CASE done[k] = 0
    BY <2>1, <2>2
  <2>3. CASE t = s
    <3>1. s.end <= L
      <4>1. CASE masked = {} /\ L = Len(text)
        BY <2>1, <2>3, <4>1
      <4>2. CASE \E u \in masked : u.start = L
        <5>1. PICK u \in masked : u.start = L
          BY <4>2
        <5>2. u \in spans /\ u # s /\ LastStartFirst(u, s)
          BY <1>1, <1>3, <1>5
        <5> QED
          BY <2>3, <5>1, <5>2 DEF Clean
      <4> QED
        BY <1>4, <4>1, <4>2 DEF Kept
    <3>2. CASE k <= s.start
      <4>1. done[k] = k
        BY <1>1, <1>3, <1>12, <3>2
      <4> QED
        BY <1>1, <1>3, <2>3, <3>2, <4>1
    <3>3. CASE ~(k <= s.start) /\ done[k] # 0
      <4>0. k \in s.start + 1 .. Len(done)
        BY <1>1, <1>3, <1>8, <3>3
      <4>1. PICK j \in 1 .. Len(redacted) : j > s.end /\ done[k] = redacted[j]
        BY <1>8, <3>3, <4>0
      <4>2. redacted[j] = j \/ redacted[j] > L
        BY <1>10, <3>3, <4>1
      <4> QED
        BY <1>6, <1>11, <2>1, <2>3, <3>1, <4>1, <4>2
    <3> QED
      BY <2>2, <3>2, <3>3
  <2>4. CASE t \in masked /\ done[k] # 0
    <3>1. \A j \in 1 .. Len(redacted) : redacted[j] \notin t.start + 1 .. t.end
      BY <2>4 DEF MInv, Gone
    <3>2. \E j \in 1 .. Len(redacted) : done[k] = redacted[j]
      <4>1. CASE k <= s.start
        BY <1>1, <1>3, <1>6, <1>8, <4>1
      <4>2. CASE ~(k <= s.start)
        <5>1. k \in s.start + 1 .. Len(done)
          BY <1>1, <1>3, <1>8, <4>2
        <5> QED
          BY <1>8, <2>4, <5>1
      <4> QED
        BY <4>1, <4>2
    <3> QED
      BY <3>1, <3>2
  <2> QED
    BY <2>2, <2>3, <2>4
<1>16. /\ Spans' = Spans /\ Tags' = Tags
       /\ \A c, t : MatchOf(c, t)' <=> MatchOf(c, t)
       /\ \A t : Alone(t)' <=> Alone(t)
  BY <1>2, TextStays
<1>17. Typed'
  BY <1>1, <1>2, <1>8, <1>9, <1>16 DEF MInv, Typed
<1>18. Matched' /\ PhonesCovered' /\ AloneFound'
  BY <1>2, <1>16 DEF MInv, Matched, PhonesCovered, AloneFound, Overlap, Covers, Tagged
<1> QED
  BY <1>14, <1>15, <1>17, <1>18 DEF MInv

LEMMA MaskingPreserved == MInv /\ [MaskingNext]_<<vars, maskVars>> => MInv'
<1> SUFFICES ASSUME MInv, [MaskingNext]_<<vars, maskVars>> PROVE MInv'
  OBVIOUS
<1>1. CASE ScanStep
  <2>1. text' = text /\ UNCHANGED maskVars
    BY <1>1 DEF ScanStep, Next, FindNext, NoneLeft, AddDigit, Checked, Returned, vars
  <2> QED
    BY <2>1, ScanSteps
<1>2. CASE UNCHANGED <<vars, maskVars>>
  <2>1. text' = text /\ UNCHANGED maskVars
    BY <1>2 DEF vars
  <2> QED
    BY <2>1, ScanSteps
<1> QED
  BY <1>1, <1>2, FindMatchStep, NextPatternStep, MaskSpanStep DEF MaskingNext

(* To the scan, redact's steps are stuttering steps: what holds of the scan  *)
(* holds of the scan with the masking after it.                              *)
LEMMA MaskingScans == MaskingSpec => Spec
<1>1. MaskingInit => Init
  BY DEF MaskingInit
<1>2. [MaskingNext]_<<vars, maskVars>> => [Next]_vars
  BY DEF MaskingNext, ScanStep, FindMatch, NextPattern, MaskSpan
<1> QED
  BY <1>1, <1>2, PTL DEF MaskingSpec, Spec

LEMMA MaskingInductive == MaskingSpec => []MInv
  BY MaskingInitially, MaskingPreserved, PTL DEF MaskingSpec

(* What redact's two searches find lies in the text, and two matches of one  *)
(* pattern do not overlap; the text being masked has no characters but its   *)
(* own and those of masks.                                                   *)
THEOREM MaskingTypeCorrect == MaskingSpec => []MaskingTypeOK
<1>1. MInv => MaskingTypeOK
  BY PatternFacts DEF MInv, Typed, Matched, MaskingTypeOK
<1> QED
  BY <1>1, MaskingInductive, PTL

(* A match of "card_number" is masked before any span it shares a character  *)
(* with: of the other pattern's matches only one that covers it overlaps it. *)
LEMMA CardNumberIsClean ==
    ASSUME MInv, p = 3, NEW c \in spans, c.category = "card_number"
    PROVE  Clean(c)
<1> SUFFICES ASSUME NEW u \in spans, u # c, LastStartFirst(u, c), ~(c.end <= u.start)
             PROVE  FALSE
  BY DEF Clean
<1>1. /\ text \in Seq(Char) /\ Len(text) \in Nat
      /\ \A v \in spans : /\ v.start \in 0 .. Len(text) /\ v.end \in 0 .. Len(text) /\ v.start < v.end
                          /\ v.category \in {"card_number", "phone"}
  BY TagFacts DEF MInv, Typed
<1>2. Overlap(u, c) /\ c.start <= u.start
  BY <1>1 DEF LastStartFirst, Overlap
<1>3. u.category = "phone" /\ c.start < u.start
  <2>1. u.category # "card_number"
    BY <1>2 DEF MInv, Matched
  <2> QED
    BY <1>1, <2>1 DEF LastStartFirst
<1>4. PICK t : t = [start |-> c.start, end |-> c.end]
  OBVIOUS
<1>5. t \in Spans /\ t.start = c.start /\ t.end = c.end
  BY <1>1, <1>4 DEF Spans
<1>6. MatchOf("phone", t)
  <2>1. MatchOf("phone", c)
    <3>1. MatchOf("card_number", c)
      BY DEF MInv, Matched
    <3>2. c.start \in Nat /\ c.end \in c.start .. Len(text)
      BY <1>1
    <3> QED
      BY <1>1, <3>1, <3>2, CardNumberIsPhone
  <2> QED
    BY <1>5, <2>1 DEF MatchOf, IsNumber
<1>7. PICK v \in spans : v.category = "phone" /\ Covers(v, t)
  BY <1>5, <1>6 DEF MInv, PhonesCovered
<1>8. Overlap(u, v)
  BY <1>1, <1>2, <1>5, <1>7 DEF Overlap, Covers
<1>9. u = v
  BY <1>3, <1>7, <1>8 DEF MInv, Matched
<1> QED
  BY <1>1, <1>3, <1>5, <1>7, <1>9 DEF Covers

(* Nothing of a clean span is left, nor of what it covers. *)
LEMMA CleanIsGone ==
    ASSUME MInv, masked = spans, NEW f \in Spans, NEW c \in spans, Clean(c), Covers(c, f)
    PROVE  ~Left(f)
<1>1. /\ c.start \in Nat /\ c.end \in Nat /\ f.start \in Nat /\ f.end \in Nat
      /\ redacted \in Seq(0 .. Len(text)) /\ DOMAIN redacted = 1 .. Len(redacted)
  BY TagFacts DEF MInv, Typed, Spans
<1>2. \A k \in 1 .. Len(redacted) : redacted[k] \notin c.start + 1 .. c.end
  BY DEF MInv, Gone
<1>3. f.start + 1 .. f.end \subseteq c.start + 1 .. c.end
  BY <1>1 DEF Covers
<1> QED
  BY <1>1, <1>2, <1>3 DEF Left

(* "redact & resume" masks what paused a text for a card: no character is    *)
(* left of a card within one match of "card_number", nor of one that stands  *)
(* alone with no newline and either at most 16 digits or nothing between     *)
(* them, whatever the lengths of the masks and of the text.                  *)
THEOREM EveryHeldCardMasked == MaskingSpec => []CardsMasked
<1>1. IInv /\ MInv => CardsMasked
  <2> SUFFICES ASSUME IInv, MInv, Searched, masked = spans, NEW n \in DOMAIN findings, NEW f,
                      f = findings[n],
                      \/ \E c \in spans : c.category = "card_number" /\ Covers(c, f)
                      \/ /\ Alone(f) /\ FitsMask(f)
                         /\ \A m \in f.start + 1 .. f.end : text[m] # Newline
               PROVE  ~Left(f)
    BY DEF CardsMasked
  <2>1. p = 3
    BY PatternFacts DEF Searched, MInv, Typed
  <2>2. f \in Spans /\ IsCandidate(f) /\ text \in Seq(Char)
    BY DEF IInv, Shape, Cards, IsCard
  <2>3. /\ f.start \in Nat /\ f.end \in Nat /\ f.start < f.end /\ f.end <= Len(text)
        /\ Len(text) \in Nat
    BY <2>2 DEF Spans
  <2>4. \A v \in spans : /\ v.start \in Nat /\ v.end \in Nat /\ v.start < v.end /\ v.end <= Len(text)
                         /\ v.category \in {"card_number", "phone"} /\ IsNumber(v)
    BY <2>2, TagFacts DEF MInv, Typed, Matched, MatchOf
  <2>5. CASE \E c \in spans : c.category = "card_number" /\ Covers(c, f)
    BY <2>1, <2>2, <2>5, CardNumberIsClean, CleanIsGone
  <2>6. CASE /\ Alone(f) /\ FitsMask(f)
             /\ \A m \in f.start + 1 .. f.end : text[m] # Newline
             /\ ~\E c \in spans : c.category = "card_number" /\ Covers(c, f)
    <3>1. /\ MatchOf("phone", f)
          /\ Len(DigitsOf(f)) <= MaxMask => MatchOf("card_number", f)
      BY <2>2, <2>6, CandidateIsNumber
    <3>2. PICK u \in spans : u.category = "phone" /\ Covers(u, f)
      BY <2>1, <2>2, <3>1 DEF MInv, PhonesCovered
    <3>3. \A v \in spans : Overlap(f, v) => Covers(f, v)
      BY <2>2, <2>3, <2>4, <2>6, AloneCovers
    <3>4. u.start = f.start /\ u.end = f.end
      <4>1. Overlap(f, u)
        BY <2>3, <2>4, <3>2 DEF Overlap, Covers
      <4>2. Covers(f, u)
        BY <3>3, <4>1
      <4> QED
        BY <2>3, <2>4, <3>2, <4>2 DEF Covers
    <3>5. ~(Len(DigitsOf(f)) <= MaxMask)
      <4> SUFFICES ASSUME Len(DigitsOf(f)) <= MaxMask PROVE FALSE
        OBVIOUS
      <4>1. PICK c \in spans : c = Tagged("card_number", f)
        BY <2>1, <2>2, <2>6, <3>1 DEF MInv, AloneFound
      <4>2. c.category = "card_number" /\ Covers(c, f)
        BY <2>3, <4>1 DEF Tagged, Covers
      <4> QED
        BY <2>6, <4>2
    <3>6. \A m \in f.start + 1 .. f.end : text[m] \in Digit
      BY <2>6, <3>5 DEF FitsMask
    <3>7. \A m \in f.start + 1 .. f.end - 1 : ~WordEdge(m)
      <4> SUFFICES ASSUME NEW m \in f.start + 1 .. f.end - 1 PROVE ~WordEdge(m)
        OBVIOUS
      <4>1. m \in f.start + 1 .. f.end /\ m + 1 \in f.start + 1 .. f.end
        BY <2>3
      <4>2. m \in DOMAIN text /\ m + 1 \in DOMAIN text
        BY <2>2, <2>3
      <4> QED
        BY <3>6, <4>1, <4>2 DEF WordEdge, IsAt
    <3>8. ASSUME NEW v \in spans, v # u, LastStartFirst(v, u), ~(u.end <= v.start) PROVE FALSE
      <4>1. f.start <= v.start /\ v.start < f.end
        BY <2>3, <2>4, <3>4, <3>8 DEF LastStartFirst
      <4>2. Overlap(f, v) /\ Overlap(u, v)
        BY <2>3, <2>4, <3>4, <4>1 DEF Overlap
      <4>3. Covers(f, v)
        BY <3>3, <4>2
      <4>4. v.category = "card_number"
        BY <2>4, <3>2, <3>8, <4>2 DEF MInv, Matched
      <4>5. WordEdge(v.start) /\ WordEdge(v.end)
        BY <2>4 DEF IsNumber
      <4>6. v.start = f.start
        BY <2>3, <2>4, <3>7, <4>1, <4>5
      <4>7. v.end = f.end
        <5>1. v.end <= f.end /\ f.start < v.end
          BY <2>4, <4>3, <4>6 DEF Covers
        <5> QED
          BY <2>3, <2>4, <3>7, <4>5, <5>1
      <4>8. Covers(v, f)
        BY <2>3, <4>6, <4>7 DEF Covers
      <4> QED
        BY <2>6, <4>4, <4>8
    <3>9. Clean(u)
      BY <3>8 DEF Clean
    <3> QED
      BY <2>2, <3>2, <3>9, CleanIsGone
  <2> QED
    BY <2>5, <2>6
<1>2. MaskingSpec => []IInv
  BY MaskingScans, Inductive, PTL
<1> QED
  BY <1>1, <1>2, MaskingInductive, PTL

=============================================================================
