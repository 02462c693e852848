---------------------------- MODULE RedactProofs ----------------------------
(***************************************************************************)
(* Masking from the last span to the first: the part of the text that is   *)
(* still to be masked is the original one, and when no two spans overlap   *)
(* the result is the text with every span replaced and nothing else, for   *)
(* texts, patterns and masks of any length.                                *)
(***************************************************************************)
EXTENDS Redact, FoldLemmas, SequenceTheorems

Category == {Patterns[n] : n \in DOMAIN Patterns}

Span == {s \in [category : Category, start : 0 .. Length, end : 0 .. Length] : s.start < s.end}

(* The characters of the text and of the masks. *)
Item == {<<"char", n>> : n \in 1 .. Length} \cup {<<c, n>> : c \in Category, n \in Nat}

Ranking(ranked) ==
    /\ ranked \in Bijection(DOMAIN spans, DOMAIN spans)
    /\ \A m, n \in DOMAIN spans : m < n => LastStartFirst(spans, ranked[m], ranked[n])
    /\ order = [n \in DOMAIN spans |-> spans[ranked[n]]]

(* Types, and order a rearrangement of spans from the last start to the first. *)
Shape ==
    /\ p \in Nat \ {0}
    /\ spans \in Seq(Span)
    /\ order \in Seq(Span)
    /\ k \in 1 .. Len(order) + 1
    /\ ~Sorted => order = <<>> /\ k = 1
    /\ Sorted => \E ranked : Ranking(ranked)

(* Everything up to here is still to be masked. *)
Border == IF k = 1 THEN Length ELSE order[k - 1].start

Pieces == [n \in 1 .. Length |-> Piece(n)]

(* What joining the pieces of s passes through. *)
JoinSteps(P, s) ==
    /\ P \in [0 .. Len(s) -> Seq(Item)]
    /\ P[0] = <<>>
    /\ \A n \in 1 .. Len(s) : P[n] = P[n - 1] \o s[n]

(* Up to the border the text is the original one; the rest, when no two      *)
(* spans overlap, is what reading from left to right gives from there.       *)
Rest(T) ==
    /\ redacted = SubSeq(Original, 1, Border) \o T
    /\ Sorted /\ Disjoint =>
          \A P : JoinSteps(P, Pieces) => P[Length] = P[Border] \o T

TextInv == \E T \in Seq(Item) : Rest(T)

-----------------------------------------------------------------------------
LEMMA OriginalType ==
    /\ Original \in Seq(Item) /\ Len(Original) = Length
    /\ Length \in Nat
<1>1. \A n \in 1 .. Length : <<"char", n>> \in Item
  BY DEF Item
<1> QED
  BY <1>1, LengthAssumption DEF Original

LEMMA MaskType == \A c \in Category : Mask(c) \in Seq(Item)
<1> SUFFICES ASSUME NEW c \in Category PROVE Mask(c) \in Seq(Item)
  OBVIOUS
<1>1. MaskLen[c] \in Nat
  BY PatternAssumption DEF Category
<1>2. \A n \in 1 .. MaskLen[c] : <<c, n>> \in Item
  BY <1>1 DEF Item
<1> QED
  BY <1>1, <1>2 DEF Mask

LEMMA SpanType ==
    ASSUME NEW s \in Span
    PROVE  /\ s.category \in Category /\ s.start \in 0 .. Length /\ s.end \in 0 .. Length
           /\ s.start < s.end
           /\ s.start \in Nat /\ s.end \in Nat /\ s.start + 1 \in 1 .. Length
  BY LengthAssumption DEF Span

LEMMA PieceType ==
    ASSUME spans \in Seq(Span)
    PROVE  Pieces \in Seq(Seq(Item)) /\ Len(Pieces) = Length
<1>1. ASSUME NEW n \in 1 .. Length PROVE Piece(n) \in Seq(Item)
  <2>1. ToSet(spans) \subseteq Span
    BY DEF ToSet
  <2>2. CASE \E s \in ToSet(spans) : s.start + 1 = n
    <3>1. PICK s : s = CHOOSE x \in ToSet(spans) : x.start + 1 = n
      OBVIOUS
    <3>2. s \in Span
      BY <2>1, <2>2, <3>1
    <3>3. Piece(n) = Mask(s.category)
      BY <2>2, <3>1 DEF Piece
    <3> QED
      BY <3>2, <3>3, SpanType, MaskType
  <2>3. CASE ~\E s \in ToSet(spans) : s.start + 1 = n
    <3>1. Original[n] \in Item
      BY OriginalType
    <3>2. <<>> \in Seq(Item) /\ <<Original[n]>> \in Seq(Item)
      BY <3>1
    <3> QED
      BY <2>3, <3>2 DEF Piece
  <2> QED
    BY <2>2, <2>3
<1> QED
  BY <1>1, LengthAssumption DEF Pieces

-----------------------------------------------------------------------------
(* Facts of the library, each as an operator whose instances are short.      *)
Associates(a, b, c) == (a \o b) \o c = a \o (b \o c)

SecondPart(b, d, m, n) == SubSeq(b \o d, m, n) = SubSeq(d, m - Len(b), n - Len(b))

LEMMA ThreeParts ==
    ASSUME NEW S, NEW a \in Seq(S), NEW b \in Seq(S), NEW c \in Seq(S)
    PROVE  Associates(a, b, c)
  BY ConcatAssociative DEF Associates

LEMMA WithinSecond ==
    ASSUME NEW S, NEW b \in Seq(S), NEW d \in Seq(S),
           NEW m \in Len(b) + 1 .. Len(b) + Len(d), NEW n \in Len(b) + 1 .. Len(b) + Len(d)
    PROVE  SecondPart(b, d, m, n)
  BY SubSeqOfConcat2 DEF SecondPart

(* Prefixes and suffixes of a text whose first B characters are those of o. *)
LEMMA BeforePrefix ==
    ASSUME NEW S, NEW o \in Seq(S), NEW t \in Seq(S), NEW B \in 0 .. Len(o), NEW n \in 0 .. B
    PROVE  /\ Before(SubSeq(o, 1, B) \o t, n) = SubSeq(o, 1, n)
           /\ Before(o, n) = SubSeq(o, 1, n)
<1> DEFINE a == SubSeq(o, 1, B)
<1>1. /\ B \in Nat /\ n \in Nat /\ n <= B /\ B <= Len(o) /\ Len(o) \in Nat /\ Len(t) \in Nat
  OBVIOUS
<1>2. a \in Seq(S) /\ Len(a) = B
  BY <1>1
<1>3. SubSeq(a, 1, n) = SubSeq(o, 1, n)
  <2>1. CASE n = 0
    <3>1. SubSeq(a, 1, n) = <<>> /\ SubSeq(o, 1, n) = <<>>
      BY <2>1, SubSeqEmpty
    <3> QED
      BY <3>1
  <2>2. CASE n # 0
    BY <1>1, <2>2, SubSeqOfSubSeq
  <2> QED
    BY <2>1, <2>2
<1> HIDE DEF a
<1>4. a \o t \in Seq(S) /\ Len(a \o t) = B + Len(t)
  BY <1>2, ConcatProperties
<1>5. SubSeq(a \o t, 1, n) = SubSeq(a, 1, n)
  <2>1. CASE n = 0
    <3>1. SubSeq(a \o t, 1, n) = <<>> /\ SubSeq(a, 1, n) = <<>>
      BY <2>1, SubSeqEmpty
    <3> QED
      BY <3>1
  <2>2. CASE n # 0
    BY <1>1, <1>2, <2>2, SubSeqOfConcat1
  <2> QED
    BY <2>1, <2>2
<1>6. Before(a \o t, n) = SubSeq(a \o t, 1, n)
  BY <1>1, <1>4 DEF Before
<1>7. Before(o, n) = SubSeq(o, 1, n)
  BY <1>1 DEF Before
<1> QED
  BY <1>3, <1>5, <1>6, <1>7 DEF a

LEMMA FromPrefix ==
    ASSUME NEW S, NEW o \in Seq(S), NEW t \in Seq(S), NEW B \in 0 .. Len(o), NEW e \in 0 .. B
    PROVE  From(SubSeq(o, 1, B) \o t, e) = SubSeq(o, e + 1, B) \o t
<1> DEFINE a == SubSeq(o, 1, B)
           b == SubSeq(o, 1, e)
           c == SubSeq(o, e + 1, B)
<1>1. /\ B \in Nat /\ e \in Nat /\ e <= B /\ B <= Len(o) /\ Len(o) \in Nat /\ Len(t) \in Nat
  OBVIOUS
<1>2. a \in Seq(S) /\ Len(a) = B /\ b \in Seq(S) /\ Len(b) = e /\ c \in Seq(S) /\ Len(c) = B - e
  BY <1>1
<1>3. a = b \o c
  BY <1>1, ConcatAdjacentSubSeq
<1> HIDE DEF a, b, c
<1>4. a \o t = b \o (c \o t) /\ c \o t \in Seq(S) /\ Len(c \o t) = (B - e) + Len(t)
  <2>1. (b \o c) \o t = b \o (c \o t)
    <3>1. b \in Seq(S) /\ c \in Seq(S) /\ t \in Seq(S)
      BY <1>2
    <3> QED
      BY <3>1, ThreeParts DEF Associates
  <2>2. c \o t \in Seq(S) /\ Len(c \o t) = (B - e) + Len(t)
    BY <1>2, ConcatProperties
  <2> QED
    BY <1>3, <2>1, <2>2
<1>5. Len(a \o t) = B + Len(t)
  BY <1>2, ConcatProperties
<1>6. From(a \o t, e) = c \o t
  <2> DEFINE d == c \o t
             n == B + Len(t)
  <2>1. d \in Seq(S) /\ Len(d) = n - e /\ n \in Nat /\ e <= n
    BY <1>1, <1>4
  <2>2. From(a \o t, e) = SubSeq(b \o d, e + 1, n)
    BY <1>4, <1>5 DEF From
  <2> HIDE DEF d, n
  <2>3. CASE e = n
    <3>1. SubSeq(b \o d, e + 1, n) = <<>>
      BY <1>1, <2>1, <2>3, SubSeqEmpty
    <3>2. d = <<>>
      BY <2>1, <2>3, EmptySeq
    <3> QED
      BY <2>2, <3>1, <3>2 DEF d
  <2>4. CASE e # n
    <3>1. e + 1 \in Len(b) + 1 .. Len(b) + Len(d) /\ n \in Len(b) + 1 .. Len(b) + Len(d)
      BY <1>1, <1>2, <2>1, <2>4
    <3>2. SubSeq(b \o d, e + 1, n) = SubSeq(d, (e + 1) - Len(b), n - Len(b))
      <4>1. PICK from \in Nat : from = e + 1
        BY <2>1
      <4>2. from \in Len(b) + 1 .. Len(b) + Len(d) /\ n \in Len(b) + 1 .. Len(b) + Len(d)
        BY <3>1, <4>1
      <4>3. SecondPart(b, d, from, n)
        BY <1>2, <2>1, <4>2, WithinSecond
      <4> QED
        BY <4>1, <4>3 DEF SecondPart
    <3>3. (e + 1) - Len(b) = 1 /\ n - Len(b) = Len(d)
      BY <1>1, <1>2, <2>1
    <3>4. SubSeq(d, 1, Len(d)) = d
      BY <2>1, SubSeqFull
    <3> QED
      BY <2>2, <3>2, <3>3, <3>4 DEF d
  <2> QED
    BY <2>3, <2>4
<1> QED
  BY <1>6 DEF a, c

-----------------------------------------------------------------------------
(* What Joined computes. *)
LEMMA JoinedSteps ==
    ASSUME NEW s \in Seq(Seq(Item))
    PROVE  \E P : JoinSteps(P, s) /\ Joined(s) = P[Len(s)]
<1> DEFINE A == Seq(Item)
           op == [q \in A \X A |-> q[1] \o q[2]]
           IsFold(iter) ==
               iter = [S \in SUBSET DOMAIN s |->
                          IF S = {} THEN <<>> ELSE iter[S \ {Max(S)}] \o s[Max(S)]]
           fold == CHOOSE iter : IsFold(iter)
<1>1. Len(s) \in Nat /\ DOMAIN s = 1 .. Len(s) /\ \A n \in DOMAIN s : s[n] \in A
  OBVIOUS
<1>2. \A S \in SUBSET DOMAIN s : S # {} => s[Max(S)] \in A
  <2> SUFFICES ASSUME NEW S \in SUBSET DOMAIN s, S # {} PROVE s[Max(S)] \in A
    OBVIOUS
  <2>1. S \subseteq 0 .. Len(s)
    BY <1>1
  <2> HIDE DEF A
  <2> QED
    BY <1>1, <2>1, MaxOf
<1>3. \A q, x \in A : q \o x \in A
  OBVIOUS
<1>4a. <<>> \in A /\ s \in Seq(A)
  OBVIOUS
<1> HIDE DEF A
<1>4. op \in [A \X A -> A] /\ <<>> \in A /\ s \in Seq(A)
  BY <1>3, <1>4a
<1>5. \A q, x \in A : op[q, x] = q \o x
  OBVIOUS
<1> HIDE DEF op
<1>6. PICK iter \in [SUBSET DOMAIN s -> A] : Folds(iter, op, <<>>, s)
  BY <1>4, FoldExists
<1>7. IsFold(iter)
  <2>1. iter = [S \in SUBSET DOMAIN s |-> iter[S]]
    OBVIOUS
  <2>2. \A S \in SUBSET DOMAIN s :
            iter[S] = IF S = {} THEN <<>> ELSE iter[S \ {Max(S)}] \o s[Max(S)]
    BY <1>1, <1>2, <1>5, <1>6 DEF Folds, FoldsTo
  <2> QED
    BY <2>1, <2>2
<1>8. Joined(s) = fold[DOMAIN s]
  BY DEF Joined, FoldLeft, MapThenFoldSet
<1>9. IsFold(fold)
  BY <1>7
<1> HIDE DEF fold
<1>10. FoldsWithin(fold, op, <<>>, s, A)
  <2>1. \A S \in SUBSET DOMAIN s :
            fold[S] = IF S = {} THEN <<>> ELSE fold[S \ {Max(S)}] \o s[Max(S)]
    BY <1>9
  <2>2. fold[{}] = <<>>
    BY <2>1
  <2>3. ASSUME NEW S \in SUBSET DOMAIN s, S # {}, fold[S \ {Max(S)}] \in A
        PROVE  fold[S] = op[fold[S \ {Max(S)}], s[Max(S)]]
    <3>1. fold[S] = fold[S \ {Max(S)}] \o s[Max(S)]
      BY <2>1, <2>3
    <3>2. s[Max(S)] \in A
      BY <1>2, <2>3
    <3> HIDE DEF IsFold
    <3> QED
      BY <1>5, <2>3, <3>1, <3>2
  <2> HIDE DEF IsFold
  <2> QED
    BY <2>2, <2>3 DEF FoldsWithin
<1>11. PICK P : StepsOf(P, fold, op, <<>>, s, A)
  BY <1>4, <1>10, FoldSteps
<1>12. \A n \in 1 .. Len(s) : P[n] = P[n - 1] \o s[n]
  <2> SUFFICES ASSUME NEW n \in 1 .. Len(s) PROVE P[n] = P[n - 1] \o s[n]
    OBVIOUS
  <2>1. n - 1 \in 0 .. Len(s) /\ n \in DOMAIN s
    BY <1>1
  <2>2. P[n - 1] \in A /\ P[n] = op[P[n - 1], s[n]]
    BY <1>11, <2>1 DEF StepsOf
  <2>3. s[n] \in A
    BY <1>1, <2>1
  <2> QED
    BY <1>5, <2>2, <2>3
<1>13. JoinSteps(P, s)
  BY <1>11, <1>12 DEF JoinSteps, StepsOf, A
<1>14. Joined(s) = P[Len(s)]
  BY <1>8, <1>11 DEF StepsOf
<1> QED
  BY <1>13, <1>14

(* Pieces without a character add nothing. *)
Blank(s, a, b) ==
    /\ s \in Seq(Seq(Item)) /\ a \in 0 .. Len(s) /\ b \in a .. Len(s)
    /\ \A n \in a + 1 .. b : s[n] = <<>>

LEMMA EmptyStretch ==
    ASSUME NEW s, NEW P, JoinSteps(P, s), NEW a, NEW b, Blank(s, a, b)
    PROVE  P[b] = P[a]
<1> USE DEF Blank
<1>0. PICK d \in Nat : b = a + d
  <2>1. b - a \in Nat /\ b = a + (b - a)
    OBVIOUS
  <2> QED
    BY <2>1
<1> DEFINE R == {m \in 0 .. d : P[a + m] = P[a]}
<1>1. a \in Nat /\ b \in Nat /\ d \in Nat /\ b = a + d /\ Len(s) \in Nat /\ a + d <= Len(s)
  BY <1>0
<1>2. 0 \in R
  BY <1>1
<1>3. ASSUME NEW m \in 0 .. d - 1, m \in R PROVE m + 1 \in R
  <2>0. m \in Nat /\ m + 1 <= d /\ a + m + 1 <= b /\ a + m + 1 <= Len(s)
    BY <1>1
  <2>1a. m \in Nat /\ m + 1 \in 0 .. d /\ (a + (m + 1)) - 1 = a + m
    BY <1>1, <2>0
  <2>1b. a + (m + 1) \in a + 1 .. b /\ a + (m + 1) \in 1 .. Len(s) /\ a + m \in 0 .. Len(s)
    <3> HIDE DEF R
    <3>1. PICK L \in Nat : L = Len(s)
      BY <1>1
    <3> QED
      BY <1>1, <2>0, <3>1
  <2>1. /\ m \in Nat /\ m + 1 \in 0 .. d /\ a + (m + 1) \in a + 1 .. b
        /\ a + (m + 1) \in 1 .. Len(s) /\ (a + (m + 1)) - 1 = a + m /\ a + m \in 0 .. Len(s)
    BY <2>1a, <2>1b
  <2>2. P[a + (m + 1)] = P[a + m] \o <<>> /\ P[a + m] \in Seq(Item)
    BY <2>1 DEF JoinSteps
  <2>3. P[a + m] \o <<>> = P[a + m]
    BY <2>2, ConcatEmptySeq
  <2> QED
    BY <1>3, <2>1, <2>2, <2>3
<1>4. 0 .. d \subseteq R
  <2> HIDE DEF R
  <2> QED
    BY <1>1, <1>2, <1>3, InductTo
<1>5. d \in R
  <2> HIDE DEF R
  <2> QED
    BY <1>1, <1>4
<1> QED
  BY <1>1, <1>5

(* Pieces of one character of a text add that part of the text. *)
Plain(s, t, a, b) ==
    /\ s \in Seq(Seq(Item)) /\ a \in 0 .. Len(s) /\ b \in a .. Len(s)
    /\ t \in Seq(Item) /\ Len(t) = Len(s)
    /\ \A n \in a + 1 .. b : s[n] = <<t[n]>>

(* P goes on with the part of t from a + 1 to b. *)
Extends(P, t, a, b) == P[b] = P[a] \o SubSeq(t, a + 1, b)

LEMMA PlainStretch ==
    ASSUME NEW s, NEW P, JoinSteps(P, s), NEW t, NEW a, NEW b, Plain(s, t, a, b)
    PROVE  Extends(P, t, a, b)
<1> USE DEF Plain, Extends
<1>0. PICK d \in Nat : b = a + d
  <2>1. b - a \in Nat /\ b = a + (b - a)
    OBVIOUS
  <2> QED
    BY <2>1
<1> DEFINE R == {m \in 0 .. d : P[a + m] = P[a] \o SubSeq(t, a + 1, a + m)}
<1>1. a \in Nat /\ b \in Nat /\ d \in Nat /\ b = a + d /\ Len(s) \in Nat /\ a + d <= Len(s)
  BY <1>0
<1>2. P[a] \in Seq(Item)
  BY DEF JoinSteps
<1>3. 0 \in R
  <2>1. SubSeq(t, a + 1, a + 0) = <<>>
    BY <1>1, SubSeqEmpty
  <2>2. P[a] \o <<>> = P[a] /\ a + 0 = a /\ 0 \in 0 .. d
    BY <1>1, <1>2, ConcatEmptySeq
  <2> QED
    BY <2>1, <2>2
<1>4. ASSUME NEW m \in 0 .. d - 1, m \in R PROVE m + 1 \in R
  <2>0. m \in Nat /\ m + 1 <= d /\ a + m + 1 <= b /\ a + m + 1 <= Len(s)
    BY <1>1
  <2>1. /\ m \in Nat /\ m + 1 \in 0 .. d /\ a + (m + 1) \in a + 1 .. b
        /\ a + (m + 1) \in 1 .. Len(s) /\ (a + (m + 1)) - 1 = a + m /\ a + m \in 0 .. Len(s)
        /\ a + 1 \in 1 .. Len(t) /\ a + (m + 1) \in a + 1 .. Len(t)
    BY <1>1, <2>0
  <2>2. PICK n : n = a + (m + 1)
    OBVIOUS
  <2>3. P[n] = P[n - 1] \o <<t[n]>> /\ P[n - 1] = P[a] \o SubSeq(t, a + 1, n - 1)
    BY <1>4, <2>1, <2>2 DEF JoinSteps
  <2>4. SubSeq(t, a + 1, n) = SubSeq(t, a + 1, n - 1) \o <<t[n]>>
    BY <2>1, <2>2, SubSeqRecursiveSecond
  <2>5. SubSeq(t, a + 1, n - 1) \in Seq(Item) /\ <<t[n]>> \in Seq(Item)
    <3>1. \A x \in a + 1 .. n - 1 : t[x] \in Item
      BY <1>1, <2>1, <2>2
    <3>2. a + 1 \in Int /\ n - 1 \in Int /\ t[n] \in Item
      BY <1>1, <2>1, <2>2
    <3> QED
      BY <3>1, <3>2, SubSeqProperties
  <2>6. (P[a] \o SubSeq(t, a + 1, n - 1)) \o <<t[n]>> = P[a] \o (SubSeq(t, a + 1, n - 1) \o <<t[n]>>)
    <3>1. PICK sub \in Seq(Item) : sub = SubSeq(t, a + 1, n - 1)
      BY <2>5
    <3>2. PICK char \in Seq(Item) : char = <<t[n]>>
      BY <2>5
    <3>3. PICK base \in Seq(Item) : base = P[a]
      BY <1>2
    <3>4. Associates(base, sub, char)
      BY ThreeParts
    <3> QED
      BY <3>1, <3>2, <3>3, <3>4 DEF Associates
  <2>7. P[n] = P[a] \o SubSeq(t, a + 1, n)
    BY <2>3, <2>4, <2>6
  <2> QED
    BY <2>1, <2>2, <2>7
<1>5. 0 .. d \subseteq R
  <2> HIDE DEF R
  <2> QED
    BY <1>1, <1>3, <1>4, InductTo
<1>6. d \in R
  <2> HIDE DEF R
  <2> QED
    BY <1>1, <1>5
<1> QED
  BY <1>1, <1>6

-----------------------------------------------------------------------------
LEMMA EmptyRanking == spans = <<>> /\ order = <<>> => \E ranked : Ranking(ranked)
<1> SUFFICES ASSUME spans = <<>>, order = <<>> PROVE \E ranked : Ranking(ranked)
  OBVIOUS
<1>1. DOMAIN spans = {}
  OBVIOUS
<1> DEFINE none == [n \in {} |-> n]
<1>2. none \in Bijection({}, {})
  BY DEF Bijection, Injection, IsInjective, Surjection
<1>3. order = [n \in DOMAIN spans |-> spans[none[n]]]
  <2>1. DOMAIN order = {} /\ order = [n \in DOMAIN order |-> order[n]]
    OBVIOUS
  <2> QED
    BY <1>1, <2>1
<1> HIDE DEF none
<1>4. Ranking(none)
  BY <1>1, <1>2, <1>3 DEF Ranking
<1> QED
  BY <1>4

LEMMA ShapeInitially == Init => Shape
<1> SUFFICES ASSUME Init PROVE Shape
  OBVIOUS
<1>1. p = 1 /\ spans = <<>> /\ order = <<>> /\ k = 1
  BY DEF Init
<1>2. <<>> \in Seq(Span) /\ 1 \in 1 .. Len(<<>>) + 1
  OBVIOUS
<1>3. \E ranked : Ranking(ranked)
  BY <1>1, EmptyRanking
<1> QED
  BY <1>1, <1>2, <1>3 DEF Shape

LEMMA MatchesType ==
    ASSUME NEW c \in Category, NEW m \in Matches(c)
    PROVE  m \in Seq(Span)
<1> DEFINE Found == [category : {c}, start : 0 .. Length, end : 0 .. Length]
<1>1. m \in Seq(Found) /\ \A n \in DOMAIN m : m[n].start < m[n].end
  <2>1. m \in BoundedSeq(Found, MaxMatches)
    BY DEF Matches
  <2> HIDE DEF Found
  <2>2. m \in Seq(Found)
    BY <2>1, MatchAssumption, BoundedIsSeq
  <2> QED
    BY <2>2 DEF Matches
<1>2. \A n \in 1 .. Len(m) : m[n] \in Span
  <2> SUFFICES ASSUME NEW n \in 1 .. Len(m) PROVE m[n] \in Span
    OBVIOUS
  <2>1. m[n] \in Found /\ n \in DOMAIN m
    <3> HIDE DEF Found
    <3> QED
      BY <1>1
  <2> QED
    BY <1>1, <2>1 DEF Span
<1> QED
  BY <1>1, <1>2

LEMMA ShapePreserved == Shape /\ [Next]_vars => Shape'
<1> SUFFICES ASSUME Shape, [Next]_vars PROVE Shape'
  OBVIOUS
<1>1. CASE FindMatches
  <2>1. p <= Len(Patterns) /\ p' = p + 1 /\ order' = order /\ k' = k
    BY <1>1, PatternAssumption DEF FindMatches, Searched, Shape
  <2>2. PICK m \in Matches(Patterns[p]) : spans' = spans \o m
    BY <1>1 DEF FindMatches
  <2>3. order = <<>> /\ k = 1
    BY <1>1 DEF FindMatches, Sorted, Shape
  <2>4. Patterns[p] \in Category
    BY <2>1, PatternAssumption DEF Category, Shape
  <2>5. spans' \in Seq(Span) /\ Len(spans') \in Nat
    BY <2>2, <2>4, MatchesType DEF Shape
  <2>6. Sorted' => spans' = <<>>
    BY <2>1, <2>3, <2>5 DEF Sorted
  <2>7. (spans = <<>> /\ order = <<>> => \E ranked : Ranking(ranked))'
    BY EmptyRanking, PTL
  <2> QED
    BY <2>1, <2>3, <2>5, <2>6, <2>7 DEF Shape
<1>2. CASE SortSpans
  <2>1. PICK ranked \in Bijection(DOMAIN spans, DOMAIN spans) :
            /\ \A m, n \in DOMAIN spans : m < n => LastStartFirst(spans, ranked[m], ranked[n])
            /\ order' = [n \in DOMAIN spans |-> spans[ranked[n]]]
    BY <1>2 DEF SortSpans
  <2>2. p' = p /\ spans' = spans /\ k' = k /\ k = 1 /\ Searched
    BY <1>2 DEF SortSpans, Shape
  <2>3. Ranking(ranked)'
    BY <2>1, <2>2 DEF Ranking, LastStartFirst
  <2>4. DOMAIN spans = 1 .. Len(spans) /\ Len(spans) \in Nat
    BY DEF Shape
  <2>5. \A n \in 1 .. Len(spans) : spans[ranked[n]] \in Span
    BY <2>1, <2>4 DEF Bijection, Injection, Shape
  <2>6. order' \in Seq(Span) /\ Len(order') = Len(spans)
    BY <2>1, <2>4, <2>5
  <2>7. Sorted'
    BY <2>2, <2>6 DEF Sorted, Searched
  <2> QED
    BY <2>2, <2>3, <2>6, <2>7 DEF Shape
<1>3. CASE MaskSpan
  <2>1. Len(order) \in Nat /\ k' = k + 1 /\ k <= Len(order) /\ order' = order /\ spans' = spans /\ p' = p
    BY <1>3 DEF MaskSpan, Shape
  <2>2. Sorted
    BY <1>3 DEF MaskSpan
  <2> QED
    BY <2>1, <2>2 DEF Shape, Sorted, Searched, Ranking, LastStartFirst
<1>4. CASE Returned \/ UNCHANGED vars
  <2>1. p' = p /\ spans' = spans /\ order' = order /\ k' = k
    BY <1>4 DEF Returned, vars
  <2>2. (Sorted' <=> Sorted) /\ \A ranked : Ranking(ranked) => Ranking(ranked)'
    BY <2>1 DEF Sorted, Searched, Ranking, LastStartFirst
  <2> QED
    BY <2>1, <2>2 DEF Shape
<1> QED
  BY <1>1, <1>2, <1>3, <1>4 DEF Next

-----------------------------------------------------------------------------
(* What a sorted order says. *)
LEMMA OrderFacts ==
    ASSUME Shape, Sorted
    PROVE  /\ DOMAIN order = 1 .. Len(order) /\ Len(order) \in Nat
           /\ \A n \in DOMAIN order : order[n] \in Span
           /\ \A s : s \in ToSet(spans) <=> \E n \in DOMAIN order : s = order[n]
           /\ \A m, n \in DOMAIN order : m < n => order[n].start <= order[m].start
           /\ Disjoint => \A m, n \in DOMAIN order : m < n => order[n].end <= order[m].start
<1>1. PICK ranked : Ranking(ranked)
  BY DEF Shape
<1>2. /\ DOMAIN order = 1 .. Len(order) /\ Len(order) \in Nat
      /\ \A n \in DOMAIN order : order[n] \in Span
      /\ DOMAIN spans = 1 .. Len(spans) /\ Len(spans) \in Nat
      /\ \A n \in DOMAIN spans : spans[n] \in Span
  BY DEF Shape
<1>3. /\ DOMAIN order = DOMAIN spans
      /\ \A n \in DOMAIN spans : ranked[n] \in DOMAIN spans /\ order[n] = spans[ranked[n]]
      /\ \A m, n \in DOMAIN spans : m # n => ranked[m] # ranked[n]
      /\ \A m \in DOMAIN spans : \E n \in DOMAIN spans : ranked[n] = m
      /\ \A m, n \in DOMAIN spans : m < n => LastStartFirst(spans, ranked[m], ranked[n])
  <2>1. /\ ranked \in [DOMAIN spans -> DOMAIN spans]
        /\ IsInjective(ranked)
        /\ \A m \in DOMAIN spans : \E n \in DOMAIN spans : ranked[n] = m
    BY <1>1 DEF Ranking, Bijection, Injection, Surjection
  <2>2. \A m, n \in DOMAIN spans : m # n => ranked[m] # ranked[n]
    BY <2>1 DEF IsInjective
  <2> QED
    BY <1>1, <2>1, <2>2 DEF Ranking
<1>4. \A s : s \in ToSet(spans) <=> \E n \in DOMAIN order : s = order[n]
  <2> SUFFICES ASSUME NEW s PROVE s \in ToSet(spans) <=> \E n \in DOMAIN order : s = order[n]
    OBVIOUS
  <2>1. s \in ToSet(spans) <=> \E m \in DOMAIN spans : s = spans[m]
    BY DEF ToSet
  <2>2. ASSUME NEW m \in DOMAIN spans, s = spans[m] PROVE \E n \in DOMAIN order : s = order[n]
    <3>1. PICK n \in DOMAIN spans : ranked[n] = m
      BY <1>3
    <3>2. order[n] = spans[m] /\ n \in DOMAIN order
      BY <1>3, <3>1
    <3> QED
      BY <2>2, <3>2
  <2>3. ASSUME NEW n \in DOMAIN order, s = order[n] PROVE \E m \in DOMAIN spans : s = spans[m]
    BY <1>3, <2>3
  <2> QED
    BY <2>1, <2>2, <2>3
<1>5. \A n \in DOMAIN order : /\ order[n].start \in Nat /\ order[n].end \in Nat
                              /\ order[n].start < order[n].end
  BY <1>2, SpanType
<1>6. ASSUME NEW m \in DOMAIN order, NEW n \in DOMAIN order, m < n
      PROVE  order[n].start <= order[m].start
  <2>0. /\ order[m] = spans[ranked[m]] /\ order[n] = spans[ranked[n]]
        /\ LastStartFirst(spans, ranked[m], ranked[n])
    BY <1>3, <1>6
  <2>1. order[m].start > order[n].start \/ order[m].start = order[n].start
    BY <2>0 DEF LastStartFirst
  <2> QED
    BY <1>5, <2>1
<1>7. ASSUME Disjoint, NEW m \in DOMAIN order, NEW n \in DOMAIN order, m < n
      PROVE  order[n].end <= order[m].start
  <2>1. m # n
    BY <1>2, <1>7
  <2>0. /\ order[m] = spans[ranked[m]] /\ order[n] = spans[ranked[n]]
        /\ ranked[m] \in DOMAIN spans /\ ranked[n] \in DOMAIN spans /\ ranked[m] # ranked[n]
    BY <1>3, <2>1
  <2>2. Apart(order[m], order[n])
    BY <1>7, <2>0 DEF Disjoint
  <2>3. order[m].end <= order[n].start \/ order[n].end <= order[m].start
    BY <2>2 DEF Apart
  <2> QED
    BY <1>5, <1>6, <1>7, <2>3
<1> QED
  BY <1>2, <1>4, <1>6, <1>7

LEMMA BorderType == ASSUME Shape, Sorted PROVE Border \in 0 .. Length
<1>1. k \in 1 .. Len(order) + 1
  BY DEF Shape
<1>2. CASE k = 1
  BY <1>2, LengthAssumption DEF Border
<1>3. CASE k # 1
  <2>1. k - 1 \in DOMAIN order
    BY <1>1, <1>3, OrderFacts
  <2> QED
    BY <1>3, <2>1, OrderFacts, SpanType DEF Border
<1> QED
  BY <1>2, <1>3

(* The next span is before the border. *)
LEMMA NextSpan ==
    ASSUME Shape, Sorted, k <= Len(order)
    PROVE  /\ k \in DOMAIN order /\ order[k] \in Span
           /\ order[k].start \in 0 .. Border
           /\ Disjoint => order[k].end \in 0 .. Border
<1>1. k \in DOMAIN order /\ k \in Nat \ {0}
  BY OrderFacts DEF Shape
<1>2. order[k] \in Span
  BY <1>1, OrderFacts
<1>3. /\ order[k].start \in Nat /\ order[k].end \in Nat
      /\ order[k].start <= Length /\ order[k].end <= Length
  BY <1>2, SpanType, LengthAssumption
<1>4. CASE k = 1
  BY <1>1, <1>2, <1>3, <1>4, LengthAssumption DEF Border
<1>5. CASE k # 1
  <2>1. k - 1 \in DOMAIN order /\ k - 1 < k
    BY <1>1, <1>5, OrderFacts
  <2>2. Border = order[k - 1].start /\ Border \in Nat
    BY <1>5, BorderType, LengthAssumption DEF Border
  <2>3. order[k].start <= Border /\ (Disjoint => order[k].end <= Border)
    BY <1>1, <2>1, <2>2, OrderFacts
  <2> QED
    BY <1>1, <1>2, <1>3, <2>2, <2>3
<1> QED
  BY <1>4, <1>5

(* What is beyond the border. *)
LEMMA MaskedSpans ==
    ASSUME Shape, Sorted, NEW m \in DOMAIN order, m < k
    PROVE  Border <= order[m].start
<1>1. k \in Nat /\ k - 1 \in DOMAIN order /\ m \in Nat /\ m \in DOMAIN order /\ k # 1
  BY OrderFacts DEF Shape
<1>2. Border = order[k - 1].start
  BY <1>1 DEF Border
<1>3. order[k - 1].start \in Nat
  BY <1>1, OrderFacts, SpanType
<1>4. CASE m = k - 1
  BY <1>2, <1>3, <1>4
<1>5. CASE m # k - 1
  <2>1. m < k - 1
    BY <1>1, <1>5
  <2> QED
    BY <1>1, <1>2, <2>1, OrderFacts
<1> QED
  BY <1>4, <1>5

-----------------------------------------------------------------------------
(* Before the first mask there is nothing beyond the border. *)
LEMMA Unmasked ==
    Shape /\ k = 1 /\ redacted = Original => TextInv
<1> SUFFICES ASSUME Shape, k = 1, redacted = Original PROVE TextInv
  OBVIOUS
<1>1. Border = Length
  BY DEF Border
<1>2. <<>> \in Seq(Item)
  OBVIOUS
<1>3. redacted = SubSeq(Original, 1, Border) \o <<>>
  BY <1>1, OriginalType, SubSeqFull, ConcatEmptySeq
<1>4. Pieces \in Seq(Seq(Item)) /\ Len(Pieces) = Length
  BY PieceType DEF Shape
<1>5. ASSUME NEW P, JoinSteps(P, Pieces) PROVE P[Length] = P[Border] \o <<>>
  <2>1. P[Length] \in Seq(Item)
    BY <1>4, <1>5, LengthAssumption DEF JoinSteps
  <2> QED
    BY <1>1, <2>1, ConcatEmptySeq
<1> QED
  BY <1>2, <1>3, <1>5 DEF Rest, TextInv

(* The pieces between the start of the next span and the border. *)
LEMMA NextPieces ==
    ASSUME Shape, Sorted, Disjoint, k <= Len(order)
    PROVE  LET s == order[k] IN
           /\ Piece(s.start + 1) = Mask(s.category)
           /\ \A n \in s.start + 2 .. s.end : Piece(n) = <<>>
           /\ \A n \in s.end + 1 .. Border : Piece(n) = <<Original[n]>>
<1> DEFINE s == order[k]
<1>1. /\ k \in DOMAIN order /\ s \in Span /\ s \in ToSet(spans)
      /\ s.start \in Nat /\ s.end \in Nat /\ s.start < s.end
      /\ Border \in Nat /\ s.end <= Border
  BY NextSpan, BorderType, OrderFacts, SpanType, LengthAssumption
<1> HIDE DEF s
<1>2. ASSUME NEW t \in ToSet(spans)
      PROVE  /\ t.start \in Nat /\ t.end \in Nat /\ t.start < t.end
             /\ t = s \/ t.end <= s.start \/ (s.end <= t.start /\ Border <= t.start)
  <2>1. PICK m \in DOMAIN order : t = order[m]
    BY OrderFacts
  <2>2. t.start \in Nat /\ t.end \in Nat /\ t.start < t.end
    BY <2>1, OrderFacts, SpanType
  <2>3. m \in Nat /\ k \in Nat
    BY <1>1, OrderFacts
  <2>4. CASE m = k
    BY <2>1, <2>2, <2>4 DEF s
  <2>5. CASE k < m
    BY <1>1, <2>1, <2>2, <2>5, OrderFacts DEF s
  <2>6. CASE m < k
    <3>1. s.end <= t.start
      BY <1>1, <2>1, <2>6, OrderFacts DEF s
    <3>2. Border <= t.start
      BY <2>1, <2>6, MaskedSpans
    <3> QED
      BY <2>2, <3>1, <3>2
  <2> QED
    BY <2>3, <2>4, <2>5, <2>6
<1>3. Piece(s.start + 1) = Mask(s.category)
  <2>1. \A t \in ToSet(spans) : t.start + 1 = s.start + 1 => t = s
    BY <1>1, <1>2
  <2>2. PICK c : c = CHOOSE t \in ToSet(spans) : t.start + 1 = s.start + 1
    OBVIOUS
  <2>3. c = s
    BY <1>1, <2>1, <2>2
  <2> QED
    BY <1>1, <2>2, <2>3 DEF Piece
<1>4. ASSUME NEW n \in s.start + 2 .. s.end PROVE Piece(n) = <<>>
  <2>1. n \in Nat /\ s.start + 2 <= n /\ n <= s.end
    BY <1>1
  <2>2. \A t \in ToSet(spans) : t.start + 1 # n
    BY <1>1, <1>2, <2>1
  <2>3. Inside(n, s)
    BY <1>1, <2>1 DEF Inside
  <2> QED
    BY <1>1, <2>2, <2>3 DEF Piece
<1>5. ASSUME NEW n \in s.end + 1 .. Border PROVE Piece(n) = <<Original[n]>>
  <2>1. n \in Nat /\ s.end + 1 <= n /\ n <= Border
    BY <1>1
  <2>2. \A t \in ToSet(spans) : t.start + 1 # n
    BY <1>1, <1>2, <2>1
  <2>3. \A t \in ToSet(spans) : ~Inside(n, t)
    BY <1>1, <1>2, <2>1 DEF Inside
  <2> QED
    BY <2>2, <2>3 DEF Piece
<1> QED
  BY <1>3, <1>4, <1>5 DEF s

(* A mask, nothing for the rest of its span, and the text up to B. *)
Masked(s, t, from, to, B) ==
    /\ s \in Seq(Seq(Item)) /\ t \in Seq(Item) /\ Len(t) = Len(s)
    /\ from \in 0 .. Len(s) - 1 /\ to \in from + 1 .. Len(s) /\ B \in to .. Len(s)
    /\ \A n \in from + 2 .. to : s[n] = <<>>
    /\ \A n \in to + 1 .. B : s[n] = <<t[n]>>

Replaces(s, P, t, from, to, B) == P[B] = (P[from] \o s[from + 1]) \o SubSeq(t, to + 1, B)

LEMMA MaskedStretch ==
    ASSUME NEW s, NEW P, JoinSteps(P, s), NEW t, NEW from, NEW to, NEW B, Masked(s, t, from, to, B)
    PROVE  Replaces(s, P, t, from, to, B)
<1>1. PICK next : next = from + 1
  OBVIOUS
<1>2. /\ from \in Nat /\ next \in 1 .. Len(s) /\ next \in 0 .. Len(s) /\ to \in next .. Len(s)
      /\ to \in 0 .. Len(s) /\ next - 1 = from /\ next + 1 = from + 2
  BY <1>1 DEF Masked
<1>3. P[next] = P[from] \o s[next]
  BY <1>2 DEF JoinSteps
<1>4. P[to] = P[next]
  <2>1. Blank(s, next, to)
    BY <1>2 DEF Blank, Masked
  <2> QED
    BY <2>1, EmptyStretch
<1>5. Extends(P, t, to, B)
  <2>1. Plain(s, t, to, B)
    BY <1>2 DEF Plain, Masked
  <2> QED
    BY <2>1, PlainStretch
<1> QED
  BY <1>1, <1>3, <1>4, <1>5 DEF Extends, Replaces

Regrouped(a, b, c, d) == ((a \o b) \o c) \o d = a \o (b \o (c \o d))

LEMMA FourParts ==
    ASSUME NEW a \in Seq(Item), NEW b \in Seq(Item), NEW c \in Seq(Item), NEW d \in Seq(Item)
    PROVE  Regrouped(a, b, c, d)
<1>1. PICK ab \in Seq(Item) : ab = a \o b
  BY ConcatProperties
<1>2. Associates(ab, c, d)
  BY ThreeParts
<1>3. PICK cd \in Seq(Item) : cd = c \o d
  BY ConcatProperties
<1>4. Associates(a, b, cd)
  BY ThreeParts
<1> QED
  BY <1>1, <1>2, <1>3, <1>4 DEF Regrouped, Associates

LEMMA MaskSpanStep == Shape /\ TextInv /\ MaskSpan => TextInv'
<1> SUFFICES ASSUME Shape, TextInv, MaskSpan PROVE TextInv'
  OBVIOUS
<1>1. Sorted /\ k <= Len(order)
  BY DEF MaskSpan
<1>2. PICK T \in Seq(Item) : Rest(T)
  BY DEF TextInv
<1>3. PICK s : s = order[k]
  OBVIOUS
<1>4. PICK B : B = Border
  OBVIOUS
<1>5. /\ s \in Span /\ s.category \in Category
      /\ s.start \in Nat /\ s.end \in Nat /\ s.start < s.end /\ s.end <= Length
      /\ B \in Nat /\ B \in 0 .. Length /\ s.start \in 0 .. B
      /\ Disjoint => s.end \in 0 .. B
  BY <1>1, <1>3, <1>4, NextSpan, SpanType, BorderType, LengthAssumption
<1>6. /\ Original \in Seq(Item) /\ Len(Original) = Length /\ Length \in Nat
      /\ Mask(s.category) \in Seq(Item)
  BY <1>5, OriginalType, MaskType
<1>7. redacted = SubSeq(Original, 1, B) \o T
  BY <1>2, <1>4 DEF Rest
<1>8. redacted \in Seq(Item)
  <2>1. SubSeq(Original, 1, B) \in Seq(Item)
    BY <1>5, <1>6
  <2> QED
    BY <1>7, <2>1, ConcatProperties
<1>9. PICK tail : tail = From(redacted, s.end)
  OBVIOUS
<1>10. tail \in Seq(Item)
  BY <1>5, <1>8, <1>9 DEF From
<1>11. PICK head : head = SubSeq(Original, 1, s.start)
  OBVIOUS
<1>12. head \in Seq(Item)
  BY <1>5, <1>6, <1>11
<1>13. Before(redacted, s.start) = head
  BY <1>5, <1>6, <1>7, <1>11, BeforePrefix
<1>14. PICK mask \in Seq(Item) : mask = Mask(s.category)
  BY <1>6
<1>15. mask \o tail \in Seq(Item)
  BY <1>10, ConcatProperties
<1>16. redacted' = (head \o mask) \o tail
  BY <1>3, <1>9, <1>13, <1>14 DEF MaskSpan, MaskOne
<1>17. redacted' = head \o (mask \o tail)
  <2>1. Associates(head, mask, tail)
    BY <1>10, <1>12, <1>14, ThreeParts
  <2> QED
    BY <1>16, <2>1 DEF Associates
<1>18. /\ spans' = spans /\ order' = order /\ Border' = s.start
       /\ Pieces' = Pieces /\ Disjoint' = Disjoint
  <2>1. k' = k + 1 /\ k \in Nat \ {0} /\ order' = order /\ spans' = spans
    BY DEF MaskSpan, Shape
  <2>2. k' # 1 /\ k' - 1 = k
    BY <2>1
  <2> QED
    BY <1>3, <2>1, <2>2 DEF Border, Pieces, Piece, Disjoint, Inside, Apart
<1>19. ASSUME Disjoint, NEW P, JoinSteps(P, Pieces)
       PROVE  P[Length] = P[s.start] \o (mask \o tail)
  <2>1. PICK pieces : pieces = Pieces
    OBVIOUS
  <2>2. pieces \in Seq(Seq(Item)) /\ Len(pieces) = Length /\ JoinSteps(P, pieces)
    BY <1>19, <2>1, PieceType DEF Shape
  <2>3. \A n \in 1 .. Length : pieces[n] = Piece(n)
    BY <2>1 DEF Pieces
  <2>0. PICK from, to : from = s.start /\ to = s.end
    OBVIOUS
  <2>4a. from \in Nat /\ to \in Nat /\ from < to /\ to <= B /\ B \in Nat /\ B <= Length
    <3>1. s.end \in 0 .. B
      BY <1>5, <1>19
    <3>2. B \in Nat /\ B <= Length
      BY <1>5, <1>6
    <3> QED
      BY <1>5, <2>0, <3>1, <3>2
  <2>4. /\ from + 1 \in 1 .. Length /\ from + 1 \in 0 .. Length /\ from \in 0 .. Length
        /\ to \in from + 1 .. Length /\ to \in 0 .. Length /\ B \in to .. Length
    BY <1>6, <2>4a
  <2>5. /\ pieces[from + 1] = mask
        /\ \A n \in from + 2 .. to : pieces[n] = <<>>
        /\ \A n \in to + 1 .. B : pieces[n] = <<Original[n]>>
    <3>1. /\ Piece(from + 1) = mask
          /\ \A n \in from + 2 .. to : Piece(n) = <<>>
          /\ \A n \in to + 1 .. B : Piece(n) = <<Original[n]>>
      BY <1>1, <1>3, <1>4, <1>14, <1>19, <2>0, NextPieces
    <3>2. \A n \in from + 2 .. to : n \in 1 .. Length
      BY <1>6, <2>4a
    <3>3. \A n \in to + 1 .. B : n \in 1 .. Length
      BY <1>6, <2>4a
    <3> QED
      BY <2>3, <2>4, <3>1, <3>2, <3>3
  <2>6. PICK base \in Seq(Item) : base = P[from]
    BY <2>2, <2>4 DEF JoinSteps
  <2>9. PICK plain : plain = SubSeq(Original, to + 1, B)
    OBVIOUS
  <2>10. plain \in Seq(Item)
    BY <1>6, <2>4a, <2>9
  <2>11. P[B] = (base \o mask) \o plain
    <3>1. from \in 0 .. Len(pieces) - 1 /\ to \in from + 1 .. Len(pieces) /\ B \in to .. Len(pieces)
      BY <1>6, <2>2, <2>4a
    <3>2. Masked(pieces, Original, from, to, B)
      BY <1>6, <2>2, <2>5, <3>1 DEF Masked
    <3>3. Replaces(pieces, P, Original, from, to, B)
      BY <2>2, <3>2, MaskedStretch
    <3> QED
      BY <2>5, <2>6, <2>9, <3>3 DEF Replaces
  <2>12. tail = plain \o T
    <3>1. B \in 0 .. Len(Original) /\ to \in 0 .. B
      BY <1>6, <2>4a
    <3> QED
      BY <1>6, <1>7, <1>9, <2>0, <2>9, <3>1, FromPrefix
  <2>13. P[Length] = P[B] \o T
    BY <1>1, <1>2, <1>4, <1>19 DEF Rest
  <2>14. ((base \o mask) \o plain) \o T = base \o (mask \o (plain \o T))
    <3>1. Regrouped(base, mask, plain, T)
      BY <2>10, FourParts
    <3> QED
      BY <3>1 DEF Regrouped
  <2> QED
    BY <2>0, <2>6, <2>11, <2>12, <2>13, <2>14
<1>20. Rest(mask \o tail)'
  BY <1>11, <1>17, <1>18, <1>19 DEF Rest, JoinSteps
<1> QED
  BY <1>15, <1>20 DEF TextInv

-----------------------------------------------------------------------------
Untouched == k = 1 => redacted = Original

IInv == Shape /\ Untouched /\ TextInv

LEMMA Initially == Init => IInv
<1> SUFFICES ASSUME Init PROVE IInv
  OBVIOUS
<1>1. Shape
  BY ShapeInitially
<1>2. k = 1 /\ redacted = Original
  BY DEF Init
<1>3. TextInv
  BY <1>1, <1>2, Unmasked
<1> QED
  BY <1>1, <1>2, <1>3 DEF IInv, Untouched

LEMMA Preserved == IInv /\ [Next]_vars => IInv'
<1> SUFFICES ASSUME IInv, [Next]_vars PROVE IInv'
  OBVIOUS
<1>1. Shape /\ Untouched /\ TextInv
  BY DEF IInv
<1>2. Shape'
  BY <1>1, ShapePreserved
<1>3. (Shape /\ k = 1 /\ redacted = Original => TextInv)'
  BY Unmasked, PTL
<1>4. CASE FindMatches \/ SortSpans
  <2>1. k = 1
    BY <1>1, <1>4 DEF FindMatches, SortSpans, Sorted, Shape
  <2>2. k' = 1 /\ redacted' = Original'
    BY <1>1, <1>4, <2>1 DEF FindMatches, SortSpans, Untouched, Original
  <2> QED
    BY <1>2, <1>3, <2>2 DEF IInv, Untouched
<1>5. CASE MaskSpan
  <2>1. k' # 1
    BY <1>1, <1>5 DEF MaskSpan, Shape
  <2>2. TextInv'
    BY <1>1, <1>5, MaskSpanStep
  <2> QED
    BY <1>2, <2>1, <2>2 DEF IInv, Untouched
<1>6. CASE Returned \/ UNCHANGED vars
  <2>1. UNCHANGED vars
    BY <1>6 DEF Returned
  <2>2. Untouched'
    BY <1>1, <2>1 DEF Untouched, Original, vars
  <2>3. PICK T \in Seq(Item) : Rest(T)
    BY <1>1 DEF TextInv
  <2>4. /\ Border' = Border /\ Pieces' = Pieces /\ Sorted' = Sorted /\ Disjoint' = Disjoint
        /\ redacted' = redacted
    BY <2>1 DEF vars, Border, Pieces, Piece, Inside, Sorted, Searched, Disjoint, Apart
  <2>5. Rest(T)'
    BY <2>3, <2>4 DEF Rest, JoinSteps
  <2> QED
    BY <1>2, <2>2, <2>3, <2>5 DEF IInv, TextInv
<1> QED
  BY <1>4, <1>5, <1>6 DEF Next

LEMMA Inductive == Spec => []IInv
  BY Initially, Preserved, PTL DEF Spec

(* governance.redact's "Apply masks back-to-front so offsets stay valid": a  *)
(* mask of any length leaves the text before the next span as it was found,  *)
(* and the span itself too when no two overlap.                              *)
THEOREM OffsetsStayValid == Spec => []OffsetsValid
<1>1. IInv => OffsetsValid
  <2> SUFFICES ASSUME IInv, Sorted, k <= Len(order)
               PROVE  /\ Before(redacted, order[k].start) = Before(Original, order[k].start)
                      /\ Disjoint =>
                            Before(redacted, order[k].end) = Before(Original, order[k].end)
    BY DEF OffsetsValid
  <2>1. PICK T \in Seq(Item) : Rest(T)
    BY DEF IInv, TextInv
  <2>2. PICK B : B = Border
    OBVIOUS
  <2>3. /\ B \in 0 .. Len(Original) /\ Original \in Seq(Item)
        /\ order[k].start \in 0 .. B
        /\ Disjoint => order[k].end \in 0 .. B
    BY <2>2, NextSpan, BorderType, OriginalType DEF IInv
  <2>4. redacted = SubSeq(Original, 1, B) \o T
    BY <2>1, <2>2 DEF Rest
  <2>5. PICK text \in Seq(Item) : text = Original
    BY <2>3
  <2>6. \A n \in 0 .. B : Before(SubSeq(text, 1, B) \o T, n) = Before(text, n)
    BY <2>3, <2>5, BeforePrefix
  <2> QED
    BY <2>3, <2>4, <2>5, <2>6
<1> QED
  BY <1>1, Inductive, PTL

(* What governance.redact returns when no two matches overlap: the text with *)
(* every match replaced by the mask of its category and nothing else changed. *)
THEOREM MatchesReplacedExactly == Spec => []MasksExactly
<1>1. IInv => MasksExactly
  <2> SUFFICES ASSUME IInv, Finished, Disjoint PROVE redacted = MaskedText
    BY DEF MasksExactly
  <2>1. Shape /\ Sorted
    BY DEF IInv, Finished
  <2>2. PICK T \in Seq(Item) : Rest(T)
    BY DEF IInv, TextInv
  <2>3. Pieces \in Seq(Seq(Item)) /\ Len(Pieces) = Length
    BY <2>1, PieceType DEF Shape
  <2>4. PICK P : JoinSteps(P, Pieces) /\ Joined(Pieces) = P[Length]
    BY <2>3, JoinedSteps
  <2>5. MaskedText = P[Length] /\ P[Length] = P[Border] \o T
    BY <2>1, <2>2, <2>4 DEF MaskedText, Pieces, Rest
  <2>6. Border \in 0 .. Length /\ Border \in Nat /\ Length \in Nat
    BY <2>1, BorderType, LengthAssumption
  <2>7. ASSUME NEW n \in 1 .. Border PROVE Pieces[n] = <<Original[n]>>
    <3>1. n \in 1 .. Length /\ n \in Nat /\ n <= Border
      BY <2>6
    <3>2. ASSUME NEW s \in ToSet(spans) PROVE s.start + 1 # n /\ ~Inside(n, s)
      <4>1. PICK m \in DOMAIN order : s = order[m]
        BY <2>1, OrderFacts
      <4>2. m < k
        BY <2>1, OrderFacts DEF Finished, Shape
      <4>3. Border <= s.start
        BY <2>1, <4>1, <4>2, MaskedSpans
      <4>4. s.start \in Nat
        BY <2>1, <4>1, OrderFacts, SpanType
      <4> QED
        BY <2>6, <3>1, <4>3, <4>4 DEF Inside
    <3>3. Piece(n) = <<Original[n]>>
      BY <3>2 DEF Piece
    <3> QED
      BY <3>1, <3>3 DEF Pieces
  <2>8. Extends(P, Original, 0, Border)
    <3>1. Plain(Pieces, Original, 0, Border)
      BY <2>3, <2>6, <2>7, OriginalType DEF Plain
    <3> QED
      BY <2>4, <3>1, PlainStretch
  <2>9. P[Border] = SubSeq(Original, 1, Border)
    <3>1. P[Border] = <<>> \o SubSeq(Original, 1, Border)
      BY <2>4, <2>8 DEF Extends, JoinSteps
    <3>2. PICK prefix \in Seq(Item) : prefix = SubSeq(Original, 1, Border)
      <4>1. PICK B : B = Border
        OBVIOUS
      <4>2. /\ B \in Nat /\ B <= Length /\ Length \in Nat
            /\ Original \in Seq(Item) /\ Len(Original) = Length
        BY <2>6, <4>1, OriginalType
      <4>3. SubSeq(Original, 1, B) \in Seq(Item)
        BY <4>2
      <4> QED
        BY <4>1, <4>3
    <3>3. <<>> \o prefix = prefix
      BY ConcatEmptySeq
    <3> QED
      BY <3>1, <3>2, <3>3
  <2> QED
    BY <2>2, <2>5, <2>9 DEF Rest
<1> QED
  BY <1>1, Inductive, PTL

=============================================================================
