------------------------ MODULE ClassificationProofs ------------------------
(***************************************************************************)
(* The severity of a classification block is the highest one its inputs    *)
(* call for, and its categories are theirs in the order of their first     *)
(* occurrences, for every table of findings, every answer and every bound. *)
(***************************************************************************)
EXTENDS Classification, FoldLemmas

(* The severity of the code at position n of the answer. *)
CodeSeverity(n) == ScodeToCanonical[codes[n]].severity

(* The first loop holds the highest severity of the codes it has passed. *)
CodesSeen ==
    /\ guardSev \in Severity
    /\ \A n \in 1 .. i - 1 : Recognised(codes[n]) => Rank[guardSev] >= Rank[CodeSeverity(n)]
    /\ guardSev # "none" =>
          \E n \in 1 .. i - 1 : Recognised(codes[n]) /\ guardSev = CodeSeverity(n)

(* So does the second loop for the findings. *)
FindingsSeen ==
    /\ scanSev \in Severity
    /\ \A n \in 1 .. j - 1 : Rank[scanSev] >= Rank[findings[n].severity]
    /\ scanSev # "none" => \E n \in 1 .. j - 1 : scanSev = findings[n].severity

(* Where the loops stand at each point of the call. *)
LoopsInOrder ==
    /\ codes \in Seq(Code)
    /\ findings \in Seq(Finding)
    /\ i \in 1 .. Len(codes) + 1
    /\ j \in 1 .. Len(findings) + 1
    /\ pc = "scan" => codes = <<>> /\ findings = <<>>
    /\ pc = "guard" => codes = <<>>
    /\ pc \in {"scan", "guard", "map"} => j = 1
    /\ pc \in {"findings", "done"} => i = Len(codes) + 1

Merged ==
    pc = "done" => j = Len(findings) + 1 /\ overall = MaxSeverity(guardSev, scanSev)

IInv == LoopsInOrder /\ CodesSeen /\ FindingsSeen /\ Merged

-----------------------------------------------------------------------------
LEMMA SeverityNames == Severity = {"none", "low", "medium", "high", "critical"}
  BY DEF Severity, Rank

LEMMA RankType == \A s \in Severity : Rank[s] \in Nat
  BY SeverityNames DEF Rank

(* "none" is the lowest of the scale. *)
LEMMA NoneLowest == "none" \in Severity /\ \A s \in Severity : Rank[s] >= Rank["none"]
  BY SeverityNames DEF Rank

LEMMA TableType ==
  \A c \in DOMAIN ScodeToCanonical : ScodeToCanonical[c].severity \in Severity
  BY SeverityNames DEF ScodeToCanonical

(* MaxSeverity is one of its arguments and at least both. *)
LEMMA MaxIsHighest ==
  ASSUME NEW a \in Severity, NEW b \in Severity
  PROVE  /\ MaxSeverity(a, b) \in {a, b}
         /\ MaxSeverity(a, b) \in Severity
         /\ Rank[MaxSeverity(a, b)] >= Rank[a]
         /\ Rank[MaxSeverity(a, b)] >= Rank[b]
<1>1. Known(a) = a /\ Known(b) = b
  BY DEF Known
<1>2. Rank[a] \in Nat /\ Rank[b] \in Nat
  BY RankType
<1> QED  BY <1>1, <1>2 DEF MaxSeverity

LEMMA FindingSeverity ==
  ASSUME NEW s \in Seq(Finding), NEW n \in 1 .. Len(s)
  PROVE  s[n].severity \in Severity
<1>1. s[n] \in Finding
  OBVIOUS
<1> QED  BY <1>1, FindingAssumption

LEMMA ParsedType == \A a \in ParsedAnswers : a.codes \in Seq(Code)
<1>1. BoundedSeq(Code, MaxCodes) \subseteq Seq(Code)
  BY BoundedIsSeq, BoundAssumption
<1>2. <<>> \in Seq(Code)
  OBVIOUS
<1> SUFFICES ASSUME NEW a \in ParsedAnswers PROVE a.codes \in Seq(Code)
  OBVIOUS
<1>3. a.codes \in BoundedSeq(Code, MaxCodes) \cup {<<>>}
  BY DEF ParsedAnswers
<1> QED  BY <1>1, <1>2, <1>3

-----------------------------------------------------------------------------
LEMMA Initially == Init => IInv
  BY NoneLowest DEF Init, IInv, LoopsInOrder, CodesSeen, FindingsSeen, Merged

LEMMA MapScodeStep == IInv /\ MapScode => IInv'
<1> SUFFICES ASSUME IInv, MapScode PROVE IInv'
  OBVIOUS
<1>1. LoopsInOrder'
  BY DEF IInv, LoopsInOrder, MapScode
<1>2. CodesSeen'
  <2>1. i \in Nat \ {0} /\ i <= Len(codes) /\ i' = i + 1 /\ codes' = codes
    BY DEF IInv, LoopsInOrder, MapScode
  <2>2. \A n \in 1 .. i - 1 : Recognised(codes[n]) => CodeSeverity(n) \in Severity
    BY TableType DEF Recognised, CodeSeverity
  <2>3. CASE Recognised(codes[i])
    <3>1. guardSev' = MaxSeverity(guardSev, CodeSeverity(i))
      BY <2>3 DEF MapScode, CodeSeverity
    <3>2. guardSev \in Severity /\ CodeSeverity(i) \in Severity
      BY <2>3, TableType DEF IInv, CodesSeen, CodeSeverity, Recognised
    <3>3. /\ guardSev' \in {guardSev, CodeSeverity(i)}
          /\ guardSev' \in Severity
          /\ Rank[guardSev'] >= Rank[guardSev]
          /\ Rank[guardSev'] >= Rank[CodeSeverity(i)]
      BY <3>1, <3>2, MaxIsHighest
    <3>4. \A n \in 1 .. i : Recognised(codes[n]) => Rank[guardSev'] >= Rank[CodeSeverity(n)]
      <4> TAKE n \in 1 .. i
      <4> HAVE Recognised(codes[n])
      <4>1. CASE n = i
        BY <3>3, <4>1
      <4>2. CASE n # i
        <5>1. n \in 1 .. i - 1
          BY <2>1, <4>2
        <5>2. Rank[guardSev] >= Rank[CodeSeverity(n)] /\ CodeSeverity(n) \in Severity
          BY <2>2, <5>1 DEF IInv, CodesSeen
        <5>3. Rank[guardSev] \in Nat /\ Rank[guardSev'] \in Nat /\ Rank[CodeSeverity(n)] \in Nat
          BY <3>2, <3>3, <5>2, RankType
        <5> QED  BY <3>3, <5>2, <5>3
      <4> QED  BY <4>1, <4>2
    <3>5. guardSev' # "none" =>
             \E n \in 1 .. i : Recognised(codes[n]) /\ guardSev' = CodeSeverity(n)
      BY <2>1, <2>3, <3>3 DEF IInv, CodesSeen
    <3> QED  BY <2>1, <3>3, <3>4, <3>5 DEF CodesSeen, CodeSeverity
  <2>4. CASE ~Recognised(codes[i])
    <3>1. guardSev' = guardSev
      BY <2>4 DEF MapScode
    <3> QED  BY <2>1, <2>4, <3>1 DEF IInv, CodesSeen, CodeSeverity
  <2> QED  BY <2>3, <2>4
<1>3. FindingsSeen'
  BY DEF IInv, FindingsSeen, MapScode
<1>4. Merged'
  BY DEF Merged, MapScode
<1> QED  BY <1>1, <1>2, <1>3, <1>4 DEF IInv

LEMMA MaxFindingStep == IInv /\ MaxFinding => IInv'
<1> SUFFICES ASSUME IInv, MaxFinding PROVE IInv'
  OBVIOUS
<1>1. LoopsInOrder'
  BY DEF IInv, LoopsInOrder, MaxFinding
<1>2. CodesSeen'
  BY DEF IInv, CodesSeen, CodeSeverity, MaxFinding
<1>3. FindingsSeen'
  <2>1. /\ j \in Nat \ {0} /\ j \in 1 .. Len(findings) /\ j' = j + 1
        /\ findings' = findings /\ findings \in Seq(Finding)
        /\ scanSev' = MaxSeverity(scanSev, findings[j].severity)
    BY DEF IInv, LoopsInOrder, MaxFinding
  <2>2. scanSev \in Severity /\ findings[j].severity \in Severity
    BY <2>1, FindingSeverity DEF IInv, FindingsSeen
  <2>3. /\ scanSev' \in {scanSev, findings[j].severity}
        /\ scanSev' \in Severity
        /\ Rank[scanSev'] >= Rank[scanSev]
        /\ Rank[scanSev'] >= Rank[findings[j].severity]
    BY <2>1, <2>2, MaxIsHighest
  <2>4. \A n \in 1 .. j : Rank[scanSev'] >= Rank[findings[n].severity]
    <3> TAKE n \in 1 .. j
    <3>1. CASE n = j
      BY <2>3, <3>1
    <3>2. CASE n # j
      <4>1. n \in 1 .. j - 1 /\ n \in 1 .. Len(findings)
        BY <2>1, <3>2
      <4>2. Rank[scanSev] >= Rank[findings[n].severity] /\ findings[n].severity \in Severity
        BY <2>1, <4>1, FindingSeverity DEF IInv, FindingsSeen
      <4>3. /\ Rank[scanSev] \in Nat /\ Rank[scanSev'] \in Nat
            /\ Rank[findings[n].severity] \in Nat
        BY <2>2, <2>3, <4>2, RankType
      <4> QED  BY <2>3, <4>2, <4>3
    <3> QED  BY <3>1, <3>2
  <2>5. scanSev' # "none" => \E n \in 1 .. j : scanSev' = findings[n].severity
    BY <2>1, <2>3 DEF IInv, FindingsSeen
  <2> QED  BY <2>1, <2>3, <2>4, <2>5 DEF FindingsSeen
<1>4. Merged'
  BY DEF Merged, MaxFinding
<1> QED  BY <1>1, <1>2, <1>3, <1>4 DEF IInv

LEMMA Preserved == IInv /\ [Next]_vars => IInv'
<1> SUFFICES ASSUME IInv, [Next]_vars PROVE IInv'
  OBVIOUS
<1> USE DEF IInv, LoopsInOrder, CodesSeen, FindingsSeen, Merged, CodeSeverity
<1>1. CASE ScanText
  <2>1. findings' \in Seq(Finding)
    BY <1>1, BoundedIsSeq, BoundAssumption DEF ScanText
  <2> QED  BY <1>1, <2>1 DEF ScanText
<1>2. CASE GuardAnswers
  <2>1. codes' \in Seq(Code)
    BY <1>2, ParsedType DEF GuardAnswers
  <2>2. i = 1 /\ guardSev = "none"
    BY <1>2 DEF GuardAnswers
  <2> QED  BY <1>2, <2>1, <2>2 DEF GuardAnswers
<1>3. CASE GuardUnavailable
  BY <1>3 DEF GuardUnavailable
<1>4. CASE GuardRaises
  BY <1>4 DEF GuardRaises
<1>5. CASE MapScode
  BY <1>5, MapScodeStep
<1>6. CASE ScodesMapped
  BY <1>6 DEF ScodesMapped
<1>7. CASE MaxFinding
  BY <1>7, MaxFindingStep
<1>8. CASE Merge
  BY <1>8 DEF Merge
<1>9. CASE Returned \/ UNCHANGED vars
  BY <1>9 DEF Returned, vars
<1> QED  BY <1>1, <1>2, <1>3, <1>4, <1>5, <1>6, <1>7, <1>8, <1>9 DEF Next

LEMMA Conclusion == IInv => OverallIsHighest
<1> SUFFICES ASSUME IInv, pc = "done" PROVE
      LET all == GuardSeverities \cup ScanSeverities IN
        /\ \A s \in all : Rank[overall] >= Rank[s]
        /\ overall \in all \cup {"none"}
  BY DEF OverallIsHighest
<1>1. /\ codes \in Seq(Code) /\ i - 1 = Len(codes)
      /\ findings \in Seq(Finding) /\ j - 1 = Len(findings)
      /\ overall = MaxSeverity(guardSev, scanSev)
  BY DEF IInv, LoopsInOrder, Merged
<1>2. /\ guardSev \in Severity /\ scanSev \in Severity
      /\ overall \in {guardSev, scanSev} /\ overall \in Severity
      /\ Rank[overall] >= Rank[guardSev] /\ Rank[overall] >= Rank[scanSev]
  BY <1>1, MaxIsHighest DEF IInv, CodesSeen, FindingsSeen
<1>3. /\ Rank[overall] \in Nat /\ Rank[guardSev] \in Nat /\ Rank[scanSev] \in Nat
  BY <1>2, RankType
<1>4. ToSet(codes) = {codes[n] : n \in 1 .. Len(codes)}
  BY <1>1 DEF ToSet
<1>5. ToSet(findings) = {findings[n] : n \in 1 .. Len(findings)}
  BY <1>1 DEF ToSet
<1>6. \A s \in GuardSeverities : Rank[overall] >= Rank[s]
  <2> TAKE s \in GuardSeverities
  <2>1. PICK n \in 1 .. Len(codes) : Recognised(codes[n]) /\ s = CodeSeverity(n)
    BY <1>4 DEF GuardSeverities, CodeSeverity
  <2>2. Rank[guardSev] >= Rank[s]
    BY <1>1, <2>1 DEF IInv, CodesSeen
  <2>3. Rank[s] \in Nat
    BY <2>1, TableType, RankType DEF Recognised, CodeSeverity
  <2> QED  BY <1>2, <1>3, <2>2, <2>3
<1>7. \A s \in ScanSeverities : Rank[overall] >= Rank[s]
  <2> TAKE s \in ScanSeverities
  <2>1. PICK n \in 1 .. Len(findings) : s = findings[n].severity
    BY <1>5 DEF ScanSeverities
  <2>2. Rank[scanSev] >= Rank[s]
    BY <1>1, <2>1 DEF IInv, FindingsSeen
  <2>3. Rank[s] \in Nat
    BY <1>1, <2>1, FindingSeverity, RankType
  <2> QED  BY <1>2, <1>3, <2>2, <2>3
<1>8. guardSev \in GuardSeverities \cup {"none"}
  BY <1>1, <1>4 DEF IInv, CodesSeen, GuardSeverities, CodeSeverity
<1>9. scanSev \in ScanSeverities \cup {"none"}
  BY <1>1, <1>5 DEF IInv, FindingsSeen, ScanSeverities
<1> QED  BY <1>2, <1>6, <1>7, <1>8, <1>9

(* Whatever the guard answers and the scanner finds, in any order and any    *)
(* number, the block's severity is the highest of them.                      *)
THEOREM SeverityIsHighest == Spec => []OverallIsHighest
<1>1. Spec => []IInv
  BY Initially, Preserved, PTL DEF Spec
<1> QED  BY <1>1, Conclusion, PTL

-----------------------------------------------------------------------------
(* The step of dict.fromkeys, and what its fold passes through. *)
Kept(kept, x) == IF Contains(kept, x) THEN kept ELSE Append(kept, x)

KeptSteps(G, s, T) ==
    /\ G \in [0 .. Len(s) -> Seq(T)]
    /\ G[0] = <<>>
    /\ \A n \in 1 .. Len(s) : G[n] = Kept(G[n - 1], s[n])

LEMMA FromKeysSteps ==
    ASSUME NEW T, NEW s \in Seq(T)
    PROVE  \E G : KeptSteps(G, s, T) /\ FromKeys(s) = G[Len(s)]
<1> DEFINE A == Seq(T)
           op == [q \in A \X T |-> Kept(q[1], q[2])]
           IsFold(iter) ==
               iter = [S \in SUBSET DOMAIN s |->
                          IF S = {} THEN <<>> ELSE Kept(iter[S \ {Max(S)}], s[Max(S)])]
           fold == CHOOSE iter : IsFold(iter)
<1>1. Len(s) \in Nat /\ DOMAIN s = 1 .. Len(s) /\ \A n \in DOMAIN s : s[n] \in T
  OBVIOUS
<1>2. \A S \in SUBSET DOMAIN s : S # {} => s[Max(S)] \in T
  <2> SUFFICES ASSUME NEW S \in SUBSET DOMAIN s, S # {} PROVE s[Max(S)] \in T
    OBVIOUS
  <2>1. S \subseteq 0 .. Len(s)
    BY <1>1
  <2> QED
    BY <1>1, <2>1, MaxOf
<1>3. \A q \in A, x \in T : Kept(q, x) \in A
  BY DEF Kept
<1>4. op \in [A \X T -> A] /\ <<>> \in A
  BY <1>3
<1>5. \A q \in A, x \in T : op[q, x] = Kept(q, x)
  OBVIOUS
<1> HIDE DEF op, A
<1>6. PICK iter \in [SUBSET DOMAIN s -> A] : Folds(iter, op, <<>>, s)
  BY <1>4, FoldExists
<1>7. IsFold(iter)
  <2>1. iter = [S \in SUBSET DOMAIN s |-> iter[S]]
    OBVIOUS
  <2>2. \A S \in SUBSET DOMAIN s :
            iter[S] = IF S = {} THEN <<>> ELSE Kept(iter[S \ {Max(S)}], s[Max(S)])
    BY <1>1, <1>2, <1>5, <1>6 DEF Folds, FoldsTo
  <2> QED
    BY <2>1, <2>2
<1>8. FromKeys(s) = fold[DOMAIN s]
  BY DEF FromKeys, FoldLeft, MapThenFoldSet, Kept
<1>9. IsFold(fold)
  BY <1>7
<1> HIDE DEF fold
<1>10. FoldsWithin(fold, op, <<>>, s, A)
  BY <1>2, <1>5, <1>9 DEF FoldsWithin
<1>11. PICK G : StepsOf(G, fold, op, <<>>, s, A)
  BY <1>4, <1>10, FoldSteps
<1>12. \A n \in 1 .. Len(s) : G[n] = Kept(G[n - 1], s[n])
  <2> SUFFICES ASSUME NEW n \in 1 .. Len(s) PROVE G[n] = Kept(G[n - 1], s[n])
    OBVIOUS
  <2>1. n - 1 \in 0 .. Len(s) /\ s[n] \in T
    BY <1>1
  <2> QED
    BY <1>5, <1>11, <2>1 DEF StepsOf
<1>13. KeptSteps(G, s, T)
  BY <1>11, <1>12 DEF KeptSteps, StepsOf, A
<1>14. FromKeys(s) = G[Len(s)]
  BY <1>8, <1>11 DEF StepsOf
<1> QED
  BY <1>13, <1>14

(* n is the first position of x in s. *)
FirstAt(s, x, n) == n \in DOMAIN s /\ s[n] = x /\ \A m \in 1 .. n - 1 : s[m] # x

LEMMA FirstUnique ==
    ASSUME NEW T, NEW s \in Seq(T), NEW x, NEW m, NEW n, FirstAt(s, x, m), FirstAt(s, x, n)
    PROVE  m = n
<1>1. m \in Nat \ {0} /\ n \in Nat \ {0}
  BY DEF FirstAt
<1>2. ~(m < n) /\ ~(n < m)
  BY <1>1 DEF FirstAt
<1> QED
  BY <1>1, <1>2

LEMMA FirstIs ==
    ASSUME NEW T, NEW s \in Seq(T), NEW x, NEW n, FirstAt(s, x, n)
    PROVE  FirstIndex(s, x) = n
<1>1. \A m : FirstAt(s, x, m) => m = n
  BY FirstUnique
<1>2. n \in DOMAIN s /\ s[n] = x /\ \A m \in 1 .. n - 1 : s[m] # x
  BY DEF FirstAt
<1>3. \A m \in DOMAIN s : s[m] = x /\ (\A l \in 1 .. m - 1 : s[l] # x) => m = n
  BY <1>1 DEF FirstAt
<1> QED
  BY <1>2, <1>3 DEF FirstIndex

LEMMA FirstExists ==
    ASSUME NEW T, NEW s \in Seq(T), NEW x \in ToSet(s)
    PROVE  /\ FirstAt(s, x, FirstIndex(s, x))
           /\ FirstIndex(s, x) \in 1 .. Len(s)
<1> DEFINE S == {n \in DOMAIN s : s[n] = x}
<1>1. S # {} /\ S \subseteq Nat /\ DOMAIN s = 1 .. Len(s) /\ Len(s) \in Nat
  BY DEF ToSet
<1>2. PICK n \in S : \A m \in S : n <= m
  BY <1>1, Least
<1>3. FirstAt(s, x, n)
  BY <1>1, <1>2 DEF FirstAt
<1>4. FirstIndex(s, x) = n
  BY <1>3, FirstIs
<1> QED
  BY <1>1, <1>3, <1>4

(* FromKeys keeps every element, once, in the order of the first occurrences. *)
LEMMA KeysInOrder ==
    ASSUME NEW T, NEW s \in Seq(T)
    PROVE  /\ FromKeys(s) \in Seq(T)
           /\ ToSet(FromKeys(s)) = ToSet(s)
           /\ \A a, b \in DOMAIN FromKeys(s) : a < b =>
                 FirstIndex(s, FromKeys(s)[a]) < FirstIndex(s, FromKeys(s)[b])
<1>1. PICK G : KeptSteps(G, s, T) /\ FromKeys(s) = G[Len(s)]
  BY FromKeysSteps
<1> DEFINE N == Len(s)
           OfS(n) == \A a \in DOMAIN G[n] : \E q \in 1 .. n : FirstAt(s, G[n][a], q)
           AllOfS(n) == \A q \in 1 .. n : \E a \in DOMAIN G[n] : G[n][a] = s[q]
           Ordered(n) == \A a, b \in DOMAIN G[n] : \A l, q \in 1 .. n :
               a < b /\ FirstAt(s, G[n][a], l) /\ FirstAt(s, G[n][b], q) => l < q
           R == {n \in 0 .. N : OfS(n) /\ AllOfS(n) /\ Ordered(n)}
<1>2. /\ N \in Nat /\ DOMAIN s = 1 .. N
      /\ G \in [0 .. N -> Seq(T)] /\ G[0] = <<>>
      /\ \A n \in 1 .. N : G[n] = Kept(G[n - 1], s[n])
  BY <1>1 DEF KeptSteps
<1>3. 0 \in R
  <2>1. DOMAIN G[0] = {} /\ 1 .. 0 = {} /\ 0 \in 0 .. N
    BY <1>2
  <2> QED
    BY <2>1
<1>4. ASSUME NEW n \in 0 .. N - 1, n \in R PROVE n + 1 \in R
  <2>1. /\ n \in Nat /\ n \in 0 .. N /\ n + 1 \in 0 .. N /\ n + 1 \in 1 .. N
        /\ 1 .. n \subseteq 1 .. n + 1 /\ 1 .. n + 1 = (1 .. n) \cup {n + 1}
    BY <1>2
  <2>2. PICK kept : kept = G[n]
    OBVIOUS
  <2>3. PICK next : next = G[n + 1]
    OBVIOUS
  <2>4. kept \in Seq(T) /\ next = Kept(kept, s[n + 1])
    <3>1. (n + 1) - 1 = n
      BY <2>1
    <3> QED
      BY <1>2, <2>1, <2>2, <2>3, <3>1
  <2>5. /\ \A a \in DOMAIN kept : \E q \in 1 .. n : FirstAt(s, kept[a], q)
        /\ \A q \in 1 .. n : \E a \in DOMAIN kept : kept[a] = s[q]
        /\ \A a, b \in DOMAIN kept : \A l, q \in 1 .. n :
               a < b /\ FirstAt(s, kept[a], l) /\ FirstAt(s, kept[b], q) => l < q
    BY <1>4, <2>2
  <2>6. CASE Contains(kept, s[n + 1])
    <3>1. next = kept
      BY <2>4, <2>6 DEF Kept
    <3>2. OfS(n + 1)
      BY <2>1, <2>3, <2>5, <3>1
    <3>3. PICK c \in DOMAIN kept : kept[c] = s[n + 1]
      BY <2>4, <2>6 DEF Contains
    <3>4. AllOfS(n + 1)
      BY <2>1, <2>3, <2>5, <3>1, <3>3
    <3>5. \A a \in DOMAIN kept, q \in 1 .. n + 1 : FirstAt(s, kept[a], q) => q \in 1 .. n
      BY <2>5, FirstUnique
    <3>6. Ordered(n + 1)
      BY <2>3, <2>5, <3>1, <3>5
    <3> QED
      BY <2>1, <3>2, <3>4, <3>6
  <2>7. CASE ~Contains(kept, s[n + 1])
    <3>1. next = Append(kept, s[n + 1])
      BY <2>4, <2>7 DEF Kept
    <3>2. /\ DOMAIN kept = 1 .. Len(kept) /\ Len(kept) \in Nat
          /\ DOMAIN next = 1 .. Len(kept) + 1
          /\ \A a \in DOMAIN kept : next[a] = kept[a]
          /\ next[Len(kept) + 1] = s[n + 1]
      <4>1. s[n + 1] \in T
        BY <1>2, <2>1
      <4> QED
        BY <2>4, <3>1, <4>1
    <3>3. FirstAt(s, s[n + 1], n + 1)
      <4>1. \A q \in 1 .. n : s[q] # s[n + 1]
        BY <2>5, <2>7, <3>2 DEF Contains
      <4> QED
        BY <1>2, <2>1, <4>1 DEF FirstAt
    <3>4. OfS(n + 1)
      <4> SUFFICES ASSUME NEW a \in DOMAIN next
                   PROVE  \E q \in 1 .. n + 1 : FirstAt(s, next[a], q)
        BY <2>3
      <4>1. CASE a \in DOMAIN kept
        BY <2>1, <2>5, <3>2, <4>1
      <4>2. CASE a \notin DOMAIN kept
        BY <2>1, <3>2, <3>3, <4>2
      <4> QED
        BY <4>1, <4>2
    <3>5. AllOfS(n + 1)
      <4>1. \A a \in DOMAIN kept : a \in DOMAIN next
        BY <3>2
      <4>2. Len(kept) + 1 \in DOMAIN next
        BY <3>2
      <4> QED
        BY <2>1, <2>3, <2>5, <3>2, <4>1, <4>2
    <3>6. Ordered(n + 1)
      <4> SUFFICES ASSUME NEW a \in DOMAIN next, NEW b \in DOMAIN next,
                          NEW l \in 1 .. n + 1, NEW q \in 1 .. n + 1,
                          a < b, FirstAt(s, next[a], l), FirstAt(s, next[b], q)
                   PROVE  l < q
        BY <2>3
      <4>1. a \in DOMAIN kept
        BY <3>2
      <4>2. PICK h \in 1 .. n : FirstAt(s, kept[a], h)
        BY <2>5, <4>1
      <4>3. l = h
        BY <3>2, <4>1, <4>2, FirstUnique
      <4>4. CASE b \in DOMAIN kept
        <5>1. PICK g \in 1 .. n : FirstAt(s, kept[b], g)
          BY <2>5, <4>4
        <5>2. q = g
          BY <3>2, <4>4, <5>1, FirstUnique
        <5> QED
          BY <2>5, <3>2, <4>1, <4>2, <4>3, <4>4, <5>1, <5>2
      <4>5. CASE b \notin DOMAIN kept
        <5>1. next[b] = s[n + 1]
          BY <3>2, <4>5
        <5>2. q = n + 1
          BY <3>3, <5>1, FirstUnique
        <5> QED
          BY <2>1, <4>3, <5>2
      <4> QED
        BY <4>4, <4>5
    <3> QED
      BY <2>1, <3>4, <3>5, <3>6
  <2> QED
    BY <2>6, <2>7
<1>5. N \in R
  <2>1. 0 .. N \subseteq R
    <3> HIDE DEF R, N
    <3> QED
      BY <1>2, <1>3, <1>4, InductTo
  <2> QED
    BY <1>2, <2>1
<1>6. PICK keys : keys = FromKeys(s)
  OBVIOUS
<1>7. keys = G[N] /\ keys \in Seq(T) /\ N \in 0 .. N
  BY <1>1, <1>2, <1>6
<1>8. /\ \A a \in DOMAIN keys : \E q \in 1 .. N : FirstAt(s, keys[a], q)
      /\ \A q \in 1 .. N : \E a \in DOMAIN keys : keys[a] = s[q]
      /\ \A a, b \in DOMAIN keys : \A l, q \in 1 .. N :
            a < b /\ FirstAt(s, keys[a], l) /\ FirstAt(s, keys[b], q) => l < q
  BY <1>5, <1>7
<1>9. ToSet(keys) = ToSet(s)
  <2>1. \A a \in DOMAIN keys : \E q \in DOMAIN s : keys[a] = s[q]
    BY <1>2, <1>8 DEF FirstAt
  <2> QED
    BY <1>2, <1>8, <2>1 DEF ToSet
<1>10. ASSUME NEW a \in DOMAIN keys, NEW b \in DOMAIN keys, a < b
       PROVE  FirstIndex(s, keys[a]) < FirstIndex(s, keys[b])
  <2>1. PICK l \in 1 .. N : FirstAt(s, keys[a], l)
    BY <1>8
  <2>2. PICK q \in 1 .. N : FirstAt(s, keys[b], q)
    BY <1>8
  <2>3. FirstIndex(s, keys[a]) = l /\ FirstIndex(s, keys[b]) = q
    BY <2>1, <2>2, FirstIs
  <2> QED
    BY <1>8, <1>10, <2>1, <2>2, <2>3
<1> QED
  BY <1>6, <1>7, <1>9, <1>10

(* r has the elements of s, in the order in which they first occur there. *)
SameFirsts(r, s) ==
    /\ ToSet(r) = ToSet(s)
    /\ \A x, y \in ToSet(s) :
          FirstIndex(r, x) < FirstIndex(r, y) => FirstIndex(s, x) < FirstIndex(s, y)

LEMMA SameFirstsTrans ==
    ASSUME NEW r, NEW s, NEW t, SameFirsts(r, s), SameFirsts(s, t)
    PROVE  SameFirsts(r, t)
  BY DEF SameFirsts

LEMMA KeysSameFirsts ==
    ASSUME NEW T, NEW s \in Seq(T)
    PROVE  SameFirsts(FromKeys(s), s)
<1>1. PICK keys : keys = FromKeys(s)
  OBVIOUS
<1>2. /\ keys \in Seq(T)
      /\ ToSet(keys) = ToSet(s)
      /\ \A a, b \in DOMAIN keys : a < b => FirstIndex(s, keys[a]) < FirstIndex(s, keys[b])
  BY <1>1, KeysInOrder
<1>3. ASSUME NEW x \in ToSet(s), NEW y \in ToSet(s), FirstIndex(keys, x) < FirstIndex(keys, y)
      PROVE  FirstIndex(s, x) < FirstIndex(s, y)
  <2>1. FirstAt(keys, x, FirstIndex(keys, x)) /\ FirstAt(keys, y, FirstIndex(keys, y))
    BY <1>2, FirstExists
  <2> QED
    BY <1>2, <1>3, <2>1 DEF FirstAt
<1> QED
  BY <1>1, <1>2, <1>3 DEF SameFirsts

(* Where an element first occurs in a concatenation. *)
LEMMA FirstOfConcat ==
    ASSUME NEW T, NEW s \in Seq(T), NEW t \in Seq(T), NEW x \in ToSet(s) \cup ToSet(t)
    PROVE  FirstIndex(s \o t, x) = IF x \in ToSet(s) THEN FirstIndex(s, x)
                                   ELSE Len(s) + FirstIndex(t, x)
<1> DEFINE st == s \o t
<1>1. /\ st \in Seq(T) /\ Len(st) = Len(s) + Len(t) /\ Len(s) \in Nat /\ Len(t) \in Nat
      /\ DOMAIN st = 1 .. Len(s) + Len(t) /\ DOMAIN s = 1 .. Len(s) /\ DOMAIN t = 1 .. Len(t)
      /\ \A n \in DOMAIN st : st[n] = IF n <= Len(s) THEN s[n] ELSE t[n - Len(s)]
  OBVIOUS
<1> HIDE DEF st
<1>2. CASE x \in ToSet(s)
  <2>1. FirstAt(s, x, FirstIndex(s, x)) /\ FirstIndex(s, x) \in 1 .. Len(s)
    BY <1>2, FirstExists
  <2>2. FirstAt(st, x, FirstIndex(s, x))
    BY <1>1, <2>1 DEF FirstAt
  <2> QED
    BY <1>1, <1>2, <2>2, FirstIs DEF st
<1>3. CASE x \notin ToSet(s)
  <2>1. FirstAt(t, x, FirstIndex(t, x)) /\ FirstIndex(t, x) \in 1 .. Len(t)
    BY <1>3, FirstExists
  <2>2. PICK n : n = FirstIndex(t, x)
    OBVIOUS
  <2>3. \A m \in 1 .. Len(s) : s[m] # x
    BY <1>1, <1>3 DEF ToSet
  <2>4. n \in 1 .. Len(t) /\ t[n] = x /\ \A m \in 1 .. n - 1 : t[m] # x
    BY <2>1, <2>2 DEF FirstAt
  <2>5. Len(s) + n \in DOMAIN st /\ st[Len(s) + n] = x
    <3>1. PICK k : k = Len(s) + n
      OBVIOUS
    <3>2. k \in DOMAIN st /\ ~(k <= Len(s)) /\ k - Len(s) = n
      BY <1>1, <2>4, <3>1
    <3>3. st[k] = t[n]
      BY <1>1, <3>2
    <3> QED
      BY <2>4, <3>1, <3>2, <3>3
  <2>6. ASSUME NEW m \in 1 .. Len(s) + n - 1 PROVE st[m] # x
    <3>1. m \in DOMAIN st
      BY <1>1, <2>4
    <3>2. CASE m <= Len(s)
      BY <1>1, <2>3, <3>1, <3>2
    <3>3. CASE ~(m <= Len(s))
      <4>1. m - Len(s) \in 1 .. n - 1
        BY <1>1, <2>4, <3>3
      <4> QED
        BY <1>1, <2>4, <3>1, <3>3, <4>1
    <3> QED
      BY <3>2, <3>3
  <2>7. FirstAt(st, x, Len(s) + n)
    <3>1. PICK k : k = Len(s) + n
      OBVIOUS
    <3>2. k \in DOMAIN st /\ st[k] = x /\ \A m \in 1 .. k - 1 : st[m] # x
      <4>1. k \in DOMAIN st /\ st[k] = x
        BY <2>5, <3>1
      <4>2. ASSUME NEW m \in 1 .. k - 1 PROVE st[m] # x
        BY <1>1, <2>4, <2>6, <3>1
      <4> QED
        BY <4>1, <4>2
    <3> QED
      BY <3>1, <3>2 DEF FirstAt
  <2> QED
    BY <1>1, <1>3, <2>2, <2>7, FirstIs DEF st
<1> QED
  BY <1>2, <1>3

LEMMA SameFirstsConcat ==
    ASSUME NEW T, NEW r \in Seq(T), NEW s \in Seq(T), NEW t \in Seq(T), SameFirsts(r, s)
    PROVE  SameFirsts(r \o t, s \o t)
<1>1. \A q \in Seq(T) : ToSet(q \o t) = ToSet(q) \cup ToSet(t)
  <2> SUFFICES ASSUME NEW q \in Seq(T) PROVE ToSet(q \o t) = ToSet(q) \cup ToSet(t)
    OBVIOUS
  <2>1. PICK c : c = q \o t
    OBVIOUS
  <2>2. /\ Len(q) \in Nat /\ Len(t) \in Nat
        /\ DOMAIN c = 1 .. Len(q) + Len(t) /\ DOMAIN q = 1 .. Len(q) /\ DOMAIN t = 1 .. Len(t)
        /\ \A n \in DOMAIN c : c[n] = IF n <= Len(q) THEN q[n] ELSE t[n - Len(q)]
    BY <2>1
  <2>3. \A n \in DOMAIN q : n \in DOMAIN c /\ c[n] = q[n]
    BY <2>2
  <2>4. \A n \in DOMAIN t : Len(q) + n \in DOMAIN c /\ c[Len(q) + n] = t[n]
    BY <2>2
  <2>5. \A n \in DOMAIN c : (n \in DOMAIN q /\ c[n] = q[n])
                            \/ (n - Len(q) \in DOMAIN t /\ c[n] = t[n - Len(q)])
    BY <2>2
  <2>6. ToSet(c) \subseteq ToSet(q) \cup ToSet(t)
    BY <2>5 DEF ToSet
  <2>7. ToSet(q) \subseteq ToSet(c) /\ ToSet(t) \subseteq ToSet(c)
    BY <2>3, <2>4 DEF ToSet
  <2> QED
    BY <2>1, <2>6, <2>7
<1>2. ToSet(r \o t) = ToSet(s \o t)
  BY <1>1 DEF SameFirsts
<1>3. ASSUME NEW x \in ToSet(s \o t), NEW y \in ToSet(s \o t),
             FirstIndex(r \o t, x) < FirstIndex(r \o t, y)
      PROVE  FirstIndex(s \o t, x) < FirstIndex(s \o t, y)
  <2>1. \A z \in ToSet(s \o t) :
            /\ FirstIndex(r \o t, z) = IF z \in ToSet(s) THEN FirstIndex(r, z)
                                       ELSE Len(r) + FirstIndex(t, z)
            /\ FirstIndex(s \o t, z) = IF z \in ToSet(s) THEN FirstIndex(s, z)
                                       ELSE Len(s) + FirstIndex(t, z)
    BY <1>1, <1>2, FirstOfConcat DEF SameFirsts
  <2>2. \A z \in ToSet(s) : FirstIndex(r, z) \in 1 .. Len(r) /\ FirstIndex(s, z) \in 1 .. Len(s)
    BY FirstExists DEF SameFirsts
  <2>3. \A z \in ToSet(t) : FirstIndex(t, z) \in 1 .. Len(t)
    BY FirstExists
  <2>4. Len(r) \in Nat /\ Len(s) \in Nat /\ Len(t) \in Nat
        /\ x \in ToSet(s) \cup ToSet(t) /\ y \in ToSet(s) \cup ToSet(t)
    BY <1>1
  <2>5. CASE x \in ToSet(s) /\ y \in ToSet(s)
    BY <1>3, <2>1, <2>5 DEF SameFirsts
  <2>6. CASE x \in ToSet(s) /\ y \notin ToSet(s)
    BY <2>1, <2>2, <2>3, <2>4, <2>6
  <2>7. CASE x \notin ToSet(s) /\ y \in ToSet(s)
    <3>1. Len(r) + FirstIndex(t, x) < FirstIndex(r, y)
      BY <1>3, <2>1, <2>7
    <3> QED
      BY <2>2, <2>3, <2>4, <2>7, <3>1
  <2>8. CASE x \notin ToSet(s) /\ y \notin ToSet(s)
    <3>1. Len(r) + FirstIndex(t, x) < Len(r) + FirstIndex(t, y)
      BY <1>3, <2>1, <2>8
    <3>2. FirstIndex(t, x) \in Nat /\ FirstIndex(t, y) \in Nat
      BY <2>3, <2>4, <2>8
    <3>3. Len(s) + FirstIndex(t, x) < Len(s) + FirstIndex(t, y)
      BY <2>4, <3>1, <3>2
    <3> QED
      BY <2>1, <2>8, <3>3
  <2> QED
    BY <2>5, <2>6, <2>7, <2>8
<1> QED
  BY <1>2, <1>3 DEF SameFirsts

(* The same for the list of the recognised codes' categories. *)
AddCategory(cats, c) == IF Recognised(c) THEN Append(cats, ScodeToCanonical[c].category) ELSE cats

CategorySteps(G, s) ==
    /\ G \in [0 .. Len(s) -> Seq(Category)]
    /\ G[0] = <<>>
    /\ \A n \in 1 .. Len(s) : G[n] = AddCategory(G[n - 1], s[n])

LEMMA TableCategory ==
  \A c \in DOMAIN ScodeToCanonical : ScodeToCanonical[c].category \in Category
  BY DEF Category, GuardCategory

LEMMA AddCategoryType ==
    ASSUME NEW cats \in Seq(Category), NEW c
    PROVE  AddCategory(cats, c) \in Seq(Category)
<1>1. CASE Recognised(c)
  <2>1. PICK x \in Category : x = ScodeToCanonical[c].category
    BY <1>1, TableCategory DEF Recognised
  <2>2. AddCategory(cats, c) = Append(cats, x)
    BY <1>1, <2>1 DEF AddCategory
  <2> QED
    BY <2>1, <2>2
<1>2. CASE ~Recognised(c)
  BY <1>2 DEF AddCategory
<1> QED
  BY <1>1, <1>2

LEMMA CategoriesSteps ==
    ASSUME NEW s \in Seq(Code)
    PROVE  \E G : CategorySteps(G, s) /\ CategoriesOf(s) = G[Len(s)]
<1> DEFINE A == Seq(Category)
           op == [q \in A \X Code |-> AddCategory(q[1], q[2])]
           IsFold(iter) ==
               iter = [S \in SUBSET DOMAIN s |->
                          IF S = {} THEN <<>> ELSE AddCategory(iter[S \ {Max(S)}], s[Max(S)])]
           fold == CHOOSE iter : IsFold(iter)
<1>1. Len(s) \in Nat /\ DOMAIN s = 1 .. Len(s) /\ \A n \in DOMAIN s : s[n] \in Code
  OBVIOUS
<1>2. \A S \in SUBSET DOMAIN s : S # {} => s[Max(S)] \in Code
  <2> SUFFICES ASSUME NEW S \in SUBSET DOMAIN s, S # {} PROVE s[Max(S)] \in Code
    OBVIOUS
  <2>1. S \subseteq 0 .. Len(s)
    BY <1>1
  <2> QED
    BY <1>1, <2>1, MaxOf
<1>3. \A q \in A, x \in Code : AddCategory(q, x) \in A
  BY AddCategoryType
<1>4. op \in [A \X Code -> A] /\ <<>> \in A
  BY <1>3
<1>5. \A q \in A, x \in Code : op[q, x] = AddCategory(q, x)
  OBVIOUS
<1> HIDE DEF op, A
<1>6. PICK iter \in [SUBSET DOMAIN s -> A] : Folds(iter, op, <<>>, s)
  BY <1>4, FoldExists
<1>7. IsFold(iter)
  <2>1. iter = [S \in SUBSET DOMAIN s |-> iter[S]]
    OBVIOUS
  <2>2. \A S \in SUBSET DOMAIN s :
            iter[S] = IF S = {} THEN <<>> ELSE AddCategory(iter[S \ {Max(S)}], s[Max(S)])
    BY <1>1, <1>2, <1>5, <1>6 DEF Folds, FoldsTo
  <2> QED
    BY <2>1, <2>2
<1>8. CategoriesOf(s) = fold[DOMAIN s]
  BY DEF CategoriesOf, FoldLeft, MapThenFoldSet, AddCategory
<1>9. IsFold(fold)
  BY <1>7
<1> HIDE DEF fold
<1>10. FoldsWithin(fold, op, <<>>, s, A)
  BY <1>2, <1>5, <1>9 DEF FoldsWithin
<1>11. PICK G : StepsOf(G, fold, op, <<>>, s, A)
  BY <1>4, <1>10, FoldSteps
<1>12. \A n \in 1 .. Len(s) : G[n] = AddCategory(G[n - 1], s[n])
  <2> SUFFICES ASSUME NEW n \in 1 .. Len(s) PROVE G[n] = AddCategory(G[n - 1], s[n])
    OBVIOUS
  <2>1. n - 1 \in 0 .. Len(s) /\ s[n] \in Code
    BY <1>1
  <2> QED
    BY <1>5, <1>11, <2>1 DEF StepsOf
<1>13. CategorySteps(G, s)
  BY <1>11, <1>12 DEF CategorySteps, StepsOf, A
<1>14. CategoriesOf(s) = G[Len(s)]
  BY <1>8, <1>11 DEF StepsOf
<1> QED
  BY <1>13, <1>14

-----------------------------------------------------------------------------
LEMMA FindingCategories ==
    ASSUME NEW s \in Seq(Finding)
    PROVE  [n \in DOMAIN s |-> s[n].category] \in Seq(Category)
<1>1. \A n \in 1 .. Len(s) : s[n].category \in Category
  BY FindingAssumption DEF Category
<1>2. [n \in 1 .. Len(s) |-> s[n].category] \in Seq(Category)
  BY <1>1
<1> QED
  BY <1>2

LEMMA CombinedType ==
    ASSUME mapped \in Seq(Category), findings \in Seq(Finding)
    PROVE  Combined \in Seq(Category)
<1>1. PICK T : T = Category
  OBVIOUS
<1>2. mapped \in Seq(T) /\ [n \in DOMAIN findings |-> findings[n].category] \in Seq(T)
  BY <1>1, FindingCategories
<1>3. Combined \in Seq(T)
  BY <1>2 DEF Combined
<1> QED
  BY <1>1, <1>3

LEMMA FromKeysType ==
    ASSUME NEW s \in Seq(Category)
    PROVE  FromKeys(s) \in Seq(Category)
  BY KeysInOrder

LEMMA AnswersType ==
    \A a \in ParsedAnswers :
        /\ a.label \in {"safe", "unsafe", "unknown"}
        /\ a.codes \in Seq(Code)
        /\ a.codes # <<>> => a.label = "unsafe"
  BY ParsedType DEF ParsedAnswers

LEMMA TypesInitially == Init => TypeOK
<1>1. \A S : <<>> \in Seq(S)
  OBVIOUS
<1>2. Len(<<>>) = 0 /\ 1 \in 1 .. 0 + 1
  OBVIOUS
<1> QED
  BY <1>1, <1>2, NoneLowest DEF Init, TypeOK

LEMMA TypesPreserved == TypeOK /\ LoopsInOrder /\ [Next]_vars => TypeOK'
<1> SUFFICES ASSUME TypeOK, LoopsInOrder, [Next]_vars PROVE TypeOK'
  OBVIOUS
<1> USE DEF TypeOK
<1>0. Len(codes) \in Nat /\ Len(findings) \in Nat
  OBVIOUS
<1>1. CASE ScanText
  <2>1. findings' \in Seq(Finding)
    BY <1>1, BoundedIsSeq, BoundAssumption DEF ScanText
  <2>2. Len(findings') \in Nat /\ j = 1
    BY <1>1, <2>1 DEF LoopsInOrder, ScanText
  <2> QED
    BY <1>1, <2>1, <2>2 DEF ScanText
<1>2. CASE GuardAnswers
  <2>1. PICK a \in ParsedAnswers : label' = a.label /\ codes' = a.codes
    BY <1>2 DEF GuardAnswers
  <2>2. codes' \in Seq(Code) /\ Len(codes') \in Nat
    BY <2>1, AnswersType
  <2>3. i' = 1
    BY <1>2 DEF GuardAnswers, LoopsInOrder
  <2> QED
    BY <1>2, <2>1, <2>2, <2>3, AnswersType DEF GuardAnswers
<1>3. CASE GuardUnavailable
  BY <1>3 DEF GuardUnavailable
<1>4. CASE GuardRaises
  BY <1>4 DEF GuardRaises
<1>5. CASE MapScode
  <2>1. mapped' \in Seq(Category)
    BY <1>5, AddCategoryType DEF MapScode, AddCategory
  <2>2. guardSev' \in Severity
    BY <1>5, TableType, MaxIsHighest DEF MapScode, Recognised
  <2>3. i' \in 1 .. Len(codes) + 1
    BY <1>0, <1>5 DEF MapScode
  <2> QED
    BY <1>5, <2>1, <2>2, <2>3 DEF MapScode
<1>6. CASE ScodesMapped
  BY <1>6, FromKeysType DEF ScodesMapped
<1>7. CASE MaxFinding
  <2>1. scanSev' \in Severity
    BY <1>0, <1>7, FindingSeverity, MaxIsHighest DEF MaxFinding
  <2>2. j' \in 1 .. Len(findings) + 1
    BY <1>0, <1>7 DEF MaxFinding
  <2> QED
    BY <1>7, <2>1, <2>2 DEF MaxFinding
<1>8. CASE Merge
  <2>1. overall' \in Severity
    BY <1>8, MaxIsHighest DEF Merge
  <2>2. categories' \in Seq(Category)
    BY <1>8, CombinedType, FromKeysType DEF Merge
  <2> QED
    BY <1>8, <2>1, <2>2 DEF Merge
<1>9. CASE Returned \/ UNCHANGED vars
  BY <1>9 DEF Returned, vars
<1> QED
  BY <1>1, <1>2, <1>3, <1>4, <1>5, <1>6, <1>7, <1>8, <1>9 DEF Next

(* The locals of a call keep their types, the loops stay within their lists, *)
(* and only an answer "unsafe" brings codes.                                 *)
THEOREM TypeCorrect == Spec => []TypeOK
<1>1. IInv => LoopsInOrder
  BY DEF IInv
<1>2. Spec => []IInv
  BY Initially, Preserved, PTL DEF Spec
<1> QED
  BY <1>1, <1>2, TypesInitially, TypesPreserved, PTL DEF Spec

-----------------------------------------------------------------------------
(* The first loop holds the categories of the codes it has passed; what is   *)
(* left of them has the order of the codes.                                  *)
CategoriesSeen ==
    /\ pc \in {"scan", "guard"} => mapped = <<>>
    /\ pc = "map" => \E G : /\ CategorySteps(G, codes)
                            /\ GuardCategories = G[Len(codes)]
                            /\ mapped = G[i - 1]
    /\ pc \in {"findings", "done"} => SameFirsts(mapped, GuardCategories)
    /\ pc = "done" => categories = FromKeys(Combined)

LEMMA NoCodes == CategoriesOf(<<>>) = <<>>
<1>1. PICK G : CategorySteps(G, <<>>) /\ CategoriesOf(<<>>) = G[Len(<<>>)]
  <2>1. <<>> \in Seq(Code)
    OBVIOUS
  <2> QED
    BY <2>1, CategoriesSteps
<1>2. Len(<<>>) = 0
  OBVIOUS
<1> QED
  BY <1>1, <1>2 DEF CategorySteps

LEMMA SameFirstsRefl == ASSUME NEW s PROVE SameFirsts(s, s)
  BY DEF SameFirsts

LEMMA CategoriesInitially == Init => CategoriesSeen
  BY DEF Init, CategoriesSeen

LEMMA CategoriesPreserved ==
    TypeOK /\ LoopsInOrder /\ CategoriesSeen /\ [Next]_vars => CategoriesSeen'
<1> SUFFICES ASSUME TypeOK, LoopsInOrder, CategoriesSeen, [Next]_vars PROVE CategoriesSeen'
  OBVIOUS
<1>0. Len(codes) \in Nat /\ i \in 1 .. Len(codes) + 1 /\ mapped \in Seq(Category)
  BY DEF TypeOK
<1>1. CASE ScanText
  BY <1>1 DEF CategoriesSeen, ScanText
<1>2. CASE GuardAnswers
  <2>1. codes' \in Seq(Code) /\ pc' = "map" /\ i' = 1 /\ mapped' = <<>>
    BY <1>2, AnswersType DEF GuardAnswers, LoopsInOrder, CategoriesSeen
  <2>2. PICK G : CategorySteps(G, codes') /\ CategoriesOf(codes') = G[Len(codes')]
    BY <2>1, CategoriesSteps
  <2>3. mapped' = G[i' - 1]
    BY <2>1, <2>2 DEF CategorySteps
  <2> QED
    BY <2>1, <2>2, <2>3 DEF CategoriesSeen, GuardCategories
<1>3. CASE GuardUnavailable
  <2>1. mapped' = <<>> /\ codes' = <<>> /\ pc' = "findings"
    BY <1>3 DEF GuardUnavailable, CategoriesSeen, LoopsInOrder
  <2>2. GuardCategories' = <<>>
    BY <2>1, NoCodes DEF GuardCategories
  <2> QED
    BY <2>1, <2>2, SameFirstsRefl DEF CategoriesSeen
<1>4. CASE GuardRaises
  BY <1>4 DEF CategoriesSeen, GuardRaises
<1>5. CASE MapScode
  <2>1. /\ pc = "map" /\ pc' = "map" /\ i <= Len(codes) /\ i' = i + 1 /\ codes' = codes
        /\ mapped' = AddCategory(mapped, codes[i])
    BY <1>5 DEF MapScode, AddCategory
  <2>2. PICK G : /\ CategorySteps(G, codes)
                 /\ GuardCategories = G[Len(codes)]
                 /\ mapped = G[i - 1]
    BY <2>1 DEF CategoriesSeen
  <2>3. mapped' = G[i' - 1]
    <3>1. i \in 1 .. Len(codes) /\ i' - 1 = i
      BY <1>0, <2>1
    <3> QED
      BY <2>1, <2>2, <3>1 DEF CategorySteps
  <2> QED
    BY <2>1, <2>2, <2>3 DEF CategoriesSeen, GuardCategories
<1>6. CASE ScodesMapped
  <2>1. /\ pc = "map" /\ pc' = "findings" /\ i - 1 = Len(codes) /\ codes' = codes
        /\ mapped' = FromKeys(mapped)
    BY <1>0, <1>6 DEF ScodesMapped
  <2>2. mapped = GuardCategories
    BY <2>1 DEF CategoriesSeen
  <2>3. SameFirsts(mapped', GuardCategories)
    BY <1>0, <2>1, <2>2, KeysSameFirsts
  <2> QED
    BY <2>1, <2>3 DEF CategoriesSeen, GuardCategories
<1>7. CASE MaxFinding
  BY <1>7 DEF CategoriesSeen, MaxFinding, GuardCategories
<1>8. CASE Merge
  BY <1>8 DEF CategoriesSeen, Merge, GuardCategories, Combined
<1>9. CASE Returned \/ UNCHANGED vars
  BY <1>9 DEF CategoriesSeen, Returned, vars, GuardCategories, Combined
<1> QED
  BY <1>1, <1>2, <1>3, <1>4, <1>5, <1>6, <1>7, <1>8, <1>9 DEF Next

LEMMA CategoriesConclusion == TypeOK /\ CategoriesSeen => CategoriesInOrder
<1> SUFFICES ASSUME TypeOK, CategoriesSeen, pc = "done"
             PROVE  LET all == GuardCategories \o [n \in DOMAIN findings |-> findings[n].category] IN
                    /\ ToSet(categories) = ToSet(all)
                    /\ \A m, n \in DOMAIN categories : m < n =>
                          FirstIndex(all, categories[m]) < FirstIndex(all, categories[n])
  BY DEF CategoriesInOrder
<1> DEFINE found == [n \in DOMAIN findings |-> findings[n].category]
           all == GuardCategories \o found
<1>1. /\ mapped \in Seq(Category) /\ GuardCategories \in Seq(Category)
      /\ found \in Seq(Category) /\ Combined \in Seq(Category)
  <2>1. PICK G : CategorySteps(G, codes) /\ GuardCategories = G[Len(codes)]
    BY CategoriesSteps DEF TypeOK, GuardCategories
  <2>2. Len(codes) \in 0 .. Len(codes)
    BY DEF TypeOK
  <2>3. GuardCategories \in Seq(Category)
    BY <2>1, <2>2 DEF CategorySteps
  <2> QED
    BY <2>3, FindingCategories, CombinedType DEF TypeOK
<1>2. SameFirsts(mapped, GuardCategories) /\ categories = FromKeys(Combined)
  BY DEF CategoriesSeen
<1>3. Combined = mapped \o found
  BY DEF Combined
<1> HIDE DEF found
<1>4. SameFirsts(Combined, all)
  BY <1>1, <1>2, <1>3, SameFirstsConcat
<1>5. /\ ToSet(categories) = ToSet(Combined)
      /\ \A m, n \in DOMAIN categories : m < n =>
            FirstIndex(Combined, categories[m]) < FirstIndex(Combined, categories[n])
  BY <1>1, <1>2, KeysInOrder
<1> HIDE DEF all
<1>6. ToSet(categories) = ToSet(all)
  BY <1>4, <1>5 DEF SameFirsts
<1>7. \A m \in DOMAIN categories : categories[m] \in ToSet(all)
  BY <1>6 DEF ToSet
<1>8. \A m, n \in DOMAIN categories : m < n =>
          FirstIndex(all, categories[m]) < FirstIndex(all, categories[n])
  BY <1>4, <1>5, <1>7 DEF SameFirsts
<1> QED
  BY <1>6, <1>8 DEF all, found

(* Whatever the guard answers and the scanner finds, the block names every   *)
(* category of the recognised codes and of the findings, and each where it   *)
(* first occurs: neither deduplication loses or reorders one.                *)
THEOREM CategoriesKeepTheirOrder == Spec => []CategoriesInOrder
<1>1. IInv => LoopsInOrder
  BY DEF IInv
<1>2. Spec => []IInv
  BY Initially, Preserved, PTL DEF Spec
<1>3. Spec => []CategoriesSeen
  BY <1>1, <1>2, TypeCorrect, CategoriesInitially, CategoriesPreserved, PTL DEF Spec
<1> QED
  BY <1>3, TypeCorrect, CategoriesConclusion, PTL
=============================================================================
