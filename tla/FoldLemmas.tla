----------------------------- MODULE FoldLemmas -----------------------------
(***************************************************************************)
(* Induction over the natural numbers and what FoldLeft computes, in a     *)
(* form that takes sets and functions for its parameters, not operators.   *)
(***************************************************************************)
EXTENDS Integers, Sequences, SequencesExt, WellFoundedInduction, TLAPS

(* A set of natural numbers has a least element. *)
LEMMA Least ==
    ASSUME NEW S, S \subseteq Nat, S # {}
    PROVE  \E m \in S : \A n \in S : m <= n
<1> DEFINE R == OpToRel(<, Nat)
<1>1. IsWellFoundedOn(R, Nat)
  BY NatLessThanWellFounded
<1>2. \A a, b \in Nat : a < b => <<a, b>> \in R
  BY DEF OpToRel
<1> HIDE DEF R
<1>3. PICK m \in S : \A n \in S : ~(<<n, m>> \in R)
  BY <1>1, WFMin
<1>4. ASSUME NEW n \in S PROVE m <= n
  <2>1. m \in Nat /\ n \in Nat
    OBVIOUS
  <2>2. ~(n < m)
    BY <1>2, <1>3, <2>1
  <2> QED
    BY <2>1, <2>2
<1> QED
  BY <1>4

(* Induction, with a set for the property. *)
LEMMA Induct ==
    ASSUME NEW S, 0 \in S, \A n \in Nat : n \in S => n + 1 \in S
    PROVE  Nat \subseteq S
<1> DEFINE T == {n \in Nat : n \notin S}
<1> SUFFICES ASSUME T # {} PROVE FALSE
  OBVIOUS
<1>1. PICK m \in T : \A n \in T : m <= n
  BY Least
<1>2. m \in Nat /\ m # 0 /\ m - 1 \in Nat /\ m - 1 \notin T
  BY <1>1
<1> QED
  BY <1>1, <1>2

(* The same up to a bound. *)
LEMMA InductTo ==
    ASSUME NEW N \in Nat, NEW S, 0 \in S, \A n \in 0 .. N - 1 : n \in S => n + 1 \in S
    PROVE  0 .. N \subseteq S
<1> DEFINE T == {n \in Nat : n <= N => n \in S}
<1>1. 0 \in T
  OBVIOUS
<1>2. \A n \in Nat : n \in T => n + 1 \in T
  OBVIOUS
<1> HIDE DEF T
<1>3. Nat \subseteq T
  BY <1>1, <1>2, Induct
<1> QED
  BY <1>3 DEF T

(* A non-empty set of natural numbers with a bound has a greatest element. *)
LEMMA Greatest ==
    ASSUME NEW N \in Nat, NEW S, S \subseteq 0 .. N, S # {}
    PROVE  \E m \in S : \A n \in S : n <= m
<1> DEFINE T == {b \in Nat : \A n \in S : n <= b}
<1>1. N \in T
  OBVIOUS
<1>2. PICK b \in T : \A n \in T : b <= n
  BY <1>1, Least
<1>3. b \in S
  <2> SUFFICES ASSUME b \notin S PROVE FALSE
    OBVIOUS
  <2>1. PICK s \in S : TRUE
    OBVIOUS
  <2>2. b - 1 \in Nat
    BY <2>1
  <2>3. b - 1 \in T
    BY <2>2
  <2> QED
    BY <1>2, <2>3
<1> QED
  BY <1>3

LEMMA MinOf ==
    ASSUME NEW S, S \subseteq Nat, S # {}
    PROVE  Min(S) \in S /\ \A n \in S : Min(S) <= n
<1>1. PICK m \in S : \A n \in S : m <= n
  BY Least
<1> QED
  BY <1>1 DEF Min

LEMMA MaxOf ==
    ASSUME NEW N \in Nat, NEW S, S \subseteq 0 .. N, S # {}
    PROVE  Max(S) \in S /\ \A n \in S : n <= Max(S)
<1>1. PICK m \in S : \A n \in S : n <= m
  BY Greatest
<1>2. \A n \in S : m >= n
  BY <1>1
<1>3. Max(S) \in S /\ \A n \in S : Max(S) >= n
  BY <1>2 DEF Max
<1> QED
  BY <1>3

LEMMA MaxInterval ==
    ASSUME NEW n \in Nat \ {0}
    PROVE  Max(1 .. n) = n /\ (1 .. n) \ {n} = 1 .. n - 1
<1>1. PICK S : S = 1 .. n
  OBVIOUS
<1>2. S \subseteq 0 .. n /\ S # {}
  BY <1>1
<1>3. Max(S) \in S /\ \A m \in S : m <= Max(S)
  BY <1>2, MaxOf
<1>4. n \in S /\ \A m \in S : m <= n
  BY <1>1
<1>5. Max(S) = n
  <2>1. PICK m : m = Max(S)
    OBVIOUS
  <2>2. m \in S /\ n <= m /\ m <= n
    BY <1>3, <1>4, <2>1
  <2>3. m \in Nat
    BY <1>1, <2>2
  <2> QED
    BY <2>1, <2>2, <2>3
<1> QED
  BY <1>1, <1>5

LEMMA BoundedIsSeq ==
    ASSUME NEW S, NEW m \in Nat
    PROVE  BoundedSeq(S, m) \subseteq Seq(S)
  BY DEF BoundedSeq, SeqOf

(* iter is the recursive function that FoldLeft chooses, for the function op *)
(* and the first n elements of s.                                            *)
FoldsTo(iter, op, base, s, n) ==
    \A S \in SUBSET (1 .. n) :
        iter[S] = IF S = {} THEN base ELSE op[iter[S \ {Max(S)}], s[Max(S)]]

Folds(iter, op, base, s) == FoldsTo(iter, op, base, s, Len(s))

(* It exists.                                                                *)
LEMMA FoldExists ==
    ASSUME NEW T, NEW s \in Seq(T),
           NEW A, NEW base \in A, NEW op \in [A \X T -> A]
    PROVE  \E iter \in [SUBSET DOMAIN s -> A] : Folds(iter, op, base, s)
<1> DEFINE N == Len(s)
<1> DEFINE Done == {n \in 0 .. N :
               \E iter \in [SUBSET (1 .. n) -> A] : FoldsTo(iter, op, base, s, n)}
<1>0. N \in Nat /\ DOMAIN s = 1 .. N
  OBVIOUS
<1>1. 0 \in Done
  <2> DEFINE iter == [S \in SUBSET (1 .. 0) |-> base]
  <2>1. 1 .. 0 = {}
    OBVIOUS
  <2>2. iter \in [SUBSET (1 .. 0) -> A] /\ FoldsTo(iter, op, base, s, 0)
    BY <2>1 DEF FoldsTo
  <2>3. 0 \in 0 .. N
    BY <1>0
  <2> HIDE DEF iter
  <2> QED
    BY <2>2, <2>3
<1>2. ASSUME NEW n \in 0 .. N - 1, n \in Done PROVE n + 1 \in Done
  <2>1. PICK iter \in [SUBSET (1 .. n) -> A] : FoldsTo(iter, op, base, s, n)
    BY <1>2
  <2> DEFINE next == [S \in SUBSET (1 .. n + 1) |->
                 IF n + 1 \in S THEN op[iter[S \ {n + 1}], s[n + 1]] ELSE iter[S]]
  <2>2. s[n + 1] \in T
    OBVIOUS
  <2>3. \A S \in SUBSET (1 .. n + 1) : S \ {n + 1} \in SUBSET (1 .. n)
    OBVIOUS
  <2>4. next \in [SUBSET (1 .. n + 1) -> A]
    <3> SUFFICES ASSUME NEW S \in SUBSET (1 .. n + 1) PROVE next[S] \in A
      OBVIOUS
    <3>1. CASE n + 1 \in S
      <4>1. iter[S \ {n + 1}] \in A
        BY <2>3
      <4> QED
        BY <4>1, <3>1, <2>2
    <3>2. CASE n + 1 \notin S
      <4>1. S \in SUBSET (1 .. n)
        BY <3>2
      <4> QED
        BY <4>1, <3>2
    <3> QED
      BY <3>1, <3>2
  <2>5. ASSUME NEW S \in SUBSET (1 .. n + 1)
        PROVE  next[S] = IF S = {} THEN base ELSE op[next[S \ {Max(S)}], s[Max(S)]]
    <3>1. CASE n + 1 \in S
      <4>1. Max(S) \in S /\ \A m \in S : m <= Max(S)
        <5>1. S \subseteq 0 .. n + 1 /\ S # {} /\ n + 1 \in Nat
          BY <3>1
        <5> QED
          BY <5>1, MaxOf
      <4>2. Max(S) = n + 1
        <5>1. Max(S) \in 1 .. n + 1 /\ n + 1 <= Max(S)
          BY <4>1, <3>1
        <5> QED
          BY <5>1
      <4>3. next[S \ {n + 1}] = iter[S \ {n + 1}]
        BY <2>3
      <4> QED
        BY <4>2, <4>3, <3>1
    <3>2. CASE n + 1 \notin S /\ S # {}
      <4>1. S \in SUBSET (1 .. n)
        BY <3>2
      <4>2. Max(S) \in S
        <5>1. S \subseteq 0 .. n /\ n \in Nat
          BY <4>1
        <5> QED
          BY <5>1, <3>2, MaxOf
      <4>3. next[S] = iter[S]
        BY <3>2
      <4>4. S \ {Max(S)} \in SUBSET (1 .. n + 1) /\ n + 1 \notin S \ {Max(S)}
        BY <3>2
      <4>5. next[S \ {Max(S)}] = iter[S \ {Max(S)}]
        BY <4>4
      <4> HIDE DEF next
      <4> QED
        BY <4>1, <4>3, <4>5, <2>1, <3>2 DEF FoldsTo
    <3>3. CASE S = {}
      <4>1. next[S] = iter[S] /\ S \in SUBSET (1 .. n)
        BY <3>3
      <4> HIDE DEF next
      <4> QED
        BY <4>1, <2>1, <3>3 DEF FoldsTo
    <3> QED
      BY <3>1, <3>2, <3>3
  <2>6. FoldsTo(next, op, base, s, n + 1)
    BY <2>5 DEF FoldsTo
  <2> HIDE DEF next
  <2> QED
    BY <2>4, <2>6
<1> HIDE DEF Done
<1>3. N \in Done
  <2>1. 0 .. N \subseteq Done
    BY <1>0, <1>1, <1>2, InductTo
  <2> QED
    BY <1>0, <2>1
<1> QED
  BY <1>0, <1>3 DEF Done, Folds

(* The values a fold passes through. *)
StepsOf(G, fold, op, base, s, A) ==
    /\ G \in [0 .. Len(s) -> A]
    /\ G[0] = base
    /\ \A n \in 1 .. Len(s) : G[n] = op[G[n - 1], s[n]]
    /\ fold[DOMAIN s] = G[Len(s)]

(* fold behaves like the function FoldLeft chooses, as long as it stays in A. *)
FoldsWithin(fold, op, base, s, A) ==
    /\ fold[{}] = base
    /\ \A S \in SUBSET DOMAIN s :
          S # {} /\ fold[S \ {Max(S)}] \in A =>
              fold[S] = op[fold[S \ {Max(S)}], s[Max(S)]]

LEMMA FoldSteps ==
    ASSUME NEW T, NEW s \in Seq(T),
           NEW A, NEW base \in A, NEW op \in [A \X T -> A],
           NEW fold, FoldsWithin(fold, op, base, s, A)
    PROVE  \E G : StepsOf(G, fold, op, base, s, A)
<1> DEFINE N == Len(s)
           G == [n \in 0 .. N |-> fold[1 .. n]]
           R == {n \in 0 .. N : G[n] \in A /\ (n # 0 => G[n] = op[G[n - 1], s[n]])}
<1>1. N \in Nat /\ DOMAIN s = 1 .. N /\ \A n \in 1 .. N : s[n] \in T
  OBVIOUS
<1>2. G[0] = base /\ 0 \in 0 .. N
  <2>1. 1 .. 0 = {} /\ 0 \in 0 .. N
    BY <1>1
  <2> QED
    BY <2>1 DEF FoldsWithin
<1>3. 0 \in R
  <2> HIDE DEF G
  <2> QED
    BY <1>2
<1>4. ASSUME NEW n \in 0 .. N - 1, n \in R PROVE n + 1 \in R
  <2>1. n + 1 \in Nat \ {0} /\ n + 1 \in 1 .. N /\ n + 1 \in 0 .. N /\ (n + 1) - 1 = n
        /\ n \in 0 .. N
    BY <1>1
  <2>2. Max(1 .. n + 1) = n + 1 /\ (1 .. n + 1) \ {n + 1} = 1 .. n
    <3>1. \A m \in Nat \ {0} : Max(1 .. m) = m /\ (1 .. m) \ {m} = 1 .. m - 1
      BY MaxInterval
    <3> QED
      BY <2>1, <3>1
  <2>3. G[n] = fold[1 .. n] /\ G[n + 1] = fold[1 .. n + 1]
    BY <2>1
  <2>4. 1 .. n + 1 \in SUBSET DOMAIN s /\ 1 .. n + 1 # {}
    BY <1>1, <2>1
  <2> HIDE DEF G, N
  <2>5. G[n] \in A
    BY <1>4
  <2>6. G[n + 1] = op[G[n], s[n + 1]]
    BY <2>2, <2>3, <2>4, <2>5 DEF FoldsWithin
  <2>7. G[n + 1] \in A
    BY <1>1, <2>1, <2>5, <2>6
  <2> QED
    BY <2>1, <2>6, <2>7
<1>5. 0 .. N \subseteq R
  <2> HIDE DEF R, N
  <2> QED
    BY <1>1, <1>3, <1>4, InductTo
<1>6. fold[DOMAIN s] = G[Len(s)]
  BY <1>1
<1>7. StepsOf(G, fold, op, base, s, A)
  <2>1. G = [n \in 0 .. N |-> G[n]]
    OBVIOUS
  <2> HIDE DEF G
  <2>2. G \in [0 .. N -> A]
    BY <1>5, <2>1
  <2>3. \A n \in 1 .. N : n \in 0 .. N /\ n # 0
    BY <1>1
  <2> QED
    BY <1>2, <1>5, <1>6, <2>2, <2>3 DEF StepsOf
<1> HIDE DEF G
<1> QED
  BY <1>7

=============================================================================
