--------------------------- MODULE EventSinkProofs ---------------------------
(***************************************************************************)
(* EventSink keeps the promise of AuditLog, for any events and any number  *)
(* of faults and crashes, and what GET /export/jsonl makes of its file.    *)
(***************************************************************************)
EXTENDS Export, FoldLemmas, FiniteSetTheorems

LEMMA InitTyped == Init => TypeOK
<1> SUFFICES ASSUME Init PROVE TypeOK
  OBVIOUS
<1>1. log \in Seq([ev : EventIds, part : Part])
  BY DEF Init
<1>2. faults \in 0 .. MaxFaults
  BY FaultAssumption DEF Init
<1>3. isNew \in BOOLEAN
  BY DEF Init
<1> QED
  BY <1>1, <1>2, <1>3 DEF Init, TypeOK

LEMMA TypePreserved == TypeOK /\ [Next]_vars => TypeOK'
<1> SUFFICES ASSUME TypeOK, [Next]_vars PROVE TypeOK'
  OBVIOUS
<1> USE DEF TypeOK
<1>1. ASSUME NEW p \in Part
      PROVE  Append(log, Chunk(cur, p)) \in Seq([ev : EventIds, part : Part])
  BY DEF Chunk
<1>2. ASSUME AppendInterrupted
      PROVE  log' \in Seq([ev : EventIds, part : Part])
  BY <1>1, <1>2 DEF AppendInterrupted
<1>3. ASSUME Fault PROVE faults' \in 0 .. MaxFaults
  BY <1>3, FaultAssumption DEF Fault
<1>4. ASSUME NEW e \in EventIds, Call(e) PROVE TypeOK'
  BY <1>4 DEF Call
<1>5. CASE InsertRow
  BY <1>5 DEF InsertRow
<1>6. CASE InsertFails
  BY <1>3, <1>6 DEF InsertFails
<1>7. CASE CommitRow
  BY <1>7 DEF CommitRow
<1>8. CASE CommitFails
  BY <1>3, <1>8 DEF CommitFails
<1>9. CASE AppendLine
  BY <1>1, <1>9 DEF AppendLine, Part
<1>10. CASE AppendFails
  BY <1>2, <1>3, <1>10 DEF AppendFails
<1>11. CASE OtherCommit
  BY <1>11 DEF OtherCommit
<1>12. CASE Crash
  BY <1>2, <1>3, <1>12 DEF Crash
<1>13. CASE UNCHANGED vars
  BY <1>13 DEF vars
<1> QED
  BY <1>4, <1>5, <1>6, <1>7, <1>8, <1>9, <1>10, <1>11, <1>12, <1>13 DEF Next

(* The variables keep their types, and a malformed event is never recorded.  *)
THEOREM TypeCorrect == Spec => []TypeOK
  BY InitTyped, TypePreserved, PTL DEF Spec

-----------------------------------------------------------------------------
(* What appending a chunk does to the log. *)
LEMMA AppendChunk ==
    ASSUME NEW S, NEW l \in Seq(S), NEW x \in S
    PROVE  /\ DOMAIN Append(l, x) = DOMAIN l \cup {Len(l) + 1}
           /\ \A i \in DOMAIN l : Append(l, x)[i] = l[i]
           /\ Append(l, x)[Len(l) + 1] = x
           /\ Len(l) + 1 \notin DOMAIN l
  OBVIOUS

IInv == TypeOK /\ Gate /\ WrittenOnce

(* An append of a chunk of cur to a file that has none keeps it at one per   *)
(* event, all of them of durable rows.                                       *)
LEMMA AppendKeepsOnce ==
    ASSUME IInv, pc = "append", AppendInterrupted
    PROVE  /\ \A i \in DOMAIN log' : log'[i].ev \in durable
           /\ WrittenOnce'
<1> USE DEF IInv, TypeOK, Gate, WrittenOnce, Written
<1>1. CASE log' = log
  BY <1>1
<1>2. ASSUME NEW p \in Part, log' = Append(log, Chunk(cur, p))
      PROVE  /\ \A i \in DOMAIN log' : log'[i].ev \in durable
             /\ WrittenOnce'
  <2>1. Chunk(cur, p) \in [ev : EventIds, part : Part] /\ Chunk(cur, p).ev = cur
    BY DEF Chunk
  <2>2. /\ DOMAIN log' = DOMAIN log \cup {Len(log) + 1}
        /\ \A i \in DOMAIN log : log'[i] = log[i]
        /\ log'[Len(log) + 1].ev = cur
        /\ Len(log) + 1 \notin DOMAIN log
    BY <1>2, <2>1, AppendChunk
  <2>3. \A i \in DOMAIN log : log[i].ev # cur
    OBVIOUS
  <2> QED
    BY <2>2, <2>3
<1> QED
  BY <1>1, <1>2 DEF AppendInterrupted

LEMMA Inductive == IInv /\ [Next]_vars => IInv'
<1> SUFFICES ASSUME IInv, [Next]_vars, TypeOK' PROVE IInv'
  BY TypePreserved DEF IInv
<1> USE DEF IInv, Gate, WrittenOnce, Written
<1>1. ASSUME NEW e \in EventIds, Call(e) PROVE IInv'
  BY <1>1 DEF Call
<1>2. CASE InsertRow
  BY <1>2 DEF InsertRow, TypeOK
<1>3. CASE InsertFails
  BY <1>3 DEF InsertFails
<1>4. CASE CommitRow
  BY <1>4 DEF CommitRow, TypeOK
<1>5. CASE CommitFails
  BY <1>5 DEF CommitFails
<1>6. CASE AppendLine
  <2>1. AppendInterrupted
    BY <1>6 DEF AppendLine, AppendInterrupted, Part
  <2> QED
    BY <1>6, <2>1, AppendKeepsOnce DEF AppendLine
<1>7. CASE AppendFails
  BY <1>7, AppendKeepsOnce DEF AppendFails
<1>8. CASE OtherCommit
  BY <1>8 DEF OtherCommit
<1>9. CASE Crash
  <2>1. CASE pc = "append"
    BY <1>9, <2>1, AppendKeepsOnce DEF Crash
  <2>2. CASE pc # "append"
    BY <1>9, <2>2 DEF Crash
  <2> QED
    BY <2>1, <2>2
<1>10. CASE UNCHANGED vars
  BY <1>10 DEF vars
<1> QED
  BY <1>1, <1>2, <1>3, <1>4, <1>5, <1>6, <1>7, <1>8, <1>9, <1>10 DEF Next

LEMMA Invariant == Spec => []IInv
<1>1. Init => IInv
  BY InitTyped DEF Init, IInv, Gate, WrittenOnce, Written
<1> QED
  BY <1>1, Inductive, PTL DEF Spec

(* An event has at most one line in the file, and a part of a line is never  *)
(* followed by the line: a fault can lose a line but no retry doubles one.   *)
THEOREM LinesUnique == Spec => []WrittenOnce
<1>1. IInv => WrittenOnce
  BY DEF IInv
<1> QED
  BY <1>1, Invariant, PTL

(* The gate: what is in the file, and what was acknowledged, is committed.   *)
THEOREM FileBehindTable == Spec => []Gate
<1>1. IInv => Gate
  BY DEF IInv
<1> QED
  BY <1>1, Invariant, PTL

-----------------------------------------------------------------------------
(* An append of a chunk of cur, acknowledged or not, is a Publish(cur) of    *)
(* the abstract log.                                                         *)
LEMMA AppendPublishes ==
    ASSUME IInv, pc = "append", UNCHANGED durable,
           NEW p \in Part, log' = Append(log, Chunk(cur, p)),
           NEW ack \in BOOLEAN, ack => p = "all",
           acked' = IF ack THEN acked \cup {cur} ELSE acked
    PROVE  Abstract!Next
<1>1. cur \in EventIds
  BY DEF IInv, TypeOK
<1>2. Abstract!Publish(cur)
  BY DEF Abstract!Publish, Abstract!InFile, Abstract!Part, Part, IInv, Gate, Written, Chunk
<1> QED
  BY <1>1, <1>2 DEF Abstract!Next

LEMMA InterruptedPublishes ==
    ASSUME IInv, pc = "append", AppendInterrupted, UNCHANGED <<durable, acked>>
    PROVE  [Abstract!Next]_(Abstract!auditVars)
<1>1. CASE UNCHANGED log
  BY <1>1 DEF Abstract!auditVars
<1>2. ASSUME NEW p \in Part, log' = Append(log, Chunk(cur, p))
      PROVE  Abstract!Next
  <2>1. FALSE => p = "all"
    OBVIOUS
  <2>2. acked' = IF FALSE THEN acked \cup {cur} ELSE acked
    OBVIOUS
  <2> QED
    BY <1>2, <2>1, <2>2, AppendPublishes
<1> QED
  BY <1>1, <1>2 DEF AppendInterrupted

(* Whatever is flushed by a commit was in the connection's view.             *)
LEMMA CommitRecords ==
    ASSUME IInv, durable' = rows, UNCHANGED <<log, acked>>
    PROVE  Abstract!Next
<1>1. rows \in SUBSET EventIds /\ durable' = durable \cup rows
  BY DEF IInv, TypeOK, Gate
<1> QED
  BY <1>1 DEF Abstract!Next, Abstract!Record

(* write_event with its swallowed faults and crashes implements AuditLog:    *)
(* the table and the file of the code are those of the abstract log.         *)
THEOREM Refinement == Spec => ImplementsAuditLog
<1>1. Init => Abstract!Init
  BY DEF Init, Abstract!Init
<1>2. IInv /\ [Next]_vars => [Abstract!Next]_(Abstract!auditVars)
  <2> SUFFICES ASSUME IInv, [Next]_vars PROVE [Abstract!Next]_(Abstract!auditVars)
    OBVIOUS
  <2> USE DEF Abstract!auditVars
  <2>1. ASSUME NEW e \in EventIds, Call(e) PROVE UNCHANGED Abstract!auditVars
    BY <2>1 DEF Call
  <2>2. CASE InsertRow \/ InsertFails \/ CommitFails
    BY <2>2 DEF InsertRow, InsertFails, CommitFails
  <2>3. CASE CommitRow \/ OtherCommit
    BY <2>3, CommitRecords DEF CommitRow, OtherCommit
  <2>4. CASE AppendLine
    <3>1. "all" \in Part /\ acked' = IF TRUE THEN acked \cup {cur} ELSE acked
      BY <2>4 DEF AppendLine, Part
    <3> QED
      BY <2>4, <3>1, AppendPublishes DEF AppendLine
  <2>5. CASE AppendFails
    BY <2>5, InterruptedPublishes DEF AppendFails
  <2>6. CASE Crash
    <3>1. CASE pc = "append"
      BY <2>6, <3>1, InterruptedPublishes DEF Crash
    <3>2. CASE pc # "append"
      BY <2>6, <3>2 DEF Crash
    <3> QED
      BY <3>1, <3>2
  <2>7. CASE UNCHANGED vars
    BY <2>7 DEF vars
  <2> QED
    BY <2>1, <2>2, <2>3, <2>4, <2>5, <2>6, <2>7 DEF Next
<1> QED
  BY <1>1, <1>2, Invariant, PTL DEF Spec, ImplementsAuditLog, Abstract!Spec

-----------------------------------------------------------------------------
(* The file as an export reads it *)

(* An acknowledged event has a whole line's chunk in the file. *)
Whole == \A e \in acked : \E i \in DOMAIN log : log[i] = Chunk(e, "all")

LEMMA LogGrows ==
    ASSUME TypeOK, [Next]_vars
    PROVE  /\ DOMAIN log \subseteq DOMAIN log'
           /\ \A i \in DOMAIN log : log'[i] = log[i]
<1>1. ASSUME NEW p \in Part, log' = Append(log, Chunk(cur, p))
      PROVE  /\ DOMAIN log \subseteq DOMAIN log'
             /\ \A i \in DOMAIN log : log'[i] = log[i]
  <2>1. log \in Seq([ev : EventIds, part : Part]) /\ Chunk(cur, p) \in [ev : EventIds, part : Part]
    BY DEF TypeOK, Chunk
  <2> QED
    BY <1>1, <2>1, AppendChunk
<1>2. CASE AppendInterrupted
  BY <1>1, <1>2 DEF AppendInterrupted
<1>3. CASE AppendLine
  BY <1>1, <1>3 DEF AppendLine, Part
<1>4. CASE log' = log
  BY <1>4
<1> QED
  BY <1>2, <1>3, <1>4
     DEF Next, Call, InsertRow, InsertFails, CommitRow, CommitFails, AppendFails, OtherCommit, Crash, vars

LEMMA WholePreserved == TypeOK /\ Whole /\ [Next]_vars => Whole'
<1> SUFFICES ASSUME TypeOK, Whole, [Next]_vars, NEW e \in acked'
             PROVE  \E i \in DOMAIN log' : log'[i] = Chunk(e, "all")
  BY DEF Whole, Chunk
<1>1. DOMAIN log \subseteq DOMAIN log' /\ \A i \in DOMAIN log : log'[i] = log[i]
  BY LogGrows
<1>2. CASE e \in acked
  BY <1>1, <1>2 DEF Whole
<1>3. CASE e \notin acked
  <2>1. AppendLine /\ e = cur
    BY <1>3 DEF Next, Call, InsertRow, InsertFails, CommitRow, CommitFails, AppendLine, AppendFails,
                OtherCommit, Crash, vars
  <2>2. log \in Seq([ev : EventIds, part : Part]) /\ Chunk(cur, "all") \in [ev : EventIds, part : Part]
    BY DEF TypeOK, Chunk, Part
  <2>3. log' = Append(log, Chunk(cur, "all"))
    BY <2>1 DEF AppendLine
  <2>4. Len(log) + 1 \in DOMAIN log' /\ log'[Len(log) + 1] = Chunk(cur, "all")
    BY <2>2, <2>3, AppendChunk
  <2> QED
    BY <2>1, <2>4
<1> QED
  BY <1>2, <1>3

LEMMA AlwaysWhole == Spec => []Whole
<1>1. Init => Whole
  BY DEF Init, Whole
<1>2. IInv => TypeOK
  BY DEF IInv
<1> QED
  BY <1>1, <1>2, Invariant, WholePreserved, PTL DEF Spec

(* A whole chunk at the start of a line is a line that parses. *)
WholeParse == \A i \in Starts : log[i].part = "all" => i \in Redacted

LEMMA WholeLineParses == TypeOK => WholeParse
<1> SUFFICES ASSUME TypeOK, NEW i \in Starts, log[i].part = "all" PROVE i \in Redacted
  BY DEF WholeParse
<1>1. PICK N \in Nat : N = Len(log)
  BY DEF TypeOK
<1>2. i \in 1 .. N /\ DOMAIN log = 1 .. N /\ log \in Seq([ev : EventIds, part : Part])
  BY <1>1 DEF TypeOK, Starts
<1>3. LineAt(i) = SubSeq(log, i, i)
  <2> DEFINE later == {j \in Starts : j > i}
  <2>1. CASE i = N
    <3>1. later = {}
      BY <1>2, <2>1 DEF Starts
    <3> QED
      BY <1>1, <2>1, <3>1 DEF LineAt
  <2>2. CASE i # N
    <3>1. i + 1 \in later
      BY <1>2, <2>2 DEF Starts
    <3>2. later \subseteq Nat
      BY <1>2 DEF Starts
    <3>3. later # {} /\ Min(later) \in later /\ Min(later) <= i + 1
      <4> HIDE DEF later
      <4> QED
        BY <3>1, <3>2, MinOf
    <3>4. Min(later) - 1 = i
      BY <1>2, <3>2, <3>3
    <3> QED
      BY <3>3, <3>4 DEF LineAt
  <2> QED
    BY <2>1, <2>2
<1>4. Len(SubSeq(log, i, i)) = 1 /\ SubSeq(log, i, i)[1] = log[i]
  BY <1>1, <1>2
<1> QED
  BY <1>3, <1>4 DEF Redacted, Parses

(* What an acknowledged event needs to be exported is that its line starts one. *)
LEMMA MissingFollowsTorn ==
    ASSUME TypeOK, Whole, ~Undecodable, NEW e \in acked, ~Exported(e)
    PROVE  \E i \in DOMAIN log : log[i] = Chunk(e, "all") /\ i - 1 \in Torn
<1>1. PICK i \in DOMAIN log : log[i] = Chunk(e, "all")
  BY DEF Whole
<1>2. log[i].part = "all" /\ log[i].ev = e
  BY <1>1 DEF Chunk
<1>3. i \notin Starts
  BY <1>2, WholeLineParses DEF Exported, WholeParse
<1>4. i # 1 /\ log[i - 1].part # "all" /\ i - 1 \in DOMAIN log
  BY <1>3 DEF Starts, TypeOK
<1> QED
  BY <1>1, <1>4 DEF Torn

(* What GET /export/jsonl?mode=redacted loses: no more acknowledged events   *)
(* than appends of _append_jsonl were torn, as long as the file decodes.     *)
THEOREM ExportLossBounded == Spec => []LossBounded
<1>1. IInv /\ Whole => LossBounded
  <2> SUFFICES ASSUME IInv, Whole, ~Undecodable
               PROVE  Cardinality({e \in acked : ~Exported(e)}) <= Cardinality(Torn)
    BY DEF LossBounded
  <2> DEFINE Missing == {e \in acked : ~Exported(e)}
             place == [e \in Missing |-> CHOOSE i \in DOMAIN log : log[i] = Chunk(e, "all") /\ i - 1 \in Torn]
             before == [e \in Missing |-> place[e] - 1]
  <2>1. TypeOK
    BY DEF IInv
  <2>2. ASSUME NEW e \in Missing
        PROVE  place[e] \in DOMAIN log /\ log[place[e]] = Chunk(e, "all") /\ before[e] \in Torn
    <3>1. \E i \in DOMAIN log : log[i] = Chunk(e, "all") /\ i - 1 \in Torn
      BY <2>1, MissingFollowsTorn
    <3> QED
      BY <3>1
  <2>3. ASSUME NEW d \in Missing, NEW e \in Missing, before[d] = before[e] PROVE d = e
    <3>1. place[d] = place[e]
      <4>1. place[d] - 1 = place[e] - 1
        BY <2>3
      <4> HIDE DEF place, Missing, before
      <4>2. \A n \in DOMAIN log : n \in Int
        BY <2>1 DEF TypeOK
      <4>3. place[d] \in Int /\ place[e] \in Int
        BY <2>2, <4>2
      <4> QED
        BY <4>1, <4>3
    <3>2. Chunk(d, "all") = Chunk(e, "all")
      BY <2>2, <3>1
    <3> QED
      BY <3>2 DEF Chunk
  <2>4. before \in [Missing -> Torn]
    BY <2>2
  <2> HIDE DEF before
  <2>5. before \in Injection(Missing, Torn)
    BY <2>3, <2>4 DEF Injection, IsInjective
  <2>6. IsFiniteSet(Torn)
    <3>1. PICK N \in Nat : N = Len(log)
      BY <2>1 DEF TypeOK
    <3>2. Torn \in SUBSET (1 .. N)
      BY <2>1, <3>1 DEF Torn, TypeOK
    <3>3. IsFiniteSet(1 .. N)
      BY FS_Interval
    <3> QED
      BY <3>2, <3>3, FS_Subset
  <2> HIDE DEF Missing
  <2>7. Cardinality(Missing) <= Cardinality(Torn)
    BY <2>5, <2>6, FS_Injection
  <2> QED
    BY <2>7 DEF Missing
<1> QED
  BY <1>1, Invariant, AlwaysWhole, PTL

(* An acknowledged event that an export has shown is in every later one that *)
(* decodes, whatever append fails or is cut off in between.                  *)
THEOREM ExportKeepsWhatItShowed == Spec => ExportsGrow
<1>1. IInv /\ Whole /\ IInv' /\ [Next]_vars =>
          [\A e \in acked : Exported(e) => Exported(e)' \/ Undecodable']_vars
  <2> SUFFICES ASSUME IInv, Whole, IInv', [Next]_vars, NEW e \in acked, Exported(e), ~Undecodable'
               PROVE  Exported(e)'
    OBVIOUS
  <2>1. PICK i \in Redacted : log[i].ev = e
    BY DEF Exported
  <2>2. PICK j \in DOMAIN log : log[j] = Chunk(e, "all")
    BY DEF Whole
  <2>3. i \in Starts /\ i \in DOMAIN log
    BY DEF Redacted, Starts
  <2>4. i = j
    BY <2>1, <2>2, <2>3 DEF IInv, WrittenOnce, Chunk
  <2>5. log[i].part = "all"
    BY <2>2, <2>4 DEF Chunk
  <2>6. DOMAIN log \subseteq DOMAIN log' /\ \A n \in DOMAIN log : log'[n] = log[n]
    BY LogGrows DEF IInv
  <2>7. i \in Starts'
    <3>1. i = 1 \/ (i - 1 \in DOMAIN log /\ log[i - 1].part = "all")
      BY <2>3 DEF Starts, IInv, TypeOK
    <3> QED
      BY <2>3, <2>6, <3>1 DEF Starts
  <2>8. log'[i].part = "all" /\ log'[i].ev = e
    BY <2>1, <2>3, <2>5, <2>6
  <2>9. (TypeOK => WholeParse)'
    BY WholeLineParses, PTL
  <2>10. i \in Redacted'
    BY <2>7, <2>8, <2>9 DEF IInv, WholeParse
  <2> QED
    BY <2>8, <2>10 DEF Exported
<1>2. Spec => [][Next]_vars
  BY DEF Spec
<1> QED
  BY <1>1, <1>2, Invariant, AlwaysWhole, PTL DEF ExportsGrow

=============================================================================
