--------------------------- MODULE CaptureProofs ---------------------------
(***************************************************************************)
(* Proofs about Capture, for all caps, lengths and numbers of lines.       *)
(*                                                                         *)
(* NothingLost speaks of the response; why it holds is where the lines are *)
(* before it.  With a working disk they are in memory until the cap is     *)
(* crossed, and in the file from then on: a stream that has crossed its    *)
(* cap is longer than it, so no later line fits, and none comes to rest in *)
(* memory behind those in the file.                                        *)
(***************************************************************************)
EXTENDS Capture, SequenceTheorems, FiniteSetTheorems, TLAPS

USE CapsAssumption, LengthsAssumption, BoundAssumption, NoFileAssumption

\* A stream that spilled is longer than its cap.
Crossed == spilled => max > 0 /\ bytes > max

\* Where the lines are, with a disk that did as asked.
Placed ==
  disk = "ok" =>
    IF spilled THEN file = all /\ buf = <<>> ELSE file = NoFile /\ buf = all

\* Until the cap is crossed every line is kept and sent on, and there is no file; what
\* was sent on stays within the cap.
Within ==
  /\ bytes = Size(all)
  /\ ~spilled => file = NoFile /\ buf = all /\ sent = all /\ (max = 0 \/ bytes <= max)
  /\ max > 0 => Size(sent) <= max

\* The response is what RunRequest chose, of a stream that has ended since.
Chosen == answer # Pending => answer = Response

IInv == TypeOK /\ Crossed /\ Placed /\ Within /\ Chosen

-----------------------------------------------------------------------------

(***************************************************************************)
(* Sums                                                                    *)
(***************************************************************************)

\* What Total counts.
Cells(lengths) == UNION {{i} \X (1..lengths[i]) : i \in DOMAIN lengths}

LEMMA RowOf ==
  ASSUME NEW x, NEW k \in Nat
  PROVE  IsFiniteSet({x} \X (1..k)) /\ Cardinality({x} \X (1..k)) = k
<1>1. IsFiniteSet({x}) /\ Cardinality({x}) = 1
  BY FS_Singleton
<1>2. IsFiniteSet(1..k)
  BY FS_Interval
<1>3. Cardinality(1..k) = k
  <2>1. Cardinality(1..k) = IF 1 > k THEN 0 ELSE k - 1 + 1
    BY FS_Interval
  <2> QED BY <2>1
<1>4. /\ IsFiniteSet({x} \X (1..k))
      /\ Cardinality({x} \X (1..k)) = Cardinality({x}) * Cardinality(1..k)
  BY <1>1, <1>2, FS_Product
<1> QED BY <1>1, <1>3, <1>4

LEMMA CellsFinite ==
  ASSUME NEW m \in Nat, NEW f \in [1..m -> Nat]
  PROVE  IsFiniteSet(Cells(f)) /\ Total(f) \in Nat
<1> DEFINE row == [i \in 1..m |-> {i} \X (1..f[i])]
           rows == {row[i] : i \in 1..m}
<1>1. IsFiniteSet(1..m)
  BY FS_Interval
<1>2. row \in Surjection(1..m, rows)
  BY DEF Surjection
<1>3. IsFiniteSet(rows)
  BY <1>1, <1>2, FS_Surjection
<1>4. \A T \in rows : IsFiniteSet(T)
  <2>1. ASSUME NEW i \in 1..m PROVE IsFiniteSet({i} \X (1..f[i]))
    BY RowOf
  <2> QED BY <2>1
<1>5. Cells(f) = UNION rows
  BY DEF Cells
<1> HIDE DEF rows
<1>6. IsFiniteSet(Cells(f))
  BY <1>3, <1>4, <1>5, FS_UNION
<1> QED BY <1>6, FS_CardinalityType DEF Total, Cells

\* One more length adds to the sum.
LEMMA TotalMore ==
  ASSUME NEW m \in Nat, NEW f \in [1..m -> Nat], NEW g \in [1..(m+1) -> Nat],
         \A i \in 1..m : g[i] = f[i]
  PROVE  Total(g) = Total(f) + g[m + 1]
<1> DEFINE k == g[m + 1]
           new == {m + 1} \X (1..k)
<1>1. k \in Nat
  OBVIOUS
<1>2. IsFiniteSet(new) /\ Cardinality(new) = k
  BY <1>1, RowOf
<1>3. Cells(g) = Cells(f) \cup new
  <2>1. DOMAIN g = DOMAIN f \cup {m + 1} /\ DOMAIN f = 1..m
    OBVIOUS
  <2>2. \A i \in DOMAIN f : {i} \X (1..g[i]) = {i} \X (1..f[i])
    BY <2>1
  <2> QED BY <2>1, <2>2 DEF Cells
<1>4. Cells(f) \cap new = {}
  BY DEF Cells
<1>5. IsFiniteSet(Cells(f)) /\ Total(f) \in Nat
  BY CellsFinite
<1>6. Cardinality(Cells(g)) = Cardinality(Cells(f)) + Cardinality(new) - Cardinality({})
  <2> HIDE DEF new
  <2> QED BY <1>2, <1>3, <1>4, <1>5, FS_Union
<1> HIDE DEF new, k
<1>7. Cardinality(Cells(g)) = Cardinality(Cells(f)) + k
  BY <1>1, <1>2, <1>5, <1>6, FS_EmptySet DEF Total, Cells
<1> QED BY <1>7 DEF Total, Cells, k

\* The size of a stream, line by line.
LEMMA SizeAppend ==
  ASSUME NEW s \in Seq(Nat), NEW n \in Nat
  PROVE  Size(s) \in Nat /\ Size(Append(s, n)) = Size(s) + n + 1
<1> DEFINE m == Len(s)
           t == Append(s, n)
           f == [i \in DOMAIN s |-> s[i] + 1]
           g == [i \in DOMAIN t |-> t[i] + 1]
<1>1. m \in Nat /\ DOMAIN s = 1..m /\ \A i \in 1..m : s[i] \in Nat
  OBVIOUS
<1>2. DOMAIN t = 1..(m + 1) /\ t[m + 1] = n /\ \A i \in 1..m : t[i] = s[i]
  OBVIOUS
<1>3. f \in [1..m -> Nat] /\ g \in [1..(m + 1) -> Nat]
  BY <1>1, <1>2
<1>4. \A i \in 1..m : g[i] = f[i]
  BY <1>1, <1>2
<1>5. g[m + 1] = n + 1
  BY <1>1, <1>2
<1>6. Total(f) \in Nat /\ Total(g) = Total(f) + g[m + 1]
  <2> HIDE DEF m, f, g
  <2> QED BY <1>1, <1>3, <1>4, CellsFinite, TotalMore
<1>7. Total(g) = Total(f) + n + 1
  <2> HIDE DEF f, g, m
  <2> QED BY <1>5, <1>6
<1> QED BY <1>6, <1>7 DEF Size

LEMMA SizeEmpty == Size(<<>>) = 0
<1>1. Cells([i \in DOMAIN <<>> |-> <<>>[i] + 1]) = {}
  BY DEF Cells
<1> QED BY <1>1, FS_EmptySet DEF Size, Total, Cells

-----------------------------------------------------------------------------
(***************************************************************************)
(* The invariant is inductive                                              *)
(***************************************************************************)

LEMMA PendingIsNone == Pending \in Answer /\ Pending.kind = "none"
  BY DEF Pending, Answer

LEMMA InitInv == Init => IInv
<1> SUFFICES ASSUME Init PROVE IInv
  OBVIOUS
<1>1. max \in Nat
  BY DEF Init, Cap
<1>2. <<>> \in LineSeq
  BY DEF LineSeq
<1>3. TypeOK
  BY <1>1, <1>2, PendingIsNone DEF Init, TypeOK
<1> QED BY <1>1, <1>3, SizeEmpty DEF IInv, Init, Crossed, Placed, Within, Chosen

\* Every line moves the stream on, whatever becomes of it.
LEMMA LineType ==
  ASSUME TypeOK, NEW n \in Nat, Line(n), spilled' \in BOOLEAN
  PROVE  /\ all' \in LineSeq /\ sent' \in LineSeq /\ bytes' \in Nat /\ max' \in Nat
         /\ answer' = Pending /\ answer' \in Answer
<1>1. Append(all, n) \in LineSeq /\ Append(sent, n) \in LineSeq
  BY DEF TypeOK, LineSeq
<1> QED BY <1>1, PendingIsNone DEF TypeOK, Line

\* What is counted, and what is sent on of a stream that has spilled.
LEMMA LineCounts ==
  ASSUME TypeOK, Within, NEW n \in Nat, Line(n)
  PROVE  /\ bytes' = Size(all)' /\ bytes' = bytes + n + 1
         /\ spilled' => (max > 0 => Size(sent)' <= max')
<1>1. all \in Seq(Nat) /\ all' = Append(all, n)
  BY DEF TypeOK, LineSeq, Line
<1>2. Size(all') = Size(all) + n + 1
  BY <1>1, SizeAppend
<1> QED BY <1>2 DEF Line, Within

LEMMA KeptStep == ASSUME IInv, NEW n \in Nat, AddKept(n) PROVE IInv'
<1> USE DEF IInv, AddKept
<1>1. Append(buf, n) \in LineSeq
  BY DEF TypeOK, LineSeq
<1>2. spilled' \in BOOLEAN /\ Line(n)
  BY DEF TypeOK
<1>3. TypeOK'
  BY <1>1, <1>2, LineType DEF TypeOK
<1>4. ~spilled
  BY DEF TypeOK, Crossed, Fits
<1>5. Crossed' /\ Chosen'
  BY <1>2, <1>4, LineType DEF Crossed, Chosen
<1>6. Placed'
  BY <1>4 DEF Placed, Line
<1>7. Within'
  <2>1. bytes' = Size(all') /\ bytes' = bytes + n + 1
    BY <1>2, LineCounts
  <2>2. buf' = all' /\ sent' = all' /\ ~spilled' /\ file' = NoFile /\ max' = max
    BY <1>4 DEF Within, Line
  <2>3. max = 0 \/ bytes' <= max
    BY <2>1 DEF Fits, TypeOK
  <2>4. Size(sent') = bytes'
    BY <2>1, <2>2
  <2>5. max' > 0 => Size(sent') <= max'
    BY <2>2, <2>3, <2>4 DEF TypeOK
  <2> QED BY <2>1, <2>2, <2>3, <2>5 DEF Within
<1> QED BY <1>3, <1>5, <1>6, <1>7

LEMMA SpilledWithin ==
  ASSUME TypeOK, Within, NEW n \in Nat, Line(n), spilled' PROVE Within'
<1>1. bytes' = Size(all)' /\ (max > 0 => Size(sent)' <= max') /\ max' = max
  BY LineCounts DEF Line
<1> QED BY <1>1 DEF Within

LEMMA UnspillableStep == ASSUME IInv, NEW n \in Nat, AddUnspillable(n) PROVE IInv'
<1> USE DEF IInv, AddUnspillable
<1>1. Append(buf, n) \in LineSeq
  BY DEF TypeOK, LineSeq
<1>2. spilled' \in BOOLEAN /\ Line(n)
  BY DEF TypeOK
<1>3. TypeOK'
  BY <1>1, <1>2, LineType DEF TypeOK
<1>4. Crossed'
  BY DEF Crossed, Fits, Line, TypeOK
<1>5. Chosen'
  BY <1>2, LineType DEF Chosen
<1>6. disk' # "ok"
  <2>1. spilled /\ file = NoFile => disk # "ok"
    BY DEF Placed, TypeOK, LineSeq
  <2> QED BY <2>1
<1>7. Placed'
  BY <1>6 DEF Placed
<1> QED BY <1>2, <1>3, <1>4, <1>5, <1>7, SpilledWithin

\* The file takes what is in memory and the line: with a disk that did as asked it
\* has the whole stream.
LEMMA SpilledStep == ASSUME IInv, NEW n \in Nat, AddSpilled(n) PROVE IInv'
<1> USE DEF IInv, AddSpilled
<1>1. Opened \in LineSeq /\ Append(buf, n) \in LineSeq
  BY DEF Opened, TypeOK, LineSeq
<1>2. file' \in LineSeq /\ <<>> \in LineSeq
  BY <1>1, ConcatProperties DEF Flushed, LineSeq
<1>3. spilled' \in BOOLEAN /\ Line(n)
  OBVIOUS
<1>4. TypeOK'
  BY <1>2, <1>3, LineType DEF TypeOK
<1>5. Crossed'
  BY DEF Crossed, Fits, Line, TypeOK
<1>6. Chosen'
  BY <1>3, LineType DEF Chosen
<1>7. disk = "ok" => file' = Append(all, n)
  <2>1. CASE spilled /\ disk = "ok"
    <3>1. Opened = all /\ Flushed(n) = Append(<<>>, n) /\ all \in Seq(Nat)
      BY <2>1 DEF Opened, Flushed, Placed, TypeOK, LineSeq
    <3>2. all \o Append(<<>>, n) = Append(all, n)
      BY <3>1
    <3> QED BY <3>1, <3>2
  <2>2. CASE ~spilled /\ disk = "ok"
    <3>1. Opened = <<>> /\ Flushed(n) = Append(all, n)
      BY <2>2 DEF Opened, Flushed, Placed
    <3> QED BY <1>1, <2>2, <3>1, ConcatEmptySeq DEF Placed, LineSeq
  <2> QED BY <2>1, <2>2 DEF TypeOK
<1>8. Placed'
  BY <1>7 DEF Placed, Line
<1> QED BY <1>3, <1>4, <1>5, <1>6, <1>8, SpilledWithin

LEMMA WriteFailsStep == ASSUME IInv, NEW n \in Nat, AddWriteFails(n) PROVE IInv'
<1> USE DEF IInv, AddWriteFails
<1>1. Opened \in LineSeq /\ Append(buf, n) \in LineSeq /\ buf \in LineSeq
  BY DEF Opened, TypeOK, LineSeq
<1>2. PICK k \in 0..Len(buf) : file' = Opened \o SubSeq(Append(buf, n), 1, k)
  OBVIOUS
<1>3. SubSeq(Append(buf, n), 1, k) \in LineSeq
  <2>1. k \in Int /\ \A i \in 1..k : Append(buf, n)[i] \in Nat
    BY <1>1, <1>2 DEF LineSeq
  <2> QED BY <2>1, SubSeqProperties DEF LineSeq
<1>4. file' \in LineSeq /\ <<>> \in LineSeq
  BY <1>1, <1>2, <1>3, ConcatProperties DEF LineSeq
<1>5. spilled' \in BOOLEAN /\ Line(n)
  OBVIOUS
<1>6. TypeOK'
  BY <1>4, <1>5, LineType DEF TypeOK
<1>7. Crossed'
  BY DEF Crossed, Fits, Line, TypeOK
<1>8. Chosen'
  BY <1>5, LineType DEF Chosen
<1>9. Placed'
  BY DEF Placed
<1> QED BY <1>5, <1>6, <1>7, <1>8, <1>9, SpilledWithin

LEMMA EndStep == ASSUME IInv, End PROVE IInv'
<1> USE DEF IInv, End
<1>1. Response \in Answer
  BY DEF Response, Answer, TypeOK
<1>2. TypeOK'
  BY <1>1 DEF TypeOK
<1>3. Response' = Response
  BY DEF Response
<1>4. Chosen'
  BY <1>3 DEF Chosen
<1> QED BY <1>2, <1>4 DEF Crossed, Placed, Within

LEMMA NextInv == IInv /\ [Next]_vars => IInv'
<1> SUFFICES ASSUME IInv, [Next]_vars PROVE IInv'
  OBVIOUS
<1>1. CASE UNCHANGED vars
  BY <1>1 DEF vars, IInv, TypeOK, Crossed, Placed, Within, Chosen, Response
<1>2. ASSUME NEW n \in Lengths,
             AddKept(n) \/ AddUnspillable(n) \/ AddSpilled(n) \/ AddWriteFails(n)
      PROVE IInv'
  <2>1. n \in Nat
    OBVIOUS
  <2> QED BY <1>2, <2>1, KeptStep, UnspillableStep, SpilledStep, WriteFailsStep
<1>3. CASE End
  BY <1>3, EndStep
<1> QED BY <1>1, <1>2, <1>3 DEF Next

-----------------------------------------------------------------------------

\* Every variable of a stream keeps its type. (add, RunRequest)
THEOREM CaptureTypes == Spec => []TypeOK
<1>1. IInv => TypeOK
  BY DEF IInv
<1> QED BY <1>1, InitInv, NextInv, PTL DEF Spec

LEMMA InvLosesNothing == IInv => NothingLost
<1> SUFFICES ASSUME IInv, Answered, disk = "ok"
             PROVE IF answer.kind = "content" THEN answer.body = all ELSE answer.path = all
  BY DEF NothingLost
<1>1. answer = Response
  BY DEF IInv, Chosen, Answered
<1>2. CASE spilled
  <2>1. answer = [kind |-> "notice", path |-> file] /\ file = all
    BY <1>1, <1>2 DEF Response, IInv, Placed
  <2> QED BY <2>1
<1>3. CASE ~spilled
  <2>1. answer = [kind |-> "content", body |-> buf] /\ buf = all
    BY <1>1, <1>3 DEF Response, IInv, Placed
  <2> QED BY <2>1
<1> QED BY <1>2, <1>3 DEF IInv, TypeOK

\* With a working disk the caller can get the whole stream, from its first byte, for
\* every cap and any lines. (add, notice, RunRequest)
THEOREM CallerCanGetAll == Spec => []NothingLost
BY InvLosesNothing, InitInv, NextInv, PTL DEF Spec

LEMMA InvKeepsCap == IInv => Bounded
<1> SUFFICES ASSUME IInv, max > 0
             PROVE  /\ Answered /\ answer.kind = "content" => Size(answer.body) <= max
                    /\ Size(sent) <= max
  BY DEF Bounded
<1>1. Size(sent) <= max
  BY DEF IInv, Within
<1>2. ASSUME Answered, answer.kind = "content" PROVE Size(answer.body) <= max
  <2>1. answer = Response
    BY <1>2 DEF IInv, Chosen, Answered
  <2>2. ~spilled
    BY <1>2, <2>1 DEF Response
  <2>3. answer.body = buf /\ buf = all /\ Size(all) = bytes /\ bytes <= max
    BY <2>1, <2>2 DEF Response, IInv, Within, TypeOK
  <2> QED BY <2>3
<1> QED BY <1>1, <1>2

\* Neither the events sent on the way nor the content of the response exceed the cap,
\* whatever the disk does, for every cap and any lines. (add, RunRequest)
THEOREM CapIsKept == Spec => []Bounded
BY InvKeepsCap, InitInv, NextInv, PTL DEF Spec

LEMMA InvNeedsNoFile == IInv => FitsLeavesNoFile
<1> SUFFICES ASSUME IInv, max = 0 \/ Size(all) <= max
             PROVE  file = NoFile /\ (Answered => answer.kind = "content")
  BY DEF FitsLeavesNoFile
<1>1. ~spilled
  BY DEF IInv, Crossed, Within, TypeOK
<1>2. file = NoFile /\ Response.kind = "content"
  BY <1>1 DEF IInv, Within, Response
<1> QED BY <1>2 DEF IInv, Chosen, Answered

\* A stream within its cap, to the byte, is answered with its content and leaves no
\* file. (add, open, RunRequest)
THEOREM NoFileWithinCap == Spec => []FitsLeavesNoFile
BY InvNeedsNoFile, InitInv, NextInv, PTL DEF Spec
=============================================================================
