------------------------------ MODULE Capture ------------------------------
(***************************************************************************)
(* What RunRequest keeps of one output stream under a size cap: the type   *)
(* output of the agent (add, open, notice, content) and the choice between *)
(* the output and a notice when the run has ended.  stdout and stderr have *)
(* one such state each, with nothing in common.                            *)
(*                                                                         *)
(* A line is abstracted to its length.  The disk may refuse the spill file *)
(* or a write to it.                                                       *)
(***************************************************************************)
EXTENDS Integers, FiniteSets, SequencesExt

CONSTANTS
  Caps,      \* values of MaxStdOut or MaxStdErr in requests
  Lengths,   \* lengths of lines
  MaxLines,  \* lines in the stream (a bound)
  NoFile     \* no spill file

ASSUME CapsAssumption == Caps \subseteq Int
ASSUME LengthsAssumption == Lengths \subseteq Nat
ASSUME BoundAssumption == MaxLines \in Nat
ASSUME NoFileAssumption == NoFile \notin Seq(Nat)

VARIABLES
  max,      \* the cap in force, 0 for none
  buf,      \* lines kept in memory
  file,     \* lines in the spill file, or NoFile
  bytes,    \* size of the stream so far
  spilled,  \* the cap was crossed
  all,      \* history: the lines of the stream
  sent,     \* lines passed on to the event channel
  disk,     \* history: the disk did as asked, "ok", or what it refused
  answer    \* the response, or Pending while the command runs

vars == <<max, buf, file, bytes, spilled, all, sent, disk, answer>>

LineSeq == Seq(Nat)
Pending == [kind |-> "none"]
Answer == {Pending}
            \cup [kind : {"content"}, body : LineSeq]
            \cup [kind : {"notice"}, path : LineSeq \cup {NoFile}]

TypeOK ==
  /\ max \in Nat /\ bytes \in Nat /\ spilled \in BOOLEAN
  /\ buf \in LineSeq /\ all \in LineSeq /\ sent \in LineSeq
  /\ file \in LineSeq \cup {NoFile}
  /\ disk \in {"ok", "open", "write"}
  /\ answer \in Answer

\* The sum of a sequence of lengths: the bytes they stand for, counted.
Total(lengths) == Cardinality(UNION {{i} \X (1..lengths[i]) : i \in DOMAIN lengths})

\* Bytes of some lines, each with its newline.
Size(lines) == Total([i \in DOMAIN lines |-> lines[i] + 1])

\* Mutant of Cap: a negative cap is taken as it is.
CapAsGiven(requested) == requested

\* stream: a negative cap means none.
Cap(requested) == IF requested < 0 THEN 0 ELSE requested

Init ==
  /\ \E requested \in Caps : max = Cap(requested)
  /\ buf = <<>> /\ all = <<>> /\ sent = <<>>
  /\ file = NoFile /\ bytes = 0 /\ spilled = FALSE
  /\ disk = "ok" /\ answer = Pending

-----------------------------------------------------------------------------

\* Mutants of Fits: the newline of the last line is not counted; a cap of the
\* exact size is crossed.
FitsWithoutNewline(n) == max <= 0 \/ bytes + n <= max
FitsBelow(n) == max <= 0 \/ bytes + n + 1 < max

\* add: this line does not take the stream past the cap.
Fits(n) == max <= 0 \/ bytes + n + 1 <= max

\* The scanner's part: a line is added, and sent on unless the stream spilled.
Line(n) ==
  /\ answer = Pending
  /\ all' = Append(all, n)
  /\ bytes' = bytes + n + 1
  /\ sent' = IF spilled' THEN sent ELSE Append(sent, n)
  /\ UNCHANGED <<max, answer>>

\* The cap is not crossed: the line is kept.
AddKept(n) ==
  /\ Fits(n)
  /\ buf' = Append(buf, n)
  /\ UNCHANGED <<spilled, file, disk>>
  /\ Line(n)

\* The cap is crossed for the first time and the spill file cannot be made, or
\* that happened before: the line is kept.
AddUnspillable(n) ==
  /\ ~Fits(n)
  /\ \/ ~spilled /\ disk' = "open"
     \/ spilled /\ file = NoFile /\ UNCHANGED disk
  /\ spilled' = TRUE
  /\ buf' = Append(buf, n)
  /\ UNCHANGED file
  /\ Line(n)

\* What the first write past the cap finds in the file.
Opened == IF spilled THEN file ELSE <<>>

\* Mutant of Flushed: what was buffered before the cap is dropped.
FlushedLineOnly(n) == <<n>>

\* What that write adds to the file.
Flushed(n) == Append(buf, n)

\* The file is there, or made now, and takes what is in memory.
AddSpilled(n) ==
  /\ ~Fits(n)
  /\ spilled => file # NoFile
  /\ spilled' = TRUE
  /\ file' = Opened \o Flushed(n)
  /\ buf' = <<>>
  /\ UNCHANGED disk
  /\ Line(n)

\* The same, but the write fails: what was in memory is dropped all the same.
AddWriteFails(n) ==
  /\ ~Fits(n)
  /\ spilled => file # NoFile
  /\ spilled' = TRUE
  /\ \E k \in 0..Len(buf) : file' = Opened \o SubSeq(Append(buf, n), 1, k)
  /\ buf' = <<>>
  /\ disk' = "write"
  /\ Line(n)

\* RunRequest: content, or for a stream that spilled the notice with its path.
Response ==
  IF spilled
  THEN [kind |-> "notice", path |-> file]
  ELSE [kind |-> "content", body |-> buf]

End ==
  /\ answer = Pending
  /\ answer' = Response
  /\ UNCHANGED <<max, buf, file, bytes, spilled, all, sent, disk>>

Next ==
  \/ \E n \in Lengths :
       /\ Len(all) < MaxLines
       /\ AddKept(n) \/ AddUnspillable(n) \/ AddSpilled(n) \/ AddWriteFails(n)
  \/ End

Spec == Init /\ [][Next]_vars

-----------------------------------------------------------------------------
(***************************************************************************)
(* Properties                                                              *)
(***************************************************************************)

Answered == answer # Pending

\* Neither the response's content nor the events sent on the way exceed the cap,
\* whatever the disk does.
Bounded ==
  max > 0 =>
    /\ Answered /\ answer.kind = "content" => Size(answer.body) <= max
    /\ Size(sent) <= max

\* With a working disk the caller can get the whole stream, from its first
\* byte: in the response, or in the file the notice names.
NothingLost ==
  Answered /\ disk = "ok" =>
    IF answer.kind = "content" THEN answer.body = all ELSE answer.path = all

\* A stream that is within its cap, to the byte, is returned as usual and
\* leaves no file behind.
FitsLeavesNoFile ==
  max = 0 \/ Size(all) <= max =>
    file = NoFile /\ (Answered => answer.kind = "content")

\* When the spill file cannot be made the output is not lost: the response is
\* what it would be without a cap.
DegradesToUncapped ==
  Answered /\ disk = "open" => answer.kind = "content" /\ answer.body = all
=============================================================================
