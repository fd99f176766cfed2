---------------------------- MODULE StdoutProofs ----------------------------
(***************************************************************************)
(* Proofs about Stdout, for any names and values of variables, any lines   *)
(* and any background process.                                             *)
(*                                                                         *)
(* What is on the pipe since the last newline is always text: everything   *)
(* the script prints around it ends in a newline.  So a line the scanner   *)
(* gets is text, perhaps with one thing of the script's behind it, and     *)
(* what the command wrote is output: it comes before the start marker,     *)
(* while inEnv is false.  Without a background process nothing stands in   *)
(* front of the script's own lines, and the scanner knows them all.        *)
(***************************************************************************)
EXTENDS Stdout, CaptureProofs, EnvCodecProofs

-----------------------------------------------------------------------------
(***************************************************************************)
(* The invariant                                                           *)
(***************************************************************************)

Texts == [kind : {"text"}, by : {"command", "background"}, length : Nat]
Exports == {Export(n, v) : n \in Names, v \in Seq(Chars)}

\* What one write puts on the pipe.
Piece == Texts \cup Exports \cup [kind : {"start", "end", "exit"}] \cup [kind : {"pwd"}, dir : Dirs]

Pieces ==
  /\ line \in Seq(Texts)
  /\ out \in Seq(Seq(Piece))
  /\ said \in Seq(Nat)

ShellValues ==
  /\ shell \in [DOMAIN shell -> Seq(Chars)]
  /\ DOMAIN shell \cap NeverPersist # {}
  /\ left \subseteq DOMAIN shell /\ (at = "command" => left = {})

\* Nothing the command wrote can be taken for the dump.
Heard ==
  /\ at = "command" => ~inEnv
  /\ inEnv => ByCommand(line) = <<>>
  /\ scanner = "on" => ByCommand(Concat(out)) \o ByCommand(line) = said

\* Without a background process the script's lines are its own, and output is text.
Alone ==
  ~background =>
    /\ out \in Seq(Seq(Texts))
    /\ scanner = "on" /\ at = "vars" => line = <<>> /\ inEnv
    /\ scanner = "on" /\ at \in {"pwd", "exit"} => line = <<>> /\ ~inEnv

\* How far the dump has come.
Dumped ==
  ~background =>
    /\ DOMAIN envOut \subseteq DOMAIN shell
    /\ \A n \in DOMAIN envOut : envOut[n] = Parse(Dump(shell[n]))
    /\ at = "command" \/ scanner = "ended" => DOMAIN envOut = {}
    /\ scanner = "on" /\ at = "vars" => DOMAIN envOut = DOMAIN shell \ left
    /\ scanner = "on" /\ at \in {"pwd", "exit"} => DOMAIN envOut = DOMAIN shell
    /\ pwdOut # NoDir =>
         /\ at \notin {"command", "vars", "pwd"} /\ scanner = "on"
         /\ pwdOut = dir /\ DOMAIN envOut = DOMAIN shell

\* The session's state changes at the end of the run.
Persisted ==
  /\ at # "done" => env = before.env /\ cwd = before.cwd
  /\ at = "done" =>
       /\ env = IF DOMAIN envOut # {} THEN envOut ELSE before.env
       /\ cwd = IF pwdOut # NoDir THEN pwdOut ELSE before.cwd

-----------------------------------------------------------------------------
(***************************************************************************)
(* Pieces and lines                                                        *)
(***************************************************************************)

LEMMA PieceKinds ==
  ASSUME NEW p \in Piece
  PROVE  /\ p.kind \in {"text", "export", "start", "end", "exit", "pwd"}
         /\ p.kind = "text" <=> p \in Texts
         /\ p.kind = "text" => p.length \in Nat /\ p.by \in {"command", "background"}
         /\ p.kind = "export" => p.name \in Names
         /\ p.kind = "pwd" => p.dir \in Dirs
BY DEF Piece, Texts, Exports, Export

LEMMA ThePieces ==
  /\ \A n \in Nat, by \in {"command", "background"} :
       Text(by, n) \in Texts /\ Text(by, n).kind = "text" /\ Text(by, n).by = by /\ Text(by, n).length = n
  /\ \A k \in {"start", "end", "exit"} : Mark(k) \in Piece /\ Mark(k).kind = k
  /\ \A n \in Names, v \in Seq(Chars) :
       /\ Export(n, v) \in Piece
       /\ Export(n, v).kind = "export" /\ Export(n, v).name = n /\ Export(n, v).text = Dump(v)
  /\ \A d \in Dirs : Pwd(d) \in Piece /\ Pwd(d).kind = "pwd" /\ Pwd(d).dir = d
  /\ Texts \subseteq Piece
BY DEF Piece, Texts, Exports, Export, Text, Mark, Pwd

LEMMA OwnType ==
  ASSUME NEW p \in Piece
  PROVE  Own(p) \in Seq(Nat)
BY PieceKinds DEF Own

LEMMA ByCommandAppend ==
  ASSUME NEW l \in Seq(Piece), NEW x \in Piece
  PROVE  ByCommand(Append(l, x)) = ByCommand(l) \o Own(x)
<1> DEFINE p == [i \in DOMAIN l |-> Own(l[i])]
           q == [i \in DOMAIN Append(l, x) |-> Own(Append(l, x)[i])]
<1>1. p \in Seq(Seq(Nat)) /\ Own(x) \in Seq(Nat)
  <2>1. DOMAIN l = 1..Len(l) /\ Len(l) \in Nat /\ \A i \in 1..Len(l) : Own(l[i]) \in Seq(Nat)
    BY OwnType
  <2> QED BY <2>1, OwnType
<1>2. q = Append(p, Own(x))
  BY <1>1, AppendProperties
<1> HIDE DEF p, q
<1>3. Concat(q) = Concat(p) \o Own(x)
  BY <1>1, <1>2, ConcatAppend
<1> QED BY <1>3 DEF p, q, ByCommand

LEMMA ByCommandNothing == ByCommand(<<>>) = <<>>
BY ConcatNothing DEF ByCommand

LEMMA ByCommandType ==
  \A l \in Seq(Piece) : ByCommand(l) \in Seq(Nat)
<1> DEFINE S == {l \in Seq(Piece) : ByCommand(l) \in Seq(Nat)}
<1>1. <<>> \in S
  BY ByCommandNothing, EmptySeq
<1>2. ASSUME NEW l \in S, NEW x \in Piece PROVE Append(l, x) \in S
  <2>1. ByCommand(l) \o Own(x) \in Seq(Nat)
    BY OwnType, ConcatProperties
  <2> QED BY <2>1, ByCommandAppend, AppendProperties
<1>3. S = Seq(Piece)
  <2> HIDE DEF S
  <2>1. S \in SUBSET Seq(Piece)
    BY DEF S
  <2> QED BY <1>1, <1>2, <2>1, SeqInduct
<1> QED BY <1>3

LEMMA NumbersJoin ==
  ASSUME NEW a \in Seq(Nat), NEW b \in Seq(Nat), NEW c \in Seq(Nat)
  PROVE  (a \o b) \o c = a \o (b \o c)
BY ConcatAssociative

LEMMA ByCommandConcat ==
  ASSUME NEW k \in Seq(Piece)
  PROVE  \A l \in Seq(Piece) : ByCommand(k \o l) = ByCommand(k) \o ByCommand(l)
<1> DEFINE S == {l \in Seq(Piece) : ByCommand(k \o l) = ByCommand(k) \o ByCommand(l)}
<1>1. <<>> \in S
  <2>1. k \o <<>> = k /\ ByCommand(k) \o <<>> = ByCommand(k) /\ <<>> \in Seq(Piece)
    BY ByCommandType, ConcatEmptySeq, EmptySeq
  <2> QED BY <2>1, ByCommandNothing
<1>2. ASSUME NEW l \in S, NEW x \in Piece PROVE Append(l, x) \in S
  <2>1. k \o l \in Seq(Piece) /\ l \in Seq(Piece)
    BY ConcatProperties
  <2>2. k \o Append(l, x) = Append(k \o l, x)
    BY <2>1
  <2>3. ByCommand(k \o Append(l, x)) = ByCommand(k \o l) \o Own(x)
    BY <2>1, <2>2, ByCommandAppend
  <2>4. ByCommand(k \o l) = ByCommand(k) \o ByCommand(l)
    OBVIOUS
  <2>5. (ByCommand(k) \o ByCommand(l)) \o Own(x) = ByCommand(k) \o (ByCommand(l) \o Own(x))
    <3>1. ByCommand(k) \in Seq(Nat) /\ ByCommand(l) \in Seq(Nat) /\ Own(x) \in Seq(Nat)
      BY <2>1, ByCommandType, OwnType
    <3> QED BY <3>1, NumbersJoin
  <2>6. ByCommand(Append(l, x)) = ByCommand(l) \o Own(x)
    BY <2>1, ByCommandAppend
  <2> QED BY <2>1, <2>3, <2>4, <2>5, <2>6, AppendProperties
<1>3. S = Seq(Piece)
  <2> HIDE DEF S
  <2>1. S \in SUBSET Seq(Piece)
    BY DEF S
  <2> QED BY <1>1, <1>2, <2>1, SeqInduct
<1> QED BY <1>3

LEMMA ConcatType ==
  \A ls \in Seq(Seq(Piece)) : Concat(ls) \in Seq(Piece)
<1> DEFINE S == {ls \in Seq(Seq(Piece)) : Concat(ls) \in Seq(Piece)}
<1>1. <<>> \in S
  BY ConcatNothing, EmptySeq
<1>2. ASSUME NEW ls \in S, NEW l \in Seq(Piece) PROVE Append(ls, l) \in S
  <2>1. Concat(ls) \o l \in Seq(Piece)
    BY ConcatProperties
  <2> QED BY <2>1, ConcatAppend, AppendProperties
<1>3. S = Seq(Seq(Piece))
  <2> HIDE DEF S
  <2>1. S \in SUBSET Seq(Seq(Piece))
    BY DEF S
  <2> QED BY <1>1, <1>2, <2>1, SeqInduct
<1> QED BY <1>3

LEMMA LengthOfType ==
  ASSUME NEW l \in Seq(Piece)
  PROVE  LengthOf(l) \in Nat
<1> DEFINE f == [i \in DOMAIN l |-> IF l[i].kind = "text" THEN l[i].length ELSE 1]
<1>1. Len(l) \in Nat /\ f \in [1..Len(l) -> Nat]
  BY PieceKinds
<1> HIDE DEF f
<1>2. Total(f) \in Nat
  BY <1>1, CellsFinite
<1> QED BY <1>2 DEF f, LengthOf

-----------------------------------------------------------------------------
(***************************************************************************)
(* The scanner                                                             *)
(***************************************************************************)

\* A line has text, and perhaps one thing of the script's behind it.
LEMMA LineEnds ==
  ASSUME NEW t \in Seq(Texts), NEW x \in Piece
  PROVE  /\ t \in Seq(Piece) /\ Append(t, x) \in Seq(Piece) /\ Append(t, x) # <<>>
         /\ Last(Append(t, x)) = x /\ Front(Append(t, x)) = t
         /\ Len(Append(t, x)) = Len(t) + 1
         /\ t = <<>> => Head(Append(t, x)) = x /\ Append(t, x) = <<x>>
         /\ t # <<>> => Head(Append(t, x)) \in Texts /\ \A y : Append(t, x) # <<y>>
<1>1. t \in Seq(Piece)
  BY ThePieces, SeqMonotonic
<1>2. Append(t, x) \in Seq(Piece) /\ Len(Append(t, x)) = Len(t) + 1 /\ Append(t, x) # <<>> /\ Len(t) \in Nat
  BY <1>1, AppendProperties
<1>3. Last(Append(t, x)) = x
  BY <1>1, <1>2 DEF Last
<1>4. Front(Append(t, x)) = t
  <2>1. Len(Append(t, x)) - 1 = Len(t)
    BY <1>2
  <2> QED BY <1>1, <2>1 DEF Front
<1>5. t = <<>> => Head(Append(t, x)) = x /\ Append(t, x) = <<x>>
  OBVIOUS
<1>6. t # <<>> => Head(Append(t, x)) \in Texts
  BY <1>1, EmptySeq
<1>7. t # <<>> => \A y : Append(t, x) # <<y>>
  <2>1. t # <<>> => Len(Append(t, x)) > 1
    BY <1>2, EmptySeq
  <2>2. \A y : Len(<<y>>) = 1
    OBVIOUS
  <2> QED BY <2>1, <2>2
<1> QED BY <1>1, <1>2, <1>3, <1>4, <1>5, <1>6, <1>7

LEMMA Kinds ==
  ASSUME NEW t \in Seq(Texts), NEW x \in Piece, inEnv \in BOOLEAN
  PROVE  LET l == Append(t, x)
             kind == KindOf(l)
         IN /\ kind \in {"start", "end", "entry", "pwd", "exit", "output"}
            /\ kind = "start" <=> x = Mark("start")
            /\ kind = "end" => t = <<>> /\ x = Mark("end")
            /\ t = <<>> /\ x = Mark("end") => kind = "end"
            /\ kind = "entry" => inEnv
            /\ kind \in {"pwd", "exit"} => t = <<>> /\ x.kind = kind /\ ~inEnv
            /\ t = <<>> /\ x.kind \in {"pwd", "exit"} /\ ~inEnv => kind = x.kind
            /\ inEnv /\ x.kind = "export" => kind = "entry"
            /\ ~inEnv /\ x.kind = "text" => kind = "output"
            /\ kind = "output" => ~inEnv
<1> DEFINE l == Append(t, x)
<1>1. Last(l) = x /\ (t = <<>> => Head(l) = x /\ l = <<x>>)
      /\ (t # <<>> => Head(l) \in Texts /\ \A y : l # <<y>>)
  BY LineEnds
<1>2. t # <<>> => Head(l).kind = "text"
  BY <1>1, ThePieces, PieceKinds
<1>3. Mark("start").kind = "start" /\ Mark("end").kind = "end" /\ Mark("start") # Mark("end")
  BY ThePieces
<1>4. <<x>> = <<Mark("end")>> <=> x = Mark("end")
  OBVIOUS
<1> HIDE DEF l
<1> QED BY <1>1, <1>2, <1>3, <1>4 DEF KindOf, l

\* What a line has of the command's is output.
LEMMA VisibleKeeps ==
  ASSUME NEW t \in Seq(Texts), NEW x \in Piece, inEnv \in BOOLEAN,
         inEnv => ByCommand(Append(t, x)) = <<>>
  PROVE  /\ Visible(Append(t, x)) \in Seq(Piece)
         /\ ByCommand(Visible(Append(t, x))) = ByCommand(Append(t, x))
<1> DEFINE l == Append(t, x)
<1>1. /\ t \in Seq(Piece) /\ l \in Seq(Piece) /\ Front(l) = t
      /\ <<>> \in Seq(Piece) /\ ByCommand(<<>>) = <<>> /\ ByCommand(l) = ByCommand(t) \o Own(x)
  BY LineEnds, EmptySeq, ByCommandNothing, ByCommandAppend
<1>2. x.kind # "text" => Own(x) = <<>>
  BY DEF Own
<1>3. ByCommand(t) \o <<>> = ByCommand(t) /\ <<>> \o <<>> = <<>>
  BY <1>1, ByCommandType, ConcatEmptySeq, EmptySeq
<1>4. \A k \in {"start", "end", "exit"} : Mark(k).kind = k
  BY ThePieces
<1>5. CASE KindOf(l) = "start"
  <2>1. Visible(l) = t /\ ByCommand(l) = ByCommand(t)
    BY <1>1, <1>2, <1>3, <1>4, <1>5, Kinds DEF Visible
  <2> QED BY <1>1, <2>1
<1>6. CASE KindOf(l) = "output"
  BY <1>1, <1>6 DEF Visible
<1>7. CASE KindOf(l) \in {"end", "pwd", "exit"}
  <2>1. t = <<>> /\ x.kind # "text"
    BY <1>4, <1>7, Kinds
  <2>2. Visible(l) = <<>>
    BY <1>7 DEF Visible
  <2> QED BY <1>1, <1>2, <1>3, <2>1, <2>2
<1>8. CASE KindOf(l) = "entry"
  <2>1. Visible(l) = <<>> /\ inEnv
    BY <1>8, Kinds DEF Visible
  <2> QED BY <1>1, <2>1
<1> QED BY <1>5, <1>6, <1>7, <1>8, Kinds

\* A line changes what is captured as Capture has it.
LEMMA DeliverCaptures ==
  ASSUME IInv, NEW l \in Seq(Piece), Deliver(l)
  PROVE  IInv'
<1>1. LengthOf(l) \in Nat
  BY LengthOfType
<1> QED BY <1>1, KeptStep, UnspillableStep, SpilledStep, WriteFailsStep DEF Deliver

LEMMA SameCaptures == IInv /\ UNCHANGED captureVars => IInv'
BY DEF captureVars, IInv, TypeOK, Crossed, Placed, Within, Chosen, Response

\* A line goes through the scanner.
LEMMA ScanStep ==
  ASSUME IInv, StdoutTypeOK, out \in Seq(Seq(Piece)),
         NEW t \in Seq(Texts), NEW x \in Piece, Scan(Append(t, x)),
         inEnv => ByCommand(Append(t, x)) = <<>>
  PROVE  /\ IInv'
         /\ out' \in Seq(Seq(Piece)) /\ inEnv' \in BOOLEAN
         /\ DOMAIN envOut' \subseteq Names \cup {BadName} /\ pwdOut' \in Dirs \cup {NoDir}
         /\ ByCommand(Concat(out')) = ByCommand(Concat(out)) \o ByCommand(Append(t, x))
         /\ ~inEnv /\ x.kind = "text" => ~inEnv'
<1> DEFINE l == Append(t, x)
           kind == KindOf(l)
           v == Visible(l)
<1>1. inEnv \in BOOLEAN /\ DOMAIN envOut \subseteq Names \cup {BadName} /\ pwdOut \in Dirs \cup {NoDir}
  BY DEF StdoutTypeOK
<1>2. /\ l \in Seq(Piece) /\ Last(l) = x /\ (t = <<>> => Head(l) = x)
      /\ v \in Seq(Piece) /\ ByCommand(v) = ByCommand(l)
  BY <1>1, LineEnds, VisibleKeeps
<1>3. IInv' /\ out' \in Seq(Seq(Piece)) /\ ByCommand(Concat(out')) = ByCommand(Concat(out)) \o ByCommand(l)
  <2>1. Concat(out) \in Seq(Piece)
    BY ConcatType
  <2>2. CASE v = <<>>
    <3>1. out' = out /\ UNCHANGED captureVars
      BY <2>2 DEF Scan
    <3>2. ByCommand(Concat(out)) \o <<>> = ByCommand(Concat(out))
      BY <2>1, ByCommandType, ConcatEmptySeq
    <3> QED BY <1>2, <2>2, <3>1, <3>2, SameCaptures, ByCommandNothing
  <2>3. CASE v # <<>>
    <3>1. Deliver(v)
      BY <2>3 DEF Scan
    <3> HIDE DEF v, l
    <3>2. out' = Append(out, v)
      BY <3>1 DEF Deliver
    <3>3. Concat(out') = Concat(out) \o v
      BY <1>2, <3>2, ConcatAppend
    <3>4. ByCommand(Concat(out) \o v) = ByCommand(Concat(out)) \o ByCommand(v)
      BY <1>2, <2>1, ByCommandConcat
    <3> QED BY <1>2, <3>1, <3>2, <3>3, <3>4, DeliverCaptures, AppendProperties
  <2> QED BY <2>2, <2>3
<1>4. inEnv' = (kind = "start" \/ (inEnv /\ kind # "end"))
  BY DEF Scan
<1>5. ~inEnv /\ x.kind = "text" => ~inEnv'
  <2>1. ~inEnv /\ x.kind = "text" => kind = "output"
    BY <1>1, Kinds
  <2> HIDE DEF kind
  <2> QED BY <1>4, <2>1
<1>6. DOMAIN envOut' \subseteq Names \cup {BadName}
  <2>1. envOut' = IF kind = "entry" THEN Override(envOut, Entry(l)) ELSE envOut
    BY DEF Scan
  <2>2. DOMAIN Entry(l) \subseteq Names \cup {BadName}
    <3>1. CASE Last(l).kind # "export"
      BY <3>1 DEF Entry
    <3>2. CASE Last(l).kind = "export"
      <4>1. Last(l).name \in Names
        BY <1>2, <3>2, PieceKinds
      <4> HIDE DEF l
      <4> QED BY <3>2, <4>1 DEF Entry, Variable
    <3> QED BY <3>1, <3>2
  <2> HIDE DEF kind, l
  <2>3. DOMAIN Override(envOut, Entry(l)) = DOMAIN envOut \cup DOMAIN Entry(l)
    BY DEF Override
  <2> QED BY <1>1, <2>1, <2>2, <2>3
<1>7. pwdOut' \in Dirs \cup {NoDir}
  <2>1. pwdOut' = IF kind = "pwd" THEN Head(l).dir ELSE pwdOut
    BY DEF Scan
  <2>2. kind = "pwd" => Head(l) = x /\ x.kind = "pwd"
    BY <1>1, <1>2, Kinds
  <2> HIDE DEF kind, l
  <2> QED BY <1>1, <2>1, <2>2, PieceKinds
<1>8. inEnv' \in BOOLEAN
  BY <1>1, <1>4
<1> QED BY <1>3, <1>5, <1>6, <1>7, <1>8

\* Something is written to the pipe.
LEMMA WriteStep ==
  ASSUME IInv, StdoutTypeOK, Pieces, Heard, NEW p \in Piece, NEW newline \in BOOLEAN,
         newline \/ p \in Texts, at = "command" \/ Own(p) = <<>>, Write(p, newline)
  PROVE  /\ IInv' /\ line' \in Seq(Texts) /\ out' \in Seq(Seq(Piece)) /\ inEnv' \in BOOLEAN
         /\ DOMAIN envOut' \subseteq Names \cup {BadName} /\ pwdOut' \in Dirs \cup {NoDir}
         /\ inEnv' => ByCommand(line') = <<>>
         /\ scanner = "on" =>
              ByCommand(Concat(out')) \o ByCommand(line') =
                (ByCommand(Concat(out)) \o ByCommand(line)) \o Own(p)
         /\ ~inEnv /\ p.kind = "text" => ~inEnv'
         /\ UNCHANGED <<scanner, env, cwd, before>>
<1>1. UNCHANGED <<scanner, env, cwd, before>>
  BY DEF Write, session
<1>2. CASE scanner = "ended"
  <2>1. UNCHANGED <<line, inEnv, envOut, pwdOut, out>> /\ UNCHANGED captureVars
    BY <1>2 DEF Write, scan
  <2> QED BY <1>1, <1>2, <2>1, SameCaptures DEF StdoutTypeOK, Pieces, Heard
<1> DEFINE l == Append(line, p)
           b == ByCommand(Concat(out))
<1>3. /\ line \in Seq(Texts) /\ line \in Seq(Piece) /\ l \in Seq(Piece) /\ inEnv \in BOOLEAN
      /\ ByCommand(l) = ByCommand(line) \o Own(p)
      /\ (b \o ByCommand(line)) \o Own(p) = b \o ByCommand(l)
      /\ b \in Seq(Nat) /\ ByCommand(l) \in Seq(Nat)
  <2>1. line \in Seq(Texts) /\ line \in Seq(Piece) /\ l \in Seq(Piece) /\ inEnv \in BOOLEAN
    BY LineEnds DEF Pieces, StdoutTypeOK
  <2>2. b \in Seq(Nat) /\ ByCommand(l) \in Seq(Nat) /\ ByCommand(line) \in Seq(Nat) /\ Own(p) \in Seq(Nat)
    BY <2>1, ConcatType, ByCommandType, OwnType DEF Pieces
  <2>3. ByCommand(l) = ByCommand(line) \o Own(p)
    BY <2>1, ByCommandAppend
  <2> HIDE DEF l, b
  <2>4. (b \o ByCommand(line)) \o Own(p) = b \o (ByCommand(line) \o Own(p))
    BY <2>2, NumbersJoin
  <2> QED BY <2>1, <2>2, <2>3, <2>4
<1>4. inEnv => ByCommand(l) = <<>>
  <2>1. inEnv => ByCommand(line) = <<>> /\ Own(p) = <<>>
    BY DEF Heard
  <2>2. <<>> \o <<>> = <<>>
    OBVIOUS
  <2> QED BY <1>3, <2>1, <2>2
<1>5. CASE scanner = "on" /\ newline
  <2>1. line' = <<>> /\ Scan(l)
    BY <1>5 DEF Write
  <2>2. /\ IInv' /\ out' \in Seq(Seq(Piece)) /\ inEnv' \in BOOLEAN
        /\ DOMAIN envOut' \subseteq Names \cup {BadName} /\ pwdOut' \in Dirs \cup {NoDir}
        /\ ByCommand(Concat(out')) = b \o ByCommand(l)
        /\ ~inEnv /\ p.kind = "text" => ~inEnv'
    BY <1>3, <1>4, <2>1, ScanStep DEF Pieces
  <2>3. ByCommand(line') = <<>> /\ line' \in Seq(Texts)
    BY <2>1, ByCommandNothing, EmptySeq
  <2>4. (b \o ByCommand(l)) \o <<>> = b \o ByCommand(l)
    <3> HIDE DEF l, b
    <3> QED BY <1>3, ConcatProperties, ConcatEmptySeq
  <2> HIDE DEF l
  <2> QED BY <1>1, <1>3, <2>2, <2>3, <2>4
<1>6. CASE scanner = "on" /\ ~newline
  <2>1. line' = l /\ UNCHANGED <<inEnv, envOut, pwdOut, out>> /\ UNCHANGED captureVars
    BY <1>6 DEF Write
  <2>2. l \in Seq(Texts)
    BY <1>3, <1>6, AppendProperties
  <2>3. IInv'
    BY <2>1, SameCaptures
  <2> HIDE DEF l
  <2> QED BY <1>1, <1>3, <1>4, <2>1, <2>2, <2>3 DEF StdoutTypeOK, Pieces
<1> QED BY <1>2, <1>5, <1>6 DEF StdoutTypeOK

-----------------------------------------------------------------------------
(***************************************************************************)
(* Types, and what the command wrote                                       *)
(***************************************************************************)

KeptInv == IInv /\ StdoutTypeOK /\ Pieces /\ ShellValues /\ Heard

LEMMA RestoredValues ==
  ASSUME NEW e \in Envs
  PROVE  /\ Restored(e) \in [DOMAIN Restored(e) -> Seq(Chars)]
         /\ DOMAIN Restored(e) = DOMAIN Inherited \cup (DOMAIN e \ (NeverPersist \cup {BadName}))
         /\ DOMAIN Restored(e) \subseteq Names
<1>1. /\ Inherited \in [DOMAIN Inherited -> Seq(Chars)] /\ DOMAIN Inherited \subseteq Names
      /\ e \in [DOMAIN e -> Seq(Chars)] /\ DOMAIN e \subseteq Names \cup {BadName}
  BY EnvAssumption
<1>2. \A n \in DOMAIN e : ReadWord(ShellEscape(e[n])) \in Seq(Chars)
  BY <1>1, ScriptKeepsValues
<1>3. /\ DOMAIN Script(e) = DOMAIN e \ (NeverPersist \cup {BadName})
      /\ \A n \in DOMAIN Script(e) : Script(e)[n] \in Seq(Chars)
  BY <1>2 DEF Script
<1>4. DOMAIN Restored(e) = DOMAIN Inherited \cup DOMAIN Script(e)
  BY DEF Restored, Override
<1>5. \A n \in DOMAIN Restored(e) : Restored(e)[n] \in Seq(Chars)
  BY <1>1, <1>3 DEF Restored, Override
<1>6. Restored(e) = [n \in DOMAIN Restored(e) |-> Restored(e)[n]]
  BY DEF Restored, Override
<1> QED BY <1>1, <1>3, <1>4, <1>5, <1>6

LEMMA KeptInit == RunInit => KeptInv
<1> SUFFICES ASSUME RunInit PROVE KeptInv
  OBVIOUS
<1>1. IInv
  BY InitInv DEF RunInit
<1>2. env \in Envs /\ cwd \in Dirs /\ shell = Restored(env) /\ dir = cwd
  BY DEF RunInit
<1>3. DOMAIN env \subseteq Names \cup {BadName}
  BY <1>2, EnvAssumption
<1>4. ShellValues /\ DOMAIN shell \subseteq Names
  <2>1. left = {}
    BY DEF RunInit
  <2> QED BY <1>2, <2>1, RestoredValues, OwnAssumption DEF ShellValues
<1>5. StdoutTypeOK
  <2>1. /\ at = "command" /\ left = {} /\ scanner = "on" /\ inEnv = FALSE
        /\ envOut = <<>> /\ pwdOut = NoDir /\ changed = FALSE /\ background = FALSE
    BY DEF RunInit
  <2>2. DOMAIN envOut = {}
    BY <2>1
  <2> QED BY <1>2, <1>3, <1>4, <2>1, <2>2 DEF StdoutTypeOK
<1>6. line = <<>> /\ out = <<>> /\ said = <<>> /\ ~inEnv
  BY DEF RunInit
<1>7. Pieces
  BY <1>6, EmptySeq DEF Pieces
<1>8. Heard
  <2>1. <<>> \o <<>> = <<>>
    OBVIOUS
  <2> QED BY <1>6, <2>1, ConcatNothing, ByCommandNothing DEF Heard
<1> QED BY <1>1, <1>4, <1>5, <1>7, <1>8 DEF KeptInv

\* The script writes: nothing of the command's.
LEMMA MarkStep ==
  ASSUME KeptInv, NEW p \in Piece, p.kind # "text", Write(p, TRUE), at' # "command",
         at' \in {"vars", "pwd", "exit", "exited"}, left' \subseteq DOMAIN shell, UNCHANGED commandVars
  PROVE  KeptInv'
<1> USE DEF KeptInv
<1>1. Own(p) = <<>>
  BY DEF Own
<1>2. /\ IInv' /\ line' \in Seq(Texts) /\ out' \in Seq(Seq(Piece)) /\ inEnv' \in BOOLEAN
      /\ DOMAIN envOut' \subseteq Names \cup {BadName} /\ pwdOut' \in Dirs \cup {NoDir}
      /\ inEnv' => ByCommand(line') = <<>>
      /\ scanner = "on" =>
           ByCommand(Concat(out')) \o ByCommand(line') =
             (ByCommand(Concat(out)) \o ByCommand(line)) \o Own(p)
      /\ UNCHANGED <<scanner, env, cwd, before>>
  BY <1>1, WriteStep
<1>3. UNCHANGED <<shell, dir, changed, background, said>>
  BY DEF commandVars
<1>4. StdoutTypeOK' /\ Pieces' /\ ShellValues'
  BY <1>2, <1>3 DEF StdoutTypeOK, Pieces, ShellValues
<1>5. Heard'
  <2>1. said \o <<>> = said
    BY ConcatEmptySeq DEF Pieces
  <2>2. scanner' = "on" => ByCommand(Concat(out')) \o ByCommand(line') = said'
    BY <1>1, <1>2, <1>3, <2>1 DEF Heard
  <2> QED BY <1>2, <2>2 DEF Heard
<1> QED BY <1>2, <1>4, <1>5

LEMMA SayKeeps == ASSUME KeptInv, NEW n \in Nat, NEW newline \in BOOLEAN, Say(n, newline) PROVE KeptInv'
<1> USE DEF KeptInv
<1> DEFINE p == Text("command", n)
<1>1. p \in Texts /\ p \in Piece /\ p.kind = "text" /\ Own(p) = <<n>>
  BY ThePieces DEF Own
<1>2. at = "command" /\ ~inEnv /\ Write(p, newline)
  BY DEF Say, Heard
<1> HIDE DEF p
<1>3. /\ IInv' /\ line' \in Seq(Texts) /\ out' \in Seq(Seq(Piece)) /\ inEnv' \in BOOLEAN
      /\ DOMAIN envOut' \subseteq Names \cup {BadName} /\ pwdOut' \in Dirs \cup {NoDir}
      /\ scanner = "on" =>
           ByCommand(Concat(out')) \o ByCommand(line') =
             (ByCommand(Concat(out)) \o ByCommand(line)) \o Own(p)
      /\ ~inEnv'
      /\ UNCHANGED <<scanner, env, cwd, before>>
  BY <1>1, <1>2, WriteStep
<1>4. UNCHANGED <<at, left, shell, dir, changed, background>> /\ said' = Append(said, n)
  BY DEF Say
<1>5. said \o <<n>> = Append(said, n) /\ Append(said, n) \in Seq(Nat)
  BY OneMore, AppendProperties DEF Pieces
<1>6. StdoutTypeOK' /\ Pieces' /\ ShellValues'
  BY <1>3, <1>4, <1>5 DEF StdoutTypeOK, Pieces, ShellValues
<1>7. Heard'
  BY <1>1, <1>3, <1>4, <1>5 DEF Heard
<1> QED BY <1>3, <1>6, <1>7

LEMMA BackgroundKeeps ==
  ASSUME KeptInv, NEW n \in Nat, NEW newline \in BOOLEAN, Background(n, newline) PROVE KeptInv'
<1> USE DEF KeptInv
<1> DEFINE p == Text("background", n)
<1>1. p \in Texts /\ p \in Piece /\ p.kind = "text" /\ Own(p) = <<>>
  BY ThePieces DEF Own
<1>2. Write(p, newline)
  BY DEF Background
<1> HIDE DEF p
<1>3. /\ IInv' /\ line' \in Seq(Texts) /\ out' \in Seq(Seq(Piece)) /\ inEnv' \in BOOLEAN
      /\ DOMAIN envOut' \subseteq Names \cup {BadName} /\ pwdOut' \in Dirs \cup {NoDir}
      /\ inEnv' => ByCommand(line') = <<>>
      /\ scanner = "on" =>
           ByCommand(Concat(out')) \o ByCommand(line') =
             (ByCommand(Concat(out)) \o ByCommand(line)) \o Own(p)
      /\ ~inEnv => ~inEnv'
      /\ UNCHANGED <<scanner, env, cwd, before>>
  BY <1>1, <1>2, WriteStep
<1>4. UNCHANGED <<at, left, shell, dir, changed, said>> /\ background' = TRUE
  BY DEF Background
<1>5. StdoutTypeOK' /\ Pieces' /\ ShellValues'
  BY <1>3, <1>4 DEF StdoutTypeOK, Pieces, ShellValues
<1>6. Heard'
  <2>1. said \o <<>> = said
    BY ConcatEmptySeq DEF Pieces
  <2> QED BY <1>1, <1>3, <1>4, <2>1 DEF Heard
<1> QED BY <1>3, <1>5, <1>6

LEMMA DumpKeeps ==
  ASSUME KeptInv, DumpStart \/ DumpExport \/ DumpEnd \/ DumpPwd \/ DumpExit PROVE KeptInv'
<1>1. left \subseteq DOMAIN shell /\ DOMAIN shell \subseteq Names /\ dir \in Dirs
  BY DEF KeptInv, StdoutTypeOK, ShellValues
<1>2. CASE DumpStart
  BY <1>1, <1>2, ThePieces, MarkStep DEF DumpStart
<1>3. CASE DumpExport
  <2>1. PICK n \in left : left' = left \ {n} /\ Write(Export(n, shell[n]), TRUE)
    BY <1>3 DEF DumpExport
  <2>2. at = "vars" /\ at' = "vars" /\ UNCHANGED commandVars
    BY <1>3 DEF DumpExport
  <2>3. n \in Names /\ shell[n] \in Seq(Chars)
    BY <1>1 DEF KeptInv, ShellValues
  <2>4. Export(n, shell[n]) \in Piece /\ Export(n, shell[n]).kind = "export"
    BY <2>3, ThePieces
  <2> QED BY <1>1, <2>1, <2>2, <2>4, MarkStep
<1>4. CASE DumpEnd
  BY <1>1, <1>4, ThePieces, MarkStep DEF DumpEnd
<1>5. CASE DumpPwd
  BY <1>1, <1>5, ThePieces, MarkStep DEF DumpPwd
<1>6. CASE DumpExit
  BY <1>1, <1>6, ThePieces, MarkStep DEF DumpExit
<1> QED BY <1>2, <1>3, <1>4, <1>5, <1>6

LEMMA TooMuchKeeps == ASSUME KeptInv, SayTooMuch PROVE KeptInv'
<1> USE DEF KeptInv
<1>1. scanner' = "ended" /\ line' = <<>> /\ UNCHANGED <<inEnv, envOut, pwdOut, out>> /\ UNCHANGED captureVars
      /\ UNCHANGED <<at, left, shell, dir, changed, background, said>> /\ UNCHANGED <<env, cwd, before>>
  BY DEF SayTooMuch, bash, session
<1>2. IInv'
  BY <1>1, SameCaptures
<1>3. StdoutTypeOK' /\ ShellValues'
  BY <1>1 DEF StdoutTypeOK, ShellValues
<1>4. Pieces'
  BY <1>1, EmptySeq DEF Pieces
<1>5. Heard'
  BY <1>1, ByCommandNothing DEF Heard
<1> QED BY <1>2, <1>3, <1>4, <1>5

\* What export and unset make of the shell's environment.
LEMMA ShellChanges ==
  ASSUME ShellValues, DOMAIN shell \subseteq Names, Change
  PROVE  ShellValues' /\ DOMAIN shell' \subseteq Names
<1>0. at' = "command" /\ left = {} /\ left' = {}
  BY DEF Change, ShellValues
<1>1. ASSUME NEW n \in Names, NEW v \in Values, shell' = Override(shell, Variable(n, v))
      PROVE  ShellValues' /\ DOMAIN shell' \subseteq Names
  <2>1. v \in Seq(Chars)
    BY EnvAssumption
  <2>2. shell' = [m \in DOMAIN shell \cup {n} |-> IF m \in {n} THEN v ELSE shell[m]]
    BY <1>1 DEF Override, Variable
  <2> QED BY <1>0, <2>1, <2>2 DEF ShellValues
<1>2. ASSUME NEW n \in DOMAIN shell \ NeverPersist, shell' = [m \in DOMAIN shell \ {n} |-> shell[m]]
      PROVE  ShellValues' /\ DOMAIN shell' \subseteq Names
  BY <1>0, <1>2 DEF ShellValues
<1>3. CASE UNCHANGED shell
  BY <1>0, <1>3 DEF ShellValues
<1> QED BY <1>1, <1>2, <1>3 DEF Change

LEMMA ChangeKeeps == ASSUME KeptInv, Change PROVE KeptInv'
<1> USE DEF KeptInv
<1>1. /\ UNCHANGED <<at, left, background, said>> /\ UNCHANGED captureVars
      /\ UNCHANGED <<line, scanner, inEnv, envOut, pwdOut, out>> /\ UNCHANGED <<env, cwd, before>>
      /\ changed' = TRUE /\ (dir' = dir \/ dir' \in Dirs)
  BY DEF Change, scan, session
<1>2. IInv'
  BY <1>1, SameCaptures
<1>3. ShellValues' /\ DOMAIN shell' \subseteq Names
  BY ShellChanges DEF StdoutTypeOK
<1>4. StdoutTypeOK' /\ Pieces' /\ Heard'
  BY <1>1, <1>3 DEF StdoutTypeOK, Pieces, Heard
<1> QED BY <1>2, <1>3, <1>4

LEMMA StopKeeps == ASSUME KeptInv, Stop PROVE KeptInv'
<1> USE DEF KeptInv
<1>1. /\ at' = "exited" /\ UNCHANGED <<left, shell, dir, changed, background, said>> /\ UNCHANGED captureVars
      /\ UNCHANGED <<line, scanner, inEnv, envOut, pwdOut, out>> /\ UNCHANGED <<env, cwd, before>>
  BY DEF Stop, scan, session, commandVars
<1>2. IInv'
  BY <1>1, SameCaptures
<1> QED BY <1>1, <1>2 DEF StdoutTypeOK, Pieces, Heard, ShellValues

\* A line without a newline: text.
LEMMA LastLine ==
  ASSUME Pieces, line # <<>>
  PROVE  \E t \in Seq(Texts), x \in Texts : line = Append(t, x)
BY SequenceEmptyOrAppend DEF Pieces

LEMMA EofKeeps == ASSUME KeptInv, Eof PROVE KeptInv'
<1> USE DEF KeptInv
<1>1. /\ at' = "ended" /\ line' = <<>> /\ UNCHANGED <<left, scanner>> /\ UNCHANGED <<env, cwd, before>>
      /\ UNCHANGED <<shell, dir, changed, background, said>>
  BY DEF Eof, session, commandVars
<1>2. ByCommand(line') = <<>> /\ line' \in Seq(Texts)
  BY <1>1, ByCommandNothing, EmptySeq
<1>3. /\ IInv' /\ out' \in Seq(Seq(Piece)) /\ inEnv' \in BOOLEAN
      /\ DOMAIN envOut' \subseteq Names \cup {BadName} /\ pwdOut' \in Dirs \cup {NoDir}
      /\ ByCommand(Concat(out')) = ByCommand(Concat(out)) \o ByCommand(line)
  <2>1. CASE line = <<>>
    <3>1. UNCHANGED <<inEnv, envOut, pwdOut, out>> /\ UNCHANGED captureVars
      BY <2>1 DEF Eof
    <3>2. ByCommand(Concat(out)) \o <<>> = ByCommand(Concat(out))
      BY ConcatType, ByCommandType, ConcatEmptySeq DEF Pieces
    <3> QED BY <2>1, <3>1, <3>2, ByCommandNothing, SameCaptures DEF StdoutTypeOK, Pieces
  <2>2. CASE line # <<>>
    <3>1. PICK t \in Seq(Texts), x \in Texts : line = Append(t, x)
      BY <2>2, LastLine
    <3>2. x \in Piece /\ Scan(Append(t, x)) /\ (inEnv => ByCommand(Append(t, x)) = <<>>)
      BY <2>2, <3>1, ThePieces DEF Eof, Heard
    <3> QED BY <3>1, <3>2, ScanStep DEF Pieces
  <2> QED BY <2>1, <2>2
<1>4. StdoutTypeOK' /\ Pieces' /\ ShellValues'
  BY <1>1, <1>2, <1>3 DEF StdoutTypeOK, Pieces, ShellValues
<1>5. Heard'
  <2>1. ByCommand(Concat(out')) \o <<>> = ByCommand(Concat(out'))
    BY <1>3, ConcatType, ByCommandType, ConcatEmptySeq
  <2> QED BY <1>1, <1>2, <1>3, <2>1 DEF Heard
<1> QED BY <1>3, <1>4, <1>5

LEMMA PersistKeeps == ASSUME KeptInv, Persist PROVE KeptInv'
<1> USE DEF KeptInv
<1>1. /\ at' = "done" /\ UNCHANGED <<left, shell, dir, changed, background, said>> /\ UNCHANGED captureVars
      /\ UNCHANGED <<line, scanner, inEnv, envOut, pwdOut, out>>
      /\ env' = EnvAfter /\ cwd' = CwdAfter
  BY DEF Persist, scan, commandVars
<1>2. IInv'
  BY <1>1, SameCaptures
<1>3. DOMAIN env' \subseteq Names \cup {BadName} /\ cwd' \in Dirs
  BY <1>1 DEF EnvAfter, CwdAfter, StdoutTypeOK
<1> QED BY <1>1, <1>2, <1>3 DEF StdoutTypeOK, Pieces, Heard, ShellValues

LEMMA RespondKeeps == ASSUME KeptInv, Respond PROVE KeptInv'
<1> USE DEF KeptInv
<1>1. /\ End /\ UNCHANGED <<at, left, shell, dir, changed, background, said>>
      /\ UNCHANGED <<line, scanner, inEnv, envOut, pwdOut, out>> /\ UNCHANGED <<env, cwd, before>>
  BY DEF Respond, bash, scan, session
<1>2. IInv'
  BY <1>1, EndStep
<1> QED BY <1>1, <1>2 DEF StdoutTypeOK, Pieces, Heard, ShellValues

LEMMA KeptNext == KeptInv /\ [RunNext]_RunVars => KeptInv'
<1> SUFFICES ASSUME KeptInv, [RunNext]_RunVars PROVE KeptInv'
  OBVIOUS
<1>1. CASE UNCHANGED RunVars
  <2>1. /\ UNCHANGED <<at, left, shell, dir, changed, background, said>>
        /\ UNCHANGED <<line, scanner, inEnv, envOut, pwdOut, out>> /\ UNCHANGED <<env, cwd, before>>
        /\ UNCHANGED captureVars
    BY <1>1 DEF RunVars, bash, scan, session
  <2>2. IInv'
    BY <2>1, SameCaptures DEF KeptInv
  <2> QED BY <2>1, <2>2 DEF KeptInv, StdoutTypeOK, Pieces, Heard, ShellValues
<1>2. ASSUME NEW n \in Lengths, NEW newline \in BOOLEAN, Say(n, newline) \/ Background(n, newline)
      PROVE  KeptInv'
  BY <1>2, LengthsAssumption, SayKeeps, BackgroundKeeps
<1>3. CASE SayTooMuch \/ Change
  BY <1>3, TooMuchKeeps, ChangeKeeps
<1>4. CASE DumpStart \/ DumpExport \/ DumpEnd \/ DumpPwd \/ DumpExit
  BY <1>4, DumpKeeps
<1>5. CASE Stop \/ Eof \/ Persist \/ Respond
  BY <1>5, StopKeeps, EofKeeps, PersistKeeps, RespondKeeps
<1> QED BY <1>1, <1>2, <1>3, <1>4, <1>5 DEF RunNext

-----------------------------------------------------------------------------
(***************************************************************************)
(* The dump                                                                *)
(***************************************************************************)

DumpInv == Alone /\ Dumped /\ Persisted

\* What the scanner makes of a line.
LEMMA ScanEffects ==
  ASSUME inEnv \in BOOLEAN, NEW t \in Seq(Texts), NEW x \in Piece, Scan(Append(t, x))
  PROVE  LET kind == KindOf(Append(t, x))
         IN /\ inEnv' = (kind = "start" \/ (inEnv /\ kind # "end"))
            /\ kind # "entry" => envOut' = envOut
            /\ kind = "entry" => envOut' = Override(envOut, Entry(Append(t, x)))
            /\ kind # "pwd" => pwdOut' = pwdOut
            /\ kind = "pwd" => pwdOut' = x.dir
            /\ out \in Seq(Seq(Texts)) /\ (kind = "output" => x \in Texts) => out' \in Seq(Seq(Texts))
<1> DEFINE l == Append(t, x)
           kind == KindOf(l)
<1>1. /\ inEnv' = (kind = "start" \/ (inEnv /\ kind # "end"))
      /\ envOut' = IF kind = "entry" THEN Override(envOut, Entry(l)) ELSE envOut
      /\ pwdOut' = IF kind = "pwd" THEN Head(l).dir ELSE pwdOut
  BY DEF Scan
<1>2. kind = "pwd" => Head(l) = x
  BY Kinds, LineEnds
<1>3. ASSUME out \in Seq(Seq(Texts)), kind = "output" => x \in Texts PROVE out' \in Seq(Seq(Texts))
  <2>1. CASE Visible(l) = <<>>
    BY <1>3, <2>1 DEF Scan
  <2>2. CASE Visible(l) # <<>>
    <3>1. out' = Append(out, Visible(l))
      BY <2>2 DEF Scan, Deliver
    <3>2. Visible(l) \in Seq(Texts)
      <4>1. kind \in {"start", "output"}
        BY <2>2 DEF Visible
      <4>2. Front(l) = t
        BY LineEnds
      <4>3. kind = "output" => l \in Seq(Texts)
        BY <1>3, AppendProperties
      <4> QED BY <4>1, <4>2, <4>3 DEF Visible
    <3> HIDE DEF l
    <3> QED BY <1>3, <3>1, <3>2, AppendProperties
  <2> QED BY <2>1, <2>2
<1> HIDE DEF kind, l
<1> QED BY <1>1, <1>2, <1>3 DEF kind, l

\* A line of the script's own goes through the scanner.
LEMMA OwnLine ==
  ASSUME KeptInv, scanner = "on", NEW p \in Piece, Write(p, TRUE)
  PROVE  /\ Scan(Append(line, p)) /\ line' = <<>>
         /\ line \in Seq(Texts) /\ inEnv \in BOOLEAN
         /\ UNCHANGED <<scanner, env, cwd, before>>
BY DEF Write, session, KeptInv, StdoutTypeOK, Pieces

\* Nobody reads it.
LEMMA UnheardLine ==
  ASSUME scanner = "ended", NEW p, NEW newline, Write(p, newline)
  PROVE  UNCHANGED <<line, scanner, inEnv, envOut, pwdOut, out, env, cwd, before>>
BY DEF Write, session, scan

LEMMA DumpedInit == RunInit => DumpInv
<1> SUFFICES ASSUME RunInit PROVE DumpInv
  OBVIOUS
<1>1. /\ at = "command" /\ scanner = "on" /\ envOut = <<>> /\ pwdOut = NoDir /\ out = <<>>
      /\ before = [env |-> env, cwd |-> cwd]
  BY DEF RunInit
<1>2. out \in Seq(Seq(Texts)) /\ DOMAIN envOut = {}
  BY <1>1, EmptySeq
<1> QED BY <1>1, <1>2 DEF DumpInv, Alone, Dumped, Persisted

LEMMA SayDumps ==
  ASSUME KeptInv, DumpInv, NEW n \in Nat, NEW newline \in BOOLEAN, Say(n, newline) PROVE DumpInv'
<1> DEFINE p == Text("command", n)
<1>1. p \in Texts /\ p \in Piece /\ p.kind = "text"
  BY ThePieces
<1>2. at = "command" /\ at' = "command" /\ ~inEnv /\ Write(p, newline) /\ inEnv \in BOOLEAN
      /\ UNCHANGED <<left, shell, dir, background>>
  BY DEF Say, KeptInv, Heard, StdoutTypeOK
<1> HIDE DEF p
<1>3. UNCHANGED <<scanner, env, cwd, before>>
  BY <1>2 DEF Write, session
<1>4. UNCHANGED <<envOut, pwdOut>> /\ (out \in Seq(Seq(Texts)) => out' \in Seq(Seq(Texts)))
  <2>1. CASE scanner = "on" /\ newline
    <3>1. Scan(Append(line, p)) /\ line \in Seq(Texts)
      BY <1>1, <1>2, <2>1, OwnLine
    <3>2. KindOf(Append(line, p)) = "output"
      BY <1>1, <1>2, <3>1, Kinds
    <3> QED BY <1>1, <1>2, <3>1, <3>2, ScanEffects
  <2>2. CASE scanner = "on" /\ ~newline
    BY <1>2, <2>2 DEF Write
  <2>3. CASE scanner = "ended"
    BY <1>2, <2>3, UnheardLine
  <2> QED BY <2>1, <2>2, <2>3 DEF KeptInv, StdoutTypeOK
<1> QED BY <1>2, <1>3, <1>4 DEF DumpInv, Alone, Dumped, Persisted

\* What a background process writes ends what is claimed.
LEMMA BackgroundDumps ==
  ASSUME DumpInv, NEW n \in Nat, NEW newline \in BOOLEAN, Background(n, newline) PROVE DumpInv'
<1>1. at \notin {"ended", "done"} /\ UNCHANGED at /\ background' = TRUE /\ UNCHANGED <<env, cwd, before>>
  BY DEF Background, Write, session
<1> QED BY <1>1 DEF DumpInv, Alone, Dumped, Persisted

\* What the script's lines do when the scanner is on and nobody else writes.
LEMMA StartLine ==
  ASSUME KeptInv, scanner = "on", Write(Mark("start"), TRUE)
  PROVE  /\ inEnv' /\ line' = <<>> /\ UNCHANGED <<envOut, pwdOut, scanner, env, cwd, before>>
         /\ out \in Seq(Seq(Texts)) => out' \in Seq(Seq(Texts))
<1> DEFINE x == Mark("start")
<1>1. x \in Piece
  BY ThePieces
<1> HIDE DEF x
<1>2. Scan(Append(line, x)) /\ line' = <<>> /\ line \in Seq(Texts) /\ inEnv \in BOOLEAN
      /\ UNCHANGED <<scanner, env, cwd, before>>
  BY <1>1, OwnLine DEF x
<1>3. KindOf(Append(line, x)) = "start"
  BY <1>1, <1>2, Kinds DEF x
<1> QED BY <1>1, <1>2, <1>3, ScanEffects

LEMMA EndLine ==
  ASSUME KeptInv, scanner = "on", line = <<>>, Write(Mark("end"), TRUE)
  PROVE  /\ ~inEnv' /\ line' = <<>> /\ UNCHANGED <<envOut, pwdOut, scanner, env, cwd, before>>
         /\ out \in Seq(Seq(Texts)) => out' \in Seq(Seq(Texts))
<1> DEFINE x == Mark("end")
<1>1. x \in Piece
  BY ThePieces
<1> HIDE DEF x
<1>2. Scan(Append(line, x)) /\ line' = <<>> /\ line \in Seq(Texts) /\ inEnv \in BOOLEAN
      /\ UNCHANGED <<scanner, env, cwd, before>>
  BY <1>1, OwnLine DEF x
<1>3. KindOf(Append(line, x)) = "end"
  BY <1>1, <1>2, Kinds DEF x
<1> QED BY <1>1, <1>2, <1>3, ScanEffects

LEMMA ExitLine ==
  ASSUME KeptInv, scanner = "on", line = <<>>, ~inEnv, Write(Mark("exit"), TRUE)
  PROVE  /\ ~inEnv' /\ line' = <<>> /\ UNCHANGED <<envOut, pwdOut, scanner, env, cwd, before>>
         /\ out \in Seq(Seq(Texts)) => out' \in Seq(Seq(Texts))
<1> DEFINE x == Mark("exit")
<1>1. x \in Piece /\ x.kind = "exit"
  BY ThePieces
<1> HIDE DEF x
<1>2. Scan(Append(line, x)) /\ line' = <<>> /\ line \in Seq(Texts) /\ inEnv \in BOOLEAN
      /\ UNCHANGED <<scanner, env, cwd, before>>
  BY <1>1, OwnLine DEF x
<1>3. KindOf(Append(line, x)) = "exit"
  BY <1>1, <1>2, Kinds
<1> QED BY <1>1, <1>2, <1>3, ScanEffects

LEMMA PwdLine ==
  ASSUME KeptInv, scanner = "on", line = <<>>, ~inEnv, NEW d \in Dirs, Write(Pwd(d), TRUE)
  PROVE  /\ ~inEnv' /\ line' = <<>> /\ pwdOut' = d /\ UNCHANGED <<envOut, scanner, env, cwd, before>>
         /\ out \in Seq(Seq(Texts)) => out' \in Seq(Seq(Texts))
<1> DEFINE x == Pwd(d)
<1>1. x \in Piece /\ x.kind = "pwd" /\ x.dir = d
  BY ThePieces
<1> HIDE DEF x
<1>2. Scan(Append(line, x)) /\ line' = <<>> /\ line \in Seq(Texts) /\ inEnv \in BOOLEAN
      /\ UNCHANGED <<scanner, env, cwd, before>>
  BY <1>1, OwnLine DEF x
<1>3. KindOf(Append(line, x)) = "pwd"
  BY <1>1, <1>2, Kinds
<1> QED BY <1>1, <1>2, <1>3, ScanEffects

LEMMA ExportLine ==
  ASSUME KeptInv, scanner = "on", line = <<>>, inEnv,
         NEW n \in Names, NEW v \in Seq(Chars), Write(Export(n, v), TRUE)
  PROVE  /\ inEnv' /\ line' = <<>> /\ UNCHANGED <<pwdOut, scanner, env, cwd, before>>
         /\ envOut' = Override(envOut, Variable(n, Parse(Dump(v))))
         /\ out \in Seq(Seq(Texts)) => out' \in Seq(Seq(Texts))
<1> DEFINE x == Export(n, v)
<1>1. x \in Piece /\ x.kind = "export" /\ x.name = n /\ x.text = Dump(v)
  BY ThePieces
<1> HIDE DEF x
<1>2. Scan(Append(line, x)) /\ line' = <<>> /\ line \in Seq(Texts) /\ inEnv \in BOOLEAN
      /\ UNCHANGED <<scanner, env, cwd, before>>
  BY <1>1, OwnLine DEF x
<1>3. KindOf(Append(line, x)) = "entry"
  BY <1>1, <1>2, Kinds
<1>4. Entry(Append(line, x)) = Variable(n, Parse(Dump(v)))
  <2>1. Last(Append(line, x)) = x /\ Len(Append(line, x)) = 1
    BY <1>1, <1>2, LineEnds
  <2> QED BY <1>1, <2>1 DEF Entry
<1> QED BY <1>1, <1>2, <1>3, <1>4, ScanEffects

LEMMA ScriptDumps ==
  ASSUME KeptInv, DumpInv, DumpStart \/ DumpExport \/ DumpEnd \/ DumpPwd \/ DumpExit PROVE DumpInv'
<1>1. UNCHANGED <<shell, dir, background>>
  BY DEF DumpStart, DumpExport, DumpEnd, DumpPwd, DumpExit, commandVars
<1>2. dir \in Dirs /\ DOMAIN shell \subseteq Names /\ left \subseteq DOMAIN shell
      /\ shell \in [DOMAIN shell -> Seq(Chars)] /\ scanner \in {"on", "ended"}
  BY DEF KeptInv, StdoutTypeOK, ShellValues
<1>3. at \in {"command", "vars", "pwd", "exit"} /\ at' \in {"vars", "pwd", "exit", "exited"}
  BY DEF DumpStart, DumpExport, DumpEnd, DumpPwd, DumpExit
<1>4. UNCHANGED <<scanner, env, cwd, before>>
  BY DEF DumpStart, DumpExport, DumpEnd, DumpPwd, DumpExit, Write, session
<1>5. Persisted'
  BY <1>3, <1>4 DEF DumpInv, Persisted
<1>6. CASE background
  BY <1>1, <1>5, <1>6 DEF DumpInv, Alone, Dumped
<1>7. CASE scanner = "ended" /\ ~background
  <2>1. UNCHANGED <<line, scanner, inEnv, envOut, pwdOut, out>>
    BY <1>7, UnheardLine DEF DumpStart, DumpExport, DumpEnd, DumpPwd, DumpExit
  <2> QED BY <1>1, <1>5, <1>7, <2>1 DEF DumpInv, Alone, Dumped
<1>8. CASE scanner = "on" /\ ~background
  <2> USE DEF DumpInv, Alone, Dumped
  <2>1. CASE DumpStart
    <3>1. /\ inEnv' /\ line' = <<>> /\ UNCHANGED <<envOut, pwdOut>> /\ out' \in Seq(Seq(Texts))
          /\ at = "command" /\ at' = "vars" /\ left' = DOMAIN shell
      BY <1>8, <2>1, StartLine DEF DumpStart
    <3> QED BY <1>1, <1>4, <1>5, <1>8, <3>1
  <2>2. CASE DumpExport
    <3>1. PICK n \in left : left' = left \ {n} /\ Write(Export(n, shell[n]), TRUE)
      BY <2>2 DEF DumpExport
    <3>2. at = "vars" /\ at' = "vars" /\ line = <<>> /\ inEnv
      BY <1>8, <2>2 DEF DumpExport
    <3>3. n \in Names /\ shell[n] \in Seq(Chars)
      BY <1>2
    <3>4. /\ inEnv' /\ line' = <<>> /\ pwdOut' = pwdOut /\ out' \in Seq(Seq(Texts))
          /\ envOut' = Override(envOut, Variable(n, Parse(Dump(shell[n]))))
      BY <1>8, <3>1, <3>2, <3>3, ExportLine
    <3>5. /\ DOMAIN envOut' = DOMAIN envOut \cup {n}
          /\ \A m \in DOMAIN envOut' :
               envOut'[m] = IF m = n THEN Parse(Dump(shell[n])) ELSE envOut[m]
      BY <3>4 DEF Override, Variable
    <3>6. DOMAIN envOut' = DOMAIN shell \ left'
      BY <1>2, <1>8, <3>1, <3>2, <3>5
    <3>7. \A m \in DOMAIN envOut' : envOut'[m] = Parse(Dump(shell[m]))
      BY <1>8, <3>5
    <3>8. pwdOut = NoDir
      BY <1>8, <3>2
    <3> QED BY <1>1, <1>4, <1>5, <1>8, <3>2, <3>4, <3>6, <3>7, <3>8
  <2>3. CASE DumpEnd
    <3>1. at = "vars" /\ at' = "pwd" /\ left = {} /\ line = <<>>
      BY <1>8, <2>3 DEF DumpEnd
    <3>2. ~inEnv' /\ line' = <<>> /\ UNCHANGED <<envOut, pwdOut>> /\ out' \in Seq(Seq(Texts))
      BY <1>8, <2>3, <3>1, EndLine DEF DumpEnd
    <3> QED BY <1>1, <1>4, <1>5, <1>8, <3>1, <3>2
  <2>4. CASE DumpPwd
    <3>1. at = "pwd" /\ at' = "exit" /\ line = <<>> /\ ~inEnv
      BY <1>8, <2>4 DEF DumpPwd
    <3>2. ~inEnv' /\ line' = <<>> /\ pwdOut' = dir /\ UNCHANGED envOut /\ out' \in Seq(Seq(Texts))
      BY <1>2, <1>8, <2>4, <3>1, PwdLine DEF DumpPwd
    <3> QED BY <1>1, <1>4, <1>5, <1>8, <3>1, <3>2
  <2>5. CASE DumpExit
    <3>1. at = "exit" /\ at' = "exited" /\ line = <<>> /\ ~inEnv
      BY <1>8, <2>5 DEF DumpExit
    <3>2. UNCHANGED <<envOut, pwdOut>> /\ out' \in Seq(Seq(Texts))
      BY <1>8, <2>5, <3>1, ExitLine DEF DumpExit
    <3> QED BY <1>1, <1>4, <1>5, <1>8, <3>1, <3>2
  <2> QED BY <2>1, <2>2, <2>3, <2>4, <2>5
<1> QED BY <1>2, <1>6, <1>7, <1>8

LEMMA CommandDumps ==
  ASSUME KeptInv, DumpInv, SayTooMuch \/ Change \/ Stop PROVE DumpInv'
<1>1. CASE SayTooMuch
  <2>1. /\ at = "command" /\ scanner' = "ended" /\ UNCHANGED <<inEnv, envOut, pwdOut, out>>
        /\ UNCHANGED <<at, left, shell, dir, background, env, cwd, before>> /\ scanner = "on"
    BY <1>1 DEF SayTooMuch, bash, session
  <2> QED BY <2>1 DEF DumpInv, Alone, Dumped, Persisted
<1>2. CASE Change
  <2>1. /\ at = "command" /\ UNCHANGED <<at, left, background, env, cwd, before>>
        /\ UNCHANGED <<line, scanner, inEnv, envOut, pwdOut, out>>
    BY <1>2 DEF Change, scan, session
  <2>2. Alone' /\ Persisted'
    BY <2>1 DEF DumpInv, Alone, Persisted
  <2>3. Dumped'
    BY <2>1 DEF DumpInv, Dumped
  <2> QED BY <2>2, <2>3 DEF DumpInv
<1>3. CASE Stop
  <2>1. /\ at' = "exited" /\ at # "done" /\ UNCHANGED <<left, shell, dir, background, env, cwd, before>>
        /\ UNCHANGED <<line, scanner, inEnv, envOut, pwdOut, out>>
    BY <1>3 DEF Stop, scan, session, commandVars
  <2> QED BY <2>1 DEF DumpInv, Alone, Dumped, Persisted
<1> QED BY <1>1, <1>2, <1>3

\* A last line without a newline is text: it adds nothing to the dump.
LEMMA EofDumps == ASSUME KeptInv, DumpInv, Eof PROVE DumpInv'
<1>1. /\ at = "exited" /\ at' = "ended" /\ UNCHANGED <<scanner, shell, dir, background, env, cwd, before>>
  BY DEF Eof, session, commandVars
<1>2. /\ pwdOut' = pwdOut /\ (out \in Seq(Seq(Texts)) => out' \in Seq(Seq(Texts)))
      /\ DOMAIN envOut' = DOMAIN envOut /\ \A n \in DOMAIN envOut : envOut'[n] = envOut[n]
  <2>1. CASE line = <<>>
    BY <2>1 DEF Eof
  <2>2. CASE line # <<>>
    <3>1. PICK t \in Seq(Texts), x \in Texts : line = Append(t, x)
      BY <2>2, LastLine DEF KeptInv
    <3>2. x \in Piece /\ x.kind = "text" /\ Scan(Append(t, x)) /\ inEnv \in BOOLEAN
      BY <2>2, <3>1, ThePieces, PieceKinds DEF Eof, KeptInv, StdoutTypeOK
    <3>3. KindOf(Append(t, x)) \in {"entry", "output"}
      <4>1. Mark("start").kind # "text" /\ Mark("end").kind # "text"
        BY ThePieces
      <4> QED BY <3>2, <4>1, Kinds
    <3>4. /\ KindOf(Append(t, x)) # "entry" => envOut' = envOut
          /\ KindOf(Append(t, x)) = "entry" => envOut' = Override(envOut, Entry(Append(t, x)))
          /\ pwdOut' = pwdOut /\ (out \in Seq(Seq(Texts)) => out' \in Seq(Seq(Texts)))
      BY <3>1, <3>2, <3>3, ScanEffects
    <3>5. Entry(Append(t, x)) = <<>>
      <4>1. Last(Append(t, x)) = x
        BY <3>2, LineEnds
      <4> QED BY <3>2, <4>1 DEF Entry
    <3>6. LET o == Override(envOut, <<>>) IN
            DOMAIN o = DOMAIN envOut /\ \A n \in DOMAIN envOut : o[n] = envOut[n]
      BY DEF Override
    <3> QED BY <3>4, <3>5, <3>6
  <2> QED BY <2>1, <2>2
<1> QED BY <1>1, <1>2 DEF DumpInv, Alone, Dumped, Persisted

LEMMA EndDumps == ASSUME KeptInv, DumpInv, Persist \/ Respond PROVE DumpInv'
<1>1. CASE Persist
  <2>1. /\ at = "ended" /\ at' = "done" /\ UNCHANGED <<left, shell, dir, background, before>>
        /\ UNCHANGED <<line, scanner, inEnv, envOut, pwdOut, out>>
        /\ env' = EnvAfter /\ cwd' = CwdAfter
    BY <1>1 DEF Persist, scan, commandVars
  <2>2. Alone' /\ Dumped'
    BY <2>1 DEF DumpInv, Alone, Dumped
  <2>3. Persisted'
    BY <2>1 DEF DumpInv, Persisted, EnvAfter, CwdAfter
  <2> QED BY <2>2, <2>3 DEF DumpInv
<1>2. CASE Respond
  BY <1>2 DEF Respond, bash, scan, session, DumpInv, Alone, Dumped, Persisted
<1> QED BY <1>1, <1>2

LEMMA DumpedNext == KeptInv /\ DumpInv /\ [RunNext]_RunVars => DumpInv'
<1> SUFFICES ASSUME KeptInv, DumpInv, [RunNext]_RunVars PROVE DumpInv'
  OBVIOUS
<1>1. CASE UNCHANGED RunVars
  BY <1>1 DEF RunVars, bash, scan, session, DumpInv, Alone, Dumped, Persisted
<1>2. ASSUME NEW n \in Lengths, NEW newline \in BOOLEAN, Say(n, newline) \/ Background(n, newline)
      PROVE  DumpInv'
  BY <1>2, LengthsAssumption, SayDumps, BackgroundDumps
<1>3. CASE SayTooMuch \/ Change \/ Stop
  BY <1>3, CommandDumps
<1>4. CASE DumpStart \/ DumpExport \/ DumpEnd \/ DumpPwd \/ DumpExit
  BY <1>4, ScriptDumps
<1>5. CASE Eof \/ Persist \/ Respond
  BY <1>5, EofDumps, EndDumps
<1> QED BY <1>1, <1>2, <1>3, <1>4, <1>5 DEF RunNext

LEMMA RunInv == RunSpec => [](KeptInv /\ DumpInv)
BY KeptInit, KeptNext, DumpedInit, DumpedNext, PTL DEF RunSpec

-----------------------------------------------------------------------------

\* Every variable of a run and its script keeps its type. (pump, buildScript)
THEOREM StdoutTypes == RunSpec => []StdoutTypeOK
<1>1. KeptInv => StdoutTypeOK
  BY DEF KeptInv
<1> QED BY <1>1, RunInv, PTL

\* Every byte the command writes reaches output.add, in order and once, whatever its last
\* line looks like and whatever a background process writes between. (pump)
THEOREM CommandIsHeard == RunSpec => []CommandOutputKept
<1>1. KeptInv => CommandOutputKept
  <2> SUFFICES ASSUME KeptInv, scanner = "on" PROVE ByCommand(Concat(out) \o line) = said
    BY DEF CommandOutputKept
  <2>1. Concat(out) \in Seq(Piece) /\ line \in Seq(Piece)
    BY ConcatType, ThePieces, SeqMonotonic DEF KeptInv, Pieces
  <2> QED BY <2>1, ByCommandConcat DEF KeptInv, Heard
<1> QED BY <1>1, RunInv, PTL

\* A caller sees nothing of the dump, also when bash is killed half-way. (pump)
THEOREM DumpIsUnheard == RunSpec => []NoDumpInOutput
<1>1. KeptInv /\ DumpInv => NoDumpInOutput
  <2> SUFFICES ASSUME DumpInv, ~background, NEW i \in DOMAIN out, NEW j \in DOMAIN out[i]
               PROVE  out[i][j].kind = "text"
    BY DEF NoDumpInOutput
  <2>1. out \in Seq(Seq(Texts))
    BY DEF DumpInv, Alone
  <2>2. out[i] \in Seq(Texts)
    BY <2>1
  <2>3. out[i][j] \in Texts
    BY <2>2
  <2> QED BY <2>3 DEF Texts
<1> QED BY <1>1, RunInv, PTL

\* Without a dump nothing of the session changes; the directory changes with the
\* environment, all of it. (pump)
THEOREM StateComesFromTheDump == RunSpec => []StateFromDump
<1>1. KeptInv /\ DumpInv => StateFromDump
  <2> SUFFICES ASSUME KeptInv, DumpInv, at = "done", ~background
               PROVE  /\ DOMAIN envOut = {} => env = before.env /\ cwd = before.cwd
                      /\ cwd # before.cwd => DOMAIN env = DOMAIN shell
    BY DEF StateFromDump
  <2>1. DOMAIN shell # {}
    BY DEF KeptInv, ShellValues
  <2>2. pwdOut # NoDir => DOMAIN envOut = DOMAIN shell
    BY DEF DumpInv, Dumped
  <2> QED BY <2>1, <2>2 DEF DumpInv, Persisted
<1> QED BY <1>1, RunInv, PTL

\* After a script that came to its end the next run starts where this one stopped, for
\* values the quoting preserves. (buildScript, parseExportLine, shellEscape, pump)
THEOREM NextRunStartsHere == RunSpec => []NextRunContinues
<1>1. KeptInv /\ DumpInv => NextRunContinues
  <2> SUFFICES ASSUME KeptInv, DumpInv, at = "done", pwdOut # NoDir, ~background,
                      \A n \in DOMAIN shell : Safe(shell[n])
               PROVE  /\ cwd = dir
                      /\ Restored(env) =
                           Override(Inherited, [n \in DOMAIN shell \ NeverPersist |-> shell[n]])
    BY DEF NextRunContinues, ScriptCompleted
  <2>1. pwdOut = dir /\ DOMAIN envOut = DOMAIN shell
        /\ \A n \in DOMAIN shell : envOut[n] = Parse(Dump(shell[n]))
    BY DEF DumpInv, Dumped
  <2>2. shell \in [DOMAIN shell -> Seq(Chars)] /\ DOMAIN shell \subseteq Names /\ DOMAIN shell # {}
    BY DEF KeptInv, ShellValues, StdoutTypeOK
  <2>3. cwd = dir /\ env = envOut
    BY <2>1, <2>2 DEF DumpInv, Persisted
  <2>4. \A n \in DOMAIN shell : env[n] = shell[n] /\ ReadWord(ShellEscape(env[n])) = shell[n]
    BY <2>1, <2>2, <2>3, DumpKeepsValues, ScriptKeepsValues
  <2>5. DOMAIN env \ (NeverPersist \cup {BadName}) = DOMAIN shell \ NeverPersist
    BY <2>1, <2>2, <2>3, EnvAssumption
  <2>6. Script(env) = [n \in DOMAIN shell \ NeverPersist |-> shell[n]]
    BY <2>4, <2>5 DEF Script
  <2> QED BY <2>3, <2>6 DEF Restored
<1> QED BY <1>1, RunInv, PTL

\* What Capture promises holds of the lines a run hands over.
\* (stream, pump, output.add)
THEOREM RunKeepsCapture == RunSpec => [](TypeOK /\ NothingLost /\ Bounded /\ FitsLeavesNoFile)
<1>1. IInv => TypeOK
  BY DEF IInv
<1>2. KeptInv => TypeOK /\ NothingLost /\ Bounded /\ FitsLeavesNoFile
  BY <1>1, InvLosesNothing, InvKeepsCap, InvNeedsNoFile DEF KeptInv
<1> QED BY <1>2, RunInv, PTL
=============================================================================
