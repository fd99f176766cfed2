--------------------------- MODULE EnvCodecProofs ---------------------------
(***************************************************************************)
(* Proofs about EnvCodec, for values of any length: what shellEscape       *)
(* quotes bash reads back, and what bash dumps parseExportLine reads back  *)
(* for the values that are safe.                                           *)
(*                                                                         *)
(* The definitions are recursive, and the proofs go by induction on a      *)
(* sequence, one element more at its end.  Induction is had from the       *)
(* library's fact that < is well-founded: a set of numbers that is not     *)
(* empty has a least one.                                                  *)
(***************************************************************************)
EXTENDS EnvCodec, SequenceTheorems, WellFoundedInduction, TLAPS

(***************************************************************************)
(* Induction                                                               *)
(***************************************************************************)

LEMMA LessIsWellFounded ==
  \E R : IsWellFoundedOn(R, Nat) /\ \A k, n \in Nat : k < n => <<k, n>> \in R
<1>1. \A k, n \in Nat : k < n => <<k, n>> \in OpToRel(<, Nat)
  BY DEF OpToRel
<1> QED BY <1>1, NatLessThanWellFounded, Zenon

LEMMA Least ==
  ASSUME NEW S \in SUBSET Nat, S # {}
  PROVE  \E n \in S : \A k \in S : n <= k
<1>1. PICK R : IsWellFoundedOn(R, Nat) /\ \A k, n \in Nat : k < n => <<k, n>> \in R
  BY LessIsWellFounded
<1>2. PICK n \in S : \A k \in S : ~ (<<k, n>> \in R)
  <2>1. IsWellFoundedOn(R, Nat) /\ S \subseteq Nat /\ S # {}
    BY <1>1
  <2> QED BY <2>1, WFMin, Zenon
<1>3. ASSUME NEW k \in S PROVE n <= k
  <2>1. k \in Nat /\ n \in Nat /\ ~(k < n)
    BY <1>1, <1>2, Zenon
  <2> QED BY <2>1
<1> QED BY <1>3

LEMMA NatInduct ==
  ASSUME NEW S \in SUBSET Nat, 0 \in S, \A n \in S : n + 1 \in S
  PROVE  S = Nat
<1> SUFFICES ASSUME Nat \ S # {} PROVE FALSE
  OBVIOUS
<1>1. PICK n \in Nat \ S : \A k \in Nat \ S : n <= k
  <2>1. Nat \ S \in SUBSET Nat
    OBVIOUS
  <2> QED BY <2>1, Least
<1>2. n # 0 /\ n - 1 \in Nat
  BY <1>1
<1>3. n - 1 \in S
  BY <1>1, <1>2
<1>4. (n - 1) + 1 \in S
  BY <1>3
<1> QED BY <1>1, <1>4

LEMMA SeqInduct ==
  ASSUME NEW T, NEW S \in SUBSET Seq(T), <<>> \in S,
         \A s \in S, c \in T : Append(s, c) \in S
  PROVE  S = Seq(T)
<1> DEFINE N == {n \in Nat : \A s \in Seq(T) : Len(s) = n => s \in S}
<1>1. 0 \in N
  BY EmptySeq
<1>2. ASSUME NEW n \in N PROVE n + 1 \in N
  <2> SUFFICES ASSUME NEW s \in Seq(T), Len(s) = n + 1 PROVE s \in S
    OBVIOUS
  <2>1. s # <<>>
    BY EmptySeq
  <2>2. PICK t \in Seq(T), c \in T : s = Append(t, c)
    BY <2>1, SequenceEmptyOrAppend
  <2>3. Len(t) = n
    BY <2>2, AppendProperties, LenProperties
  <2> QED BY <2>2, <2>3
<1>3. N = Nat
  <2> HIDE DEF N
  <2>1. N \in SUBSET Nat
    BY DEF N
  <2> QED BY <1>1, <1>2, <2>1, NatInduct
<1>4. \A s \in Seq(T) : Len(s) \in N
  BY <1>3
<1> QED BY <1>4

(***************************************************************************)
(* What the recursive definitions compute                                  *)
(***************************************************************************)

\* f has the state of the machine after each character.
Passage(f, step, start, text) ==
  f = [i \in 0..Len(text) |-> IF i = 0 THEN start ELSE step[text[i]][f[i - 1]]]

LEMMA PassageExists ==
  ASSUME NEW T, NEW step, NEW start
  PROVE  \A text \in Seq(T) : \E f : Passage(f, step, start, text)
<1> DEFINE S == {text \in Seq(T) : \E f : Passage(f, step, start, text)}
<1>1. <<>> \in S
  <2> DEFINE f == [i \in 0..0 |-> start]
  <2>1. Passage(f, step, start, <<>>)
    BY DEF Passage
  <2> QED BY <2>1
<1>2. ASSUME NEW s \in S, NEW c \in T PROVE Append(s, c) \in S
  <2>1. PICK f : Passage(f, step, start, s)
    OBVIOUS
  <2> DEFINE t == Append(s, c)
             n == Len(s)
             g == [i \in 0..(n + 1) |-> IF i = n + 1 THEN step[c][f[n]] ELSE f[i]]
  <2>2. n \in Nat /\ Len(t) = n + 1 /\ t[n + 1] = c /\ (\A i \in 1..n : t[i] = s[i]) /\ t \in Seq(T)
    BY AppendProperties
  <2>3. \A i \in 0..n : f[i] = IF i = 0 THEN start ELSE step[s[i]][f[i - 1]]
    BY <2>1 DEF Passage
  <2>g. \A i \in 0..(n + 1) : g[i] = IF i = n + 1 THEN step[c][f[n]] ELSE f[i]
    OBVIOUS
  <2>h. g = [i \in 0..(n + 1) |-> g[i]]
    OBVIOUS
  <2> HIDE DEF t, n, g
  <2>4. ASSUME NEW i \in 0..(n + 1)
        PROVE  g[i] = IF i = 0 THEN start ELSE step[t[i]][g[i - 1]]
    <3>1. CASE i = 0
      BY <2>2, <2>3, <2>g, <3>1
    <3>2. CASE i \in 1..n
      <4>1. g[i] = f[i] /\ g[i - 1] = f[i - 1] /\ t[i] = s[i]
        BY <2>2, <2>g, <3>2
      <4> QED BY <2>2, <2>3, <3>2, <4>1
    <3>3. CASE i = n + 1
      BY <2>2, <2>g, <3>3
    <3> QED BY <2>2, <3>1, <3>2, <3>3
  <2>5. Passage(g, step, start, t)
    BY <2>2, <2>4, <2>h DEF Passage
  <2> QED BY <2>2, <2>5 DEF t
<1>3. S = Seq(T)
  <2> HIDE DEF S
  <2>1. S \in SUBSET Seq(T)
    BY DEF S
  <2> QED BY <1>1, <1>2, <2>1, SeqInduct
<1> QED BY <1>3

BeginsWith(t, s) == Len(s) <= Len(t) /\ \A i \in 1..Len(s) : t[i] = s[i]

\* Two passages agree as far as they read the same.
LEMMA PassagesAgree ==
  ASSUME NEW T, NEW step, NEW start, NEW s \in Seq(T), NEW t \in Seq(T), BeginsWith(t, s),
         NEW f, NEW g, Passage(f, step, start, s), Passage(g, step, start, t)
  PROVE  f[Len(s)] = g[Len(s)]
<1> USE DEF BeginsWith
<1> DEFINE S == {i \in Nat : i <= Len(s) => f[i] = g[i]}
<1>0. Len(s) \in Nat /\ Len(t) \in Nat
  OBVIOUS
<1>1. /\ \A i \in 0..Len(s) : f[i] = IF i = 0 THEN start ELSE step[s[i]][f[i - 1]]
      /\ \A i \in 0..Len(t) : g[i] = IF i = 0 THEN start ELSE step[t[i]][g[i - 1]]
  BY DEF Passage
<1>2. 0 \in S
  BY <1>0, <1>1
<1>3. ASSUME NEW i \in S PROVE i + 1 \in S
  <2> SUFFICES ASSUME i + 1 <= Len(s) PROVE f[i + 1] = g[i + 1]
    OBVIOUS
  <2>1. f[i] = g[i] /\ i + 1 \in 1..Len(s) /\ i + 1 \in 0..Len(t) /\ (i + 1) - 1 = i
    BY <1>0
  <2>2. f[i + 1] = step[s[i + 1]][f[i]] /\ g[i + 1] = step[t[i + 1]][g[i]]
    BY <1>0, <1>1, <2>1
  <2> QED BY <2>1, <2>2
<1>4. S = Nat
  <2> HIDE DEF S
  <2>1. S \in SUBSET Nat
    BY DEF S
  <2> QED BY <1>2, <1>3, <2>1, NatInduct
<1> QED BY <1>0, <1>4

LEMMA AfterIsPassage ==
  ASSUME NEW T, NEW step, NEW start
  PROVE  \A text \in Seq(T) :
           \E f : Passage(f, step, start, text) /\ After(step, start, text) = f[Len(text)]
<1> TAKE text \in Seq(T)
<1> DEFINE f == CHOOSE h : Passage(h, step, start, text)
<1>1. Passage(f, step, start, text)
  BY PassageExists
<1>2. After(step, start, text) = f[Len(text)]
  BY DEF After, Passage
<1> QED BY <1>1, <1>2

LEMMA AfterNothing ==
  ASSUME NEW step, NEW start
  PROVE  After(step, start, <<>>) = start
<1> DEFINE T == {}
<1>1. PICK e \in Seq(T) : e = <<>>
  BY EmptySeq
<1> HIDE DEF T
<1>2. PICK f : Passage(f, step, start, e) /\ After(step, start, e) = f[Len(e)]
  BY AfterIsPassage, SMT
<1>3. Len(e) = 0
  BY <1>1
<1>4. f[0] = start
  BY <1>2, <1>3 DEF Passage
<1> QED BY <1>1, <1>2, <1>3, <1>4

\* A machine goes on from where it was.
LEMMA AfterAppend ==
  ASSUME NEW T, NEW step, NEW start, NEW s \in Seq(T), NEW c \in T
  PROVE  After(step, start, Append(s, c)) = step[c][After(step, start, s)]
<1>1. PICK t \in Seq(T) : t = Append(s, c)
  BY AppendProperties
<1>2. PICK f : Passage(f, step, start, s) /\ After(step, start, s) = f[Len(s)]
  BY AfterIsPassage, SMT
<1>3. PICK g : Passage(g, step, start, t) /\ After(step, start, t) = g[Len(t)]
  BY AfterIsPassage, SMT
<1>4. BeginsWith(t, s)
  BY <1>1, AppendProperties DEF BeginsWith
<1>5. f[Len(s)] = g[Len(s)]
  BY <1>2, <1>3, <1>4, PassagesAgree, SMT
<1>6. Len(t) = Len(s) + 1 /\ t[Len(s) + 1] = c /\ Len(s) \in Nat
  BY <1>1, AppendProperties
<1>7. g[Len(t)] = step[c][g[Len(s)]]
  BY <1>3, <1>6 DEF Passage
<1> QED BY <1>1, <1>2, <1>3, <1>5, <1>7
\* The same for Concat: f has what the first parts come to.
Joining(f, text) ==
  f = [i \in 0..Len(text) |-> IF i = 0 THEN <<>> ELSE f[i - 1] \o text[i]]

LEMMA JoiningExists ==
  ASSUME NEW T
  PROVE  \A text \in Seq(T) : \E f : Joining(f, text)
<1> DEFINE S == {text \in Seq(T) : \E f : Joining(f, text)}
<1>1. <<>> \in S
  <2> DEFINE f == [i \in 0..0 |-> <<>>]
  <2>1. Joining(f, <<>>)
    BY DEF Joining
  <2> QED BY <2>1
<1>2. ASSUME NEW s \in S, NEW c \in T PROVE Append(s, c) \in S
  <2>1. PICK f : Joining(f, s)
    OBVIOUS
  <2> DEFINE t == Append(s, c)
             n == Len(s)
             g == [i \in 0..(n + 1) |-> IF i = n + 1 THEN f[n] \o c ELSE f[i]]
  <2>2. n \in Nat /\ Len(t) = n + 1 /\ t[n + 1] = c /\ (\A i \in 1..n : t[i] = s[i]) /\ t \in Seq(T)
    BY AppendProperties
  <2>3. \A i \in 0..n : f[i] = IF i = 0 THEN <<>> ELSE f[i - 1] \o s[i]
    BY <2>1 DEF Joining
  <2>g. \A i \in 0..(n + 1) : g[i] = IF i = n + 1 THEN f[n] \o c ELSE f[i]
    OBVIOUS
  <2>h. g = [i \in 0..(n + 1) |-> g[i]]
    OBVIOUS
  <2> HIDE DEF t, n, g
  <2>4. ASSUME NEW i \in 0..(n + 1)
        PROVE  g[i] = IF i = 0 THEN <<>> ELSE g[i - 1] \o t[i]
    <3>1. CASE i = 0
      BY <2>2, <2>3, <2>g, <3>1
    <3>2. CASE i \in 1..n
      <4>1. g[i] = f[i] /\ g[i - 1] = f[i - 1] /\ t[i] = s[i]
        BY <2>2, <2>g, <3>2
      <4> QED BY <2>2, <2>3, <3>2, <4>1
    <3>3. CASE i = n + 1
      BY <2>2, <2>g, <3>3
    <3> QED BY <2>2, <3>1, <3>2, <3>3
  <2>5. Joining(g, t)
    BY <2>2, <2>4, <2>h DEF Joining
  <2> QED BY <2>2, <2>5 DEF t
<1>3. S = Seq(T)
  <2> HIDE DEF S
  <2>1. S \in SUBSET Seq(T)
    BY DEF S
  <2> QED BY <1>1, <1>2, <2>1, SeqInduct
<1> QED BY <1>3

\* Two joinings agree as far as they read the same.
LEMMA JoiningsAgree ==
  ASSUME NEW T, NEW s \in Seq(T), NEW t \in Seq(T), BeginsWith(t, s),
         NEW f, NEW g, Joining(f, s), Joining(g, t)
  PROVE  f[Len(s)] = g[Len(s)]
<1> USE DEF BeginsWith
<1> DEFINE S == {i \in Nat : i <= Len(s) => f[i] = g[i]}
<1>0. Len(s) \in Nat /\ Len(t) \in Nat
  OBVIOUS
<1>1. /\ \A i \in 0..Len(s) : f[i] = IF i = 0 THEN <<>> ELSE f[i - 1] \o s[i]
      /\ \A i \in 0..Len(t) : g[i] = IF i = 0 THEN <<>> ELSE g[i - 1] \o t[i]
  BY DEF Joining
<1>2. 0 \in S
  BY <1>0, <1>1
<1>3. ASSUME NEW i \in S PROVE i + 1 \in S
  <2> SUFFICES ASSUME i + 1 <= Len(s) PROVE f[i + 1] = g[i + 1]
    OBVIOUS
  <2>1. f[i] = g[i] /\ i + 1 \in 1..Len(s) /\ i + 1 \in 0..Len(t) /\ (i + 1) - 1 = i
    BY <1>0
  <2>2. PICK j \in 1..Len(s) : j = i + 1 /\ j - 1 = i /\ j # 0 /\ j \in 0..Len(s) /\ j \in 0..Len(t)
    BY <1>0, <2>1
  <2>3. f[j] = f[j - 1] \o s[j] /\ g[j] = g[j - 1] \o t[j]
    BY <1>1, <2>2
  <2> QED BY <2>1, <2>2, <2>3
<1>4. S = Nat
  <2> HIDE DEF S
  <2>1. S \in SUBSET Nat
    BY DEF S
  <2> QED BY <1>2, <1>3, <2>1, NatInduct
<1> QED BY <1>0, <1>4

LEMMA ConcatIsJoining ==
  ASSUME NEW T
  PROVE  \A text \in Seq(T) :
           \E f : Joining(f, text) /\ Concat(text) = f[Len(text)]
<1> TAKE text \in Seq(T)
<1> DEFINE f == CHOOSE h : Joining(h, text)
<1>1. Joining(f, text)
  BY JoiningExists
<1>2. Concat(text) = f[Len(text)]
  BY DEF Concat, Joining
<1> QED BY <1>1, <1>2

LEMMA ConcatNothing ==
  Concat(<<>>) = <<>>
<1> DEFINE T == {}
<1>1. PICK e \in Seq(T) : e = <<>>
  BY EmptySeq
<1> HIDE DEF T
<1>2. PICK f : Joining(f, e) /\ Concat(e) = f[Len(e)]
  BY ConcatIsJoining, SMT
<1>3. Len(e) = 0
  BY <1>1
<1>4. f[0] = <<>>
  BY <1>2, <1>3 DEF Joining
<1> QED BY <1>1, <1>2, <1>3, <1>4

LEMMA ConcatAppend ==
  ASSUME NEW T, NEW s \in Seq(T), NEW c \in T
  PROVE  Concat(Append(s, c)) = Concat(s) \o c
<1>1. PICK t \in Seq(T) : t = Append(s, c)
  BY AppendProperties
<1>2. PICK f : Joining(f, s) /\ Concat(s) = f[Len(s)]
  BY ConcatIsJoining, SMT
<1>3. PICK g : Joining(g, t) /\ Concat(t) = g[Len(t)]
  BY ConcatIsJoining, SMT
<1>4. BeginsWith(t, s)
  BY <1>1, AppendProperties DEF BeginsWith
<1>5. f[Len(s)] = g[Len(s)]
  BY <1>2, <1>3, <1>4, JoiningsAgree, SMT
<1>6. Len(t) = Len(s) + 1 /\ t[Len(s) + 1] = c /\ Len(s) \in Nat
  BY <1>1, AppendProperties
<1>7. g[Len(t)] = g[Len(s)] \o c
  BY <1>3, <1>6 DEF Joining
<1> QED BY <1>1, <1>2, <1>3, <1>5, <1>7

(***************************************************************************)
(* What shellEscape writes bash reads back                                 *)
(***************************************************************************)

Apostrophized(value) == Concat([i \in DOMAIN value |-> InApostrophes(value[i])])
Quoted(value) == Concat([i \in DOMAIN value |-> InQuotes(value[i])])

LEMMA OneMore ==
  ASSUME NEW T, NEW s \in Seq(T), NEW a
  PROVE  s \o <<a>> = Append(s, a)
OBVIOUS

LEMMA TwoMore ==
  ASSUME NEW T, NEW s \in Seq(T), NEW a \in T, NEW b \in T
  PROVE  s \o <<a, b>> = Append(Append(s, a), b)
OBVIOUS

LEMMA FourMore ==
  ASSUME NEW T, NEW s \in Seq(T), NEW a \in T, NEW b \in T, NEW c \in T, NEW d \in T
  PROVE  s \o <<a, b, c, d>> = Append(Append(Append(Append(s, a), b), c), d)
OBVIOUS

LEMMA CharsAre ==
  /\ {Quote, Backslash, Dollar, Apostrophe, Newline, Tab, "n", "t"} \subseteq Chars
  /\ Apostrophe # Backslash /\ Apostrophe # Quote /\ Apostrophe # Dollar
  /\ Backslash # Quote /\ Backslash # Dollar /\ Quote # Dollar
  /\ \A c \in {"n", "t"} : c # Quote /\ c # Backslash /\ c # Dollar
<1>1. {Quote, Backslash, Dollar, Apostrophe, Newline, Tab, "n", "t"} \subseteq Chars
  BY CharsAssumption DEF Escaped, Control
<1>2. /\ Apostrophe # Backslash /\ Apostrophe # Quote /\ Apostrophe # Dollar
      /\ Backslash # Quote /\ Backslash # Dollar /\ Quote # Dollar
      /\ \A c \in {"n", "t"} : c # Quote /\ c # Backslash /\ c # Dollar
  BY DEF Apostrophe, Backslash, Quote, Dollar
<1> QED BY <1>1, <1>2

LEMMA EncodedCharacters ==
  ASSUME NEW c \in Chars
  PROVE  InQuotes(c) \in Seq(Chars) /\ InApostrophes(c) \in Seq(Chars)
BY CharsAre DEF InQuotes, InApostrophes

LEMMA ApostrophizedAppend ==
  ASSUME NEW v \in Seq(Chars), NEW c \in Chars
  PROVE  Apostrophized(Append(v, c)) = Apostrophized(v) \o InApostrophes(c)
<1> DEFINE p == [i \in DOMAIN v |-> InApostrophes(v[i])]
           q == [i \in DOMAIN Append(v, c) |-> InApostrophes(Append(v, c)[i])]
<1>1. p \in Seq(Seq(Chars)) /\ InApostrophes(c) \in Seq(Chars)
  <2>1. DOMAIN v = 1..Len(v) /\ Len(v) \in Nat /\ \A i \in 1..Len(v) : InApostrophes(v[i]) \in Seq(Chars)
    BY EncodedCharacters
  <2> QED BY <2>1, EncodedCharacters
<1>2. q = Append(p, InApostrophes(c))
  BY <1>1, AppendProperties
<1> HIDE DEF p, q
<1>3. Concat(q) = Concat(p) \o InApostrophes(c)
  BY <1>1, <1>2, ConcatAppend
<1> QED BY <1>3 DEF p, q, Apostrophized

LEMMA QuotedAppend ==
  ASSUME NEW v \in Seq(Chars), NEW c \in Chars
  PROVE  Quoted(Append(v, c)) = Quoted(v) \o InQuotes(c)
<1> DEFINE p == [i \in DOMAIN v |-> InQuotes(v[i])]
           q == [i \in DOMAIN Append(v, c) |-> InQuotes(Append(v, c)[i])]
<1>1. p \in Seq(Seq(Chars)) /\ InQuotes(c) \in Seq(Chars)
  <2>1. DOMAIN v = 1..Len(v) /\ Len(v) \in Nat /\ \A i \in 1..Len(v) : InQuotes(v[i]) \in Seq(Chars)
    BY EncodedCharacters
  <2> QED BY <2>1, EncodedCharacters
<1>2. q = Append(p, InQuotes(c))
  BY <1>1, AppendProperties
<1> HIDE DEF p, q
<1>3. Concat(q) = Concat(p) \o InQuotes(c)
  BY <1>1, <1>2, ConcatAppend
<1> QED BY <1>3 DEF p, q, Quoted

LEMMA EncodedNothing ==
  Apostrophized(<<>>) = <<>> /\ Quoted(<<>>) = <<>>
BY ConcatNothing DEF Apostrophized, Quoted

ReadStates == [value : Seq(Chars), mode : {"bare", "quoted", "escape"}]

\* The machine of bash with v read.
Read(v, mode) == [value |-> v, mode |-> mode]

LEMMA ReadSteps ==
  ASSUME NEW v \in Seq(Chars), NEW c \in Chars
  PROVE  /\ ReadStep[Apostrophe][Read(v, "bare")] = Read(v, "quoted")
         /\ ReadStep[Apostrophe][Read(v, "quoted")] = Read(v, "bare")
         /\ ReadStep[Backslash][Read(v, "bare")] = Read(v, "escape")
         /\ ReadStep[Apostrophe][Read(v, "escape")] =
              Read(Append(v, Apostrophe), "bare")
         /\ c # Apostrophe =>
              ReadStep[c][Read(v, "quoted")] = Read(Append(v, c), "quoted")
<1>1. Apostrophe \in Chars /\ Backslash \in Chars /\ Apostrophe # Backslash
  BY CharsAre
<1>2. ASSUME NEW m \in {"bare", "quoted", "escape"}
      PROVE  /\ Read(v, m) \in ReadStates
             /\ Read(v, m).value = v
             /\ Read(v, m).mode = m
  BY DEF ReadStates, Read
<1>3. ASSUME NEW d \in Chars, NEW r \in ReadStates
      PROVE  ReadStep[d][r] =
               IF d = Apostrophe /\ r.mode # "escape"
               THEN [value |-> r.value, mode |-> IF r.mode = "bare" THEN "quoted" ELSE "bare"]
               ELSE IF d = Backslash /\ r.mode = "bare"
               THEN [value |-> r.value, mode |-> "escape"]
               ELSE [value |-> Append(r.value, d),
                     mode |-> IF r.mode = "escape" THEN "bare" ELSE r.mode]
  BY DEF ReadStep, ReadStates
<1>4. ReadStep[Apostrophe][Read(v, "bare")] = Read(v, "quoted")
  BY <1>1, <1>2, <1>3 DEF Read
<1>5. ReadStep[Apostrophe][Read(v, "quoted")] = Read(v, "bare")
  BY <1>1, <1>2, <1>3 DEF Read
<1>6. ReadStep[Backslash][Read(v, "bare")] = Read(v, "escape")
  BY <1>1, <1>2, <1>3 DEF Read
<1>7. ReadStep[Apostrophe][Read(v, "escape")] =
        Read(Append(v, Apostrophe), "bare")
  BY <1>1, <1>2, <1>3 DEF Read
<1>8. c # Apostrophe =>
        ReadStep[c][Read(v, "quoted")] = Read(Append(v, c), "quoted")
  BY <1>1, <1>2, <1>3 DEF Read
<1> QED BY <1>4, <1>5, <1>6, <1>7, <1>8

LEMMA EncodedTexts ==
  \A v \in Seq(Chars) : Quoted(v) \in Seq(Chars) /\ Apostrophized(v) \in Seq(Chars)
<1> DEFINE S == {v \in Seq(Chars) : Quoted(v) \in Seq(Chars) /\ Apostrophized(v) \in Seq(Chars)}
<1>1. <<>> \in S
  BY EncodedNothing, EmptySeq
<1>2. ASSUME NEW v \in S, NEW c \in Chars PROVE Append(v, c) \in S
  <2>1. Quoted(v) \o InQuotes(c) \in Seq(Chars) /\ Apostrophized(v) \o InApostrophes(c) \in Seq(Chars)
    BY EncodedCharacters, ConcatProperties
  <2> QED BY <2>1, QuotedAppend, ApostrophizedAppend, AppendProperties
<1>3. S = Seq(Chars)
  <2> HIDE DEF S
  <2>1. S \in SUBSET Seq(Chars)
    BY DEF S
  <2> QED BY <1>1, <1>2, <2>1, SeqInduct
<1> QED BY <1>3

\* Inside the apostrophes, with v read.
LEMMA ReadSoFar ==
  \A v \in Seq(Chars) :
    After(ReadStep, Read(<<>>, "bare"), <<Apostrophe>> \o Apostrophized(v)) =
      Read(v, "quoted")
<1> DEFINE start == Read(<<>>, "bare")
           word(v) == <<Apostrophe>> \o Apostrophized(v)
           S == {v \in Seq(Chars) :
                   After(ReadStep, start, word(v)) = Read(v, "quoted")}
<1>0. ASSUME NEW w \in Seq(Chars), NEW c \in Chars
      PROVE  After(ReadStep, start, Append(w, c)) = ReadStep[c][After(ReadStep, start, w)]
  BY AfterAppend
<1>1. <<>> \in S
  <2>1. word(<<>>) = Append(<<>>, Apostrophe) /\ <<>> \in Seq(Chars) /\ Apostrophe \in Chars
    <3>1. word(<<>>) = <<Apostrophe>> \o <<>>
      BY EncodedNothing
    <3>2. <<Apostrophe>> \o <<>> = Append(<<>>, Apostrophe)
      OBVIOUS
    <3> QED BY <3>1, <3>2, CharsAre, EmptySeq
  <2>2. After(ReadStep, start, <<>>) = start
    BY AfterNothing
  <2>3. After(ReadStep, start, Append(<<>>, Apostrophe)) = ReadStep[Apostrophe][start]
    BY <1>0, <2>1, <2>2
  <2> QED BY <2>1, <2>3, ReadSteps
<1>2. ASSUME NEW v \in S, NEW c \in Chars PROVE Append(v, c) \in S
  <2> DEFINE w == word(v)
  <2>1. w \in Seq(Chars) /\ v \in Seq(Chars) /\ Append(v, c) \in Seq(Chars)
    BY EncodedTexts, CharsAre, ConcatProperties, AppendProperties
  <2>2. word(Append(v, c)) = w \o InApostrophes(c)
    <3>1. <<Apostrophe>> \in Seq(Chars) /\ Apostrophized(v) \in Seq(Chars) /\ InApostrophes(c) \in Seq(Chars)
      BY <2>1, EncodedTexts, EncodedCharacters, CharsAre
    <3>2. Apostrophized(Append(v, c)) = Apostrophized(v) \o InApostrophes(c)
      BY <2>1, ApostrophizedAppend
    <3>3. (<<Apostrophe>> \o Apostrophized(v)) \o InApostrophes(c) =
            <<Apostrophe>> \o (Apostrophized(v) \o InApostrophes(c))
      BY <3>1, ConcatAssociative
    <3> QED BY <3>2, <3>3
  <2>3. After(ReadStep, start, w) = Read(v, "quoted")
    OBVIOUS
  <2> HIDE DEF w, word, start
  <2>4. CASE c # Apostrophe
    <3>1. w \o InApostrophes(c) = Append(w, c)
      BY <2>1, <2>4, OneMore DEF InApostrophes
    <3>2. After(ReadStep, start, Append(w, c)) = Read(Append(v, c), "quoted")
      BY <1>0, <2>1, <2>3, <2>4, ReadSteps
    <3> QED BY <2>1, <2>2, <3>1, <3>2
  <2>5. CASE c = Apostrophe
    <3>1. Apostrophe \in Chars /\ Backslash \in Chars
      BY CharsAre
    <3> DEFINE w1 == Append(w, Apostrophe)
               w2 == Append(w1, Backslash)
               w3 == Append(w2, Apostrophe)
               w4 == Append(w3, Apostrophe)
    <3>2. w \o InApostrophes(c) = w4
      BY <2>1, <2>5, <3>1, FourMore DEF InApostrophes
    <3>3. w1 \in Seq(Chars) /\ w2 \in Seq(Chars) /\ w3 \in Seq(Chars)
      BY <2>1, <3>1, AppendProperties
    <3>4. After(ReadStep, start, w1) = Read(v, "bare")
      BY <1>0, <2>1, <2>3, <3>1, ReadSteps
    <3> HIDE DEF w1
    <3>5. After(ReadStep, start, w2) = Read(v, "escape")
      BY <1>0, <2>1, <3>1, <3>3, <3>4, ReadSteps
    <3> HIDE DEF w2
    <3>6. After(ReadStep, start, w3) = Read(Append(v, c), "bare")
      BY <1>0, <2>1, <2>5, <3>1, <3>3, <3>5, ReadSteps
    <3> HIDE DEF w3
    <3>7. After(ReadStep, start, w4) = Read(Append(v, c), "quoted")
      BY <1>0, <2>1, <3>1, <3>3, <3>6, ReadSteps
    <3> QED BY <2>1, <2>2, <3>2, <3>7
  <2> QED BY <2>4, <2>5
<1>3. S = Seq(Chars)
  <2> HIDE DEF S
  <2>1. S \in SUBSET Seq(Chars)
    BY DEF S
  <2> QED BY <1>1, <1>2, <2>1, SeqInduct
<1> QED BY <1>3

\* Whatever is in a value, bash reads from the script what the session has.
\* (shellEscape, buildScript)
THEOREM ScriptKeepsValues ==
  \A v \in Seq(Chars) : ReadWord(ShellEscape(v)) = v
<1> TAKE v \in Seq(Chars)
<1> DEFINE w == <<Apostrophe>> \o Apostrophized(v)
<1>1. w \in Seq(Chars) /\ Apostrophe \in Chars
  BY EncodedTexts, CharsAre, ConcatProperties
<1>2. ShellEscape(v) = Append(w, Apostrophe)
  BY <1>1, OneMore DEF ShellEscape, Apostrophized
<1>3. After(ReadStep, Read(<<>>, "bare"), w) = Read(v, "quoted")
  BY ReadSoFar
<1> HIDE DEF w
<1>4. After(ReadStep, Read(<<>>, "bare"), Append(w, Apostrophe)) =
        Read(v, "bare")
  BY <1>1, <1>3, AfterAppend, ReadSteps
<1> QED BY <1>2, <1>4 DEF ReadWord, Read

(***************************************************************************)
(* What bash dumps parseExportLine reads back                              *)
(***************************************************************************)

\* The machine of the Replacer with v replaced.
Replaced(v, escape) == [value |-> v, escape |-> escape]

LEMMA UnescapeSteps ==
  ASSUME NEW v \in Seq(Chars), NEW c \in Chars
  PROVE  /\ UnescapeStep[Backslash][Replaced(v, FALSE)] = Replaced(v, TRUE)
         /\ c \in {Backslash, Quote} =>
              UnescapeStep[c][Replaced(v, TRUE)] = Replaced(Append(v, c), FALSE)
         /\ c # Backslash => UnescapeStep[c][Replaced(v, FALSE)] = Replaced(Append(v, c), FALSE)
<1>1. Backslash \in Chars
  BY CharsAre
<1>2. ASSUME NEW e \in BOOLEAN
      PROVE  /\ Replaced(v, e) \in [value : Seq(Chars), escape : BOOLEAN]
             /\ Replaced(v, e).value = v
             /\ Replaced(v, e).escape = e
  BY DEF Replaced
<1>3. ASSUME NEW d \in Chars, NEW r \in [value : Seq(Chars), escape : BOOLEAN]
      PROVE  UnescapeStep[d][r] =
               IF r.escape THEN [value |-> r.value \o Unescaped(d), escape |-> FALSE]
               ELSE IF d = Backslash THEN [value |-> r.value, escape |-> TRUE]
               ELSE [value |-> Append(r.value, d), escape |-> FALSE]
  BY DEF UnescapeStep
<1>4. UnescapeStep[Backslash][Replaced(v, FALSE)] = Replaced(v, TRUE)
  BY <1>1, <1>2, <1>3 DEF Replaced
<1>5. ASSUME c \in {Backslash, Quote}
      PROVE  UnescapeStep[c][Replaced(v, TRUE)] = Replaced(Append(v, c), FALSE)
  <2>1. c # "n" /\ c # "t"
    BY <1>5, CharsAre
  <2>2. Unescaped(c) = <<c>>
    BY <1>5, <2>1 DEF Unescaped
  <2>3. v \o <<c>> = Append(v, c)
    BY OneMore
  <2>4. UnescapeStep[c][Replaced(v, TRUE)] = [value |-> v \o Unescaped(c), escape |-> FALSE]
    BY <1>2, <1>3
  <2> QED BY <2>2, <2>3, <2>4 DEF Replaced
<1>6. c # Backslash => UnescapeStep[c][Replaced(v, FALSE)] = Replaced(Append(v, c), FALSE)
  BY <1>2, <1>3 DEF Replaced
<1> QED BY <1>4, <1>5, <1>6

LEMMA Unquoted ==
  \A v \in Seq(Chars \ {Dollar}) :
    After(UnescapeStep, Replaced(<<>>, FALSE), Quoted(v)) = Replaced(v, FALSE)
<1>a. ASSUME NEW start, NEW w \in Seq(Chars), NEW c \in Chars
      PROVE  After(UnescapeStep, start, Append(w, c)) = UnescapeStep[c][After(UnescapeStep, start, w)]
  BY AfterAppend
<1> DEFINE T == Chars \ {Dollar}
           start == Replaced(<<>>, FALSE)
           S == {v \in Seq(T) : After(UnescapeStep, start, Quoted(v)) = Replaced(v, FALSE)}
<1>0. ASSUME NEW w \in Seq(Chars), NEW c \in Chars
      PROVE  After(UnescapeStep, start, Append(w, c)) = UnescapeStep[c][After(UnescapeStep, start, w)]
  BY <1>a
<1>t. \A v \in Seq(T) : v \in Seq(Chars)
  BY SeqMonotonic
<1>1. <<>> \in S
  <2>1. After(UnescapeStep, start, <<>>) = start
    BY AfterNothing
  <2>2. <<>> \in Seq(T)
    BY EmptySeq
  <2> QED BY <2>1, <2>2, EncodedNothing
<1>2. ASSUME NEW v \in S, NEW c \in T PROVE Append(v, c) \in S
  <2> DEFINE w == Quoted(v)
  <2>1. v \in Seq(T) /\ v \in Seq(Chars) /\ w \in Seq(Chars) /\ c \in Chars /\ c # Dollar
    BY <1>t, EncodedTexts
  <2>2. Append(v, c) \in Seq(T) /\ Quoted(Append(v, c)) = w \o InQuotes(c)
    BY <2>1, QuotedAppend, AppendProperties
  <2>3. After(UnescapeStep, start, w) = Replaced(v, FALSE)
    OBVIOUS
  <2> HIDE DEF w, start
  <2>4. CASE c \in {Backslash, Quote}
    <3>1. Backslash \in Chars
      BY CharsAre
    <3>2. w \o InQuotes(c) = Append(Append(w, Backslash), c)
      BY <2>1, <2>4, <3>1, TwoMore DEF InQuotes, Escaped
    <3>3. Append(w, Backslash) \in Seq(Chars)
      BY <2>1, <3>1, AppendProperties
    <3>4. After(UnescapeStep, start, Append(w, Backslash)) = Replaced(v, TRUE)
      BY <1>0, <2>1, <2>3, <3>1, UnescapeSteps
    <3>5. After(UnescapeStep, start, Append(Append(w, Backslash), c)) = Replaced(Append(v, c), FALSE)
      BY <1>0, <2>1, <2>4, <3>3, <3>4, UnescapeSteps
    <3> QED BY <2>2, <3>2, <3>5
  <2>5. CASE c \notin {Backslash, Quote}
    <3>1. w \o InQuotes(c) = Append(w, c)
      BY <2>1, <2>5, OneMore DEF InQuotes, Escaped
    <3>2. After(UnescapeStep, start, Append(w, c)) = Replaced(Append(v, c), FALSE)
      BY <1>0, <2>1, <2>3, <2>5, UnescapeSteps
    <3> QED BY <2>2, <3>1, <3>2
  <2> QED BY <2>4, <2>5
<1>3. S = Seq(T)
  <2> HIDE DEF S
  <2>1. S \in SUBSET Seq(T)
    BY DEF S
  <2> QED BY <1>1, <1>2, <2>1, SeqInduct
<1> QED BY <1>3

\* Quoting puts no quote at the beginning, and at the end only one that is there.
LEMMA QuotedEnds ==
  \A v \in Seq(Chars) : v # <<>> =>
    /\ Len(Quoted(v)) \in Nat \ {0}
    /\ Quoted(v)[1] # Quote
    /\ Quoted(v)[Len(Quoted(v))] = v[Len(v)]
<1> DEFINE S == {v \in Seq(Chars) : v # <<>> =>
                   /\ Len(Quoted(v)) \in Nat \ {0}
                   /\ Quoted(v)[1] # Quote
                   /\ Quoted(v)[Len(Quoted(v))] = v[Len(v)]}
<1>1. <<>> \in S
  BY EmptySeq
<1>2. ASSUME NEW v \in S, NEW c \in Chars PROVE Append(v, c) \in S
  <2> DEFINE w == Quoted(v)
             u == w \o InQuotes(c)
  <2>1. v \in Seq(Chars) /\ w \in Seq(Chars) /\ InQuotes(c) \in Seq(Chars)
    BY EncodedTexts, EncodedCharacters
  <2>2. Quoted(Append(v, c)) = u
    BY <2>1, QuotedAppend
  <2>3. /\ Len(InQuotes(c)) \in {1, 2}
        /\ InQuotes(c)[1] # Quote
        /\ InQuotes(c)[Len(InQuotes(c))] = c
    BY CharsAre DEF InQuotes, Escaped
  <2>4. /\ Len(u) = Len(w) + Len(InQuotes(c))
        /\ Len(w) \in Nat
        /\ \A i \in 1..Len(u) : u[i] = IF i <= Len(w) THEN w[i] ELSE InQuotes(c)[i - Len(w)]
    BY <2>1, ConcatProperties
  <2>5. v = <<>> => w = <<>> /\ Len(w) = 0
    BY EncodedNothing, EmptySeq
  <2>6. v # <<>> => Len(w) \in Nat \ {0} /\ w[1] # Quote
    OBVIOUS
  <2>7. Append(v, c) \in Seq(Chars) /\ Append(v, c)[Len(Append(v, c))] = c
    BY <2>1, AppendProperties
  <2> HIDE DEF w, u
  <2>8. Len(u) \in Nat \ {0} /\ u[Len(u)] = c
    BY <2>3, <2>4
  <2>9. u[1] # Quote
    <3>1. CASE v = <<>>
      BY <2>3, <2>4, <2>5, <3>1
    <3>2. CASE v # <<>>
      BY <2>3, <2>4, <2>6, <3>2
    <3> QED BY <3>1, <3>2
  <2> QED BY <2>2, <2>7, <2>8, <2>9
<1>3. S = Seq(Chars)
  <2> HIDE DEF S
  <2>1. S \in SUBSET Seq(Chars)
    BY DEF S
  <2> QED BY <1>1, <1>2, <2>1, SeqInduct
<1> QED BY <1>3

LEMMA QuotesTrimmed ==
  ASSUME NEW w \in Seq(Chars),
         w # <<>> => w[1] # Quote /\ w[Len(w)] # Quote
  PROVE  TrimQuotes(<<Quote>> \o w \o <<Quote>>) = w
<1> DEFINE t == <<Quote>> \o w \o <<Quote>>
           n == Len(w)
           kept == {i \in DOMAIN t : t[i] # Quote}
<1>1. /\ n \in Nat /\ DOMAIN t = 1..(n + 2)
      /\ t[1] = Quote /\ t[n + 2] = Quote
      /\ \A i \in 1..n : t[i + 1] = w[i] /\ w[i] \in Chars
  <2>1. <<Quote>> \o w \in Seq(Chars) /\ <<Quote>> \in Seq(Chars) /\ Len(<<Quote>>) = 1
    BY CharsAre, ConcatProperties
  <2>2. /\ Len(<<Quote>> \o w) = n + 1
        /\ (<<Quote>> \o w)[1] = Quote
        /\ \A i \in 1..n : (<<Quote>> \o w)[i + 1] = w[i]
    BY <2>1, ConcatProperties
  <2> HIDE DEF n
  <2>3. n \in Nat /\ \A i \in 1..n : w[i] \in Chars
    BY DEF n
  <2>4. /\ t \in Seq(Chars) /\ Len(t) = n + 2
        /\ \A i \in 1..(n + 2) : t[i] = IF i <= n + 1 THEN (<<Quote>> \o w)[i] ELSE Quote
    BY <2>1, <2>2, <2>3, ConcatProperties
  <2> QED BY <2>2, <2>3, <2>4
<1>2. CASE n = 0
  <2>1. w = <<>>
    BY <1>2, EmptySeq
  <2> HIDE DEF t, n
  <2>2. kept = {}
    BY <1>1, <1>2
  <2> QED BY <2>1, <2>2 DEF TrimQuotes, t
<1>3. CASE n # 0
  <2>1. w[1] # Quote /\ w[n] # Quote
    BY <1>3, EmptySeq
  <2> HIDE DEF t, n
  <2>2. 2 \in kept /\ n + 1 \in kept /\ \A i \in kept : i \in 2..(n + 1)
    BY <1>1, <1>3, <2>1
  <2> HIDE DEF kept
  <2>3. Min(kept) = 2 /\ Max(kept) = n + 1
    BY <1>1, <2>2 DEF Min, Max
  <2>4. SubSeq(t, 2, n + 1) = w
    <3>1. /\ SubSeq(t, 2, n + 1) \in Seq(Chars)
          /\ Len(SubSeq(t, 2, n + 1)) = n
          /\ \A i \in 1..n : SubSeq(t, 2, n + 1)[i] = t[i + 1]
      <4>1. \A i \in 2..(n + 1) : t[i] \in Chars
        <5> SUFFICES ASSUME NEW i \in 2..(n + 1) PROVE t[i] \in Chars
          OBVIOUS
        <5>1. PICK j \in 1..n : i = j + 1
          BY <1>1
        <5> QED BY <1>1, <5>1
      <4> QED BY <1>1, <1>3, <4>1, SubSeqProperties
    <3> QED BY <1>1, <3>1, SeqEqual DEF n
  <2> QED BY <2>2, <2>3, <2>4 DEF TrimQuotes, t, kept
<1> QED BY <1>1, <1>2, <1>3

\* A value that is safe comes out of the dump as it went in.
\* (parseExportLine on a line of export -p)
THEOREM DumpKeepsValues ==
  \A v \in Seq(Chars) : Safe(v) => Parse(Dump(v)) = v
<1> SUFFICES ASSUME NEW v \in Seq(Chars), Safe(v) PROVE Parse(Dump(v)) = v
  OBVIOUS
<1>1. Dump(v) = <<Quote>> \o Quoted(v) \o <<Quote>>
  BY DEF Safe, Dump, DumpInQuotes, Quoted
<1>2. v \in Seq(Chars \ {Dollar})
  <2>1. \A i \in 1..Len(v) : v[i] \in Chars \ {Dollar}
    BY DEF Safe, ToSet
  <2> QED BY <2>1
<1>3. v # <<>> => v[Len(v)] # Quote
  BY DEF Safe, Last
<1>4. Quoted(v) \in Seq(Chars) /\ (Quoted(v) # <<>> => Quoted(v)[1] # Quote /\ Quoted(v)[Len(Quoted(v))] # Quote)
  BY <1>3, EncodedTexts, EncodedNothing, QuotedEnds
<1>5. TrimQuotes(Dump(v)) = Quoted(v)
  BY <1>1, <1>4, QuotesTrimmed
<1>6. After(UnescapeStep, [value |-> <<>>, escape |-> FALSE], Quoted(v)) =
        [value |-> v, escape |-> FALSE]
  BY <1>2, Unquoted DEF Replaced
<1> QED BY <1>5, <1>6 DEF Parse, Unescape
=============================================================================
