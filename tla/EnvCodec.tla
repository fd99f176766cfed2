------------------------------ MODULE EnvCodec ------------------------------
(***************************************************************************)
(* How the value of a variable travels from one run to the next: bash      *)
(* prints it quoted (export -p), parseExportLine takes the quotes off, and *)
(* shellEscape quotes it for the script the next bash reads.  A value is a *)
(* sequence of characters.                                                 *)
(***************************************************************************)
EXTENDS Integers, SequencesExt, FiniteSetsExt

CONSTANT Chars  \* characters, each a string of length one

Quote == "\""
Backslash == "\\"
Apostrophe == "'"
Newline == "\n"
Tab == "\t"

Dollar == "$"      \* bash and the code treat a backquote just like it

\* bash: export -p escapes these inside double quotes, and prints a value with
\* control characters as $'...'.
Escaped == {Quote, Backslash, Dollar}
Control == {Newline, Tab}

ASSUME CharsAssumption ==
  Escaped \cup Control \cup {Apostrophe, "n", "t"} \subseteq Chars

\* Sequences, one after the other.
Concat(parts) ==
  LET upTo[i \in 0..Len(parts)] == IF i = 0 THEN <<>> ELSE upTo[i - 1] \o parts[i]
  IN upTo[Len(parts)]

\* The state of a machine after it has read a text: step says where each character
\* takes it.
After(step, start, text) ==
  LET after[i \in 0..Len(text)] == IF i = 0 THEN start ELSE step[text[i]][after[i - 1]]
  IN after[Len(text)]

InQuotes(c) == IF c \in Escaped THEN <<Backslash, c>> ELSE <<c>>

DumpInQuotes(value) ==
  <<Quote>> \o Concat([i \in DOMAIN value |-> InQuotes(value[i])]) \o <<Quote>>

DumpAnsiC(value) ==
  <<Dollar, Apostrophe>> \o Concat([i \in DOMAIN value |->
                 CASE value[i] = Newline -> <<Backslash, "n">>
                   [] value[i] = Tab -> <<Backslash, "t">>
                   [] value[i] \in {Apostrophe, Backslash} -> <<Backslash, value[i]>>
                   [] OTHER -> <<value[i]>>])
    \o <<Apostrophe>>

Dump(value) ==
  IF ToSet(value) \cap Control # {} THEN DumpAnsiC(value) ELSE DumpInQuotes(value)

\* parseExportLine: strings.Trim of the quotes on both sides, however many.
TrimQuotes(text) ==
  LET kept == {i \in DOMAIN text : text[i] # Quote} IN
    IF kept = {} THEN <<>> ELSE SubSeq(text, Min(kept), Max(kept))

\* Mutant of Unescaped: an escaped backslash is not replaced.
UnescapedNoBackslash(c) ==
  CASE c = "n" -> <<Newline>>
    [] c = "t" -> <<Tab>>
    [] c = Quote -> <<c>>
    [] OTHER -> <<Backslash, c>>

\* What the Replacer of parseExportLine makes of a backslash and a character.
Unescaped(c) ==
  CASE c = "n" -> <<Newline>>
    [] c = "t" -> <<Tab>>
    [] c \in {Backslash, Quote} -> <<c>>
    [] OTHER -> <<Backslash, c>>

\* parseExportLine: the Replacer, from left to right.
UnescapeStep ==
  [c \in Chars |-> [done \in [value : Seq(Chars), escape : BOOLEAN] |->
     IF done.escape THEN [value |-> done.value \o Unescaped(c), escape |-> FALSE]
     ELSE IF c = Backslash THEN [value |-> done.value, escape |-> TRUE]
     ELSE [value |-> Append(done.value, c), escape |-> FALSE]]]

Unescape(text) ==
  LET end == After(UnescapeStep, [value |-> <<>>, escape |-> FALSE], text)
  IN IF end.escape THEN Append(end.value, Backslash) ELSE end.value

Parse(text) == Unescape(TrimQuotes(text))

\* An apostrophe ends the quotes, and is escaped.
InApostrophes(c) ==
  IF c = Apostrophe THEN <<Apostrophe, Backslash, Apostrophe, Apostrophe>> ELSE <<c>>

\* Single quotes around the value.
ShellEscape(value) ==
  <<Apostrophe>> \o Concat([i \in DOMAIN value |-> InApostrophes(value[i])]) \o <<Apostrophe>>

\* bash: the word it reads from the script.
ReadStep ==
  [c \in Chars |-> [read \in [value : Seq(Chars), mode : {"bare", "quoted", "escape"}] |->
     IF c = Apostrophe /\ read.mode # "escape"
     THEN [value |-> read.value, mode |-> IF read.mode = "bare" THEN "quoted" ELSE "bare"]
     ELSE IF c = Backslash /\ read.mode = "bare"
     THEN [value |-> read.value, mode |-> "escape"]
     ELSE [value |-> Append(read.value, c),
           mode |-> IF read.mode = "escape" THEN "bare" ELSE read.mode]]]

ReadWord(word) == After(ReadStep, [value |-> <<>>, mode |-> "bare"], word).value

\* The values that come back as they were.  The others change with every run:
\* parseExportLine knows neither \$ nor $'...', and Trim takes a quote that
\* belongs to the value.
Safe(value) ==
  /\ ToSet(value) \cap (Control \cup {Dollar}) = {}
  /\ value # <<>> => Last(value) # Quote
=============================================================================
