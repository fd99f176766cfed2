------------------------------- MODULE Stdout -------------------------------
(***************************************************************************)
(* One run seen from its stdout: bash sets up the session's environment,   *)
(* runs the command, and then dumps environment and directory between      *)
(* markers, on the pipe that also carries the command's output.  The       *)
(* scanner of pump takes the two apart again: output goes to the event     *)
(* channel and to Capture, the dump becomes the session's state.           *)
(*                                                                         *)
(* The pipe is a sequence of pieces, each what one write puts there; a     *)
(* background process of the command writes between any two of them.       *)
(* Text is text: it has no marker and no "=" in it.  A line that is longer *)
(* than the scanner's buffer ends the scanner.                             *)
(***************************************************************************)
EXTENDS Capture, EnvCodec

CONSTANTS
  Names,         \* names of variables
  Values,        \* values the command gives to one
  NeverPersist,  \* sessionVarsNeverPersist
  Inherited,     \* environment of the agent's process, which every bash starts with
  Envs,          \* environments the session may have
  Dirs,          \* directories
  BadName,       \* a key that is no name: bash refuses to export it
  NoDir          \* the empty pwdOut

ASSUME EnvAssumption ==
  /\ NeverPersist \subseteq Names /\ BadName \notin Names /\ NoDir \notin Dirs
  /\ \A e \in Envs : e \in [DOMAIN e -> Seq(Chars)] /\ DOMAIN e \subseteq Names \cup {BadName}
  /\ Values \subseteq Seq(Chars)
  /\ Inherited \in Envs /\ DOMAIN Inherited \subseteq Names

\* bash exports variables of its own, such as SHLVL, to everything it runs.
ASSUME OwnAssumption == DOMAIN Inherited \cap NeverPersist # {}

VARIABLES
  at,          \* how far the script has come
  left,        \* variables export -p has still to print
  shell, dir,  \* bash: exported variables, working directory
  line,        \* pieces on the pipe since the last newline
  scanner,     \* "on", or "ended" by a line that is too long
  inEnv, envOut, pwdOut,
  env, cwd,    \* the session
  before,      \* history: the session's state when the run began
  out,         \* history: the lines handed to output.add
  said,        \* history: what the command itself has written
  changed,     \* the command has changed a variable or the directory (a bound)
  background   \* a background process has written (a bound)

captureVars == <<max, buf, file, bytes, spilled, all, sent, disk, answer>>
bash == <<at, left, shell, dir, changed, background, said>>
scan == <<line, scanner, inEnv, envOut, pwdOut, out>>
session == <<env, cwd, before>>

Override(base, top) ==
  [n \in DOMAIN base \cup DOMAIN top |-> IF n \in DOMAIN top THEN top[n] ELSE base[n]]

\* Mutant of Script: no variable is left out.
ScriptOfAll(e) == [n \in DOMAIN e \ {BadName} |-> ReadWord(ShellEscape(e[n]))]

\* buildScript: the exports at its head, as bash reads them.
Script(e) ==
  [n \in DOMAIN e \ (NeverPersist \cup {BadName}) |-> ReadWord(ShellEscape(e[n]))]

\* The environment a run's command starts with.
Restored(e) == Override(Inherited, Script(e))

\* An environment of one variable.
Variable(n, value) == [m \in {n} |-> value]

RunInit ==
  /\ Init
  /\ env \in Envs /\ cwd \in Dirs
  /\ before = [env |-> env, cwd |-> cwd]
  /\ at = "command" /\ left = {}
  /\ shell = Restored(env) /\ dir = cwd
  /\ line = <<>> /\ scanner = "on"
  /\ inEnv = FALSE /\ envOut = <<>> /\ pwdOut = NoDir
  /\ out = <<>> /\ said = <<>>
  /\ changed = FALSE /\ background = FALSE

-----------------------------------------------------------------------------
(***************************************************************************)
(* The scanner                                                             *)
(***************************************************************************)

Text(by, n) == [kind |-> "text", by |-> by, length |-> n]
Mark(kind) == [kind |-> kind]
Export(n, value) == [kind |-> "export", name |-> n, text |-> Dump(value)]
Pwd(d) == [kind |-> "pwd", dir |-> d]

LengthOf(pieces) ==
  Total([i \in DOMAIN pieces |-> IF pieces[i].kind = "text" THEN pieces[i].length ELSE 1])

\* Mutant of KindOf: the line with the exit status is not looked for.
KindOfNoExit(pieces) ==
  IF Last(pieces) = Mark("start") THEN "start"
  ELSE IF pieces = <<Mark("end")>> THEN "end"
  ELSE IF inEnv THEN "entry"
  ELSE IF Head(pieces).kind = "pwd" THEN "pwd"
  ELSE "output"

\* What the scanner takes a line for: the first test that holds.  The start
\* marker is looked for at the end of a line, those of directory and exit
\* status at its beginning.
KindOf(pieces) ==
  IF Last(pieces) = Mark("start") THEN "start"
  ELSE IF pieces = <<Mark("end")>> THEN "end"
  ELSE IF inEnv THEN "entry"
  ELSE IF Head(pieces).kind \in {"pwd", "exit"} THEN Head(pieces).kind
  ELSE "output"

\* Mutant of Visible: a line that ends in the start marker is no output.
VisibleWholeLines(pieces) == IF KindOf(pieces) = "output" THEN pieces ELSE <<>>

\* The part of a line that is output.
Visible(pieces) ==
  CASE KindOf(pieces) = "start" -> Front(pieces)
    [] KindOf(pieces) = "output" -> pieces
    [] OTHER -> <<>>

\* parseExportLine on a line of the dump.  Behind text from elsewhere it is an
\* entry all the same, with a key nothing can use.
Entry(pieces) ==
  IF Last(pieces).kind # "export" THEN <<>>
  ELSE Variable(IF Len(pieces) = 1 THEN Last(pieces).name ELSE BadName, Parse(Last(pieces).text))

Deliver(pieces) ==
  /\ out' = Append(out, pieces)
  /\ LET n == LengthOf(pieces) IN
       AddKept(n) \/ AddUnspillable(n) \/ AddSpilled(n) \/ AddWriteFails(n)

Scan(pieces) ==
  LET kind == KindOf(pieces) IN
    /\ inEnv' = (kind = "start" \/ (inEnv /\ kind # "end"))
    /\ envOut' = IF kind = "entry" THEN Override(envOut, Entry(pieces)) ELSE envOut
    /\ pwdOut' = IF kind = "pwd" THEN Head(pieces).dir ELSE pwdOut
    /\ IF Visible(pieces) = <<>> THEN UNCHANGED <<out, captureVars>>
       ELSE Deliver(Visible(pieces))

\* A piece comes through the pipe, perhaps with a newline.  Nobody reads it when
\* the scanner has ended.
Write(piece, newline) ==
  /\ UNCHANGED <<scanner, session>>
  /\ IF scanner = "ended" THEN UNCHANGED <<scan, captureVars>>
     ELSE IF newline THEN line' = <<>> /\ Scan(Append(line, piece))
     ELSE /\ line' = Append(line, piece)
          /\ UNCHANGED <<inEnv, envOut, pwdOut, out, captureVars>>

-----------------------------------------------------------------------------
(***************************************************************************)
(* bash                                                                    *)
(***************************************************************************)

\* The command writes.  Without a newline it is at least a byte.
Say(n, newline) ==
  /\ at = "command" /\ Len(said) < MaxLines
  /\ newline \/ n > 0
  /\ said' = Append(said, n)
  /\ Write(Text("command", n), newline)
  /\ UNCHANGED <<at, left, shell, dir, changed, background>>

\* The command writes a line that does not fit into the scanner's buffer: Scan
\* returns false, and the goroutine that reads the pipe is gone.  bash may block
\* at any write from here on.
SayTooMuch ==
  /\ at = "command" /\ scanner = "on"
  /\ scanner' = "ended" /\ line' = <<>>
  /\ UNCHANGED <<bash, session, inEnv, envOut, pwdOut, out, captureVars>>

\* export, unset or cd in the command.  bash's own variables change and stay.
Change ==
  /\ at = "command" /\ ~changed
  /\ changed' = TRUE
  /\ \/ /\ \E n \in Names, v \in Values : shell' = Override(shell, Variable(n, v))
        /\ UNCHANGED dir
     \/ /\ \E n \in DOMAIN shell \ NeverPersist :
             shell' = [m \in DOMAIN shell \ {n} |-> shell[m]]
        /\ UNCHANGED dir
     \/ dir' \in Dirs /\ UNCHANGED shell
  /\ UNCHANGED <<at, left, background, said, scan, session, captureVars>>

\* A process the command left behind writes; the pipe is open until it ends.
Background(n, newline) ==
  /\ at \notin {"ended", "done"} /\ ~background
  /\ newline \/ n > 0
  /\ background' = TRUE
  /\ Write(Text("background", n), newline)
  /\ UNCHANGED <<at, left, shell, dir, changed, said>>

commandVars == <<shell, dir, changed, background, said>>

DumpStart ==
  /\ at = "command" /\ at' = "vars" /\ left' = DOMAIN shell
  /\ Write(Mark("start"), TRUE) /\ UNCHANGED commandVars

DumpExport ==
  /\ at = "vars" /\ UNCHANGED at
  /\ \E n \in left : left' = left \ {n} /\ Write(Export(n, shell[n]), TRUE)
  /\ UNCHANGED commandVars

DumpEnd ==
  /\ at = "vars" /\ left = {} /\ at' = "pwd" /\ UNCHANGED left
  /\ Write(Mark("end"), TRUE) /\ UNCHANGED commandVars

DumpPwd ==
  /\ at = "pwd" /\ at' = "exit" /\ UNCHANGED left
  /\ Write(Pwd(dir), TRUE) /\ UNCHANGED commandVars

DumpExit ==
  /\ at = "exit" /\ at' = "exited" /\ UNCHANGED left
  /\ Write(Mark("exit"), TRUE) /\ UNCHANGED commandVars

\* The command calls exit, or bash is killed, in the dump at the latest.
Stop ==
  /\ at \in {"command", "vars", "pwd", "exit"} /\ at' = "exited"
  /\ UNCHANGED <<left, commandVars, scan, session, captureVars>>

-----------------------------------------------------------------------------

\* The pipe is closed by its last writer: what has no newline is a line too.
Eof ==
  /\ at = "exited" /\ at' = "ended"
  /\ line' = <<>>
  /\ IF line = <<>> THEN UNCHANGED <<inEnv, envOut, pwdOut, out, captureVars>>
     ELSE Scan(line)
  /\ UNCHANGED <<left, commandVars, scanner, session>>

\* Mutants of EnvAfter and CwdAfter: a run that dumped nothing is no exception.
EnvAsDumped == envOut
CwdAsDumped == pwdOut

EnvAfter == IF DOMAIN envOut # {} THEN envOut ELSE env
CwdAfter == IF pwdOut # NoDir THEN pwdOut ELSE cwd

\* pump: the dump becomes the session's state.
Persist ==
  /\ at = "ended" /\ at' = "done"
  /\ env' = EnvAfter /\ cwd' = CwdAfter
  /\ UNCHANGED <<before, left, commandVars, scan, captureVars>>

\* RunRequest answers.
Respond == at = "done" /\ End /\ UNCHANGED <<bash, scan, session>>

RunNext ==
  \/ \E n \in Lengths, newline \in BOOLEAN : Say(n, newline) \/ Background(n, newline)
  \/ SayTooMuch \/ Change
  \/ DumpStart \/ DumpExport \/ DumpEnd \/ DumpPwd \/ DumpExit
  \/ Stop \/ Eof \/ Persist \/ Respond

RunVars == <<bash, scan, session, captureVars>>
RunSpec == RunInit /\ [][RunNext]_RunVars

-----------------------------------------------------------------------------
(***************************************************************************)
(* Properties                                                              *)
(***************************************************************************)

StdoutTypeOK ==
  /\ at \in {"command", "vars", "pwd", "exit", "exited", "ended", "done"}
  /\ left \subseteq Names /\ DOMAIN shell \subseteq Names /\ dir \in Dirs
  /\ scanner \in {"on", "ended"} /\ inEnv \in BOOLEAN
  /\ DOMAIN envOut \subseteq Names \cup {BadName} /\ pwdOut \in Dirs \cup {NoDir}
  /\ DOMAIN env \subseteq Names \cup {BadName} /\ cwd \in Dirs
  /\ changed \in BOOLEAN /\ background \in BOOLEAN

\* The lengths of the command's own pieces.
Own(piece) ==
  IF piece.kind = "text" /\ piece.by = "command" THEN <<piece.length>> ELSE <<>>

ByCommand(pieces) == Concat([i \in DOMAIN pieces |-> Own(pieces[i])])

\* Every byte the command writes reaches output.add, in order and once, whatever
\* its last line looks like and whatever a background process writes between.
\* (pump: the start marker is looked for at the end of a line)
CommandOutputKept ==
  scanner = "on" => ByCommand(Concat(out) \o line) = said

\* A caller sees nothing of the dump, unless a background process has written
\* into it; also when bash is killed half-way.
NoDumpInOutput ==
  ~background => \A i \in DOMAIN out : \A j \in DOMAIN out[i] : out[i][j].kind = "text"

ScriptCompleted == pwdOut # NoDir

\* After a script that came to its end the next run starts where this one
\* stopped: same directory, same variables with the same values, for values the
\* quoting preserves; and bash's own variables start afresh.  An inherited
\* variable that was unset is back.
\* (buildScript, parseExportLine, shellEscape, pump)
NextRunContinues ==
  (at = "done" /\ ScriptCompleted /\ ~background /\ \A n \in DOMAIN shell : Safe(shell[n])) =>
    /\ cwd = dir
    /\ Restored(env) = Override(Inherited, [n \in DOMAIN shell \ NeverPersist |-> shell[n]])

\* What a run leaves behind comes from its dump alone: without one (the command
\* called exit, or wrote a line the scanner cannot take) nothing changes, and the
\* directory changes only with the environment, all of it.
StateFromDump ==
  at = "done" /\ ~background =>
    /\ DOMAIN envOut = {} => env = before.env /\ cwd = before.cwd
    /\ cwd # before.cwd => DOMAIN env = DOMAIN shell
=============================================================================
