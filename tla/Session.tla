------------------------------ MODULE Session ------------------------------
(***************************************************************************)
(* The sandbox agent's session: runs of bash that share a persisted        *)
(* environment and working directory, and for each run the goroutines that *)
(* carry its output: the process group writing to two pipes, a scanner per *)
(* pipe, runGroup, the pump that finalizes the run, and the consumer of    *)
(* the event channel (RunRequest, or the handler of a stream).             *)
(*                                                                         *)
(* Output is abstracted to lines that are counted, and what is persisted   *)
(* to the run it comes from.  Caps and spill files are in Capture.         *)
(***************************************************************************)
EXTENDS Integers, SequencesExt, FiniteSetsExt

CONSTANTS
  Runs,         \* the requests to run a command, each made once
  NoRun,        \* the run a fresh session's environment comes from
  MaxSessions,  \* sessions the server creates (a bound)
  MaxLines,     \* lines a command writes per stream (a bound)
  PipeCap,      \* lines a pipe holds
  ChanCap       \* events the channel holds; 64 in the code

ASSUME RunsAssumption == NoRun \notin Runs
ASSUME BoundsAssumption ==
  /\ MaxSessions \in Nat \ {0} /\ MaxLines \in Nat
  /\ PipeCap \in Nat \ {0} /\ ChanCap \in Nat \ {0}

Streams == {"stdout", "stderr"}
Sessions == 1..MaxSessions
NoSession == 0

VARIABLES
  session,   \* Server.session: the current session, or NoSession
  created,   \* how many sessions were created
  env, cwd,  \* per session: the run whose dump it holds
  log,       \* history: runs in the order they updated their session
  sess,      \* per run: the session it runs in
  base,      \* per run: the <<env, cwd>> its script starts from
  before,    \* history, per run: runs whose end was seen when it started
  ctx,       \* per run: its context is cancelled
  bash,      \* per run: the shell, "none", "user", "dumping", "dumped", "exited"
  child,     \* per run: a background child of the group holds the pipes open
  written,   \* per run and stream: lines written
  pipe,      \* per run and stream: lines and dump sections in the pipe
  scan,      \* per run and stream: the scanner, "none", "read", "send", "done"
  dump,      \* per run: the sections of the dump read so far
  pump,      \* per run: the pump goroutine
  verdict,   \* per run: the content of the done event
  chan,      \* per run: the buffered events
  consumer,  \* per run: who reads them
  got,       \* per run and stream: lines the consumer received
  seen       \* per run: the done event the consumer received

server == <<session, created>>
state == <<env, cwd, log>>
start == <<sess, base, before>>
group == <<bash, child, written>>
scanners == <<scan, dump>>
result == <<pump, verdict>>
client == <<consumer, got, seen>>
vars == <<server, state, start, ctx, group, pipe, scanners, result, chan, client>>

Verdicts == {"none", "ok", "cancelled"}

TypeOK ==
  /\ created \in 0..MaxSessions /\ session \in 0..created
  /\ env \in [Sessions -> Runs \cup {NoRun}] /\ cwd \in [Sessions -> Runs \cup {NoRun}]
  /\ log \in Seq(Runs)
  /\ sess \in [Runs -> {NoSession} \cup Sessions]
  /\ base \in [Runs -> (Runs \cup {NoRun}) \X (Runs \cup {NoRun})]
  /\ before \in [Runs -> SUBSET Runs]
  /\ ctx \in [Runs -> BOOLEAN]
  /\ bash \in [Runs -> {"none", "user", "dumping", "dumped", "exited"}]
  /\ child \in [Runs -> BOOLEAN]
  /\ written \in [Runs -> [Streams -> 0..MaxLines]]
  /\ pipe \in [Runs -> [Streams -> Seq({"line", "env", "pwd"})]]
  /\ \A r \in Runs, st \in Streams : Len(pipe[r][st]) <= PipeCap
  /\ scan \in [Runs -> [Streams -> {"none", "read", "send", "done"}]]
  /\ dump \in [Runs -> SUBSET {"env", "pwd"}]
  /\ pump \in [Runs -> {"none", "group", "drain", "persist", "send", "closed", "refused"}]
  /\ verdict \in [Runs -> Verdicts]
  /\ chan \in [Runs -> Seq(Streams \cup {"done"})]
  /\ \A r \in Runs : Len(chan[r]) <= ChanCap
  /\ consumer \in [Runs -> {"none", "collect", "sse", "finished", "left"}]
  /\ got \in [Runs -> [Streams -> Nat]]
  /\ seen \in [Runs -> Verdicts]

PerStream(x) == [r \in Runs |-> [st \in Streams |-> x]]

Init ==
  /\ session = NoSession /\ created = 0
  /\ env = [g \in Sessions |-> NoRun] /\ cwd = [g \in Sessions |-> NoRun]
  /\ log = <<>>
  /\ sess = [r \in Runs |-> NoSession]
  /\ base = [r \in Runs |-> <<NoRun, NoRun>>]
  /\ before = [r \in Runs |-> {}]
  /\ ctx = [r \in Runs |-> FALSE]
  /\ bash = [r \in Runs |-> "none"] /\ child = [r \in Runs |-> FALSE]
  /\ written = PerStream(0) /\ pipe = PerStream(<<>>) /\ scan = PerStream("none")
  /\ dump = [r \in Runs |-> {}]
  /\ pump = [r \in Runs |-> "none"] /\ verdict = [r \in Runs |-> "none"]
  /\ chan = [r \in Runs |-> <<>>]
  /\ consumer = [r \in Runs |-> "none"]
  /\ got = PerStream(0) /\ seen = [r \in Runs |-> "none"]

-----------------------------------------------------------------------------
(***************************************************************************)
(* The server: getOrCreate, stream, handleDeleteSession                    *)
(***************************************************************************)

\* Mutant of Current: the session is created again for each request.
CurrentAlwaysNew == created + 1

\* getOrCreate: the session this request works on.
Current == IF session # NoSession THEN session ELSE created + 1

UseSession(r) ==
  /\ Current <= MaxSessions
  /\ session' = Current
  /\ created' = IF session # NoSession THEN created ELSE created + 1
  /\ sess' = [sess EXCEPT ![r] = Current]

\* stream: environment and directory are read under the lock, the script is
\* written, bash started, the pump and the scanners spawned.
Start(r, kind) ==
  /\ pump[r] = "none"
  /\ UseSession(r)
  /\ base' = [base EXCEPT ![r] = <<env[Current], cwd[Current]>>]
  /\ before' = [before EXCEPT ![r] = {q \in Runs : seen[q] # "none"}]
  /\ bash' = [bash EXCEPT ![r] = "user"]
  /\ scan' = [scan EXCEPT ![r] = [st \in Streams |-> "read"]]
  /\ pump' = [pump EXCEPT ![r] = "group"]
  /\ consumer' = [consumer EXCEPT ![r] = kind]
  /\ UNCHANGED <<state, ctx, child, written, pipe, dump, verdict, chan, got, seen>>

\* An empty command, or no script file, pipe or process: an error at once.
StartFails(r) ==
  /\ pump[r] = "none"
  /\ UseSession(r)
  /\ pump' = [pump EXCEPT ![r] = "refused"]
  /\ UNCHANGED <<state, base, before, ctx, group, pipe, scanners, verdict, chan, client>>

DeleteSession ==
  /\ session' = NoSession
  /\ UNCHANGED <<created, state, start, ctx, group, pipe, scanners, result, chan, client>>

\* The client goes away, or the request's deadline passes.
Cancel(r) ==
  /\ pump[r] \notin {"none", "refused"}
  /\ ~ctx[r]
  /\ ctx' = [ctx EXCEPT ![r] = TRUE]
  /\ UNCHANGED <<server, state, start, group, pipe, scanners, result, chan, client>>

-----------------------------------------------------------------------------
(***************************************************************************)
(* The process group.  The script that buildScript makes runs the command, *)
(* then prints the environment between markers, the directory, and exits.  *)
(***************************************************************************)

Put(r, st, item) ==
  /\ Len(pipe[r][st]) < PipeCap
  /\ pipe' = [pipe EXCEPT ![r][st] = Append(@, item)]

WriteLine(r, st) ==
  /\ bash[r] = "user"
  /\ written[r][st] < MaxLines
  /\ Put(r, st, "line")
  /\ written' = [written EXCEPT ![r][st] = @ + 1]
  /\ UNCHANGED <<server, state, start, ctx, bash, child, scanners, result, chan, client>>

Fork(r) ==
  /\ bash[r] = "user"
  /\ child' = [child EXCEPT ![r] = TRUE]
  /\ UNCHANGED <<server, state, start, ctx, bash, written, pipe, scanners, result, chan, client>>

DumpEnv(r) ==
  /\ bash[r] = "user"
  /\ Put(r, "stdout", "env")
  /\ bash' = [bash EXCEPT ![r] = "dumping"]
  /\ UNCHANGED <<server, state, start, ctx, child, written, scanners, result, chan, client>>

DumpPwd(r) ==
  /\ bash[r] = "dumping"
  /\ Put(r, "stdout", "pwd")
  /\ bash' = [bash EXCEPT ![r] = "dumped"]
  /\ UNCHANGED <<server, state, start, ctx, child, written, scanners, result, chan, client>>

\* The end of the script, an exit in the command, or a signal.
Exit(r) ==
  /\ bash[r] \notin {"none", "exited"}
  /\ bash' = [bash EXCEPT ![r] = "exited"]
  /\ UNCHANGED <<server, state, start, ctx, child, written, pipe, scanners, result, chan, client>>

ChildExits(r) ==
  /\ child[r]
  /\ child' = [child EXCEPT ![r] = FALSE]
  /\ UNCHANGED <<server, state, start, ctx, bash, written, pipe, scanners, result, chan, client>>

-----------------------------------------------------------------------------
(***************************************************************************)
(* The scanners                                                            *)
(***************************************************************************)

Scanner(r, st, at) == scan' = [scan EXCEPT ![r][st] = at]

\* A line is captured and goes to the channel; a section of the dump is kept.
Scan(r, st) ==
  /\ scan[r][st] = "read"
  /\ pipe[r][st] # <<>>
  /\ pipe' = [pipe EXCEPT ![r][st] = Tail(@)]
  /\ IF Head(pipe[r][st]) = "line"
     THEN Scanner(r, st, "send") /\ UNCHANGED dump
     ELSE dump' = [dump EXCEPT ![r] = @ \cup {Head(pipe[r][st])}] /\ UNCHANGED scan
  /\ UNCHANGED <<server, state, start, ctx, group, result, chan, client>>

\* Mutant of EndOfFile: the agent keeps its own copy of the write end open.
EndOfFileNever(r, st) == scan[r][st] = "read" /\ FALSE /\ UNCHANGED vars

\* The last process that held the write end is gone.
EndOfFile(r, st) ==
  /\ scan[r][st] = "read"
  /\ pipe[r][st] = <<>>
  /\ bash[r] = "exited" /\ ~child[r]
  /\ Scanner(r, st, "done")
  /\ UNCHANGED <<server, state, start, ctx, group, pipe, dump, result, chan, client>>

Send(r, st) ==
  /\ scan[r][st] = "send"
  /\ Len(chan[r]) < ChanCap
  /\ chan' = [chan EXCEPT ![r] = Append(@, st)]
  /\ Scanner(r, st, "read")
  /\ UNCHANGED <<server, state, start, ctx, group, pipe, dump, result, client>>

SendCancelled(r, st) ==
  /\ scan[r][st] = "send"
  /\ ctx[r]
  /\ Scanner(r, st, "done")
  /\ UNCHANGED <<server, state, start, ctx, group, pipe, dump, result, chan, client>>

-----------------------------------------------------------------------------
(***************************************************************************)
(* runGroup and the pump                                                   *)
(***************************************************************************)

PumpGoto(r, at) == pump' = [pump EXCEPT ![r] = at]

\* cmd.Wait returns when bash has exited, whether or not its children have.
GroupDone(r) ==
  /\ pump[r] = "group"
  /\ bash[r] = "exited"
  /\ PumpGoto(r, "drain")
  /\ UNCHANGED <<server, state, start, ctx, group, pipe, scanners, verdict, chan, client>>

\* Mutant of Kill: the context is not watched while bash runs.
KillNever(r) == pump[r] = "group" /\ ctx[r] /\ FALSE /\ UNCHANGED vars

\* The context ends before that is noticed: the whole group is killed.
Kill(r) ==
  /\ pump[r] = "group"
  /\ ctx[r]
  /\ bash' = [bash EXCEPT ![r] = "exited"]
  /\ child' = [child EXCEPT ![r] = FALSE]
  /\ PumpGoto(r, "drain")
  /\ UNCHANGED <<server, state, start, ctx, written, pipe, scanners, verdict, chan, client>>

\* Mutant of ScannersDone: only standard output is waited for.
StdoutDone(r) == scan[r]["stdout"] = "done"

ScannersDone(r) == \A st \in Streams : scan[r][st] = "done"

\* Mutants of Finish: the context is not looked at; the session is updated
\* before the context is looked at; nothing is persisted.
FinishCancelled(r) ==
  /\ pump[r] = "drain"
  /\ ScannersDone(r)
  /\ PumpGoto(r, "persist")
  /\ UNCHANGED <<server, state, start, ctx, group, pipe, scanners, verdict, chan, client>>
FinishPersistsFirst(r) ==
  /\ pump[r] = "drain"
  /\ ScannersDone(r)
  /\ env' = IF "env" \in dump[r] THEN [env EXCEPT ![sess[r]] = r] ELSE env
  /\ verdict' = [verdict EXCEPT ![r] = IF ctx[r] THEN "cancelled" ELSE "ok"]
  /\ PumpGoto(r, "send")
  /\ UNCHANGED <<server, cwd, log, start, ctx, group, pipe, scanners, chan, client>>
FinishForgets(r) ==
  /\ pump[r] = "drain"
  /\ ScannersDone(r)
  /\ verdict' = [verdict EXCEPT ![r] = IF ctx[r] THEN "cancelled" ELSE "ok"]
  /\ PumpGoto(r, "send")
  /\ UNCHANGED <<server, state, start, ctx, group, pipe, scanners, chan, client>>

\* Both scanners have ended; a cancelled run persists nothing.
Finish(r) ==
  /\ pump[r] = "drain"
  /\ ScannersDone(r)
  /\ IF ctx[r]
     THEN verdict' = [verdict EXCEPT ![r] = "cancelled"] /\ PumpGoto(r, "send")
     ELSE PumpGoto(r, "persist") /\ UNCHANGED verdict
  /\ UNCHANGED <<server, state, start, ctx, group, pipe, scanners, chan, client>>

\* Mutant of Target: the session that is current when the run ends.
TargetCurrent(r) == IF session = NoSession THEN sess[r] ELSE session

\* Where a run leaves its dump: the session it started in.
Target(r) == sess[r]

\* Mutant of Persist: a directory that was set is kept.
PersistCwdOnce(r) ==
  /\ pump[r] = "persist"
  /\ env' = IF "env" \in dump[r] THEN [env EXCEPT ![Target(r)] = r] ELSE env
  /\ cwd' = IF "pwd" \in dump[r] /\ cwd[Target(r)] = NoRun
            THEN [cwd EXCEPT ![Target(r)] = r] ELSE cwd
  /\ log' = IF dump[r] # {} THEN Append(log, r) ELSE log
  /\ verdict' = [verdict EXCEPT ![r] = "ok"]
  /\ PumpGoto(r, "send")
  /\ UNCHANGED <<server, start, ctx, group, pipe, scanners, chan, client>>

Persist(r) ==
  /\ pump[r] = "persist"
  /\ env' = IF "env" \in dump[r] THEN [env EXCEPT ![Target(r)] = r] ELSE env
  /\ cwd' = IF "pwd" \in dump[r] THEN [cwd EXCEPT ![Target(r)] = r] ELSE cwd
  /\ log' = IF dump[r] # {} THEN Append(log, r) ELSE log
  /\ verdict' = [verdict EXCEPT ![r] = "ok"]
  /\ PumpGoto(r, "send")
  /\ UNCHANGED <<server, start, ctx, group, pipe, scanners, chan, client>>

\* The done event waits for room whatever the context; then the channel closes.
SendDone(r) ==
  /\ pump[r] = "send"
  /\ Len(chan[r]) < ChanCap
  /\ chan' = [chan EXCEPT ![r] = Append(@, "done")]
  /\ PumpGoto(r, "closed")
  /\ UNCHANGED <<server, state, start, ctx, group, pipe, scanners, verdict, client>>

-----------------------------------------------------------------------------
(***************************************************************************)
(* The consumer: RunRequest reads until the channel closes; the handler of *)
(* a stream until the done event, or until its request is cancelled or it  *)
(* cannot write an event.                                                  *)
(***************************************************************************)

Receive(r) ==
  /\ consumer[r] \in {"collect", "sse"}
  /\ chan[r] # <<>>
  /\ chan' = [chan EXCEPT ![r] = Tail(@)]
  /\ IF Head(chan[r]) = "done"
     THEN /\ seen' = [seen EXCEPT ![r] = verdict[r]]
          /\ consumer' = [consumer EXCEPT ![r] = "finished"]
          /\ UNCHANGED got
     ELSE /\ got' = [got EXCEPT ![r][Head(chan[r])] = @ + 1]
          /\ UNCHANGED <<consumer, seen>>
  /\ UNCHANGED <<server, state, start, ctx, group, pipe, scanners, result>>

Leave(r) ==
  /\ consumer[r] = "sse"
  /\ ctx[r]
  /\ consumer' = [consumer EXCEPT ![r] = "left"]
  /\ UNCHANGED <<server, state, start, ctx, group, pipe, scanners, result, chan, got, seen>>

\* The handler can not encode an event, or not write it: it drops it and returns.
GiveUp(r) ==
  /\ consumer[r] = "sse"
  /\ chan[r] # <<>>
  /\ chan' = [chan EXCEPT ![r] = Tail(@)]
  /\ consumer' = [consumer EXCEPT ![r] = "left"]
  /\ UNCHANGED <<server, state, start, ctx, group, pipe, scanners, result, got, seen>>

-----------------------------------------------------------------------------

StreamStep(r, st) ==
  \/ WriteLine(r, st)
  \/ Scan(r, st) \/ EndOfFile(r, st) \/ Send(r, st) \/ SendCancelled(r, st)

RunStep(r) ==
  \/ Start(r, "collect") \/ Start(r, "sse") \/ StartFails(r) \/ Cancel(r)
  \/ Fork(r) \/ DumpEnv(r) \/ DumpPwd(r) \/ Exit(r) \/ ChildExits(r)
  \/ GroupDone(r) \/ Kill(r) \/ Finish(r) \/ Persist(r) \/ SendDone(r)
  \/ Receive(r) \/ Leave(r) \/ GiveUp(r)

Next ==
  \/ \E r \in Runs : RunStep(r) \/ \E st \in Streams : StreamStep(r, st)
  \/ DeleteSession

Spec == Init /\ [][Next]_vars

\* The goroutines of a run go on; a command, its children and its client may take
\* for ever.
Goroutines(r) ==
  /\ WF_vars(GroupDone(r) \/ Kill(r)) /\ WF_vars(Finish(r)) /\ WF_vars(Persist(r))
  /\ WF_vars(SendDone(r))
  /\ \A st \in Streams :
       WF_vars(Scan(r, st) \/ EndOfFile(r, st) \/ Send(r, st) \/ SendCancelled(r, st))

\* So does the consumer.
Fairness == \A r \in Runs : Goroutines(r) /\ WF_vars(Receive(r)) /\ WF_vars(Leave(r))

FairSpec == Spec /\ Fairness

-----------------------------------------------------------------------------
(***************************************************************************)
(* Properties                                                              *)
(***************************************************************************)

\* The channel is closed when no scanner will send on it any more: a send on
\* a closed channel would take the whole agent down.
NoSendAfterClose ==
  \A r \in Runs, st \in Streams : pump[r] = "closed" => scan[r][st] = "done"

\* A consumer that sees a run end without error has received every line the
\* command wrote, although two scanners, a full channel, and the shell's exit
\* with output still in the pipes lie between.
OutputComplete == \A r \in Runs : seen[r] = "ok" => got[r] = written[r]

\* p's update is in the log, and the one that q started from is not older.
NotOlder(p, q) == \E i, j \in 1..Len(log) : i <= j /\ log[i] = p /\ log[j] = q

\* A run that starts after the end of another was seen, in the same session,
\* starts from that one's environment and directory or from newer ones.
ReadsItsWrites ==
  \A q \in Runs : \A p \in before[q] :
    sess[p] = sess[q] /\ seen[p] = "ok" =>
      /\ "env" \in dump[p] => NotOlder(p, base[q][1])
      /\ "pwd" \in dump[p] => NotOlder(p, base[q][2])

\* A run reported as cancelled leaves the environment and directory alone.
CancelledLeavesNoTrace ==
  \A r \in Runs, g \in Sessions : verdict[r] = "cancelled" => env[g] # r /\ cwd[g] # r

\* A run that outlives its session does not leak state into the next one.
SessionsSeparate ==
  \A r \in Runs, g \in Sessions : r \in {env[g], cwd[g]} => sess[r] = g

\* Runs in parallel overwrite each other's state as a whole: unless a shell
\* ended between the two parts of its dump, environment and directory come
\* from one run.
StateFromOneRun ==
  (\A r \in ToSet(log) : dump[r] = {"env", "pwd"}) => env = cwd

\* Once the processes of a run are gone its request is answered: no goroutine
\* waits for another for ever, unless the client has left.
AnswersOnceQuiet ==
  \A r \in Runs : (bash[r] = "exited" /\ ~child[r]) ~> (consumer[r] \in {"finished", "left"})

\* Cancelling a run kills its whole process group.
CancelKillsGroup ==
  \A r \in Runs : ctx[r] ~> (bash[r] \in {"none", "exited"} /\ ~child[r])
=============================================================================
