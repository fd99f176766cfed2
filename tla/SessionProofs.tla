--------------------------- MODULE SessionProofs ---------------------------
(***************************************************************************)
(* The safety of Session for any number of runs, sessions and lines, and   *)
(* any size of pipes and channels: no send on a closed channel, complete   *)
(* output, and a persisted state that comes from finished runs of its own  *)
(* session, in their order.                                                *)
(***************************************************************************)
EXTENDS Session, FiniteSetTheorems, TLAPS

-----------------------------------------------------------------------------
(***************************************************************************)
(* Sequences and tables                                                    *)
(***************************************************************************)

LEMMA TailFacts ==
  ASSUME NEW S, NEW s \in Seq(S), s # <<>>
  PROVE  /\ Head(s) \in S /\ Head(s) = s[1]
         /\ Tail(s) \in Seq(S)
         /\ Len(s) \in Nat \ {0} /\ Len(Tail(s)) = Len(s) - 1
         /\ \A i \in 1..Len(Tail(s)) : Tail(s)[i] = s[i + 1]
  OBVIOUS

LEMMA AppendFacts ==
  ASSUME NEW S, NEW s \in Seq(S), NEW x \in S
  PROVE  /\ Append(s, x) \in Seq(S)
         /\ Len(s) \in Nat /\ Len(Append(s, x)) = Len(s) + 1
         /\ \A i \in 1..Len(s) : Append(s, x)[i] = s[i]
         /\ Append(s, x)[Len(s) + 1] = x
  OBVIOUS

LEMMA SetOne ==
  ASSUME NEW T, NEW f \in [Runs -> T], NEW r \in Runs, NEW v \in T
  PROVE  /\ [f EXCEPT ![r] = v] \in [Runs -> T]
         /\ [f EXCEPT ![r] = v][r] = v
         /\ \A q \in Runs : q # r => [f EXCEPT ![r] = v][q] = f[q]
  OBVIOUS

LEMMA SetStream ==
  ASSUME NEW T, NEW f \in [Runs -> [Streams -> T]], NEW r \in Runs, NEW st \in Streams,
         NEW v \in T
  PROVE  /\ [f EXCEPT ![r][st] = v] \in [Runs -> [Streams -> T]]
         /\ [f EXCEPT ![r][st] = v][r][st] = v
         /\ \A q \in Runs, t \in Streams :
              q # r \/ t # st => [f EXCEPT ![r][st] = v][q][t] = f[q][t]
  OBVIOUS

-----------------------------------------------------------------------------
(***************************************************************************)
(* Types                                                                   *)
(***************************************************************************)

LEMMA InitTypes == Init => TypeOK
  BY RunsAssumption, BoundsAssumption DEF Init, TypeOK, PerStream, Streams, Sessions, NoSession, Verdicts

LEMMA ServerTypes ==
  ASSUME TypeOK, NEW r \in Runs,
         Start(r, "collect") \/ Start(r, "sse") \/ StartFails(r) \/ Cancel(r) \/ DeleteSession
  PROVE  TypeOK'
<1> USE BoundsAssumption DEF TypeOK, Sessions, NoSession, Verdicts, server, state, start, group,
        scanners, result, client
<1>1. ASSUME NEW kind \in {"collect", "sse"}, Start(r, kind) PROVE TypeOK'
  <2>1. session' \in 0..created' /\ created' \in 0..MaxSessions /\ Current \in Sessions
    BY <1>1 DEF Start, UseSession, Current
  <2>2. <<env[Current], cwd[Current]>> \in (Runs \cup {NoRun}) \X (Runs \cup {NoRun})
    BY <2>1
  <2>3. /\ sess' \in [Runs -> {NoSession} \cup Sessions]
        /\ base' \in [Runs -> (Runs \cup {NoRun}) \X (Runs \cup {NoRun})]
        /\ before' \in [Runs -> SUBSET Runs]
        /\ bash' \in [Runs -> {"none", "user", "dumping", "dumped", "exited"}]
        /\ scan' \in [Runs -> [Streams -> {"none", "read", "send", "done"}]]
        /\ pump' \in [Runs -> {"none", "group", "drain", "persist", "send", "closed", "refused"}]
        /\ consumer' \in [Runs -> {"none", "collect", "sse", "finished", "left"}]
    BY <1>1, <2>1, <2>2 DEF Start, UseSession
  <2> QED BY <1>1, <2>1, <2>3 DEF Start
<1>2. CASE StartFails(r)
  BY <1>2 DEF StartFails, UseSession, Current
<1>3. CASE Cancel(r)
  BY <1>3 DEF Cancel
<1>4. CASE DeleteSession
  BY <1>4 DEF DeleteSession
<1> QED BY <1>1, <1>2, <1>3, <1>4

LEMMA PutTypes ==
  ASSUME TypeOK, NEW r \in Runs, NEW st \in Streams, NEW item \in {"line", "env", "pwd"},
         Put(r, st, item)
  PROVE  /\ pipe' \in [Runs -> [Streams -> Seq({"line", "env", "pwd"})]]
         /\ \A q \in Runs, t \in Streams : Len(pipe'[q][t]) <= PipeCap
<1> DEFINE new == Append(pipe[r][st], item)
<1>1. pipe[r][st] \in Seq({"line", "env", "pwd"}) /\ Len(pipe[r][st]) < PipeCap
  BY DEF TypeOK, Put
<1>2. new \in Seq({"line", "env", "pwd"}) /\ Len(new) <= PipeCap
  BY <1>1, AppendFacts, BoundsAssumption
<1>3. pipe' = [pipe EXCEPT ![r][st] = new]
  BY DEF Put
<1> HIDE DEF new
<1> QED BY <1>2, <1>3, SetStream DEF TypeOK

LEMMA GroupTypes ==
  ASSUME TypeOK, NEW r \in Runs,
         \/ \E st \in Streams : WriteLine(r, st)
         \/ Fork(r) \/ DumpEnv(r) \/ DumpPwd(r) \/ Exit(r) \/ ChildExits(r)
  PROVE  TypeOK'
<1>1. CASE \E st \in Streams : WriteLine(r, st)
  <2>1. PICK st \in Streams : WriteLine(r, st)
    BY <1>1
  <2>2. written' \in [Runs -> [Streams -> 0..MaxLines]]
    BY <2>1, BoundsAssumption DEF WriteLine, TypeOK
  <2>3. Put(r, st, "line")
    BY <2>1 DEF WriteLine
  <2> QED BY <2>1, <2>2, <2>3, PutTypes
          DEF WriteLine, TypeOK, server, state, start, scanners, result, client
<1>2. CASE Fork(r)
  BY <1>2 DEF Fork, TypeOK, server, state, start, scanners, result, client
<1>3. CASE DumpEnv(r)
  BY <1>3, PutTypes DEF DumpEnv, Streams, TypeOK, server, state, start, scanners, result, client
<1>4. CASE DumpPwd(r)
  BY <1>4, PutTypes DEF DumpPwd, Streams, TypeOK, server, state, start, scanners, result, client
<1>5. CASE Exit(r)
  BY <1>5 DEF Exit, TypeOK, server, state, start, scanners, result, client
<1>6. CASE ChildExits(r)
  BY <1>6 DEF ChildExits, TypeOK, server, state, start, scanners, result, client
<1> QED BY <1>1, <1>2, <1>3, <1>4, <1>5, <1>6

LEMMA ScannerTypes ==
  ASSUME TypeOK, NEW r \in Runs, NEW st \in Streams,
         Scan(r, st) \/ EndOfFile(r, st) \/ Send(r, st) \/ SendCancelled(r, st)
  PROVE  TypeOK'
<1> DEFINE States == {"none", "read", "send", "done"}
<1>1. \A at \in States : Scanner(r, st, at) => scan' \in [Runs -> [Streams -> States]]
  BY SetStream DEF Scanner, TypeOK
<1>2. CASE Scan(r, st)
  <2> DEFINE rest == Tail(pipe[r][st])
             head == Head(pipe[r][st])
  <2>1. pipe[r][st] \in Seq({"line", "env", "pwd"}) /\ pipe[r][st] # <<>> /\ Len(pipe[r][st]) <= PipeCap
    BY <1>2 DEF Scan, TypeOK
  <2>2. rest \in Seq({"line", "env", "pwd"}) /\ Len(rest) <= PipeCap /\ head \in {"line", "env", "pwd"}
    BY <2>1, TailFacts, BoundsAssumption
  <2>3. pipe' = [pipe EXCEPT ![r][st] = rest]
    BY <1>2 DEF Scan
  <2>4. IF head = "line" THEN Scanner(r, st, "send") /\ UNCHANGED dump
        ELSE dump' = [dump EXCEPT ![r] = dump[r] \cup {head}] /\ UNCHANGED scan
    BY <1>2 DEF Scan
  <2> HIDE DEF rest, head
  <2>5. /\ pipe' \in [Runs -> [Streams -> Seq({"line", "env", "pwd"})]]
        /\ \A q \in Runs, t \in Streams : Len(pipe'[q][t]) <= PipeCap
    BY <2>2, <2>3, SetStream DEF TypeOK
  <2>6. dump' \in [Runs -> SUBSET {"env", "pwd"}]
    <3>1. CASE head = "line"
      BY <2>4, <3>1 DEF TypeOK
    <3>2. CASE head # "line"
      <4>1. dump[r] \cup {head} \in SUBSET {"env", "pwd"}
        BY <2>2, <3>2 DEF TypeOK
      <4>2. dump' = [dump EXCEPT ![r] = dump[r] \cup {head}]
        BY <2>4, <3>2
      <4>3. dump \in [Runs -> SUBSET {"env", "pwd"}]
        BY DEF TypeOK
      <4> QED BY <4>1, <4>2, <4>3
    <3> QED BY <3>1, <3>2
  <2>7. scan' \in [Runs -> [Streams -> States]]
    BY <1>1, <2>4 DEF TypeOK
  <2> QED BY <1>2, <2>5, <2>6, <2>7 DEF Scan, TypeOK, server, state, start, group, result, client
<1>3. CASE EndOfFile(r, st)
  BY <1>1, <1>3 DEF EndOfFile, TypeOK, server, state, start, group, result, client
<1>4. CASE Send(r, st)
  <2> DEFINE new == Append(chan[r], st)
             Events == Streams \cup {"done"}
  <2>1. chan[r] \in Seq(Events) /\ Len(chan[r]) < ChanCap
    BY <1>4 DEF Send, TypeOK
  <2>2. new \in Seq(Events) /\ Len(new) <= ChanCap
    BY <2>1, AppendFacts, BoundsAssumption
  <2>3. chan' = [chan EXCEPT ![r] = new]
    BY <1>4 DEF Send
  <2> HIDE DEF new
  <2>4. chan' \in [Runs -> Seq(Events)] /\ \A q \in Runs : Len(chan'[q]) <= ChanCap
    BY <2>2, <2>3, SetOne DEF TypeOK
  <2> QED BY <1>1, <1>4, <2>4 DEF Send, TypeOK, server, state, start, group, result, client
<1>5. CASE SendCancelled(r, st)
  BY <1>1, <1>5 DEF SendCancelled, TypeOK, server, state, start, group, result, client
<1> QED BY <1>2, <1>3, <1>4, <1>5

LEMMA PumpTypes ==
  ASSUME TypeOK, NEW r \in Runs,
         GroupDone(r) \/ Kill(r) \/ Finish(r) \/ Persist(r) \/ SendDone(r)
  PROVE  TypeOK'
<1>1. \A at \in {"drain", "persist", "send", "closed"} :
        PumpGoto(r, at) =>
          pump' \in [Runs -> {"none", "group", "drain", "persist", "send", "closed", "refused"}]
  BY DEF PumpGoto, TypeOK
<1>2. CASE GroupDone(r)
  BY <1>1, <1>2 DEF GroupDone, TypeOK, server, state, start, group, scanners, client
<1>3. CASE Kill(r)
  BY <1>1, <1>3 DEF Kill, TypeOK, server, state, start, scanners, client
<1>4. CASE Finish(r)
  BY <1>1, <1>4 DEF Finish, TypeOK, Verdicts, server, state, start, group, scanners, client
<1>5. CASE Persist(r)
  <2>1. log' \in Seq(Runs)
    BY <1>5, AppendFacts DEF Persist, TypeOK
  <2>2. /\ env' \in [Sessions -> Runs \cup {NoRun}] /\ cwd' \in [Sessions -> Runs \cup {NoRun}]
        /\ verdict' \in [Runs -> Verdicts]
    BY <1>5 DEF Persist, TypeOK, Verdicts
  <2> QED BY <1>1, <1>5, <2>1, <2>2 DEF Persist, TypeOK, server, start, group, scanners, client
<1>6. CASE SendDone(r)
  <2> DEFINE new == Append(chan[r], "done")
             Events == Streams \cup {"done"}
  <2>1. chan[r] \in Seq(Events) /\ Len(chan[r]) < ChanCap
    BY <1>6 DEF SendDone, TypeOK
  <2>2. new \in Seq(Events) /\ Len(new) <= ChanCap
    BY <2>1, AppendFacts, BoundsAssumption
  <2>3. chan' = [chan EXCEPT ![r] = new]
    BY <1>6 DEF SendDone
  <2> HIDE DEF new
  <2>4. chan' \in [Runs -> Seq(Events)] /\ \A q \in Runs : Len(chan'[q]) <= ChanCap
    BY <2>2, <2>3, SetOne DEF TypeOK
  <2> QED BY <1>1, <1>6, <2>4 DEF SendDone, TypeOK, server, state, start, group, scanners, client
<1> QED BY <1>2, <1>3, <1>4, <1>5, <1>6

LEMMA ConsumerTypes ==
  ASSUME TypeOK, NEW r \in Runs, Receive(r) \/ Leave(r) \/ GiveUp(r)
  PROVE  TypeOK'
<1> DEFINE Events == Streams \cup {"done"}
           rest == Tail(chan[r])
           head == Head(chan[r])
<1>1. ASSUME chan[r] # <<>>, chan' = [chan EXCEPT ![r] = Tail(chan[r])]
      PROVE  /\ chan' \in [Runs -> Seq(Events)] /\ \A q \in Runs : Len(chan'[q]) <= ChanCap
             /\ head \in Events
  <2>1. chan[r] \in Seq(Events) /\ Len(chan[r]) <= ChanCap
    BY DEF TypeOK
  <2>2. rest \in Seq(Events) /\ Len(rest) <= ChanCap /\ head \in Events
    BY <1>1, <2>1, TailFacts, BoundsAssumption
  <2>3. chan' = [chan EXCEPT ![r] = rest]
    BY <1>1
  <2> HIDE DEF rest, head
  <2> QED BY <2>2, <2>3, SetOne DEF TypeOK
<1>2. CASE Receive(r)
  <2>1. chan[r] # <<>> /\ chan' = [chan EXCEPT ![r] = Tail(chan[r])]
    BY <1>2 DEF Receive
  <2>2. IF head = "done"
        THEN /\ seen' = [seen EXCEPT ![r] = verdict[r]]
             /\ consumer' = [consumer EXCEPT ![r] = "finished"] /\ UNCHANGED got
        ELSE /\ got' = [got EXCEPT ![r][head] = got[r][head] + 1]
             /\ UNCHANGED <<consumer, seen>>
    BY <1>2 DEF Receive
  <2>3. /\ chan' \in [Runs -> Seq(Events)] /\ \A q \in Runs : Len(chan'[q]) <= ChanCap
        /\ head \in Events
    BY <1>1, <2>1
  <2> HIDE DEF head
  <2>4. got' \in [Runs -> [Streams -> Nat]]
    <3>1. CASE head = "done"
      BY <2>2, <3>1 DEF TypeOK
    <3>2. CASE head # "done"
      <4> DEFINE more == got[r][head] + 1
      <4>1. head \in Streams /\ more \in Nat
        BY <2>3, <3>2 DEF TypeOK
      <4>2. got' = [got EXCEPT ![r][head] = more]
        BY <2>2, <3>2
      <4>3. got \in [Runs -> [Streams -> Nat]]
        BY DEF TypeOK
      <4> HIDE DEF more
      <4> QED BY <4>1, <4>2, <4>3, SetStream
    <3> QED BY <3>1, <3>2
  <2>5. /\ consumer' \in [Runs -> {"none", "collect", "sse", "finished", "left"}]
        /\ seen' \in [Runs -> Verdicts]
    <3>1. verdict[r] \in Verdicts
      BY DEF TypeOK
    <3>2. CASE head = "done"
      <4>1. /\ seen \in [Runs -> Verdicts]
            /\ consumer \in [Runs -> {"none", "collect", "sse", "finished", "left"}]
        BY DEF TypeOK
      <4> QED BY <2>2, <3>1, <3>2, <4>1
    <3>3. CASE head # "done"
      BY <2>2, <3>3 DEF TypeOK
    <3> QED BY <3>2, <3>3
  <2> QED BY <1>2, <2>3, <2>4, <2>5 DEF Receive, TypeOK, server, state, start, group, scanners, result
<1>3. CASE Leave(r)
  BY <1>3 DEF Leave, TypeOK, server, state, start, group, scanners, result
<1>4. CASE GiveUp(r)
  BY <1>1, <1>4 DEF GiveUp, TypeOK, server, state, start, group, scanners, result
<1> QED BY <1>2, <1>3, <1>4

LEMMA NextTypes == TypeOK /\ [Next]_vars => TypeOK'
<1>1. CASE UNCHANGED vars
  BY <1>1 DEF vars, TypeOK, server, state, start, group, scanners, result, client
<1>2. ASSUME TypeOK, NEW r \in Runs, RunStep(r) PROVE TypeOK'
  BY <1>2, ServerTypes, GroupTypes, PumpTypes, ConsumerTypes DEF RunStep
<1>3. ASSUME TypeOK, NEW r \in Runs, NEW st \in Streams, StreamStep(r, st) PROVE TypeOK'
  BY <1>3, ScannerTypes, GroupTypes DEF StreamStep
<1>4. CASE DeleteSession
  BY <1>4 DEF DeleteSession, NoSession, TypeOK, state, start, group, scanners, result, client
<1> QED BY <1>1, <1>2, <1>3, <1>4 DEF Next

-----------------------------------------------------------------------------
(***************************************************************************)
(* The course of a run                                                     *)
(***************************************************************************)

\* A run that was not started has nothing.
NotStarted(r) ==
  pump[r] \in {"none", "refused"} =>
    /\ bash[r] = "none" /\ ~child[r] /\ dump[r] = {} /\ before[r] = {} /\ consumer[r] = "none"
    /\ \A st \in Streams :
         scan[r][st] = "none" /\ pipe[r][st] = <<>> /\ written[r][st] = 0 /\ got[r][st] = 0

\* The pump passes "drain" after both scanners, and decides when it passes "persist".
PumpInv(r) ==
  /\ pump[r] \in {"persist", "send", "closed"} => ScannersDone(r)
  /\ verdict[r] # "none" <=> pump[r] \in {"send", "closed"}

\* The done event is the last one, and a consumer that saw it has emptied the
\* channel.
DoneInv(r) ==
  /\ pump[r] \in {"none", "refused"} => chan[r] = <<>>
  /\ \A i \in 1..Len(chan[r]) : chan[r][i] = "done" => pump[r] = "closed" /\ i = Len(chan[r])
  /\ seen[r] # "none" =>
       /\ pump[r] = "closed" /\ seen[r] = verdict[r] /\ consumer[r] = "finished" /\ chan[r] = <<>>

CourseInv(r) == NotStarted(r) /\ PumpInv(r) /\ DoneInv(r)

Course == \A r \in Runs : CourseInv(r)

LEMMA InitCourse == Init => Course
  BY DEF Init, Course, CourseInv, NotStarted, PumpInv, DoneInv, PerStream, Streams

\* What the course of a run speaks of.
Same(r) ==
  /\ bash'[r] = bash[r] /\ child'[r] = child[r] /\ dump'[r] = dump[r] /\ before'[r] = before[r]
  /\ consumer'[r] = consumer[r] /\ pump'[r] = pump[r] /\ verdict'[r] = verdict[r]
  /\ chan'[r] = chan[r] /\ seen'[r] = seen[r]
  /\ \A st \in Streams : scan'[r][st] = scan[r][st] /\ pipe'[r][st] = pipe[r][st]
  /\ \A st \in Streams : written'[r][st] = written[r][st] /\ got'[r][st] = got[r][st]

LEMMA SameCourse == ASSUME NEW r \in Runs, CourseInv(r), Same(r) PROVE CourseInv(r)'
  BY DEF CourseInv, Same, NotStarted, PumpInv, DoneInv, ScannersDone

LEMMA ServerCourse ==
  ASSUME TypeOK, Course, NEW r \in Runs,
         Start(r, "collect") \/ Start(r, "sse") \/ StartFails(r) \/ Cancel(r)
  PROVE  Course'
<1> SUFFICES ASSUME NEW q \in Runs PROVE CourseInv(q)'
  BY DEF Course
<1>1. CourseInv(q) /\ CourseInv(r)
  BY DEF Course
<1> USE DEF TypeOK, CourseInv, NotStarted, PumpInv, DoneInv, ScannersDone, group, scanners, result,
      client, start
<1>2. ASSUME NEW kind \in {"collect", "sse"}, Start(r, kind) PROVE CourseInv(q)'
  BY <1>1, <1>2 DEF Start, UseSession
<1>3. CASE StartFails(r)
  BY <1>1, <1>3 DEF StartFails, UseSession
<1>4. CASE Cancel(r)
  BY <1>1, <1>4 DEF Cancel
<1> QED BY <1>2, <1>3, <1>4

LEMMA GroupCourse ==
  ASSUME TypeOK, Course, NEW r \in Runs,
         \/ \E st \in Streams : WriteLine(r, st)
         \/ Fork(r) \/ DumpEnv(r) \/ DumpPwd(r) \/ Exit(r) \/ ChildExits(r)
  PROVE  Course'
<1> SUFFICES ASSUME NEW q \in Runs PROVE CourseInv(q)'
  BY DEF Course
<1>1. CourseInv(q) /\ CourseInv(r)
  BY DEF Course
<1> USE DEF TypeOK, CourseInv, NotStarted, PumpInv, DoneInv, ScannersDone, scanners, result, client, start
<1>2. CASE \E st \in Streams : WriteLine(r, st)
  <2>1. PICK st \in Streams : WriteLine(r, st)
    BY <1>2
  <2>2. CASE q # r
    <3>1. Same(q)
      BY <2>1, <2>2 DEF WriteLine, Put, Same
    <3> QED BY <1>1, <3>1, SameCourse
  <2>3. CASE q = r
    <3>1. pump[r] \notin {"none", "refused"}
      BY <1>1, <2>1 DEF WriteLine
    <3>2. UNCHANGED <<bash, child, scan, dump, pump, verdict, chan, consumer, got, seen, before>>
      BY <2>1 DEF WriteLine
    <3> QED BY <1>1, <2>3, <3>1, <3>2
  <2> QED BY <2>2, <2>3
<1>3. CASE Fork(r)
  BY <1>1, <1>3 DEF Fork
<1>4. CASE DumpEnv(r)
  BY <1>1, <1>4 DEF DumpEnv, Put
<1>5. CASE DumpPwd(r)
  BY <1>1, <1>5 DEF DumpPwd, Put
<1>6. CASE Exit(r)
  BY <1>1, <1>6 DEF Exit
<1>7. CASE ChildExits(r)
  BY <1>1, <1>7 DEF ChildExits
<1> QED BY <1>2, <1>3, <1>4, <1>5, <1>6, <1>7

LEMMA ScannerCourse ==
  ASSUME TypeOK, Course, NEW r \in Runs, NEW st \in Streams,
         Scan(r, st) \/ EndOfFile(r, st) \/ Send(r, st) \/ SendCancelled(r, st)
  PROVE  Course'
<1> SUFFICES ASSUME NEW q \in Runs PROVE CourseInv(q)'
  BY DEF Course
<1>1. CourseInv(q) /\ CourseInv(r)
  BY DEF Course
<1> USE DEF TypeOK, CourseInv, NotStarted, PumpInv, DoneInv, ScannersDone, Scanner, group, result, client, start
<1>2. CASE Scan(r, st)
  <2>1. pump[r] \notin {"none", "refused", "persist", "send", "closed"}
    BY <1>1, <1>2 DEF Scan
  <2>2. q # r => dump'[q] = dump[q] /\ \A t \in Streams : pipe'[q][t] = pipe[q][t] /\ scan'[q][t] = scan[q][t]
    BY <1>2 DEF Scan
  <2>3. UNCHANGED <<bash, child, written, pump, verdict, chan, consumer, got, seen, before>>
    BY <1>2 DEF Scan
  <2> QED BY <1>1, <2>1, <2>2, <2>3
<1>3. CASE EndOfFile(r, st)
  BY <1>1, <1>3 DEF EndOfFile
<1>4. CASE Send(r, st)
  <2>1. pump[r] \notin {"none", "refused", "persist", "send", "closed"} /\ seen[r] = "none"
    BY <1>1, <1>4 DEF Send
  <2>2. CASE q # r
    <3>1. Same(q)
      BY <1>4, <2>2 DEF Send, Same
    <3> QED BY <1>1, <3>1, SameCourse
  <2>3. CASE q = r
    <3>1. UNCHANGED <<pump, verdict, seen, consumer>>
      BY <1>4 DEF Send
    <3>2. \A t \in Streams : scan'[r][t] = "done" => scan[r][t] = "done"
      BY <1>4 DEF Send
    <3>3. \A i \in 1..Len(chan'[r]) : chan'[r][i] # "done"
      <4>1. chan'[r] = Append(chan[r], st) /\ chan[r] \in Seq(Streams \cup {"done"})
        BY <1>4 DEF Send
      <4>2. st # "done" /\ \A i \in 1..Len(chan[r]) : chan[r][i] # "done"
        BY <1>1, <2>1 DEF Streams
      <4> HIDE DEF CourseInv, TypeOK
      <4> QED BY <4>1, <4>2, AppendFacts
    <3> QED BY <1>1, <2>1, <2>3, <3>1, <3>2, <3>3
  <2> QED BY <2>2, <2>3
<1>5. CASE SendCancelled(r, st)
  BY <1>1, <1>5 DEF SendCancelled
<1> QED BY <1>2, <1>3, <1>4, <1>5

LEMMA PumpCourse ==
  ASSUME TypeOK, Course, NEW r \in Runs,
         GroupDone(r) \/ Kill(r) \/ Finish(r) \/ Persist(r) \/ SendDone(r)
  PROVE  Course'
<1> SUFFICES ASSUME NEW q \in Runs PROVE CourseInv(q)'
  BY DEF Course
<1>1. CourseInv(q) /\ CourseInv(r)
  BY DEF Course
<1> USE DEF TypeOK, CourseInv, NotStarted, PumpInv, DoneInv, ScannersDone, PumpGoto, group, scanners, client, start
<1>2. CASE GroupDone(r)
  BY <1>1, <1>2 DEF GroupDone
<1>3. CASE Kill(r)
  BY <1>1, <1>3 DEF Kill
<1>4. CASE Finish(r)
  BY <1>1, <1>4 DEF Finish
<1>5. CASE Persist(r)
  BY <1>1, <1>5 DEF Persist, Verdicts
<1>6. CASE SendDone(r)
  BY <1>1, <1>6 DEF SendDone
<1> QED BY <1>2, <1>3, <1>4, <1>5, <1>6

LEMMA ConsumerCourse ==
  ASSUME TypeOK, Course, NEW r \in Runs, Receive(r) \/ Leave(r) \/ GiveUp(r)
  PROVE  Course'
<1> SUFFICES ASSUME NEW q \in Runs PROVE CourseInv(q)'
  BY DEF Course
<1>1. CourseInv(q) /\ CourseInv(r)
  BY DEF Course
<1> USE DEF TypeOK, CourseInv, NotStarted, PumpInv, DoneInv, ScannersDone, group, scanners, result, start
<1>2. CASE Receive(r)
  <2>1. CASE q # r
    <3>1. chan'[q] = chan[q] /\ seen'[q] = seen[q] /\ consumer'[q] = consumer[q]
      BY <1>2, <2>1 DEF Receive
    <3>2. got'[q] = got[q]
      BY <1>2, <2>1 DEF Receive
    <3> HIDE DEF TypeOK, CourseInv
    <3>3. Same(q)
      BY <1>2, <3>1, <3>2 DEF Receive, Same
    <3> QED BY <1>1, <3>3, SameCourse
  <2>2. CASE q = r /\ Head(chan[r]) = "done"
    BY <1>1, <1>2, <2>2 DEF Receive
  <2>3. CASE q = r /\ Head(chan[r]) # "done"
    BY <1>1, <1>2, <2>3 DEF Receive
  <2> QED BY <2>1, <2>2, <2>3
<1>3. CASE Leave(r)
  BY <1>1, <1>3 DEF Leave
<1>4. CASE GiveUp(r)
  BY <1>1, <1>4 DEF GiveUp
<1> QED BY <1>2, <1>3, <1>4

LEMMA NextCourse == TypeOK /\ Course /\ [Next]_vars => Course'
<1>1. CASE UNCHANGED vars
  BY <1>1 DEF vars, Course, CourseInv, NotStarted, PumpInv, DoneInv, ScannersDone, group, scanners,
              result, client, start
<1>2. ASSUME TypeOK, Course, NEW r \in Runs, RunStep(r) PROVE Course'
  BY <1>2, ServerCourse, GroupCourse, PumpCourse, ConsumerCourse DEF RunStep
<1>3. ASSUME TypeOK, Course, NEW r \in Runs, NEW st \in Streams, StreamStep(r, st) PROVE Course'
  BY <1>3, ScannerCourse, GroupCourse DEF StreamStep
<1>4. ASSUME Course, DeleteSession PROVE Course'
  BY <1>4 DEF DeleteSession, Course, CourseInv, NotStarted, PumpInv, DoneInv, ScannersDone, group,
              scanners, result, client, start
<1> QED BY <1>1, <1>2, <1>3, <1>4 DEF Next

-----------------------------------------------------------------------------
(***************************************************************************)
(* What is settled about a run                                             *)
(***************************************************************************)

Started(r) == pump[r] \notin {"none", "refused"}

\* A step leaves alone: the session and the base of a run that was started, the
\* dump of one with a verdict, the verdict, and what its consumer saw.
SettledStays(r) ==
  /\ Started(r) =>
       Started(r)' /\ sess'[r] = sess[r] /\ base'[r] = base[r] /\ before'[r] = before[r]
  /\ verdict[r] # "none" => verdict'[r] = verdict[r] /\ dump'[r] = dump[r]
  /\ seen[r] # "none" => seen'[r] = seen[r]

LEMMA RunSettles ==
  ASSUME TypeOK, Course, NEW r \in Runs, RunStep(r), NEW q \in Runs
  PROVE  SettledStays(q)
<1>1. CourseInv(r) /\ CourseInv(q)
  BY DEF Course
<1> USE DEF TypeOK, CourseInv, PumpInv, DoneInv, SettledStays, Started, start, result, client, scanners
<1>2. ASSUME NEW kind \in {"collect", "sse"}, Start(r, kind) PROVE SettledStays(q)
  BY <1>1, <1>2 DEF Start, UseSession
<1>3. CASE StartFails(r)
  BY <1>1, <1>3 DEF StartFails, UseSession
<1>4. CASE Cancel(r)
  BY <1>4 DEF Cancel
<1>5. CASE Fork(r) \/ DumpEnv(r) \/ DumpPwd(r) \/ Exit(r) \/ ChildExits(r)
  BY <1>5 DEF Fork, DumpEnv, DumpPwd, Exit, ChildExits
<1>6. CASE GroupDone(r) \/ Kill(r)
  BY <1>6 DEF GroupDone, Kill, PumpGoto
<1>7. CASE Finish(r)
  BY <1>1, <1>7 DEF Finish, PumpGoto
<1>8. CASE Persist(r)
  BY <1>1, <1>8 DEF Persist, PumpGoto
<1>9. CASE SendDone(r)
  BY <1>9 DEF SendDone, PumpGoto
<1>10. CASE Receive(r)
  BY <1>1, <1>10 DEF Receive
<1>11. CASE Leave(r) \/ GiveUp(r)
  BY <1>11 DEF Leave, GiveUp
<1> QED BY <1>2, <1>3, <1>4, <1>5, <1>6, <1>7, <1>8, <1>9, <1>10, <1>11 DEF RunStep

LEMMA StreamSettles ==
  ASSUME TypeOK, Course, NEW r \in Runs, NEW st \in Streams, StreamStep(r, st), NEW q \in Runs
  PROVE  SettledStays(q)
<1> USE DEF TypeOK, SettledStays, Started, start, result, client, scanners
<1>1. CASE WriteLine(r, st)
  BY <1>1 DEF WriteLine
<1>2. CASE Scan(r, st)
  <2>1. verdict[r] = "none"
    BY <1>2 DEF Scan, Course, CourseInv, PumpInv, ScannersDone
  <2> QED BY <1>2, <2>1 DEF Scan
<1>3. CASE EndOfFile(r, st)
  BY <1>3 DEF EndOfFile
<1>4. CASE Send(r, st)
  BY <1>4 DEF Send
<1>5. CASE SendCancelled(r, st)
  BY <1>5 DEF SendCancelled
<1> QED BY <1>1, <1>2, <1>3, <1>4, <1>5 DEF StreamStep

LEMMA Settles == TypeOK /\ Course /\ [Next]_vars => \A r \in Runs : SettledStays(r)
<1>1. CASE UNCHANGED vars
  BY <1>1 DEF vars, SettledStays, Started, start, result, client, scanners
<1>2. CASE DeleteSession
  BY <1>2 DEF DeleteSession, SettledStays, Started, start, result, client, scanners
<1> QED BY <1>1, <1>2, RunSettles, StreamSettles DEF Next

\* Only Persist changes what is persisted, and reports success.
LEMMA OnlyPersist ==
  ASSUME TypeOK, [Next]_vars
  PROVE  \/ \E r \in Runs : Persist(r)
         \/ UNCHANGED state /\ \A r \in Runs : verdict'[r] = "ok" => verdict[r] = "ok"
<1>1. CASE \E r \in Runs : Finish(r)
  BY <1>1 DEF Finish, TypeOK
<1>2. CASE ~\E r \in Runs : Finish(r) \/ Persist(r)
  BY <1>2 DEF Next, RunStep, StreamStep, vars, result, Start, StartFails, DeleteSession, Cancel,
              WriteLine, Fork, DumpEnv, DumpPwd, Exit, ChildExits, Scan, EndOfFile, Send,
              SendCancelled, GroupDone, Kill, SendDone, Receive, Leave, GiveUp
<1> QED BY <1>1, <1>2

\* Only Start begins a run.
LEMMA OnlyStart ==
  ASSUME TypeOK, [Next]_vars, NEW r \in Runs, ~Started(r), Started(r)' \/ before'[r] # before[r]
  PROVE  Start(r, "collect") \/ Start(r, "sse")
<1> USE DEF TypeOK, Started, start, result
<1>1. ASSUME NEW q \in Runs, RunStep(q), ~Start(q, "collect"), ~Start(q, "sse") PROVE FALSE
  BY <1>1 DEF RunStep, StartFails, Cancel, Fork, DumpEnv, DumpPwd, Exit, ChildExits, GroupDone,
              Kill, Finish, Persist, SendDone, PumpGoto, Receive, Leave, GiveUp
<1>2. ASSUME NEW q \in Runs, NEW st \in Streams, StreamStep(q, st) PROVE FALSE
  BY <1>2 DEF StreamStep, WriteLine, Scan, EndOfFile, Send, SendCancelled
<1>3. CASE UNCHANGED vars \/ DeleteSession
  BY <1>3 DEF vars, DeleteSession
<1>4. ASSUME NEW q \in Runs, NEW kind \in {"collect", "sse"}, Start(q, kind) PROVE q = r
  BY <1>4 DEF Start, UseSession
<1> QED BY <1>1, <1>2, <1>3, <1>4 DEF Next

-----------------------------------------------------------------------------
(***************************************************************************)
(* The persisted state                                                     *)
(***************************************************************************)

\* A run that was started has a session.
Housed == \A r \in Runs : Started(r) => sess[r] \in Sessions

\* What a session holds is from a finished run of its own.
Origin ==
  \A r \in Runs, g \in Sessions :
    env[g] = r \/ cwd[g] = r => verdict[r] = "ok" /\ sess[r] = g

\* The log has finished runs only.
Logged == \A i \in 1..Len(log) : verdict[log[i]] = "ok"

\* A finished run's session has its state, or a newer one.
Reached ==
  \A p \in Runs :
    verdict[p] = "ok" =>
      /\ "env" \in dump[p] => NotOlder(p, env[sess[p]])
      /\ "pwd" \in dump[p] => NotOlder(p, cwd[sess[p]])

\* A run knows only runs that were seen to end before it.
SeenBefore == \A q \in Runs : \A p \in before[q] : seen[p] # "none"

StateInv ==
  Housed /\ Origin /\ Logged /\ Reached /\ SeenBefore /\ StateFromOneRun /\ ReadsItsWrites

LEMMA InitState == Init => StateInv
  BY RunsAssumption
  DEF Init, StateInv, Housed, Started, Origin, Logged, Reached, SeenBefore, StateFromOneRun,
      ReadsItsWrites, ToSet

LEMMA NextHoused == TypeOK /\ Course /\ Housed /\ [Next]_vars => Housed'
<1> SUFFICES ASSUME TypeOK, Course, Housed, [Next]_vars, NEW r \in Runs, Started(r)'
             PROVE  sess'[r] \in Sessions
  BY DEF Housed
<1>1. CASE Started(r)
  BY <1>1, Settles DEF SettledStays, Housed
<1>2. CASE ~Started(r)
  <2>1. PICK kind : Start(r, kind)
    BY <1>2, OnlyStart
  <2>2. session \in 0..created /\ created \in 0..MaxSessions
    BY DEF TypeOK
  <2> QED BY <2>1, <2>2, BoundsAssumption DEF Start, UseSession, Current, Sessions, NoSession, TypeOK
<1> QED BY <1>1, <1>2

LEMMA NextOrigin == TypeOK /\ Course /\ Housed /\ Origin /\ [Next]_vars => Origin'
<1> SUFFICES ASSUME TypeOK, Course, Housed, Origin, [Next]_vars PROVE Origin'
  OBVIOUS
<1>1. \A r \in Runs : SettledStays(r)
  BY Settles
<1>2. \A r \in Runs : verdict[r] # "none" => Started(r)
  BY DEF Course, CourseInv, PumpInv, Started
<1>3. \A r \in Runs : verdict[r] = "ok" => verdict'[r] = "ok" /\ sess'[r] = sess[r]
  BY <1>1, <1>2 DEF SettledStays
<1>4. CASE UNCHANGED state
  BY <1>3, <1>4 DEF Origin, state
<1>5. ASSUME NEW p \in Runs, Persist(p) PROVE Origin'
  <2>1. verdict'[p] = "ok" /\ sess'[p] = sess[p]
    BY <1>5 DEF Persist, TypeOK, start
  <2>2. \A g \in Sessions : env'[g] # env[g] \/ cwd'[g] # cwd[g] => g = sess[p]
    BY <1>5 DEF Persist, Target, TypeOK
  <2>3. \A g \in Sessions : env'[g] \in {env[g], p} /\ cwd'[g] \in {cwd[g], p}
    BY <1>5 DEF Persist, Target, TypeOK
  <2> QED BY <1>3, <2>1, <2>2, <2>3 DEF Origin
<1> QED BY <1>4, <1>5, OnlyPersist

LEMMA NextLogged == TypeOK /\ Course /\ Logged /\ [Next]_vars => Logged'
<1> SUFFICES ASSUME TypeOK, Course, Logged, [Next]_vars PROVE Logged'
  OBVIOUS
<1>1. \A r \in Runs : verdict[r] = "ok" => verdict'[r] = "ok"
  BY Settles DEF SettledStays
<1>2. log \in Seq(Runs)
  BY DEF TypeOK
<1>3. CASE UNCHANGED state
  BY <1>1, <1>2, <1>3 DEF Logged, state
<1>4. ASSUME NEW p \in Runs, Persist(p) PROVE Logged'
  <2>1. verdict'[p] = "ok"
    BY <1>4 DEF Persist, TypeOK
  <2>2. log' = log \/ log' = Append(log, p)
    BY <1>4 DEF Persist
  <2> QED BY <1>1, <1>2, <2>1, <2>2, AppendFacts DEF Logged
<1> QED BY <1>3, <1>4, OnlyPersist

\* The log only grows at its end.
LEMMA NotOlderStays ==
  ASSUME log \in Seq(Runs), NEW x \in Runs, log' = Append(log, x) \/ log' = log, NEW p, NEW q,
         NotOlder(p, q)
  PROVE  \E i, j \in 1..Len(log') : i <= j /\ log'[i] = p /\ log'[j] = q
<1>1. CASE log' = log
  BY <1>1 DEF NotOlder
<1>2. CASE log' = Append(log, x)
  <2>1. PICK i, j \in 1..Len(log) : i <= j /\ log[i] = p /\ log[j] = q
    BY DEF NotOlder
  <2>2. i \in 1..Len(log') /\ j \in 1..Len(log') /\ log'[i] = p /\ log'[j] = q
    BY <1>2, <2>1, AppendFacts
  <2> QED BY <2>1, <2>2
<1> QED BY <1>1, <1>2

\* The last one in the log is newer than those before it.
LEMMA LastIsNewest ==
  ASSUME log \in Seq(Runs), NEW x \in Runs, log' = Append(log, x), NEW p,
         p = x \/ \E q : NotOlder(p, q)
  PROVE  \E i, j \in 1..Len(log') : i <= j /\ log'[i] = p /\ log'[j] = x
<1>1. Len(log') \in 1..Len(log') /\ log'[Len(log')] = x
  BY AppendFacts
<1>2. CASE p = x
  BY <1>1, <1>2
<1>3. CASE \E q : NotOlder(p, q)
  <2>1. PICK i \in 1..Len(log) : log[i] = p
    BY <1>3 DEF NotOlder
  <2>2. i \in 1..Len(log') /\ log'[i] = p /\ i <= Len(log')
    BY <2>1, AppendFacts
  <2> QED BY <1>1, <2>2
<1> QED BY <1>2, <1>3

LEMMA NextReached == TypeOK /\ Course /\ Housed /\ Reached /\ [Next]_vars => Reached'
<1> SUFFICES ASSUME TypeOK, Course, Housed, Reached, [Next]_vars, NEW p \in Runs, verdict'[p] = "ok"
             PROVE  /\ "env" \in dump'[p] =>
                         \E i, j \in 1..Len(log') : i <= j /\ log'[i] = p /\ log'[j] = env'[sess'[p]]
                    /\ "pwd" \in dump'[p] =>
                         \E i, j \in 1..Len(log') : i <= j /\ log'[i] = p /\ log'[j] = cwd'[sess'[p]]
  BY DEF Reached, NotOlder
<1>1. SettledStays(p) /\ log \in Seq(Runs)
  BY Settles DEF TypeOK
<1>2. verdict[p] # "none" => Started(p)
  BY DEF Course, CourseInv, PumpInv, Started
<1>3. verdict[p] = "ok" => sess'[p] = sess[p] /\ dump'[p] = dump[p]
  BY <1>1, <1>2 DEF SettledStays
<1>4. CASE UNCHANGED state /\ \A r \in Runs : verdict'[r] = "ok" => verdict[r] = "ok"
  BY <1>3, <1>4 DEF Reached, NotOlder, state
<1>5. ASSUME NEW r \in Runs, Persist(r)
      PROVE  /\ "env" \in dump'[p] =>
                  \E i, j \in 1..Len(log') : i <= j /\ log'[i] = p /\ log'[j] = env'[sess'[p]]
             /\ "pwd" \in dump'[p] =>
                  \E i, j \in 1..Len(log') : i <= j /\ log'[i] = p /\ log'[j] = cwd'[sess'[p]]
  <2>1. dump'[p] = dump[p] /\ sess'[p] = sess[p] /\ sess[p] \in Sessions
    <3>1. Started(p)
      BY <1>2, <1>5 DEF Persist, Started, TypeOK
    <3> QED BY <1>5, <3>1 DEF Persist, Housed, scanners, start
  <2>2. p # r => verdict[p] = "ok"
    BY <1>5 DEF Persist, TypeOK
  <2>3. log' = Append(log, r) \/ (log' = log /\ dump[r] = {})
    BY <1>5 DEF Persist
  <2>4. \/ env' = env /\ "env" \notin dump[r]
        \/ env' = [env EXCEPT ![sess[r]] = r] /\ "env" \in dump[r]
    BY <1>5 DEF Persist, Target
  <2>5. \/ cwd' = cwd /\ "pwd" \notin dump[r]
        \/ cwd' = [cwd EXCEPT ![sess[r]] = r] /\ "pwd" \in dump[r]
    BY <1>5 DEF Persist, Target
  <2>6. env \in [Sessions -> Runs \cup {NoRun}] /\ cwd \in [Sessions -> Runs \cup {NoRun}]
    BY DEF TypeOK
  <2>7. ASSUME "env" \in dump[p]
        PROVE  \E i, j \in 1..Len(log') : i <= j /\ log'[i] = p /\ log'[j] = env'[sess[p]]
    <3>1. p # r => NotOlder(p, env[sess[p]])
      BY <2>2, <2>7 DEF Reached
    <3>2. CASE env'[sess[p]] = env[sess[p]] /\ p # r
      BY <1>1, <2>3, <3>1, <3>2, NotOlderStays
    <3>3. CASE env'[sess[p]] = r /\ log' = Append(log, r)
      BY <1>1, <3>1, <3>3, LastIsNewest
    <3> QED BY <2>1, <2>3, <2>4, <2>6, <2>7, <3>2, <3>3
  <2>8. ASSUME "pwd" \in dump[p]
        PROVE  \E i, j \in 1..Len(log') : i <= j /\ log'[i] = p /\ log'[j] = cwd'[sess[p]]
    <3>1. p # r => NotOlder(p, cwd[sess[p]])
      BY <2>2, <2>8 DEF Reached
    <3>2. CASE cwd'[sess[p]] = cwd[sess[p]] /\ p # r
      BY <1>1, <2>3, <3>1, <3>2, NotOlderStays
    <3>3. CASE cwd'[sess[p]] = r /\ log' = Append(log, r)
      BY <1>1, <3>1, <3>3, LastIsNewest
    <3> QED BY <2>1, <2>3, <2>5, <2>6, <2>8, <3>2, <3>3
  <2> QED BY <2>1, <2>7, <2>8
<1> QED BY <1>4, <1>5, OnlyPersist

LEMMA NextSeenBefore == TypeOK /\ Course /\ SeenBefore /\ [Next]_vars => SeenBefore'
<1> SUFFICES ASSUME TypeOK, Course, SeenBefore, [Next]_vars, NEW q \in Runs, NEW p \in before'[q]
             PROVE  seen'[p] # "none"
  BY DEF SeenBefore
<1>1. p \in Runs
  BY NextTypes DEF TypeOK
<1>2. SettledStays(p) /\ SettledStays(q)
  BY <1>1, Settles
<1>3. CASE before'[q] = before[q]
  BY <1>1, <1>2, <1>3 DEF SeenBefore, SettledStays
<1>4. CASE before'[q] # before[q]
  <2>1. PICK kind : Start(q, kind)
    BY <1>2, <1>4, OnlyStart DEF SettledStays
  <2> QED BY <2>1 DEF Start, TypeOK
<1> QED BY <1>3, <1>4

LEMMA NextOneRun ==
  TypeOK /\ Course /\ Housed /\ Logged /\ StateFromOneRun /\ [Next]_vars => StateFromOneRun'
<1> SUFFICES ASSUME TypeOK, Course, Housed, Logged, StateFromOneRun, [Next]_vars,
                    \A r \in ToSet(log') : dump'[r] = {"env", "pwd"}
             PROVE  env' = cwd'
  BY DEF StateFromOneRun, ToSet
<1>1. log \in Seq(Runs) /\ env \in [Sessions -> Runs \cup {NoRun}]
      /\ cwd \in [Sessions -> Runs \cup {NoRun}]
  BY DEF TypeOK
<1>2. \A r \in ToSet(log) : r \in Runs /\ dump'[r] = dump[r]
  <2>1. \A r \in ToSet(log) : r \in Runs /\ verdict[r] = "ok"
    BY <1>1 DEF ToSet, Logged
  <2> QED BY <2>1, Settles DEF SettledStays
<1>3. CASE UNCHANGED state
  BY <1>2, <1>3 DEF StateFromOneRun, state
<1>4. ASSUME NEW p \in Runs, Persist(p) PROVE env' = cwd'
  <2>1. ToSet(log) \subseteq ToSet(log')
    <3>1. log' = Append(log, p) \/ log' = log
      BY <1>4 DEF Persist
    <3> QED BY <1>1, <3>1, AppendFacts DEF ToSet
  <2>2. env = cwd
    BY <1>2, <2>1 DEF StateFromOneRun
  <2>3. dump'[p] = dump[p]
    BY <1>4 DEF Persist, scanners
  <2>4. CASE dump[p] = {}
    BY <1>4, <2>2, <2>4 DEF Persist
  <2>5. CASE dump[p] # {}
    <3>1. log' = Append(log, p)
      BY <1>4, <2>5 DEF Persist
    <3>2. p \in ToSet(log')
      BY <1>1, <3>1, AppendFacts DEF ToSet
    <3>3. "env" \in dump[p] /\ "pwd" \in dump[p]
      BY <2>3, <3>2
    <3> QED BY <1>4, <2>2, <3>3 DEF Persist, Target
  <2> QED BY <2>4, <2>5
<1> QED BY <1>3, <1>4, OnlyPersist

LEMMA NextReads ==
  TypeOK /\ Course /\ Housed /\ Reached /\ SeenBefore /\ ReadsItsWrites /\ [Next]_vars =>
    ReadsItsWrites'
<1> SUFFICES ASSUME TypeOK, Course, Housed, Reached, SeenBefore, ReadsItsWrites, [Next]_vars,
                    NEW q \in Runs, NEW p \in before'[q],
                    sess'[p] = sess'[q], seen'[p] = "ok"
             PROVE  /\ "env" \in dump'[p] =>
                         \E i, j \in 1..Len(log') : i <= j /\ log'[i] = p /\ log'[j] = base'[q][1]
                    /\ "pwd" \in dump'[p] =>
                         \E i, j \in 1..Len(log') : i <= j /\ log'[i] = p /\ log'[j] = base'[q][2]
  BY DEF ReadsItsWrites, NotOlder
<1>1. /\ p \in Runs /\ log \in Seq(Runs) /\ SettledStays(p) /\ SettledStays(q)
      /\ CourseInv(p) /\ CourseInv(q)
  BY NextTypes, Settles DEF TypeOK, Course
<1>2. log' = log \/ \E r \in Runs : log' = Append(log, r)
  BY OnlyPersist DEF Persist, state
<1>3. \A x, y : NotOlder(x, y) =>
        \E i, j \in 1..Len(log') : i <= j /\ log'[i] = x /\ log'[j] = y
  BY <1>1, <1>2, NotOlderStays DEF NotOlder
<1>4. ASSUME seen[p] # "none"
      PROVE  /\ seen[p] = "ok" /\ verdict[p] = "ok" /\ Started(p)
             /\ sess'[p] = sess[p] /\ dump'[p] = dump[p]
  BY <1>1, <1>4 DEF SettledStays, CourseInv, DoneInv, Started
<1>5. CASE Started(q)
  <2>1. p \in before[q] /\ sess'[q] = sess[q] /\ base'[q] = base[q]
    BY <1>1, <1>5 DEF SettledStays
  <2>2. seen[p] # "none"
    BY <2>1 DEF SeenBefore
  <2>3. sess[p] = sess[q] /\ seen[p] = "ok" /\ dump'[p] = dump[p]
    BY <1>4, <2>1, <2>2
  <2>4. /\ "env" \in dump[p] => NotOlder(p, base[q][1])
        /\ "pwd" \in dump[p] => NotOlder(p, base[q][2])
    BY <2>1, <2>3 DEF ReadsItsWrites
  <2> QED BY <1>3, <2>1, <2>3, <2>4
<1>6. CASE ~Started(q)
  <2>1. before[q] = {}
    BY <1>1, <1>6 DEF CourseInv, NotStarted, Started
  <2>2. PICK kind \in {"collect", "sse"} : Start(q, kind)
    BY <1>6, <2>1, OnlyStart
  <2>3. /\ seen[p] # "none" /\ sess'[q] = Current /\ base'[q] = <<env[Current], cwd[Current]>>
        /\ UNCHANGED <<env, cwd, log, dump>>
    BY <2>2 DEF Start, UseSession, TypeOK, state, scanners
  <2>4. sess[p] = Current /\ verdict[p] = "ok"
    BY <1>4, <2>3
  <2> QED BY <1>1, <1>3, <1>4, <2>3, <2>4 DEF Reached, NotOlder
<1> QED BY <1>5, <1>6

-----------------------------------------------------------------------------
(***************************************************************************)
(* The theorems on types, the channel and the persisted state              *)
(***************************************************************************)

IInv == TypeOK /\ Course /\ StateInv

LEMMA NextState == IInv /\ [Next]_vars => StateInv'
  BY NextHoused, NextOrigin, NextLogged, NextReached, NextSeenBefore, NextOneRun, NextReads
  DEF IInv, StateInv

\* The inductive invariant holds in every reachable state of the agent's runs. (stream)
THEOREM Invariant == Spec => []IInv
<1>1. Init => IInv
  BY InitTypes, InitCourse, InitState DEF IInv
<1>2. IInv /\ [Next]_vars => IInv'
  BY NextTypes, NextCourse, NextState DEF IInv
<1> QED BY <1>1, <1>2, PTL DEF Spec

\* Every variable keeps its type, and no pipe and no channel holds more than it can.
\* (stream, pump, scanners and consumer)
THEOREM SessionTypes == Spec => []TypeOK
<1>1. IInv => TypeOK
  BY DEF IInv
<1> QED BY <1>1, Invariant, PTL

\* No scanner sends on the channel after pump has closed it: pump gets there through
\* both of them. (pump)
THEOREM NeverSendsOnClosed == Spec => []NoSendAfterClose
<1>1. IInv => NoSendAfterClose
  BY DEF IInv, Course, CourseInv, PumpInv, ScannersDone, NoSendAfterClose
<1> QED BY <1>1, Invariant, PTL

\* A cancelled run leaves no trace in any session, whenever the cancel comes.
\* (pump, finalize under the context)
THEOREM CancelLeavesState == Spec => []CancelledLeavesNoTrace
<1>1. IInv => CancelledLeavesNoTrace
  BY DEF IInv, StateInv, Origin, CancelledLeavesNoTrace
<1> QED BY <1>1, Invariant, PTL

\* A run leaves its state to the session it was started in only. (pump)
THEOREM SessionsApart == Spec => []SessionsSeparate
<1>1. IInv => SessionsSeparate
  BY DEF IInv, StateInv, Origin, SessionsSeparate
<1> QED BY <1>1, Invariant, PTL

\* Environment and directory are replaced together. (pump)
THEOREM StateIsWhole == Spec => []StateFromOneRun
<1>1. IInv => StateFromOneRun
  BY DEF IInv, StateInv
<1> QED BY <1>1, Invariant, PTL

\* A run starts from the state the last run before it left, or a newer one, with any
\* number of runs in parallel. (stream, pump)
THEOREM ReadsWrites == Spec => []ReadsItsWrites
<1>1. IInv => ReadsItsWrites
  BY DEF IInv, StateInv
<1> QED BY <1>1, Invariant, PTL

-----------------------------------------------------------------------------
(***************************************************************************)
(* How often a value occurs in a sequence, and how a queue that is filled  *)
(* at one end and emptied at the other changes that.                       *)
(***************************************************************************)

At(s, x) == {i \in 1..Len(s) : s[i] = x}
Count(s, x) == Cardinality(At(s, x))

LEMMA AtFinite ==
  ASSUME NEW S, NEW s \in Seq(S), NEW x
  PROVE  IsFiniteSet(At(s, x)) /\ Count(s, x) \in Nat
<1>1. IsFiniteSet(1..Len(s))
  BY FS_Interval
<1>2. At(s, x) \in SUBSET (1..Len(s))
  BY DEF At
<1> QED BY <1>1, <1>2, FS_Subset, FS_CardinalityType DEF Count

LEMMA CountNone ==
  ASSUME NEW S, NEW s \in Seq(S), NEW x, \A i \in 1..Len(s) : s[i] # x
  PROVE  Count(s, x) = 0
<1>1. At(s, x) = {}
  BY DEF At
<1> QED BY <1>1, FS_EmptySet DEF Count

LEMMA CountEmpty == \A x : Count(<<>>, x) = 0
<1>1. \A x : At(<<>>, x) = {}
  BY DEF At
<1> QED BY <1>1, FS_EmptySet DEF Count

LEMMA CountAppend ==
  ASSUME NEW S, NEW s \in Seq(S), NEW y \in S, NEW x
  PROVE  Count(Append(s, y), x) = Count(s, x) + (IF y = x THEN 1 ELSE 0)
<1> DEFINE n == Len(s) + 1
<1>1. Len(s) \in Nat /\ Len(Append(s, y)) = n
      /\ (\A i \in 1..Len(s) : Append(s, y)[i] = s[i]) /\ Append(s, y)[n] = y
  OBVIOUS
<1>2. n \notin At(s, x)
  BY <1>1 DEF At
<1>3. CASE y = x
  <2>1. At(Append(s, y), x) = At(s, x) \cup {n}
    BY <1>1, <1>3 DEF At
  <2> QED BY <1>2, <1>3, <2>1, AtFinite, FS_AddElement DEF Count
<1>4. CASE y # x
  <2>1. At(Append(s, y), x) = At(s, x)
    BY <1>1, <1>4 DEF At
  <2> QED BY <1>4, <2>1, AtFinite DEF Count
<1> QED BY <1>3, <1>4

LEMMA CountTail ==
  ASSUME NEW S, NEW s \in Seq(S), s # <<>>, NEW x
  PROVE  Count(s, x) = Count(Tail(s), x) + (IF Head(s) = x THEN 1 ELSE 0)
<1> DEFINE t == Tail(s)
           later == At(s, x) \ {1}
           f == [i \in At(t, x) |-> i + 1]
<1>1. /\ t \in Seq(S) /\ Len(s) \in Nat \ {0} /\ Len(t) = Len(s) - 1 /\ Head(s) = s[1]
      /\ \A i \in 1..Len(t) : t[i] = s[i + 1]
  OBVIOUS
<1>2. Cardinality(later) = Count(t, x)
  <2>1. f \in [At(t, x) -> later]
    BY <1>1 DEF At
  <2>2. \A i, j \in At(t, x) : f[i] = f[j] => i = j
    BY <1>1 DEF At
  <2>3. ASSUME NEW j \in later PROVE \E i \in At(t, x) : f[i] = j
    <3>1. j - 1 \in At(t, x) /\ f[j - 1] = j
      BY <1>1, <2>3 DEF At
    <3> QED BY <3>1
  <2>4. f \in Bijection(At(t, x), later)
    BY <2>1, <2>2, <2>3 DEF Bijection, Injection, Surjection, IsInjective
  <2>5. IsFiniteSet(At(t, x))
    BY <1>1, AtFinite
  <2> QED BY <2>4, <2>5, FS_Bijection DEF ExistsBijection, Count
<1>3. CASE Head(s) = x
  <2>1. 1 \in At(s, x)
    BY <1>1, <1>3 DEF At
  <2>2. Count(s, x) \in Nat /\ Cardinality(later) = Count(s, x) - 1
    BY <2>1, AtFinite, FS_RemoveElement DEF Count
  <2> QED BY <1>2, <1>3, <2>2
<1>4. CASE Head(s) # x
  <2>1. later = At(s, x)
    BY <1>1, <1>4 DEF At
  <2>2. Count(s, x) = Cardinality(later)
    BY <2>1 DEF Count
  <2>3. Count(s, x) \in Nat
    BY AtFinite
  <2> HIDE DEF later
  <2> QED BY <1>2, <1>4, <2>2, <2>3
<1> QED BY <1>3, <1>4

-----------------------------------------------------------------------------
(***************************************************************************)
(* OutputComplete.  A line is in one of five places: in the pipe, in the   *)
(* hands of the scanner, in the channel, with the consumer, or lost; and a *)
(* line is lost only if the run is cancelled, or its consumer left.        *)
(***************************************************************************)

InHand(r, st) == IF scan[r][st] = "send" THEN 1 ELSE 0

OnItsWay(r, st) == Count(pipe[r][st], "line") + InHand(r, st) + Count(chan[r], st)

\* The run can still end without error.
Kept(r) == ~ctx[r] \/ pump[r] = "persist" \/ verdict[r] = "ok"

\* Nothing is lost before the scanner ends, nor in the end if the run is kept.
NoLineLost(r, st) ==
  consumer[r] # "left" /\ (scan[r][st] # "done" \/ Kept(r)) =>
    written[r][st] = got[r][st] + OnItsWay(r, st)

\* A scanner that ended in a run that is kept has read everything there will be.
PipeDrained(r, st) ==
  scan[r][st] = "done" /\ Kept(r) => bash[r] = "exited" /\ ~child[r] /\ pipe[r][st] = <<>>

AllReceived(r, st) == seen[r] = "ok" => got[r][st] = written[r][st]

LinesInv(r, st) == NoLineLost(r, st) /\ PipeDrained(r, st) /\ AllReceived(r, st)

Lines == \A r \in Runs, st \in Streams : LinesInv(r, st)

\* The buffers of this stream are as they were.
SameBuffers(r, st) ==
  /\ pipe'[r][st] = pipe[r][st] /\ chan'[r] = chan[r]
  /\ got'[r][st] = got[r][st] /\ written'[r][st] = written[r][st]

SameRun(r) ==
  /\ ctx'[r] = ctx[r] /\ bash'[r] = bash[r] /\ child'[r] = child[r] /\ pump'[r] = pump[r]
  /\ verdict'[r] = verdict[r] /\ consumer'[r] = consumer[r] /\ seen'[r] = seen[r]

LEMMA SameLines ==
  ASSUME NEW r \in Runs, NEW st \in Streams, LinesInv(r, st), SameBuffers(r, st), SameRun(r),
         scan'[r][st] = scan[r][st]
  PROVE  LinesInv(r, st)'
  BY DEF LinesInv, NoLineLost, PipeDrained, AllReceived, SameBuffers, SameRun, OnItsWay, InHand, Kept

LEMMA InitLines == Init => Lines
<1> SUFFICES ASSUME Init, NEW r \in Runs, NEW st \in Streams PROVE LinesInv(r, st)
  BY DEF Lines
<1>1. /\ pipe[r][st] = <<>> /\ chan[r] = <<>> /\ scan[r][st] = "none" /\ seen[r] = "none"
      /\ written[r][st] = 0 /\ got[r][st] = 0
  BY DEF Init, PerStream
<1>2. OnItsWay(r, st) = 0
  BY <1>1, CountEmpty DEF OnItsWay, InHand
<1> QED BY <1>1, <1>2 DEF LinesInv, NoLineLost, PipeDrained, AllReceived

\* The types that counting needs.
LEMMA BufferTypes ==
  ASSUME TypeOK, NEW r \in Runs, NEW st \in Streams
  PROVE  /\ pipe[r][st] \in Seq({"line", "env", "pwd"}) /\ chan[r] \in Seq(Streams \cup {"done"})
         /\ written[r][st] \in Nat /\ got[r][st] \in Nat
         /\ Count(pipe[r][st], "line") \in Nat /\ Count(chan[r], st) \in Nat
         /\ InHand(r, st) \in {0, 1} /\ OnItsWay(r, st) \in Nat
<1>1. /\ pipe[r][st] \in Seq({"line", "env", "pwd"}) /\ chan[r] \in Seq(Streams \cup {"done"})
      /\ written[r][st] \in Nat /\ got[r][st] \in Nat
  BY BoundsAssumption DEF TypeOK
<1>2. Count(pipe[r][st], "line") \in Nat /\ Count(chan[r], st) \in Nat
  BY <1>1, AtFinite
<1> QED BY <1>1, <1>2 DEF InHand, OnItsWay

\* A step that moves no line, ends no scanner and starts no writer.
LEMMA NothingMoves ==
  ASSUME NEW r \in Runs, NEW st \in Streams, LinesInv(r, st), SameBuffers(r, st),
         InHand(r, st)' = InHand(r, st), scan'[r][st] = "done" => scan[r][st] = "done",
         scan[r][st] = "done" => scan'[r][st] = "done",
         Kept(r)' => Kept(r), consumer'[r] # "left" => consumer[r] # "left",
         bash[r] = "exited" /\ ~child[r] => bash'[r] = "exited" /\ ~child'[r],
         seen'[r] = seen[r]
  PROVE  LinesInv(r, st)'
<1>1. OnItsWay(r, st)' = OnItsWay(r, st)
  BY DEF OnItsWay, SameBuffers
<1> QED BY <1>1 DEF LinesInv, NoLineLost, PipeDrained, AllReceived, SameBuffers

LEMMA ServerLines ==
  ASSUME TypeOK, Course, Lines, NEW r \in Runs,
         Start(r, "collect") \/ Start(r, "sse") \/ StartFails(r) \/ Cancel(r)
  PROVE  Lines'
<1> SUFFICES ASSUME NEW q \in Runs, NEW st \in Streams PROVE LinesInv(q, st)'
  BY DEF Lines
<1>1. LinesInv(q, st) /\ CourseInv(r)
  BY DEF Lines, Course
<1>2. ASSUME NEW kind \in {"collect", "sse"}, Start(r, kind) PROVE LinesInv(q, st)'
  <2>1. SameBuffers(q, st) /\ seen'[q] = seen[q] /\ (Kept(q)' => Kept(q))
    BY <1>2 DEF Start, SameBuffers, Kept, client, result, TypeOK
  <2>2. /\ InHand(q, st)' = InHand(q, st)
        /\ scan'[q][st] = "done" <=> scan[q][st] = "done"
        /\ consumer'[q] # "left" => consumer[q] # "left"
        /\ bash[q] = "exited" => bash'[q] = "exited" /\ child'[q] = child[q]
    BY <1>1, <1>2 DEF Start, InHand, TypeOK, CourseInv, NotStarted
  <2> QED BY <1>1, <2>1, <2>2, NothingMoves
<1>3. CASE StartFails(r)
  <2>1. SameBuffers(q, st) /\ seen'[q] = seen[q] /\ (Kept(q)' => Kept(q))
    BY <1>3 DEF StartFails, SameBuffers, Kept, client, group, scanners, TypeOK
  <2> QED BY <1>1, <1>3, <2>1, NothingMoves DEF StartFails, InHand, client, group, scanners
<1>4. CASE Cancel(r)
  <2>1. SameBuffers(q, st) /\ seen'[q] = seen[q] /\ (Kept(q)' => Kept(q))
    BY <1>4 DEF Cancel, SameBuffers, Kept, client, group, scanners, result, TypeOK
  <2> QED BY <1>1, <1>4, <2>1, NothingMoves DEF Cancel, InHand, client, group, scanners
<1> QED BY <1>2, <1>3, <1>4

\* What is put into a pipe: a line counts, a part of the dump does not.
LEMMA PutLines ==
  ASSUME TypeOK, NEW r \in Runs, NEW st \in Streams, NEW item \in {"line", "env", "pwd"},
         Put(r, st, item)
  PROVE  /\ Count(pipe'[r][st], "line") =
              Count(pipe[r][st], "line") + (IF item = "line" THEN 1 ELSE 0)
         /\ \A q \in Runs, t \in Streams : q # r \/ t # st => pipe'[q][t] = pipe[q][t]
<1>1. pipe[r][st] \in Seq({"line", "env", "pwd"})
  BY BufferTypes
<1>2. /\ pipe'[r][st] = Append(pipe[r][st], item)
      /\ \A q \in Runs, t \in Streams : q # r \/ t # st => pipe'[q][t] = pipe[q][t]
  BY DEF Put, TypeOK
<1> QED BY <1>1, <1>2, CountAppend

LEMMA GroupLines ==
  ASSUME TypeOK, Course, Lines, NEW r \in Runs,
         \/ \E st \in Streams : WriteLine(r, st)
         \/ Fork(r) \/ DumpEnv(r) \/ DumpPwd(r) \/ Exit(r) \/ ChildExits(r)
  PROVE  Lines'
<1> SUFFICES ASSUME NEW q \in Runs, NEW st \in Streams PROVE LinesInv(q, st)'
  BY DEF Lines
<1>1. LinesInv(q, st) /\ CourseInv(q)
  BY DEF Lines, Course
<1>2. CASE \E t \in Streams : WriteLine(r, t)
  <2>1. PICK t \in Streams : WriteLine(r, t)
    BY <1>2
  <2>2. SameRun(q) /\ scan' = scan /\ chan' = chan /\ got' = got /\ bash[r] = "user"
    BY <2>1 DEF WriteLine, SameRun, scanners, result, client
  <2>3. CASE q # r \/ st # t
    <3>1. SameBuffers(q, st)
      <4>1. pipe'[q][st] = pipe[q][st]
        BY <2>1, <2>3, PutLines DEF WriteLine
      <4>2. written'[q][st] = written[q][st]
        BY <2>1, <2>3 DEF WriteLine, TypeOK
      <4> QED BY <2>2, <4>1, <4>2 DEF SameBuffers
    <3> QED BY <1>1, <2>2, <3>1, SameLines
  <2>4. CASE q = r /\ st = t
    <3>1. Count(pipe'[q][st], "line") = Count(pipe[q][st], "line") + 1
      BY <2>1, <2>4, PutLines DEF WriteLine
    <3>2. written'[q][st] = written[q][st] + 1
      BY <2>1, <2>4 DEF WriteLine, TypeOK
    <3>3. OnItsWay(q, st)' = OnItsWay(q, st) + 1
      <4>1. /\ Count(pipe[q][st], "line") \in Nat /\ Count(chan[q], st) \in Nat
            /\ InHand(q, st) \in {0, 1}
        BY BufferTypes
      <4>2. InHand(q, st)' = InHand(q, st) /\ chan'[q] = chan[q]
        BY <2>2 DEF InHand
      <4> QED BY <3>1, <4>1, <4>2 DEF OnItsWay
    <3>4. seen[q] # "ok" /\ ~(scan[q][st] = "done" /\ Kept(q))
      <4>1. ~(scan[q][st] = "done" /\ Kept(q))
        BY <1>1, <2>2, <2>4 DEF LinesInv, PipeDrained
      <4> QED BY <1>1, <4>1 DEF CourseInv, DoneInv, PumpInv, ScannersDone, Kept
    <3>5. NoLineLost(q, st)'
      <4>1. NoLineLost(q, st) /\ (Kept(q)' <=> Kept(q))
        BY <1>1, <2>2 DEF LinesInv, SameRun, Kept
      <4>2. written[q][st] \in Nat /\ got[q][st] \in Nat /\ OnItsWay(q, st) \in Nat
        BY BufferTypes
      <4> QED BY <2>2, <3>2, <3>3, <4>1, <4>2 DEF NoLineLost, SameRun
    <3> QED BY <2>2, <3>4, <3>5 DEF LinesInv, PipeDrained, AllReceived, SameRun, Kept
  <2> QED BY <2>3, <2>4
<1>3. CASE DumpEnv(r) \/ DumpPwd(r)
  <2>1. PICK item \in {"env", "pwd"} : Put(r, "stdout", item)
    BY <1>3 DEF DumpEnv, DumpPwd
  <2>2. Count(pipe'[q][st], "line") = Count(pipe[q][st], "line")
    BY <2>1, PutLines, BufferTypes DEF Streams
  <2>3. /\ scan' = scan /\ chan' = chan /\ got' = got /\ written' = written /\ UNCHANGED <<ctx, pump, verdict, consumer, seen, child>>
        /\ bash[r] # "exited" /\ (q # r => bash'[q] = bash[q])
        /\ q # r => pipe'[q] = pipe[q]
    BY <1>3 DEF DumpEnv, DumpPwd, Put, scanners, result, client, TypeOK
  <2>4. OnItsWay(q, st)' = OnItsWay(q, st) /\ (Kept(q)' <=> Kept(q))
    BY <2>2, <2>3 DEF OnItsWay, InHand, Kept
  <2>5. q = r => ~(scan[q][st] = "done" /\ Kept(q))
    BY <1>1, <2>3 DEF LinesInv, PipeDrained
  <2> QED BY <1>1, <2>3, <2>4, <2>5 DEF LinesInv, NoLineLost, PipeDrained, AllReceived
<1>4. CASE Fork(r) \/ Exit(r) \/ ChildExits(r)
  <2>1. SameBuffers(q, st) /\ UNCHANGED <<scan, ctx, pump, verdict, consumer, seen>>
    BY <1>4 DEF Fork, Exit, ChildExits, SameBuffers, scanners, result, client
  <2>2. bash[q] = "exited" /\ ~child[q] => bash'[q] = "exited" /\ ~child'[q]
    BY <1>4 DEF Fork, Exit, ChildExits, TypeOK
  <2>3. InHand(q, st)' = InHand(q, st) /\ (Kept(q)' <=> Kept(q))
    BY <2>1 DEF InHand, Kept
  <2> QED BY <1>1, <2>1, <2>2, <2>3, NothingMoves
<1> QED BY <1>2, <1>3, <1>4

LEMMA ScannerLines ==
  ASSUME TypeOK, Course, Lines, NEW r \in Runs, NEW st \in Streams,
         Scan(r, st) \/ EndOfFile(r, st) \/ Send(r, st) \/ SendCancelled(r, st)
  PROVE  Lines'
<1> SUFFICES ASSUME NEW q \in Runs, NEW t \in Streams PROVE LinesInv(q, t)'
  BY DEF Lines
<1>1. LinesInv(q, t) /\ CourseInv(q)
  BY DEF Lines, Course
<1>2. SameRun(q) /\ got' = got /\ written' = written
  BY DEF Scan, EndOfFile, Send, SendCancelled, SameRun, group, result, client
<1>3. Kept(q)' <=> Kept(q)
  BY <1>2 DEF SameRun, Kept
<1>4. /\ Count(pipe[q][t], "line") \in Nat /\ Count(chan[q], t) \in Nat
      /\ InHand(q, t) \in {0, 1} /\ OnItsWay(q, t) \in Nat
      /\ pipe[q][t] \in Seq({"line", "env", "pwd"}) /\ chan[q] \in Seq(Streams \cup {"done"})
  BY BufferTypes
<1>5. ASSUME OnItsWay(q, t)' = OnItsWay(q, t), scan[q][t] # "done", scan'[q][t] # "done"
      PROVE  LinesInv(q, t)'
  BY <1>1, <1>2, <1>5 DEF LinesInv, NoLineLost, PipeDrained, AllReceived, SameRun
<1>6. CASE q # r \/ t # st
  <2>1. scan'[q][t] = scan[q][t] /\ pipe'[q][t] = pipe[q][t] /\ (q # r => chan'[q] = chan[q])
    BY <1>6 DEF Scan, EndOfFile, Send, SendCancelled, Scanner, TypeOK
  <2>2. Count(chan'[q], t) = Count(chan[q], t)
    <3>1. CASE chan'[q] = chan[q]
      BY <3>1
    <3>2. CASE chan'[q] # chan[q]
      <4>1. q = r /\ t # st /\ chan'[q] = Append(chan[q], st)
        BY <1>6, <2>1, <3>2 DEF Scan, EndOfFile, Send, SendCancelled, TypeOK
      <4> QED BY <1>4, <4>1, CountAppend
    <3> QED BY <3>1, <3>2
  <2>3. OnItsWay(q, t)' = OnItsWay(q, t)
    BY <2>1, <2>2 DEF OnItsWay, InHand
  <2> QED BY <1>1, <1>2, <1>3, <2>1, <2>3 DEF LinesInv, NoLineLost, PipeDrained, AllReceived, SameRun
<1>7. CASE q = r /\ t = st
  <2>1. CASE Scan(r, st)
    <3>1. /\ pipe'[q][t] = Tail(pipe[q][t]) /\ pipe[q][t] # <<>> /\ chan' = chan
          /\ scan[q][t] = "read"
          /\ scan'[q][t] = IF Head(pipe[q][t]) = "line" THEN "send" ELSE "read"
      BY <1>7, <2>1 DEF Scan, Scanner, TypeOK
    <3>2. Count(pipe[q][t], "line") =
            Count(pipe'[q][t], "line") + (IF Head(pipe[q][t]) = "line" THEN 1 ELSE 0)
      BY <1>4, <3>1, CountTail
    <3>3. Count(pipe'[q][t], "line") \in Nat
      BY <1>4, <3>1, TailFacts, AtFinite
    <3>4. OnItsWay(q, t)' = OnItsWay(q, t)
      BY <1>4, <3>1, <3>2, <3>3 DEF OnItsWay, InHand
    <3> QED BY <1>5, <3>1, <3>4
  <2>2. CASE EndOfFile(r, st)
    <3>1. /\ scan[q][t] = "read" /\ scan'[q][t] = "done" /\ UNCHANGED <<pipe, chan>>
          /\ pipe[q][t] = <<>> /\ bash[q] = "exited" /\ ~child[q]
      BY <1>7, <2>2 DEF EndOfFile, Scanner, TypeOK
    <3>2. OnItsWay(q, t)' = OnItsWay(q, t)
      BY <3>1 DEF OnItsWay, InHand
    <3> QED BY <1>1, <1>2, <3>1, <3>2 DEF LinesInv, NoLineLost, PipeDrained, AllReceived, SameRun
  <2>3. CASE Send(r, st)
    <3>1. /\ scan[q][t] = "send" /\ scan'[q][t] = "read" /\ UNCHANGED pipe
          /\ chan'[q] = Append(chan[q], t)
      BY <1>7, <2>3 DEF Send, Scanner, TypeOK
    <3>2. Count(chan'[q], t) = Count(chan[q], t) + 1
      BY <1>4, <3>1, CountAppend
    <3>3. OnItsWay(q, t)' = OnItsWay(q, t)
      BY <1>4, <3>1, <3>2 DEF OnItsWay, InHand
    <3> QED BY <1>5, <3>1, <3>3
  <2>4. CASE SendCancelled(r, st)
    <3>1. scan[q][t] = "send" /\ scan'[q][t] = "done" /\ ctx[q]
      BY <1>7, <2>4 DEF SendCancelled, Scanner, TypeOK
    <3>2. ~Kept(q)
      BY <1>1, <3>1 DEF CourseInv, PumpInv, ScannersDone, Kept
    <3> QED BY <1>1, <1>2, <1>3, <3>1, <3>2 DEF LinesInv, NoLineLost, PipeDrained, AllReceived, SameRun
  <2> QED BY <2>1, <2>2, <2>3, <2>4
<1> QED BY <1>6, <1>7

LEMMA PumpLines ==
  ASSUME TypeOK, Course, Lines, NEW r \in Runs,
         GroupDone(r) \/ Kill(r) \/ Finish(r) \/ Persist(r) \/ SendDone(r)
  PROVE  Lines'
<1> SUFFICES ASSUME NEW q \in Runs, NEW st \in Streams PROVE LinesInv(q, st)'
  BY DEF Lines
<1>1. LinesInv(q, st) /\ CourseInv(r)
  BY DEF Lines, Course
<1>2. /\ UNCHANGED <<scan, pipe, got, written, ctx, consumer, seen>>
      /\ bash[q] = "exited" /\ ~child[q] => bash'[q] = "exited" /\ ~child'[q]
  BY DEF GroupDone, Kill, Finish, Persist, SendDone, scanners, client, group, TypeOK
<1>3. Kept(q)' => Kept(q)
  BY <1>1 DEF GroupDone, Kill, Finish, Persist, SendDone, PumpGoto, Kept, TypeOK, CourseInv, PumpInv
<1>4. CASE ~SendDone(r)
  <2>1. SameBuffers(q, st) /\ InHand(q, st)' = InHand(q, st)
    BY <1>2, <1>4 DEF GroupDone, Kill, Finish, Persist, SameBuffers, InHand
  <2> QED BY <1>1, <1>2, <1>3, <2>1, NothingMoves
<1>5. CASE SendDone(r)
  <2>1. Count(chan'[q], st) = Count(chan[q], st)
    <3>1. CASE q # r
      BY <1>5, <3>1 DEF SendDone, TypeOK
    <3>2. CASE q = r
      <4>1. chan'[r] = Append(chan[r], "done") /\ chan[r] \in Seq(Streams \cup {"done"})
        BY <1>5 DEF SendDone, TypeOK
      <4>2. Count(chan[r], st) \in Nat /\ st # "done"
        BY BufferTypes DEF Streams
      <4> QED BY <3>2, <4>1, <4>2, CountAppend
    <3> QED BY <3>1, <3>2
  <2>2. OnItsWay(q, st)' = OnItsWay(q, st)
    BY <1>2, <2>1 DEF OnItsWay, InHand
  <2> QED BY <1>1, <1>2, <1>3, <2>2 DEF LinesInv, NoLineLost, PipeDrained, AllReceived
<1> QED BY <1>4, <1>5

LEMMA ConsumerLines ==
  ASSUME TypeOK, Course, Lines, NEW r \in Runs, Receive(r) \/ Leave(r) \/ GiveUp(r)
  PROVE  Lines'
<1> SUFFICES ASSUME NEW q \in Runs, NEW st \in Streams PROVE LinesInv(q, st)'
  BY DEF Lines
<1>1. LinesInv(q, st) /\ CourseInv(q)
  BY DEF Lines, Course
<1>2. UNCHANGED <<scan, pipe, written, ctx, pump, verdict, bash, child>>
  BY DEF Receive, Leave, GiveUp, group, scanners, result
<1>3. Kept(q)' <=> Kept(q)
  BY <1>2 DEF Kept
<1>4. CASE q # r
  <2>1. SameBuffers(q, st) /\ SameRun(q)
    BY <1>2, <1>4 DEF Receive, Leave, GiveUp, SameBuffers, SameRun, TypeOK
  <2> QED BY <1>1, <1>2, <2>1, SameLines
<1>5. CASE q = r /\ (Leave(r) \/ GiveUp(r))
  <2>1. consumer'[q] = "left" /\ UNCHANGED <<got, seen>>
    BY <1>5 DEF Leave, GiveUp, TypeOK
  <2> QED BY <1>1, <1>2, <1>3, <2>1 DEF LinesInv, NoLineLost, PipeDrained, AllReceived
<1>6. CASE q = r /\ Receive(r)
  <2>1. /\ chan[q] # <<>> /\ chan'[q] = Tail(chan[q])
        /\ consumer[q] \in {"collect", "sse"} /\ seen[q] = "none"
        /\ chan[q] \in Seq(Streams \cup {"done"}) /\ got[q][st] \in Nat /\ written[q][st] \in Nat
        /\ OnItsWay(q, st) \in Nat /\ Count(pipe[q][st], "line") \in Nat
        /\ InHand(q, st) \in {0, 1}
    BY <1>1, <1>6, BufferTypes DEF Receive, TypeOK, CourseInv, DoneInv
  <2>2. /\ Count(chan[q], st) = Count(chan'[q], st) + (IF Head(chan[q]) = st THEN 1 ELSE 0)
        /\ Count(chan'[q], st) \in Nat
    <3> DEFINE S == Streams \cup {"done"}
    <3>1. chan[q] \in Seq(S) /\ chan[q] # <<>>
      BY <2>1
    <3> HIDE DEF S
    <3>2. Tail(chan[q]) \in Seq(S)
      BY <3>1, TailFacts
    <3>3. Count(Tail(chan[q]), st) \in Nat
      BY <3>2, AtFinite
    <3>4. Count(chan[q], st) = Count(Tail(chan[q]), st) + (IF Head(chan[q]) = st THEN 1 ELSE 0)
      BY <3>1, CountTail
    <3> QED BY <2>1, <3>3, <3>4
  <2>3. got'[q][st] = got[q][st] + (IF Head(chan[q]) = st THEN 1 ELSE 0)
    <3>1. "done" # st /\ got \in [Runs -> [Streams -> Nat]]
      BY DEF Streams, TypeOK
    <3> QED BY <1>6, <2>1, <3>1 DEF Receive
  <2>4. got'[q][st] + OnItsWay(q, st)' = got[q][st] + OnItsWay(q, st)
    <3>1. InHand(q, st)' = InHand(q, st) /\ pipe'[q][st] = pipe[q][st]
      BY <1>2 DEF InHand
    <3> DEFINE here == IF Head(chan[q]) = st THEN 1 ELSE 0
    <3>2. /\ OnItsWay(q, st) = Count(pipe[q][st], "line") + InHand(q, st) + Count(chan[q], st)
          /\ OnItsWay(q, st)' = Count(pipe[q][st], "line") + InHand(q, st) + Count(chan'[q], st)
      BY <3>1 DEF OnItsWay
    <3>3. Count(chan[q], st) = Count(chan'[q], st) + here /\ Count(chan'[q], st) \in Nat
      BY <2>2
    <3>4. got'[q][st] = got[q][st] + here /\ here \in {0, 1}
      BY <2>3
    <3>5. /\ got[q][st] \in Nat /\ Count(pipe[q][st], "line") \in Nat /\ InHand(q, st) \in {0, 1}
      BY <2>1
    <3> HIDE DEF here
    <3> QED BY <3>2, <3>3, <3>4, <3>5
  <2>5. NoLineLost(q, st)'
    BY <1>1, <1>2, <1>3, <2>1, <2>4 DEF LinesInv, NoLineLost
  <2>6. PipeDrained(q, st)'
    BY <1>1, <1>2, <1>3 DEF LinesInv, PipeDrained
  <2>7. AllReceived(q, st)'
    <3>1. CASE Head(chan[q]) # "done"
      BY <1>6, <2>1, <3>1 DEF Receive, AllReceived
    <3>2. CASE Head(chan[q]) = "done" /\ verdict[q] # "ok"
      BY <1>6, <2>1, <3>2 DEF Receive, AllReceived, TypeOK
    <3>3. CASE Head(chan[q]) = "done" /\ verdict[q] = "ok"
      <4>1. Len(chan[q]) = 1 /\ pump[q] = "closed" /\ chan[q][1] = "done"
        <5>1. Len(chan[q]) \in Nat \ {0} /\ Head(chan[q]) = chan[q][1]
          BY <2>1, TailFacts
        <5>2. 1 \in 1..Len(chan[q]) /\ chan[q][1] = "done"
          BY <3>3, <5>1
        <5> QED BY <1>1, <5>2 DEF CourseInv, DoneInv
      <4>2. scan[q][st] = "done" /\ Kept(q)
        BY <1>1, <3>3, <4>1 DEF CourseInv, PumpInv, ScannersDone, Kept
      <4>3. pipe[q][st] = <<>> /\ InHand(q, st) = 0
        BY <1>1, <4>2 DEF LinesInv, PipeDrained, InHand
      <4>4. Count(chan[q], st) = 0
        BY <2>1, <4>1, CountNone DEF Streams
      <4>5. OnItsWay(q, st) = 0
        BY <4>3, <4>4, CountEmpty DEF OnItsWay
      <4>6. written[q][st] = got[q][st]
        BY <1>1, <2>1, <4>2, <4>5 DEF LinesInv, NoLineLost
      <4>7. got'[q][st] = got[q][st]
        BY <2>1, <2>3, <3>3 DEF Streams
      <4> QED BY <1>2, <4>6, <4>7 DEF AllReceived
    <3> QED BY <3>1, <3>2, <3>3
  <2> QED BY <2>5, <2>6, <2>7 DEF LinesInv
<1> QED BY <1>4, <1>5, <1>6

LEMMA NextLines == TypeOK /\ Course /\ Lines /\ [Next]_vars => Lines'
<1>1. CASE UNCHANGED vars
  BY <1>1 DEF vars, Lines, LinesInv, NoLineLost, PipeDrained, AllReceived, OnItsWay, InHand, Kept,
              group, scanners, result, client
<1>2. ASSUME TypeOK, Course, Lines, NEW r \in Runs, RunStep(r) PROVE Lines'
  BY <1>2, ServerLines, GroupLines, PumpLines, ConsumerLines DEF RunStep
<1>3. ASSUME TypeOK, Course, Lines, NEW r \in Runs, NEW st \in Streams, StreamStep(r, st)
      PROVE  Lines'
  BY <1>3, ScannerLines, GroupLines DEF StreamStep
<1>4. ASSUME Lines, DeleteSession PROVE Lines'
  BY <1>4 DEF DeleteSession, Lines, LinesInv, NoLineLost, PipeDrained, AllReceived, OnItsWay, InHand,
              Kept, group, scanners, result, client
<1> QED BY <1>1, <1>2, <1>3, <1>4 DEF Next

\* A consumer that sees a run end without error has every line the command wrote, for
\* any sizes of pipes and channel, any number of runs and lines, and any order in which
\* the scanners, the pump and the shell come to their ends. (pump, runGroup)
THEOREM OutputIsComplete == Spec => []OutputComplete
<1>1. Init => Lines
  BY InitLines
<1>2. IInv /\ Lines /\ [Next]_vars => Lines'
  BY NextLines DEF IInv
<1>3. TypeOK /\ Lines => OutputComplete
  <2> SUFFICES ASSUME TypeOK, Lines, NEW r \in Runs, seen[r] = "ok" PROVE got[r] = written[r]
    BY DEF OutputComplete
  <2>1. \A st \in Streams : got[r][st] = written[r][st]
    BY DEF Lines, LinesInv, AllReceived
  <2> QED BY <2>1 DEF TypeOK
<1>4. IInv => TypeOK
  BY DEF IInv
<1> QED BY <1>1, <1>2, <1>3, <1>4, Invariant, PTL DEF Spec
=============================================================================
