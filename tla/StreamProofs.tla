---------------------------- MODULE StreamProofs ----------------------------
(***************************************************************************)
(* A streamed run is a run of Session, so what is proved there holds here; *)
(* and a caller that is told of success has all the output, for any sizes  *)
(* of the buffers and however connection, reader and caller fail.          *)
(***************************************************************************)
EXTENDS Stream, SessionProofs

-----------------------------------------------------------------------------
(***************************************************************************)
(* Stream implements Session                                               *)
(***************************************************************************)

LEMMA StreamStepIsSession == [StreamNext]_streamVars => [Next]_vars
<1> SUFFICES ASSUME StreamNext PROVE Next \/ UNCHANGED vars
  BY DEF streamVars
<1>1. ASSUME NEW r \in Runs, AgentStep(r) PROVE Next
  BY <1>1 DEF AgentStep, Next, RunStep
<1>2. ASSUME NEW r \in Runs, Open(r) \/ HandlerStep(r) \/ ServerCancels(r) PROVE Next
  BY <1>2 DEF Open, HandlerStep, ServerCancels, Relay, RelayLost, RelayFails, RelayUnfit,
              HandlerLeaves, Next, RunStep
<1>3. ASSUME NEW r \in Runs, Break(r) \/ ReaderStep(r) \/ Take(r) \/ CallerCancels(r)
      PROVE  UNCHANGED vars
  BY <1>3 DEF Break, ReaderStep, ReadFrame, Forward, ForwardCancelled, ReadEnds, ReadFails, Report,
              Take, CallerCancels
<1>4. CASE DeleteSession
  BY <1>4 DEF Next
<1> QED BY <1>1, <1>2, <1>3, <1>4 DEF StreamNext

\* Whatever SDK, connection and caller do, the agent's part is a run of Session.
\* (handleRunStream, sdk.Stream)
THEOREM StreamRunsSession == StreamSpec => Spec
<1>1. StreamInit => Init
  BY DEF StreamInit
<1> QED BY <1>1, StreamStepIsSession, PTL DEF StreamSpec, Spec

\* No send on a closed channel in a streamed run. (pump)
THEOREM StreamNeverSendsOnClosed == StreamSpec => []NoSendAfterClose
  BY StreamRunsSession, NeverSendsOnClosed, PTL

\* Complete output for the handler of a streamed run. (pump, handleRunStream)
THEOREM StreamOutputIsComplete == StreamSpec => []OutputComplete
  BY StreamRunsSession, OutputIsComplete, PTL

-----------------------------------------------------------------------------
(***************************************************************************)
(* The inductive invariant                                                 *)
(***************************************************************************)

\* A run without a response has nothing on the SDK's side.
LinkInv(r) ==
  /\ ~Started(r) => conn[r] = "none"
  /\ conn[r] = "none" =>
       /\ reader[r] = "none" /\ wire[r] = <<>> /\ queue[r] = <<>> /\ holding[r] = "none"
       /\ final[r] = "none" /\ \A st \in Streams : received[r][st] = 0
  /\ conn[r] # "none" => consumer[r] \in {"sse", "finished", "left"}
  /\ reader[r] = "send" <=> holding[r] # "none"

\* The done event without error comes last, wherever it is.
OkInv(r) ==
  /\ \A i \in 1..Len(wire[r]) : wire[r][i] = "ok" => i = Len(wire[r]) /\ seen[r] = "ok"
  /\ holding[r] = "ok" => wire[r] = <<>> /\ seen[r] = "ok"
  /\ \A i \in 1..Len(queue[r]) : queue[r][i] = "ok" =>
       /\ wire[r] = <<>> /\ holding[r] = "none" /\ seen[r] = "ok"
       /\ \A j \in i..Len(queue[r]) : queue[r][j] \notin Streams
  /\ final[r] = "ok" =>
       /\ wire[r] = <<>> /\ holding[r] = "none" /\ seen[r] = "ok"
       /\ \A j \in 1..Len(queue[r]) : queue[r][j] \notin Streams

\* It can still reach the caller, or has.
OkComing(r) ==
  \/ reader[r] \in {"read", "send"} /\ \E i \in 1..Len(wire[r]) : wire[r][i] = "ok"
  \/ holding[r] = "ok"
  \/ \E i \in 1..Len(queue[r]) : queue[r][i] = "ok"
  \/ final[r] = "ok"

Held(r, st) == IF holding[r] = st THEN 1 ELSE 0

OnTheLink(r, st) == Count(wire[r], st) + Held(r, st) + Count(queue[r], st)

\* What the handler took is on the link or with the caller.
LinkLines(r) ==
  conn[r] = "open" \/ OkComing(r) =>
    \A st \in Streams : got[r][st] = received[r][st] + OnTheLink(r, st)

StreamInv == StreamTypeOK /\ \A r \in Runs : LinkInv(r) /\ OkInv(r) /\ LinkLines(r)

LEMMA InitStream == StreamInit => StreamInv
<1> SUFFICES ASSUME StreamInit PROVE StreamInv
  OBVIOUS
<1>1. StreamTypeOK
  BY WireAssumption, BoundsAssumption DEF StreamInit, StreamTypeOK, Frames, PerStream
<1>2. ASSUME NEW r \in Runs PROVE LinkInv(r) /\ OkInv(r) /\ LinkLines(r)
  BY DEF StreamInit, PerStream, LinkInv, OkInv, LinkLines, OkComing
<1> QED BY <1>1, <1>2 DEF StreamInv

\* What the invariant says of a run depends on this only.
SameStream(r) ==
  /\ wire'[r] = wire[r] /\ queue'[r] = queue[r] /\ conn'[r] = conn[r] /\ reader'[r] = reader[r]
  /\ holding'[r] = holding[r] /\ received'[r] = received[r] /\ final'[r] = final[r]

LEMMA StreamUntouched ==
  ASSUME NEW r \in Runs, LinkInv(r), OkInv(r), LinkLines(r), SameStream(r),
         Started(r) => Started(r)',
         conn[r] # "none" =>
           /\ got'[r] = got[r] /\ seen'[r] = seen[r]
           /\ consumer'[r] \in {consumer[r], "left"}
  PROVE  LinkInv(r)' /\ OkInv(r)' /\ LinkLines(r)'
<1>1. CASE conn[r] = "none"
  BY <1>1 DEF LinkInv, OkInv, LinkLines, OkComing, SameStream
<1>2. CASE conn[r] # "none"
  BY <1>2 DEF LinkInv, OkInv, LinkLines, OkComing, OnTheLink, Held, SameStream
<1> QED BY <1>1, <1>2

LEMMA StartedStays ==
  ASSUME IInv, StreamNext, NEW r \in Runs, Started(r)
  PROVE  Started(r)'
  BY Settles, StreamStepIsSession DEF IInv, SettledStays

\* What the agent does on its own.
LEMMA AgentKeeps ==
  ASSUME IInv, NEW r \in Runs, NEW q \in Runs,
         AgentStep(r) \/ ServerCancels(r) \/ HandlerLeaves(r) \/ RelayFails(r) \/ DeleteSession,
         Started(q), consumer[q] \in {"sse", "finished", "left"}
  PROVE  got'[q] = got[q] /\ seen'[q] = seen[q] /\ consumer'[q] \in {consumer[q], "left"}
<1>1. TypeOK
  BY DEF IInv
<1>2. CASE AgentStep(r)
  <2>1. CASE Start(r, "collect") \/ StartFails(r)
    BY <1>1, <2>1 DEF Start, StartFails, Started, client, TypeOK
  <2>2. CASE consumer[r] = "collect" /\ (Cancel(r) \/ Receive(r))
    BY <1>1, <2>2 DEF Cancel, Receive, client, TypeOK
  <2>3. CASE \/ Fork(r) \/ DumpEnv(r) \/ DumpPwd(r) \/ Exit(r) \/ ChildExits(r)
             \/ GroupDone(r) \/ Kill(r) \/ Finish(r) \/ Persist(r) \/ SendDone(r)
    BY <2>3 DEF Fork, DumpEnv, DumpPwd, Exit, ChildExits, GroupDone, Kill, Finish, Persist,
                SendDone, client
  <2>4. CASE \E st \in Streams : StreamStep(r, st)
    BY <2>4 DEF StreamStep, WriteLine, Scan, EndOfFile, Send, SendCancelled, client
  <2> QED BY <1>2, <2>1, <2>2, <2>3, <2>4 DEF AgentStep
<1>3. CASE ServerCancels(r) \/ DeleteSession
  BY <1>3 DEF ServerCancels, Cancel, DeleteSession, client
<1>4. CASE HandlerLeaves(r) \/ RelayFails(r)
  BY <1>1, <1>4 DEF HandlerLeaves, RelayFails, Leave, GiveUp, TypeOK
<1> QED BY <1>2, <1>3, <1>4

LEMMA AgentStream ==
  ASSUME IInv, StreamInv, StreamNext, NEW r \in Runs,
         \/ AgentStep(r) \/ ServerCancels(r) \/ HandlerLeaves(r) \/ RelayFails(r)
         \/ DeleteSession /\ Alone
  PROVE  StreamInv'
<1>1. UNCHANGED <<link, sdk, caller, unfit>>
  BY DEF AgentStep, ServerCancels, HandlerLeaves, RelayFails, Alone
<1>2. StreamTypeOK'
  BY <1>1 DEF StreamInv, StreamTypeOK, link, sdk, caller
<1>3. ASSUME NEW q \in Runs PROVE LinkInv(q)' /\ OkInv(q)' /\ LinkLines(q)'
  <2>1. SameStream(q)
    BY <1>1 DEF SameStream, link, sdk, caller
  <2>2. Started(q) => Started(q)'
    BY StartedStays
  <2>3. LinkInv(q) /\ OkInv(q) /\ LinkLines(q)
    BY DEF StreamInv
  <2>4. conn[q] # "none" => Started(q) /\ consumer[q] \in {"sse", "finished", "left"}
    BY <2>3 DEF LinkInv
  <2>5. conn[q] # "none" =>
          got'[q] = got[q] /\ seen'[q] = seen[q] /\ consumer'[q] \in {consumer[q], "left"}
    BY <2>4, AgentKeeps
  <2> QED BY <2>1, <2>2, <2>3, <2>5, StreamUntouched
<1> QED BY <1>2, <1>3 DEF StreamInv

-----------------------------------------------------------------------------
(***************************************************************************)
(* The steps on the link                                                   *)
(***************************************************************************)

\* Frames of a queue are counted, and so are its head and tail.
LEMMA FrameTail ==
  ASSUME NEW s \in Seq(Frames), s # <<>>, NEW x
  PROVE  /\ Tail(s) \in Seq(Frames) /\ Head(s) \in Frames /\ Head(s) = s[1]
         /\ Len(s) \in Nat \ {0} /\ Len(Tail(s)) = Len(s) - 1
         /\ \A i \in 1..Len(Tail(s)) : Tail(s)[i] = s[i + 1]
         /\ Count(Tail(s), x) \in Nat
         /\ Count(s, x) = Count(Tail(s), x) + (IF Head(s) = x THEN 1 ELSE 0)
<1>1. Tail(s) \in Seq(Frames)
  BY TailFacts
<1>2. Count(Tail(s), x) \in Nat
  BY <1>1, AtFinite
<1>3. Count(s, x) = Count(Tail(s), x) + (IF Head(s) = x THEN 1 ELSE 0)
  BY CountTail
<1> QED BY <1>1, <1>2, <1>3, TailFacts

LEMMA FrameAppend ==
  ASSUME NEW s \in Seq(Frames), NEW y \in Frames, NEW x
  PROVE  /\ Append(s, y) \in Seq(Frames)
         /\ Len(s) \in Nat /\ Len(Append(s, y)) = Len(s) + 1
         /\ \A i \in 1..Len(s) : Append(s, y)[i] = s[i]
         /\ Append(s, y)[Len(s) + 1] = y
         /\ Count(s, x) \in Nat
         /\ Count(Append(s, y), x) = Count(s, x) + (IF y = x THEN 1 ELSE 0)
  BY AppendFacts, AtFinite, CountAppend

\* What counting needs of one run.
LEMMA LinkRunTypes ==
  ASSUME IInv, StreamInv, NEW r \in Runs
  PROVE  /\ wire[r] \in Seq(Frames) /\ queue[r] \in Seq(Frames)
         /\ holding[r] \in Frames \cup {"none"}
         /\ LinkInv(r) /\ OkInv(r) /\ LinkLines(r) /\ CourseInv(r)
         /\ \A st \in Streams :
              /\ got[r][st] \in Nat /\ received[r][st] \in Nat /\ Held(r, st) \in {0, 1}
              /\ Count(wire[r], st) \in Nat /\ Count(queue[r], st) \in Nat
<1>1. wire[r] \in Seq(Frames) /\ queue[r] \in Seq(Frames)
  BY DEF StreamInv, StreamTypeOK
<1>2. \A st \in Streams : Count(wire[r], st) \in Nat /\ Count(queue[r], st) \in Nat
  BY <1>1, AtFinite
<1> QED BY <1>1, <1>2 DEF StreamInv, StreamTypeOK, IInv, Course, TypeOK, Held

\* The reader takes a frame.
LEMMA ReadFrameStream ==
  ASSUME IInv, StreamInv, StreamNext, NEW r \in Runs, ReadFrame(r)
  PROVE  LinkInv(r)' /\ OkInv(r)' /\ LinkLines(r)'
<1>1. /\ reader[r] = "read" /\ wire[r] # <<>>
      /\ reader'[r] = "send" /\ holding'[r] = Head(wire[r]) /\ wire'[r] = Tail(wire[r])
      /\ UNCHANGED <<vars, conn, queue, received, final>>
  BY DEF ReadFrame, Reader, StreamInv, StreamTypeOK, caller
<1>2. UNCHANGED <<got, seen, consumer>> /\ (Started(r) => Started(r)')
  BY <1>1, StartedStays DEF vars, client
<1>3. /\ wire[r] \in Seq(Frames) /\ LinkInv(r) /\ OkInv(r) /\ LinkLines(r)
  BY LinkRunTypes
<1>4. holding[r] = "none"
  BY <1>1, <1>3 DEF LinkInv
<1>5. /\ Head(wire[r]) \in Frames /\ Head(wire[r]) = wire[r][1] /\ Len(wire[r]) \in Nat \ {0}
      /\ Len(wire'[r]) = Len(wire[r]) - 1 /\ wire'[r] \in Seq(Frames)
      /\ \A i \in 1..Len(wire'[r]) : wire'[r][i] = wire[r][i + 1]
  BY <1>1, <1>3, FrameTail
<1>6. LinkInv(r)'
  BY <1>1, <1>2, <1>3, <1>5 DEF LinkInv, Frames, Streams
<1>7. OkInv(r)'
  BY <1>1, <1>2, <1>3, <1>5 DEF OkInv
<1>8. OkComing(r)' => OkComing(r)
  BY <1>1, <1>5 DEF OkComing
<1>9. ASSUME NEW st \in Streams PROVE OnTheLink(r, st)' = OnTheLink(r, st)
  <2>1. /\ Count(wire[r], st) = Count(wire'[r], st) + (IF Head(wire[r]) = st THEN 1 ELSE 0)
        /\ Count(wire'[r], st) \in Nat /\ Count(queue[r], st) \in Nat
    BY <1>1, <1>3, FrameTail, LinkRunTypes
  <2>2. /\ Held(r, st) = 0 /\ Held(r, st)' = IF Head(wire[r]) = st THEN 1 ELSE 0
    BY <1>1, <1>4 DEF Held, Streams
  <2>3. Count(queue'[r], st) = Count(queue[r], st)
    BY <1>1
  <2> QED BY <2>1, <2>2, <2>3 DEF OnTheLink
<1>10. LinkLines(r)'
  BY <1>1, <1>2, <1>3, <1>8, <1>9 DEF LinkLines
<1> QED BY <1>6, <1>7, <1>10

\* It passes the frame on.
LEMMA ForwardStream ==
  ASSUME IInv, StreamInv, StreamNext, NEW r \in Runs, Forward(r)
  PROVE  LinkInv(r)' /\ OkInv(r)' /\ LinkLines(r)'
<1>1. /\ reader[r] = "send" /\ reader'[r] = "read" /\ holding'[r] = "none"
      /\ queue'[r] = Append(queue[r], holding[r])
      /\ UNCHANGED <<vars, conn, wire, received, final>>
  BY DEF Forward, Reader, StreamInv, StreamTypeOK, caller, link
<1>2. UNCHANGED <<got, seen, consumer>> /\ (Started(r) => Started(r)')
  BY <1>1, StartedStays DEF vars, client
<1>3. queue[r] \in Seq(Frames) /\ LinkInv(r) /\ OkInv(r) /\ LinkLines(r)
  BY LinkRunTypes
<1>4. holding[r] \in Frames
  BY <1>1, <1>3, LinkRunTypes DEF LinkInv
<1>5. /\ Len(queue[r]) \in Nat /\ Len(queue'[r]) = Len(queue[r]) + 1
      /\ \A i \in 1..Len(queue[r]) : queue'[r][i] = queue[r][i]
      /\ queue'[r][Len(queue[r]) + 1] = holding[r] /\ queue'[r] # <<>>
  BY <1>1, <1>3, <1>4, FrameAppend
<1>6. /\ \A i \in 1..Len(queue[r]) : queue[r][i] # "ok"
      /\ final[r] # "ok" /\ holding[r] # "none"
  BY <1>1, <1>3 DEF LinkInv, OkInv
<1>7. LinkInv(r)'
  BY <1>1, <1>2, <1>3, <1>5, <1>6 DEF LinkInv
<1>8. OkInv(r)'
  BY <1>1, <1>2, <1>3, <1>5, <1>6 DEF OkInv, Streams
<1>9. OkComing(r)' => OkComing(r)
  BY <1>1, <1>5 DEF OkComing
<1>10. ASSUME NEW st \in Streams PROVE OnTheLink(r, st)' = OnTheLink(r, st)
  <2>1. /\ Count(queue'[r], st) = Count(queue[r], st) + (IF holding[r] = st THEN 1 ELSE 0)
        /\ Count(queue[r], st) \in Nat /\ Count(wire[r], st) \in Nat
    BY <1>1, <1>3, <1>4, FrameAppend, LinkRunTypes
  <2>2. Held(r, st)' = 0 /\ Held(r, st) = IF holding[r] = st THEN 1 ELSE 0
    BY <1>1 DEF Held, Streams
  <2>3. Count(wire'[r], st) = Count(wire[r], st)
    BY <1>1
  <2> QED BY <2>1, <2>2, <2>3 DEF OnTheLink
<1>11. LinkLines(r)'
  BY <1>1, <1>2, <1>3, <1>9, <1>10 DEF LinkLines
<1> QED BY <1>7, <1>8, <1>11

\* The reader returns or fails; what it holds, and later what is on the wire, is lost
\* to the caller.
LEMMA ReaderEndsStream ==
  ASSUME IInv, StreamInv, StreamNext, NEW r \in Runs,
         ForwardCancelled(r) \/ ReadEnds(r) \/ ReadFails(r)
  PROVE  LinkInv(r)' /\ OkInv(r)' /\ LinkLines(r)'
<1>1. /\ conn[r] # "none" => conn'[r] # "none"
      /\ UNCHANGED <<vars, wire, queue, received, final>>
  BY DEF ForwardCancelled, ReadEnds, ReadFails, Return, Conn, caller, link, StreamInv, StreamTypeOK
<1>2. UNCHANGED <<got, seen, consumer>> /\ (Started(r) => Started(r)')
  BY <1>1, StartedStays DEF vars, client
<1>3. LinkInv(r) /\ OkInv(r) /\ LinkLines(r)
  BY LinkRunTypes
<1>4. conn[r] # "none" /\ conn'[r] # "none"
  BY <1>1, <1>3 DEF ForwardCancelled, ReadEnds, ReadFails, LinkInv
<1>5. /\ reader'[r] \in {"fail", "closed"} /\ holding'[r] = "none"
      /\ conn'[r] = "open" => conn[r] = "open" /\ holding[r] = "none"
  <2>1. /\ conn \in [Runs -> {"none", "open", "ended", "broken"}]
        /\ reader \in [Runs -> {"none", "read", "send", "fail", "closed"}]
        /\ holding \in [Runs -> Frames \cup {"none"}]
    BY DEF StreamInv, StreamTypeOK
  <2>2. CASE ForwardCancelled(r) \/ ReadEnds(r)
    BY <2>1, <2>2 DEF ForwardCancelled, ReadEnds, Return, Conn, Reader
  <2>3. CASE ReadFails(r)
    <3>1. reader'[r] = "fail" /\ holding' = holding /\ conn' = conn /\ reader[r] = "read"
      BY <2>1, <2>3 DEF ReadFails, Reader, link
    <3> QED BY <1>3, <3>1 DEF LinkInv
  <2> QED BY <2>2, <2>3
<1>6. LinkInv(r)'
  BY <1>1, <1>2, <1>3, <1>4, <1>5 DEF LinkInv
<1>7. OkInv(r)'
  BY <1>1, <1>2, <1>3, <1>5 DEF OkInv
<1>8. OkComing(r)' => OkComing(r) /\ holding[r] = "none"
  BY <1>1, <1>3, <1>5 DEF OkComing, OkInv
<1>9. ASSUME holding[r] = "none", NEW st \in Streams PROVE OnTheLink(r, st)' = OnTheLink(r, st)
  BY <1>1, <1>5, <1>9 DEF OnTheLink, Held
<1>10. LinkLines(r)'
  BY <1>1, <1>2, <1>3, <1>5, <1>8, <1>9 DEF LinkLines
<1> QED BY <1>6, <1>7, <1>10

\* An error behind the done event changes nothing.
LEMMA ReportStream ==
  ASSUME IInv, StreamInv, StreamNext, NEW r \in Runs, Report(r)
  PROVE  LinkInv(r)' /\ OkInv(r)' /\ LinkLines(r)'
<1>1. /\ reader[r] = "fail" /\ reader'[r] = "closed" /\ holding'[r] = "none"
      /\ queue'[r] = queue[r] \/ queue'[r] = Append(queue[r], "error")
      /\ conn'[r] = "open" => conn[r] = "open"
      /\ conn[r] # "none" => conn'[r] # "none"
      /\ UNCHANGED <<vars, wire, received, final>>
  BY DEF Report, Return, Conn, Reader, StreamInv, StreamTypeOK, caller
<1>2. UNCHANGED <<got, seen, consumer>> /\ (Started(r) => Started(r)')
  BY <1>1, StartedStays DEF vars, client
<1>3. queue[r] \in Seq(Frames) /\ LinkInv(r) /\ OkInv(r) /\ LinkLines(r)
  BY LinkRunTypes
<1>4. holding[r] = "none" /\ conn[r] # "none"
  BY <1>1, <1>3 DEF LinkInv
<1>5. /\ Len(queue[r]) \in Nat
      /\ queue'[r] # queue[r] =>
           /\ Len(queue'[r]) = Len(queue[r]) + 1
           /\ \A i \in 1..Len(queue[r]) : queue'[r][i] = queue[r][i]
           /\ queue'[r][Len(queue[r]) + 1] = "error"
  BY <1>1, <1>3, FrameAppend DEF Frames
<1>6. LinkInv(r)'
  BY <1>1, <1>2, <1>3, <1>4 DEF LinkInv
<1>7. OkInv(r)'
  <2>1. CASE queue'[r] = queue[r]
    BY <1>1, <1>2, <1>3, <2>1 DEF OkInv
  <2>2. CASE queue'[r] # queue[r]
    <3>1. \A i \in 1..Len(queue'[r]) : queue'[r][i] = "ok" =>
            i \in 1..Len(queue[r]) /\ queue[r][i] = "ok"
      BY <1>5, <2>2
    <3>2. \A j \in 1..Len(queue'[r]) :
            queue'[r][j] \in Streams => j \in 1..Len(queue[r]) /\ queue[r][j] \in Streams
      BY <1>5, <2>2 DEF Streams
    <3>3. \A i \in 1..Len(queue'[r]) : queue'[r][i] = "ok" =>
            /\ wire[r] = <<>> /\ seen[r] = "ok"
            /\ \A j \in i..Len(queue'[r]) : queue'[r][j] \notin Streams
      <4> SUFFICES ASSUME NEW i \in 1..Len(queue'[r]), queue'[r][i] = "ok"
                   PROVE  /\ wire[r] = <<>> /\ seen[r] = "ok"
                          /\ \A j \in i..Len(queue'[r]) : queue'[r][j] \notin Streams
        OBVIOUS
      <4>1. i \in 1..Len(queue[r]) /\ queue[r][i] = "ok"
        BY <3>1
      <4>2. /\ wire[r] = <<>> /\ seen[r] = "ok"
            /\ \A j \in i..Len(queue[r]) : queue[r][j] \notin Streams
        BY <1>3, <4>1 DEF OkInv
      <4>3. ASSUME NEW j \in i..Len(queue'[r]), queue'[r][j] \in Streams PROVE FALSE
        <5>1. j \in 1..Len(queue'[r])
          BY <1>5, <2>2, <4>1
        <5>2. j \in 1..Len(queue[r]) /\ queue[r][j] \in Streams
          BY <3>2, <4>3, <5>1
        <5>3. j \in i..Len(queue[r])
          BY <1>5, <4>1, <5>2
        <5> QED BY <4>2, <5>2, <5>3
      <4> QED BY <4>2, <4>3
    <3>4. final[r] = "ok" => \A j \in 1..Len(queue'[r]) : queue'[r][j] \notin Streams
      BY <1>3, <3>2 DEF OkInv
    <3> QED BY <1>1, <1>2, <1>3, <3>3, <3>4 DEF OkInv
  <2> QED BY <2>1, <2>2
<1>8. OkComing(r)' => OkComing(r)
  BY <1>1, <1>5 DEF OkComing
<1>9. ASSUME NEW st \in Streams PROVE OnTheLink(r, st)' = OnTheLink(r, st)
  <2>1. Count(queue'[r], st) = Count(queue[r], st)
    <3>1. Count(Append(queue[r], "error"), st) = Count(queue[r], st) + 0
      BY <1>3, FrameAppend DEF Frames, Streams
    <3>2. Count(queue[r], st) \in Nat
      BY LinkRunTypes
    <3>3. CASE queue'[r] = queue[r]
      BY <3>3
    <3>4. CASE queue'[r] = Append(queue[r], "error")
      BY <3>1, <3>2, <3>4
    <3> QED BY <1>1, <3>3, <3>4
  <2> QED BY <1>1, <1>4, <2>1 DEF OnTheLink, Held
<1>10. LinkLines(r)'
  BY <1>1, <1>2, <1>3, <1>8, <1>9 DEF LinkLines
<1> QED BY <1>6, <1>7, <1>10

\* The caller takes an event; behind a done event without error comes no line.
LEMMA TakeStream ==
  ASSUME IInv, StreamInv, StreamNext, NEW r \in Runs, Take(r)
  PROVE  LinkInv(r)' /\ OkInv(r)' /\ LinkLines(r)'
<1>1. /\ queue[r] # <<>> /\ queue'[r] = Tail(queue[r])
      /\ Head(queue[r]) \in Streams =>
           /\ \A st \in Streams :
                received'[r][st] = received[r][st] + (IF Head(queue[r]) = st THEN 1 ELSE 0)
           /\ final'[r] = final[r]
      /\ Head(queue[r]) \notin Streams =>
           received'[r] = received[r] /\ final'[r] = Head(queue[r])
      /\ UNCHANGED <<vars, conn, wire, reader, holding>>
  <2>1. /\ received \in [Runs -> [Streams -> Nat]]
        /\ final \in [Runs -> {"none", "ok", "cancelled", "error"}]
        /\ queue \in [Runs -> Seq(Frames)]
    BY DEF StreamInv, StreamTypeOK
  <2> QED BY <2>1 DEF Take, link
<1>2. UNCHANGED <<got, seen, consumer>> /\ (Started(r) => Started(r)')
  BY <1>1, StartedStays DEF vars, client
<1>3. queue[r] \in Seq(Frames) /\ LinkInv(r) /\ OkInv(r) /\ LinkLines(r)
  BY LinkRunTypes
<1>4. /\ Head(queue[r]) \in Frames /\ Head(queue[r]) = queue[r][1] /\ Len(queue[r]) \in Nat \ {0}
      /\ Len(queue'[r]) = Len(queue[r]) - 1
      /\ \A i \in 1..Len(queue'[r]) : queue'[r][i] = queue[r][i + 1]
  BY <1>1, <1>3, FrameTail
<1>5. LinkInv(r)'
  BY <1>1, <1>2, <1>3 DEF LinkInv
<1>6. OkInv(r)'
  <2>1. \A i \in 1..Len(queue'[r]) : queue'[r][i] = "ok" =>
          /\ wire[r] = <<>> /\ holding[r] = "none" /\ seen[r] = "ok"
          /\ \A j \in i..Len(queue'[r]) : queue'[r][j] \notin Streams
    <3> SUFFICES ASSUME NEW i \in 1..Len(queue'[r]), queue'[r][i] = "ok"
                 PROVE  /\ wire[r] = <<>> /\ holding[r] = "none" /\ seen[r] = "ok"
                        /\ \A j \in i..Len(queue'[r]) : queue'[r][j] \notin Streams
      OBVIOUS
    <3>1. i + 1 \in 1..Len(queue[r]) /\ queue[r][i + 1] = "ok"
      BY <1>4
    <3>2. /\ wire[r] = <<>> /\ holding[r] = "none" /\ seen[r] = "ok"
          /\ \A j \in (i + 1)..Len(queue[r]) : queue[r][j] \notin Streams
      BY <1>3, <3>1 DEF OkInv
    <3>3. \A j \in i..Len(queue'[r]) :
            j + 1 \in (i + 1)..Len(queue[r]) /\ queue'[r][j] = queue[r][j + 1]
      BY <1>4, <3>1
    <3> QED BY <3>2, <3>3
  <2>2. final'[r] = "ok" =>
          /\ wire[r] = <<>> /\ holding[r] = "none" /\ seen[r] = "ok"
          /\ \A j \in 1..Len(queue'[r]) : queue'[r][j] \notin Streams
    <3>1. CASE final[r] = "ok"
      BY <1>3, <1>4, <3>1 DEF OkInv
    <3>2. CASE final[r] # "ok" /\ final'[r] = "ok"
      <4>1. 1 \in 1..Len(queue[r]) /\ queue[r][1] = "ok"
        BY <1>1, <1>4, <3>2
      <4> QED BY <1>3, <1>4, <4>1 DEF OkInv
    <3> QED BY <3>1, <3>2
  <2> QED BY <1>1, <1>2, <1>3, <2>1, <2>2 DEF OkInv
<1>7. OkComing(r)' => OkComing(r)
  BY <1>1, <1>4 DEF OkComing
<1>8. ASSUME NEW st \in Streams
      PROVE  received'[r][st] + OnTheLink(r, st)' = received[r][st] + OnTheLink(r, st)
  <2>1. /\ Count(queue[r], st) = Count(queue'[r], st) + (IF Head(queue[r]) = st THEN 1 ELSE 0)
        /\ Count(queue'[r], st) \in Nat
    BY <1>1, <1>3, FrameTail
  <2>2. /\ received[r][st] \in Nat /\ Held(r, st) \in {0, 1} /\ Count(wire[r], st) \in Nat
        /\ Held(r, st)' = Held(r, st) /\ wire'[r] = wire[r]
    BY <1>1, LinkRunTypes DEF Held
  <2>3. received'[r][st] = received[r][st] + (IF Head(queue[r]) = st THEN 1 ELSE 0)
    BY <1>1, <2>2
  <2>4. /\ OnTheLink(r, st)' = Count(wire[r], st) + Held(r, st) + Count(queue'[r], st)
        /\ OnTheLink(r, st) = Count(wire[r], st) + Held(r, st) + Count(queue[r], st)
    BY <2>2 DEF OnTheLink
  <2> QED BY <2>1, <2>2, <2>3, <2>4
<1>9. LinkLines(r)'
  BY <1>1, <1>2, <1>3, <1>7, <1>8 DEF LinkLines
<1> QED BY <1>5, <1>6, <1>9

\* The connection breaks: the frames that are left on the wire have the done event
\* only if they are all.
LEMMA BreakStream ==
  ASSUME IInv, StreamInv, StreamNext, NEW r \in Runs, Break(r)
  PROVE  LinkInv(r)' /\ OkInv(r)' /\ LinkLines(r)'
<1>1. PICK k \in 0..Len(wire[r]) :
        /\ conn[r] # "none" /\ conn'[r] = "broken" /\ wire'[r] = SubSeq(wire[r], 1, k)
        /\ UNCHANGED <<vars, queue, reader, holding, received, final>>
  BY DEF Break, Conn, StreamInv, StreamTypeOK, sdk, caller
<1>2. UNCHANGED <<got, seen, consumer>> /\ (Started(r) => Started(r)')
  BY <1>1, StartedStays DEF vars, client
<1>3. wire[r] \in Seq(Frames) /\ LinkInv(r) /\ OkInv(r) /\ LinkLines(r)
  BY LinkRunTypes
<1>4. /\ Len(wire[r]) \in Nat /\ Len(wire'[r]) = k
      /\ \A i \in 1..k : wire'[r][i] = wire[r][i]
      /\ k = Len(wire[r]) => wire'[r] = wire[r]
      /\ wire[r] = <<>> => wire'[r] = <<>>
  BY <1>1, <1>3
<1>5. LinkInv(r)'
  BY <1>1, <1>2, <1>3 DEF LinkInv
<1>6. OkInv(r)'
  <2>1. \A i \in 1..Len(wire'[r]) : wire'[r][i] = "ok" => i = Len(wire'[r]) /\ seen[r] = "ok"
    <3> SUFFICES ASSUME NEW i \in 1..k, wire[r][i] = "ok" PROVE i = k /\ seen[r] = "ok"
      BY <1>4
    <3>1. i \in 1..Len(wire[r])
      BY <1>4
    <3>2. i = Len(wire[r]) /\ seen[r] = "ok"
      BY <1>3, <3>1 DEF OkInv
    <3> QED BY <1>4, <3>2
  <2> QED BY <1>1, <1>2, <1>3, <1>4, <2>1 DEF OkInv
<1>7. ASSUME OkComing(r)' PROVE OkComing(r) /\ wire'[r] = wire[r]
  <2>1. CASE \E i \in 1..Len(wire'[r]) : wire'[r][i] = "ok"
    <3>1. PICK i \in 1..k : wire[r][i] = "ok"
      BY <1>4, <2>1
    <3>2. i = Len(wire[r]) /\ i \in 1..Len(wire[r])
      BY <1>3, <1>4, <3>1 DEF OkInv
    <3>3. k = Len(wire[r])
      BY <1>4, <3>2
    <3> QED BY <1>1, <1>4, <1>7, <3>3 DEF OkComing
  <2>2. CASE ~\E i \in 1..Len(wire'[r]) : wire'[r][i] = "ok"
    <3>1. \/ holding[r] = "ok" \/ final[r] = "ok"
          \/ \E i \in 1..Len(queue[r]) : queue[r][i] = "ok"
      BY <1>1, <1>7, <2>2 DEF OkComing
    <3> QED BY <1>3, <1>4, <3>1 DEF OkComing, OkInv
  <2> QED BY <2>1, <2>2
<1>8. LinkLines(r)'
  BY <1>1, <1>2, <1>3, <1>7 DEF LinkLines, OnTheLink, Held
<1> QED BY <1>5, <1>6, <1>8

LEMMA CallerCancelsStream ==
  ASSUME IInv, StreamInv, StreamNext, NEW r \in Runs, CallerCancels(r)
  PROVE  LinkInv(r)' /\ OkInv(r)' /\ LinkLines(r)'
<1>1. /\ conn'[r] = IF conn[r] = "open" THEN "broken" ELSE conn[r]
      /\ UNCHANGED <<vars, wire, queue, reader, holding, received, final>>
  BY DEF CallerCancels, Conn, StreamInv, StreamTypeOK, sdk, caller
<1>2. UNCHANGED <<got, seen, consumer>> /\ (Started(r) => Started(r)')
  BY <1>1, StartedStays DEF vars, client
<1>3. LinkInv(r) /\ OkInv(r) /\ LinkLines(r)
  BY LinkRunTypes
<1> QED BY <1>1, <1>2, <1>3 DEF LinkInv, OkInv, LinkLines, OkComing, OnTheLink, Held

-----------------------------------------------------------------------------
(***************************************************************************)
(* The steps of the handler                                                *)
(***************************************************************************)

\* Until the done event was taken by the handler it is not on the link.
LEMMA NotYetOk ==
  ASSUME NEW r \in Runs, OkInv(r), seen[r] # "ok"
  PROVE  /\ \A i \in 1..Len(wire[r]) : wire[r][i] # "ok"
         /\ \A i \in 1..Len(queue[r]) : queue[r][i] # "ok"
         /\ holding[r] # "ok" /\ final[r] # "ok" /\ ~OkComing(r)
  BY DEF OkInv, OkComing

LEMMA OpenStream ==
  ASSUME IInv, StreamInv, StreamNext, NEW r \in Runs, Open(r)
  PROVE  LinkInv(r)' /\ OkInv(r)' /\ LinkLines(r)'
<1>1. LinkInv(r) /\ OkInv(r) /\ CourseInv(r)
  BY LinkRunTypes
<1>2. /\ ~Started(r) /\ conn'[r] = "open" /\ reader'[r] = "read" /\ consumer'[r] = "sse"
      /\ Started(r)'
      /\ UNCHANGED <<wire, holding, queue, received, final, got>>
  BY DEF Open, Start, Started, Conn, StreamInv, StreamTypeOK, IInv, TypeOK, caller
<1>3. /\ wire[r] = <<>> /\ queue[r] = <<>> /\ holding[r] = "none" /\ final[r] = "none"
      /\ \A st \in Streams : received[r][st] = 0 /\ got[r][st] = 0
  BY <1>1, <1>2 DEF LinkInv, CourseInv, NotStarted, Started
<1>4. \A st \in Streams : OnTheLink(r, st)' = 0
  BY <1>2, <1>3, CountEmpty DEF OnTheLink, Held, Streams
<1> QED BY <1>2, <1>3, <1>4 DEF LinkInv, OkInv, LinkLines

LEMMA RelayStream ==
  ASSUME IInv, StreamInv, StreamNext, NEW r \in Runs, Relay(r)
  PROVE  LinkInv(r)' /\ OkInv(r)' /\ LinkLines(r)'
<1> DEFINE frame == FrameOf(r)
           head == Head(chan[r])
<1>1. /\ consumer[r] = "sse" /\ conn[r] = "open" /\ chan[r] # <<>>
      /\ wire'[r] = Append(wire[r], frame)
      /\ conn'[r] = IF head = "done" THEN "ended" ELSE "open"
      /\ UNCHANGED <<reader, holding, queue, received, final, pump, verdict>>
  BY DEF Relay, Receive, Conn, StreamInv, StreamTypeOK, sdk, caller, result
<1>2. /\ wire[r] \in Seq(Frames) /\ LinkInv(r) /\ OkInv(r) /\ LinkLines(r) /\ CourseInv(r)
  BY LinkRunTypes
<1>3. seen[r] = "none" /\ Started(r) /\ Started(r)'
  <2>1. seen[r] = "none"
    BY <1>1, <1>2 DEF CourseInv, DoneInv
  <2>2. Started(r)
    BY <1>1, <1>2 DEF LinkInv
  <2> QED BY <1>1, <2>1, <2>2 DEF Started
<1>4. chan[r] \in Seq(Streams \cup {"done"})
  BY DEF IInv, TypeOK
<1>5. head \in Streams \cup {"done"} /\ head = chan[r][1] /\ 1 \in 1..Len(chan[r])
  BY <1>1, <1>4, TailFacts
<1>6. /\ head = "done" => seen'[r] = verdict[r] /\ consumer'[r] = "finished"
      /\ head # "done" => seen'[r] = "none" /\ consumer'[r] = "sse"
      /\ \A st \in Streams : got'[r][st] = got[r][st] + (IF head = st THEN 1 ELSE 0)
  <2>1. /\ seen \in [Runs -> Verdicts] /\ got \in [Runs -> [Streams -> Nat]]
        /\ consumer \in [Runs -> {"none", "collect", "sse", "finished", "left"}]
    BY DEF IInv, TypeOK
  <2>2. IF head = "done"
        THEN /\ seen' = [seen EXCEPT ![r] = verdict[r]]
             /\ consumer' = [consumer EXCEPT ![r] = "finished"] /\ UNCHANGED got
        ELSE /\ got' = [got EXCEPT ![r][head] = got[r][head] + 1]
             /\ UNCHANGED <<consumer, seen>>
    BY DEF Relay, Receive
  <2>3. "done" \notin Streams
    BY DEF Streams
  <2> HIDE DEF head
  <2> QED BY <1>1, <1>3, <1>5, <2>1, <2>2, <2>3
<1>7. frame \in Frames /\ (frame = "ok" => head = "done" /\ verdict[r] = "ok")
      /\ \A st \in Streams : frame = st <=> head = st
  <2>1. CASE head = "done"
    <3>1. verdict[r] \in {"ok", "cancelled"}
      <4>1. pump[r] = "closed"
        BY <1>2, <1>5, <2>1 DEF CourseInv, DoneInv
      <4> QED BY <1>2, <4>1 DEF CourseInv, PumpInv, IInv, TypeOK, Verdicts
    <3> QED BY <2>1, <3>1 DEF FrameOf, Frames, Streams
  <2>2. CASE head # "done"
    BY <1>5, <2>2 DEF FrameOf, Frames, Streams
  <2> QED BY <2>1, <2>2
<1> HIDE DEF frame, head
<1>8. /\ Len(wire[r]) \in Nat /\ Len(wire'[r]) = Len(wire[r]) + 1
      /\ \A i \in 1..Len(wire[r]) : wire'[r][i] = wire[r][i]
      /\ wire'[r][Len(wire[r]) + 1] = frame
  BY <1>1, <1>2, <1>7, FrameAppend
<1>9. /\ \A i \in 1..Len(wire[r]) : wire[r][i] # "ok"
      /\ \A i \in 1..Len(queue[r]) : queue[r][i] # "ok"
      /\ holding[r] # "ok" /\ final[r] # "ok"
  BY <1>2, <1>3, NotYetOk
<1>10. LinkInv(r)'
  BY <1>1, <1>2, <1>3, <1>6 DEF LinkInv
<1>11. OkInv(r)'
  BY <1>1, <1>6, <1>7, <1>8, <1>9 DEF OkInv
<1>12. ASSUME NEW st \in Streams
       PROVE  got'[r][st] = received'[r][st] + OnTheLink(r, st)'
  <2> DEFINE one == IF head = st THEN 1 ELSE 0
  <2>1. Count(wire'[r], st) = Count(wire[r], st) + one
    BY <1>1, <1>2, <1>7, FrameAppend
  <2>2. got'[r][st] = got[r][st] + one
    BY <1>6
  <2>3. /\ got[r][st] \in Nat /\ received[r][st] \in Nat /\ Held(r, st) \in {0, 1}
        /\ Count(wire[r], st) \in Nat /\ Count(queue[r], st) \in Nat /\ one \in {0, 1}
    BY LinkRunTypes
  <2>4. got[r][st] = received[r][st] + (Count(wire[r], st) + Held(r, st) + Count(queue[r], st))
    BY <1>1, <1>2 DEF LinkLines, OnTheLink
  <2>5. OnTheLink(r, st)' = Count(wire'[r], st) + Held(r, st) + Count(queue[r], st)
    BY <1>1 DEF OnTheLink, Held
  <2>6. received'[r][st] = received[r][st]
    BY <1>1
  <2> HIDE DEF one
  <2> QED BY <2>1, <2>2, <2>3, <2>4, <2>5, <2>6
<1> QED BY <1>10, <1>11, <1>12 DEF LinkLines

\* What the handler takes for a client that is gone, or cannot encode, is lost; the
\* done event without error is not on its way then.
LEMMA RelayEndsStream ==
  ASSUME IInv, StreamInv, StreamNext, NEW r \in Runs, RelayLost(r) \/ RelayUnfit(r)
  PROVE  LinkInv(r)' /\ OkInv(r)' /\ LinkLines(r)'
<1>1. /\ consumer[r] = "sse" /\ consumer'[r] \in {"sse", "finished", "left"}
      /\ conn[r] # "none" /\ conn'[r] \in {"ended", "broken"}
      /\ UNCHANGED <<wire, reader, holding, queue, received, final>>
  BY DEF RelayLost, RelayUnfit, Receive, GiveUp, Conn, link, StreamInv, StreamTypeOK, sdk, caller,
         IInv, TypeOK
<1>2. /\ LinkInv(r) /\ OkInv(r) /\ CourseInv(r)
  BY LinkRunTypes
<1>3. seen[r] # "ok"
  BY <1>1, <1>2 DEF CourseInv, DoneInv
<1>4. /\ \A i \in 1..Len(wire[r]) : wire[r][i] # "ok"
      /\ \A i \in 1..Len(queue[r]) : queue[r][i] # "ok"
      /\ holding[r] # "ok" /\ final[r] # "ok"
  BY <1>2, <1>3, NotYetOk
<1>5. Started(r)'
  BY <1>1, <1>2, StartedStays DEF LinkInv
<1> QED BY <1>1, <1>2, <1>4, <1>5 DEF LinkInv, OkInv, LinkLines, OkComing

-----------------------------------------------------------------------------
(***************************************************************************)
(* Types, and the other runs                                               *)
(***************************************************************************)

LEMMA SetSequence ==
  ASSUME NEW f \in [Runs -> Seq(Frames)], NEW cap, \A q \in Runs : Len(f[q]) <= cap,
         NEW r \in Runs, NEW s \in Seq(Frames), Len(s) <= cap
  PROVE  /\ [f EXCEPT ![r] = s] \in [Runs -> Seq(Frames)]
         /\ \A q \in Runs : Len([f EXCEPT ![r] = s][q]) <= cap
  OBVIOUS

\* A queue with room takes a frame; one that is not empty gives its first.
LEMMA RoomForOne ==
  ASSUME NEW s \in Seq(Frames), NEW x \in Frames, NEW cap \in Nat, Len(s) < cap
  PROVE  Append(s, x) \in Seq(Frames) /\ Len(Append(s, x)) <= cap
  BY FrameAppend

LEMMA OneLess ==
  ASSUME NEW s \in Seq(Frames), s # <<>>, NEW cap \in Nat, Len(s) <= cap
  PROVE  Head(s) \in Frames /\ Tail(s) \in Seq(Frames) /\ Len(Tail(s)) <= cap
  BY FrameTail

LEMMA HandlerTypes ==
  ASSUME IInv, StreamInv, StreamNext, NEW r \in Runs,
         Open(r) \/ Relay(r) \/ RelayLost(r) \/ RelayUnfit(r) \/ Break(r)
  PROVE  StreamTypeOK'
<1> USE WireAssumption, BoundsAssumption
<1>1. StreamTypeOK
  BY DEF StreamInv
<1>2. CASE Open(r)
  BY <1>1, <1>2 DEF Open, Conn, StreamTypeOK, caller
<1>3. CASE Relay(r)
  <2> DEFINE new == Append(wire[r], FrameOf(r))
  <2>1. FrameOf(r) \in Frames
    <3>1. CourseInv(r) /\ chan[r] \in Seq(Streams \cup {"done"}) /\ chan[r] # <<>>
      BY <1>3, LinkRunTypes DEF Relay, Receive, IInv, TypeOK
    <3>2. Head(chan[r]) \in Streams \cup {"done"} /\ Head(chan[r]) = chan[r][1]
          /\ 1 \in 1..Len(chan[r])
      BY <3>1, TailFacts
    <3>3. Head(chan[r]) = "done" => verdict[r] # "none" /\ verdict[r] \in Verdicts
      BY <3>1, <3>2 DEF CourseInv, DoneInv, PumpInv, IInv, TypeOK
    <3> QED BY <3>2, <3>3 DEF FrameOf, Frames, Verdicts
  <2>2. wire[r] \in Seq(Frames) /\ Len(wire[r]) < WireCap /\ wire' = [wire EXCEPT ![r] = new]
    BY <1>1, <1>3 DEF Relay, StreamTypeOK
  <2>3. new \in Seq(Frames) /\ Len(new) <= WireCap
    BY <2>1, <2>2, RoomForOne
  <2> HIDE DEF new
  <2>4. wire' \in [Runs -> Seq(Frames)] /\ \A q \in Runs : Len(wire'[q]) <= WireCap
    BY <1>1, <2>2, <2>3, SetSequence DEF StreamTypeOK
  <2>5. conn' \in [Runs -> {"none", "open", "ended", "broken"}] /\ UNCHANGED <<sdk, caller, unfit>>
    BY <1>1, <1>3 DEF Relay, Conn, StreamTypeOK
  <2> QED BY <1>1, <2>4, <2>5 DEF StreamTypeOK, sdk, caller
<1>4. CASE RelayLost(r) \/ RelayUnfit(r)
  BY <1>1, <1>4 DEF RelayLost, RelayUnfit, Conn, StreamTypeOK, link, sdk, caller
<1>5. CASE Break(r)
  <2>1. PICK k \in 0..Len(wire[r]) : wire' = [wire EXCEPT ![r] = SubSeq(wire[r], 1, k)]
    BY <1>5 DEF Break
  <2>2. SubSeq(wire[r], 1, k) \in Seq(Frames) /\ Len(SubSeq(wire[r], 1, k)) <= WireCap
    <3>1. wire[r] \in Seq(Frames) /\ Len(wire[r]) <= WireCap /\ Len(wire[r]) \in Nat
      BY <1>1 DEF StreamTypeOK
    <3> QED BY <3>1
  <2>3. wire' \in [Runs -> Seq(Frames)] /\ \A q \in Runs : Len(wire'[q]) <= WireCap
    BY <1>1, <2>1, <2>2, SetSequence DEF StreamTypeOK
  <2>4. conn' \in [Runs -> {"none", "open", "ended", "broken"}] /\ UNCHANGED <<sdk, caller, unfit>>
    BY <1>1, <1>5 DEF Break, Conn, StreamTypeOK
  <2> QED BY <1>1, <2>3, <2>4 DEF StreamTypeOK, sdk, caller
<1> QED BY <1>2, <1>3, <1>4, <1>5

LEMMA ReaderTypes ==
  ASSUME IInv, StreamInv, StreamNext, NEW r \in Runs,
         ReaderStep(r) \/ Take(r) \/ CallerCancels(r)
  PROVE  StreamTypeOK'
<1> USE WireAssumption, BoundsAssumption
<1>1. StreamTypeOK
  BY DEF StreamInv
<1>2. wire[r] \in Seq(Frames) /\ Len(wire[r]) <= WireCap /\ queue[r] \in Seq(Frames)
      /\ Len(queue[r]) <= ChanCap
  BY <1>1 DEF StreamTypeOK
<1>3. CASE ReadFrame(r)
  <2>1. Head(wire[r]) \in Frames /\ Tail(wire[r]) \in Seq(Frames) /\ Len(Tail(wire[r])) <= WireCap
    BY <1>2, <1>3, OneLess DEF ReadFrame
  <2>2. wire' \in [Runs -> Seq(Frames)] /\ \A q \in Runs : Len(wire'[q]) <= WireCap
    BY <1>1, <1>3, <2>1, SetSequence DEF ReadFrame, StreamTypeOK
  <2>3. /\ holding' \in [Runs -> Frames \cup {"none"}]
        /\ reader' \in [Runs -> {"none", "read", "send", "fail", "closed"}]
    BY <1>1, <1>3, <2>1 DEF ReadFrame, Reader, StreamTypeOK
  <2> QED BY <1>1, <1>3, <2>2, <2>3 DEF ReadFrame, StreamTypeOK, caller
<1>4. CASE Forward(r)
  <2>1. holding[r] \in Frames
    BY <1>4, LinkRunTypes DEF Forward, LinkInv
  <2>2. Append(queue[r], holding[r]) \in Seq(Frames) /\ Len(Append(queue[r], holding[r])) <= ChanCap
    BY <1>2, <1>4, <2>1, RoomForOne DEF Forward, Room
  <2>3. queue' \in [Runs -> Seq(Frames)] /\ \A q \in Runs : Len(queue'[q]) <= ChanCap
    BY <1>1, <1>4, <2>2, SetSequence DEF Forward, StreamTypeOK
  <2>4. /\ holding' \in [Runs -> Frames \cup {"none"}]
        /\ reader' \in [Runs -> {"none", "read", "send", "fail", "closed"}]
    BY <1>1, <1>4 DEF Forward, Reader, StreamTypeOK
  <2> QED BY <1>1, <1>4, <2>3, <2>4 DEF Forward, StreamTypeOK, link, caller
<1>5. CASE ForwardCancelled(r) \/ ReadEnds(r)
  BY <1>1, <1>5 DEF ForwardCancelled, ReadEnds, Return, Conn, Reader, StreamTypeOK, caller
<1>6. CASE ReadFails(r)
  BY <1>1, <1>6 DEF ReadFails, Reader, StreamTypeOK, link, caller
<1>7. CASE Report(r)
  <2>1. queue' \in [Runs -> Seq(Frames)] /\ \A q \in Runs : Len(queue'[q]) <= ChanCap
    <3>1. CASE UNCHANGED queue
      BY <1>1, <3>1 DEF StreamTypeOK
    <3>2. CASE Room(r) /\ queue' = [queue EXCEPT ![r] = Append(queue[r], "error")]
      <4>1. /\ Append(queue[r], "error") \in Seq(Frames)
            /\ Len(Append(queue[r], "error")) <= ChanCap
        BY <1>2, <3>2, RoomForOne DEF Room, Frames
      <4> QED BY <1>1, <3>2, <4>1, SetSequence DEF StreamTypeOK
    <3> QED BY <1>7, <3>1, <3>2 DEF Report
  <2> QED BY <1>1, <1>7, <2>1 DEF Report, Return, Conn, Reader, StreamTypeOK, caller
<1>8. CASE Take(r)
  <2>1. Head(queue[r]) \in Frames /\ Tail(queue[r]) \in Seq(Frames) /\ Len(Tail(queue[r])) <= ChanCap
    BY <1>2, <1>8, OneLess DEF Take
  <2>2. queue' \in [Runs -> Seq(Frames)] /\ \A q \in Runs : Len(queue'[q]) <= ChanCap
    BY <1>1, <1>8, <2>1, SetSequence DEF Take, StreamTypeOK
  <2>3. /\ received' \in [Runs -> [Streams -> Nat]]
        /\ final' \in [Runs -> {"none", "ok", "cancelled", "error"}]
    <3> DEFINE head == Head(queue[r])
               more == received[r][head] + 1
    <3>1. CASE head \in Streams
      <4>1. received' = [received EXCEPT ![r][head] = more] /\ final' = final
        BY <1>8, <3>1 DEF Take
      <4>2. more \in Nat
        BY <1>1, <3>1 DEF StreamTypeOK
      <4> HIDE DEF more, head
      <4> QED BY <1>1, <3>1, <4>1, <4>2, SetStream DEF StreamTypeOK
    <3>2. CASE head \notin Streams
      BY <1>1, <1>8, <2>1, <3>2 DEF Take, StreamTypeOK, Frames
    <3> QED BY <3>1, <3>2
  <2> QED BY <1>1, <1>8, <2>2, <2>3 DEF Take, StreamTypeOK, link
<1>9. CASE CallerCancels(r)
  BY <1>1, <1>9 DEF CallerCancels, Conn, StreamTypeOK, sdk
<1> QED BY <1>3, <1>4, <1>5, <1>6, <1>7, <1>8, <1>9 DEF ReaderStep

\* A step of one run's link leaves the other runs alone.
LEMMA OtherStreams ==
  ASSUME IInv, StreamInv, StreamNext, NEW r \in Runs, NEW q \in Runs, q # r,
         \/ Open(r) \/ Relay(r) \/ RelayLost(r) \/ RelayUnfit(r) \/ Break(r)
         \/ ReaderStep(r) \/ Take(r) \/ CallerCancels(r)
  PROVE  LinkInv(q)' /\ OkInv(q)' /\ LinkLines(q)'
<1>1. StreamTypeOK /\ TypeOK
  BY DEF StreamInv, IInv
<1>2. SameStream(q) /\ got'[q] = got[q] /\ seen'[q] = seen[q] /\ consumer'[q] = consumer[q]
  <2>1. CASE Open(r)
    BY <1>1, <2>1 DEF Open, Start, Conn, caller, SameStream, StreamTypeOK, TypeOK
  <2>2. CASE Relay(r)
    BY <1>1, <2>2 DEF Relay, Receive, Conn, sdk, caller, SameStream, StreamTypeOK, TypeOK
  <2>3. CASE RelayLost(r) \/ RelayUnfit(r)
    BY <1>1, <2>3 DEF RelayLost, RelayUnfit, Receive, GiveUp, Conn, link, sdk, caller, SameStream,
                      StreamTypeOK, TypeOK
  <2>4. CASE Break(r) \/ CallerCancels(r)
    BY <1>1, <2>4 DEF Break, CallerCancels, Conn, sdk, caller, SameStream, StreamTypeOK, vars, client
  <2>5. CASE ReaderStep(r)
    BY <1>1, <2>5 DEF ReaderStep, ReadFrame, Forward, ForwardCancelled, ReadEnds, ReadFails, Report,
                      Return, Reader, Conn, link, caller, SameStream, StreamTypeOK, vars, client
  <2>6. CASE Take(r)
    BY <1>1, <2>6 DEF Take, link, SameStream, StreamTypeOK, vars, client
  <2> QED BY <2>1, <2>2, <2>3, <2>4, <2>5, <2>6
<1>3. Started(q) => Started(q)'
  BY StartedStays
<1>4. LinkInv(q) /\ OkInv(q) /\ LinkLines(q)
  BY DEF StreamInv
<1> QED BY <1>2, <1>3, <1>4, StreamUntouched

-----------------------------------------------------------------------------
(***************************************************************************)
(* No silent end                                                           *)
(***************************************************************************)

EndsIt(f) == f \notin Streams \cup {"none"}

\* The caller has its last event, or finds it in its channel.
HasFinal(r) ==
  final[r] # "none" \/ \E i \in 1..Len(queue[r]) : EndsIt(queue[r][i])

\* A closed channel ends with it, and what is left of a complete response still holds
\* it.
EndInv(r) ==
  ~callerCtx[r] /\ ~unfit[r] =>
    /\ reader[r] = "closed" => HasFinal(r)
    /\ conn[r] = "ended" /\ reader[r] \in {"read", "send"} =>
         HasFinal(r) \/ EndsIt(holding[r]) \/ \E i \in 1..Len(wire[r]) : EndsIt(wire[r][i])

Endings == \A r \in Runs : EndInv(r)

LEMMA EndUntouched ==
  ASSUME NEW r \in Runs, EndInv(r),
         wire'[r] = wire[r], queue'[r] = queue[r], conn'[r] \in {conn[r], "broken"},
         reader'[r] = reader[r], holding'[r] = holding[r], final'[r] = final[r],
         callerCtx'[r] \/ callerCtx'[r] = callerCtx[r], unfit'[r] \/ unfit'[r] = unfit[r]
  PROVE  EndInv(r)'
BY DEF EndInv, HasFinal, EndsIt

\* What the handler does.
LEMMA HandlerEnd ==
  ASSUME IInv, StreamInv, NEW r \in Runs, EndInv(r),
         Open(r) \/ Relay(r) \/ RelayLost(r) \/ RelayUnfit(r) \/ Break(r)
  PROVE  EndInv(r)'
<1>1. /\ wire[r] \in Seq(Frames) /\ CourseInv(r) /\ StreamTypeOK /\ TypeOK
  BY LinkRunTypes DEF StreamInv, IInv
<1>2. CASE Open(r) \/ RelayUnfit(r) \/ RelayLost(r)
  BY <1>1, <1>2 DEF Open, RelayUnfit, RelayLost, Conn, EndInv, HasFinal, EndsIt, StreamTypeOK, link,
                    sdk, caller
<1>3. CASE Break(r)
  BY <1>1, <1>3 DEF Break, Conn, EndInv, HasFinal, EndsIt, StreamTypeOK, sdk, caller
<1>4. CASE Relay(r)
  <2>1. /\ wire'[r] = Append(wire[r], FrameOf(r))
        /\ conn'[r] = IF Head(chan[r]) = "done" THEN "ended" ELSE "open"
        /\ UNCHANGED <<reader, holding, queue, callerCtx, final, unfit>>
    BY <1>1, <1>4 DEF Relay, Conn, StreamTypeOK, sdk, caller
  <2>2. CASE Head(chan[r]) # "done"
    BY <2>1, <2>2 DEF EndInv, HasFinal
  <2>3. CASE Head(chan[r]) = "done"
    <3>1. chan[r] \in Seq(Streams \cup {"done"}) /\ chan[r] # <<>>
      BY <1>1, <1>4 DEF Relay, Receive, TypeOK
    <3>2. Head(chan[r]) = chan[r][1] /\ 1 \in 1..Len(chan[r])
      BY <3>1, TailFacts
    <3>3. FrameOf(r) \in {"ok", "cancelled"}
      BY <1>1, <2>3, <3>2 DEF CourseInv, DoneInv, PumpInv, TypeOK, Verdicts, FrameOf
    <3>4. /\ Len(wire'[r]) = Len(wire[r]) + 1 /\ Len(wire[r]) \in Nat
          /\ wire'[r][Len(wire[r]) + 1] = FrameOf(r)
      BY <1>1, <2>1, <3>3, FrameAppend DEF Frames
    <3> QED BY <2>1, <3>3, <3>4 DEF EndInv, HasFinal, EndsIt, Streams
  <2> QED BY <2>2, <2>3
<1> QED BY <1>2, <1>3, <1>4

\* What the reader and the caller do.
LEMMA ReaderEnd ==
  ASSUME IInv, StreamInv, NEW r \in Runs, EndInv(r),
         ReaderStep(r) \/ Take(r) \/ CallerCancels(r)
  PROVE  EndInv(r)'
<1>1. /\ wire[r] \in Seq(Frames) /\ queue[r] \in Seq(Frames) /\ LinkInv(r) /\ StreamTypeOK
  BY LinkRunTypes DEF StreamInv
<1>2. CASE ReadFrame(r)
  <2>1. /\ wire[r] # <<>> /\ wire'[r] = Tail(wire[r]) /\ holding'[r] = Head(wire[r])
        /\ UNCHANGED <<conn, queue, callerCtx, final, unfit>>
        /\ reader[r] = "read" /\ reader'[r] = "send"
    BY <1>1, <1>2 DEF ReadFrame, Reader, StreamTypeOK, caller
  <2>2. /\ Head(wire[r]) = wire[r][1] /\ Len(wire[r]) \in Nat \ {0}
        /\ Len(wire'[r]) = Len(wire[r]) - 1
        /\ \A i \in 1..Len(wire'[r]) : wire'[r][i] = wire[r][i + 1]
    BY <1>1, <2>1, FrameTail
  <2>3. ~EndsIt(holding[r])
    BY <1>1, <2>1 DEF LinkInv, EndsIt
  <2>4. ASSUME NEW i \in 1..Len(wire[r]), EndsIt(wire[r][i])
        PROVE  EndsIt(holding'[r]) \/ \E j \in 1..Len(wire'[r]) : EndsIt(wire'[r][j])
    <3>1. CASE i = 1
      BY <2>1, <2>2, <2>4, <3>1
    <3>2. CASE i # 1
      <4>1. i - 1 \in 1..Len(wire'[r]) /\ wire'[r][i - 1] = wire[r][i]
        BY <2>2, <3>2
      <4> QED BY <2>4, <4>1
    <3> QED BY <3>1, <3>2
  <2> QED BY <2>1, <2>3, <2>4 DEF EndInv, HasFinal, EndsIt
<1>3. CASE Forward(r)
  <2>1. /\ queue'[r] = Append(queue[r], holding[r]) /\ holding[r] \in Frames
        /\ UNCHANGED <<conn, wire, callerCtx, final, unfit>>
        /\ reader[r] = "send" /\ reader'[r] = "read"
    BY <1>1, <1>3, LinkRunTypes DEF Forward, Reader, StreamTypeOK, caller, link, LinkInv
  <2>2. /\ Len(queue[r]) \in Nat /\ Len(queue'[r]) = Len(queue[r]) + 1
        /\ \A i \in 1..Len(queue[r]) : queue'[r][i] = queue[r][i]
        /\ queue'[r][Len(queue[r]) + 1] = holding[r]
    BY <1>1, <2>1, FrameAppend
  <2>3. HasFinal(r) \/ EndsIt(holding[r]) => HasFinal(r)'
    BY <2>1, <2>2 DEF HasFinal, EndsIt
  <2> QED BY <2>1, <2>3 DEF EndInv
<1>4. CASE ForwardCancelled(r)
  BY <1>1, <1>4 DEF ForwardCancelled, GivesUp, Return, caller, EndInv
<1>5. CASE ReadEnds(r)
  <2>1. /\ wire[r] = <<>> /\ ~EndsIt(holding[r]) /\ conn[r] = "ended" /\ reader[r] = "read"
    BY <1>1, <1>5 DEF ReadEnds, LinkInv, EndsIt
  <2>2. reader'[r] = "closed" /\ UNCHANGED <<queue, callerCtx, final, unfit>>
    BY <1>1, <1>5 DEF ReadEnds, Return, Reader, StreamTypeOK, caller
  <2> QED BY <2>1, <2>2 DEF EndInv, HasFinal
<1>6. CASE ReadFails(r)
  BY <1>1, <1>6 DEF ReadFails, Reader, StreamTypeOK, EndInv
<1>7. CASE Report(r)
  <2>1. reader'[r] = "closed" /\ UNCHANGED <<callerCtx, final, unfit>>
    BY <1>1, <1>7 DEF Report, Return, Reader, StreamTypeOK, caller
  <2>2. CASE callerCtx[r]
    BY <2>1, <2>2 DEF EndInv
  <2>3. CASE queue' = [queue EXCEPT ![r] = Append(queue[r], "error")]
    <3>1. queue'[r] = Append(queue[r], "error") /\ "error" \in Frames
      BY <1>1, <2>3 DEF StreamTypeOK, Frames
    <3>2. Len(queue[r]) + 1 \in 1..Len(queue'[r]) /\ queue'[r][Len(queue[r]) + 1] = "error"
      BY <1>1, <3>1, FrameAppend
    <3>3. HasFinal(r)'
      BY <3>2 DEF HasFinal, EndsIt, Streams
    <3> QED BY <2>1, <3>3 DEF EndInv
  <2> QED BY <1>7, <2>2, <2>3 DEF Report, GivesUp
<1>8. CASE Take(r)
  <2>1. /\ queue[r] # <<>> /\ queue'[r] = Tail(queue[r])
        /\ UNCHANGED <<conn, wire, reader, holding, callerCtx, unfit>>
    BY <1>1, <1>8 DEF Take, StreamTypeOK, link
  <2>2. /\ Head(queue[r]) = queue[r][1] /\ Head(queue[r]) \in Frames /\ Len(queue[r]) \in Nat \ {0}
        /\ Len(queue'[r]) = Len(queue[r]) - 1
        /\ \A i \in 1..Len(queue'[r]) : queue'[r][i] = queue[r][i + 1]
    BY <1>1, <2>1, FrameTail
  <2>3. IF Head(queue[r]) \in Streams THEN final'[r] = final[r] ELSE final'[r] = Head(queue[r])
    BY <1>1, <1>8 DEF Take, StreamTypeOK
  <2>4. final[r] # "none" => final'[r] # "none"
    BY <2>2, <2>3 DEF Frames, Streams
  <2>5. ASSUME NEW i \in 1..Len(queue[r]), EndsIt(queue[r][i]) PROVE HasFinal(r)'
    <3>1. CASE i = 1
      BY <2>2, <2>3, <2>5, <3>1 DEF HasFinal, EndsIt
    <3>2. CASE i # 1
      <4>1. i - 1 \in 1..Len(queue'[r]) /\ queue'[r][i - 1] = queue[r][i]
        BY <2>2, <3>2
      <4> QED BY <2>5, <4>1 DEF HasFinal, EndsIt
    <3> QED BY <3>1, <3>2
  <2>6. HasFinal(r) => HasFinal(r)'
    BY <2>4, <2>5 DEF HasFinal
  <2> QED BY <2>1, <2>6 DEF EndInv
<1>9. CASE CallerCancels(r)
  BY <1>1, <1>9 DEF CallerCancels, StreamTypeOK, EndInv
<1> QED BY <1>2, <1>3, <1>4, <1>5, <1>6, <1>7, <1>8, <1>9 DEF ReaderStep

LEMMA NextEnd == IInv /\ StreamInv /\ Endings /\ [StreamNext]_streamVars => Endings'
<1> SUFFICES ASSUME IInv, StreamInv, \A r \in Runs : EndInv(r), [StreamNext]_streamVars,
                    NEW q \in Runs
             PROVE  EndInv(q)'
  BY DEF Endings
<1>1. CASE UNCHANGED <<link, sdk, caller, unfit>>
  BY <1>1, EndUntouched DEF link, sdk, caller
<1>2. ASSUME NEW r \in Runs,
             \/ Open(r) \/ Relay(r) \/ RelayLost(r) \/ RelayUnfit(r) \/ Break(r)
             \/ ReaderStep(r) \/ Take(r) \/ CallerCancels(r)
      PROVE  EndInv(q)'
  <2>1. CASE q = r
    BY <1>2, <2>1, HandlerEnd, ReaderEnd
  <2>2. CASE q # r
    <3>1. StreamTypeOK
      BY DEF StreamInv
    <3>2. /\ wire'[q] = wire[q] /\ queue'[q] = queue[q] /\ conn'[q] = conn[q]
          /\ reader'[q] = reader[q] /\ holding'[q] = holding[q] /\ final'[q] = final[q]
          /\ callerCtx'[q] = callerCtx[q] /\ unfit'[q] = unfit[q]
      <4>1. CASE Open(r) \/ Relay(r) \/ RelayLost(r) \/ RelayUnfit(r)
        BY <2>2, <3>1, <4>1 DEF Open, Relay, RelayLost, RelayUnfit, Conn, link, sdk, caller,
                                StreamTypeOK
      <4>2. CASE Break(r) \/ CallerCancels(r) \/ Take(r)
        BY <2>2, <3>1, <4>2 DEF Break, CallerCancels, Take, Conn, link, sdk, caller, StreamTypeOK
      <4>3. CASE ReaderStep(r)
        BY <2>2, <3>1, <4>3 DEF ReaderStep, ReadFrame, Forward, ForwardCancelled, ReadEnds,
             ReadFails, Report, Return, Reader, Conn, link, caller, StreamTypeOK
      <4> QED BY <1>2, <4>1, <4>2, <4>3
    <3> QED BY <3>2, EndUntouched
  <2> QED BY <2>1, <2>2
<1>3. ASSUME NEW r \in Runs,
             AgentStep(r) \/ ServerCancels(r) \/ HandlerLeaves(r) \/ RelayFails(r)
      PROVE  EndInv(q)'
  BY <1>1, <1>3 DEF AgentStep, ServerCancels, HandlerLeaves, RelayFails, Alone
<1> QED BY <1>1, <1>2, <1>3 DEF StreamNext, HandlerStep, Alone, streamVars

-----------------------------------------------------------------------------
(***************************************************************************)
(* The theorems                                                            *)
(***************************************************************************)

LEMMA NextStream == IInv /\ StreamInv /\ [StreamNext]_streamVars => StreamInv'
<1> SUFFICES ASSUME IInv, StreamInv, [StreamNext]_streamVars PROVE StreamInv'
  OBVIOUS
<1>1. CASE UNCHANGED streamVars
  BY <1>1 DEF streamVars, vars, link, sdk, caller, StreamInv, StreamTypeOK, LinkInv, OkInv, LinkLines,
              OkComing, OnTheLink, Held, Started, client, result
<1>2. ASSUME StreamNext, NEW r \in Runs,
             \/ AgentStep(r) \/ ServerCancels(r) \/ HandlerLeaves(r) \/ RelayFails(r)
             \/ DeleteSession /\ Alone
      PROVE  StreamInv'
  BY <1>2, AgentStream
<1>3. ASSUME StreamNext, NEW r \in Runs,
             \/ Open(r) \/ Relay(r) \/ RelayLost(r) \/ RelayUnfit(r) \/ Break(r)
             \/ ReaderStep(r) \/ Take(r) \/ CallerCancels(r)
      PROVE  StreamInv'
  <2>1. StreamTypeOK'
    BY <1>3, HandlerTypes, ReaderTypes
  <2>2. LinkInv(r)' /\ OkInv(r)' /\ LinkLines(r)'
    BY <1>3, OpenStream, RelayStream, RelayEndsStream, BreakStream, ReadFrameStream, ForwardStream,
       ReaderEndsStream, ReportStream, TakeStream, CallerCancelsStream DEF ReaderStep
  <2>3. \A q \in Runs : q # r => LinkInv(q)' /\ OkInv(q)' /\ LinkLines(q)'
    BY <1>3, OtherStreams
  <2> QED BY <2>1, <2>2, <2>3 DEF StreamInv
<1>4. CASE StreamNext /\ DeleteSession /\ Alone
  <2>1. StreamTypeOK'
    BY <1>4 DEF Alone, StreamInv, StreamTypeOK, link, sdk, caller
  <2>2. \A r \in Runs : LinkInv(r)' /\ OkInv(r)' /\ LinkLines(r)'
    BY <1>2, <1>4 DEF StreamInv
  <2> QED BY <2>1, <2>2 DEF StreamInv
<1> QED BY <1>1, <1>2, <1>3, <1>4 DEF StreamNext, HandlerStep

\* The inductive invariant holds from the command to the caller of Stream.
\* (handleRunStream, sdk.Stream)
THEOREM StreamInvariant == StreamSpec => [](IInv /\ StreamInv)
<1>1. StreamInit => StreamInv
  BY InitStream
<1> QED BY <1>1, NextStream, StreamRunsSession, Invariant, PTL DEF StreamSpec

\* Every queue between the handler and the caller keeps within its bound.
\* (handleRunStream, sdk.Stream)
THEOREM StreamTypes == StreamSpec => []StreamTypeOK
<1>1. StreamInv => StreamTypeOK
  BY DEF StreamInv
<1> QED BY <1>1, StreamInvariant, PTL

\* A caller that is told that the command ended without error has every line of it, for
\* any sizes of pipes, channels and connection, wherever the connection broke.
\* (pump, handleRunStream, sdk.Stream)
THEOREM CallerHasAllOutput == StreamSpec => []StreamComplete
<1>1. IInv /\ StreamInv /\ OutputComplete => StreamComplete
  <2> SUFFICES ASSUME IInv, StreamInv, OutputComplete, NEW r \in Runs, final[r] = "ok"
               PROVE  received[r] = written[r]
    BY DEF StreamComplete
  <2>1. OkInv(r) /\ LinkLines(r) /\ queue[r] \in Seq(Frames)
    BY LinkRunTypes
  <2>2. /\ wire[r] = <<>> /\ holding[r] = "none" /\ seen[r] = "ok"
        /\ \A j \in 1..Len(queue[r]) : queue[r][j] \notin Streams
    BY <2>1 DEF OkInv
  <2>3. got[r] = written[r]
    BY <2>2 DEF OutputComplete
  <2>4. ASSUME NEW st \in Streams PROVE received[r][st] = got[r][st]
    <3>1. Count(queue[r], st) = 0
      BY <2>1, <2>2, CountNone
    <3>2. OnTheLink(r, st) = 0
      BY <2>2, <3>1, CountEmpty DEF OnTheLink, Held, Streams
    <3>3. got[r][st] = received[r][st] + OnTheLink(r, st)
      BY <2>1 DEF LinkLines, OkComing
    <3> QED BY <3>2, <3>3, LinkRunTypes
  <2>5. got[r] \in [Streams -> Nat] /\ received[r] \in [Streams -> Nat]
    BY DEF IInv, TypeOK, StreamInv, StreamTypeOK
  <2> QED BY <2>3, <2>4, <2>5
<1> QED BY <1>1, StreamInvariant, StreamOutputIsComplete, PTL

\* A stream that closes under a caller that did not cancel has given it a done event,
\* however connection, handler and reader interleave; unless output could not be encoded.
\* (sdk.Stream: a terminal state instead of a silent hang)
THEOREM StreamNeverEndsSilently == StreamSpec => []StreamEndsWithDone
<1>1. StreamInit => Endings
  BY DEF StreamInit, Endings, EndInv
<1>2. Endings => StreamEndsWithDone
  BY DEF Endings, EndInv, HasFinal, StreamEndsWithDone
<1> QED BY <1>1, <1>2, NextEnd, StreamInvariant, PTL DEF StreamSpec
=============================================================================
