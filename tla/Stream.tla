------------------------------- MODULE Stream -------------------------------
(***************************************************************************)
(* A streamed run from the command to the caller of the SDK: the agent's   *)
(* Session, the handler that turns its events into frames of a response,   *)
(* the connection, and the goroutine of sdk.Stream that reads the frames   *)
(* into the channel the caller consumes.                                   *)
(*                                                                         *)
(* Everything on the way is bounded, so a caller that does not read stops  *)
(* the command; and each part can go away while the others are at work.    *)
(* Pings carry nothing and are left out.                                   *)
(***************************************************************************)
EXTENDS Session

CONSTANT WireCap   \* frames the connection and its buffers hold

ASSUME WireAssumption == WireCap \in Nat \ {0}

VARIABLES
  wire,      \* per run: frames on their way to the SDK
  conn,      \* per run: the response, "none", "open", "ended", "broken"
  reader,    \* per run: the SDK's goroutine, "none", "read", "send", "fail", "closed"
  holding,   \* per run: the event it has in hand
  queue,     \* per run: its channel
  callerCtx, \* per run: the caller's context is cancelled
  received,  \* per run and stream: lines the caller took from the channel
  final,     \* per run: the done event it took, "none" if there was none
  unfit      \* history, per run: an event could not be encoded

link == <<wire, conn>>
sdk == <<reader, holding, queue>>
caller == <<callerCtx, received, final>>
streamVars == <<vars, link, sdk, caller, unfit>>

Frames == Streams \cup {"ok", "cancelled", "error"}

StreamTypeOK ==
  /\ wire \in [Runs -> Seq(Frames)] /\ \A r \in Runs : Len(wire[r]) <= WireCap
  /\ queue \in [Runs -> Seq(Frames)] /\ \A r \in Runs : Len(queue[r]) <= ChanCap
  /\ conn \in [Runs -> {"none", "open", "ended", "broken"}]
  /\ reader \in [Runs -> {"none", "read", "send", "fail", "closed"}]
  /\ holding \in [Runs -> Frames \cup {"none"}]
  /\ callerCtx \in [Runs -> BOOLEAN] /\ unfit \in [Runs -> BOOLEAN]
  /\ received \in [Runs -> [Streams -> Nat]]
  /\ final \in [Runs -> {"none", "ok", "cancelled", "error"}]

StreamInit ==
  /\ Init
  /\ wire = [r \in Runs |-> <<>>] /\ conn = [r \in Runs |-> "none"]
  /\ reader = [r \in Runs |-> "none"] /\ holding = [r \in Runs |-> "none"]
  /\ queue = [r \in Runs |-> <<>>]
  /\ callerCtx = [r \in Runs |-> FALSE] /\ received = PerStream(0)
  /\ final = [r \in Runs |-> "none"] /\ unfit = [r \in Runs |-> FALSE]

-----------------------------------------------------------------------------
(***************************************************************************)
(* The handler, the consumer "sse" of Session                              *)
(***************************************************************************)

Conn(r, to) == conn' = [conn EXCEPT ![r] = to]

\* The response is open: handler and reader begin.
Open(r) ==
  /\ Start(r, "sse")
  /\ Conn(r, "open")
  /\ reader' = [reader EXCEPT ![r] = "read"]
  /\ UNCHANGED <<wire, holding, queue, caller, unfit>>

FrameOf(r) == IF Head(chan[r]) = "done" THEN verdict[r] ELSE Head(chan[r])

\* The next event is written, as soon as the connection takes it; after the done
\* event the handler returns, and the response is complete.
Relay(r) ==
  /\ consumer[r] = "sse" /\ conn[r] = "open" /\ Len(wire[r]) < WireCap
  /\ Receive(r)
  /\ wire' = [wire EXCEPT ![r] = Append(@, FrameOf(r))]
  /\ Conn(r, IF Head(chan[r]) = "done" THEN "ended" ELSE "open")
  /\ UNCHANGED <<sdk, caller, unfit>>

\* The client is gone: what the handler writes is lost, or it is told and
\* returns.
RelayLost(r) ==
  /\ consumer[r] = "sse" /\ conn[r] = "broken"
  /\ Receive(r)
  /\ UNCHANGED <<link, sdk, caller, unfit>>

RelayFails(r) ==
  /\ conn[r] = "broken"
  /\ GiveUp(r)
  /\ UNCHANGED <<link, sdk, caller, unfit>>

\* A line that is no valid UTF-8 cannot be encoded: the handler returns, and the
\* response ends as if it were complete.
RelayUnfit(r) ==
  /\ conn[r] = "open" /\ chan[r] # <<>> /\ Head(chan[r]) # "done"
  /\ GiveUp(r)
  /\ Conn(r, "ended")
  /\ unfit' = [unfit EXCEPT ![r] = TRUE]
  /\ UNCHANGED <<wire, sdk, caller>>

\* The request's context has ended.
HandlerLeaves(r) ==
  /\ Leave(r)
  /\ UNCHANGED <<link, sdk, caller, unfit>>

\* net/http ends the request's context when the client is gone or the handler has
\* returned.
ServerCancels(r) ==
  /\ conn[r] = "broken" \/ (conn[r] = "ended" /\ consumer[r] \in {"left", "finished"})
  /\ Cancel(r)
  /\ UNCHANGED <<link, sdk, caller, unfit>>

-----------------------------------------------------------------------------
(***************************************************************************)
(* The connection                                                          *)
(***************************************************************************)

\* It breaks; frames on their way are lost, the last ones first.
Break(r) ==
  /\ conn[r] \in {"open", "ended"}
  /\ Conn(r, "broken")
  /\ \E k \in 0..Len(wire[r]) : wire' = [wire EXCEPT ![r] = SubSeq(@, 1, k)]
  /\ UNCHANGED <<vars, sdk, caller, unfit>>

-----------------------------------------------------------------------------
(***************************************************************************)
(* sdk.Stream and its caller                                               *)
(***************************************************************************)

Reader(r, to) == reader' = [reader EXCEPT ![r] = to]

\* The goroutine returns: it closes the channel and the response's body.
Return(r) ==
  /\ Reader(r, "closed")
  /\ holding' = [holding EXCEPT ![r] = "none"]
  /\ Conn(r, IF conn[r] = "open" THEN "broken" ELSE conn[r])

ReadFrame(r) ==
  /\ reader[r] = "read" /\ wire[r] # <<>>
  /\ holding' = [holding EXCEPT ![r] = Head(wire[r])]
  /\ wire' = [wire EXCEPT ![r] = Tail(@)]
  /\ Reader(r, "send")
  /\ UNCHANGED <<vars, conn, queue, caller, unfit>>

\* Mutant of Room: the channel takes one event too many.
RoomForLast(r) == Len(queue[r]) <= ChanCap

Room(r) == Len(queue[r]) < ChanCap

\* Mutant of Forward: the SDK does not wait for room.
ForwardOrDrop(r) ==
  /\ reader[r] = "send"
  /\ queue' = IF Room(r) THEN [queue EXCEPT ![r] = Append(@, holding[r])] ELSE queue
  /\ holding' = [holding EXCEPT ![r] = "none"]
  /\ Reader(r, "read")
  /\ UNCHANGED <<vars, link, caller, unfit>>

Forward(r) ==
  /\ reader[r] = "send" /\ Room(r)
  /\ queue' = [queue EXCEPT ![r] = Append(@, holding[r])]
  /\ holding' = [holding EXCEPT ![r] = "none"]
  /\ Reader(r, "read")
  /\ UNCHANGED <<vars, link, caller, unfit>>

\* Mutant of GivesUp: the caller's context is not looked at.
NeverGivesUp(r) == FALSE

GivesUp(r) == callerCtx[r]

ForwardCancelled(r) ==
  /\ reader[r] = "send" /\ GivesUp(r)
  /\ Return(r)
  /\ UNCHANGED <<vars, wire, queue, caller, unfit>>

\* The end of a complete response.
ReadEnds(r) ==
  /\ reader[r] = "read" /\ wire[r] = <<>> /\ conn[r] = "ended"
  /\ Return(r)
  /\ UNCHANGED <<vars, wire, queue, caller, unfit>>

\* Mutant of ReadFails: a read error is taken for the end.
ReadFailsSilently(r) ==
  /\ reader[r] = "read"
  /\ \/ wire[r] = <<>> /\ conn[r] = "broken"
     \/ wire[r] # <<>> /\ Head(wire[r]) \in Streams
     \/ callerCtx[r]
  /\ Return(r)
  /\ UNCHANGED <<vars, wire, queue, caller, unfit>>

\* The connection broke, a frame exceeds the scanner's buffer, or the request was
\* cancelled by the caller.
ReadFails(r) ==
  /\ reader[r] = "read"
  /\ \/ wire[r] = <<>> /\ conn[r] = "broken"
     \/ wire[r] # <<>> /\ Head(wire[r]) \in Streams
     \/ callerCtx[r]
  /\ Reader(r, "fail")
  /\ UNCHANGED <<vars, link, holding, queue, caller, unfit>>

\* The error is the caller's last event, unless it has cancelled.
Report(r) ==
  /\ reader[r] = "fail"
  /\ \/ Room(r) /\ queue' = [queue EXCEPT ![r] = Append(@, "error")]
     \/ GivesUp(r) /\ UNCHANGED queue
  /\ Return(r)
  /\ UNCHANGED <<vars, wire, caller, unfit>>

Take(r) ==
  /\ queue[r] # <<>>
  /\ queue' = [queue EXCEPT ![r] = Tail(@)]
  /\ IF Head(queue[r]) \in Streams
     THEN received' = [received EXCEPT ![r][Head(queue[r])] = @ + 1] /\ UNCHANGED final
     ELSE final' = [final EXCEPT ![r] = Head(queue[r])] /\ UNCHANGED received
  /\ UNCHANGED <<vars, link, reader, holding, callerCtx, unfit>>

\* The caller cancels, which closes the connection; it may stop reading.
CallerCancels(r) ==
  /\ reader[r] # "none" /\ ~callerCtx[r]
  /\ callerCtx' = [callerCtx EXCEPT ![r] = TRUE]
  /\ Conn(r, IF conn[r] = "open" THEN "broken" ELSE conn[r])
  /\ UNCHANGED <<vars, wire, sdk, received, final, unfit>>

-----------------------------------------------------------------------------

Alone == UNCHANGED <<link, sdk, caller, unfit>>

\* A run that is not streamed is answered as in Session.
AgentStep(r) ==
  /\ \/ Start(r, "collect") \/ StartFails(r)
     \/ consumer[r] = "collect" /\ (Cancel(r) \/ Receive(r))
     \/ Fork(r) \/ DumpEnv(r) \/ DumpPwd(r) \/ Exit(r) \/ ChildExits(r)
     \/ GroupDone(r) \/ Kill(r) \/ Finish(r) \/ Persist(r) \/ SendDone(r)
     \/ \E st \in Streams : StreamStep(r, st)
  /\ Alone

HandlerStep(r) ==
  Relay(r) \/ RelayLost(r) \/ RelayFails(r) \/ RelayUnfit(r) \/ HandlerLeaves(r)

ReaderStep(r) ==
  \/ ReadFrame(r) \/ Forward(r) \/ ForwardCancelled(r) \/ ReadEnds(r) \/ ReadFails(r)
  \/ Report(r)

StreamNext ==
  \/ \E r \in Runs :
       \/ AgentStep(r) \/ Open(r) \/ HandlerStep(r) \/ ServerCancels(r) \/ Break(r)
       \/ ReaderStep(r) \/ Take(r) \/ CallerCancels(r)
  \/ DeleteSession /\ Alone

\* The goroutines on both sides go on, net/http notices a client that is gone (at
\* the latest when it writes a ping), and the caller reads until it cancels.
StreamFairness ==
  \A r \in Runs :
    /\ Goroutines(r)
    /\ WF_streamVars(HandlerStep(r)) /\ WF_streamVars(consumer[r] = "collect" /\ Receive(r) /\ Alone)
    /\ WF_streamVars(ServerCancels(r))
    /\ WF_streamVars(ReaderStep(r)) /\ WF_streamVars(Take(r) /\ ~callerCtx[r])

StreamSpec == StreamInit /\ [][StreamNext]_streamVars /\ StreamFairness

-----------------------------------------------------------------------------
(***************************************************************************)
(* Properties                                                              *)
(***************************************************************************)

\* A caller that is told that the command ended without error has received all
\* its output, whatever broke on the way.
\* (pump, handleRunStream, sdk.Stream)
StreamComplete == \A r \in Runs : final[r] = "ok" => received[r] = written[r]

\* A stream that closes under a caller that did not cancel has ended with a done
\* event: the command's, or the SDK's when the connection failed.  Output that
\* cannot be encoded is the exception: the stream stops without one.
\* (sdk.Stream: a terminal state instead of a silent hang)
StreamEndsWithDone ==
  \A r \in Runs :
    reader[r] = "closed" /\ queue[r] = <<>> /\ ~callerCtx[r] /\ ~unfit[r] => final[r] # "none"

\* The caller's channel is closed once the processes of the run are gone, or the
\* caller has cancelled, even if it does not read any more.
StreamCloses ==
  \A r \in Runs :
    reader[r] # "none" /\ (callerCtx[r] \/ (bash[r] = "exited" /\ ~child[r])) ~> reader[r] = "closed"

\* A run whose request was cancelled, or whose caller cancelled, lost the
\* connection or could not take its output, ends: its shell is killed, wherever
\* the output is stuck.
AbandonedRunEnds ==
  \A r \in Runs :
    bash[r] # "none" /\ (ctx[r] \/ callerCtx[r] \/ conn[r] = "broken" \/ unfit[r]) ~> bash[r] = "exited"
=============================================================================
