---------------------- MODULE PreshutdownChannelProofs ----------------------
(***************************************************************************)
(* What the UI was told about the skip token is true, for every lifetime   *)
(* of the token and every number of requests, connections and processes.   *)
(*                                                                         *)
(* Every frame carries the id of its request.  The frames the listener has *)
(* not read yet are newer than those it has applied, and those of the      *)
(* connection at hand are no newer than the last request; so once the      *)
(* newest one is acknowledged nothing can change the token behind the UI's *)
(* back.                                                                   *)
(***************************************************************************)
EXTENDS PreshutdownChannel, TLAPS

\* The frames of this connection that the listener has applied.
Applied == ({lastAck, frame} \ {NoFrame}) \cup {toAgent[i] : i \in DOMAIN toAgent}

\* The token is in the state that a control leaves behind.
Matches(control) ==
  decision = "none" =>
    /\ control = "Required" => deadline = 0
    /\ control = "Handled" => deadline # 0

\* The token is dated by the moment it was armed.
TokenIsDated ==
  /\ now > 0
  /\ deadline # 0 => deadline = armedAt + Lifetime

\* A closed connection holds no frames for a new one, and a request under way is
\* the newest one of a process that has not closed its end.
ConnectionAgrees ==
  /\ ~pipe => lastAck = NoFrame
  /\ pipe => link \in {"up", "serverClosed"}
  /\ link \in {"down", "serverClosed"} => toServer = <<>> /\ toAgent = <<>> /\ frame = NoFrame
  /\ frame # NoFrame <=> server = "echoing"
  /\ server \in {"serving", "echoing"} => link \in {"up", "clientClosed"}
  /\ caller # "idle" => /\ link # "clientClosed" /\ flow \in {"marking", "revoking"} /\ known = "Unknown"
                        /\ request \in Frames /\ request.id + 1 = nextRequestId

\* Requests are written, read and acknowledged in the order of their ids.
FramesAreOrdered ==
  /\ \A i, j \in DOMAIN toServer : i < j => toServer[i].id < toServer[j].id
  /\ \A f \in Applied : \A i \in DOMAIN toServer : f.id < toServer[i].id
  /\ link # "clientClosed" =>
       /\ \A i \in DOMAIN toServer : toServer[i].id < nextRequestId
       /\ \A f \in Applied : f.id < nextRequestId
  /\ caller = "writing" =>
       /\ \A i \in DOMAIN toServer : toServer[i].id < request.id
       /\ \A f \in Applied : f.id < request.id

\* If the newest request has been applied, the token is as it left it.
NewestIsInForce ==
  link # "clientClosed" =>
    \A f \in Applied : f.id + 1 = nextRequestId => Matches(f.control)

\* While the UI knows the token, nothing is on its way to the service.
KnownIsSettled ==
  known # "Unknown" => toServer = <<>> /\ Matches(known)

ChannelInv ==
  /\ ChannelTypeOK
  /\ TokenIsDated
  /\ ConnectionAgrees
  /\ FramesAreOrdered
  /\ NewestIsInForce
  /\ KnownIsSettled

-----------------------------------------------------------------------------
(***************************************************************************)
(* Types, and what a step does to the frames                               *)
(***************************************************************************)

\* sendControl either finds no pipe or builds a request from the next id.
LEMMA BeginControlTypes ==
  ASSUME ChannelTypeOK, NEW control \in Controls, BeginControl(control),
         UNCHANGED <<linkVars, serverVars, now>>
  PROVE  ChannelTypeOK'
  <1>1. CASE ~pipe
    BY <1>1 DEF BeginControl, ChannelTypeOK, controlVars, linkVars, serverVars
  <1>2. CASE pipe
    <2>1. [control |-> control, id |-> nextRequestId] \in Frames
      BY DEF ChannelTypeOK, Frames
    <2>. QED BY <1>2, <2>1 DEF BeginControl, ChannelTypeOK, controlVars, linkVars, serverVars, Controls
  <1>. QED BY <1>1, <1>2

\* Every step of the agent, of the UI thread and of the service keeps the types.
LEMMA ChannelTypeStep ==
  ASSUME ChannelTypeOK, ConnectionAgrees, [Next]_vars
  PROVE  ChannelTypeOK'
  <1>. USE DEF linkVars, controlVars, callerVars, serverVars
  <1>empty. <<>> \in Seq(Frames)
    OBVIOUS
  <1>1. CASE Connect
    BY <1>1 DEF Connect, ChannelTypeOK
  <1>2. CASE PublishPipe
    BY <1>2, BoundsAssumption DEF PublishPipe, ChannelTypeOK
  <1>3. CASE ReceiveAck
    BY <1>3 DEF ReceiveAck, ChannelTypeOK
  <1>4. CASE NoticeDisconnect
    <2>1. link' \in {"down", "up", "clientClosed", "serverClosed"} /\ generation' \in Nat
      BY <1>4 DEF NoticeDisconnect, ChannelTypeOK
    <2>2. toServer' \in Seq(Frames) /\ toAgent' \in Seq(Frames)
      BY <1>4, <1>empty DEF NoticeDisconnect, ChannelTypeOK
    <2>3. lastAck' \in Frames \cup {NoFrame}
      BY <1>4 DEF NoticeDisconnect, ChannelTypeOK
    <2>. QED BY <1>4, <2>1, <2>2, <2>3, ZenonT(30) DEF NoticeDisconnect, ChannelTypeOK
  <1>5. CASE AgentDies
    <2>1. link' \in {"down", "up", "clientClosed", "serverClosed"} /\ generation' \in Nat
      BY <1>5 DEF AgentDies, ChannelTypeOK
    <2>2. toServer' \in Seq(Frames) /\ toAgent' \in Seq(Frames)
      BY <1>5, <1>empty DEF AgentDies, ChannelTypeOK
    <2>3. lastAck' \in Frames \cup {NoFrame}
      BY <1>5 DEF AgentDies, ChannelTypeOK
    <2>4. /\ lives' \in Nat /\ nextRequestId' \in Nat \ {0} /\ requestGen' \in Nat
          /\ pipe' = FALSE /\ caller' = "idle" /\ flow' = "idle" /\ request' = NoFrame
      BY <1>5 DEF AgentDies, ChannelTypeOK
    <2>. QED BY <1>5, <2>1, <2>2, <2>3, <2>4 DEF AgentDies, ChannelTypeOK
  <1>6. CASE AgentStops
    <2>1. link' \in {"down", "up", "clientClosed", "serverClosed"} /\ generation' \in Nat
      BY <1>6 DEF AgentStops, ChannelTypeOK
    <2>2. toServer' \in Seq(Frames) /\ toAgent' \in Seq(Frames)
      BY <1>6, <1>empty DEF AgentStops, ChannelTypeOK
    <2>3. lastAck' \in Frames \cup {NoFrame}
      BY <1>6 DEF AgentStops, ChannelTypeOK
    <2>. QED BY <1>6, <2>1, <2>2, <2>3 DEF AgentStops, ChannelTypeOK
  <1>7. CASE MarkHandled
    BY <1>7, BeginControlTypes DEF MarkHandled, Controls
  <1>8. CASE PowerCallSucceeds
    BY <1>8 DEF PowerCallSucceeds, ChannelTypeOK
  <1>9. CASE PowerCallFails
    BY <1>9, BeginControlTypes DEF PowerCallFails, Controls
  <1>10. CASE WriteFrame
    <2>1. toServer' \in Seq(Frames)
      BY <1>10 DEF WriteFrame, ChannelTypeOK, ConnectionAgrees
    <2>. QED BY <1>10, <2>1 DEF WriteFrame, ChannelTypeOK
  <1>11. CASE WriteFails \/ WaitFails
    BY <1>11 DEF WriteFails, WaitFails, Return, ChannelTypeOK
  <1>12. CASE WaitSucceeds
    <2>1. request.control \in Controls
      BY <1>12 DEF WaitSucceeds, ConnectionAgrees, Frames
    <2>. QED BY <1>12, <2>1 DEF WaitSucceeds, Return, ChannelTypeOK
  <1>13. CASE ServeFrame
    <2>1. Head(toServer) \in Frames /\ toServer' \in Seq(Frames)
      BY <1>13 DEF ServeFrame, ChannelTypeOK
    <2>2. deadline' \in Nat /\ armedAt' \in Nat
      BY <1>13, LifetimeAssumption DEF ServeFrame, ApplyControl, ChannelTypeOK
    <2>. QED BY <1>13, <2>1, <2>2 DEF ServeFrame, ChannelTypeOK
  <1>14. CASE EchoFrame
    <2>1. toAgent' \in Seq(Frames)
      BY <1>14 DEF EchoFrame, ChannelTypeOK, ConnectionAgrees
    <2>. QED BY <1>14, <2>1 DEF EchoFrame, ChannelTypeOK
  <1>15. CASE DiscardConnection
    BY <1>15 DEF DiscardConnection, ChannelTypeOK
  <1>16. CASE StopListener
    BY <1>16 DEF StopListener, ChannelTypeOK
  <1>17. CASE Consume
    BY <1>17 DEF Consume, ChannelTypeOK
  <1>18. CASE Tick
    BY <1>18 DEF Tick, ChannelTypeOK
  <1>19. CASE UNCHANGED vars
    BY <1>19 DEF vars, ChannelTypeOK
  <1>. QED
    BY <1>1, <1>2, <1>3, <1>4, <1>5, <1>6, <1>7, <1>8, <1>9, <1>10, <1>11, <1>12, <1>13, <1>14,
       <1>15, <1>16, <1>17, <1>18, <1>19 DEF Next

\* Every frame in the pipe carries the id of a request.
LEMMA FrameIds ==
  ASSUME ChannelTypeOK
  PROVE  /\ toServer \in Seq(Frames) /\ nextRequestId \in Nat
         /\ \A i \in DOMAIN toServer : toServer[i].id \in Nat
         /\ \A f \in Applied : f.id \in Nat
  <1>1. /\ toServer \in Seq(Frames) /\ toAgent \in Seq(Frames) /\ nextRequestId \in Nat
        /\ lastAck \in Frames \cup {NoFrame} /\ frame \in Frames \cup {NoFrame}
    BY DEF ChannelTypeOK
  <1>2. \A i \in DOMAIN toServer : toServer[i] \in Frames
    BY <1>1
  <1>3. \A f \in Applied : f \in Frames
    BY <1>1 DEF Applied
  <1>. QED BY <1>1, <1>2, <1>3 DEF Frames

\* The listener only takes frames from the head, the UI thread only appends the
\* request under way, and a connection that ends takes its frames with it.
LEMMA QueueStep ==
  ASSUME ChannelTypeOK, [Next]_vars
  PROVE  \/ toServer' = toServer /\ ~ServeFrame /\ ~WriteFrame
         \/ toServer' = <<>> /\ ~ServeFrame /\ ~WriteFrame
         \/ WriteFrame /\ ~ServeFrame /\ toServer' = Append(toServer, request)
         \/ ServeFrame /\ toServer # <<>> /\ toServer' = Tail(toServer)
  <1>. USE DEF linkVars, controlVars, callerVars, serverVars
  <1>1. WriteFrame => caller = "writing" /\ caller' = "waiting"
    BY DEF WriteFrame
  <1>. QED
    BY <1>1 DEF Next, vars, Connect, PublishPipe, ReceiveAck, NoticeDisconnect, AgentDies, AgentStops,
       MarkHandled, PowerCallSucceeds, PowerCallFails, WriteFrame, WriteFails, WaitSucceeds, WaitFails,
       Return, ServeFrame, EchoFrame, DiscardConnection, StopListener, Consume, Tick

\* An applied frame comes from the head of the queue and from nowhere else.
LEMMA AppliedStep ==
  ASSUME ChannelTypeOK, ConnectionAgrees, [Next]_vars
  PROVE  \/ Applied' \subseteq Applied /\ ~ServeFrame
         \/ ServeFrame /\ toServer # <<>> /\ Applied' \subseteq Applied \cup {Head(toServer)}
  <1>. USE DEF linkVars, controlVars, callerVars, serverVars
  <1>1. CASE ReceiveAck
    <2>1. toAgent # <<>> /\ lastAck' = toAgent[1] /\ toAgent' = Tail(toAgent)
      BY <1>1 DEF ReceiveAck, ChannelTypeOK
    <2>2. \A i \in DOMAIN toAgent' : i + 1 \in DOMAIN toAgent /\ toAgent'[i] = toAgent[i + 1]
      BY <2>1 DEF ChannelTypeOK
    <2>3. 1 \in DOMAIN toAgent
      BY <2>1 DEF ChannelTypeOK
    <2>4. frame' = frame /\ ~ServeFrame
      BY <1>1 DEF ReceiveAck, ServeFrame, ChannelTypeOK
    <2>. QED BY <2>1, <2>2, <2>3, <2>4 DEF Applied
  <1>2. CASE EchoFrame
    <2>1. frame # NoFrame /\ toAgent' = Append(toAgent, frame) /\ frame' = NoFrame /\ lastAck' = lastAck
      BY <1>2 DEF EchoFrame, ConnectionAgrees
    <2>2. \A i \in DOMAIN toAgent' : toAgent'[i] = frame \/ (i \in DOMAIN toAgent /\ toAgent'[i] = toAgent[i])
      BY <2>1 DEF ChannelTypeOK
    <2>3. ~ServeFrame
      BY <1>2 DEF EchoFrame, ServeFrame
    <2>. QED BY <2>1, <2>2, <2>3 DEF Applied
  <1>3. CASE ServeFrame
    <2>1. toServer # <<>> /\ frame' = Head(toServer) /\ toAgent' = toAgent /\ lastAck' = lastAck
      BY <1>3 DEF ServeFrame
    <2>. QED BY <1>3, <2>1 DEF Applied
  <1>4. CASE ~ServeFrame /\ lastAck' \in {lastAck, NoFrame} /\ frame' \in {frame, NoFrame}
             /\ toAgent' \in {toAgent, <<>>}
    <2>1. DOMAIN toAgent' = {} \/ toAgent' = toAgent
      BY <1>4
    <2>. QED BY <1>4, <2>1 DEF Applied
  <1>5. \/ ReceiveAck \/ EchoFrame \/ ServeFrame
        \/ /\ ~ServeFrame /\ lastAck' \in {lastAck, NoFrame} /\ frame' \in {frame, NoFrame}
           /\ toAgent' \in {toAgent, <<>>}
    BY DEF Next, vars, Connect, PublishPipe, NoticeDisconnect, AgentDies, AgentStops, BeginControl,
       MarkHandled, PowerCallSucceeds, PowerCallFails, WriteFrame, WriteFails, WaitSucceeds, WaitFails,
       Return, DiscardConnection, StopListener, Consume, Tick
  <1>. QED BY <1>1, <1>2, <1>3, <1>4, <1>5

-----------------------------------------------------------------------------
(***************************************************************************)
(* The parts of the invariant                                              *)
(***************************************************************************)

\* Only applyPreshutdownControl and consumePreshutdownCommitHandled write the
\* deadline.
LEMMA DatedStep ==
  ASSUME ChannelTypeOK, TokenIsDated, [Next]_vars
  PROVE  TokenIsDated'
  <1>. USE DEF linkVars, controlVars, callerVars, serverVars
  <1>1. CASE ServeFrame
    BY <1>1, LifetimeAssumption DEF ServeFrame, ApplyControl, ChannelTypeOK, TokenIsDated
  <1>2. CASE Consume
    BY <1>2 DEF Consume, TokenIsDated
  <1>3. CASE Tick
    BY <1>3 DEF Tick, TokenIsDated, ChannelTypeOK
  <1>4. CASE UNCHANGED <<deadline, armedAt, now>>
    BY <1>4 DEF TokenIsDated
  <1>5. ServeFrame \/ Consume \/ Tick \/ UNCHANGED <<deadline, armedAt, now>>
    BY DEF Next, vars, Connect, PublishPipe, ReceiveAck, NoticeDisconnect, AgentDies, AgentStops,
       MarkHandled, PowerCallSucceeds, PowerCallFails, WriteFrame, WriteFails, WaitSucceeds, WaitFails,
       Return, EchoFrame, DiscardConnection, StopListener
  <1>. QED BY <1>1, <1>2, <1>3, <1>4, <1>5

\* sendControl takes a fresh id under the lock, and only on a published pipe.
LEMMA BeginControlAgrees ==
  ASSUME ChannelTypeOK, ConnectionAgrees, NEW control \in Controls, BeginControl(control),
         caller = "idle", UNCHANGED <<linkVars, serverVars, now>>
  PROVE  ConnectionAgrees'
  <1>. USE DEF linkVars, controlVars, serverVars
  <1>1. CASE ~pipe
    BY <1>1 DEF BeginControl, ConnectionAgrees
  <1>2. CASE pipe
    <2>1. request' \in Frames /\ request'.id + 1 = nextRequestId'
      BY <1>2 DEF BeginControl, Frames, ChannelTypeOK
    <2>2. link # "clientClosed"
      BY <1>2 DEF ConnectionAgrees
    <2>. QED BY <1>2, <2>1, <2>2 DEF BeginControl, ConnectionAgrees
  <1>. QED BY <1>1, <1>2

\* The connection's two ends agree after every step.  MarkHandled and
\* PowerCallFails find no other request of the UI thread under way.
LEMMA ConnectionStep ==
  ASSUME ChannelTypeOK, ConnectionAgrees, [Next]_vars
  PROVE  ConnectionAgrees'
  <1>. USE DEF linkVars, controlVars, callerVars, serverVars
  <1>1. CASE Connect
    BY <1>1 DEF Connect, ConnectionAgrees
  <1>2. CASE PublishPipe
    BY <1>2 DEF PublishPipe, ConnectionAgrees
  <1>3. CASE ReceiveAck
    BY <1>3 DEF ReceiveAck, ConnectionAgrees
  <1>4. CASE NoticeDisconnect
    BY <1>4 DEF NoticeDisconnect, ConnectionAgrees
  <1>5. CASE AgentDies
    BY <1>5 DEF AgentDies, ConnectionAgrees
  <1>6. CASE AgentStops
    BY <1>6 DEF AgentStops, ConnectionAgrees
  <1>7. CASE MarkHandled \/ PowerCallFails
    <2>1. caller = "idle"
      BY <1>7 DEF MarkHandled, PowerCallFails, ConnectionAgrees
    <2>. QED BY <1>7, <2>1, BeginControlAgrees DEF MarkHandled, PowerCallFails, Controls
  <1>8. CASE PowerCallSucceeds
    BY <1>8 DEF PowerCallSucceeds, ConnectionAgrees
  <1>9. CASE WriteFrame
    BY <1>9 DEF WriteFrame, PipeOpen, ConnectionAgrees
  <1>10. CASE WriteFails \/ WaitFails \/ WaitSucceeds
    BY <1>10 DEF WriteFails, WaitFails, WaitSucceeds, Return, ConnectionAgrees
  <1>11. CASE ServeFrame
    <2>1. Head(toServer) # NoFrame
      BY <1>11 DEF ServeFrame, ChannelTypeOK, Frames, NoFrame
    <2>. QED BY <1>11, <2>1 DEF ServeFrame, ConnectionAgrees
  <1>12. CASE EchoFrame
    BY <1>12 DEF EchoFrame, ConnectionAgrees
  <1>13. CASE DiscardConnection
    BY <1>13 DEF DiscardConnection, ConnectionAgrees
  <1>14. CASE StopListener
    BY <1>14 DEF StopListener, ConnectionAgrees
  <1>15. CASE Consume \/ Tick \/ UNCHANGED vars
    BY <1>15 DEF Consume, Tick, vars, ConnectionAgrees
  <1>. QED
    BY <1>1, <1>2, <1>3, <1>4, <1>5, <1>6, <1>7, <1>8, <1>9, <1>10, <1>11, <1>12, <1>13, <1>14, <1>15
    DEF Next

\* What a step does to the ids: they are compared with those of one process
\* only, whose counter grows; a process that dies leaves a closed end behind.
LEMMA IdStep ==
  ASSUME ChannelTypeOK, ConnectionAgrees, [Next]_vars
  PROVE  /\ nextRequestId' >= nextRequestId \/ AgentDies
         /\ AgentDies => /\ link' = "clientClosed" \/ (toServer' = <<>> /\ Applied' = {})
                         /\ caller' = "idle" /\ ~ServeFrame /\ ~WriteFrame
         /\ link = "clientClosed" =>
              link' = "clientClosed" \/ (toServer' = <<>> /\ Applied' = {} /\ ~ServeFrame)
         /\ caller' = "writing" =>
              \/ caller = "writing" /\ request' = request /\ nextRequestId' = nextRequestId
              \/ /\ caller = "idle" /\ link # "clientClosed" /\ request'.id = nextRequestId
                 /\ toServer' = toServer /\ Applied' = Applied
  <1>. USE DEF linkVars, controlVars, callerVars, serverVars
  <1>1. nextRequestId' >= nextRequestId \/ AgentDies
    <2>1. nextRequestId' = nextRequestId \/ nextRequestId' = nextRequestId + 1 \/ AgentDies
      BY DEF Next, vars, Connect, PublishPipe, ReceiveAck, NoticeDisconnect, AgentStops, BeginControl,
         MarkHandled, PowerCallSucceeds, PowerCallFails, WriteFrame, WriteFails, WaitSucceeds, WaitFails,
         Return, ServeFrame, EchoFrame, DiscardConnection, StopListener, Consume, Tick
    <2>. QED BY <2>1 DEF ChannelTypeOK
  <1>2. ASSUME link' \in {"down", "serverClosed"}, ConnectionAgrees', lastAck' = NoFrame
        PROVE  toServer' = <<>> /\ Applied' = {}
    <2>1. toServer' = <<>> /\ toAgent' = <<>> /\ frame' = NoFrame
      BY <1>2 DEF ConnectionAgrees
    <2>2. DOMAIN toAgent' = {}
      BY <2>1
    <2>. QED BY <1>2, <2>1, <2>2 DEF Applied
  <1>3. ConnectionAgrees'
    BY ConnectionStep
  <1>4. AgentDies => /\ link' = "clientClosed" \/ (toServer' = <<>> /\ Applied' = {})
                     /\ caller' = "idle" /\ ~ServeFrame /\ ~WriteFrame
    <2>. SUFFICES ASSUME AgentDies
                  PROVE  /\ link' = "clientClosed" \/ (toServer' = <<>> /\ Applied' = {})
                         /\ caller' = "idle" /\ ~ServeFrame /\ ~WriteFrame
      OBVIOUS
    <2>1. link' \in {"down", "clientClosed"} /\ lastAck' = NoFrame /\ caller' = "idle" /\ ~WriteFrame
      BY DEF AgentDies, WriteFrame, ChannelTypeOK
    <2>2. ~ServeFrame
      BY DEF AgentDies, ServeFrame, ChannelTypeOK
    <2>. QED BY <2>1, <2>2, <1>2, <1>3
  <1>5. link = "clientClosed" =>
          link' = "clientClosed" \/ (toServer' = <<>> /\ Applied' = {} /\ ~ServeFrame)
    <2>. SUFFICES ASSUME link = "clientClosed"
                  PROVE  link' = "clientClosed" \/ (toServer' = <<>> /\ Applied' = {} /\ ~ServeFrame)
      OBVIOUS
    <2>1. lastAck = NoFrame /\ ~pipe
      BY DEF ConnectionAgrees
    <2>2. link' = "clientClosed" \/ (link' = "down" /\ lastAck' = lastAck /\ ~ServeFrame)
      BY <2>1 DEF Next, vars, Connect, PublishPipe, ReceiveAck, NoticeDisconnect, AgentDies, AgentStops,
         MarkHandled, PowerCallSucceeds, PowerCallFails, WriteFrame, WriteFails, WaitSucceeds,
         WaitFails, Return, ServeFrame, EchoFrame, DiscardConnection, StopListener, Consume, Tick,
         BeginControl
    <2>. QED BY <2>1, <2>2, <1>2, <1>3
  <1>6. caller' = "writing" =>
          \/ caller = "writing" /\ request' = request /\ nextRequestId' = nextRequestId
          \/ /\ caller = "idle" /\ link # "clientClosed" /\ request'.id = nextRequestId
             /\ toServer' = toServer /\ Applied' = Applied
    <2>. SUFFICES ASSUME caller' = "writing"
                  PROVE  \/ caller = "writing" /\ request' = request /\ nextRequestId' = nextRequestId
                         \/ /\ caller = "idle" /\ link # "clientClosed" /\ request'.id = nextRequestId
                            /\ toServer' = toServer /\ Applied' = Applied
      OBVIOUS
    <2>1. CASE MarkHandled \/ PowerCallFails
      <3>1. caller = "idle" /\ pipe
        BY <2>1 DEF MarkHandled, PowerCallFails, BeginControl, ConnectionAgrees
      <3>2. link # "clientClosed"
        BY <3>1 DEF ConnectionAgrees
      <3>3. ASSUME NEW control, BeginControl(control)
            PROVE  request'.id = nextRequestId
        BY <3>1, <3>3 DEF BeginControl
      <3>4. UNCHANGED <<toServer, toAgent, lastAck, frame>>
        BY <2>1, <3>1 DEF MarkHandled, PowerCallFails, BeginControl
      <3>. QED BY <2>1, <3>1, <3>2, <3>3, <3>4 DEF Applied, MarkHandled, PowerCallFails
    <2>2. CASE ~MarkHandled /\ ~PowerCallFails
      BY <2>2 DEF Next, vars, Connect, PublishPipe, ReceiveAck, NoticeDisconnect, AgentDies, AgentStops,
         PowerCallSucceeds, WriteFrame, WriteFails, WaitSucceeds, WaitFails, Return, ServeFrame,
         EchoFrame, DiscardConnection, StopListener, Consume, Tick
    <2>. QED BY <2>1, <2>2
  <1>. QED BY <1>1, <1>4, <1>5, <1>6

\* WriteFrame appends the newest id, ServeFrame moves the oldest unread frame
\* behind all applied ones, and everything else only forgets frames.
LEMMA OrderStep ==
  ASSUME ChannelTypeOK, ConnectionAgrees, FramesAreOrdered, [Next]_vars
  PROVE  FramesAreOrdered'
  <1>. USE DEF linkVars, controlVars, callerVars, serverVars
  <1>types. /\ toServer \in Seq(Frames) /\ nextRequestId \in Nat
            /\ \A i \in DOMAIN toServer : toServer[i].id \in Nat
            /\ \A f \in Applied : f.id \in Nat
    BY FrameIds
  <1>next. nextRequestId' \in Nat /\ ChannelTypeOK'
    BY ChannelTypeStep DEF ChannelTypeOK
  <1>1. CASE toServer' \in {toServer, <<>>} /\ Applied' \subseteq Applied
    <2>1. /\ \A i \in DOMAIN toServer' : i \in DOMAIN toServer /\ toServer'[i] = toServer[i]
          /\ \A f \in Applied' : f \in Applied
      BY <1>1
    <2>2. link' # "clientClosed" =>
            /\ \A i \in DOMAIN toServer' : toServer'[i].id < nextRequestId'
            /\ \A f \in Applied' : f.id < nextRequestId'
      <3>. SUFFICES ASSUME link' # "clientClosed"
                    PROVE  /\ \A i \in DOMAIN toServer' : toServer'[i].id < nextRequestId'
                           /\ \A f \in Applied' : f.id < nextRequestId'
        OBVIOUS
      <3>1. CASE toServer' = <<>> /\ Applied' = {}
        <4>1. DOMAIN toServer' = {}
          BY <3>1
        <4>. QED BY <3>1, <4>1
      <3>2. CASE link # "clientClosed" /\ nextRequestId' >= nextRequestId
        BY <3>2, <2>1, <1>types, <1>next DEF FramesAreOrdered
      <3>. QED BY <3>1, <3>2, IdStep
    <2>3. caller' = "writing" =>
            /\ \A i \in DOMAIN toServer' : toServer'[i].id < request'.id
            /\ \A f \in Applied' : f.id < request'.id
      BY <2>1, IdStep DEF FramesAreOrdered
    <2>. QED BY <2>1, <2>2, <2>3 DEF FramesAreOrdered
  <1>2. CASE WriteFrame /\ toServer' = Append(toServer, request) /\ Applied' \subseteq Applied
    <2>1. /\ caller = "writing" /\ caller' = "waiting" /\ link # "clientClosed"
          /\ nextRequestId' = nextRequestId /\ request.id \in Nat /\ request.id + 1 = nextRequestId
          /\ request \in Frames
      BY <1>2 DEF WriteFrame, PipeOpen, ConnectionAgrees, Frames
    <2>2. \A i \in DOMAIN toServer' :
             \/ i \in DOMAIN toServer /\ toServer'[i] = toServer[i]
             \/ toServer'[i] = request /\ \A j \in DOMAIN toServer' : ~(i < j)
      BY <1>2, <1>types, <2>1
    <2>3. /\ \A i \in DOMAIN toServer : toServer[i].id < request.id
          /\ \A f \in Applied' : f \in Applied /\ f.id < request.id
      BY <1>2, <2>1 DEF FramesAreOrdered
    <2>4. \A i, j \in DOMAIN toServer' : i < j => toServer'[i].id < toServer'[j].id
      BY <2>2, <2>3 DEF FramesAreOrdered
    <2>5. \A f \in Applied' : \A i \in DOMAIN toServer' : f.id < toServer'[i].id
      BY <2>2, <2>3 DEF FramesAreOrdered
    <2>6. /\ \A i \in DOMAIN toServer' : toServer'[i].id < nextRequestId'
          /\ \A f \in Applied' : f.id < nextRequestId'
      BY <2>1, <2>2, <2>3, <1>types
    <2>. QED BY <2>1, <2>4, <2>5, <2>6 DEF FramesAreOrdered
  <1>3. CASE /\ ServeFrame /\ toServer # <<>> /\ toServer' = Tail(toServer)
             /\ Applied' \subseteq Applied \cup {Head(toServer)}
    <2>1. /\ \A i \in DOMAIN toServer' :
               i + 1 \in DOMAIN toServer /\ i \in Nat /\ i > 0 /\ toServer'[i] = toServer[i + 1]
          /\ 1 \in DOMAIN toServer /\ Head(toServer) = toServer[1]
      BY <1>3, <1>types
    <2>2. \A f \in Applied' : f \in Applied \/ f = toServer[1]
      BY <1>3, <2>1
    <2>3. UNCHANGED <<caller, request, nextRequestId, link>>
      BY <1>3 DEF ServeFrame
    <2>4. \A i, j \in DOMAIN toServer' : i < j => toServer'[i].id < toServer'[j].id
      BY <2>1 DEF FramesAreOrdered
    <2>5. \A f \in Applied' : \A i \in DOMAIN toServer' : f.id < toServer'[i].id
      <3>1. \A i \in DOMAIN toServer' : toServer[1].id < toServer[i + 1].id
        BY <2>1 DEF FramesAreOrdered
      <3>. QED BY <2>1, <2>2, <3>1 DEF FramesAreOrdered
    <2>6. link' # "clientClosed" =>
            /\ \A i \in DOMAIN toServer' : toServer'[i].id < nextRequestId'
            /\ \A f \in Applied' : f.id < nextRequestId'
      BY <2>1, <2>2, <2>3 DEF FramesAreOrdered
    <2>7. caller' = "writing" =>
            /\ \A i \in DOMAIN toServer' : toServer'[i].id < request'.id
            /\ \A f \in Applied' : f.id < request'.id
      BY <2>1, <2>2, <2>3 DEF FramesAreOrdered
    <2>. QED BY <2>4, <2>5, <2>6, <2>7 DEF FramesAreOrdered
  <1>. QED BY <1>1, <1>2, <1>3, QueueStep, AppliedStep

\* The token changes only when the listener applies a frame or the service
\* decides.
LEMMA TokenStep ==
  ASSUME [Next]_vars
  PROVE  \/ ServeFrame
         \/ decision' # "none"
         \/ UNCHANGED <<deadline, decision>>
  BY DEF Next, vars, Connect, PublishPipe, ReceiveAck, NoticeDisconnect, AgentDies, AgentStops,
     MarkHandled, PowerCallSucceeds, PowerCallFails, WriteFrame, WriteFails, WaitSucceeds, WaitFails,
     Return, EchoFrame, DiscardConnection, StopListener, Consume, Tick,
     linkVars, controlVars, callerVars, serverVars

\* ServeFrame leaves the token as the control it applied says.
LEMMA ServedMatches ==
  ASSUME ChannelTypeOK, TokenIsDated, ServeFrame
  PROVE  /\ Head(toServer).control = "Required" => deadline' = 0
         /\ Head(toServer).control = "Handled" => deadline' # 0
  <1>1. Head(toServer) \in Frames
    BY DEF ServeFrame, ChannelTypeOK
  <1>2. Head(toServer).control = "Handled" => deadline' # 0
    BY LifetimeAssumption DEF ServeFrame, ApplyControl, ChannelTypeOK, TokenIsDated
  <1>. QED BY <1>2 DEF ServeFrame, ApplyControl

\* A frame that was applied as the newest request stays in force: the next one
\* the listener can read is newer still.
LEMMA NewestStep ==
  ASSUME ChannelInv, [Next]_vars
  PROVE  NewestIsInForce'
  <1>. SUFFICES ASSUME link' # "clientClosed", NEW f \in Applied', f.id + 1 = nextRequestId'
                PROVE  Matches(f.control)'
    BY DEF NewestIsInForce
  <1>types. ChannelTypeOK /\ ConnectionAgrees /\ FramesAreOrdered /\ TokenIsDated
    BY DEF ChannelInv
  <1>order. FramesAreOrdered' /\ ChannelTypeOK'
    BY <1>types, OrderStep, ChannelTypeStep
  <1>1. CASE ServeFrame
    <2>1. toServer # <<>> /\ f \in Applied \cup {Head(toServer)}
      BY <1>1, <1>types, AppliedStep
    <2>2. UNCHANGED <<nextRequestId, link>>
      BY <1>1 DEF ServeFrame, controlVars
    <2>3. 1 \in DOMAIN toServer /\ Head(toServer) = toServer[1]
      BY <2>1, <1>types DEF ChannelTypeOK
    <2>4. f \in Applied => f.id < toServer[1].id /\ toServer[1].id < nextRequestId
      BY <1>types, <2>2, <2>3 DEF FramesAreOrdered
    <2>5. toServer[1].id \in Nat /\ nextRequestId \in Nat
      BY <1>types, <2>3, FrameIds
    <2>6. f \in Applied => f.id \in Nat
      BY <1>types, FrameIds
    <2>7. f = Head(toServer)
      BY <2>1, <2>2, <2>4, <2>5, <2>6
    <2>. QED BY <1>1, <2>7, <1>types, ServedMatches DEF Matches
  <1>2. CASE ~ServeFrame
    <2>1. f \in Applied
      BY <1>2, <1>types, AppliedStep
    <2>2. ~AgentDies /\ link # "clientClosed" /\ nextRequestId' >= nextRequestId
      BY <1>types, <1>2, IdStep
    <2>3. f.id < nextRequestId
      BY <1>types, <2>1, <2>2 DEF FramesAreOrdered
    <2>4. f.id \in Nat
      BY <1>types, <2>1, FrameIds
    <2>5. f.id + 1 = nextRequestId
      BY <2>2, <2>3, <2>4, <1>types, <1>order, SMTT(30) DEF ChannelTypeOK
    <2>6. Matches(f.control)
      BY <2>1, <2>2, <2>5 DEF ChannelInv, NewestIsInForce
    <2>. QED BY <1>2, <2>6, TokenStep DEF Matches
  <1>. QED BY <1>1, <1>2

\* The UI starts to know only from the acknowledgement of its newest request,
\* and then no frame is left that could overtake it.
LEMMA KnownStep ==
  ASSUME ChannelInv, [Next]_vars
  PROVE  KnownIsSettled'
  <1>. SUFFICES ASSUME known' # "Unknown"
                PROVE  toServer' = <<>> /\ Matches(known)'
    BY DEF KnownIsSettled
  <1>. USE DEF linkVars, controlVars, callerVars, serverVars
  <1>types. ChannelTypeOK /\ ConnectionAgrees /\ FramesAreOrdered /\ TokenIsDated
    BY DEF ChannelInv
  <1>1. CASE WaitSucceeds
    <2>1. /\ caller # "idle" /\ lastAck = request /\ known' = request.control
          /\ UNCHANGED <<toServer, deadline, decision>>
      BY <1>1 DEF WaitSucceeds, Acknowledged, Return
    <2>2. /\ link # "clientClosed" /\ request \in Frames /\ request.id + 1 = nextRequestId
      BY <2>1, <1>types DEF ConnectionAgrees
    <2>3. request \in Applied /\ request.id \in Nat
      BY <2>1, <2>2 DEF Applied, Frames, NoFrame
    <2>4. \A i \in DOMAIN toServer : request.id < toServer[i].id /\ toServer[i].id < nextRequestId
      BY <1>types, <2>2, <2>3 DEF FramesAreOrdered
    <2>5. \A i \in DOMAIN toServer : toServer[i].id \in Nat
      BY <1>types, FrameIds
    <2>6. DOMAIN toServer = {}
      BY <2>2, <2>3, <2>4, <2>5, <1>types DEF ChannelTypeOK
    <2>7. toServer = <<>>
      BY <2>6, <1>types DEF ChannelTypeOK
    <2>8. Matches(request.control)
      BY <2>2, <2>3 DEF ChannelInv, NewestIsInForce
    <2>. QED BY <2>1, <2>7, <2>8 DEF Matches
  <1>2. CASE ~WaitSucceeds
    <2>1. known' \in {known, "Unknown"}
      BY <1>2 DEF Next, vars, Connect, PublishPipe, ReceiveAck, NoticeDisconnect, AgentDies, AgentStops,
         BeginControl, MarkHandled, PowerCallSucceeds, PowerCallFails, WriteFrame, WriteFails, WaitFails,
         Return, ServeFrame, EchoFrame, DiscardConnection, StopListener, Consume, Tick
    <2>2. known # "Unknown" /\ toServer = <<>> /\ Matches(known) /\ known' = known
      BY <2>1 DEF ChannelInv, KnownIsSettled
    <2>3. ~ServeFrame /\ ~WriteFrame
      BY <2>2, <1>types DEF ServeFrame, WriteFrame, ConnectionAgrees
    <2>. QED BY <2>2, <2>3, <1>types, QueueStep, TokenStep DEF Matches
  <1>. QED BY <1>1, <1>2

\* No frame exists when the service starts, and it has no token.
LEMMA ChannelInvInit == Init => ChannelInv
  <1>. SUFFICES ASSUME Init PROVE ChannelInv
    OBVIOUS
  <1>1. Applied = {} /\ toServer = <<>> /\ DOMAIN toServer = {}
    BY DEF Init, Applied
  <1>2. <<>> \in Seq(Frames)
    OBVIOUS
  <1>3. ChannelTypeOK
    <2>1. toServer \in Seq(Frames) /\ toAgent \in Seq(Frames)
      BY <1>2 DEF Init
    <2>2. nextRequestId \in Nat \ {0} /\ known \in Controls \cup {"Unknown"}
      BY DEF Init, Controls
    <2>. QED BY <2>1, <2>2 DEF Init, ChannelTypeOK
  <1>. QED
    BY <1>1, <1>3 DEF Init, ChannelInv, TokenIsDated, ConnectionAgrees, FramesAreOrdered,
       NewestIsInForce, KnownIsSettled, Matches

\* Every step keeps the channel's invariant.
LEMMA ChannelInvStep == ChannelInv /\ [Next]_vars => ChannelInv'
  BY ChannelTypeStep, DatedStep, ConnectionStep, OrderStep, NewestStep, KnownStep DEF ChannelInv

-----------------------------------------------------------------------------
(***************************************************************************)
(* The theorems                                                            *)
(***************************************************************************)

\* The inductive invariant holds of every behaviour of the channel.
THEOREM ChannelInvariant == Safety => []ChannelInv
  BY ChannelInvInit, ChannelInvStep, PTL DEF Safety

\* What sendControl was acknowledged is what the service does: an acknowledged
\* Required leaves no token, an acknowledged Handled leaves one.
THEOREM KnowledgeStaysTrue == Safety => []KnowledgeIsTrue
  <1>1. ChannelInv => KnowledgeIsTrue
    BY DEF ChannelInv, KnownIsSettled, Matches, KnowledgeIsTrue
  <1>. QED BY <1>1, ChannelInvariant, PTL

\* consumePreshutdownCommitHandled accepts a token only within the lifetime of
\* the control that armed it.
THEOREM SkipStaysRecent == Safety => SkipIsRecent
  <1>1. ChannelInv /\ [Next]_vars
          => [decision = "none" /\ decision' = "skip" => now <= armedAt + Lifetime]_vars
    <2>. SUFFICES ASSUME ChannelInv, [Next]_vars, decision = "none", decision' = "skip"
                  PROVE  now <= armedAt + Lifetime
      OBVIOUS
    <2>1. Consume
      BY DEF Next, vars, Connect, PublishPipe, ReceiveAck, NoticeDisconnect, AgentDies, AgentStops,
         MarkHandled, PowerCallSucceeds, PowerCallFails, WriteFrame, WriteFails, WaitSucceeds,
         WaitFails, Return, ServeFrame, EchoFrame, DiscardConnection, StopListener, Tick,
         linkVars, controlVars, callerVars, serverVars
    <2>. QED BY <2>1 DEF Consume, ChannelInv, TokenIsDated
  <1>. QED BY <1>1, ChannelInvariant, PTL DEF Safety, SkipIsRecent

\* The channel implements the abstract token: whatever happens to connections,
\* processes and acknowledgements, the service never skips its commit after it
\* acknowledged that the commit is required, and it decides once.
THEOREM ChannelImplementsToken == Safety => ImplementsToken
  <1>1. Init => Token!TokenInit
    BY DEF Init, Token!TokenInit
  <1>2. ChannelInv /\ [Next]_vars => [Token!TokenNext]_(Token!tokenVars)
    <2>. SUFFICES ASSUME ChannelInv, [Next]_vars
                  PROVE  Token!TokenNext \/ UNCHANGED <<known, decision>>
      BY DEF Token!tokenVars
    <2>. USE DEF linkVars, controlVars, callerVars, serverVars
    <2>1. CASE Consume
      <3>1. known = "Required" => deadline = 0
        BY <2>1 DEF Consume, ChannelInv, KnownIsSettled, Matches
      <3>. QED BY <2>1, <3>1 DEF Consume, Token!TokenNext, Token!Decide
    <2>2. CASE WaitSucceeds
      <3>1. known = "Unknown" /\ request \in Frames
        BY <2>2 DEF WaitSucceeds, ChannelInv, ConnectionAgrees
      <3>2. known' \in {"Required", "Handled"} /\ UNCHANGED decision
        BY <2>2, <3>1 DEF WaitSucceeds, Return, Frames, Controls
      <3>. QED BY <3>1, <3>2 DEF Token!TokenNext, Token!Acknowledge
    <2>3. CASE MarkHandled \/ PowerCallFails
      BY <2>3 DEF MarkHandled, PowerCallFails, BeginControl, Token!TokenNext, Token!Ask
    <2>4. CASE UNCHANGED <<known, decision>>
      BY <2>4
    <2>. QED
      BY <2>1, <2>2, <2>3, <2>4 DEF Next, vars, Connect, PublishPipe, ReceiveAck, NoticeDisconnect,
         AgentDies, AgentStops, PowerCallSucceeds, WriteFrame, WriteFails, WaitFails, Return,
         ServeFrame, EchoFrame, DiscardConnection, StopListener, Tick
  <1>. QED BY <1>1, <1>2, ChannelInvariant, PTL DEF Safety, ImplementsToken, Token!TokenSpec
=============================================================================
