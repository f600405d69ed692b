------------------------- MODULE PreshutdownChannel -------------------------
(***************************************************************************)
(* The identity pipe between the UI's agent thread (EnhancedModeAgent) and *)
(* the service's listener thread (acceptAgents), with the only message it  *)
(* carries: the one-shot token that lets the service skip its PRESHUTDOWN  *)
(* commit because the UI has just saved the staged files.  The UI thread   *)
(* sends a control and waits for its echo (sendControl) inside             *)
(* invokePowerAction; connections break, acknowledgements are late or      *)
(* lost, the UI process dies, and the service stops at any time.           *)
(***************************************************************************)
EXTENDS Naturals, Sequences

CONSTANTS
  Lifetime,     \* kPreshutdownSkipLifetime, in ticks
  MaxTime,      \* bound on the clock
  MaxRequests,  \* bound on the controls one UI process sends
  MaxGeneration,\* bound on the generations of one UI process (two per connection)
  MaxLives      \* bound on the UI processes

ASSUME LifetimeAssumption == Lifetime \in Nat
ASSUME BoundsAssumption == {MaxTime, MaxRequests, MaxGeneration, MaxLives} \subseteq Nat

VARIABLES
  link,          \* the pipe: both ends open, one end closed, or none
  toServer,      \* frames in the pipe, client to server
  toAgent,       \* frames in the pipe, server to client
  pipe,          \* m_control->pipe is published
  generation,    \* m_control->generation
  nextRequestId, \* m_control->nextRequestId
  lastAck,       \* m_control->lastAcknowledgement, or NoFrame
  caller,        \* where sendControl stands
  request,       \* its request
  requestGen,    \* the generation it started in
  flow,          \* where invokePowerAction stands
  server,        \* the listener thread
  frame,         \* the frame it has applied and not yet echoed
  deadline,      \* m_preshutdownSkipDeadline, 0 if none
  lives,         \* UI processes started so far
  now,           \* steady_clock
  known,         \* (history) what the UI may conclude about the token
  armedAt,       \* (history) when the service last applied Handled
  decision       \* what runPreshutdownCommit did

linkVars == <<link, toServer, toAgent>>
controlVars == <<pipe, generation, nextRequestId, lastAck>>
callerVars == <<caller, request, requestGen, flow, lives>>
serverVars == <<server, frame, deadline, decision, armedAt>>
vars == <<linkVars, controlVars, callerVars, serverVars, now, known>>

Controls == {"Handled", "Required"}
NoFrame == [control |-> "none", id |-> 0]
Frames == [control : Controls, id : Nat \ {0}]

ChannelTypeOK ==
  /\ link \in {"down", "up", "clientClosed", "serverClosed"}
  /\ toServer \in Seq(Frames) /\ toAgent \in Seq(Frames)
  /\ pipe \in BOOLEAN
  /\ generation \in Nat /\ requestGen \in Nat /\ nextRequestId \in Nat \ {0}
  /\ lastAck \in Frames \cup {NoFrame}
  /\ request \in Frames \cup {NoFrame}
  /\ frame \in Frames \cup {NoFrame}
  /\ caller \in {"idle", "writing", "waiting"}
  /\ flow \in {"idle", "marking", "calling", "revoking"}
  /\ server \in {"listening", "serving", "echoing", "stopped"}
  /\ deadline \in Nat /\ now \in Nat /\ armedAt \in Nat /\ lives \in Nat
  /\ known \in Controls \cup {"Unknown"}
  /\ decision \in {"none", "skip", "commit"}

Init ==
  /\ link = "down" /\ toServer = <<>> /\ toAgent = <<>>
  /\ pipe = FALSE /\ generation = 0 /\ nextRequestId = 1 /\ lastAck = NoFrame
  /\ caller = "idle" /\ request = NoFrame /\ requestGen = 0 /\ flow = "idle"
  /\ lives = 1
  /\ server = "listening" /\ frame = NoFrame
  /\ deadline = 0 /\ decision = "none" /\ armedAt = 0
  /\ now = 1
  /\ known = "Required"

-----------------------------------------------------------------------------
(***************************************************************************)
(* The connection.                                                         *)
(***************************************************************************)

\* The agent opens the listening instance; the service authenticates it, writes
\* the handshake and publishes the connection.
Connect ==
  /\ link = "down" /\ ~pipe /\ server = "listening"
  /\ link' = "up"
  /\ server' = "serving"
  /\ UNCHANGED <<toServer, toAgent, controlVars, callerVars, frame, deadline, decision,
                 armedAt, now, known>>

\* The agent has read the handshake and publishes the pipe.
PublishPipe ==
  /\ link = "up" /\ ~pipe /\ generation < MaxGeneration
  /\ pipe' = TRUE
  /\ lastAck' = NoFrame
  /\ generation' = generation + 1
  /\ UNCHANGED <<linkVars, nextRequestId, callerVars, serverVars, now, known>>

\* The agent's read loop stores an acknowledgement.
ReceiveAck ==
  /\ pipe /\ toAgent # <<>>
  /\ lastAck' = Head(toAgent)
  /\ toAgent' = Tail(toAgent)
  /\ UNCHANGED <<link, toServer, pipe, generation, nextRequestId, callerVars, serverVars,
                 now, known>>

\* The agent's read fails: releasePublishedPipe, then a reconnect.
NoticeDisconnect ==
  /\ link = "serverClosed"
  /\ link' = "down" /\ toServer' = <<>> /\ toAgent' = <<>>
  /\ pipe' = FALSE
  /\ lastAck' = IF pipe THEN NoFrame ELSE lastAck
  /\ generation' = IF pipe THEN generation + 1 ELSE generation
  /\ UNCHANGED <<nextRequestId, callerVars, serverVars, now, known>>

\* The UI process ends at any point and a new one takes its place.
AgentDies ==
  /\ lives < MaxLives
  /\ lives' = lives + 1
  /\ link' = IF link = "up" THEN "clientClosed" ELSE IF link = "serverClosed" THEN "down" ELSE link
  /\ toAgent' = <<>>
  /\ pipe' = FALSE /\ generation' = 0 /\ nextRequestId' = 1 /\ lastAck' = NoFrame
  /\ caller' = "idle" /\ request' = NoFrame /\ requestGen' = 0 /\ flow' = "idle"
  /\ UNCHANGED <<toServer, serverVars, now, known>>

\* EnhancedModeAgent::stop, from the UI thread (enhanced mode is switched off or
\* the window closes), hence never during sendControl; start may follow.
AgentStops ==
  /\ flow = "idle" /\ link = "up"
  /\ link' = "clientClosed"
  /\ toAgent' = <<>>
  /\ pipe' = FALSE
  /\ lastAck' = IF pipe THEN NoFrame ELSE lastAck
  /\ generation' = IF pipe THEN generation + 1 ELSE generation
  /\ UNCHANGED <<toServer, nextRequestId, callerVars, serverVars, now, known>>

-----------------------------------------------------------------------------
(***************************************************************************)
(* sendControl on the UI thread, inside invokePowerAction.                 *)
(***************************************************************************)

\* Under stateMutex: no pipe, no request; otherwise a fresh id.
BeginControl(control) ==
  IF ~pipe
  THEN /\ flow' = IF control = "Handled" THEN "calling" ELSE "idle"
       /\ UNCHANGED <<controlVars, caller, request, requestGen, lives, known>>
  ELSE /\ request' = [control |-> control, id |-> nextRequestId]
       /\ requestGen' = generation
       /\ nextRequestId' = nextRequestId + 1
       /\ caller' = "writing"
       /\ flow' = IF control = "Handled" THEN "marking" ELSE "revoking"
       /\ known' = "Unknown"
       /\ UNCHANGED <<pipe, generation, lastAck, lives>>

\* invokePowerAction: the filter was read, the token is armed.
MarkHandled ==
  /\ flow = "idle" /\ caller = "idle" /\ nextRequestId + 1 <= MaxRequests
  /\ BeginControl("Handled")
  /\ UNCHANGED <<linkVars, serverVars, now>>

\* The power call went through: the guard is dismissed.
PowerCallSucceeds ==
  /\ flow = "calling"
  /\ flow' = "idle"
  /\ UNCHANGED <<linkVars, controlVars, caller, request, requestGen, lives, serverVars, now, known>>

\* The power call threw: the token is revoked, acknowledged or not.
PowerCallFails ==
  /\ flow = "calling"
  /\ BeginControl("Required")
  /\ UNCHANGED <<linkVars, serverVars, now>>

\* sendControl returns; the flow goes on.
Return(acknowledged) ==
  /\ caller' = "idle"
  /\ request' = NoFrame
  /\ flow' = IF flow = "marking" THEN "calling" ELSE "idle"
  /\ known' = IF acknowledged THEN request.control ELSE known
  /\ UNCHANGED <<requestGen, lives, controlVars, serverVars, now>>

\* The duplicated handle still leads to an open pipe.
PipeOpen == link = "up" /\ generation = requestGen

\* The frame enters the pipe, or the write fails because the pipe is gone.
WriteFrame ==
  /\ caller = "writing" /\ PipeOpen
  /\ toServer' = Append(toServer, request)
  /\ caller' = "waiting"
  /\ UNCHANGED <<link, toAgent, controlVars, request, requestGen, flow, lives, serverVars, now, known>>

WriteFails ==
  /\ caller = "writing" /\ ~PipeOpen
  /\ Return(FALSE)
  /\ UNCHANGED linkVars

\* Variant: any acknowledgement of this kind of control will do.
AcknowledgedByKind ==
  lastAck.control = request.control

\* The condition sendControl waits for and checks again when it wakes.
Acknowledged == generation = requestGen /\ lastAck = request

WaitSucceeds ==
  /\ caller = "waiting" /\ Acknowledged
  /\ Return(TRUE)
  /\ UNCHANGED linkVars

\* Variant: the wait has no timeout.
WaitFailsNoTimeout ==
  /\ caller = "waiting" /\ generation # requestGen
  /\ Return(FALSE)
  /\ UNCHANGED linkVars

\* The wait times out, or the connection it was made on is gone.
WaitFails ==
  /\ caller = "waiting" /\ ~Acknowledged
  /\ Return(FALSE)
  /\ UNCHANGED linkVars

-----------------------------------------------------------------------------
(***************************************************************************)
(* The service.                                                            *)
(***************************************************************************)

\* Variant: revoking only lets the token run out.
ApplyControlNoReset(control) ==
  /\ deadline' = IF control = "Handled" THEN now + Lifetime ELSE deadline
  /\ armedAt' = IF control = "Handled" THEN now ELSE armedAt

\* applyPreshutdownControl.
ApplyControl(control) ==
  /\ deadline' = IF control = "Handled" THEN now + Lifetime ELSE 0
  /\ armedAt' = IF control = "Handled" THEN now ELSE armedAt

\* The listener reads a frame and applies it ...
ServeFrame ==
  /\ server = "serving" /\ toServer # <<>>
  /\ ApplyControl(Head(toServer).control)
  /\ frame' = Head(toServer)
  /\ toServer' = Tail(toServer)
  /\ server' = "echoing"
  /\ UNCHANGED <<link, toAgent, controlVars, callerVars, decision, now, known>>

\* ... and echoes it; on a dead pipe it discards the connection instead.
EchoFrame ==
  /\ server = "echoing" /\ link = "up"
  /\ toAgent' = Append(toAgent, frame)
  /\ frame' = NoFrame
  /\ server' = "serving"
  /\ UNCHANGED <<link, toServer, controlVars, callerVars, deadline, decision, armedAt, now, known>>

\* discardConnection: the client has closed, the listener's write failed or the
\* supervisor found the session changed.  DisconnectNamedPipe drops unread data.
\* A closed client's frames are read before the end of the pipe is seen.
DiscardConnection ==
  /\ server \in {"serving", "echoing"}
  /\ link = "clientClosed" => server = "echoing" \/ toServer = <<>>
  /\ link' = IF link = "up" THEN "serverClosed" ELSE "down"
  /\ toServer' = <<>>
  /\ toAgent' = <<>>
  /\ frame' = NoFrame
  /\ server' = "listening"
  /\ UNCHANGED <<controlVars, callerVars, deadline, decision, armedAt, now, known>>

\* stopInfrastructure: every pipe operation ends with Stopped, the thread joins.
StopListener ==
  /\ server # "stopped"
  /\ server' = "stopped"
  /\ link' = IF link = "up" THEN "serverClosed" ELSE IF link = "clientClosed" THEN "down" ELSE link
  /\ toServer' = <<>>
  /\ toAgent' = <<>>
  /\ frame' = NoFrame
  /\ UNCHANGED <<controlVars, callerVars, deadline, decision, armedAt, now, known>>

\* Variant: the lifetime of the token is not looked at.
ConsumeForever ==
  /\ server = "stopped" /\ decision = "none"
  /\ decision' = IF deadline # 0 THEN "skip" ELSE "commit"
  /\ deadline' = 0
  /\ UNCHANGED <<linkVars, controlVars, callerVars, server, frame, armedAt, now, known>>

\* runPreshutdownCommit -> consumePreshutdownCommitHandled.
Consume ==
  /\ server = "stopped" /\ decision = "none"
  /\ decision' = IF deadline # 0 /\ now <= deadline THEN "skip" ELSE "commit"
  /\ deadline' = 0
  /\ UNCHANGED <<linkVars, controlVars, callerVars, server, frame, armedAt, now, known>>

Tick ==
  /\ now < MaxTime
  /\ now' = now + 1
  /\ UNCHANGED <<linkVars, controlVars, callerVars, serverVars, known>>

-----------------------------------------------------------------------------
Next ==
  \/ Connect \/ PublishPipe \/ ReceiveAck \/ NoticeDisconnect \/ AgentDies \/ AgentStops
  \/ MarkHandled \/ PowerCallSucceeds \/ PowerCallFails
  \/ WriteFrame \/ WriteFails \/ WaitSucceeds \/ WaitFails
  \/ ServeFrame \/ EchoFrame \/ DiscardConnection \/ StopListener \/ Consume
  \/ Tick

(***************************************************************************)
(* The UI thread runs: a write of one frame fits the 64 KiB pipe buffer or *)
(* fails, the wait for the echo has a timeout, the power call returns.     *)
(* Nothing is assumed of the service or of the agent thread.               *)
(***************************************************************************)
Fairness ==
  /\ WF_vars(WriteFrame \/ WriteFails)
  /\ WF_vars(WaitSucceeds \/ WaitFails)
  /\ WF_vars(PowerCallSucceeds \/ PowerCallFails)

Safety == Init /\ [][Next]_vars
Spec == Safety /\ Fairness

-----------------------------------------------------------------------------
(***************************************************************************)
(* Properties                                                              *)
(***************************************************************************)

\* What the UI was told is what the service does, as long as it has not
\* decided: after an acknowledged revocation no token exists, not even one from
\* a control that timed out earlier, and after an acknowledged Handled there is
\* one.
KnowledgeIsTrue ==
  decision = "none" =>
    /\ known = "Required" => deadline = 0
    /\ known = "Handled" => deadline # 0

\* The service skips its commit only on a token armed within the lifetime.
SkipIsRecent ==
  [][decision = "none" /\ decision' = "skip" => now <= armedAt + Lifetime]_vars

Token == INSTANCE PreshutdownToken WITH known <- known, decision <- decision

\* The channel implements the abstract token.
ImplementsToken == Token!TokenSpec

\* invokePowerAction returns to its caller: neither a lost acknowledgement nor a
\* dead service can hold the UI thread.
PowerCallReturns == flow # "idle" ~> flow = "idle"
=============================================================================
