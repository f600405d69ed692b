------------------------ MODULE EnhancedModeService ------------------------
(***************************************************************************)
(* The enhanced mode Windows service (service/EnhancedModeServiceRuntime): *)
(* the main thread, the control handler the SCM calls, the listener thread *)
(* that accepts UI agents, the supervisor thread that launches them, and   *)
(* the worker that commits the staged files at PRESHUTDOWN.  They share    *)
(* four events, the current connection and the status shown to the SCM.    *)
(* What the connection carries is the subject of PreshutdownChannel; here  *)
(* the skip token is a free choice.                                        *)
(***************************************************************************)
EXTENDS Naturals

CONSTANTS
  Sessions,        \* interactive sessions
  MaxConnections,  \* bound on the agents accepted
  MaxSwitches,     \* bound on the changes of the active session
  MaxCheckpoint    \* bound on the heartbeats of the commit

ASSUME SessionsAssumption == Sessions # {}
ASSUME ServiceBounds == {MaxConnections, MaxSwitches, MaxCheckpoint} \subseteq Nat

VARIABLES
  main,               \* the main thread
  path,               \* why it stops
  handler,            \* the SCM's control dispatcher inside handleControl
  stopEvent, preshutdownEvent, neededEvent, connectedEvent,
  preshutdownStarted, \* m_preshutdownStarted
  status,             \* m_status: state and checkpoint
  published,          \* the status the SCM has
  checkpoint,         \* m_checkpoint
  exitCode,           \* m_stopExitCode
  reportedExit,       \* the exit code of the STOPPED report
  listener,           \* the listener thread
  client,             \* session of the client it has authenticated
  served,             \* id of the connection it serves
  connection,         \* m_connection
  alive,              \* its process runs and its pipe is open
  accepted,           \* connections published so far
  supervisor,         \* the supervisor thread
  snapshot,           \* the connection it looks at
  delayBeforeLaunch,
  launchedSession,
  supervisorStop, listenerStop,   \* the threads' stop tokens
  commit,             \* the staged commit at PRESHUTDOWN
  heartbeat,          \* heartbeatAvailable
  activeSession, notice, switches \* the desktop: active session, undelivered change

mainVars == <<main, path, reportedExit>>
eventVars == <<stopEvent, preshutdownEvent, neededEvent, connectedEvent>>
statusVars == <<status, published, checkpoint>>
handlerVars == <<handler, preshutdownStarted>>
listenerVars == <<listener, client, served>>
connectionVars == <<connection, alive, accepted>>
supervisorVars == <<supervisor, snapshot, delayBeforeLaunch, launchedSession>>
stopVars == <<supervisorStop, listenerStop>>
commitVars == <<commit, heartbeat>>
desktopVars == <<activeSession, notice, switches>>
vars == <<mainVars, eventVars, statusVars, handlerVars, exitCode, listenerVars, connectionVars,
          supervisorVars, stopVars, commitVars, desktopVars>>

NoSession == "no session"
NoConnection == [id |-> 0, session |-> NoSession]
Connections == [id : 1..MaxConnections, session : Sessions]
States == {"START_PENDING", "RUNNING", "STOP_PENDING", "STOPPED"}
Statuses == [state : States, checkpoint : Nat]

FlagsTypeOK ==
  /\ stopEvent \in BOOLEAN /\ preshutdownEvent \in BOOLEAN /\ preshutdownStarted \in BOOLEAN
  /\ neededEvent \in BOOLEAN /\ connectedEvent \in BOOLEAN /\ notice \in BOOLEAN
  /\ alive \in BOOLEAN /\ delayBeforeLaunch \in BOOLEAN /\ heartbeat \in BOOLEAN
  /\ supervisorStop \in BOOLEAN /\ listenerStop \in BOOLEAN

ServiceTypeOK ==
  /\ main \in {"starting", "started", "waiting", "joinSupervisor", "joinListener", "consume",
               "committing", "reporting", "stopped"}
  /\ path \in {"none", "stop", "preshutdown", "failed"}
  /\ reportedExit \in {"none", "ok", "failure"} /\ exitCode \in {"none", "failure"}
  /\ handler \in {"idle", "stopReport", "stopSet", "preReport", "preSet"}
  /\ FlagsTypeOK
  /\ status \in Statuses /\ published \in Statuses /\ checkpoint \in Nat
  /\ listener \in {"none", "listening", "authenticated", "serving", "ended"}
  /\ client \in Sessions \cup {NoSession} /\ served \in 0..MaxConnections
  /\ connection \in Connections \cup {NoConnection} /\ accepted \in 0..MaxConnections
  /\ supervisor \in {"none", "checking", "judging", "waiting", "delaying", "launching",
                     "observeChecking", "observeJudging", "observing", "ended"}
  /\ snapshot \in Connections \cup {NoConnection}
  /\ launchedSession \in Sessions \cup {NoSession}
  /\ commit \in {"none", "skip", "running", "ended"}
  /\ activeSession \in Sessions /\ switches \in 0..MaxSwitches

\* After RegisterServiceCtrlHandlerEx and the first report.
Init ==
  /\ main = "starting" /\ path = "none" /\ reportedExit = "none" /\ exitCode = "none"
  /\ stopEvent = FALSE /\ preshutdownEvent = FALSE /\ neededEvent = FALSE /\ connectedEvent = FALSE
  /\ handler = "idle" /\ preshutdownStarted = FALSE
  /\ status = [state |-> "START_PENDING", checkpoint |-> 1]
  /\ published = status /\ checkpoint = 1
  /\ listener = "none" /\ client = NoSession /\ served = 0
  /\ connection = NoConnection /\ alive = FALSE /\ accepted = 0
  /\ supervisor = "none" /\ snapshot = NoConnection /\ delayBeforeLaunch = FALSE
  /\ launchedSession = NoSession
  /\ supervisorStop = FALSE /\ listenerStop = FALSE
  /\ commit = "none" /\ heartbeat = TRUE
  /\ activeSession = (CHOOSE s \in Sessions : TRUE) /\ notice = FALSE /\ switches = 0

-----------------------------------------------------------------------------
(***************************************************************************)
(* serviceMain                                                             *)
(***************************************************************************)

\* report(): m_status is assigned first, SetServiceStatus may then fail.
Report(state, point, ok) ==
  /\ status' = [state |-> state, checkpoint |-> point]
  /\ published' = IF ok THEN status' ELSE published

\* Both threads are started and the first agent is asked for.
StartThreads ==
  /\ main = "starting"
  /\ main' = "started"
  /\ listener' = "listening"
  /\ supervisor' = "checking"
  /\ neededEvent' = TRUE
  /\ UNCHANGED <<path, reportedExit, stopEvent, preshutdownEvent, connectedEvent, statusVars,
                 handlerVars, exitCode, client, served, connectionVars, snapshot,
                 delayBeforeLaunch, launchedSession, stopVars, commitVars, desktopVars>>

\* An event or a thread cannot be created; no thread runs.
StartFails ==
  /\ main = "starting"
  /\ main' = "reporting"
  /\ path' = "failed"
  /\ UNCHANGED <<reportedExit, eventVars, statusVars, handlerVars, exitCode, listenerVars,
                 connectionVars, supervisorVars, stopVars, commitVars, desktopVars>>

\* Variant: stopInfrastructure relies on the stop tokens of the threads alone.
StopInfrastructureNoEvent(why) ==
  /\ path' = why
  /\ main' = "joinSupervisor"
  /\ supervisorStop' = TRUE
  /\ UNCHANGED stopEvent

\* stopInfrastructure: stop token and stop event of the supervisor, then its join.
StopInfrastructure(why) ==
  /\ path' = why
  /\ main' = "joinSupervisor"
  /\ supervisorStop' = TRUE
  /\ stopEvent' = TRUE

ReportRunning ==
  /\ main = "started"
  /\ \/ /\ Report("RUNNING", 0, TRUE)
        /\ main' = "waiting"
        /\ UNCHANGED <<path, stopEvent, supervisorStop>>
     \/ /\ Report("RUNNING", 0, FALSE)
        /\ StopInfrastructure("failed")
  /\ UNCHANGED <<reportedExit, checkpoint, preshutdownEvent, neededEvent, connectedEvent,
                 handlerVars, exitCode, listenerVars, connectionVars, supervisorVars,
                 listenerStop, commitVars, desktopVars>>

\* WaitForMultipleObjects: the stop event has the lower index and wins.  (A wait
\* that fails leaves by the same way as a RUNNING report that fails.)
WaitEnds ==
  /\ main = "waiting"
  /\ \/ stopEvent /\ StopInfrastructure("stop")
     \/ ~stopEvent /\ preshutdownEvent /\ StopInfrastructure("preshutdown")
  /\ UNCHANGED <<reportedExit, statusVars, preshutdownEvent, neededEvent, connectedEvent,
                 handlerVars, exitCode, listenerVars, connectionVars, supervisorVars,
                 listenerStop, commitVars, desktopVars>>

JoinSupervisor ==
  /\ main = "joinSupervisor" /\ supervisor = "ended"
  /\ main' = "joinListener"
  /\ listenerStop' = TRUE
  /\ UNCHANGED <<path, reportedExit, eventVars, statusVars, handlerVars, exitCode, listenerVars,
                 connectionVars, supervisorVars, supervisorStop, commitVars, desktopVars>>

\* Variant: the listener is told to stop but not waited for.
JoinListenerDetached ==
  /\ main = "joinListener"
  /\ main' = IF path = "preshutdown" THEN "consume" ELSE "reporting"
  /\ UNCHANGED <<path, reportedExit, eventVars, statusVars, handlerVars, exitCode, listenerVars,
                 connectionVars, supervisorVars, stopVars, commitVars, desktopVars>>

JoinListener ==
  /\ main = "joinListener" /\ listener = "ended"
  /\ main' = IF path = "preshutdown" THEN "consume" ELSE "reporting"
  /\ UNCHANGED <<path, reportedExit, eventVars, statusVars, handlerVars, exitCode, listenerVars,
                 connectionVars, supervisorVars, stopVars, commitVars, desktopVars>>

\* runPreshutdownCommit: a valid token skips the commit, otherwise the worker starts.
RunPreshutdownCommit ==
  /\ main = "consume"
  /\ \/ commit' = "skip" /\ main' = "reporting"
     \/ commit' = "running" /\ main' = "committing"
  /\ UNCHANGED <<path, reportedExit, eventVars, statusVars, handlerVars, exitCode, listenerVars,
                 connectionVars, supervisorVars, stopVars, heartbeat, desktopVars>>

\* Variant: the heartbeat repeats the checkpoint of the STOP control.
HeartbeatConstant ==
  /\ main = "committing" /\ heartbeat /\ checkpoint < MaxCheckpoint
  /\ checkpoint' = checkpoint + 1
  /\ Report("STOP_PENDING", 1, TRUE)
  /\ UNCHANGED <<mainVars, eventVars, handlerVars, exitCode, listenerVars, connectionVars,
                 supervisorVars, stopVars, commitVars, desktopVars>>

\* reportRealProgress; one failure ends the heartbeats, not the commit.
Heartbeat ==
  /\ main = "committing" /\ heartbeat /\ checkpoint < MaxCheckpoint
  /\ checkpoint' = checkpoint + 1
  /\ \E ok \in BOOLEAN :
       /\ Report("STOP_PENDING", checkpoint', ok)
       /\ heartbeat' = ok
  /\ UNCHANGED <<mainVars, eventVars, handlerVars, exitCode, listenerVars, connectionVars,
                 supervisorVars, stopVars, commit, desktopVars>>

\* commitStagedFiles returns or throws; both end the worker.
CommitEnds ==
  /\ commit = "running"
  /\ commit' = "ended"
  /\ UNCHANGED <<mainVars, eventVars, statusVars, handlerVars, exitCode, listenerVars,
                 connectionVars, supervisorVars, stopVars, heartbeat, desktopVars>>

CommitJoined ==
  /\ main = "committing" /\ commit = "ended"
  /\ main' = "reporting"
  /\ UNCHANGED <<path, reportedExit, eventVars, statusVars, handlerVars, exitCode, listenerVars,
                 connectionVars, supervisorVars, stopVars, commitVars, desktopVars>>

\* reportStopped, from serviceMain or, after an exception, from its thunk.
ReportStopped ==
  /\ main = "reporting"
  /\ main' = "stopped"
  /\ reportedExit' = IF path = "failed" \/ exitCode = "failure" THEN "failure" ELSE "ok"
  /\ Report("STOPPED", 0, TRUE)
  /\ UNCHANGED <<path, checkpoint, eventVars, handlerVars, exitCode, listenerVars,
                 connectionVars, supervisorVars, stopVars, commitVars, desktopVars>>

-----------------------------------------------------------------------------
(***************************************************************************)
(* handleControl.  The SCM calls it for one control at a time and, for     *)
(* everything but INTERROGATE, only while the service accepts controls.    *)
(***************************************************************************)
Accepting == handler = "idle" /\ published.state = "RUNNING"

HandleStop ==
  /\ Accepting
  /\ handler' = IF preshutdownStarted THEN "idle" ELSE "stopReport"
  /\ UNCHANGED <<mainVars, eventVars, statusVars, preshutdownStarted, exitCode, listenerVars,
                 connectionVars, supervisorVars, stopVars, commitVars, desktopVars>>

HandlePreshutdown ==
  /\ Accepting /\ checkpoint < MaxCheckpoint
  /\ handler' = IF preshutdownStarted THEN "idle" ELSE "preReport"
  /\ preshutdownStarted' = TRUE
  /\ UNCHANGED <<mainVars, eventVars, statusVars, exitCode, listenerVars, connectionVars,
                 supervisorVars, stopVars, commitVars, desktopVars>>

\* A report that throws leaves the event alone; PRESHUTDOWN is given back.
HandlerReports ==
  /\ handler \in {"stopReport", "preReport"}
  /\ checkpoint' = IF handler = "preReport" THEN checkpoint + 1 ELSE checkpoint
  /\ \E ok \in BOOLEAN :
       /\ Report("STOP_PENDING", IF handler = "preReport" THEN checkpoint' ELSE 1, ok)
       /\ handler' = IF ~ok THEN "idle" ELSE IF handler = "preReport" THEN "preSet" ELSE "stopSet"
       /\ preshutdownStarted' = (preshutdownStarted /\ (ok \/ handler # "preReport"))
  /\ UNCHANGED <<mainVars, eventVars, exitCode, listenerVars, connectionVars, supervisorVars,
                 stopVars, commitVars, desktopVars>>

HandlerSetsEvent ==
  /\ handler \in {"stopSet", "preSet"}
  /\ stopEvent' = (stopEvent \/ handler = "stopSet")
  /\ preshutdownEvent' = (preshutdownEvent \/ handler = "preSet")
  /\ handler' = "idle"
  /\ UNCHANGED <<mainVars, neededEvent, connectedEvent, statusVars, preshutdownStarted, exitCode,
                 listenerVars, connectionVars, supervisorVars, stopVars, commitVars, desktopVars>>

\* Variant: the session change only matters while no agent is connected.
HandleSessionChangeIfAbsent ==
  /\ Accepting /\ notice
  /\ notice' = FALSE
  /\ neededEvent' = (neededEvent \/ connection = NoConnection)
  /\ UNCHANGED <<mainVars, stopEvent, preshutdownEvent, connectedEvent, statusVars, handlerVars,
                 exitCode, listenerVars, connectionVars, supervisorVars, stopVars, commitVars,
                 activeSession, switches>>

HandleSessionChange ==
  /\ Accepting /\ notice
  /\ notice' = FALSE
  /\ neededEvent' = TRUE
  /\ UNCHANGED <<mainVars, stopEvent, preshutdownEvent, connectedEvent, statusVars, handlerVars,
                 exitCode, listenerVars, connectionVars, supervisorVars, stopVars, commitVars,
                 activeSession, switches>>

HandleInterrogate ==
  /\ handler = "idle" /\ main # "stopped"
  /\ published' = status
  /\ UNCHANGED <<mainVars, eventVars, status, checkpoint, handlerVars, exitCode, listenerVars,
                 connectionVars, supervisorVars, stopVars, commitVars, desktopVars>>

-----------------------------------------------------------------------------
(***************************************************************************)
(* acceptAgents                                                            *)
(***************************************************************************)

\* A UI process connects and is authenticated: it must be of the active session.
Authenticate(session) ==
  /\ listener = "listening" /\ ~stopEvent /\ accepted < MaxConnections
  /\ session = activeSession
  /\ listener' = "authenticated"
  /\ client' = session
  /\ UNCHANGED <<mainVars, eventVars, statusVars, handlerVars, exitCode, served, connectionVars,
                 supervisorVars, stopVars, commitVars, desktopVars>>

\* The handshake is written and the connection published.
PublishConnection ==
  /\ listener = "authenticated"
  /\ accepted' = accepted + 1
  /\ connection' = [id |-> accepted', session |-> client]
  /\ served' = accepted'
  /\ alive' = TRUE
  /\ connectedEvent' = TRUE
  /\ listener' = "serving"
  /\ client' = NoSession
  /\ UNCHANGED <<mainVars, stopEvent, preshutdownEvent, neededEvent, statusVars, handlerVars,
                 exitCode, supervisorVars, stopVars, commitVars, desktopVars>>

\* Variant: whatever connection is current is dropped.
DiscardAny(id) ==
  /\ connection' = NoConnection
  /\ connectedEvent' = FALSE
  /\ alive' = FALSE

\* Variant: the event stays signalled.
DiscardKeepsEvent(id) ==
  /\ IF connection.id = id THEN connection' = NoConnection /\ alive' = FALSE
     ELSE UNCHANGED <<connection, alive>>
  /\ UNCHANGED connectedEvent

\* discardConnection: only the connection it was called for.
Discard(id) ==
  IF connection.id = id
  THEN connection' = NoConnection /\ connectedEvent' = FALSE /\ alive' = FALSE
  ELSE UNCHANGED <<connection, connectedEvent, alive>>

\* A pipe operation fails because the agent is gone or the supervisor cut it off.
ListenerDisconnected ==
  /\ ~stopEvent
  /\ \/ /\ listener = "serving" /\ (~alive \/ connection.id # served)
        /\ Discard(served)
     \/ /\ listener = "authenticated"
        /\ UNCHANGED <<connection, connectedEvent, alive>>
  /\ listener' = "listening"
  /\ client' = NoSession /\ served' = 0
  /\ UNCHANGED <<mainVars, stopEvent, preshutdownEvent, neededEvent, statusVars, handlerVars,
                 exitCode, accepted, supervisorVars, stopVars, commitVars, desktopVars>>

\* Every pipe operation watches the stop event.
ListenerStops ==
  /\ listener \in {"listening", "authenticated", "serving"} /\ stopEvent
  /\ IF listener = "serving" THEN Discard(served) ELSE UNCHANGED <<connection, connectedEvent, alive>>
  /\ listener' = "ended"
  /\ client' = NoSession /\ served' = 0
  /\ UNCHANGED <<mainVars, stopEvent, preshutdownEvent, neededEvent, statusVars, handlerVars,
                 exitCode, accepted, supervisorVars, stopVars, commitVars,
                 desktopVars>>

\* Variant: the failure stops the service but is not recorded.
StopForInfrastructureFailureQuietly ==
  /\ stopEvent' = TRUE
  /\ UNCHANGED exitCode

\* stopForInfrastructureFailure.
StopForInfrastructureFailure ==
  /\ exitCode' = "failure"
  /\ stopEvent' = TRUE

\* The pipe cannot be created, or a pipe operation fails in an unknown way.
ListenerFails ==
  /\ listener \in {"listening", "authenticated", "serving"}
  /\ StopForInfrastructureFailure
  /\ listener' = "ended"
  /\ client' = NoSession /\ served' = 0
  /\ UNCHANGED <<mainVars, preshutdownEvent, neededEvent, connectedEvent, statusVars, handlerVars,
                 connectionVars, supervisorVars, stopVars, commitVars, desktopVars>>

-----------------------------------------------------------------------------
(***************************************************************************)
(* superviseAgent.  A wait returns the lowest signalled index.             *)
(***************************************************************************)

\* What most steps of the supervisor leave alone.
SupervisorOnly ==
  UNCHANGED <<mainVars, stopEvent, preshutdownEvent, statusVars, handlerVars, exitCode,
              listenerVars, accepted, stopVars, commitVars, desktopVars>>

\* The head of the loop and the first half of retainHealthyAgent.
Check ==
  /\ supervisor \in {"checking", "observeChecking"}
  /\ snapshot' = connection
  /\ supervisor' = CASE supervisor = "checking" /\ supervisorStop -> "ended"
                     [] supervisor = "checking" /\ ~supervisorStop -> "judging"
                     [] OTHER -> "observeJudging"
  /\ UNCHANGED <<neededEvent, connectedEvent, connection, alive, delayBeforeLaunch, launchedSession>>
  /\ SupervisorOnly

\* A connection that was replaced has a closed pipe.
Healthy ==
  /\ snapshot # NoConnection /\ connection.id = snapshot.id
  /\ alive /\ snapshot.session = activeSession

\* The second half: keep it, or discard it and go on without an agent.
Judge ==
  /\ supervisor \in {"judging", "observeJudging"}
  /\ IF Healthy \/ snapshot = NoConnection THEN UNCHANGED <<connection, connectedEvent, alive>>
     ELSE Discard(snapshot.id)
  /\ supervisor' = CASE supervisor = "judging" /\ Healthy -> "waiting"
                     [] supervisor = "judging" /\ ~Healthy ->
                          IF delayBeforeLaunch THEN "delaying" ELSE "launching"
                     [] supervisor = "observeJudging" /\ Healthy -> "checking"
                     [] OTHER -> "observing"
  /\ delayBeforeLaunch' = (delayBeforeLaunch /\ ~Healthy)
  /\ snapshot' = NoConnection
  /\ launchedSession' = IF supervisor' = "observing" THEN launchedSession ELSE NoSession
  /\ UNCHANGED neededEvent
  /\ SupervisorOnly

\* Waits for a new session (waiting), for the retry delay (delaying) or for the
\* launched process (observing).
SupervisorStops ==
  /\ supervisor \in {"waiting", "delaying", "observing"} /\ stopEvent
  /\ supervisor' = "ended"
  /\ UNCHANGED <<neededEvent, connectedEvent, connection, alive, snapshot, delayBeforeLaunch,
                 launchedSession>>
  /\ SupervisorOnly

AgentNeeded ==
  /\ supervisor \in {"waiting", "delaying", "observing"} /\ ~stopEvent /\ neededEvent
  /\ neededEvent' = FALSE
  /\ supervisor' = IF supervisor = "observing" /\ activeSession = launchedSession
                   THEN "observeChecking" ELSE "checking"
  /\ delayBeforeLaunch' = (delayBeforeLaunch /\ supervisor' = "observeChecking")
  /\ launchedSession' = IF supervisor' = "observeChecking" THEN launchedSession ELSE NoSession
  /\ UNCHANGED <<connectedEvent, connection, alive, snapshot>>
  /\ SupervisorOnly

AgentConnected ==
  /\ supervisor \in {"delaying", "observing"} /\ ~stopEvent /\ ~neededEvent /\ connectedEvent
  /\ supervisor' = IF supervisor = "observing" THEN "observeChecking" ELSE "checking"
  /\ delayBeforeLaunch' = (delayBeforeLaunch /\ supervisor = "observing")
  /\ UNCHANGED <<neededEvent, connectedEvent, connection, alive, snapshot, launchedSession>>
  /\ SupervisorOnly

\* The retry delay has passed.
DelayPasses ==
  /\ supervisor = "delaying" /\ ~stopEvent /\ ~neededEvent /\ ~connectedEvent
  /\ supervisor' = "launching"
  /\ UNCHANGED <<neededEvent, connectedEvent, connection, alive, snapshot, delayBeforeLaunch,
                 launchedSession>>
  /\ SupervisorOnly

\* launchInteractiveAgent starts the UI in the active session or throws.
Launch ==
  /\ supervisor = "launching"
  /\ \/ /\ supervisor' = "observeChecking"
        /\ launchedSession' = activeSession
        /\ UNCHANGED delayBeforeLaunch
     \/ /\ supervisor' = "checking"
        /\ delayBeforeLaunch' = TRUE
        /\ UNCHANGED launchedSession
  /\ UNCHANGED <<neededEvent, connectedEvent, connection, alive, snapshot>>
  /\ SupervisorOnly

\* The launched process exits, or the startup grace is over, or the wait fails.
LaunchAbandoned ==
  /\ supervisor = "observing"
  /\ supervisor' = "checking"
  /\ delayBeforeLaunch' = TRUE
  /\ launchedSession' = NoSession
  /\ UNCHANGED <<neededEvent, connectedEvent, connection, alive, snapshot>>
  /\ SupervisorOnly

\* A wait fails.
SupervisorFails ==
  /\ supervisor \in {"waiting", "delaying"}
  /\ StopForInfrastructureFailure
  /\ supervisor' = "ended"
  /\ UNCHANGED <<mainVars, preshutdownEvent, neededEvent, connectedEvent, statusVars, handlerVars,
                 listenerVars, connectionVars, snapshot, delayBeforeLaunch, launchedSession,
                 stopVars, commitVars, desktopVars>>

-----------------------------------------------------------------------------
(***************************************************************************)
(* The desktop: the UI process ends, the active session changes.           *)
(***************************************************************************)
AgentExits ==
  /\ connection # NoConnection /\ alive
  /\ alive' = FALSE
  /\ UNCHANGED <<mainVars, eventVars, statusVars, handlerVars, exitCode, listenerVars, connection,
                 accepted, supervisorVars, stopVars, commitVars, desktopVars>>

\* Who is active matters while a thread of the service can look.
SwitchSession ==
  /\ switches < MaxSwitches
  /\ listener # "ended" \/ supervisor # "ended"
  /\ activeSession' \in Sessions \ {activeSession}
  /\ switches' = switches + 1
  /\ notice' = (notice \/ published.state = "RUNNING")
  /\ UNCHANGED <<mainVars, eventVars, statusVars, handlerVars, exitCode, listenerVars,
                 connectionVars, supervisorVars, stopVars, commitVars>>

MainStep ==
  \/ StartThreads \/ StartFails \/ ReportRunning \/ WaitEnds \/ JoinSupervisor \/ JoinListener
  \/ RunPreshutdownCommit \/ CommitJoined \/ ReportStopped
HandlerStep == HandlerReports \/ HandlerSetsEvent
ListenerStep == PublishConnection \/ ListenerDisconnected \/ ListenerStops
SupervisorStep ==
  \/ Check \/ Judge \/ SupervisorStops \/ AgentNeeded \/ AgentConnected \/ DelayPasses
  \/ Launch \/ LaunchAbandoned

Next ==
  \/ MainStep \/ Heartbeat \/ CommitEnds
  \/ HandlerStep \/ HandleSessionChange \/ HandleStop \/ HandlePreshutdown \/ HandleInterrogate
  \/ ListenerStep \/ ListenerFails \/ \E session \in Sessions : Authenticate(session)
  \/ SupervisorStep \/ SupervisorFails
  \/ AgentExits \/ SwitchSession

(***************************************************************************)
(* Threads run and the commit worker ends (the SCM's preshutdown timeout   *)
(* is not modelled); the SCM delivers a session change although other      *)
(* controls keep coming.  Nothing is assumed of users or agents.           *)
(***************************************************************************)
Fairness ==
  /\ WF_vars(MainStep) /\ WF_vars(CommitEnds)
  /\ WF_vars(HandlerStep) /\ SF_vars(HandleSessionChange)
  /\ WF_vars(ListenerStep) /\ WF_vars(SupervisorStep)

Spec == Init /\ [][Next]_vars /\ Fairness

-----------------------------------------------------------------------------
(***************************************************************************)
(* Properties                                                              *)
(***************************************************************************)

\* The staged commit, and the decision to skip it, happen when no other thread
\* of the service runs: no late control frame can change the token any more and
\* no UI is launched into a closing session.
CommitIsIsolated ==
  main \in {"consume", "committing"} \/ commit # "none" =>
    listener = "ended" /\ supervisor = "ended"

\* A service that stopped after it took PRESHUTDOWN has committed the staged
\* files or honoured the token; the only way past that is a failure of its own
\* infrastructure that won the race, and then the SCM is told of it.
PreshutdownIsHonoured ==
  main = "stopped" /\ preshutdownEvent =>
    commit \in {"skip", "ended"} \/ reportedExit = "failure"

\* The connected event and the connection agree: it is what the supervisor waits
\* for, and a stale one would make it spin.
ConnectedEventAgrees == connectedEvent <=> connection # NoConnection

\* A connection is dropped only when its agent has gone, when the supervisor has
\* looked at this very connection, or when the service stops.
OnlyCondemnedDropped ==
  [][connection # NoConnection /\ connection' = NoConnection
       => ~alive \/ stopEvent \/ snapshot = connection]_vars

\* The SCM sees checkpoints that advance for as long as the stop is pending.
CheckpointsAdvance ==
  [][published.state = "STOP_PENDING" /\ published'.state = "STOP_PENDING"
       => published'.checkpoint >= published.checkpoint]_vars

\* Once it was told to stop the service stops, whatever its threads were doing.
ServiceStops == (stopEvent \/ preshutdownEvent) ~> main = "stopped"

\* An agent of a session that is no longer active is let go once the service is
\* told of the change.
StaleAgentDropped ==
  (notice \/ neededEvent) /\ connection # NoConnection /\ connection.session # activeSession
    ~> (connection = NoConnection \/ connection.session = activeSession \/ stopEvent
        \/ published.state # "RUNNING")
=============================================================================
