--------------------- MODULE EnhancedModeServiceProofs ---------------------
(***************************************************************************)
(* The service's safety properties hold for every set of sessions and any  *)
(* number of agents, session changes and heartbeats.                       *)
(*                                                                         *)
(* The inductive invariant says how far each thread can have come when the *)
(* main thread is at a given step, which controls the handler can still    *)
(* take, and that an id names one connection.  PreshutdownIsHonoured needs *)
(* a reason for every stop: whoever set the stop event before PRESHUTDOWN  *)
(* was taken has either failed or closed the service to controls.          *)
(***************************************************************************)
EXTENDS EnhancedModeService, TLAPS

\* The main thread joins the supervisor, then the listener, and only then
\* commits.
ThreadsAreJoined ==
  /\ main = "starting" => listener = "none" /\ supervisor = "none"
  /\ main \in {"joinListener", "consume", "committing"} => supervisor = "ended"
  /\ main \in {"consume", "committing"} => listener = "ended"
  /\ commit # "none" => /\ listener = "ended" /\ supervisor = "ended"
                        /\ main \in {"committing", "reporting", "stopped"}

\* Why the main thread stops and what it has done by then.
PathIsFollowed ==
  /\ path = "none" <=> main \in {"starting", "started", "waiting"}
  /\ path = "stop" => stopEvent
  /\ path = "preshutdown" => preshutdownEvent
  /\ main \in {"consume", "committing"} => path = "preshutdown"
  /\ main = "committing" => commit \in {"running", "ended"}
  /\ path = "preshutdown" /\ main \in {"reporting", "stopped"} => commit \in {"skip", "ended"}

\* The handler is entered from RUNNING only, takes PRESHUTDOWN once, and takes
\* no STOP after it.
HandlerIsSerial ==
  /\ main \in {"starting", "started"} =>
       /\ handler = "idle" /\ published.state = "START_PENDING"
       /\ status.state = "START_PENDING"
  /\ handler \in {"stopReport", "stopSet"} => ~preshutdownStarted
  /\ handler \in {"preReport", "preSet"} => preshutdownStarted
  /\ preshutdownEvent => preshutdownStarted /\ handler = "idle"
  /\ handler \in {"stopReport", "preReport"} => published.state # "STOP_PENDING"

\* No control will be taken any more, and PRESHUTDOWN was not.
ClosedWithoutPreshutdown ==
  /\ main \notin {"starting", "started"}
  /\ published.state # "RUNNING" /\ status.state # "RUNNING"
  /\ handler \notin {"preReport", "preSet"} /\ ~preshutdownEvent

\* Who can have set the stop event.
StopHasReason ==
  /\ handler = "stopSet" => ClosedWithoutPreshutdown
  /\ stopEvent => \/ exitCode = "failure"
                  \/ path \in {"preshutdown", "failed"}
                  \/ ClosedWithoutPreshutdown
  /\ main = "stopped" => \/ reportedExit = "failure"
                         \/ commit \in {"skip", "ended"}
                         \/ ClosedWithoutPreshutdown

\* Ids of connections are not used again.
ConnectionsAreNumbered ==
  /\ listener = "authenticated" => client \in Sessions /\ accepted < MaxConnections
  /\ connection.id <= accepted /\ snapshot.id <= accepted
  /\ snapshot.id = connection.id => snapshot = connection

\* The checkpoints given out so far.
CheckpointsAreCounted ==
  /\ checkpoint >= 1
  /\ published.checkpoint <= checkpoint /\ status.checkpoint <= checkpoint
  /\ published.state = "STOP_PENDING" /\ status.state = "STOP_PENDING" =>
       published.checkpoint <= status.checkpoint

ServiceInv ==
  /\ ServiceTypeOK
  /\ ThreadsAreJoined
  /\ PathIsFollowed
  /\ HandlerIsSerial
  /\ StopHasReason
  /\ ConnectionsAreNumbered
  /\ ConnectedEventAgrees
  /\ CheckpointsAreCounted
-----------------------------------------------------------------------------
(***************************************************************************)
(* The parts of the invariant                                              *)
(***************************************************************************)

\* What the types say of ids, checkpoints and the reasons to stop.
LEMMA ServiceTypes ==
  ASSUME ServiceTypeOK
  PROVE  /\ accepted \in Nat /\ connection.id \in Nat /\ snapshot.id \in Nat
         /\ connection.id = 0 <=> connection = NoConnection
         /\ snapshot.id = 0 <=> snapshot = NoConnection
         /\ checkpoint \in Nat /\ status.checkpoint \in Nat /\ published.checkpoint \in Nat
         /\ path \in {"none", "stop", "preshutdown", "failed"}
  <1>1. connection \in Connections \cup {NoConnection} /\ snapshot \in Connections \cup {NoConnection}
    BY DEF ServiceTypeOK
  <1>2. \A c \in Connections \cup {NoConnection} : c.id \in Nat /\ (c.id = 0 <=> c = NoConnection)
    BY ServiceBounds DEF Connections, NoConnection
  <1>3. status.checkpoint \in Nat /\ published.checkpoint \in Nat
    BY DEF ServiceTypeOK, Statuses
  <1>. QED BY <1>1, <1>2, <1>3, ServiceBounds DEF ServiceTypeOK

\* The threads end once, and the main thread passes each join only after that.
LEMMA ThreadsStep ==
  ASSUME ThreadsAreJoined, [Next]_vars
  PROVE  ThreadsAreJoined'
  <1>. USE DEF mainVars, eventVars, statusVars, handlerVars, listenerVars, connectionVars,
             supervisorVars, stopVars, commitVars, desktopVars
  <1>1. CASE StartThreads
    BY <1>1 DEF StartThreads, ThreadsAreJoined
  <1>2. CASE StartFails
    BY <1>2 DEF StartFails, ThreadsAreJoined
  <1>3. CASE ReportRunning
    BY <1>3 DEF ReportRunning, Report, StopInfrastructure, ThreadsAreJoined
  <1>4. CASE WaitEnds
    BY <1>4 DEF WaitEnds, StopInfrastructure, ThreadsAreJoined
  <1>5. CASE JoinSupervisor
    BY <1>5 DEF JoinSupervisor, ThreadsAreJoined
  <1>6. CASE JoinListener
    BY <1>6 DEF JoinListener, ThreadsAreJoined
  <1>7. CASE RunPreshutdownCommit
    BY <1>7 DEF RunPreshutdownCommit, ThreadsAreJoined
  <1>8. CASE CommitJoined
    BY <1>8 DEF CommitJoined, ThreadsAreJoined
  <1>9. CASE ReportStopped
    BY <1>9 DEF ReportStopped, Report, ThreadsAreJoined
  <1>10. CASE CommitEnds
    BY <1>10 DEF CommitEnds, ThreadsAreJoined
  <1>11. CASE PublishConnection \/ ListenerDisconnected \/ ListenerStops \/ ListenerFails
    BY <1>11
    DEF PublishConnection, ListenerDisconnected, Discard, ListenerStops, ListenerFails,
        StopForInfrastructureFailure, ThreadsAreJoined
  <1>12. CASE \E session \in Sessions : Authenticate(session)
    BY <1>12 DEF Authenticate, ThreadsAreJoined
  <1>13. CASE Check
    BY <1>13 DEF Check, SupervisorOnly, ThreadsAreJoined
  <1>14. CASE Judge
    BY <1>14 DEF Judge, Discard, SupervisorOnly, ThreadsAreJoined
  <1>15. CASE SupervisorStops \/ AgentNeeded \/ AgentConnected \/ DelayPasses
    BY <1>15
    DEF SupervisorStops, SupervisorOnly, AgentNeeded, AgentConnected, DelayPasses,
        ThreadsAreJoined
  <1>16. CASE Launch \/ LaunchAbandoned \/ SupervisorFails
    BY <1>16
    DEF Launch, SupervisorOnly, LaunchAbandoned, SupervisorFails, StopForInfrastructureFailure,
        ThreadsAreJoined
  <1>17. CASE UNCHANGED <<main, listener, supervisor, commit>>
    BY <1>17 DEF ThreadsAreJoined
  <1>18. \/ StartThreads \/ StartFails \/ ReportRunning \/ WaitEnds \/ JoinSupervisor
        \/ JoinListener \/ RunPreshutdownCommit \/ CommitJoined \/ ReportStopped \/ CommitEnds
        \/ PublishConnection \/ ListenerDisconnected \/ ListenerStops \/ ListenerFails
        \/ (\E session \in Sessions : Authenticate(session)) \/ Check \/ Judge
        \/ SupervisorStops \/ AgentNeeded \/ AgentConnected \/ DelayPasses \/ Launch
        \/ LaunchAbandoned \/ SupervisorFails
        \/ UNCHANGED <<main, listener, supervisor, commit>>
    BY DEF Next, MainStep, HandlerStep, ListenerStep, SupervisorStep, vars, Heartbeat, Report,
           HandlerReports, HandlerSetsEvent, HandleSessionChange, Accepting, HandleStop,
           HandlePreshutdown, HandleInterrogate, AgentExits, SwitchSession
  <1>. QED BY <1>1, <1>2, <1>3, <1>4, <1>5, <1>6, <1>7, <1>8, <1>9, <1>10, <1>11, <1>12, <1>13,
              <1>14, <1>15, <1>16, <1>17, <1>18

\* The main thread leaves its wait for a reason that stays true, and follows it to the
\* end.
LEMMA PathStep ==
  ASSUME PathIsFollowed, ThreadsAreJoined, [Next]_vars
  PROVE  PathIsFollowed'
  <1>. USE DEF mainVars, eventVars, statusVars, handlerVars, listenerVars, connectionVars,
             supervisorVars, stopVars, commitVars, desktopVars
  <1>1. CASE StartThreads
    BY <1>1 DEF StartThreads, PathIsFollowed
  <1>2. CASE StartFails
    BY <1>2 DEF StartFails, PathIsFollowed
  <1>3. CASE ReportRunning
    BY <1>3 DEF ReportRunning, Report, StopInfrastructure, PathIsFollowed
  <1>4. CASE WaitEnds
    BY <1>4 DEF WaitEnds, StopInfrastructure, PathIsFollowed
  <1>5. CASE JoinSupervisor
    BY <1>5 DEF JoinSupervisor, PathIsFollowed
  <1>6. CASE JoinListener
    BY <1>6 DEF JoinListener, PathIsFollowed
  <1>7. CASE RunPreshutdownCommit
    BY <1>7 DEF RunPreshutdownCommit, PathIsFollowed
  <1>8. CASE CommitJoined
    BY <1>8 DEF CommitJoined, PathIsFollowed
  <1>9. CASE ReportStopped
    BY <1>9 DEF ReportStopped, Report, PathIsFollowed
  <1>10. CASE CommitEnds
    BY <1>10 DEF CommitEnds, PathIsFollowed, ThreadsAreJoined
  <1>11. CASE HandlerSetsEvent
    BY <1>11 DEF HandlerSetsEvent, PathIsFollowed
  <1>12. CASE ListenerFails \/ SupervisorFails
    BY <1>12 DEF ListenerFails, StopForInfrastructureFailure, SupervisorFails, PathIsFollowed
  <1>13. CASE UNCHANGED <<main, path, commit, stopEvent, preshutdownEvent>>
    BY <1>13 DEF PathIsFollowed
  <1>14. \/ StartThreads \/ StartFails \/ ReportRunning \/ WaitEnds \/ JoinSupervisor
        \/ JoinListener \/ RunPreshutdownCommit \/ CommitJoined \/ ReportStopped \/ CommitEnds
        \/ HandlerSetsEvent \/ ListenerFails \/ SupervisorFails
        \/ UNCHANGED <<main, path, commit, stopEvent, preshutdownEvent>>
    BY DEF Next, MainStep, HandlerStep, ListenerStep, SupervisorStep, vars, Heartbeat, Report,
           HandlerReports, HandleSessionChange, Accepting, HandleStop, HandlePreshutdown,
           HandleInterrogate, PublishConnection, ListenerDisconnected, Discard, ListenerStops,
           Authenticate, Check, SupervisorOnly, Judge, SupervisorStops, AgentNeeded,
           AgentConnected, DelayPasses, Launch, LaunchAbandoned, AgentExits, SwitchSession
  <1>. QED BY <1>1, <1>2, <1>3, <1>4, <1>5, <1>6, <1>7, <1>8, <1>9, <1>10, <1>11, <1>12, <1>13,
              <1>14

\* handleControl takes a control only from RUNNING, and remembers PRESHUTDOWN from the
\* moment it takes it; the heartbeats come when it is idle.
LEMMA HandlerStepIsSerial ==
  ASSUME HandlerIsSerial, PathIsFollowed, [Next]_vars
  PROVE  HandlerIsSerial'
  <1>. USE DEF mainVars, eventVars, statusVars, handlerVars, listenerVars, connectionVars,
             supervisorVars, stopVars, commitVars, desktopVars
  <1>1. CASE StartThreads \/ StartFails \/ JoinSupervisor \/ CommitJoined
    BY <1>1 DEF StartThreads, StartFails, JoinSupervisor, CommitJoined, HandlerIsSerial
  <1>2. CASE ReportRunning
    BY <1>2 DEF ReportRunning, Report, StopInfrastructure, HandlerIsSerial
  <1>3. CASE WaitEnds
    BY <1>3 DEF WaitEnds, StopInfrastructure, HandlerIsSerial
  <1>4. CASE JoinListener
    BY <1>4 DEF JoinListener, HandlerIsSerial
  <1>5. CASE RunPreshutdownCommit
    BY <1>5 DEF RunPreshutdownCommit, HandlerIsSerial
  <1>6. CASE ReportStopped
    BY <1>6 DEF ReportStopped, Report, HandlerIsSerial
  <1>7. CASE Heartbeat
    BY <1>7 DEF Heartbeat, Report, HandlerIsSerial, PathIsFollowed
  <1>8. CASE HandlerReports
    BY <1>8 DEF HandlerReports, Report, HandlerIsSerial
  <1>9. CASE HandlerSetsEvent
    BY <1>9 DEF HandlerSetsEvent, HandlerIsSerial
  <1>10. CASE HandleStop
    BY <1>10 DEF HandleStop, Accepting, HandlerIsSerial
  <1>11. CASE HandlePreshutdown
    BY <1>11 DEF HandlePreshutdown, Accepting, HandlerIsSerial
  <1>12. CASE HandleInterrogate
    BY <1>12 DEF HandleInterrogate, HandlerIsSerial
  <1>13. CASE UNCHANGED <<main, handler, published, status, preshutdownStarted, preshutdownEvent>>
    BY <1>13 DEF HandlerIsSerial
  <1>14. \/ StartThreads \/ StartFails \/ JoinSupervisor \/ CommitJoined \/ ReportRunning
        \/ WaitEnds \/ JoinListener \/ RunPreshutdownCommit \/ ReportStopped \/ Heartbeat
        \/ HandlerReports \/ HandlerSetsEvent \/ HandleStop \/ HandlePreshutdown
        \/ HandleInterrogate
        \/ UNCHANGED <<main, handler, published, status, preshutdownStarted, preshutdownEvent>>
    BY DEF Next, MainStep, HandlerStep, ListenerStep, SupervisorStep, vars, CommitEnds,
           HandleSessionChange, Accepting, PublishConnection, ListenerDisconnected, Discard,
           ListenerStops, ListenerFails, StopForInfrastructureFailure, Authenticate, Check,
           SupervisorOnly, Judge, SupervisorStops, AgentNeeded, AgentConnected, DelayPasses,
           Launch, LaunchAbandoned, SupervisorFails, AgentExits, SwitchSession
  <1>. QED BY <1>1, <1>2, <1>3, <1>4, <1>5, <1>6, <1>7, <1>8, <1>9, <1>10, <1>11, <1>12, <1>13,
              <1>14

\* A stop event that came first has closed the service to PRESHUTDOWN or is a failure
\* that reportStopped tells the SCM.
LEMMA ReasonStep ==
  ASSUME ServiceTypeOK, StopHasReason, HandlerIsSerial, PathIsFollowed, [Next]_vars
  PROVE  StopHasReason'
  <1>. USE DEF mainVars, eventVars, statusVars, handlerVars, listenerVars, connectionVars,
             supervisorVars, stopVars, commitVars, desktopVars
  <1>1. CASE StartFails
    BY <1>1, ServiceTypes DEF StartFails, StopHasReason, ClosedWithoutPreshutdown, HandlerIsSerial, PathIsFollowed
  <1>2. CASE ReportRunning
    BY <1>2, ServiceTypes DEF ReportRunning, Report, StopInfrastructure, StopHasReason, ClosedWithoutPreshutdown, HandlerIsSerial, PathIsFollowed
  <1>3. CASE WaitEnds
    BY <1>3, ServiceTypes DEF WaitEnds, StopInfrastructure, StopHasReason, ClosedWithoutPreshutdown, HandlerIsSerial, PathIsFollowed
  <1>4. CASE StartThreads \/ JoinSupervisor \/ CommitJoined
    BY <1>4, ServiceTypes DEF StartThreads, JoinSupervisor, CommitJoined, StopHasReason, ClosedWithoutPreshutdown, HandlerIsSerial, PathIsFollowed
  <1>5. CASE JoinListener
    BY <1>5 DEF JoinListener, StopHasReason, ClosedWithoutPreshutdown
  <1>6. CASE RunPreshutdownCommit
    BY <1>6, ServiceTypes DEF RunPreshutdownCommit, StopHasReason, ClosedWithoutPreshutdown, HandlerIsSerial, PathIsFollowed
  <1>7. CASE ReportStopped
    BY <1>7, ServiceTypes DEF ReportStopped, Report, StopHasReason, ClosedWithoutPreshutdown, HandlerIsSerial, PathIsFollowed
  <1>8. CASE CommitEnds
    BY <1>8, ServiceTypes DEF CommitEnds, StopHasReason, ClosedWithoutPreshutdown, HandlerIsSerial, PathIsFollowed
  <1>9. CASE Heartbeat
    BY <1>9, ServiceTypes DEF Heartbeat, Report, StopHasReason, ClosedWithoutPreshutdown, HandlerIsSerial, PathIsFollowed
  <1>10. CASE HandlerReports
    BY <1>10, ServiceTypes DEF HandlerReports, Report, StopHasReason, ClosedWithoutPreshutdown, HandlerIsSerial, PathIsFollowed
  <1>11. CASE HandlerSetsEvent
    BY <1>11, ServiceTypes DEF HandlerSetsEvent, StopHasReason, ClosedWithoutPreshutdown, HandlerIsSerial, PathIsFollowed
  <1>12. CASE HandleStop
    BY <1>12, ServiceTypes DEF HandleStop, Accepting, StopHasReason, ClosedWithoutPreshutdown, HandlerIsSerial, PathIsFollowed
  <1>13. CASE HandlePreshutdown
    BY <1>13, ServiceTypes DEF HandlePreshutdown, Accepting, StopHasReason, ClosedWithoutPreshutdown, HandlerIsSerial, PathIsFollowed
  <1>14. CASE HandleInterrogate
    BY <1>14 DEF HandleInterrogate, StopHasReason, ClosedWithoutPreshutdown
  <1>15. CASE ListenerFails \/ SupervisorFails
    BY <1>15
    DEF ListenerFails, StopForInfrastructureFailure, SupervisorFails, StopHasReason,
        ClosedWithoutPreshutdown
  <1>16. CASE UNCHANGED <<main, path, handler, published, status, preshutdownEvent, stopEvent, exitCode, reportedExit, commit>>
    BY <1>16 DEF StopHasReason, ClosedWithoutPreshutdown
  <1>17. \/ StartFails \/ ReportRunning \/ WaitEnds \/ StartThreads \/ JoinSupervisor
        \/ CommitJoined \/ JoinListener \/ RunPreshutdownCommit \/ ReportStopped \/ CommitEnds
        \/ Heartbeat \/ HandlerReports \/ HandlerSetsEvent \/ HandleStop \/ HandlePreshutdown
        \/ HandleInterrogate \/ ListenerFails \/ SupervisorFails
        \/ UNCHANGED <<main, path, handler, published, status, preshutdownEvent, stopEvent, exitCode, reportedExit, commit>>
    BY DEF Next, MainStep, HandlerStep, ListenerStep, SupervisorStep, vars, HandleSessionChange,
           Accepting, PublishConnection, ListenerDisconnected, Discard, ListenerStops,
           Authenticate, Check, SupervisorOnly, Judge, SupervisorStops, AgentNeeded,
           AgentConnected, DelayPasses, Launch, LaunchAbandoned, AgentExits, SwitchSession
  <1>. QED BY <1>1, <1>2, <1>3, <1>4, <1>5, <1>6, <1>7, <1>8, <1>9, <1>10, <1>11, <1>12, <1>13,
              <1>14, <1>15, <1>16, <1>17

\* A new connection gets a new id; the snapshot of the supervisor is a connection of
\* that id.
LEMMA NumberStep ==
  ASSUME ServiceTypeOK, ConnectionsAreNumbered, [Next]_vars
  PROVE  ConnectionsAreNumbered'
  <1>. USE DEF mainVars, eventVars, statusVars, handlerVars, listenerVars, connectionVars,
             supervisorVars, stopVars, commitVars, desktopVars
  <1>1. CASE StartThreads
    BY <1>1, ServiceTypes DEF StartThreads, ConnectionsAreNumbered
  <1>2. CASE PublishConnection
    <2>1. connection'.id = accepted + 1 /\ accepted' = accepted + 1 /\ snapshot' = snapshot
          /\ listener' = "serving"
      BY <1>2 DEF PublishConnection
    <2>. QED BY <2>1, ServiceTypes DEF ConnectionsAreNumbered
  <1>3. CASE ListenerDisconnected
    <2>1. connection' \in {connection, NoConnection} /\ accepted' = accepted
          /\ snapshot' \in {snapshot, NoConnection} /\ (listener' = "authenticated" => UNCHANGED <<listener, client>>)
      BY <1>3 DEF ListenerDisconnected, Discard
    <2>2. NoConnection.id = 0 /\ (connection'.id = 0 <=> connection' = NoConnection)
      BY <2>1, ServiceTypes DEF NoConnection
    <2>3. snapshot'.id = 0 <=> snapshot' = NoConnection
      BY <2>1, <2>2, ServiceTypes
    <2>. QED BY <2>1, <2>2, <2>3, ServiceTypes DEF ConnectionsAreNumbered
  <1>4. CASE ListenerStops
    <2>1. connection' \in {connection, NoConnection} /\ accepted' = accepted
          /\ snapshot' \in {snapshot, NoConnection} /\ (listener' = "authenticated" => UNCHANGED <<listener, client>>)
      BY <1>4 DEF ListenerStops, Discard
    <2>2. NoConnection.id = 0 /\ (connection'.id = 0 <=> connection' = NoConnection)
      BY <2>1, ServiceTypes DEF NoConnection
    <2>3. snapshot'.id = 0 <=> snapshot' = NoConnection
      BY <2>1, <2>2, ServiceTypes
    <2>. QED BY <2>1, <2>2, <2>3, ServiceTypes DEF ConnectionsAreNumbered
  <1>5. CASE ListenerFails
    BY <1>5, ServiceTypes DEF ListenerFails, StopForInfrastructureFailure, ConnectionsAreNumbered
  <1>6. CASE \E session \in Sessions : Authenticate(session)
    BY <1>6, ServiceTypes DEF Authenticate, ConnectionsAreNumbered
  <1>7. CASE Check
    BY <1>7, ServiceTypes DEF Check, SupervisorOnly, ConnectionsAreNumbered
  <1>8. CASE Judge
    <2>1. connection' \in {connection, NoConnection} /\ accepted' = accepted
          /\ snapshot' \in {snapshot, NoConnection} /\ (listener' = "authenticated" => UNCHANGED <<listener, client>>)
      BY <1>8 DEF Judge, Discard, SupervisorOnly
    <2>2. NoConnection.id = 0 /\ (connection'.id = 0 <=> connection' = NoConnection)
      BY <2>1, ServiceTypes DEF NoConnection
    <2>3. snapshot'.id = 0 <=> snapshot' = NoConnection
      BY <2>1, <2>2, ServiceTypes
    <2>. QED BY <2>1, <2>2, <2>3, ServiceTypes DEF ConnectionsAreNumbered
  <1>9. CASE UNCHANGED <<listener, client, accepted, connection, snapshot>>
    BY <1>9 DEF ConnectionsAreNumbered
  <1>10. \/ StartThreads \/ PublishConnection \/ ListenerDisconnected \/ ListenerStops
        \/ ListenerFails \/ (\E session \in Sessions : Authenticate(session)) \/ Check \/ Judge
        \/ UNCHANGED <<listener, client, accepted, connection, snapshot>>
    BY DEF Next, MainStep, HandlerStep, ListenerStep, SupervisorStep, vars, StartFails,
           ReportRunning, Report, StopInfrastructure, WaitEnds, JoinSupervisor, JoinListener,
           RunPreshutdownCommit, CommitJoined, ReportStopped, Heartbeat, CommitEnds,
           HandlerReports, HandlerSetsEvent, HandleSessionChange, Accepting, HandleStop,
           HandlePreshutdown, HandleInterrogate, SupervisorStops, SupervisorOnly, AgentNeeded,
           AgentConnected, DelayPasses, Launch, LaunchAbandoned, SupervisorFails,
           StopForInfrastructureFailure, AgentExits, SwitchSession
  <1>. QED BY <1>1, <1>2, <1>3, <1>4, <1>5, <1>6, <1>7, <1>8, <1>9, <1>10

\* The event is set and reset in the step that publishes or discards the connection.
LEMMA EventStep ==
  ASSUME ServiceTypeOK, ConnectedEventAgrees, [Next]_vars
  PROVE  ConnectedEventAgrees'
  <1>. USE DEF mainVars, eventVars, statusVars, handlerVars, listenerVars, connectionVars,
             supervisorVars, stopVars, commitVars, desktopVars
  <1>1. CASE PublishConnection
    <2>1. connection'.id = accepted + 1 /\ connectedEvent'
      BY <1>1 DEF PublishConnection
    <2>2. NoConnection.id = 0
      BY DEF NoConnection
    <2>. QED BY <2>1, <2>2, ServiceTypes DEF ConnectedEventAgrees
  <1>2. CASE ListenerDisconnected
    BY <1>2, ServiceTypes DEF ListenerDisconnected, Discard, ConnectedEventAgrees
  <1>3. CASE ListenerStops
    BY <1>3, ServiceTypes DEF ListenerStops, Discard, ConnectedEventAgrees
  <1>4. CASE Judge
    BY <1>4, ServiceTypes DEF Judge, Discard, SupervisorOnly, ConnectedEventAgrees
  <1>5. CASE UNCHANGED <<connection, connectedEvent>>
    BY <1>5 DEF ConnectedEventAgrees
  <1>6. \/ PublishConnection \/ ListenerDisconnected \/ ListenerStops \/ Judge
       \/ UNCHANGED <<connection, connectedEvent>>
    BY DEF Next, MainStep, HandlerStep, ListenerStep, SupervisorStep, vars, StartThreads,
           StartFails, ReportRunning, Report, StopInfrastructure, WaitEnds, JoinSupervisor,
           JoinListener, RunPreshutdownCommit, CommitJoined, ReportStopped, Heartbeat, CommitEnds,
           HandlerReports, HandlerSetsEvent, HandleSessionChange, Accepting, HandleStop,
           HandlePreshutdown, HandleInterrogate, ListenerFails, StopForInfrastructureFailure,
           Authenticate, Check, SupervisorOnly, SupervisorStops, AgentNeeded, AgentConnected,
           DelayPasses, Launch, LaunchAbandoned, SupervisorFails, AgentExits, SwitchSession
  <1>. QED BY <1>1, <1>2, <1>3, <1>4, <1>5, <1>6

\* Every report of a pending stop takes the current value of the counter, the STOP
\* control the first one.
LEMMA CounterStep ==
  ASSUME ServiceTypeOK, CheckpointsAreCounted, HandlerIsSerial, [Next]_vars
  PROVE  CheckpointsAreCounted'
  <1>. USE DEF mainVars, eventVars, statusVars, handlerVars, listenerVars, connectionVars,
             supervisorVars, stopVars, commitVars, desktopVars
  <1>1. CASE ReportRunning
    BY <1>1, ServiceTypes DEF ReportRunning, Report, StopInfrastructure, CheckpointsAreCounted
  <1>2. CASE ReportStopped
    BY <1>2, ServiceTypes DEF ReportStopped, Report, CheckpointsAreCounted
  <1>3. CASE Heartbeat
    BY <1>3, ServiceTypes DEF Heartbeat, Report, CheckpointsAreCounted
  <1>4. CASE HandlerReports
    BY <1>4, ServiceTypes DEF HandlerReports, Report, CheckpointsAreCounted, HandlerIsSerial
  <1>5. CASE HandleInterrogate
    BY <1>5, ServiceTypes DEF HandleInterrogate, CheckpointsAreCounted
  <1>6. CASE UNCHANGED <<checkpoint, published, status>>
    BY <1>6 DEF CheckpointsAreCounted
  <1>7. \/ ReportRunning \/ ReportStopped \/ Heartbeat \/ HandlerReports \/ HandleInterrogate
       \/ UNCHANGED <<checkpoint, published, status>>
    BY DEF Next, MainStep, HandlerStep, ListenerStep, SupervisorStep, vars, StartThreads,
           StartFails, WaitEnds, StopInfrastructure, JoinSupervisor, JoinListener,
           RunPreshutdownCommit, CommitJoined, CommitEnds, HandlerSetsEvent, HandleSessionChange,
           Accepting, HandleStop, HandlePreshutdown, PublishConnection, ListenerDisconnected,
           Discard, ListenerStops, ListenerFails, StopForInfrastructureFailure, Authenticate,
           Check, SupervisorOnly, Judge, SupervisorStops, AgentNeeded, AgentConnected,
           DelayPasses, Launch, LaunchAbandoned, SupervisorFails, AgentExits, SwitchSession
  <1>. QED BY <1>1, <1>2, <1>3, <1>4, <1>5, <1>6, <1>7

\* Every report is a status.
LEMMA ReportTypes ==
  ASSUME ServiceTypeOK, NEW state \in States, NEW point \in Nat, NEW ok \in BOOLEAN,
         Report(state, point, ok)
  PROVE  status' \in Statuses /\ published' \in Statuses
  <1>1. status' \in Statuses
    BY DEF Report, Statuses
  <1>. QED BY <1>1 DEF Report, ServiceTypeOK

\* The flags of the threads stay Boolean.
LEMMA FlagsStep ==
  ASSUME ServiceTypeOK, [Next]_vars
  PROVE  FlagsTypeOK'
  <1>. USE DEF mainVars, eventVars, statusVars, handlerVars, listenerVars, connectionVars,
             supervisorVars, stopVars, commitVars, desktopVars
  <1>1. CASE StartThreads
    BY <1>1 DEF StartThreads, ServiceTypeOK, FlagsTypeOK
  <1>2. CASE ReportRunning
    BY <1>2, ZenonT(30) DEF ReportRunning, Report, StopInfrastructure, ServiceTypeOK, FlagsTypeOK
  <1>3. CASE WaitEnds
    BY <1>3 DEF WaitEnds, StopInfrastructure, ServiceTypeOK, FlagsTypeOK
  <1>4. CASE JoinSupervisor
    BY <1>4 DEF JoinSupervisor, ServiceTypeOK, FlagsTypeOK
  <1>5. CASE Heartbeat
    BY <1>5 DEF Heartbeat, Report, ServiceTypeOK, FlagsTypeOK
  <1>6. CASE HandlePreshutdown
    BY <1>6 DEF HandlePreshutdown, ServiceTypeOK, FlagsTypeOK
  <1>7. CASE HandlerReports
    BY <1>7 DEF HandlerReports, Report, ServiceTypeOK, FlagsTypeOK
  <1>8. CASE HandlerSetsEvent
    BY <1>8 DEF HandlerSetsEvent, ServiceTypeOK, FlagsTypeOK
  <1>9. CASE HandleSessionChange
    BY <1>9 DEF HandleSessionChange, ServiceTypeOK, FlagsTypeOK
  <1>10. CASE PublishConnection
    BY <1>10 DEF PublishConnection, ServiceTypeOK, FlagsTypeOK
  <1>11. CASE ListenerDisconnected
    BY <1>11, ZenonT(30) DEF ListenerDisconnected, Discard, ServiceTypeOK, FlagsTypeOK
  <1>12. CASE ListenerStops
    BY <1>12, ZenonT(30) DEF ListenerStops, Discard, ServiceTypeOK, FlagsTypeOK
  <1>13. CASE ListenerFails \/ SupervisorFails
    BY <1>13, ZenonT(30)
    DEF ListenerFails, StopForInfrastructureFailure, SupervisorFails, ServiceTypeOK, FlagsTypeOK
  <1>14. CASE Judge
    BY <1>14, ZenonT(30) DEF Judge, Discard, SupervisorOnly, ServiceTypeOK, FlagsTypeOK
  <1>15. CASE AgentNeeded
    BY <1>15 DEF AgentNeeded, SupervisorOnly, ServiceTypeOK, FlagsTypeOK
  <1>16. CASE AgentConnected
    BY <1>16 DEF AgentConnected, SupervisorOnly, ServiceTypeOK, FlagsTypeOK
  <1>17. CASE Launch
    BY <1>17, ZenonT(30) DEF Launch, SupervisorOnly, ServiceTypeOK, FlagsTypeOK
  <1>18. CASE LaunchAbandoned
    BY <1>18 DEF LaunchAbandoned, SupervisorOnly, ServiceTypeOK, FlagsTypeOK
  <1>19. CASE AgentExits
    BY <1>19 DEF AgentExits, ServiceTypeOK, FlagsTypeOK
  <1>20. CASE SwitchSession
    BY <1>20 DEF SwitchSession, ServiceTypeOK, FlagsTypeOK
  <1>21. CASE UNCHANGED <<stopEvent, preshutdownEvent, preshutdownStarted, neededEvent, connectedEvent, notice, alive,
                delayBeforeLaunch, heartbeat, supervisorStop, listenerStop>>
    BY <1>21 DEF ServiceTypeOK, FlagsTypeOK
  <1>22. \/ StartThreads \/ ReportRunning \/ WaitEnds \/ JoinSupervisor \/ Heartbeat
        \/ HandlePreshutdown \/ HandlerReports \/ HandlerSetsEvent \/ HandleSessionChange
        \/ PublishConnection \/ ListenerDisconnected \/ ListenerStops \/ ListenerFails
        \/ SupervisorFails \/ Judge \/ AgentNeeded \/ AgentConnected \/ Launch
        \/ LaunchAbandoned \/ AgentExits \/ SwitchSession
        \/ UNCHANGED <<stopEvent, preshutdownEvent, preshutdownStarted, neededEvent, connectedEvent, notice, alive,
                delayBeforeLaunch, heartbeat, supervisorStop, listenerStop>>
    BY DEF Next, MainStep, HandlerStep, ListenerStep, SupervisorStep, vars, StartFails,
           JoinListener, RunPreshutdownCommit, CommitJoined, ReportStopped, Report, CommitEnds,
           HandleStop, Accepting, HandleInterrogate, Authenticate, Check, SupervisorOnly,
           SupervisorStops, DelayPasses
  <1>. QED BY <1>1, <1>2, <1>3, <1>4, <1>5, <1>6, <1>7, <1>8, <1>9, <1>10, <1>11, <1>12, <1>13,
              <1>14, <1>15, <1>16, <1>17, <1>18, <1>19, <1>20, <1>21, <1>22

\* Every step keeps the types.
LEMMA ServiceTypeStep ==
  ASSUME ServiceTypeOK, ConnectionsAreNumbered, [Next]_vars
  PROVE  ServiceTypeOK'
  <1>. USE DEF mainVars, eventVars, statusVars, handlerVars, listenerVars, connectionVars,
             supervisorVars, stopVars, commitVars, desktopVars
  <1>flags. FlagsTypeOK'
    BY FlagsStep
  <1>1. CASE StartThreads
    BY <1>1, <1>flags DEF StartThreads, ServiceTypeOK
  <1>2. CASE StartFails
    BY <1>2, <1>flags DEF StartFails, ServiceTypeOK
  <1>3. CASE ReportRunning
    <2>1. status' \in Statuses /\ published' \in Statuses
      BY <1>3, ReportTypes DEF ReportRunning, ServiceTypeOK, States
    <2>2. main' \in {"waiting", "joinSupervisor"} /\ path' \in {path, "failed"}
      BY <1>3 DEF ReportRunning, StopInfrastructure
    <2>. QED BY <1>3, <1>flags, <2>1, <2>2 DEF ReportRunning, ServiceTypeOK
  <1>4. CASE WaitEnds
    BY <1>4, <1>flags DEF WaitEnds, StopInfrastructure, ServiceTypeOK
  <1>5. CASE JoinSupervisor
    BY <1>5, <1>flags DEF JoinSupervisor, ServiceTypeOK
  <1>6. CASE JoinListener
    BY <1>6, <1>flags DEF JoinListener, ServiceTypeOK
  <1>7. CASE RunPreshutdownCommit
    BY <1>7, <1>flags DEF RunPreshutdownCommit, ServiceTypeOK
  <1>8. CASE CommitJoined
    BY <1>8, <1>flags DEF CommitJoined, ServiceTypeOK
  <1>9. CASE ReportStopped
    <2>1. status' \in Statuses /\ published' \in Statuses
      BY <1>9, ReportTypes DEF ReportStopped, ServiceTypeOK, States
    <2>. QED BY <1>9, <1>flags, <2>1 DEF ReportStopped, ServiceTypeOK
  <1>10. CASE Heartbeat
    <2>1. status' \in Statuses /\ published' \in Statuses
      BY <1>10, ReportTypes DEF Heartbeat, ServiceTypeOK, States
    <2>. QED BY <1>10, <1>flags, <2>1 DEF Heartbeat, ServiceTypeOK
  <1>11. CASE CommitEnds
    BY <1>11, <1>flags DEF CommitEnds, ServiceTypeOK
  <1>12. CASE HandlerReports
    <2>1. status' \in Statuses /\ published' \in Statuses
      BY <1>12, ReportTypes DEF HandlerReports, ServiceTypeOK, States
    <2>. QED BY <1>12, <1>flags, <2>1 DEF HandlerReports, ServiceTypeOK
  <1>13. CASE HandlerSetsEvent
    BY <1>13, <1>flags DEF HandlerSetsEvent, ServiceTypeOK
  <1>14. CASE HandleSessionChange
    BY <1>14, <1>flags DEF HandleSessionChange, ServiceTypeOK
  <1>15. CASE HandleStop
    BY <1>15, <1>flags DEF HandleStop, ServiceTypeOK
  <1>16. CASE HandlePreshutdown
    BY <1>16, <1>flags DEF HandlePreshutdown, ServiceTypeOK
  <1>17. CASE HandleInterrogate
    BY <1>17, <1>flags DEF HandleInterrogate, ServiceTypeOK
  <1>18. CASE PublishConnection
    <2>1. accepted' \in 0..MaxConnections /\ accepted' > 0
      BY <1>18, ServiceBounds DEF PublishConnection, ConnectionsAreNumbered, ServiceTypeOK
    <2>2. connection' \in Connections
      BY <1>18, <2>1, ServiceBounds DEF PublishConnection, ConnectionsAreNumbered, Connections
    <2>. QED BY <1>18, <1>flags, <2>1, <2>2 DEF PublishConnection, ServiceTypeOK
  <1>19. CASE ListenerDisconnected
    BY <1>19, <1>flags, ServiceBounds DEF ListenerDisconnected, Discard, ServiceTypeOK
  <1>20. CASE ListenerStops
    BY <1>20, <1>flags, ServiceBounds DEF ListenerStops, Discard, ServiceTypeOK
  <1>21. CASE ListenerFails
    BY <1>21, <1>flags, ServiceBounds DEF ListenerFails, StopForInfrastructureFailure, ServiceTypeOK
  <1>22. CASE \E session \in Sessions : Authenticate(session)
    BY <1>22, <1>flags DEF Authenticate, ServiceTypeOK
  <1>23. CASE Check
    BY <1>23, <1>flags DEF Check, SupervisorOnly, ServiceTypeOK
  <1>24. CASE Judge
    BY <1>24, <1>flags DEF Judge, Discard, SupervisorOnly, ServiceTypeOK
  <1>25. CASE SupervisorStops
    BY <1>25, <1>flags DEF SupervisorStops, SupervisorOnly, ServiceTypeOK
  <1>26. CASE AgentNeeded
    BY <1>26, <1>flags DEF AgentNeeded, SupervisorOnly, ServiceTypeOK
  <1>27. CASE AgentConnected
    BY <1>27, <1>flags DEF AgentConnected, SupervisorOnly, ServiceTypeOK
  <1>28. CASE DelayPasses
    BY <1>28, <1>flags DEF DelayPasses, SupervisorOnly, ServiceTypeOK
  <1>29. CASE Launch
    BY <1>29, <1>flags DEF Launch, SupervisorOnly, ServiceTypeOK
  <1>30. CASE LaunchAbandoned
    BY <1>30, <1>flags DEF LaunchAbandoned, SupervisorOnly, ServiceTypeOK
  <1>31. CASE SupervisorFails
    BY <1>31, <1>flags DEF SupervisorFails, StopForInfrastructureFailure, ServiceTypeOK
  <1>32. CASE AgentExits
    BY <1>32, <1>flags DEF AgentExits, ServiceTypeOK
  <1>33. CASE SwitchSession
    BY <1>33, <1>flags, ServiceBounds DEF SwitchSession, ServiceTypeOK
  <1>34. CASE UNCHANGED vars
    BY <1>34, <1>flags DEF vars, ServiceTypeOK
  <1>. QED
    BY <1>1, <1>2, <1>3, <1>4, <1>5, <1>6, <1>7, <1>8, <1>9, <1>10, <1>11, <1>12, <1>13, <1>14,
       <1>15, <1>16, <1>17, <1>18, <1>19, <1>20, <1>21, <1>22, <1>23, <1>24, <1>25, <1>26, <1>27,
       <1>28, <1>29, <1>30, <1>31, <1>32, <1>33, <1>34
    DEF Next, MainStep, HandlerStep, ListenerStep, SupervisorStep

\* The service starts with no thread, no connection and no control taken.
LEMMA ServiceInvInit == Init => ServiceInv
  <1>. SUFFICES ASSUME Init PROVE ServiceInv
    OBVIOUS
  <1>1. activeSession \in Sessions
    BY SessionsAssumption DEF Init
  <1>2. status \in Statuses /\ published \in Statuses /\ status.checkpoint = 1
        /\ status.state = "START_PENDING" /\ published = status
    BY DEF Init, Statuses, States
  <1>3. FlagsTypeOK
    BY DEF Init, FlagsTypeOK
  <1>4. ServiceTypeOK
    BY <1>1, <1>2, <1>3, ServiceBounds DEF Init, ServiceTypeOK
  <1>5. ThreadsAreJoined /\ PathIsFollowed
    BY DEF Init, ThreadsAreJoined, PathIsFollowed
  <1>6. HandlerIsSerial /\ StopHasReason
    BY <1>2 DEF Init, HandlerIsSerial, StopHasReason
  <1>7. ConnectionsAreNumbered /\ ConnectedEventAgrees
    BY DEF Init, ConnectionsAreNumbered, ConnectedEventAgrees, NoConnection
  <1>8. CheckpointsAreCounted
    BY <1>2 DEF Init, CheckpointsAreCounted
  <1>. QED BY <1>4, <1>5, <1>6, <1>7, <1>8 DEF ServiceInv

\* Every step of every thread keeps the invariant.
LEMMA ServiceInvStep == ServiceInv /\ [Next]_vars => ServiceInv'
  BY ServiceTypeStep, ThreadsStep, PathStep, HandlerStepIsSerial, ReasonStep, NumberStep, EventStep,
     CounterStep DEF ServiceInv

-----------------------------------------------------------------------------
(***************************************************************************)
(* The theorems.  Fairness is not used.                                    *)
(***************************************************************************)

\* The inductive invariant holds of every behaviour of the service.
THEOREM ServiceInvariant == Spec => []ServiceInv
  BY ServiceInvInit, ServiceInvStep, PTL DEF Spec

\* stopInfrastructure has joined both threads before runPreshutdownCommit looks at
\* the token or starts the commit.
THEOREM CommitStaysIsolated == Spec => []CommitIsIsolated
  <1>1. ServiceInv => CommitIsIsolated
    BY DEF ServiceInv, ThreadsAreJoined, CommitIsIsolated
  <1>. QED BY <1>1, ServiceInvariant, PTL

\* A PRESHUTDOWN that was taken ends in a commit, in a skip the token allowed, or
\* in a failure the SCM is told of, in whatever order STOP, PRESHUTDOWN and the
\* failures of the threads arrive.
THEOREM PreshutdownStaysHonoured == Spec => []PreshutdownIsHonoured
  <1>1. ServiceInv => PreshutdownIsHonoured
    BY DEF ServiceInv, StopHasReason, ClosedWithoutPreshutdown, PreshutdownIsHonoured
  <1>. QED BY <1>1, ServiceInvariant, PTL

\* m_agentConnectedEvent is signalled exactly while m_connection holds one.
THEOREM ConnectedEventStaysTrue == Spec => []ConnectedEventAgrees
  <1>1. ServiceInv => ConnectedEventAgrees
    BY DEF ServiceInv
  <1>. QED BY <1>1, ServiceInvariant, PTL

\* discardConnection compares ids, and an id names one connection: a thread that
\* looked at an old connection never drops its successor.
THEOREM OnlyTheCondemnedIsDropped == Spec => OnlyCondemnedDropped
  <1>1. ServiceInv /\ [Next]_vars
          => [connection # NoConnection /\ connection' = NoConnection
                => ~alive \/ stopEvent \/ snapshot = connection]_vars
    <2>. SUFFICES ASSUME ServiceInv, [Next]_vars, connection # NoConnection,
                         connection' = NoConnection
                  PROVE  ~alive \/ stopEvent \/ snapshot = connection
      OBVIOUS
    <2>. USE DEF mainVars, eventVars, statusVars, handlerVars, listenerVars, connectionVars,
                 supervisorVars, stopVars, commitVars, desktopVars
    <2>1. CASE ListenerDisconnected
      BY <2>1 DEF ListenerDisconnected, Discard
    <2>2. CASE ListenerStops
      BY <2>2 DEF ListenerStops
    <2>3. CASE Judge
      <3>1. connection.id = snapshot.id
        BY <2>3 DEF Judge, Discard
      <3>. QED BY <3>1 DEF ServiceInv, ConnectionsAreNumbered
    <2>4. CASE PublishConnection
      <3>1. connection'.id = accepted + 1 /\ NoConnection.id = 0
        BY <2>4 DEF PublishConnection, NoConnection
      <3>. QED BY <3>1, ServiceTypes DEF ServiceInv
    <2>5. ListenerDisconnected \/ ListenerStops \/ Judge \/ PublishConnection
      BY DEF Next, MainStep, HandlerStep, ListenerStep, SupervisorStep, vars, StartThreads, StartFails,
         ReportRunning, WaitEnds, JoinSupervisor, JoinListener, RunPreshutdownCommit, CommitJoined,
         ReportStopped, Heartbeat, CommitEnds, HandlerReports, HandlerSetsEvent, HandleSessionChange,
         HandleStop, HandlePreshutdown, HandleInterrogate, ListenerFails, Authenticate, Check,
         SupervisorOnly, SupervisorStops, AgentNeeded, AgentConnected, DelayPasses, Launch,
         LaunchAbandoned, SupervisorFails, AgentExits, SwitchSession
    <2>. QED BY <2>1, <2>2, <2>3, <2>4, <2>5
  <1>. QED BY <1>1, ServiceInvariant, PTL DEF Spec, OnlyCondemnedDropped

\* The SCM never sees a checkpoint go back, whether a report came from the handler,
\* from the heartbeat or from INTERROGATE repeating one that had failed.
THEOREM CheckpointsNeverGoBack == Spec => CheckpointsAdvance
  <1>1. ServiceInv /\ [Next]_vars
          => [published.state = "STOP_PENDING" /\ published'.state = "STOP_PENDING"
                => published'.checkpoint >= published.checkpoint]_vars
    <2>. SUFFICES ASSUME ServiceInv, [Next]_vars, published.state = "STOP_PENDING",
                         published'.state = "STOP_PENDING"
                  PROVE  published'.checkpoint >= published.checkpoint
      OBVIOUS
    <2>. USE DEF mainVars, eventVars, statusVars, handlerVars, listenerVars, connectionVars,
                 supervisorVars, stopVars, commitVars, desktopVars
    <2>types. checkpoint \in Nat /\ status.checkpoint \in Nat /\ published.checkpoint \in Nat
              /\ published.checkpoint <= checkpoint
      BY ServiceTypes DEF ServiceInv, CheckpointsAreCounted
    <2>1. CASE ReportRunning \/ ReportStopped
      BY <2>1, <2>types DEF ReportRunning, ReportStopped, Report
    <2>2. CASE Heartbeat
      BY <2>2, <2>types DEF Heartbeat, Report
    <2>3. CASE HandlerReports
      <3>1. FALSE
        BY <2>3 DEF HandlerReports, ServiceInv, HandlerIsSerial
      <3>. QED BY <3>1
    <2>4. CASE HandleInterrogate
      BY <2>4, <2>types DEF HandleInterrogate, ServiceInv, CheckpointsAreCounted
    <2>5. CASE UNCHANGED published
      BY <2>5, <2>types
    <2>6. ReportRunning \/ ReportStopped \/ Heartbeat \/ HandlerReports \/ HandleInterrogate
          \/ UNCHANGED published
      BY DEF Next, MainStep, HandlerStep, ListenerStep, SupervisorStep, vars, StartThreads, StartFails,
         WaitEnds, JoinSupervisor, JoinListener, RunPreshutdownCommit, CommitJoined, CommitEnds,
         HandlerSetsEvent, HandleSessionChange, HandleStop, HandlePreshutdown, PublishConnection,
         ListenerDisconnected, ListenerStops, ListenerFails, Authenticate, Check, Judge,
         SupervisorOnly, SupervisorStops, AgentNeeded, AgentConnected, DelayPasses, Launch,
         LaunchAbandoned, SupervisorFails, AgentExits, SwitchSession
    <2>. QED BY <2>1, <2>2, <2>3, <2>4, <2>5, <2>6
  <1>. QED BY <1>1, ServiceInvariant, PTL DEF Spec, CheckpointsAdvance
=============================================================================
