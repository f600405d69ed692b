------------------------ MODULE SecureSingleInstance ------------------------
(***************************************************************************)
(* Several starts of the program in one session: who becomes the primary   *)
(* instance, how a start command is handed to it over the named pipe, and  *)
(* how the primary keeps, delivers and answers the commands it was handed. *)
(* Processes crash or are quit at any time, either side may fail to        *)
(* authenticate the other, the name may be taken by a stranger, and a      *)
(* reply may be lost when the primary closes the pipe.  The staging of a   *)
(* process is its FileStagingCoordinator seen from outside: everybody who  *)
(* waits is answered together when a batch ends.                           *)
(***************************************************************************)
EXTENDS FiniteSets, Naturals

CONSTANTS Processes, None

ASSUME ProcessesAssumption == None \notin Processes

VARIABLES
  pc,          \* where each process stands
  kind,        \* its start command
  attempt,     \* how often it has tried to hand the command over
  owner,       \* the process that listens on the name, or None
  link,        \* the connection of each attempt
  enabled,     \* processes whose window receives notifications
  pending,     \* pendingResponses of each process
  queue,       \* pendingCommitNotifications
  activation,  \* activationPending
  waiting,     \* requests the process's coordinator has not answered
  outcome,     \* (history) the result of the batch that served an attempt
  exit         \* the exit result, and how it was come by

client == <<pc, kind, attempt, exit>>
server == <<enabled, pending, queue, activation, waiting, outcome>>
vars == <<client, owner, link, server>>

Kinds == {"commit", "activate", "ensure"}
Outcomes == {"ok", "failed"}

\* An attempt of a process; attempt 0 is its own command, run by itself.
Attempts == Processes \X (0..2)
Own(p) == <<p, 0>>
Current(p) == <<p, attempt[p]>>

NoLink == [to |-> None, state |-> "none", reply |-> "none"]
Closed(l) == [l EXCEPT !.state = "closed"]

Results == {"none"} \cup Outcomes
Links == [to : Processes \cup {None}, reply : Results,
          state : {"none", "queued", "open", "answered", "closed", "dropped"}]

InstanceTypeOK ==
  /\ pc \in [Processes -> {"off", "probe", "wait", "listen", "starting", "running", "gone"}]
  /\ kind \in [Processes -> Kinds] /\ attempt \in [Processes -> 0..2]
  /\ owner \in Processes \cup {None} /\ link \in [Attempts -> Links]
  /\ enabled \subseteq Processes /\ activation \subseteq Processes
  /\ pending \in [Processes -> SUBSET Attempts] /\ queue \in [Processes -> SUBSET Attempts]
  /\ waiting \in [Processes -> SUBSET Attempts] /\ outcome \in [Attempts -> Results]
  /\ exit \in [Processes -> [how : {"none", "forwarded", "own", "died"}, result : Results]]

Init ==
  /\ pc = [p \in Processes |-> "off"]
  /\ kind \in [Processes -> Kinds]
  /\ attempt = [p \in Processes |-> 0]
  /\ owner = None
  /\ link = [t \in Attempts |-> NoLink]
  /\ enabled = {} /\ activation = {}
  /\ pending = [p \in Processes |-> {}]
  /\ queue = [p \in Processes |-> {}]
  /\ waiting = [p \in Processes |-> {}]
  /\ outcome = [t \in Attempts |-> "none"]
  /\ exit = [p \in Processes |-> [how |-> "none", result |-> "none"]]

Alive(p) == pc[p] \in {"starting", "running"}

-----------------------------------------------------------------------------
(***************************************************************************)
(* acquire                                                                 *)
(***************************************************************************)

Start(p) ==
  /\ pc[p] = "off"
  /\ pc' = [pc EXCEPT ![p] = "probe"]
  /\ UNCHANGED <<kind, attempt, exit, owner, link, server>>

\* A forward that failed is followed by listen, the second one by running
\* without protection.
AfterForward(p) == IF attempt[p] < 2 THEN "listen" ELSE "starting"

\* forwardToRunningInstance up to the request: nobody listens, the pipe is busy,
\* the server is not trusted or the write fails; or the request is in the pipe.
Probe(p) ==
  /\ pc[p] = "probe"
  /\ attempt' = [attempt EXCEPT ![p] = @ + 1]
  /\ \/ /\ pc' = [pc EXCEPT ![p] = AfterForward(p)']
        /\ UNCHANGED link
     \/ /\ owner # None
        /\ link' = [link EXCEPT ![<<p, attempt[p] + 1>>] = [to |-> owner, state |-> "queued", reply |-> "none"]]
        /\ pc' = [pc EXCEPT ![p] = "wait"]
  /\ UNCHANGED <<kind, exit, owner, server>>

\* readFrame returns the reply: ForwardedExisting.
Receive(p) ==
  /\ pc[p] = "wait" /\ link[Current(p)].state = "answered"
  /\ pc' = [pc EXCEPT ![p] = "gone"]
  /\ exit' = [exit EXCEPT ![p] = [how |-> "forwarded", result |-> link[Current(p)].reply]]
  /\ UNCHANGED <<kind, attempt, owner, link, server>>

\* Variant: the wait for the reply ends after a time.
LinkFailsOnTimeout(p) ==
  /\ pc[p] = "wait" /\ link[Current(p)].state \in {"queued", "open", "closed"}
  /\ pc' = [pc EXCEPT ![p] = AfterForward(p)]
  /\ UNCHANGED <<kind, attempt, exit, owner, link, server>>

\* readFrame fails: the primary is gone or has closed the pipe.
LinkFails(p) ==
  /\ pc[p] = "wait" /\ link[Current(p)].state = "closed"
  /\ pc' = [pc EXCEPT ![p] = AfterForward(p)]
  /\ UNCHANGED <<kind, attempt, exit, owner, link, server>>

\* QLocalServer::listen: fails when the name is taken, by whomever.
Listen(p) ==
  /\ pc[p] = "listen"
  /\ \/ /\ owner = None
        /\ owner' = p /\ pc' = [pc EXCEPT ![p] = "starting"]
     \/ UNCHANGED owner /\ pc' = [pc EXCEPT ![p] = "probe"]
  /\ UNCHANGED <<kind, attempt, exit, link, server>>

-----------------------------------------------------------------------------
(***************************************************************************)
(* The primary: connections, notifications, answers.                       *)
(***************************************************************************)

\* Variant: what is queued before the window listens is dropped.
DeliverDropping(s, q, accepted, isEnabled) ==
  /\ queue' = [queue EXCEPT ![s] = {}]
  /\ waiting' = [waiting EXCEPT ![s] = IF isEnabled THEN @ \cup (q \cap accepted) ELSE @]

\* deliverPendingCommands: once enabled, the requests still to be answered go to
\* the window, and through it to the coordinator.
Deliver(s, q, accepted, isEnabled) ==
  /\ queue' = [queue EXCEPT ![s] = IF isEnabled THEN {} ELSE q]
  /\ waiting' = [waiting EXCEPT ![s] = IF isEnabled THEN @ \cup (q \cap accepted) ELSE @]

\* runMainWindow: the window is connected and the pending commands are delivered.
EnableCommandNotifications(s) ==
  /\ pc[s] = "starting"
  /\ pc' = [pc EXCEPT ![s] = "running"]
  /\ enabled' = enabled \cup {s}
  /\ activation' = activation \ {s}
  /\ Deliver(s, queue[s], pending[s], TRUE)
  /\ UNCHANGED <<kind, attempt, exit, owner, link, pending, outcome>>

\* The single shot of StartupMode::CommitStage.
RequestOwnCommit(s) ==
  /\ pc[s] = "running" /\ kind[s] = "commit"
  /\ Own(s) \notin waiting[s]
  /\ waiting' = [waiting EXCEPT ![s] = @ \cup {Own(s)}]
  /\ UNCHANGED <<client, owner, link, enabled, pending, queue, activation, outcome>>

Acknowledged(l) == [l EXCEPT !.state = "answered", !.reply = "ok"]

\* Variant: a commit is acknowledged like the other commands.
ProcessSocketEarly(s, t) ==
  /\ link' = [link EXCEPT ![t] = Acknowledged(@)]
  /\ activation' = IF kind[t[1]] = "activate" /\ s \notin enabled THEN activation \cup {s} ELSE activation
  /\ pending' = pending
  /\ Deliver(s, queue[s] \cup {t}, {t}, s \in enabled)

\* processSocket: the other commands are acknowledged at once, a commit waits
\* for its result.
ProcessSocket(s, t) ==
  IF kind[t[1]] = "commit"
  THEN /\ link' = [link EXCEPT ![t].state = "open"]
       /\ pending' = [pending EXCEPT ![s] = @ \cup {t}]
       /\ Deliver(s, queue[s] \cup {t}, pending'[s], s \in enabled)
       /\ UNCHANGED activation
  ELSE /\ link' = [link EXCEPT ![t] = Acknowledged(@)]
       /\ activation' = IF kind[t[1]] = "activate" /\ s \notin enabled THEN activation \cup {s}
                        ELSE activation
       /\ UNCHANGED <<pending, queue, waiting>>

\* processPendingConnections: an untrusted client is dropped.
Accept(s, t) ==
  /\ Alive(s) /\ link[t].to = s /\ link[t].state = "queued"
  /\ \/ ProcessSocket(s, t)
     \/ link' = [link EXCEPT ![t] = Closed(@)] /\ UNCHANGED <<pending, queue, waiting, activation>>
  /\ UNCHANGED <<client, owner, enabled, outcome>>

\* QLocalSocket::disconnected of a client that has died.
Disconnected(s, t) ==
  /\ Alive(s) /\ t \in pending[s] /\ link[t].state = "dropped"
  /\ pending' = [pending EXCEPT ![s] = @ \ {t}]
  /\ UNCHANGED <<client, owner, link, enabled, queue, activation, waiting, outcome>>

\* The process is no more: its connections break and the name is free.
Ends(s) ==
  /\ owner' = IF owner = s THEN None ELSE owner
  /\ enabled' = enabled \ {s} /\ activation' = activation \ {s}
  /\ pending' = [pending EXCEPT ![s] = {}]
  /\ queue' = [queue EXCEPT ![s] = {}]
  /\ waiting' = [waiting EXCEPT ![s] = {}]

\* A batch ends: completeCommand for everybody who waits, as far as a response is
\* still pending; a process that was started for the commit then exits.
BatchEnds(s, result) ==
  /\ pc[s] = "running" /\ waiting[s] # {}
  /\ outcome' = [t \in Attempts |-> IF t \in waiting[s] THEN result ELSE outcome[t]]
  /\ LET replied == waiting[s] \cap pending[s]
         answered(t) == IF link[t].state = "open"
                        THEN [link[t] EXCEPT !.state = "answered", !.reply = result] ELSE link[t]
     IN IF Own(s) \in waiting[s]
        THEN /\ link' = [t \in Attempts |->
                          IF t \in replied THEN answered(t)
                          ELSE IF link[t].to = s /\ link[t].state \in {"queued", "open"}
                          THEN Closed(link[t]) ELSE link[t]]
             /\ pc' = [pc EXCEPT ![s] = "gone"]
             /\ exit' = [exit EXCEPT ![s] = [how |-> "own", result |-> result]]
             /\ Ends(s)
        ELSE /\ link' = [t \in Attempts |-> IF t \in replied THEN answered(t) ELSE link[t]]
             /\ pending' = [pending EXCEPT ![s] = @ \ replied]
             /\ waiting' = [waiting EXCEPT ![s] = {}]
             /\ UNCHANGED <<pc, exit, owner, enabled, queue, activation>>
  /\ UNCHANGED <<kind, attempt>>

\* The pipe is closed before the client has read the reply.
LoseReply(t) ==
  /\ link[t].state = "answered" /\ pc[t[1]] = "wait" /\ Current(t[1]) = t
  /\ link' = [link EXCEPT ![t] = Closed(@)]
  /\ UNCHANGED <<client, owner, server>>

\* A process is quit, killed or crashes, as a client or as a server.
Dies(p) ==
  /\ pc[p] \notin {"off", "gone"}
  /\ pc' = [pc EXCEPT ![p] = "gone"]
  /\ exit' = [exit EXCEPT ![p] = [how |-> "died", result |-> "none"]]
  /\ link' = [t \in Attempts |->
               IF t[1] = p /\ link[t].state \in {"queued", "open", "answered"}
               THEN [link[t] EXCEPT !.state = "dropped"]
               ELSE IF link[t].to = p /\ link[t].state \in {"queued", "open"}
               THEN Closed(link[t]) ELSE link[t]]
  /\ Ends(p)
  /\ UNCHANGED <<kind, attempt, outcome>>

\* The way of a process to its window or to its exit.
Acquire(p) ==
  Probe(p) \/ Receive(p) \/ LinkFails(p) \/ Listen(p) \/ EnableCommandNotifications(p)

Next ==
  \/ \E p \in Processes :
       Start(p) \/ Acquire(p) \/ RequestOwnCommit(p) \/ Dies(p)
  \/ \E s \in Processes, t \in Attempts : Accept(s, t) \/ Disconnected(s, t)
  \/ \E s \in Processes, result \in Outcomes : BatchEnds(s, result)
  \/ \E t \in Attempts : LoseReply(t)

\* Every process runs on, its event loop turns and its batches end; nobody has to
\* start, die or lose anything.
Fairness ==
  \A p \in Processes :
    /\ WF_vars(Acquire(p)) /\ WF_vars(RequestOwnCommit(p))
    /\ WF_vars(\E t \in Attempts : Accept(p, t))
    /\ WF_vars(\E result \in Outcomes : BatchEnds(p, result))

Spec == Init /\ [][Next]_vars /\ Fairness

-----------------------------------------------------------------------------
(***************************************************************************)
(* Properties.                                                             *)
(***************************************************************************)

\* The exit code of a forwarded commit is the result of a batch that served this
\* very request.
ForwardedIsDone ==
  \A p \in Processes :
    kind[p] = "commit" /\ exit[p].how = "forwarded" => outcome[Current(p)] = exit[p].result

\* A start command never runs in two living processes at a time, nor twice in one:
\* a process falls back to its own commit, or tries again, only when nobody is
\* working on its earlier request any more.
OneExecutor ==
  \A p \in Processes :
    Cardinality({t \in {p} \X (0..2) : \E s \in Processes : t \in waiting[s] \cup (queue[s] \cap pending[s])}) <= 1

\* Every commit command comes to its end, with a result or with its process,
\* also when the primary it was sent to disappears meanwhile; and an activation that
\* was acknowledged reaches the window or ends with it.
CommandsTakeEffect ==
  \A p \in Processes :
    /\ pc[p] = "probe" /\ kind[p] = "commit" ~> pc[p] = "gone"
    /\ p \in activation ~> p \notin activation
=============================================================================
