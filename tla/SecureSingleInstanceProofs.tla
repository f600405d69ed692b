--------------------- MODULE SecureSingleInstanceProofs ---------------------
(***************************************************************************)
(* A start command is run once and answered by who ran it, for any number  *)
(* of processes in the session.                                            *)
(*                                                                         *)
(* The argument is about the connections: the request of an attempt is     *)
(* held by the process its connection leads to, and only while that        *)
(* connection is open or its client has died; a process whose connection   *)
(* is open is waiting on it, so it neither tries again nor runs the        *)
(* command itself.                                                         *)
(***************************************************************************)
EXTENDS SecureSingleInstance, FiniteSetTheorems, TLAPS

\* A process hands its command over at most twice.
AttemptsAreCounted ==
  \A p \in Processes :
    /\ pc[p] = "off" => attempt[p] = 0
    /\ pc[p] \in {"probe", "listen"} => attempt[p] < 2
    /\ pc[p] = "wait" => attempt[p] > 0

\* Only the connection of the last attempt can be in use, and then its process
\* waits on it, has read the answer, or has died.
LinksAreCurrent ==
  \A t \in Attempts :
    /\ t[2] = 0 => link[t] = NoLink
    /\ link[t].state \in {"queued", "open"} => pc[t[1]] = "wait"
    /\ link[t].state = "answered" => pc[t[1]] \in {"wait", "gone"}
    /\ link[t].state = "dropped" => pc[t[1]] = "gone"
    /\ link[t].state \in {"queued", "open", "answered", "dropped"} => t[2] = attempt[t[1]]

\* The request of t is in the hands of s.
HeldBy(s, t) == link[t].to = s /\ link[t].state \in {"open", "dropped"} /\ t[2] # 0

\* A process holds its own command and what it was handed, nothing else.
RequestsAreHeld ==
  \A s \in Processes : \A t \in Attempts :
    /\ t \in pending[s] => HeldBy(s, t)
    /\ t \in waiting[s] => HeldBy(s, t) \/ (t = Own(s) /\ pc[s] = "running")

\* The answer to a commit is the result of the batch that served it, and it is
\* what the forwarding process exits with.
AnswersAreResults ==
  /\ \A t \in Attempts : kind[t[1]] = "commit" /\ link[t].state = "answered" => outcome[t] = link[t].reply
  /\ \A p \in Processes : exit[p].how = "forwarded" =>
       /\ pc[p] = "gone" /\ link[Current(p)].state = "answered"
       /\ link[Current(p)].reply = exit[p].result

InstanceInv ==
  /\ InstanceTypeOK
  /\ AttemptsAreCounted
  /\ LinksAreCurrent
  /\ RequestsAreHeld
  /\ AnswersAreResults

-----------------------------------------------------------------------------
(***************************************************************************)
(* Types                                                                   *)
(***************************************************************************)

\* A connection in another state, or with an answer, is a connection.
LEMMA LinkUpdates ==
  ASSUME NEW l \in Links, NEW result \in Outcomes
  PROVE  /\ \A state \in {"open", "closed", "dropped"} : [l EXCEPT !.state = state] \in Links
         /\ [l EXCEPT !.state = "answered", !.reply = result] \in Links
         /\ Closed(l) \in Links /\ Closed(l).state = "closed"
         /\ Closed(l).to = l.to /\ Closed(l).reply = l.reply
         /\ Acknowledged(l) \in Links /\ Acknowledged(l).state = "answered"
         /\ Acknowledged(l).to = l.to
  BY DEF Links, Closed, Acknowledged, Results, Outcomes

\* Attempts are pairs.
LEMMA AttemptPairs ==
  /\ \A p \in Processes, k \in 0..2 : <<p, k>> \in Attempts /\ <<p, k>>[1] = p /\ <<p, k>>[2] = k
  /\ \A t \in Attempts : t[1] \in Processes /\ t[2] \in 0..2 /\ t = <<t[1], t[2]>>
  BY DEF Attempts

\* A process's own command is not one it was handed.
LEMMA OwnAttempt ==
  \A s \in Processes : Own(s) \in Attempts /\ Own(s)[1] = s /\ Own(s)[2] = 0
  <1>1. 0 \in 0..2
    OBVIOUS
  <1>. QED BY <1>1, AttemptPairs DEF Own

\* Only requests that are still pending are delivered.
LEMMA DeliverTypes ==
  ASSUME InstanceTypeOK, NEW s \in Processes, NEW q \in SUBSET Attempts, NEW accepted,
         NEW isEnabled \in BOOLEAN, Deliver(s, q, accepted, isEnabled)
  PROVE  /\ queue' \in [Processes -> SUBSET Attempts]
         /\ waiting' \in [Processes -> SUBSET Attempts]
         /\ waiting'[s] \subseteq waiting[s] \cup accepted
         /\ \A r \in Processes : r # s => waiting'[r] = waiting[r]
  BY DEF Deliver, InstanceTypeOK

\* The end of a process clears what it held.
LEMMA EndsTypes ==
  ASSUME InstanceTypeOK, NEW s \in Processes, Ends(s)
  PROVE  /\ owner' \in Processes \cup {None}
         /\ enabled' \subseteq Processes /\ activation' \subseteq Processes
         /\ pending' \in [Processes -> SUBSET Attempts] /\ queue' \in [Processes -> SUBSET Attempts]
         /\ waiting' \in [Processes -> SUBSET Attempts]
         /\ pending'[s] = {} /\ waiting'[s] = {}
         /\ \A r \in Processes : r # s => pending'[r] = pending[r] /\ waiting'[r] = waiting[r]
  BY DEF Ends, InstanceTypeOK

\* The ways processSocket can go.
LEMMA ProcessSocketTypes ==
  ASSUME InstanceTypeOK, NEW s \in Processes, NEW t \in Attempts, ProcessSocket(s, t)
  PROVE  /\ link' \in [Attempts -> Links] /\ pending' \in [Processes -> SUBSET Attempts]
         /\ queue' \in [Processes -> SUBSET Attempts] /\ waiting' \in [Processes -> SUBSET Attempts]
         /\ activation' \subseteq Processes
  <1>. USE DEF InstanceTypeOK
  <1>link. link[t] \in Links
    OBVIOUS
  <1>1. CASE kind[t[1]] = "commit"
    <2>1. link' = [link EXCEPT ![t].state = "open"] /\ pending' = [pending EXCEPT ![s] = @ \cup {t}]
          /\ Deliver(s, queue[s] \cup {t}, pending'[s], s \in enabled) /\ UNCHANGED activation
      BY <1>1 DEF ProcessSocket
    <2>2. [link[t] EXCEPT !.state = "open"] \in Links
      BY <1>link, LinkUpdates DEF Outcomes
    <2>3. queue[s] \cup {t} \in SUBSET Attempts /\ (s \in enabled) \in BOOLEAN
      OBVIOUS
    <2>4. queue' \in [Processes -> SUBSET Attempts] /\ waiting' \in [Processes -> SUBSET Attempts]
      BY <2>1, <2>3 DEF Deliver
    <2>. QED BY <2>1, <2>2, <2>4
  <1>2. CASE kind[t[1]] # "commit"
    <2>1. Acknowledged(link[t]) \in Links
      BY <1>link, LinkUpdates DEF Outcomes
    <2>. QED BY <1>2, <2>1 DEF ProcessSocket
  <1>. QED BY <1>1, <1>2

\* Every step of every process keeps the types.
LEMMA InstanceTypeStep ==
  ASSUME InstanceTypeOK, AttemptsAreCounted, [Next]_vars
  PROVE  InstanceTypeOK'
  <1>. USE DEF client, server
  <1>1. ASSUME NEW p \in Processes, Start(p) PROVE InstanceTypeOK'
    BY <1>1 DEF Start, InstanceTypeOK
  <1>2. ASSUME NEW p \in Processes, Probe(p) PROVE InstanceTypeOK'
    <2>0. pc[p] = "probe" /\ attempt \in [Processes -> 0..2]
      BY <1>2 DEF Probe, InstanceTypeOK
    <2>1. attempt[p] + 1 \in 0..2 /\ attempt' \in [Processes -> 0..2]
      <3>1. attempt[p] < 2 /\ attempt[p] \in 0..2
        BY <2>0 DEF AttemptsAreCounted
      <3>2. attempt' = [attempt EXCEPT ![p] = attempt[p] + 1]
        BY <1>2 DEF Probe
      <3>3. attempt[p] + 1 \in 0..2
        BY <3>1
      <3>. QED BY <2>0, <3>2, <3>3
    <2>2. AfterForward(p)' \in {"listen", "starting"}
      BY DEF AfterForward
    <2>3. pc' \in [Processes -> {"off", "probe", "wait", "listen", "starting", "running", "gone"}]
      BY <1>2, <2>2 DEF Probe, InstanceTypeOK
    <2>4. ASSUME owner # None
          PROVE  [to |-> owner, state |-> "queued", reply |-> "none"] \in Links
      BY <2>4 DEF InstanceTypeOK, Links, Results
    <2>5. link' \in [Attempts -> Links]
      <3>1. <<p, attempt[p] + 1>> \in Attempts
        BY <2>1, AttemptPairs
      <3>. QED BY <1>2, <2>4, <3>1 DEF Probe, InstanceTypeOK
    <2>. QED BY <1>2, <2>1, <2>3, <2>5 DEF Probe, InstanceTypeOK
  <1>3. ASSUME NEW p \in Processes, Receive(p) PROVE InstanceTypeOK'
    <2>1. Current(p) \in Attempts
      BY AttemptPairs DEF Current, InstanceTypeOK
    <2>2. link[Current(p)].reply \in Results
      BY <2>1 DEF InstanceTypeOK, Links
    <2>3. [how |-> "forwarded", result |-> link[Current(p)].reply]
            \in [how : {"none", "forwarded", "own", "died"}, result : Results]
      BY <2>2
    <2>. QED BY <1>3, <2>3 DEF Receive, InstanceTypeOK
  <1>4. ASSUME NEW p \in Processes, LinkFails(p) PROVE InstanceTypeOK'
    <2>1. AfterForward(p) \in {"listen", "starting"}
      BY DEF AfterForward
    <2>. QED BY <1>4, <2>1 DEF LinkFails, InstanceTypeOK
  <1>5. ASSUME NEW p \in Processes, Listen(p) PROVE InstanceTypeOK'
    BY <1>5 DEF Listen, InstanceTypeOK
  <1>6. ASSUME NEW s \in Processes, EnableCommandNotifications(s) PROVE InstanceTypeOK'
    <2>1. Deliver(s, queue[s], pending[s], TRUE) /\ queue[s] \in SUBSET Attempts
      BY <1>6 DEF EnableCommandNotifications, InstanceTypeOK
    <2>2. queue' \in [Processes -> SUBSET Attempts] /\ waiting' \in [Processes -> SUBSET Attempts]
      BY <2>1, DeliverTypes
    <2>. QED BY <1>6, <2>2 DEF EnableCommandNotifications, InstanceTypeOK
  <1>7. ASSUME NEW s \in Processes, RequestOwnCommit(s) PROVE InstanceTypeOK'
    <2>1. Own(s) \in Attempts
      BY OwnAttempt
    <2>. QED BY <1>7, <2>1 DEF RequestOwnCommit, InstanceTypeOK
  <1>8. ASSUME NEW s \in Processes, NEW t \in Attempts, Accept(s, t) PROVE InstanceTypeOK'
    <2>1. CASE ProcessSocket(s, t)
      BY <1>8, <2>1, ProcessSocketTypes DEF Accept, InstanceTypeOK
    <2>2. CASE link' = [link EXCEPT ![t] = Closed(@)] /\ UNCHANGED <<pending, queue, waiting, activation>>
      <3>1. Closed(link[t]) \in Links
        BY LinkUpdates DEF InstanceTypeOK, Outcomes
      <3>. QED BY <1>8, <2>2, <3>1 DEF Accept, InstanceTypeOK
    <2>. QED BY <1>8, <2>1, <2>2 DEF Accept
  <1>9. ASSUME NEW s \in Processes, NEW t \in Attempts, Disconnected(s, t) PROVE InstanceTypeOK'
    BY <1>9 DEF Disconnected, InstanceTypeOK
  <1>10. ASSUME NEW s \in Processes, NEW result \in Outcomes, BatchEnds(s, result) PROVE InstanceTypeOK'
    <2>1. outcome' \in [Attempts -> Results]
      BY <1>10 DEF BatchEnds, InstanceTypeOK, Results
    <2>2. \A t \in Attempts :
            /\ link[t] \in Links /\ Closed(link[t]) \in Links
            /\ [link[t] EXCEPT !.state = "answered", !.reply = result] \in Links
      BY LinkUpdates DEF InstanceTypeOK
    <2>3. link' \in [Attempts -> Links]
      <3>1. CASE Own(s) \in waiting[s]
        BY <1>10, <2>2, <3>1 DEF BatchEnds
      <3>2. CASE Own(s) \notin waiting[s]
        BY <1>10, <2>2, <3>2 DEF BatchEnds
      <3>. QED BY <3>1, <3>2
    <2>4. CASE Own(s) \in waiting[s]
      <3>1. [how |-> "own", result |-> result] \in [how : {"none", "forwarded", "own", "died"}, result : Results]
        BY DEF Results
      <3>2. Ends(s) /\ pc' = [pc EXCEPT ![s] = "gone"] /\ UNCHANGED <<kind, attempt>>
            /\ exit' = [exit EXCEPT ![s] = [how |-> "own", result |-> result]]
        BY <1>10, <2>4 DEF BatchEnds
      <3>. QED BY <2>1, <2>3, <3>1, <3>2, EndsTypes DEF InstanceTypeOK
    <2>5. CASE Own(s) \notin waiting[s]
      <3>1. /\ pending' \in [Processes -> SUBSET Attempts] /\ waiting' \in [Processes -> SUBSET Attempts]
            /\ UNCHANGED <<pc, exit, owner, enabled, queue, activation, kind, attempt>>
        <4>1. /\ pending' = [pending EXCEPT ![s] = @ \ (waiting[s] \cap pending[s])]
              /\ waiting' = [waiting EXCEPT ![s] = {}]
              /\ UNCHANGED <<pc, exit, owner, enabled, queue, activation, kind, attempt>>
          BY <1>10, <2>5, Zenon DEF BatchEnds
        <4>. QED BY <4>1 DEF InstanceTypeOK
      <3>. QED BY <2>1, <2>3, <3>1 DEF InstanceTypeOK
    <2>. QED BY <2>4, <2>5
  <1>11. ASSUME NEW t \in Attempts, LoseReply(t) PROVE InstanceTypeOK'
    <2>1. Closed(link[t]) \in Links
      BY LinkUpdates DEF InstanceTypeOK, Outcomes
    <2>. QED BY <1>11, <2>1 DEF LoseReply, InstanceTypeOK
  <1>12. ASSUME NEW p \in Processes, Dies(p) PROVE InstanceTypeOK'
    <2>1. \A t \in Attempts :
            /\ link[t] \in Links /\ Closed(link[t]) \in Links
            /\ [link[t] EXCEPT !.state = "dropped"] \in Links
      BY LinkUpdates DEF InstanceTypeOK, Outcomes
    <2>2. link' \in [Attempts -> Links]
      BY <1>12, <2>1 DEF Dies
    <2>3. [how |-> "died", result |-> "none"] \in [how : {"none", "forwarded", "own", "died"}, result : Results]
      BY DEF Results
    <2>4. Ends(p)
      BY <1>12 DEF Dies
    <2>. QED BY <1>12, <2>2, <2>3, <2>4, EndsTypes DEF Dies, InstanceTypeOK
  <1>13. CASE UNCHANGED vars
    BY <1>13 DEF vars, InstanceTypeOK
  <1>. QED
    BY <1>1, <1>2, <1>3, <1>4, <1>5, <1>6, <1>7, <1>8, <1>9, <1>10, <1>11, <1>12, <1>13
    DEF Next, Acquire

-----------------------------------------------------------------------------
(***************************************************************************)
(* What a step does to one connection                                      *)
(***************************************************************************)

\* The connection of the current attempt of p.
LEMMA CurrentAttempt ==
  ASSUME InstanceTypeOK
  PROVE  \A p \in Processes : /\ Current(p) \in Attempts /\ Current(p)[1] = p
                              /\ Current(p)[2] = attempt[p]
  BY AttemptPairs DEF Current, InstanceTypeOK

\* The end of a batch answers the open connections of those who are still owed an
\* answer; a process that exits then closes the others that lead to it.
LEMMA BatchEndsOnLink ==
  ASSUME InstanceTypeOK, NEW s \in Processes, NEW result \in Outcomes, BatchEnds(s, result),
         NEW t \in Attempts
  PROVE  /\ link'[t].to = link[t].to
         /\ \/ link'[t] = link[t]
            \/ /\ t \in waiting[s] /\ t \in pending[s]
               /\ link[t].state = "open" /\ link'[t].state = "answered" /\ link'[t].reply = result
            \/ /\ link[t].to = s /\ link[t].state \in {"queued", "open"} /\ link'[t].state = "closed"
               /\ Own(s) \in waiting[s]
  <1>link. link[t] \in Links
    BY DEF InstanceTypeOK
  <1>answer. LET l == [link[t] EXCEPT !.state = "answered", !.reply = result]
             IN  l.to = link[t].to /\ l.state = "answered" /\ l.reply = result
    BY <1>link DEF Links
  <1>closed. Closed(link[t]).to = link[t].to /\ Closed(link[t]).state = "closed"
    BY <1>link, LinkUpdates
  <1>1. CASE Own(s) \in waiting[s]
    <2>1. link'[t] = IF t \in waiting[s] \cap pending[s]
                     THEN IF link[t].state = "open"
                          THEN [link[t] EXCEPT !.state = "answered", !.reply = result] ELSE link[t]
                     ELSE IF link[t].to = s /\ link[t].state \in {"queued", "open"}
                          THEN Closed(link[t]) ELSE link[t]
      BY <1>1 DEF BatchEnds
    <2>2. CASE t \in waiting[s] \cap pending[s] /\ link[t].state = "open"
      BY <2>1, <2>2, <1>answer
    <2>3. CASE t \notin waiting[s] \cap pending[s] /\ link[t].to = s /\ link[t].state \in {"queued", "open"}
      BY <2>1, <2>3, <1>closed, <1>1
    <2>4. CASE link'[t] = link[t]
      BY <2>4
    <2>. QED BY <2>1, <2>2, <2>3, <2>4
  <1>2. CASE Own(s) \notin waiting[s]
    <2>1. link'[t] = IF t \in waiting[s] \cap pending[s]
                     THEN IF link[t].state = "open"
                          THEN [link[t] EXCEPT !.state = "answered", !.reply = result] ELSE link[t]
                     ELSE link[t]
      BY <1>2 DEF BatchEnds
    <2>2. CASE t \in waiting[s] \cap pending[s] /\ link[t].state = "open"
      BY <2>1, <2>2, <1>answer
    <2>3. CASE link'[t] = link[t]
      BY <2>3
    <2>. QED BY <2>1, <2>2, <2>3
  <1>. QED BY <1>1, <1>2

\* A process that dies drops its own connection and closes those that lead to it.
LEMMA DiesOnLink ==
  ASSUME InstanceTypeOK, NEW p \in Processes, Dies(p), NEW t \in Attempts
  PROVE  /\ link'[t].to = link[t].to
         /\ \/ link'[t] = link[t] /\ ~(t[1] = p /\ link[t].state \in {"queued", "open", "answered"})
            \/ t[1] = p /\ link[t].state \in {"queued", "open", "answered"} /\ link'[t].state = "dropped"
            \/ link[t].to = p /\ link[t].state \in {"queued", "open"} /\ link'[t].state = "closed"
  <1>link. link[t] \in Links
    BY DEF InstanceTypeOK
  <1>dropped. LET l == [link[t] EXCEPT !.state = "dropped"]
              IN  l.to = link[t].to /\ l.state = "dropped"
    BY <1>link DEF Links
  <1>closed. Closed(link[t]).to = link[t].to /\ Closed(link[t]).state = "closed"
    BY <1>link, LinkUpdates DEF Outcomes
  <1>1. link'[t] = IF t[1] = p /\ link[t].state \in {"queued", "open", "answered"}
                   THEN [link[t] EXCEPT !.state = "dropped"]
                   ELSE IF link[t].to = p /\ link[t].state \in {"queued", "open"}
                   THEN Closed(link[t]) ELSE link[t]
    BY DEF Dies
  <1>2. CASE t[1] = p /\ link[t].state \in {"queued", "open", "answered"}
    BY <1>1, <1>2, <1>dropped
  <1>3. CASE ~(t[1] = p /\ link[t].state \in {"queued", "open", "answered"})
             /\ link[t].to = p /\ link[t].state \in {"queued", "open"}
    BY <1>1, <1>3, <1>closed
  <1>4. CASE ~(t[1] = p /\ link[t].state \in {"queued", "open", "answered"})
             /\ ~(link[t].to = p /\ link[t].state \in {"queued", "open"})
    BY <1>1, <1>4
  <1>. QED BY <1>2, <1>3, <1>4

\* A request that is accepted becomes an open connection or an answered one; an
\* untrusted client's is closed.
LEMMA AcceptOnLink ==
  ASSUME InstanceTypeOK, NEW s \in Processes, NEW t \in Attempts, Accept(s, t), NEW u \in Attempts
  PROVE  /\ u # t => link'[u] = link[u]
         /\ link'[t].to = s /\ link[t].to = s /\ link[t].state = "queued"
         /\ link'[t].state \in {"open", "answered", "closed"}
         /\ link'[t].state = "answered" => kind[t[1]] # "commit"
  <1>link. link[t] \in Links /\ link \in [Attempts -> Links]
    BY DEF InstanceTypeOK
  <1>1. link[t].to = s /\ link[t].state = "queued"
    BY DEF Accept
  <1>2. CASE ProcessSocket(s, t) /\ kind[t[1]] = "commit"
    <2>1. link' = [link EXCEPT ![t].state = "open"]
      BY <1>2 DEF ProcessSocket
    <2>2. link'[t] = [link[t] EXCEPT !.state = "open"]
      BY <2>1, <1>link
    <2>3. link'[t].to = link[t].to /\ link'[t].state = "open"
      BY <2>2, <1>link DEF Links
    <2>. QED BY <1>1, <2>1, <2>3, <1>link
  <1>3. CASE ProcessSocket(s, t) /\ kind[t[1]] # "commit"
    <2>1. link' = [link EXCEPT ![t] = Acknowledged(link[t])]
      BY <1>3 DEF ProcessSocket
    <2>2. Acknowledged(link[t]).to = link[t].to /\ Acknowledged(link[t]).state = "answered"
      BY <1>link, LinkUpdates DEF Outcomes
    <2>. QED BY <1>1, <1>3, <2>1, <2>2, <1>link
  <1>4. CASE link' = [link EXCEPT ![t] = Closed(@)]
    <2>1. Closed(link[t]).to = link[t].to /\ Closed(link[t]).state = "closed"
      BY <1>link, LinkUpdates DEF Outcomes
    <2>. QED BY <1>1, <1>4, <2>1, <1>link
  <1>. QED BY <1>2, <1>3, <1>4 DEF Accept

-----------------------------------------------------------------------------
(***************************************************************************)
(* The parts of the invariant                                              *)
(***************************************************************************)

\* acquire probes once, listens, and probes a second time at most.
LEMMA AttemptsStep ==
  ASSUME InstanceTypeOK, AttemptsAreCounted, [Next]_vars
  PROVE  AttemptsAreCounted'
  <1>. USE DEF client, server
  <1>1. ASSUME NEW p \in Processes, Start(p) PROVE AttemptsAreCounted'
    BY <1>1 DEF Start, InstanceTypeOK, AttemptsAreCounted
  <1>2. ASSUME NEW p \in Processes, Probe(p) PROVE AttemptsAreCounted'
    <2>1. /\ attempt'[p] = attempt[p] + 1 /\ \A q \in Processes : q # p => attempt'[q] = attempt[q]
          /\ \A q \in Processes : q # p => pc'[q] = pc[q]
          /\ pc'[p] = "wait" \/ pc'[p] = AfterForward(p)'
      BY <1>2 DEF Probe, InstanceTypeOK
    <2>2. AfterForward(p)' = IF attempt'[p] < 2 THEN "listen" ELSE "starting"
      BY DEF AfterForward
    <2>. QED BY <2>1, <2>2 DEF InstanceTypeOK, AttemptsAreCounted
  <1>3. ASSUME NEW p \in Processes, LinkFails(p) PROVE AttemptsAreCounted'
    BY <1>3 DEF LinkFails, AfterForward, InstanceTypeOK, AttemptsAreCounted
  <1>4. ASSUME NEW p \in Processes, Listen(p) PROVE AttemptsAreCounted'
    BY <1>4 DEF Listen, InstanceTypeOK, AttemptsAreCounted
  <1>5. ASSUME NEW p \in Processes, Receive(p) \/ EnableCommandNotifications(p) \/ Dies(p)
        PROVE  AttemptsAreCounted'
    <2>1. attempt' = attempt /\ \A q \in Processes : pc'[q] \in {pc[q], "gone", "running"}
      BY <1>5 DEF Receive, EnableCommandNotifications, Dies, InstanceTypeOK
    <2>. QED BY <2>1 DEF AttemptsAreCounted
  <1>6. ASSUME NEW s \in Processes, NEW result \in Outcomes, BatchEnds(s, result)
        PROVE  AttemptsAreCounted'
    <2>1. attempt' = attempt /\ (pc' = pc \/ pc' = [pc EXCEPT ![s] = "gone"])
      BY <1>6 DEF BatchEnds
    <2>. QED BY <2>1 DEF AttemptsAreCounted, InstanceTypeOK
  <1>7. CASE UNCHANGED <<pc, attempt>>
    BY <1>7 DEF AttemptsAreCounted
  <1>. QED
    BY <1>1, <1>2, <1>3, <1>4, <1>5, <1>6, <1>7
    DEF Next, Acquire, RequestOwnCommit, Accept, Disconnected, LoseReply, vars

\* A connection leaves its process's last attempt only closed: Probe opens the next
\* one when the last is closed, and a process that waits leaves only on a closed
\* or an answered one.
LEMMA LinksStep ==
  ASSUME InstanceTypeOK, AttemptsAreCounted, LinksAreCurrent, [Next]_vars
  PROVE  LinksAreCurrent'
  <1>. USE DEF client, server
  <1>types. /\ pc \in [Processes -> {"off", "probe", "wait", "listen", "starting", "running", "gone"}]
            /\ attempt \in [Processes -> 0..2] /\ link \in [Attempts -> Links]
    BY DEF InstanceTypeOK
  <1>pairs. \A t \in Attempts : t[1] \in Processes /\ t[2] \in 0..2
    BY AttemptPairs
  <1>none. NoLink.state = "none"
    BY DEF NoLink
  <1>1. ASSUME NEW p \in Processes, Start(p) \/ Listen(p) \/ EnableCommandNotifications(p)
        PROVE  LinksAreCurrent'
    <2>1. UNCHANGED <<link, attempt>> /\ pc[p] \notin {"wait", "gone"}
          /\ \A q \in Processes : q # p => pc'[q] = pc[q]
      BY <1>1, <1>types DEF Start, Listen, EnableCommandNotifications
    <2>. QED BY <2>1, <1>pairs DEF LinksAreCurrent
  <1>2. ASSUME NEW p \in Processes, Probe(p) PROVE LinksAreCurrent'
    <2>1. /\ pc[p] = "probe" /\ attempt[p] + 1 \in 0..2 /\ attempt[p] \in 0..2
          /\ attempt'[p] = attempt[p] + 1 /\ \A q \in Processes : q # p => attempt'[q] = attempt[q]
          /\ \A q \in Processes : q # p => pc'[q] = pc[q]
      BY <1>2, <1>types DEF Probe, AttemptsAreCounted
    <2>2. <<p, attempt[p] + 1>> \in Attempts
      BY <2>1, AttemptPairs
    <2>3. \A t \in Attempts : t[1] = p => link[t].state \notin {"queued", "open", "answered", "dropped"}
      BY <2>1 DEF LinksAreCurrent
    <2>4. CASE link' = link
      BY <2>1, <2>3, <2>4, <1>pairs DEF LinksAreCurrent
    <2>5. CASE /\ link' = [link EXCEPT ![<<p, attempt[p] + 1>>] =
                              [to |-> owner, state |-> "queued", reply |-> "none"]]
               /\ pc' = [pc EXCEPT ![p] = "wait"]
      <3>. SUFFICES ASSUME NEW t \in Attempts
                    PROVE  (/\ t[2] = 0 => link[t] = NoLink
                            /\ link[t].state \in {"queued", "open"} => pc[t[1]] = "wait"
                            /\ link[t].state = "answered" => pc[t[1]] \in {"wait", "gone"}
                            /\ link[t].state = "dropped" => pc[t[1]] = "gone"
                            /\ link[t].state \in {"queued", "open", "answered", "dropped"}
                                 => t[2] = attempt[t[1]])'
        BY DEF LinksAreCurrent
      <3>1. CASE t = <<p, attempt[p] + 1>>
        <4>1. link'[t].state = "queued" /\ pc'[p] = "wait"
          BY <2>2, <2>5, <3>1, <1>types
        <4>2. t[1] = p /\ t[2] = attempt[p] + 1
          BY <2>1, <3>1, AttemptPairs
        <4>. QED BY <4>1, <4>2, <2>1
      <3>2. CASE t # <<p, attempt[p] + 1>>
        <4>1. link'[t] = link[t]
          BY <2>2, <2>5, <3>2, <1>types
        <4>. QED BY <4>1, <2>1, <2>3, <1>pairs DEF LinksAreCurrent
      <3>. QED BY <3>1, <3>2
    <2>. QED BY <1>2, <2>4, <2>5 DEF Probe
  <1>3. ASSUME NEW p \in Processes, Receive(p) \/ LinkFails(p) PROVE LinksAreCurrent'
    <2>1. /\ UNCHANGED <<link, attempt>> /\ pc[p] = "wait"
          /\ \A q \in Processes : q # p => pc'[q] = pc[q]
          /\ \/ link[Current(p)].state = "answered" /\ pc'[p] = "gone"
             \/ link[Current(p)].state = "closed"
      BY <1>3, <1>types DEF Receive, LinkFails
    <2>2. \A t \in Attempts : t[1] = p /\ t[2] = attempt[p] => t = Current(p)
      BY AttemptPairs DEF Current
    <2>3. \A t \in Attempts : t[1] = p /\ link[t].state \in {"queued", "open", "answered", "dropped"}
                               => link[t].state = "answered" /\ pc'[p] = "gone"
      BY <2>1, <2>2 DEF LinksAreCurrent
    <2>. QED BY <2>1, <2>3, <1>pairs DEF LinksAreCurrent
  <1>4. ASSUME NEW s \in Processes, NEW t \in Attempts, Accept(s, t) PROVE LinksAreCurrent'
    <2>1. UNCHANGED <<pc, attempt>>
      BY <1>4 DEF Accept
    <2>2. /\ \A u \in Attempts : u # t => link'[u] = link[u]
          /\ link[t].state = "queued" /\ link'[t].state \in {"open", "answered", "closed"}
      BY <1>4, AcceptOnLink
    <2>3. t[2] # 0
      BY <2>2, <1>none DEF LinksAreCurrent
    <2>. QED BY <2>1, <2>2, <2>3 DEF LinksAreCurrent
  <1>5. ASSUME NEW s \in Processes, NEW result \in Outcomes, BatchEnds(s, result) PROVE LinksAreCurrent'
    <2>1. /\ attempt' = attempt /\ pc[s] = "running"
          /\ pc' = pc \/ pc' = [pc EXCEPT ![s] = "gone"]
      BY <1>5 DEF BatchEnds
    <2>2. \A q \in Processes : pc[q] \in {"wait", "gone"} => pc'[q] = pc[q]
      BY <2>1, <1>types
    <2>3. \A t \in Attempts : \/ link'[t] = link[t]
                              \/ link[t].state = "open" /\ link'[t].state = "answered"
                              \/ link[t].state \in {"queued", "open"} /\ link'[t].state = "closed"
      BY <1>5, BatchEndsOnLink
    <2>4. \A t \in Attempts : t[2] = 0 => link'[t] = link[t]
      BY <2>3, <1>none DEF LinksAreCurrent
    <2>. QED BY <2>1, <2>2, <2>3, <2>4, <1>pairs DEF LinksAreCurrent
  <1>6. ASSUME NEW p \in Processes, Dies(p) PROVE LinksAreCurrent'
    <2>1. /\ attempt' = attempt /\ pc[p] # "gone" /\ pc'[p] = "gone"
          /\ \A q \in Processes : q # p => pc'[q] = pc[q]
      BY <1>6, <1>types DEF Dies
    <2>2. \A t \in Attempts :
            \/ link'[t] = link[t] /\ ~(t[1] = p /\ link[t].state \in {"queued", "open", "answered"})
            \/ t[1] = p /\ link[t].state \in {"queued", "open", "answered"} /\ link'[t].state = "dropped"
            \/ link[t].state \in {"queued", "open"} /\ link'[t].state = "closed"
      BY <1>6, DiesOnLink
    <2>3. \A t \in Attempts : t[2] = 0 => link'[t] = link[t]
      BY <2>2, <1>none DEF LinksAreCurrent
    <2>. QED BY <2>1, <2>2, <2>3, <1>pairs DEF LinksAreCurrent
  <1>7. ASSUME NEW t \in Attempts, LoseReply(t) PROVE LinksAreCurrent'
    <2>1. UNCHANGED <<pc, attempt>> /\ link[t].state = "answered"
          /\ \A u \in Attempts : u # t => link'[u] = link[u]
      BY <1>7, <1>types DEF LoseReply
    <2>2. link'[t].state = "closed"
      BY <1>7, <1>types, LinkUpdates DEF LoseReply, Outcomes
    <2>3. t[2] # 0
      BY <2>1, <1>none DEF LinksAreCurrent
    <2>. QED BY <2>1, <2>2, <2>3 DEF LinksAreCurrent
  <1>8. CASE UNCHANGED <<pc, attempt, link>>
    BY <1>8 DEF LinksAreCurrent
  <1>. QED
    BY <1>1, <1>2, <1>3, <1>4, <1>5, <1>6, <1>7, <1>8
    DEF Next, Acquire, RequestOwnCommit, Disconnected, vars

\* Requests come in with their connection, and leave the process that holds them
\* before the connection is answered or closed.
LEMMA HeldStep ==
  ASSUME InstanceTypeOK, AttemptsAreCounted, LinksAreCurrent, RequestsAreHeld, [Next]_vars
  PROVE  RequestsAreHeld'
  <1>. USE DEF client, server
  <1>types. /\ pc \in [Processes -> {"off", "probe", "wait", "listen", "starting", "running", "gone"}]
            /\ attempt \in [Processes -> 0..2] /\ link \in [Attempts -> Links]
            /\ pending \in [Processes -> SUBSET Attempts] /\ waiting \in [Processes -> SUBSET Attempts]
    BY DEF InstanceTypeOK
  <1>. SUFFICES ASSUME NEW r \in Processes, NEW u \in Attempts
                PROVE  /\ u \in pending'[r] => HeldBy(r, u)'
                       /\ u \in waiting'[r] => HeldBy(r, u)' \/ (u = Own(r) /\ pc'[r] = "running")
    BY DEF RequestsAreHeld, Own
  <1>held. /\ u \in pending[r] => HeldBy(r, u)
           /\ u \in waiting[r] => HeldBy(r, u) \/ (u = Own(r) /\ pc[r] = "running")
    BY DEF RequestsAreHeld
  <1>keep. ASSUME link'[u] = link[u] PROVE HeldBy(r, u) => HeldBy(r, u)'
    BY <1>keep DEF HeldBy
  <1>1. ASSUME NEW p \in Processes, Start(p) \/ Listen(p) \/ Receive(p) \/ LinkFails(p)
        PROVE  /\ u \in pending'[r] => HeldBy(r, u)'
               /\ u \in waiting'[r] => HeldBy(r, u)' \/ (u = Own(r) /\ pc'[r] = "running")
    <2>1. UNCHANGED <<link, pending, waiting>> /\ (pc[r] = "running" => pc'[r] = "running")
      BY <1>1, <1>types DEF Start, Listen, Receive, LinkFails
    <2>. QED BY <2>1, <1>held, <1>keep
  <1>2. ASSUME NEW p \in Processes, Probe(p)
        PROVE  /\ u \in pending'[r] => HeldBy(r, u)'
               /\ u \in waiting'[r] => HeldBy(r, u)' \/ (u = Own(r) /\ pc'[r] = "running")
    <2>1. /\ UNCHANGED <<pending, waiting>> /\ pc[p] = "probe" /\ attempt[p] + 1 \in 0..2
          /\ (pc[r] = "running" => pc'[r] = "running")
      BY <1>2, <1>types DEF Probe, AttemptsAreCounted
    <2>2. u[1] = p => ~HeldBy(r, u)
      BY <2>1 DEF LinksAreCurrent, HeldBy
    <2>3. u[1] # p => link'[u] = link[u]
      <3>1. u[1] # p => u # <<p, attempt[p] + 1>>
        BY <2>1, AttemptPairs
      <3>. QED BY <1>2, <1>types, <3>1 DEF Probe
    <2>. QED BY <2>1, <2>2, <2>3, <1>held, <1>keep
  <1>3. ASSUME NEW s \in Processes, EnableCommandNotifications(s)
        PROVE  /\ u \in pending'[r] => HeldBy(r, u)'
               /\ u \in waiting'[r] => HeldBy(r, u)' \/ (u = Own(r) /\ pc'[r] = "running")
    <2>1. /\ Deliver(s, queue[s], pending[s], TRUE) /\ UNCHANGED <<link, pending>>
          /\ (pc[r] = "running" => pc'[r] = "running")
      BY <1>3, <1>types DEF EnableCommandNotifications
    <2>2. u \in waiting'[r] => u \in waiting[r] \/ u \in pending[r]
      <3>1. queue[s] \in SUBSET Attempts
        BY DEF InstanceTypeOK
      <3>. QED BY <2>1, <3>1, DeliverTypes
    <2>. QED BY <2>1, <2>2, <1>held, <1>keep
  <1>4. ASSUME NEW s \in Processes, RequestOwnCommit(s)
        PROVE  /\ u \in pending'[r] => HeldBy(r, u)'
               /\ u \in waiting'[r] => HeldBy(r, u)' \/ (u = Own(r) /\ pc'[r] = "running")
    <2>1. /\ UNCHANGED <<link, pending, pc>> /\ pc[s] = "running"
          /\ u \in waiting'[r] => u \in waiting[r] \/ (r = s /\ u = Own(s))
      BY <1>4, <1>types DEF RequestOwnCommit
    <2>. QED BY <2>1, <1>held, <1>keep
  <1>5. ASSUME NEW s \in Processes, NEW t \in Attempts, Accept(s, t)
        PROVE  /\ u \in pending'[r] => HeldBy(r, u)'
               /\ u \in waiting'[r] => HeldBy(r, u)' \/ (u = Own(r) /\ pc'[r] = "running")
    <2>1. /\ u # t => link'[u] = link[u]
          /\ link'[t].to = s /\ link[t].state = "queued" /\ UNCHANGED pc
      BY <1>5, AcceptOnLink DEF Accept
    <2>2. HeldBy(r, u) => u # t /\ HeldBy(r, u)'
      BY <2>1, <1>keep DEF HeldBy
    <2>3. CASE UNCHANGED <<pending, waiting>>
      BY <2>1, <2>2, <2>3, <1>held
    <2>4. CASE ProcessSocket(s, t) /\ kind[t[1]] = "commit"
      <3>1. /\ link' = [link EXCEPT ![t].state = "open"] /\ pending' = [pending EXCEPT ![s] = @ \cup {t}]
            /\ Deliver(s, queue[s] \cup {t}, pending'[s], s \in enabled)
        BY <2>4 DEF ProcessSocket
      <3>2. link'[t].state = "open"
        BY <3>1, <1>types DEF Links
      <3>3. t[2] # 0
        BY <2>1 DEF LinksAreCurrent, NoLink
      <3>4. u \in pending'[r] => u \in pending[r] \/ (u = t /\ r = s)
        BY <3>1, <1>types
      <3>5. u \in waiting'[r] => u \in waiting[r] \/ u \in pending'[r]
        BY <3>1, <1>types DEF Deliver
      <3>6. HeldBy(s, t)'
        BY <2>1, <3>2, <3>3 DEF HeldBy
      <3>. QED BY <2>1, <2>2, <3>4, <3>5, <3>6, <1>held
    <2>. QED BY <1>5, <2>3, <2>4 DEF Accept, ProcessSocket
  <1>6. ASSUME NEW s \in Processes, NEW t \in Attempts, Disconnected(s, t)
        PROVE  /\ u \in pending'[r] => HeldBy(r, u)'
               /\ u \in waiting'[r] => HeldBy(r, u)' \/ (u = Own(r) /\ pc'[r] = "running")
    <2>1. UNCHANGED <<link, waiting, pc>> /\ pending'[r] \subseteq pending[r]
      BY <1>6, <1>types DEF Disconnected
    <2>. QED BY <2>1, <1>held, <1>keep
  <1>7. ASSUME NEW s \in Processes, NEW result \in Outcomes, BatchEnds(s, result)
        PROVE  /\ u \in pending'[r] => HeldBy(r, u)'
               /\ u \in waiting'[r] => HeldBy(r, u)' \/ (u = Own(r) /\ pc'[r] = "running")
    <2>link. \/ link'[u] = link[u]
             \/ u \in waiting[s] /\ u \in pending[s]
             \/ link[u].to = s /\ Own(s) \in waiting[s]
      BY <1>7, BatchEndsOnLink
    <2>other. r # s /\ HeldBy(r, u) => HeldBy(r, u)'
      <3>1. u \in pending[s] => link[u].to = s
        BY DEF RequestsAreHeld, HeldBy
      <3>. QED BY <2>link, <3>1, <1>keep DEF HeldBy
    <2>1. CASE Own(s) \in waiting[s]
      <3>1. Ends(s) /\ pc' = [pc EXCEPT ![s] = "gone"]
        BY <1>7, <2>1 DEF BatchEnds
      <3>2. CASE r = s
        BY <3>1, <3>2, EndsTypes
      <3>3. CASE r # s
        <4>1. pending'[r] = pending[r] /\ waiting'[r] = waiting[r] /\ pc'[r] = pc[r]
          BY <3>1, <3>3, EndsTypes, <1>types
        <4>. QED BY <4>1, <3>3, <2>other, <1>held
      <3>. QED BY <3>2, <3>3
    <2>2. CASE Own(s) \notin waiting[s]
      <3>1. /\ pending' = [pending EXCEPT ![s] = @ \ (waiting[s] \cap pending[s])]
            /\ waiting' = [waiting EXCEPT ![s] = {}] /\ pc' = pc
        BY <1>7, <2>2, Zenon DEF BatchEnds
      <3>2. CASE r = s
        <4>1. waiting'[s] = {} /\ (u \in pending'[s] => u \in pending[s] /\ u \notin waiting[s])
          BY <3>1, <1>types
        <4>. QED BY <4>1, <3>2, <2>2, <2>link, <1>held, <1>keep
      <3>3. CASE r # s
        <4>1. pending'[r] = pending[r] /\ waiting'[r] = waiting[r] /\ pc'[r] = pc[r]
          BY <3>1, <3>3, <1>types
        <4>. QED BY <4>1, <3>3, <2>other, <1>held
      <3>. QED BY <3>2, <3>3
    <2>. QED BY <2>1, <2>2
  <1>8. ASSUME NEW p \in Processes, Dies(p)
        PROVE  /\ u \in pending'[r] => HeldBy(r, u)'
               /\ u \in waiting'[r] => HeldBy(r, u)' \/ (u = Own(r) /\ pc'[r] = "running")
    <2>1. Ends(p) /\ pc' = [pc EXCEPT ![p] = "gone"]
      BY <1>8 DEF Dies
    <2>2. CASE r = p
      BY <2>1, <2>2, EndsTypes
    <2>3. CASE r # p
      <3>1. pending'[r] = pending[r] /\ waiting'[r] = waiting[r] /\ pc'[r] = pc[r]
        BY <2>1, <2>3, EndsTypes, <1>types
      <3>2. /\ link'[u].to = link[u].to
            /\ link'[u] = link[u] \/ link'[u].state = "dropped" \/ link[u].to = p
        BY <1>8, DiesOnLink
      <3>3. HeldBy(r, u) => HeldBy(r, u)'
        BY <3>2, <2>3 DEF HeldBy
      <3>. QED BY <3>1, <3>3, <1>held
    <2>. QED BY <2>2, <2>3
  <1>9. ASSUME NEW t \in Attempts, LoseReply(t)
        PROVE  /\ u \in pending'[r] => HeldBy(r, u)'
               /\ u \in waiting'[r] => HeldBy(r, u)' \/ (u = Own(r) /\ pc'[r] = "running")
    <2>1. UNCHANGED <<pending, waiting, pc>> /\ link[t].state = "answered"
          /\ (u # t => link'[u] = link[u])
      BY <1>9, <1>types DEF LoseReply
    <2>2. HeldBy(r, u) => u # t
      BY <2>1 DEF HeldBy
    <2>. QED BY <2>1, <2>2, <1>held, <1>keep
  <1>10. ASSUME UNCHANGED vars
         PROVE  /\ u \in pending'[r] => HeldBy(r, u)'
                /\ u \in waiting'[r] => HeldBy(r, u)' \/ (u = Own(r) /\ pc'[r] = "running")
    <2>1. UNCHANGED <<link, pending, waiting, pc>>
      BY <1>10 DEF vars
    <2>. QED BY <2>1, <1>held, <1>keep
  <1>. QED
    BY <1>1, <1>2, <1>3, <1>4, <1>5, <1>6, <1>7, <1>8, <1>9, <1>10 DEF Next, Acquire

\* A batch writes the outcome and the answer of the same requests; a request that
\* was answered is in no later batch.
LEMMA AnswersStep ==
  ASSUME InstanceInv, [Next]_vars
  PROVE  \A t \in Attempts :
           (kind[t[1]] = "commit" /\ link[t].state = "answered" => outcome[t] = link[t].reply)'
  <1>. USE DEF client, server
  <1>inv. InstanceTypeOK /\ AttemptsAreCounted /\ LinksAreCurrent /\ RequestsAreHeld /\ AnswersAreResults
    BY DEF InstanceInv
  <1>types. /\ attempt \in [Processes -> 0..2] /\ link \in [Attempts -> Links]
            /\ outcome \in [Attempts -> Results] /\ kind' = kind
    BY <1>inv DEF InstanceTypeOK, Next, Acquire, vars, Start, Probe, Receive, LinkFails, Listen,
       EnableCommandNotifications, RequestOwnCommit, Dies, Accept, Disconnected, BatchEnds, LoseReply
  <1>. SUFFICES ASSUME NEW u \in Attempts, kind[u[1]] = "commit", link'[u].state = "answered"
                PROVE  outcome'[u] = link'[u].reply
    BY <1>types
  <1>keep. ASSUME link'[u] = link[u], outcome'[u] = outcome[u] PROVE outcome'[u] = link'[u].reply
    BY <1>keep, <1>inv DEF AnswersAreResults
  <1>1. ASSUME NEW p \in Processes, Probe(p) PROVE outcome'[u] = link'[u].reply
    <2>1. outcome' = outcome /\ attempt[p] + 1 \in 0..2
      BY <1>1, <1>inv, <1>types DEF Probe, AttemptsAreCounted
    <2>2. <<p, attempt[p] + 1>> \in Attempts
      BY <2>1, AttemptPairs
    <2>3. u # <<p, attempt[p] + 1>> => link'[u] = link[u]
      BY <1>1, <2>2, <1>types DEF Probe
    <2>4. u = <<p, attempt[p] + 1>> => link'[u] = link[u] \/ link'[u].state = "queued"
      BY <1>1, <2>2, <1>types DEF Probe
    <2>. QED BY <2>1, <2>3, <2>4, <1>keep
  <1>2. ASSUME NEW s \in Processes, NEW t \in Attempts, Accept(s, t) PROVE outcome'[u] = link'[u].reply
    <2>1. outcome' = outcome
      BY <1>2 DEF Accept
    <2>2. link'[u] = link[u]
      BY <1>2, <1>inv, AcceptOnLink
    <2>. QED BY <2>1, <2>2, <1>keep
  <1>3. ASSUME NEW s \in Processes, NEW result \in Outcomes, BatchEnds(s, result)
        PROVE  outcome'[u] = link'[u].reply
    <2>1. outcome'[u] = IF u \in waiting[s] THEN result ELSE outcome[u]
      BY <1>3 DEF BatchEnds
    <2>2. \/ link'[u] = link[u]
          \/ u \in waiting[s] /\ link'[u].reply = result
      BY <1>3, <1>inv, BatchEndsOnLink
    <2>3. link[u].state = "answered" => u \notin waiting[s]
      <3>1. link[u].state = "answered" => u[2] # 0
        BY <1>inv DEF LinksAreCurrent, NoLink
      <3>2. u \in waiting[s] => HeldBy(s, u) \/ u = Own(s)
        BY <1>inv DEF RequestsAreHeld
      <3>. QED BY <3>1, <3>2, OwnAttempt DEF HeldBy
    <2>. QED BY <2>1, <2>2, <2>3, <1>keep
  <1>4. ASSUME NEW p \in Processes, Dies(p) PROVE outcome'[u] = link'[u].reply
    <2>1. outcome' = outcome
      BY <1>4 DEF Dies
    <2>2. link'[u] = link[u]
      BY <1>4, <1>inv, DiesOnLink
    <2>. QED BY <2>1, <2>2, <1>keep
  <1>5. ASSUME NEW t \in Attempts, LoseReply(t) PROVE outcome'[u] = link'[u].reply
    <2>1. outcome' = outcome /\ link' = [link EXCEPT ![t] = Closed(link[t])]
      BY <1>5 DEF LoseReply
    <2>2. Closed(link[t]).state = "closed"
      BY <1>types, LinkUpdates DEF Outcomes
    <2>. QED BY <2>1, <2>2, <1>types, <1>keep
  <1>6. CASE UNCHANGED <<link, outcome>>
    BY <1>6, <1>keep
  <1>. QED
    BY <1>1, <1>2, <1>3, <1>4, <1>5, <1>6
    DEF Next, Acquire, vars, Start, Receive, LinkFails, Listen, EnableCommandNotifications,
        RequestOwnCommit, Disconnected

\* A process that has exited with an answer stays as it is: nobody closes a
\* connection that was answered and read.
LEMMA ExitStep ==
  ASSUME InstanceInv, [Next]_vars
  PROVE  \A p \in Processes :
           (exit[p].how = "forwarded" => /\ pc[p] = "gone" /\ link[Current(p)].state = "answered"
                                         /\ link[Current(p)].reply = exit[p].result)'
  <1>. USE DEF client, server
  <1>inv. InstanceTypeOK /\ AttemptsAreCounted /\ LinksAreCurrent /\ AnswersAreResults
    BY DEF InstanceInv
  <1>types. /\ pc \in [Processes -> {"off", "probe", "wait", "listen", "starting", "running", "gone"}]
            /\ attempt \in [Processes -> 0..2] /\ link \in [Attempts -> Links]
            /\ exit \in [Processes -> [how : {"none", "forwarded", "own", "died"}, result : Results]]
    BY <1>inv DEF InstanceTypeOK
  <1>. SUFFICES ASSUME NEW q \in Processes, exit'[q].how = "forwarded"
                PROVE  /\ pc'[q] = "gone" /\ link'[Current(q)'].state = "answered"
                       /\ link'[Current(q)'].reply = exit'[q].result
    OBVIOUS
  <1>current. Current(q) \in Attempts /\ Current(q)[1] = q /\ Current(q)' = <<q, attempt'[q]>>
    BY <1>inv, CurrentAttempt DEF Current
  <1>1. ASSUME Receive(q)
        PROVE  /\ pc'[q] = "gone" /\ link'[Current(q)'].state = "answered"
               /\ link'[Current(q)'].reply = exit'[q].result
    <2>1. /\ link[Current(q)].state = "answered" /\ pc'[q] = "gone" /\ UNCHANGED <<link, attempt>>
          /\ exit'[q].result = link[Current(q)].reply
      BY <1>1, <1>types DEF Receive
    <2>. QED BY <2>1, <1>current DEF Current
  <1>2. CASE ~Receive(q)
    <2>1. exit'[q] = exit[q]
      <3>1. ASSUME NEW p \in Processes, Receive(p) PROVE exit'[q] = exit[q]
        BY <1>2, <3>1, <1>types DEF Receive
      <3>2. ASSUME NEW p \in Processes, Dies(p) PROVE exit'[q] = exit[q]
        <4>1. exit' = [exit EXCEPT ![p] = [how |-> "died", result |-> "none"]]
          BY <3>2 DEF Dies
        <4>. QED BY <4>1, <1>types
      <3>3. ASSUME NEW s \in Processes, NEW result \in Outcomes, BatchEnds(s, result)
            PROVE  exit'[q] = exit[q]
        <4>1. exit' = exit \/ exit' = [exit EXCEPT ![s] = [how |-> "own", result |-> result]]
          BY <3>3 DEF BatchEnds
        <4>. QED BY <4>1, <1>types
      <3>4. CASE UNCHANGED exit
        BY <3>4
      <3>. QED
        BY <3>1, <3>2, <3>3, <3>4 DEF Next, Acquire, vars, Start, Probe, LinkFails, Listen,
           EnableCommandNotifications, RequestOwnCommit, Accept, Disconnected, LoseReply
    <2>2. /\ pc[q] = "gone" /\ link[Current(q)].state = "answered"
          /\ link[Current(q)].reply = exit[q].result
      BY <2>1, <1>inv DEF AnswersAreResults
    <2>3. pc'[q] = "gone" /\ attempt'[q] = attempt[q] /\ link'[Current(q)] = link[Current(q)]
      <3>1. ASSUME NEW p \in Processes, Start(p) \/ LinkFails(p) \/ Listen(p)
                   \/ EnableCommandNotifications(p) \/ Receive(p)
            PROVE  pc'[q] = "gone" /\ attempt'[q] = attempt[q] /\ link'[Current(q)] = link[Current(q)]
        BY <2>2, <3>1, <1>types DEF Start, LinkFails, Listen, EnableCommandNotifications, Receive
      <3>2. ASSUME NEW p \in Processes, Probe(p)
            PROVE  pc'[q] = "gone" /\ attempt'[q] = attempt[q] /\ link'[Current(q)] = link[Current(q)]
        <4>1. p # q /\ attempt[p] + 1 \in 0..2 /\ attempt'[q] = attempt[q] /\ pc'[q] = pc[q]
          BY <2>2, <3>2, <1>types, <1>inv DEF Probe, AttemptsAreCounted
        <4>2. Current(q) # <<p, attempt[p] + 1>>
          BY <4>1, <1>current, AttemptPairs
        <4>3. link'[Current(q)] = link[Current(q)]
          BY <3>2, <4>2, <1>types, <1>current DEF Probe
        <4>. QED BY <2>2, <4>1, <4>3
      <3>3. ASSUME NEW p \in Processes, Dies(p)
            PROVE  pc'[q] = "gone" /\ attempt'[q] = attempt[q] /\ link'[Current(q)] = link[Current(q)]
        <4>1. p # q /\ attempt' = attempt /\ pc'[q] = pc[q]
          BY <2>2, <3>3, <1>types DEF Dies
        <4>. QED BY <2>2, <3>3, <4>1, <1>inv, <1>current, DiesOnLink
      <3>4. ASSUME NEW s \in Processes, NEW t \in Attempts, Accept(s, t)
            PROVE  pc'[q] = "gone" /\ attempt'[q] = attempt[q] /\ link'[Current(q)] = link[Current(q)]
        <4>1. UNCHANGED <<pc, attempt>>
          BY <3>4 DEF Accept
        <4>2. link[t].state = "queued" /\ (Current(q) # t => link'[Current(q)] = link[Current(q)])
          BY <3>4, <1>inv, <1>current, AcceptOnLink
        <4>. QED BY <2>2, <4>1, <4>2
      <3>5. ASSUME NEW s \in Processes, NEW result \in Outcomes, BatchEnds(s, result)
            PROVE  pc'[q] = "gone" /\ attempt'[q] = attempt[q] /\ link'[Current(q)] = link[Current(q)]
        <4>1. attempt' = attempt /\ (pc' = pc \/ pc' = [pc EXCEPT ![s] = "gone"])
          BY <3>5 DEF BatchEnds
        <4>2. pc'[q] = "gone"
          BY <2>2, <4>1, <1>types
        <4>. QED BY <2>2, <3>5, <4>1, <4>2, <1>inv, <1>current, BatchEndsOnLink
      <3>6. ASSUME NEW t \in Attempts, LoseReply(t)
            PROVE  pc'[q] = "gone" /\ attempt'[q] = attempt[q] /\ link'[Current(q)] = link[Current(q)]
        <4>1. UNCHANGED <<pc, attempt>> /\ pc[t[1]] = "wait"
              /\ (Current(q) # t => link'[Current(q)] = link[Current(q)])
          BY <3>6, <1>types, <1>current DEF LoseReply
        <4>. QED BY <2>2, <4>1, <1>current
      <3>7. CASE UNCHANGED <<pc, attempt, link>>
        BY <2>2, <3>7 DEF Current
      <3>. QED
        BY <3>1, <3>2, <3>3, <3>4, <3>5, <3>6, <3>7
        DEF Next, Acquire, vars, RequestOwnCommit, Disconnected
    <2>. QED BY <2>1, <2>2, <2>3, <1>current DEF Current
  <1>. QED BY <1>1, <1>2

\* No process has been started, and nothing was handed over.
LEMMA InstanceInvInit == Init => InstanceInv
  <1>. SUFFICES ASSUME Init PROVE InstanceInv
    OBVIOUS
  <1>1. NoLink \in Links /\ NoLink.state = "none"
    BY DEF NoLink, Links, Results
  <1>2. [how |-> "none", result |-> "none"] \in [how : {"none", "forwarded", "own", "died"}, result : Results]
    BY DEF Results
  <1>3. /\ \A t \in Attempts : link[t] = NoLink
        /\ \A p \in Processes : pending[p] = {} /\ waiting[p] = {} /\ pc[p] = "off" /\ attempt[p] = 0
        /\ \A p \in Processes : exit[p].how = "none"
    BY DEF Init
  <1>4. InstanceTypeOK
    BY <1>1, <1>2 DEF Init, InstanceTypeOK, Results
  <1>5. AttemptsAreCounted /\ LinksAreCurrent /\ RequestsAreHeld /\ AnswersAreResults
    BY <1>1, <1>3, AttemptPairs
    DEF AttemptsAreCounted, LinksAreCurrent, RequestsAreHeld, AnswersAreResults
  <1>. QED BY <1>4, <1>5 DEF InstanceInv

\* Every step of every process keeps the invariant.
LEMMA InstanceInvStep == InstanceInv /\ [Next]_vars => InstanceInv'
  <1>. SUFFICES ASSUME InstanceInv, [Next]_vars PROVE InstanceInv'
    OBVIOUS
  <1>1. InstanceTypeOK' /\ AttemptsAreCounted' /\ LinksAreCurrent' /\ RequestsAreHeld'
    BY InstanceTypeStep, AttemptsStep, LinksStep, HeldStep DEF InstanceInv
  <1>2. AnswersAreResults'
    BY AnswersStep, ExitStep DEF AnswersAreResults
  <1>. QED BY <1>1, <1>2 DEF InstanceInv

-----------------------------------------------------------------------------
(***************************************************************************)
(* The theorems.  Fairness is not used.                                    *)
(***************************************************************************)

\* The inductive invariant holds of every behaviour.
THEOREM InstanceInvariant == Spec => []InstanceInv
  BY InstanceInvInit, InstanceInvStep, PTL DEF Spec

\* The exit code a forwarded commit returns is the result of the batch the primary
\* ran for this very request.
THEOREM ForwardedStaysDone == Spec => []ForwardedIsDone
  <1>1. InstanceInv => ForwardedIsDone
    <2>. SUFFICES ASSUME InstanceInv, NEW p \in Processes, kind[p] = "commit", exit[p].how = "forwarded"
                  PROVE  outcome[Current(p)] = exit[p].result
      BY DEF ForwardedIsDone
    <2>1. Current(p) \in Attempts /\ Current(p)[1] = p
      BY CurrentAttempt DEF InstanceInv
    <2>. QED BY <2>1 DEF InstanceInv, AnswersAreResults
  <1>. QED BY <1>1, InstanceInvariant, PTL

\* No start command is worked on twice: forwarding again and falling back to the
\* own commit both come after the primary has let the earlier request go.
THEOREM OneExecutorOnly == Spec => []OneExecutor
  <1>1. InstanceInv => OneExecutor
    <2>. SUFFICES ASSUME InstanceInv, NEW p \in Processes
                  PROVE  Cardinality({t \in {p} \X (0..2) : \E s \in Processes :
                                        t \in waiting[s] \cup (queue[s] \cap pending[s])}) <= 1
      BY DEF OneExecutor
    <2>. DEFINE S == {t \in {p} \X (0..2) : \E s \in Processes :
                        t \in waiting[s] \cup (queue[s] \cap pending[s])}
    <2>1. ASSUME NEW t \in S
          PROVE  /\ t \in Attempts /\ t[1] = p
                 /\ (t = Own(p) /\ pc[p] = "running") \/ (pc[p] \in {"wait", "gone"} /\ t[2] = attempt[p])
      <3>1. t \in Attempts /\ t[1] = p
        BY <2>1 DEF Attempts
      <3>2. PICK s \in Processes : t \in waiting[s] \cup (queue[s] \cap pending[s])
        BY <2>1
      <3>3. HeldBy(s, t) \/ (t = Own(s) /\ pc[s] = "running")
        BY <3>1, <3>2 DEF InstanceInv, RequestsAreHeld
      <3>4. HeldBy(s, t) => pc[p] \in {"wait", "gone"} /\ t[2] = attempt[p]
        BY <3>1 DEF HeldBy, InstanceInv, LinksAreCurrent
      <3>5. t = Own(s) => s = p
        BY <3>1, OwnAttempt
      <3>. QED BY <3>1, <3>3, <3>4, <3>5
    <2>2. \A t, u \in S : t = u
      <3>. SUFFICES ASSUME NEW t \in S, NEW u \in S PROVE t = u
        OBVIOUS
      <3>1. \/ t = Own(p) /\ u = Own(p)
            \/ t[1] = u[1] /\ t[2] = u[2]
        BY <2>1
      <3>2. t = <<t[1], t[2]>> /\ u = <<u[1], u[2]>>
        BY <2>1, AttemptPairs
      <3>. QED BY <3>1, <3>2
    <2>3. CASE S = {}
      BY <2>3, FS_EmptySet
    <2>4. CASE S # {}
      <3>1. PICK x : x \in S
        BY <2>4
      <3>2. S = {x}
        BY <3>1, <2>2
      <3>3. Cardinality({x}) = 1
        BY FS_Singleton
      <3>. QED BY <3>2, <3>3
    <2>. QED BY <2>3, <2>4
  <1>. QED BY <1>1, InstanceInvariant, PTL
=============================================================================
