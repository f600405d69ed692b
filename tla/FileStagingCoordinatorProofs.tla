-------------------- MODULE FileStagingCoordinatorProofs --------------------
(***************************************************************************)
(* The coordinator's invariants hold for every set of requesters.          *)
(***************************************************************************)
EXTENDS FileStagingCoordinator, TLAPS

(***************************************************************************)
(* The inductive invariant: the three safety invariants need each other.   *)
(* releaseExternalBatch may start a batch because OwnershipAgrees says no  *)
(* other one executes, and OneResultForAll needs the queue to be exactly   *)
(* the set of waiting requesters.                                          *)
(***************************************************************************)
CoordinatorInv ==
  /\ CoordinatorTypeOK
  /\ OwnershipAgrees
  /\ QueueHoldsTheWaiters
  /\ NoStrandedRequest

\* What notifyCompletion over a batch leaves behind: exactly the members of the
\* batch have left the waiting state, and all of them carry the result.
LEMMA NotifiedAnswers ==
  ASSUME NEW seen \in [Requests -> {"none", "waiting"} \cup Outcomes],
         NEW batch \in SUBSET Requests, NEW outcome \in Outcomes
  PROVE  /\ Notified(seen, batch, outcome) \in [Requests -> {"none", "waiting"} \cup Outcomes]
         /\ {r \in Requests : Notified(seen, batch, outcome)[r] = "waiting"}
              = {r \in Requests : seen[r] = "waiting"} \ batch
  BY DEF Notified, Outcomes

\* postOwnershipEvent ends in an owner of the table and nowhere else.
LEMMA PostOwnershipEventEnds ==
  ASSUME NEW event, PostOwnershipEvent(event)
  PROVE  /\ ownership' \in Ownerships
         /\ event \in {"CommandCompleted", "ExternalCompleted"} => ownership' = "Idle"
         /\ event \in {"CommandHandedOff", "ExternalReserved"} => ownership' = "External"
         /\ event \in {"CommandCompleted", "CommandHandedOff"} => ownership = "Command"
         /\ event = "ExternalReserved" => ownership = "Idle"
         /\ event = "ExternalCompleted" => ownership = "External"
  BY DEF PostOwnershipEvent, OwnershipTransitions, Ownerships

\* startCommandBatch keeps the queue and the waiting requesters equal, starts at
\* most one owner, and leaves a queued request behind only if it is suspended or
\* a batch is now running.
LEMMA StartCommandBatchKeeps ==
  ASSUME NEW queue \in SUBSET Requests, NEW held \in BOOLEAN,
         NEW seen \in [Requests -> {"none", "waiting"} \cup Outcomes],
         queue = {r \in Requests : seen[r] = "waiting"},
         StartCommandBatch(queue, held, seen)
  PROVE  /\ ownership' \in {"Idle", "Command"}
         /\ operation' \in BOOLEAN
         /\ operation' <=> ownership' = "Command"
         /\ completions' \in SUBSET Requests
         /\ clients' \in [Requests -> {"none", "waiting"} \cup Outcomes]
         /\ completions' = {r \in Requests : clients'[r] = "waiting"}
         /\ completions' # {} => ownership' # "Idle" \/ held
<1>1. CASE (held \/ queue = {}) /\ completions' = queue /\ clients' = seen
            /\ ownership' = "Idle" /\ operation' = FALSE
  BY <1>1
<1>2. CASE /\ ownership' = "Command" /\ operation' = TRUE
           /\ completions' = queue /\ clients' = seen
  BY <1>2
<1>3. CASE /\ ownership' = "Idle" /\ operation' = FALSE /\ completions' = {}
           /\ clients' = Notified(seen, queue, "Failed")
  <2>1. "Failed" \in Outcomes
    BY DEF Outcomes
  <2>2. /\ clients' \in [Requests -> {"none", "waiting"} \cup Outcomes]
        /\ {r \in Requests : clients'[r] = "waiting"} = {}
    BY <1>3, <2>1, NotifiedAnswers
  <2>. QED BY <1>3, <2>2
<1>. QED BY <1>1, <1>2, <1>3 DEF StartCommandBatch

\* The members of a new FileStagingCoordinator satisfy the invariant.
LEMMA CoordinatorInvInit == CoordinatorInit => CoordinatorInv
  BY DEF CoordinatorInit, CoordinatorInv, CoordinatorTypeOK, OwnershipAgrees,
         QueueHoldsTheWaiters, NoStrandedRequest, Ownerships

\* Every call of the coordinator, and the end of a batch, keeps the invariant.
LEMMA CoordinatorInvStep ==
  CoordinatorInv /\ [CoordinatorNext]_coordinatorVars => CoordinatorInv'
<1>. SUFFICES ASSUME CoordinatorInv, [CoordinatorNext]_coordinatorVars
              PROVE  CoordinatorInv'
  OBVIOUS
<1>. USE DEF CoordinatorInv, CoordinatorTypeOK
<1>1. ASSUME NEW r \in Requests, RequestCommit(r)
      PROVE  CoordinatorInv'
  <2>. DEFINE seen == [clients EXCEPT ![r] = "waiting"]
              queue == completions \cup {r}
  <2>1. /\ seen \in [Requests -> {"none", "waiting"} \cup Outcomes]
        /\ queue \in SUBSET Requests
        /\ queue = {q \in Requests : seen[q] = "waiting"}
    BY DEF QueueHoldsTheWaiters
  <2>2. UNCHANGED <<suspended, externalCompletion, lease>>
    BY <1>1 DEF RequestCommit
  <2>3. CASE ownership = "Idle"
    <3>1. StartCommandBatch(queue, suspended, seen)
      BY <1>1, <2>3 DEF RequestCommit
    <3>. HIDE DEF seen, queue
    <3>2. /\ ownership' \in {"Idle", "Command"}
          /\ operation' \in BOOLEAN
          /\ operation' <=> ownership' = "Command"
          /\ completions' \in SUBSET Requests
          /\ clients' \in [Requests -> {"none", "waiting"} \cup Outcomes]
          /\ completions' = {q \in Requests : clients'[q] = "waiting"}
          /\ completions' # {} => ownership' # "Idle" \/ suspended
      BY <3>1, <2>1, StartCommandBatchKeeps
    <3>. QED BY <2>2, <2>3, <3>2
             DEF OwnershipAgrees, QueueHoldsTheWaiters, NoStrandedRequest, Ownerships
  <2>4. CASE ownership # "Idle"
    <3>1. completions' = queue /\ clients' = seen /\ UNCHANGED <<ownership, operation>>
      BY <1>1, <2>4 DEF RequestCommit
    <3>. HIDE DEF seen, queue
    <3>. QED BY <2>1, <2>2, <2>4, <3>1
             DEF OwnershipAgrees, QueueHoldsTheWaiters, NoStrandedRequest
  <2>. QED BY <2>3, <2>4
<1>2. ASSUME NEW held \in BOOLEAN, SetSuspended(held)
      PROVE  CoordinatorInv'
  <2>1. suspended' = held /\ UNCHANGED <<externalCompletion, lease>>
    BY <1>2 DEF SetSuspended
  <2>2. CASE ~held /\ ownership = "Idle"
    <3>1. StartCommandBatch(completions, FALSE, clients)
      BY <1>2, <2>2 DEF SetSuspended
    <3>2. /\ ownership' \in {"Idle", "Command"}
          /\ operation' \in BOOLEAN
          /\ operation' <=> ownership' = "Command"
          /\ completions' \in SUBSET Requests
          /\ clients' \in [Requests -> {"none", "waiting"} \cup Outcomes]
          /\ completions' = {q \in Requests : clients'[q] = "waiting"}
          /\ completions' # {} => ownership' # "Idle" \/ FALSE
      BY <3>1, StartCommandBatchKeeps DEF QueueHoldsTheWaiters
    <3>. QED BY <2>1, <2>2, <3>2
             DEF OwnershipAgrees, QueueHoldsTheWaiters, NoStrandedRequest, Ownerships
  <2>3. CASE ~(~held /\ ownership = "Idle")
    <3>1. UNCHANGED <<ownership, operation, completions, clients>>
      BY <1>2, <2>3 DEF SetSuspended
    <3>2. CASE held
      BY <2>1, <3>1, <3>2 DEF OwnershipAgrees, QueueHoldsTheWaiters, NoStrandedRequest
    <3>3. CASE ownership # "Idle"
      BY <2>1, <3>1, <3>3 DEF OwnershipAgrees, QueueHoldsTheWaiters, NoStrandedRequest
    <3>. QED BY <2>3, <3>2, <3>3
  <2>. QED BY <2>2, <2>3
<1>3. CASE ReserveNow
  <2>1. ownership' = "External" /\ ownership = "Idle"
    BY <1>3, PostOwnershipEventEnds DEF ReserveNow
  <2>. QED BY <1>3, <2>1
           DEF ReserveNow, OwnershipAgrees, QueueHoldsTheWaiters, NoStrandedRequest, Ownerships
<1>4. CASE ReserveLater
  BY <1>4 DEF ReserveLater, OwnershipAgrees, QueueHoldsTheWaiters, NoStrandedRequest
<1>5. ASSUME NEW outcome \in Outcomes, Finish(outcome)
      PROVE  CoordinatorInv'
  <2>1. /\ clients' \in [Requests -> {"none", "waiting"} \cup Outcomes]
        /\ {q \in Requests : clients'[q] = "waiting"} = {}
    <3>1. clients' = Notified(clients, completions, outcome)
      BY <1>5 DEF Finish
    <3>. QED BY <3>1 DEF QueueHoldsTheWaiters, Notified, Outcomes
  <2>2. ownership' = IF externalCompletion THEN "External" ELSE "Idle"
    BY <1>5, PostOwnershipEventEnds DEF Finish
  <2>3. ~lease
    BY <1>5 DEF Finish, OwnershipAgrees
  <2>. QED BY <1>5, <2>1, <2>2, <2>3
           DEF Finish, OwnershipAgrees, QueueHoldsTheWaiters, NoStrandedRequest, Ownerships
<1>6. ASSUME NEW outcome \in Outcomes, CompleteExternalBatch(outcome)
      PROVE  CoordinatorInv'
  <2>1. /\ clients' \in [Requests -> {"none", "waiting"} \cup Outcomes]
        /\ {q \in Requests : clients'[q] = "waiting"} = {}
    <3>1. clients' = Notified(clients, completions, outcome)
      BY <1>6 DEF CompleteExternalBatch
    <3>. QED BY <3>1 DEF QueueHoldsTheWaiters, Notified, Outcomes
  <2>2. ownership' = "Idle" /\ ownership = "External"
    BY <1>6, PostOwnershipEventEnds DEF CompleteExternalBatch
  <2>. QED BY <1>6, <2>1, <2>2
           DEF CompleteExternalBatch, OwnershipAgrees, QueueHoldsTheWaiters,
               NoStrandedRequest, Ownerships
<1>7. CASE ReleaseExternalBatch
  <2>1. /\ lease' = FALSE /\ ownership = "External"
        /\ UNCHANGED <<suspended, externalCompletion>>
        /\ StartCommandBatch(completions, suspended, clients)
    BY <1>7 DEF ReleaseExternalBatch
  <2>2. /\ ownership' \in {"Idle", "Command"}
        /\ operation' \in BOOLEAN
        /\ operation' <=> ownership' = "Command"
        /\ completions' \in SUBSET Requests
        /\ clients' \in [Requests -> {"none", "waiting"} \cup Outcomes]
        /\ completions' = {q \in Requests : clients'[q] = "waiting"}
        /\ completions' # {} => ownership' # "Idle" \/ suspended
    BY <2>1, StartCommandBatchKeeps DEF QueueHoldsTheWaiters
  <2>. QED BY <2>1, <2>2
           DEF OwnershipAgrees, QueueHoldsTheWaiters, NoStrandedRequest, Ownerships
<1>8. CASE UNCHANGED coordinatorVars
  BY <1>8 DEF coordinatorVars, OwnershipAgrees, QueueHoldsTheWaiters, NoStrandedRequest
<1>. QED BY <1>1, <1>2, <1>3, <1>4, <1>5, <1>6, <1>7, <1>8 DEF CoordinatorNext, Outcomes

\* Under any sequence of calls: the variables keep their types, the right to
\* execute has one owner, the queue is the set of waiting requesters and none
\* of them waits behind an idle coordinator.
THEOREM CoordinatorInvariant == CoordinatorSafety => []CoordinatorInv
<1>1. CoordinatorInit => CoordinatorInv
  BY CoordinatorInvInit
<1>2. CoordinatorInv /\ [CoordinatorNext]_coordinatorVars => CoordinatorInv'
  BY CoordinatorInvStep
<1>. QED BY <1>1, <1>2, PTL DEF CoordinatorSafety

\* The single-flight promise: a command batch and a lease never coexist.
THEOREM SingleFlight == CoordinatorSafety => []OwnershipAgrees
<1>1. CoordinatorInv => OwnershipAgrees
  BY DEF CoordinatorInv
<1>. QED BY <1>1, CoordinatorInvariant, PTL

\* finish, completeExternalBatch and a failed start answer exactly the requesters
\* they take off the queue: nobody waits outside it, nobody in it was answered.
THEOREM QueueIsTheWaiters == CoordinatorSafety => []QueueHoldsTheWaiters
<1>1. CoordinatorInv => QueueHoldsTheWaiters
  BY DEF CoordinatorInv
<1>. QED BY <1>1, CoordinatorInvariant, PTL

\* No request is left behind by an idle, unsuspended coordinator.
THEOREM NothingStranded == CoordinatorSafety => []NoStrandedRequest
<1>1. CoordinatorInv => NoStrandedRequest
  BY DEF CoordinatorInv
<1>. QED BY <1>1, CoordinatorInvariant, PTL

\* finish, completeExternalBatch and a failed start give every waiting requester
\* the same result.
THEOREM OneResult == CoordinatorSafety => OneResultForAll
<1>. DEFINE Same == \A r, s \in Requests :
                      /\ clients[r] = "waiting" /\ clients'[r] # "waiting"
                      /\ clients[s] = "waiting"
                      => clients'[s] = clients'[r]
<1>1. CoordinatorInv /\ [CoordinatorNext]_coordinatorVars => [Same]_coordinatorVars
  <2>. SUFFICES ASSUME CoordinatorInv, CoordinatorNext PROVE Same
    OBVIOUS
  <2>1. ASSUME NEW queue \in SUBSET Requests, NEW held \in BOOLEAN,
               NEW seen \in [Requests -> {"none", "waiting"} \cup Outcomes],
               \A r \in Requests : clients[r] = "waiting" => r \in queue /\ seen[r] = "waiting",
               StartCommandBatch(queue, held, seen)
        PROVE  Same
    BY <2>1 DEF StartCommandBatch, Notified
  <2>2. ASSUME NEW outcome, NEW batch \in SUBSET Requests,
               batch = {r \in Requests : clients[r] = "waiting"},
               clients' = Notified(clients, batch, outcome)
        PROVE  Same
    BY <2>2 DEF Notified
  <2>. USE DEF CoordinatorInv, CoordinatorTypeOK, QueueHoldsTheWaiters
  <2>3. ASSUME NEW r \in Requests, RequestCommit(r) PROVE Same
    <3>. DEFINE seen == [clients EXCEPT ![r] = "waiting"]
                queue == completions \cup {r}
    <3>1. /\ seen \in [Requests -> {"none", "waiting"} \cup Outcomes]
          /\ queue \in SUBSET Requests
          /\ \A q \in Requests : clients[q] = "waiting" => q \in queue /\ seen[q] = "waiting"
      OBVIOUS
    <3>2. \/ StartCommandBatch(queue, suspended, seen)
          \/ clients' = seen
      BY <2>3 DEF RequestCommit
    <3>3. CASE StartCommandBatch(queue, suspended, seen)
      <4>. HIDE DEF seen, queue, Same
      <4>. QED BY <3>1, <3>3, <2>1
    <3>4. CASE clients' = seen
      BY <3>4
    <3>. QED BY <3>2, <3>3, <3>4
  <2>4. ASSUME NEW held \in BOOLEAN, SetSuspended(held) PROVE Same
    <3>1. StartCommandBatch(completions, FALSE, clients) \/ clients' = clients
      BY <2>4 DEF SetSuspended
    <3>2. CASE StartCommandBatch(completions, FALSE, clients)
      <4>. HIDE DEF Same
      <4>. QED BY <3>2, <2>1
    <3>. QED BY <3>1, <3>2
  <2>5. CASE ReserveNow \/ ReserveLater
    BY <2>5 DEF ReserveNow, ReserveLater
  <2>6. ASSUME NEW outcome, Finish(outcome) \/ CompleteExternalBatch(outcome) PROVE Same
    <3>. HIDE DEF Same
    <3>. QED BY <2>6, <2>2 DEF Finish, CompleteExternalBatch
  <2>7. CASE ReleaseExternalBatch
    <3>. HIDE DEF Same
    <3>. QED BY <2>7, <2>1 DEF ReleaseExternalBatch
  <2>. QED BY <2>3, <2>4, <2>5, <2>6, <2>7 DEF CoordinatorNext
<1>. QED BY <1>1, CoordinatorInvariant, PTL DEF CoordinatorSafety, OneResultForAll
=============================================================================
