----------------------- MODULE FileStagingCoordinator -----------------------
(***************************************************************************)
(* The single-flight domain of file staging (app/staging/                  *)
(* FileStagingCoordinator).  Commit requests of any origin join one        *)
(* batch; the safe power flow can take the execution right for itself by   *)
(* an external lease (ExternalBatch).  All calls arrive on the UI thread,  *)
(* so one action is one whole call, including the completions it           *)
(* publishes.  A completion that calls back into the coordinator is the    *)
(* same as that call made right after the action: finish and               *)
(* completeExternalBatch have left their final state behind before they    *)
(* run the first callback.                                                 *)
(***************************************************************************)
EXTENDS Naturals, FiniteSets

CONSTANT Requests   \* the commands that may ask for a staging commit

VARIABLES
  ownership,           \* m_ownership
  suspended,           \* m_suspended: a configuration apply is writing
  operation,           \* m_operation is engaged: a command batch executes
  completions,         \* m_completions: the requests whose callback is queued
  externalCompletion,  \* m_externalCompletion: a reservation waits for the batch
  lease,               \* an ExternalBatch whose m_owner is set exists
  clients              \* what each requester has seen: nothing, or its answer

coordinatorVars ==
  <<ownership, suspended, operation, completions, externalCompletion, lease, clients>>

(***************************************************************************)
(* ApplicationCommandOutcome, with infrastructureFailure() as "Failed".    *)
(***************************************************************************)
Outcomes == {"Succeeded", "CompletedWithFailures", "Rejected", "Failed"}

Ownerships == {"Idle", "Command", "External"}

CoordinatorTypeOK ==
  /\ ownership \in Ownerships
  /\ suspended \in BOOLEAN
  /\ operation \in BOOLEAN
  /\ completions \in SUBSET Requests
  /\ externalCompletion \in BOOLEAN
  /\ lease \in BOOLEAN
  /\ clients \in [Requests -> {"none", "waiting"} \cup Outcomes]

CoordinatorInit ==
  /\ ownership = "Idle"
  /\ suspended = FALSE
  /\ operation = FALSE
  /\ completions = {}
  /\ externalCompletion = FALSE
  /\ lease = FALSE
  /\ clients = [r \in Requests |-> "none"]

(***************************************************************************)
(* notifyCompletion for every request of a batch: all of them receive the  *)
(* same result.  An observer that throws is logged and skipped over.       *)
(***************************************************************************)
Notified(seen, batch, outcome) ==
  [r \in Requests |-> IF r \in batch THEN outcome ELSE seen[r]]

(***************************************************************************)
(* ownershipTransitions: the pairs postOwnershipEvent accepts; any other   *)
(* pair throws logic_error.                                                *)
(***************************************************************************)
OwnershipTransitions ==
  { <<"Idle",     "CommandStarted",    "Command">>,
    <<"Idle",     "ExternalReserved",  "External">>,
    <<"Command",  "CommandCompleted",  "Idle">>,
    <<"Command",  "CommandHandedOff",  "External">>,
    <<"External", "ExternalCompleted", "Idle">>,
    <<"External", "ExternalReleased",  "Idle">> }

PostOwnershipEvent(event) ==
  \E to \in Ownerships :
    /\ <<ownership, event, to>> \in OwnershipTransitions
    /\ ownership' = to

(***************************************************************************)
(* startCommandBatch with m_ownership = Idle, the queue `queue' and the    *)
(* suspension flag `held'.  The factory or start() may throw; fail() then  *)
(* runs finish() with an infrastructure failure before the call returns.   *)
(***************************************************************************)
StartCommandBatch(queue, held, seen) ==
  \/ /\ held \/ queue = {}
     /\ ownership' = "Idle"
     /\ operation' = FALSE
     /\ completions' = queue
     /\ clients' = seen
  \/ /\ ~held /\ queue # {}
     /\ ownership' = "Command"
     /\ operation' = TRUE
     /\ completions' = queue
     /\ clients' = seen
  \/ /\ ~held /\ queue # {}
     /\ ownership' = "Idle"
     /\ operation' = FALSE
     /\ completions' = {}
     /\ clients' = Notified(seen, queue, "Failed")

\* Variant: the callback is queued but an idle coordinator is not started.
RequestCommitNoStart(r) ==
  /\ clients[r] # "waiting"
  /\ completions' = completions \cup {r}
  /\ clients' = [clients EXCEPT ![r] = "waiting"]
  /\ UNCHANGED <<ownership, operation, suspended, externalCompletion, lease>>

\* requestCommit: queue the callback; start a batch only if nobody owns execution.
RequestCommit(r) ==
  /\ clients[r] # "waiting"
  /\ LET seen == [clients EXCEPT ![r] = "waiting"] IN
       IF ownership = "Idle"
       THEN StartCommandBatch(completions \cup {r}, suspended, seen)
       ELSE /\ completions' = completions \cup {r}
            /\ clients' = seen
            /\ UNCHANGED <<ownership, operation>>
  /\ UNCHANGED <<suspended, externalCompletion, lease>>

\* setSuspended(held): lifting the suspension starts the batch that had to wait.
SetSuspended(held) ==
  /\ suspended # held
  /\ suspended' = held
  /\ IF ~held /\ ownership = "Idle"
     THEN StartCommandBatch(completions, FALSE, clients)
     ELSE UNCHANGED <<ownership, operation, completions, clients>>
  /\ UNCHANGED <<externalCompletion, lease>>

\* The conditions under which reserveExternalBatch throws logic_error.
ReservationRefused ==
  \/ suspended
  \/ ownership = "External"
  \/ ownership = "Command" /\ externalCompletion

\* reserveExternalBatch that returns a lease.
ReserveNow ==
  /\ ~ReservationRefused
  /\ ownership # "Command"
  /\ PostOwnershipEvent("ExternalReserved")
  /\ lease' = TRUE
  /\ UNCHANGED <<suspended, operation, completions, externalCompletion, clients>>

\* reserveExternalBatch that returns nullopt and waits for the running batch.
ReserveLater ==
  /\ ~ReservationRefused
  /\ ownership = "Command"
  /\ externalCompletion' = TRUE
  /\ UNCHANGED <<ownership, suspended, operation, completions, lease, clients>>

\* Variant: the right to execute is free until the waiting reservation's callback
\* takes it (the event is CommandCompleted in both cases).
FinishWithoutHandOff(outcome) ==
  /\ operation
  /\ PostOwnershipEvent("CommandCompleted")
  /\ lease' = (lease \/ externalCompletion)
  /\ operation' = FALSE
  /\ externalCompletion' = FALSE
  /\ completions' = {}
  /\ clients' = Notified(clients, completions, outcome)
  /\ UNCHANGED suspended

\* finish(): the operation delivers its result; a waiting reservation receives
\* the lease in the same call, so execution is never free in between.
Finish(outcome) ==
  /\ operation
  /\ PostOwnershipEvent(IF externalCompletion THEN "CommandHandedOff" ELSE "CommandCompleted")
  /\ lease' = (lease \/ externalCompletion)
  /\ operation' = FALSE
  /\ externalCompletion' = FALSE
  /\ completions' = {}
  /\ clients' = Notified(clients, completions, outcome)
  /\ UNCHANGED suspended

\* Variant: m_completions is cleared and only one of its callbacks is run.
CompleteExternalBatchFirstOnly(outcome) ==
  /\ lease
  /\ lease' = FALSE
  /\ PostOwnershipEvent("ExternalCompleted")
  /\ completions' = {}
  /\ \E batch \in SUBSET completions :
       /\ Cardinality(batch) <= 1
       /\ clients' = Notified(clients, batch, outcome)
  /\ UNCHANGED <<suspended, operation, externalCompletion>>

\* ExternalBatch::complete -> completeExternalBatch.
CompleteExternalBatch(outcome) ==
  /\ lease
  /\ lease' = FALSE
  /\ PostOwnershipEvent("ExternalCompleted")
  /\ completions' = {}
  /\ clients' = Notified(clients, completions, outcome)
  /\ UNCHANGED <<suspended, operation, externalCompletion>>

\* Variant: the release of the lease forgets the queue.
ReleaseExternalBatchNoRestart ==
  /\ lease
  /\ lease' = FALSE
  /\ PostOwnershipEvent("ExternalReleased")
  /\ UNCHANGED <<suspended, operation, completions, externalCompletion, clients>>

\* ~ExternalBatch -> release -> releaseExternalBatch: the requests that queued
\* up behind the lease get a batch of their own.
ReleaseExternalBatch ==
  /\ lease
  /\ lease' = FALSE
  /\ ownership = "External"
  /\ StartCommandBatch(completions, suspended, clients)
  /\ UNCHANGED <<suspended, externalCompletion>>

(***************************************************************************)
(* The coordinator alone, under any sequence of calls its interface admits *)
(* (the calls that throw change nothing).                                  *)
(***************************************************************************)
CoordinatorNext ==
  \/ \E r \in Requests : RequestCommit(r)
  \/ \E held \in BOOLEAN : SetSuspended(held)
  \/ ReserveNow
  \/ ReserveLater
  \/ \E outcome \in {"Succeeded", "CompletedWithFailures", "Failed"} : Finish(outcome)
  \/ \E outcome \in Outcomes : CompleteExternalBatch(outcome)
  \/ ReleaseExternalBatch

(***************************************************************************)
(* A batch ends (FileStagingProgressViewModel polls its task until it is   *)
(* final), a lease is a scoped object, and a suspension lasts as long as   *)
(* one configuration apply.  Requests and reservations come as they like.  *)
(* A lease may be released any number of times, but each release starts    *)
(* the batch that its waiters are answered by.                             *)
(***************************************************************************)
CoordinatorFairness ==
  /\ WF_coordinatorVars(\E outcome \in {"Succeeded", "CompletedWithFailures", "Failed"} :
                          Finish(outcome))
  /\ WF_coordinatorVars(ReleaseExternalBatch \/ \E outcome \in Outcomes :
                          CompleteExternalBatch(outcome))
  /\ WF_coordinatorVars(SetSuspended(FALSE))

CoordinatorSafety == CoordinatorInit /\ [][CoordinatorNext]_coordinatorVars
CoordinatorSpec == CoordinatorSafety /\ CoordinatorFairness

-----------------------------------------------------------------------------
(***************************************************************************)
(* Properties                                                              *)
(***************************************************************************)

\* The right to execute has exactly the owner m_ownership names: a command
\* batch, one lease, or nobody.  So a lease holder and a command batch can
\* never commit staged files at the same time (the single-flight promise of
\* the class), and a reservation only waits behind a running batch.
OwnershipAgrees ==
  /\ operation <=> ownership = "Command"
  /\ lease <=> ownership = "External"
  /\ externalCompletion => ownership = "Command"

\* The queue holds exactly the requesters that still wait: finish,
\* completeExternalBatch and a failed start answer everyone they remove.
QueueHoldsTheWaiters ==
  completions = {r \in Requests : clients[r] = "waiting"}

\* Nobody waits behind an idle coordinator: if a request is queued then a batch
\* or a lease is in progress (its end serves the queue), or the suspension that
\* holds it back will start it.  requestCommit, setSuspended(false) and the
\* release of a lease all have to restart the queue for this.
NoStrandedRequest ==
  completions # {} => ownership # "Idle" \/ suspended

\* When one waiting requester is answered, all of them are, with one result:
\* "every request receives the same final result".
OneResultForAll ==
  [][\A r, s \in Requests :
       /\ clients[r] = "waiting" /\ clients'[r] # "waiting"
       /\ clients[s] = "waiting"
       => clients'[s] = clients'[r]]_coordinatorVars

\* Every request is answered in the end.
EveryRequestAnswered ==
  \A r \in Requests : clients[r] = "waiting" ~> clients[r] # "waiting"
=============================================================================
