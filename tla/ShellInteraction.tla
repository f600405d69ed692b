--------------------------- MODULE ShellInteraction ---------------------------
(***************************************************************************)
(* The main window's gates around file staging and safe power              *)
(* (MainWindowViewModel, ApplyPlanViewModel, ApplicationStateSession):     *)
(* applying a configuration, refreshing the state, committing staged files *)
(* and shutting down must keep out of each other's way.  Qt's direct       *)
(* connections make the coordinator's activeChanged and the plan's         *)
(* applyingChanged part of the call that emits them.                       *)
(***************************************************************************)
EXTENDS SafePower

VARIABLES
  committed,         \* ApplicationStateSession::m_committed
  reconciliation,    \* ApplicationStateSession::m_reconciliationRequired
  refreshing,        \* m_refresh.isRunning()
  refreshPosted,     \* a single-shot timer will call refresh()
  externalActive,    \* m_externalOperationActive
  planOpen,          \* the ApplyPlanDialog is shown
  executionAllowed,  \* the tracked plan's m_executionAllowed
  canApply,          \* its m_canApply
  applying           \* its m_applying; configurationApplyingChanged -> setSuspended

stateVars == <<committed, reconciliation, refreshing, refreshPosted>>
planVars == <<planOpen, canApply, applying>>
shellVars == <<stateVars, externalActive, planVars, executionAllowed>>
vars == <<coordinatorVars, powerVars, shellVars>>

ShellTypeOK ==
  /\ CoordinatorTypeOK
  /\ SafePowerTypeOK
  /\ \A flag \in {committed, reconciliation, refreshing, refreshPosted, externalActive,
                  planOpen, executionAllowed, canApply, applying} : flag \in BOOLEAN

Init ==
  /\ CoordinatorInit
  /\ PowerInit
  /\ committed = FALSE
  /\ reconciliation = FALSE
  /\ refreshing = FALSE
  /\ refreshPosted = TRUE
  /\ externalActive = FALSE
  /\ planOpen = FALSE
  /\ executionAllowed = TRUE
  /\ canApply = FALSE
  /\ applying = FALSE

\* ApplicationStateSession::configurationWritesAllowed on an elevated system
\* with UWF.
WritesAllowed(read, stale) == read /\ ~stale

\* What publishInteractionAvailability tells the tracked plan.
PlanAllowed(busy, active, read, stale) == ~busy /\ ~active /\ WritesAllowed(read, stale)

\* Variant: the staging coordinator's activity does not reach the plan.
FollowOwnershipUnpublished ==
  /\ externalActive' = (ownership' # "Idle")
  /\ UNCHANGED executionAllowed

\* activeChanged -> setExternalOperationActive -> publishInteractionAvailability.
FollowOwnership ==
  /\ externalActive' = (ownership' # "Idle")
  /\ executionAllowed' = IF externalActive' = externalActive THEN executionAllowed
                         ELSE PlanAllowed(refreshing, externalActive', committed, reconciliation)

\* MainWindowViewModel::powerActionsAllowed on an elevated system with UWF.
PowerActionsAllowed == committed /\ ~applying

\* No modal power window is on the screen.
NoModal == power \notin {"dialog", "warning"}

\* requestSafeShutdown and requestSafeRestart: toolbar, tray, HUB, plan dialog.
SafePowerRequested ==
  /\ PowerActionsAllowed
  /\ ExecuteReserved \/ ExecuteDeferred \/ ExecuteRefused
  /\ FollowOwnership
  /\ UNCHANGED <<stateVars, planVars>>

DirectRestartRequested ==
  /\ PowerActionsAllowed
  /\ NoModal
  /\ planOpen
  /\ ExecuteDirect
  /\ FollowOwnership
  /\ UNCHANGED <<stateVars, planVars>>

\* A commit request from the service or from a second instance.
CommitRequested ==
  /\ \E r \in Requests : RequestCommit(r)
  /\ FollowOwnership
  /\ UNCHANGED <<powerVars, stateVars, planVars>>

PowerStepped ==
  /\ PowerStep
  /\ FollowOwnership
  /\ UNCHANGED <<stateVars, planVars>>

\* showPlan: configurationWritesAllowed, then a new plan is tracked.
ShowPlan ==
  /\ NoModal /\ ~planOpen
  /\ ~applying /\ ~refreshing /\ ~externalActive /\ WritesAllowed(committed, reconciliation)
  /\ planOpen' = TRUE
  /\ canApply' = TRUE
  /\ executionAllowed' = PlanAllowed(refreshing, externalActive, committed, reconciliation)
  /\ UNCHANGED <<coordinatorVars, powerVars, stateVars, externalActive, applying>>

\* The plan dialog cannot be rejected while it applies.
ClosePlan ==
  /\ NoModal /\ planOpen /\ ~applying
  /\ planOpen' = FALSE
  /\ UNCHANGED <<coordinatorVars, powerVars, stateVars, externalActive, executionAllowed,
                 canApply, applying>>

\* Variant: apply() trusts the button and does not look at the gate again.
ApplyUnchecked ==
  /\ NoModal /\ planOpen
  /\ canApply /\ ~applying
  /\ canApply' = FALSE
  /\ applying' = TRUE
  /\ SetSuspended(TRUE)
  /\ executionAllowed' = PlanAllowed(refreshing, externalActive, committed, reconciliation)
  /\ UNCHANGED <<powerVars, stateVars, externalActive, planOpen>>

\* ApplyPlanViewModel::apply, after its confirmation: canApply() is checked again.
Apply ==
  /\ NoModal /\ planOpen
  /\ canApply /\ executionAllowed /\ ~applying
  /\ canApply' = FALSE
  /\ applying' = TRUE
  /\ SetSuspended(TRUE)
  /\ executionAllowed' = PlanAllowed(refreshing, externalActive, committed, reconciliation)
  /\ UNCHANGED <<powerVars, stateVars, externalActive, planOpen>>

\* Variant: the write gate is computed before the reconciliation gate closes.
PublishResultLateGate(stale, connected) ==
  /\ applying
  /\ reconciliation' = (reconciliation \/ stale)
  /\ refreshPosted' = (refreshPosted \/ stale)
  /\ applying' = FALSE
  /\ canApply' = (~connected \/ ~stale)
  /\ SetSuspended(FALSE)
  /\ externalActive' = (ownership' # "Idle")
  /\ executionAllowed' = PlanAllowed(refreshing, externalActive', committed, reconciliation)
  /\ UNCHANGED <<powerVars, committed, refreshing, planOpen>>

\* publishResult: the reconciliation gate closes before the write gate opens,
\* then applyingChanged lifts the suspension (and may start a waiting batch).
PublishResult(stale, connected) ==
  /\ applying
  /\ reconciliation' = (reconciliation \/ stale)
  /\ refreshPosted' = (refreshPosted \/ stale)
  /\ applying' = FALSE
  /\ canApply' = (~connected \/ ~stale)
  /\ SetSuspended(FALSE)
  /\ externalActive' = (ownership' # "Idle")
  /\ executionAllowed' = PlanAllowed(refreshing, externalActive', committed, reconciliation')
  /\ UNCHANGED <<powerVars, committed, refreshing, planOpen>>

\* refresh(), called by the user or by the timer; a running read is replaced.
Refresh ==
  /\ refreshPosted' = FALSE
  /\ refreshing' = (refreshing \/ ~applying)
  /\ executionAllowed' = IF applying THEN executionAllowed
                         ELSE PlanAllowed(TRUE, externalActive, committed, reconciliation)
  /\ UNCHANGED <<coordinatorVars, powerVars, committed, reconciliation, externalActive, planVars>>

\* The read ended.  A failure keeps the committed state; a staging draft that
\* still needs reconciliation keeps the gate closed.
RefreshEnds(read, draftStale) ==
  /\ refreshing
  /\ refreshing' = FALSE
  /\ committed' = (committed \/ read)
  /\ reconciliation' = IF read THEN draftStale ELSE reconciliation
  /\ executionAllowed' = PlanAllowed(FALSE, externalActive, committed', reconciliation')
  /\ UNCHANGED <<coordinatorVars, powerVars, refreshPosted, externalActive, planVars>>

Next ==
  \/ SafePowerRequested
  \/ DirectRestartRequested
  \/ CommitRequested
  \/ PowerStepped
  \/ ShowPlan
  \/ ClosePlan
  \/ Apply
  \/ \E stale, connected \in BOOLEAN : PublishResult(stale, connected)
  \/ Refresh
  \/ \E read, draftStale \in BOOLEAN : RefreshEnds(read, draftStale)

(***************************************************************************)
(* The event loop serves armed timers and posted calls, background workers *)
(* end, and the call that follows a closed dialog is not an event at all.  *)
(* Nothing is assumed of the user.                                         *)
(***************************************************************************)
Serviced(step) == step /\ FollowOwnership /\ UNCHANGED <<stateVars, planVars>>

Fairness ==
  /\ WF_vars(Serviced(\E outcome \in BatchOutcomes :
               FinishBatch(outcome) \/ FinishBatchPostingFails(outcome)))
  /\ WF_vars(Serviced(RunPosted))
  /\ WF_vars(Serviced(StepTimer))
  /\ WF_vars(Serviced(\E result \in WorkerResults : WorkerEnds(result)))
  /\ WF_vars(Serviced(DialogCanceled \/ PowerInvoked \/ PowerFailed))
  /\ WF_vars(\E stale, connected \in BOOLEAN : PublishResult(stale, connected))

Spec == Init /\ [][Next]_vars /\ Fairness

-----------------------------------------------------------------------------
(***************************************************************************)
(* Properties                                                              *)
(***************************************************************************)

\* While a configuration is applied, and only then, staging is suspended; nobody
\* owns its execution and no power flow is under way.
ApplyIsAlone ==
  /\ suspended <=> applying
  /\ applying => ownership = "Idle" /\ worker # "writing" /\ power = "idle"

\* The copy of the gate kept in the tracked plan is never more permissive than
\* the state it was computed from.
PlanGateIsFresh ==
  planOpen /\ ~applying /\ executionAllowed =>
    ownership = "Idle" /\ ~refreshing /\ committed /\ ~reconciliation

\* A configuration is never written from a state that a previous write has
\* made doubtful: between a result that asks for reconciliation and the next
\* apply there is a refresh that read the system.
ReconciledBeforeApply ==
  [][~applying /\ applying' => committed /\ ~reconciliation /\ ~refreshing]_vars

\* A deferred power request gets its dialog when the running batch ends, and a
\* dialog that is saving files always ends by itself.
PowerFlowMovesOn ==
  /\ power \in {"deferred", "posted"} ~> power \in {"dialog", "idle"}
  /\ dialog.state = "Staging" ~> dialog.state # "Staging"
=============================================================================
