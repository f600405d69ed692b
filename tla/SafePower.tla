------------------------------ MODULE SafePower ------------------------------
(***************************************************************************)
(* app/power/PowerCoordinator with the dialog it shows and the staging     *)
(* coordinator whose lease it takes.  A safe shutdown or restart takes the *)
(* lease at once, or waits for the running command batch and receives the  *)
(* lease with its result; it commits the staged files inside its own       *)
(* dialog, or reuses that result, and only then calls the power action.    *)
(* Everything runs on the UI thread except the two workers of a            *)
(* FileStagingTask, but a modal dialog runs an event loop of its own, so   *)
(* commit requests, timers and workers interleave with every open dialog.  *)
(***************************************************************************)
EXTENDS FileStagingCoordinator, PowerDialog

VARIABLES
  power,          \* where the flow stands; m_actionActive is power # "idle"
  flow,           \* which function runs it: executeReserved, ...
  stagingResult,  \* the flow's final staging outcome, or "none"
  task,           \* State of the dialog's FileStagingTask
  worker,         \* its background worker: what it does, or how it ended
  disposition,    \* what the scope guards will do with the lease after a warning
  truth,          \* (history) how the staging of this flow really ended
  invoked,        \* (history) the power call this flow made
  fault           \* (history) a logic_error was thrown

powerVars ==
  <<power, flow, dialog, stagingResult, task, worker, disposition, truth, invoked, fault>>
flowVars == <<stagingResult, task, worker, truth>>

BatchOutcomes == {"Succeeded", "CompletedWithFailures", "Failed"}
WorkerResults == {"Ready", "Succeeded", "CompletedWithFailures", "Threw"}

SafePowerTypeOK ==
  /\ power \in {"idle", "deferred", "posted", "dialog", "warning"}
  /\ flow \in {"none", "reserved", "completed", "direct"}
  /\ dialog \in DialogRecords
  /\ stagingResult \in {"none"} \cup BatchOutcomes
  /\ task \in {"none", "preparing", "ready", "committing", "completed"}
  /\ worker \in {"none", "scanning", "writing"} \cup WorkerResults
  /\ disposition \in {"none", "release"} \cup Outcomes
  /\ truth \in {"none"} \cup BatchOutcomes
  /\ invoked \in {"none", "safe", "approved", "direct"}
  /\ fault \in BOOLEAN

PowerInit ==
  /\ power = "idle"
  /\ flow = "none"
  /\ dialog = NoDialog
  /\ stagingResult = "none"
  /\ task = "none"
  /\ worker = "none"
  /\ disposition = "none"
  /\ truth = "none"
  /\ invoked = "none"
  /\ fault = FALSE

\* A flow begins: its local variables are fresh.
FreshFlow(how) ==
  /\ flow' = how
  /\ stagingResult' = "none"
  /\ task' = "none"
  /\ worker' = "none"
  /\ disposition' = "none"
  /\ truth' = "none"
  /\ invoked' = "none"
  /\ UNCHANGED fault

(***************************************************************************)
(* execute(): the gate m_actionActive, then reserveExternalBatch.          *)
(***************************************************************************)
ExecuteReserved ==
  /\ power = "idle"
  /\ ReserveNow
  /\ power' = "dialog"
  /\ dialog' = NewDialog("Safe", TRUE)
  /\ FreshFlow("reserved")

ExecuteDeferred ==
  /\ power = "idle"
  /\ ReserveLater
  /\ power' = "deferred"
  /\ FreshFlow("completed")
  /\ UNCHANGED dialog

\* reserveExternalBatch throws; execute() reports it and there is no lease.
ExecuteRefused ==
  /\ power = "idle"
  /\ ReservationRefused
  /\ power' = "warning"
  /\ fault' = TRUE
  /\ UNCHANGED <<coordinatorVars, flow, dialog, flowVars, disposition, invoked>>

\* executeDirectRestart: no staging and no lease, only the question.
ExecuteDirect ==
  /\ power = "idle"
  /\ power' = "dialog"
  /\ dialog' = NewDialog("Direct", FALSE)
  /\ FreshFlow("direct")
  /\ UNCHANGED coordinatorVars

\* Variant: the callback of the waiting reservation is lost.
FinishBatchUnnoticed(outcome) == Finish(outcome) /\ UNCHANGED powerVars

(***************************************************************************)
(* The command batch ends.  If a reservation waited, its callback posts    *)
(* executeWithCompletedStaging to the event loop; when the posting throws, *)
(* the lease is released on the way out and the gate is opened again.      *)
(***************************************************************************)
FinishBatch(outcome) ==
  /\ Finish(outcome)
  /\ IF externalCompletion
     THEN /\ power' = "posted"
          /\ stagingResult' = outcome
          /\ truth' = outcome
          /\ UNCHANGED <<flow, dialog, task, worker, disposition, invoked, fault>>
     ELSE UNCHANGED powerVars

FinishBatchPostingFails(outcome) ==
  /\ operation /\ externalCompletion
  /\ ownership' = "Idle"
  /\ operation' = FALSE
  /\ externalCompletion' = FALSE
  /\ completions' = {}
  /\ clients' = Notified(clients, completions, outcome)
  /\ power' = "idle"
  /\ UNCHANGED <<suspended, lease, flow, dialog, flowVars, disposition, invoked, fault>>

\* The posted call: executeWithCompletedStaging up to its modal dialog.
RunPosted ==
  /\ power = "posted"
  /\ power' = "dialog"
  /\ dialog' = LET fresh == NewDialog("Safe", FALSE) IN
                 IF stagingResult = "Succeeded" THEN fresh
                 ELSE ShowFailure(fresh, stagingResult = "CompletedWithFailures")
  /\ UNCHANGED <<coordinatorVars, flow, flowVars, disposition, invoked, fault>>

(***************************************************************************)
(* The poll callback of executeReserved and FileStagingTask::              *)
(* pollPreparation: the answer it gives and the state it leaves.           *)
(***************************************************************************)
PollStaging(answer) ==
  \/ \* A final failure is repeated.
     /\ stagingResult = "Failed"
     /\ answer = "Failure"
     /\ UNCHANGED flowVars
  \/ \* The list is read and the scan launched; each of these may throw.
     /\ stagingResult # "Failed" /\ task = "none"
     /\ \/ answer = "Failure" /\ stagingResult' = "Failed" /\ truth' = "Failed"
           /\ UNCHANGED <<task, worker>>
        \/ \* Nothing staged, or no UWF: there is nothing to commit.
           answer = "NotRequired" /\ stagingResult' = "Succeeded" /\ truth' = "Succeeded"
           /\ task' = "completed" /\ UNCHANGED worker
        \/ answer = "none" /\ task' = "preparing" /\ worker' = "scanning"
           /\ UNCHANGED <<stagingResult, truth>>
  \/ /\ task = "preparing" /\ worker = "scanning"
     /\ answer = "none"
     /\ UNCHANGED flowVars
  \/ /\ task = "preparing" /\ worker = "Threw"
     /\ answer = "Failure"
     /\ stagingResult' = "Failed"
     /\ UNCHANGED <<task, worker, truth>>
  \/ /\ task = "preparing" /\ worker = "Ready"
     /\ answer = "Commit"
     /\ task' = "ready"
     /\ UNCHANGED <<stagingResult, worker, truth>>
  \/ /\ task = "preparing" /\ worker = "Succeeded"
     /\ answer = "NotRequired"
     /\ task' = "completed"
     /\ stagingResult' = "Succeeded"
     /\ UNCHANGED <<worker, truth>>
  \/ \* The result is described to the user; a throw there is a failure too.
     /\ task = "preparing" /\ worker = "CompletedWithFailures"
     /\ task' = "completed"
     /\ \/ answer = "FailureWithResult" /\ stagingResult' = "CompletedWithFailures"
        \/ answer = "Failure" /\ stagingResult' = "Failed"
     /\ UNCHANGED <<worker, truth>>

\* The preparation timer fires.
PollTimer ==
  /\ power = "dialog" /\ "preparation" \in dialog.timers
  /\ \E elapsed \in BOOLEAN :
       IF dialog.prepared = "none" /\ ~dialog.directOpen
       THEN \E answer \in Preparations \cup {"none"} :
              /\ PollStaging(answer)
              /\ dialog' = PollPreparation(dialog, answer, elapsed)
       ELSE /\ dialog' = PollPreparation(dialog, "none", elapsed)
            /\ UNCHANGED flowVars
  /\ UNCHANGED <<coordinatorVars, power, flow, disposition, invoked, fault>>

\* Variant: a finished batch counts as saved, whatever it recorded.
AdvanceTaskIgnoresFailures(status) ==
  \/ /\ task = "ready" /\ status = "InProgress"
     /\ task' = "committing" /\ worker' = "writing"
     /\ UNCHANGED <<stagingResult, truth>>
  \/ /\ task = "committing" /\ worker = "writing" /\ status = "InProgress"
     /\ UNCHANGED flowVars
  \/ /\ task = "committing" /\ worker \in {"Succeeded", "CompletedWithFailures"}
     /\ status = "Completed"
     /\ task' = "completed" /\ stagingResult' = "Succeeded"
     /\ UNCHANGED <<worker, truth>>

(***************************************************************************)
(* advanceStaging of executeReserved and FileStagingTask::advance.         *)
(* A commit that ends within the call that launched it is noticed when the *)
(* timer fires again.                                                      *)
(***************************************************************************)
AdvanceTask(status) ==
  \/ /\ stagingResult = "Failed"
     /\ status = "Failed"
     /\ UNCHANGED flowVars
  \/ /\ stagingResult # "Failed" /\ task = "ready"
     /\ \/ status = "InProgress" /\ task' = "committing" /\ worker' = "writing"
           /\ UNCHANGED <<stagingResult, truth>>
        \/ \* The worker could not be launched.
           status = "Failed" /\ stagingResult' = "Failed" /\ truth' = "Failed"
           /\ UNCHANGED <<task, worker>>
  \/ /\ task = "committing" /\ worker = "writing"
     /\ status = "InProgress"
     /\ UNCHANGED flowVars
  \/ /\ task = "committing" /\ worker = "Threw"
     /\ status = "Failed"
     /\ stagingResult' = "Failed"
     /\ UNCHANGED <<task, worker, truth>>
  \/ /\ task = "committing" /\ worker = "Succeeded"
     /\ status = "Completed"
     /\ task' = "completed"
     /\ stagingResult' = "Succeeded"
     /\ UNCHANGED <<worker, truth>>
  \/ /\ task = "committing" /\ worker = "CompletedWithFailures"
     /\ task' = "completed"
     /\ \/ status = "FailedWithResult" /\ stagingResult' = "CompletedWithFailures"
        \/ status = "Failed" /\ stagingResult' = "Failed"
     /\ UNCHANGED <<worker, truth>>

\* The step timer fires.
StepTimer ==
  /\ power = "dialog" /\ "step" \in dialog.timers
  /\ \E status \in StagingStatuses :
       /\ AdvanceTask(status)
       /\ dialog' = AdvanceStaging(dialog, status)
  /\ UNCHANGED <<coordinatorVars, power, flow, disposition, invoked, fault>>

\* The scan and the commit run in the background and end at any time.
WorkerEnds(result) ==
  /\ \/ worker = "scanning"
     \/ worker = "writing" /\ result # "Ready"
  /\ worker' = result
  /\ truth' = CASE result = "Ready" -> "none" [] result = "Threw" -> "Failed" [] OTHER -> result
  /\ UNCHANGED <<coordinatorVars, power, flow, dialog, stagingResult, task, disposition,
                 invoked, fault>>

\* What the user does with the dialog.
AnswerDialog(changed) ==
  /\ dialog' = changed
  /\ UNCHANGED <<coordinatorVars, power, flow, flowVars, disposition, invoked, fault>>

ClickConfirm == ConfirmAllowed(dialog) /\ AnswerDialog(Confirm(dialog))
ClickDirect == DirectAllowed(dialog) /\ AnswerDialog(BeginDirectConfirmation(dialog))
AnswerDirectYes ==
  /\ Answerable(dialog) /\ (dialog.directOpen \/ dialog.mode = "Direct")
  /\ AnswerDialog(ConfirmDirect(dialog))
AnswerDirectNo ==
  Answerable(dialog) /\ dialog.directOpen /\ AnswerDialog(CancelDirectConfirmation(dialog))
Reject == RejectionAllowed(dialog) /\ AnswerDialog([dialog EXCEPT !.closed = "rejected"])

(***************************************************************************)
(* The end of a flow: what the scope guards do with the lease.             *)
(***************************************************************************)
DisposeOfLease(how) ==
  \/ how = "none" /\ UNCHANGED coordinatorVars
  \/ how = "release" /\ ReleaseExternalBatch
  \/ how \in Outcomes /\ CompleteExternalBatch(how)

\* The lease is completed with the flow's result once there is one.
ResultOrRelease == IF stagingResult = "none" THEN "release" ELSE stagingResult

\* Variant: a canceled flow answers the waiting requests with success.
DispositionCancelSucceeds(outcome, ok) ==
  CASE flow = "direct" -> "none"
    [] flow = "reserved" /\ stagingResult = "none" -> "Succeeded"
    [] OTHER -> ResultOrRelease

\* Variant: a direct power action that fails leaves the lease behind.
DispositionDirectKeepsLease(outcome, ok) ==
  IF flow = "direct" \/ outcome = "DirectConfirmed" THEN "none" ELSE ResultOrRelease

\* Which way the lease ends, for a dialog outcome and whether the power call
\* went through (ok).
Disposition(outcome, ok) ==
  CASE flow = "direct" -> "none"
    [] flow = "reserved" ->
         IF outcome = "DirectConfirmed" /\ ok /\ stagingResult = "none"
         THEN "Rejected" ELSE ResultOrRelease
    [] OTHER ->
         IF \/ outcome = "LogicError"
            \/ /\ outcome \in {"Canceled", "CanceledAfterStagingFailure"}
               /\ stagingResult = "Failed"
         THEN "release" ELSE stagingResult

\* The last checks before invokePowerAction, which throw logic_error.
Approved(outcome) ==
  CASE outcome = "ContinuedAfterStagingFailure" -> stagingResult = "CompletedWithFailures"
    [] outcome = "Confirmed"                    -> flow # "direct" /\ stagingResult = "Succeeded"
    [] outcome = "DirectConfirmed"              -> TRUE
    [] OTHER                                    -> FALSE

\* dialog.exec() returns and the rest of the flow runs: it was canceled, ...
DialogCanceled ==
  /\ power = "dialog" /\ dialog.closed # "no"
  /\ FinishDialog(dialog) \in {"Canceled", "CanceledAfterStagingFailure"}
  /\ power' = "idle"
  /\ dialog' = NoDialog
  /\ worker' = "none"
  /\ DisposeOfLease(Disposition(FinishDialog(dialog), FALSE))
  /\ UNCHANGED <<flow, stagingResult, task, truth, disposition, invoked, fault>>

\* ... or the power action was called, ...
PowerInvoked ==
  LET outcome == FinishDialog(dialog) IN
  /\ power = "dialog" /\ dialog.closed # "no"
  /\ Approved(outcome)
  /\ power' = "idle"
  /\ dialog' = NoDialog
  /\ worker' = "none"
  /\ invoked' = CASE outcome = "Confirmed" -> "safe"
                  [] outcome = "DirectConfirmed" -> "direct"
                  [] OTHER -> "approved"
  /\ DisposeOfLease(Disposition(outcome, TRUE))
  /\ UNCHANGED <<flow, stagingResult, task, truth, disposition, fault>>

\* ... or it threw, or a check before it did: the warning is shown while the
\* gate and the lease are still held.
PowerFailed ==
  LET outcome == FinishDialog(dialog) IN
  /\ power = "dialog" /\ dialog.closed # "no"
  /\ outcome \notin {"Canceled", "CanceledAfterStagingFailure"}
  /\ power' = "warning"
  /\ dialog' = NoDialog
  /\ disposition' = Disposition(IF Approved(outcome) THEN outcome ELSE "LogicError", FALSE)
  /\ fault' = (fault \/ ~Approved(outcome))
  /\ UNCHANGED <<coordinatorVars, flow, flowVars, invoked>>

WarningClosed ==
  /\ power = "warning"
  /\ power' = "idle"
  /\ disposition' = "none"
  /\ worker' = "none"
  /\ DisposeOfLease(disposition)
  /\ UNCHANGED <<flow, dialog, stagingResult, task, truth, invoked, fault>>

\* The steps of the power flow that need no permission from the shell.
PowerStep ==
  \/ \E outcome \in BatchOutcomes : FinishBatch(outcome) \/ FinishBatchPostingFails(outcome)
  \/ RunPosted
  \/ PollTimer
  \/ StepTimer
  \/ \E result \in WorkerResults : WorkerEnds(result)
  \/ ClickConfirm
  \/ ClickDirect
  \/ AnswerDirectYes
  \/ AnswerDirectNo
  \/ Reject
  \/ DialogCanceled
  \/ PowerInvoked
  \/ PowerFailed
  \/ WarningClosed

-----------------------------------------------------------------------------
(***************************************************************************)
(* Properties                                                              *)
(***************************************************************************)

\* The lease is exactly as long as the flow that owns it: a waiting reservation
\* belongs to a deferred flow, a lease to a flow whose dialog or warning is open
\* or about to open.  Were a lease to outlive its flow, every later commit
\* request would queue behind nobody; were it to end early, a command batch
\* could start below the open dialog.
LeaseFollowsFlow ==
  /\ externalCompletion <=> power = "deferred"
  /\ lease <=> \/ power = "posted"
               \/ power = "dialog" /\ flow # "direct"
               \/ power = "warning" /\ disposition # "none"

\* Staged files are written by one worker at a time: while the dialog's commit
\* worker runs, the flow holds the lease and its dialog is still the one that
\* shows the commit, so no command batch can run beside it.
CommitIsExclusive ==
  worker = "writing" => lease /\ ~operation /\ dialog.state = "Staging" /\ dialog.closed = "no"

\* A safe shutdown happens only after the staging of this very flow has ended
\* with success, or with failures on recorded targets that the user accepted.
PowerIsEarned ==
  /\ invoked = "safe" => truth = "Succeeded"
  /\ invoked = "approved" => truth = "CompletedWithFailures"

\* The checks that throw logic_error are never what stops a flow: the dialog
\* offers to continue only what the coordinator is prepared to accept, every
\* lifecycle event is one the table lists, and no reservation is refused.
NoLogicError ==
  /\ ~fault /\ dialog.state # "LogicError"
  /\ dialog.closed # "no" => FinishDialog(dialog) # "LogicError"

\* An open dialog that is calculating or saving always has the timer armed that
\* will take it further, unless the direct question is open on top of it.
DialogNeverStalls ==
  Answerable(dialog) /\ dialog.mode = "Safe" =>
    /\ dialog.state = "Preparing" /\ ~dialog.directOpen => "preparation" \in dialog.timers
    /\ dialog.state = "Staging" => "step" \in dialog.timers

\* A commit request is told "Succeeded" only if a batch really succeeded: the
\* running command batch, or the staging of the power flow that completes its
\* lease.  A dialog that was canceled before it had a result is no answer.
AnswersAreTrue ==
  [][\A r \in Requests :
       clients[r] = "waiting" /\ clients'[r] = "Succeeded"
         => operation \/ (lease /\ truth = "Succeeded")]_<<coordinatorVars, powerVars>>
=============================================================================
