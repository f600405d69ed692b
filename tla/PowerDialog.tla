----------------------------- MODULE PowerDialog -----------------------------
(***************************************************************************)
(* The safe power dialog: the lifecycle table (PowerDialogState), the view *)
(* model that drives it (PowerDialogViewModel) and the parts of the window *)
(* that decide which inputs can arrive (runPowerActionDialog).  The dialog *)
(* is a record; an operator takes the record before a call and gives the   *)
(* record after it.  An event the table does not list throws logic_error,  *)
(* which is the state "LogicError" here.                                   *)
(***************************************************************************)

VARIABLE dialog   \* the view model of the dialog on the screen, or NoDialog

DialogStates ==
  {"Preparing", "Confirmation", "Staging", "FailureDecision", "Confirmed", "Canceled"}

Terminal == {"Confirmed", "Canceled"}

\* PowerStagingPreparation; a failure may carry the commit result.
Preparations == {"Commit", "NotRequired", "Failure", "FailureWithResult"}

\* PowerStagingProgress::state, again with or without failureResult.
StagingStatuses == {"InProgress", "Completed", "Failed", "FailedWithResult"}

DialogRecords ==
  [ mode            : {"None", "Safe", "Direct"},
    state           : DialogStates \cup {"LogicError"},
    failureObserved : BOOLEAN,
    canContinue     : BOOLEAN,                           \* m_failureCanContinue
    hasStaging      : BOOLEAN,                           \* m_advanceStaging is set
    directOpen      : BOOLEAN,                           \* m_directConfirmationOpen
    directSelected  : BOOLEAN,
    timers          : SUBSET {"preparation", "step"},    \* the active QTimers
    prepared        : Preparations \cup {"none"},        \* m_completedPreparation
    visible         : BOOLEAN,                           \* m_preparationElapsed runs
    closed          : {"no", "accepted", "rejected"} ]   \* QDialog::result, once closed

\* The lifecycle table.
DialogTransitions ==
  { <<"Preparing",       "PreparationReady", "Confirmation">>,
    <<"Preparing",       "FailureObserved",  "FailureDecision">>,
    <<"Preparing",       "Cancel",           "Canceled">>,
    <<"Confirmation",    "BeginStaging",     "Staging">>,
    <<"Confirmation",    "FailureObserved",  "FailureDecision">>,
    <<"Confirmation",    "Confirm",          "Confirmed">>,
    <<"Confirmation",    "Cancel",           "Canceled">>,
    <<"Staging",         "StagingCompleted", "Confirmed">>,
    <<"Staging",         "FailureObserved",  "FailureDecision">>,
    <<"FailureDecision", "Confirm",          "Confirmed">>,
    <<"FailureDecision", "Cancel",           "Canceled">> }

\* PowerDialogState::post.
Post(d, event) ==
  LET next == {to \in DialogStates : <<d.state, event, to>> \in DialogTransitions} IN
  IF next = {}
  THEN [d EXCEPT !.state = "LogicError"]
  ELSE [d EXCEPT !.state = CHOOSE to \in next : TRUE,
                 !.failureObserved = @ \/ event = "FailureObserved"]

\* PowerDialogViewModel's constructor and start().
NewDialog(mode, preparing) ==
  [ mode |-> mode, state |-> IF preparing THEN "Preparing" ELSE "Confirmation",
    failureObserved |-> FALSE, canContinue |-> FALSE, hasStaging |-> FALSE,
    directOpen |-> FALSE, directSelected |-> FALSE,
    timers |-> IF preparing THEN {"preparation"} ELSE {},
    prepared |-> "none", visible |-> FALSE, closed |-> "no" ]

NoDialog == NewDialog("None", FALSE)

\* Variant: every failure may be continued from, with or without a commit result.
ShowFailureAlwaysContinues(d, withResult) ==
  Post([d EXCEPT !.timers = {}, !.canContinue = TRUE], "FailureObserved")

\* showFailure.
ShowFailure(d, withResult) ==
  Post([d EXCEPT !.timers = {}, !.canContinue = withResult], "FailureObserved")

\* pollPreparation after the poll callback gave `answer'.  The outcome is kept
\* back until the calculating state, which becomes visible with the first poll,
\* has been shown for the minimum duration.
PollPreparation(d, answer, elapsed) ==
  LET fired == [d EXCEPT !.timers = @ \ {"preparation"}]
      ready == IF d.prepared = "none" THEN answer ELSE d.prepared
      shown == [fired EXCEPT !.prepared = "none", !.hasStaging = ready = "Commit"]
  IN CASE d.directOpen -> fired
       [] ~d.directOpen /\ (ready = "none" \/ ~d.visible \/ ~elapsed) ->
            [fired EXCEPT !.prepared = ready, !.visible = TRUE,
                          !.timers = @ \cup {"preparation"}]
       [] OTHER ->
            IF ready \in {"Failure", "FailureWithResult"}
            THEN ShowFailure(shown, ready = "FailureWithResult")
            ELSE Post(shown, "PreparationReady")

\* advanceStaging after the advance callback gave `status'.
AdvanceStaging(d, status) ==
  LET fired == [d EXCEPT !.timers = @ \ {"step"}] IN
  CASE d.state \in Terminal    -> fired
    [] d.state \notin Terminal /\ status = "InProgress" -> [fired EXCEPT !.timers = @ \cup {"step"}]
    [] d.state \notin Terminal /\ status = "Completed"  ->
         [Post(fired, "StagingCompleted") EXCEPT !.closed = "accepted"]
    [] d.state \notin Terminal /\ status \in {"Failed", "FailedWithResult"} ->
         ShowFailure(fired, status = "FailedWithResult")

\* confirm(), the action button.
Confirm(d) ==
  CASE \/ d.state = "FailureDecision" /\ d.canContinue
       \/ d.state = "Confirmation" /\ ~d.hasStaging ->
         [Post(d, "Confirm") EXCEPT !.closed = "accepted"]
    [] d.state = "Confirmation" /\ d.hasStaging ->
         [Post(d, "BeginStaging") EXCEPT !.timers = @ \cup {"step"}]
    [] OTHER -> d

\* Clicking "Direct shutdown..." opens a nested modal question.
BeginDirectConfirmation(d) ==
  [d EXCEPT !.directOpen = TRUE, !.timers = @ \ {"preparation"}]

\* Variant: the polling of the preparation is not resumed.
CancelDirectConfirmationNoResume(d) == [d EXCEPT !.directOpen = FALSE]

CancelDirectConfirmation(d) ==
  [d EXCEPT !.directOpen = FALSE,
            !.timers = IF d.state = "Preparing" THEN @ \cup {"preparation"} ELSE @]

ConfirmDirect(d) ==
  IF d.state \in {"Preparing", "Confirmation"}
  THEN [d EXCEPT !.timers = {}, !.directSelected = TRUE, !.closed = "accepted"]
  ELSE d

(***************************************************************************)
(* Which inputs the window lets through.  While the nested question is     *)
(* open it is modal.  The direct button is hidden once staging began or    *)
(* failed, and rejection (Cancel, Escape, the close button) is disabled    *)
(* from stagingBegan until failureObserved.  A direct restart shows only   *)
(* the question.                                                           *)
(***************************************************************************)
Answerable(d) == d.mode # "None" /\ d.closed = "no"

\* Variant: the window can be closed while files are written.
RejectionAllowedAlways(d) == Answerable(d) /\ ~d.directOpen

RejectionAllowed(d) == Answerable(d) /\ ~d.directOpen /\ d.state # "Staging"

ConfirmAllowed(d) ==
  /\ Answerable(d) /\ ~d.directOpen /\ d.mode = "Safe"
  /\ d.state \in {"Confirmation", "FailureDecision"}

DirectAllowed(d) ==
  /\ Answerable(d) /\ ~d.directOpen /\ d.mode = "Safe"
  /\ d.state \in {"Preparing", "Confirmation"}

\* PowerDialogViewModel::finish with PowerDialogState::outcome.
FinishDialog(d) ==
  LET accept == d.closed = "accepted" /\ (d.state # "FailureDecision" \/ d.canContinue)
      last   == IF d.state \in Terminal THEN d ELSE Post(d, IF accept THEN "Confirm" ELSE "Cancel")
  IN CASE d.directSelected -> "DirectConfirmed"
       [] ~d.directSelected /\ last.state = "Confirmed" ->
            IF last.failureObserved THEN "ContinuedAfterStagingFailure"
            ELSE IF d.mode = "Direct" THEN "DirectConfirmed" ELSE "Confirmed"
       [] ~d.directSelected /\ last.state = "Canceled" ->
            IF last.failureObserved THEN "CanceledAfterStagingFailure" ELSE "Canceled"
       [] OTHER -> "LogicError"
=============================================================================
