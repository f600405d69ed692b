----------------------- MODULE ShellInteractionProofs -----------------------
(***************************************************************************)
(* The invariants of safe power and of the main window's gates hold for    *)
(* every set of requesters.                                                *)
(***************************************************************************)
EXTENDS ShellInteraction, FileStagingCoordinatorProofs

\* The part of the specification that the theorems below rest on: no fairness.
ShellSafety == Init /\ [][Next]_vars

Running == {"scanning", "writing"}

\* What the end of a worker says about the staging; nothing while it runs.
TruthOf(w) ==
  CASE w = "Threw" -> "Failed"
    [] w \in {"Succeeded", "CompletedWithFailures"} -> w
    [] w \notin {"Threw", "Succeeded", "CompletedWithFailures"} -> "none"

\* What the position of the flow fixes about its local variables.
FlowIsPlaced ==
  /\ power # "dialog" => dialog = NoDialog
  /\ power # "idle" => invoked = "none"
  /\ power # "warning" => disposition = "none"
  /\ power \in {"idle", "deferred", "posted"} => worker = "none"
  /\ power \in {"deferred", "posted"} => flow = "completed" /\ task = "none"
  /\ power = "posted" => stagingResult = truth /\ truth # "none"
  /\ power = "warning" => worker # "writing" /\ (disposition = "none" <=> flow = "direct")

\* Once the flow has its result no worker runs, and success was real.
ResultIsFinal ==
  power # "idle" /\ stagingResult # "none" =>
    /\ worker \notin Running
    /\ stagingResult = "Succeeded" => truth = "Succeeded"
    /\ stagingResult = "CompletedWithFailures" => truth = "CompletedWithFailures"

\* An answer kept for the end of the warning is the flow's result.
AnswerIsKept == disposition \in Outcomes => disposition = stagingResult

\* The lifecycle of an open dialog: which flags, timers and ways of closing go
\* with each state.
DialogIsSound(d) ==
  /\ d.mode # "None"
  /\ d.state \in {"Preparing", "Confirmation", "Staging", "FailureDecision", "Confirmed"}
  /\ d.mode = "Direct" => d.state = "Confirmation" /\ ~d.directOpen
  /\ d.closed = "no" => d.state # "Confirmed" /\ ~d.directSelected
  /\ d.closed = "accepted" =>
       IF d.directSelected THEN d.state \in {"Preparing", "Confirmation"} ELSE d.state = "Confirmed"
  /\ d.closed = "rejected" =>
       ~d.directSelected /\ d.state \in {"Preparing", "Confirmation", "FailureDecision"}
  /\ d.state = "FailureDecision" => d.failureObserved
  /\ d.state \in {"Preparing", "Confirmation", "Staging"} => ~d.failureObserved
  /\ d.state = "Confirmed" /\ d.failureObserved => d.canContinue
  /\ d.prepared # "none" => d.state = "Preparing"
  /\ d.directOpen => d.state \in {"Preparing", "Confirmation"} /\ d.timers = {}
  /\ d.closed = "accepted" /\ d.directSelected => d.timers = {}

\* The armed timer belongs to the state, and is there while it is needed.
TimersAreArmed(d) ==
  /\ "preparation" \in d.timers => d.state = "Preparing"
  /\ "step" \in d.timers => d.state = "Staging"
  /\ d.state = "Preparing" /\ d.closed = "no" /\ ~d.directOpen => "preparation" \in d.timers
  /\ d.state = "Staging" => "step" \in d.timers

\* What a dialog without a task of its own shows: the result it was opened with,
\* or the plain question.
ResultIsShown(d) ==
  /\ task = "none" /\ worker = "none"
  /\ d.state \in {"Confirmation", "FailureDecision", "Confirmed"} /\ ~d.hasStaging
  /\ flow = "completed" => stagingResult = truth /\ truth # "none"
  /\ flow = "completed" => (d.failureObserved <=> stagingResult # "Succeeded")
  /\ flow = "completed" => (d.canContinue <=> stagingResult = "CompletedWithFailures")
  /\ flow = "direct" => ~d.failureObserved

\* What the outcome of the preparation, kept back or shown, says of the task.
PreparationMeans(outcome) ==
  /\ outcome = "none" =>
       /\ stagingResult = "none" /\ task \in {"none", "preparing"}
       /\ task = "none" => worker = "none"
       /\ task = "preparing" => worker \in {"scanning"} \cup WorkerResults
       /\ truth = TruthOf(worker)
  /\ outcome = "Commit" =>
       task = "ready" /\ worker = "Ready" /\ stagingResult = "none" /\ truth = "none"
  /\ outcome = "NotRequired" => stagingResult = "Succeeded"
  /\ outcome = "Failure" => stagingResult = "Failed"
  /\ outcome = "FailureWithResult" => stagingResult = "CompletedWithFailures"

\* What a dialog that writes knows of the commit: there is no result yet.
CommitIsOpen ==
  /\ stagingResult = "none"
  /\ \/ task = "ready" /\ worker = "Ready"
     \/ task = "committing" /\ worker \in {"writing"} \cup (WorkerResults \ {"Ready"})
  /\ truth = TruthOf(worker)

\* How far the flow's own task is, in each state of the dialog it drives.
TaskIsShown(d) ==
  /\ d.state = "Preparing" => PreparationMeans(d.prepared)
  /\ d.state = "Confirmation" => PreparationMeans(IF d.hasStaging THEN "Commit" ELSE "NotRequired")
  /\ d.state = "Staging" => CommitIsOpen
  /\ d.state = "FailureDecision" =>
       stagingResult = (IF d.canContinue THEN "CompletedWithFailures" ELSE "Failed")
  /\ d.state = "Confirmed" =>
       stagingResult = (IF d.failureObserved THEN "CompletedWithFailures" ELSE "Succeeded")

\* The open dialog and the flow behind it.
DialogIsDriven ==
  power = "dialog" =>
    /\ flow # "none"
    /\ dialog.mode = (IF flow = "direct" THEN "Direct" ELSE "Safe")
    /\ DialogIsSound(dialog)
    /\ TimersAreArmed(dialog)
    /\ flow = "reserved" => TaskIsShown(dialog)
    /\ flow \in {"completed", "direct"} => ResultIsShown(dialog)

\* The copy of the coordinator's activity in the main window.
ActivityIsFollowed == externalActive = (ownership # "Idle")

\* The part of the invariant that is about the power flow.
PowerInv ==
  /\ SafePowerTypeOK
  /\ LeaseFollowsFlow
  /\ FlowIsPlaced
  /\ ResultIsFinal
  /\ AnswerIsKept
  /\ DialogIsDriven
  /\ PowerIsEarned
  /\ ~fault

(***************************************************************************)
(* The inductive invariant.                                                *)
(***************************************************************************)
ShellInv ==
  /\ ShellTypeOK
  /\ CoordinatorInv
  /\ PowerInv
  /\ ApplyIsAlone
  /\ ActivityIsFollowed
  /\ PlanGateIsFresh

-----------------------------------------------------------------------------
(***************************************************************************)
(* The dialog.                                                             *)
(***************************************************************************)

\* The lifecycle table is a function of state and event.
LEMMA TableIsDeterministic ==
  ASSUME NEW s, NEW event, NEW to, NEW other,
         <<s, event, to>> \in DialogTransitions, <<s, event, other>> \in DialogTransitions
  PROVE  to = other
  BY DEF DialogTransitions

\* Two records of the same dialog, closed in the same way or both open.
Resembles(e, d) ==
  /\ e \in DialogRecords
  /\ e.mode = d.mode
  /\ e.directOpen = d.directOpen
  /\ e.directSelected = d.directSelected
  /\ e.closed = d.closed

\* A listed event moves the state as the table says and touches nothing else but
\* the memory of a failure.
LEMMA PostMoves ==
  ASSUME NEW d \in DialogRecords, NEW event, NEW to \in DialogStates,
         <<d.state, event, to>> \in DialogTransitions
  PROVE  /\ Resembles(Post(d, event), d)
         /\ Post(d, event).state = to
         /\ Post(d, event).failureObserved = (d.failureObserved \/ event = "FailureObserved")
         /\ Post(d, event).canContinue = d.canContinue
         /\ Post(d, event).hasStaging = d.hasStaging
         /\ Post(d, event).timers = d.timers
         /\ Post(d, event).prepared = d.prepared
<1>. DEFINE next == {other \in DialogStates : <<d.state, event, other>> \in DialogTransitions}
            failed == d.failureObserved \/ event = "FailureObserved"
<1>1. next = {to}
  BY TableIsDeterministic
<1>2. (CHOOSE other \in next : TRUE) = to
  BY <1>1
<1>3. next # {}
  BY <1>1
<1>4. Post(d, event) = [d EXCEPT !.state = CHOOSE other \in next : TRUE,
                                 !.failureObserved = failed]
  <2>. HIDE DEF DialogStates
  <2>. QED BY <1>3, Zenon DEF Post
<1>5. failed \in BOOLEAN
  OBVIOUS
<1>. HIDE DEF failed, next
<1>6. Post(d, event) = [d EXCEPT !.state = to, !.failureObserved = failed]
  BY <1>2, <1>4
<1>7. /\ Post(d, event) \in DialogRecords
      /\ Post(d, event).failureObserved = failed
  BY <1>5, <1>6 DEF DialogRecords
<1>8. Post(d, event).failureObserved = (d.failureObserved \/ event = "FailureObserved")
  BY <1>7 DEF failed
<1>. QED BY <1>6, <1>7, <1>8 DEF DialogRecords, Resembles

\* showFailure in a state that may fail: the decision is the user's, no timer runs.
LEMMA FailureIsShown ==
  ASSUME NEW d \in DialogRecords, NEW withResult \in BOOLEAN,
         d.state \in {"Preparing", "Confirmation", "Staging"}
  PROVE  /\ Resembles(ShowFailure(d, withResult), d)
         /\ ShowFailure(d, withResult).state = "FailureDecision"
         /\ ShowFailure(d, withResult).failureObserved
         /\ ShowFailure(d, withResult).canContinue = withResult
         /\ ShowFailure(d, withResult).hasStaging = d.hasStaging
         /\ ShowFailure(d, withResult).timers = {}
         /\ ShowFailure(d, withResult).prepared = d.prepared
<1>. DEFINE quiet == [d EXCEPT !.timers = {}, !.canContinue = withResult]
<1>1. /\ Resembles(quiet, d)
      /\ quiet.state = d.state
      /\ quiet.canContinue = withResult
      /\ quiet.hasStaging = d.hasStaging
      /\ quiet.timers = {}
      /\ quiet.prepared = d.prepared
  BY DEF DialogRecords, Resembles
<1>2. "FailureDecision" \in DialogStates
  BY DEF DialogStates
<1>3. ShowFailure(d, withResult) = Post(quiet, "FailureObserved")
  BY DEF ShowFailure
<1>. HIDE DEF quiet
<1>4. <<quiet.state, "FailureObserved", "FailureDecision">> \in DialogTransitions
  BY <1>1 DEF DialogTransitions
<1>5. quiet \in DialogRecords
  BY <1>1 DEF Resembles
<1>6. /\ Resembles(Post(quiet, "FailureObserved"), quiet)
      /\ Post(quiet, "FailureObserved").state = "FailureDecision"
      /\ Post(quiet, "FailureObserved").failureObserved
           = (quiet.failureObserved \/ "FailureObserved" = "FailureObserved")
      /\ Post(quiet, "FailureObserved").canContinue = quiet.canContinue
      /\ Post(quiet, "FailureObserved").hasStaging = quiet.hasStaging
      /\ Post(quiet, "FailureObserved").timers = quiet.timers
      /\ Post(quiet, "FailureObserved").prepared = quiet.prepared
  BY <1>2, <1>4, <1>5, PostMoves
<1>. QED BY <1>1, <1>3, <1>6 DEF Resembles

\* pollPreparation: the outcome is kept back, or the dialog moves on with it.
LEMMA PollMoves ==
  ASSUME NEW d \in DialogRecords, DialogIsSound(d), TimersAreArmed(d),
         "preparation" \in d.timers,
         NEW answer \in Preparations \cup {"none"}, NEW elapsed \in BOOLEAN,
         NEW ready, ready = IF d.prepared = "none" THEN answer ELSE d.prepared,
         NEW e, e = PollPreparation(d, answer, elapsed)
  PROVE  /\ Resembles(e, d)
         /\ \/ /\ e.state = "Preparing" /\ e.prepared = ready /\ ~e.failureObserved
               /\ e.timers = {"preparation"}
            \/ /\ e.state = "FailureDecision" /\ e.prepared = "none" /\ e.failureObserved
               /\ e.timers = {}
               /\ ready \in {"Failure", "FailureWithResult"}
               /\ e.canContinue = (ready = "FailureWithResult")
            \/ /\ e.state = "Confirmation" /\ e.prepared = "none" /\ ~e.failureObserved
               /\ e.timers = {}
               /\ ready \in {"Commit", "NotRequired"}
               /\ e.hasStaging = (ready = "Commit")
<1>. DEFINE fired == [d EXCEPT !.timers = @ \ {"preparation"}]
            commits == ready = "Commit"
            shown == [fired EXCEPT !.prepared = "none", !.hasStaging = commits]
            kept == [fired EXCEPT !.prepared = ready, !.visible = TRUE,
                                  !.timers = @ \cup {"preparation"}]
<1>1. /\ ~d.directOpen /\ d.state = "Preparing"
      /\ d.timers = {"preparation"}
      /\ d.failureObserved = FALSE
      /\ ready \in Preparations \cup {"none"}
  BY DEF DialogIsSound, TimersAreArmed, DialogRecords
<1>2. /\ Resembles(shown, d) /\ shown.state = "Preparing" /\ shown.failureObserved = FALSE
      /\ shown.timers = {} /\ shown.prepared = "none" /\ shown.hasStaging = commits
  <2>1. commits \in BOOLEAN
    OBVIOUS
  <2>. HIDE DEF commits
  <2>2. fired \in DialogRecords /\ fired = [d EXCEPT !.timers = {}]
    BY <1>1 DEF DialogRecords
  <2>. QED BY <1>1, <2>1, <2>2 DEF DialogRecords, Resembles
<1>3. /\ Resembles(kept, d) /\ kept.state = "Preparing" /\ kept.failureObserved = FALSE
      /\ kept.timers = {"preparation"} /\ kept.prepared = ready
  <2>1. fired \in DialogRecords /\ fired = [d EXCEPT !.timers = {}]
    BY <1>1 DEF DialogRecords
  <2>2. kept = [fired EXCEPT !.prepared = ready, !.visible = TRUE, !.timers = {"preparation"}]
    BY <2>1
  <2>. HIDE DEF fired, kept
  <2>3. /\ kept.mode = d.mode /\ kept.directOpen = d.directOpen /\ kept.closed = d.closed
        /\ kept.directSelected = d.directSelected /\ kept.state = "Preparing"
        /\ kept.failureObserved = FALSE
        /\ kept.timers = {"preparation"} /\ kept.prepared = ready
    BY <1>1, <2>1, <2>2 DEF DialogRecords
  <2>4. kept \in DialogRecords
    BY <1>1, <2>1, <2>2, ZenonT(60) DEF DialogRecords
  <2>. QED BY <2>3, <2>4 DEF Resembles
<1>4. e = IF ready = "none" \/ ~d.visible \/ ~elapsed THEN kept
          ELSE IF ready \in {"Failure", "FailureWithResult"}
               THEN ShowFailure(shown, ready = "FailureWithResult")
               ELSE Post(shown, "PreparationReady")
  BY <1>1, Zenon DEF PollPreparation
<1>. HIDE DEF shown, kept, fired
<1>5. CASE e = kept
  BY <1>3, <1>5
<1>6. CASE /\ ready \in {"Failure", "FailureWithResult"}
           /\ e = ShowFailure(shown, ready = "FailureWithResult")
  <2>1. PICK result \in BOOLEAN : result = (ready = "FailureWithResult")
    OBVIOUS
  <2>2. e = ShowFailure(shown, result)
    BY <1>6, <2>1
  <2>3. shown \in DialogRecords /\ shown.state \in {"Preparing", "Confirmation", "Staging"}
    BY <1>2 DEF Resembles
  <2>4. /\ Resembles(ShowFailure(shown, result), shown)
        /\ ShowFailure(shown, result).state = "FailureDecision"
        /\ ShowFailure(shown, result).failureObserved
        /\ ShowFailure(shown, result).canContinue = result
        /\ ShowFailure(shown, result).timers = {}
        /\ ShowFailure(shown, result).prepared = shown.prepared
    BY <2>3, FailureIsShown
  <2>. QED BY <1>2, <1>6, <2>1, <2>2, <2>4 DEF Resembles
<1>7. CASE /\ ready \in {"Commit", "NotRequired"}
           /\ e = Post(shown, "PreparationReady")
  <2>1. /\ <<shown.state, "PreparationReady", "Confirmation">> \in DialogTransitions
        /\ "Confirmation" \in DialogStates
    BY <1>2 DEF DialogTransitions, DialogStates
  <2>2. shown \in DialogRecords
    BY <1>2 DEF Resembles
  <2>3. /\ Resembles(e, shown)
        /\ e.state = "Confirmation"
        /\ e.failureObserved = (shown.failureObserved \/ "PreparationReady" = "FailureObserved")
        /\ e.hasStaging = shown.hasStaging
        /\ e.timers = shown.timers
        /\ e.prepared = shown.prepared
    BY <1>7, <2>1, <2>2, PostMoves
  <2>4. e.failureObserved = FALSE
    BY <1>2, <2>3
  <2>. QED BY <1>2, <1>7, <2>3, <2>4 DEF Resembles
<1>8. ready \in {"Failure", "FailureWithResult", "Commit", "NotRequired", "none"}
  BY <1>1 DEF Preparations
<1>. QED BY <1>4, <1>5, <1>6, <1>7, <1>8

\* A poll keeps the dialog in order.
LEMMA PollKeeps ==
  ASSUME NEW d \in DialogRecords, DialogIsSound(d), TimersAreArmed(d),
         "preparation" \in d.timers,
         NEW answer \in Preparations \cup {"none"}, NEW elapsed \in BOOLEAN,
         NEW e, e = PollPreparation(d, answer, elapsed)
  PROVE  DialogIsSound(e) /\ TimersAreArmed(e)
<1>. DEFINE ready == IF d.prepared = "none" THEN answer ELSE d.prepared
<1>1. /\ Resembles(e, d)
      /\ \/ /\ e.state = "Preparing" /\ e.prepared = ready /\ ~e.failureObserved
            /\ e.timers = {"preparation"}
         \/ /\ e.state = "FailureDecision" /\ e.prepared = "none" /\ e.failureObserved
            /\ e.timers = {}
         \/ /\ e.state = "Confirmation" /\ e.prepared = "none" /\ ~e.failureObserved
            /\ e.timers = {}
  BY PollMoves
<1>2. d.state = "Preparing" /\ ~d.directOpen /\ d.mode # "None" /\ d.mode # "Direct"
  BY DEF DialogIsSound, TimersAreArmed
<1>3. (d.closed = "no" /\ ~d.directSelected) \/ (d.closed = "rejected" /\ ~d.directSelected)
  <2>1. d.closed \in {"no", "accepted", "rejected"} /\ d.directSelected \in BOOLEAN
    BY DEF DialogRecords
  <2>2. d.closed # "accepted"
    BY <1>2, <2>1 DEF DialogIsSound
  <2>. QED BY <2>1, <2>2 DEF DialogIsSound
<1>. QED BY <1>1, <1>2, <1>3 DEF DialogIsSound, TimersAreArmed, Resembles
\* advanceStaging: the timer is armed again, or the dialog closes or asks.
LEMMA StepMoves ==
  ASSUME NEW d \in DialogRecords, DialogIsSound(d), TimersAreArmed(d), "step" \in d.timers,
         NEW status \in StagingStatuses,
         NEW e, e = AdvanceStaging(d, status)
  PROVE  /\ e \in DialogRecords /\ e.mode = d.mode
         /\ DialogIsSound(e) /\ TimersAreArmed(e)
         /\ \/ status = "InProgress" /\ e.state = "Staging"
            \/ status = "Completed" /\ e.state = "Confirmed" /\ ~e.failureObserved
            \/ /\ status \in {"Failed", "FailedWithResult"} /\ e.state = "FailureDecision"
               /\ e.canContinue = (status = "FailedWithResult")
<1>. DEFINE fired == [d EXCEPT !.timers = @ \ {"step"}]
<1>1. /\ d.state = "Staging" /\ d.timers = {"step"} /\ d.prepared = "none"
      /\ d.failureObserved = FALSE /\ d.directOpen = FALSE
      /\ d.mode = "Safe"
  BY DEF DialogIsSound, TimersAreArmed, DialogRecords
<1>2. d.closed = "no" /\ d.directSelected = FALSE
  <2>1. d.closed \in {"no", "accepted", "rejected"} /\ d.directSelected \in BOOLEAN
    BY DEF DialogRecords
  <2>2. d.closed # "accepted" /\ d.closed # "rejected"
    BY <1>1, <2>1 DEF DialogIsSound
  <2>. QED BY <2>1, <2>2 DEF DialogIsSound
<1>3. /\ Resembles(fired, d) /\ fired.state = "Staging" /\ fired.timers = {}
      /\ fired.prepared = "none" /\ fired.failureObserved = FALSE
  BY <1>1 DEF DialogRecords, Resembles
<1>4. d.state \notin Terminal
  BY <1>1 DEF Terminal
<1>5. status \in {"InProgress", "Completed", "Failed", "FailedWithResult"}
  BY DEF StagingStatuses
<1>6. fired \in DialogRecords
  BY <1>3 DEF Resembles
<1>7. CASE status = "InProgress"
  <2>1. e = [fired EXCEPT !.timers = @ \cup {"step"}]
    BY <1>4, <1>7, Zenon DEF AdvanceStaging
  <2>. HIDE DEF fired
  <2>2. e = [fired EXCEPT !.timers = {"step"}]
    BY <1>3, <2>1
  <2>3. /\ Resembles(e, d) /\ e.state = "Staging" /\ e.timers = {"step"}
        /\ e.prepared = "none" /\ e.failureObserved = FALSE
    BY <1>3, <1>6, <2>2 DEF DialogRecords, Resembles
  <2>. QED BY <1>1, <1>2, <1>7, <2>3 DEF DialogIsSound, TimersAreArmed, Resembles
<1>8. CASE status = "Completed"
  <2>. DEFINE done == Post(fired, "StagingCompleted")
  <2>1. e = [done EXCEPT !.closed = "accepted"]
    BY <1>4, <1>8 DEF AdvanceStaging
  <2>2. /\ <<fired.state, "StagingCompleted", "Confirmed">> \in DialogTransitions
        /\ "Confirmed" \in DialogStates
    BY <1>3 DEF DialogTransitions, DialogStates
  <2>. HIDE DEF fired
  <2>3. /\ Resembles(done, fired) /\ done.state = "Confirmed"
        /\ done.failureObserved = (fired.failureObserved \/ "StagingCompleted" = "FailureObserved")
        /\ done.timers = fired.timers
        /\ done.prepared = fired.prepared
    BY <1>6, <2>2, PostMoves
  <2>4. done.failureObserved = FALSE
    BY <1>3, <2>3
  <2>. HIDE DEF done
  <2>5. /\ e \in DialogRecords /\ e.state = "Confirmed" /\ e.timers = {}
        /\ e.prepared = "none" /\ e.failureObserved = FALSE /\ e.closed = "accepted"
        /\ e.mode = "Safe" /\ e.directOpen = FALSE /\ e.directSelected = FALSE
    BY <1>1, <1>2, <1>3, <2>1, <2>3, <2>4 DEF DialogRecords, Resembles
  <2>. QED BY <1>1, <1>8, <2>5 DEF DialogIsSound, TimersAreArmed
<1>9. CASE status \in {"Failed", "FailedWithResult"}
  <2>2. PICK result \in BOOLEAN : result = (status = "FailedWithResult")
    OBVIOUS
  <2>1. e = ShowFailure(fired, result)
    BY <1>4, <1>9, <2>2 DEF AdvanceStaging
  <2>. HIDE DEF fired
  <2>3. fired.state \in {"Preparing", "Confirmation", "Staging"}
    BY <1>3
  <2>4. /\ Resembles(ShowFailure(fired, result), fired)
        /\ ShowFailure(fired, result).state = "FailureDecision"
        /\ ShowFailure(fired, result).failureObserved
        /\ ShowFailure(fired, result).canContinue = result
        /\ ShowFailure(fired, result).timers = {}
        /\ ShowFailure(fired, result).prepared = fired.prepared
    BY <1>6, <2>3, FailureIsShown
  <2>5. /\ e \in DialogRecords /\ e.state = "FailureDecision" /\ e.timers = {}
        /\ e.prepared = "none" /\ e.failureObserved = TRUE /\ e.closed = "no"
        /\ e.mode = "Safe" /\ e.directOpen = FALSE /\ e.directSelected = FALSE
        /\ e.canContinue = result
    BY <1>1, <1>2, <1>3, <2>1, <2>4 DEF Resembles
  <2>6. DialogIsSound(e) /\ TimersAreArmed(e)
    BY <2>5 DEF DialogIsSound, TimersAreArmed
  <2>. QED BY <1>1, <1>9, <2>2, <2>5, <2>6
<1>. QED BY <1>5, <1>7, <1>8, <1>9

\* confirm(): the dialog closes, starts to write, or ignores the click.
LEMMA ConfirmMoves ==
  ASSUME NEW d \in DialogRecords, DialogIsSound(d), TimersAreArmed(d), ConfirmAllowed(d),
         NEW e, e = Confirm(d)
  PROVE  /\ e \in DialogRecords /\ e.mode = d.mode
         /\ DialogIsSound(e) /\ TimersAreArmed(e)
         /\ \/ e = d
            \/ /\ d.state = "Confirmation" /\ d.hasStaging
               /\ e.state = "Staging"
            \/ /\ d.state = "Confirmation" /\ ~d.hasStaging
               /\ e.state = "Confirmed" /\ ~e.failureObserved
            \/ /\ d.state = "FailureDecision" /\ d.canContinue
               /\ e.state = "Confirmed" /\ e.failureObserved
         /\ e.hasStaging = d.hasStaging /\ e.canContinue = d.canContinue
         /\ e.failureObserved = d.failureObserved
<1>1. /\ d.closed = "no" /\ d.directOpen = FALSE /\ d.directSelected = FALSE
      /\ d.mode = "Safe" /\ d.prepared = "none" /\ d.timers = {}
      /\ d.state \in {"Confirmation", "FailureDecision"}
      /\ d.failureObserved = (d.state = "FailureDecision")
  BY DEF ConfirmAllowed, Answerable, DialogIsSound, TimersAreArmed, DialogRecords
<1>2. ASSUME NEW event \in {"Confirm", "BeginStaging"}, NEW to \in {"Confirmed", "Staging"},
             <<d.state, event, to>> \in DialogTransitions
      PROVE  /\ Resembles(Post(d, event), d) /\ Post(d, event).state = to
             /\ Post(d, event).failureObserved = d.failureObserved
             /\ Post(d, event).canContinue = d.canContinue
             /\ Post(d, event).hasStaging = d.hasStaging
             /\ Post(d, event).timers = {} /\ Post(d, event).prepared = "none"
  <2>1. to \in DialogStates
    BY DEF DialogStates
  <2>2. /\ Resembles(Post(d, event), d) /\ Post(d, event).state = to
        /\ Post(d, event).failureObserved = (d.failureObserved \/ event = "FailureObserved")
        /\ Post(d, event).canContinue = d.canContinue
        /\ Post(d, event).hasStaging = d.hasStaging
        /\ Post(d, event).timers = d.timers
        /\ Post(d, event).prepared = d.prepared
    BY <1>2, <2>1, PostMoves
  <2>3. d.failureObserved \in BOOLEAN
    BY DEF DialogRecords
  <2>4. (d.failureObserved \/ event = "FailureObserved") = d.failureObserved
    BY <2>3
  <2>. QED BY <1>1, <2>2, <2>4
<1>3. CASE d.state = "Confirmation" /\ d.hasStaging
  <2>. DEFINE begun == Post(d, "BeginStaging")
  <2>1. e = [begun EXCEPT !.timers = @ \cup {"step"}]
    BY <1>3, Zenon DEF Confirm
  <2>2. <<d.state, "BeginStaging", "Staging">> \in DialogTransitions
    BY <1>3 DEF DialogTransitions
  <2>3. /\ Resembles(begun, d) /\ begun.state = "Staging"
        /\ begun.failureObserved = d.failureObserved
        /\ begun.canContinue = d.canContinue
        /\ begun.hasStaging = d.hasStaging
        /\ begun.timers = {} /\ begun.prepared = "none"
    BY <1>2, <2>2
  <2>. HIDE DEF begun
  <2>4. e = [begun EXCEPT !.timers = {"step"}]
    BY <2>1, <2>3
  <2>5. /\ Resembles(e, d) /\ e.state = "Staging" /\ e.failureObserved = d.failureObserved
        /\ e.hasStaging = d.hasStaging /\ e.canContinue = d.canContinue
        /\ e.timers = {"step"} /\ e.prepared = "none"
    BY <2>3, <2>4 DEF Resembles, DialogRecords
  <2>6. e.failureObserved = FALSE
    BY <1>1, <1>3, <2>5
  <2>7. DialogIsSound(e) /\ TimersAreArmed(e)
    BY <1>1, <2>5, <2>6 DEF DialogIsSound, TimersAreArmed, Resembles
  <2>. QED BY <1>3, <2>5, <2>7 DEF Resembles
<1>4. CASE \/ d.state = "FailureDecision" /\ d.canContinue
           \/ d.state = "Confirmation" /\ ~d.hasStaging
  <2>. DEFINE accepted == Post(d, "Confirm")
  <2>1. e = [accepted EXCEPT !.closed = "accepted"]
    BY <1>4, Zenon DEF Confirm
  <2>2. <<d.state, "Confirm", "Confirmed">> \in DialogTransitions
    BY <1>4 DEF DialogTransitions
  <2>3. /\ Resembles(accepted, d) /\ accepted.state = "Confirmed"
        /\ accepted.failureObserved = d.failureObserved
        /\ accepted.canContinue = d.canContinue
        /\ accepted.hasStaging = d.hasStaging
        /\ accepted.timers = {} /\ accepted.prepared = "none"
    BY <1>2, <2>2
  <2>. HIDE DEF accepted
  <2>4. /\ e \in DialogRecords /\ e.mode = d.mode
        /\ e.directOpen = d.directOpen /\ e.directSelected = d.directSelected
        /\ e.closed = "accepted" /\ e.state = "Confirmed"
        /\ e.failureObserved = d.failureObserved
        /\ e.hasStaging = d.hasStaging /\ e.canContinue = d.canContinue
        /\ e.timers = {} /\ e.prepared = "none"
    BY <2>1, <2>3 DEF Resembles, DialogRecords
  <2>5. d.failureObserved => d.canContinue
    BY <1>1, <1>4
  <2>6. DialogIsSound(e) /\ TimersAreArmed(e)
    BY <1>1, <2>4, <2>5 DEF DialogIsSound, TimersAreArmed
  <2>. QED BY <1>1, <1>4, <2>4, <2>6
<1>5. CASE ~((d.state = "FailureDecision" /\ d.canContinue) \/ d.state = "Confirmation")
  <2>1. e = d
    BY <1>5, Zenon DEF Confirm
  <2>. QED BY <2>1
<1>. QED BY <1>3, <1>4, <1>5

\* exec() returned: a dialog in order ends in one of the outcomes that its
\* coordinator is prepared for.
LEMMA FinishMeans ==
  ASSUME NEW d \in DialogRecords, DialogIsSound(d), d.closed # "no"
  PROVE  /\ d.directSelected => FinishDialog(d) = "DirectConfirmed"
         /\ d.closed = "accepted" /\ ~d.directSelected /\ d.failureObserved =>
              FinishDialog(d) = "ContinuedAfterStagingFailure"
         /\ d.closed = "accepted" /\ ~d.directSelected /\ ~d.failureObserved =>
              FinishDialog(d) = "Confirmed" /\ d.mode # "Direct"
         /\ d.closed = "rejected" =>
              FinishDialog(d) \in {"Canceled", "CanceledAfterStagingFailure"}
<1>0. /\ d.directSelected \in BOOLEAN /\ d.failureObserved \in BOOLEAN
      /\ d.closed \in {"accepted", "rejected"}
  BY DEF DialogRecords
<1>1. CASE d.directSelected
  <2>1. FinishDialog(d) = "DirectConfirmed"
    BY <1>1, Zenon DEF FinishDialog
  <2>2. d.closed # "rejected"
    BY <1>1 DEF DialogIsSound
  <2>. QED BY <1>1, <2>1, <2>2
<1>2. CASE ~d.directSelected /\ d.closed = "accepted"
  <2>1. d.state = "Confirmed" /\ d.mode # "Direct"
    BY <1>2 DEF DialogIsSound
  <2>2. d.state \in Terminal
    BY <2>1 DEF Terminal
  <2>3. FinishDialog(d) = IF d.failureObserved THEN "ContinuedAfterStagingFailure"
                          ELSE IF d.mode = "Direct" THEN "DirectConfirmed" ELSE "Confirmed"
    BY <1>2, <2>1, <2>2 DEF FinishDialog
  <2>. QED BY <1>0, <1>2, <2>1, <2>3
<1>3. CASE ~d.directSelected /\ d.closed = "rejected"
  <2>. DEFINE last == Post(d, "Cancel")
  <2>1. d.state \in {"Preparing", "Confirmation", "FailureDecision"} /\ d.state \notin Terminal
    BY <1>3 DEF DialogIsSound, Terminal
  <2>2. <<d.state, "Cancel", "Canceled">> \in DialogTransitions /\ "Canceled" \in DialogStates
    BY <2>1 DEF DialogTransitions, DialogStates
  <2>3. last.state = "Canceled"
    BY <2>2, PostMoves
  <2>. HIDE DEF last
  <2>4. FinishDialog(d) = IF last.failureObserved THEN "CanceledAfterStagingFailure" ELSE "Canceled"
    BY <1>3, <2>1, <2>3 DEF FinishDialog, last
  <2>. QED BY <1>3, <2>4
<1>. QED BY <1>0, <1>1, <1>2, <1>3
\* The two records show the same to the user.
ShowsTheSame(e, d) ==
  /\ e.state = d.state
  /\ e.failureObserved = d.failureObserved
  /\ e.canContinue = d.canContinue
  /\ e.hasStaging = d.hasStaging
  /\ e.prepared = d.prepared

\* The nested question and the rejection of the dialog.
LEMMA AnswersKeep ==
  ASSUME NEW d \in DialogRecords, DialogIsSound(d), TimersAreArmed(d), Answerable(d), NEW e,
         \/ DirectAllowed(d) /\ e = BeginDirectConfirmation(d)
         \/ d.directOpen /\ e = CancelDirectConfirmation(d)
         \/ (d.directOpen \/ d.mode = "Direct") /\ e = ConfirmDirect(d)
         \/ RejectionAllowed(d) /\ e = [d EXCEPT !.closed = "rejected"]
  PROVE  /\ e \in DialogRecords /\ e.mode = d.mode
         /\ DialogIsSound(e) /\ TimersAreArmed(e)
         /\ ShowsTheSame(e, d)
<1>0. d.closed = "no" /\ d.directSelected = FALSE /\ d.mode \in {"Safe", "Direct"}
  BY DEF Answerable, DialogIsSound, DialogRecords
<1>1. CASE DirectAllowed(d) /\ e = BeginDirectConfirmation(d)
  <2>1. /\ d.directOpen = FALSE /\ d.mode = "Safe" /\ d.state \in {"Preparing", "Confirmation"}
        /\ d.timers \ {"preparation"} = {}
    BY <1>1 DEF DirectAllowed, DialogRecords, TimersAreArmed
  <2>2. e = [d EXCEPT !.directOpen = TRUE, !.timers = {}]
    BY <1>1, <2>1 DEF BeginDirectConfirmation
  <2>3. /\ e \in DialogRecords /\ e.mode = d.mode /\ ShowsTheSame(e, d)
        /\ e.directOpen = TRUE /\ e.timers = {} /\ e.closed = "no" /\ e.directSelected = FALSE
    BY <1>0, <2>2 DEF DialogRecords, ShowsTheSame
  <2>. QED BY <2>1, <2>3 DEF DialogIsSound, TimersAreArmed, ShowsTheSame
<1>2. CASE d.directOpen /\ e = CancelDirectConfirmation(d)
  <2>. DEFINE armed == IF d.state = "Preparing" THEN {"preparation"} ELSE {}
  <2>1. /\ d.timers = {} /\ d.state \in {"Preparing", "Confirmation"}
    BY <1>2 DEF DialogIsSound
  <2>2. e = [d EXCEPT !.directOpen = FALSE, !.timers = armed]
    BY <1>2, <2>1 DEF CancelDirectConfirmation
  <2>3. /\ e \in DialogRecords /\ e.mode = d.mode /\ ShowsTheSame(e, d)
        /\ e.directOpen = FALSE /\ e.timers = armed /\ e.closed = "no" /\ e.directSelected = FALSE
    BY <1>0, <2>2 DEF DialogRecords, ShowsTheSame
  <2>. QED BY <2>1, <2>3 DEF DialogIsSound, TimersAreArmed, ShowsTheSame
<1>3. CASE (d.directOpen \/ d.mode = "Direct") /\ e = ConfirmDirect(d)
  <2>1. d.state \in {"Preparing", "Confirmation"}
    BY <1>3 DEF DialogIsSound
  <2>2. e = [d EXCEPT !.timers = {}, !.directSelected = TRUE, !.closed = "accepted"]
    BY <1>3, <2>1 DEF ConfirmDirect
  <2>3. /\ e \in DialogRecords /\ e.mode = d.mode /\ ShowsTheSame(e, d)
        /\ e.directOpen = d.directOpen /\ e.timers = {} /\ e.closed = "accepted"
        /\ e.directSelected = TRUE
    BY <2>2 DEF DialogRecords, ShowsTheSame
  <2>. QED BY <2>1, <2>3 DEF DialogIsSound, TimersAreArmed, ShowsTheSame
<1>4. CASE RejectionAllowed(d) /\ e = [d EXCEPT !.closed = "rejected"]
  <2>1. d.directOpen = FALSE /\ d.state # "Staging" /\ d.state # "Confirmed"
    BY <1>0, <1>4 DEF RejectionAllowed, DialogRecords, DialogIsSound
  <2>2. /\ e \in DialogRecords /\ e.mode = d.mode /\ ShowsTheSame(e, d)
        /\ e.directOpen = FALSE /\ e.timers = d.timers /\ e.closed = "rejected"
        /\ e.directSelected = FALSE
    BY <1>0, <1>4, <2>1 DEF DialogRecords, ShowsTheSame
  <2>. QED BY <2>1, <2>2 DEF DialogIsSound, TimersAreArmed, ShowsTheSame
<1>. QED BY <1>1, <1>2, <1>3, <1>4

\* A dialog that opens is in order.
LEMMA NewIsSound ==
  /\ NewDialog("Safe", TRUE) \in DialogRecords
  /\ NewDialog("Safe", FALSE) \in DialogRecords
  /\ NewDialog("Direct", FALSE) \in DialogRecords
  /\ NoDialog \in DialogRecords
  /\ DialogIsSound(NewDialog("Safe", TRUE)) /\ TimersAreArmed(NewDialog("Safe", TRUE))
  /\ DialogIsSound(NewDialog("Safe", FALSE)) /\ TimersAreArmed(NewDialog("Safe", FALSE))
  /\ DialogIsSound(NewDialog("Direct", FALSE)) /\ TimersAreArmed(NewDialog("Direct", FALSE))
<1>1. /\ NewDialog("Safe", TRUE) \in DialogRecords
      /\ NewDialog("Safe", FALSE) \in DialogRecords
      /\ NewDialog("Direct", FALSE) \in DialogRecords
      /\ NoDialog \in DialogRecords
  BY DEF NewDialog, NoDialog, DialogRecords, DialogStates, Preparations
<1>2. DialogIsSound(NewDialog("Safe", TRUE)) /\ TimersAreArmed(NewDialog("Safe", TRUE))
  BY DEF NewDialog, DialogIsSound, TimersAreArmed
<1>3. DialogIsSound(NewDialog("Safe", FALSE)) /\ TimersAreArmed(NewDialog("Safe", FALSE))
  BY DEF NewDialog, DialogIsSound, TimersAreArmed
<1>4. DialogIsSound(NewDialog("Direct", FALSE)) /\ TimersAreArmed(NewDialog("Direct", FALSE))
  BY DEF NewDialog, DialogIsSound, TimersAreArmed
<1>. QED BY <1>1, <1>2, <1>3, <1>4

-----------------------------------------------------------------------------
(***************************************************************************)
(* The power flow.                                                         *)
(***************************************************************************)

\* Files are written only below a dialog that says so.
LEMMA WritingIsShown ==
  ASSUME PowerInv, power = "dialog", worker = "writing"
  PROVE  flow = "reserved" /\ dialog.state = "Staging" /\ dialog.closed = "no"
<1>. USE DEF PowerInv
<1>1. flow = "reserved"
  BY DEF DialogIsDriven, ResultIsShown, SafePowerTypeOK
<1>2. stagingResult = "none"
  BY DEF ResultIsFinal, Running
<1>3. TaskIsShown(dialog) /\ DialogIsSound(dialog)
  BY <1>1 DEF DialogIsDriven
<1>4. dialog.state = "Staging"
  BY <1>2, <1>3 DEF TaskIsShown, PreparationMeans, CommitIsOpen, WorkerResults, DialogIsSound,
                    SafePowerTypeOK, DialogRecords, Preparations
<1>5. dialog.closed \in {"no", "accepted", "rejected"}
  BY DEF SafePowerTypeOK, DialogRecords
<1>6. dialog.closed = "no"
  BY <1>3, <1>4, <1>5 DEF DialogIsSound
<1>. QED BY <1>1, <1>4, <1>6

\* The checks before invokePowerAction do not stop a flow that was not canceled.
LEMMA OutcomeIsApproved ==
  ASSUME PowerInv, power = "dialog", dialog.closed # "no",
         NEW outcome, outcome = FinishDialog(dialog)
  PROVE  /\ outcome \in {"DirectConfirmed", "ContinuedAfterStagingFailure", "Confirmed",
                         "Canceled", "CanceledAfterStagingFailure"}
         /\ outcome \notin {"Canceled", "CanceledAfterStagingFailure"} => Approved(outcome)
         /\ outcome = "ContinuedAfterStagingFailure" => stagingResult = "CompletedWithFailures"
         /\ outcome = "Confirmed" => stagingResult = "Succeeded"
<1>. USE DEF PowerInv
<1>1. dialog \in DialogRecords /\ DialogIsSound(dialog)
  BY DEF SafePowerTypeOK, DialogIsDriven
<1>2. /\ dialog.closed \in {"accepted", "rejected"} /\ dialog.directSelected \in BOOLEAN
      /\ dialog.failureObserved \in BOOLEAN /\ flow \in {"reserved", "completed", "direct"}
  BY <1>1 DEF DialogRecords, SafePowerTypeOK, DialogIsDriven
<1>3. /\ dialog.directSelected => outcome = "DirectConfirmed"
      /\ dialog.closed = "accepted" /\ ~dialog.directSelected /\ dialog.failureObserved =>
           outcome = "ContinuedAfterStagingFailure"
      /\ dialog.closed = "accepted" /\ ~dialog.directSelected /\ ~dialog.failureObserved =>
           outcome = "Confirmed" /\ dialog.mode # "Direct"
      /\ dialog.closed = "rejected" => outcome \in {"Canceled", "CanceledAfterStagingFailure"}
  BY <1>1, FinishMeans
<1>4. CASE dialog.directSelected
  <2>1. outcome = "DirectConfirmed"
    BY <1>3, <1>4
  <2>2. Approved(outcome)
    BY <2>1 DEF Approved
  <2>. QED BY <2>1, <2>2
<1>5. CASE dialog.closed = "accepted" /\ ~dialog.directSelected /\ dialog.failureObserved
  <2>1. outcome = "ContinuedAfterStagingFailure"
    BY <1>3, <1>5
  <2>2. dialog.state = "Confirmed" /\ dialog.canContinue
    BY <1>1, <1>5 DEF DialogIsSound
  <2>3. stagingResult = "CompletedWithFailures"
    BY <1>2, <1>5, <2>2 DEF DialogIsDriven, TaskIsShown, ResultIsShown
  <2>4. Approved(outcome)
    BY <2>1, <2>3 DEF Approved
  <2>. QED BY <2>1, <2>3, <2>4
<1>6. CASE dialog.closed = "accepted" /\ ~dialog.directSelected /\ ~dialog.failureObserved
  <2>1. outcome = "Confirmed" /\ dialog.mode # "Direct"
    BY <1>3, <1>6
  <2>2. dialog.state = "Confirmed" /\ flow # "direct"
    BY <1>1, <1>6, <2>1 DEF DialogIsSound, DialogIsDriven
  <2>3. stagingResult = "Succeeded"
    BY <1>2, <1>6, <2>2 DEF DialogIsDriven, TaskIsShown, ResultIsShown
  <2>4. Approved(outcome)
    BY <2>1, <2>2, <2>3 DEF Approved
  <2>. QED BY <2>1, <2>3, <2>4
<1>7. CASE dialog.closed = "rejected"
  <2>1. outcome \in {"Canceled", "CanceledAfterStagingFailure"}
    BY <1>3, <1>7
  <2>. QED BY <2>1
<1>. QED BY <1>2, <1>4, <1>5, <1>6, <1>7

\* What the scope guards do: a flow that holds the lease gives it back, with its
\* result if it has one.
LEMMA LeaseIsDisposedOf ==
  ASSUME PowerInv, power = "dialog", NEW outcome, NEW ok \in BOOLEAN
  PROVE  /\ Disposition(outcome, ok) \in {"none", "release"} \cup Outcomes
         /\ Disposition(outcome, ok) = "none" <=> flow = "direct"
         /\ Disposition(outcome, ok) \in Outcomes =>
              Disposition(outcome, ok) = stagingResult \/ (ok /\ Disposition(outcome, ok) = "Rejected")
<1>1. flow \in {"reserved", "completed", "direct"} /\ stagingResult \in {"none"} \cup BatchOutcomes
  BY DEF PowerInv, SafePowerTypeOK, DialogIsDriven
<1>2. flow = "completed" => stagingResult # "none"
  BY DEF PowerInv, DialogIsDriven, ResultIsShown
<1>. QED BY <1>1, <1>2 DEF Disposition, ResultOrRelease, BatchOutcomes, Outcomes

\* Disposing of the lease ends it, whichever way.
LEMMA DisposedIsOver ==
  ASSUME NEW how \in {"none", "release"} \cup Outcomes, DisposeOfLease(how)
  PROVE  /\ how = "none" => lease' = lease
         /\ how # "none" => lease' = FALSE
         /\ externalCompletion' = externalCompletion
         /\ suspended' = suspended
  BY DEF DisposeOfLease, coordinatorVars, ReleaseExternalBatch, CompleteExternalBatch, Outcomes
\* A step that leaves the flow, the lease and the waiting reservation alone.
LEMMA FlowUnmoved ==
  ASSUME PowerInv, UNCHANGED <<powerVars, lease, externalCompletion>>
  PROVE  PowerInv'
  BY DEF powerVars, PowerInv, SafePowerTypeOK, LeaseFollowsFlow, FlowIsPlaced, ResultIsFinal,
         AnswerIsKept, DialogIsDriven, TaskIsShown, PreparationMeans, CommitIsOpen,
         ResultIsShown, PowerIsEarned

\* A flow that ends leaves nothing behind that the next one could trip over.
LEMMA FlowEnds ==
  ASSUME PowerInv, power' = "idle", dialog' = NoDialog, worker' = "none",
         lease' = FALSE, externalCompletion' = FALSE, disposition' = "none",
         UNCHANGED <<flow, stagingResult, task, truth, fault>>,
         invoked' \in {"none", "safe", "approved", "direct"}, PowerIsEarned'
  PROVE  PowerInv'
<1>1. SafePowerTypeOK'
  BY NewIsSound DEF PowerInv, SafePowerTypeOK
<1>. QED BY <1>1 DEF PowerInv, LeaseFollowsFlow, FlowIsPlaced, ResultIsFinal, AnswerIsKept,
                     DialogIsDriven, Outcomes

\* A step inside an open dialog.
LEMMA DialogMoves ==
  ASSUME PowerInv, power = "dialog",
         UNCHANGED <<power, flow, disposition, invoked, fault, lease, externalCompletion>>,
         stagingResult' \in {"none"} \cup BatchOutcomes,
         task' \in {"none", "preparing", "ready", "committing", "completed"},
         worker' \in {"none", "scanning", "writing"} \cup WorkerResults,
         truth' \in {"none"} \cup BatchOutcomes,
         dialog' \in DialogRecords, dialog'.mode = dialog.mode,
         DialogIsSound(dialog'), TimersAreArmed(dialog'),
         ResultIsFinal',
         flow = "reserved" => TaskIsShown(dialog)',
         flow \in {"completed", "direct"} => ResultIsShown(dialog)'
  PROVE  PowerInv'
<1>1. SafePowerTypeOK'
  BY DEF PowerInv, SafePowerTypeOK
<1>2. LeaseFollowsFlow'
  BY DEF PowerInv, LeaseFollowsFlow
<1>3. FlowIsPlaced' /\ AnswerIsKept'
  BY DEF PowerInv, FlowIsPlaced, AnswerIsKept, Outcomes
<1>4. DialogIsDriven'
  BY DEF PowerInv, DialogIsDriven
<1>5. PowerIsEarned' /\ ~fault'
  BY DEF PowerInv, PowerIsEarned, FlowIsPlaced
<1>. QED BY <1>1, <1>2, <1>3, <1>4, <1>5 DEF PowerInv

\* safeShutdown and safeRestart with an idle coordinator: the dialog opens.
LEMMA ExecuteReservedKeeps == ASSUME PowerInv, ExecuteReserved PROVE PowerInv'
<1>1. /\ power' = "dialog" /\ dialog' = NewDialog("Safe", TRUE)
      /\ flow' = "reserved" /\ stagingResult' = "none" /\ task' = "none" /\ worker' = "none"
      /\ disposition' = "none" /\ truth' = "none" /\ invoked' = "none" /\ fault' = fault
      /\ lease' = TRUE /\ externalCompletion' = externalCompletion /\ power = "idle"
  BY DEF ExecuteReserved, FreshFlow, ReserveNow
<1>2. dialog' \in DialogRecords /\ DialogIsSound(dialog') /\ TimersAreArmed(dialog')
  BY <1>1, NewIsSound
<1>3. dialog'.mode = "Safe" /\ dialog'.state = "Preparing" /\ dialog'.prepared = "none"
  BY <1>1 DEF NewDialog
<1>4. SafePowerTypeOK'
  BY <1>1, <1>2 DEF PowerInv, SafePowerTypeOK
<1>5. LeaseFollowsFlow' /\ FlowIsPlaced' /\ ResultIsFinal' /\ AnswerIsKept'
  BY <1>1 DEF PowerInv, LeaseFollowsFlow, FlowIsPlaced, ResultIsFinal, AnswerIsKept, Outcomes
<1>6. TaskIsShown(dialog)'
  BY <1>1, <1>3 DEF TaskIsShown, PreparationMeans, TruthOf
<1>7. DialogIsDriven'
  BY <1>1, <1>2, <1>3, <1>6 DEF DialogIsDriven
<1>8. PowerIsEarned' /\ ~fault'
  BY <1>1 DEF PowerInv, PowerIsEarned
<1>. QED BY <1>4, <1>5, <1>7, <1>8 DEF PowerInv

\* The same with a running batch: the flow waits for it.
LEMMA ExecuteDeferredKeeps == ASSUME PowerInv, ExecuteDeferred PROVE PowerInv'
<1>1. /\ power' = "deferred" /\ dialog' = dialog
      /\ flow' = "completed" /\ stagingResult' = "none" /\ task' = "none" /\ worker' = "none"
      /\ disposition' = "none" /\ truth' = "none" /\ invoked' = "none" /\ fault' = fault
      /\ lease' = lease /\ externalCompletion' = TRUE /\ power = "idle"
  BY DEF ExecuteDeferred, FreshFlow, ReserveLater
<1>2. SafePowerTypeOK'
  BY <1>1 DEF PowerInv, SafePowerTypeOK
<1>3. LeaseFollowsFlow' /\ FlowIsPlaced' /\ ResultIsFinal' /\ AnswerIsKept'
  BY <1>1 DEF PowerInv, LeaseFollowsFlow, FlowIsPlaced, ResultIsFinal, AnswerIsKept, Outcomes
<1>4. DialogIsDriven' /\ PowerIsEarned' /\ ~fault'
  BY <1>1 DEF PowerInv, DialogIsDriven, PowerIsEarned
<1>. QED BY <1>2, <1>3, <1>4 DEF PowerInv

\* directRestart.
LEMMA ExecuteDirectKeeps == ASSUME PowerInv, ExecuteDirect PROVE PowerInv'
<1>1. /\ power' = "dialog" /\ dialog' = NewDialog("Direct", FALSE)
      /\ flow' = "direct" /\ stagingResult' = "none" /\ task' = "none" /\ worker' = "none"
      /\ disposition' = "none" /\ truth' = "none" /\ invoked' = "none" /\ fault' = fault
      /\ lease' = lease /\ externalCompletion' = externalCompletion /\ power = "idle"
  BY DEF ExecuteDirect, FreshFlow, coordinatorVars
<1>2. dialog' \in DialogRecords /\ DialogIsSound(dialog') /\ TimersAreArmed(dialog')
  BY <1>1, NewIsSound
<1>3. /\ dialog'.mode = "Direct" /\ dialog'.state = "Confirmation"
      /\ dialog'.hasStaging = FALSE /\ dialog'.failureObserved = FALSE
  BY <1>1 DEF NewDialog
<1>4. SafePowerTypeOK'
  BY <1>1, <1>2 DEF PowerInv, SafePowerTypeOK
<1>5. LeaseFollowsFlow' /\ FlowIsPlaced' /\ ResultIsFinal' /\ AnswerIsKept'
  BY <1>1 DEF PowerInv, LeaseFollowsFlow, FlowIsPlaced, ResultIsFinal, AnswerIsKept, Outcomes
<1>6. ResultIsShown(dialog)'
  BY <1>1, <1>3 DEF ResultIsShown
<1>7. DialogIsDriven'
  BY <1>1, <1>2, <1>3, <1>6 DEF DialogIsDriven
<1>8. PowerIsEarned' /\ ~fault'
  BY <1>1 DEF PowerInv, PowerIsEarned
<1>. QED BY <1>4, <1>5, <1>7, <1>8 DEF PowerInv

\* finish(), with or without a reservation that waits, and the posting that fails.
LEMMA FinishKeeps ==
  ASSUME CoordinatorInv, PowerInv, NEW outcome \in BatchOutcomes,
         FinishBatch(outcome) \/ FinishBatchPostingFails(outcome)
  PROVE  PowerInv'
<1>0. lease = FALSE /\ lease \in BOOLEAN /\ externalCompletion \in BOOLEAN
  BY DEF CoordinatorInv, CoordinatorTypeOK, OwnershipAgrees, FinishBatch, Finish,
         FinishBatchPostingFails
<1>1. CASE FinishBatch(outcome) /\ externalCompletion
  <2>1. /\ power' = "posted" /\ stagingResult' = outcome /\ truth' = outcome
        /\ UNCHANGED <<flow, dialog, task, worker, disposition, invoked, fault>>
        /\ lease' = TRUE /\ externalCompletion' = FALSE /\ power = "deferred"
    BY <1>0, <1>1 DEF FinishBatch, Finish, PowerInv, LeaseFollowsFlow
  <2>2. outcome # "none"
    BY DEF BatchOutcomes
  <2>3. SafePowerTypeOK'
    BY <2>1 DEF PowerInv, SafePowerTypeOK
  <2>4. LeaseFollowsFlow' /\ FlowIsPlaced' /\ ResultIsFinal' /\ AnswerIsKept'
    BY <2>1, <2>2 DEF PowerInv, LeaseFollowsFlow, FlowIsPlaced, ResultIsFinal, AnswerIsKept,
                      Outcomes, Running
  <2>5. DialogIsDriven' /\ PowerIsEarned' /\ ~fault'
    BY <2>1 DEF PowerInv, DialogIsDriven, PowerIsEarned, FlowIsPlaced
  <2>. QED BY <2>3, <2>4, <2>5 DEF PowerInv
<1>2. CASE FinishBatch(outcome) /\ ~externalCompletion
  <2>1. UNCHANGED powerVars /\ externalCompletion' = FALSE /\ lease' = (lease \/ externalCompletion)
    BY <1>2 DEF FinishBatch, Finish
  <2>2. UNCHANGED <<powerVars, lease, externalCompletion>>
    BY <1>0, <1>2, <2>1
  <2>. QED BY <2>2, FlowUnmoved
<1>3. CASE FinishBatchPostingFails(outcome)
  <2>1. power = "deferred"
    BY <1>3 DEF FinishBatchPostingFails, PowerInv, LeaseFollowsFlow
  <2>2. /\ power' = "idle" /\ lease' = FALSE /\ externalCompletion' = FALSE
        /\ UNCHANGED <<flow, dialog, stagingResult, task, worker, truth, disposition, invoked, fault>>
    BY <1>0, <1>3 DEF FinishBatchPostingFails, flowVars
  <2>3. dialog = NoDialog /\ worker = "none" /\ disposition = "none" /\ invoked = "none"
    BY <2>1 DEF PowerInv, FlowIsPlaced
  <2>4. PowerIsEarned'
    BY <2>2, <2>3 DEF PowerIsEarned
  <2>. QED BY <2>2, <2>3, <2>4, FlowEnds
<1>. QED BY <1>1, <1>2, <1>3

\* executeWithCompletedStaging opens the dialog that fits the result.
LEMMA RunPostedKeeps == ASSUME PowerInv, RunPosted PROVE PowerInv'
<1>. DEFINE fresh == NewDialog("Safe", FALSE)
<1>0. PICK result \in BOOLEAN : result = (stagingResult = "CompletedWithFailures")
  OBVIOUS
<1>1. /\ power = "posted" /\ power' = "dialog"
      /\ dialog' = IF stagingResult = "Succeeded" THEN fresh ELSE ShowFailure(fresh, result)
      /\ UNCHANGED <<lease, externalCompletion, flow, stagingResult, task, worker, truth,
                     disposition, invoked, fault>>
  BY <1>0 DEF RunPosted, coordinatorVars, flowVars
<1>2. /\ flow = "completed" /\ task = "none" /\ worker = "none" /\ disposition = "none"
      /\ stagingResult = truth /\ truth # "none" /\ invoked = "none"
  BY <1>1 DEF PowerInv, FlowIsPlaced
<1>3. /\ fresh.mode = "Safe" /\ fresh.state = "Confirmation" /\ fresh.failureObserved = FALSE
      /\ fresh.canContinue = FALSE /\ fresh.hasStaging = FALSE /\ fresh.prepared = "none"
      /\ fresh.directOpen = FALSE /\ fresh.directSelected = FALSE /\ fresh.closed = "no"
  BY DEF NewDialog
<1>5. /\ fresh \in DialogRecords /\ DialogIsSound(fresh) /\ TimersAreArmed(fresh)
  BY NewIsSound
<1>. HIDE DEF fresh
<1>6. /\ dialog' \in DialogRecords /\ DialogIsSound(dialog') /\ TimersAreArmed(dialog')
      /\ dialog'.mode = "Safe" /\ ResultIsShown(dialog)'
  <2>1. CASE stagingResult = "Succeeded"
    <3>1. dialog' = fresh
      BY <1>1, <2>1
    <3>. QED BY <1>1, <1>2, <1>3, <1>5, <2>1, <3>1 DEF ResultIsShown
  <2>2. CASE stagingResult # "Succeeded"
    <3>1. dialog' = ShowFailure(fresh, result)
      BY <1>1, <2>2
    <3>2. /\ Resembles(ShowFailure(fresh, result), fresh)
          /\ ShowFailure(fresh, result).state = "FailureDecision"
          /\ ShowFailure(fresh, result).failureObserved
          /\ ShowFailure(fresh, result).canContinue = result
          /\ ShowFailure(fresh, result).hasStaging = fresh.hasStaging
          /\ ShowFailure(fresh, result).timers = {}
          /\ ShowFailure(fresh, result).prepared = fresh.prepared
      BY <1>3, <1>5, FailureIsShown
    <3>3. /\ dialog' \in DialogRecords
          /\ dialog'.mode = "Safe" /\ dialog'.state = "FailureDecision"
          /\ dialog'.failureObserved = TRUE /\ dialog'.canContinue = result
          /\ dialog'.hasStaging = FALSE /\ dialog'.timers = {} /\ dialog'.prepared = "none"
          /\ dialog'.directOpen = FALSE /\ dialog'.directSelected = FALSE /\ dialog'.closed = "no"
      BY <1>3, <3>1, <3>2 DEF Resembles
    <3>4. DialogIsSound(dialog') /\ TimersAreArmed(dialog')
      BY <3>3 DEF DialogIsSound, TimersAreArmed
    <3>5. ResultIsShown(dialog)'
      BY <1>0, <1>1, <1>2, <2>2, <3>3 DEF ResultIsShown
    <3>. QED BY <3>3, <3>4, <3>5
  <2>. QED BY <2>1, <2>2
<1>7. SafePowerTypeOK'
  BY <1>1, <1>6 DEF PowerInv, SafePowerTypeOK
<1>8. LeaseFollowsFlow' /\ FlowIsPlaced' /\ ResultIsFinal' /\ AnswerIsKept'
  BY <1>1, <1>2 DEF PowerInv, LeaseFollowsFlow, FlowIsPlaced, ResultIsFinal, AnswerIsKept, Outcomes
<1>9. DialogIsDriven'
  BY <1>1, <1>2, <1>6 DEF DialogIsDriven
<1>10. PowerIsEarned' /\ ~fault'
  BY <1>1, <1>2 DEF PowerInv, PowerIsEarned
<1>. QED BY <1>7, <1>8, <1>9, <1>10 DEF PowerInv
\* pollPreparation of the task: the answer describes the state it leaves.
LEMMA PolledTask ==
  ASSUME PowerInv, power = "dialog", UNCHANGED power, PreparationMeans("none"),
         NEW answer \in Preparations \cup {"none"}, PollStaging(answer)
  PROVE  /\ PreparationMeans(answer)'
         /\ ResultIsFinal'
         /\ stagingResult' \in {"none"} \cup BatchOutcomes
         /\ task' \in {"none", "preparing", "ready", "committing", "completed"}
         /\ worker' \in {"none", "scanning", "writing"} \cup WorkerResults
         /\ truth' \in {"none"} \cup BatchOutcomes
<1>0. /\ stagingResult = "none" /\ task \in {"none", "preparing"}
      /\ task = "none" => worker = "none"
      /\ task = "preparing" => worker \in {"scanning"} \cup WorkerResults
      /\ truth = TruthOf(worker)
  BY DEF PreparationMeans
<1>. USE DEF PreparationMeans, ResultIsFinal, Running, BatchOutcomes, WorkerResults, TruthOf
<1>1. CASE task = "none"
  <2>1. worker = "none" /\ truth = "none"
    BY <1>0, <1>1
  <2>2. \/ /\ answer = "Failure" /\ stagingResult' = "Failed" /\ truth' = "Failed"
           /\ UNCHANGED <<task, worker>>
        \/ /\ answer = "NotRequired" /\ stagingResult' = "Succeeded" /\ truth' = "Succeeded"
           /\ task' = "completed" /\ UNCHANGED worker
        \/ /\ answer = "none" /\ task' = "preparing" /\ worker' = "scanning"
           /\ UNCHANGED <<stagingResult, truth>>
    BY <1>0, <1>1 DEF PollStaging
  <2>. QED BY <1>0, <1>1, <2>1, <2>2
<1>2. CASE task = "preparing" /\ worker = "scanning"
  <2>1. answer = "none" /\ UNCHANGED flowVars
    BY <1>0, <1>2 DEF PollStaging
  <2>. QED BY <1>0, <1>2, <2>1 DEF flowVars
<1>3. CASE task = "preparing" /\ worker = "Threw"
  <2>1. answer = "Failure" /\ stagingResult' = "Failed" /\ UNCHANGED <<task, worker, truth>>
    BY <1>0, <1>3 DEF PollStaging
  <2>. QED BY <1>0, <1>3, <2>1
<1>4. CASE task = "preparing" /\ worker = "Ready"
  <2>1. answer = "Commit" /\ task' = "ready" /\ UNCHANGED <<stagingResult, worker, truth>>
    BY <1>0, <1>4 DEF PollStaging
  <2>. QED BY <1>0, <1>4, <2>1
<1>5. CASE task = "preparing" /\ worker = "Succeeded"
  <2>1. /\ answer = "NotRequired" /\ task' = "completed" /\ stagingResult' = "Succeeded"
        /\ UNCHANGED <<worker, truth>>
    BY <1>0, <1>5 DEF PollStaging
  <2>. QED BY <1>0, <1>5, <2>1
<1>6. CASE task = "preparing" /\ worker = "CompletedWithFailures"
  <2>1. /\ task' = "completed" /\ UNCHANGED <<worker, truth>>
        /\ \/ answer = "FailureWithResult" /\ stagingResult' = "CompletedWithFailures"
           \/ answer = "Failure" /\ stagingResult' = "Failed"
    BY <1>0, <1>6 DEF PollStaging
  <2>. QED BY <1>0, <1>6, <2>1
<1>. QED BY <1>0, <1>1, <1>2, <1>3, <1>4, <1>5, <1>6

\* The preparation timer, which may also fire after the dialog was rejected.
LEMMA PollTimerKeeps == ASSUME PowerInv, PollTimer PROVE PowerInv'
<1>1. /\ power = "dialog" /\ "preparation" \in dialog.timers
      /\ UNCHANGED <<power, flow, disposition, invoked, fault, lease, externalCompletion>>
  BY DEF PollTimer, coordinatorVars
<1>2. dialog \in DialogRecords /\ DialogIsSound(dialog) /\ TimersAreArmed(dialog)
  BY <1>1 DEF PowerInv, SafePowerTypeOK, DialogIsDriven
<1>3. dialog.state = "Preparing" /\ ~dialog.directOpen
  BY <1>1, <1>2 DEF DialogIsSound, TimersAreArmed
<1>4. flow = "reserved" /\ TaskIsShown(dialog)
  BY <1>1, <1>3 DEF PowerInv, SafePowerTypeOK, DialogIsDriven, ResultIsShown
<1>5. PreparationMeans(dialog.prepared)
  BY <1>3, <1>4 DEF TaskIsShown
<1>6. PICK elapsed \in BOOLEAN, answer \in Preparations \cup {"none"} :
        /\ dialog' = PollPreparation(dialog, answer, elapsed)
        /\ IF dialog.prepared = "none" THEN PollStaging(answer) ELSE UNCHANGED flowVars
  BY <1>3 DEF PollTimer
<1>ready. PICK ready : ready = IF dialog.prepared = "none" THEN answer ELSE dialog.prepared
  OBVIOUS
<1>7. /\ PreparationMeans(ready)'
      /\ ResultIsFinal'
      /\ stagingResult' \in {"none"} \cup BatchOutcomes
      /\ task' \in {"none", "preparing", "ready", "committing", "completed"}
      /\ worker' \in {"none", "scanning", "writing"} \cup WorkerResults
      /\ truth' \in {"none"} \cup BatchOutcomes
  <2>1. CASE dialog.prepared = "none"
    <3>1. ready = answer /\ PollStaging(answer) /\ PreparationMeans("none")
      BY <1>5, <1>6, <1>ready, <2>1
    <3>2. /\ PreparationMeans(answer)'
          /\ ResultIsFinal'
          /\ stagingResult' \in {"none"} \cup BatchOutcomes
          /\ task' \in {"none", "preparing", "ready", "committing", "completed"}
          /\ worker' \in {"none", "scanning", "writing"} \cup WorkerResults
          /\ truth' \in {"none"} \cup BatchOutcomes
      BY <1>1, <3>1, PolledTask
    <3>. QED BY <3>1, <3>2
  <2>2. CASE dialog.prepared # "none"
    <3>1. ready = dialog.prepared /\ UNCHANGED flowVars
      BY <1>6, <1>ready, <2>2
    <3>2. PreparationMeans(ready)'
      BY <1>5, <3>1 DEF flowVars, PreparationMeans, TruthOf
    <3>. QED BY <1>1, <3>1, <3>2 DEF flowVars, PowerInv, SafePowerTypeOK, ResultIsFinal
  <2>. QED BY <2>1, <2>2
<1>8. /\ Resembles(dialog', dialog)
      /\ \/ /\ dialog'.state = "Preparing" /\ dialog'.prepared = ready /\ ~dialog'.failureObserved
            /\ dialog'.timers = {"preparation"}
         \/ /\ dialog'.state = "FailureDecision" /\ dialog'.prepared = "none"
            /\ dialog'.failureObserved /\ dialog'.timers = {}
            /\ ready \in {"Failure", "FailureWithResult"}
            /\ dialog'.canContinue = (ready = "FailureWithResult")
         \/ /\ dialog'.state = "Confirmation" /\ dialog'.prepared = "none"
            /\ ~dialog'.failureObserved /\ dialog'.timers = {}
            /\ ready \in {"Commit", "NotRequired"}
            /\ dialog'.hasStaging = (ready = "Commit")
  BY <1>1, <1>2, <1>6, <1>ready, PollMoves
<1>9. DialogIsSound(dialog') /\ TimersAreArmed(dialog')
  BY <1>1, <1>2, <1>6, PollKeeps
<1>10. TaskIsShown(dialog)'
  <2>1. CASE dialog'.state = "Preparing" /\ dialog'.prepared = ready
    BY <1>7, <2>1 DEF TaskIsShown
  <2>2. CASE /\ dialog'.state = "FailureDecision" /\ ready \in {"Failure", "FailureWithResult"}
             /\ dialog'.canContinue = (ready = "FailureWithResult")
    BY <1>7, <2>2 DEF TaskIsShown, PreparationMeans
  <2>3. CASE /\ dialog'.state = "Confirmation" /\ ready \in {"Commit", "NotRequired"}
             /\ dialog'.hasStaging = (ready = "Commit")
    <3>1. ready = IF dialog'.hasStaging THEN "Commit" ELSE "NotRequired"
      BY <2>3
    <3>. QED BY <1>7, <2>3, <3>1 DEF TaskIsShown, PreparationMeans
  <2>. QED BY <1>8, <2>1, <2>2, <2>3
<1>11. dialog' \in DialogRecords /\ dialog'.mode = dialog.mode
  BY <1>8 DEF Resembles
<1>. QED BY <1>1, <1>4, <1>7, <1>9, <1>10, <1>11, DialogMoves

\* advance of the task: the status describes the result it leaves.
LEMMA AdvancedTask ==
  ASSUME CommitIsOpen, power = "dialog", UNCHANGED power,
         NEW status \in StagingStatuses, AdvanceTask(status)
  PROVE  /\ status = "InProgress" => CommitIsOpen'
         /\ status = "Completed" => stagingResult' = "Succeeded"
         /\ status = "Failed" => stagingResult' = "Failed"
         /\ status = "FailedWithResult" => stagingResult' = "CompletedWithFailures"
         /\ ResultIsFinal'
         /\ stagingResult' \in {"none"} \cup BatchOutcomes
         /\ task' \in {"none", "preparing", "ready", "committing", "completed"}
         /\ worker' \in {"none", "scanning", "writing"} \cup WorkerResults
         /\ truth' \in {"none"} \cup BatchOutcomes
<1>0. /\ stagingResult = "none"
      /\ \/ task = "ready" /\ worker = "Ready"
         \/ task = "committing" /\ worker \in {"writing"} \cup (WorkerResults \ {"Ready"})
      /\ truth = TruthOf(worker)
  BY DEF CommitIsOpen
<1>. USE DEF CommitIsOpen, ResultIsFinal, Running, BatchOutcomes, WorkerResults, TruthOf
<1>1. CASE task = "ready" /\ worker = "Ready"
  <2>1. \/ /\ status = "InProgress" /\ task' = "committing" /\ worker' = "writing"
           /\ UNCHANGED <<stagingResult, truth>>
        \/ /\ status = "Failed" /\ stagingResult' = "Failed" /\ truth' = "Failed"
           /\ UNCHANGED <<task, worker>>
    BY <1>0, <1>1 DEF AdvanceTask
  <2>. QED BY <1>0, <1>1, <2>1
<1>2. CASE task = "committing" /\ worker = "writing"
  <2>1. status = "InProgress" /\ UNCHANGED flowVars
    BY <1>0, <1>2 DEF AdvanceTask
  <2>. QED BY <1>0, <1>2, <2>1 DEF flowVars
<1>3. CASE task = "committing" /\ worker = "Threw"
  <2>1. status = "Failed" /\ stagingResult' = "Failed" /\ UNCHANGED <<task, worker, truth>>
    BY <1>0, <1>3 DEF AdvanceTask
  <2>. QED BY <1>0, <1>3, <2>1
<1>4. CASE task = "committing" /\ worker = "Succeeded"
  <2>1. /\ status = "Completed" /\ task' = "completed" /\ stagingResult' = "Succeeded"
        /\ UNCHANGED <<worker, truth>>
    BY <1>0, <1>4 DEF AdvanceTask
  <2>. QED BY <1>0, <1>4, <2>1
<1>5. CASE task = "committing" /\ worker = "CompletedWithFailures"
  <2>1. /\ task' = "completed" /\ UNCHANGED <<worker, truth>>
        /\ \/ status = "FailedWithResult" /\ stagingResult' = "CompletedWithFailures"
           \/ status = "Failed" /\ stagingResult' = "Failed"
    BY <1>0, <1>5 DEF AdvanceTask
  <2>. QED BY <1>0, <1>5, <2>1
<1>. QED BY <1>0, <1>1, <1>2, <1>3, <1>4, <1>5

\* The step timer.
LEMMA StepTimerKeeps == ASSUME PowerInv, StepTimer PROVE PowerInv'
<1>1. /\ power = "dialog" /\ "step" \in dialog.timers
      /\ UNCHANGED <<power, flow, disposition, invoked, fault, lease, externalCompletion>>
  BY DEF StepTimer, coordinatorVars
<1>2. dialog \in DialogRecords /\ DialogIsSound(dialog) /\ TimersAreArmed(dialog)
  BY <1>1 DEF PowerInv, SafePowerTypeOK, DialogIsDriven
<1>3. dialog.state = "Staging"
  BY <1>1, <1>2 DEF TimersAreArmed
<1>4. flow = "reserved" /\ CommitIsOpen
  BY <1>1, <1>3 DEF PowerInv, SafePowerTypeOK, DialogIsDriven, ResultIsShown, TaskIsShown
<1>5. PICK status \in StagingStatuses :
        AdvanceTask(status) /\ dialog' = AdvanceStaging(dialog, status)
  BY DEF StepTimer
<1>6. /\ status = "InProgress" => CommitIsOpen'
      /\ status = "Completed" => stagingResult' = "Succeeded"
      /\ status = "Failed" => stagingResult' = "Failed"
      /\ status = "FailedWithResult" => stagingResult' = "CompletedWithFailures"
      /\ ResultIsFinal'
      /\ stagingResult' \in {"none"} \cup BatchOutcomes
      /\ task' \in {"none", "preparing", "ready", "committing", "completed"}
      /\ worker' \in {"none", "scanning", "writing"} \cup WorkerResults
      /\ truth' \in {"none"} \cup BatchOutcomes
  BY <1>1, <1>4, <1>5, AdvancedTask
<1>7. /\ dialog' \in DialogRecords /\ dialog'.mode = dialog.mode
      /\ DialogIsSound(dialog') /\ TimersAreArmed(dialog')
      /\ \/ status = "InProgress" /\ dialog'.state = "Staging"
         \/ status = "Completed" /\ dialog'.state = "Confirmed" /\ ~dialog'.failureObserved
         \/ /\ status \in {"Failed", "FailedWithResult"} /\ dialog'.state = "FailureDecision"
            /\ dialog'.canContinue = (status = "FailedWithResult")
  BY <1>1, <1>2, <1>5, StepMoves
<1>8. TaskIsShown(dialog)'
  BY <1>6, <1>7 DEF TaskIsShown
<1>. QED BY <1>1, <1>4, <1>6, <1>7, <1>8, DialogMoves

\* A background worker ends: below its dialog, or after a direct action has
\* failed while the scan was under way.
LEMMA WorkerEndsKeeps ==
  ASSUME PowerInv, NEW result \in WorkerResults, WorkerEnds(result) PROVE PowerInv'
<1>1. /\ worker \in Running /\ worker' = result
      /\ worker = "writing" => result # "Ready"
      /\ UNCHANGED <<lease, externalCompletion, power, flow, dialog, stagingResult, task,
                     disposition, invoked, fault>>
  BY DEF WorkerEnds, coordinatorVars, Running
<1>2. truth' = TruthOf(result)
  BY DEF WorkerEnds, TruthOf, WorkerResults
<1>3. power \in {"dialog", "warning"}
  BY <1>1 DEF PowerInv, SafePowerTypeOK, FlowIsPlaced, Running
<1>4. stagingResult = "none"
  BY <1>1, <1>3 DEF PowerInv, ResultIsFinal
<1>5. /\ truth' \in {"none"} \cup BatchOutcomes
      /\ worker' \in {"none", "scanning", "writing"} \cup WorkerResults
  BY <1>1, <1>2 DEF TruthOf, BatchOutcomes
<1>6. ResultIsFinal'
  BY <1>1, <1>4 DEF ResultIsFinal
<1>7. CASE power = "dialog"
  <2>1. flow = "reserved" /\ TaskIsShown(dialog)
    BY <1>1, <1>7 DEF PowerInv, SafePowerTypeOK, DialogIsDriven, ResultIsShown, Running
  <2>2. dialog \in DialogRecords /\ DialogIsSound(dialog) /\ TimersAreArmed(dialog)
    BY <1>7 DEF PowerInv, SafePowerTypeOK, DialogIsDriven
  <2>3. ASSUME NEW p, PreparationMeans(p) PROVE PreparationMeans(p)'
    BY <1>1, <1>2, <1>4, <2>3 DEF PreparationMeans, Running, WorkerResults
  <2>4. CommitIsOpen => CommitIsOpen'
    BY <1>1, <1>2, <1>4 DEF CommitIsOpen, Running, WorkerResults
  <2>5. TaskIsShown(dialog)'
    <3>1. PICK p : p = dialog.prepared
      OBVIOUS
    <3>2. PICK q : q = IF dialog.hasStaging THEN "Commit" ELSE "NotRequired"
      OBVIOUS
    <3>3. dialog.state = "Preparing" => PreparationMeans(p)'
      BY <2>1, <2>3, <3>1 DEF TaskIsShown
    <3>4. dialog.state = "Confirmation" => PreparationMeans(q)'
      BY <2>1, <2>3, <3>2 DEF TaskIsShown
    <3>5. p = dialog'.prepared /\ q = IF dialog'.hasStaging THEN "Commit" ELSE "NotRequired"
      BY <1>1, <3>1, <3>2
    <3>. QED BY <1>1, <2>1, <2>4, <3>3, <3>4, <3>5 DEF TaskIsShown
  <2>6. task' \in {"none", "preparing", "ready", "committing", "completed"}
        /\ stagingResult' \in {"none"} \cup BatchOutcomes
    BY <1>1 DEF PowerInv, SafePowerTypeOK
  <2>. QED BY <1>1, <1>5, <1>6, <1>7, <2>1, <2>2, <2>5, <2>6, DialogMoves
<1>8. CASE power = "warning"
  <2>1. SafePowerTypeOK'
    BY <1>1, <1>5 DEF PowerInv, SafePowerTypeOK
  <2>2. LeaseFollowsFlow' /\ AnswerIsKept' /\ DialogIsDriven'
    BY <1>1, <1>8 DEF PowerInv, LeaseFollowsFlow, AnswerIsKept, DialogIsDriven
  <2>3. FlowIsPlaced'
    BY <1>1, <1>8 DEF PowerInv, FlowIsPlaced, WorkerResults
  <2>4. PowerIsEarned' /\ ~fault'
    BY <1>1, <1>8 DEF PowerInv, PowerIsEarned, FlowIsPlaced
  <2>. QED BY <1>6, <2>1, <2>2, <2>3, <2>4 DEF PowerInv
<1>. QED BY <1>3, <1>7, <1>8
\* What the user does with the dialog changes neither the task nor its result.
LEMMA ClickKeeps ==
  ASSUME PowerInv, ClickConfirm \/ ClickDirect \/ AnswerDirectYes \/ AnswerDirectNo \/ Reject
  PROVE  PowerInv'
<1>1. /\ Answerable(dialog)
      /\ UNCHANGED <<lease, externalCompletion, power, flow, stagingResult, task, worker, truth,
                     disposition, invoked, fault>>
  BY DEF ClickConfirm, ClickDirect, AnswerDirectYes, AnswerDirectNo, Reject, AnswerDialog,
         ConfirmAllowed, DirectAllowed, RejectionAllowed, coordinatorVars, flowVars
<1>2. power = "dialog"
  BY <1>1 DEF PowerInv, FlowIsPlaced, NoDialog, NewDialog, Answerable
<1>3. dialog \in DialogRecords /\ DialogIsSound(dialog) /\ TimersAreArmed(dialog)
  BY <1>2 DEF PowerInv, SafePowerTypeOK, DialogIsDriven
<1>4. /\ flow = "reserved" => TaskIsShown(dialog)
      /\ flow \in {"completed", "direct"} => ResultIsShown(dialog)
  BY <1>2 DEF PowerInv, DialogIsDriven
<1>5. /\ stagingResult' \in {"none"} \cup BatchOutcomes
      /\ task' \in {"none", "preparing", "ready", "committing", "completed"}
      /\ worker' \in {"none", "scanning", "writing"} \cup WorkerResults
      /\ truth' \in {"none"} \cup BatchOutcomes
      /\ ResultIsFinal'
  BY <1>1 DEF PowerInv, SafePowerTypeOK, ResultIsFinal
<1>6. /\ \A p : PreparationMeans(p) => PreparationMeans(p)'
      /\ CommitIsOpen => CommitIsOpen'
  BY <1>1 DEF PreparationMeans, CommitIsOpen
<1>7. CASE ClickConfirm
  <2>1. ConfirmAllowed(dialog) /\ dialog' = Confirm(dialog)
    BY <1>7 DEF ClickConfirm, AnswerDialog
  <2>2. /\ dialog' \in DialogRecords /\ dialog'.mode = dialog.mode
        /\ DialogIsSound(dialog') /\ TimersAreArmed(dialog')
        /\ \/ dialog' = dialog
           \/ /\ dialog.state = "Confirmation" /\ dialog.hasStaging
              /\ dialog'.state = "Staging"
           \/ /\ dialog.state = "Confirmation" /\ ~dialog.hasStaging
              /\ dialog'.state = "Confirmed" /\ ~dialog'.failureObserved
           \/ /\ dialog.state = "FailureDecision" /\ dialog.canContinue
              /\ dialog'.state = "Confirmed" /\ dialog'.failureObserved
        /\ dialog'.hasStaging = dialog.hasStaging /\ dialog'.canContinue = dialog.canContinue
        /\ dialog'.failureObserved = dialog.failureObserved
    BY <1>3, <2>1, ConfirmMoves
  <2>3. ASSUME flow = "reserved" PROVE TaskIsShown(dialog)'
    <3>1. TaskIsShown(dialog)
      BY <1>4, <2>3
    <3>2. CASE dialog' = dialog
      BY <1>1, <3>1, <3>2 DEF TaskIsShown, PreparationMeans, CommitIsOpen
    <3>3. CASE dialog.state = "Confirmation" /\ dialog.hasStaging /\ dialog'.state = "Staging"
      <4>1. PreparationMeans("Commit")
        BY <3>1, <3>3 DEF TaskIsShown
      <4>2. CommitIsOpen'
        BY <1>1, <4>1 DEF PreparationMeans, CommitIsOpen, TruthOf
      <4>. QED BY <3>3, <4>2 DEF TaskIsShown
    <3>4. CASE /\ dialog.state = "Confirmation" /\ ~dialog.hasStaging
               /\ dialog'.state = "Confirmed" /\ ~dialog'.failureObserved
      <4>1. PreparationMeans("NotRequired")
        BY <3>1, <3>4 DEF TaskIsShown
      <4>. QED BY <1>1, <3>4, <4>1 DEF TaskIsShown, PreparationMeans
    <3>5. CASE /\ dialog.state = "FailureDecision" /\ dialog.canContinue
               /\ dialog'.state = "Confirmed" /\ dialog'.failureObserved
      BY <1>1, <3>1, <3>5 DEF TaskIsShown
    <3>. QED BY <2>2, <3>2, <3>3, <3>4, <3>5
  <2>4. ASSUME flow \in {"completed", "direct"} PROVE ResultIsShown(dialog)'
    BY <1>1, <1>4, <2>2, <2>4 DEF ResultIsShown
  <2>. QED BY <1>1, <1>2, <1>5, <2>2, <2>3, <2>4, DialogMoves
<1>8. CASE ClickDirect \/ AnswerDirectYes \/ AnswerDirectNo \/ Reject
  <2>1. \/ DirectAllowed(dialog) /\ dialog' = BeginDirectConfirmation(dialog)
        \/ dialog.directOpen /\ dialog' = CancelDirectConfirmation(dialog)
        \/ (dialog.directOpen \/ dialog.mode = "Direct") /\ dialog' = ConfirmDirect(dialog)
        \/ RejectionAllowed(dialog) /\ dialog' = [dialog EXCEPT !.closed = "rejected"]
    BY <1>8 DEF ClickDirect, AnswerDirectYes, AnswerDirectNo, Reject, AnswerDialog
  <2>2. /\ dialog' \in DialogRecords /\ dialog'.mode = dialog.mode
        /\ DialogIsSound(dialog') /\ TimersAreArmed(dialog')
        /\ ShowsTheSame(dialog', dialog)
    BY <1>1, <1>3, <2>1, AnswersKeep
  <2>3. ASSUME flow = "reserved" PROVE TaskIsShown(dialog)'
    <3>1. TaskIsShown(dialog)
      BY <1>4, <2>3
    <3>2. PICK p : p = dialog.prepared
      OBVIOUS
    <3>3. PICK q : q = IF dialog.hasStaging THEN "Commit" ELSE "NotRequired"
      OBVIOUS
    <3>4. /\ dialog.state = "Preparing" => PreparationMeans(p)'
          /\ dialog.state = "Confirmation" => PreparationMeans(q)'
          /\ dialog.state = "Staging" => CommitIsOpen'
      BY <1>6, <3>1, <3>2, <3>3 DEF TaskIsShown
    <3>5. p = dialog'.prepared /\ q = IF dialog'.hasStaging THEN "Commit" ELSE "NotRequired"
      BY <2>2, <3>2, <3>3 DEF ShowsTheSame
    <3>. QED BY <1>1, <2>2, <3>1, <3>4, <3>5 DEF TaskIsShown, ShowsTheSame
  <2>4. ASSUME flow \in {"completed", "direct"} PROVE ResultIsShown(dialog)'
    BY <1>1, <1>4, <2>2, <2>4 DEF ResultIsShown, ShowsTheSame
  <2>. QED BY <1>1, <1>2, <1>5, <2>2, <2>3, <2>4, DialogMoves
<1>. QED BY <1>7, <1>8

\* The lease of a flow that ends is over.
LEMMA LeaseIsOver ==
  ASSUME CoordinatorInv, PowerInv, power = "dialog", NEW outcome, NEW ok \in BOOLEAN,
         DisposeOfLease(Disposition(outcome, ok))
  PROVE  lease' = FALSE /\ externalCompletion' = FALSE
<1>1. /\ Disposition(outcome, ok) \in {"none", "release"} \cup Outcomes
      /\ Disposition(outcome, ok) = "none" <=> flow = "direct"
  BY LeaseIsDisposedOf
<1>2. /\ Disposition(outcome, ok) = "none" => lease' = lease
      /\ Disposition(outcome, ok) # "none" => lease' = FALSE
      /\ externalCompletion' = externalCompletion
  BY <1>1, DisposedIsOver
<1>3. externalCompletion = FALSE /\ (flow = "direct" => lease = FALSE)
  BY DEF CoordinatorInv, CoordinatorTypeOK, PowerInv, LeaseFollowsFlow
<1>. QED BY <1>1, <1>2, <1>3

\* exec() returned and the flow was canceled.
LEMMA DialogCanceledKeeps ==
  ASSUME CoordinatorInv, PowerInv, DialogCanceled PROVE PowerInv'
<1>1. /\ power = "dialog" /\ power' = "idle" /\ dialog' = NoDialog /\ worker' = "none"
      /\ DisposeOfLease(Disposition(FinishDialog(dialog), FALSE))
      /\ UNCHANGED <<flow, stagingResult, task, truth, disposition, invoked, fault>>
  BY DEF DialogCanceled
<1>2. lease' = FALSE /\ externalCompletion' = FALSE
  BY <1>1, LeaseIsOver
<1>3. disposition' = "none" /\ invoked' = "none"
  BY <1>1 DEF PowerInv, FlowIsPlaced
<1>4. PowerIsEarned'
  BY <1>3 DEF PowerIsEarned
<1>. QED BY <1>1, <1>2, <1>3, <1>4, FlowEnds

\* The power action was called: it was earned.
LEMMA PowerInvokedKeeps ==
  ASSUME CoordinatorInv, PowerInv, PowerInvoked PROVE PowerInv'
<1>0. PICK outcome : outcome = FinishDialog(dialog)
  OBVIOUS
<1>1. /\ power = "dialog" /\ dialog.closed # "no" /\ power' = "idle"
      /\ dialog' = NoDialog /\ worker' = "none"
      /\ Approved(outcome)
      /\ invoked' = CASE outcome = "Confirmed" -> "safe"
                      [] outcome = "DirectConfirmed" -> "direct"
                      [] OTHER -> "approved"
      /\ DisposeOfLease(Disposition(outcome, TRUE))
      /\ UNCHANGED <<flow, stagingResult, task, truth, disposition, fault>>
  BY <1>0 DEF PowerInvoked
<1>2. lease' = FALSE /\ externalCompletion' = FALSE
  BY <1>1, LeaseIsOver
<1>3. disposition' = "none"
  BY <1>1 DEF PowerInv, FlowIsPlaced
<1>4. outcome \in {"DirectConfirmed", "ContinuedAfterStagingFailure", "Confirmed"}
  BY <1>1 DEF Approved
<1>5. /\ outcome = "ContinuedAfterStagingFailure" => stagingResult = "CompletedWithFailures"
      /\ outcome = "Confirmed" => stagingResult = "Succeeded"
  BY <1>0, <1>1, OutcomeIsApproved
<1>6. /\ invoked' \in {"none", "safe", "approved", "direct"}
      /\ invoked' = "safe" => outcome = "Confirmed"
      /\ invoked' = "approved" => outcome = "ContinuedAfterStagingFailure"
  BY <1>1, <1>4
<1>7. PowerIsEarned'
  BY <1>1, <1>5, <1>6 DEF PowerIsEarned, PowerInv, ResultIsFinal
<1>. QED BY <1>1, <1>2, <1>3, <1>6, <1>7, FlowEnds

\* The power action threw: gate and lease are held until the warning is closed.
LEMMA PowerFailedKeeps == ASSUME PowerInv, PowerFailed PROVE PowerInv'
<1>0. PICK outcome : outcome = FinishDialog(dialog)
  OBVIOUS
<1>1. /\ power = "dialog" /\ dialog.closed # "no" /\ power' = "warning" /\ dialog' = NoDialog
      /\ outcome \notin {"Canceled", "CanceledAfterStagingFailure"}
      /\ disposition' = Disposition(IF Approved(outcome) THEN outcome ELSE "LogicError", FALSE)
      /\ fault' = (fault \/ ~Approved(outcome))
      /\ UNCHANGED <<lease, externalCompletion, flow, stagingResult, task, worker, truth, invoked>>
  BY <1>0 DEF PowerFailed, coordinatorVars, flowVars
<1>2. Approved(outcome)
  BY <1>0, <1>1, OutcomeIsApproved
<1>3. disposition' = Disposition(outcome, FALSE)
  BY <1>1, <1>2
<1>4. /\ disposition' \in {"none", "release"} \cup Outcomes
      /\ disposition' = "none" <=> flow = "direct"
      /\ disposition' \in Outcomes => disposition' = stagingResult
  BY <1>1, <1>3, LeaseIsDisposedOf
<1>5. worker # "writing"
  BY <1>1, WritingIsShown
<1>6. fault' = FALSE
  BY <1>1, <1>2 DEF PowerInv, SafePowerTypeOK
<1>7. SafePowerTypeOK'
  BY <1>1, <1>4, <1>6, NewIsSound DEF PowerInv, SafePowerTypeOK
<1>8. LeaseFollowsFlow' /\ FlowIsPlaced' /\ ResultIsFinal' /\ AnswerIsKept'
  BY <1>1, <1>4, <1>5 DEF PowerInv, LeaseFollowsFlow, FlowIsPlaced, ResultIsFinal, AnswerIsKept
<1>9. DialogIsDriven' /\ PowerIsEarned'
  BY <1>1 DEF PowerInv, DialogIsDriven, PowerIsEarned, FlowIsPlaced
<1>. QED BY <1>6, <1>7, <1>8, <1>9 DEF PowerInv

\* The warning is closed and the scope guards run.
LEMMA WarningClosedKeeps ==
  ASSUME CoordinatorInv, PowerInv, WarningClosed PROVE PowerInv'
<1>1. /\ power = "warning" /\ power' = "idle" /\ disposition' = "none" /\ worker' = "none"
      /\ DisposeOfLease(disposition)
      /\ UNCHANGED <<flow, dialog, stagingResult, task, truth, invoked, fault>>
  BY DEF WarningClosed
<1>2. disposition \in {"none", "release"} \cup Outcomes
  BY DEF PowerInv, SafePowerTypeOK
<1>3. /\ disposition = "none" => lease' = lease
      /\ disposition # "none" => lease' = FALSE
      /\ externalCompletion' = externalCompletion
  BY <1>1, <1>2, DisposedIsOver
<1>4. externalCompletion = FALSE /\ (disposition = "none" => lease = FALSE)
  BY <1>1 DEF CoordinatorInv, CoordinatorTypeOK, PowerInv, LeaseFollowsFlow
<1>5. lease' = FALSE /\ externalCompletion' = FALSE
  BY <1>3, <1>4
<1>6. dialog' = NoDialog /\ invoked' = "none"
  BY <1>1 DEF PowerInv, FlowIsPlaced
<1>7. PowerIsEarned'
  BY <1>6 DEF PowerIsEarned
<1>. QED BY <1>1, <1>5, <1>6, <1>7, FlowEnds

\* No reservation is refused: an idle flow has neither a lease nor a waiting
\* callback, and power actions are closed while a plan is applied.
LEMMA NeverRefused ==
  ASSUME CoordinatorInv, PowerInv, ~suspended, power = "idle"
  PROVE  ~ReservationRefused
  BY DEF CoordinatorInv, CoordinatorTypeOK, OwnershipAgrees, PowerInv, LeaseFollowsFlow,
         ReservationRefused

\* Every step of the power flow, and every call that leaves the flow alone.
LEMMA PowerStepKeeps ==
  ASSUME CoordinatorInv, PowerInv, PowerStep PROVE PowerInv'
<1>1. CASE \E outcome \in BatchOutcomes : FinishBatch(outcome) \/ FinishBatchPostingFails(outcome)
  BY <1>1, FinishKeeps
<1>2. CASE RunPosted
  BY <1>2, RunPostedKeeps
<1>3. CASE PollTimer
  BY <1>3, PollTimerKeeps
<1>4. CASE StepTimer
  BY <1>4, StepTimerKeeps
<1>5. CASE \E result \in WorkerResults : WorkerEnds(result)
  BY <1>5, WorkerEndsKeeps
<1>6. CASE ClickConfirm \/ ClickDirect \/ AnswerDirectYes \/ AnswerDirectNo \/ Reject
  BY <1>6, ClickKeeps
<1>7. CASE DialogCanceled
  BY <1>7, DialogCanceledKeeps
<1>8. CASE PowerInvoked
  BY <1>8, PowerInvokedKeeps
<1>9. CASE PowerFailed
  BY <1>9, PowerFailedKeeps
<1>10. CASE WarningClosed
  BY <1>10, WarningClosedKeeps
<1>. QED BY <1>1, <1>2, <1>3, <1>4, <1>5, <1>6, <1>7, <1>8, <1>9, <1>10 DEF PowerStep
-----------------------------------------------------------------------------
(***************************************************************************)
(* The main window.                                                        *)
(***************************************************************************)

\* A posting that fails hands the lease on to nobody: in one call the batch is
\* answered and the lease released.
LEMMA PostingFailsKeeps ==
  ASSUME CoordinatorInv, NEW outcome \in BatchOutcomes, FinishBatchPostingFails(outcome)
  PROVE  CoordinatorInv'
<1>1. /\ operation /\ externalCompletion
      /\ ownership' = "Idle" /\ operation' = FALSE /\ externalCompletion' = FALSE
      /\ completions' = {} /\ clients' = Notified(clients, completions, outcome)
      /\ UNCHANGED <<suspended, lease>>
  BY DEF FinishBatchPostingFails
<1>2. /\ clients' \in [Requests -> {"none", "waiting"} \cup Outcomes]
      /\ {q \in Requests : clients'[q] = "waiting"} = {}
  BY <1>1 DEF CoordinatorInv, CoordinatorTypeOK, QueueHoldsTheWaiters, Notified, Outcomes,
              BatchOutcomes
<1>3. lease = FALSE
  BY <1>1 DEF CoordinatorInv, CoordinatorTypeOK, OwnershipAgrees
<1>. QED BY <1>1, <1>2, <1>3 DEF CoordinatorInv, CoordinatorTypeOK, OwnershipAgrees,
                                 QueueHoldsTheWaiters, NoStrandedRequest, Ownerships

\* What the scope guards do is a call of the coordinator or nothing.
LEMMA DisposingKeeps ==
  ASSUME CoordinatorInv, NEW how, DisposeOfLease(how)
  PROVE  CoordinatorInv'
<1>1. [CoordinatorNext]_coordinatorVars
  BY DEF DisposeOfLease, CoordinatorNext
<1>. QED BY <1>1, CoordinatorInvStep

\* The power flow uses the coordinator as its interface allows.
LEMMA PowerStepCoordinates ==
  ASSUME CoordinatorInv, PowerStep PROVE CoordinatorInv'
<1>1. ASSUME NEW outcome \in BatchOutcomes, FinishBatch(outcome) PROVE CoordinatorInv'
  <2>1. CoordinatorNext
    BY <1>1 DEF FinishBatch, CoordinatorNext, BatchOutcomes, Outcomes
  <2>. QED BY <2>1, CoordinatorInvStep
<1>2. ASSUME NEW outcome \in BatchOutcomes, FinishBatchPostingFails(outcome) PROVE CoordinatorInv'
  BY <1>2, PostingFailsKeeps
<1>3. CASE DialogCanceled \/ PowerInvoked \/ WarningClosed
  BY <1>3, DisposingKeeps DEF DialogCanceled, PowerInvoked, WarningClosed
<1>4. CASE UNCHANGED coordinatorVars
  BY <1>4, CoordinatorInvStep
<1>5. \/ \E outcome \in BatchOutcomes : FinishBatch(outcome) \/ FinishBatchPostingFails(outcome)
      \/ DialogCanceled \/ PowerInvoked \/ WarningClosed
      \/ UNCHANGED coordinatorVars
  BY DEF PowerStep, RunPosted, PollTimer, StepTimer, WorkerEnds, ClickConfirm, ClickDirect,
         AnswerDirectYes, AnswerDirectNo, Reject, AnswerDialog, PowerFailed
<1>. QED BY <1>1, <1>2, <1>3, <1>4, <1>5

\* An idle flow has no step of its own, unless a batch without a reservation ends.
LEMMA IdleFlowRests ==
  ASSUME CoordinatorInv, PowerInv, power = "idle", ownership = "Idle", PowerStep
  PROVE  FALSE
<1>1. ~operation /\ worker = "none" /\ dialog.mode = "None"
  BY DEF CoordinatorInv, CoordinatorTypeOK, OwnershipAgrees, PowerInv, FlowIsPlaced, NoDialog,
         NewDialog
<1>. QED BY <1>1 DEF PowerStep, FinishBatch, Finish, FinishBatchPostingFails, RunPosted, PollTimer,
            StepTimer, WorkerEnds, ClickConfirm, ClickDirect, AnswerDirectYes, AnswerDirectNo,
            Reject, ConfirmAllowed, DirectAllowed, RejectionAllowed, Answerable, DialogCanceled,
            PowerInvoked, PowerFailed, WarningClosed

\* No step of the power flow touches the suspension.
LEMMA PowerKeepsSuspension ==
  ASSUME PowerStep PROVE suspended' = suspended
<1>1. ASSUME NEW how, DisposeOfLease(how) PROVE suspended' = suspended
  BY <1>1 DEF DisposeOfLease, coordinatorVars, ReleaseExternalBatch, CompleteExternalBatch
<1>2. CASE DialogCanceled \/ PowerInvoked \/ WarningClosed
  BY <1>1, <1>2 DEF DialogCanceled, PowerInvoked, WarningClosed
<1>. QED BY <1>2 DEF PowerStep, FinishBatch, Finish, FinishBatchPostingFails, RunPosted, PollTimer,
            StepTimer, WorkerEnds, ClickConfirm, ClickDirect, AnswerDirectYes, AnswerDirectNo,
            Reject, AnswerDialog, PowerFailed, coordinatorVars

\* Qt's direct connection: the plan's copy of the gate follows the ownership.
LEMMA FollowedIsFresh ==
  ASSUME ShellInv, FollowOwnership, UNCHANGED <<stateVars, planVars>>, CoordinatorTypeOK'
  PROVE  /\ externalActive' \in BOOLEAN /\ executionAllowed' \in BOOLEAN
         /\ ActivityIsFollowed'
         /\ PlanGateIsFresh'
<1>1. /\ externalActive' = (ownership' # "Idle")
      /\ externalActive = (ownership # "Idle")
      /\ externalActive \in BOOLEAN /\ executionAllowed \in BOOLEAN
      /\ UNCHANGED <<committed, reconciliation, refreshing, planOpen, applying>>
  BY DEF ShellInv, ShellTypeOK, ActivityIsFollowed, FollowOwnership, stateVars, planVars
<1>2. CASE externalActive' = externalActive
  <2>1. executionAllowed' = executionAllowed
    BY <1>2 DEF FollowOwnership
  <2>. QED BY <1>1, <1>2, <2>1 DEF ShellInv, ActivityIsFollowed, PlanGateIsFresh
<1>3. CASE externalActive' # externalActive
  <2>1. executionAllowed' = PlanAllowed(refreshing, externalActive', committed, reconciliation)
    BY <1>3 DEF FollowOwnership
  <2>2. executionAllowed' \in BOOLEAN
    BY <2>1 DEF PlanAllowed
  <2>. QED BY <1>1, <2>1, <2>2 DEF ActivityIsFollowed, PlanGateIsFresh, PlanAllowed, WritesAllowed
<1>. QED BY <1>2, <1>3
\* The window's flags, one by one.
LEMMA FlagsAreTyped ==
  ShellTypeOK <=>
    /\ CoordinatorTypeOK /\ SafePowerTypeOK
    /\ committed \in BOOLEAN /\ reconciliation \in BOOLEAN /\ refreshing \in BOOLEAN
    /\ refreshPosted \in BOOLEAN /\ externalActive \in BOOLEAN /\ planOpen \in BOOLEAN
    /\ executionAllowed \in BOOLEAN /\ canApply \in BOOLEAN /\ applying \in BOOLEAN
  BY DEF ShellTypeOK

\* A step of the coordinator or of the flow, with the direct connection.
LEMMA FollowedStep ==
  ASSUME ShellInv, CoordinatorInv', PowerInv', ApplyIsAlone',
         FollowOwnership, UNCHANGED <<stateVars, planVars>>
  PROVE  ShellInv'
<1>1. CoordinatorTypeOK' /\ SafePowerTypeOK'
  BY DEF CoordinatorInv, PowerInv
<1>2. /\ externalActive' \in BOOLEAN /\ executionAllowed' \in BOOLEAN
      /\ ActivityIsFollowed' /\ PlanGateIsFresh'
  BY <1>1, FollowedIsFresh
<1>3. /\ committed' \in BOOLEAN /\ reconciliation' \in BOOLEAN /\ refreshing' \in BOOLEAN
      /\ refreshPosted' \in BOOLEAN /\ planOpen' \in BOOLEAN
      /\ canApply' \in BOOLEAN /\ applying' \in BOOLEAN
  BY FlagsAreTyped DEF ShellInv, stateVars, planVars
<1>4. ShellTypeOK'
  BY <1>1, <1>2, <1>3 DEF ShellTypeOK
<1>. QED BY <1>2, <1>4 DEF ShellInv

\* The program starts with an idle coordinator, no flow and a posted refresh.
LEMMA ShellInvInit == Init => ShellInv
<1>. SUFFICES ASSUME Init PROVE ShellInv
  OBVIOUS
<1>1. CoordinatorInv
  BY CoordinatorInvInit DEF Init
<1>2. PowerInv
  <2>1. SafePowerTypeOK
    BY NewIsSound DEF Init, PowerInit, SafePowerTypeOK
  <2>. QED BY <2>1 DEF Init, PowerInit, CoordinatorInit, PowerInv, LeaseFollowsFlow, FlowIsPlaced,
                       ResultIsFinal, AnswerIsKept, DialogIsDriven, PowerIsEarned, Outcomes
<1>3. ShellTypeOK
  BY <1>1, <1>2 DEF Init, ShellTypeOK, CoordinatorInv, PowerInv
<1>4. ApplyIsAlone /\ ActivityIsFollowed /\ PlanGateIsFresh
  BY DEF Init, CoordinatorInit, PowerInit, ApplyIsAlone, ActivityIsFollowed, PlanGateIsFresh
<1>. QED BY <1>1, <1>2, <1>3, <1>4 DEF ShellInv

\* Every step of the main window and of what runs behind it keeps the invariant.
LEMMA ShellInvStep == ShellInv /\ [Next]_vars => ShellInv'
<1>. SUFFICES ASSUME ShellInv, [Next]_vars PROVE ShellInv'
  OBVIOUS
<1>inv. CoordinatorInv /\ PowerInv /\ ApplyIsAlone /\ ActivityIsFollowed /\ PlanGateIsFresh
  BY DEF ShellInv
<1>types. /\ CoordinatorTypeOK /\ SafePowerTypeOK
          /\ committed \in BOOLEAN /\ reconciliation \in BOOLEAN /\ refreshing \in BOOLEAN
          /\ refreshPosted \in BOOLEAN /\ externalActive \in BOOLEAN /\ planOpen \in BOOLEAN
          /\ executionAllowed \in BOOLEAN /\ canApply \in BOOLEAN /\ applying \in BOOLEAN
  BY FlagsAreTyped DEF ShellInv
<1>1. CASE SafePowerRequested
  <2>1. /\ ~applying /\ FollowOwnership /\ UNCHANGED <<stateVars, planVars>>
        /\ ExecuteReserved \/ ExecuteDeferred \/ ExecuteRefused
    BY <1>1 DEF SafePowerRequested, PowerActionsAllowed
  <2>2. ~suspended
    BY <1>inv, <2>1 DEF ApplyIsAlone
  <2>3. ExecuteReserved \/ ExecuteDeferred
    BY <1>inv, <2>1, <2>2, NeverRefused DEF ExecuteRefused
  <2>4. PowerInv'
    BY <1>inv, <2>3, ExecuteReservedKeeps, ExecuteDeferredKeeps
  <2>5. CoordinatorNext /\ suspended' = suspended
    BY <2>3 DEF ExecuteReserved, ExecuteDeferred, CoordinatorNext, ReserveNow, ReserveLater
  <2>6. CoordinatorInv'
    BY <1>inv, <2>5, CoordinatorInvStep
  <2>7. ApplyIsAlone'
    BY <1>types, <2>1, <2>2, <2>5 DEF ApplyIsAlone, planVars, CoordinatorTypeOK
  <2>. QED BY <2>1, <2>4, <2>6, <2>7, FollowedStep
<1>2. CASE DirectRestartRequested
  <2>1. /\ ~applying /\ FollowOwnership /\ UNCHANGED <<stateVars, planVars>> /\ ExecuteDirect
    BY <1>2 DEF DirectRestartRequested, PowerActionsAllowed
  <2>2. PowerInv'
    BY <1>inv, <2>1, ExecuteDirectKeeps
  <2>3. UNCHANGED coordinatorVars
    BY <2>1 DEF ExecuteDirect
  <2>4. CoordinatorInv'
    BY <1>inv, <2>3, CoordinatorInvStep
  <2>5. ApplyIsAlone'
    BY <1>inv, <1>types, <2>1, <2>3 DEF ApplyIsAlone, planVars, coordinatorVars
  <2>. QED BY <2>1, <2>2, <2>4, <2>5, FollowedStep
<1>3. CASE CommitRequested
  <2>1. PICK r \in Requests : RequestCommit(r)
    BY <1>3 DEF CommitRequested
  <2>2. FollowOwnership /\ UNCHANGED <<powerVars, stateVars, planVars>>
    BY <1>3 DEF CommitRequested
  <2>3. UNCHANGED <<suspended, externalCompletion, lease>>
    BY <2>1 DEF RequestCommit
  <2>4. PowerInv'
    BY <1>inv, <2>2, <2>3, FlowUnmoved
  <2>5. CoordinatorInv'
    BY <1>inv, <2>1, CoordinatorInvStep DEF CoordinatorNext
  <2>6. ApplyIsAlone'
    <3>1. ASSUME applying PROVE ownership' = "Idle"
      <4>1. ownership = "Idle" /\ suspended
        BY <1>inv, <3>1 DEF ApplyIsAlone
      <4>. QED BY <2>1, <4>1 DEF RequestCommit, StartCommandBatch
    <3>2. applying' = applying /\ power' = power /\ worker' = worker
      BY <2>2 DEF planVars, powerVars
    <3>. QED BY <1>inv, <2>3, <3>1, <3>2 DEF ApplyIsAlone
  <2>. QED BY <2>2, <2>4, <2>5, <2>6, FollowedStep
<1>4. CASE PowerStepped
  <2>1. PowerStep /\ FollowOwnership /\ UNCHANGED <<stateVars, planVars>>
    BY <1>4 DEF PowerStepped
  <2>2. PowerInv' /\ CoordinatorInv'
    BY <1>inv, <2>1, PowerStepKeeps, PowerStepCoordinates
  <2>3. ~applying
    BY <1>inv, <2>1, IdleFlowRests DEF ApplyIsAlone
  <2>4. suspended' = suspended
    BY <2>1, PowerKeepsSuspension
  <2>5. ApplyIsAlone'
    BY <1>inv, <1>types, <2>1, <2>3, <2>4 DEF ApplyIsAlone, planVars
  <2>. QED BY <2>1, <2>2, <2>5, FollowedStep
<1>quiet. ASSUME UNCHANGED <<coordinatorVars, powerVars>>
          PROVE  CoordinatorInv' /\ PowerInv'
  <2>1. CoordinatorInv'
    BY <1>inv, <1>quiet, CoordinatorInvStep
  <2>2. UNCHANGED <<powerVars, lease, externalCompletion>>
    BY <1>quiet DEF coordinatorVars
  <2>. QED BY <1>inv, <2>1, <2>2, FlowUnmoved
<1>gate. ASSUME NEW busy \in BOOLEAN, NEW active \in BOOLEAN, NEW read \in BOOLEAN,
                NEW stale \in BOOLEAN
         PROVE  /\ PlanAllowed(busy, active, read, stale) \in BOOLEAN
                /\ PlanAllowed(busy, active, read, stale) => ~busy /\ ~active /\ read /\ ~stale
  BY DEF PlanAllowed, WritesAllowed
<1>5. CASE ShowPlan
  <2>1. /\ planOpen' = TRUE /\ canApply' = TRUE
        /\ executionAllowed' = PlanAllowed(refreshing, externalActive, committed, reconciliation)
        /\ UNCHANGED <<coordinatorVars, powerVars, stateVars, externalActive, applying>>
    BY <1>5 DEF ShowPlan
  <2>2. CoordinatorInv' /\ PowerInv'
    BY <1>quiet, <2>1
  <2>3. /\ executionAllowed' \in BOOLEAN
        /\ executionAllowed' => ~refreshing /\ ~externalActive /\ committed /\ ~reconciliation
    BY <1>types, <1>gate, <2>1
  <2>4. ShellTypeOK'
    BY <1>types, <2>1, <2>2, <2>3 DEF ShellTypeOK, CoordinatorInv, PowerInv, stateVars
  <2>5. ApplyIsAlone' /\ ActivityIsFollowed' /\ PlanGateIsFresh'
    BY <1>inv, <2>1, <2>3 DEF ApplyIsAlone, ActivityIsFollowed, PlanGateIsFresh, coordinatorVars,
                              powerVars, stateVars
  <2>. QED BY <2>2, <2>4, <2>5 DEF ShellInv
<1>6. CASE ClosePlan
  <2>1. /\ planOpen' = FALSE
        /\ UNCHANGED <<coordinatorVars, powerVars, stateVars, externalActive, executionAllowed,
                       canApply, applying>>
    BY <1>6 DEF ClosePlan
  <2>2. CoordinatorInv' /\ PowerInv'
    BY <1>quiet, <2>1
  <2>3. ShellTypeOK'
    BY <1>types, <2>1, <2>2 DEF ShellTypeOK, CoordinatorInv, PowerInv, stateVars
  <2>4. ApplyIsAlone' /\ ActivityIsFollowed' /\ PlanGateIsFresh'
    BY <1>inv, <2>1 DEF ApplyIsAlone, ActivityIsFollowed, PlanGateIsFresh, coordinatorVars,
                        powerVars
  <2>. QED BY <2>2, <2>3, <2>4 DEF ShellInv
<1>7. CASE Apply
  <2>1. /\ NoModal /\ planOpen /\ executionAllowed /\ ~applying
        /\ canApply' = FALSE /\ applying' = TRUE /\ SetSuspended(TRUE)
        /\ executionAllowed' = PlanAllowed(refreshing, externalActive, committed, reconciliation)
        /\ UNCHANGED <<powerVars, stateVars, externalActive, planOpen>>
    BY <1>7 DEF Apply
  <2>2. suspended' = TRUE /\ UNCHANGED <<ownership, lease, externalCompletion>>
    BY <2>1 DEF SetSuspended
  <2>3. PowerInv'
    BY <1>inv, <2>1, <2>2, FlowUnmoved
  <2>4. CoordinatorInv'
    BY <1>inv, <2>1, CoordinatorInvStep DEF CoordinatorNext
  <2>5. ownership = "Idle"
    BY <1>inv, <2>1 DEF PlanGateIsFresh
  <2>6. power = "idle" /\ worker = "none"
    <3>1. ~lease /\ ~externalCompletion
      BY <1>inv, <2>5 DEF CoordinatorInv, OwnershipAgrees
    <3>2. power = "idle"
      BY <1>types, <1>inv, <2>1, <3>1 DEF PowerInv, LeaseFollowsFlow, NoModal, SafePowerTypeOK
    <3>. QED BY <1>inv, <3>2 DEF PowerInv, FlowIsPlaced
  <2>7. executionAllowed' \in BOOLEAN
    BY <1>types, <1>gate, <2>1
  <2>8. ShellTypeOK'
    BY <1>types, <2>1, <2>3, <2>4, <2>7 DEF ShellTypeOK, CoordinatorInv, PowerInv, stateVars
  <2>9. ApplyIsAlone' /\ ActivityIsFollowed' /\ PlanGateIsFresh'
    BY <1>inv, <2>1, <2>2, <2>5, <2>6 DEF ApplyIsAlone, ActivityIsFollowed, PlanGateIsFresh,
                                          powerVars
  <2>. QED BY <2>3, <2>4, <2>8, <2>9 DEF ShellInv
<1>8. ASSUME NEW stale \in BOOLEAN, NEW connected \in BOOLEAN, PublishResult(stale, connected)
      PROVE  ShellInv'
  <2>1. /\ reconciliation' = (reconciliation \/ stale) /\ refreshPosted' = (refreshPosted \/ stale)
        /\ applying' = FALSE /\ canApply' = (~connected \/ ~stale) /\ SetSuspended(FALSE)
        /\ externalActive' = (ownership' # "Idle")
        /\ executionAllowed' = PlanAllowed(refreshing, externalActive', committed, reconciliation')
        /\ UNCHANGED <<powerVars, committed, refreshing, planOpen>>
    BY <1>8 DEF PublishResult
  <2>2. suspended' = FALSE /\ UNCHANGED <<lease, externalCompletion>>
    BY <2>1 DEF SetSuspended
  <2>3. PowerInv'
    BY <1>inv, <2>1, <2>2, FlowUnmoved
  <2>4. CoordinatorInv'
    BY <1>inv, <2>1, CoordinatorInvStep DEF CoordinatorNext
  <2>5. /\ reconciliation' \in BOOLEAN /\ refreshPosted' \in BOOLEAN /\ canApply' \in BOOLEAN
        /\ externalActive' \in BOOLEAN
    BY <2>1
  <2>6. /\ executionAllowed' \in BOOLEAN
        /\ executionAllowed' => ~refreshing /\ ~externalActive' /\ committed /\ ~reconciliation'
    BY <1>types, <1>gate, <2>1, <2>5
  <2>7. ShellTypeOK'
    BY <1>types, <2>1, <2>3, <2>4, <2>5, <2>6 DEF ShellTypeOK, CoordinatorInv, PowerInv
  <2>8. ApplyIsAlone' /\ ActivityIsFollowed' /\ PlanGateIsFresh'
    BY <2>1, <2>2, <2>6 DEF ApplyIsAlone, ActivityIsFollowed, PlanGateIsFresh
  <2>. QED BY <2>3, <2>4, <2>7, <2>8 DEF ShellInv
<1>9. CASE Refresh
  <2>1. /\ refreshPosted' = FALSE /\ refreshing' = (refreshing \/ ~applying)
        /\ executionAllowed' = IF applying THEN executionAllowed
                               ELSE PlanAllowed(TRUE, externalActive, committed, reconciliation)
        /\ UNCHANGED <<coordinatorVars, powerVars, committed, reconciliation, externalActive,
                       planVars>>
    BY <1>9 DEF Refresh
  <2>2. CoordinatorInv' /\ PowerInv'
    BY <1>quiet, <2>1
  <2>3. refreshing' \in BOOLEAN /\ executionAllowed' \in BOOLEAN
        /\ (~applying => ~executionAllowed')
    BY <1>types, <1>gate, <2>1
  <2>4. ShellTypeOK'
    BY <1>types, <2>1, <2>2, <2>3 DEF ShellTypeOK, CoordinatorInv, PowerInv, planVars
  <2>5. ApplyIsAlone' /\ ActivityIsFollowed' /\ PlanGateIsFresh'
    BY <1>inv, <2>1, <2>3 DEF ApplyIsAlone, ActivityIsFollowed, PlanGateIsFresh, coordinatorVars,
                              powerVars, planVars
  <2>. QED BY <2>2, <2>4, <2>5 DEF ShellInv
<1>10. ASSUME NEW read \in BOOLEAN, NEW draftStale \in BOOLEAN, RefreshEnds(read, draftStale)
       PROVE  ShellInv'
  <2>1. /\ refreshing' = FALSE /\ committed' = (committed \/ read)
        /\ reconciliation' = IF read THEN draftStale ELSE reconciliation
        /\ executionAllowed' = PlanAllowed(FALSE, externalActive, committed', reconciliation')
        /\ UNCHANGED <<coordinatorVars, powerVars, refreshPosted, externalActive, planVars>>
    BY <1>10 DEF RefreshEnds
  <2>2. CoordinatorInv' /\ PowerInv'
    BY <1>quiet, <2>1
  <2>3. committed' \in BOOLEAN /\ reconciliation' \in BOOLEAN
    BY <1>types, <2>1
  <2>4. /\ executionAllowed' \in BOOLEAN
        /\ executionAllowed' => ~externalActive /\ committed' /\ ~reconciliation'
    BY <1>types, <1>gate, <2>1, <2>3
  <2>5. ShellTypeOK'
    <3>1. /\ refreshing' \in BOOLEAN /\ refreshPosted' \in BOOLEAN /\ externalActive' \in BOOLEAN
          /\ planOpen' \in BOOLEAN /\ canApply' \in BOOLEAN /\ applying' \in BOOLEAN
      BY <1>types, <2>1 DEF planVars
    <3>. QED BY <2>2, <2>3, <2>4, <3>1 DEF ShellTypeOK, CoordinatorInv, PowerInv
  <2>6. ApplyIsAlone' /\ ActivityIsFollowed' /\ PlanGateIsFresh'
    BY <1>inv, <2>1, <2>4 DEF ApplyIsAlone, ActivityIsFollowed, PlanGateIsFresh, coordinatorVars,
                              powerVars, planVars
  <2>. QED BY <2>2, <2>5, <2>6 DEF ShellInv
<1>11. CASE UNCHANGED vars
  <2>1. UNCHANGED <<coordinatorVars, powerVars, shellVars>>
    BY <1>11 DEF vars
  <2>2. CoordinatorInv' /\ PowerInv'
    BY <1>quiet, <2>1
  <2>3. ShellTypeOK'
    BY <1>types, <2>1, <2>2
       DEF ShellTypeOK, CoordinatorInv, PowerInv, shellVars, stateVars, planVars
  <2>4. ApplyIsAlone' /\ ActivityIsFollowed' /\ PlanGateIsFresh'
    BY <1>inv, <2>1 DEF ApplyIsAlone, ActivityIsFollowed, PlanGateIsFresh, coordinatorVars,
                        powerVars, shellVars, stateVars, planVars
  <2>. QED BY <2>2, <2>3, <2>4 DEF ShellInv
<1>. QED BY <1>1, <1>2, <1>3, <1>4, <1>5, <1>6, <1>7, <1>8, <1>9, <1>10, <1>11 DEF Next
-----------------------------------------------------------------------------
(***************************************************************************)
(* The theorems.                                                           *)
(***************************************************************************)

\* Whatever the user, the requesters, the workers and the timers do, and in
\* whatever order: the closed system of coordinator, power flow, dialog and main
\* window stays in the invariant.
THEOREM ShellInvariant == ShellSafety => []ShellInv
<1>1. Init => ShellInv
  BY ShellInvInit
<1>2. ShellInv /\ [Next]_vars => ShellInv'
  BY ShellInvStep
<1>. QED BY <1>1, <1>2, PTL DEF ShellSafety

\* The lease lives exactly as long as the flow that owns it, over every exit of
\* PowerCoordinator's functions.
THEOREM LeaseStaysWithFlow == ShellSafety => []LeaseFollowsFlow
<1>1. ShellInv => LeaseFollowsFlow
  BY DEF ShellInv, PowerInv
<1>. QED BY <1>1, ShellInvariant, PTL

\* While the dialog's worker writes files, its flow holds the lease, no command
\* batch runs and the dialog is open.
THEOREM CommitStaysExclusive == ShellSafety => []CommitIsExclusive
<1>1. ShellInv => CommitIsExclusive
  <2>. SUFFICES ASSUME ShellInv, worker = "writing"
                PROVE  lease /\ ~operation /\ dialog.state = "Staging" /\ dialog.closed = "no"
    BY DEF CommitIsExclusive
  <2>1. power = "dialog"
    BY DEF ShellInv, PowerInv, SafePowerTypeOK, FlowIsPlaced
  <2>2. flow = "reserved" /\ dialog.state = "Staging" /\ dialog.closed = "no"
    BY <2>1, WritingIsShown DEF ShellInv
  <2>3. lease
    BY <2>1, <2>2 DEF ShellInv, PowerInv, LeaseFollowsFlow
  <2>4. ~operation
    BY <2>3 DEF ShellInv, CoordinatorInv, OwnershipAgrees
  <2>. QED BY <2>2, <2>3, <2>4
<1>. QED BY <1>1, ShellInvariant, PTL

\* A safe power action follows a staging of the same flow that really succeeded,
\* or failures the user accepted.
THEOREM PowerStaysEarned == ShellSafety => []PowerIsEarned
<1>1. ShellInv => PowerIsEarned
  BY DEF ShellInv, PowerInv
<1>. QED BY <1>1, ShellInvariant, PTL

\* No logic_error of the lifecycle table, of the last checks or of the
\* reservation can be thrown.
THEOREM LogicErrorsNeverThrown == ShellSafety => []NoLogicError
<1>1. ShellInv => NoLogicError
  <2>. SUFFICES ASSUME ShellInv PROVE NoLogicError
    OBVIOUS
  <2>1. CASE power = "dialog"
    <3>1. dialog.state # "LogicError"
      BY <2>1 DEF ShellInv, PowerInv, DialogIsDriven, DialogIsSound
    <3>2. ASSUME dialog.closed # "no" PROVE FinishDialog(dialog) # "LogicError"
      BY <2>1, <3>2, OutcomeIsApproved DEF ShellInv
    <3>. QED BY <3>1, <3>2 DEF ShellInv, PowerInv, NoLogicError
  <2>2. CASE power # "dialog"
    <3>1. dialog.state = "Confirmation" /\ dialog.closed = "no"
      BY <2>2 DEF ShellInv, PowerInv, FlowIsPlaced, NoDialog, NewDialog
    <3>. QED BY <3>1 DEF ShellInv, PowerInv, NoLogicError
  <2>. QED BY <2>1, <2>2
<1>. QED BY <1>1, ShellInvariant, PTL

\* A dialog that calculates or saves has the timer armed that takes it further.
THEOREM DialogStaysAlive == ShellSafety => []DialogNeverStalls
<1>1. ShellInv => DialogNeverStalls
  <2>. SUFFICES ASSUME ShellInv, Answerable(dialog) PROVE DialogNeverStalls
    BY DEF DialogNeverStalls
  <2>1. power = "dialog" /\ dialog.closed = "no"
    BY DEF ShellInv, PowerInv, FlowIsPlaced, NoDialog, NewDialog, Answerable
  <2>2. TimersAreArmed(dialog)
    BY <2>1 DEF ShellInv, PowerInv, DialogIsDriven
  <2>. QED BY <2>1, <2>2 DEF DialogNeverStalls, TimersAreArmed
<1>. QED BY <1>1, ShellInvariant, PTL

\* Staging is suspended exactly while a configuration is applied, and neither a
\* batch nor a power flow is under way then.
THEOREM ApplyStaysAlone == ShellSafety => []ApplyIsAlone
<1>1. ShellInv => ApplyIsAlone
  BY DEF ShellInv
<1>. QED BY <1>1, ShellInvariant, PTL

\* The copy of the gate in the tracked plan never permits what the state it was
\* computed from does not.
THEOREM PlanGateStaysFresh == ShellSafety => []PlanGateIsFresh
<1>1. ShellInv => PlanGateIsFresh
  BY DEF ShellInv
<1>. QED BY <1>1, ShellInvariant, PTL

\* apply() runs only from a state that was read after the last doubtful write.
THEOREM ApplyIsReconciled == ShellSafety => ReconciledBeforeApply
<1>. DEFINE Reconciled == ~applying /\ applying' => committed /\ ~reconciliation /\ ~refreshing
<1>1. ShellInv /\ [Next]_vars => [Reconciled]_vars
  <2>. SUFFICES ASSUME ShellInv, Next, ~applying, applying'
                PROVE  committed /\ ~reconciliation /\ ~refreshing
    OBVIOUS
  <2>1. Apply
    BY DEF Next, SafePowerRequested, DirectRestartRequested, CommitRequested, PowerStepped,
           ShowPlan, ClosePlan, PublishResult, Refresh, RefreshEnds, planVars
  <2>. QED BY <2>1 DEF Apply, ShellInv, PlanGateIsFresh
<1>. QED BY <1>1, ShellInvariant, PTL DEF ShellSafety, ReconciledBeforeApply

\* A started batch answers with nothing but a failure to start.
LEMMA StartAnswersFailure ==
  ASSUME NEW queue, NEW held, NEW seen, StartCommandBatch(queue, held, seen), NEW r \in Requests
  PROVE  clients'[r] = seen[r] \/ clients'[r] = "Failed"
  BY DEF StartCommandBatch, Notified

\* A commit request is told "Succeeded" only by a batch, or by a power flow whose
\* staging succeeded.
THEOREM AnswersStayTrue == ShellSafety => AnswersAreTrue
<1>. DEFINE True == \A r \in Requests :
                      clients[r] = "waiting" /\ clients'[r] = "Succeeded"
                        => operation \/ (lease /\ truth = "Succeeded")
<1>1. ShellInv /\ [Next]_vars => [True]_<<coordinatorVars, powerVars>>
  <2>. SUFFICES ASSUME ShellInv, [Next]_vars, ~UNCHANGED <<coordinatorVars, powerVars>>,
                       NEW r \in Requests, clients[r] = "waiting", clients'[r] = "Succeeded",
                       ~operation
                PROVE  lease /\ truth = "Succeeded"
    OBVIOUS
  <2>types. clients \in [Requests -> {"none", "waiting"} \cup Outcomes]
    BY DEF ShellInv, ShellTypeOK, CoordinatorTypeOK
  <2>moved. clients' # clients
    OBVIOUS
  <2>1. ASSUME NEW q \in Requests, RequestCommit(q) PROVE FALSE
    <3>. DEFINE seen == [clients EXCEPT ![q] = "waiting"]
    <3>1. seen[r] = "waiting"
      BY <2>types
    <3>2. StartCommandBatch(completions \cup {q}, suspended, seen) \/ clients' = seen
      BY <2>1 DEF RequestCommit
    <3>. HIDE DEF seen
    <3>. QED BY <3>1, <3>2, StartAnswersFailure
  <2>2. ASSUME NEW held, SetSuspended(held) PROVE FALSE
    <3>1. StartCommandBatch(completions, FALSE, clients) \/ clients' = clients
      BY <2>2 DEF SetSuspended
    <3>. QED BY <3>1, StartAnswersFailure
  <2>3. ASSUME NEW how, DisposeOfLease(how) PROVE lease /\ how = "Succeeded"
    <3>1. CASE ReleaseExternalBatch
      BY <3>1, StartAnswersFailure DEF ReleaseExternalBatch
    <3>2. CASE CompleteExternalBatch(how)
      BY <3>2 DEF CompleteExternalBatch, Notified
    <3>3. CASE UNCHANGED coordinatorVars
      BY <3>3 DEF coordinatorVars
    <3>. QED BY <2>3, <3>1, <3>2, <3>3 DEF DisposeOfLease
  <2>final. ASSUME power # "idle", stagingResult = "Succeeded" PROVE truth = "Succeeded"
    BY <2>final DEF ShellInv, PowerInv, ResultIsFinal
  <2>4. ASSUME NEW outcome, NEW ok \in BOOLEAN, power = "dialog",
               DisposeOfLease(Disposition(outcome, ok))
        PROVE  lease /\ truth = "Succeeded"
    <3>1. lease /\ Disposition(outcome, ok) = "Succeeded"
      BY <2>3, <2>4
    <3>2. stagingResult = "Succeeded"
      BY <2>4, <3>1, LeaseIsDisposedOf DEF ShellInv, Outcomes
    <3>. QED BY <2>4, <2>final, <3>1, <3>2
  <2>5. CASE DialogCanceled
    BY <2>4, <2>5 DEF DialogCanceled
  <2>6. CASE PowerInvoked
    BY <2>4, <2>6 DEF PowerInvoked
  <2>7. CASE WarningClosed
    <3>1. lease /\ disposition = "Succeeded" /\ power = "warning"
      BY <2>3, <2>7 DEF WarningClosed
    <3>2. stagingResult = "Succeeded"
      BY <3>1 DEF ShellInv, PowerInv, AnswerIsKept, Outcomes
    <3>. QED BY <2>final, <3>1, <3>2
  <2>8. CASE PowerStep
    <3>1. \/ DialogCanceled \/ PowerInvoked \/ WarningClosed
          \/ UNCHANGED coordinatorVars
      BY <2>8 DEF PowerStep, FinishBatch, Finish, FinishBatchPostingFails, RunPosted, PollTimer,
                  StepTimer, WorkerEnds, ClickConfirm, ClickDirect, AnswerDirectYes,
                  AnswerDirectNo, Reject, AnswerDialog, PowerFailed
    <3>. QED BY <2>5, <2>6, <2>7, <2>moved, <3>1 DEF coordinatorVars
  <2>9. CASE SafePowerRequested \/ DirectRestartRequested
    <3>1. clients' = clients
      BY <2>9 DEF SafePowerRequested, DirectRestartRequested, ExecuteReserved, ExecuteDeferred,
                  ExecuteRefused, ExecuteDirect, ReserveNow, ReserveLater, coordinatorVars
    <3>. QED BY <2>moved, <3>1
  <2>10. CASE ShowPlan \/ ClosePlan \/ Refresh
              \/ \E read, draftStale \in BOOLEAN : RefreshEnds(read, draftStale)
    BY <2>10, <2>moved DEF ShowPlan, ClosePlan, Refresh, RefreshEnds, coordinatorVars
  <2>11. CASE CommitRequested
    BY <2>1, <2>11 DEF CommitRequested
  <2>12. CASE Apply \/ \E stale, connected \in BOOLEAN : PublishResult(stale, connected)
    BY <2>2, <2>12 DEF Apply, PublishResult
  <2>13. CASE UNCHANGED vars
    BY <2>moved, <2>13 DEF vars, coordinatorVars
  <2>14. PowerStepped => PowerStep
    BY DEF PowerStepped
  <2>. QED BY <2>8, <2>9, <2>10, <2>11, <2>12, <2>13, <2>14 DEF Next
<1>. QED BY <1>1, ShellInvariant, PTL DEF ShellSafety, AnswersAreTrue
=============================================================================
