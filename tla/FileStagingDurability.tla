----------------------- MODULE FileStagingDurability -----------------------
(***************************************************************************)
(* Saving the file staging list on a machine whose registry lies under the *)
(* write filter: the draft the user edits (FileStagingDraft), the plan and *)
(* the part of its execution that touches the list and its exclusion       *)
(* (ConfigurationExecutor), the store that writes the list and commits it  *)
(* through the filter (DurableFileStagingStore), and the maintenance at    *)
(* the start of the program (reconcileDurability).  Between any two calls  *)
(* that leave the program the process may die or the machine may restart.  *)
(* UWF is installed (UwfCapability::Available); without it no page offers  *)
(* the list.  Any call may fail, with or without having had its effect.    *)
(***************************************************************************)
EXTENDS ConfigurationPlan

CONSTANT Nothing   \* no list

ASSUME NothingAssumption == Nothing \notin Lists

VARIABLES
  view,       \* the registry tree of the list as the current session sees it
  disk,       \* the same tree as a restart finds it
  filter,     \* UWF_Filter: enabled in the current and in the next session
  covered,    \* a current-session exclusion covers the root key
  exclusions, \* the next-session registry exclusions
  pc,         \* where the process stands
  maintained, \* the list the program has shown since its start was made durable
  draft,      \* FileStagingDraft
  edits,      \* pending registry exclusion edits
  setFilter,  \* pending filter edit
  snapshot,   \* the committed application state
  plan,       \* the plan in the open dialog
  job,        \* the apply on its way: FileStagingWriteResult and ApplyJournal
  promise     \* (history) the list last reported as saved

registry == <<view, disk>>
uwf == <<filter, covered, exclusions>>
ui == <<draft, edits, setFilter, snapshot, plan>>
vars == <<registry, uwf, pc, maintained, ui, job, promise>>

NoTree == [root |-> FALSE, list |-> Empty]
NewDraft == [loaded |-> FALSE, known |-> TRUE, pending |-> FALSE, baseline |-> Empty, entries |-> Empty]
NoSnapshot == [committed |-> FALSE, mustRead |-> FALSE, next |-> {}, filter |-> FALSE]
NoPlan == [open |-> FALSE, canApply |-> FALSE, staging |-> NoChanges, add |-> {}, remove |-> {},
           completion |-> {}, filter |-> "keep"]
NoJob == [connected |-> FALSE, attempted |-> FALSE, observed |-> Nothing, failed |-> FALSE,
          reconcile |-> FALSE, add |-> {}, remove |-> {}, succeeded |-> {}]

Steps == {"down", "startLoad", "startCommit", "startExclude", "idle", "check", "write", "commit",
          "clear", "clearList", "clearRoot", "observe", "salvage", "filter", "exclusions",
          "publish"}
Trees == [root : BOOLEAN, list : Lists]
Operations == {"add", "remove"} \X Keys
Drafts == [loaded : BOOLEAN, known : BOOLEAN, pending : BOOLEAN, baseline : Lists, entries : Lists]
Edits == [add : SUBSET Keys, remove : SUBSET Keys]
Snapshots == [committed : BOOLEAN, mustRead : BOOLEAN, next : SUBSET Keys, filter : BOOLEAN]
Plans == [open : BOOLEAN, canApply : BOOLEAN,
          staging : [any : BOOLEAN, before : Lists, after : Lists],
          add : SUBSET Keys, remove : SUBSET Keys, completion : SUBSET Operations,
          filter : {"keep", "on", "off"}]
Jobs == [connected : BOOLEAN, attempted : BOOLEAN, observed : Lists \cup {Nothing},
         failed : BOOLEAN, reconcile : BOOLEAN, add : SUBSET Keys, remove : SUBSET Keys,
         succeeded : SUBSET Operations]

DurabilityTypeOK ==
  /\ view \in Trees /\ disk \in Trees
  /\ filter \in [current : BOOLEAN, next : BOOLEAN]
  /\ covered \in BOOLEAN /\ exclusions \subseteq Keys
  /\ pc \in Steps /\ maintained \in BOOLEAN
  /\ draft \in Drafts /\ edits \in Edits /\ setFilter \in {"keep", "on", "off"}
  /\ snapshot \in Snapshots /\ plan \in Plans /\ job \in Jobs
  /\ promise \in Lists \cup {Nothing}

\* A machine on which the list has never been written, in any session.
Init ==
  /\ view = NoTree /\ disk = NoTree
  /\ filter \in [current : BOOLEAN, next : BOOLEAN]
  /\ covered \in BOOLEAN /\ exclusions \in SUBSET Keys
  /\ pc = "down" /\ maintained = FALSE
  /\ draft = NewDraft /\ edits = NoEdits /\ setFilter = "keep"
  /\ snapshot = NoSnapshot /\ plan = NoPlan /\ job = NoJob
  /\ promise = Nothing

-----------------------------------------------------------------------------
(***************************************************************************)
(* The registry under the filter.                                          *)
(***************************************************************************)

\* The current session's writes to the list reach the disk.
WriteThrough == ~filter.current \/ covered

\* RegSetValueEx or RegDeleteTree leaves the session with tree.
Store(tree) ==
  /\ view' = tree
  /\ disk' = IF WriteThrough THEN tree ELSE disk

\* UWF_RegistryFilter.CommitRegistry of the list's value.
CommitList ==
  /\ disk' = [root |-> TRUE, list |-> view.list]
  /\ UNCHANGED view

\* UWF_RegistryFilter.CommitRegistryDeletion: gone from the session and from the disk.
CommitDeletion(listOnly) ==
  LET without(tree) == IF listOnly THEN [tree EXCEPT !.list = Empty] ELSE NoTree
  IN view' = without(view) /\ disk' = without(disk)

\* Everything the process holds in memory is gone.
ProcessGone ==
  /\ pc' = "down" /\ maintained' = FALSE
  /\ draft' = NewDraft /\ edits' = NoEdits /\ setFilter' = "keep"
  /\ snapshot' = NoSnapshot /\ plan' = NoPlan /\ job' = NoJob

ProcessEnds ==
  /\ pc # "down"
  /\ ProcessGone
  /\ UNCHANGED <<registry, uwf, promise>>

\* A restart or a loss of power: the overlay is discarded and the next session's
\* configuration becomes the current one.
MachineRestarts ==
  /\ ProcessGone
  /\ view' = disk
  /\ filter' = [filter EXCEPT !.current = filter.next]
  /\ covered' = Covered(exclusions)
  /\ UNCHANGED <<disk, exclusions, promise>>

-----------------------------------------------------------------------------
(***************************************************************************)
(* The start of the program: reconcileDurability.                          *)
(***************************************************************************)

ProcessStarts ==
  /\ pc = "down"
  /\ pc' = "startLoad"
  /\ UNCHANGED <<registry, uwf, maintained, ui, job, promise>>

\* Maintenance ends; a failure is only logged.
Started(ok) ==
  /\ pc' = "idle"
  /\ maintained' = ok

StartLoad ==
  /\ pc = "startLoad"
  /\ \/ Started(FALSE)
     \/ view.list = Empty /\ Started(TRUE)
     \/ view.list # Empty /\ pc' = "startCommit" /\ UNCHANGED maintained
  /\ UNCHANGED <<registry, uwf, ui, job, promise>>

\* Variant: every error of the commit is taken for NotFound.
PreserveCurrentTolerant(done, failed) ==
  \/ (WriteThrough \/ view.list = disk.list) /\ done /\ UNCHANGED registry
  \/ ~WriteThrough /\ CommitList /\ done
  \/ ~WriteThrough /\ UNCHANGED registry /\ done
  \/ UNCHANGED registry /\ failed

\* preserveCurrent: nothing to do where writes reach the disk; else commit, where
\* NotFound (the overlay holds no change) counts as done.
PreserveCurrent(done, failed) ==
  \/ (WriteThrough \/ view.list = disk.list) /\ done /\ UNCHANGED registry
  \/ ~WriteThrough /\ CommitList /\ (done \/ failed)
  \/ UNCHANGED registry /\ failed

StartCommit ==
  /\ pc = "startCommit"
  /\ PreserveCurrent(pc' = "startExclude" /\ UNCHANGED maintained, Started(FALSE))
  /\ UNCHANGED <<uwf, ui, job, promise>>

StartExclude ==
  /\ pc = "startExclude"
  /\ LET planned == PlanConfiguration(NoEdits, exclusions,
                                      [any |-> TRUE, before |-> Empty, after |-> view.list]).add
     IN \/ exclusions' = exclusions \cup planned /\ Started(TRUE)
        \/ exclusions' = exclusions \cup planned /\ Started(FALSE)
        \/ UNCHANGED exclusions /\ Started(FALSE)
  /\ UNCHANGED <<registry, filter, covered, ui, job, promise>>

-----------------------------------------------------------------------------
(***************************************************************************)
(* The draft and the editors, on the UI thread.                            *)
(***************************************************************************)

\* FileStagingDraft::changes
Changes(d) ==
  IF ~d.loaded \/ (~d.pending /\ d.baseline = d.entries) THEN NoChanges
  ELSE [any |-> TRUE, before |-> d.baseline, after |-> d.entries]

\* fileStagingRegistryRootRequired: the draft holds entries, or cannot tell.
RootRequired(d) == ~d.loaded \/ ~d.known \/ d.entries # Empty

\* refreshFileStagingConstraints, on every FileStagingDraft::changed.
Constrained(e, d) == IF RootRequired(d) THEN [e EXCEPT !.remove = @ \ {Root}] ELSE e

ChangeDraft(d) ==
  /\ draft' = d
  /\ edits' = Constrained(edits, d)

Reloaded == [loaded |-> TRUE, known |-> TRUE, pending |-> FALSE, baseline |-> view.list,
             entries |-> view.list]
Reconciled == [draft EXCEPT !.baseline = view.list, !.known = TRUE]

\* configurationWritesAllowed; the dialog of a plan is modal.
Editable == pc = "idle" /\ ~plan.open /\ snapshot.committed /\ ~snapshot.mustRead

EditStaging(list) ==
  /\ Editable /\ draft.loaded /\ draft.known
  /\ draft.entries # list
  /\ ChangeDraft([draft EXCEPT !.entries = list])
  /\ UNCHANGED <<registry, uwf, pc, maintained, setFilter, snapshot, plan, job, promise>>

\* The list widget or an imported command; the removal of the root is refused
\* while the draft needs it.
EditExclusions(key) ==
  /\ Editable
  /\ edits' \in {DraftAdd(edits, key, snapshot.next)}
                 \cup (IF key = Root /\ RootRequired(draft) THEN {}
                       ELSE {DraftRemove(edits, key, snapshot.next)})
  /\ UNCHANGED <<registry, uwf, pc, maintained, draft, setFilter, snapshot, plan, job, promise>>

EditFilter(value) ==
  /\ Editable
  /\ setFilter' = IF (value = "on") = snapshot.filter THEN "keep" ELSE value
  /\ UNCHANGED <<registry, uwf, pc, maintained, draft, edits, snapshot, plan, job, promise>>

\* discardPendingChanges: the stored list first, which may fail; then the editors.
DiscardPendingChanges ==
  /\ pc = "idle" /\ ~plan.open
  /\ LET rereads == Changes(draft).any \/ ~draft.known
     IN /\ draft' = IF rereads THEN Reloaded ELSE draft
        /\ maintained' = (maintained /\ ~(rereads /\ draft.pending))
  /\ edits' = IF snapshot.committed THEN NoEdits ELSE edits
  /\ setFilter' = IF snapshot.committed THEN "keep" ELSE setFilter
  /\ UNCHANGED <<registry, uwf, pc, snapshot, plan, job, promise>>

\* refresh and its completion: reconcile or reload the draft, which may fail and
\* is then only logged, and commit the state that was read.
RefreshDraft(loads) ==
  CASE loads /\ ~draft.known -> Reconciled
    [] loads /\ draft.known /\ ~Changes(draft).any -> Reloaded
    [] OTHER -> draft

Refresh ==
  /\ pc = "idle"
  /\ \E loads, reads \in BOOLEAN :
       LET refreshed == RefreshDraft(loads)
       IN /\ draft' = refreshed
          /\ IF reads
               THEN /\ snapshot' = [committed |-> TRUE, mustRead |-> ~refreshed.known,
                                    next |-> exclusions, filter |-> filter.next]
                    /\ edits' = NoEdits /\ setFilter' = "keep"
               ELSE /\ edits' = Constrained(edits, refreshed)
                    /\ UNCHANGED <<snapshot, setFilter>>
  /\ UNCHANGED <<registry, uwf, pc, maintained, plan, job, promise>>

\* showPlan: the plan is made of the edits, the snapshot and the draft's changes.
OpenPlan ==
  /\ Editable
  /\ LET staging == Changes(draft)
         planned == PlanConfiguration(edits, snapshot.next, staging)
     IN plan' = [open |-> TRUE, staging |-> staging, filter |-> setFilter,
                 add |-> planned.add, remove |-> planned.remove,
                 completion |-> planned.completion,
                 canApply |-> \/ staging.any \/ setFilter # "keep"
                              \/ planned.add # {} \/ planned.remove # {}]
  /\ UNCHANGED <<registry, uwf, pc, maintained, draft, edits, setFilter, snapshot, job, promise>>

ClosePlan ==
  /\ pc = "idle" /\ plan.open
  /\ plan' = NoPlan
  /\ UNCHANGED <<registry, uwf, pc, maintained, draft, edits, setFilter, snapshot, job, promise>>

-----------------------------------------------------------------------------
(***************************************************************************)
(* The apply: prepared on the UI thread, run on a worker.                  *)
(***************************************************************************)

AfterStaging == IF plan.filter = "keep" THEN "exclusions" ELSE "filter"

\* prepareWrite refuses a draft that is no longer the plan's target.
Apply ==
  /\ pc = "idle" /\ plan.open /\ plan.canApply
  /\ snapshot.committed /\ ~snapshot.mustRead
  /\ plan.staging.any => draft.entries = plan.staging.after
  /\ \/ job' = NoJob /\ pc' = "publish"
     \/ /\ job' = [NoJob EXCEPT !.connected = TRUE, !.add = plan.add, !.remove = plan.remove]
        /\ pc' = IF plan.staging.any THEN "check" ELSE AfterStaging
  /\ UNCHANGED <<registry, uwf, maintained, ui, promise>>

\* Variant: the write counts as attempted once the store has returned.
CheckLate ==
  /\ pc = "check"
  /\ \/ /\ view.list \in {plan.staging.before, plan.staging.after}
        /\ promise' = Nothing
        /\ pc' = IF plan.staging.after = Empty THEN "clear" ELSE "write"
        /\ UNCHANGED job
     \/ /\ job' = [job EXCEPT !.failed = TRUE]
        /\ pc' = "publish"
        /\ UNCHANGED promise
  /\ UNCHANGED <<registry, uwf, maintained, ui>>

\* The stored list must still be the plan's baseline or already its target.
Check ==
  /\ pc = "check"
  /\ \/ /\ view.list \in {plan.staging.before, plan.staging.after}
        /\ job' = [job EXCEPT !.attempted = TRUE]
        /\ promise' = Nothing
        /\ pc' = IF plan.staging.after = Empty THEN "clear" ELSE "write"
     \/ /\ job' = [job EXCEPT !.failed = TRUE]
        /\ pc' = "publish"
        /\ UNCHANGED promise
  /\ UNCHANGED <<registry, uwf, maintained, ui>>

\* writeMultiString creates the key, then sets the value.
WriteList ==
  /\ pc = "write"
  /\ \/ Store([root |-> TRUE, list |-> plan.staging.after]) /\ pc' = "commit"
     \/ Store([view EXCEPT !.root = TRUE]) /\ pc' = "salvage"
     \/ UNCHANGED registry /\ pc' = "salvage"
  /\ UNCHANGED <<uwf, maintained, ui, job, promise>>

Commit ==
  /\ pc = "commit"
  /\ PreserveCurrent(pc' = "observe", pc' = "salvage")
  /\ UNCHANGED <<uwf, maintained, ui, job, promise>>

\* clearCurrent: delete the tree where that reaches the disk, else commit its
\* deletion key by key, in the order of a plan made now.
ClearCurrent ==
  /\ pc = "clear"
  /\ \/ UNCHANGED registry /\ pc' = "salvage"
     \/ ~view.root /\ UNCHANGED registry /\ pc' = "observe"
     \/ /\ view.root /\ WriteThrough
        /\ \/ Store(NoTree) /\ pc' = "observe"
           \/ Store([view EXCEPT !.list = Empty]) /\ pc' = "salvage"
     \/ /\ view.root /\ ~WriteThrough
        /\ UNCHANGED registry
        /\ pc' = IF view.list = Empty THEN "clearRoot" ELSE "clearList"
  /\ UNCHANGED <<uwf, maintained, ui, job, promise>>

CommitDeletions ==
  /\ \/ /\ pc = "clearList"
        /\ \/ CommitDeletion(TRUE) /\ pc' \in {"clearRoot", "salvage"}
           \/ UNCHANGED registry /\ pc' = "salvage"
     \/ /\ pc = "clearRoot"
        /\ \/ CommitDeletion(FALSE) /\ pc' \in {"observe", "salvage"}
           \/ UNCHANGED registry /\ pc' = "salvage"
  /\ UNCHANGED <<uwf, maintained, ui, job, promise>>

Observe ==
  /\ pc = "observe"
  /\ \/ /\ view.list = plan.staging.after
        /\ job' = [job EXCEPT !.observed = view.list, !.reconcile = TRUE]
        /\ pc' = AfterStaging
     \/ UNCHANGED job /\ pc' = "salvage"
  /\ UNCHANGED <<registry, uwf, maintained, ui, promise>>

\* Variant: the rest of the plan runs after a failed staging write.
SalvageAndContinue ==
  /\ pc = "salvage"
  /\ job' \in {[job EXCEPT !.failed = TRUE, !.reconcile = TRUE, !.observed = seen] :
                 seen \in {view.list, Nothing}}
  /\ pc' = AfterStaging
  /\ UNCHANGED <<registry, uwf, maintained, ui, promise>>

\* The failed write is observed once more; its error becomes Uncertain and ends
\* the whole apply.
Salvage ==
  /\ pc = "salvage"
  /\ job' \in {[job EXCEPT !.failed = TRUE, !.reconcile = TRUE, !.observed = seen] :
                 seen \in {view.list, Nothing}}
  /\ pc' = "publish"
  /\ UNCHANGED <<registry, uwf, maintained, ui, promise>>

\* invokeAndConfirm: a write is confirmed by a reread, or its outcome is
\* uncertain, or the provider refused it.
WriteOutcomes == {[effect |-> TRUE, result |-> "confirmed"], [effect |-> TRUE, result |-> "uncertain"],
                  [effect |-> FALSE, result |-> "uncertain"], [effect |-> FALSE, result |-> "none"]}

ApplyFilter ==
  /\ pc = "filter"
  /\ \E outcome \in WriteOutcomes :
       /\ filter' = IF outcome.effect THEN [filter EXCEPT !.next = (plan.filter = "on")] ELSE filter
       /\ job' = [job EXCEPT !.reconcile = @ \/ outcome.result # "none"]
  /\ pc' = "exclusions"
  /\ UNCHANGED <<registry, covered, exclusions, maintained, ui, promise>>

\* The additions in turn, then the removals.
ApplyExclusion ==
  /\ pc = "exclusions"
  /\ \E outcome \in WriteOutcomes :
       LET adding == job.add # {}
       IN \E key \in IF adding THEN job.add ELSE job.remove :
            /\ exclusions' = IF ~outcome.effect THEN exclusions
                             ELSE IF adding THEN exclusions \cup {key} ELSE exclusions \ {key}
            /\ job' = [job EXCEPT
                 !.add = @ \ {key},
                 !.remove = IF adding THEN @ ELSE @ \ {key},
                 !.reconcile = @ \/ outcome.result # "none",
                 !.succeeded = IF outcome.result # "confirmed" THEN @
                               ELSE @ \cup {<<IF adding THEN "add" ELSE "remove", key>>}]
  /\ UNCHANGED <<registry, filter, covered, pc, maintained, ui, promise>>

\* All exclusions are through, or the row they belong to could not be read.
ExclusionsDone ==
  /\ pc = "exclusions"
  /\ \/ job.add = {} /\ job.remove = {}
     \/ job.add = plan.add /\ job.remove = plan.remove
  /\ pc' = "publish"
  /\ UNCHANGED <<registry, uwf, maintained, ui, job, promise>>

\* Variant: an unobserved write leaves the old baseline known.
AcceptWriteTrusting(failed) ==
  IF ~job.attempted THEN draft
  ELSE [draft EXCEPT !.baseline = IF job.observed = Nothing THEN @ ELSE job.observed,
                     !.pending = failed]

\* FileStagingDraft::acceptWrite
AcceptWrite(failed) ==
  IF ~job.attempted THEN draft
  ELSE [draft EXCEPT !.baseline = IF job.observed = Nothing THEN @ ELSE job.observed,
                     !.known = (job.observed # Nothing),
                     !.pending = failed]

\* The worker's last check, completeApply and publishResult.
Publish ==
  /\ pc = "publish"
  /\ LET incomplete == plan.completion # {} /\ plan.completion \cap job.succeeded = {}
         failed == job.failed \/ (job.attempted /\ incomplete)
         saved == job.attempted /\ ~failed
     IN /\ ChangeDraft(AcceptWrite(failed))
        /\ promise' = IF saved THEN job.observed ELSE promise
        /\ maintained' = (maintained \/ saved)
        /\ snapshot' = [snapshot EXCEPT !.mustRead = @ \/ job.reconcile]
        /\ plan' = [plan EXCEPT !.canApply = ~job.connected \/ ~job.reconcile]
  /\ pc' = "idle" /\ job' = NoJob
  /\ UNCHANGED <<registry, uwf, setFilter>>

Next ==
  \/ ProcessEnds \/ MachineRestarts
  \/ ProcessStarts \/ StartLoad \/ StartCommit \/ StartExclude
  \/ \E list \in Lists : EditStaging(list)
  \/ \E key \in Keys : EditExclusions(key)
  \/ \E value \in {"on", "off"} : EditFilter(value)
  \/ DiscardPendingChanges \/ Refresh \/ OpenPlan \/ ClosePlan
  \/ Apply \/ Check \/ WriteList \/ Commit \/ ClearCurrent \/ CommitDeletions \/ Observe \/ Salvage
  \/ ApplyFilter \/ ApplyExclusion \/ ExclusionsDone \/ Publish

Spec == Init /\ [][Next]_vars

-----------------------------------------------------------------------------
(***************************************************************************)
(* Properties.                                                             *)
(***************************************************************************)

\* A list reported as saved (an apply whose staging write ended without failure)
\* is what a restart finds, until the next write of the list begins.
Promise == INSTANCE DurableList WITH durable <- disk.list, promise <- promise
ImplementsDurableList == Promise!Spec

\* The baseline the draft compares the user's target with, and from which the next
\* plan's `before` is taken, is the stored list: after failed writes, failed
\* rereads, refreshes and discarded edits.
BaselineIsTrue ==
  pc = "idle" /\ draft.loaded /\ draft.known => draft.baseline = view.list

\* A list that only the overlay holds is never passed over: the draft shows the
\* write as pending or asks for a reread.  (Not so when the maintenance at the
\* start failed, or the user has discarded the pending write: ~maintained.)
UnsavedIsRemembered ==
  pc = "idle" /\ maintained =>
    view.list = disk.list \/ draft.pending \/ ~draft.known

\* The exclusion of the root key is taken away only when the whole list is gone,
\* from the session and from the disk: no restart brings back half a list that
\* nothing protects.
ExclusionOutlivesList ==
  [][(Root \in exclusions /\ Root \notin exclusions') =>
       (view.list = Empty /\ disk.list = Empty)]_vars

\* When an apply reports a non-empty list as saved, the next session excludes its
\* key; when it reports an emptied one, the root exclusion is gone unless the
\* user has asked for it.
ReportedListIsCovered ==
  [][(promise = Nothing /\ promise' # Nothing) =>
       IF promise' = Empty THEN (Root \in exclusions => Root \in plan.add)
       ELSE Covered(exclusions)]_vars

\* What the tooltip of the file staging page says: while the list contains data,
\* its key is excluded in the next session.  Stated of the states in which the
\* program rests with nothing pending, and nothing has failed.
ListIsExcluded ==
  pc = "idle" /\ maintained /\ draft.loaded /\ ~Changes(draft).any /\ ~snapshot.mustRead
    /\ draft.baseline # Empty => Covered(exclusions)
=============================================================================
