-------------------- MODULE FileStagingDurabilityProofs --------------------
(***************************************************************************)
(* The durable store keeps its promise for every set of lists: the list    *)
(* the user was told is saved survives every crash, restart and discard of *)
(* the overlay.                                                            *)
(*                                                                         *)
(* The inductive invariant has one part per piece of state that a later    *)
(* step trusts: the registry under the filter, the promise, what the       *)
(* worker may rely on at each of its steps, what it observed, the draft,   *)
(* the editors' pending changes, and the plan it was handed.               *)
(***************************************************************************)
EXTENDS FileStagingDurability, TLAPS

\* The registry under the filter: nothing differs where writes reach the disk, a
\* key that is missing holds no list, and the overlay never hides a list: it is
\* emptied, and its key removed, only on both sides at once.
RegistryAgrees ==
  /\ WriteThrough => view = disk
  /\ ~disk.root => disk.list = Empty
  /\ ~view.root => view.list = Empty /\ ~disk.root
  /\ view.list = Empty => disk.list = Empty

\* A promise holds in the session and on the disk.
PromiseIsKept ==
  promise # Nothing => view.list = promise /\ disk.list = promise

Starting == {"down", "startLoad", "startCommit", "startExclude"}
Writing == {"write", "commit", "clear", "clearList", "clearRoot", "observe", "salvage"}
Finishing == {"filter", "exclusions", "publish"}

\* What each step of the start and of the apply may rely on.
StepsAreOrdered ==
  /\ pc \in Starting => draft = NewDraft /\ edits = NoEdits /\ snapshot = NoSnapshot /\ plan = NoPlan
  /\ pc \in Starting \cup {"idle"} => job = NoJob
  /\ pc = "startCommit" => view.list # Empty
  /\ pc = "startExclude" => view.list = disk.list
  /\ pc \in Writing \cup {"check"} => plan.staging.any
  /\ pc \in Writing => job.attempted /\ ~job.failed
  /\ job.attempted => plan.staging.any /\ promise = Nothing
  /\ pc = "check" => ~job.attempted /\ ~job.failed
  /\ pc = "write" => plan.staging.after # Empty
  /\ pc \in {"clear", "clearList", "clearRoot"} => plan.staging.after = Empty
  /\ pc \in {"clearList", "clearRoot"} => view.root
  /\ pc = "clearRoot" => view.list = Empty
  /\ pc = "commit" => view.root /\ view.list = plan.staging.after
  /\ pc = "observe" => view.list = disk.list

\* What the worker has found out about the list.
ObservationIsTrue ==
  pc \in Finishing =>
    /\ job.attempted =>
         /\ job.observed \in {view.list, Nothing}
         /\ ~job.failed => job.observed = view.list /\ view.list = disk.list
                           /\ view.list = plan.staging.after
    /\ pc # "publish" => ~job.failed /\ (plan.staging.any => job.attempted)

\* The draft, in every state in which no write of the list is under way.
DraftIsTrue ==
  /\ ~draft.loaded => draft = NewDraft
  /\ ~draft.known => draft.pending
  /\ plan.staging.any => draft.loaded
  /\ pc \notin Starting /\ ~job.attempted =>
       /\ draft.loaded /\ draft.known => draft.baseline = view.list
       /\ maintained => view.list = disk.list \/ draft.pending

\* The editors: additions and removals are told apart by the snapshot, and the
\* root is not removed while the draft needs it.
EditsAreTrue ==
  /\ ~snapshot.committed => edits = NoEdits
  /\ edits.add \cap snapshot.next = {} /\ edits.remove \subseteq snapshot.next
  /\ Root \in edits.remove => ~RootRequired(draft)
  /\ snapshot.committed /\ ~snapshot.mustRead =>
       snapshot.next = exclusions \/ job.reconcile

\* The plan and what the worker has done of it.
PlanIsTrue ==
  /\ plan.add \cap plan.remove = {}
  /\ job.add \subseteq plan.add /\ job.remove \subseteq plan.remove
  /\ Root \in plan.remove =>
       IF plan.staging.any THEN plan.staging.after = Empty ELSE view.list = Empty
  /\ plan.staging.any /\ plan.staging.after # Empty =>
       \/ (exclusions \ plan.remove) \cap Covering # {}
       \/ plan.completion # {} /\ plan.completion \subseteq {"add"} \X Covering
  /\ plan.staging.any /\ plan.staging.after = Empty =>
       \/ plan.completion = {<<"remove", Root>>}
       \/ Root \in exclusions => Root \in plan.add
  /\ \A key \in Keys :
       /\ <<"add", key>> \in job.succeeded => key \in plan.add /\ key \in exclusions
       /\ <<"remove", key>> \in job.succeeded => key \notin exclusions /\ job.add = {}

DurabilityInv ==
  /\ DurabilityTypeOK
  /\ RegistryAgrees
  /\ PromiseIsKept
  /\ StepsAreOrdered
  /\ ObservationIsTrue
  /\ DraftIsTrue
  /\ EditsAreTrue
  /\ PlanIsTrue

\* The variables keep their types.
LEMMA TypeStep == DurabilityTypeOK /\ [Next]_vars => DurabilityTypeOK'
<1>. SUFFICES ASSUME DurabilityTypeOK, [Next]_vars PROVE DurabilityTypeOK'
  OBVIOUS
<1>. USE ListsAssumption, KeysAssumption DEF DurabilityTypeOK, registry, uwf, ui
<1>1. CASE ProcessEnds \/ MachineRestarts
  <2>1. NewDraft \in Drafts /\ NoEdits \in Edits /\ NoSnapshot \in Snapshots
    BY DEF NewDraft, NoEdits, NoSnapshot, Drafts, Edits, Snapshots
  <2>2. NoPlan \in Plans
    BY DEF NoPlan, NoChanges, Plans
  <2>3. NoJob \in Jobs
    BY DEF NoJob, Jobs
  <2>. QED BY <1>1, <2>1, <2>2, <2>3 DEF ProcessEnds, MachineRestarts, ProcessGone, Covered, Steps
<1>2. CASE ProcessStarts
  BY <1>2 DEF ProcessStarts, Steps
<1>3. CASE StartLoad
  BY <1>3 DEF StartLoad, Started, Steps
<1>trees. /\ NoTree \in Trees
          /\ \A list \in Lists : [root |-> TRUE, list |-> list] \in Trees
          /\ \A tree \in Trees : /\ tree.list \in Lists
                                 /\ [tree EXCEPT !.root = TRUE] \in Trees
                                 /\ [tree EXCEPT !.list = Empty] \in Trees
  BY DEF NoTree, Trees
<1>4. CASE StartCommit
  <2>1. view' \in Trees /\ disk' \in Trees
    BY <1>4, <1>trees DEF StartCommit, PreserveCurrent, CommitList
  <2>. QED BY <1>4, <2>1 DEF StartCommit, PreserveCurrent, Started, Steps
<1>5. CASE StartExclude
  BY <1>5 DEF StartExclude, Started, PlanConfiguration, NoEdits, Covered, Steps
<1>6. ASSUME NEW list \in Lists, EditStaging(list) PROVE DurabilityTypeOK'
  BY <1>6 DEF EditStaging, ChangeDraft, Constrained, Drafts, Edits
<1>7. ASSUME NEW key \in Keys, EditExclusions(key) PROVE DurabilityTypeOK'
  BY <1>7 DEF EditExclusions, DraftAdd, DraftRemove, Edits
<1>8. ASSUME NEW value \in {"on", "off"}, EditFilter(value) PROVE DurabilityTypeOK'
  BY <1>8 DEF EditFilter
<1>9. Reloaded \in Drafts /\ Reconciled \in Drafts
  BY DEF Reloaded, Reconciled, Drafts, Trees
<1>10. NoEdits \in Edits /\ \A d : Constrained(edits, d) \in Edits
  BY DEF NoEdits, Constrained, Edits
<1>11. CASE DiscardPendingChanges
  BY <1>9, <1>10, <1>11 DEF DiscardPendingChanges
<1>12. CASE Refresh
  <2>1. draft' \in Drafts /\ edits' \in Edits
    BY <1>9, <1>10, <1>12 DEF Refresh, RefreshDraft
  <2>2. snapshot' \in Snapshots /\ setFilter' \in {"keep", "on", "off"}
    <3>1. \A d \in Drafts : [committed |-> TRUE, mustRead |-> ~d.known, next |-> exclusions,
                             filter |-> filter.next] \in Snapshots
      BY DEF Drafts, Snapshots
    <3>2. \A loads \in BOOLEAN : RefreshDraft(loads) \in Drafts
      BY <1>9 DEF RefreshDraft
    <3>. QED BY <1>12, <3>1, <3>2 DEF Refresh
  <2>. QED BY <1>12, <2>1, <2>2 DEF Refresh
<1>13. CASE OpenPlan
  BY <1>13 DEF OpenPlan, Changes, NoChanges, PlanConfiguration, Covered, Plans, Drafts, Edits, Operations
<1>14. CASE ClosePlan
  BY <1>14 DEF ClosePlan, NoPlan, NoChanges, Plans
<1>15. AfterStaging \in Steps
  BY DEF AfterStaging, Steps
<1>16. CASE Apply
  <2>1. NoJob \in Jobs /\ [NoJob EXCEPT !.connected = TRUE, !.add = plan.add, !.remove = plan.remove] \in Jobs
    BY DEF NoJob, Jobs, Plans
  <2>. QED BY <1>15, <1>16, <2>1 DEF Apply, Steps
<1>17. CASE Check
  <2>1. [job EXCEPT !.attempted = TRUE] \in Jobs /\ [job EXCEPT !.failed = TRUE] \in Jobs
    BY DEF Jobs
  <2>. QED BY <1>17, <2>1 DEF Check, Steps
<1>18. CASE WriteList
  <2>1. view' \in Trees /\ disk' \in Trees
    <3>1. plan.staging.after \in Lists
      BY DEF Plans
    <3>. QED BY <1>18, <1>trees, <3>1 DEF WriteList, Store
  <2>. QED BY <1>18, <2>1 DEF WriteList, Steps
<1>19. CASE Commit
  <2>1. view' \in Trees /\ disk' \in Trees
    BY <1>19, <1>trees DEF Commit, PreserveCurrent, CommitList
  <2>. QED BY <1>19, <2>1 DEF Commit, PreserveCurrent, Steps
<1>20. CASE ClearCurrent
  <2>1. view' \in Trees /\ disk' \in Trees
    BY <1>20, <1>trees DEF ClearCurrent, Store
  <2>. QED BY <1>20, <2>1 DEF ClearCurrent, Steps
<1>21. CASE CommitDeletions
  <2>1. view' \in Trees /\ disk' \in Trees
    BY <1>21, <1>trees DEF CommitDeletions, CommitDeletion
  <2>. QED BY <1>21, <2>1 DEF CommitDeletions, Steps
<1>22. CASE Observe
  <2>1. [job EXCEPT !.observed = view.list, !.reconcile = TRUE] \in Jobs
    BY DEF Jobs, Trees
  <2>. QED BY <1>15, <1>22, <2>1 DEF Observe, Steps
<1>23. CASE Salvage
  <2>1. \A seen \in {view.list, Nothing} :
          [job EXCEPT !.failed = TRUE, !.reconcile = TRUE, !.observed = seen] \in Jobs
    BY DEF Jobs, Trees
  <2>. QED BY <1>23, <2>1 DEF Salvage, Steps
<1>24. CASE ApplyFilter
  <2>1. job' \in Jobs
    BY <1>24 DEF ApplyFilter, WriteOutcomes, Jobs
  <2>. QED BY <1>24, <2>1 DEF ApplyFilter, Steps
<1>25. CASE ApplyExclusion
  <2>1. job' \in Jobs
    <3>1. PICK outcome \in WriteOutcomes, key \in IF job.add # {} THEN job.add ELSE job.remove :
            job' = [job EXCEPT
                 !.add = @ \ {key},
                 !.remove = IF job.add # {} THEN @ ELSE @ \ {key},
                 !.reconcile = @ \/ outcome.result # "none",
                 !.succeeded = IF outcome.result # "confirmed" THEN @
                               ELSE @ \cup {<<IF job.add # {} THEN "add" ELSE "remove", key>>}]
      BY <1>25 DEF ApplyExclusion
    <3>2. key \in Keys
      BY <3>1 DEF Jobs
    <3>3. <<IF job.add # {} THEN "add" ELSE "remove", key>> \in Operations
      BY <3>2 DEF Operations
    <3>. QED BY <3>1, <3>3 DEF Jobs
  <2>2. exclusions' \subseteq Keys
    BY <1>25 DEF ApplyExclusion, Jobs
  <2>. QED BY <1>25, <2>1, <2>2 DEF ApplyExclusion
<1>26. CASE ExclusionsDone
  BY <1>26 DEF ExclusionsDone, Steps
<1>27. CASE Publish
  <2>1. draft' \in Drafts /\ edits' \in Edits
    BY <1>27, <1>10 DEF Publish, ChangeDraft, AcceptWrite, Drafts, Jobs
  <2>2. job' \in Jobs /\ promise' \in Lists \cup {Nothing}
    BY <1>27 DEF Publish, NoJob, Jobs
  <2>3. snapshot' \in Snapshots /\ plan' \in Plans
    BY <1>27 DEF Publish, Jobs, Snapshots, Plans
  <2>. QED BY <1>27, <2>1, <2>2, <2>3 DEF Publish, Steps
<1>28. CASE UNCHANGED vars
  BY <1>28 DEF vars
<1>. QED BY <1>1, <1>2, <1>3, <1>4, <1>5, <1>6, <1>7, <1>8, <1>11, <1>12, <1>13, <1>14, <1>16,
            <1>17, <1>18, <1>19, <1>20, <1>21, <1>22, <1>23, <1>24, <1>25, <1>26, <1>27, <1>28
         DEF Next

\* The steps that write the registry or change what lies under the filter.
LEMMA RegistryWriters ==
  Next => \/ MachineRestarts \/ StartCommit \/ WriteList \/ Commit \/ ClearCurrent \/ CommitDeletions
          \/ ApplyFilter /\ UNCHANGED registry
          \/ UNCHANGED <<registry, filter, covered>>
  BY DEF Next, registry, uwf, ProcessEnds, ProcessStarts, StartLoad, StartExclude, EditStaging,
         EditExclusions, EditFilter, DiscardPendingChanges, Refresh, OpenPlan, ClosePlan, Apply,
         Check, Observe, Salvage, ApplyFilter, ApplyExclusion, ExclusionsDone, Publish

\* The overlay never hides a list from the disk.
LEMMA RegistryStep == DurabilityInv /\ Next => RegistryAgrees'
<1>. SUFFICES ASSUME DurabilityInv, Next PROVE RegistryAgrees'
  OBVIOUS
<1>. USE DEF DurabilityInv, DurabilityTypeOK, RegistryAgrees, WriteThrough, Trees, registry
<1>1. CASE MachineRestarts
  BY <1>1 DEF MachineRestarts
<1>2. CASE StartCommit
  BY <1>2 DEF StartCommit, PreserveCurrent, CommitList, StepsAreOrdered, uwf
<1>3. CASE WriteList
  <2>1. plan.staging.after # Empty
    BY <1>3 DEF WriteList, StepsAreOrdered
  <2>2. UNCHANGED <<filter, covered>>
    BY <1>3 DEF WriteList, uwf
  <2>3. CASE Store([root |-> TRUE, list |-> plan.staging.after])
    BY <2>1, <2>2, <2>3 DEF Store
  <2>4. CASE Store([view EXCEPT !.root = TRUE])
    BY <2>2, <2>4 DEF Store
  <2>5. CASE UNCHANGED registry
    BY <2>2, <2>5
  <2>. QED BY <1>3, <2>3, <2>4, <2>5 DEF WriteList
<1>4. CASE Commit
  BY <1>4 DEF Commit, PreserveCurrent, CommitList, StepsAreOrdered, uwf
<1>5. CASE ClearCurrent
  <2>1. \/ UNCHANGED registry
        \/ WriteThrough /\ view' = NoTree /\ disk' = NoTree
        \/ WriteThrough /\ view.root /\ view' = [view EXCEPT !.list = Empty] /\ disk' = view'
    BY <1>5 DEF ClearCurrent, Store
  <2>2. UNCHANGED <<filter, covered>>
    BY <1>5 DEF ClearCurrent, uwf
  <2>3. CASE view' = NoTree /\ disk' = NoTree
    BY <2>2, <2>3 DEF NoTree
  <2>4. CASE view.root /\ view' = [view EXCEPT !.list = Empty] /\ disk' = view'
    BY <2>2, <2>4
  <2>. QED BY <2>1, <2>2, <2>3, <2>4
<1>6. CASE CommitDeletions
  <2>1. \/ UNCHANGED registry
        \/ view' = NoTree /\ disk' = NoTree
        \/ view.root /\ view' = [view EXCEPT !.list = Empty] /\ disk' = [disk EXCEPT !.list = Empty]
    BY <1>6 DEF CommitDeletions, CommitDeletion, StepsAreOrdered
  <2>2. UNCHANGED <<filter, covered>>
    BY <1>6 DEF CommitDeletions, uwf
  <2>3. CASE view' = NoTree /\ disk' = NoTree
    BY <2>2, <2>3 DEF NoTree
  <2>4. CASE view.root /\ view' = [view EXCEPT !.list = Empty] /\ disk' = [disk EXCEPT !.list = Empty]
    BY <2>2, <2>4
  <2>. QED BY <2>1, <2>2, <2>3, <2>4
<1>7. CASE ApplyFilter /\ UNCHANGED registry
  BY <1>7 DEF ApplyFilter
<1>8. CASE UNCHANGED <<registry, filter, covered>>
  BY <1>8
<1>. QED BY <1>1, <1>2, <1>3, <1>4, <1>5, <1>6, <1>7, <1>8, RegistryWriters

\* A promise is kept: the next write withdraws it first, and nothing the program
\* does at its start can break it.
LEMMA PromiseStep == DurabilityInv /\ Next => PromiseIsKept'
<1>. SUFFICES ASSUME DurabilityInv, Next PROVE PromiseIsKept'
  OBVIOUS
<1>. USE DEF DurabilityInv, PromiseIsKept, registry
<1>1. CASE MachineRestarts
  BY <1>1 DEF MachineRestarts
<1>2. CASE StartCommit
  <2>1. UNCHANGED registry \/ CommitList
    BY <1>2 DEF StartCommit, PreserveCurrent
  <2>2. UNCHANGED promise
    BY <1>2 DEF StartCommit
  <2>. QED BY <2>1, <2>2 DEF CommitList
<1>3. CASE WriteList \/ Commit \/ ClearCurrent \/ CommitDeletions
  BY <1>3 DEF WriteList, Commit, ClearCurrent, CommitDeletions, StepsAreOrdered, Writing
<1>4. CASE Check
  BY <1>4 DEF Check
<1>5. CASE Publish
  BY <1>5 DEF Publish, ObservationIsTrue, Finishing
<1>6. CASE UNCHANGED <<view, disk, promise>>
  BY <1>6
<1>7. \/ MachineRestarts \/ StartCommit \/ WriteList \/ Commit \/ ClearCurrent \/ CommitDeletions
      \/ Check \/ Publish \/ UNCHANGED <<view, disk, promise>>
  BY DEF Next, ProcessEnds, ProcessStarts, StartLoad, StartExclude, EditStaging,
         EditExclusions, EditFilter, DiscardPendingChanges, Refresh, OpenPlan, ClosePlan, Apply,
         Observe, Salvage, ApplyFilter, ApplyExclusion, ExclusionsDone
<1>. QED BY <1>1, <1>2, <1>3, <1>4, <1>5, <1>6, <1>7

\* A new apply has written nothing yet.
LEMMA NewJob ==
  /\ ~NoJob.attempted /\ ~NoJob.failed /\ ~NoJob.reconcile
  /\ \A add, remove : LET new == [NoJob EXCEPT !.connected = TRUE, !.add = add, !.remove = remove]
                      IN ~new.attempted /\ ~new.failed /\ ~new.reconcile
  BY DEF NoJob



\* One exclusion of the plan is written, or not.
LEMMA ExclusionWritten ==
  ASSUME DurabilityTypeOK, ApplyExclusion
  PROVE  /\ job'.attempted = job.attempted /\ job'.failed = job.failed /\ job'.observed = job.observed
         /\ job.reconcile \/ exclusions' # exclusions => job'.reconcile
         /\ \E key \in Keys :
              \/ /\ key \in job.add /\ job'.add = job.add \ {key} /\ job'.remove = job.remove
                 /\ exclusions' \in {exclusions, exclusions \cup {key}}
                 /\ \/ job'.succeeded = job.succeeded
                    \/ /\ job'.succeeded = job.succeeded \cup {<<"add", key>>}
                       /\ exclusions' = exclusions \cup {key}
              \/ /\ key \in job.remove /\ job'.remove = job.remove \ {key} /\ job.add = {} /\ job'.add = {}
                 /\ exclusions' \in {exclusions, exclusions \ {key}}
                 /\ \/ job'.succeeded = job.succeeded
                    \/ /\ job'.succeeded = job.succeeded \cup {<<"remove", key>>}
                       /\ exclusions' = exclusions \ {key}
<1>1. PICK outcome \in WriteOutcomes, key \in IF job.add # {} THEN job.add ELSE job.remove :
         /\ exclusions' = IF ~outcome.effect THEN exclusions
                          ELSE IF job.add # {} THEN exclusions \cup {key} ELSE exclusions \ {key}
         /\ job' = [job EXCEPT
              !.add = @ \ {key},
              !.remove = IF job.add # {} THEN @ ELSE @ \ {key},
              !.reconcile = @ \/ outcome.result # "none",
              !.succeeded = IF outcome.result # "confirmed" THEN @
                            ELSE @ \cup {<<IF job.add # {} THEN "add" ELSE "remove", key>>}]
  BY DEF ApplyExclusion
<1>2. /\ outcome.effect => outcome.result # "none"
      /\ outcome.result = "confirmed" => outcome.effect
  BY DEF WriteOutcomes
<1>3. /\ job'.attempted = job.attempted /\ job'.failed = job.failed /\ job'.observed = job.observed
      /\ job'.reconcile = (job.reconcile \/ outcome.result # "none")
      /\ job'.add = job.add \ {key}
      /\ job'.remove = IF job.add # {} THEN job.remove ELSE job.remove \ {key}
      /\ job'.succeeded = IF outcome.result # "confirmed" THEN job.succeeded
                          ELSE job.succeeded \cup {<<IF job.add # {} THEN "add" ELSE "remove", key>>}
  BY <1>1 DEF DurabilityTypeOK, Jobs
<1>4. key \in Keys
  BY <1>1 DEF DurabilityTypeOK, Jobs
<1>5. CASE job.add # {}
  BY <1>1, <1>2, <1>3, <1>4, <1>5
<1>6. CASE job.add = {}
  BY <1>1, <1>2, <1>3, <1>4, <1>6
<1>. QED BY <1>5, <1>6

\* The start and the apply go through their steps in order.
LEMMA OrderStep == DurabilityInv /\ Next => StepsAreOrdered'
<1>. SUFFICES ASSUME DurabilityInv, Next PROVE StepsAreOrdered'
  OBVIOUS
<1>. USE DEF DurabilityInv, DurabilityTypeOK, StepsAreOrdered, Starting, Writing, registry, ui
<1>1. CASE ProcessEnds \/ MachineRestarts
  BY <1>1 DEF ProcessEnds, MachineRestarts, ProcessGone, NoJob
<1>2. CASE ProcessStarts
  BY <1>2 DEF ProcessStarts
<1>3. CASE StartLoad
  BY <1>3 DEF StartLoad, Started
<1>4. CASE StartCommit
  BY <1>4 DEF StartCommit, Started, PreserveCurrent, CommitList, RegistryAgrees
<1>5. CASE StartExclude
  BY <1>5 DEF StartExclude, Started
<1>6. ASSUME NEW list \in Lists, EditStaging(list) PROVE StepsAreOrdered'
  BY <1>6 DEF EditStaging, Editable
<1>7. ASSUME NEW key \in Keys, EditExclusions(key) PROVE StepsAreOrdered'
  BY <1>7 DEF EditExclusions, Editable
<1>8. ASSUME NEW value, EditFilter(value) PROVE StepsAreOrdered'
  BY <1>8 DEF EditFilter, Editable
<1>9. CASE DiscardPendingChanges \/ Refresh \/ OpenPlan \/ ClosePlan
  BY <1>9, NewJob DEF DiscardPendingChanges, Refresh, OpenPlan, ClosePlan, Editable
<1>10. CASE Apply
  <2>1. job' = NoJob \/ job' = [NoJob EXCEPT !.connected = TRUE, !.add = plan.add, !.remove = plan.remove]
    BY <1>10 DEF Apply
  <2>2. ~job'.attempted /\ ~job'.failed
    BY <2>1, NewJob
  <2>. QED BY <1>10, <2>2 DEF Apply, AfterStaging
<1>11. CASE Check
  <2>1. \/ job' = [job EXCEPT !.attempted = TRUE] /\ promise' = Nothing
        \/ job' = [job EXCEPT !.failed = TRUE] /\ pc' = "publish"
    BY <1>11 DEF Check
  <2>2. \/ job'.attempted /\ ~job'.failed /\ promise' = Nothing
        \/ ~job'.attempted /\ pc' = "publish"
    BY <1>11, <2>1 DEF Jobs, Check
  <2>. QED BY <1>11, <2>2 DEF Check
<1>12. CASE WriteList
  BY <1>12 DEF WriteList, Store
<1>13. CASE Commit
  BY <1>13 DEF Commit, PreserveCurrent, CommitList, RegistryAgrees
<1>14. CASE ClearCurrent
  BY <1>14 DEF ClearCurrent, Store, NoTree, RegistryAgrees
<1>15. CASE CommitDeletions
  BY <1>15 DEF CommitDeletions, CommitDeletion, NoTree, Trees
<1>16. CASE Observe
  BY <1>16 DEF Observe, AfterStaging, Jobs
<1>17. CASE Salvage
  BY <1>17 DEF Salvage, Jobs
<1>18. CASE ApplyFilter \/ ExclusionsDone
  BY <1>18 DEF ApplyFilter, ExclusionsDone, Jobs
<1>19. CASE ApplyExclusion
  BY <1>19 DEF ApplyExclusion, Jobs
<1>20. CASE Publish
  BY <1>20, NewJob DEF Publish
<1>. QED BY <1>1, <1>2, <1>3, <1>4, <1>5, <1>6, <1>7, <1>8, <1>9, <1>10, <1>11, <1>12, <1>13,
            <1>14, <1>15, <1>16, <1>17, <1>18, <1>19, <1>20 DEF Next

\* What the worker has observed stays true until the result is published.
LEMMA ObservationStep == DurabilityInv /\ Next => ObservationIsTrue'
<1>. SUFFICES ASSUME DurabilityInv, Next PROVE ObservationIsTrue'
  OBVIOUS
<1>. USE DEF DurabilityInv, ObservationIsTrue, Finishing, registry, ui
<1>1. CASE pc' \notin Finishing
  BY <1>1
<1>2. CASE Apply
  <2>1. \/ job' = NoJob /\ pc' = "publish"
        \/ /\ job' = [NoJob EXCEPT !.connected = TRUE, !.add = plan.add, !.remove = plan.remove]
           /\ pc' = "check" \/ ~plan.staging.any
    BY <1>2 DEF Apply
  <2>2. ~job'.attempted /\ ~job'.failed
    BY <2>1, NewJob
  <2>. QED BY <1>2, <2>1, <2>2 DEF Apply
<1>3. CASE Check /\ pc' = "publish"
  <2>1. job' = [job EXCEPT !.failed = TRUE] /\ ~job.attempted
    BY <1>3 DEF Check, StepsAreOrdered
  <2>. QED BY <1>3, <2>1 DEF DurabilityTypeOK, Jobs
<1>4. CASE Observe /\ pc' \in {"filter", "exclusions"}
  <2>1. /\ job' = [job EXCEPT !.observed = view.list, !.reconcile = TRUE]
        /\ view.list = plan.staging.after /\ view.list = disk.list
        /\ job.attempted /\ ~job.failed
        /\ UNCHANGED <<view, disk, plan>>
    BY <1>4 DEF Observe, StepsAreOrdered, Writing
  <2>2. job'.observed = view.list /\ job'.attempted /\ job'.failed = job.failed
    BY <2>1 DEF DurabilityTypeOK, Jobs
  <2>. QED BY <1>4, <2>1, <2>2
<1>5. CASE Salvage
  <2>1. PICK seen \in {view.list, Nothing} :
          job' = [job EXCEPT !.failed = TRUE, !.reconcile = TRUE, !.observed = seen]
    BY <1>5 DEF Salvage
  <2>2. job'.failed /\ job'.observed = seen
    BY <2>1 DEF DurabilityTypeOK, Jobs
  <2>. QED BY <1>5, <2>1, <2>2 DEF Salvage
<1>6. CASE ApplyFilter
  <2>1. job'.attempted = job.attempted /\ job'.failed = job.failed /\ job'.observed = job.observed
    BY <1>6 DEF ApplyFilter, DurabilityTypeOK, Jobs
  <2>. QED BY <1>6, <2>1 DEF ApplyFilter
<1>7. CASE ApplyExclusion
  <2>1. job'.attempted = job.attempted /\ job'.failed = job.failed /\ job'.observed = job.observed
    BY <1>7 DEF ApplyExclusion, DurabilityTypeOK, Jobs
  <2>. QED BY <1>7, <2>1 DEF ApplyExclusion
<1>8. CASE ExclusionsDone
  BY <1>8 DEF ExclusionsDone
<1>9. CASE \/ ProcessEnds \/ MachineRestarts \/ ProcessStarts \/ StartLoad \/ StartCommit \/ StartExclude
           \/ WriteList \/ Commit \/ ClearCurrent \/ CommitDeletions \/ Publish
           \/ DiscardPendingChanges \/ Refresh \/ OpenPlan \/ ClosePlan
  BY <1>1, <1>9 DEF ProcessEnds, MachineRestarts, ProcessGone, ProcessStarts, StartLoad, StartCommit,
         StartExclude, Started, PreserveCurrent, WriteList, Commit, ClearCurrent, CommitDeletions,
         Publish, DiscardPendingChanges, Refresh, OpenPlan, ClosePlan, Editable
<1>10. ASSUME NEW x, EditStaging(x) \/ EditExclusions(x) \/ EditFilter(x) PROVE ObservationIsTrue'
  BY <1>1, <1>10 DEF EditStaging, EditExclusions, EditFilter, Editable
<1>11. CASE Check
  BY <1>1, <1>3, <1>11 DEF Check
<1>12. CASE Observe
  BY <1>1, <1>4, <1>12 DEF Observe, AfterStaging
<1>. QED BY <1>2, <1>5, <1>6, <1>7, <1>8, <1>9, <1>10, <1>11, <1>12 DEF Next

\* The draft stays true: of a list it shows as known it knows the stored one, and a
\* list that only the overlay holds is shown as pending.
LEMMA DraftStep == DurabilityInv /\ Next => DraftIsTrue'
<1>. SUFFICES ASSUME DurabilityInv, Next PROVE DraftIsTrue'
  OBVIOUS
<1>. USE DEF DurabilityInv, DraftIsTrue, Starting, registry, ui
<1>1. CASE ProcessEnds \/ MachineRestarts
  BY <1>1 DEF ProcessEnds, MachineRestarts, ProcessGone, NewDraft, NoPlan, NoChanges
<1>2. CASE ProcessStarts
  BY <1>2 DEF ProcessStarts
<1>3. CASE StartLoad \/ StartExclude
  BY <1>3 DEF StartLoad, StartExclude, Started, StepsAreOrdered, RegistryAgrees, NewDraft
<1>4. CASE StartCommit
  BY <1>4 DEF StartCommit, Started, PreserveCurrent, CommitList, StepsAreOrdered, NewDraft
<1>idle. pc = "idle" => ~job.attempted
  BY NewJob DEF StepsAreOrdered
<1>5. ASSUME NEW list \in Lists, EditStaging(list) PROVE DraftIsTrue'
  <2>1. /\ draft' = [draft EXCEPT !.entries = list] /\ draft.loaded
        /\ UNCHANGED <<view, disk, pc, maintained, job>>
    BY <1>5 DEF EditStaging, ChangeDraft
  <2>. QED BY <2>1 DEF DurabilityTypeOK, Drafts
<1>6. ASSUME NEW x, EditExclusions(x) \/ EditFilter(x) PROVE DraftIsTrue'
  BY <1>6 DEF EditExclusions, EditFilter
<1>7. CASE OpenPlan \/ ClosePlan
  <2>1. plan'.staging.any => draft.loaded
    BY <1>7 DEF OpenPlan, ClosePlan, NoPlan, NoChanges, Changes
  <2>. QED BY <1>7, <2>1 DEF OpenPlan, ClosePlan
<1>8. CASE DiscardPendingChanges
  BY <1>8, <1>idle DEF DiscardPendingChanges, Reloaded
<1>9. CASE Refresh
  <2>1. /\ pc = "idle" /\ UNCHANGED <<view, disk, pc, maintained, plan, job>>
        /\ \E loads \in BOOLEAN : draft' = RefreshDraft(loads)
    BY <1>9 DEF Refresh
  <2>2. CASE draft' = draft
    BY <2>1, <2>2
  <2>3. CASE draft' = Reconciled /\ ~draft.known
    <3>1. draft.loaded
      BY <2>3 DEF NewDraft
    <3>2. draft'.loaded /\ draft'.known /\ draft'.pending /\ draft'.baseline = view.list
      BY <2>3, <3>1 DEF Reconciled, DurabilityTypeOK, Drafts
    <3>. QED BY <2>1, <3>2
  <2>4. CASE draft' = Reloaded /\ draft.known /\ ~Changes(draft).any
    <3>1. ~draft.pending
      <4>1. CASE ~draft.loaded
        BY <4>1 DEF NewDraft
      <4>2. CASE draft.loaded
        BY <2>4, <4>2 DEF Changes
      <4>. QED BY <4>1, <4>2
    <3>2. draft'.loaded /\ draft'.known /\ draft'.baseline = view.list
      BY <2>4 DEF Reloaded
    <3>. QED BY <2>1, <1>idle, <3>1, <3>2
  <2>. QED BY <2>1, <2>2, <2>3, <2>4 DEF RefreshDraft
<1>10. CASE Apply
  BY <1>10, <1>idle, NewJob DEF Apply
<1>11. CASE Check
  <2>1. job' = [job EXCEPT !.attempted = TRUE] \/ job' = [job EXCEPT !.failed = TRUE]
    BY <1>11 DEF Check
  <2>2. job'.attempted \/ ~job.attempted
    BY <1>11 DEF StepsAreOrdered, Check
  <2>. QED BY <1>11, <2>2 DEF Check
<1>12. CASE WriteList \/ Commit \/ ClearCurrent \/ CommitDeletions
  <2>1. job' = job /\ job.attempted /\ draft' = draft /\ plan' = plan
    BY <1>12 DEF WriteList, Commit, ClearCurrent, CommitDeletions, StepsAreOrdered, Writing
  <2>. QED BY <2>1
<1>13. CASE Observe \/ Salvage
  <2>1. job.attempted /\ draft' = draft /\ plan' = plan
    BY <1>13 DEF Observe, Salvage, StepsAreOrdered, Writing
  <2>2. job'.attempted = job.attempted
    BY <1>13 DEF Observe, Salvage, DurabilityTypeOK, Jobs
  <2>. QED BY <2>1, <2>2
<1>14. CASE ApplyFilter \/ ApplyExclusion
  <2>1. job'.attempted = job.attempted
    BY <1>14 DEF ApplyFilter, ApplyExclusion, DurabilityTypeOK, Jobs
  <2>2. /\ pc \notin Starting /\ pc' \notin Starting
        /\ UNCHANGED <<view, disk, maintained, draft, plan>>
    BY <1>14 DEF ApplyFilter, ApplyExclusion
  <2>. QED BY <2>1, <2>2
<1>15. CASE ExclusionsDone
  BY <1>15 DEF ExclusionsDone
<1>16. CASE Publish
  <2>. DEFINE incomplete == plan.completion # {} /\ plan.completion \cap job.succeeded = {}
              failed == job.failed \/ (job.attempted /\ incomplete)
  <2>1. /\ draft' = AcceptWrite(failed) /\ pc = "publish"
        /\ maintained' = (maintained \/ (job.attempted /\ ~failed))
        /\ UNCHANGED <<view, disk>>
    BY <1>16 DEF Publish, ChangeDraft
  <2>. HIDE DEF incomplete
  <2>plan. plan'.staging = plan.staging
    BY <1>16 DEF Publish, DurabilityTypeOK, Plans
  <2>2. CASE ~job.attempted
    BY <2>1, <2>2, <2>plan DEF AcceptWrite
  <2>3. CASE job.attempted
    <3>1. /\ draft'.loaded = draft.loaded
          /\ draft'.known = (job.observed # Nothing)
          /\ draft'.baseline = IF job.observed = Nothing THEN draft.baseline ELSE job.observed
          /\ draft'.pending = failed
      BY <2>1, <2>3 DEF AcceptWrite, DurabilityTypeOK, Drafts
    <3>2. /\ job.observed \in {view.list, Nothing}
          /\ ~failed => job.observed = view.list /\ view.list = disk.list
      BY <2>1, <2>3 DEF ObservationIsTrue, Finishing
    <3>3. view.list # Nothing
      BY NothingAssumption DEF DurabilityTypeOK, Trees
    <3>4. draft.loaded
      BY <2>3 DEF StepsAreOrdered
    <3>. QED BY <2>1, <2>3, <3>1, <3>2, <3>3, <3>4, <2>plan
  <2>. QED BY <2>2, <2>3
<1>. QED BY <1>1, <1>2, <1>3, <1>4, <1>5, <1>6, <1>7, <1>8, <1>9, <1>10, <1>11, <1>12, <1>13,
            <1>14, <1>15, <1>16 DEF Next

\* What the removal of the root needs is looked at whenever the draft changes.
LEMMA ConstrainedEdits ==
  ASSUME NEW e \in Edits, NEW d
  PROVE  LET c == Constrained(e, d)
         IN c.add = e.add /\ c.remove \subseteq e.remove /\ (Root \in c.remove => ~RootRequired(d))
  BY DEF Constrained, Edits

\* The editors' changes stay within the snapshot they were made on, and the snapshot
\* is what the filter holds until a write makes it doubtful.
LEMMA EditsStep == DurabilityInv /\ Next => EditsAreTrue'
<1>. SUFFICES ASSUME DurabilityInv, Next PROVE EditsAreTrue'
  OBVIOUS
<1>. USE DEF DurabilityInv, EditsAreTrue, uwf, ui
<1>none. NoEdits.add = {} /\ NoEdits.remove = {} /\ \A d : Constrained(NoEdits, d) = NoEdits
  BY DEF NoEdits, Constrained
<1>idle. pc = "idle" => ~job.reconcile
  BY NewJob DEF StepsAreOrdered
<1>1. CASE ProcessEnds \/ MachineRestarts
  BY <1>1, <1>none DEF ProcessEnds, MachineRestarts, ProcessGone, NoSnapshot
<1>2. CASE ProcessStarts \/ StartLoad \/ StartCommit
  BY <1>2 DEF ProcessStarts, StartLoad, StartCommit
<1>3. CASE StartExclude
  BY <1>3, <1>none DEF StartExclude, StepsAreOrdered, Starting, NoSnapshot
<1>4. ASSUME NEW list \in Lists, EditStaging(list) PROVE EditsAreTrue'
  <2>1. /\ snapshot.committed /\ edits' = Constrained(edits, draft')
        /\ UNCHANGED <<snapshot, exclusions, job>>
    BY <1>4 DEF EditStaging, ChangeDraft, Editable
  <2>. QED BY <2>1, ConstrainedEdits DEF DurabilityTypeOK
<1>5. ASSUME NEW key \in Keys, EditExclusions(key) PROVE EditsAreTrue'
  <2>1. /\ snapshot.committed
        /\ UNCHANGED <<draft, snapshot, exclusions, job>>
        /\ \/ edits' = DraftAdd(edits, key, snapshot.next)
           \/ edits' = DraftRemove(edits, key, snapshot.next) /\ (key = Root => ~RootRequired(draft))
    BY <1>5 DEF EditExclusions, Editable
  <2>2. CASE edits' = DraftAdd(edits, key, snapshot.next)
    BY <2>1, <2>2 DEF DraftAdd, DurabilityTypeOK, Edits
  <2>3. CASE edits' = DraftRemove(edits, key, snapshot.next) /\ (key = Root => ~RootRequired(draft))
    BY <2>1, <2>3 DEF DraftRemove, DurabilityTypeOK, Edits
  <2>. QED BY <2>1, <2>2, <2>3
<1>6. ASSUME NEW value, EditFilter(value) PROVE EditsAreTrue'
  BY <1>6 DEF EditFilter
<1>7. CASE OpenPlan \/ ClosePlan
  BY <1>7 DEF OpenPlan, ClosePlan
<1>8. CASE DiscardPendingChanges
  <2>1. edits' = NoEdits /\ UNCHANGED <<snapshot, exclusions, job>>
    BY <1>8 DEF DiscardPendingChanges
  <2>. QED BY <2>1, <1>none
<1>9. CASE Refresh
  <2>1. UNCHANGED <<exclusions, job>>
    BY <1>9 DEF Refresh
  <2>2. \/ snapshot'.next = exclusions /\ snapshot'.committed /\ edits' = NoEdits
        \/ UNCHANGED snapshot /\ edits' = Constrained(edits, draft')
    BY <1>9 DEF Refresh
  <2>3. CASE snapshot'.next = exclusions /\ snapshot'.committed /\ edits' = NoEdits
    BY <2>1, <2>3, <1>none
  <2>4. CASE UNCHANGED snapshot /\ edits' = Constrained(edits, draft')
    BY <2>1, <2>4, <1>none, ConstrainedEdits DEF DurabilityTypeOK
  <2>. QED BY <2>2, <2>3, <2>4
<1>10. CASE Apply
  BY <1>10, <1>idle DEF Apply
<1>11. CASE Check \/ Observe \/ Salvage
  <2>1. job.reconcile => job'.reconcile
    BY <1>11 DEF Check, Observe, Salvage, DurabilityTypeOK, Jobs
  <2>. QED BY <1>11, <2>1 DEF Check, Observe, Salvage
<1>12. CASE WriteList \/ Commit \/ ClearCurrent \/ CommitDeletions \/ ExclusionsDone
  BY <1>12 DEF WriteList, Commit, ClearCurrent, CommitDeletions, ExclusionsDone
<1>13. CASE ApplyFilter
  <2>1. job.reconcile => job'.reconcile
    BY <1>13 DEF ApplyFilter, DurabilityTypeOK, Jobs
  <2>. QED BY <1>13, <2>1 DEF ApplyFilter
<1>14. CASE ApplyExclusion
  <2>1. job.reconcile \/ exclusions' # exclusions => job'.reconcile
    BY <1>14, ExclusionWritten
  <2>. QED BY <1>14, <2>1 DEF ApplyExclusion
<1>15. CASE Publish
  <2>1. edits' = Constrained(edits, draft') /\ UNCHANGED exclusions
    BY <1>15 DEF Publish, ChangeDraft
  <2>2. /\ snapshot'.committed = snapshot.committed /\ snapshot'.next = snapshot.next
        /\ snapshot'.mustRead = (snapshot.mustRead \/ job.reconcile)
    BY <1>15 DEF Publish, DurabilityTypeOK, Snapshots
  <2>3. edits \in Edits
    BY DEF DurabilityTypeOK
  <2>4. /\ edits'.add = edits.add /\ edits'.remove \subseteq edits.remove
        /\ Root \in edits'.remove => ~RootRequired(draft')
    BY <2>1, <2>3, ConstrainedEdits
  <2>5. ~snapshot.committed => edits' = NoEdits
    BY <2>1, <1>none
  <2>. QED BY <2>1, <2>2, <2>4, <2>5 DEF RootRequired
<1>. QED BY <1>1, <1>2, <1>3, <1>4, <1>5, <1>6, <1>7, <1>8, <1>9, <1>10, <1>11, <1>12, <1>13,
            <1>14, <1>15 DEF Next

\* What planConfiguration guarantees of additions, removals and the operations that
\* complete a saved list.
LEMMA PlanProtectsTheList ==
  ASSUME NEW e \in Edits, NEW next \in SUBSET Keys,
         NEW staging \in [any : BOOLEAN, before : Lists, after : Lists],
         e.add \cap next = {}, e.remove \subseteq next
  PROVE  LET p == PlanConfiguration(e, next, staging)
         IN /\ p.add \cap p.remove = {}
            /\ Root \in p.remove =>
                 IF staging.any THEN staging.after = Empty ELSE Root \in e.remove
            /\ staging.any /\ staging.after # Empty =>
                 \/ (next \ p.remove) \cap Covering # {}
                 \/ p.completion # {} /\ p.completion \subseteq {"add"} \X Covering
            /\ staging.any /\ staging.after = Empty =>
                 \/ p.completion = {<<"remove", Root>>}
                 \/ Root \in next => Root \in p.add
<1>. USE KeysAssumption DEF Edits, Covered
<1>. DEFINE p == PlanConfiguration(e, next, staging)
<1>1. CASE ~staging.any
  BY <1>1 DEF PlanConfiguration
<1>2. CASE staging.any /\ staging.after = Empty
  BY <1>2 DEF PlanConfiguration
<1>3. CASE staging.any /\ staging.after # Empty
  <2>1. p.remove = e.remove \ {Root}
    BY <1>3 DEF PlanConfiguration
  <2>2. p.add = IF ~Covered((next \ p.remove) \cup e.add) THEN e.add \cup {Root} ELSE e.add
    BY <1>3 DEF PlanConfiguration
  <2>3. CASE Covered(next \ p.remove)
    BY <1>3, <2>1, <2>2, <2>3
  <2>4. CASE ~Covered(next \ p.remove)
    <3>1. p.completion = {<<"add", key>> : key \in p.add \cap Covering}
      BY <1>3, <2>4 DEF PlanConfiguration
    <3>2. p.add \cap Covering # {}
      BY <2>2, <2>4
    <3>. HIDE DEF p
    <3>3. p.completion # {} /\ p.completion \subseteq {"add"} \X Covering
      <4>1. \A key \in p.add \cap Covering : <<"add", key>> \in p.completion
        BY <3>1
      <4>2. \A op \in p.completion : op \in {"add"} \X Covering
        BY <3>1
      <4>. QED BY <3>2, <4>1, <4>2
    <3>. QED BY <1>3, <2>1, <2>2, <3>3 DEF p
  <2>. QED BY <2>3, <2>4
<1>. QED BY <1>1, <1>2, <1>3

\* The plan in the dialog stays true while it is applied.
LEMMA PlanStep == DurabilityInv /\ Next => PlanIsTrue'
<1>. SUFFICES ASSUME DurabilityInv, Next PROVE PlanIsTrue'
  OBVIOUS
<1>. USE DEF DurabilityInv, PlanIsTrue, uwf, ui, registry
<1>noplan. NoPlan.add = {} /\ NoPlan.remove = {} /\ ~NoPlan.staging.any
  BY DEF NoPlan, NoChanges
<1>nojob. NoJob.add = {} /\ NoJob.remove = {} /\ NoJob.succeeded = {}
  BY DEF NoJob
<1>1. CASE ProcessEnds \/ MachineRestarts
  BY <1>1, <1>noplan, <1>nojob DEF ProcessEnds, MachineRestarts, ProcessGone
<1>2. CASE ProcessStarts \/ StartLoad
  BY <1>2 DEF ProcessStarts, StartLoad
<1>3. CASE StartCommit \/ StartExclude
  <2>1. plan' = NoPlan /\ job' = NoJob
    BY <1>3 DEF StartCommit, StartExclude, StepsAreOrdered, Starting
  <2>. QED BY <2>1, <1>noplan, <1>nojob
<1>4. ASSUME NEW x, EditStaging(x) \/ EditExclusions(x) \/ EditFilter(x) PROVE PlanIsTrue'
  BY <1>4 DEF EditStaging, EditExclusions, EditFilter
<1>5. CASE DiscardPendingChanges \/ Refresh
  BY <1>5 DEF DiscardPendingChanges, Refresh
<1>6. CASE OpenPlan
  <2>. DEFINE staging == Changes(draft)
              planned == PlanConfiguration(edits, snapshot.next, staging)
  <2>1. job' = NoJob /\ snapshot.next = exclusions /\ UNCHANGED <<exclusions, view>>
    <3>1. pc = "idle" /\ job = NoJob /\ ~job.reconcile
      BY <1>6, NewJob DEF OpenPlan, Editable, StepsAreOrdered
    <3>. QED BY <1>6, <3>1 DEF OpenPlan, Editable, EditsAreTrue
  <2>2. /\ plan'.staging = staging /\ plan'.add = planned.add /\ plan'.remove = planned.remove
        /\ plan'.completion = planned.completion
    BY <1>6 DEF OpenPlan
  <2>3. staging \in [any : BOOLEAN, before : Lists, after : Lists]
    BY ListsAssumption DEF Changes, NoChanges, DurabilityTypeOK, Drafts
  <2>4. Root \in edits.remove /\ ~staging.any => view.list = Empty
    <3>1. SUFFICES ASSUME Root \in edits.remove, ~staging.any PROVE view.list = Empty
      OBVIOUS
    <3>2. draft.loaded /\ draft.known /\ draft.entries = Empty
      BY <3>1 DEF EditsAreTrue, RootRequired
    <3>3. draft.baseline = Empty
      BY <3>1, <3>2 DEF Changes
    <3>4. pc = "idle" /\ ~job.attempted
      BY <1>6, NewJob DEF OpenPlan, Editable, StepsAreOrdered
    <3>. QED BY <3>2, <3>3, <3>4 DEF DraftIsTrue, Starting
  <2>. HIDE DEF staging
  <2>5. /\ planned.add \cap planned.remove = {}
        /\ Root \in planned.remove =>
             IF staging.any THEN staging.after = Empty ELSE Root \in edits.remove
        /\ staging.any /\ staging.after # Empty =>
             \/ (snapshot.next \ planned.remove) \cap Covering # {}
             \/ planned.completion # {} /\ planned.completion \subseteq {"add"} \X Covering
        /\ staging.any /\ staging.after = Empty =>
             \/ planned.completion = {<<"remove", Root>>}
             \/ Root \in snapshot.next => Root \in planned.add
    BY <2>3, PlanProtectsTheList DEF DurabilityTypeOK, Snapshots, EditsAreTrue
  <2>. HIDE DEF planned
  <2>. QED BY <2>1, <2>2, <2>4, <2>5, <1>nojob
<1>7. CASE ClosePlan
  <2>1. plan' = NoPlan /\ job' = NoJob
    BY <1>7 DEF ClosePlan, StepsAreOrdered
  <2>. QED BY <2>1, <1>noplan, <1>nojob
<1>8. CASE Apply
  <2>1. job' = NoJob \/ job' = [NoJob EXCEPT !.connected = TRUE, !.add = plan.add, !.remove = plan.remove]
    BY <1>8 DEF Apply
  <2>2. job'.add \subseteq plan.add /\ job'.remove \subseteq plan.remove /\ job'.succeeded = {}
    <3>1. CASE job' = NoJob
      BY <3>1, <1>nojob
    <3>2. CASE job' = [NoJob EXCEPT !.connected = TRUE, !.add = plan.add, !.remove = plan.remove]
      BY <3>2 DEF NoJob
    <3>. QED BY <2>1, <3>1, <3>2
  <2>. QED BY <1>8, <2>2 DEF Apply
<1>9. CASE Check \/ Observe \/ Salvage \/ ApplyFilter
  <2>1. job'.add = job.add /\ job'.remove = job.remove /\ job'.succeeded = job.succeeded
    <3>1. CASE Check
      BY <3>1 DEF Check, DurabilityTypeOK, Jobs
    <3>2. CASE Observe
      BY <3>2 DEF Observe, DurabilityTypeOK, Jobs
    <3>3. CASE Salvage
      BY <3>3, ZenonT(30) DEF Salvage, DurabilityTypeOK, Jobs
    <3>4. CASE ApplyFilter
      BY <3>4 DEF ApplyFilter, DurabilityTypeOK, Jobs
    <3>. QED BY <1>9, <3>1, <3>2, <3>3, <3>4
  <2>2. UNCHANGED <<plan, exclusions, view>>
    BY <1>9 DEF Check, Observe, Salvage, ApplyFilter
  <2>. QED BY <2>1, <2>2
<1>10. CASE WriteList \/ Commit \/ ClearCurrent \/ CommitDeletions
  <2>1. plan.staging.any /\ UNCHANGED <<plan, exclusions, job>>
    BY <1>10 DEF WriteList, Commit, ClearCurrent, CommitDeletions, StepsAreOrdered, Writing
  <2>. QED BY <2>1
<1>11. CASE ApplyExclusion
  <2>1. UNCHANGED <<plan, view>>
    BY <1>11 DEF ApplyExclusion
  <2>2. PICK key \in Keys :
              \/ /\ key \in job.add /\ job'.add = job.add \ {key} /\ job'.remove = job.remove
                 /\ exclusions' \in {exclusions, exclusions \cup {key}}
                 /\ \/ job'.succeeded = job.succeeded
                    \/ /\ job'.succeeded = job.succeeded \cup {<<"add", key>>}
                       /\ exclusions' = exclusions \cup {key}
              \/ /\ key \in job.remove /\ job'.remove = job.remove \ {key} /\ job.add = {} /\ job'.add = {}
                 /\ exclusions' \in {exclusions, exclusions \ {key}}
                 /\ \/ job'.succeeded = job.succeeded
                    \/ /\ job'.succeeded = job.succeeded \cup {<<"remove", key>>}
                       /\ exclusions' = exclusions \ {key}
    BY <1>11, ExclusionWritten
  <2>3. CASE key \in job.add
    BY <2>1, <2>2, <2>3
  <2>4. CASE key \in job.remove /\ job.add = {}
    BY <2>1, <2>2, <2>4
  <2>. QED BY <2>2, <2>3, <2>4
<1>12. CASE ExclusionsDone
  BY <1>12 DEF ExclusionsDone
<1>13. CASE Publish
  <2>1. /\ plan'.staging = plan.staging /\ plan'.add = plan.add /\ plan'.remove = plan.remove
        /\ plan'.completion = plan.completion
    BY <1>13 DEF Publish, DurabilityTypeOK, Plans
  <2>. QED BY <1>13, <2>1, <1>nojob DEF Publish
<1>. QED BY <1>1, <1>2, <1>3, <1>4, <1>5, <1>6, <1>7, <1>8, <1>9, <1>10, <1>11, <1>12, <1>13 DEF Next

-----------------------------------------------------------------------------
\* A machine on which the list has never been written satisfies the invariant.
LEMMA DurabilityInvInit == Init => DurabilityInv
<1>. SUFFICES ASSUME Init PROVE DurabilityInv
  OBVIOUS
<1>. USE ListsAssumption, KeysAssumption DEF Init
<1>1. DurabilityTypeOK
  <2>1. view \in Trees /\ disk \in Trees
    BY DEF NoTree, Trees
  <2>2. draft \in Drafts /\ edits \in Edits /\ snapshot \in Snapshots
    BY DEF NewDraft, Drafts, NoEdits, Edits, NoSnapshot, Snapshots
  <2>3. plan \in Plans
    BY DEF NoPlan, NoChanges, Plans
  <2>4. job \in Jobs
    BY DEF NoJob, Jobs
  <2>. QED BY <2>1, <2>2, <2>3, <2>4 DEF DurabilityTypeOK, Steps
<1>2. RegistryAgrees /\ PromiseIsKept
  BY DEF RegistryAgrees, PromiseIsKept, NoTree, WriteThrough
<1>3. StepsAreOrdered /\ ObservationIsTrue
  BY DEF StepsAreOrdered, ObservationIsTrue, Starting, Writing, Finishing, NoJob
<1>4. DraftIsTrue /\ EditsAreTrue
  BY DEF DraftIsTrue, EditsAreTrue, Starting, NewDraft, NoEdits, NoSnapshot, NoPlan, NoChanges
<1>5. PlanIsTrue
  BY DEF PlanIsTrue, NoPlan, NoChanges, NoJob
<1>. QED BY <1>1, <1>2, <1>3, <1>4, <1>5 DEF DurabilityInv

\* Every step keeps the invariant: of the program, of a process that dies and of a
\* machine that restarts.
LEMMA DurabilityInvStep == DurabilityInv /\ [Next]_vars => DurabilityInv'
<1>. SUFFICES ASSUME DurabilityInv, [Next]_vars PROVE DurabilityInv'
  OBVIOUS
<1>1. CASE Next
  <2>1. DurabilityTypeOK'
    BY TypeStep DEF DurabilityInv
  <2>2. RegistryAgrees' /\ PromiseIsKept' /\ StepsAreOrdered' /\ ObservationIsTrue'
    BY <1>1, RegistryStep, PromiseStep, OrderStep, ObservationStep
  <2>3. DraftIsTrue' /\ EditsAreTrue' /\ PlanIsTrue'
    BY <1>1, DraftStep, EditsStep, PlanStep
  <2>. QED BY <2>1, <2>2, <2>3 DEF DurabilityInv
<1>2. CASE UNCHANGED vars
  BY <1>2 DEF vars, registry, uwf, ui, DurabilityInv, DurabilityTypeOK, RegistryAgrees, WriteThrough,
              PromiseIsKept, StepsAreOrdered, ObservationIsTrue, DraftIsTrue, EditsAreTrue, PlanIsTrue
<1>. QED BY <1>1, <1>2

\* The invariant holds of every behaviour, for any lists, keys and covering keys.
THEOREM DurabilityInvariant == Spec => []DurabilityInv
  BY DurabilityInvInit, DurabilityInvStep, PTL DEF Spec

\* A list reported as saved is what every restart finds until the next write begins,
\* whichever call of the write failed, whenever the process died or the power went.
THEOREM SavedListIsDurable == Spec => ImplementsDurableList
<1>1. Init => Promise!Init
  BY ListsAssumption DEF Init, Promise!Init, NoTree
<1>2. DurabilityInv /\ DurabilityInv' /\ [Next]_vars => [Promise!Next]_<<disk.list, promise>>
  <2>. SUFFICES ASSUME DurabilityInv, DurabilityInv', [Next]_vars,
                       ~UNCHANGED <<disk.list, promise>>
                PROVE  Promise!Next
    OBVIOUS
  <2>. USE DEF Promise!Next, Promise!BeginWrite, Promise!Change, Promise!Report
  <2>1. disk'.list \in Lists
    BY DEF DurabilityInv, DurabilityTypeOK, Trees
  <2>2. CASE StartCommit
    <3>1. UNCHANGED promise
      BY <2>2 DEF StartCommit
    <3>2. promise = Nothing
      BY <3>1 DEF DurabilityInv, PromiseIsKept
    <3>. QED BY <2>1, <3>1, <3>2
  <2>3. CASE WriteList \/ Commit \/ ClearCurrent \/ CommitDeletions
    <3>1. promise = Nothing /\ UNCHANGED promise
      BY <2>3 DEF WriteList, Commit, ClearCurrent, CommitDeletions, DurabilityInv, StepsAreOrdered, Writing
    <3>. QED BY <2>1, <3>1
  <2>4. CASE Check
    BY <2>4 DEF Check, registry
  <2>5. CASE Publish
    <3>1. UNCHANGED disk /\ (promise' = promise \/ (promise' = job.observed /\ promise = Nothing))
      BY <2>5 DEF Publish, registry, DurabilityInv, StepsAreOrdered
    <3>2. promise' # promise => promise' = disk.list
      BY <3>1 DEF DurabilityInv, PromiseIsKept
    <3>. QED BY <3>1, <3>2
  <2>6. CASE UNCHANGED <<disk, promise>>
    BY <2>6
  <2>7. \/ StartCommit \/ WriteList \/ Commit \/ ClearCurrent \/ CommitDeletions
        \/ Check \/ Publish \/ UNCHANGED <<disk, promise>>
    BY DEF Next, vars, registry, ProcessEnds, MachineRestarts, ProcessStarts, StartLoad, StartExclude,
           EditStaging, EditExclusions, EditFilter, DiscardPendingChanges, Refresh, OpenPlan,
           ClosePlan, Apply, Observe, Salvage, ApplyFilter, ApplyExclusion, ExclusionsDone
  <2>. QED BY <2>2, <2>3, <2>4, <2>5, <2>6, <2>7
<1>. QED BY <1>1, <1>2, DurabilityInvariant, PTL DEF Spec, ImplementsDurableList, Promise!Spec, Promise!vars

\* The draft's baseline is the stored list whenever the program rests and claims to know it.
THEOREM BaselineStaysTrue == Spec => []BaselineIsTrue
<1>1. DurabilityInv => BaselineIsTrue
  BY NewJob DEF DurabilityInv, StepsAreOrdered, DraftIsTrue, Starting, BaselineIsTrue
<1>. QED BY <1>1, DurabilityInvariant, PTL

\* A list that only the overlay holds is never forgotten.
THEOREM UnsavedStaysRemembered == Spec => []UnsavedIsRemembered
<1>1. DurabilityInv => UnsavedIsRemembered
  BY NewJob DEF DurabilityInv, StepsAreOrdered, DraftIsTrue, Starting, UnsavedIsRemembered
<1>. QED BY <1>1, DurabilityInvariant, PTL

\* The exclusion of the root key is removed only after the list is gone on both sides.
THEOREM ExclusionIsLast == Spec => ExclusionOutlivesList
<1>. DEFINE Outlives == (Root \in exclusions /\ Root \notin exclusions') =>
                          (view.list = Empty /\ disk.list = Empty)
<1>1. DurabilityInv /\ [Next]_vars => [Outlives]_vars
  <2>. SUFFICES ASSUME DurabilityInv, Next, Root \in exclusions, Root \notin exclusions'
                PROVE  view.list = Empty /\ disk.list = Empty
    BY DEF vars
  <2>1. ApplyExclusion
    BY DEF Next, uwf, ProcessEnds, MachineRestarts, ProcessStarts, StartLoad, StartCommit, StartExclude,
           EditStaging, EditExclusions, EditFilter, DiscardPendingChanges, Refresh, OpenPlan,
           ClosePlan, Apply, Check, WriteList, Commit, ClearCurrent, CommitDeletions, Observe, Salvage,
           ApplyFilter, ExclusionsDone, Publish
  <2>2. Root \in plan.remove
    <3>1. Root \in job.remove
      BY <2>1, ExclusionWritten DEF DurabilityInv
    <3>. QED BY <3>1 DEF DurabilityInv, PlanIsTrue
  <2>3. CASE plan.staging.any
    BY <2>1, <2>2, <2>3 DEF ApplyExclusion, DurabilityInv, PlanIsTrue, ObservationIsTrue, Finishing
  <2>4. CASE ~plan.staging.any
    BY <2>2, <2>4 DEF DurabilityInv, PlanIsTrue, RegistryAgrees
  <2>. QED BY <2>3, <2>4
<1>. QED BY <1>1, DurabilityInvariant, PTL DEF Spec, ExclusionOutlivesList

\* An apply that reports a list as saved leaves it excluded, or without exclusion if
\* it was emptied.
THEOREM ReportedListStaysCovered == Spec => ReportedListIsCovered
<1>. DEFINE Reported == (promise = Nothing /\ promise' # Nothing) =>
                          IF promise' = Empty THEN (Root \in exclusions => Root \in plan.add)
                          ELSE Covered(exclusions)
<1>1. DurabilityInv /\ [Next]_vars => [Reported]_vars
  <2>. SUFFICES ASSUME DurabilityInv, Next, promise = Nothing, promise' # Nothing
                PROVE  IF promise' = Empty THEN (Root \in exclusions => Root \in plan.add)
                       ELSE Covered(exclusions)
    BY DEF vars
  <2>1. Publish
    BY DEF Next, ProcessEnds, MachineRestarts, ProcessStarts, StartLoad, StartCommit, StartExclude,
           EditStaging, EditExclusions, EditFilter, DiscardPendingChanges, Refresh, OpenPlan,
           ClosePlan, Apply, Check, WriteList, Commit, ClearCurrent, CommitDeletions, Observe, Salvage,
           ApplyFilter, ApplyExclusion, ExclusionsDone
  <2>2. /\ job.attempted /\ ~job.failed /\ promise' = job.observed /\ pc = "publish"
        /\ plan.completion = {} \/ plan.completion \cap job.succeeded # {}
    BY <2>1 DEF Publish
  <2>3. promise' = plan.staging.after /\ plan.staging.any
    BY <2>2 DEF DurabilityInv, StepsAreOrdered, ObservationIsTrue, Finishing
  <2>4. CASE plan.staging.after # Empty
    <3>1. CASE (exclusions \ plan.remove) \cap Covering # {}
      BY <2>3, <2>4, <3>1 DEF Covered
    <3>2. CASE plan.completion # {} /\ plan.completion \subseteq {"add"} \X Covering
      <4>1. PICK op \in plan.completion : op \in job.succeeded
        BY <2>2, <3>2
      <4>2. PICK key \in Covering : op = <<"add", key>>
        BY <3>2
      <4>3. key \in exclusions
        BY <4>1, <4>2, KeysAssumption DEF DurabilityInv, PlanIsTrue
      <4>. QED BY <2>3, <2>4, <4>2, <4>3 DEF Covered
    <3>. QED BY <2>3, <2>4, <3>1, <3>2 DEF DurabilityInv, PlanIsTrue
  <2>5. CASE plan.staging.after = Empty
    <3>1. CASE plan.completion = {<<"remove", Root>>}
      <4>1. <<"remove", Root>> \in job.succeeded
        BY <2>2, <3>1
      <4>2. Root \notin exclusions
        BY <4>1, KeysAssumption DEF DurabilityInv, PlanIsTrue
      <4>. QED BY <2>3, <2>5, <4>2
    <3>2. CASE Root \in exclusions => Root \in plan.add
      BY <2>3, <2>5, <3>2
    <3>. QED BY <2>3, <2>5, <3>1, <3>2 DEF DurabilityInv, PlanIsTrue
  <2>. QED BY <2>4, <2>5
<1>. QED BY <1>1, DurabilityInvariant, PTL DEF Spec, ReportedListIsCovered
=============================================================================
