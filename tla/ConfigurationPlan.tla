------------------------- MODULE ConfigurationPlan -------------------------
(***************************************************************************)
(* planConfiguration and the draft of one exclusion list, as operators.    *)
(* The plan the user reviews is also what is executed: it joins the edits  *)
(* of the registry exclusions with the edits of the file staging list, and *)
(* names the operations without which a saved list is not complete.        *)
(***************************************************************************)
EXTENDS FiniteSets

CONSTANTS
  Lists,     \* the staging lists, as sets of entries told apart by sameEntries
  Empty,     \* the empty list
  Keys,      \* registry keys that can be excluded
  Covering,  \* those that contain kFileStagingRegistryRoot (paths::contains)
  Root       \* kFileStagingRegistryRoot itself

ASSUME ListsAssumption == Empty \in Lists
ASSUME KeysAssumption == Covering \subseteq Keys /\ Root \in Covering

Covered(exclusions) == exclusions \cap Covering # {}

\* FileStagingChanges, or their absence
NoChanges == [any |-> FALSE, before |-> Empty, after |-> Empty]

\* The edits of an exclusion list.
NoEdits == [add |-> {}, remove |-> {}]

DraftAdd(edits, key, next) ==
  IF key \in edits.remove THEN [edits EXCEPT !.remove = @ \ {key}]
  ELSE IF key \in next THEN edits
  ELSE [edits EXCEPT !.add = @ \cup {key}]

DraftRemove(edits, key, next) ==
  IF key \in edits.add THEN [edits EXCEPT !.add = @ \ {key}]
  ELSE IF key \notin next THEN edits
  ELSE [edits EXCEPT !.remove = @ \cup {key}]

\* Variant: removals of this very plan are not subtracted before the plan asks
\* whether the list is already covered.
PlanConfigurationIgnoringRemovals(edits, next, staging) ==
  LET clearing == staging.any /\ staging.after = Empty
      saving == staging.any /\ ~clearing
      dropped == IF saving THEN edits.remove \ {Root} ELSE edits.remove
      impliedRemoval == clearing /\ Root \in next /\ Root \notin edits.add
      removals == IF impliedRemoval THEN dropped \cup {Root} ELSE dropped
      additions == IF saving /\ ~Covered(next \cup edits.add)
                   THEN edits.add \cup {Root} ELSE edits.add
  IN [add |-> additions,
      remove |-> removals,
      completion |->
        CASE clearing /\ Root \in next \cap removals -> {<<"remove", Root>>}
          [] saving /\ ~Covered(next) -> {<<"add", key>> : key \in additions \cap Covering}
          [] OTHER -> {}]

\* What the plan adds, removes, and the alternatives one of which must succeed
\* for the saved list to be complete (stagingCompletionAlternatives).
PlanConfiguration(edits, next, staging) ==
  LET clearing == staging.any /\ staging.after = Empty
      saving == staging.any /\ ~clearing
      dropped == IF saving THEN edits.remove \ {Root} ELSE edits.remove
      retained == next \ dropped
      impliedRemoval == clearing /\ Root \in next /\ Root \notin edits.add
      removals == IF impliedRemoval THEN dropped \cup {Root} ELSE dropped
      additions == IF saving /\ ~Covered(retained \cup edits.add)
                   THEN edits.add \cup {Root} ELSE edits.add
  IN [add |-> additions,
      remove |-> removals,
      completion |->
        CASE clearing /\ Root \in next \cap removals -> {<<"remove", Root>>}
          [] saving /\ ~Covered(retained) -> {<<"add", key>> : key \in additions \cap Covering}
          [] OTHER -> {}]
=============================================================================
