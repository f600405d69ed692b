----------------------- MODULE ConfigurationExecutor -----------------------
(***************************************************************************)
(* Applying a configuration plan (executePlan): the draft the user edits   *)
(* over a snapshot, the plan dialog, the ordered writes with their         *)
(* prerequisites, and the journal that decides whether the same plan may   *)
(* be applied again or the system has to be read first.  Every provider    *)
(* call may fail, with or without effect, and another tool registers and   *)
(* removes volumes meanwhile.  The staging list and the registry           *)
(* exclusions, which come first and last in the same function, are in      *)
(* FileStagingDurability.                                                  *)
(***************************************************************************)
EXTENDS OverlayWritePlan

CONSTANTS
  Edited,    \* bound: the overlay settings that vary, of Fields
  Switches,  \* of {"filter", "domain", "license"}: the global settings that are on or off
  Volumes    \* drive letters, each with one path that can be excluded

ASSUME SwitchesAssumption ==
  Edited \subseteq Fields /\ Switches \subseteq {"filter", "domain", "license"}

VARIABLES
  system,    \* the provider's next-session configuration
  filterOn,  \* the filter is enabled in the current session
  draft,     \* the editors' target
  snapshot,  \* the committed application state
  plan,      \* the plan in the open dialog
  run,       \* the apply on its way
  journal    \* ApplyJournal

vars == <<system, filterOn, draft, snapshot, plan, run, journal>>
ui == <<draft, snapshot, plan>>

\* Settings that are on or off: the global ones and, per volume, protection,
\* binding and the exclusion.
Facts == {<<name>> : name \in Switches} \cup ({"protect", "bind", "exclude"} \X Volumes)
VolumeFacts(v) == {"protect", "bind", "exclude"} \X {v}

Configurations == [overlay : Overlays, on : SUBSET Facts, registered : SUBSET Volumes]

\* A legal configuration; only a registered volume has settings.
Possible(c) ==
  /\ Legal(c.overlay)
  /\ \A v \in Volumes \ c.registered : c.on \cap VolumeFacts(v) = {}

\* The settings that do not vary.
Default == [type |-> "RAM", size |-> 0, warning |-> 0, critical |-> 0]

NoDraft(base) == [overlay |-> base.overlay, toggles |-> {}]
NoPlan == [open |-> FALSE]
NoRun == [pc |-> "idle", writing |-> FALSE, todo |-> <<>>, previous |-> TRUE,
          rows |-> {}, lost |-> {}, done |-> {}]
NoJournal == [connected |-> FALSE, reconcile |-> FALSE, written |-> FALSE]

Snapshots == [state : Configurations, mustRead : BOOLEAN, stale : BOOLEAN]
Plans == [open : {TRUE}, base : Configurations, target : Overlays, changed : SUBSET Fields,
          toggles : SUBSET Facts, stale : BOOLEAN, canApply : BOOLEAN]
Sections == {"idle", "filter", "thresholds", "storage", "volumes", "registry", "publish"}
Runs == [pc : Sections, writing : BOOLEAN, todo : Seq(Writes), previous : BOOLEAN,
         rows : SUBSET Volumes, lost : SUBSET Volumes, done : SUBSET Facts]

ExecutorTypeOK ==
  /\ system \in Configurations /\ filterOn \in BOOLEAN
  /\ draft \in [overlay : Overlays, toggles : SUBSET Facts]
  /\ snapshot \in Snapshots
  /\ plan \in Plans \cup {NoPlan}
  /\ run \in Runs
  /\ journal \in [connected : BOOLEAN, reconcile : BOOLEAN, written : BOOLEAN]

Init ==
  /\ system \in {c \in Configurations : Possible(c)}
  /\ \A field \in Fields \ Edited : system.overlay[field] = Default[field]
  /\ filterOn \in BOOLEAN
  /\ snapshot = [state |-> system, mustRead |-> FALSE, stale |-> FALSE]
  /\ draft = NoDraft(system)
  /\ plan = NoPlan /\ run = NoRun /\ journal = NoJournal

-----------------------------------------------------------------------------
(***************************************************************************)
(* The editors and the plan dialog.                                        *)
(***************************************************************************)

Editable == run.pc = "idle" /\ ~plan.open /\ ~snapshot.mustRead

SetOverlay(o) ==
  /\ draft' = [draft EXCEPT !.overlay = Normalize(o, snapshot.state.overlay)]
  /\ UNCHANGED <<system, filterOn, snapshot, plan, run, journal>>

\* What the controls and the imported commands can ask for.
Values(field) == IF field = "type" THEN {"RAM", "Disk"} ELSE 0..EditorMaximum

EditOverlay ==
  /\ Editable
  /\ \E field \in Edited : \E value \in Values(field) :
       SetOverlay([draft.overlay EXCEPT ![field] = value])

\* Imported commands set any of the settings first, and only then normalize.
ImportOverlay ==
  /\ Editable
  /\ LET kept(field) == {draft.overlay[field]} \cup IF field \in Edited THEN Values(field) ELSE {}
     IN \E type \in kept("type"), size \in kept("size"), warning \in kept("warning"),
           critical \in kept("critical") :
          SetOverlay([type |-> type, size |-> size, warning |-> warning, critical |-> critical])

\* The settings of a volume and the switches; an exclusion can only be removed
\* where the snapshot has one.
EditFact(fact) ==
  /\ Editable
  /\ draft' = [draft EXCEPT !.toggles = IF fact \in @ THEN @ \ {fact} ELSE @ \cup {fact}]
  /\ UNCHANGED <<system, filterOn, snapshot, plan, run, journal>>

\* A read of the system commits a new snapshot and resets the editors; it may
\* happen under the open dialog.
Refresh ==
  /\ run.pc = "idle"
  /\ snapshot' = [state |-> system, mustRead |-> FALSE, stale |-> FALSE]
  /\ draft' = NoDraft(system)
  /\ UNCHANGED <<system, filterOn, plan, run, journal>>

OpenPlan ==
  /\ Editable
  /\ LET changed == ChangedFields(draft.overlay, snapshot.state.overlay)
     IN plan' = [open |-> TRUE, base |-> snapshot.state, target |-> draft.overlay,
                 changed |-> changed, toggles |-> draft.toggles, stale |-> snapshot.stale,
                 canApply |-> changed # {} \/ draft.toggles # {}]
  /\ UNCHANGED <<system, filterOn, draft, snapshot, run, journal>>

ClosePlan ==
  /\ run.pc = "idle" /\ plan.open
  /\ plan' = NoPlan
  /\ UNCHANGED <<system, filterOn, draft, snapshot, run, journal>>

-----------------------------------------------------------------------------
(***************************************************************************)
(* Provider calls and the journal.                                         *)
(***************************************************************************)

\* invokeAndConfirm: the reread confirms the write, or its outcome is uncertain,
\* or the provider refused it.
Outcomes == {[effect |-> TRUE, result |-> "confirmed"], [effect |-> TRUE, result |-> "uncertain"],
             [effect |-> FALSE, result |-> "uncertain"], [effect |-> FALSE, result |-> "none"]}

\* Variant: a write whose outcome is uncertain does not ask for a reread.
NotedConfirmedOnly(result) ==
  journal' = [journal EXCEPT !.reconcile = @ \/ result = "confirmed",
                             !.written = @ \/ result = "confirmed"]

\* execute and recordError
Noted(result) ==
  journal' = [journal EXCEPT !.reconcile = @ \/ result # "none",
                             !.written = @ \/ result = "confirmed"]

\* The system now differs from what the snapshot and the plan were made from.
System(configuration) ==
  /\ system' = configuration
  /\ LET changes == configuration # system
     IN /\ snapshot' = [snapshot EXCEPT !.stale = @ \/ changes]
        /\ plan' = [plan EXCEPT !.stale = @ \/ changes]

NoWrite == UNCHANGED <<system, snapshot, plan>>

SetFacts(facts) ==
  [system EXCEPT !.on = (@ \ facts) \cup {fact \in facts : fact \notin plan.base.on}]

Goto(pc) == run' = [NoRun EXCEPT !.pc = pc]

-----------------------------------------------------------------------------
(***************************************************************************)
(* executePlan, section by section.                                        *)
(***************************************************************************)

\* No session for the worker, no connection, or the first section.
Apply ==
  /\ run.pc = "idle" /\ plan.open /\ plan.canApply /\ ~snapshot.mustRead
  /\ \/ \E reconcile \in BOOLEAN :
          journal' = [NoJournal EXCEPT !.reconcile = reconcile] /\ Goto("publish")
     \/ journal' = [NoJournal EXCEPT !.connected = TRUE] /\ Goto("filter")
  /\ UNCHANGED <<system, filterOn, ui>>

ApplyFilter ==
  /\ run.pc = "filter"
  /\ \/ NoWrite /\ UNCHANGED journal
     \/ /\ <<"filter">> \in plan.toggles
        /\ \E outcome \in Outcomes :
             /\ System(IF outcome.effect THEN SetFacts({<<"filter">>}) ELSE system)
             /\ Noted(outcome.result)
  /\ Goto("thresholds")
  /\ UNCHANGED <<filterOn, draft>>

\* Two sections read the overlay and plan their writes from what they have read.
PlanWrites(section, fields, next) ==
  /\ run.pc = section /\ ~run.writing
  /\ \/ Goto(next)
     \/ /\ fields \cap plan.changed # {}
        /\ section = "storage" => ~filterOn
        /\ run' = [run EXCEPT !.writing = TRUE,
                              !.todo = PlanOverlayWrites(system.overlay, plan.target,
                                                         fields \cap plan.changed)]
  /\ UNCHANGED <<system, filterOn, ui, journal>>

\* The executor's own check of a size, whatever the editor has let through.
SizeRefused(step) ==
  /\ step.field = "size"
  /\ (IF "type" \in plan.changed THEN plan.target.type ELSE system.overlay.type) = "Disk"
  /\ plan.target.size < DiskMinimum

WriteOverlay(section, next) ==
  /\ run.pc = section /\ run.writing
  /\ \/ /\ run.todo = <<>>
        /\ Goto(next) /\ NoWrite /\ UNCHANGED journal
     \/ /\ run.todo # <<>>
        /\ LET step == Head(run.todo)
               ready == ~step.requiresPrevious \/ run.previous
           IN IF ~ready \/ SizeRefused(step)
              THEN /\ run' = [run EXCEPT !.todo = Tail(@), !.previous = FALSE]
                   /\ NoWrite /\ UNCHANGED journal
              ELSE \E outcome \in Outcomes :
                     /\ System(IF outcome.effect
                               THEN [system EXCEPT !.overlay[step.field] = plan.target[step.field]]
                               ELSE system)
                     /\ Noted(outcome.result)
                     /\ run' = [run EXCEPT !.todo = Tail(@),
                                           !.previous = (outcome.result = "confirmed")]
  /\ UNCHANGED <<filterOn, draft>>

PlanThresholds == PlanWrites("thresholds", {"warning", "critical"}, "storage")
WriteThresholds == WriteOverlay("thresholds", "storage")
PlanStorage == PlanWrites("storage", {"type", "size"}, "volumes")
WriteStorage == WriteOverlay("storage", "volumes")

\* The volumes' operations in order: protection, binding, added and then removed
\* exclusions.
VolumePhase(fact) ==
  CASE fact[1] = "protect" -> 1
    [] fact[1] = "bind" -> 2
    [] fact[1] = "exclude" /\ fact \notin plan.base.on -> 3
    [] OTHER -> 4

VolumeToggles == plan.toggles \cap ({"protect", "bind", "exclude"} \X Volumes)

ReadVolumes ==
  /\ run.pc = "volumes" /\ ~run.writing
  /\ \/ Goto("registry")
     \/ /\ VolumeToggles # {}
        /\ run' = [run EXCEPT !.writing = TRUE, !.rows = system.registered]
  /\ UNCHANGED <<system, filterOn, ui, journal>>

NextVolumeFact(fact) ==
  /\ run.pc = "volumes" /\ run.writing
  /\ fact \in VolumeToggles \ run.done
  /\ \A other \in VolumeToggles \ run.done : VolumePhase(fact) <= VolumePhase(other)

Done(fact) == run.done \cup {fact}

\* getOrCreateNextVolume: ensureNextSessionEntry reads again, and creates the
\* entry unless it is there by now.  A failure is not retried in this batch.
RegisterVolume(fact) ==
  /\ NextVolumeFact(fact)
  /\ LET v == fact[2]
     IN /\ VolumePhase(fact) # 4 /\ v \notin run.rows \cup run.lost
        /\ \/ /\ v \in system.registered
              /\ run' = [run EXCEPT !.rows = @ \cup {v}]
              /\ journal' = [journal EXCEPT !.reconcile = TRUE]
              /\ NoWrite
           \/ \E outcome \in Outcomes :
                /\ v \in system.registered => ~outcome.effect
                /\ System(IF outcome.effect
                          THEN [system EXCEPT !.registered = @ \cup {v}] ELSE system)
                /\ Noted(outcome.result)
                /\ run' = IF outcome.result = "confirmed"
                          THEN [run EXCEPT !.rows = @ \cup {v}] ELSE [run EXCEPT !.lost = @ \cup {v}]
  /\ UNCHANGED <<filterOn, draft>>

WriteVolume(fact) ==
  /\ NextVolumeFact(fact)
  /\ fact[2] \in run.rows
  /\ \E outcome \in Outcomes :
       /\ outcome.effect => fact[2] \in system.registered
       /\ System(IF outcome.effect THEN SetFacts({fact}) ELSE system)
       /\ Noted(outcome.result)
  /\ run' = [run EXCEPT !.done = Done(fact)]
  /\ UNCHANGED <<filterOn, draft>>

\* The volume could not be registered; or the exclusion to be removed has gone
\* with its volume, which only asks for a reread.
SkipVolume(fact) ==
  /\ NextVolumeFact(fact)
  /\ fact[2] \notin run.rows
  /\ \/ VolumePhase(fact) # 4 /\ fact[2] \in run.lost /\ UNCHANGED journal
     \/ VolumePhase(fact) = 4 /\ journal' = [journal EXCEPT !.reconcile = TRUE]
  /\ run' = [run EXCEPT !.done = Done(fact)]
  /\ UNCHANGED <<system, filterOn, ui>>

VolumesDone ==
  /\ run.pc = "volumes" /\ run.writing /\ VolumeToggles \subseteq run.done
  /\ Goto("registry")
  /\ UNCHANGED <<system, filterOn, ui, journal>>

\* One write covers both persistence switches.
ApplyPersistence ==
  /\ run.pc = "registry"
  /\ LET facts == plan.toggles \cap {<<"domain">>, <<"license">>}
     IN \/ NoWrite /\ UNCHANGED journal
        \/ /\ facts # {}
           /\ \E outcome \in Outcomes :
                /\ System(IF outcome.effect THEN SetFacts(facts) ELSE system)
                /\ Noted(outcome.result)
  /\ Goto("publish")
  /\ UNCHANGED <<filterOn, draft>>

\* Variant: a result with a failure in it may always be applied again.
RepeatableWhenFailed(j) == ~j.written

\* publishResult: m_canApply
Repeatable(j) == ~j.connected \/ ~j.reconcile

Publish ==
  /\ run.pc = "publish"
  /\ plan' = [plan EXCEPT !.canApply = Repeatable(journal)]
  /\ snapshot' = [snapshot EXCEPT !.mustRead = @ \/ journal.reconcile]
  /\ run' = NoRun /\ journal' = NoJournal
  /\ UNCHANGED <<system, filterOn, draft>>

\* Another tool (uwfmgr, a second administrator) adds or removes a volume's entry;
\* what it did before the volumes are read is seen by that read.
OtherTool(v) ==
  /\ run.pc = "volumes"
  /\ system' = IF v \in system.registered
               THEN [system EXCEPT !.registered = @ \ {v}, !.on = @ \ VolumeFacts(v)]
               ELSE [system EXCEPT !.registered = @ \cup {v}]
  /\ UNCHANGED <<filterOn, ui, run, journal>>

Next ==
  \/ EditOverlay \/ ImportOverlay \/ \E fact \in Facts : EditFact(fact)
  \/ Refresh \/ OpenPlan \/ ClosePlan
  \/ Apply \/ ApplyFilter \/ PlanThresholds \/ WriteThresholds \/ PlanStorage \/ WriteStorage
  \/ ReadVolumes
  \/ \E fact \in Facts : RegisterVolume(fact) \/ WriteVolume(fact) \/ SkipVolume(fact)
  \/ VolumesDone \/ ApplyPersistence \/ Publish
  \/ \E v \in Volumes : OtherTool(v)

Spec == Init /\ [][Next]_vars

-----------------------------------------------------------------------------
(***************************************************************************)
(* Properties.                                                             *)
(***************************************************************************)

\* Whatever is edited or imported, and whichever of the writes fails, is skipped
\* or has an uncertain outcome, the provider never holds a warning threshold at
\* or above the critical one, nor a disk overlay below its minimum size.
OverlayStaysLegal == Legal(system.overlay)

\* A plan the dialog lets the user apply is made from the configuration the
\* provider still holds, as far as this program has written it: the plan is not
\* applied a second time over its own, possibly unconfirmed, writes.
RetryIsSafe == run.pc = "idle" /\ plan.open /\ plan.canApply => ~plan.stale

\* The same of the editors: they stand on a snapshot this program's own writes
\* have overtaken only while a reread is demanded.
EditorsAreCurrent == Editable => ~snapshot.stale
=============================================================================
