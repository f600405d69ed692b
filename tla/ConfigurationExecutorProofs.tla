-------------------- MODULE ConfigurationExecutorProofs --------------------
(***************************************************************************)
(* The overlay stays legal, and no plan is applied twice over its own      *)
(* writes, for every set of volumes and switches and all sizes.            *)
(*                                                                         *)
(* The inductive invariant has two halves that need each other.  A plan is *)
(* applied only over the configuration it was made from, so the settings   *)
(* it does not change have their target's values while it runs; with that, *)
(* planOverlayWrites gives an order in which every prefix that can be      *)
(* written, with any of the writes failed, is legal.  And every write that *)
(* may have had an effect is in the journal before anybody can apply again.*)
(***************************************************************************)
EXTENDS ConfigurationExecutor, SequenceTheorems, TLAPS

After(o, target, w) == [o EXCEPT ![w.field] = target[w.field]]

\* Whatever becomes of each write in todo, the overlay o stays legal.  The second
\* of two writes happens only after the first was confirmed if it asks for that.
SafeWrites(o, target, changed, todo, previous) ==
  \/ todo = <<>>
  \/ \E w \in Writes :
       /\ todo = <<w>> /\ w.field \in changed
       /\ (w.requiresPrevious => previous) => Legal(After(o, target, w))
  \/ \E w, x \in Writes :
       /\ todo = <<w, x>> /\ w.field \in changed /\ x.field \in changed
       /\ Legal(After(o, target, w))
       /\ Legal(After(After(o, target, w), target, x))
       /\ x.requiresPrevious \/ Legal(After(o, target, x))

\* A plan is open as long as it runs, and its target is legal; so is what the
\* editors and the next plan start from.
PlanIsLegal ==
  /\ run.pc # "idle" => plan.open
  /\ plan.open => /\ Legal(plan.target)
                  /\ plan.changed = ChangedFields(plan.target, plan.base.overlay)
  /\ Legal(draft.overlay) /\ Legal(snapshot.state.overlay)

\* Only this program writes the overlay, and it marks what it has overtaken.
StaleIsMarked ==
  /\ ~snapshot.stale => system.overlay = snapshot.state.overlay
  /\ plan.open /\ ~plan.stale => system.overlay = plan.base.overlay

\* The journal of a run knows of every write that may have had an effect, and
\* what publishResult makes of it stands until the next run.
JournalIsTrue ==
  IF run.pc = "idle"
  THEN /\ snapshot.stale => snapshot.mustRead
       /\ plan.open /\ plan.stale => ~plan.canApply
  ELSE /\ run.pc # "publish" => journal.connected
       /\ plan.stale \/ snapshot.stale => journal.connected /\ journal.reconcile

\* What the plan does not change has its target's value while the plan runs.
UntouchedIsKept ==
  run.pc # "idle" =>
    \A field \in Fields \ plan.changed : system.overlay[field] = plan.target[field]

WritesAreSafe ==
  run.todo # <<>> =>
    /\ run.pc # "idle"
    /\ SafeWrites(system.overlay, plan.target, plan.changed, run.todo, run.previous)

ExecutorInv ==
  /\ ExecutorTypeOK
  /\ PlanIsLegal
  /\ StaleIsMarked
  /\ JournalIsTrue
  /\ UntouchedIsKept
  /\ WritesAreSafe
  /\ OverlayStaysLegal

-----------------------------------------------------------------------------

\* normalize keeps a draft over a legal baseline legal, whatever was entered.
LEMMA NormalizeIsLegal ==
  ASSUME NEW o \in Overlays, NEW base \in Overlays, Legal(base)
  PROVE  Normalize(o, base) \in Overlays /\ Legal(Normalize(o, base))
<1> DEFINE size == IF o.type # base.type \/ o.size # base.size
                   THEN Clamp(o.size, SizeMinimum(o.type), SizeMaximum(o.type)) ELSE o.size
           warning == IF o.warning # base.warning \/ o.critical # base.critical
                      THEN Clamp(o.warning, 0, WarningThresholdMaximum(o.critical)) ELSE o.warning
           n == [o EXCEPT !.size = size, !.warning = warning]
<1>1. Normalize(o, base) = n
  BY Zenon DEF Normalize
<1>2. size \in 0..MaximumMb /\ (o.type = "Disk" => size >= DiskMinimum)
  BY SizesAssumption
  DEF Clamp, Lower, Upper, SizeMinimum, SizeMaximum, Overlays, Legal, LegalStorage
<1>3. warning \in 0..MaximumMb /\ (warning = 0 \/ o.critical = 0 \/ warning < o.critical)
  BY SizesAssumption
  DEF Clamp, Lower, Upper, WarningThresholdMaximum, Overlays, Legal, LegalThresholds
<1> HIDE DEF size, warning
<1>4. /\ n \in Overlays /\ n.type = o.type /\ n.size = size
      /\ n.warning = warning /\ n.critical = o.critical
  BY <1>2, <1>3 DEF Overlays
<1>5. Legal(n)
  BY <1>2, <1>3, <1>4 DEF Legal, LegalStorage, LegalThresholds
<1> QED BY <1>1, <1>4, <1>5

\* One write of one of the settings.
LEMMA AfterIs ==
  ASSUME NEW o \in Overlays, NEW t \in Overlays, NEW w \in Writes
  PROVE  /\ After(o, t, w) \in Overlays
         /\ \A field \in Fields :
              After(o, t, w)[field] = IF field = w.field THEN t[field] ELSE o[field]
         /\ After(o, t, w).type = IF w.field = "type" THEN t.type ELSE o.type
         /\ After(o, t, w).size = IF w.field = "size" THEN t.size ELSE o.size
         /\ After(o, t, w).warning = IF w.field = "warning" THEN t.warning ELSE o.warning
         /\ After(o, t, w).critical = IF w.field = "critical" THEN t.critical ELSE o.critical
<1>1. w.field \in Fields
  BY DEF Writes
<1>2. CASE w.field = "type"
  BY <1>2 DEF After, Overlays, Fields
<1>3. CASE w.field = "size"
  BY <1>3 DEF After, Overlays, Fields
<1>4. CASE w.field = "warning"
  BY <1>4 DEF After, Overlays, Fields
<1>5. CASE w.field = "critical"
  BY <1>5 DEF After, Overlays, Fields
<1> QED BY <1>1, <1>2, <1>3, <1>4, <1>5 DEF Fields

LEMMA LegalAfter ==
  ASSUME NEW o \in Overlays, NEW t \in Overlays, NEW w \in Writes
  PROVE  /\ w.field = "type" =>
              (Legal(After(o, t, w)) <=> /\ LegalThresholds(o)
                                         /\ t.type = "Disk" => o.size >= DiskMinimum)
         /\ w.field = "size" =>
              (Legal(After(o, t, w)) <=> /\ LegalThresholds(o)
                                         /\ o.type = "Disk" => t.size >= DiskMinimum)
         /\ w.field = "warning" =>
              (Legal(After(o, t, w)) <=>
                 /\ LegalStorage(o)
                 /\ t.warning = 0 \/ o.critical = 0 \/ t.warning < o.critical)
         /\ w.field = "critical" =>
              (Legal(After(o, t, w)) <=>
                 /\ LegalStorage(o)
                 /\ o.warning = 0 \/ t.critical = 0 \/ o.warning < t.critical)
<1> DEFINE a == After(o, t, w)
<1>1. /\ a.type = IF w.field = "type" THEN t.type ELSE o.type
      /\ a.size = IF w.field = "size" THEN t.size ELSE o.size
      /\ a.warning = IF w.field = "warning" THEN t.warning ELSE o.warning
      /\ a.critical = IF w.field = "critical" THEN t.critical ELSE o.critical
  BY AfterIs
<1> HIDE DEF a
<1>2. Legal(a) <=> /\ a.warning = 0 \/ a.critical = 0 \/ a.warning < a.critical
                   /\ a.type = "Disk" => a.size >= DiskMinimum
  BY DEF Legal, LegalThresholds, LegalStorage
<1> QED BY <1>1, <1>2 DEF LegalThresholds, LegalStorage, a

\* The second of two writes of the same pair brings both to the target.
LEMMA LegalAfterBoth ==
  ASSUME NEW o \in Overlays, NEW t \in Overlays, NEW w \in Writes, NEW x \in Writes,
         Legal(o), Legal(t),
         {w.field, x.field} \in {{"type", "size"}, {"warning", "critical"}}
  PROVE  Legal(After(After(o, t, w), t, x))
<1> DEFINE a == After(o, t, w)
<1>1. /\ a \in Overlays
      /\ a.type = IF w.field = "type" THEN t.type ELSE o.type
      /\ a.size = IF w.field = "size" THEN t.size ELSE o.size
      /\ a.warning = IF w.field = "warning" THEN t.warning ELSE o.warning
      /\ a.critical = IF w.field = "critical" THEN t.critical ELSE o.critical
  BY AfterIs
<1> HIDE DEF a
<1>2. \/ x.field = "type" /\ w.field = "size"
      \/ x.field = "size" /\ w.field = "type"
      \/ x.field = "warning" /\ w.field = "critical"
      \/ x.field = "critical" /\ w.field = "warning"
  OBVIOUS
<1>3. Legal(After(a, t, x))
  BY <1>1, <1>2, LegalAfter DEF Legal, LegalThresholds, LegalStorage
<1> QED BY <1>3 DEF a

\* planOverlayWrites orders the thresholds safely over any legal overlay.
LEMMA ThresholdsAreSafe ==
  ASSUME NEW o \in Overlays, NEW t \in Overlays, NEW changed \in SUBSET Fields,
         NEW previous,
         Legal(o), Legal(t), changed \cap {"warning", "critical"} # {},
         \A field \in Fields \ changed : o[field] = t[field]
  PROVE  LET todo == PlanOverlayWrites(o, t, {"warning", "critical"} \cap changed)
         IN todo \in Seq(Writes) /\ SafeWrites(o, t, changed, todo, previous)
<1> DEFINE c == {"warning", "critical"} \cap changed
           todo == PlanOverlayWrites(o, t, c)
           first == /\ t.warning # 0
                    /\ \/ o.critical # 0 /\ t.warning >= o.critical
                       \/ o.critical = 0 /\ t.critical > o.warning
<1>0. /\ o.warning \in Nat /\ o.critical \in Nat /\ t.warning \in Nat /\ t.critical \in Nat
      /\ "warning" \in changed \/ o.warning = t.warning
      /\ "critical" \in changed \/ o.critical = t.critical
  BY SizesAssumption DEF Overlays, Fields
<1>1. todo = IF {"warning", "critical"} \subseteq c
             THEN IF first THEN <<Write("critical", FALSE), Write("warning", TRUE)>>
                  ELSE <<Write("warning", FALSE), Write("critical", t.critical <= o.warning)>>
             ELSE IF "warning" \in c THEN <<Write("warning", FALSE)>>
             ELSE IF "critical" \in c THEN <<Write("critical", FALSE)>> ELSE <<>>
  <2>1. ~({"type", "size"} \subseteq c) /\ "type" \notin c /\ "size" \notin c
    OBVIOUS
  <2>2. \A w, x : <<>> \o <<w>> = <<w>> /\ <<>> \o <<w, x>> = <<w, x>> /\ <<>> \o <<>> = <<>>
    OBVIOUS
  <2> HIDE DEF c
  <2>3. CASE {"warning", "critical"} \subseteq c
    <3>1. CASE first
      BY <2>1, <2>2, <2>3, <3>1, Zenon DEF PlanOverlayWrites
    <3>2. CASE ~first
      BY <2>1, <2>2, <2>3, <3>2, Zenon DEF PlanOverlayWrites
    <3> QED BY <3>1, <3>2
  <2>4. CASE ~({"warning", "critical"} \subseteq c)
    BY <2>1, <2>2, <2>4, Zenon DEF PlanOverlayWrites
  <2> QED BY <2>3, <2>4
<1>2. \A r \in BOOLEAN : /\ Write("critical", r) \in Writes /\ Write("warning", r) \in Writes
                         /\ Write("critical", r).field = "critical"
                         /\ Write("warning", r).field = "warning"
                         /\ Write("critical", r).requiresPrevious = r
                         /\ Write("warning", r).requiresPrevious = r
  BY DEF Write, Writes, Fields
<1> HIDE DEF todo
<1>3. ASSUME NEW w \in Writes, NEW x \in Writes, todo = <<w, x>>,
             {w.field, x.field} = {"warning", "critical"}, {"warning", "critical"} \subseteq c,
             w.field = "critical" => first /\ x.requiresPrevious,
             w.field = "warning" => ~first /\ (x.requiresPrevious <=> t.critical <= o.warning)
      PROVE  todo \in Seq(Writes) /\ SafeWrites(o, t, changed, todo, previous)
  <2>1. \/ w.field = "critical" /\ x.field = "warning"
        \/ w.field = "warning" /\ x.field = "critical"
    BY <1>3
  <2>2. Legal(After(o, t, w))
    <3>1. CASE w.field = "critical"
      <4>1. o.warning = 0 \/ t.critical = 0 \/ o.warning < t.critical
        BY <1>0, <1>3, <3>1 DEF Legal, LegalThresholds
      <4> QED BY <3>1, <4>1, LegalAfter DEF Legal
    <3>2. CASE w.field = "warning"
      <4>1. ~first
        BY <1>3, <3>2, Zenon
      <4>2. t.warning = 0 \/ o.critical = 0 \/ t.warning < o.critical
        BY <1>0, <4>1
      <4> QED BY <3>2, <4>2, LegalAfter DEF Legal
    <3> QED BY <2>1, <3>1, <3>2
  <2>3. Legal(After(After(o, t, w), t, x))
    BY <1>3, LegalAfterBoth
  <2>4. x.requiresPrevious \/ Legal(After(o, t, x))
    BY <1>0, <1>3, <2>1, LegalAfter DEF Legal, LegalThresholds
  <2>5. w.field \in changed /\ x.field \in changed
    BY <1>3, <2>1
  <2>6. todo \in Seq(Writes)
    BY <1>3
  <2> QED BY <1>3, <2>2, <2>3, <2>4, <2>5, <2>6 DEF SafeWrites
<1>4. ASSUME NEW w \in Writes, todo = <<w>>, c = {w.field}
      PROVE  todo \in Seq(Writes) /\ SafeWrites(o, t, changed, todo, previous)
  <2>1. \/ w.field = "critical" /\ o.warning = t.warning
        \/ w.field = "warning" /\ o.critical = t.critical
    BY <1>0, <1>4
  <2>2. Legal(After(o, t, w))
    BY <1>0, <2>1, LegalAfter DEF Legal, LegalThresholds
  <2> QED BY <1>4, <2>2 DEF SafeWrites
<1>5. CASE {"warning", "critical"} \subseteq c /\ first
  <2>1. todo = <<Write("critical", FALSE), Write("warning", TRUE)>>
    BY <1>1, <1>5
  <2> QED BY <1>2, <1>3, <1>5, <2>1 DEF todo
<1>6. CASE {"warning", "critical"} \subseteq c /\ ~first
  <2>1. todo = <<Write("warning", FALSE), Write("critical", t.critical <= o.warning)>>
    BY <1>1, <1>6
  <2>2. CASE t.critical <= o.warning
    <3>1. todo = <<Write("warning", FALSE), Write("critical", TRUE)>>
      BY <2>1, <2>2
    <3> QED BY <1>2, <1>3, <1>6, <2>2, <3>1 DEF todo
  <2>3. CASE ~(t.critical <= o.warning)
    <3>0. (t.critical <= o.warning) = FALSE
      BY <2>3
    <3>1. todo = <<Write("warning", FALSE), Write("critical", FALSE)>>
      BY <2>1, <3>0, Zenon
    <3> QED BY <1>2, <1>3, <1>6, <2>3, <3>1 DEF todo
  <2> QED BY <2>2, <2>3
<1>7. CASE ~({"warning", "critical"} \subseteq c)
  BY <1>1, <1>2, <1>4, <1>7 DEF todo
<1> QED BY <1>5, <1>6, <1>7

LEMMA StorageIsSafe ==
  ASSUME NEW o \in Overlays, NEW t \in Overlays, NEW changed \in SUBSET Fields,
         NEW previous,
         Legal(o), Legal(t), changed \cap {"type", "size"} # {},
         \A field \in Fields \ changed : o[field] = t[field]
  PROVE  LET todo == PlanOverlayWrites(o, t, {"type", "size"} \cap changed)
         IN todo \in Seq(Writes) /\ SafeWrites(o, t, changed, todo, previous)
<1> DEFINE c == {"type", "size"} \cap changed
           todo == PlanOverlayWrites(o, t, c)
<1>0. /\ o.size \in Nat /\ t.size \in Nat /\ DiskMinimum \in Nat
      /\ o.type \in {"RAM", "Disk"} /\ t.type \in {"RAM", "Disk"}
      /\ "type" \in changed \/ o.type = t.type
      /\ "size" \in changed \/ o.size = t.size
  BY SizesAssumption DEF Overlays, Fields
<1>1. todo = IF {"type", "size"} \subseteq c
             THEN IF t.type = "Disk" THEN <<Write("size", FALSE), Write("type", TRUE)>>
                  ELSE <<Write("type", FALSE), Write("size", TRUE)>>
             ELSE IF "type" \in c THEN <<Write("type", FALSE)>>
             ELSE IF "size" \in c THEN <<Write("size", FALSE)>> ELSE <<>>
  <2>1. ~({"warning", "critical"} \subseteq c) /\ "warning" \notin c /\ "critical" \notin c
    OBVIOUS
  <2>2. \A w, x : <<w>> \o <<>> = <<w>> /\ <<w, x>> \o <<>> = <<w, x>> /\ <<>> \o <<>> = <<>>
    OBVIOUS
  <2> HIDE DEF c
  <2> QED BY <2>1, <2>2 DEF PlanOverlayWrites
<1>2. \A r \in BOOLEAN : /\ Write("type", r) \in Writes /\ Write("size", r) \in Writes
                         /\ Write("type", r).field = "type"
                         /\ Write("size", r).field = "size"
                         /\ Write("type", r).requiresPrevious = r
                         /\ Write("size", r).requiresPrevious = r
  BY DEF Write, Writes, Fields
<1> HIDE DEF todo
<1>3. ASSUME NEW w \in Writes, NEW x \in Writes, todo = <<w, x>>,
             {w.field, x.field} = {"type", "size"}, {"type", "size"} \subseteq c,
             x.requiresPrevious, w.field = "size" <=> t.type = "Disk"
      PROVE  todo \in Seq(Writes) /\ SafeWrites(o, t, changed, todo, previous)
  <2>1. \/ w.field = "type" /\ x.field = "size"
        \/ w.field = "size" /\ x.field = "type"
    BY <1>3
  <2>2. Legal(After(o, t, w))
    BY <1>0, <1>3, <2>1, LegalAfter DEF Legal, LegalStorage
  <2>3. Legal(After(After(o, t, w), t, x))
    BY <1>3, LegalAfterBoth
  <2>4. w.field \in changed /\ x.field \in changed
    BY <1>3, <2>1
  <2>5. todo \in Seq(Writes)
    BY <1>3
  <2> QED BY <1>3, <2>2, <2>3, <2>4, <2>5 DEF SafeWrites
<1>4. ASSUME NEW w \in Writes, todo = <<w>>, c = {w.field}
      PROVE  todo \in Seq(Writes) /\ SafeWrites(o, t, changed, todo, previous)
  <2>1. \/ w.field = "type" /\ o.size = t.size
        \/ w.field = "size" /\ o.type = t.type
    BY <1>0, <1>4
  <2>2. Legal(After(o, t, w))
    BY <1>0, <2>1, LegalAfter DEF Legal, LegalStorage
  <2> QED BY <1>4, <2>2 DEF SafeWrites
<1>5. CASE {"type", "size"} \subseteq c
  BY <1>1, <1>2, <1>3, <1>5 DEF todo
<1>6. CASE ~({"type", "size"} \subseteq c)
  BY <1>1, <1>2, <1>4, <1>6, ZenonT(30) DEF todo
<1> QED BY <1>5, <1>6

\* One write of the list, with and without effect.
LEMMA RestIsSafe ==
  ASSUME NEW o \in Overlays, NEW t \in Overlays, NEW changed \in SUBSET Fields,
         NEW todo \in Seq(Writes), NEW previous \in BOOLEAN, todo # <<>>,
         SafeWrites(o, t, changed, todo, previous)
  PROVE  /\ Head(todo) \in Writes /\ Tail(todo) \in Seq(Writes)
         /\ Head(todo).field \in changed
         /\ SafeWrites(o, t, changed, Tail(todo), FALSE)
         /\ ~Head(todo).requiresPrevious \/ previous =>
              /\ Legal(After(o, t, Head(todo)))
              /\ \A confirmed \in BOOLEAN :
                   SafeWrites(After(o, t, Head(todo)), t, changed, Tail(todo), confirmed)
<1>1. ASSUME NEW w \in Writes, todo = <<w>>, w.field \in changed,
             (w.requiresPrevious => previous) => Legal(After(o, t, w))
      PROVE  Head(todo) = w /\ Tail(todo) = <<>>
  BY <1>1
<1>2. ASSUME NEW w \in Writes, NEW x \in Writes, todo = <<w, x>>
      PROVE  Head(todo) = w /\ Tail(todo) = <<x>>
  BY <1>2
<1>3. CASE \E w \in Writes : /\ todo = <<w>> /\ w.field \in changed
                             /\ (w.requiresPrevious => previous) => Legal(After(o, t, w))
  <2>1. PICK w \in Writes : /\ todo = <<w>> /\ w.field \in changed
                            /\ (w.requiresPrevious => previous) => Legal(After(o, t, w))
    BY <1>3
  <2>2. Head(todo) = w /\ Tail(todo) = <<>>
    BY <1>1, <2>1
  <2> QED BY <2>1, <2>2, EmptySeq DEF SafeWrites
<1>4. CASE \E w, x \in Writes : /\ todo = <<w, x>> /\ w.field \in changed /\ x.field \in changed
                                /\ Legal(After(o, t, w))
                                /\ Legal(After(After(o, t, w), t, x))
                                /\ x.requiresPrevious \/ Legal(After(o, t, x))
  <2>1. PICK w \in Writes, x \in Writes :
          /\ todo = <<w, x>> /\ w.field \in changed /\ x.field \in changed
          /\ Legal(After(o, t, w))
          /\ Legal(After(After(o, t, w), t, x))
          /\ x.requiresPrevious \/ Legal(After(o, t, x))
    BY <1>4
  <2>2. Head(todo) = w /\ Tail(todo) = <<x>>
    BY <1>2, <2>1
  <2>3. Tail(todo) \in Seq(Writes)
    BY <2>2
  <2> QED BY <2>1, <2>2, <2>3 DEF SafeWrites
<1> QED BY <1>3, <1>4 DEF SafeWrites

-----------------------------------------------------------------------------
(***************************************************************************)
(* A step of a run: the plan stays, the journal notes what was written.    *)
(***************************************************************************)

Journals == [connected : BOOLEAN, reconcile : BOOLEAN, written : BOOLEAN]

Journaled ==
  /\ system' \in Configurations /\ UNCHANGED <<filterOn, draft>>
  /\ snapshot' \in Snapshots /\ snapshot'.state = snapshot.state
  /\ plan' \in Plans /\ plan'.base = plan.base /\ plan'.target = plan.target
  /\ plan'.changed = plan.changed
  /\ journal' \in Journals /\ journal'.connected
  /\ plan'.stale \/ snapshot'.stale => journal'.reconcile
  /\ ~snapshot'.stale => system'.overlay = snapshot.state.overlay
  /\ ~plan'.stale => system'.overlay = plan.base.overlay

LEMMA RunHasPlan ==
  ASSUME ExecutorInv, run.pc # "idle"
  PROVE  /\ plan \in Plans /\ plan.open
         /\ Legal(plan.target) /\ plan.target \in Overlays /\ plan.changed \in SUBSET Fields
         /\ plan.toggles \in SUBSET Facts /\ plan.base \in Configurations
         /\ system.overlay \in Overlays /\ Legal(system.overlay)
<1>1. plan.open /\ plan \in Plans \cup {NoPlan}
  BY DEF ExecutorInv, ExecutorTypeOK, PlanIsLegal
<1>2. plan \in Plans
  BY <1>1 DEF NoPlan
<1>3. /\ plan.target \in Overlays /\ plan.changed \in SUBSET Fields
      /\ plan.toggles \in SUBSET Facts /\ plan.base \in Configurations
  BY <1>2 DEF Plans
<1>4. Legal(plan.target)
  BY <1>1 DEF ExecutorInv, PlanIsLegal
<1>5. system.overlay \in Overlays /\ Legal(system.overlay)
  BY DEF ExecutorInv, ExecutorTypeOK, OverlayStaysLegal, Configurations
<1> QED BY <1>1, <1>2, <1>3, <1>4, <1>5

\* Nothing is written.
LEMMA NothingWritten ==
  ASSUME ExecutorInv, run.pc \notin {"idle", "publish"}, NoWrite, UNCHANGED <<filterOn, draft>>,
         \/ UNCHANGED journal
         \/ journal' = [journal EXCEPT !.reconcile = TRUE]
  PROVE  Journaled /\ system'.overlay = system.overlay
<1>1. UNCHANGED <<system, snapshot, plan, filterOn, draft>>
  BY DEF NoWrite
<1>2. /\ journal' \in Journals /\ journal'.connected
      /\ plan.stale \/ snapshot.stale => journal'.reconcile
  BY DEF ExecutorInv, ExecutorTypeOK, JournalIsTrue, Journals
<1>3. /\ system \in Configurations /\ snapshot \in Snapshots
      /\ ~snapshot.stale => system.overlay = snapshot.state.overlay
      /\ ~plan.stale => system.overlay = plan.base.overlay
  BY RunHasPlan DEF ExecutorInv, ExecutorTypeOK, StaleIsMarked
<1> QED BY <1>1, <1>2, <1>3, RunHasPlan DEF Journaled

\* A provider call that leaves the configuration c behind.
LEMMA SomethingWritten ==
  ASSUME ExecutorInv, run.pc \notin {"idle", "publish"}, UNCHANGED <<filterOn, draft>>,
         NEW c \in Configurations, NEW outcome \in Outcomes,
         System(c), Noted(outcome.result), outcome.effect \/ c = system
  PROVE  Journaled /\ system' = c
<1>1. /\ system' = c /\ c \in Configurations
      /\ snapshot' = [snapshot EXCEPT !.stale = @ \/ c # system]
      /\ plan' = [plan EXCEPT !.stale = @ \/ c # system]
  BY DEF System
<1>2. plan \in Plans /\ plan.open /\ snapshot \in Snapshots
  BY RunHasPlan DEF ExecutorInv, ExecutorTypeOK
<1>3. /\ snapshot' \in Snapshots /\ snapshot'.state = snapshot.state
      /\ snapshot'.stale <=> snapshot.stale \/ c # system
  BY <1>1, <1>2 DEF Snapshots
<1>4. /\ plan' \in Plans /\ plan'.base = plan.base /\ plan'.target = plan.target
      /\ plan'.changed = plan.changed
      /\ plan'.stale <=> plan.stale \/ c # system
  BY <1>1, <1>2 DEF Plans
<1>5. /\ journal' \in Journals /\ journal'.connected
      /\ journal'.reconcile <=> journal.reconcile \/ outcome.result # "none"
  BY DEF Noted, ExecutorInv, ExecutorTypeOK, JournalIsTrue, Journals
<1>6. plan.stale \/ snapshot.stale => journal.reconcile
  BY DEF ExecutorInv, JournalIsTrue
<1>7. c # system => outcome.result # "none"
  BY DEF Outcomes
<1>8. /\ ~snapshot.stale => system.overlay = snapshot.state.overlay
      /\ ~plan.stale => system.overlay = plan.base.overlay
  BY <1>2 DEF ExecutorInv, StaleIsMarked
<1> QED BY <1>1, <1>3, <1>4, <1>5, <1>6, <1>7, <1>8 DEF Journaled

\* A step of a run, whatever it writes.
LEMMA RunIsJournaled ==
  ASSUME ExecutorInv, run.pc \notin {"idle", "publish"}, Journaled,
         run' \in Runs, run'.pc # "idle"
  PROVE  ExecutorTypeOK' /\ PlanIsLegal' /\ StaleIsMarked' /\ JournalIsTrue'
<1>1. ExecutorTypeOK'
  BY DEF ExecutorInv, ExecutorTypeOK, Journaled, Journals
<1>2. plan' \in Plans /\ plan'.open
  BY DEF Journaled, Plans
<1>3. PlanIsLegal'
  BY <1>2 DEF ExecutorInv, PlanIsLegal, Journaled
<1>4. StaleIsMarked' /\ JournalIsTrue'
  BY <1>2 DEF StaleIsMarked, JournalIsTrue, Journaled
<1> QED BY <1>1, <1>3, <1>4

\* A step of a run that leaves the overlay alone.
LEMMA RunGoesOn ==
  ASSUME ExecutorInv, run.pc \notin {"idle", "publish"}, Journaled,
         system'.overlay = system.overlay,
         run' \in Runs, run'.pc # "idle",
         run'.todo = <<>> \/ (run'.todo = run.todo /\ run'.previous = run.previous)
  PROVE  ExecutorInv'
<1>1. UntouchedIsKept' /\ OverlayStaysLegal'
  BY DEF ExecutorInv, UntouchedIsKept, OverlayStaysLegal, Journaled
<1>2. WritesAreSafe'
  BY Zenon DEF ExecutorInv, WritesAreSafe, Journaled
<1> QED BY <1>1, <1>2, RunIsJournaled DEF ExecutorInv

-----------------------------------------------------------------------------
(***************************************************************************)
(* The sections of executePlan.                                            *)
(***************************************************************************)

LEMMA GotoIs ==
  ASSUME NEW pc \in Sections, Goto(pc)
  PROVE  run' \in Runs /\ run'.pc = pc /\ run'.todo = <<>>
<1>1. NoRun \in Runs
  <2>1. <<>> \in Seq(Writes)
    OBVIOUS
  <2> QED BY <2>1 DEF NoRun, Runs, Sections
<1> QED BY <1>1 DEF Goto, Runs, NoRun

\* Writing settings that are on or off leaves the rest alone.
LEMMA SetFactsIs ==
  ASSUME ExecutorInv, run.pc # "idle", NEW facts \in SUBSET Facts
  PROVE  /\ SetFacts(facts) \in Configurations
         /\ SetFacts(facts).overlay = system.overlay
BY DEF ExecutorInv, ExecutorTypeOK, SetFacts, Configurations

LEMMA SystemIsTyped ==
  ASSUME ExecutorInv
  PROVE  system \in Configurations
BY DEF ExecutorInv, ExecutorTypeOK

\* A section of one call.
LEMMA FactsWritten ==
  ASSUME ExecutorInv, run.pc \notin {"idle", "publish"}, UNCHANGED <<filterOn, draft>>,
         NEW facts \in SUBSET Facts, NEW outcome \in Outcomes,
         System(IF outcome.effect THEN SetFacts(facts) ELSE system), Noted(outcome.result)
  PROVE  Journaled /\ system'.overlay = system.overlay
<1>1. CASE outcome.effect
  <2>1. System(SetFacts(facts))
    BY <1>1
  <2> QED BY <1>1, <2>1, SetFactsIs, SomethingWritten
<1>2. CASE ~outcome.effect
  <2>1. System(system)
    BY <1>2
  <2> QED BY <2>1, SystemIsTyped, SomethingWritten
<1> QED BY <1>1, <1>2

LEMMA ApplyFilterStep ==
  ASSUME ExecutorInv, ApplyFilter
  PROVE  ExecutorInv'
<1>1. run.pc = "filter" /\ UNCHANGED <<filterOn, draft>> /\ Goto("thresholds")
  BY DEF ApplyFilter
<1>2. run' \in Runs /\ run'.pc = "thresholds" /\ run'.todo = <<>>
  BY <1>1, GotoIs DEF Sections
<1>3. Journaled /\ system'.overlay = system.overlay
  <2>1. CASE NoWrite /\ UNCHANGED journal
    BY <1>1, <2>1, NothingWritten
  <2>2. CASE /\ <<"filter">> \in plan.toggles
             /\ \E outcome \in Outcomes :
                  /\ System(IF outcome.effect THEN SetFacts({<<"filter">>}) ELSE system)
                  /\ Noted(outcome.result)
    <3>1. {<<"filter">>} \in SUBSET Facts
      BY <1>1, <2>2, RunHasPlan
    <3> QED BY <1>1, <2>2, <3>1, FactsWritten
  <2> QED BY <2>1, <2>2 DEF ApplyFilter
<1> QED BY <1>1, <1>2, <1>3, RunGoesOn

LEMMA ApplyPersistenceStep ==
  ASSUME ExecutorInv, ApplyPersistence
  PROVE  ExecutorInv'
<1> DEFINE facts == plan.toggles \cap {<<"domain">>, <<"license">>}
<1>1. run.pc = "registry" /\ UNCHANGED <<filterOn, draft>> /\ Goto("publish")
  BY DEF ApplyPersistence
<1>2. run' \in Runs /\ run'.pc = "publish" /\ run'.todo = <<>>
  BY <1>1, GotoIs DEF Sections
<1>3. Journaled /\ system'.overlay = system.overlay
  <2>1. CASE NoWrite /\ UNCHANGED journal
    BY <1>1, <2>1, NothingWritten
  <2>2. CASE \E outcome \in Outcomes :
               /\ System(IF outcome.effect THEN SetFacts(facts) ELSE system)
               /\ Noted(outcome.result)
    <3>1. facts \in SUBSET Facts
      BY <1>1, RunHasPlan
    <3> HIDE DEF facts
    <3> QED BY <1>1, <2>2, <3>1, FactsWritten
  <2> QED BY <2>1, <2>2 DEF ApplyPersistence
<1> QED BY <1>1, <1>2, <1>3, RunGoesOn

LEMMA PlanWritesStep ==
  ASSUME ExecutorInv, NEW section \in {"thresholds", "storage"}, NEW fields, NEW next \in Sections,
         next # "idle",
         fields = IF section = "storage" THEN {"type", "size"} ELSE {"warning", "critical"},
         PlanWrites(section, fields, next)
  PROVE  ExecutorInv'
<1>1. run.pc = section /\ UNCHANGED <<system, filterOn, draft, snapshot, plan, journal>>
  BY DEF PlanWrites, ui
<1>2. Journaled /\ system'.overlay = system.overlay
  BY <1>1, NothingWritten DEF NoWrite
<1>3. CASE Goto(next)
  BY <1>1, <1>2, <1>3, GotoIs, RunGoesOn
<1>4. CASE /\ fields \cap plan.changed # {}
           /\ run' = [run EXCEPT !.writing = TRUE,
                                 !.todo = PlanOverlayWrites(system.overlay, plan.target,
                                                            fields \cap plan.changed)]
  <2> DEFINE todo == PlanOverlayWrites(system.overlay, plan.target, fields \cap plan.changed)
  <2>1. \A field \in Fields \ plan.changed : system.overlay[field] = plan.target[field]
    BY <1>1 DEF ExecutorInv, UntouchedIsKept
  <2>2. /\ todo \in Seq(Writes)
        /\ SafeWrites(system.overlay, plan.target, plan.changed, todo, run.previous)
    BY <1>1, <1>4, <2>1, RunHasPlan, ThresholdsAreSafe, StorageIsSafe
  <2> HIDE DEF todo
  <2>3. run' = [run EXCEPT !.writing = TRUE, !.todo = todo]
    BY <1>4 DEF todo
  <2>4. /\ run' \in Runs /\ run'.pc = section
        /\ run'.todo = todo /\ run'.previous = run.previous
    BY <1>1, <2>2, <2>3 DEF ExecutorInv, ExecutorTypeOK, Runs
  <2>5. UntouchedIsKept' /\ OverlayStaysLegal'
    BY <1>1, <1>2, <2>1 DEF ExecutorInv, UntouchedIsKept, OverlayStaysLegal
  <2>6. WritesAreSafe'
    BY <1>1, <2>2, <2>4 DEF WritesAreSafe
  <2> QED BY <1>1, <1>2, <2>4, <2>5, <2>6, RunIsJournaled DEF ExecutorInv
<1> QED BY <1>3, <1>4 DEF PlanWrites

LEMMA WriteOverlayStep ==
  ASSUME ExecutorInv, NEW section \in {"thresholds", "storage"}, NEW next \in Sections,
         next # "idle", WriteOverlay(section, next)
  PROVE  ExecutorInv'
<1>1. run.pc = section /\ UNCHANGED <<filterOn, draft>>
  BY DEF WriteOverlay
<1>2. CASE run.todo = <<>> /\ Goto(next) /\ NoWrite /\ UNCHANGED journal
  BY <1>1, <1>2, GotoIs, NothingWritten, RunGoesOn
<1> DEFINE step == Head(run.todo)
           ready == ~step.requiresPrevious \/ run.previous
<1>3. ASSUME run.todo # <<>>
      PROVE  /\ run.todo \in Seq(Writes) /\ run.previous \in BOOLEAN
             /\ SafeWrites(system.overlay, plan.target, plan.changed, run.todo, run.previous)
             /\ step \in Writes /\ Tail(run.todo) \in Seq(Writes) /\ step.field \in plan.changed
             /\ SafeWrites(system.overlay, plan.target, plan.changed, Tail(run.todo), FALSE)
             /\ ready =>
                  /\ Legal(After(system.overlay, plan.target, step))
                  /\ \A confirmed \in BOOLEAN :
                       SafeWrites(After(system.overlay, plan.target, step), plan.target,
                                  plan.changed, Tail(run.todo), confirmed)
  <2>1. /\ run.todo \in Seq(Writes) /\ run.previous \in BOOLEAN
        /\ SafeWrites(system.overlay, plan.target, plan.changed, run.todo, run.previous)
    BY <1>3 DEF ExecutorInv, ExecutorTypeOK, Runs, WritesAreSafe
  <2>2. /\ system.overlay \in Overlays /\ plan.target \in Overlays
        /\ plan.changed \in SUBSET Fields
    BY <1>1, RunHasPlan
  <2> QED BY <1>3, <2>1, <2>2, RestIsSafe
<1> HIDE DEF step, ready
<1>4. CASE /\ run.todo # <<>>
           /\ run' = [run EXCEPT !.todo = Tail(@), !.previous = FALSE]
           /\ NoWrite /\ UNCHANGED journal
  <2>1. Journaled /\ system'.overlay = system.overlay
    BY <1>1, <1>4, NothingWritten
  <2>2. /\ run' \in Runs /\ run'.pc = section
        /\ run'.todo = Tail(run.todo) /\ run'.previous = FALSE
    BY <1>1, <1>3, <1>4 DEF ExecutorInv, ExecutorTypeOK, Runs
  <2>3. UntouchedIsKept' /\ OverlayStaysLegal'
    BY <1>1, <2>1 DEF ExecutorInv, UntouchedIsKept, OverlayStaysLegal, Journaled
  <2>4. WritesAreSafe'
    BY <1>1, <1>3, <1>4, <2>1, <2>2 DEF WritesAreSafe, Journaled
  <2> QED BY <1>1, <2>1, <2>2, <2>3, <2>4, RunIsJournaled DEF ExecutorInv
<1>5. CASE /\ run.todo # <<>> /\ ready
           /\ \E outcome \in Outcomes :
                /\ System(IF outcome.effect
                          THEN [system EXCEPT !.overlay[step.field] = plan.target[step.field]]
                          ELSE system)
                /\ Noted(outcome.result)
                /\ run' = [run EXCEPT !.todo = Tail(@),
                                      !.previous = (outcome.result = "confirmed")]
  <2>1. PICK outcome \in Outcomes :
          /\ System(IF outcome.effect
                    THEN [system EXCEPT !.overlay[step.field] = plan.target[step.field]]
                    ELSE system)
          /\ Noted(outcome.result)
          /\ run' = [run EXCEPT !.todo = Tail(@), !.previous = (outcome.result = "confirmed")]
    BY <1>5
  <2>2. PICK confirmed \in BOOLEAN : confirmed = (outcome.result = "confirmed")
    OBVIOUS
  <2>3. /\ run' \in Runs /\ run'.pc = section
        /\ run'.todo = Tail(run.todo) /\ run'.previous = confirmed
    BY <1>1, <1>3, <1>5, <2>1, <2>2 DEF ExecutorInv, ExecutorTypeOK, Runs
  <2> DEFINE a == After(system.overlay, plan.target, step)
             c == [system EXCEPT !.overlay[step.field] = plan.target[step.field]]
  <2>4. CASE outcome.effect
    <3>0. system.overlay \in Overlays /\ plan.target \in Overlays /\ step \in Writes
      BY <1>1, <1>3, <1>5, RunHasPlan
    <3>1. /\ a \in Overlays
          /\ \A field \in Fields :
               a[field] = IF field = step.field THEN plan.target[field] ELSE system.overlay[field]
      BY <3>0, AfterIs
    <3>2. c = [system EXCEPT !.overlay = a]
      BY DEF After
    <3> HIDE DEF a
    <3>3. c \in Configurations /\ c.overlay = a
      BY <3>1, <3>2, SystemIsTyped DEF Configurations
    <3>4. System(c)
      BY <2>1, <2>4
    <3> HIDE DEF c
    <3>5. Journaled /\ system' = c
      BY <1>1, <2>1, <2>4, <3>3, <3>4, SomethingWritten
    <3>6. UntouchedIsKept'
      BY <1>1, <1>3, <1>5, <3>1, <3>3, <3>5 DEF ExecutorInv, UntouchedIsKept, Journaled
    <3>7. OverlayStaysLegal'
      BY <1>3, <1>5, <3>3, <3>5 DEF OverlayStaysLegal, a
    <3>8. SafeWrites(a, plan.target, plan.changed, Tail(run.todo), confirmed)
      BY <1>3, <1>5 DEF a
    <3>9. WritesAreSafe'
      BY <1>1, <2>3, <3>3, <3>5, <3>8 DEF WritesAreSafe, Journaled
    <3> QED BY <1>1, <2>3, <3>5, <3>6, <3>7, <3>9, RunIsJournaled DEF ExecutorInv
  <2>5. CASE ~outcome.effect
    <3>1. System(system)
      BY <2>1, <2>5
    <3>2. Journaled /\ system' = system
      BY <1>1, <2>1, <3>1, SystemIsTyped, SomethingWritten
    <3>3. confirmed = FALSE
      <4>1. outcome.result # "confirmed"
        BY <2>5 DEF Outcomes
      <4> QED BY <2>2, <4>1
    <3>4. UntouchedIsKept' /\ OverlayStaysLegal'
      BY <1>1, <3>2 DEF ExecutorInv, UntouchedIsKept, OverlayStaysLegal, Journaled
    <3>5. WritesAreSafe'
      BY <1>1, <1>3, <1>5, <2>3, <3>2, <3>3 DEF WritesAreSafe, Journaled
    <3> QED BY <1>1, <2>3, <3>2, <3>4, <3>5, RunIsJournaled DEF ExecutorInv
  <2> QED BY <2>4, <2>5
<1> QED BY <1>2, <1>4, <1>5 DEF WriteOverlay, step, ready

LEMMA ReadVolumesStep ==
  ASSUME ExecutorInv, ReadVolumes \/ VolumesDone
  PROVE  ExecutorInv'
<1>1. run.pc = "volumes" /\ UNCHANGED <<system, filterOn, draft, snapshot, plan, journal>>
  BY DEF ReadVolumes, VolumesDone, ui
<1>2. Journaled /\ system'.overlay = system.overlay
  BY <1>1, NothingWritten DEF NoWrite
<1>3. CASE Goto("registry")
  BY <1>1, <1>2, <1>3, GotoIs, RunGoesOn DEF Sections
<1>4. CASE run' = [run EXCEPT !.writing = TRUE, !.rows = system.registered]
  <2>1. /\ run' \in Runs /\ run'.pc = "volumes" /\ run'.todo = run.todo
        /\ run'.previous = run.previous
    BY <1>1, <1>4 DEF ExecutorInv, ExecutorTypeOK, Runs, Configurations
  <2> QED BY <1>1, <1>2, <2>1, RunGoesOn
<1> QED BY <1>3, <1>4 DEF ReadVolumes, VolumesDone

LEMMA NextVolumeFactIs ==
  ASSUME ExecutorInv, NEW fact \in Facts, NextVolumeFact(fact)
  PROVE  run.pc = "volumes" /\ fact[2] \in Volumes /\ fact \in Facts
BY DEF NextVolumeFact, VolumeToggles

LEMMA RegisterVolumeStep ==
  ASSUME ExecutorInv, NEW fact \in Facts, RegisterVolume(fact)
  PROVE  ExecutorInv'
<1> DEFINE v == fact[2]
<1>1. run.pc = "volumes" /\ v \in Volumes /\ UNCHANGED <<filterOn, draft>>
  BY NextVolumeFactIs DEF RegisterVolume
<1> HIDE DEF v
<1>2. ASSUME \/ run' = [run EXCEPT !.rows = @ \cup {v}]
             \/ run' = [run EXCEPT !.lost = @ \cup {v}]
      PROVE  /\ run' \in Runs /\ run'.pc = "volumes" /\ run'.todo = run.todo
             /\ run'.previous = run.previous
  BY <1>1, <1>2 DEF ExecutorInv, ExecutorTypeOK, Runs
<1>3. CASE /\ run' = [run EXCEPT !.rows = @ \cup {v}]
           /\ journal' = [journal EXCEPT !.reconcile = TRUE]
           /\ NoWrite
  <2>1. Journaled /\ system'.overlay = system.overlay
    BY <1>1, <1>3, NothingWritten
  <2> QED BY <1>1, <1>2, <1>3, <2>1, RunGoesOn
<1>4. ASSUME NEW outcome \in Outcomes,
             System(IF outcome.effect
                    THEN [system EXCEPT !.registered = @ \cup {v}] ELSE system),
             Noted(outcome.result),
             run' = IF outcome.result = "confirmed"
                    THEN [run EXCEPT !.rows = @ \cup {v}] ELSE [run EXCEPT !.lost = @ \cup {v}]
      PROVE  ExecutorInv'
  <2> DEFINE c == [system EXCEPT !.registered = @ \cup {v}]
  <2>1. c \in Configurations /\ c.overlay = system.overlay
    BY <1>1, SystemIsTyped DEF Configurations
  <2> HIDE DEF c
  <2>2. CASE outcome.effect
    <3>1. System(c)
      BY <1>4, <2>2 DEF c
    <3>2. Journaled /\ system' = c
      BY <1>1, <1>4, <2>1, <2>2, <3>1, SomethingWritten
    <3> QED BY <1>1, <1>2, <1>4, <2>1, <3>2, RunGoesOn
  <2>3. CASE ~outcome.effect
    <3>1. System(system)
      BY <1>4, <2>3
    <3>2. Journaled /\ system' = system
      BY <1>1, <1>4, <3>1, SystemIsTyped, SomethingWritten
    <3> QED BY <1>1, <1>2, <1>4, <3>2, RunGoesOn
  <2> QED BY <2>2, <2>3
<1> QED BY <1>3, <1>4 DEF RegisterVolume, v

LEMMA WriteVolumeStep ==
  ASSUME ExecutorInv, NEW fact \in Facts, WriteVolume(fact) \/ SkipVolume(fact)
  PROVE  ExecutorInv'
<1>1. /\ run.pc = "volumes" /\ fact \in Facts /\ UNCHANGED <<filterOn, draft>>
      /\ run' = [run EXCEPT !.done = Done(fact)]
  BY NextVolumeFactIs DEF WriteVolume, SkipVolume, ui
<1>2. /\ run' \in Runs /\ run'.pc = "volumes" /\ run'.todo = run.todo
      /\ run'.previous = run.previous
  BY <1>1 DEF ExecutorInv, ExecutorTypeOK, Runs, Done
<1>3. Journaled /\ system'.overlay = system.overlay
  <2>1. CASE WriteVolume(fact)
    <3>1. PICK outcome \in Outcomes :
            /\ System(IF outcome.effect THEN SetFacts({fact}) ELSE system)
            /\ Noted(outcome.result)
      BY <2>1 DEF WriteVolume
    <3>2. {fact} \in SUBSET Facts
      BY <1>1
    <3> QED BY <1>1, <3>1, <3>2, FactsWritten
  <2>2. CASE SkipVolume(fact)
    BY <1>1, <2>2, NothingWritten DEF SkipVolume, NoWrite, ui
  <2> QED BY <2>1, <2>2
<1> QED BY <1>1, <1>2, <1>3, RunGoesOn

LEMMA OtherToolStep ==
  ASSUME ExecutorInv, NEW v \in Volumes, OtherTool(v)
  PROVE  ExecutorInv'
<1>1. /\ run.pc = "volumes"
      /\ UNCHANGED <<filterOn, draft, snapshot, plan, run, journal>>
  BY DEF OtherTool, ui
<1>2. system' \in Configurations /\ system'.overlay = system.overlay
  BY SystemIsTyped DEF OtherTool, Configurations
<1>3. Journaled
  <2>1. /\ snapshot \in Snapshots /\ journal \in Journals /\ journal.connected
        /\ plan.stale \/ snapshot.stale => journal.reconcile
        /\ ~snapshot.stale => system.overlay = snapshot.state.overlay
        /\ ~plan.stale => system.overlay = plan.base.overlay
    BY <1>1, RunHasPlan
    DEF ExecutorInv, ExecutorTypeOK, Journals, JournalIsTrue, StaleIsMarked
  <2> QED BY <1>1, <1>2, <2>1, RunHasPlan DEF Journaled
<1>4. run \in Runs
  BY DEF ExecutorInv, ExecutorTypeOK
<1> QED BY <1>1, <1>2, <1>3, <1>4, RunGoesOn

LEMMA ApplyStep ==
  ASSUME ExecutorInv, Apply
  PROVE  ExecutorInv'
<1>1. /\ run.pc = "idle" /\ plan.open /\ plan.canApply /\ ~snapshot.mustRead
      /\ UNCHANGED <<system, filterOn, draft, snapshot, plan>>
  BY DEF Apply, ui
<1>2. plan \in Plans
  BY <1>1 DEF ExecutorInv, ExecutorTypeOK, NoPlan
<1>3. ~plan.stale /\ ~snapshot.stale
  BY <1>1, <1>2 DEF ExecutorInv, JournalIsTrue
<1>4. /\ run' \in Runs /\ run'.pc \in {"publish", "filter"} /\ run'.todo = <<>>
      /\ journal' \in Journals /\ (run'.pc = "filter" => journal'.connected)
  <2>1. NoJournal \in Journals
    BY DEF NoJournal, Journals
  <2>2. CASE \E reconcile \in BOOLEAN :
               journal' = [NoJournal EXCEPT !.reconcile = reconcile] /\ Goto("publish")
    BY <2>1, <2>2, GotoIs DEF Journals, Sections
  <2>3. CASE journal' = [NoJournal EXCEPT !.connected = TRUE] /\ Goto("filter")
    BY <2>1, <2>3, GotoIs DEF Journals, Sections
  <2> QED BY <2>2, <2>3 DEF Apply
<1>5. ExecutorTypeOK'
  BY <1>1, <1>4 DEF ExecutorInv, ExecutorTypeOK, Journals
<1>6. PlanIsLegal' /\ StaleIsMarked' /\ OverlayStaysLegal'
  BY <1>1 DEF ExecutorInv, PlanIsLegal, StaleIsMarked, OverlayStaysLegal
<1>7. JournalIsTrue' /\ WritesAreSafe'
  BY <1>1, <1>3, <1>4 DEF JournalIsTrue, WritesAreSafe
<1>8. UntouchedIsKept'
  <2>1. /\ plan.changed = ChangedFields(plan.target, plan.base.overlay)
        /\ system.overlay = plan.base.overlay
    BY <1>1, <1>3 DEF ExecutorInv, PlanIsLegal, StaleIsMarked
  <2> QED BY <1>1, <2>1 DEF UntouchedIsKept, ChangedFields
<1> QED BY <1>5, <1>6, <1>7, <1>8 DEF ExecutorInv

LEMMA PublishStep ==
  ASSUME ExecutorInv, Publish
  PROVE  ExecutorInv'
<1>1. /\ run.pc = "publish" /\ UNCHANGED <<system, filterOn, draft>>
      /\ run' = NoRun /\ journal' = NoJournal
      /\ plan' = [plan EXCEPT !.canApply = Repeatable(journal)]
      /\ snapshot' = [snapshot EXCEPT !.mustRead = @ \/ journal.reconcile]
  BY DEF Publish
<1>2. plan \in Plans /\ plan.open
  BY <1>1, RunHasPlan
<1>3. /\ journal.connected \in BOOLEAN /\ journal.reconcile \in BOOLEAN
      /\ plan.stale \/ snapshot.stale => journal.connected /\ journal.reconcile
  BY <1>1 DEF ExecutorInv, ExecutorTypeOK, JournalIsTrue
<1>4. /\ plan' \in Plans /\ plan'.open /\ plan'.target = plan.target /\ plan'.base = plan.base
      /\ plan'.changed = plan.changed /\ plan'.stale = plan.stale
      /\ plan'.canApply <=> ~journal.connected \/ ~journal.reconcile
  BY <1>1, <1>2, <1>3 DEF Plans, Repeatable
<1>5. /\ snapshot' \in Snapshots /\ snapshot'.state = snapshot.state
      /\ snapshot'.stale = snapshot.stale
      /\ snapshot'.mustRead <=> snapshot.mustRead \/ journal.reconcile
  BY <1>1, <1>3 DEF ExecutorInv, ExecutorTypeOK, Snapshots
<1>6. run' \in Runs /\ run'.pc = "idle" /\ run'.todo = <<>> /\ journal' \in Journals
  <2>1. <<>> \in Seq(Writes)
    OBVIOUS
  <2> QED BY <1>1, <2>1 DEF NoRun, Runs, Sections, NoJournal, Journals
<1>7. ExecutorTypeOK'
  BY <1>1, <1>4, <1>5, <1>6 DEF ExecutorInv, ExecutorTypeOK, Journals
<1>8. PlanIsLegal' /\ StaleIsMarked' /\ OverlayStaysLegal'
  BY <1>1, <1>2, <1>4, <1>5 DEF ExecutorInv, PlanIsLegal, StaleIsMarked, OverlayStaysLegal
<1>9. JournalIsTrue' /\ UntouchedIsKept' /\ WritesAreSafe'
  BY <1>3, <1>4, <1>5, <1>6 DEF JournalIsTrue, UntouchedIsKept, WritesAreSafe
<1> QED BY <1>7, <1>8, <1>9 DEF ExecutorInv

-----------------------------------------------------------------------------
(***************************************************************************)
(* The editors and the dialog.                                             *)
(***************************************************************************)

LEMMA SetOverlayStep ==
  ASSUME ExecutorInv, NEW o \in Overlays, SetOverlay(o)
  PROVE  ExecutorInv'
<1> DEFINE n == Normalize(o, snapshot.state.overlay)
<1>1. snapshot.state.overlay \in Overlays /\ Legal(snapshot.state.overlay)
  BY DEF ExecutorInv, ExecutorTypeOK, PlanIsLegal, Snapshots, Configurations
<1>2. n \in Overlays /\ Legal(n)
  BY <1>1, NormalizeIsLegal
<1> HIDE DEF n
<1>3. /\ draft' = [draft EXCEPT !.overlay = n]
      /\ UNCHANGED <<system, filterOn, snapshot, plan, run, journal>>
  BY DEF SetOverlay, n
<1>4. draft' \in [overlay : Overlays, toggles : SUBSET Facts] /\ draft'.overlay = n
  BY <1>2, <1>3 DEF ExecutorInv, ExecutorTypeOK
<1>5. ExecutorTypeOK'
  BY <1>3, <1>4 DEF ExecutorInv, ExecutorTypeOK
<1>6. PlanIsLegal'
  BY <1>2, <1>3, <1>4 DEF ExecutorInv, PlanIsLegal
<1>7. /\ StaleIsMarked' /\ JournalIsTrue' /\ UntouchedIsKept' /\ WritesAreSafe'
      /\ OverlayStaysLegal'
  BY <1>3 DEF ExecutorInv, StaleIsMarked, JournalIsTrue, UntouchedIsKept, WritesAreSafe,
              OverlayStaysLegal
<1> QED BY <1>5, <1>6, <1>7 DEF ExecutorInv

LEMMA ValuesAre ==
  /\ Values("type") \subseteq {"RAM", "Disk"}
  /\ \A field \in {"size", "warning", "critical"} : Values(field) \subseteq 0..MaximumMb
BY SizesAssumption DEF Values

LEMMA EditOverlayStep ==
  ASSUME ExecutorInv, EditOverlay
  PROVE  ExecutorInv'
<1>1. PICK field \in Edited : \E value \in Values(field) :
        SetOverlay([draft.overlay EXCEPT ![field] = value])
  BY DEF EditOverlay
<1>2. PICK value \in Values(field) : SetOverlay([draft.overlay EXCEPT ![field] = value])
  BY <1>1
<1>3. draft.overlay \in Overlays
  BY DEF ExecutorInv, ExecutorTypeOK
<1>4. [draft.overlay EXCEPT ![field] = value] \in Overlays
  <2>1. field \in Fields
    BY SwitchesAssumption
  <2>2. CASE field = "type"
    BY <1>3, <2>2, ValuesAre DEF Overlays
  <2>3. CASE field = "size"
    BY <1>3, <2>3, ValuesAre DEF Overlays
  <2>4. CASE field = "warning"
    BY <1>3, <2>4, ValuesAre DEF Overlays
  <2>5. CASE field = "critical"
    BY <1>3, <2>5, ValuesAre DEF Overlays
  <2> QED BY <2>1, <2>2, <2>3, <2>4, <2>5 DEF Fields
<1> QED BY <1>2, <1>4, SetOverlayStep

LEMMA ImportOverlayStep ==
  ASSUME ExecutorInv, ImportOverlay
  PROVE  ExecutorInv'
<1> DEFINE kept(field) ==
             {draft.overlay[field]} \cup IF field \in Edited THEN Values(field) ELSE {}
<1>1. PICK type \in kept("type"), size \in kept("size"), warning \in kept("warning"),
           critical \in kept("critical") :
        SetOverlay([type |-> type, size |-> size, warning |-> warning, critical |-> critical])
  BY DEF ImportOverlay
<1>2. draft.overlay \in Overlays
  BY DEF ExecutorInv, ExecutorTypeOK
<1>3. /\ kept("type") \subseteq {"RAM", "Disk"}
      /\ kept("size") \subseteq 0..MaximumMb
      /\ kept("warning") \subseteq 0..MaximumMb
      /\ kept("critical") \subseteq 0..MaximumMb
  BY <1>2, ValuesAre DEF Overlays
<1>4. [type |-> type, size |-> size, warning |-> warning, critical |-> critical] \in Overlays
  BY <1>1, <1>3 DEF Overlays
<1> QED BY <1>1, <1>4, SetOverlayStep

LEMMA EditFactStep ==
  ASSUME ExecutorInv, NEW fact \in Facts, EditFact(fact)
  PROVE  ExecutorInv'
<1>1. UNCHANGED <<system, filterOn, snapshot, plan, run, journal>>
  BY DEF EditFact
<1>2. draft' \in [overlay : Overlays, toggles : SUBSET Facts] /\ draft'.overlay = draft.overlay
  BY DEF EditFact, ExecutorInv, ExecutorTypeOK
<1>3. ExecutorTypeOK'
  BY <1>1, <1>2 DEF ExecutorInv, ExecutorTypeOK
<1>4. /\ PlanIsLegal' /\ StaleIsMarked' /\ JournalIsTrue' /\ UntouchedIsKept' /\ WritesAreSafe'
      /\ OverlayStaysLegal'
  BY <1>1, <1>2 DEF ExecutorInv, PlanIsLegal, StaleIsMarked, JournalIsTrue, UntouchedIsKept,
                    WritesAreSafe, OverlayStaysLegal
<1> QED BY <1>3, <1>4 DEF ExecutorInv

LEMMA RefreshStep ==
  ASSUME ExecutorInv, Refresh
  PROVE  ExecutorInv'
<1>1. /\ run.pc = "idle" /\ UNCHANGED <<system, filterOn, plan, run, journal>>
      /\ snapshot' = [state |-> system, mustRead |-> FALSE, stale |-> FALSE]
      /\ draft' = [overlay |-> system.overlay, toggles |-> {}]
  BY DEF Refresh, NoDraft
<1>2. ExecutorTypeOK'
  <2>1. snapshot' \in Snapshots
    BY <1>1, SystemIsTyped DEF Snapshots
  <2>2. draft' \in [overlay : Overlays, toggles : SUBSET Facts]
    BY <1>1, SystemIsTyped DEF Configurations
  <2> QED BY <1>1, <2>1, <2>2 DEF ExecutorInv, ExecutorTypeOK
<1>3. PlanIsLegal'
  BY <1>1 DEF ExecutorInv, PlanIsLegal, OverlayStaysLegal
<1>4. /\ StaleIsMarked' /\ JournalIsTrue' /\ UntouchedIsKept' /\ WritesAreSafe'
      /\ OverlayStaysLegal'
  BY <1>1 DEF ExecutorInv, StaleIsMarked, JournalIsTrue, UntouchedIsKept, WritesAreSafe,
              OverlayStaysLegal
<1> QED BY <1>2, <1>3, <1>4 DEF ExecutorInv

LEMMA OpenPlanStep ==
  ASSUME ExecutorInv, OpenPlan
  PROVE  ExecutorInv'
<1> DEFINE changed == ChangedFields(draft.overlay, snapshot.state.overlay)
           can == changed # {} \/ draft.toggles # {}
<1>1. /\ run.pc = "idle" /\ ~snapshot.mustRead
      /\ UNCHANGED <<system, filterOn, draft, snapshot, run, journal>>
      /\ plan' = [open |-> TRUE, base |-> snapshot.state, target |-> draft.overlay,
                  changed |-> changed, toggles |-> draft.toggles, stale |-> snapshot.stale,
                  canApply |-> can]
  BY DEF OpenPlan, Editable
<1>2. changed \in SUBSET Fields /\ can \in BOOLEAN
  BY DEF ChangedFields
<1> HIDE DEF can
<1>3. ~snapshot.stale
  BY <1>1 DEF ExecutorInv, JournalIsTrue
<1>4. /\ plan' \in Plans /\ plan'.open /\ plan'.target = draft.overlay
      /\ plan'.base = snapshot.state /\ plan'.changed = changed /\ plan'.stale = FALSE
  <2>1. /\ snapshot.state \in Configurations /\ draft.overlay \in Overlays
        /\ draft.toggles \in SUBSET Facts /\ snapshot.stale \in BOOLEAN
    BY DEF ExecutorInv, ExecutorTypeOK, Snapshots
  <2> HIDE DEF changed
  <2> QED BY <1>1, <1>2, <1>3, <2>1 DEF Plans
<1>5. ExecutorTypeOK'
  BY <1>1, <1>4 DEF ExecutorInv, ExecutorTypeOK
<1>6. PlanIsLegal'
  BY <1>1, <1>4 DEF ExecutorInv, PlanIsLegal
<1>7. StaleIsMarked'
  BY <1>1, <1>3, <1>4 DEF ExecutorInv, StaleIsMarked
<1>8. JournalIsTrue' /\ UntouchedIsKept' /\ WritesAreSafe' /\ OverlayStaysLegal'
  BY <1>1, <1>3, <1>4 DEF ExecutorInv, JournalIsTrue, UntouchedIsKept, WritesAreSafe,
                          OverlayStaysLegal
<1> QED BY <1>5, <1>6, <1>7, <1>8 DEF ExecutorInv

LEMMA ClosePlanStep ==
  ASSUME ExecutorInv, ClosePlan
  PROVE  ExecutorInv'
<1>1. /\ run.pc = "idle" /\ plan' = NoPlan /\ ~plan'.open
      /\ UNCHANGED <<system, filterOn, draft, snapshot, run, journal>>
  BY DEF ClosePlan, NoPlan
<1>2. ExecutorTypeOK'
  BY <1>1 DEF ExecutorInv, ExecutorTypeOK
<1>3. /\ PlanIsLegal' /\ StaleIsMarked' /\ JournalIsTrue' /\ UntouchedIsKept' /\ WritesAreSafe'
      /\ OverlayStaysLegal'
  BY <1>1 DEF ExecutorInv, PlanIsLegal, StaleIsMarked, JournalIsTrue, UntouchedIsKept,
              WritesAreSafe, OverlayStaysLegal
<1> QED BY <1>2, <1>3 DEF ExecutorInv

-----------------------------------------------------------------------------

LEMMA ExecutorInit ==
  ASSUME Init
  PROVE  ExecutorInv
<1>1. system \in Configurations /\ Legal(system.overlay) /\ filterOn \in BOOLEAN
  BY DEF Init, Possible
<1>2. /\ snapshot = [state |-> system, mustRead |-> FALSE, stale |-> FALSE]
      /\ draft = [overlay |-> system.overlay, toggles |-> {}]
      /\ plan = NoPlan /\ ~plan.open /\ run = NoRun /\ journal = NoJournal
  BY DEF Init, NoDraft, NoPlan
<1>3. run \in Runs /\ run.pc = "idle" /\ run.todo = <<>> /\ journal \in Journals
  <2>1. <<>> \in Seq(Writes)
    OBVIOUS
  <2> QED BY <1>2, <2>1 DEF NoRun, Runs, Sections, NoJournal, Journals
<1>4. ExecutorTypeOK
  BY <1>1, <1>2, <1>3 DEF ExecutorTypeOK, Snapshots, Journals, Configurations
<1>5. /\ PlanIsLegal /\ StaleIsMarked /\ JournalIsTrue /\ UntouchedIsKept /\ WritesAreSafe
      /\ OverlayStaysLegal
  BY <1>1, <1>2, <1>3 DEF PlanIsLegal, StaleIsMarked, JournalIsTrue, UntouchedIsKept,
                          WritesAreSafe, OverlayStaysLegal
<1> QED BY <1>4, <1>5 DEF ExecutorInv

LEMMA ExecutorNext ==
  ASSUME ExecutorInv, [Next]_vars
  PROVE  ExecutorInv'
<1>1. CASE EditOverlay \/ ImportOverlay
  BY <1>1, EditOverlayStep, ImportOverlayStep
<1>2. CASE \E fact \in Facts : EditFact(fact)
  BY <1>2, EditFactStep
<1>3. CASE Refresh \/ OpenPlan \/ ClosePlan
  BY <1>3, RefreshStep, OpenPlanStep, ClosePlanStep
<1>4. CASE Apply \/ ApplyFilter \/ ApplyPersistence \/ Publish
  BY <1>4, ApplyStep, ApplyFilterStep, ApplyPersistenceStep, PublishStep
<1>5. CASE PlanThresholds
  BY <1>5, PlanWritesStep DEF PlanThresholds, Sections
<1>6. CASE PlanStorage
  BY <1>6, PlanWritesStep DEF PlanStorage, Sections
<1>7. CASE WriteThresholds
  BY <1>7, WriteOverlayStep DEF WriteThresholds, Sections
<1>8. CASE WriteStorage
  BY <1>8, WriteOverlayStep DEF WriteStorage, Sections
<1>9. CASE ReadVolumes \/ VolumesDone
  BY <1>9, ReadVolumesStep
<1>10. CASE \E fact \in Facts : RegisterVolume(fact) \/ WriteVolume(fact) \/ SkipVolume(fact)
  BY <1>10, RegisterVolumeStep, WriteVolumeStep
<1>11. CASE \E v \in Volumes : OtherTool(v)
  BY <1>11, OtherToolStep
<1>12. CASE UNCHANGED vars
  <2>1. UNCHANGED <<system, filterOn, draft, snapshot, plan, run, journal>>
    BY <1>12 DEF vars
  <2>2. ExecutorTypeOK'
    BY <2>1 DEF ExecutorInv, ExecutorTypeOK
  <2> QED BY <2>1, <2>2 DEF ExecutorInv, PlanIsLegal, StaleIsMarked, JournalIsTrue,
                            UntouchedIsKept, WritesAreSafe, OverlayStaysLegal
<1> QED BY <1>1, <1>2, <1>3, <1>4, <1>5, <1>6, <1>7, <1>8, <1>9, <1>10, <1>11, <1>12 DEF Next

\* The inductive invariant holds in every state of executePlan and its dialogs.
THEOREM ExecutorInvariant == Spec => []ExecutorInv
<1>1. Init => ExecutorInv
  BY ExecutorInit
<1>2. ExecutorInv /\ [Next]_vars => ExecutorInv'
  BY ExecutorNext
<1> QED BY <1>1, <1>2, PTL DEF Spec

\* Whatever is edited or imported and whichever of planOverlayWrites' writes fails,
\* the provider holds a legal overlay, for all sizes, bounds and thresholds.
THEOREM OverlayIsAlwaysLegal == Spec => []OverlayStaysLegal
<1>1. ExecutorInv => OverlayStaysLegal
  BY DEF ExecutorInv
<1> QED BY <1>1, ExecutorInvariant, PTL

\* publishResult lets a plan be applied again only while nothing it wrote can have
\* taken effect.
THEOREM RetryStaysSafe == Spec => []RetryIsSafe
<1>1. ExecutorInv => RetryIsSafe
  BY DEF ExecutorInv, JournalIsTrue, RetryIsSafe
<1> QED BY <1>1, ExecutorInvariant, PTL

\* The editors are usable only over a snapshot that no write of executePlan has
\* overtaken.
THEOREM EditorsStayCurrent == Spec => []EditorsAreCurrent
<1>1. ExecutorInv => EditorsAreCurrent
  BY DEF ExecutorInv, JournalIsTrue, EditorsAreCurrent, Editable
<1> QED BY <1>1, ExecutorInvariant, PTL
=============================================================================
