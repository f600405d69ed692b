-------------------------- MODULE OverlayWritePlan --------------------------
(***************************************************************************)
(* The overlay's four settings: what a legal combination is, how the       *)
(* editor keeps the draft inside it (GlobalConfigurationEditor::normalize) *)
(* and in which order changed settings are written (planOverlayWrites).    *)
(* Sizes are whole units of the editor's scale, 0 switches a threshold off.*)
(***************************************************************************)
EXTENDS Integers, Sequences

CONSTANTS
  MaximumMb,      \* the largest number the provider can hold (uint32)
  EditorMaximum,  \* the largest number the editor can show (int)
  DiskMinimum,    \* kDiskOverlayMinSizeMb
  TotalRam        \* physical memory, 0 when unknown

ASSUME SizesAssumption ==
  /\ {MaximumMb, EditorMaximum, DiskMinimum, TotalRam} \subseteq Nat
  /\ 0 < DiskMinimum /\ DiskMinimum <= EditorMaximum /\ EditorMaximum < MaximumMb

Fields == {"type", "size", "warning", "critical"}
Overlays == [type : {"RAM", "Disk"}, size : 0..MaximumMb, warning : 0..MaximumMb,
             critical : 0..MaximumMb]

\* What the provider asks of a configuration at any time.
LegalThresholds(o) == o.warning = 0 \/ o.critical = 0 \/ o.warning < o.critical
LegalStorage(o) == o.type = "Disk" => o.size >= DiskMinimum
Legal(o) == LegalThresholds(o) /\ LegalStorage(o)

Lower(a, b) == IF a < b THEN a ELSE b
Upper(a, b) == IF a < b THEN b ELSE a
Clamp(value, low, high) == Lower(Upper(value, low), high)

\* overlaySizeBounds, with the maximum normalize gives to clamp
SizeMinimum(type) == IF type = "RAM" THEN 0 ELSE DiskMinimum
SizeMaximum(type) ==
  Upper(SizeMinimum(type),
        IF type = "RAM" /\ TotalRam > 0 THEN Lower(TotalRam, EditorMaximum) ELSE EditorMaximum)

\* warningThresholdMaximum and strictThresholdUpper
WarningThresholdMaximum(critical) ==
  IF critical = 0 \/ critical > EditorMaximum THEN EditorMaximum ELSE Upper(critical - 1, 0)

\* normalize: only what the user has touched is brought into range.
Normalize(o, baseline) ==
  [o EXCEPT
    !.size = IF o.type # baseline.type \/ o.size # baseline.size
             THEN Clamp(@, SizeMinimum(o.type), SizeMaximum(o.type)) ELSE @,
    !.warning = IF o.warning # baseline.warning \/ o.critical # baseline.critical
                THEN Clamp(@, 0, WarningThresholdMaximum(o.critical)) ELSE @]

\* GlobalConfigurationDraft::pendingOverlay: the fields to be written
ChangedFields(o, baseline) == {field \in Fields : o[field] # baseline[field]}

Writes == [field : Fields, requiresPrevious : BOOLEAN]
Write(field, requiresPrevious) == [field |-> field, requiresPrevious |-> requiresPrevious]

\* Variant: no write depends on the one before it.
PlanOverlayWritesIndependent(baseline, target, changed) ==
  IF {"warning", "critical"} \subseteq changed
  THEN <<Write("critical", FALSE), Write("warning", FALSE)>>
  ELSE IF {"type", "size"} \subseteq changed
  THEN <<Write("size", FALSE), Write("type", FALSE)>>
  ELSE IF changed = {} THEN <<>> ELSE <<Write(CHOOSE field \in changed : TRUE, FALSE)>>

\* planOverlayWrites.  Each caller asks for one of the two pairs at a time.
PlanOverlayWrites(baseline, target, changed) ==
  LET storage ==
        IF {"type", "size"} \subseteq changed
        THEN IF target.type = "Disk" THEN <<Write("size", FALSE), Write("type", TRUE)>>
             ELSE <<Write("type", FALSE), Write("size", TRUE)>>
        ELSE IF "type" \in changed THEN <<Write("type", FALSE)>>
        ELSE IF "size" \in changed THEN <<Write("size", FALSE)>> ELSE <<>>
      warningNeedsCritical == baseline.critical # 0 /\ target.warning >= baseline.critical
      enableCriticalFirst == baseline.critical = 0 /\ target.critical > baseline.warning
      thresholds ==
        IF {"warning", "critical"} \subseteq changed
        THEN IF target.warning # 0 /\ (warningNeedsCritical \/ enableCriticalFirst)
             THEN <<Write("critical", FALSE), Write("warning", TRUE)>>
             ELSE <<Write("warning", FALSE),
                    Write("critical", target.critical <= baseline.warning)>>
        ELSE IF "warning" \in changed THEN <<Write("warning", FALSE)>>
        ELSE IF "critical" \in changed THEN <<Write("critical", FALSE)>> ELSE <<>>
  IN storage \o thresholds
=============================================================================
