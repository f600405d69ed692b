CONSTANTS
  MaximumMb = 4
  EditorMaximum = 3
  DiskMinimum = 2
  TotalRam = 2
  Edited = {"type", "size", "warning", "critical"}
  Switches = {}
  Volumes = {}
SPECIFICATION Spec
INVARIANTS
  OverlayStaysLegal
