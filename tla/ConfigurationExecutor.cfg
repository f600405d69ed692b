CONSTANTS
  MaximumMb = 2
  EditorMaximum = 1
  DiskMinimum = 1
  TotalRam = 0
  Edited = {}
  Switches = {"filter", "license"}
  Volumes = {c}
SPECIFICATION Spec
INVARIANTS
  RetryIsSafe
  EditorsAreCurrent
