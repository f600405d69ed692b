CONSTANTS
  Processes = {p1, p2}
  None = None
SPECIFICATION Spec
INVARIANTS
  ForwardedIsDone
  OneExecutor
PROPERTIES
  CommandsTakeEffect
CHECK_DEADLOCK FALSE
