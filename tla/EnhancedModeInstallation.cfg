SPECIFICATION Spec
INVARIANT
  AppliedIsKept
