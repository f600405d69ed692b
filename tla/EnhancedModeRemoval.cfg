SPECIFICATION Spec
INVARIANT
  DeletedIsDeleted
