CONSTANT Requests = {r1, r2, r3}
SPECIFICATION CoordinatorSpec
INVARIANTS
  OwnershipAgrees
  QueueHoldsTheWaiters
  NoStrandedRequest
PROPERTIES
  OneResultForAll
  EveryRequestAnswered
