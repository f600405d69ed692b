CONSTANT Requests = {r1, r2}
SPECIFICATION Spec
INVARIANTS
  LeaseFollowsFlow
  CommitIsExclusive
  PowerIsEarned
  NoLogicError
  DialogNeverStalls
  ApplyIsAlone
  PlanGateIsFresh
PROPERTIES
  AnswersAreTrue
  ReconciledBeforeApply
  PowerFlowMovesOn
