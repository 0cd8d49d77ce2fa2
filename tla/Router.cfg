SPECIFICATION Spec
CONSTANTS
  Configs <- AllConfigs
  Den = 4
  Scores = {0, 1, 2}
  MaxK = 3
  MaxV = 2
INVARIANTS
  ReadsWithinBudget ReadsAreTop MoreBudgetKeepsReads
  PrefillGateExact VectorizedMirrorsRoute
