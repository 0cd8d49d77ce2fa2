SPECIFICATION Spec
CONSTANTS
  Configs <- AllConfigs
  Den = 10
  NumKvHeads = 1
  MaxPages = 3
  NumCG = 3
  NumVB = 1
  MinSlots = 1
  Sensitivity <- Rising
INVARIANTS ArenaSuffices TotalPreserved EstimateCoversPages
