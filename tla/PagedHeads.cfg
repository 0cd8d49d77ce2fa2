SPECIFICATION Spec
CONSTANTS
  NumLayers = 1
  NumKvHeads = 2
  PageSize = 2
  MaxPages = 2
  NumCG = 1
  VTokenBlock = 2
  Joint = FALSE
  KBudget <- One
  VBudget <- One
  JointBudget <- Two
  KArena = 3
  VArena = 4
  DecodeResidual = TRUE
  Token = {a, b}
  Zero = zero
  MaxPrompt = 4
  MaxContext = 5
INVARIANTS
  TypeOK TokenStartExact RouterOffsetsAligned ResidualsMatchBase
PROPERTY
  ImplementsContext
