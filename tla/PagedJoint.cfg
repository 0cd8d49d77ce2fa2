SPECIFICATION SizedSpec
CONSTANTS
  Config <- OneThird
  Den = 3
  MinSlots = 1
  Sensitivity <- Rising
  NumLayers = 2
  NumKvHeads = 1
  PageSize = 3
  MaxPages = 2
  NumCG = 1
  VTokenBlock = 2
  Joint = TRUE
  KBudget <- OneKind
  VBudget <- OneKind
  JointBudget <- Both
  KArena = 5
  VArena = 5
  DecodeResidual = TRUE
  Token = {a}
  Zero = zero
  MaxPrompt = 7
  MaxContext = 7
INVARIANTS
  SlotsExclusive BatchedAddsTheSame CorrectsItsToken LeakBounded
PROPERTY
  ImplementsBudget
