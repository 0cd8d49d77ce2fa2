SPECIFICATION Spec
CONSTANTS
  Settings <- AllSettings
  Den = 8
  NumHeads = 4
  NumKvHeads = 2
  MaxTokens = 5
INVARIANTS
  OneBase CausalUnlessAllEvicted EvictionKeepsItsShare OwnCorrection
CHECK_DEADLOCK FALSE
