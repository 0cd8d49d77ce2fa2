SPECIFICATION Spec
CONSTANTS
  cuda0 = cuda0
  cuda1 = cuda1
  NumLayers = 3
  DeviceOf <- OneDevice
  NoDevice = none
  Token = {a, b}
  Uses <- AllUses
  WithoutReset = TRUE
  MinPrompt = 1
  MaxPrompt = 2
  MaxContext = 4
INVARIANTS AttendsContext CacheHoldsContext HfLengthInStep
PROPERTIES ImplementsContext
