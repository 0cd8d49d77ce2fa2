SPECIFICATION Spec
CONSTANTS
  cuda0 = cuda0
  cuda1 = cuda1
  NumLayers = 2
  DeviceOf <- TwoDevices
  NoDevice = none
  Token = {a, b}
  Uses <- OneRow
  WithoutReset = FALSE
  MinPrompt = 2
  MaxPrompt = 2
  MaxContext = 3
INVARIANT AttendsContext
