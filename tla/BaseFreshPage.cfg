SPECIFICATION StorageSpec
CONSTANTS
  Settings <- Int8Only
  PageSize = 2
  MaxPages = 2
  HeadDim = 8
  RowCodes <- TwoRows
  Scales = {1, 3}
  QMax = 127
  Shapes <- SmallShapes
  Values <- SmallValues
INVARIANT NoTokenVanishes
CHECK_DEADLOCK FALSE
