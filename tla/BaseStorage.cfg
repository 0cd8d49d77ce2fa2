SPECIFICATION StorageSpec
CONSTANTS
  Settings <- Working
  PageSize = 2
  MaxPages = 2
  HeadDim = 8
  RowCodes <- TwoRows
  Scales = {1, 3, 500}
  QMax = 127
  Shapes <- SmallShapes
  Values <- SmallValues
INVARIANTS DecodeReadsWritten ScaleErrorBounded RowsRestored
PROPERTY EarlierRowsKept
CHECK_DEADLOCK FALSE
