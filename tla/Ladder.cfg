SPECIFICATION FairSpec
CONSTANTS
  llama13b = llama13b
  deepseek = deepseek
  openllama = openllama
  yi34b = yi34b
  Models = {llama13b, deepseek, openllama, yi34b}
  GPUs = {0, 1, 2, 3, 4, 5}
  Lanes <- McLanes
  Scripts <- McScripts
  OldFiles <- McOldFiles
  MaxReboots = 2
  MaxFailures = 2
  MaxHangs = 1
INVARIANTS GPUsExclusive OneRowPerModel RowsUnderTheirHeader DoneMeansSettled
PROPERTY Finishes
CHECK_DEADLOCK FALSE
