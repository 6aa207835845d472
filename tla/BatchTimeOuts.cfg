SPECIFICATION Spec
CONSTANTS
  Batches = 1
  StampsPerBatch = 3
  NumLayers = 4
  StampCount <- ReloadStampCount
  Iterations <- ReloadIterations
  Kernel <- ReloadKernel
  Elf <- ReloadElf
  StartPc <- ReloadStartPc
  PmReloadEn <- ReloadEn
  SkipMode = "none"
  AliasPc <- ReloadAlias
  PostLayerPc <- ReloadPost
  ResetPc = 1
  ExitAt = 3
  MayTimeOut = TRUE
INVARIANTS HangFailsRun
PROPERTIES FinishedRunsOut RunEnds
CHECK_DEADLOCK FALSE
