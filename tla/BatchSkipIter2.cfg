SPECIFICATION Spec
CONSTANTS
  Batches = 2
  StampsPerBatch = 2
  NumLayers = 4
  StampCount <- SkipStampCount
  Iterations <- SkipIterations
  Kernel <- SkipKernel
  Elf <- SkipElf
  StartPc <- SkipStartPc
  PmReloadEn <- BatchEn
  AliasPc <- SkipAlias
  PostLayerPc <- BatchPost
  SkipMode = "skip_iter2"
  ResetPc = 1
  ExitAt = 4
  MayTimeOut = FALSE
PROPERTIES StepsInLockStep RunCompletes
CHECK_DEADLOCK FALSE
