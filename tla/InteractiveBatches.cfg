SPECIFICATION Spec
CONSTANTS
  Batches = 2
  StampsPerBatch = 2
  NumLayers = 3
  StampCount <- TwoStampCount
  Iterations <- TwoIterations
  Kernel <- StepKernel
  Elf <- StepElf
  StartPc <- StepStartPc
  PmReloadEn <- StepEn
  SkipMode = "none"
  AliasPc <- StepAlias
  PostLayerPc <- StepPost
  ResetPc = 1
  ExitAt = 3
  MayTimeOut = FALSE
  Breakpoints <- NoBreakpoints
  MaxBreakpoints = 0
PROPERTIES ObservationsAreTrue
CHECK_DEADLOCK FALSE
