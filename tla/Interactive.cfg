SPECIFICATION Spec
CONSTANTS
  Batches = 1
  StampsPerBatch = 2
  NumLayers = 3
  StampCount <- StepStampCount
  Iterations <- StepIterations
  Kernel <- StepKernel
  Elf <- StepElf
  StartPc <- StepStartPc
  PmReloadEn <- StepEn
  SkipMode = "none"
  AliasPc <- StepAlias
  PostLayerPc <- StepPost
  ResetPc = 1
  ExitAt = 3
  MayTimeOut = FALSE
  Breakpoints <- InEveryLayer
  MaxBreakpoints = 2
INVARIANTS TypeOK StoppedUnlessFinished
PROPERTIES StepsInLockStep ObservationsAreTrue NoBreakpointPassed ContinueReturns FinishCompletes
CHECK_DEADLOCK FALSE
