SPECIFICATION DumpSpec
CONSTANTS
  Batches = 2
  StampsPerBatch = 2
  NumLayers = 4
  StampCount <- BatchStampCount
  Iterations <- BatchIterations
  Kernel <- BatchKernel
  Elf <- BatchElf
  StartPc <- BatchStartPc
  PmReloadEn <- BatchEn
  SkipMode = "none"
  AliasPc <- BatchAlias
  PostLayerPc <- BatchPost
  ResetPc = 1
  ExitAt = 4
  MayTimeOut = FALSE
  Columns = 2
  TileSize = 2
  InBuffers <- DumpIn
  WtsBuffers <- DumpWts
  OutBuffers <- DumpOut
  Transfers <- DumpTransfers
  DepthIter <- DumpDepth
  DumpFlags = {"tg_dump"}
INVARIANTS TypeOK ArmedNeverOvershoots Tracking FilesHoldWhatTheySay EveryTransferDumped
PROPERTIES ObservationsAreTrue StepsInLockStep RunCompletes RequestedInTurn
CHECK_DEADLOCK FALSE
