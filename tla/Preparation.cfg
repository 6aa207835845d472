SPECIFICATION TreeSpec
CONSTANTS
  Designs <- AllDesigns
  Unsupported = {"dma"}
  SkipEndPc = {}
  Superkernels = {"superkernel"}
INVARIANTS TypeOK ExecutionOrder PcsAreTrue StampCountTrue SkipIsSafe FunctionsRecovered KernelTreeTrue CallTreeTrue
CHECK_DEADLOCK FALSE
