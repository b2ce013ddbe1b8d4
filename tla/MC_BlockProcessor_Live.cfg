CONSTANTS
  p1 = p1
  p2 = p2
  r1 = r1
  r2 = r2
  NoBlock = NoBlock
  Blocks <- MCBlocks
  RootOf <- MCRootOf
  Dep <- MCDep
  StateBlocks = {2, 3}
  EpochLinks = {}
  BadWork = {}
  BadSig = {}
  FullSize = 2
  BatchSize = 1
  StoreBatchMax = 2
  Producers <- MCOneProducer
  Calls <- MCCalls
  MayStop = FALSE
SPECIFICATION Spec
PROPERTY QueuedEventuallyProcessed
PROPERTY FlushReturns
CHECK_DEADLOCK FALSE
