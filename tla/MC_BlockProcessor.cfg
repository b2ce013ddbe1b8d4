CONSTANTS
  p1 = p1
  p2 = p2
  r1 = r1
  r2 = r2
  NoBlock = NoBlock
  Blocks <- MCBlocks
  RootOf <- MCRootOf
  Dep <- MCDep
  StateBlocks = {2, 3}
  EpochLinks = {}
  BadWork = {}
  BadSig = {}
  FullSize = 2
  BatchSize = 1
  StoreBatchMax = 2
  Producers <- MCProducers
  Calls <- MCCalls
  MayStop = TRUE
SPECIFICATION Spec
INVARIANT TypeOK
INVARIANT BlockingHeld
INVARIANT ParkedTriggerPending
PROPERTY FlushDrains
PROPERTY ForcedReplaces
PROPERTY ImplementsBlockQueue
CHECK_DEADLOCK FALSE
