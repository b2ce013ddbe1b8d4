CONSTANTS
  c1 = c1
  c2 = c2
  c3 = c3
  h0 = h0
  h1 = h1
  h2 = h2
  Channels <- MCChannels
  Hashes <- MCHashes
  MaxReps = 2
  HashesMax = 2
  BaseBlock = h0
  BaseEndpoints <- MCBaseEndpoints
  Bundle <- MCBundle
  Requests <- MCRequests
  FloodBlocks <- MCFloodBlocks
  CleanupEnabled = TRUE
  NetworkThreads = 1
  ListenPort = 7075
  NoPeering = NoPeering
SPECIFICATION Spec
INVARIANT TypeOK
INVARIANT BaseExactlyOnce
INVARIANT BatchedInOrder
PROPERTY ChainCompletes
PROPERTY StopDrains
INVARIANT NoDoubleJoin
PROPERTY NetStopReturns
CHECK_DEADLOCK FALSE
