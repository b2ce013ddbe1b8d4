CONSTANTS
  v1 = v1
  v2 = v2
  v3 = v3
  null = null
  NoVote = NoVote
  NoBlock = NoBlock
  Voters <- MCVoters
  NullAccount <- null
  Weight <- MCWeight
  Blocks <- MCTwoBlocks
  InitialBlock = 1
  MaxTimestamp = 1
  MaxBlocks = 2
  Delta = 2
  MinPrincipalWeight = 0
  Canary = TRUE
  LocalVoting = TRUE
  LocalRep = v1
  VoteThreads = {t1, t2}
  Publishers = {p1}
  InactiveTallies = {0, 3}
SPECIFICATION Spec
INVARIANT NotifiedOnce
CHECK_DEADLOCK FALSE
