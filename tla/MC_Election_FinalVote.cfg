CONSTANTS
  v1 = v1
  v2 = v2
  v3 = v3
  null = null
  NoVote = NoVote
  NoBlock = NoBlock
  Voters <- MCVoters
  NullAccount <- null
  Weight <- MCWeight
  Blocks <- MCBlocks
  InitialBlock = 1
  MaxTimestamp = 1
  MaxBlocks = 2
  Delta = 2
  MinPrincipalWeight = 0
  Canary = FALSE
  LocalVoting = FALSE
  LocalRep = v1
  VoteThreads = {t1}
  Publishers = {p1}
  InactiveTallies = {0, 3}
SPECIFICATION Spec
PROPERTY FinalVoteNeverSuperseded
CHECK_DEADLOCK FALSE
