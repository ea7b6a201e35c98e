CONSTANTS
  Workers = {w1, w2}
  Main = main
  NumRounds = 2
  NumBlocks <- MCNumBlocks
SPECIFICATION FairPoolSpec
INVARIANTS
  PoolInv
  NobodyRunsDeadFrame
  BlocksOnce
PROPERTIES
  ImplementsForkJoin
  PoolWindsDown
