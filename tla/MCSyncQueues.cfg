CONSTANTS
  a = a  b = b  c = c  p = p  q = q
  b0 = b0  b1 = b1  d0 = d0  d1 = d1
  NumSockets = 2
  Creators = {a, b, c}  Processors = {p, q}
  SocketOf <- MCSocketOf
  Rotates = {p}
  NumTops = 5  Batch = 2
  InitialAlloc <- MCInitialAlloc
SPECIFICATION FairSyncSpec
INVARIANTS
  BuffersConserved
  SleepersAreWoken
  NoJobBesideSleepers
PROPERTIES
  LoopDrains
