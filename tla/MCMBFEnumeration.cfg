CONSTANTS
  Threads = {t1, t2, t3}
  Classes <- MCClasses
  Bot = "0"  Top = "8"
  Succ <- MCSucc
  Rank <- MCRank
  Nobody = Nobody
SPECIFICATION FairEnumSpec
INVARIANTS
  FoundOnce
  AllWaitingMeansAllDone
  ResultComplete
PROPERTIES
  EnumerationReturns
