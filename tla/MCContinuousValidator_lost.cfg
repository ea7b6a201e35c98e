CONSTANTS
  j1 = j1  j2 = j2  j3 = j3  j4 = j4  j5 = j5
  Workers = {w1, w2}
  Jobs    <- MCJobs
  Bad     <- MCBad
  BadEnds <- MCBadEnds
  Short   <- MCShort
  NoJob   = NoJob
SPECIFICATION Spec
INVARIANT DetectedErrorsReachJob
