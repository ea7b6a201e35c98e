CONSTANTS
  j0 = j0  j1 = j1  n0 = n0  n1 = n1  p0 = p0  p1 = p1  p2 = p2
  Jobs <- MCJobs  Sets <- MCSets  SetOf <- MCSetOf
  Nodes <- MCNodes  Procs <- MCProcs  NodeOf <- MCNodeOf
  Weight <- MCWeight
  MayCrash = TRUE  MayErr = FALSE
  ResetDirs = {}
  Tasks = 1
  NoFile = NoFile  Torn = Torn  NoJob = NoJob  NoNode = NoNode
SPECIFICATION FairSpec
PROPERTY
  CollectorAnswers
