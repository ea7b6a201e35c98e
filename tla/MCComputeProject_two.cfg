CONSTANTS
  j0 = j0  j1 = j1  n0 = n0  n1 = n1  p0 = p0  p1 = p1  p2 = p2
  Jobs <- MCJobs  Sets <- MCSets  SetOf <- MCSetOf
  Nodes <- MCNodes  Procs <- MCTwoProcs  NodeOf <- MCNodeOf
  Weight <- MCWeight
  MayCrash = FALSE  MayErr = FALSE
  ResetDirs = {"working", "critical"}
  Tasks = 1
  NoFile = NoFile  Torn = Torn  NoJob = NoJob  NoNode = NoNode
SPECIFICATION Spec
SYMMETRY TwoSymmetry
INVARIANTS
  AcceptedExact
CHECK_DEADLOCK FALSE
