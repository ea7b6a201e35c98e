CONSTANTS
  s0 = s0  s1 = s1
  c0 = c0  c1 = c1  p0 = p0  p1 = p1  r0 = r0  r1 = r1  v0 = v0  v1 = v1
  i0 = i0  i1 = i1  i2 = i2  i3 = i3
  o0 = o0  o1 = o1
  Sockets <- MCSockets
  Creators = {c0, c1}  Processors = {p0, p1}
  ResultThreads = {r0, r1}  Validators = {v0, v1}
  SocketOf <- MCSocketOf
  NumTops = 5  Batch = 2
  InputBufs <- MCInputBufs  ResultBufs <- MCResultBufs  HomeOf <- MCHomeOf
  Hold = 0  OwnSocket = TRUE  MayFail = FALSE
  NoBuf = NoBuf  Nobody = Nobody
SPECIFICATION Spec
INVARIANT RingQueuesNotOverfull
