CONSTANTS
  s0 = s0  c0 = c0  p0 = p0  p1 = p1  r0 = r0  v0 = v0
  Sockets = {s0}
  Creators = {c0}  Processors = {p0, p1}
  ResultThreads = {r0}  Validators = {v0}
  SocketOf <- MCSocketOf
  NumTops = 4  Batch = 1
  InputBufs = {i0, i1}  ResultBufs = {o0, o1}  HomeOf <- MCHomeOf
  Hold = 0  OwnSocket = FALSE  MayFail = FALSE
  NoBuf = NoBuf  Nobody = Nobody
  Main = main  Callbacks = {k0}  SlotAt <- MCSlotAt
  NoSlot = NoSlot  Unread = Unread
SPECIFICATION FairHostSpec
INVARIANTS
  AllTopsAtReturn
  HostReturnsLast
  FrameLeftAlone
PROPERTY EitherPipelineReturns
\* A lost decrement leaves the main thread waiting for ever, and a second event
\* ends the process.
CHECK_DEADLOCK FALSE
