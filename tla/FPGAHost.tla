------------------------------ MODULE FPGAHost ------------------------------
(***************************************************************************)
(* The pipeline with either kind of processor. With CPU threads it is      *)
(* PCoeffPipeline as it stands. With the FPGA host program, each           *)
(* "processor" is a slot: a pair of device buffers. The main thread calls  *)
(* pushJob once for every slot; when a slot's result has been read back,   *)
(* the OpenCL runtime runs a callback on a thread of its own, which pushes *)
(* the output and calls pushJob for that slot again. A pushJob blocks its  *)
(* thread while there is no job or no result buffer. When the queue is     *)
(* closed it counts its slot out of activeSlots, a plain int, and whoever  *)
(* finds it 0 sets the event on which the main thread waits. The main      *)
(* thread's return takes the int and the event away from those still in    *)
(* pushJob: what they then read of the int may be anything.                *)
(*                                                                         *)
(* Every step of the loop is one of PCoeffPipeline's, with a thread to do  *)
(* it. What the device computes, and the kernel's arguments, are left out. *)
(***************************************************************************)
EXTENDS PCoeffPipeline

CONSTANTS
  Main,        \* the thread of fpgaProcessor_Throughput_SingleThread
  Callbacks,   \* the threads on which the OpenCL runtime runs callbacks
  SlotAt,      \* the order in which the main thread goes through the slots
  NoSlot, Unread

HostThreads == Callbacks \cup {Main}
NumSlots    == Cardinality(Processors)  \* DEVICE_COUNT * NUM_BUFFERS

ASSUME HostAssumption ==
  /\ IsFiniteSet(Processors) /\ IsFiniteSet(Callbacks) /\ Main \notin Callbacks
  /\ SlotAt \in [0 .. NumSlots - 1 -> Processors]
  /\ \A i, j \in 0 .. NumSlots - 1 : SlotAt[i] = SlotAt[j] => i = j
  /\ NoSlot \notin Processors /\ Unread \notin Int

VARIABLES
  fpga,         \* the processorFunc of processJob: the FPGA host, or CPU threads
  rereads,      \* the build reads activeSlots again to test it (no optimisation)
  nextSlot,     \* the slots the main thread's loops have come to
  at,           \* per thread: the slot whose pushJob it is in
  seen,         \* per thread: the value of activeSlots it has read, to write one less
  tail,         \* per thread: what is left of pushJob after that write
  activeSlots,
  doneEvent,    \* multiKernel.doneEvent is complete
  hostDone,     \* fpgaProcessor_Throughput_SingleThread returned
  aborted       \* checkError ended the process

program   == <<fpga, rereads>>
countVars == <<seen, tail, activeSlots, doneEvent, aborted>>
hostVars  == <<program, nextSlot, at, countVars, hostDone>>
allVars   == <<vars, hostVars>>

HostTypeOK ==
  /\ fpga \in BOOLEAN /\ rereads \in BOOLEAN
  /\ nextSlot \in 1 .. NumSlots
  /\ at \in [HostThreads -> Processors \cup {NoSlot}]
  /\ seen \in [HostThreads -> Int \cup {Unread}]
  /\ tail \in [HostThreads -> {"none", "test", "set", "leave"}]
  /\ activeSlots \in Int
  /\ doneEvent \in BOOLEAN /\ hostDone \in BOOLEAN /\ aborted \in BOOLEAN

\* Mutant: one slot less is counted than there are.
HostInitShort ==
  /\ Init /\ fpga \in BOOLEAN /\ rereads \in (IF fpga THEN BOOLEAN ELSE {FALSE})
  /\ nextSlot = 1 /\ activeSlots = NumSlots - 1
  /\ at = [h \in HostThreads |-> IF h = Main THEN SlotAt[0] ELSE NoSlot]
  /\ seen = [h \in HostThreads |-> Unread] /\ tail = [h \in HostThreads |-> "none"]
  /\ doneEvent = FALSE /\ hostDone = FALSE /\ aborted = FALSE

\* The main thread begins with pushJob for the first slot.
HostInit ==
  /\ Init /\ fpga \in BOOLEAN /\ rereads \in (IF fpga THEN BOOLEAN ELSE {FALSE})
  /\ nextSlot = 1 /\ activeSlots = NumSlots
  /\ at = [h \in HostThreads |-> IF h = Main THEN SlotAt[0] ELSE NoSlot]
  /\ seen = [h \in HostThreads |-> Unread] /\ tail = [h \in HostThreads |-> "none"]
  /\ doneEvent = FALSE /\ hostDone = FALSE /\ aborted = FALSE

\* The thread is in pushJob, before the test of jobOpt or with a job in its slot.
Pushing(h) == fpga /\ at[h] # NoSlot /\ seen[h] = Unread /\ tail[h] = "none"

\* pushJob returns: the main thread goes on to the next slot, a callback ends.
LeavePushJob(h) ==
  IF h = Main /\ nextSlot < NumSlots
  THEN at' = [at EXCEPT ![h] = SlotAt[nextSlot]] /\ nextSlot' = nextSlot + 1
  ELSE at' = [at EXCEPT ![h] = NoSlot] /\ UNCHANGED nextSlot

\* pop_wait_prefer_random finds a job, whose input is sent off to the device.
PopJob(h, t) ==
  /\ Pushing(h) /\ PopInput(at[h], t)
  /\ UNCHANGED <<nextSlot, at, countVars, hostDone>>

\* The result buffer, the command that will fill it, and its callback.
LaunchRead(h, t) ==
  /\ Pushing(h) /\ TakeResult(at[h], t)
  /\ LeavePushJob(h)
  /\ UNCHANGED <<countVars, hostDone>>

\* Some time after the read has finished: push the output, then pushJob.
RunCallback(h, p, t) ==
  /\ fpga /\ h \in Callbacks /\ at[h] = NoSlot
  /\ PushOutput(p, t)
  /\ at' = [at EXCEPT ![h] = p]
  /\ UNCHANGED <<nextSlot, countVars, hostDone>>

\* The pop finds the queue closed and empty; activeSlots-- reads.
NoMoreJobs(h) ==
  /\ Pushing(h) /\ ProcessorExit(at[h])
  /\ seen' = [seen EXCEPT ![h] = activeSlots]
  /\ UNCHANGED <<nextSlot, at, tail, activeSlots, doneEvent, hostDone, aborted>>

\* activeSlots-- writes. The optimised code goes on with the value it wrote.
WriteCount(h) ==
  /\ seen[h] # Unread
  /\ activeSlots' = seen[h] - 1
  /\ seen' = [seen EXCEPT ![h] = Unread]
  /\ tail' = [tail EXCEPT ![h] = IF rereads THEN "test"
                                 ELSE IF seen[h] - 1 = 0 THEN "set" ELSE "leave"]
  /\ UNCHANGED <<vars, nextSlot, at, doneEvent, hostDone, aborted>>

\* The other code reads it once more: after the main thread's function returned,
\* this is memory of a frame that is gone, with any value.
TestAgain(h) ==
  /\ tail[h] = "test"
  /\ \E zero \in BOOLEAN :
       /\ ~hostDone => zero = (activeSlots = 0)
       /\ tail' = [tail EXCEPT ![h] = IF zero THEN "set" ELSE "leave"]
  /\ UNCHANGED <<vars, nextSlot, at, seen, activeSlots, doneEvent, hostDone, aborted>>

\* clSetUserEventStatus fails for an event that is complete already, and
\* checkError then ends the process.
SetEvent(h) ==
  /\ tail[h] = "set"
  /\ doneEvent' = TRUE /\ aborted' = doneEvent
  /\ tail' = [tail EXCEPT ![h] = "leave"]
  /\ UNCHANGED <<vars, nextSlot, at, seen, activeSlots, hostDone>>

Leave(h) ==
  /\ tail[h] = "leave"
  /\ tail' = [tail EXCEPT ![h] = "none"] /\ LeavePushJob(h)
  /\ UNCHANGED <<vars, seen, activeSlots, doneEvent, hostDone, aborted>>

\* clWaitForEvents returns after the main thread went through all slots.
HostReturn ==
  /\ fpga /\ at[Main] = NoSlot /\ doneEvent /\ ~hostDone
  /\ hostDone' = TRUE
  /\ UNCHANGED <<vars, nextSlot, at, countVars>>

HostStep(h) ==
  /\ ~aborted /\ UNCHANGED program
  /\ \/ h = Main /\ HostReturn
     \/ NoMoreJobs(h) \/ WriteCount(h) \/ TestAgain(h) \/ SetEvent(h) \/ Leave(h)
     \/ \E t \in Tops :
          PopJob(h, t) \/ LaunchRead(h, t) \/ \E p \in Processors : RunCallback(h, p, t)

\* A CPU thread; the other threads of the pipeline; and what follows the return
\* of processorFunc.
CpuStep(p) == ~fpga /\ ProcessorStep(p) /\ UNCHANGED hostVars

LoopStep(w) ==
  /\ ~aborted
  /\ \/ w \in Creators /\ CreatorStep(w)
     \/ w \in ResultThreads /\ ResultStep(w)
     \/ w \in Validators /\ ValidatorStep(w)
  /\ UNCHANGED hostVars

EndStep ==
  /\ ~aborted
  /\ \/ CloseInput \/ Return
     \/ \E s \in Sockets : CloseValidation(s)
     \/ (fpga => hostDone) /\ \E s \in Sockets : CloseOutput(s)
  /\ UNCHANGED hostVars

HostNext ==
  \/ \E h \in HostThreads : HostStep(h)
  \/ \E p \in Processors : CpuStep(p)
  \/ \E w \in Threads : LoopStep(w)
  \/ EndStep
  \/ Terminated /\ UNCHANGED hostVars

HostSpec == HostInit /\ [][HostNext]_allVars

\* As in PCoeffPipeline; and the OpenCL runtime runs every callback in the end.
FairHostSpec ==
  /\ HostSpec
  /\ \A h \in HostThreads : WF_allVars(HostStep(h))
  /\ \A p \in Processors : WF_allVars(CpuStep(p))
  /\ \A w \in Threads : WF_allVars(LoopStep(w))
  /\ WF_allVars(EndStep)

----------------------------------------------------------------------------
(* Properties                                                              *)

\* globalData, with the slots and the counter, is a local of the main thread's
\* function. It returns only when every slot is out and nobody will write the
\* counter any more, although decrements may be lost: who is still in pushJob is
\* past its decrement.
HostReturnsLast ==
  /\ HostTypeOK
  /\ doneEvent => Processors \subseteq exited /\ \A h \in HostThreads : seen[h] = Unread
  /\ hostDone => \A h \in HostThreads : at[h] # NoSlot => tail[h] # "none"

\* Code that does not read the counter again sets the event once, and whoever is
\* in pushJob after the main thread's return does nothing but leave. Code that
\* does may set it twice, and checkError then ends the process.
FrameLeftAlone ==
  ~rereads =>
    /\ ~aborted
    /\ hostDone => \A h \in HostThreads : at[h] # NoSlot => tail[h] = "leave"

\* Two threads have read the same activeSlots, and one of the decrements is lost:
\* all slots are out, and the main thread waits for an event nobody will set.
SlotLost ==
  /\ fpga /\ Processors \subseteq exited /\ activeSlots > 0
  /\ \A h \in HostThreads : seen[h] = Unread

\* The pipeline returns with either kind of processor, except after a lost
\* decrement and unless a second event ended the process: the closed loop never
\* runs dry.
EitherPipelineReturns == <>[]SlotLost \/ <>aborted \/ PipelineReturns
=============================================================================
