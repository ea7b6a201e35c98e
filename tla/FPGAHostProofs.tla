--------------------------- MODULE FPGAHostProofs ---------------------------
(***************************************************************************)
(* The FPGA host is safe for any slots, callback threads and buffers. It   *)
(* implements PCoeffPipeline, so that the pipeline's theorems hold of it.  *)
(* And its main thread never returns before the last decrement, although   *)
(* decrements may be lost: what a thread has read of activeSlots, and what *)
(* is written, is never less than Todo, the slots that still run and the   *)
(* decrements under way. If the counter is not read again, only the last   *)
(* decrement can find 0.                                                   *)
(***************************************************************************)
EXTENDS FPGAHost, PCoeffPipelineProofs

Running == Processors \ exited
Reading == {h \in HostThreads : seen[h] # Unread}
Out     == {h \in HostThreads : seen[h] # Unread \/ tail[h] # "none"}
Todo    == Cardinality(Running) + Cardinality(Reading)

\* The counter and what was read of it never fall below what is left to do.
CountInv ==
  /\ activeSlots >= Todo
  /\ \A h \in Reading : seen[h] >= Todo
  /\ doneEvent => Todo = 0
  /\ \A h \in HostThreads : tail[h] = "set" => Todo = 0
  /\ hostDone => doneEvent

\* Each slot has one job, and is in one thread's pushJob, or out on the device,
\* or among those the main thread has yet to come to, or exited.
SlotInv ==
  /\ \A t, u \in Tops : owner[t] = owner[u] /\ owner[t] \in Processors => t = u
  /\ \A h, g \in HostThreads : at[h] = at[g] /\ at[h] # NoSlot => h = g
  /\ \A h \in HostThreads : at[h] \in Processors => (at[h] \in exited <=> h \in Out)
  /\ \A h \in Out : at[h] \in Processors
  /\ \A h \in HostThreads : seen[h] = Unread \/ tail[h] = "none"
  /\ \A h \in HostThreads, t \in Tops :
       owner[t] = at[h] /\ at[h] \in Processors => stage[t] # "computing"
  /\ \A i \in nextSlot .. NumSlots - 1 :
       /\ SlotAt[i] \notin exited
       /\ \A t \in Tops : owner[t] # SlotAt[i]
       /\ \A h \in HostThreads : at[h] # SlotAt[i]

\* With CPU processors the host's variables do not change.
IdleInv == Out = {} /\ ~doneEvent /\ ~hostDone /\ ~aborted

\* Without the second read one thread at most comes to the event, once.
OnceInv ==
  /\ ~aborted
  /\ \A h \in HostThreads :
       /\ tail[h] # "test"
       /\ tail[h] = "set" => ~doneEvent /\ \A g \in HostThreads : tail[g] = "set" => g = h

HostInv ==
  /\ HostTypeOK
  /\ fpga => SlotInv /\ CountInv
  /\ ~fpga => IdleInv

----------------------------------------------------------------------------
(* Every step is one of the pipeline's, or changes only the host's state.  *)

LEMMA SlotsCounted == NumSlots \in Nat \ {0} /\ IsFiniteSet(HostThreads)
<1>1. IsFiniteSet(Processors) /\ Processors # {}
  BY HostAssumption, StaffAssumption
<1>2. NumSlots \in Nat /\ NumSlots # 0
  BY <1>1, FS_CardinalityType, FS_EmptySet DEF NumSlots
<1>3. IsFiniteSet(HostThreads)
  BY HostAssumption, FS_AddElement DEF HostThreads
<1>4. QED BY <1>2, <1>3

LEMMA LeaveType ==
  ASSUME HostTypeOK, NEW h \in HostThreads, LeavePushJob(h)
  PROVE  /\ nextSlot' \in 1 .. NumSlots
         /\ at' \in [HostThreads -> Processors \cup {NoSlot}]
<1> USE HostAssumption, SlotsCounted DEF HostTypeOK
<1>1. CASE h = Main /\ nextSlot < NumSlots
  <2>1. SlotAt[nextSlot] \in Processors
    BY <1>1
  <2>2. QED BY <1>1, <2>1 DEF LeavePushJob
<1>2. CASE ~(h = Main /\ nextSlot < NumSlots)
  BY <1>2 DEF LeavePushJob
<1>3. QED BY <1>1, <1>2

LEMMA HostTypeInit == HostInit => HostTypeOK
<1> SUFFICES ASSUME HostInit PROVE HostTypeOK
  OBVIOUS
<1>1. SlotAt[0] \in Processors
  BY HostAssumption, SlotsCounted
<1>2. at \in [HostThreads -> Processors \cup {NoSlot}]
  BY <1>1 DEF HostInit
<1>3. seen \in [HostThreads -> Int \cup {Unread}]
  BY DEF HostInit
<1>4. nextSlot \in 1 .. NumSlots /\ activeSlots \in Int
  BY SlotsCounted DEF HostInit
<1>5. /\ tail \in [HostThreads -> {"none", "test", "set", "leave"}]
      /\ doneEvent \in BOOLEAN /\ hostDone \in BOOLEAN /\ aborted \in BOOLEAN
  BY DEF HostInit
<1>6. fpga \in BOOLEAN /\ rereads \in BOOLEAN
  BY DEF HostInit
<1>7. QED BY <1>2, <1>3, <1>4, <1>5, <1>6 DEF HostTypeOK

\* The program does not change while it runs.
LEMMA ProgramStays == [HostNext]_allVars => fpga' = fpga /\ rereads' = rereads
  BY DEF HostNext, HostStep, CpuStep, LoopStep, EndStep, Terminated, program, hostVars, allVars

LEMMA HostTypeStep == HostTypeOK /\ [HostNext]_allVars => HostTypeOK'
<1> SUFFICES ASSUME HostTypeOK, [HostNext]_allVars PROVE HostTypeOK'
  OBVIOUS
<1> fpga' = fpga /\ rereads' = rereads
  BY ProgramStays
<1> USE DEF countVars
<1>1. ASSUME HostReturn PROVE HostTypeOK'
  BY <1>1 DEF HostReturn, HostTypeOK
<1>2. ASSUME NEW h \in HostThreads, WriteCount(h) PROVE HostTypeOK'
  <2>1. seen[h] \in Int
    BY <1>2 DEF WriteCount, HostTypeOK
  <2>2. activeSlots' \in Int
    BY <1>2, <2>1 DEF WriteCount, HostTypeOK
  <2>3. /\ seen' \in [HostThreads -> Int \cup {Unread}]
        /\ tail' \in [HostThreads -> {"none", "test", "set", "leave"}]
    BY <1>2 DEF WriteCount, HostTypeOK
  <2>4. QED BY <1>2, <2>2, <2>3 DEF WriteCount, HostTypeOK
<1>3. ASSUME NEW h \in HostThreads, TestAgain(h) \/ SetEvent(h) PROVE HostTypeOK'
  BY <1>3 DEF TestAgain, SetEvent, HostTypeOK
<1>4. ASSUME NEW h \in HostThreads, Leave(h) PROVE HostTypeOK'
  BY <1>4, LeaveType DEF Leave, HostTypeOK
<1>5. ASSUME NEW h \in HostThreads, NoMoreJobs(h) PROVE HostTypeOK'
  BY <1>5 DEF NoMoreJobs, HostTypeOK
<1>6. ASSUME NEW h \in HostThreads, NEW t \in Tops, LaunchRead(h, t) PROVE HostTypeOK'
  BY <1>6, LeaveType DEF LaunchRead, HostTypeOK
<1>7. ASSUME NEW h \in HostThreads, NEW t \in Tops, NEW p \in Processors, RunCallback(h, p, t)
      PROVE  HostTypeOK'
  BY <1>7 DEF RunCallback, HostTypeOK
<1>8. ASSUME UNCHANGED <<nextSlot, at, countVars, hostDone>> PROVE HostTypeOK'
  BY <1>8 DEF HostTypeOK
<1>9. QED
  BY <1>1, <1>2, <1>3, <1>4, <1>5, <1>6, <1>7, <1>8
  DEF HostNext, HostStep, CpuStep, LoopStep, EndStep, PopJob, hostVars, allVars

\* The host's variables keep their types.
THEOREM HostTypes == HostSpec => []HostTypeOK
  BY HostTypeInit, HostTypeStep, PTL DEF HostSpec

LEMMA HostStepIsStep == HostTypeOK /\ [HostNext]_allVars => [Next]_vars
<1> SUFFICES ASSUME HostTypeOK, [HostNext]_allVars PROVE [Next]_vars
  OBVIOUS
<1>1. ASSUME HostReturn PROVE [Next]_vars
  BY <1>1 DEF HostReturn
<1>2. ASSUME NEW h \in HostThreads, WriteCount(h) \/ TestAgain(h) \/ SetEvent(h) \/ Leave(h)
      PROVE  [Next]_vars
  BY <1>2 DEF WriteCount, TestAgain, SetEvent, Leave
<1>3. ASSUME NEW p \in Processors, ProcessorStep(p) PROVE [Next]_vars
  BY <1>3 DEF Next
<1>4. ASSUME NEW h \in HostThreads,
             \/ NoMoreJobs(h)
             \/ \E t \in Tops : PopJob(h, t) \/ LaunchRead(h, t)
      PROVE  [Next]_vars
  <2>1. at[h] \in Processors
    BY <1>4 DEF NoMoreJobs, PopJob, LaunchRead, Pushing, HostTypeOK
  <2>2. ProcessorStep(at[h])
    BY <1>4 DEF NoMoreJobs, PopJob, LaunchRead, ProcessorStep
  <2>3. QED BY <1>3, <2>1, <2>2
<1>5. ASSUME NEW h \in HostThreads, NEW p \in Processors, NEW t \in Tops, RunCallback(h, p, t)
      PROVE  [Next]_vars
  BY <1>3, <1>5 DEF RunCallback, ProcessorStep
<1>6. ASSUME NEW w \in Threads, LoopStep(w) PROVE [Next]_vars
  BY <1>6 DEF LoopStep, Next
<1>7. ASSUME EndStep PROVE [Next]_vars
  BY <1>7 DEF EndStep, Next, CloseStep
<1>8. ASSUME Terminated PROVE [Next]_vars
  BY <1>8 DEF Next
<1>9. ASSUME UNCHANGED allVars PROVE [Next]_vars
  BY <1>9 DEF allVars
<1>10. QED
  BY <1>1, <1>2, <1>3, <1>4, <1>5, <1>6, <1>7, <1>8, <1>9
  DEF HostNext, HostStep, CpuStep

\* The FPGA host is a pipeline: it takes and gives jobs and buffers only as the
\* processors of PCoeffPipeline do.
THEOREM HostImplementsPipeline == HostSpec => Spec
<1>1. HostInit => Init
  BY DEF HostInit
<1>2. QED BY <1>1, HostTypes, HostStepIsStep, PTL DEF HostSpec, Spec

\* So it, too, returns one result for every top, and all buffers are back.
THEOREM HostReturnsAllTops ==
  ASSUME ~MayFail
  PROVE  HostSpec => []AllTopsAtReturn
  BY HostImplementsPipeline, ReturnsAllTops, PTL

----------------------------------------------------------------------------
(* The main thread leaves last.                                            *)

\* Creators, result threads and validators neither give jobs to slots, nor take
\* any from them, nor make them exit.
LEMMA OthersKeepSlots ==
  ASSUME TypeOK, JobInv,
         \/ \E w \in Threads : LoopStep(w)
         \/ EndStep
         \/ UNCHANGED vars
  PROVE  /\ \A t \in Tops : owner'[t] \in Processors =>
                              owner'[t] = owner[t] /\ stage'[t] = stage[t]
         /\ \A p \in Processors : p \in exited' <=> p \in exited
<1> DEFINE Kept ==
      /\ \A t \in Tops : owner'[t] \in Processors =>
                           owner'[t] = owner[t] /\ stage'[t] = stage[t]
      /\ \A p \in Processors : p \in exited' <=> p \in exited
<1> USE ThreadsAssumption DEF TypeOK, Threads, jobVars, endVars, Move, MoveAll, Exit, At, Held
<1>1. ASSUME NEW c \in Creators, CreatorStep(c) PROVE Kept
  <2>1. CASE Claim(c) BY <2>1 DEF Claim
  <2>2. CASE CreatorExit(c) BY <2>2 DEF CreatorExit
  <2>3. CASE TakeInputs(c) BY <2>3 DEF TakeInputs
  <2>4. CASE PushBatch(c) BY <2>4 DEF PushBatch
  <2>5. QED BY <1>1, <2>1, <2>2, <2>3, <2>4 DEF CreatorStep
<1>2. ASSUME NEW r \in ResultThreads, ResultStep(r) PROVE Kept
  <2>1. CASE RecordResult(r) BY <2>1 DEF RecordResult
  <2>2. CASE ResultExit(r) BY <2>2 DEF ResultExit
  <2>3. ASSUME NEW t \in Tops, PopOutput(r, t) PROVE Kept BY <2>3 DEF PopOutput
  <2>4. ASSUME NEW t \in Tops, DropFailed(r, t) PROVE Kept BY <2>4 DEF DropFailed
  <2>5. ASSUME NEW t \in Tops, PushValidation(r, t) PROVE Kept BY <2>5 DEF PushValidation
  <2>6. QED BY <1>2, <2>1, <2>2, <2>3, <2>4, <2>5 DEF ResultStep
<1>3. ASSUME NEW v \in Validators, ValidatorStep(v) PROVE Kept
  <2>1. CASE ValidatorExit(v) BY <2>1 DEF ValidatorExit
  <2>2. ASSUME NEW t \in Tops, PopValidation(v, t) PROVE Kept BY <2>2 DEF PopValidation
  <2>3. ASSUME NEW t \in Tops, FreeInput(v, t) PROVE Kept BY <2>3 DEF FreeInput
  <2>4. ASSUME NEW t \in Tops, FreeResult(v, t) PROVE Kept BY <2>4 DEF FreeResult
  <2>5. QED BY <1>3, <2>1, <2>2, <2>3, <2>4 DEF ValidatorStep
<1>4. ASSUME EndStep PROVE Kept
  BY <1>4 DEF EndStep, CloseInput, Return, CloseValidation, CloseOutput
<1>5. ASSUME UNCHANGED vars PROVE Kept
  BY <1>5 DEF vars
<1>6. QED BY <1>1, <1>2, <1>3, <1>4, <1>5 DEF LoopStep

LEMMA TodoType ==
  /\ IsFiniteSet(Running) /\ IsFiniteSet(Reading)
  /\ Cardinality(Running) \in Nat /\ Cardinality(Reading) \in Nat /\ Todo \in Nat
<1>1. Running \subseteq Processors /\ Reading \subseteq HostThreads
  BY DEF Running, Reading
<1>2. IsFiniteSet(Running) /\ IsFiniteSet(Reading)
  BY <1>1, HostAssumption, SlotsCounted, FS_Subset
<1>3. Cardinality(Running) \in Nat /\ Cardinality(Reading) \in Nat
  BY <1>2, FS_CardinalityType
<1>4. QED BY <1>2, <1>3 DEF Todo

\* When nothing is left to do, every slot is out and nobody is at the counter.
LEMMA NothingLeft ==
  ASSUME Todo = 0 PROVE Processors \subseteq exited /\ Reading = {}
<1>1. Cardinality(Running) = 0 /\ Cardinality(Reading) = 0
  BY TodoType DEF Todo
<1>2. Running = {} /\ Reading = {}
  BY <1>1, TodoType, FS_EmptySet
<1>3. QED BY <1>2 DEF Running

\* A thread that pushes has a slot of its own.
LEMMA PushingSlot ==
  ASSUME HostTypeOK, SlotInv, NEW h \in HostThreads, Pushing(h)
  PROVE  at[h] \in Processors /\ at[h] \notin exited /\ h \notin Out
  BY DEF Pushing, HostTypeOK, SlotInv, Out

----------------------------------------------------------------------------
(* SlotInv is preserved.                                                   *)

LEMMA FutureSlots ==
  ASSUME HostTypeOK, NEW i \in nextSlot .. NumSlots - 1
  PROVE  i \in 0 .. NumSlots - 1 /\ SlotAt[i] \in Processors
<1>1. i \in 0 .. NumSlots - 1
  BY SlotsCounted DEF HostTypeOK
<1>2. QED BY <1>1, HostAssumption

LEMMA SlotStable ==
  ASSUME HostTypeOK, SlotInv, UNCHANGED <<at, nextSlot>>, Out' = Out,
         \A h \in HostThreads : seen'[h] = Unread \/ tail'[h] = "none",
         \A t \in Tops : owner'[t] \in Processors => owner'[t] = owner[t] /\ stage'[t] = stage[t],
         \A p \in Processors : p \in exited' <=> p \in exited
  PROVE  SlotInv'
<1>1. \A i \in nextSlot .. NumSlots - 1 : SlotAt[i] \in Processors
  BY FutureSlots
<1>2. QED BY <1>1 DEF SlotInv

\* The slot that a thread comes to is fresh: it runs, has no job, and no other
\* thread is at it; and none of those that remain is given away.
LEMMA LeaveSlots ==
  ASSUME HostTypeOK, SlotInv, NEW h \in HostThreads, LeavePushJob(h)
  PROVE  /\ \A g \in HostThreads : g # h => at'[g] = at[g]
         /\ at'[h] # NoSlot =>
              /\ at'[h] \in Processors \ exited
              /\ \A t \in Tops : owner[t] # at'[h]
              /\ \A g \in HostThreads : at[g] # at'[h]
         /\ \A i \in nextSlot' .. NumSlots - 1 :
              i \in nextSlot .. NumSlots - 1 /\ at'[h] # SlotAt[i]
<1> USE SlotsCounted DEF HostTypeOK
<1>1. CASE h = Main /\ nextSlot < NumSlots
  <2>1. at' = [at EXCEPT ![h] = SlotAt[nextSlot]] /\ nextSlot' = nextSlot + 1
    BY <1>1 DEF LeavePushJob
  <2>2. nextSlot \in nextSlot .. NumSlots - 1
    BY <1>1
  <2>3. SlotAt[nextSlot] \in Processors
    BY <2>2, FutureSlots
  <2>4. at'[h] = SlotAt[nextSlot]
    BY <2>1
  <2>5. /\ SlotAt[nextSlot] \notin exited
        /\ \A t \in Tops : owner[t] # SlotAt[nextSlot]
        /\ \A g \in HostThreads : at[g] # SlotAt[nextSlot]
    BY <2>2 DEF SlotInv
  <2>6. ASSUME NEW i \in nextSlot' .. NumSlots - 1
        PROVE  i \in nextSlot .. NumSlots - 1 /\ at'[h] # SlotAt[i]
    <3>1. i \in nextSlot .. NumSlots - 1 /\ i # nextSlot
      BY <2>1, <2>6
    <3>2. i \in 0 .. NumSlots - 1 /\ nextSlot \in 0 .. NumSlots - 1
      BY <2>2, <3>1, FutureSlots
    <3>3. SlotAt[i] # SlotAt[nextSlot]
      BY <3>1, <3>2, HostAssumption
    <3>4. QED BY <2>4, <3>1, <3>3
  <2>7. QED BY <2>1, <2>3, <2>4, <2>5, <2>6
<1>2. CASE ~(h = Main /\ nextSlot < NumSlots)
  <2>1. at' = [at EXCEPT ![h] = NoSlot] /\ nextSlot' = nextSlot
    BY <1>2 DEF LeavePushJob
  <2>2. \A i \in nextSlot .. NumSlots - 1 : NoSlot # SlotAt[i]
    BY FutureSlots, HostAssumption
  <2>3. QED BY <2>1, <2>2
<1>3. QED BY <1>1, <1>2

LEMMA SlotPopJob ==
  ASSUME HostTypeOK, TypeOK, SlotInv, NEW h \in HostThreads, NEW t \in Tops, PopJob(h, t)
  PROVE  SlotInv'
<1>1. at[h] \in Processors /\ at[h] \notin exited /\ h \notin Out
  BY PushingSlot DEF PopJob
<1>2. /\ stage' = [stage EXCEPT ![t] = "processing"] /\ owner' = [owner EXCEPT ![t] = at[h]]
      /\ exited' = exited /\ \A u \in Tops : owner[u] # at[h]
  BY DEF PopJob, PopInput, Move, Held, endVars
<1>3. UNCHANGED <<at, seen, tail, nextSlot>> /\ Out' = Out
  BY DEF PopJob, countVars, Out
<1>4. \A u \in Tops : /\ u # t => owner'[u] = owner[u] /\ stage'[u] = stage[u]
                      /\ u = t => owner'[u] = at[h] /\ stage'[u] = "processing"
  BY <1>2 DEF TypeOK
<1>5. \A i \in nextSlot .. NumSlots - 1 : SlotAt[i] # at[h]
  BY DEF SlotInv
<1>6. QED BY <1>2, <1>3, <1>4, <1>5 DEF SlotInv

LEMMA SlotLaunchRead ==
  ASSUME HostTypeOK, TypeOK, SlotInv, NEW h \in HostThreads, NEW t \in Tops, LaunchRead(h, t)
  PROVE  SlotInv'
<1>1. at[h] \in Processors /\ at[h] \notin exited /\ h \notin Out
  BY PushingSlot DEF LaunchRead
<1>2. /\ owner[t] = at[h] /\ exited' = exited /\ owner' = owner
      /\ stage' = [stage EXCEPT ![t] = "computing"]
  BY DEF LaunchRead, TakeResult, At, Move, endVars, TypeOK
<1>3. UNCHANGED <<seen, tail>> /\ Out' = Out
  BY DEF LaunchRead, countVars, Out
<1>4. LeavePushJob(h)
  BY DEF LaunchRead
<1>5. \A u \in Tops : u # t => stage'[u] = stage[u]
  BY <1>2 DEF TypeOK
<1>6. \A g \in HostThreads : g # h => at'[g] # at[h]
  BY <1>1, <1>4, LeaveSlots, HostAssumption DEF SlotInv
<1>7. at'[h] # at[h]
  BY <1>1, <1>4, LeaveSlots, HostAssumption
<1>8. at'[h] = NoSlot \/ at'[h] \in Processors
  BY <1>4, LeaveSlots
<1>9. ASSUME NEW g \in HostThreads, at'[g] \in Processors
      PROVE  at'[g] \in exited' <=> g \in Out'
  BY <1>1, <1>2, <1>3, <1>4, <1>9, LeaveSlots, HostAssumption DEF SlotInv
<1>10. ASSUME NEW g \in HostThreads, NEW k \in HostThreads, at'[g] = at'[k], at'[g] # NoSlot
       PROVE  g = k
  BY <1>4, <1>10, LeaveSlots DEF SlotInv
<1>11. ASSUME NEW g \in Out' PROVE at'[g] \in Processors
  BY <1>1, <1>3, <1>4, LeaveSlots DEF SlotInv, Out
<1>12. ASSUME NEW g \in HostThreads, NEW u \in Tops, owner'[u] = at'[g], at'[g] \in Processors
       PROVE  stage'[u] # "computing"
  BY <1>2, <1>4, <1>5, <1>6, <1>7, <1>12, LeaveSlots, HostAssumption DEF SlotInv
<1>13. ASSUME NEW i \in nextSlot' .. NumSlots - 1
       PROVE  /\ SlotAt[i] \notin exited'
              /\ \A u \in Tops : owner'[u] # SlotAt[i]
              /\ \A g \in HostThreads : at'[g] # SlotAt[i]
  BY <1>2, <1>4, LeaveSlots DEF SlotInv
<1>14. QED BY <1>2, <1>3, <1>9, <1>10, <1>11, <1>12, <1>13 DEF SlotInv

LEMMA SlotRunCallback ==
  ASSUME HostTypeOK, TypeOK, JobInv, ShutdownInv, SlotInv,
         NEW h \in HostThreads, NEW p \in Processors, NEW t \in Tops, RunCallback(h, p, t)
  PROVE  SlotInv'
<1>1. /\ at[h] = NoSlot /\ owner[t] = p /\ stage[t] = "computing" /\ exited' = exited
      /\ stage' = [stage EXCEPT ![t] = "output"]
      /\ owner' = [owner EXCEPT ![t] = ContextOf(p, t)]
  BY DEF RunCallback, PushOutput, At, Move, endVars
<1>2. ContextOf(p, t) \notin Processors
  BY <1>1, ContextIsSocket, ThreadsAssumption DEF Threads
<1>3. p \notin exited
  BY <1>1 DEF ShutdownInv
<1>4. \A g \in HostThreads : at[g] # p
  BY <1>1 DEF SlotInv
<1>5. \A i \in nextSlot .. NumSlots - 1 : SlotAt[i] # p
  BY <1>1 DEF SlotInv
<1>6. \A g \in HostThreads : /\ g # h => at'[g] = at[g]
                             /\ g = h => at'[g] = p
  BY DEF RunCallback, HostTypeOK
<1>7. UNCHANGED <<seen, tail, nextSlot>> /\ Out' = Out /\ h \notin Out
  BY <1>1, HostAssumption DEF RunCallback, countVars, Out, SlotInv
<1>8. \A u \in Tops : /\ u # t => owner'[u] = owner[u] /\ stage'[u] = stage[u]
                      /\ u = t => owner'[u] \notin Processors
  BY <1>1, <1>2 DEF TypeOK
<1>9. \A i \in nextSlot .. NumSlots - 1 : SlotAt[i] \in Processors
  BY FutureSlots
<1>10. \A u \in Tops : u # t => owner[u] # p
  BY <1>1 DEF SlotInv
<1>11. ASSUME NEW u \in Tops, NEW x \in Tops, owner'[u] = owner'[x], owner'[u] \in Processors
       PROVE  u = x
  BY <1>8, <1>11 DEF SlotInv
<1>12. ASSUME NEW g \in HostThreads, NEW k \in HostThreads, at'[g] = at'[k], at'[g] # NoSlot
       PROVE  g = k
  BY <1>4, <1>6, <1>12 DEF SlotInv
<1>13. ASSUME NEW g \in HostThreads, at'[g] \in Processors
       PROVE  at'[g] \in exited' <=> g \in Out'
  BY <1>1, <1>3, <1>6, <1>7, <1>13 DEF SlotInv
<1>14. ASSUME NEW g \in Out' PROVE at'[g] \in Processors
  BY <1>6, <1>7 DEF SlotInv, Out
<1>15. ASSUME NEW g \in HostThreads, NEW u \in Tops, owner'[u] = at'[g], at'[g] \in Processors
       PROVE  stage'[u] # "computing"
  BY <1>6, <1>8, <1>10, <1>15 DEF SlotInv
<1>16. ASSUME NEW i \in nextSlot' .. NumSlots - 1
       PROVE  /\ SlotAt[i] \notin exited'
              /\ \A u \in Tops : owner'[u] # SlotAt[i]
              /\ \A g \in HostThreads : at'[g] # SlotAt[i]
  BY <1>1, <1>5, <1>6, <1>7, <1>8, <1>9 DEF SlotInv
<1>17. QED BY <1>7, <1>11, <1>12, <1>13, <1>14, <1>15, <1>16 DEF SlotInv

LEMMA SlotNoMoreJobs ==
  ASSUME HostTypeOK, TypeOK, SlotInv, NEW h \in HostThreads, NoMoreJobs(h)
  PROVE  SlotInv'
<1>1. at[h] \in Processors /\ at[h] \notin exited /\ h \notin Out
  BY PushingSlot DEF NoMoreJobs
<1>2. exited' = exited \cup {at[h]} /\ UNCHANGED <<stage, owner, at, tail, nextSlot>>
  BY DEF NoMoreJobs, ProcessorExit, Exit, jobVars
<1>3. /\ Out' = Out \cup {h}
      /\ \A g \in HostThreads : seen'[g] = Unread \/ tail'[g] = "none"
  BY HostAssumption DEF NoMoreJobs, Pushing, HostTypeOK, SlotInv, Out
<1>4. \A i \in nextSlot .. NumSlots - 1 : SlotAt[i] # at[h]
  BY DEF SlotInv
<1>5. \A g \in HostThreads : at[g] = at[h] => g = h
  BY <1>1, HostAssumption DEF SlotInv
<1>6. QED BY <1>1, <1>2, <1>3, <1>4, <1>5 DEF SlotInv

\* Between the read of the counter and its return a thread keeps its slot.
LEMMA SlotCounting ==
  ASSUME HostTypeOK, SlotInv, NEW h \in HostThreads, WriteCount(h) \/ TestAgain(h) \/ SetEvent(h)
  PROVE  SlotInv'
<1>1. /\ UNCHANGED <<at, nextSlot>> /\ Out' = Out
      /\ \A g \in HostThreads : seen'[g] = Unread \/ tail'[g] = "none"
  <2>1. CASE WriteCount(h)
    BY <2>1 DEF WriteCount, HostTypeOK, SlotInv, Out
  <2>2. CASE TestAgain(h)
    BY <2>2 DEF TestAgain, HostTypeOK, SlotInv, Out
  <2>3. CASE SetEvent(h)
    BY <2>3 DEF SetEvent, HostTypeOK, SlotInv, Out
  <2>4. QED BY <2>1, <2>2, <2>3
<1>2. UNCHANGED <<stage, owner, exited>>
  BY DEF WriteCount, TestAgain, SetEvent, vars, jobVars, endVars
<1>3. QED BY <1>1, <1>2, SlotStable

LEMMA SlotLeave ==
  ASSUME HostTypeOK, TypeOK, SlotInv, NEW h \in HostThreads, Leave(h)
  PROVE  SlotInv'
<1>1. h \in Out /\ LeavePushJob(h)
  BY DEF Leave, Out
<1>2. UNCHANGED <<stage, owner, exited>>
  BY DEF Leave, vars, jobVars, endVars
<1>3. /\ Out' = Out \ {h}
      /\ \A g \in HostThreads : seen'[g] = Unread \/ tail'[g] = "none"
  BY DEF Leave, HostTypeOK, SlotInv, Out
<1>4. ASSUME NEW g \in HostThreads, at'[g] \in Processors
      PROVE  at'[g] \in exited' <=> g \in Out'
  BY <1>1, <1>2, <1>3, <1>4, LeaveSlots, HostAssumption DEF SlotInv
<1>5. ASSUME NEW g \in HostThreads, NEW k \in HostThreads, at'[g] = at'[k], at'[g] # NoSlot
      PROVE  g = k
  BY <1>1, <1>5, LeaveSlots DEF SlotInv
<1>6. ASSUME NEW g \in Out' PROVE at'[g] \in Processors
  BY <1>1, <1>3, LeaveSlots DEF SlotInv, Out
<1>7. ASSUME NEW g \in HostThreads, NEW u \in Tops, owner'[u] = at'[g], at'[g] \in Processors
      PROVE  stage'[u] # "computing"
  BY <1>1, <1>2, <1>7, LeaveSlots, HostAssumption DEF SlotInv
<1>8. ASSUME NEW i \in nextSlot' .. NumSlots - 1
      PROVE  /\ SlotAt[i] \notin exited'
             /\ \A u \in Tops : owner'[u] # SlotAt[i]
             /\ \A g \in HostThreads : at'[g] # SlotAt[i]
  BY <1>1, <1>2, LeaveSlots DEF SlotInv
<1>9. QED BY <1>2, <1>3, <1>4, <1>5, <1>6, <1>7, <1>8 DEF SlotInv

----------------------------------------------------------------------------
(* CountInv is preserved.                                                  *)

LEMMA CountStable ==
  ASSUME CountInv, UNCHANGED <<countVars, hostDone>>,
         \A p \in Processors : p \in exited' <=> p \in exited
  PROVE  CountInv'
<1>1. Running' = Running /\ Reading' = Reading
  BY DEF Running, Reading, countVars
<1>2. QED BY <1>1 DEF CountInv, Todo, countVars

\* A slot that exits is counted by the thread that has read the counter for it.
LEMMA CountNoMoreJobs ==
  ASSUME HostTypeOK, SlotInv, CountInv, NEW h \in HostThreads, NoMoreJobs(h)
  PROVE  CountInv'
<1>1. at[h] \in Processors /\ at[h] \notin exited /\ h \notin Reading
  BY PushingSlot DEF NoMoreJobs, Out, Reading
<1>2. Running' = Running \ {at[h]} /\ at[h] \in Running
  BY <1>1 DEF NoMoreJobs, ProcessorExit, Exit, Running
<1>3. Reading' = Reading \cup {h}
  BY HostAssumption DEF NoMoreJobs, HostTypeOK, Reading
<1>4. Cardinality(Running') = Cardinality(Running) - 1
  BY <1>2, TodoType, FS_RemoveElement
<1>5. Cardinality(Reading') = Cardinality(Reading) + 1
  BY <1>1, <1>3, TodoType, FS_AddElement
<1>6. Todo' = Todo
  BY <1>4, <1>5, TodoType DEF Todo
<1>7. UNCHANGED <<activeSlots, tail, doneEvent, hostDone>>
  BY DEF NoMoreJobs
<1>8. ASSUME NEW g \in Reading' PROVE seen'[g] >= Todo
  <2>1. CASE g = h
    BY <2>1 DEF NoMoreJobs, HostTypeOK, CountInv
  <2>2. CASE g # h
    BY <1>3, <1>8, <2>2 DEF NoMoreJobs, HostTypeOK, CountInv, Reading
  <2>3. QED BY <2>1, <2>2
<1>9. \A g \in Reading' : seen'[g] >= Todo'
  BY <1>6, <1>8
<1>10. activeSlots' >= Todo'
  BY <1>6, <1>7 DEF CountInv
<1>11. /\ (doneEvent' => Todo' = 0) /\ (hostDone' => doneEvent')
       /\ \A g \in HostThreads : tail'[g] = "set" => Todo' = 0
  BY <1>6, <1>7 DEF CountInv
<1>12. QED BY <1>9, <1>10, <1>11 DEF CountInv

\* A decrement leaves at least what is still to be done, also when it is lost.
LEMMA CountWrite ==
  ASSUME HostTypeOK, CountInv, NEW h \in HostThreads, WriteCount(h)
  PROVE  CountInv'
<1>1. h \in Reading /\ seen[h] \in Int
  BY DEF WriteCount, Reading, HostTypeOK
<1>2. Running' = Running
  BY DEF WriteCount, vars, endVars, Running
<1>3. Reading' = Reading \ {h}
  BY DEF WriteCount, HostTypeOK, Reading
<1>4. Cardinality(Reading') = Cardinality(Reading) - 1 /\ Cardinality(Reading') \in Nat
  <2>1. IsFiniteSet(Reading')
    BY <1>3, TodoType, FS_RemoveElement
  <2>2. QED BY <1>1, <1>3, <2>1, TodoType, FS_RemoveElement, FS_CardinalityType
<1>5. Todo' = Todo - 1 /\ Todo' \in Nat
  BY <1>2, <1>4, TodoType DEF Todo
<1>6. seen[h] >= Todo /\ activeSlots' = seen[h] - 1
  BY <1>1 DEF CountInv, WriteCount
<1>7. activeSlots' >= Todo'
  BY <1>1, <1>5, <1>6, TodoType
<1>8. ASSUME NEW g \in Reading' PROVE seen'[g] >= Todo'
  <2>1. g \in Reading /\ g # h /\ g \in HostThreads /\ seen[g] \in Int
    BY <1>3, <1>8 DEF Reading, HostTypeOK
  <2>2. seen'[g] = seen[g] /\ seen[g] >= Todo
    BY <2>1 DEF WriteCount, HostTypeOK, CountInv
  <2>3. QED BY <1>5, <2>1, <2>2, TodoType
<1>9. ASSUME NEW g \in HostThreads, doneEvent' \/ tail'[g] = "set" PROVE Todo' = 0
  <2>1. ~doneEvent /\ ~doneEvent' /\ tail[g] # "set"
    BY <1>5, TodoType DEF CountInv, WriteCount
  <2>2. seen[h] - 1 = 0
    BY <1>9, <2>1 DEF WriteCount, HostTypeOK
  <2>3. QED BY <1>1, <1>5, <1>6, <2>2, TodoType
<1>10. hostDone' => doneEvent'
  BY DEF WriteCount, CountInv
<1>11. (doneEvent' => Todo' = 0) /\ \A g \in HostThreads : tail'[g] = "set" => Todo' = 0
  BY <1>9 DEF HostThreads
<1>12. QED BY <1>7, <1>8, <1>10, <1>11 DEF CountInv

\* A thread finds 0 only when nothing is left to do.
LEMMA CountTail ==
  ASSUME HostTypeOK, CountInv, NEW h \in HostThreads, TestAgain(h) \/ SetEvent(h) \/ Leave(h)
  PROVE  CountInv'
<1>1. Running' = Running /\ Reading' = Reading
  BY DEF TestAgain, SetEvent, Leave, vars, endVars, Running, Reading
<1>2. Todo' = Todo /\ UNCHANGED <<seen, activeSlots, hostDone>> /\ (doneEvent => doneEvent')
  BY <1>1 DEF TestAgain, SetEvent, Leave, Todo
<1>3. doneEvent' => Todo = 0
  BY DEF TestAgain, SetEvent, Leave, CountInv
<1>4. ASSUME NEW g \in HostThreads, tail'[g] = "set" PROVE Todo = 0
  <2>1. CASE tail[g] = "set"
    BY <2>1 DEF CountInv
  <2>2. CASE tail[g] # "set"
    <3>1. TestAgain(h) /\ (hostDone \/ activeSlots = 0)
      BY <1>4, <2>2 DEF TestAgain, SetEvent, Leave, HostTypeOK
    <3>2. QED BY <3>1, TodoType DEF CountInv
  <2>3. QED BY <2>1, <2>2
<1>5. QED BY <1>1, <1>2, <1>3, <1>4 DEF CountInv

----------------------------------------------------------------------------
(* All of it.                                                              *)

LEMMA HostInvInit == HostInit => HostInv
<1> SUFFICES ASSUME HostInit PROVE HostInv
  OBVIOUS
<1> USE HostAssumption, SlotsCounted
<1>1. HostTypeOK
  BY HostTypeInit
<1>2. exited = {} /\ \A t \in Tops : owner[t] \notin Processors
  BY ThreadsAssumption DEF HostInit, Init, Threads
<1>3. Reading = {} /\ Out = {} /\ Running = Processors
  BY <1>2 DEF HostInit, Reading, Out, Running
<1>4. CountInv
  <2>1. Todo = NumSlots
    BY <1>3, FS_EmptySet DEF Todo, NumSlots
  <2>2. QED BY <1>3, <2>1 DEF HostInit, CountInv
<1>5. SlotInv
  <2>1. /\ SlotAt[0] \in Processors
        /\ \A h \in HostThreads : at[h] = IF h = Main THEN SlotAt[0] ELSE NoSlot
    BY DEF HostInit
  <2>2. ASSUME NEW i \in nextSlot .. NumSlots - 1
        PROVE  SlotAt[i] \in Processors /\ SlotAt[i] # SlotAt[0]
    BY <2>2 DEF HostInit
  <2>3. \A h \in HostThreads : seen[h] = Unread
    BY DEF HostInit
  <2>4. QED BY <1>2, <1>3, <2>1, <2>2, <2>3 DEF SlotInv
<1>6. IdleInv
  BY <1>3 DEF HostInit, IdleInv
<1>7. QED BY <1>1, <1>4, <1>5, <1>6 DEF HostInv

LEMMA HostInvStep ==
  HostInv /\ CirculationInv /\ [HostNext]_allVars => HostInv'
<1> SUFFICES ASSUME HostInv, CirculationInv, [HostNext]_allVars PROVE HostInv'
  OBVIOUS
<1>1. HostTypeOK /\ HostTypeOK'
  BY HostTypeStep DEF HostInv
<1>2. TypeOK /\ JobInv /\ ShutdownInv
  BY DEF CirculationInv
<1>3. ASSUME ~fpga PROVE IdleInv'
  <2>1. IdleInv /\ \A h \in HostThreads : seen[h] = Unread /\ tail[h] = "none"
    BY <1>3 DEF HostInv, IdleInv, Out
  <2>2. UNCHANGED <<countVars, hostDone>>
    BY <1>3, <2>1 DEF HostNext, HostStep, HostReturn, NoMoreJobs, WriteCount, TestAgain, SetEvent, Leave,
       PopJob, LaunchRead, RunCallback, Pushing, CpuStep, LoopStep, EndStep, hostVars, allVars
  <2>3. QED BY <2>1, <2>2 DEF IdleInv, Out, countVars
<1>4. ASSUME fpga PROVE SlotInv' /\ CountInv'
  <2>1. SlotInv /\ CountInv
    BY <1>4 DEF HostInv
  <2>2. ASSUME HostReturn PROVE SlotInv' /\ CountInv'
    <3>1. UNCHANGED <<vars, at, seen, tail, nextSlot, activeSlots, doneEvent>> /\ doneEvent
      BY <2>2 DEF HostReturn, countVars
    <3>2. Running' = Running /\ Reading' = Reading /\ Out' = Out
      BY <3>1 DEF vars, endVars, Running, Reading, Out
    <3>3. \A h \in HostThreads : seen'[h] = Unread \/ tail'[h] = "none"
      BY <2>1, <3>1 DEF SlotInv
    <3>4. SlotInv'
      BY <1>1, <2>1, <3>1, <3>2, <3>3, SlotStable DEF vars, jobVars, endVars
    <3>5. CountInv'
      BY <2>1, <3>1, <3>2 DEF CountInv, Todo
    <3>6. QED BY <3>4, <3>5
  <2>3. ASSUME NEW h \in HostThreads, NoMoreJobs(h) PROVE SlotInv' /\ CountInv'
    BY <1>1, <1>2, <2>1, <2>3, SlotNoMoreJobs, CountNoMoreJobs
  <2>4. ASSUME NEW h \in HostThreads, WriteCount(h) PROVE SlotInv' /\ CountInv'
    BY <1>1, <2>1, <2>4, SlotCounting, CountWrite
  <2>5. ASSUME NEW h \in HostThreads, TestAgain(h) \/ SetEvent(h) PROVE SlotInv' /\ CountInv'
    BY <1>1, <2>1, <2>5, SlotCounting, CountTail
  <2>6. ASSUME NEW h \in HostThreads, Leave(h) PROVE SlotInv' /\ CountInv'
    BY <1>1, <1>2, <2>1, <2>6, SlotLeave, CountTail
  <2>7. ASSUME NEW h \in HostThreads, NEW t \in Tops, PopJob(h, t)
        PROVE  SlotInv' /\ CountInv'
    <3>1. SlotInv'
      BY <1>1, <1>2, <2>1, <2>7, SlotPopJob
    <3>2. exited' = exited /\ UNCHANGED <<countVars, hostDone>>
      BY <2>7 DEF PopJob, PopInput, endVars
    <3>3. CountInv'
      BY <2>1, <3>2, CountStable
    <3>4. QED BY <3>1, <3>3
  <2>8. ASSUME NEW h \in HostThreads, NEW t \in Tops, LaunchRead(h, t)
        PROVE  SlotInv' /\ CountInv'
    <3>1. SlotInv'
      BY <1>1, <1>2, <2>1, <2>8, SlotLaunchRead
    <3>2. exited' = exited /\ UNCHANGED <<countVars, hostDone>>
      BY <2>8 DEF LaunchRead, TakeResult, endVars
    <3>3. CountInv'
      BY <2>1, <3>2, CountStable
    <3>4. QED BY <3>1, <3>3
  <2>9. ASSUME NEW h \in HostThreads, NEW p \in Processors, NEW t \in Tops, RunCallback(h, p, t)
        PROVE  SlotInv' /\ CountInv'
    <3>1. SlotInv'
      BY <1>1, <1>2, <2>1, <2>9, SlotRunCallback
    <3>2. exited' = exited /\ UNCHANGED <<countVars, hostDone>>
      BY <2>9 DEF RunCallback, PushOutput, endVars
    <3>3. CountInv'
      BY <2>1, <3>2, CountStable
    <3>4. QED BY <3>1, <3>3
  <2>10. ASSUME \/ \E w \in Threads : LoopStep(w)
               \/ EndStep
               \/ UNCHANGED vars,
               UNCHANGED <<nextSlot, at, countVars, hostDone>>
        PROVE  SlotInv' /\ CountInv'
    <3>1. /\ \A t \in Tops : owner'[t] \in Processors =>
                               owner'[t] = owner[t] /\ stage'[t] = stage[t]
          /\ \A p \in Processors : p \in exited' <=> p \in exited
      BY <1>2, <2>10, OthersKeepSlots
    <3>2. UNCHANGED <<at, seen, tail, nextSlot>> /\ UNCHANGED <<countVars, hostDone>>
      BY <2>10 DEF countVars
    <3>3. Out' = Out /\ \A h \in HostThreads : seen'[h] = Unread \/ tail'[h] = "none"
      BY <2>1, <3>2 DEF Out, SlotInv
    <3>4. QED BY <1>1, <2>1, <3>1, <3>2, <3>3, SlotStable, CountStable
  <2>11. QED
    BY <1>4, <2>2, <2>3, <2>4, <2>5, <2>6, <2>7, <2>8, <2>9, <2>10
    DEF HostNext, HostStep, CpuStep, LoopStep, EndStep, Terminated, hostVars, allVars
<1>5. QED BY <1>1, <1>3, <1>4, ProgramStays DEF HostInv

LEMMA HostInvHolds == HostSpec => []HostInv
<1>1. HostSpec => []CirculationInv
  BY HostImplementsPipeline, CirculationHolds, PTL
<1>2. QED BY <1>1, HostInvInit, HostInvStep, PTL DEF HostSpec

\* The slots and the counter live in the main thread's function: it returns only
\* after every slot is out and every thread is past its decrement.
THEOREM MainLeavesLast == HostSpec => []HostReturnsLast
<1>1. HostInv => HostReturnsLast
  <2> SUFFICES ASSUME HostInv PROVE HostReturnsLast
    OBVIOUS
  <2>1. HostTypeOK
    BY DEF HostInv
  <2>2. CASE ~fpga
    BY <2>1, <2>2 DEF HostInv, IdleInv, HostReturnsLast
  <2>3. CASE fpga
    <3>1. SlotInv /\ CountInv
      BY <2>3 DEF HostInv
    <3>2. doneEvent => Processors \subseteq exited /\ Reading = {}
      BY <3>1, NothingLeft DEF CountInv
    <3>3. ASSUME hostDone, NEW h \in HostThreads, at[h] # NoSlot
          PROVE  tail[h] # "none"
      <4>1. at[h] \in exited
        BY <2>1, <3>1, <3>2, <3>3 DEF CountInv, HostTypeOK
      <4>2. h \in Out
        BY <2>1, <3>1, <3>3, <4>1 DEF SlotInv, HostTypeOK
      <4>3. QED BY <3>1, <3>2, <3>3, <4>2 DEF CountInv, Out, Reading
    <3>4. QED BY <2>1, <3>2, <3>3 DEF HostReturnsLast, Reading
  <2>4. QED BY <2>2, <2>3
<1>2. QED BY <1>1, HostInvHolds, PTL

----------------------------------------------------------------------------
(* The event is set once, if the counter is read once.                     *)

LEMMA OnceStep ==
  ASSUME fpga, HostTypeOK, ~rereads, CountInv, OnceInv, [HostNext]_allVars
  PROVE  OnceInv'
<1>1. ASSUME NEW h \in HostThreads, WriteCount(h) PROVE OnceInv'
  <2>1. h \in Reading /\ Reading # {}
    BY <1>1 DEF WriteCount, Reading
  <2>2. Todo # 0
    BY <2>1, NothingLeft
  <2>3. ~doneEvent /\ \A g \in HostThreads : tail[g] # "set"
    BY <2>2 DEF CountInv
  <2>4. \A g \in HostThreads : g # h => tail'[g] = tail[g]
    BY <1>1 DEF WriteCount, HostTypeOK
  <2>5. tail'[h] # "test" /\ UNCHANGED <<doneEvent, aborted>>
    BY <1>1 DEF WriteCount, HostTypeOK
  <2>6. QED BY <2>3, <2>4, <2>5 DEF OnceInv
<1>2. ASSUME NEW h \in HostThreads, SetEvent(h) PROVE OnceInv'
  <2>1. ~doneEvent /\ \A g \in HostThreads : tail[g] = "set" => g = h
    BY <1>2 DEF SetEvent, OnceInv
  <2>2. /\ tail'[h] = "leave" /\ aborted' = doneEvent
        /\ \A g \in HostThreads : g # h => tail'[g] = tail[g]
    BY <1>2 DEF SetEvent, HostTypeOK
  <2>3. QED BY <2>1, <2>2 DEF OnceInv
<1>3. ASSUME NEW h \in HostThreads, TestAgain(h) PROVE OnceInv'
  BY <1>3 DEF TestAgain, OnceInv
<1>4. ASSUME NEW h \in HostThreads, Leave(h) PROVE OnceInv'
  BY <1>4 DEF Leave, OnceInv, HostTypeOK
<1>5. ASSUME UNCHANGED <<tail, doneEvent, aborted>> PROVE OnceInv'
  BY <1>5 DEF OnceInv
<1>6. (\E h \in HostThreads : WriteCount(h) \/ SetEvent(h) \/ TestAgain(h) \/ Leave(h))
      \/ UNCHANGED <<tail, doneEvent, aborted>>
  BY DEF HostNext, HostStep, HostReturn, NoMoreJobs, PopJob, LaunchRead, RunCallback,
         CpuStep, LoopStep, EndStep, countVars, hostVars, allVars
<1>7. QED BY <1>1, <1>2, <1>3, <1>4, <1>5, <1>6

\* When the code does not read the counter again, clSetUserEventStatus is called
\* once, and who is still in pushJob after the main thread's return only leaves.
THEOREM EventSetByLast == HostSpec => []FrameLeftAlone
<1> DEFINE Once == fpga /\ ~rereads => OnceInv
<1>1. HostInit => Once
  BY DEF HostInit, OnceInv
<1>2. HostInv /\ Once /\ [HostNext]_allVars => Once'
  <2> SUFFICES ASSUME HostInv, Once, [HostNext]_allVars, fpga', ~rereads' PROVE OnceInv'
    OBVIOUS
  <2>1. fpga' = fpga /\ rereads' = rereads
    BY ProgramStays
  <2>2. fpga /\ ~rereads
    BY <2>1, Zenon
  <2>3. QED BY <2>2, OnceStep DEF HostInv
<1>3. HostInv /\ ~fpga => FrameLeftAlone
  BY DEF HostInv, IdleInv, FrameLeftAlone
<1>4. HostInv /\ HostReturnsLast /\ OnceInv => FrameLeftAlone
  <2> SUFFICES ASSUME HostInv, HostReturnsLast, OnceInv PROVE FrameLeftAlone
    OBVIOUS
  <2>1. ~aborted /\ HostTypeOK
    BY DEF HostInv, OnceInv
  <2>2. hostDone => doneEvent
    BY DEF HostInv, IdleInv, CountInv
  <2>3. ASSUME hostDone, NEW h \in HostThreads, at[h] # NoSlot
        PROVE  tail[h] = "leave"
    <3>1. tail[h] # "none" /\ tail[h] # "test" /\ tail[h] # "set"
      BY <2>2, <2>3 DEF HostReturnsLast, OnceInv
    <3>2. QED BY <2>1, <3>1 DEF HostTypeOK
  <2>4. QED BY <2>1, <2>3 DEF FrameLeftAlone
<1>5. HostInv /\ HostReturnsLast /\ Once => FrameLeftAlone
  BY <1>3, <1>4 DEF FrameLeftAlone
<1> HIDE DEF Once
<1>6. QED BY <1>1, <1>2, <1>5, HostInvHolds, MainLeavesLast, PTL DEF HostSpec
=============================================================================
