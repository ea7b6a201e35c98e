--------------------- MODULE ContinuousValidatorProofs ---------------------
(***************************************************************************)
(* The slot hand-over of ContinuousValidator is safe for any finite set of *)
(* workers and any set of jobs: HandoverInv is inductive, so no worker     *)
(* reads a buffer that was given back, no buffer is given back twice, none *)
(* is kept at exit, and the hand-over implements BufferLease.              *)
(***************************************************************************)
EXTENDS ContinuousValidator, FiniteSetTheorems, TLAPS

\* A verdict is about a job and stays within the types.
LEMMA SampleType ==
  ASSUME TypeOK, NEW j, NEW s, SampleInto(j, s)
  PROVE  correct' \in [Slots -> BOOLEAN] /\ detected' \in SUBSET Jobs
<1>1. CASE FindNothing
  BY <1>1 DEF TypeOK, FindNothing
<1>2. CASE j \in Bad /\ FindError(j, s)
  <2>1. correct' \in [Slots -> BOOLEAN]
    BY <1>2 DEF TypeOK, FindError
  <2>2. j \in Jobs
    BY <1>2, JobsAssumption
  <2>3. QED BY <1>2, <2>1, <2>2 DEF TypeOK, FindError
<1>3. QED BY <1>1, <1>2 DEF SampleInto

\* A step that moves no worker from slot to slot leaves the count right.
LEMMA CountSame ==
  ASSUME CountInv,
         mpc' \in Active => mpc \in Active,
         numProcessingB' = numProcessingB,
         \A x \in Workers : On(x)' = On(x)
  PROVE  CountInv'
<1>1. OnB' = OnB
  BY DEF OnB
<1>2. QED BY <1>1 DEF CountInv, Active, TwoJobs

\* What the main thread concludes from numProcessingB: when it equals 0 (for
\* slot B) or the number of workers (for slot A), every worker is on the slot
\* of the current job, those that were never scheduled included.
LEMMA AllLeftMeansAll ==
  ASSUME HandoverInv, mpc = "waitLeave", AllWorkersLeftJob(Other)
  PROVE  \A w \in Workers : On(w) = curJob
<1> USE DEF HandoverInv
<1>1. \A w \in Workers : On(w) \in Slots
  BY DEF On, WorkerInv, TypeOK, Slots, Active, TwoJobs
<1>2. numProcessingB = Cardinality(OnB)
  BY DEF CountInv, Active, TwoJobs
<1>3. OnB \in SUBSET Workers
  BY DEF OnB
<1>4. IsFiniteSet(OnB)
  BY <1>3, FS_Subset, WorkersAssumption
<1>5. CASE Other = 1
  <2>1. OnB = {}
    BY <1>5, <1>2, <1>4, FS_EmptySet DEF AllWorkersLeftJob
  <2>2. QED BY <2>1, <1>5, <1>1 DEF OnB, TypeOK, Other, Slots
<1>6. CASE Other = 0
  <2>1. Cardinality(Workers) = Cardinality(OnB)
    BY <1>6, <1>2 DEF AllWorkersLeftJob
  <2>2. OnB = Workers
    BY <2>1, <1>3, FS_Subset, WorkersAssumption
  <2>3. QED BY <2>2, <1>6, <1>1 DEF OnB, TypeOK, Other, Slots
<1>7. QED BY <1>5, <1>6 DEF Other, TypeOK, Slots

LEMMA HandoverInit == Init => HandoverInv
<1> SUFFICES ASSUME Init PROVE HandoverInv
  OBVIOUS
<1>1. TypeOK
  <2>1. correct \in [Slots -> BOOLEAN] /\ jobs \in [Slots -> Jobs \cup {NoJob}]
    BY DEF Init
  <2>2. wpc \in [Workers -> {"none", "start", "load", "sample", "readNext",
                             "switch", "exited"}]
    BY DEF Init
  <2>3. wJob \in [Workers -> Slots \cup {EXIT}] /\
        wBuf \in [Workers -> Jobs \cup {NoJob}]
    BY DEF Init, Slots
  <2>4. freed \in [Jobs -> Nat]
    BY DEF Init
  <2>5. /\ pushed \subseteq Jobs /\ popped \subseteq pushed
        /\ detected \subseteq Jobs /\ reported \subseteq Jobs
    BY DEF Init
  <2>6. closed \in BOOLEAN /\ isFirstBuffer \in BOOLEAN
    BY DEF Init
  <2>7. /\ nextJob \in Slots \cup {EXIT} /\ numProcessingB \in Int /\ curJob \in Slots
        /\ mpc \in {"initialPop", "ends", "sample", "waitLeave", "reclaim", "grab",
                    "publish", "arm", "join", "done"}
    BY DEF Init, Slots
  <2>8. QED BY <2>1, <2>2, <2>3, <2>4, <2>5, <2>6, <2>7 DEF TypeOK
<1>2. StageInv
  BY DEF Init, StageInv, Active, TwoJobs
<1>3. SlotInv
  BY DEF Init, SlotInv, LiveSlot, Active, TwoJobs
<1>4. \A w \in Workers : WorkerInv(w)
  BY DEF Init, WorkerInv, Active, TwoJobs, Reading
<1>5. CountInv
  BY DEF Init, CountInv, Active, TwoJobs
<1>6. QED BY <1>1, <1>2, <1>3, <1>4, <1>5 DEF HandoverInv

LEMMA HandoverStep == HandoverInv /\ [Next]_vars => HandoverInv'
<1> SUFFICES ASSUME HandoverInv, [Next]_vars
             PROVE  HandoverInv'
  OBVIOUS
<1> USE JobsAssumption, WorkersAssumption
    DEF HandoverInv, queueVars, sharedVars, mainVars, workerVars, seenVars
<1>1. ASSUME NEW j \in Jobs, Push(j)
      PROVE  HandoverInv'
  <2> USE <1>1 DEF Push
  <2>1. TypeOK'
    BY DEF TypeOK, Queued, Other, EXIT, Slots
  <2>2. StageInv'
    BY DEF StageInv, TypeOK, Active, TwoJobs, Other, EXIT, Slots
  <2>3. SlotInv'
    BY DEF SlotInv, StageInv, TypeOK, Active, TwoJobs, Other, Slots,
           LiveSlot, Queued
  <2>4. ASSUME NEW x \in Workers PROVE WorkerInv(x)'
    BY DEF WorkerInv, StageInv, TypeOK, Active, TwoJobs, Other, EXIT, Slots,
           LiveSlot, On, Reading
  <2>5. CountInv'
    BY DEF CountInv, Active, TwoJobs, OnB, On
  <2>6. QED BY <2>1, <2>2, <2>3, <2>4, <2>5
<1>2. ASSUME Close
      PROVE  HandoverInv'
  <2> USE <1>2 DEF Close
  <2>1. TypeOK'
    BY DEF TypeOK, Queued, Other, EXIT, Slots
  <2>2. StageInv'
    BY DEF StageInv, TypeOK, Active, TwoJobs, Other, EXIT, Slots
  <2>3. SlotInv'
    BY DEF SlotInv, StageInv, TypeOK, Active, TwoJobs, Other, Slots,
           LiveSlot, Queued
  <2>4. ASSUME NEW x \in Workers PROVE WorkerInv(x)'
    BY DEF WorkerInv, StageInv, TypeOK, Active, TwoJobs, Other, EXIT, Slots,
           LiveSlot, On, Reading
  <2>5. CountInv'
    BY DEF CountInv, Active, TwoJobs, OnB, On
  <2>6. QED BY <2>1, <2>2, <2>3, <2>4, <2>5
<1>3. ASSUME NEW j \in Jobs, PopShort(j)
      PROVE  HandoverInv'
  <2> USE <1>3 DEF PopShort
  <2>1. TypeOK'
    BY DEF TypeOK, Queued, Other, EXIT, Slots
  <2>2. StageInv'
    BY DEF StageInv, TypeOK, Active, TwoJobs, Other, EXIT, Slots
  <2>3. SlotInv'
    BY DEF SlotInv, StageInv, TypeOK, Active, TwoJobs, Other, Slots,
           LiveSlot, Queued
  <2>4. ASSUME NEW x \in Workers PROVE WorkerInv(x)'
    BY DEF WorkerInv, StageInv, TypeOK, Active, TwoJobs, Other, EXIT, Slots,
           LiveSlot, On, Reading
  <2>5. CountInv'
    BY DEF CountInv, Active, TwoJobs, OnB, On
  <2>6. QED BY <2>1, <2>2, <2>3, <2>4, <2>5
<1>4. ASSUME NEW j \in Jobs, PopFirst(j)
      PROVE  HandoverInv'
  <2> USE <1>4 DEF PopFirst
  <2>1. TypeOK'
    BY DEF TypeOK, Queued, Other, EXIT, Slots
  <2>2. StageInv'
    BY DEF StageInv, TypeOK, Active, TwoJobs, Other, EXIT, Slots
  <2>3. SlotInv'
    BY DEF SlotInv, StageInv, TypeOK, Active, TwoJobs, Other, Slots,
           LiveSlot, Queued
  <2>4. ASSUME NEW x \in Workers PROVE WorkerInv(x)'
    BY DEF WorkerInv, StageInv, TypeOK, Active, TwoJobs, Other, EXIT, Slots,
           LiveSlot, On, Reading
  <2>5. CountInv'
    <3>1. \A x \in Workers : On(x)' = 0
      BY DEF On, WorkerInv
    <3>2. OnB' = {}
      BY <3>1 DEF OnB
    <3>3. numProcessingB' = 0
      BY DEF StageInv
    <3>4. QED BY <3>2, <3>3, FS_EmptySet DEF CountInv
  <2>6. QED BY <2>1, <2>2, <2>3, <2>4, <2>5
<1>5. ASSUME NEW j \in Jobs, PopNext(j)
      PROVE  HandoverInv'
  <2> USE <1>5 DEF PopNext
  <2>1. TypeOK'
    <3>1. Other \in Slots
      BY DEF TypeOK, Other, Slots
    <3>2. jobs' \in [Slots -> Jobs \cup {NoJob}]
      BY <3>1 DEF TypeOK
    <3>3. popped' \subseteq pushed
      BY DEF TypeOK, Queued
    <3>4. QED BY <3>1, <3>2, <3>3 DEF TypeOK
  <2>2. StageInv'
    BY DEF StageInv, TypeOK, Active, TwoJobs, Other, EXIT, Slots
  <2>3. SlotInv'
    BY DEF SlotInv, StageInv, TypeOK, Active, TwoJobs, Other, Slots,
           LiveSlot, Queued
  <2>4. ASSUME NEW x \in Workers PROVE WorkerInv(x)'
    BY DEF WorkerInv, StageInv, TypeOK, Active, TwoJobs, Other, EXIT, Slots,
           LiveSlot, On, Reading
  <2>5. CountInv'
    BY DEF CountInv, Active, TwoJobs, OnB, On
  <2>6. QED BY <2>1, <2>2, <2>3, <2>4, <2>5
<1>6. ASSUME ExitIdle
      PROVE  HandoverInv'
  <2> USE <1>6 DEF ExitIdle
  <2>1. TypeOK'
    BY DEF TypeOK, Queued, Other, EXIT, Slots
  <2>2. StageInv'
    BY DEF StageInv, TypeOK, Active, TwoJobs, Other, EXIT, Slots
  <2>3. SlotInv'
    BY DEF SlotInv, StageInv, TypeOK, Active, TwoJobs, Other, Slots,
           LiveSlot, Queued
  <2>4. ASSUME NEW x \in Workers PROVE WorkerInv(x)'
    BY DEF WorkerInv, StageInv, TypeOK, Active, TwoJobs, Other, EXIT, Slots,
           LiveSlot, On, Reading
  <2>5. CountInv'
    BY DEF CountInv, Active, TwoJobs, OnB, On
  <2>6. QED BY <2>1, <2>2, <2>3, <2>4, <2>5
<1>7. ASSUME CheckEnds
      PROVE  HandoverInv'
  <2> USE <1>7 DEF CheckEnds, FindError, FindNothing
  <2>1. TypeOK'
    <3>1. SampleInto(jobs[curJob], curJob)
      BY DEF SampleInto
    <3>2. QED BY <3>1, SampleType DEF TypeOK
  <2>2. StageInv'
    BY DEF StageInv, TypeOK, Active, TwoJobs, Other, EXIT, Slots
  <2>3. SlotInv'
    BY DEF SlotInv, StageInv, TypeOK, Active, TwoJobs, Other, Slots,
           LiveSlot, Queued
  <2>4. ASSUME NEW x \in Workers PROVE WorkerInv(x)'
    BY DEF WorkerInv, StageInv, TypeOK, Active, TwoJobs, Other, EXIT, Slots,
           LiveSlot, On, Reading
  <2>5. CountInv'
    BY DEF CountInv, Active, TwoJobs, OnB, On
  <2>6. QED BY <2>1, <2>2, <2>3, <2>4, <2>5
<1>8. ASSUME TargetMet
      PROVE  HandoverInv'
  <2> USE <1>8 DEF TargetMet
  <2>1. TypeOK'
    BY DEF TypeOK, Queued, Other, EXIT, Slots
  <2>2. StageInv'
    BY DEF StageInv, TypeOK, Active, TwoJobs, Other, EXIT, Slots
  <2>3. SlotInv'
    BY DEF SlotInv, StageInv, TypeOK, Active, TwoJobs, Other, Slots,
           LiveSlot, Queued
  <2>4. ASSUME NEW x \in Workers PROVE WorkerInv(x)'
    BY DEF WorkerInv, StageInv, TypeOK, Active, TwoJobs, Other, EXIT, Slots,
           LiveSlot, On, Reading
  <2>5. CountInv'
    BY DEF CountInv, Active, TwoJobs, OnB, On
  <2>6. QED BY <2>1, <2>2, <2>3, <2>4, <2>5
<1>9. ASSUME AllLeft
      PROVE  HandoverInv'
  <2> USE <1>9 DEF AllLeft
  <2>1. TypeOK'
    BY DEF TypeOK, Queued, Other, EXIT, Slots
  <2>2. StageInv'
    BY DEF StageInv, TypeOK, Active, TwoJobs, Other, EXIT, Slots
  <2>3. SlotInv'
    BY DEF SlotInv, StageInv, TypeOK, Active, TwoJobs, Other, Slots,
           LiveSlot, Queued
  <2>4. ASSUME NEW x \in Workers PROVE WorkerInv(x)'
    <3>1. On(x) = curJob
      BY AllLeftMeansAll
    <3>2. QED BY <3>1 DEF WorkerInv, StageInv, TypeOK, Active, TwoJobs, Other,
                          Slots, LiveSlot, On, Reading
  <2>5. CountInv'
    BY DEF CountInv, Active, TwoJobs, OnB, On
  <2>6. QED BY <2>1, <2>2, <2>3, <2>4, <2>5
<1>10. ASSUME Reclaim
      PROVE  HandoverInv'
  <2> USE <1>10 DEF Reclaim, ReportAndFree
  <2>1. TypeOK'
    <3>1. jobs[Other] \in Jobs
      BY DEF StageInv, SlotInv, LiveSlot, TwoJobs, TypeOK, Other, Slots
    <3>2. freed' \in [Jobs -> Nat] /\ reported' \in SUBSET Jobs
      BY <3>1 DEF TypeOK
    <3>3. QED BY <3>2 DEF TypeOK
  <2>2. StageInv'
    BY DEF StageInv, TypeOK, Active, TwoJobs, Other, EXIT, Slots
  <2>3. SlotInv'
    BY DEF SlotInv, StageInv, TypeOK, Active, TwoJobs, Other, Slots,
           LiveSlot, Queued
  <2>4. ASSUME NEW x \in Workers PROVE WorkerInv(x)'
    BY DEF WorkerInv, StageInv, TypeOK, Active, TwoJobs, Other, EXIT, Slots,
           LiveSlot, On, Reading
  <2>5. CountInv'
    BY DEF CountInv, Active, TwoJobs, OnB, On
  <2>6. QED BY <2>1, <2>2, <2>3, <2>4, <2>5
<1>11. ASSUME Publish
      PROVE  HandoverInv'
  <2> USE <1>11 DEF Publish
  <2>1. TypeOK'
    BY DEF TypeOK, Queued, Other, EXIT, Slots
  <2>2. StageInv'
    BY DEF StageInv, TypeOK, Active, TwoJobs, Other, EXIT, Slots
  <2>3. SlotInv'
    BY DEF SlotInv, StageInv, TypeOK, Active, TwoJobs, Other, Slots,
           LiveSlot, Queued
  <2>4. ASSUME NEW x \in Workers PROVE WorkerInv(x)'
    BY DEF WorkerInv, StageInv, TypeOK, Active, TwoJobs, Other, EXIT, Slots,
           LiveSlot, On, Reading
  <2>5. CountInv'
    BY DEF CountInv, Active, TwoJobs, OnB, On
  <2>6. QED BY <2>1, <2>2, <2>3, <2>4, <2>5
<1>12. ASSUME Arm
      PROVE  HandoverInv'
  <2> USE <1>12 DEF Arm
  <2>1. TypeOK'
    BY DEF TypeOK, Queued, Other, EXIT, Slots
  <2>2. StageInv'
    BY DEF StageInv, TypeOK, Active, TwoJobs, Other, EXIT, Slots
  <2>3. SlotInv'
    BY DEF SlotInv, StageInv, TypeOK, Active, TwoJobs, Other, Slots,
           LiveSlot, Queued
  <2>4. ASSUME NEW x \in Workers PROVE WorkerInv(x)'
    BY DEF WorkerInv, StageInv, TypeOK, Active, TwoJobs, Other, EXIT, Slots,
           LiveSlot, On, Reading
  <2>5. CountInv'
    BY DEF CountInv, Active, TwoJobs, OnB, On
  <2>6. QED BY <2>1, <2>2, <2>3, <2>4, <2>5
<1>13. ASSUME StopWorkers
      PROVE  HandoverInv'
  <2> USE <1>13 DEF StopWorkers
  <2>1. TypeOK'
    BY DEF TypeOK, Queued, Other, EXIT, Slots
  <2>2. StageInv'
    BY DEF StageInv, TypeOK, Active, TwoJobs, Other, EXIT, Slots
  <2>3. SlotInv'
    BY DEF SlotInv, StageInv, TypeOK, Active, TwoJobs, Other, Slots,
           LiveSlot, Queued
  <2>4. ASSUME NEW x \in Workers PROVE WorkerInv(x)'
    BY DEF WorkerInv, StageInv, TypeOK, Active, TwoJobs, Other, EXIT, Slots,
           LiveSlot, On, Reading
  <2>5. CountInv'
    BY DEF CountInv, Active, TwoJobs, OnB, On
  <2>6. QED BY <2>1, <2>2, <2>3, <2>4, <2>5
<1>14. ASSUME JoinAndFree
      PROVE  HandoverInv'
  <2> USE <1>14 DEF JoinAndFree, ReportAndFree
  <2>1. TypeOK'
    <3>1. jobs[curJob] \in Jobs
      BY DEF StageInv, SlotInv, LiveSlot, TypeOK, Slots
    <3>2. freed' \in [Jobs -> Nat] /\ reported' \in SUBSET Jobs
      BY <3>1 DEF TypeOK
    <3>3. QED BY <3>2 DEF TypeOK
  <2>2. StageInv'
    BY DEF StageInv, TypeOK, Active, TwoJobs, Other, EXIT, Slots
  <2>3. SlotInv'
    BY DEF SlotInv, StageInv, TypeOK, Active, TwoJobs, Other, Slots,
           LiveSlot, Queued
  <2>4. ASSUME NEW x \in Workers PROVE WorkerInv(x)'
    BY DEF WorkerInv, StageInv, TypeOK, Active, TwoJobs, Other, EXIT, Slots,
           LiveSlot, On, Reading
  <2>5. CountInv'
    BY DEF CountInv, Active, TwoJobs, OnB, On
  <2>6. QED BY <2>1, <2>2, <2>3, <2>4, <2>5
<1>15. ASSUME MainSample
      PROVE  HandoverInv'
  <2> USE <1>15 DEF MainSample, SampleInto, FindError, FindNothing
  <2>1. TypeOK'
    BY SampleType DEF TypeOK
  <2>2. StageInv'
    BY DEF StageInv, TypeOK, Active, TwoJobs, Other, EXIT, Slots
  <2>3. SlotInv'
    BY DEF SlotInv, StageInv, TypeOK, Active, TwoJobs, Other, Slots,
           LiveSlot, Queued
  <2>4. ASSUME NEW x \in Workers PROVE WorkerInv(x)'
    BY DEF WorkerInv, StageInv, TypeOK, Active, TwoJobs, Other, EXIT, Slots,
           LiveSlot, On, Reading
  <2>5. CountInv'
    BY DEF CountInv, Active, TwoJobs, OnB, On
  <2>6. QED BY <2>1, <2>2, <2>3, <2>4, <2>5
<1>16. ASSUME WaitSample
      PROVE  HandoverInv'
  <2> USE <1>16 DEF WaitSample, SampleInto, FindError, FindNothing
  <2>1. TypeOK'
    BY SampleType DEF TypeOK
  <2>2. StageInv'
    BY DEF StageInv, TypeOK, Active, TwoJobs, Other, EXIT, Slots
  <2>3. SlotInv'
    BY DEF SlotInv, StageInv, TypeOK, Active, TwoJobs, Other, Slots,
           LiveSlot, Queued
  <2>4. ASSUME NEW x \in Workers PROVE WorkerInv(x)'
    BY DEF WorkerInv, StageInv, TypeOK, Active, TwoJobs, Other, EXIT, Slots,
           LiveSlot, On, Reading
  <2>5. CountInv'
    BY DEF CountInv, Active, TwoJobs, OnB, On
  <2>6. QED BY <2>1, <2>2, <2>3, <2>4, <2>5
<1>17. ASSUME NEW w \in Workers, WorkerStart(w)
      PROVE  HandoverInv'
  <2> USE <1>17 DEF WorkerStart, Goto
  <2>1. TypeOK'
    BY DEF TypeOK, Queued, Other, EXIT, Slots
  <2>2. StageInv'
    BY DEF StageInv, TypeOK, Active, TwoJobs, Other, EXIT, Slots
  <2>3. SlotInv'
    BY DEF SlotInv, StageInv, TypeOK, Active, TwoJobs, Other, Slots,
           LiveSlot, Queued
  <2>4. ASSUME NEW x \in Workers PROVE WorkerInv(x)'
    BY DEF WorkerInv, StageInv, TypeOK, Active, TwoJobs, Other, EXIT, Slots,
           LiveSlot, On, Reading
  <2>5. CountInv'
    <3>1. \A x \in Workers : On(x)' = On(x)
      BY DEF On, WorkerInv, TypeOK
    <3>2. QED BY <3>1, CountSame
  <2>6. QED BY <2>1, <2>2, <2>3, <2>4, <2>5
<1>18. ASSUME NEW w \in Workers, WorkerLoad(w)
      PROVE  HandoverInv'
  <2> USE <1>18 DEF WorkerLoad, Goto
  <2>1. TypeOK'
    BY DEF TypeOK, WorkerInv, StageInv, Active, TwoJobs, Slots
  <2>2. StageInv'
    BY DEF StageInv, TypeOK, Active, TwoJobs, Other, EXIT, Slots
  <2>3. SlotInv'
    BY DEF SlotInv, StageInv, TypeOK, Active, TwoJobs, Other, Slots,
           LiveSlot, Queued
  <2>4. ASSUME NEW x \in Workers PROVE WorkerInv(x)'
    BY DEF WorkerInv, StageInv, TypeOK, Active, TwoJobs, Other, EXIT, Slots,
           LiveSlot, On, Reading
  <2>5. CountInv'
    BY DEF CountInv, Active, TwoJobs, OnB, On
  <2>6. QED BY <2>1, <2>2, <2>3, <2>4, <2>5
<1>19. ASSUME NEW w \in Workers, WorkerSample(w)
      PROVE  HandoverInv'
  <2> USE <1>19 DEF WorkerSample, SampleInto, FindError, FindNothing, Goto
  <2>1. TypeOK'
    BY SampleType DEF TypeOK
  <2>2. StageInv'
    BY DEF StageInv, TypeOK, Active, TwoJobs, Other, EXIT, Slots
  <2>3. SlotInv'
    BY DEF SlotInv, StageInv, TypeOK, Active, TwoJobs, Other, Slots,
           LiveSlot, Queued
  <2>4. ASSUME NEW x \in Workers PROVE WorkerInv(x)'
    BY DEF WorkerInv, StageInv, TypeOK, Active, TwoJobs, Other, EXIT, Slots,
           LiveSlot, On, Reading
  <2>5. CountInv'
    BY DEF CountInv, Active, TwoJobs, OnB, On
  <2>6. QED BY <2>1, <2>2, <2>3, <2>4, <2>5
<1>20. ASSUME NEW w \in Workers, WorkerReadNext(w)
      PROVE  HandoverInv'
  <2> USE <1>20 DEF WorkerReadNext, Goto
  <2>1. TypeOK'
    BY DEF TypeOK, Queued, Other, EXIT, Slots
  <2>2. StageInv'
    BY DEF StageInv, TypeOK, Active, TwoJobs, Other, EXIT, Slots
  <2>3. SlotInv'
    BY DEF SlotInv, StageInv, TypeOK, Active, TwoJobs, Other, Slots,
           LiveSlot, Queued
  <2>4. ASSUME NEW x \in Workers PROVE WorkerInv(x)'
    BY DEF WorkerInv, StageInv, TypeOK, Active, TwoJobs, Other, EXIT, Slots,
           LiveSlot, On, Reading
  <2>5. CountInv'
    <3>1. CASE mpc \in Active
      <4>1. On(w)' = On(w)
        BY <3>1 DEF On, WorkerInv, TypeOK, StageInv, LiveSlot, Slots, Other,
                    Active, TwoJobs
      <4>2. \A x \in Workers \ {w} : On(x)' = On(x)
        BY DEF On, TypeOK
      <4>3. QED BY <3>1, <4>1, <4>2, CountSame
    <3>2. CASE mpc \notin Active
      BY <3>2 DEF CountInv, Active, TwoJobs
    <3>3. QED BY <3>1, <3>2
  <2>6. QED BY <2>1, <2>2, <2>3, <2>4, <2>5
<1>21. ASSUME NEW w \in Workers, WorkerSwitchTo(w)
      PROVE  HandoverInv'
  <2> USE <1>21 DEF WorkerSwitchTo, Goto
  <2>1. TypeOK'
    BY DEF TypeOK, Queued, Other, EXIT, Slots
  <2>2. StageInv'
    BY DEF StageInv, WorkerInv, Active, TwoJobs, Other
  <2>3. SlotInv'
    BY DEF SlotInv, StageInv, TypeOK, Active, TwoJobs, Other, Slots,
           LiveSlot, Queued
  <2>4. ASSUME NEW x \in Workers PROVE WorkerInv(x)'
    BY DEF WorkerInv, StageInv, TypeOK, Active, TwoJobs, Other, EXIT, Slots,
           LiveSlot, On, Reading
  <2>5. CountInv'
    <3>1. CASE mpc \in Active
      <4>1. wJob[w] \in Slots
        BY <3>1 DEF WorkerInv
      <4>2. \A x \in Workers \ {w} : On(x)' = On(x)
        BY DEF On, TypeOK
      <4>3. On(w)' = wJob[w] /\ On(w) = 1 - wJob[w]
        BY <4>1 DEF On, TypeOK, Slots, EXIT
      <4>4. IsFiniteSet(OnB) /\ Cardinality(OnB) \in Nat
        BY FS_Subset, FS_CardinalityType DEF OnB
      <4>5. numProcessingB = Cardinality(OnB)
        BY <3>1 DEF CountInv
      <4>6. CASE wJob[w] = 1
        <5>1. OnB' = OnB \cup {w} /\ w \notin OnB
          BY <4>2, <4>3, <4>6 DEF OnB
        <5>2. Cardinality(OnB') = Cardinality(OnB) + 1
          BY <5>1, <4>4, FS_AddElement
        <5>3. QED BY <5>2, <4>5, <4>6 DEF CountInv
      <4>7. CASE wJob[w] = 0
        <5>1. OnB' = OnB \ {w} /\ w \in OnB
          BY <4>2, <4>3, <4>7 DEF OnB
        <5>2. Cardinality(OnB') = Cardinality(OnB) - 1
          BY <5>1, <4>4, FS_RemoveElement
        <5>3. numProcessingB' = numProcessingB - 1
          BY <4>7 DEF TypeOK
        <5>4. QED BY <5>2, <5>3, <4>5 DEF CountInv
      <4>8. QED BY <4>1, <4>6, <4>7 DEF Slots
    <3>2. CASE mpc \notin Active
      BY <3>2 DEF CountInv, Active, TwoJobs
    <3>3. QED BY <3>1, <3>2
  <2>6. QED BY <2>1, <2>2, <2>3, <2>4, <2>5
<1>22. CASE UNCHANGED vars
  BY <1>22 DEF vars, TypeOK, StageInv, SlotInv, WorkerInv, CountInv, Active, TwoJobs,
     LiveSlot, Other, On, OnB, Reading, Queued
<1>23. QED
  BY <1>1, <1>2, <1>3, <1>4, <1>5, <1>6, <1>7, <1>8, <1>9, <1>10, <1>11,
     <1>12, <1>13, <1>14, <1>15, <1>16, <1>17, <1>18, <1>19, <1>20, <1>21,
     <1>22
     DEF Next, MainProgress, Worker, Terminated

\* Every reachable state satisfies the hand-over invariant.
THEOREM HandoverHolds == Spec => []HandoverInv
<1>1. HandoverInv /\ [Next]_vars => HandoverInv'
  BY HandoverStep
<1>2. QED BY HandoverInit, <1>1, PTL DEF Spec

\* The variables keep their types.
THEOREM ValidatorTypeOK == Spec => []TypeOK
<1>1. HandoverInv => TypeOK
  BY DEF HandoverInv
<1>2. QED BY HandoverHolds, <1>1, PTL

\* validationWorkerThread never reads a buffer that was given back.
THEOREM NoUseAfterFree == Spec => []NoReadOfFreedBuffer
<1>1. HandoverInv => NoReadOfFreedBuffer
  <2> SUFFICES ASSUME HandoverInv, NEW w \in Workers, Reading(w)
               PROVE  /\ wBuf[w] = jobs[wJob[w]]
                      /\ wBuf[w] \in popped /\ freed[wBuf[w]] = 0
    BY DEF NoReadOfFreedBuffer
  <2> USE DEF HandoverInv, Reading
  <2>1. wBuf[w] = jobs[wJob[w]]
    BY DEF WorkerInv
  <2>2. wJob[w] \in Slots /\ LiveSlot(wJob[w])
    BY DEF WorkerInv, TypeOK, On, LiveSlot, Active, TwoJobs
  <2>3. QED BY <2>1, <2>2 DEF SlotInv
<1>2. QED BY HandoverHolds, <1>1, PTL

\* freeBuffersAfterValidation runs at most once for each job.
THEOREM NoDoubleFree == Spec => []FreedAtMostOnce
<1>1. HandoverInv => FreedAtMostOnce
  BY DEF HandoverInv, SlotInv, FreedAtMostOnce
<1>2. QED BY HandoverHolds, <1>1, PTL

----------------------------------------------------------------------------
(* ContinuousValidator implements BufferLease.                             *)

leaseNow   == [j \in Jobs |-> LeaseOf(j)]
readingNow == [w \in Workers |-> IF Reading(w) THEN wBuf[w] ELSE NoJob]

\* A step that touches neither a job's accounting nor a worker's references is
\* a stutter of the lease.
LEMMA LeaseStutter ==
  ASSUME UNCHANGED <<popped, freed>>,
         \A w \in Workers : Reading(w)' = Reading(w) /\ wBuf'[w] = wBuf[w]
  PROVE  leaseNow' = leaseNow /\ readingNow' = readingNow
BY DEF leaseNow, readingNow, LeaseOf

\* Giving back the job of a live slot that no worker is on is a Return.
LEMMA ReturnStep ==
  ASSUME HandoverInv, NEW s \in Slots, LiveSlot(s), ReportAndFree(s),
         UNCHANGED <<popped, wpc, wBuf>>,
         \A w \in Workers : Reading(w) => LiveSlot(wJob[w]) /\ wJob[w] \in Slots \ {s}
  PROVE  Lease!Return(jobs[s])
<1> DEFINE b == jobs[s]
<1>1. b \in popped /\ b \in Jobs /\ freed[b] = 0
  BY DEF HandoverInv, SlotInv, TypeOK
<1>2. leaseNow[b] = "held"
  BY <1>1 DEF leaseNow, LeaseOf
<1>3. \A w \in Workers : readingNow[w] # b
  <2> SUFFICES ASSUME NEW w \in Workers PROVE readingNow[w] # b
    OBVIOUS
  <2>1. CASE Reading(w)
    <3>1. wBuf[w] = jobs[wJob[w]] /\ wJob[w] \in Slots \ {s} /\ LiveSlot(wJob[w])
      BY <2>1 DEF HandoverInv, WorkerInv
    <3>2. jobs[wJob[w]] # jobs[s]
      BY <3>1 DEF HandoverInv, SlotInv, Slots
    <3>3. QED BY <2>1, <3>1, <3>2 DEF readingNow
  <2>2. CASE ~Reading(w)
    BY <2>2, <1>1, JobsAssumption DEF readingNow
  <2>3. QED BY <2>1, <2>2
<1>4. leaseNow' = [leaseNow EXCEPT ![b] = "returned"]
  <2>1. freed' = [freed EXCEPT ![b] = 1] /\ popped' = popped
    BY <1>1 DEF ReportAndFree
  <2>2. freed \in [Jobs -> Nat]
    BY DEF HandoverInv, TypeOK
  <2>3. freed'[b] = 1 /\ \A i \in Jobs \ {b} : freed'[i] = freed[i]
    BY <1>1, <2>1, <2>2
  <2>4. \A i \in Jobs : LeaseOf(i)' = IF i = b THEN "returned" ELSE LeaseOf(i)
    BY <1>1, <2>1, <2>3 DEF LeaseOf
  <2>5. QED BY <1>1, <2>4, Zenon DEF leaseNow
<1>5. readingNow' = readingNow
  BY DEF readingNow, Reading
<1>6. QED BY <1>2, <1>3, <1>4, <1>5 DEF Lease!Return, leaseNow, readingNow

LEMMA LeaseInitMaps == Init => Lease!LeaseInit
<1> SUFFICES ASSUME Init PROVE Lease!LeaseInit
  OBVIOUS
<1>1. \A j \in Jobs : LeaseOf(j) = "out"
  BY DEF Init, LeaseOf
<1>2. \A w \in Workers : ~Reading(w)
  BY DEF Init, Reading
<1>3. QED BY <1>1, <1>2 DEF Lease!LeaseInit

LEMMA LeaseStepMaps ==
  HandoverInv /\ [Next]_vars => [Lease!LeaseNext]_(Lease!leaseVars)
<1> SUFFICES ASSUME HandoverInv, [Next]_vars
             PROVE  Lease!LeaseNext \/ (leaseNow' = leaseNow /\ readingNow' = readingNow)
  BY DEF Lease!leaseVars, leaseNow, readingNow
<1> USE DEF HandoverInv, queueVars, sharedVars, mainVars, workerVars, seenVars, Reading
<1>1. CASE \/ \E j \in Jobs : Push(j)
           \/ Close \/ ExitIdle \/ CheckEnds \/ TargetMet \/ AllLeft \/ Publish
           \/ Arm \/ StopWorkers \/ MainSample \/ WaitSample \/ Terminated
           \/ UNCHANGED vars
  BY <1>1, LeaseStutter DEF Push, Close, ExitIdle, CheckEnds, TargetMet, AllLeft,
     Publish, Arm, StopWorkers, MainSample, WaitSample, Terminated, vars
<1>2. ASSUME NEW w \in Workers, WorkerStart(w) \/ WorkerSample(w) \/ WorkerSwitchTo(w)
      PROVE  leaseNow' = leaseNow /\ readingNow' = readingNow
  BY <1>2, LeaseStutter DEF WorkerStart, WorkerSample, WorkerSwitchTo, Goto, TypeOK
<1>3. ASSUME NEW j \in Jobs, PopShort(j)
      PROVE  Lease!Bounce(j)
  <2>1. leaseNow[j] = "out" /\ leaseNow' = [leaseNow EXCEPT ![j] = "returned"]
    <3>1. j \notin popped /\ freed[j] = 0 /\ popped' = popped \cup {j}
      BY <1>3 DEF PopShort, SlotInv, Queued
    <3>2. freed' = [freed EXCEPT ![j] = 1]
      BY <1>3, <3>1 DEF PopShort, TypeOK
    <3>3. LeaseOf(j) = "out" /\ LeaseOf(j)' = "returned"
      BY <3>1, <3>2 DEF LeaseOf, TypeOK
    <3>4. \A i \in Jobs \ {j} : LeaseOf(i)' = LeaseOf(i)
      BY <3>1, <3>2 DEF LeaseOf, TypeOK
    <3>5. QED BY <3>3, <3>4 DEF leaseNow
  <2>2. readingNow' = readingNow
    BY <1>3 DEF PopShort, readingNow
  <2>3. QED BY <2>1, <2>2 DEF Lease!Bounce, leaseNow, readingNow
<1>4. ASSUME NEW j \in Jobs, PopNext(j) \/ PopFirst(j)
      PROVE  Lease!Acquire(j)
  <2>1. j \notin popped /\ freed[j] = 0 /\ freed' = freed /\ popped' = popped \cup {j}
    BY <1>4 DEF PopFirst, PopNext, SlotInv, Queued
  <2>2. leaseNow[j] = "out" /\ leaseNow' = [leaseNow EXCEPT ![j] = "held"]
    BY <2>1 DEF leaseNow, LeaseOf
  <2>3. readingNow' = readingNow
    BY <1>4 DEF PopFirst, PopNext, readingNow, WorkerInv
  <2>4. QED BY <2>2, <2>3 DEF Lease!Acquire, leaseNow, readingNow
<1>5. ASSUME Reclaim
      PROVE  Lease!Return(jobs[Other])
  <2>1. LiveSlot(Other) /\ Other \in Slots
    BY <1>5 DEF Reclaim, LiveSlot, StageInv, TwoJobs, TypeOK, Other, Slots
  <2>2. \A w \in Workers : Reading(w) => LiveSlot(wJob[w]) /\ wJob[w] \in Slots \ {Other}
    BY <1>5 DEF Reclaim, WorkerInv, On, Active, TwoJobs, Other, Slots, TypeOK
  <2>3. QED BY <1>5, <2>1, <2>2, ReturnStep DEF Reclaim
<1>6. ASSUME JoinAndFree
      PROVE  Lease!Return(jobs[curJob])
  <2>1. LiveSlot(curJob) /\ curJob \in Slots
    BY <1>6 DEF JoinAndFree, LiveSlot, TypeOK
  <2>2. \A w \in Workers : ~Reading(w)
    BY <1>6 DEF JoinAndFree
  <2>3. QED BY <1>6, <2>1, <2>2, ReturnStep DEF JoinAndFree
<1>7. ASSUME NEW w \in Workers, WorkerLoad(w)
      PROVE  \E b \in Jobs : Lease!StartReading(w, b)
  <2>1. wJob[w] \in Slots /\ LiveSlot(wJob[w])
    BY <1>7 DEF WorkerLoad, Goto, WorkerInv, On, LiveSlot, Active, TwoJobs, TypeOK
  <2>2. jobs[wJob[w]] \in popped /\ jobs[wJob[w]] \in Jobs /\ freed[jobs[wJob[w]]] = 0
    BY <2>1 DEF SlotInv, TypeOK
  <2>3. leaseNow[jobs[wJob[w]]] = "held" /\ leaseNow' = leaseNow
    BY <1>7, <2>2 DEF leaseNow, LeaseOf, WorkerLoad
  <2>4. readingNow[w] = NoJob /\ readingNow' = [readingNow EXCEPT ![w] = jobs[wJob[w]]]
    BY <1>7 DEF readingNow, WorkerLoad, Goto, TypeOK
  <2>5. QED BY <2>2, <2>3, <2>4 DEF Lease!StartReading, leaseNow, readingNow
<1>8. ASSUME NEW w \in Workers, WorkerReadNext(w)
      PROVE  Lease!StopReading(w) \/ (leaseNow' = leaseNow /\ readingNow' = readingNow)
  <2>1. CASE nextJob = wJob[w]
    BY <1>8, <2>1, LeaseStutter DEF WorkerReadNext, Goto, TypeOK
  <2>2. CASE nextJob # wJob[w]
    <3>1. leaseNow' = leaseNow
      BY <1>8 DEF leaseNow, LeaseOf, WorkerReadNext
    <3>2. readingNow' = [readingNow EXCEPT ![w] = NoJob]
      BY <1>8, <2>2 DEF readingNow, WorkerReadNext, Goto, TypeOK
    <3>3. QED BY <3>1, <3>2 DEF Lease!StopReading, leaseNow, readingNow
  <2>3. QED BY <2>1, <2>2
<1>9. jobs[Other] \in Jobs \/ ~Reclaim
  BY DEF Reclaim, SlotInv, StageInv, LiveSlot, TwoJobs, TypeOK, Other, Slots
<1>10. jobs[curJob] \in Jobs \/ ~JoinAndFree
  BY DEF JoinAndFree, SlotInv, LiveSlot, TypeOK, Slots
<1>11. CASE MainProgress
  BY <1>1, <1>3, <1>4, <1>5, <1>6, <1>9, <1>10, <1>11 DEF MainProgress, Lease!LeaseNext
<1>12. ASSUME NEW w \in Workers, Worker(w)
       PROVE  Lease!LeaseNext \/ (leaseNow' = leaseNow /\ readingNow' = readingNow)
  <2>1. CASE WorkerStart(w) \/ WorkerSample(w) \/ WorkerSwitchTo(w)
    BY <2>1, <1>2
  <2>2. CASE WorkerLoad(w)
    BY <2>2, <1>7 DEF Lease!LeaseNext
  <2>3. CASE WorkerReadNext(w)
    <3>1. Lease!StopReading(w) => Lease!LeaseNext
      BY DEF Lease!LeaseNext
    <3>2. Lease!StopReading(w) \/ (leaseNow' = leaseNow /\ readingNow' = readingNow)
      BY <2>3, <1>8
    <3>3. QED BY <3>1, <3>2
  <2>4. QED BY <1>12, <2>1, <2>2, <2>3 DEF Worker
<1>13. QED
  BY <1>1, <1>11, <1>12 DEF Next

\* The validator leases buffers: it returns each one once, unread.
THEOREM ValidatorImplementsLease == Spec => ImplementsLease
<1>1. Init => Lease!LeaseInit
  BY LeaseInitMaps
<1>2. HandoverInv /\ [Next]_vars => [Lease!LeaseNext]_(Lease!leaseVars)
  BY LeaseStepMaps
<1>3. QED
  BY <1>1, <1>2, HandoverHolds, PTL DEF Spec, ImplementsLease, Lease!LeaseSpec
----------------------------------------------------------------------------
(* What the thread leaves at its exit, and what it has reported by then.   *)

\* The workers are stopped, and the thread returns, only on an empty closed queue.
DrainInv == mpc \in {"join", "done"} => closed /\ Queued = {}

\* The slots whose job went through CheckEnds. Its verdict stands until the slot
\* is used again, whatever samples add to it; short jobs never get into a slot.
Checked(s) ==
  \/ s = curJob /\ mpc \in {"sample", "waitLeave", "reclaim", "grab", "join"}
  \/ s = Other /\ ~isFirstBuffer /\ mpc \in TwoJobs
EndsInv ==
  /\ \A s \in Slots : LiveSlot(s) => jobs[s] \notin Short
  /\ \A s \in Slots : Checked(s) /\ jobs[s] \in BadEnds => ~correct[s]
  /\ EndErrorsReported

LEMMA DrainStep == DrainInv /\ [Next]_vars => DrainInv'
<1> SUFFICES ASSUME DrainInv, [Next]_vars PROVE DrainInv'
  OBVIOUS
<1> USE DEF DrainInv, Queued, queueVars, sharedVars, mainVars, workerVars, seenVars
<1>1. ASSUME NEW j \in Jobs, PopShort(j) \/ PopFirst(j) \/ PopNext(j)
      PROVE  DrainInv'
  BY <1>1 DEF PopShort, PopFirst, PopNext
<1>2. CASE \/ ExitIdle \/ CheckEnds \/ TargetMet \/ AllLeft \/ Reclaim
           \/ Publish \/ Arm \/ StopWorkers \/ JoinAndFree \/ MainSample \/ WaitSample
  BY <1>2 DEF ExitIdle, CheckEnds, TargetMet, AllLeft, Reclaim, Publish, Arm, StopWorkers,
     JoinAndFree, MainSample, WaitSample
<1>3. ASSUME NEW w \in Workers, Worker(w)
      PROVE  DrainInv'
  BY <1>3 DEF Worker, WorkerStart, WorkerLoad, WorkerSample, WorkerReadNext, WorkerSwitchTo
<1>4. CASE Close \/ \E j \in Jobs : Push(j)
  BY <1>4 DEF Close, Push
<1>5. CASE UNCHANGED vars
  BY <1>5 DEF vars
<1>6. QED BY <1>1, <1>2, <1>3, <1>4, <1>5 DEF Next, MainProgress, Terminated

\* A verdict only ever goes from right to wrong while its job is in the slot.
LEMMA SampleLowers ==
  ASSUME TypeOK, NEW j, NEW x, SampleInto(j, x), NEW s \in Slots, ~correct[s]
  PROVE  ~correct'[s]
BY DEF TypeOK, SampleInto, FindNothing, FindError

LEMMA EndsKept ==
  ASSUME EndsInv, UNCHANGED <<jobs, freed>>, reported \subseteq reported',
         \A s \in Slots : LiveSlot(s)' => LiveSlot(s),
         \A s \in Slots : Checked(s)' => Checked(s),
         \A s \in Slots : Checked(s) /\ ~correct[s] => ~correct'[s]
  PROVE  EndsInv'
BY DEF EndsInv, EndErrorsReported

LEMMA EndsStep == HandoverInv /\ EndsInv /\ [Next]_vars => EndsInv'
<1> SUFFICES ASSUME HandoverInv, EndsInv, [Next]_vars PROVE EndsInv'
  OBVIOUS
<1> USE JobsAssumption DEF HandoverInv, queueVars, sharedVars, mainVars, workerVars, seenVars
<1>1. CASE Close \/ (\E j \in Jobs : Push(j)) \/ ExitIdle \/ AllLeft \/ Publish
  BY <1>1, EndsKept DEF Close, Push, ExitIdle, AllLeft, Publish, LiveSlot, Checked, Other,
     Active, TwoJobs
<1>2. CASE TargetMet \/ StopWorkers
  BY <1>2, EndsKept DEF TargetMet, StopWorkers, LiveSlot, Checked, Other, Active, TwoJobs
<1>3. ASSUME NEW j \in Jobs, PopShort(j)
      PROVE  EndsInv'
  <2>1. /\ UNCHANGED <<jobs, correct, mpc, curJob, isFirstBuffer>>
        /\ freed' = [freed EXCEPT ![j] = @ + 1] /\ reported \subseteq reported'
        /\ j \in Bad => j \in reported'
    BY <1>3 DEF PopShort
  <2>2. EndErrorsReported'
    BY <2>1 DEF EndsInv, EndErrorsReported, TypeOK
  <2>3. QED BY <2>1, <2>2 DEF EndsInv, LiveSlot, Checked, Other, Active, TwoJobs
<1>4. ASSUME NEW j \in Jobs, PopFirst(j)
      PROVE  EndsInv'
  <2>1. /\ jobs' = [jobs EXCEPT ![0] = j] /\ mpc' = "ends" /\ isFirstBuffer /\ curJob = 0
        /\ UNCHANGED <<curJob, isFirstBuffer, freed, reported>> /\ j \notin Short
    BY <1>4 DEF PopFirst, StageInv
  <2>2. \A s \in Slots : LiveSlot(s)' => jobs'[s] \notin Short
    BY <2>1 DEF LiveSlot, Slots, Other, TypeOK
  <2>3. \A s \in Slots : ~Checked(s)'
    BY <2>1 DEF Checked, Slots, Other
  <2>4. EndErrorsReported'
    BY <2>1 DEF EndsInv, EndErrorsReported
  <2>5. QED BY <2>2, <2>3, <2>4 DEF EndsInv
<1>5. ASSUME NEW j \in Jobs, PopNext(j)
      PROVE  EndsInv'
  <2>1. /\ jobs' = [jobs EXCEPT ![Other] = j] /\ mpc = "grab" /\ mpc' = "publish" /\ ~isFirstBuffer'
        /\ UNCHANGED <<correct, freed, reported>> /\ j \notin Short /\ curJob' = Other
    BY <1>5 DEF PopNext
  <2>2. curJob \in Slots /\ Other \in Slots /\ Other # curJob /\ Other' = curJob /\ Slots = {curJob, Other}
    BY <2>1 DEF TypeOK, Other, Slots
  <2>3. jobs'[Other] = j /\ jobs'[curJob] = jobs[curJob]
    BY <2>1, <2>2 DEF TypeOK
  <2>4. LiveSlot(curJob) /\ Checked(curJob)
    BY <2>1 DEF LiveSlot, Checked, Active
  <2>5. \A s \in Slots : LiveSlot(s)' => jobs'[s] \notin Short
    BY <2>1, <2>2, <2>3, <2>4 DEF EndsInv
  <2>6. \A s \in Slots : Checked(s)' => s = curJob
    BY <2>1, <2>2 DEF Checked
  <2>7. EndErrorsReported'
    BY <2>1 DEF EndsInv, EndErrorsReported
  <2>8. QED BY <2>1, <2>2, <2>3, <2>4, <2>5, <2>6, <2>7 DEF EndsInv
<1>6. CASE CheckEnds
  <2>1. /\ mpc = "ends" /\ mpc' = "sample"
        /\ UNCHANGED <<jobs, freed, reported, curJob, isFirstBuffer>>
        /\ SampleInto(jobs[curJob], curJob)
    BY <1>6 DEF CheckEnds, SampleInto
  <2>2. jobs[curJob] \in BadEnds => ~correct'[curJob]
    BY <1>6 DEF CheckEnds, FindError, TypeOK
  <2>3. \A s \in Slots : Checked(s)' => s = curJob \/ Checked(s)
    BY <2>1 DEF Checked, Other, TwoJobs
  <2>4. \A s \in Slots : LiveSlot(s)' => LiveSlot(s)
    BY <2>1 DEF LiveSlot, Other, Active, TwoJobs
  <2>5. \A s \in Slots : ~correct[s] => ~correct'[s]
    BY <2>1, SampleLowers
  <2>6. EndErrorsReported'
    BY <2>1 DEF EndsInv, EndErrorsReported
  <2>7. QED BY <2>1, <2>2, <2>3, <2>4, <2>5, <2>6 DEF EndsInv
<1>7. CASE MainSample \/ WaitSample
  <2>1. /\ UNCHANGED <<jobs, freed, reported, mpc, curJob, isFirstBuffer>>
        /\ SampleInto(jobs[curJob], curJob) \/ SampleInto(jobs[curJob], Other)
    BY <1>7 DEF MainSample, WaitSample
  <2>2. \A s \in Slots : ~correct[s] => ~correct'[s]
    BY <2>1, SampleLowers
  <2>3. QED BY <2>1, <2>2, EndsKept DEF LiveSlot, Checked, Other, Active, TwoJobs
<1>8. CASE Reclaim
  <2>1. /\ mpc = "reclaim" /\ mpc' = "grab" /\ UNCHANGED <<jobs, correct, curJob, isFirstBuffer>>
        /\ reported' = IF correct[Other] THEN reported ELSE reported \cup {jobs[Other]}
        /\ freed' = [freed EXCEPT ![jobs[Other]] = @ + 1]
    BY <1>8 DEF Reclaim, ReportAndFree
  <2>2. Other \in Slots /\ LiveSlot(Other) /\ Checked(Other)
    BY <2>1 DEF StageInv, LiveSlot, Checked, TwoJobs, TypeOK, Other, Slots
  <2>3. jobs[Other] \notin Short /\ (jobs[Other] \in BadEnds => jobs[Other] \in reported')
    BY <2>1, <2>2 DEF EndsInv
  <2>4. EndErrorsReported'
    BY <2>1, <2>3 DEF EndsInv, EndErrorsReported, TypeOK
  <2>5. \A s \in Slots : (LiveSlot(s)' => LiveSlot(s)) /\ (Checked(s)' => Checked(s))
    BY <2>1 DEF LiveSlot, Checked, Other, Active, TwoJobs
  <2>6. QED BY <2>1, <2>4, <2>5 DEF EndsInv
<1>9. CASE Arm
  <2>1. /\ mpc = "arm" /\ mpc' = "ends" /\ UNCHANGED <<jobs, freed, reported, curJob, isFirstBuffer>>
        /\ correct' = [correct EXCEPT ![curJob] = TRUE]
    BY <1>9 DEF Arm
  <2>2. \A s \in Slots : Checked(s) => s # curJob
    BY <2>1 DEF Checked, Other, TypeOK, Slots
  <2>3. \A s \in Slots : (LiveSlot(s)' => LiveSlot(s)) /\ (Checked(s)' => Checked(s))
    BY <2>1 DEF LiveSlot, Checked, Other, Active, TwoJobs
  <2>4. \A s \in Slots : Checked(s) /\ ~correct[s] => ~correct'[s]
    BY <2>1, <2>2 DEF TypeOK
  <2>5. QED BY <2>1, <2>3, <2>4, EndsKept
<1>10. CASE JoinAndFree
  <2>1. /\ mpc = "join" /\ mpc' = "done" /\ UNCHANGED <<jobs, correct, curJob, isFirstBuffer>>
        /\ reported' = IF correct[curJob] THEN reported ELSE reported \cup {jobs[curJob]}
        /\ freed' = [freed EXCEPT ![jobs[curJob]] = @ + 1]
    BY <1>10 DEF JoinAndFree, ReportAndFree
  <2>2. curJob \in Slots /\ LiveSlot(curJob) /\ Checked(curJob)
    BY <2>1 DEF LiveSlot, Checked, TypeOK
  <2>3. jobs[curJob] \notin Short /\ (jobs[curJob] \in BadEnds => jobs[curJob] \in reported')
    BY <2>1, <2>2 DEF EndsInv
  <2>4. EndErrorsReported'
    BY <2>1, <2>3 DEF EndsInv, EndErrorsReported, TypeOK
  <2>5. \A s \in Slots : ~LiveSlot(s)' /\ ~Checked(s)'
    BY <2>1 DEF LiveSlot, Checked, Active, TwoJobs
  <2>6. QED BY <2>4, <2>5 DEF EndsInv
<1>11. ASSUME NEW w \in Workers, Worker(w)
       PROVE  EndsInv'
  <2>1. UNCHANGED <<jobs, freed, reported, mpc, curJob, isFirstBuffer>>
    BY <1>11 DEF Worker, WorkerStart, WorkerLoad, WorkerSample, WorkerReadNext, WorkerSwitchTo
  <2>2. UNCHANGED correct \/ SampleInto(wBuf[w], wJob[w])
    BY <1>11 DEF Worker, WorkerStart, WorkerLoad, WorkerSample, WorkerReadNext, WorkerSwitchTo
  <2>3. \A s \in Slots : ~correct[s] => ~correct'[s]
    BY <2>2, SampleLowers
  <2>4. QED BY <2>1, <2>3, EndsKept DEF LiveSlot, Checked, Other, Active, TwoJobs
<1>12. CASE UNCHANGED vars
  BY <1>12, EndsKept DEF vars, LiveSlot, Checked, Other, Active, TwoJobs
<1>13. QED BY <1>1, <1>2, <1>3, <1>4, <1>5, <1>6, <1>7, <1>8, <1>9, <1>10, <1>11, <1>12
              DEF Next, MainProgress, Terminated

\* When continuousValidatorPThread returns, the closed queue is empty and every
\* job it took has been freed, those of the two slots included.
THEOREM NothingKept == Spec => []NothingKeptAtExit
<1>1. Init => DrainInv
  BY DEF Init, DrainInv
<1>2. HandoverInv /\ DrainInv => NothingKeptAtExit
  <2> SUFFICES ASSUME HandoverInv, DrainInv, mpc = "done"
               PROVE  Queued = {} /\ \A j \in popped : freed[j] = 1
    BY DEF NothingKeptAtExit
  <2>1. \A s \in Slots : ~LiveSlot(s)
    BY DEF LiveSlot, Active, TwoJobs
  <2>2. QED BY <2>1 DEF HandoverInv, SlotInv, DrainInv
<1>3. QED BY <1>1, <1>2, DrainStep, HandoverHolds, PTL DEF Spec

\* No job with a wrong sum among its ends, and no short one with any wrong sum, is
\* freed before it was reported, however the workers' samples interleave.
THEOREM EndErrorsAlwaysReported == Spec => []EndErrorsReported
<1>1. Init => EndsInv
  <2> SUFFICES ASSUME Init PROVE EndsInv
    OBVIOUS
  <2>1. mpc = "initialPop" /\ isFirstBuffer
    BY DEF Init
  <2>2. \A s \in Slots : ~LiveSlot(s) /\ ~Checked(s)
    BY <2>1 DEF LiveSlot, Checked, Active, TwoJobs
  <2>3. EndErrorsReported
    <3>1. \A j \in Jobs : ~(freed[j] > 0)
      BY DEF Init
    <3>2. QED BY <3>1, JobsAssumption DEF EndErrorsReported
  <2>4. QED BY <2>2, <2>3 DEF EndsInv
<1>2. EndsInv => EndErrorsReported
  BY DEF EndsInv
<1>3. QED BY <1>1, <1>2, EndsStep, HandoverHolds, PTL DEF Spec
============================================================================
