------------------------ MODULE ContinuousValidator ------------------------
(***************************************************************************)
(* One complex's validator: continuousValidatorPThread (main thread) and   *)
(* its VALIDATE_WORKER_COUNT validationWorkerThreads, which share a        *)
(* two-slot ValidatorWorkerData (dedelib/pcoeffValidator.h).               *)
(*                                                                         *)
(* The main thread pops OutputBuffers from the validationQueue, hands each *)
(* long one to the workers through the free slot, and gives a slot's       *)
(* buffers back to the allocators only when every worker has left it.      *)
(* P-coefficients themselves are abstracted: a job is Bad when some of its *)
(* sums are wrong, and a sample of a Bad job may or may not hit one.       *)
(***************************************************************************)
EXTENDS Integers, FiniteSets

CONSTANTS
  Workers,   \* the validation worker threads of this complex
  Jobs,      \* the OutputBuffers that ever reach this validator
  Bad,       \* the jobs that hold some wrong p-coefficient sum
  BadEnds,   \* those with a wrong sum in the first 64 or the last 16 bottoms
  Short,     \* the jobs of at most VALIDATE_CHECK_WHOLE_BUFFER_TRESHOLD bottoms
  NoJob      \* an OutputBuffer slot that was never filled

ASSUME WorkersAssumption == IsFiniteSet(Workers)
ASSUME JobsAssumption ==
  /\ Bad \subseteq Jobs
  /\ BadEnds \subseteq Bad
  /\ Short \subseteq Jobs
  /\ NoJob \notin Jobs

EXIT  == -1          \* VALIDATOR_EXIT
Slots == {0, 1}      \* A and B

VARIABLES
  \* the validationQueue, as this validator sees it
  pushed,        \* jobs pushed so far
  popped,        \* jobs this validator has taken out
  closed,        \* SynchronizedQueue::isClosed
  freed,         \* how many times each job's buffers went back to the allocators
  \* ValidatorWorkerData
  jobs,          \* OutputBuffer jobs[2]
  nextJob,       \* atomic<int>
  numProcessingB,\* atomic<int>
  correct,       \* atomic<bool>[2]
  \* the main thread
  mpc, curJob, isFirstBuffer,
  \* the workers: program counter, curJob, and the buffer they hold references to
  wpc, wJob, wBuf,
  \* what was observed
  detected,      \* jobs for which a wrong sum was printed
  reported       \* jobs that were passed to errorBufFunc

queueVars  == <<pushed, popped, closed, freed>>
sharedVars == <<jobs, nextJob, numProcessingB, correct>>
mainVars   == <<mpc, curJob, isFirstBuffer>>
workerVars == <<wpc, wJob, wBuf>>
seenVars   == <<detected, reported>>
vars == <<queueVars, sharedVars, mainVars, workerVars, seenVars>>

Queued == pushed \ popped
Other == 1 - curJob

TypeOK ==
  /\ pushed \subseteq Jobs /\ popped \subseteq pushed /\ closed \in BOOLEAN
  /\ freed \in [Jobs -> Nat]
  /\ jobs \in [Slots -> Jobs \cup {NoJob}]
  /\ nextJob \in Slots \cup {EXIT}
  /\ numProcessingB \in Int
  /\ correct \in [Slots -> BOOLEAN]
  /\ mpc \in {"initialPop", "ends", "sample", "waitLeave", "reclaim", "grab",
              "publish", "arm", "join", "done"}
  /\ curJob \in Slots /\ isFirstBuffer \in BOOLEAN
  /\ wpc \in [Workers -> {"none", "start", "load", "sample", "readNext",
                          "switch", "exited"}]
  /\ wJob \in [Workers -> Slots \cup {EXIT}]
  /\ wBuf \in [Workers -> Jobs \cup {NoJob}]
  /\ detected \subseteq Jobs /\ reported \subseteq Jobs

Init ==
  /\ pushed = {} /\ popped = {} /\ closed = FALSE
  /\ freed = [j \in Jobs |-> 0]
  /\ jobs = [s \in Slots |-> NoJob]
  /\ nextJob = 0 /\ numProcessingB = 0
  /\ correct = [s \in Slots |-> FALSE]
  /\ mpc = "initialPop" /\ curJob = 0 /\ isFirstBuffer = TRUE
  /\ wpc = [w \in Workers |-> "none"]
  /\ wJob = [w \in Workers |-> 0]
  /\ wBuf = [w \in Workers |-> NoJob]
  /\ detected = {} /\ reported = {}

----------------------------------------------------------------------------
(* The result processors feed and finally close the validationQueue.       *)

Push(j) ==
  /\ ~closed /\ j \notin pushed
  /\ pushed' = pushed \cup {j}
  /\ UNCHANGED <<popped, closed, freed, sharedVars, mainVars, workerVars, seenVars>>

Close ==
  /\ ~closed
  /\ closed' = TRUE
  /\ UNCHANGED <<pushed, popped, freed, sharedVars, mainVars, workerVars, seenVars>>

----------------------------------------------------------------------------
(* What a validateBufferSlice over some elements of job j may conclude     *)
(* when its verdict goes to correct[s].                                    *)

FindNothing == UNCHANGED <<correct, detected>>

FindError(j, s) ==
  /\ detected' = detected \cup {j}
  /\ correct' = [correct EXCEPT ![s] = FALSE]

SampleInto(j, s) ==
  \/ FindNothing
  \/ j \in Bad /\ FindError(j, s)

(* freeBuffersAfterValidation, preceded by the report of a wrong buffer.   *)
ReportAndFree(s) ==
  /\ reported' = IF correct[s] THEN reported ELSE reported \cup {jobs[s]}
  /\ freed' = [freed EXCEPT ![jobs[s]] = @ + 1]

----------------------------------------------------------------------------
(* The main thread.                                                        *)

\* validateWholeBufferIfTooSmall: a short job is validated in full, reported
\* and freed without the workers, and the thread goes back to the queue.
PopShort(j) ==
  /\ mpc \in {"initialPop", "grab"}
  /\ j \in Queued \cap Short
  /\ popped' = popped \cup {j}
  /\ freed' = [freed EXCEPT ![j] = @ + 1]
  /\ IF j \in Bad
     THEN detected' = detected \cup {j} /\ reported' = reported \cup {j}
     ELSE UNCHANGED seenVars
  /\ UNCHANGED <<pushed, closed, sharedVars, mainVars, workerVars>>

\* The first long job: setNewJob before the workers exist, then multiThread.
PopFirst(j) ==
  /\ mpc = "initialPop"
  /\ j \in Queued \ Short
  /\ popped' = popped \cup {j}
  /\ jobs' = [jobs EXCEPT ![0] = j]
  /\ nextJob' = 0
  /\ correct' = [correct EXCEPT ![0] = TRUE]
  /\ wpc' = [w \in Workers |-> "start"]
  /\ mpc' = "ends"
  /\ UNCHANGED <<pushed, closed, freed, numProcessingB, curJob, isFirstBuffer,
                 wJob, wBuf, seenVars>>

\* pop_wait returned nullopt before any long job arrived.
ExitIdle ==
  /\ mpc = "initialPop" /\ closed /\ Queued = {}
  /\ mpc' = "done"
  /\ UNCHANGED <<queueVars, sharedVars, curJob, isFirstBuffer, workerVars, seenVars>>

\* The first VALIDATE_BEGIN_SIZE and last VALIDATE_END_SIZE elements are always
\* checked, by the main thread.
\* Mutant: the verdict goes to the slot of the other job.
CheckEndsWrongSlot ==
  /\ mpc = "ends"
  /\ IF jobs[curJob] \in BadEnds THEN FindError(jobs[curJob], Other)
                                 ELSE FindNothing
  /\ mpc' = "sample"
  /\ UNCHANGED <<queueVars, jobs, nextJob, numProcessingB, curJob, isFirstBuffer,
                 workerVars, reported>>

CheckEnds ==
  /\ mpc = "ends"
  /\ IF jobs[curJob] \in BadEnds THEN FindError(jobs[curJob], curJob)
                                 ELSE FindNothing
  /\ mpc' = "sample"
  /\ UNCHANGED <<queueVars, jobs, nextJob, numProcessingB, curJob, isFirstBuffer,
                 workerVars, reported>>

MainSample ==
  /\ mpc = "sample"
  /\ SampleInto(jobs[curJob], curJob)
  /\ UNCHANGED <<queueVars, jobs, nextJob, numProcessingB, mainVars, workerVars,
                 reported>>

\* processedCounts[curJob] reached minimumWorkTarget.
\* Mutant: fetches the next job without reclaiming the previous one.
TargetMetNoReclaim ==
  /\ mpc = "sample"
  /\ mpc' = "grab"
  /\ UNCHANGED <<queueVars, sharedVars, curJob, isFirstBuffer, workerVars, seenVars>>

TargetMet ==
  /\ mpc = "sample"
  /\ mpc' = IF isFirstBuffer THEN "grab" ELSE "waitLeave"
  /\ UNCHANGED <<queueVars, sharedVars, curJob, isFirstBuffer, workerVars, seenVars>>

\* Mutant: looks for workers busy on the slot, as the comment in
\* ValidatorWorkerData warns against: those not yet awake are missed.
NoWorkerBusyOn(s) ==
  \A w \in Workers : wpc[w] \in {"load", "sample", "readNext"} => wJob[w] # s

\* Mutant: the targets of the two slots swapped.
AllWorkersLeftSwapped(s) ==
  numProcessingB = IF s = 0 THEN 0 ELSE Cardinality(Workers)

AllWorkersLeftJob(s) ==
  numProcessingB = IF s = 1 THEN 0 ELSE Cardinality(Workers)

\* While waiting the main thread samples the current job, but records the
\* verdict in the slot it is about to replace.
WaitSample ==
  /\ mpc = "waitLeave" /\ ~AllWorkersLeftJob(Other)
  /\ SampleInto(jobs[curJob], Other)
  /\ UNCHANGED <<queueVars, jobs, nextJob, numProcessingB, mainVars, workerVars,
                 reported>>

AllLeft ==
  /\ mpc = "waitLeave" /\ AllWorkersLeftJob(Other)
  /\ mpc' = "reclaim"
  /\ UNCHANGED <<queueVars, sharedVars, curJob, isFirstBuffer, workerVars, seenVars>>

Reclaim ==
  /\ mpc = "reclaim"
  /\ ReportAndFree(Other)
  /\ mpc' = "grab"
  /\ UNCHANGED <<pushed, popped, closed, sharedVars, curJob, isFirstBuffer,
                 workerVars, detected>>

\* grabNewJobFromShortJob, then setNewJob, whose stores are separate steps:
\* the slot (PopNext), nextJob (Publish), correct (Arm).
PopNext(j) ==
  /\ mpc = "grab"
  /\ j \in Queued \ Short
  /\ popped' = popped \cup {j}
  /\ curJob' = Other
  /\ isFirstBuffer' = FALSE
  /\ jobs' = [jobs EXCEPT ![Other] = j]
  /\ mpc' = "publish"
  /\ UNCHANGED <<pushed, closed, freed, nextJob, numProcessingB, correct,
                 workerVars, seenVars>>

Publish ==
  /\ mpc = "publish"
  /\ nextJob' = curJob
  /\ mpc' = "arm"
  /\ UNCHANGED <<queueVars, jobs, numProcessingB, correct, curJob, isFirstBuffer,
                 workerVars, seenVars>>

Arm ==
  /\ mpc = "arm"
  /\ correct' = [correct EXCEPT ![curJob] = TRUE]
  /\ mpc' = "ends"
  /\ UNCHANGED <<queueVars, jobs, nextJob, numProcessingB, curJob, isFirstBuffer,
                 workerVars, seenVars>>

\* pop_wait returned nullopt: tell the workers to stop, join them, and return
\* the last job.
StopWorkers ==
  /\ mpc = "grab" /\ closed /\ Queued = {}
  /\ nextJob' = EXIT
  /\ mpc' = "join"
  /\ UNCHANGED <<queueVars, jobs, numProcessingB, correct, curJob, isFirstBuffer,
                 workerVars, seenVars>>

JoinAndFree ==
  /\ mpc = "join"
  /\ \A w \in Workers : wpc[w] = "exited"
  /\ ReportAndFree(curJob)
  /\ mpc' = "done"
  /\ UNCHANGED <<pushed, popped, closed, sharedVars, curJob, isFirstBuffer,
                 workerVars, detected>>

----------------------------------------------------------------------------
(* A worker, validationWorkerThread.                                       *)

Goto(w, from, to) == wpc[w] = from /\ wpc' = [wpc EXCEPT ![w] = to]

\* Mutant: int curJob = validatorData->nextJob.load(), the bug the code's
\* comment in validationWorkerThread remembers.
WorkerStartNextJob(w) ==
  /\ Goto(w, "start", IF nextJob = EXIT THEN "exited" ELSE "load")
  /\ wJob' = [wJob EXCEPT ![w] = nextJob]
  /\ UNCHANGED <<queueVars, sharedVars, mainVars, wBuf, seenVars>>

WorkerStart(w) ==
  /\ Goto(w, "start", "load")
  /\ wJob' = [wJob EXCEPT ![w] = 0]
  /\ UNCHANGED <<queueVars, sharedVars, mainVars, wBuf, seenVars>>

\* Take references to the slot's buffers; they are used until the next switch.
WorkerLoad(w) ==
  /\ Goto(w, "load", "sample")
  /\ wBuf' = [wBuf EXCEPT ![w] = jobs[wJob[w]]]
  /\ UNCHANGED <<queueVars, sharedVars, mainVars, wJob, seenVars>>

WorkerSample(w) ==
  /\ Goto(w, "sample", "readNext")
  /\ SampleInto(wBuf[w], wJob[w])
  /\ UNCHANGED <<queueVars, jobs, nextJob, numProcessingB, mainVars, wJob, wBuf,
                 reported>>

WorkerReadNext(w) ==
  /\ Goto(w, "readNext", IF nextJob = wJob[w] THEN "sample" ELSE "switch")
  /\ wJob' = [wJob EXCEPT ![w] = nextJob]
  /\ UNCHANGED <<queueVars, sharedVars, mainVars, wBuf, seenVars>>

WorkerSwitchTo(w) ==
  /\ Goto(w, "switch", IF wJob[w] = EXIT THEN "exited" ELSE "load")
  /\ numProcessingB' = numProcessingB + (IF wJob[w] = 1 THEN 1 ELSE -1)
  /\ UNCHANGED <<queueVars, jobs, nextJob, correct, mainVars, wJob, wBuf, seenVars>>

----------------------------------------------------------------------------
MainProgress ==
  \/ \E j \in Jobs : PopShort(j) \/ PopFirst(j) \/ PopNext(j)
  \/ ExitIdle \/ CheckEnds \/ TargetMet \/ AllLeft \/ Reclaim
  \/ Publish \/ Arm \/ StopWorkers \/ JoinAndFree

Worker(w) ==
  \/ WorkerStart(w) \/ WorkerLoad(w) \/ WorkerSample(w)
  \/ WorkerReadNext(w) \/ WorkerSwitchTo(w)

\* The validator thread has exited: the only state without a successor.
Terminated == mpc = "done" /\ UNCHANGED vars

Next ==
  \/ \E j \in Jobs : Push(j)
  \/ Close
  \/ MainProgress \/ MainSample \/ WaitSample
  \/ \E w \in Workers : Worker(w)
  \/ Terminated

Spec == Init /\ [][Next]_vars

\* Every thread keeps running, and a sampling loop ends once its condition
\* holds: MainSample and WaitSample need no fairness, leaving the loop does.
FairSpec ==
  /\ Spec
  /\ WF_vars(MainProgress)
  /\ \A w \in Workers : WF_vars(Worker(w))

----------------------------------------------------------------------------
(* Properties.                                                             *)

Reading(w) == wpc[w] \in {"sample", "readNext"}

\* A worker that is sampling reads the buffers of the job that occupies the
\* slot it reports to, and those buffers have not gone back to the allocators,
\* where a creator or the processor would be refilling them.
NoReadOfFreedBuffer ==
  \A w \in Workers : Reading(w) =>
    /\ wBuf[w] = jobs[wJob[w]]
    /\ wBuf[w] \in popped /\ freed[wBuf[w]] = 0

\* freeBuffersAfterValidation pushes each buffer pair once: a second push would
\* hand the same memory to two creators.
FreedAtMostOnce == \A j \in Jobs : freed[j] <= 1

\* When the thread exits every job it took was freed, the two that sat in the
\* slots included.
NothingKeptAtExit ==
  mpc = "done" => /\ Queued = {}
                  /\ \A j \in popped : freed[j] = 1

\* A wrong sum among the ends of a long job, or anywhere in a short one, is
\* reported no later than the job is freed, whatever the workers do meanwhile.
EndErrorsReported ==
  \A j \in BadEnds \cup (Short \cap Bad) : freed[j] > 0 => j \in reported

\* "Returns true if computation finished without detected errors"
\* (supercomputerJobs.h:49): processJob only learns of an error through
\* errorBufFunc, so an error that was detected has to be reported.
DetectedErrorsReachJob ==
  mpc = "done" /\ detected # {} => reported # {}

\* Once the queue is closed the thread drains it, gets its workers to exit and
\* exits: no worker is left behind on a slot the main thread waits for.
ClosedLeadsToExit == closed ~> mpc = "done"

----------------------------------------------------------------------------
(* The inductive invariant behind NoReadOfFreedBuffer.  A worker is counted *)
(* on the slot it reads until its fetch_add, so On(w) is what               *)
(* numProcessingB counts; a slot is live from the moment its job is stored  *)
(* until that job is freed.                                                 *)

On(w)   == IF wpc[w] = "switch" THEN 1 - wJob[w] ELSE wJob[w]
TwoJobs == {"ends", "sample", "waitLeave", "reclaim", "publish", "arm"}
Active  == TwoJobs \cup {"grab"}

LiveSlot(s) ==
  \/ s = curJob /\ mpc \in Active \cup {"join"}
  \/ s = Other /\ ~isFirstBuffer /\ mpc \in TwoJobs

\* Which slot the workers are told to be on, and when there is only one.
StageInv ==
  /\ mpc = "initialPop" => isFirstBuffer /\ numProcessingB = 0
  /\ isFirstBuffer => curJob = 0
  /\ mpc \in {"waitLeave", "reclaim", "publish", "arm"} => ~isFirstBuffer
  /\ mpc \in Active => nextJob = IF mpc = "publish" THEN Other ELSE curJob
  /\ mpc = "join" => nextJob = EXIT

\* A live slot holds a job in use, and every job in use is in a live slot.
SlotInv ==
  /\ \A s \in Slots : LiveSlot(s) => jobs[s] \in popped /\ freed[jobs[s]] = 0
  /\ LiveSlot(0) /\ LiveSlot(1) => jobs[0] # jobs[1]
  /\ \A j \in Jobs \ popped : freed[j] = 0
  /\ \A j \in popped :
       freed[j] = 1 \/ (freed[j] = 0 /\ \E s \in Slots : LiveSlot(s) /\ jobs[s] = j)

WorkerInv(w) ==
  /\ mpc = "initialPop" => wpc[w] = "none" /\ wJob[w] = 0
  /\ mpc = "done" => wpc[w] \in {"none", "exited"}
  /\ mpc \in Active =>
       /\ wpc[w] \notin {"none", "exited"} /\ wJob[w] \in Slots
       /\ LiveSlot(On(w))
       /\ wpc[w] = "switch" => wJob[w] = nextJob
  /\ mpc = "reclaim" => On(w) = curJob
  /\ mpc = "publish" => On(w) = Other
  /\ mpc = "join" =>
       /\ wpc[w] # "none"
       /\ wJob[w] = IF wpc[w] \in {"switch", "exited"} THEN EXIT ELSE curJob
  /\ wpc[w] = "start" => wJob[w] = 0
  /\ Reading(w) => wBuf[w] = jobs[wJob[w]]

OnB == {w \in Workers : On(w) = 1}

CountInv == mpc \in Active => numProcessingB = Cardinality(OnB)

HandoverInv ==
  /\ TypeOK
  /\ StageInv
  /\ SlotInv
  /\ \A w \in Workers : WorkerInv(w)
  /\ CountInv

----------------------------------------------------------------------------
\* The slot hand-over implements the abstract lease.
LeaseOf(j) == IF j \notin popped THEN "out"
              ELSE IF freed[j] = 0 THEN "held" ELSE "returned"

Lease == INSTANCE BufferLease WITH
  Threads <- Workers, Bufs <- Jobs, NoBuf <- NoJob,
  lease   <- [j \in Jobs |-> LeaseOf(j)],
  reading <- [w \in Workers |-> IF Reading(w) THEN wBuf[w] ELSE NoJob]

ImplementsLease == Lease!LeaseSpec
============================================================================
