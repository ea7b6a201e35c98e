# A TLA+ development for Dedekind

Dedekind computes the 9th Dedekind number as a sum of P-coefficients over pairs
(top, bottom) of monotonic Boolean functions (MBFs). Two things make it hard to
trust. The algebra is written for speed, in bit tricks, shared partial results and
several versions for several widths, and has few tests. And the machinery around it
has more: a job keeps some hundred threads busy for hours on a closed loop of large
buffers; a project runs tens of thousands of jobs on a cluster, with processes that
are killed at any moment; and one top that is missed or counted twice makes the final
number wrong with nothing to show for it. This directory models both.

## 1. Inventory

| Part | State it keeps | Operations | Here |
| --- | --- | --- | --- |
| Supercomputing project, `supercomputerJobs.cpp` | folders `jobs`, `working`, `critical`, `finished`, `results`, `wrong_*`; validation files | `initializeComputeProject`, `processJob`, `resetUnfinishedJobs`, `collectAndProcessResults` | `ComputeProject`, `OnceLedger` |
| Buffer circulation, `processingContext.*`, `flatPCoeffProcessing.*` | per socket: input, output, validation queues and two buffer allocators | `pcoeffPipeline`, CPU processors | `PCoeffPipeline` |
| FPGA host, `fpga_production/main.cpp` | slots, `activeSlots`, `doneEvent` | `pushJob` from the main thread and OpenCL callbacks | `FPGAHost` |
| Bottom buffer creators, `bottomBufferCreator.cpp` | claimed batch, swapper state | `runBottomBufferCreator`, `generateBotBuffers` | claims in `PCoeffPipeline`, waits in `SyncQueues`, buffers in `BottomBuffers` |
| Result processor, `resultCollection.cpp` | result slots, per-thread validation sums | `resultprocessingPThread` | `PCoeffPipeline`; the sums in `FlatSum` |
| Continuous validator, `pcoeffValidator.*` | two job slots, `nextJob`, a count of workers per slot | `continuousValidatorPThread`, `validationWorkerThread` | `ContinuousValidator`, `BufferLease` |
| Queues, `synchronizedQueue.h` | ring buffers, a mutex and a condition variable each | push, pop, batch pop, close | `SyncQueues` |
| Latches, `latch.*` | `latchCount` | notify, wait | `SyncQueues` |
| Thread pool, `threadPool.*` | `shouldStart`, `threadsWorking`, `funcToRun` | `doInParallel`, the destructor | `ThreadPool`, `ForkJoin` |
| Parallel enumeration, `MBFDecomposition.h`, `bufferedMap.h` | found list, claim pointer, waiting threads | `generateAllMBFsFast` | `MBFEnumeration` |
| Bit sets and Boolean functions, `bitSet.h`, `booleanFunction.h`, `funcTypes.h` | none | shifts, closures, permutations, `canonize`, enumeration loops | `WordShifts`, `BitSet`, `BooleanFunction`, `MonotonicFunctions` |
| P-coefficients, `connectGraph.h`, `pcoeff.h` | none | five ways to count components | `PCoeff` |
| Interval sizes, `interval.h`, `intervalSize*.h`, `fullIntervalSizeComputation.h`, `pawelski.h`, `tjomn.h` | caches | counting what lies between two MBFs | `Intervals`, `ThreeJoins` |
| Flat files, `flatMBFStructure.h`, `dataGenerationCommands.cpp`, `knownData.h` | tables | offsets, links, duals, class infos | `FlatStructure` |
| Dedekind sum, `flatPCoeff.*`, `resultCollection.cpp`, `pcoeffClasses.*`, `u192.h` | beta sums | sums per top, credit to the dual, totals | `FlatSum`, `WideWords` |
| Checks of finished results, `superCommands.cpp` | none | counts along other ways | `ResultChecks` |
| Random MBFs, `randomMBFGeneration.cpp`, `mbfFilter.cpp` | sampler tables, buffers | draws, permutations, counting pairs | `RandomMBFs`, `MBFFilter` |
| Slab allocators, Verilog, command line, third-party code | | | not modelled, see 6 |

How the parts meet. `processJob` moves a job file to `working/` and calls
`pcoeffPipeline`. That starts, for each socket, bottom buffer creators, result threads
and a validator, and one set of processors. A buffer pair runs round the loop

    inputBufferAlloc -> creator -> inputQueue -> processor -> outputQueue
      -> result thread -> validationQueue -> validator -> inputBufferAlloc

and takes a result buffer from `resultBufferAlloc` at the processor, given back at the
validator. When the pipeline returns, `processJob` adds the job's validation data to
the file of its node and job set, and commits results and validation data in a
critical section that is made of renames. The operator resets jobs whose process died and in the
end collects all files; the collector accepts them if every top has a result and
checksums agree. What the pipeline works on, the flat files, comes from the parallel
enumeration; what a processor does with a buffer is the algebra, on one thread per core or
spread over a thread pool, or the FPGA's work.

What makes each part correct:

- *Project*: a finished job has whole results and is in its node's validation file
  once; what the collector accepts has each job exactly once on both sides; it does not
  reject a project that finished; it always answers.
- *Pipeline*: no buffer is lost or in two places; buffers return to the socket they
  were cut from; queues close from front to back and nobody pushes to a closed one;
  when it returns each top has one result and is in one validation sum, or an error is reported; it
  returns, with CPU processors and with the FPGA host, whose main thread must outlive what its callbacks
  do with its frame.
- *Validator*: no worker reads a buffer that went back to the allocators; every
  buffer goes back once, the last ones included; an error it detects is reported; it exits.
- *Queues and latch*: whoever sleeps while what it waits for is there is about to be woken.
- *Thread pool*: a call returns when its work is done and nobody is left inside it;
  no block is skipped or done twice.
- *Enumeration*: every class is found and expanded once, and the threads agree on when
  there is nothing left.
- *Algebra*: every version of an operation computes what it stands for, all ways to count
  the same thing agree, and the sum over tops and bottoms is the Dedekind number.

What is hard here: hand-overs without locks (validator, enumeration, pool); everyone
waiting for buffers that others hold; wake-ups that reach the wrong sleeper or none; shutdown
order over many queues; failure of one result among many; death between any two file
operations; the operator resetting a job that is in fact still running; two processes with the same
compute identifier; and, in the algebra, shifts and carries at word boundaries, blocks that do
not fill up, groups that tie. `PROJECT.json` lists these hazards with their lines.

## 2. Modules

| Module | What it is |
| --- | --- |
| `ContinuousValidator` | the validator of one socket, one action per atomic or per buffer access |
| `BufferLease` | what a validator promises about buffers; `ContinuousValidator` implements it |
| `PCoeffPipeline` | all threads and queues of one `pcoeffPipeline` call |
| `FPGAHost` | the same with either kind of processor: CPU threads, or the FPGA host's slots and callbacks |
| `SyncQueues` | the queues and the latch, with mutexes, condition variables and spurious wake-ups |
| `ThreadPool` | `PThreadPool` and the multi-threaded processor that runs on it |
| `ForkJoin` | what `doInParallel` promises; `ThreadPool` implements it |
| `MBFEnumeration` | `generateAllMBFsFast`, one step per access to an atomic |
| `ComputeProject` | the shared folder, its processes, the operator and the collector |
| `OnceLedger` | each job is counted once, before it is finished; `ComputeProject` implements it |
| `WordShifts`, `BitSet`, `BooleanFunction`, `MonotonicFunctions`, `PCoeff`, `Intervals`, `ThreeJoins`, `FlatStructure`, `BottomBuffers`, `FlatSum`, `WideWords`, `ResultChecks`, `MBFFilter`, `RandomMBFs` | sequential code as operators, each with the laws it must satisfy |
| `*Proofs` | the theorems about the module named; `WordProofs` those about `WordShifts` and `WideWords` |
| `MC*` | instances for TLC |

The levels fit together by their assumptions. `PCoeffPipeline` uses of a
validator that it keeps at most `Hold` buffers and gives each back once, which
`ContinuousValidator` shows; and of a queue that a blocked pop goes on when there is
something for it, which `SyncQueues` shows. `ComputeProject` uses of a pipeline
that it returns with all the job's tops or with an error, which `PCoeffPipeline` and
`FPGAHost` show when no result fails (and refute for failed ones, see 4). Definitions called "Mutant" are
plausible bugs, used to see that the properties can fail; no specification uses them.

### ContinuousValidator

`jobs[0]`, `jobs[1]`, `nextJob`, `numProcessingB` and `correct` are the members of
`ValidatorWorkerData`. `mpc` and `wpc` say where the main thread and each worker are.
The main thread's life is a cycle: check the ends of the new job (`CheckEnds`), sample
it until the target is met (`MainSample`, `TargetMet`), wait until no worker is on the
other slot while sampling on (`WaitSample`, `AllLeft`), report and free that slot (`Reclaim`), take
the next job (`PopNext`), and the two stores of `setNewJob`: `Publish` stores
`nextJob`, `Arm` stores `correct`, in the order of the code. A worker starts on slot
0 whatever `nextJob` says (`WorkerStart`), takes references to the slot's buffers
(`WorkerLoad`), samples (`WorkerSample`), reads `nextJob` (`WorkerReadNext`)
and re-counts itself (`WorkerSwitchTo`). Buffers are abstracted to whether they hold
a wrong sum (`Bad`), one that the check of the ends finds (`BadEnds`), or are short
enough to be checked whole (`Short`). Sampling may or may not hit an error.

### PCoeffPipeline and FPGAHost

A top stands for its `JobInfo` and `OutputBuffer`: `stage` and `owner` say which thread
or which socket's queue has it, `inp` and `res` which buffers it carries.
`Claim`/`TakeInputs`/`PushBatch` are a creator's round (`popN_wait` takes a whole batch or
nothing); `PopInput`/`TakeResult`/`PushOutput` a processor's (`pop_wait_prefer`: the other socket's
queue only when the own one is empty); `PopOutput`/`DropFailed` or
`PushValidation`/`RecordResult` a result thread's, in the order of the code: the
buffer is handed on before its result is in the slot. `results` is the vector of results, which has an entry
for every top from the start: `RecordResult` writes the next one, and what nobody writes stays blank (`NoTop`;
in the code an entry of top 0 with zero sums);
`PopValidation`/`FreeInput`/`FreeResult` a validator's. `Close*` follow the joins in
`pcoeffPipeline`. A queue hands over each item once in any order, and a blocked pop is
a disabled action. The constants choose the code's variants: `OwnSocket` the
SuperMultiThread processor, `Hold` the kind of validator, `MayFail` whether results may carry
error bits.

In `FPGAHost` the variable `fpga`, chosen at the start, says which processor function runs. Without it, the module is
`PCoeffPipeline`. With it, `Processors` are slots, and a step of a slot needs a thread that is in
that slot's `pushJob`: the main thread, which goes through all slots once, or a callback thread
of the OpenCL runtime. `PopJob` is the pop, `LaunchRead` the result buffer and the command with its
callback, `RunCallback` the callback's push and its call of `pushJob`. The end of `pushJob` is taken apart
because `activeSlots` is a plain `int`: `NoMoreJobs` finds the queue closed and reads the counter,
`WriteCount` writes one less, `TestAgain` reads it once more to compare it with 0, `SetEvent` sets the event,
`Leave` returns. Any other thread may take a step between two of them, the main thread's return (`HostReturn`, the end
of `clWaitForEvents`) included; after it the counter is memory of a frame that is gone, and `TestAgain` may find anything.
Whether there is a second read is the compiler's choice (`rereads`): optimised code compares the value it wrote. Setting an event that is complete is an
OpenCL error, on which `checkError` ends the process (`aborted`). Only after `HostReturn` do the output queues close.

### SyncQueues

One level below: `inputBufferAlloc` of each socket and the `inputQueue`, as sequences
(`alloc`, `input`) with the threads that sleep on their condition variables (`pc`), and the
`MutexLatch` `topsAreReady`. Everything under a mutex is one step; a notification follows unlocked,
as a step of its own, between which other threads run: `PushJobs` then `WakeProcessors`,
`FreeBuffer` then `WakeOneCreator`, `Close` then `CloseNotifies`. `popN_wait` is `PopBuffers`,
`pop_wait_prefer` and `pop_wait_rotate` are `PopJob` with their order of probing (`Probe`).
`TestLatch`, `SleepOnLatch` and `NotifyTopsReady` are the latch, whose `notify` takes no mutex.
From the input queue to the return of the buffer, the loop is one step.

### ThreadPool

`Assign`, `StartRound`, `StartAll`, `MainJoin` are `doInParallel` (with or without a main
thread function), `SetExit`, `OpenAll`, `WakeAll`, `JoinWorkers` the destructor; `Sleep`, `WakeUp`,
`Check`, `FinishRound` a worker. Their work is `processBetasCPU_MultiThread`: `FirstFetch`,
`ClaimBlock`, `ProcessBlock` with the block pointer `idx`, which every thread reads one block ahead.
Any sleeper may wake up spuriously. `count` is history: how often a block of a call was processed.
`ForkJoin` has calls, the blocks done, and nothing else: a call returns when all blocks are done.

### MBFEnumeration

`found` is the data array of the `BufferedSet`, `known` and `next` the two atomic pointers as
indices, `waiting` the number of threads that wait. `LoadNext`, `LoadKnown`, `Claim` are the claim
by compare-and-swap; `Expand` the classes one bit up; `Filter` the look-ups without the lock; `Add` and
`Bump` the additions under it, in the order in which the list and the pointer change; `CountMe`, `SeeAllWaiting`,
`SeeSomeWorking`, `Compare`, `WakeUp` the waiting, whose loop sleeps on when there is something new
and leaves when there is not. The thread that claims the full function returns early, counted as
waiting.

### ComputeProject

The job file (`dir`, `by`), the result files, the `.validation` and `.validation_tmp`
files are modelled with the file system as `processJob` uses it (external): `rename` is atomic,
replaces its target and throws when its source is gone; a descriptor follows its file through
a rename; a file is `Torn` between its first and last byte. A validation
file's content is the set of jobs added to it.
One action per file operation: `Start` (the first checks), `Grab` (rename
to `working`), `Compute`, `ReadValidation`, `WriteBegin`/`WriteEnd` (the `_tmp` file), `CheckAgain`,
`EnterCritical` (rename), `SaveBegin`/`SaveEnd` (results), `CommitValidation` (rename over the old file), `Finish` (rename).
`RenameThrows` is any of these renames without its source.
`Crash` can strike between any two; `Reset` is `resetUnfinishedJobs` on the
folders in `ResetDirs`; the `Collect*` actions are `collectAndProcessResults`, whose
comparison of sums is `CheckSum` with a weight per job.

### The algorithm modules

A word is the set of the positions of its 1 bits, a Boolean function the set of its true inputs, an MBF a
downward closed such set. What the modules keep is what the code does with shifts, masks, lanes,
blocks, queues and tables; each ends with laws that compare it with a reference definition:

- `WordShifts`: what bit sets are made of and needs no loop over bits, so that it can be proved about: shifts, mirrors and orders of words, lanes
  and blocks; `BitSet`: the one-word classes, the SSE class and the block class with their loops; `BooleanFunction` and `MonotonicFunctions`: neighbours,
  closures, exchanges of variables, all permutations, `canonize`, the recursions and loops that enumerate MBFs.
- `PCoeff`: connected components by split antichains, by exploration, with leaves and singletons cut off, with the guess of the
  fast version; Dedekind numbers by all summation methods. `Intervals`, `ThreeJoins`: the counts of MBFs between two, and the equations of `tjomn.h`.
- `FlatStructure`: the tables; `BottomBuffers`: the swapper's walk and the shuffled blocks of a buffer that holds leftovers;
  `FlatSum`: from buffers to D(n + 2), duals credited; `WideWords`: carries of `u192`, whose words have `Word` values (2^64 in the code).
- `ResultChecks`: the checks of finished results, which must accept right lists and report exactly the wrong tops they
  look at. `MBFFilter`: the counting of pairs, with widths scaled down from 8, 32 and 64 bits. `RandomMBFs`: how often each
  function, pair and four is drawn.

## 3. Runs and their bounds

| Run | Instance | Shows |
| --- | --- | --- |
| `validator_safety` | 2 workers, 5 jobs of every kind | the slot hand-over and its inductive invariant; the last buffers; errors at the ends; exit after close; `BufferLease` implemented |
| `pipeline_safety` | 2 sockets, a thread of each kind on each, 4 input and 2 result buffers, 4 tops in batches of 2; any result may fail | conservation, buffers come home, close order, and what failed results leave behind |
| `pipeline_live` | `FPGAHost`: one socket, a creator, 2 CPU threads or 2 slots with one callback thread, `activeSlots` read once or twice, 2 input and 2 result buffers, 4 tops | all tops at return; the pipeline returns with the fewest buffers it can live on, except after a lost decrement or a second event; the host's main thread returns after the last decrement, and alone touches its frame if the counter is read once |
| `sync_queues` | 2 sockets, 3 creators, a processor that rotates and one that prefers, 4 buffers, 5 tops in batches of 2 | no wake-up is lost for good, but the latch's; the loop drains |
| `thread_pool` | 2 workers, a call with 2 blocks and one with 1 | the pool's invariant, no worker in a dead frame, each block once, `ForkJoin` implemented, every call returns and the destructor ends |
| `mbf_enumeration` | 3 threads, the ten classes of three variables | each class once, the agreement that all is done, the result complete, the return |
| `project_crash` | 2 nodes, 2 jobs of one set, crashes, errors, resets of `working` and `wrong_finished` | whole files, records before `finished`, each job counted once, `OnceLedger` |
| `project_two_on_a_node` | 3 processes, 2 of them with one compute identifier, resets of `working` and `critical` while they run | whatever the collector accepts is exact |
| `algorithms` | every set of 8 positions as input of each algorithm module, one per step | the laws above |
| `validator_lost_error`, `pipeline_super_multi_thread`, `project_torn_result` | | disagreements with the code's own words, see 4 |

Why the bounds suffice to meet the interesting cases:

- *Validator*: four long jobs are needed for both slots to be reused while a worker that
  was never scheduled still counts on slot 0; two workers so that one can be early and one late. The fifth job is a
  short one, which bypasses the slots.
- *Pipeline*: each socket has the fewest buffers it can run with, so that every wait
  really happens; two sockets so that jobs cross over; two batches, so that each creator takes one or one creator takes both and
  reuses its buffers. More tops add rounds of the same loop; a partial last batch is in `sync_queues`. Two slots are what it takes for `pipeline_live` to lose
  a decrement or to set the event twice. With one callback thread for the two, one buffer of a kind is not enough: the thread waits for
  what only itself could bring back. So there are two of each. The last two tops wait for buffers of the first two. Batches of more than one top, and creators that
  compete for buffers, are in `pipeline_safety` and `sync_queues`.
- *Queues*: two creators share a socket and want different numbers of buffers (the last batch has one top), so that
  a wake-up can go to the wrong one; the third creator has a socket of its own.
- *Pool*: two calls, so that a worker may be late for the first and early for the second; two workers so that the first to
  finish takes `shouldStart` back before the other wakes. Two blocks let the threads interleave, one lets some find nothing.
- *Enumeration*: three threads, so that one may return at the top, one wake up and one work; the ten classes have the one diamond
  of three variables, where two threads find the same class.
- *Project*: two jobs of one set on two nodes share files, or do not, in every
  way; `Tasks` bounds the batch tasks of a job that wait to be started. With `Tasks = 1`
  a job still runs several times, at once too: a reset submits a new task for it, whether or not the old process is still
  there. The two jobs have equal weights, so that the checksums tell as little as they can.
- *Algorithms*: 8 positions are all functions of three variables (and all three-variable MBFs, pairs of which the laws
  enumerate themselves), all pairs of nibbles, all classes of four variables. The versions for 64 and 128 bits,
  for seven variables and for blocks of 64 bits are operations that work on positions one by one, so `WideLaws`, `WideFunctionLaws`
  and `WideGraphLaws` take inputs of single positions or few of them, spread over all words; small blocks
  (`BlockLaws`: four of two bits, two of four) take every set, and words of four values (`Word = 4`) every pair of numbers.
  What the shifts and carries do at the widths of the code is proved, see 5.

Symmetry is used only in runs without liveness, and each symmetry set is a group that maps
the constants to themselves: the buffers of a socket; the two sockets with
everything on them; nodes with their processes; the jobs of one set.

`CHECK_DEADLOCK FALSE` stands where the system may really stop. In
`pipeline_safety` failed results take their buffers out of the loop. In `pipeline_live` a lost
decrement leaves the FPGA host waiting, and a second event ends the process. In
`project_two_on_a_node` a process that reads a validation file while the other
rewrites it in place can be stuck in `checkRead`. `algorithms` ends when all inputs are tried.

### Fairness

`ContinuousValidator!FairSpec` assumes that the main thread and each worker keep running
(operating system threads, no locks held across loops). The sampling loops need no fairness; leaving one once
its condition holds does: they are `while` loops on an atomic.
`PCoeffPipeline!FairSpec` and `FPGAHost!FairHostSpec` have weak fairness per thread. A thread that waits on a queue is
not starved: each step uses up one of finitely many jobs. That a push wakes a thread that
can proceed is what `SyncQueues` shows. The FPGA host also assumes that the runtime runs each callback
in the end, as soon as one of its threads is free.
`SyncQueues!FairSyncSpec` and `ThreadPool!FairPoolSpec` have weak fairness per thread and none
for spurious wake-ups: nobody promises those.
`MBFEnumeration!FairEnumSpec` adds strong fairness for a thread that finds all threads counted when it looks:
threads sleep 50 ms between looks and need far less to count themselves. `EnumerationReturns` also assumes that again and
again no thread is between waking up and counting itself (`Settled`), which those times justify; without it two threads can
for ever look while the other one is awake.
`ComputeProject!FairSpec` lets running
processes and a started collector go on. Nothing obliges the operator to start
or reset anything.

## 4. What the code says and what it does

Three runs refute something that the repository says of its code:

- **A detected error can be lost** (`validator_lost_error`). `setNewJob` stores
  `nextJob` and only then `correct[jobIdx] = true`. A worker that switches in
  between and finds a wrong sum has its verdict overwritten; `processJob` returns true.
- **Buffers migrate between sockets** (`pipeline_super_multi_thread`).
  `cpuProcessor_SuperMultiThread` may take the other socket's job and then works with its own
  socket's queues; the input buffer is freed into the wrong allocator, which in the end holds more than
  its ring was sized for.
- **The collector can hang** (`project_torn_result`). `checkRead` treats only -1 as an error; at the end of a
  short file it loops for ever, where its caller has a message ready for this case.

The models follow the code in more that a maintainer would want to know, and where a property
needs an exception it names it:

- *The latch can be missed.* `MutexLatch::notify` does not take the mutex. If it comes between a waiter's test of `latchCount`
  and its wait, the waiter sleeps for ever (`Missed`, the exception in `LoopDrains`).
- *A decrement of `activeSlots` can be lost.* Main thread and callbacks decrement a plain `int`. Then `doneEvent` is never set and the
  FPGA host waits for ever (`SlotLost`, an exception in `EitherPipelineReturns`). It never returns before all decrements are done
  (`HostReturnsLast`), but it may return while a callback is still in `pushJob`, about to leave it, or, where the counter is
  read again, about to read it in the frame that is gone and perhaps to set the event once more.
- *Callbacks block.* With one callback thread for two slots, the fewest buffers are not enough: the callback holds the runtime's only thread
  while it waits for a result buffer that another slot's callback would help to free. Two of each are enough in `pipeline_live`;
  production has 120 and 80 per node for its slots.
- *The event may be set twice.* Where the build reads `activeSlots` again for the test, two threads may both find 0 and both set
  `doneEvent`; `checkError` ends the process on the second (`aborted`, an exception in `EitherPipelineReturns`).
- *The kernel object is shared.* `launchWriteKernel` sets the arguments of one `cl_kernel` from the main thread and from callbacks without a lock; a launch may
  combine two slots' buffers. `randomGenerator` is used outside the lock too. Neither is in the model.
- *The wrong buffer is blamed.* While waiting for the workers to leave a
  slot, the validator's main thread samples the current job but records the verdict for the job being replaced (`WaitSample`).
- *A failed result is silently dropped.* The result thread goes on to the
  next buffer without a report, and the pair of buffers is lost (`DropFailed`; `AllTopsAtReturn` therefore needs `~MayFail`). The vector of results was made
  for all tops, so it is returned with a blank entry, of top 0 with zero sums, and the assertion on its size holds. `processJob` sorts it, saves it and returns true, though
  it promises that only without detected errors (`supercomputerJobs.h:49`), and marks top 0 in the validation
  file; it aborts only if top 0 is there already, or a second time in the vector. `DroppedLeaveBlanks` says exactly what is left. The collector
  later stops at the missing top, or at top 0 found twice.
- *Two processes of one compute identifier* can
  read, extend and rename the same validation file, and one update is lost. `CountsOnce` would then
  fail. The collector catches it: that is what `AcceptedExact` checks in
  `project_two_on_a_node`. The
  theorems about the project therefore assume one process per compute identifier.
- *A carry of `u192`* into the high word is lost when the middle word is all ones and the low words carry: `WideWordLaws` says exactly when.
- *The pair filter* (`mbfFilter.cpp:559`) counts wrong, or reads before the buffer, when a right buffer has the function without true inputs;
  `FilterLaws` leaves such buffers out. The random walk's stationary distribution is proportional to the degree, not uniform.
- *Edges that nothing calls*: the block class's `<<= 0` never ends and its conversion between large sizes writes zeros;
  `BitSet<4>` and `BitSet<2>` keep bits above their size after `<<=`; `andDown` for seven variables has the arguments of its `andnot`s
  the wrong way round and gives nearly always the wrong set (`AndDown7`: `WideFunctionLaws` says what it gives); `getBottomLayer`;
  `SingletonAntiChain::top`; `getNumChoicesRecursiveDown` overflows `1 << n`; the generic `FastRandomPermuter::permuteRandom` calls
  itself for ever; the swapper's `pushNext` from layer 1 reads the layer table at -1. `checkTopsTail` passes over categories of at most two tops,
  `check0AndModulo` reports the last top whatever it finds. The laws state these operations where they are used.

## 5. What is proved

TLAPS checks about 12000 obligations. Every theorem holds for all values of
the constants that satisfy the named assumptions of its module: threads of different kinds are distinct, sets of workers,
threads, jobs and nodes are finite, weights are positive, and what is said below. Every safety invariant that a run checks is the
statement of a theorem.

**ContinuousValidatorProofs.** `NoReadOfFreedBuffer` is not inductive: nothing in it ties
the count `numProcessingB` to what workers read. `HandoverInv` does. `On(w)` is the slot a worker
is counted on, which runs ahead of or behind `nextJob`; the invariant says that
`numProcessingB` is the number of workers with `On(w) = 1`, that a slot is live from the store of its job until it is freed, that live
slots hold different unfreed jobs, and that a worker that reads is on a live slot. Each
action keeps it (`HandoverHolds`), and it gives `NoUseAfterFree`, `NoDoubleFree`, `ValidatorTypeOK`, and that every step
maps to a step of `BufferLease` (`ValidatorImplementsLease`). Two more invariants are about the ends of the life of a buffer: a buffer
that was popped and not yet freed is in a slot or in the main thread's hands, and it has none when it exits (`NothingKept`, for any
number of workers and jobs); and an error at a buffer's ends is reported before the buffer goes back, whatever the overwritten verdict of the
samples says (`EndErrorsAlwaysReported`).

**PCoeffPipelineProofs.** `CirculationInv` adds to conservation which stage carries which
buffers and which kind of thread owns it, and that a thread that exited owns nothing
(`CirculationHolds`). From it: `PipelineTypeOK`, `BuffersConserved` (with either processor), `QueuesCloseInOrder`,
`BuffersReturnHome` if the processors use `getNUMAForBuf` (`~OwnSocket`), and
`ReturnsAllTops` if no result fails (`~MayFail`). Both assumptions are needed: without the first, `pipeline_super_multi_thread`
is the counterexample, without the second a dropped result is. With `MayFail`, `FailuresLeaveBlanks` says what is left of
`ReturnsAllTops`: a dropped top leaves one blank entry in the vector and is in no validation sum, every other top has its entry, and the size of the vector
tells nothing. It rests on `EntryInv`: the entries below the counter are written, each for another top, and the others are blank; so the blank ones
are as many as the tops without an entry. `ResultBuffersConserved` is conservation of the second kind of buffer.

**FPGAHostProofs.** Every step of the host is one of the pipeline's or leaves the pipeline alone
(`HostImplementsPipeline`), so that all of the above holds of it (`HostReturnsAllTops`). That the main thread returns
only when every slot is out and no decrement is under way (`MainLeavesLast`) holds although the counter is wrong: `CountInv` says that `activeSlots`, and what any thread has read of it, is
never less than `Todo`, the slots still running plus the decrements under way. A lost decrement only makes it
larger. So a 0 that is written, or read again, means that nothing is left. `SlotInv` is why a slot is counted out once: it is in one thread's `pushJob`, or on the
device, or still to come, or out. `HostInv` joins the two; it needs `CirculationInv` for which slot has which job. When the build compares the value it wrote (`~rereads`), `OnceInv` adds that at most
one thread is about to set the event and none after it is set, since the 0 was written by the last decrement that was left; so the event is set once and nobody who is
still in `pushJob` after the main thread's return does more than leave (`EventSetByLast`). With `rereads` neither is true.

**ThreadPoolProofs.** `PoolInv` ties `threadsWorking` to the workers that are between wake-up and the end of their work, and says in which
phases of the main thread there may be any (`PoolInvariant`); a call can only return, and the next one be assigned, when there
are none, so that no worker ever runs, or is about to run, a function whose frame is gone (`NobodyEverRunsDeadFrame`). Two more invariants are about the work: the
blocks that threads hold ahead are different and below the pointer, and a block below the pointer is processed or held. They give
`EveryBlockOnce` and that every step maps to a step of `ForkJoin` (`PoolImplementsForkJoin`).

**SyncQueuesProofs.** `SyncInv` says for each thread at which step it has how many buffers, for each buffer that it is in one place and there
once (`Separate`, `Covers`), and that an allocator has buffers of its own socket only. Every step leaves the places alone or moves the first n
buffers of one behind those of another (`Moves`), so conservation (`QueuesConserve`) is proved once, for that step, and not for each action.
`NotifyOneSuffices` is the theorem a reader of `synchronizedQueue.h` would doubt: `push` wakes one waiter, and the waiters of `popN_wait` want
different numbers, so a wake-up may go to one that sleeps on while another could run. What saves it is that buffers are
out while the allocator is too short for a batch, so that another push will follow. That takes an allocator that at the start has enough for any batch of its
creators (`AllocAssumption`): production has 120 buffers per node and batches of 8 or 64. `PushWakesProcessors`: no processor
sleeps beside a job, or in a closed queue, without a notification on its way.

**MBFEnumerationProofs.** The graph is any finite set of classes with a first and a last one, successors one rank up (a class is expanded by adding one
bit), nothing above the full MBF (`RankAssumption`), and everything reachable from the first (`ReachAssumption`). `EnumInv` relates the
list, the pointer behind which entries are claimed, the pointer up to which they are published and the count of waiting threads. `EachClassOnce` needs that `add`
looks again under the mutex; `WaitingMeansDone` that a counted thread has nothing in its hands, and that somebody
live will look again while something is unclaimed (`LiveInv`). The hard case is the thread that claims the full MBF, which returns without looking
again: it may only be the last entry. `BreadthInv` is why it is when one thread is left alive: a single thread works breadth first, so the ranks in the unclaimed part ascend.
With all threads waiting, the list is closed under successors, which makes it all classes (`EnumerationComplete`) and the count of links right.

**ComputeProjectProofs.** `ProjectTypeOK` is unconditional. With `OnePerNode` (one process per compute identifier) and
`CriticalKept` (critical jobs are not reset), `ProjectInv` is inductive: it adds that a process in its
critical section owns its job's file, that the `_tmp` file it is about to rename is the node's file with its job added, and
that validation data is only of jobs that are in `critical/` or `finished/` at their node (`HeldInPlace`).
From it: `FinishedIsRecorded`, `ValidationStaysWhole`, `ValidationOnlyGrows` and
`ProjectImplementsLedger`. That the collector does not reject a project whose jobs finished (`FinishedIsAccepted`) takes two facts more: results are where their jobs
are, and a process that saw an error saves none (`SavedInv`).
`AcceptedIsExact` needs neither condition: it holds with several processes of one identifier and any reset. The collector finds
each job in one validation file and in some result; that no job is in two results only the sums of both sides tell it. They are equal,
weights are positive, so the results have nothing that the files have not. Sums over finite sets are proved about by a smallest
counterexample (`MinimalSubset`), which takes no operator parameter.

**WordProofs.** Here the statements are the laws that the run `algorithms` evaluates, for every size. `WideWordLawsHold`: sums and products of
three words are exact modulo `Word^3` for every `Word`, so for 2^64 too, but for the lost carry of `+=` (`CarryLost`), which is thereby the only
error there is. `BlockShiftLawsHold`: cutting a set into blocks, `<<=`, `>>=` and the first and last bit, for any number of blocks of any width and
any shift. `RegisterLawsHold`: the four shifts and the mirror of the 128-bit register, for every set. `AboveIsStrictOrder`, `BlocksKeepOrder`,
`Above128IsStrictOrder`: each `operator>` is a strict total order, that of words the one that puts a set above its subsets, that of blocks the same, that of the
register (signed lanes) another one. Everything rests on the uniqueness of quotient and remainder (`DivModIs`).

Only model-checked: all liveness (`ClosedLeadsToExit`, `EitherPipelineReturns`, `LoopDrains`, `PoolWindsDown`,
`EnumerationReturns`, `CollectorAnswers`), which is out of the prover's reach, and the algorithm modules but for `WordShifts` and
`WideWords`: their operators are recursive or fold over data, and the library's induction rules take an operator as parameter, which no installed prover
can instantiate.

## 6. Not modelled, and why

- *Slab allocators, `SynchronizedStack`*: nothing in production uses them.
- *Verilog*: a clocked pipeline over vendor primitives, outside the C++ program. What it computes is
  `countConnectedVeryFast`'s result (`PCoeff`); the order of words it reads is in `BottomBuffers`.
- *FPGA host*: opening the platform, filling the device's buffers, the kernel's arguments.
- *Older decompositions* (`intervalDecomposition`, `layerDecomposition`, `valuedDecomposition`), `sjomn.h`, `MBFDecompositionWithHash`: early commands for
  small n, unfinished, or called by nothing.
- *Statistics*: the estimates of D(10) computed from counts, prefetching of samples, the filter tree's reports.
- *Repair tools*: `collectAndProcessResultsMessy`, `createJobForEasyWrongTops` and the integrity
  checkers are one-off tools over the project's folders.
- *I/O*: mapping, reading and compressing flat files; parsing of commands.
- Memory ordering is taken as sequentially consistent: the atomics of the validator, the pool and the enumeration use the
  default order. `spinBarrier.h` and the thread bundles (create and join) have no interleaving of interest.

## 7. Plan

Done, in this order: `ContinuousValidator` and `BufferLease`; `PCoeffPipeline`; `ComputeProject` and `OnceLedger`; `ThreadPool` and
`ForkJoin`; `SyncQueues`; `MBFEnumeration`; the algorithm modules from `BitSet` up; `FPGAHost`.

Next:

1. *Proofs.* The one-word classes of `BitSet` with their recursion unrolled (`reverse`); the closures of `BooleanFunction`.
2. *Kernel arguments.* `launchWriteKernel` with its five arguments on one shared kernel object.
3. *Other users of the pool*: `parallelIter` and the claim loops of the command line tools.

There are twelve runs: a new question goes into the run of its component.
