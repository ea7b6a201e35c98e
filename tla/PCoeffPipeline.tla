--------------------------- MODULE PCoeffPipeline ---------------------------
(***************************************************************************)
(* pcoeffPipeline: the closed loop in which NodeIndex (input) and          *)
(* ProcessedPCoeffSum (result) buffers circulate between the bottom buffer *)
(* creators, the CPU processors, the result processors and the validators, *)
(* over the queues of a PCoeffProcessingContext (one set per socket).      *)
(*                                                                         *)
(* A JobInfo/OutputBuffer is identified with its top: stage and owner say  *)
(* which thread or which socket's queue has it, inp and res which buffers  *)
(* it carries. Queues hand over each item once, in any order (more orders  *)
(* than the FIFO RingQueue has); a blocked pop is a disabled action.       *)
(***************************************************************************)
EXTENDS Integers, FiniteSets, Functions

CONSTANTS
  Sockets,                 \* the NUMA_SLICE_COUNT contexts
  Creators, Processors, ResultThreads, Validators,
  SocketOf,                \* the socket each thread is pinned to
  NumTops,                 \* context.tops.size()
  Batch,                   \* BUFFERS_PER_BATCH
  InputBufs, ResultBufs,   \* the buffers cut from numaInputMemory, numaResultMemory
  HomeOf,                  \* the socket whose memory a buffer lies in
  Hold,                    \* buffers a validator keeps while it waits for another
  OwnSocket,               \* the processors are cpuProcessor_SuperMultiThread's
  MayFail,                 \* a result may carry the error bits of (sum >> 61)
  NoBuf, Nobody

Tops    == 0 .. NumTops - 1
Threads == Creators \cup Processors \cup ResultThreads \cup Validators
\* Also an entry of the results that nobody wrote: it stays value-initialised,
\* which to its readers is top 0 with sums of zero.
NoTop   == -1

ASSUME ThreadsAssumption ==
  /\ SocketOf \in [Threads -> Sockets]
  /\ Creators \cap Processors = {} /\ Creators \cap ResultThreads = {}
  /\ Creators \cap Validators = {} /\ Processors \cap ResultThreads = {}
  /\ Processors \cap Validators = {} /\ ResultThreads \cap Validators = {}
  /\ Threads \cap Sockets = {} /\ Nobody \notin Threads \cup Sockets
\* pcoeffPipeline starts some threads of each kind on each socket.
ASSUME StaffAssumption ==
  /\ Creators # {} /\ Processors # {}
  /\ \A s \in Sockets :
       /\ \E r \in ResultThreads : SocketOf[r] = s
       /\ \E v \in Validators : SocketOf[v] = s
ASSUME BuffersAssumption ==
  /\ HomeOf \in [InputBufs \cup ResultBufs -> Sockets]
  /\ NoBuf \notin InputBufs \cup ResultBufs
ASSUME SizesAssumption ==
  /\ NumTops \in Nat /\ Batch \in Nat \ {0} /\ Hold \in Nat
  /\ OwnSocket \in BOOLEAN /\ MayFail \in BOOLEAN

VARIABLES
  nextTop,              \* jobTopAtomic, as an index
  stage, owner,         \* per top: what is being done, by which thread or in whose queue
  inp, res,             \* per top: bufStart and outputBuf
  inAlloc, resAlloc,    \* per socket: inputBufferAlloc, resultBufferAlloc
  inClosed,             \* inputQueue.isClosed
  outClosed, valClosed, \* the sockets whose outputQueue, validationQueue is closed
  pending,              \* per result thread: a result not yet in its slot
  results,              \* result.results, as the top each entry is for
  slots,                \* finalResultPtr, as an index
  valSums,              \* per result thread: the tops added to its validationBuffer
  exited,               \* the threads that returned
  returned              \* pcoeffPipeline returned

jobVars    == <<stage, owner>>
bufVars    == <<inp, res, inAlloc, resAlloc>>
closeVars  == <<inClosed, outClosed, valClosed>>
resultVars == <<pending, results, slots, valSums>>
endVars    == <<exited, returned>>
vars == <<nextTop, jobVars, bufVars, closeVars, resultVars, endVars>>

TypeOK ==
  /\ nextTop \in Nat
  /\ stage \in [Tops -> {"unclaimed", "claimed", "generating", "queued",
                         "processing", "computing", "output", "recording",
                         "validation", "validating", "freeing", "done", "dropped"}]
  /\ owner \in [Tops -> Threads \cup Sockets \cup {Nobody}]
  /\ inp \in [Tops -> InputBufs \cup {NoBuf}]
  /\ res \in [Tops -> ResultBufs \cup {NoBuf}]
  /\ inAlloc \in [Sockets -> SUBSET InputBufs]
  /\ resAlloc \in [Sockets -> SUBSET ResultBufs]
  /\ inClosed \in BOOLEAN /\ outClosed \subseteq Sockets /\ valClosed \subseteq Sockets
  /\ pending \in [ResultThreads -> Tops \cup {NoTop}]
  /\ results \in [Tops -> Tops \cup {NoTop}] /\ slots \in Nat
  /\ valSums \in [ResultThreads -> SUBSET Tops]
  /\ exited \subseteq Threads /\ returned \in BOOLEAN

\* The smallest power of two that is not below n.
roundUpToPow2(n) ==
  CHOOSE c \in {2^k : k \in 0 .. n} : n <= c /\ \A k \in 0 .. n : n <= 2^k => c <= 2^k

\* The capacities of a socket's RingQueues.
HomeInputs(s)     == {b \in InputBufs : HomeOf[b] = s}
HomeResults(s)    == {b \in ResultBufs : HomeOf[b] = s}
InputCapacity(s)  == roundUpToPow2(Cardinality(HomeInputs(s)))
ResultCapacity(s) == roundUpToPow2(Cardinality(HomeResults(s)))
PairCapacity(s)   == IF InputCapacity(s) <= ResultCapacity(s)
                     THEN InputCapacity(s) ELSE ResultCapacity(s)

Init ==
  /\ nextTop = 0
  /\ stage = [t \in Tops |-> "unclaimed"] /\ owner = [t \in Tops |-> Nobody]
  /\ inp = [t \in Tops |-> NoBuf] /\ res = [t \in Tops |-> NoBuf]
  /\ inAlloc = [s \in Sockets |-> HomeInputs(s)]
  /\ resAlloc = [s \in Sockets |-> HomeResults(s)]
  /\ inClosed = FALSE /\ outClosed = {} /\ valClosed = {}
  /\ pending = [r \in ResultThreads |-> NoTop]
  /\ results = [i \in Tops |-> NoTop] /\ slots = 0  \* resize(tops.size())
  /\ valSums = [r \in ResultThreads |-> {}]
  /\ exited = {} /\ returned = FALSE

\* The jobs at a given stage with a given thread, or in a given socket's queue.
At(st, w) == {t \in Tops : stage[t] = st /\ owner[t] = w}
\* The jobs a thread has in hand.
Held(w)   == {t \in Tops : owner[t] = w}
\* The tops that have an entry of the results.
Recorded  == {t \in Tops : \E i \in Tops : results[i] = t}

MoveAll(T, st, w) ==
  /\ stage' = [t \in Tops |-> IF t \in T THEN st ELSE stage[t]]
  /\ owner' = [t \in Tops |-> IF t \in T THEN w ELSE owner[t]]
Move(t, st, w) ==
  /\ stage' = [stage EXCEPT ![t] = st]
  /\ owner' = [owner EXCEPT ![t] = w]

Exit(w) ==
  /\ exited' = exited \cup {w}
  /\ UNCHANGED <<jobVars, bufVars, closeVars, resultVars, returned>>

----------------------------------------------------------------------------
(* Bottom buffer creators: runBottomBufferCreatorNoAlloc.                  *)

Claim(c) ==
  /\ c \notin exited /\ Held(c) = {} /\ nextTop < NumTops
  /\ MoveAll({t \in Tops : nextTop <= t /\ t < nextTop + Batch}, "claimed", c)
  /\ nextTop' = nextTop + Batch
  /\ UNCHANGED <<bufVars, closeVars, resultVars, endVars>>

CreatorExit(c) ==
  /\ c \notin exited /\ Held(c) = {} /\ nextTop >= NumTops
  /\ nextTop' = nextTop + Batch
  /\ Exit(c)

\* popN_wait: all the buffers of the batch at once, or none.
TakeInputs(c) ==
  /\ At("claimed", c) # {}
  /\ \E f \in Injection(At("claimed", c), inAlloc[SocketOf[c]]) :
       /\ inp' = [t \in Tops |-> IF t \in At("claimed", c) THEN f[t] ELSE inp[t]]
       /\ inAlloc' = [inAlloc EXCEPT ![SocketOf[c]] = @ \ {f[t] : t \in At("claimed", c)}]
  /\ MoveAll(At("claimed", c), "generating", c)
  /\ UNCHANGED <<nextTop, res, resAlloc, closeVars, resultVars, endVars>>

PushBatch(c) ==
  /\ At("generating", c) # {}
  /\ MoveAll(At("generating", c), "queued", SocketOf[c])
  /\ UNCHANGED <<nextTop, bufVars, closeVars, resultVars, endVars>>

\* Mutant: the queue is closed as soon as every top is claimed, without the join.
CloseInputEarly ==
  /\ nextTop >= NumTops /\ ~inClosed
  /\ inClosed' = TRUE
  /\ UNCHANGED <<nextTop, jobVars, bufVars, outClosed, valClosed, resultVars, endVars>>

\* runBottomBufferCreator: join the creators, close the inputQueue.
CloseInput ==
  /\ Creators \subseteq exited /\ ~inClosed
  /\ inClosed' = TRUE
  /\ UNCHANGED <<nextTop, jobVars, bufVars, outClosed, valClosed, resultVars, endVars>>

----------------------------------------------------------------------------
(* Processors: cpuProcessor_SingleThread_MBF (one per core in the coarse   *)
(* variant) and cpuProcessor_SuperMultiThread.                             *)

QueuedTops == {t \in Tops : stage[t] = "queued"}

\* pop_wait_prefer: another socket's queue only if the own one is empty.
PopInput(p, t) ==
  /\ p \notin exited /\ Held(p) = {}
  /\ stage[t] = "queued"
  /\ owner[t] = SocketOf[p] \/ At("queued", SocketOf[p]) = {}
  /\ Move(t, "processing", p)
  /\ UNCHANGED <<nextTop, bufVars, closeVars, resultVars, endVars>>

ProcessorExit(p) ==
  /\ p \notin exited /\ Held(p) = {} /\ QueuedTops = {} /\ inClosed
  /\ Exit(p) /\ UNCHANGED nextTop

\* Mutant: the processor works with its own socket's context, wherever the input lies.
OwnContext(p, t) == SocketOf[p]

\* getNUMAForBuf(job.bufStart), or numaQueues[socket] in the SuperMultiThread one.
ContextOf(p, t) == IF OwnSocket THEN SocketOf[p] ELSE HomeOf[inp[t]]

TakeResult(p, t) ==
  /\ t \in At("processing", p)
  /\ \E b \in resAlloc[ContextOf(p, t)] :
       /\ res' = [res EXCEPT ![t] = b]
       /\ resAlloc' = [resAlloc EXCEPT ![ContextOf(p, t)] = @ \ {b}]
  /\ Move(t, "computing", p)
  /\ UNCHANGED <<nextTop, inp, inAlloc, closeVars, resultVars, endVars>>

\* Mutant: the output goes to the processor's own socket.
PushOutputHere(p, t) ==
  /\ t \in At("computing", p)
  /\ Move(t, "output", SocketOf[p])
  /\ UNCHANGED <<nextTop, bufVars, closeVars, resultVars, endVars>>

PushOutput(p, t) ==
  /\ t \in At("computing", p)
  /\ Move(t, "output", ContextOf(p, t))
  /\ UNCHANGED <<nextTop, bufVars, closeVars, resultVars, endVars>>

\* The "Processor" thread of pcoeffPipeline, after processorFunc returned.
CloseOutput(s) ==
  /\ Processors \subseteq exited /\ s \notin outClosed
  /\ outClosed' = outClosed \cup {s}
  /\ UNCHANGED <<nextTop, jobVars, bufVars, inClosed, valClosed, resultVars, endVars>>

----------------------------------------------------------------------------
(* Result processors: resultprocessingPThread, with SECOND_RUN defined.    *)

PopOutput(r, t) ==
  /\ r \notin exited /\ Held(r) = {} /\ pending[r] = NoTop
  /\ t \in At("output", SocketOf[r])
  /\ Move(t, "recording", r)
  /\ UNCHANGED <<nextTop, bufVars, closeVars, resultVars, endVars>>

\* Mutant: the validation data are added before the failure is looked at.
DropAfterValidation(r, t) ==
  /\ MayFail /\ t \in At("recording", r)
  /\ valSums' = [valSums EXCEPT ![r] = @ \cup {t}]
  /\ Move(t, "dropped", Nobody)
  /\ UNCHANGED <<nextTop, bufVars, closeVars, pending, results, slots, endVars>>

\* produceBetaResult failed: the loop goes on to the next buffer.
DropFailed(r, t) ==
  /\ MayFail /\ t \in At("recording", r)
  /\ Move(t, "dropped", Nobody)
  /\ UNCHANGED <<nextTop, bufVars, closeVars, resultVars, endVars>>

\* addValidationData, then validationQueue.push.
PushValidation(r, t) ==
  /\ t \in At("recording", r)
  /\ valSums' = [valSums EXCEPT ![r] = @ \cup {t}]
  /\ Move(t, "validation", SocketOf[r])
  /\ pending' = [pending EXCEPT ![r] = t]
  /\ UNCHANGED <<nextTop, bufVars, closeVars, results, slots, endVars>>

\* finalResultPtr.fetch_add(1), and the result moves into that slot.
RecordResult(r) ==
  /\ pending[r] # NoTop
  /\ results' = [results EXCEPT ![slots] = pending[r]]
  /\ slots' = slots + 1
  /\ pending' = [pending EXCEPT ![r] = NoTop]
  /\ UNCHANGED <<nextTop, jobVars, bufVars, closeVars, valSums, endVars>>

ResultExit(r) ==
  /\ r \notin exited /\ Held(r) = {} /\ pending[r] = NoTop
  /\ At("output", SocketOf[r]) = {} /\ SocketOf[r] \in outClosed
  /\ Exit(r) /\ UNCHANGED nextTop

\* NUMAResultProcessor, after it joined its threads.
CloseValidation(s) ==
  /\ ResultThreads \subseteq exited /\ s \notin valClosed
  /\ valClosed' = valClosed \cup {s}
  /\ UNCHANGED <<nextTop, jobVars, bufVars, inClosed, outClosed, resultVars, endVars>>

----------------------------------------------------------------------------
(* Validators: noValidatorPThread and basicValidatorPThread free what they *)
(* popped (Hold = 0); continuousValidatorPThread frees a job only after it *)
(* popped the next long one, or when the queue is closed (Hold = 1).       *)

Drained(s) == s \in valClosed /\ At("validation", s) = {}

PopValidation(v, t) ==
  /\ v \notin exited /\ Cardinality(Held(v)) <= Hold
  /\ At("freeing", v) = {}
  /\ t \in At("validation", SocketOf[v])
  /\ Move(t, "validating", v)
  /\ UNCHANGED <<nextTop, bufVars, closeVars, resultVars, endVars>>

\* Mutant: one more buffer kept than the pool was sized for.
ReleasesKeepingOne(v) == Cardinality(Held(v)) > Hold + 1 \/ Drained(SocketOf[v])

\* What makes the validator give a buffer back.
Releases(v) == Cardinality(Held(v)) > Hold \/ Drained(SocketOf[v])

\* Mutant: the job stays where it is, and can be freed again.
FreeInputTwice(v, t) ==
  /\ t \in At("validating", v) /\ Releases(v)
  /\ inAlloc' = [inAlloc EXCEPT ![SocketOf[v]] = @ \cup {inp[t]}]
  /\ UNCHANGED <<nextTop, jobVars, inp, res, resAlloc, closeVars, resultVars, endVars>>

\* freeBuffersAfterValidation, or the two freeBuf calls: into the allocators
\* of the validator's own socket, the input buffer first.
FreeInput(v, t) ==
  /\ t \in At("validating", v) /\ Releases(v) /\ At("freeing", v) = {}
  /\ inAlloc' = [inAlloc EXCEPT ![SocketOf[v]] = @ \cup {inp[t]}]
  /\ inp' = [inp EXCEPT ![t] = NoBuf]
  /\ Move(t, "freeing", v)
  /\ UNCHANGED <<nextTop, res, resAlloc, closeVars, resultVars, endVars>>

FreeResult(v, t) ==
  /\ t \in At("freeing", v)
  /\ resAlloc' = [resAlloc EXCEPT ![SocketOf[v]] = @ \cup {res[t]}]
  /\ res' = [res EXCEPT ![t] = NoBuf]
  /\ Move(t, "done", Nobody)
  /\ UNCHANGED <<nextTop, inp, inAlloc, closeVars, resultVars, endVars>>

ValidatorExit(v) ==
  /\ v \notin exited /\ Held(v) = {} /\ Drained(SocketOf[v])
  /\ Exit(v) /\ UNCHANGED nextTop

----------------------------------------------------------------------------
(* The main thread joins the input producer, the processor thread and the  *)
(* validators, after the result processor closed the validationQueues.     *)
Return ==
  /\ ~returned /\ exited = Threads
  /\ inClosed /\ outClosed = Sockets /\ valClosed = Sockets
  /\ returned' = TRUE
  /\ UNCHANGED <<nextTop, jobVars, bufVars, closeVars, resultVars, exited>>

Terminated == returned /\ UNCHANGED vars

CreatorStep(c) == Claim(c) \/ CreatorExit(c) \/ TakeInputs(c) \/ PushBatch(c)

ProcessorStep(p) ==
  \/ ProcessorExit(p)
  \/ \E t \in Tops : PopInput(p, t) \/ TakeResult(p, t) \/ PushOutput(p, t)

ResultStep(r) ==
  \/ RecordResult(r) \/ ResultExit(r)
  \/ \E t \in Tops : PopOutput(r, t) \/ DropFailed(r, t) \/ PushValidation(r, t)

ValidatorStep(v) ==
  \/ ValidatorExit(v)
  \/ \E t \in Tops : PopValidation(v, t) \/ FreeInput(v, t) \/ FreeResult(v, t)

CloseStep ==
  \/ CloseInput
  \/ \E s \in Sockets : CloseOutput(s) \/ CloseValidation(s)

Next ==
  \/ \E c \in Creators : CreatorStep(c)
  \/ \E p \in Processors : ProcessorStep(p)
  \/ \E r \in ResultThreads : ResultStep(r)
  \/ \E v \in Validators : ValidatorStep(v)
  \/ CloseStep
  \/ Return
  \/ Terminated

Spec == Init /\ [][Next]_vars

\* Every thread keeps running. A thread that waits on a queue is not starved
\* for ever: each step uses up one of finitely many jobs, so only finitely
\* often can another thread be faster.
Fairness ==
  /\ \A c \in Creators : WF_vars(CreatorStep(c))
  /\ \A p \in Processors : WF_vars(ProcessorStep(p))
  /\ \A r \in ResultThreads : WF_vars(ResultStep(r))
  /\ \A v \in Validators : WF_vars(ValidatorStep(v))
  /\ WF_vars(CloseStep) /\ WF_vars(Return)

FairSpec == Spec /\ Fairness

----------------------------------------------------------------------------
(* Properties.                                                             *)

\* Each buffer is in one place: in one allocator, or with one job; none is
\* lost, and no two jobs write to the same memory.
InputsConserved ==
  /\ \A b \in InputBufs :
       (\E s \in Sockets : b \in inAlloc[s]) \/ (\E t \in Tops : inp[t] = b)
  /\ \A s, u \in Sockets : s # u => inAlloc[s] \cap inAlloc[u] = {}
  /\ \A t \in Tops, s \in Sockets : inp[t] \notin inAlloc[s]
  /\ \A t, u \in Tops : inp[t] = inp[u] /\ inp[t] # NoBuf => t = u
ResultsConserved ==
  /\ \A b \in ResultBufs :
       (\E s \in Sockets : b \in resAlloc[s]) \/ (\E t \in Tops : res[t] = b)
  /\ \A s, u \in Sockets : s # u => resAlloc[s] \cap resAlloc[u] = {}
  /\ \A t \in Tops, s \in Sockets : res[t] \notin resAlloc[s]
  /\ \A t, u \in Tops : res[t] = res[u] /\ res[t] # NoBuf => t = u

\* A buffer returns to the allocator of the socket whose memory it lies in,
\* although the processors take jobs from either socket: an allocator never
\* holds more than the buffers its RingQueue was sized for.
BuffersComeHome ==
  \A s \in Sockets :
    \A b \in inAlloc[s] \cup resAlloc[s] : HomeOf[b] = s

\* The queues close from front to back: when one is closed nobody is left who
\* would still push to it (which aborts the program), and nothing upstream of
\* it is in flight.
CloseCascade ==
  /\ inClosed =>
       \A t \in Tops : stage[t] \notin {"unclaimed", "claimed", "generating"}
  /\ outClosed # {} =>
       \A t \in Tops : stage[t] \notin {"unclaimed", "claimed", "generating",
                                        "queued", "processing", "computing"}
  /\ valClosed # {} =>
       \A t \in Tops : stage[t] \in {"validation", "validating", "freeing", "done", "dropped"}

\* The entries written for a top.
EntriesOf(t) == {i \in Tops : results[i] = t}

\* What processJob relies on when no error was reported: each top has one
\* entry of the results, was added to one node's validation data, and all
\* buffers are back.
AllTopsAtReturn ==
  returned =>
    /\ \A t \in Tops : \E i \in Tops : EntriesOf(t) = {i}
    /\ \A t \in Tops : \E r \in ResultThreads :
         t \in valSums[r] /\ \A q \in ResultThreads \ {r} : t \notin valSums[q]
    /\ \A t \in Tops : inp[t] = NoBuf /\ res[t] = NoBuf

\* Also when buffers failed: every dropped top leaves one blank entry in the
\* vector, is in no node's validation data and has its buffers lost; every
\* other top has one entry and is in the validation data. Both sums so miss
\* the same tops, but the size of the vector does not tell, and no thread here
\* reports an error: processJob returns true for such a vector.
DroppedLeaveBlanks ==
  returned =>
    LET dropped == {t \in Tops : stage[t] = "dropped"} IN
    /\ \A t \in Tops \ dropped : \E i \in Tops : EntriesOf(t) = {i}
    /\ \A t \in dropped : EntriesOf(t) = {}
    /\ Cardinality(EntriesOf(NoTop)) = Cardinality(dropped)
    /\ UNION {valSums[r] : r \in ResultThreads} = Tops \ dropped
    /\ {t \in Tops : inp[t] # NoBuf} = dropped

\* No RingQueue is asked to hold more than it was made for, which its push
\* asserts; in a release build the push would overwrite the oldest element.
RingQueuesNotOverfull ==
  \A s \in Sockets :
    /\ Cardinality(inAlloc[s]) <= InputCapacity(s)
    /\ Cardinality(At("queued", s)) <= InputCapacity(s)
    /\ Cardinality(resAlloc[s]) <= ResultCapacity(s)
    /\ Cardinality(At("output", s)) <= PairCapacity(s)
    /\ Cardinality(At("validation", s)) <= PairCapacity(s)

\* The closed loop never runs dry: with just enough buffers the pipeline
\* processes all tops and returns.
PipelineReturns == <>returned

----------------------------------------------------------------------------
(* Why the safety properties hold: an inductive invariant.                 *)

Early == {"unclaimed", "claimed", "generating"}
Late  == {"validation", "validating", "freeing", "done"}

\* Which thread or queue a job is with, and which buffers it carries there.
JobInv ==
  \A t \in Tops :
    /\ stage[t] \in {"unclaimed", "done", "dropped"} => owner[t] = Nobody
    /\ stage[t] \in {"claimed", "generating"} => owner[t] \in Creators
    /\ stage[t] \in {"processing", "computing"} => owner[t] \in Processors
    /\ stage[t] = "recording" => owner[t] \in ResultThreads
    /\ stage[t] \in {"validating", "freeing"} => owner[t] \in Validators
    /\ stage[t] \in {"queued", "output", "validation"} => owner[t] \in Sockets
    /\ inp[t] = NoBuf <=> stage[t] \in {"unclaimed", "claimed", "freeing", "done"}
    /\ res[t] = NoBuf <=> stage[t] \in Early \cup {"queued", "processing", "done"}

\* A job is with threads and queues of the socket its buffers come from,
\* except while a processor of either socket works on it.
HomeInv ==
  /\ BuffersComeHome
  /\ \A t \in Tops :
       /\ inp[t] # NoBuf /\ res[t] # NoBuf => HomeOf[inp[t]] = HomeOf[res[t]]
       /\ owner[t] \in Sockets => HomeOf[inp[t]] = owner[t]
       /\ owner[t] \in Creators \cup ResultThreads \cup Validators =>
            /\ inp[t] # NoBuf => HomeOf[inp[t]] = SocketOf[owner[t]]
            /\ res[t] # NoBuf => HomeOf[res[t]] = SocketOf[owner[t]]

\* What an exited thread and a closed queue stand for.
ShutdownInv ==
  /\ \A t \in Tops : stage[t] = "unclaimed" <=> nextTop <= t
  /\ \A t \in Tops : owner[t] \notin exited
  /\ \A c \in Creators \cap exited : nextTop >= NumTops
  /\ inClosed => Creators \subseteq exited
  /\ Processors \cap exited # {} => inClosed /\ \A t \in Tops : stage[t] # "queued"
  /\ outClosed # {} => Processors \subseteq exited
  /\ \A r \in ResultThreads \cap exited :
       /\ pending[r] = NoTop /\ SocketOf[r] \in outClosed
       /\ \A t \in Tops : stage[t] = "output" => owner[t] # SocketOf[r]
  /\ valClosed # {} => ResultThreads \subseteq exited
  /\ \A v \in Validators \cap exited :
       /\ SocketOf[v] \in valClosed
       /\ \A t \in Tops : stage[t] = "validation" => owner[t] # SocketOf[v]

\* The results and the validation data are those of the jobs that went on
\* to validation.
ResultInv ==
  /\ \A t, u \in Tops : owner[t] = owner[u] /\ owner[t] \in ResultThreads => t = u
  /\ \A r \in ResultThreads : pending[r] # NoTop =>
       /\ stage[pending[r]] \in Late /\ pending[r] \notin Recorded
       /\ \A t \in Tops : owner[t] # r
       /\ \A q \in ResultThreads : pending[q] = pending[r] => q = r
  /\ \A t \in Tops : stage[t] \in Late => t \in Recorded \/ \E r \in ResultThreads : pending[r] = t
  /\ \A t \in Recorded : stage[t] \in Late
  /\ \A t \in Tops : stage[t] \in Late <=> \E r \in ResultThreads : t \in valSums[r]
  /\ \A t \in Tops : \A r, q \in ResultThreads :
       t \in valSums[r] /\ t \in valSums[q] => r = q

\* The entries up to finalResultPtr are written, each for another top.
EntryInv ==
  /\ slots = Cardinality(Recorded)
  /\ \A i \in Tops : results[i] # NoTop <=> i < slots
  /\ \A i, j \in Tops : results[i] = results[j] /\ i < slots => i = j

\* What the joins of the main thread give it, and what nobody dropped.
ReturnInv ==
  /\ returned => exited = Threads /\ valClosed = Sockets
  /\ ~MayFail => \A t \in Tops : stage[t] # "dropped"

\* All of it, for every reachable state.
CirculationInv ==
  /\ TypeOK /\ JobInv /\ InputsConserved /\ ResultsConserved
  /\ ShutdownInv /\ ResultInv /\ EntryInv /\ ReturnInv
  /\ ~OwnSocket => HomeInv
=============================================================================
