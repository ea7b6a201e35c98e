----------------------------- MODULE ThreadPool -----------------------------
(***************************************************************************)
(* PThreadPool: workers that sleep on threadStarter until a call of        *)
(* doInParallel starts them, and the main thread, which takes part and     *)
(* then waits on threadsFinished. The work is processBetasCPU_MultiThread: *)
(* blocks of bottoms claimed from an atomic pointer, each claim made one   *)
(* block ahead. Main makes NumRounds calls, then destroys the pool.        *)
(*                                                                         *)
(* What a thread does between locking and unlocking mtx is one step; what  *)
(* it does outside (funcToRun = work, the notifications, the test of       *)
(* shouldExit, each fetch_add) is a step of its own.                       *)
(***************************************************************************)
EXTENDS Integers, FiniteSets

CONSTANTS
  Workers,    \* the numThreads-1 threads of the pool
  Main,       \* the thread that owns it
  NumRounds,  \* the number of calls of doInParallel
  NumBlocks   \* per call: how many blocks the job's bottoms make

Threads == Workers \cup {Main}
Rounds  == 1 .. NumRounds

ASSUME WorkersAssumption == IsFiniteSet(Workers) /\ Main \notin Workers
ASSUME RoundsAssumption == NumRounds \in Nat /\ NumBlocks \in [Rounds -> Nat]

VARIABLES
  shouldStart, shouldExit, threadsWorking,
  func,     \* funcToRun: the call whose work it is, 0 for the initial no-op
  pc,       \* what each thread is doing
  idx,      \* the atomic block pointer i, a local of the call
  ahead,    \* per thread: nextNodeBlock
  claimed,  \* per thread: claimedNodeBlock
  count     \* per call and block: how often it was processed

sync == <<shouldStart, shouldExit, threadsWorking>>
work == <<idx, ahead, claimed, count>>
vars == <<sync, func, pc, work>>

BlocksOf == [r \in Rounds |-> 0 .. NumBlocks[r] - 1]

WorkerPcs == {"arriving", "waiting", "checking", "calling", "looping", "processing",
              "finishing", "exited"}
MainPcs   == {"idle", "assigned", "started", "calling", "looping", "processing",
              "finishing", "waiting", "woken", "closing", "opening", "joining", "gone"}

PoolTypeOK ==
  /\ shouldStart \in BOOLEAN /\ shouldExit \in BOOLEAN /\ threadsWorking \in Int
  /\ func \in 0 .. NumRounds
  /\ pc \in [Threads -> WorkerPcs \cup MainPcs]
  /\ \A w \in Workers : pc[w] \in WorkerPcs
  /\ pc[Main] \in MainPcs
  /\ idx \in Nat
  /\ ahead \in [Threads -> Nat] /\ claimed \in [Threads -> Nat]
  /\ \A r \in Rounds : count[r] \in [BlocksOf[r] -> Nat]

PoolInit ==
  /\ shouldStart = FALSE /\ shouldExit = FALSE /\ threadsWorking = 0
  /\ func = 0
  /\ pc = [t \in Threads |-> IF t = Main THEN "idle" ELSE "arriving"]
  /\ idx = 0
  /\ ahead = [t \in Threads |-> 0] /\ claimed = [t \in Threads |-> 0]
  /\ count = [r \in Rounds |-> [b \in BlocksOf[r] |-> 0]]

Goto(t, l) == pc' = [pc EXCEPT ![t] = l]

----------------------------------------------------------------------------
(* The work: what every thread that calls funcToRun runs.                  *)

\* The first fetch_add; the call to the initial empty function returns at once.
FirstFetch(t) ==
  /\ pc[t] = "calling"
  /\ ahead' = [ahead EXCEPT ![t] = idx] /\ idx' = idx + 1
  /\ Goto(t, "looping")
  /\ UNCHANGED <<sync, func, claimed, count>>

\* Mutant: the pointer is read and advanced in two steps, so two threads read it.
ReadAhead(t) ==
  /\ pc[t] = "looping"
  /\ claimed' = [claimed EXCEPT ![t] = ahead[t]]
  /\ ahead' = [ahead EXCEPT ![t] = idx]
  /\ idx' \in {idx, idx + 1}
  /\ Goto(t, IF ahead[t] >= NumBlocks[func] THEN "finishing" ELSE "processing")
  /\ UNCHANGED <<sync, func, count>>

\* Take the block fetched before, and fetch the next one early.
ClaimBlock(t) ==
  /\ pc[t] = "looping"
  /\ claimed' = [claimed EXCEPT ![t] = ahead[t]]
  /\ ahead' = [ahead EXCEPT ![t] = idx] /\ idx' = idx + 1
  /\ Goto(t, IF ahead[t] >= NumBlocks[func] THEN "finishing" ELSE "processing")
  /\ UNCHANGED <<sync, func, count>>

ProcessBlock(t) ==
  /\ pc[t] = "processing"
  /\ count' = [count EXCEPT ![func][claimed[t]] = @ + 1]
  /\ Goto(t, "looping")
  /\ UNCHANGED <<sync, func, idx, ahead, claimed>>

DoWork(t) == FirstFetch(t) \/ ClaimBlock(t) \/ ProcessBlock(t)

----------------------------------------------------------------------------
(* A worker: threadFunc.                                                   *)

Sleep(w) == pc[w] = "arriving" /\ ~shouldStart /\ Goto(w, "waiting") /\ UNCHANGED <<sync, func, work>>

\* Mutant: the worker does not count itself among those working.
WakeUncounted(w) ==
  /\ pc[w] = "arriving" /\ shouldStart
  /\ Goto(w, "checking") /\ UNCHANGED <<sync, func, work>>

WakeUp(w) ==
  /\ pc[w] = "arriving" /\ shouldStart
  /\ threadsWorking' = threadsWorking + 1
  /\ Goto(w, "checking")
  /\ UNCHANGED <<shouldStart, shouldExit, func, work>>

Check(w) ==
  /\ pc[w] = "checking"
  /\ Goto(w, IF shouldExit THEN "exited" ELSE "calling")
  /\ UNCHANGED <<sync, func, work>>

\* Mutant: the last worker to finish does not wake the main thread.
FinishSilently(w) ==
  /\ pc[w] = "finishing"
  /\ shouldStart' = FALSE /\ threadsWorking' = threadsWorking - 1
  /\ Goto(w, "waiting")
  /\ UNCHANGED <<shouldExit, func, work>>

\* No other worker is let in; back under the same lock to wait, as shouldStart
\* is now false. The last one to finish notifies the main thread.
FinishRound(w) ==
  /\ pc[w] = "finishing"
  /\ shouldStart' = FALSE /\ threadsWorking' = threadsWorking - 1
  /\ pc' = [pc EXCEPT ![w] = "waiting",
                      ![Main] = IF threadsWorking = 1 /\ @ = "waiting" THEN "woken" ELSE @]
  /\ UNCHANGED <<shouldExit, func, work>>

\* A condition variable may wake a sleeper that nobody notified.
SpuriousWake(t) ==
  /\ pc[t] = "waiting"
  /\ Goto(t, IF t = Main THEN "woken" ELSE "arriving")
  /\ UNCHANGED <<sync, func, work>>

----------------------------------------------------------------------------
(* The main thread: doInParallel and the destructor.                       *)

NotifyWorkers(l) ==
  pc' = [t \in Threads |-> IF t = Main THEN l
                           ELSE IF pc[t] = "waiting" THEN "arriving" ELSE pc[t]]

\* A new call: its locals, and funcToRun = std::move(work), outside the lock.
Assign ==
  /\ pc[Main] = "idle" /\ func < NumRounds
  /\ func' = func + 1 /\ idx' = 0
  /\ Goto(Main, "assigned")
  /\ UNCHANGED <<sync, ahead, claimed, count>>

StartRound ==
  /\ pc[Main] = "assigned"
  /\ shouldStart' = TRUE /\ Goto(Main, "started")
  /\ UNCHANGED <<shouldExit, threadsWorking, func, work>>

\* notify_all, then mainThreadFunc() if there is one, then funcToRun().
StartAll ==
  /\ pc[Main] = "started"
  /\ NotifyWorkers("calling")
  /\ UNCHANGED <<sync, func, work>>

\* Mutant: returns without waiting for the workers.
ReturnUnchecked ==
  /\ pc[Main] \in {"finishing", "woken"}
  /\ shouldStart' = (pc[Main] = "woken" /\ shouldStart)
  /\ Goto(Main, "idle")
  /\ UNCHANGED <<shouldExit, threadsWorking, func, work>>

\* shouldStart = false, and wait until nobody is working.
MainJoin ==
  /\ pc[Main] \in {"finishing", "woken"}
  /\ shouldStart' = (pc[Main] = "woken" /\ shouldStart)
  /\ Goto(Main, IF threadsWorking = 0 THEN "idle" ELSE "waiting")
  /\ UNCHANGED <<shouldExit, threadsWorking, func, work>>

\* ~PThreadPool: shouldExit outside the lock, shouldStart under it, notify, join.
SetExit ==
  /\ pc[Main] = "idle" /\ func = NumRounds
  /\ shouldExit' = TRUE /\ Goto(Main, "closing")
  /\ UNCHANGED <<shouldStart, threadsWorking, func, work>>

OpenAll ==
  /\ pc[Main] = "closing"
  /\ shouldStart' = TRUE /\ Goto(Main, "opening")
  /\ UNCHANGED <<shouldExit, threadsWorking, func, work>>

WakeAll ==
  /\ pc[Main] = "opening"
  /\ NotifyWorkers("joining")
  /\ UNCHANGED <<sync, func, work>>

JoinWorkers ==
  /\ pc[Main] = "joining" /\ \A w \in Workers : pc[w] = "exited"
  /\ Goto(Main, "gone") /\ UNCHANGED <<sync, func, work>>

MainStep ==
  \/ Assign \/ StartRound \/ StartAll \/ MainJoin
  \/ SetExit \/ OpenAll \/ WakeAll \/ JoinWorkers
  \/ DoWork(Main)

WorkerStep(w) == Sleep(w) \/ WakeUp(w) \/ Check(w) \/ FinishRound(w) \/ DoWork(w)

PoolDone == pc[Main] = "gone" /\ UNCHANGED vars

PoolNext ==
  \/ MainStep
  \/ \E w \in Workers : WorkerStep(w)
  \/ \E t \in Threads : SpuriousWake(t)
  \/ PoolDone

PoolSpec == PoolInit /\ [][PoolNext]_vars
\* Every thread is scheduled again and again; nobody promises spurious wakeups.
FairPoolSpec ==
  PoolSpec /\ WF_vars(MainStep) /\ \A w \in Workers : WF_vars(WorkerStep(w))

----------------------------------------------------------------------------
(* Properties                                                              *)

\* Main is between the assignment of funcToRun and the return of doInParallel.
InCall  == pc[Main] \in {"assigned", "started", "calling", "looping", "processing",
                         "finishing", "waiting", "woken"}
Running(t) == pc[t] \in {"calling", "looping", "processing"}

\* funcToRun captures locals of the call by reference. No worker runs it, or has
\* passed the test that leads there, while the main thread is outside the call
\* or still assigning funcToRun.
NobodyRunsDeadFrame ==
  \A w \in Workers :
    /\ Running(w) => InCall /\ pc[Main] # "assigned"
    /\ pc[w] = "checking" => shouldExit \/ (InCall /\ pc[Main] # "assigned")

\* What makes it so: a worker is counted from its wake-up to the end of its work,
\* it wakes up only while a call or the destructor lets it, and a call returns,
\* and the next one begins, only when nobody is counted.
Counted(w) == pc[w] \in {"checking", "calling", "looping", "processing", "finishing", "exited"}
Open       == pc[Main] \in {"started", "calling", "looping", "processing", "finishing"}
Closing    == pc[Main] \in {"opening", "joining", "gone"}
PoolInv ==
  /\ PoolTypeOK
  /\ threadsWorking = Cardinality({w \in Workers : Counted(w)})
  /\ shouldExit <=> pc[Main] \in {"closing", "opening", "joining", "gone"}
  /\ shouldStart => Open \/ Closing
  /\ \A w \in Workers :
       /\ Counted(w) => Open \/ pc[Main] \in {"waiting", "woken"} \/ Closing
       /\ Running(w) \/ pc[w] = "finishing" => ~Closing
       /\ pc[w] = "exited" => Closing

\* No block of bottoms is processed twice, and a thread that is processing one
\* is alone with it.
BlocksOnce ==
  /\ \A r \in Rounds : \A b \in BlocksOf[r] : count[r][b] <= 1
  /\ \A t \in Threads : pc[t] = "processing" =>
       /\ count[func][claimed[t]] = 0
       /\ \A u \in Threads \ {t} : pc[u] = "processing" => claimed[u] # claimed[t]

\* doInParallel returns only once all the work of the call has been completed.
Processed(r) == {b \in BlocksOf[r] : count[r][b] > 0}
Abstract == INSTANCE ForkJoin WITH
  call <- func, inside <- InCall, done <- IF func = 0 THEN {} ELSE Processed(func)
ImplementsForkJoin == Abstract!Spec

\* Every call returns and the destructor joins every worker, whoever was still
\* waking up from an earlier call when shouldStart was taken back.
PoolWindsDown == <>(pc[Main] = "gone")
=============================================================================
