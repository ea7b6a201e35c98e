----------------------------- MODULE SyncQueues -----------------------------
(***************************************************************************)
(* The queues of the pipeline at the level of their mutexes and condition  *)
(* variables: the inputBufferAlloc of each socket (a SynchronizedQueue,    *)
(* popN_wait by the bottom buffer creators, push by those that free a      *)
(* buffer) and the inputQueue (a SynchronizedMultiQueue, pushN by the      *)
(* creators, pop_wait_rotate or pop_wait_prefer by the processors); and    *)
(* the MutexLatch topsAreReady, on which the thread that starts the        *)
(* creators waits for the tops.                                            *)
(* PCoeffPipeline takes a blocked pop for a disabled action; this module   *)
(* shows that the notifications justify it.                                *)
(*                                                                         *)
(* What is done under a queue's mutex is one step: a test that fails puts  *)
(* the thread to sleep in the same step. A notification follows unlocked,  *)
(* as a step of its own. What happens to a job between the input queue and *)
(* the freeing of its buffer is left out.                                  *)
(***************************************************************************)
EXTENDS Integers, Sequences, Functions

CONSTANTS
  NumSockets,            \* NUMA_SLICE_COUNT
  Creators, Processors,
  SocketOf,              \* a creator's socket, a processor's preferred socket
  Rotates,               \* the processors that call pop_wait_rotate
  NumTops, Batch,        \* context.tops.size(), BUFFERS_PER_BATCH
  InitialAlloc           \* per socket: the buffers in its inputBufferAlloc

Sockets == 0 .. NumSockets - 1
Threads == Creators \cup Processors
Tops    == 0 .. NumTops - 1
BufsAt(s) == {InitialAlloc[s][i] : i \in DOMAIN InitialAlloc[s]}
Bufs    == UNION {BufsAt(s) : s \in Sockets}

ASSUME SyncAssumption ==
  /\ NumSockets \in Nat \ {0} /\ NumTops \in Nat /\ Batch \in Nat \ {0}
  /\ SocketOf \in [Threads -> Sockets] /\ Rotates \subseteq Processors
  /\ Creators \cap Processors = {}
\* Every buffer is cut from one socket's memory; a socket that has creators has
\* the buffers of at least one batch (120, and 8 or 64).
ASSUME AllocAssumption ==
  /\ InitialAlloc \in [Sockets -> Seq(Bufs)]
  /\ \A s, u \in Sockets : \A i \in DOMAIN InitialAlloc[s], j \in DOMAIN InitialAlloc[u] :
       InitialAlloc[s][i] = InitialAlloc[u][j] => s = u /\ i = j
  /\ \A c \in Creators : Batch <= Len(InitialAlloc[SocketOf[c]])

VARIABLES
  nextTop,   \* jobTopAtomic
  alloc,     \* per socket: inputBufferAlloc.queue
  input,     \* per socket: inputQueue.queues, jobs are <<top, buffer>>
  closed,    \* inputQueue.isClosed
  pc,        \* what each thread is doing
  want,      \* per creator: the tops it claimed, as a sequence
  hand,      \* per thread: the jobs or buffers it has
  last,      \* per processor: lastQueueIdx
  producer,  \* the thread that waits for the tops, starts and joins the creators, and closes
  latchCount, \* of topsAreReady
  loader     \* the thread that loads the tops, in initTops

latch == <<latchCount, loader>>
vars  == <<nextTop, alloc, input, closed, pc, want, hand, last, producer, latch>>

SyncTypeOK ==
  /\ nextTop \in Nat
  /\ alloc \in [Sockets -> Seq(Bufs)]
  /\ input \in [Sockets -> Seq(Tops \X Bufs)]
  /\ closed \in BOOLEAN
  /\ pc \in [Threads -> {"ready", "popping", "asleep", "holding", "notifying", "exited"}]
  /\ want \in [Creators -> Seq(Tops)]
  /\ hand \in [Threads -> Seq(Tops \X Bufs)]
  /\ last \in [Processors -> Sockets]
  /\ producer \in {"testing", "tested", "asleep", "joining", "notifying", "done"}
  /\ latchCount \in {0, 1} /\ loader \in {"loading", "done"}

SyncInit ==
  /\ nextTop = 0
  /\ alloc = InitialAlloc
  /\ input = [s \in Sockets |-> <<>>]
  /\ closed = FALSE
  /\ pc = [t \in Threads |-> IF t \in Creators THEN "ready" ELSE "popping"]
  /\ want = [c \in Creators |-> <<>>]
  /\ hand = [t \in Threads |-> <<>>]
  /\ last = [p \in Processors |-> SocketOf[p]]
  /\ producer = "testing" /\ latchCount = 1 /\ loader = "loading"

Goto(t, l) == pc' = [pc EXCEPT ![t] = l]
Take(q, n) == SubSeq(q, 1, n)
Drop(q, n) == SubSeq(q, n + 1, Len(q))

----------------------------------------------------------------------------
(* A bottom buffer creator.                                                *)

Grab(c) ==
  /\ pc[c] = "ready" /\ producer = "joining"
  /\ nextTop' = nextTop + Batch
  /\ LET n == IF nextTop + Batch <= NumTops THEN Batch ELSE NumTops - nextTop IN
     IF nextTop >= NumTops
     THEN Goto(c, "exited") /\ UNCHANGED want
     ELSE /\ Goto(c, "popping")
          /\ want' = [want EXCEPT ![c] = [i \in 1 .. n |-> nextTop + i - 1]]
  /\ UNCHANGED <<alloc, input, closed, hand, last, producer, latch>>

\* Mutant: the buffers are read but the head is not moved.
PopNothing(c) ==
  /\ c \in Creators /\ pc[c] = "popping"
  /\ LET s == SocketOf[c]  n == Len(want[c]) IN
     IF Len(alloc[s]) < n
     THEN Goto(c, "asleep") /\ UNCHANGED hand
     ELSE /\ Goto(c, "holding")
          /\ hand' = [hand EXCEPT ![c] = [i \in 1 .. n |-> <<want[c][i], alloc[s][i]>>]]
  /\ UNCHANGED <<nextTop, alloc, input, closed, want, last, producer, latch>>

\* inputBufferAlloc.popN_wait: all the buffers of the batch at once, or sleep.
PopBuffers(c) ==
  /\ c \in Creators /\ pc[c] = "popping"
  /\ LET s == SocketOf[c]  n == Len(want[c]) IN
     IF Len(alloc[s]) < n
     THEN Goto(c, "asleep") /\ UNCHANGED <<alloc, hand>>
     ELSE /\ Goto(c, "holding")
          /\ alloc' = [alloc EXCEPT ![s] = Drop(@, n)]
          /\ hand' = [hand EXCEPT ![c] = [i \in 1 .. n |-> <<want[c][i], alloc[s][i]>>]]
  /\ UNCHANGED <<nextTop, input, closed, want, last, producer, latch>>

\* generateBotBuffers ends with inputQueue.pushN(socket, jobs, numberOfTops).
PushJobs(c) ==
  /\ c \in Creators /\ pc[c] = "holding"
  /\ input' = [input EXCEPT ![SocketOf[c]] = @ \o hand[c]]
  /\ hand' = [hand EXCEPT ![c] = <<>>]
  /\ want' = [want EXCEPT ![c] = <<>>]
  /\ Goto(c, "notifying")
  /\ UNCHANGED <<nextTop, alloc, closed, last, producer, latch>>

\* Mutant: notify_one after pushN.
NotifyOneConsumer(c) ==
  /\ c \in Creators /\ pc[c] = "notifying"
  /\ \/ \E p \in Processors :
          pc[p] = "asleep" /\ pc' = [pc EXCEPT ![c] = "ready", ![p] = "popping"]
     \/ (\A p \in Processors : pc[p] # "asleep") /\ Goto(c, "ready")
  /\ UNCHANGED <<nextTop, alloc, input, closed, want, hand, last, producer, latch>>

WakeProcessors(c) ==
  /\ c \in Creators /\ pc[c] = "notifying"
  /\ pc' = [t \in Threads |-> IF t = c THEN "ready"
                              ELSE IF t \in Processors /\ pc[t] = "asleep" THEN "popping"
                              ELSE pc[t]]
  /\ UNCHANGED <<nextTop, alloc, input, closed, want, hand, last, producer, latch>>

----------------------------------------------------------------------------
(* A processor, and the freeing of its job's buffer.                       *)

\* The order in which a pop looks at the queues, counted downwards and around.
Probe(p, k) == IF p \in Rotates THEN (last[p] - 1 - k) % NumSockets
               ELSE (SocketOf[p] - k) % NumSockets

\* pop_wait_rotate, pop_wait_prefer: the first queue in that order that has a
\* job; if all are empty, the end when closed, and sleep otherwise.
PopJob(p) ==
  /\ p \in Processors /\ pc[p] = "popping"
  /\ \/ \E k \in Sockets :
          /\ input[Probe(p, k)] # <<>>
          /\ \A i \in 0 .. k - 1 : input[Probe(p, i)] = <<>>
          /\ hand' = [hand EXCEPT ![p] = <<Head(input[Probe(p, k)])>>]
          /\ input' = [input EXCEPT ![Probe(p, k)] = Tail(@)]
          /\ last' = [last EXCEPT ![p] = IF p \in Rotates THEN Probe(p, k) ELSE @]
          /\ Goto(p, "holding")
     \/ /\ \A s \in Sockets : input[s] = <<>>
        /\ Goto(p, IF closed THEN "exited" ELSE "asleep")
        /\ UNCHANGED <<hand, input, last>>
  /\ UNCHANGED <<nextTop, alloc, closed, want, producer, latch>>

HomeOf(b) == CHOOSE s \in Sockets : b \in BufsAt(s)

\* freeBuffersAfterValidation, freeBuf: push to the allocator of the buffer's home.
FreeBuffer(p) ==
  /\ p \in Processors /\ pc[p] = "holding"
  /\ alloc' = [alloc EXCEPT ![HomeOf(hand[p][1][2])] = Append(@, hand[p][1][2])]
  /\ Goto(p, "notifying")
  /\ UNCHANGED <<nextTop, input, closed, want, hand, last, producer, latch>>

SleepersAt(s) == {c \in Creators : SocketOf[c] = s /\ pc[c] = "asleep"}

\* Mutant: a push does not notify.
ForgetNotify(p) ==
  /\ p \in Processors /\ pc[p] = "notifying"
  /\ hand' = [hand EXCEPT ![p] = <<>>]
  /\ Goto(p, "popping")
  /\ UNCHANGED <<nextTop, alloc, input, closed, want, last, producer, latch>>

\* notify_one wakes any one of the sleeping creators of that socket.
WakeOneCreator(p) ==
  /\ p \in Processors /\ pc[p] = "notifying"
  /\ hand' = [hand EXCEPT ![p] = <<>>]
  /\ LET S == SleepersAt(HomeOf(hand[p][1][2])) IN
     \/ \E c \in S : pc' = [pc EXCEPT ![c] = "popping", ![p] = "popping"]
     \/ S = {} /\ Goto(p, "popping")
  /\ UNCHANGED <<nextTop, alloc, input, closed, want, last, producer, latch>>

----------------------------------------------------------------------------
(* The latch: initTops on one side, runBottomBufferCreator on the other.    *)

others == <<nextTop, alloc, input, closed, pc, want, hand, last>>

\* Latch::notify takes no mutex: latchCount -= 1, and notify_all by the one that
\* finds 0. (One step: a waiter that sleeps between the two is woken, as one that
\* slept before them; one that tests between them passes, as after them.)
NotifyTopsReady ==
  /\ loader = "loading" /\ loader' = "done"
  /\ latchCount' = latchCount - 1
  /\ producer' = IF latchCount = 1 /\ producer = "asleep" THEN "testing" ELSE producer
  /\ UNCHANGED others

\* MutexLatch::wait: nothing keeps a notification out between the test and the
\* wait. After it the creators are started.
TestLatch ==
  /\ producer = "testing"
  /\ producer' = IF latchCount > 0 THEN "tested" ELSE "joining"
  /\ UNCHANGED <<others, latch>>

SleepOnLatch ==
  /\ producer = "tested" /\ producer' = "asleep"
  /\ UNCHANGED <<others, latch>>

----------------------------------------------------------------------------
(* runBottomBufferCreator's end, and the scheduler.                        *)

Close ==
  /\ producer = "joining" /\ \A c \in Creators : pc[c] = "exited"
  /\ closed' = TRUE /\ producer' = "notifying"
  /\ UNCHANGED <<nextTop, alloc, input, pc, want, hand, last, latch>>

CloseNotifies ==
  /\ producer = "notifying" /\ producer' = "done"
  /\ pc' = [t \in Threads |-> IF t \in Processors /\ pc[t] = "asleep" THEN "popping" ELSE pc[t]]
  /\ UNCHANGED <<nextTop, alloc, input, closed, want, hand, last, latch>>

SpuriousWake(t) ==
  /\ pc[t] = "asleep" /\ Goto(t, "popping")
  /\ UNCHANGED <<nextTop, alloc, input, closed, want, hand, last, producer, latch>>

SpuriousStart == producer = "asleep" /\ producer' = "testing" /\ UNCHANGED <<others, latch>>

CreatorStep(c)   == Grab(c) \/ PopBuffers(c) \/ PushJobs(c) \/ WakeProcessors(c)
ProcessorStep(p) == PopJob(p) \/ FreeBuffer(p) \/ WakeOneCreator(p)
ProducerStep     == TestLatch \/ SleepOnLatch \/ Close \/ CloseNotifies

Finished == producer = "done" /\ loader = "done" /\ \A t \in Threads : pc[t] = "exited"

SyncNext ==
  \/ \E c \in Creators : CreatorStep(c)
  \/ \E p \in Processors : ProcessorStep(p)
  \/ ProducerStep \/ NotifyTopsReady
  \/ SpuriousStart \/ \E t \in Threads : SpuriousWake(t)
  \/ Finished /\ UNCHANGED vars

SyncSpec == SyncInit /\ [][SyncNext]_vars
\* The operating system schedules every thread; nobody promises spurious wakeups.
FairSyncSpec ==
  /\ SyncSpec /\ WF_vars(ProducerStep) /\ WF_vars(NotifyTopsReady)
  /\ \A c \in Creators : WF_vars(CreatorStep(c))
  /\ \A p \in Processors : WF_vars(ProcessorStep(p))

----------------------------------------------------------------------------
(* Properties                                                              *)

\* The buffers in a place: free in an allocator, with a queued job, or in the hands
\* of a thread that has not given them back.
Places     == ({"free", "queued"} \X Sockets) \cup ({"held"} \X Threads)
Carried(q) == [i \in DOMAIN q |-> q[i][2]]
InPlace(x) ==
  CASE x[1] = "free"   -> alloc[x[2]]
    [] x[1] = "queued" -> Carried(input[x[2]])
    [] x[1] = "held"   -> IF x[2] \in Creators \/ pc[x[2]] = "holding"
                          THEN Carried(hand[x[2]]) ELSE <<>>

\* Whoever pops and pushes in between, a buffer is in one place, and there once:
\* it carries one top at a time.
BuffersConserved ==
  /\ SyncTypeOK
  /\ \A b \in Bufs : \E x \in Places : b \in Range(InPlace(x))
  /\ \A x, y \in Places : \A i \in DOMAIN InPlace(x), j \in DOMAIN InPlace(y) :
       InPlace(x)[i] = InPlace(y)[j] => x = y /\ i = j

\* While a creator sleeps, somebody is still to come who wakes it: a creator of that
\* socket about to look or with buffers that will be pushed again, a notification
\* for that socket not yet sent, or a buffer of that socket that is in use.
SleepersAreWoken ==
  \A c \in Creators : pc[c] = "asleep" =>
    \/ \E d \in Creators : SocketOf[d] = SocketOf[c] /\ pc[d] \in {"popping", "holding"}
    \/ \E p \in Processors : pc[p] = "notifying" /\ HomeOf(hand[p][1][2]) = SocketOf[c]
    \/ ~(BufsAt(SocketOf[c]) \subseteq Range(alloc[SocketOf[c]]))

\* While a processor sleeps beside a job or a closed queue, a notification is due.
NoJobBesideSleepers ==
  \A p \in Processors :
    pc[p] = "asleep" /\ (closed \/ \E s \in Sockets : input[s] # <<>>) =>
      \/ producer = "notifying"
      \/ \E c \in Creators : pc[c] = "notifying"

\* The loop drains: every top is claimed and passed on, every thread returns, and
\* all buffers are back where they came from. There is one exception: the only
\* notification of topsAreReady came between the producer's test of latchCount
\* and its wait, and it sleeps for ever beside an open latch.
Missed == producer = "asleep" /\ latchCount = 0 /\ loader = "done"
Drained ==
  /\ Finished /\ nextTop >= NumTops
  /\ \A s \in Sockets :
       input[s] = <<>> /\ {alloc[s][i] : i \in DOMAIN alloc[s]} = BufsAt(s)
LoopDrains == <>[]Missed \/ <>Drained
=============================================================================
