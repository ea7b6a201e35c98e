-------------------------- MODULE ThreadPoolProofs --------------------------
(***************************************************************************)
(* For every number of workers, calls and blocks: the pool's own invariant *)
(* is inductive, no worker is ever inside the frame of a call that has     *)
(* returned, no block of a call is processed twice, and a call returns     *)
(* only when all its blocks are processed: the pool implements ForkJoin.   *)
(***************************************************************************)
EXTENDS ThreadPool, FiniteSetTheorems, TLAPS

CountedWorkers == {w \in Workers : Counted(w)}

\* count is a function of the calls; PoolTypeOK only speaks of its values.
CountShape == count = [r \in Rounds |-> count[r]]

\* A worker that becomes counted raises the number of counted workers by one.
LEMMA CountIn ==
  ASSUME NEW w \in Workers, ~Counted(w), Counted(w)',
         \A u \in Workers \ {w} : Counted(u)' <=> Counted(u)
  PROVE  Cardinality(CountedWorkers') = Cardinality(CountedWorkers) + 1
<1>1. CountedWorkers' = CountedWorkers \cup {w}  BY DEF CountedWorkers
<1>2. w \notin CountedWorkers  BY DEF CountedWorkers
<1>3. IsFiniteSet(CountedWorkers)
      BY WorkersAssumption, FS_Subset DEF CountedWorkers
<1> QED BY <1>1, <1>2, <1>3, FS_AddElement

\* One that is no longer counted lowers it by one.
LEMMA CountOut ==
  ASSUME NEW w \in Workers, Counted(w), ~Counted(w)',
         \A u \in Workers \ {w} : Counted(u)' <=> Counted(u)
  PROVE  Cardinality(CountedWorkers') = Cardinality(CountedWorkers) - 1
<1>1. CountedWorkers' = CountedWorkers \ {w}  BY DEF CountedWorkers
<1>2. w \in CountedWorkers  BY DEF CountedWorkers
<1>3. IsFiniteSet(CountedWorkers)
      BY WorkersAssumption, FS_Subset DEF CountedWorkers
<1> QED BY <1>1, <1>2, <1>3, FS_RemoveElement

\* When the number of counted workers is zero, nobody is counted.
LEMMA NobodyCounted ==
  ASSUME Cardinality(CountedWorkers) = 0, NEW w \in Workers
  PROVE  ~Counted(w)
<1>1. IsFiniteSet(CountedWorkers)
      BY WorkersAssumption, FS_Subset DEF CountedWorkers
<1>2. CountedWorkers = {}  BY <1>1, FS_EmptySet
<1> QED BY <1>2 DEF CountedWorkers

LEMMA PoolInvInit == PoolInit => PoolInv /\ CountShape
<1> SUFFICES ASSUME PoolInit PROVE PoolInv /\ CountShape OBVIOUS
<1>a. pc \in [Threads -> WorkerPcs \cup MainPcs] /\ pc[Main] \in MainPcs
      BY DEF PoolInit, Threads, WorkerPcs, MainPcs
<1>b. \A w \in Workers : pc[w] \in WorkerPcs
      BY WorkersAssumption DEF PoolInit, Threads, WorkerPcs
<1>c. \A r \in Rounds : count[r] \in [BlocksOf[r] -> Nat]
      BY DEF PoolInit
<1>d. func \in 0 .. NumRounds
      BY RoundsAssumption DEF PoolInit
<1>e. shouldStart \in BOOLEAN /\ shouldExit \in BOOLEAN
      BY Zenon DEF PoolInit
<1>g. threadsWorking \in Int /\ idx \in Nat
      BY DEF PoolInit
<1>f. ahead \in [Threads -> Nat] /\ claimed \in [Threads -> Nat]
      BY DEF PoolInit
<1>1. PoolTypeOK
      BY <1>a, <1>b, <1>c, <1>d, <1>e, <1>f, <1>g DEF PoolTypeOK
<1>2. CountedWorkers = {}
      BY WorkersAssumption DEF PoolInit, CountedWorkers, Counted, Threads
<1>3. threadsWorking = Cardinality(CountedWorkers)
      BY <1>2, FS_EmptySet DEF PoolInit
<1>4. pc[Main] = "idle" /\ (\A w \in Workers : pc[w] = "arriving")
      BY WorkersAssumption DEF PoolInit, Threads
<1> QED BY <1>1, <1>3, <1>4
        DEF PoolInit, PoolInv, CountShape, CountedWorkers, Counted, Running, Open, Closing

(***************************************************************************)
(* Types.                                                                  *)
(***************************************************************************)
PcTyped == /\ pc \in [Threads -> WorkerPcs \cup MainPcs]
           /\ \A w \in Workers : pc[w] \in WorkerPcs
           /\ pc[Main] \in MainPcs

\* A step of one thread to one of its own labels keeps the labels typed.
LEMMA GotoTyped ==
  ASSUME PcTyped, NEW t \in Threads, NEW l, Goto(t, l),
         t = Main => l \in MainPcs, t # Main => l \in WorkerPcs
  PROVE  PcTyped'
<1>1. pc' = [pc EXCEPT ![t] = l]  BY DEF Goto
<1>2. Main \in Threads /\ Main \notin Workers /\ Workers \subseteq Threads
      BY WorkersAssumption DEF Threads
<1>3. l \in WorkerPcs \cup MainPcs  BY Zenon
<1>4. pc' \in [Threads -> WorkerPcs \cup MainPcs]
      BY <1>1, <1>3 DEF PcTyped
<1>5. ASSUME NEW w \in Workers PROVE pc'[w] \in WorkerPcs
      BY <1>1, <1>2 DEF PcTyped
<1>6. pc'[Main] \in MainPcs
      BY <1>1, <1>2 DEF PcTyped
<1> QED BY <1>4, <1>5, <1>6 DEF PcTyped

LEMMA PcStep == PcTyped /\ [PoolNext]_vars => PcTyped'
<1> SUFFICES ASSUME PcTyped, [PoolNext]_vars PROVE PcTyped'
    OBVIOUS
<1>0. Main \in Threads /\ Main \notin Workers /\ Workers \subseteq Threads
      BY WorkersAssumption DEF Threads
<1>1. ASSUME NEW t \in Threads, DoWork(t) PROVE PcTyped'
      BY <1>1, GotoTyped
      DEF DoWork, FirstFetch, ClaimBlock, ProcessBlock, WorkerPcs, MainPcs
<1>2. ASSUME NEW w \in Workers, Sleep(w) \/ WakeUp(w) \/ Check(w) PROVE PcTyped'
      BY <1>0, <1>2, GotoTyped DEF Sleep, WakeUp, Check, WorkerPcs
<1>3. ASSUME NEW w \in Workers, FinishRound(w) PROVE PcTyped'
  <2>1. pc' = [pc EXCEPT ![w] = "waiting",
                         ![Main] = IF threadsWorking = 1 /\ @ = "waiting" THEN "woken" ELSE @]
        BY <1>3 DEF FinishRound
  <2>2. PICK l \in {"woken", pc[Main]} : pc' = [pc EXCEPT ![w] = "waiting", ![Main] = l]
        BY <2>1, <1>0 DEF PcTyped
  <2> QED BY <2>2, <1>0 DEF PcTyped, WorkerPcs, MainPcs
<1>4. ASSUME NEW t \in Threads, SpuriousWake(t) PROVE PcTyped'
      BY <1>4, GotoTyped DEF SpuriousWake, WorkerPcs, MainPcs
<1>5. ASSUME Assign \/ StartRound \/ MainJoin \/ SetExit \/ OpenAll \/ JoinWorkers
      PROVE  PcTyped'
      BY <1>0, <1>5, GotoTyped
      DEF Assign, StartRound, MainJoin, SetExit, OpenAll, JoinWorkers, MainPcs
<1>6. ASSUME StartAll \/ WakeAll PROVE PcTyped'
  <2>1. PICK l \in {"calling", "joining"} : NotifyWorkers(l)
        BY <1>6 DEF StartAll, WakeAll
  <2> QED BY <2>1, <1>0 DEF NotifyWorkers, PcTyped, WorkerPcs, MainPcs
<1>7. CASE PoolDone \/ UNCHANGED vars
      BY <1>7 DEF PoolDone, vars, PcTyped
<1> QED BY <1>0, <1>1, <1>2, <1>3, <1>4, <1>5, <1>6, <1>7
        DEF PoolNext, MainStep, WorkerStep

DataTyped ==
  /\ threadsWorking \in Int /\ func \in 0 .. NumRounds /\ idx \in Nat
  /\ ahead \in [Threads -> Nat] /\ claimed \in [Threads -> Nat]
CountTyped == CountShape /\ \A r \in Rounds : count[r] \in [BlocksOf[r] -> Nat]
FlagsTyped == shouldStart \in BOOLEAN /\ shouldExit \in BOOLEAN

LEMMA TypesAreThese ==
  PoolTypeOK <=> PcTyped /\ DataTyped /\ FlagsTyped
                 /\ \A r \in Rounds : count[r] \in [BlocksOf[r] -> Nat]
BY Zenon DEF PoolTypeOK, PcTyped, DataTyped, FlagsTyped

LEMMA DataStep == DataTyped /\ [PoolNext]_vars => DataTyped'
<1> SUFFICES ASSUME DataTyped, [PoolNext]_vars PROVE DataTyped'
    OBVIOUS
<1>1. ASSUME NEW t \in Threads, DoWork(t) PROVE DataTyped'
      BY <1>1 DEF DoWork, FirstFetch, ClaimBlock, ProcessBlock, sync, DataTyped
<1>2. ASSUME NEW w \in Workers, Sleep(w) \/ WakeUp(w) \/ Check(w) \/ FinishRound(w)
      PROVE  DataTyped'
      BY <1>2 DEF Sleep, WakeUp, Check, FinishRound, sync, work, DataTyped
<1>3. CASE Assign
      BY <1>3, RoundsAssumption DEF Assign, sync, DataTyped
<1>4. ASSUME \/ StartRound \/ StartAll \/ MainJoin \/ SetExit \/ OpenAll \/ WakeAll
             \/ JoinWorkers \/ PoolDone \/ UNCHANGED vars
             \/ \E t \in Threads : SpuriousWake(t)
      PROVE  DataTyped'
      BY <1>4 DEF StartRound, StartAll, MainJoin, SetExit, OpenAll, WakeAll, JoinWorkers,
                  PoolDone, SpuriousWake, vars, sync, work, DataTyped
<1> QED BY <1>1, <1>2, <1>3, <1>4 DEF PoolNext, MainStep, WorkerStep, Threads

\* Counting one of the blocks keeps every count a number.
LEMMA BumpTyped ==
  ASSUME NEW S, NEW f \in [S -> Nat], NEW x
  PROVE  [f EXCEPT ![x] = @ + 1] \in [S -> Nat]
<1>1. [f EXCEPT ![x] = @ + 1] = [y \in S |-> IF y = x THEN f[y] + 1 ELSE f[y]]
      OBVIOUS
<1>2. \A y \in S : f[y] \in Nat /\ f[y] + 1 \in Nat
      OBVIOUS
<1>3. \A y \in S : (IF y = x THEN f[y] + 1 ELSE f[y]) \in Nat
      BY Zenon, <1>2
<1> QED BY Zenon, <1>1, <1>3

LEMMA CountStep == CountTyped /\ [PoolNext]_vars => CountTyped'
<1> SUFFICES ASSUME CountTyped, [PoolNext]_vars PROVE CountTyped'
    OBVIOUS
<1>1. ASSUME NEW t \in Threads, ProcessBlock(t) PROVE CountTyped'
  <2>1. count' = [count EXCEPT ![func] = [count[func] EXCEPT ![claimed[t]] = @ + 1]]
        BY <1>1 DEF ProcessBlock
  <2>2. CountShape'
        BY <2>1 DEF CountTyped, CountShape
  <2>3. ASSUME NEW r \in Rounds PROVE count'[r] \in [BlocksOf[r] -> Nat]
    <3>1. count[r] \in [BlocksOf[r] -> Nat] /\ r \in DOMAIN count
          BY DEF CountTyped, CountShape
    <3>2. CASE r = func
      <4>1. count'[r] = [count[r] EXCEPT ![claimed[t]] = @ + 1]
            BY <2>1, <3>1, <3>2
      <4> QED BY <3>1, <4>1, BumpTyped
    <3>3. CASE r # func
          BY <2>1, <3>1, <3>3
    <3> QED BY <3>2, <3>3
  <2> QED BY <2>2, <2>3 DEF CountTyped
<1>2. ASSUME UNCHANGED count PROVE CountTyped'
      BY <1>2 DEF CountTyped, CountShape
<1>3. \/ \E t \in Threads : ProcessBlock(t)
      \/ UNCHANGED count
  <2>1. ASSUME NEW t \in Threads, FirstFetch(t) \/ ClaimBlock(t) \/ SpuriousWake(t)
        PROVE  UNCHANGED count
        BY <2>1 DEF FirstFetch, ClaimBlock, SpuriousWake, work
  <2>2. ASSUME NEW w \in Workers, Sleep(w) \/ WakeUp(w) \/ Check(w) \/ FinishRound(w)
        PROVE  UNCHANGED count
        BY <2>2 DEF Sleep, WakeUp, Check, FinishRound, work
  <2>3. ASSUME \/ Assign \/ StartRound \/ StartAll \/ MainJoin \/ SetExit \/ OpenAll \/ WakeAll
               \/ JoinWorkers \/ PoolDone \/ UNCHANGED vars
        PROVE  UNCHANGED count
        BY <2>3 DEF Assign, StartRound, StartAll, MainJoin, SetExit, OpenAll, WakeAll,
                    JoinWorkers, PoolDone, vars, work
  <2> QED BY <2>1, <2>2, <2>3 DEF PoolNext, MainStep, WorkerStep, DoWork, Threads
<1> QED BY <1>1, <1>2, <1>3

\* Every assignment to a flag is a constant, or a conjunction.
LEMMA FlagsStep == FlagsTyped /\ [PoolNext]_vars => FlagsTyped'
<1> SUFFICES ASSUME FlagsTyped, [PoolNext]_vars PROVE FlagsTyped'
    OBVIOUS
<1>1. \/ shouldStart' = shouldStart \/ shouldStart' = TRUE \/ shouldStart' = FALSE
      \/ shouldStart' = (pc[Main] = "woken" /\ shouldStart)
  <2>1. ASSUME NEW t \in Threads, DoWork(t) \/ SpuriousWake(t)
        PROVE  shouldStart' = shouldStart
        BY <2>1 DEF DoWork, FirstFetch, ClaimBlock, ProcessBlock, SpuriousWake, sync
  <2>2. ASSUME NEW w \in Workers, Sleep(w) \/ WakeUp(w) \/ Check(w) \/ FinishRound(w)
        PROVE  shouldStart' = shouldStart \/ shouldStart' = FALSE
        BY Zenon, <2>2 DEF Sleep, WakeUp, Check, FinishRound, sync
  <2>3. ASSUME \/ Assign \/ StartAll \/ SetExit \/ WakeAll \/ JoinWorkers \/ PoolDone
               \/ UNCHANGED vars
        PROVE  shouldStart' = shouldStart
        BY <2>3 DEF Assign, StartAll, SetExit, WakeAll, JoinWorkers, PoolDone, vars, sync
  <2>4. ASSUME StartRound \/ OpenAll PROVE shouldStart' = TRUE
        BY Zenon, <2>4 DEF StartRound, OpenAll
  <2>5. ASSUME MainJoin PROVE shouldStart' = (pc[Main] = "woken" /\ shouldStart)
        BY Zenon, <2>5 DEF MainJoin
  <2> QED BY Zenon, <2>1, <2>2, <2>3, <2>4, <2>5 DEF PoolNext, MainStep, WorkerStep, Threads
<1>2. shouldExit' = shouldExit \/ shouldExit' = TRUE
  <2>1. ASSUME NEW t \in Threads, DoWork(t) \/ SpuriousWake(t)
        PROVE  shouldExit' = shouldExit
        BY <2>1 DEF DoWork, FirstFetch, ClaimBlock, ProcessBlock, SpuriousWake, sync
  <2>2. ASSUME NEW w \in Workers, Sleep(w) \/ WakeUp(w) \/ Check(w) \/ FinishRound(w)
        PROVE  shouldExit' = shouldExit
        BY <2>2 DEF Sleep, WakeUp, Check, FinishRound, sync
  <2>3. ASSUME \/ Assign \/ StartRound \/ StartAll \/ MainJoin \/ OpenAll \/ WakeAll
               \/ JoinWorkers \/ PoolDone \/ UNCHANGED vars
        PROVE  shouldExit' = shouldExit
        BY <2>3 DEF Assign, StartRound, StartAll, MainJoin, OpenAll, WakeAll, JoinWorkers,
                    PoolDone, vars, sync
  <2>4. ASSUME SetExit PROVE shouldExit' = TRUE
        BY Zenon, <2>4 DEF SetExit
  <2> QED BY Zenon, <2>1, <2>2, <2>3, <2>4 DEF PoolNext, MainStep, WorkerStep, Threads
<1> QED BY Zenon, <1>1, <1>2 DEF FlagsTyped

(***************************************************************************)
(* The phases of a call, and who is counted in them.                       *)
(***************************************************************************)
CountExact == threadsWorking = Cardinality(CountedWorkers)
Phases ==
  /\ shouldExit <=> pc[Main] \in {"closing", "opening", "joining", "gone"}
  /\ shouldStart => Open \/ Closing
  /\ \A w \in Workers :
       /\ Counted(w) => Open \/ pc[Main] \in {"waiting", "woken"} \/ Closing
       /\ Running(w) \/ pc[w] = "finishing" => ~Closing
       /\ pc[w] = "exited" => Closing

LEMMA PoolInvIs == PoolInv <=> PoolTypeOK /\ CountExact /\ Phases
BY DEF PoolInv, CountExact, Phases, CountedWorkers

\* When the workers' labels keep who is counted, the count stays exact.
LEMMA SameCount ==
  ASSUME CountExact, threadsWorking' = threadsWorking,
         \A w \in Workers : Counted(w)' <=> Counted(w)
  PROVE  CountExact'
<1>1. CountedWorkers' = CountedWorkers  BY DEF CountedWorkers
<1> QED BY <1>1 DEF CountExact

\* The labels after a step of one thread.
LEMMA GotoLabels ==
  ASSUME PcTyped, NEW t \in Threads, NEW l, Goto(t, l)
  PROVE  pc'[t] = l /\ \A u \in Threads \ {t} : pc'[u] = pc[u]
BY DEF Goto, PcTyped

LEMMA CountExactStep ==
  PcTyped /\ DataTyped /\ CountExact /\ [PoolNext]_vars => CountExact'
<1> SUFFICES ASSUME PcTyped, DataTyped, CountExact, [PoolNext]_vars PROVE CountExact'
    OBVIOUS
<1>0. Main \in Threads /\ Main \notin Workers /\ Workers \subseteq Threads
      BY WorkersAssumption DEF Threads
<1>1. ASSUME NEW t \in Threads, DoWork(t) PROVE CountExact'
  <2>1. PICK l \in {"looping", "finishing", "processing"} : Goto(t, l)
        BY <1>1 DEF DoWork, FirstFetch, ClaimBlock, ProcessBlock
  <2>2. pc[t] \in {"calling", "looping", "processing"} /\ threadsWorking' = threadsWorking
        BY <1>1 DEF DoWork, FirstFetch, ClaimBlock, ProcessBlock, sync
  <2>3. pc'[t] = l /\ \A u \in Threads \ {t} : pc'[u] = pc[u]
        BY <2>1, GotoLabels
  <2>4. ASSUME NEW w \in Workers PROVE Counted(w)' <=> Counted(w)
        BY <2>2, <2>3, <1>0 DEF Counted
  <2> QED BY <2>2, <2>4, SameCount
<1>2. ASSUME NEW w \in Workers, Sleep(w) \/ Check(w) PROVE CountExact'
  <2>1. PICK l \in {"waiting", "exited", "calling"} :
          Goto(w, l) /\ (l = "waiting" <=> pc[w] = "arriving")
        BY <1>2 DEF Sleep, Check
  <2>2. pc[w] \in {"arriving", "checking"} /\ threadsWorking' = threadsWorking
        BY <1>2 DEF Sleep, Check, sync
  <2>3. pc'[w] = l /\ \A u \in Threads \ {w} : pc'[u] = pc[u]
        BY <2>1, <1>0, GotoLabels
  <2>4. ASSUME NEW u \in Workers PROVE Counted(u)' <=> Counted(u)
        BY <2>1, <2>2, <2>3, <1>0 DEF Counted
  <2> QED BY <2>2, <2>4, SameCount
<1>3. ASSUME NEW w \in Workers, WakeUp(w) PROVE CountExact'
  <2>1. pc[w] = "arriving" /\ threadsWorking' = threadsWorking + 1 /\ Goto(w, "checking")
        BY <1>3 DEF WakeUp
  <2>2. pc'[w] = "checking" /\ \A u \in Threads \ {w} : pc'[u] = pc[u]
        BY <2>1, <1>0, GotoLabels
  <2>3. ~Counted(w) /\ Counted(w)' /\ \A u \in Workers \ {w} : Counted(u)' <=> Counted(u)
        BY <2>1, <2>2, <1>0 DEF Counted
  <2> QED BY <2>1, <2>3, CountIn DEF CountExact
<1>4. ASSUME NEW w \in Workers, FinishRound(w) PROVE CountExact'
  <2>1. pc[w] = "finishing" /\ threadsWorking' = threadsWorking - 1
        BY <1>4 DEF FinishRound
  <2>2. pc'[w] = "waiting" /\ \A u \in Workers \ {w} : pc'[u] = pc[u]
        BY <1>4, <1>0 DEF FinishRound, PcTyped
  <2>3. Counted(w) /\ ~Counted(w)' /\ \A u \in Workers \ {w} : Counted(u)' <=> Counted(u)
        BY <2>1, <2>2 DEF Counted
  <2> QED BY <2>1, <2>3, CountOut DEF CountExact
<1>5. ASSUME NEW t \in Threads, SpuriousWake(t) PROVE CountExact'
  <2>1. pc[t] = "waiting" /\ threadsWorking' = threadsWorking
        BY <1>5 DEF SpuriousWake, sync
  <2>2. pc'[t] = (IF t = Main THEN "woken" ELSE "arriving")
        /\ \A u \in Threads \ {t} : pc'[u] = pc[u]
        BY <1>5, GotoLabels DEF SpuriousWake
  <2>3. ASSUME NEW w \in Workers PROVE Counted(w)' <=> Counted(w)
        BY <2>1, <2>2, <1>0 DEF Counted
  <2> QED BY <2>1, <2>3, SameCount
<1>6. ASSUME Assign \/ StartRound \/ MainJoin \/ SetExit \/ OpenAll \/ JoinWorkers
      PROVE  CountExact'
  <2>1. threadsWorking' = threadsWorking
        BY <1>6 DEF Assign, StartRound, MainJoin, SetExit, OpenAll, JoinWorkers, sync
  <2>2. PICK l : Goto(Main, l)
        BY <1>6 DEF Assign, StartRound, MainJoin, SetExit, OpenAll, JoinWorkers
  <2>3. ASSUME NEW w \in Workers PROVE Counted(w)' <=> Counted(w)
        BY <2>2, <1>0, GotoLabels DEF Counted
  <2> QED BY <2>1, <2>3, SameCount
<1>7. ASSUME StartAll \/ WakeAll PROVE CountExact'
  <2>1. threadsWorking' = threadsWorking
        BY <1>7 DEF StartAll, WakeAll, sync
  <2>2. PICK l : NotifyWorkers(l)
        BY <1>7 DEF StartAll, WakeAll
  <2>3. ASSUME NEW w \in Workers PROVE Counted(w)' <=> Counted(w)
        BY <2>2, <1>0 DEF NotifyWorkers, Counted
  <2> QED BY <2>1, <2>3, SameCount
<1>8. CASE PoolDone \/ UNCHANGED vars
  <2>1. threadsWorking' = threadsWorking /\ pc' = pc
        BY <1>8 DEF PoolDone, vars, sync
  <2>2. ASSUME NEW w \in Workers PROVE Counted(w)' <=> Counted(w)
        BY <2>1 DEF Counted
  <2> QED BY <2>1, <2>2, SameCount
<1> QED BY <1>0, <1>1, <1>2, <1>3, <1>4, <1>5, <1>6, <1>7, <1>8
        DEF PoolNext, MainStep, WorkerStep

MainPhase(l) == <<l \in {"started", "calling", "looping", "processing", "finishing"},
                  l \in {"waiting", "woken"}, l \in {"opening", "joining", "gone"},
                  l \in {"closing", "opening", "joining", "gone"}>>

\* A worker's step at which the main thread keeps its phase.
LEMMA PhasesKept ==
  ASSUME Phases, shouldExit' = shouldExit, shouldStart' = shouldStart \/ shouldStart' = FALSE,
         MainPhase(pc[Main])' = MainPhase(pc[Main]), NEW w \in Workers,
         \A u \in Workers \ {w} : pc'[u] = pc[u],
         Counted(w)' => Open \/ pc[Main] \in {"waiting", "woken"} \/ Closing,
         Running(w)' \/ pc'[w] = "finishing" => ~Closing,
         pc'[w] = "exited" => Closing
  PROVE  Phases'
<1>1. /\ Open' <=> Open
      /\ Closing' <=> Closing
      /\ pc'[Main] \in {"waiting", "woken"} <=> pc[Main] \in {"waiting", "woken"}
      /\ pc'[Main] \in {"closing", "opening", "joining", "gone"}
           <=> pc[Main] \in {"closing", "opening", "joining", "gone"}
      BY DEF MainPhase, Open, Closing
<1>2. shouldExit' <=> pc'[Main] \in {"closing", "opening", "joining", "gone"}
      BY Zenon, <1>1 DEF Phases
<1>3. shouldStart' => Open' \/ Closing'
      BY Zenon, <1>1 DEF Phases
<1>4. ASSUME NEW u \in Workers
      PROVE  /\ Counted(u)' => Open' \/ pc'[Main] \in {"waiting", "woken"} \/ Closing'
             /\ Running(u)' \/ pc'[u] = "finishing" => ~Closing'
             /\ pc'[u] = "exited" => Closing'
  <2>1. CASE u = w
        BY Zenon, <2>1, <1>1
  <2>2. CASE u # w
    <3>1. pc'[u] = pc[u]  BY <2>2
    <3>2. (Counted(u)' <=> Counted(u)) /\ (Running(u)' <=> Running(u))
          BY <3>1 DEF Counted, Running
    <3> QED BY Zenon, <3>1, <3>2, <1>1 DEF Phases
  <2> QED BY <2>1, <2>2
<1> QED BY Zenon, <1>2, <1>3, <1>4 DEF Phases

LEMMA PhasesStep ==
  PcTyped /\ DataTyped /\ CountExact /\ Phases /\ [PoolNext]_vars => Phases'
<1> SUFFICES ASSUME PcTyped, DataTyped, CountExact, Phases, [PoolNext]_vars PROVE Phases'
    OBVIOUS
<1>0. Main \in Threads /\ Main \notin Workers /\ Workers \subseteq Threads
      BY WorkersAssumption DEF Threads
<1>1. ASSUME NEW w \in Workers, DoWork(w) PROVE Phases'
  <2>1. PICK l \in {"looping", "finishing", "processing"} : Goto(w, l)
        BY <1>1 DEF DoWork, FirstFetch, ClaimBlock, ProcessBlock
  <2>2. Running(w) /\ Counted(w)
        BY <1>1 DEF DoWork, FirstFetch, ClaimBlock, ProcessBlock, Running, Counted
  <2>3. shouldExit' = shouldExit /\ shouldStart' = shouldStart
        BY <1>1 DEF DoWork, FirstFetch, ClaimBlock, ProcessBlock, sync
  <2>4. pc'[w] = l /\ (\A u \in Threads \ {w} : pc'[u] = pc[u])
        BY <2>1, <1>0, GotoLabels
  <2>5. pc'[Main] = pc[Main] /\ \A u \in Workers \ {w} : pc'[u] = pc[u]
        BY <2>4, <1>0
  <2>6. pc'[w] # "exited"  BY <2>4
  <2> QED BY <2>2, <2>3, <2>5, <2>6, PhasesKept DEF Phases, MainPhase
<1>2. ASSUME NEW w \in Workers, Sleep(w) \/ WakeUp(w) \/ Check(w) PROVE Phases'
  <2>1. shouldExit' = shouldExit /\ shouldStart' = shouldStart
        BY <1>2 DEF Sleep, WakeUp, Check, sync
  <2>2. PICK l \in {"waiting", "checking", "exited", "calling"} :
          /\ Goto(w, l)
          /\ l = "checking" => pc[w] = "arriving" /\ shouldStart
          /\ l = "exited" => pc[w] = "checking" /\ shouldExit
          /\ l = "calling" => pc[w] = "checking" /\ ~shouldExit
        BY <1>2 DEF Sleep, WakeUp, Check
  <2>3. pc'[w] = l /\ (\A u \in Threads \ {w} : pc'[u] = pc[u])
        BY <2>2, <1>0, GotoLabels
  <2>4. pc'[Main] = pc[Main] /\ \A u \in Workers \ {w} : pc'[u] = pc[u]
        BY <2>3, <1>0
  <2>5. l \in {"exited", "calling"} => Counted(w)
        BY <2>2 DEF Counted
  <2>6. Closing => shouldExit
        BY DEF Phases, Closing
  <2>7. Counted(w) => Open \/ pc[Main] \in {"waiting", "woken"} \/ Closing
        BY DEF Phases
  <2>8. l = "checking" => Open \/ Closing
        BY <2>2 DEF Phases
  <2>9. l = "exited" => Closing
        BY <2>2, <2>5, <2>7 DEF Phases, Open, Closing
  <2>10. Counted(w)' => Open \/ pc[Main] \in {"waiting", "woken"} \/ Closing
        BY <2>3, <2>5, <2>7, <2>8 DEF Counted
  <2>11. Running(w)' \/ pc'[w] = "finishing" => ~Closing
        BY <2>2, <2>3, <2>6 DEF Running
  <2>12. MainPhase(pc[Main])' = MainPhase(pc[Main])
        BY <2>4 DEF MainPhase
  <2> QED BY <2>1, <2>3, <2>4, <2>9, <2>10, <2>11, <2>12, PhasesKept
<1>3. ASSUME NEW w \in Workers, FinishRound(w) PROVE Phases'
  <2>1. shouldExit' = shouldExit /\ shouldStart' = FALSE
        BY Zenon, <1>3 DEF FinishRound
  <2>2. pc'[w] = "waiting" /\ (\A u \in Workers \ {w} : pc'[u] = pc[u])
        /\ (pc'[Main] = pc[Main] \/ (pc[Main] = "waiting" /\ pc'[Main] = "woken"))
        BY <1>3, <1>0 DEF FinishRound, PcTyped
  <2>3. MainPhase(pc[Main])' = MainPhase(pc[Main])
        BY <2>2 DEF MainPhase
  <2>4. ~Counted(w)' /\ ~Running(w)' /\ pc'[w] \notin {"finishing", "exited"}
        BY <2>2 DEF Counted, Running
  <2> QED BY <2>1, <2>2, <2>3, <2>4, PhasesKept
<1>4. ASSUME NEW w \in Workers, SpuriousWake(w) PROVE Phases'
  <2>1. shouldExit' = shouldExit /\ shouldStart' = shouldStart
        BY <1>4 DEF SpuriousWake, sync
  <2>2. pc'[w] = "arriving" /\ (\A u \in Threads \ {w} : pc'[u] = pc[u])
        BY <1>4, <1>0, GotoLabels DEF SpuriousWake
  <2>3. pc'[Main] = pc[Main] /\ \A u \in Workers \ {w} : pc'[u] = pc[u]
        BY <2>2, <1>0
  <2>4. ~Counted(w)' /\ ~Running(w)' /\ pc'[w] \notin {"finishing", "exited"}
        BY <2>2 DEF Counted, Running
  <2>5. MainPhase(pc[Main])' = MainPhase(pc[Main])
        BY <2>3 DEF MainPhase
  <2> QED BY <2>1, <2>3, <2>4, <2>5, PhasesKept
<1>5. ASSUME \/ DoWork(Main) \/ Assign \/ StartRound \/ MainJoin \/ SetExit \/ OpenAll
             \/ JoinWorkers \/ SpuriousWake(Main) \/ StartAll \/ WakeAll
      PROVE  Phases'
  <2>1. ASSUME NEW w \in Workers
        PROVE  /\ Counted(w)' <=> Counted(w)
               /\ Running(w)' <=> Running(w)
               /\ pc'[w] = pc[w] \/ (pc[w] = "waiting" /\ pc'[w] = "arriving")
    <3>1. (\E l : Goto(Main, l)) \/ (\E l : NotifyWorkers(l))
          BY <1>5 DEF DoWork, FirstFetch, ClaimBlock, ProcessBlock, Assign, StartRound, MainJoin,
                      SetExit, OpenAll, JoinWorkers, SpuriousWake, StartAll, WakeAll
    <3>2. pc'[w] = pc[w] \/ (pc[w] = "waiting" /\ pc'[w] = "arriving")
          BY <3>1, <1>0, GotoLabels DEF NotifyWorkers
    <3> QED BY <3>2 DEF Counted, Running
  <2>2. ASSUME DoWork(Main) \/ StartAll PROVE Phases'
    <3>1. Open /\ Open' /\ ~Closing /\ ~Closing'
          /\ pc'[Main] \notin {"closing", "opening", "joining", "gone"}
      <4>1. ASSUME StartAll PROVE pc[Main] = "started" /\ pc'[Main] = "calling"
            BY <4>1, <1>0 DEF StartAll, NotifyWorkers
      <4>2. ASSUME DoWork(Main)
            PROVE  /\ pc[Main] \in {"calling", "looping", "processing"}
                   /\ \E l \in {"looping", "processing", "finishing"} : Goto(Main, l)
            BY <4>2 DEF DoWork, FirstFetch, ClaimBlock, ProcessBlock
      <4>3. ASSUME DoWork(Main) PROVE pc'[Main] \in {"looping", "processing", "finishing"}
            BY <4>2, <4>3, <1>0, GotoLabels
      <4> QED BY <2>2, <4>1, <4>2, <4>3 DEF Open, Closing
    <3>2. shouldExit' = shouldExit /\ shouldStart' = shouldStart
          BY <2>2 DEF DoWork, FirstFetch, ClaimBlock, ProcessBlock, StartAll, sync
    <3>3. ~shouldExit
          BY <3>1 DEF Phases, Open
    <3>4. ASSUME NEW w \in Workers PROVE pc'[w] # "exited"
          BY <2>1, <3>1 DEF Phases
    <3> QED BY <3>1, <3>2, <3>3, <3>4 DEF Phases
  <2>3. ASSUME Assign \/ StartRound PROVE Phases'
    <3>1. /\ pc[Main] \in {"idle", "assigned"} /\ pc'[Main] \in {"assigned", "started"}
          /\ pc'[Main] = "assigned" => shouldStart' = shouldStart
          /\ shouldExit' = shouldExit
          BY <2>3, <1>0, GotoLabels DEF Assign, StartRound, sync
    <3>2. ASSUME NEW w \in Workers PROVE ~Counted(w) /\ pc[w] \notin {"finishing", "exited"}
          BY <3>1 DEF Phases, Open, Closing, Counted
    <3>3. ASSUME NEW w \in Workers
          PROVE  ~Counted(w)' /\ ~Running(w)' /\ pc'[w] \notin {"finishing", "exited"}
          BY <2>1, <3>2 DEF Counted, Running
    <3>4. ~shouldStart /\ ~shouldExit
          BY <3>1 DEF Phases, Open, Closing
    <3>5. pc'[Main] \notin {"closing", "opening", "joining", "gone"}
          BY <3>1
    <3>6. shouldStart' => Open'
          BY <3>1, <3>4 DEF Open
    <3> QED BY <3>1, <3>3, <3>4, <3>5, <3>6 DEF Phases
  <2>4. ASSUME MainJoin \/ SpuriousWake(Main) PROVE Phases'
    <3>1. /\ pc[Main] \in {"finishing", "woken", "waiting"}
          /\ pc'[Main] \in {"idle", "waiting", "woken"}
          /\ pc'[Main] = "idle" => threadsWorking = 0
          /\ shouldExit' = shouldExit
          BY <2>4, <1>0, GotoLabels DEF MainJoin, SpuriousWake, sync
    <3>2. ~shouldStart'
      <4>1. shouldStart' => shouldStart /\ pc[Main] \in {"woken", "waiting"}
            BY Zenon, <2>4 DEF MainJoin, SpuriousWake, sync
      <4>2. pc[Main] \in {"woken", "waiting"} => ~shouldStart
            BY DEF Phases, Open, Closing
      <4> QED BY Zenon, <4>1, <4>2
    <3>3. ~shouldExit
          BY <3>1 DEF Phases
    <3>4. ASSUME NEW w \in Workers PROVE pc[w] # "exited"
          BY <3>1 DEF Phases, Closing
    <3>5. ASSUME NEW w \in Workers, pc'[Main] = "idle" PROVE ~Counted(w)
          BY <3>1, <3>5, NobodyCounted DEF CountExact
    <3>6. ~Closing' /\ pc'[Main] \notin {"closing", "opening", "joining", "gone"}
          BY <3>1 DEF Closing
    <3>7. ASSUME NEW w \in Workers
          PROVE  /\ Counted(w)' => pc'[Main] \in {"waiting", "woken"}
                 /\ pc'[w] # "exited"
          BY <2>1, <3>1, <3>4, <3>5
    <3> QED BY <3>1, <3>2, <3>3, <3>6, <3>7 DEF Phases
  <2>5. ASSUME SetExit \/ OpenAll PROVE Phases'
    <3>1. /\ pc[Main] \in {"idle", "closing"} /\ pc'[Main] \in {"closing", "opening"}
          /\ pc'[Main] = "closing" => shouldStart' = shouldStart
          BY <2>5, <1>0, GotoLabels DEF SetExit, OpenAll
    <3>2. shouldExit'
      <4>1. pc[Main] = "closing" => shouldExit
            BY DEF Phases
      <4>2. shouldExit' = TRUE \/ (pc[Main] = "closing" /\ shouldExit' = shouldExit)
            BY Zenon, <2>5 DEF SetExit, OpenAll
      <4> QED BY Zenon, <4>1, <4>2
    <3>3. ASSUME NEW w \in Workers PROVE ~Counted(w) /\ pc[w] \notin {"finishing", "exited"}
          BY <3>1 DEF Phases, Open, Closing, Counted
    <3>4. ASSUME NEW w \in Workers
          PROVE  ~Counted(w)' /\ ~Running(w)' /\ pc'[w] \notin {"finishing", "exited"}
          BY <2>1, <3>3 DEF Counted, Running
    <3>5. ~shouldStart
          BY <3>1 DEF Phases, Open, Closing
    <3>6. shouldStart' => Closing'
          BY <3>1, <3>5 DEF Closing
    <3> QED BY <3>1, <3>2, <3>4, <3>6 DEF Phases
  <2>6. ASSUME WakeAll \/ JoinWorkers PROVE Phases'
    <3>1. /\ pc[Main] \in {"opening", "joining"} /\ pc'[Main] \in {"joining", "gone"}
          /\ shouldExit' = shouldExit
          BY <2>6, <1>0, GotoLabels DEF WakeAll, JoinWorkers, NotifyWorkers, sync
    <3>2. shouldExit /\ Closing /\ Closing'
          BY <3>1 DEF Phases, Closing
    <3>3. ASSUME NEW w \in Workers PROVE ~Running(w)' /\ pc'[w] # "finishing"
          BY <2>1, <3>2 DEF Phases
    <3> QED BY <3>1, <3>2, <3>3 DEF Phases
  <2> QED BY <1>5, <2>2, <2>3, <2>4, <2>5, <2>6
<1>6. CASE PoolDone \/ UNCHANGED vars
      BY <1>6 DEF PoolDone, vars, sync, Phases, Open, Closing, Counted, Running
<1> QED BY <1>0, <1>1, <1>2, <1>3, <1>4, <1>5, <1>6
        DEF PoolNext, MainStep, WorkerStep, Threads

(***************************************************************************)
(* The theorems about the pool itself.                                     *)
(***************************************************************************)
PoolTyped == PcTyped /\ DataTyped /\ FlagsTyped /\ CountTyped

LEMMA PoolStart == PoolInit => PoolTyped /\ CountExact /\ Phases
BY PoolInvInit, PoolInvIs, TypesAreThese DEF PoolTyped, CountTyped

LEMMA PoolStep ==
  PoolTyped /\ CountExact /\ Phases /\ [PoolNext]_vars => (PoolTyped /\ CountExact /\ Phases)'
BY PcStep, DataStep, FlagsStep, CountStep, CountExactStep, PhasesStep DEF PoolTyped

LEMMA PoolInvFollows == PoolTyped /\ CountExact /\ Phases => PoolInv
BY PoolInvIs, TypesAreThese DEF PoolTyped, CountTyped

\* Of every pool: threadsWorking is the number of workers between their wake-up
\* and the end of their work; they wake up only while a call or the destructor
\* lets them, and a call returns only when there is none (threadPool.cpp).
THEOREM PoolInvariant == PoolSpec => []PoolInv
<1>1. PoolSpec => [](PoolTyped /\ CountExact /\ Phases)
      BY PoolStart, PoolStep, PTL DEF PoolSpec
<1> QED BY <1>1, PoolInvFollows, PTL

LEMMA NobodyRunsFollows == PoolInv => NobodyRunsDeadFrame
<1> SUFFICES ASSUME PoolInv, NEW w \in Workers
             PROVE  /\ Running(w) => InCall /\ pc[Main] # "assigned"
                    /\ pc[w] = "checking" => shouldExit \/ (InCall /\ pc[Main] # "assigned")
    BY DEF NobodyRunsDeadFrame
<1>1. Counted(w) => Open \/ pc[Main] \in {"waiting", "woken"} \/ Closing
      BY DEF PoolInv
<1>2. Running(w) => Counted(w) /\ ~Closing
      BY DEF PoolInv, Running, Counted
<1>3. pc[w] = "checking" => Counted(w)
      BY DEF Counted
<1>4. Closing => shouldExit
      BY DEF PoolInv, Closing
<1>5. Open \/ pc[Main] \in {"waiting", "woken"} => InCall /\ pc[Main] # "assigned"
      BY DEF Open, InCall
<1> QED BY Zenon, <1>1, <1>2, <1>3, <1>4, <1>5

\* No worker is inside funcToRun, which captures the caller's locals by
\* reference, or past the test that leads there, while the caller is outside of
\* doInParallel or still replacing funcToRun without the lock.
THEOREM NobodyEverRunsDeadFrame == PoolSpec => []NobodyRunsDeadFrame
BY PoolInvariant, NobodyRunsFollows, PTL

(***************************************************************************)
(* Blocks. A thread that works holds the block it fetched ahead, and while *)
(* it processes one also the block it claimed; no block below idx is held  *)
(* twice, and a block that is held has not been processed.                 *)
(***************************************************************************)
Active(t)     == pc[t] \in {"looping", "processing"}
Processing(t) == pc[t] = "processing"
WorkInv ==
  /\ InCall => func >= 1
  /\ \A t \in Threads : Active(t) =>
       /\ ahead[t] < idx
       /\ \A u \in Threads \ {t} : Active(u) => ahead[u] # ahead[t]
       /\ ahead[t] \in BlocksOf[func] => count[func][ahead[t]] = 0
  /\ \A t \in Threads : Processing(t) =>
       /\ claimed[t] < idx /\ claimed[t] \in BlocksOf[func]
       /\ count[func][claimed[t]] = 0
       /\ \A u \in Threads : Active(u) => ahead[u] # claimed[t]
       /\ \A u \in Threads \ {t} : Processing(u) => claimed[u] # claimed[t]
  /\ func >= 1 => \A b \in BlocksOf[func] : b >= idx => count[func][b] = 0
  /\ \A r \in Rounds : r > func => \A b \in BlocksOf[r] : count[r][b] = 0
  /\ \A r \in Rounds : \A b \in BlocksOf[r] : count[r][b] <= 1

LEMMA WorkInit == PoolInit => WorkInv
<1> SUFFICES ASSUME PoolInit PROVE WorkInv
    OBVIOUS
<1>1. func = 0 /\ \A r \in Rounds : \A b \in BlocksOf[r] : count[r][b] = 0
      BY DEF PoolInit
<1>2. \A t \in Threads : ~Active(t) /\ ~Processing(t)
      BY DEF PoolInit, Active, Processing
<1>3. ~InCall
      BY WorkersAssumption DEF PoolInit, InCall, Threads
<1> QED BY <1>1, <1>2, <1>3 DEF WorkInv

\* Whoever runs the work does so inside a call.
LEMMA RunningInCall ==
  ASSUME PoolInv, WorkInv, NEW t \in Threads, Running(t)
  PROVE  func \in Rounds
<1>1. InCall
  <2>1. CASE t = Main
        BY <2>1 DEF Running, InCall
  <2>2. CASE t # Main
        BY <2>2, NobodyRunsFollows DEF NobodyRunsDeadFrame, Threads
  <2> QED BY <2>1, <2>2
<1> QED BY <1>1, RoundsAssumption DEF WorkInv, Rounds, PoolInv, PoolTypeOK

\* A step that touches no block and after which no further thread works.
LEMMA WorkKept ==
  ASSUME WorkInv, UNCHANGED <<func, work>>, InCall' => InCall,
         \A t \in Threads : (Active(t)' => Active(t)) /\ (Processing(t)' => Processing(t))
  PROVE  WorkInv'
BY DEF WorkInv, work

LEMMA FetchKeepsWork ==
  ASSUME PoolInv, WorkInv, NEW t \in Threads, FirstFetch(t)
  PROVE  WorkInv'
<1>1. func \in Rounds
      BY RunningInCall DEF FirstFetch, Running
<1>2. pc[t] = "calling" /\ func' = func /\ count' = count /\ claimed' = claimed /\ idx' = idx + 1
      BY DEF FirstFetch
<1>3. ahead'[t] = idx /\ \A u \in Threads \ {t} : ahead'[u] = ahead[u]
      BY DEF FirstFetch, PoolInv, PoolTypeOK
<1>4. pc'[t] = "looping" /\ \A u \in Threads \ {t} : pc'[u] = pc[u]
      BY DEF FirstFetch, Goto, PoolInv, PoolTypeOK
<1>5. idx \in Nat /\ ahead \in [Threads -> Nat] /\ claimed \in [Threads -> Nat]
      BY DEF PoolInv, PoolTypeOK
<1>6. ~Processing(t)' /\ \A u \in Threads \ {t} : (Active(u)' <=> Active(u))
                                              /\ (Processing(u)' <=> Processing(u))
      BY <1>4 DEF Active, Processing
<1>7. ASSUME NEW u \in Threads, Active(u)'
      PROVE  /\ ahead'[u] < idx'
             /\ \A v \in Threads \ {u} : Active(v)' => ahead'[v] # ahead'[u]
             /\ ahead'[u] \in BlocksOf[func] => count[func][ahead'[u]] = 0
  <2>1. CASE u = t
    <3>1. \A v \in Threads \ {t} : Active(v) => ahead[v] < idx
          BY DEF WorkInv
    <3>2. idx \in BlocksOf[func] => count[func][idx] = 0
          BY <1>1, <1>5 DEF WorkInv, Rounds
    <3> QED BY <2>1, <1>2, <1>3, <1>5, <1>6, <3>1, <3>2
  <2>2. CASE u # t
    <3>1. ahead[u] < idx /\ (ahead[u] \in BlocksOf[func] => count[func][ahead[u]] = 0)
          BY <2>2, <1>6, <1>7 DEF WorkInv
    <3>2. \A v \in Threads \ {u, t} : Active(v) => ahead[v] # ahead[u]
          BY <2>2, <1>6, <1>7 DEF WorkInv
    <3> QED BY <2>2, <1>2, <1>3, <1>5, <1>6, <3>1, <3>2
  <2> QED BY <2>1, <2>2
<1>8. ASSUME NEW u \in Threads, Processing(u)'
      PROVE  /\ claimed[u] < idx' /\ claimed[u] \in BlocksOf[func]
             /\ count[func][claimed[u]] = 0
             /\ \A v \in Threads : Active(v)' => ahead'[v] # claimed[u]
             /\ \A v \in Threads \ {u} : Processing(v)' => claimed[v] # claimed[u]
  <2>1. Processing(u)  BY <1>6, <1>8
  <2>2. claimed[u] < idx /\ claimed[u] \in BlocksOf[func] /\ count[func][claimed[u]] = 0
        BY <2>1 DEF WorkInv
  <2>3. \A v \in Threads \ {t} : Active(v) => ahead[v] # claimed[u]
        BY <2>1 DEF WorkInv
  <2>4. \A v \in Threads \ {u} : Processing(v) => claimed[v] # claimed[u]
        BY <2>1 DEF WorkInv
  <2> QED BY <1>2, <1>3, <1>5, <1>6, <2>2, <2>3, <2>4
<1>9. \A b \in BlocksOf[func] : b >= idx' => count[func][b] = 0
      BY <1>1, <1>2, <1>5 DEF WorkInv, Rounds, BlocksOf
<1>10. func >= 1
      BY <1>1 DEF Rounds
<1> QED BY <1>2, <1>7, <1>8, <1>9, <1>10 DEF WorkInv

LEMMA ClaimKeepsWork ==
  ASSUME PoolInv, WorkInv, NEW t \in Threads, ClaimBlock(t)
  PROVE  WorkInv'
<1>1. func \in Rounds
      BY RunningInCall DEF ClaimBlock, Running
<1>2. pc[t] = "looping" /\ func' = func /\ count' = count /\ idx' = idx + 1
      BY DEF ClaimBlock
<1>3. /\ ahead'[t] = idx /\ \A u \in Threads \ {t} : ahead'[u] = ahead[u]
      /\ claimed'[t] = ahead[t] /\ \A u \in Threads \ {t} : claimed'[u] = claimed[u]
      BY DEF ClaimBlock, PoolInv, PoolTypeOK
<1>4. /\ pc'[t] = (IF ahead[t] >= NumBlocks[func] THEN "finishing" ELSE "processing")
      /\ \A u \in Threads \ {t} : pc'[u] = pc[u]
      BY DEF ClaimBlock, Goto, PoolInv, PoolTypeOK
<1>5. idx \in Nat /\ ahead \in [Threads -> Nat] /\ claimed \in [Threads -> Nat]
      BY DEF PoolInv, PoolTypeOK
<1>6. /\ Active(t) /\ (Active(t)' => Processing(t)') /\ (Processing(t)' => ahead[t] < NumBlocks[func])
      /\ \A u \in Threads \ {t} : (Active(u)' <=> Active(u)) /\ (Processing(u)' <=> Processing(u))
      BY <1>1, <1>2, <1>4, <1>5, RoundsAssumption DEF Active, Processing
<1>7. ASSUME NEW u \in Threads, Active(u)'
      PROVE  /\ ahead'[u] < idx'
             /\ \A v \in Threads \ {u} : Active(v)' => ahead'[v] # ahead'[u]
             /\ ahead'[u] \in BlocksOf[func] => count[func][ahead'[u]] = 0
  <2>1. CASE u = t
    <3>1. \A v \in Threads \ {t} : Active(v) => ahead[v] < idx
          BY DEF WorkInv
    <3>2. idx \in BlocksOf[func] => count[func][idx] = 0
          BY <1>1, <1>5 DEF WorkInv, Rounds
    <3> QED BY <2>1, <1>2, <1>3, <1>5, <1>6, <3>1, <3>2
  <2>2. CASE u # t
    <3>1. ahead[u] < idx /\ (ahead[u] \in BlocksOf[func] => count[func][ahead[u]] = 0)
          BY <2>2, <1>6, <1>7 DEF WorkInv
    <3>2. \A v \in Threads \ {u, t} : Active(v) => ahead[v] # ahead[u]
          BY <2>2, <1>6, <1>7 DEF WorkInv
    <3> QED BY <2>2, <1>2, <1>3, <1>5, <1>6, <3>1, <3>2
  <2> QED BY <2>1, <2>2
<1>8. ASSUME NEW u \in Threads, Processing(u)'
      PROVE  /\ claimed'[u] < idx' /\ claimed'[u] \in BlocksOf[func]
             /\ count[func][claimed'[u]] = 0
             /\ \A v \in Threads : Active(v)' => ahead'[v] # claimed'[u]
             /\ \A v \in Threads \ {u} : Processing(v)' => claimed'[v] # claimed'[u]
  <2>1. CASE u = t
    <3>1. /\ ahead[t] < idx /\ \A v \in Threads \ {t} : Active(v) => ahead[v] # ahead[t]
          /\ ahead[t] \in BlocksOf[func] => count[func][ahead[t]] = 0
          BY <1>6 DEF WorkInv
    <3>2. \A v \in Threads \ {t} : Processing(v) => ahead[t] # claimed[v]
          BY <1>6 DEF WorkInv
    <3>3. ahead[t] \in BlocksOf[func]
          BY <2>1, <1>1, <1>5, <1>6, <1>8, RoundsAssumption DEF BlocksOf
    <3> QED BY <2>1, <1>2, <1>3, <1>5, <1>6, <3>1, <3>2, <3>3
  <2>2. CASE u # t
    <3>1. Processing(u)  BY <2>2, <1>6, <1>8
    <3>2. claimed[u] < idx /\ claimed[u] \in BlocksOf[func] /\ count[func][claimed[u]] = 0
          BY <3>1 DEF WorkInv
    <3>3. \A v \in Threads : Active(v) => ahead[v] # claimed[u]
          BY <3>1 DEF WorkInv
    <3>4. \A v \in Threads \ {u} : Processing(v) => claimed[v] # claimed[u]
          BY <3>1 DEF WorkInv
    <3> QED BY <2>2, <1>2, <1>3, <1>5, <1>6, <3>2, <3>3, <3>4
  <2> QED BY <2>1, <2>2
<1>9. \A b \in BlocksOf[func] : b >= idx' => count[func][b] = 0
      BY <1>1, <1>2, <1>5 DEF WorkInv, Rounds, BlocksOf
<1>10. func >= 1
      BY <1>1 DEF Rounds
<1> QED BY <1>2, <1>7, <1>8, <1>9, <1>10 DEF WorkInv

LEMMA ProcessKeepsWork ==
  ASSUME PoolInv, CountShape, WorkInv, NEW t \in Threads, ProcessBlock(t)
  PROVE  WorkInv'
<1>1. func \in Rounds /\ func >= 1
      BY RunningInCall DEF ProcessBlock, Running, Rounds
<1>2. /\ pc[t] = "processing" /\ func' = func /\ idx' = idx /\ ahead' = ahead /\ claimed' = claimed
      /\ count' = [count EXCEPT ![func] = [count[func] EXCEPT ![claimed[t]] = @ + 1]]
      BY DEF ProcessBlock
<1>3. pc'[t] = "looping" /\ \A u \in Threads \ {t} : pc'[u] = pc[u]
      BY DEF ProcessBlock, Goto, PoolInv, PoolTypeOK
<1>4. /\ ~Processing(t)' /\ \A u \in Threads : (Active(u)' <=> Active(u))
      /\ \A u \in Threads \ {t} : Processing(u)' <=> Processing(u)
      BY <1>2, <1>3 DEF Active, Processing
<1>5. Processing(t) /\ Active(t)
      BY <1>2 DEF Active, Processing
<1>6. claimed[t] < idx /\ claimed[t] \in BlocksOf[func] /\ count[func][claimed[t]] = 0
      BY <1>5 DEF WorkInv
<1>7. /\ count'[func][claimed[t]] = 1
      /\ \A b \in BlocksOf[func] \ {claimed[t]} : count'[func][b] = count[func][b]
  <2>1. func \in DOMAIN count /\ count[func] \in [BlocksOf[func] -> Nat]
        BY <1>1 DEF CountShape, PoolInv, PoolTypeOK
  <2>2. count'[func] = [count[func] EXCEPT ![claimed[t]] = @ + 1]
        BY <1>2, <2>1
  <2> QED BY <1>6, <2>1, <2>2
<1>8. \A r \in Rounds \ {func} : count'[r] = count[r]
      BY <1>2 DEF CountShape
<1>9. ASSUME NEW u \in Threads, Active(u)
      PROVE  /\ ahead[u] < idx
             /\ \A v \in Threads \ {u} : Active(v) => ahead[v] # ahead[u]
             /\ ahead[u] \in BlocksOf[func] => count'[func][ahead[u]] = 0
  <2>1. ahead[u] # claimed[t]
        BY <1>5, <1>9 DEF WorkInv
  <2> QED BY <1>7, <1>9, <2>1 DEF WorkInv
<1>10. ASSUME NEW u \in Threads \ {t}, Processing(u)
      PROVE  /\ claimed[u] < idx /\ claimed[u] \in BlocksOf[func]
             /\ count'[func][claimed[u]] = 0
             /\ \A v \in Threads : Active(v) => ahead[v] # claimed[u]
             /\ \A v \in Threads \ {u} : Processing(v) => claimed[v] # claimed[u]
  <2>1. claimed[u] # claimed[t]
        BY <1>5, <1>10 DEF WorkInv
  <2>2. claimed[u] < idx /\ claimed[u] \in BlocksOf[func] /\ count[func][claimed[u]] = 0
        BY <1>10 DEF WorkInv
  <2> QED BY <1>7, <1>10, <2>1, <2>2 DEF WorkInv
<1>11. \A b \in BlocksOf[func] : b >= idx => count'[func][b] = 0
  <2>1. idx \in Nat /\ claimed[t] \in Nat
        BY DEF PoolInv, PoolTypeOK
  <2>2. \A b \in BlocksOf[func] : b >= idx => b # claimed[t]
        BY <1>1, <1>6, <2>1, RoundsAssumption DEF BlocksOf
  <2> QED BY <1>1, <1>7, <2>2 DEF WorkInv
<1>12. \A r \in Rounds : r > func => \A b \in BlocksOf[r] : count'[r][b] = 0
      BY <1>1, <1>8 DEF WorkInv, Rounds
<1>13. ASSUME NEW r \in Rounds, NEW b \in BlocksOf[r] PROVE count'[r][b] <= 1
  <2>1. CASE r = func
        BY <2>1, <1>7 DEF WorkInv
  <2>2. CASE r # func
        BY <2>2, <1>8 DEF WorkInv
  <2> QED BY <2>1, <2>2
<1> QED BY <1>1, <1>2, <1>4, <1>9, <1>10, <1>11, <1>12, <1>13 DEF WorkInv

LEMMA AssignKeepsWork ==
  ASSUME PoolInv, WorkInv, Assign
  PROVE  WorkInv'
<1>1. func' = func + 1 /\ func < NumRounds /\ idx' = 0 /\ count' = count /\ func \in 0 .. NumRounds
      BY DEF Assign, PoolInv, PoolTypeOK
<1>2. func + 1 \in Rounds /\ func + 1 > func
      BY <1>1, RoundsAssumption DEF Rounds
<1>3. ASSUME NEW t \in Threads PROVE ~Active(t)' /\ ~Processing(t)'
  <2>1. pc'[Main] = "assigned" /\ \A u \in Workers : pc'[u] = pc[u]
        BY WorkersAssumption DEF Assign, Goto, PoolInv, PoolTypeOK, Threads
  <2>2. pc[Main] = "idle"  BY DEF Assign
  <2>3. \A u \in Workers : ~Running(u)
        BY <2>2, NobodyRunsFollows DEF NobodyRunsDeadFrame, InCall
  <2> QED BY <2>1, <2>3 DEF Active, Processing, Running, Threads
<1>4. \A b \in BlocksOf[func + 1] : count[func + 1][b] = 0
      BY <1>2 DEF WorkInv
<1>5. \A r \in Rounds : r > func + 1 => \A b \in BlocksOf[r] : count[r][b] = 0
      BY <1>1 DEF WorkInv, Rounds
<1>6. func + 1 >= 1
      BY <1>1
<1> QED BY <1>1, <1>3, <1>4, <1>5, <1>6 DEF WorkInv

\* Every other step leaves the blocks alone, and nobody begins to work in it.
OtherStep ==
  \/ \E w \in Workers : Sleep(w) \/ WakeUp(w) \/ Check(w) \/ FinishRound(w)
  \/ \E t \in Threads : SpuriousWake(t)
  \/ StartRound \/ StartAll \/ MainJoin \/ SetExit \/ OpenAll \/ WakeAll \/ JoinWorkers
  \/ PoolDone \/ UNCHANGED vars

LEMMA StepKinds ==
  [PoolNext]_vars => \/ \E t \in Threads : FirstFetch(t) \/ ClaimBlock(t) \/ ProcessBlock(t)
                     \/ Assign \/ OtherStep
BY DEF PoolNext, MainStep, WorkerStep, DoWork, OtherStep, Threads

LEMMA OtherStepQuiet ==
  ASSUME PcTyped, OtherStep
  PROVE  /\ UNCHANGED <<func, work>>
         /\ InCall' => InCall
         /\ \A t \in Threads : (Active(t)' <=> Active(t)) /\ (Processing(t)' <=> Processing(t))
<1>0. Main \in Threads /\ Main \notin Workers /\ Workers \subseteq Threads
      BY WorkersAssumption DEF Threads
<1>1. ASSUME NEW w \in Workers, Sleep(w) \/ WakeUp(w) \/ Check(w)
      PROVE  /\ UNCHANGED <<func, work>> /\ pc'[w] \in {"waiting", "checking", "exited", "calling"}
             /\ pc[w] \in {"arriving", "checking"} /\ \A u \in Threads \ {w} : pc'[u] = pc[u]
      BY <1>1, <1>0, GotoLabels DEF Sleep, WakeUp, Check
<1>2. ASSUME NEW w \in Workers, FinishRound(w)
      PROVE  /\ UNCHANGED <<func, work>> /\ pc[w] = "finishing" /\ pc'[w] = "waiting"
             /\ pc'[Main] = pc[Main] \/ (pc[Main] = "waiting" /\ pc'[Main] = "woken")
             /\ \A u \in Threads \ {w, Main} : pc'[u] = pc[u]
      BY <1>2, <1>0 DEF FinishRound, PcTyped
<1>3. ASSUME NEW t \in Threads, SpuriousWake(t)
      PROVE  /\ UNCHANGED <<func, work>> /\ pc[t] = "waiting"
             /\ pc'[t] = (IF t = Main THEN "woken" ELSE "arriving")
             /\ \A u \in Threads \ {t} : pc'[u] = pc[u]
      BY <1>3, GotoLabels DEF SpuriousWake
<1>4. ASSUME StartRound \/ MainJoin \/ SetExit \/ OpenAll \/ JoinWorkers
      PROVE  /\ UNCHANGED <<func, work>> /\ \A u \in Threads \ {Main} : pc'[u] = pc[u]
             /\ pc[Main] \in {"assigned", "finishing", "woken", "idle", "closing", "joining"}
             /\ pc'[Main] \in {"started", "idle", "waiting", "closing", "opening", "gone"}
             /\ InCall' => InCall
      BY <1>4, <1>0, GotoLabels
      DEF StartRound, MainJoin, SetExit, OpenAll, JoinWorkers, InCall
<1>5. ASSUME StartAll \/ WakeAll
      PROVE  /\ UNCHANGED <<func, work>>
             /\ \A u \in Workers : pc'[u] = pc[u] \/ (pc[u] = "waiting" /\ pc'[u] = "arriving")
             /\ \/ pc[Main] = "started" /\ pc'[Main] = "calling"
                \/ pc[Main] = "opening" /\ pc'[Main] = "joining"
      BY <1>5, <1>0 DEF StartAll, WakeAll, NotifyWorkers
<1>6. CASE PoolDone \/ UNCHANGED vars
      BY <1>6 DEF PoolDone, vars, InCall, Active, Processing
<1>7. CASE \E w \in Workers : Sleep(w) \/ WakeUp(w) \/ Check(w)
      BY <1>7, <1>1, <1>0 DEF InCall, Active, Processing
<1>8. CASE \E w \in Workers : FinishRound(w)
      BY <1>8, <1>2, <1>0 DEF InCall, Active, Processing
<1>9. CASE \E t \in Threads : SpuriousWake(t)
      BY <1>9, <1>3, <1>0 DEF InCall, Active, Processing
<1>10. CASE StartRound \/ MainJoin \/ SetExit \/ OpenAll \/ JoinWorkers
      BY <1>10, <1>4 DEF Active, Processing
<1>11. CASE StartAll \/ WakeAll
      BY <1>11, <1>5 DEF InCall, Active, Processing, Threads
<1> QED BY <1>6, <1>7, <1>8, <1>9, <1>10, <1>11 DEF OtherStep

LEMMA WorkStep ==
  PoolTyped /\ PoolInv /\ WorkInv /\ [PoolNext]_vars => WorkInv'
<1> SUFFICES ASSUME PoolTyped, PoolInv, WorkInv, [PoolNext]_vars PROVE WorkInv'
    OBVIOUS
<1>1. ASSUME NEW t \in Threads, FirstFetch(t) \/ ClaimBlock(t) \/ ProcessBlock(t)
      PROVE  WorkInv'
      BY <1>1, FetchKeepsWork, ClaimKeepsWork, ProcessKeepsWork DEF PoolTyped, CountTyped
<1>2. CASE Assign
      BY <1>2, AssignKeepsWork
<1>3. CASE OtherStep
      BY <1>3, OtherStepQuiet, WorkKept DEF PoolTyped
<1> QED BY <1>1, <1>2, <1>3, StepKinds

\* Blocks are claimed one ahead (flatPCoeff.h:103): however the threads' claims
\* interleave, and in whatever call, no block is processed twice, and a thread
\* that processes one is alone with it.
THEOREM EveryBlockOnce == PoolSpec => []BlocksOnce
<1>1. PoolSpec => [](PoolTyped /\ CountExact /\ Phases)
      BY PoolStart, PoolStep, PTL DEF PoolSpec
<1>2. PoolSpec => []WorkInv
  <2>1. PoolTyped /\ CountExact /\ Phases /\ WorkInv /\ [PoolNext]_vars => WorkInv'
        BY WorkStep, PoolInvFollows
  <2> QED BY <1>1, <2>1, WorkInit, PTL DEF PoolSpec
<1>3. WorkInv => BlocksOnce
      BY DEF WorkInv, BlocksOnce, Processing
<1> QED BY <1>2, <1>3, PTL

(***************************************************************************)
(* A call returns only once its work is done: a block below idx has been   *)
(* processed or is held by a thread that works, and the main thread leaves *)
(* the work only when idx has passed all blocks.                           *)
(***************************************************************************)
Holds(t, b) == (Active(t) /\ ahead[t] = b) \/ (Processing(t) /\ claimed[t] = b)
HeldInv ==
  /\ func >= 1 => \A b \in BlocksOf[func] :
                    b < idx => count[func][b] > 0 \/ \E t \in Threads : Holds(t, b)
  /\ pc[Main] \in {"finishing", "waiting", "woken"} => idx >= NumBlocks[func]

LEMMA HeldInit == PoolInit => HeldInv
BY WorkersAssumption DEF PoolInit, HeldInv, Threads

LEMMA FetchKeepsHeld ==
  ASSUME PoolInv, WorkInv, HeldInv, NEW t \in Threads, FirstFetch(t)
  PROVE  HeldInv'
<1>1. func \in Rounds /\ func >= 1
      BY RunningInCall DEF FirstFetch, Running, Rounds
<1>2. pc[t] = "calling" /\ func' = func /\ count' = count /\ claimed' = claimed /\ idx' = idx + 1
      BY DEF FirstFetch
<1>3. /\ ahead'[t] = idx /\ \A u \in Threads \ {t} : ahead'[u] = ahead[u]
      /\ pc'[t] = "looping" /\ \A u \in Threads \ {t} : pc'[u] = pc[u]
      BY DEF FirstFetch, Goto, PoolInv, PoolTypeOK
<1>4. idx \in Nat  BY DEF PoolInv, PoolTypeOK
<1>5. ASSUME NEW b \in BlocksOf[func], NEW u \in Threads, Holds(u, b) PROVE Holds(u, b)'
      BY <1>5, <1>2, <1>3 DEF Holds, Active, Processing
<1>6. \A b \in BlocksOf[func] : b \in Nat
      BY <1>1, RoundsAssumption DEF BlocksOf
<1>7. ASSUME NEW b \in BlocksOf[func], b < idx + 1
      PROVE  count[func][b] > 0 \/ \E u \in Threads : Holds(u, b)'
  <2>1. CASE b = idx
        BY <2>1, <1>2, <1>3 DEF Holds, Active
  <2>2. CASE b # idx
    <3>1. b < idx  BY <2>2, <1>4, <1>6, <1>7
    <3>2. count[func][b] > 0 \/ \E u \in Threads : Holds(u, b)
          BY <3>1, <1>1 DEF HeldInv
    <3> QED BY <3>2, <1>5
  <2> QED BY <2>1, <2>2
<1>8. pc'[Main] \notin {"finishing", "waiting", "woken"} \/ idx >= NumBlocks[func]
      BY <1>3, WorkersAssumption DEF HeldInv, Threads
<1>9. NumBlocks[func] \in Nat
      BY <1>1, RoundsAssumption
<1>10. pc'[Main] \in {"finishing", "waiting", "woken"} => idx + 1 >= NumBlocks[func]
      BY <1>4, <1>8, <1>9
<1> QED BY <1>2, <1>7, <1>10 DEF HeldInv, Holds

LEMMA ClaimKeepsHeld ==
  ASSUME PoolInv, WorkInv, HeldInv, NEW t \in Threads, ClaimBlock(t)
  PROVE  HeldInv'
<1>1. func \in Rounds /\ func >= 1
      BY RunningInCall DEF ClaimBlock, Running, Rounds
<1>2. pc[t] = "looping" /\ func' = func /\ count' = count /\ idx' = idx + 1
      BY DEF ClaimBlock
<1>3. /\ ahead'[t] = idx /\ \A u \in Threads \ {t} : ahead'[u] = ahead[u]
      /\ claimed'[t] = ahead[t] /\ \A u \in Threads \ {t} : claimed'[u] = claimed[u]
      /\ pc'[t] = (IF ahead[t] >= NumBlocks[func] THEN "finishing" ELSE "processing")
      /\ \A u \in Threads \ {t} : pc'[u] = pc[u]
      BY DEF ClaimBlock, Goto, PoolInv, PoolTypeOK
<1>4. idx \in Nat /\ ahead[t] \in Nat /\ NumBlocks[func] \in Nat /\ ahead[t] < idx
      BY <1>1, <1>2, RoundsAssumption DEF PoolInv, PoolTypeOK, WorkInv, Active
<1>5. \A b \in BlocksOf[func] : b \in Nat /\ b < NumBlocks[func]
      BY <1>1, <1>4, RoundsAssumption DEF BlocksOf
<1>6. ASSUME NEW b \in BlocksOf[func], NEW u \in Threads, Holds(u, b) PROVE Holds(u, b)'
  <2>1. CASE u # t
        BY <1>6, <2>1, <1>3 DEF Holds, Active, Processing
  <2>2. CASE u = t
    <3>1. ahead[t] = b  BY <1>6, <2>2, <1>2 DEF Holds, Processing
    <3>2. ahead[t] < NumBlocks[func]  BY <3>1, <1>5
    <3>3. pc'[t] = "processing"  BY <3>2, <1>3, <1>4
    <3> QED BY <2>2, <3>1, <3>3, <1>3 DEF Holds, Processing
  <2> QED BY <2>1, <2>2
<1>7. ASSUME NEW b \in BlocksOf[func], b = idx PROVE Holds(t, b)'
  <2>1. ahead[t] < NumBlocks[func]  BY <1>4, <1>5, <1>7
  <2> QED BY <2>1, <1>3, <1>4, <1>7 DEF Holds, Active
<1>8. ASSUME NEW b \in BlocksOf[func], b < idx + 1
      PROVE  count[func][b] > 0 \/ \E u \in Threads : Holds(u, b)'
  <2>1. CASE b = idx
        BY <2>1, <1>7
  <2>2. CASE b # idx
    <3>1. b < idx  BY <2>2, <1>4, <1>5, <1>8
    <3>2. count[func][b] > 0 \/ \E u \in Threads : Holds(u, b)
          BY <3>1, <1>1 DEF HeldInv
    <3> QED BY <3>2, <1>6
  <2> QED BY <2>1, <2>2
<1>9. ASSUME pc'[Main] \in {"finishing", "waiting", "woken"} PROVE idx + 1 >= NumBlocks[func]
  <2>1. CASE t = Main
    <3>1. ahead[t] >= NumBlocks[func]  BY <2>1, <1>3, <1>9
    <3> QED BY <3>1, <1>4
  <2>2. CASE t # Main
    <3>1. idx >= NumBlocks[func]
          BY <2>2, <1>3, <1>9, WorkersAssumption DEF HeldInv, Threads
    <3> QED BY <3>1, <1>4
  <2> QED BY <2>1, <2>2
<1> QED BY <1>2, <1>8, <1>9 DEF HeldInv, Holds

LEMMA ProcessKeepsHeld ==
  ASSUME PoolInv, CountShape, WorkInv, HeldInv, NEW t \in Threads, ProcessBlock(t)
  PROVE  HeldInv'
<1>1. func \in Rounds /\ func >= 1
      BY RunningInCall DEF ProcessBlock, Running, Rounds
<1>2. /\ pc[t] = "processing" /\ func' = func /\ idx' = idx /\ ahead' = ahead /\ claimed' = claimed
      /\ count' = [count EXCEPT ![func] = [count[func] EXCEPT ![claimed[t]] = @ + 1]]
      BY DEF ProcessBlock
<1>3. pc'[t] = "looping" /\ \A u \in Threads \ {t} : pc'[u] = pc[u]
      BY DEF ProcessBlock, Goto, PoolInv, PoolTypeOK
<1>4. claimed[t] \in BlocksOf[func] /\ count[func][claimed[t]] = 0
      BY <1>2 DEF WorkInv, Processing
<1>5. /\ count'[func][claimed[t]] > 0
      /\ \A b \in BlocksOf[func] \ {claimed[t]} : count'[func][b] = count[func][b]
  <2>1. func \in DOMAIN count /\ count[func] \in [BlocksOf[func] -> Nat]
        BY <1>1 DEF CountShape, PoolInv, PoolTypeOK
  <2>2. count'[func] = [count[func] EXCEPT ![claimed[t]] = @ + 1]
        BY <1>2, <2>1
  <2>3. count'[func][claimed[t]] = 1
        BY <1>4, <2>1, <2>2
  <2> QED BY <1>4, <2>1, <2>2, <2>3
<1>6. \A u \in Threads, b \in BlocksOf[func] \ {claimed[t]} : Holds(u, b) => Holds(u, b)'
      BY <1>2, <1>3 DEF Holds, Active, Processing
<1>7. ASSUME NEW b \in BlocksOf[func], b < idx
      PROVE  count'[func][b] > 0 \/ \E u \in Threads : Holds(u, b)'
  <2>1. CASE b = claimed[t]
        BY <2>1, <1>5
  <2>2. CASE b # claimed[t]
    <3>1. count[func][b] > 0 \/ \E u \in Threads : Holds(u, b)
          BY <1>1, <1>7 DEF HeldInv
    <3> QED BY <2>2, <3>1, <1>5, <1>6
  <2> QED BY <2>1, <2>2
<1>8. pc'[Main] \in {"finishing", "waiting", "woken"} => idx >= NumBlocks[func]
      BY <1>3, WorkersAssumption DEF HeldInv, Threads
<1> QED BY <1>2, <1>7, <1>8 DEF HeldInv, Holds

LEMMA AssignKeepsHeld ==
  ASSUME PoolInv, WorkInv, HeldInv, Assign
  PROVE  HeldInv'
<1>1. func' = func + 1 /\ idx' = 0 /\ func' \in Rounds
      BY RoundsAssumption DEF Assign, PoolInv, PoolTypeOK, Rounds
<1>2. pc'[Main] = "assigned"
      BY DEF Assign, Goto, PoolInv, PoolTypeOK, Threads
<1>3. \A b \in BlocksOf[func'] : ~(b < 0)
      BY <1>1, RoundsAssumption DEF BlocksOf
<1> QED BY <1>1, <1>2, <1>3 DEF HeldInv

LEMMA OtherKeepsHeld ==
  ASSUME PcTyped, HeldInv, OtherStep
  PROVE  HeldInv'
<1>1. /\ UNCHANGED <<func, work>>
      /\ \A t \in Threads : (Active(t)' <=> Active(t)) /\ (Processing(t)' <=> Processing(t))
      BY OtherStepQuiet
<1>2. \A t \in Threads, b \in BlocksOf[func] : Holds(t, b) => Holds(t, b)'
      BY <1>1 DEF Holds, work
<1>3. pc'[Main] \in {"finishing", "waiting", "woken"}
        => pc[Main] \in {"finishing", "waiting", "woken"}
  <2>0. Main \in Threads /\ Main \notin Workers /\ Workers \subseteq Threads
        BY WorkersAssumption DEF Threads
  <2>1. ASSUME NEW w \in Workers, Sleep(w) \/ WakeUp(w) \/ Check(w) \/ SpuriousWake(w)
        PROVE  pc'[Main] = pc[Main]
        BY <2>1, <2>0, GotoLabels DEF Sleep, WakeUp, Check, SpuriousWake
  <2>2. ASSUME NEW w \in Workers, FinishRound(w)
        PROVE  pc'[Main] = pc[Main] \/ pc[Main] = "waiting"
        BY <2>2, <2>0 DEF FinishRound, PcTyped
  <2>3. ASSUME SpuriousWake(Main) PROVE pc[Main] = "waiting"
        BY <2>3 DEF SpuriousWake
  <2>4. ASSUME MainJoin PROVE pc[Main] \in {"finishing", "woken"}
        BY <2>4 DEF MainJoin
  <2>5. ASSUME StartRound \/ SetExit \/ OpenAll \/ JoinWorkers
        PROVE  pc'[Main] \in {"started", "closing", "opening", "gone"}
        BY <2>5, <2>0, GotoLabels DEF StartRound, SetExit, OpenAll, JoinWorkers
  <2>6. ASSUME StartAll \/ WakeAll PROVE pc'[Main] \in {"calling", "joining"}
        BY <2>6, <2>0 DEF StartAll, WakeAll, NotifyWorkers
  <2>7. CASE PoolDone \/ UNCHANGED vars
        BY <2>7 DEF PoolDone, vars
  <2> QED BY <2>1, <2>2, <2>3, <2>4, <2>5, <2>6, <2>7 DEF OtherStep, Threads
<1> QED BY <1>1, <1>2, <1>3 DEF HeldInv, work
LEMMA HeldStep ==
  PoolTyped /\ PoolInv /\ WorkInv /\ HeldInv /\ [PoolNext]_vars => HeldInv'
<1> SUFFICES ASSUME PoolTyped, PoolInv, WorkInv, HeldInv, [PoolNext]_vars PROVE HeldInv'
    OBVIOUS
<1>1. ASSUME NEW t \in Threads, FirstFetch(t) \/ ClaimBlock(t) \/ ProcessBlock(t)
      PROVE  HeldInv'
      BY <1>1, FetchKeepsHeld, ClaimKeepsHeld, ProcessKeepsHeld DEF PoolTyped, CountTyped
<1>2. CASE Assign
      BY <1>2, AssignKeepsHeld
<1>3. CASE OtherStep
      BY <1>3, OtherKeepsHeld DEF PoolTyped
<1> QED BY <1>1, <1>2, <1>3, StepKinds

(***************************************************************************)
(* The refinement.                                                         *)
(***************************************************************************)
DoneNow == IF func = 0 THEN {} ELSE Processed(func)

\* A call is left only by the main thread, when no worker is counted.
LEMMA LeavesCall ==
  ASSUME PcTyped, OtherStep, InCall, ~InCall'
  PROVE  MainJoin /\ threadsWorking = 0
<1>0. Main \in Threads /\ Main \notin Workers /\ Workers \subseteq Threads
      BY WorkersAssumption DEF Threads
<1>1. ASSUME NEW w \in Workers, Sleep(w) \/ WakeUp(w) \/ Check(w) \/ SpuriousWake(w)
      PROVE  pc'[Main] = pc[Main]
      BY <1>1, <1>0, GotoLabels DEF Sleep, WakeUp, Check, SpuriousWake
<1>2. ASSUME NEW w \in Workers, FinishRound(w)
      PROVE  pc'[Main] = pc[Main] \/ pc'[Main] = "woken"
      BY <1>2, <1>0 DEF FinishRound, PcTyped
<1>3. ASSUME SpuriousWake(Main) \/ StartRound
      PROVE  pc'[Main] \in {"woken", "started"}
      BY <1>3, <1>0, GotoLabels DEF SpuriousWake, StartRound
<1>4. ASSUME StartAll PROVE pc'[Main] = "calling"
      BY <1>4, <1>0 DEF StartAll, NotifyWorkers
<1>5. ASSUME SetExit \/ OpenAll \/ WakeAll \/ JoinWorkers PROVE FALSE
      BY <1>5 DEF SetExit, OpenAll, WakeAll, JoinWorkers, InCall
<1>6. CASE PoolDone \/ UNCHANGED vars
      BY <1>6 DEF PoolDone, vars, InCall
<1>7. ASSUME MainJoin, threadsWorking # 0 PROVE pc'[Main] = "waiting"
      BY <1>7, <1>0, GotoLabels DEF MainJoin
<1> QED BY <1>1, <1>2, <1>3, <1>4, <1>5, <1>6, <1>7 DEF OtherStep, Threads, InCall

\* And then all its blocks have been processed.
LEMMA AllDoneAtReturn ==
  ASSUME PoolInv, WorkInv, HeldInv, MainJoin, threadsWorking = 0
  PROVE  func \in Rounds /\ func # 0 /\ Processed(func) = BlocksOf[func]
<1>1. InCall /\ pc[Main] \in {"finishing", "woken"}
      BY DEF MainJoin, InCall
<1>2. func \in Rounds /\ func >= 1 /\ func # 0
      BY <1>1, RoundsAssumption DEF WorkInv, Rounds, PoolInv, PoolTypeOK
<1>3. ASSUME NEW t \in Threads PROVE ~Active(t) /\ ~Processing(t)
  <2>1. CASE t = Main
        BY <2>1, <1>1 DEF Active, Processing
  <2>2. CASE t # Main
    <3>1. t \in Workers /\ Cardinality(CountedWorkers) = 0
          BY <2>2, PoolInvIs DEF Threads, CountExact
    <3> QED BY <3>1, NobodyCounted DEF Active, Processing, Counted
  <2> QED BY <2>1, <2>2
<1>4. ASSUME NEW b \in BlocksOf[func] PROVE count[func][b] > 0
  <2>1. b < idx
        BY <1>1, <1>2, RoundsAssumption DEF HeldInv, BlocksOf, PoolInv, PoolTypeOK
  <2>2. \A t \in Threads : ~Holds(t, b)  BY <1>3 DEF Holds
  <2> QED BY <1>2, <2>1, <2>2 DEF HeldInv
<1> QED BY <1>2, <1>4 DEF Processed

\* Steps that ForkJoin does not see.
LEMMA Unseen ==
  ASSUME func' = func, count' = count, InCall' <=> InCall
  PROVE  UNCHANGED <<func, InCall, DoneNow>>
<1>1. InCall' = InCall  BY DEF InCall
<1> QED BY <1>1 DEF DoneNow, Processed

LEMMA ProcessRefines ==
  ASSUME PoolInv, CountShape, WorkInv, NEW t \in Threads, ProcessBlock(t)
  PROVE  Abstract!Process
<1>1. InCall /\ func \in Rounds /\ func # 0
  <2>1. Running(t)  BY DEF ProcessBlock, Running
  <2>2. InCall
        BY <2>1, NobodyRunsFollows DEF NobodyRunsDeadFrame, Running, InCall, Threads
  <2> QED BY <2>1, <2>2, RunningInCall DEF Rounds
<1>2. /\ pc[t] = "processing" /\ func' = func
      /\ count' = [count EXCEPT ![func] = [count[func] EXCEPT ![claimed[t]] = @ + 1]]
      BY DEF ProcessBlock
<1>3. InCall' = InCall
      BY <1>1, <1>2 DEF ProcessBlock, Goto, PoolInv, PoolTypeOK, InCall
<1>4. claimed[t] \in BlocksOf[func] /\ count[func][claimed[t]] = 0
      BY <1>2 DEF WorkInv, Processing
<1>5. /\ count'[func][claimed[t]] > 0
      /\ \A b \in BlocksOf[func] \ {claimed[t]} : count'[func][b] = count[func][b]
  <2>1. func \in DOMAIN count /\ count[func] \in [BlocksOf[func] -> Nat]
        BY <1>1 DEF CountShape, PoolInv, PoolTypeOK
  <2>2. count'[func] = [count[func] EXCEPT ![claimed[t]] = @ + 1]
        BY <1>2, <2>1
  <2>3. count'[func][claimed[t]] = 1
        BY <1>4, <2>1, <2>2
  <2> QED BY <1>4, <2>1, <2>2, <2>3
<1>6. claimed[t] \in BlocksOf[func] \ DoneNow
      BY <1>1, <1>4 DEF DoneNow, Processed
<1>7. DoneNow' = DoneNow \cup {claimed[t]}
      BY <1>1, <1>2, <1>4, <1>5 DEF DoneNow, Processed
<1> QED BY <1>1, <1>2, <1>3, <1>6, <1>7 DEF Abstract!Process, DoneNow

LEMMA AssignRefines ==
  ASSUME PoolInv, WorkInv, Assign
  PROVE  Abstract!Enter
<1>1. /\ func < NumRounds /\ func' = func + 1 /\ count' = count /\ func' # 0
      /\ func' \in Rounds /\ func' > func
      BY RoundsAssumption DEF Assign, PoolInv, PoolTypeOK, Rounds
<1>2. InCall = FALSE /\ InCall' = TRUE
      BY DEF Assign, Goto, PoolInv, PoolTypeOK, InCall, Threads
<1>3. \A b \in BlocksOf[func'] : count'[func'][b] = 0
      BY <1>1 DEF WorkInv
<1>4. DoneNow' = {}
      BY <1>1, <1>3 DEF DoneNow, Processed
<1> QED BY <1>1, <1>2, <1>4 DEF Abstract!Enter, DoneNow

LEMMA PoolStepRefines ==
  PoolTyped /\ PoolInv /\ WorkInv /\ HeldInv /\ [PoolNext]_vars
    => [Abstract!Next]_<<func, InCall, DoneNow>>
<1> SUFFICES ASSUME PoolTyped, PoolInv, WorkInv, HeldInv, [PoolNext]_vars
             PROVE  Abstract!Next \/ UNCHANGED <<func, InCall, DoneNow>>
    BY Zenon
<1>1. ASSUME NEW t \in Threads, FirstFetch(t) \/ ClaimBlock(t)
      PROVE  UNCHANGED <<func, InCall, DoneNow>>
  <2>1. func' = func /\ count' = count
        BY <1>1 DEF FirstFetch, ClaimBlock
  <2>2. PICK l \in {"looping", "processing", "finishing"} : Goto(t, l)
        BY <1>1 DEF FirstFetch, ClaimBlock
  <2>3. pc[t] \in {"calling", "looping"}
        BY <1>1 DEF FirstFetch, ClaimBlock
  <2>4. pc'[t] = l /\ \A u \in Threads \ {t} : pc'[u] = pc[u]
        BY <2>2, GotoLabels DEF PoolTyped
  <2>5. InCall' <=> InCall
        BY <2>3, <2>4 DEF InCall, Threads
  <2> QED BY <2>1, <2>5, Unseen
<1>2. ASSUME NEW t \in Threads, ProcessBlock(t) PROVE Abstract!Next
      BY <1>2, ProcessRefines DEF PoolTyped, CountTyped, Abstract!Next
<1>3. CASE Assign
      BY <1>3, AssignRefines DEF Abstract!Next
<1>4. CASE OtherStep
  <2>1. func' = func /\ count' = count /\ (InCall' => InCall)
        BY <1>4, OtherStepQuiet DEF PoolTyped, work
  <2>2. CASE InCall' <=> InCall
        BY <2>1, <2>2, Unseen
  <2>3. CASE InCall /\ ~InCall'
    <3>1. MainJoin /\ threadsWorking = 0
          BY <1>4, <2>3, LeavesCall DEF PoolTyped
    <3>2. func # 0 /\ DoneNow = BlocksOf[func] /\ DoneNow' = DoneNow
          BY <3>1, <2>1, AllDoneAtReturn DEF DoneNow, Processed
    <3>3. InCall' = FALSE  BY <2>3 DEF InCall
    <3>4. Abstract!Return
          BY <2>1, <2>3, <3>2, <3>3 DEF Abstract!Return, DoneNow
    <3> QED BY <3>4 DEF Abstract!Next
  <2> QED BY <2>1, <2>2, <2>3
<1> QED BY <1>1, <1>2, <1>3, <1>4, StepKinds

LEMMA PoolInitRefines == PoolInit => Abstract!Init
<1> SUFFICES ASSUME PoolInit PROVE Abstract!Init
    OBVIOUS
<1>1. InCall = FALSE
      BY WorkersAssumption DEF PoolInit, InCall, Threads
<1> QED BY <1>1 DEF PoolInit, Abstract!Init

\* doInParallel "may only return once all work has been completed"
\* (threadPool.cpp:64): every step of the pool is a step of ForkJoin or none,
\* for every number of workers, calls and blocks.
THEOREM PoolImplementsForkJoin == PoolSpec => ImplementsForkJoin
<1>1. PoolSpec => [](PoolTyped /\ CountExact /\ Phases)
      BY PoolStart, PoolStep, PTL DEF PoolSpec
<1>2. PoolSpec => [](WorkInv /\ HeldInv)
  <2>1. PoolTyped /\ CountExact /\ Phases /\ (WorkInv /\ HeldInv) /\ [PoolNext]_vars
          => (WorkInv /\ HeldInv)'
        BY WorkStep, HeldStep, PoolInvFollows
  <2>2. PoolInit => WorkInv /\ HeldInv
        BY WorkInit, HeldInit
  <2> QED BY <1>1, <2>1, <2>2, PTL DEF PoolSpec
<1>3. PoolTyped /\ CountExact /\ Phases /\ (WorkInv /\ HeldInv) /\ [PoolNext]_vars
        => [Abstract!Next]_<<func, InCall, DoneNow>>
      BY PoolStepRefines, PoolInvFollows
<1>4. PoolSpec => Abstract!Init /\ [][Abstract!Next]_<<func, InCall, DoneNow>>
      BY <1>1, <1>2, <1>3, PoolInitRefines, PTL DEF PoolSpec
<1> QED BY <1>4 DEF ImplementsForkJoin, Abstract!Spec, DoneNow
=============================================================================
