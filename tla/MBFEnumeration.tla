--------------------------- MODULE MBFEnumeration ---------------------------
(***************************************************************************)
(* generateAllMBFsFast: threads enumerate the equivalence classes of       *)
(* monotonic Boolean functions, from the empty one upwards. They claim the *)
(* next class of the common list with a compare-and-swap, expand it, drop  *)
(* what is known already without taking the lock, and add the rest to the  *)
(* list under it. A thread that finds nothing to claim counts itself as    *)
(* waiting; when all are counted, they return.                             *)
(*                                                                         *)
(* Every access to an atomic is a step of its own. A local that is not     *)
(* read again is set to 0. The classes and their successors are a constant *)
(* graph, ranked by the number of bits.                                    *)
(***************************************************************************)
EXTENDS Integers, FiniteSets, Sequences

CONSTANTS
  Threads,
  Classes, Bot, Top,  \* the classes, getBot(), the one that isFull()
  Succ,               \* the classes with one bit more: findAllExpandedMBFsFast
  Rank,               \* the number of bits of a class
  Nobody

ASSUME GraphAssumption ==
  /\ IsFiniteSet(Classes) /\ Bot \in Classes /\ Top \in Classes
  /\ Succ \in [Classes -> SUBSET Classes]
\* Only the full MBF has all bits.
ASSUME RankAssumption ==
  /\ Rank \in [Classes -> Nat]
  /\ \A c \in Classes : \A d \in Succ[c] : Rank[d] = Rank[c] + 1
  /\ \A c \in Classes \ {Top} : Rank[c] < Rank[Top]
\* Every MBF is reached from the empty one bit by bit.
ASSUME ReachAssumption ==
  \A S \in SUBSET Classes :
    Bot \in S /\ (\A c \in S \ {Top} : Succ[c] \subseteq S) => S = Classes
ASSUME ThreadsAssumption == Nobody \notin Threads /\ IsFiniteSet(Threads) /\ Threads # {}

VARIABLES
  found,      \* foundMBFs, in the order of its data array
  known,      \* knownMBFs, as an index
  next,       \* nextToExpand, as an index
  waiting,    \* numberOfWaitingThreads
  links,      \* numberOfLinks
  mutex,      \* the holder of newMBFMutex
  pc,
  claim,      \* claimedNextToExpand
  upTo,
  unchecked,  \* expandedMBFs not yet looked up
  fresh,      \* expandedMBFs not found when looked up
  expanded    \* per class: how often it was expanded (history)

lists  == <<found, known, next, links, mutex, expanded>>
locals == <<claim, upTo, unchecked, fresh>>
vars   == <<lists, waiting, pc, locals>>

NumThreads == Cardinality(Threads)
Found      == {found[i] : i \in DOMAIN found}

EnumTypeOK ==
  /\ found \in Seq(Classes)
  /\ known \in Nat /\ next \in Nat /\ links \in Nat
  /\ waiting \in Int
  /\ mutex \in Threads \cup {Nobody}
  /\ pc \in [Threads -> {"load", "test", "cas", "expand", "filter", "adding",
                         "bump", "count", "sleep", "compare", "wake", "done"}]
  /\ claim \in [Threads -> Nat] /\ upTo \in [Threads -> Nat]
  /\ unchecked \in [Threads -> SUBSET Classes]
  /\ fresh \in [Threads -> SUBSET Classes]
  /\ expanded \in [Classes -> Nat]

\* getBot() is found and known before the threads start.
EnumInit ==
  /\ found = <<Bot>> /\ known = 1 /\ next = 0
  /\ waiting = 0 /\ links = 0 /\ mutex = Nobody
  /\ pc = [t \in Threads |-> "load"]
  /\ claim = [t \in Threads |-> 0] /\ upTo = [t \in Threads |-> 0]
  /\ unchecked = [t \in Threads |-> {}] /\ fresh = [t \in Threads |-> {}]
  /\ expanded = [c \in Classes |-> 0]

At(t, l)   == pc[t] = l
Goto(t, l) == pc' = [pc EXCEPT ![t] = l]

LoadNext(t) ==
  /\ At(t, "load") /\ Goto(t, "test")
  /\ claim' = [claim EXCEPT ![t] = next]
  /\ UNCHANGED <<lists, waiting, upTo, unchecked, fresh>>

\* Mutant: the last known class is taken for the end of the list.
LoadKnownShort(t) ==
  /\ At(t, "test") /\ Goto(t, IF claim[t] + 1 < known THEN "cas" ELSE "count")
  /\ upTo' = [upTo EXCEPT ![t] = IF claim[t] + 1 < known THEN 0 ELSE known]
  /\ claim' = [claim EXCEPT ![t] = IF claim[t] + 1 < known THEN @ ELSE 0]
  /\ UNCHANGED <<lists, waiting, unchecked, fresh>>

LoadKnown(t) ==
  /\ At(t, "test") /\ Goto(t, IF claim[t] < known THEN "cas" ELSE "count")
  /\ upTo' = [upTo EXCEPT ![t] = IF claim[t] < known THEN 0 ELSE known]
  /\ claim' = [claim EXCEPT ![t] = IF claim[t] < known THEN @ ELSE 0]
  /\ UNCHANGED <<lists, waiting, unchecked, fresh>>

\* compare_exchange_weak, which on x86 only fails when the value has changed; it
\* then leaves the new value in claimedNextToExpand.
Claim(t) ==
  /\ At(t, "cas")
  /\ IF next = claim[t]
     THEN next' = next + 1 /\ Goto(t, "expand") /\ UNCHANGED claim
     ELSE claim' = [claim EXCEPT ![t] = next] /\ Goto(t, "test") /\ UNCHANGED next
  /\ UNCHANGED <<found, known, links, mutex, expanded, waiting, upTo, unchecked, fresh>>

Claimed(t) == found[claim[t] + 1]

\* Mutant: the thread of the full MBF returns without being counted.
ReturnUncounted(t) ==
  /\ At(t, "expand") /\ Claimed(t) = Top /\ Goto(t, "done")
  /\ claim' = [claim EXCEPT ![t] = 0]
  /\ UNCHANGED <<lists, waiting, upTo, unchecked, fresh>>

\* The full MBF is not expanded; its thread returns, counted as waiting.
ReturnAtTop(t) ==
  /\ At(t, "expand") /\ Claimed(t) = Top
  /\ waiting' = waiting + 1 /\ Goto(t, "done")
  /\ claim' = [claim EXCEPT ![t] = 0]
  /\ UNCHANGED <<lists, upTo, unchecked, fresh>>

Expand(t) ==
  /\ At(t, "expand") /\ Claimed(t) # Top
  /\ unchecked' = [unchecked EXCEPT ![t] = Succ[Claimed(t)]]
  /\ links' = links + Cardinality(Succ[Claimed(t)])
  /\ expanded' = [expanded EXCEPT ![Claimed(t)] = @ + 1]
  /\ claim' = [claim EXCEPT ![t] = 0]
  /\ Goto(t, "filter")
  /\ UNCHANGED <<found, known, next, mutex, waiting, upTo, fresh>>

\* contains, without the lock, one class after the other; go on with the rest.
Filter(t) ==
  /\ At(t, "filter")
  /\ \E c \in unchecked[t] :
       /\ unchecked' = [unchecked EXCEPT ![t] = @ \ {c}]
       /\ fresh' = [fresh EXCEPT ![t] = IF c \in Found THEN @ ELSE @ \cup {c}]
  /\ Goto(t, IF unchecked'[t] # {} THEN "filter" ELSE IF fresh'[t] # {} THEN "adding" ELSE "load")
  /\ UNCHANGED <<lists, waiting, claim, upTo>>

\* Mutant: add trusts the lookup made before the lock.
AddUnchecked(t) ==
  /\ At(t, "adding") /\ mutex \in {Nobody, t}
  /\ \E c \in fresh[t] :
       /\ fresh' = [fresh EXCEPT ![t] = @ \ {c}]
       /\ found' = Append(found, c) /\ mutex' = t /\ Goto(t, "bump")
  /\ UNCHANGED <<known, next, links, expanded, waiting, claim, upTo, unchecked>>

\* With the lock (taken for the first class, released after the last), add looks
\* again: what is in the list by now is passed over, a new class is appended.
Add(t) ==
  /\ At(t, "adding") /\ mutex \in {Nobody, t}
  /\ \E c \in fresh[t] :
       /\ fresh' = [fresh EXCEPT ![t] = @ \ {c}]
       /\ \/ c \notin Found /\ found' = Append(found, c) /\ mutex' = t /\ Goto(t, "bump")
          \/ /\ c \in Found /\ UNCHANGED found
             /\ mutex' = IF fresh'[t] = {} THEN Nobody ELSE t
             /\ Goto(t, IF fresh'[t] = {} THEN "load" ELSE "adding")
  /\ UNCHANGED <<known, next, links, expanded, waiting, claim, upTo, unchecked>>

\* knownMBFs counts the class only after it is complete in the list.
Bump(t) ==
  /\ At(t, "bump") /\ known' = known + 1
  /\ mutex' = IF fresh[t] = {} THEN Nobody ELSE mutex
  /\ Goto(t, IF fresh[t] = {} THEN "load" ELSE "adding")
  /\ UNCHANGED <<found, next, links, expanded, waiting, locals>>

CountMe(t) ==
  /\ At(t, "count") /\ waiting' = waiting + 1 /\ Goto(t, "sleep")
  /\ UNCHANGED <<lists, locals>>

\* After 50 ms: return if all threads are counted.
SeeAllWaiting(t) ==
  /\ At(t, "sleep") /\ waiting = NumThreads /\ Goto(t, "done")
  /\ UNCHANGED <<lists, waiting, locals>>

SeeSomeWorking(t) ==
  /\ At(t, "sleep") /\ waiting # NumThreads /\ Goto(t, "compare")
  /\ UNCHANGED <<lists, waiting, locals>>

\* while(knownMBFs.load() != upTo): it sleeps on when there is new work, and looks
\* for work when there is none.
Compare(t) ==
  /\ At(t, "compare") /\ Goto(t, IF known # upTo[t] THEN "sleep" ELSE "wake")
  /\ UNCHANGED <<lists, waiting, locals>>

\* Mutant: a thread that wakes up stays counted.
WakeCounted(t) ==
  /\ At(t, "wake") /\ Goto(t, "load")
  /\ upTo' = [upTo EXCEPT ![t] = 0]
  /\ UNCHANGED <<lists, waiting, claim, unchecked, fresh>>

WakeUp(t) ==
  /\ At(t, "wake") /\ waiting' = waiting - 1 /\ Goto(t, "load")
  /\ upTo' = [upTo EXCEPT ![t] = 0]
  /\ UNCHANGED <<lists, claim, unchecked, fresh>>

Work(t) ==
  \/ LoadNext(t) \/ LoadKnown(t) \/ Claim(t) \/ ReturnAtTop(t) \/ Expand(t)
  \/ Filter(t) \/ Add(t) \/ Bump(t)
Rest(t) == CountMe(t) \/ SeeAllWaiting(t) \/ SeeSomeWorking(t) \/ Compare(t) \/ WakeUp(t)

Joined == \A t \in Threads : At(t, "done")

EnumNext ==
  \/ \E t \in Threads : Work(t) \/ Rest(t)
  \/ Joined /\ UNCHANGED vars

EnumSpec == EnumInit /\ [][EnumNext]_vars
\* Threads are scheduled. They sleep 50 ms between looks and count themselves in
\* far less, so one that is again and again about to look while all are counted
\* does so once.
FairEnumSpec ==
  /\ EnumSpec
  /\ \A t \in Threads : WF_vars(Work(t) \/ Rest(t)) /\ SF_vars(SeeAllWaiting(t))

----------------------------------------------------------------------------
(* Properties                                                              *)

\* However a lookup without the lock races with the additions, a class gets into
\* the list once, is claimed after it is complete there, and is expanded once.
FoundOnce ==
  /\ EnumTypeOK
  /\ \A i, j \in DOMAIN found : found[i] = found[j] => i = j
  /\ next <= known /\ known <= Len(found)
  /\ \A c \in Classes : expanded[c] <= 1
  /\ \A t, u \in Threads : At(t, "expand") /\ At(u, "expand") /\ claim[t] = claim[u] => t = u

HasWork(t) == pc[t] \in {"expand", "filter", "adding", "bump"}

\* When all threads are counted as waiting, nothing is left to expand and no
\* thread has a class in hand, although a counted thread may be about to wake
\* up, and the thread of the full MBF returned without looking for more.
AllWaitingMeansAllDone ==
  waiting = NumThreads =>
    next = Len(found) /\ \A t \in Threads : ~HasWork(t)

\* What generateAllMBFsFast returns: every class, and the number of links.
ResultComplete ==
  Joined => /\ Found = Classes
            /\ \A c \in Classes : expanded[c] = IF c = Top THEN 0 ELSE 1
            /\ links = Cardinality({e \in Classes \X Classes : e[1] # Top /\ e[2] \in Succ[e[1]]})

\* The enumeration returns, although sleepers wake up only when there is nothing
\* new, if again and again no thread is between waking up and counting itself:
\* without that, two threads can for ever look while the other one is awake.
Settled == \A t \in Threads : pc[t] \notin {"wake", "load", "test", "count"}
EnumerationReturns == []<>Settled => <>Joined
=============================================================================
