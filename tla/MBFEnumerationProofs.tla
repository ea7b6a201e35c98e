------------------------ MODULE MBFEnumerationProofs ------------------------
(***************************************************************************)
(* For every number of threads and every graph of classes: each class is   *)
(* found, claimed and expanded once; when all threads are counted as       *)
(* waiting there is nothing left to do; the result is complete.            *)
(***************************************************************************)
EXTENDS MBFEnumeration, FiniteSetTheorems, SequenceTheorems, TLAPS

(***************************************************************************)
(* The inductive invariant. Entries of the list are claimed from the front *)
(* on; the rest is unclaimed.                                              *)
(***************************************************************************)
Unclaimed == {i \in DOMAIN found : next < i}

\* known is one behind while a thread is about to count what it appended.
ListInv ==
  /\ \A i, j \in DOMAIN found : found[i] = found[j] => i = j
  /\ Len(found) > 0 /\ found[1] = Bot
  /\ next <= known /\ known <= Len(found) /\ Len(found) <= known + 1
  /\ \A t \in Threads : At(t, "bump") => mutex = t /\ Len(found) = known + 1
  /\ Len(found) = known + 1 => \E t \in Threads : At(t, "bump")

ClaimInv ==
  /\ \A t \in Threads :
       /\ pc[t] \in {"test", "cas"} => claim[t] <= next
       /\ At(t, "cas") => claim[t] < known
       /\ At(t, "expand") => claim[t] < next
  /\ \A t, u \in Threads : At(t, "expand") /\ At(u, "expand") /\ claim[t] = claim[u] => t = u

\* What a thread may still add to the list: successors of one class.
Pending(t) ==
  unchecked[t] \cup fresh[t] \cup (IF At(t, "expand") /\ Claimed(t) # Top THEN Succ[Claimed(t)] ELSE {})
HandInv ==
  \A t \in Threads :
    /\ unchecked[t] # {} => At(t, "filter")
    /\ fresh[t] # {} => pc[t] \in {"filter", "adding", "bump"}
    /\ \A x, y \in Pending(t) : Rank[x] = Rank[y]
    /\ At(t, "bump") => \A x \in Pending(t) : Rank[x] = Rank[found[Len(found)]]

\* The claimed classes are expanded but for those that a thread has just claimed.
ExpandInv ==
  /\ \A c \in Classes : expanded[c] \in {0, 1}
  /\ \A i \in DOMAIN found :
       expanded[found[i]] = 1 <=> /\ i <= next /\ found[i] # Top
                                  /\ \A t \in Threads : At(t, "expand") => claim[t] + 1 # i
  /\ \A c \in Classes : expanded[c] = 1 =>
       /\ c \in Found
       /\ \A d \in Succ[c] : d \in Found \/ \E t \in Threads : d \in unchecked[t] \cup fresh[t]

Edges(S) == {e \in Classes \X Classes : e[1] \in S /\ e[2] \in Succ[e[1]]}
LinksInv == links = Cardinality(Edges({c \in Classes : expanded[c] = 1}))

Counted(t) == pc[t] \in {"sleep", "compare", "wake", "done"}
CountInv   == waiting = Cardinality({t \in Threads : Counted(t)})

\* A live thread will look for work before it counts itself.
Live(t) == \/ pc[t] \in {"load", "test", "cas", "filter", "adding", "bump"}
           \/ At(t, "expand") /\ Claimed(t) # Top
Alone(t) == Live(t) /\ \A u \in Threads \ {t} : ~Live(u)
TopUnclaimed == \A i \in DOMAIN found : i <= next => found[i] # Top

\* The last live thread works breadth first, which puts the full MBF behind all
\* others: the thread that claims it leaves nothing behind.
LiveInv == next < Len(found) => \E t \in Threads : Live(t)
BreadthInv ==
  TopUnclaimed => \A t \in Threads : Alone(t) =>
    /\ \A i, j \in Unclaimed : i <= j => Rank[found[i]] <= Rank[found[j]]
                                         /\ Rank[found[j]] <= Rank[found[i]] + 1
    /\ \A x \in Pending(t), i \in Unclaimed : Rank[x] <= Rank[found[i]] + 1
                                              /\ Rank[found[i]] <= Rank[x]

EnumInv == /\ EnumTypeOK /\ ListInv /\ ClaimInv /\ HandInv /\ ExpandInv /\ LinksInv
           /\ CountInv /\ LiveInv /\ BreadthInv

(***************************************************************************)
(* Types.                                                                  *)
(***************************************************************************)
USE DEF At

Labels == {"load", "test", "cas", "expand", "filter", "adding", "bump",
           "count", "sleep", "compare", "wake", "done"}

LEMMA TypeInit == EnumInit => EnumTypeOK
<1> SUFFICES ASSUME EnumInit PROVE EnumTypeOK OBVIOUS
<1>1. found \in Seq(Classes)  BY GraphAssumption DEF EnumInit
<1> QED BY <1>1 DEF EnumInit, EnumTypeOK

\* What add does to the list: the class goes behind all others.
LEMMA Appended ==
  ASSUME NEW c \in Classes, found \in Seq(Classes), found' = Append(found, c)
  PROVE  /\ found' \in Seq(Classes) /\ Len(found') = Len(found) + 1
         /\ DOMAIN found = 1 .. Len(found) /\ DOMAIN found' = 1 .. Len(found) + 1
         /\ \A i \in DOMAIN found : found'[i] = found[i]
         /\ found'[Len(found) + 1] = c
         /\ Len(found) \in Nat
BY AppendProperties, LenProperties

\* A step of a thread to a label changes no other thread's label.
LEMMA Moved ==
  ASSUME EnumTypeOK, NEW t \in Threads, NEW l, Goto(t, l)
  PROVE  /\ pc'[t] = l /\ \A u \in Threads \ {t} : pc'[u] = pc[u]
         /\ l \in Labels => pc' \in [Threads -> Labels]
BY DEF EnumTypeOK, Goto, Labels

\* The class a thread has claimed is one of the list.
LEMMA ClaimedIsFound ==
  ASSUME EnumTypeOK, ListInv, ClaimInv, NEW t \in Threads, At(t, "expand")
  PROVE  /\ claim[t] + 1 \in DOMAIN found /\ claim[t] + 1 <= next
         /\ Claimed(t) = found[claim[t] + 1] /\ Claimed(t) \in Classes
<1>1. Len(found) \in Nat /\ DOMAIN found = 1 .. Len(found)
      BY LenProperties DEF EnumTypeOK
<1>0. claim[t] < next /\ claim[t] \in Nat /\ next \in Nat /\ known \in Nat
      BY DEF EnumTypeOK, ClaimInv
<1>a. next <= known /\ known <= Len(found)  BY DEF ListInv
<1>2. claim[t] + 1 \in 1 .. Len(found) /\ claim[t] + 1 <= next
      BY <1>0, <1>a, <1>1
<1>3. found \in [1 .. Len(found) -> Classes]
      BY LenProperties DEF EnumTypeOK
<1>4. found[claim[t] + 1] \in Classes  BY <1>2, <1>3
<1>5. Claimed(t) = found[claim[t] + 1]  BY DEF Claimed
<1> QED BY <1>1, <1>2, <1>4, <1>5

LEMMA TypeStep == EnumTypeOK /\ ListInv /\ ClaimInv /\ [EnumNext]_vars => EnumTypeOK'
<1> SUFFICES ASSUME EnumTypeOK, ListInv, ClaimInv, [EnumNext]_vars PROVE EnumTypeOK'
    OBVIOUS
<1> USE DEF EnumTypeOK, lists, locals
<1>1. ASSUME NEW t \in Threads, LoadNext(t) PROVE EnumTypeOK'
      BY <1>1, Moved DEF LoadNext, Labels
<1>2. ASSUME NEW t \in Threads, LoadKnown(t) PROVE EnumTypeOK'
      BY <1>2, Moved DEF LoadKnown, Labels
<1>3. ASSUME NEW t \in Threads, Claim(t) PROVE EnumTypeOK'
      BY <1>3, Moved DEF Claim, Labels
<1>4. ASSUME NEW t \in Threads, ReturnAtTop(t) PROVE EnumTypeOK'
      BY <1>4, Moved DEF ReturnAtTop, Labels
<1>5. ASSUME NEW t \in Threads, Expand(t) PROVE EnumTypeOK'
  <2>1. Claimed(t) \in Classes  BY <1>5, ClaimedIsFound DEF Expand
  <2>2. Succ[Claimed(t)] \in SUBSET Classes  BY <2>1, GraphAssumption
  <2>3. Cardinality(Succ[Claimed(t)]) \in Nat
        BY <2>2, GraphAssumption, FS_Subset, FS_CardinalityType
  <2> QED BY <1>5, <2>1, <2>2, <2>3, Moved DEF Expand, Labels
<1>6. ASSUME NEW t \in Threads, Filter(t) PROVE EnumTypeOK'
  <2>1. PICK l \in Labels : Goto(t, l)  BY <1>6 DEF Filter, Labels
  <2>2. pc' \in [Threads -> Labels]  BY <2>1, Moved
  <2>3. unchecked' \in [Threads -> SUBSET Classes] /\ fresh' \in [Threads -> SUBSET Classes]
        BY <1>6 DEF Filter
  <2> QED BY <1>6, <2>2, <2>3 DEF Filter, Labels
<1>7. ASSUME NEW t \in Threads, Add(t) PROVE EnumTypeOK'
  <2>1. PICK c \in fresh[t] :
          /\ fresh' = [fresh EXCEPT ![t] = @ \ {c}]
          /\ \/ found' = Append(found, c) /\ mutex' = t
             \/ UNCHANGED found /\ mutex' \in {Nobody, t}
        BY <1>7 DEF Add
  <2>2. PICK l \in Labels : Goto(t, l)  BY <1>7 DEF Add, Labels
  <2>3. pc' \in [Threads -> Labels]  BY <2>2, Moved
  <2>4. found' \in Seq(Classes) /\ mutex' \in Threads \cup {Nobody}
        BY <2>1, Appended
  <2> QED BY <1>7, <2>1, <2>3, <2>4 DEF Add, Labels
<1>8. ASSUME NEW t \in Threads, Bump(t) PROVE EnumTypeOK'
  <2>1. PICK l \in Labels : Goto(t, l)  BY <1>8 DEF Bump, Labels
  <2>2. pc' \in [Threads -> Labels]  BY <2>1, Moved
  <2> QED BY <1>8, <2>2 DEF Bump, Labels
<1>9. ASSUME NEW t \in Threads, Rest(t) PROVE EnumTypeOK'
  <2>1. PICK l \in Labels : Goto(t, l)
        BY <1>9 DEF Rest, CountMe, SeeAllWaiting, SeeSomeWorking, Compare, WakeUp, Labels
  <2>2. pc' \in [Threads -> Labels]  BY <2>1, Moved
  <2>3. waiting' \in Int
        BY <1>9 DEF Rest, CountMe, SeeAllWaiting, SeeSomeWorking, Compare, WakeUp
  <2>5. upTo' = upTo \/ upTo' = [upTo EXCEPT ![t] = 0]
        BY <1>9 DEF Rest, CountMe, SeeAllWaiting, SeeSomeWorking, Compare, WakeUp
  <2>4. UNCHANGED <<found, known, next, links, mutex, expanded, claim, unchecked, fresh>>
        BY <1>9 DEF Rest, CountMe, SeeAllWaiting, SeeSomeWorking, Compare, WakeUp
  <2> QED BY <2>2, <2>3, <2>4, <2>5 DEF Labels
<1>10. CASE UNCHANGED vars  BY <1>10 DEF vars
<1> QED BY <1>1, <1>2, <1>3, <1>4, <1>5, <1>6, <1>7, <1>8, <1>9, <1>10 DEF EnumNext, Work

(***************************************************************************)
(* The list.                                                               *)
(***************************************************************************)
LEMMA ListKept ==
  ASSUME ListInv, UNCHANGED <<found, known, mutex>>, next' = next \/ next' <= known,
         \A u \in Threads : At(u, "bump")' <=> At(u, "bump")
  PROVE  ListInv'
BY DEF ListInv

\* Only one thread at a time is between appending and counting.
LEMMA ListStep ==
  ASSUME EnumTypeOK, ListInv, ClaimInv, [EnumNext]_vars
  PROVE  ListInv'
<1> USE DEF lists, locals
<1>0. Len(found) \in Nat /\ DOMAIN found = 1 .. Len(found) /\ known \in Nat /\ next \in Nat
      BY LenProperties DEF EnumTypeOK
<1>1. ASSUME NEW t \in Threads, LoadNext(t) PROVE ListInv'
      BY <1>1, Moved, ListKept DEF LoadNext
<1>2. ASSUME NEW t \in Threads, LoadKnown(t) PROVE ListInv'
      BY <1>2, Moved, ListKept DEF LoadKnown
<1>3. ASSUME NEW t \in Threads, Claim(t) PROVE ListInv'
  <2>1. claim[t] \in Nat /\ claim[t] < known  BY <1>3 DEF EnumTypeOK, ClaimInv, Claim
  <2>2. next' = next \/ next' <= known  BY <1>0, <1>3, <2>1 DEF Claim
  <2> QED BY <1>3, <2>2, Moved, ListKept DEF Claim
<1>4. ASSUME NEW t \in Threads, ReturnAtTop(t) PROVE ListInv'
      BY <1>4, Moved, ListKept DEF ReturnAtTop
<1>5. ASSUME NEW t \in Threads, Expand(t) PROVE ListInv'
      BY <1>5, Moved, ListKept DEF Expand
<1>6. ASSUME NEW t \in Threads, Filter(t) PROVE ListInv'
      BY <1>6, Moved, ListKept DEF Filter
<1>7. ASSUME NEW t \in Threads, Add(t) PROVE ListInv'
  <2>1. \A u \in Threads : ~At(u, "bump")
        BY <1>7, ThreadsAssumption DEF Add, ListInv
  <2>a. Len(found) # known + 1  BY <2>1 DEF ListInv
  <2>b. known <= Len(found) /\ Len(found) <= known + 1  BY DEF ListInv
  <2>c. Len(found) \in Int /\ known \in Int  BY <1>0
  <2>d. \A x, y \in Int : y <= x /\ x <= y + 1 /\ x # y + 1 => x = y  OBVIOUS
  <2>2. Len(found) = known  BY ONLY <2>a, <2>b, <2>c, <2>d
  <2>3. PICK c \in fresh[t] :
          \/ c \notin Found /\ found' = Append(found, c) /\ mutex' = t /\ Goto(t, "bump")
          \/ /\ c \in Found /\ UNCHANGED found
             /\ \E l \in {"load", "adding"} : Goto(t, l)
        BY <1>7 DEF Add
  <2>4. UNCHANGED <<known, next>>  BY <1>7 DEF Add
  <2>5. CASE c \notin Found /\ found' = Append(found, c) /\ mutex' = t /\ Goto(t, "bump")
    <3>1. c \in Classes  BY DEF EnumTypeOK
    <3>2. /\ Len(found') = known + 1 /\ DOMAIN found' = 1 .. known + 1
          /\ \A i \in DOMAIN found : found'[i] = found[i]
          /\ found'[known + 1] = c
          BY <2>2, <2>5, <3>1, Appended DEF EnumTypeOK
    <3>3. \A i \in DOMAIN found : found[i] # c  BY <2>5 DEF Found
    <3>4. \A i, j \in DOMAIN found' : found'[i] = found'[j] => i = j
          BY <1>0, <2>2, <3>2, <3>3 DEF ListInv
    <3>5. Len(found') > 0 /\ found'[1] = Bot
          BY <1>0, <2>2, <3>2 DEF ListInv
    <3>6. \A u \in Threads : At(u, "bump")' => u = t
          BY <2>1, <2>5, Moved
    <3>7. At(t, "bump")'  BY <2>5, Moved
    <3>8. next <= known  BY DEF ListInv
    <3>9. next' <= known' /\ known' <= Len(found') /\ Len(found') <= known' + 1 /\ Len(found') = known' + 1
          BY <1>0, <2>4, <3>2, <3>8
    <3> QED BY <2>5, <3>4, <3>5, <3>6, <3>7, <3>9 DEF ListInv
  <2>6. CASE UNCHANGED found /\ \E l \in {"load", "adding"} : Goto(t, l)
    <3>1. \A u \in Threads : ~At(u, "bump")'
          BY <2>1, <2>6, Moved
    <3> QED BY <2>1, <2>2, <2>4, <2>6, <3>1, <1>0 DEF ListInv
  <2> QED BY <2>3, <2>5, <2>6
<1>8. ASSUME NEW t \in Threads, Bump(t) PROVE ListInv'
  <2>1. mutex = t /\ Len(found) = known + 1 /\ \A u \in Threads : At(u, "bump") => u = t
        BY <1>8 DEF Bump, ListInv
  <2>2. UNCHANGED <<found, next>> /\ known' = known + 1 /\ \E l \in {"load", "adding"} : Goto(t, l)
        BY <1>8 DEF Bump
  <2>3. \A u \in Threads : ~At(u, "bump")'
        BY <2>1, <2>2, Moved
  <2> QED BY <1>0, <2>1, <2>2, <2>3 DEF ListInv
<1>9. ASSUME NEW t \in Threads, Rest(t) PROVE ListInv'
  <2>1. PICK l \in Labels \ {"bump"} : Goto(t, l)
        BY <1>9 DEF Rest, CountMe, SeeAllWaiting, SeeSomeWorking, Compare, WakeUp, Labels
  <2>2. UNCHANGED <<found, known, next, mutex>> /\ ~At(t, "bump")
        BY <1>9 DEF Rest, CountMe, SeeAllWaiting, SeeSomeWorking, Compare, WakeUp
  <2> QED BY <2>1, <2>2, Moved, ListKept
<1>10. CASE UNCHANGED vars  BY <1>10, ListKept DEF vars
<1> QED BY <1>1, <1>2, <1>3, <1>4, <1>5, <1>6, <1>7, <1>8, <1>9, <1>10 DEF EnumNext, Work

(***************************************************************************)
(* Claims.                                                                 *)
(***************************************************************************)
LEMMA ClaimStep ==
  ASSUME EnumTypeOK, ListInv, ClaimInv, [EnumNext]_vars
  PROVE  ClaimInv'
<1> USE DEF lists, locals
<1>0. known \in Nat /\ next \in Nat /\ next <= known /\ \A u \in Threads : claim[u] \in Nat
      BY DEF EnumTypeOK, ListInv
\* Another thread's claim stays behind pointers that only grow.
<1>a. ASSUME NEW t \in Threads, NEW l, Goto(t, l), l \notin {"test", "cas", "expand"},
             next' = next, known' = known \/ known' = known + 1,
             \A u \in Threads \ {t} : claim'[u] = claim[u]
      PROVE  ClaimInv'
  <2>1. \A u \in Threads : pc'[u] \in {"test", "cas", "expand"} =>
          u # t /\ pc'[u] = pc[u] /\ claim'[u] = claim[u]
        BY <1>a, Moved
  <2> QED BY <1>0, <1>a, <2>1 DEF ClaimInv
<1>1. ASSUME NEW t \in Threads, LoadNext(t) PROVE ClaimInv'
  <2>1. /\ claim'[t] = next /\ pc'[t] = "test"
        /\ \A u \in Threads \ {t} : pc'[u] = pc[u] /\ claim'[u] = claim[u]
        BY <1>1, Moved DEF LoadNext, EnumTypeOK
  <2>2. UNCHANGED <<known, next>>  BY <1>1 DEF LoadNext
  <2> QED BY <1>0, <2>1, <2>2 DEF ClaimInv
<1>2. ASSUME NEW t \in Threads, LoadKnown(t) PROVE ClaimInv'
  <2>1. UNCHANGED <<known, next>>  BY <1>2 DEF LoadKnown
  <2>2. CASE claim[t] < known
    <3>1. /\ claim'[t] = claim[t] /\ pc'[t] = "cas" /\ claim[t] <= next
          /\ \A u \in Threads \ {t} : pc'[u] = pc[u] /\ claim'[u] = claim[u]
          BY <1>2, <2>2, Moved DEF LoadKnown, EnumTypeOK, ClaimInv
    <3> QED BY <1>0, <2>1, <2>2, <3>1 DEF ClaimInv
  <2>3. CASE ~(claim[t] < known)
    <3>1. Goto(t, "count") /\ \A u \in Threads \ {t} : claim'[u] = claim[u]
          BY <1>2, <2>3 DEF LoadKnown, EnumTypeOK
    <3> QED BY <2>1, <3>1, <1>a
  <2> QED BY <2>2, <2>3
<1>3. ASSUME NEW t \in Threads, Claim(t) PROVE ClaimInv'
  <2>0. claim[t] < known /\ At(t, "cas") /\ UNCHANGED known  BY <1>3 DEF Claim, ClaimInv
  <2>1. CASE next = claim[t]
    <3>1. /\ next' = next + 1 /\ claim' = claim /\ pc'[t] = "expand"
          /\ \A u \in Threads \ {t} : pc'[u] = pc[u]
          BY <1>3, <2>1, Moved DEF Claim
    <3> QED BY <1>0, <2>0, <2>1, <3>1 DEF ClaimInv
  <2>2. CASE next # claim[t]
    <3>1. /\ next' = next /\ claim'[t] = next /\ pc'[t] = "test"
          /\ \A u \in Threads \ {t} : pc'[u] = pc[u] /\ claim'[u] = claim[u]
          BY <1>3, <2>2, Moved DEF Claim, EnumTypeOK
    <3> QED BY <1>0, <2>0, <3>1 DEF ClaimInv
  <2> QED BY <2>1, <2>2
<1>4. ASSUME NEW t \in Threads, ReturnAtTop(t) \/ Expand(t) \/ Filter(t) \/ Add(t) \/ Bump(t) \/ Rest(t)
      PROVE  ClaimInv'
  <2>1. \E l \in Labels \ {"test", "cas", "expand"} : Goto(t, l)
        BY <1>4 DEF ReturnAtTop, Expand, Filter, Add, Bump,
                    Rest, CountMe, SeeAllWaiting, SeeSomeWorking, Compare, WakeUp, Labels
  <2>2. next' = next /\ (known' = known \/ known' = known + 1)
        BY <1>4 DEF ReturnAtTop, Expand, Filter, Add, Bump,
                    Rest, CountMe, SeeAllWaiting, SeeSomeWorking, Compare, WakeUp
  <2>3. claim' = claim \/ claim' = [claim EXCEPT ![t] = 0]
        BY <1>4 DEF ReturnAtTop, Expand, Filter, Add, Bump,
                    Rest, CountMe, SeeAllWaiting, SeeSomeWorking, Compare, WakeUp
  <2> QED BY <2>1, <2>2, <2>3, <1>a DEF EnumTypeOK
<1>5. CASE UNCHANGED vars  BY <1>5 DEF vars, ClaimInv
<1> QED BY <1>1, <1>2, <1>3, <1>4, <1>5 DEF EnumNext, Work

(***************************************************************************)
(* What a step of a thread may change.                                     *)
(***************************************************************************)
LEMMA OthersKept ==
  ASSUME EnumTypeOK, NEW t \in Threads, Work(t) \/ Rest(t), NEW u \in Threads \ {t}
  PROVE  /\ pc'[u] = pc[u] /\ claim'[u] = claim[u]
         /\ unchecked'[u] = unchecked[u] /\ fresh'[u] = fresh[u]
<1>1. \E l \in Labels : Goto(t, l)
      BY DEF Work, LoadNext, LoadKnown, Claim, ReturnAtTop, Expand, Filter, Add, Bump,
             Rest, CountMe, SeeAllWaiting, SeeSomeWorking, Compare, WakeUp, Labels
<1>2. claim' = claim \/ \E x \in Nat : claim' = [claim EXCEPT ![t] = x]
      BY DEF Work, LoadNext, LoadKnown, Claim, ReturnAtTop, Expand, Filter, Add, Bump, EnumTypeOK,
             Rest, CountMe, SeeAllWaiting, SeeSomeWorking, Compare, WakeUp, locals
<1>3. unchecked' = unchecked \/ \E x : unchecked' = [unchecked EXCEPT ![t] = x]
      BY DEF Work, LoadNext, LoadKnown, Claim, ReturnAtTop, Expand, Filter, Add, Bump,
             Rest, CountMe, SeeAllWaiting, SeeSomeWorking, Compare, WakeUp, locals
<1>4. fresh' = fresh \/ \E x : fresh' = [fresh EXCEPT ![t] = x]
      BY DEF Work, LoadNext, LoadKnown, Claim, ReturnAtTop, Expand, Filter, Add, Bump,
             Rest, CountMe, SeeAllWaiting, SeeSomeWorking, Compare, WakeUp, locals
<1>5. pc'[u] = pc[u]  BY <1>1, Moved
<1>6. claim'[u] = claim[u]  BY <1>2 DEF EnumTypeOK
<1>7. unchecked'[u] = unchecked[u]  BY <1>3 DEF EnumTypeOK
<1>8. fresh'[u] = fresh[u]  BY <1>4 DEF EnumTypeOK
<1> QED BY <1>5, <1>6, <1>7, <1>8

\* The list only grows, at its end, and with a class one of its threads had found new.
LEMMA Grown ==
  ASSUME EnumTypeOK, NEW t \in Threads, Work(t) \/ Rest(t)
  PROVE  \/ UNCHANGED found
         \/ /\ Add(t) /\ UNCHANGED <<next, known>>
            /\ \E c \in fresh[t] : /\ c \notin Found /\ found' = Append(found, c)
                                   /\ fresh' = [fresh EXCEPT ![t] = @ \ {c}]
                                   /\ pc'[t] = "bump"
<1>1. CASE Add(t)  BY <1>1, Moved DEF Add
<1>2. CASE ~Add(t)
      BY <1>2 DEF Work, LoadNext, LoadKnown, Claim, ReturnAtTop, Expand, Filter, Bump,
             Rest, CountMe, SeeAllWaiting, SeeSomeWorking, Compare, WakeUp, lists
<1> QED BY <1>1, <1>2

LEMMA EntriesKept ==
  ASSUME EnumTypeOK, NEW t \in Threads, Work(t) \/ Rest(t), NEW i \in DOMAIN found
  PROVE  i \in DOMAIN found' /\ found'[i] = found[i]
<1>1. CASE UNCHANGED found  BY <1>1
<1>2. CASE \E c \in fresh[t] : found' = Append(found, c)
  <2>1. PICK c \in fresh[t] : found' = Append(found, c)  BY <1>2
  <2>2. c \in Classes  BY <2>1 DEF EnumTypeOK
  <2>3. DOMAIN found = 1 .. Len(found) /\ DOMAIN found' = 1 .. Len(found) + 1 /\ Len(found) \in Nat
        BY <2>1, <2>2, Appended DEF EnumTypeOK
  <2>4. found'[i] = found[i]  BY <2>1, <2>2, Appended DEF EnumTypeOK
  <2> QED BY <2>3, <2>4
<1> QED BY <1>1, <1>2, Grown

LEMMA OthersPending ==
  ASSUME EnumTypeOK, ListInv, ClaimInv, NEW t \in Threads, Work(t) \/ Rest(t),
         NEW u \in Threads \ {t}
  PROVE  Pending(u)' = Pending(u) /\ (Live(u)' <=> Live(u))
<1>1. /\ pc'[u] = pc[u] /\ claim'[u] = claim[u]
      /\ unchecked'[u] = unchecked[u] /\ fresh'[u] = fresh[u]
      BY OthersKept
<1>2. ASSUME At(u, "expand") PROVE Claimed(u)' = Claimed(u)
  <2>1. claim[u] + 1 \in DOMAIN found  BY <1>2, ClaimedIsFound
  <2>2. found'[claim[u] + 1] = found[claim[u] + 1]  BY <2>1, EntriesKept
  <2> QED BY <1>1, <2>2 DEF Claimed
<1>3. Pending(u)' = Pending(u)  BY <1>1, <1>2 DEF Pending
<1>4. Live(u)' <=> Live(u)  BY <1>1, <1>2 DEF Live
<1> QED BY <1>3, <1>4

LEMMA InitLemma == EnumInit => EnumInv
<1> SUFFICES ASSUME EnumInit PROVE EnumInv OBVIOUS
<1>0. Len(found) = 1 /\ DOMAIN found = 1 .. 1 /\ found[1] = Bot
      BY GraphAssumption DEF EnumInit
<1>1. EnumTypeOK  BY TypeInit
<1>2. ListInv  BY <1>0 DEF EnumInit, ListInv
<1>3. ClaimInv  BY DEF EnumInit, ClaimInv
<1>4. \A t \in Threads : Pending(t) = {}  BY DEF EnumInit, Pending
<1>5. HandInv  BY <1>4 DEF EnumInit, HandInv
<1>6. ExpandInv
  <2>1. \A c \in Classes : expanded[c] = 0  BY DEF EnumInit
  <2>2. \A i \in DOMAIN found : expanded[found[i]] = 0 /\ ~(i <= next)
        BY <1>0, <2>1, GraphAssumption DEF EnumInit
  <2> QED BY <2>1, <2>2 DEF ExpandInv
<1>7. LinksInv
  <2>1. {c \in Classes : expanded[c] = 1} = {}  BY DEF EnumInit
  <2>2. Edges({}) = {}  BY DEF Edges
  <2> QED BY <2>1, <2>2, FS_EmptySet DEF LinksInv, EnumInit
<1>8. CountInv
  <2>1. {t \in Threads : Counted(t)} = {}  BY DEF EnumInit, Counted
  <2> QED BY <2>1, FS_EmptySet DEF CountInv, EnumInit
<1>9. LiveInv  BY ThreadsAssumption DEF LiveInv, Live, EnumInit
<1>10. BreadthInv
  <2>1. Unclaimed = {1}  BY <1>0 DEF Unclaimed, EnumInit
  <2>2. Rank[Bot] \in Nat  BY GraphAssumption, RankAssumption
  <2> QED BY <1>0, <1>4, <2>1, <2>2 DEF BreadthInv
<1> QED BY <1>1, <1>2, <1>3, <1>5, <1>6, <1>7, <1>8, <1>9, <1>10 DEF EnumInv

(***************************************************************************)
(* What the threads have in hand.                                          *)
(***************************************************************************)
LEMMA SetsStep ==
  ASSUME EnumTypeOK, HandInv, NEW t \in Threads, Work(t) \/ Rest(t)
  PROVE  /\ unchecked'[t] # {} => pc'[t] = "filter"
         /\ fresh'[t] # {} => pc'[t] \in {"filter", "adding", "bump"}
<1> USE DEF HandInv, EnumTypeOK, locals
<1>1. CASE LoadNext(t) \/ LoadKnown(t) \/ Claim(t) \/ ReturnAtTop(t) \/ Rest(t)
  <2>1. UNCHANGED <<unchecked, fresh>>
        BY <1>1 DEF LoadNext, LoadKnown, Claim, ReturnAtTop,
                    Rest, CountMe, SeeAllWaiting, SeeSomeWorking, Compare, WakeUp
  <2>2. pc[t] \notin {"filter", "adding", "bump"}
        BY <1>1 DEF LoadNext, LoadKnown, Claim, ReturnAtTop,
                    Rest, CountMe, SeeAllWaiting, SeeSomeWorking, Compare, WakeUp
  <2> QED BY <2>1, <2>2
<1>2. CASE Expand(t)
  <2>1. pc'[t] = "filter" /\ fresh' = fresh /\ fresh[t] = {}  BY <1>2, Moved DEF Expand
  <2> QED BY <2>1
<1>3. CASE Filter(t)
  <2>1. pc'[t] = IF unchecked'[t] # {} THEN "filter" ELSE IF fresh'[t] # {} THEN "adding" ELSE "load"
        BY <1>3, Moved DEF Filter
  <2> QED BY <2>1
<1>4. CASE Add(t)
  <2>1. unchecked' = unchecked /\ unchecked[t] = {}  BY <1>4 DEF Add
  <2>2. pc'[t] = "bump" \/ pc'[t] = IF fresh'[t] = {} THEN "load" ELSE "adding"
        BY <1>4, Moved DEF Add
  <2> QED BY <2>1, <2>2
<1>5. CASE Bump(t)
  <2>1. unchecked' = unchecked /\ unchecked[t] = {} /\ fresh' = fresh  BY <1>5 DEF Bump
  <2>2. pc'[t] = IF fresh[t] = {} THEN "load" ELSE "adding"  BY <1>5, Moved DEF Bump
  <2> QED BY <2>1, <2>2
<1> QED BY <1>1, <1>2, <1>3, <1>4, <1>5 DEF Work
\* A step of t is one of five kinds, for the list and for what t is going to do.
LEMMA StepKinds ==
  ASSUME EnumTypeOK, ListInv, ClaimInv, HandInv, NEW t \in Threads, Work(t) \/ Rest(t)
  PROVE  \/ UNCHANGED <<found, next>> /\ (Live(t)' <=> Live(t)) /\ Pending(t)' \subseteq Pending(t)
         \/ /\ UNCHANGED <<found, next>> /\ At(t, "test") /\ ~(claim[t] < known)
            /\ ~Live(t)' /\ Pending(t)' \subseteq Pending(t)
         \/ UNCHANGED <<found, next>> /\ ~Live(t) /\ Live(t)' /\ Pending(t)' \subseteq Pending(t)
         \/ /\ UNCHANGED <<found, claim, unchecked, fresh>> /\ At(t, "cas") /\ pc'[t] = "expand"
            /\ next = claim[t] /\ next < known /\ next' = next + 1
         \/ /\ UNCHANGED next /\ At(t, "adding") /\ pc'[t] = "bump"
            /\ \E c \in fresh[t] : c \notin Found /\ found' = Append(found, c)
            /\ Pending(t)' \subseteq Pending(t)
<1> USE DEF EnumTypeOK, lists, locals
<1>0. /\ unchecked[t] # {} => At(t, "filter")
      /\ fresh[t] # {} => pc[t] \in {"filter", "adding", "bump"}
      BY DEF HandInv
<1>1. CASE LoadNext(t)
  <2>1. pc[t] = "load" /\ pc'[t] = "test" /\ UNCHANGED <<found, next, unchecked, fresh>>
        BY <1>1, Moved DEF LoadNext
  <2> QED BY <2>1 DEF Pending, Live
<1>2. CASE LoadKnown(t)
  <2>1. pc[t] = "test" /\ UNCHANGED <<found, next, unchecked, fresh>>
        /\ pc'[t] = IF claim[t] < known THEN "cas" ELSE "count"
        BY <1>2, Moved DEF LoadKnown
  <2> QED BY <2>1 DEF Pending, Live
<1>3. CASE Claim(t)
  <2>1. CASE next = claim[t]
    <3>1. claim[t] < known  BY <1>3 DEF Claim, ClaimInv
    <3> QED BY <1>3, <2>1, <3>1, Moved DEF Claim
  <2>2. CASE next # claim[t]
    <3>1. pc[t] = "cas" /\ pc'[t] = "test" /\ UNCHANGED <<found, next, unchecked, fresh>>
          BY <1>3, <2>2, Moved DEF Claim
    <3> QED BY <3>1 DEF Pending, Live
  <2> QED BY <2>1, <2>2
<1>4. CASE ReturnAtTop(t)
  <2>1. /\ pc[t] = "expand" /\ Claimed(t) = Top /\ pc'[t] = "done"
        /\ UNCHANGED <<found, next, unchecked, fresh>>
        BY <1>4, Moved DEF ReturnAtTop
  <2> QED BY <2>1 DEF Pending, Live
<1>5. CASE Expand(t)
  <2>1. /\ pc[t] = "expand" /\ Claimed(t) # Top /\ pc'[t] = "filter"
        /\ UNCHANGED <<found, next, fresh>> /\ unchecked'[t] = Succ[Claimed(t)]
        BY <1>5, Moved DEF Expand
  <2> QED BY <2>1 DEF Pending, Live
<1>6. CASE Filter(t)
  <2>1. pc[t] = "filter" /\ UNCHANGED <<found, next>>  BY <1>6 DEF Filter
  <2>2. pc'[t] \in {"filter", "adding", "load"}
        BY <1>6, Moved DEF Filter
  <2>3. unchecked'[t] \cup fresh'[t] \subseteq unchecked[t] \cup fresh[t]
        BY <1>6 DEF Filter
  <2> QED BY <2>1, <2>2, <2>3 DEF Pending, Live
<1>7. CASE Add(t)
  <2>1. pc[t] = "adding" /\ UNCHANGED <<next, unchecked>>  BY <1>7 DEF Add
  <2>2. PICK c \in fresh[t] :
          /\ fresh' = [fresh EXCEPT ![t] = @ \ {c}]
          /\ \/ c \notin Found /\ found' = Append(found, c) /\ pc'[t] = "bump"
             \/ UNCHANGED found /\ pc'[t] \in {"load", "adding"}
        BY <1>7, Moved DEF Add
  <2>3. fresh'[t] \subseteq fresh[t]  BY <2>2
  <2>4. pc'[t] \in {"load", "adding", "bump"}  BY <2>2
  <2>5. Pending(t)' \subseteq Pending(t)  BY <2>1, <2>3, <2>4 DEF Pending
  <2>6. Live(t)' /\ Live(t)  BY <2>1, <2>4 DEF Live
  <2> QED BY <2>1, <2>2, <2>5, <2>6
<1>8. CASE Bump(t)
  <2>1. /\ pc[t] = "bump" /\ pc'[t] \in {"load", "adding"}
        /\ UNCHANGED <<found, next, unchecked, fresh>>
        BY <1>8, Moved DEF Bump
  <2> QED BY <2>1 DEF Pending, Live
<1>9. CASE CountMe(t) \/ SeeAllWaiting(t) \/ SeeSomeWorking(t) \/ Compare(t)
  <2>1. /\ pc[t] \in {"count", "sleep", "compare"}
        /\ pc'[t] \in {"sleep", "done", "compare", "wake"}
        /\ UNCHANGED <<found, next, unchecked, fresh>>
        BY <1>9, Moved DEF CountMe, SeeAllWaiting, SeeSomeWorking, Compare
  <2> QED BY <2>1 DEF Pending, Live
<1>10. CASE WakeUp(t)
  <2>1. pc[t] = "wake" /\ pc'[t] = "load" /\ UNCHANGED <<found, next, unchecked, fresh>>
        BY <1>10, Moved DEF WakeUp
  <2> QED BY <2>1 DEF Pending, Live
<1> QED BY <1>1, <1>2, <1>3, <1>4, <1>5, <1>6, <1>7, <1>8, <1>9, <1>10 DEF Work, Rest

LEMMA ListTyped ==
  ASSUME EnumTypeOK, ListInv
  PROVE  /\ Len(found) \in Nat /\ DOMAIN found = 1 .. Len(found)
         /\ \A i \in DOMAIN found : found[i] \in Classes /\ Rank[found[i]] \in Nat
         /\ next \in Nat /\ known \in Nat /\ next <= known
         /\ known <= Len(found) /\ Len(found) <= known + 1
<1>1. found \in [1 .. Len(found) -> Classes] /\ Len(found) \in Nat /\ DOMAIN found = 1 .. Len(found)
      BY LenProperties DEF EnumTypeOK
<1>2. \A i \in DOMAIN found : found[i] \in Classes  BY <1>1
<1>3. \A c \in Classes : Rank[c] \in Nat  BY RankAssumption
<1> QED BY <1>1, <1>2, <1>3 DEF EnumTypeOK, ListInv

\* What a thread may add has one rank, and so have the class it has appended and
\* not yet counted: the successors of one class.
LEMMA PendingStep ==
  ASSUME EnumTypeOK, ListInv, ClaimInv, HandInv, NEW t \in Threads, Work(t) \/ Rest(t)
  PROVE  /\ \A x, y \in Pending(t)' : Rank[x] = Rank[y]
         /\ pc'[t] = "bump" => \A x \in Pending(t)' : Rank[x] = Rank[found'[Len(found')]]
<1>0. \A x, y \in Pending(t) : Rank[x] = Rank[y]  BY DEF HandInv
<1>1. CASE At(t, "cas") /\ pc'[t] = "expand" /\ UNCHANGED <<found, claim, unchecked, fresh>>
           /\ next = claim[t] /\ next < known
  <2>1. unchecked'[t] = {} /\ fresh'[t] = {}  BY <1>1 DEF HandInv
  <2>2. Claimed(t)' = found[next + 1]  BY <1>1 DEF Claimed
  <2>3. found[next + 1] \in Classes  BY <1>1, ListTyped
  <2>4. Pending(t)' \subseteq Succ[found[next + 1]]  BY <2>1, <2>2 DEF Pending
  <2> QED BY <1>1, <2>3, <2>4, RankAssumption
<1>2. CASE /\ At(t, "adding") /\ pc'[t] = "bump" /\ Pending(t)' \subseteq Pending(t)
           /\ \E c \in fresh[t] : c \notin Found /\ found' = Append(found, c)
  <2>1. PICK c \in fresh[t] : found' = Append(found, c)  BY <1>2
  <2>2. c \in Classes /\ c \in Pending(t)  BY <2>1 DEF EnumTypeOK, Pending
  <2>3. found'[Len(found')] = c  BY <2>1, <2>2, Appended DEF EnumTypeOK
  <2> QED BY <1>0, <1>2, <2>2, <2>3
<1>3. CASE UNCHANGED found /\ Pending(t)' \subseteq Pending(t) /\ pc'[t] # "bump"
  BY <1>0, <1>3
<1>4. pc'[t] = "bump" => Add(t)
      BY Moved DEF Work, LoadNext, LoadKnown, Claim, ReturnAtTop, Expand, Filter, Bump,
             Rest, CountMe, SeeAllWaiting, SeeSomeWorking, Compare, WakeUp, Labels
<1>5. Add(t) /\ UNCHANGED found => pc'[t] # "bump"
  <2> SUFFICES ASSUME Add(t), UNCHANGED found PROVE pc'[t] # "bump" OBVIOUS
  <2>1. \A c \in fresh[t] : found' # Append(found, c)
    <3>1. TAKE c \in fresh[t]
    <3>2. c \in Classes  BY DEF EnumTypeOK
    <3> QED BY <3>2, Appended DEF EnumTypeOK
  <2> QED BY <2>1, Moved DEF Add
<1> QED BY <1>1, <1>2, <1>3, <1>4, <1>5, StepKinds

LEMMA HandStep ==
  ASSUME EnumTypeOK, ListInv, ClaimInv, HandInv, [EnumNext]_vars
  PROVE  HandInv'
<1>1. ASSUME NEW t \in Threads, Work(t) \/ Rest(t) PROVE HandInv'
  <2> SUFFICES ASSUME NEW u \in Threads
               PROVE  /\ unchecked'[u] # {} => At(u, "filter")'
                      /\ fresh'[u] # {} => pc'[u] \in {"filter", "adding", "bump"}
                      /\ \A x, y \in Pending(u)' : Rank[x] = Rank[y]
                      /\ At(u, "bump")' => \A x \in Pending(u)' : Rank[x] = Rank[found'[Len(found')]]
      BY DEF HandInv
  <2>1. CASE u = t  BY <1>1, <2>1, SetsStep, PendingStep
  <2>2. CASE u # t
    <3>1. /\ pc'[u] = pc[u] /\ claim'[u] = claim[u]
          /\ unchecked'[u] = unchecked[u] /\ fresh'[u] = fresh[u]
          BY <1>1, <2>2, OthersKept
    <3>2. Pending(u)' = Pending(u)  BY <1>1, <2>2, OthersPending
    <3>3. At(u, "bump") => UNCHANGED found
      <4>1. At(u, "bump") => mutex = u  BY DEF ListInv
      <4>2. Add(t) => mutex \in {Nobody, t}  BY DEF Add
      <4> QED BY <1>1, <2>2, <4>1, <4>2, Grown, ThreadsAssumption
    <3> QED BY <3>1, <3>2, <3>3 DEF HandInv
  <2> QED BY <2>1, <2>2
<1>2. CASE UNCHANGED vars  BY <1>2 DEF vars, lists, locals, HandInv, Pending, Claimed
<1> QED BY <1>1, <1>2 DEF EnumNext
(***************************************************************************)
(* Expansion.                                                              *)
(***************************************************************************)
LEMMA ExpandedWhenClaimed ==
  ASSUME EnumTypeOK, ListInv, ClaimInv, ExpandInv, NEW t \in Threads, Expand(t)
  PROVE  /\ expanded[Claimed(t)] = 0
         /\ expanded'[Claimed(t)] = 1
         /\ \A c \in Classes \ {Claimed(t)} : expanded'[c] = expanded[c]
<1>0. At(t, "expand")  BY DEF Expand
<1>1. /\ claim[t] + 1 \in DOMAIN found /\ Claimed(t) = found[claim[t] + 1]
      /\ Claimed(t) \in Classes
      BY <1>0, ClaimedIsFound
<1>2. expanded[Claimed(t)] # 1  BY <1>0, <1>1 DEF ExpandInv
<1>3. expanded[Claimed(t)] = 0  BY <1>1, <1>2 DEF ExpandInv
<1>4. expanded' = [expanded EXCEPT ![Claimed(t)] = @ + 1]  BY DEF Expand
<1>5. expanded'[Claimed(t)] = expanded[Claimed(t)] + 1  BY <1>1, <1>4 DEF EnumTypeOK
<1> QED BY <1>1, <1>3, <1>4, <1>5 DEF EnumTypeOK

\* Where a successor of an expanded class is: in the list, or with a thread.
Held(d) == d \in Found \/ \E u \in Threads : d \in unchecked[u] \cup fresh[u]

LEMMA HeldStep ==
  ASSUME EnumTypeOK, HandInv, NEW t \in Threads, Work(t) \/ Rest(t), NEW d, Held(d)
  PROVE  Held(d)'
<1> USE DEF EnumTypeOK, locals
<1>1. Found \subseteq Found'
  <2> SUFFICES ASSUME NEW i \in DOMAIN found PROVE found[i] \in Found'  BY DEF Found
  <2>1. i \in DOMAIN found' /\ found'[i] = found[i]  BY EntriesKept
  <2> QED BY <2>1 DEF Found
<1>2. CASE d \in Found  BY <1>1, <1>2 DEF Held
<1>3. ASSUME NEW u \in Threads \ {t}, d \in unchecked[u] \cup fresh[u] PROVE Held(d)'
  <2>1. unchecked'[u] = unchecked[u] /\ fresh'[u] = fresh[u]  BY OthersKept
  <2> QED BY <1>3, <2>1 DEF Held
<1>4. CASE d \in unchecked[t] \cup fresh[t]
  <2>1. CASE UNCHANGED <<unchecked, fresh>>  BY <1>4, <2>1 DEF Held
  <2>2. CASE Expand(t)
    <3>1. unchecked[t] = {} /\ UNCHANGED fresh  BY <2>2 DEF Expand, HandInv
    <3> QED BY <1>4, <3>1 DEF Held
  <2>3. CASE Filter(t)
    <3>1. PICK c \in unchecked[t] :
            /\ unchecked' = [unchecked EXCEPT ![t] = @ \ {c}]
            /\ fresh' = [fresh EXCEPT ![t] = IF c \in Found THEN @ ELSE @ \cup {c}]
          BY <2>3 DEF Filter
    <3>2. d \in unchecked'[t] \cup fresh'[t] \/ d \in Found  BY <1>4, <3>1
    <3> QED BY <1>1, <3>2 DEF Held
  <2>4. CASE Add(t)
    <3>1. PICK c \in fresh[t] :
            /\ fresh' = [fresh EXCEPT ![t] = @ \ {c}]
            /\ found' = Append(found, c) \/ c \in Found
          BY <2>4 DEF Add
    <3>2. c \in Found'
      <4>1. CASE c \in Found  BY <1>1, <4>1
      <4>2. CASE found' = Append(found, c)
        <5>1. Len(found) + 1 \in DOMAIN found' /\ found'[Len(found) + 1] = c
              BY <4>2, Appended
        <5> QED BY <5>1 DEF Found
      <4> QED BY <3>1, <4>1, <4>2
    <3>3. unchecked' = unchecked  BY <2>4 DEF Add
    <3>4. d = c \/ d \in unchecked'[t] \cup fresh'[t]  BY <1>4, <3>1, <3>3
    <3> QED BY <3>2, <3>4 DEF Held
  <2> QED BY <2>1, <2>2, <2>3, <2>4
          DEF Work, LoadNext, LoadKnown, Claim, ReturnAtTop, Bump,
              Rest, CountMe, SeeAllWaiting, SeeSomeWorking, Compare, WakeUp
<1> QED BY <1>2, <1>3, <1>4 DEF Held

\* The entries of the list, when nothing is expanded.
LEMMA EntriesStep ==
  ASSUME EnumTypeOK, ListInv, ClaimInv, HandInv, ExpandInv, NEW t \in Threads, Work(t) \/ Rest(t),
         NEW i \in DOMAIN found'
  PROVE  expanded'[found'[i]] = 1 <=> /\ i <= next' /\ found'[i] # Top
                                      /\ \A u \in Threads : At(u, "expand")' => claim'[u] + 1 # i
<1>0. /\ Len(found) \in Nat /\ DOMAIN found = 1 .. Len(found)
      /\ \A k \in DOMAIN found : found[k] \in Classes
      /\ next \in Nat /\ known \in Nat /\ next <= known /\ known <= Len(found)
      BY ListTyped
<1>a. \A u \in Threads \ {t} : pc'[u] = pc[u] /\ claim'[u] = claim[u]  BY OthersKept
<1>b. \A u \in Threads : At(u, "expand") => claim[u] \in Nat /\ claim[u] < next
      BY DEF EnumTypeOK, ClaimInv
<1>1. CASE Claim(t) /\ next = claim[t]
  <2>1. /\ UNCHANGED <<found, expanded, claim>> /\ next' = next + 1 /\ pc'[t] = "expand"
        /\ pc[t] = "cas"
        BY <1>1, Moved DEF Claim
  <2>2. CASE i = next + 1
    <3>1. expanded[found[i]] # 1  BY <1>0, <2>1, <2>2 DEF ExpandInv
    <3> QED BY <1>1, <2>1, <2>2, <3>1
  <2>3. CASE i # next + 1
    <3>1. (\A u \in Threads : At(u, "expand")' => claim'[u] + 1 # i)
          <=> (\A u \in Threads : At(u, "expand") => claim[u] + 1 # i)
          BY <1>1, <1>a, <2>1, <2>3
    <3>2. i <= next + 1 <=> i <= next  BY <1>0, <2>1, <2>3
    <3> QED BY <2>1, <3>1, <3>2 DEF ExpandInv
  <2> QED BY <2>2, <2>3
<1>2. CASE ReturnAtTop(t)
  <2>1. /\ UNCHANGED <<found, expanded, next>> /\ pc'[t] = "done" /\ pc[t] = "expand"
        /\ found[claim[t] + 1] = Top
        BY <1>2, Moved DEF ReturnAtTop, lists, Claimed
  <2>2. CASE found[i] = Top  BY <2>1, <2>2 DEF ExpandInv
  <2>3. CASE found[i] # Top
    <3>1. (\A u \in Threads : At(u, "expand")' => claim'[u] + 1 # i)
          <=> (\A u \in Threads : At(u, "expand") => claim[u] + 1 # i)
          BY <1>a, <2>1, <2>3
    <3> QED BY <2>1, <3>1 DEF ExpandInv
  <2> QED BY <2>2, <2>3
<1>3. CASE Expand(t)
  <2>1. /\ UNCHANGED <<found, next>> /\ pc'[t] = "filter" /\ pc[t] = "expand"
        /\ Claimed(t) # Top
        BY <1>3, Moved DEF Expand
  <2>2. claim[t] + 1 \in DOMAIN found /\ claim[t] + 1 <= next /\ Claimed(t) = found[claim[t] + 1]
        BY <2>1, ClaimedIsFound
  <2>3. CASE i = claim[t] + 1
    <3>1. expanded'[found[i]] = 1  BY <1>3, <2>2, <2>3, ExpandedWhenClaimed
    <3>2. \A u \in Threads \ {t} : At(u, "expand") => claim[u] # claim[t]
          BY <2>1 DEF ClaimInv
    <3>3. \A u \in Threads : At(u, "expand")' => claim'[u] + 1 # i
          BY <1>a, <1>b, <2>1, <2>3, <3>2
    <3> QED BY <2>1, <2>2, <2>3, <3>1, <3>3
  <2>4. CASE i # claim[t] + 1
    <3>1. found[i] # Claimed(t)  BY <2>1, <2>2, <2>4 DEF ListInv
    <3>2. expanded'[found[i]] = expanded[found[i]]
          BY <1>0, <1>3, <2>1, <3>1, ExpandedWhenClaimed
    <3>3. (\A u \in Threads : At(u, "expand")' => claim'[u] + 1 # i)
          <=> (\A u \in Threads : At(u, "expand") => claim[u] + 1 # i)
          BY <1>a, <2>1, <2>4
    <3> QED BY <2>1, <3>2, <3>3 DEF ExpandInv
  <2> QED BY <2>3, <2>4
<1>4. CASE ~Expand(t) /\ ~ReturnAtTop(t) /\ ~(Claim(t) /\ next = claim[t])
  <2>1. /\ UNCHANGED <<next, expanded>> /\ pc[t] # "expand"
        BY <1>4 DEF Work, LoadNext, LoadKnown, Claim, Filter, Add, Bump,
                Rest, CountMe, SeeAllWaiting, SeeSomeWorking, Compare, WakeUp, lists
  <2>2. pc'[t] # "expand"
        BY <1>4, Moved DEF Work, LoadNext, LoadKnown, Claim, Filter, Add, Bump,
                Rest, CountMe, SeeAllWaiting, SeeSomeWorking, Compare, WakeUp, Labels
  <2>3. (\A u \in Threads : At(u, "expand")' => claim'[u] + 1 # i)
        <=> (\A u \in Threads : At(u, "expand") => claim[u] + 1 # i)
        BY <1>a, <2>1, <2>2
  <2>4. CASE i \in DOMAIN found
    <3>1. found'[i] = found[i]  BY <2>4, EntriesKept
    <3> QED BY <2>1, <2>3, <2>4, <3>1 DEF ExpandInv
  <2>5. CASE i \notin DOMAIN found
    <3>1. PICK c \in fresh[t] : c \notin Found /\ found' = Append(found, c)
          BY <2>5, Grown
    <3>2. c \in Classes  BY DEF EnumTypeOK
    <3>3. i = Len(found) + 1 /\ found'[i] = c
          BY <1>0, <2>5, <3>1, <3>2, Appended DEF EnumTypeOK
    <3>4. expanded[c] # 1  BY <3>1, <3>2 DEF ExpandInv
    <3>5. ~(i <= next')  BY <1>0, <2>1, <3>3
    <3> QED BY <2>1, <3>3, <3>4, <3>5
  <2> QED BY <2>4, <2>5
<1> QED BY <1>1, <1>2, <1>3, <1>4

LEMMA ExpandStep ==
  ASSUME EnumTypeOK, ListInv, ClaimInv, HandInv, ExpandInv, [EnumNext]_vars
  PROVE  ExpandInv'
<1>1. ASSUME NEW t \in Threads, Work(t) \/ Rest(t) PROVE ExpandInv'
  <2>1. \A i \in DOMAIN found' :
          expanded'[found'[i]] = 1 <=> /\ i <= next' /\ found'[i] # Top
                                       /\ \A u \in Threads : At(u, "expand")' => claim'[u] + 1 # i
        BY <1>1, EntriesStep
  <2>2. ASSUME NEW c \in Classes, expanded[c] = 1
        PROVE  c \in Found' /\ \A d \in Succ[c] : Held(d)'
    <3>1. c \in Found /\ \A d \in Succ[c] : Held(d)  BY <2>2 DEF ExpandInv, Held
    <3>2. PICK i \in DOMAIN found : c = found[i]  BY <3>1 DEF Found
    <3>3. i \in DOMAIN found' /\ found'[i] = c  BY <1>1, <3>2, EntriesKept
    <3> QED BY <1>1, <3>1, <3>3, HeldStep DEF Found
  <2>3. CASE Expand(t)
    <3>1. Claimed(t) \in Found' /\ \A d \in Succ[Claimed(t)] : Held(d)'
      <4>1. claim[t] + 1 \in DOMAIN found /\ Claimed(t) = found[claim[t] + 1] /\ found' = found
            BY <2>3, ClaimedIsFound DEF Expand
      <4>2. unchecked'[t] = Succ[Claimed(t)]  BY <2>3 DEF Expand, EnumTypeOK
      <4> QED BY <4>1, <4>2 DEF Found, Held
    <3>2. \A c \in Classes : expanded'[c] \in {0, 1}
          BY <2>3, ExpandedWhenClaimed DEF ExpandInv
    <3>3. \A c \in Classes : expanded'[c] = 1 => c = Claimed(t) \/ expanded[c] = 1
          BY <2>3, ExpandedWhenClaimed
    <3> QED BY <2>1, <2>2, <3>1, <3>2, <3>3 DEF ExpandInv, Held
  <2>4. CASE ~Expand(t)
    <3>1. UNCHANGED expanded
          BY <1>1, <2>4 DEF Work, LoadNext, LoadKnown, Claim, ReturnAtTop, Filter, Add, Bump,
                  Rest, CountMe, SeeAllWaiting, SeeSomeWorking, Compare, WakeUp, lists
    <3>2. \A c \in Classes : expanded'[c] \in {0, 1}  BY <3>1 DEF ExpandInv
    <3> QED BY <2>1, <2>2, <3>1, <3>2 DEF ExpandInv, Held
  <2> QED BY <2>3, <2>4
<1>2. CASE UNCHANGED vars  BY <1>2 DEF vars, lists, locals, ExpandInv, Found
<1> QED BY <1>1, <1>2 DEF EnumNext
(***************************************************************************)
(* Links.                                                                  *)
(***************************************************************************)
LEMMA FiniteEdges ==
  ASSUME NEW S \in SUBSET Classes
  PROVE  IsFiniteSet(Edges(S)) /\ Cardinality(Edges(S)) \in Nat
<1>1. IsFiniteSet(Classes \X Classes)  BY GraphAssumption, FS_Product
<1>2. Edges(S) \subseteq Classes \X Classes  BY DEF Edges
<1>3. IsFiniteSet(Edges(S))  BY <1>1, <1>2, FS_Subset
<1> QED BY <1>3, FS_CardinalityType

\* Each expansion adds as many links as the class has successors.
LEMMA EdgesOfOneMore ==
  ASSUME NEW S \in SUBSET Classes, NEW c \in Classes \ S
  PROVE  Cardinality(Edges(S \cup {c})) = Cardinality(Edges(S)) + Cardinality(Succ[c])
<1>1. Succ[c] \subseteq Classes /\ IsFiniteSet(Succ[c])
      BY GraphAssumption, FS_Subset
<1>2. Edges({c}) = {c} \X Succ[c]  BY <1>1 DEF Edges
<1>3. IsFiniteSet({c}) /\ Cardinality({c}) = 1  BY FS_Singleton
<1>4. Cardinality(Succ[c]) \in Nat  BY <1>1, FS_CardinalityType
<1>5. Cardinality({c} \X Succ[c]) = Cardinality({c}) * Cardinality(Succ[c])
      BY <1>1, <1>3, FS_Product
<1>a. Cardinality(Edges({c})) = 1 * Cardinality(Succ[c])  BY ONLY <1>2, <1>3, <1>5, Zenon
<1>b. \A n \in Nat : 1 * n = n  OBVIOUS
<1>6. Cardinality(Edges({c})) = Cardinality(Succ[c])  BY ONLY <1>a, <1>b, <1>4
<1>7. Edges(S \cup {c}) = Edges(S) \cup Edges({c})  BY DEF Edges
<1>8. Edges(S) \cap Edges({c}) = {}  BY DEF Edges
<1>9. /\ IsFiniteSet(Edges(S)) /\ Cardinality(Edges(S)) \in Nat
      /\ IsFiniteSet(Edges({c}))
      BY FiniteEdges
<1>10. Cardinality(Edges(S) \cup Edges({c}))
         = Cardinality(Edges(S)) + Cardinality(Edges({c})) - Cardinality(Edges(S) \cap Edges({c}))
       BY <1>9, FS_Union
<1>11. Cardinality(Edges(S) \cap Edges({c})) = 0  BY <1>8, FS_EmptySet
<1>12. Cardinality(Edges(S \cup {c})) = Cardinality(Edges(S)) + Cardinality(Succ[c]) - 0
       BY ONLY <1>6, <1>7, <1>10, <1>11, Zenon
<1>c. \A m, n \in Nat : m + n - 0 = m + n  OBVIOUS
<1> QED BY ONLY <1>4, <1>9, <1>12, <1>c

LEMMA LinksStep ==
  ASSUME EnumTypeOK, ListInv, ClaimInv, ExpandInv, LinksInv, [EnumNext]_vars
  PROVE  LinksInv'
<1> DEFINE E == {c \in Classes : expanded[c] = 1}
<1>1. ASSUME NEW t \in Threads, Expand(t) PROVE LinksInv'
  <2>1. At(t, "expand")  BY <1>1 DEF Expand
  <2>2. Claimed(t) \in Classes  BY <2>1, ClaimedIsFound
  <2>3. Claimed(t) \notin E /\ E' = E \cup {Claimed(t)}
        BY <1>1, <2>2, ExpandedWhenClaimed
  <2>4. links' = links + Cardinality(Succ[Claimed(t)])  BY <1>1 DEF Expand
  <2>5. Cardinality(Edges(E \cup {Claimed(t)})) = Cardinality(Edges(E)) + Cardinality(Succ[Claimed(t)])
        BY <2>2, <2>3, EdgesOfOneMore
  <2>6. links = Cardinality(Edges(E))  BY DEF LinksInv
  <2>7. links' = Cardinality(Edges(E'))  BY <2>3, <2>4, <2>5, <2>6
  <2> QED BY <2>7 DEF LinksInv, Edges
<1>2. CASE UNCHANGED <<links, expanded>>  BY <1>2 DEF LinksInv, Edges
<1>3. ASSUME NEW t \in Threads, Work(t) \/ Rest(t), ~Expand(t) PROVE UNCHANGED <<links, expanded>>
      BY <1>3 DEF Work, LoadNext, LoadKnown, Claim, ReturnAtTop, Filter, Add, Bump,
                  Rest, CountMe, SeeAllWaiting, SeeSomeWorking, Compare, WakeUp, lists
<1>4. CASE UNCHANGED vars  BY <1>4, <1>2 DEF vars, lists
<1> QED BY <1>1, <1>2, <1>3, <1>4 DEF EnumNext

(***************************************************************************)
(* The number of waiting threads.                                          *)
(***************************************************************************)
CountedThreads == {t \in Threads : Counted(t)}

LEMMA CountIn ==
  ASSUME NEW t \in Threads, ~Counted(t), Counted(t)',
         \A u \in Threads \ {t} : Counted(u)' <=> Counted(u)
  PROVE  Cardinality(CountedThreads') = Cardinality(CountedThreads) + 1
<1>1. CountedThreads' = CountedThreads \cup {t}  BY DEF CountedThreads
<1>2. t \notin CountedThreads  BY DEF CountedThreads
<1>3. IsFiniteSet(CountedThreads)
      BY ThreadsAssumption, FS_Subset DEF CountedThreads
<1> QED BY <1>1, <1>2, <1>3, FS_AddElement

LEMMA CountOut ==
  ASSUME NEW t \in Threads, Counted(t), ~Counted(t)',
         \A u \in Threads \ {t} : Counted(u)' <=> Counted(u)
  PROVE  Cardinality(CountedThreads') = Cardinality(CountedThreads) - 1
<1>1. CountedThreads' = CountedThreads \ {t}  BY DEF CountedThreads
<1>2. t \in CountedThreads  BY DEF CountedThreads
<1>3. IsFiniteSet(CountedThreads)
      BY ThreadsAssumption, FS_Subset DEF CountedThreads
<1> QED BY <1>1, <1>2, <1>3, FS_RemoveElement

LEMMA CountStep ==
  ASSUME EnumTypeOK, CountInv, [EnumNext]_vars
  PROVE  CountInv'
<1>0. waiting = Cardinality(CountedThreads) /\ (CountInv' <=> waiting' = Cardinality(CountedThreads'))
      BY DEF CountInv, CountedThreads
<1>a. ASSUME NEW t \in Threads, Work(t) \/ Rest(t)
      PROVE  \A u \in Threads \ {t} : Counted(u)' <=> Counted(u)
      BY <1>a, OthersKept DEF Counted
<1>1. ASSUME NEW t \in Threads, ReturnAtTop(t) \/ CountMe(t) PROVE CountInv'
  <2>1. pc[t] \in {"expand", "count"} /\ pc'[t] \in {"done", "sleep"} /\ waiting' = waiting + 1
        BY <1>1, Moved DEF ReturnAtTop, CountMe
  <2>2. ~Counted(t) /\ Counted(t)'  BY <2>1 DEF Counted
  <2>3. \A u \in Threads \ {t} : Counted(u)' <=> Counted(u)
        BY <1>1, <1>a DEF Work, Rest
  <2>4. Cardinality(CountedThreads') = Cardinality(CountedThreads) + 1  BY <2>2, <2>3, CountIn
  <2> QED BY <1>0, <2>1, <2>4
<1>2. ASSUME NEW t \in Threads, WakeUp(t) PROVE CountInv'
  <2>1. pc[t] = "wake" /\ pc'[t] = "load" /\ waiting' = waiting - 1
        BY <1>2, Moved DEF WakeUp
  <2>2. Counted(t) /\ ~Counted(t)'  BY <2>1 DEF Counted
  <2>3. \A u \in Threads \ {t} : Counted(u)' <=> Counted(u)
        BY <1>2, <1>a DEF Work, Rest
  <2>4. Cardinality(CountedThreads') = Cardinality(CountedThreads) - 1  BY <2>2, <2>3, CountOut
  <2> QED BY <1>0, <2>1, <2>4
<1>3. ASSUME NEW t \in Threads, Work(t) \/ Rest(t), ~ReturnAtTop(t), ~CountMe(t), ~WakeUp(t)
      PROVE  CountInv'
  <2>1. waiting' = waiting
        BY <1>3 DEF Work, LoadNext, LoadKnown, Claim, Expand, Filter, Add, Bump,
                    Rest, SeeAllWaiting, SeeSomeWorking, Compare
  <2>2. Counted(t)' <=> Counted(t)
    <3>1. CASE Work(t)
      <4>1. pc[t] \in Labels \ {"count", "sleep", "compare", "wake", "done"}
            BY <1>3, <3>1 DEF Work, LoadNext, LoadKnown, Claim, Expand, Filter, Add, Bump, Labels
      <4>2. pc'[t] \in Labels \ {"sleep", "compare", "wake", "done"}
            BY <1>3, <3>1, Moved
            DEF Work, LoadNext, LoadKnown, Claim, Expand, Filter, Add, Bump, Labels
      <4> QED BY <4>1, <4>2 DEF Counted, Labels
    <3>2. CASE Rest(t)
      <4>1. pc[t] \in {"sleep", "compare"} /\ pc'[t] \in {"sleep", "compare", "wake", "done"}
            BY <1>3, <3>2, Moved DEF Rest, SeeAllWaiting, SeeSomeWorking, Compare
      <4> QED BY <4>1 DEF Counted
    <3> QED BY <1>3, <3>1, <3>2
  <2>3. \A u \in Threads : Counted(u)' <=> Counted(u)  BY <1>3, <1>a, <2>2
  <2>4. CountedThreads' = CountedThreads  BY <2>3 DEF CountedThreads
  <2> QED BY <1>0, <2>1, <2>4
<1>4. CASE UNCHANGED vars
  <2>1. CountedThreads' = CountedThreads  BY <1>4 DEF vars, CountedThreads, Counted
  <2> QED BY <1>0, <1>4, <2>1 DEF vars
<1> QED BY <1>1, <1>2, <1>3, <1>4 DEF EnumNext
(***************************************************************************)
(* The threads that go on.                                                 *)
(***************************************************************************)
\* Whoever leaves without a class left none behind, but for one that another
\* thread has appended and is about to count.
LEMMA LeaveOne ==
  ASSUME EnumTypeOK, ListInv, ClaimInv, NEW t \in Threads, At(t, "test"), ~(claim[t] < known)
  PROVE  \/ next = Len(found)
         \/ /\ next = Len(found) - 1 /\ Unclaimed = {Len(found)}
            /\ \E u \in Threads \ {t} : At(u, "bump")
<1>0. /\ Len(found) \in Nat /\ DOMAIN found = 1 .. Len(found)
      /\ next \in Nat /\ known \in Nat /\ next <= known
      /\ known <= Len(found) /\ Len(found) <= known + 1
      BY ListTyped
<1>1. claim[t] \in Nat /\ claim[t] <= next  BY DEF EnumTypeOK, ClaimInv
<1>2. next = known  BY <1>0, <1>1
<1>3. CASE Len(found) = known  BY <1>2, <1>3
<1>4. CASE Len(found) = known + 1
  <2>1. PICK u \in Threads : At(u, "bump")  BY <1>4 DEF ListInv
  <2>2. u # t  BY <2>1
  <2>3. next = Len(found) - 1  BY <1>0, <1>2, <1>4
  <2>4. Unclaimed = {Len(found)}  BY <1>0, <2>3, <1>4 DEF Unclaimed
  <2> QED BY <2>1, <2>2, <2>3, <2>4
<1>a. \A x, y \in Int : y <= x /\ x <= y + 1 => x = y \/ x = y + 1  OBVIOUS
<1>b. Len(found) \in Int /\ known \in Int /\ known <= Len(found) /\ Len(found) <= known + 1
      BY <1>0
<1>5. Len(found) = known \/ Len(found) = known + 1  BY ONLY <1>a, <1>b
<1> QED BY <1>3, <1>4, <1>5

\* The last live thread claims the full MBF after all others.
LEMMA TopIsLast ==
  ASSUME EnumTypeOK, ListInv, BreadthInv, NEW t \in Threads, Alone(t),
         next < Len(found), found[next + 1] = Top
  PROVE  next + 1 = Len(found)
<1>0. /\ Len(found) \in Nat /\ DOMAIN found = 1 .. Len(found)
      /\ \A i \in DOMAIN found : found[i] \in Classes /\ Rank[found[i]] \in Nat
      /\ next \in Nat
      BY ListTyped
<1>1. next + 1 \in DOMAIN found /\ Len(found) \in DOMAIN found  BY <1>0
<1>2. TopUnclaimed
  <2> SUFFICES ASSUME NEW i \in DOMAIN found, i <= next PROVE found[i] # Top  BY DEF TopUnclaimed
  <2>1. i # next + 1  BY <1>0
  <2> QED BY <1>1, <2>1 DEF ListInv
<1>3. next + 1 \in Unclaimed /\ Len(found) \in Unclaimed /\ next + 1 <= Len(found)
      BY <1>0, <1>1 DEF Unclaimed
<1>4. Rank[Top] <= Rank[found[Len(found)]]  BY <1>2, <1>3 DEF BreadthInv
<1>5. found[Len(found)] = Top
  <2>1. found[Len(found)] \in Classes /\ Rank[found[Len(found)]] \in Nat /\ Rank[Top] \in Nat
        BY <1>0, <1>1, GraphAssumption, RankAssumption
  <2>2. ~(Rank[found[Len(found)]] < Rank[Top])  BY <1>4, <2>1
  <2> QED BY <2>1, <2>2, RankAssumption
<1> QED BY <1>1, <1>5 DEF ListInv

LEMMA LiveStep ==
  ASSUME EnumTypeOK, ListInv, ClaimInv, HandInv, LiveInv, BreadthInv, [EnumNext]_vars
  PROVE  LiveInv'
<1>0. Len(found) \in Nat /\ next \in Nat /\ known \in Nat /\ known <= Len(found)  BY ListTyped
<1>1. ASSUME NEW t \in Threads, Work(t) \/ Rest(t) PROVE LiveInv'
  <2>1. \A u \in Threads \ {t} : Live(u)' <=> Live(u)  BY <1>1, OthersPending
  <2>2. CASE UNCHANGED <<found, next>> /\ (Live(t)' <=> Live(t))
        BY <2>1, <2>2 DEF LiveInv
  <2>3. CASE Live(t)'  BY <2>3 DEF LiveInv
  <2>4. CASE UNCHANGED <<found, next>> /\ At(t, "test") /\ ~(claim[t] < known)
    <3>1. CASE next = Len(found)  BY <1>0, <2>4, <3>1 DEF LiveInv
    <3>2. CASE \E u \in Threads \ {t} : At(u, "bump")
      <4>1. PICK u \in Threads \ {t} : At(u, "bump")  BY <3>2
      <4>2. Live(u)  BY <4>1 DEF Live
      <4> QED BY <2>1, <4>2 DEF LiveInv
    <3> QED BY <2>4, <3>1, <3>2, LeaveOne
  <2>5. CASE /\ UNCHANGED <<found, claim>> /\ At(t, "cas") /\ pc'[t] = "expand"
             /\ next = claim[t] /\ next < known /\ next' = next + 1
    <3>1. Claimed(t)' = found[next + 1]  BY <2>5 DEF Claimed
    <3>2. CASE found[next + 1] # Top
      <4>1. Live(t)'  BY <2>5, <3>1, <3>2 DEF Live
      <4> QED BY <4>1 DEF LiveInv
    <3>3. CASE found[next + 1] = Top
      <4>1. Live(t)  BY <2>5 DEF Live
      <4>2. CASE \E u \in Threads \ {t} : Live(u)  BY <2>1, <4>2 DEF LiveInv
      <4>3. CASE \A u \in Threads \ {t} : ~Live(u)
        <5>1. Alone(t)  BY <4>1, <4>3 DEF Alone
        <5>2. next < Len(found)  BY <1>0, <2>5
        <5>3. next + 1 = Len(found)  BY <3>3, <5>1, <5>2, TopIsLast
        <5>4. ~(next' < Len(found'))  BY <1>0, <2>5, <5>3
        <5> QED BY <5>4 DEF LiveInv
      <4> QED BY <4>2, <4>3
    <3> QED BY <3>2, <3>3
  <2>6. CASE pc'[t] = "bump"
    <3>1. Live(t)'  BY <2>6 DEF Live
    <3> QED BY <2>3, <3>1
  <2> QED BY <1>1, <2>2, <2>3, <2>4, <2>5, <2>6, StepKinds
<1>2. CASE UNCHANGED vars  BY <1>2 DEF vars, lists, locals, LiveInv, Live, Claimed
<1> QED BY <1>1, <1>2 DEF EnumNext

(***************************************************************************)
(* The last live thread works breadth first.                               *)
(***************************************************************************)
Ordered(t) ==
  /\ \A i, j \in Unclaimed : i <= j => Rank[found[i]] <= Rank[found[j]]
                                       /\ Rank[found[j]] <= Rank[found[i]] + 1
  /\ \A x \in Pending(t), i \in Unclaimed : Rank[x] <= Rank[found[i]] + 1
                                            /\ Rank[found[i]] <= Rank[x]

LEMMA PendingTyped ==
  ASSUME EnumTypeOK, ListInv, ClaimInv, NEW t \in Threads
  PROVE  Pending(t) \subseteq Classes /\ \A x \in Pending(t) : Rank[x] \in Nat
<1>1. unchecked[t] \cup fresh[t] \subseteq Classes  BY DEF EnumTypeOK
<1>2. At(t, "expand") => Succ[Claimed(t)] \subseteq Classes
      BY ClaimedIsFound, GraphAssumption
<1>3. Pending(t) \subseteq Classes  BY <1>1, <1>2 DEF Pending
<1> QED BY <1>3, RankAssumption

LEMMA OrderedAfterClaim ==
  ASSUME EnumTypeOK, ListInv, ClaimInv, HandInv, NEW t \in Threads, Ordered(t),
         UNCHANGED <<found, claim, unchecked, fresh>>, At(t, "cas"), pc'[t] = "expand",
         next = claim[t], next < known, next' = next + 1
  PROVE  Ordered(t)'
<1>0. /\ Len(found) \in Nat /\ DOMAIN found = 1 .. Len(found)
      /\ \A i \in DOMAIN found : found[i] \in Classes /\ Rank[found[i]] \in Nat
      /\ next \in Nat /\ known \in Nat /\ known <= Len(found)
      BY ListTyped
<1>1. next + 1 \in Unclaimed  BY <1>0 DEF Unclaimed
<1>2. \A i \in Unclaimed' : i \in Unclaimed /\ next + 1 <= i /\ i \in DOMAIN found
      BY <1>0 DEF Unclaimed
<1>3. Pending(t)' \subseteq Succ[found[next + 1]]
  <2>1. unchecked'[t] = {} /\ fresh'[t] = {}  BY DEF HandInv
  <2>2. Claimed(t)' = found[next + 1]  BY DEF Claimed
  <2> QED BY <2>1, <2>2 DEF Pending
<1>4. ASSUME NEW x \in Pending(t)', NEW i \in Unclaimed'
      PROVE  Rank[x] <= Rank[found[i]] + 1 /\ Rank[found[i]] <= Rank[x]
  <2>1. next + 1 \in DOMAIN found /\ i \in DOMAIN found  BY <1>1, <1>2 DEF Unclaimed
  <2>2. Rank[x] = Rank[found[next + 1]] + 1  BY <1>0, <1>3, <2>1, RankAssumption
  <2>3. Rank[found[next + 1]] <= Rank[found[i]] /\ Rank[found[i]] <= Rank[found[next + 1]] + 1
        BY <1>1, <1>2 DEF Ordered
  <2>4. Rank[found[next + 1]] \in Nat /\ Rank[found[i]] \in Nat  BY <1>0, <2>1
  <2> QED BY ONLY <2>2, <2>3, <2>4
<1>5. \A i, j \in Unclaimed' : i <= j => Rank[found'[i]] <= Rank[found'[j]]
                                         /\ Rank[found'[j]] <= Rank[found'[i]] + 1
      BY <1>2 DEF Ordered
<1> QED BY <1>4, <1>5 DEF Ordered

LEMMA OrderedAfterAppend ==
  ASSUME EnumTypeOK, ListInv, ClaimInv, HandInv, NEW t \in Threads, Ordered(t),
         UNCHANGED next, NEW c \in fresh[t], found' = Append(found, c),
         Pending(t)' \subseteq Pending(t)
  PROVE  Ordered(t)'
<1>0. /\ Len(found) \in Nat /\ DOMAIN found = 1 .. Len(found)
      /\ \A i \in DOMAIN found : found[i] \in Classes /\ Rank[found[i]] \in Nat
      BY ListTyped
<1> DEFINE n == Len(found) + 1
<1>1. c \in Classes /\ c \in Pending(t)  BY DEF EnumTypeOK, Pending
<1>2. /\ \A i \in DOMAIN found : found'[i] = found[i]
      /\ found'[n] = c /\ DOMAIN found' = 1 .. n
      BY <1>1, Appended DEF EnumTypeOK
<1>3. \A i \in Unclaimed' : i = n \/ i \in Unclaimed
      BY <1>0, <1>2 DEF Unclaimed
<1>4. \A i \in Unclaimed : i \in DOMAIN found /\ i < n /\ ~(n <= i) /\ found'[i] = found[i]
      BY <1>0, <1>2 DEF Unclaimed
<1>5. \A x \in Pending(t) : Rank[x] = Rank[c] /\ Rank[x] \in Nat
      BY <1>1, PendingTyped DEF HandInv
<1>6. \A i \in Unclaimed : Rank[c] <= Rank[found[i]] + 1 /\ Rank[found[i]] <= Rank[c]
      BY <1>1 DEF Ordered
<1>7. Rank[c] \in Nat /\ Rank[c] <= Rank[c] /\ Rank[c] <= Rank[c] + 1  BY <1>1, <1>5
<1>8. ASSUME NEW i \in Unclaimed', NEW j \in Unclaimed', i <= j
      PROVE  Rank[found'[i]] <= Rank[found'[j]] /\ Rank[found'[j]] <= Rank[found'[i]] + 1
  <2>1. CASE i = n /\ j = n  BY <1>2, <1>7, <2>1
  <2>2. CASE i = n /\ j \in Unclaimed  BY <1>4, <1>8, <2>2
  <2>3. CASE i \in Unclaimed /\ j = n  BY <1>2, <1>4, <1>6, <2>3
  <2>4. CASE i \in Unclaimed /\ j \in Unclaimed  BY <1>4, <1>8, <2>4 DEF Ordered
  <2> QED BY <1>3, <2>1, <2>2, <2>3, <2>4
<1>9. ASSUME NEW x \in Pending(t)', NEW i \in Unclaimed'
      PROVE  Rank[x] <= Rank[found'[i]] + 1 /\ Rank[found'[i]] <= Rank[x]
  <2>1. Rank[x] = Rank[c]  BY <1>5
  <2>2. CASE i = n  BY <1>2, <1>7, <2>1, <2>2
  <2>3. CASE i \in Unclaimed  BY <1>4, <1>6, <2>1, <2>3
  <2> QED BY <1>3, <2>2, <2>3
<1> QED BY <1>8, <1>9 DEF Ordered

LEMMA BreadthStep ==
  ASSUME EnumTypeOK, ListInv, ClaimInv, HandInv, LiveInv, BreadthInv, [EnumNext]_vars
  PROVE  BreadthInv'
<1>0. /\ Len(found) \in Nat /\ DOMAIN found = 1 .. Len(found)
      /\ \A i \in DOMAIN found : found[i] \in Classes /\ Rank[found[i]] \in Nat
      /\ next \in Nat /\ known \in Nat /\ known <= Len(found)
      BY ListTyped
<1>a. TopUnclaimed => \A a \in Threads : Alone(a) => Ordered(a)  BY DEF BreadthInv, Ordered
<1>1. ASSUME NEW t \in Threads, Work(t) \/ Rest(t) PROVE BreadthInv'
  <2> SUFFICES ASSUME TopUnclaimed', NEW a \in Threads, Alone(a)' PROVE Ordered(a)'
      BY DEF BreadthInv, Ordered
  <2>1. \A u \in Threads \ {t} : Pending(u)' = Pending(u) /\ (Live(u)' <=> Live(u))
        BY <1>1, OthersPending
  <2>2. ASSUME UNCHANGED <<found, next>>, Live(t)' <=> Live(t), Pending(t)' \subseteq Pending(t)
        PROVE  Ordered(a)'
    <3>1. TopUnclaimed /\ Alone(a)  BY <2>1, <2>2 DEF TopUnclaimed, Alone
    <3>2. Ordered(a)  BY <1>a, <3>1
    <3>3. Pending(a)' \subseteq Pending(a)  BY <2>1, <2>2
    <3> QED BY <2>2, <3>2, <3>3 DEF Ordered, Unclaimed
  <2>3. ASSUME UNCHANGED <<found, next>>, At(t, "test"), ~(claim[t] < known), ~Live(t)'
        PROVE  Ordered(a)'
    <3>1. CASE next = Len(found)
      <4>1. Unclaimed' = {}  BY <1>0, <2>3, <3>1 DEF Unclaimed
      <4> QED BY <4>1 DEF Ordered
    <3>2. CASE Unclaimed = {Len(found)} /\ \E u \in Threads \ {t} : At(u, "bump")
      <4>1. PICK u \in Threads \ {t} : At(u, "bump")  BY <3>2
      <4>2. Live(u)' /\ a = u  BY <2>1, <4>1 DEF Live, Alone
      <4>3. \A x \in Pending(u) : Rank[x] = Rank[found[Len(found)]]  BY <4>1 DEF HandInv
      <4>4. Rank[found[Len(found)]] \in Nat  BY <1>0, <3>2 DEF Unclaimed
      <4>5. Unclaimed' = {Len(found)} /\ Pending(a)' = Pending(u)
            BY <2>1, <2>3, <3>2, <4>2 DEF Unclaimed
      <4> QED BY <2>3, <4>3, <4>4, <4>5 DEF Ordered
    <3> QED BY <2>3, <3>1, <3>2, LeaveOne
  <2>4. ASSUME UNCHANGED <<found, next>>, ~Live(t), Live(t)' PROVE Ordered(a)'
    <3>1. a = t /\ \A u \in Threads : ~Live(u)  BY <2>1, <2>4 DEF Alone
    <3>2. ~(next < Len(found))  BY <3>1 DEF LiveInv
    <3>3. Unclaimed' = {}  BY <1>0, <2>4, <3>2 DEF Unclaimed
    <3> QED BY <3>3 DEF Ordered
  <2>5. ASSUME UNCHANGED <<found, claim, unchecked, fresh>>, At(t, "cas"), pc'[t] = "expand",
               next = claim[t], next < known, next' = next + 1
        PROVE  Ordered(a)'
    <3>1. next + 1 \in DOMAIN found  BY <1>0, <2>5
    <3>2. found[next + 1] # Top  BY <1>0, <2>5, <3>1 DEF TopUnclaimed
    <3>3. Claimed(t)' = found[next + 1]  BY <2>5 DEF Claimed
    <3>4. Live(t) /\ Live(t)'  BY <2>5, <3>2, <3>3 DEF Live
    <3>5. a = t /\ Alone(t)  BY <2>1, <3>4 DEF Alone
    <3>6. TopUnclaimed  BY <1>0, <2>5 DEF TopUnclaimed
    <3>7. Ordered(t)  BY <1>a, <3>5, <3>6
    <3> QED BY <2>5, <3>5, <3>7, OrderedAfterClaim
  <2>6. ASSUME UNCHANGED next, At(t, "adding"), pc'[t] = "bump",
               \E c \in fresh[t] : found' = Append(found, c), Pending(t)' \subseteq Pending(t)
        PROVE  Ordered(a)'
    <3>1. Live(t) /\ Live(t)'  BY <2>6 DEF Live
    <3>2. a = t /\ Alone(t)  BY <2>1, <3>1 DEF Alone
    <3>3. TopUnclaimed  BY <1>1, <2>6, EntriesKept DEF TopUnclaimed
    <3>4. Ordered(t)  BY <1>a, <3>2, <3>3
    <3> QED BY <2>6, <3>2, <3>4, OrderedAfterAppend
  <2> QED BY <1>1, <2>2, <2>3, <2>4, <2>5, <2>6, StepKinds
<1>2. CASE UNCHANGED vars
      BY <1>2 DEF vars, lists, locals, BreadthInv, TopUnclaimed, Alone, Live, Claimed,
                  Pending, Unclaimed
<1> QED BY <1>1, <1>2 DEF EnumNext
(***************************************************************************)
(* The theorems.                                                           *)
(***************************************************************************)
LEMMA StepLemma == EnumInv /\ [EnumNext]_vars => EnumInv'
<1> SUFFICES ASSUME EnumInv, [EnumNext]_vars PROVE EnumInv' OBVIOUS
<1>0. /\ EnumTypeOK /\ ListInv /\ ClaimInv /\ HandInv /\ ExpandInv /\ LinksInv
      /\ CountInv /\ LiveInv /\ BreadthInv
      BY DEF EnumInv
<1>1. EnumTypeOK'  BY <1>0, TypeStep
<1>2. ListInv'     BY <1>0, ListStep
<1>3. ClaimInv'    BY <1>0, ClaimStep
<1>4. HandInv'     BY <1>0, HandStep
<1>5. ExpandInv'   BY <1>0, ExpandStep
<1>6. LinksInv'    BY <1>0, LinksStep
<1>7. CountInv'    BY <1>0, CountStep
<1>8. LiveInv'     BY <1>0, LiveStep
<1>9. BreadthInv'  BY <1>0, BreadthStep
<1> QED BY <1>1, <1>2, <1>3, <1>4, <1>5, <1>6, <1>7, <1>8, <1>9 DEF EnumInv

LEMMA EnumInvariant == EnumSpec => []EnumInv
BY InitLemma, StepLemma, PTL DEF EnumSpec

\* generateAllMBFsFast: however the threads race, no class is listed, claimed or
\* expanded twice, and none is claimed before it is complete in the list.
THEOREM EachClassOnce == EnumSpec => []FoundOnce
<1>1. EnumInv => FoundOnce
  <2> SUFFICES ASSUME EnumInv PROVE FoundOnce OBVIOUS
  <2>1. EnumTypeOK /\ ListInv /\ ClaimInv /\ ExpandInv  BY DEF EnumInv
  <2>2. \A c \in Classes : expanded[c] <= 1
    <3>1. \A c \in Classes : expanded[c] \in {0, 1}  BY <2>1 DEF ExpandInv
    <3> QED BY <3>1
  <2> QED BY <2>1, <2>2 DEF FoundOnce, ListInv, ClaimInv
<1> QED BY <1>1, EnumInvariant, PTL

\* As many threads counted as there are means that all are counted.
LEMMA AllCounted ==
  ASSUME EnumInv, waiting = NumThreads
  PROVE  \A t \in Threads : Counted(t)
<1>1. CountedThreads \in SUBSET Threads  BY DEF CountedThreads
<1>2. Cardinality(Threads) = Cardinality(CountedThreads)
      BY DEF EnumInv, CountInv, CountedThreads, NumThreads
<1>3. CountedThreads = Threads  BY <1>1, <1>2, ThreadsAssumption, FS_Subset
<1> QED BY <1>3 DEF CountedThreads

LEMMA NothingLeft ==
  ASSUME EnumInv, \A t \in Threads : Counted(t)
  PROVE  next = Len(found)
<1>0. EnumTypeOK /\ ListInv /\ LiveInv  BY DEF EnumInv
<1>1. Len(found) \in Nat /\ next \in Nat /\ next <= known /\ known <= Len(found) /\ known \in Nat
      BY <1>0, ListTyped
<1>2. \A t \in Threads : ~Live(t)  BY DEF Counted, Live
<1>3. ~(next < Len(found))  BY <1>0, <1>2 DEF LiveInv
<1> QED BY ONLY <1>1, <1>3

\* The end test of the threads: when all are counted as waiting, no thread has a
\* class in hand and none is left, although the thread of the full MBF stopped
\* looking when it was counted.
THEOREM WaitingMeansDone == EnumSpec => []AllWaitingMeansAllDone
<1>1. EnumInv => AllWaitingMeansAllDone
  <2> SUFFICES ASSUME EnumInv, waiting = NumThreads
               PROVE  next = Len(found) /\ \A t \in Threads : ~HasWork(t)
      BY DEF AllWaitingMeansAllDone
  <2>1. \A t \in Threads : Counted(t)  BY AllCounted
  <2>2. \A t \in Threads : ~HasWork(t)  BY <2>1 DEF Counted, HasWork
  <2> QED BY <2>1, <2>2, NothingLeft
<1> QED BY <1>1, EnumInvariant, PTL

\* When the threads are joined, the list holds every class, each but the full
\* MBF has been expanded, and links counts the pairs of a class and a successor.
THEOREM EnumerationComplete == EnumSpec => []ResultComplete
<1>1. EnumInv => ResultComplete
  <2> SUFFICES ASSUME EnumInv, Joined
               PROVE  /\ Found = Classes
                      /\ \A c \in Classes : expanded[c] = IF c = Top THEN 0 ELSE 1
                      /\ links = Cardinality({e \in Classes \X Classes : e[1] # Top /\ e[2] \in Succ[e[1]]})
      BY DEF ResultComplete
  <2>0. EnumTypeOK /\ ListInv /\ HandInv /\ ExpandInv /\ LinksInv  BY DEF EnumInv
  <2>1. \A t \in Threads : pc[t] = "done" /\ Counted(t)  BY DEF Joined, Counted
  <2>2. next = Len(found)  BY <2>1, NothingLeft
  <2>3. /\ DOMAIN found = 1 .. Len(found) /\ Len(found) \in Nat
        /\ \A i \in DOMAIN found : found[i] \in Classes
        BY <2>0, ListTyped
  <2>4. \A i \in DOMAIN found : expanded[found[i]] = 1 <=> found[i] # Top
        BY <2>0, <2>1, <2>2, <2>3 DEF ExpandInv
  <2>5. \A t \in Threads : unchecked[t] = {} /\ fresh[t] = {}
        BY <2>0, <2>1 DEF HandInv
  <2>6. \A c \in Found \ {Top} : Succ[c] \subseteq Found
    <3>1. TAKE c \in Found \ {Top}
    <3>2. c \in Classes /\ expanded[c] = 1  BY <2>3, <2>4 DEF Found
    <3>3. \A d \in Succ[c] : d \in Found  BY <2>0, <2>5, <3>2 DEF ExpandInv
    <3> QED BY <3>3
  <2>7. Bot \in Found /\ Found \in SUBSET Classes
    <3>1. 1 \in DOMAIN found /\ found[1] = Bot  BY <2>0, <2>3 DEF ListInv
    <3> QED BY <2>3, <3>1 DEF Found
  <2>8. Found = Classes  BY <2>6, <2>7, ReachAssumption
  <2>9. \A c \in Classes : expanded[c] = 1 <=> c # Top  BY <2>4, <2>8 DEF Found
  <2>10. \A c \in Classes : expanded[c] = IF c = Top THEN 0 ELSE 1
         BY <2>0, <2>9 DEF ExpandInv
  <2>11. Edges({c \in Classes : expanded[c] = 1})
           = {e \in Classes \X Classes : e[1] # Top /\ e[2] \in Succ[e[1]]}
         BY <2>9 DEF Edges
  <2> QED BY <2>0, <2>8, <2>10, <2>11 DEF LinksInv
<1> QED BY <1>1, EnumInvariant, PTL
=============================================================================
