-------------------------- MODULE SyncQueuesProofs --------------------------
(***************************************************************************)
(* For every number of sockets, creators, processors, tops and buffers: a  *)
(* buffer is in one place and there once; a creator that sleeps on a queue *)
(* will be woken by somebody; no processor sleeps beside a job without a   *)
(* notification on its way.                                                *)
(***************************************************************************)
EXTENDS SyncQueues, FiniteSetTheorems, SequenceTheorems, TLAPS

(***************************************************************************)
(* The inductive invariant.                                                *)
(***************************************************************************)
LatchInv == latchCount = 1 <=> loader = "loading"

\* What a thread has while it is at a step: a creator as many buffers as tops, at
\* most a batch and never none, a processor one job.
HandInv ==
  /\ \A c \in Creators :
       /\ pc[c] \in {"popping", "asleep", "holding"} => Len(want[c]) \in 1 .. Batch
       /\ pc[c] = "holding" => Len(hand[c]) = Len(want[c])
       /\ pc[c] # "holding" => hand[c] = <<>>
  /\ \A p \in Processors : pc[p] \in {"holding", "notifying"} => Len(hand[p]) = 1

\* Freed buffers come home: an allocator has buffers of its own socket only.
HomeInv ==
  /\ \A s \in Sockets : Range(alloc[s]) \subseteq BufsAt(s)
  /\ \A c \in Creators : Range(Carried(hand[c])) \subseteq BufsAt(SocketOf[c])

CloseInv ==
  /\ closed <=> producer \in {"notifying", "done"}
  /\ producer = "done" => \A p \in Processors : pc[p] # "asleep"

\* The two halves of BuffersConserved, over the contents F of all places.
Separate(F) ==
  \A x, y \in Places : \A i \in DOMAIN F[x], j \in DOMAIN F[y] :
    F[x][i] = F[y][j] => x = y /\ i = j
Covers(F) == \A b \in Bufs : \E x \in Places : b \in Range(F[x])
Where     == [x \in Places |-> InPlace(x)]

SyncInv == /\ SyncTypeOK /\ LatchInv /\ HandInv /\ HomeInv /\ CloseInv
           /\ Separate(Where) /\ Covers(Where)
           /\ SleepersAreWoken /\ NoJobBesideSleepers

(***************************************************************************)
(* Sequences.                                                              *)
(***************************************************************************)
LEMMA TakeDrop ==
  ASSUME NEW S, NEW q \in Seq(S), NEW n \in 0 .. Len(q)
  PROVE  /\ Take(q, n) \in Seq(S) /\ Len(Take(q, n)) = n
         /\ \A i \in 1 .. n : Take(q, n)[i] = q[i]
         /\ Drop(q, n) \in Seq(S) /\ Len(Drop(q, n)) = Len(q) - n
         /\ \A i \in 1 .. Len(q) - n : Drop(q, n)[i] = q[n + i]
<1>1. Len(q) \in Nat /\ n \in Nat /\ \A i \in 1 .. Len(q) : q[i] \in S
  BY LenProperties, ElementOfSeq
<1>2. \A i \in 1 .. n : q[i] \in S
  BY <1>1
<1>3. \A i \in n + 1 .. Len(q) : q[i] \in S
  BY <1>1
<1>4. /\ Take(q, n) \in Seq(S)
      /\ Len(Take(q, n)) = IF 1 <= n THEN n - 1 + 1 ELSE 0
      /\ \A i \in 1 .. n - 1 + 1 : Take(q, n)[i] = q[1 + i - 1]
  BY <1>1, <1>2, SubSeqProperties DEF Take
<1>5. /\ Drop(q, n) \in Seq(S)
      /\ Len(Drop(q, n)) = IF n + 1 <= Len(q) THEN Len(q) - (n + 1) + 1 ELSE 0
      /\ \A i \in 1 .. Len(q) - (n + 1) + 1 : Drop(q, n)[i] = q[(n + 1) + i - 1]
  BY <1>1, <1>3, SubSeqProperties DEF Drop
<1>6. Len(Take(q, n)) = n /\ \A i \in 1 .. n : Take(q, n)[i] = q[i]
  BY <1>1, <1>4
<1>7. Len(Drop(q, n)) = Len(q) - n /\ \A i \in 1 .. Len(q) - n : Drop(q, n)[i] = q[n + i]
  BY <1>1, <1>5
<1> QED
  BY <1>4, <1>5, <1>6, <1>7

LEMMA CarriedSeq ==
  ASSUME NEW q \in Seq(Tops \X Bufs)
  PROVE  /\ Carried(q) \in Seq(Bufs) /\ Len(Carried(q)) = Len(q)
         /\ \A i \in 1 .. Len(q) : Carried(q)[i] = q[i][2]
<1>1. Len(q) \in Nat /\ DOMAIN q = 1 .. Len(q)
  BY LenProperties
<1>2. \A i \in 1 .. Len(q) : q[i] \in Tops \X Bufs
  BY ElementOfSeq
<1>3. \A i \in 1 .. Len(q) : q[i][2] \in Bufs
  BY <1>2
<1>4. Carried(q) = [i \in 1 .. Len(q) |-> q[i][2]]
  BY <1>1 DEF Carried
<1> QED
  BY <1>1, <1>3, <1>4

\* Two sequences with the same entries are the same.
LEMMA CarriedConcat ==
  ASSUME NEW q \in Seq(Tops \X Bufs), NEW r \in Seq(Tops \X Bufs)
  PROVE  Carried(q \o r) = Carried(q) \o Carried(r)
<1> DEFINE a == Carried(q \o r)  b == Carried(q) \o Carried(r)
<1>1. /\ Len(q) \in Nat /\ Len(r) \in Nat /\ q \o r \in Seq(Tops \X Bufs)
      /\ Len(q \o r) = Len(q) + Len(r)
      /\ \A i \in 1 .. Len(q) + Len(r) : (q \o r)[i] = IF i <= Len(q) THEN q[i] ELSE r[i - Len(q)]
  BY ConcatProperties, LenProperties
<1>2. /\ Carried(q) \in Seq(Bufs) /\ Len(Carried(q)) = Len(q)
      /\ \A i \in 1 .. Len(q) : Carried(q)[i] = q[i][2]
      /\ Carried(r) \in Seq(Bufs) /\ Len(Carried(r)) = Len(r)
      /\ \A i \in 1 .. Len(r) : Carried(r)[i] = r[i][2]
  BY CarriedSeq
<1>3. /\ a \in Seq(Bufs) /\ Len(a) = Len(q) + Len(r)
      /\ \A i \in 1 .. Len(q) + Len(r) : a[i] = (q \o r)[i][2]
  BY <1>1, CarriedSeq
<1>4. /\ b \in Seq(Bufs) /\ Len(b) = Len(q) + Len(r)
      /\ \A i \in 1 .. Len(q) + Len(r) :
           b[i] = IF i <= Len(q) THEN Carried(q)[i] ELSE Carried(r)[i - Len(q)]
  <2> DEFINE f == Carried(q)  g == Carried(r)
  <2>1. f \in Seq(Bufs) /\ g \in Seq(Bufs) /\ Len(f) = Len(q) /\ Len(g) = Len(r)
    BY <1>2
  <2>2. b = f \o g
    OBVIOUS
  <2> HIDE DEF f, g
  <2>3. /\ f \o g \in Seq(Bufs) /\ Len(f \o g) = Len(f) + Len(g)
        /\ \A i \in 1 .. Len(f) + Len(g) :
             (f \o g)[i] = IF i <= Len(f) THEN f[i] ELSE g[i - Len(f)]
    BY <2>1, ConcatProperties
  <2>4. /\ f \o g \in Seq(Bufs) /\ Len(f \o g) = Len(q) + Len(r)
        /\ \A i \in 1 .. Len(q) + Len(r) :
             (f \o g)[i] = IF i <= Len(q) THEN f[i] ELSE g[i - Len(q)]
    BY <2>1, <2>3
  <2> QED
    BY <2>4 DEF f, g
<1>5. ASSUME NEW i \in 1 .. Len(a) PROVE a[i] = b[i]
  <2>1. CASE i <= Len(q)
    BY <1>1, <1>2, <1>3, <1>4, <2>1
  <2>2. CASE ~(i <= Len(q))
    <3>1. i - Len(q) \in 1 .. Len(r)
      BY <1>1, <1>3, <2>2
    <3> QED
      BY <1>1, <1>2, <1>3, <1>4, <2>2, <3>1
  <2> QED
    BY <2>1, <2>2
<1>6. a = b
  <2> HIDE DEF a, b
  <2> QED
    BY <1>3, <1>4, <1>5, SeqEqual
<1> QED
  BY <1>6

LEMMA CarriedTail ==
  ASSUME NEW q \in Seq(Tops \X Bufs), q # <<>>
  PROVE  /\ Carried(Tail(q)) = Drop(Carried(q), 1)
         /\ Carried(<<Head(q)>>) = Take(Carried(q), 1)
<1>1. /\ Len(q) \in Nat /\ Len(q) >= 1 /\ Tail(q) \in Seq(Tops \X Bufs) /\ Len(Tail(q)) = Len(q) - 1
      /\ \A i \in 1 .. Len(q) - 1 : Tail(q)[i] = q[i + 1]
      /\ Head(q) = q[1] /\ Head(q) \in Tops \X Bufs
  BY HeadTailProperties, EmptySeq
<1>2. /\ Carried(q) \in Seq(Bufs) /\ Len(Carried(q)) = Len(q)
      /\ \A i \in 1 .. Len(q) : Carried(q)[i] = q[i][2]
  BY CarriedSeq
<1>3. /\ Carried(Tail(q)) \in Seq(Bufs) /\ Len(Carried(Tail(q))) = Len(q) - 1
      /\ \A i \in 1 .. Len(q) - 1 : Carried(Tail(q))[i] = Tail(q)[i][2]
  BY <1>1, CarriedSeq
<1>4. /\ <<Head(q)>> \in Seq(Tops \X Bufs) /\ Len(<<Head(q)>>) = 1 /\ <<Head(q)>>[1] = Head(q)
  BY <1>1
<1>5. /\ Carried(<<Head(q)>>) \in Seq(Bufs) /\ Len(Carried(<<Head(q)>>)) = 1
      /\ Carried(<<Head(q)>>)[1] = Head(q)[2]
  BY <1>4, CarriedSeq
<1>6. 1 \in 0 .. Len(Carried(q))
  BY <1>1, <1>2
<1> DEFINE d == Carried(q)  u == Take(d, 1)  v == Drop(d, 1)  w == Carried(Tail(q))
<1>7. /\ u \in Seq(Bufs) /\ Len(u) = 1 /\ u[1] = d[1]
      /\ v \in Seq(Bufs) /\ Len(v) = Len(d) - 1
      /\ \A i \in 1 .. Len(d) - 1 : v[i] = d[1 + i]
  <2>1. d \in Seq(Bufs)
    BY <1>2
  <2>2. /\ Take(d, 1) \in Seq(Bufs) /\ Len(Take(d, 1)) = 1
        /\ \A i \in 1 .. 1 : Take(d, 1)[i] = d[i]
        /\ Drop(d, 1) \in Seq(Bufs) /\ Len(Drop(d, 1)) = Len(d) - 1
        /\ \A i \in 1 .. Len(d) - 1 : Drop(d, 1)[i] = d[1 + i]
    <3> HIDE DEF d
    <3> QED
      BY <1>6, <2>1, TakeDrop DEF d
  <2> QED
    BY <2>2
<1>8. w \in Seq(Bufs) /\ Len(w) = Len(v) /\ \A i \in 1 .. Len(w) : w[i] = v[i]
  <2>1. w \in Seq(Bufs) /\ Len(w) = Len(q) - 1 /\ \A i \in 1 .. Len(q) - 1 : w[i] = Tail(q)[i][2]
    BY <1>3
  <2>2. Len(v) = Len(q) - 1 /\ \A i \in 1 .. Len(q) - 1 : v[i] = d[1 + i]
    <3> HIDE DEF v
    <3> QED
      BY <1>2, <1>7
  <2>3. \A i \in 1 .. Len(q) : d[i] = q[i][2]
    BY <1>2
  <2> HIDE DEF d, u, v, w
  <2>4. ASSUME NEW i \in 1 .. Len(q) - 1 PROVE w[i] = v[i]
    <3>1. 1 + i \in 1 .. Len(q) /\ i + 1 = 1 + i
      BY <1>1
    <3>2. d[1 + i] = q[1 + i][2] /\ Tail(q)[i] = q[1 + i]
      BY <1>1, <2>3, <3>1
    <3> QED
      BY <2>1, <2>2, <3>2
  <2> QED
    BY <2>1, <2>2, <2>4
<1>9. w = v
  <2> HIDE DEF v, w
  <2> QED
    BY <1>7, <1>8, SeqEqual
<1>10. \A i \in 1 .. 1 : Carried(<<Head(q)>>)[i] = Take(Carried(q), 1)[i]
  BY <1>1, <1>2, <1>5, <1>7
<1>11. Carried(<<Head(q)>>) = Take(Carried(q), 1)
  BY <1>5, <1>7, <1>10, SeqEqual
<1> QED
  BY <1>9, <1>11

(***************************************************************************)
(* Moving the first n buffers of one place behind those of another.        *)
(***************************************************************************)
Moves(F, G, x, y, n) ==
  /\ F \in [Places -> Seq(Bufs)] /\ G \in [Places -> Seq(Bufs)]
  /\ x \in Places /\ y \in Places /\ x # y /\ n \in 0 .. Len(F[x])
  /\ G[x] = Drop(F[x], n) /\ G[y] = F[y] \o Take(F[x], n)
  /\ \A z \in Places \ {x, y} : G[z] = F[z]

LEMMA MoveLengths ==
  ASSUME NEW F, NEW G, NEW x, NEW y, NEW n, Moves(F, G, x, y, n)
  PROVE  /\ \A z \in Places : /\ Len(F[z]) \in Nat /\ DOMAIN F[z] = 1 .. Len(F[z])
                              /\ Len(G[z]) \in Nat /\ DOMAIN G[z] = 1 .. Len(G[z])
         /\ Len(G[x]) = Len(F[x]) - n /\ Len(G[y]) = Len(F[y]) + n
         /\ \A i \in 1 .. Len(F[x]) - n : G[x][i] = F[x][n + i]
         /\ \A i \in 1 .. Len(F[y]) : G[y][i] = F[y][i]
         /\ \A i \in 1 .. n : G[y][Len(F[y]) + i] = F[x][i]
<1>1. /\ \A z \in Places : F[z] \in Seq(Bufs) /\ G[z] \in Seq(Bufs)
      /\ x \in Places /\ y \in Places /\ x # y /\ n \in 0 .. Len(F[x])
  BY DEF Moves
<1>2. \A z \in Places : /\ Len(F[z]) \in Nat /\ DOMAIN F[z] = 1 .. Len(F[z])
                        /\ Len(G[z]) \in Nat /\ DOMAIN G[z] = 1 .. Len(G[z])
  BY <1>1, LenProperties
<1> DEFINE t == Take(F[x], n)
<1>3. /\ t \in Seq(Bufs) /\ Len(t) = n /\ \A i \in 1 .. n : t[i] = F[x][i]
      /\ Len(Drop(F[x], n)) = Len(F[x]) - n
      /\ \A i \in 1 .. Len(F[x]) - n : Drop(F[x], n)[i] = F[x][n + i]
  <2> DEFINE s == F[x]
  <2>1. s \in Seq(Bufs) /\ n \in 0 .. Len(s)
    BY <1>1
  <2> HIDE DEF s
  <2>2. /\ Take(s, n) \in Seq(Bufs) /\ Len(Take(s, n)) = n /\ \A i \in 1 .. n : Take(s, n)[i] = s[i]
        /\ Len(Drop(s, n)) = Len(s) - n
        /\ \A i \in 1 .. Len(s) - n : Drop(s, n)[i] = s[n + i]
    BY <2>1, TakeDrop
  <2> QED
    BY <2>2 DEF s
<1>4. G[x] = Drop(F[x], n) /\ G[y] = F[y] \o t
  BY DEF Moves
<1> HIDE DEF t
<1>5. /\ Len(F[y] \o t) = Len(F[y]) + Len(t)
      /\ \A i \in 1 .. Len(F[y]) + Len(t) :
           (F[y] \o t)[i] = IF i <= Len(F[y]) THEN F[y][i] ELSE t[i - Len(F[y])]
  <2>1. F[y] \in Seq(Bufs) /\ t \in Seq(Bufs)
    BY <1>1, <1>3
  <2> DEFINE f == F[y]
  <2>2. f \in Seq(Bufs)
    BY <2>1
  <2> HIDE DEF f
  <2>3. /\ Len(f \o t) = Len(f) + Len(t)
        /\ \A i \in 1 .. Len(f) + Len(t) :
             (f \o t)[i] = IF i <= Len(f) THEN f[i] ELSE t[i - Len(f)]
    BY <2>1, <2>2, ConcatProperties
  <2> QED
    BY <2>3 DEF f
<1>6. \A i \in 1 .. Len(F[y]) : G[y][i] = F[y][i]
  BY <1>2, <1>3, <1>4, <1>5
<1>7. ASSUME NEW i \in 1 .. n PROVE G[y][Len(F[y]) + i] = F[x][i]
  <2>1. Len(F[y]) + i \in 1 .. Len(F[y]) + Len(t) /\ ~(Len(F[y]) + i <= Len(F[y]))
        /\ (Len(F[y]) + i) - Len(F[y]) = i
    BY <1>2, <1>3
  <2> QED
    BY <1>3, <1>4, <1>5, <2>1
<1> QED
  BY <1>2, <1>3, <1>4, <1>5, <1>6, <1>7
\* Where an entry of G comes from: a place and an index of F, no two entries the same.
LEMMA MoveOrigins ==
  ASSUME NEW F, NEW G, NEW x, NEW y, NEW n, Moves(F, G, x, y, n),
         NEW z \in Places, NEW i \in DOMAIN G[z]
  PROVE  \E w \in Places : \E j \in DOMAIN F[w] :
           /\ G[z][i] = F[w][j]
           /\ \/ z = x /\ w = x /\ j = n + i
              \/ z = y /\ w = y /\ j = i
              \/ z = y /\ w = x /\ j <= n /\ i = Len(F[y]) + j
              \/ z \notin {x, y} /\ w = z /\ j = i
<1>0. x \in Places /\ y \in Places /\ x # y /\ n \in 0 .. Len(F[x])
  BY DEF Moves
<1>1. /\ \A v \in Places : /\ Len(F[v]) \in Nat /\ DOMAIN F[v] = 1 .. Len(F[v])
                           /\ Len(G[v]) \in Nat /\ DOMAIN G[v] = 1 .. Len(G[v])
      /\ Len(G[x]) = Len(F[x]) - n /\ Len(G[y]) = Len(F[y]) + n
      /\ \A k \in 1 .. Len(F[x]) - n : G[x][k] = F[x][n + k]
      /\ \A k \in 1 .. Len(F[y]) : G[y][k] = F[y][k]
      /\ \A k \in 1 .. n : G[y][Len(F[y]) + k] = F[x][k]
  BY MoveLengths
<1>2. n \in Nat /\ n <= Len(F[x]) /\ i \in Nat /\ 1 <= i /\ i <= Len(G[z])
  BY <1>0, <1>1
<1>3. CASE z = x
  <2>1. i \in 1 .. Len(F[x]) - n /\ n + i \in 1 .. Len(F[x])
    BY <1>0, <1>1, <1>2, <1>3
  <2>2. n + i \in DOMAIN F[x] /\ G[z][i] = F[x][n + i]
    BY <1>0, <1>1, <1>3, <2>1
  <2> QED
    BY <1>0, <1>3, <2>2
<1>4. CASE z = y /\ i <= Len(F[y])
  <2>1. i \in 1 .. Len(F[y])
    BY <1>0, <1>1, <1>2, <1>4
  <2>2. i \in DOMAIN F[y] /\ G[z][i] = F[y][i]
    BY <1>0, <1>1, <1>4, <2>1
  <2> QED
    BY <1>0, <1>4, <2>2
<1>5. CASE z = y /\ ~(i <= Len(F[y]))
  <2> DEFINE j == i - Len(F[y])
  <2>1. j \in 1 .. n /\ i = Len(F[y]) + j /\ j \in 1 .. Len(F[x])
    BY <1>0, <1>1, <1>2, <1>5
  <2> HIDE DEF j
  <2>2. j \in DOMAIN F[x] /\ G[z][i] = F[x][j] /\ j <= n
    BY <1>0, <1>1, <1>5, <2>1
  <2> QED
    BY <1>0, <1>5, <2>1, <2>2
<1>6. CASE z \notin {x, y}
  <2>1. G[z] = F[z]
    BY <1>6 DEF Moves
  <2> QED
    BY <1>6, <2>1
<1> QED
  BY <1>3, <1>4, <1>5, <1>6

LEMMA MoveKeeps ==
  ASSUME NEW F, NEW G, NEW x, NEW y, NEW n, Moves(F, G, x, y, n), Separate(F), Covers(F)
  PROVE  Separate(G) /\ Covers(G)
<1>0. x \in Places /\ y \in Places /\ x # y /\ n \in 0 .. Len(F[x])
  BY DEF Moves
<1>1. /\ \A v \in Places : /\ Len(F[v]) \in Nat /\ DOMAIN F[v] = 1 .. Len(F[v])
                           /\ Len(G[v]) \in Nat /\ DOMAIN G[v] = 1 .. Len(G[v])
      /\ Len(G[x]) = Len(F[x]) - n /\ Len(G[y]) = Len(F[y]) + n
      /\ \A k \in 1 .. Len(F[x]) - n : G[x][k] = F[x][n + k]
      /\ \A k \in 1 .. Len(F[y]) : G[y][k] = F[y][k]
      /\ \A k \in 1 .. n : G[y][Len(F[y]) + k] = F[x][k]
  BY MoveLengths
<1>2. n \in Nat /\ n <= Len(F[x])
  BY <1>0, <1>1
<1>3. Separate(G)
  <2>1. SUFFICES ASSUME NEW a \in Places, NEW b \in Places,
                        NEW i \in DOMAIN G[a], NEW k \in DOMAIN G[b], G[a][i] = G[b][k]
                 PROVE  a = b /\ i = k
    BY DEF Separate
  <2>2. PICK w \in Places : \E j \in DOMAIN F[w] :
           /\ G[a][i] = F[w][j]
           /\ \/ a = x /\ w = x /\ j = n + i
              \/ a = y /\ w = y /\ j = i
              \/ a = y /\ w = x /\ j <= n /\ i = Len(F[y]) + j
              \/ a \notin {x, y} /\ w = a /\ j = i
    BY MoveOrigins
  <2>3. PICK j \in DOMAIN F[w] :
           /\ G[a][i] = F[w][j]
           /\ \/ a = x /\ w = x /\ j = n + i
              \/ a = y /\ w = y /\ j = i
              \/ a = y /\ w = x /\ j <= n /\ i = Len(F[y]) + j
              \/ a \notin {x, y} /\ w = a /\ j = i
    BY <2>2
  <2>4. PICK v \in Places : \E l \in DOMAIN F[v] :
           /\ G[b][k] = F[v][l]
           /\ \/ b = x /\ v = x /\ l = n + k
              \/ b = y /\ v = y /\ l = k
              \/ b = y /\ v = x /\ l <= n /\ k = Len(F[y]) + l
              \/ b \notin {x, y} /\ v = b /\ l = k
    BY MoveOrigins
  <2>5. PICK l \in DOMAIN F[v] :
           /\ G[b][k] = F[v][l]
           /\ \/ b = x /\ v = x /\ l = n + k
              \/ b = y /\ v = y /\ l = k
              \/ b = y /\ v = x /\ l <= n /\ k = Len(F[y]) + l
              \/ b \notin {x, y} /\ v = b /\ l = k
    BY <2>4
  <2>6. w = v /\ j = l
    <3>1. F[w][j] = F[v][l]
      BY <2>1, <2>3, <2>5
    <3> QED
      BY <3>1 DEF Separate
  <2>7. /\ i \in 1 .. Len(G[a]) /\ k \in 1 .. Len(G[b]) /\ Len(G[a]) \in Nat /\ Len(G[b]) \in Nat
        /\ j \in 1 .. Len(F[w]) /\ l \in 1 .. Len(F[v]) /\ Len(F[w]) \in Nat /\ Len(F[v]) \in Nat
        /\ Len(F[y]) \in Nat /\ Len(F[x]) \in Nat
    BY <1>0, <1>1
  <2>8. a = b
    BY <1>0, <1>2, <2>3, <2>5, <2>6, <2>7
  <2>9. i = k
    BY <1>0, <1>2, <2>3, <2>5, <2>6, <2>7, <2>8
  <2> QED
    BY <2>8, <2>9
<1>4. Covers(G)
  <2>1. SUFFICES ASSUME NEW b \in Bufs PROVE \E z \in Places : b \in Range(G[z])
    BY DEF Covers
  <2>2. PICK w \in Places : b \in Range(F[w])
    BY DEF Covers
  <2>3. PICK j \in DOMAIN F[w] : F[w][j] = b
    BY <2>2 DEF Range
  <2>4. SUFFICES \E z \in Places : \E i \in DOMAIN G[z] : G[z][i] = b
    BY DEF Range
  <2>5. j \in Nat /\ 1 <= j /\ j <= Len(F[w])
    BY <1>0, <1>1
  <2>6. CASE w = x /\ j <= n
    <3>1. j \in 1 .. n /\ Len(F[y]) + j \in 1 .. Len(G[y])
      BY <1>0, <1>1, <1>2, <2>5, <2>6
    <3>2. Len(F[y]) + j \in DOMAIN G[y] /\ G[y][Len(F[y]) + j] = b
      BY <1>0, <1>1, <2>3, <2>6, <3>1
    <3> QED
      BY <1>0, <3>2
  <2>7. CASE w = x /\ ~(j <= n)
    <3> DEFINE i == j - n
    <3>1. i \in 1 .. Len(F[x]) - n /\ n + i = j
      BY <1>0, <1>1, <1>2, <2>5, <2>7
    <3> HIDE DEF i
    <3>2. i \in DOMAIN G[x] /\ G[x][i] = b
      BY <1>0, <1>1, <2>3, <2>7, <3>1
    <3> QED
      BY <1>0, <3>2
  <2>8. CASE w = y
    <3>1. j \in 1 .. Len(F[y]) /\ j \in 1 .. Len(G[y])
      BY <1>0, <1>1, <1>2, <2>5, <2>8
    <3> QED
      BY <1>0, <1>1, <2>3, <2>8, <3>1
  <2>9. CASE w \notin {x, y}
    <3>1. G[w] = F[w]
      BY <2>9 DEF Moves
    <3> QED
      BY <2>3, <3>1
  <2> QED
    BY <2>6, <2>7, <2>8, <2>9
<1> QED
  BY <1>3, <1>4
(***************************************************************************)
(* Types, and what a thread has in its hands.                              *)
(***************************************************************************)
LEMMA ProbeInRange ==
  ASSUME SyncTypeOK, NEW p \in Processors, NEW k \in Sockets
  PROVE  Probe(p, k) \in Sockets
<1>1. last[p] \in Int /\ SocketOf[p] \in Int /\ k \in Int /\ NumSockets \in Nat \ {0}
  BY SyncAssumption DEF SyncTypeOK, Sockets, Threads
<1>2. \A m \in Int, n \in Nat \ {0} : m % n \in 0 .. n - 1
  OBVIOUS
<1>3. last[p] - 1 - k \in Int /\ SocketOf[p] - k \in Int
  BY <1>1
<1>4. /\ (last[p] - 1 - k) % NumSockets \in 0 .. NumSockets - 1
      /\ (SocketOf[p] - k) % NumSockets \in 0 .. NumSockets - 1
  BY <1>1, <1>2, <1>3
<1> QED
  BY <1>4 DEF Probe, Sockets

\* A pop takes the head of some queue, or it finds all of them empty.
TakesJob(p, s) ==
  /\ input[s] # <<>>
  /\ hand' = [hand EXCEPT ![p] = <<Head(input[s])>>]
  /\ input' = [input EXCEPT ![s] = Tail(@)]
  /\ last' \in [Processors -> Sockets]
  /\ Goto(p, "holding")
FindsNone(p) ==
  /\ \A s \in Sockets : input[s] = <<>>
  /\ Goto(p, IF closed THEN "exited" ELSE "asleep")
  /\ UNCHANGED <<hand, input, last>>

LEMMA PopKinds ==
  ASSUME SyncTypeOK, NEW p \in Processors, PopJob(p)
  PROVE  /\ (\E s \in Sockets : TakesJob(p, s)) \/ FindsNone(p)
         /\ pc[p] = "popping"
         /\ UNCHANGED <<nextTop, alloc, closed, want, producer, latch>>
<1>1. CASE \E k \in Sockets :
          /\ input[Probe(p, k)] # <<>>
          /\ \A i \in 0 .. k - 1 : input[Probe(p, i)] = <<>>
          /\ hand' = [hand EXCEPT ![p] = <<Head(input[Probe(p, k)])>>]
          /\ input' = [input EXCEPT ![Probe(p, k)] = Tail(@)]
          /\ last' = [last EXCEPT ![p] = IF p \in Rotates THEN Probe(p, k) ELSE @]
          /\ Goto(p, "holding")
  <2>1. PICK k \in Sockets :
          /\ input[Probe(p, k)] # <<>>
          /\ hand' = [hand EXCEPT ![p] = <<Head(input[Probe(p, k)])>>]
          /\ input' = [input EXCEPT ![Probe(p, k)] = Tail(@)]
          /\ last' = [last EXCEPT ![p] = IF p \in Rotates THEN Probe(p, k) ELSE @]
          /\ Goto(p, "holding")
    BY <1>1
  <2>2. Probe(p, k) \in Sockets
    BY ProbeInRange
  <2>3. last' \in [Processors -> Sockets]
    BY <2>1, <2>2 DEF SyncTypeOK
  <2>4. TakesJob(p, Probe(p, k))
    BY <2>1, <2>3 DEF TakesJob
  <2> QED
    BY <2>2, <2>4 DEF PopJob
<1>2. CASE FindsNone(p)
  BY <1>2 DEF PopJob
<1> QED
  BY <1>1, <1>2 DEF PopJob, FindsNone

\* Unless a step is one of these it leaves the threads where they are, or wakes
\* some of them.
Wakes ==
  /\ pc' \in [Threads -> {"ready", "popping", "asleep", "holding", "notifying", "exited"}]
  /\ \A t \in Threads : pc'[t] = pc[t] \/ (pc[t] = "asleep" /\ pc'[t] = "popping")
  /\ UNCHANGED <<nextTop, alloc, input, want, hand, last>>
  /\ closed => closed'
EndsNotifying(c) ==
  /\ pc[c] = "notifying" /\ pc'[c] = "ready"
  /\ pc' \in [Threads -> {"ready", "popping", "asleep", "holding", "notifying", "exited"}]
  /\ \A t \in Threads \ {c} : pc'[t] = pc[t] \/ (pc[t] = "asleep" /\ pc'[t] = "popping")
  /\ \A p \in Processors : pc'[p] # "asleep"
  /\ UNCHANGED <<nextTop, alloc, input, closed, want, hand, last, producer, latch>>
WakesFor(p, s) ==
  /\ pc[p] = "notifying" /\ pc'[p] = "popping" /\ s = HomeOf(hand[p][1][2])
  /\ pc' \in [Threads -> {"ready", "popping", "asleep", "holding", "notifying", "exited"}]
  /\ \A t \in Threads \ {p} : pc'[t] = pc[t] \/ (pc[t] = "asleep" /\ pc'[t] = "popping")
  /\ \/ \E c \in SleepersAt(s) : pc'[c] = "popping"
     \/ SleepersAt(s) = {}
  /\ hand' = [hand EXCEPT ![p] = <<>>]
  /\ UNCHANGED <<nextTop, alloc, input, closed, want, last, producer, latch>>

LEMMA StepKinds ==
  ASSUME SyncTypeOK, [SyncNext]_vars
  PROVE  \/ \E c \in Creators :
              Grab(c) \/ PopBuffers(c) \/ PushJobs(c) \/ EndsNotifying(c)
         \/ \E p \in Processors :
              PopJob(p) \/ FreeBuffer(p) \/ \E s : WakesFor(p, s)
         \/ Wakes
<1> USE DEF SyncTypeOK, Threads
<1>1. ASSUME UNCHANGED vars PROVE Wakes
  BY <1>1 DEF Wakes, vars
<1>2. ASSUME NEW c \in Creators, CreatorStep(c)
      PROVE  Grab(c) \/ PopBuffers(c) \/ PushJobs(c) \/ EndsNotifying(c)
  <2>1. ASSUME WakeProcessors(c) PROVE EndsNotifying(c)
    <3>1. pc' = [t \in Threads |-> IF t = c THEN "ready"
                              ELSE IF t \in Processors /\ pc[t] = "asleep" THEN "popping"
                              ELSE pc[t]]
      BY <2>1 DEF WakeProcessors
    <3>2. /\ pc[c] = "notifying"
          /\ UNCHANGED <<nextTop, alloc, input, closed, want, hand, last, producer, latch>>
      BY <2>1 DEF WakeProcessors
    <3>3. c \notin Processors
      BY SyncAssumption
    <3> QED
      BY <3>1, <3>2, <3>3 DEF EndsNotifying
  <2> QED
    BY <1>2, <2>1 DEF CreatorStep
<1>3. ASSUME NEW p \in Processors, ProcessorStep(p)
      PROVE  PopJob(p) \/ FreeBuffer(p) \/ \E s : WakesFor(p, s)
  <2>1. ASSUME WakeOneCreator(p) PROVE WakesFor(p, HomeOf(hand[p][1][2]))
    <3> DEFINE S == SleepersAt(HomeOf(hand[p][1][2]))
    <3>1. /\ pc[p] = "notifying" /\ hand' = [hand EXCEPT ![p] = <<>>]
          /\ UNCHANGED <<nextTop, alloc, input, closed, want, last, producer, latch>>
          /\ \/ \E c \in S : pc' = [pc EXCEPT ![c] = "popping", ![p] = "popping"]
             \/ S = {} /\ Goto(p, "popping")
      BY <2>1 DEF WakeOneCreator
    <3>2. S \subseteq Creators /\ \A c \in S : pc[c] = "asleep" /\ c # p
      BY SyncAssumption DEF SleepersAt
    <3> HIDE DEF S
    <3>3. CASE \E c \in S : pc' = [pc EXCEPT ![c] = "popping", ![p] = "popping"]
      <4>1. PICK c \in S : pc' = [pc EXCEPT ![c] = "popping", ![p] = "popping"]
        BY <3>3
      <4>2. pc'[c] = "popping" /\ pc'[p] = "popping" /\ \A t \in Threads \ {p, c} : pc'[t] = pc[t]
        BY <3>2, <4>1
      <4> QED
        BY <3>1, <3>2, <4>1, <4>2 DEF WakesFor, S
    <3>4. CASE S = {} /\ Goto(p, "popping")
      BY <3>1, <3>4 DEF WakesFor, S, Goto
    <3> QED
      BY <3>1, <3>3, <3>4
  <2> QED
    BY <1>3, <2>1 DEF ProcessorStep
<1>4. ASSUME ProducerStep \/ NotifyTopsReady \/ SpuriousStart PROVE Wakes
  <2>1. CASE CloseNotifies
    BY <2>1 DEF CloseNotifies, Wakes
  <2>2. CASE TestLatch \/ SleepOnLatch \/ NotifyTopsReady \/ SpuriousStart
    BY <2>2 DEF TestLatch, SleepOnLatch, NotifyTopsReady, SpuriousStart, others, Wakes
  <2>3. CASE Close
    BY <2>3 DEF Close, Wakes
  <2> QED
    BY <1>4, <2>1, <2>2, <2>3 DEF ProducerStep
<1>5. ASSUME NEW t \in Threads, SpuriousWake(t) PROVE Wakes
  BY <1>5 DEF SpuriousWake, Goto, Wakes
<1> QED
  BY <1>1, <1>2, <1>3, <1>4, <1>5 DEF SyncNext
TypesOfThreads ==
  /\ nextTop \in Nat
  /\ alloc \in [Sockets -> Seq(Bufs)]
  /\ input \in [Sockets -> Seq(Tops \X Bufs)]
  /\ pc \in [Threads -> {"ready", "popping", "asleep", "holding", "notifying", "exited"}]
  /\ want \in [Creators -> Seq(Tops)]
  /\ hand \in [Threads -> Seq(Tops \X Bufs)]
  /\ last \in [Processors -> Sockets]

LEMMA HomeKnown ==
  ASSUME NEW b \in Bufs
  PROVE  HomeOf(b) \in Sockets /\ b \in BufsAt(HomeOf(b))
BY DEF HomeOf, Bufs

LEMMA OneHome ==
  ASSUME NEW s \in Sockets, NEW b \in BufsAt(s)
  PROVE  b \in Bufs /\ HomeOf(b) = s
<1>1. b \in Bufs
  BY DEF Bufs
<1>2. PICK i \in DOMAIN InitialAlloc[s] : b = InitialAlloc[s][i]
  BY DEF BufsAt
<1>3. PICK j \in DOMAIN InitialAlloc[HomeOf(b)] : b = InitialAlloc[HomeOf(b)][j]
  BY <1>1, HomeKnown DEF BufsAt
<1>4. HomeOf(b) = s
  BY <1>1, <1>2, <1>3, HomeKnown, AllocAssumption
<1> QED
  BY <1>1, <1>4

LEMMA JobInHand ==
  ASSUME SyncTypeOK, HandInv, NEW p \in Processors, pc[p] \in {"holding", "notifying"}
  PROVE  /\ Len(hand[p]) = 1 /\ hand[p][1] \in Tops \X Bufs /\ hand[p][1][2] \in Bufs
         /\ HomeOf(hand[p][1][2]) \in Sockets
         /\ hand[p][1][2] \in BufsAt(HomeOf(hand[p][1][2]))
<1>1. hand[p] \in Seq(Tops \X Bufs) /\ Len(hand[p]) = 1
  BY DEF SyncTypeOK, HandInv, Threads
<1>2. hand[p][1] \in Tops \X Bufs
  BY <1>1, ElementOfSeq
<1>3. hand[p][1][2] \in Bufs
  BY <1>2
<1> QED
  BY <1>1, <1>2, <1>3, HomeKnown

\* The buffers that a popN_wait takes, each for one top.
LEMMA Popped ==
  ASSUME SyncTypeOK, NEW c \in Creators, Len(want[c]) <= Len(alloc[SocketOf[c]]),
         NEW h, h = [i \in 1 .. Len(want[c]) |-> <<want[c][i], alloc[SocketOf[c]][i]>>]
  PROVE  /\ h \in Seq(Tops \X Bufs) /\ Len(h) = Len(want[c])
         /\ Carried(h) = Take(alloc[SocketOf[c]], Len(want[c]))
<1> DEFINE w == want[c]  a == alloc[SocketOf[c]]  n == Len(w)
<1>1. w \in Seq(Tops) /\ a \in Seq(Bufs) /\ n \in Nat /\ Len(a) \in Nat /\ n <= Len(a)
  <2>1. w \in Seq(Tops) /\ SocketOf[c] \in Sockets
    BY SyncAssumption DEF SyncTypeOK, Threads
  <2>2. a \in Seq(Bufs)
    BY <2>1 DEF SyncTypeOK
  <2> QED
    BY <2>1, <2>2, LenProperties
<1>2. h = [i \in 1 .. n |-> <<w[i], a[i]>>]
  OBVIOUS
<1> HIDE DEF w, a, n
<1>3. \A i \in 1 .. n : w[i] \in Tops /\ a[i] \in Bufs
  <2>1. \A i \in 1 .. n : i \in 1 .. Len(w) /\ i \in 1 .. Len(a)
    BY <1>1 DEF n
  <2> QED
    BY <1>1, <2>1, ElementOfSeq
<1>4. h \in Seq(Tops \X Bufs) /\ Len(h) = n /\ \A i \in 1 .. n : h[i][2] = a[i]
  BY <1>1, <1>2, <1>3
<1>5. /\ Carried(h) \in Seq(Bufs) /\ Len(Carried(h)) = n
      /\ \A i \in 1 .. n : Carried(h)[i] = a[i]
  BY <1>4, CarriedSeq
<1>6. n \in 0 .. Len(a)
  BY <1>1
<1>7. /\ Take(a, n) \in Seq(Bufs) /\ Len(Take(a, n)) = n
      /\ \A i \in 1 .. n : Take(a, n)[i] = a[i]
  BY <1>1, <1>6, TakeDrop
<1>8. Carried(h) = Take(a, n)
  <2> DEFINE x == Carried(h)  y == Take(a, n)
  <2>1. x \in Seq(Bufs) /\ y \in Seq(Bufs) /\ Len(x) = Len(y) /\ \A i \in 1 .. Len(x) : x[i] = y[i]
    BY <1>5, <1>7
  <2> HIDE DEF x, y
  <2>2. x = y
    BY <2>1, SeqEqual
  <2> QED
    BY <2>2 DEF x, y
<1> QED
  BY <1>4, <1>8 DEF w, a, n

LEMMA PopSplit ==
  ASSUME SyncTypeOK, NEW c \in Creators, PopBuffers(c)
  PROVE  /\ pc[c] = "popping" /\ SocketOf[c] \in Sockets
         /\ Len(want[c]) \in Nat /\ Len(alloc[SocketOf[c]]) \in Nat
         /\ UNCHANGED <<nextTop, input, closed, want, last, producer, latch>>
         /\ \/ /\ Len(alloc[SocketOf[c]]) < Len(want[c])
               /\ Goto(c, "asleep") /\ UNCHANGED <<alloc, hand>>
            \/ /\ Len(want[c]) <= Len(alloc[SocketOf[c]])
               /\ Goto(c, "holding")
               /\ alloc' = [alloc EXCEPT ![SocketOf[c]] = Drop(alloc[SocketOf[c]], Len(want[c]))]
               /\ hand' = [hand EXCEPT ![c] = [i \in 1 .. Len(want[c]) |->
                                                 <<want[c][i], alloc[SocketOf[c]][i]>>]]
               /\ hand'[c] \in Seq(Tops \X Bufs) /\ Len(hand'[c]) = Len(want[c])
               /\ Carried(hand'[c]) = Take(alloc[SocketOf[c]], Len(want[c]))
<1>1. SocketOf[c] \in Sockets /\ want[c] \in Seq(Tops)
  BY SyncAssumption DEF SyncTypeOK, Threads
<1>2. alloc[SocketOf[c]] \in Seq(Bufs)
  BY <1>1 DEF SyncTypeOK
<1>3. Len(want[c]) \in Nat /\ Len(alloc[SocketOf[c]]) \in Nat
  BY <1>1, <1>2, LenProperties
<1>4. CASE Len(alloc[SocketOf[c]]) < Len(want[c])
  BY <1>1, <1>3, <1>4 DEF PopBuffers
<1>5. CASE ~(Len(alloc[SocketOf[c]]) < Len(want[c]))
  <2>1. Len(want[c]) <= Len(alloc[SocketOf[c]])
    BY <1>3, <1>5
  <2> DEFINE h == [i \in 1 .. Len(want[c]) |-> <<want[c][i], alloc[SocketOf[c]][i]>>]
  <2>2. /\ h \in Seq(Tops \X Bufs) /\ Len(h) = Len(want[c])
        /\ Carried(h) = Take(alloc[SocketOf[c]], Len(want[c]))
    BY <2>1, Popped
  <2>3. /\ pc[c] = "popping" /\ Goto(c, "holding")
        /\ alloc' = [alloc EXCEPT ![SocketOf[c]] = Drop(alloc[SocketOf[c]], Len(want[c]))]
        /\ hand' = [hand EXCEPT ![c] = h]
        /\ UNCHANGED <<nextTop, input, closed, want, last, producer, latch>>
    BY <1>5 DEF PopBuffers
  <2>4. hand'[c] = h
    BY <2>3 DEF SyncTypeOK, Threads
  <2> QED
    BY <1>1, <1>3, <2>1, <2>2, <2>3, <2>4
<1> QED
  BY <1>4, <1>5
LEMMA GrabSplit ==
  ASSUME SyncTypeOK, NEW c \in Creators, Grab(c)
  PROVE  /\ pc[c] = "ready" /\ nextTop' \in Nat
         /\ want' \in [Creators -> Seq(Tops)]
         /\ \/ Goto(c, "exited") /\ UNCHANGED want
            \/ /\ Goto(c, "popping") /\ Len(want'[c]) \in 1 .. Batch
               /\ \A d \in Creators \ {c} : want'[d] = want[d]
         /\ UNCHANGED <<alloc, input, closed, hand, last, producer, latch>>
<1> DEFINE n == IF nextTop + Batch <= NumTops THEN Batch ELSE NumTops - nextTop
           w == [i \in 1 .. n |-> nextTop + i - 1]
<1>1. nextTop \in Nat /\ Batch \in Nat \ {0} /\ NumTops \in Nat
  BY SyncAssumption DEF SyncTypeOK
<1>2. pc[c] = "ready" /\ nextTop' = nextTop + Batch
      /\ UNCHANGED <<alloc, input, closed, hand, last, producer, latch>>
  BY DEF Grab
<1>3. CASE nextTop >= NumTops
  BY <1>1, <1>2, <1>3 DEF Grab, SyncTypeOK
<1>4. CASE ~(nextTop >= NumTops)
  <2>1. n \in 1 .. Batch /\ n \in Nat /\ nextTop + n <= NumTops
    BY <1>1, <1>4
  <2>2. Goto(c, "popping") /\ want' = [want EXCEPT ![c] = w]
    BY <1>4 DEF Grab
  <2> HIDE DEF n
  <2>3. \A i \in 1 .. n : nextTop + i - 1 \in Tops
    BY <1>1, <2>1 DEF Tops
  <2>4. w \in Seq(Tops) /\ Len(w) = n
    BY <2>1, <2>3
  <2> HIDE DEF w
  <2>5. want' \in [Creators -> Seq(Tops)] /\ want'[c] = w /\ \A d \in Creators \ {c} : want'[d] = want[d]
    BY <2>2, <2>4 DEF SyncTypeOK
  <2> QED
    BY <1>1, <1>2, <2>1, <2>2, <2>4, <2>5
<1> QED
  BY <1>3, <1>4

LEMMA Moved ==
  ASSUME SyncTypeOK, NEW t \in Threads, NEW l, Goto(t, l)
  PROVE  pc'[t] = l /\ \A u \in Threads \ {t} : pc'[u] = pc[u]
BY DEF SyncTypeOK, Goto

LEMMA NoneYet ==
  /\ <<>> \in Seq(Tops \X Bufs) /\ Len(<<>>) = 0 /\ <<>> \in Seq(Tops) /\ <<>> \in Seq(Bufs)
  /\ Carried(<<>>) = <<>>
<1>1. /\ <<>> \in Seq(Tops \X Bufs) /\ Len(<<>>) = 0 /\ <<>> \in Seq(Tops) /\ <<>> \in Seq(Bufs)
  BY EmptySeq
<1>2. Carried(<<>>) \in Seq(Bufs) /\ Len(Carried(<<>>)) = 0
  BY <1>1, CarriedSeq
<1> QED
  BY <1>1, <1>2, EmptySeq

LEMMA ThreadStep ==
  ASSUME SyncTypeOK, HandInv, [SyncNext]_vars
  PROVE  TypesOfThreads' /\ HandInv'
<1> USE DEF Threads
<1>t. /\ Creators \subseteq Threads /\ Processors \subseteq Threads
      /\ \A c \in Creators : c \notin Processors /\ SocketOf[c] \in Sockets
  BY SyncAssumption
<1>n. /\ <<>> \in Seq(Tops \X Bufs) /\ Len(<<>>) = 0 /\ <<>> \in Seq(Tops)
  BY NoneYet
<1>1. ASSUME NEW c \in Creators, Grab(c) PROVE TypesOfThreads' /\ HandInv'
  <2>1. TypesOfThreads'
    BY <1>1, GrabSplit DEF TypesOfThreads, SyncTypeOK, Goto
  <2>2. HandInv'
    BY <1>1, <1>t, GrabSplit, Moved DEF HandInv
  <2> QED
    BY <2>1, <2>2
<1>2. ASSUME NEW c \in Creators, PopBuffers(c) PROVE TypesOfThreads' /\ HandInv'
  <2> DEFINE s == SocketOf[c]  n == Len(want[c])
  <2>0. /\ pc[c] = "popping" /\ s \in Sockets /\ n \in 1 .. Batch
        /\ UNCHANGED <<nextTop, input, want, last>>
    BY <1>2, PopSplit DEF HandInv
  <2>1. CASE Goto(c, "asleep") /\ UNCHANGED <<alloc, hand>>
    <3>1. TypesOfThreads'
      BY <2>0, <2>1 DEF TypesOfThreads, SyncTypeOK, Goto
    <3>2. HandInv'
      BY <2>0, <2>1, <1>t, Moved DEF HandInv
    <3> QED
      BY <3>1, <3>2
  <2>2. CASE /\ n <= Len(alloc[s]) /\ Goto(c, "holding")
             /\ alloc' = [alloc EXCEPT ![s] = Drop(alloc[s], n)]
             /\ hand' = [hand EXCEPT ![c] = hand'[c]]
             /\ hand'[c] \in Seq(Tops \X Bufs) /\ Len(hand'[c]) = n
    <3>1. alloc[s] \in Seq(Bufs) /\ n \in 0 .. Len(alloc[s])
      BY <1>2, <2>0, <2>2, PopSplit DEF SyncTypeOK
    <3>2. Drop(alloc[s], n) \in Seq(Bufs)
      BY <3>1, TakeDrop
    <3>3. TypesOfThreads'
      BY <2>0, <2>2, <3>2 DEF TypesOfThreads, SyncTypeOK, Goto
    <3>4. \A t \in Threads \ {c} : hand'[t] = hand[t]
      BY <2>2 DEF SyncTypeOK
    <3>5. HandInv'
      BY <2>0, <2>2, <3>4, <1>t, Moved DEF HandInv
    <3> QED
      BY <3>3, <3>5
  <2>3. \/ Goto(c, "asleep") /\ UNCHANGED <<alloc, hand>>
        \/ /\ n <= Len(alloc[s]) /\ Goto(c, "holding")
           /\ alloc' = [alloc EXCEPT ![s] = Drop(alloc[s], n)]
           /\ hand' = [hand EXCEPT ![c] = hand'[c]]
           /\ hand'[c] \in Seq(Tops \X Bufs) /\ Len(hand'[c]) = n
    <3>1. ASSUME NEW h, hand' = [hand EXCEPT ![c] = h] PROVE hand'[c] = h
      BY <3>1 DEF SyncTypeOK
    <3> QED
      BY <1>2, <3>1, PopSplit
  <2> QED
    BY <2>1, <2>2, <2>3
<1>3. ASSUME NEW c \in Creators, PushJobs(c) PROVE TypesOfThreads' /\ HandInv'
  <2>1. /\ input' = [input EXCEPT ![SocketOf[c]] = @ \o hand[c]]
        /\ hand' = [hand EXCEPT ![c] = <<>>] /\ want' = [want EXCEPT ![c] = <<>>]
        /\ Goto(c, "notifying") /\ UNCHANGED <<nextTop, alloc, last>>
    BY <1>3 DEF PushJobs
  <2>2. input[SocketOf[c]] \in Seq(Tops \X Bufs) /\ hand[c] \in Seq(Tops \X Bufs)
    BY <1>t DEF SyncTypeOK
  <2>3. input[SocketOf[c]] \o hand[c] \in Seq(Tops \X Bufs)
    BY <2>2, ConcatProperties
  <2>4. TypesOfThreads'
    BY <2>1, <2>3, <1>n DEF TypesOfThreads, SyncTypeOK, Goto
  <2>5. /\ hand'[c] = <<>> /\ \A t \in Threads \ {c} : hand'[t] = hand[t]
        /\ \A d \in Creators \ {c} : want'[d] = want[d]
    BY <2>1 DEF SyncTypeOK
  <2>6. HandInv'
    BY <2>1, <2>5, <1>t, Moved DEF HandInv
  <2> QED
    BY <2>4, <2>6
<1>4. ASSUME NEW c \in Creators, EndsNotifying(c) PROVE TypesOfThreads' /\ HandInv'
  <2>1. TypesOfThreads'
    BY <1>4 DEF TypesOfThreads, SyncTypeOK, EndsNotifying
  <2>2. HandInv'
    BY <1>4, <1>t DEF HandInv, EndsNotifying
  <2> QED
    BY <2>1, <2>2
<1>5. ASSUME NEW p \in Processors, PopJob(p) PROVE TypesOfThreads' /\ HandInv'
  <2>0. UNCHANGED <<nextTop, alloc, closed, want, producer, latch>> /\ pc[p] = "popping"
    BY <1>5, PopKinds
  <2>1. ASSUME NEW s \in Sockets, TakesJob(p, s) PROVE TypesOfThreads' /\ HandInv'
    <3>1. input[s] \in Seq(Tops \X Bufs) /\ input[s] # <<>>
      BY <2>1 DEF SyncTypeOK, TakesJob
    <3>2. Tail(input[s]) \in Seq(Tops \X Bufs) /\ Head(input[s]) \in Tops \X Bufs
      BY <3>1, HeadTailProperties
    <3>3. <<Head(input[s])>> \in Seq(Tops \X Bufs) /\ Len(<<Head(input[s])>>) = 1
      BY <3>2
    <3>4. TypesOfThreads'
      BY <2>0, <2>1, <3>2, <3>3 DEF TypesOfThreads, SyncTypeOK, Goto, TakesJob
    <3>5. hand'[p] = <<Head(input[s])>> /\ \A t \in Threads \ {p} : hand'[t] = hand[t]
      BY <2>1 DEF SyncTypeOK, TakesJob
    <3>6. pc'[p] = "holding" /\ \A t \in Threads \ {p} : pc'[t] = pc[t]
      BY <2>1, Moved DEF TakesJob
    <3>7. HandInv'
      BY <2>0, <3>3, <3>5, <3>6, <1>t DEF HandInv
    <3> QED
      BY <3>4, <3>7
  <2>2. ASSUME FindsNone(p) PROVE TypesOfThreads' /\ HandInv'
    <3>1. TypesOfThreads'
      BY <2>0, <2>2 DEF TypesOfThreads, SyncTypeOK, Goto, FindsNone
    <3>2. /\ pc'[p] \in {"exited", "asleep"} /\ \A t \in Threads \ {p} : pc'[t] = pc[t]
          /\ UNCHANGED hand
      BY <2>2, Moved DEF FindsNone
    <3>3. HandInv'
      BY <2>0, <3>2, <1>t DEF HandInv
    <3> QED
      BY <3>1, <3>3
  <2> QED
    BY <1>5, <2>1, <2>2, PopKinds
<1>6. ASSUME NEW p \in Processors, FreeBuffer(p) PROVE TypesOfThreads' /\ HandInv'
  <2> DEFINE b == hand[p][1][2]
  <2>1. /\ pc[p] = "holding" /\ alloc' = [alloc EXCEPT ![HomeOf(b)] = Append(@, b)]
        /\ Goto(p, "notifying") /\ UNCHANGED <<nextTop, input, want, hand, last>>
    BY <1>6 DEF FreeBuffer
  <2>2. b \in Bufs /\ HomeOf(b) \in Sockets
    BY <2>1, JobInHand
  <2> HIDE DEF b
  <2>3. Append(alloc[HomeOf(b)], b) \in Seq(Bufs)
    BY <2>2, AppendProperties DEF SyncTypeOK
  <2>4. TypesOfThreads'
    BY <2>1, <2>2, <2>3 DEF TypesOfThreads, SyncTypeOK, Goto
  <2>5. HandInv'
    BY <2>1, <1>t, Moved DEF HandInv
  <2> QED
    BY <2>4, <2>5
<1>7. ASSUME NEW p \in Processors, NEW s, WakesFor(p, s) PROVE TypesOfThreads' /\ HandInv'
  <2>1. TypesOfThreads'
    BY <1>7, <1>n DEF TypesOfThreads, SyncTypeOK, WakesFor
  <2>2. /\ pc'[p] = "popping" /\ \A t \in Threads \ {p} : hand'[t] = hand[t]
        /\ \A t \in Threads \ {p} : pc'[t] = pc[t] \/ (pc[t] = "asleep" /\ pc'[t] = "popping")
        /\ UNCHANGED want
    BY <1>7 DEF WakesFor, SyncTypeOK
  <2>3. HandInv'
    BY <2>2, <1>t DEF HandInv
  <2> QED
    BY <2>1, <2>3
<1>8. ASSUME Wakes PROVE TypesOfThreads' /\ HandInv'
  <2>1. TypesOfThreads'
    BY <1>8 DEF TypesOfThreads, SyncTypeOK, Wakes
  <2>2. HandInv'
    BY <1>8, <1>t DEF HandInv, Wakes
  <2> QED
    BY <2>1, <2>2
<1> QED
  BY <1>1, <1>2, <1>3, <1>4, <1>5, <1>6, <1>7, <1>8, StepKinds

\* The producer, the latch and the closing of the input queue.
LEMMA ProducerSide ==
  ASSUME SyncTypeOK, LatchInv, CloseInv, [SyncNext]_vars
  PROVE  /\ closed' \in BOOLEAN
         /\ producer' \in {"testing", "tested", "asleep", "joining", "notifying", "done"}
         /\ latchCount' \in {0, 1} /\ loader' \in {"loading", "done"}
         /\ LatchInv' /\ CloseInv'
<1> DEFINE Goal == /\ closed' \in BOOLEAN
                   /\ producer' \in {"testing", "tested", "asleep", "joining", "notifying", "done"}
                   /\ latchCount' \in {0, 1} /\ loader' \in {"loading", "done"}
                   /\ LatchInv' /\ CloseInv'
<1> USE DEF SyncTypeOK, LatchInv, CloseInv, latch
<1>t. /\ Creators \subseteq Threads /\ Processors \subseteq Threads
      /\ \A c \in Creators : c \notin Processors
  BY SyncAssumption DEF Threads
\* As long as the processors that sleep did so before, or the queue is open.
<1>f. ASSUME UNCHANGED <<closed, producer, latch>>,
             \A p \in Processors : pc'[p] = "asleep" => pc[p] = "asleep" \/ ~closed
      PROVE  Goal
  BY <1>f
<1> HIDE DEF Goal, SyncTypeOK, LatchInv, CloseInv
<1>1. ASSUME NEW c \in Creators, Grab(c) PROVE Goal
  BY <1>1, <1>f, <1>t, GrabSplit, Moved
<1>2. ASSUME NEW c \in Creators, PopBuffers(c) PROVE Goal
  BY <1>2, <1>f, <1>t, PopSplit, Moved
<1>3. ASSUME NEW c \in Creators, PushJobs(c) PROVE Goal
  BY <1>3, <1>f, <1>t, Moved DEF PushJobs
<1>4. ASSUME NEW c \in Creators, WakeProcessors(c) PROVE Goal
  <2>1. \A p \in Processors : pc'[p] # "asleep"
    BY <1>4, <1>t DEF WakeProcessors
  <2> QED
    BY <1>4, <1>f, <2>1 DEF WakeProcessors
<1>5. ASSUME NEW p \in Processors, PopJob(p) PROVE Goal
  <2>1. UNCHANGED <<closed, producer, latch>>
    BY <1>5, PopKinds
  <2>2. \A q \in Processors : pc'[q] = "asleep" => pc[q] = "asleep" \/ ~closed
    BY <1>5, <1>t, PopKinds, Moved DEF TakesJob, FindsNone
  <2> QED
    BY <1>f, <2>1, <2>2
<1>6. ASSUME NEW p \in Processors, FreeBuffer(p) PROVE Goal
  BY <1>6, <1>f, <1>t, Moved DEF FreeBuffer
<1>7. ASSUME NEW p \in Processors, WakeOneCreator(p) PROVE Goal
  <2>1. UNCHANGED <<closed, producer, latch>>
    BY <1>7 DEF WakeOneCreator
  <2>2. \/ \E c \in Creators : pc' = [pc EXCEPT ![c] = "popping", ![p] = "popping"]
        \/ Goto(p, "popping")
    BY <1>7 DEF WakeOneCreator, SleepersAt
  <2>3. \A q \in Processors : pc'[q] = "asleep" => pc[q] = "asleep"
    BY <2>2, <1>t DEF Goto, SyncTypeOK
  <2> QED
    BY <1>f, <2>1, <2>3
<1>8. ASSUME TestLatch \/ SleepOnLatch \/ NotifyTopsReady \/ SpuriousStart PROVE Goal
  BY <1>8 DEF TestLatch, SleepOnLatch, NotifyTopsReady, SpuriousStart, others,
              Goal, SyncTypeOK, LatchInv, CloseInv
<1>9. ASSUME Close PROVE Goal
  BY <1>9 DEF Close, Goal, SyncTypeOK, LatchInv, CloseInv
<1>10. ASSUME CloseNotifies PROVE Goal
  BY <1>10, <1>t DEF CloseNotifies, Goal, SyncTypeOK, LatchInv, CloseInv
<1>11. ASSUME NEW t \in Threads, SpuriousWake(t) PROVE Goal
  BY <1>11, <1>f, <1>t, Moved DEF SpuriousWake
<1>12. ASSUME UNCHANGED vars PROVE Goal
  BY <1>12, <1>f DEF vars
<1>13. ASSUME NEW c \in Creators, CreatorStep(c) PROVE Goal
  BY <1>1, <1>2, <1>3, <1>4, <1>13 DEF CreatorStep
<1>14. ASSUME NEW p \in Processors, ProcessorStep(p) PROVE Goal
  BY <1>5, <1>6, <1>7, <1>14 DEF ProcessorStep
<1>15. ASSUME ProducerStep PROVE Goal
  BY <1>8, <1>9, <1>10, <1>15 DEF ProducerStep
<1>16. Goal
  BY <1>8, <1>11, <1>12, <1>13, <1>14, <1>15 DEF SyncNext
<1> QED
  BY <1>16 DEF Goal
(***************************************************************************)
(* Where the buffers are: every step leaves them, or moves some of them    *)
(* from one place to another.                                              *)
(***************************************************************************)
Held(t) == IF t \in Creators \/ pc[t] = "holding" THEN Carried(hand[t]) ELSE <<>>
WhereOK ==
  /\ Where \in [Places -> Seq(Bufs)]
  /\ \A s \in Sockets : /\ Where[<<"free", s>>] = alloc[s]
                        /\ Where[<<"queued", s>>] = Carried(input[s])
  /\ \A t \in Threads : Where[<<"held", t>>] = Held(t)

LEMMA ThePlaces ==
  /\ \A s \in Sockets : <<"free", s>> \in Places /\ <<"queued", s>> \in Places
  /\ \A t \in Threads : <<"held", t>> \in Places
  /\ \A x \in Places : \/ \E s \in Sockets : x = <<"free", s>> \/ x = <<"queued", s>>
                       \/ \E t \in Threads : x = <<"held", t>>
BY DEF Places

LEMMA WhereValues == TypesOfThreads => WhereOK
<1> SUFFICES ASSUME TypesOfThreads PROVE WhereOK
  OBVIOUS
<1>1. ASSUME NEW s \in Sockets PROVE InPlace(<<"free", s>>) = alloc[s] /\ alloc[s] \in Seq(Bufs)
  BY DEF InPlace, TypesOfThreads
<1>2. ASSUME NEW s \in Sockets
      PROVE  InPlace(<<"queued", s>>) = Carried(input[s]) /\ Carried(input[s]) \in Seq(Bufs)
  <2>1. input[s] \in Seq(Tops \X Bufs)
    BY DEF TypesOfThreads
  <2>2. Carried(input[s]) \in Seq(Bufs)
    BY <2>1, CarriedSeq
  <2> QED
    BY <2>2 DEF InPlace
<1>3. ASSUME NEW t \in Threads PROVE InPlace(<<"held", t>>) = Held(t) /\ Held(t) \in Seq(Bufs)
  <2>1. hand[t] \in Seq(Tops \X Bufs)
    BY DEF TypesOfThreads
  <2>2. Carried(hand[t]) \in Seq(Bufs)
    BY <2>1, CarriedSeq
  <2> QED
    BY <2>2, NoneYet DEF InPlace, Held
<1>4. \A x \in Places : InPlace(x) \in Seq(Bufs)
  BY <1>1, <1>2, <1>3, ThePlaces
<1>5. Where \in [Places -> Seq(Bufs)] /\ \A x \in Places : Where[x] = InPlace(x)
  BY <1>4 DEF Where
<1> QED
  BY <1>1, <1>2, <1>3, <1>5, ThePlaces DEF WhereOK

LEMMA WhereValuesNext == TypesOfThreads' => WhereOK'
BY WhereValues, PTL

LEMMA SameWhere ==
  ASSUME WhereOK, WhereOK', UNCHANGED <<alloc, input>>,
         \A t \in Threads : Held(t)' = Held(t)
  PROVE  Where' = Where
<1>1. \A s \in Sockets : /\ Where'[<<"free", s>>] = Where[<<"free", s>>]
                         /\ Where'[<<"queued", s>>] = Where[<<"queued", s>>]
  BY DEF WhereOK
<1>2. \A t \in Threads : Where'[<<"held", t>>] = Where[<<"held", t>>]
  BY DEF WhereOK
<1>3. \A x \in Places : Where'[x] = Where[x]
  BY <1>1, <1>2, ThePlaces
<1>4. Where \in [Places -> Seq(Bufs)] /\ Where' \in [Places -> Seq(Bufs)]
  BY DEF WhereOK
<1> HIDE DEF Where
<1> QED
  BY <1>3, <1>4

LEMMA TakeAll ==
  ASSUME NEW S, NEW q \in Seq(S)
  PROVE  Take(q, Len(q)) = q /\ Drop(q, Len(q)) = <<>> /\ Len(q) \in 0 .. Len(q)
<1>1. Len(q) \in Nat
  BY LenProperties
<1>2. Len(q) \in 0 .. Len(q)
  BY <1>1
<1>3. Take(q, Len(q)) = q
  BY SubSeqFull DEF Take
<1>4. Drop(q, Len(q)) \in Seq(S) /\ Len(Drop(q, Len(q))) = Len(q) - Len(q)
  BY <1>2, TakeDrop
<1>5. Len(Drop(q, Len(q))) = 0
  BY <1>1, <1>4
<1>6. Drop(q, Len(q)) = <<>>
  BY <1>4, <1>5, EmptySeq
<1> QED
  BY <1>2, <1>3, <1>6

\* A step of SyncQueues moves the first n buffers of x behind those of y.
Shifts(x, y, n) == Moves(Where, Where', x, y, n)

LEMMA PopShifts ==
  ASSUME SyncTypeOK, HandInv, WhereOK, WhereOK', NEW c \in Creators, PopBuffers(c)
  PROVE  \/ Where' = Where
         \/ Shifts(<<"free", SocketOf[c]>>, <<"held", c>>, Len(want[c]))
<1> DEFINE s == SocketOf[c]  n == Len(want[c])  x == <<"free", s>>  y == <<"held", c>>
<1>1. /\ pc[c] = "popping" /\ s \in Sockets /\ n \in Nat /\ UNCHANGED <<input, want>>
      /\ c \in Threads /\ c \notin Processors
  BY PopSplit, SyncAssumption DEF Threads
<1>2. CASE Goto(c, "asleep") /\ UNCHANGED <<alloc, hand>>
  <2>1. \A t \in Threads \ {c} : pc'[t] = pc[t]
    BY <1>1, <1>2, Moved
  <2>2. \A t \in Threads : Held(t)' = Held(t)
    BY <1>2, <2>1 DEF Held
  <2> QED
    BY <1>1, <1>2, <2>2, SameWhere
<1>3. CASE /\ n <= Len(alloc[s]) /\ Goto(c, "holding")
           /\ alloc' = [alloc EXCEPT ![s] = Drop(alloc[s], n)]
           /\ hand' = [hand EXCEPT ![c] = hand'[c]]
           /\ Carried(hand'[c]) = Take(alloc[s], n)
  <2>1. alloc[s] \in Seq(Bufs) /\ Len(alloc[s]) \in Nat /\ n \in 0 .. Len(alloc[s])
    BY <1>1, <1>3, LenProperties DEF SyncTypeOK
  <2>2. hand[c] = <<>> /\ Held(c) = <<>>
    BY <1>1, NoneYet DEF HandInv, Held
  <2>3. Held(c)' = Take(alloc[s], n)
    BY <1>3 DEF Held
  <2>4. ASSUME NEW t \in Threads \ {c} PROVE Held(t)' = Held(t)
    <3>1. pc'[t] = pc[t]
      BY <1>1, <1>3, Moved
    <3>2. hand'[t] = hand[t]
      BY <1>3 DEF SyncTypeOK
    <3> QED
      BY <3>1, <3>2 DEF Held
  <2>5. Take(alloc[s], n) \in Seq(Bufs)
    BY <2>1, TakeDrop
  <2>6. <<>> \o Take(alloc[s], n) = Take(alloc[s], n)
    BY <2>5, ConcatEmptySeq
  <2>7. /\ Where[x] = alloc[s] /\ Where'[x] = Drop(Where[x], n)
        /\ Where'[y] = Where[y] \o Take(Where[x], n)
    <3>1. alloc'[s] = Drop(alloc[s], n)
      BY <1>1, <1>3 DEF SyncTypeOK
    <3>2. Where[x] = alloc[s] /\ Where'[x] = alloc'[s] /\ Where[y] = Held(c) /\ Where'[y] = Held(c)'
      BY <1>1 DEF WhereOK
    <3> QED
      BY <2>2, <2>3, <2>6, <3>1, <3>2
  <2>8. ASSUME NEW z \in Places \ {x, y} PROVE Where'[z] = Where[z]
    <3>1. ASSUME NEW u \in Sockets, z = <<"free", u>> PROVE Where'[z] = Where[z]
      <4>1. u # s /\ alloc'[u] = alloc[u]
        BY <1>1, <1>3, <3>1 DEF SyncTypeOK
      <4> QED
        BY <3>1, <4>1 DEF WhereOK
    <3>2. ASSUME NEW u \in Sockets, z = <<"queued", u>> PROVE Where'[z] = Where[z]
      BY <1>1, <3>2 DEF WhereOK
    <3>3. ASSUME NEW t \in Threads, z = <<"held", t>> PROVE Where'[z] = Where[z]
      <4>1. Held(t)' = Held(t)
        BY <2>4, <3>3
      <4> QED
        BY <3>3, <4>1 DEF WhereOK
    <3> QED
      BY <3>1, <3>2, <3>3, ThePlaces
  <2>9. x \in Places /\ y \in Places /\ x # y
    BY <1>1, ThePlaces
  <2> QED
    BY <2>1, <2>7, <2>8, <2>9 DEF Moves, Shifts, WhereOK
<1>4. \/ Goto(c, "asleep") /\ UNCHANGED <<alloc, hand>>
      \/ /\ n <= Len(alloc[s]) /\ Goto(c, "holding")
         /\ alloc' = [alloc EXCEPT ![s] = Drop(alloc[s], n)]
         /\ hand' = [hand EXCEPT ![c] = hand'[c]]
         /\ Carried(hand'[c]) = Take(alloc[s], n)
  <2>1. ASSUME NEW h, hand' = [hand EXCEPT ![c] = h] PROVE hand'[c] = h
    BY <1>1, <2>1 DEF SyncTypeOK
  <2> QED
    BY <2>1, PopSplit
<1> QED
  BY <1>2, <1>3, <1>4
LEMMA PushShifts ==
  ASSUME SyncTypeOK, HandInv, WhereOK, WhereOK', NEW c \in Creators, PushJobs(c)
  PROVE  Shifts(<<"held", c>>, <<"queued", SocketOf[c]>>, Len(hand[c]))
<1> DEFINE s == SocketOf[c]  n == Len(hand[c])  x == <<"held", c>>  y == <<"queued", s>>
<1>1. /\ s \in Sockets /\ c \in Threads /\ UNCHANGED alloc
      /\ input' = [input EXCEPT ![s] = @ \o hand[c]] /\ hand' = [hand EXCEPT ![c] = <<>>]
      /\ Goto(c, "notifying")
  BY SyncAssumption DEF Threads, PushJobs
<1>2. hand[c] \in Seq(Tops \X Bufs) /\ input[s] \in Seq(Tops \X Bufs)
  BY <1>1 DEF SyncTypeOK
<1>3. /\ Held(c) = Carried(hand[c]) /\ Held(c) \in Seq(Bufs) /\ Len(Held(c)) = n
  BY <1>2, CarriedSeq DEF Held
<1>4. Take(Held(c), n) = Held(c) /\ Drop(Held(c), n) = <<>> /\ n \in 0 .. Len(Held(c))
  BY <1>3, TakeAll
<1>5. Held(c)' = <<>>
  <2>1. hand'[c] = <<>>
    BY <1>1 DEF SyncTypeOK
  <2> QED
    BY <2>1, NoneYet DEF Held
<1>6. Carried(input'[s]) = Carried(input[s]) \o Held(c)
  <2>1. input'[s] = input[s] \o hand[c]
    BY <1>1 DEF SyncTypeOK
  <2> QED
    BY <1>2, <1>3, <2>1, CarriedConcat
<1>7. /\ Where[x] = Held(c) /\ Where'[x] = Drop(Where[x], n)
      /\ Where'[y] = Where[y] \o Take(Where[x], n)
  <2>1. Where[x] = Held(c) /\ Where'[x] = Held(c)'
        /\ Where[y] = Carried(input[s]) /\ Where'[y] = Carried(input'[s])
    BY <1>1 DEF WhereOK
  <2> QED
    BY <1>4, <1>5, <1>6, <2>1
<1>8. ASSUME NEW z \in Places \ {x, y} PROVE Where'[z] = Where[z]
  <2>1. ASSUME NEW u \in Sockets, z = <<"free", u>> PROVE Where'[z] = Where[z]
    BY <1>1, <2>1 DEF WhereOK
  <2>2. ASSUME NEW u \in Sockets, z = <<"queued", u>> PROVE Where'[z] = Where[z]
    <3>1. u # s /\ input'[u] = input[u]
      BY <1>1, <2>2 DEF SyncTypeOK
    <3> QED
      BY <2>2, <3>1 DEF WhereOK
  <2>3. ASSUME NEW t \in Threads, z = <<"held", t>> PROVE Where'[z] = Where[z]
    <3>1. t # c /\ pc'[t] = pc[t]
      BY <1>1, <2>3, Moved
    <3>2. hand'[t] = hand[t]
      BY <1>1, <3>1 DEF SyncTypeOK
    <3>3. Held(t)' = Held(t)
      BY <3>1, <3>2 DEF Held
    <3> QED
      BY <2>3, <3>3 DEF WhereOK
  <2> QED
    BY <2>1, <2>2, <2>3, ThePlaces
<1>9. x \in Places /\ y \in Places /\ x # y
  BY <1>1, ThePlaces
<1> QED
  BY <1>4, <1>7, <1>8, <1>9 DEF Moves, Shifts, WhereOK

LEMMA JobShifts ==
  ASSUME SyncTypeOK, HandInv, WhereOK, WhereOK', NEW p \in Processors, PopJob(p)
  PROVE  \/ Where' = Where
         \/ \E s \in Sockets : Shifts(<<"queued", s>>, <<"held", p>>, 1)
<1>1. /\ p \in Threads /\ p \notin Creators /\ pc[p] = "popping" /\ UNCHANGED alloc
  BY PopKinds, SyncAssumption DEF Threads
<1>2. ASSUME NEW s \in Sockets, TakesJob(p, s) PROVE Shifts(<<"queued", s>>, <<"held", p>>, 1)
  <2> DEFINE x == <<"queued", s>>  y == <<"held", p>>
  <2>1. /\ input[s] \in Seq(Tops \X Bufs) /\ input[s] # <<>>
        /\ input' = [input EXCEPT ![s] = Tail(@)]
        /\ hand' = [hand EXCEPT ![p] = <<Head(input[s])>>] /\ Goto(p, "holding")
    BY <1>2 DEF SyncTypeOK, TakesJob
  <2>2. /\ Carried(Tail(input[s])) = Drop(Carried(input[s]), 1)
        /\ Carried(<<Head(input[s])>>) = Take(Carried(input[s]), 1)
    BY <2>1, CarriedTail
  <2>3. Carried(input[s]) \in Seq(Bufs) /\ 1 \in 0 .. Len(Carried(input[s]))
    BY <2>1, CarriedSeq, EmptySeq
  <2>4. Held(p) = <<>>
    BY <1>1 DEF Held
  <2>5. Held(p)' = Take(Carried(input[s]), 1)
    <3>1. hand'[p] = <<Head(input[s])>>
      BY <1>1, <2>1 DEF SyncTypeOK
    <3>2. pc'[p] = "holding"
      BY <1>1, <2>1, Moved
    <3> QED
      BY <2>2, <3>1, <3>2 DEF Held
  <2>6. <<>> \o Take(Carried(input[s]), 1) = Take(Carried(input[s]), 1)
    <3>1. Take(Carried(input[s]), 1) \in Seq(Bufs)
      BY <2>3, TakeDrop
    <3> QED
      BY <3>1, ConcatEmptySeq
  <2>7. /\ Where[x] = Carried(input[s]) /\ Where'[x] = Drop(Where[x], 1)
        /\ Where'[y] = Where[y] \o Take(Where[x], 1)
    <3>1. Where[x] = Carried(input[s]) /\ Where'[x] = Carried(input'[s])
          /\ Where[y] = Held(p) /\ Where'[y] = Held(p)'
      BY <1>1 DEF WhereOK
    <3>2. input'[s] = Tail(input[s])
      BY <2>1 DEF SyncTypeOK
    <3> QED
      BY <2>2, <2>4, <2>5, <2>6, <3>1, <3>2
  <2>8. ASSUME NEW z \in Places \ {x, y} PROVE Where'[z] = Where[z]
    <3>1. ASSUME NEW u \in Sockets, z = <<"free", u>> PROVE Where'[z] = Where[z]
      BY <1>1, <3>1 DEF WhereOK
    <3>2. ASSUME NEW u \in Sockets, z = <<"queued", u>> PROVE Where'[z] = Where[z]
      <4>1. u # s /\ input'[u] = input[u]
        BY <2>1, <3>2 DEF SyncTypeOK
      <4> QED
        BY <3>2, <4>1 DEF WhereOK
    <3>3. ASSUME NEW t \in Threads, z = <<"held", t>> PROVE Where'[z] = Where[z]
      <4>1. t # p /\ pc'[t] = pc[t]
        BY <1>1, <2>1, <3>3, Moved
      <4>2. hand'[t] = hand[t]
        BY <2>1, <4>1 DEF SyncTypeOK
      <4>3. Held(t)' = Held(t)
        BY <4>1, <4>2 DEF Held
      <4> QED
        BY <3>3, <4>3 DEF WhereOK
    <3> QED
      BY <3>1, <3>2, <3>3, ThePlaces
  <2>9. x \in Places /\ y \in Places /\ x # y
    BY <1>1, ThePlaces
  <2> QED
    BY <2>3, <2>7, <2>8, <2>9 DEF Moves, Shifts, WhereOK
<1>3. ASSUME FindsNone(p) PROVE Where' = Where
  <2>1. UNCHANGED <<hand, input>> /\ pc'[p] \in {"exited", "asleep"}
        /\ \A t \in Threads \ {p} : pc'[t] = pc[t]
    BY <1>1, <1>3, Moved DEF FindsNone
  <2>2. \A t \in Threads : Held(t)' = Held(t)
    BY <1>1, <2>1 DEF Held
  <2> QED
    BY <1>1, <2>1, <2>2, SameWhere
<1> QED
  BY <1>2, <1>3, PopKinds

LEMMA FreeShifts ==
  ASSUME SyncTypeOK, HandInv, WhereOK, WhereOK', NEW p \in Processors, FreeBuffer(p)
  PROVE  Shifts(<<"held", p>>, <<"free", HomeOf(hand[p][1][2])>>, 1)
<1> DEFINE b == hand[p][1][2]  s == HomeOf(b)  x == <<"held", p>>  y == <<"free", s>>
<1>1. /\ pc[p] = "holding" /\ Goto(p, "notifying") /\ UNCHANGED <<input, hand>>
      /\ alloc' = [alloc EXCEPT ![s] = Append(@, b)]
      /\ p \in Threads /\ p \notin Creators
  BY SyncAssumption DEF Threads, FreeBuffer
<1>2. Len(hand[p]) = 1 /\ b \in Bufs /\ s \in Sockets
  BY <1>1, JobInHand
<1>3. hand[p] \in Seq(Tops \X Bufs) /\ alloc[s] \in Seq(Bufs)
  BY <1>1, <1>2 DEF SyncTypeOK
<1>4. Held(p) \in Seq(Bufs) /\ Len(Held(p)) = 1 /\ Held(p)[1] = b
  BY <1>1, <1>2, <1>3, CarriedSeq DEF Held
<1> HIDE DEF b, s
<1>5. Held(p) = <<b>>
  <2>1. <<b>> \in Seq(Bufs) /\ Len(<<b>>) = 1 /\ <<b>>[1] = b
    BY <1>2
  <2>2. \A i \in 1 .. Len(Held(p)) : Held(p)[i] = <<b>>[i]
    BY <1>4, <2>1
  <2> QED
    BY <1>4, <2>1, <2>2, SeqEqual
<1>6. Take(Held(p), 1) = Held(p) /\ Drop(Held(p), 1) = <<>> /\ 1 \in 0 .. Len(Held(p))
  <2>1. Take(Held(p), Len(Held(p))) = Held(p) /\ Drop(Held(p), Len(Held(p))) = <<>>
        /\ Len(Held(p)) \in 0 .. Len(Held(p))
    BY <1>4, TakeAll
  <2> QED
    BY <1>4, <2>1
<1>7. pc'[p] = "notifying" /\ \A t \in Threads \ {p} : pc'[t] = pc[t]
  BY <1>1, Moved
<1>8. Held(p)' = <<>>
  BY <1>1, <1>7 DEF Held
<1>9. Append(alloc[s], b) = alloc[s] \o Held(p)
  BY <1>2, <1>3, <1>5, AppendIsConcat
<1>10. /\ Where[x] = Held(p) /\ Where'[x] = Drop(Where[x], 1)
       /\ Where'[y] = Where[y] \o Take(Where[x], 1)
  <2>1. Where[x] = Held(p) /\ Where'[x] = Held(p)' /\ Where[y] = alloc[s] /\ Where'[y] = alloc'[s]
    BY <1>1, <1>2 DEF WhereOK
  <2>2. alloc'[s] = Append(alloc[s], b)
    BY <1>1, <1>2 DEF SyncTypeOK
  <2> QED
    BY <1>6, <1>8, <1>9, <2>1, <2>2
<1>11. ASSUME NEW z \in Places \ {x, y} PROVE Where'[z] = Where[z]
  <2>1. ASSUME NEW u \in Sockets, z = <<"free", u>> PROVE Where'[z] = Where[z]
    <3>1. u # s /\ alloc'[u] = alloc[u]
      BY <1>1, <2>1 DEF SyncTypeOK
    <3> QED
      BY <2>1, <3>1 DEF WhereOK
  <2>2. ASSUME NEW u \in Sockets, z = <<"queued", u>> PROVE Where'[z] = Where[z]
    BY <1>1, <2>2 DEF WhereOK
  <2>3. ASSUME NEW t \in Threads, z = <<"held", t>> PROVE Where'[z] = Where[z]
    <3>1. t # p /\ pc'[t] = pc[t]
      BY <1>7, <2>3
    <3>2. Held(t)' = Held(t)
      BY <1>1, <3>1 DEF Held
    <3> QED
      BY <2>3, <3>2 DEF WhereOK
  <2> QED
    BY <2>1, <2>2, <2>3, ThePlaces
<1>12. x \in Places /\ y \in Places /\ x # y
  BY <1>1, <1>2, ThePlaces
<1>13. Shifts(x, y, 1)
  BY <1>6, <1>10, <1>11, <1>12 DEF Moves, Shifts, WhereOK
<1> QED
  BY <1>13 DEF b, s

\* A step leaves the buffers in their places, or shifts some.
LEMMA BufferStep ==
  ASSUME SyncTypeOK, HandInv, Separate(Where), Covers(Where), [SyncNext]_vars
  PROVE  Separate(Where') /\ Covers(Where')
<1> USE DEF Threads
<1>t. /\ Creators \subseteq Threads /\ Processors \subseteq Threads
      /\ \A c \in Creators : c \notin Processors
  BY SyncAssumption
<1>0. WhereOK /\ WhereOK' /\ TypesOfThreads'
  <2>1. TypesOfThreads /\ TypesOfThreads'
    BY ThreadStep DEF TypesOfThreads, SyncTypeOK
  <2> QED
    BY <2>1, WhereValues, WhereValuesNext
<1>1. ASSUME NEW x, NEW y, NEW n, Shifts(x, y, n) PROVE Separate(Where') /\ Covers(Where')
  BY <1>1, MoveKeeps DEF Shifts
<1>2. ASSUME Where' = Where PROVE Separate(Where') /\ Covers(Where')
  BY <1>2
<1>3. ASSUME UNCHANGED <<alloc, input>>, \A t \in Threads : Held(t)' = Held(t)
      PROVE  Separate(Where') /\ Covers(Where')
  BY <1>0, <1>2, <1>3, SameWhere
<1>4. ASSUME NEW c \in Creators, Grab(c) PROVE Separate(Where') /\ Covers(Where')
  <2>1. UNCHANGED <<alloc, input, hand>> /\ \A p \in Processors : pc'[p] = pc[p]
    BY <1>4, <1>t, GrabSplit, Moved
  <2>2. \A t \in Threads : Held(t)' = Held(t)
    BY <2>1 DEF Held
  <2> QED
    BY <1>3, <2>1, <2>2
<1>5. ASSUME NEW c \in Creators, EndsNotifying(c) PROVE Separate(Where') /\ Covers(Where')
  <2>1. \A t \in Threads : Held(t)' = Held(t)
    BY <1>5 DEF Held, EndsNotifying
  <2> QED
    BY <1>3, <1>5, <2>1 DEF EndsNotifying
<1>6. ASSUME Wakes PROVE Separate(Where') /\ Covers(Where')
  <2>1. \A t \in Threads : Held(t)' = Held(t)
    BY <1>6 DEF Held, Wakes
  <2> QED
    BY <1>3, <1>6, <2>1 DEF Wakes
<1>7. ASSUME NEW p \in Processors, NEW s, WakesFor(p, s) PROVE Separate(Where') /\ Covers(Where')
  <2>1. /\ UNCHANGED <<alloc, input>> /\ pc[p] = "notifying" /\ pc'[p] = "popping"
        /\ \A t \in Threads \ {p} : /\ hand'[t] = hand[t]
                                    /\ pc'[t] = "holding" <=> pc[t] = "holding"
    BY <1>7 DEF WakesFor, SyncTypeOK
  <2>2. \A t \in Threads : Held(t)' = Held(t)
    BY <1>t, <2>1 DEF Held
  <2> QED
    BY <1>3, <2>1, <2>2
<1>8. ASSUME NEW c \in Creators, PopBuffers(c) PROVE Separate(Where') /\ Covers(Where')
  BY <1>0, <1>1, <1>2, <1>8, PopShifts
<1>9. ASSUME NEW c \in Creators, PushJobs(c) PROVE Separate(Where') /\ Covers(Where')
  BY <1>0, <1>1, <1>9, PushShifts
<1>10. ASSUME NEW p \in Processors, PopJob(p) PROVE Separate(Where') /\ Covers(Where')
  BY <1>0, <1>1, <1>2, <1>10, JobShifts
<1>11. ASSUME NEW p \in Processors, FreeBuffer(p) PROVE Separate(Where') /\ Covers(Where')
  BY <1>0, <1>1, <1>11, FreeShifts
<1> QED
  BY <1>4, <1>5, <1>6, <1>7, <1>8, <1>9, <1>10, <1>11, StepKinds
(***************************************************************************)
(* The buffers of a socket stay with it.                                   *)
(***************************************************************************)
LEMMA TakeDropRange ==
  ASSUME NEW S, NEW q \in Seq(S), NEW n \in 0 .. Len(q)
  PROVE  Range(Take(q, n)) \subseteq Range(q) /\ Range(Drop(q, n)) \subseteq Range(q)
<1>1. /\ Take(q, n) \in Seq(S) /\ Len(Take(q, n)) = n
      /\ \A i \in 1 .. n : Take(q, n)[i] = q[i]
      /\ Drop(q, n) \in Seq(S) /\ Len(Drop(q, n)) = Len(q) - n
      /\ \A i \in 1 .. Len(q) - n : Drop(q, n)[i] = q[n + i]
      /\ Len(q) \in Nat /\ n \in Nat /\ n <= Len(q) /\ DOMAIN q = 1 .. Len(q)
  <2>1. Len(q) \in Nat /\ DOMAIN q = 1 .. Len(q)
    BY LenProperties
  <2>2. /\ Take(q, n) \in Seq(S) /\ Len(Take(q, n)) = n
        /\ \A i \in 1 .. n : Take(q, n)[i] = q[i]
        /\ Drop(q, n) \in Seq(S) /\ Len(Drop(q, n)) = Len(q) - n
        /\ \A i \in 1 .. Len(q) - n : Drop(q, n)[i] = q[n + i]
    BY TakeDrop
  <2>3. n \in Nat /\ n <= Len(q)
    BY <2>1
  <2> QED
    BY <2>1, <2>2, <2>3
<1>2. DOMAIN Take(q, n) = 1 .. n /\ DOMAIN Drop(q, n) = 1 .. Len(q) - n
  BY <1>1, LenProperties
<1>3. \A i \in 1 .. n : i \in DOMAIN q
  BY <1>1
<1>4. \A i \in 1 .. Len(q) - n : n + i \in DOMAIN q
  BY <1>1
<1>5. Range(Take(q, n)) \subseteq Range(q)
  BY <1>1, <1>2, <1>3 DEF Range
<1>6. Range(Drop(q, n)) \subseteq Range(q)
  BY <1>1, <1>2, <1>4 DEF Range
<1> QED
  BY <1>5, <1>6

LEMMA AppendRange ==
  ASSUME NEW S, NEW q \in Seq(S), NEW e \in S
  PROVE  Range(Append(q, e)) = Range(q) \cup {e}
<1>1. /\ Append(q, e) \in Seq(S) /\ Len(Append(q, e)) = Len(q) + 1
      /\ \A i \in 1 .. Len(q) : Append(q, e)[i] = q[i]
      /\ Append(q, e)[Len(q) + 1] = e
      /\ Len(q) \in Nat
  BY AppendProperties, LenProperties
<1>2. DOMAIN q = 1 .. Len(q) /\ DOMAIN Append(q, e) = 1 .. Len(q) + 1
  BY <1>1, LenProperties
<1>3. 1 .. Len(q) + 1 = (1 .. Len(q)) \cup {Len(q) + 1}
  BY <1>1
<1> QED
  BY <1>1, <1>2, <1>3 DEF Range

LEMMA HomeStep ==
  ASSUME SyncTypeOK, HandInv, HomeInv, [SyncNext]_vars
  PROVE  HomeInv'
<1> USE DEF Threads
<1>t. /\ Creators \subseteq Threads /\ Processors \subseteq Threads
      /\ \A c \in Creators : c \notin Processors /\ SocketOf[c] \in Sockets
  BY SyncAssumption
<1>1. ASSUME UNCHANGED alloc, \A c \in Creators : hand'[c] = hand[c] PROVE HomeInv'
  BY <1>1 DEF HomeInv
<1>2. ASSUME NEW c \in Creators, Grab(c) PROVE HomeInv'
  BY <1>1, <1>2, GrabSplit
<1>3. ASSUME NEW c \in Creators, PopBuffers(c) PROVE HomeInv'
  <2> DEFINE s == SocketOf[c]  n == Len(want[c])
  <2>1. CASE UNCHANGED <<alloc, hand>>
    BY <1>1, <2>1
  <2>2. CASE /\ n <= Len(alloc[s])
             /\ alloc' = [alloc EXCEPT ![s] = Drop(alloc[s], n)]
             /\ \A d \in Creators \ {c} : hand'[d] = hand[d]
             /\ Carried(hand'[c]) = Take(alloc[s], n)
    <3>1. s \in Sockets /\ alloc[s] \in Seq(Bufs) /\ n \in 0 .. Len(alloc[s])
      <4>1. n \in Nat /\ Len(alloc[s]) \in Nat /\ s \in Sockets
        BY <1>3, PopSplit
      <4> QED
        BY <2>2, <4>1 DEF SyncTypeOK
    <3>2. Range(Take(alloc[s], n)) \subseteq BufsAt(s) /\ Range(Drop(alloc[s], n)) \subseteq BufsAt(s)
      BY <3>1, TakeDropRange DEF HomeInv
    <3>3. \A u \in Sockets : alloc'[u] = IF u = s THEN Drop(alloc[s], n) ELSE alloc[u]
      BY <2>2 DEF SyncTypeOK
    <3> QED
      BY <2>2, <3>2, <3>3 DEF HomeInv
  <2>3. ASSUME NEW h, hand' = [hand EXCEPT ![c] = h] PROVE \A d \in Creators \ {c} : hand'[d] = hand[d]
    BY <2>3, <1>t DEF SyncTypeOK
  <2> QED
    BY <1>3, <2>1, <2>2, <2>3, PopSplit
<1>4. ASSUME NEW c \in Creators, PushJobs(c) PROVE HomeInv'
  <2>1. UNCHANGED alloc /\ hand'[c] = <<>> /\ \A d \in Creators \ {c} : hand'[d] = hand[d]
    BY <1>4, <1>t DEF PushJobs, SyncTypeOK
  <2>2. Range(Carried(<<>>)) = {}
    <3>1. Carried(<<>>) = <<>> /\ DOMAIN <<>> = {}
      BY NoneYet
    <3> QED
      BY <3>1 DEF Range
  <2> QED
    BY <2>1, <2>2 DEF HomeInv
<1>5. ASSUME NEW c \in Creators, EndsNotifying(c) PROVE HomeInv'
  BY <1>1, <1>5 DEF EndsNotifying
<1>6. ASSUME NEW p \in Processors, PopJob(p) PROVE HomeInv'
  <2>1. UNCHANGED alloc /\ ((\E h : hand' = [hand EXCEPT ![p] = h]) \/ UNCHANGED hand)
    BY <1>6, PopKinds DEF TakesJob, FindsNone
  <2>2. \A c \in Creators : hand'[c] = hand[c]
    BY <2>1, <1>t DEF SyncTypeOK
  <2> QED
    BY <1>1, <2>1, <2>2
<1>7. ASSUME NEW p \in Processors, FreeBuffer(p) PROVE HomeInv'
  <2> DEFINE b == hand[p][1][2]  s == HomeOf(b)
  <2>1. /\ pc[p] = "holding" /\ alloc' = [alloc EXCEPT ![s] = Append(@, b)] /\ UNCHANGED hand
    BY <1>7 DEF FreeBuffer
  <2>2. b \in Bufs /\ s \in Sockets /\ b \in BufsAt(s)
    BY <2>1, JobInHand
  <2> HIDE DEF b, s
  <2>3. Range(Append(alloc[s], b)) = Range(alloc[s]) \cup {b}
    BY <2>2, AppendRange DEF SyncTypeOK
  <2>4. \A u \in Sockets : alloc'[u] = IF u = s THEN Append(alloc[s], b) ELSE alloc[u]
    BY <2>1 DEF SyncTypeOK
  <2> QED
    BY <2>1, <2>2, <2>3, <2>4 DEF HomeInv
<1>8. ASSUME NEW p \in Processors, NEW s, WakesFor(p, s) PROVE HomeInv'
  BY <1>1, <1>8, <1>t DEF WakesFor, SyncTypeOK
<1>9. ASSUME Wakes PROVE HomeInv'
  BY <1>1, <1>9 DEF Wakes
<1> QED
  BY <1>2, <1>3, <1>4, <1>5, <1>6, <1>7, <1>8, <1>9, StepKinds

(***************************************************************************)
(* Sleepers.                                                               *)
(***************************************************************************)
\* An allocator that is short of a batch does not have all the buffers of its socket:
\* it has fewer entries than the socket has buffers.
LEMMA ShortAlloc ==
  ASSUME SyncTypeOK, NEW c \in Creators, NEW n \in 1 .. Batch, Len(alloc[SocketOf[c]]) < n
  PROVE  ~(BufsAt(SocketOf[c]) \subseteq Range(alloc[SocketOf[c]]))
<1> DEFINE s == SocketOf[c]  a == alloc[s]  g == InitialAlloc[s]  k == Len(a)  m == Len(g)
<1>1. s \in Sockets /\ Batch \in Nat
  BY SyncAssumption DEF Threads
<1>2. /\ a \in Seq(Bufs) /\ g \in Seq(Bufs) /\ Batch <= m
      /\ \A i, j \in DOMAIN g : g[i] = g[j] => i = j
  BY <1>1, AllocAssumption DEF SyncTypeOK
<1>3. k \in Nat /\ m \in Nat /\ DOMAIN a = 1 .. k /\ DOMAIN g = 1 .. m
  BY <1>2, LenProperties
<1>4. k < m
  BY <1>1, <1>2, <1>3
<1> HIDE DEF a, g, k, m
<1>5. SUFFICES ASSUME BufsAt(s) \subseteq Range(a) PROVE FALSE
  BY DEF a
<1>6. \A i \in 1 .. m : \E j \in 1 .. k : a[j] = g[i]
  BY <1>3, <1>5 DEF BufsAt, Range, g
<1> DEFINE f == [i \in 1 .. m |-> CHOOSE j \in 1 .. k : a[j] = g[i]]
<1>7. f \in [1 .. m -> 1 .. k] /\ \A i \in 1 .. m : a[f[i]] = g[i]
  BY <1>6
<1>8. /\ IsFiniteSet(1 .. m) /\ Cardinality(1 .. m) = m
      /\ IsFiniteSet(1 .. k) /\ Cardinality(1 .. k) = k
  <2>1. ASSUME NEW l \in Nat PROVE IsFiniteSet(1 .. l) /\ Cardinality(1 .. l) = l
    <3>1. 1 \in Int /\ l \in Int
      OBVIOUS
    <3>2. IsFiniteSet(1 .. l) /\ Cardinality(1 .. l) = IF 1 > l THEN 0 ELSE l - 1 + 1
      BY <3>1, FS_Interval
    <3> QED
      BY <3>2
  <2> QED
    BY <1>3, <2>1
<1> HIDE DEF f
<1>9. \E i, j \in 1 .. m : i # j /\ f[i] = f[j]
  <2> DEFINE S == 1 .. m  T == 1 .. k
  <2>1. IsFiniteSet(S) /\ IsFiniteSet(T) /\ Cardinality(T) < Cardinality(S) /\ f \in [S -> T]
    BY <1>4, <1>7, <1>8
  <2> HIDE DEF S, T
  <2>2. \E i, j \in S : i # j /\ f[i] = f[j]
    BY <2>1, FS_PigeonHole
  <2> QED
    BY <2>2 DEF S
<1>10. PICK i \in 1 .. m, j \in 1 .. m : i # j /\ f[i] = f[j]
  BY <1>9
<1>11. g[i] = g[j]
  BY <1>7, <1>10
<1> QED
  BY <1>2, <1>3, <1>10, <1>11

\* A buffer that a creator holds is not in its allocator.
LEMMA HolderHasOne ==
  ASSUME SyncTypeOK, HandInv, HomeInv, Separate(Where), NEW c \in Creators, pc[c] = "holding"
  PROVE  ~(BufsAt(SocketOf[c]) \subseteq Range(alloc[SocketOf[c]]))
<1> DEFINE s == SocketOf[c]  x == <<"held", c>>  y == <<"free", s>>
<1>1. WhereOK /\ c \in Threads /\ s \in Sockets /\ x \in Places /\ y \in Places /\ x # y
  <2>1. TypesOfThreads
    BY DEF TypesOfThreads, SyncTypeOK
  <2> QED
    BY <2>1, WhereValues, ThePlaces, SyncAssumption DEF Threads
<1>2. hand[c] \in Seq(Tops \X Bufs) /\ Len(hand[c]) \in Nat /\ Len(hand[c]) >= 1
  <2>1. Batch \in Nat /\ hand[c] \in Seq(Tops \X Bufs)
    BY <1>1, SyncAssumption DEF SyncTypeOK
  <2> QED
    BY <2>1, LenProperties DEF HandInv
<1>3. /\ Where[x] = Carried(hand[c]) /\ Where[y] = alloc[s]
      /\ Carried(hand[c]) \in Seq(Bufs) /\ Len(Carried(hand[c])) = Len(hand[c])
  BY <1>1, <1>2, CarriedSeq DEF WhereOK, Held
<1>4. 1 \in DOMAIN Where[x]
  BY <1>2, <1>3, LenProperties
<1>5. Where[x][1] \in BufsAt(s)
  BY <1>3, <1>4 DEF HomeInv, Range
<1>6. ~(Where[x][1] \in Range(Where[y]))
  BY <1>1, <1>4 DEF Separate, Range
<1> QED
  BY <1>3, <1>5, <1>6
\* What SleepersAreWoken promises to a creator that sleeps.
Woken(c) ==
  \/ \E d \in Creators : SocketOf[d] = SocketOf[c] /\ pc[d] \in {"popping", "holding"}
  \/ \E p \in Processors : pc[p] = "notifying" /\ HomeOf(hand[p][1][2]) = SocketOf[c]
  \/ ~(BufsAt(SocketOf[c]) \subseteq Range(alloc[SocketOf[c]]))

LEMMA SleepersStep ==
  ASSUME SyncInv, [SyncNext]_vars
  PROVE  SleepersAreWoken'
<1> USE DEF Threads
<1>t. /\ Creators \subseteq Threads /\ Processors \subseteq Threads
      /\ \A c \in Creators : c \notin Processors /\ SocketOf[c] \in Sockets
  BY SyncAssumption
<1>v. SyncTypeOK /\ HandInv /\ HomeInv /\ Separate(Where)
  BY DEF SyncInv
<1>w. \A c \in Creators : pc[c] = "asleep" => Woken(c)
  BY DEF SyncInv, SleepersAreWoken, Woken
<1>0. SUFFICES ASSUME NEW c \in Creators, pc'[c] = "asleep" PROVE Woken(c)'
  BY DEF SleepersAreWoken, Woken
<1>1. ASSUME pc[c] = "asleep", UNCHANGED alloc,
             \A d \in Creators : pc[d] \in {"popping", "holding"} => pc'[d] \in {"popping", "holding"},
             \A p \in Processors : pc[p] = "notifying" => pc'[p] = "notifying" /\ hand'[p] = hand[p]
      PROVE  Woken(c)'
  BY <1>1, <1>w DEF Woken
<1>2. ASSUME NEW d \in Creators, Grab(d) PROVE Woken(c)'
  <2>1. /\ UNCHANGED <<alloc, hand>> /\ pc[d] = "ready" /\ pc'[d] \in {"popping", "exited"}
        /\ \A t \in Threads \ {d} : pc'[t] = pc[t]
    BY <1>2, <1>t, <1>v, GrabSplit, Moved
  <2> QED
    BY <1>0, <1>1, <1>t, <2>1
<1>3. ASSUME NEW d \in Creators, PopBuffers(d) PROVE Woken(c)'
  <2> DEFINE s == SocketOf[d]  n == Len(want[d])
  <2>0. /\ pc[d] = "popping" /\ s \in Sockets /\ n \in 1 .. Batch
        /\ n \in Nat /\ Len(alloc[s]) \in Nat
    BY <1>3, <1>v, PopSplit DEF HandInv
  <2>1. CASE Len(alloc[s]) < n /\ Goto(d, "asleep") /\ UNCHANGED <<alloc, hand>>
    <3>1. pc'[d] = "asleep" /\ \A t \in Threads \ {d} : pc'[t] = pc[t]
      BY <1>t, <1>v, <2>1, Moved
    <3>2. CASE SocketOf[c] = s
      <4>1. ~(BufsAt(s) \subseteq Range(alloc[s]))
        BY <1>v, <2>0, <2>1, ShortAlloc
      <4> QED
        BY <2>1, <3>2, <4>1 DEF Woken
    <3>3. CASE SocketOf[c] # s
      <4>1. pc[c] = "asleep"
        BY <1>0, <1>t, <3>1, <3>3
      <4> QED
        BY <1>t, <1>w, <2>1, <3>1, <3>3, <4>1 DEF Woken
    <3> QED
      BY <3>2, <3>3
  <2>2. CASE /\ n <= Len(alloc[s]) /\ Goto(d, "holding")
             /\ alloc' = [alloc EXCEPT ![s] = Drop(alloc[s], n)]
             /\ \A p \in Processors : hand'[p] = hand[p]
    <3>1. pc'[d] = "holding" /\ \A t \in Threads \ {d} : pc'[t] = pc[t]
      BY <1>t, <1>v, <2>2, Moved
    <3>2. alloc[s] \in Seq(Bufs) /\ n \in 0 .. Len(alloc[s])
      BY <1>v, <2>0, <2>2 DEF SyncTypeOK
    <3>3. Range(Drop(alloc[s], n)) \subseteq Range(alloc[s])
      BY <3>2, TakeDropRange
    <3>4. \A u \in Sockets : Range(alloc'[u]) \subseteq Range(alloc[u])
      BY <1>v, <2>2, <3>3 DEF SyncTypeOK
    <3>5. pc[c] = "asleep" /\ SocketOf[c] \in Sockets
      BY <1>0, <1>t, <3>1
    <3> QED
      BY <1>t, <1>w, <2>2, <3>1, <3>4, <3>5 DEF Woken
  <2>3. ASSUME NEW h, hand' = [hand EXCEPT ![d] = h] PROVE \A p \in Processors : hand'[p] = hand[p]
    BY <2>3, <1>t, <1>v DEF SyncTypeOK
  <2> QED
    BY <1>3, <1>v, <2>1, <2>2, <2>3, PopSplit
<1>4. ASSUME NEW d \in Creators, PushJobs(d) PROVE Woken(c)'
  <2>1. /\ pc[d] = "holding" /\ UNCHANGED alloc /\ pc'[d] = "notifying"
        /\ \A t \in Threads \ {d} : pc'[t] = pc[t] /\ hand'[t] = hand[t]
    BY <1>4, <1>t, <1>v, Moved DEF PushJobs, SyncTypeOK
  <2>2. CASE SocketOf[c] = SocketOf[d]
    <3>1. ~(BufsAt(SocketOf[d]) \subseteq Range(alloc[SocketOf[d]]))
      BY <1>v, <2>1, HolderHasOne
    <3> QED
      BY <2>1, <2>2, <3>1 DEF Woken
  <2>3. CASE SocketOf[c] # SocketOf[d]
    <3>1. pc[c] = "asleep"
      BY <1>0, <1>t, <2>1
    <3> QED
      BY <1>t, <1>w, <2>1, <2>3, <3>1 DEF Woken
  <2> QED
    BY <2>2, <2>3
<1>5. ASSUME NEW d \in Creators, EndsNotifying(d) PROVE Woken(c)'
  <2>1. /\ UNCHANGED <<alloc, hand>> /\ pc[d] = "notifying" /\ pc'[d] = "ready"
        /\ \A t \in Threads \ {d} : pc'[t] = pc[t] \/ (pc[t] = "asleep" /\ pc'[t] = "popping")
    BY <1>5 DEF EndsNotifying
  <2> QED
    BY <1>0, <1>1, <1>t, <2>1
<1>6. ASSUME NEW p \in Processors, PopJob(p) PROVE Woken(c)'
  <2>1. /\ UNCHANGED alloc /\ pc[p] = "popping"
        /\ (\E h : hand' = [hand EXCEPT ![p] = h]) \/ UNCHANGED hand
        /\ \E l : Goto(p, l)
    BY <1>6, <1>v, PopKinds DEF TakesJob, FindsNone
  <2>2. \A t \in Threads \ {p} : pc'[t] = pc[t] /\ hand'[t] = hand[t]
    BY <1>t, <1>v, <2>1, Moved DEF SyncTypeOK
  <2> QED
    BY <1>0, <1>1, <1>t, <2>1, <2>2
<1>7. ASSUME NEW p \in Processors, FreeBuffer(p) PROVE Woken(c)'
  <2> DEFINE s == HomeOf(hand[p][1][2])
  <2>1. /\ pc[p] = "holding" /\ pc'[p] = "notifying" /\ UNCHANGED hand
        /\ \A t \in Threads \ {p} : pc'[t] = pc[t]
    BY <1>7, <1>t, <1>v, Moved DEF FreeBuffer
  <2>2. \A u \in Sockets \ {s} : alloc'[u] = alloc[u]
    BY <1>7, <1>v DEF FreeBuffer, SyncTypeOK
  <2>3. CASE SocketOf[c] = s
    BY <2>1, <2>3 DEF Woken
  <2>4. CASE SocketOf[c] # s
    <3>1. pc[c] = "asleep" /\ alloc'[SocketOf[c]] = alloc[SocketOf[c]]
      BY <1>0, <1>t, <2>1, <2>2, <2>4
    <3> QED
      BY <1>t, <1>w, <2>1, <3>1 DEF Woken
  <2> QED
    BY <2>3, <2>4
<1>8. ASSUME NEW p \in Processors, NEW s, WakesFor(p, s) PROVE Woken(c)'
  <2>1. /\ pc[p] = "notifying" /\ s = HomeOf(hand[p][1][2]) /\ UNCHANGED alloc
        /\ \A t \in Threads \ {p} : pc'[t] = pc[t] \/ (pc[t] = "asleep" /\ pc'[t] = "popping")
        /\ \A t \in Threads \ {p} : hand'[t] = hand[t]
        /\ (\E d \in SleepersAt(s) : pc'[d] = "popping") \/ SleepersAt(s) = {}
    BY <1>8, <1>v DEF WakesFor, SyncTypeOK
  <2>2. pc[c] = "asleep" /\ c # p
    BY <1>0, <1>t, <2>1
  <2>3. CASE SocketOf[c] = s
    <3>1. \E d \in Creators : SocketOf[d] = s /\ pc'[d] = "popping"
      BY <2>1, <2>2, <2>3 DEF SleepersAt
    <3> QED
      BY <2>3, <3>1 DEF Woken
  <2>4. CASE SocketOf[c] # s
    <3>1. \A q \in Processors : pc[q] = "notifying" /\ HomeOf(hand[q][1][2]) = SocketOf[c] =>
             pc'[q] = "notifying" /\ hand'[q] = hand[q]
      BY <1>t, <2>1, <2>4
    <3>2. \A d \in Creators : pc[d] \in {"popping", "holding"} => pc'[d] \in {"popping", "holding"}
      BY <1>t, <2>1
    <3> QED
      BY <1>w, <2>1, <2>2, <3>1, <3>2 DEF Woken
  <2> QED
    BY <2>3, <2>4
<1>9. ASSUME Wakes PROVE Woken(c)'
  <2>1. /\ UNCHANGED <<alloc, hand>>
        /\ \A t \in Threads : pc'[t] = pc[t] \/ (pc[t] = "asleep" /\ pc'[t] = "popping")
    BY <1>9 DEF Wakes
  <2> QED
    BY <1>0, <1>1, <1>t, <2>1
<1> QED
  BY <1>2, <1>3, <1>4, <1>5, <1>6, <1>7, <1>8, <1>9, <1>v, StepKinds

LEMMA JobsStep ==
  ASSUME SyncInv, CloseInv', [SyncNext]_vars
  PROVE  NoJobBesideSleepers'
<1> USE DEF Threads
<1>t. /\ Creators \subseteq Threads /\ Processors \subseteq Threads
      /\ \A c \in Creators : c \notin Processors /\ SocketOf[c] \in Sockets
  BY SyncAssumption
<1>v. SyncTypeOK /\ CloseInv /\ NoJobBesideSleepers
  BY DEF SyncInv
<1>0. SUFFICES ASSUME NEW p \in Processors, pc'[p] = "asleep",
                      NEW s \in Sockets, input'[s] # <<>>, ~closed'
               PROVE  \E c \in Creators : pc'[c] = "notifying"
  BY DEF NoJobBesideSleepers, CloseInv
\* An open queue that keeps its jobs and its sleepers keeps its notification.
<1>1. ASSUME closed => closed', pc[p] = "asleep", input[s] # <<>>,
             \A c \in Creators : pc[c] = "notifying" => pc'[c] = "notifying"
      PROVE  \E c \in Creators : pc'[c] = "notifying"
  BY <1>0, <1>1, <1>v DEF NoJobBesideSleepers, CloseInv
<1> DEFINE Goal == \E c \in Creators : pc'[c] = "notifying"
<1>2. ASSUME NEW c \in Creators, Grab(c) PROVE Goal
  <2>1. /\ UNCHANGED <<closed, input>> /\ pc[c] = "ready"
        /\ \A t \in Threads \ {c} : pc'[t] = pc[t]
    BY <1>2, <1>t, <1>v, GrabSplit, Moved
  <2> QED
    BY <1>0, <1>1, <1>t, <2>1
<1>3. ASSUME NEW c \in Creators, PopBuffers(c) PROVE Goal
  <2>1. /\ UNCHANGED <<closed, input>> /\ pc[c] = "popping"
        /\ \A t \in Threads \ {c} : pc'[t] = pc[t]
    BY <1>3, <1>t, <1>v, PopSplit, Moved
  <2> QED
    BY <1>0, <1>1, <1>t, <2>1
<1>4. ASSUME NEW c \in Creators, PushJobs(c) PROVE Goal
  BY <1>4, <1>t, <1>v, Moved DEF PushJobs
<1>5. ASSUME NEW c \in Creators, EndsNotifying(c) PROVE Goal
  BY <1>0, <1>5 DEF EndsNotifying
<1>6. ASSUME NEW q \in Processors, PopJob(q) PROVE Goal
  <2>0. UNCHANGED closed /\ pc[q] = "popping"
    BY <1>6, <1>v, PopKinds
  <2>1. ASSUME NEW u \in Sockets, TakesJob(q, u) PROVE Goal
    <3>1. /\ pc'[q] = "holding" /\ \A t \in Threads \ {q} : pc'[t] = pc[t]
          /\ input[u] # <<>> /\ \A x \in Sockets \ {u} : input'[x] = input[x]
      BY <2>1, <1>t, <1>v, Moved DEF TakesJob, SyncTypeOK
    <3>2. input[s] # <<>>
      BY <1>0, <3>1
    <3> QED
      BY <1>0, <1>1, <1>t, <2>0, <3>1, <3>2
  <2>2. ASSUME FindsNone(q) PROVE Goal
    BY <1>0, <2>2 DEF FindsNone
  <2> QED
    BY <1>6, <1>v, <2>1, <2>2, PopKinds
<1>7. ASSUME NEW q \in Processors, FreeBuffer(q) PROVE Goal
  <2>1. /\ UNCHANGED <<closed, input>> /\ pc'[q] = "notifying"
        /\ \A t \in Threads \ {q} : pc'[t] = pc[t]
    BY <1>7, <1>t, <1>v, Moved DEF FreeBuffer
  <2> QED
    BY <1>0, <1>1, <1>t, <2>1
<1>8. ASSUME NEW q \in Processors, NEW u, WakesFor(q, u) PROVE Goal
  <2>1. /\ UNCHANGED <<closed, input>> /\ pc'[q] = "popping"
        /\ \A t \in Threads \ {q} : pc'[t] = pc[t] \/ (pc[t] = "asleep" /\ pc'[t] = "popping")
    BY <1>8 DEF WakesFor
  <2> QED
    BY <1>0, <1>1, <1>t, <2>1
<1>9. ASSUME Wakes PROVE Goal
  <2>1. /\ closed => closed'
        /\ UNCHANGED input
        /\ \A t \in Threads : pc'[t] = pc[t] \/ (pc[t] = "asleep" /\ pc'[t] = "popping")
    BY <1>9 DEF Wakes
  <2> QED
    BY <1>0, <1>1, <1>t, <2>1
<1> QED
  BY <1>2, <1>3, <1>4, <1>5, <1>6, <1>7, <1>8, <1>9, <1>v, StepKinds
(***************************************************************************)
(* The theorems.                                                           *)
(***************************************************************************)
LEMMA InitInv == SyncInit => SyncInv
<1> SUFFICES ASSUME SyncInit PROVE SyncInv
  OBVIOUS
<1> USE DEF Threads
<1>t. /\ Creators \subseteq Threads /\ Processors \subseteq Threads
      /\ \A c \in Creators : c \notin Processors
      /\ SocketOf \in [Threads -> Sockets]
  BY SyncAssumption
<1>n. /\ <<>> \in Seq(Tops \X Bufs) /\ Len(<<>>) = 0 /\ <<>> \in Seq(Tops) /\ Carried(<<>>) = <<>>
      /\ DOMAIN <<>> = {}
  BY NoneYet
<1>1. /\ \A t \in Threads : pc[t] = IF t \in Creators THEN "ready" ELSE "popping"
      /\ \A t \in Threads : hand[t] = <<>>
      /\ \A s \in Sockets : input[s] = <<>>
      /\ alloc = InitialAlloc
      /\ closed = FALSE /\ producer = "testing" /\ latchCount = 1 /\ loader = "loading"
  BY DEF SyncInit
<1>2. SyncTypeOK
  <2>1. alloc \in [Sockets -> Seq(Bufs)]
    BY <1>1, AllocAssumption
  <2>2. /\ input \in [Sockets -> Seq(Tops \X Bufs)] /\ hand \in [Threads -> Seq(Tops \X Bufs)]
        /\ want \in [Creators -> Seq(Tops)]
    BY <1>n DEF SyncInit
  <2>3. last \in [Processors -> Sockets]
    BY <1>t DEF SyncInit
  <2>4. pc \in [Threads -> {"ready", "popping", "asleep", "holding", "notifying", "exited"}]
    BY DEF SyncInit
  <2> QED
    BY <2>1, <2>2, <2>3, <2>4 DEF SyncTypeOK, SyncInit
<1>3. LatchInv /\ CloseInv
  BY <1>1, <1>t DEF LatchInv, CloseInv
<1>4. HandInv
  BY <1>1, <1>t DEF HandInv
<1>5. HomeInv
  <2>1. \A s \in Sockets : Range(alloc[s]) = BufsAt(s)
    BY <1>1 DEF Range, BufsAt
  <2>2. \A c \in Creators : Range(Carried(hand[c])) = {}
    BY <1>1, <1>n, <1>t DEF Range
  <2> QED
    BY <2>1, <2>2 DEF HomeInv
<1>6. WhereOK
  BY <1>2, WhereValues DEF TypesOfThreads, SyncTypeOK
<1>7. /\ \A s \in Sockets : Where[<<"free", s>>] = InitialAlloc[s] /\ Where[<<"queued", s>>] = <<>>
      /\ \A t \in Threads : Where[<<"held", t>>] = <<>>
  BY <1>1, <1>6, <1>n DEF WhereOK, Held
<1>8. Separate(Where)
  <2>1. SUFFICES ASSUME NEW x \in Places, NEW y \in Places,
                        NEW i \in DOMAIN Where[x], NEW j \in DOMAIN Where[y], Where[x][i] = Where[y][j]
                 PROVE  x = y /\ i = j
    BY DEF Separate
  <2>a. ASSUME NEW z \in Places, DOMAIN Where[z] # {} PROVE \E s \in Sockets : z = <<"free", s>>
    <3>1. CASE \E s \in Sockets : z = <<"queued", s>>
      BY <1>7, <1>n, <2>a, <3>1
    <3>2. CASE \E t \in Threads : z = <<"held", t>>
      BY <1>7, <1>n, <2>a, <3>2
    <3> QED
      BY <3>1, <3>2, ThePlaces
  <2>2. PICK s \in Sockets : x = <<"free", s>>
    BY <2>a
  <2>3. PICK u \in Sockets : y = <<"free", u>>
    BY <2>a
  <2>4. i \in DOMAIN InitialAlloc[s] /\ j \in DOMAIN InitialAlloc[u]
        /\ InitialAlloc[s][i] = InitialAlloc[u][j]
    BY <1>7, <2>1, <2>2, <2>3
  <2> QED
    BY <2>2, <2>3, <2>4, AllocAssumption
<1>9. Covers(Where)
  <2>1. SUFFICES ASSUME NEW b \in Bufs PROVE \E x \in Places : b \in Range(Where[x])
    BY DEF Covers
  <2>2. PICK s \in Sockets : b \in BufsAt(s)
    BY DEF Bufs
  <2>3. b \in Range(Where[<<"free", s>>])
    BY <1>7, <2>2 DEF Range, BufsAt
  <2> QED
    BY <2>3, ThePlaces
<1>10. SleepersAreWoken /\ NoJobBesideSleepers
  BY <1>1, <1>t DEF SleepersAreWoken, NoJobBesideSleepers
<1> QED
  BY <1>2, <1>3, <1>4, <1>5, <1>8, <1>9, <1>10 DEF SyncInv

LEMMA StepInv == SyncInv /\ [SyncNext]_vars => SyncInv'
<1> SUFFICES ASSUME SyncInv, [SyncNext]_vars PROVE SyncInv'
  OBVIOUS
<1>1. /\ SyncTypeOK /\ LatchInv /\ HandInv /\ HomeInv /\ CloseInv
      /\ Separate(Where) /\ Covers(Where)
  BY DEF SyncInv
<1>2. TypesOfThreads' /\ HandInv'
  BY <1>1, ThreadStep
<1>3. /\ closed' \in BOOLEAN
      /\ producer' \in {"testing", "tested", "asleep", "joining", "notifying", "done"}
      /\ latchCount' \in {0, 1} /\ loader' \in {"loading", "done"}
      /\ LatchInv' /\ CloseInv'
  BY <1>1, ProducerSide
<1>4. SyncTypeOK'
  BY <1>2, <1>3 DEF SyncTypeOK, TypesOfThreads
<1>5. HomeInv'
  BY <1>1, HomeStep
<1>6. Separate(Where') /\ Covers(Where')
  BY <1>1, BufferStep
<1>7. SleepersAreWoken' /\ NoJobBesideSleepers'
  BY <1>3, SleepersStep, JobsStep
<1> QED
  BY <1>2, <1>3, <1>4, <1>5, <1>6, <1>7 DEF SyncInv, Separate, Covers

LEMMA Invariant == SyncSpec => []SyncInv
BY InitInv, StepInv, PTL DEF SyncSpec

LEMMA Apart == SyncInv => BuffersConserved
<1> SUFFICES ASSUME SyncInv PROVE BuffersConserved
  OBVIOUS
<1>1. SyncTypeOK /\ Separate(Where) /\ Covers(Where)
  BY DEF SyncInv
<1>2. \A x \in Places : Where[x] = InPlace(x)
  BY DEF Where
<1>3. \A b \in Bufs : \E x \in Places : b \in Range(InPlace(x))
  BY <1>1, <1>2 DEF Covers
<1>4. \A x, y \in Places : \A i \in DOMAIN InPlace(x), j \in DOMAIN InPlace(y) :
        InPlace(x)[i] = InPlace(y)[j] => x = y /\ i = j
  BY <1>1, <1>2 DEF Separate
<1> QED
  BY <1>1, <1>3, <1>4 DEF BuffersConserved

\* SynchronizedQueue and SynchronizedMultiQueue lose no buffer and hand none out twice:
\* between popN_wait, pushN, the pops of the processors and the pushes that give
\* buffers back, a buffer is in one place at a time.
THEOREM QueuesConserve == SyncSpec => []BuffersConserved
BY Invariant, Apart, PTL

\* SynchronizedQueue::push notifies one thread only: that is enough, since whoever
\* is woken and sleeps again found too few buffers, and the others are in use.
THEOREM NotifyOneSuffices == SyncSpec => []SleepersAreWoken
<1>1. SyncInv => SleepersAreWoken
  BY DEF SyncInv
<1> QED
  BY <1>1, Invariant, PTL

\* SynchronizedMultiQueue: pushN notifies all, and close notifies all; so a processor
\* sleeps beside a job, or in a closed queue, only until that notification.
THEOREM PushWakesProcessors == SyncSpec => []NoJobBesideSleepers
<1>1. SyncInv => NoJobBesideSleepers
  BY DEF SyncInv
<1> QED
  BY <1>1, Invariant, PTL
=============================================================================
