------------------------------- MODULE BitSet -------------------------------
(***************************************************************************)
(* bitSet.h: bit sets of a power-of-two size, one class for every size up  *)
(* to 64 held in one word, one for 128 held in an SSE register and a       *)
(* generic one held in blocks. A word is the set of the positions of its   *)
(* 1 bits, so |, & and andnot are \cup, \cap and \; what the module keeps  *)
(* is what the code does with shifts, masks, decrements and comparisons.   *)
(***************************************************************************)
EXTENDS WordShifts, Sequences, SequencesExt

\* Below the lowest 1 bit everything becomes 1 and that bit becomes 0.
Decremented(v) == (v \ {Min(v)}) \cup 0..(Min(v) - 1)

\* reverse64 ... reverse2: the halves of n bits change places unmasked, then
\* the halves of every smaller part through a mask and its complement. The
\* value lives in a word of w bits: n = w but for reverse4 and reverse2.
RECURSIVE SwapHalves(_, _, _, _)
SwapHalves(v, k, n, w) ==
  IF k = 0 THEN v
  ELSE LET m == Mask(k, n)
       IN  SwapHalves(Shr(v \cap m, k) \cup Shl(v \ m, k, w), k \div 2, n, w)
ReverseWord(v, n, w) ==
  SwapHalves(Shl(v, n \div 2, w) \cup Shr(v, n \div 2), n \div 4, n, w)

\* getNthOnBit64: clear the lowest bit n times.
RECURSIVE GetNthOnBit64(_, _)
GetNthOnBit64(n, v) ==
  IF n = 0 THEN Ctz(v) ELSE GetNthOnBit64(n - 1, v \ {Ctz(v)})

\* forEachOne: take and clear the lowest bit until none is left.
RECURSIVE ForEachOne(_)
ForEachOne(v) == IF v = {} THEN <<>> ELSE <<Ctz(v)>> \o ForEachOne(v \ {Ctz(v)})

\* forEachSubSet: decrement and mask, down to and including the empty one.
RECURSIVE SubSetsFrom(_, _)
SubSetsFrom(s, mask) ==
  <<s>> \o IF s = {} THEN <<>> ELSE SubSetsFrom(Decremented(s) \cap mask, mask)
ForEachSubSet(v) == SubSetsFrom(v, v)

(***************************************************************************)
(* BitSet<64> and smaller: Size bits kept in a word of store bits.         *)
(* Converting from a larger class and complementing cut to Size bits; <<   *)
(* cuts only what the word loses, so BitSet<4> and BitSet<2> keep bits     *)
(* above their size.                                                       *)
(***************************************************************************)
SingleWord(size, store) ==
  LET words == SUBSET Nat
  IN [from    |-> [v \in words |-> v \cap 0..(size - 1)],
      not     |-> [v \in words |-> (0..(size - 1)) \ v],
      reverse |-> [v \in words |-> ReverseWord(v, size, store)],
      shl     |-> [v \in words, k \in 0..(size - 1) |-> Shl(v, k, store)],
      shr     |-> [v \in words, k \in 0..(size - 1) |-> Shr(v, k)],
      get     |-> [v \in words, i \in 0..(size - 1) |-> i \in v],
      toggle  |-> [v \in words, i \in 0..(size - 1) |-> SymDiff(v, {i})],
      full    |-> 0..(size - 1)]

BitSet64 == SingleWord(64, 64)
BitSet32 == SingleWord(32, 32)
BitSet16 == SingleWord(16, 16)
BitSet8  == SingleWord(8, 8)
BitSet4  == SingleWord(4, 8)
BitSet2  == SingleWord(2, 8)

\* Skips whole blocks by their number of bits.
RECURSIVE NthFrom(_, _, _, _)
NthFrom(d, n, i, w) ==
  IF n < Popcnt(d[i]) THEN i * w + GetNthOnBit64(n, d[i])
  ELSE NthFrom(d, n - Popcnt(d[i]), i + 1, w)
GetNthOnBit(d, n, w) == NthFrom(d, n, 0, w)

ReverseBlocks(d, w) == [i \in DOMAIN d |-> ReverseWord(d[LastBlock(d) - i], w, w)]

ForEachOneBlocks(d, w) ==
  FoldLeft(LAMBDA found, i : found \o [n \in DOMAIN ForEachOne(d[i]) |->
                                         i * w + ForEachOne(d[i])[n]],
           <<>>, [i \in 1..Cardinality(DOMAIN d) |-> i - 1])

\* forEachSubSetRecurse: for every subset of a block, all those of the lower
\* blocks, each starting again from its whole mask.
RECURSIVE SubSetsBlocks(_, _)
SubSetsBlocks(d, i) ==
  IF i < 0 THEN <<[j \in DOMAIN d |-> {}]>>
  ELSE LET lower == SubSetsBlocks(d, i - 1)
       IN FlattenSeq([n \in DOMAIN ForEachSubSet(d[i]) |->
            [l \in DOMAIN lower |-> [lower[l] EXCEPT ![i] = ForEachSubSet(d[i])[n]]]])

(***************************************************************************)
(* What all of it promises, for one set v of 0..7: the single words of 8,  *)
(* 4 and 2 bits hold v; the blocks are those of a scaled class, two or     *)
(* four to the set; and v names the position At(v) that the operations     *)
(* linear in the bits are tried with at full width.                        *)
(***************************************************************************)
At(v)         == MapThenSumSet(LAMBDA p : 2^p, v)
Ascending(s)  == \A i, j \in DOMAIN s : i < j => s[i] < s[j]

WordLaws(c, n, v) ==
  /\ c.reverse[v] \cap Upto(n) = Mirror(v, n)
  /\ c.not[c.reverse[v]] = Upto(n) \ Mirror(v, n)
  /\ c.from[v \cup {100}] = v /\ c.not[c.full] = {}
  /\ \A k \in Upto(n) :
       /\ c.shl[v, k] \cap Upto(n) = Moved(v, k, n)
       /\ c.shr[v, k] = Moved(v, -k, n)
       /\ c.get[c.toggle[v, k], k] = (k \notin v)

ListLaws(v) ==
  LET ones == ForEachOne(v)
      subs == ForEachSubSet(v)
  IN /\ ToSet(ones) = v /\ Ascending(ones)
     /\ \A n \in DOMAIN ones : GetNthOnBit64(n - 1, v) = ones[n]
     /\ v # {} => Ctz(v) = Head(ones) /\ Clz(v) = Last(ones)
     /\ ToSet(subs) = SUBSET v /\ Len(subs) = 2^Popcnt(v)
     /\ \A n \in 1..(Len(subs) - 1) : Above(subs[n], subs[n + 1])

BlockLaws(b, w, v) ==
  LET d == Blocks(v, b, w)
      subs == SubSetsBlocks(d, b - 1)
  IN /\ BlockShiftLaws(b, w, v)
     /\ Joined(ReverseBlocks(d, w), w) = Mirror(v, b * w)
     /\ ForEachOneBlocks(d, w) = ForEachOne(v)
     /\ \A n \in 1..Popcnt(v) : GetNthOnBit(d, n - 1, w) = ForEachOne(v)[n]
     /\ [n \in DOMAIN subs |-> Joined(subs[n], w)] = ForEachSubSet(v)

\* The numeric order on words and blocks; on the SSE class some strict order
\* of all sets, the one of the signed words.
OrderLaws(v) ==
  LET Pair(u) == Blocks(u, 2, 4)
  IN \A u \in SUBSET (0..7) :
       /\ Above(v, u) <=> At(v) > At(u)
       /\ AboveBlocks(Blocks(v, 4, 2), Blocks(u, 4, 2)) <=> Above(v, u)
       /\ u # v => Above128(Pair(v), Pair(u), 4) # Above128(Pair(u), Pair(v), 4)
       /\ ~Above128(Pair(v), Pair(v), 4)
       /\ \A x \in {v \ {7}, v \cup {3}, SymDiff(v, {0, 4})} :
            Above128(Pair(v), Pair(x), 4) /\ Above128(Pair(x), Pair(u), 4)
              => Above128(Pair(v), Pair(u), 4)

WideLaws(p) ==
  /\ p < 64 => WordLaws(BitSet64, 64, {p})
  /\ p < 32 => WordLaws(BitSet32, 32, {p})
  /\ p < 16 => WordLaws(BitSet16, 16, {p})
  /\ Joined(ReverseBlocks(Blocks({p}, 4, 64), 64), 64) = Mirror({p}, 256)
  /\ p < 128 => RegisterLaws({p})

BitSetLaws(v) ==
  /\ WordLaws(BitSet8, 8, v)
  /\ WordLaws(BitSet4, 4, v \cap Upto(4)) /\ WordLaws(BitSet2, 2, v \cap Upto(2))
  /\ ListLaws(v) /\ BlockLaws(4, 2, v) /\ BlockLaws(2, 4, v)
  /\ OrderLaws(v) /\ WideLaws(At(v))
=============================================================================
