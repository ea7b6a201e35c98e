------------------------------ MODULE MBFFilter ------------------------------
(***************************************************************************)
(* mbfFilter.cpp: counts the pairs of a left and a right buffer of         *)
(* functions whose right one lies below the left one. Splits both buffers  *)
(* over the bit that rules out most pairs of a random sample, and counts   *)
(* what remains with words that hold one bit of many left functions        *)
(* (simdTranspose.h). Widths are scaled down from 8, 32 and 64; a buffer   *)
(* is a sequence, in an order that no result depends on.                   *)
(***************************************************************************)
EXTENDS MonotonicFunctions

MaxSampleSize        == 2   \* 255
NotWorthItSplitCount == 1   \* 131072000
PartBits             == 4   \* of a counter's part of a function
WordBits             == 2
WordsPerBlock        == 2

CountWhereBitIsSet(bit, buf) == Cardinality({i \in DOMAIN buf : bit \in buf[i]})
Ones(bit, buf)  == SelectSeq(buf, LAMBDA f : bit \in f)    \* partitionByBit
Zeros(bit, buf) == SelectSeq(buf, LAMBDA f : bit \notin f)

\* makeSample: any MaxSampleSize elements, or all if there are no more.
Samples(buf) ==
  {[i \in 1..Cardinality(s) |-> buf[ForEachOne(s)[i]]] :
     s \in kSubset(Min({Len(buf), MaxSampleSize}), DOMAIN buf)}

\* fastCountPerBit: the counts of one bit of all parts stand together.
CountIndex(bit, n) == (bit % PartBits) * (2^n \div PartBits) + (bit \div PartBits)
FastCountPerBit(buf, n) ==
  LET part(i) == i % (2^n \div PartBits)
      bitIn(i) == i \div (2^n \div PartBits)
  IN [i \in Bits(n) |-> CountWhereBitIsSet(part(i) * PartBits + bitIn(i), buf)]

\* 0 if no bit saves enough comparisons: bit 0 is in every function but one.
FindBestBitToSplitOver(left, right, leftSample, rightSample, n) ==
  LET pairs == Len(left) * Len(right)
      least == IF pairs = 0 THEN 0
               ELSE (NotWorthItSplitCount * Len(leftSample) * Len(rightSample)) \div pairs
      leftCounts  == FastCountPerBit(leftSample, n)
      rightCounts == FastCountPerBit(rightSample, n)
      Score(bit)  == (Len(leftSample) - leftCounts[CountIndex(bit, n)])
                       * rightCounts[CountIndex(bit, n)]
  IN FoldLeft(LAMBDA best, bit : IF Score(bit) > best.score THEN [bit |-> bit, score |-> Score(bit)]
                                 ELSE best,
              [bit |-> 0, score |-> least], [i \in 1..(2^n) |-> i - 1]).bit

(***************************************************************************)
(* countValidCombinationsWithBitBuffer. A block holds one bit of the next  *)
(* WordsPerBlock * WordBits left functions; the blocks of all bits of the  *)
(* same functions follow each other.                                       *)
(***************************************************************************)
BlockBits == WordsPerBlock * WordBits
BlocksPerBit(buf) == (Len(buf) + BlockBits - 1) \div BlockBits
TransposedWord(buf, word, bit) ==
  {j \in 0..(WordBits - 1) : word * WordBits + j < Len(buf) /\ bit \in buf[word * WordBits + j + 1]}
Position(word, bit, n) ==
  (word \div WordsPerBlock) * 2^n * WordsPerBlock + bit * WordsPerBlock + (word % WordsPerBlock)
TransposeBuffer(buf, n) ==
  LET words == 0..((Len(buf) + WordBits - 1) \div WordBits - 1)
      Writes(p) == {w \in words \X Bits(n) : Position(w[1], w[2], n) = p}
  IN [p \in 0..(BlocksPerBit(buf) * 2^n * WordsPerBlock - 1) |->
        UNION {TransposedWord(buf, w[1], w[2]) : w \in Writes(p)}]

\* The bits of all antichains in one list, the last one of each marked.
AllBits(buf, n) ==
  FlattenSeq([i \in DOMAIN buf |->
    LET bits == ForEachOne(AntiChainOf(buf[i], n))
    IN [k \in DOMAIN bits |-> [bit |-> bits[k], last |-> k = Len(bits)]]])

CountBitwise(transposed, blocks, allBits, n) ==
  LET BlockAt(b, bit) ==
        UNION {{w * WordBits + j : j \in transposed[b * 2^n * WordsPerBlock + bit * WordsPerBlock + w]} :
                 w \in 0..(WordsPerBlock - 1)}
      full == 0..(BlockBits - 1)
      CountBlock(b) ==
        FoldLeft(LAMBDA acc, entry :
                   LET left == acc.left \cap BlockAt(b, entry.bit)
                   IN IF entry.last THEN [left |-> full, total |-> acc.total + Popcnt(left)]
                      ELSE [acc EXCEPT !.left = left],
                 [left |-> full, total |-> 0], allBits).total
  IN MapThenSumSet(CountBlock, 0..(blocks - 1))

CountWithBitBuffer(left, right, n) ==
  IF right = <<>> THEN 0
  ELSE CountBitwise(TransposeBuffer(left, n), BlocksPerBit(left), AllBits(right, n), n)

CountQuadratic(left, right) ==
  Cardinality({ij \in (DOMAIN left) \X (DOMAIN right) : right[ij[2]] \subseteq left[ij[1]]})

\* countValidCombosWithFilterTreeRecurse: the totals some choice of samples gives.
RECURSIVE FilterCounts(_, _, _)
FilterCounts(left, right, n) ==
  UNION {LET bit == FindBestBitToSplitOver(left, right, s[1], s[2], n)
         IN IF bit = 0 THEN {CountWithBitBuffer(left, right, n)}
            ELSE {a + b : a \in FilterCounts(Ones(bit, left), Ones(bit, right), n),
                          b \in FilterCounts(left, Zeros(bit, right), n)} :
         s \in Samples(left) \X Samples(right)}

\* countWellKnownMBFCombinations: halves of a function that is full below its
\* middle layer and empty above.
BetweenLayers(f, l, n) == /\ GetFilledUpToIncludingLayer(l, n) \subseteq f
                    /\ f \subseteq GetFilledUpToIncludingLayer(l + 1, n)
LeftMayFormWellKnown(f, n)  == BetweenLayers(f, (n + 1) \div 2 - 2, n)
RightMayFormWellKnown(f, n) == BetweenLayers(f, (n + 1) \div 2 - 1, n)
CountWellKnownMBFCombinations(left, right, n) ==
  Len(SelectSeq(left, LAMBDA f : LeftMayFormWellKnown(f, n)))
    * Len(SelectSeq(right, LAMBDA f : RightMayFormWellKnown(f, n)))

-----------------------------------------------------------------------------
\* Laws: every choice of samples gives the number of pairs that comparing
\* them one by one gives.
MBF3List  == ForEachMonotonicFunction(3)
LeftPool  == <<MBF3List[20], MBF3List[5], MBF3List[9], MBF3List[14], MBF3List[1]>>
RightPool == <<MBF3List[4], MBF3List[12], MBF3List[17]>>
Taken(pool, v) == LET at == ForEachOne(v) IN [i \in DOMAIN at |-> pool[at[i] + 1]]

FilterLaws(v) ==
  LET left  == Taken(LeftPool, v \cap (0..4))
      right == Taken(RightPool, {p - 5 : p \in v \cap (5..7)})
      wellKnown == {f \in MBFs(4) : BetweenLayers(f, 1, 4)}
  IN /\ FilterCounts(left, right, 3) = {CountQuadratic(left, right)}
     /\ \A bit \in Bits(3) : FastCountPerBit(left, 3)[CountIndex(bit, 3)] = CountWhereBitIsSet(bit, left)
     /\ v = {} =>
          LET all == MBF3List
              nonEmpty == SelectSeq(all, LAMBDA f : f # {})
          IN /\ CountWithBitBuffer(all, nonEmpty, 3) = CountQuadratic(all, nonEmpty)
             /\ CountWellKnownMBFCombinations(all, all, 3) = Cardinality(wellKnown)
             /\ {f \in MBFs(4) : /\ RightMayFormWellKnown(f \cap Bits(3), 3)
                                 /\ LeftMayFormWellKnown({p - 8 : p \in f \ Bits(3)}, 3)} = wellKnown
=============================================================================
