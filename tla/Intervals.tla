------------------------------ MODULE Intervals -----------------------------
(***************************************************************************)
(* How many monotonic functions lie between two: interval.h splits on one  *)
(* element of the top, intervalSizeCache.h remembers what that gives,      *)
(* intervalSizeFromBottom.h extends a known size by one element and        *)
(* fullIntervalSizeComputation.h does so layer by layer for every class;   *)
(* pawelski.h counts upwards with tables of functions of n - 2 variables.  *)
(***************************************************************************)
EXTENDS PCoeff

SumOf(S, Term(_)) == MapThenSumSet(Term, S)

(***************************************************************************)
(* interval.h.                                                             *)
(***************************************************************************)
IntervalSizeNaive(bot, top, n) == Len(ForEachMonotonicFunctionBetween(bot, top, n))

\* What both have as a maximal element is in every function between; the
\* counts below rely on there being none.
Reduced(bot, top, n) ==
  LET newTop == MonotonizeDown(AntiChainOf(top, n) \ AntiChainOf(bot, n), n)
  IN [bot |-> bot \cap newTop, top |-> newTop]

RECURSIVE IntervalSize(_, _, _)
GetIntervalSizeForNonNormal(bot, top, n) ==
  LET i == Reduced(bot, top, n)
  IN IF bot \subseteq top /\ i.bot \subseteq i.top THEN IntervalSize(i.bot, i.top, n) ELSE 0
IntervalSize(bot, top, n) ==
  LET b1   == MonotonizeDown({Ctz(AntiChainOf(top, n))}, n)
      rest == MonotonizeDown(AntiChainOf(top, n) \ AntiChainOf(b1, n), n)
  IN IF bot = top THEN 1
     ELSE GetIntervalSizeForNonNormal(b1 \cup bot, top, n)
        + GetIntervalSizeForNonNormal(bot, Pred(b1, n) \cup bot \cup rest, n)

\* The intervals that intervalSizeFast adds up, with how often each counts.
SubIntervals(bot, top, n) ==
  LET first == Ctz(AntiChainOf(top, n))
      t1    == MonotonizeDown({first}, n)
      below == AntiChainOf(Pred(t1, n), n)
      Part(ss) == LET sub == MonotonizeDown(ss, n)
                  IN [times |-> 1, bot |-> bot \cup sub,
                      top |-> AcProd(sub \cup Pred(Pred(t1, n), n), {2^n - 1 - first}, n) \cap top]
      strict == SelectSeq(ForEachSubSet(below), LAMBDA ss : ss # below)
  IN <<[times |-> 2, bot |-> bot \cup t1, top |-> top]>>
       \o [i \in DOMAIN strict |-> Part(strict[i])]

RECURSIVE IntervalSizeFast(_, _, _)
IntervalSizeFast(bot, top, n) ==
  LET i == Reduced(bot, top, n)
  IN IF ~(bot \subseteq top) \/ ~(i.bot \subseteq i.top) THEN 0
     ELSE IF i.bot = i.top THEN 1
     ELSE IF i.top = {0} THEN 2
     ELSE SumOver(SubIntervals(i.bot, i.top, n),
                  LAMBDA s : s.times * IntervalSizeFast(s.bot, s.top, n))

(***************************************************************************)
(* intervalSizeCache.h. The same, but a size is remembered under the       *)
(* elements between, in canonical form from six variables on.              *)
(***************************************************************************)
IntervalRepresentation(i, useCanonization, n) ==
  IF useCanonization THEN Canonize(i.top \ i.bot, n) ELSE i.top \ i.bot

RECURSIVE IntervalSizeMemoized(_, _, _, _, _)
IntervalSizeMemoized(bot, top, known, canon, n) ==
  LET i   == Reduced(bot, top, n)
      rep == IntervalRepresentation(i, canon, n)
      sum == FoldLeft(LAMBDA s, sub :
                        LET found == IntervalSizeMemoized(sub.bot, sub.top, s.known, canon, n)
                        IN [size |-> s.size + sub.times * found.size, known |-> found.known],
                      [size |-> 0, known |-> known], SubIntervals(i.bot, i.top, n))
  IN IF ~(bot \subseteq top) \/ ~(i.bot \subseteq i.top) THEN [size |-> 0, known |-> known]
     ELSE IF i.bot = i.top THEN [size |-> 1, known |-> known]
     ELSE IF i.top = {0} THEN [size |-> 2, known |-> known]
     ELSE IF rep \in DOMAIN known THEN [size |-> known[rep], known |-> known]
     ELSE [size |-> sum.size, known |-> (rep :> sum.size) @@ sum.known]

\* generate: every interval is asked for, every top with every bot below.
UpTo == [n \in 2..3 |-> [f \in Monotonics[n] |-> ForEachMonotonicFunctionUpTo(f, n)]]
GenerateIntervalSizes(canon, n) ==
  FoldLeft(LAMBDA known, top :
             FoldLeft(LAMBDA k, bot : IntervalSizeMemoized(bot, top, k, canon, n).known,
                      known, UpTo[n][top]),
           <<>>, UpTo[n][Bits(n)])
FastIntervalSizes    == [n \in 2..3 |-> GenerateIntervalSizes(FALSE, n)]
CompactIntervalSizes == [n \in 2..3 |-> GenerateIntervalSizes(TRUE, n)]
FastIntervalBufferSizes    == [n \in 2..3 |-> <<11, 99>>[n - 1]]
CompactIntervalBufferSizes == [n \in 2..3 |-> <<8, 35>>[n - 1]]

\* getIntervalSize; a representation that is not in the map is an abort.
GetIntervalSize(sizes, bot, top, canon, n) ==
  LET i == Reduced(bot, top, n)
  IN IF ~(bot \subseteq top) \/ ~(i.bot \subseteq i.top) THEN 0
     ELSE IF i.bot = i.top THEN 1
     ELSE IF i.top = {0} THEN 2
     ELSE sizes[IntervalRepresentation(i, canon, n)]
GetIntervalSizeFromBot(sizes, top, canon, n) ==
  IF top = {} THEN 1 ELSE IF top = {0} THEN 2
  ELSE sizes[IF canon THEN Canonize(top, n) ELSE top]

(***************************************************************************)
(* intervalSizeFromBottom.h: the number of ways to choose elements of a    *)
(* set with none above another.                                            *)
(***************************************************************************)
BottomLayer(g, n) == GetLayer(g, Min({l \in 0..n : GetLayer(g, l, n) # {}}), n)

RECURSIVE GetNumChoicesRecursiveDown(_, _)
GetNumChoicesRecursiveDown(g, n) ==
  IF Popcnt(g) <= 1 THEN 1 + Popcnt(g)
  ELSE LET topLayer == BFTopLayer(g, n)
       IN IF topLayer = g THEN 2^Popcnt(g)   \* 1 << size, an int
          ELSE SumOf(SUBSET topLayer, LAMBDA on :
                 GetNumChoicesRecursiveDown((g \ topLayer) \ MonotonizeDown(on, n), n))

\* Nothing conflicts within the upper layer, so the rest is free.
GetNumChoicesForLast2LayersFallback(lower, upper, n) ==
  SumOf(SUBSET lower, LAMBDA off : 2^Popcnt(upper \ MonotonizeUp(off, n)))

\* Seven variables: a word of 64 inputs without variable 6 and one with it.
\* All choices for the first elements of one word share a vector register.
MonotonizeUp6(word) ==
  FoldLeft(LAMBDA g, v : g \cup (IF v <= 2 THEN Shl(g \ Mask(2^v, 64), 2^v, 64)
                                 ELSE LaneShl(g, 2^v, Lane(v))), word, <<0, 1, 2, 3, 4, 5>>)
Last2LayersAVX(bits0, bits1, upper0, upper1, isReverse, lanes) ==
  LET extra == ToSet(SubSeq(ForEachOne(bits0), 1, lanes))
  IN SumOf((SUBSET bits1) \X (SUBSET (bits0 \ extra)) \X (SUBSET extra), LAMBDA off :
       LET forced1 == MonotonizeUp6(off[1])
           forced0 == MonotonizeUp6(off[2] \cup off[3])
           both    == forced0 \cup forced1
       IN 2^Popcnt(  (upper0 \ (IF isReverse THEN both ELSE forced0))
                \cup (upper1 \ (IF isReverse THEN forced1 ELSE both))))
GetNumChoicesForLast2Layers7(lower, upper, lanes) ==   \* 2 for AVX2, 3 for AVX512
  LET b == Blocks(lower, 2, 64)  u == Blocks(upper, 2, 64)
  IN IF Popcnt(b[0]) > Popcnt(b[1]) /\ Popcnt(b[0]) > lanes
     THEN Last2LayersAVX(b[0], b[1], u[0], u[1], FALSE, lanes)
     ELSE IF Popcnt(b[0]) <= Popcnt(b[1]) /\ Popcnt(b[1]) > lanes
     THEN Last2LayersAVX(b[1], b[0], u[1], u[0], TRUE, lanes)
     ELSE GetNumChoicesForLast2LayersFallback(lower, upper, 7)

RECURSIVE GetNumChoicesRecursiveUp(_, _, _)
GetNumChoicesRecursiveUp(g, conflicting, n) ==
  LET bottom  == BottomLayer(g, n)
      further == g \ bottom
  IN IF g \cap conflicting = {} THEN 2^Popcnt(g)
     ELSE IF conflicting \cap further = {}
     THEN GetNumChoicesForLast2LayersFallback(bottom, further, n)
     ELSE SumOf(SUBSET bottom, LAMBDA off :
            GetNumChoicesRecursiveUp(further \ MonotonizeUp(off, n), conflicting, n))

\* Mutant: only direct neighbours conflict.
GetNumChoicesShallow(g, n) == GetNumChoicesRecursiveUp(g, Pred(g, n), n)

\* Chooses in the top layer first when that leaves a wider antichain on top.
GetNumChoices(g, n) ==
  LET allBelow  == MonotonizeDown(g, n)
      topLayer  == BFTopLayer(g, n)
      shortened == g \ topLayer
  IN IF Popcnt(AntiChainOf(MonotonizeDown(shortened, n), n)) > Popcnt(AntiChainOf(allBelow, n))
     THEN SumOf(SUBSET topLayer, LAMBDA on :
            LET left == shortened \ MonotonizeDown(on, n)
            IN GetNumChoicesRecursiveUp(left, Pred(MonotonizeDown(left, n), n), n))
     ELSE GetNumChoicesRecursiveUp(g, Pred(allBelow, n), n)

ComputeIntervalSizeExtention(prevTop, prevSize, extention, n) ==
  LET choosable == prevTop \ MonotonizeDown({extention}, n)
  IN prevSize + (IF choosable = {} THEN 1 ELSE GetNumChoices(choosable, n))

(***************************************************************************)
(* fullIntervalSizeComputation.h: from one layer of classes to the next.   *)
(***************************************************************************)
ComputeExtendedIntervalOf(prevLayer, f, n) ==
  LET removed == Ctz(BFTopLayer(f, n))
      smaller == f \ {removed}
  IN ComputeIntervalSizeExtention(smaller, prevLayer[Canonize(smaller, n)], removed, n)

ComputeIntervals(n) ==
  FoldLeft(LAMBDA sizes, l :
             [f \in ToSet(ClassLayers[n][l]) |-> ComputeExtendedIntervalOf(sizes, f, n)] @@ sizes,
           {} :> 1, [l \in 1..(2^n) |-> l])
ComputeIntervalSizesNaive(f, n) == IF f = {} THEN 1 ELSE Len(ForEachMonotonicFunctionUpTo(f, n))
ComputeIntervalSizesFast(f, n)  == IF f = {} THEN 1 ELSE IntervalSizeFast({}, f, n)

(***************************************************************************)
(* pawelski.h. A function of n variables is four of n - 2; from a bot up,  *)
(* choose the smallest and the largest of the four above it, and what lies *)
(* between them independently.                                             *)
(***************************************************************************)
GetPart(f, idx, n) == {p \in Shr(f, 2^n * idx) : p < 2^n}
GenerateAllMBFs(n) == SortSeq(ForEachMonotonicFunction(n), LAMBDA a, b : Popcnt(a) < Popcnt(b))
MbfLUT == [n \in 1..2 |-> GenerateAllMBFs(n)]
InverseIndex(f, n) == CHOOSE i \in DOMAIN MbfLUT[n] : MbfLUT[n][i] = f
AboveLUT(i, n) == {j \in DOMAIN MbfLUT[n] : MbfLUT[n][i] \subseteq MbfLUT[n][j]}
\* With the number of functions of each size; relies on the order by size.
SliceSize(bot, top, size, n) ==
  Cardinality({i \in AboveLUT(bot, n) : /\ i <= top
                                        /\ MbfLUT[n][i] \subseteq MbfLUT[n][top]
                                        /\ Popcnt(MbfLUT[n][i]) = size})

PawelskiIntervalToTopSizeAboveSize(bot, minimum, n) ==
  LET small == n - 2
      f == [k \in 0..3 |-> GetPart(bot, k, small)]   \* f5, f3, f1, f0 in the code
  IN SumOf({g \in ToSet(MbfLUT[small]) : f[3] \subseteq g}, LAMBDA f2 :
       LET f4 == InverseIndex(f[2] \cup f2, small)
           f6 == InverseIndex(f[1] \cup f2, small)
       IN SumOf(AboveLUT(InverseIndex(f[0] \cup f2, small), small), LAMBDA f7 :
            LET size7 == Popcnt(MbfLUT[small][f7])
                From(i) == Popcnt(MbfLUT[small][i])..size7
            IN SumOf(From(f4), LAMBDA size4 : SliceSize(f4, f7, size4, small) *
                 SumOf({s \in From(f6) : Popcnt(f2) + size7 + size4 + s >= minimum},
                        LAMBDA size6 : SliceSize(f6, f7, size6, small)))))

PawelskiIntervalToTopSize(bot, n) ==
  LET small == n - 2
      f == [k \in 0..3 |-> GetPart(bot, k, small)]
  IN SumOf({g \in ToSet(MbfLUT[small]) : f[3] \subseteq g}, LAMBDA f2 :
       SumOf(AboveLUT(InverseIndex(f[0] \cup f2, small), small), LAMBDA f7 :
            IntervalSizeFast(f[2] \cup f2, MbfLUT[small][f7], small)
          * IntervalSizeFast(f[1] \cup f2, MbfLUT[small][f7], small)))

(***************************************************************************)
(* What it promises.                                                       *)
(***************************************************************************)
ChoiceLaws(g) ==
  LET antichains == Cardinality({s \in SUBSET g : IsAntiChain(s, 3)})
  IN g # {} => GetNumChoicesRecursiveDown(g, 3) = antichains /\ GetNumChoices(g, 3) = antichains

IntervalLaws3(bot) ==
  \A top \in MBF3 :
    LET exact == Cardinality({f \in MBF3 : bot \subseteq f /\ f \subseteq top})
    IN /\ IntervalSizeFast(bot, top, 3) = exact /\ IntervalSizeNaive(bot, top, 3) = exact
       /\ GetIntervalSizeForNonNormal(bot, top, 3) = exact
       /\ GetIntervalSize(FastIntervalSizes[3], bot, top, FALSE, 3) = exact
       /\ GetIntervalSize(CompactIntervalSizes[3], bot, top, TRUE, 3) = exact
       /\ bot = {} => GetIntervalSizeFromBot(FastIntervalSizes[3], top, FALSE, 3) = exact
                      /\ GetIntervalSizeFromBot(CompactIntervalSizes[3], top, TRUE, 3) = exact

UpwardLaws(bot, n) ==
  /\ PawelskiIntervalToTopSize(bot, n) = Cardinality({f \in Monotonics[n] : bot \subseteq f})
  /\ \A size \in 0..(2^n + 1) :
       PawelskiIntervalToTopSizeAboveSize(bot, size, n)
         = Cardinality({f \in Monotonics[n] : bot \subseteq f /\ Popcnt(f) >= size})

Last2Laws7(g) ==
  LET lower == {l \in LayerMask(3, 7) : (l % 11) \in g}
      few   == ToSet(SubSeq(ForEachOne(lower), 1, Min({5, Popcnt(lower)})))
      upper == UNION {Higher(p, 7) : p \in few}
      exact == GetNumChoicesForLast2LayersFallback(few, upper, 7)
  IN /\ GetNumChoicesForLast2Layers7(few, upper, 2) = exact
     /\ GetNumChoicesForLast2Layers7(few, upper, 3) = exact

IntervalLaws(f) ==
  /\ ChoiceLaws(f) /\ Last2Laws7(f)
  /\ f \in MBF3 => IntervalLaws3(f) /\ UpwardLaws(f, 3)
  /\ f = {} => \A n \in 2..3 :
       /\ Cardinality(DOMAIN FastIntervalSizes[n]) = FastIntervalBufferSizes[n]
       /\ Cardinality(DOMAIN CompactIntervalSizes[n]) = CompactIntervalBufferSizes[n]
  /\ f = {} => \A n \in 2..4 : ComputeIntervals(n) = IntervalSizes[n]
  /\ At(f) < 30 => LET c == FlattenSeq([l \in 1..17 |-> ClassLayers[4][l - 1]])[At(f) + 1]
                   IN /\ ComputeIntervalSizesFast(c, 4) = IntervalSizes[4][c]
                      /\ ComputeIntervalSizesNaive(c, 4) = IntervalSizes[4][c]
                      /\ UpwardLaws(c, 4)
=============================================================================
