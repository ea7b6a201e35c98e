----------------------------- MODULE ResultChecks -----------------------------
(***************************************************************************)
(* The checks that superCommands.cpp runs over a finished list of results, *)
(* to find the tops that a faulty device got wrong. Each recomputes the    *)
(* number of functions below a top along another way and reports the tops  *)
(* whose counts differ; here a check yields the set of those tops. A list  *)
(* maps each top to its pair of sums.                                      *)
(***************************************************************************)
EXTENDS FlatSum, Intervals

Mbf(i, n)       == Flat[n].mbfs[i]
ClassSize(i, n) == Flat[n].classInfos[i].classSize
DualOf(i, n)    == Flat[n].duals[i]
HalfLayer(n)    == 2^n \div 2
LayerNodes(l, n) == FlatNodeLayerOffset(l, n)..(FlatNodeLayerOffset(l + 1, n) - 1)
\* The highest layer with elements; the full function gets one too few.
HighestNonEmptyLayer(i, n) == GetLowestEmptyLayer(Mbf(i, n), n) - 1

Check0AndModuloVariables(list, n) ==
  {i \in Nodes(n) : \/ list[i].betaSum.count = 0
                    \/ ~SafelyDivisible(list[i].betaSum, KnownFactorial(n))
                    \/ ~SafelyDivisible(list[i].betaSumDualDedup, KnownFactorial(n))}

(***************************************************************************)
(* FastPermutationCounter. The version for seven variables permutes all    *)
(* but the last three of them and compares words: the lowest and the       *)
(* highest stay, the last three variables exchange the pairs between.      *)
(***************************************************************************)
CountPermutes(base, f, baseIsBottom, n) ==
  Len(SelectSeq(ForEachPermutation(base, n), LAMBDA g : IF baseIsBottom THEN g \subseteq f ELSE f \subseteq g))

LeadingPermutations(f, n) ==
  FoldLeft(LAMBDA s, v : FlattenSeq([i \in DOMAIN s |->
             [w \in 1..(n - v + 1) |-> IF w = 1 THEN s[i] ELSE Swap(s[i], v - 1, v + w - 2, n)]]),
           <<f>>, [v \in 1..(n - 3) |-> v])
WordPair(f, i, j, n) ==
  LET Half(k) == {p % 2^(n - 3) : p \in {q \in f : q \div 2^(n - 3) = k}} IN <<Half(i), Half(j)>>
Swizzle(f, n) == [sh |-> WordPair(f, 0, 7, n), a |-> WordPair(f, 1, 6, n),
                  b  |-> WordPair(f, 2, 5, n), c |-> WordPair(f, 4, 3, n)]
CountPermutesSwizzled(base, f, baseIsBottom, n) ==
  SumOver(LeadingPermutations(base, n), LAMBDA permuted :
    LET x == IF baseIsBottom THEN Swizzle(permuted, n) ELSE Swizzle(f, n)
        y == IF baseIsBottom THEN Swizzle(f, n) ELSE Swizzle(permuted, n)
        Fits(u, v) == x[u][1] \subseteq y[v][1] /\ x[u][2] \subseteq y[v][2]
    IN IF ~Fits("sh", "sh") THEN 0
       ELSE Cardinality({s \in {<<"a", "b", "c">>, <<"a", "c", "b">>, <<"b", "a", "c">>,
                                <<"b", "c", "a">>, <<"c", "a", "b">>, <<"c", "b", "a">>} :
                           Fits("a", s[1]) /\ Fits("b", s[2]) /\ Fits("c", s[3])}))

Counted(base, i, n) == CountPermutes(base, Mbf(i, n), FALSE, n) * ClassSize(i, n)
SumSegmentPermutations(base, from, to, n) ==
  SumOver([i \in 1..(to - from) |-> from + i - 1], LAMBDA i : Counted(base, i, n))

(***************************************************************************)
(* The tail: tops above the middle, grouped by their highest full layer    *)
(* and by what their lowest layers are up to permutation, in the order of  *)
(* their duals. A bottom whose count all tops of a group share is counted  *)
(* once and added to a running sum; the others are counted per top.        *)
(***************************************************************************)
NoPrecompute == -1
\* Mutant: also the bottoms that reach one layer further.
InitPastFullLayer(fullLayer, n) ==
  [i \in Nodes(n) |-> IF HighestNonEmptyLayer(i, n) <= fullLayer + 1 THEN ClassSize(i, n) ELSE NoPrecompute]

InitFromHighestFullLayer(fullLayer, n) ==
  [i \in Nodes(n) |-> IF HighestNonEmptyLayer(i, n) <= fullLayer THEN ClassSize(i, n) ELSE NoPrecompute]
InitFromExtendingPreviousPreCompute(parent, stub, stubLayer, n) ==
  [i \in Nodes(n) |-> CASE parent[i] # NoPrecompute                 -> parent[i]
                        [] HighestNonEmptyLayer(i, n) <= stubLayer -> Counted(stub, i, n) \div KnownFactorial(n)
                        [] OTHER                                    -> NoPrecompute]

CountExceptions(exceptions, top, n) ==
  SumOver(ForEachOne(exceptions), LAMBDA i : Counted(Mbf(top, n), i, n))
\* Both running sums: shared is the group's count of a bottom or none, and the
\* other bottoms are counted for every top of its own in counting.
CheckWithRunningSums(list, tops, shared, counting, n) ==
  FoldLeft(LAMBDA s, top :
             LET new        == {b \in Nodes(n) : b >= s.upTo /\ b < DualOf(top, n)}
                 exceptions == s.exceptions \cup {b \in new : shared[b] = NoPrecompute}
                 sum == s.sum + SumOver(ForEachOne(new \ exceptions), LAMBDA b : shared[b])
                 extra == IF top \in counting THEN CountExceptions(exceptions, top, n) ELSE 0
             IN [upTo |-> DualOf(top, n), sum |-> sum, exceptions |-> exceptions,
                 reported |-> s.reported \cup
                   IF sum + extra # list[top].betaSum.count THEN {top} ELSE {}],
           [upTo |-> 0, sum |-> 0, exceptions |-> {}, reported |-> {}], tops).reported

CheckWithRunningSumsOptimization(list, pre, tops, n) ==
  CheckWithRunningSums(list, tops,
    [b \in Nodes(n) |-> IF pre[b] = NoPrecompute THEN NoPrecompute ELSE pre[b] * KnownFactorial(n)],
    Nodes(n), n)
CheckWithRunningSumsOptimizationAndSharedTopStub(list, pre, tops, stub, stubLayer, n) ==
  CheckWithRunningSums(list, tops,
    [b \in Nodes(n) |->
       CASE pre[b] # NoPrecompute                   -> pre[b] * KnownFactorial(n)
         [] HighestNonEmptyLayer(b, n) <= stubLayer -> Counted(stub, b, n)
         [] OTHER                                   -> NoPrecompute],
    {top \in Nodes(n) : HighestNonEmptyLayer(top, n) > stubLayer}, n)

CategoriseTops(upToLayer, tops, n) ==
  LET Stub(top) == Canonize(Mbf(top, n) \cap UNION {LayerMask(l, n) : l \in 0..upToLayer}, n)
  IN {[stub |-> stub, tops |-> SelectSeq(tops, LAMBDA t : Stub(t) = stub)] : stub \in {Stub(t) : t \in ToSet(tops)}}

RECURSIVE CheckTopsTailRecurse(_, _, _, _, _, _)
CheckTopsTailRecurse(list, parent, tops, stub, stubLayer, n) ==
  IF Max({HighestNonEmptyLayer(t, n) : t \in ToSet(tops)}) > stubLayer + 1
  THEN LET child == InitFromExtendingPreviousPreCompute(parent, stub, stubLayer, n)
       IN UNION {CheckTopsTailRecurse(list, child, c.tops, c.stub, stubLayer + 1, n) :
                   c \in CategoriseTops(stubLayer + 1, tops, n)}
  ELSE CheckWithRunningSumsOptimizationAndSharedTopStub(list, parent, tops, stub, stubLayer, n)

\* SkipInitial is 1 in the code. Categories of at most SmallSize tops are
\* not checked, 2 in the code.
TailGroup(from, fullLayer, n) ==
  SortSeq(SelectSeq(NodeSeq(n), LAMBDA t : t >= from /\ GetHighestFullLayer(Mbf(t, n), n) = fullLayer),
          LAMBDA a, b : DualOf(a, n) < DualOf(b, n))
TailCategories(from, fullLayer, skipInitial, smallSize, n) ==
  {c \in CategoriseTops(fullLayer + 1 + skipInitial, TailGroup(from, fullLayer, n), n) : Len(c.tops) > smallSize}
CheckTopsTail(list, from, skipInitial, smallSize, n) ==
  UNION {LET pre == InitFromHighestFullLayer(fullLayer, n)
         IN IF fullLayer < n - 2
            THEN UNION {CheckTopsTailRecurse(list, pre, c.tops, c.stub, fullLayer + 1 + skipInitial, n) :
                          c \in TailCategories(from, fullLayer, skipInitial, smallSize, n)}
            ELSE CheckWithRunningSumsOptimization(list, pre, TailGroup(from, fullLayer, n), n)
         : fullLayer \in 0..n}

\* By counting upwards from the dual, with or without the dual's layer.
CheckTopsTailUsingPawelski(list, from, to, n) ==
  {top \in from..(to - 1) :
     LET topLayer == GetFlatLayerOfIndex(top, n)
         dual     == DualOf(top, n)
         start    == FlatNodeLayerOffset(2^n - topLayer, n)
         end      == FlatNodeLayerOffset(2^n - topLayer + 1, n)
         CountFrom(minimum) == PawelskiIntervalToTopSizeAboveSize(Mbf(dual, n), minimum, n) * KnownFactorial(n)
     IN list[top].betaSum.count #
          IF 2 * (dual - start) >= end - start
          THEN CountFrom(topLayer) - SumSegmentPermutations(Mbf(top, n), dual, end, n)
          ELSE CountFrom(topLayer + 1) + SumSegmentPermutations(Mbf(top, n), start, dual, n)}

(***************************************************************************)
(* The halves: the counts of all bottoms below a top make its interval     *)
(* size. Below the middle the list has them all; above it, the ones from   *)
(* the dual up are added, found by swapper or one by one.                  *)
(***************************************************************************)
CheckTopsFirstHalf(list, n) ==
  {i \in 0..(FlatNodeLayerOffset(HalfLayer(n) + 1, n) - 1) :
     (list[i].betaSum.count + list[i].betaSumDualDedup.count
        + (IF i > DualOf(i, n) THEN KnownFactorial(n) ELSE 0)) \div KnownFactorial(n)
       # Flat[n].classInfos[i].intervalSizeDown}

\* Counts the dual itself too, which the list's second term has already.
CheckTopsSecondHalfNaive(list, n) ==
  {i \in FlatNodeLayerOffset(HalfLayer(n) + 1, n)..(KnownMbfCounts[n] - 1) :
     (list[i].betaSum.count + list[i].betaSumDualDedup.count
        + SumSegmentPermutations(Mbf(i, n), DualOf(i, n), i + 1, n)) \div KnownFactorial(n)
       # Flat[n].classInfos[i].intervalSizeDown}

\* MBFSwapper: which of the block's tops each class of a layer lies below.
InitRange(startAt, count, size) ==
  [i \in 0..(size - 1) |-> IF i >= startAt /\ i < startAt + count THEN {i - startAt} ELSE {}]
FollowLinksToNextLayer(upper, links) ==
  LET lower == ComputeNextLayerLinks(links, upper) IN [i \in 0..(Len(lower) - 1) |-> lower[i + 1]]

CheckResultsBlock(list, startAt, count, n) ==
  LET blockLayer == GetFlatLayerOfIndex(startAt, n)
      Found(upper, layer, local) ==
        SumOver(ForEachOne({b \in LayerNodes(layer, n) : /\ local \in upper[b - FlatNodeLayerOffset(layer, n)]
                                                       /\ b >= DualOf(startAt + local, n)}),
                LAMBDA b : ClassSize(b, n) * CountPermutes(Mbf(b, n), Mbf(startAt + local, n), TRUE, n))
      Step(s, layer) ==
        LET from  == FlatLinkOffset(2^n - layer - 1, n)
            upper == FollowLinksToNextLayer(s.upper,
                       SubSeq(SourceLinks[n], from + 1, from + LinkCount(layer, n)))
        IN [upper |-> upper, totals |-> [i \in DOMAIN s.totals |-> s.totals[i] + Found(upper, layer, i - 1)]]
      totals == FoldLeft(Step,
                  [upper  |-> InitRange(startAt - FlatNodeLayerOffset(blockLayer, n), count, LayerSize(blockLayer, n)),
                   totals |-> [i \in 1..count |-> list[startAt + i - 1].betaSum.count + KnownFactorial(n)]],
                  [d \in 1..(2 * blockLayer - 2^n) |-> blockLayer - d]).totals
  IN {startAt + i - 1 : i \in {j \in 1..count :
        totals[j] \div KnownFactorial(n) # Flat[n].classInfos[startAt + j - 1].intervalSizeDown}}

MaxBlockSize == 2   \* 2048 in the code
CheckTopsSecondHalfWithSwapper(list, from, to, n) ==
  UNION {CheckResultsBlock(list, b, Min({MaxBlockSize, to - b}), n) :
           b \in {c \in from..(to - 1) : (c - from) % MaxBlockSize = 0}}

(***************************************************************************)
(* Commands on single tops.                                                *)
(***************************************************************************)
CheckAllDedupTerms(list, n) ==
  {t \in Nodes(n) : list[t].betaSumDualDedup
     # ProduceBetaTerm(Flat[n].classInfos[DualOf(t, n)], ProcessOneBeta(t, DualOf(t, n), n))}
ParseAndCheckPossiblyBadTops(list, suspects, n) ==
  {t \in suspects : SumSegmentPermutations(Mbf(t, n), 0, DualOf(t, n), n) # list[t].betaSum.count}
CorrectTops(list, tops, n) ==
  [t \in Nodes(n) |-> IF t \in tops
     THEN [betaSum          |-> ComputeSingleTop(t, TRUE, n).resultSum,
           betaSumDualDedup |-> ComputeSingleTop(t, TRUE, n).dualSum]
     ELSE list[t]]

(***************************************************************************)
(* What it promises: of a list where some tops' counts are off, each check *)
(* reports exactly those it looks at, and of a correct list none; the last *)
(* top, which has no bottoms, always looks empty. Correcting the reported  *)
(* tops restores the list.                                                 *)
(***************************************************************************)
Right(n) == [t \in Nodes(n) |-> ResultOf(t, n)]
Spoil(pair, by) == [pair EXCEPT !.betaSum.count = @ + by]

ReportLaws(list, bad, n) ==
  LET last  == KnownMbfCounts[n] - 1
      upper == FlatNodeLayerOffset(HalfLayer(n) + 1, n)
  IN /\ CheckTopsFirstHalf(list, n) = {t \in bad : t < upper}
     /\ \A l \in (HalfLayer(n) + 1)..(2^n) :
          CheckTopsSecondHalfWithSwapper(list, FlatNodeLayerOffset(l, n), FlatNodeLayerOffset(l + 1, n), n)
            = bad \cap LayerNodes(l, n)
     /\ ParseAndCheckPossiblyBadTops(list, Nodes(n), n) = bad
     /\ \A skip \in 0..1 :
          /\ CheckTopsTail(list, upper, skip, 0, n) = {t \in bad : t >= upper}
          /\ CheckTopsTail(list, upper, skip, 2, n) =
               {t \in bad : /\ t >= upper
                            /\ LET full == GetHighestFullLayer(Mbf(t, n), n)
                               IN full < n - 2 => \E c \in TailCategories(upper, full, skip, 2, n) : t \in ToSet(c.tops)}
     /\ n = 4 => CheckTopsTailUsingPawelski(list, 0, last + 1, n) = bad
     /\ CorrectTops(list, bad, n) = Right(n)

CheckLaws(k, n) ==
  LET other == (k + 7) % KnownMbfCounts[n]
  IN /\ ReportLaws([Right(n) EXCEPT ![k] = Spoil(@, KnownFactorial(n)), ![other] = Spoil(@, KnownFactorial(n))],
                   {k, other}, n)
     /\ Check0AndModuloVariables([Right(n) EXCEPT ![k] = Spoil(@, 1)], n) = {k, KnownMbfCounts[n] - 1}
RightLaws(n) ==
  /\ ReportLaws(Right(n), {}, n)
  /\ Check0AndModuloVariables(Right(n), n) = {KnownMbfCounts[n] - 1}
  /\ CheckAllDedupTerms(Right(n), n) = {}
  /\ CheckTopsSecondHalfNaive(Right(n), n) =
       {t \in Nodes(n) : t >= FlatNodeLayerOffset(HalfLayer(n) + 1, n) /\ ResultOf(t, n).betaSumDualDedup.count > 0}
CounterLaws(base, n) ==
  \A i \in Nodes(n), baseIsBottom \in BOOLEAN :
    CountPermutesSwizzled(Mbf(base, n), Mbf(i, n), baseIsBottom, n) = CountPermutes(Mbf(base, n), Mbf(i, n), baseIsBottom, n)
=============================================================================
