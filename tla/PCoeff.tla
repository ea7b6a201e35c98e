------------------------------- MODULE PCoeff -------------------------------
(***************************************************************************)
(* connectGraph.h and pcoeff.h: p-coefficients and the sums of them that   *)
(* give the Dedekind number of n + 2 variables. The p-coefficient of a top *)
(* and a bot below it is two to the number of connected components of the  *)
(* inputs that lie between; five ways to count them are in the code.       *)
(***************************************************************************)
EXTENDS MonotonicFunctions

RECURSIVE SplitAC(_, _)
SplitAC(ac, n) ==
  IF ac = {} THEN <<>> ELSE <<MonotonizeDown({Ctz(ac)}, n)>> \o SplitAC(ac \ {Ctz(ac)}, n)

\* Two parts of a top belong together: they share more than d, or more of
\* some layer than any permutation of a function with these layer sizes has.
Linked(a, b, d)             == ~(a \cap b \subseteq d)
AreAlwaysCombined(a, b, sizes, n) == \E l \in 1..n : Popcnt(GetLayer(a \cap b, l, n)) > sizes[l]

\* Merges j into i, puts the last part in its place and starts over at i.
Merged(parts, i, j) ==
  Front([parts EXCEPT ![i] = parts[i] \cup parts[j], ![j] = IF j = Len(parts) THEN @ ELSE Last(parts)])

RECURSIVE ConnectFrom(_, _, _, _)
ConnectFrom(parts, i, j, d) ==
  IF i > Len(parts) THEN parts
  ELSE IF j > Len(parts) THEN ConnectFrom(parts, i + 1, i + 2, d)
  ELSE IF Linked(parts[i], parts[j], d) THEN ConnectFrom(Merged(parts, i, j), i, i + 1, d)
  ELSE ConnectFrom(parts, i, j + 1, d)
ConnectFast(parts, d)    == ConnectFrom(parts, 1, 2, d)
CountConnected(parts, d) == Len(ConnectFast(parts, d))

RECURSIVE PreCombineFrom(_, _, _, _, _)
PreCombineFrom(parts, i, j, sizes, n) ==
  IF i > Len(parts) THEN parts
  ELSE IF j > Len(parts) THEN PreCombineFrom(parts, i + 1, i + 2, sizes, n)
  ELSE IF AreAlwaysCombined(parts[i], parts[j], sizes, n)
  THEN PreCombineFrom(Merged(parts, i, j), i, i + 1, sizes, n)
  ELSE PreCombineFrom(parts, i, j + 1, sizes, n)
PreCombineConnected(parts, sizes, n) == PreCombineFrom(parts, 1, 2, sizes, n)

\* The neighbours above and below in one variable, plain and in SSE lanes.
FromBelow(g, v, n) == Shl(g \ VarMask(v, n), 2^v, 2^n)
FromAbove(g, v, n) == Shr(g \cap VarMask(v, n), 2^v)
FromBelow7(g, v) ==
  CASE v <= 2 -> LaneShl(g \ Mask(2^v, 128), 2^v, 16)
    [] v \in 3..5 -> LaneShl(g, 2^v, Lane(v)) [] v = 6 -> Shl(g, 64, 128)
FromAbove7(g, v) ==
  CASE v <= 2 -> LaneShr(g \cap Mask(2^v, 128), 2^v, 16)
    [] v \in 3..5 -> LaneShr(g, 2^v, Lane(v)) [] v = 6 -> Shr(g, 64)

ExploreGraphNaive(g, n) == UNION {FromAbove(g, v, n) \cup FromBelow(g, v, n) : v \in 0..(n - 1)}
\* _mm_shuffle_epi32 exchanges 64-bit, then 32-bit words.
Shuffled(g, words) == {32 * words[p \div 32] + (p % 32) : p \in g}
ExploreGraph7(g) ==
       Shuffled(g, [i \in 0..3 |-> (i + 2) % 4])
  \cup Shuffled(g, [i \in 0..3 |-> IF i % 2 = 0 THEN i + 1 ELSE i - 1])
  \cup UNION {FromBelow7(g, v) \cup FromAbove7(g, v) : v \in 0..4}

\* Drops what has exactly one neighbour below and none above. The neighbours,
\* one variable at a time, come from the plain or from the SSE version.
EliminateLeavesUp(g, below, above, n) ==
  LET s == FoldLeft(LAMBDA t, v : [once    |-> t.once \cup below[v],
                                   blocked |-> t.blocked \cup above[v] \cup (t.once \cap below[v])],
                    [once |-> below[0], blocked |-> above[0]], [i \in 1..(n - 1) |-> i])
  IN g \ (s.once \ s.blocked)
\* And exactly one above and none below.
EliminateLeavesDown(g, n) ==
  LET s == FoldLeft(LAMBDA t, v : [once    |-> t.once \cup FromAbove(g, v, n),
                                   blocked |-> t.blocked \cup (t.once \cap FromAbove(g, v, n))],
                    [once |-> FromAbove(g, 0, n), blocked |-> {}], [i \in 1..(n - 1) |-> i])
  IN g \ (s.once \ (s.blocked \cup UNION {FromBelow(g, v, n) : v \in 0..(n - 1)}))
LeavesUp(g, n) ==
  EliminateLeavesUp(g, [v \in 0..(n - 1) |-> FromBelow(g, v, n)], [v \in 0..(n - 1) |-> FromAbove(g, v, n)], n)

Singletons(g, n) == g \ ExploreGraphNaive(g, n)

\* Up and down by turns until nothing is added, within what is left.
RECURSIVE Expand(_, _, _)
Expand(down, g, n) ==
  LET up   == MonotonizeUp(down, n) \cap g
      next == MonotonizeDown(up, n) \cap g
  IN IF up = down \/ up = next THEN up ELSE Expand(next, g, n)

\* Mutant: the guess is not limited to the graph.
FirstGuessOutside(g, n) == MonotonizeDown({Clz(g)}, n)

FirstGuess(g, n) == MonotonizeDown({Clz(g)}, n) \cap g

RECURSIVE CountConnectedFrom(_, _, _)
CountConnectedFrom(g, guess, n) ==
  LET left == g \ Expand(guess, g, n)
  IN IF left = {} THEN 1 ELSE 1 + CountConnectedFrom(left, FirstGuess(left, n), n)

CountConnectedVeryFast(g, n) ==
  LET leafless == LeavesUp(g, n)
      single   == Singletons(leafless, n)
      rest     == leafless \ single
  IN Popcnt(single) + (IF rest = {} THEN 0 ELSE CountConnectedFrom(rest, FirstGuess(rest, n), n))

RECURSIVE CountConnectedFloodFill(_, _)
CountConnectedFloodFill(g, n) ==
  IF g = {} THEN 0 ELSE 1 + CountConnectedFloodFill(g \ Expand(FirstGuess(g, n), g, n), n)
CountConnectedSingletonElimination(g, n) ==
  Popcnt(Singletons(g, n)) + CountConnectedFloodFill(g \ Singletons(g, n), n)

(***************************************************************************)
(* p-coefficients and their sums over the permutations of a bot.           *)
(***************************************************************************)
ComputePCoefficient(topAC, bot, n) == 2^CountConnected(SplitAC(topAC \ bot, n), bot)
ComputePCoefficientAllowBadBots(top, bot, n) ==
  IF bot \subseteq top THEN 2^CountConnectedVeryFast(top \ bot, n) ELSE 0
ComputePCoefficientSplit(parts, bot) ==
  2^CountConnected(SelectSeq(parts, LAMBDA part : ~(part \subseteq bot)), bot)

SumOver(s, Term(_)) == FoldLeft(LAMBDA sum, x : sum + Term(x), 0, s)

ComputePermutationPCoeffSum(parts, top, bot, n) ==
  SumOver(SelectSeq(ForEachPermutation(bot, n), LAMBDA b : b \subseteq top),
          LAMBDA b : ComputePCoefficientSplit(parts, b))

ListPermutationsBelow(top, bot, n) ==
  LET below == SelectSeq(ForEachPermutation(bot, n), LAMBDA b : b \subseteq top)
  IN [i \in DOMAIN below |-> top \ below[i]]

\* Parts that every permutation leaves together are merged first. When the
\* largest part will surely be there with two elements or more, no leaves
\* are looked for.
ComputePermutationPCoeffSumFast(parts, top, bot, n) ==
  LET sizes  == GetAllLayerSizes(bot, n)
      joined == PreCombineConnected(parts, sizes, n)
      guess  == FoldLeft(LAMBDA best, part : IF Popcnt(part) > Popcnt(best) THEN part ELSE best,
                         Head(joined), Tail(joined))
      stays  == /\ \E l \in 0..n : GetAllLayerSizes(guess, n)[l] > sizes[l]
                /\ Popcnt(AntiChainOf(guess, n)) >= 2
  IN SumOver(ListPermutationsBelow(top, bot, n),
             LAMBDA g : 2^(IF stays THEN CountConnectedSingletonElimination(g, n)
                           ELSE CountConnectedVeryFast(g, n)))

(***************************************************************************)
(* The methods. The classes by layer, their interval sizes, numbers of     *)
(* members and links to the classes with one element less come from files. *)
(***************************************************************************)
Monotonics    == [n \in 2..4 |-> MBFs(n)]
ClassLayers   == [n \in 2..4 |-> [l \in 0..(2^n) |->
                    SetToSeq({Canonize(f, n) : f \in {g \in Monotonics[n] : Popcnt(g) = l}})]]
IntervalSizes == [n \in 2..4 |-> [f \in UNION {ToSet(ClassLayers[n][l]) : l \in 0..(2^n)} |->
                    Cardinality({g \in Monotonics[n] : g \subseteq f})]]
Symmetries(f, n) == CountNonDuplicatePermutations(f, n)
DownLinks(f, n)  == {Canonize(f \ {p}, n) : p \in AntiChainOf(f, n)}
IntervalSizeToBottom(f, n) == IntervalSizes[n][Canonize(f, n)]
UpFactor(top, n) == Symmetries(top, n) * IntervalSizeToBottom(Dual(top, n), n)
Duplication(bot, n) == Len(ForEachPermutation(bot, n)) \div Symmetries(bot, n)

NaivePCoeffMethod(n) ==
  SumOver(ForEachMonotonicFunction(n),
    LAMBDA top : IntervalSizeToBottom(Dual(top, n), n) *
      SumOver(ForEachMonotonicFunctionUpTo(top, n),
        LAMBDA bot : IntervalSizeToBottom(bot, n) * ComputePCoefficient(AntiChainOf(top, n), bot, n)))

BasicSymmetriesPCoeffMethod(n) ==
  SumOver(FlattenSeq([l \in 1..(2^n + 1) |-> ClassLayers[n][l - 1]]),
    LAMBDA top : UpFactor(top, n) *
      SumOver(ForEachMonotonicFunctionUpTo(top, n),
        LAMBDA bot : IntervalSizeToBottom(bot, n) * ComputePCoefficient(AntiChainOf(top, n), bot, n)))

GetBotToSubTotal(top, parts, bot, n) ==
  IntervalSizeToBottom(bot, n)
    * (ComputePermutationPCoeffSum(parts, top, bot, n) \div Duplication(bot, n))

\* The tops of a block that a class of layer l has been linked to.
PushNext(touched, l, n) ==
  [c \in ToSet(ClassLayers[n][l]) |->
     UNION {touched[b] : b \in {x \in DOMAIN touched : c \in DownLinks(x, n)}}]

\* Near the block by links, each class for the tops it is linked to only; in
\* the layers farther down every class, with the parts combined beforehand.
TopsPerBlock == 2   \* 4 in the code
SwapperReach == 2   \* 10 in the code
RECURSIVE BlockSubTotal(_, _, _, _, _)
BlockSubTotal(top, topLayer, touched, l, n) ==
  IF l = 0 THEN 0
  ELSE LET bots   == ClassLayers[n][l]
           linked == PushNext(touched, l, n)
           parts  == SplitAC(AntiChainOf(top, n), n)
       IN IF l > topLayer - SwapperReach
          THEN SumOver(SelectSeq(bots, LAMBDA b : top \in linked[b]),
                       LAMBDA b : GetBotToSubTotal(top, parts, b, n))
                 + BlockSubTotal(top, topLayer, linked, l - 1, n)
          ELSE SumOver(bots, LAMBDA b : GetBotToSubTotal(
                         top, PreCombineConnected(parts, GetAllLayerSizes(b, n), n), b, n))
                 + BlockSubTotal(top, topLayer, touched, l - 1, n)

LayerBlocks(l, n) ==
  LET layer == ClassLayers[n][l]
  IN [k \in 1..((Len(layer) + TopsPerBlock - 1) \div TopsPerBlock) |->
        SubSeq(layer, TopsPerBlock * (k - 1) + 1, Min({TopsPerBlock * k, Len(layer)}))]

NoCanonizationPCoeffMethod(n) ==
  IntervalSizeToBottom(Bits(n), n) +
  SumOver([l \in 1..(2^n) |-> l], LAMBDA l :
    SumOver(LayerBlocks(l, n), LAMBDA block :
      SumOver(block, LAMBDA top : UpFactor(top, n) *
        (IntervalSizeToBottom(top, n) + 2
           + BlockSubTotal(top, l, [t \in ToSet(block) |-> {t}], l - 1, n)))))

\* Every class that a chain of links leads to, layer by layer, but for {}.
RECURSIVE ForEachBelowUsingSwapper(_, _, _)
ForEachBelowUsingSwapper(touched, l, n) ==
  IF l = 0 THEN <<>>
  ELSE SelectSeq(ClassLayers[n][l], LAMBDA c : c \in touched)
         \o ForEachBelowUsingSwapper(UNION {DownLinks(c, n) : c \in touched}, l - 1, n)

ComputePCoeffSum(top, n) ==
  UpFactor(top, n) * (IntervalSizeToBottom(top, n) + 2 +
    SumOver(ForEachBelowUsingSwapper(DownLinks(top, n), Popcnt(top) - 1, n),
      LAMBDA bot : IntervalSizeToBottom(bot, n)
        * (ComputePermutationPCoeffSumFast(SplitAC(AntiChainOf(top, n), n), top, bot, n)
             \div Duplication(bot, n))))

PCoeffMethodV2(n) ==
  IntervalSizeToBottom(Bits(n), n) +
  SumOver(FlattenSeq([l \in 1..(2^n) |-> ClassLayers[n][l]]), LAMBDA top : ComputePCoeffSum(top, n))

(***************************************************************************)
(* What it promises.                                                       *)
(***************************************************************************)
\* Functions between bot and top that split the inputs between them without
\* parting two that are comparable: two for each component.
Splittings(top, bot, n) ==
  Cardinality({s \in SUBSET (top \ bot) : \A p \in s : (Lower(p) \cup Higher(p, n)) \cap (top \ bot) \subseteq s})

PairLaws(top, bot, n) ==
  LET parts == SplitAC(AntiChainOf(top, n), n)
      exact == Splittings(top, bot, n)
  IN /\ ComputePCoefficient(AntiChainOf(top, n), bot, n) = exact
     /\ ComputePCoefficientAllowBadBots(top, bot, n) = exact
     /\ ComputePCoefficientSplit(parts, bot) = exact
     /\ 2^CountConnectedFloodFill(top \ bot, n) = exact
     /\ 2^CountConnectedSingletonElimination(top \ bot, n) = exact
     /\ 2^CountConnectedSingletonElimination(EliminateLeavesDown(top \ bot, n), n) = exact
     /\ 2^CountConnectedSingletonElimination(LeavesUp(top \ bot, n), n) = exact

\* The sum over a bot's permutations does not depend on the short cuts.
PermutationSumLaws(top, bot, n) ==
  LET parts == SplitAC(AntiChainOf(top, n), n)
      exact == SumOver(ForEachPermutation(bot, n),
                       LAMBDA b : IF b \subseteq top THEN Splittings(top, b, n) ELSE 0)
  IN /\ ComputePermutationPCoeffSum(parts, top, bot, n) = exact
     /\ ComputePermutationPCoeffSumFast(parts, top, bot, n) = exact
     /\ ComputePermutationPCoeffSum(
          PreCombineConnected(parts, GetAllLayerSizes(bot, n), n), top, bot, n) = exact

\* The SSE versions for seven variables agree with the plain ones.
WideGraphLaws(g) ==
  /\ ExploreGraph7(g) = ExploreGraphNaive(g, 7)
  /\ EliminateLeavesUp(g, [v \in 0..6 |-> FromBelow7(g, v)], [v \in 0..6 |-> FromAbove7(g, v)], 7)
       = LeavesUp(g, 7)

Dedekind == <<3, 6, 20, 168, 7581, 7828354>>   \* D(1) to D(6)

PCoeffLaws(f) ==
  /\ f \in Monotonics[3] => \A bot \in Monotonics[3] :
       IF bot \subseteq f THEN PairLaws(f, bot, 3) /\ (f # {} => PermutationSumLaws(f, bot, 3))
       ELSE /\ ComputePCoefficientAllowBadBots(f, bot, 3) = 0
            /\ f # {} => PermutationSumLaws(f, bot, 3)
  /\ WideGraphLaws({16 * p + q : p \in f, q \in f})
  /\ f = {} => \A n \in 2..3 : /\ NaivePCoeffMethod(n) = Dedekind[n + 2]
                               /\ BasicSymmetriesPCoeffMethod(n) = Dedekind[n + 2]
                               /\ NoCanonizationPCoeffMethod(n) = Dedekind[n + 2]
                               /\ PCoeffMethodV2(n) = Dedekind[n + 2]
=============================================================================
