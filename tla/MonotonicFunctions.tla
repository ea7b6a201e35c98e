------------------------- MODULE MonotonicFunctions -------------------------
(***************************************************************************)
(* funcTypes.h: monotonic functions and antichains of n variables, how     *)
(* they are enumerated and multiplied; and BooleanFunction::canonize,      *)
(* which names an equivalence class by one of its members.                 *)
(***************************************************************************)
EXTENDS BooleanFunction

(***************************************************************************)
(* canonize. A group is the variables not told apart so far, with the      *)
(* number that told it apart from the others last.                         *)
(***************************************************************************)
GroupMask(g, n) == UNION {VarMask(g.vars[i], n) : i \in DOMAIN g.vars}

\* Moves variables from the back into the places of absent ones. Counts is
\* the number of occurrences per variable; returns the function, the counts
\* and the number of variables left.
RECURSIVE FillEmptySpots(_, _, _, _)
FillEmptySpots(f, counts, v, n) ==
  IF v = n \/ (\A w \in v..(n - 1) : counts[w] = 0) THEN [f |-> f, counts |-> counts, vars |-> v]
  ELSE IF counts[v] # 0 THEN FillEmptySpots(f, counts, v + 1, n)
  ELSE LET back == Max({w \in v..(n - 1) : counts[w] # 0})
       IN FillEmptySpots(Move(f, back, v, n),
                         [counts EXCEPT ![v] = counts[back], ![back] = 0], v + 1, n)

\* Adds variable v to the group with that value, the first if there is one.
Assign(groups, value, v) ==
  IF \E i \in DOMAIN groups : groups[i].value = value
  THEN LET i == Min({j \in DOMAIN groups : groups[j].value = value})
       IN [groups EXCEPT ![i].vars = Append(@, v)]
  ELSE Append(groups, [value |-> value, vars |-> <<v>>])

InitialGroups(counts, vars) ==
  SortSeq(FoldLeft(LAMBDA groups, v : Assign(groups, counts[v], v), <<>>,
                   [i \in 1..vars |-> i - 1]),
          LAMBDA a, b : \/ Len(a.vars) < Len(b.vars)
                        \/ Len(a.vars) = Len(b.vars) /\ a.value < b.value)

\* Moves out of group g, from its k-th variable on, those that occur with
\* the other group's variables another number of times than its first; the
\* last variable takes the place of one moved out.
RECURSIVE SplitOff(_, _, _, _, _, _)
SplitOff(f, g, other, k, new, n) ==
  IF k > Len(g.vars) THEN [old |-> g, new |-> new]
  ELSE LET together == Popcnt(f \cap VarMask(g.vars[k], n) \cap GroupMask(other, n))
       IN IF together = g.value THEN SplitOff(f, g, other, k + 1, new, n)
          ELSE LET filled == Front([g.vars EXCEPT ![k] = Last(g.vars)])
               IN SplitOff(f, [g EXCEPT !.vars = filled], other, k,
                           Assign(new, together, g.vars[k]), n)

Split(f, g, other, n) ==
  LET first == Popcnt(f \cap VarMask(g.vars[1], n) \cap GroupMask(other, n))
  IN SplitOff(f, [g EXCEPT !.value = first], other, 2, <<>>, n)

\* Mutant: the variables stay where they are found instead of by value.
ReplaceUnsorted(groups, i, split) == [groups EXCEPT ![i] = split.old] \o split.new

\* The smallest value stays in place g; the others go to the end in order.
Replace(groups, i, split) ==
  LET sorted == SortSeq(<<split.old>> \o split.new, LAMBDA a, b : a.value < b.value)
  IN [groups EXCEPT ![i] = Head(sorted)] \o Tail(sorted)

\* Round and round until a whole round after the last split changed nothing.
RECURSIVE Refine(_, _, _, _, _)
Refine(f, groups, i, upTo, n) ==
  LET others == {j \in DOMAIN groups \ {i} : Split(f, groups[i], groups[j], n).new # <<>>}
      splits == Len(groups[i].vars) > 1 /\ others # {}
      now    == IF splits THEN Replace(groups, i, Split(f, groups[i], groups[Min(others)], n))
                ELSE groups
      stop   == IF splits THEN i ELSE upTo
      next   == IF i = Len(now) THEN 1 ELSE i + 1
  IN IF next = stop THEN now ELSE Refine(f, now, next, stop, n)

BySize(groups, n) ==
  FlattenSeq([size \in 1..n |-> SelectSeq(groups, LAMBDA g : Len(g.vars) = size)])

\* Brings the variables into the order of the groups by exchanging pairs.
Reorder(f, order, n) ==
  FoldLeft(LAMBDA s, i :
             IF s.order[i] = i - 1 THEN s
             ELSE LET found == CHOOSE j \in DOMAIN order : s.order[j] = i - 1
                  IN [f |-> Swap(s.f, i - 1, s.order[i], n),
                      order |-> [s.order EXCEPT ![i] = i - 1, ![found] = s.order[i]]],
           [f |-> f, order |-> order], [i \in DOMAIN order |-> i]).f

LowestOf(fs) == CHOOSE f \in fs : \A g \in fs : ~Above(f, g)

Canonize(f, n) ==
  IF f \in {{}, {0}} THEN f
  ELSE LET filled == FillEmptySpots(f, [v \in 0..(n - 1) |-> CountVariableOccurences(f, v, n)], 0, n)
           groups == BySize(Refine(filled.f, InitialGroups(filled.counts, filled.vars), 1, 1, n), n)
           sizes  == [i \in DOMAIN groups |-> Len(groups[i].vars)]
           copy   == Reorder(filled.f, FlattenSeq([i \in DOMAIN groups |-> groups[i].vars]), n)
           singles == Cardinality({i \in DOMAIN sizes : sizes[i] = 1})
           larger == SubSeq(sizes, singles + 1, Len(sizes))
       IN IF larger = <<>> THEN copy
          ELSE LowestOf({copy} \cup ToSet(PermutationsInGroups(
                 copy, singles, singles + Head(larger), Tail(larger), n)))

\* Among the permutations that keep another function as it is.
CanonizePreserving(f, reference, n) ==
  IF f \in {{}, {0}} THEN f
  ELSE LowestOf({f} \cup {p[2] : p \in {q \in ToSet(CoPermutations(<<reference, f>>, 0, n)) :
                                          q[1] = reference}})

CountDuplicatePermutations(f, n) ==
  Cardinality({i \in 1..Len(ForEachPermutation(f, n)) : ForEachPermutation(f, n)[i] = f})
CountNonDuplicatePermutations(f, n) ==
  Len(ForEachPermutation(f, n)) \div CountDuplicatePermutations(f, n)

(***************************************************************************)
(* Monotonic functions and antichains.                                     *)
(***************************************************************************)
AntiChainOf(f, n) == f \ Pred(f, n)   \* Monotonic::asAntiChain

\* operator*: the unions of a member of each, without what is below another.
Product(a, b, n) ==
  AsAntiChain({Index(BitsOf(pq[1]) \cup BitsOf(pq[2])) : pq \in a \X b}, n)

GetFilledUpToIncludingLayer(l, n) == {p \in Bits(n) : Popcnt(BitsOf(p)) <= l}

\* forEachMonotonicFunctionBetweenRecursive: a bit is added only when no
\* lower position of the new antichain was added.
RECURSIVE BetweenFrom(_, _, _, _)
BetweenFrom(bot, top, cur, n) ==
  LET news == (GetNextBits(cur, n) \cap top) \ bot
      First(f) == Ctz(AntiChainOf(f, n) \ bot)
  IN <<cur>> \o FlattenSeq([i \in DOMAIN ForEachOne(news) |->
       LET bit == ForEachOne(news)[i]
       IN IF First(cur \cup {bit}) = bit THEN BetweenFrom(bot, top, cur \cup {bit}, n) ELSE <<>>])
ForEachMonotonicFunctionBetween(bot, top, n) ==
  IF bot \subseteq top THEN BetweenFrom(bot, top, bot, n) ELSE <<>>

RECURSIVE UpToFrom(_, _, _)
UpToFrom(top, cur, n) ==
  LET news == GetNextBits(cur, n) \cap top
  IN <<cur>> \o FlattenSeq([i \in DOMAIN ForEachOne(news) |->
       LET bit == ForEachOne(news)[i]
       IN IF Ctz(AntiChainOf(cur \cup {bit}, n)) = bit
          THEN UpToFrom(top, cur \cup {bit}, n) ELSE <<>>])
ForEachMonotonicFunctionUpTo(top, n) == UpToFrom(top, {}, n)
ForEachMonotonicFunction(n)          == UpToFrom(Bits(n), {}, n)

\* The product of functions that share no variable, by shifts.
AcProd(a, b, n) ==
  MonotonizeDown(UNION {Shl(a, index, 2^n) : index \in b}, n)

\* The last permutation of the given variables that is below top, or bot.
HasPermutationBelow(top, bot, n) == HasPermutation(bot, n, SUBSET top)
LastPermutationBelow(top, bot, from, to, n) ==
  LET below == SelectSeq(PermutationsBetween(bot, from, to, n), LAMBDA f : f \subseteq top)
  IN IF below = <<>> THEN [found |-> FALSE, bot |-> bot] ELSE [found |-> TRUE, bot |-> Last(below)]

\* The first of the largest layers, from layer 1 up.
GetBiggestLayer(f, n) ==
  LET size == GetAllLayerSizes(f, n)
  IN GetLayer(f, CHOOSE l \in 1..n : /\ \A m \in 1..n : size[m] <= size[l]
                                     /\ \A m \in 1..(l - 1) : size[m] < size[l], n)

MBFs(n) == ToSet(ForEachMonotonicFunction(n))
MBF3    == MBFs(3)

(***************************************************************************)
(* What it promises.                                                       *)
(***************************************************************************)
\* A canonical form is a permutation of the function, the same for all.
CanonLaws(f, n) ==
  /\ Canonize(f, n) \in Orbit(f, n)
  /\ \A g \in Orbit(f, n) : Canonize(g, n) = Canonize(f, n)
  /\ CountNonDuplicatePermutations(f, n) = Cardinality(Orbit(f, n))

EnumerationLaws(bot, n) ==
  \A top \in MBFs(n) :
    LET between == ForEachMonotonicFunctionBetween(bot, top, n)
        upTo    == ForEachMonotonicFunctionUpTo(top, n)
    IN /\ IsInjective(between) /\ IsInjective(upTo)
       /\ ToSet(between) = {f \in MBFs(n) : bot \subseteq f /\ f \subseteq top}
       /\ ToSet(upTo) = {f \in MBFs(n) : f \subseteq top}
       /\ HasPermutationBelow(top, bot, n) <=> \E g \in Orbit(bot, n) : g \subseteq top
       /\ LET last == LastPermutationBelow(top, bot, 0, n, n)
          IN /\ last.found <=> HasPermutationBelow(top, bot, n)
             /\ last.found => last.bot \subseteq top /\ last.bot \in Orbit(bot, n)
       /\ LET p == CanonizePreserving(bot, top, n)
          IN \E pi \in Perms(n) : Permute(top, pi) = top /\ Permute(bot, pi) = p
       /\ Product(AntiChainOf(bot, n), AntiChainOf(top, n), n)
            = AsAntiChain({Index(BitsOf(p) \cup BitsOf(q)) : p \in bot, q \in top}, n)
       /\ GetUniverse(bot, n) \cap GetUniverse(top, n) = {} =>
            AcProd(bot, AntiChainOf(top, n), n)
              = {Index(BitsOf(p) \cup BitsOf(q)) : p \in bot, q \in top}

MonotonicLaws(f) ==
  /\ CanonLaws(f, 3)
  /\ f \in MBF3 => /\ EnumerationLaws(f, 3)
                   /\ Dual(f, 3) \in MBF3 /\ MonotonizeDown(AntiChainOf(f, 3), 3) = f
  /\ f = {} => /\ MBF3 = {g \in SUBSET Bits(3) : g = Down(g, 3)}
               /\ Len(ForEachMonotonicFunction(4)) = 168 /\ Cardinality(MBFs(4)) = 168
               /\ Cardinality({Canonize(g, 4) : g \in MBFs(4)}) = 30
               /\ \A g \in MBFs(4) : /\ ToSet(ForEachPermutation(g, 4)) = Orbit(g, 4)
                                     /\ Len(ForEachPermutation(g, 4)) = 24
=============================================================================
