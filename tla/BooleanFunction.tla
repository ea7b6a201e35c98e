--------------------------- MODULE BooleanFunction --------------------------
(***************************************************************************)
(* booleanFunction.h: a Boolean function of n variables as the set of its  *)
(* true inputs, an input being the number whose bit v says that variable v *)
(* is in it. Removing variable v from every input is a shift by 2^v.       *)
(* Every operation on functions of at most 6 variables is written once;    *)
(* 7 variables use SSE lanes and more use blocks of 64 bits.               *)
(***************************************************************************)
EXTENDS BitSet, TLC

Bits(n)   == 0..(2^n - 1)
BitsOf(p) == {v \in 0..8 : (p \div 2^v) % 2 = 1}
Index(vs) == MapThenSumSet(LAMBDA v : 2^v, vs)

\* The constant patterns repeat in every word; from variable 6 on, runs of
\* empty and full words alternate.
VarMaskInit(v, n) ==
  IF v < 6 THEN UNION {{64 * i + p : p \in Mask(2^v, 64)} : i \in 0..(2^n \div 64)} \cap Bits(n)
  ELSE UNION {{64 * i + p : p \in 0..63} :
                i \in {j \in 0..(2^n \div 64 - 1) : (j \div 2^(v - 6)) % 2 = 1}}
VarMaskCache == [n \in 1..8 |-> [v \in 0..(n - 1) |-> VarMaskInit(v, n)]]
VarMask(v, n) == VarMaskCache[n][v]
MultiVarMask(vs, n) == UNION {VarMask(v, n) : v \in vs}

LayerMaskCache == [n \in 1..8 |-> [l \in 0..n |-> {p \in Bits(n) : Popcnt(BitsOf(p)) = l}]]
LayerMask(l, n) == LayerMaskCache[n][l]

CountVariableOccurences(f, v, n) == Popcnt(f \cap VarMask(v, n))
HasVariable(f, v, n)             == f \cap VarMask(v, n) # {}
GetUniverse(f, n)                == {v \in 0..(n - 1) : HasVariable(f, v, n)}

\* Renames a variable to one that the function does not have.
Move(f, from, to, n) ==
  LET m == f \cap VarMask(from, n)
  IN (f \ m) \cup (IF from < to THEN Shl(m, 2^to - 2^from, 2^n) ELSE Shr(m, 2^from - 2^to))

InvertVariable(f, v, n) ==
  Shr(f \cap VarMask(v, n), 2^v) \cup Shl(f \ VarMask(v, n), 2^v, 2^n)

Swap(f, v, w, n) ==
  LET v1 == Min({v, w})  v2 == Max({v, w})
      m1 == VarMask(v1, n)  m2 == VarMask(v2, n)
      staying == f \ SymDiff(m1, m2)
      shift   == 2^v2 - 2^v1
  IN staying \cup Shl(f \cap (m1 \ m2), shift, 2^n) \cup Shr(f \cap (m2 \ m1), shift)

\* With 7 variables the shifts stay in the words; variable 6 is the upper
\* word, so swapping with it moves between the words and back by 2^v1.
Swap7(f, v, w) ==
  LET v1 == Min({v, w})  v2 == Max({v, w})
      m1 == VarMask(v1, 7)  m2 == VarMask(v2, 7)
      shift == 2^v2 - 2^v1
  IN IF v2 # 6
     THEN (f \ SymDiff(m1, m2)) \cup LaneShl(f \cap (m1 \ m2), shift, 64)
            \cup LaneShr(f \cap (m2 \ m1), shift, 64)
     ELSE ((f \ m1) \cap 0..63) \cup ((f \cap m1) \cap 64..127)
            \cup LaneShr(Shl(f \cap m1, 64, 128), 2^v1, 64)
            \cup LaneShl(Shr(f \ m1, 64), 2^v1, 64)

(***************************************************************************)
(* Enumerating permutations of the variables by swaps.                     *)
(***************************************************************************)
\* forEachPermutationImpl: never swaps back, the last three are unrolled.
RECURSIVE PermutationsFrom(_, _, _)
PermutationsFrom(f, cur, n) ==
  LET Swapped(g, w) == Swap(g, cur, w, n)
  IN IF cur = n - 1 THEN <<f>>
     ELSE IF cur = n - 2 THEN <<f, Swapped(f, cur + 1)>>
     ELSE IF cur = n - 3
     THEN LET f2 == Swapped(f, cur + 1)   f3 == Swapped(f2, cur + 2)
              f4 == Swapped(f3, cur + 1)  f5 == Swapped(f4, cur + 2)
          IN <<f, f2, f3, f4, f5, Swapped(f5, cur + 1)>>
     ELSE LET RECURSIVE Rest(_, _)
              Rest(g, w) == IF w = n THEN <<>>
                            ELSE PermutationsFrom(Swapped(g, w), cur + 1, n)
                                   \o Rest(Swapped(g, w), w + 1)
          IN PermutationsFrom(f, cur + 1, n) \o Rest(f, cur + 1)
ForEachPermutation(f, n) == PermutationsFrom(f, 0, n)
HasPermutation(f, n, good) == \E i \in DOMAIN ForEachPermutation(f, n) : ForEachPermutation(f, n)[i] \in good

\* forEachPermutation(fromVar, toVar, ...): swaps and swaps back.
RECURSIVE PermutationsBetween(_, _, _, _)
PermutationsBetween(f, from, to, n) ==
  IF from = to THEN <<f>>
  ELSE PermutationsBetween(f, from + 1, to, n) \o
       FlattenSeq([i \in 1..(to - from - 1) |->
         PermutationsBetween(Swap(f, from, from + i, n), from + 1, to, n)])

\* forEachPermutationInGroups: consecutive groups of variables, each alone.
RECURSIVE PermutationsInGroups(_, _, _, _, _)
PermutationsInGroups(f, from, to, groups, n) ==
  IF from = to
  THEN IF groups = <<>> THEN <<f>>
       ELSE PermutationsInGroups(f, to, to + Head(groups), Tail(groups), n)
  ELSE PermutationsInGroups(f, from + 1, to, groups, n) \o
       FlattenSeq([i \in 1..(to - from - 1) |->
         PermutationsInGroups(Swap(f, from, from + i, n), from + 1, to, groups, n)])

\* forEachCoPermutation: the same permutation for two functions.
RECURSIVE CoPermutations(_, _, _)
CoPermutations(pair, cur, n) ==
  IF cur = n THEN <<pair>>
  ELSE CoPermutations(pair, cur + 1, n) \o
       FlattenSeq([i \in 1..(n - cur - 1) |->
         CoPermutations([k \in 1..2 |-> Swap(pair[k], cur, cur + i, n)], cur + 1, n)])

(***************************************************************************)
(* Layers, neighbours and closures.                                        *)
(***************************************************************************)
GetLayer(f, l, n) == f \cap LayerMask(l, n)
IsLayer(f, n)     == \A l \in 0..n : GetLayer(f, l, n) = {} \/ f \subseteq LayerMask(l, n)
\* From layer n down, the first that is not empty.
BFTopLayer(f, n)  ==
  IF f = {} THEN {} ELSE GetLayer(f, Max({l \in 0..n : GetLayer(f, l, n) # {}}), n)

OrDown(f, n) == UNION {Shr(f \cap VarMask(v, n), 2^v) : v \in 0..(n - 1)}
OrUp(f, n)   == UNION {Shl(f \ VarMask(v, n), 2^v, 2^n) : v \in 0..(n - 1)}
AndDown(f, n) ==
  Bits(n) \ UNION {Shr((Bits(n) \ f) \cap VarMask(v, n), 2^v) : v \in 0..(n - 1)}
AndUp(f, n) ==
  Bits(n) \ UNION {Shl((Bits(n) \ f) \ VarMask(v, n), 2^v, 2^n) : v \in 0..(n - 1)}

\* With 7 variables: masks for the first three, narrow lanes for the others.
Lane(v)   == 2^(v + 1)
Removed7(f, v) ==
  CASE v <= 2    -> LaneShr(f \cap Mask(2^v, 128), 2^v, 64)
    [] v \in 3..5 -> LaneShr(f, 2^v, Lane(v))
    [] v = 6     -> Shr(f, 64)
OrDown7(f) == UNION {Removed7(f, v) : v \in 0..6}
OrUp7(f) ==
       UNION {LaneShl(f \ Mask(2^v, 128), 2^v, 64) : v \in 0..2}
  \cup UNION {LaneShl(f, 2^v, Lane(v)) : v \in 3..5} \cup Shl(f, 64, 128)
\* Each andnot complements what was forced so far instead of what was removed.
AndDown7(f) ==
  FoldLeft(LAMBDA forced, v : Removed7(Bits(7) \ f, v) \ forced, Bits(7), <<0, 1, 2, 3, 4, 5, 6>>)
AndUp7(f) == Bits(7) \ OrUp7(Bits(7) \ f)

\* With more: the first six in every block, then whole blocks.
HigherPairs(n) ==  \* <<block without, the same block with a higher variable>>
  UNION {{<<i, i + 2^(v - 6)>> : i \in {j \in 0..(2^(n - 6) - 1) : (j \div 2^(v - 6)) % 2 = 0}}
         : v \in 6..(n - 1)}
OrDownBlocks(d, n) ==
  [i \in DOMAIN d |->      UNION {Shr(d[i] \cap Mask(2^v, 64), 2^v) : v \in 0..5}
                      \cup UNION {d[q[2]] : q \in {r \in HigherPairs(n) : r[1] = i}}]
OrUpBlocks(d, n) ==
  [i \in DOMAIN d |->      UNION {Shl(d[i] \ Mask(2^v, 64), 2^v, 64) : v \in 0..5}
                      \cup UNION {d[q[1]] : q \in {r \in HigherPairs(n) : r[2] = i}}]
\* What is missing keeps its lower neighbours out, or its upper ones.
AndDownBlocks(d, n) ==
  [i \in DOMAIN d |->
     {p \in 0..63 : /\ \A v \in 0..5 : p \in Shr(d[i], 2^v) \cup Mask(2^v, 64)
                    /\ \A q \in HigherPairs(n) : q[1] = i => p \in d[q[2]]}]
AndUpBlocks(d, n) ==
  [i \in DOMAIN d |->
     {p \in 0..63 : /\ \A v \in 0..5 : p \in Shl(d[i], 2^v, 64) \cup (0..63 \ Mask(2^v, 64))
                    /\ \A q \in HigherPairs(n) : q[2] = i => p \in d[q[1]]}]

Pred(f, n)    == OrDown(f, n)
Succ(f, n)    == AndUp(f, n)
Dual(f, n)    == Bits(n) \ ReverseWord(f, 2^n, 2^n)
GetNextBits(f, n) == Succ(f, n) \ f
GetPrevBits(f, n) == f \ Pred(f, n)
IsMonotonic(f, n) == Pred(f, n) \subseteq f /\ f \subseteq Succ(f, n)

\* One variable after the other, each from what the one before left.
MonotonizeDown(f, n) ==
  FoldLeft(LAMBDA g, i : g \cup Shr(g \cap VarMask(i - 1, n), 2^(i - 1)), f, [i \in 1..n |-> i])
MonotonizeUp(f, n) ==
  FoldLeft(LAMBDA g, i : g \cup Shl(g \ VarMask(i - 1, n), 2^(i - 1), 2^n), f, [i \in 1..n |-> i])
MonotonizeDown7(f) ==
  FoldLeft(LAMBDA g, i : g \cup (CASE i <= 3 -> LaneShr(g \cap Mask(2^(i - 1), 128), 2^(i - 1), 64)
                                   [] i \in 4..6 -> LaneShr(g, 2^(i - 1), Lane(i - 1))
                                   [] i = 7 -> Shr(g, 64)), f, [i \in 1..7 |-> i])
MonotonizeUp7(f) ==
  FoldLeft(LAMBDA g, i : g \cup (CASE i <= 3 -> LaneShl(g \ Mask(2^(i - 1), 128), 2^(i - 1), 64)
                                   [] i \in 4..6 -> LaneShl(g, 2^(i - 1), Lane(i - 1))
                                   [] i = 7 -> Shl(g, 64, 128)), f, [i \in 1..7 |-> i])

IsAntiChain(f, n)  == f \cap MonotonizeDown(Pred(f, n), n) = {}
AsAntiChain(f, n)  == f \ Pred(MonotonizeDown(f, n), n)
UpExpansions(f, within, n) ==
  [i \in DOMAIN ForEachOne(GetNextBits(f, n) \cap within) |->
     f \cup {ForEachOne(GetNextBits(f, n) \cap within)[i]}]

GetFormationCount(f, base, skip, n) ==
  FoldLeft(LAMBDA total, l :
             LET count == Popcnt(GetLayer(f, l, n)) - Popcnt(GetLayer(base, l, n))
             IN IF l = skip \/ count = 0 THEN total ELSE total * count,
           1, [i \in 1..n |-> i - 1])
GetModifiedLayer(f, g, n) ==
  Min({l \in 0..n : Popcnt(GetLayer(f, l, n)) # Popcnt(GetLayer(g, l, n))})
GetLowestEmptyLayer(f, n) == Min({l \in 0..n : GetLayer(f, l, n) = {}} \cup {n})
GetHighestFullLayer(f, n) == Max({l \in 0..n : LayerMask(l, n) \subseteq f} \cup {-1})
GetAllLayerSizes(f, n)    == [l \in 0..n |-> Popcnt(GetLayer(f, l, n))]
CouldHavePermutationSubset(f, sizes, n) == \A l \in 0..n : Popcnt(GetLayer(f, l, n)) <= sizes[l]

(***************************************************************************)
(* What all of it promises, in terms of sets of variables: for a function  *)
(* f of n variables, and for one input p of the wide versions.             *)
(***************************************************************************)
Below(p, q)   == BitsOf(p) \subseteq BitsOf(q)
Down(f, n)    == {p \in Bits(n) : \E q \in f : Below(p, q)}
Up(f, n)      == {p \in Bits(n) : \E q \in f : Below(q, p)}
Lower(p)      == {Index(BitsOf(p) \ {v}) : v \in BitsOf(p)}
Higher(p, n)  == {Index(BitsOf(p) \cup {v}) : v \in 0..(n - 1) \ BitsOf(p)}
Perms(n)      == {pi \in [0..(n - 1) -> 0..(n - 1)] : \A v, w \in DOMAIN pi : pi[v] = pi[w] => v = w}
Permute(f, pi) == {Index({pi[v] : v \in BitsOf(p)}) : p \in f}
Exchange(v, w, n) == [[u \in 0..(n - 1) |-> u] EXCEPT ![v] = w, ![w] = v]
Orbit(f, n)   == {Permute(f, pi) : pi \in Perms(n)}
Factorial(n)  == Cardinality(Perms(n))

NeighbourLaws(f, n) ==
  /\ Pred(f, n) = UNION {Lower(p) : p \in f}
  /\ OrUp(f, n) = UNION {Higher(p, n) : p \in f}
  /\ Succ(f, n) = {p \in Bits(n) : Lower(p) \subseteq f}
  /\ AndDown(f, n) = {p \in Bits(n) : Higher(p, n) \subseteq f}
  /\ MonotonizeDown(f, n) = Down(f, n) /\ MonotonizeUp(f, n) = Up(f, n)
  /\ IsMonotonic(f, n) <=> f = Down(f, n)
  /\ IsAntiChain(f, n) <=> \A p, q \in f : Below(p, q) => p = q
  /\ AsAntiChain(f, n) = {p \in f : \A q \in f : Below(p, q) => p = q}
  /\ Dual(f, n) = {p \in Bits(n) : 2^n - 1 - p \notin f}
  /\ \A i \in DOMAIN UpExpansions(f, Bits(n), n) :
       IsMonotonic(f, n) => IsMonotonic(UpExpansions(f, Bits(n), n)[i], n)

VariableLaws(f, n) ==
  LET vs == 0..(n - 1)
  IN /\ \A v, w \in vs :
          /\ Swap(f, v, w, n) = Permute(f, Exchange(v, w, n))
          /\ v # w /\ ~HasVariable(f, w, n) => Move(f, v, w, n) = Swap(f, v, w, n)
     /\ \A v \in vs : InvertVariable(f, v, n) = {Index(SymDiff(BitsOf(p), {v})) : p \in f}
     /\ GetUniverse(f, n) = UNION {BitsOf(p) : p \in f}
     /\ IsLayer(f, n) <=> \A p, q \in f : Popcnt(BitsOf(p)) = Popcnt(BitsOf(q))
     /\ BFTopLayer(f, n) = {p \in f : \A q \in f : Popcnt(BitsOf(q)) <= Popcnt(BitsOf(p))}

\* Every permutation once, however the swaps are arranged.
PermutationLaws(f, n) ==
  LET all == ForEachPermutation(f, n)
      Times(s, g) == Cardinality({i \in DOMAIN s : s[i] = g})
      pairs == CoPermutations(<<f, Pred(f, n)>>, 0, n)
  IN /\ Len(all) = Factorial(n)
     /\ \A g \in Orbit(f, n) :
          LET times == Cardinality({pi \in Perms(n) : Permute(f, pi) = g})
          IN Times(all, g) = times /\ Times(PermutationsBetween(f, 0, n, n), g) = times
     /\ ToSet(pairs) = {<<Permute(f, pi), Permute(Pred(f, n), pi)>> : pi \in Perms(n)}
     /\ ToSet(PermutationsInGroups(f, 0, 1, <<n - 1>>, n))
          = {Permute(f, pi) : pi \in {q \in Perms(n) : q[0] = 0}}

\* The wide versions on one input, which decides for operations that
\* distribute over \cup, and on its complement for AndDown and AndUp. andDown
\* is wrong for seven variables: with one input missing it should give all but
\* the lower neighbours of that one, and gives at most one of these.
WideFunctionLaws(p) ==
  LET b == Blocks({p}, 4, 64)
      missing == Blocks(Bits(8) \ {p}, 4, 64)
  IN /\ Joined(OrDownBlocks(b, 8), 64) = Lower(p)
     /\ Joined(OrUpBlocks(b, 8), 64) = Higher(p, 8)
     /\ Joined(AndDownBlocks(missing, 8), 64) = Bits(8) \ Lower(p)
     /\ Joined(AndUpBlocks(missing, 8), 64) = Bits(8) \ Higher(p, 8)
     /\ p < 128 =>
          /\ OrDown7({p}) = Lower(p) /\ OrUp7({p}) = Higher(p, 7)
          /\ AndUp7(Bits(7) \ {p}) = Bits(7) \ Higher(p, 7)
          /\ AndDown7(Bits(7) \ {p}) = {q \in Lower(p) : q = p - 64}
          /\ MonotonizeDown7({p}) = Down({p}, 7) /\ MonotonizeUp7({p}) = Up({p}, 7)
          /\ \A v, w \in 0..6 : Swap7({p}, v, w) = Permute({p}, Exchange(v, w, 7))

FunctionLaws(f) ==
  /\ NeighbourLaws(f, 3) /\ VariableLaws(f, 3) /\ PermutationLaws(f, 3)
  /\ WideFunctionLaws(At(f))
=============================================================================
