------------------------------ MODULE RandomMBFs ------------------------------
(***************************************************************************)
(* randomMBFGeneration.cpp: draws monotonic functions of n variables from  *)
(* the classes of the flat files, permutes them, and puts two or four of   *)
(* them together to functions of one or two variables more. A random draw  *)
(* is the number drawn; what is drawn how often is counted over all draws. *)
(***************************************************************************)
EXTENDS FlatStructure

(***************************************************************************)
(* MBFSampler: the classes grouped by their size, n! first, then the other *)
(* divisors of n! from the largest down, empty groups included.            *)
(***************************************************************************)
ClassesOfSize(size, n) ==
  LET nodes == SelectSeq([i \in 1..KnownMbfCounts[n] |-> i - 1],
                         LAMBDA i : Flat[n].classInfos[i].classSize = size)
  IN [k \in DOMAIN nodes |-> Flat[n].mbfs[nodes[k]]]
CumulativeBuffers(n) ==
  LET fact  == KnownFactorial(n)
      sizes == <<fact>> \o SelectSeq([i \in 1..(fact \div 2) |-> fact \div 2 + 1 - i],
                                     LAMBDA size : fact % size = 0)
  IN [k \in DOMAIN sizes |->
        LET mbfs == ClassesOfSize(sizes[k], n)
        IN [mbfCountHere |-> sizes[k] * Len(mbfs), inverseClassSize |-> fact \div sizes[k],
            mbfs |-> mbfs]]
SamplerBuffers == [n \in 2..4 |-> CumulativeBuffers(n)]

RECURSIVE SampleFrom(_, _, _)
SampleFrom(idx, k, n) ==
  LET cb == SamplerBuffers[n][k]
  IN IF idx < cb.mbfCountHere
     THEN cb.mbfs[(idx * cb.inverseClassSize) \div KnownFactorial(n) + 1]
     ELSE SampleFrom(idx - cb.mbfCountHere, k + 1, n)
Sample(idx, n) == SampleFrom(idx, 1, n)

(***************************************************************************)
(* FastRandomPermuter<7>: variables 0, 1 and 2 each change places with one *)
(* of those from it up (210 ways), then the bytes of the function move by  *)
(* one of 24 shuffles. A function of 7 variables is two words of 64 bits;  *)
(* only an exchange with variable 6 crosses them.                          *)
(***************************************************************************)
SwapInfo(v, w) ==
  IF w = 6 THEN [shift |-> 2^v, swap |-> TRUE, left |-> VarMask(6, 7) \ VarMask(v, 7)]
  ELSE [shift |-> 2^w - 2^v, swap |-> FALSE, left |-> VarMask(v, 7) \ VarMask(w, 7)]
OtherWord(f) == {(p + 64) % 128 : p \in f}
ApplyPreComputedSwap(f, info) ==
  LET right == OtherWord(LaneShl(info.left, info.shift, 64))
      moved == LaneShl(f \cap info.left, info.shift, 64) \cup LaneShr(f \cap right, info.shift, 64)
  IN (IF info.swap THEN OtherWord(moved) ELSE moved) \cup (f \ (info.left \cup right))

\* Byte masks, byte 15 first; a shuffled byte is the one its mask byte names.
Bytes(mask)       == [i \in 0..15 |-> mask[16 - i]]
ShuffleEpi8(a, b) == [i \in 0..15 |-> a[b[i]]]
Identity == [i \in 0..15 |-> i]
Swap56 == Bytes(<<15, 14, 13, 12, 7, 6, 5, 4, 11, 10, 9, 8, 3, 2, 1, 0>>)
Swap46 == Bytes(<<15, 14, 7, 6, 11, 10, 3, 2, 13, 12, 5, 4, 9, 8, 1, 0>>)
Swap36 == Bytes(<<15, 7, 13, 5, 11, 3, 9, 1, 14, 6, 12, 4, 10, 2, 8, 0>>)
Permute3456 ==
  LET p3645 == ShuffleEpi8(Swap46, Swap56)
      p3546 == ShuffleEpi8(p3645, Swap46)
      p3564 == ShuffleEpi8(p3546, Swap56)
      lastThree == <<Identity, Swap56, Swap46, p3645, p3546, p3564>>
      tos == <<Identity, Swap36, ShuffleEpi8(Swap56, Swap36), ShuffleEpi8(p3564, Swap36)>>
  IN [i \in 0..23 |-> ShuffleEpi8(tos[(i \div 6) + 1], lastThree[(i % 6) + 1])]
ShuffleBytes(f, mask) == {p \in Bits(7) : mask[p \div 8] * 8 + (p % 8) \in f}

\* The loops over v0 from 0, v1 from 1 and v2 from 2 number the first part.
BigPermute(k, f) ==
  LET f0 == ApplyPreComputedSwap(f, SwapInfo(0, k \div 30))
      f1 == ApplyPreComputedSwap(f0, SwapInfo(1, 1 + ((k \div 5) % 6)))
  IN ApplyPreComputedSwap(f1, SwapInfo(2, 2 + (k % 5)))
PermuteWithIndex(i, f) == ShuffleBytes(BigPermute(i \div 24, f), Permute3456[i % 24])

(***************************************************************************)
(* mbfUp8 and mbfUp9, from functions of n instead of 7 variables: draws    *)
(* until the parts lie below each other, then permutes them together. A    *)
(* draw is a class by its number and a permutation; the permutations of n  *)
(* variables stand for the 5040 of 7.                                      *)
(***************************************************************************)
SampleNonPermuted(n) == [d \in 0..(Dedekind[n] - 1) |-> Sample(d, n)]
AllPermuted(parts, n) == {<<pi, [i \in DOMAIN parts |-> Permute(parts[i], pi)]>> : pi \in Perms(n)}
\* What is drawn, with the draws that give it told apart.
UpPair(n) ==
  LET sample == SampleNonPermuted(n)
  IN {c \in {<<d, e, pi, <<sample[d], Permute(sample[e], pi)>>>> :
               d \in DOMAIN sample, e \in DOMAIN sample, pi \in Perms(n)} :
        c[4][2] \subseteq c[4][1]}
MbfUp8(n) == UNION {{<<c, r>> : r \in AllPermuted(c[4], n)} : c \in UpPair(n)}
MbfUp9(n) ==
  LET accepted == {cr \in UpPair(n) \X MbfUp8(n) :
                     \A i \in 1..2 : cr[2][2][2][i] \subseteq cr[1][4][i]}
  IN UNION {{<<cr, r>> : r \in AllPermuted(cr[1][4] \o cr[2][2][2], n)} : cr \in accepted}

\* generateMBFsFromPreviousBuffer: neighbours in the file whose second lies
\* below the first are one function of a variable more.
Combined(first, second, n) == first \cup {p + 2^n : p \in second}
MBFsFromPreviousBuffer(buf, n) ==
  LET pairs == [i \in 1..(Len(buf) \div 2) |-> <<buf[2 * i - 1], buf[2 * i]>>]
      valid == SelectSeq(pairs, LAMBDA p : p[2] \subseteq p[1])
  IN [i \in DOMAIN valid |-> Combined(valid[i][1], valid[i][2], n)]

(***************************************************************************)
(* Random walks: one bit that may be added or taken away is toggled.       *)
(***************************************************************************)
StepRandom(f, selected, n) ==
  SymDiff(f, {GetNthOnBit64(selected, (Succ(f, n) \ f) \cup (f \ Pred(f, n)))})
NumBits(f, n) == Popcnt((Succ(f, n) \ f) \cup (f \ Pred(f, n)))
IsWellKnown(f, n) ==
  LET lowerHalf == GetFilledUpToIncludingLayer(n \div 2 - 1, n)
      upperHalf == Bits(n) \ GetFilledUpToIncludingLayer(n \div 2, n)
  IN (upperHalf \cap f) \cup (lowerHalf \ f) = {}

-----------------------------------------------------------------------------
\* Laws. Over all draws each class comes up once per member.
SamplerLaws(n) ==
  \A i \in Nodes(n) :
    Cardinality({d \in 0..(Dedekind[n] - 1) : Sample(d, n) = Flat[n].mbfs[i]})
      = Flat[n].classInfos[i].classSize

\* Each index permutes the variables, and no two indices alike.
ImageOfVariable(g) == CHOOSE v \in 0..6 : VarMask(v, 7) = g
BigPermutation == [k \in 0..209 |-> [v \in 0..6 |-> ImageOfVariable(BigPermute(k, VarMask(v, 7)))]]
SmallPermutation ==
  [i \in 0..23 |-> [v \in 0..6 |-> ImageOfVariable(ShuffleBytes(VarMask(v, 7), Permute3456[i]))]]
PermutationOf(i) == [v \in 0..6 |-> SmallPermutation[i % 24][BigPermutation[i \div 24][v]]]
PermuterLaws(k) ==
  /\ k < 128 => \A i \in {41 * k + 3, 29 * k} : PermuteWithIndex(i % 5040, {k, 85})
                                             = Permute({k, 85}, PermutationOf(i % 5040))
  /\ k = 0 => /\ \A i \in 0..5039 : IsInjective(PermutationOf(i))
              /\ Cardinality({PermutationOf(i) : i \in 0..5039}) = 5040

\* Every pair, or every four, that is a function comes up equally often.
Uniform(draws, parts) ==
  LET drawn == [d \in draws |-> d[2][2]]
      Times(p) == Cardinality({d \in draws : drawn[d] = p})
  IN Range(drawn) = parts /\ Cardinality({Times(p) : p \in parts}) = 1
UpLaws(n) ==
  LET below == {p \in MBFs(n) \X MBFs(n) : p[2] \subseteq p[1]}
  IN /\ Uniform(MbfUp8(n), below)
     /\ Uniform(MbfUp9(n), {p \o q : p, q \in below} \cap
                           {r \in MBFs(n) \X MBFs(n) \X MBFs(n) \X MBFs(n) :
                              r[3] \subseteq r[1] /\ r[4] \subseteq r[2]})

WalkLaws(f, n) ==
  /\ {StepRandom(f, s, n) : s \in 0..(NumBits(f, n) - 1)}
       = {g \in MBFs(n) : Popcnt(SymDiff(f, g)) = 1}
  /\ Cardinality({g \in MBFs(n) : IsWellKnown(g, n)}) = 2^KnownChoose(n, n \div 2)

RandomLaws(v) ==
  LET k == At(v)
  IN /\ k \in 2..4 => SamplerLaws(k)
     /\ PermuterLaws(k)
     /\ k = 2 => UpLaws(2)
     /\ v \in MBFs(3) =>
          /\ WalkLaws(v, 3)
          /\ \A g \in MBFs(3) :
               LET out == MBFsFromPreviousBuffer(<<v, g, g, v, v>>, 3)
               IN /\ ToSet(out) = {Combined(p[1], p[2], 3) :
                                     p \in {q \in {<<v, g>>, <<g, v>>} : q[2] \subseteq q[1]}}
                  /\ \A i \in DOMAIN out : IsMonotonic(out[i], 4)
=============================================================================
