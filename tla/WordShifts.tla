----------------------------- MODULE WordShifts -----------------------------
(***************************************************************************)
(* bitSet.h, the part without loops over bits: shifts, order and mirroring *)
(* of a word, of the SSE register and of an array of blocks. A word is the *)
(* set of the positions of its 1 bits, so |, & and andnot are \cup, \cap   *)
(* and \; what is left is what the code does with shifts and comparisons.  *)
(***************************************************************************)
EXTENDS Integers, FiniteSets, FiniteSetsExt

\* v << k and v >> k in a word of w bits.
Shl(v, k, w) == {p + k : p \in {q \in v : q + k < w}}
Shr(v, k)    == {p - k : p \in {q \in v : q >= k}}

\* The same in every lane of w bits of a register.
LaneShl(v, k, w) == {p + k : p \in {q \in v : (q % w) + k < w}}
LaneShr(v, k, w) == {p - k : p \in {q \in v : q % w >= k}}

Ctz(v)    == Min(v)           \* undefined on an empty word
Clz(v)    == Max(v)           \* the code's clz is the highest bit's index
Popcnt(v) == Cardinality(v)

\* a > b as unsigned words: the highest bit in which they differ.
Above(a, b) == a # b /\ Max(SymDiff(a, b)) \in a

\* Positions whose bit k (a power of two) is set: MASK_k.
Mask(k, w) == {p \in 0..(w - 1) : (p \div k) % 2 = 1}

(***************************************************************************)
(* The generic class: an array of blocks of w bits, 64 in the code.        *)
(***************************************************************************)
Block(v, i, w)  == {p - i * w : p \in {q \in v : q \div w = i}}
Blocks(v, b, w) == [i \in 0..(b - 1) |-> Block(v, i, w)]
Joined(d, w)    == UNION {{p + i * w : p \in d[i]} : i \in DOMAIN d}
LastBlock(d)    == Cardinality(DOMAIN d) - 1
NonZero(d)      == {i \in DOMAIN d : d[i] # {}}

GetFirstOnBit(d, w) ==
  IF NonZero(d) = {} THEN w * Cardinality(DOMAIN d)
  ELSE LET i == Min(NonZero(d)) IN Ctz(d[i]) + w * i
GetLastOnBit(d, w) ==
  IF NonZero(d) = {} THEN 0 ELSE LET i == Max(NonZero(d)) IN Clz(d[i]) + w * i

\* Mutant: the bits that leave a block are not carried into the next one.
ShlWithoutCarry(d, shift, w) ==
  [i \in DOMAIN d |-> IF i < shift \div w THEN {} ELSE Shl(d[i - (shift \div w)], shift % w, w)]

\* operator<<=, for a shift of at least 1: with 0 its loop has no end. It
\* runs from the last block down and reads only blocks not yet written.
ShlBlocks(d, shift, w) ==
  LET offset == shift \div w
      rel    == shift % w
      From(i) == IF i \in DOMAIN d THEN d[i] ELSE {}
  IN [i \in DOMAIN d |->
        IF i < offset THEN {}
        ELSE IF rel = 0 THEN d[i - offset]
        ELSE Shl(d[i - offset], rel, w) \cup Shr(From(i - offset - 1), w - rel)]

\* operator>>=, from the first block up.
ShrBlocks(d, shift, w) ==
  LET offset == shift \div w
      rel    == shift % w
      From(i) == IF i \in DOMAIN d THEN d[i] ELSE {}
  IN [i \in DOMAIN d |->
        IF i > LastBlock(d) - offset THEN {}
        ELSE IF rel = 0 THEN d[i + offset]
        ELSE Shr(d[i + offset], rel) \cup Shl(From(i + offset + 1), w - rel, w)]

\* operator>: the most significant block that differs decides.
AboveBlocks(a, b) ==
  \E i \in DOMAIN a : /\ Above(a[i], b[i])
                      /\ \A j \in DOMAIN a : j > i => a[j] = b[j]

(***************************************************************************)
(* BitSet<128>: two 64-bit lanes and shifts that stop at the lanes.        *)
(***************************************************************************)
\* slli_epi128 and srli_epi128; whole bytes move across the lanes.
Slli128(v, i) ==
  IF i % 8 = 0 THEN Shl(v, i, 128)
  ELSE IF i > 64 THEN LaneShl(Shl(v, 64, 128), i - 64, 64)
  ELSE LaneShr(Shl(v, 64, 128), 64 - i, 64) \cup LaneShl(v, i, 64)
Srli128(v, i) ==
  IF i % 8 = 0 THEN Shr(v, i)
  ELSE IF i > 64 THEN LaneShr(Shr(v, 64), i - 64, 64)
  ELSE LaneShl(Shr(v, 64), 64 - i, 64) \cup LaneShr(v, i, 64)

\* The bytes in reverse order, then the bits of each byte by masks that
\* repeat in every byte; the shifts are those of 16-bit lanes.
Reverse128(v) ==
  LET Half(u, k) == LaneShl(u \ Mask(k, 128), k, 16) \cup LaneShr(u \cap Mask(k, 128), k, 16)
      bytes == {8 * (15 - (p \div 8)) + (p % 8) : p \in v}
  IN Half(Half(Half(bytes, 4), 2), 1)

Shl128(v, shift) ==
  LET shifted64 == Shl(v, 64, 128)
  IN IF shift < 64 THEN LaneShl(v, shift, 64) \cup LaneShr(shifted64, 64 - shift, 64)
     ELSE LaneShl(shifted64, shift % 64, 64)
Shr128(v, shift) ==
  LET shifted64 == Shr(v, 64)
  IN IF shift < 64 THEN LaneShr(v, shift, 64) \cup LaneShl(shifted64, 64 - shift, 64)
     ELSE LaneShr(shifted64, shift % 64, 64)

\* operator>: _mm_cmpgt_epi64 compares the two words (of w bits) as signed.
SignedAbove(a, b, w) ==
  IF (w - 1 \in a) = (w - 1 \in b) THEN Above(a, b) ELSE w - 1 \in b
Above128(a, b, w) ==
  \/ SignedAbove(a[1], b[1], w)
  \/ a[1] = b[1] /\ SignedAbove(a[0], b[0], w)
(***************************************************************************)
(* What the operations are for: positions below n, mirrored or moved.      *)
(***************************************************************************)
Upto(n)        == 0..(n - 1)
Mirror(v, n)   == {n - 1 - p : p \in v}
Moved(v, k, n) == {p + k : p \in v} \cap Upto(n)

\* For a set v of positions in n blocks of w bits.
BlockShiftLaws(n, w, v) ==
  LET d == Blocks(v, n, w)
  IN /\ Joined(d, w) = v
     /\ \A k \in 1..(n * w - 1) : /\ Joined(ShlBlocks(d, k, w), w) = Moved(v, k, n * w)
                                  /\ Joined(ShrBlocks(d, k, w), w) = Moved(v, -k, n * w)
     /\ v # {} => GetFirstOnBit(d, w) = Min(v) /\ GetLastOnBit(d, w) = Max(v)

\* For a set v of positions in the SSE register.
RegisterLaws(v) ==
  /\ Reverse128(v) = Mirror(v, 128)
  /\ \A k \in Upto(128) : /\ Shl128(v, k) = Moved(v, k, 128) /\ Slli128(v, k) = Moved(v, k, 128)
                          /\ Shr128(v, k) = Moved(v, -k, 128) /\ Srli128(v, k) = Moved(v, -k, 128)
=============================================================================
