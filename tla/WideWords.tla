------------------------------ MODULE WideWords ------------------------------
(***************************************************************************)
(* u192.h: the sums of p-coefficients outgrow a machine word, and are kept *)
(* as three of them, <<low, mid, high>>. A word has Word values, 2^64 in   *)
(* the code; TLC tries every pair of numbers for a small one.              *)
(***************************************************************************)
EXTENDS Integers

CONSTANT Word

ASSUME WordAssumption == Word \in Nat \ {0}

Words == 0 .. Word - 1
Bit(b) == IF b THEN 1 ELSE 0

\* u192 += u192: a sum that wrapped around is smaller than what was added.
AddWide(a, b) ==
  LET low  == (a[1] + b[1]) % Word
      mid  == (a[2] + b[2] + Bit(low < b[1])) % Word
      high == (a[3] + b[3] + Bit(mid < b[2])) % Word
  IN <<low, mid, high>>

\* u192 += uint64_t.
AddWord(a, b) ==
  LET low == (a[1] + b) % Word
      mid == (a[2] + Bit(low < b)) % Word
  IN <<low, mid, (a[3] + Bit(mid = 0 /\ low < b)) % Word>>

\* umul192: two 128-bit products, overlapping in the middle word.
MulWide(a, b) ==
  LET lowMid  == (a % Word) * b
      midHigh == (a \div Word) * b
      mid     == ((lowMid \div Word) + (midHigh % Word)) % Word
  IN <<lowMid % Word, mid, (midHigh \div Word) + Bit(mid < lowMid \div Word)>>

Value(a) == a[1] + Word * a[2] + Word * Word * a[3]
AsWide(k) == <<k % Word, (k \div Word) % Word, (k \div (Word * Word)) % Word>>
WideNumbers == 0 .. Word * Word * Word - 1

\* The carry of the middle word is lost when a's middle word is all ones and the
\* low words carry, because mid is then b's mid and not smaller than it.
CarryLost(a, b) == a[2] = Word - 1 /\ a[1] + b[1] >= Word

\* Products and sums are exact (modulo 2^192), but for the lost carry.
WideWordLaws(k) ==
  LET a == AsWide(k)
      all == Word * Word * Word
  IN /\ Value(a) = k
     /\ \A j \in WideNumbers :
          LET lost == Bit(CarryLost(a, AsWide(j))) * (Word * Word)
          IN Value(AddWide(a, AsWide(j))) = (k + j - lost) % all
     /\ \A b \in Words : /\ Value(AddWord(a, b)) = (k + b) % all
                         /\ k < Word * Word => Value(MulWide(k, b)) = k * b
=============================================================================
