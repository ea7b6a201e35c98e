----------------------------- MODULE WordProofs -----------------------------
(***************************************************************************)
(* Theorems about words: the arithmetic of three words for every size of a *)
(* word, and the bit sets' shifts, mirrors and orders for every set, every *)
(* width and every number of blocks.                                       *)
(***************************************************************************)
EXTENDS WordShifts, WideWords, FiniteSetTheorems, WellFoundedInduction, TLAPS

(***************************************************************************)
(* Division. The prover knows the quotient and remainder of a number; that *)
(* they are unique is what all proofs about carries and places need.       *)
(***************************************************************************)
\* Quotient and remainder are what the division gives, and nothing else is.
LEMMA DivModIs ==
  ASSUME NEW m \in Nat \ {0}, NEW q \in Int, NEW r \in Int, 0 <= r, r < m
  PROVE  (m * q + r) % m = r /\ (m * q + r) \div m = q
<1> DEFINE x == m * q + r
           d == x \div m
           e == x % m
<1>1. x \in Int
  OBVIOUS
<1>2. d \in Int /\ e \in Int /\ 0 <= e /\ e < m /\ x = m * d + e
  BY <1>1
<1>3. m * (q - d) = e - r
  BY <1>2
<1>4. q = d
  <2>1. CASE q - d >= 1
    <3>1. m * (q - d) >= m
      BY <2>1, <1>2
    <3> QED
      BY <3>1, <1>3, <1>2
  <2>2. CASE q - d <= -1
    <3>1. m * (q - d) <= -m
      BY <2>2, <1>2
    <3> QED
      BY <3>1, <1>3, <1>2
  <2> QED
    BY <2>1, <2>2, <1>2
<1> QED
  BY <1>2, <1>3, <1>4

LEMMA DivModOf ==
  ASSUME NEW m \in Nat \ {0}, NEW x \in Int
  PROVE  x % m \in 0 .. m - 1 /\ x \div m \in Int /\ x = m * (x \div m) + (x % m)
OBVIOUS

\* A position below m * n is in one of n parts of m.
LEMMA DividesWithin ==
  ASSUME NEW m \in Nat \ {0}, NEW n \in Nat, NEW x \in 0 .. m * n - 1
  PROVE  x \div m \in 0 .. n - 1
<1>1. x \in Int /\ 0 <= x /\ x < m * n
  <2>1. m * n \in Int
    OBVIOUS
  <2> QED
    BY <2>1
<1> DEFINE d == x \div m
           e == x % m
<1>2. e \in 0 .. m - 1 /\ d \in Int /\ x = m * d + e
  BY <1>1, DivModOf
<1> HIDE DEF d, e
<1>3. d >= 0
  <2>1. SUFFICES ASSUME d <= -1 PROVE FALSE
    BY <1>2
  <2>2. m * d <= -m
    BY <1>2, <2>1
  <2> QED
    BY <1>1, <1>2, <2>2
<1>4. d < n
  <2>1. SUFFICES ASSUME d >= n PROVE FALSE
    BY <1>2
  <2>2. m * d >= m * n
    BY <1>2, <2>1
  <2> QED
    BY <1>1, <1>2, <2>2
<1>5. d \in 0 .. n - 1
  BY <1>2, <1>3, <1>4
<1> QED
  BY <1>5 DEF d

(***************************************************************************)
(* u192.h: sums and products in three words. c1, c2, c3 are the carries of *)
(* the code's additions; each proof adds the three equations up.           *)
(***************************************************************************)
\* A sum of two words and a carry wraps around once at most.
LEMMA WrapsOnce ==
  ASSUME NEW s \in 0 .. 2 * Word - 1
  PROVE  s % Word = s - Word * Bit(s >= Word)
<1>1. Word \in Nat \ {0}
  BY WordAssumption
<1>2. CASE s >= Word
  <2>1. s - Word \in Int /\ 0 <= s - Word /\ s - Word < Word /\ s = Word * 1 + (s - Word)
    BY <1>1, <1>2
  <2>2. (Word * 1 + (s - Word)) % Word = s - Word
    BY <1>1, <2>1, DivModIs
  <2> QED
    BY <1>1, <1>2, <2>1, <2>2 DEF Bit
<1>3. CASE s < Word
  <2>1. s \in Int /\ 0 <= s /\ s = Word * 0 + s
    BY <1>1
  <2>2. (Word * 0 + s) % Word = s
    BY <1>1, <1>3, <2>1, DivModIs
  <2> QED
    BY <1>1, <1>3, <2>1, <2>2 DEF Bit
<1> QED
  BY <1>1, <1>2, <1>3

\* Three words hold a number below Word^3 ...
LEMMA ValueInRange ==
  ASSUME NEW l \in Words, NEW m \in Words, NEW h \in Words
  PROVE  l + Word * m + Word * Word * h \in WideNumbers
<1>1. Word \in Nat \ {0}
  BY WordAssumption
<1>2. l \in Nat /\ m \in Nat /\ h \in Nat /\ l <= Word - 1 /\ m <= Word - 1 /\ h <= Word - 1
  BY <1>1 DEF Words
<1>3. Word * m <= Word * (Word - 1) /\ Word * m >= 0
  BY <1>1, <1>2
<1>4. Word * Word * h <= Word * Word * (Word - 1) /\ Word * Word * h >= 0
  <2>1. Word * Word \in Nat
    BY <1>1
  <2> QED
    BY <2>1, <1>1, <1>2
<1>5. l + Word * m + Word * Word * h <= (Word - 1) + Word * (Word - 1) + Word * Word * (Word - 1)
  BY <1>1, <1>2, <1>3, <1>4
<1>6. (Word - 1) + Word * (Word - 1) + Word * Word * (Word - 1) = Word * Word * Word - 1
  BY <1>1
<1>7. l + Word * m + Word * Word * h \in Int /\ l + Word * m + Word * Word * h >= 0
  BY <1>1, <1>2, <1>3, <1>4
<1>8. Word * Word * Word \in Int
  BY <1>1
<1> QED
  BY <1>5, <1>6, <1>7, <1>8 DEF WideNumbers

\* ... and the number below Word^3 that differs from s by a multiple of it is s modulo it.
LEMMA WideMod ==
  ASSUME NEW v \in WideNumbers, NEW s \in Int, NEW q \in Int,
         s = v + Word * Word * Word * q
  PROVE  v = s % (Word * Word * Word)
<1>1. Word * Word * Word \in Nat \ {0}
  BY WordAssumption
<1>2. v \in Int /\ 0 <= v /\ v < Word * Word * Word
  BY <1>1 DEF WideNumbers
<1> HIDE DEF WideNumbers
<1>3. ((Word * Word * Word) * q + v) % (Word * Word * Word) = v
  BY <1>1, <1>2, DivModIs
<1>4. s = (Word * Word * Word) * q + v
  BY <1>1, <1>2
<1> QED
  BY <1>3, <1>4

\* u192 += u192 (u192.h:115): for every word size the sum is exact modulo
\* Word^3, but for the lost carry: nothing else can go wrong with the test sum < addend.
THEOREM AddWideExact ==
  ASSUME NEW a \in Words \X Words \X Words, NEW b \in Words \X Words \X Words
  PROVE  Value(AddWide(a, b)) =
           (Value(a) + Value(b) - Bit(CarryLost(a, b)) * (Word * Word)) % (Word * Word * Word)
<1> DEFINE s1 == a[1] + b[1]
           low == s1 % Word
           c1 == Bit(s1 >= Word)
           s2 == a[2] + b[2] + c1
           mid == s2 % Word
           c2 == Bit(s2 >= Word)
           k == Bit(mid < b[2])
           s3 == a[3] + b[3] + k
           high == s3 % Word
           c3 == Bit(s3 >= Word)
           lost == Bit(CarryLost(a, b))
<1>1. Word \in Nat \ {0}
  BY WordAssumption
<1>2. /\ a[1] \in Words /\ a[2] \in Words /\ a[3] \in Words
      /\ b[1] \in Words /\ b[2] \in Words /\ b[3] \in Words
  OBVIOUS
<1>3. low = s1 - Word * c1 /\ c1 \in {0, 1} /\ Bit(low < b[1]) = c1
  <2>1. s1 \in 0 .. 2 * Word - 1
    BY <1>1, <1>2 DEF Words
  <2>2. low = s1 - Word * c1
    BY <2>1, WrapsOnce
  <2>3. CASE s1 >= Word
    BY <1>1, <1>2, <2>2, <2>3 DEF Bit, Words
  <2>4. CASE s1 < Word
    BY <1>1, <1>2, <2>2, <2>4 DEF Bit, Words
  <2> QED
    BY <1>1, <1>2, <2>3, <2>4 DEF Words
<1>4. mid = s2 - Word * c2 /\ c2 \in {0, 1} /\ k = c2 - lost /\ lost \in {0, 1} /\ k \in {0, 1}
  <2>0. c1 \in {0, 1}
    BY <1>3
  <2>1. s2 \in 0 .. 2 * Word - 1
    <3> HIDE DEF c1
    <3> QED
      BY <1>1, <1>2, <2>0 DEF Words
  <2>2. mid = s2 - Word * c2
    <3> HIDE DEF s2
    <3> QED
      BY <2>1, WrapsOnce
  <2>3. (CarryLost(a, b) <=> a[2] = Word - 1 /\ c1 = 1) /\ (CarryLost(a, b) \in BOOLEAN)
    BY <1>1, <1>2 DEF CarryLost, Bit, Words
  <2> HIDE DEF c1
  <2>4. CASE s2 >= Word
    <3>1. c2 = 1 /\ mid = s2 - Word
      BY <2>4, <2>2, <1>1 DEF Bit
    <3>2. mid < b[2] <=> ~(a[2] = Word - 1 /\ c1 = 1)
      BY <3>1, <1>1, <1>2, <2>0 DEF Words
    <3> QED
      BY <3>1, <3>2, <2>3, <2>2 DEF Bit
  <2>5. CASE s2 < Word
    <3>1. c2 = 0 /\ mid = s2
      BY <2>5, <2>2, <2>1, <1>1 DEF Bit
    <3>2. ~(mid < b[2]) /\ ~(a[2] = Word - 1 /\ c1 = 1)
      BY <2>5, <3>1, <1>1, <1>2, <2>0 DEF Words
    <3> QED
      BY <3>1, <3>2, <2>3, <2>2 DEF Bit
  <2> QED
    BY <2>1, <2>4, <2>5, <1>1
<1>5. high = s3 - Word * c3 /\ c3 \in {0, 1}
  <2>0. k \in {0, 1}
    BY <1>4
  <2>1. s3 \in 0 .. 2 * Word - 1
    <3> HIDE DEF k
    <3> QED
      BY <1>1, <1>2, <2>0 DEF Words
  <2> HIDE DEF s3
  <2>2. high = s3 - Word * c3
    BY <2>1, WrapsOnce
  <2> QED
    BY <2>2 DEF Bit
<1>6. AddWide(a, b) = <<low, mid, high>>
  <2>1. AddWide(a, b) = <<low, (a[2] + b[2] + Bit(low < b[1])) % Word, 
                        (a[3] + b[3] + Bit((a[2] + b[2] + Bit(low < b[1])) % Word < b[2])) % Word>>
    BY DEF AddWide
  <2> QED
    BY <2>1, <1>3
<1>7. low \in Words /\ mid \in Words /\ high \in Words
  <2>1. s1 \in Int /\ s2 \in Int /\ s3 \in Int
    <3>1. c1 \in Int /\ k \in Int
      BY DEF Bit
    <3> HIDE DEF c1, k
    <3> QED
      BY <1>1, <1>2, <3>1 DEF Words
  <2> HIDE DEF s1, s2, s3
  <2> QED
    BY <2>1, <1>1 DEF Words
<1> DEFINE v == low + Word * mid + Word * Word * high
<1>8. v \in WideNumbers
  <2> HIDE DEF low, mid, high
  <2> QED
    BY <1>7, ValueInRange
<1>9. Value(a) + Value(b) - lost * (Word * Word) = v + Word * Word * Word * c3
  <2>1. /\ a[1] \in Int /\ a[2] \in Int /\ a[3] \in Int
        /\ b[1] \in Int /\ b[2] \in Int /\ b[3] \in Int
        /\ c1 \in Int /\ c2 \in Int /\ c3 \in Int /\ lost \in Int /\ Word \in Int
    BY <1>1, <1>2, <1>3, <1>4, <1>5 DEF Words
  <2>2. /\ low = a[1] + b[1] - Word * c1
        /\ mid = a[2] + b[2] + c1 - Word * c2
        /\ high = a[3] + b[3] + c2 - lost - Word * c3
    <3>1. s3 = a[3] + b[3] + (c2 - lost)
      BY <1>4
    <3>2. high = s3 - Word * c3 /\ mid = s2 - Word * c2 /\ low = s1 - Word * c1
      BY <1>3, <1>4, <1>5
    <3> HIDE DEF c1, c2, c3, lost, low, mid, high
    <3> QED
      BY <3>1, <3>2, <2>1
  <2>3. /\ Value(a) = a[1] + Word * a[2] + Word * Word * a[3]
        /\ Value(b) = b[1] + Word * b[2] + Word * Word * b[3]
    BY DEF Value
  <2> HIDE DEF c1, c2, c3, lost, low, mid, high
  <2> QED
    BY <2>1, <2>2, <2>3, SMTT(60)
<1>10. Value(a) + Value(b) - lost * (Word * Word) \in Int /\ c3 \in Int
  BY <1>1, <1>2 DEF Value, Words, Bit
<1>11. v = (Value(a) + Value(b) - lost * (Word * Word)) % (Word * Word * Word)
  <2> HIDE DEF v, lost, c3
  <2> QED
    BY <1>8, <1>9, <1>10, WideMod
<1>12. Value(AddWide(a, b)) = v
  <2> HIDE DEF low, mid, high
  <2> QED
    BY <1>6 DEF Value
<1> QED
  BY <1>11, <1>12

\* u192 += uint64_t (u192.h:136): the carry test through a zero middle word loses nothing.
THEOREM AddWordExact ==
  ASSUME NEW a \in Words \X Words \X Words, NEW b \in Words
  PROVE  Value(AddWord(a, b)) = (Value(a) + b) % (Word * Word * Word)
<1> DEFINE s1 == a[1] + b
           low == s1 % Word
           c1 == Bit(s1 >= Word)
           s2 == a[2] + c1
           mid == s2 % Word
           c2 == Bit(s2 >= Word)
           k == Bit(mid = 0 /\ low < b)
           s3 == a[3] + k
           high == s3 % Word
           c3 == Bit(s3 >= Word)
<1>1. Word \in Nat \ {0}
  BY WordAssumption
<1>2. a[1] \in Words /\ a[2] \in Words /\ a[3] \in Words
  OBVIOUS
<1>3. low = s1 - Word * c1 /\ c1 \in {0, 1} /\ Bit(low < b) = c1 /\ (low < b <=> c1 = 1)
  <2>1. s1 \in 0 .. 2 * Word - 1
    BY <1>1, <1>2 DEF Words
  <2>2. low = s1 - Word * c1
    BY <2>1, WrapsOnce
  <2>3. CASE s1 >= Word
    BY <1>1, <1>2, <2>2, <2>3 DEF Bit, Words
  <2>4. CASE s1 < Word
    BY <1>1, <1>2, <2>2, <2>4 DEF Bit, Words
  <2> QED
    BY <1>1, <1>2, <2>3, <2>4 DEF Words
<1>4. mid = s2 - Word * c2 /\ c2 \in {0, 1} /\ k = c2
  <2>0. c1 \in {0, 1} /\ (low < b <=> c1 = 1)
    BY <1>3
  <2> HIDE DEF c1, low
  <2>1. s2 \in 0 .. 2 * Word - 1
    BY <1>1, <1>2, <2>0 DEF Words
  <2>2. mid = s2 - Word * c2
    <3> HIDE DEF s2
    <3> QED
      BY <2>1, WrapsOnce
  <2>3. CASE s2 >= Word
    <3>1. c2 = 1 /\ mid = s2 - Word
      BY <2>3, <2>2, <1>1 DEF Bit
    <3>2. mid = 0 /\ low < b
      BY <2>3, <3>1, <1>1, <1>2, <2>0 DEF Words
    <3> QED
      BY <3>1, <3>2, <2>2 DEF Bit
  <2>4. CASE s2 < Word
    <3>1. c2 = 0 /\ mid = s2
      BY <2>4, <2>2, <2>1, <1>1 DEF Bit
    <3>2. ~(mid = 0 /\ low < b)
      BY <3>1, <1>1, <1>2, <2>0 DEF Words
    <3> QED
      BY <3>1, <3>2, <2>2 DEF Bit
  <2> QED
    BY <2>1, <2>3, <2>4, <1>1
<1>5. high = s3 - Word * c3 /\ c3 \in {0, 1}
  <2>0. k \in {0, 1}
    BY <1>4
  <2>1. s3 \in 0 .. 2 * Word - 1
    <3> HIDE DEF k
    <3> QED
      BY <1>1, <1>2, <2>0 DEF Words
  <2> HIDE DEF s3
  <2>2. high = s3 - Word * c3
    BY <2>1, WrapsOnce
  <2> QED
    BY <2>2 DEF Bit
<1>6. AddWord(a, b) = <<low, mid, high>>
  <2>1. AddWord(a, b) = <<low, (a[2] + Bit(low < b)) % Word,
                          (a[3] + Bit((a[2] + Bit(low < b)) % Word = 0 /\ low < b)) % Word>>
    BY DEF AddWord
  <2> QED
    BY <2>1, <1>3
<1>7. low \in Words /\ mid \in Words /\ high \in Words
  <2>1. s1 \in Int /\ s2 \in Int /\ s3 \in Int
    <3>1. c1 \in Int /\ k \in Int
      BY DEF Bit
    <3> HIDE DEF c1, k
    <3> QED
      BY <1>1, <1>2, <3>1 DEF Words
  <2> HIDE DEF s1, s2, s3
  <2> QED
    BY <2>1, <1>1 DEF Words
<1> DEFINE v == low + Word * mid + Word * Word * high
<1>8. v \in WideNumbers
  <2> HIDE DEF low, mid, high
  <2> QED
    BY <1>7, ValueInRange
<1>9. Value(a) + b = v + Word * Word * Word * c3
  <2>1. /\ a[1] \in Int /\ a[2] \in Int /\ a[3] \in Int /\ b \in Int
        /\ c1 \in Int /\ c2 \in Int /\ c3 \in Int /\ Word \in Int
    <3>1. c1 \in Int /\ c2 \in Int /\ c3 \in Int
      BY DEF Bit
    <3> QED
      BY <3>1, <1>1, <1>2 DEF Words
  <2>2. /\ low = a[1] + b - Word * c1
        /\ mid = a[2] + c1 - Word * c2
        /\ high = a[3] + c2 - Word * c3
    <3>1. s3 = a[3] + c2
      BY <1>4
    <3>2. high = s3 - Word * c3 /\ mid = s2 - Word * c2 /\ low = s1 - Word * c1
      BY <1>3, <1>4, <1>5
    <3> HIDE DEF c1, c2, c3, low, mid, high
    <3> QED
      BY <3>1, <3>2, <2>1
  <2>3. Value(a) = a[1] + Word * a[2] + Word * Word * a[3]
    BY DEF Value
  <2> HIDE DEF c1, c2, c3, low, mid, high
  <2> QED
    BY <2>1, <2>2, <2>3, SMTT(60)
<1>10. Value(a) + b \in Int /\ c3 \in Int
  BY <1>1, <1>2 DEF Value, Words, Bit
<1>11. v = (Value(a) + b) % (Word * Word * Word)
  <2> HIDE DEF v, c3
  <2> QED
    BY <1>8, <1>9, <1>10, WideMod
<1>12. Value(AddWord(a, b)) = v
  <2> HIDE DEF low, mid, high
  <2> QED
    BY <1>6 DEF Value
<1> QED
  BY <1>11, <1>12

\* umul192 (u192.h:53): the overlapping products add up; the high word never overflows.
THEOREM MulWideExact ==
  ASSUME NEW a \in 0 .. Word * Word - 1, NEW b \in Words
  PROVE  Value(MulWide(a, b)) = a * b
<1> DEFINE al == a % Word
           ah == a \div Word
           p == al * b
           q == ah * b
           s == (p \div Word) + (q % Word)
           mid == s % Word
           c == Bit(s >= Word)
           k == Bit(mid < p \div Word)
<1>1. Word \in Nat \ {0} /\ a \in Int /\ b \in Int /\ 0 <= b /\ b < Word
  <2>1. Word * Word \in Int
    BY WordAssumption
  <2> QED
    BY <2>1, WordAssumption DEF Words
<1>2. al \in Int /\ 0 <= al /\ al < Word /\ ah \in Int /\ a = Word * ah + al
  <2>1. al \in 0 .. Word - 1 /\ ah \in Int /\ a = Word * ah + al
    BY <1>1, DivModOf
  <2> QED
    BY <2>1, <1>1
<1> HIDE DEF al, ah
<1>3. p \in 0 .. Word * Word - 1 /\ p \in Int /\ q \in Int
  <2>1. p \in Int /\ q \in Int /\ 0 <= p
    BY <1>1, <1>2
  <2>2. p <= Word * b
    BY <1>1, <1>2
  <2>3. Word * b <= Word * (Word - 1)
    BY <1>1
  <2>4. Word * (Word - 1) = Word * Word - Word /\ Word * Word \in Int /\ Word * b \in Int
    BY <1>1
  <2> HIDE DEF p, q
  <2> QED
    BY <2>1, <2>2, <2>3, <2>4, <1>1
<1> HIDE DEF p, q
<1>4. /\ p \div Word \in Int /\ 0 <= p \div Word /\ p \div Word < Word
      /\ p = Word * (p \div Word) + (p % Word) /\ p % Word \in Int
  <2>1. p \div Word \in 0 .. Word - 1
    BY <1>1, <1>3, DividesWithin
  <2>2. p % Word \in 0 .. Word - 1 /\ p = Word * (p \div Word) + (p % Word)
    BY <1>1, <1>3, DivModOf
  <2> QED
    BY <2>1, <2>2, <1>1
<1>5. /\ q % Word \in Int /\ 0 <= q % Word /\ q % Word < Word /\ q \div Word \in Int
      /\ q = Word * (q \div Word) + (q % Word)
  <2>1. q % Word \in 0 .. Word - 1 /\ q \div Word \in Int /\ q = Word * (q \div Word) + (q % Word)
    BY <1>1, <1>3, DivModOf
  <2> QED
    BY <2>1, <1>1
<1> DEFINE ph == p \div Word
           pl == p % Word
           qh == q \div Word
           ql == q % Word
<1>6. mid = s - Word * c /\ k = c /\ c \in {0, 1}
  <2>0. ph \in Int /\ 0 <= ph /\ ph < Word /\ ql \in Int /\ 0 <= ql /\ ql < Word /\ s = ph + ql
    BY <1>4, <1>5
  <2>1. s \in 0 .. 2 * Word - 1
    <3> HIDE DEF ph, ql, s
    <3> QED
      BY <1>1, <2>0
  <2> HIDE DEF s
  <2>2. mid = s - Word * c
    BY <2>1, WrapsOnce
  <2> HIDE DEF mid
  <2>3. CASE s >= Word
    <3>1. c = 1 /\ mid = s - Word
      BY <2>3, <2>2, <1>1 DEF Bit
    <3>2. mid < ph
      <4> HIDE DEF ph, ql
      <4> QED
        BY <3>1, <1>1, <2>0
    <3> QED
      BY <3>1, <3>2, <2>2 DEF Bit
  <2>4. CASE s < Word
    <3>1. c = 0 /\ mid = s
      BY <2>4, <2>2, <2>1, <1>1 DEF Bit
    <3>2. ~(mid < ph)
      <4> HIDE DEF ph, ql
      <4> QED
        BY <3>1, <1>1, <2>0
    <3> QED
      BY <3>1, <3>2, <2>2 DEF Bit
  <2> QED
    BY <2>1, <2>3, <2>4, <1>1
<1>7. MulWide(a, b) = <<pl, mid, qh + k>>
  BY DEF MulWide, al, ah, p, q
<1>8. Value(MulWide(a, b)) = pl + Word * mid + Word * Word * (qh + k)
  <2> HIDE DEF pl, mid, qh, k
  <2> QED
    BY <1>7 DEF Value
<1>9. /\ pl \in Int /\ ph \in Int /\ ql \in Int /\ qh \in Int /\ c \in Int
      /\ p = Word * ph + pl /\ q = Word * qh + ql /\ mid = (ph + ql) - Word * c /\ k = c
      /\ p = al * b /\ q = ah * b
  <2>1. p = al * b /\ q = ah * b
    BY DEF p, q
  <2>2. s = ph + ql
    OBVIOUS
  <2>3. /\ ph \in Int /\ pl \in Int /\ ql \in Int /\ qh \in Int
        /\ p = Word * ph + pl /\ q = Word * qh + ql
    BY <1>4, <1>5
  <2>4. c \in Int /\ mid = s - Word * c /\ k = c
    <3>1. c \in {0, 1} /\ mid = s - Word * c /\ k = c
      BY <1>6
    <3> HIDE DEF c, mid, k, s
    <3> QED
      BY <3>1
  <2> HIDE DEF pl, ph, ql, qh, c, k, mid, s
  <2>5. mid = (ph + ql) - Word * c
    BY <2>2, <2>4
  <2> QED
    BY <2>1, <2>3, <2>4, <2>5
<1> HIDE DEF pl, ph, ql, qh, c, k, mid, s
<1>10. pl + Word * mid + Word * Word * (qh + k) = p + Word * q
  BY <1>1, <1>9
<1>11. p + Word * q = a * b
  BY <1>1, <1>2, <1>9
<1> QED
  BY <1>8, <1>10, <1>11

\* The three words of a number are words, and have its value.
LEMMA AsWideExact ==
  ASSUME NEW k \in WideNumbers
  PROVE  AsWide(k) \in Words \X Words \X Words /\ Value(AsWide(k)) = k
<1>1. Word \in Nat \ {0} /\ Word * Word \in Nat \ {0} /\ Word * Word * Word \in Int
  BY WordAssumption
<1>2. k \in Int /\ k \in 0 .. (Word * Word) * Word - 1
  BY <1>1 DEF WideNumbers
<1> DEFINE d == k \div Word
           e == k % Word
           d2 == d \div Word
           e2 == d % Word
           h == k \div (Word * Word)
<1>3. e \in 0 .. Word - 1 /\ d \in Int /\ k = Word * d + e
  BY <1>1, <1>2, DivModOf
<1>4. e2 \in 0 .. Word - 1 /\ d2 \in Int /\ d = Word * d2 + e2
  <2> HIDE DEF d
  <2> QED
    BY <1>1, <1>3, DivModOf
<1>5. h \in 0 .. Word - 1
  BY <1>1, <1>2, DividesWithin
<1> HIDE DEF d, e, d2, e2
<1>6. h = d2
  <2>1. k = (Word * Word) * d2 + (Word * e2 + e)
    BY <1>1, <1>3, <1>4
  <2>2. Word * e2 + e \in Int /\ 0 <= Word * e2 + e /\ Word * e2 + e < Word * Word
    <3>1. Word * e2 <= Word * (Word - 1) /\ 0 <= Word * e2 /\ Word * e2 \in Int
      BY <1>1, <1>4
    <3>2. Word * (Word - 1) = Word * Word - Word
      BY <1>1
    <3> QED
      BY <3>1, <3>2, <1>1, <1>3
  <2>3. ((Word * Word) * d2 + (Word * e2 + e)) \div (Word * Word) = d2
    <3> DEFINE m == Word * Word
               r == Word * e2 + e
    <3>1. m \in Nat \ {0} /\ d2 \in Int /\ r \in Int /\ 0 <= r /\ r < m
      BY <1>1, <1>4, <2>2
    <3> HIDE DEF m, r
    <3>2. (m * d2 + r) \div m = d2
      BY <3>1, DivModIs
    <3> QED
      BY <3>2 DEF m, r
  <2> QED
    BY <2>1, <2>3
<1>7. h % Word = h
  <2> HIDE DEF h
  <2>1. h \in 0 .. 2 * Word - 1 /\ ~(h >= Word) /\ h \in Int
    BY <1>1, <1>5
  <2>2. h % Word = h - Word * Bit(h >= Word)
    BY <2>1, WrapsOnce
  <2> QED
    BY <2>1, <2>2, <1>1 DEF Bit
<1>8. AsWide(k) = <<e, e2, h>>
  BY <1>7 DEF AsWide, d, e, e2
<1> HIDE DEF h
<1>9. AsWide(k) \in Words \X Words \X Words
  BY <1>3, <1>4, <1>5, <1>8 DEF Words
<1>10. Value(AsWide(k)) = e + Word * e2 + Word * Word * d2
  BY <1>8, <1>6 DEF Value
<1>11. e + Word * e2 + Word * Word * d2 = k
  <2>1. e \in Int /\ e2 \in Int
    BY <1>1, <1>3, <1>4
  <2> QED
    BY <2>1, <1>1, <1>3, <1>4
<1> QED
  BY <1>9, <1>10, <1>11

\* What the run algorithms checks of u192 for words of four values
\* (FlatAgrees) holds for words of every size, those of 64 bits included.
THEOREM WideWordLawsHold == \A k \in WideNumbers : WideWordLaws(k)
<1> TAKE k \in WideNumbers
<1> DEFINE a == AsWide(k)
           all == Word * Word * Word
           lost(j) == Bit(CarryLost(a, AsWide(j))) * (Word * Word)
<1>1. a \in Words \X Words \X Words /\ Value(a) = k
  BY AsWideExact
<1> HIDE DEF a
<1>2. \A j \in WideNumbers : Value(AddWide(a, AsWide(j))) = (k + j - lost(j)) % all
  <2> TAKE j \in WideNumbers
  <2>1. AsWide(j) \in Words \X Words \X Words /\ Value(AsWide(j)) = j
    BY AsWideExact
  <2> DEFINE b == AsWide(j)
  <2> HIDE DEF b
  <2>2. b \in Words \X Words \X Words /\ Value(b) = j
    BY <2>1 DEF b
  <2>3. Value(AddWide(a, b)) =
           (Value(a) + Value(b) - Bit(CarryLost(a, b)) * (Word * Word)) % (Word * Word * Word)
    BY <1>1, <2>2, AddWideExact
  <2> QED
    BY <2>2, <2>3, <1>1 DEF b
<1>3. \A b \in Words : /\ Value(AddWord(a, b)) = (k + b) % all
                       /\ k < Word * Word => Value(MulWide(k, b)) = k * b
  <2> TAKE b \in Words
  <2>1. Value(AddWord(a, b)) = (k + b) % all
    BY <1>1, AddWordExact
  <2>2. ASSUME k < Word * Word PROVE Value(MulWide(k, b)) = k * b
    <3>1. k \in 0 .. Word * Word - 1
      BY <2>2, WordAssumption DEF WideNumbers
    <3> QED
      BY <3>1, MulWideExact
  <2> QED
    BY <2>1, <2>2
<1> QED
  BY <1>1, <1>2, <1>3 DEF WideWordLaws, a

(***************************************************************************)
(* bitSet.h, the generic class: a position p is at p % w in block p \div w. *)
(***************************************************************************)
\* Where a position is, and what a block holds.
LEMMA UniquePlace ==
  ASSUME NEW w \in Nat \ {0}, NEW i \in Int, NEW p \in Int
  PROVE  p \div w = i <=> p - i * w \in 0 .. w - 1
<1>1. ASSUME p \div w = i PROVE p - i * w \in 0 .. w - 1
  <2>1. p % w \in 0 .. w - 1 /\ p = w * i + (p % w)
    BY <1>1, DivModOf
  <2> QED
    BY <2>1
<1>2. ASSUME p - i * w \in 0 .. w - 1 PROVE p \div w = i
  <2> DEFINE r == p - i * w
  <2>1. r \in Int /\ 0 <= r /\ r < w /\ p = w * i + r
    BY <1>2
  <2> HIDE DEF r
  <2>2. (w * i + r) \div w = i
    BY <2>1, DivModIs
  <2> QED
    BY <2>1, <2>2
<1> QED
  BY <1>1, <1>2

LEMMA InBlock ==
  ASSUME NEW w \in Nat \ {0}, NEW i \in Int, NEW v \in SUBSET Nat, NEW q
  PROVE  q \in Block(v, i, w) <=> q \in 0 .. w - 1 /\ q + i * w \in v
<1>1. ASSUME q \in Block(v, i, w) PROVE q \in 0 .. w - 1 /\ q + i * w \in v
  <2>1. PICK p \in v : p \div w = i /\ q = p - i * w
    BY <1>1 DEF Block
  <2>2. p \in Int /\ p - i * w \in 0 .. w - 1
    BY <2>1, UniquePlace
  <2>3. q + i * w = p
    BY <2>1, <2>2
  <2> QED
    BY <2>1, <2>2, <2>3
<1>2. ASSUME q \in 0 .. w - 1, q + i * w \in v PROVE q \in Block(v, i, w)
  <2> DEFINE p == q + i * w
  <2>1. p \in Int /\ p - i * w = q
    BY <1>2
  <2> HIDE DEF p
  <2>2. p \div w = i
    BY <1>2, <2>1, UniquePlace
  <2>3. p \in v
    BY <1>2 DEF p
  <2> QED
    BY <2>1, <2>2, <2>3 DEF Block
<1> QED
  BY <1>1, <1>2

\* Blocks that hold a set's positions part by part are that set.
LEMMA JoinedIs ==
  ASSUME NEW w \in Nat \ {0}, NEW n \in Nat, NEW t \in SUBSET Upto(n * w),
         NEW d, DOMAIN d = 0 .. n - 1,
         \A i \in 0 .. n - 1 : \A q : q \in d[i] <=> q \in 0 .. w - 1 /\ q + i * w \in t
  PROVE  Joined(d, w) = t
<1>1. ASSUME NEW p \in Joined(d, w) PROVE p \in t
  <2>1. PICK i \in 0 .. n - 1 : p \in {q + i * w : q \in d[i]}
    BY <1>1 DEF Joined
  <2>2. PICK q \in d[i] : p = q + i * w
    BY <2>1
  <2> QED
    BY <2>2
<1>2. ASSUME NEW p \in t PROVE p \in Joined(d, w)
  <2>0. n * w \in Int
    OBVIOUS
  <2>1. p \in Int /\ p \in 0 .. w * n - 1
    BY <2>0 DEF Upto
  <2> DEFINE i == p \div w
             q == p % w
  <2>2. i \in 0 .. n - 1
    BY <2>1, DividesWithin
  <2>3. q \in 0 .. w - 1 /\ p = w * i + q
    BY <2>1, DivModOf
  <2> HIDE DEF i, q
  <2>4. q + i * w = p
    BY <2>2, <2>3
  <2>5. q \in d[i]
    BY <2>2, <2>3, <2>4
  <2>6. p \in {x + i * w : x \in d[i]}
    BY <2>4, <2>5
  <2> QED
    BY <2>2, <2>6 DEF Joined
<1> QED
  BY <1>1, <1>2

\* Cutting a set into blocks loses nothing.
THEOREM BlocksHoldTheSet ==
  ASSUME NEW n \in Nat, NEW w \in Nat \ {0}, NEW v \in SUBSET Upto(n * w)
  PROVE  Joined(Blocks(v, n, w), w) = v
<1>1. v \in SUBSET Nat
  BY DEF Upto
<1> DEFINE d == Blocks(v, n, w)
<1>2. DOMAIN d = 0 .. n - 1 /\ \A i \in 0 .. n - 1 : d[i] = Block(v, i, w)
  BY DEF Blocks
<1>3. \A i \in 0 .. n - 1 : \A q : q \in d[i] <=> q \in 0 .. w - 1 /\ q + i * w \in v
  <2> HIDE DEF d
  <2> QED
    BY <1>1, <1>2, InBlock
<1> HIDE DEF d
<1>4. Joined(d, w) = v
  BY <1>2, <1>3, JoinedIs
<1> QED
  BY <1>4 DEF d

\* Membership in what shifts give.
LEMMA MovedIs ==
  ASSUME NEW v \in SUBSET Nat, NEW k \in Int, NEW m \in Nat, NEW x \in Int
  PROVE  x \in Moved(v, k, m) <=> x \in 0 .. m - 1 /\ x - k \in v
<1>1. ASSUME x \in Moved(v, k, m) PROVE x \in 0 .. m - 1 /\ x - k \in v
  <2>1. PICK p \in v : x = p + k
    BY <1>1 DEF Moved
  <2>2. x - k = p
    BY <2>1
  <2> QED
    BY <1>1, <2>1, <2>2 DEF Moved, Upto
<1>2. ASSUME x \in 0 .. m - 1, x - k \in v PROVE x \in Moved(v, k, m)
  <2>1. x = (x - k) + k
    OBVIOUS
  <2> QED
    BY <1>2, <2>1 DEF Moved, Upto
<1> QED
  BY <1>1, <1>2

LEMMA InShl ==
  ASSUME NEW v \in SUBSET Int, NEW k \in Int, NEW w \in Int, NEW x \in Int
  PROVE  x \in Shl(v, k, w) <=> x - k \in v /\ x < w
<1>1. ASSUME x \in Shl(v, k, w) PROVE x - k \in v /\ x < w
  <2>1. PICK p \in v : p + k < w /\ x = p + k
    BY <1>1 DEF Shl
  <2>2. x - k = p
    BY <2>1
  <2> QED
    BY <2>1, <2>2
<1>2. ASSUME x - k \in v, x < w PROVE x \in Shl(v, k, w)
  <2>1. x = (x - k) + k
    OBVIOUS
  <2> QED
    BY <1>2, <2>1 DEF Shl
<1> QED
  BY <1>1, <1>2

LEMMA InShr ==
  ASSUME NEW v \in SUBSET Int, NEW k \in Int, NEW x \in Int
  PROVE  x \in Shr(v, k) <=> x + k \in v /\ x >= 0
<1>1. ASSUME x \in Shr(v, k) PROVE x + k \in v /\ x >= 0
  <2>1. PICK p \in v : p >= k /\ x = p - k
    BY <1>1 DEF Shr
  <2>2. x + k = p
    BY <2>1
  <2> QED
    BY <2>1, <2>2
<1>2. ASSUME x + k \in v, x >= 0 PROVE x \in Shr(v, k)
  <2>1. x = (x + k) - k /\ x + k >= k
    BY <1>2
  <2> QED
    BY <1>2, <2>1 DEF Shr
<1> QED
  BY <1>1, <1>2

\* operator<<= of the generic class (bitSet.h:300), for any number of blocks
\* of any width and any shift: bits cross from block to block and none is lost, doubled or
\* misplaced, also when the shift is a multiple of the width and the carry would be by all of it.
THEOREM BlocksShiftUp ==
  ASSUME NEW n \in Nat, NEW w \in Nat \ {0}, NEW v \in SUBSET Upto(n * w), NEW k \in Nat
  PROVE  Joined(ShlBlocks(Blocks(v, n, w), k, w), w) = Moved(v, k, n * w)
<1> DEFINE d == Blocks(v, n, w)
           off == k \div w
           rel == k % w
           From(i) == IF i \in DOMAIN d THEN d[i] ELSE {}
           e == ShlBlocks(d, k, w)
           t == Moved(v, k, n * w)
<1>1. v \in SUBSET Nat /\ n * w \in Nat
  BY DEF Upto
<1>2. DOMAIN d = 0 .. n - 1 /\ \A i \in 0 .. n - 1 : d[i] = Block(v, i, w)
  BY DEF Blocks
<1>3. rel \in 0 .. w - 1 /\ off \in Int /\ k = w * off + rel /\ off >= 0
  <2>1. rel \in 0 .. w - 1 /\ off \in Int /\ k = w * off + rel
    BY DivModOf
  <2> HIDE DEF rel, off
  <2>2. SUFFICES ASSUME off <= -1 PROVE FALSE
    BY <2>1
  <2>3. w * off <= -w
    BY <2>1, <2>2
  <2> QED
    BY <2>1, <2>3
<1>4. /\ DOMAIN e = 0 .. n - 1
      /\ \A i \in 0 .. n - 1 :
           e[i] = IF i < off THEN {}
                  ELSE IF rel = 0 THEN d[i - off]
                  ELSE Shl(d[i - off], rel, w) \cup Shr(From(i - off - 1), w - rel)
  <2> HIDE DEF d
  <2> QED
    BY <1>2 DEF ShlBlocks
<1> HIDE DEF d, e, off, rel
<1>5. \A i \in Int : \A q \in Int :
        q \in From(i) <=> i \in 0 .. n - 1 /\ q \in 0 .. w - 1 /\ q + i * w \in v
  BY <1>1, <1>2, InBlock
<1>6. \A i \in Int : From(i) \in SUBSET Int
  <2> TAKE i \in Int
  <2>1. CASE i \in 0 .. n - 1
    <3>1. From(i) = Block(v, i, w)
      BY <2>1, <1>2
    <3> QED
      BY <3>1, <1>1, InBlock
  <2>2. CASE i \notin 0 .. n - 1
    BY <2>2, <1>2
  <2> QED
    BY <2>1, <2>2
<1>7. \A p \in v : p >= 0 /\ p < n * w
  BY <1>1 DEF Upto
<1>8. ASSUME NEW i \in 0 .. n - 1, NEW q \in Int
      PROVE  q \in e[i] <=> q \in 0 .. w - 1 /\ q + i * w - k \in v
  <2>0. i \in Int /\ 0 <= i /\ i < n /\ rel \in Int /\ 0 <= rel /\ rel < w
    BY <1>3
  <2>1. CASE i < off
    <3>1. ASSUME q \in 0 .. w - 1 PROVE q + i * w - k \notin v
      <4>1. w * i <= w * (off - 1)
        BY <2>0, <2>1, <1>3
      <4>2. (q + i * w) - k < 0
        BY <3>1, <4>1, <2>0, <1>3
      <4> QED
        BY <4>2, <1>7, <2>0
    <3> QED
      BY <2>1, <1>4, <3>1
  <2>2. CASE i >= off
    <3>1. i - off \in 0 .. n - 1 /\ d[i - off] = From(i - off)
      BY <2>0, <2>2, <1>2, <1>3
    <3>2. CASE rel = 0
      <4>1. q + (i - off) * w = q + i * w - k
        BY <2>0, <3>2, <1>3
      <4>2. e[i] = From(i - off)
        <5>1. ~(i < off)
          BY <2>0, <2>2, <1>3
        <5> QED
          BY <5>1, <3>1, <3>2, <1>4
      <4> QED
        BY <4>1, <4>2, <3>1, <1>5
    <3>3. CASE rel # 0
      <4>1. e[i] = Shl(From(i - off), rel, w) \cup Shr(From(i - off - 1), w - rel)
        <5>1. ~(i < off)
          BY <2>0, <2>2, <1>3
        <5> QED
          BY <5>1, <3>1, <3>3, <1>4
      <4>2. q \in Shl(From(i - off), rel, w) <=> q - rel \in From(i - off) /\ q < w
        <5>1. From(i - off) \in SUBSET Int
          BY <1>6, <2>0, <1>3
        <5> HIDE DEF From
        <5> QED
          BY <5>1, <2>0, InShl
      <4>3. q \in Shr(From(i - off - 1), w - rel) <=> q + (w - rel) \in From(i - off - 1) /\ q >= 0
        <5>1. From(i - off - 1) \in SUBSET Int /\ w - rel \in Int
          BY <1>6, <2>0, <1>3
        <5> HIDE DEF From
        <5> QED
          BY <5>1, <2>0, InShr
      <4>4. q - rel \in From(i - off) <=> q - rel \in 0 .. w - 1 /\ q + i * w - k \in v
        <5>1. (q - rel) + (i - off) * w = q + i * w - k /\ q - rel \in Int /\ i - off \in Int
          BY <2>0, <1>3
        <5> HIDE DEF From
        <5> QED
          BY <5>1, <1>5, <3>1
      <4>5. q + (w - rel) \in From(i - off - 1)
              <=> /\ i - off - 1 \in 0 .. n - 1 /\ q + (w - rel) \in 0 .. w - 1
                  /\ q + i * w - k \in v
        <5>1. /\ (q + (w - rel)) + (i - off - 1) * w = q + i * w - k
              /\ q + (w - rel) \in Int /\ i - off - 1 \in Int
          BY <2>0, <1>3
        <5> HIDE DEF From
        <5> QED
          BY <5>1, <1>5
      <4>6. ASSUME q \in 0 .. w - 1, q < rel, q + i * w - k \in v PROVE i - off - 1 \in 0 .. n - 1
        <5>1. SUFFICES ASSUME i = off PROVE FALSE
          BY <2>0, <2>2, <1>3
        <5>2. (q + i * w) - k = q - rel
          BY <5>1, <2>0, <1>3
        <5> QED
          BY <4>6, <5>2, <1>7, <2>0
      <4>7. q - rel \in 0 .. w - 1 /\ q < w <=> q \in 0 .. w - 1 /\ ~(q < rel)
        BY <2>0
      <4>8. q + (w - rel) \in 0 .. w - 1 /\ q >= 0 <=> q \in 0 .. w - 1 /\ q < rel
        BY <2>0
      <4> HIDE DEF From
      <4> QED
        BY <4>1, <4>2, <4>3, <4>4, <4>5, <4>6, <4>7, <4>8
    <3> QED
      BY <3>2, <3>3
  <2> QED
    BY <2>0, <2>1, <2>2, <1>3
<1>9. \A i \in 0 .. n - 1 : e[i] \in SUBSET Int
  <2> TAKE i \in 0 .. n - 1
  <2>0. i \in Int /\ i - off \in Int /\ i - off - 1 \in Int
    BY <1>3
  <2>1. \A f \in SUBSET Int : Shl(f, rel, w) \in SUBSET Int /\ Shr(f, w - rel) \in SUBSET Int
    BY <1>3 DEF Shl, Shr
  <2>2. CASE i < off
    BY <2>2, <1>4
  <2>3. CASE i >= off
    <3>1. d[i - off] = From(i - off)
      BY <2>0, <2>3, <1>2, <1>3
    <3>2. From(i - off) \in SUBSET Int /\ From(i - off - 1) \in SUBSET Int
      BY <2>0, <1>6
    <3>3. e[i] = From(i - off) \/ e[i] = Shl(From(i - off), rel, w) \cup Shr(From(i - off - 1), w - rel)
      <4>1. ~(i < off)
        BY <2>0, <2>3, <1>3
      <4>2. e[i] = IF rel = 0 THEN d[i - off]
                   ELSE Shl(d[i - off], rel, w) \cup Shr(From(i - off - 1), w - rel)
        BY <4>1, <1>4
      <4> HIDE DEF From
      <4> QED
        BY <3>1, <4>2
    <3> HIDE DEF From
    <3> QED
      BY <3>2, <3>3, <2>1
  <2> QED
    BY <2>0, <2>2, <2>3, <1>3
<1>10. \A i \in 0 .. n - 1 : \A q : q \in e[i] <=> q \in 0 .. w - 1 /\ q + i * w \in t
  <2> TAKE i \in 0 .. n - 1
  <2>1. ASSUME NEW q \in Int PROVE q \in e[i] <=> q \in 0 .. w - 1 /\ q + i * w \in t
    <3>1. q + i * w \in Int /\ (q + i * w) - k = q + i * w - k
      OBVIOUS
    <3>2. q + i * w \in t <=> q + i * w \in 0 .. n * w - 1 /\ q + i * w - k \in v
      BY <3>1, <1>1, MovedIs
    <3>3. ASSUME q \in 0 .. w - 1 PROVE q + i * w \in 0 .. n * w - 1
      <4>1. w * i <= w * (n - 1) /\ w * i >= 0
        OBVIOUS
      <4>2. w * (n - 1) = n * w - w
        OBVIOUS
      <4> QED
        BY <3>3, <4>1, <4>2, <1>1
    <3> HIDE DEF t
    <3> QED
      BY <3>2, <3>3, <1>8
  <2>2. ASSUME NEW q, q \notin Int PROVE q \notin e[i] /\ q \notin 0 .. w - 1
    BY <2>2, <1>9
  <2> QED
    BY <2>1, <2>2
<1>11. t \in SUBSET Upto(n * w)
  BY DEF Moved
<1> HIDE DEF t
<1>12. Joined(e, w) = t
  BY <1>4, <1>10, <1>11, JoinedIs
<1> QED
  BY <1>12 DEF e, d, t

\* The index of the last block.
LEMMA LastBlockIs ==
  ASSUME NEW n \in Nat, NEW d, DOMAIN d = 0 .. n - 1
  PROVE  LastBlock(d) = n - 1
<1>1. CASE n = 0
  <2>1. DOMAIN d = {}
    BY <1>1
  <2>2. Cardinality({}) = 0
    BY FS_EmptySet
  <2> QED
    BY <1>1, <2>1, <2>2 DEF LastBlock
<1>2. CASE n > 0
  <2>1. Cardinality(0 .. n - 1) = IF 0 > n - 1 THEN 0 ELSE (n - 1) - 0 + 1
    BY FS_Interval
  <2>2. Cardinality(0 .. n - 1) = n
    BY <1>2, <2>1
  <2> QED
    BY <2>2 DEF LastBlock
<1> QED
  BY <1>1, <1>2

\* operator>>= of the generic class, likewise.
THEOREM BlocksShiftDown ==
  ASSUME NEW n \in Nat, NEW w \in Nat \ {0}, NEW v \in SUBSET Upto(n * w), NEW k \in Nat
  PROVE  Joined(ShrBlocks(Blocks(v, n, w), k, w), w) = Moved(v, -k, n * w)
<1> DEFINE d == Blocks(v, n, w)
           off == k \div w
           rel == k % w
           From(i) == IF i \in DOMAIN d THEN d[i] ELSE {}
           e == ShrBlocks(d, k, w)
           t == Moved(v, -k, n * w)
<1>1. v \in SUBSET Nat /\ n * w \in Nat
  BY DEF Upto
<1>2. DOMAIN d = 0 .. n - 1 /\ \A i \in 0 .. n - 1 : d[i] = Block(v, i, w)
  BY DEF Blocks
<1>3. rel \in 0 .. w - 1 /\ off \in Int /\ k = w * off + rel /\ off >= 0
  <2>1. rel \in 0 .. w - 1 /\ off \in Int /\ k = w * off + rel
    BY DivModOf
  <2> HIDE DEF rel, off
  <2>2. SUFFICES ASSUME off <= -1 PROVE FALSE
    BY <2>1
  <2>3. w * off <= -w
    BY <2>1, <2>2
  <2> QED
    BY <2>1, <2>3
<1>4. /\ DOMAIN e = 0 .. n - 1
      /\ \A i \in 0 .. n - 1 :
           e[i] = IF i > n - 1 - off THEN {}
                  ELSE IF rel = 0 THEN d[i + off]
                  ELSE Shr(d[i + off], rel) \cup Shl(From(i + off + 1), w - rel, w)
  <2> HIDE DEF d
  <2>1. LastBlock(d) = n - 1
    BY <1>2, LastBlockIs
  <2> QED
    BY <1>2, <2>1 DEF ShrBlocks
<1> HIDE DEF d, e, off, rel
<1>5. \A i \in Int : \A q \in Int :
        q \in From(i) <=> i \in 0 .. n - 1 /\ q \in 0 .. w - 1 /\ q + i * w \in v
  BY <1>1, <1>2, InBlock
<1>6. \A i \in Int : From(i) \in SUBSET Int
  <2> TAKE i \in Int
  <2>1. CASE i \in 0 .. n - 1
    <3>1. From(i) = Block(v, i, w)
      BY <2>1, <1>2
    <3> QED
      BY <3>1, <1>1, InBlock
  <2>2. CASE i \notin 0 .. n - 1
    BY <2>2, <1>2
  <2> QED
    BY <2>1, <2>2
<1>7. \A p \in v : p \in Int /\ p >= 0 /\ p < n * w
  BY <1>1 DEF Upto
<1>8. ASSUME NEW i \in 0 .. n - 1, NEW q \in Int
      PROVE  q \in e[i] <=> q \in 0 .. w - 1 /\ q + i * w + k \in v
  <2>0. i \in Int /\ 0 <= i /\ i < n /\ rel \in Int /\ 0 <= rel /\ rel < w
    BY <1>3
  <2>1. CASE i + off >= n
    <3>1. ASSUME q \in 0 .. w - 1 PROVE q + i * w + k \notin v
      <4>1. w * (i + off) >= w * n
        BY <2>0, <2>1, <1>3
      <4>2. q + i * w + k >= n * w
        BY <3>1, <4>1, <2>0, <1>3
      <4> QED
        BY <4>2, <1>7, <2>0, <1>1
    <3>2. e[i] = {}
      BY <2>1, <2>0, <1>3, <1>4
    <3> QED
      BY <3>1, <3>2
  <2>2. CASE i + off < n
    <3>1. i + off \in 0 .. n - 1 /\ d[i + off] = From(i + off)
      BY <2>0, <2>2, <1>2, <1>3
    <3>0. ~(i > n - 1 - off)
      BY <2>0, <2>2, <1>3
    <3>2. CASE rel = 0
      <4>1. q + (i + off) * w = q + i * w + k
        BY <2>0, <3>2, <1>3
      <4>2. e[i] = From(i + off)
        BY <3>0, <3>1, <3>2, <1>4
      <4> QED
        BY <4>1, <4>2, <3>1, <1>5
    <3>3. CASE rel # 0
      <4>1. e[i] = Shr(From(i + off), rel) \cup Shl(From(i + off + 1), w - rel, w)
        BY <3>0, <3>1, <3>3, <1>4
      <4>2. q \in Shr(From(i + off), rel) <=> q + rel \in From(i + off) /\ q >= 0
        <5>1. From(i + off) \in SUBSET Int
          BY <1>6, <2>0, <1>3
        <5> HIDE DEF From
        <5> QED
          BY <5>1, <2>0, InShr
      <4>3. q \in Shl(From(i + off + 1), w - rel, w) <=> q - (w - rel) \in From(i + off + 1) /\ q < w
        <5>1. From(i + off + 1) \in SUBSET Int /\ w - rel \in Int
          BY <1>6, <2>0, <1>3
        <5> HIDE DEF From
        <5> QED
          BY <5>1, <2>0, InShl
      <4>4. q + rel \in From(i + off) <=> q + rel \in 0 .. w - 1 /\ q + i * w + k \in v
        <5>1. (q + rel) + (i + off) * w = q + i * w + k /\ q + rel \in Int /\ i + off \in Int
          BY <2>0, <1>3
        <5> HIDE DEF From
        <5> QED
          BY <5>1, <1>5, <3>1
      <4>5. q - (w - rel) \in From(i + off + 1)
              <=> /\ i + off + 1 \in 0 .. n - 1 /\ q - (w - rel) \in 0 .. w - 1
                  /\ q + i * w + k \in v
        <5>1. /\ (q - (w - rel)) + (i + off + 1) * w = q + i * w + k
              /\ q - (w - rel) \in Int /\ i + off + 1 \in Int
          BY <2>0, <1>3
        <5> HIDE DEF From
        <5> QED
          BY <5>1, <1>5
      <4>6. ASSUME q \in 0 .. w - 1, q + rel >= w, q + i * w + k \in v PROVE i + off + 1 \in 0 .. n - 1
        <5>1. SUFFICES ASSUME i + off = n - 1 PROVE FALSE
          BY <2>0, <2>2, <1>3
        <5>2. w * (i + off) = w * (n - 1)
          BY <5>1
        <5>3. q + i * w + k >= n * w
          BY <5>2, <4>6, <2>0, <1>3
        <5> QED
          BY <4>6, <5>3, <1>7, <1>1
      <4>7. q + rel \in 0 .. w - 1 /\ q >= 0 <=> q \in 0 .. w - 1 /\ ~(q + rel >= w)
        BY <2>0
      <4>8. q - (w - rel) \in 0 .. w - 1 /\ q < w <=> q \in 0 .. w - 1 /\ q + rel >= w
        BY <2>0
      <4> HIDE DEF From
      <4> QED
        BY <4>1, <4>2, <4>3, <4>4, <4>5, <4>6, <4>7, <4>8
    <3> QED
      BY <3>2, <3>3
  <2> QED
    BY <2>0, <2>1, <2>2, <1>3
<1>9. \A i \in 0 .. n - 1 : e[i] \in SUBSET Int
  <2> TAKE i \in 0 .. n - 1
  <2>0. i \in Int /\ i + off \in Int /\ i + off + 1 \in Int
    BY <1>3
  <2>1. \A f \in SUBSET Int : Shl(f, w - rel, w) \in SUBSET Int /\ Shr(f, rel) \in SUBSET Int
    BY <1>3 DEF Shl, Shr
  <2>2. CASE i > n - 1 - off
    BY <2>2, <1>4
  <2>3. CASE ~(i > n - 1 - off)
    <3>0. i + off \in 0 .. n - 1
      BY <2>0, <2>3, <1>3
    <3>1. d[i + off] = From(i + off)
      BY <3>0, <1>2
    <3>2. From(i + off) \in SUBSET Int /\ From(i + off + 1) \in SUBSET Int
      BY <2>0, <1>6
    <3>3. e[i] = IF rel = 0 THEN d[i + off]
                 ELSE Shr(d[i + off], rel) \cup Shl(From(i + off + 1), w - rel, w)
      BY <2>3, <1>4
    <3> HIDE DEF From
    <3> QED
      BY <3>1, <3>2, <3>3, <2>1
  <2> QED
    BY <2>2, <2>3
<1>10. \A i \in 0 .. n - 1 : \A q : q \in e[i] <=> q \in 0 .. w - 1 /\ q + i * w \in t
  <2> TAKE i \in 0 .. n - 1
  <2>1. ASSUME NEW q \in Int PROVE q \in e[i] <=> q \in 0 .. w - 1 /\ q + i * w \in t
    <3>1. q + i * w \in Int /\ (q + i * w) - (-k) = q + i * w + k /\ -k \in Int
      OBVIOUS
    <3>2. q + i * w \in t <=> q + i * w \in 0 .. n * w - 1 /\ q + i * w + k \in v
      BY <3>1, <1>1, MovedIs
    <3>3. ASSUME q \in 0 .. w - 1 PROVE q + i * w \in 0 .. n * w - 1
      <4>1. w * i <= w * (n - 1) /\ w * i >= 0
        OBVIOUS
      <4>2. w * (n - 1) = n * w - w
        OBVIOUS
      <4> QED
        BY <3>3, <4>1, <4>2, <1>1
    <3> HIDE DEF t
    <3> QED
      BY <3>2, <3>3, <1>8
  <2>2. ASSUME NEW q, q \notin Int PROVE q \notin e[i] /\ q \notin 0 .. w - 1
    BY <2>2, <1>9
  <2> QED
    BY <2>1, <2>2
<1>11. t \in SUBSET Upto(n * w)
  BY DEF Moved
<1> HIDE DEF t
<1>12. Joined(e, w) = t
  BY <1>4, <1>10, <1>11, JoinedIs
<1> QED
  BY <1>12 DEF e, d, t

(***************************************************************************)
(* bitSet.h, BitSet<128>: two lanes of 64 bits.                            *)
(***************************************************************************)
\* A position of the register in its lane.
LEMMA Halves ==
  ASSUME NEW p \in 0 .. 127
  PROVE  p % 64 = IF p < 64 THEN p ELSE p - 64
<1>1. CASE p < 64
  BY <1>1
<1>2. CASE p >= 64
  BY <1>2
<1> QED
  BY <1>1, <1>2

\* Membership in what the shifts of lanes give.
LEMMA InLaneShl ==
  ASSUME NEW v \in SUBSET Int, NEW k \in Int, NEW w \in Int, NEW x \in Int
  PROVE  x \in LaneShl(v, k, w) <=> x - k \in v /\ ((x - k) % w) + k < w
<1>1. ASSUME x \in LaneShl(v, k, w) PROVE x - k \in v /\ ((x - k) % w) + k < w
  <2>1. PICK p \in v : (p % w) + k < w /\ x = p + k
    BY <1>1 DEF LaneShl
  <2>2. x - k = p
    BY <2>1
  <2> QED
    BY <2>1, <2>2
<1>2. ASSUME x - k \in v, ((x - k) % w) + k < w PROVE x \in LaneShl(v, k, w)
  <2>1. x = (x - k) + k
    OBVIOUS
  <2> QED
    BY <1>2, <2>1 DEF LaneShl
<1> QED
  BY <1>1, <1>2

LEMMA InLaneShr ==
  ASSUME NEW v \in SUBSET Int, NEW k \in Int, NEW w \in Int, NEW x \in Int
  PROVE  x \in LaneShr(v, k, w) <=> x + k \in v /\ (x + k) % w >= k
<1>1. ASSUME x \in LaneShr(v, k, w) PROVE x + k \in v /\ (x + k) % w >= k
  <2>1. PICK p \in v : p % w >= k /\ x = p - k
    BY <1>1 DEF LaneShr
  <2>2. x + k = p
    BY <2>1
  <2> QED
    BY <2>1, <2>2
<1>2. ASSUME x + k \in v, (x + k) % w >= k PROVE x \in LaneShr(v, k, w)
  <2>1. x = (x + k) - k
    OBVIOUS
  <2> QED
    BY <1>2, <2>1 DEF LaneShr
<1> QED
  BY <1>1, <1>2

LEMMA ShiftsHoldInts ==
  ASSUME NEW v \in SUBSET Int, NEW k \in Int, NEW w \in Int
  PROVE  /\ Shl(v, k, w) \in SUBSET Int
         /\ LaneShl(v, k, w) \in SUBSET Int /\ LaneShr(v, k, w) \in SUBSET Int
BY DEF Shl, LaneShl, LaneShr

LEMMA ShrHoldsInts ==
  ASSUME NEW v \in SUBSET Int, NEW k \in Int
  PROVE  Shr(v, k) \in SUBSET Int
BY DEF Shr

\* BitSet<128> <<= and >> and their forms for constants: what leaves a lane
\* comes in at the other, for every set and every shift.
THEOREM Shl128Moves ==
  ASSUME NEW v \in SUBSET Upto(128), NEW k \in Upto(128)
  PROVE  Shl128(v, k) = Moved(v, k, 128)
<1>1. v \in SUBSET Nat /\ v \in SUBSET Int /\ k \in Int /\ 0 <= k /\ k < 128
  BY DEF Upto
<1> DEFINE s == Shl(v, 64, 128)
<1>2. s \in SUBSET Int /\ \A x \in Int : x \in s <=> x - 64 \in v /\ x < 128
  BY <1>1, ShiftsHoldInts, InShl
<1>3. \A p \in v : p \in 0 .. 127 /\ p % 64 = IF p < 64 THEN p ELSE p - 64
  BY Halves DEF Upto
<1>4. \A p \in s : p \in 0 .. 127 /\ p % 64 = IF p < 64 THEN p ELSE p - 64
  <2> TAKE p \in s
  <2>1. p \in Int /\ p - 64 \in v /\ p < 128
    BY <1>2
  <2>2. p \in 0 .. 127
    BY <2>1, <1>1
  <2> QED
    BY <2>2, Halves
<1> HIDE DEF s
<1>5. Shl128(v, k) \in SUBSET Int /\ Moved(v, k, 128) \in SUBSET Int
  <2>1. Shl128(v, k) = IF k < 64 THEN LaneShl(v, k, 64) \cup LaneShr(s, 64 - k, 64)
                       ELSE LaneShl(s, k % 64, 64)
    BY DEF Shl128, s
  <2>2. k % 64 \in Int /\ 64 - k \in Int
    BY <1>1
  <2>3. LaneShl(v, k, 64) \in SUBSET Int /\ LaneShr(s, 64 - k, 64) \in SUBSET Int
    BY <1>1, <1>2, <2>2, ShiftsHoldInts
  <2>4. LaneShl(s, k % 64, 64) \in SUBSET Int
    BY <1>1, <1>2, <2>2, ShiftsHoldInts
  <2> QED
    BY <2>1, <2>3, <2>4 DEF Moved, Upto
<1>6. ASSUME NEW x \in Int PROVE x \in Shl128(v, k) <=> x \in Moved(v, k, 128)
  <2>1. x \in Moved(v, k, 128) <=> x \in 0 .. 127 /\ x - k \in v
    BY <1>1, MovedIs
  <2>2. CASE k < 64
    <3>1. Shl128(v, k) = LaneShl(v, k, 64) \cup LaneShr(s, 64 - k, 64)
      BY <2>2 DEF Shl128, s
    <3>2. x \in LaneShl(v, k, 64) <=> x - k \in v /\ ((x - k) % 64) + k < 64
      BY <1>1, InLaneShl
    <3>3. x \in LaneShr(s, 64 - k, 64) <=> x + (64 - k) \in s /\ (x + (64 - k)) % 64 >= 64 - k
      BY <1>1, <1>2, InLaneShr
    <3>4. x + (64 - k) \in s <=> x - k \in v /\ x + (64 - k) < 128
      <4>1. x + (64 - k) \in Int /\ (x + (64 - k)) - 64 = x - k
        BY <1>1
      <4> QED
        BY <4>1, <1>2
    <3> DEFINE p == x - k
               y == x + (64 - k)
    <3>5. p \in Int /\ y = p + 64 /\ x = p + k
      BY <1>1
    <3>6. /\ p \in v => p \in 0 .. 127 /\ p % 64 = IF p < 64 THEN p ELSE p - 64
          /\ y \in s => y \in 0 .. 127 /\ y % 64 = IF y < 64 THEN y ELSE y - 64
      BY <1>3, <1>4
    <3>7. x \in LaneShl(v, k, 64) <=> p \in v /\ (p % 64) + k < 64
      BY <3>2
    <3>8. x \in LaneShr(s, 64 - k, 64) <=> p \in v /\ y < 128 /\ y \in s /\ y % 64 >= 64 - k
      BY <3>3, <3>4
    <3>9. y \in s <=> p \in v /\ y < 128
      BY <3>4
    <3> HIDE DEF p, y
    <3>10. p \in v => (((p % 64) + k < 64 \/ (y < 128 /\ y % 64 >= 64 - k)) <=> x \in 0 .. 127)
      BY <3>5, <3>6, <3>9, <2>2, <1>1
    <3> QED
      BY <3>1, <3>7, <3>8, <3>9, <3>10, <2>1 DEF p
  <2>3. CASE k >= 64
    <3>1. Shl128(v, k) = LaneShl(s, k % 64, 64) /\ k % 64 = k - 64
      <4>1. k % 64 = k - 64
        BY <1>1, <2>3, Halves
      <4> QED
        BY <4>1, <2>3, <1>1 DEF Shl128, s
    <3>2. x \in LaneShl(s, k - 64, 64) <=> x - (k - 64) \in s /\ ((x - (k - 64)) % 64) + (k - 64) < 64
      BY <1>1, <1>2, InLaneShl
    <3> DEFINE p == x - k
               y == x - (k - 64)
    <3>3. p \in Int /\ y \in Int /\ y = p + 64 /\ x = p + k /\ y - 64 = p
      BY <1>1
    <3>4. y \in s <=> p \in v /\ y < 128
      BY <3>3, <1>2
    <3>5. y \in s => y \in 0 .. 127 /\ y % 64 = IF y < 64 THEN y ELSE y - 64
      BY <1>4
    <3>6. p \in v => p \in 0 .. 127
      BY <1>3
    <3> HIDE DEF p, y
    <3>7. p \in v => ((y < 128 /\ (y % 64) + (k - 64) < 64) <=> x \in 0 .. 127)
      BY <3>3, <3>4, <3>5, <3>6, <2>3, <1>1
    <3> QED
      BY <3>1, <3>2, <3>4, <3>7, <2>1 DEF p, y
  <2> QED
    BY <2>2, <2>3, <1>1
<1> QED
  BY <1>5, <1>6

THEOREM Slli128Moves ==
  ASSUME NEW v \in SUBSET Upto(128), NEW k \in Upto(128)
  PROVE  Slli128(v, k) = Moved(v, k, 128)
<1>1. v \in SUBSET Nat /\ v \in SUBSET Int /\ k \in Int /\ 0 <= k /\ k < 128
  BY DEF Upto
<1>2. CASE k % 8 = 0
  <2>1. Slli128(v, k) = Shl(v, k, 128)
    BY <1>2 DEF Slli128
  <2>2. Shl(v, k, 128) \in SUBSET Int /\ Moved(v, k, 128) \in SUBSET Int
    BY <1>1, ShiftsHoldInts DEF Moved, Upto
  <2>3. ASSUME NEW x \in Int PROVE x \in Shl(v, k, 128) <=> x \in Moved(v, k, 128)
    <3>1. x \in Moved(v, k, 128) <=> x \in 0 .. 127 /\ x - k \in v
      BY <1>1, MovedIs
    <3>2. x \in Shl(v, k, 128) <=> x - k \in v /\ x < 128
      BY <1>1, InShl
    <3>3. x - k \in v => x >= 0
      BY <1>1
    <3> QED
      BY <3>1, <3>2, <3>3
  <2> QED
    BY <2>1, <2>2, <2>3
<1>3. CASE k % 8 # 0
  <2>1. k # 64
    BY <1>3
  <2>2. CASE k < 64
    <3>1. /\ Slli128(v, k) = LaneShr(Shl(v, 64, 128), 64 - k, 64) \cup LaneShl(v, k, 64)
          /\ Shl128(v, k) = LaneShl(v, k, 64) \cup LaneShr(Shl(v, 64, 128), 64 - k, 64)
      BY <1>1, <1>3, <2>2 DEF Slli128, Shl128
    <3> QED
      BY <3>1, Shl128Moves
  <2>3. CASE k > 64
    <3>1. k % 64 = k - 64
      BY <1>1, <2>3, Halves
    <3>2. Slli128(v, k) = Shl128(v, k)
      BY <1>1, <1>3, <2>3, <3>1 DEF Slli128, Shl128
    <3> QED
      BY <3>2, Shl128Moves
  <2> QED
    BY <2>1, <2>2, <2>3, <1>1
<1> QED
  BY <1>2, <1>3

THEOREM Shr128Moves ==
  ASSUME NEW v \in SUBSET Upto(128), NEW k \in Upto(128)
  PROVE  Shr128(v, k) = Moved(v, -k, 128)
<1>1. v \in SUBSET Nat /\ v \in SUBSET Int /\ k \in Int /\ 0 <= k /\ k < 128 /\ -k \in Int
  BY DEF Upto
<1> DEFINE s == Shr(v, 64)
<1>2. s \in SUBSET Int /\ \A x \in Int : x \in s <=> x + 64 \in v /\ x >= 0
  BY <1>1, ShrHoldsInts, InShr
<1>3. \A p \in v : p \in 0 .. 127 /\ p % 64 = IF p < 64 THEN p ELSE p - 64
  BY Halves DEF Upto
<1>4. \A p \in s : p \in 0 .. 63 /\ p % 64 = p
  <2> TAKE p \in s
  <2>1. p \in Int /\ p + 64 \in 0 .. 127 /\ p >= 0
    BY <1>2, <1>3
  <2>2. p \in 0 .. 127 /\ p \in 0 .. 63 /\ p < 64
    BY <2>1
  <2> QED
    BY <2>2, Halves
<1> HIDE DEF s
<1>5. Shr128(v, k) \in SUBSET Int /\ Moved(v, -k, 128) \in SUBSET Int
  <2>1. Shr128(v, k) = IF k < 64 THEN LaneShr(v, k, 64) \cup LaneShl(s, 64 - k, 64)
                       ELSE LaneShr(s, k % 64, 64)
    BY DEF Shr128, s
  <2>2. k % 64 \in Int /\ 64 - k \in Int
    BY <1>1
  <2>3. LaneShr(v, k, 64) \in SUBSET Int /\ LaneShl(s, 64 - k, 64) \in SUBSET Int
    BY <1>1, <1>2, <2>2, ShiftsHoldInts
  <2>4. LaneShr(s, k % 64, 64) \in SUBSET Int
    BY <1>1, <1>2, <2>2, ShiftsHoldInts
  <2> QED
    BY <2>1, <2>3, <2>4 DEF Moved, Upto
<1>6. ASSUME NEW x \in Int PROVE x \in Shr128(v, k) <=> x \in Moved(v, -k, 128)
  <2>1. x \in Moved(v, -k, 128) <=> x \in 0 .. 127 /\ x + k \in v
    <3>1. x \in Moved(v, -k, 128) <=> x \in 0 .. 127 /\ x - (-k) \in v
      BY <1>1, MovedIs
    <3>2. x - (-k) = x + k
      BY <1>1
    <3> QED
      BY <3>1, <3>2
  <2>2. CASE k < 64
    <3>1. Shr128(v, k) = LaneShr(v, k, 64) \cup LaneShl(s, 64 - k, 64)
      BY <2>2 DEF Shr128, s
    <3> DEFINE p == x + k
               y == x - (64 - k)
    <3>2. p \in Int /\ y \in Int /\ y + 64 = p /\ x = p - k
      BY <1>1
    <3>3. x \in LaneShr(v, k, 64) <=> p \in v /\ p % 64 >= k
      BY <1>1, InLaneShr
    <3>4. x \in LaneShl(s, 64 - k, 64) <=> y \in s /\ (y % 64) + (64 - k) < 64
      BY <1>1, <1>2, InLaneShl
    <3>5. y \in s <=> p \in v /\ y >= 0
      BY <3>2, <1>2
    <3>6. /\ p \in v => p \in 0 .. 127 /\ p % 64 = IF p < 64 THEN p ELSE p - 64
          /\ y \in s => y \in 0 .. 63 /\ y % 64 = y
      BY <1>3, <1>4
    <3> HIDE DEF p, y
    <3>7. p \in v => ((p % 64 >= k \/ (y >= 0 /\ (y % 64) + (64 - k) < 64)) <=> x \in 0 .. 127)
      BY <3>2, <3>5, <3>6, <2>2, <1>1
    <3> QED
      BY <3>1, <3>3, <3>4, <3>5, <3>7, <2>1 DEF p
  <2>3. CASE k >= 64
    <3>1. Shr128(v, k) = LaneShr(s, k - 64, 64)
      <4>1. k % 64 = k - 64
        BY <1>1, <2>3, Halves
      <4> QED
        BY <4>1, <2>3, <1>1 DEF Shr128, s
    <3> DEFINE p == x + k
               y == x + (k - 64)
    <3>2. p \in Int /\ y \in Int /\ y + 64 = p /\ x = p - k
      BY <1>1
    <3>3. x \in LaneShr(s, k - 64, 64) <=> y \in s /\ y % 64 >= k - 64
      BY <1>1, <1>2, InLaneShr
    <3>4. y \in s <=> p \in v /\ y >= 0
      BY <3>2, <1>2
    <3>5. (y \in s => y \in 0 .. 63 /\ y % 64 = y) /\ (p \in v => p \in 0 .. 127)
      BY <1>3, <1>4
    <3> HIDE DEF p, y
    <3>6. p \in v => ((y >= 0 /\ y % 64 >= k - 64) <=> x \in 0 .. 127)
      BY <3>2, <3>4, <3>5, <2>3, <1>1
    <3> QED
      BY <3>1, <3>3, <3>4, <3>6, <2>1 DEF p
  <2> QED
    BY <2>2, <2>3, <1>1
<1> QED
  BY <1>5, <1>6

THEOREM Srli128Moves ==
  ASSUME NEW v \in SUBSET Upto(128), NEW k \in Upto(128)
  PROVE  Srli128(v, k) = Moved(v, -k, 128)
<1>1. v \in SUBSET Nat /\ v \in SUBSET Int /\ k \in Int /\ 0 <= k /\ k < 128 /\ -k \in Int
  BY DEF Upto
<1>2. CASE k % 8 = 0
  <2>1. Srli128(v, k) = Shr(v, k)
    BY <1>2 DEF Srli128
  <2>2. Shr(v, k) \in SUBSET Int /\ Moved(v, -k, 128) \in SUBSET Int
    BY <1>1, ShrHoldsInts DEF Moved, Upto
  <2>3. ASSUME NEW x \in Int PROVE x \in Shr(v, k) <=> x \in Moved(v, -k, 128)
    <3>1. x \in Moved(v, -k, 128) <=> x \in 0 .. 127 /\ x - (-k) \in v
      BY <1>1, MovedIs
    <3>2. x \in Shr(v, k) <=> x + k \in v /\ x >= 0
      BY <1>1, InShr
    <3>3. x - (-k) = x + k /\ (x + k \in v => x < 128)
      BY <1>1 DEF Upto
    <3> QED
      BY <3>1, <3>2, <3>3
  <2> QED
    BY <2>1, <2>2, <2>3
<1>3. CASE k % 8 # 0
  <2>1. k # 64
    BY <1>3
  <2>2. CASE k < 64
    <3>1. /\ Srli128(v, k) = LaneShl(Shr(v, 64), 64 - k, 64) \cup LaneShr(v, k, 64)
          /\ Shr128(v, k) = LaneShr(v, k, 64) \cup LaneShl(Shr(v, 64), 64 - k, 64)
      BY <1>1, <1>3, <2>2 DEF Srli128, Shr128
    <3> QED
      BY <3>1, Shr128Moves
  <2>3. CASE k > 64
    <3>1. k % 64 = k - 64
      BY <1>1, <2>3, Halves
    <3>2. Srli128(v, k) = Shr128(v, k)
      BY <1>1, <1>3, <2>3, <3>1 DEF Srli128, Shr128
    <3> QED
      BY <3>2, Shr128Moves
  <2> QED
    BY <2>1, <2>2, <2>3, <1>1
<1> QED
  BY <1>2, <1>3

\* Where the byte mirror puts a position, and the swap of neighbouring groups of k bits.
ByteMirrored(p) == 8 * (15 - (p \div 8)) + (p % 8)
Swapped(p, k) == IF (p \div k) % 2 = 1 THEN p - k ELSE p + k

\* One position through the steps of reverse: no shift leaves its 16-bit
\* lane, and in the end p has become 127 - p.
LEMMA MirrorInSteps ==
  ASSUME NEW p \in 0 .. 127
  PROVE  /\ ByteMirrored(p) \in 0 .. 127
         /\ \A k \in {1, 2, 4} : /\ Swapped(p, k) \in 0 .. 127
                                 /\ (p \div k) % 2 # 1 => (p % 16) + k < 16
                                 /\ (p \div k) % 2 = 1 => p % 16 >= k
         /\ Swapped(Swapped(Swapped(ByteMirrored(p), 4), 2), 1) = 127 - p
<1> DEFINE b == p \div 8
           r == p % 8
<1>1. b \in 0 .. 15 /\ r \in 0 .. 7 /\ p = 8 * b + r
  OBVIOUS
<1>2. ByteMirrored(p) \in 0 .. 127
  BY <1>1 DEF ByteMirrored
<1>3. \A k \in {1, 2, 4} : (p \div k) % 2 # 1 => (p % 16) + k < 16
  OBVIOUS
<1>4. \A k \in {1, 2, 4} : (p \div k) % 2 = 1 => p % 16 >= k
  OBVIOUS
<1>5. \A k \in {1, 2, 4} : Swapped(p, k) \in 0 .. 127
  BY DEF Swapped
<1>6. Swapped(Swapped(Swapped(ByteMirrored(p), 4), 2), 1) = 127 - p
  BY DEF Swapped, ByteMirrored
<1> QED
  BY <1>2, <1>3, <1>4, <1>5, <1>6

\* The masks pick the lower and the upper halves, so a step swaps them all.
LEMMA HalfSwaps ==
  ASSUME NEW u \in SUBSET (0 .. 127), NEW k \in {1, 2, 4}
  PROVE  LaneShl(u \ Mask(k, 128), k, 16) \cup LaneShr(u \cap Mask(k, 128), k, 16)
           = {Swapped(p, k) : p \in u}
<1> DEFINE l == LaneShl(u \ Mask(k, 128), k, 16)
           r == LaneShr(u \cap Mask(k, 128), k, 16)
<1>1. \A p \in u : /\ p \in Mask(k, 128) <=> (p \div k) % 2 = 1
                   /\ (p \div k) % 2 # 1 => (p % 16) + k < 16
                   /\ (p \div k) % 2 = 1 => p % 16 >= k
  <2> TAKE p \in u
  <2>1. p \in 0 .. 127
    OBVIOUS
  <2>2. p \in Mask(k, 128) <=> (p \div k) % 2 = 1
    BY <2>1 DEF Mask
  <2>3. ((p \div k) % 2 # 1 => (p % 16) + k < 16) /\ ((p \div k) % 2 = 1 => p % 16 >= k)
    BY <2>1, MirrorInSteps
  <2> QED
    BY <2>2, <2>3
<1>2. l = {p + k : p \in {q \in u : (q \div k) % 2 # 1}}
  BY <1>1 DEF LaneShl
<1>3. r = {p - k : p \in {q \in u : (q \div k) % 2 = 1}}
  BY <1>1 DEF LaneShr
<1> HIDE DEF l, r
<1>4. ASSUME NEW x \in l \cup r PROVE x \in {Swapped(p, k) : p \in u}
  <2>1. CASE x \in l
    BY <2>1, <1>2 DEF Swapped
  <2>2. CASE x \in r
    BY <2>2, <1>3 DEF Swapped
  <2> QED
    BY <2>1, <2>2
<1>5. ASSUME NEW p \in u PROVE Swapped(p, k) \in l \cup r
  <2>1. CASE (p \div k) % 2 = 1
    BY <2>1, <1>3 DEF Swapped
  <2>2. CASE (p \div k) % 2 # 1
    BY <2>2, <1>2 DEF Swapped
  <2> QED
    BY <2>1, <2>2
<1>6. l \cup r = {Swapped(p, k) : p \in u}
  BY <1>4, <1>5
<1> QED
  BY <1>6 DEF l, r

LEMMA SwappedInRange ==
  ASSUME NEW u \in SUBSET (0 .. 127), NEW k \in {1, 2, 4}
  PROVE  {Swapped(p, k) : p \in u} \in SUBSET (0 .. 127)
<1>1. \A p \in u : Swapped(p, k) \in 0 .. 127
  BY MirrorInSteps
<1> QED
  BY <1>1

\* BitSet<128>::reverse mirrors every set.
THEOREM Reverse128Mirrors ==
  ASSUME NEW v \in SUBSET Upto(128)
  PROVE  Reverse128(v) = Mirror(v, 128)
<1> DEFINE bytes == {ByteMirrored(p) : p \in v}
           four == {Swapped(p, 4) : p \in bytes}
           two == {Swapped(p, 2) : p \in four}
           one == {Swapped(p, 1) : p \in two}
           Half(u, k) == LaneShl(u \ Mask(k, 128), k, 16) \cup LaneShr(u \cap Mask(k, 128), k, 16)
<1>1. v \in SUBSET (0 .. 127)
  BY DEF Upto
<1>2. bytes \in SUBSET (0 .. 127)
  BY <1>1, MirrorInSteps
<1>3. Half(bytes, 4) = four /\ four \in SUBSET (0 .. 127)
  <2> HIDE DEF bytes
  <2>1. bytes \in SUBSET (0 .. 127) /\ 4 \in {1, 2, 4}
    BY <1>2
  <2>2. Half(bytes, 4) = {Swapped(p, 4) : p \in bytes}
    BY <2>1, HalfSwaps
  <2>3. {Swapped(p, 4) : p \in bytes} \in SUBSET (0 .. 127)
    BY <2>1, SwappedInRange
  <2> QED
    BY <2>2, <2>3
<1>4. Half(four, 2) = two /\ two \in SUBSET (0 .. 127)
  <2> HIDE DEF four
  <2>1. four \in SUBSET (0 .. 127) /\ 2 \in {1, 2, 4}
    BY <1>3
  <2>2. Half(four, 2) = {Swapped(p, 2) : p \in four}
    BY <2>1, HalfSwaps
  <2>3. {Swapped(p, 2) : p \in four} \in SUBSET (0 .. 127)
    BY <2>1, SwappedInRange
  <2> QED
    BY <2>2, <2>3
<1>5. Half(two, 1) = one
  <2> HIDE DEF two
  <2> QED
    BY <1>4, HalfSwaps
<1>6. Reverse128(v) = Half(Half(Half(bytes, 4), 2), 1)
  BY DEF Reverse128, ByteMirrored
<1>7. Reverse128(v) = one
  <2> HIDE DEF bytes, four, two, one, Half
  <2> QED
    BY <1>3, <1>4, <1>5, <1>6
<1>8. one = {Swapped(Swapped(Swapped(ByteMirrored(p), 4), 2), 1) : p \in v}
  OBVIOUS
<1>9. one = {127 - p : p \in v}
  <2> HIDE DEF one
  <2> QED
    BY <1>1, <1>8, MirrorInSteps
<1>10. {127 - p : p \in v} = Mirror(v, 128)
  BY <1>1 DEF Mirror
<1> HIDE DEF one
<1> QED
  BY <1>7, <1>9, <1>10

\* What the run algorithms checks of the register for sets of one position
\* (BitSetAgrees) holds for every set.
THEOREM RegisterLawsHold == \A v \in SUBSET Upto(128) : RegisterLaws(v)
BY Reverse128Mirrors, Shl128Moves, Slli128Moves, Shr128Moves, Srli128Moves DEF RegisterLaws

(***************************************************************************)
(* bitSet.h: the orders. A word is above another at a witness, the highest *)
(* bit in which they differ; all proofs compare witnesses.                 *)
(***************************************************************************)
\* A nonempty set of naturals has a least member, a bounded one a greatest.
LEMMA MinIs ==
  ASSUME NEW S \in SUBSET Nat, S # {}
  PROVE  Min(S) \in S /\ \A y \in S : Min(S) <= y
<1>1. IsWellFoundedOn(OpToRel(<, Nat), Nat)
  BY NatLessThanWellFounded
<1> DEFINE R == OpToRel(<, Nat)
<1>2. \A x, y \in Nat : <<x, y>> \in R <=> x < y
  BY DEF OpToRel
<1> HIDE DEF R
<1>3. \E x \in S : \A y \in S : ~(<<y, x>> \in R)
  BY <1>1, WFMin DEF R
<1>4. \E x \in S : \A y \in S : x <= y
  <2>1. PICK x \in S : \A y \in S : ~(<<y, x>> \in R)
    BY <1>3
  <2>2. \A y \in S : ~(y < x) /\ x \in Nat /\ y \in Nat
    BY <1>2, <2>1
  <2>3. \A y \in S : x <= y
    BY <2>2
  <2> QED
    BY <2>3
<1> QED
  BY <1>4 DEF Min

LEMMA MaxIs ==
  ASSUME NEW m \in Nat, NEW S \in SUBSET Upto(m), S # {}
  PROVE  Max(S) \in S /\ \A y \in S : Max(S) >= y
<1> DEFINE T == {m - 1 - p : p \in S}
<1>1. \A p \in S : p \in Int /\ 0 <= p /\ p <= m - 1
  BY DEF Upto
<1>2. T \in SUBSET Nat /\ T # {}
  BY <1>1
<1>3. PICK t \in T : \A u \in T : t <= u
  BY <1>2, MinIs
<1>4. PICK p \in S : t = m - 1 - p
  BY <1>3
<1>5. \A y \in S : p >= y
  <2> TAKE y \in S
  <2>1. t <= m - 1 - y
    BY <1>3
  <2> QED
    BY <2>1, <1>4, <1>1
<1>6. \E x \in S : \A y \in S : x >= y
  BY <1>5
<1> QED
  BY <1>6 DEF Max

\* One word is above another if it has the highest bit in which they differ.
LEMMA AboveIs ==
  ASSUME NEW m \in Nat, NEW a \in SUBSET Upto(m), NEW b \in SUBSET Upto(m)
  PROVE  Above(a, b) <=> \E p \in a \ b : \A q \in Nat : q > p => (q \in a <=> q \in b)
<1> DEFINE D == SymDiff(a, b)
<1>1. D = (a \ b) \cup (b \ a)
  BY DEF SymDiff
<1>2. \A p \in a \cup b : p \in Nat
  BY DEF Upto
<1>3. ASSUME Above(a, b) PROVE \E p \in a \ b : \A q \in Nat : q > p => (q \in a <=> q \in b)
  <2>1. a # b /\ Max(D) \in a
    BY <1>3 DEF Above
  <2>2. D # {} /\ D \in SUBSET Upto(m)
    BY <2>1, <1>1
  <2> HIDE DEF D
  <2>3. Max(D) \in D /\ \A y \in D : Max(D) >= y
    BY <2>2, MaxIs
  <2> DEFINE p == Max(D)
  <2>4. p \in a \ b /\ \A y \in D : p >= y
    BY <2>1, <2>3, <1>1
  <2> HIDE DEF p
  <2>5. \A q \in Nat : q > p => (q \in a <=> q \in b)
    <3> TAKE q \in Nat
    <3>1. q \in D => p >= q
      BY <2>4
    <3>2. p \in Nat
      BY <2>4, <1>2
    <3> QED
      BY <3>1, <3>2, <1>1
  <2> QED
    BY <2>4, <2>5
<1>4. ASSUME NEW p \in a \ b, \A q \in Nat : q > p => (q \in a <=> q \in b) PROVE Above(a, b)
  <2>1. p \in D /\ D \in SUBSET Upto(m) /\ D # {} /\ a # b
    BY <1>1
  <2>2. Max(D) \in D /\ \A y \in D : Max(D) >= y
    <3> HIDE DEF D
    <3> QED
      BY <2>1, MaxIs
  <2>3. Max(D) = p
    <3>1. p \in Nat /\ Max(D) \in Nat /\ Max(D) >= p
      BY <2>1, <2>2, <1>1, <1>2
    <3>2. ~(Max(D) > p)
      BY <3>1, <2>2, <1>1, <1>4
    <3> HIDE DEF D
    <3> QED
      BY <3>1, <3>2
  <2> QED
    BY <2>1, <2>3 DEF Above
<1> QED
  BY <1>3, <1>4

\* operator> of one word orders all sets, strictly and totally, and larger
\* sets above their subsets: what the canonical forms and the sorted files rely on.
THEOREM AboveIsStrictOrder ==
  ASSUME NEW m \in Nat, NEW a \in SUBSET Upto(m), NEW b \in SUBSET Upto(m), NEW c \in SUBSET Upto(m)
  PROVE  /\ ~Above(a, a)
         /\ Above(a, b) /\ Above(b, c) => Above(a, c)
         /\ a # b => Above(a, b) \/ Above(b, a)
         /\ b \subseteq a /\ a # b => Above(a, b)
<1>1. \A p \in a \cup b \cup c : p \in Nat
  BY DEF Upto
<1>2. ~Above(a, a)
  BY DEF Above
<1>3. ASSUME Above(a, b), Above(b, c) PROVE Above(a, c)
  <2>1. PICK p \in a \ b : \A q \in Nat : q > p => (q \in a <=> q \in b)
    BY <1>3, AboveIs
  <2>2. PICK r \in b \ c : \A q \in Nat : q > r => (q \in b <=> q \in c)
    BY <1>3, AboveIs
  <2>3. p \in Nat /\ r \in Nat /\ p # r
    BY <1>1
  <2>4. CASE p > r
    <3>1. p \in a \ c /\ \A q \in Nat : q > p => (q \in a <=> q \in c)
      BY <2>1, <2>2, <2>3, <2>4
    <3> QED
      BY <3>1, AboveIs
  <2>5. CASE r > p
    <3>1. r \in a \ c /\ \A q \in Nat : q > r => (q \in a <=> q \in c)
      BY <2>1, <2>2, <2>3, <2>5
    <3> QED
      BY <3>1, AboveIs
  <2> QED
    BY <2>3, <2>4, <2>5
<1>4. ASSUME a # b PROVE Above(a, b) \/ Above(b, a)
  <2> DEFINE D == SymDiff(a, b)
  <2>1. D = (a \ b) \cup (b \ a) /\ SymDiff(b, a) = D
    BY DEF SymDiff
  <2>2. D # {} /\ D \in SUBSET Upto(m)
    BY <1>4, <2>1
  <2>3. Max(D) \in D
    <3> HIDE DEF D
    <3> QED
      BY <2>2, MaxIs
  <2> QED
    BY <1>4, <2>1, <2>3 DEF Above
<1>5. ASSUME b \subseteq a, a # b PROVE Above(a, b)
  <2>1. ~Above(b, a)
    BY <1>5, AboveIs
  <2> QED
    BY <1>4, <1>5, <2>1
<1> QED
  BY <1>2, <1>3, <1>4, <1>5

\* So does the signed comparison, except that a word with its top bit set is lowest.
LEMMA SignedAboveIsStrictOrder ==
  ASSUME NEW w \in Nat, NEW a \in SUBSET Upto(w), NEW b \in SUBSET Upto(w), NEW c \in SUBSET Upto(w)
  PROVE  /\ ~SignedAbove(a, a, w)
         /\ SignedAbove(a, b, w) /\ SignedAbove(b, c, w) => SignedAbove(a, c, w)
         /\ a # b => SignedAbove(a, b, w) \/ SignedAbove(b, a, w)
<1> DEFINE Neg(x) == w - 1 \in x
<1>1. \A x, y : SignedAbove(x, y, w) <=> \/ (Neg(x) <=> Neg(y)) /\ Above(x, y)
                                         \/ ~(Neg(x) <=> Neg(y)) /\ Neg(y)
  <2> TAKE x, y
  <2>1. CASE Neg(x) /\ Neg(y)
    BY <2>1 DEF SignedAbove
  <2>2. CASE ~Neg(x) /\ ~Neg(y)
    BY <2>2 DEF SignedAbove
  <2>3. CASE Neg(x) /\ ~Neg(y)
    BY <2>3 DEF SignedAbove
  <2>4. CASE ~Neg(x) /\ Neg(y)
    BY <2>4 DEF SignedAbove
  <2> QED
    BY <2>1, <2>2, <2>3, <2>4
<1>2. /\ ~Above(a, a)
      /\ Above(a, b) /\ Above(b, c) => Above(a, c)
      /\ a # b => Above(a, b) \/ Above(b, a)
  BY AboveIsStrictOrder
<1> HIDE DEF Neg
<1> QED
  BY <1>1, <1>2

\* operator> of BitSet<128> (two signed lanes) is not the numeric order, but it
\* is a strict total order for every lane width: sorting and canonizing with it are well defined.
THEOREM Above128IsStrictOrder ==
  ASSUME NEW w \in Nat, NEW a \in [{0, 1} -> SUBSET Upto(w)], NEW b \in [{0, 1} -> SUBSET Upto(w)],
         NEW c \in [{0, 1} -> SUBSET Upto(w)]
  PROVE  /\ ~Above128(a, a, w)
         /\ Above128(a, b, w) /\ Above128(b, c, w) => Above128(a, c, w)
         /\ a # b => Above128(a, b, w) \/ Above128(b, a, w)
<1>1. ASSUME NEW i \in {0, 1}
      PROVE  /\ ~SignedAbove(a[i], a[i], w)
             /\ SignedAbove(a[i], b[i], w) /\ SignedAbove(b[i], c[i], w) => SignedAbove(a[i], c[i], w)
             /\ a[i] # b[i] => SignedAbove(a[i], b[i], w) \/ SignedAbove(b[i], a[i], w)
  <2>1. a[i] \in SUBSET Upto(w) /\ b[i] \in SUBSET Upto(w) /\ c[i] \in SUBSET Upto(w)
    OBVIOUS
  <2> QED
    BY <2>1, SignedAboveIsStrictOrder
<1>2. \A x, y : Above128(x, y, w) <=> \/ SignedAbove(x[1], y[1], w)
                                      \/ x[1] = y[1] /\ SignedAbove(x[0], y[0], w)
  BY DEF Above128
<1>3. ~Above128(a, a, w)
  BY <1>1, <1>2
<1>4. Above128(a, b, w) /\ Above128(b, c, w) => Above128(a, c, w)
  BY <1>1, <1>2
<1>5. a # b => Above128(a, b, w) \/ Above128(b, a, w)
  <2>1. ASSUME a # b PROVE a[1] # b[1] \/ a[0] # b[0]
    BY <2>1
  <2> QED
    BY <2>1, <1>1, <1>2
<1> QED
  BY <1>3, <1>4, <1>5

\* Order of positions by block, then by place.
LEMMA UpperBlocks ==
  ASSUME NEW w \in Nat \ {0}, NEW i \in Nat, NEW j \in Nat, NEW q \in 0 .. w - 1, NEW r \in 0 .. w - 1
  PROVE  r + j * w > q + i * w <=> j > i \/ (j = i /\ r > q)
<1>1. CASE j > i
  <2>1. w * j >= w * (i + 1)
    BY <1>1
  <2> QED
    BY <1>1, <2>1
<1>2. CASE j < i
  <2>1. w * i >= w * (j + 1)
    BY <1>2
  <2> QED
    BY <1>2, <2>1
<1>3. CASE j = i
  BY <1>3
<1> QED
  BY <1>1, <1>2, <1>3

LEMMA PlaceOf ==
  ASSUME NEW w \in Nat \ {0}, NEW n \in Nat, NEW p \in Upto(n * w)
  PROVE  \E i \in 0 .. n - 1 : \E q \in 0 .. w - 1 : p = q + i * w
<1>1. n * w \in Int /\ w * n = n * w
  OBVIOUS
<1>2. p \in Int /\ p \in 0 .. w * n - 1
  BY <1>1 DEF Upto
<1> DEFINE i == p \div w
           q == p % w
<1>3. i \in 0 .. n - 1
  BY <1>2, DividesWithin
<1>4. q \in 0 .. w - 1 /\ p = w * i + q
  BY <1>2, DivModOf
<1> HIDE DEF i, q
<1>5. p = q + i * w
  BY <1>3, <1>4
<1> QED
  BY <1>3, <1>4, <1>5

\* operator> of the generic class, which lets the most significant block that
\* differs decide, is the order of the whole sets.
THEOREM BlocksKeepOrder ==
  ASSUME NEW n \in Nat, NEW w \in Nat \ {0}, NEW a \in SUBSET Upto(n * w), NEW b \in SUBSET Upto(n * w)
  PROVE  AboveBlocks(Blocks(a, n, w), Blocks(b, n, w)) <=> Above(a, b)
<1> DEFINE A(i) == Block(a, i, w)
           B(i) == Block(b, i, w)
           Higher(i) == \A j \in 0 .. n - 1 : j > i => A(j) = B(j)
<1>1. a \in SUBSET Nat /\ b \in SUBSET Nat /\ n * w \in Nat
  BY DEF Upto
<1>2. AboveBlocks(Blocks(a, n, w), Blocks(b, n, w))
        <=> \E i \in 0 .. n - 1 : Above(A(i), B(i)) /\ Higher(i)
  BY DEF AboveBlocks, Blocks
<1>3. \A i \in 0 .. n - 1 : \A q :
        /\ q \in A(i) <=> q \in 0 .. w - 1 /\ q + i * w \in a
        /\ q \in B(i) <=> q \in 0 .. w - 1 /\ q + i * w \in b
  BY <1>1, InBlock
<1> HIDE DEF A, B
<1>4. \A i \in 0 .. n - 1 : A(i) \in SUBSET Upto(w) /\ B(i) \in SUBSET Upto(w)
  BY <1>3 DEF Upto
<1>5. \A i \in 0 .. n - 1 :
        Above(A(i), B(i)) <=> \E q \in A(i) \ B(i) : \A r \in Nat : r > q => (r \in A(i) <=> r \in B(i))
  BY <1>4, AboveIs
<1>6. ASSUME NEW i \in 0 .. n - 1, Above(A(i), B(i)), Higher(i) PROVE Above(a, b)
  <2>1. PICK q \in A(i) \ B(i) : \A r \in Nat : r > q => (r \in A(i) <=> r \in B(i))
    BY <1>5, <1>6
  <2> DEFINE p == q + i * w
  <2>2. q \in 0 .. w - 1 /\ p \in a \ b
    BY <1>3
  <2>3. \A x \in Nat : x > p => (x \in a <=> x \in b)
    <3> SUFFICES ASSUME NEW x \in Nat, x > p, x \in a \cup b PROVE x \in a <=> x \in b
      OBVIOUS
    <3>1. PICK j \in 0 .. n - 1, r \in 0 .. w - 1 : x = r + j * w
      BY PlaceOf
    <3>2. j > i \/ (j = i /\ r > q)
      BY <3>1, <2>2, UpperBlocks
    <3>3. A(j) = B(j) \/ (j = i /\ (r \in A(i) <=> r \in B(i)))
      BY <3>2, <2>1, <1>6
    <3>4. r \in A(j) <=> r \in B(j)
      BY <3>3
    <3> QED
      BY <3>1, <3>4, <1>3
  <2> HIDE DEF p
  <2> QED
    BY <2>2, <2>3, <1>1, AboveIs
<1>7. ASSUME Above(a, b) PROVE \E i \in 0 .. n - 1 : Above(A(i), B(i)) /\ Higher(i)
  <2>1. PICK p \in a \ b : \A x \in Nat : x > p => (x \in a <=> x \in b)
    BY <1>1, <1>7, AboveIs
  <2>2. PICK i \in 0 .. n - 1, q \in 0 .. w - 1 : p = q + i * w
    BY PlaceOf
  <2>3. q \in A(i) \ B(i)
    BY <1>3, <2>1, <2>2
  <2>4. ASSUME NEW j \in 0 .. n - 1, NEW r \in 0 .. w - 1, j > i \/ (j = i /\ r > q)
        PROVE  r \in A(j) <=> r \in B(j)
    <3>1. r + j * w > p
      BY <2>2, <2>4, UpperBlocks
    <3>2. r + j * w \in Nat
      OBVIOUS
    <3> QED
      BY <3>1, <3>2, <2>1, <1>3
  <2>5. \A r \in Nat : r > q => (r \in A(i) <=> r \in B(i))
    <3> TAKE r \in Nat
    <3>1. CASE r \in 0 .. w - 1
      BY <3>1, <2>4
    <3>2. CASE r \notin 0 .. w - 1
      BY <3>2, <1>3
    <3> QED
      BY <3>1, <3>2
  <2>6. Higher(i)
    <3> SUFFICES ASSUME NEW j \in 0 .. n - 1, j > i PROVE A(j) = B(j)
      OBVIOUS
    <3>1. \A r \in 0 .. w - 1 : r \in A(j) <=> r \in B(j)
      BY <2>4
    <3>2. \A r : r \in A(j) \cup B(j) => r \in 0 .. w - 1
      BY <1>3
    <3> QED
      BY <3>1, <3>2
  <2> QED
    BY <2>3, <2>5, <2>6, <1>5
<1> QED
  BY <1>2, <1>6, <1>7

\* getFirstOnBit and getLastOnBit skip empty blocks only.
THEOREM BlocksFirstAndLast ==
  ASSUME NEW n \in Nat, NEW w \in Nat \ {0}, NEW v \in SUBSET Upto(n * w), v # {}
  PROVE  /\ GetFirstOnBit(Blocks(v, n, w), w) = Min(v)
         /\ GetLastOnBit(Blocks(v, n, w), w) = Max(v)
<1> DEFINE d == Blocks(v, n, w)
           full == NonZero(d)
<1>1. v \in SUBSET Nat /\ n * w \in Nat
  BY DEF Upto
<1>2. DOMAIN d = 0 .. n - 1 /\ \A i \in 0 .. n - 1 : d[i] = Block(v, i, w)
  BY DEF Blocks
<1>3. \A i \in 0 .. n - 1 : \A q : q \in d[i] <=> q \in 0 .. w - 1 /\ q + i * w \in v
  <2> HIDE DEF d
  <2> QED
    BY <1>1, <1>2, InBlock
<1> HIDE DEF d
<1>4. \A i : i \in full <=> i \in 0 .. n - 1 /\ d[i] # {}
  BY <1>2 DEF NonZero
<1>5. \A p \in v : \E i \in full : \E q \in d[i] : p = q + i * w
  <2> TAKE p \in v
  <2>1. PICK i \in 0 .. n - 1, q \in 0 .. w - 1 : p = q + i * w
    BY PlaceOf
  <2>2. q \in d[i]
    BY <2>1, <1>3
  <2> QED
    BY <2>1, <2>2, <1>4
<1>6. full # {} /\ full \in SUBSET Nat /\ full \in SUBSET Upto(n)
  <2> HIDE DEF full
  <2>1. full # {}
    BY <1>5
  <2>2. \A i \in full : i \in Nat /\ i \in Upto(n)
    BY <1>4 DEF Upto
  <2> QED
    BY <2>1, <2>2
<1> HIDE DEF full
<1>7. GetFirstOnBit(d, w) = Min(v)
  <2> DEFINE i == Min(full)
             q == Min(d[i])
             p == q + i * w
  <2>1. i \in full /\ \A j \in full : i <= j
    BY <1>6, MinIs
  <2>2. i \in 0 .. n - 1 /\ d[i] # {} /\ d[i] \in SUBSET Nat
    BY <2>1, <1>3, <1>4
  <2> HIDE DEF i
  <2>3. q \in d[i] /\ \A r \in d[i] : q <= r
    BY <2>2, MinIs
  <2> HIDE DEF q
  <2>4. p \in v /\ q \in 0 .. w - 1
    BY <2>2, <2>3, <1>3
  <2>5. \A x \in v : p <= x
    <3> TAKE x \in v
    <3>0. PICK j \in full : \E r \in d[j] : x = r + j * w
      BY <1>5
    <3>1. PICK r \in d[j] : x = r + j * w
      BY <3>0
    <3>2. j \in 0 .. n - 1 /\ r \in 0 .. w - 1 /\ i <= j
      BY <3>1, <2>1, <1>3, <1>4
    <3>3. CASE j = i
      BY <3>1, <3>2, <3>3, <2>3, <2>4
    <3>4. CASE j > i
      <4>1. r + j * w > q + i * w
        BY <3>2, <3>4, <2>2, <2>4, UpperBlocks
      <4> QED
        BY <4>1, <3>1, <3>2, <2>2, <2>4
    <3> QED
      BY <3>2, <3>3, <3>4, <2>2
  <2>6. Min(v) = p
    <3>1. Min(v) \in v /\ \A x \in v : Min(v) <= x
      BY <1>1, MinIs
    <3>2. Min(v) <= p /\ p <= Min(v) /\ p \in Nat /\ Min(v) \in Nat
      BY <3>1, <2>4, <2>5, <1>1
    <3> HIDE DEF p
    <3> QED
      BY <3>2
  <2>7. GetFirstOnBit(d, w) = q + w * i
    BY <1>6 DEF GetFirstOnBit, Ctz, full, i, q
  <2>8. q + w * i = p
    BY <2>2, <2>4
  <2> QED
    BY <2>6, <2>7, <2>8
<1>8. GetLastOnBit(d, w) = Max(v)
  <2> DEFINE i == Max(full)
             q == Max(d[i])
             p == q + i * w
  <2>1. i \in full /\ \A j \in full : i >= j
    BY <1>6, MaxIs
  <2>2. i \in 0 .. n - 1 /\ d[i] # {} /\ d[i] \in SUBSET Upto(w)
    BY <2>1, <1>3, <1>4 DEF Upto
  <2> HIDE DEF i
  <2>3. q \in d[i] /\ \A r \in d[i] : q >= r
    BY <2>2, MaxIs
  <2> HIDE DEF q
  <2>4. p \in v /\ q \in 0 .. w - 1
    BY <2>2, <2>3, <1>3
  <2>5. \A x \in v : p >= x
    <3> TAKE x \in v
    <3>0. PICK j \in full : \E r \in d[j] : x = r + j * w
      BY <1>5
    <3>1. PICK r \in d[j] : x = r + j * w
      BY <3>0
    <3>2. j \in 0 .. n - 1 /\ r \in 0 .. w - 1 /\ i >= j
      BY <3>1, <2>1, <1>3, <1>4
    <3>3. CASE j = i
      BY <3>1, <3>2, <3>3, <2>3, <2>4
    <3>4. CASE j < i
      <4>1. q + i * w > r + j * w
        BY <3>2, <3>4, <2>2, <2>4, UpperBlocks
      <4> QED
        BY <4>1, <3>1, <3>2, <2>2, <2>4
    <3> QED
      BY <3>2, <3>3, <3>4, <2>2
  <2>6. Max(v) = p
    <3>1. Max(v) \in v /\ \A x \in v : Max(v) >= x
      BY <1>1, MaxIs
    <3>2. Max(v) <= p /\ p <= Max(v) /\ p \in Nat /\ Max(v) \in Nat
      BY <3>1, <2>4, <2>5, <1>1
    <3> HIDE DEF p
    <3> QED
      BY <3>2
  <2>7. GetLastOnBit(d, w) = q + w * i
    BY <1>6 DEF GetLastOnBit, Clz, full, i, q
  <2>8. q + w * i = p
    BY <2>2, <2>4
  <2> QED
    BY <2>6, <2>7, <2>8
<1> QED
  BY <1>7, <1>8 DEF d

\* What the run algorithms checks of four blocks of two bits and two of four
\* (BitSetAgrees) holds for any number of blocks of any width.
THEOREM BlockShiftLawsHold ==
  \A n \in Nat, w \in Nat \ {0} : \A v \in SUBSET Upto(n * w) : BlockShiftLaws(n, w, v)
<1> TAKE n \in Nat, w \in Nat \ {0}
<1> TAKE v \in SUBSET Upto(n * w)
<1>1. Joined(Blocks(v, n, w), w) = v
  BY BlocksHoldTheSet
<1>2. \A k \in 1..(n * w - 1) : k \in Nat
  OBVIOUS
<1>3. \A k \in Nat : /\ Joined(ShlBlocks(Blocks(v, n, w), k, w), w) = Moved(v, k, n * w)
                     /\ Joined(ShrBlocks(Blocks(v, n, w), k, w), w) = Moved(v, -k, n * w)
  BY BlocksShiftUp, BlocksShiftDown
<1>4. v # {} => /\ GetFirstOnBit(Blocks(v, n, w), w) = Min(v)
                /\ GetLastOnBit(Blocks(v, n, w), w) = Max(v)
  BY BlocksFirstAndLast
<1> QED
  BY <1>1, <1>2, <1>3, <1>4 DEF BlockShiftLaws
=============================================================================
