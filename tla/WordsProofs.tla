---------------------------- MODULE WordsProofs ----------------------------
(***************************************************************************)
(* What the other proofs need of numbers.  First, induction: the least     *)
(* element of a set of numbers, and functions defined by recursion.  Then, *)
(* every operator of Words returns a word: what the registers of the       *)
(* machine need to keep their type.                                        *)
(***************************************************************************)
EXTENDS Words, FiniteSetTheorems, TLAPS

(* Induction without a predicate as parameter: a counterexample would have *)
(* a least one.  Of the segments 0 .. n, each a finite set, one is minimal.*)
LEMMA Least ==
  ASSUME NEW T \in SUBSET Nat, T # {}
  PROVE  \E m \in T : \A n \in T : m <= n
<1>1. PICK t \in T : TRUE
  OBVIOUS
<1> DEFINE S == 0 .. t
           segments == {x \in SUBSET S : \E n \in T : x = 0 .. n}
<1>2. IsFiniteSet(S)
  BY FS_Interval
<1>3. IsWellFoundedOn(StrictSubsetOrdering(S), FiniteSubsetsOf(S))
  BY FS_StrictSubsetOrderingWellFounded
<1>4. segments \subseteq FiniteSubsetsOf(S)
  BY <1>2, FS_FiniteSubsetsOfFinite
<1>5. S \in segments
  OBVIOUS
<1> HIDE DEF segments
<1>6. PICK x \in segments :
        \A y \in segments : ~ (<<y, x>> \in StrictSubsetOrdering(S))
  <2>1. segments # {}
    BY <1>5
  <2> QED
    BY <1>3, <1>4, <2>1, WFMin
<1>7. PICK m \in T : x = 0 .. m
  BY DEF segments
<1>8. ASSUME NEW n \in T, n < m PROVE FALSE
  <2>1. 0 .. n # 0 .. m /\ 0 .. n \subseteq 0 .. m
    BY <1>8
  <2>2. x \in SUBSET S
    BY DEF segments
  <2>3. 0 .. n \in segments /\ 0 .. n \in SUBSET S
    BY <2>1, <2>2, <1>7 DEF segments
  <2>4. <<0 .. n, x>> \in StrictSubsetOrdering(S)
    BY <2>1, <2>2, <2>3, <1>7 DEF StrictSubsetOrdering
  <2> QED
    BY <2>3, <2>4, <1>6
<1> QED
  BY <1>8

(* A function defined by recursion on a number exists, and has its type.   *)
Keeps(h, n, S) == \A k \in 1 .. n : \A s \in S : h[k][s] \in S
Follows(f, c, h, n) == f[0] = c /\ \A k \in 1 .. n : f[k] = h[k][f[k - 1]]

LEMMA Recursion ==
  ASSUME NEW S, NEW c \in S, NEW n \in Nat, NEW h, Keeps(h, n, S)
  PROVE  \E f \in [0 .. n -> S] : Follows(f, c, h, n)
<1> USE DEF Keeps, Follows
<1> DEFINE T == {m \in Nat : /\ m <= n
                            /\ ~ \E f \in [0 .. m -> S] : Follows(f, c, h, m)}
<1> SUFFICES ASSUME T # {} PROVE FALSE
  BY SMT
<1>1. PICK m \in T : \A k \in T : m <= k
  <2>1. T \in SUBSET Nat
    OBVIOUS
  <2> HIDE DEF T
  <2> QED
    BY <2>1, Least
<1>2. m # 0
  <2>1. [k \in 0 .. 0 |-> c] \in [0 .. 0 -> S]
         /\ Follows([k \in 0 .. 0 |-> c], c, h, 0)
    OBVIOUS
  <2> QED
    BY <2>1
<1>3. PICK f \in [0 .. m - 1 -> S] : Follows(f, c, h, m - 1)
  BY <1>1, <1>2
<1> DEFINE g == [k \in 0 .. m |-> IF k = m THEN h[m][f[m - 1]] ELSE f[k]]
<1>4. g \in [0 .. m -> S]
  BY <1>1, <1>2, <1>3
<1>5. Follows(g, c, h, m)
  BY <1>1, <1>2, <1>3
<1> QED
  BY <1>1, <1>4, <1>5

(* What the first value is in and every step keeps, all values are in.     *)
LEMMA Induction ==
  ASSUME NEW n \in Nat, NEW S, NEW f, f[0] \in S,
         \A k \in 1 .. n : f[k - 1] \in S => f[k] \in S
  PROVE  \A k \in 0 .. n : f[k] \in S
<1> DEFINE T == {k \in 0 .. n : f[k] \notin S}
<1> SUFFICES ASSUME T # {} PROVE FALSE
  OBVIOUS
<1>1. PICK k \in T : \A l \in T : k <= l
  <2>1. T \in SUBSET Nat
    OBVIOUS
  <2> HIDE DEF T
  <2> QED
    BY <2>1, Least
<1>2. k # 0
  OBVIOUS
<1>3. f[k - 1] \in S
  BY <1>1, <1>2
<1> QED
  BY <1>2, <1>3

(* Two functions that obey the same recursion are the same.                *)
LEMMA RecursionUnique ==
  ASSUME NEW n \in Nat, NEW c, NEW h, NEW f, NEW g,
         Follows(f, c, h, n), Follows(g, c, h, n)
  PROVE  \A k \in 0 .. n : f[k] = g[k]
<1> USE DEF Follows
<1> DEFINE T == {k \in 0 .. n : f[k] # g[k]}
<1> SUFFICES ASSUME T # {} PROVE FALSE
  OBVIOUS
<1>1. PICK k \in T : \A l \in T : k <= l
  <2>1. T \in SUBSET Nat
    OBVIOUS
  <2> HIDE DEF T
  <2> QED
    BY <2>1, Least
<1>2. k # 0
  OBVIOUS
<1>3. f[k - 1] = g[k - 1]
  BY <1>1, <1>2
<1> QED
  BY <1>2, <1>3

-----------------------------------------------------------------------------

(* The sizes as inequalities: the provers enumerate a range whose bounds   *)
(* they know, and 0 .. 65535 is too long for that.  Nothing below expands  *)
(* WordSize or Byte.                                                       *)
LEMMA WordSizeIs ==
  WordSize \in Nat /\ 256 * 256 <= WordSize /\ WordSize <= 256 * 256
  BY DEF WordSize

LEMMA ByteIs == \A n : n \in Byte <=> n \in Int /\ 0 <= n /\ n <= 255
  BY DEF Byte

LEMMA WordIs == \A n : n \in Word <=> n \in Int /\ 0 <= n /\ n < WordSize
  BY WordSizeIs DEF Word

LEMMA ByteWord == Byte \subseteq Word
  BY ByteIs, WordIs, WordSizeIs

(* Narrowing makes a word of any int.                                      *)
LEMMA TruncWord == \A n \in Int : Trunc(n) \in Word
  BY WordIs, WordSizeIs DEF Trunc

LEMMA TruncId == \A w \in Word : Trunc(w) = w
  BY WordIs, WordSizeIs DEF Trunc

LEMMA HalvesByte ==
  ASSUME NEW w \in Word
  PROVE  LoByte(w) \in Byte /\ HiByte(w) \in Byte
  BY WordIs, WordSizeIs, ByteIs DEF LoByte, HiByte

LEMMA MkWordWord == \A lo, hi \in Byte : MkWord(lo, hi) \in Word
  BY WordIs, WordSizeIs, ByteIs DEF MkWord

(* What is stored as two bytes is read back as the same word.              *)
LEMMA HalvesMakeWord == \A w \in Word : MkWord(LoByte(w), HiByte(w)) = w
  BY WordIs, WordSizeIs DEF MkWord, LoByte, HiByte

LEMMA Pow2Range == \A k \in 0 .. 15 : Pow2(k) \in Nat \ {0}
  BY DEF Pow2

LEMMA BitRange ==
  ASSUME NEW w \in Word, NEW k \in 0 .. 15
  PROVE  Bit(w, k) \in {0, 1}
<1>1. Pow2(k) \in Nat \ {0}
  BY Pow2Range
<1>2. w \div Pow2(k) \in Int
  BY <1>1, WordIs
<1> QED
  BY <1>2 DEF Bit

LEMMA FromBitsWord ==
  ASSUME NEW b, \A k \in 0 .. 15 : b[k] \in Int
  PROVE  FromBits(b) \in Word
<1>1. b[0] \in Int /\ b[1] \in Int /\ b[2] \in Int /\ b[3] \in Int
  OBVIOUS
<1>2. b[4] \in Int /\ b[5] \in Int /\ b[6] \in Int /\ b[7] \in Int
  OBVIOUS
<1>3. b[8] \in Int /\ b[9] \in Int /\ b[10] \in Int /\ b[11] \in Int
  OBVIOUS
<1>4. b[12] \in Int /\ b[13] \in Int /\ b[14] \in Int /\ b[15] \in Int
  OBVIOUS
<1> DEFINE low == b[0] + 2 * b[1] + 4 * b[2] + 8 * b[3] + 16 * b[4]
                  + 32 * b[5] + 64 * b[6] + 128 * b[7]
           high == b[8] + 2 * b[9] + 4 * b[10] + 8 * b[11] + 16 * b[12]
                   + 32 * b[13] + 64 * b[14] + 128 * b[15]
<1>5. low \in Int /\ high \in Int
  BY <1>1, <1>2, <1>3, <1>4
<1>6. FromBits(b) = Trunc(low + 256 * high)
  BY DEF FromBits, MkWord
<1> HIDE DEF low, high
<1>7. low + 256 * high \in Int
  BY <1>5
<1> QED
  BY <1>6, <1>7, TruncWord

-----------------------------------------------------------------------------
LEMMA SumWord ==
  ASSUME NEW a \in Word, NEW b \in Word
  PROVE  AddWord(a, b) \in Word /\ SubWord(a, b) \in Word
<1>1. a + b \in Int /\ a - b \in Int
  BY WordIs
<1> QED
  BY <1>1, TruncWord DEF AddWord, SubWord

LEMMA ProductWord ==
  ASSUME NEW a \in Word, NEW b \in Word
  PROVE  MulWord(a, b) \in Word
<1>1. a \in Int /\ LoByte(b) \in Int /\ HiByte(b) \in Int
  BY HalvesByte, WordIs, ByteIs
<1>2. a * LoByte(b) \in Int /\ a * HiByte(b) \in Int
  BY <1>1
<1>3. (a * HiByte(b)) % 256 \in Int
  BY <1>2
<1>4. a * LoByte(b) + 256 * ((a * HiByte(b)) % 256) \in Int
  BY <1>2, <1>3
<1> QED
  BY <1>4, TruncWord DEF MulWord

LEMMA QuotientWord ==
  ASSUME NEW a \in Word, NEW b \in Word, b # 0
  PROVE  DivWord(a, b) \in Word
<1>1. a \div b \in Int
  BY WordIs
<1> QED
  BY <1>1, TruncWord DEF DivWord

LEMMA BitwiseWord ==
  ASSUME NEW a \in Word, NEW b \in Word
  PROVE  /\ AndWord(a, b) \in Word
         /\ OrWord(a, b) \in Word
         /\ XorWord(a, b) \in Word
<1>1. \A k \in 0 .. 15 : Bit(a, k) \in {0, 1} /\ Bit(b, k) \in {0, 1}
  BY BitRange
<1>2. AndWord(a, b) \in Word
  <2> DEFINE c == [k \in 0 .. 15 |-> Bit(a, k) * Bit(b, k)]
  <2>1. \A k \in 0 .. 15 : c[k] \in Int
    BY <1>1
  <2> HIDE DEF c
  <2>2. FromBits(c) \in Word
    BY <2>1, FromBitsWord
  <2> QED
    BY <2>2 DEF AndWord, c
<1>3. OrWord(a, b) \in Word
  <2> DEFINE c == [k \in 0 .. 15 |->
                     Bit(a, k) + Bit(b, k) - Bit(a, k) * Bit(b, k)]
  <2>1. \A k \in 0 .. 15 : c[k] \in Int
    BY <1>1
  <2> HIDE DEF c
  <2>2. FromBits(c) \in Word
    BY <2>1, FromBitsWord
  <2> QED
    BY <2>2 DEF OrWord, c
<1>4. XorWord(a, b) \in Word
  <2> DEFINE c == [k \in 0 .. 15 |-> (Bit(a, k) + Bit(b, k)) % 2]
  <2>1. \A k \in 0 .. 15 : c[k] \in Int
    BY <1>1
  <2> HIDE DEF c
  <2>2. FromBits(c) \in Word
    BY <2>1, FromBitsWord
  <2> QED
    BY <2>2 DEF XorWord, c
<1> QED
  BY <1>2, <1>3, <1>4

LEMMA ComplementWord == \A a \in Word : NotWord(a) \in Word
<1> SUFFICES ASSUME NEW a \in Word PROVE NotWord(a) \in Word
  OBVIOUS
<1>1. -1 - a \in Int
  BY WordIs
<1> QED
  BY <1>1, TruncWord DEF NotWord

LEMMA ShiftWord ==
  ASSUME NEW a \in Word, NEW n \in Word
  PROVE  ShlWord(a, n) \in Word /\ ShrWord(a, n) \in Word
<1> DEFINE k == n % 32
<1>1. k \in 0 .. 31
  BY WordIs
<1> HIDE DEF k
<1>2. CASE k > 15
  BY <1>2, WordIs, WordSizeIs DEF ShlWord, ShrWord, k
<1>3. CASE ~(k > 15)
  <2>1. Pow2(k) \in Nat \ {0}
    BY <1>1, <1>3, Pow2Range
  <2>2. a * Pow2(k) \in Int
    BY <2>1, WordIs
  <2>3. a \div Pow2(k) \in Int
    BY <2>1, WordIs
  <2>4. Trunc(a * Pow2(k)) \in Word /\ Trunc(a \div Pow2(k)) \in Word
    BY <2>2, <2>3, TruncWord
  <2> QED
    BY <1>3, <2>4 DEF ShlWord, ShrWord, k
<1> QED
  BY <1>2, <1>3
-----------------------------------------------------------------------------
(* Arithmetic on words as a homomorphism: narrowing may be put off.        *)
LEMMA TruncShift ==
  \A x, q \in Int : Trunc(x + WordSize * q) = Trunc(x)
  BY DEF Trunc, WordSize

LEMMA TruncSum ==
  \A x, y \in Int : Trunc(Trunc(x) + y) = Trunc(x + y)
  BY DEF Trunc, WordSize

(* MulWord, summed over the halves of a factor, is the narrowed product.   *)
LEMMA MulIsProduct ==
  ASSUME NEW a \in Word, NEW b \in Word
  PROVE  MulWord(a, b) = Trunc(a * b)
<1> DEFINE lo == LoByte(b)
           hi == HiByte(b)
           x == a * lo
           y == a * hi
<1>1. a \in Int /\ lo \in Int /\ hi \in Int /\ b = lo + 256 * hi
  <2>1. lo \in Byte /\ hi \in Byte /\ MkWord(lo, hi) = b
    BY HalvesByte, HalvesMakeWord
  <2> HIDE DEF lo, hi
  <2> QED
    BY <2>1, ByteIs, WordIs DEF MkWord
<1> HIDE DEF lo, hi
<1>2. x \in Int /\ y \in Int /\ a * b = x + 256 * y
  BY <1>1
<1>3. MulWord(a, b) = Trunc(x + 256 * (y % 256))
  BY DEF MulWord, lo, hi
<1> HIDE DEF x, y
<1>4. y = 256 * (y \div 256) + (y % 256) /\ y \div 256 \in Int
  BY <1>2
<1>5. a * b = (x + 256 * (y % 256)) + WordSize * (y \div 256)
  BY <1>2, <1>4 DEF WordSize
<1>6. x + 256 * (y % 256) \in Int
  BY <1>2
<1> QED
  BY <1>3, <1>4, <1>5, <1>6, TruncShift

(* What is left by a division, of which MULI and DIVI compute the parts.   *)
LEMMA QuotientTimes ==
  ASSUME NEW a \in Word, NEW b \in Word, b # 0
  PROVE  SubWord(a, MulWord(DivWord(a, b), b)) = a % b
<1> DEFINE q == a \div b
           p == q * b
           r == a % b
<1>1. a \in Nat /\ b \in Nat /\ b > 0
  BY WordIs
<1>2. q \in Nat /\ r \in Nat /\ a = p + r
  <2>1. q \in Nat
    BY <1>1
  <2>2. r \in Nat
    BY <1>1
  <2>3. a = b * q + r
    BY <1>1
  <2> HIDE DEF q, r
  <2> QED
    BY <1>1, <2>1, <2>2, <2>3
<1> HIDE DEF q, r
<1>3. p \in Nat /\ q \in Word /\ p \in Word /\ r \in Word
  <2>1. p \in Nat
    BY <1>1, <1>2
  <2>2. q <= p
    BY <1>1, <1>2
  <2> HIDE DEF p
  <2>3. a \in Nat /\ a < WordSize /\ WordSize \in Nat
    BY WordIs, WordSizeIs
  <2> QED
    BY <1>1, <1>2, <2>1, <2>2, <2>3, WordIs
<1>4. DivWord(a, b) = q
  BY <1>3, TruncId DEF DivWord, q
<1>5. MulWord(q, b) = p
  BY <1>3, MulIsProduct, TruncId
<1> HIDE DEF p
<1>6. a - p = r
  BY <1>1, <1>2, <1>3
<1>7. SubWord(a, p) = r
  BY <1>3, <1>6, TruncId DEF SubWord
<1> QED
  BY <1>4, <1>5, <1>7 DEF r

LEMMA ProductsDistribute ==
  ASSUME NEW a \in Word, NEW b \in Word
  PROVE  /\ MulWord(a, b) = MulWord(b, a)
         /\ MulWord(a, AddWord(b, 1)) = AddWord(MulWord(a, b), a)
<1>1. a \in Int /\ b \in Int /\ a * b \in Int /\ a * b = b * a /\ 1 \in Word
  BY WordIs, WordSizeIs
<1>2. MulWord(a, b) = MulWord(b, a)
  BY <1>1, MulIsProduct
<1>3. AddWord(MulWord(a, b), a) = Trunc(a * b + a)
  BY <1>1, MulIsProduct, TruncSum DEF AddWord
<1>4. MulWord(a, AddWord(b, 1)) = Trunc(a * Trunc(b + 1))
  BY SumWord, <1>1, MulIsProduct DEF AddWord
<1>5. CASE b + 1 \in Word
  <2>1. a * Trunc(b + 1) = a * b + a
    BY <1>1, <1>5, TruncId
  <2> QED
    BY <1>2, <1>3, <1>4, <2>1
<1>6. CASE b + 1 \notin Word
  <2>1. b + 1 = WordSize
    BY <1>6, WordIs, WordSizeIs
  <2>2. Trunc(b + 1) = 0
    BY <2>1 DEF Trunc, WordSize
  <2>3. a * b + a = 0 + WordSize * a
    BY <1>1, <2>1 DEF WordSize
  <2>4. Trunc(a * b + a) = Trunc(0)
    BY <1>1, <2>3, TruncShift
  <2>5. a * Trunc(b + 1) = 0
    BY <1>1, <2>2
  <2> QED
    BY <1>2, <1>3, <1>4, <2>4, <2>5
<1> QED
  BY <1>5, <1>6

(* Shifting by one more is doubling and halving, and the processor looks   *)
(* at five bits of the count.                                              *)
LEMMA PowersDouble ==
  Pow2(0) = 1 /\ \A k \in 0 .. 14 : Pow2(k + 1) = 2 * Pow2(k)
<1>1. Pow2(0) = 1 /\ Pow2(1) = 2 /\ Pow2(2) = 4 /\ Pow2(3) = 8
  BY DEF Pow2
<1>2. Pow2(4) = 16 /\ Pow2(5) = 32 /\ Pow2(6) = 64 /\ Pow2(7) = 128
  BY DEF Pow2
<1>3. Pow2(8) = 256 /\ Pow2(9) = 512 /\ Pow2(10) = 1024 /\ Pow2(11) = 2048
  BY DEF Pow2
<1>4. Pow2(12) = 4096 /\ Pow2(13) = 8192 /\ Pow2(14) = 16384 /\ Pow2(15) = 32768
  BY DEF Pow2
<1> SUFFICES ASSUME NEW k \in 0 .. 14 PROVE Pow2(k + 1) = 2 * Pow2(k)
  BY <1>1
<1>5. \/ k = 0 \/ k = 1 \/ k = 2 \/ k = 3 \/ k = 4 \/ k = 5 \/ k = 6 \/ k = 7
      \/ k = 8 \/ k = 9 \/ k = 10 \/ k = 11 \/ k = 12 \/ k = 13 \/ k = 14
  OBVIOUS
<1> QED
  BY <1>1, <1>2, <1>3, <1>4, <1>5

LEMMA QuotientBelow ==
  ASSUME NEW a \in Nat, NEW d \in Nat, d > 0
  PROVE  a \div d <= a
<1> DEFINE q == a \div d
           r == a % d
<1>1. q \in Nat /\ r \in Nat
  OBVIOUS
<1>2. a = d * q + r
  OBVIOUS
<1> HIDE DEF q, r
<1>3. q <= d * q
  BY <1>1
<1>4. d * q \in Nat
  BY <1>1
<1>5. q <= a
  BY <1>1, <1>2, <1>3, <1>4
<1> QED
  BY <1>5 DEF q

(* There is one way only to write a number as a multiple of d and a rest.  *)
LEMMA QuotientIs ==
  ASSUME NEW a \in Nat, NEW d \in Nat, d > 0,
         NEW z \in Nat, NEW t \in Nat, a = d * z + t, t < d
  PROVE  a \div d = z
<1> DEFINE q == a \div d
           r == a % d
<1>1. q \in Nat /\ r \in Nat /\ r < d
  OBVIOUS
<1>2. a = d * q + r
  OBVIOUS
<1> HIDE DEF q, r
<1>3. ~ (q + 1 <= z)
  <2> SUFFICES ASSUME q + 1 <= z PROVE FALSE
    OBVIOUS
  <2>1. d * (q + 1) <= d * z
    BY <1>1
  <2>2. d * (q + 1) = d * q + d
    BY <1>1
  <2> QED
    BY <1>1, <1>2, <2>1, <2>2
<1>4. ~ (z + 1 <= q)
  <2> SUFFICES ASSUME z + 1 <= q PROVE FALSE
    OBVIOUS
  <2>1. d * (z + 1) <= d * q
    BY <1>1
  <2>2. d * (z + 1) = d * z + d
    BY <1>1
  <2> QED
    BY <1>1, <1>2, <2>1, <2>2
<1>5. q = z
  BY <1>1, <1>3, <1>4
<1> QED
  BY <1>5 DEF q

LEMMA HalfQuotient ==
  ASSUME NEW a \in Nat, NEW p \in Nat, p > 0
  PROVE  a \div (2 * p) = (a \div p) \div 2
<1> DEFINE y == a \div p
           r == a % p
           z == y \div 2
           d == 2 * p
<1>1. y \in Nat /\ r \in Nat /\ r < p
  OBVIOUS
<1>2. a = p * y + r
  OBVIOUS
<1> HIDE DEF y, r
<1>3. z \in Nat /\ (y = 2 * z \/ y = 2 * z + 1)
  BY <1>1
<1> HIDE DEF z
<1>4. d \in Nat /\ d > 0
  OBVIOUS
<1>5. CASE y = 2 * z
  <2>1. p * y = d * z
    BY <1>1, <1>3, <1>5
  <2>2. a = d * z + r /\ r < d
    BY <1>1, <1>2, <2>1
  <2> HIDE DEF d
  <2> QED
    BY <1>1, <1>3, <1>4, <2>2, QuotientIs DEF z, y
<1>6. CASE y = 2 * z + 1
  <2> DEFINE t == p + r
  <2>1. p * y = d * z + p
    BY <1>1, <1>3, <1>6
  <2>2. t \in Nat /\ t < d
    BY <1>1
  <2>3. d * z \in Nat
    BY <1>3
  <2> HIDE DEF d
  <2>4. a = d * z + t
    BY <1>1, <1>2, <2>1, <2>3
  <2> HIDE DEF t
  <2>5. a \div d = z
    BY <1>3, <1>4, <2>2, <2>4, QuotientIs
  <2> QED
    BY <2>5 DEF d, z, y
<1> QED
  BY <1>3, <1>5, <1>6

LEMMA HighestPower == Pow2(15) = 32768
  BY DEF Pow2

LEMMA ShiftsDouble ==
  ASSUME NEW a \in Word, NEW s \in 0 .. 30
  PROVE  /\ ShlWord(a, s + 1) = AddWord(ShlWord(a, s), ShlWord(a, s))
         /\ ShrWord(a, s + 1) = ShrWord(a, s) \div 2
         /\ ShlWord(a, s + 32) = ShlWord(a, s)
         /\ ShrWord(a, s + 32) = ShrWord(a, s)
<1>1. s % 32 = s /\ (s + 1) % 32 = s + 1 /\ (s + 32) % 32 = s /\ a \in Int
  BY WordIs
<1>2. ShlWord(a, s + 32) = ShlWord(a, s) /\ ShrWord(a, s + 32) = ShrWord(a, s)
  BY <1>1 DEF ShlWord, ShrWord
<1>3. CASE s <= 14
  <2> DEFINE x == a * Pow2(s)
             y == a \div Pow2(s)
  <2>1. s \in 0 .. 14 /\ s \in 0 .. 15 /\ s + 1 \in 0 .. 15
    BY <1>3
  <2>2. Pow2(s) \in Nat \ {0} /\ Pow2(s + 1) = 2 * Pow2(s)
    BY <2>1, Pow2Range, PowersDouble
  <2>3. ShlWord(a, s) = Trunc(x) /\ ShrWord(a, s) = Trunc(y)
    BY <1>1, <2>1 DEF ShlWord, ShrWord
  <2>4. /\ ShlWord(a, s + 1) = Trunc(a * Pow2(s + 1))
        /\ ShrWord(a, s + 1) = Trunc(a \div Pow2(s + 1))
    BY <1>1, <2>1 DEF ShlWord, ShrWord
  <2>5. x \in Int /\ a * Pow2(s + 1) = x + x
    BY <1>1, <2>2
  <2>6. y \in Nat /\ a \div Pow2(s + 1) = y \div 2
    <3>1. Pow2(s) \in Nat /\ Pow2(s) > 0 /\ a \in Nat
      BY <2>2, WordIs
    <3>2. y \in Nat
      BY <3>1
    <3> QED
      BY <2>2, <3>1, <3>2, HalfQuotient
  <2>7. y <= a
    <3>1. Pow2(s) \in Nat /\ Pow2(s) > 0 /\ a \in Nat
      BY <2>2, WordIs
    <3> QED
      BY <3>1, QuotientBelow
  <2>8. y \in Word /\ y \div 2 \in Word
    <3>1. a \in Nat /\ a < WordSize /\ WordSize \in Nat
      BY WordIs, WordSizeIs
    <3>2. y \in Nat
      BY <2>6
    <3> HIDE DEF y
    <3>3. y \div 2 \in Nat /\ y \div 2 <= y
      BY <3>2
    <3> QED
      BY <2>7, <3>1, <3>2, <3>3, WordIs
  <2> HIDE DEF x, y
  <2>9. Trunc(x + x) = AddWord(Trunc(x), Trunc(x))
    <3>1. Trunc(x) \in Int
      BY <2>5 DEF Trunc, WordSize
    <3>2. Trunc(Trunc(x) + Trunc(x)) = Trunc(x + Trunc(x))
      BY <2>5, <3>1, TruncSum
    <3>3. Trunc(Trunc(x) + x) = Trunc(x + x)
      BY <2>5, TruncSum
    <3>4. Trunc(x) + x = x + Trunc(x)
      BY <2>5, <3>1
    <3> QED
      BY <3>2, <3>3, <3>4 DEF AddWord
  <2> QED
    BY <1>2, <2>3, <2>4, <2>5, <2>6, <2>8, <2>9, TruncId
<1>4. CASE s = 15
  <2>1. ShlWord(a, s) = Trunc(a * 32768) /\ ShrWord(a, s) = Trunc(a \div 32768)
    BY <1>1, <1>4, HighestPower DEF ShlWord, ShrWord
  <2>2. ShlWord(a, s + 1) = 0 /\ ShrWord(a, s + 1) = 0
    BY <1>1, <1>4 DEF ShlWord, ShrWord
  <2>3. AddWord(Trunc(a * 32768), Trunc(a * 32768)) = 0
    BY <1>1 DEF AddWord, Trunc, WordSize
  <2>4. Trunc(a \div 32768) \div 2 = 0
    <3>1. a \div 32768 \in {0, 1}
      BY WordIs, WordSizeIs
    <3>2. a \div 32768 \in Word
      BY <3>1, WordIs, WordSizeIs
    <3> QED
      BY <3>1, <3>2, TruncId
  <2> QED
    BY <1>2, <2>1, <2>2, <2>3, <2>4
<1>5. CASE s > 15
  <2>1. s + 1 > 15
    BY <1>5
  <2>2. /\ ShlWord(a, s) = 0 /\ ShrWord(a, s) = 0
        /\ ShlWord(a, s + 1) = 0 /\ ShrWord(a, s + 1) = 0
    BY <1>1, <1>5, <2>1 DEF ShlWord, ShrWord
  <2>3. AddWord(0, 0) = 0 /\ 0 \div 2 = 0
    BY DEF AddWord, Trunc, WordSize
  <2> QED
    BY <1>2, <2>2, <2>3
<1> QED
  BY <1>3, <1>4, <1>5
=============================================================================
