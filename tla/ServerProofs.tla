---------------------------- MODULE ServerProofs ----------------------------
(***************************************************************************)
(* Whatever code the client sends and however the connection splits it,    *)
(* the server runs all of it: proofs about PolictfServer.                  *)
(***************************************************************************)
EXTENDS PolictfServer, VMProofs, SequenceTheorems

LEMMA MinIs ==
  ASSUME NEW T \in SUBSET Nat, T # {}
  PROVE  Min(T) \in T /\ \A n \in T : Min(T) <= n
  BY Least DEF Min

-----------------------------------------------------------------------------
(* Sequences that are cut and put together again.                          *)

LEMMA Joined ==
  ASSUME NEW S, NEW s \in Seq(S), NEW t \in Seq(S)
  PROVE  /\ s \o t \in Seq(S) /\ Len(s \o t) = Len(s) + Len(t)
         /\ \A k \in 1 .. Len(s) : (s \o t)[k] = s[k]
         /\ \A k \in 1 .. Len(t) : (s \o t)[Len(s) + k] = t[k]
<1>1. /\ s \o t \in Seq(S) /\ Len(s \o t) = Len(s) + Len(t)
      /\ \A k \in 1 .. Len(s) + Len(t) :
           (s \o t)[k] = IF k <= Len(s) THEN s[k] ELSE t[k - Len(s)]
  BY ConcatProperties
<1>2. Len(s) \in Nat /\ Len(t) \in Nat
  OBVIOUS
<1>3. ASSUME NEW k \in 1 .. Len(s) PROVE (s \o t)[k] = s[k]
  <2>1. k \in 1 .. Len(s) + Len(t) /\ k <= Len(s)
    BY <1>2
  <2> QED
    BY <1>1, <2>1
<1>4. ASSUME NEW k \in 1 .. Len(t) PROVE (s \o t)[Len(s) + k] = t[k]
  <2>1. /\ Len(s) + k \in 1 .. Len(s) + Len(t)
        /\ ~ (Len(s) + k <= Len(s)) /\ (Len(s) + k) - Len(s) = k
    BY <1>2
  <2> QED
    BY <1>1, <2>1
<1> QED
  BY <1>1, <1>3, <1>4

LEMMA Cut ==
  ASSUME NEW S, NEW s \in Seq(S), NEW n \in 0 .. Len(s)
  PROVE  /\ SubSeq(s, 1, n) \in Seq(S) /\ Len(SubSeq(s, 1, n)) = n
         /\ \A k \in 1 .. n : SubSeq(s, 1, n)[k] = s[k]
         /\ SubSeq(s, n + 1, Len(s)) \in Seq(S)
         /\ Len(SubSeq(s, n + 1, Len(s))) = Len(s) - n
         /\ SubSeq(s, 1, n) \o SubSeq(s, n + 1, Len(s)) = s
<1>1. Len(s) \in Nat /\ n \in Nat /\ n <= Len(s)
  OBVIOUS
<1>2. /\ SubSeq(s, 1, n) \in Seq(S) /\ Len(SubSeq(s, 1, n)) = n
      /\ \A k \in 1 .. n : SubSeq(s, 1, n)[k] = s[k]
  BY <1>1
<1>3. /\ SubSeq(s, n + 1, Len(s)) \in Seq(S)
      /\ Len(SubSeq(s, n + 1, Len(s))) = Len(s) - n
  BY <1>1
<1>4. SubSeq(s, 1, n) \o SubSeq(s, n + 1, Len(s)) = SubSeq(s, 1, Len(s))
  <2>1. 1 \in 1 .. Len(s) + 1 /\ n \in 1 - 1 .. Len(s) /\ Len(s) \in n .. Len(s)
    BY <1>1
  <2> QED
    BY <2>1, ConcatAdjacentSubSeq
<1> QED
  BY <1>2, <1>3, <1>4, SubSeqFull

(* A sequence that begins with n known elements ends in the rest.          *)
LEMMA SameBeginning ==
  ASSUME NEW S, NEW s \in Seq(S), NEW t \in Seq(S),
         NEW u \in Seq(S), NEW v \in Seq(S),
         s \o t = u \o v, Len(u) <= Len(s)
  PROVE  /\ SubSeq(s, 1, Len(u)) = u
         /\ SubSeq(s, Len(u) + 1, Len(s)) \o t = v
<1> DEFINE n == Len(u)
           x == SubSeq(s, 1, n)
           y == SubSeq(s, n + 1, Len(s))
<1>1. n \in 0 .. Len(s)
  OBVIOUS
<1>2. /\ x \in Seq(S) /\ y \in Seq(S) /\ x \o y = s /\ Len(x) = n
      /\ \A k \in 1 .. n : x[k] = s[k]
  BY <1>1, Cut
<1> HIDE DEF x, y
<1>3. ASSUME NEW k \in 1 .. n PROVE x[k] = u[k]
  <2>1. k \in 1 .. Len(s)
    BY <1>1
  <2>2. (s \o t)[k] = s[k] /\ (u \o v)[k] = u[k]
    BY <2>1, Joined
  <2> QED
    BY <1>2, <2>2
<1>4. x = u
  <2>1. Len(x) = Len(u) /\ \A k \in 1 .. Len(x) : x[k] = u[k]
    BY <1>2, <1>3
  <2>2. x \in Seq(S) /\ u \in Seq(S)
    BY <1>2
  <2> QED
    BY <2>1, <2>2, SeqEqual
<1>5. u \o (y \o t) = u \o v
  <2>1. (u \o y) \o t = u \o (y \o t)
    <3>1. y \in Seq(S)
      BY <1>2
    <3> QED
      BY <3>1, ConcatAssociative
  <2>2. u \o y = s
    BY <1>2, <1>4
  <2> QED
    BY <2>1, <2>2
<1>6. y \o t = v
  <2>1. y \o t \in Seq(S)
    BY <1>2, Joined
  <2> QED
    BY <1>5, <2>1, ConcatSimplifications
<1> QED
  BY <1>4, <1>6 DEF x, y
-----------------------------------------------------------------------------
(* What the client sends, and what scanf makes of it.                      *)

Number == Line(Len(code))
Data == code \o <<NEWLINE>>
stream == stdin \o (sock \o up)
other == {k \in DOMAIN stdin : ~ IsDigit(stdin[k])}

(* The recursion behind Figures: the figures of k \div 10, then one more.  *)
Written(f, k) ==
  IF k < 10 THEN <<Digit(k)>> ELSE Append(f[k \div 10], Digit(k % 10))
Writes(f, n) == \A k \in 0 .. n : f[k] = Written(f, k)

LEMMA DigitIs ==
  /\ \A d \in 0 .. 9 : Digit(d) \in Byte /\ IsDigit(Digit(d))
  /\ \A k \in Nat : Digit(k % 10) \in Byte /\ IsDigit(Digit(k % 10))
  /\ NEWLINE \in Byte /\ ~ IsDigit(NEWLINE)
<1>1. \A d \in 0 .. 9 : Digit(d) \in Byte /\ IsDigit(Digit(d))
  BY ByteIs DEF IsDigit, Digit
<1>2. \A k \in Nat : k % 10 \in 0 .. 9
  OBVIOUS
<1>3. NEWLINE \in Byte /\ ~ IsDigit(NEWLINE)
  BY ByteIs DEF IsDigit, NEWLINE, Digit
<1> QED
  BY <1>1, <1>2, <1>3

LEMMA Tenth == \A k \in Nat : k >= 10 => k \div 10 \in 0 .. k - 1
  OBVIOUS

LEMMA WrittenIs ==
  ASSUME NEW k \in Nat, NEW f, k >= 10 => f[k \div 10] \in Seq(Byte)
  PROVE  Written(f, k) \in Seq(Byte)
<1>1. CASE k < 10
  <2>1. Digit(k) \in Byte
    BY <1>1, DigitIs
  <2> QED
    BY <1>1, <2>1 DEF Written
<1>2. CASE k >= 10
  <2>1. Digit(k % 10) \in Byte /\ f[k \div 10] \in Seq(Byte)
    BY <1>2, DigitIs
  <2> QED
    BY <1>2, <2>1 DEF Written
<1> QED
  BY <1>1, <1>2

(* There is such a function: a least number without one would get one from *)
(* the number before it.                                                   *)
LEMMA CanBeWritten ==
  ASSUME NEW n \in Nat
  PROVE  \E f \in [0 .. n -> Seq(Byte)] : Writes(f, n)
<1> DEFINE can(m) == \E f \in [0 .. m -> Seq(Byte)] : Writes(f, m)
           T == {m \in Nat : ~ can(m)}
<1> SUFFICES can(n)
  OBVIOUS
<1> SUFFICES ASSUME T # {} PROVE FALSE
  <2> HIDE DEF can
  <2> QED
    OBVIOUS
<1>1. PICK m \in T : \A k \in T : m <= k
  <2>1. T \in SUBSET Nat
    OBVIOUS
  <2> HIDE DEF T
  <2> QED
    BY <2>1, Least
<1>2. m \in Nat /\ ~ can(m)
  <2> HIDE DEF can
  <2> QED
    OBVIOUS
<1>3. \E f : /\ \A k \in 0 .. m - 1 : f[k] \in Seq(Byte)
             /\ \A k \in 0 .. m - 1 : f[k] = Written(f, k)
  <2>1. CASE m = 0
    BY <2>1
  <2>2. CASE m # 0
    <3>1. m - 1 \in Nat /\ ~ (m <= m - 1)
      BY <1>2, <2>2
    <3>2. m - 1 \notin T
      BY <1>1, <3>1
    <3>3. PICK f \in [0 .. m - 1 -> Seq(Byte)] : Writes(f, m - 1)
      BY <3>1, <3>2
    <3> QED
      BY <3>3 DEF Writes
  <2> QED
    BY <2>1, <2>2
<1>4. PICK f : /\ \A k \in 0 .. m - 1 : f[k] \in Seq(Byte)
               /\ \A k \in 0 .. m - 1 : f[k] = Written(f, k)
  BY <1>3
<1> HIDE DEF T
<1> DEFINE g == [k \in 0 .. m |-> IF k = m THEN Written(f, m) ELSE f[k]]
<1>5. Written(f, m) \in Seq(Byte)
  <2>1. m >= 10 => f[m \div 10] \in Seq(Byte)
    BY <1>2, <1>4, Tenth
  <2> QED
    BY <1>2, <2>1, WrittenIs
<1>6. g \in [0 .. m -> Seq(Byte)]
  BY <1>2, <1>4, <1>5
<1>7. ASSUME NEW k \in 0 .. m PROVE g[k] = Written(f, k)
  BY <1>2, <1>4, <1>7
<1>8. ASSUME NEW k \in 0 .. m PROVE Written(g, k) = Written(f, k)
  <2>1. k >= 10 => g[k \div 10] = f[k \div 10]
    <3> SUFFICES ASSUME k >= 10 PROVE g[k \div 10] = f[k \div 10]
      OBVIOUS
    <3>1. k \div 10 \in 0 .. m /\ k \div 10 # m
      BY <1>2, Tenth
    <3> QED
      BY <3>1
  <2> HIDE DEF g
  <2> QED
    BY <2>1 DEF Written
<1> HIDE DEF g
<1>9. Writes(g, m)
  BY <1>7, <1>8 DEF Writes
<1> QED
  BY <1>2, <1>6, <1>9

LEMMA FiguresAre ==
  ASSUME NEW n \in Nat
  PROVE  \E f \in [0 .. n -> Seq(Byte)] : Writes(f, n) /\ Figures(n) = f[n]
<1> DEFINE figures == CHOOSE f : f = [k \in 0 .. n |-> Written(f, k)]
<1>1. PICK f \in [0 .. n -> Seq(Byte)] : Writes(f, n)
  BY CanBeWritten
<1>2. f = [k \in 0 .. n |-> Written(f, k)]
  BY <1>1 DEF Writes
<1>3. figures = [k \in 0 .. n |-> Written(figures, k)]
  BY <1>2
<1>4. Figures(n) = figures[n]
  BY DEF Figures, Written
<1> HIDE DEF figures
<1>5. Writes(figures, n)
  <2>1. \A k \in 0 .. n : figures[k] = Written(figures, k)
    BY <1>3
  <2> QED
    BY <2>1 DEF Writes
<1> DEFINE T == {k \in 0 .. n : figures[k] \notin Seq(Byte)}
<1>6. T = {}
  <2> SUFFICES ASSUME T # {} PROVE FALSE
    OBVIOUS
  <2>1. PICK k \in T : \A l \in T : k <= l
    <3>1. T \in SUBSET Nat
      OBVIOUS
    <3> HIDE DEF T
    <3> QED
      BY <3>1, Least
  <2>2. k \in 0 .. n /\ figures[k] \notin Seq(Byte)
    OBVIOUS
  <2>3. k >= 10 => figures[k \div 10] \in Seq(Byte)
    <3> SUFFICES ASSUME k >= 10 PROVE figures[k \div 10] \in Seq(Byte)
      OBVIOUS
    <3>1. k \div 10 \in 0 .. n /\ ~ (k <= k \div 10)
      BY <2>2, Tenth
    <3> QED
      BY <2>1, <3>1
  <2>4. Written(figures, k) \in Seq(Byte)
    BY <2>2, <2>3, WrittenIs
  <2> QED
    BY <1>5, <2>2, <2>4 DEF Writes
<1>7. figures \in [0 .. n -> Seq(Byte)]
  BY <1>3, <1>6
<1> QED
  BY <1>4, <1>5, <1>7

(* A number is written in digits, at least one, and a newline is none.     *)
LEMMA LineIs ==
  ASSUME NEW n \in Nat
  PROVE  /\ Figures(n) \in Seq(Byte) /\ Len(Figures(n)) \in Nat \ {0}
         /\ \A k \in 1 .. Len(Figures(n)) : IsDigit(Figures(n)[k])
         /\ <<NEWLINE>> \in Seq(Byte) /\ Len(<<NEWLINE>>) = 1
         /\ ~ IsDigit(NEWLINE)
         /\ Line(n) = Figures(n) \o <<NEWLINE>>
<1>1. PICK f \in [0 .. n -> Seq(Byte)] : Writes(f, n) /\ Figures(n) = f[n]
  BY FiguresAre
<1> DEFINE good(s) == Len(s) # 0 /\ \A j \in 1 .. Len(s) : IsDigit(s[j])
           T == {k \in 0 .. n : ~ good(f[k])}
<1>2. T = {}
  <2> SUFFICES ASSUME T # {} PROVE FALSE
    OBVIOUS
  <2>1. PICK k \in T : \A l \in T : k <= l
    <3>1. T \in SUBSET Nat
      OBVIOUS
    <3> HIDE DEF T
    <3> QED
      BY <3>1, Least
  <2>2. k \in 0 .. n /\ ~ good(f[k]) /\ f[k] = Written(f, k)
    BY <1>1 DEF Writes
  <2>3. CASE k < 10
    <3>1. IsDigit(Digit(k)) /\ f[k] = <<Digit(k)>>
      <4>1. k \in 0 .. 9
        BY <2>2, <2>3
      <4>2. f[k] = <<Digit(k)>>
        BY <2>2, <2>3 DEF Written
      <4> QED
        BY <4>1, <4>2, DigitIs
    <3> QED
      BY <2>2, <3>1
  <2>4. CASE k >= 10
    <3> DEFINE s == f[k \div 10]
    <3>1. k \div 10 \in 0 .. n /\ ~ (k <= k \div 10)
      BY <2>2, <2>4, Tenth
    <3>2. s \in Seq(Byte) /\ good(s)
      BY <1>1, <2>1, <3>1
    <3> DEFINE c == Digit(k % 10)
    <3>3. f[k] = Append(s, c)
      BY <2>2, <2>4 DEF Written
    <3>4. IsDigit(c) /\ c \in Byte
      <4>1. k \in Nat
        BY <2>2
      <4> QED
        BY <4>1, DigitIs
    <3> HIDE DEF s, c
    <3>5. /\ Len(f[k]) = Len(s) + 1 /\ Len(s) \in Nat /\ f[k][Len(s) + 1] = c
          /\ \A j \in 1 .. Len(s) : f[k][j] = s[j]
      BY <3>2, <3>3, <3>4
    <3>6. ASSUME NEW j \in 1 .. Len(s) + 1 PROVE IsDigit(f[k][j])
      <4>1. CASE j = Len(s) + 1
        BY <3>4, <3>5, <4>1
      <4>2. CASE j # Len(s) + 1
        <5>1. j \in 1 .. Len(s)
          BY <3>5, <4>2
        <5> QED
          BY <3>2, <3>5, <5>1
      <4> QED
        BY <4>1, <4>2
    <3>7. good(f[k])
      BY <3>5, <3>6
    <3> QED
      BY <2>2, <3>7
  <2> QED
    BY <2>2, <2>3, <2>4
<1>3. f[n] \in Seq(Byte) /\ good(f[n])
  BY <1>1, <1>2
<1> QED
  BY <1>1, <1>3, DigitIs DEF Line

(* The recursion behind Decimal.                                           *)
Reads(value, n) ==
  \A k \in 1 .. n : value[k] = 10 * value[k - 1] + stdin[k] - 48

LEMMA DecimalIs ==
  ASSUME stdin \in Seq(Byte), NEW n \in 0 .. Len(stdin)
  PROVE  \E f : /\ f[0] = 0 /\ Reads(f, n) /\ Decimal(n) = f[n]
                /\ \A k \in 0 .. n : f[k] \in Int
<1> DEFINE h == [k \in 1 .. n |-> [x \in Int |-> 10 * x + stdin[k] - Digit(0)]]
           more(f, k) == IF k = 0 THEN 0 ELSE 10 * f[k - 1] + stdin[k] - Digit(0)
           value == CHOOSE g : g = [k \in 0 .. n |-> more(g, k)]
<1>1. \A k \in 1 .. n : stdin[k] \in Int
  <2> SUFFICES ASSUME NEW k \in 1 .. n PROVE stdin[k] \in Int
    OBVIOUS
  <2>1. k \in 1 .. Len(stdin)
    OBVIOUS
  <2>2. stdin[k] \in Byte
    BY <2>1
  <2> QED
    BY <2>2, ByteIs
<1>2. ASSUME NEW k \in 1 .. n, NEW x \in Int
      PROVE  h[k][x] = 10 * x + stdin[k] - Digit(0) /\ h[k][x] \in Int
  BY <1>1 DEF Digit
<1> HIDE DEF h
<1>3. PICK f \in [0 .. n -> Int] : Follows(f, 0, h, n)
  <2>1. 0 \in Int /\ n \in Nat
    OBVIOUS
  <2>2. Keeps(h, n, Int)
    BY <1>2 DEF Keeps
  <2> QED
    BY <2>1, <2>2, Recursion
<1>4. f = [k \in 0 .. n |-> more(f, k)]
  <2>1. ASSUME NEW k \in 0 .. n PROVE f[k] = more(f, k)
    <3>1. CASE k = 0
      BY <1>3, <3>1 DEF Follows
    <3>2. CASE k # 0
      <4>1. k \in 1 .. n /\ k - 1 \in 0 .. n
        BY <3>2
      <4>2. f[k - 1] \in Int /\ f[k] = h[k][f[k - 1]]
        BY <1>3, <4>1 DEF Follows
      <4> QED
        BY <1>2, <3>2, <4>1, <4>2
    <3> QED
      BY <3>1, <3>2
  <2> HIDE DEF more
  <2> QED
    BY <2>1
<1>5. value = [k \in 0 .. n |-> more(value, k)]
  <2> HIDE DEF more
  <2> QED
    BY <1>4
<1>6. Decimal(n) = value[n]
  BY DEF Decimal
<1> HIDE DEF value
<1>7. ASSUME NEW k \in 0 .. n PROVE value[k] = more(value, k)
  <2> HIDE DEF more
  <2> QED
    BY <1>5
<1>8. value[0] = 0
  BY <1>7
<1>9. ASSUME NEW k \in 1 .. n
      PROVE  value[k] = 10 * value[k - 1] + stdin[k] - 48
  <2>1. k \in 0 .. n /\ k # 0
    OBVIOUS
  <2>2. value[k] = more(value, k)
    BY <1>7, <2>1
  <2> QED
    BY <2>1, <2>2 DEF Digit
<1>10. \A k \in 0 .. n : value[k] \in Int
  <2>1. ASSUME NEW k \in 1 .. n, value[k - 1] \in Int PROVE value[k] \in Int
    <3> DEFINE a == value[k - 1]
               b == stdin[k]
    <3>1. a \in Int /\ b \in Int
      BY <1>1, <2>1
    <3>2. value[k] = 10 * a + b - 48
      BY <1>9
    <3> HIDE DEF a, b, more
    <3>3. 10 * a + b - 48 \in Int
      BY ONLY <3>1
    <3> QED
      BY ONLY <3>2, <3>3
  <2>2. value[0] \in Int /\ n \in Nat
    BY <1>8
  <2> QED
    BY <2>1, <2>2, Induction
<1> QED
  BY <1>6, <1>8, <1>9, <1>10 DEF Reads

(* What is written in decimal is read as the same number.                  *)
LEMMA FiguresRead ==
  ASSUME NEW n \in Nat, stdin \in Seq(Byte), Len(Figures(n)) <= Len(stdin),
         \A k \in 1 .. Len(Figures(n)) : stdin[k] = Figures(n)[k]
  PROVE  Decimal(Len(Figures(n))) = n
<1> DEFINE d == Len(Figures(n))
<1>1. PICK f \in [0 .. n -> Seq(Byte)] : Writes(f, n) /\ Figures(n) = f[n]
  BY FiguresAre
<1>2. d \in 0 .. Len(stdin)
  BY LineIs
<1>3. PICK v : /\ v[0] = 0 /\ Reads(v, d) /\ Decimal(d) = v[d]
               /\ \A k \in 0 .. d : v[k] \in Int
  <2> HIDE DEF d
  <2> QED
    BY <1>2, DecimalIs
<1> DEFINE begins(s) == Len(s) <= d /\ \A j \in 1 .. Len(s) : stdin[j] = s[j]
           T == {k \in 0 .. n : begins(f[k]) /\ v[Len(f[k])] # k}
<1>4. T = {}
  <2> SUFFICES ASSUME T # {} PROVE FALSE
    OBVIOUS
  <2>1. PICK k \in T : \A l \in T : k <= l
    <3>1. T \in SUBSET Nat
      OBVIOUS
    <3> HIDE DEF T
    <3> QED
      BY <3>1, Least
  <2>2. k \in 0 .. n /\ begins(f[k]) /\ v[Len(f[k])] # k /\ f[k] = Written(f, k)
    BY <1>1 DEF Writes
  <2> HIDE DEF d
  <2>3. CASE k < 10
    <3>1. f[k] = <<Digit(k)>>
      BY <2>2, <2>3 DEF Written
    <3>2. Len(f[k]) = 1 /\ f[k][1] = 48 + k
      BY <3>1 DEF Digit
    <3>3. 1 \in 1 .. d /\ stdin[1] = 48 + k
      <4>1. 1 <= d /\ \A j \in 1 .. 1 : stdin[j] = f[k][j]
        BY <2>2, <3>2
      <4>2. 1 \in 1 .. 1
        OBVIOUS
      <4>3. stdin[1] = f[k][1]
        BY <4>1, <4>2
      <4>4. 1 \in 1 .. d
        BY <1>2, <4>1
      <4> QED
        BY <3>2, <4>3, <4>4
    <3>4. v[1] = 10 * v[0] + stdin[1] - 48
      BY <1>3, <3>3 DEF Reads
    <3>5. v[1] = k
      BY <1>3, <2>2, <3>3, <3>4
    <3> QED
      BY <2>2, <3>2, <3>5
  <2>4. CASE k >= 10
    <3> DEFINE s == f[k \div 10]
               l == Len(s)
    <3>1. k \div 10 \in 0 .. n /\ ~ (k <= k \div 10)
      BY <2>2, <2>4, Tenth
    <3>2. s \in Seq(Byte) /\ f[k] = Append(s, Digit(k % 10))
      BY <1>1, <2>2, <2>4, <3>1 DEF Written
    <3>3. /\ l \in Nat /\ Len(f[k]) = l + 1 /\ f[k][l + 1] = 48 + (k % 10)
          /\ \A j \in 1 .. l : f[k][j] = s[j]
      <4> HIDE DEF s
      <4> QED
        BY <3>2 DEF Digit
    <3>4. begins(s) /\ l + 1 \in 1 .. d /\ stdin[l + 1] = 48 + (k % 10)
      <4>1. /\ l + 1 <= d
            /\ \A j \in 1 .. l + 1 : stdin[j] = f[k][j]
        BY <2>2, <3>3
      <4>2. l \in Nat /\ d \in Nat
        BY <1>2, <3>3
      <4>3. /\ l <= d /\ l + 1 \in 1 .. d /\ l + 1 \in 1 .. l + 1
            /\ \A j \in 1 .. l : j \in 1 .. l + 1
        BY <4>1, <4>2
      <4>4. stdin[l + 1] = 48 + (k % 10)
        BY <3>3, <4>1, <4>3
      <4>5. \A j \in 1 .. l : stdin[j] = s[j]
        BY <3>3, <4>1, <4>3
      <4> QED
        BY <4>3, <4>4, <4>5
    <3>5. v[l] = k \div 10
      BY <2>1, <3>1, <3>4
    <3> HIDE DEF s, l
    <3>6. v[l + 1] = 10 * v[l] + stdin[l + 1] - 48
      <4>1. (l + 1) - 1 = l
        BY <3>3
      <4> QED
        BY <1>3, <3>4, <4>1 DEF Reads
    <3>7. 10 * (k \div 10) + (k % 10) = k
      BY <2>2
    <3>8. k \div 10 \in Int /\ k % 10 \in Int
      BY <2>2
    <3>9. v[l + 1] = k
      BY <3>4, <3>5, <3>6, <3>7, <3>8
    <3> QED
      BY <2>2, <3>3, <3>9
  <2> QED
    BY <2>2, <2>3, <2>4
<1>5. begins(f[n]) /\ n \in 0 .. n
  BY <1>1
<1>6. v[d] = n
  BY <1>1, <1>4, <1>5
<1> QED
  BY <1>3, <1>6
-----------------------------------------------------------------------------
(* The inductive invariant: where the bytes are that the client has sent.  *)

(* Until scanf has returned, the client cannot have been told to go on;    *)
(* nothing that it sent is lost.                                           *)
BeforeGo ==
  /\ down \in Seq((Questions \cup Answers) \ {"go"})
  /\ \/ client \in {"key", "gone"} /\ stream = <<>>
     \/ client \in {"number", "gone"} /\ stream = Number
     \/ client \in {"answer", "gone"} /\ early /\ stream = Number \o Data

(* scanf has taken the figures and leaves the newline in its buffer; the   *)
(* code is behind that, all of it in the socket unless it was early.       *)
Scanned ==
  \/ client = "gone" /\ sock = <<>> /\ up = <<>>
  \/ /\ clientcodesize = Len(code) /\ stdin # <<>>
     /\ \/ client \in {"number", "gone"} /\ stream = <<NEWLINE>>
        \/ /\ client \in {"answer", "gone"} /\ stream = <<NEWLINE>> \o Data
           /\ early \/ Len(stdin) = 1

Taken ==
  \/ clientcode = code
  \/ /\ early /\ client \in {"answer", "gone"}
     /\ clientcode = Tail(code) \o <<NEWLINE>>
  \/ client = "gone" /\ clientcode = <<>>

Typed ==
  /\ client \in {"key", "number", "answer", "gone"}
  /\ code \in Codes
  /\ early \in BOOLEAN
  /\ up \in Seq(Byte) /\ sock \in Seq(Byte) /\ stdin \in Seq(Byte)
  /\ down \in Seq(Questions \cup Answers)
  /\ pc \in {"greet", "scanf", "read", "construct", "run", "compare", "exit"}
  /\ clientcodesize \in Nat
  /\ clientcode \in Seq(Byte)
  /\ answer \in Answers \cup {"none"}

IInv ==
  /\ Typed
  /\ pc \in {"greet", "scanf"} => BeforeGo
  /\ pc = "read" => Scanned
  /\ pc \in {"construct", "run", "compare"} => Taken

LEMMA Session ==
  ASSUME Typed
  PROVE  /\ code \in Seq(Byte) /\ Len(code) \in Nat
         /\ Number \in Seq(Byte) /\ Data \in Seq(Byte) /\ stream \in Seq(Byte)
         /\ Number # <<>> /\ <<NEWLINE>> \in Seq(Byte)
         /\ Len(stdin) \in Nat /\ Len(sock) \in Nat /\ Len(up) \in Nat
<1>1. code \in Seq(Byte) /\ Len(code) \in Nat
  BY SessionAssumption DEF Typed
<1> DEFINE F == Figures(Len(code))
<1>2. /\ F \in Seq(Byte) /\ <<NEWLINE>> \in Seq(Byte) /\ Len(<<NEWLINE>>) = 1
      /\ Number = F \o <<NEWLINE>>
  BY <1>1, LineIs DEF Number
<1> HIDE DEF F
<1>3. Number \in Seq(Byte) /\ Len(Number) = Len(F) + 1 /\ Len(F) \in Nat
  BY <1>2, Joined
<1>4. Number # <<>>
  BY <1>3
<1>5. Data \in Seq(Byte)
  BY <1>1, <1>2, Joined DEF Data
<1>6. stream \in Seq(Byte)
  <2>1. sock \o up \in Seq(Byte)
    BY Joined DEF Typed
  <2> QED
    BY <2>1, Joined DEF Typed, stream
<1> QED
  BY <1>1, <1>2, <1>3, <1>4, <1>5, <1>6 DEF Typed

LEMMA InitIInv == Init => IInv
<1> SUFFICES ASSUME Init PROVE IInv
  OBVIOUS
<1>1. Typed
  <2>1. clientcodesize \in Nat
    BY SessionAssumption DEF Init
  <2>2. /\ up \in Seq(Byte) /\ sock \in Seq(Byte) /\ stdin \in Seq(Byte)
        /\ clientcode \in Seq(Byte) /\ down \in Seq(Questions \cup Answers)
    BY DEF Init
  <2> QED
    BY <2>1, <2>2 DEF Init, Typed
<1>2. stream = <<>>
  BY DEF Init, stream
<1>3. BeforeGo
  BY <1>2 DEF Init, BeforeGo
<1> QED
  BY <1>1, <1>3 DEF Init, IInv

(* Moving bytes along, and adding some.                                    *)
LEMMA Moved ==
  ASSUME NEW a \in Seq(Byte), NEW b \in Seq(Byte), NEW c \in Seq(Byte)
  PROVE  (a \o b) \o c = a \o (b \o c)
  BY ConcatAssociative

(* What is appended to the last of three pieces is appended to all.        *)
LEMMA MovedTwice ==
  ASSUME NEW v \in Seq(Byte),
         stdin \in Seq(Byte), sock \in Seq(Byte), up \in Seq(Byte)
  PROVE  stdin \o (sock \o (up \o v)) = stream \o v
<1> DEFINE x == sock \o up
<1>1. x \in Seq(Byte)
  BY Joined
<1>2. x \o v = sock \o (up \o v)
  BY Moved
<1>3. stream = stdin \o x
  BY DEF stream
<1> HIDE DEF x
<1>4. (stdin \o x) \o v = stdin \o (x \o v)
  BY <1>1, Moved
<1> QED
  BY <1>2, <1>3, <1>4

LEMMA DeliverStep == IInv /\ Deliver => IInv'
<1> SUFFICES ASSUME IInv, Deliver PROVE IInv'
  OBVIOUS
<1>1. Typed /\ UNCHANGED <<client, code, early, down, pc, stdin,
                           clientcodesize, clientcode, answer>>
  BY DEF IInv, Deliver, client_vars, server_vars
<1>2. PICK n \in 1 .. Len(up) : /\ sock' = sock \o SubSeq(up, 1, n)
                                /\ up' = SubSeq(up, n + 1, Len(up))
  BY DEF Deliver
<1>3. up \in Seq(Byte) /\ sock \in Seq(Byte) /\ n \in 0 .. Len(up)
  BY <1>1 DEF Typed
<1> DEFINE x == SubSeq(up, 1, n)
           y == SubSeq(up, n + 1, Len(up))
<1>4. x \in Seq(Byte) /\ y \in Seq(Byte) /\ x \o y = up
  BY <1>3, Cut
<1>5. sock' = sock \o x /\ up' = y
  BY <1>2
<1> HIDE DEF x, y
<1>6. sock' \in Seq(Byte) /\ up' \in Seq(Byte)
  BY <1>3, <1>4, <1>5, Joined
<1>7. sock' \o up' = sock \o up
  <2>1. (sock \o x) \o y = sock \o (x \o y)
    BY <1>3, <1>4, Moved
  <2> QED
    BY <1>4, <1>5, <2>1
<1>8. stream' = stream
  BY <1>1, <1>7 DEF stream
<1>9. Typed'
  BY <1>1, <1>6 DEF Typed
<1>10. Number' = Number /\ Data' = Data
  BY <1>1 DEF Number, Data
<1>11. up # <<>>
  BY DEF Deliver
<1> QED
  BY <1>1, <1>8, <1>9, <1>10, <1>11 DEF IInv, BeforeGo, Scanned, Taken

LEMMA FillStep == IInv /\ FillStdin => IInv'
<1> SUFFICES ASSUME IInv, FillStdin PROVE IInv'
  OBVIOUS
<1>1. /\ Typed /\ BeforeGo /\ pc = "scanf"
      /\ UNCHANGED <<client, code, early, up, down, pc, clientcodesize,
                     clientcode, answer>>
      /\ stdin' = stdin \o sock /\ sock' = <<>>
  BY DEF IInv, FillStdin, client_vars
<1>2. up \in Seq(Byte) /\ sock \in Seq(Byte) /\ stdin \in Seq(Byte)
  BY <1>1 DEF Typed
<1>3. stdin' \in Seq(Byte) /\ sock' \in Seq(Byte)
  BY <1>1, <1>2, Joined
<1>4. stream' = stream
  <2>1. <<>> \o up = up
    BY <1>2
  <2>2. (stdin \o sock) \o up = stdin \o (sock \o up)
    BY <1>2, Moved
  <2> QED
    BY <1>1, <2>1, <2>2 DEF stream
<1>5. Typed'
  BY <1>1, <1>3 DEF Typed
<1>6. BeforeGo'
  BY <1>1, <1>4 DEF BeforeGo, Number, Data
<1> QED
  BY <1>1, <1>5, <1>6 DEF IInv

LEMMA GreetStep == IInv /\ Greet => IInv'
<1> SUFFICES ASSUME IInv, Greet PROVE IInv'
  OBVIOUS
<1> DEFINE M == (Questions \cup Answers) \ {"go"}
<1>1. /\ Typed /\ BeforeGo /\ pc = "greet" /\ pc' = "scanf"
      /\ UNCHANGED <<client, code, early, up, sock, stdin, clientcodesize,
                     clientcode, answer>>
      /\ down' = down \o <<"key", "ask">>
  BY DEF IInv, Greet, client_vars, Flushed
<1>2. down' \in Seq(M)
  <2>1. "key" \in M /\ "ask" \in M
    BY DEF Questions
  <2> HIDE DEF M
  <2>2. <<"key", "ask">> \in Seq(M)
    BY <2>1
  <2>3. down \in Seq(M)
    BY <1>1 DEF BeforeGo, M
  <2> QED
    BY <1>1, <2>2, <2>3, Joined
<1>3. down' \in Seq(Questions \cup Answers)
  BY <1>2, SeqMonotonic
<1>4. Typed'
  BY <1>1, <1>3 DEF Typed
<1>5. BeforeGo'
  BY <1>1, <1>2 DEF BeforeGo, Number, Data, stream
<1> QED
  BY <1>1, <1>4, <1>5 DEF IInv

(* What the client receives is no longer on its way.                       *)
LEMMA Received ==
  ASSUME NEW S, down \in Seq(S), NEW n, Receive(n)
  PROVE  down' \in Seq(S)
<1>1. n \in 0 .. Len(down) /\ down' = SubSeq(down, n + 1, Len(down))
  BY DEF Receive
<1> QED
  BY <1>1, Cut

LEMMA NumberStep == IInv /\ SendNumber => IInv'
<1> SUFFICES ASSUME IInv, SendNumber PROVE IInv'
  OBVIOUS
<1>1. /\ Typed /\ client = "key" /\ client' = "number" /\ up' = up \o Number
      /\ UNCHANGED <<code, early, sock, pc, stdin, clientcodesize, clientcode,
                     answer>>
  BY DEF IInv, SendNumber, server_vars, Number
<1>2. PICK n : Receive(n)
  BY DEF SendNumber
<1>3. /\ up \in Seq(Byte) /\ sock \in Seq(Byte) /\ stdin \in Seq(Byte)
      /\ Number \in Seq(Byte) /\ stream \in Seq(Byte)
  BY <1>1, Session DEF Typed
<1>4. up' \in Seq(Byte)
  BY <1>1, <1>3, Joined
<1>5. stream' = stream \o Number
  <2>1. stream' = stdin \o (sock \o (up \o Number))
    BY <1>1 DEF stream
  <2>2. stdin \o (sock \o (up \o Number)) = stream \o Number
    BY <1>3, MovedTwice
  <2> QED
    BY <2>1, <2>2
<1>6. down' \in Seq(Questions \cup Answers)
  BY <1>1, <1>2, Received DEF Typed
<1>7. Typed'
  BY <1>1, <1>4, <1>6 DEF Typed
<1>8. ASSUME BeforeGo PROVE BeforeGo'
  <2>1. down' \in Seq((Questions \cup Answers) \ {"go"})
    BY <1>2, <1>8, Received DEF BeforeGo
  <2>2. stream = <<>>
    BY <1>1, <1>8 DEF BeforeGo
  <2>3. stream' = Number
    BY <1>3, <1>5, <2>2
  <2>4. Number' = Number
    BY <1>1 DEF Number
  <2> QED
    BY <1>1, <2>1, <2>3, <2>4 DEF BeforeGo
<1>9. ~ Scanned
  BY <1>1 DEF Scanned
<1>10. Taken => Taken'
  BY <1>1 DEF Taken
<1> QED
  BY <1>1, <1>7, <1>8, <1>9, <1>10 DEF IInv

LEMMA CodeStep == IInv /\ SendCode => IInv'
<1> SUFFICES ASSUME IInv, SendCode PROVE IInv'
  OBVIOUS
<1>1. /\ Typed /\ client = "number" /\ client' = "answer"
      /\ up' = up \o code \o <<NEWLINE>>
      /\ UNCHANGED <<code, sock, pc, stdin, clientcodesize, clientcode, answer>>
  BY DEF IInv, SendCode, server_vars
<1>2. PICK n : Receive(n) /\ early' = ~ Heard("go", n)
  BY DEF SendCode
<1>3. /\ up \in Seq(Byte) /\ sock \in Seq(Byte) /\ stdin \in Seq(Byte)
      /\ code \in Seq(Byte) /\ <<NEWLINE>> \in Seq(Byte) /\ Data \in Seq(Byte)
      /\ Len(stdin) \in Nat
  BY <1>1, Session DEF Typed
<1>4. up' = up \o Data
  BY <1>1, <1>3, Moved DEF Data
<1>5. up' \in Seq(Byte)
  BY <1>3, <1>4, Joined
<1>6. stream' = stream \o Data
  <2>1. stream' = stdin \o (sock \o (up \o Data))
    BY <1>1, <1>4 DEF stream
  <2>2. stdin \o (sock \o (up \o Data)) = stream \o Data
    BY <1>3, MovedTwice
  <2> QED
    BY <2>1, <2>2
<1>7. down' \in Seq(Questions \cup Answers)
  BY <1>1, <1>2, Received DEF Typed
<1>8. Typed'
  BY <1>1, <1>2, <1>5, <1>7 DEF Typed
<1>9. Number' = Number /\ Data' = Data
  BY <1>1 DEF Number, Data
<1>10. ASSUME BeforeGo PROVE BeforeGo'
  <2> DEFINE M == (Questions \cup Answers) \ {"go"}
  <2>1. down \in Seq(M) /\ stream = Number
    BY <1>1, <1>10 DEF BeforeGo
  <2>2. down' \in Seq(M)
    BY <1>2, <2>1, Received
  <2>3. ~ Heard("go", n)
    <3> SUFFICES ASSUME NEW k \in 1 .. n, down[k] = "go" PROVE FALSE
      BY DEF Heard
    <3>1. k \in 1 .. Len(down)
      BY <1>2, <2>1 DEF Receive
    <3>2. down[k] \in M
      BY <2>1, <3>1, ElementOfSeq
    <3> QED
      BY <3>2
  <2> QED
    BY <1>1, <1>2, <1>6, <1>9, <2>1, <2>2, <2>3 DEF BeforeGo
<1>11. ASSUME Scanned PROVE Scanned'
  <2>1. clientcodesize = Len(code) /\ stdin # <<>> /\ stream = <<NEWLINE>>
    BY <1>1, <1>11 DEF Scanned
  <2>2. Len(stdin) = 1
    <3>1. sock \o up \in Seq(Byte) /\ Len(sock \o up) \in Nat
      BY <1>3, Joined
    <3>2. Len(stream) = Len(stdin) + Len(sock \o up)
      BY <1>3, <3>1, Joined DEF stream
    <3>3. Len(stream) = 1
      BY <2>1
    <3>4. Len(stdin) # 0
      BY <1>3, <2>1
    <3>5. \A a, b \in Nat : a + b = 1 /\ a # 0 => a = 1
      OBVIOUS
    <3> QED
      BY <1>3, <3>1, <3>2, <3>3, <3>4, <3>5
  <2> QED
    BY <1>1, <1>6, <1>9, <2>1, <2>2 DEF Scanned
<1>12. Taken => Taken'
  BY <1>1 DEF Taken
<1> QED
  BY <1>1, <1>8, <1>10, <1>11, <1>12 DEF IInv

(* Nothing is sent by a client that is gone.                               *)
LEMMA GoneStep ==
  IInv /\ (PrintAnswer \/ EndOfSession \/ Leave) => IInv'
<1> SUFFICES ASSUME IInv, PrintAnswer \/ EndOfSession \/ Leave PROVE IInv'
  OBVIOUS
<1>1. /\ Typed /\ client # "gone" /\ client' = "gone"
      /\ UNCHANGED <<code, early, up, sock, pc, stdin, clientcodesize,
                     clientcode, answer>>
  BY DEF IInv, PrintAnswer, EndOfSession, Leave, server_vars
<1>2. \/ down' = down
      \/ \E n : Receive(n)
  BY DEF PrintAnswer, EndOfSession, Leave
<1>3. ASSUME NEW S, down \in Seq(S) PROVE down' \in Seq(S)
  BY <1>2, <1>3, Received
<1>4. Typed'
  BY <1>1, <1>3 DEF Typed
<1>5. stream' = stream /\ Number' = Number /\ Data' = Data
  BY <1>1 DEF stream, Number, Data
<1>6. BeforeGo => BeforeGo'
  BY <1>1, <1>3, <1>5 DEF BeforeGo, Typed
<1>7. Scanned => Scanned'
  BY <1>1, <1>5 DEF Scanned, Typed
<1>8. Taken => Taken'
  BY <1>1 DEF Taken, Typed
<1> QED
  BY <1>1, <1>4, <1>6, <1>7, <1>8 DEF IInv

(* What scanf finds when a number is all or the beginning of what it has   *)
(* not read: the figures end in front of the newline.                      *)
LEMMA NumberRead ==
  ASSUME NEW n \in Nat, NEW rest \in Seq(Byte), NEW w \in Seq(Byte),
         stdin \in Seq(Byte), stdin \o w = Line(n) \o rest
  PROVE  /\ other = {} => w # <<>>
         /\ other # {} =>
              /\ Min(other) - 1 \in 1 .. Len(stdin) - 1
              /\ Decimal(Min(other) - 1) = n
              /\ SubSeq(stdin, Min(other), Len(stdin)) \o w = <<NEWLINE>> \o rest
<1> DEFINE F == Figures(n)
           d == Len(F)
           L == Line(n) \o rest
<1>1. /\ F \in Seq(Byte) /\ d \in Nat \ {0}
      /\ \A k \in 1 .. d : IsDigit(F[k])
      /\ <<NEWLINE>> \in Seq(Byte) /\ Len(<<NEWLINE>>) = 1 /\ ~ IsDigit(NEWLINE)
      /\ Line(n) = F \o <<NEWLINE>>
  BY LineIs
<1> HIDE DEF F
<1>2. d \in Nat /\ d >= 1 /\ Len(stdin) \in Nat /\ Len(w) \in Nat /\ Len(rest) \in Nat
  BY <1>1
<1>3. /\ <<NEWLINE>> \o rest \in Seq(Byte)
      /\ Len(<<NEWLINE>> \o rest) = 1 + Len(rest)
      /\ (<<NEWLINE>> \o rest)[1] = NEWLINE
  <2>1. 1 \in 1 .. Len(<<NEWLINE>>) /\ <<NEWLINE>>[1] = NEWLINE
    BY <1>1
  <2> QED
    BY <1>1, <2>1, Joined
<1>4. L = F \o (<<NEWLINE>> \o rest)
  <2>1. F \in Seq(Byte) /\ <<NEWLINE>> \in Seq(Byte)
    BY <1>1
  <2>2. (F \o <<NEWLINE>>) \o rest = F \o (<<NEWLINE>> \o rest)
    BY <2>1, Moved
  <2> QED
    BY <1>1, <2>2
<1>5. /\ Len(L) = d + 1 + Len(rest) /\ L[d + 1] = NEWLINE
      /\ \A k \in 1 .. d : L[k] = F[k]
  <2> DEFINE v == <<NEWLINE>> \o rest
  <2>1. v \in Seq(Byte) /\ Len(v) = 1 + Len(rest) /\ v[1] = NEWLINE /\ L = F \o v
    BY <1>3, <1>4
  <2> HIDE DEF v, L
  <2>2. /\ Len(L) = d + Len(v) /\ \A k \in 1 .. d : L[k] = F[k]
        /\ \A k \in 1 .. Len(v) : L[d + k] = v[k]
    <3>1. F \in Seq(Byte) /\ v \in Seq(Byte)
      BY <1>1, <2>1
    <3>2. /\ Len(F \o v) = d + Len(v) /\ \A k \in 1 .. d : (F \o v)[k] = F[k]
          /\ \A k \in 1 .. Len(v) : (F \o v)[d + k] = v[k]
      BY <3>1, Joined
    <3> QED
      BY <2>1, <3>2
  <2>3. 1 \in 1 .. Len(v)
    BY <1>2, <2>1
  <2> QED
    BY <1>2, <2>1, <2>2, <2>3
<1>6. /\ Len(stdin) + Len(w) = Len(L)
      /\ \A k \in 1 .. Len(stdin) : stdin[k] = L[k]
  <2>1. L = stdin \o w
    OBVIOUS
  <2> HIDE DEF L
  <2> QED
    BY <2>1, Joined
<1> HIDE DEF L
<1>7. ASSUME d + 1 <= Len(stdin) PROVE d + 1 \in other
  <2>1. d + 1 \in 1 .. Len(stdin) /\ DOMAIN stdin = 1 .. Len(stdin)
    BY <1>2, <1>7
  <2>2. stdin[d + 1] = NEWLINE
    BY <1>5, <1>6, <2>1
  <2> QED
    BY <1>1, <2>1, <2>2 DEF other
<1>8. ASSUME other = {} PROVE w # <<>>
  <2>1. ~ (d + 1 <= Len(stdin))
    BY <1>7, <1>8
  <2>2. Len(w) # 0
    BY <1>2, <1>5, <1>6, <2>1
  <2> QED
    BY <2>2
<1>9. ASSUME other # {}
      PROVE  /\ Min(other) - 1 \in 1 .. Len(stdin) - 1
             /\ Decimal(Min(other) - 1) = n
             /\ SubSeq(stdin, Min(other), Len(stdin)) \o w = <<NEWLINE>> \o rest
  <2> DEFINE m == Min(other)
  <2>1. m \in other /\ \A k \in other : m <= k
    <3>1. other \in SUBSET Nat
      BY DEF other
    <3> QED
      BY <1>9, <3>1, MinIs
  <2> HIDE DEF m
  <2>2. m \in 1 .. Len(stdin) /\ ~ IsDigit(stdin[m])
    BY <2>1 DEF other
  <2>3. ~ (m <= d)
    <3> SUFFICES ASSUME m <= d PROVE FALSE
      OBVIOUS
    <3>1. m \in 1 .. d
      BY <1>2, <2>2
    <3> QED
      BY <1>1, <1>5, <1>6, <2>2, <3>1
  <2>4. m = d + 1 /\ d < Len(stdin)
    <3>1. m \in Nat /\ m <= Len(stdin) /\ d \in Nat
      BY <1>2, <2>2
    <3>2. d + 1 <= m /\ d + 1 <= Len(stdin)
      BY <1>2, <2>3, <3>1
    <3>3. m <= d + 1
      BY <1>7, <2>1, <3>2
    <3> QED
      BY <3>1, <3>2, <3>3
  <2>5. SubSeq(stdin, d + 1, Len(stdin)) \o w = <<NEWLINE>> \o rest
    <3>1. stdin \o w = F \o (<<NEWLINE>> \o rest) /\ d <= Len(stdin)
      BY <1>2, <1>4, <2>4 DEF L
    <3> QED
      BY <1>1, <1>3, <3>1, SameBeginning
  <2>6. Decimal(d) = n
    <3>1. d <= Len(stdin) /\ \A k \in 1 .. d : stdin[k] = F[k]
      BY <1>2, <1>5, <1>6, <2>4
    <3> QED
      BY <3>1, FiguresRead DEF F
  <2>7. m - 1 = d
    BY <1>2, <2>4
  <2>8. m - 1 \in 1 .. Len(stdin) - 1 /\ Decimal(m - 1) = n
        /\ SubSeq(stdin, m, Len(stdin)) \o w = <<NEWLINE>> \o rest
    <3>1. d \in 1 .. Len(stdin) - 1
      BY <1>2, <2>4
    <3> QED
      BY <2>4, <2>5, <2>6, <2>7, <3>1
  <2> QED
    BY <2>8 DEF m
<1> QED
  BY <1>8, <1>9

LEMMA ScanStep == IInv /\ Scanf => IInv'
<1> SUFFICES ASSUME IInv, Scanf PROVE IInv'
  OBVIOUS
<1> DEFINE n == IF other = {} THEN Len(stdin) ELSE Min(other) - 1
           w == sock \o up
<1>1. /\ Typed /\ BeforeGo /\ pc = "scanf" /\ pc' = "read"
      /\ UNCHANGED <<client, code, early, up, sock, clientcode, answer>>
      /\ NumberEnds \/ EndOfFile
  BY DEF IInv, Scanf, client_vars
<1>2. /\ clientcodesize' = IF n = 0 THEN clientcodesize ELSE Decimal(n)
      /\ stdin' = SubSeq(stdin, n + 1, Len(stdin))
      /\ down' = down \o <<"go">>
  BY DEF Scanf, Flushed, other
<1>3. /\ up \in Seq(Byte) /\ sock \in Seq(Byte) /\ stdin \in Seq(Byte)
      /\ down \in Seq(Questions \cup Answers) /\ clientcodesize \in Nat
      /\ DOMAIN stdin = 1 .. Len(stdin) /\ Len(stdin) \in Nat
  BY <1>1 DEF Typed
<1>4. /\ code \in Seq(Byte) /\ Len(code) \in Nat
      /\ Number \in Seq(Byte) /\ Data \in Seq(Byte) /\ <<NEWLINE>> \in Seq(Byte)
  BY <1>1, Session
<1>5. w \in Seq(Byte)
  BY <1>3, Joined
<1>6. stream = stdin \o w
  BY DEF stream
<1>7. other # {} <=> NumberEnds
  BY DEF NumberEnds, other
<1> HIDE DEF w
<1>8. down' \in Seq(Questions \cup Answers)
  <2>1. "go" \in Questions \cup Answers
    BY DEF Questions
  <2>2. <<"go">> \in Seq(Questions \cup Answers)
    BY <2>1
  <2> QED
    BY <1>2, <1>3, <2>2, Joined
<1>9. ASSUME NEW rest \in Seq(Byte), stream = Number \o rest
      PROVE  /\ other = {} => w # <<>>
             /\ other # {} =>
                  /\ clientcodesize' = Len(code)
                  /\ stdin' \in Seq(Byte) /\ stdin' # <<>>
                  /\ stdin' \o w = <<NEWLINE>> \o rest
  <2> DEFINE m == Min(other)
  <2>1. stdin \o w = Line(Len(code)) \o rest
    BY <1>6, <1>9 DEF Number
  <2>2. /\ other = {} => w # <<>>
        /\ other # {} =>
             /\ m - 1 \in 1 .. Len(stdin) - 1
             /\ Decimal(m - 1) = Len(code)
             /\ SubSeq(stdin, m, Len(stdin)) \o w = <<NEWLINE>> \o rest
    <3>1. /\ Len(code) \in Nat /\ w \in Seq(Byte)
          /\ rest \in Seq(Byte) /\ stdin \in Seq(Byte)
      BY <1>3, <1>4, <1>5
    <3> QED
      BY <2>1, <3>1, NumberRead
  <2> HIDE DEF m
  <2>3. ASSUME other # {}
        PROVE  /\ clientcodesize' = Len(code)
               /\ stdin' \in Seq(Byte) /\ stdin' # <<>>
               /\ stdin' \o w = <<NEWLINE>> \o rest
    <3>1. m \in Nat /\ 2 <= m /\ m <= Len(stdin)
      <4>1. m \in Nat
        <5>1. other \in SUBSET Nat
          BY DEF other
        <5> QED
          BY <2>3, <5>1, MinIs DEF m
      <4>2. m - 1 \in 1 .. Len(stdin) - 1
        BY <2>2, <2>3
      <4> QED
        BY <1>3, <4>1, <4>2
    <3>2. n = m - 1 /\ n # 0 /\ n + 1 = m
      BY <2>3, <3>1 DEF m
    <3>3. clientcodesize' = Len(code) /\ stdin' = SubSeq(stdin, m, Len(stdin))
      BY <1>2, <2>2, <2>3, <3>2
    <3>4. /\ SubSeq(stdin, m, Len(stdin)) \in Seq(Byte)
          /\ Len(SubSeq(stdin, m, Len(stdin))) = Len(stdin) - m + 1
      BY <1>3, <3>1
    <3>5. Len(stdin) - m + 1 # 0
      BY <1>3, <3>1
    <3>6. stdin' \in Seq(Byte) /\ Len(stdin') # 0
      BY <3>3, <3>4, <3>5
    <3>7. stdin' # <<>>
      BY <3>6
    <3> QED
      BY <2>2, <2>3, <3>3, <3>6, <3>7
  <2> QED
    BY <2>2, <2>3
<1>10. stream = Number => stream = Number \o <<>>
  BY <1>4
<1>11. <<>> \in Seq(Byte) /\ <<NEWLINE>> \o <<>> = <<NEWLINE>>
  BY <1>4
<1>12. CASE other = {}
  <2>1. client = "gone" /\ up = <<>> /\ sock = <<>>
    BY <1>1, <1>7, <1>12 DEF EndOfFile
  <2>2. w = <<>>
    BY <2>1 DEF w
  <2>3. stream # Number \o Data /\ stream # Number
    BY <1>4, <1>9, <1>10, <1>11, <1>12, <2>2
  <2>4. stream = <<>>
    BY <1>1, <2>3 DEF BeforeGo
  <2>5. stdin = <<>>
    <3>1. stdin \o <<>> = stdin
      BY <1>3
    <3> QED
      BY <1>6, <2>2, <2>4, <3>1
  <2>6. n = 0
    BY <1>12, <2>5
  <2> HIDE DEF n
  <2>7. clientcodesize' = clientcodesize /\ stdin' = SubSeq(stdin, 1, Len(stdin))
    BY <1>2, <2>6
  <2>8. stdin' \in Seq(Byte)
    BY <1>3, <2>7, SubSeqFull
  <2>9. Typed'
    BY <1>1, <1>3, <1>8, <2>7, <2>8 DEF Typed
  <2>10. Scanned'
    BY <1>1, <2>1 DEF Scanned
  <2> QED
    BY <1>1, <2>9, <2>10 DEF IInv
<1>13. CASE other # {}
  <2>1. stream # <<>>
    <3> SUFFICES ASSUME stream = <<>> PROVE FALSE
      OBVIOUS
    <3>1. stdin \in Seq(Byte) /\ w \in Seq(Byte) /\ Len(stdin \o w) = 0
      BY <1>3, <1>5, <1>6
    <3>2. Len(stdin) + Len(w) = 0 /\ Len(w) \in Nat
      BY <3>1, Joined
    <3>3. DOMAIN stdin = {}
      BY <1>3, <3>2
    <3> QED
      BY <1>13, <3>3 DEF other
  <2>2. PICK rest \in {<<>>, Data} :
           /\ stream = Number \o rest
           /\ rest = <<>> => client \in {"number", "gone"}
           /\ rest = Data => client \in {"answer", "gone"} /\ early
    <3>1. Data # <<>>
      <4>1. Len(Data) = Len(code) + 1
        BY <1>4, Joined DEF Data
      <4> QED
        BY <1>4, <4>1
    <3> QED
      BY <1>1, <1>10, <2>1, <3>1 DEF BeforeGo
  <2>3. /\ clientcodesize' = Len(code)
        /\ stdin' \in Seq(Byte) /\ stdin' # <<>>
        /\ stdin' \o w = <<NEWLINE>> \o rest
    BY <1>4, <1>9, <1>11, <1>13, <2>2
  <2>4. stream' = <<NEWLINE>> \o rest
    BY <1>1, <2>3 DEF stream, w
  <2>5. Typed'
    BY <1>1, <1>4, <1>8, <2>3 DEF Typed
  <2>6. Data' = Data /\ code' = code /\ client' = client /\ early' = early
    BY <1>1 DEF Data
  <2>7. Scanned'
    BY <1>11, <2>2, <2>3, <2>4, <2>6 DEF Scanned
  <2> QED
    BY <1>1, <2>5, <2>7 DEF IInv
<1> QED
  BY <1>12, <1>13

(* The first byte of the code is in the buffer of scanf when read() gets   *)
(* as many bytes as the code has: they end in the newline.                 *)
LEMMA OneTooFar ==
  ASSUME NEW c \in Seq(Byte), c # <<>>, <<NEWLINE>> \in Seq(Byte),
         NEW a \in Seq(Byte), NEW b \in Seq(Byte),
         a \o b = <<NEWLINE>> \o (c \o <<NEWLINE>>),
         Len(a) = 2
  PROVE  b = Tail(c) \o <<NEWLINE>>
<1> DEFINE d == c \o <<NEWLINE>>
           e == <<NEWLINE>> \o d
           t == Tail(c)
           v == t \o <<NEWLINE>>
<1>1. Len(c) \in Nat /\ Len(c) >= 1 /\ Len(<<NEWLINE>>) = 1 /\ <<NEWLINE>>[1] = NEWLINE
  OBVIOUS
<1>2. /\ t \in Seq(Byte) /\ Len(t) = Len(c) - 1
      /\ \A k \in 1 .. Len(c) - 1 : t[k] = c[k + 1]
  BY <1>1
<1> HIDE DEF t
<1>3. /\ d \in Seq(Byte) /\ Len(d) = Len(c) + 1
      /\ \A k \in 1 .. Len(c) : d[k] = c[k]
      /\ d[Len(c) + 1] = NEWLINE
  <2>1. 1 \in 1 .. Len(<<NEWLINE>>)
    BY <1>1
  <2> QED
    BY <1>1, <2>1, Joined
<1>4. /\ v \in Seq(Byte) /\ Len(v) = Len(c)
      /\ \A k \in 1 .. Len(c) - 1 : v[k] = c[k + 1]
      /\ v[Len(c)] = NEWLINE
  <2>1. 1 \in 1 .. Len(<<NEWLINE>>) /\ Len(t) + 1 = Len(c)
    BY <1>1, <1>2
  <2>2. /\ v \in Seq(Byte) /\ Len(v) = Len(t) + 1
        /\ \A k \in 1 .. Len(t) : v[k] = t[k]
        /\ v[Len(t) + 1] = NEWLINE
    BY <1>1, <1>2, <2>1, Joined
  <2> HIDE DEF v
  <2> QED
    BY <1>1, <1>2, <2>1, <2>2
<1> HIDE DEF d, v
<1>5. /\ e \in Seq(Byte) /\ Len(e) = Len(c) + 2
      /\ \A k \in 1 .. Len(c) + 1 : e[1 + k] = d[k]
  <2>1. /\ e \in Seq(Byte) /\ Len(e) = 1 + Len(d)
        /\ \A k \in 1 .. Len(d) : e[1 + k] = d[k]
    BY <1>1, <1>3, Joined
  <2> HIDE DEF e
  <2> QED
    BY <1>1, <1>3, <2>1
<1>6. a \o b = e
  BY DEF d
<1> HIDE DEF e
<1>7. Len(b) = Len(c) /\ \A k \in 1 .. Len(b) : b[k] = e[2 + k]
  <2>1. /\ Len(a \o b) = 2 + Len(b)
        /\ \A k \in 1 .. Len(b) : (a \o b)[2 + k] = b[k]
    <3>1. /\ Len(a \o b) = Len(a) + Len(b)
          /\ \A k \in 1 .. Len(b) : (a \o b)[Len(a) + k] = b[k]
      <4>1. a \in Seq(Byte) /\ b \in Seq(Byte)
        OBVIOUS
      <4> QED
        BY ONLY <4>1, Joined
    <3> QED
      BY <3>1
  <2>2. Len(b) \in Nat
    OBVIOUS
  <2> QED
    BY <1>1, <1>5, <1>6, <2>1, <2>2
<1>8. ASSUME NEW k \in 1 .. Len(b) PROVE b[k] = v[k]
  <2>1. /\ k \in 1 .. Len(c) /\ k + 1 \in 1 .. Len(c) + 1
        /\ 2 + k = 1 + (k + 1)
    BY <1>1, <1>7
  <2>2. b[k] = d[k + 1]
    BY <1>5, <1>7, <2>1
  <2>3. CASE k < Len(c)
    <3>1. k \in 1 .. Len(c) - 1 /\ k + 1 \in 1 .. Len(c)
      BY <1>1, <2>1, <2>3
    <3> QED
      BY <1>3, <1>4, <2>2, <3>1
  <2>4. CASE k = Len(c)
    BY <1>3, <1>4, <2>2, <2>4
  <2> QED
    BY <1>1, <2>1, <2>3, <2>4
<1>9. b = v
  BY <1>4, <1>7, <1>8, SeqEqual
<1> QED
  BY <1>9 DEF v, t

LEMMA ReadStep == IInv /\ Read => IInv'
<1> SUFFICES ASSUME IInv, Read PROVE IInv'
  OBVIOUS
<1> DEFINE n == Min({clientcodesize, Len(sock)})
<1>1. /\ Typed /\ Scanned /\ pc = "read"
      /\ clientcode' = SubSeq(sock, 1, n)
      /\ sock' = SubSeq(sock, n + 1, Len(sock))
      /\ UNCHANGED <<client, code, early, up, stdin, clientcodesize>>
  BY DEF IInv, Read, client_vars
<1>2. \/ /\ Len(clientcode') = clientcodesize /\ pc' = "construct"
         /\ answer' = answer /\ down' = down
      \/ pc' = "exit" /\ answer' = "short" /\ down' = down \o <<"short">>
  BY DEF Read, ReadEverything, Exit, Flushed
<1>3. /\ up \in Seq(Byte) /\ sock \in Seq(Byte) /\ stdin \in Seq(Byte)
      /\ down \in Seq(Questions \cup Answers) /\ clientcodesize \in Nat
      /\ code \in Seq(Byte) /\ Len(code) \in Nat /\ Data \in Seq(Byte)
      /\ <<NEWLINE>> \in Seq(Byte) /\ Len(<<NEWLINE>>) = 1
      /\ Len(stdin) \in Nat /\ Len(sock) \in Nat /\ Len(up) \in Nat
  <2>1. Len(<<NEWLINE>>) = 1
    OBVIOUS
  <2> QED
    BY <1>1, <2>1, Session DEF Typed
<1>4. n \in 0 .. Len(sock)
  <2> DEFINE T == {clientcodesize, Len(sock)}
  <2>1. T \in SUBSET Nat /\ T # {} /\ Len(sock) \in T
    BY <1>3
  <2> HIDE DEF T
  <2>2. Min(T) \in Nat /\ Min(T) <= Len(sock)
    BY <2>1, MinIs
  <2> QED
    BY <1>3, <2>2 DEF T
<1> HIDE DEF n
<1>5. /\ clientcode' \in Seq(Byte) /\ Len(clientcode') = n
      /\ sock' \in Seq(Byte)
  BY <1>1, <1>3, <1>4, Cut
<1>6. down' \in Seq(Questions \cup Answers) /\ answer' \in Answers \cup {"none"}
  <2>1. "short" \in Answers /\ "short" \in Questions \cup Answers
    BY DEF Answers
  <2>2. <<"short">> \in Seq(Questions \cup Answers)
    BY <2>1
  <2>3. down \o <<"short">> \in Seq(Questions \cup Answers)
    BY <1>3, <2>2, Joined
  <2>4. answer \in Answers \cup {"none"}
    BY <1>1 DEF Typed
  <2> QED
    BY <1>2, <1>3, <2>1, <2>3, <2>4
<1>7. Typed'
  BY <1>1, <1>2, <1>5, <1>6 DEF Typed
<1>8. ASSUME n = 0 PROVE clientcode' = <<>>
  BY <1>5, <1>8
<1>9. ASSUME NEW x \in Seq(Byte) PROVE x = <<>> <=> Len(x) = 0
  OBVIOUS
<1>10. sock \o up \in Seq(Byte) /\ Len(sock \o up) = Len(sock) + Len(up)
  BY <1>3, Joined
<1>11. Len(stream) = Len(stdin) + (Len(sock) + Len(up))
  BY <1>3, <1>10, Joined DEF stream
<1>12. ASSUME n = clientcodesize PROVE Taken'
  <2>1. CASE client = "gone" /\ sock = <<>>
    <3>1. n = 0
      BY <1>4, <2>1
    <3> QED
      BY <1>1, <1>8, <2>1, <3>1 DEF Taken
  <2>2. ASSUME Len(code) = 0, clientcodesize = 0 PROVE Taken'
    <3>1. code = <<>> /\ clientcode' = <<>>
      BY <1>3, <1>8, <1>9, <1>12, <2>2
    <3> QED
      BY <1>1, <3>1 DEF Taken
  <2>3. ASSUME clientcodesize = Len(code), stdin # <<>>, stream = <<NEWLINE>>
        PROVE  Taken'
    <3>1. Len(stdin) # 0 /\ Len(stdin) + (Len(sock) + Len(up)) = 1
      BY <1>3, <1>9, <1>11, <2>3
    <3>2. Len(sock) = 0
      BY <1>3, <3>1
    <3>3. n = 0
      BY <1>4, <3>2
    <3> QED
      BY <1>12, <2>2, <2>3, <3>3
  <2>4. ASSUME clientcodesize = Len(code), Len(stdin) = 1,
               stream = <<NEWLINE>> \o Data
        PROVE  Taken'
    <3> DEFINE r == SubSeq(stdin, 2, 1)
    <3>1. stdin \o (sock \o up) = <<NEWLINE>> \o Data
      BY <2>4 DEF stream
    <3>2. SubSeq(stdin, Len(<<NEWLINE>>) + 1, Len(stdin)) \o (sock \o up) = Data
      <4>1. Len(<<NEWLINE>>) <= Len(stdin)
        BY <1>3, <2>4
      <4> QED
        BY <1>3, <1>10, <3>1, <4>1, SameBeginning
    <3>3. SubSeq(stdin, Len(<<NEWLINE>>) + 1, Len(stdin)) = <<>>
      <4>1. Len(<<NEWLINE>>) + 1 = 2
        BY <1>3
      <4>2. r = <<>>
        BY <1>3
      <4> QED
        BY <2>4, <4>1, <4>2
    <3>4. sock \o up = code \o <<NEWLINE>>
      <4>1. <<>> \o (sock \o up) = sock \o up
        BY <1>10
      <4> QED
        BY <3>2, <3>3, <4>1 DEF Data
    <3>5. SubSeq(sock, 1, Len(code)) = code
      <4>1. Len(code) <= Len(sock)
        BY <1>3, <1>4, <1>12, <2>4
      <4> QED
        BY <1>3, <3>4, <4>1, SameBeginning
    <3>6. clientcode' = code'
      BY <1>1, <1>12, <2>4, <3>5
    <3> QED
      BY <3>6 DEF Taken
  <2>5. ASSUME clientcodesize = Len(code), Len(stdin) > 1, Len(code) # 0,
               stream = <<NEWLINE>> \o Data
        PROVE  clientcode' = Tail(code) \o <<NEWLINE>>
    <3>1. Len(stream) = 1 + (Len(code) + 1)
      <4>1. Len(Data) = Len(code) + 1
        BY <1>3, Joined DEF Data
      <4>2. Len(<<NEWLINE>> \o Data) = 1 + Len(Data)
        BY <1>3, Joined
      <4> QED
        BY <2>5, <4>1, <4>2
    <3>2. Len(code) <= Len(sock)
      BY <1>3, <1>4, <1>12, <2>5
    <3>3. Len(stdin) = 2 /\ Len(sock) = Len(code) /\ Len(up) = 0
      <4>1. Len(stdin) + (Len(sock) + Len(up)) = Len(code) + 2
        BY <1>3, <1>11, <3>1
      <4>2. \A a, b, c, d \in Nat :
              a > 1 /\ d <= b /\ a + (b + c) = d + 2 => a = 2 /\ b = d /\ c = 0
        OBVIOUS
      <4> QED
        BY <1>3, <2>5, <3>2, <4>1, <4>2
    <3>4. sock \o up = sock
      <4>1. up = <<>> /\ sock \o <<>> = sock
        BY <1>3, <1>9, <3>3
      <4> QED
        BY <4>1
    <3>5. sock = Tail(code) \o <<NEWLINE>>
      <4>1. code # <<>> /\ stdin \o sock = <<NEWLINE>> \o (code \o <<NEWLINE>>)
        <5>1. code # <<>>
          BY <1>3, <1>9, <2>5
        <5>2. stream = stdin \o sock
          BY <3>4 DEF stream
        <5> QED
          BY <2>5, <5>1, <5>2 DEF Data
      <4>2. /\ code \in Seq(Byte) /\ <<NEWLINE>> \in Seq(Byte)
            /\ stdin \in Seq(Byte) /\ sock \in Seq(Byte) /\ Len(stdin) = 2
        BY <1>3, <3>3
      <4> QED
        BY <4>1, <4>2, OneTooFar
    <3>6. SubSeq(sock, 1, Len(sock)) = sock
      BY <1>3, SubSeqFull
    <3> QED
      BY <1>1, <1>12, <2>5, <3>3, <3>5, <3>6
  <2>6. Len(stdin) = 1 \/ Len(stdin) > 1 \/ stdin = <<>>
    <3>1. stdin # <<>> => Len(stdin) # 0
      BY <1>3, <1>9
    <3>2. Len(stdin) \in Nat
      BY <1>3
    <3>3. \A k \in Nat : k = 1 \/ k > 1 \/ k = 0
      OBVIOUS
    <3> QED
      BY <3>1, <3>2, <3>3
  <2>7. ASSUME clientcodesize = Len(code), Len(stdin) > 1, Len(code) # 0,
               stream = <<NEWLINE>> \o Data, early, client \in {"answer", "gone"}
        PROVE  Taken'
    <3>1. clientcode' = Tail(code) \o <<NEWLINE>>
      BY <2>5, <2>7
    <3>2. code' = code /\ early' = early /\ client' = client
      BY <1>1
    <3>3. clientcode' = Tail(code') \o <<NEWLINE>>
      BY <3>1, <3>2
    <3>4. client' \in {"answer", "gone"} /\ early'
      BY <1>1, <2>7, Zenon
    <3> QED
      BY <3>3, <3>4 DEF Taken
  <2> QED
    BY <1>1, <2>1, <2>2, <2>3, <2>4, <2>6, <2>7 DEF Scanned
<1> QED
  BY <1>2, <1>5, <1>7, <1>12 DEF IInv

(* The steps that take nothing from the connection.                        *)
LEMMA MachineStep == IInv /\ (Construct \/ Run \/ RunLoop) => IInv'
<1> SUFFICES ASSUME IInv, Construct \/ Run \/ RunLoop PROVE IInv'
  OBVIOUS
<1>1. /\ UNCHANGED <<client, code, early, up, sock, down, stdin,
                     clientcodesize, clientcode, answer>>
      /\ \/ pc = "construct" /\ pc' = "run"
         \/ pc = "run" /\ pc' = "compare"
         \/ pc' = pc
  BY DEF Construct, Run, RunLoop, client_vars, server_vars
<1>2. Typed'
  BY <1>1 DEF IInv, Typed
<1>3. /\ BeforeGo => BeforeGo'
      /\ Scanned => Scanned'
      /\ Taken => Taken'
  BY <1>1 DEF BeforeGo, Scanned, Taken, Number, Data, stream
<1> QED
  BY <1>1, <1>2, <1>3 DEF IInv

LEMMA SectionStep == IInv /\ CompareSection => IInv'
<1> SUFFICES ASSUME IInv, CompareSection PROVE IInv'
  OBVIOUS
<1>1. /\ Typed /\ pc' = "exit"
      /\ UNCHANGED <<client, code, early, up, sock, stdin, clientcodesize,
                     clientcode>>
  BY DEF IInv, CompareSection, Exit, client_vars
<1>2. PICK msg \in Answers : answer' = msg /\ down' = down \o <<msg>>
  BY DEF CompareSection, Exit, Flushed, Answers
<1>3. down' \in Seq(Questions \cup Answers)
  <2>1. <<msg>> \in Seq(Questions \cup Answers)
    OBVIOUS
  <2>2. down \in Seq(Questions \cup Answers)
    BY <1>1 DEF Typed
  <2> QED
    BY <1>2, <2>1, <2>2, Joined
<1>4. Typed'
  BY <1>1, <1>2, <1>3 DEF Typed
<1> QED
  BY <1>1, <1>4 DEF IInv

LEMMA NextIInv == IInv /\ [Next]_vars => IInv'
<1> SUFFICES ASSUME IInv, [Next]_vars PROVE IInv'
  OBVIOUS
<1>1. CASE Deliver
  BY <1>1, DeliverStep
<1>2. CASE SendNumber
  BY <1>2, NumberStep
<1>3. CASE SendCode
  BY <1>3, CodeStep
<1>4. CASE PrintAnswer \/ EndOfSession \/ Leave
  BY <1>4, GoneStep
<1>5. CASE Greet
  BY <1>5, GreetStep
<1>6. CASE FillStdin
  BY <1>6, FillStep
<1>7. CASE Scanf
  BY <1>7, ScanStep
<1>8. CASE Read
  BY <1>8, ReadStep
<1>9. CASE Construct \/ Run \/ RunLoop
  BY <1>9, MachineStep
<1>10. CASE CompareSection
  BY <1>10, SectionStep
<1>11. CASE UNCHANGED vars
  <2>1. UNCHANGED <<client, code, early, up, sock, down, pc, stdin,
                    clientcodesize, clientcode, answer>>
    BY <1>11 DEF vars, client_vars, server_vars
  <2>2. Typed'
    BY <2>1 DEF IInv, Typed
  <2>3. /\ BeforeGo => BeforeGo'
        /\ Scanned => Scanned'
        /\ Taken => Taken'
    BY <2>1 DEF BeforeGo, Scanned, Taken, Number, Data, stream
  <2> QED
    BY <2>1, <2>2, <2>3 DEF IInv
<1> QED
  BY <1>1, <1>2, <1>3, <1>4, <1>5, <1>6, <1>7, <1>8, <1>9, <1>10, <1>11
  DEF Next, Client, Server

-----------------------------------------------------------------------------
(* The machine that runs the client's code inside the server.              *)

LEMMA InitMachine == Init => VMInv
<1> SUFFICES ASSUME Init PROVE VMInv
  OBVIOUS
<1>1. <<>> \in Seq(Byte) /\ constructed(<<>>)
  BY DEF Init
<1> QED
  BY <1>1, NewMachine

(* The constructor and insData write to the code and the data section.     *)
LEMMA ConstructStep == IInv /\ VMInv /\ Construct => VMInv'
<1> SUFFICES ASSUME IInv, VMInv, Construct PROVE VMInv'
  OBVIOUS
<1> DEFINE m == insCode(mem, clientcode)
<1>1. clientcode \in Seq(Byte) /\ EN_DATASECTION \in Seq(Byte)
  BY SessionAssumption DEF IInv, Typed
<1>2. m \in Memory
  <2>1. mem \in Memory
    BY DEF VMInv, VMTypeOK, Memory
  <2> QED
    BY <1>1, <2>1, SectionsTyped
<1>3. mem' = insData(m, EN_DATASECTION) /\ UNCHANGED <<regs, instr_p, status>>
  BY DEF Construct
<1> HIDE DEF m
<1>4. mem' \in Memory
  BY <1>1, <1>2, <1>3, SectionsTyped
<1> QED
  BY <1>3, <1>4 DEF VMInv, VMTypeOK, RPInCode, Memory

LEMMA NextMachine == IInv /\ VMInv /\ [Next]_vars => VMInv'
<1> SUFFICES ASSUME IInv, VMInv, [Next]_vars PROVE VMInv'
  OBVIOUS
<1>1. CASE Construct
  BY <1>1, ConstructStep
<1>2. CASE Run
  BY <1>2, RunStep DEF Run, Good, VMInv
<1>3. CASE RunLoop
  BY <1>3, IterateStep DEF RunLoop, Good, VMInv
<1>4. CASE UNCHANGED vm_vars
  BY <1>4 DEF vm_vars, VMInv, VMTypeOK, RPInCode
<1>5. Construct \/ Run \/ RunLoop \/ UNCHANGED vm_vars
  BY DEF Next, Client, Server, Deliver, SendNumber, SendCode, PrintAnswer,
         EndOfSession, Leave, Greet, FillStdin, Scanf, Read, CompareSection, vars
<1> QED
  BY <1>1, <1>2, <1>3, <1>4, <1>5

LEMMA IInvTypeOK == IInv /\ VMInv => TypeOK
  BY DEF IInv, Typed, VMInv, TypeOK

(* Server, client, connection and machine keep their types, whatever code  *)
(* the client sends and whatever that code does to the machine: run() may  *)
(* stop or crash in any iteration, and what main() goes on with is still a *)
(* memory of bytes and a file of words.                                    *)
THEOREM ServerTyped == FairSpec => []TypeOK
  BY InitIInv, NextIInv, InitMachine, NextMachine, IInvTypeOK, PTL
  DEF FairSpec

-----------------------------------------------------------------------------
(* What the server constructs the machine with is the client's code and    *)
(* nothing else, for every code, every way in which the bytes arrive, and  *)
(* every order in which the two ends run: the reads of main() in           *)
(* pasticciotto_server.cpp lose nothing of it.  Only when the client did   *)
(* not wait for its turn may it be a byte late, and only when the client   *)
(* has gone may it be empty.                                               *)
THEOREM RunsTheCode == FairSpec => []RunsWhatWasSent
<1>1. IInv => RunsWhatWasSent
  BY DEF IInv, Taken, RunsWhatWasSent
<1> QED
  BY <1>1, InitIInv, NextIInv, PTL DEF FairSpec
=============================================================================
