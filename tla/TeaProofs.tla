----------------------------- MODULE TeaProofs -----------------------------
(***************************************************************************)
(* Decryption undoes encryption, for every text and number of rounds.      *)
(***************************************************************************)
EXTENDS Tea, WordsProofs

(* Words wrap, and so what was added can be subtracted.                    *)
LEMMA SubAdd ==
  ASSUME NEW a \in Word, NEW b \in Word
  PROVE  SubWord(AddWord(a, b), b) = a
  BY WordIs, WordSizeIs DEF SubWord, AddWord, Trunc

LEMMA MakeWordHalves ==
  ASSUME NEW lo \in Byte, NEW hi \in Byte
  PROVE  LoByte(MkWord(lo, hi)) = lo /\ HiByte(MkWord(lo, hi)) = hi
  BY ByteIs DEF MkWord, LoByte, HiByte

LEMMA KeysAreWords ==
  /\ k0 \in Word /\ k1 \in Word /\ k2 \in Word /\ k3 \in Word
  /\ 4 \in Word /\ 5 \in Word
  BY WordIs, WordSizeIs DEF k0, k1, k2, k3

LEMMA MixWord ==
  ASSUME NEW w \in Word, NEW ka \in Word, NEW kb \in Word
  PROVE  Mix(w, ka, kb) \in Word
<1>1. ShlWord(w, 4) \in Word /\ ShrWord(w, 5) \in Word
  BY KeysAreWords, ShiftWord
<1>2. AddWord(ShlWord(w, 4), ka) \in Word /\ AddWord(ShrWord(w, 5), kb) \in Word
  BY <1>1, SumWord
<1>3. XorWord(AddWord(ShlWord(w, 4), ka), w) \in Word
  BY <1>2, BitwiseWord
<1> QED
  BY <1>2, <1>3, BitwiseWord DEF Mix

LEMMA RoundsReturnWords ==
  ASSUME NEW v \in Word \X Word
  PROVE  EncRound(v) \in Word \X Word /\ DecRound(v) \in Word \X Word
<1>1. v[1] \in Word /\ v[2] \in Word
  OBVIOUS
<1>2. EncRound(v) \in Word \X Word
  <2> DEFINE w0 == AddWord(v[1], Mix(v[2], k0, k1))
             w1 == AddWord(v[2], Mix(w0, k2, k3))
  <2>1. w0 \in Word
    BY <1>1, KeysAreWords, MixWord, SumWord
  <2> HIDE DEF w0
  <2>2. w1 \in Word
    BY <1>1, <2>1, KeysAreWords, MixWord, SumWord
  <2>3. EncRound(v) = <<w0, w1>>
    BY DEF EncRound, w0
  <2> QED
    BY <2>1, <2>2, <2>3
<1>3. DecRound(v) \in Word \X Word
  <2> DEFINE w1 == SubWord(v[2], Mix(v[1], k2, k3))
             w0 == SubWord(v[1], Mix(w1, k0, k1))
  <2>1. w1 \in Word
    BY <1>1, KeysAreWords, MixWord, SumWord
  <2> HIDE DEF w1
  <2>2. w0 \in Word
    BY <1>1, <2>1, KeysAreWords, MixWord, SumWord
  <2>3. DecRound(v) = <<w0, w1>>
    BY DEF DecRound, w1
  <2> QED
    BY <2>1, <2>2, <2>3
<1> QED
  BY <1>2, <1>3

(* A round of tea-decrypt.c undoes a round of tea-encrypt.c: it computes   *)
(* the second word first, from the same first word, and then the first.    *)
THEOREM RoundUndone ==
  \A v \in Word \X Word : DecRound(EncRound(v)) = v
<1> SUFFICES ASSUME NEW v \in Word \X Word PROVE DecRound(EncRound(v)) = v
  OBVIOUS
<1>1. v[1] \in Word /\ v[2] \in Word /\ v = <<v[1], v[2]>>
  OBVIOUS
<1> DEFINE m0 == Mix(v[2], k0, k1)
           w0 == AddWord(v[1], m0)
           m1 == Mix(w0, k2, k3)
           w1 == AddWord(v[2], m1)
<1>2. m0 \in Word
  BY <1>1, KeysAreWords, MixWord
<1>3. w0 \in Word /\ SubWord(w0, m0) = v[1]
  BY <1>1, <1>2, SumWord, SubAdd
<1>4. EncRound(v) = <<w0, w1>>
  BY DEF EncRound
<1> HIDE DEF w0
<1>5. m1 \in Word
  BY <1>3, KeysAreWords, MixWord
<1>6. SubWord(w1, m1) = v[2]
  BY <1>1, <1>5, SubAdd
<1>7. DecRound(<<w0, w1>>) = <<SubWord(w0, Mix(SubWord(w1, m1), k0, k1)),
                              SubWord(w1, m1)>>
  BY DEF DecRound
<1>8. DecRound(<<w0, w1>>) = <<v[1], v[2]>>
  BY <1>3, <1>6, <1>7
<1> QED
  BY <1>1, <1>4, <1>8
-----------------------------------------------------------------------------
(* The inductive invariant.  seen holds, for each encrypted block, the     *)
(* words after every round; decryption walks the same way back.            *)

TextBlock(b) == <<MkWord(text[4 * b + 1], text[4 * b + 2]),
                  MkWord(text[4 * b + 3], text[4 * b + 4])>>
IsText(b) == /\ buf[4 * b + 1] = text[4 * b + 1]
             /\ buf[4 * b + 2] = text[4 * b + 2]
             /\ buf[4 * b + 3] = text[4 * b + 3]
             /\ buf[4 * b + 4] = text[4 * b + 4]
IsCipher(b) == BlockStart(b) = seen[b][Rounds]
Chain(b, r) == /\ seen[b][0] = TextBlock(b)
               /\ \A q \in 0 .. Rounds - 1 :
                    q < r => seen[b][q + 1] = EncRound(seen[b][q])

Position ==
  /\ i <= Len(text) \div 4
  /\ pc = "rounds" => i \in Blocks
  /\ program = "encrypt" => pc # "done"
  /\ pc = "done" => i = Len(text) \div 4

Remainder ==
  \A k \in 1 .. Len(text) : k > 4 * (Len(text) \div 4) => buf[k] = text[k]

Encrypting == program = "encrypt" =>
  /\ \A b \in Blocks : b < i => Chain(b, Rounds) /\ IsCipher(b)
  /\ \A b \in Blocks : b >= i => IsText(b)
  /\ pc = "rounds" => Chain(i, n) /\ seen[i][n] = <<v0, v1>>

Decrypting == program = "decrypt" =>
  /\ \A b \in Blocks : Chain(b, Rounds)
  /\ \A b \in Blocks : b < i => IsText(b)
  /\ \A b \in Blocks : b >= i => IsCipher(b)
  /\ pc = "rounds" => seen[i][Rounds - n] = <<v0, v1>>

IInv == TypeOK /\ Position /\ Remainder /\ Encrypting /\ Decrypting
-----------------------------------------------------------------------------
(* A block has its four bytes in the text.                                 *)
LEMMA BlocksInText ==
  ASSUME TypeOK
  PROVE  /\ Len(text) \in Nat /\ Len(text) \div 4 \in Nat
         /\ 4 * (Len(text) \div 4) <= Len(text)
         /\ Len(text) < 4 * (Len(text) \div 4) + 4
         /\ \A b : b \in Blocks <=> b \in Nat /\ b < Len(text) \div 4
         /\ \A b \in Blocks : /\ 4 * b + 1 \in 1 .. Len(text)
                              /\ 4 * b + 2 \in 1 .. Len(text)
                              /\ 4 * b + 3 \in 1 .. Len(text)
                              /\ 4 * b + 4 \in 1 .. Len(text)
<1>1. Len(text) \in Nat
  BY TeaAssumption DEF TypeOK
<1> DEFINE L == Len(text)
<1>2. L \div 4 \in Nat /\ 4 * (L \div 4) <= L /\ L < 4 * (L \div 4) + 4
  BY <1>1
<1>3. \A b : b \in Blocks <=> b \in Nat /\ b < L \div 4
  BY <1>1, <1>2 DEF Blocks
<1> DEFINE D == L \div 4
<1>4. \A b \in Nat : b < D => 4 * b + 4 <= L
  <2>1. L \in Nat /\ D \in Nat /\ 4 * D <= L
    BY <1>1, <1>2
  <2> HIDE DEF L, D
  <2> QED
    BY <2>1
<1> QED
  BY <1>1, <1>2, <1>3, <1>4

LEMMA ElementOf == \A S : \A s \in Seq(S) : \A k \in 1 .. Len(s) : s[k] \in S
  OBVIOUS

LEMMA TextBytes ==
  ASSUME TypeOK, NEW k \in 1 .. Len(text)
  PROVE  text[k] \in Byte /\ buf[k] \in Byte
<1>1. text \in Seq(1 .. 255)
  BY TeaAssumption DEF TypeOK
<1>2. text[k] \in 1 .. 255
  BY <1>1, ElementOf, Zenon
<1>3. \A c : c \in 1 .. 255 => c \in Byte
  BY DEF Byte
<1>4. buf[k] \in Byte
  BY Zenon DEF TypeOK
<1> QED
  BY <1>2, <1>3, <1>4, Zenon

LEMMA BlockWords ==
  ASSUME TypeOK, NEW b \in Blocks
  PROVE  /\ BlockWord(b, 0) = MkWord(buf[4 * b + 1], buf[4 * b + 2])
         /\ BlockWord(b, 1) = MkWord(buf[4 * b + 3], buf[4 * b + 4])
         /\ BlockWord(b, 0) \in Word /\ BlockWord(b, 1) \in Word
<1>1. b \in Nat
  BY BlocksInText
<1>2. /\ BlockWord(b, 0) = MkWord(buf[4 * b + 1], buf[4 * b + 2])
      /\ BlockWord(b, 1) = MkWord(buf[4 * b + 3], buf[4 * b + 4])
  BY <1>1 DEF BlockWord
<1>3. /\ buf[4 * b + 1] \in Byte /\ buf[4 * b + 2] \in Byte
      /\ buf[4 * b + 3] \in Byte /\ buf[4 * b + 4] \in Byte
  BY BlocksInText, TextBytes
<1> QED
  BY <1>2, <1>3, MkWordWord

LEMMA TextBlockOfText ==
  ASSUME TypeOK, NEW b \in Blocks, IsText(b)
  PROVE  BlockStart(b) = TextBlock(b)
  BY BlockWords DEF IsText, BlockStart, TextBlock

(* The guard of the main loops is that there is another block.             *)
LEMMA IsBlockIs ==
  ASSUME TypeOK, i <= Len(text) \div 4
  PROVE  /\ IsBlock => i \in Blocks
         /\ ~IsBlock => i = Len(text) \div 4
<1> DEFINE L == Len(text)
           D == L \div 4
<1>1. i \in Nat /\ L \in Nat /\ D \in Nat /\ 4 * D <= L /\ L < 4 * D + 4 /\ i <= D
  BY BlocksInText DEF TypeOK
<1>2. (4 * i + 4 <= L => i < D) /\ (~(4 * i + 4 <= L) => i = D)
  <2> HIDE DEF L, D
  <2> QED
    BY <1>1
<1> QED
  BY <1>1, <1>2, BlocksInText DEF IsBlock
-----------------------------------------------------------------------------
LEMMA InitIInv == Init => IInv
<1> SUFFICES ASSUME Init PROVE IInv
  OBVIOUS
<1> USE DEF Init
<1>1. TypeOK
  <2>1. text \in Seq(1 .. 255) /\ Len(text) \in Nat
    BY TeaAssumption
  <2>2. \A c : c \in 1 .. 255 => c \in Byte
    BY DEF Byte
  <2>3. buf \in [1 .. Len(text) -> Byte]
    <3>1. \A k \in 1 .. Len(text) : text[k] \in Byte
      BY <2>1, <2>2, ElementOf, Zenon
    <3>2. text = [k \in 1 .. Len(text) |-> text[k]]
      BY <2>1
    <3> QED
      BY <3>1, <3>2, Zenon
  <2>4. 0 \in Word
    BY WordIs, WordSizeIs
  <2>5. seen \in [Blocks -> [0 .. Rounds -> Word \X Word]]
    BY <2>4
  <2>6. n \in 0 .. Rounds
    BY TeaAssumption
  <2> QED
    BY <2>3, <2>4, <2>5, <2>6 DEF TypeOK
<1>2. Position
  BY <1>1, BlocksInText DEF Position
<1>3. Remainder
  BY DEF Remainder
<1>4. Encrypting
  BY <1>1, BlocksInText DEF Encrypting, IsText
<1> QED
  BY <1>1, <1>2, <1>3, <1>4 DEF IInv, Decrypting

LEMMA LoadIInv == IInv /\ LoadBlock => IInv'
<1> SUFFICES ASSUME IInv, LoadBlock PROVE IInv'
  OBVIOUS
<1> USE DEF LoadBlock
<1>0. TypeOK /\ Position /\ Remainder /\ Encrypting /\ Decrypting
  BY DEF IInv
<1>1. i \in Blocks /\ Blocks' = Blocks
  BY <1>0, IsBlockIs DEF Position, Blocks
<1>2. v0' \in Word /\ v1' \in Word /\ BlockStart(i) = <<v0', v1'>>
  BY <1>0, <1>1, BlockWords DEF BlockStart
<1>3. 0 \in 0 .. Rounds /\ Rounds - 0 = Rounds
  BY TeaAssumption
<1>4. TypeOK'
  <2>1. seen' \in [Blocks -> [0 .. Rounds -> Word \X Word]]
    BY <1>0, <1>1, <1>2, <1>3 DEF TypeOK
  <2> QED
    BY <1>0, <1>1, <1>2, <1>3, <2>1 DEF TypeOK
<1>5. Position'
  BY <1>0, <1>1 DEF Position
<1>6. Remainder'
  BY <1>0 DEF Remainder
<1>7. Encrypting'
  <2> SUFFICES ASSUME program = "encrypt" PROVE Encrypting'
    BY DEF Encrypting
  <2>1. seen' = [seen EXCEPT ![i][0] = BlockStart(i)]
    OBVIOUS
  <2>2. \A b \in Blocks : b # i => seen'[b] = seen[b]
    BY <1>0, <2>1 DEF TypeOK
  <2>3. ASSUME NEW b \in Blocks, b < i
        PROVE  (Chain(b, Rounds) /\ IsCipher(b))'
    <3>1. b # i
      BY <2>3, BlocksInText, <1>0 DEF TypeOK
    <3>2. seen'[b] = seen[b] /\ Chain(b, Rounds) /\ IsCipher(b)
      BY <1>0, <2>2, <2>3, <3>1 DEF Encrypting
    <3> QED
      BY <3>2 DEF Chain, IsCipher, TextBlock, BlockStart, BlockWord
  <2>4. ASSUME NEW b \in Blocks, b >= i
        PROVE  IsText(b)'
    BY <1>0, <2>4 DEF Encrypting, IsText
  <2>5. seen'[i][0] = <<v0', v1'>>
    BY <1>0, <1>1, <1>2, <1>3, <2>1 DEF TypeOK
  <2>6. IsText(i)
    BY <1>0, <1>1, BlocksInText DEF Encrypting
  <2>7. seen'[i][0] = TextBlock(i)
    BY <1>0, <1>1, <1>2, <2>5, <2>6, TextBlockOfText
  <2>8. Chain(i, n)'
    BY <2>7 DEF Chain, TextBlock
  <2> QED
    BY <1>1, <2>3, <2>4, <2>5, <2>8 DEF Encrypting
<1>8. Decrypting'
  <2> SUFFICES ASSUME program = "decrypt" PROVE Decrypting'
    BY DEF Decrypting
  <2>0. IsCipher(i)
    BY <1>0, <1>1, BlocksInText DEF Decrypting
  <2>1. seen[i][Rounds] = <<v0', v1'>>
    BY <1>2, <2>0 DEF IsCipher
  <2>2. seen' = seen
    OBVIOUS
  <2> QED
    BY <1>0, <1>1, <1>3, <2>1, <2>2
    DEF Decrypting, Chain, TextBlock, IsText, IsCipher, BlockStart, BlockWord
<1> QED
  BY <1>4, <1>5, <1>6, <1>7, <1>8 DEF IInv

LEMMA RoundIInv == IInv /\ Round => IInv'
<1> SUFFICES ASSUME IInv, Round PROVE IInv'
  OBVIOUS
<1> USE DEF Round
<1>0. TypeOK /\ Position /\ Remainder /\ Encrypting /\ Decrypting
  BY DEF IInv
<1>1. i \in Blocks /\ i \in Nat /\ Blocks' = Blocks
  BY <1>0 DEF Position, Blocks, TypeOK
<1>2. /\ n \in Nat /\ Rounds \in Nat /\ n < Rounds
      /\ n \in 0 .. Rounds /\ n + 1 \in 0 .. Rounds
      /\ n \in 0 .. Rounds - 1
      /\ Rounds - n - 1 \in 0 .. Rounds - 1
      /\ (Rounds - n - 1) + 1 = Rounds - n
      /\ Rounds - (n + 1) = Rounds - n - 1
  BY <1>0, TeaAssumption DEF TypeOK
<1> DEFINE v == <<v0, v1>>
           w == IF program = "encrypt" THEN EncRound(v) ELSE DecRound(v)
<1>3. v \in Word \X Word
  BY <1>0 DEF TypeOK
<1>4. w \in Word \X Word
  BY <1>3, RoundsReturnWords
<1>5. /\ v0' = w[1] /\ v1' = w[2]
      /\ seen' = IF program = "encrypt" THEN [seen EXCEPT ![i][n + 1] = w]
                                        ELSE seen
  OBVIOUS
<1> HIDE DEF w
<1>6. v0' \in Word /\ v1' \in Word /\ <<v0', v1'>> = w
  BY <1>4, <1>5
<1>7. TypeOK'
  <2>1. seen' \in [Blocks -> [0 .. Rounds -> Word \X Word]]
    BY <1>0, <1>1, <1>2, <1>4, <1>5 DEF TypeOK
  <2> QED
    BY <1>0, <1>1, <1>2, <1>6, <2>1 DEF TypeOK
<1>8. Position'
  BY <1>0, <1>1 DEF Position
<1>9. Remainder'
  BY <1>0 DEF Remainder
<1>10. Encrypting'
  <2> SUFFICES ASSUME program = "encrypt" PROVE Encrypting'
    BY DEF Encrypting
  <2>1. seen' = [seen EXCEPT ![i][n + 1] = EncRound(v)] /\ w = EncRound(v)
    BY <1>5 DEF w
  <2>2. \A b \in Blocks : b # i => seen'[b] = seen[b]
    BY <1>0, <2>1 DEF TypeOK
  <2>3. ASSUME NEW b \in Blocks, b < i
        PROVE  (Chain(b, Rounds) /\ IsCipher(b))'
    <3>1. b # i
      BY <1>1, <2>3, BlocksInText, <1>0
    <3>2. seen'[b] = seen[b] /\ Chain(b, Rounds) /\ IsCipher(b)
      BY <1>0, <2>2, <2>3, <3>1 DEF Encrypting
    <3> QED
      BY <3>2 DEF Chain, IsCipher, TextBlock, BlockStart, BlockWord
  <2>4. ASSUME NEW b \in Blocks, b >= i
        PROVE  IsText(b)'
    BY <1>0, <2>4 DEF Encrypting, IsText
  <2>5. /\ seen'[i][n + 1] = EncRound(v)
        /\ \A q \in 0 .. Rounds : q # n + 1 => seen'[i][q] = seen[i][q]
    BY <1>0, <1>1, <1>2, <2>1 DEF TypeOK
  <2>6. Chain(i, n) /\ seen[i][n] = v
    BY <1>0 DEF Encrypting
  <2>7. seen'[i][0] = TextBlock(i)
    <3>1. 0 \in 0 .. Rounds /\ 0 # n + 1
      BY <1>2
    <3> QED
      BY <2>5, <2>6, <3>1 DEF Chain
  <2>8. ASSUME NEW q \in 0 .. Rounds - 1, q < n + 1
        PROVE  seen'[i][q + 1] = EncRound(seen'[i][q])
    <3>1. q \in 0 .. Rounds /\ q # n + 1 /\ seen'[i][q] = seen[i][q]
      BY <1>2, <2>5, <2>8
    <3>2. CASE q = n
      BY <2>5, <2>6, <3>1, <3>2
    <3>3. CASE q # n
      <4>1. q < n /\ q + 1 \in 0 .. Rounds /\ q + 1 # n + 1
        BY <1>2, <2>8, <3>3
      <4> QED
        BY <2>5, <2>6, <3>1, <4>1 DEF Chain
    <3> QED
      BY <3>2, <3>3
  <2>9. Chain(i, n)'
    BY <2>7, <2>8 DEF Chain, TextBlock
  <2> QED
    BY <1>1, <1>6, <2>1, <2>3, <2>4, <2>5, <2>9 DEF Encrypting
<1>11. Decrypting'
  <2> SUFFICES ASSUME program = "decrypt" PROVE Decrypting'
    BY DEF Decrypting
  <2>1. seen' = seen /\ w = DecRound(v)
    BY <1>5 DEF w
  <2> DEFINE m == Rounds - n - 1
  <2>2. seen[i][m + 1] = v
    BY <1>0, <1>2 DEF Decrypting
  <2>3. seen[i][m + 1] = EncRound(seen[i][m])
    <3>1. Chain(i, Rounds) /\ m \in 0 .. Rounds - 1 /\ m < Rounds
      BY <1>0, <1>1, <1>2 DEF Decrypting
    <3> QED
      BY <3>1 DEF Chain
  <2>4. seen[i][m] \in Word \X Word
    <3>1. m \in 0 .. Rounds
      BY <1>2
    <3> QED
      BY <1>0, <1>1, <3>1, Zenon DEF TypeOK
  <2>5. seen[i][m] = w
    BY <2>1, <2>2, <2>3, <2>4, RoundUndone
  <2>6. seen'[i][Rounds - n'] = <<v0', v1'>>
    BY <1>2, <1>6, <2>1, <2>5
  <2> QED
    BY <1>0, <1>1, <2>1, <2>6
    DEF Decrypting, Chain, TextBlock, IsText, IsCipher, BlockStart, BlockWord
<1> QED
  BY <1>7, <1>8, <1>9, <1>10, <1>11 DEF IInv

LEMMA StoreIInv == IInv /\ StoreBlock => IInv'
<1> SUFFICES ASSUME IInv, StoreBlock PROVE IInv'
  OBVIOUS
<1> USE DEF StoreBlock
<1>0. TypeOK /\ Position /\ Remainder /\ Encrypting /\ Decrypting
  BY DEF IInv
<1>1. i \in Blocks /\ i \in Nat /\ Blocks' = Blocks
  BY <1>0 DEF Position, Blocks, TypeOK
<1>2. /\ i < Len(text) \div 4 /\ Len(text) \div 4 \in Nat
      /\ \A b \in Blocks : b \in Nat
  BY <1>0, <1>1, BlocksInText
<1>3. v0 \in Word /\ v1 \in Word
  BY <1>0 DEF TypeOK
<1>4. /\ buf'[4 * i + 1] = LoByte(v0) /\ buf'[4 * i + 2] = HiByte(v0)
      /\ buf'[4 * i + 3] = LoByte(v1) /\ buf'[4 * i + 4] = HiByte(v1)
      /\ \A k \in 1 .. Len(text) :
           k \notin {4 * i + 1, 4 * i + 2, 4 * i + 3, 4 * i + 4}
             => buf'[k] = buf[k]
      /\ buf' \in [1 .. Len(text) -> Byte]
  <2>1. /\ 4 * i + 1 \in 1 .. Len(text) /\ 4 * i + 2 \in 1 .. Len(text)
        /\ 4 * i + 3 \in 1 .. Len(text) /\ 4 * i + 4 \in 1 .. Len(text)
    BY <1>0, <1>1, BlocksInText
  <2>2. /\ 4 * i + 1 # 4 * i + 2 /\ 4 * i + 1 # 4 * i + 3
        /\ 4 * i + 1 # 4 * i + 4 /\ 4 * i + 2 # 4 * i + 3
        /\ 4 * i + 2 # 4 * i + 4 /\ 4 * i + 3 # 4 * i + 4
    BY <1>1
  <2>3. /\ LoByte(v0) \in Byte /\ HiByte(v0) \in Byte
        /\ LoByte(v1) \in Byte /\ HiByte(v1) \in Byte
    BY <1>3, HalvesByte
  <2>4. buf \in [1 .. Len(text) -> Byte]
    BY <1>0 DEF TypeOK
  <2> QED
    BY <2>1, <2>2, <2>3, <2>4
<1>5. \A b \in Blocks : b # i =>
        /\ buf'[4 * b + 1] = buf[4 * b + 1] /\ buf'[4 * b + 2] = buf[4 * b + 2]
        /\ buf'[4 * b + 3] = buf[4 * b + 3] /\ buf'[4 * b + 4] = buf[4 * b + 4]
  <2> SUFFICES ASSUME NEW b \in Blocks, b # i, NEW k \in {1, 2, 3, 4}
               PROVE  buf'[4 * b + k] = buf[4 * b + k]
    OBVIOUS
  <2>1. 4 * b + k \in 1 .. Len(text)
    BY <1>0, BlocksInText
  <2>2. 4 * b + k \notin {4 * i + 1, 4 * i + 2, 4 * i + 3, 4 * i + 4}
    BY <1>1, <1>2
  <2> QED
    BY <1>4, <2>1, <2>2
<1>6. \A b \in Blocks : b # i =>
        /\ IsText(b) => IsText(b)'
        /\ BlockStart(b)' = BlockStart(b)
  <2> SUFFICES ASSUME NEW b \in Blocks, b # i
               PROVE  /\ IsText(b) => IsText(b)'
                      /\ BlockStart(b)' = BlockStart(b)
    OBVIOUS
  <2>1. /\ BlockWord(b, 0) = MkWord(buf[4 * b + 1], buf[4 * b + 2])
        /\ BlockWord(b, 1) = MkWord(buf[4 * b + 3], buf[4 * b + 4])
    BY <1>0, BlockWords
  <2>2. /\ BlockWord(b, 0)' = MkWord(buf'[4 * b + 1], buf'[4 * b + 2])
        /\ BlockWord(b, 1)' = MkWord(buf'[4 * b + 3], buf'[4 * b + 4])
    BY <1>2 DEF BlockWord
  <2> QED
    BY <1>5, <2>1, <2>2 DEF IsText, BlockStart
<1>7. TypeOK'
  <2>1. buf' \in [1 .. Len(text) -> Byte]
    BY <1>4
  <2>2. pc' = "blocks" /\ i' = i + 1 /\ i + 1 \in Nat
    BY <1>1
  <2>3. UNCHANGED <<text, program, n, v0, v1, seen>>
    OBVIOUS
  <2> HIDE DEF StoreBlock
  <2> QED
    BY <1>0, <1>1, <2>1, <2>2, <2>3 DEF TypeOK
<1>8. Position'
  BY <1>0, <1>1, <1>2 DEF Position
<1>9. Remainder'
  <2> SUFFICES ASSUME NEW k \in 1 .. Len(text), k > 4 * (Len(text) \div 4)
               PROVE  buf'[k] = text[k]
    BY DEF Remainder
  <2> DEFINE D == Len(text) \div 4
  <2>1. i \in Nat /\ D \in Nat /\ i < D /\ k > 4 * D /\ k \in Int
    BY <1>1, <1>2
  <2>2. k \notin {4 * i + 1, 4 * i + 2, 4 * i + 3, 4 * i + 4}
    <3> HIDE DEF D
    <3> QED
      BY <2>1
  <2>3. buf'[k] = buf[k]
    BY <1>4, <2>2
  <2> QED
    BY <1>0, <2>3 DEF Remainder
<1>10. Encrypting'
  <2> SUFFICES ASSUME program = "encrypt" PROVE Encrypting'
    BY DEF Encrypting
  <2>2. ASSUME NEW b \in Blocks, b < i + 1
        PROVE  (Chain(b, Rounds) /\ IsCipher(b))'
    <3>1. CASE b = i
      <4>1. Chain(b, Rounds) /\ seen[b][Rounds] = <<v0, v1>>
        BY <1>0, <3>1 DEF Encrypting
      <4>2. /\ BlockWord(b, 0)' = MkWord(LoByte(v0), HiByte(v0))
            /\ BlockWord(b, 1)' = MkWord(LoByte(v1), HiByte(v1))
        BY <1>1, <1>4, <3>1 DEF BlockWord
      <4>3. BlockStart(b)' = <<v0, v1>>
        BY <1>3, <4>2, HalvesMakeWord DEF BlockStart
      <4> QED
        BY <4>1, <4>3 DEF Chain, TextBlock, IsCipher
    <3>2. CASE b # i
      <4>1. b < i
        BY <1>1, <1>2, <2>2, <3>2
      <4>2. Chain(b, Rounds) /\ IsCipher(b)
        BY <1>0, <4>1 DEF Encrypting
      <4> QED
        BY <1>6, <3>2, <4>2 DEF Chain, TextBlock, IsCipher
    <3> QED
      BY <3>1, <3>2
  <2>3. ASSUME NEW b \in Blocks, b >= i + 1
        PROVE  IsText(b)'
    <3>1. b # i /\ b >= i
      BY <1>1, <1>2, <2>3
    <3> QED
      BY <1>0, <1>6, <3>1 DEF Encrypting
  <2> QED
    BY <1>1, <2>2, <2>3 DEF Encrypting
<1>11. Decrypting'
  <2> SUFFICES ASSUME program = "decrypt" PROVE Decrypting'
    BY DEF Decrypting
  <2>1. \A b \in Blocks : Chain(b, Rounds)'
    BY <1>0 DEF Decrypting, Chain, TextBlock
  <2>2. ASSUME NEW b \in Blocks, b < i + 1
        PROVE  IsText(b)'
    <3>1. CASE b = i
      <4>1. Rounds - n = 0
        BY TeaAssumption
      <4>2. Chain(i, Rounds) /\ seen[i][0] = <<v0, v1>>
        BY <1>0, <1>1, <4>1 DEF Decrypting
      <4>3. /\ v0 = MkWord(text[4 * i + 1], text[4 * i + 2])
            /\ v1 = MkWord(text[4 * i + 3], text[4 * i + 4])
        BY <4>2 DEF Chain, TextBlock
      <4>4. /\ text[4 * i + 1] \in Byte /\ text[4 * i + 2] \in Byte
            /\ text[4 * i + 3] \in Byte /\ text[4 * i + 4] \in Byte
        BY <1>0, <1>1, BlocksInText, TextBytes
      <4>5. /\ LoByte(v0) = text[4 * i + 1] /\ HiByte(v0) = text[4 * i + 2]
            /\ LoByte(v1) = text[4 * i + 3] /\ HiByte(v1) = text[4 * i + 4]
        BY <4>3, <4>4, MakeWordHalves
      <4> QED
        BY <1>4, <3>1, <4>5 DEF IsText
    <3>2. CASE b # i
      <4>1. b < i
        BY <1>1, <1>2, <2>2, <3>2
      <4> QED
        BY <1>0, <1>6, <3>2, <4>1 DEF Decrypting
    <3> QED
      BY <3>1, <3>2
  <2>3. ASSUME NEW b \in Blocks, b >= i + 1
        PROVE  IsCipher(b)'
    <3>1. b # i /\ b >= i
      BY <1>1, <1>2, <2>3
    <3> QED
      BY <1>0, <1>6, <3>1 DEF Decrypting, IsCipher
  <2> QED
    BY <1>1, <2>1, <2>2, <2>3 DEF Decrypting
<1> QED
  BY <1>7, <1>8, <1>9, <1>10, <1>11 DEF IInv

LEMMA FinishIInv == IInv /\ Finish => IInv'
<1> SUFFICES ASSUME IInv, Finish PROVE IInv'
  OBVIOUS
<1> USE DEF Finish
<1>0. TypeOK /\ Position /\ Remainder /\ Encrypting /\ Decrypting
  BY DEF IInv
<1>1. i = Len(text) \div 4 /\ Blocks' = Blocks
  BY <1>0, IsBlockIs DEF Position, Blocks
<1>2. \A b \in Blocks : b < i /\ b >= 0
  BY <1>0, <1>1, BlocksInText
<1>3. TypeOK'
  BY <1>0, <1>1 DEF TypeOK
<1>4. Position'
  BY <1>0, <1>1, BlocksInText DEF Position
<1>5. Remainder'
  BY <1>0 DEF Remainder
<1>6. Encrypting'
  BY <1>0 DEF Encrypting, Position, TypeOK
<1>7. Decrypting'
  <2>1. \A b \in Blocks : Chain(b, Rounds)
    BY <1>0, <1>2 DEF Encrypting, Decrypting, TypeOK
  <2>2. \A b \in Blocks : Chain(b, Rounds)'
    BY <2>1 DEF Chain, TextBlock
  <2>3. CASE program = "encrypt"
    <3>1. \A b \in Blocks : IsCipher(b)'
      BY <1>0, <1>2, <2>3
      DEF Encrypting, IsCipher, BlockStart, BlockWord
    <3>2. i' = 0 /\ pc' = "blocks"
      BY <2>3
    <3>3. \A b \in Blocks : ~(b < 0)
      BY <1>0, BlocksInText
    <3> QED
      BY <1>1, <2>2, <3>1, <3>2, <3>3 DEF Decrypting
  <2>4. CASE program # "encrypt"
    <3>1. program = "decrypt" /\ pc' = "done" /\ i' = i
      BY <1>0, <2>4 DEF TypeOK
    <3>2. \A b \in Blocks : IsText(b)'
      BY <1>0, <1>2, <3>1 DEF Decrypting, IsText
    <3>3. \A b \in Blocks : ~(b >= i)
      BY <1>0, <1>1, BlocksInText
    <3> QED
      BY <1>1, <2>2, <3>1, <3>2, <3>3 DEF Decrypting
  <2> QED
    BY <2>3, <2>4
<1> QED
  BY <1>3, <1>4, <1>5, <1>6, <1>7 DEF IInv
-----------------------------------------------------------------------------
LEMMA NextIInv == IInv /\ [Next]_vars => IInv'
<1> SUFFICES ASSUME IInv, [Next]_vars PROVE IInv'
  OBVIOUS
<1>1. CASE LoadBlock
  BY <1>1, LoadIInv
<1>2. CASE Round
  BY <1>2, RoundIInv
<1>3. CASE StoreBlock
  BY <1>3, StoreIInv
<1>4. CASE Finish
  BY <1>4, FinishIInv
<1>5. CASE UNCHANGED vars
  BY <1>5 DEF vars, IInv, TypeOK, Position, Remainder, Encrypting, Decrypting,
              Blocks, Chain, TextBlock, IsText, IsCipher, BlockStart, BlockWord
<1> QED
  BY <1>1, <1>2, <1>3, <1>4, <1>5 DEF Next

THEOREM Invariant == Spec => []IInv
  BY InitIInv, NextIInv, PTL DEF Spec

(* The words stay words of 16 bits through every round.                    *)
THEOREM TeaTypeCorrect == Spec => []TypeOK
<1>1. IInv => TypeOK
  BY DEF IInv
<1> QED
  BY <1>1, Invariant, PTL

(* What tea-encrypt wrote, tea-decrypt turns back into the argument, block *)
(* by block, and neither touches the bytes behind the last block.          *)
THEOREM TeaRoundTrip == Spec => []RoundTrip
<1>1. IInv => RoundTrip
  <2> SUFFICES ASSUME IInv, pc = "done" PROVE buf = text
    BY DEF RoundTrip
  <2>0. TypeOK /\ Position /\ Remainder /\ Encrypting /\ Decrypting
    BY DEF IInv
  <2>1. program = "decrypt" /\ i = Len(text) \div 4
    BY <2>0 DEF Position, TypeOK
  <2>2. \A b \in Blocks : IsText(b)
    BY <2>0, <2>1, BlocksInText DEF Decrypting
  <2>3. ASSUME NEW k \in 1 .. Len(text)
        PROVE  buf[k] = text[k]
    <3> DEFINE D == Len(text) \div 4
               b == (k - 1) \div 4
    <3>1. D \in Nat /\ Len(text) \in Nat /\ k \in Nat /\ k >= 1
      BY <2>0, BlocksInText
    <3>2. CASE k > 4 * D
      BY <2>0, <3>2 DEF Remainder
    <3>3. CASE ~(k > 4 * D)
      <4>1. /\ b \in Nat /\ b < D
            /\ k \in {4 * b + 1, 4 * b + 2, 4 * b + 3, 4 * b + 4}
        <5> HIDE DEF D
        <5> QED
          BY <3>1, <3>3
      <4>2. IsText(b)
        BY <2>0, <2>2, <4>1, BlocksInText
      <4> QED
        BY <4>1, <4>2 DEF IsText
    <3> QED
      BY <3>2, <3>3
  <2>4. text \in Seq(1 .. 255) /\ buf \in [1 .. Len(text) -> Byte]
    BY <2>0, TeaAssumption DEF TypeOK
  <2>5. text = [k \in 1 .. Len(text) |-> text[k]]
    BY <2>4
  <2>6. buf = [k \in 1 .. Len(text) |-> buf[k]]
    BY <2>4
  <2> QED
    BY <2>3, <2>5, <2>6, Zenon
<1> QED
  BY <1>1, Invariant, PTL

(* The multiplications of MULI and MULR are products modulo 2^16, although *)
(* the model sums them over two halves, and DIVI and DIVR give a quotient. *)
THEOREM Products == Spec => []ProductsAgree
<1>1. TypeOK => ProductsAgree
  BY ProductsDistribute, QuotientTimes DEF TypeOK, ProductsAgree
<1> QED
  BY <1>1, TeaTypeCorrect, PTL

(* The shifts of SHLI, SHLR, SHRI and SHRR by one more double and halve,   *)
(* and do not see the bits of the count above the fifth.                   *)
THEOREM Shifts == Spec => []ShiftsAgree
<1>1. ASSUME TypeOK PROVE ShiftsAgree
  <2>1. v0 \in Word /\ v1 \in Word
    BY <1>1 DEF TypeOK
  <2>2. v1 % 31 \in 0 .. 30
    BY <2>1, WordIs
  <2> QED
    BY <2>1, <2>2, ShiftsDouble DEF ShiftsAgree
<1> QED
  BY <1>1, TeaTypeCorrect, PTL
=============================================================================
