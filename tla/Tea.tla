-------------------------------- MODULE Tea --------------------------------
(***************************************************************************)
(* polictf/tea_cversion: tea-encrypt.c encrypts its argument, block after  *)
(* block, and tea-decrypt.c is given what it wrote.  A block is two words  *)
(* of 16 bits, which lie in a buffer of bytes.  What lies behind the last  *)
(* whole block is left as it is.                                           *)
(***************************************************************************)
EXTENDS TeaRound, Sequences

CONSTANTS
  Texts,            \* the arguments of tea-encrypt
  Rounds            \* 128

(* The argument is a C string; tea-decrypt has a buffer of 1000 bytes.     *)
ASSUME TeaAssumption ==
  /\ \A text \in Texts : text \in Seq(1 .. 255) /\ Len(text) <= 1000
  /\ Rounds \in Nat

VARIABLES
  text,             \* argv[1]
  program,          \* "encrypt" or "decrypt"
  pc,               \* "blocks" between two blocks, "rounds", or "done"
  buf,
  i,                \* the number of blocks done: i of the code, over 4
  n,                \* i of the function encrypt or decrypt
  v0, v1,
  seen              \* history: v0 and v1 before each round of encryption

vars == <<text, program, pc, buf, i, n, v0, v1, seen>>

Blocks == 0 .. (Len(text) \div 4) - 1
BlockWord(b, k) == MkWord(buf[4 * b + 2 * k + 1], buf[4 * b + 2 * k + 2])
BlockStart(b) == <<BlockWord(b, 0), BlockWord(b, 1)>>

TypeOK ==
  /\ text \in Texts
  /\ program \in {"encrypt", "decrypt"}
  /\ pc \in {"blocks", "rounds", "done"}
  /\ buf \in [1 .. Len(text) -> Byte]
  /\ i \in Nat
  /\ n \in 0 .. Rounds
  /\ v0 \in Word /\ v1 \in Word
  /\ seen \in [Blocks -> [0 .. Rounds -> Word \X Word]]

-----------------------------------------------------------------------------
Init ==
  /\ text \in Texts
  /\ program = "encrypt"
  /\ pc = "blocks"
  /\ buf = text
  /\ i = 0 /\ n = 0
  /\ v0 = 0 /\ v1 = 0
  /\ seen = [b \in Blocks |-> [r \in 0 .. Rounds |-> <<0, 0>>]]

IsBlock == 4 * i + 4 <= Len(text)

LoadBlock ==
  /\ pc = "blocks" /\ IsBlock
  /\ pc' = "rounds"
  /\ n' = 0
  /\ v0' = BlockWord(i, 0) /\ v1' = BlockWord(i, 1)
  /\ seen' = IF program = "encrypt"
               THEN [seen EXCEPT ![i][0] = BlockStart(i)] ELSE seen
  /\ UNCHANGED <<text, program, buf, i>>

Round ==
  /\ pc = "rounds" /\ n < Rounds
  /\ n' = n + 1
  /\ LET w == IF program = "encrypt" THEN EncRound(<<v0, v1>>)
                                     ELSE DecRound(<<v0, v1>>)
     IN  /\ v0' = w[1] /\ v1' = w[2]
         /\ seen' = IF program = "encrypt"
                      THEN [seen EXCEPT ![i][n + 1] = w] ELSE seen
  /\ UNCHANGED <<text, program, pc, buf, i>>

StoreBlock ==
  /\ pc = "rounds" /\ n = Rounds
  /\ buf' = [buf EXCEPT ![4 * i + 1] = LoByte(v0), ![4 * i + 2] = HiByte(v0),
                        ![4 * i + 3] = LoByte(v1), ![4 * i + 4] = HiByte(v1)]
  /\ i' = i + 1
  /\ pc' = "blocks"
  /\ UNCHANGED <<text, program, n, v0, v1, seen>>

(* The output of tea-encrypt becomes the input of tea-decrypt.  That all   *)
(* of it arrives in buf is assumed: the number is read by fscanf, which    *)
(* buffers, and the bytes by a read() whose result nobody looks at.        *)
Finish ==
  /\ pc = "blocks" /\ ~IsBlock
  /\ IF program = "encrypt"
       THEN program' = "decrypt" /\ i' = 0 /\ UNCHANGED pc
       ELSE pc' = "done" /\ UNCHANGED <<program, i>>
  /\ UNCHANGED <<text, buf, n, v0, v1, seen>>

Next == LoadBlock \/ Round \/ StoreBlock \/ Finish

Spec == Init /\ [][Next]_vars
-----------------------------------------------------------------------------
(* Decryption gives back the text, for any number of rounds: each round of *)
(* tea-decrypt.c undoes one of tea-encrypt.c, the two words in the other   *)
(* order, although words wrap and shifts lose bits.                        *)
RoundTrip == pc = "done" => buf = text

(* Products, which Words sums over the halves of a factor, distribute over *)
(* wrapping sums and commute; quotients and remainders make up the word.   *)
ProductsAgree ==
  /\ MulWord(v0, v1) = MulWord(v1, v0)
  /\ MulWord(v0, AddWord(v1, 1)) = AddWord(MulWord(v0, v1), v0)
  /\ v1 # 0 => SubWord(v0, MulWord(DivWord(v0, v1), v1)) = v0 % v1

(* A shift by one more position doubles or halves, and a shift by 32 more  *)
(* positions is the same shift, as for the 32-bit shifts of x86-64.        *)
ShiftsAgree ==
  LET s == v1 % 31 IN
  /\ ShlWord(v0, s + 1) = AddWord(ShlWord(v0, s), ShlWord(v0, s))
  /\ ShrWord(v0, s + 1) = ShrWord(v0, s) \div 2
  /\ ShlWord(v0, s + 32) = ShlWord(v0, s)
  /\ ShrWord(v0, s + 32) = ShrWord(v0, s)
=============================================================================
