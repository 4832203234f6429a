------------------------------- MODULE Words -------------------------------
(***************************************************************************)
(* The arithmetic behind the instructions of vm/vm.cpp.  A register is a   *)
(* uint16_t: C++ promotes it to int, computes, and narrows the result to   *)
(* 16 bits when it is assigned back to regs[dst].                          *)
(***************************************************************************)
EXTENDS Integers

Byte == 0 .. 255
WordSize == 65536
Word == 0 .. WordSize - 1

(* The narrowing of an int to the uint16_t it is assigned to.              *)
TruncToInt(n) == n                              \* mutant: not narrowed
Trunc(n) == n % WordSize

(* The halves of a word in memory order: the x86-64 build is little-endian.*)
LoByte(w) == w % 256
HiByte(w) == w \div 256
MkWord(lo, hi) == lo + 256 * hi

(* The powers of two up to the one of the highest bit of a word.           *)
Pow2(k) ==
  LET low(n) == CASE n = 0 -> 1   [] n = 1 -> 2   [] n = 2 -> 4  [] n = 3 -> 8
                  [] n = 4 -> 16  [] n = 5 -> 32  [] n = 6 -> 64 [] OTHER -> 128
  IN  IF k < 8 THEN low(k) ELSE 256 * low(k - 8)

Bit(w, k) == (w \div Pow2(k)) % 2

(* The word whose k-th bit is b[k], for every k in 0 .. 15.                *)
FromBits(b) ==
  LET octet(k) == b[k] + 2 * b[k + 1] + 4 * b[k + 2] + 8 * b[k + 3]
                  + 16 * b[k + 4] + 32 * b[k + 5] + 64 * b[k + 6]
                  + 128 * b[k + 7]
  IN  Trunc(MkWord(octet(0), octet(8)))

-----------------------------------------------------------------------------
AddWord(a, b) == Trunc(a + b)
SubWord(a, b) == Trunc(a - b)

MulLowByte(a, b) == Trunc(a * LoByte(b))         \* mutant: a byte of b lost
(* The product of two words overflows the int they are promoted to; the    *)
(* low half of the wrapped product is the low half of the exact one.  It   *)
(* is summed over the halves of b, which keeps it within TLC's integers.   *)
MulWord(a, b) == Trunc(a * LoByte(b) + 256 * ((a * HiByte(b)) % 256))
DivWord(a, b) == Trunc(a \div b)

AndLowByte(a, b) == LoByte(FromBits([k \in 0 .. 15 |->
                                       Bit(a, k) * Bit(b, k)]))
                                                \* mutant: a byte lost
AndWord(a, b) == FromBits([k \in 0 .. 15 |-> Bit(a, k) * Bit(b, k)])
OrWord(a, b)  == FromBits([k \in 0 .. 15 |->
                             Bit(a, k) + Bit(b, k) - Bit(a, k) * Bit(b, k)])
XorWord(a, b) == FromBits([k \in 0 .. 15 |-> (Bit(a, k) + Bit(b, k)) % 2])
NotWord(a)    == Trunc(-1 - a)

ShlByAll(a, n) == IF n > 15 THEN 0 ELSE Trunc(a * Pow2(n % 32))
                                                \* mutant: count not masked
(* The shift is one of a 32-bit int, whose count x86-64 takes modulo 32    *)
(* (C++ leaves a count of 32 or more undefined).                           *)
ShlWord(a, n) == IF n % 32 > 15 THEN 0 ELSE Trunc(a * Pow2(n % 32))
ShrWord(a, n) == IF n % 32 > 15 THEN 0 ELSE Trunc(a \div Pow2(n % 32))
=============================================================================
