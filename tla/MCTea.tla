------------------------------- MODULE MCTea -------------------------------
(***************************************************************************)
(* Tea with all its rounds on short texts; and the operators of Words that *)
(* work on bits, on the words that come up, against the bitwise operators  *)
(* of the community modules.                                               *)
(***************************************************************************)
EXTENDS Tea, Bitwise

(* No, one or two blocks, with and without bytes behind them.              *)
ShortTexts ==
  UNION {[1 .. k -> {1, 84, 255}] : k \in 0 .. 4} \cup
  {<<84, 104, 101, 82, 117, 78, 97, 115>>, <<140, 234, 190, 170, 237>>,
   <<255, 255, 255, 255, 255, 255>>, <<128, 1, 128, 1, 128, 1, 1>>}

(* AND, OR, XOR and NOT, which Words computes as sums of bits, are the     *)
(* bitwise operators of C++.                                               *)
BitwiseAgree ==
  /\ AndWord(v0, v1) = v0 & v1
  /\ OrWord(v0, v1) = v0 | v1
  /\ XorWord(v0, v1) = v0 ^^ v1
  /\ NotWord(v0) = v0 ^^ (WordSize - 1)
=============================================================================
