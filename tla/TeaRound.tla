------------------------------ MODULE TeaRound ------------------------------
(***************************************************************************)
(* One round of the functions encrypt and decrypt of polictf/tea_cversion, *)
(* on a pair of words.                                                     *)
(***************************************************************************)
EXTENDS Words

k0 == 28773         \* 0x7065
k1 == 28773         \* 0x7065
k2 == 29301         \* 0x7275
k3 == 28275         \* 0x6e73

(* What a round adds to one word: a function of the other.  C computes it  *)
(* in int and keeps the low 16 bits when it is added to a uint16_t.        *)
Mix(w, ka, kb) ==
  XorWord(XorWord(AddWord(ShlWord(w, 4), ka), w), AddWord(ShrWord(w, 5), kb))

EncRound(v) ==
  LET w0 == AddWord(v[1], Mix(v[2], k0, k1))
  IN  <<w0, AddWord(v[2], Mix(w0, k2, k3))>>

DecRoundInOrder(v) ==               \* mutant: v0 first, as in encryption
  LET w0 == SubWord(v[1], Mix(v[2], k0, k1))
  IN  <<w0, SubWord(v[2], Mix(w0, k2, k3))>>
DecRound(v) ==
  LET w1 == SubWord(v[2], Mix(v[1], k2, k3))
  IN  <<SubWord(v[1], Mix(w1, k0, k1)), w1>>
=============================================================================
