----------------------------- MODULE PolictfKey -----------------------------
(***************************************************************************)
(* The key of polictf/client/pasticciotto_client.cpp, HaveFun!PoliCTF2017! *)
(* and the opcode bytes it stands for, in the order of INSTR_ENUM.  That   *)
(* encrypt_ops computes them is an assumption of MCToolchain.              *)
(***************************************************************************)
EXTENDS InstructionSet

PolictfKey == <<72, 97, 118, 101, 70, 117, 110, 33, 80, 111, 108, 105, 67,
                84, 70, 50, 48, 49, 55, 33>>

PolictfBytes ==
  <<72, 203, 34, 18, 212, 78, 5, 57, 66, 87, 83, 1, 243, 84,
    152, 233, 229, 107, 177, 85, 7, 9, 198, 6, 32, 206, 54, 37,
    222, 92, 244, 58, 215, 76, 192, 255, 61, 147, 154, 56, 14,
    174, 185, 216, 187, 93, 249, 195, 237>>

PolictfINSTR ==
  [op \in Ops |-> PolictfBytes[CHOOSE k \in 1 .. NUM_OPS : OpOrder[k] = op]]
=============================================================================
