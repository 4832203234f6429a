------------------------------ MODULE Bytecode ------------------------------
(***************************************************************************)
(* One instruction, as the bytes it is encoded in with the key of the      *)
(* client.                                                                 *)
(***************************************************************************)
EXTENDS PolictfKey, Words

B(op) == PolictfINSTR[op]
Imm(op, d, w) == <<B(op), d, LoByte(w), HiByte(w)>>
Sto(w, s)     == <<B("STRI"), LoByte(w), HiByte(w), s>>
Byt(op, d, b) == <<B(op), d, b>>
Reg(op, d, s) == <<B(op), 16 * d + s>>
One(op, r)    == <<B(op), r>>
Jmp(op, w)    == <<B(op), LoByte(w), HiByte(w)>>
Sgl(op)       == <<B(op)>>

(* A byte that is no opcode.                                               *)
NoOpcode == CHOOSE b \in Byte : \A op \in Ops : PolictfINSTR[op] # b
=============================================================================
