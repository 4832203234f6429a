-------------------------- MODULE PolictfPrograms --------------------------
(***************************************************************************)
(* The programs and data of the challenge: polictf/asms/encrypt.pstc and   *)
(* decrypt.pstc line by line, without empty lines and comments; the        *)
(* bytecode in the client; the data section of the server and what it is   *)
(* compared with.                                                          *)
(***************************************************************************)
EXTENDS TLC, Sequences

(* The lines of a text, as module Assembler has them.                      *)
Reg(name, n) == [kind |-> "reg", num |-> n, name |-> name]
Val(n) == [kind |-> "num", num |-> n, name |-> ToString(n)]
Sym(name) == [kind |-> "name", num |-> 0, name |-> name]
Fun(name) == [kind |-> "def", name |-> name, args |-> <<>>]
Label(name) == [kind |-> "label", name |-> name, args |-> <<>>]
Ins(op, args) == [kind |-> "ins", name |-> op, args |-> args]
Ins0(op) == Ins(op, <<>>)
Ins1(op, a) == Ins(op, <<a>>)
Ins2(op, a, b) == Ins(op, <<a, b>>)

r0 == Reg("r0", 0)
r1 == Reg("r1", 1)
r2 == Reg("r2", 2)
r3 == Reg("r3", 3)
s0 == Reg("s0", 4)
s1 == Reg("s1", 5)
s2 == Reg("s2", 6)
s3 == Reg("s3", 7)
-----------------------------------------------------------------------------
datastrlen ==
  << Fun("datastrlen"), Ins1("PUSH", r1), Ins1("PUSH", r2), Ins1("PUSH", r3),
     Ins2("MOVR", s2, r0), Ins2("MOVI", s1, Val(0)), Ins2("LODR", s0, s2),
     Ins2("CMPB", s0, Val(0)), Ins1("JPEI", Sym("exit")), Label("loop"),
     Ins2("MOVI", s2, Val(0)), Ins2("ADDI", s1, Val(1)), Ins2("ADDR", s2, s1),
     Ins2("LODR", s0, s2), Ins2("CMPB", s0, Val(0)),
     Ins1("JPNI", Sym("loop")), Label("exit"), Ins2("MOVR", r0, s1),
     Ins1("POOP", r3), Ins1("POOP", r2), Ins1("POOP", r1), Ins0("RETN") >>

encrypt_round ==
  << Fun("round"), Ins1("PUSH", r1), Ins1("PUSH", r2), Ins1("PUSH", r3),
     Ins2("LODR", r2, r0), Ins2("LODR", r3, r1), Ins2("MOVI", s0, Val(0)),
     Ins2("MOVI", s1, Val(0)), Label("loop"), Ins1("PUSH", s0),
     Ins2("ADDI", s1, Val(25199)), Ins1("PUSH", s1), Ins2("MOVR", s0, r3),
     Ins2("SHLI", s0, Val(4)), Ins2("ADDI", s0, Val(28773)),
     Ins2("MOVR", s1, r3), Ins1("POOP", s3), Ins1("PUSH", s3),
     Ins2("XORR", s0, s1), Ins1("PUSH", s0), Ins2("MOVR", s0, r3),
     Ins2("SHRI", s0, Val(5)), Ins2("ADDI", s0, Val(28773)), Ins1("POOP", s1),
     Ins2("XORR", s0, s1), Ins2("ADDR", r2, s0), Ins2("MOVR", s0, r2),
     Ins2("SHLI", s0, Val(4)), Ins2("ADDI", s0, Val(29301)),
     Ins2("MOVR", s1, r2), Ins1("POOP", s3), Ins1("PUSH", s3),
     Ins2("XORR", s0, s1), Ins1("PUSH", s0), Ins2("MOVR", s0, r2),
     Ins2("SHRI", s0, Val(5)), Ins2("ADDI", s0, Val(28275)), Ins1("POOP", s1),
     Ins2("XORR", s0, s1), Ins2("ADDR", r3, s0), Ins1("POOP", s1),
     Ins1("POOP", s0), Ins2("ADDI", s0, Val(1)), Ins2("CMPB", s0, Val(127)),
     Ins1("JPBI", Sym("loop")), Ins2("STRR", r0, r2), Ins2("STRR", r1, r3),
     Ins1("POOP", r3), Ins1("POOP", r2), Ins1("POOP", r1), Ins0("RETN") >>

encrypt_main ==
  << Fun("main"), Ins0("GRMN"), Ins2("MOVI", r0, Val(44510)),
     Ins2("MOVI", r1, Val(2992)), Ins2("STRI", Val(0), r0),
     Ins2("STRI", Val(2), r1), Ins2("MOVI", r0, Val(2992)),
     Ins2("MOVI", r1, Val(52986)), Ins2("STRI", Val(4), r0),
     Ins2("STRI", Val(6), r1), Ins2("MOVI", r0, Val(0)),
     Ins1("CALL", Sym("datastrlen")), Ins2("MOVR", r2, r0),
     Ins2("MOVI", s0, Val(0)), Label("encrypt"), Ins1("PUSH", s0),
     Ins2("MOVI", r0, Val(0)), Ins2("MOVI", r1, Val(2)), Ins2("ADDR", r0, s0),
     Ins2("ADDR", r1, s0), Ins1("CALL", Sym("round")), Ins1("POOP", s0),
     Ins2("ADDI", s0, Val(4)), Ins2("CMPR", s0, r2),
     Ins1("JPBI", Sym("encrypt")), Ins2("LODI", r0, Val(0)),
     Ins2("LODI", r1, Val(2)), Ins2("LODI", r2, Val(4)),
     Ins2("LODI", r3, Val(6)), Ins0("SHIT") >>

decrypt_round ==
  << Fun("round"), Ins1("PUSH", r1), Ins1("PUSH", r2), Ins1("PUSH", r3),
     Ins2("LODR", r2, r0), Ins2("LODR", r3, r1), Ins2("MOVI", s0, Val(0)),
     Ins2("MOVI", s1, Val(0)), Label("loop"), Ins1("PUSH", s0),
     Ins2("MOVR", s0, r2), Ins2("SHLI", s0, Val(4)),
     Ins2("ADDI", s0, Val(29301)), Ins2("MOVR", s1, r2), Ins2("XORR", s0, s1),
     Ins1("PUSH", s0), Ins2("MOVR", s0, r2), Ins2("SHRI", s0, Val(5)),
     Ins2("ADDI", s0, Val(28275)), Ins1("POOP", s1), Ins2("XORR", s0, s1),
     Ins2("SUBR", r3, s0), Ins2("MOVR", s0, r3), Ins2("SHLI", s0, Val(4)),
     Ins2("ADDI", s0, Val(28773)), Ins2("MOVR", s1, r3), Ins2("XORR", s0, s1),
     Ins1("PUSH", s0), Ins2("MOVR", s0, r3), Ins2("SHRI", s0, Val(5)),
     Ins2("ADDI", s0, Val(28773)), Ins1("POOP", s1), Ins2("XORR", s0, s1),
     Ins2("SUBR", r2, s0), Ins1("POOP", s0), Ins2("ADDI", s0, Val(1)),
     Ins2("CMPB", s0, Val(127)), Ins1("JPBI", Sym("loop")),
     Ins2("STRR", r0, r2), Ins2("STRR", r1, r3), Ins1("POOP", r3),
     Ins1("POOP", r2), Ins1("POOP", r1), Ins0("RETN") >>

decrypt_main ==
  << Fun("main"), Ins2("MOVI", r0, Val(0)), Ins1("CALL", Sym("datastrlen")),
     Ins2("MOVR", r2, r0), Ins2("MOVI", s0, Val(0)), Label("decrypt"),
     Ins1("PUSH", s0), Ins2("MOVI", r0, Val(0)), Ins2("MOVI", r1, Val(2)),
     Ins2("ADDR", r0, s0), Ins2("ADDR", r1, s0), Ins1("CALL", Sym("round")),
     Ins1("POOP", s0), Ins2("ADDI", s0, Val(4)), Ins2("CMPR", s0, r2),
     Ins1("JPBI", Sym("decrypt")), Ins0("SHIT") >>

encrypt_pstc == datastrlen \o encrypt_round \o encrypt_main
decrypt_pstc == datastrlen \o decrypt_round \o decrypt_main
-----------------------------------------------------------------------------
(* The code the client runs.                                               *)
bc ==
  << 195, 72, 0, 222, 173, 72, 1, 176, 11, 212, 0, 0, 0, 212, 2, 0, 1, 72, 0,
     176, 11, 72, 1, 250, 206, 212, 4, 0, 0, 212, 6, 0, 1, 72, 0, 0, 0, 216,
     214, 0, 203, 32, 72, 4, 0, 0, 222, 4, 72, 0, 0, 0, 72, 1, 2, 0, 57, 4,
     57, 20, 216, 91, 0, 92, 4, 5, 4, 4, 0, 215, 66, 147, 46, 0, 34, 0, 0, 0,
     34, 1, 2, 0, 34, 2, 4, 0, 34, 3, 6, 0, 93, 222, 1, 222, 2, 222, 3, 18,
     32, 18, 49, 72, 4, 0, 0, 72, 5, 0, 0, 222, 4, 5, 5, 111, 98, 222, 5, 203,
     67, 32, 4, 4, 0, 5, 4, 101, 112, 203, 83, 92, 7, 222, 7, 177, 69, 222, 4,
     203, 67, 54, 4, 5, 0, 5, 4, 101, 112, 92, 5, 177, 69, 57, 36, 203, 66,
     32, 4, 4, 0, 5, 4, 117, 114, 203, 82, 92, 7, 222, 7, 177, 69, 222, 4,
     203, 66, 54, 4, 5, 0, 5, 4, 115, 110, 92, 5, 177, 69, 57, 52, 92, 5, 92,
     4, 5, 4, 1, 0, 244, 4, 127, 147, 109, 0, 78, 2, 78, 19, 92, 3, 92, 2, 92,
     1, 187, 222, 1, 222, 2, 222, 3, 203, 96, 72, 5, 0, 0, 18, 70, 244, 4, 0,
     56, 252, 0, 72, 6, 0, 0, 5, 5, 1, 0, 57, 101, 18, 70, 244, 4, 0, 174,
     234, 0, 203, 5, 92, 3, 92, 2, 92, 1, 187 >>

EN_DATASECTION ==
  << 140, 234, 190, 170, 237, 160, 208, 107, 153, 28, 82, 37, 185, 230, 216,
     255, 249, 233, 146, 122, 28, 197, 196, 126, 42, 236, 103, 50, 134, 202,
     255, 248, 60, 28, 119, 66, 227, 32, 41, 75, 52, 103, 75, 201, 159, 169,
     249, 12, 15, 155, 138, 91, 114, 100, 229, 216, 92, 82, 88, 70, 239, 54,
     118, 135, 236, 30, 251, 93, 66, 142, 183, 71 >>

(* res/decrypteddatasection.txt.                                           *)
decdatasec ==
  << 84, 104, 101, 68, 97, 116, 97, 83, 101, 99, 116, 105, 111, 110, 72, 97,
     115, 66, 101, 101, 110, 69, 110, 99, 114, 121, 112, 116, 101, 100, 46,
     46, 46, 87, 104, 111, 65, 114, 101, 89, 111, 117, 71, 111, 110, 110, 97,
     67, 97, 108, 108, 46, 46, 46, 84, 104, 101, 82, 117, 78, 97, 115, 79,
     102, 67, 111, 117, 114, 115, 101, 46, 46 >>
=============================================================================
