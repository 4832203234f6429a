-------------------------------- MODULE MCVM --------------------------------
(***************************************************************************)
(* VM on a small address space, with the opcode bytes of a real key and    *)
(* programs put together from instructions.                                *)
(***************************************************************************)
EXTENDS Documented, Bytecode, SequencesExt

(* The programs of n of the given instructions.                            *)
Sequences(instrs, n) == {FlattenSeq(s) : s \in [1 .. n -> instrs]}
-----------------------------------------------------------------------------
(* The memory behind and between the sections: one byte over and over,     *)
(* which is no opcode, or one of an instruction.                           *)
Filled(b) == [a \in Address |-> b]
OneHeap == {Filled(NoOpcode)}
HeapsOf(ops) == {Filled(B(op)) : op \in ops}
FallThroughHeaps == HeapsOf({"NOPE", "RETN", "GRMN", "ADDI"})

(* Two registers set and compared, then any instruction, with registers    *)
(* and addresses on both sides of what the checks let through.             *)
Operands == {<<0, 1>>, <<8, 255>>, <<258, 8>>, <<32768, 65535>>, <<5, 5>>}
Dsts == {0, 1, 8, 10, 11, 12}
AnyInstruction ==
  {Imm(op, d, w) : op \in IMM2REG \ {"STRI"}, d \in Dsts, w \in {0, 8, 9, 17, 65535}}
  \cup {Sto(w, s) : w \in {0, 7, 8, 9, 11, 10, 65535}, s \in {0, 8, 11, 12, 255}}
  \cup {Byt(op, d, b) : op \in BYT2REG, d \in Dsts, b \in {0, 3, 255}}
  \cup {Reg(op, d, s) : op \in REG2REG \cup {"NOTR"}, d \in Dsts, s \in Dsts}
  \cup {One(op, r) : op \in REGONLY \ {"NOTR"}, r \in Dsts}
  \cup {Jmp(op, w) : op \in IMMONLY, w \in {0, 12, 23, 24, 63, 65535}}
  \cup {Sgl(op) : op \in SINGLE}

EachInstruction ==
  {Imm("MOVI", 0, v[1]) \o Imm("MOVI", 1, v[2]) \o Reg("CMPR", 0, 1)
     \o x \o Sgl("SHIT") : v \in Operands, x \in AnyInstruction}
(* Four instructions that use the stack or leave the program, in any order:*)
(* calls forward, backward and out of the code, pushes on a full stack,    *)
(* pops of an empty one.                                                   *)
StackPrograms ==
  Sequences({Jmp("CALL", 0), Jmp("CALL", 7), Jmp("CALL", 22),
             Jmp("JMPI", 24), Sgl("RETN"), One("PUSH", 0),
             One("POOP", 1), Imm("MOVI", 0, 775)}, 4)

(* Programs to be run, replaced and run again.                             *)
HostPrograms ==
  {One("PUSH", 0) \o One("PUSH", 1) \o Sgl("SHIT"),
   Imm("LODI", 0, 2) \o One("PUSH", 0) \o Sgl("RETN"),
   Jmp("CALL", 4) \o Sgl("SHIT") \o One("POOP", 0) \o Sto(3, 0)}
StackAndHostPrograms == StackPrograms \cup HostPrograms
HostCode == HostPrograms \cup {[k \in 1 .. 25 |-> B("NOPE")]}
HostBuffers == {<<>>, <<1, 2, 3, 4, 5, 6>>, [k \in 1 .. 24 |-> k],
                [k \in 1 .. 25 |-> 7], [k \in 1 .. 12 |-> 9]}

(* The program around the machine writes to the sections of a machine that *)
(* holds one of these programs; the others are run again as they are.      *)
HoldsHostProgram ==
  \E code \in HostPrograms : \A k \in DOMAIN code : Code(k - 1) = code[k]
InsertsIntoHost == status = "idle" /\ status' = "idle" => HoldsHostProgram
(* The programs that refute the statements of Documented.                  *)
AfterNope == {Sgl("NOPE") \o <<NoOpcode>> \o Sgl("SHIT")}
NestedCalls == {Jmp("CALL", 5) \o Sgl("SHIT") \o Sgl("NOPE")
                \o Jmp("CALL", 9) \o Sgl("RETN") \o Sgl("RETN")}
JumpThroughR1 == {Imm("MOVI", 1, 12) \o Reg("CMPR", 0, 0) \o One(op, 1)
                  \o Sgl("SHIT") : op \in {"JPER", "JPBR"}}
StoreAt8 == {Imm("MOVI", 0, 7) \o Sto(8, 0) \o Sgl("SHIT")}
PopEmpty == {One("POOP", 0) \o Sgl("SHIT"), Sgl("RETN")}
-----------------------------------------------------------------------------
(* A loop that only returns moves SP down through all its 32768 values:    *)
(* states with a stack pointer far from the section are not explored.      *)
StackWindow == regs[SP] \in 0 .. StackSize \cup 65532 .. 65535
=============================================================================
