--------------------------- MODULE InstructionSet ---------------------------
(***************************************************************************)
(* The static half of vm/instruction.h and of the table INSTR in vm/vm.h:  *)
(* which instructions there are, how long each one is, and which of them   *)
(* set IP themselves.  The opcode bytes are not here: they depend on the   *)
(* key the VM is built with (see KeySchedule).                             *)
(***************************************************************************)
EXTENDS Naturals, Sequences

CONSTANT DBG    \* TRUE iff the VM is compiled with -DDBG, which adds DEBG

ASSUME DBGAssumption == DBG \in BOOLEAN

(* INSTR_ENUM, in its order: the position is the index into INSTR.         *)
ReleaseOrder ==
  << "MOVI", "MOVR", "LODI", "LODR", "STRI", "STRR", "ADDI", "ADDR", "SUBI",
     "SUBR", "ANDB", "ANDW", "ANDR", "YORB", "YORW", "YORR", "XORB", "XORW",
     "XORR", "NOTR", "MULI", "MULR", "DIVI", "DIVR", "SHLI", "SHLR", "SHRI",
     "SHRR", "PUSH", "POOP", "CMPB", "CMPW", "CMPR", "JMPI", "JMPR", "JPAI",
     "JPAR", "JPBI", "JPBR", "JPEI", "JPER", "JPNI", "JPNR", "CALL", "RETN",
     "SHIT", "NOPE", "GRMN" >>

OpOrder == IF DBG THEN Append(ReleaseOrder, "DEBG") ELSE ReleaseOrder
NUM_OPS == IF DBG THEN 49 ELSE 48

(* The sets of instructions of each size.                                  *)
REG2REG == {"MOVR", "LODR", "STRR", "ADDR", "SUBR", "ANDR", "YORR", "XORR",
            "MULR", "DIVR", "SHLR", "SHRR", "CMPR"}
IMM2REG == {"MOVI", "LODI", "STRI", "ADDI", "SUBI", "ANDW", "YORW", "XORW",
            "MULI", "DIVI", "SHLI", "SHRI", "CMPW"}
BYT2REG == {"ANDB", "YORB", "XORB", "CMPB"}
REGONLY == {"NOTR", "PUSH", "POOP", "JMPR", "JPAR", "JPBR", "JPER", "JPNR"}
IMMONLY == {"JMPI", "JPAI", "JPBI", "JPEI", "JPNI", "CALL"}
SINGLE  == {"RETN", "SHIT", "NOPE", "GRMN"} \cup (IF DBG THEN {"DEBG"} ELSE {})

Ops == REG2REG \cup IMM2REG \cup BYT2REG \cup REGONLY \cup IMMONLY \cup SINGLE

(* instruction_t.length and instruction_t.isJump.                          *)
length(op) == CASE op \in IMM2REG -> 4
                [] op \in BYT2REG \cup IMMONLY -> 3
                [] op \in REG2REG \cup REGONLY -> 2
                [] op \in SINGLE -> 1

isJumpOrGRMN(op) == op \in {"JMPI", "JMPR", "JPAI", "JPAR", "JPBI", "JPBR",
                            "JPEI", "JPER", "JPNI", "JPNR", "CALL", "RETN",
                            "GRMN"}       \* mutant: a wrong flag in INSTR
isJump(op) == op \in {"JMPI", "JMPR", "JPAI", "JPAR", "JPBI", "JPBR", "JPEI",
                      "JPER", "JPNI", "JPNR", "CALL", "RETN"}

ASSUME OpOrderAssumption ==
  /\ Len(OpOrder) = NUM_OPS
  /\ Ops = {OpOrder[i] : i \in 1 .. NUM_OPS}
=============================================================================
