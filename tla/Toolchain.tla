----------------------------- MODULE Toolchain -----------------------------
(***************************************************************************)
(* The whole way of a program: assembler/assembler.py turns the text into  *)
(* bytecode, emulator/emulator.cpp (or any program that embeds the         *)
(* machine) gives the bytecode and the data to a new VM and runs it once.  *)
(***************************************************************************)
EXTENDS Assembler, VM

CONSTANT
  Inputs(_)         \* what the data section may be filled with, per text

ASSUME InputsAssumption == \A text \in Sources : Inputs(text) \subseteq Seq(Byte)

(* The assembler and the machine are given the same key.                   *)
ASSUME SameKey == opcodes = INSTR

VARIABLES
  stage,            \* "assembling", "loaded" or "started"
  strayed           \* history: an iteration has begun behind the code

all_vars == <<vars, vm_vars, stage, strayed>>

ToolchainInit ==
  Init /\ constructed(<<>>) /\ stage = "assembling" /\ strayed = FALSE

Assemble == Next /\ UNCHANGED <<vm_vars, stage, strayed>>

(* The assembler exits and leaves the code in a file.  The constructor and *)
(* insData before run(): the results of both copies are ignored, so code   *)
(* or data that are too big leave zeros behind.                            *)
Load ==
  /\ stage = "assembling" /\ pc = "done"
  /\ stage' = "loaded"
  /\ \E data \in Inputs(source) :
       mem' = insData(insCode(mem, assembled_code), data)
  /\ pc' = "exited"
  /\ UNCHANGED <<source, functions, reg_values, fun, ins, offset,
                 assembled_code, placed, regs, instr_p, status, strayed>>

Start ==
  /\ stage = "loaded"
  /\ stage' = "started"
  /\ run
  /\ UNCHANGED <<vars, strayed>>

Loop ==
  /\ Iterate
  /\ strayed' = (strayed \/ regs[IP] >= Len(assembled_code))
  /\ UNCHANGED <<vars, stage>>

ToolchainNext == Assemble \/ Load \/ Start \/ Loop

ToolchainSpec == ToolchainInit /\ [][ToolchainNext]_all_vars
-----------------------------------------------------------------------------
(* Properties.                                                             *)

(* The operands the machine decodes are the ones the text has.  NOTR is    *)
(* left out: its register is emitted as a byte and decoded as two nibbles. *)
Decodes(i) ==
  LET a == i.args
      m == method(i.name)
  IN  CASE m = "imm2reg" -> ImmDst = a[1].num /\ ImmSrc = a[2].num
        [] m = "byt2reg" -> ByteDst = a[1].num /\ ByteSrc = a[2].num
        [] m = "reg2reg" -> NibbleDst = a[1].num /\ NibbleSrc = a[2].num
        [] m = "reg2imm" -> StoreDst = a[1].num /\ StoreSrc = a[2].num
        [] m = "regonly" -> i.name = "NOTR" \/ RegArg = a[1].num
        [] m = "jump"    -> ImmArg = a[1].num
        [] m = "single"  -> TRUE

(* A jump with two operands is not taken for one to a symbol, and goes to  *)
(* the number that is written first, which may be anywhere; or, of a name  *)
(* and a register, the register is taken for the symbol, and given the     *)
(* offset for a number in every instruction of the text.                   *)
OnlySymbolJumps ==
  /\ NoRegisterJumps
  /\ \A n \in DOMAIN functions : \A m \in DOMAIN functions[n].instructions :
       LET i == functions[n].instructions[m] IN
       ToImmediate(i.name) => symcall(i) /\ i.args[1].kind # "reg"

(* Two tables of sizes and two codings, written in two languages, agree:   *)
(* until a program that jumps to symbols only first runs off its own code, *)
(* IP is at an instruction of the text, and the machine selects that       *)
(* instruction and decodes its operands as they were written.  (Behind its *)
(* code a program meets zeros, which with some keys are the opcode of a    *)
(* jump, back to anywhere.)                                                *)
AsWritten ==
  /\ status = "running" /\ ~strayed /\ regs[IP] < Len(assembled_code)
  /\ Len(assembled_code) <= CodeSize
  /\ OnlySymbolJumps
  => \E p \in placed :
       /\ p.at = regs[IP]
       /\ Matches(instruction(p).name)
       /\ Decodes(instruction(p))

(* "JMPI 0x200 # jumps to code[0x200]" (IMPLEMENTATION.md:30): a jump to a *)
(* number is emitted with that number.  The assembler takes it for a       *)
(* symbol that it does not find.                                           *)
NumericJumps ==
  pc = "done" =>
    \A p \in ImmediateJumps :
      LET a == instruction(p).args[1] IN
      a.kind = "num" =>
        \E n \in DOMAIN source :
          /\ source[n].name = instruction(p).name
          /\ source[n].args[1].name = a.name
          /\ source[n].args[1].num = target(p)
=============================================================================
