--------------------------------- MODULE VM ---------------------------------
(***************************************************************************)
(* vm/vm.cpp: the virtual machine.  One step is one iteration of the loop  *)
(* of run(): it fetches a byte, looks it up in INSTR and executes the      *)
(* handler it selects.  The programs that embed the machine extend this    *)
(* module: VMHost, Toolchain and PolictfServer.                            *)
(*                                                                         *)
(* regs[FLAGS] is the word behind the eleven registers: isRegValid lets    *)
(* the register number NUM_REGS through, and the compiler puts the flags   *)
(* there (ZF in bit 0, CF in bit 1).                                       *)
(***************************************************************************)
EXTENDS VMAddrSpace, InstructionSet

CONSTANTS
  INSTR,            \* the opcode byte of each instruction: INSTR[i].value
  FlagWords,        \* what the flags, never initialised, may start as
  ObjectWords       \* what the words of the VM object behind the flags hold

(* enum regs: the general registers are R0 .. S3.                          *)
R0 == 0
S3 == 7
IP == 8
RP == 9
SP == 10
NUM_REGS == 11
FLAGS == NUM_REGS
NULL == "NULL"

ASSUME INSTRAssumption ==
  /\ INSTR \in [Ops -> Byte]
  /\ \A o1, o2 \in Ops : INSTR[o1] = INSTR[o2] => o1 = o2

ASSUME ObjectAssumption == FlagWords \subseteq Word /\ ObjectWords \subseteq Word

VARIABLES
  regs,             \* the registers, and the flags behind them
  instr_p,          \* the instruction the last iteration executed
  status            \* "idle" outside run(), "running" in it, "crashed"

vm_vars == <<mem, regs, instr_p, status>>

VMTypeOK ==
  /\ mem \in [Address -> Byte]
  /\ regs \in [0 .. FLAGS -> Word]
  /\ instr_p \in Ops \cup {NULL}
  /\ status \in {"idle", "running", "crashed"}

-----------------------------------------------------------------------------
(* Operands, and the checks on them.                                       *)

isRegNotIP(reg) == reg <= NUM_REGS /\ reg # IP   \* mutant: RP, SP let through
isRegValid(reg) == reg <= NUM_REGS /\ reg \notin {IP, SP, RP}
isDivArgValid(arg) == arg # 0

(* OP DST SRC, a byte and a word.                                          *)
ImmArgs == ArgsInCode(regs[IP], 1)
ImmDst == Code(regs[IP] + 1)
ImmSrc == CodeWord(regs[IP] + 2)

(* OP DST SRC, a byte each; DST SRC in the nibbles of one byte.            *)
ByteArgs == ArgsInCode(regs[IP], 1)
ByteDst == Code(regs[IP] + 1)
ByteSrc == Code(regs[IP] + 2)

NibbleDst == HiNibble(Code(regs[IP] + 1))
NibbleSrc == LoNibble(Code(regs[IP] + 1))
NibbleArgs == ArgsInCode(regs[IP], 1) /\ isRegValid(NibbleSrc)

(* OP DST SRC with a word and a byte: only STRI.                           *)
StoreArgs == ArgsInCode(regs[IP], 2)
StoreDst == CodeWord(regs[IP] + 1)
StoreSrc == Code(regs[IP] + 3)

(* OP REG and OP IMM.                                                      *)
OneArg == ArgsInCode(regs[IP], 1)
RegArg == Code(regs[IP] + 1)
ImmArg == CodeWord(regs[IP] + 1)

BeginsInData(a) == a < DataSize                  \* mutant: last byte only
InData(a) == a + 2 < DataSize
StackHasByte == regs[SP] < StackSize             \* mutant: last byte only
StackHasRoom == regs[SP] + 2 < StackSize

(* regs[n] for a byte n that nothing has checked.                          *)
RegContents(n) == IF n \in 0 .. FLAGS THEN {regs[n]} ELSE ObjectWords

ZF == regs[FLAGS] % 2 = 1
CF == (regs[FLAGS] \div 2) % 2 = 1
WithZF(w, b) == 2 * (w \div 2) + (IF b THEN 1 ELSE 0)
WithCF(w, b) == 4 * (w \div 4) + (w % 2) + (IF b THEN 2 ELSE 0)

-----------------------------------------------------------------------------
(* The loop of run().                                                      *)

(* The fetch reads code[regs[IP]] whatever IP is.                          *)
FetchMapped == CodeBase + regs[IP] \in Address
next_instr == Code(regs[IP])

(* The table is searched for the byte; when no entry matches, instr_p is   *)
(* left as the last iteration set it.                                      *)
Matches(op) == INSTR[op] = next_instr
NoMatch == \A op \in Ops : ~Matches(op)
Selects(op) ==
  /\ status = "running"
  /\ FetchMapped
  /\ Matches(op) \/ (instr_p = op /\ NoMatch)

Advance(r, op) == [r EXCEPT ![IP] = Trunc(@ + length(op))]

(* A handler that returns false ends run(); one that returns true leaves   *)
(* registers r and memory m, and IP moves on unless it is a jump.  Every   *)
(* handler makes its checks before it changes anything.                    *)
Execute(op, ok, r, m) ==
  /\ Selects(op)
  /\ IF ok
       THEN /\ regs' = IF isJump(op) THEN r ELSE Advance(r, op)
            /\ mem' = m
            /\ instr_p' = op
            /\ UNCHANGED status
       ELSE /\ status' = "idle"
            /\ instr_p' = NULL
            /\ UNCHANGED <<mem, regs>>

SetReg(op, ok, dst, w) ==
  Execute(op, ok /\ isRegValid(dst), [regs EXCEPT ![dst] = w], mem)

FetchFault ==
  /\ status = "running"
  /\ ~FetchMapped
  /\ status' = "crashed"
  /\ instr_p' = NULL
  /\ UNCHANGED <<mem, regs>>

(* "WAT": only reached while no instruction has been executed yet.         *)
UnknownOpcode ==
  /\ status = "running"
  /\ FetchMapped
  /\ NoMatch /\ instr_p = NULL
  /\ status' = "idle"
  /\ UNCHANGED <<mem, regs, instr_p>>

-----------------------------------------------------------------------------
(* Moves, loads and stores.                                                *)

execMOVI == SetReg("MOVI", ImmArgs, ImmDst, ImmSrc)
execMOVR == SetReg("MOVR", NibbleArgs, NibbleDst, regs[NibbleSrc])
execLODI == SetReg("LODI", ImmArgs /\ InData(ImmSrc), ImmDst,
                   GetWord(DataBase + ImmSrc))
execLODR == SetReg("LODR", NibbleArgs /\ InData(regs[NibbleSrc]), NibbleDst,
                   GetWord(DataBase + regs[NibbleSrc]))

(* isRegValid is applied to the address, of which it takes the low byte,   *)
(* and not to the register.                                                *)
execSTRI ==
  LET ok == StoreArgs /\ isRegValid(LoByte(StoreDst)) /\ InData(StoreDst) IN
  \E w \in IF ok THEN RegContents(StoreSrc) ELSE {0} :
    Execute("STRI", ok, regs, PutWord(DataBase + StoreDst, w))

execSTRR ==
  Execute("STRR",
          NibbleArgs /\ isRegValid(NibbleDst) /\ InData(regs[NibbleDst]),
          regs, PutWord(DataBase + regs[NibbleDst], regs[NibbleSrc]))

(* Arithmetic.                                                             *)

execADDI == SetReg("ADDI", ImmArgs, ImmDst, AddWord(regs[ImmDst], ImmSrc))
execADDR == SetReg("ADDR", NibbleArgs, NibbleDst,
                   AddWord(regs[NibbleDst], regs[NibbleSrc]))
execSUBI == SetReg("SUBI", ImmArgs, ImmDst, SubWord(regs[ImmDst], ImmSrc))
execSUBR == SetReg("SUBR", NibbleArgs, NibbleDst,
                   SubWord(regs[NibbleDst], regs[NibbleSrc]))
execANDB == SetReg("ANDB", ByteArgs, ByteDst, AndWord(regs[ByteDst], ByteSrc))
execANDW == SetReg("ANDW", ImmArgs, ImmDst, AndWord(regs[ImmDst], ImmSrc))
execANDR == SetReg("ANDR", NibbleArgs, NibbleDst,
                   AndWord(regs[NibbleDst], regs[NibbleSrc]))
execYORB == SetReg("YORB", ByteArgs, ByteDst, OrWord(regs[ByteDst], ByteSrc))
execYORW == SetReg("YORW", ImmArgs, ImmDst, OrWord(regs[ImmDst], ImmSrc))
execYORR == SetReg("YORR", NibbleArgs, NibbleDst,
                   OrWord(regs[NibbleDst], regs[NibbleSrc]))
execXORB == SetReg("XORB", ByteArgs, ByteDst, XorWord(regs[ByteDst], ByteSrc))
execXORW == SetReg("XORW", ImmArgs, ImmDst, XorWord(regs[ImmDst], ImmSrc))
execXORR == SetReg("XORR", NibbleArgs, NibbleDst,
                   XorWord(regs[NibbleDst], regs[NibbleSrc]))
execNOTR == SetReg("NOTR", NibbleArgs, NibbleDst, NotWord(regs[NibbleSrc]))
execMULI == SetReg("MULI", ImmArgs, ImmDst, MulWord(regs[ImmDst], ImmSrc))
execMULR == SetReg("MULR", NibbleArgs, NibbleDst,
                   MulWord(regs[NibbleDst], regs[NibbleSrc]))
execDIVI == SetReg("DIVI", ImmArgs /\ isDivArgValid(ImmSrc), ImmDst,
                   DivWord(regs[ImmDst], ImmSrc))
(* The divisor is checked as a uint8_t.                                    *)
execDIVR == SetReg("DIVR",
                   NibbleArgs /\ isDivArgValid(LoByte(regs[NibbleSrc])),
                   NibbleDst, DivWord(regs[NibbleDst], regs[NibbleSrc]))
execSHLI == SetReg("SHLI", ImmArgs, ImmDst, ShlWord(regs[ImmDst], ImmSrc))
execSHLR == SetReg("SHLR", NibbleArgs, NibbleDst,
                   ShlWord(regs[NibbleDst], regs[NibbleSrc]))
execSHRI == SetReg("SHRI", ImmArgs, ImmDst, ShrWord(regs[ImmDst], ImmSrc))
execSHRR == SetReg("SHRR", NibbleArgs, NibbleDst,
                   ShrWord(regs[NibbleDst], regs[NibbleSrc]))

-----------------------------------------------------------------------------
(* The stack.  It grows upwards from 0; regs[SP] is the first free byte.   *)

execPUSH ==
  Execute("PUSH", OneArg /\ isRegValid(RegArg) /\ StackHasRoom,
          [regs EXCEPT ![SP] = Trunc(@ + 2)],
          PutWord(StackBase + regs[SP], regs[RegArg]))

(* The underflow check compares an unsigned difference with 0 and is never *)
(* true: SP wraps, and the word is read from far behind the section.       *)
execPOOP ==
  LET ok == OneArg /\ isRegValid(RegArg)
      sp == Trunc(regs[SP] - 2)
      top == StackBase + sp
  IN  \/ /\ ok => top + 1 \in Address
         /\ Execute("POOP", ok,
                    [regs EXCEPT ![SP] = sp, ![RegArg] = GetWord(top)], mem)
      \/ /\ ok /\ top + 1 \notin Address
         /\ Selects("POOP")
         /\ regs' = [regs EXCEPT ![SP] = sp]
         /\ status' = "crashed"
         /\ instr_p' = NULL
         /\ UNCHANGED mem

(* Comparisons.  ZF is stored before the registers are read again for CF.  *)
AfterZF(eq) == [regs EXCEPT ![FLAGS] = WithZF(@, eq)]
Compare(op, ok, eq, above) ==
  Execute(op, ok, [AfterZF(eq) EXCEPT ![FLAGS] = WithCF(@, ~above)], mem)

execCMPB ==
  LET eq == LoByte(regs[ByteDst]) = ByteSrc IN
  Compare("CMPB", ByteArgs /\ isRegValid(ByteDst), eq,
          LoByte(AfterZF(eq)[ByteDst]) > ByteSrc)
execCMPW ==
  LET eq == regs[ImmDst] = ImmSrc IN
  Compare("CMPW", ImmArgs /\ isRegValid(ImmDst), eq,
          AfterZF(eq)[ImmDst] > ImmSrc)
execCMPR ==
  LET eq == regs[NibbleDst] = regs[NibbleSrc] IN
  Compare("CMPR", NibbleArgs /\ isRegValid(NibbleDst), eq,
          AfterZF(eq)[NibbleDst] > AfterZF(eq)[NibbleSrc])

-----------------------------------------------------------------------------
(* Jumps.                                                                  *)

Jump(op, ok, cond, target) ==
  Execute(op, ok,
          IF cond THEN [regs EXCEPT ![IP] = target] ELSE Advance(regs, op),
          mem)

JumpImm(op, cond) == Jump(op, OneArg, cond, ImmArg)
(* The conditional register jumps jump to the number of the register.      *)
JumpReg(op, cond) == Jump(op, OneArg /\ isRegValid(RegArg), cond, RegArg)

execJMPI == JumpImm("JMPI", TRUE)
execJMPR == Jump("JMPR", OneArg /\ isRegValid(RegArg), TRUE, regs[RegArg])
execJPAI == JumpImm("JPAI", ~CF /\ ~ZF)
execJPAR == JumpReg("JPAR", ~CF /\ ~ZF)
execJPBI == JumpImm("JPBI", CF)
execJPBR == JumpReg("JPBR", CF)
execJPEI == JumpImm("JPEI", ZF)
execJPER == JumpReg("JPER", ZF)
execJPNI == JumpImm("JPNI", ~ZF)
execJPNR == JumpReg("JPNR", ~ZF)

callAnywhere ==                             \* mutant: codesize not checked
  LET ret == regs[IP] + 3 IN
  Execute("CALL", OneArg /\ StackHasRoom,
          [regs EXCEPT ![RP] = ret, ![SP] = Trunc(@ + 2), ![IP] = ImmArg],
          PutWord(StackBase + regs[SP], ret))

(* The return address goes to RP and onto the stack; RETN drops the copy   *)
(* on the stack and takes RP.  Its underflow check is POOP's.              *)
execCALL ==
  LET ret == regs[IP] + 3 IN
  Execute("CALL", OneArg /\ StackHasRoom /\ ret < CodeSize,
          [regs EXCEPT ![RP] = ret, ![SP] = Trunc(@ + 2), ![IP] = ImmArg],
          PutWord(StackBase + regs[SP], ret))

execRETN ==
  Execute("RETN", TRUE,
          [regs EXCEPT ![SP] = Trunc(@ - 2), ![IP] = regs[RP]], mem)

execSHIT == Execute("SHIT", FALSE, regs, mem)
execNOPE == Execute("NOPE", TRUE, regs, mem)
GG == MkWord(71, 71)
execGRMN ==
  Execute("GRMN", TRUE,
          [n \in 0 .. FLAGS |->
             IF n \in {IP, RP, SP, FLAGS} THEN regs[n] ELSE GG],
          mem)
execDEBG == DBG /\ Execute("DEBG", TRUE, regs, mem)

-----------------------------------------------------------------------------
(* What the machine is made of.                                            *)

(* Either constructor; the result of insCode is not looked at.             *)
constructed(code) ==
  /\ \E heap \in Heaps : mem = insCode(allocate(heap), code)
  /\ \E w \in FlagWords :
       regs = [n \in 0 .. FLAGS |-> IF n = FLAGS THEN w ELSE 0]
  /\ instr_p = NULL
  /\ status = "idle"

run ==
  /\ status = "idle"
  /\ status' = "running"
  /\ instr_p' = NULL
  /\ UNCHANGED <<mem, regs>>

Transfer == \/ execMOVI \/ execMOVR \/ execLODI \/ execLODR \/ execSTRI
            \/ execSTRR \/ execGRMN

Arithmetic ==
  \/ execADDI \/ execADDR \/ execSUBI \/ execSUBR \/ execANDB \/ execANDW
  \/ execANDR \/ execYORB \/ execYORW \/ execYORR \/ execXORB \/ execXORW
  \/ execXORR \/ execNOTR \/ execMULI \/ execMULR \/ execDIVI \/ execDIVR
  \/ execSHLI \/ execSHLR \/ execSHRI \/ execSHRR

Control ==
  \/ execCMPB \/ execCMPW \/ execCMPR \/ execJMPI \/ execJMPR \/ execJPAI
  \/ execJPAR \/ execJPBI \/ execJPBR \/ execJPEI \/ execJPER \/ execJPNI
  \/ execJPNR \/ execSHIT \/ execNOPE \/ execDEBG

StackOps == execPUSH \/ execPOOP \/ execCALL \/ execRETN

(* One iteration of the loop of run().                                     *)
Iterate ==
  Transfer \/ Arithmetic \/ Control \/ StackOps \/ FetchFault \/ UnknownOpcode
-----------------------------------------------------------------------------
(* Properties of a step, and of a state.                                   *)

(* A running program changes its data and its stack and nothing else: not  *)
(* the code, not the memory between the sections; and the program around   *)
(* it changes only sections.  The loads and stores index the heap with     *)
(* numbers the bytecode chose; every bounds check of vm.cpp is behind this.*)
IsolatedStep ==
  \A a \in Address : mem'[a] # mem[a] =>
    \/ a \in DataSection \cup StackSection
    \/ a \in CodeSection /\ status = "idle"

(* RETN jumps to RP without a check, so RP must always be an address in    *)
(* the code section: CALL is all that stands between a program and code    *)
(* outside of it.                                                          *)
RPInCode == regs[RP] < CodeSize

(* SP moves by one word at a time, and RP changes only together with a     *)
(* copy of its new value on the stack: no move, load or computation, with  *)
(* any register number encoded in it, reaches either of them.              *)
ControlStep ==
  /\ regs'[SP] \in {regs[SP], Trunc(regs[SP] + 2), Trunc(regs[SP] - 2)}
  /\ regs'[RP] # regs[RP] =>
       LET a == StackBase + regs[SP] IN
       /\ regs'[SP] = regs[SP] + 2
       /\ MkWord(mem'[a], mem'[a + 1]) = regs'[RP]

(* The fetch does not check IP, the operands are checked: a program that   *)
(* has run off its code computes nothing and stores nothing there, except  *)
(* that one-byte instructions move IP and SP and GRMN sets the registers.  *)
OutsideStep ==
  status = "running" /\ regs[IP] >= CodeSize - 1 =>
    /\ mem' = mem
    /\ \A n \in R0 .. S3 \cup {RP, FLAGS} :
         regs'[n] # regs[n] => n \in R0 .. S3 /\ regs'[n] = GG
=============================================================================
