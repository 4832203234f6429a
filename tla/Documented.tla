----------------------------- MODULE Documented -----------------------------
(***************************************************************************)
(* What the comments and messages of vm/vm.cpp and IMPLEMENTATION.md say   *)
(* of the machine, where its code does something else.  Each statement is  *)
(* checked, and refuted, by a run of its own.                              *)
(***************************************************************************)
EXTENDS VMHost

(* "WAT" (vm.cpp:1016-1018): a byte that is no opcode ends the program.    *)
(* run() keeps instr_p from the iteration before, and executes that        *)
(* instruction again instead.                                              *)
UnknownOpcodeStops ==
  [][status = "running" /\ FetchMapped /\ NoMatch => status' = "idle"]_vm_vars

(* "RETN -> IP = RP , restores saved return IP" (vm.cpp:965): CALL "saves  *)
(* the RP onto the stack" (vm.cpp:940), and where only calls have used the *)
(* stack RETN goes where the word on its top says.  It goes where the      *)
(* latest call came from, and out of nested calls that is the wrong place. *)
ReturnRestoresSaved ==
  [][execRETN /\ regs[SP] \in 2 .. StackSize - 1
       => regs'[IP] = GetWord(StackBase + regs[SP] - 2)]_vm_vars

(* "Jumps to code[R0] according to last comparison" (IMPLEMENTATION.md:    *)
(* 305, 317, 329, 341): a conditional jump through a register goes to the  *)
(* address in the register, or on to the next instruction.                 *)
RegisterJumps ==
  [][/\ execJPAR \/ execJPBR \/ execJPER \/ execJPNR
     /\ status' = "running"
     => regs'[IP] \in {regs[RegArg], Trunc(regs[IP] + 2)}]_vm_vars

(* "data[0x0] contains R0" (IMPLEMENTATION.md:113): STRI stores any of the *)
(* general purpose registers at any address LODI could load it from.       *)
StoresAnywhere ==
  [][execSTRI /\ StoreArgs /\ InData(StoreDst) /\ StoreSrc \in R0 .. S3
       => status' = "running"]_vm_vars

(* "Out of bounds: stack is going below 0!" (vm.cpp:663, 968): popping the *)
(* empty stack is refused.                                                 *)
NeverBelowZero == [][regs[SP] = 0 => regs'[SP] \in {0, 2}]_vm_vars
=============================================================================
