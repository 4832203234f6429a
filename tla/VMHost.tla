------------------------------- MODULE VMHost -------------------------------
(***************************************************************************)
(* The machine in a program that constructs it with code, runs it as often *)
(* as it likes, and between two calls of run() writes to its sections      *)
(* (addressSpace()->insCode, insData, insStack).                           *)
(***************************************************************************)
EXTENDS VM

CONSTANTS
  Programs,         \* code the constructor may be given
  CodeBuffers, DataBuffers, StackBuffers    \* what ins* may be called with

ASSUME BuffersAssumption ==
  /\ Programs \subseteq Seq(Byte)
  /\ CodeBuffers \subseteq Seq(Byte)
  /\ DataBuffers \subseteq Seq(Byte)
  /\ StackBuffers \subseteq Seq(Byte)

Init == \E code \in Programs : constructed(code)

insertBuffers ==
  /\ status = "idle"
  /\ \/ \E buf \in CodeBuffers  : mem' = insCode(mem, buf)
     \/ \E buf \in DataBuffers  : mem' = insData(mem, buf)
     \/ \E buf \in StackBuffers : mem' = insStack(mem, buf)
  /\ UNCHANGED <<regs, instr_p, status>>

Next == Iterate \/ run \/ insertBuffers

Spec == Init /\ [][Next]_vm_vars

(* run() is a loop in one thread: nothing can keep it from its next        *)
(* iteration.  Nothing makes the embedding program call anything again.    *)
FairSpec == Spec /\ WF_vm_vars(Iterate)
-----------------------------------------------------------------------------
(* Properties.                                                             *)

(* A running program changes its data and its stack and nothing else, the  *)
(* program around it only sections: every step is an IsolatedStep of VM.   *)
SectionsIsolated == [][IsolatedStep]_vm_vars

(* SP moves by words, and RP changes only together with its copy on the    *)
(* stack: every step is a ControlStep of VM.                               *)
ControlRegisters == [][ControlStep]_vm_vars

(* A program that has run off its code computes nothing there and stores   *)
(* nothing there, except what GRMN does: every step is an OutsideStep.     *)
NothingComputedOutside == [][OutsideStep]_vm_vars

(* The stack section and SP are a stack of words: what lies below the top  *)
(* is neither lost nor changed by anything a program does, and only        *)
(* popping the empty stack takes SP out of the section.                    *)
Stack == INSTANCE WordStack WITH
  Capacity <- (StackSize - 1) \div 2,
  stk <- IF regs[SP] < StackSize
           THEN [k \in 1 .. regs[SP] \div 2 |->
                   GetWord(StackBase + 2 * (k - 1))]
           ELSE <<>>,
  lost <- regs[SP] >= StackSize,
  idle <- status = "idle"

StackSpec == Stack!Spec

(* Every instruction that is no jump takes IP forward: the length it was   *)
(* decoded with is added by the loop, or by nobody, if the table calls it  *)
(* a jump.  Only at the end of the 64 KiB that IP can address does it wrap *)
(* to the start of the code.                                               *)
Jumps == {"JMPI", "JPAI", "JPBI", "JPEI", "JPNI", "CALL",
          "JMPR", "JPAR", "JPBR", "JPER", "JPNR", "RETN"}
MovesOn ==
  [][status = "running" /\ status' = "running" /\ instr_p' \notin Jumps =>
       regs'[IP] > regs[IP] \/ regs[IP] + 4 >= WordSize]_vm_vars

(* So run() returns, unless the program jumps again and again, if the heap *)
(* ends where IP cannot pass it by.  With 64 KiB mapped behind the code, a *)
(* program that does not stop wraps and begins anew, for ever.             *)
HeapEnds == CodeBase + WordSize >= Mapped + 4
RunReturns ==
  HeapEnds =>
    (status = "running" ~> (status # "running" \/ instr_p \in Jumps))
=============================================================================
