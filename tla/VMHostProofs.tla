---------------------------- MODULE VMHostProofs ----------------------------
(***************************************************************************)
(* What holds of the machine in any program that runs it and fills its     *)
(* sections, and that the stack section and SP implement the abstract      *)
(* stack of words: proofs about VMHost.                                    *)
(***************************************************************************)
EXTENDS VMHost, VMProofs

LEMMA HostStep == VMInv /\ (run \/ insertBuffers) => Good
<1> SUFFICES ASSUME VMInv, run \/ insertBuffers PROVE Good
  OBVIOUS
<1> USE DEF VMInv
<1>1. CASE run
  BY <1>1, RunStep
<1>2. CASE insertBuffers
  <2>1. /\ mem \in Memory /\ status = "idle"
        /\ regs' = regs /\ instr_p' = instr_p /\ status' = status
    BY <1>2 DEF insertBuffers, VMTypeOK, Memory
  <2>2. PICK buf \in CodeBuffers \cup DataBuffers \cup StackBuffers :
          mem' \in {insCode(mem, buf), insData(mem, buf), insStack(mem, buf)}
    BY <1>2 DEF insertBuffers
  <2>3. buf \in Seq(Byte)
    BY <2>2, BuffersAssumption
  <2>4. /\ mem' \in Memory
        /\ \A a \in Address : mem'[a] # mem[a] =>
             a \in CodeSection \cup DataSection \cup StackSection
    BY <2>1, <2>2, <2>3, SectionsTyped
  <2>5. VMTypeOK' /\ RPInCode'
    BY <2>1, <2>4 DEF VMTypeOK, RPInCode, Memory
  <2>6. IsolatedStep
    BY <2>1, <2>4 DEF IsolatedStep
  <2>7. ControlStep /\ OutsideStep /\ StackStep /\ FlowStep
    BY <2>1 DEF ControlStep, OutsideStep, StackStep, StackKept, FlowStep
  <2> QED
    BY <2>5, <2>6, <2>7 DEF Good
<1> QED
  BY <1>1, <1>2

LEMMA NextGood == VMInv /\ Next => Good
  BY IterateStep, HostStep DEF Next

LEMMA NextVMInv == VMInv /\ [Next]_vm_vars => VMInv'
<1> SUFFICES ASSUME VMInv, [Next]_vm_vars PROVE VMInv'
  OBVIOUS
<1>1. CASE Next
  BY <1>1, NextGood DEF Good, VMInv
<1>2. CASE UNCHANGED vm_vars
  BY <1>2 DEF vm_vars, VMInv, VMTypeOK, RPInCode
<1> QED
  BY <1>1, <1>2

LEMMA InitVMInv == Init => VMInv
<1> SUFFICES ASSUME Init PROVE VMInv
  OBVIOUS
<1>1. PICK code \in Programs : constructed(code)
  BY DEF Init
<1>2. code \in Seq(Byte)
  BY BuffersAssumption
<1> QED
  BY <1>1, <1>2, NewMachine

-----------------------------------------------------------------------------
(* The registers hold words and the memory bytes, whatever the program:    *)
(* every computation of vm.cpp is narrowed, and no register number or      *)
(* address that a program can encode takes a write anywhere else.          *)
THEOREM TypeCorrect == Spec => []VMTypeOK
<1>1. VMInv => VMTypeOK
  BY DEF VMInv
<1> QED
  BY InitVMInv, NextVMInv, <1>1, PTL DEF Spec

(* RETN always jumps into the code section: of all instructions only CALL  *)
(* sets RP, and it compares the address with the size of the code.         *)
THEOREM ReturnsIntoCode == Spec => []RPInCode
<1>1. VMInv => RPInCode
  BY DEF VMInv
<1> QED
  BY InitVMInv, NextVMInv, <1>1, PTL DEF Spec

(* A running program changes only its data and its stack, for every layout *)
(* of the heap and every size of the sections.                             *)
THEOREM ProgramsIsolated == Spec => SectionsIsolated
<1>1. VMInv /\ [Next]_vm_vars => [IsolatedStep]_vm_vars
  BY NextGood DEF Good
<1> QED
  BY InitVMInv, NextVMInv, <1>1, PTL DEF Spec, SectionsIsolated

(* Only PUSH, POOP, CALL and RETN move SP, by one word, and RP changes     *)
(* only together with its copy on the stack.                               *)
THEOREM ControlProtected == Spec => ControlRegisters
<1>1. VMInv /\ [Next]_vm_vars => [ControlStep]_vm_vars
  BY NextGood DEF Good
<1> QED
  BY InitVMInv, NextVMInv, <1>1, PTL DEF Spec, ControlRegisters

(* A program that has run off its code section computes nothing there but  *)
(* what GRMN writes.                                                       *)
THEOREM OutsideHarmless == Spec => NothingComputedOutside
<1>1. VMInv /\ [Next]_vm_vars => [OutsideStep]_vm_vars
  BY NextGood DEF Good
<1> QED
  BY InitVMInv, NextVMInv, <1>1, PTL DEF Spec, NothingComputedOutside

(* Whatever the program and the memory it runs in, an iteration that does  *)
(* not end run() and is no jump takes IP forward or to the end of what IP  *)
(* can address.                                                            *)
THEOREM IterationsMoveOn == Spec => MovesOn
<1> DEFINE Moves ==
      status = "running" /\ status' = "running" /\ instr_p' \notin Jumps =>
        regs'[IP] > regs[IP] \/ regs[IP] + 4 >= WordSize
<1>1. ASSUME VMInv, Next PROVE Moves
  <2> SUFFICES ASSUME status = "running", status' = "running", instr_p' \notin Jumps
               PROVE  regs'[IP] > regs[IP] \/ regs[IP] + 4 >= WordSize
    OBVIOUS
  <2>1. PICK op \in Ops : instr_p' = op /\ Flow(op, regs'[IP], regs'[RP])
    BY <1>1, NextGood DEF Good, FlowStep
  <2>2. regs'[IP] = Trunc(regs[IP] + length(op))
    BY <2>1 DEF Flow, isJump, Jumps
  <2>3. length(op) \in 1 .. 4
    BY DEF Ops, length
  <2>4. regs[IP] \in Word
    BY <1>1, RegisterWord, RegNumbers DEF VMInv
  <2>5. ASSUME NEW x \in Word, NEW n \in 1 .. 4, ~ (x + 4 >= WordSize)
        PROVE  Trunc(x + n) > x
    <3>1. x + n \in Word /\ x + n > x
      BY <2>5, WordIs, WordSizeIs
    <3> QED
      BY <3>1, TruncId
  <2> QED
    BY <2>2, <2>3, <2>4, <2>5
<1>2. VMInv /\ [Next]_vm_vars => [Moves]_vm_vars
  BY <1>1
<1> QED
  BY InitVMInv, NextVMInv, <1>2, PTL DEF Spec, MovesOn

-----------------------------------------------------------------------------
(* The stack.                                                              *)

(* In a section of all 65535 bytes an SP that has wrapped would be back.   *)
SectionLeavesRoom == StackSize < WordSize - 1

(* SP moves by two from 0 on, and 65536 is even.                           *)
SPEven == \E h \in Nat : regs[SP] = 2 * h
SInv == VMInv /\ SPEven

(* The substitutions of the instance.                                      *)
Capacity == (StackSize - 1) \div 2
stk == IF regs[SP] < StackSize
         THEN [k \in 1 .. regs[SP] \div 2 |-> GetWord(StackBase + 2 * (k - 1))]
         ELSE <<>>
lost == regs[SP] >= StackSize
idle == status = "idle"

-----------------------------------------------------------------------------
(* h words in a memory m.                                                  *)
WordAt(m, k) == MkWord(m[StackBase + 2 * (k - 1)], m[StackBase + 2 * (k - 1) + 1])
WordsOf(m, h) == [k \in 1 .. h |-> WordAt(m, k)]

LEMMA WordPlaces ==
  ASSUME NEW h \in Nat, 2 * h < StackSize, NEW k \in 1 .. h
  PROVE  LET a == StackBase + 2 * (k - 1) IN
         /\ a \in StackSection /\ a + 1 \in StackSection
         /\ a \in Address /\ a + 1 \in Address
         /\ a + 1 < StackBase + 2 * h
  BY Places, Sizes DEF Address, StackSection

LEMMA WordsTyped ==
  ASSUME NEW m \in Memory, NEW h \in Nat, 2 * h < StackSize
  PROVE  WordsOf(m, h) \in Seq(Word) /\ Len(WordsOf(m, h)) = h
<1>1. ASSUME NEW k \in 1 .. h
      PROVE  WordAt(m, k) \in Word
  BY WordPlaces, MkWordWord DEF WordAt, Memory
<1> QED
  BY <1>1 DEF WordsOf

(* The same words, when the memory below their end is the same.            *)
LEMMA SameWords ==
  ASSUME NEW m, NEW n, NEW h \in Nat, 2 * h < StackSize,
         \A a \in StackSection : a < StackBase + 2 * h => m[a] = n[a]
  PROVE  WordsOf(m, h) = WordsOf(n, h)
<1>1. ASSUME NEW k \in 1 .. h
      PROVE  WordAt(m, k) = WordAt(n, k)
  <2> DEFINE a == StackBase + 2 * (k - 1)
  <2>1. a \in StackSection /\ a + 1 \in StackSection /\ a + 1 < StackBase + 2 * h
    BY WordPlaces
  <2>2. a < StackBase + 2 * h
    BY <2>1, Places
  <2> QED
    BY <2>1, <2>2 DEF WordAt
<1> QED
  BY <1>1 DEF WordsOf

(* One word less.                                                          *)
LEMMA WordsBelow ==
  ASSUME NEW m \in Memory, NEW h \in Nat, NEW g \in Nat, g <= h, 2 * h < StackSize
  PROVE  SubSeq(WordsOf(m, h), 1, g) = WordsOf(m, g)
<1>1. WordsOf(m, h) \in Seq(Word) /\ Len(WordsOf(m, h)) = h
  BY WordsTyped
<1>2. WordsOf(m, g) \in Seq(Word) /\ Len(WordsOf(m, g)) = g
  BY WordsTyped, Sizes
<1>3. \A k \in 1 .. g : WordsOf(m, g)[k] = WordsOf(m, h)[k]
  BY DEF WordsOf
<1> QED
  BY <1>1, <1>2, <1>3

(* The mapped stack, in this state and the next one.                       *)
LEMMA MappedStack ==
  ASSUME NEW h \in Nat, regs[SP] = 2 * h
  PROVE  /\ 2 * h < StackSize => stk = WordsOf(mem, h) /\ ~lost
         /\ ~(2 * h < StackSize) => stk = <<>> /\ lost
<1>1. (2 * h) \div 2 = h
  OBVIOUS
<1> QED
  BY <1>1, Sizes DEF stk, lost, WordsOf, WordAt, GetWord

LEMMA MappedStackNext ==
  ASSUME NEW h \in Nat, regs'[SP] = 2 * h
  PROVE  /\ 2 * h < StackSize => stk' = WordsOf(mem', h) /\ ~lost'
         /\ ~(2 * h < StackSize) => stk' = <<>> /\ lost'
<1>1. (2 * h) \div 2 = h
  OBVIOUS
<1> QED
  BY <1>1, Sizes DEF stk, lost, WordsOf, WordAt, GetWord

LEMMA CapacityIs ==
  ASSUME NEW h \in Nat, 2 * h < StackSize
  PROVE  /\ 2 * (h + 1) < StackSize => h < Capacity
         /\ ~(2 * (h + 1) < StackSize) => h = Capacity
  BY Sizes DEF Capacity

-----------------------------------------------------------------------------
(* The moves of the stack, as the abstract ones.                           *)

LEMMA PushStep ==
  ASSUME SInv, VMTypeOK', status = "running", status' # "idle",
         StackHasRoom, regs'[SP] = regs[SP] + 2,
         \A a \in StackSection : a < StackBase + regs[SP] => mem'[a] = mem[a]
  PROVE  SPEven' /\ Stack!Push
<1>1. PICK h \in Nat : regs[SP] = 2 * h
  BY DEF SInv, SPEven
<1>2. /\ regs'[SP] = 2 * (h + 1) /\ 2 * (h + 1) < StackSize
      /\ 2 * h < StackSize /\ h + 1 \in Nat
  BY <1>1, Sizes DEF StackHasRoom
<1>3. stk = WordsOf(mem, h) /\ ~lost
  BY <1>1, <1>2, MappedStack
<1>4. stk' = WordsOf(mem', h + 1) /\ ~lost'
  BY <1>2, MappedStackNext
<1>5. mem \in Memory /\ mem' \in Memory
  BY DEF SInv, VMInv, VMTypeOK, Memory
<1>6. stk' \in Seq(Word) /\ Len(stk') = h + 1 /\ Len(stk) = h
  BY <1>2, <1>3, <1>4, <1>5, WordsTyped
<1>7. SubSeq(stk', 1, h) = WordsOf(mem', h)
  <2>1. h <= h + 1
    OBVIOUS
  <2> QED
    BY <1>2, <1>4, <1>5, <2>1, WordsBelow
<1>8. WordsOf(mem', h) = WordsOf(mem, h)
  BY <1>1, <1>2, SameWords
<1>9. h < Capacity
  BY <1>2, CapacityIs
<1>10. ~idle /\ idle' = idle /\ lost' = lost
  BY <1>3, <1>4 DEF idle, lost
<1>11. SPEven'
  BY <1>2 DEF SPEven
<1>12. /\ ~idle /\ ~lost /\ Len(stk) < Capacity
       /\ stk' \in Seq(Word) /\ Len(stk') = Len(stk) + 1
       /\ SubSeq(stk', 1, Len(stk)) = stk
       /\ UNCHANGED <<lost, idle>>
  BY <1>3, <1>6, <1>7, <1>8, <1>9, <1>10
<1>13. Stack!Push
  BY <1>12 DEF Stack!Push, stk, lost, idle, Capacity
<1> QED
  BY <1>11, <1>13

LEMMA PopStep ==
  ASSUME SectionLeavesRoom, SInv, VMTypeOK', status = "running", status' # "idle",
         mem' = mem, regs'[SP] = Trunc(regs[SP] - 2)
  PROVE  /\ SPEven'
         /\ Stack!Pop \/ Stack!Underflow \/ Stack!Resurface
            \/ UNCHANGED <<stk, lost, idle>>
<1>1. PICK h \in Nat : regs[SP] = 2 * h
  BY DEF SInv, SPEven
<1>2. 2 * h < WordSize /\ mem \in Memory
  BY <1>1, RegisterWord, RegNumbers, WordIs DEF SInv, VMInv, VMTypeOK, Memory
<1>3. ~idle /\ idle' = idle
  BY DEF idle
<1>4. CASE h = 0
  <2>1. PICK g \in Nat : regs'[SP] = 2 * g /\ g = 32767
    <3>1. regs[SP] = 0
      BY <1>1, <1>4
    <3>2. Trunc(0 - 2) = 2 * 32767
      BY WordSizeIs DEF Trunc
    <3> QED
      BY <3>1, <3>2
  <2>2. ~(2 * g < StackSize) /\ 2 * h < StackSize
    BY <1>4, <2>1, LayoutAssumption, Sizes DEF SectionLeavesRoom, WordSize
  <2>3. stk' = <<>> /\ lost'
    <3>1. regs'[SP] = 2 * g
      BY <2>1
    <3> QED
      BY <2>2, <3>1, MappedStackNext
  <2>4. stk = <<>> /\ ~lost
    BY <1>1, <1>4, <2>2, MappedStack DEF WordsOf
  <2>5. /\ ~idle /\ ~lost /\ stk = <<>> /\ lost' = TRUE
        /\ UNCHANGED <<stk, idle>>
    BY <1>3, <2>3, <2>4 DEF lost
  <2>6. Stack!Underflow
    BY <2>5 DEF Stack!Underflow, stk, lost, idle
  <2> QED
    BY <2>1, <2>6 DEF SPEven
<1>5. CASE h # 0
  <2>1. h - 1 \in Nat /\ regs'[SP] = 2 * (h - 1)
    <3>1. 2 * h - 2 = 2 * (h - 1) /\ h - 1 \in Nat
      BY <1>5
    <3>2. 2 * (h - 1) \in Word
      <4>1. 2 * (h - 1) \in Int /\ 0 <= 2 * (h - 1) /\ 2 * (h - 1) < WordSize
        BY <1>2, <3>1, WordSizeIs
      <4> QED
        BY <4>1, WordIs
    <3> QED
      BY <1>1, <3>1, <3>2, TruncId
  <2>2. SPEven'
    BY <2>1 DEF SPEven
  <2>3. CASE 2 * h < StackSize
    <3>1. 2 * (h - 1) < StackSize
      BY <2>3, Sizes
    <3>2. stk = WordsOf(mem, h) /\ ~lost /\ stk' = WordsOf(mem, h - 1) /\ ~lost'
      BY <1>1, <2>1, <2>3, <3>1, MappedStack, MappedStackNext
    <3>3. Len(stk) = h /\ stk \in Seq(Word)
      BY <1>2, <2>3, <3>2, WordsTyped
    <3>4. stk # <<>>
      BY <1>5, <3>3
    <3>5. SubSeq(stk, 1, h - 1) = stk'
      <4>1. h - 1 <= h
        OBVIOUS
      <4> QED
        BY <1>2, <2>1, <2>3, <3>2, <4>1, WordsBelow
    <3>6. /\ ~idle /\ ~lost /\ stk # <<>>
          /\ stk' = SubSeq(stk, 1, Len(stk) - 1)
          /\ UNCHANGED <<lost, idle>>
      BY <1>3, <3>2, <3>3, <3>4, <3>5 DEF lost
    <3>7. Stack!Pop
      BY <3>6 DEF Stack!Pop, stk, lost, idle
    <3> QED
      BY <2>2, <3>7
  <2>4. CASE ~(2 * h < StackSize) /\ 2 * (h - 1) < StackSize
    <3>1. stk = <<>> /\ lost /\ stk' = WordsOf(mem', h - 1) /\ ~lost'
      BY <1>1, <2>1, <2>4, MappedStack, MappedStackNext
    <3>2. stk' \in Seq(Word) /\ Len(stk') = h - 1
      BY <1>2, <2>1, <2>4, <3>1, WordsTyped
    <3>3. h - 1 = Capacity
      <4>1. ~(2 * ((h - 1) + 1) < StackSize)
        BY <2>4
      <4> QED
        BY <2>1, <2>4, <4>1, CapacityIs
    <3>4. /\ ~idle /\ lost /\ lost' = FALSE
          /\ stk' \in Seq(Word) /\ Len(stk') = Capacity /\ UNCHANGED idle
      BY <1>3, <3>1, <3>2, <3>3 DEF lost
    <3>5. Stack!Resurface
      BY <3>4 DEF Stack!Resurface, stk, lost, idle, Capacity
    <3> QED
      BY <2>2, <3>5
  <2>5. CASE ~(2 * (h - 1) < StackSize)
    <3>1. ~(2 * h < StackSize)
      BY <2>5, Sizes
    <3>2. stk = <<>> /\ lost /\ stk' = <<>> /\ lost'
      BY <1>1, <2>1, <2>5, <3>1, MappedStack, MappedStackNext
    <3> QED
      BY <1>3, <2>2, <3>2 DEF lost
  <2> QED
    BY <2>3, <2>4, <2>5
<1> QED
  BY <1>4, <1>5

(* Steps that leave SP alone.  While no program runs the words may change, *)
(* in number they stay the same.                                           *)
LEMMA SameSP ==
  ASSUME SInv, VMTypeOK', regs'[SP] = regs[SP]
  PROVE  /\ SPEven' /\ lost' = lost
         /\ (\A a \in StackSection : mem'[a] = mem[a]) => stk' = stk
         /\ idle /\ idle' => Stack!Overwrite
<1>1. PICK h \in Nat : regs[SP] = 2 * h
  BY DEF SInv, SPEven
<1>2. SPEven' /\ lost' = lost
  BY <1>1 DEF SPEven, lost
<1>3. mem \in Memory /\ mem' \in Memory
  BY DEF SInv, VMInv, VMTypeOK, Memory
<1>4. CASE 2 * h < StackSize
  <2>1. stk = WordsOf(mem, h) /\ stk' = WordsOf(mem', h)
    BY <1>1, <1>4, MappedStack, MappedStackNext
  <2>2. (\A a \in StackSection : mem'[a] = mem[a]) => stk' = stk
    BY <1>4, <2>1, SameWords
  <2>3. stk' \in Seq(Word) /\ Len(stk') = Len(stk)
    BY <1>3, <1>4, <2>1, WordsTyped
  <2>4. ASSUME idle, idle' PROVE Stack!Overwrite
    <3>1. idle' = idle
      BY <2>4 DEF idle
    <3> QED
      BY <1>2, <2>3, <2>4, <3>1 DEF Stack!Overwrite, stk, lost, idle
  <2> QED
    BY <1>2, <2>2, <2>4
<1>5. CASE ~(2 * h < StackSize)
  <2>1. stk = <<>> /\ stk' = <<>>
    BY <1>1, <1>5, MappedStack, MappedStackNext
  <2>2. stk' \in Seq(Word) /\ Len(stk') = Len(stk)
    BY <2>1
  <2>3. ASSUME idle, idle' PROVE Stack!Overwrite
    <3>1. idle' = idle
      BY <2>3 DEF idle
    <3> QED
      BY <1>2, <2>2, <2>3, <3>1 DEF Stack!Overwrite, stk, lost, idle
  <2> QED
    BY <1>2, <2>1, <2>3
<1> QED
  BY <1>4, <1>5

-----------------------------------------------------------------------------
LEMMA StackInit == Init => SInv /\ Stack!Init
<1> SUFFICES ASSUME Init PROVE SInv /\ Stack!Init
  OBVIOUS
<1>a. PICK code \in Programs : constructed(code)
  BY DEF Init
<1>b. code \in Seq(Byte)
  BY BuffersAssumption
<1>1. VMInv /\ regs[SP] = 0 /\ status = "idle"
  BY <1>a, <1>b, NewMachine DEF constructed
<1>2. regs[SP] = 2 * 0
  BY <1>1
<1>3. SPEven
  BY <1>2 DEF SPEven
<1>4. 2 * 0 < StackSize
  BY LayoutAssumption, Sizes
<1>5. stk = <<>> /\ ~lost
  BY <1>2, <1>4, MappedStack DEF WordsOf
<1>6. stk = <<>> /\ lost = FALSE /\ idle = TRUE
  BY <1>1, <1>5 DEF idle, lost
<1>7. Stack!Init
  BY <1>6 DEF Stack!Init, stk, lost, idle
<1> QED
  BY <1>1, <1>3, <1>7 DEF SInv

LEMMA StackNext ==
  ASSUME SectionLeavesRoom
  PROVE  SInv /\ [Next]_vm_vars => SInv' /\ [Stack!Next]_(Stack!vars)
<1> SUFFICES ASSUME SInv, [Next]_vm_vars
             PROVE  SInv' /\ [Stack!Next]_(Stack!vars)
  OBVIOUS
<1>0. Stack!vars = <<stk, lost, idle>>
      /\ (Stack!vars)' = <<stk', lost', idle'>>
  BY DEF Stack!vars, stk, lost, idle
<1>1. CASE UNCHANGED vm_vars
  <2>1. SInv'
    BY <1>1, NextVMInv DEF SInv, SPEven, vm_vars
  <2>2. UNCHANGED <<stk, lost, idle>>
    BY <1>1 DEF vm_vars, stk, lost, idle, GetWord
  <2> QED
    BY <1>0, <2>1, <2>2
<1>2. CASE Next
  <2>1. VMInv /\ VMInv' /\ VMTypeOK' /\ StackStep
    BY <1>2, NextGood DEF SInv, Good, VMInv
  <2>2. CASE status = "running" /\ status' # "idle"
    <3>1. StackKept(regs', mem')
      BY <2>1, <2>2 DEF StackStep
    <3>2. CASE /\ regs'[SP] = regs[SP]
               /\ \A a \in StackSection : mem'[a] = mem[a]
      <4>1. SPEven' /\ lost' = lost /\ stk' = stk
        BY <2>1, <3>2, SameSP
      <4>2. idle' = idle
        BY <2>2 DEF idle
      <4> QED
        BY <1>0, <2>1, <4>1, <4>2 DEF SInv
    <3>3. CASE /\ StackHasRoom /\ regs'[SP] = regs[SP] + 2
               /\ \A a \in StackSection :
                    a < StackBase + regs[SP] => mem'[a] = mem[a]
      <4>1. SPEven' /\ Stack!Push
        BY <2>1, <2>2, <3>3, PushStep
      <4> QED
        BY <2>1, <4>1 DEF SInv, Stack!Next
    <3>4. CASE mem' = mem /\ regs'[SP] = Trunc(regs[SP] - 2)
      <4>1. SPEven' /\ (\/ Stack!Pop \/ Stack!Underflow \/ Stack!Resurface
                        \/ UNCHANGED <<stk, lost, idle>>)
        BY <2>1, <2>2, <3>4, PopStep
      <4> QED
        BY <1>0, <2>1, <4>1 DEF SInv, Stack!Next
    <3> QED
      BY <3>1, <3>2, <3>3, <3>4 DEF StackKept
  <2>3. CASE (status = "idle") # (status' = "idle")
    <3>1. regs' = regs /\ mem' = mem
      BY <2>1, <2>3 DEF StackStep
    <3>2. SPEven' /\ lost' = lost /\ stk' = stk
      BY <2>1, <3>1, SameSP
    <3>3. idle' = ~idle
      BY <2>3 DEF idle
    <3>4. Stack!StartOrStop
      BY <3>2, <3>3 DEF Stack!StartOrStop, stk, lost, idle
    <3> QED
      BY <2>1, <3>2, <3>4 DEF SInv, Stack!Next
  <2>4. CASE status = "idle" /\ status' = "idle"
    <3>1. regs' = regs
      BY <2>1, <2>4 DEF StackStep
    <3>2. SPEven' /\ Stack!Overwrite
      BY <2>1, <2>4, <3>1, SameSP DEF idle
    <3> QED
      BY <2>1, <3>2 DEF SInv, Stack!Next
  <2> QED
    BY <2>1, <2>2, <2>3, <2>4 DEF StackStep
<1> QED
  BY <1>1, <1>2

(* The machine's stack is a stack of words, for every program, layout and  *)
(* size of the section: what lies below the top is neither lost nor        *)
(* changed while a program runs, and only popping the empty stack takes    *)
(* SP out of the section, to which it comes back full.                     *)
THEOREM StackRefinement ==
  ASSUME SectionLeavesRoom
  PROVE  Spec => StackSpec
<1>1. Init => SInv /\ Stack!Init
  BY StackInit
<1>2. SInv /\ [Next]_vm_vars => SInv' /\ [Stack!Next]_(Stack!vars)
  BY StackNext
<1> QED
  BY <1>1, <1>2, PTL DEF Spec, StackSpec, Stack!Spec
=============================================================================
