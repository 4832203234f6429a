------------------------------ MODULE VMProofs ------------------------------
(***************************************************************************)
(* What no program can do to the machine, whatever its code, the sizes of  *)
(* the sections, their place on the heap and the opcode bytes: proofs      *)
(* about VM.                                                               *)
(***************************************************************************)
EXTENDS VM, WordsProofs

RegFile == [0 .. FLAGS -> Word]
Memory == [Address -> Byte]

(* VMTypeOK alone is inductive, but not what bounds RP.                      *)
VMInv == VMTypeOK /\ RPInCode

(* What registers r and memory m leave of the stack: they leave it alone,  *)
(* put a word on top of it, or move SP down.                               *)
StackKept(r, m) ==
  \/ /\ r[SP] = regs[SP]
     /\ \A a \in StackSection : m[a] = mem[a]
  \/ /\ StackHasRoom
     /\ r[SP] = regs[SP] + 2
     /\ \A a \in StackSection : a < StackBase + regs[SP] => m[a] = mem[a]
  \/ m = mem /\ r[SP] = Trunc(regs[SP] - 2)

(* A program moves its stack; starting or stopping it does not, and while  *)
(* none runs SP stays where it is.                                         *)
StackStep ==
  /\ status \in {"idle", "running"}
  /\ status = "running" => StackKept(regs', mem')
  /\ status = "running" /\ status' = "idle" => regs' = regs /\ mem' = mem
  /\ status = "idle" => /\ regs' = regs
                        /\ status' # "idle" => mem' = mem /\ status' = "running"

(* Where an iteration that does not stop takes IP and RP: the lengths and  *)
(* jump flags of the table, and what the handlers do, put together.        *)
Flow(op, ip, rp) ==
  /\ ~ isJump(op) => ip = Trunc(regs[IP] + length(op))
  /\ op \in IMMONLY => ip \in {ImmArg, Trunc(regs[IP] + length(op))}
  /\ op = "RETN" => ip = regs[RP]
  /\ rp = regs[RP] \/ (op = "CALL" /\ rp = regs[IP] + 3)
FlowStep ==
  status = "running" /\ status' = "running" =>
    \E op \in Ops : /\ Selects(op) /\ instr_p' = op
                    /\ Flow(op, regs'[IP], regs'[RP])

(* What every step does, from a state of VMInv.                            *)
Good == /\ VMTypeOK'
        /\ RPInCode'
        /\ IsolatedStep
        /\ ControlStep
        /\ OutsideStep
        /\ StackStep
        /\ FlowStep

(* What a handler may leave behind in the registers and the memory.        *)
Allowed(r, m) ==
  /\ r \in RegFile /\ m \in Memory
  /\ r[RP] < CodeSize
  /\ \A a \in Address : m[a] # mem[a] => a \in DataSection \cup StackSection
  /\ r[SP] \in {regs[SP], Trunc(regs[SP] + 2), Trunc(regs[SP] - 2)}
  /\ r[RP] # regs[RP] =>
       LET a == StackBase + regs[SP] IN
       /\ r[SP] = regs[SP] + 2
       /\ MkWord(m[a], m[a + 1]) = r[RP]
  /\ regs[IP] >= CodeSize - 1 =>
       /\ m = mem
       /\ \A n \in R0 .. S3 \cup {RP, FLAGS} :
            r[n] # regs[n] => n \in R0 .. S3 /\ r[n] = GG
  /\ StackKept(r, m)

(* Where it takes IP, before IP moves on to the next instruction unless it *)
(* was a jump, and RP.                                                     *)
Leads(op, r) ==
  /\ ~ isJump(op) => r[IP] = regs[IP]
  /\ op \in IMMONLY => r[IP] \in {ImmArg, Trunc(regs[IP] + length(op))}
  /\ op = "RETN" => r[IP] = regs[RP]
  /\ r[RP] = regs[RP] \/ (op = "CALL" /\ r[RP] = regs[IP] + 3)

Plain == {op \in Ops : ~ isJump(op)}

-----------------------------------------------------------------------------
(* Instructions, operands and the fetch.                                   *)

LEMMA LengthNat == \A op \in Ops : length(op) \in Nat
  BY DEF Ops, length

LEMMA RegNumbers ==
  /\ IP = 8 /\ RP = 9 /\ SP = 10 /\ FLAGS = 11
  /\ R0 = 0 /\ S3 = 7 /\ NUM_REGS = 11
  BY DEF IP, RP, SP, FLAGS, R0, S3, NUM_REGS

LEMMA Sizes ==
  /\ CodeSize \in Nat /\ CodeSize > 0 /\ CodeSize < WordSize
  /\ DataSize \in Nat /\ DataSize < WordSize
  /\ StackSize \in Nat /\ StackSize < WordSize
<1>1. /\ CodeSize \in Word /\ CodeSize # 0
      /\ DataSize \in Word /\ StackSize \in Word
  BY LayoutAssumption
<1> QED
  BY <1>1, WordIs

LEMMA Places ==
  /\ Mapped \in Nat /\ CodeBase \in Nat /\ DataBase \in Nat /\ StackBase \in Nat
  /\ CodeBase + CodeSize + 2 <= Mapped
  /\ DataBase + DataSize <= Mapped
  /\ StackBase + StackSize <= Mapped
  BY LayoutAssumption

LEMMA RegisterWord ==
  ASSUME VMTypeOK, NEW n \in 0 .. FLAGS
  PROVE  regs[n] \in Word
  BY DEF VMTypeOK

LEMMA AdvanceKeeps ==
  ASSUME NEW op \in Ops, NEW r \in RegFile
  PROVE  /\ Advance(r, op) \in RegFile
         /\ \A n \in 0 .. FLAGS : n # IP => Advance(r, op)[n] = r[n]
<1>1. IP \in 0 .. FLAGS
  BY RegNumbers
<1>2. r[IP] + length(op) \in Int
  BY <1>1, LengthNat, WordIs DEF RegFile
<1>3. Trunc(r[IP] + length(op)) \in Word
  BY <1>2, TruncWord
<1> QED
  BY <1>1, <1>3 DEF Advance, RegFile

(* A byte of the code section, and a word of it.                           *)
LEMMA CodeTyped ==
  ASSUME VMTypeOK, NEW k \in Nat, k < CodeSize + 2
  PROVE  Code(k) \in Byte
<1>1. CodeBase + k \in Address
  BY Sizes, Places DEF Address
<1> QED
  BY <1>1 DEF Code, VMTypeOK

LEMMA CodeWordTyped ==
  ASSUME VMTypeOK, NEW k \in Nat, k < CodeSize + 1
  PROVE  CodeWord(k) \in Word
<1>1. CodeBase + k \in Address /\ CodeBase + k + 1 \in Address
  BY Sizes, Places DEF Address
<1>2. mem[CodeBase + k] \in Byte /\ mem[CodeBase + k + 1] \in Byte
  BY <1>1 DEF VMTypeOK
<1> QED
  BY <1>2, MkWordWord DEF CodeWord, GetWord

LEMMA NibblesTyped ==
  \A b \in Byte : HiNibble(b) \in 0 .. 15 /\ LoNibble(b) \in 0 .. 15
  BY ByteIs DEF HiNibble, LoNibble

(* What the operands are once the length of the code has been checked.     *)
LEMMA OperandsTyped ==
  ASSUME VMTypeOK, regs[IP] + 1 < CodeSize
  PROVE  /\ ImmDst \in Byte /\ ImmSrc \in Word
         /\ ByteDst \in Byte /\ ByteSrc \in Byte
         /\ RegArg \in Byte /\ ImmArg \in Word
         /\ NibbleDst \in 0 .. 15 /\ NibbleSrc \in 0 .. 15
<1>1. regs[IP] \in Nat /\ CodeSize \in Nat
  BY RegisterWord, RegNumbers, WordIs, Sizes
<1>2. Code(regs[IP] + 1) \in Byte /\ Code(regs[IP] + 2) \in Byte
  BY <1>1, CodeTyped
<1>3. CodeWord(regs[IP] + 1) \in Word
  BY <1>1, CodeWordTyped
<1>4. CodeWord(regs[IP] + 2) \in Word
  BY <1>1, CodeWordTyped
<1> QED
  BY <1>2, <1>3, <1>4, NibblesTyped
  DEF ImmDst, ImmSrc, ByteDst, ByteSrc, RegArg, ImmArg, NibbleDst, NibbleSrc

(* The other register numbers end at the flags: all of them are words.     *)
LEMMA ValidRegister ==
  \A n \in Nat : isRegValid(n) => n \in 0 .. FLAGS /\ n \notin {IP, RP, SP}
  BY RegNumbers DEF isRegValid

-----------------------------------------------------------------------------
(* Memory.                                                                 *)

LEMMA PutWordTyped ==
  ASSUME VMTypeOK, NEW a \in Address, a + 1 \in Address, NEW w \in Word
  PROVE  /\ PutWord(a, w) \in Memory
         /\ \A x \in Address : x \notin {a, a + 1} => PutWord(a, w)[x] = mem[x]
         /\ MkWord(PutWord(a, w)[a], PutWord(a, w)[a + 1]) = w
<1>1. LoByte(w) \in Byte /\ HiByte(w) \in Byte
  BY HalvesByte
<1>2. a \in Int /\ a # a + 1
  BY Places DEF Address
<1>3. MkWord(LoByte(w), HiByte(w)) = w
  BY HalvesMakeWord
<1> QED
  BY <1>1, <1>2, <1>3 DEF PutWord, VMTypeOK, Memory

LEMMA GetWordTyped ==
  ASSUME VMTypeOK, NEW a \in Address, a + 1 \in Address
  PROVE  GetWord(a) \in Word
  BY MkWordWord DEF GetWord, VMTypeOK

(* The bounds check of the loads and stores, and that of PUSH and CALL.    *)
LEMMA InDataAddress ==
  ASSUME NEW a \in Word, InData(a)
  PROVE  /\ DataBase + a \in Address /\ DataBase + a + 1 \in Address
         /\ DataBase + a \in DataSection /\ DataBase + a + 1 \in DataSection
  BY Sizes, Places, WordIs DEF InData, Address, DataSection

LEMMA StackAddress ==
  ASSUME VMTypeOK, StackHasRoom
  PROVE  LET a == StackBase + regs[SP] IN
         /\ a \in Address /\ a + 1 \in Address
         /\ a \in StackSection /\ a + 1 \in StackSection
         /\ Trunc(regs[SP] + 2) = regs[SP] + 2
         /\ regs[SP] + 2 \in Word
<1> DEFINE s == regs[SP]
<1>1. s \in Word
  BY RegisterWord, RegNumbers
<1>2. s \in Nat /\ s + 2 < StackSize
  BY <1>1, WordIs DEF StackHasRoom
<1> HIDE DEF s
<1>3. s + 2 \in Word
  BY <1>2, WordIs, WordSizeIs, Sizes
<1>4. Trunc(s + 2) = s + 2
  BY <1>3, TruncId
<1>5. /\ StackBase + s \in Address /\ StackBase + s + 1 \in Address
      /\ StackBase + s \in StackSection /\ StackBase + s + 1 \in StackSection
  BY <1>2, Sizes, Places DEF Address, StackSection
<1> QED
  BY <1>3, <1>4, <1>5 DEF s

LEMMA StackApart ==
  \A a \in StackSection : a \in Address /\ a \notin DataSection
<1> SUFFICES ASSUME NEW a \in StackSection
             PROVE  a \in Address /\ a \notin DataSection
  OBVIOUS
<1>1. a \in Address
  BY Sizes, Places DEF StackSection, Address
<1> QED
  BY <1>1, LayoutAssumption

-----------------------------------------------------------------------------
(* One iteration: the shapes the handlers share.                           *)

LEMMA ExecuteStep ==
  ASSUME VMInv, NEW op \in Ops, NEW ok \in BOOLEAN, NEW r, NEW m,
         ok => Allowed(r, m) /\ Leads(op, r),
         Execute(op, ok, r, m)
  PROVE  Good
<1>1. CASE ok
  <2> DEFINE f == IF isJump(op) THEN r ELSE Advance(r, op)
  <2>1. Allowed(r, m) /\ r \in RegFile
    BY <1>1 DEF Allowed
  <2>2. f \in RegFile /\ \A n \in 0 .. FLAGS : n # IP => f[n] = r[n]
    BY <2>1, AdvanceKeeps
  <2> HIDE DEF f
  <2>3. regs' = f /\ mem' = m /\ instr_p' = op /\ status' = status
    BY <1>1 DEF Execute, f
  <2>4. \A n \in R0 .. S3 \cup {RP, SP, FLAGS} : f[n] = r[n]
    BY <2>2, RegNumbers
  <2>5. VMTypeOK'
    BY <2>1, <2>2, <2>3 DEF Allowed, VMInv, VMTypeOK, RegFile, Memory
  <2>6. RPInCode'
    BY <2>1, <2>3, <2>4 DEF Allowed, RPInCode
  <2>7. IsolatedStep
    BY <2>1, <2>3 DEF Allowed, IsolatedStep
  <2>8. ControlStep
    BY <2>1, <2>3, <2>4 DEF Allowed, ControlStep
  <2>9. OutsideStep
    BY <2>1, <2>3, <2>4 DEF Allowed, OutsideStep
  <2>10. StackStep
    BY <2>1, <2>3, <2>4 DEF Allowed, StackKept, StackStep, Execute, Selects
  <2>11. Flow(op, f[IP], f[RP])
    <3>1. Leads(op, r) /\ f[RP] = r[RP]
      BY <1>1, <2>4
    <3>2. isJump(op) => f[IP] = r[IP]
      BY DEF f
    <3>3. ~ isJump(op) => f[IP] = Trunc(r[IP] + length(op))
      BY <2>1, RegNumbers DEF f, Advance, RegFile
    <3>4. op \in IMMONLY \/ op = "RETN" => isJump(op)
      BY DEF IMMONLY, isJump
    <3> QED
      BY <3>1, <3>2, <3>3, <3>4 DEF Leads, Flow
  <2>12. FlowStep
    BY <2>3, <2>11 DEF FlowStep, Execute
  <2> QED
    BY <2>5, <2>6, <2>7, <2>8, <2>9, <2>10, <2>12 DEF Good
<1>2. CASE ~ok
  <2>1. /\ regs' = regs /\ mem' = mem /\ instr_p' = NULL
        /\ status = "running" /\ status' = "idle"
    BY <1>2 DEF Execute, Selects
  <2> QED
    BY <2>1 DEF Good, VMInv, VMTypeOK, RPInCode, IsolatedStep, ControlStep,
                OutsideStep, StackStep, StackKept, FlowStep
<1> QED
  BY <1>1, <1>2

LEMMA PlainLeads ==
  ASSUME NEW op \in Plain, NEW r, r[IP] = regs[IP], r[RP] = regs[RP]
  PROVE  op \in Ops /\ Leads(op, r)
<1>1. op \in Ops /\ ~ isJump(op)
  BY DEF Plain
<1>2. op \notin IMMONLY /\ op # "RETN"
  BY <1>1 DEF IMMONLY, isJump
<1> QED
  BY <1>1, <1>2 DEF Leads

(* The state itself, and one in which only unguarded registers differ.     *)
LEMMA RegistersAllowed ==
  ASSUME VMInv, NEW r \in RegFile,
         r[RP] = regs[RP],
         r[SP] \in {regs[SP], Trunc(regs[SP] - 2)},
         regs[IP] >= CodeSize - 1 =>
           \A n \in R0 .. S3 \cup {RP, FLAGS} :
             r[n] # regs[n] => n \in R0 .. S3 /\ r[n] = GG
  PROVE  Allowed(r, mem)
  BY DEF Allowed, VMInv, VMTypeOK, RPInCode, Memory, StackKept

LEMMA InsideCode ==
  ASSUME VMTypeOK, regs[IP] + 1 < CodeSize
  PROVE  ~(regs[IP] >= CodeSize - 1)
<1> DEFINE ip == regs[IP]
<1>1. ip \in Nat
  BY RegisterWord, RegNumbers, WordIs
<1> HIDE DEF ip
<1>2. ip + 1 < CodeSize => ~(ip >= CodeSize - 1)
  BY <1>1, Sizes
<1> QED
  BY <1>2 DEF ip

(* A result in a register.                                                 *)
LEMMA SetRegStep ==
  ASSUME VMInv, NEW op \in Plain, NEW ok \in BOOLEAN, NEW dst, NEW w,
         ok => dst \in Nat /\ regs[IP] + 1 < CodeSize,
         ok /\ isRegValid(dst) => w \in Word,
         SetReg(op, ok, dst, w)
  PROVE  Good
<1> DEFINE k == ok /\ isRegValid(dst)
           r == [regs EXCEPT ![dst] = w]
<1>1. k \in BOOLEAN
  OBVIOUS
<1>2. Execute(op, k, r, mem)
  BY DEF SetReg
<1>3. ASSUME k PROVE Allowed(r, mem) /\ op \in Ops /\ Leads(op, r)
  <2>1. dst \in 0 .. FLAGS /\ dst \notin {IP, RP, SP} /\ w \in Word
    BY <1>3, ValidRegister
  <2>2. /\ r \in RegFile /\ r[RP] = regs[RP] /\ r[SP] = regs[SP]
        /\ r[IP] = regs[IP]
    BY <2>1, RegNumbers DEF VMInv, VMTypeOK, RegFile
  <2>3. ~(regs[IP] >= CodeSize - 1)
    BY <1>3, InsideCode DEF VMInv
  <2> HIDE DEF r
  <2> QED
    BY <2>2, <2>3, RegistersAllowed, PlainLeads
<1>4. op \in Ops
  BY DEF Plain
<1> HIDE DEF k, r
<1> QED
  BY <1>1, <1>2, <1>3, <1>4, ExecuteStep

(* A word stored in the data section.                                      *)
LEMMA StoreStep ==
  ASSUME VMInv, NEW op \in Plain, NEW ok \in BOOLEAN, NEW a, NEW w,
         ok => /\ regs[IP] + 1 < CodeSize
               /\ a \in Word /\ InData(a) /\ w \in Word,
         Execute(op, ok, regs, PutWord(DataBase + a, w))
  PROVE  Good
<1> DEFINE m == PutWord(DataBase + a, w)
<1>1. ASSUME ok PROVE Allowed(regs, m)
  <2> DEFINE x == DataBase + a
  <2>1. /\ x \in Address /\ x + 1 \in Address
        /\ x \in DataSection /\ x + 1 \in DataSection
    BY <1>1, InDataAddress
  <2> HIDE DEF x
  <2>2. /\ PutWord(x, w) \in Memory
        /\ \A y \in Address : y \notin {x, x + 1} => PutWord(x, w)[y] = mem[y]
    BY <1>1, <2>1, PutWordTyped DEF VMInv
  <2>3. /\ m \in Memory
        /\ \A y \in Address : m[y] # mem[y] => y \in DataSection
    BY <2>1, <2>2 DEF x
  <2>4. ~(regs[IP] >= CodeSize - 1)
    BY <1>1, InsideCode DEF VMInv
  <2> HIDE DEF m
  <2>5. StackKept(regs, m)
    BY <2>3, StackApart DEF StackKept
  <2> QED
    BY <2>3, <2>4, <2>5 DEF Allowed, VMInv, VMTypeOK, RPInCode, RegFile
<1>2. op \in Ops /\ Leads(op, regs)
  BY PlainLeads
<1> HIDE DEF m
<1> QED
  BY <1>1, <1>2, ExecuteStep DEF m

(* A comparison.                                                           *)
LEMMA FlagsWord ==
  ASSUME NEW w \in Word, NEW b \in BOOLEAN
  PROVE  WithZF(w, b) \in Word /\ WithCF(w, b) \in Word
<1>1. /\ w \in Nat /\ w % 2 \in 0 .. 1
      /\ w \div 2 \in Nat /\ w \div 4 \in Nat
      /\ 2 * (w \div 2) + 1 < WordSize /\ 4 * (w \div 4) + 3 < WordSize
  BY WordIs DEF WordSize
<1>2. WithZF(w, b) \in Nat /\ WithZF(w, b) < WordSize
  BY <1>1, WordSizeIs DEF WithZF
<1>3. WithCF(w, b) \in Nat /\ WithCF(w, b) < WordSize
  BY <1>1, WordSizeIs DEF WithCF
<1> QED
  BY <1>2, <1>3, WordIs

LEMMA CompareStep ==
  ASSUME VMInv, NEW op \in Plain, NEW ok \in BOOLEAN,
         NEW eq \in BOOLEAN, NEW above \in BOOLEAN,
         ok => regs[IP] + 1 < CodeSize,
         Compare(op, ok, eq, above)
  PROVE  Good
<1> DEFINE z == WithZF(regs[FLAGS], eq)
           w == WithCF(z, ~above)
           r == [AfterZF(eq) EXCEPT ![FLAGS] = WithCF(@, ~above)]
<1>1. Execute(op, ok, r, mem)
  BY DEF Compare
<1>2. regs \in RegFile /\ FLAGS \in 0 .. FLAGS
  BY RegNumbers DEF VMInv, VMTypeOK, RegFile
<1>3. r = [regs EXCEPT ![FLAGS] = w]
  BY <1>2 DEF AfterZF, RegFile
<1>4. w \in Word
  <2>1. regs[FLAGS] \in Word /\ (~above) \in BOOLEAN
    BY <1>2 DEF RegFile
  <2>2. z \in Word
    BY <2>1, FlagsWord
  <2> HIDE DEF z
  <2> QED
    BY <2>1, <2>2, FlagsWord
<1> HIDE DEF w, r
<1>5. ASSUME ok PROVE Allowed(r, mem) /\ Leads(op, r)
  <2>1. /\ r \in RegFile /\ r[RP] = regs[RP] /\ r[SP] = regs[SP]
        /\ r[IP] = regs[IP]
    BY <1>2, <1>3, <1>4, RegNumbers DEF RegFile
  <2>2. ~(regs[IP] >= CodeSize - 1)
    BY <1>5, InsideCode DEF VMInv
  <2> QED
    BY <2>1, <2>2, RegistersAllowed, PlainLeads
<1>6. op \in Ops
  BY DEF Plain
<1> QED
  BY <1>1, <1>5, <1>6, ExecuteStep

(* A jump.                                                                 *)
LEMMA JumpStep ==
  ASSUME VMInv, NEW op \in Ops, NEW ok \in BOOLEAN, NEW cond \in BOOLEAN,
         NEW target, ok => target \in Word,
         isJump(op), op # "RETN", op \in IMMONLY => target = ImmArg,
         Jump(op, ok, cond, target)
  PROVE  Good
<1> DEFINE r == IF cond THEN [regs EXCEPT ![IP] = target]
                        ELSE Advance(regs, op)
<1>1. Execute(op, ok, r, mem)
  BY DEF Jump
<1>2. ASSUME ok PROVE Allowed(r, mem) /\ Leads(op, r)
  <2>1. regs \in RegFile
    BY DEF VMInv, VMTypeOK, RegFile
  <2>a. r[IP] = IF cond THEN target ELSE Trunc(regs[IP] + length(op))
    BY <2>1, RegNumbers DEF RegFile, Advance
  <2>2. r \in RegFile /\ \A n \in 0 .. FLAGS : n # IP => r[n] = regs[n]
    <3>1. CASE cond
      BY <1>2, <2>1, <3>1, RegNumbers DEF RegFile
    <3>2. CASE ~cond
      BY <2>1, <3>2, AdvanceKeeps
    <3> QED
      BY <3>1, <3>2
  <2> HIDE DEF r
  <2>3. /\ r[RP] = regs[RP] /\ r[SP] = regs[SP]
        /\ \A n \in R0 .. S3 \cup {RP, FLAGS} : r[n] = regs[n]
    BY <2>2, RegNumbers
  <2>4. Leads(op, r)
    BY <2>a, <2>3 DEF Leads
  <2> QED
    BY <2>2, <2>3, <2>4, RegistersAllowed
<1> HIDE DEF r
<1> QED
  BY <1>1, <1>2, ExecuteStep

-----------------------------------------------------------------------------
(* The operands again, under the name of the check that reads them.        *)

LEMMA ByteNat == \A b \in Byte : b \in Nat /\ b \in Word
  BY ByteIs, ByteWord

LEMMA ValidWord ==
  ASSUME VMTypeOK, NEW n \in Nat, isRegValid(n)
  PROVE  regs[n] \in Word
  BY ValidRegister, RegisterWord

LEMMA ImmOperands ==
  ASSUME VMTypeOK
  PROVE  /\ ImmArgs \in BOOLEAN
         /\ ImmArgs => /\ ImmDst \in Nat /\ regs[IP] + 1 < CodeSize
                       /\ ImmSrc \in Word
                       /\ isRegValid(ImmDst) => regs[ImmDst] \in Word
<1>1. ImmArgs <=> regs[IP] + 1 < CodeSize
  BY DEF ImmArgs, ArgsInCode
<1>2. ImmArgs \in BOOLEAN
  BY DEF ImmArgs, ArgsInCode
<1>3. ImmArgs => ImmDst \in Nat /\ ImmSrc \in Word
  BY <1>1, OperandsTyped, ByteNat
<1> QED
  BY <1>1, <1>2, <1>3, ValidWord

LEMMA ByteOperands ==
  ASSUME VMTypeOK
  PROVE  /\ ByteArgs \in BOOLEAN
         /\ ByteArgs => /\ ByteDst \in Nat /\ regs[IP] + 1 < CodeSize
                        /\ ByteSrc \in Word
                        /\ isRegValid(ByteDst) => regs[ByteDst] \in Word
<1>1. ByteArgs <=> regs[IP] + 1 < CodeSize
  BY DEF ByteArgs, ArgsInCode
<1>2. ByteArgs \in BOOLEAN
  BY DEF ByteArgs, ArgsInCode
<1>3. ByteArgs => ByteDst \in Nat /\ ByteSrc \in Word
  BY <1>1, OperandsTyped, ByteNat
<1> QED
  BY <1>1, <1>2, <1>3, ValidWord

LEMMA NibbleOperands ==
  ASSUME VMTypeOK
  PROVE  /\ NibbleArgs \in BOOLEAN
         /\ NibbleArgs => /\ NibbleDst \in Nat /\ regs[IP] + 1 < CodeSize
                          /\ regs[NibbleSrc] \in Word
                          /\ isRegValid(NibbleDst) => regs[NibbleDst] \in Word
<1>1. NibbleArgs <=> regs[IP] + 1 < CodeSize /\ isRegValid(NibbleSrc)
  BY DEF NibbleArgs, ArgsInCode
<1>2. NibbleArgs \in BOOLEAN
  BY DEF NibbleArgs, ArgsInCode
<1>3. NibbleArgs => NibbleDst \in Nat /\ NibbleSrc \in Nat
  BY <1>1, OperandsTyped
<1> QED
  BY <1>1, <1>2, <1>3, ValidWord

LEMMA OneOperand ==
  ASSUME VMTypeOK
  PROVE  /\ OneArg \in BOOLEAN
         /\ OneArg => /\ RegArg \in Nat /\ RegArg \in Word
                      /\ regs[IP] + 1 < CodeSize
                      /\ ImmArg \in Word
                      /\ isRegValid(RegArg) => regs[RegArg] \in Word
<1>1. OneArg <=> regs[IP] + 1 < CodeSize
  BY DEF OneArg, ArgsInCode
<1>2. OneArg \in BOOLEAN
  BY DEF OneArg, ArgsInCode
<1>3. OneArg => RegArg \in Nat /\ RegArg \in Word /\ ImmArg \in Word
  BY <1>1, OperandsTyped, ByteNat
<1> QED
  BY <1>1, <1>2, <1>3, ValidWord

(* STRI is the one whose operands are a word and a byte.                   *)
LEMMA StoreOperands ==
  ASSUME VMTypeOK
  PROVE  /\ StoreArgs \in BOOLEAN
         /\ StoreArgs => /\ StoreDst \in Word /\ StoreSrc \in Byte
                         /\ regs[IP] + 1 < CodeSize
<1> DEFINE ip == regs[IP]
<1>1. ip \in Nat /\ CodeSize \in Nat
  BY RegisterWord, RegNumbers, WordIs, Sizes
<1>2. StoreArgs <=> ip + 2 < CodeSize
  BY DEF StoreArgs, ArgsInCode
<1>3. StoreArgs \in BOOLEAN
  BY DEF StoreArgs, ArgsInCode
<1>4. StoreDst = CodeWord(ip + 1) /\ StoreSrc = Code(ip + 3)
  BY DEF StoreDst, StoreSrc
<1> HIDE DEF ip
<1>5. ip + 2 < CodeSize => CodeWord(ip + 1) \in Word /\ Code(ip + 3) \in Byte
  BY <1>1, CodeTyped, CodeWordTyped
<1>6. ip + 2 < CodeSize => ip + 1 < CodeSize
  BY <1>1
<1> QED
  BY <1>2, <1>3, <1>4, <1>5, <1>6 DEF ip

-----------------------------------------------------------------------------
(* One step per handler.                                                   *)

LEMMA TransferStep == VMInv /\ Transfer => Good
<1> SUFFICES ASSUME VMInv, Transfer PROVE Good
  OBVIOUS
<1> USE DEF VMInv
<1>0. {"MOVI", "MOVR", "LODI", "LODR", "STRI", "STRR", "GRMN"} \subseteq Plain
  BY DEF Ops, REG2REG, IMM2REG, SINGLE, Plain, isJump
<1>1. CASE execMOVI
  BY <1>0, <1>1, ImmOperands, SetRegStep DEF execMOVI
<1>2. CASE execMOVR
  BY <1>0, <1>2, NibbleOperands, SetRegStep DEF execMOVR
<1>3. CASE execLODI
  <2> DEFINE ok == ImmArgs /\ InData(ImmSrc)
             w == GetWord(DataBase + ImmSrc)
  <2>1. ok \in BOOLEAN
    BY ImmOperands DEF InData
  <2>2. ok => w \in Word
    BY ImmOperands, InDataAddress, GetWordTyped
  <2>3. SetReg("LODI", ok, ImmDst, w)
    BY <1>3 DEF execLODI
  <2>4. ok => ImmDst \in Nat /\ regs[IP] + 1 < CodeSize
    BY ImmOperands
  <2> HIDE DEF ok, w
  <2> QED
    BY <1>0, <2>1, <2>2, <2>3, <2>4, SetRegStep
<1>4. CASE execLODR
  <2> DEFINE ok == NibbleArgs /\ InData(regs[NibbleSrc])
             w == GetWord(DataBase + regs[NibbleSrc])
  <2>1. ok \in BOOLEAN
    BY NibbleOperands DEF InData
  <2>2. ok => w \in Word
    BY NibbleOperands, InDataAddress, GetWordTyped
  <2>3. SetReg("LODR", ok, NibbleDst, w)
    BY <1>4 DEF execLODR
  <2>4. ok => NibbleDst \in Nat /\ regs[IP] + 1 < CodeSize
    BY NibbleOperands
  <2> HIDE DEF ok, w
  <2> QED
    BY <1>0, <2>1, <2>2, <2>3, <2>4, SetRegStep
<1>5. CASE execSTRI
  <2> DEFINE ok == StoreArgs /\ isRegValid(LoByte(StoreDst)) /\ InData(StoreDst)
  <2>1. PICK w \in IF ok THEN RegContents(StoreSrc) ELSE {0} :
          Execute("STRI", ok, regs, PutWord(DataBase + StoreDst, w))
    BY <1>5 DEF execSTRI
  <2>2. ok \in BOOLEAN
    BY StoreOperands DEF InData, isRegValid
  <2>3. ok => /\ regs[IP] + 1 < CodeSize
              /\ StoreDst \in Word /\ InData(StoreDst) /\ w \in Word
    <3>1. RegContents(StoreSrc) \subseteq Word
      BY RegisterWord, ObjectAssumption DEF RegContents
    <3> QED
      BY <2>1, <3>1, StoreOperands
  <2> HIDE DEF ok
  <2> QED
    BY <1>0, <2>1, <2>2, <2>3, StoreStep
<1>6. CASE execSTRR
  <2> DEFINE ok == /\ NibbleArgs /\ isRegValid(NibbleDst)
                   /\ InData(regs[NibbleDst])
  <2>1. Execute("STRR", ok, regs,
                PutWord(DataBase + regs[NibbleDst], regs[NibbleSrc]))
    BY <1>6 DEF execSTRR
  <2>2. ok \in BOOLEAN
    BY NibbleOperands DEF InData, isRegValid
  <2>3. ok => /\ regs[IP] + 1 < CodeSize
              /\ regs[NibbleDst] \in Word /\ InData(regs[NibbleDst])
              /\ regs[NibbleSrc] \in Word
    BY NibbleOperands
  <2> HIDE DEF ok
  <2> QED
    BY <1>0, <2>1, <2>2, <2>3, StoreStep
<1>7. CASE execGRMN
  <2> DEFINE r == [n \in 0 .. FLAGS |->
                     IF n \in {IP, RP, SP, FLAGS} THEN regs[n] ELSE GG]
  <2>1. Execute("GRMN", TRUE, r, mem)
    BY <1>7 DEF execGRMN
  <2>2. GG \in Word
    BY MkWordWord, ByteIs DEF GG
  <2>3. r \in RegFile
    BY <2>2, RegisterWord DEF RegFile
  <2>4. /\ r[RP] = regs[RP] /\ r[SP] = regs[SP] /\ r[FLAGS] = regs[FLAGS]
        /\ r[IP] = regs[IP]
        /\ \A n \in R0 .. S3 : r[n] = GG
    BY RegNumbers
  <2> HIDE DEF r
  <2>5. Allowed(r, mem)
    BY <2>3, <2>4, RegNumbers, RegistersAllowed
  <2>6. "GRMN" \in Ops /\ Leads("GRMN", r)
    BY <1>0, <2>4, PlainLeads
  <2> QED
    BY <2>1, <2>5, <2>6, ExecuteStep
<1> QED
  BY <1>1, <1>2, <1>3, <1>4, <1>5, <1>6, <1>7 DEF Transfer

LEMMA ArithmeticStep == VMInv /\ Arithmetic => Good
<1> SUFFICES ASSUME VMInv, Arithmetic PROVE Good
  OBVIOUS
<1> USE DEF VMInv
<1>0. REG2REG \cup IMM2REG \cup BYT2REG \cup {"NOTR"} \subseteq Plain
  BY DEF Ops, REG2REG, IMM2REG, BYT2REG, REGONLY, Plain, isJump
<1>1. CASE execADDI
  <2>1. "ADDI" \in Plain
    BY <1>0 DEF IMM2REG
  <2> QED
    BY <2>1, <1>1, ImmOperands, SumWord, SetRegStep DEF execADDI
<1>2. CASE execSUBI
  <2>1. "SUBI" \in Plain
    BY <1>0 DEF IMM2REG
  <2> QED
    BY <2>1, <1>2, ImmOperands, SumWord, SetRegStep DEF execSUBI
<1>3. CASE execANDW
  <2>1. "ANDW" \in Plain
    BY <1>0 DEF IMM2REG
  <2> QED
    BY <2>1, <1>3, ImmOperands, BitwiseWord, SetRegStep DEF execANDW
<1>4. CASE execYORW
  <2>1. "YORW" \in Plain
    BY <1>0 DEF IMM2REG
  <2> QED
    BY <2>1, <1>4, ImmOperands, BitwiseWord, SetRegStep DEF execYORW
<1>5. CASE execXORW
  <2>1. "XORW" \in Plain
    BY <1>0 DEF IMM2REG
  <2> QED
    BY <2>1, <1>5, ImmOperands, BitwiseWord, SetRegStep DEF execXORW
<1>6. CASE execMULI
  <2>1. "MULI" \in Plain
    BY <1>0 DEF IMM2REG
  <2> QED
    BY <2>1, <1>6, ImmOperands, ProductWord, SetRegStep DEF execMULI
<1>7. CASE execSHLI
  <2>1. "SHLI" \in Plain
    BY <1>0 DEF IMM2REG
  <2> QED
    BY <2>1, <1>7, ImmOperands, ShiftWord, SetRegStep DEF execSHLI
<1>8. CASE execSHRI
  <2>1. "SHRI" \in Plain
    BY <1>0 DEF IMM2REG
  <2> QED
    BY <2>1, <1>8, ImmOperands, ShiftWord, SetRegStep DEF execSHRI
<1>9. CASE execANDB
  <2>1. "ANDB" \in Plain
    BY <1>0 DEF BYT2REG
  <2> QED
    BY <2>1, <1>9, ByteOperands, BitwiseWord, SetRegStep DEF execANDB
<1>10. CASE execYORB
  <2>1. "YORB" \in Plain
    BY <1>0 DEF BYT2REG
  <2> QED
    BY <2>1, <1>10, ByteOperands, BitwiseWord, SetRegStep DEF execYORB
<1>11. CASE execXORB
  <2>1. "XORB" \in Plain
    BY <1>0 DEF BYT2REG
  <2> QED
    BY <2>1, <1>11, ByteOperands, BitwiseWord, SetRegStep DEF execXORB
<1>12. CASE execADDR
  <2>1. "ADDR" \in Plain
    BY <1>0 DEF REG2REG
  <2> QED
    BY <2>1, <1>12, NibbleOperands, SumWord, SetRegStep DEF execADDR
<1>13. CASE execSUBR
  <2>1. "SUBR" \in Plain
    BY <1>0 DEF REG2REG
  <2> QED
    BY <2>1, <1>13, NibbleOperands, SumWord, SetRegStep DEF execSUBR
<1>14. CASE execANDR
  <2>1. "ANDR" \in Plain
    BY <1>0 DEF REG2REG
  <2> QED
    BY <2>1, <1>14, NibbleOperands, BitwiseWord, SetRegStep DEF execANDR
<1>15. CASE execYORR
  <2>1. "YORR" \in Plain
    BY <1>0 DEF REG2REG
  <2> QED
    BY <2>1, <1>15, NibbleOperands, BitwiseWord, SetRegStep DEF execYORR
<1>16. CASE execXORR
  <2>1. "XORR" \in Plain
    BY <1>0 DEF REG2REG
  <2> QED
    BY <2>1, <1>16, NibbleOperands, BitwiseWord, SetRegStep DEF execXORR
<1>17. CASE execMULR
  <2>1. "MULR" \in Plain
    BY <1>0 DEF REG2REG
  <2> QED
    BY <2>1, <1>17, NibbleOperands, ProductWord, SetRegStep DEF execMULR
<1>18. CASE execSHLR
  <2>1. "SHLR" \in Plain
    BY <1>0 DEF REG2REG
  <2> QED
    BY <2>1, <1>18, NibbleOperands, ShiftWord, SetRegStep DEF execSHLR
<1>19. CASE execSHRR
  <2>1. "SHRR" \in Plain
    BY <1>0 DEF REG2REG
  <2> QED
    BY <2>1, <1>19, NibbleOperands, ShiftWord, SetRegStep DEF execSHRR
<1>20. CASE execNOTR
  <2>1. "NOTR" \in Plain
    BY <1>0
  <2> QED
    BY <2>1, <1>20, NibbleOperands, ComplementWord, SetRegStep DEF execNOTR
<1>21. CASE execDIVI
  <2> DEFINE ok == ImmArgs /\ isDivArgValid(ImmSrc)
             w == DivWord(regs[ImmDst], ImmSrc)
  <2>1. "DIVI" \in Plain
    BY <1>0 DEF IMM2REG
  <2>2. SetReg("DIVI", ok, ImmDst, w)
    BY <1>21 DEF execDIVI
  <2>3. ok \in BOOLEAN /\ (ok => ImmDst \in Nat /\ regs[IP] + 1 < CodeSize)
    BY ImmOperands DEF isDivArgValid
  <2>4. ok => ImmSrc # 0
    BY DEF isDivArgValid
  <2>5. ok /\ isRegValid(ImmDst) => w \in Word
    BY <2>4, ImmOperands, QuotientWord
  <2> HIDE DEF ok, w
  <2> QED
    BY <2>1, <2>2, <2>3, <2>5, SetRegStep
<1>22. CASE execDIVR
  <2> DEFINE ok == NibbleArgs /\ isDivArgValid(LoByte(regs[NibbleSrc]))
             w == DivWord(regs[NibbleDst], regs[NibbleSrc])
  <2>1. "DIVR" \in Plain
    BY <1>0 DEF REG2REG
  <2>2. SetReg("DIVR", ok, NibbleDst, w)
    BY <1>22 DEF execDIVR
  <2>3. ok \in BOOLEAN /\ (ok => NibbleDst \in Nat /\ regs[IP] + 1 < CodeSize)
    BY NibbleOperands DEF isDivArgValid
  <2>4. ok => regs[NibbleSrc] # 0
    BY DEF isDivArgValid, LoByte
  <2>5. ok /\ isRegValid(NibbleDst) => w \in Word
    BY <2>4, NibbleOperands, QuotientWord
  <2> HIDE DEF ok, w
  <2> QED
    BY <2>1, <2>2, <2>3, <2>5, SetRegStep
<1> QED
  BY <1>1, <1>2, <1>3, <1>4, <1>5, <1>6, <1>7, <1>8, <1>9, <1>10, <1>11,
     <1>12, <1>13, <1>14, <1>15, <1>16, <1>17, <1>18, <1>19, <1>20, <1>21,
     <1>22 DEF Arithmetic

LEMMA ControlTyped ==
  /\ ZF \in BOOLEAN /\ CF \in BOOLEAN
  /\ (~CF /\ ~ZF) \in BOOLEAN /\ (~ZF) \in BOOLEAN
  BY DEF ZF, CF

LEMMA ControlStepGood == VMInv /\ Control => Good
<1> SUFFICES ASSUME VMInv, Control PROVE Good
  OBVIOUS
<1> USE DEF VMInv
<1>0. BYT2REG \cup IMM2REG \cup REG2REG \cup REGONLY \cup IMMONLY \cup SINGLE
        \subseteq Ops
  BY DEF Ops
<1>c. /\ {"CMPB", "CMPW", "CMPR", "SHIT", "NOPE"} \subseteq Plain
      /\ "DEBG" \in Ops => "DEBG" \in Plain
  BY DEF Ops, BYT2REG, IMM2REG, REG2REG, SINGLE, Plain, isJump
<1>a. regs \in RegFile /\ VMTypeOK
  BY DEF VMTypeOK, RegFile
<1>b. Allowed(regs, mem)
  BY <1>a, RegistersAllowed
<1>1. CASE execCMPB
  <2> DEFINE ok == ByteArgs /\ isRegValid(ByteDst)
             eq == LoByte(regs[ByteDst]) = ByteSrc
             above == LoByte(AfterZF(eq)[ByteDst]) > ByteSrc
  <2>1. "CMPB" \in Plain
    BY <1>c
  <2>2. Compare("CMPB", ok, eq, above)
    BY <1>1 DEF execCMPB
  <2>3. ok \in BOOLEAN /\ eq \in BOOLEAN /\ above \in BOOLEAN
    BY ByteOperands DEF isRegValid
  <2>4. ok => regs[IP] + 1 < CodeSize
    BY ByteOperands
  <2> HIDE DEF ok, eq, above
  <2> QED
    BY <2>1, <2>2, <2>3, <2>4, CompareStep
<1>2. CASE execCMPW
  <2> DEFINE ok == ImmArgs /\ isRegValid(ImmDst)
             eq == regs[ImmDst] = ImmSrc
             above == AfterZF(eq)[ImmDst] > ImmSrc
  <2>1. "CMPW" \in Plain
    BY <1>c
  <2>2. Compare("CMPW", ok, eq, above)
    BY <1>2 DEF execCMPW
  <2>3. ok \in BOOLEAN /\ eq \in BOOLEAN /\ above \in BOOLEAN
    BY ImmOperands DEF isRegValid
  <2>4. ok => regs[IP] + 1 < CodeSize
    BY ImmOperands
  <2> HIDE DEF ok, eq, above
  <2> QED
    BY <2>1, <2>2, <2>3, <2>4, CompareStep
<1>3. CASE execCMPR
  <2> DEFINE ok == NibbleArgs /\ isRegValid(NibbleDst)
             eq == regs[NibbleDst] = regs[NibbleSrc]
             above == AfterZF(eq)[NibbleDst] > AfterZF(eq)[NibbleSrc]
  <2>1. "CMPR" \in Plain
    BY <1>c
  <2>2. Compare("CMPR", ok, eq, above)
    BY <1>3 DEF execCMPR
  <2>3. ok \in BOOLEAN /\ eq \in BOOLEAN /\ above \in BOOLEAN
    BY NibbleOperands DEF isRegValid
  <2>4. ok => regs[IP] + 1 < CodeSize
    BY NibbleOperands
  <2> HIDE DEF ok, eq, above
  <2> QED
    BY <2>1, <2>2, <2>3, <2>4, CompareStep
<1>4. CASE execJMPI
  <2>1. "JMPI" \in Ops /\ isJump("JMPI")
    BY <1>0 DEF IMMONLY, isJump
  <2> QED
    BY <2>1, <1>4, OneOperand, ControlTyped, JumpStep DEF execJMPI, JumpImm
<1>5. CASE execJPAI
  <2>1. "JPAI" \in Ops /\ isJump("JPAI")
    BY <1>0 DEF IMMONLY, isJump
  <2> QED
    BY <2>1, <1>5, OneOperand, ControlTyped, JumpStep DEF execJPAI, JumpImm
<1>6. CASE execJPBI
  <2>1. "JPBI" \in Ops /\ isJump("JPBI")
    BY <1>0 DEF IMMONLY, isJump
  <2> QED
    BY <2>1, <1>6, OneOperand, ControlTyped, JumpStep DEF execJPBI, JumpImm
<1>7. CASE execJPEI
  <2>1. "JPEI" \in Ops /\ isJump("JPEI")
    BY <1>0 DEF IMMONLY, isJump
  <2> QED
    BY <2>1, <1>7, OneOperand, ControlTyped, JumpStep DEF execJPEI, JumpImm
<1>8. CASE execJPNI
  <2>1. "JPNI" \in Ops /\ isJump("JPNI")
    BY <1>0 DEF IMMONLY, isJump
  <2> QED
    BY <2>1, <1>8, OneOperand, ControlTyped, JumpStep DEF execJPNI, JumpImm
<1>9. CASE execJMPR
  <2>1. "JMPR" \in Ops /\ isJump("JMPR") /\ "JMPR" \notin IMMONLY
    BY <1>0 DEF REGONLY, IMMONLY, isJump
  <2>2. (OneArg /\ isRegValid(RegArg)) \in BOOLEAN
    BY OneOperand DEF isRegValid
  <2> QED
    BY <2>1, <2>2, <1>9, OneOperand, ControlTyped, JumpStep
    DEF execJMPR
<1>10. CASE execJPAR
  <2>1. "JPAR" \in Ops /\ isJump("JPAR") /\ "JPAR" \notin IMMONLY
    BY <1>0 DEF REGONLY, IMMONLY, isJump
  <2>2. (OneArg /\ isRegValid(RegArg)) \in BOOLEAN
    BY OneOperand DEF isRegValid
  <2> QED
    BY <2>1, <2>2, <1>10, OneOperand, ControlTyped, JumpStep
    DEF execJPAR, JumpReg
<1>11. CASE execJPBR
  <2>1. "JPBR" \in Ops /\ isJump("JPBR") /\ "JPBR" \notin IMMONLY
    BY <1>0 DEF REGONLY, IMMONLY, isJump
  <2>2. (OneArg /\ isRegValid(RegArg)) \in BOOLEAN
    BY OneOperand DEF isRegValid
  <2> QED
    BY <2>1, <2>2, <1>11, OneOperand, ControlTyped, JumpStep
    DEF execJPBR, JumpReg
<1>12. CASE execJPER
  <2>1. "JPER" \in Ops /\ isJump("JPER") /\ "JPER" \notin IMMONLY
    BY <1>0 DEF REGONLY, IMMONLY, isJump
  <2>2. (OneArg /\ isRegValid(RegArg)) \in BOOLEAN
    BY OneOperand DEF isRegValid
  <2> QED
    BY <2>1, <2>2, <1>12, OneOperand, ControlTyped, JumpStep
    DEF execJPER, JumpReg
<1>13. CASE execJPNR
  <2>1. "JPNR" \in Ops /\ isJump("JPNR") /\ "JPNR" \notin IMMONLY
    BY <1>0 DEF REGONLY, IMMONLY, isJump
  <2>2. (OneArg /\ isRegValid(RegArg)) \in BOOLEAN
    BY OneOperand DEF isRegValid
  <2> QED
    BY <2>1, <2>2, <1>13, OneOperand, ControlTyped, JumpStep
    DEF execJPNR, JumpReg
<1>14. CASE execSHIT
  <2>1. "SHIT" \in Plain
    BY <1>c
  <2>2. "SHIT" \in Ops /\ Leads("SHIT", regs)
    BY <2>1, PlainLeads
  <2> QED
    BY <2>2, <1>14, <1>b, ExecuteStep DEF execSHIT
<1>15. CASE execNOPE
  <2>1. "NOPE" \in Plain
    BY <1>c
  <2>2. "NOPE" \in Ops /\ Leads("NOPE", regs)
    BY <2>1, PlainLeads
  <2> QED
    BY <2>2, <1>15, <1>b, ExecuteStep DEF execNOPE
<1>16. CASE execDEBG
  <2>1. "DEBG" \in Plain
    BY <1>0, <1>c, <1>16 DEF execDEBG, SINGLE
  <2>2. "DEBG" \in Ops /\ Leads("DEBG", regs)
    BY <2>1, PlainLeads
  <2> QED
    BY <2>2, <1>16, <1>b, ExecuteStep DEF execDEBG
<1> QED
  BY <1>1, <1>2, <1>3, <1>4, <1>5, <1>6, <1>7, <1>8, <1>9, <1>10, <1>11,
     <1>12, <1>13, <1>14, <1>15, <1>16 DEF Control

(* A word pushed: by PUSH, or by CALL together with RP and IP.             *)
LEMMA PushedWord ==
  ASSUME VMTypeOK, StackHasRoom, NEW w \in Word
  PROVE  LET m == PutWord(StackBase + regs[SP], w)
             a == StackBase + regs[SP]
         IN  /\ m \in Memory
             /\ \A x \in Address : m[x] # mem[x] => x \in StackSection
             /\ MkWord(m[a], m[a + 1]) = w
             /\ \A x \in StackSection : x < a => m[x] = mem[x]
<1> DEFINE a == StackBase + regs[SP]
<1>1. /\ a \in Address /\ a + 1 \in Address
      /\ a \in StackSection /\ a + 1 \in StackSection
  BY StackAddress
<1> HIDE DEF a
<1>2. /\ PutWord(a, w) \in Memory
      /\ \A x \in Address : x \notin {a, a + 1} => PutWord(a, w)[x] = mem[x]
      /\ MkWord(PutWord(a, w)[a], PutWord(a, w)[a + 1]) = w
  BY <1>1, PutWordTyped
<1>3. \A x \in Address : PutWord(a, w)[x] # mem[x] => x \in StackSection
  BY <1>1, <1>2
<1>4. \A x \in StackSection : x < a => PutWord(a, w)[x] = mem[x]
  <2>1. a \in Nat
    BY <1>1, Places DEF Address
  <2>2. \A x \in StackSection : x \in Nat
    BY Places, Sizes DEF StackSection
  <2> QED
    BY <1>2, <2>1, <2>2, StackApart
<1> QED
  BY <1>2, <1>3, <1>4 DEF a

LEMMA SPMoves ==
  ASSUME VMTypeOK
  PROVE  Trunc(regs[SP] + 2) \in Word /\ Trunc(regs[SP] - 2) \in Word
<1>1. regs[SP] + 2 \in Int /\ regs[SP] - 2 \in Int
  BY RegisterWord, RegNumbers, WordIs
<1> QED
  BY <1>1, TruncWord

LEMMA StackOpsStep == VMInv /\ StackOps => Good
<1> SUFFICES ASSUME VMInv, StackOps PROVE Good
  OBVIOUS
<1> USE DEF VMInv
<1>0. /\ {"PUSH", "POOP", "CALL", "RETN"} \subseteq Ops
      /\ regs \in RegFile /\ regs[RP] \in Word
      /\ Trunc(regs[SP] + 2) \in Word /\ Trunc(regs[SP] - 2) \in Word
  BY SPMoves, RegisterWord, RegNumbers
  DEF Ops, REGONLY, IMMONLY, SINGLE, RegFile, VMTypeOK
<1>p. {"PUSH", "POOP"} \subseteq Plain /\ "RETN" \notin IMMONLY
      /\ isJump("CALL") /\ isJump("RETN") /\ "CALL" \in IMMONLY
  BY <1>0 DEF Plain, isJump, IMMONLY
<1>1. CASE execPUSH
  <2> DEFINE ok == OneArg /\ isRegValid(RegArg) /\ StackHasRoom
             r == [regs EXCEPT ![SP] = Trunc(@ + 2)]
             m == PutWord(StackBase + regs[SP], regs[RegArg])
  <2>1. Execute("PUSH", ok, r, m)
    BY <1>1 DEF execPUSH
  <2>2. ok \in BOOLEAN
    BY OneOperand DEF isRegValid, StackHasRoom
  <2>3. ASSUME ok PROVE Allowed(r, m) /\ Leads("PUSH", r)
    <3>1. regs[RegArg] \in Word /\ ~(regs[IP] >= CodeSize - 1)
      BY <2>3, OneOperand, InsideCode
    <3>2. /\ m \in Memory
          /\ \A x \in Address : m[x] # mem[x] => x \in StackSection
          /\ \A x \in StackSection :
               x < StackBase + regs[SP] => m[x] = mem[x]
      BY <2>3, <3>1, PushedWord
    <3>3. /\ r \in RegFile /\ r[RP] = regs[RP] /\ r[IP] = regs[IP]
          /\ r[SP] = Trunc(regs[SP] + 2)
      BY <1>0, RegNumbers DEF RegFile
    <3>4. StackHasRoom /\ Trunc(regs[SP] + 2) = regs[SP] + 2
      BY <2>3, StackAddress
    <3> HIDE DEF r, m
    <3>5. StackKept(r, m)
      BY <3>2, <3>3, <3>4 DEF StackKept
    <3>6. Leads("PUSH", r)
      BY <1>p, <3>3, PlainLeads
    <3> QED
      BY <3>1, <3>2, <3>3, <3>5, <3>6 DEF Allowed, RPInCode
  <2> HIDE DEF ok, r, m
  <2> QED
    BY <1>0, <2>1, <2>2, <2>3, ExecuteStep
<1>2. CASE execPOOP
  <2> DEFINE ok == OneArg /\ isRegValid(RegArg)
             sp == Trunc(regs[SP] - 2)
             top == StackBase + sp
             r == [regs EXCEPT ![SP] = sp, ![RegArg] = GetWord(top)]
  <2>1. CASE (ok => top + 1 \in Address) /\ Execute("POOP", ok, r, mem)
    <3>1. ok \in BOOLEAN
      BY OneOperand DEF isRegValid
    <3>2. ASSUME ok PROVE Allowed(r, mem) /\ Leads("POOP", r)
      <4>1. top \in Address /\ top + 1 \in Address
        BY <1>0, <2>1, <3>2, Places, WordIs DEF Address
      <4>2. GetWord(top) \in Word
        BY <4>1, GetWordTyped
      <4>3. RegArg \in 0 .. FLAGS /\ RegArg \notin {IP, RP, SP}
        BY <3>2, OneOperand, ValidRegister
      <4>4. /\ r \in RegFile /\ r[RP] = regs[RP] /\ r[SP] = sp
            /\ r[IP] = regs[IP]
        BY <1>0, <4>2, <4>3, RegNumbers DEF RegFile
      <4>5. ~(regs[IP] >= CodeSize - 1)
        BY <3>2, OneOperand, InsideCode
      <4> HIDE DEF r
      <4> QED
        BY <1>p, <4>4, <4>5, RegistersAllowed, PlainLeads
    <3> HIDE DEF ok, r
    <3> QED
      BY <1>0, <2>1, <3>1, <3>2, ExecuteStep
  <2>2. CASE /\ ok /\ regs' = [regs EXCEPT ![SP] = sp]
             /\ status = "running" /\ status' = "crashed"
             /\ instr_p' = NULL /\ mem' = mem
    <3>1. ~(regs[IP] >= CodeSize - 1)
      BY <2>2, OneOperand, InsideCode
    <3>2. regs' \in RegFile /\ regs'[RP] = regs[RP] /\ regs'[SP] = sp
      BY <1>0, <2>2, RegNumbers DEF RegFile
    <3>3. VMTypeOK' /\ RPInCode'
      BY <2>2, <3>2 DEF VMTypeOK, RegFile, RPInCode
    <3>4. StackStep
      BY <2>2, <3>2 DEF StackStep, StackKept
    <3> QED
      BY <2>2, <3>1, <3>2, <3>3, <3>4
      DEF Good, IsolatedStep, ControlStep, OutsideStep, FlowStep
  <2> QED
    BY <1>2, <2>1, <2>2 DEF execPOOP, Selects
<1>3. CASE execCALL
  <2> DEFINE ret == regs[IP] + 3
             ok == OneArg /\ StackHasRoom /\ ret < CodeSize
             r == [regs EXCEPT ![RP] = ret, ![SP] = Trunc(@ + 2), ![IP] = ImmArg]
             m == PutWord(StackBase + regs[SP], ret)
  <2>1. Execute("CALL", ok, r, m)
    BY <1>3 DEF execCALL
  <2>2. ok \in BOOLEAN
    BY OneOperand DEF StackHasRoom
  <2>3. ASSUME ok PROVE Allowed(r, m) /\ Leads("CALL", r)
    <3>1. regs[IP] \in Nat
      BY RegisterWord, RegNumbers, WordIs
    <3>2. ret \in Word
      BY <2>3, <3>1, Sizes, WordSizeIs, WordIs
    <3>3. ImmArg \in Word /\ ~(regs[IP] >= CodeSize - 1)
      BY <2>3, OneOperand, InsideCode
    <3>4. ret < CodeSize /\ StackHasRoom
      BY <2>3
    <3> HIDE DEF ret
    <3>5. LET a == StackBase + regs[SP] IN
          /\ m \in Memory
          /\ \A x \in Address : m[x] # mem[x] => x \in StackSection
          /\ MkWord(m[a], m[a + 1]) = ret
          /\ \A x \in StackSection : x < a => m[x] = mem[x]
      BY <3>2, <3>4, PushedWord
    <3>6. /\ r \in RegFile /\ r[RP] = ret /\ r[IP] = ImmArg
          /\ r[SP] = Trunc(regs[SP] + 2)
      BY <1>0, <3>2, <3>3, RegNumbers DEF RegFile
    <3>7. Trunc(regs[SP] + 2) = regs[SP] + 2
      BY <3>4, StackAddress
    <3> HIDE DEF r, m
    <3>8. StackKept(r, m)
      BY <3>4, <3>5, <3>6, <3>7 DEF StackKept
    <3>9. Leads("CALL", r)
      BY <1>p, <3>6 DEF Leads, ret
    <3> QED
      BY <3>3, <3>4, <3>5, <3>6, <3>7, <3>8, <3>9 DEF Allowed
  <2> HIDE DEF ok, r, m
  <2> QED
    BY <1>0, <2>1, <2>2, <2>3, ExecuteStep
<1>4. CASE execRETN
  <2> DEFINE r == [regs EXCEPT ![SP] = Trunc(@ - 2), ![IP] = regs[RP]]
  <2>1. Execute("RETN", TRUE, r, mem)
    BY <1>4 DEF execRETN
  <2>2. /\ r \in RegFile /\ r[RP] = regs[RP] /\ r[SP] = Trunc(regs[SP] - 2)
        /\ r[IP] = regs[RP]
        /\ \A n \in R0 .. S3 \cup {RP, FLAGS} : r[n] = regs[n]
    BY <1>0, RegNumbers DEF RegFile
  <2> HIDE DEF r
  <2>3. Allowed(r, mem)
    BY <2>2, RegistersAllowed
  <2>4. Leads("RETN", r)
    BY <1>p, <2>2 DEF Leads
  <2> QED
    BY <1>0, <2>1, <2>3, <2>4, ExecuteStep
<1> QED
  BY <1>1, <1>2, <1>3, <1>4 DEF StackOps

(* The ways out of the loop that belong to no instruction.                 *)
LEMMA FaultStep == VMInv /\ (FetchFault \/ UnknownOpcode) => Good
  BY DEF VMInv, FetchFault, UnknownOpcode, Good, VMTypeOK, RPInCode, IsolatedStep,
         ControlStep, OutsideStep, StackStep, StackKept, FlowStep

LEMMA IterateStep == VMInv /\ Iterate => Good
  BY TransferStep, ArithmeticStep, ControlStepGood, StackOpsStep, FaultStep
  DEF Iterate

-----------------------------------------------------------------------------
(* The program around the machine.                                         *)

(* A buffer is copied to the start of a section, or refused.               *)
LEMMA InsertTyped ==
  ASSUME NEW m \in Memory, NEW base \in Nat, NEW size \in Nat,
         NEW buf \in Seq(Byte)
  PROVE  /\ insert(m, base, size, buf) \in Memory
         /\ \A a \in Address : insert(m, base, size, buf)[a] # m[a]
              => a \in base .. base + size - 1
<1>1. CASE Len(buf) > size
  BY <1>1 DEF insert
<1>2. CASE ~(Len(buf) > size)
  <2>1. Len(buf) \in Nat /\ Len(buf) <= size
    BY <1>2
  <2>2. \A a \in Address : a \in base .. base + Len(buf) - 1 =>
          buf[a - base + 1] \in Byte /\ a \in base .. base + size - 1
    BY <2>1 DEF Address
  <2> QED
    BY <1>2, <2>2 DEF insert, Memory
<1> QED
  BY <1>1, <1>2

LEMMA SectionsTyped ==
  ASSUME NEW m \in Memory, NEW buf \in Seq(Byte)
  PROVE  /\ {insCode(m, buf), insData(m, buf), insStack(m, buf)} \subseteq Memory
         /\ \A a \in Address :
              /\ insCode(m, buf)[a] # m[a] => a \in CodeSection
              /\ insData(m, buf)[a] # m[a] => a \in DataSection
              /\ insStack(m, buf)[a] # m[a] => a \in StackSection
<1>1. insCode(m, buf) \in Memory
      /\ \A a \in Address : insCode(m, buf)[a] # m[a] => a \in CodeSection
  BY InsertTyped, Sizes, Places DEF insCode, CodeSection
<1>2. insData(m, buf) \in Memory
      /\ \A a \in Address : insData(m, buf)[a] # m[a] => a \in DataSection
  BY InsertTyped, Sizes, Places DEF insData, DataSection
<1>3. insStack(m, buf) \in Memory
      /\ \A a \in Address : insStack(m, buf)[a] # m[a] => a \in StackSection
  BY InsertTyped, Sizes, Places DEF insStack, StackSection
<1> QED
  BY <1>1, <1>2, <1>3

LEMMA RunStep == VMInv /\ run => Good
  BY DEF VMInv, run, Good, VMTypeOK, RPInCode, IsolatedStep, ControlStep,
         OutsideStep, StackStep, StackKept, FlowStep

(* A new machine.                                                          *)
LEMMA NewMachine ==
  ASSUME NEW code \in Seq(Byte), constructed(code)
  PROVE  VMInv /\ regs[IP] = 0 /\ regs[RP] = 0 /\ regs[SP] = 0
<1>1. PICK heap \in Heaps : mem = insCode(allocate(heap), code)
  BY DEF constructed
<1>2. allocate(heap) \in Memory
  BY HeapsAssumption, ByteIs DEF allocate, Memory
<1>3. mem \in Memory
  BY <1>1, <1>2, SectionsTyped
<1>4. PICK w \in FlagWords :
        regs = [n \in 0 .. FLAGS |-> IF n = FLAGS THEN w ELSE 0]
  BY DEF constructed
<1>5. w \in Word /\ 0 \in Word
  BY ObjectAssumption, WordIs, WordSizeIs
<1>6. regs \in RegFile /\ regs[IP] = 0 /\ regs[RP] = 0 /\ regs[SP] = 0
  BY <1>4, <1>5, RegNumbers DEF RegFile
<1>7. VMTypeOK
  BY <1>3, <1>6 DEF constructed, VMTypeOK, Memory, RegFile
<1>8. RPInCode
  BY <1>6, Sizes DEF RPInCode
<1> QED
  BY <1>6, <1>7, <1>8 DEF VMInv
=============================================================================
