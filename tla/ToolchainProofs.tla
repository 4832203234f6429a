-------------------------- MODULE ToolchainProofs --------------------------
(***************************************************************************)
(* The machine executes the text the assembler was given: proofs about     *)
(* Toolchain.                                                              *)
(***************************************************************************)
EXTENDS Toolchain, AssemblerProofs, VMProofs

(* Nothing has run yet.                                                    *)
Resting == status = "idle" /\ regs[IP] = 0 /\ regs[RP] = 0

Fits == Len(assembled_code) <= CodeSize
Loaded == \A k \in 1 .. Len(assembled_code) : Code(k - 1) = assembled_code[k]

(* Where an instruction of the text was put, or behind all of them.        *)
Boundary(a) == a >= Len(assembled_code) \/ \E p \in placed : p.at = a

(* The inductive invariant: RP is as good as IP, since RETN goes there.    *)
Bounded == OnlySymbolJumps => Boundary(regs[IP]) /\ Boundary(regs[RP])
Embedded ==
  /\ stage \in {"loaded", "started"} /\ pc = "exited"
  /\ Typed /\ Finished
  /\ stage = "loaded" => Resting
  /\ Fits => Loaded
  /\ Fits /\ ~strayed /\ status # "crashed" => Bounded
TInv ==
  /\ VMInv /\ source \in Sources
  /\ (stage = "assembling" /\ IInv /\ Resting) \/ Embedded

-----------------------------------------------------------------------------
(* The two tables of sizes.                                                *)

LEMMA SameLengths ==
  \A op \in Ops : op \notin RegisterJumps => length(op) = ops_sizes(method(op))
<1> SUFFICES ASSUME NEW op \in Ops, op \notin RegisterJumps
             PROVE  length(op) = ops_sizes(method(op))
  OBVIOUS
<1>1. op \notin {"JMPR", "JPAR", "JPBR", "JPER", "JPNR"}
  BY DEF RegisterJumps, jumps, ToImmediate
<1>2. CASE op \in IMM2REG
  <2>1. length(op) = 4
    BY <1>2 DEF length, IMM2REG, BYT2REG, IMMONLY, REG2REG, REGONLY, SINGLE
  <2>2. method(op) \in {"imm2reg", "reg2imm"}
    BY <1>2 DEF method, jumps, IMM2REG
  <2> QED
    BY <2>1, <2>2 DEF ops_sizes
<1>3. CASE op \in BYT2REG
  <2>1. length(op) = 3
    BY <1>3 DEF length, IMM2REG, BYT2REG, IMMONLY, REG2REG, REGONLY, SINGLE
  <2>2. method(op) \in {"byt2reg"}
    BY <1>3 DEF method, jumps, BYT2REG
  <2> QED
    BY <2>1, <2>2 DEF ops_sizes
<1>4. CASE op \in IMMONLY
  <2>1. length(op) = 3
    BY <1>4 DEF length, IMM2REG, BYT2REG, IMMONLY, REG2REG, REGONLY, SINGLE
  <2>2. method(op) \in {"jump"}
    BY <1>4 DEF method, jumps, IMMONLY
  <2> QED
    BY <2>1, <2>2 DEF ops_sizes
<1>5. CASE op \in REG2REG
  <2>1. length(op) = 2
    BY <1>5 DEF length, IMM2REG, BYT2REG, IMMONLY, REG2REG, REGONLY, SINGLE
  <2>2. method(op) \in {"reg2reg"}
    BY <1>5 DEF method, jumps, REG2REG
  <2> QED
    BY <2>1, <2>2 DEF ops_sizes
<1>6. CASE op \in REGONLY
  <2>1. length(op) = 2
    BY <1>6 DEF length, IMM2REG, BYT2REG, IMMONLY, REG2REG, REGONLY, SINGLE
  <2>2. method(op) \in {"regonly"}
    BY <1>6, <1>1 DEF method, jumps, REGONLY
  <2> QED
    BY <2>1, <2>2 DEF ops_sizes
<1>7. CASE op \in SINGLE
  <2>1. length(op) = 1
    BY <1>7, DBGAssumption DEF length, IMM2REG, BYT2REG, IMMONLY, REG2REG, REGONLY, SINGLE
  <2>2. method(op) \in {"single"}
    BY <1>7, DBGAssumption DEF method, jumps, SINGLE
  <2> QED
    BY <2>1, <2>2 DEF ops_sizes
<1> QED
  BY <1>2, <1>3, <1>4, <1>5, <1>6, <1>7 DEF Ops

(* Jumps and returns are the only instructions that set IP themselves.     *)
LEMMA KindsOfOps ==
  \A op \in Ops : \/ ~ isJump(op) \/ op \in IMMONLY \/ op = "RETN"
                  \/ op \in RegisterJumps
  BY DEF isJump, IMMONLY, RegisterJumps, jumps, ToImmediate

LEMMA ImmediateOps == \A op : op \in IMMONLY <=> ToImmediate(op)
  BY DEF IMMONLY, ToImmediate

-----------------------------------------------------------------------------
(* What the machine reads where an instruction was put.                    *)

LEMMA CodeRead ==
  ASSUME Typed, Loaded, NEW p \in placed, Emitted(p)
  PROVE  LET i == instruction(p) IN
         /\ i \in SmallInstruction /\ i.name \in Ops /\ Encodable(i)
         /\ p.at \in Nat /\ p.at < Len(assembled_code)
         /\ Code(p.at) = opcodes[i.name]
         /\ \A k \in 1 .. Len(Operands(i)) : Code(p.at + k) = Operands(i)[k]
<1> DEFINE i == instruction(p)
           b == opcodes[i.name]
           s == Operands(i)
           e == Encoding(i)
<1>1. /\ p.at \in Nat /\ assembled_code \in Seq(Byte)
      /\ functions \in Seq(SmallFunction)
  BY DEF Typed
<1>2. i \in SmallInstruction /\ Encodable(i)
  BY <1>1, FunctionsAre DEF Emitted, instruction
<1>3. \A k \in 1 .. Len(e) : /\ p.at + k <= Len(assembled_code)
                             /\ assembled_code[p.at + k] = e[k]
  BY DEF Emitted
<1> HIDE DEF i
<1>4. i.name \in Ops
  BY <1>2 DEF SmallInstruction, Instruction
<1>5. b \in Byte /\ s \in Seq(Byte) /\ e = <<b>> \o s
  BY <1>2, <1>4, OpcodesAssumption, OperandsAre DEF Encoding
<1> HIDE DEF b, s, e
<1>6. /\ Len(e) = 1 + Len(s) /\ Len(s) \in Nat /\ e[1] = b
      /\ \A k \in 1 .. Len(s) : e[1 + k] = s[k]
  <2>1. <<b>> \in Seq(Byte) /\ Len(<<b>>) = 1 /\ <<b>>[1] = b
    BY <1>5
  <2>2. /\ Len(e) = 1 + Len(s)
        /\ \A k \in 1 .. 1 + Len(s) :
             e[k] = IF k <= 1 THEN <<b>>[k] ELSE s[k - 1]
    BY <1>5, <2>1, ConcatProperties
  <2>3. Len(s) \in Nat
    BY <1>5
  <2>4. \A k \in 1 .. Len(s) : 1 + k \in 1 .. 1 + Len(s) /\ ~ (1 + k <= 1)
                               /\ (1 + k) - 1 = k
    BY <2>3
  <2> QED
    BY <2>1, <2>2, <2>3, <2>4
<1>7. ASSUME NEW k \in 1 .. Len(e)
      PROVE  Code(p.at + k - 1) = e[k] /\ p.at < Len(assembled_code)
  <2>1. p.at + k \in 1 .. Len(assembled_code) /\ p.at + k - 1 = (p.at + k) - 1
    BY <1>1, <1>3, <1>6
  <2>2. Code(p.at + k - 1) = assembled_code[p.at + k]
    BY <2>1 DEF Loaded
  <2> QED
    BY <1>1, <1>3, <1>6, <2>1, <2>2
<1>8. Code(p.at) = b /\ p.at < Len(assembled_code)
  <2>1. 1 \in 1 .. Len(e) /\ p.at + 1 - 1 = p.at
    BY <1>1, <1>6
  <2> QED
    BY <1>6, <1>7, <2>1
<1>9. ASSUME NEW k \in 1 .. Len(s) PROVE Code(p.at + k) = s[k]
  <2>1. 1 + k \in 1 .. Len(e) /\ p.at + (1 + k) - 1 = p.at + k
    BY <1>1, <1>6
  <2> QED
    BY <1>6, <1>7, <2>1
<1> QED
  BY <1>1, <1>2, <1>4, <1>8, <1>9 DEF i, b, s

LEMMA WordRead ==
  ASSUME NEW n \in Nat, NEW w \in Word,
         Code(n) = LoByte(w), Code(n + 1) = HiByte(w)
  PROVE  CodeWord(n) = w
<1>1. CodeBase + (n + 1) = CodeBase + n + 1
  BY Places
<1>2. mem[CodeBase + n] = LoByte(w) /\ mem[CodeBase + n + 1] = HiByte(w)
  BY <1>1 DEF Code
<1> QED
  BY <1>2, HalvesMakeWord DEF CodeWord, GetWord

(* What the nibbles of a byte give back.                                   *)
LEMMA NibblesRead ==
  ASSUME NEW a \in 0 .. 15, NEW b \in 0 .. 15
  PROVE  HiNibble(16 * a + b) = a /\ LoNibble(16 * a + b) = b
  BY DEF HiNibble, LoNibble

(* The operands of every coding: a register that still has its number is   *)
(* emitted as that.                                                        *)
LEMMA OperandsRead ==
  ASSUME NEW i \in SmallInstruction, Encodable(i), NEW n \in Nat, regs[IP] = n,
         \A k \in 1 .. Len(Operands(i)) : Code(n + k) = Operands(i)[k],
         i.name \notin RegisterJumps, Numbered
  PROVE  Decodes(i)
<1> DEFINE a == i.args
           m == method(i.name)
           s == Operands(i)
<1>1. i.name \in Ops /\ a \in Seq(Operand)
  BY DEF SmallInstruction, Instruction
<1>2. m \in Codings
  BY <1>1, MethodCodings
<1>3. ASSUME NEW k \in {1, 2}, Len(a) >= k
      PROVE  value(a[k]) = a[k].num
  <2>1. k \in DOMAIN a
    BY <1>1, <1>3
  <2>2. CASE a[k].kind = "reg"
    <3>1. a[k].num \in places
      BY <2>1, <2>2 DEF SmallInstruction, Small
    <3> QED
      BY <2>2, <3>1 DEF value, Numbered
  <2>3. CASE a[k].kind # "reg"
    BY <2>3 DEF value
  <2> QED
    BY <2>2, <2>3
<1>4. ASSUME NEW k \in {1, 2}, Len(a) >= k, reg8(a[k]), m # "jump"
      PROVE  a[k].num \in 0 .. 15
  <2>1. k \in DOMAIN a
    BY <1>1, <1>4
  <2>2. i.name \notin jumps
    BY <1>1, <1>4, JumpCoding
  <2>3. in_regs(casefold(a[k].name))
    BY <1>4 DEF reg8, isreg
  <2>4. a[k].num \in places
    BY <2>1, <2>2, <2>3, RegisterOperand
  <2>5. places \subseteq 0 .. 15
    BY DEF places, reg_names
  <2> QED
    BY <2>4, <2>5
<1>5. Len(a) \in Nat /\ \A k : k \in {1, 2} /\ Len(a) >= k => value(a[k]) = a[k].num
  BY <1>1, <1>3
<1>6. ASSUME NEW w \in Word
      PROVE  /\ LoByte(w) \in Byte /\ HiByte(w) \in Byte
             /\ WordBytes(w) = <<LoByte(w), HiByte(w)>>
  BY HalvesByte DEF WordBytes
<1>7. \A k \in 1 .. Len(s) : Code(n + k) = s[k]
  OBVIOUS
<1> HIDE DEF a, m, s
<1>8. CASE m = "imm2reg"
  <2> DEFINE x == a[1].num
             w == a[2].num
  <2>1. Len(a) >= 2 /\ reg8(a[1]) /\ value(a[2]) \in Word
    BY <1>8 DEF Encodable, uint16, a, m
  <2>2. value(a[1]) = x /\ value(a[2]) = w
    BY <1>5, <2>1
  <2>3. x \in Byte /\ w \in Word
    BY <2>1, <2>2 DEF reg8, uint8
  <2>4. s = <<x>> \o WordBytes(w)
    BY <1>8, <2>2 DEF Operands, a, m, s
  <2> HIDE DEF x, w
  <2>5. s = <<x>> \o <<LoByte(w), HiByte(w)>>
    BY <1>6, <2>3, <2>4
  <2>6. Len(s) = 3 /\ s[1] = x /\ s[2] = LoByte(w) /\ s[3] = HiByte(w)
    BY <1>6, <2>3, <2>5
  <2>7. Code(n + 1) = x /\ Code(n + 2) = LoByte(w) /\ Code(n + 3) = HiByte(w)
    BY <1>7, <2>6
  <2>8. CodeWord(n + 2) = w
    <3>1. n + 2 \in Nat /\ (n + 2) + 1 = n + 3
      OBVIOUS
    <3> QED
      BY <2>3, <2>7, <3>1, WordRead
  <2>9. ImmDst = a[1].num /\ ImmSrc = a[2].num
    BY <2>7, <2>8 DEF ImmDst, ImmSrc, x, w
  <2> QED
    BY <1>8, <2>9 DEF Decodes, a, m
<1>9. CASE m = "byt2reg"
  <2>1. Len(a) >= 2
    BY <1>9 DEF Encodable, a, m
  <2>2. value(a[1]) = a[1].num /\ value(a[2]) = a[2].num
    BY <1>5, <2>1
  <2>3. s = <<a[1].num, a[2].num>>
    BY <1>9, <2>2 DEF Operands, a, m, s
  <2>4. Code(n + 1) = a[1].num /\ Code(n + 2) = a[2].num
    BY <1>7, <2>3
  <2>5. ByteDst = a[1].num /\ ByteSrc = a[2].num
    BY <2>4 DEF ByteDst, ByteSrc
  <2> QED
    BY <1>9, <2>5 DEF Decodes, a, m
<1>10. CASE m = "reg2reg"
  <2> DEFINE x == a[1].num
             y == a[2].num
  <2>1. Len(a) >= 2 /\ reg8(a[1]) /\ reg8(a[2])
    BY <1>10 DEF Encodable, a, m
  <2>2. value(a[1]) = x /\ value(a[2]) = y
    BY <1>5, <2>1
  <2>3. x \in 0 .. 15 /\ y \in 0 .. 15
    BY <1>4, <1>5, <1>10, <2>1
  <2>4. s = <<16 * x + (y % 16)>>
    BY <1>10, <2>2 DEF Operands, a, m, s
  <2> HIDE DEF x, y
  <2>5. s = <<16 * x + y>>
    BY <2>3, <2>4
  <2>6. Code(n + 1) = 16 * x + y
    BY <1>7, <2>5
  <2>7. NibbleDst = x /\ NibbleSrc = y
    BY <2>3, <2>6, NibblesRead DEF NibbleDst, NibbleSrc
  <2> QED
    BY <1>10, <2>7 DEF Decodes, a, m, x, y
<1>11. CASE m = "reg2imm"
  <2> DEFINE w == a[1].num
             y == a[2].num
  <2>1. Len(a) >= 2 /\ value(a[1]) \in Word /\ reg8(a[2])
    BY <1>11 DEF Encodable, uint16, a, m
  <2>2. value(a[1]) = w /\ value(a[2]) = y
    BY <1>5, <2>1
  <2>3. w \in Word /\ y \in Byte
    BY <2>1, <2>2 DEF reg8, uint8
  <2>4. s = WordBytes(w) \o <<y>>
    BY <1>11, <2>2 DEF Operands, a, m, s
  <2> HIDE DEF w, y
  <2>5. s = <<LoByte(w), HiByte(w)>> \o <<y>>
    BY <1>6, <2>3, <2>4
  <2>6. Len(s) = 3 /\ s[1] = LoByte(w) /\ s[2] = HiByte(w) /\ s[3] = y
    BY <1>6, <2>3, <2>5
  <2>7. Code(n + 1) = LoByte(w) /\ Code(n + 2) = HiByte(w) /\ Code(n + 3) = y
    BY <1>7, <2>6
  <2>8. CodeWord(n + 1) = w
    <3>1. n + 1 \in Nat /\ (n + 1) + 1 = n + 2
      OBVIOUS
    <3> QED
      BY <2>3, <2>7, <3>1, WordRead
  <2>9. StoreDst = a[1].num /\ StoreSrc = a[2].num
    BY <2>7, <2>8 DEF StoreDst, StoreSrc, w, y
  <2> QED
    BY <1>11, <2>9 DEF Decodes, a, m
<1>12. CASE m = "regonly"
  <2>1. Len(a) >= 1
    BY <1>12 DEF Encodable, a, m
  <2>2. value(a[1]) = a[1].num
    BY <1>5, <2>1
  <2>3. s = <<a[1].num>>
    BY <1>12, <2>2 DEF Operands, a, m, s
  <2>4. Code(n + 1) = a[1].num
    BY <1>7, <2>3
  <2>5. RegArg = a[1].num
    BY <2>4 DEF RegArg
  <2> QED
    BY <1>12, <2>5 DEF Decodes, a, m
<1>13. CASE m = "jump"
  <2> DEFINE w == a[1].num
  <2>1. ToImmediate(i.name)
    <3>1. i.name \in jumps
      BY <1>1, <1>13, JumpCoding DEF m
    <3> QED
      BY <3>1, Zenon DEF RegisterJumps
  <2>2. Len(a) >= 1 /\ value(a[1]) \in Word /\ s = WordBytes(value(a[1]))
    BY <1>13, <2>1 DEF Encodable, Operands, uint16, a, m, s
  <2>3. w \in Word /\ s = WordBytes(w)
    BY <1>5, <2>2
  <2> HIDE DEF w
  <2>4. Len(s) = 2 /\ s[1] = LoByte(w) /\ s[2] = HiByte(w)
    BY <1>6, <2>3
  <2>5. Code(n + 1) = LoByte(w) /\ Code(n + 2) = HiByte(w)
    BY <1>7, <2>4
  <2>6. CodeWord(n + 1) = w
    <3>1. n + 1 \in Nat /\ (n + 1) + 1 = n + 2
      OBVIOUS
    <3> QED
      BY <2>3, <2>5, <3>1, WordRead
  <2>7. ImmArg = a[1].num
    BY <2>6 DEF ImmArg, w
  <2> QED
    BY <1>13, <2>7 DEF Decodes, a, m
<1>14. CASE m = "single"
  BY <1>14 DEF Decodes, m
<1> QED
  BY <1>2, <1>8, <1>9, <1>10, <1>11, <1>12, <1>13, <1>14 DEF Codings

(* Where every jump goes to a symbol, no register is shared with one.      *)
LEMMA RegistersKept ==
  ASSUME Typed, Finished, OnlySymbolJumps
  PROVE  NoRegisterJumps /\ Numbered
<1>1. NoRegisterJumps
  BY DEF OnlySymbolJumps
<1>2. ASSUME NEW n \in 1 .. Len(functions),
             NEW m \in 1 .. Len(functions[n].instructions),
             symcall(functions[n].instructions[m])
      PROVE  functions[n].instructions[m].args[1].kind # "reg"
  <2> DEFINE i == functions[n].instructions[m]
  <2>1. n \in DOMAIN functions /\ m \in DOMAIN functions[n].instructions
    BY FunctionsAre DEF Typed
  <2>2. i.name \in jumps /\ i.name \notin RegisterJumps
    BY <1>1, <1>2, <2>1 DEF symcall, NoRegisterJumps
  <2>3. ToImmediate(i.name)
    <3> HIDE DEF i
    <3> QED
      BY <2>2, Zenon DEF RegisterJumps
  <2> QED
    BY <2>1, <2>3 DEF OnlySymbolJumps
<1>3. NoSharing
  BY <1>2 DEF NoSharing
<1> QED
  BY <1>1, <1>3 DEF Finished, OwnNumbers

(* An iteration that begins at an instruction of the text executes it.     *)
LEMMA ExecutesText ==
  ASSUME Typed, Loaded, NoRegisterJumps, Numbered,
         NEW p \in placed, Emitted(p), regs[IP] = p.at
  PROVE  LET i == instruction(p) IN
         /\ Matches(i.name) /\ Decodes(i) /\ i.name \notin RegisterJumps
         /\ \A op \in Ops : Selects(op) => op = i.name
<1> DEFINE i == instruction(p)
<1>1. /\ i \in SmallInstruction /\ i.name \in Ops /\ Encodable(i)
      /\ p.at \in Nat
      /\ Code(p.at) = opcodes[i.name]
      /\ \A k \in 1 .. Len(Operands(i)) : Code(p.at + k) = Operands(i)[k]
  BY CodeRead
<1>2. i.name \notin RegisterJumps
  <2>1. functions \in Seq(SmallFunction)
    BY DEF Typed
  <2>2. /\ p.fun \in DOMAIN functions
        /\ p.ins \in DOMAIN functions[p.fun].instructions
    BY <2>1, FunctionsAre DEF Emitted
  <2> QED
    BY <2>2 DEF NoRegisterJumps, instruction
<1> HIDE DEF i
<1>3. Matches(i.name)
  BY <1>1, SameKey DEF Matches, next_instr
<1>4. Decodes(i)
  BY <1>1, <1>2, OperandsRead
<1>5. ASSUME NEW op \in Ops, Selects(op) PROVE op = i.name
  <2>1. Matches(op)
    BY <1>1, <1>3, <1>5 DEF Selects, NoMatch
  <2>2. INSTR[op] = INSTR[i.name]
    BY <1>3, <2>1 DEF Matches
  <2> QED
    BY <1>1, <2>2, INSTRAssumption
<1> QED
  BY <1>2, <1>3, <1>4, <1>5 DEF i

-----------------------------------------------------------------------------
(* Where an iteration that begins at an instruction of the text goes.      *)

LEMMA AlwaysBoundary ==
  ASSUME Typed, Finished, NoRegisterJumps, NEW x, AtPoint(x)
  PROVE  Boundary(x)
<1>1. x = Len(assembled_code) \/ \E q \in placed : q.at = x
  BY PointPlaced
<1>2. Len(assembled_code) \in Nat
  BY DEF Typed
<1> QED
  BY <1>1, <1>2 DEF Boundary

LEMMA StartIsBoundary ==
  ASSUME Typed, Finished, NoRegisterJumps
  PROVE  Boundary(0)
<1>1. functions \in Seq(SmallFunction) /\ functions # <<>> /\ functions[1].offset = 0
  BY DEF Typed, Finished, Layout
<1>2. 1 \in 1 .. Len(functions)
  BY <1>1
<1>3. functions[1] \in Function /\ Len(functions[1].instructions) \in Nat
  BY <1>1, <1>2, FunctionsAre
<1>4. 1 \in 1 .. Len(functions[1].instructions) + 1 /\ 0 = Place(1, 1)
  BY <1>1, <1>3, OffsetsAddUp DEF Place
<1> QED
  BY <1>2, <1>4, AlwaysBoundary DEF AtPoint

(* Behind an instruction is a point of the layout, and not beyond the code.*)
LEMMA BehindIt ==
  ASSUME Typed, Finished, Loaded, NoRegisterJumps, NEW p \in placed
  PROVE  LET w == length(instruction(p).name) IN
         /\ w \in Nat /\ p.at + w <= Len(assembled_code)
         /\ AtPoint(p.at + w)
<1> DEFINE i == instruction(p)
<1>1. Emitted(p)
  BY DEF Finished
<1>2. /\ i \in SmallInstruction /\ i.name \in Ops /\ Encodable(i) /\ p.at \in Nat
      /\ i.name \notin RegisterJumps
  <2>1. i.name \notin RegisterJumps
    <3>1. functions \in Seq(SmallFunction)
      BY DEF Typed
    <3>2. /\ p.fun \in DOMAIN functions
          /\ p.ins \in DOMAIN functions[p.fun].instructions
      BY <1>1, <3>1, FunctionsAre DEF Emitted
    <3> QED
      BY <3>2 DEF NoRegisterJumps, instruction
  <2> QED
    BY <1>1, <2>1, CodeRead
<1>3. length(i.name) = Width(i) /\ Width(i) \in Nat /\ Width(i) >= 1
  <2>1. length(i.name) >= 1
    BY <1>2 DEF length, Ops
  <2> QED
    BY <1>2, <2>1, SameLengths, WidthNat DEF Width
<1>4. /\ p.fun \in 1 .. Len(functions)
      /\ p.ins \in 1 .. Len(functions[p.fun].instructions)
      /\ p.at = Place(p.fun, p.ins)
  BY <1>1 DEF Emitted
<1>5. p.at + Width(i) <= Len(assembled_code)
  <2>1. Len(Encoding(i)) = Width(i)
    BY <1>2, EncodingIs
  <2>2. Width(i) \in 1 .. Len(Encoding(i))
    BY <1>3, <2>1
  <2> QED
    BY <1>1, <2>2 DEF Emitted
<1>6. p.at + Width(i) = Place(p.fun, p.ins + 1)
      /\ p.ins + 1 \in 1 .. Len(functions[p.fun].instructions) + 1
  <2>1. /\ functions[p.fun] \in Function /\ functions[p.fun].offset \in Nat
        /\ Len(functions[p.fun].instructions) \in Nat
    BY <1>4, FunctionsAre DEF Typed
  <2>2. /\ offset_of_instruction(functions[p.fun], p.ins + 1)
             = offset_of_instruction(functions[p.fun], p.ins) + Width(i)
        /\ offset_of_instruction(functions[p.fun], p.ins) \in Nat
    <3>1. p.ins \in 1 .. Len(functions[p.fun].instructions) + 1
      BY <1>4, <2>1
    <3> QED
      BY <1>4, <2>1, <3>1, OffsetsAddUp DEF instruction
  <2> QED
    BY <1>3, <1>4, <2>1, <2>2 DEF Place
<1>7. AtPoint(p.at + Width(i))
  BY <1>4, <1>6 DEF AtPoint
<1> QED
  BY <1>3, <1>5, <1>7

LEMMA StaysInText ==
  ASSUME VMInv, Typed, Finished, Fits, Loaded, OnlySymbolJumps,
         regs[IP] < Len(assembled_code), Boundary(regs[IP]), Boundary(regs[RP]),
         status = "running", status' = "running", FlowStep
  PROVE  Boundary(regs'[IP]) /\ Boundary(regs'[RP])
<1>1. Len(assembled_code) \in Nat /\ regs[IP] \in Nat /\ CodeSize \in Nat
      /\ CodeSize < WordSize /\ Len(assembled_code) <= CodeSize
  BY RegisterWord, RegNumbers, WordIs, Sizes DEF VMInv, Typed, Fits
<1>2. PICK p \in placed : p.at = regs[IP]
  BY <1>1 DEF Boundary
<1>3. Emitted(p) /\ NoRegisterJumps /\ Numbered
  BY RegistersKept DEF Finished
<1> DEFINE i == instruction(p)
           w == length(i.name)
<1>4. PICK op \in Ops : Selects(op) /\ Flow(op, regs'[IP], regs'[RP])
  BY DEF FlowStep
<1>5. op = i.name /\ Decodes(i) /\ op \notin RegisterJumps
  BY <1>2, <1>3, <1>4, ExecutesText
<1>6. /\ w \in Nat /\ regs[IP] + w <= Len(assembled_code)
      /\ AtPoint(regs[IP] + w)
  BY <1>2, <1>3, BehindIt
<1>7. Boundary(regs[IP] + w)
  BY <1>3, <1>6, AlwaysBoundary
<1>8. Trunc(regs[IP] + w) = regs[IP] + w
  <2> DEFINE x == regs[IP] + w
  <2>1. x \in Nat /\ x < WordSize
    BY <1>1, <1>6, WordSizeIs
  <2> HIDE DEF x
  <2>2. x \in Word
    BY <2>1, WordIs
  <2> QED
    BY <2>2, TruncId DEF x
<1>9. w = length(op)
  BY <1>5
<1> HIDE DEF w
<1>10. ASSUME op \in IMMONLY PROVE Boundary(ImmArg)
  <2>1. ToImmediate(i.name)
    BY <1>5, <1>10, ImmediateOps
  <2>2. p.fun \in 1 .. Len(functions)
        /\ p.ins \in 1 .. Len(functions[p.fun].instructions)
    BY <1>3 DEF Emitted
  <2>3. symcall(i) /\ i.args[1].kind # "reg"
    <3>1. /\ p.fun \in DOMAIN functions
          /\ p.ins \in DOMAIN functions[p.fun].instructions
      BY <2>2, FunctionsAre DEF Typed
    <3> QED
      BY <2>1, <3>1 DEF OnlySymbolJumps, instruction
  <2>4. AtPoint(i.args[1].num)
    <3>1. AtPoint(value(i.args[1]))
      BY <2>2, <2>3 DEF Finished, ResolvedAll, Resolved, instruction
    <3> QED
      BY <2>3, <3>1 DEF value
  <2>5. ImmArg = i.args[1].num
    <3>1. method(i.name) = "jump"
      <4>1. i.name \in jumps /\ i.name \in Ops
        BY <1>5, <2>1 DEF ToImmediate, jumps
      <4> QED
        BY <4>1, JumpCoding
    <3> HIDE DEF i
    <3> QED
      BY <1>5, <3>1 DEF Decodes
  <2> QED
    BY <1>3, <2>4, <2>5, AlwaysBoundary
<1>11. Boundary(regs'[IP])
  <2>1. CASE ~ isJump(op)
    BY <1>4, <1>7, <1>8, <1>9, <2>1 DEF Flow
  <2>2. CASE op \in IMMONLY
    <3>1. regs'[IP] = ImmArg \/ regs'[IP] = regs[IP] + w
      BY <1>4, <1>8, <1>9, <2>2 DEF Flow
    <3> QED
      BY <1>7, <1>10, <2>2, <3>1
  <2>3. CASE op = "RETN"
    BY <1>4, <2>3 DEF Flow
  <2> QED
    BY <1>5, <2>1, <2>2, <2>3, KindsOfOps
<1>12. Boundary(regs'[RP])
  <2>1. CASE regs'[RP] = regs[RP]
    BY <2>1
  <2>2. CASE op = "CALL" /\ regs'[RP] = regs[IP] + 3
    <3>1. length(op) = 3
      BY <2>2 DEF length, IMM2REG, BYT2REG, IMMONLY, REG2REG, REGONLY, SINGLE
    <3> QED
      BY <1>7, <1>9, <2>2, <3>1
  <2> QED
    BY <1>4, <2>1, <2>2 DEF Flow
<1> QED
  BY <1>11, <1>12
-----------------------------------------------------------------------------
(* The steps.                                                              *)

LEMMA OnlyRunning == Iterate => status = "running"
<1>1. Transfer => status = "running"
  BY Zenon DEF Transfer, execMOVI, execMOVR, execLODI, execLODR, execSTRI,
     execSTRR, execGRMN, SetReg, Execute, Selects
<1>2. Arithmetic => status = "running"
  BY Zenon DEF Arithmetic, execADDI, execADDR, execSUBI, execSUBR, execANDB,
     execANDW, execANDR, execYORB, execYORW, execYORR, execXORB, execXORW,
     execXORR, execNOTR, execMULI, execMULR, execDIVI, execDIVR, execSHLI,
     execSHLR, execSHRI, execSHRR, SetReg, Execute, Selects
<1>3. Control => status = "running"
  BY Zenon DEF Control, execCMPB, execCMPW, execCMPR, execJMPI, execJMPR,
     execJPAI, execJPAR, execJPBI, execJPBR, execJPEI, execJPER, execJPNI,
     execJPNR, execSHIT, execNOPE, execDEBG, Compare, JumpImm, JumpReg, Jump,
     Execute, Selects
<1>4. StackOps => status = "running"
  BY Zenon DEF StackOps, execPUSH, execPOOP, execCALL, execRETN, Execute, Selects
<1> QED
  BY <1>1, <1>2, <1>3, <1>4 DEF Iterate, FetchFault, UnknownOpcode

(* The text, its layout and its code once the assembler has ended.         *)
LEMMA TextStays ==
  ASSUME UNCHANGED <<source, functions, reg_values, fun, ins, offset>>,
         UNCHANGED <<assembled_code, placed>>, Typed, Finished
  PROVE  /\ Typed' /\ Finished'
         /\ Fits' <=> Fits
         /\ OnlySymbolJumps' <=> OnlySymbolJumps
         /\ \A x : Boundary(x)' <=> Boundary(x)
<1>1. functions' = functions /\ reg_values' = reg_values
  OBVIOUS
<1>2. \A n, m : /\ Resolved(n, m) => Resolved(n, m)'
                /\ Put(n, m) => Put(n, m)'
  BY <1>1, ResolvedStays DEF Put
<1>3. \A p : Emitted(p) => Emitted(p)'
  BY EmittedStays
<1>4. Layout' /\ ResolvedAll' /\ PutAll' /\ (NoRegisterJumps' <=> NoRegisterJumps)
  BY <1>1, <1>2 DEF Finished, Layout, ResolvedAll, PutAll, NoRegisterJumps
<1>5. CodeEnd' = CodeEnd
  BY DEF CodeEnd, Place
<1>6. Finished'
  <2>1. OwnNumbers'
    BY <1>1 DEF Finished, OwnNumbers, NoSharing, Numbered
  <2> QED
    BY <1>3, <1>4, <1>5, <2>1 DEF Finished
<1>7. Typed' /\ (Fits' <=> Fits)
  BY DEF Typed, Fits
<1>8. \A x : Boundary(x)' <=> Boundary(x)
  BY DEF Boundary
<1>9. OnlySymbolJumps' <=> OnlySymbolJumps
  BY <1>1, <1>4 DEF OnlySymbolJumps
<1> QED
  BY <1>6, <1>7, <1>8, <1>9

LEMMA InitTInv == ToolchainInit => TInv
<1> SUFFICES ASSUME ToolchainInit PROVE TInv
  OBVIOUS
<1>1. Init /\ constructed(<<>>) /\ stage = "assembling"
  BY DEF ToolchainInit
<1>2. <<>> \in Seq(Byte)
  OBVIOUS
<1>3. VMInv /\ Resting
  BY <1>1, <1>2, NewMachine DEF Resting, constructed
<1>4. IInv /\ source \in Sources
  BY <1>1, InitIInv DEF Init
<1> QED
  BY <1>1, <1>3, <1>4 DEF TInv

LEMMA AssembleStep == TInv /\ Assemble => TInv'
<1> SUFFICES ASSUME TInv, Assemble PROVE TInv'
  OBVIOUS
<1>1. Next /\ UNCHANGED <<mem, regs, instr_p, status, stage>>
  BY DEF Assemble, vm_vars
<1>2. source' = source /\ pc # "exited"
  BY <1>1 DEF Next, parse_functions, resolve_functions_offsets, resolve_symbols,
              parse, ResolveNext, SetValue, EncodeNext, NextFunction
<1>3. stage = "assembling" /\ IInv /\ Resting
  BY <1>2 DEF TInv, Embedded
<1>4. IInv'
  BY <1>1, <1>3, NextIInv
<1>5. VMInv' /\ Resting'
  BY <1>1, <1>3 DEF TInv, VMInv, VMTypeOK, RPInCode, Resting
<1> QED
  BY <1>1, <1>2, <1>3, <1>4, <1>5 DEF TInv

(* The code fills the code section, and the data that follow do not reach  *)
(* into it.                                                                *)
LEMMA CodeLoaded ==
  ASSUME NEW m \in Memory, NEW code \in Seq(Byte), NEW data \in Seq(Byte),
         Len(code) <= CodeSize, NEW k \in 1 .. Len(code)
  PROVE  insData(insCode(m, code), data)[CodeBase + (k - 1)] = code[k]
<1> DEFINE a == CodeBase + (k - 1)
           n == insCode(m, code)
<1>1. /\ Len(code) \in Nat /\ a \in Address /\ a \in CodeSection
      /\ a \in CodeBase .. CodeBase + Len(code) - 1 /\ a - CodeBase + 1 = k
  BY Sizes, Places DEF Address, CodeSection
<1> HIDE DEF a
<1>2. a \notin DataSection
  BY <1>1, LayoutAssumption
<1>3. n[a] = code[k]
  BY <1>1, Sizes DEF insCode, insert
<1>4. n \in Memory
  BY SectionsTyped
<1> HIDE DEF n
<1>5. insData(n, data)[a] = n[a]
  BY <1>1, <1>2, <1>4, SectionsTyped
<1> QED
  BY <1>3, <1>5 DEF a, n

LEMMA LoadStep == TInv /\ Load => TInv'
<1> SUFFICES ASSUME TInv, Load PROVE TInv'
  OBVIOUS
<1>1. /\ stage = "assembling" /\ pc = "done"
      /\ stage' = "loaded" /\ pc' = "exited"
      /\ UNCHANGED <<source, functions, reg_values, fun, ins, offset>>
      /\ UNCHANGED <<assembled_code, placed>>
      /\ UNCHANGED <<regs, instr_p, status, strayed>>
  BY DEF Load
<1>2. VMInv /\ Resting /\ Typed /\ Finished /\ source \in Sources
  BY <1>1 DEF TInv, Embedded, IInv
<1>3. PICK data \in Inputs(source) :
        mem' = insData(insCode(mem, assembled_code), data)
  BY DEF Load
<1>4. assembled_code \in Seq(Byte) /\ data \in Seq(Byte) /\ mem \in Memory
  BY <1>2, InputsAssumption DEF Typed, VMInv, VMTypeOK, Memory
<1>5. mem' \in Memory
  <2>1. insCode(mem, assembled_code) \in Memory
    BY <1>4, SectionsTyped
  <2> QED
    BY <1>3, <1>4, <2>1, SectionsTyped
<1>6. VMInv' /\ Resting'
  BY <1>1, <1>2, <1>5 DEF VMInv, VMTypeOK, RPInCode, Resting, Memory
<1>7. /\ Typed' /\ Finished'
      /\ Fits' <=> Fits
      /\ OnlySymbolJumps' <=> OnlySymbolJumps
      /\ Boundary(0)' <=> Boundary(0)
  BY <1>1, <1>2, TextStays
<1>8. ASSUME Fits PROVE Loaded'
  <2>1. assembled_code' = assembled_code
    BY <1>1
  <2>2. \A k \in 1 .. Len(assembled_code) :
          mem'[CodeBase + (k - 1)] = assembled_code[k]
    BY <1>3, <1>4, <1>8, CodeLoaded DEF Fits
  <2> QED
    BY <2>1, <2>2 DEF Loaded, Code
<1>9. Bounded'
  <2>1. OnlySymbolJumps => Boundary(0)
    BY <1>2, StartIsBoundary DEF OnlySymbolJumps
  <2>2. regs'[IP] = 0 /\ regs'[RP] = 0
    BY <1>6 DEF Resting
  <2>3. OnlySymbolJumps' => Boundary(regs[IP])' /\ Boundary(regs[RP])'
    BY <1>1, <1>7, <2>1, <2>2 DEF Boundary
  <2> QED
    BY <2>3 DEF Bounded
<1> QED
  BY <1>1, <1>2, <1>6, <1>7, <1>8, <1>9 DEF TInv, Embedded

LEMMA StartStep == TInv /\ Start => TInv'
<1> SUFFICES ASSUME TInv, Start PROVE TInv'
  OBVIOUS
<1>1. /\ stage = "loaded" /\ stage' = "started" /\ run
      /\ UNCHANGED <<source, functions, reg_values, fun, ins, offset>>
      /\ UNCHANGED <<assembled_code, placed, pc, strayed>>
  BY DEF Start, vars
<1>2. VMInv /\ Embedded /\ Typed /\ Finished /\ source \in Sources
  BY <1>1 DEF TInv, Embedded
<1>3. VMInv' /\ UNCHANGED <<mem, regs>> /\ status = "idle"
  BY <1>1, <1>2, RunStep DEF Good, VMInv, run
<1>4. /\ Typed' /\ Finished'
      /\ Fits' <=> Fits
      /\ OnlySymbolJumps' <=> OnlySymbolJumps
      /\ \A x : Boundary(x)' <=> Boundary(x)
  BY <1>1, <1>2, TextStays
<1>5. Loaded' <=> Loaded
  BY <1>1, <1>3 DEF Loaded, Code
<1>6. Bounded' <=> Bounded
  BY <1>3, <1>4 DEF Bounded
<1> QED
  BY <1>1, <1>2, <1>3, <1>4, <1>5, <1>6 DEF TInv, Embedded

LEMMA LoopStep == TInv /\ Loop => TInv'
<1> SUFFICES ASSUME TInv, Loop PROVE TInv'
  OBVIOUS
<1>1. /\ Iterate /\ strayed' = (strayed \/ regs[IP] >= Len(assembled_code))
      /\ UNCHANGED <<source, functions, reg_values, fun, ins, offset>>
      /\ UNCHANGED <<assembled_code, placed, pc, stage>>
  BY DEF Loop, vars
<1>2. status = "running"
  BY <1>1, OnlyRunning
<1>3. /\ VMInv /\ Embedded /\ Typed /\ Finished /\ source \in Sources
      /\ stage = "started"
  BY <1>2 DEF TInv, Embedded, Resting
<1>4. Good
  BY <1>1, <1>3, IterateStep
<1>5. VMInv' /\ IsolatedStep /\ FlowStep /\ StackStep
  BY <1>4 DEF Good, VMInv
<1>6. /\ Typed' /\ Finished'
      /\ Fits' <=> Fits
      /\ OnlySymbolJumps' <=> OnlySymbolJumps
      /\ \A x : Boundary(x)' <=> Boundary(x)
  BY <1>1, <1>3, TextStays
<1>7. ASSUME Fits, Loaded PROVE Loaded'
  <2>1. assembled_code' = assembled_code /\ Len(assembled_code) \in Nat
        /\ Len(assembled_code) <= CodeSize
    BY <1>1, <1>3, <1>7 DEF Typed, Fits
  <2>2. ASSUME NEW k \in 1 .. Len(assembled_code)
        PROVE  mem'[CodeBase + (k - 1)] = mem[CodeBase + (k - 1)]
    <3> DEFINE a == CodeBase + (k - 1)
    <3>1. a \in Address /\ a \in CodeSection
      BY <2>1, Sizes, Places DEF Address, CodeSection
    <3> HIDE DEF a
    <3>2. a \notin DataSection \cup StackSection
      BY <3>1, LayoutAssumption
    <3>3. mem'[a] = mem[a]
      BY <1>2, <1>5, <3>1, <3>2 DEF IsolatedStep
    <3> QED
      BY <3>3 DEF a
  <2> QED
    BY <1>7, <2>1, <2>2 DEF Loaded, Code
<1>8. ASSUME Fits, ~ strayed', status' # "crashed", OnlySymbolJumps
      PROVE  Boundary(regs'[IP]) /\ Boundary(regs'[RP])
  <2>1. ~ strayed /\ ~ (regs[IP] >= Len(assembled_code))
    BY <1>1, <1>8
  <2>2. Loaded /\ Boundary(regs[IP]) /\ Boundary(regs[RP])
    BY <1>2, <1>3, <1>8, <2>1 DEF Embedded, Bounded
  <2>3. CASE status' = "running"
    <3>1. regs[IP] \in Nat /\ Len(assembled_code) \in Nat
      BY <1>3, RegisterWord, RegNumbers, WordIs DEF VMInv, Typed
    <3>2. regs[IP] < Len(assembled_code)
      BY <2>1, <3>1
    <3> QED
      BY <1>2, <1>3, <1>5, <1>8, <2>2, <2>3, <3>2, StaysInText
  <2>4. CASE status' = "idle"
    <3>1. regs' = regs
      BY <1>2, <1>5, <2>4 DEF StackStep
    <3> QED
      BY <2>2, <3>1
  <2> QED
    BY <1>5, <1>8, <2>3, <2>4 DEF VMInv, VMTypeOK
<1>9. Fits' /\ ~ strayed' /\ status' # "crashed" => Bounded'
  BY <1>6, <1>8 DEF Bounded
<1> QED
  BY <1>1, <1>3, <1>5, <1>6, <1>7, <1>9 DEF TInv, Embedded

LEMMA StutterStep == TInv /\ UNCHANGED all_vars => TInv'
<1> SUFFICES ASSUME TInv, UNCHANGED all_vars PROVE TInv'
  OBVIOUS
<1>1. /\ UNCHANGED vars
      /\ UNCHANGED <<source, functions, reg_values, fun, ins, offset>>
      /\ UNCHANGED <<assembled_code, placed, pc, stage, strayed>>
      /\ UNCHANGED <<mem, regs, instr_p, status>>
  BY DEF all_vars, vars, vm_vars
<1>2. VMInv' /\ (Resting => Resting')
  BY <1>1 DEF TInv, VMInv, VMTypeOK, RPInCode, Resting
<1>3. CASE IInv /\ Resting /\ stage = "assembling"
  <2>1. IInv'
    BY <1>1, <1>3, NextIInv
  <2> QED
    BY <1>1, <1>2, <1>3, <2>1 DEF TInv
<1>4. CASE Embedded
  <2>1. /\ Typed' /\ Finished'
        /\ Fits' <=> Fits
        /\ OnlySymbolJumps' <=> OnlySymbolJumps
        /\ \A x : Boundary(x)' <=> Boundary(x)
    BY <1>1, <1>4, TextStays DEF Embedded
  <2>2. Loaded' <=> Loaded
    BY <1>1 DEF Loaded, Code
  <2>3. Bounded' <=> Bounded
    BY <1>1, <2>1 DEF Bounded
  <2>4. Embedded'
    BY <1>1, <1>2, <1>4, <2>1, <2>2, <2>3 DEF Embedded
  <2> QED
    BY <1>1, <1>2, <2>4 DEF TInv
<1> QED
  BY <1>3, <1>4 DEF TInv

LEMMA NextTInv == TInv /\ [ToolchainNext]_all_vars => TInv'
  BY AssembleStep, LoadStep, StartStep, LoopStep, StutterStep DEF ToolchainNext

LEMMA TInvAsWritten == TInv => AsWritten
<1> SUFFICES ASSUME TInv, status = "running", ~ strayed,
                    regs[IP] < Len(assembled_code),
                    Len(assembled_code) <= CodeSize, OnlySymbolJumps
             PROVE  \E p \in placed :
                      /\ p.at = regs[IP]
                      /\ Matches(instruction(p).name)
                      /\ Decodes(instruction(p))
  BY DEF AsWritten
<1>1. VMInv /\ Embedded
  BY DEF TInv, Resting
<1>2. Typed /\ Finished /\ Loaded /\ Boundary(regs[IP])
  BY <1>1 DEF Embedded, Bounded, Fits
<1>3. regs[IP] \in Nat /\ Len(assembled_code) \in Nat
  BY <1>1, <1>2, RegisterWord, RegNumbers, WordIs DEF VMInv, Typed
<1>4. PICK p \in placed : p.at = regs[IP]
  BY <1>2, <1>3 DEF Boundary
<1>5. Emitted(p) /\ NoRegisterJumps /\ Numbered
  BY <1>2, RegistersKept DEF Finished
<1>6. Matches(instruction(p).name) /\ Decodes(instruction(p))
  BY <1>2, <1>4, <1>5, ExecutesText
<1> QED
  BY <1>4, <1>6

(* What holds of the assembler holds of it in the toolchain: loading and   *)
(* running the code does not undo anything.                                *)
THEOREM AssembledInToolchain ==
  ToolchainSpec => [](TypeOK /\ InPlace /\ SymbolsBound /\ JumpsLand)
<1>1. ASSUME TInv PROVE TypeOK /\ InPlace /\ SymbolsBound /\ JumpsLand
  <2>1. CASE IInv
    BY <2>1, IInvTypeOK, IInvInPlace, IInvSymbolsBound, IInvJumpsLand
  <2>2. CASE Embedded
    <3>1. pc = "exited" /\ Typed
      BY <2>2 DEF Embedded
    <3>2. source \in Seq(Line) /\ functions \in Seq(Function)
      <4>1. SmallLine \subseteq Line /\ SmallFunction \subseteq Function
        BY DEF SmallLine, SmallFunction
      <4> QED
        BY <3>1, <4>1 DEF Typed
    <3> QED
      BY <3>1, <3>2 DEF Typed, TypeOK, Methods, InPlace, SymbolsBound, JumpsLand
  <2> QED
    BY <1>1, <2>1, <2>2 DEF TInv
<1>2. TInv => TypeOK /\ InPlace /\ SymbolsBound /\ JumpsLand
  BY <1>1
<1> QED
  BY InitTInv, NextTInv, <1>2, PTL DEF ToolchainSpec

(* The machine executes the text: whatever the text, the key, the data and *)
(* the layout of the memory, a program whose code fits and whose jumps all *)
(* go to symbols (OnlySymbolJumps: to an immediate, with one operand, and  *)
(* that not a register of regs, which the assembler would renumber in all  *)
(* the text) selects, until it first runs off the end of that code, one of *)
(* its own instructions after the other, with the operands the text gave   *)
(* it.                                                                     *)
THEOREM ExecutedAsWritten == ToolchainSpec => []AsWritten
  BY InitTInv, NextTInv, TInvAsWritten, PTL DEF ToolchainSpec
=============================================================================
