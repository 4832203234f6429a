-------------------------- MODULE AssemblerProofs --------------------------
(***************************************************************************)
(* Layout and encoding of the assembler agree: proofs about Assembler.     *)
(***************************************************************************)
EXTENDS Assembler, WordsProofs, SequenceTheorems

LEMMA MinIs ==
  ASSUME NEW T \in SUBSET Nat, T # {}
  PROVE  Min(T) \in T /\ \A n \in T : Min(T) <= n
  BY Least DEF Min

LEMMA FunctionsAreSeqs ==
  ASSUME NEW S, NEW n \in Nat \ {0}, NEW f \in [1 .. n -> S]
  PROVE  f \in Seq(S) /\ Len(f) = n /\ f # <<>>
<1>1. f \in Seq(S) /\ Len(f) = n
  OBVIOUS
<1> QED
  BY <1>1

(* What is selected from a sequence are some of its positions, and all of  *)
(* them only if there are none.                                            *)
LEMMA AscendingIs ==
  ASSUME NEW n \in Nat, NEW S \in SUBSET (1 .. n)
  PROVE  /\ Ascending(S, n) \in Seq(S)
         /\ n \in S => Ascending(S, n) # <<>>
<1> DEFINE h == [k \in 1 .. n |->
                   [s \in Seq(S) |-> IF k \in S THEN Append(s, k) ELSE s]]
           more(f, k) == IF k = 0 THEN <<>>
                         ELSE IF k \in S THEN Append(f[k - 1], k)
                                         ELSE f[k - 1]
<1>1. ASSUME NEW k \in 1 .. n, NEW s \in Seq(S)
      PROVE  /\ h[k][s] = IF k \in S THEN Append(s, k) ELSE s
             /\ h[k][s] \in Seq(S)
  OBVIOUS
<1> HIDE DEF h
<1>2. PICK f \in [0 .. n -> Seq(S)] : Follows(f, <<>>, h, n)
  <2>1. <<>> \in Seq(S)
    OBVIOUS
  <2>2. Keeps(h, n, Seq(S))
    BY <1>1 DEF Keeps
  <2> QED
    BY <2>1, <2>2, Recursion
<1>3. f = [k \in 0 .. n |-> more(f, k)]
  <2>1. ASSUME NEW k \in 1 .. n
        PROVE  f[k] = more(f, k)
    <3>1. f[k - 1] \in Seq(S)
      OBVIOUS
    <3> QED
      BY <1>1, <1>2, <3>1 DEF Follows
  <2>2. f[0] = more(f, 0)
    BY <1>2 DEF Follows
  <2> HIDE DEF more
  <2> QED
    BY <2>1, <2>2
<1> DEFINE u == CHOOSE g : g = [k \in 0 .. n |-> more(g, k)]
<1>4. u = [k \in 0 .. n |-> more(u, k)]
  <2> HIDE DEF more
  <2> QED
    BY <1>3
<1>5. Ascending(S, n) = u[n]
  BY DEF Ascending
<1> HIDE DEF u
<1>6. u[0] = <<>>
  BY <1>4
<1>7. ASSUME NEW k \in 1 .. n
      PROVE  u[k] = IF k \in S THEN Append(u[k - 1], k) ELSE u[k - 1]
  <2>1. u[k] = more(u, k)
    <3>1. k \in 0 .. n
      OBVIOUS
    <3> HIDE DEF more
    <3> QED
      BY <1>4, <3>1, Zenon
  <2> QED
    BY <2>1
<1>8. \A k \in 0 .. n : u[k] \in Seq(S)
  <2>1. ASSUME NEW k \in 1 .. n, u[k - 1] \in Seq(S) PROVE u[k] \in Seq(S)
    <3>1. CASE k \in S
      <4>1. u[k] = Append(u[k - 1], k)
        BY <1>7, <3>1
      <4>2. Append(u[k - 1], k) \in Seq(S)
        BY <2>1, <3>1
      <4> QED
        BY <4>1, <4>2
    <3>2. CASE k \notin S
      BY <1>7, <2>1, <3>2
    <3> QED
      BY <3>1, <3>2
  <2>2. u[0] \in Seq(S)
    BY <1>6
  <2> QED
    BY <2>1, <2>2, Induction
<1>9. ASSUME n \in S PROVE u[n] # <<>>
  <2>1. n \in 1 .. n /\ u[n - 1] \in Seq(S)
    BY <1>8, <1>9
  <2>2. u[n] = Append(u[n - 1], n)
    BY <1>7, <1>9, <2>1
  <2>3. Len(u[n]) = Len(u[n - 1]) + 1
    BY <1>9, <2>1, <2>2, AppendProperties
  <2>4. Len(u[n - 1]) \in Nat
    BY <2>1
  <2> QED
    BY <2>3, <2>4
<1> QED
  BY <1>5, <1>8, <1>9
-----------------------------------------------------------------------------
(* The sizes.                                                              *)

Width(i) == ops_sizes(method(i.name))
Codings == {"imm2reg", "reg2reg", "reg2imm", "byt2reg", "regonly", "jump",
            "single"}

LEMMA MethodCodings == \A op \in Ops : method(op) \in Codings
  BY DBGAssumption DEF method, Codings, jumps, Ops, REG2REG, IMM2REG, BYT2REG,
     REGONLY, IMMONLY, SINGLE

LEMMA SizesNat == \A m \in Codings : ops_sizes(m) \in Nat
  BY DEF Codings, ops_sizes

LEMMA WidthNat == \A i : i.name \in Ops => Width(i) \in Nat
  BY MethodCodings, SizesNat DEF Width

(* The sizes of the prefixes of some instructions.                         *)
Prefixes(s, f) ==
  /\ f \in [0 .. Len(s) -> Nat]
  /\ f[0] = 0
  /\ \A k \in 1 .. Len(s) : f[k] = f[k - 1] + Width(s[k])

LEMMA PrefixesExist ==
  ASSUME NEW s \in Seq(Instruction)
  PROVE  /\ \E f : Prefixes(s, f)
         /\ \A f : Prefixes(s, f) => size(s) = f[Len(s)]
<1> DEFINE n == Len(s)
           h == [k \in 1 .. n |-> [x \in Nat |-> x + Width(s[k])]]
           more(f, k) == IF k = 0 THEN 0 ELSE f[k - 1] + Width(s[k])
<1>1. n \in Nat /\ \A k \in 1 .. n : Width(s[k]) \in Nat
  <2>1. ASSUME NEW k \in 1 .. n PROVE Width(s[k]) \in Nat
    <3>0. s[k] \in Instruction
      OBVIOUS
    <3>1. s[k].name \in Ops
      BY <3>0 DEF Instruction
    <3> QED
      BY <3>1, WidthNat
  <2> QED
    BY <2>1
<1>2. ASSUME NEW k \in 1 .. n, NEW x \in Nat
      PROVE  h[k][x] = x + Width(s[k]) /\ h[k][x] \in Nat
  BY <1>1
<1> HIDE DEF h
<1>3. PICK f \in [0 .. n -> Nat] : Follows(f, 0, h, n)
  <2>1. 0 \in Nat
    OBVIOUS
  <2>2. Keeps(h, n, Nat)
    BY <1>2 DEF Keeps
  <2> HIDE DEF n
  <2> QED
    BY <1>1, <2>1, <2>2, Recursion
<1>4. ASSUME NEW k \in 1 .. n
      PROVE  f[k] = f[k - 1] + Width(s[k])
  <2>1. f[k - 1] \in Nat
    BY <1>1
  <2> QED
    BY <1>2, <1>3, <2>1 DEF Follows
<1>5. Prefixes(s, f)
  BY <1>3, <1>4 DEF Prefixes, Follows
<1> DEFINE u == CHOOSE g : g = [k \in 0 .. n |-> more(g, k)]
<1>6. u = [k \in 0 .. n |-> more(u, k)]
  <2>1. \A k \in 0 .. n : f[k] = more(f, k)
    BY <1>1, <1>3, <1>4 DEF Follows
  <2> HIDE DEF more
  <2>2. f = [k \in 0 .. n |-> more(f, k)]
    BY <2>1
  <2> QED
    BY <2>2
<1>7. size(s) = u[n]
  BY DEF size, Width
<1> HIDE DEF u
<1>8. Prefixes(s, u)
  <2>1. u[0] = 0
    BY <1>1, <1>6
  <2>2. ASSUME NEW k \in 1 .. n PROVE u[k] = u[k - 1] + Width(s[k])
    BY <1>1, <1>6
  <2>3. \A k \in 0 .. n : u[k] \in Nat
    <3>1. ASSUME NEW k \in 1 .. n, u[k - 1] \in Nat PROVE u[k] \in Nat
      BY <1>1, <2>2, <3>1
    <3> HIDE DEF n
    <3>2. u[0] \in Nat
      BY <2>1
    <3> QED
      BY <1>1, <3>1, <3>2, Induction
  <2>4. u \in [0 .. n -> Nat]
    BY <1>6, <2>3
  <2> QED
    BY <2>1, <2>2, <2>4 DEF Prefixes
<1>9. ASSUME NEW g, Prefixes(s, g)
      PROVE  g[n] = u[n]
  <2>1. ASSUME NEW v, Prefixes(s, v) PROVE Follows(v, 0, h, n)
    <3>1. ASSUME NEW k \in 1 .. n PROVE v[k] = h[k][v[k - 1]]
      <4>1. v[k - 1] \in Nat
        BY <1>1, <2>1 DEF Prefixes
      <4> QED
        BY <1>2, <2>1, <4>1 DEF Prefixes
    <3> QED
      BY <2>1, <3>1 DEF Follows, Prefixes
  <2>2. Follows(u, 0, h, n) /\ Follows(g, 0, h, n)
    BY <1>8, <1>9, <2>1
  <2>3. n \in 0 .. n
    BY <1>1
  <2> HIDE DEF n
  <2> QED
    BY <1>1, <2>2, <2>3, RecursionUnique
<1> QED
  BY <1>5, <1>7, <1>9

(* Sizes add up, and depend on the names of the instructions only.         *)
LEMMA SizeOfPrefix ==
  ASSUME NEW s \in Seq(Instruction), NEW f, Prefixes(s, f)
  PROVE  \A k \in 0 .. Len(s) : size(SubSeq(s, 1, k)) = f[k]
<1> SUFFICES ASSUME NEW k \in 0 .. Len(s)
             PROVE  size(SubSeq(s, 1, k)) = f[k]
  OBVIOUS
<1> DEFINE t == SubSeq(s, 1, k)
           g == [l \in 0 .. k |-> f[l]]
<1>1. t \in Seq(Instruction) /\ Len(t) = k /\ \A l \in 1 .. k : t[l] = s[l]
  OBVIOUS
<1> HIDE DEF t
<1>2. Prefixes(t, g)
  <2>1. g \in [0 .. k -> Nat] /\ g[0] = 0
    BY DEF Prefixes
  <2>2. ASSUME NEW l \in 1 .. k PROVE g[l] = g[l - 1] + Width(t[l])
    <3>1. f[l] = f[l - 1] + Width(s[l])
      BY DEF Prefixes
    <3> QED
      BY <1>1, <3>1
  <2> QED
    BY <1>1, <2>1, <2>2 DEF Prefixes
<1>3. size(t) = g[k]
  BY <1>1, <1>2, PrefixesExist
<1> QED
  BY <1>3 DEF t
LEMMA OffsetsAddUp ==
  ASSUME NEW f \in Function
  PROVE  LET n == Len(f.instructions) IN
         /\ offset_of_instruction(f, 1) = 0
         /\ \A k \in 1 .. n : offset_of_instruction(f, k + 1)
                               = offset_of_instruction(f, k)
                                 + Width(f.instructions[k])
         /\ offset_of_instruction(f, n + 1) = size(f.instructions)
         /\ \A k \in 1 .. n + 1 : offset_of_instruction(f, k) \in Nat
<1> DEFINE s == f.instructions
           n == Len(s)
<1>1. s \in Seq(Instruction) /\ n \in Nat
  BY DEF Function
<1> HIDE DEF s
<1>2. PICK g : Prefixes(s, g)
  BY <1>1, PrefixesExist
<1>3. ASSUME NEW k \in 1 .. n + 1 PROVE offset_of_instruction(f, k) = g[k - 1]
  <2>1. k - 1 \in 0 .. Len(s)
    BY <1>1
  <2> QED
    BY <1>1, <1>2, <2>1, SizeOfPrefix DEF offset_of_instruction, s
<1>4. offset_of_instruction(f, 1) = 0
  BY <1>1, <1>2, <1>3 DEF Prefixes
<1>5. ASSUME NEW k \in 1 .. n
      PROVE  offset_of_instruction(f, k + 1)
               = offset_of_instruction(f, k) + Width(s[k])
  <2>1. k \in 1 .. n + 1 /\ k + 1 \in 1 .. n + 1 /\ (k + 1) - 1 = k
    BY <1>1
  <2>2. g[k] = g[k - 1] + Width(s[k])
    BY <1>2 DEF Prefixes
  <2> QED
    BY <1>3, <2>1, <2>2
<1>6. offset_of_instruction(f, n + 1) = size(s)
  <2>1. n + 1 \in 1 .. n + 1 /\ (n + 1) - 1 = n
    BY <1>1
  <2>2. size(s) = g[n]
    BY <1>1, <1>2, PrefixesExist
  <2> QED
    BY <1>3, <2>1, <2>2
<1>7. ASSUME NEW k \in 1 .. n + 1 PROVE offset_of_instruction(f, k) \in Nat
  <2>1. k - 1 \in 0 .. Len(s)
    BY <1>1
  <2> QED
    BY <1>2, <1>3, <2>1 DEF Prefixes
<1> QED
  BY <1>4, <1>5, <1>6, <1>7 DEF s

(* What resolve_symbols leaves of a function: all but numbers of operands. *)
SameShape(f, g) ==
  /\ f.name = g.name /\ f.offset = g.offset
  /\ Len(f.instructions) = Len(g.instructions)
  /\ \A n \in 1 .. Len(f.instructions) :
       /\ f.instructions[n].name = g.instructions[n].name
       /\ f.instructions[n].label = g.instructions[n].label

LEMMA SameOffsets ==
  ASSUME NEW f \in Function, NEW g \in Function, SameShape(f, g)
  PROVE  /\ size(f.instructions) = size(g.instructions)
         /\ LabelsOf(f) = LabelsOf(g)
         /\ \A n \in 1 .. Len(f.instructions) + 1 :
              offset_of_instruction(f, n) = offset_of_instruction(g, n)
         /\ \A l : offset_of_label(f, l) = offset_of_label(g, l)
<1> DEFINE s == f.instructions
           t == g.instructions
<1>1. s \in Seq(Instruction) /\ t \in Seq(Instruction) /\ Len(s) \in Nat
  BY DEF Function
<1>2. /\ Len(s) = Len(t)
      /\ \A n \in 1 .. Len(s) : s[n].name = t[n].name /\ s[n].label = t[n].label
  BY DEF SameShape
<1> HIDE DEF s, t
<1>3. PICK h : Prefixes(s, h)
  BY <1>1, PrefixesExist
<1>4. Prefixes(t, h)
  <2>1. \A n \in 1 .. Len(s) : Width(s[n]) = Width(t[n])
    BY <1>2 DEF Width
  <2> QED
    BY <1>2, <1>3, <2>1 DEF Prefixes
<1>5. size(s) = size(t)
  BY <1>1, <1>2, <1>3, <1>4, PrefixesExist
<1>6. DOMAIN s = 1 .. Len(s) /\ DOMAIN t = 1 .. Len(s)
  BY <1>1, <1>2
<1>7. LabelsOf(f) = LabelsOf(g)
  BY <1>2, <1>6 DEF LabelsOf, s, t
<1>8. ASSUME NEW n \in 1 .. Len(s) + 1
      PROVE  offset_of_instruction(f, n) = offset_of_instruction(g, n)
  <2>1. n - 1 \in 0 .. Len(s)
    BY <1>1
  <2>2. size(SubSeq(s, 1, n - 1)) = h[n - 1] /\ size(SubSeq(t, 1, n - 1)) = h[n - 1]
    BY <1>1, <1>2, <1>3, <1>4, <2>1, SizeOfPrefix
  <2> QED
    BY <2>2 DEF offset_of_instruction, s, t
<1>9. ASSUME NEW l PROVE offset_of_label(f, l) = offset_of_label(g, l)
  <2> DEFINE hits == {n \in DOMAIN s : s[n].label = l}
  <2>1. hits = {n \in DOMAIN t : t[n].label = l}
    BY <1>2, <1>6
  <2>2. CASE hits = {}
    BY <1>5, <2>1, <2>2 DEF offset_of_label, s, t
  <2>3. CASE hits # {}
    <3>1. hits \in SUBSET Nat
      BY <1>6
    <3>2. Min(hits) \in hits
      BY <2>3, <3>1, MinIs
    <3>3. Min(hits) \in 1 .. Len(s) + 1
      BY <1>1, <1>6, <3>2
    <3>4. offset_of_instruction(f, Min(hits)) = offset_of_instruction(g, Min(hits))
      BY <1>8, <3>3
    <3> QED
      BY <2>1, <2>3, <3>4 DEF offset_of_label, s, t
  <2> QED
    BY <2>2, <2>3
<1> QED
  BY <1>5, <1>7, <1>8, <1>9 DEF s, t
-----------------------------------------------------------------------------
(* What parse_functions makes of the lines.                                *)

(* A register that an instruction is left with is one of regs, and what    *)
(* else is called like one is the operand of a jump.                       *)
Small(args) == \A k \in DOMAIN args : args[k].kind = "reg" => args[k].num \in places
NamedAsSuch(args) ==
  \A k \in DOMAIN args : in_regs(casefold(args[k].name)) => args[k].kind = "reg"
Listed(args) ==
  \A k \in DOMAIN args :
    args[k].kind = "reg" /\ in_regs(args[k].name) => args[k].num \in places
SmallLine == {l \in Line : NamedAsSuch(l.args) /\ Listed(l.args)}
SmallInstruction ==
  {i \in Instruction : Small(i.args) /\ (i.name \notin jumps => NamedAsSuch(i.args))}
SmallFunction == {f \in Function : f.instructions \in Seq(SmallInstruction)}

(* Except in a jump, what is called like a register is one of regs.        *)
LEMMA RegisterOperand ==
  ASSUME NEW i \in SmallInstruction, i.name \notin jumps,
         NEW k \in DOMAIN i.args, in_regs(casefold(i.args[k].name))
  PROVE  i.args[k].kind = "reg" /\ i.args[k].num \in places
<1>1. NamedAsSuch(i.args) /\ Small(i.args)
  BY DEF SmallInstruction
<1>2. i.args[k].kind = "reg"
  BY <1>1 DEF NamedAsSuch
<1> QED
  BY <1>1, <1>2 DEF Small

LEMMA WhereIs ==
  ASSUME NEW seq, NEW n \in Nat, DOMAIN seq = 1 .. n, Len(seq) = n, NEW kind
  PROVE  /\ Where(seq, kind) \in Seq({k \in 1 .. n : seq[k].kind = kind})
         /\ Where(seq, kind) \in Seq(1 .. n)
<1> DEFINE S == {k \in 1 .. n : seq[k].kind = kind}
<1>1. Where(seq, kind) = Ascending(S, n)
  BY DEF Where
<1>2. Ascending(S, n) \in Seq(S)
  <2>1. S \in SUBSET (1 .. n)
    OBVIOUS
  <2> HIDE DEF S
  <2> QED
    BY <2>1, AscendingIs
<1> QED
  BY <1>1, <1>2

LEMMA ComponentIs ==
  ASSUME NEW l \in SmallLine, WellFormed(l), NEW n \in DOMAIN l.args
  PROVE  LET a == Component(l, l.args[n]) IN
         /\ a \in Operand
         /\ a.kind = "reg" => a.num \in places
         /\ ~ symcall(l) => a = l.args[n]
<1>1. l.args[n] \in Operand
  BY DEF SmallLine, Line
<1>2. CASE symcall(l) /\ l.args[n].kind = "reg"
  BY <1>1, <1>2 DEF Component, Operand
<1>3. CASE ~ (symcall(l) /\ l.args[n].kind = "reg")
  <2>1. Component(l, l.args[n]) = l.args[n]
    BY <1>3 DEF Component
  <2>2. l.args[n].kind = "reg" => l.args[n].num \in places
    BY <1>3 DEF WellFormed, SmallLine, Listed
  <2> QED
    BY <1>1, <2>1, <2>2
<1> QED
  BY <1>2, <1>3

LEMMA InstructionIs ==
  ASSUME NEW l \in SmallLine, WellFormed(l), NEW label \in Name
  PROVE  VMInstruction(l, label) \in SmallInstruction
<1> DEFINE args == l.args
           S == {n \in DOMAIN args : symcall(l) \/ args[n].kind # "name"}
           kept == Ascending(S, Len(args))
           left == [n \in DOMAIN kept |-> Component(l, args[kept[n]])]
<1>1. args \in Seq(Operand) /\ NamedAsSuch(args) /\ l.name \in Ops
  BY DEF SmallLine, Line, WellFormed
<1>2. VMInstruction(l, label) = [name |-> l.name, label |-> label, args |-> left]
  BY DEF VMInstruction
<1>c. ASSUME NEW n \in DOMAIN args
      PROVE  /\ Component(l, args[n]) \in Operand
             /\ Component(l, args[n]).kind = "reg"
                  => Component(l, args[n]).num \in places
             /\ ~ symcall(l) => Component(l, args[n]) = args[n]
  BY ComponentIs
<1> HIDE DEF args
<1>3. S \in SUBSET (1 .. Len(args)) /\ Len(args) \in Nat
  BY <1>1
<1> HIDE DEF S
<1>4. kept \in Seq(S)
  BY <1>3, AscendingIs
<1> HIDE DEF kept
<1>5. ASSUME NEW n \in DOMAIN kept
      PROVE  kept[n] \in DOMAIN args /\ left[n] = Component(l, args[kept[n]])
  <2>1. kept[n] \in S
    BY <1>4
  <2>2. DOMAIN args = 1 .. Len(args)
    BY <1>1
  <2>3. kept[n] \in DOMAIN args
    BY <1>3, <2>1, <2>2
  <2> QED
    BY <2>3
<1>6. left \in Seq(Operand)
  <2>1. \A n \in DOMAIN kept : left[n] \in Operand
    BY <1>5, <1>c
  <2>2. DOMAIN kept = 1 .. Len(kept) /\ Len(kept) \in Nat /\ DOMAIN left = DOMAIN kept
    BY <1>4
  <2>3. left \in [1 .. Len(kept) -> Operand]
    BY <2>1, <2>2
  <2> HIDE DEF left
  <2> QED
    BY <2>2, <2>3
<1>7. Small(left)
  BY <1>5, <1>c DEF Small
<1>8. l.name \notin jumps => NamedAsSuch(left)
  <2>1. l.name \notin jumps => ~ symcall(l)
    BY DEF symcall
  <2> QED
    BY <1>1, <1>5, <1>c, <2>1 DEF NamedAsSuch
<1> HIDE DEF left
<1>9. VMInstruction(l, label) \in Instruction
  BY <1>1, <1>2, <1>6 DEF Instruction
<1> QED
  BY <1>2, <1>7, <1>8, <1>9 DEF SmallInstruction

LEMMA FunctionIs ==
  ASSUME NEW name \in Name, NEW code \in Seq(SmallLine), Accepted(code)
  PROVE  VMFunction(name, code) \in SmallFunction
<1> DEFINE n == Len(code)
           S == {k \in 1 .. n : code[k].kind = "ins"}
           at == Where(code, "ins")
           label(m) == IF at[m] > 1 /\ code[at[m] - 1].kind = "label"
                         THEN code[at[m] - 1].name ELSE None
           made == [m \in DOMAIN at |-> VMInstruction(code[at[m]], label(m))]
<1>1. VMFunction(name, code) = [name |-> name, offset |-> 0, instructions |-> made]
  BY DEF VMFunction
<1>2. at \in Seq(S) /\ n \in Nat
  <2>1. n \in Nat /\ DOMAIN code = 1 .. n /\ Len(code) = n
    OBVIOUS
  <2> QED
    BY <2>1, WhereIs
<1> HIDE DEF at
<1>3. ASSUME NEW m \in DOMAIN at
      PROVE  VMInstruction(code[at[m]], label(m)) \in SmallInstruction
  <2>1. at[m] \in S
    BY <1>2
  <2>2. at[m] \in 1 .. n /\ code[at[m]].kind = "ins" /\ code[at[m]] \in SmallLine
    BY <2>1
  <2>3. WellFormed(code[at[m]])
    BY <2>2 DEF Accepted
  <2>4. label(m) \in Name
    <3> DEFINE marked == at[m] > 1 /\ code[at[m] - 1].kind = "label"
    <3>1. CASE marked
      <4>1. at[m] - 1 \in 1 .. n
        BY <2>2, <3>1
      <4>2. code[at[m] - 1] \in SmallLine
        BY <4>1
      <4>3. code[at[m] - 1].name \in STRING
        BY <4>2 DEF SmallLine, Line
      <4>4. label(m) = code[at[m] - 1].name
        BY <3>1
      <4> QED
        BY <4>3, <4>4 DEF Name
    <3>2. CASE ~ marked
      BY <3>2 DEF Name
    <3> QED
      BY <3>1, <3>2
  <2> HIDE DEF label
  <2> QED
    BY <2>2, <2>3, <2>4, InstructionIs
<1> HIDE DEF label
<1>4. made \in Seq(SmallInstruction)
  <2>1. DOMAIN at = 1 .. Len(at) /\ Len(at) \in Nat
    BY <1>2
  <2>2. made \in [1 .. Len(at) -> SmallInstruction]
    BY <1>3, <2>1
  <2> HIDE DEF made
  <2> QED
    BY <2>1, <2>2
<1> HIDE DEF made
<1>5. made \in Seq(Instruction)
  <2>1. SmallInstruction \subseteq Instruction
    BY DEF SmallInstruction
  <2> QED
    BY <1>4, <2>1
<1>6. VMFunction(name, code) \in Function
  BY <1>1, <1>5 DEF Function
<1> QED
  BY <1>1, <1>4, <1>6 DEF SmallFunction
LEMMA BodiesAre ==
  ASSUME source \in Seq(SmallLine), source # <<>>
  PROVE  /\ Bodies # <<>>
         /\ Bodies \in Seq([name : Name, code : Seq(SmallLine)])
<1> DEFINE N == Len(source)
           heads == Where(source, "def")
           S == {n \in DOMAIN heads : \/ source[heads[n]].name # ""
                                      \/ n = Len(heads)}
           added == Ascending(S, Len(heads))
           last(n) == IF n = Len(heads) THEN N ELSE heads[n + 1] - 1
           body(n) == [name |-> source[heads[n]].name,
                       code |-> SubSeq(source, heads[n] + 1, last(n))]
<1>1. heads \in Seq(1 .. N) /\ N \in Nat
  <2>1. N \in Nat /\ DOMAIN source = 1 .. N /\ Len(source) = N
    OBVIOUS
  <2> QED
    BY <2>1, WhereIs
<1>2. ASSUME NEW x \in 1 .. N PROVE source[x].name \in Name
  <2>1. source[x] \in SmallLine
    OBVIOUS
  <2> QED
    BY <2>1 DEF SmallLine, Line, Name
<1>3. CASE heads = <<>>
  <2>1. Bodies = <<[name |-> None, code |-> source]>>
    BY <1>3 DEF Bodies
  <2>2. [name |-> None, code |-> source] \in [name : Name, code : Seq(SmallLine)]
    BY DEF Name
  <2> QED
    BY <2>1, <2>2
<1>4. CASE heads # <<>>
  <2>1. Bodies = [m \in DOMAIN added |-> body(added[m])]
    BY <1>4 DEF Bodies
  <2> HIDE DEF heads
  <2>2. Len(heads) \in Nat \ {0} /\ DOMAIN heads = 1 .. Len(heads)
    BY <1>1, <1>4
  <2>3. S \in SUBSET (1 .. Len(heads)) /\ Len(heads) \in S
    <3>1. S \in SUBSET (1 .. Len(heads))
      BY <2>2
    <3>2. Len(heads) \in DOMAIN heads
      BY <2>2
    <3> QED
      BY <3>1, <3>2
  <2>4. added \in Seq(S) /\ added # <<>>
    <3> HIDE DEF S
    <3> QED
      BY <2>2, <2>3, AscendingIs
  <2> HIDE DEF S, added
  <2>5. ASSUME NEW n \in 1 .. Len(heads)
        PROVE  body(n) \in [name : Name, code : Seq(SmallLine)]
    <3>1. heads[n] \in 1 .. N
      BY <1>1
    <3>2. last(n) \in Int /\ last(n) <= N
      <4>1. CASE n = Len(heads)
        BY <1>1, <4>1
      <4>2. CASE n # Len(heads)
        <5>1. n + 1 \in 1 .. Len(heads)
          <6> HIDE DEF last
          <6>1. \A h \in Nat : n \in 1 .. h /\ n # h => n + 1 \in 1 .. h
            OBVIOUS
          <6> QED
            BY <2>2, <4>2, <6>1
        <5>2. heads[n + 1] \in 1 .. N
          BY <1>1, <5>1
        <5> QED
          BY <1>1, <4>2, <5>2
      <4> QED
        BY <4>1, <4>2
    <3> HIDE DEF last
    <3>3. \A x \in heads[n] + 1 .. last(n) : source[x] \in SmallLine
      BY <1>1, <3>1, <3>2
    <3>4. SubSeq(source, heads[n] + 1, last(n)) \in Seq(SmallLine)
      BY <3>1, <3>2, <3>3, SubSeqProperties
    <3> QED
      BY <1>2, <3>1, <3>4
  <2> HIDE DEF body
  <2>6. DOMAIN added = 1 .. Len(added) /\ Len(added) \in Nat \ {0}
    BY <2>4
  <2>7. ASSUME NEW m \in 1 .. Len(added) PROVE added[m] \in 1 .. Len(heads)
    <3>1. added[m] \in S
      BY <2>4
    <3> QED
      BY <2>3, <3>1
  <2>8. Bodies \in [1 .. Len(added) -> [name : Name, code : Seq(SmallLine)]]
    BY <2>1, <2>5, <2>6, <2>7
  <2> QED
    BY <2>6, <2>8, FunctionsAreSeqs
<1> QED
  BY <1>3, <1>4

LEMMA MainFirstIs ==
  ASSUME NEW S, NEW fs \in Seq(S), fs # <<>>
  PROVE  MainFirst(fs) \in Seq(S) /\ MainFirst(fs) # <<>>
<1> DEFINE mains == {n \in DOMAIN fs \ {1} : fs[n].name = "main"}
<1>1. DOMAIN fs = 1 .. Len(fs) /\ Len(fs) \in Nat \ {0}
  OBVIOUS
<1>2. CASE mains = {}
  BY <1>2 DEF MainFirst
<1>3. CASE mains # {}
  <2>1. mains \in SUBSET Nat
    BY <1>1
  <2>2. Min(mains) \in mains
    BY <1>3, <2>1, MinIs
  <2>3. Min(mains) \in 1 .. Len(fs)
    BY <1>1, <2>2
  <2> HIDE DEF mains
  <2>4. ASSUME NEW m \in 1 .. Len(fs)
        PROVE  SwapFirst(fs, m) \in Seq(S) /\ SwapFirst(fs, m) # <<>>
    <3>1. SwapFirst(fs, m) \in [1 .. Len(fs) -> S]
      BY <1>1 DEF SwapFirst
    <3> QED
      BY <1>1, <3>1
  <2>5. MainFirst(fs) = SwapFirst(fs, Min(mains))
    BY <1>3 DEF MainFirst, mains
  <2> QED
    BY <2>3, <2>4, <2>5
<1> QED
  BY <1>2, <1>3

LEMMA ParsedFunctions ==
  ASSUME source \in Seq(SmallLine), source # <<>>,
         \A n \in DOMAIN Bodies : Accepted(Bodies[n].code)
  PROVE  LET fs == MainFirst([n \in DOMAIN Bodies |->
                     VMFunction(Bodies[n].name, Bodies[n].code)])
         IN  fs \in Seq(SmallFunction) /\ fs # <<>>
<1> DEFINE gs == [n \in DOMAIN Bodies |->
                    VMFunction(Bodies[n].name, Bodies[n].code)]
<1>1. /\ Bodies \in Seq([name : Name, code : Seq(SmallLine)])
      /\ DOMAIN Bodies = 1 .. Len(Bodies) /\ Len(Bodies) \in Nat \ {0}
  BY BodiesAre
<1>2. ASSUME NEW n \in 1 .. Len(Bodies)
      PROVE  VMFunction(Bodies[n].name, Bodies[n].code) \in SmallFunction
  <2>1. Bodies[n].name \in Name /\ Bodies[n].code \in Seq(SmallLine)
    <3>1. Bodies[n] \in [name : Name, code : Seq(SmallLine)]
      BY <1>1, ElementOfSeq
    <3> QED
      BY <3>1
  <2>2. Accepted(Bodies[n].code)
    BY <1>1
  <2> QED
    BY <2>1, <2>2, FunctionIs
<1>3. gs \in [1 .. Len(Bodies) -> SmallFunction]
  BY <1>1, <1>2
<1> HIDE DEF gs
<1>4. gs \in Seq(SmallFunction) /\ gs # <<>>
  BY <1>1, <1>3, FunctionsAreSeqs
<1> QED
  BY <1>4, MainFirstIs DEF gs
-----------------------------------------------------------------------------
(* What parse emits for an instruction.                                    *)

Encoding(i) == <<opcodes[i.name]>> \o Operands(i)

LEMMA JumpCoding ==
  \A op \in Ops : method(op) = "jump" <=> op \in jumps
  BY DBGAssumption DEF method, jumps, Ops, REG2REG, IMM2REG, BYT2REG, REGONLY,
     IMMONLY, SINGLE

LEMMA NibblesByte ==
  ASSUME NEW a \in Byte, a < 16, NEW b \in Byte
  PROVE  16 * a + (b % 16) \in Byte
<1>1. a \in 0 .. 15 /\ b \in Nat
  BY ByteIs
<1>2. b % 16 \in 0 .. 15
  BY <1>1
<1> QED
  BY <1>1, <1>2, ByteIs

LEMMA WordBytesAre ==
  ASSUME NEW w \in Word
  PROVE  WordBytes(w) \in Seq(Byte) /\ Len(WordBytes(w)) = 2
  BY HalvesByte DEF WordBytes

LEMMA ByteAndWord ==
  ASSUME NEW x \in Byte, NEW w \in Seq(Byte), Len(w) = 2
  PROVE  /\ <<x>> \o w \in Seq(Byte) /\ Len(<<x>> \o w) = 3
         /\ w \o <<x>> \in Seq(Byte) /\ Len(w \o <<x>>) = 3
<1> DEFINE s == <<x>>
<1>1. s \in Seq(Byte) /\ Len(s) = 1
  OBVIOUS
<1> HIDE DEF s
<1>2. s \o w \in Seq(Byte) /\ w \o s \in Seq(Byte)
  BY <1>1
<1>3. Len(s \o w) = Len(s) + Len(w) /\ Len(w \o s) = Len(w) + Len(s)
  BY <1>1, ConcatProperties
<1>4. Len(s \o w) = 3 /\ Len(w \o s) = 3
  BY <1>1, <1>3
<1> QED
  BY <1>2, <1>4 DEF s

(* Whatever is encodable is encoded as bytes, and as many as the layout    *)
(* counts, register jumps excepted.                                        *)
LEMMA OperandsAre ==
  ASSUME NEW i \in SmallInstruction, Encodable(i)
  PROVE  /\ Operands(i) \in Seq(Byte)
         /\ i.name \notin RegisterJumps => Len(Operands(i)) = Width(i) - 1
<1> DEFINE a == i.args
           m == method(i.name)
           x == value(a[1])
           y == value(a[2])
<1>1. i.name \in Ops
  BY DEF SmallInstruction, Instruction
<1>2. m \in Codings
  BY <1>1, MethodCodings
<1>3. /\ reg8(a[1]) \/ uint8(a[1]) => x \in Byte
      /\ reg8(a[2]) \/ uint8(a[2]) => y \in Byte
      /\ uint16(a[1]) => x \in Word
      /\ uint16(a[2]) => y \in Word
  BY DEF reg8, uint8, uint16
<1>4. Width(i) = ops_sizes(m)
  BY DEF Width
<1>6. CASE m = "imm2reg"
  <2>1. reg8(a[1]) /\ uint16(a[2])
    BY <1>6 DEF Encodable
  <2>2. x \in Byte /\ WordBytes(y) \in Seq(Byte) /\ Len(WordBytes(y)) = 2
    BY <1>3, <2>1, WordBytesAre
  <2>3. Operands(i) = <<x>> \o WordBytes(y)
    BY <1>6 DEF Operands
  <2>4. ops_sizes(m) = 4
    BY <1>6 DEF ops_sizes
  <2> HIDE DEF m, x, y
  <2> QED
    BY <1>4, <2>2, <2>3, <2>4, ByteAndWord
<1>7. CASE m = "reg2reg"
  <2>1. reg8(a[1]) /\ reg8(a[2]) /\ x < 16
    BY <1>7 DEF Encodable
  <2>2. 16 * x + (y % 16) \in Byte
    BY <1>3, <2>1, NibblesByte
  <2>3. Operands(i) = <<16 * x + (y % 16)>>
    BY <1>7 DEF Operands
  <2>4. ops_sizes(m) = 2
    BY <1>7 DEF ops_sizes
  <2> HIDE DEF m, x, y
  <2> QED
    BY <1>4, <2>2, <2>3, <2>4
<1>8. CASE m = "reg2imm"
  <2>1. uint16(a[1]) /\ reg8(a[2])
    BY <1>8 DEF Encodable
  <2>2. y \in Byte /\ WordBytes(x) \in Seq(Byte) /\ Len(WordBytes(x)) = 2
    BY <1>3, <2>1, WordBytesAre
  <2>3. Operands(i) = WordBytes(x) \o <<y>>
    BY <1>8 DEF Operands
  <2>4. ops_sizes(m) = 4
    BY <1>8 DEF ops_sizes
  <2> HIDE DEF m, x, y
  <2> QED
    BY <1>4, <2>2, <2>3, <2>4, ByteAndWord
<1>9. CASE m = "byt2reg"
  <2>1. reg8(a[1]) /\ uint8(a[2])
    BY <1>9 DEF Encodable
  <2>2. x \in Byte /\ y \in Byte
    BY <1>3, <2>1
  <2>3. Operands(i) = <<x, y>>
    BY <1>9 DEF Operands
  <2>4. ops_sizes(m) = 3
    BY <1>9 DEF ops_sizes
  <2> HIDE DEF m, x, y
  <2> QED
    BY <1>4, <2>2, <2>3, <2>4
<1>10. CASE m = "regonly"
  <2>1. reg8(a[1])
    BY <1>10 DEF Encodable
  <2>2. x \in Byte
    BY <1>3, <2>1
  <2>3. Operands(i) = <<x>>
    BY <1>10 DEF Operands
  <2>4. ops_sizes(m) = 2
    BY <1>10 DEF ops_sizes
  <2> HIDE DEF m, x, y
  <2> QED
    BY <1>4, <2>2, <2>3, <2>4
<1>11. CASE m = "jump" /\ ToImmediate(i.name)
  <2>1. uint16(a[1])
    BY <1>11 DEF Encodable
  <2>2. WordBytes(x) \in Seq(Byte) /\ Len(WordBytes(x)) = 2
    BY <1>3, <2>1, WordBytesAre
  <2>3. Operands(i) = WordBytes(x)
    BY <1>11 DEF Operands
  <2>4. ops_sizes(m) = 3
    BY <1>11 DEF ops_sizes
  <2> HIDE DEF m, x
  <2> QED
    BY <1>4, <2>2, <2>3, <2>4
<1>12. CASE m = "jump" /\ ~ ToImmediate(i.name)
  <2>1. reg8(a[1])
    BY <1>12 DEF Encodable
  <2>2. x \in Byte
    BY <1>3, <2>1
  <2>3. Operands(i) = <<x>>
    BY <1>12 DEF Operands
  <2>4. i.name \in RegisterJumps
    <3>1. i.name \in jumps
      BY <1>1, <1>12, JumpCoding
    <3> QED
      BY <1>12, <3>1, Zenon DEF RegisterJumps
  <2> HIDE DEF x
  <2> QED
    BY <2>2, <2>3, <2>4
<1>13. CASE m = "single"
  <2>1. Operands(i) = <<>>
    BY <1>13 DEF Operands
  <2>2. ops_sizes(m) = 1
    BY <1>13 DEF ops_sizes
  <2> QED
    BY <1>4, <2>1, <2>2
<1> QED
  BY <1>2, <1>6, <1>7, <1>8, <1>9, <1>10, <1>11, <1>12, <1>13 DEF Codings

LEMMA EncodingIs ==
  ASSUME NEW i \in SmallInstruction, Encodable(i)
  PROVE  /\ Encoding(i) \in Seq(Byte)
         /\ Len(Encoding(i)) \in Nat
         /\ i.name \notin RegisterJumps => Len(Encoding(i)) = Width(i)
<1>1. i.name \in Ops
  BY DEF SmallInstruction, Instruction
<1>2. opcodes[i.name] \in Byte /\ Width(i) \in Nat
  BY <1>1, OpcodesAssumption, WidthNat
<1>3. <<opcodes[i.name]>> \in Seq(Byte) /\ Len(<<opcodes[i.name]>>) = 1
  BY <1>2
<1>4. Operands(i) \in Seq(Byte) /\ Len(Operands(i)) \in Nat
  BY OperandsAre
<1>5. Encoding(i) \in Seq(Byte) /\ Len(Encoding(i)) = 1 + Len(Operands(i))
  BY <1>3, <1>4 DEF Encoding
<1> QED
  BY <1>2, <1>4, <1>5, OperandsAre
-----------------------------------------------------------------------------
(* The inductive invariant.  Symbols are resolved behind the loop          *)
(* variables before anything is emitted; then the code grows by one        *)
(* instruction after the other, each at the place of the layout.           *)

Before(n, m) == n < fun \/ (n = fun /\ m < ins)

(* main, or else the first function, starts the code; the others follow.   *)
Layout ==
  /\ functions # <<>>
  /\ functions[1].offset = 0
  /\ \A n \in 1 .. Len(functions) : n > 1 =>
       functions[n].offset = functions[n - 1].offset
                               + size(functions[n - 1].instructions)

InLoop ==
  /\ fun \in 1 .. Len(functions)
  /\ ins \in 1 .. Len(functions[fun].instructions) + 1

Place(n, m) == functions[n].offset + offset_of_instruction(functions[n], m)

(* Where an instruction begins, or a function ends; where the code ends.   *)
AtPoint(x) == \E n \in 1 .. Len(functions) :
                \E m \in 1 .. Len(functions[n].instructions) + 1 : x = Place(n, m)
CodeEnd == Place(Len(functions), Len(functions[Len(functions)].instructions) + 1)

Resolved(n, m) ==
  LET i == functions[n].instructions[m]
      name == casefold(i.args[1].name)
  IN  symcall(i) =>
        /\ i.args[1].kind # "reg" =>
             /\ name \in LabelsOf(functions[n]) =>
                  i.args[1].num = offset_of_label(functions[n], name)
                                    + functions[n].offset
             /\ name \notin Labels /\ Named(name) # {} =>
                  i.args[1].num = functions[Min(Named(name))].offset
        /\ AtPoint(value(i.args[1]))

(* Registers keep their numbers in a text in which no jump is left with a  *)
(* register that all instructions share.                                   *)
NoSharing ==
  \A n \in 1 .. Len(functions) : \A m \in 1 .. Len(functions[n].instructions) :
    symcall(functions[n].instructions[m]) =>
      functions[n].instructions[m].args[1].kind # "reg"
Numbered == \A r \in places : reg_values[r] = r
OwnNumbers == NoSharing => Numbered

ResolvedAll ==
  \A n \in 1 .. Len(functions) :
    \A m \in 1 .. Len(functions[n].instructions) : Resolved(n, m)
ResolvedBefore ==
  \A n \in 1 .. Len(functions) :
    \A m \in 1 .. Len(functions[n].instructions) :
      Before(n, m) => Resolved(n, m)

Emitted(p) ==
  /\ p.fun \in 1 .. Len(functions)
  /\ p.ins \in 1 .. Len(functions[p.fun].instructions)
  /\ Encodable(instruction(p))
  /\ \A k \in 1 .. Len(Encoding(instruction(p))) :
       /\ p.at + k <= Len(assembled_code)
       /\ assembled_code[p.at + k] = Encoding(instruction(p))[k]
  /\ NoRegisterJumps => p.at = Place(p.fun, p.ins)

Put(n, m) == \E p \in placed : p.fun = n /\ p.ins = m
PutAll ==
  \A n \in 1 .. Len(functions) :
    \A m \in 1 .. Len(functions[n].instructions) : Put(n, m)
PutBefore ==
  \A n \in 1 .. Len(functions) :
    \A m \in 1 .. Len(functions[n].instructions) : Before(n, m) => Put(n, m)

Typed ==
  /\ source \in Seq(SmallLine)
  /\ functions \in Seq(SmallFunction)
  /\ reg_values \in [places -> Nat]
  /\ fun \in Nat \ {0} /\ ins \in Nat \ {0}
  /\ offset \in Nat \cup {Unbound}
  /\ assembled_code \in Seq(Byte)
  /\ placed \subseteq [fun : Nat, ins : Nat, at : Nat]

Fresh ==
  /\ fun = 1 /\ ins = 1 /\ offset = Unbound /\ placed = {} /\ assembled_code = <<>>
  /\ Numbered
Resolving ==
  /\ OwnNumbers
  /\ placed = {} /\ assembled_code = <<>>
  /\ Layout /\ InLoop /\ ResolvedBefore
  /\ offset = Unbound \/ AtPoint(offset)
Emitting ==
  /\ OwnNumbers
  /\ Layout /\ InLoop /\ ResolvedAll
  /\ \A p \in placed : Emitted(p)
  /\ PutBefore
  /\ NoRegisterJumps => Len(assembled_code) = Place(fun, ins)
Finished ==
  /\ OwnNumbers
  /\ Layout /\ ResolvedAll /\ PutAll
  /\ \A p \in placed : Emitted(p)
  /\ NoRegisterJumps => Len(assembled_code) = CodeEnd

IInv ==
  /\ Typed
  /\ \/ pc = "parse_functions" /\ Fresh
     \/ pc = "resolve_functions_offsets" /\ Fresh /\ functions # <<>>
     \/ pc = "resolve_symbols" /\ Resolving
     \/ pc = "parse" /\ Emitting
     \/ pc = "done" /\ Finished
     \/ pc = "raised"

LEMMA TextsAre == \A text \in Sources : text \in Seq(SmallLine)
<1> SUFFICES ASSUME NEW text \in Sources PROVE text \in Seq(SmallLine)
  OBVIOUS
<1>1. text \in Seq(Line) /\ DOMAIN text = 1 .. Len(text)
  BY SourcesAssumption
<1>2. ASSUME NEW n \in 1 .. Len(text) PROVE text[n] \in SmallLine
  <2>1. text[n] \in Line
    BY <1>1
  <2>2. \A k \in DOMAIN text[n].args :
          /\ in_regs(casefold(text[n].args[k].name)) => text[n].args[k].kind = "reg"
          /\ \A r \in places :
               /\ text[n].args[k].kind = "reg"
               /\ text[n].args[k].name = reg_names[r + 1]
               => text[n].args[k].num = r
    BY <1>1, SourcesAssumption
  <2>3. NamedAsSuch(text[n].args)
    BY <2>2 DEF NamedAsSuch
  <2>4. Listed(text[n].args)
    BY <2>2 DEF Listed, in_regs
  <2> QED
    BY <2>1, <2>3, <2>4 DEF SmallLine
<1>3. text \in [1 .. Len(text) -> SmallLine] /\ Len(text) \in Nat
  BY <1>1, <1>2
<1> QED
  BY <1>3

LEMMA FunctionsAre ==
  ASSUME functions \in Seq(SmallFunction)
  PROVE  /\ Len(functions) \in Nat /\ DOMAIN functions = 1 .. Len(functions)
         /\ \A n \in 1 .. Len(functions) :
              LET instrs == functions[n].instructions IN
              /\ functions[n] \in Function
              /\ functions[n].offset \in Nat
              /\ functions[n].name \in Name
              /\ instrs \in Seq(SmallInstruction)
              /\ Len(instrs) \in Nat /\ DOMAIN instrs = 1 .. Len(instrs)
              /\ \A m \in 1 .. Len(instrs) : instrs[m] \in SmallInstruction
<1>1. Len(functions) \in Nat /\ DOMAIN functions = 1 .. Len(functions)
  OBVIOUS
<1>2. ASSUME NEW n \in 1 .. Len(functions)
      PROVE  LET instrs == functions[n].instructions IN
              /\ functions[n] \in Function
              /\ functions[n].offset \in Nat
              /\ functions[n].name \in Name
              /\ instrs \in Seq(SmallInstruction)
              /\ Len(instrs) \in Nat /\ DOMAIN instrs = 1 .. Len(instrs)
              /\ \A m \in 1 .. Len(instrs) : instrs[m] \in SmallInstruction
  <2> DEFINE instrs == functions[n].instructions
  <2>1. functions[n] \in SmallFunction
    OBVIOUS
  <2>2. functions[n] \in Function /\ instrs \in Seq(SmallInstruction)
    BY <2>1 DEF SmallFunction
  <2>3. functions[n].offset \in Nat /\ functions[n].name \in Name
    BY <2>2 DEF Function
  <2> HIDE DEF instrs
  <2>4. /\ Len(instrs) \in Nat /\ DOMAIN instrs = 1 .. Len(instrs)
        /\ \A m \in 1 .. Len(instrs) : instrs[m] \in SmallInstruction
    BY <2>2
  <2> QED
    BY <2>2, <2>3, <2>4 DEF instrs
<1> QED
  BY <1>1, <1>2

LEMMA InitIInv == Init => IInv
<1> SUFFICES ASSUME Init PROVE IInv
  OBVIOUS
<1>1. source \in Seq(SmallLine)
  BY TextsAre DEF Init
<1>2. reg_values = [r \in places |-> r]
  BY DEF Init
<1>3. reg_values \in [places -> Nat] /\ Numbered
  <2>1. places \subseteq Nat
    BY DEF places
  <2> QED
    BY <1>2, <2>1 DEF Numbered
<1>4. Typed
  BY <1>1, <1>3 DEF Init, Typed
<1> QED
  BY <1>3, <1>4 DEF Init, IInv, Fresh

LEMMA IInvTypeOK == IInv => TypeOK
<1> SUFFICES ASSUME IInv PROVE TypeOK
  OBVIOUS
<1>1. source \in Seq(Line)
  <2>1. SmallLine \subseteq Line
    BY DEF SmallLine
  <2> QED
    BY <2>1 DEF IInv, Typed
<1>2. functions \in Seq(Function)
  <2>1. SmallFunction \subseteq Function
    BY DEF SmallFunction
  <2> QED
    BY <2>1 DEF IInv, Typed
<1> QED
  BY <1>1, <1>2 DEF IInv, Typed, TypeOK, Methods

LEMMA IInvInPlace == IInv => InPlace
<1> SUFFICES ASSUME IInv, pc = "parse", NoRegisterJumps, NEW p \in placed
             PROVE  p.at = functions[p.fun].offset
                             + offset_of_instruction(functions[p.fun], p.ins)
  BY DEF InPlace
<1>1. Emitted(p)
  BY DEF IInv, Emitting
<1> QED
  BY <1>1 DEF Emitted, Place

(* The symbols, from the two passes.                                       *)
LEMMA TargetIs ==
  ASSUME Typed, NEW p \in placed, Emitted(p), ToImmediate(instruction(p).name)
  PROVE  target(p) = value(instruction(p).args[1])
<1> DEFINE i == instruction(p)
           w == value(i.args[1])
<1>1. p.at \in Nat /\ assembled_code \in Seq(Byte)
  BY DEF Typed
<1>2. i \in SmallInstruction
  <2>1. functions \in Seq(SmallFunction)
    BY DEF Typed
  <2> QED
    BY <2>1, FunctionsAre DEF Emitted, instruction
<1>3. i.name \in Ops
  BY <1>2 DEF SmallInstruction, Instruction
<1>4. method(i.name) = "jump"
  <2>1. i.name \in jumps
    BY DEF ToImmediate, jumps
  <2> QED
    BY <1>3, <2>1, JumpCoding
<1>5. Encodable(i) /\ ToImmediate(i.name)
  BY DEF Emitted
<1> HIDE DEF i
<1>6. w \in Word
  BY <1>4, <1>5 DEF Encodable, uint16
<1>7. Operands(i) = WordBytes(w)
  BY <1>4, <1>5 DEF Operands
<1>8. opcodes[i.name] \in Byte
  BY <1>3, OpcodesAssumption
<1> HIDE DEF w
<1>9. /\ Len(Encoding(i)) = 3
      /\ Encoding(i)[2] = LoByte(w) /\ Encoding(i)[3] = HiByte(w)
  <2>1. WordBytes(w) \in Seq(Byte) /\ Len(WordBytes(w)) = 2
    BY <1>6, WordBytesAre
  <2>2. WordBytes(w)[1] = LoByte(w) /\ WordBytes(w)[2] = HiByte(w)
    BY DEF WordBytes
  <2>3. Encoding(i) = <<opcodes[i.name]>> \o WordBytes(w)
    BY <1>7 DEF Encoding
  <2>4. <<opcodes[i.name]>> \in Seq(Byte) /\ Len(<<opcodes[i.name]>>) = 1
    BY <1>8
  <2>5. ASSUME NEW s \in Seq(Byte), NEW t \in Seq(Byte), Len(s) = 1, Len(t) = 2
        PROVE  Len(s \o t) = 3 /\ (s \o t)[2] = t[1] /\ (s \o t)[3] = t[2]
    <3>1. /\ Len(s \o t) = Len(s) + Len(t)
          /\ \A k \in 1 .. Len(s) + Len(t) :
               (s \o t)[k] = IF k <= Len(s) THEN s[k] ELSE t[k - Len(s)]
      BY ConcatProperties
    <3>2. Len(s \o t) = 3
      BY <2>5, <3>1
    <3>3. (s \o t)[2] = t[1]
      BY <2>5, <3>1
    <3>4. (s \o t)[3] = t[2]
      BY <2>5, <3>1
    <3> QED
      BY <3>2, <3>3, <3>4
  <2> HIDE DEF w
  <2>6. /\ Len(Encoding(i)) = 3
        /\ Encoding(i)[2] = WordBytes(w)[1] /\ Encoding(i)[3] = WordBytes(w)[2]
    BY <2>1, <2>3, <2>4, <2>5
  <2> QED
    BY <2>2, <2>6
<1>10. /\ assembled_code[p.at + 2] = Encoding(i)[2]
       /\ assembled_code[p.at + 3] = Encoding(i)[3]
  BY <1>9 DEF Emitted, i
<1>11. target(p) = MkWord(LoByte(w), HiByte(w))
  BY <1>9, <1>10 DEF target
<1> QED
  BY <1>6, <1>11, HalvesMakeWord DEF w, i

LEMMA IInvSymbolsBound == IInv => SymbolsBound
<1> SUFFICES ASSUME IInv, pc = "done", NoRegisterJumps,
                    NEW p \in ImmediateJumps,
                    instruction(p).args[1].kind # "reg"
             PROVE  /\ symbol(p) \in LabelsOf(functions[p.fun]) =>
                         \E q \in placed : /\ q.fun = p.fun
                                           /\ instruction(q).label = symbol(p)
                                           /\ q.at = target(p)
                    /\ symbol(p) \notin Labels /\ Named(symbol(p)) # {} =>
                         LET f == Min(Named(symbol(p))) IN
                         functions[f].instructions # <<>> =>
                           \E q \in placed : q.fun = f /\ q.ins = 1
                                             /\ q.at = target(p)
  BY DEF SymbolsBound
<1>1. Typed /\ Finished
  BY DEF IInv
<1>2. p \in placed /\ ToImmediate(instruction(p).name) /\ symcall(instruction(p))
  BY DEF ImmediateJumps
<1>3. Emitted(p)
  BY <1>1, <1>2 DEF Finished
<1>4. target(p) = instruction(p).args[1].num
  BY <1>1, <1>2, <1>3, TargetIs DEF value
<1>5. functions \in Seq(SmallFunction)
  BY <1>1 DEF Typed
<1>6. /\ p.fun \in 1 .. Len(functions)
      /\ p.ins \in 1 .. Len(functions[p.fun].instructions)
  BY <1>3 DEF Emitted
<1>7. Resolved(p.fun, p.ins)
  BY <1>1, <1>6 DEF Finished, ResolvedAll
<1>8. ASSUME symbol(p) \in LabelsOf(functions[p.fun])
      PROVE  \E q \in placed : /\ q.fun = p.fun
                               /\ instruction(q).label = symbol(p)
                               /\ q.at = target(p)
  <2> DEFINE f == functions[p.fun]
             hits == {n \in DOMAIN f.instructions :
                        f.instructions[n].label = symbol(p)}
  <2>1. DOMAIN f.instructions = 1 .. Len(f.instructions)
    BY <1>5, <1>6, FunctionsAre
  <2>2. hits \in SUBSET Nat /\ hits # {}
    BY <1>8, <2>1 DEF LabelsOf
  <2>3. Min(hits) \in hits
    BY <2>2, MinIs
  <2>4. Min(hits) \in 1 .. Len(f.instructions)
        /\ f.instructions[Min(hits)].label = symbol(p)
    BY <2>1, <2>3
  <2>5. offset_of_label(f, symbol(p)) = offset_of_instruction(f, Min(hits))
    BY <2>2 DEF offset_of_label
  <2> HIDE DEF hits
  <2>6. PICK q \in placed : q.fun = p.fun /\ q.ins = Min(hits)
    BY <1>1, <1>6, <2>4 DEF Finished, PutAll, Put
  <2>7. Emitted(q)
    BY <1>1 DEF Finished
  <2>8. q.at = f.offset + offset_of_instruction(f, Min(hits))
    BY <2>6, <2>7 DEF Emitted, Place
  <2>9. instruction(p).args[1].num = offset_of_label(f, symbol(p)) + f.offset
    BY <1>2, <1>7, <1>8 DEF Resolved, instruction, symbol
  <2>10. f.offset \in Nat /\ f \in Function
    BY <1>5, <1>6, FunctionsAre
  <2>11. offset_of_instruction(f, Min(hits)) \in Nat
    <3>1. Min(hits) \in 1 .. Len(f.instructions) + 1
      BY <2>4
    <3> HIDE DEF f
    <3> QED
      BY <2>10, <3>1, OffsetsAddUp
  <2>12. q.at = target(p)
    BY <1>4, <2>5, <2>8, <2>9, <2>10, <2>11
  <2> QED
    BY <2>4, <2>6, <2>12 DEF instruction
<1>9. ASSUME symbol(p) \notin Labels, Named(symbol(p)) # {},
             functions[Min(Named(symbol(p)))].instructions # <<>>
      PROVE  \E q \in placed : /\ q.fun = Min(Named(symbol(p))) /\ q.ins = 1
                               /\ q.at = target(p)
  <2> DEFINE n == Min(Named(symbol(p)))
             f == functions[n]
  <2>1. n \in 1 .. Len(functions)
    <3>1. Named(symbol(p)) \in SUBSET (1 .. Len(functions))
      BY <1>5, FunctionsAre DEF Named
    <3>2. Min(Named(symbol(p))) \in Named(symbol(p))
      BY <1>9, <3>1, MinIs
    <3> QED
      BY <3>1, <3>2
  <2> HIDE DEF n
  <2>2. /\ f.offset \in Nat /\ f \in Function
        /\ f.instructions \in Seq(SmallInstruction)
    BY <1>5, <2>1, FunctionsAre
  <2>3. 1 \in 1 .. Len(f.instructions)
    <3>1. f.instructions # <<>>
      BY <1>9 DEF n
    <3> QED
      BY <2>2, <3>1
  <2>4. PICK q \in placed : q.fun = n /\ q.ins = 1
    BY <1>1, <2>1, <2>3 DEF Finished, PutAll, Put
  <2>5. Emitted(q)
    BY <1>1 DEF Finished
  <2>6. q.at = f.offset + offset_of_instruction(f, 1)
    BY <2>4, <2>5 DEF Emitted, Place
  <2>7. offset_of_instruction(f, 1) = 0
    BY <2>2, OffsetsAddUp
  <2>8. instruction(p).args[1].num = f.offset
    BY <1>2, <1>7, <1>9 DEF Resolved, instruction, symbol, n
  <2>9. q.at = target(p)
    BY <1>4, <2>2, <2>6, <2>7, <2>8
  <2> QED
    BY <2>4, <2>9 DEF n
<1> QED
  BY <1>8, <1>9

(* A function ends where the next one begins.                              *)
LEMMA NextPlace ==
  ASSUME functions \in Seq(SmallFunction), Layout,
         NEW n \in 1 .. Len(functions), n < Len(functions)
  PROVE  Place(n, Len(functions[n].instructions) + 1) = Place(n + 1, 1)
<1>1. Len(functions) \in Nat
  OBVIOUS
<1>2. n + 1 \in 1 .. Len(functions) /\ n + 1 > 1 /\ (n + 1) - 1 = n
  BY <1>1
<1>3. /\ functions[n] \in Function /\ functions[n + 1] \in Function
      /\ functions[n + 1].offset \in Nat
  BY <1>2, FunctionsAre
<1>4. functions[n + 1].offset
        = functions[n].offset + size(functions[n].instructions)
  BY <1>2 DEF Layout
<1>5. Place(n, Len(functions[n].instructions) + 1) = functions[n + 1].offset
  BY <1>3, <1>4, OffsetsAddUp DEF Place
<1>6. offset_of_instruction(functions[n + 1], 1) = 0
  BY <1>3, OffsetsAddUp
<1> QED
  BY <1>3, <1>5, <1>6 DEF Place

(* When the code is complete, every point of the layout but the last one   *)
(* is an instruction: the first one of a function that is not empty, if a  *)
(* function ends there.                                                    *)
LEMMA PointPlaced ==
  ASSUME Typed, Finished, NoRegisterJumps, NEW x, AtPoint(x)
  PROVE  x = Len(assembled_code) \/ \E q \in placed : q.at = x
<1> SUFFICES ASSUME x # Len(assembled_code), \A q \in placed : q.at # x
             PROVE  FALSE
  OBVIOUS
<1> DEFINE L == Len(functions)
           last(n) == Len(functions[n].instructions) + 1
           in(n) == \E m \in 1 .. last(n) : x = Place(n, m)
           T == {k \in 0 .. L - 1 : in(L - k)}
<1>1. functions \in Seq(SmallFunction) /\ L \in Nat /\ Layout
  BY DEF Typed, Finished
<1>2. \A n \in 1 .. L : last(n) \in Nat \ {0}
  BY <1>1, FunctionsAre
<1>3. \E n \in 1 .. L : in(n)
  BY DEF AtPoint
<1> HIDE DEF in
<1>4. T \in SUBSET Nat /\ T # {}
  <2>1. PICK n \in 1 .. L : in(n)
    BY <1>3
  <2>2. L - n \in 0 .. L - 1 /\ L - (L - n) = n
    BY <1>1
  <2>3. L - n \in T
    BY <2>1, <2>2
  <2>4. 0 .. L - 1 \subseteq Nat /\ T \subseteq 0 .. L - 1
    OBVIOUS
  <2> HIDE DEF T, L
  <2> QED
    BY <2>3, <2>4
<1>5. PICK k \in T : \A j \in T : k <= j
  BY <1>4, Least
<1> DEFINE n == L - k
<1>6. n \in 1 .. L /\ in(n) /\ k \in 0 .. L - 1
  BY <1>1, <1>5
<1>7. PICK m \in 1 .. last(n) : x = Place(n, m)
  BY <1>6 DEF in
<1> HIDE DEF n
<1>8. m = last(n)
  <2> SUFFICES ASSUME m # last(n) PROVE FALSE
    OBVIOUS
  <2>1. m \in 1 .. Len(functions[n].instructions)
    <3>1. last(n) \in Nat /\ Len(functions[n].instructions) \in Nat
      BY <1>1, <1>2, <1>6, FunctionsAre
    <3> QED
      BY <1>7, <3>1
  <2>2. PICK q \in placed : q.fun = n /\ q.ins = m
    BY <1>6, <2>1 DEF Finished, PutAll, Put
  <2>3. q.at = Place(n, m)
    BY <2>2 DEF Finished, Emitted
  <2> QED
    BY <1>7, <2>3
<1>9. n < L
  <2>1. Len(assembled_code) = Place(L, last(L))
    BY DEF Finished, CodeEnd
  <2>2. n # L
    BY <1>7, <1>8, <2>1
  <2> HIDE DEF L, last
  <2> QED
    BY <1>1, <1>6, <2>2
<1>10. x = Place(n + 1, 1)
  BY <1>1, <1>6, <1>7, <1>8, <1>9, NextPlace
<1>11. n + 1 \in 1 .. L /\ n + 1 = L - (k - 1) /\ k - 1 \in 0 .. L - 1
  BY <1>1, <1>6, <1>9 DEF n
<1>12. in(n + 1)
  <2>1. 1 \in 1 .. last(n + 1)
    BY <1>2, <1>11
  <2> HIDE DEF last
  <2> QED
    BY <1>10, <2>1 DEF in
<1>13. k - 1 \in T
  BY <1>11, <1>12
<1> HIDE DEF T
<1> QED
  BY <1>5, <1>6, <1>13

LEMMA IInvJumpsLand == IInv => JumpsLand
<1> SUFFICES ASSUME IInv, pc = "done", NoRegisterJumps,
                    NEW p \in ImmediateJumps
             PROVE  \/ target(p) = Len(assembled_code)
                    \/ \E q \in placed : q.at = target(p)
  BY DEF JumpsLand
<1>1. Typed /\ Finished
  BY DEF IInv
<1>2. p \in placed /\ ToImmediate(instruction(p).name) /\ symcall(instruction(p))
  BY DEF ImmediateJumps
<1>3. Emitted(p)
  BY <1>1, <1>2 DEF Finished
<1>4. target(p) = value(instruction(p).args[1])
  BY <1>1, <1>2, <1>3, TargetIs
<1>5. Resolved(p.fun, p.ins)
  BY <1>1, <1>3 DEF Finished, ResolvedAll, Emitted
<1>6. AtPoint(value(instruction(p).args[1]))
  BY <1>2, <1>5 DEF Resolved, instruction
<1> QED
  BY <1>1, <1>4, <1>6, PointPlaced
-----------------------------------------------------------------------------
(* The steps.                                                              *)

LEMMA ParseStep == IInv /\ parse_functions => IInv'
<1> SUFFICES ASSUME IInv, parse_functions PROVE IInv'
  OBVIOUS
<1>1. Typed /\ Fresh /\ pc = "parse_functions"
  BY DEF IInv, parse_functions
<1>2. UNCHANGED <<source, reg_values, fun, ins, offset, assembled_code, placed>>
  BY DEF parse_functions
<1>3. Fresh'
  BY <1>1, <1>2 DEF Fresh, Numbered
<1>4. CASE source # <<>> /\ \A n \in DOMAIN Bodies : Accepted(Bodies[n].code)
  <2>1. /\ pc' = "resolve_functions_offsets"
        /\ functions' = MainFirst([n \in DOMAIN Bodies |->
                          VMFunction(Bodies[n].name, Bodies[n].code)])
    BY <1>4 DEF parse_functions
  <2>2. functions' \in Seq(SmallFunction) /\ functions' # <<>>
    BY <1>1, <1>4, <2>1, ParsedFunctions DEF Typed
  <2>3. Typed'
    BY <1>1, <1>2, <2>2 DEF Typed
  <2> QED
    BY <1>3, <2>1, <2>2, <2>3 DEF IInv
<1>5. CASE ~ (source # <<>> /\ \A n \in DOMAIN Bodies : Accepted(Bodies[n].code))
  <2>1. pc' = "raised" /\ functions' = functions
    BY <1>5 DEF parse_functions, Raise
  <2>2. Typed'
    BY <1>1, <1>2, <2>1 DEF Typed
  <2> QED
    BY <2>1, <2>2 DEF IInv
<1> QED
  BY <1>4, <1>5

LEMMA OffsetsStep == IInv /\ resolve_functions_offsets => IInv'
<1> SUFFICES ASSUME IInv, resolve_functions_offsets PROVE IInv'
  OBVIOUS
<1> DEFINE L == Len(functions)
           sz(n) == size(functions[n].instructions)
           h == [k \in 1 .. L - 1 |-> [x \in Nat |-> x + sz(k)]]
           more(f, n) == IF n = 1 THEN 0 ELSE f[n - 1] + sz(n - 1)
           start == CHOOSE g : g = [n \in 1 .. L |-> more(g, n)]
<1>1. Typed /\ Fresh /\ functions # <<>>
  BY DEF IInv, resolve_functions_offsets
<1>2. UNCHANGED <<source, reg_values, fun, ins, offset, assembled_code, placed>>
  BY DEF resolve_functions_offsets
<1>3. functions \in Seq(SmallFunction) /\ L \in Nat \ {0}
  BY <1>1 DEF Typed
<1>4. DOMAIN functions = 1 .. L
  BY <1>3
<1>5. /\ pc' = "resolve_symbols"
      /\ functions' = [n \in 1 .. L |->
                         [functions[n] EXCEPT !.offset = start[n]]]
  BY <1>4 DEF resolve_functions_offsets
<1>6. \A n \in 1 .. L : sz(n) \in Nat
  <2>1. ASSUME NEW f \in Function PROVE size(f.instructions) \in Nat
    <3>1. f.instructions \in Seq(Instruction)
      BY DEF Function
    <3>2. PICK g : Prefixes(f.instructions, g)
      BY <3>1, PrefixesExist
    <3>3. size(f.instructions) = g[Len(f.instructions)]
      BY <3>1, <3>2, PrefixesExist
    <3>4. Len(f.instructions) \in 0 .. Len(f.instructions)
      BY <3>1
    <3> QED
      BY <3>2, <3>3, <3>4 DEF Prefixes
  <2> QED
    BY <1>3, <2>1, FunctionsAre
<1> HIDE DEF sz, L
<1>7. \E g : g = [n \in 1 .. L |-> more(g, n)]
  <2>1. ASSUME NEW k \in 1 .. L - 1, NEW x \in Nat
        PROVE  h[k][x] = x + sz(k) /\ h[k][x] \in Nat
    <3>1. k \in 1 .. L
      BY <1>3
    <3> QED
      BY <1>6, <3>1
  <2> HIDE DEF h
  <2>2. Keeps(h, L - 1, Nat) /\ L - 1 \in Nat /\ 0 \in Nat
    BY <1>3, <2>1 DEF Keeps
  <2>3. PICK f \in [0 .. L - 1 -> Nat] : Follows(f, 0, h, L - 1)
    BY <2>2, Recursion
  <2> DEFINE g == [n \in 1 .. L |-> f[n - 1]]
  <2>4. ASSUME NEW n \in 1 .. L PROVE g[n] = more(g, n)
    <3>1. CASE n = 1
      BY <2>3, <3>1 DEF Follows
    <3>2. CASE n # 1
      <4>1. n - 1 \in 1 .. L - 1 /\ n - 1 \in 1 .. L /\ (n - 1) - 1 \in 0 .. L - 1
        BY <1>3, <3>2
      <4>2. f[n - 1] = h[n - 1][f[(n - 1) - 1]]
        BY <2>3, <4>1 DEF Follows
      <4>3. f[n - 1] = f[(n - 1) - 1] + sz(n - 1)
        BY <2>1, <2>3, <4>1, <4>2
      <4> QED
        BY <3>2, <4>1, <4>3
    <3> QED
      BY <3>1, <3>2
  <2>5. g = [n \in 1 .. L |-> more(g, n)]
    <3> HIDE DEF more
    <3> QED
      BY <2>4
  <2> QED
    BY <2>5
<1>8. start = [n \in 1 .. L |-> more(start, n)]
  <2> HIDE DEF more
  <2> QED
    BY <1>7
<1> HIDE DEF start
<1>9. start[1] = 0
  BY <1>3, <1>8
<1>10. ASSUME NEW n \in 1 .. L, n > 1
       PROVE  start[n] = start[n - 1] + sz(n - 1)
  <2>1. start[n] = more(start, n)
    <3> HIDE DEF more
    <3> QED
      BY <1>8
  <2>2. n # 1
    BY <1>3, <1>10
  <2> QED
    BY <2>1, <2>2
<1>11. \A n \in 1 .. L : start[n] \in Nat
  <2> DEFINE v == [k \in 0 .. L - 1 |-> start[k + 1]]
  <2>1. ASSUME NEW k \in 1 .. L - 1, v[k - 1] \in Nat PROVE v[k] \in Nat
    <3>1. k + 1 \in 1 .. L /\ k + 1 > 1 /\ (k + 1) - 1 = k /\ k \in 1 .. L
      BY <1>3
    <3>2. start[k + 1] = start[k] + sz(k)
      BY <1>10, <3>1
    <3>3. v[k - 1] = start[k]
      BY <1>3
    <3>4. v[k] = start[k + 1]
      BY <1>3
    <3> QED
      BY <1>6, <2>1, <3>1, <3>2, <3>3, <3>4
  <2>2. v[0] \in Nat /\ L - 1 \in Nat
    BY <1>3, <1>9
  <2>3. \A n \in 1 .. L : n - 1 \in 0 .. L - 1 /\ v[n - 1] = start[n]
    BY <1>3
  <2> HIDE DEF v
  <2>4. \A k \in 0 .. L - 1 : v[k] \in Nat
    BY <2>1, <2>2, Induction
  <2> QED
    BY <2>3, <2>4
<1>12. ASSUME NEW n \in 1 .. L
       PROVE  /\ functions'[n] \in SmallFunction
              /\ functions'[n].offset = start[n]
              /\ functions'[n].instructions = functions[n].instructions
  <2>1. functions[n] \in SmallFunction
    BY <1>3 DEF L
  <2>2. functions[n] \in Function /\ functions[n].instructions \in Seq(SmallInstruction)
    BY <2>1 DEF SmallFunction
  <2>3. functions'[n] = [functions[n] EXCEPT !.offset = start[n]]
    BY <1>5
  <2>4. /\ functions'[n] \in Function
        /\ functions'[n].offset = start[n]
        /\ functions'[n].instructions = functions[n].instructions
    BY <1>11, <2>2, <2>3 DEF Function
  <2> QED
    BY <2>2, <2>4 DEF SmallFunction
<1>13. /\ functions' \in Seq(SmallFunction)
       /\ functions' # <<>> /\ Len(functions') = L
  <2>1. functions' \in [1 .. L -> SmallFunction]
    BY <1>5, <1>12
  <2> QED
    BY <1>3, <2>1, FunctionsAreSeqs
<1>14. Typed'
  BY <1>1, <1>2, <1>13 DEF Typed
<1>15. Layout'
  <2>1. functions'[1].offset = 0
    BY <1>3, <1>9, <1>12
  <2>2. ASSUME NEW n \in 1 .. L, n > 1
        PROVE  functions'[n].offset = functions'[n - 1].offset
                                        + size(functions'[n - 1].instructions)
    <3>1. n - 1 \in 1 .. L
      BY <1>3, <2>2
    <3> QED
      BY <1>10, <1>12, <2>2, <3>1 DEF sz
  <2> QED
    BY <1>13, <2>1, <2>2 DEF Layout
<1>16. fun' = 1 /\ ins' = 1
  BY <1>1, <1>2 DEF Fresh
<1>17. InLoop'
  <2>1. 1 \in 1 .. L
    BY <1>3
  <2>2. Len(functions'[1].instructions) \in Nat
    <3>1. functions'[1].instructions \in Seq(SmallInstruction)
      BY <1>12, <2>1 DEF SmallFunction
    <3> QED
      BY <3>1
  <2>3. 1 \in 1 .. Len(functions'[1].instructions) + 1
    BY <2>2
  <2> QED
    BY <1>13, <1>16, <2>1, <2>3 DEF InLoop
<1>18. ResolvedBefore'
  BY <1>3, <1>13, <1>16 DEF ResolvedBefore, Before
<1> QED
  BY <1>1, <1>2, <1>5, <1>14, <1>15, <1>17, <1>18
     DEF IInv, Resolving, Fresh, OwnNumbers, Numbered

(* A step that leaves the shape of all functions leaves the layout, what   *)
(* the symbols mean, and what is resolved already.                         *)
SameShapes ==
  /\ functions \in Seq(SmallFunction) /\ functions' \in Seq(SmallFunction)
  /\ Len(functions') = Len(functions)
  /\ \A n \in 1 .. Len(functions) : SameShape(functions[n], functions'[n])

LEMMA ShapesKept ==
  ASSUME SameShapes
  PROVE  /\ Labels' = Labels
         /\ \A x : Named(x)' = Named(x)
         /\ Layout => Layout'
         /\ \A n \in 1 .. Len(functions) :
              /\ functions'[n].offset = functions[n].offset
              /\ Len(functions'[n].instructions) = Len(functions[n].instructions)
              /\ LabelsOf(functions'[n]) = LabelsOf(functions[n])
              /\ \A l : offset_of_label(functions'[n], l)
                          = offset_of_label(functions[n], l)
<1>1. /\ Len(functions) \in Nat
      /\ DOMAIN functions = 1 .. Len(functions)
      /\ DOMAIN functions' = 1 .. Len(functions)
      /\ Len(functions') = Len(functions)
  BY DEF SameShapes
<1>2. ASSUME NEW n \in 1 .. Len(functions)
      PROVE  /\ functions'[n].offset = functions[n].offset
             /\ functions'[n].name = functions[n].name
             /\ size(functions'[n].instructions) = size(functions[n].instructions)
             /\ Len(functions'[n].instructions) = Len(functions[n].instructions)
             /\ LabelsOf(functions'[n]) = LabelsOf(functions[n])
             /\ \A l : offset_of_label(functions'[n], l)
                         = offset_of_label(functions[n], l)
  <2>1. functions[n] \in SmallFunction /\ functions'[n] \in SmallFunction
    BY <1>1 DEF SameShapes
  <2>2. functions[n] \in Function /\ functions'[n] \in Function
    BY <2>1 DEF SmallFunction
  <2>3. SameShape(functions[n], functions'[n])
    BY DEF SameShapes
  <2>4. /\ size(functions'[n].instructions) = size(functions[n].instructions)
        /\ LabelsOf(functions'[n]) = LabelsOf(functions[n])
        /\ \A l : offset_of_label(functions'[n], l)
                    = offset_of_label(functions[n], l)
    BY <2>2, <2>3, SameOffsets
  <2> QED
    BY <2>3, <2>4 DEF SameShape
<1>3. Labels' = Labels
  BY <1>1, <1>2 DEF Labels
<1>4. ASSUME NEW x PROVE Named(x)' = Named(x)
  BY <1>1, <1>2 DEF Named
<1>5. ASSUME Layout PROVE Layout'
  <2>1. functions # <<>> /\ 1 \in 1 .. Len(functions)
    <3>1. functions # <<>> /\ functions \in Seq(SmallFunction)
      BY <1>5 DEF Layout, SameShapes
    <3> QED
      BY <3>1
  <2>2. functions' # <<>>
    BY <1>1, <2>1
  <2>3. functions'[1].offset = 0
    BY <1>2, <1>5, <2>1 DEF Layout
  <2>4. ASSUME NEW n \in 1 .. Len(functions), n > 1
        PROVE  functions'[n].offset = functions'[n - 1].offset
                                        + size(functions'[n - 1].instructions)
    <3>1. n - 1 \in 1 .. Len(functions)
      BY <1>1, <2>4
    <3>2. functions[n].offset = functions[n - 1].offset
                                  + size(functions[n - 1].instructions)
      BY <1>5, <2>4 DEF Layout
    <3> QED
      BY <1>2, <3>1, <3>2
  <2> QED
    BY <1>1, <2>2, <2>3, <2>4 DEF Layout
<1> QED
  BY <1>2, <1>3, <1>4, <1>5

LEMMA PointsKept ==
  ASSUME SameShapes, NEW x, AtPoint(x)
  PROVE  AtPoint(x)'
<1>n. PICK n \in 1 .. Len(functions) :
        \E m \in 1 .. Len(functions[n].instructions) + 1 : x = Place(n, m)
  BY DEF AtPoint
<1>1. PICK m \in 1 .. Len(functions[n].instructions) + 1 : x = Place(n, m)
  BY <1>n
<1>2. /\ functions'[n].offset = functions[n].offset
      /\ Len(functions'[n].instructions) = Len(functions[n].instructions)
  BY ShapesKept
<1>3. functions[n] \in Function /\ functions'[n] \in Function
  <2>1. functions[n] \in SmallFunction /\ functions'[n] \in SmallFunction
    BY DEF SameShapes
  <2> QED
    BY <2>1 DEF SmallFunction
<1>4. SameShape(functions[n], functions'[n])
  BY DEF SameShapes
<1>5. offset_of_instruction(functions[n], m)
        = offset_of_instruction(functions'[n], m)
  BY <1>3, <1>4, SameOffsets
<1>6. n \in 1 .. Len(functions') /\ m \in 1 .. Len(functions'[n].instructions) + 1
  BY <1>2 DEF SameShapes
<1> QED
  BY <1>1, <1>2, <1>5, <1>6 DEF AtPoint, Place

LEMMA ResolvedKept ==
  ASSUME SameShapes, reg_values' = reg_values,
         NEW n \in 1 .. Len(functions), NEW m,
         functions'[n].instructions[m] = functions[n].instructions[m],
         Resolved(n, m)
  PROVE  Resolved(n, m)'
<1> DEFINE i == functions[n].instructions[m]
           name == casefold(i.args[1].name)
<1>1. /\ Labels' = Labels /\ Named(name)' = Named(name)
      /\ functions'[n].offset = functions[n].offset
      /\ LabelsOf(functions'[n]) = LabelsOf(functions[n])
      /\ offset_of_label(functions'[n], name) = offset_of_label(functions[n], name)
  BY ShapesKept
<1>2. ASSUME Named(name) # {}
      PROVE  functions'[Min(Named(name))].offset
               = functions[Min(Named(name))].offset
  <2>1. Named(name) \in SUBSET (1 .. Len(functions))
    BY DEF Named, SameShapes
  <2>2. Min(Named(name)) \in 1 .. Len(functions)
    BY <1>2, <2>1, MinIs
  <2> QED
    BY <2>2, ShapesKept
<1>3. AtPoint(value(i.args[1])) => AtPoint(value(i.args[1]))'
  <2>1. \A x : AtPoint(x) => AtPoint(x)'
    BY PointsKept
  <2>2. value(i.args[1])' = value(i.args[1])
    BY DEF value
  <2> HIDE DEF i
  <2> QED
    BY <2>1, <2>2
<1> QED
  BY <1>1, <1>2, <1>3 DEF Resolved

LEMMA LabelOffset ==
  ASSUME NEW f \in Function, NEW l
  PROVE  /\ offset_of_label(f, l) \in Nat
         /\ \E m \in 1 .. Len(f.instructions) + 1 :
              offset_of_label(f, l) = offset_of_instruction(f, m)
<1> DEFINE s == f.instructions
           hits == {n \in DOMAIN s : s[n].label = l}
<1>1. s \in Seq(Instruction) /\ Len(s) \in Nat /\ DOMAIN s = 1 .. Len(s)
  BY DEF Function
<1>2. CASE hits = {}
  <2>1. offset_of_label(f, l) = offset_of_instruction(f, Len(s) + 1)
    BY <1>2, OffsetsAddUp DEF offset_of_label
  <2>2. Len(s) + 1 \in 1 .. Len(s) + 1
    BY <1>1
  <2> HIDE DEF hits
  <2> QED
    BY <2>1, <2>2, OffsetsAddUp
<1>3. CASE hits # {}
  <2>1. hits \in SUBSET Nat
    BY <1>1
  <2>2. Min(hits) \in hits
    BY <1>3, <2>1, MinIs
  <2>3. Min(hits) \in 1 .. Len(s) + 1
    BY <1>1, <2>2
  <2>4. offset_of_label(f, l) = offset_of_instruction(f, Min(hits))
    BY <1>3 DEF offset_of_label
  <2> HIDE DEF hits
  <2> QED
    BY <2>3, <2>4, OffsetsAddUp
<1> QED
  BY <1>2, <1>3

LEMMA SymbolOffsetIs ==
  ASSUME Typed, InLoop, NEW x
  PROVE  /\ SymbolOffset(x) \in Nat \cup {Unbound}
         /\ SymbolOffset(x) = offset \/ AtPoint(SymbolOffset(x))
<1>1. functions \in Seq(SmallFunction) /\ offset \in Nat \cup {Unbound}
  BY DEF Typed
<1>2. functions[fun] \in Function /\ functions[fun].offset \in Nat
  BY <1>1, FunctionsAre DEF InLoop
<1>3. CASE x \in Labels
  <2>1. PICK m \in 1 .. Len(functions[fun].instructions) + 1 :
          offset_of_label(functions[fun], x) = offset_of_instruction(functions[fun], m)
    BY <1>2, LabelOffset
  <2>2. offset_of_label(functions[fun], x) \in Nat
    BY <1>2, LabelOffset
  <2>3. SymbolOffset(x) = offset_of_label(functions[fun], x) + functions[fun].offset
    BY <1>3 DEF SymbolOffset
  <2>4. AtPoint(SymbolOffset(x))
    <3>1. SymbolOffset(x) = Place(fun, m)
      <4>1. offset_of_instruction(functions[fun], m) \in Nat
        BY <2>1, <2>2
      <4> QED
        BY <1>2, <2>1, <2>3, <4>1 DEF Place
    <3> QED
      BY <3>1 DEF AtPoint, InLoop
  <2> QED
    BY <1>2, <2>2, <2>3, <2>4
<1>4. CASE x \notin Labels /\ Named(x) # {}
  <2>1. Named(x) \in SUBSET (1 .. Len(functions))
    BY <1>1, FunctionsAre DEF Named
  <2>2. Min(Named(x)) \in 1 .. Len(functions)
    BY <1>4, <2>1, MinIs
  <2> DEFINE first == Min(Named(x))
  <2>3. /\ functions[first].offset \in Nat /\ functions[first] \in Function
        /\ Len(functions[first].instructions) \in Nat
    BY <1>1, <2>2, FunctionsAre
  <2>4. SymbolOffset(x) = functions[first].offset
    BY <1>4 DEF SymbolOffset
  <2> HIDE DEF first
  <2>5. functions[first].offset = Place(first, 1)
    <3>1. offset_of_instruction(functions[first], 1) = 0
      BY <2>3, OffsetsAddUp
    <3> QED
      BY <2>3, <3>1 DEF Place
  <2>6. 1 \in 1 .. Len(functions[first].instructions) + 1
    BY <2>3
  <2> QED
    BY <2>2, <2>3, <2>4, <2>5, <2>6 DEF AtPoint, first
<1>5. CASE x \notin Labels /\ Named(x) = {}
  BY <1>1, <1>5 DEF SymbolOffset
<1> QED
  BY <1>3, <1>4, <1>5

LEMMA ReplacedInSeq ==
  ASSUME NEW S, NEW s \in Seq(S), NEW k \in 1 .. Len(s), NEW x \in S
  PROVE  LET t == [s EXCEPT ![k] = x] IN
         /\ t \in Seq(S) /\ Len(t) = Len(s) /\ t[k] = x
         /\ \A n \in 1 .. Len(s) : n # k => t[n] = s[n]
  OBVIOUS

(* Writing the offset into the operand of a jump.                          *)
LEMMA OperandWritten ==
  ASSUME Typed, InLoop, AtInstruction, symcall(this), NEW x \in Nat,
         this.args[1].kind # "reg",
         functions' = [functions EXCEPT ![fun].instructions[ins].args[1].num = x]
  PROVE  /\ SameShapes
         /\ \A n \in 1 .. Len(functions) :
              \A m \in 1 .. Len(functions[n].instructions) :
                n # fun \/ m # ins =>
                  functions'[n].instructions[m] = functions[n].instructions[m]
         /\ functions'[fun].instructions[ins].args[1].num = x
         /\ functions'[fun].instructions[ins].args[1].name = this.args[1].name
         /\ functions'[fun].instructions[ins].args[1].kind = this.args[1].kind
<1> DEFINE F == functions[fun]
           s == F.instructions
           I == s[ins]
           a == [I.args[1] EXCEPT !.num = x]
           J == [I EXCEPT !.args = [I.args EXCEPT ![1] = a]]
           t == [s EXCEPT ![ins] = J]
           G == [F EXCEPT !.instructions = t]
<1>1. functions' = [functions EXCEPT ![fun] = G]
  OBVIOUS
<1>2. functions \in Seq(SmallFunction) /\ fun \in 1 .. Len(functions)
  BY DEF Typed, InLoop
<1>3. F \in Function /\ s \in Seq(SmallInstruction) /\ Len(s) \in Nat
  BY <1>2, FunctionsAre
<1>4. ins \in 1 .. Len(s)
  BY <1>3 DEF InLoop, AtInstruction
<1>5. I \in SmallInstruction
  <2> HIDE DEF s
  <2> QED
    BY <1>3, <1>4
<1>6. I.name \in jumps /\ Len(I.args) = 1
  BY DEF symcall, this
<1>7. I \in Instruction /\ I.args \in Seq(Operand)
  BY <1>5 DEF SmallInstruction, Instruction
<1> HIDE DEF I
<1>8. I.args[1] \in Operand
  BY <1>6, <1>7
<1>k. I.args[1].kind # "reg"
  BY DEF this, I
<1>9. /\ a \in Operand /\ a.num = x /\ a.name = I.args[1].name
      /\ a.kind = I.args[1].kind
  BY <1>8 DEF Operand
<1> HIDE DEF a
<1>10. /\ [I.args EXCEPT ![1] = a] \in Seq(Operand)
       /\ [I.args EXCEPT ![1] = a][1] = a
  BY <1>6, <1>7, <1>9
<1>11. /\ J \in Instruction /\ J.name = I.name /\ J.label = I.label
       /\ J.args[1] = a /\ J.args = [I.args EXCEPT ![1] = a]
  BY <1>7, <1>10 DEF Instruction
<1>12. J \in SmallInstruction
  <2>1. Small(J.args)
    BY <1>5, <1>7, <1>9, <1>11, <1>k DEF Small, SmallInstruction
  <2> QED
    BY <1>6, <1>11, <2>1 DEF SmallInstruction
<1> HIDE DEF J
<1>13. /\ t \in Seq(SmallInstruction) /\ Len(t) = Len(s) /\ t[ins] = J
       /\ \A m \in 1 .. Len(s) : m # ins => t[m] = s[m]
  <2> HIDE DEF s
  <2> QED
    BY <1>3, <1>4, <1>12
<1>14. t \in Seq(Instruction)
  <2>1. SmallInstruction \subseteq Instruction
    BY DEF SmallInstruction
  <2> HIDE DEF t
  <2> QED
    BY <1>13, <2>1
<1> HIDE DEF t
<1>15. /\ G \in Function /\ G.name = F.name /\ G.offset = F.offset
       /\ G.instructions = t
  BY <1>3, <1>14 DEF Function
<1>16. G \in SmallFunction
  BY <1>13, <1>15 DEF SmallFunction
<1>17. SameShape(F, G)
  <2>1. ASSUME NEW m \in 1 .. Len(s)
        PROVE  s[m].name = t[m].name /\ s[m].label = t[m].label
    <3>1. CASE m = ins
      BY <1>11, <1>13, <3>1 DEF I
    <3>2. CASE m # ins
      BY <1>13, <3>2
    <3> QED
      BY <3>1, <3>2
  <2> QED
    BY <1>13, <1>15, <2>1 DEF SameShape
<1> HIDE DEF G
<1>18. /\ functions' \in Seq(SmallFunction) /\ Len(functions') = Len(functions)
       /\ functions'[fun] = G
       /\ \A n \in 1 .. Len(functions) : n # fun => functions'[n] = functions[n]
  <2> DEFINE gs == [functions EXCEPT ![fun] = G]
  <2>1. /\ gs \in Seq(SmallFunction) /\ Len(gs) = Len(functions)
        /\ gs[fun] = G
        /\ \A n \in 1 .. Len(functions) : n # fun => gs[n] = functions[n]
    BY <1>2, <1>16, ReplacedInSeq
  <2> QED
    BY <1>1, <2>1
<1>19. SameShapes
  <2>1. \A f : SameShape(f, f)
    BY DEF SameShape
  <2> QED
    BY <1>2, <1>17, <1>18, <2>1 DEF SameShapes
<1>20. ASSUME NEW n \in 1 .. Len(functions),
              NEW m \in 1 .. Len(functions[n].instructions),
              n # fun \/ m # ins
       PROVE  functions'[n].instructions[m] = functions[n].instructions[m]
  <2>1. CASE n = fun
    BY <1>13, <1>15, <1>18, <1>20, <2>1
  <2>2. CASE n # fun
    BY <1>18, <2>2
  <2> QED
    BY <2>1, <2>2
<1>21. functions'[fun].instructions[ins] = J
  BY <1>13, <1>15, <1>18
<1> QED
  BY <1>9, <1>11, <1>19, <1>20, <1>21 DEF this, I

(* What depends on the lines only stays while these stay.                  *)
LEMMA ResolvedStays ==
  ASSUME functions' = functions, reg_values' = reg_values,
         NEW n, NEW m, Resolved(n, m)
  PROVE  Resolved(n, m)'
<1>1. Labels' = Labels /\ \A s : Named(s)' = Named(s)
  BY DEF Labels, Named
<1>2. \A x : AtPoint(x)' <=> AtPoint(x)
  BY DEF AtPoint, Place
<1> QED
  BY <1>1, <1>2 DEF Resolved, value

(* Writing the offset into a register that others are left with, too: what *)
(* is resolved stays at a point of the layout, if at another one.          *)
LEMMA RegisterWritten ==
  ASSUME Typed, functions' = functions, NEW r \in places, NEW x, AtPoint(x),
         reg_values' = [reg_values EXCEPT ![r] = x],
         NEW n \in 1 .. Len(functions),
         NEW m \in 1 .. Len(functions[n].instructions), Resolved(n, m)
  PROVE  Resolved(n, m)'
<1> DEFINE i == functions[n].instructions[m]
           a == i.args[1]
<1>1. Labels' = Labels /\ \A s : Named(s)' = Named(s)
  BY DEF Labels, Named
<1>2. \A y : AtPoint(y)' <=> AtPoint(y)
  BY DEF AtPoint, Place
<1>3. i \in SmallInstruction
  BY FunctionsAre DEF Typed
<1>4. ASSUME symcall(i) PROVE a.kind = "reg" => a.num \in places
  BY <1>3, <1>4 DEF SmallInstruction, Small, symcall, Instruction
<1>5. ASSUME symcall(i) PROVE value(a)' = value(a) \/ value(a)' = x
  <2>1. \A k \in places : reg_values'[k] = reg_values[k] \/ reg_values'[k] = x
    BY DEF Typed
  <2> QED
    BY <1>4, <1>5, <2>1 DEF value
<1>6. ASSUME symcall(i) PROVE \A y : y = value(a)' => AtPoint(y)'
  BY <1>2, <1>5, <1>6 DEF Resolved
<1> QED
  BY <1>1, <1>6 DEF Resolved

LEMMA ResolveStep == IInv /\ ResolveNext => IInv'
<1> SUFFICES ASSUME IInv, ResolveNext PROVE IInv'
  OBVIOUS
<1> DEFINE name == casefold(this.args[1].name)
           found == SymbolOffset(name)
<1>1. Typed /\ Resolving /\ pc = "resolve_symbols" /\ AtInstruction
  BY DEF IInv, ResolveNext
<1>2. UNCHANGED <<source, fun, assembled_code, placed>>
  BY DEF ResolveNext
<1>3. /\ InLoop /\ Layout /\ ResolvedBefore /\ placed = {} /\ assembled_code = <<>>
      /\ offset = Unbound \/ AtPoint(offset)
      /\ OwnNumbers
  BY <1>1 DEF Resolving
<1>4. /\ functions \in Seq(SmallFunction) /\ Len(functions) \in Nat
      /\ fun \in 1 .. Len(functions)
      /\ Len(functions[fun].instructions) \in Nat
      /\ ins \in 1 .. Len(functions[fun].instructions)
  <2>1. functions \in Seq(SmallFunction) /\ fun \in 1 .. Len(functions)
    BY <1>1, <1>3 DEF Typed, InLoop
  <2>2. Len(functions) \in Nat /\ Len(functions[fun].instructions) \in Nat
    BY <2>1, FunctionsAre
  <2> QED
    BY <1>1, <1>3, <2>1, <2>2 DEF InLoop, AtInstruction
<1>5. \A n \in 1 .. Len(functions), m \in Nat :
        n < fun \/ (n = fun /\ m < ins + 1) => Before(n, m) \/ (n = fun /\ m = ins)
  BY <1>4 DEF Before
<1>6. CASE ~ symcall(this)
  <2>1. UNCHANGED <<functions, reg_values, offset, pc>> /\ ins' = ins + 1
    BY <1>6 DEF ResolveNext
  <2>2. Typed'
    BY <1>1, <1>2, <1>4, <2>1 DEF Typed
  <2>3. Layout'
    BY <1>3, <2>1 DEF Layout
  <2>4. InLoop'
    BY <1>2, <1>4, <2>1 DEF InLoop
  <2>5. ResolvedBefore'
    <3> SUFFICES ASSUME NEW n \in 1 .. Len(functions),
                        NEW m \in 1 .. Len(functions[n].instructions),
                        Before(n, m)'
                 PROVE  Resolved(n, m)'
      BY <2>1 DEF ResolvedBefore
    <3>1. Before(n, m) \/ (n = fun /\ m = ins)
      BY <1>2, <1>5, <2>1 DEF Before
    <3>2. Resolved(n, m)
      <4>1. CASE Before(n, m)
        BY <1>3, <4>1 DEF ResolvedBefore
      <4>2. CASE n = fun /\ m = ins
        BY <1>6, <4>2 DEF Resolved, this
      <4> QED
        BY <3>1, <4>1, <4>2
    <3>3. functions' = functions /\ reg_values' = reg_values
      BY <2>1
    <3> QED
      BY <3>2, <3>3, ResolvedStays
  <2>6. (offset = Unbound \/ AtPoint(offset))'
    BY <1>3, <2>1 DEF AtPoint, Place
  <2>7. OwnNumbers'
    BY <1>3, <2>1 DEF OwnNumbers, NoSharing, Numbered
  <2> QED
    BY <1>1, <1>2, <1>3, <2>1, <2>2, <2>3, <2>4, <2>5, <2>6, <2>7
       DEF IInv, Resolving
<1>7. CASE symcall(this) /\ found = Unbound
  <2>1. /\ offset' = Unbound /\ pc' = "raised"
        /\ UNCHANGED <<functions, reg_values, ins>>
    BY <1>7 DEF ResolveNext, Raise
  <2>2. Typed'
    BY <1>1, <1>2, <2>1 DEF Typed
  <2> QED
    BY <2>1, <2>2 DEF IInv
<1>f. ASSUME found # Unbound PROVE found \in Nat /\ AtPoint(found)
  <2>1. /\ found \in Nat \cup {Unbound}
        /\ found = offset \/ AtPoint(found)
    BY <1>1, <1>3, SymbolOffsetIs
  <2> HIDE DEF found
  <2> QED
    BY <1>3, <1>f, <2>1
<1>8. CASE symcall(this) /\ found # Unbound /\ this.args[1].kind # "reg"
  <2>1. /\ offset' = found /\ ins' = ins + 1 /\ pc' = pc
        /\ functions' = [functions EXCEPT
                           ![fun].instructions[ins].args[1].num = found]
        /\ reg_values' = reg_values
    BY <1>8 DEF ResolveNext, SetValue
  <2>2. found \in Nat /\ AtPoint(found)
    BY <1>8, <1>f
  <2> HIDE DEF found
  <2>3. /\ SameShapes
        /\ \A n \in 1 .. Len(functions) :
             \A m \in 1 .. Len(functions[n].instructions) :
               n # fun \/ m # ins =>
                 functions'[n].instructions[m] = functions[n].instructions[m]
        /\ functions'[fun].instructions[ins].args[1].num = found
        /\ functions'[fun].instructions[ins].args[1].name = this.args[1].name
        /\ functions'[fun].instructions[ins].args[1].kind = this.args[1].kind
    BY <1>1, <1>3, <1>8, <2>1, <2>2, OperandWritten
  <2>4. Typed'
    <3>1. functions' \in Seq(SmallFunction)
      BY <2>3 DEF SameShapes
    <3>2. ins' \in Nat \ {0} /\ offset' \in Nat \cup {Unbound}
      BY <1>4, <2>1, <2>2
    <3>3. Typed /\ UNCHANGED <<source, reg_values, fun, assembled_code, placed>>
      BY <1>1, <1>2, <2>1
    <3> QED
      BY ONLY <3>1, <3>2, <3>3 DEF Typed
  <2>5. Layout'
    BY <1>3, <2>3, ShapesKept
  <2>6. /\ Len(functions') = Len(functions)
        /\ \A n \in 1 .. Len(functions) :
             Len(functions'[n].instructions) = Len(functions[n].instructions)
    BY <2>3, ShapesKept DEF SameShapes
  <2>7. InLoop'
    BY <1>2, <1>4, <2>1, <2>6 DEF InLoop
  <2>p. \A y : y = found => AtPoint(y)'
    BY <2>2, <2>3, PointsKept
  <2>8. ASSUME NEW n, NEW m, NEW x, n = fun, m = ins, x = name
        PROVE  Resolved(n, m)'
    <3> DEFINE i == functions'[n].instructions[m]
    <3>1. /\ casefold(i.args[1].name) = x /\ i.args[1].num = found
          /\ i.args[1].kind # "reg"
      BY <1>8, <2>3, <2>8
    <3>2. /\ Labels' = Labels /\ Named(x)' = Named(x)
          /\ functions'[fun].offset = functions[fun].offset
          /\ LabelsOf(functions'[fun]) = LabelsOf(functions[fun])
          /\ offset_of_label(functions'[fun], x)
               = offset_of_label(functions[fun], x)
      BY <1>4, <2>3, ShapesKept
    <3>3. ASSUME x \in LabelsOf(functions'[n])
          PROVE  i.args[1].num = offset_of_label(functions'[n], x)
                                   + functions'[n].offset
      <4>1. x \in Labels
        BY <1>4, <2>8, <3>2, <3>3, FunctionsAre DEF Labels
      <4>2. found = offset_of_label(functions[fun], x) + functions[fun].offset
        BY <2>8, <4>1 DEF found, SymbolOffset
      <4> QED
        BY <2>8, <3>1, <3>2, <4>2
    <3>4. ASSUME x \notin Labels', Named(x)' # {}
          PROVE  i.args[1].num = functions'[Min(Named(x)')].offset
      <4>1. x \notin Labels /\ Named(x) # {}
        BY <3>2, <3>4
      <4>2. found = functions[Min(Named(x))].offset
        BY <2>8, <4>1 DEF found, SymbolOffset
      <4>3. Named(x) \in SUBSET (1 .. Len(functions))
        BY <1>4, FunctionsAre DEF Named
      <4>4. Min(Named(x)) \in 1 .. Len(functions)
        BY <4>1, <4>3, MinIs
      <4>5. functions'[Min(Named(x))].offset = functions[Min(Named(x))].offset
        BY <2>3, <4>4, ShapesKept
      <4> QED
        BY <3>1, <3>2, <4>2, <4>5
    <3> DEFINE a == functions[n].instructions[m].args[1]
    <3>5. \A y : y = value(a)' => AtPoint(y)'
      BY <2>p, <3>1 DEF value
    <3> QED
      BY <3>1, <3>3, <3>4, <3>5 DEF Resolved
  <2>9. ResolvedBefore'
    <3> SUFFICES ASSUME NEW n \in 1 .. Len(functions),
                        NEW m \in 1 .. Len(functions[n].instructions),
                        Before(n, m)'
                 PROVE  Resolved(n, m)'
      BY <2>6 DEF ResolvedBefore
    <3>1. Before(n, m) \/ (n = fun /\ m = ins)
      BY <1>2, <1>5, <2>1 DEF Before
    <3>2. CASE n = fun /\ m = ins
      BY <2>8, <3>2
    <3>3. CASE ~ (n = fun /\ m = ins)
      <4>1. Resolved(n, m)
        BY <1>3, <3>1, <3>3 DEF ResolvedBefore
      <4>2. functions'[n].instructions[m] = functions[n].instructions[m]
        BY <2>3, <3>3
      <4> QED
        BY <2>1, <2>3, <4>1, <4>2, ResolvedKept
    <3> QED
      BY <3>2, <3>3
  <2>10. (offset = Unbound \/ AtPoint(offset))'
    <3>1. PICK y : y = offset'
      OBVIOUS
    <3>2. AtPoint(y)'
      BY <2>1, <2>p, <3>1
    <3> QED
      BY ONLY <3>1, <3>2 DEF AtPoint
  <2>11. OwnNumbers'
    <3>1. ASSUME NoSharing' PROVE NoSharing
      <4> SUFFICES ASSUME NEW n \in 1 .. Len(functions),
                          NEW m \in 1 .. Len(functions[n].instructions),
                          symcall(functions[n].instructions[m])
                   PROVE  functions[n].instructions[m].args[1].kind # "reg"
        BY DEF NoSharing
      <4>1. CASE n = fun /\ m = ins
        BY <1>8, <4>1 DEF this
      <4>2. CASE ~ (n = fun /\ m = ins)
        <5>1. functions'[n].instructions[m] = functions[n].instructions[m]
          BY <2>3, <4>2
        <5> QED
          BY <2>6, <3>1, <5>1 DEF NoSharing
      <4> QED
        BY <4>1, <4>2
    <3>2. Numbered => Numbered'
      BY <2>1 DEF Numbered
    <3> QED
      BY <1>3, <3>1, <3>2 DEF OwnNumbers
  <2> QED
    BY <1>1, <1>2, <1>3, <2>1, <2>4, <2>5, <2>7, <2>9, <2>10, <2>11
       DEF IInv, Resolving
<1>9. CASE symcall(this) /\ found # Unbound /\ this.args[1].kind = "reg"
  <2> DEFINE r == this.args[1].num
  <2>1. /\ offset' = found /\ ins' = ins + 1 /\ pc' = pc
        /\ functions' = functions
        /\ reg_values' = [reg_values EXCEPT ![r] = found]
    BY <1>9 DEF ResolveNext, SetValue
  <2>2. found \in Nat /\ AtPoint(found)
    BY <1>9, <1>f
  <2>3. r \in places
    <3>1. this \in SmallInstruction
      BY <1>4, FunctionsAre DEF this
    <3> QED
      BY <1>9, <3>1 DEF SmallInstruction, Small, symcall, Instruction
  <2>n. \A k \in places : k = r => reg_values'[k] = found
    BY <1>1, <2>1 DEF Typed
  <2>4. Typed'
    BY <1>1, <1>2, <1>4, <2>1, <2>2, <2>3 DEF Typed
  <2>5. Layout' /\ InLoop'
    BY <1>2, <1>3, <1>4, <2>1 DEF Layout, InLoop
  <2>p. \A y : AtPoint(y)' <=> AtPoint(y)
    BY <2>1 DEF AtPoint, Place
  <2> HIDE DEF r
  <2>6. ASSUME NEW n \in 1 .. Len(functions),
               NEW m \in 1 .. Len(functions[n].instructions), n = fun, m = ins
        PROVE  Resolved(n, m)'
    <3> DEFINE a == functions[n].instructions[m].args[1]
    <3>1. a.kind = "reg" /\ a.num = r /\ functions' = functions
      BY <1>9, <2>1, <2>6 DEF this, r
    <3>2. value(a)' = reg_values'[r]
      BY <3>1 DEF value
    <3>3. \A y : y = value(a)' => AtPoint(y)'
      BY <2>2, <2>3, <2>n, <2>p, <3>2
    <3> QED
      BY <3>1, <3>3 DEF Resolved
  <2> HIDE DEF found
  <2>7. ResolvedBefore'
    <3> SUFFICES ASSUME NEW n \in 1 .. Len(functions),
                        NEW m \in 1 .. Len(functions[n].instructions),
                        Before(n, m)'
                 PROVE  Resolved(n, m)'
      BY <2>1 DEF ResolvedBefore
    <3>1. Before(n, m) \/ (n = fun /\ m = ins)
      BY <1>2, <1>5, <2>1 DEF Before
    <3>2. CASE n = fun /\ m = ins
      BY <2>6, <3>2
    <3>3. CASE Before(n, m)
      <4>1. Resolved(n, m)
        BY <1>3, <3>3 DEF ResolvedBefore
      <4> QED
        BY <1>1, <2>1, <2>2, <2>3, <4>1, RegisterWritten
    <3> QED
      BY <3>1, <3>2, <3>3
  <2>8. (offset = Unbound \/ AtPoint(offset))'
    BY <2>1, <2>2 DEF AtPoint, Place
  <2>9. OwnNumbers'
    <3>1. ~ NoSharing
      BY <1>4, <1>9 DEF NoSharing, this
    <3> QED
      BY <2>1, <3>1 DEF OwnNumbers, NoSharing
  <2> QED
    BY <1>1, <1>2, <1>3, <2>1, <2>4, <2>5, <2>7, <2>8, <2>9 DEF IInv, Resolving
<1> QED
  BY <1>6, <1>7, <1>8, <1>9

(* The end of the instructions of a function: everything before the loop   *)
(* variables is everything up to this function.                            *)
LEMMA AtTheEnd ==
  ASSUME Typed, InLoop, ~ AtInstruction
  PROVE  /\ Len(functions) \in Nat /\ fun \in 1 .. Len(functions)
         /\ Len(functions[fun].instructions) \in Nat
         /\ ins = Len(functions[fun].instructions) + 1
         /\ \A n \in 1 .. fun : \A m \in 1 .. Len(functions[n].instructions) :
              Before(n, m)
<1>1. functions \in Seq(SmallFunction) /\ fun \in 1 .. Len(functions)
  BY DEF Typed, InLoop
<1>2. Len(functions) \in Nat /\ Len(functions[fun].instructions) \in Nat
  BY <1>1, FunctionsAre
<1>3. ins = Len(functions[fun].instructions) + 1
  BY <1>1, <1>2 DEF InLoop, AtInstruction
<1>4. ASSUME NEW n \in 1 .. fun, NEW m \in 1 .. Len(functions[n].instructions)
      PROVE  Before(n, m)
  <2>1. CASE n = fun
    BY <1>2, <1>3, <2>1 DEF Before
  <2>2. CASE n # fun
    BY <1>1, <1>2, <2>2 DEF Before
  <2> QED
    BY <2>1, <2>2
<1> QED
  BY <1>1, <1>2, <1>3, <1>4

LEMMA NextInLoop ==
  ASSUME Typed, InLoop, ~ AtInstruction, functions' = functions,
         fun < Len(functions), fun' = fun + 1, ins' = 1
  PROVE  /\ InLoop'
         /\ \A n \in 1 .. Len(functions) :
              \A m \in 1 .. Len(functions[n].instructions) :
                Before(n, m)' => Before(n, m)
<1>1. /\ Len(functions) \in Nat /\ fun \in 1 .. Len(functions)
      /\ \A n \in 1 .. fun : \A m \in 1 .. Len(functions[n].instructions) :
           Before(n, m)
  BY AtTheEnd
<1>2. fun + 1 \in 1 .. Len(functions)
  BY <1>1
<1>3. Len(functions[fun + 1].instructions) \in Nat
  BY <1>2, FunctionsAre DEF Typed
<1>4. InLoop'
  <2>1. 1 \in 1 .. Len(functions[fun + 1].instructions) + 1
    BY <1>3
  <2> QED
    BY <1>2, <2>1 DEF InLoop
<1>5. ASSUME NEW n \in 1 .. Len(functions),
             NEW m \in 1 .. Len(functions[n].instructions), Before(n, m)'
      PROVE  Before(n, m)
  <2>1. n < fun + 1 \/ (n = fun + 1 /\ m < 1)
    BY <1>5 DEF Before
  <2>2. m \in Int /\ m >= 1
    <3>1. Len(functions[n].instructions) \in Nat
      BY FunctionsAre DEF Typed
    <3> QED
      BY <3>1
  <2>3. n \in 1 .. fun
    BY <1>1, <2>1, <2>2
  <2> QED
    BY <1>1, <2>3
<1> QED
  BY <1>4, <1>5

(* Back to the first instruction.                                          *)
LEMMA Restart ==
  ASSUME Typed, Layout, functions' = functions, fun' = 1, ins' = 1
  PROVE  /\ InLoop'
         /\ Place(1, 1) = 0
         /\ \A n \in 1 .. Len(functions) :
              \A m \in 1 .. Len(functions[n].instructions) : ~ Before(n, m)'
<1>1. functions \in Seq(SmallFunction) /\ functions # <<>>
  BY DEF Typed, Layout
<1>2. Len(functions) \in Nat /\ 1 \in 1 .. Len(functions)
  BY <1>1
<1>3. functions[1] \in Function /\ Len(functions[1].instructions) \in Nat
  BY <1>1, <1>2, FunctionsAre
<1>4. InLoop'
  <2>1. 1 \in 1 .. Len(functions[1].instructions) + 1
    BY <1>3
  <2> QED
    BY <1>2, <2>1 DEF InLoop
<1>5. Place(1, 1) = 0
  BY <1>3, OffsetsAddUp DEF Place, Layout
<1>6. ASSUME NEW n \in 1 .. Len(functions),
             NEW m \in 1 .. Len(functions[n].instructions)
      PROVE  ~ Before(n, m)'
  <2>1. Len(functions[n].instructions) \in Nat
    BY <1>1, FunctionsAre
  <2> QED
    BY <1>2, <2>1 DEF Before
<1> QED
  BY <1>4, <1>5, <1>6

LEMMA ResolveLoop ==
  IInv /\ NextFunction("resolve_symbols", "parse") => IInv'
<1> SUFFICES ASSUME IInv, NextFunction("resolve_symbols", "parse") PROVE IInv'
  OBVIOUS
<1>1. Typed /\ Resolving /\ pc = "resolve_symbols" /\ ~ AtInstruction
  BY DEF IInv, NextFunction
<1>2. /\ UNCHANGED <<source, functions, reg_values, offset, assembled_code, placed>>
      /\ ins' = 1
  BY DEF NextFunction
<1>3. /\ InLoop /\ Layout /\ ResolvedBefore /\ placed = {} /\ assembled_code = <<>>
      /\ offset = Unbound \/ AtPoint(offset)
      /\ OwnNumbers
  BY <1>1 DEF Resolving
<1>o. OwnNumbers'
  BY <1>2, <1>3 DEF OwnNumbers, NoSharing, Numbered
<1>4. /\ Len(functions) \in Nat /\ fun \in 1 .. Len(functions)
      /\ \A n \in 1 .. fun : \A m \in 1 .. Len(functions[n].instructions) :
           Before(n, m)
  BY <1>1, <1>3, AtTheEnd
<1>5. Layout'
  BY <1>2, <1>3 DEF Layout
<1>6. \A n, m : Resolved(n, m) => Resolved(n, m)'
  <2>1. functions' = functions /\ reg_values' = reg_values
    BY <1>2
  <2> QED
    BY <2>1, ResolvedStays
<1>7. CASE fun < Len(functions)
  <2>1. fun' = fun + 1 /\ pc' = pc
    BY <1>7 DEF NextFunction
  <2>2. InLoop'
    BY <1>1, <1>2, <1>3, <1>7, <2>1, NextInLoop
  <2>3. ResolvedBefore'
    <3> SUFFICES ASSUME NEW n \in 1 .. Len(functions),
                        NEW m \in 1 .. Len(functions[n].instructions),
                        Before(n, m)'
                 PROVE  Resolved(n, m)'
      BY <1>2 DEF ResolvedBefore
    <3>1. Before(n, m)
      BY <1>1, <1>2, <1>3, <1>7, <2>1, NextInLoop
    <3>2. Resolved(n, m)
      BY <1>3, <3>1 DEF ResolvedBefore
    <3> QED
      BY <1>6, <3>2
  <2>4. Typed'
    BY <1>1, <1>2, <1>4, <2>1 DEF Typed
  <2> QED
    BY <1>1, <1>2, <1>3, <1>5, <1>o, <2>1, <2>2, <2>3, <2>4
       DEF IInv, Resolving, AtPoint, Place
<1>8. CASE ~ (fun < Len(functions))
  <2>1. fun' = 1 /\ pc' = "parse"
    BY <1>8 DEF NextFunction
  <2>2. /\ InLoop' /\ Place(1, 1) = 0
        /\ \A n \in 1 .. Len(functions) :
             \A m \in 1 .. Len(functions[n].instructions) : ~ Before(n, m)'
    BY <1>1, <1>2, <1>3, <2>1, Restart
  <2>3. ResolvedAll'
    <3> SUFFICES ASSUME NEW n \in 1 .. Len(functions),
                        NEW m \in 1 .. Len(functions[n].instructions)
                 PROVE  Resolved(n, m)'
      BY <1>2 DEF ResolvedAll
    <3>1. n \in 1 .. fun
      BY <1>4, <1>8
    <3>2. Resolved(n, m)
      BY <1>3, <1>4, <3>1 DEF ResolvedBefore
    <3> QED
      BY <1>6, <3>2
  <2>4. PutBefore'
    BY <1>2, <2>2 DEF PutBefore
  <2>5. Len(assembled_code') = Place(fun, ins)'
    BY <1>2, <1>3, <2>1, <2>2 DEF Place
  <2>6. Typed'
    BY <1>1, <1>2, <2>1 DEF Typed
  <2>7. placed' = {}
    BY <1>2, <1>3
  <2> QED
    BY <1>5, <1>o, <2>1, <2>2, <2>3, <2>4, <2>5, <2>6, <2>7 DEF IInv, Emitting
<1> QED
  BY <1>7, <1>8

LEMMA CodingStays ==
  ASSUME UNCHANGED <<functions, reg_values>>, NEW p
  PROVE  /\ instruction(p)' = instruction(p)
         /\ Encodable(instruction(p))' <=> Encodable(instruction(p))
         /\ Encoding(instruction(p))' = Encoding(instruction(p))
<1>1. instruction(p)' = instruction(p)
  BY DEF instruction
<1>2. \A i : Encodable(i)' <=> Encodable(i)
  BY DEF Encodable, reg8, uint8, uint16, value
<1>3. \A i : Encoding(i)' = Encoding(i)
  BY DEF Encoding, Operands, value
<1> QED
  BY <1>1, <1>2, <1>3

LEMMA EmittedStays ==
  ASSUME UNCHANGED <<functions, reg_values, assembled_code>>, NEW p, Emitted(p)
  PROVE  Emitted(p)'
  BY CodingStays DEF Emitted, Place, NoRegisterJumps

LEMMA EncodeLoop == IInv /\ NextFunction("parse", "done") => IInv'
<1> SUFFICES ASSUME IInv, NextFunction("parse", "done") PROVE IInv'
  OBVIOUS
<1>1. Typed /\ Emitting /\ pc = "parse" /\ ~ AtInstruction
  BY DEF IInv, NextFunction
<1>2. /\ UNCHANGED <<source, functions, reg_values, offset, assembled_code, placed>>
      /\ ins' = 1
  BY DEF NextFunction
<1>3. /\ InLoop /\ Layout /\ ResolvedAll /\ PutBefore
      /\ \A p \in placed : Emitted(p)
      /\ NoRegisterJumps => Len(assembled_code) = Place(fun, ins)
      /\ OwnNumbers
  BY <1>1 DEF Emitting
<1>o. OwnNumbers'
  BY <1>2, <1>3 DEF OwnNumbers, NoSharing, Numbered
<1>4. /\ Len(functions) \in Nat /\ fun \in 1 .. Len(functions)
      /\ Len(functions[fun].instructions) \in Nat
      /\ ins = Len(functions[fun].instructions) + 1
      /\ \A n \in 1 .. fun : \A m \in 1 .. Len(functions[n].instructions) :
           Before(n, m)
  BY <1>1, <1>3, AtTheEnd
<1>5. Layout'
  BY <1>2, <1>3 DEF Layout
<1>6. ResolvedAll'
  <2>1. functions' = functions /\ reg_values' = reg_values /\ ResolvedAll
    BY <1>2, <1>3
  <2>2. \A n, m : Resolved(n, m) => Resolved(n, m)'
    BY <2>1, ResolvedStays
  <2> QED
    BY <2>1, <2>2 DEF ResolvedAll
<1>7. \A p \in placed' : Emitted(p)'
  BY <1>2, <1>3, EmittedStays
<1>8. \A n, m : Put(n, m) => Put(n, m)'
  <2>1. placed' = placed
    BY <1>2
  <2> QED
    BY <2>1 DEF Put
<1>9. CASE fun < Len(functions)
  <2>1. fun' = fun + 1 /\ pc' = pc
    BY <1>9 DEF NextFunction
  <2>2. /\ InLoop'
        /\ \A n \in 1 .. Len(functions) :
             \A m \in 1 .. Len(functions[n].instructions) :
               Before(n, m)' => Before(n, m)
    BY <1>1, <1>2, <1>3, <1>9, <2>1, NextInLoop
  <2>3. PutBefore'
    BY <1>2, <1>3, <1>8, <2>2 DEF PutBefore
  <2>4. Typed'
    BY <1>1, <1>2, <1>4, <2>1 DEF Typed
  <2>5. Place(fun + 1, 1) = Place(fun, ins)
    BY <1>1, <1>3, <1>4, <1>9, NextPlace DEF Typed
  <2>6. (NoRegisterJumps => Len(assembled_code) = Place(fun, ins))'
    <3>1. Place(fun, ins)' = Place(fun + 1, 1)
      BY <1>2, <2>1 DEF Place
    <3> QED
      BY <1>2, <1>3, <2>5, <3>1 DEF NoRegisterJumps
  <2> QED
    BY <1>1, <1>5, <1>6, <1>7, <1>o, <2>1, <2>2, <2>3, <2>4, <2>6
       DEF IInv, Emitting
<1>10. CASE ~ (fun < Len(functions))
  <2>1. fun' = 1 /\ pc' = "done"
    BY <1>10 DEF NextFunction
  <2>2. PutAll'
    <3> SUFFICES ASSUME NEW n \in 1 .. Len(functions),
                        NEW m \in 1 .. Len(functions[n].instructions)
                 PROVE  Put(n, m)'
      BY <1>2 DEF PutAll
    <3>1. n \in 1 .. fun
      BY <1>4, <1>10
    <3>2. Put(n, m)
      BY <1>3, <1>4, <3>1 DEF PutBefore
    <3> QED
      BY <1>8, <3>2
  <2>3. Typed'
    BY <1>1, <1>2, <2>1 DEF Typed
  <2>4. (NoRegisterJumps => Len(assembled_code) = CodeEnd)'
    <3>1. fun = Len(functions)
      BY <1>4, <1>10
    <3>2. CodeEnd = Place(fun, ins)
      BY <1>4, <3>1 DEF CodeEnd
    <3> QED
      BY <1>2, <1>3, <3>2 DEF NoRegisterJumps, CodeEnd, Place
  <2> QED
    BY <1>5, <1>6, <1>7, <1>o, <2>1, <2>2, <2>3, <2>4 DEF IInv, Finished
<1> QED
  BY <1>9, <1>10

LEMMA EncodeStep == IInv /\ EncodeNext => IInv'
<1> SUFFICES ASSUME IInv, EncodeNext PROVE IInv'
  OBVIOUS
<1> DEFINE e == Encoding(this)
           code == assembled_code
           new == [fun |-> fun, ins |-> ins, at |-> Len(code)]
<1>1. Typed /\ Emitting /\ pc = "parse" /\ AtInstruction
  BY DEF IInv, EncodeNext
<1>2. UNCHANGED <<source, functions, reg_values, fun, offset>>
  BY DEF EncodeNext
<1>3. /\ InLoop /\ Layout /\ ResolvedAll /\ PutBefore
      /\ \A p \in placed : Emitted(p)
      /\ NoRegisterJumps => Len(code) = Place(fun, ins)
      /\ OwnNumbers
  BY <1>1 DEF Emitting
<1>o. OwnNumbers'
  BY <1>2, <1>3 DEF OwnNumbers, NoSharing, Numbered
<1>4. /\ functions \in Seq(SmallFunction) /\ fun \in 1 .. Len(functions)
      /\ code \in Seq(Byte) /\ Len(code) \in Nat
      /\ placed \subseteq [fun : Nat, ins : Nat, at : Nat]
  BY <1>1, <1>3 DEF Typed, InLoop
<1>5. /\ Len(functions) \in Nat
      /\ functions[fun] \in Function /\ functions[fun].offset \in Nat
      /\ Len(functions[fun].instructions) \in Nat
      /\ DOMAIN functions = 1 .. Len(functions)
      /\ DOMAIN functions[fun].instructions
           = 1 .. Len(functions[fun].instructions)
      /\ \A m \in 1 .. Len(functions[fun].instructions) :
           functions[fun].instructions[m] \in SmallInstruction
  BY <1>4, FunctionsAre
<1>6. ins \in 1 .. Len(functions[fun].instructions)
  BY <1>1, <1>3, <1>5 DEF InLoop, AtInstruction
<1>7. this \in SmallInstruction
  BY <1>5, <1>6 DEF this
<1>8. CASE ~ Encodable(this)
  <2>1. pc' = "raised" /\ UNCHANGED <<assembled_code, placed, ins>>
    BY <1>8 DEF EncodeNext, Raise
  <2>2. Typed'
    BY <1>1, <1>2, <2>1 DEF Typed
  <2> QED
    BY <2>1, <2>2 DEF IInv
<1>9. CASE Encodable(this)
  <2>1. /\ assembled_code' = code \o <<opcodes[this.name]>> \o Operands(this)
        /\ placed' = placed \cup {new}
        /\ ins' = ins + 1 /\ pc' = pc
    BY <1>9 DEF EncodeNext
  <2>2. /\ e \in Seq(Byte) /\ Len(e) \in Nat
        /\ this.name \notin RegisterJumps => Len(e) = Width(this)
    BY <1>7, <1>9, EncodingIs
  <2>3. assembled_code' = code \o e
    <3>1. <<opcodes[this.name]>> \in Seq(Byte)
      <4>1. this.name \in Ops
        BY <1>7 DEF SmallInstruction, Instruction
      <4>2. opcodes[this.name] \in Byte
        BY <4>1, OpcodesAssumption
      <4> QED
        BY <4>2
    <3>2. Operands(this) \in Seq(Byte)
      BY <1>7, <1>9, OperandsAre
    <3>3. (code \o <<opcodes[this.name]>>) \o Operands(this)
            = code \o (<<opcodes[this.name]>> \o Operands(this))
      BY <1>4, <3>1, <3>2, ConcatAssociative
    <3> QED
      BY <2>1, <3>3 DEF Encoding
  <2> HIDE DEF e
  <2>4. /\ assembled_code' \in Seq(Byte)
        /\ Len(assembled_code') = Len(code) + Len(e)
        /\ \A k \in 1 .. Len(code) : assembled_code'[k] = code[k]
        /\ \A k \in 1 .. Len(e) : assembled_code'[Len(code) + k] = e[k]
    <3>1. /\ code \o e \in Seq(Byte) /\ Len(code \o e) = Len(code) + Len(e)
          /\ \A k \in 1 .. Len(code) + Len(e) :
               (code \o e)[k] = IF k <= Len(code) THEN code[k]
                                                  ELSE e[k - Len(code)]
      BY <1>4, <2>2, ConcatProperties
    <3>2. ASSUME NEW k \in 1 .. Len(code) PROVE (code \o e)[k] = code[k]
      BY <1>4, <2>2, <3>1
    <3>3. ASSUME NEW k \in 1 .. Len(e) PROVE (code \o e)[Len(code) + k] = e[k]
      <4>1. /\ Len(code) + k \in 1 .. Len(code) + Len(e)
            /\ ~ (Len(code) + k <= Len(code)) /\ (Len(code) + k) - Len(code) = k
        BY <1>4, <2>2
      <4> QED
        BY <3>1, <4>1
    <3> QED
      BY <2>3, <3>1, <3>2, <3>3
  <2>5. Typed'
    <3>1. new \in [fun : Nat, ins : Nat, at : Nat]
      BY <1>4, <1>5, <1>6
    <3> QED
      BY <1>1, <1>2, <1>6, <2>1, <2>4, <3>1 DEF Typed
  <2>6. Layout' /\ InLoop'
    BY <1>2, <1>3, <1>5, <1>6, <2>1 DEF Layout, InLoop
  <2>7. ResolvedAll'
    <3>1. \A n, m : Resolved(n, m) => Resolved(n, m)'
      <4>1. functions' = functions /\ reg_values' = reg_values
        BY <1>2
      <4> QED
        BY <4>1, ResolvedStays
    <3> QED
      BY <1>2, <1>3, <3>1 DEF ResolvedAll
  <2>8. ASSUME NEW p \in placed PROVE Emitted(p)'
    <3>1. Emitted(p) /\ p.at \in Nat
      BY <1>3, <1>4
    <3> DEFINE E == Encoding(instruction(p))
    <3>2. /\ E = Encoding(instruction(p))' /\ Encodable(instruction(p))'
      BY <1>2, <3>1, CodingStays DEF Emitted
    <3>3. Len(E) \in Nat
      <4>1. instruction(p) \in SmallInstruction /\ Encodable(instruction(p))
        BY <1>4, <3>1, FunctionsAre DEF Emitted, instruction
      <4> QED
        BY <4>1, EncodingIs
    <3>4. ASSUME NEW k \in 1 .. Len(E)
          PROVE  /\ p.at + k <= Len(assembled_code')
                 /\ assembled_code'[p.at + k] = E[k]
      <4>1. p.at + k <= Len(code) /\ code[p.at + k] = E[k]
        BY <3>1 DEF Emitted
      <4>2. p.at + k \in 1 .. Len(code)
        BY <1>4, <3>1, <3>3, <4>1
      <4> QED
        BY <1>4, <2>2, <2>4, <4>1, <4>2
    <3> HIDE DEF E
    <3> QED
      BY <1>2, <3>1, <3>2, <3>4
         DEF Emitted, instruction, Place, NoRegisterJumps
  <2>9. ASSUME NEW p, p = new PROVE Emitted(p)'
    <3>1. p.fun = fun /\ p.ins = ins /\ p.at = Len(code)
      BY <2>9
    <3>2. instruction(p)' = this
      BY <1>2, <3>1 DEF instruction, this
    <3>3. Encoding(instruction(p))' = e /\ Encodable(instruction(p))'
      <4>1. instruction(p) = this
        BY <3>1 DEF instruction, this
      <4> QED
        BY <1>2, <1>9, <4>1, CodingStays DEF e
    <3>4. ASSUME NEW k \in 1 .. Len(e)
          PROVE  /\ p.at + k <= Len(assembled_code')
                 /\ assembled_code'[p.at + k] = e[k]
      BY <1>4, <2>2, <2>4, <3>1
    <3>5. NoRegisterJumps' => p.at = Place(p.fun, p.ins)'
      BY <1>2, <1>3, <3>1 DEF NoRegisterJumps, Place
    <3> QED
      BY <1>2, <1>4, <1>6, <1>9, <3>1, <3>2, <3>3, <3>4, <3>5 DEF Emitted
  <2>10. \A p \in placed' : Emitted(p)'
    <3> SUFFICES ASSUME NEW p \in placed' PROVE Emitted(p)'
      OBVIOUS
    <3>1. p \in placed \/ p = new
      BY <2>1
    <3> QED
      BY <2>8, <2>9, <3>1
  <2>11. PutBefore'
    <3> SUFFICES ASSUME NEW n \in 1 .. Len(functions),
                        NEW m \in 1 .. Len(functions[n].instructions),
                        Before(n, m)'
                 PROVE  Put(n, m)'
      BY <1>2 DEF PutBefore
    <3>1. Before(n, m) \/ (n = fun /\ m = ins)
      BY <1>2, <1>5, <1>6, <2>1 DEF Before
    <3>2. CASE Before(n, m)
      <4>1. Put(n, m)
        BY <1>3, <3>2 DEF PutBefore
      <4> QED
        BY <2>1, <4>1 DEF Put
    <3>3. CASE n = fun /\ m = ins
      <4>1. new \in placed' /\ new.fun = n /\ new.ins = m
        BY <2>1, <3>3
      <4> HIDE DEF new
      <4> QED
        BY <4>1 DEF Put
    <3> QED
      BY <3>1, <3>2, <3>3
  <2>12. (NoRegisterJumps => Len(assembled_code) = Place(fun, ins))'
    <3> SUFFICES ASSUME NoRegisterJumps
                 PROVE  Len(assembled_code') = Place(fun, ins + 1)
      BY <1>2, <2>1 DEF NoRegisterJumps, Place
    <3>1. this.name \notin RegisterJumps
      BY <1>4, <1>5, <1>6 DEF NoRegisterJumps, this
    <3>2. Len(code) = Place(fun, ins)
      BY <1>3
    <3>3. offset_of_instruction(functions[fun], ins + 1)
            = offset_of_instruction(functions[fun], ins) + Width(this)
      BY <1>5, <1>6, OffsetsAddUp DEF this
    <3>4. /\ offset_of_instruction(functions[fun], ins) \in Nat
          /\ Width(this) \in Nat
      <4>1. ins \in 1 .. Len(functions[fun].instructions) + 1
        BY <1>5, <1>6
      <4>2. this.name \in Ops
        BY <1>7 DEF SmallInstruction, Instruction
      <4> QED
        BY <1>5, <4>1, <4>2, OffsetsAddUp, WidthNat
    <3> QED
      BY <1>5, <2>2, <2>4, <3>1, <3>2, <3>3, <3>4 DEF Place
  <2> QED
    BY <1>1, <1>o, <2>1, <2>5, <2>6, <2>7, <2>10, <2>11, <2>12 DEF IInv, Emitting
<1> QED
  BY <1>8, <1>9

LEMMA NextIInv == IInv /\ [Next]_vars => IInv'
<1> SUFFICES ASSUME IInv, [Next]_vars PROVE IInv'
  OBVIOUS
<1>1. CASE parse_functions
  BY <1>1, ParseStep
<1>2. CASE resolve_functions_offsets
  BY <1>2, OffsetsStep
<1>3. CASE resolve_symbols
  BY <1>3, ResolveStep, ResolveLoop DEF resolve_symbols
<1>4. CASE parse
  BY <1>4, EncodeStep, EncodeLoop DEF parse
<1>5. CASE UNCHANGED vars
  <2>1. /\ UNCHANGED <<source, functions, reg_values, fun, ins, offset>>
        /\ UNCHANGED assembled_code
        /\ UNCHANGED <<placed, pc>>
    BY <1>5 DEF vars
  <2>2. \A p : Emitted(p) => Emitted(p)'
    BY <2>1, EmittedStays
  <2>3. \A n, m : /\ Resolved(n, m) => Resolved(n, m)'
                  /\ Put(n, m) => Put(n, m)'
                  /\ Before(n, m)' <=> Before(n, m)
    <3>1. functions' = functions /\ reg_values' = reg_values
      BY <2>1
    <3>2. \A n, m : Resolved(n, m) => Resolved(n, m)'
      BY <3>1, ResolvedStays
    <3> QED
      BY <2>1, <3>2 DEF Put, Before
  <2>4. Typed' /\ (Fresh => Fresh') /\ (Layout => Layout') /\ (InLoop => InLoop')
    BY <2>1 DEF IInv, Typed, Fresh, Numbered, Layout, InLoop
  <2>9. OwnNumbers => OwnNumbers'
    BY <2>1 DEF OwnNumbers, NoSharing, Numbered
  <2>5. /\ ResolvedAll => ResolvedAll'
        /\ ResolvedBefore => ResolvedBefore'
        /\ PutAll => PutAll'
        /\ PutBefore => PutBefore'
    BY <2>1, <2>3 DEF ResolvedAll, ResolvedBefore, PutAll, PutBefore
  <2>6. (NoRegisterJumps => Len(assembled_code) = Place(fun, ins))
          => (NoRegisterJumps => Len(assembled_code) = Place(fun, ins))'
    BY <2>1 DEF NoRegisterJumps, Place
  <2>7. (NoRegisterJumps => Len(assembled_code) = CodeEnd)
          => (NoRegisterJumps => Len(assembled_code) = CodeEnd)'
    BY <2>1 DEF NoRegisterJumps, CodeEnd, Place
  <2>8. (offset = Unbound \/ AtPoint(offset))
          => (offset = Unbound \/ AtPoint(offset))'
    BY <2>1 DEF AtPoint, Place
  <2> QED
    BY <2>1, <2>2, <2>4, <2>5, <2>6, <2>7, <2>8, <2>9
    DEF IInv, Resolving, Emitting, Finished
<1> QED
  BY <1>1, <1>2, <1>3, <1>4, <1>5 DEF Next

(* The assembler raises or writes bytes: whatever the text, every operand  *)
(* that is emitted fits its field, and every number is the one of a byte.  *)
THEOREM TypeCorrect == Spec => []TypeOK
  BY InitIInv, NextIInv, IInvTypeOK, PTL DEF Spec

(* Layout and encoding agree: in a text without register jumps every       *)
(* instruction is emitted at the address the layout gave it.               *)
THEOREM LayoutKept == Spec => []InPlace
  BY InitIInv, NextIInv, IInvInPlace, PTL DEF Spec

(* The jumps of such a text go where their symbols say.                    *)
THEOREM JumpsArrive == Spec => []SymbolsBound
  BY InitIInv, NextIInv, IInvSymbolsBound, PTL DEF Spec

(* And wherever they say: no jump of such a text ends inside an            *)
(* instruction, also not one to a label of another function, whose offset  *)
(* is looked for in the wrong one, nor one to a name that is not found.    *)
THEOREM JumpsOnInstructions == Spec => []JumpsLand
  BY InitIInv, NextIInv, IInvJumpsLand, PTL DEF Spec
=============================================================================
