----------------------------- MODULE Assembler -----------------------------
(***************************************************************************)
(* assembler/assembler.py: from the lines of a text to bytecode.           *)
(* __init__ parses the lines into functions, lays these out and replaces   *)
(* the symbols; parse() then encodes one instruction after the other.      *)
(*                                                                         *)
(* A line is what the regular expressions make of it: the head of a        *)
(* function, a label, an instruction with its operands, or none of these.  *)
(* An uncaught exception of any kind ends the program ("raised").          *)
(***************************************************************************)
EXTENDS InstructionSet, Words, FiniteSetsExt

CONSTANTS
  Sources,          \* the texts, without empty lines and comments
  opcodes,          \* ops after encrypt_ops: the byte of each instruction
  casefold(_)       \* the lower-case form of a name

None == "None"      \* no label, no name
Unbound == -1       \* a local variable before its first assignment

(* An operand is a register (what register_re takes for one), a number, or *)
(* a name; name is its text, num its number: of a register, its place in   *)
(* reg_names.  A name made of hexadecimal digits would count as a number.  *)
Operand == [kind : {"reg", "num", "name"}, num : Nat, name : STRING]
Line == [kind : {"def", "label", "ins", "other"}, name : STRING,
         args : Seq(Operand)]

jumps == {"JMPI", "JMPR", "JPAI", "JPAR", "JPBI", "JPBR", "JPEI", "JPER",
          "JPNI", "JPNR", "CALL"}

reg_names == <<"r0", "r1", "r2", "r3", "s0", "s1", "s2", "s3", "ip", "rp", "sp">>
places == 0 .. Len(reg_names) - 1
in_regs(name) == \E n \in places : reg_names[n + 1] = name

ASSUME SourcesAssumption ==
  /\ Sources \subseteq Seq(Line)
  /\ \A text \in Sources : \A n \in DOMAIN text :
       /\ Len(text[n].args) <= 2
       /\ \A k \in DOMAIN text[n].args : LET a == text[n].args[k] IN
            /\ in_regs(casefold(a.name)) => a.kind = "reg"
            /\ \A r \in places :
                 a.kind = "reg" /\ a.name = reg_names[r + 1] => a.num = r
ASSUME OpcodesAssumption == opcodes \in [Ops -> Byte]

VARIABLES
  source,           \* self.data
  functions,        \* self.functions
  reg_values,       \* regs, of the module: the value of each register
  fun, ins,         \* the loop variables: which function, which instruction
  offset,           \* the local variable of resolve_symbols
  assembled_code,   \* self.assembled_code
  placed,           \* history: where in it each instruction was put
  pc                \* the method that runs, "done", "exited" or "raised"

vars == <<source, functions, reg_values, fun, ins, offset, assembled_code, placed,
          pc>>

-----------------------------------------------------------------------------
(* The assembler's own table of the instructions: op_names and ops_sizes.  *)

method(op) ==
  CASE op \in {"MOVI", "LODI", "ADDI", "SUBI", "ANDW", "YORW", "XORW", "MULI",
               "DIVI", "SHLI", "SHRI", "CMPW"} -> "imm2reg"
    [] op \in {"MOVR", "LODR", "STRR", "ADDR", "SUBR", "ANDR", "YORR", "XORR",
               "MULR", "DIVR", "SHLR", "SHRR", "CMPR"} -> "reg2reg"
    [] op = "STRI" -> "reg2imm"
    [] op \in {"ANDB", "YORB", "XORB", "CMPB"} -> "byt2reg"
    [] op \in {"NOTR", "PUSH", "POOP"} -> "regonly"
    [] op \in jumps -> "jump"
    [] op \in {"RETN", "SHIT", "NOPE", "GRMN", "DEBG"} -> "single"

StoreAsThree(m) == IF m = "reg2imm" THEN 3 ELSE 4     \* mutant: a wrong size
ops_sizes(m) == CASE m \in {"imm2reg", "reg2imm"} -> 4
                  [] m \in {"byt2reg", "jump"} -> 3
                  [] m \in {"reg2reg", "regonly"} -> 2
                  [] m = "single" -> 1

(* The names that jump matches against imm_op_re; the others end in R.     *)
ToImmediate(op) == op \in {"JMPI", "JPAI", "JPBI", "JPEI", "JPNI", "CALL"}
RegisterJumps == jumps \ {op \in jumps : ToImmediate(op)}

symcall(line) == line.name \in jumps /\ Len(line.args) = 1

(* The numbers up to n that are in S, in order.                            *)
Ascending(S, n) ==
  LET upto[k \in 0 .. n] ==
        IF k = 0 THEN <<>> ELSE IF k \in S THEN Append(upto[k - 1], k)
                                           ELSE upto[k - 1]
  IN  upto[n]

(* The one operand of a jump gets an object of its own, also a register,   *)
(* which is then a name like any other.  Elsewhere names are dropped, and  *)
(* a register is the one object in regs that all instructions share.  So a *)
(* jump with a register and a name is left with the shared register.       *)
Component(line, a) ==
  IF symcall(line) /\ a.kind = "reg" THEN [a EXCEPT !.kind = "name"] ELSE a
VMInstruction(line, label) ==
  LET kept == Ascending({n \in DOMAIN line.args : \/ symcall(line)
                                                  \/ line.args[n].kind # "name"},
                        Len(line.args))
  IN  [name |-> line.name, label |-> label,
       args |-> [n \in DOMAIN kept |-> Component(line, line.args[kept[n]])]]

(* register_re accepts r4, s4 and upper-case letters, which regs has not.  *)
WellFormed(line) ==
  /\ line.name \in Ops
  /\ symcall(line) \/ \A n \in DOMAIN line.args :
       line.args[n].kind = "reg" => in_regs(line.args[n].name)

Where(seq, kind) == Ascending({n \in DOMAIN seq : seq[n].kind = kind}, Len(seq))

(* VMFunction.__init__: a label belongs to the instruction behind it.      *)
VMFunction(name, code) ==
  LET at == Where(code, "ins") IN
  [name |-> name, offset |-> 0,
   instructions |->
     [n \in DOMAIN at |->
        VMInstruction(code[at[n]],
          IF at[n] > 1 /\ code[at[n] - 1].kind = "label"
            THEN code[at[n] - 1].name ELSE None)]]

Accepted(code) ==
  \A n \in DOMAIN code :
    \/ code[n].kind = "ins" /\ WellFormed(code[n])
    \/ code[n].kind = "label" /\ n < Len(code) /\ code[n + 1].kind = "ins"

(* The lines of each function.  Lines before the first one are dropped,    *)
(* and so are functions without a name, except for the last one.           *)
Bodies ==
  LET heads == Where(source, "def")
      added == Ascending({n \in DOMAIN heads : \/ source[heads[n]].name # ""
                                               \/ n = Len(heads)}, Len(heads))
      last(n) == IF n = Len(heads) THEN Len(source) ELSE heads[n + 1] - 1
  IN  IF heads = <<>>
        THEN <<[name |-> None, code |-> source]>>
        ELSE [m \in DOMAIN added |->
                LET n == added[m] IN
                [name |-> source[heads[n]].name,
                 code |-> SubSeq(source, heads[n] + 1, last(n))]]

AsWrittenDown(fs) == fs                         \* mutant: main stays where it is
SwapFirst(s, n) == [s EXCEPT ![1] = s[n], ![n] = s[1]]
MainFirst(fs) ==
  LET mains == {n \in DOMAIN fs \ {1} : fs[n].name = "main"} IN
  IF mains = {} THEN fs ELSE SwapFirst(fs, Min(mains))

(* VMFunction.size, offset_of_instruction and offset_of_label.             *)
size(instrs) ==
  LET upto[n \in 0 .. Len(instrs)] ==
        IF n = 0 THEN 0 ELSE upto[n - 1] + ops_sizes(method(instrs[n].name))
  IN  upto[Len(instrs)]
offset_of_instruction(f, n) == size(SubSeq(f.instructions, 1, n - 1))
BehindLabel(f, label) ==             \* mutant: the marked instruction skipped
  LET hits == {n \in DOMAIN f.instructions : f.instructions[n].label = label}
  IN  IF hits = {} THEN size(f.instructions)
                   ELSE offset_of_instruction(f, Min(hits) + 1)
offset_of_label(f, label) ==
  LET hits == {n \in DOMAIN f.instructions : f.instructions[n].label = label}
  IN  IF hits = {} THEN size(f.instructions)
                   ELSE offset_of_instruction(f, Min(hits))

-----------------------------------------------------------------------------
Init ==
  /\ source \in Sources
  /\ functions = <<>>
  /\ reg_values = [r \in places |-> r]
  /\ fun = 1 /\ ins = 1
  /\ offset = Unbound
  /\ assembled_code = <<>>
  /\ placed = {}
  /\ pc = "parse_functions"

Raise == pc' = "raised"

parse_functions ==
  /\ pc = "parse_functions"
  /\ IF source # <<>> /\ \A n \in DOMAIN Bodies : Accepted(Bodies[n].code)
       THEN /\ functions' = MainFirst([n \in DOMAIN Bodies |->
                              VMFunction(Bodies[n].name, Bodies[n].code)])
            /\ pc' = "resolve_functions_offsets"
       ELSE Raise /\ UNCHANGED functions
  /\ UNCHANGED <<source, reg_values, fun, ins, offset, assembled_code, placed>>

resolve_functions_offsets ==
  /\ pc = "resolve_functions_offsets"
  /\ LET start[n \in 1 .. Len(functions)] ==
           IF n = 1 THEN 0
                    ELSE start[n - 1] + size(functions[n - 1].instructions)
     IN  functions' = [n \in DOMAIN functions |->
                         [functions[n] EXCEPT !.offset = start[n]]]
  /\ pc' = "resolve_symbols"
  /\ UNCHANGED <<source, reg_values, fun, ins, offset, assembled_code, placed>>

(* The two nested loops over the functions and their instructions.         *)
AtInstruction == fun <= Len(functions) /\ ins <= Len(functions[fun].instructions)
this == functions[fun].instructions[ins]
NextFunction(method_name, then) ==
  /\ pc = method_name
  /\ ~AtInstruction
  /\ IF fun < Len(functions)
       THEN fun' = fun + 1 /\ UNCHANGED pc
       ELSE fun' = 1 /\ pc' = then
  /\ ins' = 1
  /\ UNCHANGED <<source, functions, reg_values, offset, assembled_code, placed>>
-----------------------------------------------------------------------------
(* resolve_symbols.                                                        *)

LabelsOf(f) == {f.instructions[n].label : n \in DOMAIN f.instructions} \ {None}
Labels == UNION {LabelsOf(functions[n]) : n \in DOMAIN functions}
Named(symbol) == {n \in DOMAIN functions : functions[n].name = symbol}

(* A name is looked for among the labels of all functions, and its offset  *)
(* among those of this function.  A symbol that is not found leaves offset *)
(* as it was: numbers and registers are such symbols.                      *)
SymbolOffset(symbol) ==
  IF symbol \in Labels
    THEN offset_of_label(functions[fun], symbol) + functions[fun].offset
    ELSE IF Named(symbol) # {} THEN functions[Min(Named(symbol))].offset
                               ELSE offset

(* i.args[0].set_value: of a register in regs, wherever else it is named.  *)
SetValue(x) ==
  IF this.args[1].kind = "reg"
    THEN /\ reg_values' = [reg_values EXCEPT ![this.args[1].num] = x]
         /\ UNCHANGED functions
    ELSE /\ functions' = [functions EXCEPT ![fun].instructions[ins].args[1].num = x]
         /\ UNCHANGED reg_values

ResolveNext ==
  /\ pc = "resolve_symbols"
  /\ AtInstruction
  /\ IF symcall(this)
       THEN LET found == SymbolOffset(casefold(this.args[1].name)) IN
            /\ offset' = found
            /\ IF found = Unbound
                 THEN Raise /\ UNCHANGED <<functions, reg_values, ins>>
                 ELSE SetValue(found) /\ ins' = ins + 1 /\ UNCHANGED pc
       ELSE ins' = ins + 1 /\ UNCHANGED <<functions, reg_values, offset, pc>>
  /\ UNCHANGED <<source, fun, assembled_code, placed>>

resolve_symbols ==
  ResolveNext \/ NextFunction("resolve_symbols", "parse")
-----------------------------------------------------------------------------
(* parse: the encoders.  Whether an operand is an immediate is not checked *)
(* in effect: isimm accepts a register, which then counts as its value.    *)
(* isreg goes by the name; ip raises IPOverwrite.                          *)

value(a) == IF a.kind = "reg" THEN reg_values[a.num] ELSE a.num
isreg(a) == in_regs(casefold(a.name)) /\ casefold(a.name) # "ip"
anyword(a) == value(a) \in Nat                  \* mutant: width not checked
uint8(a) == value(a) \in Byte
uint16(a) == value(a) \in Word
reg8(a) == isreg(a) /\ uint8(a)

Encodable(i) ==
  LET a == i.args
      one == Len(a) >= 1
      two == Len(a) >= 2
      m == method(i.name)
  IN  CASE m = "imm2reg" -> two /\ reg8(a[1]) /\ uint16(a[2])
        [] m = "reg2reg" -> two /\ reg8(a[1]) /\ reg8(a[2]) /\ value(a[1]) < 16
        [] m = "reg2imm" -> two /\ uint16(a[1]) /\ reg8(a[2])
        [] m = "byt2reg" -> two /\ reg8(a[1]) /\ uint8(a[2])
        [] m = "regonly" -> one /\ reg8(a[1])
        [] m = "jump" /\ ToImmediate(i.name) -> one /\ uint16(a[1])
        [] m = "jump" /\ ~ToImmediate(i.name) -> one /\ reg8(a[1])
        [] m = "single" -> TRUE

HighByteFirst(w) == <<HiByte(w), LoByte(w)>>     \* mutant: struct.pack(">H")
WordBytes(w) == <<LoByte(w), HiByte(w)>>
Operands(i) ==
  LET x == value(i.args[1])
      y == value(i.args[2])
      m == method(i.name)
  IN  CASE m = "imm2reg" -> <<x>> \o WordBytes(y)
        [] m = "reg2reg" -> <<16 * x + (y % 16)>>
        [] m = "reg2imm" -> WordBytes(x) \o <<y>>
        [] m = "byt2reg" -> <<x, y>>
        [] m = "regonly" -> <<x>>
        [] m = "jump" /\ ToImmediate(i.name) -> WordBytes(x)
        [] m = "jump" /\ ~ToImmediate(i.name) -> <<x>>
        [] m = "single" -> <<>>

EncodeNext ==
  /\ pc = "parse"
  /\ AtInstruction
  /\ IF Encodable(this)
       THEN /\ assembled_code' =
                 assembled_code \o <<opcodes[this.name]>> \o Operands(this)
            /\ placed' = placed \cup
                 {[fun |-> fun, ins |-> ins, at |-> Len(assembled_code)]}
            /\ ins' = ins + 1
            /\ UNCHANGED pc
       ELSE Raise /\ UNCHANGED <<assembled_code, placed, ins>>
  /\ UNCHANGED <<source, functions, reg_values, fun, offset>>

parse == EncodeNext \/ NextFunction("parse", "done")

Next == parse_functions \/ resolve_functions_offsets \/ resolve_symbols \/ parse

Spec == Init /\ [][Next]_vars
-----------------------------------------------------------------------------
(* Properties.                                                             *)

Name == STRING \cup {None}
Instruction == [name : Ops, label : Name, args : Seq(Operand)]
Function == [name : Name, offset : Nat, instructions : Seq(Instruction)]
Methods == {"parse_functions", "resolve_functions_offsets", "resolve_symbols",
            "parse", "done", "exited", "raised"}

(* The code is a sequence of bytes whatever the text says: operands that   *)
(* do not fit their field raise.                                           *)
TypeOK ==
  /\ source \in Seq(Line)
  /\ functions \in Seq(Function)
  /\ reg_values \in [places -> Nat]
  /\ fun \in Nat \ {0} /\ ins \in Nat \ {0}
  /\ offset \in Nat \cup {Unbound}
  /\ assembled_code \in Seq(Byte)
  /\ placed \subseteq [fun : Nat, ins : Nat, at : Nat]
  /\ pc \in Methods

instruction(p) == functions[p.fun].instructions[p.ins]

(* A register jump is laid out with three bytes and emitted with two, so   *)
(* nothing behind one is where the layout says.                            *)
NoRegisterJumps ==
  \A n \in DOMAIN functions : \A m \in DOMAIN functions[n].instructions :
    functions[n].instructions[m].name \notin RegisterJumps

(* Layout and encoding are two passes with two notions of size: every      *)
(* instruction is emitted at the address that labels and functions were    *)
(* given from the table of sizes, main moved to the front.                 *)
InPlace ==
  pc = "parse" /\ NoRegisterJumps =>
    \A p \in placed :
      p.at = functions[p.fun].offset
               + offset_of_instruction(functions[p.fun], p.ins)

(* The word a jump at p was given.                                         *)
target(p) == MkWord(assembled_code[p.at + 2], assembled_code[p.at + 3])
ImmediateJumps == {p \in placed : /\ ToImmediate(instruction(p).name)
                                  /\ symcall(instruction(p))}
symbol(p) == casefold(instruction(p).args[1].name)

(* Where the symbol of a jump is a label of its own function, the jump     *)
(* goes to the instruction behind the label; where it is only the name of  *)
(* a function, to the first instruction of that, if it has any.  Symbols   *)
(* are resolved before anything is emitted: this links the two passes.     *)
(* Not so of a jump left with a register of regs: the latest one to be     *)
(* resolved decides for all of them.                                       *)
SymbolsBound ==
  pc = "done" /\ NoRegisterJumps =>
    \A p \in {q \in ImmediateJumps : instruction(q).args[1].kind # "reg"} :
      /\ symbol(p) \in LabelsOf(functions[p.fun]) =>
           \E q \in placed : /\ q.fun = p.fun
                             /\ instruction(q).label = symbol(p)
                             /\ q.at = target(p)
      /\ symbol(p) \notin Labels /\ Named(symbol(p)) # {} =>
           LET f == Min(Named(symbol(p))) IN
           functions[f].instructions # <<>> =>
             \E q \in placed : q.fun = f /\ q.ins = 1 /\ q.at = target(p)

(* Every jump lands on an instruction, or on the end of the code: also one *)
(* to a label of another function, one to a symbol that is not found,      *)
(* which goes where the jump before it went, and one left with a register  *)
(* of regs.                                                                *)
JumpsLand ==
  pc = "done" /\ NoRegisterJumps =>
    \A p \in ImmediateJumps :
      target(p) = Len(assembled_code) \/ \E q \in placed : q.at = target(p)
=============================================================================
