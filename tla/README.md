# Verification of Pasticciotto in TLA+

Pasticciotto is a small virtual machine whose opcodes are shuffled with a key.
An assembler (Python) turns a text into bytecode for one key; a machine (C++)
built with the same key executes it inside three sections of memory; a
challenge (client, server, two assembly programs and the same cipher in C) is
built on both. This directory holds TLA+ modules of that code, the
configurations TLC checks them with, and proofs that TLAPS checks.

## 1. The system

| Component | State | Operations | Interacts with |
|---|---|---|---|
| Virtual machine, `vm/vm.cpp`, `vm/vm.h` | `regs[11]`, `flags` behind them, the `INSTR` table, `instr_p` inside `run()` | constructors, `run()`, 48 handlers (49 with `DBG`), `addressSpace()`, `reg()` | reads code, reads and writes data and stack of the address space |
| Address space, `vm/vmas.cpp`, `vm/vmas.h` | three heap arrays and their sizes | `allocate`, `insCode`, `insData`, `insStack`, `getArgs` | the machine, and the program that embeds it |
| Instruction set, `vm/instruction.h`, `vm/vm.h` | constant tables: sizes, `isJump` | | decoding in `run()`; the assembler has a copy of its own |
| Key schedule, `VM::encryptOpcodes` and `encrypt_ops` | an array of 256 bytes, two indices | one loop each | fills `INSTR[i].value`, and the assembler's opcodes |
| Assembler, `assembler/assembler.py` | functions, instructions, offsets, registers that the instructions share, the assembled bytes | parse, lay out, resolve symbols, encode | must produce what the machine decodes |
| Emulator, `emulator/emulator.cpp` | a file in memory | read the file, build a machine, run it once | machine |
| Challenge client, `polictf/client` | a key and bytecode | build a machine, run it once | was built from `encrypt.pstc` |
| Challenge programs, `polictf/asms` | registers, data and stack of the machine | `datastrlen`, `round`, `main` | assembler, machine |
| TEA in C, `polictf/tea_cversion` | a buffer, two words | encrypt, decrypt block by block | must agree with the challenge programs |
| Challenge server, `polictf/server` | the client's code, the buffer of stdin, the data section | ask, read the size and the code, `insData`, `run`, compare the data | a client over a connection; machine |
| Debug macros, tests, `catch.hpp` | | output; tests; vendored | |

What is hard in this code:

* **Long sequences of legal instructions** reach states no test reaches: nested
  calls, an empty or full stack, a second `run()`, a byte that is no opcode
  after one that is.
* **Boundaries.** Every load, store, push, call and operand read has its own
  copy of a bounds check, in unsigned 16- and 32-bit arithmetic, some of them
  on a narrowed value.
* **Nothing bounds IP.** A program can leave its code section and execute the
  heap.
* **Undefined or uninitialised values**: the flags before the first comparison,
  register number 11, shift counts of 32 and more, products beyond `int`, the
  server's `clientcodesize`.
* **Agreement of programs in four languages**: opcode tables, instruction sizes,
  codings, and one cipher in C, in assembly and as bytecode.
* **Two passes** of the assembler that each have their notion of where an
  instruction is.
* **Two readers of one descriptor.** The server reads its client with `scanf`,
  which buffers, and with `read()`, which goes past the buffer, while bytes
  arrive in any pieces; both ends wait for each other in turn.

What makes each component correct: the machine keeps to its sections and keeps
SP and RP out of reach of a program's computations (`VM`); its stack is a stack
(`WordStack`); every iteration moves on, and a run without jumps ends (`MovesOn`,
`RunReturns`); inserting a buffer never
touches another section; every key gives an injective table, the same on both
sides (`KeySchedule`); narrowing and bit operations are those of C++ (`Words`);
what the assembler emits is where its labels say, and decodes to what was
written (`Assembler`, `Toolchain`); decryption undoes encryption (`Tea`), the
assembly programs do the same, and the server's data decrypts to the text it is
compared with (`Challenge`); the server runs what it was sent and gives the flag
for the right text only (`PolictfServer`). PROJECT.json lists the hazards with
their lines and the properties about them.

## 2. The modules

| Module | Models | How it corresponds to the code |
|---|---|---|
| `Words` | arithmetic on `uint16_t` | one operator per operation; `Trunc` is the narrowing in the assignment; bit operations are sums over the 16 bits |
| `InstructionSet` | `instruction.h` and the constant columns of `INSTR` | sets named after the size macros, `length`, `isJump`; `DBG` is a CONSTANT |
| `VMAddrSpace` | `vmas.h`, `vmas.cpp` | `mem` is the mapped heap, a section is a range of it at a base that is a CONSTANT, so an index past a section lands where it would land; `insCode`, ... are operators on memories |
| `VM` | `vm.h`, `vm.cpp` | an action `execXXXX` per handler; `Execute` is the rest of the loop of `run()` around it (look-up, stop on `false`, advance IP); `constructed` and `run` for the programs that embed the machine |
| `VMHost` | such a program, in general | constructs the machine with any code, runs it again and again, rewrites sections in between (`insertBuffers`) |
| `WordStack` | *abstract*: what the stack section and SP promise | bounded stack of words, `Push`, `Pop`, and what popping the empty stack does |
| `Documented` | *claims* of comments and of `IMPLEMENTATION.md` that the code does not keep | each is refuted by a run |
| `EncryptOps` | `encrypt_ops` of the assembler | a recursive function of the key |
| `KeySchedule` | `VM::encryptOpcodes` | one step per iteration; compared with `EncryptOps` |
| `PolictfKey`, `PolictfPrograms` | key and bytecode of the client, both `.pstc` files, the server's data | literals; a line of a text is what the assembler's regular expressions make of it |
| `Assembler` | `assembler.py` | an action per method and per iteration of its loops; `pc` names the method that runs, `"raised"` is an uncaught exception; `placed` remembers where each instruction was emitted |
| `Toolchain` | `Assembler`, then `emulator.cpp` with a `VM` | `Load` is the constructor and `insData`, `Start` is `run()` |
| `TeaRound`, `Tea` | the C programs | `Round` is an iteration of the loop of `encrypt` or `decrypt`, `LoadBlock` and `StoreBlock` are the rest of these functions; `seen` remembers the words before each round |
| `Challenge` | what has to hold between all of these | properties only |
| `PolictfServer` | `pasticciotto_server.cpp` with a client like `exploit-test.py` | an action per blocking step of either end; `up`, `sock`, `stdin`, `down` are the bytes and messages under way, arrived, buffered by `scanf`, and on the way back |
| `WordsProofs`, `VMProofs`, `VMHostProofs`, `KeyScheduleProofs`, `TeaProofs`, `AssemblerProofs`, `ToolchainProofs`, `ServerProofs` | theorems | section 5 |
| `Bytecode`, `MCVM`, `MCKeySchedule`, `MCTea`, `MCToolchain`, `MCServer` | instances for TLC | instructions as bytes; values for the CONSTANTS |

`VM` extends `VMAddrSpace` (which extends `Words`) and `InstructionSet`, and states
what one iteration and one step may do, without saying who starts it. Three modules
put it into a program: `VMHost`, which also instantiates `WordStack` with a refinement
mapping; `Toolchain`, which extends `Assembler` as well; and `PolictfServer`. It is the
same machine in all three, extended and not instantiated, since the prover cannot use
the theorems about a module for an instance of it: so what `VMProofs` shows of one
iteration holds for each of them. `Challenge` extends `Toolchain` and compares with
`TeaRound`. Of `KeySchedule` the machine and the assembler need only the
result: `VM` has the opcode bytes as a CONSTANT `INSTR`, assumed injective, which
`KeyScheduleProofs!OpcodesDistinct` proves for every key. That the literal table of
the client's key in `PolictfKey` is what `EncryptOps` computes is the assumption
`PolictfTable` of `MCToolchain`, which TLC evaluates at the real size of 256.

Choices worth knowing:

* One step of `VM` is one iteration of `run()`. Every handler makes all its
  checks before its first assignment, so a handler that returns `false` changes
  nothing; `POOP` is the one that may fault half way (SP already moved), and has
  a disjunct for it.
* `regs` has twelve words: `isRegValid` accepts the number 11, and the compiler
  puts the flags there (offset 22 of the object). ZF is bit 0 and CF bit 1. They
  start with any word of `FlagWords`, since nothing initialises them. `STRI` may
  name any register up to 255; what it reads behind the flags is any word of
  `ObjectWords`.
* A read of unmapped memory is the state `"crashed"`. Everything else an index
  can reach is a byte of `mem`.
* The x86-64 build decides what C++ leaves open: little-endian words, 32-bit
  shift counts taken modulo 32, wrapping products.
* Texts of the assembler are sequences of parsed lines, without empty lines and
  comments. A register is also an immediate, with its number as value, as in
  the code (`isimm` lets it through): `movi r0, r3` is `movi r0, 3`.
* The assembler has one object per register, which all instructions that name the
  register share; `reg_values` has their values, and `value` reads it when an operand is
  encoded. `Component` says which operands are such objects: all registers, except for
  the operand of a jump that has only one, which is a fresh object. `SetValue` writes
  into the one or the other.
* Messages of the server are single values: how a message is split on its way
  to the client matters to nobody. The bytes of the client are single bytes.
  `Deliver` moves any number of them, so `scanf` may find none, some or all of
  the code behind the number.
* The client of `exploit-test.py` sends its code when its second `recv()`
  returns, whatever that was; `early` remembers that it had not been told to go
  ahead.
* Either file the server opens may be missing: `CompareSection` may answer so.
* Log output is left out; `DEBG` only logs.

## 3. The runs

For `each`, `stack` and the `doc_*` runs the machine has 64 bytes of heap, 24 of
code, 12 of data, 6 of stack, in three blocks with gaps between them, and the
real opcode bytes of the client's key. 24 bytes hold the setting of two registers,
a comparison, any instruction and a stop; 12 bytes of data put addresses on both
sides of every check; 6 bytes of stack hold two words, the smallest stack on which
order and overflow differ. The gaps hold bytes that no section owns, so a write that
leaves a section shows.

| Run | Question | Instance | Distinct states |
|---|---|---|---|
| `each` | does any single instruction, with any operands, break types, isolation, or the protection of SP and RP; does IP move on; does `run()` return when nothing jumps (liveness)? | five pairs of register contents, every instruction with about 10 to 30 operand choices, flags and object words at both extremes, `DBG` | 77369 |
| `stack` | are the stack section and SP a stack; does RP stay in the code; what can be done behind it; does that survive the embedding program, which runs again and rewrites sections? | all programs of four instructions out of eight, three programs that are rewritten between runs with buffers that are empty, fit exactly, or are one byte too long; four fillings of the heap | 146166 |
| `keys` | is the table injective, are both tables the same, does the schedule end? | array of 5, every key of up to 4 bytes, of characters of one byte or several | 20512 |
| `tea` | does decryption undo encryption; is the arithmetic that of C++? | texts of 0 to 8 bytes, all 128 rounds; the arithmetic on every pair of words that comes up | about 22700 |
| `toolchain` | do layout, symbols and coding agree with each other, does the machine execute the text, from whatever function a jump comes; do the challenge programs compute TEA? | 2000 texts of a main and a function put together from ten kinds of lines, in both orders, some 800 with odd operands, 275 with a jump that is left with a shared register, a dozen with functions that are empty, have no name or share one, and both challenge programs in full, with 262 bytes of code, 80 of data, 24 of stack | 146745 |
| `server` | is the code that runs the code that was sent; who gets the flag; does every session end (liveness)? | eight programs, from empty to too big, that store the text, part of it or nothing; every split of their bytes; a client that leaves at any point | 71456 |
| `doc_*` | six statements of the documentation and comments | one or two programs each | violated |

Bounds and constraints, and why they suffice:

* `StackWindow` (runs `each`, `stack`, `toolchain` and the `doc_*` runs of the
  machine): a loop that only pops moves SP down through all 32768 even values;
  states whose SP is neither in the stack section nor within four bytes below
  zero are not explored further (in `toolchain`, states with SP outside of the
  section). The proof of `StackRefinement` has no such bound.
* `InsertsIntoHost` (run `stack`): the embedding program rewrites sections only
  of a machine that holds one of the three programs made for it; the others
  are run again as they are.
* `MCToolchain` has jumps with a register and a name in both orders, to immediates and
  through a register, behind a symbol that is found; so `SymbolsBound` and `AsWritten` fail
  in run `toolchain` as soon as either leaves out its condition on such jumps.
* The challenge programs are deterministic, so `toolchain` is two very long
  behaviours (71578 steps) and many short ones.
* In `server` the data section has three bytes and codes at most 24, so that the
  number in front of them has one or two digits; this is enough for numbers that
  arrive in parts. `Uninitialised` holds a size that could be read and 0. Programs
  are short and return.

Deadlock is not checked: a crashed machine has no step, and neither has a
finished key schedule, assembler, cipher or session.

An operator marked `mutant` in a module is its neighbour with a plausible mistake in
it (a bound not checked, a swap without its temporary, a flush left out). No
specification uses it: PROJECT.json pairs each property with the mistake that breaks
it, which shows that the property depends on the code.

**Fairness.** In `VMHost`, `FairSpec` is weak fairness of `Iterate`: `run()` is a plain
loop in one thread, nothing blocks in it, so while it has not returned its next
iteration happens. Nothing is assumed about the program around the machine. In
`KeySchedule` fairness of `Next` says the same of the loop in `encryptOpcodes`. In
`PolictfServer`, the client and the server are processes of their own and the
connection is reliable: weak fairness of each of the three, none of the client's
leaving (`Leave`). `SessionEnds` needs no more, but it needs every flush.

## 4. What disagrees with the documentation

Each of these is a run whose property states the claim and whose counterexample is
short (PROJECT.json quotes the lines):

1. An unknown byte repeats the previous instruction (`doc_unknown_opcode`).
2. Nested calls return to the wrong place: RETN never reloads RP (`doc_return`).
3. Conditional register jumps jump to the register's number (`doc_register_jumps`).
4. STRI refuses some addresses, those whose low byte looks like a protected
   register (`doc_store`).
5. Popping an empty stack is not refused; SP wraps (`doc_underflow`).
6. A jump to a number goes to wherever the last symbol before it was
   (`doc_numeric_jumps`), or stops the assembler when there was none.

The models show more that have no run of their own:

* Register number 11 is accepted (`vm.cpp:114` against the comment on line 113)
  and is the flags: `isRegValid` and `FLAGS` in `VM`.
* Execution may leave the code section, also into the data section, which
  `IMPLEMENTATION.md:3` calls separated: `FetchMapped`. What a program can still do
  there is `NothingComputedOutside`.
* For a key of characters of several bytes the assembler takes the bytes modulo the
  number of characters (`assembler.py:264`), the machine modulo the number of bytes
  (`vm.cpp:8`, 19), and the tables differ: `Iteration` and `NextJ`. `SameTable` is
  therefore stated for the other keys.
* A register jump is laid out with three bytes (`assembler.py:481`) and emitted with
  two, so every label behind one is off by one: `ops_sizes` and `Operands`.
  `InPlace`, `SymbolsBound`, `JumpsLand` and `AsWritten` are stated for texts without
  register jumps.
* A jump with two operands is an instruction (`instruction_re`, `assembler.py:487`) but no
  jump to a symbol (`symcall_re`, 493), so `jmpi 1, 7` is emitted with the target 1, which
  may lie inside of another instruction: `OnlySymbolJumps`, which `AsWritten` assumes. It
  also excludes the jumps of the next point. `SymbolsBound` is stated for jumps with
  an operand of their own: where several are left with one register, the last one
  that is resolved decides for all of them. `TypeOK`, `InPlace` and `JumpsLand` hold of
  such texts as well.
* Registers are objects that all instructions share (`assembler.py:359`, 485). Of a jump with
  a register and a name, like `jmpi r1, foo`, the name is dropped (349-360); what is
  left, `jmpi r1`, is taken for a jump to a symbol (line 102), and line 116 sets the value of
  the shared register. So of `call main`, `jmpi r1, foo`, `movi r1, 5` the MOVI is emitted
  for R0: the offset of `main`, 0, has become the number of r1, where
  `IMPLEMENTATION.md:88` has MOVI set the register it names. Any other offset is taken for
  the number just the same, or makes the assembler raise if it does not fit its field.
  `SetValue` and `reg_values`.
* IP has 16 bits (`vm.cpp:1030`). Where 64 KiB are mapped behind the code, as they may well
  be on the heap of a process, a program that has fallen off its code does not fault but
  comes back to its start, and `run()` never returns: `RunReturns` is stated for a heap
  that ends before that (`HeapEnds`), `MovesOn` for any.
* A function without instructions has the offset of the one behind it, or of the end
  of the code, so a call to it goes there: `SymbolsBound` leaves it out. A function whose
  head has no name (`function_re` lets it be empty) is dropped with its lines, unless it is
  the last one (`assembler.py:77`): `Bodies`.
* NOTR is encoded with its register as a byte and decoded as two nibbles, so `notr r1`
  complements R1 into R0: `Decodes` leaves it out.
* A label of another function is found (`assembler.py:106`), but its offset is looked
  for in the current function, where the search runs to the end: the jump goes
  behind the last instruction of the current function. A label therefore also hides a
  function of the same name. `SymbolsBound` says what holds for the other names, and
  `JumpsLand` what holds for all: some instruction begins there, or the code ends.
* Symbols are folded to lower case when they are used and not where they are
  defined: `casefold`.
* GRMN spares SP as well as IP and RP (`vm.cpp:981`), where `IMPLEMENTATION.md:371` excludes
  IP and RP only: `execGRMN`.
* A program that counts up to a bound and jumps back with JPBI does one more
  iteration than a loop that tests below: CF is also set on equality (`Compare`).
  `round` relies on it and compares with 127; the loop over the blocks in `main`
  does one block more than there are when the length is a multiple of four.
* When the client sends its code before it is told to, `scanf` may buffer the
  beginning of it. Most often `read()` is then short and the session ends; but if
  exactly one byte was buffered, the newline behind the code makes up for it in
  number, and the server runs the code without its first byte: the second case of
  `RunsWhatWasSent`.

## 5. The proofs

All sizes, section places, heap contents, opcode tables, programs, buffers, keys and
texts are arbitrary in these theorems, within the named assumptions of the modules:
`LayoutAssumption` (disjoint sections inside the mapped heap, at least two mapped
bytes behind the code, a stack of less than 64 KiB), `HeapsAssumption`,
`INSTRAssumption`, `BuffersAssumption`, for the key schedule `SizeAssumption`,
`NumOpsAssumption`, `KeysAssumption`, for the cipher `TeaAssumption`, for the
assembler `SourcesAssumption` (lines have at most two operands; an operand that is
called like a register is one, and has its place in `reg_names` as its number) and
`OpcodesAssumption`, for the toolchain `SameKey` (assembler and machine have one table)
and `InputsAssumption` (data are bytes), for the server `SessionAssumption` (the size of
a code is an int, which is what scanf reads).

`WordsProofs` begins with induction. The induction theorems of the library take a
predicate as a parameter, which the provers cannot be given; `Least` (a set of numbers
that is not empty has a least element) takes a set instead. It follows from the
library's theorem that inclusion of finite sets is well-founded. From it come
`Recursion`, that a function defined by recursion up to n exists and has its type,
`Induction`, and `RecursionUnique`. With these, sums, counters and decimal numbers that
are defined by recursive functions can be reasoned about.

`VMProofs` is about one step of the machine, whoever runs it. The inductive invariant
is `VMInv == VMTypeOK /\ RPInCode`: RPInCode is needed because CALL is the only writer
of RP and its check is the only one. `IterateStep` says that an iteration from such a
state is `Good`: it keeps `VMInv`, is an `IsolatedStep`, a `ControlStep` and an
`OutsideStep`, keeps the stack (`StackStep`), and moves IP and RP as the table and the
handlers say (`FlowStep`). The argument goes through two predicates: `Allowed(r, m)`,
what a handler may leave in the registers and the memory, and `Leads(op, r)`, where it
may take IP. `ExecuteStep` shows that an iteration whose handler keeps to both has all
of the properties (advancing IP disturbs none of them); a lemma per family
(`SetRegStep`, `StoreStep`, `CompareStep`, `JumpStep`) shows that the shape keeps to
them; then there is one step per handler, which shows only that its operands and its
result are words (`OperandsTyped`, and the lemmas of `WordsProofs`). `PUSH`, `POOP`,
`CALL`, `RETN` and `GRMN` are proved on their own.

`VMHostProofs`, for every program that embeds the machine:

* `TypeCorrect`: `Spec => []VMTypeOK`. Not a formality here: it says that every
  handler narrows what it computes, that no encodable register number escapes
  the register file, and that no store leaves the heap.
* `ReturnsIntoCode`: `Spec => []RPInCode`.
* `ProgramsIsolated`, `ControlProtected`, `OutsideHarmless`: the action
  properties `SectionsIsolated`, `ControlRegisters`, `NothingComputedOutside`.
* `IterationsMoveOn`: `Spec => MovesOn`, the step of the argument for `RunReturns` that is
  no liveness: IP grows with every iteration that is no jump.
* `StackRefinement`: `Spec => StackSpec`, the machine implements the abstract stack. By
  `StackKept`, a part of `Allowed`, a handler either leaves SP and the stack section
  alone, or has room and moves SP up by two without touching anything below it, or
  moves SP down by two and writes nothing. `PushStep`, `PopStep` and `SameSP` turn each
  of these into a step of `WordStack`. The invariant is strengthened by `SPEven`: only
  because SP is even does it come back from below zero exactly to the top of the
  section (`Resurface`), with all of its words. The theorem assumes `SectionLeavesRoom`,
  a section of less than 65535 bytes: in one of exactly 65535 an SP that has wrapped is
  back inside.

`TeaProofs`: `RoundUndone`, a round of decryption undoes a round of encryption;
`TeaTypeCorrect`; and `TeaRoundTrip`, decryption gives back every text, for every
number of rounds. The inductive invariant says of each block which of the two it
holds, text or cipher (`Encrypting`, `Decrypting`), and of the words seen while it was
encrypted that each comes from the one before by a round (`Chain`); while block `i` is
decrypted, after `n` rounds its words are the ones seen `n` rounds before the end.
`Remainder` is needed for the bytes behind the last whole block.
`Products` and `Shifts` state for all words what `ProductsAgree` and `ShiftsAgree` say of
those that come up: that the product summed over two halves is the narrowed product
(`MulIsProduct`), that quotient and remainder make up the word (`QuotientTimes`), and
that shifts double and halve (`ShiftsDouble`, from `HalfQuotient`).

`KeyScheduleProofs`: for every array size and key, the indices stay in the array
(`TypeCorrect`), the array stays a permutation (`PermutationAlways`), hence the opcode
bytes are distinct (`OpcodesDistinct`); and for every key whose characters are bytes the
machine and the assembler have the same table (`TablesAgree`). For this the halving
recursion of `Scheduled` is shown to go through the same iterations one after the other;
the invariant is that after `i` iterations of the loop in `encryptOpcodes`, `arr` and `j`
are what it has after `i`.

`AssemblerProofs`: for every text, `TypeCorrect` (whatever the operands, the code
is a sequence of bytes, and the loop variables stay in range of the lists they index),
`LayoutKept` (`InPlace`: every instruction is emitted where the layout put it) and
`JumpsArrive` (`SymbolsBound`: a jump to a label of its function, or to a function,
is emitted with the address at which the instruction meant is emitted, unless the jump
was left with a register of `regs`). The inductive
invariant has a part for each method that runs:

* `Fresh` until the offsets are known; after that `Layout`, every function begins where
  the one before it ends in the table of sizes (`OffsetsAddUp`);
* `Resolving`: every symbolic jump before the loop variables has the offset of its
  symbol (`ResolvedBefore`), and replacing an operand moves nothing, since a size
  depends on the name of an instruction only (`SameOffsets`);
* `Emitting`: everything before the loop variables has been emitted once
  (`PutBefore`), the code ends where the layout puts the next instruction, and each
  jump stands in the code with its operand (`Emitted`); an instruction appends as many
  bytes as the table of sizes gives it (`EncodingIs`), except a register jump;
* `Finished`: all are resolved and emitted, and the two passes meet in `JumpsArrive`;
* `OwnNumbers` in each of the last three: if no jump is left with a register of `regs`
  (`NoSharing`), every register still has its place in `reg_names` as its value. Without
  it nothing could be said of what an instruction with a register is emitted as.

`JumpsOnInstructions` (`JumpsLand`) is about every symbol, also one that is looked for in
the wrong function or not found at all. It needs that every offset the assembler gives
out, and the one the local variable `offset` still holds, is one of the points of the
layout (`AtPoint`: the beginning of an instruction or the end of a function), and that
each of these is where an instruction was emitted or the code ends (`PointPlaced`: the
end of a function is the beginning of the next one that is not empty).

`ToolchainProofs`: `ExecutedAsWritten`, `ToolchainSpec => []AsWritten`, joins the two
halves. For every text, key, data and layout of the memory: if all jumps go to symbols
(`OnlySymbolJumps`: no register jumps, one operand each, and that not a register of `regs`)
and the code fits, then until the program first runs off its code, IP is at an
instruction of the text, the machine selects that instruction, and decodes the operands
the text gives it. The invariant `TInv` has the assembler's `IInv` while the assembler
runs. After that it says that the text stays `Finished`, that the code section holds the
code (`Loaded`: no store reaches it, by `IsolatedStep`), and that IP *and RP* are at a
`Boundary`, an instruction of the text or behind the code (`Bounded`). RP is there
because RETN goes to it without a check, so that it must be known to be good from the
CALL on. The step is `StaysInText`:

* the two tables of sizes agree (`SameLengths`), so what follows an instruction is a
  point of the layout, and the machine moves IP to it (`BehindIt`, `FlowStep`);
* registers have kept their numbers (`RegistersKept`: `OnlySymbolJumps` gives `NoSharing`,
  and `OwnNumbers` the rest), so every operand is read as the text has it
  (`OperandsRead`, over all seven codings);
* a jump reads the word the assembler put there, and that is a point of the layout as
  well;
* CALL leaves the address of the instruction behind it in RP.

`AssembledInToolchain` carries the invariants of `Assembler` over to `ToolchainSpec`, the
specification that TLC checks.

`strayed` is a history variable that ends the claim once an iteration has begun behind
the code. It is needed: there are zeros behind the code, and with some keys zero is the
opcode of `JMPR`, which takes IP to whatever R0 holds, into the middle of an instruction
for instance.

`ServerProofs`: `ServerTyped`, `FairSpec => []TypeOK`, with the types of the machine
in the server, and `RunsTheCode`, `FairSpec => []RunsWhatWasSent`, for every code whose
size is an int, every way its bytes are split and every order of events. The
invariant says where the bytes are that the client has sent. `stream` is what scanf has
buffered, what has arrived and what is under way, in this order: moving bytes along
leaves it as it is, and sending appends to it. Before scanf returns, it is nothing,
the number, or number and code, the last only if the client was early, because a message
"go" cannot have been on its way (`BeforeGo`). scanf takes the figures off it and
computes the number they stand for (`NumberRead`) and leaves the newline in the buffer
(`Scanned`). That reading a number written in decimal gives the number back is an
induction over its digits (`FiguresRead`). From there the lengths decide: read() gets as
many bytes as the code has only if the buffer holds the newline alone, or one byte more
(`OneTooFar`).

Only model-checked:

* `RunReturns`, `ScheduleEnds`, `SessionEnds`: liveness under fairness is out of this
  prover's reach.
* `BitwiseAgree`: the bitwise operators it compares with are RECURSIVE in the library,
  which turns the SMT backend off.
* `FlagEarned`: which codes are in `Solutions` is a matter of running them, to an end
  that only liveness promises.
* `ClientBytecode`, `SameAsC`: about given programs.

## 6. Not modelled, and why

* `gen_random` (`pasticciotto_server.cpp:20`): the key is a CONSTANT, as the opcode table
  it stands for; its terminator lands one byte behind the key.
* `fscanf` of the server writes the terminator of 72 characters behind a buffer of 72
  bytes. Nothing later depends on either byte.
* A client of the server that sends no number, a negative one, or one that is too
  large to allocate; a write to a connection that the client has closed. A session
  whose program never returns is not in the instance: `SessionEnds` is about the
  reads, and `RunReturns` about programs.
* How `tea-decrypt` gets its input. It reads the length with `fscanf`, which buffers, and
  the bytes with one `read()` on the descriptor, whose result it ignores
  (`tea-decrypt.c:27`-29): bytes that are already in the buffer of stdin are lost, as in
  the server, and what a short `read()` leaves of `buf` is not initialised, but
  deciphered. The action `Finish` of `Tea` hands over the whole output of `tea-encrypt`, and
  the length that belongs to it. `RoundTrip` is therefore about the loop over the blocks
  and the rounds (lines 31 to 34), for input that has arrived completely; what happens
  with two such readers is modelled in `PolictfServer`.
* Files that cannot be opened by the emulator and the assembler; the printed
  listings; the client's banner.
* Debug macros (output), the tests (read as statements of what is expected), and the
  vendored test framework.
