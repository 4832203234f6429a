---------------------------- MODULE VMAddrSpace ----------------------------
(***************************************************************************)
(* vm/vmas.h and vm/vmas.cpp: the three sections a program runs in.  Each  *)
(* is an array on the heap of the process, so the module keeps the heap:   *)
(* mem is the mapped memory around the sections, and a section is a range  *)
(* of it.  An index past the end of a section lands in whatever lies       *)
(* there, another section included; only an index past the mapped memory   *)
(* is a crash.                                                             *)
(***************************************************************************)
EXTENDS Words, Sequences

CONSTANTS
  Mapped,                               \* number of mapped heap bytes
  CodeBase, DataBase, StackBase,        \* where new[] put the sections
  CodeSize, DataSize, StackSize,        \* codesize, datasize, stacksize
  Heaps                                 \* possible contents before memset

Address == 0 .. Mapped - 1
CodeSection  == CodeBase .. CodeBase + CodeSize - 1
DataSection  == DataBase .. DataBase + DataSize - 1
StackSection == StackBase .. StackBase + StackSize - 1

(* The sizes are those of an address space of at least one byte of code.   *)
(* new[] returns disjoint blocks; behind the code section at least the two *)
(* bytes that an operand read may reach are mapped.                        *)
ASSUME LayoutAssumption ==
  /\ Mapped \in Nat
  /\ CodeBase \in Nat /\ DataBase \in Nat /\ StackBase \in Nat
  /\ CodeSize \in Word \ {0} /\ DataSize \in Word \ {0}
  /\ StackSize \in Word \ {0}
  /\ CodeBase + CodeSize + 2 <= Mapped
  /\ DataBase + DataSize <= Mapped
  /\ StackBase + StackSize <= Mapped
  /\ \A a \in Address : /\ ~(a \in CodeSection /\ a \in DataSection)
                        /\ ~(a \in CodeSection /\ a \in StackSection)
                        /\ ~(a \in DataSection /\ a \in StackSection)

ASSUME HeapsAssumption == Heaps \subseteq [Address -> Byte]

VARIABLE mem

-----------------------------------------------------------------------------
GetWord(a) == MkWord(mem[a], mem[a + 1])
PutWord(a, w) == [mem EXCEPT ![a] = LoByte(w), ![a + 1] = HiByte(w)]

(* allocate(): the sections are cleared, what lies around them is not.     *)
allocate(heap) ==
  [a \in Address |->
     IF a \in CodeSection \/ a \in DataSection \/ a \in StackSection
       THEN 0 ELSE heap[a]]

(* memcpy of a buffer that fits to the start of a section; one that is too *)
(* big is refused, and nothing is copied.                                  *)
insertAny(m, base, size, buf) ==                 \* mutant: size not checked
  [a \in Address |->
     IF a \in base .. base + Len(buf) - 1 THEN buf[a - base + 1] ELSE m[a]]
insert(m, base, size, buf) ==
  IF Len(buf) > size
    THEN m
    ELSE [a \in Address |->
            IF a \in base .. base + Len(buf) - 1 THEN buf[a - base + 1]
                                                 ELSE m[a]]

insCode(m, buf)  == insert(m, CodeBase, CodeSize, buf)
insStack(m, buf) == insert(m, StackBase, StackSize, buf)
insData(m, buf)  == insert(m, DataBase, DataSize, buf)

(* getArgs: the bound it checks before it reads the operands at idx + 1.   *)
(* It covers the first operand only (wide is sizeof( *dst)): the second    *)
(* one may be read from up to two bytes behind the code section.           *)
ArgsUnchecked(idx, wide) == TRUE                 \* mutant: no bound
ArgsInCode(idx, wide) == idx + wide < CodeSize

Code(i) == mem[CodeBase + i]
CodeWord(i) == GetWord(CodeBase + i)
HiNibble(b) == b \div 16
LoNibble(b) == b % 16
=============================================================================
