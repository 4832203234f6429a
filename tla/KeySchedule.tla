---------------------------- MODULE KeySchedule ----------------------------
(***************************************************************************)
(* How a key becomes the table of opcode bytes.  Two programs compute it   *)
(* and have to agree: VM::encryptOpcodes (vm/vm.cpp), modelled as a state  *)
(* machine with one step per iteration of its loop, and encrypt_ops        *)
(* (assembler/assembler.py), the operator Scheduled of EncryptOps.         *)
(*                                                                         *)
(* Both programs are handed the same key, but the VM sees a C string of    *)
(* bytes and the assembler a Python string of characters, which it encodes *)
(* as UTF-8: the same bytes, and a length that may be smaller.             *)
(***************************************************************************)
EXTENDS EncryptOps

CONSTANTS
  NumOps,       \* NUM_OPS, the number of instructions
  Keys          \* the keys: their bytes, and how many characters

ASSUME NumOpsAssumption == NumOps \in 0 .. N
ASSUME KeysAssumption ==
  /\ Keys \subseteq [bytes : Seq(0 .. N - 1), chars : Nat]
  /\ \A k \in Keys : /\ k.chars <= Len(k.bytes)
                     /\ k.chars = 0 <=> k.bytes = <<>>

VARIABLES
  key,          \* the key
  arr,          \* the array that is permuted
  i, j,         \* the loop counter and the second index
  INSTR,        \* INSTR[k].value, the opcode byte of the k-th instruction
  pc            \* "shuffle", "done", or "crashed" (SIGFPE)

vars == <<key, arr, i, j, INSTR, pc>>

-----------------------------------------------------------------------------
TypeOK ==
  /\ key \in Keys
  /\ arr \in [Index -> Index]
  /\ i \in 0 .. N
  /\ j \in Index
  /\ INSTR \in [0 .. NumOps - 1 -> Index]
  /\ pc \in {"shuffle", "done", "crashed"}

(* The table is zero until the loop is over.                               *)
Init ==
  /\ key \in Keys
  /\ arr = Identity
  /\ i = 0 /\ j = 0
  /\ INSTR = [k \in 0 .. NumOps - 1 |-> 0]
  /\ pc = "shuffle"

keysizeWithoutLast == Len(key.bytes) - 1         \* mutant: strlen off by one
keysize == Len(key.bytes)
NextJFromSecond == (j + arr[i] + key.bytes[((i + 1) % keysize) + 1]) % N
                                                 \* mutant: key off by one
NextJ == (j + arr[i] + key.bytes[(i % keysize) + 1]) % N

Shuffle ==
  /\ pc = "shuffle" /\ i < N /\ keysize > 0
  /\ j' = NextJ
  /\ arr' = Swap(arr, i, NextJ)
  /\ i' = i + 1
  /\ UNCHANGED <<key, INSTR, pc>>

(* i % keysize with an empty key.                                          *)
EmptyKey ==
  /\ pc = "shuffle" /\ i < N /\ keysize = 0
  /\ pc' = "crashed"
  /\ UNCHANGED <<key, arr, i, j, INSTR>>

StoreOneMore ==                                  \* mutant: i <= NUM_OPS
  /\ pc = "shuffle" /\ i = N
  /\ INSTR' = [k \in 0 .. NumOps |-> arr[k]]
  /\ pc' = "done"
  /\ UNCHANGED <<key, arr, i, j>>

Store ==
  /\ pc = "shuffle" /\ i = N
  /\ INSTR' = [k \in 0 .. NumOps - 1 |-> arr[k]]
  /\ pc' = "done"
  /\ UNCHANGED <<key, arr, i, j>>

Next == Shuffle \/ EmptyKey \/ Store

Spec == Init /\ [][Next]_vars
FairSpec == Spec /\ WF_vars(Next)
-----------------------------------------------------------------------------
(* No two instructions ever share an opcode byte, so the search in run()   *)
(* has at most one hit and an assembled program disassembles one way only. *)
(* A key schedule that lost an element of the array would break this for   *)
(* some keys and not for others.                                           *)
TableInjective ==
  pc = "done" =>
    \A k, l \in 0 .. NumOps - 1 : INSTR[k] = INSTR[l] => k = l

(* What makes it so: at every iteration the array holds each byte once.    *)
Permutation == \A k, l \in Index : arr[k] = arr[l] => k = l

(* The machine executes what the assembler wrote: both programs give every *)
(* instruction the same byte, as long as the characters of the key are     *)
(* bytes.  For other keys encrypt_ops never reads the last bytes.          *)
SameTable ==
  pc = "done" /\ key.chars = keysize =>
    LET table == Scheduled(key) IN
    \A k \in 0 .. NumOps - 1 : INSTR[k] = table[k]

(* The constructor returns with a table for every key but the empty one.   *)
ScheduleEnds == <>(IF key.bytes # <<>> THEN pc = "done" ELSE pc = "crashed")
=============================================================================
