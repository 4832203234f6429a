----------------------------- MODULE EncryptOps -----------------------------
(***************************************************************************)
(* encrypt_ops of assembler/assembler.py: the array whose first elements   *)
(* are the opcode bytes of the instructions, as a function of the key.     *)
(***************************************************************************)
EXTENDS Integers, Sequences

CONSTANT N      \* size of the permuted array: 256

ASSUME SizeAssumption == N \in Nat \ {0}

Index == 0 .. N - 1
Identity == [k \in Index |-> k]
Overwrite(a, x, y) == [a EXCEPT ![x] = a[y]]     \* mutant: tmp forgotten
Swap(a, x, y) == [a EXCEPT ![x] = a[y], ![y] = a[x]]

(* One iteration of the loop of encrypt_ops.  It takes the bytes of the    *)
(* key modulo its number of characters.                                    *)
Iteration(k, s, n) ==
  LET m == (s.j + s.arr[n] + k.bytes[(n % k.chars) + 1]) % N
  IN  [arr |-> Swap(s.arr, n, m), j |-> m]

(* encrypt_ops.  The iterations from lo on and before hi are done half by  *)
(* half, which makes the recursion flat enough to be evaluated at N = 256. *)
States == [arr : [Index -> Index], j : Index]
Start == [arr |-> Identity, j |-> 0]
Scheduled(k) ==
  LET loop[a \in Index \X (1 .. N) \X States] ==
        LET lo == a[1]
            hi == a[2]
            mid == (lo + hi) \div 2
        IN  IF hi = lo + 1 THEN Iteration(k, a[3], lo)
                           ELSE loop[<<mid, hi, loop[<<lo, mid, a[3]>>]>>]
  IN  loop[<<0, N, Start>>].arr
=============================================================================
