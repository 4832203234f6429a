------------------------- MODULE KeyScheduleProofs -------------------------
(***************************************************************************)
(* The opcode bytes are distinct for every key, and the two programs give  *)
(* the instructions the same bytes: proofs about KeySchedule.              *)
(***************************************************************************)
EXTENDS KeySchedule, WordsProofs

(* j + arr[i] + key[i % keysize] is brought back into the array.           *)
LEMMA ModIndex == \A n \in Int : n % N \in Index
  BY SizeAssumption DEF Index

(* Every byte the shuffle reads is one of the key.                         *)
LEMMA KeyByte ==
  ASSUME TypeOK, keysize > 0, i < N
  PROVE  key.bytes[(i % keysize) + 1] \in Index
<1> DEFINE n == i % keysize
<1>1. key.bytes \in Seq(Index) /\ i \in Nat
  BY KeysAssumption, SizeAssumption, NumOpsAssumption DEF TypeOK, Index
<1>2. keysize \in Nat \ {0}
  BY <1>1 DEF keysize
<1>3. n \in 0 .. keysize - 1
  BY <1>1, <1>2
<1> HIDE DEF n
<1>4. n + 1 \in 1 .. keysize
  BY <1>2, <1>3
<1>5. key.bytes[n + 1] \in Index
  BY <1>1, <1>4 DEF keysize
<1> QED
  BY <1>5 DEF n

LEMMA NextJIndex ==
  ASSUME TypeOK, keysize > 0, i < N
  PROVE  NextJ \in Index
<1>1. key.bytes[(i % keysize) + 1] \in Int
  BY KeyByte DEF Index
<1>2. i \in Index /\ j \in Int
  BY SizeAssumption, NumOpsAssumption DEF TypeOK, Index
<1>3. arr[i] \in Int
  BY <1>2 DEF TypeOK, Index
<1>4. j + arr[i] + key.bytes[(i % keysize) + 1] \in Int
  BY <1>1, <1>2, <1>3
<1> QED
  BY <1>4, ModIndex DEF NextJ

(* Exchanging two elements keeps an array typed and free of repetitions.   *)
LEMMA SwapKeeps ==
  ASSUME NEW a \in [Index -> Index], NEW x \in Index, NEW y \in Index,
         \A k, l \in Index : a[k] = a[l] => k = l
  PROVE  /\ Swap(a, x, y) \in [Index -> Index]
         /\ \A k, l \in Index : Swap(a, x, y)[k] = Swap(a, x, y)[l] => k = l
  BY DEF Swap

-----------------------------------------------------------------------------
IInv == TypeOK /\ Permutation /\ TableInjective

LEMMA InitIInv == Init => IInv
<1> SUFFICES ASSUME Init PROVE IInv
  OBVIOUS
<1>1. TypeOK
  BY SizeAssumption, NumOpsAssumption DEF Init, TypeOK, Identity, Index
<1>2. Permutation
  BY DEF Init, Permutation, Identity
<1>3. TableInjective
  BY DEF Init, TableInjective
<1> QED
  BY <1>1, <1>2, <1>3 DEF IInv

LEMMA NextIInv == IInv /\ [Next]_vars => IInv'
<1> SUFFICES ASSUME IInv, [Next]_vars PROVE IInv'
  OBVIOUS
<1> USE DEF IInv
<1>1. CASE Shuffle
  <2>0. keysize > 0 /\ i < N /\ TypeOK
    BY <1>1 DEF Shuffle
  <2>1. NextJ \in Index /\ i \in Index
    <3>1. NextJ \in Index
      BY <2>0, NextJIndex
    <3>2. i \in Index
      BY <2>0, SizeAssumption, NumOpsAssumption DEF TypeOK, Index
    <3> QED
      BY <3>1, <3>2
  <2>2. arr' \in [Index -> Index] /\ Permutation'
    BY <1>1, <2>1, SwapKeeps DEF Shuffle, TypeOK, Permutation
  <2>3. TypeOK'
    <3>1. i' \in 0 .. N
      BY <1>1, <2>0, SizeAssumption, NumOpsAssumption DEF Shuffle, TypeOK
    <3>2. j' \in Index
      BY <1>1, <2>1 DEF Shuffle
    <3> QED
      BY <1>1, <2>0, <2>2, <3>1, <3>2 DEF Shuffle, TypeOK
  <2>4. TableInjective'
    BY <1>1 DEF Shuffle, TableInjective
  <2> QED
    BY <2>2, <2>3, <2>4
<1>2. CASE EmptyKey
  BY <1>2 DEF EmptyKey, TypeOK, Permutation, TableInjective
<1>3. CASE Store
  <2>1. 0 .. NumOps - 1 \subseteq Index
    BY SizeAssumption, NumOpsAssumption DEF Index
  <2>2. TypeOK'
    BY <1>3, <2>1 DEF Store, TypeOK
  <2>3. Permutation'
    BY <1>3 DEF Store, Permutation
  <2>4. TableInjective'
    BY <1>3, <2>1 DEF Store, TableInjective, Permutation
  <2> QED
    BY <2>2, <2>3, <2>4
<1>4. CASE UNCHANGED vars
  BY <1>4 DEF vars, TypeOK, Permutation, TableInjective
<1> QED
  BY <1>1, <1>2, <1>3, <1>4 DEF Next

(* The variables of encryptOpcodes keep their types: both indices stay in  *)
(* the array, for every size of it and every key.                          *)
THEOREM TypeCorrect == Spec => []TypeOK
<1>1. IInv => TypeOK
  BY DEF IInv
<1> QED
  BY InitIInv, NextIInv, <1>1, PTL DEF Spec

(* Every iteration of encryptOpcodes leaves a permutation.                 *)
THEOREM PermutationAlways == Spec => []Permutation
<1>1. IInv => Permutation
  BY DEF IInv
<1> QED
  BY InitIInv, NextIInv, <1>1, PTL DEF Spec

(* Whatever the key, encryptOpcodes gives different instructions different *)
(* opcode bytes: what VM.tla assumes of INSTR (INSTRAssumption).           *)
THEOREM OpcodesDistinct == Spec => []TableInjective
<1>1. IInv => TableInjective
  BY DEF IInv
<1> QED
  BY InitIInv, NextIInv, <1>1, PTL DEF Spec
-----------------------------------------------------------------------------
(* The loop of encrypt_ops.  A trace of it records the state in front of   *)
(* each iteration from lo on, where it starts in s.                        *)

GoodKey(k) == k.bytes \in Seq(Index) /\ k.chars \in 1 .. Len(k.bytes)

IsTrace(k, lo, s, t) ==
  /\ t \in [0 .. N -> States]
  /\ \A n \in 0 .. lo : t[n] = s
  /\ \A n \in lo + 1 .. N : t[n] = Iteration(k, t[n - 1], n - 1)

LEMMA IterationStates ==
  ASSUME NEW k, GoodKey(k), NEW s \in States, NEW n \in Index
  PROVE  Iteration(k, s, n) \in States
<1> DEFINE m == (s.j + s.arr[n] + k.bytes[(n % k.chars) + 1]) % N
<1>1. n % k.chars \in 0 .. k.chars - 1
  BY DEF GoodKey, Index
<1>2. (n % k.chars) + 1 \in 1 .. Len(k.bytes)
  BY <1>1 DEF GoodKey
<1>3. k.bytes[(n % k.chars) + 1] \in Index
  BY <1>2 DEF GoodKey
<1>4. s.arr \in [Index -> Index] /\ s.j \in Index /\ s.arr[n] \in Index
  BY DEF States
<1>5. s.j + s.arr[n] + k.bytes[(n % k.chars) + 1] \in Int
  BY <1>3, <1>4 DEF Index
<1>6. m \in Index
  BY <1>5, ModIndex
<1>7. Swap(s.arr, n, m) \in [Index -> Index]
  BY <1>4, <1>6 DEF Swap
<1> QED
  BY <1>6, <1>7 DEF Iteration, States

LEMMA TraceExists ==
  ASSUME NEW k, GoodKey(k), NEW lo \in 0 .. N, NEW s \in States
  PROVE  \E t : IsTrace(k, lo, s, t)
<1> DEFINE h == [n \in 1 .. N |->
                   [x \in States |-> IF n <= lo THEN s
                                                ELSE Iteration(k, x, n - 1)]]
<1>1. ASSUME NEW n \in 1 .. N, NEW x \in States
      PROVE  /\ h[n][x] = IF n <= lo THEN s ELSE Iteration(k, x, n - 1)
             /\ h[n][x] \in States
  <2>1. n - 1 \in Index
    BY SizeAssumption DEF Index
  <2>2. Iteration(k, x, n - 1) \in States
    BY <2>1, IterationStates
  <2> QED
    BY <2>2
<1> HIDE DEF h
<1>2. PICK t \in [0 .. N -> States] : Follows(t, s, h, N)
  <2>1. N \in Nat
    BY SizeAssumption
  <2>2. Keeps(h, N, States)
    BY <1>1 DEF Keeps
  <2> QED
    BY <2>1, <2>2, Recursion
<1>3. ASSUME NEW n \in 1 .. N
      PROVE  t[n] = IF n <= lo THEN s ELSE Iteration(k, t[n - 1], n - 1)
  <2>1. t[n - 1] \in States
    BY <1>2, SizeAssumption
  <2> QED
    BY <1>1, <1>2, <2>1 DEF Follows
<1> QED
  BY <1>2, <1>3, SizeAssumption DEF IsTrace, Follows

(* A trace from the middle of another one goes on like that one.           *)
LEMMA TraceGoesOn ==
  ASSUME NEW k, NEW lo \in 0 .. N, NEW mid \in lo .. N, NEW s, NEW t, NEW u,
         IsTrace(k, lo, s, t), IsTrace(k, mid, t[mid], u)
  PROVE  \A n \in mid .. N : u[n] = t[n]
<1> DEFINE T == {n \in mid .. N : u[n] # t[n]}
<1> SUFFICES ASSUME T # {} PROVE FALSE
  OBVIOUS
<1>1. PICK n \in T : \A l \in T : n <= l
  <2>1. T \in SUBSET Nat
    BY SizeAssumption
  <2> HIDE DEF T
  <2> QED
    BY <2>1, Least
<1>2. n # mid
  BY SizeAssumption DEF IsTrace
<1>3. n - 1 \in mid .. N /\ n - 1 \notin T
  BY <1>1, <1>2, SizeAssumption
<1>4. u[n - 1] = t[n - 1]
  BY <1>3
<1>5. u[n] = Iteration(k, u[n - 1], n - 1) /\ t[n] = Iteration(k, t[n - 1], n - 1)
  BY <1>2, SizeAssumption DEF IsTrace
<1> QED
  BY <1>4, <1>5
(* The recursion of Scheduled, as an equation, and what solves it.         *)
Halves(k, f) ==
  f = [a \in Index \X (1 .. N) \X States |->
         IF a[2] = a[1] + 1 THEN Iteration(k, a[3], a[1])
         ELSE f[<<(a[1] + a[2]) \div 2, a[2],
                  f[<<a[1], (a[1] + a[2]) \div 2, a[3]>>]>>]]
TraceOf(k, lo, s) == CHOOSE t : IsTrace(k, lo, s, t)

LEMMA TraceOfIs ==
  ASSUME NEW k, GoodKey(k), NEW lo \in 0 .. N, NEW s \in States
  PROVE  IsTrace(k, lo, s, TraceOf(k, lo, s))
  BY TraceExists DEF TraceOf

(* The iterations from lo to mid and those from mid to hi make the ones    *)
(* from lo to hi.                                                          *)
LEMMA TraceHalves ==
  ASSUME NEW k, GoodKey(k), NEW s \in States, NEW lo \in Index,
         NEW hi \in 1 .. N, NEW mid \in lo .. hi
  PROVE  /\ TraceOf(k, lo, s)[mid] \in States
         /\ TraceOf(k, mid, TraceOf(k, lo, s)[mid])[hi] = TraceOf(k, lo, s)[hi]
<1> DEFINE t == TraceOf(k, lo, s)
           u == TraceOf(k, mid, t[mid])
<1>1. lo \in 0 .. N /\ mid \in 0 .. N /\ mid \in lo .. N /\ hi \in mid .. N
  BY SizeAssumption DEF Index
<1>2. IsTrace(k, lo, s, t)
  BY <1>1, TraceOfIs
<1>3. t[mid] \in States
  BY <1>1, <1>2 DEF IsTrace
<1>4. IsTrace(k, mid, t[mid], u)
  BY <1>1, <1>3, TraceOfIs
<1>5. u[hi] = t[hi]
  <2> HIDE DEF t, u
  <2> QED
    BY <1>1, <1>2, <1>4, TraceGoesOn
<1> QED
  BY <1>3, <1>5

LEMMA Middle ==
  ASSUME NEW lo \in Index, NEW hi \in 1 .. N
  PROVE  /\ hi > lo + 1 => (lo + hi) \div 2 \in lo + 1 .. hi - 1
         /\ hi <= lo => (lo + hi) \div 2 \in hi .. lo
         /\ hi # lo + 1 => /\ (lo + hi) \div 2 \in Index
                           /\ (lo + hi) \div 2 \in 1 .. N
  BY SizeAssumption DEF Index

LEMMA HalvesExists ==
  ASSUME NEW k, GoodKey(k)
  PROVE  \E f : Halves(k, f)
<1> DEFINE D == Index \X (1 .. N) \X States
           f == [a \in D |-> IF a[2] <= a[1] THEN a[3]
                                            ELSE TraceOf(k, a[1], a[3])[a[2]]]
<1>0. ASSUME NEW x \in Index, NEW y \in 1 .. N, NEW z \in States
      PROVE  f[<<x, y, z>>] = IF y <= x THEN z ELSE TraceOf(k, x, z)[y]
  OBVIOUS
<1> HIDE DEF f
<1>1. ASSUME NEW lo \in Index, NEW hi \in 1 .. N, NEW s \in States
      PROVE  f[<<lo, hi, s>>] =
               IF hi = lo + 1 THEN Iteration(k, s, lo)
               ELSE f[<<(lo + hi) \div 2, hi, f[<<lo, (lo + hi) \div 2, s>>]>>]
  <2> DEFINE mid == (lo + hi) \div 2
             t == TraceOf(k, lo, s)
  <2>0. lo \in Nat /\ hi \in Nat
    BY SizeAssumption DEF Index
  <2>1. CASE hi = lo + 1
    <3>1. IsTrace(k, lo, s, t)
      BY TraceOfIs, SizeAssumption DEF Index
    <3>2. t[hi] = Iteration(k, t[lo], lo) /\ t[lo] = s
      BY <2>1, <2>0, <3>1 DEF IsTrace
    <3> QED
      BY <1>0, <2>0, <2>1, <3>2
  <2>2. CASE hi <= lo
    <3>1. mid \in hi .. lo /\ mid \in Index /\ mid \in 1 .. N
      BY <2>0, <2>2, Middle
    <3> HIDE DEF mid
    <3>2. f[<<lo, mid, s>>] = s /\ f[<<mid, hi, s>>] = s /\ f[<<lo, hi, s>>] = s
      BY <1>0, <2>0, <2>2, <3>1
    <3>3. hi # lo + 1
      BY <2>0, <2>2
    <3> QED
      BY <3>2, <3>3 DEF mid
  <2>3. CASE hi > lo + 1
    <3>1. mid \in lo + 1 .. hi - 1 /\ mid \in Index /\ mid \in 1 .. N
      BY <2>0, <2>3, Middle
    <3> HIDE DEF mid
    <3>2. t[mid] \in States /\ TraceOf(k, mid, t[mid])[hi] = t[hi]
      BY <2>0, <3>1, TraceHalves
    <3>3. f[<<lo, mid, s>>] = t[mid] /\ f[<<lo, hi, s>>] = t[hi]
      BY <1>0, <2>0, <2>3, <3>1
    <3>4. f[<<mid, hi, t[mid]>>] = TraceOf(k, mid, t[mid])[hi]
      BY <1>0, <2>0, <3>1, <3>2
    <3>5. hi # lo + 1
      BY <2>0, <2>3
    <3> QED
      BY <3>2, <3>3, <3>4, <3>5 DEF mid
  <2> QED
    BY <2>0, <2>1, <2>2, <2>3
<1>2. f = [a \in D |->
             IF a[2] = a[1] + 1 THEN Iteration(k, a[3], a[1])
             ELSE f[<<(a[1] + a[2]) \div 2, a[2],
                      f[<<a[1], (a[1] + a[2]) \div 2, a[3]>>]>>]]
  <2>1. ASSUME NEW a \in D
        PROVE  f[a] = IF a[2] = a[1] + 1 THEN Iteration(k, a[3], a[1])
                      ELSE f[<<(a[1] + a[2]) \div 2, a[2],
                               f[<<a[1], (a[1] + a[2]) \div 2, a[3]>>]>>]
    <3>1. PICK lo \in Index, hi \in 1 .. N, s \in States : a = <<lo, hi, s>>
      OBVIOUS
    <3> QED
      BY <1>1, <3>1
  <2> QED
    BY <2>1 DEF f
<1> QED
  BY <1>2 DEF Halves
(* Whatever solves the equation runs the iterations one after the other.   *)
LEMMA HalvesValue ==
  ASSUME NEW k, GoodKey(k), NEW f, Halves(k, f)
  PROVE  \A lo \in Index, hi \in 1 .. N, s \in States :
           lo < hi => f[<<lo, hi, s>>] = TraceOf(k, lo, s)[hi]
<1> DEFINE Wrong(lo, hi, s) == lo < hi /\ f[<<lo, hi, s>>] # TraceOf(k, lo, s)[hi]
           T == {d \in Nat : \E lo \in Index, hi \in 1 .. N, s \in States :
                               d = hi - lo /\ Wrong(lo, hi, s)}
<1>0. \A lo \in Index, hi \in 1 .. N : lo \in Nat /\ hi \in Nat
  BY SizeAssumption DEF Index
<1>1. SUFFICES ASSUME T # {} PROVE FALSE
  <2>1. \A lo \in Index, hi \in 1 .. N : lo < hi => hi - lo \in Nat
    BY <1>0
  <2> QED
    BY <2>1
<1>2. PICK d \in T : \A e \in T : d <= e
  <2>1. T \in SUBSET Nat
    OBVIOUS
  <2> HIDE DEF T
  <2> QED
    BY <1>1, <2>1, Least
<1>3. PICK lo \in Index, hi \in 1 .. N, s \in States :
        d = hi - lo /\ Wrong(lo, hi, s)
  OBVIOUS
<1> DEFINE mid == (lo + hi) \div 2
           t == TraceOf(k, lo, s)
<1>4. f[<<lo, hi, s>>] =
        IF hi = lo + 1 THEN Iteration(k, s, lo)
                       ELSE f[<<mid, hi, f[<<lo, mid, s>>]>>]
  BY DEF Halves
<1>5. CASE hi = lo + 1
  <2>1. IsTrace(k, lo, s, t)
    BY TraceOfIs, SizeAssumption DEF Index
  <2>2. t[hi] = Iteration(k, t[lo], lo) /\ t[lo] = s
    BY <1>0, <1>5, <2>1 DEF IsTrace
  <2> QED
    BY <1>3, <1>4, <1>5, <2>2
<1>6. CASE hi > lo + 1
  <2>1. mid \in lo + 1 .. hi - 1 /\ mid \in Index /\ mid \in 1 .. N
    BY <1>0, <1>6, Middle
  <2> HIDE DEF mid
  <2>2. t[mid] \in States /\ TraceOf(k, mid, t[mid])[hi] = t[hi]
    BY <1>0, <2>1, TraceHalves
  <2>3. mid - lo \in Nat /\ mid - lo < d /\ hi - mid \in Nat /\ hi - mid < d
    <3>1. d = hi - lo
      BY <1>3
    <3>2. lo \in Int /\ hi \in Int /\ mid \in Int /\ lo < mid /\ mid < hi
      BY <1>0, <2>1
    <3> HIDE DEF T
    <3> QED
      BY <3>1, <3>2
  <2>4. mid - lo \notin T /\ hi - mid \notin T
    <3> HIDE DEF T
    <3>1. \A e \in T : e \in Nat /\ d <= e
      BY <1>2 DEF T
    <3>2. d \in Nat
      BY DEF T
    <3> QED
      BY <2>3, <3>1, <3>2
  <2>5. f[<<lo, mid, s>>] = t[mid]
    BY <1>0, <2>1, <2>3, <2>4
  <2>6. f[<<mid, hi, t[mid]>>] = TraceOf(k, mid, t[mid])[hi]
    BY <1>0, <2>1, <2>2, <2>3, <2>4
  <2>7. hi # lo + 1
    BY <1>0, <1>6
  <2> QED
    BY <1>3, <1>4, <2>2, <2>5, <2>6, <2>7
<1> QED
  BY <1>0, <1>3, <1>5, <1>6

LEMMA ScheduledIs ==
  ASSUME NEW k, GoodKey(k)
  PROVE  Scheduled(k) = TraceOf(k, 0, Start)[N].arr
<1> DEFINE f == CHOOSE f : Halves(k, f)
<1>1. Halves(k, f)
  BY HalvesExists
<1>2. Scheduled(k) = f[<<0, N, Start>>].arr
  BY DEF Scheduled, Halves
<1> HIDE DEF f
<1>3. Start \in States
  BY SizeAssumption DEF Start, States, Identity, Index
<1>4. 0 \in Index /\ N \in 1 .. N /\ 0 < N
  BY SizeAssumption DEF Index
<1>5. f[<<0, N, Start>>] = TraceOf(k, 0, Start)[N]
  BY <1>1, <1>3, <1>4, HalvesValue
<1> QED
  BY <1>2, <1>5

-----------------------------------------------------------------------------
(* The machine runs the same iterations, one per step, and the table is    *)
(* what they leave.                                                        *)
InStep ==
  key.chars = keysize /\ keysize > 0 =>
    TraceOf(key, 0, Start)[i] = [arr |-> arr, j |-> j]
Stored ==
  /\ keysize = 0 => i = 0
  /\ pc = "done" => i = N /\ INSTR = [k \in 0 .. NumOps - 1 |-> arr[k]]

KInv == IInv /\ InStep /\ Stored

LEMMA KeyGood ==
  ASSUME TypeOK, key.chars = keysize, keysize > 0
  PROVE  GoodKey(key)
  BY KeysAssumption DEF TypeOK, GoodKey, keysize, Index

LEMMA InitKInv == Init => KInv
<1> SUFFICES ASSUME Init PROVE KInv
  OBVIOUS
<1>1. IInv
  BY InitIInv
<1>2. InStep
  <2> SUFFICES ASSUME key.chars = keysize, keysize > 0
               PROVE  TraceOf(key, 0, Start)[i] = [arr |-> arr, j |-> j]
    BY DEF InStep
  <2>1. GoodKey(key)
    BY <1>1, KeyGood DEF IInv
  <2>2. Start \in States /\ 0 \in 0 .. N
    BY SizeAssumption DEF Start, States, Identity, Index
  <2>3. IsTrace(key, 0, Start, TraceOf(key, 0, Start))
    BY <2>1, <2>2, TraceOfIs
  <2>4. TraceOf(key, 0, Start)[0] = Start
    BY <2>3 DEF IsTrace
  <2> QED
    BY <2>4 DEF Init, Start
<1>3. Stored
  BY DEF Init, Stored
<1> QED
  BY <1>1, <1>2, <1>3 DEF KInv

LEMMA NextKInv == KInv /\ [Next]_vars => KInv'
<1> SUFFICES ASSUME KInv, [Next]_vars PROVE KInv'
  OBVIOUS
<1>0. IInv /\ IInv' /\ TypeOK
  BY NextIInv DEF KInv, IInv
<1>1. CASE Shuffle
  <2>0. keysize > 0 /\ i < N /\ i \in Nat /\ key' = key /\ keysize' = keysize
    BY <1>0, <1>1, SizeAssumption DEF Shuffle, keysize, TypeOK
  <2>1. ASSUME key.chars = keysize
        PROVE  TraceOf(key, 0, Start)[i'] = [arr |-> arr', j |-> j']
    <3> DEFINE t == TraceOf(key, 0, Start)
    <3>1. GoodKey(key)
      BY <1>0, <2>0, <2>1, KeyGood
    <3>2. Start \in States /\ 0 \in 0 .. N
      BY SizeAssumption DEF Start, States, Identity, Index
    <3>3. IsTrace(key, 0, Start, t)
      BY <3>1, <3>2, TraceOfIs
    <3>4. i + 1 \in 0 + 1 .. N
      BY <2>0, SizeAssumption
    <3> HIDE DEF t
    <3>5. t[i + 1] = Iteration(key, t[(i + 1) - 1], (i + 1) - 1)
      BY <3>3, <3>4 DEF IsTrace
    <3>6. (i + 1) - 1 = i
      BY <2>0
    <3>7. t[i] = [arr |-> arr, j |-> j]
      BY <2>0, <2>1 DEF KInv, InStep, t
    <3>8. t[i + 1] = Iteration(key, [arr |-> arr, j |-> j], i)
      BY <3>5, <3>6, <3>7
    <3>9. Iteration(key, [arr |-> arr, j |-> j], i)
            = [arr |-> Swap(arr, i, NextJ), j |-> NextJ]
      BY <2>1 DEF Iteration, NextJ
    <3> QED
      BY <1>1, <3>8, <3>9 DEF Shuffle, t
  <2>2. InStep'
    BY <2>0, <2>1 DEF InStep
  <2>3. Stored'
    BY <1>1, <2>0 DEF Shuffle, Stored
  <2> QED
    BY <1>0, <2>2, <2>3 DEF KInv
<1>2. CASE EmptyKey
  BY <1>0, <1>2 DEF EmptyKey, KInv, InStep, Stored, keysize
<1>3. CASE Store
  BY <1>0, <1>3 DEF Store, KInv, InStep, Stored, keysize
<1>4. CASE UNCHANGED vars
  BY <1>0, <1>4 DEF vars, KInv, InStep, Stored, keysize
<1> QED
  BY <1>1, <1>2, <1>3, <1>4 DEF Next

LEMMA KInvSameTable == KInv => SameTable
<1> SUFFICES ASSUME KInv, pc = "done", key.chars = keysize,
                    NEW k \in 0 .. NumOps - 1
             PROVE  INSTR[k] = Scheduled(key)[k]
  BY DEF SameTable
<1>1. i = N /\ INSTR[k] = arr[k]
  BY DEF KInv, Stored
<1>2. keysize > 0
  <2>1. keysize # 0
    BY <1>1, SizeAssumption DEF KInv, Stored
  <2>2. keysize \in Nat
    BY KeysAssumption DEF KInv, IInv, TypeOK, keysize
  <2> QED
    BY <2>1, <2>2
<1>3. GoodKey(key)
  BY <1>2, KeyGood DEF KInv, IInv
<1>4. Scheduled(key) = TraceOf(key, 0, Start)[N].arr
  BY <1>3, ScheduledIs
<1>5. TraceOf(key, 0, Start)[N] = [arr |-> arr, j |-> j]
  BY <1>1, <1>2 DEF KInv, InStep
<1> QED
  BY <1>1, <1>4, <1>5

(* The machine of the VM and encrypt_ops of the assembler, whatever the    *)
(* key, make the same table of opcode bytes.                               *)
THEOREM TablesAgree == Spec => []SameTable
  BY InitKInv, NextKInv, KInvSameTable, PTL DEF Spec
=============================================================================
