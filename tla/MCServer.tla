------------------------------ MODULE MCServer ------------------------------
(***************************************************************************)
(* PolictfServer with a data section of three bytes, and programs that     *)
(* store the right text, part of it, or nothing.                           *)
(***************************************************************************)
EXTENDS PolictfServer, Bytecode

Zeros == {[a \in 0 .. Mapped - 1 |-> 0]}
Encrypted == <<140, 234, 190>>
Text == <<84, 104, 101>>

Put(a, lo, hi) == Imm("MOVI", 0, MkWord(lo, hi)) \o Sto(a, 0)
Stop == Sgl("SHIT")
Solve == Put(0, 84, 104) \o Put(2, 101, 0) \o Stop
Later == Sgl("NOPE") \o Put(1, 104, 101) \o Put(0, 84, 104) \o Stop
TooBig == Solve \o [k \in 1 .. 10 |-> B("NOPE")]
(* A text that differs in the last byte, or with a store out of range.     *)
Almost == Put(0, 84, 104) \o Stop
OutOfRange == Put(6, 84, 104) \o Solve

(* Nothing; a program that begins with two instructions of one byte; one   *)
(* that fills the code section to the last byte.                           *)
Nopes == Sgl("NOPE") \o Sgl("NOPE") \o Stop
Full == Solve \o [k \in 1 .. 7 |-> B("NOPE")]

ServerSolutions == {Solve, Later, Full}
ServerCodes == ServerSolutions \cup {<<>>, Nopes, Almost, OutOfRange, TooBig}
=============================================================================
