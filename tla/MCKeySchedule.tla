--------------------------- MODULE MCKeySchedule ---------------------------
(***************************************************************************)
(* KeySchedule on small arrays.                                            *)
(***************************************************************************)
EXTENDS KeySchedule

CONSTANT MaxLen     \* bound on the length of a key

Strings == UNION {[1 .. n -> Index] : n \in 0 .. MaxLen}

(* Every key, of characters of one byte or of several.                     *)
AnyKeys ==
  {k \in [bytes : Strings, chars : 0 .. MaxLen] :
     k.chars <= Len(k.bytes) /\ (k.chars = 0 <=> k.bytes = <<>>)}
=============================================================================
