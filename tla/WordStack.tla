----------------------------- MODULE WordStack -----------------------------
(***************************************************************************)
(* What the stack section and SP promise together: a bounded stack of      *)
(* words, of which only the top changes hands.  Popping it while it is     *)
(* empty is not refused: the stack is lost, until so many more words have  *)
(* been popped that the stack pointer has come round to the top of the     *)
(* section.  While no program runs, the words may be overwritten.          *)
(***************************************************************************)
EXTENDS Naturals, Sequences

CONSTANTS Word, Capacity

VARIABLES
  stk,      \* the words, the top one last
  lost,     \* TRUE while the stack is lost
  idle      \* TRUE while no program is running

vars == <<stk, lost, idle>>

Init == stk = <<>> /\ lost = FALSE /\ idle = TRUE

Push ==
  /\ ~idle /\ ~lost /\ Len(stk) < Capacity
  /\ stk' \in Seq(Word)
  /\ Len(stk') = Len(stk) + 1
  /\ SubSeq(stk', 1, Len(stk)) = stk
  /\ UNCHANGED <<lost, idle>>

Pop ==
  /\ ~idle /\ ~lost /\ stk # <<>>
  /\ stk' = SubSeq(stk, 1, Len(stk) - 1)
  /\ UNCHANGED <<lost, idle>>

Underflow ==
  /\ ~idle /\ ~lost /\ stk = <<>>
  /\ lost' = TRUE
  /\ UNCHANGED <<stk, idle>>

Resurface ==
  /\ ~idle /\ lost
  /\ lost' = FALSE
  /\ stk' \in Seq(Word) /\ Len(stk') = Capacity
  /\ UNCHANGED idle

Overwrite ==
  /\ idle
  /\ stk' \in Seq(Word) /\ Len(stk') = Len(stk)
  /\ UNCHANGED <<lost, idle>>

StartOrStop == idle' = ~idle /\ UNCHANGED <<stk, lost>>

Next == Push \/ Pop \/ Underflow \/ Resurface \/ Overwrite \/ StartOrStop

Spec == Init /\ [][Next]_vars
=============================================================================
