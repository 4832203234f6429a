----------------------------- MODULE Challenge -----------------------------
(***************************************************************************)
(* The programs of the challenge on the whole toolchain: what has to hold  *)
(* between encrypt.pstc and decrypt.pstc, the bytecode in the client, the  *)
(* C programs, and the data section of the server.                         *)
(***************************************************************************)
EXTENDS Toolchain, PolictfKey, PolictfPrograms

LOCAL INSTANCE TeaRound

(* The client was built from encrypt.pstc: byte for byte what assembler.py *)
(* makes of it with the key of the client.                                 *)
ClientBytecode ==
  pc = "done" /\ source = encrypt_pstc => assembled_code = bc

(* After n rounds of the C function.                                       *)
Rounds(step(_), n, v) ==
  LET after[k \in 0 .. n] == IF k = 0 THEN v ELSE step(after[k - 1])
  IN  after[n]

(* IP is at the loop of the function round of one of the two programs.     *)
AtRound ==
  /\ stage = "started" /\ status = "running"
  /\ \E p \in placed : /\ p.at = regs[IP]
                       /\ functions[p.fun].name = "round"
                       /\ instruction(p).label = "loop"

(* The text of the round in the machine's assembly, which keeps its        *)
(* counter, temporaries and a sum it does not use on the stack, computes   *)
(* what the C function does: whenever it is at its loop for the S0-th      *)
(* time, R2 and R3 are v0 and v1 of the C function after S0 rounds.        *)
RoundAsInC ==
  AtRound =>
    LET n == regs[4]
        block == <<GetWord(DataBase + regs[0]), GetWord(DataBase + regs[1])>>
    IN  <<regs[2], regs[3]>> =
          IF source = encrypt_pstc THEN Rounds(EncRound, n, block)
                                   ELSE Rounds(DecRound, n, block)

(* The server asks for what can be done: decrypt.pstc, assembled and run   *)
(* on its data section, leaves the text the server compares it with.       *)
SectionDecrypted ==
  stage = "started" /\ status = "idle" /\ source = decrypt_pstc
  /\ Inputs(source) = {EN_DATASECTION} =>
    \A k \in DOMAIN decdatasec : mem[DataBase + k - 1] = decdatasec[k]

SameAsC == RoundAsInC /\ SectionDecrypted
=============================================================================
