---------------------------- MODULE MCToolchain ----------------------------
(***************************************************************************)
(* Toolchain on the programs of the challenge, with their key and data,    *)
(* and on all small programs of two functions put together from given      *)
(* lines.                                                                  *)
(***************************************************************************)
EXTENDS Challenge

LOCAL KSA == INSTANCE EncryptOps WITH N <- 256

(* What encrypt_ops makes of the key of the client.                        *)
PolictfOpcodes ==
  LET arr == KSA!Scheduled([bytes |-> PolictfKey, chars |-> Len(PolictfKey)])
  IN  [op \in Ops |-> arr[(CHOOSE k \in 1 .. NUM_OPS : OpOrder[k] = op) - 1]]

ASSUME PolictfTable == PolictfOpcodes = PolictfINSTR
-----------------------------------------------------------------------------
lower(name) == CASE name = "End" -> "end" [] name = "R1" -> "r1" [] OTHER -> name
Zeros == {[a \in 0 .. Mapped - 1 |-> 0]}

(* One or two lines of every coding, every kind of operand, and jumps to   *)
(* labels of this function, of the other one, of both, to functions, to a  *)
(* label that is spelled differently, and to numbers.                      *)
Lines ==
  {<<Ins2("MOVI", r1, Val(258))>>, <<Ins2("STRI", Val(2), r1)>>,
   <<Ins2("XORB", s1, Val(7))>>, <<Ins2("ADDR", r0, s3)>>,
   <<Ins1("PUSH", r2)>>, <<Ins0("NOPE")>>,
   <<Ins1("CALL", Sym("f"))>>, <<Ins1("JMPI", Sym("end"))>>,
   <<Label("here"), Ins1("JPNI", Sym("there"))>>,
   <<Label("end"), Ins1("JPBI", Sym("here"))>>}
Odd == {<<Ins1("NOTR", r1)>>, <<Ins1("JMPR", r1)>>, <<Ins1("JPEI", Sym("End"))>>,
        <<Ins2("MOVI", r0, r3)>>, <<Ins2("MOVI", r0, Val(65536))>>,
        <<Ins2("MOVR", r0, Reg("ip", 8))>>, <<Ins2("MOVI", r0, Sym("end"))>>,
        <<Ins1("JMPI", Sym("nowhere"))>>, <<Ins1("JPEI", Val(0))>>,
        <<Ins1("JMPR", Val(5))>>, <<Ins2("JMPI", Val(1), Val(7))>>, <<Label("end")>>, <<Ins1("PUSH", Reg("r4", 11))>>,
        <<Ins1("JMPR", Reg("R1", 1))>>, <<Ins1("PUSH", Reg("R1", 1))>>,
        <<Ins2("JMPI", Sym("here"), Val(5))>>}

Main(x, y) == <<Fun("main")>> \o x \o y \o <<Label("end"), Ins0("SHIT")>>
F(x) == <<Fun("f"), Label("there")>> \o <<Ins2("CMPB", r1, Val(2))>> \o x
          \o <<Ins0("RETN")>>

SmallSources ==
  UNION {{Main(x, y) \o F(z), F(z) \o Main(x, y)} :
            x \in Lines, y \in Lines, z \in Lines}
  \cup {Main(x, y) \o F(z) : x \in Odd, y \in Lines \cup Odd,
                            z \in {<<Ins0("NOPE")>>, <<Ins1("JMPI", Sym("end"))>>}}
  \cup {F(x) \o <<Fun(name)>> \o y \o <<Fun("main"), Ins1("CALL", Sym("f"))>> :
           x \in {<<>>, <<Ins1("CALL", Sym("g"))>>}, name \in {"", "f", "g"},
           y \in {<<>>, <<Ins0("NOPE")>>}}
  \cup {<<>>, <<Ins0("SHIT")>>, <<Label("end")>>, <<Ins0("NOPE")>> \o F(<<>>),
        <<[kind |-> "other", name |-> "", args |-> <<>>]>>}

(* Jumps that are left with a register all instructions share, behind a    *)
(* symbol that is found; labels named like a register, also the same one   *)
(* in two functions.                                                       *)
Sharing == {<<Ins2("JMPI", r1, Sym("foo"))>>, <<Ins2("JPEI", Sym("foo"), r0)>>,
            <<Ins2("JMPR", s1, Sym("foo"))>>, <<Ins2("JPAI", Reg("sp", 10), Sym("foo"))>>,
            <<Label("sp"), Ins2("JPBI", Reg("sp", 10), Sym("foo"))>>}
SharingSources ==
  {Main(<<Ins1("CALL", Sym(name))>>, x) \o F(y) :
     name \in {"main", "f", "end"}, x \in Sharing, y \in Sharing \cup Lines}
  \cup {Main(x, y) \o F(x) : x \in Lines, y \in Sharing}

ToolchainSources ==
  SmallSources \cup SharingSources \cup {encrypt_pstc, decrypt_pstc}
(* The line of IMPLEMENTATION.md behind a jump to a label.                 *)
NumericJump == {<<Fun("main"), Label("top"), Ins0("NOPE"), Ins1("JPEI", Sym("top")),
                  Ins1("JMPI", Val(512)), Ins0("SHIT")>>}
ToolchainInputs(text) ==
  IF text = decrypt_pstc THEN {EN_DATASECTION} ELSE {<<>>}

(* Returns without calls take SP down through all its values, endless      *)
(* pushes up to the end of the section: only the latter is explored.       *)
StackWindow == regs[10] <= StackSize
=============================================================================
