--------------------------- MODULE PolictfServer ---------------------------
(***************************************************************************)
(* A session of polictf/server/pasticciotto_server.cpp with a client like  *)
(* polictf/server/exploit-test.py, over a connection that delivers bytes   *)
(* in order and in pieces of any size.                                     *)
(*                                                                         *)
(* The server reads the same descriptor in two ways: scanf through the     *)
(* buffer of stdin, which takes all that has arrived, and read() past it.  *)
(***************************************************************************)
EXTENDS VM, FiniteSetsExt

CONSTANTS
  Codes,            \* what the client's assembler may have written
  Solutions,        \* the codes that turn EN_DATASECTION into decdatasec
  EN_DATASECTION,
  decdatasec,       \* the contents of decrypteddatasection.txt
  Uninitialised     \* what clientcodesize may hold before scanf

ASSUME SessionAssumption ==
  /\ Codes \subseteq Seq(Byte) /\ Solutions \subseteq Codes
  /\ \A c \in Codes : Len(c) <= 2147483647        \* an int, for scanf's %d
  /\ EN_DATASECTION \in Seq(Byte) /\ decdatasec \in Seq(Byte)
  /\ Len(decdatasec) = Len(EN_DATASECTION)
  /\ Len(EN_DATASECTION) <= DataSize
  /\ Uninitialised \subseteq Nat

VARIABLES
  client,           \* which recv() the client waits in, or "gone"
  code,             \* the data it read from out.pasticciotto
  early,            \* history: it sent the code before it was told to
  up, sock,         \* bytes on their way to the server, and arrived there
  down,             \* messages on their way to the client
  pc,               \* the server
  stdin,            \* what scanf has buffered
  clientcodesize, clientcode,
  answer            \* the last message of the server

client_vars  == <<client, code, early>>
server_vars  == <<pc, stdin, clientcodesize, clientcode, answer>>
vars == <<client_vars, up, sock, down, server_vars, vm_vars>>

Questions == {"key", "ask", "go"}
Answers == {"short", "nofile", "nope", "flag"}

TypeOK ==
  /\ client \in {"key", "number", "answer", "gone"}
  /\ code \in Codes
  /\ early \in BOOLEAN
  /\ up \in Seq(Byte) /\ sock \in Seq(Byte) /\ stdin \in Seq(Byte)
  /\ down \in Seq(Questions \cup Answers)
  /\ pc \in {"greet", "scanf", "read", "construct", "run", "compare", "exit"}
  /\ clientcodesize \in Nat
  /\ clientcode \in Seq(Byte)
  /\ answer \in Answers \cup {"none"}
  /\ VMTypeOK

Init ==
  /\ client = "key" /\ code \in Codes /\ early = FALSE
  /\ up = <<>> /\ sock = <<>> /\ down = <<>> /\ stdin = <<>>
  /\ pc = "greet"
  /\ clientcodesize \in Uninitialised
  /\ clientcode = <<>>
  /\ answer = "none"
  /\ constructed(<<>>)

-----------------------------------------------------------------------------
(* The connection.                                                         *)

Deliver ==
  /\ up # <<>>
  /\ \E n \in 1 .. Len(up) :
       /\ sock' = sock \o SubSeq(up, 1, n)
       /\ up' = SubSeq(up, n + 1, Len(up))
  /\ UNCHANGED <<client_vars, down, server_vars, vm_vars>>

(* The client has closed its end and nothing more will arrive.             *)
EndOfFile == client = "gone" /\ up = <<>> /\ sock = <<>>

-----------------------------------------------------------------------------
(* The client.  recv() returns what has arrived, at least one message.     *)

NEWLINE == 10
Digit(d) == 48 + d
Figures(n) ==                                \* n in decimal
  LET figures[k \in 0 .. n] ==
        IF k < 10 THEN <<Digit(k)>>
                  ELSE Append(figures[k \div 10], Digit(k % 10))
  IN  figures[n]
Line(n) == Figures(n) \o <<NEWLINE>>

Receive(n) ==
  /\ n \in 1 .. Len(down)
  /\ down' = SubSeq(down, n + 1, Len(down))
Heard(msg, n) == \E k \in 1 .. n : down[k] = msg

SendNumber ==
  /\ client = "key"
  /\ \E n \in 1 .. Len(down) : Receive(n)
  /\ up' = up \o Line(Len(code))
  /\ client' = "number"
  /\ UNCHANGED <<code, early, sock, server_vars, vm_vars>>

(* Whatever it is that the second recv() returns, the code is sent.        *)
SendCode ==
  /\ client = "number"
  /\ \E n \in 1 .. Len(down) : Receive(n) /\ early' = ~Heard("go", n)
  /\ up' = up \o code \o <<NEWLINE>>
  /\ client' = "answer"
  /\ UNCHANGED <<code, sock, server_vars, vm_vars>>

PrintAnswer ==
  /\ client = "answer"
  /\ \E n \in 1 .. Len(down) : Receive(n)
  /\ client' = "gone"
  /\ UNCHANGED <<code, early, up, sock, server_vars, vm_vars>>

(* recv() raises an error when the server has closed the connection.       *)
EndOfSession ==
  /\ client # "gone" /\ down = <<>>
  /\ pc = "exit" \/ status = "crashed"
  /\ client' = "gone"
  /\ UNCHANGED <<code, early, up, sock, down, server_vars, vm_vars>>

(* The client may also be interrupted at any time.                         *)
Leave ==
  /\ client # "gone"
  /\ client' = "gone"
  /\ UNCHANGED <<code, early, up, sock, down, server_vars, vm_vars>>

Client == SendNumber \/ SendCode \/ PrintAnswer \/ EndOfSession

-----------------------------------------------------------------------------
(* The server.                                                             *)

Buffered(msgs) == down                      \* mutant: fflush(stdout) left out
Flushed(msgs) == down \o msgs

Greet ==
  /\ pc = "greet"
  /\ down' = Flushed(<<"key", "ask">>)
  /\ pc' = "scanf"
  /\ UNCHANGED <<client_vars, up, sock, stdin, clientcodesize, clientcode,
                 answer, vm_vars>>

UpToNine(c) == c <= Digit(9)                 \* mutant: one bound forgotten
IsDigit(c) == c \in Digit(0) .. Digit(9)
NumberEnds == \E k \in DOMAIN stdin : ~IsDigit(stdin[k])

FillStdin ==
  /\ pc = "scanf" /\ ~NumberEnds /\ sock # <<>>
  /\ stdin' = stdin \o sock
  /\ sock' = <<>>
  /\ UNCHANGED <<client_vars, up, down, pc, clientcodesize, clientcode,
                 answer, vm_vars>>

(* The value of the first n characters of stdin.                           *)
Decimal(n) ==
  LET value[k \in 0 .. n] ==
        IF k = 0 THEN 0 ELSE 10 * value[k - 1] + stdin[k] - Digit(0)
  IN  value[n]

(* scanf stops in front of the first character that is no digit, and       *)
(* leaves clientcodesize as it is when there was no digit.                 *)
Scanf ==
  /\ pc = "scanf" /\ (NumberEnds \/ EndOfFile)
  /\ LET other == {k \in DOMAIN stdin : ~IsDigit(stdin[k])}
         n == IF other = {} THEN Len(stdin) ELSE Min(other) - 1
     IN  /\ clientcodesize' = IF n = 0 THEN clientcodesize ELSE Decimal(n)
         /\ stdin' = SubSeq(stdin, n + 1, Len(stdin))
  /\ down' = Flushed(<<"go">>)
  /\ pc' = "read"
  /\ UNCHANGED <<client_vars, up, sock, clientcode, answer, vm_vars>>

Exit(msg) == pc' = "exit" /\ answer' = msg /\ down' = Flushed(<<msg>>)

AnyRead(bytes) == TRUE                      \* mutant: bytesread not looked at
ReadEverything(bytes) == Len(bytes) = clientcodesize

(* read() waits for at least one byte, takes no more than it is asked for, *)
(* and does not see what is in stdin.                                      *)
Read ==
  /\ pc = "read"
  /\ sock # <<>> \/ EndOfFile \/ clientcodesize = 0
  /\ LET n == Min({clientcodesize, Len(sock)}) IN
       /\ clientcode' = SubSeq(sock, 1, n)
       /\ sock' = SubSeq(sock, n + 1, Len(sock))
  /\ IF ReadEverything(clientcode')
       THEN pc' = "construct" /\ UNCHANGED <<answer, down>>
       ELSE Exit("short")
  /\ UNCHANGED <<client_vars, up, stdin, clientcodesize, vm_vars>>

(* The constructor and insData: each refuses what is too big.              *)
Construct ==
  /\ pc = "construct"
  /\ mem' = insData(insCode(mem, clientcode), EN_DATASECTION)
  /\ pc' = "run"
  /\ UNCHANGED <<client_vars, up, sock, down, stdin, clientcodesize, clientcode,
                 answer, regs, instr_p, status>>

Run ==
  /\ pc = "run"
  /\ run
  /\ pc' = "compare"
  /\ UNCHANGED <<client_vars, up, sock, down, stdin, clientcodesize, clientcode,
                 answer>>

RunLoop ==
  /\ Iterate
  /\ UNCHANGED <<client_vars, up, sock, down, server_vars>>

SameButTheLast ==                           \* mutant: loop ends one too early
  \A i \in 0 .. Len(EN_DATASECTION) - 2 : mem[DataBase + i] = decdatasec[i + 1]
SameData ==
  \A i \in 0 .. Len(EN_DATASECTION) - 1 : mem[DataBase + i] = decdatasec[i + 1]

(* run() has returned: what is in the data section decides.  Either file   *)
(* may be missing.                                                         *)
CompareSection ==
  /\ pc = "compare" /\ status = "idle"
  /\ \/ Exit("nofile")
     \/ ~SameData /\ Exit("nope")
     \/ SameData /\ Exit("flag")
  /\ UNCHANGED <<client_vars, up, sock, stdin, clientcodesize, clientcode,
                 vm_vars>>

Server ==
  Greet \/ FillStdin \/ Scanf \/ Read \/ Construct \/ Run \/ RunLoop
  \/ CompareSection

Next == Deliver \/ Client \/ Leave \/ Server

(* Both ends are processes of their own, and the connection is reliable:   *)
(* none of them keeps another from its next step.                          *)
FairSpec ==
  /\ Init /\ [][Next]_vars
  /\ WF_vars(Deliver) /\ WF_vars(Client) /\ WF_vars(Server)
-----------------------------------------------------------------------------
(* Properties.                                                             *)

(* What the server runs is what the client sent, whole, however the bytes  *)
(* were split on their way: part of it is never run.  Only when the client *)
(* sent the code before it was told to may the buffer of scanf take the    *)
(* first byte, which the newline behind the code makes up for in number;   *)
(* and when it left without a word, the size may happen to be 0.           *)
RunsWhatWasSent ==
  pc \in {"construct", "run", "compare"} =>
    \/ clientcode = code
    \/ early /\ clientcode = Tail(code) \o <<NEWLINE>>
    \/ client = "gone" /\ clientcode = <<>>

(* From end to end: a client whose program arrived gets the flag if and    *)
(* only if that program turns the data section into the text, unless a     *)
(* file is missing.  The size limit of the code, the bounds of the stores  *)
(* and the comparison of the data section are all behind it.               *)
FlagEarned ==
  clientcode = code /\ answer \in {"flag", "nope"} =>
    (answer = "flag" <=> code \in Solutions)

(* Neither end waits for the other forever, although one of them waits for *)
(* messages and the other for bytes, some of which it may have buffered:   *)
(* every session ends, if its program does.                                *)
SessionEnds == <>(pc = "exit" \/ status = "crashed")
=============================================================================
