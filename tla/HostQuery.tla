------------------------------ MODULE HostQuery ------------------------------
(***************************************************************************)
(* One question after the other: a PC program encodes a request            *)
(* (command.c), sends it, and query_response collects the answer, in the   *)
(* version of fmc112.c, which stops after the number of bytes it expects,  *)
(* or that of tcpio.c, which stops when half a second has gone by.  The    *)
(* board decodes and executes the commands (control_interface.vhd); the    *)
(* connection delivers in pieces of any size and may be closed.            *)
(*                                                                         *)
(* A reply of 32 bits is two halves, so lengths count units of two bytes.  *)
(***************************************************************************)
EXTENDS HostCommands, Functions

CONSTANTS
  Calls,     \* lists of requests, each request with the length expected
  MayClose   \* TRUE: the connection may be lost

MayCloseAssumption == MayClose \in BOOLEAN

NoLength == -1     \* no length is known: wait for the timeout
Regs   == 32 .. 63
Cells  == 0 .. 7
Word   == [hi : 0 .. W16 - 1, lo : 0 .. W16 - 1]

(* Arguments that the encoders and the board have room for, and the length *)
(* of the answer where one is given.                                       *)
AnswerLength(c) ==
  CASE c.op \in {"read_register", "read_status"} -> 2
    [] c.op = "read_memory"   -> 2 * c.n
    [] c.op = "read_datafifo" -> 2 * (c.n + 1)
    [] OTHER -> 0
Legal(c) ==
  /\ \/ c.op = "read_register" /\ c.a \in 0 .. 31
     \/ c.op = "write_register" /\ c.a \in 0 .. 31 /\ c.v \in Nat
     \/ c.op = "read_status" /\ c.a \in 0 .. 10
     \/ c.op = "write_memory" /\ c.a \in Cells /\ c.v \in Seq(Word) /\ c.a + Len(c.v) <= 8
     \/ c.op = "read_memory" /\ c.a \in Cells /\ c.n \in 1 .. 8 - c.a
     \/ c.op = "read_datafifo" /\ c.n \in 0 .. W16 - 1
     \/ c.op = "send_pulse" /\ c.v \in Nat
  /\ c.expect \in {NoLength, AnswerLength(c)}
CallsAssumption == \A l \in Calls : l \in Seq(Range(l)) /\ \A c \in Range(l) : Legal(c)
Status(a) == 100 + a
DataWord(k) == [hi |-> 0, lo |-> (200 + k) % W16]

VARIABLES
  todo, pc, call, resp,      \* the program: calls to come, the present one, its respStr
  cmds, net, closed,         \* the connection, there and back
  config, memCnt, addr, din, mem, taken,   \* the board; words taken of the data FIFO
  conf, cells, words         \* history: what the registers, the memory, the FIFO should be

program == <<todo, pc, call, resp>>
board   == <<config, memCnt, addr, din, mem, taken>>
meant   == <<conf, cells, words>>
vars    == <<program, cmds, net, closed, board, meant>>

Nil == [hi |-> 0, lo |-> 0]
Init ==
  /\ todo \in Calls /\ pc = "returned" /\ call = [op |-> "none"] /\ resp = <<>>
  /\ cmds = <<>> /\ net = <<>> /\ closed = FALSE
  /\ config = [r \in Regs |-> 0] /\ memCnt = 1 /\ addr = 0 /\ din = 0
  /\ mem = [i \in Cells |-> Nil] /\ taken = 0
  /\ conf = config /\ cells = mem /\ words = 0
-----------------------------------------------------------------------------
CommandsOf(c) ==
  CASE c.op = "read_register"  -> ReadRegister(c.a)
    [] c.op = "write_register" -> WriteRegister(c.a, c.v)
    [] c.op = "read_status"    -> ReadStatus(c.a)
    [] c.op = "write_memory"   -> WriteMemory([hi |-> 0, lo |-> c.a], c.v)
    [] c.op = "read_memory"    -> ReadMemory([hi |-> 0, lo |-> c.a], c.n)
    [] c.op = "read_datafifo"  -> ReadDataFifo(c.n)
    [] c.op = "send_pulse"     -> SendPulse(c.v)

(* What the request asks of the board.                                     *)
Meant(c) ==
  /\ conf' = IF c.op = "write_register" THEN [conf EXCEPT ![32 + c.a] = c.v % W16] ELSE conf
  /\ cells' = IF c.op = "write_memory"
              THEN [i \in Cells |-> IF i - c.a + 1 \in DOMAIN c.v THEN c.v[i - c.a + 1] ELSE cells[i]]
              ELSE cells
  /\ words' = IF c.op = "read_datafifo" THEN words + c.n + 1 ELSE words

Return == pc' = "returned" /\ UNCHANGED <<todo, call>>

Send ==
  /\ pc = "returned" /\ todo # <<>> /\ todo' = Tail(todo)
  /\ call' = Head(todo) /\ resp' = <<>> /\ Meant(Head(todo))
  /\ \/ /\ ~closed /\ cmds' = cmds \o CommandsOf(Head(todo))
        /\ pc' = IF Head(todo).expect = 0 THEN "returned" ELSE "select"
     \/ /\ closed /\ UNCHANGED cmds /\ pc' = "returned"     \* send fails: -1
  /\ UNCHANGED <<net, closed, board>>

EnoughOne(n) ==      \* mutant of Enough: any answer will do
  n > 0 /\ call.expect # NoLength
Enough(n) == n >= call.expect /\ call.expect > 0

AppendReadOver(n) == SubSeq(net, 1, n)    \* mutant of AppendRead: to the start of respStr
AppendRead(n) == resp \o SubSeq(net, 1, n)

Read ==
  /\ pc = "select" /\ net # <<>>
  /\ \E n \in 1 .. Len(net) :
       /\ resp' = AppendRead(n) /\ net' = SubSeq(net, n + 1, Len(net))
       /\ IF Enough(Len(resp')) THEN Return ELSE UNCHANGED <<todo, pc, call>>
  /\ UNCHANGED <<cmds, closed, board, meant>>

ReadClosedAgain ==      \* mutant of ReadClosed: end of file is not the end
  /\ pc = "select" /\ net = <<>> /\ closed /\ UNCHANGED vars
ReadClosed ==
  /\ pc = "select" /\ net = <<>> /\ closed
  /\ Return /\ UNCHANGED <<resp, cmds, net, closed, board, meant>>

(* Half a second is enough for the board (HostAcquire has late answers).   *)
Timeout ==
  /\ pc = "select" /\ net = <<>> /\ cmds = <<>> /\ ~closed
  /\ Return /\ UNCHANGED <<resp, cmds, net, closed, board, meant>>
-----------------------------------------------------------------------------
(* The interpreter: bit 31 is READ/NOT_WRITE, bits 27 to 16 the address.   *)
IsRead(c) == c.hi >= 32768
Addr(c)   == c.hi % 4096
Reply(v)  == <<0, v>>
Reg(a) == CASE a \in Regs -> config[a] [] a \in 0 .. 10 -> Status(a) [] a = 16 -> memCnt
            [] a = 17 -> addr [] a = 18 -> 0 [] OTHER -> W16 - 1
Burst(ws) ==
  [i \in 1 .. 2 * Len(ws) |-> LET w == ws[(i + 1) \div 2] IN IF i % 2 = 1 THEN w.hi ELSE w.lo]
MemOut(i) == mem[(addr + i - 1) % 8]

ReadCommand(c) ==
  /\ IsRead(c)
  /\ IF Addr(c) = 20
     THEN net' = net \o Burst([i \in 1 .. memCnt |-> MemOut(i)]) /\ addr' = addr + memCnt
     ELSE net' = net \o Reply(Reg(Addr(c))) /\ UNCHANGED addr
  /\ UNCHANGED <<config, memCnt, din, mem, taken>>

FifoOut(i) == DataWord(taken + i)
WriteCommand(c) ==
  /\ ~IsRead(c)
  /\ config' = IF Addr(c) \in Regs THEN [config EXCEPT ![Addr(c)] = c.lo] ELSE config
  /\ memCnt' = IF Addr(c) = 16 THEN c.lo ELSE memCnt
  /\ addr' = CASE Addr(c) = 17 -> c.lo [] Addr(c) = 20 -> addr + 1 [] OTHER -> addr
  /\ din' = IF Addr(c) = 19 THEN c.lo ELSE din
  /\ mem' = IF Addr(c) = 20 THEN [mem EXCEPT ![addr % 8] = [hi |-> c.lo, lo |-> din]] ELSE mem
  /\ taken' = IF Addr(c) = 25 THEN taken + c.lo + 1 ELSE taken
  /\ net' = IF Addr(c) = 25 THEN net \o Burst([i \in 1 .. c.lo + 1 |-> FifoOut(i)]) ELSE net

Execute ==
  /\ cmds # <<>> /\ cmds' = Tail(cmds)
  /\ ReadCommand(Head(cmds)) \/ WriteCommand(Head(cmds))
  /\ UNCHANGED <<program, closed, meant>>

Close ==
  /\ MayClose /\ ~closed /\ closed' = TRUE /\ cmds' = <<>>
  /\ \E n \in 0 .. Len(net) : net' = SubSeq(net, 1, n)
  /\ UNCHANGED <<program, board, meant>>

Next == Send \/ Read \/ ReadClosed \/ Timeout \/ Execute \/ Close

(* The program and the board run on.  A connection need not be lost.       *)
Spec == /\ Init /\ [][Next]_vars
        /\ WF_vars(Send) /\ WF_vars(Read) /\ WF_vars(ReadClosed) /\ WF_vars(Timeout) /\ WF_vars(Execute)
-----------------------------------------------------------------------------
TypeOK ==
  /\ pc \in {"returned", "select"} /\ closed \in BOOLEAN
  /\ config \in [Regs -> 0 .. W16 - 1] /\ mem \in [Cells -> Word]
  /\ Range(resp) \cup Range(net) \subseteq 0 .. W16 - 1
  /\ {memCnt, addr, din} \subseteq 0 .. W16 - 1

(* The answer to a request, by what was asked of the board before.         *)
CellOut(i)  == cells[call.a + i - 1]
LastWord(i) == DataWord(words - call.n - 1 + i)
Expected ==
  CASE call.op = "read_register" -> <<0, conf[32 + call.a]>>
    [] call.op = "read_status"   -> <<0, Status(call.a)>>
    [] call.op = "read_memory"   -> Burst([i \in 1 .. call.n |-> CellOut(i)])
    [] call.op = "read_datafifo" -> Burst([i \in 1 .. call.n + 1 |-> LastWord(i)])
    [] OTHER -> <<>>

(* What query_response returns is the whole answer to its own request:     *)
(* the command words that the encoders make mean to the interpreter what   *)
(* their arguments say, and the lengths that the programs expect are those *)
(* of the answers, so that nothing is left in the stream for the next.     *)
AnswerRight == pc = "returned" /\ ~closed => resp = Expected

(* A lost connection cuts an answer short but never mixes two.             *)
AnswerPrefix ==
  call.op # "none" => Len(resp) <= Len(Expected) /\ resp = SubSeq(Expected, 1, Len(resp))

AllAsked == todo = <<>> /\ pc = "returned"
=============================================================================
