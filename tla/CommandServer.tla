---------------------------- MODULE CommandServer ----------------------------
(***************************************************************************)
(* What control_interface.vhd promises to the PC (the address map in lines *)
(* 8-39): commands take effect one at a time and in order, and every reply *)
(* reaches the PC once and in order.  No clock, no strobes, no full flags. *)
(***************************************************************************)
EXTENDS Integers, Sequences

CONSTANTS W, Commands, DataWords, InitMem

Half == 0 .. W - 1
Word == [hi : Half, lo : Half]
ConfigAddr == 32 .. 63
StatusAddr == 0 .. 10
ZeroWord == [hi |-> 0, lo |-> 0]

VARIABLES
  cmds,     \* commands sent and not yet executed
  replies,  \* replies produced and not yet received
  source,   \* words waiting in the data FIFO
  config, memCnt, addr, din, store,
  job       \* the words that the present command has yet to produce

regs == <<config, memCnt, addr, din>>
vars == <<cmds, replies, source, regs, store, job>>

Idle == [kind |-> "idle", left |-> 0]
Job(kind, n) == IF n = 0 THEN Idle ELSE [kind |-> kind, left |-> n]

Next32(a) == IF a.lo < W - 1 THEN [a EXCEPT !.lo = @ + 1]
             ELSE [hi |-> IF a.hi < W - 1 THEN a.hi + 1 ELSE 0, lo |-> 0]

Init ==
  /\ cmds = <<>> /\ replies = <<>> /\ source = <<>>
  /\ config = [a \in ConfigAddr |-> 0]
  /\ memCnt = 1 /\ addr = ZeroWord /\ din = 0
  /\ store = InitMem
  /\ job = Idle

Take == job = Idle /\ cmds # <<>> /\ cmds' = Tail(cmds)

ReadReg ==
  LET c == Head(cmds) IN
  /\ Take /\ c.rd /\ c.addr # 20
  /\ \E v \in Half :
       /\ c.addr \in ConfigAddr => v = config[c.addr]
       /\ c.addr = 16 => v = memCnt
       /\ c.addr = 17 => v = addr.lo
       /\ c.addr = 18 => v = addr.hi
       /\ c.addr \in ConfigAddr \cup StatusAddr \cup {16, 17, 18} \/ v = W - 1
       /\ replies' = Append(replies, [hi |-> 0, lo |-> v])
  /\ UNCHANGED <<source, regs, store, job>>

(* A read of address 20: memCnt words from addr upwards, the first at once. *)
ReadMem ==
  /\ Take /\ Head(cmds).rd /\ Head(cmds).addr = 20
  /\ IF memCnt = 0
     THEN UNCHANGED <<replies, addr, job>>
     ELSE /\ replies' = Append(replies, store[addr.lo])
          /\ addr' = Next32(addr)
          /\ job' = Job("mem", memCnt - 1)
  /\ UNCHANGED <<source, config, memCnt, din, store>>

MemWord ==
  /\ job.kind = "mem"
  /\ replies' = Append(replies, store[addr.lo])
  /\ addr' = Next32(addr)
  /\ job' = Job("mem", job.left - 1)
  /\ UNCHANGED <<cmds, source, config, memCnt, din, store>>

(* A write to a register; pulses leave no trace here. *)
WriteReg ==
  LET c == Head(cmds) IN
  /\ Take /\ ~c.rd /\ c.addr \notin {20, 25}
  /\ config' = IF c.addr \in ConfigAddr THEN [config EXCEPT ![c.addr] = c.data] ELSE config
  /\ memCnt' = IF c.addr = 16 THEN c.data ELSE memCnt
  /\ addr' = [hi |-> IF c.addr = 18 THEN c.data ELSE addr.hi,
              lo |-> IF c.addr = 17 THEN c.data ELSE addr.lo]
  /\ din' = IF c.addr = 19 THEN c.data ELSE din
  /\ UNCHANGED <<replies, source, store, job>>

(* A write to address 20: the word goes to memory and the address advances. *)
WriteMem ==
  LET c == Head(cmds) IN
  /\ Take /\ ~c.rd /\ c.addr = 20
  /\ store' = [store EXCEPT ![addr.lo] = [hi |-> c.data, lo |-> din]]
  /\ addr' = Next32(addr)
  /\ UNCHANGED <<replies, source, config, memCnt, din, job>>

(* A write of n to address 25: n + 1 words of the data FIFO. *)
ReadFifo ==
  LET c == Head(cmds) IN
  /\ Take /\ ~c.rd /\ c.addr = 25
  /\ job' = Job("fifo", c.data + 1)
  /\ UNCHANGED <<replies, source, regs, store>>

FifoWord ==
  /\ job.kind = "fifo" /\ source # <<>>
  /\ replies' = Append(replies, Head(source))
  /\ source' = Tail(source)
  /\ job' = Job("fifo", job.left - 1)
  /\ UNCHANGED <<cmds, regs, store>>

Send == \E c \in Commands : cmds' = Append(cmds, c) /\ UNCHANGED <<replies, source, regs, store, job>>
Receive == replies # <<>> /\ replies' = Tail(replies) /\ UNCHANGED <<cmds, source, regs, store, job>>
Arrive == \E w \in DataWords : source' = Append(source, w) /\ UNCHANGED <<cmds, replies, regs, store, job>>
Clear == job = Idle /\ source' = <<>> /\ UNCHANGED <<cmds, replies, regs, store, job>>

Restart ==
  /\ cmds' = <<>> /\ replies' = <<>> /\ source' = <<>>
  /\ config' = [a \in ConfigAddr |-> 0]
  /\ memCnt' = 1 /\ addr' = ZeroWord /\ din' = 0
  /\ job' = Idle
  /\ UNCHANGED store

Next == ReadReg \/ ReadMem \/ MemWord \/ WriteReg \/ WriteMem \/ ReadFifo \/ FifoWord
        \/ Send \/ Receive \/ Arrive \/ Clear \/ Restart

Spec == Init /\ [][Next]_vars
=============================================================================
