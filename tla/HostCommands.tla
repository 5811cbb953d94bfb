---------------------------- MODULE HostCommands -----------------------------
(***************************************************************************)
(* command.c: the commands that a PC program sends to the board.  A        *)
(* command is 32 bits, kept as its high and low half; what is sent is its  *)
(* bytes in network order, of which the board gets back the halves.        *)
(***************************************************************************)
EXTENDS Integers, Sequences

W16 == 65536
ReadBit == 32768                 \* bit 31 of a command
Half(hi, lo) == 256 * hi + lo    \* 16 bits of two bytes

CommandUnmasked(hi, lo) == [hi |-> hi, lo |-> lo]    \* mutant of Command: without 0xffff &
Command(hi, lo) == [hi |-> hi % W16, lo |-> lo % W16]

ReadStatus(addr)         == <<Command(ReadBit + addr, 0)>>
SendPulse(mask)          == <<Command(11, mask)>>
WriteRegister(addr, val) == <<Command(32 + addr, val)>>
ReadRegister(addr)       == <<Command(ReadBit + 32 + addr, 0)>>
ReadDataFifo(n)          == <<Command(25, n)>>

(* addr and the words of aval are halves too.                              *)
WriteMemorySwapped(addr, aval) ==    \* mutant of WriteMemory: data MSB before LSB
  <<Command(17, addr.lo), Command(18, addr.hi)>>
  \o [i \in 1 .. 2 * Len(aval) |-> LET w == aval[(i + 1) \div 2] IN
        IF i % 2 = 1 THEN Command(20, w.hi) ELSE Command(19, w.lo)]
WriteMemory(addr, aval) ==
  <<Command(17, addr.lo), Command(18, addr.hi)>>
  \o [i \in 1 .. 2 * Len(aval) |-> LET w == aval[(i + 1) \div 2] IN
        IF i % 2 = 1 THEN Command(19, w.lo) ELSE Command(20, w.hi)]

ReadMemory(addr, n) ==
  <<Command(17, addr.lo), Command(18, addr.hi), Command(16, n), Command(ReadBit + 20, 0)>>
=============================================================================
