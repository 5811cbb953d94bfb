-------------------------- MODULE ControlInterface --------------------------
(***************************************************************************)
(* control_interface.vhd: the command interpreter.  The PC writes 32-bit   *)
(* command words into the command FIFO; the interpreter executes them one  *)
(* by one on its registers, on a 32-bit memory port and on the data FIFO,  *)
(* and writes 32-bit replies into the control FIFO, which drains to the    *)
(* PC.                                                                     *)
(*                                                                         *)
(* One action of the interpreter is one rising edge of CLK in one state of *)
(* cmdIF_inst.  Its registered outputs act on the FIFOs and the memory at  *)
(* the following edge, so every action contains Edge, the concurrent       *)
(* statements and the other clocked parts of the architecture.             *)
(*                                                                         *)
(* A 16-bit value is a member of Half and a 32-bit value is a pair of      *)
(* halves; W is 2^16 in the code.                                          *)
(***************************************************************************)
EXTENDS Integers, Sequences

CONSTANTS
  W,          \* number of values of a 16-bit register
  FifoDepth,  \* capacity of the control FIFO (fifo36x512)
  CmdDepth,   \* capacity of the command FIFO (fifo8to32)
  DataDepth,  \* capacity of the data FIFO (fifo128to32)
  Commands,   \* the command words that the PC sends
  DataWords,  \* the words that arrive in the data FIFO
  InitMem,    \* contents of the memory at power-up
  Flow,       \* TRUE: the PC bounds the replies it has outstanding
  MaxOwed     \* bound: replies the PC may have outstanding at all

Half == 0 .. W - 1
Word == [hi : Half, lo : Half]

(* CMD_FIFO_Q(31), (27:16), (15:0) *)
CmdWord == [rd : BOOLEAN, addr : 0 .. 4095, data : Half]

ConfigAddr == 32 .. 63
StatusAddr == 0 .. 10

ASSUME WAssumption == W \in Nat /\ W >= 3
ASSUME DepthAssumption ==
  /\ FifoDepth \in Nat \ {0}
  /\ CmdDepth \in Nat \ {0}
  /\ DataDepth \in Nat \ {0}
  /\ MaxOwed \in Nat
ASSUME CommandsAssumption == Commands \subseteq CmdWord
ASSUME DataWordsAssumption == DataWords \subseteq Word
(* The memory decodes the low half of its address. *)
ASSUME InitMemAssumption == InitMem \in [Half -> Word]
ASSUME FlowAssumption == Flow \in BOOLEAN

VARIABLES
  cmdState, counterV, counterFIFO,             \* the process
  CMD_FIFO_RDREQ, sFifoWrreq, sWea, sRegOut,   \* its one-clock outputs
  bMemNotReg,                                  \* selects the control FIFO's input
  sConfigReg, sPulseReg, sDinReg, sMemioCnt, sAddrA,  \* its registers
  sDinAHi,                                     \* sDinA(31 DOWNTO 16)
  cmdFifo, cmdHold,   \* command FIFO: its words; its output after the last word
  ctlFifo,            \* control FIFO, to the PC
  dataFifo,           \* data FIFO, from the SDRAM buffer
  mem, MEM_DOUT,      \* the memory at the memory port and its output register
  owed, hostCnt,      \* the PC: replies it still expects; the memory count it last sent
  pulseAge            \* history: edges of CLK that have seen the present pulse, at most 3

procVars  == <<cmdState, counterV, counterFIFO>>
strobes   == <<CMD_FIFO_RDREQ, sFifoWrreq, sWea, sRegOut>>
addrRegs  == <<sAddrA, sMemioCnt, sDinReg>>
registers == <<sConfigReg, sPulseReg, sDinReg, sMemioCnt, sAddrA>>
fifos     == <<cmdFifo, cmdHold, ctlFifo, dataFifo>>
memory    == <<mem, MEM_DOUT, sDinAHi>>
host      == <<owed, hostCnt>>
device    == <<procVars, strobes, bMemNotReg, registers, memory>>
vars      == <<device, fifos, host, pulseAge>>

States == {"INIT", "WAIT_CMD", "INTERPRET_CMD", "MEM_ADV", "MEM_RD_CNT",
           "PULSE_DELAY", "FIFO_ADV"}

ZeroWord == [hi |-> 0, lo |-> 0]
ZeroCmd == [rd |-> FALSE, addr |-> 0, data |-> 0]

(* Mutant of Incr: no carry into the high half. *)
IncrNoCarry(a) == [a EXCEPT !.lo = (@ + 1) % W]

(* unsigned increment of a 32-bit word *)
Incr(a) == IF a.lo < W - 1 THEN [a EXCEPT !.lo = @ + 1]
           ELSE [hi |-> IF a.hi < W - 1 THEN a.hi + 1 ELSE 0, lo |-> 0]

(* Mutants of Decr: it stands still; it wraps one too early. *)
DecrStuck(n) == n
DecrLate(n) == IF n <= 1 THEN W - 1 ELSE n - 1

(* counterV is a 16-bit counter once built: 0 - 1 is 65535. *)
Decr(n) == IF n = 0 THEN W - 1 ELSE n - 1

Init ==
  /\ cmdState = "INIT" /\ counterV = 0 /\ counterFIFO = 0
  /\ CMD_FIFO_RDREQ = FALSE /\ sFifoWrreq = FALSE /\ sWea = FALSE /\ sRegOut = 0
  /\ bMemNotReg = "SEL_REG"
  /\ sConfigReg = [a \in ConfigAddr |-> 0]
  /\ sPulseReg = 0 /\ sDinReg = 0 /\ sMemioCnt = 0 /\ sAddrA = ZeroWord
  /\ sDinAHi = 0
  /\ cmdFifo = <<>> /\ cmdHold = ZeroCmd /\ ctlFifo = <<>> /\ dataFifo = <<>>
  /\ mem = InitMem /\ MEM_DOUT = ZeroWord
  /\ owed = 0 /\ hostCnt = 1
  /\ pulseAge = 0
-----------------------------------------------------------------------------
(* First-word-fall-through output of the command FIFO; an empty FIFO keeps *)
(* showing its last word.                                                  *)
CMD_FIFO_Q == IF cmdFifo # <<>> THEN Head(cmdFifo) ELSE cmdHold

sFifoFull == Len(ctlFifo) = FifoDepth
DATA_FIFO_EMPTY == dataFifo = <<>>

(* Mutants of sFifoWren and DATA_FIFO_RDREQ: the write mux is left out; the  *)
(* data FIFO is read although there is no room for its word.                *)
sFifoWrenNoMux == sFifoWrreq
DATA_FIFO_RDREQ_always == bMemNotReg = "SEL_FIFO"

sFifoD == CASE bMemNotReg = "SEL_MEM"  -> MEM_DOUT
            [] bMemNotReg = "SEL_FIFO" -> Head(dataFifo)
            [] OTHER                   -> [hi |-> 0, lo |-> sRegOut]

sFifoWren == IF bMemNotReg = "SEL_FIFO" THEN ~DATA_FIFO_EMPTY ELSE sFifoWrreq

DATA_FIFO_RDREQ == bMemNotReg = "SEL_FIFO" /\ ~sFifoFull

(* The FIFOs ignore a write while full and a read while empty.  The        *)
(* control FIFO shows full until RESET is over.                            *)
ControlFifoWrite ==
  ctlFifo' = IF sFifoWren /\ ~sFifoFull /\ cmdState # "INIT"
             THEN Append(ctlFifo, sFifoD) ELSE ctlFifo

DataFifoRead ==
  dataFifo' = IF DATA_FIFO_RDREQ /\ ~DATA_FIFO_EMPTY
              THEN Tail(dataFifo) ELSE dataFifo

CommandFifoRead ==
  IF CMD_FIFO_RDREQ /\ cmdFifo # <<>>
  THEN cmdFifo' = Tail(cmdFifo) /\ cmdHold' = Head(cmdFifo)
  ELSE UNCHANGED <<cmdFifo, cmdHold>>

(* Mutant of MemoryPort: the two halves of the written word change places. *)
MemoryPortSwapped ==
  /\ mem' = IF sWea THEN [mem EXCEPT ![sAddrA.lo] = [hi |-> sDinReg, lo |-> sDinAHi]]
            ELSE mem
  /\ MEM_DOUT' = mem[sAddrA.lo]

(* A synchronous memory: its output shows the word addressed at the edge. *)
MemoryPort ==
  /\ mem' = IF sWea THEN [mem EXCEPT ![sAddrA.lo] = [hi |-> sDinAHi, lo |-> sDinReg]]
            ELSE mem
  /\ MEM_DOUT' = mem[sAddrA.lo]

Edge ==
  /\ ControlFifoWrite
  /\ DataFifoRead
  /\ CommandFifoRead
  /\ MemoryPort
  /\ sDinAHi' = CMD_FIFO_Q.data
  /\ pulseAge' = CASE sPulseReg = 0 -> 0
                   [] sPulseReg # 0 /\ pulseAge < 3 -> pulseAge + 1
                   [] OTHER -> pulseAge
  /\ UNCHANGED host

(* The defaults of the process, and the outputs that an action sets. *)
Strobe(rdreq, wrreq, wea, out) ==
  /\ CMD_FIFO_RDREQ' = rdreq
  /\ sFifoWrreq' = wrreq
  /\ sWea' = wea
  /\ sRegOut' = out

NoStrobe == Strobe(FALSE, FALSE, FALSE, 0)
-----------------------------------------------------------------------------
InitRegisters ==
  /\ cmdState = "INIT" /\ cmdState' = "WAIT_CMD"
  /\ sConfigReg' = [a \in ConfigAddr |-> 0]
  /\ sPulseReg' = 0
  /\ sAddrA' = ZeroWord
  /\ sMemioCnt' = 1
  /\ NoStrobe /\ Edge
  /\ UNCHANGED <<counterV, counterFIFO, bMemNotReg, sDinReg>>

WaitCmd ==
  /\ cmdState = "WAIT_CMD"
  /\ bMemNotReg' = "SEL_REG"
  /\ sPulseReg' = 0
  /\ cmdState' = IF cmdFifo # <<>> THEN "INTERPRET_CMD" ELSE "WAIT_CMD"
  /\ Strobe(cmdFifo # <<>>, FALSE, FALSE, 0) /\ Edge
  /\ UNCHANGED <<counterV, counterFIFO, sConfigReg, addrRegs>>

(* Mutants of RegValue: all ones one bit too wide; zeros for no register. *)
RegValueWide(a, status) == IF a \in ConfigAddr THEN sConfigReg[a] ELSE W
RegValueZeros(a, status) ==
  CASE a \in ConfigAddr -> sConfigReg[a] [] a \in StatusAddr -> status [] OTHER -> 0

(* What a read of a register returns; an address with no register reads    *)
(* all ones.                                                               *)
RegValue(a, status) ==
  CASE a \in ConfigAddr -> sConfigReg[a]
    [] a \in StatusAddr -> status
    [] a = 16 -> sMemioCnt
    [] a = 17 -> sAddrA.lo
    [] a = 18 -> sAddrA.hi
    [] OTHER -> W - 1

ReadRegister ==
  /\ cmdState = "INTERPRET_CMD" /\ cmdState' = "WAIT_CMD"
  /\ CMD_FIFO_Q.rd /\ CMD_FIFO_Q.addr # 20
  /\ \E status \in Half : Strobe(FALSE, TRUE, FALSE, RegValue(CMD_FIFO_Q.addr, status))
  /\ Edge
  /\ UNCHANGED <<counterV, counterFIFO, bMemNotReg, registers>>

(* Starts a read of sMemioCnt memory words.  While the control FIFO is     *)
(* full the state stays INTERPRET_CMD.                                     *)
ReadMemory ==
  /\ cmdState = "INTERPRET_CMD"
  /\ CMD_FIFO_Q.rd /\ CMD_FIFO_Q.addr = 20
  /\ counterV' = sMemioCnt
  /\ bMemNotReg' = "SEL_MEM"
  /\ IF sFifoFull
     THEN NoStrobe /\ UNCHANGED <<cmdState, sAddrA>>
     ELSE /\ Strobe(FALSE, TRUE, FALSE, 0)
          /\ sAddrA' = Incr(sAddrA)
          /\ cmdState' = "MEM_RD_CNT"
  /\ Edge
  /\ UNCHANGED <<counterFIFO, sConfigReg, sPulseReg, sDinReg, sMemioCnt>>

(* The writes that only set a register, and writes to no register. *)
WriteRegister ==
  LET a == CMD_FIFO_Q.addr
      d == CMD_FIFO_Q.data IN
  /\ cmdState = "INTERPRET_CMD" /\ cmdState' = "WAIT_CMD"
  /\ ~CMD_FIFO_Q.rd /\ a \notin {11, 20, 25}
  /\ sConfigReg' = IF a \in ConfigAddr THEN [sConfigReg EXCEPT ![a] = d] ELSE sConfigReg
  /\ sMemioCnt' = IF a = 16 THEN d ELSE sMemioCnt
  /\ sAddrA' = CASE a = 17 -> [sAddrA EXCEPT !.lo = d]
                 [] a = 18 -> [sAddrA EXCEPT !.hi = d]
                 [] OTHER  -> sAddrA
  /\ sDinReg' = IF a = 19 THEN d ELSE sDinReg
  /\ NoStrobe /\ Edge
  /\ UNCHANGED <<counterV, counterFIFO, bMemNotReg, sPulseReg>>

WritePulse ==
  /\ cmdState = "INTERPRET_CMD" /\ cmdState' = "PULSE_DELAY"
  /\ ~CMD_FIFO_Q.rd /\ CMD_FIFO_Q.addr = 11
  /\ sPulseReg' = CMD_FIFO_Q.data
  /\ counterV' = 2
  /\ NoStrobe /\ Edge
  /\ UNCHANGED <<counterFIFO, bMemNotReg, sConfigReg, addrRegs>>

(* Raises the write enable for one clock. *)
WriteMemory ==
  /\ cmdState = "INTERPRET_CMD" /\ cmdState' = "MEM_ADV"
  /\ ~CMD_FIFO_Q.rd /\ CMD_FIFO_Q.addr = 20
  /\ Strobe(FALSE, FALSE, TRUE, 0) /\ Edge
  /\ UNCHANGED <<counterV, counterFIFO, bMemNotReg, registers>>

StartFifoRead ==
  /\ cmdState = "INTERPRET_CMD" /\ cmdState' = "FIFO_ADV"
  /\ ~CMD_FIFO_Q.rd /\ CMD_FIFO_Q.addr = 25
  /\ counterFIFO' = CMD_FIFO_Q.data
  /\ bMemNotReg' = "SEL_FIFO"
  /\ NoStrobe /\ Edge
  /\ UNCHANGED <<counterV, registers>>

(* Mutant of MemAdv: no way back. *)
MemAdvStays ==
  /\ cmdState = "MEM_ADV" /\ UNCHANGED cmdState
  /\ sAddrA' = Incr(sAddrA)
  /\ NoStrobe /\ Edge
  /\ UNCHANGED <<counterV, counterFIFO, bMemNotReg, sConfigReg, sPulseReg, sDinReg, sMemioCnt>>

MemAdv ==
  /\ cmdState = "MEM_ADV" /\ cmdState' = "WAIT_CMD"
  /\ sAddrA' = Incr(sAddrA)
  /\ NoStrobe /\ Edge
  /\ UNCHANGED <<counterV, counterFIFO, bMemNotReg, sConfigReg, sPulseReg, sDinReg, sMemioCnt>>

MemReadDone ==
  /\ cmdState = "MEM_RD_CNT" /\ cmdState' = "WAIT_CMD"
  /\ Decr(counterV) = 0 /\ counterV' = 0
  /\ NoStrobe /\ Edge
  /\ UNCHANGED <<counterFIFO, bMemNotReg, registers>>

(* One more memory word, or a wait for the control FIFO. *)
MemReadNext ==
  /\ cmdState = "MEM_RD_CNT" /\ UNCHANGED cmdState
  /\ Decr(counterV) # 0
  /\ IF sFifoFull
     THEN NoStrobe /\ UNCHANGED <<counterV, sAddrA>>
     ELSE /\ Strobe(FALSE, TRUE, FALSE, 0)
          /\ counterV' = Decr(counterV)
          /\ sAddrA' = Incr(sAddrA)
  /\ Edge
  /\ UNCHANGED <<counterFIFO, bMemNotReg, sConfigReg, sPulseReg, sDinReg, sMemioCnt>>

(* Mutant of PulseDelay: it tests the counter before it counts. *)
PulseDelayLate ==
  /\ cmdState = "PULSE_DELAY"
  /\ counterV' = Decr(counterV)
  /\ cmdState' = IF counterV = 0 THEN "WAIT_CMD" ELSE "PULSE_DELAY"
  /\ NoStrobe /\ Edge
  /\ UNCHANGED <<counterFIFO, bMemNotReg, registers>>

PulseDelay ==
  /\ cmdState = "PULSE_DELAY"
  /\ counterV' = Decr(counterV)
  /\ cmdState' = IF Decr(counterV) = 0 THEN "WAIT_CMD" ELSE "PULSE_DELAY"
  /\ NoStrobe /\ Edge
  /\ UNCHANGED <<counterFIFO, bMemNotReg, registers>>

(* The data FIFO streams into the control FIFO; a word moves at every edge *)
(* at which there is one to move and room for it.                          *)
FifoAdv ==
  LET moved == ~DATA_FIFO_EMPTY /\ ~sFifoFull
      last  == moved /\ counterFIFO = 0 IN
  /\ cmdState = "FIFO_ADV"
  /\ cmdState' = IF last THEN "WAIT_CMD" ELSE "FIFO_ADV"
  /\ bMemNotReg' = IF last THEN "SEL_REG" ELSE "SEL_FIFO"
  /\ counterFIFO' = IF moved /\ ~last THEN counterFIFO - 1 ELSE counterFIFO
  /\ NoStrobe /\ Edge
  /\ UNCHANGED <<counterV, registers>>

Interpret ==
  \/ ReadRegister \/ ReadMemory
  \/ WriteRegister \/ WritePulse \/ WriteMemory \/ StartFifoRead

Tick ==
  \/ InitRegisters \/ WaitCmd \/ Interpret \/ MemAdv
  \/ MemReadDone \/ MemReadNext \/ PulseDelay \/ FifoAdv

(* Asynchronous RESET, shared by every FIFO.  The one-clock outputs other  *)
(* than CMD_FIFO_RDREQ and sWea keep their values.  The PC, which gets no  *)
(* more answers, gives up what it expected and starts again.               *)
Reset ==
  /\ cmdState' = "INIT" /\ counterV' = 0
  /\ CMD_FIFO_RDREQ' = FALSE /\ sWea' = FALSE
  /\ bMemNotReg' = "SEL_REG"
  /\ sConfigReg' = [a \in ConfigAddr |-> 0]
  /\ sPulseReg' = 0 /\ sDinReg' = 0 /\ sMemioCnt' = 0 /\ sAddrA' = ZeroWord
  /\ cmdFifo' = <<>> /\ cmdHold' = ZeroCmd /\ ctlFifo' = <<>> /\ dataFifo' = <<>>
  /\ owed' = 0 /\ hostCnt' = 1
  /\ pulseAge' = 0
  /\ UNCHANGED <<counterFIFO, sFifoWrreq, sRegOut, memory>>
-----------------------------------------------------------------------------
(* The PC, and the two ends of the FIFOs it does not see. *)

(* How many replies the PC expects of a command. *)
Replies(c, cnt) ==
  CASE c.rd /\ c.addr = 20  -> cnt
    [] c.rd /\ c.addr # 20  -> 1
    [] ~c.rd /\ c.addr = 25 -> c.data + 1
    [] OTHER                -> 0

(* With Flow the PC sends a command only when the control FIFO can hold    *)
(* all the replies then outstanding; a data FIFO read, which waits for     *)
(* room, may ask for more when nothing else is outstanding.                *)
HostSend(c) ==
  LET n == Replies(c, hostCnt) IN
  /\ Len(cmdFifo) < CmdDepth
  /\ owed + n <= MaxOwed
  /\ Flow => n = 0 \/ owed + n <= FifoDepth \/ (owed = 0 /\ ~c.rd)
  /\ cmdFifo' = Append(cmdFifo, c)
  /\ owed' = owed + n
  /\ hostCnt' = IF ~c.rd /\ c.addr = 16 THEN c.data ELSE hostCnt
  /\ UNCHANGED <<device, cmdHold, ctlFifo, dataFifo, pulseAge>>

HostReceive ==
  /\ ctlFifo # <<>>
  /\ ctlFifo' = Tail(ctlFifo)
  /\ owed' = owed - 1
  /\ UNCHANGED <<device, cmdFifo, cmdHold, dataFifo, hostCnt, pulseAge>>

DataArrive(w) ==
  /\ Len(dataFifo) < DataDepth
  /\ dataFifo' = Append(dataFifo, w)
  /\ UNCHANGED <<device, cmdFifo, cmdHold, ctlFifo, host, pulseAge>>

(* PULSE_REG(2) resets the data FIFO (top.vhd 1046, 1068). *)
DataClear ==
  /\ sPulseReg # 0
  /\ dataFifo' = <<>>
  /\ UNCHANGED <<device, cmdFifo, cmdHold, ctlFifo, host, pulseAge>>

Supply == \E w \in DataWords : DataArrive(w)

Next ==
  \/ Tick \/ Reset
  \/ \E c \in Commands : HostSend(c)
  \/ HostReceive
  \/ Supply \/ DataClear

(* CLK runs freely, the PC reads what arrives, and the SDRAM buffer goes   *)
(* on supplying the data FIFO.                                             *)
Fairness == WF_vars(Tick) /\ WF_vars(HostReceive) /\ WF_vars(Supply)

Spec == Init /\ [][Next]_vars /\ Fairness
-----------------------------------------------------------------------------
TypeOK ==
  /\ cmdState \in States
  /\ counterV \in Half /\ counterFIFO \in Half
  /\ CMD_FIFO_RDREQ \in BOOLEAN /\ sFifoWrreq \in BOOLEAN /\ sWea \in BOOLEAN
  /\ sRegOut \in Half
  /\ bMemNotReg \in {"SEL_REG", "SEL_MEM", "SEL_FIFO"}
  /\ sConfigReg \in [ConfigAddr -> Half]
  /\ sPulseReg \in Half /\ sDinReg \in Half /\ sMemioCnt \in Half
  /\ sAddrA \in Word
  /\ sDinAHi \in Half
  /\ cmdFifo \in Seq(CmdWord) /\ Len(cmdFifo) <= CmdDepth
  /\ cmdHold \in CmdWord
  /\ ctlFifo \in Seq(Word) /\ Len(ctlFifo) <= FifoDepth
  /\ dataFifo \in Seq(Word) /\ Len(dataFifo) <= DataDepth
  /\ mem \in [Half -> Word] /\ MEM_DOUT \in Word
  /\ owed \in Int /\ hostCnt \in Half
  /\ pulseAge \in 0 .. 3

(* A pulse is three clocks wide (control_interface.vhd 14-15): only the    *)
(* third edge that sees PULSE_REG high clears it, unless RESET does, and   *)
(* its bits do not change meanwhile.                                       *)
PulseThreeClocks ==
  [][sPulseReg # 0 /\ sPulseReg' # sPulseReg /\ cmdState' # "INIT"
       => sPulseReg' = 0 /\ pulseAge = 2]_vars

(* A reply that the interpreter strobes into the control FIFO is never     *)
(* written while the FIFO is full, where it would be lost (lines 241-296,  *)
(* 353-368: the strobe follows its test of sFifoFull by one clock).        *)
NoReplyLost ==
  sFifoWrreq /\ bMemNotReg # "SEL_FIFO" /\ cmdState # "INIT" => ~sFifoFull

(* The same of memory words alone: a memory read waits for room (comments  *)
(* in lines 353 and 365) and repeats until all its words are in the FIFO   *)
(* (lines 30-33).                                                          *)
MemWordNotLost == sFifoWrreq /\ bMemNotReg = "SEL_MEM" => ~sFifoFull

(* The interpreter always comes back for the next command, however full or *)
(* empty the FIFOs are meanwhile.                                          *)
BackToWait == []<>(cmdState = "WAIT_CMD")

(* A PC that expects a reply gets one, unless a reset made it give up.     *)
ReplyComes == owed > 0 ~> ctlFifo # <<>> \/ owed = 0
=============================================================================
