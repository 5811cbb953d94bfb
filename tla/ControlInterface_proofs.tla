----------------------- MODULE ControlInterface_proofs -----------------------
(***************************************************************************)
(* Proofs about ControlInterface, for every register width, FIFO depth,    *)
(* command set and memory contents.                                        *)
(*                                                                         *)
(* TypeOK is inductive as it stands.  PulseThreeClocks needs the invariant *)
(* PulseWindow, which ties the number of edges that have seen a pulse to   *)
(* the state of the interpreter and to its counter.                        *)
(*                                                                         *)
(* That no reply is lost, and that the interpreter implements              *)
(* CommandServer, are proved of a PC that bounds what it has outstanding   *)
(* and never sets the memory count to zero (CarefulHost): after a count of *)
(* zero a memory read answers with counterV's 65536 words, and without the *)
(* bound a strobe meets a full FIFO.  Their invariant CInv adds which      *)
(* output is set in which state (Control), what memory count each queued   *)
(* command will find (Counts) and that only a data FIFO read may have more *)
(* replies outstanding than the FIFO holds (OnlyStreamOverflows).          *)
(***************************************************************************)
EXTENDS MCControlInterface, FiniteSetTheorems, TLAPS

(* The part of TypeOK about what Edge assigns, and the part about what the *)
(* actions assign themselves.                                              *)
QueuesTyped ==
  /\ sDinAHi \in Half
  /\ cmdFifo \in Seq(CmdWord) /\ Len(cmdFifo) <= CmdDepth
  /\ cmdHold \in CmdWord
  /\ ctlFifo \in Seq(Word) /\ Len(ctlFifo) <= FifoDepth
  /\ dataFifo \in Seq(Word) /\ Len(dataFifo) <= DataDepth
  /\ mem \in [Half -> Word] /\ MEM_DOUT \in Word
  /\ owed \in Int /\ hostCnt \in Half
  /\ pulseAge \in 0 .. 3

ProcessTyped ==
  /\ cmdState \in States
  /\ counterV \in Half /\ counterFIFO \in Half
  /\ sRegOut \in Half
  /\ bMemNotReg \in {"SEL_REG", "SEL_MEM", "SEL_FIFO"}
  /\ sConfigReg \in [ConfigAddr -> Half]
  /\ sPulseReg \in Half /\ sDinReg \in Half /\ sMemioCnt \in Half
  /\ sAddrA \in Word

StrobesTyped == CMD_FIFO_RDREQ \in BOOLEAN /\ sFifoWrreq \in BOOLEAN /\ sWea \in BOOLEAN

(* TypeOK is the conjunction of its three parts. *)
LEMMA TypeParts == TypeOK <=> QueuesTyped /\ ProcessTyped /\ StrobesTyped
  BY DEF TypeOK, QueuesTyped, ProcessTyped, StrobesTyped

(* The small numbers of the code are values of a 16-bit register. *)
LEMMA HalfFacts ==
  /\ 0 \in Half /\ 1 \in Half /\ 2 \in Half /\ W - 1 \in Half
  /\ ZeroWord \in Word /\ ZeroCmd \in CmdWord
  /\ [a \in ConfigAddr |-> 0] \in [ConfigAddr -> Half]
  BY WAssumption DEF Half, Word, ZeroWord, CmdWord, ZeroCmd

(* Counting stays within the width of the counters. *)
LEMMA CountersInRange ==
  /\ \A n \in Half : Decr(n) \in Half
  /\ \A a \in Word : Incr(a) \in Word
<1>1. \A n \in Half : Decr(n) \in Half
  BY WAssumption DEF Half, Decr
<1>2. ASSUME NEW a \in Word PROVE Incr(a) \in Word
  <2>1. CASE a.lo < W - 1
    BY <2>1, WAssumption DEF Half, Word, Incr
  <2>2. CASE ~(a.lo < W - 1)
    BY <2>2, WAssumption DEF Half, Word, Incr
  <2> QED BY <2>1, <2>2
<1> QED BY <1>1, <1>2

(* The word at the command FIFO's output is a command word. *)
LEMMA FrontTyped == TypeOK => CMD_FIFO_Q \in CmdWord
  BY DEF TypeOK, CMD_FIFO_Q

(* Its fields. *)
LEMMA FrontFields ==
  TypeOK => CMD_FIFO_Q.data \in Half /\ CMD_FIFO_Q.addr \in 0 .. 4095 /\ CMD_FIFO_Q.rd \in BOOLEAN
BY FrontTyped DEF CmdWord

(* A command owes at most W replies. *)
LEMMA RepliesInRange ==
  ASSUME NEW c \in CmdWord, NEW v \in Half
  PROVE  Replies(c, v) \in 0 .. W
<1>1. c.rd \in BOOLEAN /\ c.addr \in 0 .. 4095 /\ c.data \in 0 .. W - 1 /\ v \in 0 .. W - 1
  BY DEF CmdWord, Half
<1> QED BY <1>1, WAssumption, SMTT(30) DEF Replies

(* A FIFO's contents after a read. *)
LEMMA TailTyped ==
  ASSUME NEW S, NEW s \in Seq(S), s # <<>>
  PROVE  /\ Head(s) \in S
         /\ Tail(s) \in Seq(S)
         /\ Len(Tail(s)) = Len(s) - 1
         /\ Len(s) \in Nat
  OBVIOUS

(* A FIFO's contents after a write. *)
LEMMA AppendTyped ==
  ASSUME NEW S, NEW s \in Seq(S), NEW x \in S
  PROVE  /\ Append(s, x) \in Seq(S)
         /\ Len(Append(s, x)) = Len(s) + 1
         /\ Len(s) \in Nat
  OBVIOUS

(* What the FIFOs and the memory do at an edge keeps their types and their *)
(* depths.                                                                 *)
LEMMA EdgeTyped == TypeOK /\ Edge => QueuesTyped'
<1> SUFFICES ASSUME TypeOK, Edge PROVE QueuesTyped'
  OBVIOUS
<1>1. sDinAHi' \in Half
  BY FrontTyped DEF Edge, CmdWord
<1>2. ctlFifo' \in Seq(Word) /\ Len(ctlFifo') <= FifoDepth
  <2>1. CASE sFifoWren /\ ~sFifoFull /\ cmdState # "INIT"
    <3>1. sFifoD \in Word
      <4>1. CASE bMemNotReg = "SEL_REG"
        BY <4>1, HalfFacts DEF TypeOK, sFifoD, Word
      <4>2. CASE bMemNotReg = "SEL_MEM"
        BY <4>2 DEF TypeOK, sFifoD
      <4>3. CASE bMemNotReg = "SEL_FIFO"
        <5>1. dataFifo # <<>>
          BY <2>1, <4>3 DEF sFifoWren, DATA_FIFO_EMPTY
        <5> QED BY <4>3, <5>1, TailTyped DEF TypeOK, sFifoD
      <4> QED BY <4>1, <4>2, <4>3 DEF TypeOK
    <3>2. ctlFifo' = Append(ctlFifo, sFifoD)
      BY <2>1 DEF Edge, ControlFifoWrite
    <3>3. Len(ctlFifo) < FifoDepth
      BY <2>1, DepthAssumption DEF TypeOK, sFifoFull
    <3> QED BY <3>1, <3>2, <3>3, AppendTyped, DepthAssumption DEF TypeOK
  <2>2. CASE ~(sFifoWren /\ ~sFifoFull /\ cmdState # "INIT")
    BY <2>2 DEF Edge, ControlFifoWrite, TypeOK
  <2> QED BY <2>1, <2>2
<1>3. dataFifo' \in Seq(Word) /\ Len(dataFifo') <= DataDepth
  <2>1. CASE DATA_FIFO_RDREQ /\ ~DATA_FIFO_EMPTY
    <3>1. dataFifo # <<>> /\ dataFifo' = Tail(dataFifo)
      BY <2>1 DEF Edge, DataFifoRead, DATA_FIFO_EMPTY
    <3> QED BY <3>1, TailTyped, DepthAssumption DEF TypeOK
  <2>2. CASE ~(DATA_FIFO_RDREQ /\ ~DATA_FIFO_EMPTY)
    BY <2>2 DEF Edge, DataFifoRead, TypeOK
  <2> QED BY <2>1, <2>2
<1>4. cmdFifo' \in Seq(CmdWord) /\ Len(cmdFifo') <= CmdDepth /\ cmdHold' \in CmdWord
  <2>1. CASE CMD_FIFO_RDREQ /\ cmdFifo # <<>>
    <3>1. cmdFifo' = Tail(cmdFifo) /\ cmdHold' = Head(cmdFifo)
      BY <2>1 DEF Edge, CommandFifoRead
    <3> QED BY <2>1, <3>1, TailTyped, DepthAssumption DEF TypeOK
  <2>2. CASE ~(CMD_FIFO_RDREQ /\ cmdFifo # <<>>)
    BY <2>2 DEF Edge, CommandFifoRead, TypeOK
  <2> QED BY <2>1, <2>2
<1>5. mem' \in [Half -> Word] /\ MEM_DOUT' \in Word
  <2>1. sAddrA.lo \in Half /\ [hi |-> sDinAHi, lo |-> sDinReg] \in Word
    BY DEF TypeOK, Word
  <2> QED BY <2>1 DEF Edge, MemoryPort, TypeOK
<1>6. pulseAge' \in 0 .. 3 /\ owed' \in Int /\ hostCnt' \in Half
  BY DEF Edge, host, TypeOK
<1> QED BY <1>1, <1>2, <1>3, <1>4, <1>5, <1>6 DEF QueuesTyped

LEMMA InitTypeOK == Init => TypeOK
<1> SUFFICES ASSUME Init PROVE TypeOK
  OBVIOUS
<1>1. ProcessTyped
  BY HalfFacts DEF Init, ProcessTyped, States
<1>2. QueuesTyped
  BY HalfFacts, InitMemAssumption, DepthAssumption DEF Init, QueuesTyped
<1>3. StrobesTyped
  BY Zenon DEF Init, StrobesTyped
<1> QED BY <1>1, <1>2, <1>3, TypeParts

(* Writing a register keeps the process typed. *)
LEMMA WriteRegisterTyped ==
  ASSUME WriteRegister, ProcessTyped, CMD_FIFO_Q.data \in Half
  PROVE  ProcessTyped'
<1> DEFINE d == CMD_FIFO_Q.data
<1>1. cmdState' \in States /\ sRegOut' \in Half
  BY HalfFacts, Zenon DEF WriteRegister, NoStrobe, Strobe, States
<1>2. UNCHANGED <<counterV, counterFIFO, bMemNotReg, sPulseReg>>
  BY Zenon DEF WriteRegister
<1>3. sConfigReg' = sConfigReg \/ \E a \in ConfigAddr : sConfigReg' = [sConfigReg EXCEPT ![a] = d]
  BY Zenon DEF WriteRegister
<1>4. sConfigReg' \in [ConfigAddr -> Half]
  BY <1>3 DEF ProcessTyped
<1>5. sMemioCnt' \in Half /\ sDinReg' \in Half
  BY Zenon DEF WriteRegister, ProcessTyped
<1>6. sAddrA' \in {sAddrA, [sAddrA EXCEPT !.lo = d], [sAddrA EXCEPT !.hi = d]}
  BY Zenon DEF WriteRegister
<1>7. sAddrA' \in Word
  BY <1>6 DEF ProcessTyped, Word
<1> QED BY <1>1, <1>2, <1>4, <1>5, <1>7, Zenon DEF ProcessTyped

(* A step keeps every variable within its type. *)
LEMMA StepTypeOK == TypeOK /\ [Next]_vars => TypeOK'
<1> SUFFICES ASSUME TypeOK, [Next]_vars PROVE TypeOK'
  OBVIOUS
<1> USE HalfFacts
<1>t. QueuesTyped /\ ProcessTyped /\ StrobesTyped
  BY TypeParts
<1>q. QueuesTyped' /\ ProcessTyped' /\ StrobesTyped' => TypeOK'
  BY Zenon DEF TypeOK, QueuesTyped, ProcessTyped, StrobesTyped
<1>c. CMD_FIFO_Q.data \in Half /\ CMD_FIFO_Q.addr \in 0 .. 4095 /\ CMD_FIFO_Q.rd \in BOOLEAN
  BY FrontFields, Zenon
<1>1. CASE InitRegisters
  <2>1. ProcessTyped'
    BY <1>1, <1>t, SMTT(30) DEF InitRegisters, NoStrobe, Strobe, ProcessTyped, States
  <2>2. StrobesTyped'
    BY <1>1, Zenon DEF InitRegisters, NoStrobe, Strobe, StrobesTyped
  <2> QED BY <1>1, <2>1, <2>2, EdgeTyped, <1>q DEF InitRegisters
<1>2. CASE WaitCmd
  <2>1. ProcessTyped'
    BY <1>2, <1>t DEF WaitCmd, Strobe, ProcessTyped, States, addrRegs
  <2>2. StrobesTyped'
    BY <1>2, Zenon DEF WaitCmd, Strobe, StrobesTyped
  <2> QED BY <1>2, <2>1, <2>2, EdgeTyped, <1>q DEF WaitCmd
<1>3. CASE ReadRegister
  <2>1. PICK status \in Half : Strobe(FALSE, TRUE, FALSE, RegValue(CMD_FIFO_Q.addr, status))
    BY <1>3 DEF ReadRegister
  <2>2. RegValue(CMD_FIFO_Q.addr, status) \in Half
    <3> DEFINE a == CMD_FIFO_Q.addr
    <3>1. CASE a \in ConfigAddr
      BY <3>1, <1>t DEF RegValue, ProcessTyped, ConfigAddr, StatusAddr
    <3>2. CASE a \notin ConfigAddr
      BY <3>2, <1>t DEF RegValue, ProcessTyped, ConfigAddr, StatusAddr, Word
    <3> QED BY <3>1, <3>2
  <2>3. ProcessTyped'
    BY <1>3, <1>t, <2>1, <2>2 DEF ReadRegister, Strobe, ProcessTyped, States, registers
  <2>4. StrobesTyped'
    BY <2>1, Zenon DEF Strobe, StrobesTyped
  <2> QED BY <1>3, <2>3, <2>4, EdgeTyped, <1>q DEF ReadRegister
<1>4. CASE ReadMemory
  <2>1. ProcessTyped'
    <3>1. CASE sFifoFull
      BY <1>4, <1>t, <3>1 DEF ReadMemory, NoStrobe, Strobe, ProcessTyped, States
    <3>2. CASE ~sFifoFull
      BY <1>4, <1>t, <3>2, CountersInRange DEF ReadMemory, Strobe, ProcessTyped, States
    <3> QED BY <3>1, <3>2
  <2>2. StrobesTyped'
    BY <1>4, Zenon DEF ReadMemory, NoStrobe, Strobe, StrobesTyped
  <2> QED BY <1>4, <2>1, <2>2, EdgeTyped, <1>q DEF ReadMemory
<1>5. CASE WriteRegister
  <2>1. ProcessTyped'
    BY <1>5, <1>t, <1>c, WriteRegisterTyped
  <2>2. StrobesTyped'
    BY <1>5, Zenon DEF WriteRegister, NoStrobe, Strobe, StrobesTyped
  <2> QED BY <1>5, <2>1, <2>2, EdgeTyped, <1>q DEF WriteRegister
<1>6. CASE WritePulse
  <2>1. ProcessTyped'
    BY <1>6, <1>t, <1>c DEF WritePulse, NoStrobe, Strobe, ProcessTyped, States, addrRegs
  <2>2. StrobesTyped'
    BY <1>6, Zenon DEF WritePulse, NoStrobe, Strobe, StrobesTyped
  <2> QED BY <1>6, <2>1, <2>2, EdgeTyped, <1>q DEF WritePulse
<1>7. CASE WriteMemory
  <2>1. ProcessTyped'
    BY <1>7, <1>t DEF WriteMemory, Strobe, ProcessTyped, States, registers
  <2>2. StrobesTyped'
    BY <1>7, Zenon DEF WriteMemory, Strobe, StrobesTyped
  <2> QED BY <1>7, <2>1, <2>2, EdgeTyped, <1>q DEF WriteMemory
<1>8. CASE StartFifoRead
  <2>1. ProcessTyped'
    BY <1>8, <1>t, <1>c DEF StartFifoRead, NoStrobe, Strobe, ProcessTyped, States, registers
  <2>2. StrobesTyped'
    BY <1>8, Zenon DEF StartFifoRead, NoStrobe, Strobe, StrobesTyped
  <2> QED BY <1>8, <2>1, <2>2, EdgeTyped, <1>q DEF StartFifoRead
<1>9. CASE MemAdv
  <2>1. ProcessTyped'
    BY <1>9, <1>t, CountersInRange DEF MemAdv, NoStrobe, Strobe, ProcessTyped, States
  <2>2. StrobesTyped'
    BY <1>9, Zenon DEF MemAdv, NoStrobe, Strobe, StrobesTyped
  <2> QED BY <1>9, <2>1, <2>2, EdgeTyped, <1>q DEF MemAdv
<1>10. CASE MemReadDone
  <2>1. ProcessTyped'
    BY <1>10, <1>t DEF MemReadDone, NoStrobe, Strobe, ProcessTyped, States, registers
  <2>2. StrobesTyped'
    BY <1>10, Zenon DEF MemReadDone, NoStrobe, Strobe, StrobesTyped
  <2> QED BY <1>10, <2>1, <2>2, EdgeTyped, <1>q DEF MemReadDone
<1>11. CASE MemReadNext
  <2>1. ProcessTyped'
    <3>1. CASE sFifoFull
      BY <1>11, <1>t, <3>1 DEF MemReadNext, NoStrobe, Strobe, ProcessTyped, States
    <3>2. CASE ~sFifoFull
      BY <1>11, <1>t, <3>2, CountersInRange DEF MemReadNext, Strobe, ProcessTyped, States
    <3> QED BY <3>1, <3>2
  <2>2. StrobesTyped'
    BY <1>11, Zenon DEF MemReadNext, NoStrobe, Strobe, StrobesTyped
  <2> QED BY <1>11, <2>1, <2>2, EdgeTyped, <1>q DEF MemReadNext
<1>12. CASE PulseDelay
  <2>1. ProcessTyped'
    BY <1>12, <1>t, CountersInRange
    DEF PulseDelay, NoStrobe, Strobe, ProcessTyped, States, registers
  <2>2. StrobesTyped'
    BY <1>12, Zenon DEF PulseDelay, NoStrobe, Strobe, StrobesTyped
  <2> QED BY <1>12, <2>1, <2>2, EdgeTyped, <1>q DEF PulseDelay
<1>13. CASE FifoAdv
  <2>1. counterFIFO # 0 => counterFIFO - 1 \in Half
    BY <1>t DEF ProcessTyped, Half
  <2>2. ProcessTyped'
    BY <1>13, <1>t, <2>1 DEF FifoAdv, NoStrobe, Strobe, ProcessTyped, States, registers
  <2>3. StrobesTyped'
    BY <1>13, Zenon DEF FifoAdv, NoStrobe, Strobe, StrobesTyped
  <2> QED BY <1>13, <2>2, <2>3, EdgeTyped, <1>q DEF FifoAdv
<1>14. CASE Reset
  <2>1. ProcessTyped'
    BY <1>14, <1>t DEF Reset, ProcessTyped, States
  <2>2. QueuesTyped'
    BY <1>14, <1>t, DepthAssumption DEF Reset, QueuesTyped, memory
  <2>3. StrobesTyped'
    BY <1>14, <1>t, Zenon DEF Reset, StrobesTyped
  <2> QED BY <2>1, <2>2, <2>3, <1>q
<1>p. ASSUME UNCHANGED device PROVE ProcessTyped' /\ StrobesTyped' /\ UNCHANGED <<sDinAHi, mem, MEM_DOUT>>
  <2>1. UNCHANGED <<sDinAHi, mem, MEM_DOUT>>
    BY <1>p DEF device, memory
  <2>2. ProcessTyped'
    BY <1>p, <1>t DEF device, procVars, strobes, registers, ProcessTyped
  <2>3. StrobesTyped'
    BY <1>p, <1>t DEF device, strobes, StrobesTyped
  <2> QED BY <2>1, <2>2, <2>3
<1>15. CASE \E c \in Commands : HostSend(c)
  <2>1. PICK c \in Commands : HostSend(c)
    BY <1>15
  <2>2. c \in CmdWord
    BY CommandsAssumption
  <2>3. Replies(c, hostCnt) \in Int
    <3>1. hostCnt \in Half
      BY <1>t, Zenon DEF QueuesTyped
    <3>2. Replies(c, hostCnt) \in 0 .. W
      BY <2>2, <3>1, RepliesInRange, Zenon
    <3> QED BY <3>2, SMT
  <2>4. cmdFifo' \in Seq(CmdWord) /\ Len(cmdFifo') <= CmdDepth
    BY <1>t, <2>1, <2>2, AppendTyped, DepthAssumption DEF HostSend, QueuesTyped
  <2>5. owed' \in Int /\ hostCnt' \in Half
    <3>1. owed' = owed + Replies(c, hostCnt) /\ (hostCnt' = c.data \/ hostCnt' = hostCnt)
      BY <2>1 DEF HostSend
    <3>2. c.data \in Half
      BY <2>2 DEF CmdWord
    <3>3. owed \in Int /\ hostCnt \in Half
      BY <1>t DEF QueuesTyped
    <3>4. owed' \in Int
      BY <3>1, <3>3, <2>3
    <3> QED BY <3>1, <3>2, <3>3, <3>4
  <2>6. UNCHANGED <<device, cmdHold, ctlFifo, dataFifo, pulseAge>>
    BY <2>1 DEF HostSend
  <2>7. QueuesTyped'
    BY <1>t, <2>4, <2>5, <2>6, <1>p DEF QueuesTyped
  <2> QED BY <2>6, <2>7, <1>p, <1>q
<1>16. CASE HostReceive
  <2>1. ctlFifo' \in Seq(Word) /\ Len(ctlFifo') <= FifoDepth
    BY <1>16, <1>t, TailTyped, DepthAssumption DEF HostReceive, QueuesTyped
  <2>2. UNCHANGED <<device, cmdFifo, cmdHold, dataFifo, hostCnt, pulseAge>> /\ owed' = owed - 1
    BY <1>16 DEF HostReceive
  <2>3. QueuesTyped'
    BY <1>t, <2>1, <2>2, <1>p DEF QueuesTyped
  <2> QED BY <2>2, <2>3, <1>p, <1>q
<1>17. CASE Supply
  <2>1. PICK w \in DataWords : DataArrive(w)
    BY <1>17 DEF Supply
  <2>2. dataFifo' \in Seq(Word) /\ Len(dataFifo') <= DataDepth
    BY <1>t, <2>1, DataWordsAssumption, AppendTyped, DepthAssumption DEF DataArrive, QueuesTyped
  <2>3. UNCHANGED <<device, cmdFifo, cmdHold, ctlFifo, host, pulseAge>>
    BY <2>1 DEF DataArrive
  <2>4. QueuesTyped'
    BY <1>t, <2>2, <2>3, <1>p DEF QueuesTyped, host
  <2> QED BY <2>3, <2>4, <1>p, <1>q
<1>18. CASE DataClear
  <2>1. dataFifo' = <<>> /\ UNCHANGED <<device, cmdFifo, cmdHold, ctlFifo, host, pulseAge>>
    BY <1>18 DEF DataClear
  <2>2. QueuesTyped'
    BY <1>t, <2>1, <1>p, DepthAssumption DEF QueuesTyped, host
  <2> QED BY <2>1, <2>2, <1>p, <1>q
<1>19. CASE UNCHANGED vars
  <2>1. UNCHANGED device /\ UNCHANGED fifos /\ UNCHANGED host /\ UNCHANGED pulseAge
    BY <1>19 DEF vars
  <2>2. QueuesTyped'
    BY <1>t, <2>1, <1>p DEF QueuesTyped, host, fifos
  <2> QED BY <2>1, <2>2, <1>p, <1>q
<1> QED
  BY <1>1, <1>2, <1>3, <1>4, <1>5, <1>6, <1>7, <1>8, <1>9, <1>10, <1>11, <1>12,
     <1>13, <1>14, <1>15, <1>16, <1>17, <1>18, <1>19
  DEF Next, Tick, Interpret

(* Every register and counter stays within its width and every FIFO within *)
(* its depth (control_interface.vhd 103-143).                              *)
THEOREM TypeCorrect == Spec => []TypeOK
<1>1. Init => TypeOK
  BY InitTypeOK
<1>2. TypeOK /\ [Next]_vars => TypeOK'
  BY StepTypeOK
<1> QED BY <1>1, <1>2, PTL DEF Spec
-----------------------------------------------------------------------------
(* While a pulse is out, the interpreter is in PULSE_DELAY or just back in *)
(* WAIT_CMD, and counterV tells how many edges have seen the pulse.        *)
PulseWindow ==
  sPulseReg # 0 =>
    \/ cmdState = "PULSE_DELAY" /\ counterV = 2 /\ pulseAge = 0
    \/ cmdState = "PULSE_DELAY" /\ counterV = 1 /\ pulseAge = 1
    \/ cmdState = "WAIT_CMD" /\ pulseAge = 2

LEMMA InitPulseWindow == Init => PulseWindow
  BY DEF Init, PulseWindow

LEMMA StepPulseWindow == PulseWindow /\ [Next]_vars => PulseWindow'
<1> SUFFICES ASSUME PulseWindow, [Next]_vars PROVE PulseWindow'
  OBVIOUS
<1>e. Edge => pulseAge' = CASE sPulseReg = 0 -> 0
                        [] sPulseReg # 0 /\ pulseAge < 3 -> pulseAge + 1
                        [] OTHER -> pulseAge
  BY DEF Edge
<1>1. CASE InitRegisters \/ WaitCmd \/ Reset
  BY <1>1 DEF InitRegisters, WaitCmd, Reset, PulseWindow
<1>2. CASE ReadRegister \/ ReadMemory \/ WriteRegister \/ WriteMemory \/ StartFifoRead
  BY <1>2
  DEF ReadRegister, ReadMemory, WriteRegister, WriteMemory, StartFifoRead,
      registers, PulseWindow
<1>3. CASE WritePulse
  BY <1>3, <1>e DEF WritePulse, PulseWindow
<1>4. CASE PulseDelay
  BY <1>4, <1>e DEF PulseDelay, PulseWindow, Decr, registers
<1>5. CASE MemAdv \/ MemReadDone \/ MemReadNext \/ FifoAdv
  BY <1>5 DEF MemAdv, MemReadDone, MemReadNext, FifoAdv, registers, PulseWindow
<1>6. CASE (\E c \in Commands : HostSend(c)) \/ HostReceive \/ Supply \/ DataClear
           \/ UNCHANGED vars
  <2>1. UNCHANGED <<device, pulseAge>>
    BY <1>6 DEF HostSend, HostReceive, Supply, DataArrive, DataClear, vars
  <2> QED BY <2>1 DEF device, procVars, registers, PulseWindow
<1> QED BY <1>1, <1>2, <1>3, <1>4, <1>5, <1>6 DEF Next, Tick, Interpret

(* A step that changes a pulse is the third edge that sees it.             *)
LEMMA PulseEndsAtThird ==
  PulseWindow /\ [Next]_vars =>
    (sPulseReg # 0 /\ sPulseReg' # sPulseReg /\ cmdState' # "INIT"
       => sPulseReg' = 0 /\ pulseAge = 2)
<1> SUFFICES ASSUME PulseWindow, [Next]_vars,
                    sPulseReg # 0, sPulseReg' # sPulseReg, cmdState' # "INIT"
             PROVE  sPulseReg' = 0 /\ pulseAge = 2
  OBVIOUS
<1>1. CASE WaitCmd
  BY <1>1 DEF WaitCmd, PulseWindow
<1>2. CASE InitRegisters \/ WritePulse \/ Reset
  BY <1>2 DEF InitRegisters, WritePulse, Reset, PulseWindow
<1>3. CASE \/ ReadRegister \/ ReadMemory \/ WriteRegister \/ WriteMemory \/ StartFifoRead
           \/ MemAdv \/ MemReadDone \/ MemReadNext \/ PulseDelay \/ FifoAdv
  BY <1>3
  DEF ReadRegister, ReadMemory, WriteRegister, WriteMemory, StartFifoRead,
      MemAdv, MemReadDone, MemReadNext, PulseDelay, FifoAdv, registers
<1>4. CASE (\E c \in Commands : HostSend(c)) \/ HostReceive \/ Supply \/ DataClear
           \/ UNCHANGED vars
  BY <1>4 DEF HostSend, HostReceive, Supply, DataArrive, DataClear, vars, device, registers
<1> QED BY <1>1, <1>2, <1>3, <1>4 DEF Next, Tick, Interpret

(* Every pulse that a command writes to PULSE_REG is three clocks wide, or *)
(* cut short by RESET (control_interface.vhd 14-15, 306-309, 371-375).     *)
THEOREM PulseWidth == Spec => PulseThreeClocks
<1>1. Init => PulseWindow
  BY InitPulseWindow
<1>2. PulseWindow /\ [Next]_vars => PulseWindow'
  BY StepPulseWindow
<1>3. PulseWindow /\ [Next]_vars =>
        [sPulseReg # 0 /\ sPulseReg' # sPulseReg /\ cmdState' # "INIT"
           => sPulseReg' = 0 /\ pulseAge = 2]_vars
  BY PulseEndsAtThird
<1> QED BY <1>1, <1>2, <1>3, PTL DEF Spec, PulseThreeClocks
-----------------------------------------------------------------------------
(* The accounting of the replies.  Its queue is a set of pairs, so that    *)
(* its size follows from the theorems on finite sets.                      *)
LEMMA DueFinite ==
  ASSUME TypeOK
  PROVE  IsFiniteSet(Due) /\ Queued \in Nat
<1>1. Len(cmdFifo) \in Nat /\ W \in Nat
  BY WAssumption DEF TypeOK
<1>2. IsFiniteSet(1 .. Len(cmdFifo)) /\ IsFiniteSet(1 .. W)
  BY <1>1, FS_Interval
<1>3. IsFiniteSet((1 .. Len(cmdFifo)) \X (1 .. W))
  BY <1>2, FS_Product
<1>4. Due \in SUBSET ((1 .. Len(cmdFifo)) \X (1 .. W))
  BY DEF Due
<1>5. IsFiniteSet(Due)
  BY <1>3, <1>4, FS_Subset
<1> QED BY <1>5, FS_CardinalityType DEF Queued

LEMMA CountUnique ==
  ASSUME NEW k \in Nat, NEW v, NEW w, CountIs(k, v), CountIs(k, w)
  PROVE  v = w
<1>1. PICK i \in 0 .. k - 1 :
        /\ v = CountSet(i) /\ (i = 0 \/ WritesCount(i))
        /\ \A j \in i + 1 .. k - 1 : ~WritesCount(j)
  BY DEF CountIs
<1>2. PICK m \in 0 .. k - 1 :
        /\ w = CountSet(m) /\ (m = 0 \/ WritesCount(m))
        /\ \A j \in m + 1 .. k - 1 : ~WritesCount(j)
  BY DEF CountIs
<1>3. i = m
  <2>1. ~(i < m)
    <3> SUFFICES ASSUME i < m PROVE FALSE
      OBVIOUS
    <3>1. m \in i + 1 .. k - 1 /\ m # 0
      OBVIOUS
    <3> QED BY <3>1, <1>1, <1>2
  <2>2. ~(m < i)
    <3> SUFFICES ASSUME m < i PROVE FALSE
      OBVIOUS
    <3>1. i \in m + 1 .. k - 1 /\ i # 0
      OBVIOUS
    <3> QED BY <3>1, <1>1, <1>2
  <2> QED BY <2>1, <2>2
<1> QED BY <1>1, <1>2, <1>3

(* The pairs of one command are as many as its replies. *)
LEMMA PairsOfOne ==
  ASSUME NEW k \in Nat, NEW n \in Nat
  PROVE  /\ IsFiniteSet({k} \X (1 .. n))
         /\ Cardinality({k} \X (1 .. n)) = n
<1> DEFINE f == [j \in 1 .. n |-> <<k, j>>]
<1>1. f \in Bijection(1 .. n, {k} \X (1 .. n))
  BY DEF Bijection, Injection, Surjection, IsInjective
<1>2. ExistsBijection(1 .. n, {k} \X (1 .. n))
  BY <1>1 DEF ExistsBijection
<1>3. IsFiniteSet(1 .. n) /\ Cardinality(1 .. n) = n
  BY FS_Interval
<1> QED BY <1>2, <1>3, FS_Bijection

(* A command is appended: its replies are those that the PC counts. *)
LEMMA QueueGrows ==
  ASSUME TypeOK, NEW c \in CmdWord, cmdFifo' = Append(cmdFifo, c), CountNow' = CountNow,
         CountIs(Len(cmdFifo) + 1, hostCnt),
         hostCnt' = IF ~c.rd /\ c.addr = 16 THEN c.data ELSE hostCnt
  PROVE  /\ Queued' = Queued + Replies(c, hostCnt)
         /\ CountIs(Len(cmdFifo) + 1, hostCnt)'
         /\ \A k \in 1 .. Len(cmdFifo) + 1 : \A v : CountIs(k, v)' <=> CountIs(k, v)
<1>0. PICK L \in Nat : L = Len(cmdFifo)
  BY DEF TypeOK
<1> DEFINE n == Replies(c, hostCnt)
           New == {L + 1} \X (1 .. n)
<1>1. L \in Nat /\ Len(cmdFifo) = L /\ Len(cmdFifo') = L + 1 /\ cmdFifo'[L + 1] = c
      /\ (\A k \in 1 .. L : cmdFifo'[k] = cmdFifo[k]) /\ hostCnt \in Half
  BY <1>0 DEF TypeOK
<1>2. \A k \in 1 .. L : WritesCount(k)' <=> WritesCount(k)
  BY <1>1 DEF WritesCount
<1>3. \A i \in 0 .. L : CountSet(i)' = CountSet(i)
  BY <1>1 DEF CountSet
<1>4. \A k \in 1 .. L + 1 : \A v : CountIs(k, v)' <=> CountIs(k, v)
  <2> SUFFICES ASSUME NEW k \in 1 .. L + 1, NEW v PROVE CountIs(k, v)' <=> CountIs(k, v)
    OBVIOUS
  <2>1. \A i \in 0 .. k - 1 : i \in 0 .. L /\ (i # 0 => i \in 1 .. L)
    BY <1>1
  <2>2. \A i \in 0 .. k - 1 : \A j \in i + 1 .. k - 1 : j \in 1 .. L
    BY <1>1
  <2>3. \A i \in 0 .. k - 1 :
          ((i = 0 \/ WritesCount(i)') <=> (i = 0 \/ WritesCount(i)))
          /\ ((\A j \in i + 1 .. k - 1 : ~WritesCount(j)') <=> (\A j \in i + 1 .. k - 1 : ~WritesCount(j)))
    BY <1>2, <2>1, <2>2
  <2> QED BY <1>3, <2>1, <2>3 DEF CountIs
<1>5. n \in 0 .. W
  BY <1>1, RepliesInRange
<1>6. Due' = Due \cup New
  <2>1. ASSUME NEW p \in (1 .. L) \X (1 .. W) PROVE p \in Due' <=> p \in Due
    <3>1. p[1] \in 1 .. L /\ p \in (1 .. L + 1) \X (1 .. W) /\ p[1] \in 1 .. L + 1
      BY <1>1
    <3>2. cmdFifo'[p[1]] = cmdFifo[p[1]] /\ \A v : CountIs(p[1], v)' <=> CountIs(p[1], v)
      BY <3>1, <1>1, <1>4
    <3> QED BY <1>1, <3>1, <3>2 DEF Due, Replies
  <2>2. ASSUME NEW j \in 1 .. W PROVE <<L + 1, j>> \in Due' <=> j <= n
    <3>1. <<L + 1, j>> \in (1 .. L + 1) \X (1 .. W)
      BY <1>1
    <3>2. \A v : CountIs(L + 1, v)' <=> v = hostCnt
      BY <1>1, <1>4, CountUnique
    <3>3. <<L + 1, j>> \in Due' <=> \E v \in Half : CountIs(L + 1, v)' /\ j <= Replies(c, v)
      BY <1>1, <3>1 DEF Due, Replies
    <3> QED BY <1>1, <3>2, <3>3
  <2>3. Due \subseteq (1 .. L) \X (1 .. W) /\ Due' \subseteq (1 .. L + 1) \X (1 .. W)
    BY <1>1 DEF Due
  <2>4. ASSUME NEW p \in Due' PROVE p \in Due \cup New
    <3>1. PICK k \in 1 .. L + 1, j \in 1 .. W : p = <<k, j>>
      BY <2>3
    <3>2. CASE k = L + 1
      BY <1>1, <1>5, <2>2, <3>1, <3>2
    <3>3. CASE k # L + 1
      BY <1>1, <2>1, <3>1, <3>3
    <3> QED BY <3>2, <3>3
  <2>5. Due \subseteq Due'
    BY <2>1, <2>3
  <2>6. New \subseteq Due'
    <3> SUFFICES ASSUME NEW p \in New PROVE p \in Due'
      OBVIOUS
    <3>1. PICK j \in 1 .. n : p = <<L + 1, j>>
      OBVIOUS
    <3>2. j \in 1 .. W /\ j <= n
      BY <1>5, WAssumption
    <3> QED BY <2>2, <3>1, <3>2
  <2> QED BY <2>4, <2>5, <2>6
<1>7. Due \cap New = {}
  BY <1>1 DEF Due
<1>8. IsFiniteSet(New) /\ Cardinality(New) = n
  BY <1>1, <1>5, WAssumption, PairsOfOne
<1>9. Cardinality(Due') = Cardinality(Due) + Cardinality(New)
  <2>1. IsFiniteSet(Due) /\ Cardinality(Due) \in Nat
    BY DueFinite DEF Queued
  <2>2. Cardinality(Due \cup New) = Cardinality(Due) + Cardinality(New) - Cardinality(Due \cap New)
    BY <1>8, <2>1, FS_Union
  <2>3. Cardinality(Due \cap New) = 0
    BY <1>7, FS_EmptySet
  <2>4. Cardinality(New) \in Nat
    BY <1>5, <1>8, WAssumption
  <2> QED BY <1>6, <2>1, <2>2, <2>3, <2>4
<1>10. Queued' = Queued + n
  BY <1>8, <1>9, DueFinite, <1>5, WAssumption DEF Queued
<1>11. CountIs(L + 2, hostCnt)'
  <2>1. CASE ~c.rd /\ c.addr = 16
    <3>1. WritesCount(L + 1)' /\ CountSet(L + 1)' = c.data /\ hostCnt' = c.data
      BY <1>1, <2>1 DEF WritesCount, CountSet
    <3>2. L + 1 \in 0 .. (L + 2) - 1 /\ (L + 1) + 1 .. (L + 2) - 1 = {}
      BY <1>1
    <3> QED BY <3>1, <3>2 DEF CountIs
  <2>2. CASE ~(~c.rd /\ c.addr = 16)
    <3>1. ~WritesCount(L + 1)' /\ hostCnt' = hostCnt
      BY <1>1, <2>2 DEF WritesCount
    <3>2. CountIs(L + 1, hostCnt)'
      BY <1>1, <1>4, <3>1
    <3>3. PICK i \in 0 .. L : hostCnt' = CountSet(i)' /\ (i = 0 \/ WritesCount(i)')
                              /\ \A j \in i + 1 .. L : ~WritesCount(j)'
      <4>1. (L + 1) - 1 = L
        BY <1>1
      <4> QED BY <3>2, <4>1 DEF CountIs
    <3>4. i \in 0 .. (L + 2) - 1 /\ \A j \in i + 1 .. (L + 2) - 1 : j = L + 1 \/ j \in i + 1 .. L
      BY <1>1
    <3> QED BY <3>1, <3>3, <3>4 DEF CountIs
  <2> QED BY <2>1, <2>2
<1>12. Len(cmdFifo') + 1 = L + 2
  BY <1>1
<1> QED BY <1>1, <1>4, <1>10, <1>11, <1>12

(* The first command leaves the queue: what is due after it is the rest of *)
(* what was due, one place further up.                                     *)
LEMMA QueueShrinks ==
  ASSUME TypeOK, cmdFifo # <<>>, cmdFifo' = Tail(cmdFifo),
         CountNow \in Half,
         CountNow' = IF WritesCount(1) THEN cmdFifo[1].data ELSE CountNow
  PROVE  /\ Queued = Queued' + Replies(cmdFifo[1], CountNow)
         /\ hostCnt' = hostCnt /\ CountIs(Len(cmdFifo) + 1, hostCnt)
              => CountIs(Len(cmdFifo) + 1, hostCnt)'
         /\ \A k \in 1 .. Len(cmdFifo) : \A v : CountIs(k, v)' <=> CountIs(k + 1, v)
<1>0. PICK L \in Nat : L = Len(cmdFifo)
  BY DEF TypeOK
<1> DEFINE n == Replies(cmdFifo[1], CountNow)
           First == {1} \X (1 .. n)
           Rest == {p \in Due : p[1] # 1}
<1>1. /\ L \in Nat \ {0} /\ Len(cmdFifo) = L /\ Len(cmdFifo') = L - 1
      /\ \A k \in 1 .. L - 1 : cmdFifo'[k] = cmdFifo[k + 1]
      /\ cmdFifo[1] \in CmdWord
  BY <1>0 DEF TypeOK
<1>2. \A k \in 1 .. L - 1 : WritesCount(k)' <=> WritesCount(k + 1)
  BY <1>1 DEF WritesCount
<1>3. \A i \in 1 .. L - 1 : CountSet(i)' = CountSet(i + 1)
  BY <1>1 DEF CountSet
<1>4. \A k \in 1 .. L : \A v : CountIs(k, v)' <=> CountIs(k + 1, v)
  <2> SUFFICES ASSUME NEW k \in 1 .. L, NEW v PROVE CountIs(k, v)' <=> CountIs(k + 1, v)
    OBVIOUS
  <2>1. ASSUME CountIs(k, v)' PROVE CountIs(k + 1, v)
    <3>1. PICK i \in 0 .. k - 1 :
            /\ v = CountSet(i)' /\ (i = 0 \/ WritesCount(i)')
            /\ \A j \in i + 1 .. k - 1 : ~WritesCount(j)'
      BY <2>1 DEF CountIs
    <3>2. \A j \in i + 2 .. k : ~WritesCount(j)
      <4> SUFFICES ASSUME NEW j \in i + 2 .. k PROVE ~WritesCount(j)
        OBVIOUS
      <4>1. j - 1 \in i + 1 .. k - 1 /\ j - 1 \in 1 .. L - 1 /\ (j - 1) + 1 = j
        BY <1>1
      <4> QED BY <1>2, <3>1, <4>1
    <3>3. CASE i # 0
      <4>1. i \in 1 .. L - 1 /\ i + 1 \in 0 .. (k + 1) - 1 /\ (k + 1) - 1 = k /\ (i + 1) + 1 = i + 2
        BY <1>1, <3>3
      <4>2. v = CountSet(i + 1) /\ WritesCount(i + 1)
        BY <1>2, <1>3, <3>1, <3>3, <4>1
      <4> QED BY <3>2, <4>1, <4>2 DEF CountIs
    <3>4. CASE i = 0
      <4>1. v = CountNow'
        BY <3>1, <3>4 DEF CountSet
      <4>2. CASE WritesCount(1)
        <5>1. v = CountSet(1)
          BY <4>1, <4>2 DEF CountSet
        <5>2. 1 \in 0 .. (k + 1) - 1 /\ \A j \in 1 + 1 .. (k + 1) - 1 : j \in i + 2 .. k
          BY <3>4
        <5> QED BY <3>2, <4>2, <5>1, <5>2 DEF CountIs
      <4>3. CASE ~WritesCount(1)
        <5>1. v = CountSet(0)
          BY <4>1, <4>3 DEF CountSet
        <5>2. 0 \in 0 .. (k + 1) - 1 /\ \A j \in 0 + 1 .. (k + 1) - 1 : j = 1 \/ j \in i + 2 .. k
          BY <3>4
        <5> QED BY <3>2, <4>3, <5>1, <5>2 DEF CountIs
      <4> QED BY <4>2, <4>3
    <3> QED BY <3>3, <3>4
  <2>2. ASSUME CountIs(k + 1, v) PROVE CountIs(k, v)'
    <3>0. (k + 1) - 1 = k
      OBVIOUS
    <3>1. PICK i \in 0 .. k :
            /\ v = CountSet(i) /\ (i = 0 \/ WritesCount(i))
            /\ \A j \in i + 1 .. k : ~WritesCount(j)
      BY <2>2, <3>0 DEF CountIs
    <3>2. \A m \in 0 .. k - 1 : m + 1 >= i => \A j \in m + 1 .. k - 1 : ~WritesCount(j)'
      <4> SUFFICES ASSUME NEW m \in 0 .. k - 1, m + 1 >= i, NEW j \in m + 1 .. k - 1
                   PROVE  ~WritesCount(j)'
        OBVIOUS
      <4>1. j + 1 \in i + 1 .. k /\ j \in 1 .. L - 1
        BY <1>1
      <4> QED BY <1>2, <3>1, <4>1
    <3>3. CASE i >= 2
      <4>1. i - 1 \in 1 .. L - 1 /\ i - 1 \in 0 .. k - 1 /\ (i - 1) + 1 = i
        BY <1>1, <3>3
      <4>2. v = CountSet(i - 1)' /\ WritesCount(i - 1)'
        BY <1>2, <1>3, <3>1, <3>3, <4>1
      <4>3. \A j \in (i - 1) + 1 .. k - 1 : ~WritesCount(j)'
        BY <3>2, <4>1
      <4> QED BY <4>1, <4>2, <4>3 DEF CountIs
    <3>4. CASE i < 2
      <4>1. v = CountNow'
        <5>1. CASE i = 0
          <6>1. ~WritesCount(1)
            BY <3>1, <5>1
          <6> QED BY <3>1, <5>1, <6>1 DEF CountSet
        <5>2. CASE i = 1
          BY <3>1, <5>2 DEF CountSet
        <5> QED BY <3>4, <5>1, <5>2
      <4>2. v = CountSet(0)' /\ 0 \in 0 .. k - 1
        BY <4>1 DEF CountSet
      <4>3. \A j \in 0 + 1 .. k - 1 : ~WritesCount(j)'
        BY <3>2, <3>4, <4>2
      <4> QED BY <4>2, <4>3 DEF CountIs
    <3> QED BY <3>3, <3>4
  <2> QED BY <2>1, <2>2
<1>5. n \in 0 .. W
  BY <1>1, RepliesInRange
<1>6. \A v : CountIs(1, v) <=> v = CountNow
  BY DEF CountIs, CountSet
<1>7. Due = First \cup Rest /\ First \cap Rest = {}
  <2>1. ASSUME NEW j \in 1 .. W PROVE <<1, j>> \in Due <=> j <= n
    <3>1. <<1, j>> \in (1 .. L) \X (1 .. W)
      BY <1>1
    <3> QED BY <1>1, <1>6, <3>1 DEF Due
  <2>2. First \subseteq Due
    <3> SUFFICES ASSUME NEW p \in First PROVE p \in Due
      OBVIOUS
    <3>1. PICK j \in 1 .. n : p = <<1, j>>
      OBVIOUS
    <3>2. j \in 1 .. W /\ j <= n
      BY <1>5, WAssumption
    <3> QED BY <2>1, <3>1, <3>2
  <2>3. ASSUME NEW p \in Due, p[1] = 1 PROVE p \in First
    <3>1. PICK j \in 1 .. W : p = <<1, j>>
      BY <2>3 DEF Due
    <3>2. j \in 1 .. n
      BY <1>5, <2>1, <3>1, WAssumption
    <3> QED BY <3>1, <3>2
  <2> QED BY <2>2, <2>3
<1>8. IsFiniteSet(First) /\ Cardinality(First) = n
  <2>1. n \in Nat /\ 1 \in Nat
    BY <1>5, WAssumption
  <2> HIDE DEF n
  <2> QED BY <2>1, PairsOfOne
<1>9. IsFiniteSet(Rest) /\ Cardinality(Rest) \in Nat
  BY DueFinite, FS_Subset, FS_CardinalityType
<1>10. Cardinality(Due) = n + Cardinality(Rest)
  <2>1. Cardinality(First \cup Rest) = Cardinality(First) + Cardinality(Rest) - Cardinality(First \cap Rest)
    BY <1>8, <1>9, FS_Union
  <2>2. Cardinality(First \cap Rest) = 0
    BY <1>7, FS_EmptySet
  <2>3. n \in Nat
    BY <1>5, WAssumption
  <2> HIDE DEF n, First, Rest
  <2> QED BY <1>7, <1>8, <1>9, <2>1, <2>2, <2>3
<1>11. ExistsBijection(Rest, Due')
  <2> DEFINE f == [p \in Rest |-> <<p[1] - 1, p[2]>>]
  <2>1. \A k \in 2 .. L, j \in 1 .. W : <<k, j>> \in Due <=> <<k - 1, j>> \in Due'
    <3> SUFFICES ASSUME NEW k \in 2 .. L, NEW j \in 1 .. W
                 PROVE  <<k, j>> \in Due <=> <<k - 1, j>> \in Due'
      OBVIOUS
    <3>1. k - 1 \in 1 .. L - 1 /\ k - 1 \in 1 .. L /\ (k - 1) + 1 = k /\ k \in 1 .. L
      BY <1>1
    <3>2. cmdFifo'[k - 1] = cmdFifo[k] /\ \A v : CountIs(k - 1, v)' <=> CountIs(k, v)
      BY <1>1, <1>4, <3>1
    <3> QED BY <1>1, <3>1, <3>2 DEF Due, Replies
  <2>2. Rest \subseteq (2 .. L) \X (1 .. W) /\ Due' \subseteq (1 .. L - 1) \X (1 .. W)
    BY <1>1 DEF Due
  <2>3. \A p \in Rest : f[p] \in Due'
    <3> SUFFICES ASSUME NEW p \in Rest PROVE f[p] \in Due'
      OBVIOUS
    <3>1. PICK k \in 2 .. L, j \in 1 .. W : p = <<k, j>>
      BY <2>2
    <3> QED BY <2>1, <3>1
  <2>4. \A p, q \in Rest : f[p] = f[q] => p = q
    <3> SUFFICES ASSUME NEW p \in Rest, NEW q \in Rest, f[p] = f[q] PROVE p = q
      OBVIOUS
    <3>1. PICK k \in 2 .. L, j \in 1 .. W : p = <<k, j>>
      BY <2>2
    <3>2. PICK k2 \in 2 .. L, j2 \in 1 .. W : q = <<k2, j2>>
      BY <2>2
    <3>3. f[p] = <<k - 1, j>> /\ f[q] = <<k2 - 1, j2>>
      BY <3>1, <3>2
    <3> QED BY <3>1, <3>2, <3>3
  <2>5. \A q \in Due' : \E p \in Rest : f[p] = q
    <3> SUFFICES ASSUME NEW q \in Due' PROVE \E p \in Rest : f[p] = q
      OBVIOUS
    <3>1. PICK k \in 1 .. L - 1, j \in 1 .. W : q = <<k, j>>
      BY <2>2
    <3>2. k + 1 \in 2 .. L /\ (k + 1) - 1 = k
      BY <1>1
    <3>3. <<k + 1, j>> \in Rest
      BY <2>1, <3>1, <3>2
    <3>4. f[<<k + 1, j>>] = <<(k + 1) - 1, j>>
      BY <3>3
    <3> QED BY <3>1, <3>2, <3>3, <3>4
  <2> HIDE DEF Rest
  <2>6. f \in Bijection(Rest, Due')
    BY <2>3, <2>4, <2>5 DEF Bijection, Injection, Surjection, IsInjective
  <2> QED BY <2>6 DEF ExistsBijection
<1>12. Cardinality(Due') = Cardinality(Rest)
  BY <1>9, <1>11, FS_Bijection
<1>13. Queued = Queued' + n
  BY <1>5, <1>9, <1>10, <1>12, WAssumption DEF Queued
<1>14. ASSUME hostCnt' = hostCnt, CountIs(L + 1, hostCnt) PROVE CountIs(L, hostCnt)'
  BY <1>1, <1>4, <1>14
<1>15. Len(cmdFifo') + 1 = L /\ Len(cmdFifo) + 1 = L + 1
  BY <1>1
<1> QED BY <1>1, <1>4, <1>13, <1>14, <1>15

-----------------------------------------------------------------------------
(* The PC that the accounting is for: it bounds the replies it has         *)
(* outstanding, and never asks for zero words of the memory, a count that  *)
(* counterV, counting down from it, would take for W.                      *)
CarefulHost == Flow /\ \A c \in Commands : ~c.rd /\ c.addr = 16 => c.data # 0

(* The outputs of the process, by its state. *)
ReadStrobe == (CMD_FIFO_RDREQ <=> cmdState = "INTERPRET_CMD") /\ (CMD_FIFO_RDREQ => cmdFifo # <<>>)
ReplyStrobe == sFifoWrreq => cmdState \in {"INIT", "WAIT_CMD", "MEM_RD_CNT"}
WriteStrobe ==
  /\ sWea <=> cmdState = "MEM_ADV"
  /\ sWea => ~cmdHold.rd /\ cmdHold.addr = 20 /\ sDinAHi = cmdHold.data
Selected ==
  /\ bMemNotReg = "SEL_FIFO" <=> cmdState = "FIFO_ADV"
  /\ cmdState = "INTERPRET_CMD" => bMemNotReg = "SEL_REG"
MemReading ==
  cmdState = "MEM_RD_CNT" =>
    bMemNotReg = "SEL_MEM" /\ counterV >= 1 /\ (counterV = 1 => sFifoWrreq)
Starting ==
  cmdState = "INIT" => ctlFifo = <<>> /\ sConfigReg = [a \in ConfigAddr |-> 0] /\ sAddrA = ZeroWord
Control == ReadStrobe /\ ReplyStrobe /\ WriteStrobe /\ Selected /\ MemReading /\ Starting

(* The count that the PC knows is what the last queued command leaves. *)
Counts ==
  /\ \A k \in 1 .. Len(cmdFifo) : cmdFifo[k] \in Commands
  /\ CountNow >= 1 /\ hostCnt >= 1
  /\ CountIs(Len(cmdFifo) + 1, hostCnt)
  /\ \A k \in 1 .. Len(cmdFifo) : \E v \in Half \ {0} : CountIs(k, v)

(* More replies than fit are only outstanding for a data FIFO read, which  *)
(* waits for room; no other reply is then produced or asked for.           *)
OnlyStreamOverflows ==
  owed > FifoDepth =>
    /\ Strobed = 0 /\ cmdState # "MEM_RD_CNT"
    /\ \A k \in 1 .. Len(cmdFifo) : ~cmdFifo[k].rd

CInv ==
  TypeOK /\ PulseWindow /\ Control /\ Counts /\ OnlyStreamOverflows /\ ReplyAccounting

(* What CInv says in numbers. *)
LEMMA Numbers ==
  ASSUME CInv
  PROVE  /\ Len(ctlFifo) \in Nat /\ Len(ctlFifo) <= FifoDepth /\ FifoDepth \in Nat \ {0}
         /\ Strobed \in 0 .. 1 /\ InProgress \in Nat /\ Queued \in Nat /\ owed \in Nat
         /\ CountNow \in Half /\ CountNow >= 1
         /\ owed = Len(ctlFifo) + Strobed + InProgress + Queued
<1>1. Len(ctlFifo) \in Nat /\ Len(ctlFifo) <= FifoDepth /\ FifoDepth \in Nat \ {0}
  BY DepthAssumption DEF CInv, TypeOK
<1>2. Strobed \in 0 .. 1
  BY DEF Strobed
<1>3. counterV \in Nat /\ counterFIFO \in Nat
  BY WAssumption DEF CInv, TypeOK, Half
<1>4. InProgress \in Nat
  BY <1>3 DEF InProgress, CInv, Control, MemReading
<1>5. Queued \in Nat
  BY DueFinite DEF CInv
<1>6. CountNow \in Half /\ CountNow >= 1
  BY HalfFacts DEF CountNow, CInv, TypeOK, Counts
<1>7. owed = Len(ctlFifo) + Strobed + InProgress + Queued
  BY DEF CInv, ReplyAccounting
<1> QED BY <1>1, <1>2, <1>4, <1>5, <1>6, <1>7

(* A strobed reply finds room: those that wait in the control FIFO are     *)
(* outstanding too.                                                        *)
LEMMA RoomForReply == CInv => NoReplyLost
<1> SUFFICES ASSUME CInv, sFifoWrreq, cmdState # "INIT" PROVE Len(ctlFifo) # FifoDepth
  BY DEF NoReplyLost, sFifoFull
<1>1. Strobed = 1
  BY DEF Strobed
<1>2. owed <= FifoDepth
  BY <1>1, Numbers DEF CInv, OnlyStreamOverflows
<1> QED BY <1>1, <1>2, Numbers

(* The command in INTERPRET_CMD is the first of the queue, and leaves it.  *)
LEMMA ExecutesHead ==
  ASSUME CInv, cmdState = "INTERPRET_CMD", Edge, cmdState' # "INIT",
         sMemioCnt' = IF WritesCount(1) THEN cmdFifo[1].data ELSE sMemioCnt
  PROVE  /\ CMD_FIFO_Q = cmdFifo[1] /\ cmdFifo # <<>> /\ cmdFifo' = Tail(cmdFifo) /\ cmdHold' = cmdFifo[1]
         /\ cmdFifo[1] \in Commands /\ cmdFifo[1] \in CmdWord
         /\ Queued = Queued' + Replies(cmdFifo[1], sMemioCnt)
         /\ CountIs(Len(cmdFifo) + 1, hostCnt)' /\ CountNow = sMemioCnt
         /\ ctlFifo' = ctlFifo /\ owed' = owed /\ hostCnt' = hostCnt
         /\ Strobed = 0 /\ InProgress = 0
         /\ \A k \in 1 .. Len(cmdFifo') : k + 1 \in 1 .. Len(cmdFifo) /\ cmdFifo'[k] = cmdFifo[k + 1]
         /\ \A k \in 1 .. Len(cmdFifo') : \A v : CountIs(k, v)' <=> CountIs(k + 1, v)
<1>1. CMD_FIFO_RDREQ /\ cmdFifo # <<>> /\ ~sFifoWrreq /\ bMemNotReg # "SEL_FIFO"
  BY Zenon DEF CInv, Control, ReadStrobe, ReplyStrobe, Selected
<1>2. cmdFifo \in Seq(CmdWord)
  BY DEF CInv, TypeOK
<1>3. Head(cmdFifo) = cmdFifo[1] /\ 1 \in 1 .. Len(cmdFifo)
  BY <1>1, <1>2
<1>4. cmdFifo' = Tail(cmdFifo) /\ cmdHold' = cmdFifo[1] /\ CMD_FIFO_Q = cmdFifo[1]
  BY <1>1, <1>3 DEF Edge, CommandFifoRead, CMD_FIFO_Q
<1>5. CountNow = sMemioCnt /\ CountNow' = IF WritesCount(1) THEN cmdFifo[1].data ELSE CountNow
  BY DEF CountNow
<1>6. owed' = owed /\ hostCnt' = hostCnt
  BY DEF Edge, host
<1>7. ctlFifo' = ctlFifo
  BY <1>1 DEF Edge, ControlFifoWrite, sFifoWren
<1>8. /\ Queued = Queued' + Replies(cmdFifo[1], CountNow)
      /\ CountIs(Len(cmdFifo) + 1, hostCnt)'
      /\ \A k \in 1 .. Len(cmdFifo) : \A v : CountIs(k, v)' <=> CountIs(k + 1, v)
  <2>1. TypeOK /\ CountNow \in Half /\ CountIs(Len(cmdFifo) + 1, hostCnt)
    BY Numbers DEF CInv, Counts
  <2> QED BY <1>1, <1>4, <1>5, <1>6, <2>1, QueueShrinks
<1>9. Strobed = 0 /\ InProgress = 0
  BY <1>1 DEF Strobed, InProgress
<1>10. \A k \in 1 .. Len(cmdFifo') : k + 1 \in 1 .. Len(cmdFifo) /\ cmdFifo'[k] = cmdFifo[k + 1]
  BY <1>1, <1>2, <1>4
<1>12. \A k \in 1 .. Len(cmdFifo') : \A v : CountIs(k, v)' <=> CountIs(k + 1, v)
  <2>1. \A k \in 1 .. Len(cmdFifo') : k \in 1 .. Len(cmdFifo)
    BY <1>1, <1>2, <1>4
  <2> QED BY <1>8, <2>1
<1>11. cmdFifo[1] \in Commands /\ cmdFifo[1] \in CmdWord
  BY <1>3, CommandsAssumption DEF CInv, Counts
<1> QED BY <1>1, <1>4, <1>5, <1>6, <1>7, <1>8, <1>9, <1>10, <1>11, <1>12

(* In every other state the queue stands. *)
LEMMA QueueStands ==
  ASSUME cmdFifo' = cmdFifo, CountNow' = CountNow, hostCnt' = hostCnt
  PROVE  /\ Queued' = Queued
         /\ CountIs(Len(cmdFifo) + 1, hostCnt) => CountIs(Len(cmdFifo) + 1, hostCnt)'
         /\ \A k, v : CountIs(k, v)' <=> CountIs(k, v)
<1>1. \A i : CountSet(i)' = CountSet(i)
  BY DEF CountSet
<1>2. \A i : WritesCount(i)' <=> WritesCount(i)
  BY DEF WritesCount
<1>3. \A k, v : CountIs(k, v)' <=> CountIs(k, v)
  BY <1>1, <1>2 DEF CountIs
<1>4. Due' = Due
  BY <1>3 DEF Due, Replies
<1> QED BY <1>3, <1>4 DEF Queued

LEMMA WorksOn ==
  ASSUME CInv, Edge, cmdState \notin {"INTERPRET_CMD", "INIT"}, cmdState' # "INIT", sMemioCnt' = sMemioCnt
  PROVE  /\ cmdFifo' = cmdFifo /\ cmdHold' = cmdHold /\ Queued' = Queued
         /\ CountIs(Len(cmdFifo) + 1, hostCnt)' /\ CountNow' = CountNow
         /\ owed' = owed /\ hostCnt' = hostCnt
         /\ cmdState # "FIFO_ADV" => /\ Len(ctlFifo') = Len(ctlFifo) + Strobed
                                     /\ ctlFifo' = ServerReplies /\ dataFifo' = dataFifo
<1>1. ~CMD_FIFO_RDREQ
  BY Zenon DEF CInv, Control, ReadStrobe
<1>2. cmdFifo' = cmdFifo /\ cmdHold' = cmdHold
  BY <1>1 DEF Edge, CommandFifoRead
<1>3. CountNow' = CountNow
  BY DEF CountNow
<1>4. owed' = owed /\ hostCnt' = hostCnt
  BY DEF Edge, host
<1>5. Queued' = Queued /\ CountIs(Len(cmdFifo) + 1, hostCnt)'
  BY <1>2, <1>3, <1>4, QueueStands DEF CInv, Counts
<1>6. ASSUME cmdState # "FIFO_ADV"
      PROVE  Len(ctlFifo') = Len(ctlFifo) + Strobed /\ ctlFifo' = ServerReplies /\ dataFifo' = dataFifo
  <2>1. bMemNotReg # "SEL_FIFO"
    BY <1>6 DEF CInv, Control, Selected
  <2>2. dataFifo' = dataFifo
    BY <2>1 DEF Edge, DataFifoRead, DATA_FIFO_RDREQ
  <2>3. CASE sFifoWrreq
    <3>1. ~sFifoFull /\ Strobed = 1
      BY <2>1, <2>3, RoomForReply DEF NoReplyLost, Strobed
    <3>2. ctlFifo' = Append(ctlFifo, sFifoD)
      BY <2>1, <2>3, <3>1 DEF Edge, ControlFifoWrite, sFifoWren
    <3>3. ctlFifo \in Seq(Word)
      BY DEF CInv, TypeOK
    <3> QED BY <2>2, <3>1, <3>2, <3>3 DEF ServerReplies
  <2>4. CASE ~sFifoWrreq
    <3>1. ctlFifo' = ctlFifo /\ Strobed = 0
      BY <2>1, <2>4 DEF Edge, ControlFifoWrite, sFifoWren, Strobed
    <3> QED BY <2>2, <3>1, Numbers DEF ServerReplies
  <2> QED BY <2>3, <2>4
<1> QED BY <1>2, <1>3, <1>4, <1>5, <1>6

(* What an executed command adds to the replies under way is what it was   *)
(* counted with in the queue.                                              *)
LEMMA Executed ==
  ASSUME CInv, CarefulHost, cmdState = "INTERPRET_CMD", Edge, cmdState' # "INIT",
         sMemioCnt' = IF WritesCount(1) THEN cmdFifo[1].data ELSE sMemioCnt,
         Strobed' \in Nat, InProgress' \in Nat,
         Strobed' + InProgress' = Replies(cmdFifo[1], sMemioCnt),
         ~cmdFifo[1].rd => Strobed' = 0 /\ cmdState' # "MEM_RD_CNT"
  PROVE  Counts' /\ OnlyStreamOverflows' /\ ReplyAccounting'
<1>1. /\ cmdFifo # <<>> /\ cmdFifo[1] \in Commands /\ cmdFifo[1] \in CmdWord
      /\ Queued = Queued' + Replies(cmdFifo[1], sMemioCnt)
      /\ CountIs(Len(cmdFifo) + 1, hostCnt)' /\ CountNow = sMemioCnt
      /\ ctlFifo' = ctlFifo /\ owed' = owed /\ hostCnt' = hostCnt
      /\ Strobed = 0 /\ InProgress = 0
      /\ \A k \in 1 .. Len(cmdFifo') : k + 1 \in 1 .. Len(cmdFifo) /\ cmdFifo'[k] = cmdFifo[k + 1]
      /\ \A k \in 1 .. Len(cmdFifo') : \A v : CountIs(k, v)' <=> CountIs(k + 1, v)
      /\ cmdFifo' = Tail(cmdFifo)
  BY ExecutesHead
<1>2. Counts'
  <2>1. \A k \in 1 .. Len(cmdFifo') : cmdFifo'[k] \in Commands
    BY <1>1 DEF CInv, Counts
  <2>2. CountNow' = sMemioCnt'
    BY DEF CountNow
  <2>3. sMemioCnt' >= 1
    <3>1. CASE WritesCount(1)
      <4>1. cmdFifo[1].data # 0 /\ cmdFifo[1].data \in 0 .. W - 1
        BY <1>1, <3>1 DEF CarefulHost, WritesCount, CmdWord, Half
      <4> QED BY <3>1, <4>1, WAssumption, SMTT(30)
    <3>2. CASE ~WritesCount(1)
      BY <1>1, <3>2, Numbers
    <3> QED BY <3>1, <3>2
  <2>4. hostCnt' >= 1
    BY <1>1 DEF CInv, Counts
  <2>5. \A k \in 1 .. Len(cmdFifo') : \E v \in Half \ {0} : CountIs(k, v)'
    BY <1>1 DEF CInv, Counts
  <2> QED BY <1>1, <2>1, <2>2, <2>3, <2>4, <2>5 DEF Counts
<1>3. ReplyAccounting'
  <2>1. Queued' \in Nat
    <3>1. cmdFifo \in Seq(CmdWord) /\ Len(cmdFifo) <= CmdDepth
      BY DEF CInv, TypeOK
    <3>2. Replies(cmdFifo[1], sMemioCnt) \in 0 .. W
      BY <1>1, Numbers, RepliesInRange
    <3>3. Len(cmdFifo') \in Nat
      BY <1>1, <3>1
    <3>4. IsFiniteSet((1 .. Len(cmdFifo')) \X (1 .. W))
      <4>1. IsFiniteSet(1 .. Len(cmdFifo')) /\ IsFiniteSet(1 .. W)
        BY <3>3, WAssumption, FS_Interval
      <4> QED BY <4>1, FS_Product
    <3>5. Due' \subseteq (1 .. Len(cmdFifo')) \X (1 .. W)
      BY DEF Due
    <3>6. IsFiniteSet(Due')
      BY <3>4, <3>5, FS_Subset
    <3> QED BY <3>6, FS_CardinalityType DEF Queued
  <2>2. owed = Len(ctlFifo) + Queued /\ Queued = Queued' + (Strobed' + InProgress')
    BY <1>1, Numbers
  <2>3. Len(ctlFifo') = Len(ctlFifo) /\ Len(ctlFifo) \in Nat
    BY <1>1, Numbers
  <2>4. owed = Len(ctlFifo') + Strobed' + InProgress' + Queued'
    <3>1. Strobed' \in Nat /\ InProgress' \in Nat
      OBVIOUS
    <3>2. Len(ctlFifo) + (Queued' + (Strobed' + InProgress')) = Len(ctlFifo) + Strobed' + InProgress' + Queued'
      <4>1. PICK s \in Nat : s = Strobed'
        BY <3>1
      <4>2. PICK p \in Nat : p = InProgress'
        BY <3>1
      <4>3. PICK q \in Nat : q = Queued'
        BY <2>1
      <4>4. PICK l \in Nat : l = Len(ctlFifo)
        BY <2>3
      <4>5. l + (q + (s + p)) = l + s + p + q
        OBVIOUS
      <4> QED BY <4>1, <4>2, <4>3, <4>4, <4>5
    <3> QED BY <2>2, <2>3, <3>2
  <2> QED BY <1>1, <2>4 DEF ReplyAccounting
<1>4. OnlyStreamOverflows'
  <2> SUFFICES ASSUME owed' > FifoDepth
               PROVE  /\ Strobed' = 0 /\ cmdState' # "MEM_RD_CNT"
                      /\ \A k \in 1 .. Len(cmdFifo') : ~cmdFifo'[k].rd
    BY DEF OnlyStreamOverflows
  <2>1. \A k \in 1 .. Len(cmdFifo) : ~cmdFifo[k].rd
    BY <1>1 DEF CInv, OnlyStreamOverflows
  <2>2. 1 \in 1 .. Len(cmdFifo)
    BY <1>1 DEF CInv, TypeOK
  <2> QED BY <1>1, <2>1, <2>2
<1> QED BY <1>2, <1>3, <1>4

(* A clock in which no command is executed moves replies on, or leaves     *)
(* them where they are.                                                    *)
LEMMA Worked ==
  ASSUME CInv, cmdFifo' = cmdFifo, CountNow' = CountNow, hostCnt' = hostCnt, owed' = owed,
         Len(ctlFifo') \in Nat, Strobed' \in Nat, InProgress' \in Nat,
         Len(ctlFifo') + Strobed' + InProgress' = Len(ctlFifo) + Strobed + InProgress,
         owed > FifoDepth => Strobed' = 0 /\ cmdState' # "MEM_RD_CNT"
  PROVE  Counts' /\ OnlyStreamOverflows' /\ ReplyAccounting'
<1>1. /\ Queued' = Queued /\ CountIs(Len(cmdFifo) + 1, hostCnt)'
      /\ \A k, v : CountIs(k, v)' <=> CountIs(k, v)
  BY QueueStands DEF CInv, Counts
<1>2. Counts'
  BY <1>1 DEF CInv, Counts
<1>3. ReplyAccounting'
  BY <1>1, Numbers DEF ReplyAccounting
<1>4. OnlyStreamOverflows'
  BY DEF CInv, OnlyStreamOverflows
<1> QED BY <1>2, <1>3, <1>4

(* A memory read that comes up to execution finds room for its first word: *)
(* its replies are all outstanding and all fit.                            *)
LEMMA RoomForMemRead ==
  ASSUME CInv, cmdState = "INTERPRET_CMD", cmdFifo # <<>>, cmdFifo[1].rd, cmdFifo[1].addr = 20
  PROVE  ~sFifoFull
<1>0. sMemioCnt \in 0 .. W - 1 /\ sMemioCnt \in Nat /\ CountNow = sMemioCnt /\ sMemioCnt >= 1
  BY WAssumption, Numbers DEF CInv, TypeOK, Half, CountNow
<1>1. 1 \in 1 .. Len(cmdFifo)
  BY DEF CInv, TypeOK
<1>2. Queued >= sMemioCnt
  <2>1. \A j \in 1 .. sMemioCnt : <<1, j>> \in Due
    <3> SUFFICES ASSUME NEW j \in 1 .. sMemioCnt PROVE <<1, j>> \in Due
      OBVIOUS
    <3>1. <<1, j>> \in (1 .. Len(cmdFifo)) \X (1 .. W)
      BY <1>0, <1>1, WAssumption
    <3>2. CountIs(1, sMemioCnt) /\ sMemioCnt \in Half
      BY <1>0 DEF CountIs, CountSet, Half
    <3>3. j <= Replies(cmdFifo[1], sMemioCnt)
      BY <1>0 DEF Replies
    <3> QED BY <3>1, <3>2, <3>3 DEF Due
  <2>2. {1} \X (1 .. sMemioCnt) \in SUBSET Due
    BY <2>1
  <2>3. Cardinality({1} \X (1 .. sMemioCnt)) = sMemioCnt
    BY <1>0, PairsOfOne
  <2>4. IsFiniteSet(Due)
    BY DueFinite DEF CInv
  <2>5. Cardinality({1} \X (1 .. sMemioCnt)) <= Cardinality(Due)
    BY <2>2, <2>4, FS_Subset
  <2> QED BY <2>3, <2>5 DEF Queued
<1>3. owed <= FifoDepth
  BY <1>1, Numbers DEF CInv, OnlyStreamOverflows
<1> QED BY <1>0, <1>2, <1>3, Numbers DEF sFifoFull

(* The commands one by one. *)
LEMMA InterpretStep ==
  ASSUME CInv, CarefulHost, Interpret
  PROVE  Control' /\ Counts' /\ OnlyStreamOverflows' /\ ReplyAccounting'
<1> DEFINE c == cmdFifo[1]
<1>0. cmdState = "INTERPRET_CMD" /\ Edge
  BY DEF Interpret, ReadRegister, ReadMemory, WriteRegister, WritePulse, WriteMemory, StartFifoRead
<1>1. /\ CMD_FIFO_Q = c /\ c \in CmdWord /\ sMemioCnt \in Half /\ sMemioCnt >= 1
      /\ Strobed = 0 /\ InProgress = 0 /\ bMemNotReg # "SEL_FIFO" /\ cmdHold' = c /\ sDinAHi' = c.data
      /\ cmdFifo # <<>>
  <2>1. /\ cmdFifo # <<>> /\ ~sFifoWrreq /\ bMemNotReg # "SEL_FIFO" /\ CMD_FIFO_RDREQ
    BY <1>0, Zenon DEF CInv, Control, ReadStrobe, ReplyStrobe, Selected
  <2>2. cmdFifo \in Seq(CmdWord)
    BY DEF CInv, TypeOK
  <2>3. c = Head(cmdFifo) /\ c \in CmdWord
    BY <2>1, <2>2
  <2>4. CMD_FIFO_Q = c
    BY <2>1, <2>3 DEF CMD_FIFO_Q
  <2>5. sMemioCnt = CountNow
    BY <1>0 DEF CountNow
  <2>6. cmdHold' = c /\ sDinAHi' = c.data
    BY <1>0, <2>1, <2>3, <2>4 DEF Edge, CommandFifoRead
  <2> QED BY <1>0, <2>1, <2>3, <2>4, <2>5, <2>6, Numbers DEF Strobed, InProgress
<1> HIDE DEF c
<1>c. c.rd \in BOOLEAN /\ c.addr \in 0 .. 4095 /\ c.data \in 0 .. W - 1
  BY <1>1 DEF CmdWord, Half
<1>w. WritesCount(1) <=> ~c.rd /\ c.addr = 16
  BY DEF WritesCount, c
<1>2. CASE ReadRegister
  <2>1. /\ cmdState' = "WAIT_CMD" /\ sFifoWrreq' = TRUE /\ CMD_FIFO_RDREQ' = FALSE /\ sWea' = FALSE
        /\ bMemNotReg' = bMemNotReg /\ sMemioCnt' = sMemioCnt /\ c.rd /\ c.addr # 20
    BY <1>1, <1>2, Zenon DEF ReadRegister, Strobe, registers
  <2>2. Control'
    BY <1>1, <2>1, Zenon DEF Control, ReadStrobe, ReplyStrobe, WriteStrobe, Selected, MemReading, Starting
  <2>3. Strobed' = 1 /\ InProgress' = 0 /\ Replies(c, sMemioCnt) = 1
    BY <2>1 DEF Strobed, InProgress, Replies
  <2> QED BY <1>0, <1>w, <2>1, <2>2, <2>3, Executed DEF c
<1>3. CASE ReadMemory
  <2>1. c.rd /\ c.addr = 20 /\ Replies(c, sMemioCnt) = sMemioCnt
    BY <1>1, <1>3 DEF ReadMemory, Replies
  <2>2. ~sFifoFull
    BY <1>0, <1>1, <2>1, RoomForMemRead DEF c
  <2>3. /\ cmdState' = "MEM_RD_CNT" /\ sFifoWrreq' = TRUE /\ CMD_FIFO_RDREQ' = FALSE /\ sWea' = FALSE
        /\ bMemNotReg' = "SEL_MEM" /\ sMemioCnt' = sMemioCnt /\ counterV' = sMemioCnt
    BY <1>3, <2>2, Zenon DEF ReadMemory, Strobe
  <2>4. Control'
    BY <1>1, <2>3, Zenon DEF Control, ReadStrobe, ReplyStrobe, WriteStrobe, Selected, MemReading, Starting
  <2>5. Strobed' = 1 /\ InProgress' = sMemioCnt - 1 /\ sMemioCnt \in Nat
    BY <1>1, <2>3, WAssumption DEF Strobed, InProgress, Half
  <2> QED BY <1>0, <1>1, <1>w, <2>1, <2>3, <2>4, <2>5, Executed DEF c
<1>4. CASE WriteRegister
  <2>1. /\ cmdState' = "WAIT_CMD" /\ sFifoWrreq' = FALSE /\ CMD_FIFO_RDREQ' = FALSE /\ sWea' = FALSE
        /\ bMemNotReg' = bMemNotReg /\ sMemioCnt' = (IF c.addr = 16 THEN c.data ELSE sMemioCnt)
        /\ ~c.rd /\ c.addr \notin {11, 20, 25}
    BY <1>1, <1>4, Zenon DEF WriteRegister, NoStrobe, Strobe
  <2>2. Control'
    BY <1>1, <2>1, Zenon DEF Control, ReadStrobe, ReplyStrobe, WriteStrobe, Selected, MemReading, Starting
  <2>3. Strobed' = 0 /\ InProgress' = 0 /\ Replies(c, sMemioCnt) = 0
    BY <2>1 DEF Strobed, InProgress, Replies
  <2> QED BY <1>0, <1>w, <2>1, <2>2, <2>3, Executed DEF c
<1>5. CASE WritePulse
  <2>1. /\ cmdState' = "PULSE_DELAY" /\ sFifoWrreq' = FALSE /\ CMD_FIFO_RDREQ' = FALSE /\ sWea' = FALSE
        /\ bMemNotReg' = bMemNotReg /\ sMemioCnt' = sMemioCnt /\ ~c.rd /\ c.addr = 11
    BY <1>1, <1>5, Zenon DEF WritePulse, NoStrobe, Strobe, addrRegs
  <2>2. Control'
    BY <1>1, <2>1, Zenon DEF Control, ReadStrobe, ReplyStrobe, WriteStrobe, Selected, MemReading, Starting
  <2>3. Strobed' = 0 /\ InProgress' = 0 /\ Replies(c, sMemioCnt) = 0
    BY <2>1 DEF Strobed, InProgress, Replies
  <2>4. ~WritesCount(1)
    BY <1>w, <2>1
  <2> QED BY <1>0, <2>1, <2>2, <2>3, <2>4, Executed DEF c
<1>6. CASE WriteMemory
  <2>1. /\ cmdState' = "MEM_ADV" /\ sFifoWrreq' = FALSE /\ CMD_FIFO_RDREQ' = FALSE /\ sWea' = TRUE
        /\ bMemNotReg' = bMemNotReg /\ sMemioCnt' = sMemioCnt /\ ~c.rd /\ c.addr = 20
    BY <1>1, <1>6, Zenon DEF WriteMemory, Strobe, registers
  <2>2. Control'
    BY <1>1, <2>1, Zenon DEF Control, ReadStrobe, ReplyStrobe, WriteStrobe, Selected, MemReading, Starting
  <2>3. Strobed' = 0 /\ InProgress' = 0 /\ Replies(c, sMemioCnt) = 0
    BY <2>1 DEF Strobed, InProgress, Replies
  <2>4. ~WritesCount(1)
    BY <1>w, <2>1
  <2> QED BY <1>0, <2>1, <2>2, <2>3, <2>4, Executed DEF c
<1>7. CASE StartFifoRead
  <2>1. /\ cmdState' = "FIFO_ADV" /\ sFifoWrreq' = FALSE /\ CMD_FIFO_RDREQ' = FALSE /\ sWea' = FALSE
        /\ bMemNotReg' = "SEL_FIFO" /\ sMemioCnt' = sMemioCnt /\ ~c.rd /\ c.addr = 25
        /\ counterFIFO' = c.data
    BY <1>1, <1>7, Zenon DEF StartFifoRead, NoStrobe, Strobe, registers
  <2>2. Control'
    BY <1>1, <2>1, Zenon DEF Control, ReadStrobe, ReplyStrobe, WriteStrobe, Selected, MemReading, Starting
  <2>3. Strobed' = 0 /\ InProgress' = c.data + 1 /\ Replies(c, sMemioCnt) = c.data + 1 /\ c.data \in Nat
    BY <1>c, <2>1, WAssumption DEF Strobed, InProgress, Replies
  <2>4. ~WritesCount(1)
    BY <1>w, <2>1
  <2> QED BY <1>0, <2>1, <2>2, <2>3, <2>4, Executed DEF c
<1> QED BY <1>2, <1>3, <1>4, <1>5, <1>6, <1>7 DEF Interpret

(* The other states of the process. *)
LEMMA WorkStep ==
  ASSUME CInv, CarefulHost, WaitCmd \/ MemAdv \/ MemReadDone \/ MemReadNext \/ PulseDelay
  PROVE  Control' /\ Counts' /\ OnlyStreamOverflows' /\ ReplyAccounting'
<1>0. /\ cmdState \in {"WAIT_CMD", "MEM_ADV", "MEM_RD_CNT", "PULSE_DELAY"} /\ cmdState' # "INIT"
      /\ Edge /\ sMemioCnt' = sMemioCnt /\ CMD_FIFO_RDREQ \in BOOLEAN
  BY DEF WaitCmd, MemAdv, MemReadDone, MemReadNext, PulseDelay, addrRegs, registers, CInv, TypeOK
<1>1. /\ cmdFifo' = cmdFifo /\ CountNow' = CountNow /\ owed' = owed /\ hostCnt' = hostCnt
      /\ Len(ctlFifo') = Len(ctlFifo) + Strobed
  BY <1>0, WorksOn
<1>2. Len(ctlFifo) \in Nat /\ Strobed \in 0 .. 1 /\ counterV \in 0 .. W - 1
  BY Numbers DEF CInv, TypeOK, Half
<1>3. ASSUME Strobed' \in Nat, InProgress' \in Nat, Strobed' + InProgress' = InProgress,
             owed > FifoDepth => Strobed' = 0 /\ cmdState' # "MEM_RD_CNT"
      PROVE  Counts' /\ OnlyStreamOverflows' /\ ReplyAccounting'
  <2>1. Len(ctlFifo') \in Nat
    BY <1>1, <1>2
  <2>2. Len(ctlFifo') + Strobed' + InProgress' = Len(ctlFifo) + Strobed + InProgress
    <3>1. PICK s \in Nat, p \in Nat : s = Strobed' /\ p = InProgress'
      BY <1>3
    <3>2. PICK l \in Nat, t \in Nat : l = Len(ctlFifo) /\ t = Strobed
      BY <1>2
    <3>3. (l + t) + s + p = l + t + (s + p)
      OBVIOUS
    <3> QED BY <1>1, <1>3, <3>1, <3>2, <3>3
  <2> QED BY <1>1, <1>3, <2>1, <2>2, Worked
<1>4. CASE WaitCmd
  <2>1. /\ cmdState = "WAIT_CMD" /\ ~sFifoWrreq' /\ ~sWea' /\ bMemNotReg' = "SEL_REG"
        /\ CMD_FIFO_RDREQ' = (cmdFifo # <<>>)
        /\ cmdState' = IF cmdFifo # <<>> THEN "INTERPRET_CMD" ELSE "WAIT_CMD"
    BY <1>4, Zenon DEF WaitCmd, Strobe
  <2>2. Control'
    BY <1>1, <2>1, Zenon DEF Control, ReadStrobe, ReplyStrobe, WriteStrobe, Selected, MemReading, Starting
  <2>3. Strobed' = 0 /\ InProgress' = 0 /\ InProgress = 0 /\ cmdState' # "MEM_RD_CNT"
    BY <2>1 DEF Strobed, InProgress
  <2> QED BY <1>3, <2>2, <2>3
<1>5. CASE MemAdv
  <2>1. /\ cmdState = "MEM_ADV" /\ cmdState' = "WAIT_CMD" /\ ~sFifoWrreq' /\ ~sWea' /\ ~CMD_FIFO_RDREQ'
        /\ bMemNotReg' = bMemNotReg
    BY <1>5, Zenon DEF MemAdv, NoStrobe, Strobe
  <2>2. Control'
    BY <2>1, Zenon DEF CInv, Control, ReadStrobe, ReplyStrobe, WriteStrobe, Selected, MemReading, Starting
  <2>3. Strobed' = 0 /\ InProgress' = 0 /\ InProgress = 0
    BY <2>1 DEF Strobed, InProgress
  <2> QED BY <1>3, <2>1, <2>2, <2>3
<1>6. CASE MemReadDone
  <2>1. /\ cmdState = "MEM_RD_CNT" /\ cmdState' = "WAIT_CMD" /\ ~sFifoWrreq' /\ ~sWea' /\ ~CMD_FIFO_RDREQ'
        /\ bMemNotReg' = bMemNotReg /\ Decr(counterV) = 0
    BY <1>6, Zenon DEF MemReadDone, NoStrobe, Strobe
  <2>2. Control'
    BY <2>1, Zenon DEF CInv, Control, ReadStrobe, ReplyStrobe, WriteStrobe, Selected, MemReading, Starting
  <2>3. counterV = 1
    BY <1>2, <2>1, WAssumption DEF Decr
  <2>4. Strobed' = 0 /\ InProgress' = 0 /\ InProgress = 0
    BY <2>1, <2>3 DEF Strobed, InProgress
  <2> QED BY <1>3, <2>1, <2>2, <2>4
<1>7. CASE MemReadNext
  <2>1. /\ cmdState = "MEM_RD_CNT" /\ cmdState' = "MEM_RD_CNT" /\ ~sWea' /\ ~CMD_FIFO_RDREQ'
        /\ bMemNotReg' = bMemNotReg /\ Decr(counterV) # 0
        /\ sFifoFull => ~sFifoWrreq' /\ counterV' = counterV
        /\ ~sFifoFull => sFifoWrreq' /\ counterV' = Decr(counterV)
    BY <1>7, Zenon DEF MemReadNext, NoStrobe, Strobe
  <2>2. bMemNotReg = "SEL_MEM" /\ counterV >= 1
    BY <2>1 DEF CInv, Control, MemReading
  <2>3. counterV >= 2 /\ Decr(counterV) = counterV - 1
    BY <1>2, <2>1, <2>2, WAssumption DEF Decr
  <2>4. Control'
    <3>1. ReadStrobe' /\ ReplyStrobe' /\ WriteStrobe' /\ Starting'
      BY <2>1, Zenon DEF ReadStrobe, ReplyStrobe, WriteStrobe, Starting
    <3>2. Selected'
      BY <2>1, <2>2, Zenon DEF Selected
    <3>3. counterV' >= 1 /\ (counterV' = 1 => sFifoWrreq')
      BY <1>2, <2>1, <2>3, WAssumption
    <3>4. MemReading'
      BY <2>1, <2>2, <3>3 DEF MemReading
    <3> QED BY <3>1, <3>2, <3>4 DEF Control
  <2>5. owed <= FifoDepth
    BY <2>1, Numbers DEF CInv, OnlyStreamOverflows
  <2>6. InProgress = counterV - 1 /\ InProgress' = counterV' - 1
    BY <2>1 DEF InProgress
  <2>7. Strobed' = IF sFifoFull THEN 0 ELSE 1
    BY <2>1 DEF Strobed
  <2>8. Strobed' \in Nat /\ InProgress' \in Nat /\ Strobed' + InProgress' = InProgress
    BY <1>2, <2>1, <2>3, <2>6, <2>7, WAssumption
  <2>9. ~(owed > FifoDepth)
    BY <2>5, Numbers
  <2> QED BY <1>3, <2>4, <2>8, <2>9
<1>8. CASE PulseDelay
  <2>1. /\ cmdState = "PULSE_DELAY" /\ cmdState' \in {"WAIT_CMD", "PULSE_DELAY"}
        /\ ~sFifoWrreq' /\ ~sWea' /\ ~CMD_FIFO_RDREQ' /\ bMemNotReg' = bMemNotReg
    BY <1>8, Zenon DEF PulseDelay, NoStrobe, Strobe
  <2>2. Control'
    BY <2>1, Zenon DEF CInv, Control, ReadStrobe, ReplyStrobe, WriteStrobe, Selected, MemReading, Starting
  <2>3. Strobed' = 0 /\ InProgress' = 0 /\ InProgress = 0 /\ cmdState' # "MEM_RD_CNT"
    BY <2>1 DEF Strobed, InProgress
  <2> QED BY <1>3, <2>2, <2>3
<1> QED BY <1>4, <1>5, <1>6, <1>7, <1>8

(* The stream of a data FIFO read: a word leaves the one FIFO at the very  *)
(* clock at which it enters the other.                                     *)
LEMMA StreamMoves ==
  ASSUME CInv, FifoAdv
  PROVE  LET moved == dataFifo # <<>> /\ ~sFifoFull IN
         /\ ~sFifoWrreq /\ Strobed = 0 /\ Strobed' = 0 /\ InProgress = counterFIFO + 1
         /\ moved => /\ ctlFifo' = Append(ctlFifo, Head(dataFifo)) /\ dataFifo' = Tail(dataFifo)
                     /\ InProgress' = counterFIFO
         /\ ~moved => ctlFifo' = ctlFifo /\ dataFifo' = dataFifo /\ InProgress' = InProgress
<1>1. cmdState = "FIFO_ADV" /\ bMemNotReg = "SEL_FIFO" /\ Edge
  BY Zenon DEF FifoAdv, CInv, Control, Selected
<1>2. ~sFifoWrreq
  BY <1>1, Zenon DEF CInv, Control, ReplyStrobe
<1>3. ~sFifoWrreq'
  BY Zenon DEF FifoAdv, NoStrobe, Strobe
<1>4. Strobed = 0 /\ Strobed' = 0 /\ InProgress = counterFIFO + 1
  BY <1>1, <1>2, <1>3 DEF Strobed, InProgress
<1>5. counterFIFO \in Nat
  BY WAssumption DEF CInv, TypeOK, Half
<1>6. CASE dataFifo # <<>> /\ ~sFifoFull
  <2>1. ctlFifo' = Append(ctlFifo, Head(dataFifo)) /\ dataFifo' = Tail(dataFifo)
    BY <1>1, <1>6
    DEF Edge, ControlFifoWrite, DataFifoRead, sFifoWren, sFifoD, DATA_FIFO_RDREQ, DATA_FIFO_EMPTY
  <2>2. InProgress' = counterFIFO
    <3>1. CASE counterFIFO = 0
      BY <1>6, <3>1 DEF FifoAdv, InProgress, DATA_FIFO_EMPTY
    <3>2. CASE counterFIFO # 0
      BY <1>5, <1>6, <3>2 DEF FifoAdv, InProgress, DATA_FIFO_EMPTY
    <3> QED BY <3>1, <3>2
  <2> QED BY <1>2, <1>4, <1>6, <2>1, <2>2
<1>7. CASE ~(dataFifo # <<>> /\ ~sFifoFull)
  <2>1. ctlFifo' = ctlFifo /\ dataFifo' = dataFifo
    BY <1>1, <1>7
    DEF Edge, ControlFifoWrite, DataFifoRead, sFifoWren, DATA_FIFO_RDREQ, DATA_FIFO_EMPTY
  <2>2. cmdState' = "FIFO_ADV" /\ counterFIFO' = counterFIFO
    BY <1>7 DEF FifoAdv, DATA_FIFO_EMPTY
  <2> QED BY <1>2, <1>4, <1>7, <2>1, <2>2 DEF InProgress
<1> QED BY <1>6, <1>7

LEMMA StreamStep ==
  ASSUME CInv, FifoAdv
  PROVE  Control' /\ Counts' /\ OnlyStreamOverflows' /\ ReplyAccounting'
<1>1. /\ cmdState = "FIFO_ADV" /\ Edge /\ cmdState' \in {"FIFO_ADV", "WAIT_CMD"} /\ sMemioCnt' = sMemioCnt
      /\ bMemNotReg' = IF cmdState' = "WAIT_CMD" THEN "SEL_REG" ELSE "SEL_FIFO"
      /\ ~sFifoWrreq' /\ ~sWea' /\ ~CMD_FIFO_RDREQ'
  BY Zenon DEF FifoAdv, NoStrobe, Strobe, registers
<1>2. Control'
  BY <1>1, Zenon DEF Control, ReadStrobe, ReplyStrobe, WriteStrobe, Selected, MemReading, Starting
<1>3. cmdFifo' = cmdFifo /\ CountNow' = CountNow /\ owed' = owed /\ hostCnt' = hostCnt
  BY <1>1, WorksOn
<1>4. ctlFifo \in Seq(Word) /\ dataFifo \in Seq(Word) /\ counterFIFO \in Nat
  BY WAssumption DEF CInv, TypeOK, Half
<1>5. /\ Strobed = 0 /\ Strobed' = 0 /\ InProgress = counterFIFO + 1
      /\ \/ Len(ctlFifo') = Len(ctlFifo) + 1 /\ InProgress' = counterFIFO
         \/ ctlFifo' = ctlFifo /\ InProgress' = InProgress
  <2>1. dataFifo # <<>> => Head(dataFifo) \in Word
    BY <1>4
  <2>2. dataFifo # <<>> => Len(Append(ctlFifo, Head(dataFifo))) = Len(ctlFifo) + 1
    BY <1>4, <2>1
  <2> QED BY <2>2, StreamMoves
<1>6. /\ Len(ctlFifo') \in Nat /\ InProgress' \in Nat /\ Strobed' \in Nat
      /\ Len(ctlFifo') + Strobed' + InProgress' = Len(ctlFifo) + Strobed + InProgress
  BY <1>4, <1>5, Numbers, SMTT(30)
<1> QED BY <1>1, <1>2, <1>3, <1>5, <1>6, Worked

(* The PC sends a command: it counts with it what the interpreter will     *)
(* produce, and asks for more than fits only by a data FIFO read.          *)
LEMMA SendStep ==
  ASSUME CInv, CarefulHost, NEW c \in Commands, HostSend(c)
  PROVE  Control' /\ Counts' /\ OnlyStreamOverflows' /\ ReplyAccounting'
<1>1. /\ cmdFifo' = Append(cmdFifo, c) /\ owed' = owed + Replies(c, hostCnt)
      /\ hostCnt' = IF ~c.rd /\ c.addr = 16 THEN c.data ELSE hostCnt
      /\ UNCHANGED <<device, cmdHold, ctlFifo, dataFifo, pulseAge>>
  BY DEF HostSend
<1>2. UNCHANGED <<cmdState, counterV, counterFIFO, CMD_FIFO_RDREQ, sFifoWrreq, sWea, bMemNotReg,
                  sConfigReg, sMemioCnt, sAddrA, sDinAHi>>
  BY <1>1 DEF device, procVars, strobes, registers, memory
<1>3. c \in CmdWord /\ cmdFifo \in Seq(CmdWord) /\ hostCnt \in Half /\ TypeOK
  BY CommandsAssumption DEF CInv, TypeOK
<1>4. PICK L \in Nat : L = Len(cmdFifo)
  BY <1>3
<1>5. /\ Len(cmdFifo') = L + 1 /\ cmdFifo'[L + 1] = c /\ cmdFifo' # <<>>
      /\ \A k \in 1 .. L : cmdFifo'[k] = cmdFifo[k]
  BY <1>1, <1>3, <1>4
<1>6. CountNow' = CountNow /\ Strobed' = Strobed /\ InProgress' = InProgress
  BY <1>2 DEF CountNow, Strobed, InProgress
<1>7. /\ Queued' = Queued + Replies(c, hostCnt) /\ CountIs(Len(cmdFifo) + 1, hostCnt)'
      /\ \A k \in 1 .. Len(cmdFifo) + 1 : \A v : CountIs(k, v)' <=> CountIs(k, v)
  BY <1>1, <1>3, <1>6, QueueGrows DEF CInv, Counts
<1>8. Control'
  <2>1. ReadStrobe'
    BY <1>2, <1>5, Zenon DEF CInv, Control, ReadStrobe
  <2>2. ReplyStrobe' /\ WriteStrobe' /\ Selected' /\ MemReading' /\ Starting'
    BY <1>1, <1>2 DEF CInv, Control, ReplyStrobe, WriteStrobe, Selected, MemReading, Starting
  <2> QED BY <2>1, <2>2 DEF Control
<1>9. Counts'
  <2>1. \A k \in 1 .. Len(cmdFifo') : cmdFifo'[k] \in Commands
    BY <1>4, <1>5 DEF CInv, Counts
  <2>2. hostCnt' >= 1
    <3>1. CASE ~c.rd /\ c.addr = 16
      <4>1. c.data # 0 /\ c.data \in 0 .. W - 1
        BY <1>3, <3>1 DEF CarefulHost, CmdWord, Half
      <4> QED BY <1>1, <3>1, <4>1, WAssumption
    <3>2. CASE ~(~c.rd /\ c.addr = 16)
      BY <1>1, <3>2 DEF CInv, Counts
    <3> QED BY <3>1, <3>2
  <2>3. \A k \in 1 .. Len(cmdFifo') : \E v \in Half \ {0} : CountIs(k, v)'
    <3> SUFFICES ASSUME NEW k \in 1 .. L + 1 PROVE \E v \in Half \ {0} : CountIs(k, v)
      BY <1>4, <1>5, <1>7
    <3>1. CASE k = L + 1
      BY <1>3, <1>4, <3>1, WAssumption DEF CInv, Counts, Half
    <3>2. CASE k # L + 1
      BY <1>4, <3>2 DEF CInv, Counts
    <3> QED BY <3>1, <3>2
  <2> QED BY <1>6, <1>7, <2>1, <2>2, <2>3 DEF CInv, Counts
<1>10. PICK n \in 0 .. W : n = Replies(c, hostCnt)
  BY <1>3, RepliesInRange
<1>f. n = 0 \/ owed + n <= FifoDepth \/ (owed = 0 /\ ~c.rd)
  BY <1>10 DEF HostSend, CarefulHost
<1>11. ReplyAccounting'
  <2>1. PICK l \in Nat, s \in Nat, p \in Nat, q \in Nat :
          l = Len(ctlFifo) /\ s = Strobed /\ p = InProgress /\ q = Queued
    BY Numbers
  <2>2. owed + n = l + s + p + (q + n)
    BY <1>10, <2>1, Numbers, WAssumption
  <2> QED BY <1>1, <1>6, <1>7, <1>10, <2>1, <2>2 DEF ReplyAccounting
<1>12. OnlyStreamOverflows'
  <2> SUFFICES ASSUME owed + n > FifoDepth
               PROVE  /\ Strobed = 0 /\ cmdState # "MEM_RD_CNT"
                      /\ \A k \in 1 .. L + 1 : ~cmdFifo'[k].rd
    BY <1>1, <1>2, <1>5, <1>6, <1>10 DEF OnlyStreamOverflows
  <2>1. ~c.rd
    <3> SUFFICES ASSUME c.rd PROVE FALSE
      BY <1>3 DEF CmdWord
    <3>1. n >= 1
      BY <1>3, <1>10 DEF Replies, CInv, Counts
    <3> QED BY <1>f, <3>1, Numbers, WAssumption
  <2>2. CASE owed > FifoDepth
    BY <1>4, <1>5, <2>1, <2>2 DEF CInv, OnlyStreamOverflows
  <2>3. CASE ~(owed > FifoDepth)
    <3>1. n # 0
      BY <1>10, <2>3, Numbers
    <3>2. owed = 0
      BY <1>10, <1>f, <2>3, <3>1, Numbers, WAssumption
    <3>3. Strobed = 0 /\ InProgress = 0 /\ Queued = 0
      BY <3>2, Numbers
    <3>4. cmdState # "MEM_RD_CNT"
      <4> SUFFICES ASSUME cmdState = "MEM_RD_CNT" PROVE FALSE
        OBVIOUS
      <4>1. counterV = 1
        BY <3>3 DEF InProgress, CInv, TypeOK, Half
      <4> QED BY <3>3, <4>1 DEF CInv, Control, MemReading, Strobed
    <3>5. \A k \in 1 .. L : ~cmdFifo[k].rd
      <4> SUFFICES ASSUME NEW k \in 1 .. L, cmdFifo[k].rd PROVE FALSE
        OBVIOUS
      <4>1. Due = {}
        BY <1>3, <3>3, DueFinite, FS_EmptySet DEF Queued
      <4>2. PICK v \in Half \ {0} : CountIs(k, v)
        BY <1>4 DEF CInv, Counts
      <4>3. Replies(cmdFifo[k], v) >= 1
        BY <4>2, WAssumption DEF Replies, Half
      <4>4. <<k, 1>> \in (1 .. Len(cmdFifo)) \X (1 .. W)
        BY <1>4, WAssumption
      <4> QED BY <4>1, <4>2, <4>3, <4>4 DEF Due
    <3> QED BY <1>5, <2>1, <3>3, <3>4, <3>5
  <2> QED BY <2>2, <2>3
<1> QED BY <1>8, <1>9, <1>11, <1>12

LEMMA HostStep ==
  ASSUME CInv, HostReceive \/ Supply \/ DataClear \/ UNCHANGED vars
  PROVE  Control' /\ Counts' /\ OnlyStreamOverflows' /\ ReplyAccounting'
<1>1. /\ UNCHANGED <<device, cmdFifo, cmdHold, hostCnt>>
      /\ \/ ctlFifo # <<>> /\ ctlFifo' = Tail(ctlFifo) /\ owed' = owed - 1
         \/ ctlFifo' = ctlFifo /\ owed' = owed
  BY DEF HostReceive, Supply, DataArrive, DataClear, vars, fifos, host
<1>2. UNCHANGED <<cmdState, counterV, counterFIFO, CMD_FIFO_RDREQ, sFifoWrreq, sWea, bMemNotReg,
                  sConfigReg, sMemioCnt, sAddrA, sDinAHi>>
  BY <1>1 DEF device, procVars, strobes, registers, memory
<1>3. CountNow' = CountNow /\ Strobed' = Strobed /\ InProgress' = InProgress
  BY <1>2 DEF CountNow, Strobed, InProgress
<1>4. /\ Queued' = Queued /\ CountIs(Len(cmdFifo) + 1, hostCnt)'
      /\ \A k, v : CountIs(k, v)' <=> CountIs(k, v)
  BY <1>1, <1>3, QueueStands DEF CInv, Counts
<1>5. ctlFifo \in Seq(Word) /\ (ctlFifo = <<>> => ctlFifo' = <<>>)
  BY <1>1 DEF CInv, TypeOK
<1>6. Control'
  <2>1. ReadStrobe'
    BY <1>1, <1>2, Zenon DEF CInv, Control, ReadStrobe
  <2>2. ReplyStrobe' /\ WriteStrobe' /\ Selected' /\ MemReading' /\ Starting'
    BY <1>1, <1>2, <1>5 DEF CInv, Control, ReplyStrobe, WriteStrobe, Selected, MemReading, Starting
  <2> QED BY <2>1, <2>2 DEF Control
<1>7. Counts'
  BY <1>1, <1>3, <1>4 DEF CInv, Counts
<1>8. \/ Len(ctlFifo') = Len(ctlFifo) - 1 /\ owed' = owed - 1
      \/ Len(ctlFifo') = Len(ctlFifo) /\ owed' = owed
  BY <1>1, <1>5
<1>9. ReplyAccounting'
  <2>1. PICK l \in Nat, s \in Nat, p \in Nat, q \in Nat :
          l = Len(ctlFifo) /\ s = Strobed /\ p = InProgress /\ q = Queued
    BY Numbers
  <2>2. owed = l + s + p + q /\ owed - 1 = (l - 1) + s + p + q
    BY <2>1, Numbers
  <2> QED BY <1>3, <1>4, <1>8, <2>1, <2>2 DEF ReplyAccounting
<1>10. OnlyStreamOverflows'
  BY <1>1, <1>2, <1>3, <1>8, Numbers DEF CInv, OnlyStreamOverflows
<1> QED BY <1>6, <1>7, <1>9, <1>10

(* RESET, and the first clock after it. *)
LEMMA EmptyQueue ==
  ASSUME cmdFifo = <<>>, CountNow = 1, hostCnt = 1, owed = 0, ctlFifo = <<>>, Strobed = 0, InProgress = 0
  PROVE  Counts /\ OnlyStreamOverflows /\ ReplyAccounting
<1>1. Len(cmdFifo) = 0 /\ Len(ctlFifo) = 0 /\ Due = {}
  BY DEF Due
<1>2. Queued = 0
  BY <1>1, FS_EmptySet DEF Queued
<1>3. CountIs(1, 1)
  BY DEF CountIs, CountSet
<1> QED BY <1>1, <1>2, <1>3, DepthAssumption DEF Counts, OnlyStreamOverflows, ReplyAccounting

LEMMA ResetStep ==
  ASSUME CInv, Reset
  PROVE  Control' /\ Counts' /\ OnlyStreamOverflows' /\ ReplyAccounting'
<1>1. /\ cmdState' = "INIT" /\ ~CMD_FIFO_RDREQ' /\ ~sWea' /\ bMemNotReg' = "SEL_REG"
      /\ sConfigReg' = [a \in ConfigAddr |-> 0] /\ sAddrA' = ZeroWord
      /\ cmdFifo' = <<>> /\ ctlFifo' = <<>> /\ owed' = 0 /\ hostCnt' = 1
  BY Zenon DEF Reset
<1>2. Control'
  BY <1>1, Zenon DEF Control, ReadStrobe, ReplyStrobe, WriteStrobe, Selected, MemReading, Starting
<1>3. CountNow' = 1 /\ Strobed' = 0 /\ InProgress' = 0
  BY <1>1 DEF CountNow, Strobed, InProgress
<1>4. Len(cmdFifo') = 0 /\ Len(ctlFifo') = 0 /\ Due' = {}
  BY <1>1 DEF Due
<1>5. Queued' = 0
  BY <1>4, FS_EmptySet DEF Queued
<1>6. CountIs(1, hostCnt)'
  BY <1>1, <1>3 DEF CountIs, CountSet
<1>7. Counts' /\ OnlyStreamOverflows' /\ ReplyAccounting'
  BY <1>1, <1>3, <1>4, <1>5, <1>6, DepthAssumption DEF Counts, OnlyStreamOverflows, ReplyAccounting
<1> QED BY <1>2, <1>7

LEMMA InitStep ==
  ASSUME CInv, InitRegisters
  PROVE  Control' /\ Counts' /\ OnlyStreamOverflows' /\ ReplyAccounting'
<1>1. /\ cmdState = "INIT" /\ cmdState' = "WAIT_CMD" /\ sMemioCnt' = 1 /\ Edge
      /\ ~sFifoWrreq' /\ ~sWea' /\ ~CMD_FIFO_RDREQ' /\ bMemNotReg' = bMemNotReg
  BY Zenon DEF InitRegisters, NoStrobe, Strobe
<1>2. Control'
  BY <1>1, Zenon DEF CInv, Control, ReadStrobe, ReplyStrobe, WriteStrobe, Selected, MemReading, Starting
<1>3. ~CMD_FIFO_RDREQ
  BY <1>1, Zenon DEF CInv, Control, ReadStrobe
<1>4. cmdFifo' = cmdFifo /\ ctlFifo' = ctlFifo /\ owed' = owed /\ hostCnt' = hostCnt
  BY <1>1, <1>3 DEF Edge, CommandFifoRead, ControlFifoWrite, host
<1>5. /\ CountNow' = CountNow /\ Strobed = 0 /\ Strobed' = 0 /\ InProgress = 0 /\ InProgress' = 0
      /\ cmdState' # "MEM_RD_CNT"
  BY <1>1 DEF CountNow, Strobed, InProgress
<1>6. Len(ctlFifo') \in Nat /\ Len(ctlFifo') + Strobed' + InProgress' = Len(ctlFifo) + Strobed + InProgress
  BY <1>4, <1>5, Numbers
<1> QED BY <1>2, <1>4, <1>5, <1>6, Worked

LEMMA InitCInv == Init => CInv
<1> SUFFICES ASSUME Init PROVE CInv
  OBVIOUS
<1>1. /\ cmdState = "INIT" /\ ~CMD_FIFO_RDREQ /\ ~sFifoWrreq /\ ~sWea /\ bMemNotReg = "SEL_REG"
      /\ sConfigReg = [a \in ConfigAddr |-> 0] /\ sAddrA = ZeroWord
      /\ cmdFifo = <<>> /\ ctlFifo = <<>> /\ owed = 0 /\ hostCnt = 1
  BY Zenon DEF Init
<1>2. Control
  BY <1>1, Zenon DEF Control, ReadStrobe, ReplyStrobe, WriteStrobe, Selected, MemReading, Starting
<1>3. CountNow = 1 /\ Strobed = 0 /\ InProgress = 0
  BY <1>1 DEF CountNow, Strobed, InProgress
<1>4. Counts /\ OnlyStreamOverflows /\ ReplyAccounting
  BY <1>1, <1>3, EmptyQueue
<1> QED BY <1>2, <1>4, InitTypeOK, InitPulseWindow DEF CInv

LEMMA StepCInv == CarefulHost /\ CInv /\ [Next]_vars => CInv'
<1> SUFFICES ASSUME CarefulHost, CInv, [Next]_vars PROVE CInv'
  OBVIOUS
<1>1. TypeOK' /\ PulseWindow'
  BY StepTypeOK, StepPulseWindow DEF CInv
<1>2. Control' /\ Counts' /\ OnlyStreamOverflows' /\ ReplyAccounting'
  BY InitStep, WorkStep, InterpretStep, StreamStep, ResetStep, SendStep, HostStep DEF Next, Tick
<1> QED BY <1>1, <1>2 DEF CInv

(* The PC's count of the replies it expects is what is on its way to it,   *)
(* and no reply meets a full FIFO, for every width and depth and every set *)
(* of commands of a careful PC (control_interface.vhd 241-296, 353-368).   *)
THEOREM RepliesKeptHolds == CarefulHost /\ Spec => []RepliesKept
<1>1. ASSUME CarefulHost PROVE Spec => []RepliesKept
  <2>1. CInv /\ [Next]_vars => CInv'
    BY <1>1, StepCInv
  <2>2. CInv => RepliesKept
    BY RoomForReply DEF CInv, RepliesKept
  <2> QED BY InitCInv, <2>1, <2>2, PTL DEF Spec
<1> QED BY <1>1

-----------------------------------------------------------------------------
(* The refinement of CommandServer.                                        *)
LEMMA SameNumbers ==
  /\ Server!ConfigAddr = ConfigAddr /\ Server!StatusAddr = StatusAddr /\ Server!Half = Half
  /\ Server!ZeroWord = ZeroWord /\ \A a : Server!Next32(a) = Incr(a)
  /\ Server!Idle = [kind |-> "idle", left |-> 0]
  BY DEF Server!ConfigAddr, ConfigAddr, Server!StatusAddr, StatusAddr, Server!Half, Half,
         Server!ZeroWord, ZeroWord, Server!Next32, Incr, Server!Idle

(* The server sees no change. *)
LEMMA ServerStutters ==
  ASSUME ServerCmds' = ServerCmds, ServerReplies' = ServerReplies, dataFifo' = dataFifo,
         sConfigReg' = sConfigReg, CountNow' = CountNow, sAddrA' = sAddrA, sDinReg' = sDinReg,
         mem' = mem, ServerJob' = ServerJob
  PROVE  UNCHANGED Server!vars
  BY DEF Server!vars, Server!regs

(* The memory is written in MEM_ADV only. *)
LEMMA MemoryStands ==
  ASSUME CInv, Edge, cmdState # "MEM_ADV"
  PROVE  ~sWea /\ mem' = mem /\ MEM_DOUT' = mem[sAddrA.lo] /\ ServerCmds = cmdFifo
<1>1. ~sWea
  BY Zenon DEF CInv, Control, WriteStrobe
<1> QED BY <1>1 DEF Edge, MemoryPort, ServerCmds

(* The execution of a command, as the server sees it. *)
LEMMA ServerTakes ==
  ASSUME CInv, Interpret, cmdState' # "INIT", CarefulHost
  PROVE  /\ ServerCmds = cmdFifo /\ cmdFifo # <<>> /\ cmdFifo' = Tail(cmdFifo)
         /\ CMD_FIFO_Q = Head(cmdFifo) /\ cmdHold' = Head(cmdFifo) /\ Head(cmdFifo) \in CmdWord
         /\ cmdFifo = <<Head(cmdFifo)>> \o Tail(cmdFifo)
         /\ ServerReplies = ctlFifo /\ ctlFifo' = ctlFifo /\ dataFifo' = dataFifo
         /\ CountNow = sMemioCnt /\ CountNow' = sMemioCnt' /\ mem' = mem /\ MEM_DOUT' = mem[sAddrA.lo]
         /\ ServerJob = Server!Idle
<1>1. cmdState = "INTERPRET_CMD" /\ Edge
  BY DEF Interpret, ReadRegister, ReadMemory, WriteRegister, WritePulse, WriteMemory, StartFifoRead
<1>2. CMD_FIFO_RDREQ /\ cmdFifo # <<>> /\ ~sFifoWrreq /\ bMemNotReg # "SEL_FIFO"
  BY <1>1, Zenon DEF CInv, Control, ReadStrobe, ReplyStrobe, Selected
<1>3. cmdFifo \in Seq(CmdWord)
  BY DEF CInv, TypeOK
<1>4. Head(cmdFifo) \in CmdWord /\ cmdFifo = <<Head(cmdFifo)>> \o Tail(cmdFifo)
  BY <1>2, <1>3
<1>5. cmdFifo' = Tail(cmdFifo) /\ cmdHold' = Head(cmdFifo) /\ CMD_FIFO_Q = Head(cmdFifo)
  BY <1>1, <1>2 DEF Edge, CommandFifoRead, CMD_FIFO_Q
<1>6. ctlFifo' = ctlFifo /\ dataFifo' = dataFifo
  BY <1>1, <1>2 DEF Edge, ControlFifoWrite, sFifoWren, DataFifoRead, DATA_FIFO_RDREQ
<1>7. ServerReplies = ctlFifo /\ ServerJob = Server!Idle /\ CountNow = sMemioCnt /\ CountNow' = sMemioCnt'
  BY <1>1, <1>2, SameNumbers DEF ServerReplies, Strobed, ServerJob, CountNow
<1> QED BY <1>1, <1>2, <1>4, <1>5, <1>6, <1>7, MemoryStands

(* What a read returns, and for which addresses it returns nothing but     *)
(* ones.                                                                   *)
LEMMA RegisterRead ==
  TypeOK => \A a : \A status \in Half :
    /\ RegValue(a, status) \in Half
    /\ a \in ConfigAddr => RegValue(a, status) = sConfigReg[a]
    /\ a = 16 => RegValue(a, status) = sMemioCnt
    /\ a = 17 => RegValue(a, status) = sAddrA.lo
    /\ a = 18 => RegValue(a, status) = sAddrA.hi
    /\ a \in ConfigAddr \cup StatusAddr \cup {16, 17, 18} \/ RegValue(a, status) = W - 1
<1> SUFFICES ASSUME TypeOK, NEW a, NEW status \in Half
             PROVE  /\ RegValue(a, status) \in Half
                    /\ a \in ConfigAddr => RegValue(a, status) = sConfigReg[a]
                    /\ a = 16 => RegValue(a, status) = sMemioCnt
                    /\ a = 17 => RegValue(a, status) = sAddrA.lo
                    /\ a = 18 => RegValue(a, status) = sAddrA.hi
                    /\ a \in ConfigAddr \cup StatusAddr \cup {16, 17, 18} \/ RegValue(a, status) = W - 1
  BY ZenonT(30)
<1>1. W - 1 \in Half /\ sConfigReg \in [ConfigAddr -> Half] /\ sMemioCnt \in Half
      /\ sAddrA.lo \in Half /\ sAddrA.hi \in Half
  BY HalfFacts DEF TypeOK, Word
<1>2. /\ \A x \in ConfigAddr : x \notin StatusAddr \cup {16, 17, 18}
      /\ \A x \in StatusAddr : x \notin {16, 17, 18}
  BY DEF ConfigAddr, StatusAddr
<1>3. CASE a \in ConfigAddr
  BY <1>1, <1>2, <1>3 DEF RegValue
<1>4. CASE a \in StatusAddr
  BY <1>1, <1>2, <1>4 DEF RegValue
<1>5. CASE a \notin ConfigAddr \cup StatusAddr
  BY <1>1, <1>2, <1>5 DEF RegValue
<1> QED BY <1>3, <1>4, <1>5

LEMMA ReadRegisterMaps ==
  ASSUME CInv, CarefulHost, ReadRegister
  PROVE  Server!ReadReg
<1> DEFINE c == Head(cmdFifo)
<1>1. /\ cmdState' = "WAIT_CMD" /\ UNCHANGED <<bMemNotReg, registers>>
      /\ CMD_FIFO_Q.rd /\ CMD_FIFO_Q.addr # 20
  BY DEF ReadRegister
<1>2. PICK status \in Half : Strobe(FALSE, TRUE, FALSE, RegValue(CMD_FIFO_Q.addr, status))
  BY DEF ReadRegister
<1>3. /\ ServerCmds = cmdFifo /\ cmdFifo # <<>> /\ cmdFifo' = Tail(cmdFifo) /\ CMD_FIFO_Q = c
      /\ ServerReplies = ctlFifo /\ ctlFifo' = ctlFifo /\ dataFifo' = dataFifo
      /\ CountNow = sMemioCnt /\ CountNow' = sMemioCnt' /\ mem' = mem /\ ServerJob = Server!Idle
      /\ c \in CmdWord
  BY <1>1, ServerTakes DEF Interpret
<1> DEFINE v == RegValue(c.addr, status)
<1> HIDE DEF c, v
<1>4. /\ ServerCmds' = cmdFifo' /\ ServerJob' = Server!Idle
      /\ ServerReplies' = Append(ctlFifo, [hi |-> 0, lo |-> v])
  <2>1. sWea' = FALSE /\ sFifoWrreq' = TRUE /\ sRegOut' = v
    BY <1>2, <1>3 DEF Strobe, v
  <2>2. cmdState = "INTERPRET_CMD" /\ bMemNotReg' = "SEL_REG"
    BY <1>1 DEF ReadRegister, CInv, Control, Selected
  <2>3. Strobed' = 1 /\ sFifoD' = [hi |-> 0, lo |-> v]
    BY <1>1, <2>1, <2>2 DEF Strobed, sFifoD
  <2> QED BY <1>1, <1>3, <2>1, <2>3, SameNumbers DEF ServerCmds, ServerReplies, ServerJob
<1>5. /\ v \in Half
      /\ c.addr \in ConfigAddr => v = sConfigReg[c.addr]
      /\ c.addr = 16 => v = sMemioCnt
      /\ c.addr = 17 => v = sAddrA.lo
      /\ c.addr = 18 => v = sAddrA.hi
      /\ c.addr \in ConfigAddr \cup StatusAddr \cup {16, 17, 18} \/ v = W - 1
  <2>1. TypeOK /\ status \in Half
    BY DEF CInv
  <2> QED BY <2>1, RegisterRead DEF v
<1>6. UNCHANGED <<sConfigReg, sMemioCnt, sAddrA, sDinReg>>
  BY <1>1 DEF registers
<1> QED
  BY <1>1, <1>3, <1>4, <1>5, <1>6, SameNumbers DEF Server!ReadReg, Server!Take, Server!regs, c

LEMMA ReadMemoryMaps ==
  ASSUME CInv, CarefulHost, ReadMemory
  PROVE  Server!ReadMem
<1> DEFINE c == Head(cmdFifo)
<1>1. /\ cmdState = "INTERPRET_CMD" /\ CMD_FIFO_Q.rd /\ CMD_FIFO_Q.addr = 20 /\ counterV' = sMemioCnt
      /\ bMemNotReg' = "SEL_MEM"
      /\ UNCHANGED <<sConfigReg, sDinReg, sMemioCnt>>
  BY DEF ReadMemory
<1>2. cmdState' # "INIT"
  BY DEF ReadMemory, NoStrobe
<1>3. /\ ServerCmds = cmdFifo /\ cmdFifo # <<>> /\ cmdFifo' = Tail(cmdFifo) /\ CMD_FIFO_Q = c
      /\ ServerReplies = ctlFifo /\ ctlFifo' = ctlFifo /\ dataFifo' = dataFifo
      /\ CountNow = sMemioCnt /\ CountNow' = sMemioCnt' /\ mem' = mem /\ ServerJob = Server!Idle
      /\ MEM_DOUT' = mem[sAddrA.lo]
  BY <1>2, ServerTakes DEF Interpret
<1>4. ~sFifoFull
  <2>1. Head(cmdFifo) = cmdFifo[1]
    BY <1>3 DEF CInv, TypeOK
  <2> QED BY <1>1, <1>3, <2>1, RoomForMemRead
<1>5. cmdState' = "MEM_RD_CNT" /\ sAddrA' = Incr(sAddrA) /\ Strobe(FALSE, TRUE, FALSE, 0)
  BY <1>4 DEF ReadMemory
<1>6. sMemioCnt \in Nat /\ sMemioCnt >= 1
  BY <1>3, Numbers, WAssumption DEF Half
<1>7. ServerJob' = Server!Job("mem", sMemioCnt - 1)
  BY <1>1, <1>5, <1>6, SameNumbers DEF ServerJob, Server!Job
<1>8. ServerCmds' = cmdFifo' /\ ServerReplies' = Append(ctlFifo, mem[sAddrA.lo])
  <2>1. sWea' = FALSE /\ sFifoWrreq' = TRUE
    BY <1>5 DEF Strobe
  <2> QED BY <1>1, <1>3, <1>5, <2>1 DEF ServerCmds, ServerReplies, Strobed, sFifoD
<1> HIDE DEF c
<1>9. /\ Server!Take /\ c.rd /\ c.addr = 20 /\ sMemioCnt # 0
  BY <1>1, <1>3, <1>6, <1>8 DEF Server!Take
<1> QED
  BY <1>1, <1>3, <1>5, <1>7, <1>8, <1>9, SameNumbers DEF Server!ReadMem, Server!regs, c

LEMMA WriteRegisterMaps ==
  ASSUME CInv, CarefulHost, WriteRegister \/ WritePulse
  PROVE  Server!WriteReg
<1> DEFINE c == Head(cmdFifo)
<1>1. /\ cmdState' \in {"WAIT_CMD", "PULSE_DELAY"} /\ NoStrobe
      /\ ~CMD_FIFO_Q.rd /\ CMD_FIFO_Q.addr \notin {20, 25}
  BY DEF WriteRegister, WritePulse
<1>2. /\ ServerCmds = cmdFifo /\ cmdFifo # <<>> /\ cmdFifo' = Tail(cmdFifo) /\ CMD_FIFO_Q = c
      /\ ServerReplies = ctlFifo /\ ctlFifo' = ctlFifo /\ dataFifo' = dataFifo
      /\ CountNow = sMemioCnt /\ CountNow' = sMemioCnt' /\ mem' = mem /\ ServerJob = Server!Idle
      /\ c \in CmdWord
  BY <1>1, ServerTakes DEF Interpret
<1>3. ServerCmds' = cmdFifo' /\ ServerReplies' = ctlFifo' /\ ServerJob' = ServerJob
  <2>1. sWea' = FALSE /\ sFifoWrreq' = FALSE
    BY <1>1 DEF NoStrobe, Strobe
  <2> QED BY <1>1, <1>2, <2>1, SameNumbers DEF ServerCmds, ServerReplies, Strobed, ServerJob
<1> HIDE DEF c
<1>4. /\ sConfigReg' = IF c.addr \in ConfigAddr THEN [sConfigReg EXCEPT ![c.addr] = c.data] ELSE sConfigReg
      /\ sMemioCnt' = IF c.addr = 16 THEN c.data ELSE sMemioCnt
      /\ sAddrA' = [hi |-> IF c.addr = 18 THEN c.data ELSE sAddrA.hi,
                    lo |-> IF c.addr = 17 THEN c.data ELSE sAddrA.lo]
      /\ sDinReg' = IF c.addr = 19 THEN c.data ELSE sDinReg
  <2>1. sAddrA = [hi |-> sAddrA.hi, lo |-> sAddrA.lo]
    BY DEF CInv, TypeOK, Word
  <2>2. CASE WriteRegister
    <3>1. sAddrA' = CASE c.addr = 17 -> [sAddrA EXCEPT !.lo = c.data]
                      [] c.addr = 18 -> [sAddrA EXCEPT !.hi = c.data]
                      [] OTHER  -> sAddrA
      BY <1>2, <2>2 DEF WriteRegister
    <3>2. /\ [sAddrA EXCEPT !.lo = c.data] = [hi |-> sAddrA.hi, lo |-> c.data]
          /\ [sAddrA EXCEPT !.hi = c.data] = [hi |-> c.data, lo |-> sAddrA.lo]
      BY <2>1
    <3>3. sAddrA' = [hi |-> IF c.addr = 18 THEN c.data ELSE sAddrA.hi,
                     lo |-> IF c.addr = 17 THEN c.data ELSE sAddrA.lo]
      BY <2>1, <3>1, <3>2
    <3> QED BY <1>2, <2>2, <3>3 DEF WriteRegister
  <2>3. CASE WritePulse
    <3>1. c.addr = 11 /\ UNCHANGED <<sConfigReg, sAddrA, sMemioCnt, sDinReg>>
      BY <1>2, <2>3 DEF WritePulse, addrRegs
    <3> QED BY <2>1, <3>1 DEF ConfigAddr
  <2> QED BY <2>2, <2>3
<1>5. Server!Take
  BY <1>2, <1>3 DEF Server!Take
<1> QED
  BY <1>1, <1>2, <1>3, <1>4, <1>5, SameNumbers DEF Server!WriteReg, c

(* A memory write leaves the command FIFO first, and takes effect in the   *)
(* clock after.                                                            *)
LEMMA WriteMemoryMaps ==
  ASSUME CInv, CarefulHost, WriteMemory
  PROVE  UNCHANGED Server!vars
<1>1. cmdState' = "MEM_ADV" /\ Strobe(FALSE, FALSE, TRUE, 0) /\ UNCHANGED registers
  BY DEF WriteMemory
<1>2. /\ ServerCmds = cmdFifo /\ cmdFifo' = Tail(cmdFifo) /\ cmdHold' = Head(cmdFifo)
      /\ cmdFifo = <<Head(cmdFifo)>> \o Tail(cmdFifo)
      /\ ServerReplies = ctlFifo /\ ctlFifo' = ctlFifo /\ dataFifo' = dataFifo
      /\ CountNow = sMemioCnt /\ CountNow' = sMemioCnt' /\ mem' = mem /\ ServerJob = Server!Idle
  BY <1>1, ServerTakes DEF Interpret
<1>3. sWea' = TRUE /\ sFifoWrreq' = FALSE
  BY <1>1 DEF Strobe
<1>4. ServerCmds' = ServerCmds /\ ServerReplies' = ServerReplies /\ ServerJob' = ServerJob
  BY <1>1, <1>2, <1>3, SameNumbers DEF ServerCmds, ServerReplies, Strobed, ServerJob
<1>5. UNCHANGED <<sConfigReg, sMemioCnt, sAddrA, sDinReg>>
  BY <1>1 DEF registers
<1> QED BY <1>2, <1>4, <1>5, ServerStutters

LEMMA MemAdvMaps ==
  ASSUME CInv, MemAdv
  PROVE  Server!WriteMem
<1>1. /\ cmdState = "MEM_ADV" /\ cmdState' = "WAIT_CMD" /\ sAddrA' = Incr(sAddrA) /\ NoStrobe /\ Edge
      /\ UNCHANGED <<sConfigReg, sDinReg, sMemioCnt>>
  BY DEF MemAdv
<1>2. sWea /\ ~cmdHold.rd /\ cmdHold.addr = 20 /\ sDinAHi = cmdHold.data /\ ~sFifoWrreq
  BY <1>1 DEF CInv, Control, WriteStrobe, ReplyStrobe
<1>3. /\ cmdFifo' = cmdFifo /\ CountNow' = CountNow /\ ctlFifo' = ServerReplies /\ dataFifo' = dataFifo
  BY <1>1, WorksOn
<1>4. cmdFifo \in Seq(CmdWord) /\ cmdHold \in CmdWord
  BY DEF CInv, TypeOK
<1>5. /\ ServerCmds # <<>> /\ Head(ServerCmds) = cmdHold /\ Tail(ServerCmds) = cmdFifo
  <2>1. ServerCmds = <<cmdHold>> \o cmdFifo
    BY <1>2 DEF ServerCmds
  <2>2. /\ <<cmdHold>> \o cmdFifo # <<>> /\ Head(<<cmdHold>> \o cmdFifo) = cmdHold
        /\ Tail(<<cmdHold>> \o cmdFifo) = cmdFifo
    BY <1>4
  <2> QED BY <2>1, <2>2
<1>6. sWea' = FALSE /\ sFifoWrreq' = FALSE
  BY <1>1 DEF NoStrobe, Strobe
<1>7. /\ ServerCmds' = cmdFifo /\ ServerReplies' = ServerReplies
      /\ ServerJob = Server!Idle /\ ServerJob' = Server!Idle
  BY <1>1, <1>3, <1>6, SameNumbers DEF ServerCmds, ServerReplies, Strobed, ServerJob
<1>8. mem' = [mem EXCEPT ![sAddrA.lo] = [hi |-> cmdHold.data, lo |-> sDinReg]]
  BY <1>1, <1>2 DEF Edge, MemoryPort
<1>9. Server!Take
  BY <1>5, <1>7 DEF Server!Take
<1> QED
  BY <1>1, <1>2, <1>3, <1>5, <1>7, <1>8, <1>9, SameNumbers DEF Server!WriteMem

LEMMA StartFifoReadMaps ==
  ASSUME CInv, CarefulHost, StartFifoRead
  PROVE  Server!ReadFifo
<1> DEFINE c == Head(cmdFifo)
<1>1. /\ cmdState' = "FIFO_ADV" /\ ~CMD_FIFO_Q.rd /\ CMD_FIFO_Q.addr = 25 /\ counterFIFO' = CMD_FIFO_Q.data
      /\ NoStrobe /\ UNCHANGED registers
  BY DEF StartFifoRead
<1>2. /\ ServerCmds = cmdFifo /\ cmdFifo # <<>> /\ cmdFifo' = Tail(cmdFifo) /\ CMD_FIFO_Q = c
      /\ ServerReplies = ctlFifo /\ ctlFifo' = ctlFifo /\ dataFifo' = dataFifo
      /\ CountNow = sMemioCnt /\ CountNow' = sMemioCnt' /\ mem' = mem /\ ServerJob = Server!Idle
      /\ c \in CmdWord
  BY <1>1, ServerTakes DEF Interpret
<1> HIDE DEF c
<1>3. c.data \in Nat
  BY <1>2, WAssumption DEF CmdWord, Half
<1>4. /\ ServerCmds' = cmdFifo' /\ ServerReplies' = ctlFifo'
  <2>1. sWea' = FALSE /\ sFifoWrreq' = FALSE
    BY <1>1 DEF NoStrobe, Strobe
  <2> QED BY <2>1 DEF ServerCmds, ServerReplies, Strobed
<1>5. ServerJob' = Server!Job("fifo", c.data + 1)
  BY <1>1, <1>2, <1>3 DEF ServerJob, Server!Job
<1>6. UNCHANGED <<sConfigReg, sMemioCnt, sAddrA, sDinReg>>
  BY <1>1 DEF registers
<1>7. Server!Take
  BY <1>2, <1>4 DEF Server!Take
<1> QED
  BY <1>1, <1>2, <1>4, <1>5, <1>6, <1>7 DEF Server!ReadFifo, Server!regs, c

(* The clocks that the server does not see. *)
LEMMA QuietClocks ==
  ASSUME CInv, WaitCmd \/ MemReadDone \/ PulseDelay
  PROVE  UNCHANGED Server!vars
<1>1. /\ cmdState \in {"WAIT_CMD", "MEM_RD_CNT", "PULSE_DELAY"}
      /\ cmdState' \in {"WAIT_CMD", "PULSE_DELAY", "INTERPRET_CMD"}
      /\ sWea' = FALSE /\ sFifoWrreq' = FALSE /\ Edge
      /\ UNCHANGED <<sConfigReg, sMemioCnt, sAddrA, sDinReg>>
  BY DEF WaitCmd, MemReadDone, PulseDelay, NoStrobe, Strobe, registers, addrRegs
<1>2. /\ cmdFifo' = cmdFifo /\ CountNow' = CountNow /\ ctlFifo' = ServerReplies /\ dataFifo' = dataFifo
  BY <1>1, WorksOn
<1>3. mem' = mem /\ ServerCmds = cmdFifo
  BY <1>1, MemoryStands
<1>4. ServerCmds' = ServerCmds /\ ServerReplies' = ServerReplies
  BY <1>1, <1>2, <1>3 DEF ServerCmds, ServerReplies, Strobed
<1>5. cmdState = "MEM_RD_CNT" => counterV = 1
  <2> SUFFICES ASSUME cmdState = "MEM_RD_CNT" PROVE counterV = 1
    OBVIOUS
  <2>1. Decr(counterV) = 0 /\ counterV \in 0 .. W - 1 /\ counterV >= 1
    BY DEF WaitCmd, PulseDelay, MemReadDone, CInv, TypeOK, Half, Control, MemReading
  <2> QED BY <2>1, WAssumption DEF Decr
<1>6. ServerJob' = ServerJob
  BY <1>1, <1>5 DEF ServerJob
<1> QED BY <1>1, <1>2, <1>3, <1>4, <1>6, ServerStutters

LEMMA InitRegistersMaps ==
  ASSUME CInv, InitRegisters
  PROVE  UNCHANGED Server!vars
<1>1. /\ cmdState = "INIT" /\ cmdState' = "WAIT_CMD" /\ Edge
      /\ sConfigReg' = [a \in ConfigAddr |-> 0] /\ sAddrA' = ZeroWord /\ sMemioCnt' = 1 /\ sDinReg' = sDinReg
      /\ sWea' = FALSE /\ sFifoWrreq' = FALSE
  BY DEF InitRegisters, NoStrobe, Strobe
<1>2. /\ ~CMD_FIFO_RDREQ /\ bMemNotReg # "SEL_FIFO"
      /\ sConfigReg = [a \in ConfigAddr |-> 0] /\ sAddrA = ZeroWord
  BY <1>1 DEF CInv, Control, ReadStrobe, Selected, Starting
<1>3. cmdFifo' = cmdFifo /\ ctlFifo' = ctlFifo /\ dataFifo' = dataFifo
  BY <1>1, <1>2 DEF Edge, CommandFifoRead, ControlFifoWrite, DataFifoRead, DATA_FIFO_RDREQ
<1>4. mem' = mem /\ ServerCmds = cmdFifo
  BY <1>1, MemoryStands
<1>5. /\ ServerCmds' = ServerCmds /\ ServerReplies' = ServerReplies /\ ServerJob' = ServerJob
      /\ CountNow' = CountNow
  BY <1>1, <1>3, <1>4 DEF ServerCmds, ServerReplies, Strobed, ServerJob, CountNow
<1> QED BY <1>1, <1>2, <1>3, <1>4, <1>5, ServerStutters

LEMMA MemReadNextMaps ==
  ASSUME CInv, MemReadNext
  PROVE  Server!MemWord \/ UNCHANGED Server!vars
<1>1. /\ cmdState = "MEM_RD_CNT" /\ cmdState' = "MEM_RD_CNT" /\ Decr(counterV) # 0 /\ Edge
      /\ UNCHANGED <<bMemNotReg, sConfigReg, sDinReg, sMemioCnt>>
  BY DEF MemReadNext
<1>2. /\ cmdFifo' = cmdFifo /\ CountNow' = CountNow /\ ctlFifo' = ServerReplies /\ dataFifo' = dataFifo
  BY <1>1, WorksOn
<1>3. mem' = mem /\ ServerCmds = cmdFifo /\ MEM_DOUT' = mem[sAddrA.lo]
  BY <1>1, MemoryStands
<1>4. bMemNotReg = "SEL_MEM" /\ counterV >= 2 /\ counterV \in Nat /\ Decr(counterV) = counterV - 1
  <2>1. bMemNotReg = "SEL_MEM" /\ counterV >= 1 /\ counterV \in 0 .. W - 1
    BY <1>1 DEF CInv, Control, MemReading, TypeOK, Half
  <2> QED BY <1>1, <2>1, WAssumption DEF Decr
<1>5. sWea' = FALSE
  BY DEF MemReadNext, NoStrobe, Strobe
<1>6. ServerCmds' = ServerCmds
  BY <1>2, <1>3, <1>5 DEF ServerCmds
<1>7. CASE sFifoFull
  <2>1. sFifoWrreq' = FALSE /\ counterV' = counterV /\ sAddrA' = sAddrA
    BY <1>7 DEF MemReadNext, NoStrobe, Strobe
  <2>2. ServerReplies' = ServerReplies /\ ServerJob' = ServerJob
    BY <1>1, <1>2, <2>1 DEF ServerReplies, Strobed, ServerJob
  <2> QED BY <1>1, <1>2, <1>3, <1>6, <2>1, <2>2, ServerStutters
<1>8. CASE ~sFifoFull
  <2>1. sFifoWrreq' = TRUE /\ counterV' = counterV - 1 /\ sAddrA' = Incr(sAddrA)
    BY <1>4, <1>8 DEF MemReadNext, Strobe
  <2>2. ServerReplies' = Append(ServerReplies, mem[sAddrA.lo])
    BY <1>1, <1>2, <1>3, <1>4, <2>1 DEF ServerReplies, Strobed, sFifoD
  <2>3. ServerJob = [kind |-> "mem", left |-> counterV - 1]
    BY <1>1, <1>4 DEF ServerJob
  <2>4. ServerJob' = Server!Job("mem", ServerJob.left - 1)
    <3>1. ServerJob.left = counterV - 1
      BY <2>3
    <3>2. CASE counterV = 2
      BY <1>1, <2>1, <3>1, <3>2, SameNumbers DEF ServerJob, Server!Job
    <3>3. CASE counterV # 2
      BY <1>1, <1>4, <2>1, <3>1, <3>3 DEF ServerJob, Server!Job
    <3> QED BY <3>2, <3>3
  <2>5. ServerJob.kind = "mem"
    BY <2>3
  <2> QED
    BY <1>1, <1>2, <1>3, <1>6, <2>1, <2>2, <2>4, <2>5, SameNumbers DEF Server!MemWord
<1> QED BY <1>7, <1>8

LEMMA FifoAdvMaps ==
  ASSUME CInv, FifoAdv
  PROVE  Server!FifoWord \/ UNCHANGED Server!vars
<1>1. /\ cmdState = "FIFO_ADV" /\ cmdState' \in {"FIFO_ADV", "WAIT_CMD"} /\ Edge
      /\ sWea' = FALSE /\ UNCHANGED <<sConfigReg, sDinReg, sAddrA, sMemioCnt>>
  BY DEF FifoAdv, NoStrobe, Strobe, registers
<1>2. cmdFifo' = cmdFifo /\ CountNow' = CountNow
  BY <1>1, WorksOn
<1>3. mem' = mem /\ ServerCmds = cmdFifo
  BY <1>1, MemoryStands
<1>4. ServerCmds' = ServerCmds
  BY <1>1, <1>2, <1>3 DEF ServerCmds
<1>5. /\ ServerReplies = ctlFifo /\ ServerReplies' = ctlFifo' /\ counterFIFO \in Nat
      /\ ServerJob = [kind |-> "fifo", left |-> counterFIFO + 1]
  BY <1>1, StreamMoves, WAssumption, SMTT(30) DEF ServerReplies, ServerJob, CInv, TypeOK, Half
<1>6. CASE dataFifo # <<>> /\ ~sFifoFull
  <2>1. ctlFifo' = Append(ctlFifo, Head(dataFifo)) /\ dataFifo' = Tail(dataFifo)
    BY <1>6, StreamMoves
  <2>2. ServerJob' = Server!Job("fifo", ServerJob.left - 1)
    <3>1. ServerJob.left - 1 = counterFIFO
      BY <1>5
    <3>2. CASE counterFIFO = 0
      <4>1. cmdState' = "WAIT_CMD"
        BY <1>6, <3>2 DEF FifoAdv, DATA_FIFO_EMPTY
      <4> QED BY <3>1, <3>2, <4>1, SameNumbers DEF ServerJob, Server!Job
    <3>3. CASE counterFIFO # 0
      <4>1. cmdState' = "FIFO_ADV" /\ counterFIFO' = counterFIFO - 1
        BY <1>6, <3>3 DEF FifoAdv, DATA_FIFO_EMPTY
      <4>2. counterFIFO' + 1 = counterFIFO
        BY <1>5, <4>1
      <4> QED BY <3>1, <3>3, <4>1, <4>2 DEF ServerJob, Server!Job
    <3> QED BY <3>2, <3>3
  <2>3. ServerJob.kind = "fifo"
    BY <1>5
  <2> QED
    BY <1>1, <1>2, <1>3, <1>4, <1>5, <1>6, <2>1, <2>2, <2>3 DEF Server!FifoWord, Server!regs
<1>7. CASE ~(dataFifo # <<>> /\ ~sFifoFull)
  <2>1. ctlFifo' = ctlFifo /\ dataFifo' = dataFifo
    BY <1>7, StreamMoves
  <2>2. cmdState' = "FIFO_ADV" /\ counterFIFO' = counterFIFO
    BY <1>7 DEF FifoAdv, DATA_FIFO_EMPTY
  <2>3. ServerJob' = ServerJob /\ ServerReplies' = ServerReplies
    BY <1>1, <1>5, <2>1, <2>2 DEF ServerJob
  <2> QED BY <1>1, <1>2, <1>3, <1>4, <2>1, <2>3, ServerStutters
<1> QED BY <1>6, <1>7

LEMMA ReadsThenWrites ==
  ASSUME NEW S, NEW s \in Seq(S), s # <<>>, NEW x \in S
  PROVE  Append(s, x) # <<>> /\ Append(Tail(s), x) = Tail(Append(s, x))
<1> DEFINE t == Append(Tail(s), x)
           u == Tail(Append(s, x))
<1>1. t \in Seq(S) /\ u \in Seq(S) /\ Len(t) = Len(u) /\ Len(s) \in Nat /\ Append(s, x) # <<>>
  OBVIOUS
<1>2. \A i \in 1 .. Len(t) : t[i] = u[i]
  OBVIOUS
<1> QED BY <1>1, <1>2, SMTT(30)

(* What the PC and the far ends of the FIFOs do. *)
LEMMA OutsideMaps ==
  ASSUME CInv, (\E c \in Commands : HostSend(c)) \/ HostReceive \/ Supply \/ DataClear
  PROVE  Server!Send \/ Server!Receive \/ Server!Arrive \/ Server!Clear
<1>1. UNCHANGED device /\ UNCHANGED cmdHold
  BY DEF HostSend, HostReceive, Supply, DataArrive, DataClear
<1>2. /\ UNCHANGED <<cmdState, counterV, counterFIFO, sFifoWrreq, sWea, sRegOut, bMemNotReg>>
      /\ UNCHANGED <<sConfigReg, sDinReg, sMemioCnt, sAddrA, mem, MEM_DOUT>>
  BY <1>1 DEF device, procVars, strobes, registers, memory
<1>3. ServerJob' = ServerJob /\ CountNow' = CountNow /\ Strobed' = Strobed
  BY <1>2 DEF ServerJob, CountNow, Strobed
<1>4. cmdFifo \in Seq(CmdWord) /\ cmdHold \in CmdWord /\ ctlFifo \in Seq(Word)
  BY DEF CInv, TypeOK
<1>5. UNCHANGED Server!regs /\ mem' = mem /\ ServerJob' = ServerJob
  BY <1>2, <1>3 DEF Server!regs
<1>6. Strobed = 1 => sFifoD \in Word /\ sFifoD' = sFifoD
  <2> SUFFICES ASSUME Strobed = 1 PROVE sFifoD \in Word /\ sFifoD' = sFifoD
    OBVIOUS
  <2>1. bMemNotReg # "SEL_FIFO"
    BY DEF Strobed, CInv, Control, ReplyStrobe, Selected
  <2>2. sFifoD \in Word
    BY <2>1, HalfFacts DEF CInv, TypeOK, sFifoD, Word
  <2> QED BY <1>2, <2>1, <2>2 DEF sFifoD
<1>7. ctlFifo' = ctlFifo => ServerReplies' = ServerReplies
  BY <1>3, <1>6 DEF ServerReplies
<1>8. cmdFifo' = cmdFifo => ServerCmds' = ServerCmds
  BY <1>1, <1>2 DEF ServerCmds
<1>9. ASSUME NEW c \in Commands, HostSend(c) PROVE Server!Send
  <2>1. cmdFifo' = Append(cmdFifo, c) /\ ctlFifo' = ctlFifo /\ dataFifo' = dataFifo
    BY <1>9 DEF HostSend
  <2>2. c \in CmdWord
    BY CommandsAssumption
  <2>3. ServerCmds' = Append(ServerCmds, c)
    <3>1. <<cmdHold>> \o Append(cmdFifo, c) = Append(<<cmdHold>> \o cmdFifo, c)
      BY <1>4, <2>2
    <3> QED BY <1>1, <1>2, <2>1, <3>1 DEF ServerCmds
  <2> QED BY <1>5, <1>7, <2>1, <2>3 DEF Server!Send
<1>10. CASE HostReceive
  <2>1. ctlFifo # <<>> /\ ctlFifo' = Tail(ctlFifo) /\ cmdFifo' = cmdFifo /\ dataFifo' = dataFifo
    BY <1>10 DEF HostReceive
  <2>2. ServerReplies # <<>> /\ ServerReplies' = Tail(ServerReplies)
    <3>1. CASE Strobed = 1
      <4>1. /\ Append(ctlFifo, sFifoD) # <<>>
            /\ Append(Tail(ctlFifo), sFifoD) = Tail(Append(ctlFifo, sFifoD))
        BY <1>4, <1>6, <2>1, <3>1, ReadsThenWrites
      <4> QED BY <1>3, <1>6, <2>1, <3>1, <4>1 DEF ServerReplies
    <3>2. CASE Strobed # 1
      BY <1>3, <2>1, <3>2 DEF ServerReplies
    <3> QED BY <3>1, <3>2
  <2> QED BY <1>5, <1>8, <2>1, <2>2 DEF Server!Receive
<1>11. CASE Supply
  <2>1. PICK w \in DataWords : DataArrive(w)
    BY <1>11 DEF Supply
  <2>2. dataFifo' = Append(dataFifo, w) /\ cmdFifo' = cmdFifo /\ ctlFifo' = ctlFifo
    BY <2>1 DEF DataArrive
  <2> QED BY <1>5, <1>7, <1>8, <2>2 DEF Server!Arrive
<1>12. CASE DataClear
  <2>1. dataFifo' = <<>> /\ cmdFifo' = cmdFifo /\ ctlFifo' = ctlFifo /\ sPulseReg # 0
    BY <1>12 DEF DataClear
  <2>2. cmdState \in {"PULSE_DELAY", "WAIT_CMD"}
    BY <2>1 DEF CInv, PulseWindow
  <2>3. ServerJob = Server!Idle
    BY <2>2, SameNumbers DEF ServerJob
  <2> QED BY <1>5, <1>7, <1>8, <2>1, <2>3 DEF Server!Clear
<1> QED BY <1>9, <1>10, <1>11, <1>12

LEMMA ResetMaps ==
  ASSUME Reset
  PROVE  Server!Restart
<1>1. /\ cmdState' = "INIT" /\ sWea' = FALSE /\ cmdFifo' = <<>> /\ ctlFifo' = <<>> /\ dataFifo' = <<>>
      /\ sConfigReg' = [a \in ConfigAddr |-> 0] /\ sDinReg' = 0 /\ sAddrA' = ZeroWord /\ mem' = mem
  BY DEF Reset, memory
<1>2. ServerCmds' = <<>> /\ ServerReplies' = <<>> /\ ServerJob' = Server!Idle /\ CountNow' = 1
  BY <1>1, SameNumbers DEF ServerCmds, ServerReplies, Strobed, ServerJob, CountNow
<1> QED BY <1>1, <1>2, SameNumbers DEF Server!Restart

LEMMA InitMaps == Init => Server!Init
<1> SUFFICES ASSUME Init PROVE Server!Init
  OBVIOUS
<1>1. /\ cmdState = "INIT" /\ sWea = FALSE /\ cmdFifo = <<>> /\ ctlFifo = <<>> /\ dataFifo = <<>>
      /\ sConfigReg = [a \in ConfigAddr |-> 0] /\ sDinReg = 0 /\ sAddrA = ZeroWord /\ mem = InitMem
  BY DEF Init
<1>2. ServerCmds = <<>> /\ ServerReplies = <<>> /\ ServerJob = Server!Idle /\ CountNow = 1
  BY <1>1, SameNumbers DEF ServerCmds, ServerReplies, Strobed, ServerJob, CountNow
<1> QED BY <1>1, <1>2, SameNumbers DEF Server!Init

(* Every clock of the interpreter is a step of the server, or none.        *)
LEMMA StepMaps == CarefulHost /\ CInv /\ [Next]_vars => [Server!Next]_Server!vars
<1> SUFFICES ASSUME CarefulHost, CInv, [Next]_vars PROVE Server!Next \/ UNCHANGED Server!vars
  OBVIOUS
<1>1. CASE InitRegisters \/ WaitCmd \/ MemReadDone \/ PulseDelay \/ WriteMemory
  BY <1>1, InitRegistersMaps, QuietClocks, WriteMemoryMaps
<1>2. CASE ReadRegister \/ ReadMemory \/ WriteRegister \/ WritePulse \/ StartFifoRead
  BY <1>2, ReadRegisterMaps, ReadMemoryMaps, WriteRegisterMaps, StartFifoReadMaps DEF Server!Next
<1>3. CASE MemAdv \/ MemReadNext \/ FifoAdv
  BY <1>3, MemAdvMaps, MemReadNextMaps, FifoAdvMaps DEF Server!Next
<1>4. CASE (\E c \in Commands : HostSend(c)) \/ HostReceive \/ Supply \/ DataClear
  BY <1>4, OutsideMaps DEF Server!Next
<1>5. CASE Reset
  BY <1>5, ResetMaps DEF Server!Next
<1>6. CASE UNCHANGED vars
  <2>1. /\ UNCHANGED <<cmdState, counterV, counterFIFO, sFifoWrreq, sWea, sRegOut, bMemNotReg>>
        /\ UNCHANGED <<sConfigReg, sDinReg, sMemioCnt, sAddrA, mem, MEM_DOUT>>
        /\ UNCHANGED <<cmdFifo, cmdHold, ctlFifo, dataFifo>>
    BY <1>6 DEF vars, device, procVars, strobes, registers, memory, fifos
  <2>2. Strobed' = Strobed /\ sFifoD' = sFifoD
    BY <2>1 DEF Strobed, sFifoD
  <2>3. ServerCmds' = ServerCmds /\ ServerReplies' = ServerReplies /\ ServerJob' = ServerJob
        /\ CountNow' = CountNow
    BY <2>1, <2>2 DEF ServerCmds, ServerReplies, ServerJob, CountNow
  <2> QED BY <2>1, <2>3, ServerStutters
<1> QED BY <1>1, <1>2, <1>3, <1>4, <1>5, <1>6 DEF Next, Tick, Interpret

(* The interpreter behaves like a server that executes whole commands one  *)
(* at a time, in order, and delivers every reply once and in order         *)
(* (control_interface.vhd 8-39), for every width, depth, memory and        *)
(* careful PC.                                                             *)
THEOREM ServerImplemented == CarefulHost /\ Spec => ImplementsServer
<1>1. ASSUME CarefulHost PROVE Spec => Server!Spec
  <2>1. CInv /\ [Next]_vars => CInv'
    BY <1>1, StepCInv
  <2>2. CInv /\ [Next]_vars => [Server!Next]_Server!vars
    BY <1>1, StepMaps
  <2> QED BY InitCInv, InitMaps, <2>1, <2>2, PTL DEF Spec, Server!Spec
<1> QED BY <1>1 DEF ImplementsServer
=============================================================================
