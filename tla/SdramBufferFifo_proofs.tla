----------------------- MODULE SdramBufferFifo_proofs -----------------------
(***************************************************************************)
(* Proofs about SdramBufferFifo, for every memory size, FIFO depth and     *)
(* address.  The exclusion and the types hold for every user of the        *)
(* module, calm or not.  For a calm one, reads are right and the data of a *)
(* write is never behind its command; if POST_TRIGGER is a whole number of *)
(* bursts, a stopped capture ends that far behind its trigger; and if the  *)
(* MIG has room for a word whenever it takes a command, the first capture  *)
(* after its reset stores the stream in order.                             *)
(***************************************************************************)
EXTENDS SdramBufferFifo, FiniteSetTheorems, TLAPS

(* The exclusion needs no strengthening: wr_writing can only rise at a     *)
(* wr_start_pulse and rd_reading only at a rd_start_pulse, each pulse ends *)
(* the other activity, and when they coincide the read wins.               *)
LEMMA InitOneAtATime == Init => OneAtATime
  BY Zenon DEF Init, OneAtATime

LEMMA StepOneAtATime == OneAtATime /\ [Next]_vars => OneAtATime'
<1> SUFFICES ASSUME OneAtATime, [Next]_vars PROVE OneAtATime'
  OBVIOUS
<1>1. ASSUME NEW r \in BOOLEAN, NEW w \in BOOLEAN, NEW s \in BOOLEAN, Clock(r, w, s)
      PROVE  OneAtATime'
  <2>1. wr_writing' => ~rd_start_pulse /\ (wr_start_pulse \/ wr_writing)
    BY <1>1, Zenon DEF Clock, StatusProcess
  <2>2. rd_reading' => rd_start_pulse \/ (rd_reading /\ ~wr_start_pulse)
    BY <1>1, Zenon DEF Clock, StatusProcess, ReadGoesOn
  <2> QED BY <2>1, <2>2, Zenon DEF OneAtATime
<1>2. ASSUME NEW r \in BOOLEAN, NEW w \in BOOLEAN, NEW s \in BOOLEAN, ClockInReset(r, w, s)
      PROVE  UNCHANGED status
  BY <1>2 DEF ClockInReset
<1>3. CASE AssertReset \/ Reset
  BY <1>3, Zenon DEF AssertReset, Reset, ControlReset, OneAtATime
<1>4. ASSUME UNCHANGED status PROVE OneAtATime'
  BY <1>4 DEF status, OneAtATime
<1>5. CASE ReleaseReset \/ FifoReset \/ Arrive \/ OutRead \/ UNCHANGED vars
  BY <1>5, <1>4 DEF ReleaseReset, FifoReset, Arrive, OutRead, vars
<1> QED BY <1>1, <1>2, <1>3, <1>4, <1>5 DEF Next

(* "Currently read and write are not allowed to happen simultaneously"     *)
(* (sdram_buffer_fifo.vhd 15).                                             *)
THEOREM ReadAndWriteExclude == Spec => []OneAtATime
<1>1. Init => OneAtATime
  BY InitOneAtATime
<1>2. OneAtATime /\ [Next]_vars => OneAtATime'
  BY StepOneAtATime
<1> QED BY <1>1, <1>2, PTL DEF Spec
-----------------------------------------------------------------------------
(* Addresses and words stay in their range.                                *)
LEMMA SpanPositive == Span \in Nat \ {0} /\ Addr = 0 .. 2 * Span - 1 /\ Span \in Addr /\ 0 \in Addr
<1>1. Size \in Nat \ {0} /\ Burst \in Nat \ {0}
  BY SizeAssumption
<1>2. Size * Burst \in Nat \ {0}
  BY <1>1, SMT
<1> QED BY <1>2, SMT DEF Span, Addr

LEMMA ModInRange ==
  ASSUME NEW a \in Nat, NEW n \in Nat \ {0}
  PROVE  a % n \in 0 .. n - 1
  BY SMT

LEMMA SumInRange ==
  ASSUME NEW a \in Addr, NEW n \in Nat
  PROVE  Plus(a, n) \in Addr
<1>1. a + n \in Nat /\ 2 * Span \in Nat \ {0}
  BY SpanPositive, SMT
<1> QED BY <1>1, SpanPositive, ModInRange, SMT DEF Plus

LEMMA CellInRange ==
  ASSUME NEW a \in Addr
  PROVE  Low(a) \div Burst \in 0 .. Size - 1
<1>1. Size \in Nat \ {0} /\ Burst \in Nat \ {0}
  BY SizeAssumption
<1>2. Low(a) \in 0 .. Span - 1
  BY SpanPositive, ModInRange, SMT DEF Low
<1> DEFINE l == Low(a)
           q == l \div Burst
<1>3. l \in 0 .. Size * Burst - 1
  BY <1>2 DEF Span
<1> HIDE DEF l
<1>4. q \in Nat /\ q * Burst <= l
  BY <1>1, <1>3, SMT
<1> HIDE DEF q
<1>5. ASSUME q >= Size PROVE FALSE
  <2>1. q * Burst >= Size * Burst
    BY <1>1, <1>4, <1>5, SMT
  <2> QED BY <1>1, <1>3, <1>4, <2>1, SMT
<1>6. q \in 0 .. Size - 1
  BY <1>1, <1>4, <1>5, SMT
<1> QED BY <1>6 DEF q, l

(* TypeOK by the parts of the module. *)
TypePulses == wr_start_pulse \in BOOLEAN /\ wr_stop_pulse \in BOOLEAN /\ rd_start_pulse \in BOOLEAN
TypeStatus ==
  /\ wr_addr_begin_reg \in Addr /\ wr_wrap_around_reg \in BOOLEAN
  /\ wr_writing \in BOOLEAN /\ wr_stopping \in BOOLEAN /\ wr_wrapped_i \in BOOLEAN
  /\ trigger_pointer_reg \in Addr /\ post_trigger_reg \in Addr
  /\ rd_addr_end_reg \in Addr /\ rd_reading \in BOOLEAN
TypeWriter ==
  /\ write_state \in {"W0", "W1", "W2"} /\ wr_addr_i \in Addr
  /\ indata_fifo_rden \in BOOLEAN /\ wr_wdf_wren \in BOOLEAN /\ wr_app_en \in BOOLEAN
TypeReader ==
  read_state \in {"R0", "R1", "R2", "R3"} /\ rd_addr_i \in Addr /\ rd_app_en \in BOOLEAN
TypeIn == indata \in Seq(Word) /\ Len(indata) <= InDepth /\ nextWord \in Word
TypeOut == outdata \in Seq(Word) /\ Len(outdata) <= OutDepth /\ got \in Nat
TypeData == wdf \in Seq(Word) /\ Len(wdf) <= DataDepth
TypeCommands == cmdq \in Seq([kind : {"READ", "WRITE"}, cell : 0 .. Size - 1]) /\ Len(cmdq) <= CmdqDepth
TypeAnswer == APP_RD_DATA_VALID \in BOOLEAN /\ APP_RD_DATA \in Word
TypeMem == mem \in [0 .. Size - 1 -> Word]

LEMMA TypeParts ==
  TypeOK <=> /\ TypePulses /\ TypeStatus /\ TypeWriter /\ TypeReader /\ CTRL_RESET \in BOOLEAN
             /\ TypeIn /\ TypeOut /\ TypeData /\ TypeCommands /\ TypeAnswer /\ TypeMem
             /\ starts \in 0 .. MaxStarts
  BY Zenon DEF TypeOK, TypePulses, TypeStatus, TypeWriter, TypeReader, TypeIn, TypeOut, TypeData,
               TypeCommands, TypeAnswer, TypeMem

LEMMA TypePartsAfter ==
  ASSUME TypePulses', TypeStatus', TypeWriter', TypeReader', CTRL_RESET' \in BOOLEAN,
         TypeIn', TypeOut', TypeData', TypeCommands', TypeAnswer', TypeMem', starts' \in 0 .. MaxStarts
  PROVE  TypeOK'
  BY Zenon DEF TypeOK, TypePulses, TypeStatus, TypeWriter, TypeReader, TypeIn, TypeOut, TypeData,
               TypeCommands, TypeAnswer, TypeMem

LEMMA WordFacts == Words \in Nat \ {0} /\ 0 \in Word /\ \A w \in Word : Succ(w) \in Word
<1>1. Words \in Nat \ {0}
  BY SizeAssumption
<1>2. ASSUME NEW w \in Word PROVE Succ(w) \in Word
  <2>1. w + 1 \in Nat
    BY <1>1, SMT DEF Word
  <2> QED BY <1>1, <2>1, ModInRange DEF Succ, Word
<1> QED BY <1>1, <1>2, SMT DEF Word

LEMMA TailFacts ==
  ASSUME NEW S, NEW q \in Seq(S), q # <<>>
  PROVE  Tail(q) \in Seq(S) /\ Len(Tail(q)) = Len(q) - 1 /\ Head(q) \in S /\ Len(q) \in Nat \ {0}
  BY SMT

LEMMA ControlResetTypes ==
  ASSUME ControlReset, TypeStatus
  PROVE  TypeStatus' /\ write_state' = "W0" /\ wr_addr_i' \in Addr /\ TypeReader'
<1>1. 0 \in Addr /\ Span \in Addr
  BY SpanPositive
<1>2. TypeStatus'
  BY <1>1, Zenon DEF ControlReset, TypeStatus
<1>3. write_state' = "W0" /\ wr_addr_i' \in Addr /\ TypeReader'
  BY <1>1, Zenon DEF ControlReset, TypeReader
<1> QED BY <1>2, <1>3

LEMMA InitType == Init => TypeOK
<1> SUFFICES ASSUME Init PROVE TypeOK
  OBVIOUS
<1>1. 0 \in Addr /\ Span \in Addr /\ 0 \in Word
  BY SpanPositive, WordFacts
<1>2. TypePulses /\ TypeStatus /\ TypeWriter /\ TypeReader /\ CTRL_RESET \in BOOLEAN
  BY <1>1, Zenon DEF Init, TypePulses, TypeStatus, TypeWriter, TypeReader
<1>3. indata = <<>> /\ outdata = <<>> /\ nextWord = 0 /\ wdf = <<>> /\ cmdq = <<>>
      /\ APP_RD_DATA_VALID = FALSE /\ APP_RD_DATA = 0 /\ got = 0 /\ starts = 0
      /\ mem = [a \in 0 .. Size - 1 |-> 0]
  BY Zenon DEF Init
<1>4. TypeIn /\ TypeOut /\ TypeData /\ TypeCommands
  BY <1>1, <1>3, SizeAssumption, SMT DEF TypeIn, TypeOut, TypeData, TypeCommands
<1>5. TypeAnswer /\ TypeMem
  BY <1>1, <1>3, Zenon DEF TypeAnswer, TypeMem
<1>6. starts \in 0 .. MaxStarts
  BY <1>3, FlagsAssumption, SMT
<1> QED BY <1>2, <1>4, <1>5, <1>6, TypeParts

(* What a clock keeps, process by process. *)
LEMMA StatusKeepsType ==
  ASSUME TypeStatus, TypeWriter, StatusProcess, TypePulses
  PROVE  TypeStatus'
<1>1. wr_addr_begin_reg' \in Addr /\ wr_wrap_around_reg' \in BOOLEAN
  BY AddrAssumption, FlagsAssumption, Zenon DEF StatusProcess, TypeStatus
<1>2. wr_writing' \in BOOLEAN /\ wr_stopping' \in BOOLEAN /\ wr_wrapped_i' \in BOOLEAN /\ rd_reading' \in BOOLEAN
  BY Zenon DEF StatusProcess
<1>3. post_trigger_reg' \in Addr /\ rd_addr_end_reg' \in Addr
  BY AddrAssumption, Zenon DEF StatusProcess, TypeStatus
<1>4. trigger_pointer_reg' \in Addr
  BY Zenon DEF StatusProcess, TypeStatus, TypeWriter
<1> QED BY <1>1, <1>2, <1>3, <1>4 DEF TypeStatus

LEMMA WriterKeepsType ==
  ASSUME TypeStatus, TypeWriter, wr_addr_begin_reg' \in Addr, NEW r \in BOOLEAN, NEW w \in BOOLEAN,
         WritePresent \/ WriteData(w) \/ WriteCommand(r)
  PROVE  TypeWriter'
<1>1. Plus(wr_addr_i, Burst) \in Addr
  BY SumInRange, SizeAssumption DEF TypeWriter
<1>2. \A state \in {"W0", "W1", "W2"}, addr \in Addr :
        WriterGoes(state, addr) => write_state' \in {"W0", "W1", "W2"} /\ wr_addr_i' \in Addr
  BY Zenon DEF WriterGoes
<1>3. \A a, b, c \in BOOLEAN :
        WriterStrobe(a, b, c) => indata_fifo_rden' \in BOOLEAN /\ wr_wdf_wren' \in BOOLEAN /\ wr_app_en' \in BOOLEAN
  BY Zenon DEF WriterStrobe
<1>4. wr_addr_i \in Addr
  BY DEF TypeWriter
<1>5. CASE WritePresent
  <2>1. \/ WriterStrobe(TRUE, TRUE, FALSE) /\ WriterGoes("W1", wr_addr_i)
        \/ WriterStrobe(FALSE, FALSE, FALSE) /\ WriterGoes("W0", wr_addr_i)
    BY <1>5, Zenon DEF WritePresent
  <2> QED BY <1>2, <1>3, <1>4, <2>1, Zenon DEF TypeWriter
<1>6. CASE WriteData(w)
  <2>1. \/ WriterStrobe(FALSE, FALSE, TRUE) /\ WriterGoes("W2", wr_addr_i)
        \/ WriterStrobe(FALSE, TRUE, FALSE) /\ WriterGoes("W1", wr_addr_i)
    BY <1>6, Zenon DEF WriteData
  <2> QED BY <1>2, <1>3, <1>4, <2>1, Zenon DEF TypeWriter
<1>7. CASE WriteCommand(r)
  <2>1. PICK state \in {"W0", "W2"}, addr \in {wr_addr_i, Plus(wr_addr_i, Burst)} :
          WriterStrobe(FALSE, FALSE, ~r) /\ WriterGoes(state, addr)
    BY <1>7, Zenon DEF WriteCommand
  <2> QED BY <1>1, <1>2, <1>3, <1>4, <2>1, Zenon DEF TypeWriter
<1> QED BY <1>5, <1>6, <1>7

LEMMA ReaderKeepsType ==
  ASSUME TypeReader, NEW r \in BOOLEAN, ReadProcess(r)
  PROVE  TypeReader'
<1> DEFINE n == ReadNext(r)
<1>1. n.state \in {"R0", "R1", "R2", "R3"} /\ n.inc \in Nat
  BY SizeAssumption, SMT DEF ReadNext, TypeReader
<1>2. rd_app_en' = (rd_reading /\ n.en)
      /\ read_state' \in {"R1", n.state, "R0"} /\ rd_addr_i' \in {0, Plus(rd_addr_i, n.inc)}
  BY SMT DEF ReadProcess
<1> HIDE DEF n
<1>3. Plus(rd_addr_i, n.inc) \in Addr /\ 0 \in Addr
  BY <1>1, SumInRange, SpanPositive DEF TypeReader
<1>4. read_state' \in {"R0", "R1", "R2", "R3"} /\ rd_addr_i' \in Addr
  BY <1>1, <1>2, <1>3, Zenon
<1>5. rd_app_en' \in BOOLEAN
  BY <1>2, Zenon
<1> QED BY <1>4, <1>5 DEF TypeReader

LEMMA OutKeepsType ==
  ASSUME TypeOut, TypeAnswer, OutputFifo
  PROVE  TypeOut'
<1>1. \/ outdata' = outdata
      \/ ~OutFull /\ outdata' = Append(outdata, APP_RD_DATA)
  BY Zenon DEF OutputFifo
<1>2. got' \in {0, got + 1, got}
  BY SMT DEF OutputFifo
<1> QED BY <1>1, <1>2, SizeAssumption, SMT DEF TypeOut, TypeAnswer, OutFull

LEMMA InKeepsType ==
  ASSUME TypeIn, InputFifo, nextWord' = nextWord
  PROVE  TypeIn'
<1>1. indata' = indata \/ (indata # <<>> /\ indata' = Tail(indata))
  BY Zenon DEF InputFifo
<1>2. indata # <<>> => Tail(indata) \in Seq(Word) /\ Len(Tail(indata)) <= InDepth
  BY TailFacts, SizeAssumption, SMT DEF TypeIn
<1> QED BY <1>1, <1>2, Zenon DEF TypeIn

LEMMA ShownWord == ASSUME TypeIn PROVE indata_fifo_dout \in Word
<1>1. CASE indata # <<>>
  <2>1. Head(indata) \in Word
    BY <1>1, SMT DEF TypeIn
  <2> QED BY <1>1, <2>1 DEF indata_fifo_dout
<1>2. CASE indata = <<>>
  <2>1. nextWord + Words - 1 \in Nat /\ Words \in Nat \ {0}
    BY WordFacts, SMT DEF TypeIn, Word
  <2>2. (nextWord + Words - 1) % Words \in Word
    BY <2>1, ModInRange DEF Word
  <2> QED BY <1>2, <2>2 DEF indata_fifo_dout
<1> QED BY <1>1, <1>2

(* The queues of the MIG, the SDRAM and the answer. *)
LEMMA DataKeepsType ==
  ASSUME TypeIn, TypeData, NEW r \in BOOLEAN, NEW w \in BOOLEAN, NEW s \in BOOLEAN, Mig(r, w, s)
  PROVE  TypeData'
<1> DEFINE words == IF wr_wdf_wren /\ w THEN Append(wdf, indata_fifo_dout) ELSE wdf
<1>1. (w => Len(wdf) < DataDepth) /\ (s => Serveable)
      /\ wdf' = (IF s /\ Head(cmdq).kind = "WRITE" THEN Tail(words) ELSE words)
  BY SMT DEF Mig
<1>2. words \in Seq(Word) /\ Len(words) <= DataDepth /\ (wdf # <<>> => words # <<>>)
  BY <1>1, ShownWord, SizeAssumption, SMT DEF TypeData
<1> HIDE DEF words
<1>3. CASE s /\ Head(cmdq).kind = "WRITE"
  <2>1. words # <<>> /\ wdf' = Tail(words)
    BY <1>1, <1>2, <1>3, Zenon DEF Serveable
  <2> QED BY <1>2, <2>1, TailFacts, SizeAssumption, SMT DEF TypeData
<1>4. CASE ~(s /\ Head(cmdq).kind = "WRITE")
  BY <1>1, <1>2, <1>4, Zenon DEF TypeData
<1> QED BY <1>3, <1>4

LEMMA CommandsKeepType ==
  ASSUME TypeCommands, TypeWriter, TypeReader,
         NEW r \in BOOLEAN, NEW w \in BOOLEAN, NEW s \in BOOLEAN, Mig(r, w, s)
  PROVE  TypeCommands'
<1> DEFINE Command == [kind : {"READ", "WRITE"}, cell : 0 .. Size - 1]
           c == [kind |-> APP_CMD, cell |-> APP_ADDR \div Burst]
           cmds == IF APP_EN /\ r THEN Append(cmdq, c) ELSE cmdq
<1>1. (r => Len(cmdq) < CmdqDepth) /\ (s => cmdq # <<>>) /\ cmdq' = (IF s THEN Tail(cmds) ELSE cmds)
  BY SMT DEF Mig, Serveable
<1>2. APP_CMD \in {"READ", "WRITE"}
  BY DEF APP_CMD
<1>3. APP_ADDR \div Burst \in 0 .. Size - 1
  BY CellInRange DEF APP_ADDR, TypeWriter, TypeReader
<1>4. c \in Command
  BY <1>2, <1>3
<1> HIDE DEF c, Command
<1>5. cmdq \in Seq(Command) /\ Len(cmdq) <= CmdqDepth
  BY DEF TypeCommands, Command
<1>6. cmds \in Seq(Command) /\ Len(cmds) <= CmdqDepth /\ (cmdq # <<>> => cmds # <<>>)
  BY <1>1, <1>4, <1>5, SizeAssumption, SMT
<1> HIDE DEF cmds
<1>7. cmdq' \in Seq(Command) /\ Len(cmdq') <= CmdqDepth
  <2>1. CASE s
    BY <1>1, <1>6, <2>1, TailFacts, SizeAssumption, SMT
  <2>2. CASE ~s
    BY <1>1, <1>6, <2>2
  <2> QED BY <2>1, <2>2
<1> QED BY <1>7 DEF TypeCommands, Command

LEMMA MemoryKeepsType ==
  ASSUME TypeCommands, TypeData, TypeMem,
         NEW r \in BOOLEAN, NEW w \in BOOLEAN, NEW s \in BOOLEAN, Mig(r, w, s)
  PROVE  TypeMem' /\ TypeAnswer'
<1>1. /\ s => Serveable
      /\ mem' = IF s /\ Head(cmdq).kind = "WRITE" THEN [mem EXCEPT ![Head(cmdq).cell] = Head(wdf)] ELSE mem
      /\ APP_RD_DATA_VALID' = (s /\ Head(cmdq).kind = "READ")
      /\ APP_RD_DATA' = IF s /\ Head(cmdq).kind = "READ" THEN mem[Head(cmdq).cell] ELSE 0
  BY SMT DEF Mig
<1>2. s => Head(cmdq).cell \in 0 .. Size - 1
  <2>1. s => Head(cmdq) \in [kind : {"READ", "WRITE"}, cell : 0 .. Size - 1]
    BY <1>1, TailFacts, Zenon DEF TypeCommands, Serveable
  <2> QED BY <2>1
<1>3. s /\ Head(cmdq).kind = "WRITE" => Head(wdf) \in Word
  BY <1>1, TailFacts, Zenon DEF TypeData, Serveable
<1>4. TypeMem'
  <2>1. CASE s /\ Head(cmdq).kind = "WRITE"
    BY <1>1, <1>2, <1>3, <2>1 DEF TypeMem
  <2>2. CASE ~(s /\ Head(cmdq).kind = "WRITE")
    BY <1>1, <2>2, Zenon DEF TypeMem
  <2> QED BY <2>1, <2>2
<1>5. TypeAnswer'
  <2>1. APP_RD_DATA' \in Word
    BY <1>1, <1>2, WordFacts DEF TypeMem
  <2> QED BY <1>1, <2>1, Zenon DEF TypeAnswer
<1> QED BY <1>4, <1>5

LEMMA PulsesKeepType ==
  ASSUME Pulses, starts \in 0 .. MaxStarts
  PROVE  TypePulses' /\ starts' \in 0 .. MaxStarts
<1>1. TypePulses'
  BY Zenon DEF Pulses, TypePulses
<1>2. (wr_start_pulse' => starts < MaxStarts) /\ starts' = (IF wr_start_pulse' THEN starts + 1 ELSE starts)
  BY Zenon DEF Pulses
<1> QED BY <1>1, <1>2, FlagsAssumption, SMT

LEMMA StepType ==
  ASSUME TypeOK, [Next]_vars
  PROVE  TypeOK'
<1>0. /\ TypePulses /\ TypeStatus /\ TypeWriter /\ TypeReader /\ CTRL_RESET \in BOOLEAN
      /\ TypeIn /\ TypeOut /\ TypeData /\ TypeCommands /\ TypeAnswer /\ TypeMem
      /\ starts \in 0 .. MaxStarts
  BY TypeParts
<1>1. ASSUME NEW r \in BOOLEAN, NEW w \in BOOLEAN, NEW s \in BOOLEAN, Clock(r, w, s)
      PROVE  TypeOK'
  <2>1. /\ StatusProcess /\ (WritePresent \/ WriteData(w) \/ WriteCommand(r)) /\ ReadProcess(r)
        /\ InputFifo /\ OutputFifo /\ Mig(r, w, s) /\ Pulses
        /\ CTRL_RESET' = CTRL_RESET /\ nextWord' = nextWord
    BY <1>1 DEF Clock
  <2>2. TypeStatus' /\ TypeReader'
    BY <1>0, <2>1, StatusKeepsType, ReaderKeepsType
  <2>3. TypeWriter'
    BY <1>0, <2>1, <2>2, WriterKeepsType DEF TypeStatus
  <2>4. TypeIn' /\ TypeOut'
    BY <1>0, <2>1, InKeepsType, OutKeepsType
  <2>5. TypeData' /\ TypeCommands' /\ TypeMem' /\ TypeAnswer'
    BY <1>0, <2>1, DataKeepsType, CommandsKeepType, MemoryKeepsType
  <2>6. TypePulses' /\ starts' \in 0 .. MaxStarts /\ CTRL_RESET' \in BOOLEAN
    BY <1>0, <2>1, PulsesKeepType
  <2> QED BY <2>2, <2>3, <2>4, <2>5, <2>6, TypePartsAfter
<1>2. ASSUME NEW r \in BOOLEAN, NEW w \in BOOLEAN, NEW s \in BOOLEAN, ClockInReset(r, w, s)
      PROVE  TypeOK'
  <2>1. /\ InputFifo /\ OutputFifo /\ Mig(r, w, s) /\ Pulses
        /\ CTRL_RESET' = CTRL_RESET /\ nextWord' = nextWord /\ UNCHANGED <<status, writer, reader>>
    BY <1>2 DEF ClockInReset
  <2>2. TypeStatus' /\ TypeReader' /\ TypeWriter'
    BY <1>0, <2>1 DEF status, writer, reader, TypeStatus, TypeReader, TypeWriter
  <2>4. TypeIn' /\ TypeOut'
    BY <1>0, <2>1, InKeepsType, OutKeepsType
  <2>5. TypeData' /\ TypeCommands' /\ TypeMem' /\ TypeAnswer'
    BY <1>0, <2>1, DataKeepsType, CommandsKeepType, MemoryKeepsType
  <2>6. TypePulses' /\ starts' \in 0 .. MaxStarts /\ CTRL_RESET' \in BOOLEAN
    BY <1>0, <2>1, PulsesKeepType
  <2> QED BY <2>2, <2>4, <2>5, <2>6, TypePartsAfter
<1>3. CASE AssertReset
  <2>1. /\ ControlReset /\ CTRL_RESET' = TRUE
        /\ UNCHANGED <<pulses, indata_fifo_rden, wr_wdf_wren, wr_app_en, buffers, mig, got, starts>>
    BY <1>3 DEF AssertReset
  <2>2. TypeStatus' /\ TypeReader' /\ TypeWriter'
    BY <1>0, <2>1, ControlResetTypes DEF TypeWriter
  <2>3. TypePulses' /\ TypeIn' /\ TypeOut' /\ TypeData' /\ TypeCommands' /\ TypeAnswer' /\ TypeMem'
    BY <1>0, <2>1 DEF pulses, buffers, mig, response, TypePulses, TypeIn, TypeOut, TypeData,
                      TypeCommands, TypeAnswer, TypeMem
  <2> QED BY <1>0, <2>1, <2>2, <2>3, TypePartsAfter
<1>4. CASE Reset
  <2>1. TypeStatus' /\ TypeReader' /\ TypeWriter' /\ TypePulses' /\ CTRL_RESET' \in BOOLEAN
    <3>1. ControlReset /\ indata_fifo_rden' = FALSE /\ wr_wdf_wren' = FALSE /\ wr_app_en' = FALSE
      BY <1>4, Zenon DEF Reset
    <3>2. TypePulses' /\ CTRL_RESET' \in BOOLEAN
      BY <1>4, Zenon DEF Reset, TypePulses
    <3> QED BY <1>0, <3>1, <3>2, ControlResetTypes DEF TypeWriter
  <2>2. /\ indata' = <<>> /\ outdata' = <<>> /\ wdf' = <<>> /\ cmdq' = <<>>
        /\ APP_RD_DATA_VALID' = FALSE /\ APP_RD_DATA' = 0 /\ got' = 0 /\ starts' = 0
        /\ nextWord' = nextWord /\ mem' = mem
    BY <1>4 DEF Reset
  <2>3. TypeIn' /\ TypeOut' /\ TypeData' /\ TypeCommands' /\ starts' \in 0 .. MaxStarts
    BY <1>0, <2>2, SizeAssumption, FlagsAssumption, SMT DEF TypeIn, TypeOut, TypeData, TypeCommands
  <2>4. TypeAnswer' /\ TypeMem'
    BY <1>0, <2>2, WordFacts, Zenon DEF TypeAnswer, TypeMem
  <2> QED BY <2>1, <2>3, <2>4, TypePartsAfter
<1>5. CASE FifoReset \/ Arrive \/ OutRead
  <2>1. UNCHANGED <<pulses, status, writer, reader, CTRL_RESET, mig, got, starts>>
    BY <1>5 DEF FifoReset, Arrive, OutRead
  <2>2. /\ TypePulses' /\ TypeStatus' /\ TypeWriter' /\ TypeReader' /\ CTRL_RESET' \in BOOLEAN
        /\ TypeData' /\ TypeCommands' /\ TypeAnswer' /\ TypeMem' /\ starts' \in 0 .. MaxStarts
    BY <1>0, <2>1 DEF pulses, status, writer, reader, mig, response, TypePulses, TypeStatus,
                      TypeWriter, TypeReader, TypeData, TypeCommands, TypeAnswer, TypeMem
  <2>3. TypeIn'
    <3>1. CASE indata' = <<>> /\ nextWord' = nextWord
      BY <1>0, <3>1, SizeAssumption, SMT DEF TypeIn
    <3>2. CASE Len(indata) < InDepth /\ indata' = Append(indata, nextWord) /\ nextWord' = Succ(nextWord)
      BY <1>0, <3>2, WordFacts, SizeAssumption, SMT DEF TypeIn
    <3>3. CASE indata' = indata /\ nextWord' = nextWord
      BY <1>0, <3>3 DEF TypeIn
    <3> QED BY <1>5, <3>1, <3>2, <3>3 DEF FifoReset, Arrive, OutRead
  <2>4. TypeOut'
    <3>1. got' = got
      BY <2>1
    <3>2. CASE outdata' = <<>>
      BY <1>0, <3>1, <3>2, SizeAssumption, SMT DEF TypeOut
    <3>3. CASE outdata # <<>> /\ outdata' = Tail(outdata)
      BY <1>0, <3>1, <3>3, TailFacts, SizeAssumption, SMT DEF TypeOut
    <3>4. CASE outdata' = outdata
      BY <1>0, <3>1, <3>4 DEF TypeOut
    <3> QED BY <1>5, <3>2, <3>3, <3>4 DEF FifoReset, Arrive, OutRead
  <2> QED BY <2>2, <2>3, <2>4, TypePartsAfter
<1>6. CASE ReleaseReset \/ UNCHANGED vars
  <2>1. UNCHANGED <<pulses, status, writer, reader, buffers, mig, got, starts>> /\ CTRL_RESET' \in BOOLEAN
    BY <1>0, <1>6 DEF ReleaseReset, vars
  <2> QED BY <1>0, <2>1, TypePartsAfter
          DEF pulses, status, writer, reader, buffers, mig, response, TypePulses, TypeStatus,
              TypeWriter, TypeReader, TypeIn, TypeOut, TypeData, TypeCommands, TypeAnswer, TypeMem
<1> QED BY <1>1, <1>2, <1>3, <1>4, <1>5, <1>6 DEF Next

(* Addresses never leave their registers, no FIFO is written when it is    *)
(* full and every access of the MIG is to a cell of the memory, whatever   *)
(* the users of the module do (sdram_buffer_fifo.vhd 230-433).             *)
THEOREM TypeCorrect == Spec => []TypeOK
<1>1. Init => TypeOK
  BY InitType
<1>2. TypeOK /\ [Next]_vars => TypeOK'
  BY StepType
<1> QED BY <1>1, <1>2, PTL DEF Spec
-----------------------------------------------------------------------------
(* Reads, for users that wait until everything has settled (Calm) and an   *)
(* RD_ADDR_END that is a multiple of the burst.                            *)
ReadUser == Calm /\ \A e \in RdEnds : \E k \in Nat : e = k * Burst

(* A command of the reader is in the MIG, or its answer is on the bus. *)
Asked ==
  \/ /\ cmdq = <<[kind |-> "READ", cell |-> Low(rd_addr_i) \div Burst]>> /\ ~APP_RD_DATA_VALID
  \/ cmdq = <<>> /\ APP_RD_DATA_VALID /\ APP_RD_DATA = mem[Low(rd_addr_i) \div Burst]

(* A read by the state of its process: no command, a command offered, a    *)
(* command asked.                                                          *)
NothingAsked == read_state = "R1" /\ cmdq = <<>> /\ ~APP_RD_DATA_VALID /\ ~rd_app_en
Offered ==
  /\ read_state = "R2" /\ cmdq = <<>> /\ ~APP_RD_DATA_VALID /\ rd_app_en /\ ~OutFull
  /\ rd_addr_i < rd_addr_end_reg
AskedFor == read_state = "R3" /\ ~rd_app_en /\ ~OutFull /\ Asked /\ rd_addr_i < rd_addr_end_reg
WriterRests == ~wr_writing /\ ~wr_app_en /\ ~wr_wdf_wren /\ write_state = "W0"
Reading ==
  /\ ~wr_start_pulse /\ ~rd_start_pulse /\ ~CTRL_RESET
  /\ WriterRests
  /\ NothingAsked \/ Offered \/ AskedFor
  /\ rd_addr_i = got * Burst /\ rd_addr_i <= rd_addr_end_reg

Aligned == \E k \in Nat : rd_addr_end_reg = k * Burst
Started ==
  rd_start_pulse => /\ ~wr_start_pulse /\ ~CTRL_RESET /\ ~rd_reading /\ WriterRests
                    /\ cmdq = <<>> /\ ~APP_RD_DATA_VALID /\ ~rd_app_en

RInv == TypeOK /\ Aligned /\ Started /\ (rd_reading => Reading)

LEMMA NextMultiple ==
  ASSUME NEW g \in Nat, NEW k \in Nat, NEW b \in Nat \ {0}, g * b < k * b
  PROVE  g * b + b <= k * b /\ (g + 1) * b = g * b + b
<1>1. g < k
  <2> SUFFICES ASSUME g >= k PROVE FALSE
    BY SMT
  <2>1. g * b >= k * b
    BY SMT
  <2> QED BY <2>1, SMT
<1>2. (k - g - 1) \in Nat
  BY <1>1, SMT
<1>3. (k - g - 1) * b >= 0
  BY <1>2, SMT
<1> QED BY <1>3, SMT

LEMMA MigIdle ==
  ASSUME NEW r \in BOOLEAN, NEW w \in BOOLEAN, NEW s \in BOOLEAN, Mig(r, w, s), cmdq = <<>>
  PROVE  /\ ~APP_RD_DATA_VALID' /\ mem' = mem
         /\ APP_EN /\ r => cmdq' = <<[kind |-> APP_CMD, cell |-> APP_ADDR \div Burst]>>
         /\ ~(APP_EN /\ r) => cmdq' = <<>>
<1>1. ~s
  BY DEF Mig, Serveable
<1>2. /\ cmdq' = IF APP_EN /\ r THEN Append(cmdq, [kind |-> APP_CMD, cell |-> APP_ADDR \div Burst]) ELSE cmdq
      /\ mem' = mem /\ ~APP_RD_DATA_VALID'
  BY <1>1, SMT DEF Mig
<1>3. \A c : Append(<<>>, c) = <<c>>
  BY SMT
<1> QED BY <1>2, <1>3

(* The address of a cell that is read stands while it is asked for. *)
LEMMA AddressStands == ASSUME TypeOK PROVE Plus(rd_addr_i, 0) = rd_addr_i
<1>1. rd_addr_i \in 0 .. 2 * Span - 1 /\ Span \in Nat \ {0}
  BY SpanPositive DEF TypeOK
<1>2. \A a, n \in Nat : a < n => (a + 0) % n = a
  BY SMT
<1>3. rd_addr_i \in Nat /\ 2 * Span \in Nat /\ rd_addr_i < 2 * Span
  BY <1>1, SMT
<1> QED BY <1>2, <1>3 DEF Plus

(* A clock in a read that goes on, up to the process of the reader. *)
LEMMA ReadingGoesOn ==
  ASSUME ReadUser, RInv, rd_reading, NEW r \in BOOLEAN, NEW w \in BOOLEAN, NEW s \in BOOLEAN, Clock(r, w, s)
  PROVE  /\ ~wr_start_pulse' /\ ~rd_start_pulse' /\ ~CTRL_RESET' /\ WriterRests'
         /\ rd_reading' = ~ReadDone /\ rd_addr_end_reg' = rd_addr_end_reg
         /\ read_state' = ReadNext(r).state /\ rd_app_en' = ReadNext(r).en
         /\ rd_addr_i' = Plus(rd_addr_i, ReadNext(r).inc)
         /\ OutputFifo /\ Mig(r, w, s)
<1>1. ~wr_start_pulse /\ ~rd_start_pulse /\ ~CTRL_RESET /\ WriterRests
  BY DEF RInv, Reading
<1>2. ~wr_start_pulse' /\ ~rd_start_pulse' /\ ~CTRL_RESET'
  BY <1>1, Zenon DEF Clock, Pulses, Quiet, ReadUser
<1>3. /\ StatusProcess /\ (WritePresent \/ WriteData(w) \/ WriteCommand(r)) /\ ReadProcess(r)
      /\ OutputFifo /\ Mig(r, w, s)
  BY DEF Clock
<1>4. ~wr_writing' /\ rd_reading' = ~ReadDone /\ rd_addr_end_reg' = rd_addr_end_reg
  BY <1>1, <1>3, Zenon DEF StatusProcess, ReadGoesOn, WriterRests
<1>5. WritePresent
  BY <1>1, <1>3, SMT DEF WriterRests, WriteData, WriteCommand
<1>6. ~wr_app_en' /\ ~wr_wdf_wren' /\ write_state' = "W0"
  BY <1>1, <1>5, Zenon DEF WritePresent, WriterStrobe, WriterGoes, WriterRests
<1>7. /\ read_state' = ReadNext(r).state /\ rd_app_en' = (rd_reading /\ ReadNext(r).en)
      /\ rd_addr_i' = Plus(rd_addr_i, ReadNext(r).inc)
  BY <1>1, <1>3, SMT DEF ReadProcess
<1>8. ReadNext(r).en \in BOOLEAN
  BY SMT DEF ReadNext
<1> QED BY <1>2, <1>3, <1>4, <1>6, <1>7, <1>8, Zenon DEF WriterRests

LEMMA ReadingStep ==
  ASSUME ReadUser, RInv, rd_reading, rd_reading',
         NEW r \in BOOLEAN, NEW w \in BOOLEAN, NEW s \in BOOLEAN, Clock(r, w, s)
  PROVE  Reading'
<1>0. Reading /\ TypeOK
  BY DEF RInv
<1>1. /\ ~wr_start_pulse' /\ ~rd_start_pulse' /\ ~CTRL_RESET' /\ WriterRests'
      /\ ~ReadDone /\ rd_addr_end_reg' = rd_addr_end_reg
      /\ read_state' = ReadNext(r).state /\ rd_app_en' = ReadNext(r).en
      /\ rd_addr_i' = Plus(rd_addr_i, ReadNext(r).inc)
      /\ OutputFifo /\ Mig(r, w, s)
  BY ReadingGoesOn
<1>2. /\ rd_addr_i \in Nat /\ rd_addr_end_reg \in Nat /\ rd_addr_end_reg < 2 * Span /\ Span \in Nat
      /\ got \in Nat /\ Burst \in Nat \ {0} /\ rd_addr_i < rd_addr_end_reg
  BY <1>0, <1>1, SpanPositive, SizeAssumption, SMT DEF TypeOK, ReadDone
<1>3. APP_EN = rd_app_en /\ APP_CMD = "READ" /\ APP_ADDR = Low(rd_addr_i)
  <2>1. ~wr_writing /\ ~wr_app_en /\ rd_app_en \in BOOLEAN
    BY <1>0 DEF Reading, WriterRests, TypeOK
  <2> QED BY <2>1, Zenon DEF APP_EN, APP_CMD, APP_ADDR
<1>4. Plus(rd_addr_i, 0) = rd_addr_i
  BY <1>0, AddressStands
<1>5. ~rd_start_pulse /\ rd_addr_i = got * Burst
  BY <1>0 DEF Reading
<1>6. CASE NothingAsked
  <2>1. outdata' = outdata /\ got' = got
    BY <1>1, <1>5, <1>6, SMT DEF OutputFifo, outdata_fifo_wren, NothingAsked
  <2>2. cmdq' = <<>> /\ ~APP_RD_DATA_VALID'
    BY <1>1, <1>3, <1>6, MigIdle DEF NothingAsked
  <2>3. CASE r /\ ~OutFull
    <3>1. ReadNext(r) = [en |-> TRUE, state |-> "R2", inc |-> 0]
      BY <1>6, <2>3, SMT DEF ReadNext, NothingAsked
    <3>3. read_state' = "R2" /\ rd_app_en' = TRUE /\ rd_addr_i' = rd_addr_i
      BY <1>1, <1>4, <3>1, SMT
    <3>4. ~OutFull'
      BY <2>1, <2>3 DEF OutFull
    <3>2. Offered'
      BY <1>1, <1>2, <2>2, <3>3, <3>4, SMT DEF Offered
    <3> QED BY <1>1, <1>2, <1>4, <1>5, <2>1, <3>1, <3>2, SMT DEF Reading
  <2>4. CASE ~(r /\ ~OutFull)
    <3>1. ReadNext(r) = [en |-> FALSE, state |-> "R1", inc |-> 0]
      BY <1>6, <2>4, SMT DEF ReadNext, NothingAsked
    <3>2. NothingAsked'
      BY <1>1, <2>2, <3>1, SMT DEF NothingAsked
    <3> QED BY <1>1, <1>2, <1>4, <1>5, <2>1, <3>1, <3>2, SMT DEF Reading
  <2> QED BY <2>3, <2>4
<1>7. CASE Offered
  <2>1. outdata' = outdata /\ got' = got
    BY <1>1, <1>5, <1>7, SMT DEF OutputFifo, outdata_fifo_wren, Offered
  <2>2. CASE r
    <3>1. ReadNext(r) = [en |-> FALSE, state |-> "R3", inc |-> 0]
      BY <1>7, <2>2, SMT DEF ReadNext, Offered
    <3>2. cmdq' = <<[kind |-> "READ", cell |-> Low(rd_addr_i) \div Burst]>> /\ ~APP_RD_DATA_VALID'
      BY <1>1, <1>3, <1>7, <2>2, MigIdle DEF Offered
    <3>3. rd_addr_i' = rd_addr_i
      BY <1>1, <1>4, <3>1, SMT
    <3>4. Asked'
      BY <3>2, <3>3, Zenon DEF Asked, Low
    <3>5. AskedFor'
      BY <1>1, <1>2, <1>7, <2>1, <3>1, <3>3, <3>4, SMT DEF AskedFor, Offered, OutFull
    <3> QED BY <1>1, <1>2, <1>5, <2>1, <3>3, <3>5, SMT DEF Reading
  <2>3. CASE ~r
    <3>1. ReadNext(r) = [en |-> TRUE, state |-> "R2", inc |-> 0]
      BY <1>7, <2>3, SMT DEF ReadNext, Offered
    <3>2. cmdq' = <<>> /\ ~APP_RD_DATA_VALID'
      BY <1>1, <1>3, <1>7, <2>3, MigIdle DEF Offered
    <3>3. rd_addr_i' = rd_addr_i
      BY <1>1, <1>4, <3>1, SMT
    <3>4. Offered'
      BY <1>1, <1>2, <1>7, <2>1, <3>1, <3>2, <3>3, SMT DEF Offered, OutFull
    <3> QED BY <1>1, <1>2, <1>5, <2>1, <3>3, <3>4, SMT DEF Reading
  <2> QED BY <2>2, <2>3
<1>8. CASE AskedFor /\ ~APP_RD_DATA_VALID
  <2>1. outdata' = outdata /\ got' = got
    BY <1>1, <1>5, <1>8, SMT DEF OutputFifo, outdata_fifo_wren
  <2>2. ReadNext(r) = [en |-> FALSE, state |-> "R3", inc |-> 0]
    BY <1>8, SMT DEF ReadNext, AskedFor
  <2>3. rd_addr_i' = rd_addr_i
    BY <1>1, <1>4, <2>2, SMT
  <2> DEFINE a == Low(rd_addr_i) \div Burst
             c == [kind |-> "READ", cell |-> a]
  <2>4. cmdq = <<c>>
    BY <1>8 DEF AskedFor, Asked
  <2>5. Head(cmdq) = c /\ Tail(cmdq) = <<>> /\ c.kind = "READ" /\ c.cell = a
    BY <2>4
  <2> HIDE DEF a, c
  <2>6. ~(APP_EN /\ r)
    BY <1>3, <1>8 DEF AskedFor
  <2>7. cmdq' = (IF s THEN Tail(cmdq) ELSE cmdq) /\ mem' = mem
        /\ APP_RD_DATA_VALID' = s /\ APP_RD_DATA' = (IF s THEN mem[a] ELSE 0)
    BY <1>1, <2>5, <2>6, SMT DEF Mig
  <2>8. Asked'
    <3>1. CASE s
      BY <2>3, <2>5, <2>7, <3>1, Zenon DEF Asked, Low, a
    <3>2. CASE ~s
      BY <2>3, <2>4, <2>7, <3>2, Zenon DEF Asked, Low, a, c
    <3> QED BY <3>1, <3>2
  <2>9. AskedFor'
    BY <1>1, <1>2, <1>8, <2>1, <2>2, <2>3, <2>8, SMT DEF AskedFor, OutFull
  <2> QED BY <1>1, <1>2, <1>5, <2>1, <2>3, <2>9, SMT DEF Reading
<1>9. CASE AskedFor /\ APP_RD_DATA_VALID
  <2>1. got' = got + 1
    BY <1>1, <1>5, <1>9, SMT DEF OutputFifo, outdata_fifo_wren
  <2>2. ReadNext(r) = [en |-> FALSE, state |-> "R1", inc |-> Burst]
    BY <1>9, SMT DEF ReadNext, AskedFor
  <2>3. cmdq = <<>> /\ ~rd_app_en
    BY <1>9 DEF AskedFor, Asked
  <2>4. cmdq' = <<>> /\ ~APP_RD_DATA_VALID'
    BY <1>1, <1>3, <2>3, MigIdle
  <2>5. NothingAsked'
    BY <1>1, <2>2, <2>4, SMT DEF NothingAsked
  <2>6. PICK k \in Nat : rd_addr_end_reg = k * Burst
    BY DEF RInv, Aligned
  <2>7. rd_addr_i + Burst <= rd_addr_end_reg /\ (got + 1) * Burst = rd_addr_i + Burst
    BY <1>2, <1>5, <2>6, NextMultiple
  <2>8. Plus(rd_addr_i, Burst) = rd_addr_i + Burst
    <3>1. \A x, n \in Nat : x < n => x % n = x
      BY SMT
    <3>2. rd_addr_i + Burst \in Nat /\ 2 * Span \in Nat /\ rd_addr_i + Burst < 2 * Span
      BY <1>2, <2>7, SMT
    <3> QED BY <3>1, <3>2 DEF Plus
  <2>9. rd_addr_i' = rd_addr_i + Burst
    BY <1>1, <2>2, <2>8, SMT
  <2> QED BY <1>1, <2>1, <2>5, <2>7, <2>9, SMT DEF Reading
<1> QED BY <1>0, <1>6, <1>7, <1>8, <1>9 DEF Reading

(* The clock that begins a read. *)
LEMMA StartStep ==
  ASSUME ReadUser, RInv, rd_start_pulse,
         NEW r \in BOOLEAN, NEW w \in BOOLEAN, NEW s \in BOOLEAN, Clock(r, w, s)
  PROVE  Reading' /\ Aligned'
<1>1. /\ ~wr_start_pulse /\ ~CTRL_RESET /\ ~rd_reading /\ WriterRests
      /\ cmdq = <<>> /\ ~APP_RD_DATA_VALID /\ ~rd_app_en
  BY DEF RInv, Started
<1>2. ~wr_start_pulse' /\ ~rd_start_pulse' /\ ~CTRL_RESET'
  BY <1>1, Zenon DEF Clock, Pulses, Quiet, ReadUser
<1>3. /\ StatusProcess /\ (WritePresent \/ WriteData(w) \/ WriteCommand(r)) /\ ReadProcess(r)
      /\ OutputFifo /\ Mig(r, w, s)
  BY DEF Clock
<1>4. ~wr_writing' /\ rd_addr_end_reg' \in RdEnds
  BY <1>1, <1>3, Zenon DEF StatusProcess, WriterRests
<1>5. WritePresent
  BY <1>1, <1>3, SMT DEF WriterRests, WriteData, WriteCommand
<1>6. WriterRests'
  BY <1>1, <1>4, <1>5, Zenon DEF WritePresent, WriterStrobe, WriterGoes, WriterRests
<1>7. read_state' = "R1" /\ rd_app_en' = FALSE /\ rd_addr_i' = 0
  BY <1>1, <1>3, Zenon DEF ReadProcess
<1>8. got' = 0
  BY <1>3, SMT DEF OutputFifo
<1>9. cmdq' = <<>> /\ ~APP_RD_DATA_VALID'
  BY <1>1, <1>3, MigIdle DEF APP_EN, WriterRests
<1>10. rd_addr_end_reg' \in Nat /\ 0 * Burst = 0
  BY <1>4, AddrAssumption, SizeAssumption, SpanPositive, SMT
<1>11. Reading'
  BY <1>2, <1>6, <1>7, <1>8, <1>9, <1>10, SMT DEF Reading, NothingAsked
<1>12. Aligned'
  BY <1>4 DEF ReadUser, Aligned
<1> QED BY <1>11, <1>12

(* A clock of the module or one in its reset, seen from the pulses: a      *)
(* start comes only when everything rests, and leaves it at rest.          *)
LEMMA ClockStarted ==
  ASSUME ReadUser, RInv, NEW r \in BOOLEAN, NEW w \in BOOLEAN, NEW s \in BOOLEAN,
         Clock(r, w, s) \/ ClockInReset(r, w, s)
  PROVE  Started'
<1> SUFFICES ASSUME rd_start_pulse'
             PROVE  /\ ~wr_start_pulse' /\ ~CTRL_RESET' /\ ~rd_reading' /\ WriterRests'
                    /\ cmdq' = <<>> /\ ~APP_RD_DATA_VALID' /\ ~rd_app_en'
  BY DEF Started
<1>1. Quiet /\ ~CTRL_RESET /\ ~wr_start_pulse'
  BY Zenon DEF Clock, ClockInReset, Pulses, ReadUser
<1>2. Clock(r, w, s)
  BY <1>1 DEF ClockInReset
<1>3. /\ StatusProcess /\ (WritePresent \/ WriteData(w) \/ WriteCommand(r)) /\ ReadProcess(r)
      /\ Mig(r, w, s) /\ CTRL_RESET' = CTRL_RESET
  BY <1>2 DEF Clock
<1>4. ~wr_writing' /\ ~rd_reading'
  BY <1>1, <1>3, Zenon DEF StatusProcess, Quiet
<1>5. WritePresent
  BY <1>1, <1>3, SMT DEF Quiet, WriteData, WriteCommand
<1>6. WriterRests'
  BY <1>1, <1>4, <1>5, Zenon DEF WritePresent, WriterStrobe, WriterGoes, WriterRests, Quiet
<1>7. ~rd_app_en'
  BY <1>1, <1>3, Zenon DEF ReadProcess, Quiet
<1>8. cmdq' = <<>> /\ ~APP_RD_DATA_VALID'
  BY <1>1, <1>3, MigIdle DEF APP_EN, Quiet
<1> QED BY <1>1, <1>3, <1>4, <1>6, <1>7, <1>8

LEMMA StepRInv ==
  ASSUME ReadUser, RInv, [Next]_vars
  PROVE  RInv'
<1>0. TypeOK /\ TypeOK' /\ Calm
  BY StepType DEF RInv, ReadUser
<1>1. ASSUME NEW r \in BOOLEAN, NEW w \in BOOLEAN, NEW s \in BOOLEAN, Clock(r, w, s)
      PROVE  RInv'
  <2>1. Started'
    BY <1>1, ClockStarted
  <2>2. CASE rd_start_pulse
    BY <1>0, <1>1, <2>1, <2>2, StartStep DEF RInv
  <2>3. CASE ~rd_start_pulse
    <3>1. rd_addr_end_reg' = rd_addr_end_reg
      BY <1>1, <2>3, Zenon DEF Clock, StatusProcess
    <3>2. Aligned'
      BY <3>1 DEF RInv, Aligned
    <3>3. CASE rd_reading
      BY <1>0, <1>1, <2>1, <3>2, <3>3, ReadingStep DEF RInv
    <3>4. CASE ~rd_reading
      <4>1. ~rd_reading'
        BY <1>1, <2>3, <3>4, Zenon DEF Clock, StatusProcess
      <4> QED BY <1>0, <2>1, <3>2, <4>1 DEF RInv
    <3> QED BY <3>3, <3>4
  <2> QED BY <2>2, <2>3
<1>2. ASSUME NEW r \in BOOLEAN, NEW w \in BOOLEAN, NEW s \in BOOLEAN, ClockInReset(r, w, s)
      PROVE  RInv'
  <2>1. Started'
    BY <1>2, ClockStarted
  <2>2. CTRL_RESET /\ rd_reading' = rd_reading /\ rd_addr_end_reg' = rd_addr_end_reg
    BY <1>2 DEF ClockInReset, status
  <2>3. ~rd_reading
    BY <2>2 DEF RInv, Reading
  <2>4. Aligned'
    BY <2>2 DEF RInv, Aligned
  <2> QED BY <1>0, <2>1, <2>2, <2>3, <2>4 DEF RInv
<1>3. CASE AssertReset
  <2>1. Quiet /\ rd_start_pulse' = rd_start_pulse /\ ControlReset
    BY <1>0, <1>3 DEF AssertReset, pulses
  <2>2. ~rd_start_pulse' /\ ~rd_reading' /\ rd_addr_end_reg' = Size * Burst
    BY <2>1 DEF Quiet, ControlReset, Span
  <2> QED BY <1>0, <2>2, SizeAssumption DEF RInv, Aligned, Started
<1>4. CASE Reset
  <2>1. ~rd_start_pulse' /\ ControlReset
    BY <1>4 DEF Reset
  <2>2. ~rd_reading' /\ rd_addr_end_reg' = Size * Burst
    BY <2>1 DEF ControlReset, Span
  <2> QED BY <1>0, <2>1, <2>2, SizeAssumption DEF RInv, Aligned, Started
<1>5. CASE ReleaseReset
  <2>1. CTRL_RESET /\ ~CTRL_RESET' /\ UNCHANGED <<pulses, status>>
    BY <1>5 DEF ReleaseReset
  <2>2. ~rd_start_pulse' /\ ~rd_reading'
    BY <2>1 DEF RInv, Started, Reading, pulses, status
  <2>3. Aligned'
    BY <2>1 DEF RInv, Aligned, status
  <2> QED BY <1>0, <2>2, <2>3 DEF RInv, Started
<1>6. CASE FifoReset
  <2>1. Quiet /\ UNCHANGED <<pulses, status>>
    BY <1>0, <1>6 DEF FifoReset
  <2>2. ~rd_start_pulse' /\ ~rd_reading'
    BY <2>1 DEF Quiet, pulses, status
  <2>3. Aligned'
    BY <2>1 DEF RInv, Aligned, status
  <2> QED BY <1>0, <2>2, <2>3 DEF RInv, Started
<1>7. CASE Arrive \/ OutRead \/ UNCHANGED vars
  <2>1. UNCHANGED <<pulses, status, writer, reader, CTRL_RESET, mig, got>>
    BY <1>7 DEF Arrive, OutRead, vars
  <2>2. Started' /\ Aligned'
    BY <2>1 DEF RInv, Aligned, Started, WriterRests, pulses, status, writer, reader, mig, response
  <2>3. ~OutFull => ~OutFull'
    <3>1. outdata' = outdata \/ (outdata # <<>> /\ outdata' = Tail(outdata))
      BY <1>7 DEF Arrive, OutRead, vars, buffers
    <3>2. outdata \in Seq(Word) /\ Len(outdata) <= OutDepth /\ OutDepth \in Nat
      BY <1>0, SizeAssumption DEF TypeOK
    <3>3. outdata # <<>> => Len(Tail(outdata)) # OutDepth
      BY <3>2, TailFacts, SMT
    <3> QED BY <3>1, <3>3 DEF OutFull
  <2>4. rd_reading' => Reading'
    BY <2>1, <2>3 DEF RInv, Reading, WriterRests, NothingAsked, Offered, AskedFor, Asked,
                      pulses, status, writer, reader, mig, response, Low
  <2> QED BY <1>0, <2>2, <2>4 DEF RInv
<1> QED BY <1>1, <1>2, <1>3, <1>4, <1>5, <1>6, <1>7 DEF Next

LEMMA InitRInv == Init => RInv
<1> SUFFICES ASSUME Init PROVE RInv
  OBVIOUS
<1>1. rd_start_pulse = FALSE /\ rd_reading = FALSE /\ rd_addr_end_reg = Size * Burst
  BY DEF Init, Span
<1> QED BY <1>1, InitType, SizeAssumption DEF RInv, Aligned, Started

LEMMA ReadsAreRight == RInv => ReadRight
<1> SUFFICES ASSUME RInv PROVE ReadRight
  OBVIOUS
<1>1. AnswerInTime
  BY DEF RInv, Reading, NothingAsked, Offered, AskedFor, Asked, AnswerInTime, outdata_fifo_wren
<1>2. ReadComplete
  <2> SUFFICES ASSUME rd_reading, ReadDone PROVE got * Burst = rd_addr_end_reg
    BY DEF ReadComplete
  <2>1. rd_addr_i = got * Burst /\ rd_addr_i <= rd_addr_end_reg /\ rd_addr_i >= rd_addr_end_reg
    BY DEF RInv, Reading, ReadDone
  <2>2. rd_addr_i \in Nat /\ rd_addr_end_reg \in Nat
    BY SpanPositive, SMT DEF RInv, TypeOK
  <2> QED BY <2>1, <2>2, SMT
<1> QED BY <1>1, <1>2 DEF ReadRight

(* A read delivers each word below RD_ADDR_END once, and every answer is   *)
(* to its own command and finds room in the output FIFO, however long the  *)
(* MIG and the reader of the FIFO take (sdram_buffer_fifo.vhd 385-433).    *)
THEOREM ReadRightHolds == ReadUser /\ Spec => []ReadRight
<1>1. ASSUME ReadUser PROVE Spec => []ReadRight
  <2>1. Init => RInv
    BY InitRInv
  <2>2. RInv /\ [Next]_vars => RInv'
    BY <1>1, StepRInv
  <2> QED BY <2>1, <2>2, ReadsAreRight, PTL DEF Spec
<1> QED BY <1>1
-----------------------------------------------------------------------------
(* The write process and the status process under calm users: the strobes  *)
(* are those of the state, a capture has the port of the MIG to itself,    *)
(* and it starts with nothing of an earlier one under way.                 *)
WInv ==
  /\ TypeOK /\ OneAtATime
  /\ wr_wdf_wren <=> write_state = "W1"
  /\ write_state = "W2" => wr_app_en
  /\ wr_app_en /\ wr_writing => write_state = "W2"
  /\ wr_writing \/ wr_start_pulse => ~rd_app_en /\ ~rd_start_pulse /\ ~rd_reading /\ ~CTRL_RESET
  /\ wr_start_pulse => ~wr_writing /\ write_state = "W0" /\ ~wr_app_en /\ cmdq = <<>>
  /\ CTRL_RESET => write_state = "W0" /\ ~wr_app_en /\ ~wr_writing /\ ~rd_app_en

LEMMA InitWInv == Init => WInv
<1> SUFFICES ASSUME Init PROVE WInv
  OBVIOUS
<1>1. TypeOK /\ OneAtATime
  BY InitType, InitOneAtATime
<1>2. /\ ~wr_wdf_wren /\ write_state = "W0" /\ ~wr_app_en /\ ~wr_writing /\ ~wr_start_pulse /\ ~CTRL_RESET
  BY DEF Init
<1> QED BY <1>1, <1>2 DEF WInv

(* The write process at a clock, by the state that it leaves. *)
LEMMA WriterSteps ==
  ASSUME TypeOK, NEW r \in BOOLEAN, NEW w \in BOOLEAN, WritePresent \/ WriteData(w) \/ WriteCommand(r)
  PROVE  /\ \/ wr_start_pulse /\ write_state' = "W0" /\ wr_addr_i' = wr_addr_begin_reg'
            \/ ~wr_start_pulse /\ (write_state' # "W0" => write_state' \in {"W1", "W2"})
         /\ write_state = "W0" => /\ ~wr_app_en'
                                  /\ wr_wdf_wren' <=> indata # <<>> /\ wr_writing
                                  /\ indata_fifo_rden' <=> indata # <<>> /\ wr_writing
                                  /\ ~wr_start_pulse => /\ write_state' = (IF indata # <<>> /\ wr_writing THEN "W1" ELSE "W0")
                                                        /\ wr_addr_i' = wr_addr_i
         /\ write_state = "W1" => /\ (wr_app_en' <=> w) /\ (wr_wdf_wren' <=> ~w) /\ ~indata_fifo_rden'
                                  /\ ~wr_start_pulse => /\ write_state' = (IF w THEN "W2" ELSE "W1")
                                                        /\ wr_addr_i' = wr_addr_i
         /\ write_state = "W2" => /\ (wr_app_en' <=> ~r) /\ ~wr_wdf_wren' /\ ~indata_fifo_rden'
                                  /\ ~wr_start_pulse => /\ write_state' = (IF r \/ ~wr_writing THEN "W0" ELSE "W2")
                                                        /\ wr_addr_i' = (IF r THEN Plus(wr_addr_i, Burst) ELSE wr_addr_i)
<1>1. CASE WritePresent
  BY <1>1, SMT DEF WritePresent, WriterStrobe, WriterGoes, TypeOK
<1>2. CASE WriteData(w)
  BY <1>2, SMT DEF WriteData, WriterStrobe, WriterGoes, TypeOK
<1>3. CASE WriteCommand(r)
  <2>1. /\ write_state = "W2" /\ wr_app_en' = ~r /\ wr_wdf_wren' = FALSE /\ indata_fifo_rden' = FALSE
    BY <1>3, Zenon DEF WriteCommand, WriterStrobe
  <2>2. wr_app_en' <=> ~r
    BY <2>1, Zenon
  <2>3. /\ wr_start_pulse => write_state' = "W0" /\ wr_addr_i' = wr_addr_begin_reg'
        /\ ~wr_start_pulse => /\ write_state' = (IF r \/ ~wr_writing THEN "W0" ELSE "W2")
                              /\ wr_addr_i' = (IF r THEN Plus(wr_addr_i, Burst) ELSE wr_addr_i)
    BY <1>3, Zenon DEF WriteCommand, WriterGoes
  <2> QED BY <2>1, <2>2, <2>3, SMT
<1> QED BY <1>1, <1>2, <1>3

(* The pulses that calm users send. *)
LEMMA CalmPulses ==
  ASSUME Calm, Pulses
  PROVE  /\ wr_start_pulse' => Quiet /\ ~CTRL_RESET /\ ~wr_wrapped_i /\ ~rd_start_pulse'
         /\ rd_start_pulse' => Quiet /\ ~CTRL_RESET /\ ~wr_start_pulse'
  BY Zenon DEF Pulses

LEMMA StepWInv ==
  ASSUME Calm, WInv, [Next]_vars
  PROVE  WInv'
<1>0. TypeOK /\ TypeOK' /\ OneAtATime'
  BY StepType, StepOneAtATime DEF WInv
<1>1. ASSUME NEW r \in BOOLEAN, NEW w \in BOOLEAN, NEW s \in BOOLEAN, Clock(r, w, s)
      PROVE  WInv'
  <2>1. /\ StatusProcess /\ (WritePresent \/ WriteData(w) \/ WriteCommand(r)) /\ ReadProcess(r)
        /\ Mig(r, w, s) /\ Pulses /\ CTRL_RESET' = CTRL_RESET /\ ~CTRL_RESET
    BY <1>1 DEF Clock
  <2>2. /\ wr_writing' => ~rd_start_pulse /\ (wr_start_pulse \/ wr_writing)
        /\ rd_reading' => rd_start_pulse \/ (rd_reading /\ ~wr_start_pulse)
    BY <2>1, Zenon DEF StatusProcess, ReadGoesOn
  <2>3. rd_app_en' => rd_reading
    BY <2>1, Zenon DEF ReadProcess
  <2>4. wr_start_pulse' => Quiet /\ ~rd_start_pulse'
    BY <2>1, CalmPulses
  <2>5. rd_start_pulse' => Quiet
    BY <2>1, CalmPulses
  <2>6. (wr_wdf_wren' <=> write_state' = "W1") /\ (write_state' = "W2" => wr_app_en')
    BY <1>0, <2>1, WriterSteps, SMTT(30) DEF WInv, TypeOK
  <2>7. wr_app_en' /\ wr_writing' => write_state' = "W2"
    BY <1>0, <2>1, <2>2, WriterSteps, SMTT(30) DEF WInv, TypeOK
  <2>8. wr_writing' \/ wr_start_pulse' => ~rd_app_en' /\ ~rd_start_pulse' /\ ~rd_reading'
    BY <2>2, <2>3, <2>4, <2>5 DEF WInv, Quiet, OneAtATime
  <2>9. ASSUME wr_start_pulse'
        PROVE  ~wr_writing' /\ write_state' = "W0" /\ ~wr_app_en' /\ cmdq' = <<>>
    <3>1. /\ Quiet /\ ~wr_writing /\ ~wr_start_pulse /\ write_state = "W0" /\ ~wr_app_en /\ ~rd_app_en
          /\ cmdq = <<>>
      BY <2>4, <2>9 DEF Quiet
    <3>2. ~wr_writing' /\ write_state' = "W0" /\ ~wr_app_en'
      BY <1>0, <2>1, <2>2, <3>1, WriterSteps
    <3>3. cmdq' = <<>>
      BY <2>1, <3>1, MigIdle DEF APP_EN
    <3> QED BY <3>2, <3>3
  <2> QED BY <1>0, <2>1, <2>6, <2>7, <2>8, <2>9 DEF WInv
<1>2. ASSUME NEW r \in BOOLEAN, NEW w \in BOOLEAN, NEW s \in BOOLEAN, ClockInReset(r, w, s)
      PROVE  WInv'
  <2>1. /\ CTRL_RESET /\ CTRL_RESET' = CTRL_RESET /\ Pulses /\ UNCHANGED <<status, writer, reader>>
    BY <1>2 DEF ClockInReset
  <2>2. ~wr_start_pulse'
    BY <2>1, CalmPulses
  <2> QED BY <1>0, <2>1, <2>2 DEF WInv, status, writer, reader
<1>3. CASE AssertReset
  <2>1. Quiet /\ ControlReset /\ CTRL_RESET' = TRUE /\ UNCHANGED <<pulses, wr_wdf_wren, wr_app_en>>
    BY <1>3 DEF AssertReset
  <2>2. /\ ~wr_start_pulse' /\ ~wr_writing' /\ write_state' = "W0" /\ ~wr_wdf_wren' /\ ~wr_app_en'
        /\ ~rd_app_en'
    BY <2>1 DEF Quiet, ControlReset, pulses
  <2> QED BY <1>0, <2>1, <2>2 DEF WInv
<1>4. CASE Reset
  <2>1. /\ ~wr_start_pulse' /\ ~wr_writing' /\ write_state' = "W0" /\ ~wr_wdf_wren' /\ ~wr_app_en'
        /\ ~CTRL_RESET'
    BY <1>4 DEF Reset, ControlReset
  <2> QED BY <1>0, <2>1 DEF WInv
<1>5. CASE ReleaseReset
  <2>1. CTRL_RESET /\ ~CTRL_RESET' /\ UNCHANGED <<pulses, status, writer, reader, mig>>
    BY <1>5 DEF ReleaseReset
  <2> QED BY <1>0, <2>1 DEF WInv, pulses, status, writer, reader, mig
<1>6. CASE FifoReset \/ Arrive \/ OutRead \/ UNCHANGED vars
  <2>1. UNCHANGED <<pulses, status, writer, reader, CTRL_RESET, mig>>
    BY <1>6 DEF FifoReset, Arrive, OutRead, vars
  <2> QED BY <1>0, <2>1 DEF WInv, pulses, status, writer, reader, mig
<1> QED BY <1>1, <1>2, <1>3, <1>4, <1>5, <1>6 DEF Next
-----------------------------------------------------------------------------
(* The commands and the words of the MIG at a clock: what it has, with     *)
(* what it takes, less what it serves.                                     *)
Commands == [kind : {"READ", "WRITE"}, cell : 0 .. Size - 1]
Asking == [kind |-> APP_CMD, cell |-> APP_ADDR \div Burst]
WithCommand(r) == IF APP_EN /\ r THEN Append(cmdq, Asking) ELSE cmdq
WithWord(w) == IF wr_wdf_wren /\ w THEN Append(wdf, indata_fifo_dout) ELSE wdf

LEMMA MigParts ==
  ASSUME NEW r \in BOOLEAN, NEW w \in BOOLEAN, NEW s \in BOOLEAN, Mig(r, w, s)
  PROVE  /\ s => cmdq # <<>> /\ (Head(cmdq).kind = "WRITE" => wdf # <<>>)
         /\ cmdq' = IF s THEN Tail(WithCommand(r)) ELSE WithCommand(r)
         /\ wdf' = IF s /\ Head(cmdq).kind = "WRITE" THEN Tail(WithWord(w)) ELSE WithWord(w)
         /\ mem' = IF s /\ Head(cmdq).kind = "WRITE"
                   THEN [mem EXCEPT ![Head(cmdq).cell] = Head(wdf)] ELSE mem
         /\ ~Stall => (w <=> Len(wdf) < DataDepth)
  BY SMT DEF Mig, Serveable, WithCommand, WithWord, Asking

LEMMA AskingIsCommand == ASSUME TypeOK PROVE Asking \in Commands
<1>1. APP_CMD \in {"READ", "WRITE"}
  BY DEF APP_CMD
<1>2. APP_ADDR \div Burst \in 0 .. Size - 1
  BY CellInRange DEF APP_ADDR, TypeOK
<1> QED BY <1>1, <1>2 DEF Asking, Commands

LEMMA QueueTypes ==
  ASSUME TypeOK
  PROVE  /\ cmdq \in Seq(Commands) /\ wdf \in Seq(Word) /\ indata \in Seq(Word) /\ indata_fifo_dout \in Word
         /\ \A r, w \in BOOLEAN : WithCommand(r) \in Seq(Commands) /\ WithWord(w) \in Seq(Word)
<1>1. cmdq \in Seq(Commands) /\ wdf \in Seq(Word) /\ indata \in Seq(Word)
  BY DEF TypeOK, Commands
<1>2. indata_fifo_dout \in Word
  BY ShownWord, TypeParts
<1>3. Asking \in Commands
  BY AskingIsCommand
<1>4. /\ Append(cmdq, Asking) \in Seq(Commands)
      /\ Append(wdf, indata_fifo_dout) \in Seq(Word)
  BY <1>1, <1>2, <1>3, SMT
<1> QED BY <1>1, <1>2, <1>4, Zenon DEF WithCommand, WithWord

(* The elements of a queue that grows or is served. *)
LEMMA AppendElements ==
  ASSUME NEW S, NEW q \in Seq(S), NEW x \in S
  PROVE  /\ Append(q, x) \in Seq(S) /\ Append(q, x) # <<>>
         /\ Len(Append(q, x)) = Len(q) + 1 /\ Append(q, x)[Len(q) + 1] = x
         /\ \A i \in 1 .. Len(q) : Append(q, x)[i] = q[i]
         /\ Head(Append(q, x)) = IF q = <<>> THEN x ELSE Head(q)
  BY SMT

LEMMA TailElements ==
  ASSUME NEW S, NEW q \in Seq(S), q # <<>>
  PROVE  /\ Tail(q) \in Seq(S) /\ Len(Tail(q)) = Len(q) - 1 /\ Len(q) \in Nat \ {0} /\ Head(q) = q[1]
         /\ \A i \in 1 .. Len(q) - 1 : Tail(q)[i] = q[i + 1]
  BY SMT

(* How many write commands a queue holds. *)
WriteAt(q) == {i \in 1 .. Len(q) : q[i].kind = "WRITE"}

LEMMA WritesFinite ==
  ASSUME NEW q \in Seq(Commands)
  PROVE  IsFiniteSet(WriteAt(q)) /\ WritesIn(q) = Cardinality(WriteAt(q)) /\ WritesIn(q) \in Nat
<1>1. IsFiniteSet(1 .. Len(q))
  BY FS_Interval, SMT
<1>2. IsFiniteSet(WriteAt(q))
  BY <1>1, FS_Subset DEF WriteAt
<1> QED BY <1>2, FS_CardinalityType DEF WritesIn, WriteAt

LEMMA WritesAppend ==
  ASSUME NEW q \in Seq(Commands), NEW c \in Commands
  PROVE  WritesIn(Append(q, c)) = WritesIn(q) + (IF c.kind = "WRITE" THEN 1 ELSE 0)
<1> DEFINE a == Append(q, c)
<1>1. a \in Seq(Commands) /\ Len(a) = Len(q) + 1 /\ a[Len(q) + 1] = c
      /\ (\A i \in 1 .. Len(q) : a[i] = q[i]) /\ Len(q) \in Nat
  BY AppendElements
<1> HIDE DEF a
<1>2. /\ WritesIn(a) = Cardinality(WriteAt(a)) /\ WritesIn(q) = Cardinality(WriteAt(q))
      /\ IsFiniteSet(WriteAt(q)) /\ Cardinality(WriteAt(q)) \in Nat
  BY <1>1, WritesFinite
<1>3. CASE c.kind = "WRITE"
  <2>1. WriteAt(a) = WriteAt(q) \cup {Len(q) + 1} /\ Len(q) + 1 \notin WriteAt(q)
    BY <1>1, <1>3, SMT DEF WriteAt
  <2>2. Cardinality(WriteAt(a)) = Cardinality(WriteAt(q)) + 1
    BY <1>2, <2>1, FS_AddElement
  <2> QED BY <1>3, <1>2, <2>2 DEF a
<1>4. CASE c.kind # "WRITE"
  <2>1. WriteAt(a) = WriteAt(q)
    BY <1>1, <1>4, SMT DEF WriteAt
  <2>2. WritesIn(a) = WritesIn(q) + 0
    BY <1>2, <2>1
  <2> QED BY <1>4, <2>2 DEF a
<1> QED BY <1>3, <1>4

LEMMA WritesTail ==
  ASSUME NEW q \in Seq(Commands), q # <<>>
  PROVE  WritesIn(q) = WritesIn(Tail(q)) + (IF Head(q).kind = "WRITE" THEN 1 ELSE 0)
<1> DEFINE t == Tail(q)
           f == [i \in WriteAt(t) |-> i + 1]
           later == WriteAt(q) \ {1}
<1>1. t \in Seq(Commands) /\ Len(t) = Len(q) - 1 /\ Len(q) \in Nat \ {0} /\ Head(q) = q[1]
      /\ \A i \in 1 .. Len(q) - 1 : t[i] = q[i + 1]
  BY TailElements
<1> HIDE DEF t
<1>2. f \in Bijection(WriteAt(t), later)
  <2>1. \A i \in WriteAt(t) : i \in Int /\ i + 1 \in later
    BY <1>1, SMT DEF WriteAt
  <2>2. \A j \in later : j - 1 \in WriteAt(t) /\ j \in Int
    BY <1>1, SMT DEF WriteAt
  <2>3. f \in [WriteAt(t) -> later]
    BY <2>1
  <2>4. \A i, j \in WriteAt(t) : f[i] = f[j] => i = j
    BY <2>1, SMT
  <2>5. \A j \in later : f[j - 1] = j
    BY <2>2, SMT
  <2> HIDE DEF f, later
  <2>6. f \in Injection(WriteAt(t), later)
    BY <2>3, <2>4 DEF Injection, IsInjective
  <2>7. f \in Surjection(WriteAt(t), later)
    BY <2>2, <2>3, <2>5 DEF Surjection
  <2> QED BY <2>6, <2>7 DEF Bijection
<1>3. IsFiniteSet(WriteAt(t)) /\ WritesIn(t) = Cardinality(WriteAt(t)) /\ WritesIn(t) \in Nat
      /\ IsFiniteSet(WriteAt(q)) /\ WritesIn(q) = Cardinality(WriteAt(q)) /\ WritesIn(q) \in Nat
  BY <1>1, WritesFinite
<1>4. IsFiniteSet(later)
  BY <1>3, FS_Subset
<1>5. Cardinality(WriteAt(t)) = Cardinality(later)
  BY <1>2, <1>3, <1>4, FS_Bijection DEF ExistsBijection
<1>6. CASE Head(q).kind = "WRITE"
  <2>1. 1 \in WriteAt(q)
    BY <1>1, <1>6, SMT DEF WriteAt
  <2>2. Cardinality(later) = Cardinality(WriteAt(q)) - 1
    BY <1>3, <2>1, FS_RemoveElement
  <2> QED BY <1>3, <1>5, <1>6, <2>2, SMT DEF t
<1>7. CASE Head(q).kind # "WRITE"
  <2>1. later = WriteAt(q)
    BY <1>1, <1>7, SMT DEF WriteAt
  <2>2. WritesIn(q) = WritesIn(t) + 0
    BY <1>3, <1>5, <2>1
  <2> QED BY <1>7, <2>2 DEF t
<1> QED BY <1>6, <1>7

LEMMA NoWritesInNothing == WritesIn(<<>>) = 0
<1>1. {i \in 1 .. Len(<<>>) : <<>>[i].kind = "WRITE"} = {}
  BY SMT
<1> QED BY <1>1, FS_EmptySet DEF WritesIn

(* Of the words that the MIG holds, those of its write commands and the    *)
(* one whose command is on offer.                                          *)
OnOffer == IF write_state = "W2" /\ wr_writing THEN 1 ELSE 0
DInv == WInv /\ WritesIn(cmdq) + OnOffer <= Len(wdf)

(* What the MIG takes and serves at a clock, in numbers. *)
LEMMA MigCounts ==
  ASSUME TypeOK, NEW r \in BOOLEAN, NEW w \in BOOLEAN, NEW s \in BOOLEAN, Mig(r, w, s)
  PROVE  \E served \in {0, 1} :
           /\ WritesIn(cmdq') + served = WritesIn(cmdq) + (IF APP_EN /\ r /\ wr_writing THEN 1 ELSE 0)
           /\ Len(wdf') + served = Len(wdf) + (IF wr_wdf_wren /\ w THEN 1 ELSE 0)
<1> DEFINE cmds == WithCommand(r)
           words == WithWord(w)
<1>1. /\ s => cmdq # <<>> /\ (Head(cmdq).kind = "WRITE" => wdf # <<>>)
      /\ cmdq' = IF s THEN Tail(cmds) ELSE cmds
      /\ wdf' = IF s /\ Head(cmdq).kind = "WRITE" THEN Tail(words) ELSE words
  BY MigParts
<1>2. cmdq \in Seq(Commands) /\ wdf \in Seq(Word) /\ cmds \in Seq(Commands) /\ words \in Seq(Word)
      /\ Asking \in Commands /\ indata_fifo_dout \in Word
  BY QueueTypes, AskingIsCommand
<1>3. WritesIn(cmds) = WritesIn(cmdq) + (IF APP_EN /\ r /\ wr_writing THEN 1 ELSE 0)
  <2>1. (Asking.kind = "WRITE") <=> wr_writing
    BY DEF Asking, APP_CMD
  <2>2. CASE APP_EN /\ r
    <3>1. cmds = Append(cmdq, Asking)
      BY <2>2 DEF WithCommand
    <3> QED BY <1>2, <2>1, <2>2, <3>1, WritesAppend
  <2>3. CASE ~(APP_EN /\ r)
    <3>1. cmds = cmdq
      BY <2>3 DEF WithCommand
    <3>2. WritesIn(cmdq) \in Nat
      BY <1>2, WritesFinite
    <3> QED BY <2>3, <3>1, <3>2
  <2> QED BY <2>2, <2>3
<1>4. Len(words) = Len(wdf) + (IF wr_wdf_wren /\ w THEN 1 ELSE 0)
  BY <1>2, SMT DEF WithWord
<1>5. s => cmds # <<>> /\ Head(cmds) = Head(cmdq)
  BY <1>1, <1>2, AppendElements DEF WithCommand
<1>6. s /\ Head(cmdq).kind = "WRITE" => words # <<>>
  BY <1>1, <1>2, AppendElements, SMTT(30) DEF WithWord
<1> HIDE DEF cmds, words
<1>7. Len(words) \in Nat /\ WritesIn(cmds) \in Nat
  BY <1>2, WritesFinite, SMT
<1>8. CASE s /\ Head(cmdq).kind = "WRITE"
  <2>1. WritesIn(cmds) = WritesIn(cmdq') + 1
    BY <1>1, <1>2, <1>5, <1>8, WritesTail
  <2>2. Len(wdf') = Len(words) - 1
    BY <1>1, <1>2, <1>6, <1>8, TailElements
  <2>3. /\ WritesIn(cmdq') + 1 = WritesIn(cmdq) + (IF APP_EN /\ r /\ wr_writing THEN 1 ELSE 0)
        /\ Len(wdf') + 1 = Len(wdf) + (IF wr_wdf_wren /\ w THEN 1 ELSE 0)
    BY <1>3, <1>4, <1>7, <2>1, <2>2
  <2> QED BY <2>3
<1>9. CASE ~(s /\ Head(cmdq).kind = "WRITE")
  <2>1. WritesIn(cmdq') = WritesIn(cmds)
    <3>1. CASE s
      <4>1. WritesIn(cmds) = WritesIn(cmdq') + 0
        BY <1>1, <1>2, <1>5, <1>9, <3>1, WritesTail
      <4>2. WritesIn(cmdq') \in Nat
        BY <1>1, <1>2, <1>5, <3>1, WritesFinite, TailElements
      <4> QED BY <4>1, <4>2
    <3>2. CASE ~s
      BY <1>1, <3>2
    <3> QED BY <3>1, <3>2
  <2>2. wdf' = words
    BY <1>1, <1>9
  <2>3. /\ WritesIn(cmdq') + 0 = WritesIn(cmdq) + (IF APP_EN /\ r /\ wr_writing THEN 1 ELSE 0)
        /\ Len(wdf') + 0 = Len(wdf) + (IF wr_wdf_wren /\ w THEN 1 ELSE 0)
    BY <1>3, <1>4, <1>7, <2>1, <2>2
  <2> QED BY <2>3
<1> QED BY <1>8, <1>9

LEMMA InitDInv == Init => DInv
<1> SUFFICES ASSUME Init PROVE DInv
  OBVIOUS
<1>1. WInv
  BY InitWInv
<1>2. cmdq = <<>> /\ wdf = <<>> /\ write_state = "W0"
  BY DEF Init
<1>3. WritesIn(cmdq) = 0 /\ OnOffer = 0 /\ Len(wdf) = 0
  BY <1>2, NoWritesInNothing DEF OnOffer
<1> QED BY <1>1, <1>3 DEF DInv

LEMMA StepDInv ==
  ASSUME Calm, DInv, [Next]_vars
  PROVE  DInv'
<1>0. WInv /\ TypeOK /\ WInv' /\ WritesIn(cmdq) + OnOffer <= Len(wdf)
  BY StepWInv DEF DInv, WInv
<1>1. WritesIn(cmdq) \in Nat /\ WritesIn(cmdq') \in Nat /\ Len(wdf) \in Nat /\ Len(wdf') \in Nat
  <2>1. cmdq \in Seq(Commands) /\ wdf \in Seq(Word)
    BY <1>0, QueueTypes
  <2>2. cmdq' \in Seq(Commands) /\ wdf' \in Seq(Word)
    BY <1>0 DEF WInv, TypeOK, Commands, Word
  <2> QED BY <2>1, <2>2, WritesFinite, SMT
<1>2. ASSUME NEW r \in BOOLEAN, NEW w \in BOOLEAN, NEW s \in BOOLEAN,
             Clock(r, w, s) \/ ClockInReset(r, w, s)
      PROVE  WritesIn(cmdq') + OnOffer' <= Len(wdf')
  <2>1. PICK served \in {0, 1} :
          /\ WritesIn(cmdq') + served = WritesIn(cmdq) + (IF APP_EN /\ r /\ wr_writing THEN 1 ELSE 0)
          /\ Len(wdf') + served = Len(wdf) + (IF wr_wdf_wren /\ w THEN 1 ELSE 0)
    BY <1>0, <1>2, MigCounts DEF Clock, ClockInReset
  <2>2. CASE Clock(r, w, s)
    <3>1. (WritePresent \/ WriteData(w) \/ WriteCommand(r)) /\ StatusProcess
      BY <2>2 DEF Clock
    <3>2. wr_writing' => wr_start_pulse \/ wr_writing
      BY <3>1, Zenon DEF StatusProcess
    <3>3. write_state \in {"W0", "W1", "W2"}
      BY <1>0 DEF TypeOK
    <3>4. CASE ~wr_writing
      <4>1. OnOffer' = 0 \/ wr_start_pulse
        BY <3>2, <3>4 DEF OnOffer
      <4>2. wr_start_pulse => write_state' = "W0"
        BY <1>0, <3>1, WriterSteps
      <4>3. OnOffer' = 0
        BY <4>1, <4>2 DEF OnOffer
      <4> QED BY <1>0, <1>1, <2>1, <3>4, <4>3 DEF OnOffer
    <3>5. CASE wr_writing
      <4>1. ~wr_start_pulse /\ ~rd_app_en /\ (wr_app_en <=> write_state = "W2") /\ (wr_wdf_wren <=> write_state = "W1")
        BY <1>0, <3>5 DEF WInv
      <4>2. /\ write_state = "W0" => write_state' # "W2"
            /\ write_state = "W1" => write_state' = (IF w THEN "W2" ELSE "W1")
            /\ write_state = "W2" => write_state' = (IF r THEN "W0" ELSE "W2")
        BY <1>0, <3>1, <3>5, <4>1, WriterSteps
      <4>3. APP_EN <=> write_state = "W2"
        BY <4>1 DEF APP_EN
      <4>4. OnOffer' \in {0, 1} /\ (OnOffer' = 1 => write_state' = "W2")
        BY DEF OnOffer
      <4>5. OnOffer = IF write_state = "W2" THEN 1 ELSE 0
        BY <3>5 DEF OnOffer
      <4>6. CASE write_state = "W0"
        BY <1>0, <1>1, <2>1, <4>1, <4>2, <4>3, <4>4, <4>5, <4>6
      <4>7. CASE write_state = "W1"
        BY <1>0, <1>1, <2>1, <4>1, <4>2, <4>3, <4>4, <4>5, <4>7
      <4>8. CASE write_state = "W2"
        BY <1>0, <1>1, <2>1, <3>5, <4>1, <4>2, <4>3, <4>4, <4>5, <4>8
      <4> QED BY <3>3, <4>6, <4>7, <4>8
    <3> QED BY <3>4, <3>5
  <2>3. CASE ClockInReset(r, w, s)
    <3>1. ~wr_writing /\ ~wr_writing'
      BY <1>0, <2>3 DEF ClockInReset, WInv, status
    <3> QED BY <1>0, <1>1, <2>1, <3>1 DEF OnOffer
  <2> QED BY <1>2, <2>2, <2>3
<1>3. CASE Reset
  <2>1. cmdq' = <<>> /\ wdf' = <<>> /\ write_state' = "W0"
    BY <1>3 DEF Reset, ControlReset
  <2>2. WritesIn(cmdq') = 0 /\ OnOffer' = 0 /\ Len(wdf') = 0
    BY <2>1, NoWritesInNothing DEF OnOffer
  <2> QED BY <1>0, <2>2 DEF DInv
<1>4. CASE AssertReset
  <2>1. wdf' = wdf /\ cmdq' = cmdq /\ write_state' = "W0"
    BY <1>4 DEF AssertReset, ControlReset, mig
  <2>2. OnOffer' = 0 /\ OnOffer \in {0, 1}
    BY <2>1 DEF OnOffer
  <2> QED BY <1>0, <1>1, <2>1, <2>2 DEF DInv
<1>5. CASE ReleaseReset \/ FifoReset \/ Arrive \/ OutRead \/ UNCHANGED vars
  <2>1. UNCHANGED <<status, writer, mig>>
    BY <1>5 DEF ReleaseReset, FifoReset, Arrive, OutRead, vars
  <2>2. wdf' = wdf /\ cmdq' = cmdq /\ OnOffer' = OnOffer
    BY <2>1 DEF status, writer, mig, OnOffer
  <2> QED BY <1>0, <2>2 DEF DInv
<1> QED BY <1>0, <1>2, <1>3, <1>4, <1>5 DEF Next, DInv

LEMMA DataFirst == DInv => DataBeforeCommand
<1> SUFFICES ASSUME DInv PROVE DataBeforeCommand
  OBVIOUS
<1>1. WritesIn(cmdq) \in Nat /\ Len(wdf) \in Nat
  BY QueueTypes, WritesFinite, SMT DEF DInv, WInv
<1> QED BY <1>1 DEF DInv, OnOffer, DataBeforeCommand

(* A write command never waits in the MIG for a word that this module has  *)
(* not handed over (sdram_buffer_fifo.vhd 343-374), whether or not the MIG *)
(* refuses words, and however many captures run.                           *)
THEOREM DataBeforeCommandHolds == Calm /\ Spec => []DataBeforeCommand
<1>1. ASSUME Calm PROVE Spec => []DataBeforeCommand
  <2>1. Init => DInv
    BY InitDInv
  <2>2. DInv /\ [Next]_vars => DInv'
    BY <1>1, StepDInv
  <2> QED BY <2>1, <2>2, DataFirst, PTL DEF Spec
<1> QED BY <1>1
-----------------------------------------------------------------------------
(* Addresses as places on a ring of 2 * Span. *)
Ring == 2 * Span
Past(a, t) == (a + Ring - t) % Ring     \* how far address a is past address t

LEMMA RingFacts == Ring \in Nat \ {0} /\ Addr = 0 .. Ring - 1 /\ Burst \in Nat \ {0} /\ Burst < Ring
<1>1. Size \in Nat \ {0} /\ Burst \in Nat \ {0}
  BY SizeAssumption
<1>2. Size * Burst >= Burst
  BY <1>1, SMT
<1> QED BY <1>1, <1>2, SpanPositive, SMT DEF Ring, Span

LEMMA ModTwice ==
  ASSUME NEW m \in Nat \ {0}, NEW x \in Nat, x < 2 * m
  PROVE  x % m = IF x < m THEN x ELSE x - m
<1>1. CASE x < m
  BY <1>1, SMT
<1>2. CASE x >= m
  <2>1. x = 1 * m + (x - m) /\ 0 <= x - m /\ x - m < m
    BY <1>2, SMT
  <2>2. x % m = x - m
    BY <1>2, <2>1, SMT
  <2> QED BY <1>2, <2>2
<1> QED BY <1>1, <1>2, SMT

LEMMA RingMod == \A x \in Nat : x < 2 * Ring => x % Ring = (IF x < Ring THEN x ELSE x - Ring)
<1> TAKE x \in Nat
<1> HAVE x < 2 * Ring
<1> DEFINE m == Ring
<1>1. m \in Nat \ {0} /\ x < 2 * m
  BY RingFacts
<1> HIDE DEF m
<1>2. x % m = IF x < m THEN x ELSE x - m
  BY <1>1, ModTwice
<1> QED BY <1>2 DEF m

LEMMA PastIs ==
  ASSUME NEW a \in Addr, NEW t \in Addr
  PROVE  Past(a, t) = IF a >= t THEN a - t ELSE a + Ring - t
<1>1. a \in Nat /\ t \in Nat /\ a < Ring /\ t < Ring /\ Ring \in Nat \ {0}
  BY RingFacts, SMT
<1> DEFINE x == a + Ring - t
<1>2. x \in Nat /\ x < 2 * Ring
  BY <1>1, SMT
<1> HIDE DEF x
<1>3. x % Ring = IF x < Ring THEN x ELSE x - Ring
  BY <1>2, RingMod
<1>4. Past(a, t) = x % Ring
  BY DEF Past, x
<1> QED BY <1>1, <1>3, <1>4, SMT DEF x

LEMMA PlusIs ==
  ASSUME NEW a \in Addr, NEW n \in Nat, n < Ring
  PROVE  Plus(a, n) = IF a + n < Ring THEN a + n ELSE a + n - Ring
<1>1. a \in Nat /\ a < Ring /\ Ring \in Nat \ {0}
  BY RingFacts, SMT
<1> DEFINE x == a + n
<1>2. x \in Nat /\ x < 2 * Ring
  BY <1>1, SMT
<1>3. Plus(a, n) = x % Ring
  BY DEF Plus, Ring
<1> HIDE DEF x
<1>4. x % Ring = IF x < Ring THEN x ELSE x - Ring
  BY <1>2, RingMod
<1> QED BY <1>1, <1>3, <1>4, SMT DEF x

(* A burst further; and the address of the post-trigger count. *)
LEMMA PastMoves ==
  ASSUME NEW a \in Addr, NEW t \in Addr
  PROVE  /\ Past(a, t) \in 0 .. Ring - 1 /\ Past(a, a) = 0
         /\ Past(a, t) + Burst < Ring => Past(Plus(a, Burst), t) = Past(a, t) + Burst
         /\ \A p \in Addr : Plus(t, p) = a <=> Past(a, t) = p
<1>1. a \in Nat /\ a < Ring /\ t \in Nat /\ t < Ring /\ Ring \in Nat \ {0} /\ Burst \in Nat \ {0} /\ Burst < Ring
  BY RingFacts, SMT
<1>2. Plus(a, Burst) \in Addr
  BY <1>1, SumInRange
<1>3. Past(a, t) = (IF a >= t THEN a - t ELSE a + Ring - t) /\ Past(a, a) = a - a
  BY <1>1, PastIs
<1>4. Plus(a, Burst) = IF a + Burst < Ring THEN a + Burst ELSE a + Burst - Ring
  BY <1>1, PlusIs
<1> DEFINE b == Plus(a, Burst)
<1>5. Past(b, t) = IF b >= t THEN b - t ELSE b + Ring - t
  BY <1>2, PastIs
<1>6. Past(a, t) + Burst < Ring => Past(b, t) = Past(a, t) + Burst
  BY <1>1, <1>3, <1>4, <1>5, SMT
<1>7. ASSUME NEW p \in Addr PROVE Plus(t, p) = a <=> Past(a, t) = p
  <2>1. p \in Nat /\ p < Ring
    BY <1>1, RingFacts, SMT
  <2>2. Plus(t, p) = IF t + p < Ring THEN t + p ELSE t + p - Ring
    BY <2>1, PlusIs
  <2> QED BY <1>1, <1>3, <2>1, <2>2, SMT
<1> QED BY <1>1, <1>3, <1>6, <1>7, SMT

(* Stop triggers whose POST_TRIGGER is a number of bursts, at least one.   *)
StopUser == Calm /\ \A p \in Posts : \E k \in Nat \ {0} : p = k * Burst

(* A stopping capture has not come past its post-trigger address; one that *)
(* is no longer writing but still waits for that address has come one      *)
(* burst at most.                                                          *)
Stopping ==
  LET d == Past(wr_addr_i, trigger_pointer_reg) IN
  /\ \E j \in Nat : d = j * Burst
  /\ \E k \in Nat \ {0} : post_trigger_reg = k * Burst
  /\ d <= post_trigger_reg
  /\ ~wr_writing => d = 0 \/ (d = Burst /\ write_state = "W0")
PInv == WInv /\ (wr_stopping => Stopping)

(* The clock of a stop trigger: the address is that of the trigger, or one *)
(* burst further.                                                          *)
LEMMA TriggerStep ==
  ASSUME StopUser, PInv, wr_stop_pulse, wr_writing,
         NEW r \in BOOLEAN, NEW w \in BOOLEAN, NEW s \in BOOLEAN, Clock(r, w, s)
  PROVE  Stopping'
<1>1. /\ StatusProcess /\ (WritePresent \/ WriteData(w) \/ WriteCommand(r))
      /\ TypeOK /\ ~wr_start_pulse /\ wr_addr_i \in Addr /\ write_state \in {"W0", "W1", "W2"}
  BY DEF Clock, PInv, WInv, TypeOK
<1>2. trigger_pointer_reg' = wr_addr_i /\ post_trigger_reg' \in Posts
  BY <1>1, Zenon DEF StatusProcess
<1>3. PICK k \in Nat \ {0} : post_trigger_reg' = k * Burst
  BY <1>2 DEF StopUser
<1>4. \/ wr_addr_i' = wr_addr_i
      \/ wr_addr_i' = Plus(wr_addr_i, Burst) /\ write_state' = "W0"
  BY <1>1, WriterSteps
<1>5. /\ Past(wr_addr_i, wr_addr_i) = 0
      /\ Past(wr_addr_i, wr_addr_i) + Burst < Ring
           => Past(Plus(wr_addr_i, Burst), wr_addr_i) = Past(wr_addr_i, wr_addr_i) + Burst
  BY <1>1, PastMoves
<1>6. Burst \in Nat \ {0} /\ Burst < Ring /\ Ring \in Nat
  BY RingFacts, SMT
<1> DEFINE d == Past(wr_addr_i, trigger_pointer_reg)
<1>7. d' = 0 \/ (d' = Burst /\ write_state' = "W0")
  <2>1. d' = Past(wr_addr_i', trigger_pointer_reg')
    BY DEF Past, Ring, Span
  <2> QED BY <1>2, <1>4, <1>5, <1>6, <2>1
<1> HIDE DEF d
<1>8. \E j \in Nat : d' = j * Burst
  <2>1. 0 = 0 * Burst /\ Burst = 1 * Burst
    BY <1>6, SMT
  <2> QED BY <1>7, <2>1
<1>9. d' <= post_trigger_reg'
  <2>1. k * Burst >= Burst
    BY <1>3, <1>6, SMT
  <2> QED BY <1>3, <1>6, <1>7, <2>1, SMT
<1>10. \E x \in Nat \ {0} : post_trigger_reg' = x * Burst
  BY <1>3
<1> QED BY <1>7, <1>8, <1>9, <1>10 DEF Stopping, d

(* A clock of a capture that is stopping, without a new stop trigger.      *)
LEMMA StoppingStep ==
  ASSUME StopUser, PInv, wr_stopping, wr_writing, ~wr_stop_pulse, wr_stopping',
         NEW r \in BOOLEAN, NEW w \in BOOLEAN, NEW s \in BOOLEAN, Clock(r, w, s)
  PROVE  Stopping'
<1>1. /\ StatusProcess /\ (WritePresent \/ WriteData(w) \/ WriteCommand(r))
      /\ TypeOK /\ ~wr_start_pulse /\ wr_addr_i \in Addr /\ trigger_pointer_reg \in Addr
      /\ post_trigger_reg \in Addr
      /\ write_state \in {"W0", "W1", "W2"} /\ Stopping
  BY DEF Clock, PInv, WInv, TypeOK
<1>2. trigger_pointer_reg' = trigger_pointer_reg /\ post_trigger_reg' = post_trigger_reg /\ ~StopHit
  BY <1>1, Zenon DEF StatusProcess
<1>3. wr_writing'
  BY <1>1, Zenon DEF StatusProcess
<1>4. wr_addr_i' = wr_addr_i \/ wr_addr_i' = Plus(wr_addr_i, Burst)
  BY <1>1, WriterSteps
<1> DEFINE d == Past(wr_addr_i, trigger_pointer_reg)
           e == Past(Plus(wr_addr_i, Burst), trigger_pointer_reg)
<1>5. /\ d \in 0 .. Ring - 1 /\ (d + Burst < Ring => e = d + Burst)
      /\ Plus(trigger_pointer_reg, post_trigger_reg) = wr_addr_i <=> d = post_trigger_reg
  BY <1>1, PastMoves
<1>6. d # post_trigger_reg
  BY <1>2, <1>5 DEF StopHit
<1>7. d' = d \/ d' = e
  <2>1. d' = Past(wr_addr_i', trigger_pointer_reg')
    BY DEF Past, Ring, Span
  <2> QED BY <1>2, <1>4, <2>1
<1>8. PICK j \in Nat : d = j * Burst
  BY <1>1 DEF Stopping
<1>9. PICK k \in Nat \ {0} : post_trigger_reg = k * Burst
  BY <1>1 DEF Stopping
<1>10. d <= post_trigger_reg
  BY <1>1 DEF Stopping
<1> HIDE DEF d, e
<1>11. Burst \in Nat \ {0} /\ Ring \in Nat /\ post_trigger_reg \in Nat /\ post_trigger_reg < Ring
  BY <1>1, RingFacts, SMT
<1>12. j * Burst + Burst <= k * Burst /\ (j + 1) * Burst = j * Burst + Burst
  <2>1. j * Burst < k * Burst
    BY <1>5, <1>6, <1>8, <1>9, <1>10, <1>11, SMT
  <2> QED BY <1>8, <1>9, <1>11, <2>1, NextMultiple
<1>13. e = d + Burst /\ e <= post_trigger_reg /\ e = (j + 1) * Burst
  BY <1>5, <1>8, <1>9, <1>11, <1>12, SMT
<1>14. (\E i \in Nat : d' = i * Burst) /\ d' <= post_trigger_reg'
  BY <1>2, <1>7, <1>8, <1>10, <1>13
<1>15. \E x \in Nat \ {0} : post_trigger_reg' = x * Burst
  BY <1>2, <1>9
<1> QED BY <1>3, <1>14, <1>15 DEF Stopping, d

(* A clock of a capture that has come to its end but still waits for its   *)
(* post-trigger address.                                                   *)
LEMMA LeftStep ==
  ASSUME StopUser, PInv, wr_stopping, ~wr_writing, wr_stopping',
         NEW r \in BOOLEAN, NEW w \in BOOLEAN, NEW s \in BOOLEAN, Clock(r, w, s)
  PROVE  Stopping'
<1>1. /\ StatusProcess /\ (WritePresent \/ WriteData(w) \/ WriteCommand(r))
      /\ TypeOK /\ wr_addr_i \in Addr /\ trigger_pointer_reg \in Addr /\ post_trigger_reg \in Addr
      /\ write_state \in {"W0", "W1", "W2"} /\ Stopping
  BY DEF Clock, PInv, WInv, TypeOK
<1>2. ~wr_start_pulse /\ trigger_pointer_reg' = trigger_pointer_reg
      /\ (post_trigger_reg' = post_trigger_reg \/ post_trigger_reg' \in Posts)
  BY <1>1, Zenon DEF StatusProcess
<1>3. \/ wr_addr_i' = wr_addr_i /\ (write_state = "W0" => write_state' = "W0")
      \/ write_state # "W0" /\ wr_addr_i' = Plus(wr_addr_i, Burst) /\ write_state' = "W0"
  BY <1>1, <1>2, WriterSteps
<1> DEFINE d == Past(wr_addr_i, trigger_pointer_reg)
           e == Past(Plus(wr_addr_i, Burst), trigger_pointer_reg)
<1>4. d \in 0 .. Ring - 1 /\ (d + Burst < Ring => e = d + Burst)
  BY <1>1, PastMoves
<1>5. d = 0 \/ (d = Burst /\ write_state = "W0")
  BY <1>1 DEF Stopping
<1>6. \/ d' = d /\ (write_state = "W0" => write_state' = "W0")
      \/ write_state # "W0" /\ d' = e /\ write_state' = "W0"
  <2>1. d' = Past(wr_addr_i', trigger_pointer_reg')
    BY DEF Past, Ring, Span
  <2> QED BY <1>2, <1>3, <2>1
<1> HIDE DEF d, e
<1>7. Burst \in Nat \ {0} /\ Burst < Ring /\ Ring \in Nat
  BY RingFacts, SMT
<1>8. d' = 0 \/ (d' = Burst /\ write_state' = "W0")
  BY <1>4, <1>5, <1>6, <1>7
<1>9. \E j \in Nat : d' = j * Burst
  <2>1. 0 = 0 * Burst /\ Burst = 1 * Burst
    BY <1>7, SMT
  <2> QED BY <1>8, <2>1
<1>10. PICK k \in Nat \ {0} : post_trigger_reg' = k * Burst
  BY <1>1, <1>2 DEF StopUser, Stopping
<1>11. d' <= post_trigger_reg'
  <2>1. k * Burst >= Burst
    BY <1>7, SMT
  <2> QED BY <1>7, <1>8, <1>10, <2>1, SMT
<1>12. \E x \in Nat \ {0} : post_trigger_reg' = x * Burst
  BY <1>10
<1> QED BY <1>8, <1>9, <1>11, <1>12 DEF Stopping, d

LEMMA StepPInv ==
  ASSUME StopUser, PInv, [Next]_vars
  PROVE  PInv'
<1>0. WInv /\ WInv'
  BY StepWInv DEF PInv, StopUser
<1>1. ASSUME NEW r \in BOOLEAN, NEW w \in BOOLEAN, NEW s \in BOOLEAN, Clock(r, w, s), wr_stopping'
      PROVE  Stopping'
  <2>1. CASE wr_stop_pulse /\ wr_writing
    BY <1>1, <2>1, TriggerStep
  <2>2. CASE ~(wr_stop_pulse /\ wr_writing)
    <3>1. wr_stopping
      BY <1>1, <2>2, Zenon DEF Clock, StatusProcess
    <3>2. CASE wr_writing
      BY <1>1, <2>2, <3>1, <3>2, StoppingStep
    <3>3. CASE ~wr_writing
      BY <1>1, <3>1, <3>3, LeftStep
    <3> QED BY <3>2, <3>3
  <2> QED BY <2>1, <2>2
<1>2. ASSUME UNCHANGED <<status, writer>>, wr_stopping' PROVE Stopping'
  <2>1. /\ wr_stopping /\ wr_addr_i' = wr_addr_i /\ trigger_pointer_reg' = trigger_pointer_reg
        /\ post_trigger_reg' = post_trigger_reg /\ wr_writing' = wr_writing /\ write_state' = write_state
    BY <1>2 DEF status, writer
  <2>2. Past(wr_addr_i, trigger_pointer_reg)' = Past(wr_addr_i, trigger_pointer_reg)
    BY <2>1 DEF Past, Ring, Span
  <2> QED BY <2>1, <2>2 DEF PInv, Stopping
<1>3. ASSUME ControlReset PROVE ~wr_stopping'
  BY <1>3 DEF ControlReset
<1>4. ASSUME NEW r \in BOOLEAN, NEW w \in BOOLEAN, NEW s \in BOOLEAN, ClockInReset(r, w, s)
      PROVE  UNCHANGED <<status, writer>>
  BY <1>4 DEF ClockInReset
<1>5. ReleaseReset \/ FifoReset \/ Arrive \/ OutRead \/ UNCHANGED vars => UNCHANGED <<status, writer>>
  BY DEF ReleaseReset, FifoReset, Arrive, OutRead, vars
<1>6. AssertReset \/ Reset => ControlReset
  BY DEF AssertReset, Reset
<1> QED BY <1>0, <1>1, <1>2, <1>3, <1>4, <1>5, <1>6 DEF Next, PInv

LEMMA InitPInv == Init => PInv
  BY InitWInv DEF Init, PInv

LEMMA NotPast == PInv => PostTriggerBound
  BY DEF PInv, Stopping, PostTriggerBound, Past, Ring

(* A capture goes on for POST_TRIGGER addresses after the stop trigger and *)
(* no further, for every memory, start address and number of captures      *)
(* (sdram_buffer_fifo.vhd 29-31, 303-317).                                 *)
THEOREM PostTriggerBoundHolds == StopUser /\ Spec => []PostTriggerBound
<1>1. ASSUME StopUser PROVE Spec => []PostTriggerBound
  <2>1. Init => PInv
    BY InitPInv
  <2>2. PInv /\ [Next]_vars => PInv'
    BY <1>1, StepPInv
  <2> QED BY <2>1, <2>2, NotPast, PTL DEF Spec
<1> QED BY <1>1
-----------------------------------------------------------------------------
(* The cells of the memory as a ring of Size.                              *)
Cells == 0 .. Size - 1
CellOf(a) == Low(a) \div Burst
CellAfter(c) == (c + 1) % Size
CellBefore(c) == (c + Size - 1) % Size

LEMMA CellRing ==
  ASSUME NEW c \in Cells
  PROVE  CellAfter(c) \in Cells /\ CellBefore(CellAfter(c)) = c
<1>1. Size \in Nat \ {0} /\ c \in Nat /\ c < Size
  BY SizeAssumption, SMT DEF Cells
<1>2. CellAfter(c) = IF c + 1 < Size THEN c + 1 ELSE 0
  <2>1. c + 1 \in Nat /\ c + 1 < 2 * Size
    BY <1>1, SMT
  <2>2. (c + 1) % Size = IF c + 1 < Size THEN c + 1 ELSE (c + 1) - Size
    BY <1>1, <2>1, ModTwice
  <2> QED BY <1>1, <2>2, SMT DEF CellAfter
<1> DEFINE n == CellAfter(c)
           x == (n + Size) - 1
<1>3. n \in Nat /\ n < Size /\ x \in Nat /\ x < 2 * Size
  BY <1>1, <1>2, SMT
<1>4. CellBefore(n) = x % Size
  <2>1. n + Size - 1 = x
    BY <1>1, <1>3, SMT
  <2> QED BY <2>1 DEF CellBefore
<1>5. x % Size = IF x < Size THEN x ELSE x - Size
  <2> HIDE DEF x
  <2> QED BY <1>1, <1>3, ModTwice
<1>6. CellBefore(n) = c
  BY <1>1, <1>2, <1>4, <1>5, SMT
<1> QED BY <1>1, <1>3, <1>6, SMT DEF Cells

LEMMA DivIs ==
  ASSUME NEW b \in Nat \ {0}, NEW q \in Nat, NEW r \in 0 .. b - 1
  PROVE  (q * b + r) \div b = q
  BY SMT

LEMMA CellParts ==
  ASSUME NEW l \in 0 .. Span - 1
  PROVE  \E q \in Cells, r \in 0 .. Burst - 1 : l = q * Burst + r /\ l \div Burst = q
<1>1. Size \in Nat \ {0} /\ Burst \in Nat \ {0} /\ l \in Nat /\ l < Size * Burst
  BY SizeAssumption, SpanPositive, SMT DEF Span
<1> DEFINE q == l \div Burst
           r == l % Burst
<1>2. q \in Nat /\ r \in 0 .. Burst - 1 /\ l = q * Burst + r
  BY <1>1, SMT
<1> HIDE DEF q, r
<1>3. q < Size
  <2> SUFFICES ASSUME q >= Size PROVE FALSE
    BY <1>1, <1>2, SMT
  <2>1. q * Burst >= Size * Burst
    BY <1>1, <1>2, SMT
  <2> QED BY <1>1, <1>2, <2>1, SMT
<1> QED BY <1>1, <1>2, <1>3, SMT DEF Cells, q

LEMMA LowOfPlus ==
  ASSUME NEW a \in Addr
  PROVE  /\ Low(a) \in 0 .. Span - 1
         /\ Low(Plus(a, Burst)) = IF Low(a) + Burst < Span THEN Low(a) + Burst ELSE (Low(a) + Burst) - Span
<1>1. a \in Nat /\ a < Ring /\ Span \in Nat \ {0} /\ Ring = 2 * Span /\ Burst \in Nat \ {0} /\ Burst < Ring
      /\ Burst <= Span
  <2>1. Size \in Nat \ {0} /\ Burst \in Nat \ {0}
    BY SizeAssumption
  <2>2. Size * Burst >= Burst
    BY <2>1, SMT
  <2> QED BY <2>2, RingFacts, SpanPositive, SMT DEF Ring, Span
<1> DEFINE p == Plus(a, Burst)
<1>2. p = IF a + Burst < Ring THEN a + Burst ELSE (a + Burst) - Ring
  BY <1>1, PlusIs
<1>3. p \in Nat /\ p < 2 * Span
  BY <1>1, <1>2, SMT
<1> HIDE DEF p
<1>4. Low(a) = IF a < Span THEN a ELSE a - Span
  BY <1>1, ModTwice DEF Low
<1>5. Low(p) = IF p < Span THEN p ELSE p - Span
  BY <1>1, <1>3, ModTwice DEF Low
<1>6. Low(p) = IF Low(a) + Burst < Span THEN Low(a) + Burst ELSE (Low(a) + Burst) - Span
  BY <1>1, <1>2, <1>4, <1>5, SMT
<1> QED BY <1>1, <1>4, <1>6, SMT DEF p

(* A burst further is a cell further. *)
LEMMA CellOfPlus ==
  ASSUME NEW a \in Addr
  PROVE  CellOf(a) \in Cells /\ CellOf(Plus(a, Burst)) = CellAfter(CellOf(a))
<1> DEFINE l == Low(a)
           n == Low(Plus(a, Burst))
<1>1. l \in 0 .. Span - 1 /\ n = IF l + Burst < Span THEN l + Burst ELSE (l + Burst) - Span
  BY LowOfPlus
<1> HIDE DEF l, n
<1>2. PICK q \in Cells, r \in 0 .. Burst - 1 : l = q * Burst + r /\ l \div Burst = q
  BY <1>1, CellParts
<1>3. Size \in Nat \ {0} /\ Burst \in Nat \ {0} /\ q \in Nat /\ q < Size /\ r \in Nat /\ r < Burst
  BY SizeAssumption, <1>2, SMT DEF Cells
<1>4. (q + 1) * Burst = q * Burst + Burst
  BY <1>3, SMT
<1>5. CASE q + 1 < Size
  <2>1. (q + 2) * Burst <= Size * Burst /\ (q + 2) * Burst = q * Burst + 2 * Burst
    BY <1>3, <1>5, SMT
  <2>2. n = (q + 1) * Burst + r
    BY <1>1, <1>2, <1>3, <1>4, <2>1, SMT DEF Span
  <2>3. n \div Burst = q + 1
    <3> DEFINE k == q + 1
    <3>1. k \in Nat /\ n = k * Burst + r
      BY <1>3, <2>2, SMT
    <3> HIDE DEF k
    <3>2. n \div Burst = k
      BY <1>2, <1>3, <3>1, DivIs
    <3> QED BY <3>2 DEF k
  <2>4. (q + 1) % Size = q + 1
    BY <1>3, <1>5, SMT
  <2> QED BY <1>2, <2>3, <2>4 DEF CellOf, CellAfter, l, n
<1>6. CASE q + 1 >= Size
  <2>1. q + 1 = Size
    BY <1>3, <1>6, SMT
  <2>2. l + Burst = Span + r
    BY <1>2, <1>3, <1>4, <2>1, SMT DEF Span
  <2>3. n = 0 * Burst + r
    BY <1>1, <1>3, <2>2, SpanPositive, SMT
  <2>4. n \div Burst = 0
    BY <1>2, <1>3, <2>3, DivIs
  <2>5. (q + 1) % Size = 0
    BY <1>3, <2>1, SMT
  <2> QED BY <1>2, <2>4, <2>5 DEF CellOf, CellAfter, l, n
<1> QED BY <1>3, <1>5, <1>6, SMT

(* Write commands q and words d, in the order in which they meet; f is the *)
(* word that will be handed over next, b the cell of the next command, m   *)
(* the memory and bc the cell at which the capture began: the cells and    *)
(* the words each follow the one before, and the first word follows what   *)
(* is stored before its cell.                                              *)
FirstCell(q, b) == IF q = <<>> THEN b ELSE q[1].cell
FirstWord(d, f) == IF d = <<>> THEN f ELSE d[1]
Link(q, d, f, b, m, bc) ==
  /\ Len(q) <= Len(d)
  /\ \A i \in 1 .. Len(q) : q[i].kind = "WRITE"
  /\ \A i \in 1 .. Len(q) - 1 : q[i + 1].cell = CellAfter(q[i].cell)
  /\ \A i \in 1 .. Len(d) - 1 : d[i + 1] = Succ(d[i])
  /\ d # <<>> => f = Succ(d[Len(d)])
  /\ q # <<>> => b = CellAfter(q[Len(q)].cell)
  /\ FirstCell(q, b) # bc => FirstWord(d, f) = Succ(m[CellBefore(FirstCell(q, b))])

(* The same when no more words and commands come: the first n commands     *)
(* write and the others read.                                              *)
Left(n, q, d, m, bc) ==
  /\ n <= Len(q) /\ n <= Len(d)
  /\ \A i \in 1 .. n : q[i].kind = "WRITE"
  /\ \A i \in n + 1 .. Len(q) : q[i].kind = "READ"
  /\ \A i \in 1 .. n - 1 : q[i + 1].cell = CellAfter(q[i].cell) /\ d[i + 1] = Succ(d[i])
  /\ n > 0 /\ q[1].cell # bc => d[1] = Succ(m[CellBefore(q[1].cell)])

LEMMA EmptyLength == ASSUME NEW S, NEW q \in Seq(S) PROVE q = <<>> <=> Len(q) = 0
  BY SMT

LEMMA LinkWord ==
  ASSUME NEW q \in Seq(Commands), NEW d \in Seq(Word), NEW f \in Word, NEW b, NEW m, NEW bc,
         Link(q, d, f, b, m, bc)
  PROVE  Link(q, Append(d, f), Succ(f), b, m, bc)
<1> DEFINE a == Append(d, f)
<1>1. /\ a \in Seq(Word) /\ a # <<>> /\ Len(a) = Len(d) + 1 /\ a[Len(d) + 1] = f
      /\ \A i \in 1 .. Len(d) : a[i] = d[i]
  BY AppendElements
<1>2. Len(q) \in Nat /\ Len(d) \in Nat /\ (d = <<>> <=> Len(d) = 0)
  BY SMT
<1> HIDE DEF a
<1>3. Len(q) <= Len(a)
  BY <1>1, <1>2, SMT DEF Link
<1>4. \A i \in 1 .. Len(a) - 1 : a[i + 1] = Succ(a[i])
  <2> TAKE i \in 1 .. Len(a) - 1
  <2>1. CASE i = Len(d)
    BY <1>1, <1>2, <2>1, SMT DEF Link
  <2>2. CASE i # Len(d)
    <3>1. i \in 1 .. Len(d) - 1 /\ i + 1 \in 1 .. Len(d)
      BY <1>1, <1>2, <2>2, SMT
    <3> QED BY <1>1, <1>2, <3>1, SMT DEF Link
  <2> QED BY <2>1, <2>2
<1>5. Succ(f) = Succ(a[Len(a)])
  BY <1>1
<1>6. FirstWord(a, Succ(f)) = FirstWord(d, f)
  BY <1>1, <1>2, SMT DEF FirstWord
<1> QED BY <1>3, <1>4, <1>5, <1>6 DEF Link, a

LEMMA LinkCommand ==
  ASSUME NEW q \in Seq(Commands), NEW d \in Seq(Word), NEW f, NEW b, NEW m, NEW bc,
         NEW c \in Commands, c.kind = "WRITE", c.cell = b, Len(q) < Len(d),
         Link(q, d, f, b, m, bc)
  PROVE  Link(Append(q, c), d, f, CellAfter(b), m, bc)
<1> DEFINE a == Append(q, c)
<1>1. /\ a \in Seq(Commands) /\ a # <<>> /\ Len(a) = Len(q) + 1 /\ a[Len(q) + 1] = c
      /\ \A i \in 1 .. Len(q) : a[i] = q[i]
  BY AppendElements
<1>2. Len(q) \in Nat /\ Len(d) \in Nat /\ (q = <<>> <=> Len(q) = 0)
  BY SMT
<1> HIDE DEF a
<1>3. Len(a) <= Len(d)
  BY <1>1, <1>2, SMT
<1>4. \A i \in 1 .. Len(a) : a[i].kind = "WRITE"
  BY <1>1, <1>2, SMT DEF Link
<1>5. \A i \in 1 .. Len(a) - 1 : a[i + 1].cell = CellAfter(a[i].cell)
  <2> TAKE i \in 1 .. Len(a) - 1
  <2>1. CASE i = Len(q)
    BY <1>1, <1>2, <2>1, SMT DEF Link
  <2>2. CASE i # Len(q)
    <3>1. i \in 1 .. Len(q) - 1 /\ i \in 1 .. Len(q) /\ i + 1 \in 1 .. Len(q)
      BY <1>1, <1>2, <2>2, SMT
    <3>2. a[i] = q[i] /\ a[i + 1] = q[i + 1]
      BY <1>1, <3>1
    <3> QED BY <3>1, <3>2 DEF Link
  <2> QED BY <2>1, <2>2
<1>6. CellAfter(b) = CellAfter(a[Len(a)].cell)
  BY <1>1
<1>7. FirstCell(a, CellAfter(b)) = FirstCell(q, b)
  BY <1>1, <1>2, SMT DEF FirstCell
<1> QED BY <1>3, <1>4, <1>5, <1>6, <1>7 DEF Link, a

LEMMA LinkServe ==
  ASSUME NEW q \in Seq(Commands), NEW d \in Seq(Word), NEW f, NEW b, NEW m \in [Cells -> Word], NEW bc,
         q # <<>>, Link(q, d, f, b, m, bc)
  PROVE  Link(Tail(q), Tail(d), f, b, [m EXCEPT ![q[1].cell] = d[1]], bc)
<1> DEFINE s == Tail(q)
           e == Tail(d)
           k == [m EXCEPT ![q[1].cell] = d[1]]
<1>0. Len(q) \in Nat \ {0} /\ Len(d) \in Nat /\ Len(q) <= Len(d) /\ d # <<>>
  BY SMT DEF Link
<1>1. /\ s \in Seq(Commands) /\ Len(s) = Len(q) - 1
      /\ \A i \in 1 .. Len(q) - 1 : s[i] = q[i + 1]
  BY TailElements
<1>2. /\ e \in Seq(Word) /\ Len(e) = Len(d) - 1
      /\ \A i \in 1 .. Len(d) - 1 : e[i] = d[i + 1]
  BY <1>0, TailElements
<1>3. q[1] \in Commands /\ q[1].cell \in Cells
  <2>1. q[1] \in Commands
    BY <1>0, SMT
  <2> QED BY <2>1 DEF Commands, Cells
<1>4. k[q[1].cell] = d[1]
  BY <1>3
<1> HIDE DEF s, e, k
<1>5. (s = <<>> <=> Len(q) = 1) /\ (e = <<>> <=> Len(d) = 1)
  <2>1. (s = <<>> <=> Len(s) = 0) /\ (e = <<>> <=> Len(e) = 0)
    BY <1>1, <1>2, EmptyLength
  <2> QED BY <1>0, <1>1, <1>2, <2>1, SMT
<1>6. Len(s) <= Len(e)
  BY <1>0, <1>1, <1>2, SMT
<1>7. \A i \in 1 .. Len(s) : s[i].kind = "WRITE"
  BY <1>0, <1>1, SMT DEF Link
<1>8. \A i \in 1 .. Len(s) - 1 : s[i + 1].cell = CellAfter(s[i].cell)
  <2> TAKE i \in 1 .. Len(s) - 1
  <2>1. i + 1 \in 1 .. Len(q) - 1 /\ i \in 1 .. Len(q) - 1
    BY <1>0, <1>1, SMT
  <2> QED BY <1>1, <2>1 DEF Link
<1>9. \A i \in 1 .. Len(e) - 1 : e[i + 1] = Succ(e[i])
  <2> TAKE i \in 1 .. Len(e) - 1
  <2>1. i + 1 \in 1 .. Len(d) - 1 /\ i \in 1 .. Len(d) - 1
    BY <1>0, <1>2, SMT
  <2> QED BY <1>2, <2>1 DEF Link
<1>10. e # <<>> => f = Succ(e[Len(e)])
  BY <1>0, <1>2, <1>5, SMTT(30) DEF Link
<1>11. s # <<>> => b = CellAfter(s[Len(s)].cell)
  BY <1>0, <1>1, <1>5, SMT DEF Link
<1>12. FirstCell(s, b) = CellAfter(q[1].cell)
  BY <1>0, <1>1, <1>5, SMT DEF FirstCell, Link
<1>13. FirstWord(e, f) = Succ(d[1])
  BY <1>0, <1>2, <1>5, SMT DEF FirstWord, Link
<1>14. CellBefore(FirstCell(s, b)) = q[1].cell
  BY <1>3, <1>12, CellRing
<1> QED BY <1>4, <1>6, <1>7, <1>8, <1>9, <1>10, <1>11, <1>13, <1>14 DEF Link, s, e, k

LEMMA LinkLeft ==
  ASSUME NEW q \in Seq(Commands), NEW d \in Seq(Word), NEW f, NEW b, NEW m, NEW bc,
         Link(q, d, f, b, m, bc)
  PROVE  Left(Len(q), q, d, m, bc)
<1>1. Len(q) \in Nat /\ Len(d) \in Nat /\ Len(q) <= Len(d) /\ (q = <<>> <=> Len(q) = 0) /\ (d = <<>> <=> Len(d) = 0)
  BY SMT DEF Link
<1>2. \A i \in 1 .. Len(q) - 1 : q[i + 1].cell = CellAfter(q[i].cell) /\ d[i + 1] = Succ(d[i])
  <2> TAKE i \in 1 .. Len(q) - 1
  <2>1. i \in 1 .. Len(d) - 1
    BY <1>1, SMT
  <2> QED BY <2>1 DEF Link
<1>3. Len(q) > 0 /\ q[1].cell # bc => d[1] = Succ(m[CellBefore(q[1].cell)])
  BY <1>1, SMT DEF Link, FirstCell, FirstWord
<1>4. \A i \in Len(q) + 1 .. Len(q) : q[i].kind = "READ"
  BY <1>1, SMT
<1> QED BY <1>1, <1>2, <1>3, <1>4 DEF Left, Link

LEMMA LeftRead ==
  ASSUME NEW n \in Nat, NEW q \in Seq(Commands), NEW d \in Seq(Word), NEW m, NEW bc,
         NEW c \in Commands, c.kind = "READ", Left(n, q, d, m, bc)
  PROVE  Left(n, Append(q, c), d, m, bc)
<1> DEFINE a == Append(q, c)
<1>1. /\ Len(a) = Len(q) + 1 /\ a[Len(q) + 1] = c
      /\ (\A i \in 1 .. Len(q) : a[i] = q[i]) /\ Len(q) \in Nat /\ Len(d) \in Nat
  BY AppendElements, SMT
<1>2. n <= Len(q) /\ n <= Len(d)
  BY DEF Left
<1> HIDE DEF a
<1>3. \A i \in n + 1 .. Len(a) : a[i].kind = "READ"
  BY <1>1, <1>2, SMT DEF Left
<1>4. \A i \in 1 .. n : a[i] = q[i]
  BY <1>1, <1>2, SMT
<1>5. \A i \in 1 .. n - 1 : a[i + 1].cell = CellAfter(a[i].cell) /\ d[i + 1] = Succ(d[i])
  <2> TAKE i \in 1 .. n - 1
  <2>1. i \in 1 .. n /\ i + 1 \in 1 .. n
    BY SMT
  <2> QED BY <1>4, <2>1 DEF Left
<1>6. \A i \in 1 .. n : a[i].kind = "WRITE"
  BY <1>4 DEF Left
<1>7. n > 0 /\ a[1].cell # bc => d[1] = Succ(m[CellBefore(a[1].cell)])
  <2> SUFFICES ASSUME n > 0 PROVE a[1].cell # bc => d[1] = Succ(m[CellBefore(a[1].cell)])
    OBVIOUS
  <2>1. a[1] = q[1]
    BY <1>4, SMT
  <2> QED BY <2>1 DEF Left
<1>8. n <= Len(a)
  BY <1>1, <1>2, SMT
<1> QED BY <1>2, <1>3, <1>5, <1>6, <1>7, <1>8 DEF Left, a

LEMMA LeftWord ==
  ASSUME NEW n \in Nat, NEW q \in Seq(Commands), NEW d \in Seq(Word), NEW m, NEW bc,
         NEW x \in Word, Left(n, q, d, m, bc)
  PROVE  Left(n, q, Append(d, x), m, bc)
<1> DEFINE a == Append(d, x)
<1>1. /\ Len(a) = Len(d) + 1 /\ (\A i \in 1 .. Len(d) : a[i] = d[i]) /\ Len(q) \in Nat /\ Len(d) \in Nat
  BY AppendElements, SMT
<1>2. n <= Len(d)
  BY DEF Left
<1> HIDE DEF a
<1>3. \A i \in 1 .. n : a[i] = d[i]
  BY <1>1, <1>2, SMT
<1>4. \A i \in 1 .. n - 1 : q[i + 1].cell = CellAfter(q[i].cell) /\ a[i + 1] = Succ(a[i])
  <2> TAKE i \in 1 .. n - 1
  <2>1. i \in 1 .. n /\ i + 1 \in 1 .. n
    BY SMT
  <2> QED BY <1>3, <2>1 DEF Left
<1>5. n > 0 /\ q[1].cell # bc => a[1] = Succ(m[CellBefore(q[1].cell)])
  <2> SUFFICES ASSUME n > 0 PROVE q[1].cell # bc => a[1] = Succ(m[CellBefore(q[1].cell)])
    OBVIOUS
  <2>1. a[1] = d[1]
    BY <1>3, SMT
  <2> QED BY <2>1 DEF Left
<1>6. n <= Len(a)
  BY <1>1, <1>2, SMT
<1> QED BY <1>4, <1>5, <1>6 DEF Left, a

(* The oldest command is served: a write while some are left, then reads.  *)
LEMMA LeftServe ==
  ASSUME NEW n \in Nat, NEW q \in Seq(Commands), NEW d \in Seq(Word), NEW m \in [Cells -> Word], NEW bc,
         q # <<>>, Left(n, q, d, m, bc)
  PROVE  /\ (q[1].kind = "WRITE") <=> n > 0
         /\ n > 0 => Left(n - 1, Tail(q), Tail(d), [m EXCEPT ![q[1].cell] = d[1]], bc)
         /\ n = 0 => Left(0, Tail(q), d, m, bc)
<1> DEFINE s == Tail(q)
           e == Tail(d)
           k == [m EXCEPT ![q[1].cell] = d[1]]
<1>0. Len(q) \in Nat \ {0} /\ Len(d) \in Nat /\ n <= Len(q) /\ n <= Len(d)
  BY SMT DEF Left
<1>1. /\ s \in Seq(Commands) /\ Len(s) = Len(q) - 1
      /\ \A i \in 1 .. Len(q) - 1 : s[i] = q[i + 1]
  BY TailElements
<1>2. (q[1].kind = "WRITE") <=> n > 0
  <2>1. n > 0 => 1 \in 1 .. n
    BY SMT
  <2>2. n = 0 => 1 \in n + 1 .. Len(q)
    BY <1>0, SMT
  <2>3. n > 0 \/ n = 0
    BY SMT
  <2> QED BY <2>1, <2>2, <2>3 DEF Left
<1>3. q[1] \in Commands /\ q[1].cell \in Cells
  <2>1. q[1] \in Commands
    BY <1>0, SMT
  <2> QED BY <2>1 DEF Commands, Cells
<1> HIDE DEF s
<1>4. ASSUME n > 0 PROVE Left(n - 1, s, e, k, bc)
  <2>0. d # <<>>
    BY <1>0, <1>4, SMT
  <2>1. /\ e \in Seq(Word) /\ Len(e) = Len(d) - 1
        /\ \A i \in 1 .. Len(d) - 1 : e[i] = d[i + 1]
    BY <2>0, TailElements
  <2>2. k[q[1].cell] = d[1]
    BY <1>3
  <2> HIDE DEF e, k
  <2>3. n - 1 <= Len(s) /\ n - 1 <= Len(e)
    BY <1>0, <1>1, <2>1, SMT
  <2>4. \A i \in 1 .. n - 1 : s[i].kind = "WRITE"
    <3> TAKE i \in 1 .. n - 1
    <3>1. i + 1 \in 1 .. n /\ i \in 1 .. Len(q) - 1
      BY <1>0, SMT
    <3> QED BY <1>1, <3>1 DEF Left
  <2>5. \A i \in (n - 1) + 1 .. Len(s) : s[i].kind = "READ"
    <3> TAKE i \in (n - 1) + 1 .. Len(s)
    <3>1. i + 1 \in n + 1 .. Len(q) /\ i \in 1 .. Len(q) - 1
      BY <1>0, <1>1, <1>4, SMT
    <3> QED BY <1>1, <3>1 DEF Left
  <2>6. \A i \in 1 .. (n - 1) - 1 : s[i + 1].cell = CellAfter(s[i].cell) /\ e[i + 1] = Succ(e[i])
    <3> TAKE i \in 1 .. (n - 1) - 1
    <3>1. i + 1 \in 1 .. n - 1 /\ i \in 1 .. Len(q) - 1 /\ i + 1 \in 1 .. Len(q) - 1
          /\ i \in 1 .. Len(d) - 1 /\ i + 1 \in 1 .. Len(d) - 1
      BY <1>0, SMT
    <3> QED BY <1>1, <2>1, <3>1 DEF Left
  <2>7. ASSUME n - 1 > 0 PROVE e[1] = Succ(k[CellBefore(s[1].cell)])
    <3>1. 1 \in 1 .. n - 1 /\ 1 \in 1 .. Len(q) - 1 /\ 1 \in 1 .. Len(d) - 1
      BY <1>0, <2>7, SMT
    <3>2. s[1] = q[1 + 1] /\ e[1] = d[1 + 1]
      BY <1>1, <2>1, <3>1
    <3>3. q[1 + 1].cell = CellAfter(q[1].cell) /\ d[1 + 1] = Succ(d[1])
      BY <3>1 DEF Left
    <3>4. CellBefore(s[1].cell) = q[1].cell
      BY <1>3, <3>2, <3>3, CellRing
    <3> QED BY <2>2, <3>2, <3>3, <3>4
  <2> QED BY <2>3, <2>4, <2>5, <2>6, <2>7 DEF Left
<1>5. ASSUME n = 0 PROVE Left(0, s, d, m, bc)
  <2>1. \A i \in 0 + 1 .. Len(s) : s[i].kind = "READ"
    <3> TAKE i \in 0 + 1 .. Len(s)
    <3>1. i + 1 \in n + 1 .. Len(q) /\ i \in 1 .. Len(q) - 1
      BY <1>0, <1>1, <1>5, SMT
    <3> QED BY <1>1, <3>1 DEF Left
  <2>2. 0 <= Len(s) /\ 0 <= Len(d)
    BY <1>0, <1>1, SMT
  <2>3. 1 .. 0 = {} /\ 1 .. 0 - 1 = {}
    BY SMT
  <2> QED BY <2>1, <2>2, <2>3, SMT DEF Left
<1> QED BY <1>2, <1>4, <1>5 DEF s
-----------------------------------------------------------------------------
(* The first capture after a reset of the MIG, which takes a word whenever *)
(* it has room and has room for more words than commands.  (What a later   *)
(* capture finds in the MIG, and what a refusal does, the runs sdram_orphan *)
(* and sdram_stall show.)                                                  *)
FirstCapture == Calm /\ ~Stall /\ DataDepth > CmdqDepth /\ MaxStarts <= 1

(* The words in the input FIFO follow each other, and nextWord follows.    *)
InOrder ==
  /\ \A i \in 1 .. Len(indata) - 1 : indata[i + 1] = Succ(indata[i])
  /\ indata # <<>> => nextWord = Succ(indata[Len(indata)])
Front == IF indata = <<>> THEN nextWord ELSE indata[1]

(* The phases: before the capture, in the clock of its start, while it     *)
(* runs, and after its end, when commands may still be waiting.            *)
BeginCell == CellOf(wr_addr_begin_reg)
Before ==
  /\ starts = 0 /\ ~wr_writing /\ ~wr_start_pulse /\ write_state = "W0"
  /\ wdf = <<>> /\ Left(0, cmdq, wdf, mem, BeginCell)
Starting == wr_start_pulse /\ starts = 1 /\ cmdq = <<>> /\ wdf = <<>>
Handing ==
  /\ Len(wdf) = Len(cmdq) + (IF write_state = "W2" THEN 1 ELSE 0)
  /\ indata_fifo_rden <=> write_state = "W1"
  /\ write_state = "W1" => indata # <<>>
  /\ Link(cmdq, wdf, Front, CellOf(wr_addr_i), mem, BeginCell)
Running == wr_writing /\ ~wr_start_pulse /\ starts = 1 /\ Handing
Ending ==
  /\ ~wr_writing /\ ~wr_start_pulse /\ starts = 1
  /\ \E n \in Nat : Left(n, cmdq, wdf, mem, BeginCell)
SInv == WInv /\ InOrder /\ (Before \/ Starting \/ Running \/ Ending)

LEMMA InitSInv == Init => SInv
<1> SUFFICES ASSUME Init PROVE SInv
  OBVIOUS
<1>1. WInv
  BY InitWInv
<1>2. /\ indata = <<>> /\ cmdq = <<>> /\ wdf = <<>> /\ starts = 0 /\ ~wr_writing /\ ~wr_start_pulse
      /\ write_state = "W0"
  BY DEF Init
<1>3. InOrder
  BY <1>2, SMT DEF InOrder
<1>4. Left(0, cmdq, wdf, mem, BeginCell)
  BY <1>2, SMT DEF Left
<1> QED BY <1>1, <1>2, <1>3, <1>4 DEF SInv, Before

(* The input FIFO: whatever happens to it, its words stay in order.        *)
LEMMA FrontWord == ASSUME TypeOK PROVE Front \in Word /\ (indata # <<>> => indata_fifo_dout = Front)
<1>1. indata \in Seq(Word) /\ nextWord \in Word
  BY DEF TypeOK
<1>2. indata # <<>> => indata[1] \in Word /\ Head(indata) = indata[1]
  BY <1>1, SMT
<1> QED BY <1>1, <1>2 DEF Front, indata_fifo_dout

LEMMA PopInOrder ==
  ASSUME TypeOK, InOrder, indata # <<>>, indata' = Tail(indata), nextWord' = nextWord
  PROVE  InOrder' /\ Front' = Succ(Front)
<1>1. /\ indata' \in Seq(Word) /\ Len(indata') = Len(indata) - 1 /\ Len(indata) \in Nat \ {0}
      /\ \A i \in 1 .. Len(indata) - 1 : indata'[i] = indata[i + 1]
  BY TailElements DEF TypeOK
<1>2. indata' = <<>> <=> Len(indata) = 1
  <2>1. indata' = <<>> <=> Len(indata') = 0
    BY <1>1, EmptyLength
  <2> QED BY <1>1, <2>1, SMT
<1> DEFINE v == indata'
<1>3. v = indata' OBVIOUS
<1> HIDE DEF v
<1>4. \A i \in 1 .. Len(v) - 1 : v[i + 1] = Succ(v[i])
  <2> TAKE i \in 1 .. Len(v) - 1
  <2>1. i + 1 \in 1 .. Len(indata) - 1 /\ i \in 1 .. Len(indata) - 1
    BY <1>1, <1>3, SMT
  <2> QED BY <1>1, <1>3, <2>1 DEF InOrder
<1>5. v # <<>> => nextWord = Succ(v[Len(v)])
  BY <1>1, <1>2, <1>3, SMT DEF InOrder
<1>6. Front' = Succ(Front)
  BY <1>1, <1>2, SMT DEF Front, InOrder
<1> QED BY <1>3, <1>4, <1>5, <1>6 DEF InOrder, Succ

LEMMA PushInOrder ==
  ASSUME TypeOK, InOrder, Arrive
  PROVE  InOrder' /\ Front' = Front /\ indata' # <<>>
<1>1. indata' = Append(indata, nextWord) /\ nextWord' = Succ(nextWord)
      /\ indata \in Seq(Word) /\ nextWord \in Word
  BY DEF Arrive, TypeOK
<1>2. /\ indata' # <<>> /\ Len(indata') = Len(indata) + 1 /\ indata'[Len(indata) + 1] = nextWord
      /\ (\A i \in 1 .. Len(indata) : indata'[i] = indata[i]) /\ Len(indata) \in Nat
      /\ (indata = <<>> <=> Len(indata) = 0)
  BY <1>1, AppendElements, EmptyLength, SMT
<1> DEFINE v == indata'
<1>3. v = indata' OBVIOUS
<1> HIDE DEF v
<1>4. \A i \in 1 .. Len(v) - 1 : v[i + 1] = Succ(v[i])
  <2> TAKE i \in 1 .. Len(v) - 1
  <2>1. CASE i = Len(indata)
    BY <1>2, <1>3, <2>1, SMT DEF InOrder
  <2>2. CASE i # Len(indata)
    <3>1. i \in 1 .. Len(indata) - 1 /\ i \in 1 .. Len(indata) /\ i + 1 \in 1 .. Len(indata)
      BY <1>2, <1>3, <2>2, SMT
    <3>2. v[i] = indata[i] /\ v[i + 1] = indata[i + 1]
      BY <1>2, <1>3, <3>1
    <3> QED BY <3>1, <3>2 DEF InOrder
  <2> QED BY <2>1, <2>2
<1>5. nextWord' = Succ(v[Len(v)])
  BY <1>1, <1>2, <1>3
<1>6. Front' = Front
  BY <1>1, <1>2, SMT DEF Front
<1> QED BY <1>2, <1>3, <1>4, <1>5, <1>6 DEF InOrder, Succ

LEMMA StepInOrder ==
  ASSUME TypeOK, InOrder, [Next]_vars
  PROVE  InOrder'
<1>1. CASE indata' = <<>>
  BY <1>1, SMT DEF InOrder
<1>2. CASE indata' = indata /\ nextWord' = nextWord
  BY <1>2 DEF InOrder, Succ
<1>3. CASE indata # <<>> /\ indata' = Tail(indata) /\ nextWord' = nextWord
  BY <1>3, PopInOrder
<1>4. CASE Arrive
  BY <1>4, PushInOrder
<1>5. ASSUME NEW r \in BOOLEAN, NEW w \in BOOLEAN, NEW s \in BOOLEAN, Clock(r, w, s) \/ ClockInReset(r, w, s)
      PROVE  /\ indata' = indata \/ (indata # <<>> /\ indata' = Tail(indata))
             /\ nextWord' = nextWord
  BY <1>5, Zenon DEF Clock, ClockInReset, InputFifo
<1>6. FifoReset \/ Reset => indata' = <<>>
  BY DEF FifoReset, Reset
<1>7. AssertReset \/ ReleaseReset \/ OutRead \/ UNCHANGED vars => indata' = indata /\ nextWord' = nextWord
  BY DEF AssertReset, ReleaseReset, OutRead, vars, buffers
<1> QED BY <1>1, <1>2, <1>3, <1>4, <1>5, <1>6, <1>7 DEF Next

(* A clock of the running capture, before the MIG serves: the word or the  *)
(* command that is handed over continues the queues.                       *)
LEMMA HandOver ==
  ASSUME FirstCapture, SInv, Running, NEW r \in BOOLEAN, NEW w \in BOOLEAN, NEW s \in BOOLEAN, Clock(r, w, s)
  PROVE  /\ Link(WithCommand(r), WithWord(w), Front', CellOf(wr_addr_i'), mem, BeginCell)
         /\ Len(WithWord(w)) = Len(WithCommand(r)) + (IF write_state' = "W2" THEN 1 ELSE 0)
         /\ indata_fifo_rden' <=> write_state' = "W1"
         /\ write_state' = "W1" => indata' # <<>>
<1>1. /\ (WritePresent \/ WriteData(w) \/ WriteCommand(r)) /\ InputFifo /\ Mig(r, w, s) /\ nextWord' = nextWord
  BY DEF Clock
<1>2. /\ TypeOK /\ InOrder /\ wr_writing /\ ~wr_start_pulse /\ Handing /\ ~rd_app_en
      /\ (wr_app_en <=> write_state = "W2") /\ (wr_wdf_wren <=> write_state = "W1")
      /\ write_state \in {"W0", "W1", "W2"} /\ wr_addr_i \in Addr
  BY DEF SInv, Running, WInv, TypeOK
<1>3. APP_EN <=> write_state = "W2"
  BY <1>2 DEF APP_EN
<1>4. Asking \in Commands /\ Asking.kind = "WRITE" /\ Asking.cell = CellOf(wr_addr_i)
  BY <1>2, AskingIsCommand DEF Asking, APP_CMD, APP_ADDR, CellOf
<1>5. cmdq \in Seq(Commands) /\ wdf \in Seq(Word) /\ Front \in Word /\ (indata # <<>> => indata_fifo_dout = Front)
  BY <1>2, QueueTypes, FrontWord
<1>6. Link(cmdq, wdf, Front, CellOf(wr_addr_i), mem, BeginCell)
      /\ Len(wdf) = Len(cmdq) + (IF write_state = "W2" THEN 1 ELSE 0)
      /\ Len(cmdq) \in Nat /\ Len(wdf) \in Nat
  BY <1>2, <1>5 DEF Handing
<1>7. CASE write_state = "W0"
  <2>1. WithCommand(r) = cmdq /\ WithWord(w) = wdf
    BY <1>2, <1>3, <1>7 DEF WithCommand, WithWord
  <2>2. indata' = indata /\ Front' = Front
    BY <1>1, <1>2, <1>7, Zenon DEF InputFifo, Handing, Front
  <2>3. /\ write_state' = (IF indata # <<>> THEN "W1" ELSE "W0") /\ wr_addr_i' = wr_addr_i
        /\ indata_fifo_rden' <=> indata # <<>>
    BY <1>1, <1>2, <1>7, WriterSteps
  <2> QED BY <1>6, <1>7, <2>1, <2>2, <2>3
<1>8. CASE write_state = "W1"
  <2>1. w
    <3>1. Len(wdf) < DataDepth
      BY <1>2, <1>6, <1>8, SizeAssumption, SMT DEF FirstCapture, TypeOK
    <3> QED BY <1>1, <3>1, MigParts DEF FirstCapture
  <2>2. indata # <<>> /\ indata_fifo_rden
    BY <1>2, <1>8 DEF Handing
  <2>3. WithCommand(r) = cmdq /\ WithWord(w) = Append(wdf, Front)
    BY <1>2, <1>3, <1>5, <1>8, <2>1, <2>2 DEF WithCommand, WithWord
  <2>4. Front' = Succ(Front)
    <3>1. indata' = Tail(indata)
      BY <1>1, <2>2, Zenon DEF InputFifo
    <3> QED BY <1>1, <1>2, <2>2, <3>1, PopInOrder
  <2>5. write_state' = "W2" /\ wr_addr_i' = wr_addr_i /\ ~indata_fifo_rden'
    BY <1>1, <1>2, <1>8, <2>1, WriterSteps
  <2>6. Link(cmdq, Append(wdf, Front), Succ(Front), CellOf(wr_addr_i), mem, BeginCell)
    BY <1>5, <1>6, LinkWord
  <2>7. Len(Append(wdf, Front)) = Len(wdf) + 1
    BY <1>5
  <2> QED BY <1>6, <1>8, <2>3, <2>4, <2>5, <2>6, <2>7
<1>9. CASE write_state = "W2"
  <2>1. WithWord(w) = wdf
    BY <1>2, <1>9 DEF WithWord
  <2>2. indata' = indata /\ Front' = Front
    BY <1>1, <1>2, <1>9, Zenon DEF InputFifo, Handing, Front
  <2>3. /\ write_state' = (IF r THEN "W0" ELSE "W2") /\ ~indata_fifo_rden'
        /\ wr_addr_i' = (IF r THEN Plus(wr_addr_i, Burst) ELSE wr_addr_i)
    BY <1>1, <1>2, <1>9, WriterSteps
  <2>4. CASE r
    <3>1. WithCommand(r) = Append(cmdq, Asking)
      BY <1>3, <1>9, <2>4 DEF WithCommand
    <3>2. CellOf(wr_addr_i') = CellAfter(CellOf(wr_addr_i))
      BY <1>2, <2>3, <2>4, CellOfPlus
    <3>3. Len(cmdq) < Len(wdf)
      BY <1>6, <1>9
    <3>4. Link(Append(cmdq, Asking), wdf, Front, CellAfter(CellOf(wr_addr_i)), mem, BeginCell)
      BY <1>4, <1>5, <1>6, <3>3, LinkCommand
    <3>5. Len(Append(cmdq, Asking)) = Len(cmdq) + 1
      BY <1>4, <1>5
    <3>6. Link(WithCommand(r), WithWord(w), Front', CellOf(wr_addr_i'), mem, BeginCell)
      BY <2>1, <2>2, <3>1, <3>2, <3>4
    <3>7. Len(WithWord(w)) = Len(WithCommand(r)) + 0
      BY <1>6, <1>9, <2>1, <3>1, <3>5
    <3>8. write_state' = "W0" /\ ~indata_fifo_rden'
      BY <2>3, <2>4
    <3> QED BY <3>6, <3>7, <3>8
  <2>5. CASE ~r
    <3>1. WithCommand(r) = cmdq
      BY <2>5 DEF WithCommand
    <3> QED BY <1>6, <1>9, <2>1, <2>2, <2>3, <2>5, <3>1
  <2> QED BY <2>4, <2>5
<1> QED BY <1>2, <1>7, <1>8, <1>9

(* The registers and the counter of captures while one runs. *)
LEMMA NoSecondStart ==
  ASSUME FirstCapture, NEW r \in BOOLEAN, NEW w \in BOOLEAN, NEW s \in BOOLEAN,
         Clock(r, w, s) \/ ClockInReset(r, w, s), starts = 1, TypeOK
  PROVE  ~wr_start_pulse' /\ starts' = 1
<1>1. Pulses
  BY DEF Clock, ClockInReset
<1>2. ~(starts < MaxStarts)
  BY FlagsAssumption DEF FirstCapture
<1>3. ~wr_start_pulse'
  BY <1>1, <1>2, Zenon DEF Pulses
<1> QED BY <1>1, <1>3, Zenon DEF Pulses

LEMMA RunningStep ==
  ASSUME FirstCapture, SInv, Running, NEW r \in BOOLEAN, NEW w \in BOOLEAN, NEW s \in BOOLEAN, Clock(r, w, s)
  PROVE  Running' \/ Ending'
<1> DEFINE q == WithCommand(r)
           d == WithWord(w)
           m == [mem EXCEPT ![q[1].cell] = d[1]]
<1>1. /\ Link(q, d, Front', CellOf(wr_addr_i'), mem, BeginCell)
      /\ Len(d) = Len(q) + (IF write_state' = "W2" THEN 1 ELSE 0)
      /\ (indata_fifo_rden' <=> write_state' = "W1") /\ (write_state' = "W1" => indata' # <<>>)
  BY HandOver
<1>2. /\ TypeOK /\ ~wr_start_pulse /\ starts = 1 /\ StatusProcess /\ Mig(r, w, s)
      /\ Link(cmdq, wdf, Front, CellOf(wr_addr_i), mem, BeginCell)
  BY DEF SInv, WInv, Running, Handing, Clock
<1>3. BeginCell' = BeginCell
  <2>1. wr_addr_begin_reg' = wr_addr_begin_reg
    BY <1>2, Zenon DEF StatusProcess
  <2> QED BY <2>1 DEF BeginCell, CellOf, Low, Span
<1>4. q \in Seq(Commands) /\ d \in Seq(Word) /\ cmdq \in Seq(Commands) /\ wdf \in Seq(Word)
      /\ mem \in [Cells -> Word]
  BY <1>2, QueueTypes DEF TypeOK, Cells
<1>5. /\ s => cmdq # <<>> /\ (Head(cmdq).kind = "WRITE" => wdf # <<>>)
      /\ cmdq' = IF s THEN Tail(q) ELSE q
      /\ wdf' = IF s /\ Head(cmdq).kind = "WRITE" THEN Tail(d) ELSE d
      /\ mem' = IF s /\ Head(cmdq).kind = "WRITE" THEN [mem EXCEPT ![Head(cmdq).cell] = Head(wdf)] ELSE mem
  BY <1>2, MigParts
<1>6. cmdq # <<>> => Head(cmdq).kind = "WRITE" /\ Head(cmdq) = cmdq[1]
  <2> SUFFICES ASSUME cmdq # <<>> PROVE Head(cmdq).kind = "WRITE" /\ Head(cmdq) = cmdq[1]
    OBVIOUS
  <2>1. Head(cmdq) = cmdq[1] /\ 1 \in 1 .. Len(cmdq)
    BY <1>4, SMT
  <2> QED BY <1>2, <2>1 DEF Link
<1>7. Link(cmdq', wdf', Front', CellOf(wr_addr_i'), mem', BeginCell)
      /\ Len(wdf') = Len(cmdq') + (IF write_state' = "W2" THEN 1 ELSE 0)
  <2>1. CASE s
    <3>1. cmdq' = Tail(q) /\ wdf' = Tail(d) /\ mem' = [mem EXCEPT ![cmdq[1].cell] = Head(wdf)]
          /\ cmdq # <<>> /\ wdf # <<>>
      BY <1>5, <1>6, <2>1
    <3>2. q # <<>> /\ Head(q) = Head(cmdq) /\ Head(q) = q[1]
      BY <1>4, <3>1, AskingIsCommand, <1>2, AppendElements, TailElements DEF WithCommand
    <3>3. d # <<>> /\ Head(d) = Head(wdf) /\ Head(d) = d[1]
      <4>1. indata_fifo_dout \in Word
        BY <1>2, QueueTypes
      <4>2. d # <<>> /\ Head(d) = Head(wdf)
        BY <1>4, <3>1, <4>1, AppendElements DEF WithWord
      <4> QED BY <1>4, <4>2, TailElements
    <3>4. mem' = m
      BY <1>6, <3>1, <3>2, <3>3
    <3> HIDE DEF q, d, m
    <3>5. Link(Tail(q), Tail(d), Front', CellOf(wr_addr_i'), m, BeginCell)
      BY <1>1, <1>4, <3>2, LinkServe DEF m
    <3>6. Len(Tail(q)) = Len(q) - 1 /\ Len(Tail(d)) = Len(d) - 1 /\ Len(q) \in Nat /\ Len(d) \in Nat
      BY <1>4, <3>2, <3>3, TailElements
    <3>7. Link(cmdq', wdf', Front', CellOf(wr_addr_i'), mem', BeginCell)
      BY <3>1, <3>4, <3>5
    <3>8. Len(wdf') = Len(d) - 1 /\ Len(cmdq') = Len(q) - 1
      BY <3>1, <3>6
    <3>9. Len(d) = Len(q) + (IF write_state' = "W2" THEN 1 ELSE 0)
      BY <1>1
    <3> QED BY <3>6, <3>7, <3>8, <3>9
  <2>2. CASE ~s
    BY <1>1, <1>5, <2>2
  <2> QED BY <2>1, <2>2
<1>8. ~wr_start_pulse' /\ starts' = 1
  BY <1>2, NoSecondStart
<1>9. CASE wr_writing'
  <2>1. Handing'
    BY <1>1, <1>3, <1>7 DEF Handing, CellOf, Low, Span, Link, FirstCell, FirstWord, CellAfter, CellBefore, Succ
  <2> QED BY <1>8, <1>9, <2>1 DEF Running
<1>10. CASE ~wr_writing'
  <2>1. TypeOK'
    BY <1>2, StepType DEF Next
  <2>2. cmdq' \in Seq(Commands) /\ wdf' \in Seq(Word)
    BY <2>1 DEF TypeOK, Commands, Word
  <2>3. Left(Len(cmdq'), cmdq', wdf', mem', BeginCell) /\ Len(cmdq') \in Nat
    BY <1>7, <2>2, LinkLeft
  <2>4. \E n \in Nat : Left(n, cmdq', wdf', mem', BeginCell')
    BY <1>3, <2>3
  <2> QED BY <1>8, <1>10, <2>4 DEF Ending, Left, CellAfter, CellBefore, Succ
<1> QED BY <1>9, <1>10

(* What the MIG still does when no capture runs: it takes read commands    *)
(* and perhaps one more word, and serves what is left.                     *)
LEMMA MigGoesOn ==
  ASSUME TypeOK, ~wr_writing, NEW r \in BOOLEAN, NEW w \in BOOLEAN, NEW s \in BOOLEAN, Mig(r, w, s),
         NEW n \in Nat, NEW bc, Left(n, cmdq, wdf, mem, bc)
  PROVE  /\ \E k \in 0 .. n : Left(k, cmdq', wdf', mem', bc)
         /\ n = 0 /\ wdf = <<>> /\ ~wr_wdf_wren => wdf' = <<>>
<1> DEFINE q == WithCommand(r)
           d == WithWord(w)
<1>1. /\ s => cmdq # <<>> /\ (Head(cmdq).kind = "WRITE" => wdf # <<>>)
      /\ cmdq' = IF s THEN Tail(q) ELSE q
      /\ wdf' = IF s /\ Head(cmdq).kind = "WRITE" THEN Tail(d) ELSE d
      /\ mem' = IF s /\ Head(cmdq).kind = "WRITE" THEN [mem EXCEPT ![Head(cmdq).cell] = Head(wdf)] ELSE mem
  BY MigParts
<1>2. /\ q \in Seq(Commands) /\ d \in Seq(Word) /\ cmdq \in Seq(Commands) /\ wdf \in Seq(Word)
      /\ mem \in [Cells -> Word] /\ Asking \in Commands /\ indata_fifo_dout \in Word
  BY QueueTypes, AskingIsCommand DEF TypeOK, Cells
<1>3. Asking.kind = "READ"
  BY DEF Asking, APP_CMD
<1>4. Left(n, q, wdf, mem, bc)
  BY <1>2, <1>3, LeftRead DEF WithCommand
<1>5. Left(n, q, d, mem, bc)
  BY <1>2, <1>4, LeftWord DEF WithWord
<1>6. cmdq # <<>> => q # <<>> /\ Head(q) = Head(cmdq) /\ Head(q) = q[1]
  <2> SUFFICES ASSUME cmdq # <<>> PROVE q # <<>> /\ Head(q) = Head(cmdq) /\ Head(q) = q[1]
    OBVIOUS
  <2>1. q # <<>> /\ Head(q) = Head(cmdq)
    BY <1>2, AppendElements DEF WithCommand
  <2> QED BY <1>2, <2>1, TailElements
<1>7. wdf # <<>> => Head(wdf) = d[1]
  <2> SUFFICES ASSUME wdf # <<>> PROVE Head(wdf) = d[1]
    OBVIOUS
  <2>1. d # <<>> /\ Head(d) = Head(wdf)
    BY <1>2, AppendElements DEF WithWord
  <2> QED BY <1>2, <2>1, TailElements
<1>8. ~wr_wdf_wren => d = wdf
  BY DEF WithWord
<1> HIDE DEF q, d
<1>9. CASE s
  <2>1. /\ (q[1].kind = "WRITE") <=> n > 0
        /\ n > 0 => Left(n - 1, Tail(q), Tail(d), [mem EXCEPT ![q[1].cell] = d[1]], bc)
        /\ n = 0 => Left(0, Tail(q), d, mem, bc)
    BY <1>1, <1>2, <1>5, <1>6, <1>9, LeftServe
  <2>2. CASE n > 0
    <3>1. Head(cmdq).kind = "WRITE" /\ Head(cmdq) = q[1]
      BY <1>1, <1>6, <1>9, <2>1, <2>2
    <3>2. cmdq' = Tail(q) /\ wdf' = Tail(d) /\ mem' = [mem EXCEPT ![q[1].cell] = d[1]]
      BY <1>1, <1>7, <1>9, <3>1
    <3>3. n - 1 \in 0 .. n /\ Left(n - 1, cmdq', wdf', mem', bc)
      BY <2>1, <2>2, <3>2
    <3> QED BY <2>2, <3>3
  <2>3. CASE n = 0
    <3>1. Head(cmdq).kind # "WRITE"
      BY <1>1, <1>6, <1>9, <2>1, <2>3
    <3>2. cmdq' = Tail(q) /\ wdf' = d /\ mem' = mem
      BY <1>1, <1>9, <3>1
    <3>3. 0 \in 0 .. n /\ Left(0, cmdq', wdf', mem', bc)
      BY <2>1, <2>3, <3>2
    <3> QED BY <1>8, <3>2, <3>3
  <2> QED BY <2>2, <2>3
<1>10. CASE ~s
  <2>1. cmdq' = q /\ wdf' = d /\ mem' = mem
    BY <1>1, <1>10
  <2>2. n \in 0 .. n /\ Left(n, cmdq', wdf', mem', bc)
    BY <1>5, <2>1
  <2> QED BY <1>8, <2>1, <2>2
<1> QED BY <1>9, <1>10

LEMMA BeforeStep ==
  ASSUME FirstCapture, SInv, Before, NEW r \in BOOLEAN, NEW w \in BOOLEAN, NEW s \in BOOLEAN,
         Clock(r, w, s) \/ ClockInReset(r, w, s)
  PROVE  Before' \/ Starting'
<1>1. /\ TypeOK /\ ~wr_writing /\ ~wr_start_pulse /\ write_state = "W0" /\ ~wr_wdf_wren /\ starts = 0
      /\ wdf = <<>> /\ Left(0, cmdq, wdf, mem, BeginCell)
  BY DEF SInv, WInv, Before
<1>2. Mig(r, w, s) /\ Pulses
  BY DEF Clock, ClockInReset
<1>3. wdf' = <<>> /\ Left(0, cmdq', wdf', mem', BeginCell)
  <2>1. PICK k \in 0 .. 0 : Left(k, cmdq', wdf', mem', BeginCell)
    BY <1>1, <1>2, MigGoesOn
  <2>2. k = 0
    BY SMT
  <2> QED BY <1>1, <1>2, <2>1, <2>2, MigGoesOn
<1>4. ~wr_writing' /\ write_state' = "W0" /\ wr_addr_begin_reg' = wr_addr_begin_reg
  <2>1. CASE Clock(r, w, s)
    <3>1. StatusProcess /\ (WritePresent \/ WriteData(w) \/ WriteCommand(r))
      BY <2>1 DEF Clock
    <3>2. ~wr_writing' /\ wr_addr_begin_reg' = wr_addr_begin_reg
      BY <1>1, <3>1, Zenon DEF StatusProcess
    <3> QED BY <1>1, <3>1, <3>2, WriterSteps
  <2>2. CASE ClockInReset(r, w, s)
    BY <1>1, <2>2 DEF ClockInReset, status, writer
  <2> QED BY <2>1, <2>2
<1>5. BeginCell' = BeginCell
  BY <1>4 DEF BeginCell, CellOf, Low, Span
<1>6. starts' = IF wr_start_pulse' THEN 1 ELSE 0
  <2>1. starts' = IF wr_start_pulse' THEN starts + 1 ELSE starts
    BY <1>2, Zenon DEF Pulses
  <2> QED BY <1>1, <2>1
<1>7. CASE wr_start_pulse'
  <2>1. WInv'
    BY StepWInv DEF SInv, FirstCapture, Next
  <2>2. cmdq' = <<>>
    BY <1>7, <2>1 DEF WInv
  <2> QED BY <1>3, <1>6, <1>7, <2>2 DEF Starting
<1>8. CASE ~wr_start_pulse'
  BY <1>3, <1>4, <1>5, <1>6, <1>8 DEF Before, Left, CellAfter, CellBefore, Succ
<1> QED BY <1>7, <1>8

LEMMA StartingStep ==
  ASSUME FirstCapture, SInv, Starting, NEW r \in BOOLEAN, NEW w \in BOOLEAN, NEW s \in BOOLEAN,
         Clock(r, w, s)
  PROVE  Running' \/ Ending'
<1>1. /\ TypeOK /\ ~wr_writing /\ wr_start_pulse /\ write_state = "W0" /\ ~wr_wdf_wren /\ ~wr_app_en
      /\ ~rd_app_en /\ starts = 1 /\ cmdq = <<>> /\ wdf = <<>>
  BY DEF SInv, WInv, Starting
<1>2. Mig(r, w, s) /\ (WritePresent \/ WriteData(w) \/ WriteCommand(r))
  BY DEF Clock
<1>3. cmdq' = <<>> /\ wdf' = <<>>
  <2>1. Left(0, cmdq, wdf, mem, 0)
    BY <1>1, SMT DEF Left
  <2>2. wdf' = <<>>
    BY <1>1, <1>2, <2>1, MigGoesOn
  <2> QED BY <1>1, <1>2, <2>2, MigIdle DEF APP_EN
<1>4. ~indata_fifo_rden' /\ write_state' = "W0" /\ wr_addr_i' = wr_addr_begin_reg'
  BY <1>1, <1>2, WriterSteps
<1>5. ~wr_start_pulse' /\ starts' = 1
  BY <1>1, NoSecondStart
<1>6. CASE wr_writing'
  <2>1. Link(<<>>, <<>>, Front', CellOf(wr_addr_i)', mem', BeginCell')
    BY <1>4, SMT DEF Link, FirstCell, BeginCell, CellOf, Low, Span
  <2>2. Handing'
    BY <1>3, <1>4, <2>1 DEF Handing, Link, FirstCell, FirstWord, CellAfter, CellBefore, Succ
  <2> QED BY <1>5, <1>6, <2>2 DEF Running
<1>7. CASE ~wr_writing'
  <2>1. Left(0, <<>>, <<>>, mem', BeginCell')
    BY SMT DEF Left
  <2>2. \E n \in Nat : Left(n, cmdq', wdf', mem', BeginCell')
    BY <1>3, <2>1
  <2> QED BY <1>5, <1>7, <2>2 DEF Ending, Left, CellAfter, CellBefore, Succ
<1> QED BY <1>6, <1>7

LEMMA EndingStep ==
  ASSUME FirstCapture, SInv, Ending, NEW r \in BOOLEAN, NEW w \in BOOLEAN, NEW s \in BOOLEAN,
         Clock(r, w, s) \/ ClockInReset(r, w, s)
  PROVE  Ending'
<1>1. TypeOK /\ ~wr_writing /\ ~wr_start_pulse /\ starts = 1
  BY DEF SInv, WInv, Ending
<1>2. Mig(r, w, s)
  BY DEF Clock, ClockInReset
<1>3. PICK n \in Nat : Left(n, cmdq, wdf, mem, BeginCell)
  BY DEF Ending
<1>4. \E k \in Nat : Left(k, cmdq', wdf', mem', BeginCell)
  <2>1. PICK k \in 0 .. n : Left(k, cmdq', wdf', mem', BeginCell)
    BY <1>1, <1>2, <1>3, MigGoesOn
  <2> QED BY <2>1
<1>5. ~wr_writing' /\ wr_addr_begin_reg' = wr_addr_begin_reg
  <2>1. CASE Clock(r, w, s)
    BY <1>1, <2>1, Zenon DEF Clock, StatusProcess
  <2>2. CASE ClockInReset(r, w, s)
    BY <1>1, <2>2 DEF ClockInReset, status
  <2> QED BY <2>1, <2>2
<1>6. BeginCell' = BeginCell
  BY <1>5 DEF BeginCell, CellOf, Low, Span
<1>7. ~wr_start_pulse' /\ starts' = 1
  BY <1>1, NoSecondStart
<1> QED BY <1>4, <1>5, <1>6, <1>7 DEF Ending, Left, CellAfter, CellBefore, Succ

LEMMA StepSInv ==
  ASSUME FirstCapture, SInv, [Next]_vars
  PROVE  SInv'
<1>0. WInv /\ WInv' /\ TypeOK /\ InOrder'
  BY StepWInv, StepInOrder DEF SInv, WInv, FirstCapture
<1>1. ASSUME NEW r \in BOOLEAN, NEW w \in BOOLEAN, NEW s \in BOOLEAN, Clock(r, w, s) PROVE SInv'
  BY <1>0, <1>1, BeforeStep, StartingStep, RunningStep, EndingStep DEF SInv
<1>2. ASSUME NEW r \in BOOLEAN, NEW w \in BOOLEAN, NEW s \in BOOLEAN, ClockInReset(r, w, s) PROVE SInv'
  <2>1. ~wr_writing /\ ~wr_start_pulse
    BY <1>0, <1>2 DEF ClockInReset, WInv
  <2>2. Before \/ Ending
    BY <2>1 DEF SInv, Starting, Running
  <2> QED BY <1>0, <1>2, <2>2, BeforeStep, EndingStep DEF SInv
<1>3. CASE AssertReset
  <2>1. /\ ~wr_writing /\ ~wr_start_pulse /\ cmdq = <<>>
        /\ ControlReset /\ UNCHANGED <<pulses, mig, starts>>
    BY <1>3 DEF AssertReset, Quiet, FirstCapture
  <2>2. Left(0, cmdq', wdf', mem', BeginCell')
    BY <2>1, SMT DEF Left, mig
  <2>3. ~wr_writing' /\ ~wr_start_pulse' /\ write_state' = "W0" /\ starts' = starts /\ wdf' = wdf
    BY <2>1 DEF ControlReset, pulses, mig
  <2>4. CASE Before
    BY <1>0, <2>2, <2>3, <2>4 DEF SInv, Before, Left, CellAfter, CellBefore, Succ
  <2>5. CASE Ending
    <3>1. \E n \in Nat : Left(n, cmdq', wdf', mem', BeginCell')
      BY <2>2
    <3> QED BY <1>0, <2>3, <2>5, <3>1 DEF SInv, Ending, Left, CellAfter, CellBefore, Succ
  <2> QED BY <2>1, <2>4, <2>5 DEF SInv, Starting, Running
<1>4. CASE Reset
  <2>1. /\ ~wr_writing' /\ ~wr_start_pulse' /\ write_state' = "W0" /\ starts' = 0 /\ wdf' = <<>> /\ cmdq' = <<>>
    BY <1>4 DEF Reset, ControlReset
  <2>2. Left(0, cmdq', wdf', mem', BeginCell')
    BY <2>1, SMT DEF Left
  <2> QED BY <1>0, <2>1, <2>2 DEF SInv, Before, Left, CellAfter, CellBefore, Succ
<1>5. ASSUME UNCHANGED <<pulses, status, writer, mig, starts>>, Before \/ Starting \/ Ending PROVE SInv'
  <2>1. /\ wr_addr_begin_reg' = wr_addr_begin_reg /\ wr_writing' = wr_writing /\ starts' = starts
        /\ wr_start_pulse' = wr_start_pulse /\ write_state' = write_state /\ wdf' = wdf /\ cmdq' = cmdq /\ mem' = mem
    BY <1>5 DEF pulses, status, writer, mig
  <2>2. BeginCell' = BeginCell
    BY <2>1 DEF BeginCell, CellOf, Low, Span
  <2>3. Before => Before'
    BY <2>1, <2>2 DEF Before, Left, CellAfter, CellBefore, Succ
  <2>4. Starting => Starting'
    BY <2>1 DEF Starting
  <2>5. Ending => Ending'
    BY <2>1, <2>2 DEF Ending, Left, CellAfter, CellBefore, Succ
  <2> QED BY <1>0, <1>5, <2>3, <2>4, <2>5 DEF SInv
<1>6. CASE FifoReset
  <2>1. ~wr_writing /\ UNCHANGED <<pulses, status, writer, mig, starts>>
    BY <1>6 DEF FifoReset, Quiet, FirstCapture
  <2> QED BY <1>5, <2>1 DEF SInv, Running
<1>7. CASE ReleaseReset \/ Arrive \/ OutRead \/ UNCHANGED vars
  <2>1. UNCHANGED <<pulses, status, writer, mig, starts>>
    BY <1>7 DEF ReleaseReset, Arrive, OutRead, vars
  <2>2. CASE Running
    <3>1. Front' = Front /\ (indata # <<>> => indata' # <<>>)
      <4>1. CASE Arrive
        BY <1>0, <4>1, PushInOrder DEF SInv
      <4>2. CASE ReleaseReset \/ OutRead \/ UNCHANGED vars
        <5>1. indata' = indata /\ nextWord' = nextWord
          BY <4>2 DEF ReleaseReset, OutRead, vars, buffers
        <5> QED BY <5>1 DEF Front
      <4> QED BY <1>7, <4>1, <4>2
    <3>2. /\ wr_addr_begin_reg' = wr_addr_begin_reg /\ wr_writing' = wr_writing /\ starts' = starts
          /\ wr_start_pulse' = wr_start_pulse /\ write_state' = write_state /\ wdf' = wdf /\ cmdq' = cmdq /\ mem' = mem
          /\ indata_fifo_rden' = indata_fifo_rden /\ wr_addr_i' = wr_addr_i
      BY <2>1 DEF pulses, status, writer, mig
    <3>3. BeginCell' = BeginCell /\ CellOf(wr_addr_i)' = CellOf(wr_addr_i)
      BY <3>2 DEF BeginCell, CellOf, Low, Span
    <3>4. Handing'
      BY <2>2, <3>1, <3>2, <3>3 DEF Running, Handing, Link, FirstCell, FirstWord, CellAfter, CellBefore, Succ
    <3> QED BY <1>0, <2>2, <3>2, <3>4 DEF SInv, Running
  <2>3. CASE Before \/ Starting \/ Ending
    BY <1>5, <2>1, <2>3
  <2> QED BY <2>2, <2>3 DEF SInv
<1> QED BY <1>1, <1>2, <1>3, <1>4, <1>6, <1>7 DEF Next

(* A cell changes only when the MIG serves the oldest write command, and   *)
(* then its word follows the one in the cell before.                       *)
LEMMA StoresInOrder ==
  ASSUME FirstCapture, SInv, [Next]_vars, NEW c \in 0 .. Size - 1,
         mem'[c] # mem[c], c # Low(wr_addr_begin_reg) \div Burst
  PROVE  mem'[c] = Succ(mem[(c + Size - 1) % Size])
<1>1. PICK r \in BOOLEAN, w \in BOOLEAN, s \in BOOLEAN : Mig(r, w, s)
  <2>1. CASE \E r, w, s \in BOOLEAN : Clock(r, w, s) \/ ClockInReset(r, w, s)
    BY <2>1 DEF Clock, ClockInReset
  <2>2. CASE AssertReset \/ ReleaseReset \/ FifoReset \/ Reset \/ Arrive \/ OutRead \/ UNCHANGED vars
    BY <2>2 DEF AssertReset, ReleaseReset, FifoReset, Reset, Arrive, OutRead, vars, mig
  <2> QED BY <2>1, <2>2 DEF Next
<1>2. TypeOK /\ cmdq \in Seq(Commands) /\ wdf \in Seq(Word) /\ mem \in [Cells -> Word]
  BY QueueTypes DEF SInv, WInv, TypeOK, Cells
<1>3. /\ cmdq # <<>> /\ wdf # <<>> /\ Head(cmdq).kind = "WRITE"
      /\ mem' = [mem EXCEPT ![Head(cmdq).cell] = Head(wdf)]
  BY <1>1, MigParts, Zenon
<1>4. Head(cmdq) = cmdq[1] /\ Head(wdf) = wdf[1] /\ Len(cmdq) \in Nat \ {0}
  BY <1>2, <1>3, TailElements
<1>5. c = cmdq[1].cell /\ mem'[c] = wdf[1]
  BY <1>2, <1>3, <1>4 DEF Cells
<1>6. c # BeginCell
  BY DEF BeginCell, CellOf
<1>7. CASE Running
  BY <1>3, <1>5, <1>6, <1>7 DEF Running, Handing, Link, FirstCell, FirstWord, CellBefore
<1>8. CASE \E n \in Nat : Left(n, cmdq, wdf, mem, BeginCell)
  <2>1. PICK n \in Nat : Left(n, cmdq, wdf, mem, BeginCell)
    BY <1>8
  <2>2. n > 0
    BY <1>2, <1>3, <1>4, <2>1, LeftServe
  <2> QED BY <1>5, <1>6, <2>1, <2>2 DEF Left, CellBefore
<1>9. ~Starting
  BY <1>3 DEF Starting
<1> QED BY <1>7, <1>8, <1>9 DEF SInv, Before, Ending

(* Each word stored follows the one in the cell before: none is lost,      *)
(* doubled or shifted (sdram_buffer_fifo.vhd 343-374), for every memory,   *)
(* FIFO and start address, wherever the capture stops.                     *)
THEOREM StoredInOrderHolds == FirstCapture /\ Spec => StoredInOrder
<1>1. ASSUME FirstCapture PROVE Spec => StoredInOrder
  <2>1. Init => SInv
    BY InitSInv
  <2>2. SInv /\ [Next]_vars => SInv'
    BY <1>1, StepSInv
  <2>3. SInv /\ [Next]_vars
          => \A c \in 0 .. Size - 1 :
               mem'[c] # mem[c] /\ c # Low(wr_addr_begin_reg) \div Burst
                 => mem'[c] = Succ(mem[(c + Size - 1) % Size])
    BY <1>1, StoresInOrder
  <2> QED BY <2>1, <2>2, <2>3, PTL DEF Spec, StoredInOrder
<1> QED BY <1>1
=============================================================================
