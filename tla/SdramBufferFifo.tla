-------------------------- MODULE SdramBufferFifo --------------------------
(***************************************************************************)
(* sdram_buffer_fifo.vhd: digitised words stream from an input FIFO into   *)
(* the SDRAM, used as a ring, until a stop trigger, and are then read back *)
(* into an output FIFO.  The Xilinx memory controller (MIG) between this   *)
(* module and the SDRAM is outside the repository; it is modelled from the *)
(* ports the module drives: it takes data and commands when it is ready,   *)
(* executes the commands in order, pairs each write command with the next  *)
(* word it took, and answers a read some clocks later.                     *)
(*                                                                         *)
(* Clock is one rising edge of CLK: three processes, the FIFOs and the MIG *)
(* all step from the values before the edge.  The three _pulse signals are *)
(* one clock wide (module PulseToPulse).  A 512-bit word is a number that  *)
(* counts, modulo Words, the words that entered the input FIFO; how the    *)
(* FIFOs cut words into pieces is left out, and the two glued output FIFOs *)
(* are one.                                                                *)
(***************************************************************************)
EXTENDS Integers, Sequences, FiniteSets

CONSTANTS
  Size,       \* bursts in the memory: 2^27 / APP_ADDR_BURST in the code
  Burst,      \* APP_ADDR_BURST
  Words,      \* words are numbered modulo this
  InDepth, OutDepth,     \* capacities of the FIFOs, in words
  DataDepth, CmdqDepth,  \* words and commands that the MIG holds
  Begins, Wraps,  \* WR_ADDR_BEGIN, WR_WRAP_AROUND
  Posts,      \* POST_TRIGGER; empty: no stop trigger
  RdEnds,     \* RD_ADDR_END, empty: no reads; RD_ADDR_BEGIN is 0 (top.vhd 1042)
  Calm,       \* TRUE: starts and resets come only while nothing is going on
  Stall,      \* TRUE: the MIG may refuse data although it has room
  MaxStarts   \* bound: WR_START pulses between resets of the MIG

Span == Size * Burst            \* 2^27: the addresses of the memory
Addr == 0 .. 2 * Span - 1       \* one more bit than the memory needs
Low(a) == a % Span
PlusWide(a, n) == a + n         \* mutant of Plus: one bit too wide
Plus(a, n) == (a + n) % (2 * Span)

ASSUME SizeAssumption ==
  /\ Size \in Nat \ {0} /\ Burst \in Nat \ {0} /\ Words \in Nat \ {0}
  /\ InDepth \in Nat \ {0} /\ OutDepth \in Nat \ {0}
  /\ DataDepth \in Nat \ {0} /\ CmdqDepth \in Nat \ {0}
ASSUME AddrAssumption ==
  Begins \subseteq Addr /\ Begins # {} /\ Posts \subseteq Addr /\ RdEnds \subseteq Addr
ASSUME FlagsAssumption ==
  Wraps \subseteq BOOLEAN /\ Wraps # {} /\ Calm \in BOOLEAN /\ Stall \in BOOLEAN /\ MaxStarts \in Nat

VARIABLES
  wr_start_pulse, wr_stop_pulse, rd_start_pulse,
  (* status process *)
  wr_addr_begin_reg, wr_wrap_around_reg, wr_writing, wr_stopping, wr_wrapped_i,
  trigger_pointer_reg, post_trigger_reg, rd_addr_end_reg, rd_reading,
  (* write process; wr_wdf_end always equals wr_wdf_wren *)
  write_state, wr_addr_i, indata_fifo_rden, wr_wdf_wren, wr_app_en,
  (* read process *)
  read_state, rd_addr_i, rd_app_en,
  CTRL_RESET,
  indata, outdata,          \* FIFO contents
  nextWord,                 \* number of the next word to enter the input FIFO
  wdf, cmdq, mem,           \* MIG: words taken, commands taken, the SDRAM
  APP_RD_DATA_VALID, APP_RD_DATA,
  got,                      \* history: words this read has put in the output FIFO
  starts                    \* history: WR_START pulses so far

pulses   == <<wr_start_pulse, wr_stop_pulse, rd_start_pulse>>
status   == <<wr_addr_begin_reg, wr_wrap_around_reg, wr_writing, wr_stopping, wr_wrapped_i,
              trigger_pointer_reg, post_trigger_reg, rd_addr_end_reg, rd_reading>>
writer   == <<write_state, wr_addr_i, indata_fifo_rden, wr_wdf_wren, wr_app_en>>
reader   == <<read_state, rd_addr_i, rd_app_en>>
buffers  == <<indata, outdata, nextWord>>
response == <<APP_RD_DATA_VALID, APP_RD_DATA>>
mig      == <<wdf, cmdq, mem, response>>
vars == <<pulses, status, writer, reader, CTRL_RESET, buffers, mig, got, starts>>

Word == 0 .. Words - 1
Succ(w) == (w + 1) % Words

(* What CTRL_RESET and RESET do to the three processes; trigger_pointer_reg *)
(* and the strobes of the write process keep their values.                 *)
ControlReset ==
  /\ wr_addr_begin_reg' = 0 /\ wr_wrap_around_reg' = FALSE /\ post_trigger_reg' = 0
  /\ wr_wrapped_i' = FALSE /\ wr_stopping' = FALSE /\ wr_writing' = FALSE
  /\ rd_addr_end_reg' = Span /\ rd_reading' = FALSE
  /\ wr_addr_i' = 0 /\ write_state' = "W0"
  /\ rd_addr_i' = 0 /\ rd_app_en' = FALSE /\ read_state' = "R0"
  /\ UNCHANGED trigger_pointer_reg

Init ==
  /\ wr_start_pulse = FALSE /\ wr_stop_pulse = FALSE /\ rd_start_pulse = FALSE
  /\ wr_addr_begin_reg = 0 /\ wr_wrap_around_reg = FALSE /\ post_trigger_reg = 0
  /\ wr_wrapped_i = FALSE /\ wr_stopping = FALSE /\ wr_writing = FALSE
  /\ trigger_pointer_reg = 0
  /\ rd_addr_end_reg = Span /\ rd_reading = FALSE
  /\ write_state = "W0" /\ wr_addr_i = 0
  /\ indata_fifo_rden = FALSE /\ wr_wdf_wren = FALSE /\ wr_app_en = FALSE
  /\ read_state = "R0" /\ rd_addr_i = 0 /\ rd_app_en = FALSE
  /\ CTRL_RESET = FALSE
  /\ indata = <<>> /\ outdata = <<>> /\ nextWord = 0
  /\ wdf = <<>> /\ cmdq = <<>> /\ mem = [a \in 0 .. Size - 1 |-> 0]
  /\ APP_RD_DATA_VALID = FALSE /\ APP_RD_DATA = 0
  /\ got = 0 /\ starts = 0
-----------------------------------------------------------------------------
(* Process "register addresses and status".  Later assignments of the      *)
(* process override earlier ones.                                          *)
Collided == wr_addr_i >= Span + Low(wr_addr_begin_reg)
StopHitLate == wr_stopping /\ Plus(trigger_pointer_reg, post_trigger_reg + Burst) = wr_addr_i
StopHitWide == wr_stopping /\ trigger_pointer_reg + post_trigger_reg = wr_addr_i
StopHit  == wr_stopping /\ Plus(trigger_pointer_reg, post_trigger_reg) = wr_addr_i
ReadDoneLate == rd_addr_i > rd_addr_end_reg
ReadDone == rd_addr_i >= rd_addr_end_reg

ReadNotAborted == ~ReadDone      \* mutant of ReadGoesOn: a capture aborts no read
ReadGoesOn == ~wr_start_pulse /\ ~ReadDone

StatusProcess ==
  LET collision == ~wr_start_pulse /\ Collided
      autoStop  == collision /\ ~wr_wrap_around_reg
      stop      == wr_stop_pulse /\ wr_writing IN
  /\ IF wr_start_pulse
     THEN wr_addr_begin_reg' \in Begins /\ wr_wrap_around_reg' \in Wraps
     ELSE UNCHANGED <<wr_addr_begin_reg, wr_wrap_around_reg>>
  /\ wr_writing' = (/\ ~rd_start_pulse /\ ~StopHit
                    /\ wr_start_pulse \/ (wr_writing /\ ~autoStop))
  /\ wr_stopping' = (/\ ~rd_start_pulse /\ ~StopHit
                     /\ stop \/ (wr_stopping /\ ~wr_start_pulse /\ ~autoStop))
  /\ wr_wrapped_i' = (collision \/ (wr_wrapped_i /\ ~wr_start_pulse))
  /\ IF wr_stop_pulse THEN post_trigger_reg' \in Posts ELSE UNCHANGED post_trigger_reg
  /\ trigger_pointer_reg' = IF stop THEN wr_addr_i ELSE trigger_pointer_reg
  /\ IF rd_start_pulse THEN rd_addr_end_reg' \in RdEnds ELSE UNCHANGED rd_addr_end_reg
  /\ rd_reading' = (rd_start_pulse \/ (rd_reading /\ ReadGoesOn))

(* The write process in each of its states.                                *)
WriterStrobe(rden, wren, en) ==
  indata_fifo_rden' = rden /\ wr_wdf_wren' = wren /\ wr_app_en' = en

WriterGoes(state, addr) ==
  IF wr_start_pulse
  THEN write_state' = "W0" /\ wr_addr_i' = wr_addr_begin_reg'
  ELSE write_state' = state /\ wr_addr_i' = addr

WritePresent ==
  /\ write_state = "W0"
  /\ IF indata # <<>> /\ wr_writing
     THEN WriterStrobe(TRUE, TRUE, FALSE) /\ WriterGoes("W1", wr_addr_i)
     ELSE WriterStrobe(FALSE, FALSE, FALSE) /\ WriterGoes("W0", wr_addr_i)

(* Mutant of WriteData: the read strobe of the input FIFO stays. *)
WriteDataTwice(wdfRdy) ==
  /\ write_state = "W1"
  /\ WriterStrobe(TRUE, ~wdfRdy, wdfRdy) /\ WriterGoes(IF wdfRdy THEN "W2" ELSE "W1", wr_addr_i)

WriteData(wdfRdy) ==
  /\ write_state = "W1"
  /\ IF wdfRdy
     THEN WriterStrobe(FALSE, FALSE, TRUE) /\ WriterGoes("W2", wr_addr_i)
     ELSE WriterStrobe(FALSE, TRUE, FALSE) /\ WriterGoes("W1", wr_addr_i)

(* Mutant of WriteCommand: the command stays after it is accepted. *)
WriteCommandHeld(rdy) ==
  /\ write_state = "W2"
  /\ WriterStrobe(FALSE, FALSE, TRUE)
  /\ WriterGoes(IF rdy THEN "W0" ELSE "W2", IF rdy THEN Plus(wr_addr_i, Burst) ELSE wr_addr_i)

WriteCommand(rdy) ==
  /\ write_state = "W2"
  /\ WriterStrobe(FALSE, FALSE, ~rdy)
  /\ WriterGoes(IF rdy \/ ~wr_writing THEN "W0" ELSE "W2",
                IF rdy THEN Plus(wr_addr_i, Burst) ELSE wr_addr_i)

(* The read process; a read that is off, and a start, take precedence.     *)
OutFull == Len(outdata) = OutDepth

(* Mutants of ReadNext: no look at the output FIFO; a command not held     *)
(* until it is accepted.                                                   *)
ReadNextBlind(rdy) ==
  CASE read_state = "R1" /\ rdy                -> [en |-> TRUE, state |-> "R2", inc |-> 0]
    [] read_state = "R2"                       -> [en |-> ~rdy, state |-> IF rdy THEN "R3" ELSE "R2", inc |-> 0]
    [] read_state = "R3" /\ APP_RD_DATA_VALID  -> [en |-> FALSE, state |-> "R1", inc |-> Burst]
    [] OTHER                                   -> [en |-> FALSE, state |-> read_state, inc |-> 0]
ReadNextNoHold(rdy) == ReadNextBlind(rdy \/ read_state = "R2")

ReadNext(rdy) ==
  CASE read_state = "R1" /\ rdy /\ ~OutFull    -> [en |-> TRUE, state |-> "R2", inc |-> 0]
    [] read_state = "R2" /\ rdy                -> [en |-> FALSE, state |-> "R3", inc |-> 0]
    [] read_state = "R2" /\ ~rdy               -> [en |-> TRUE, state |-> "R2", inc |-> 0]
    [] read_state = "R3" /\ APP_RD_DATA_VALID  -> [en |-> FALSE, state |-> "R1", inc |-> Burst]
    [] OTHER                                   -> [en |-> FALSE, state |-> read_state, inc |-> 0]

ReadProcess(rdy) ==
  LET n == ReadNext(rdy) IN
  /\ rd_app_en' = (rd_reading /\ n.en)
  /\ read_state' = CASE rd_start_pulse -> "R1"
                     [] ~rd_start_pulse /\ rd_reading -> n.state
                     [] OTHER -> "R0"
  /\ rd_addr_i' = IF rd_start_pulse \/ ~rd_reading THEN 0 ELSE Plus(rd_addr_i, n.inc)
-----------------------------------------------------------------------------
(* The output FIFO at an edge: it ignores a write while full.              *)
outdata_fifo_wren == APP_RD_DATA_VALID /\ rd_reading

OutputFifo ==
  /\ outdata' = IF outdata_fifo_wren /\ ~OutFull THEN Append(outdata, APP_RD_DATA) ELSE outdata
  /\ got' = CASE rd_start_pulse -> 0
              [] ~rd_start_pulse /\ outdata_fifo_wren -> got + 1
              [] OTHER -> got

(* The input FIFO at an edge: it ignores a read while empty, and goes on   *)
(* showing its last word.                                                  *)
InputFifo == indata' = IF indata_fifo_rden /\ indata # <<>> THEN Tail(indata) ELSE indata

indata_fifo_dout == IF indata # <<>> THEN Head(indata) ELSE (nextWord + Words - 1) % Words

(* The MIG's port as this module drives it. *)
APP_ADDR == IF wr_writing THEN Low(wr_addr_i) ELSE Low(rd_addr_i)
APP_CMD  == IF wr_writing THEN "WRITE" ELSE "READ"
APP_EN   == wr_app_en \/ rd_app_en

(* The MIG: it takes a command if rdy, a word if wdfRdy, and executes the  *)
(* oldest command if serve.                                                *)
Serveable == cmdq # <<>> /\ (Head(cmdq).kind = "WRITE" => wdf # <<>>)

Mig(rdy, wdfRdy, serve) ==
  LET words == IF wr_wdf_wren /\ wdfRdy THEN Append(wdf, indata_fifo_dout) ELSE wdf
      cmds  == IF APP_EN /\ rdy
               THEN Append(cmdq, [kind |-> APP_CMD, cell |-> APP_ADDR \div Burst]) ELSE cmdq
      write == serve /\ Head(cmdq).kind = "WRITE"
      read  == serve /\ Head(cmdq).kind = "READ" IN
  /\ rdy => Len(cmdq) < CmdqDepth
  /\ IF Stall THEN wdfRdy => Len(wdf) < DataDepth ELSE wdfRdy = (Len(wdf) < DataDepth)
  /\ serve => Serveable
  /\ cmdq' = IF serve THEN Tail(cmds) ELSE cmds
  /\ wdf' = IF write THEN Tail(words) ELSE words
  /\ mem' = IF write THEN [mem EXCEPT ![Head(cmdq).cell] = Head(wdf)] ELSE mem
  /\ APP_RD_DATA_VALID' = read
  /\ APP_RD_DATA' = IF read THEN mem[Head(cmdq).cell] ELSE 0
-----------------------------------------------------------------------------
(* The users of the module: the PC, through PULSE_REG and CONFIG_REG, and  *)
(* the trigger, which starts a capture only while WR_BUSY and WR_WRAPPED   *)
(* are low (top.vhd 1219-1221).  The PC waits milliseconds between its     *)
(* steps (fmc112.c 690-704, 749-750), so that everything has settled.      *)
Quiet ==
  /\ ~wr_writing /\ ~rd_reading
  /\ ~wr_start_pulse /\ ~wr_stop_pulse /\ ~rd_start_pulse
  /\ write_state = "W0" /\ ~wr_wdf_wren /\ ~wr_app_en /\ ~rd_app_en
  /\ cmdq = <<>> /\ ~APP_RD_DATA_VALID

Pulses ==
  /\ wr_start_pulse' \in BOOLEAN /\ wr_stop_pulse' \in BOOLEAN /\ rd_start_pulse' \in BOOLEAN
  /\ wr_start_pulse' => ~wr_start_pulse /\ starts < MaxStarts
  /\ wr_stop_pulse' => ~wr_stop_pulse /\ Posts # {}
  /\ rd_start_pulse' => ~rd_start_pulse /\ RdEnds # {}
  /\ Calm /\ (wr_start_pulse' \/ rd_start_pulse') => Quiet /\ ~CTRL_RESET
  /\ Calm /\ wr_start_pulse' => ~wr_wrapped_i /\ ~rd_start_pulse'
  /\ starts' = IF wr_start_pulse' THEN starts + 1 ELSE starts

Clock(rdy, wdfRdy, serve) ==
  /\ ~CTRL_RESET
  /\ StatusProcess
  /\ WritePresent \/ WriteData(wdfRdy) \/ WriteCommand(rdy)
  /\ ReadProcess(rdy)
  /\ InputFifo /\ OutputFifo /\ Mig(rdy, wdfRdy, serve)
  /\ Pulses
  /\ UNCHANGED <<CTRL_RESET, nextWord>>

(* While CTRL_RESET is high the processes stand still, and the strobes of  *)
(* the write process with them.                                            *)
ClockInReset(rdy, wdfRdy, serve) ==
  /\ CTRL_RESET
  /\ InputFifo /\ OutputFifo /\ Mig(rdy, wdfRdy, serve)
  /\ Pulses
  /\ UNCHANGED <<status, writer, reader, CTRL_RESET, nextWord>>

AssertReset ==
  /\ ~CTRL_RESET /\ (Calm => Quiet)
  /\ CTRL_RESET' = TRUE
  /\ ControlReset
  /\ UNCHANGED <<pulses, indata_fifo_rden, wr_wdf_wren, wr_app_en, buffers, mig, got, starts>>

ReleaseReset ==
  /\ CTRL_RESET /\ CTRL_RESET' = FALSE
  /\ UNCHANGED <<pulses, status, writer, reader, buffers, mig, got, starts>>

(* DATA_FIFO_RESET *)
FifoReset ==
  /\ Calm => Quiet
  /\ indata' = <<>> /\ outdata' = <<>>
  /\ UNCHANGED <<pulses, status, writer, reader, CTRL_RESET, nextWord, mig, got, starts>>

(* RESET, which resets the MIG too.  The strobes fall at the first edges   *)
(* after it, long before the MIG is calibrated and takes anything.         *)
Reset ==
  /\ ControlReset
  /\ CTRL_RESET' = FALSE
  /\ indata_fifo_rden' = FALSE /\ wr_wdf_wren' = FALSE /\ wr_app_en' = FALSE
  /\ wr_start_pulse' = FALSE /\ wr_stop_pulse' = FALSE /\ rd_start_pulse' = FALSE
  /\ indata' = <<>> /\ outdata' = <<>> /\ wdf' = <<>> /\ cmdq' = <<>>
  /\ APP_RD_DATA_VALID' = FALSE /\ APP_RD_DATA' = 0
  /\ got' = 0 /\ starts' = 0
  /\ UNCHANGED <<nextWord, mem>>

(* The far ends of the FIFOs: the ADC stream, and the reader of the data.  *)
Arrive ==
  /\ Len(indata) < InDepth
  /\ indata' = Append(indata, nextWord)
  /\ nextWord' = Succ(nextWord)
  /\ UNCHANGED <<pulses, status, writer, reader, CTRL_RESET, outdata, mig, got, starts>>

OutRead ==
  /\ outdata # <<>>
  /\ outdata' = Tail(outdata)
  /\ UNCHANGED <<pulses, status, writer, reader, CTRL_RESET, indata, nextWord, mig, got, starts>>

Next ==
  \/ \E rdy, wdfRdy, serve \in BOOLEAN :
       Clock(rdy, wdfRdy, serve) \/ ClockInReset(rdy, wdfRdy, serve)
  \/ AssertReset \/ ReleaseReset \/ FifoReset \/ Reset
  \/ Arrive \/ OutRead

(* The clock runs, the MIG is ready again and again and serves what it has *)
(* taken, words keep arriving, and the reader of the output FIFO reads.    *)
Fairness ==
  /\ WF_vars(\E w, s \in BOOLEAN : Clock(TRUE, w, s))
  /\ WF_vars(\E r, s \in BOOLEAN : Clock(r, TRUE, s))
  /\ WF_vars(\E r, w \in BOOLEAN : Clock(r, w, TRUE))
  /\ WF_vars(ReleaseReset)
  /\ WF_vars(Arrive) /\ WF_vars(OutRead)

Spec == Init /\ [][Next]_vars /\ Fairness
-----------------------------------------------------------------------------
TypeOK ==
  /\ wr_start_pulse \in BOOLEAN /\ wr_stop_pulse \in BOOLEAN /\ rd_start_pulse \in BOOLEAN
  /\ wr_addr_begin_reg \in Addr /\ wr_wrap_around_reg \in BOOLEAN
  /\ wr_writing \in BOOLEAN /\ wr_stopping \in BOOLEAN /\ wr_wrapped_i \in BOOLEAN
  /\ trigger_pointer_reg \in Addr /\ post_trigger_reg \in Addr
  /\ rd_addr_end_reg \in Addr /\ rd_reading \in BOOLEAN
  /\ write_state \in {"W0", "W1", "W2"} /\ wr_addr_i \in Addr
  /\ indata_fifo_rden \in BOOLEAN /\ wr_wdf_wren \in BOOLEAN /\ wr_app_en \in BOOLEAN
  /\ read_state \in {"R0", "R1", "R2", "R3"} /\ rd_addr_i \in Addr /\ rd_app_en \in BOOLEAN
  /\ CTRL_RESET \in BOOLEAN
  /\ indata \in Seq(Word) /\ Len(indata) <= InDepth
  /\ outdata \in Seq(Word) /\ Len(outdata) <= OutDepth
  /\ nextWord \in Word
  /\ wdf \in Seq(Word) /\ Len(wdf) <= DataDepth
  /\ cmdq \in Seq([kind : {"READ", "WRITE"}, cell : 0 .. Size - 1]) /\ Len(cmdq) <= CmdqDepth
  /\ mem \in [0 .. Size - 1 -> Word]
  /\ APP_RD_DATA_VALID \in BOOLEAN /\ APP_RD_DATA \in Word
  /\ got \in Nat /\ starts \in 0 .. MaxStarts

(* "Currently read and write are not allowed to happen simultaneously"     *)
(* (line 15), whatever pulses come and however they coincide.              *)
OneAtATime == ~(wr_writing /\ rd_reading)

(* Every word that a capture stores follows the word in the cell before:   *)
(* no word of the stream is lost, doubled or shifted on its way from the   *)
(* input FIFO to the SDRAM (lines 343-374).                                *)
StoredInOrder ==
  [][\A c \in 0 .. Size - 1 :
       mem'[c] # mem[c] /\ c # Low(wr_addr_begin_reg) \div Burst
         => mem'[c] = Succ(mem[(c + Size - 1) % Size])]_vars

(* The write commands among those that the MIG holds. *)
WritesIn(q) == Cardinality({i \in 1 .. Len(q) : q[i].kind = "WRITE"})

(* A write command never waits in the MIG for a word that this module has  *)
(* not handed over: it would take the next word, and every later word      *)
(* would end one cell away from its place (lines 351-361).                 *)
DataBeforeCommand == WritesIn(cmdq) <= Len(wdf)

(* A word taken by the MIG always has its write command, or will have it   *)
(* once the write process leaves W2, which holds "until cmd is accepted"   *)
(* (line 361).                                                             *)
CommandAfterData == Len(wdf) <= WritesIn(cmdq) + (IF write_state = "W2" THEN 1 ELSE 0)

(* After the stop trigger a capture goes on for no more than POST_TRIGGER  *)
(* addresses (lines 29-31, 303-317).                                       *)
PostTriggerBound ==
  wr_stopping => (wr_addr_i + 2 * Span - trigger_pointer_reg) % (2 * Span) <= post_trigger_reg

(* A word that comes back from the SDRAM while a read is on answers the    *)
(* command of this read and the output FIFO has room for it (lines         *)
(* 410-415, 432-433).                                                      *)
AnswerInTime ==
  outdata_fifo_wren => /\ read_state = "R3" /\ ~OutFull
                       /\ APP_RD_DATA = mem[Low(rd_addr_i) \div Burst]

(* A read that has come to RD_ADDR_END has delivered every word below it,  *)
(* once each.                                                              *)
ReadComplete == rd_reading /\ ReadDone => got * Burst = rd_addr_end_reg

(* A read delivers what is in the memory, each word once, in order.        *)
ReadRight == AnswerInTime /\ ReadComplete

(* A stopped capture comes to its end, unless stop triggers keep coming    *)
(* and each moves its end away; and a read comes to its own.               *)
CaptureEnds == <>[]~wr_stop_pulse => (wr_stopping ~> ~wr_writing)
ReadEnds == rd_reading ~> ~rd_reading
=============================================================================
