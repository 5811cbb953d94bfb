---------------------------- MODULE MCBoardParts ----------------------------
(***************************************************************************)
(* Parts of the board that share no state, for TLC.  A behaviour is that   *)
(* of one of them, the part it starts with; the variables of the others    *)
(* are Off.  Names that two modules share are prefixed with the part here. *)
(***************************************************************************)
EXTENDS Integers, Sequences

CONSTANTS
  Off,
  Span, MinEdges, MaxEdges,                                   \* TriggerGate
  CLK_RESET_DELAY_CNT, GBL_RESET_DELAY_CNT, CNT_RANGE_HIGH,   \* GlobalResetter
  Configs, MaxSum, AgePeriod,                                 \* ChannelAvg
  Regmap, START_DELAY_CYCLE, EXT_RST_WIDTH_CYCLE, EXT_RST_DELAY_CYCLE, DataClk,   \* I2cWriter
  Frames, MaxFrames,                                          \* RxParser
  Calls, PulseClocks                                          \* PacketSend

(* Values of the constants for TLC.                                        *)
Configurations == {[offset |-> o, avg_n |-> n] : o \in {0, 1, 3, 4, 15}, n \in 0 .. 2}

Entries == <<[addr |-> 116, reg |-> 128, val |-> -1], [addr |-> 104, reg |-> 0, val |-> 21],
             [addr |-> 104, reg |-> 1, val |-> 0], [addr |-> 104, reg |-> 8, val |-> 8]>>

(* Requests for the board, and frames that miss it by one field.           *)
Arp(op, ip, n) == [type |-> "ARP", op |-> op, proto |-> "other", mac |-> FALSE, ip |-> ip,
                   port |-> FALSE, words |-> n]
Ip(type, proto, port, n) == [type |-> type, op |-> "other", proto |-> proto, mac |-> TRUE, ip |-> TRUE,
                             port |-> port, words |-> n]
Kinds == {Arp("REQ", TRUE, 6), Arp("REQ", FALSE, 8), Arp("other", TRUE, 6),
          Ip("IP", "UDP", TRUE, 6), Ip("IP", "UDP", TRUE, 7), Ip("IP", "UDP", FALSE, 6),
          [Ip("IP", "UDP", TRUE, 6) EXCEPT !.mac = FALSE], [Ip("IP", "UDP", TRUE, 7) EXCEPT !.ip = FALSE],
          Ip("IP", "other", TRUE, 8), Ip("other", "UDP", TRUE, 7)}

PC1 == <<256 * 192 + 168, 256 * 3 + 1>>     \* 192.168.3.1, as in tcpio.c
ThreeFrames ==
  <<[kind |-> "udp", dstIP |-> PC1, len |-> 0], [kind |-> "arp", dstIP |-> PC1],
    [kind |-> "udp", dstIP |-> PC1, len |-> 9]>>
-----------------------------------------------------------------------------
VARIABLES
  part,
  EI, prev, prev1, prev2, allow, host, in_set, in_reset, in_reset_prev,
  in_reset_prev2, out_set, out_set_prev, out_set_prev2, outreset,
  wr_start_pulse, wr_writing, wr_wrapped_i, wr_addr_i, edges, starts,
  FORCE_RST, DCM_LOCKED, rstState, rstCtr, CLK_RST, GLOBAL_RST, clkHigh,
  glbWait, loose,
  CONFIG, TRIG, trig_prev, trig_prev1, trig_prev2, j, internal_val, OUTVALID,
  clean, age,
  state, cnt, i, addrval, BUSY, EXT_RSTn, i2cStart, i2cSlAddr, i2cRegAddr,
  i2cRegVal, i2cMode, mstate, i2cBusy, enable, data_wr, sBusyCnt, d1, d2,
  core, busy, writerAddr, data_tx, sAckError, phase, cur, wire,
  frames, TVALID, pos, tvalid_prev, tstart, tlast_i, parser_state, regs,
  cmd_state, parserCmds, whole,
  todo, cmds, mem, addr, din, TX_BYTES, TX_START, pktState, addrCtr,
  bytesLeft, bytesLeft_reg, pktCtr, doutb, TREADY, frame, made, sent

triggerVars == <<EI, prev, prev1, prev2, allow, host, in_set, in_reset,
  in_reset_prev, in_reset_prev2, out_set, out_set_prev, out_set_prev2, outreset,
  wr_start_pulse, wr_writing, wr_wrapped_i, wr_addr_i, edges, starts>>
resetterVars == <<FORCE_RST, DCM_LOCKED, rstState, rstCtr, CLK_RST, GLOBAL_RST,
  clkHigh, glbWait, loose>>
averageVars == <<CONFIG, TRIG, trig_prev, trig_prev1, trig_prev2, j,
  internal_val, OUTVALID, clean, age>>
writerVars == <<state, cnt, i, addrval, BUSY, EXT_RSTn, i2cStart, i2cSlAddr,
  i2cRegAddr, i2cRegVal, i2cMode, mstate, i2cBusy, enable, data_wr, sBusyCnt,
  d1, d2, core, busy, writerAddr, data_tx, sAckError, phase, cur, wire>>
parserVars == <<frames, TVALID, pos, tvalid_prev, tstart, tlast_i, parser_state,
  regs, cmd_state, parserCmds, whole>>
packetVars == <<todo, cmds, mem, addr, din, TX_BYTES, TX_START, pktState,
  addrCtr, bytesLeft, bytesLeft_reg, pktCtr, doutb, TREADY, frame, made, sent>>
vars == <<part, triggerVars, resetterVars, averageVars, writerVars, parserVars,
  packetVars>>

Gate     == INSTANCE TriggerGate
Resetter == INSTANCE GlobalResetter
Average  == INSTANCE ChannelAvg WITH Period <- AgePeriod
Writer   == INSTANCE I2cWriter WITH Period <- DataClk, addr <- writerAddr
Parser   == INSTANCE RxParser_proofs WITH cmds <- parserCmds
Packet   == INSTANCE PacketSend
-----------------------------------------------------------------------------
triggerOff == EI = Off /\ prev = Off /\ prev1 = Off /\ prev2 = Off /\
  allow = Off /\ host = Off /\ in_set = Off /\ in_reset = Off /\
  in_reset_prev = Off /\ in_reset_prev2 = Off /\ out_set = Off /\
  out_set_prev = Off /\ out_set_prev2 = Off /\ outreset = Off /\
  wr_start_pulse = Off /\ wr_writing = Off /\ wr_wrapped_i = Off /\
  wr_addr_i = Off /\ edges = Off /\ starts = Off
resetterOff == FORCE_RST = Off /\ DCM_LOCKED = Off /\ rstState = Off /\
  rstCtr = Off /\ CLK_RST = Off /\ GLOBAL_RST = Off /\ clkHigh = Off /\
  glbWait = Off /\ loose = Off
averageOff == CONFIG = Off /\ TRIG = Off /\ trig_prev = Off /\ trig_prev1 = Off
  /\ trig_prev2 = Off /\ j = Off /\ internal_val = Off /\ OUTVALID = Off /\
  clean = Off /\ age = Off
writerOff == state = Off /\ cnt = Off /\ i = Off /\ addrval = Off /\ BUSY = Off
  /\ EXT_RSTn = Off /\ i2cStart = Off /\ i2cSlAddr = Off /\ i2cRegAddr = Off /\
  i2cRegVal = Off /\ i2cMode = Off /\ mstate = Off /\ i2cBusy = Off /\
  enable = Off /\ data_wr = Off /\ sBusyCnt = Off /\ d1 = Off /\ d2 = Off /\
  core = Off /\ busy = Off /\ writerAddr = Off /\ data_tx = Off /\
  sAckError = Off /\ phase = Off /\ cur = Off /\ wire = Off
parserOff == frames = Off /\ TVALID = Off /\ pos = Off /\ tvalid_prev = Off /\
  tstart = Off /\ tlast_i = Off /\ parser_state = Off /\ regs = Off /\
  cmd_state = Off /\ parserCmds = Off /\ whole = Off
packetOff == todo = Off /\ cmds = Off /\ mem = Off /\ addr = Off /\ din = Off /\
  TX_BYTES = Off /\ TX_START = Off /\ pktState = Off /\ addrCtr = Off /\
  bytesLeft = Off /\ bytesLeft_reg = Off /\ pktCtr = Off /\ doutb = Off /\
  TREADY = Off /\ frame = Off /\ made = Off /\ sent = Off

Init ==
  /\ part \in {"trigger", "resetter", "average", "writer", "parser", "packet"}
  /\ IF part = "trigger" THEN Gate!Init ELSE triggerOff
  /\ IF part = "resetter" THEN Resetter!Init ELSE resetterOff
  /\ IF part = "average" THEN Average!Init ELSE averageOff
  /\ IF part = "writer" THEN Writer!Init ELSE writerOff
  /\ IF part = "parser" THEN Parser!Init ELSE parserOff
  /\ IF part = "packet" THEN Packet!Init ELSE packetOff

triggerNext == /\ part = "trigger" /\ Gate!Next
               /\ UNCHANGED <<part, resetterVars, averageVars, writerVars,
                  parserVars, packetVars>>
resetterNext == /\ part = "resetter" /\ Resetter!Next
                /\ UNCHANGED <<part, triggerVars, averageVars, writerVars,
                   parserVars, packetVars>>
averageNext == /\ part = "average" /\ Average!Next
               /\ UNCHANGED <<part, triggerVars, resetterVars, writerVars,
                  parserVars, packetVars>>
writerNext == /\ part = "writer" /\ Writer!Next
              /\ UNCHANGED <<part, triggerVars, resetterVars, averageVars,
                 parserVars, packetVars>>
parserNext == /\ part = "parser" /\ Parser!Next
              /\ UNCHANGED <<part, triggerVars, resetterVars, averageVars,
                 writerVars, packetVars>>
packetNext == /\ part = "packet" /\ Packet!Next
              /\ UNCHANGED <<part, triggerVars, resetterVars, averageVars,
                 writerVars, parserVars>>
Next == triggerNext \/ resetterNext \/ averageNext \/ writerNext \/ parserNext \/ packetNext

Fairness ==
  /\ WF_triggerVars(part = "trigger" /\ Gate!ControlClock)
  /\ WF_triggerVars(part = "trigger" /\ Gate!MemoryClock)
  /\ WF_resetterVars(part = "resetter" /\ Resetter!rst_sm)
  /\ WF_resetterVars(part = "resetter" /\ Resetter!Release)
  /\ WF_averageVars(part = "average" /\ Average!Clock)
  /\ WF_writerVars(part = "writer" /\ Writer!Clock)
  /\ WF_packetVars(part = "packet" /\ Packet!Call)
  /\ WF_packetVars(part = "packet" /\ Packet!Execute)
  /\ WF_packetVars(part = "packet" /\ Packet!TxClock)
  /\ WF_packetVars(part = "packet" /\ Packet!TxClock /\ TREADY')
Spec == Init /\ [][Next]_vars /\ Fairness
-----------------------------------------------------------------------------
ASSUME ConstantsAssumption ==
  /\ Gate!SpanAssumption /\ Gate!EdgesAssumption /\ Resetter!CountsAssumption
  /\ Average!ConfigsAssumption /\ Average!MaxSumAssumption /\ Average!PeriodAssumption
  /\ Writer!DelayAssumption /\ Writer!RegmapAssumption
  /\ Parser!FramesAssumption /\ Parser!MaxFramesAssumption
  /\ Packet!CallsAssumption /\ Packet!PulseClocksAssumption

(* Each variable in the range that the module of the part gives it.        *)
TypeOK ==
  /\ part = "average" => Average!TypeOK
  /\ part = "packet"  => Packet!TypeOK

(* A capture is never begun again by another trigger, although WR_BUSY is  *)
(* late to close the gate (top.vhd 1219-1221, pulse2pulse.vhd 79-140).     *)
CaptureKept == part = "trigger" => Gate!CaptureKept

(* No trigger of the time before the arming begins a capture after it      *)
(* (fmc112.c 690-704).                                                     *)
NotBeforeArming == part = "trigger" => Gate!NotBeforeArming

(* The first edge of the trigger after the arming begins a capture         *)
(* (edge_sync.vhd 44-58, top.vhd 1211-1221).                               *)
TriggerTaken == (part = "trigger" /\ Gate!Triggered) ~> (part = "trigger" /\ Gate!Begun)

(* A clock generator that keeps its lock brings the design up              *)
(* (global_resetter.vhd 42-84).                                            *)
ComesUp ==
  <>[](part = "resetter" => DCM_LOCKED /\ ~FORCE_RST) => <>[](part = "resetter" => ~GLOBAL_RST)

(* A value is the mean of 2**avg_n samples unless something has disturbed  *)
(* its sum; a trigger cuts the sum; and values keep the phase that trigger *)
(* and offset give (channel_avg.vhd 67-122).                               *)
CleanIsMean == part = "average" => Average!CleanIsMean
TriggerCuts == part = "average" => Average!TriggerCuts
PhaseKept   == part = "average" => Average!PhaseKept

(* Values keep coming, whatever the counter was when CONFIG changed, once  *)
(* triggers, resets and changes are over (channel_avg.vhd 93-122).         *)
ValuesComeOut ==
  <>[][part = "average" => Average!Clock /\ TRIG' = 0]_vars => []<>(part = "average" => OUTVALID)

(* What goes over the bus is the register map, each entry with its own     *)
(* bytes, and a pass is over only when the last is on the chip             *)
(* (i2c_write_regmap.vhd 245-316, i2c_master.vhd 104-324).                 *)
WireIsRegmap == part = "writer" => Writer!WireIsRegmap
ByteInPlace  == part = "writer" => Writer!ByteInPlace
DoneIsWhole  == part = "writer" => Writer!DoneIsWhole

(* A pass ends, whatever the slave acknowledges, once resets are over      *)
(* (i2c_write_regmap.vhd 254-316).                                         *)
PassEnds == <>[][part = "writer" => Writer!Clock]_vars => []<>(part = "writer" => state = "S0")

(* The parser is at the word of the frame that it takes itself to be at;   *)
(* a command is made of one frame, and every request that came whole makes *)
(* one (ten_gig_eth_rx_parser.vhd 127-273).                                *)
InStep              == part = "parser" => Parser!InStep
CommandFromOneFrame == part = "parser" => Parser!CommandFromOneFrame
RequestsAnswered    == part = "parser" => Parser!RequestsAnswered

(* The frame that the MAC takes is the frame the program meant, its        *)
(* header is accepted, and a pulse sends it once (tge.c 41-219,            *)
(* ten_gig_eth_packet_gen_simple.vhd 95-156).                              *)
WireIsFrame       == part = "packet" => Packet!WireIsFrame
ChecksumRight     == part = "packet" => Packet!ChecksumRight
OnePacketPerPulse == part = "packet" => Packet!OnePacketPerPulse

(* Every frame that the program asks for is sent in the end (tge.c         *)
(* 41-219, ten_gig_eth_packet_gen_simple.vhd 114-156).                     *)
FramesComeOut == <>(part = "packet" => Packet!AllSent)

(* The properties that the run checks: one for each of the parts, and one  *)
(* for the progress of all of them.                                        *)

(* One capture for an arming, and none from before it (top.vhd 1218-1221,  *)
(* fmc112.c 690-704).                                                      *)
GateRight == CaptureKept /\ NotBeforeArming

(* The design is released after both delays, and never runs for more than  *)
(* a clock after its clock generator was seen without a lock               *)
(* (global_resetter.vhd 22-26, 42-84).                                     *)
ResetRight ==
  /\ [][part = "resetter" => Resetter!Sequence]_vars
  /\ [](part = "resetter" => Resetter!NeverLoose)

(* Values are means of whole groups of samples in the phase of the trigger *)
(* (channel_avg.vhd 67-122).                                               *)
AveragesRight == CleanIsMean /\ TriggerCuts /\ PhaseKept

(* The chip gets the register map, whole and in order                      *)
(* (i2c_write_regmap.vhd 245-316).                                         *)
MapWritten == WireIsRegmap /\ ByteInPlace /\ DoneIsWhole

(* Requests for the board, and nothing else, become commands, one each     *)
(* (ten_gig_eth_rx_parser.vhd 127-273).                                    *)
CommandsRight == InStep /\ CommandFromOneFrame /\ RequestsAnswered

(* Frames reach the MAC as they were meant, once each (tge.c 41-219,       *)
(* ten_gig_eth_packet_gen_simple.vhd 95-156).                              *)
FramesRight == OnePacketPerPulse /\ WireIsFrame /\ ChecksumRight

(* Each part gets on: the first trigger begins a capture, a locked clock   *)
(* brings the design up, values keep coming, a pass over the register map  *)
(* ends, and every frame is sent (top.vhd 1211-1221, global_resetter.vhd   *)
(* 42-84, channel_avg.vhd 93-122, i2c_write_regmap.vhd 254-316,            *)
(* ten_gig_eth_packet_gen_simple.vhd 114-156).                             *)
PartsGetOn == TriggerTaken /\ ComesUp /\ ValuesComeOut /\ PassEnds /\ FramesComeOut
=============================================================================
