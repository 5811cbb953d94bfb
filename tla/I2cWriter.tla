------------------------------ MODULE I2cWriter ------------------------------
(***************************************************************************)
(* The clock chip is set up over I2C: i2c_write_regmap.vhd walks through   *)
(* its register map and starts i2c_master.vhd for each entry, which raises *)
(* ENA and changes DATA_WR by counting the rising edges of the core's      *)
(* BUSY; i2c_master_core.vhd puts the bytes on the bus, one state for each *)
(* period of data_clk.  The eight bits of a byte are one period here, and  *)
(* all transactions are writes, as i2c_write_regmap wires SL_RW to 0.      *)
(***************************************************************************)
EXTENDS Integers, SequencesExt

CONSTANTS
  Regmap,       \* entries: slave, register, value; a value of -1 is not sent
  START_DELAY_CYCLE, EXT_RST_WIDTH_CYCLE, EXT_RST_DELAY_CYCLE,
  Period        \* clocks in a period of data_clk, 1000 in the board

(* The core takes back BUSY in its first period after a reset: the delays  *)
(* before the first entry last much longer.                                *)
DelayAssumption ==
  /\ {START_DELAY_CYCLE, EXT_RST_WIDTH_CYCLE, EXT_RST_DELAY_CYCLE} \subseteq Nat
  /\ Period \in Nat /\ Period >= 5 /\ START_DELAY_CYCLE > Period + 2
RegmapAssumption == Regmap \in Seq([addr : 0 .. 127, reg : 0 .. 255, val : -1 .. 255])

VARIABLES
  state, cnt, i, addrval, BUSY, EXT_RSTn, i2cStart,   \* i2c_write_regmap
  i2cSlAddr, i2cRegAddr, i2cRegVal, i2cMode,
  mstate, i2cBusy, enable, data_wr, sBusyCnt, d1, d2,   \* i2c_master
  core, busy, addr, data_tx, sAckError, phase,          \* i2c_master_core
  cur, wire             \* history: the transaction under way, those of this pass

writer == <<state, cnt, i, addrval, BUSY, EXT_RSTn, i2cStart, i2cSlAddr, i2cRegAddr, i2cRegVal, i2cMode>>
master == <<mstate, i2cBusy, enable, data_wr, sBusyCnt, d1, d2>>
bus    == <<core, busy, addr, data_tx, sAckError, phase, cur, wire>>
vars   == <<writer, master, bus>>

End == [addr |-> -1, reg |-> -1, val |-> -1]
Entry(n) == IF n < Len(Regmap) THEN Regmap[n + 1] ELSE End

Init ==
  /\ state = "S1" /\ cnt = 2 /\ BUSY = TRUE /\ EXT_RSTn = 1 /\ i2cStart = FALSE
  /\ mstate = "StWaitStart" /\ i2cBusy = FALSE /\ enable = FALSE /\ data_wr = 0 /\ sBusyCnt = 0
  /\ core = "StReady" /\ busy = TRUE /\ sAckError = FALSE /\ phase = 0
  /\ cur = <<>> /\ wire = <<>>
  /\ i = 0 /\ addrval = End /\ d1 = FALSE /\ d2 = FALSE
  /\ i2cSlAddr = 0 /\ i2cRegAddr = 0 /\ i2cRegVal = 0 /\ i2cMode = 0 /\ addr = 0 /\ data_tx = 0
-----------------------------------------------------------------------------
Waits(from, low, limit, to) ==
  /\ state = from /\ cnt' = cnt + 1 /\ state' = IF cnt + 1 > limit THEN to ELSE from
  /\ EXT_RSTn' = low /\ i2cStart' = FALSE
  /\ UNCHANGED <<i2cSlAddr, i2cRegAddr, i2cRegVal, i2cMode>>
ResetEnd == START_DELAY_CYCLE + EXT_RST_WIDTH_CYCLE

S0 == /\ state = "S0" /\ cnt' = 2 /\ \E START \in BOOLEAN :
           BUSY' = START /\ state' = IF START THEN "S1" ELSE "S0"
      /\ EXT_RSTn' = 1 /\ i2cStart' = FALSE
      /\ UNCHANGED <<i, addrval, i2cSlAddr, i2cRegAddr, i2cRegVal, i2cMode>>
S1 == Waits("S1", 1, START_DELAY_CYCLE, "S2") /\ BUSY' = TRUE /\ UNCHANGED <<i, addrval>>
S2 == Waits("S2", 0, ResetEnd, "S3") /\ UNCHANGED <<BUSY, i, addrval>>
S3 == /\ Waits("S3", 1, ResetEnd + EXT_RST_DELAY_CYCLE, "S4") /\ UNCHANGED BUSY
      /\ IF state' = "S4" THEN i' = 0 /\ addrval' = Entry(0) ELSE UNCHANGED <<i, addrval>>

S4Eager ==     \* mutant of S4: i2cBusy is not looked at
  /\ state = "S4" /\ i2cSlAddr' = addrval.addr /\ i2cRegAddr' = addrval.reg /\ i2cRegVal' = addrval.val
  /\ i2cMode' = (IF addrval.val < 0 THEN 0 ELSE 1) /\ i2cStart' = (addrval.addr >= 0)
  /\ state' = (IF addrval.addr < 0 THEN "S0" ELSE "S5")
  /\ EXT_RSTn' = 1 /\ UNCHANGED <<cnt, i, addrval, BUSY>>
S4 == /\ state = "S4" /\ EXT_RSTn' = 1 /\ UNCHANGED <<cnt, i, addrval, BUSY>>
      /\ IF ~i2cBusy
         THEN /\ i2cSlAddr' = addrval.addr /\ i2cRegAddr' = addrval.reg /\ i2cRegVal' = addrval.val
              /\ i2cMode' = (IF addrval.val < 0 THEN 0 ELSE 1) /\ i2cStart' = (addrval.addr >= 0)
              /\ state' = (IF addrval.addr < 0 THEN "S0" ELSE "S5")
         ELSE i2cStart' = FALSE /\ UNCHANGED <<state, i2cSlAddr, i2cRegAddr, i2cRegVal, i2cMode>>
S5 == /\ state = "S5" /\ state' = "S4" /\ i' = i + 1 /\ addrval' = Entry(i + 1)
      /\ EXT_RSTn' = 1 /\ i2cStart' = FALSE
      /\ UNCHANGED <<cnt, BUSY, i2cSlAddr, i2cRegAddr, i2cRegVal, i2cMode>>

write_regmap == S0 \/ S1 \/ S2 \/ S3 \/ S4 \/ S5
-----------------------------------------------------------------------------
busy_counter ==
  /\ d1' = busy /\ d2' = d1
  /\ sBusyCnt' = IF mstate = "StWaitStart" THEN 0 ELSE IF d1 /\ ~d2 THEN (sBusyCnt + 1) % 8 ELSE sBusyCnt

WaitStartBusy ==     \* mutant of WaitStart: BUSY is not taken back
  /\ mstate = "StWaitStart" /\ enable' = FALSE /\ data_wr' = 0 /\ i2cBusy' = (i2cBusy \/ i2cStart)
  /\ mstate' = IF ~i2cStart THEN mstate ELSE IF i2cMode = 0 THEN "StWr1" ELSE "StWr2"
WaitStart ==
  /\ mstate = "StWaitStart" /\ enable' = FALSE /\ data_wr' = 0 /\ i2cBusy' = i2cStart
  /\ mstate' = IF ~i2cStart THEN mstate ELSE IF i2cMode = 0 THEN "StWr1" ELSE "StWr2"

(* In both kinds of write: byte k of n while k edges of BUSY have been     *)
(* seen, and after the last one the core's BUSY is awaited.                *)
WriteEarly(st, bytes) ==    \* mutant of Write: the end of BUSY is not awaited
  /\ mstate = st /\ i2cBusy' = TRUE
  /\ IF sBusyCnt < Len(bytes)
     THEN enable' = TRUE /\ data_wr' = bytes[sBusyCnt + 1] /\ UNCHANGED mstate
     ELSE enable' = FALSE /\ data_wr' = bytes[Len(bytes)] /\ mstate' = "StWaitStart"
Write(st, bytes) ==
  /\ mstate = st /\ i2cBusy' = TRUE
  /\ CASE sBusyCnt < Len(bytes) -> enable' = TRUE /\ data_wr' = bytes[sBusyCnt + 1] /\ UNCHANGED mstate
       [] sBusyCnt = Len(bytes) -> /\ enable' = FALSE /\ data_wr' = bytes[Len(bytes)]
                                   /\ mstate' = IF busy THEN st ELSE "StWaitStart"
       [] sBusyCnt > Len(bytes) -> enable' = FALSE /\ data_wr' = 0 /\ mstate' = "StWaitStart"

state_machine ==
  \/ WaitStart
  \/ Write("StWr1", <<i2cRegAddr>>)
  \/ Write("StWr2", <<i2cRegAddr, i2cRegVal>>)
-----------------------------------------------------------------------------
(* The rising and then the falling edge of data_clk; ack is what the slave *)
(* does with the byte that has just gone out.                              *)
Latch == addr' = i2cSlAddr' /\ data_tx' = data_wr'
Sent(b, ack) == /\ cur' = Append(cur, b) /\ sAckError' = (sAckError \/ ~ack)
                /\ UNCHANGED <<busy, addr, data_tx, wire>>
data_clk ==
  \/ /\ core = "StReady" /\ enable' /\ busy' = TRUE /\ Latch /\ core' = "StStart"
     /\ sAckError' = FALSE /\ UNCHANGED <<cur, wire>>
  \/ /\ core = "StReady" /\ ~enable' /\ busy' = FALSE
     /\ UNCHANGED <<core, addr, data_tx, sAckError, cur, wire>>
  \/ /\ core = "StStart" /\ busy' = TRUE /\ core' = "StCommand"
     /\ UNCHANGED <<addr, data_tx, sAckError, cur, wire>>
  \/ /\ core = "StCommand" /\ core' = "StSlv_ack1" /\ \E ack \in BOOLEAN : Sent(addr, ack)
  \/ /\ core = "StSlv_ack1" /\ core' = "StWr"
     /\ UNCHANGED <<busy, addr, data_tx, sAckError, cur, wire>>
  \/ /\ core = "StWr" /\ busy' = TRUE /\ core' = "StWrEnd"       \* bit_cnt above 0
     /\ UNCHANGED <<addr, data_tx, sAckError, cur, wire>>
  \/ /\ core = "StWrEnd" /\ core' = "StSlv_ack2" /\ \E ack \in BOOLEAN : Sent(data_tx, ack)
  \/ /\ core = "StSlv_ack2" /\ enable' /\ busy' = FALSE /\ Latch /\ core' = "StWr"
     /\ UNCHANGED <<sAckError, cur, wire>>
  \/ /\ core = "StSlv_ack2" /\ ~enable' /\ core' = "StStop"
     /\ UNCHANGED <<busy, addr, data_tx, sAckError, cur, wire>>
  \/ /\ core = "StStop" /\ busy' = FALSE /\ core' = "StReady"
     /\ wire' = Append(wire, cur) /\ cur' = <<>> /\ UNCHANGED <<addr, data_tx, sAckError>>

Starting == state = "S0" /\ state' = "S1"
Clock ==
  /\ write_regmap /\ busy_counter /\ state_machine
  /\ phase' = (phase + 1) % Period
  /\ IF Starting
     THEN /\ wire' = <<>>      \* the history of a new pass
          /\ UNCHANGED <<core, addr, data_tx, sAckError, cur, busy>>
     ELSE IF phase = Period - 1 THEN data_clk
     ELSE UNCHANGED <<core, busy, addr, data_tx, sAckError, cur, wire>>

Reset ==
  /\ state' = "S1" /\ cnt' = 2 /\ BUSY' = TRUE /\ EXT_RSTn' = 1 /\ i2cStart' = FALSE
  /\ mstate' = "StWaitStart" /\ i2cBusy' = FALSE /\ enable' = FALSE /\ data_wr' = 0 /\ sBusyCnt' = 0
  /\ core' = "StReady" /\ busy' = TRUE /\ sAckError' = FALSE /\ phase' = 0
  /\ cur' = <<>> /\ wire' = <<>>
  /\ UNCHANGED <<i, addrval, d1, d2, i2cSlAddr, i2cRegAddr, i2cRegVal, i2cMode, addr, data_tx>>

Next == Clock \/ Reset
Spec == Init /\ [][Next]_vars /\ WF_vars(Clock)
-----------------------------------------------------------------------------
BytesOf(e) == IF e.val < 0 THEN <<e.addr, e.reg>> ELSE <<e.addr, e.reg, e.val>>

(* What goes over the bus is the register map, entry by entry, none left   *)
(* out or sent twice, and each with its own bytes only.                    *)
WireIsRegmap == IsPrefix(wire, [n \in DOMAIN Regmap |-> BytesOf(Regmap[n])])

(* The byte under way is one of the entry that was started last.           *)
ByteInPlace == cur # <<>> => IsPrefix(cur, BytesOf(Regmap[Len(wire) + 1]))

(* BUSY may fall, in S0, only when the last entry is on the chip.          *)
DoneIsWhole == (~BUSY \/ state = "S0") => (Len(wire) = Len(Regmap) /\ core = "StReady")
=============================================================================
