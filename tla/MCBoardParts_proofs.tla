------------------------- MODULE MCBoardParts_proofs -------------------------
(***************************************************************************)
(* The safety properties of MCBoardParts for every value of its constants. *)
(* A part is kept for ever and its steps are those of its module.  The     *)
(* parser has proofs of its own, RxParser_proofs; those of the reset       *)
(* sequence, the gate, the averaging, the register map writer and the      *)
(* frames from a PC to the MAC are here, one section for each.             *)
(***************************************************************************)
EXTENDS MCBoardParts, FiniteSetTheorems, SequenceTheorems, WellFoundedInduction, TLAPS

(* The part of a behaviour and its steps.                                  *)
LEMMA Steps ==
  ASSUME [Next]_vars
  PROVE  /\ part' = part
         /\ part = "trigger"  => [Gate!Next]_(Gate!vars)
         /\ part = "resetter" => [Resetter!Next]_(Resetter!vars)
         /\ part = "average"  => [Average!Next]_(Average!vars)
         /\ part = "writer"   => [Writer!Next]_(Writer!vars)
         /\ part = "parser"   => [Parser!Next]_(Parser!vars)
         /\ part = "packet"   => [Packet!Next]_(Packet!vars)
<1>1. CASE UNCHANGED vars
  BY <1>1 DEF vars, triggerVars, resetterVars, averageVars, writerVars, parserVars, packetVars,
              Gate!vars, Gate!sync, Gate!carrier, Gate!status, Resetter!vars, Average!vars, Average!trig,
              Writer!vars, Writer!writer, Writer!master, Writer!bus, Parser!vars, Parser!mac, Parser!parser,
              Packet!vars, Packet!board, Packet!gen, Packet!mac
<1>2. CASE Next
  BY <1>2 DEF Next, triggerNext, resetterNext, averageNext, writerNext, parserNext, packetNext
<1> QED BY <1>1, <1>2
-----------------------------------------------------------------------------
(* The reset sequence.                                                     *)
ResetterTypes ==
  /\ rstState \in {"R0", "R1", "R2", "R3", "R4"} /\ rstCtr \in 0 .. CNT_RANGE_HIGH
  /\ clkHigh \in Nat /\ glbWait \in Nat /\ loose \in Nat

(* What has been waited so far, by the place of the sequence: the counter  *)
(* tells it until it has come round to 0.                                  *)
ClockReset ==
  /\ rstState = "R1" /\ rstCtr # 0 => clkHigh > rstCtr - CLK_RESET_DELAY_CNT
  /\ rstState = "R1" /\ rstCtr = 0 => clkHigh >= CNT_RANGE_HIGH - CLK_RESET_DELAY_CNT
  /\ rstState \in {"R2", "R3", "R4"} => clkHigh >= CNT_RANGE_HIGH - CLK_RESET_DELAY_CNT
Settling ==
  /\ rstState = "R3" /\ rstCtr # 0 => glbWait >= rstCtr - GBL_RESET_DELAY_CNT
  /\ rstState = "R3" /\ rstCtr = 0 => glbWait >= CNT_RANGE_HIGH - GBL_RESET_DELAY_CNT
  /\ rstState = "R4" => glbWait >= CNT_RANGE_HIGH - GBL_RESET_DELAY_CNT
Tight == loose <= 1 /\ (rstState = "R4" => loose = 0)

ResetterInv == ResetterTypes /\ ClockReset /\ Settling /\ Tight

(* The assumption on the delays, as the provers use it. *)
LEMMA Delays ==
  ASSUME Resetter!CountsAssumption
  PROVE  /\ CNT_RANGE_HIGH \in Nat /\ CLK_RESET_DELAY_CNT \in Nat /\ GBL_RESET_DELAY_CNT \in Nat
         /\ CLK_RESET_DELAY_CNT >= 1 /\ CLK_RESET_DELAY_CNT <= CNT_RANGE_HIGH
         /\ GBL_RESET_DELAY_CNT >= 1 /\ GBL_RESET_DELAY_CNT <= CNT_RANGE_HIGH
<1>1. CLK_RESET_DELAY_CNT \in 1 .. CNT_RANGE_HIGH /\ GBL_RESET_DELAY_CNT \in 1 .. CNT_RANGE_HIGH
  BY Zenon DEF Resetter!CountsAssumption
<1>2. CNT_RANGE_HIGH \in Nat
  BY Zenon DEF Resetter!CountsAssumption
<1> QED BY <1>1, <1>2, SMT

LEMMA InitResetter == ASSUME Resetter!CountsAssumption PROVE Resetter!Init => ResetterInv
<1> SUFFICES ASSUME Resetter!Init PROVE ResetterInv
  OBVIOUS
<1>1. rstState = "R0" /\ rstCtr = 0 /\ clkHigh = 0 /\ glbWait = 0 /\ loose = 0
  BY Zenon DEF Resetter!Init
<1> QED BY <1>1, Delays, SMT DEF ResetterInv, ResetterTypes, ClockReset, Settling, Tight

(* A step of the counter, which comes round to 0 after CNT_RANGE_HIGH. *)
LEMMA ResetCountsOn ==
  ASSUME CNT_RANGE_HIGH \in Nat, rstCtr \in 0 .. CNT_RANGE_HIGH, Resetter!Count
  PROVE  \/ rstCtr < CNT_RANGE_HIGH /\ rstCtr' = rstCtr + 1
         \/ rstCtr = CNT_RANGE_HIGH /\ rstCtr' = 0
<1>1. CASE rstCtr < CNT_RANGE_HIGH
  BY <1>1, SMT DEF Resetter!Count
<1>2. CASE rstCtr = CNT_RANGE_HIGH
  BY <1>2, SMT DEF Resetter!Count
<1> QED BY <1>1, <1>2, SMT

(* What a clock adds to the clocks without a lock: nothing, unless it is   *)
(* the one that leaves R4.                                                 *)
LEMMA LooseOnlyInR4 ==
  ASSUME Resetter!rst_sm
  PROVE  loose' = 0 \/ (rstState = "R4" /\ rstState' = "R0" /\ loose' = loose + 1)
<1>1. loose' = (IF ~DCM_LOCKED /\ ~GLOBAL_RST' THEN loose + 1 ELSE 0) /\ GLOBAL_RST' = (rstState # "R4")
  BY Zenon DEF Resetter!rst_sm
<1>2. CASE ~DCM_LOCKED /\ ~GLOBAL_RST'
  <2>1. rstState = "R4" /\ loose' = loose + 1
    BY <1>1, <1>2, Zenon
  <2>2. Resetter!R4
    BY <2>1 DEF Resetter!rst_sm, Resetter!R0, Resetter!R1, Resetter!R2, Resetter!R3
  <2> QED BY <1>2, <2>1, <2>2, Zenon DEF Resetter!R4
<1>3. CASE ~(~DCM_LOCKED /\ ~GLOBAL_RST')
  BY <1>1, <1>3, Zenon
<1> QED BY <1>2, <1>3

(* What a clock counts, by the state it finds. *)
LEMMA ResetCounted ==
  ASSUME Resetter!rst_sm, clkHigh \in Nat, glbWait \in Nat, CNT_RANGE_HIGH \in Nat
  PROVE  /\ rstState = "R0" => clkHigh' = 1 /\ glbWait' = 0
         /\ rstState = "R1" => clkHigh' = (IF clkHigh <= CNT_RANGE_HIGH THEN clkHigh + 1 ELSE clkHigh) /\ glbWait' = 0
         /\ rstState = "R2" => clkHigh' = clkHigh /\ glbWait' = 0
         /\ rstState = "R3" => clkHigh' = clkHigh /\ glbWait' = (IF glbWait <= CNT_RANGE_HIGH THEN glbWait + 1 ELSE glbWait)
         /\ rstState = "R4" => clkHigh' = clkHigh /\ glbWait' = glbWait
<1>1. /\ clkHigh' = CASE rstState = "R0" -> 1
                      [] rstState = "R1" /\ clkHigh <= CNT_RANGE_HIGH -> clkHigh + 1
                      [] OTHER -> clkHigh
      /\ glbWait' = CASE rstState \in {"R0", "R1", "R2"} -> 0
                      [] rstState = "R3" /\ glbWait <= CNT_RANGE_HIGH -> glbWait + 1
                      [] OTHER -> glbWait
  BY Zenon DEF Resetter!rst_sm
<1> QED BY <1>1, SMT

(* A clock of the state machine, state by state. *)
LEMMA ResetterClock ==
  ASSUME Resetter!CountsAssumption, ResetterInv, Resetter!rst_sm
  PROVE  ResetterInv'
<1>1. ResetterTypes /\ ClockReset /\ Settling /\ Tight
  BY DEF ResetterInv
<1>2. /\ clkHigh \in Nat /\ glbWait \in Nat /\ loose \in Nat /\ rstCtr \in 0 .. CNT_RANGE_HIGH
      /\ loose <= 1 /\ (rstState = "R4" => loose = 0)
  BY <1>1 DEF ResetterTypes, Tight
<1>3. loose' \in Nat /\ Tight'
  <2>1. rstState' = "R4" => loose' = 0
    BY LooseOnlyInR4
  <2>2. loose' \in Nat /\ loose' <= 1
    BY <1>2, LooseOnlyInR4, SMT
  <2> QED BY <2>1, <2>2 DEF Tight
<1> SUFFICES ResetterTypes' /\ ClockReset' /\ Settling'
  BY <1>3 DEF ResetterInv
<1>4. CASE Resetter!R0
  <2>1. /\ rstState = "R0" /\ rstState' = "R1" /\ rstCtr' = CLK_RESET_DELAY_CNT
        /\ clkHigh' = 1 /\ glbWait' = 0
    BY <1>2, <1>4, ResetCounted, Delays DEF Resetter!R0
  <2> QED BY <2>1, <1>3, Delays, SMT DEF ResetterTypes, ClockReset, Settling
<1>5. CASE Resetter!R1
  <2>1. /\ rstState = "R1" /\ glbWait' = 0
        /\ clkHigh' = (IF clkHigh <= CNT_RANGE_HIGH THEN clkHigh + 1 ELSE clkHigh)
    BY <1>2, <1>5, ResetCounted, Delays DEF Resetter!R1
  <2>2. CASE rstCtr = 0
    <3>1. rstState' = "R2" /\ rstCtr' = 0
      BY <1>5, <2>2 DEF Resetter!R1
    <3>2. clkHigh >= CNT_RANGE_HIGH - CLK_RESET_DELAY_CNT
      BY <1>1, <2>1, <2>2 DEF ClockReset
    <3> QED BY <1>2, <1>3, <2>1, <3>1, <3>2, Delays, SMT DEF ResetterTypes, ClockReset, Settling
  <2>3. CASE rstCtr # 0
    <3>1. rstState' = "R1" /\ Resetter!Count
      BY <1>5, <2>3 DEF Resetter!R1
    <3>2. clkHigh > rstCtr - CLK_RESET_DELAY_CNT
      BY <1>1, <2>1, <2>3 DEF ClockReset
    <3>3. \/ rstCtr < CNT_RANGE_HIGH /\ rstCtr' = rstCtr + 1
          \/ rstCtr = CNT_RANGE_HIGH /\ rstCtr' = 0
      BY <1>2, <3>1, ResetCountsOn, Delays
    <3> QED BY <1>2, <1>3, <2>1, <2>3, <3>1, <3>2, <3>3, Delays, SMT DEF ResetterTypes, ClockReset, Settling
  <2> QED BY <2>2, <2>3
<1>6. CASE Resetter!R2
  <2>1. /\ rstState = "R2" /\ rstState' \in {"R2", "R3"} /\ rstCtr' = GBL_RESET_DELAY_CNT
        /\ clkHigh' = clkHigh /\ glbWait' = 0
    BY <1>2, <1>6, ResetCounted, Delays DEF Resetter!R2
  <2>2. clkHigh >= CNT_RANGE_HIGH - CLK_RESET_DELAY_CNT
    BY <1>1, <2>1 DEF ClockReset
  <2> QED BY <1>2, <1>3, <2>1, <2>2, Delays, SMT DEF ResetterTypes, ClockReset, Settling
<1>7. CASE Resetter!R3
  <2>1. /\ rstState = "R3" /\ clkHigh' = clkHigh
        /\ glbWait' = (IF glbWait <= CNT_RANGE_HIGH THEN glbWait + 1 ELSE glbWait)
    BY <1>2, <1>7, ResetCounted, Delays DEF Resetter!R3
  <2>2. clkHigh >= CNT_RANGE_HIGH - CLK_RESET_DELAY_CNT
    BY <1>1, <2>1 DEF ClockReset
  <2>3. CASE rstCtr = 0
    <3>1. rstState' = "R4" /\ rstCtr' = 0
      BY <1>7, <2>3 DEF Resetter!R3
    <3>2. glbWait >= CNT_RANGE_HIGH - GBL_RESET_DELAY_CNT
      BY <1>1, <2>1, <2>3 DEF Settling
    <3> QED BY <1>2, <1>3, <2>1, <2>2, <3>1, <3>2, Delays, SMT DEF ResetterTypes, ClockReset, Settling
  <2>4. CASE rstCtr # 0
    <3>1. rstState' = "R3" /\ Resetter!Count
      BY <1>7, <2>4 DEF Resetter!R3
    <3>2. glbWait >= rstCtr - GBL_RESET_DELAY_CNT
      BY <1>1, <2>1, <2>4 DEF Settling
    <3>3. \/ rstCtr < CNT_RANGE_HIGH /\ rstCtr' = rstCtr + 1
          \/ rstCtr = CNT_RANGE_HIGH /\ rstCtr' = 0
      BY <1>2, <3>1, ResetCountsOn, Delays
    <3> QED BY <1>2, <1>3, <2>1, <2>2, <2>4, <3>1, <3>2, <3>3, Delays, SMT DEF ResetterTypes, ClockReset, Settling
  <2> QED BY <2>3, <2>4
<1>8. CASE Resetter!R4
  <2>1. /\ rstState = "R4" /\ rstState' \in {"R0", "R4"} /\ rstCtr' = rstCtr
        /\ clkHigh' = clkHigh /\ glbWait' = glbWait
    BY <1>2, <1>8, ResetCounted, Delays DEF Resetter!R4
  <2>2. /\ clkHigh >= CNT_RANGE_HIGH - CLK_RESET_DELAY_CNT
        /\ glbWait >= CNT_RANGE_HIGH - GBL_RESET_DELAY_CNT
    BY <1>1, <2>1 DEF ClockReset, Settling
  <2> QED BY <1>2, <1>3, <2>1, <2>2, Delays, SMT DEF ResetterTypes, ClockReset, Settling
<1> QED BY <1>4, <1>5, <1>6, <1>7, <1>8 DEF Resetter!rst_sm

(* FORCE_RST and the lock move no counter but the one they clear. *)
LEMMA StepResetter ==
  ASSUME Resetter!CountsAssumption, ResetterInv, [Resetter!Next]_(Resetter!vars)
  PROVE  ResetterInv'
<1>1. CASE Resetter!rst_sm
  BY <1>1, ResetterClock
<1>2. CASE Resetter!ForceReset
  <2>1. /\ rstState' = "R0" /\ rstCtr' = 0
        /\ clkHigh' = clkHigh /\ glbWait' = glbWait /\ loose' = loose
    BY <1>2, Zenon DEF Resetter!ForceReset
  <2> QED BY <2>1, Delays, SMT DEF ResetterInv, ResetterTypes, ClockReset, Settling, Tight
<1>3. CASE Resetter!Release \/ Resetter!Lock \/ Resetter!Unlock
  <2>1. /\ rstState' = rstState /\ rstCtr' = rstCtr
        /\ clkHigh' = clkHigh /\ glbWait' = glbWait /\ loose' = loose
    BY <1>3 DEF Resetter!Release, Resetter!Lock, Resetter!Unlock
  <2> QED BY <2>1, Zenon DEF ResetterInv, ResetterTypes, ClockReset, Settling, Tight
<1>4. CASE UNCHANGED Resetter!vars
  BY <1>4, Zenon DEF Resetter!vars, ResetterInv, ResetterTypes, ClockReset, Settling, Tight
<1> QED BY <1>1, <1>2, <1>3, <1>4 DEF Resetter!Next

(* GLOBAL_RST falls only in R4, where both delays are over. *)
LEMMA ReleasedInR4 ==
  ASSUME Resetter!CountsAssumption, ResetterInv, [Resetter!Next]_(Resetter!vars)
  PROVE  Resetter!Sequence
<1>1. CASE Resetter!rst_sm
  <2>1. /\ rstState = "R4" => clkHigh >= CNT_RANGE_HIGH - CLK_RESET_DELAY_CNT
        /\ rstState = "R4" => glbWait >= CNT_RANGE_HIGH - GBL_RESET_DELAY_CNT
    BY Zenon DEF ResetterInv, ClockReset, Settling
  <2>2. GLOBAL_RST' = (rstState # "R4")
    BY <1>1, Zenon DEF Resetter!rst_sm
  <2>3. CASE rstState = "R4"
    <3>1. clkHigh' = clkHigh /\ glbWait' = glbWait
      BY <1>1, <2>3, ResetCounted, Delays DEF ResetterInv, ResetterTypes
    <3> QED BY <2>1, <2>3, <3>1, Zenon DEF Resetter!Sequence
  <2>4. CASE rstState # "R4"
    BY <2>2, <2>4, Zenon DEF Resetter!Sequence
  <2> QED BY <2>3, <2>4
<1>2. CASE Resetter!ForceReset \/ Resetter!Release \/ Resetter!Lock \/ Resetter!Unlock \/ UNCHANGED Resetter!vars
  <2>1. GLOBAL_RST' = GLOBAL_RST
    BY <1>2 DEF Resetter!ForceReset, Resetter!Release, Resetter!Lock, Resetter!Unlock, Resetter!vars
  <2> QED BY <2>1, Zenon DEF Resetter!Sequence
<1> QED BY <1>1, <1>2 DEF Resetter!Next
-----------------------------------------------------------------------------
(* The gate of the trigger.  A capture is under way or not read yet:       *)
Busy == wr_writing \/ wr_wrapped_i

(* Until a capture has begun the ones of a trigger travel through the      *)
(* carrier, whose answer comes later; from then on the gate is closed, and *)
(* the zeros follow, so that the carrier sees no other rising edge.        *)
OnesTravel ==
  /\ wr_start_pulse <=> out_set_prev2
  /\ (out_set_prev2 => out_set_prev) /\ (out_set_prev => out_set) /\ (out_set => in_set)
  /\ ~outreset /\ ~in_reset /\ ~in_reset_prev /\ ~in_reset_prev2
ZerosTravel ==
  /\ ~wr_start_pulse
  /\ (in_set => out_set) /\ (out_set => out_set_prev) /\ (out_set_prev => out_set_prev2)

GateInv ==
  /\ in_set \in BOOLEAN /\ out_set \in BOOLEAN /\ out_set_prev \in BOOLEAN /\ out_set_prev2 \in BOOLEAN
  /\ ~Busy => OnesTravel /\ wr_addr_i = 0
  /\ Busy => ZerosTravel
  /\ host # "waiting" => ~allow
  /\ host = "reset" => ~Busy /\ ~in_set /\ starts = 0

LEMMA InitGate == Gate!Init => GateInv
  BY DEF Gate!Init, GateInv, Busy, OnesTravel, ZerosTravel

(* The clock of the SDRAM, as the flip-flops of the carrier see it. *)
LEMMA CarrierClock ==
  ASSUME Gate!MemoryClock, GateInv
  PROVE  /\ in_set' <=> ~(in_reset_prev /\ in_reset_prev2) /\ (Gate!idata_data_wr_start \/ in_set)
         /\ (in_reset' <=> outreset) /\ (in_reset_prev' <=> in_reset) /\ (in_reset_prev2' <=> in_reset_prev)
         /\ (out_set' <=> in_set) /\ (out_set_prev' <=> out_set) /\ (out_set_prev2' <=> out_set_prev)
         /\ wr_start_pulse' <=> out_set_prev /\ ~out_set_prev2
         /\ outreset' => (out_set_prev /\ out_set_prev2) \/ outreset
         /\ in_set' \in BOOLEAN /\ out_set' \in BOOLEAN /\ out_set_prev' \in BOOLEAN /\ out_set_prev2' \in BOOLEAN
<1>1. /\ in_set' = IF in_reset_prev /\ in_reset_prev2 THEN FALSE ELSE Gate!idata_data_wr_start \/ in_set
      /\ in_reset' = outreset /\ in_reset_prev' = in_reset /\ in_reset_prev2' = in_reset_prev
      /\ out_set' = in_set /\ out_set_prev' = out_set /\ out_set_prev2' = out_set_prev
      /\ wr_start_pulse' = (out_set_prev /\ ~out_set_prev2)
      /\ outreset' = IF out_set_prev /\ out_set_prev2 THEN TRUE
                     ELSE IF ~out_set_prev /\ ~out_set_prev2 THEN FALSE ELSE outreset
  BY Zenon DEF Gate!MemoryClock, Gate!Carrier!InProc, Gate!Carrier!OutProc, Gate!Carrier!Answer,
               Gate!Carrier!OutStages
<1>2. in_set' \in BOOLEAN /\ out_set' \in BOOLEAN /\ out_set_prev' \in BOOLEAN /\ out_set_prev2' \in BOOLEAN
  BY <1>1 DEF GateInv, Gate!idata_data_wr_start
<1> QED BY <1>1, <1>2, Zenon

LEMMA MemoryClockGate ==
  ASSUME Gate!SpanAssumption, Gate!MemoryClock, GateInv
  PROVE  GateInv'
<1>1. /\ allow' = allow /\ host' = host
      /\ starts' = (IF wr_start_pulse /\ starts < 2 THEN starts + 1 ELSE starts)
      /\ Gate!StatusProcess
  BY DEF Gate!MemoryClock
<1>2. Gate!idata_data_wr_start => allow /\ ~Busy
  BY DEF Gate!idata_data_wr_start, Busy
<1>3. in_set' \in BOOLEAN /\ out_set' \in BOOLEAN /\ out_set_prev' \in BOOLEAN /\ out_set_prev2' \in BOOLEAN
  BY CarrierClock
<1>4. host = "reset" => ~Busy /\ ~in_set /\ ~wr_start_pulse /\ ~Gate!idata_data_wr_start
  BY <1>2 DEF GateInv, OnesTravel
<1>5. CASE ~Busy /\ ~wr_start_pulse
  <2>1. ~wr_writing /\ ~wr_wrapped_i /\ ~Gate!Collided
    BY <1>5, SMT DEF Busy, GateInv, Gate!Collided, Gate!SpanAssumption
  <2>2. ~wr_writing' /\ ~wr_wrapped_i' /\ wr_addr_i' = 0
    BY <1>1, <1>5, <2>1 DEF Gate!StatusProcess, GateInv
  <2>3. OnesTravel'
    <3>1. OnesTravel
      BY <1>5 DEF GateInv
    <3> QED BY <1>5, <3>1, CarrierClock, Zenon DEF OnesTravel
  <2>4. host = "reset" => ~in_set'
    BY <1>4, CarrierClock
  <2> QED BY <1>1, <1>3, <1>4, <1>5, <2>2, <2>3, <2>4 DEF GateInv, Busy
<1>6. CASE ~Busy /\ wr_start_pulse
  <2>1. wr_writing'
    BY <1>1, <1>6 DEF Gate!StatusProcess
  <2>2. ZerosTravel'
    BY <1>6, CarrierClock DEF GateInv, OnesTravel, ZerosTravel
  <2> QED BY <1>1, <1>3, <1>4, <1>6, <2>1, <2>2 DEF GateInv, Busy
<1>7. CASE Busy
  <2>1. Busy'
    BY <1>1, <1>7 DEF Gate!StatusProcess, GateInv, ZerosTravel, Busy
  <2>2. ZerosTravel'
    <3>1. ZerosTravel
      BY <1>7 DEF GateInv
    <3> QED BY <1>2, <1>7, <3>1, CarrierClock, Zenon DEF ZerosTravel
  <2> QED BY <1>1, <1>3, <1>4, <1>7, <2>1, <2>2 DEF GateInv
<1> QED BY <1>5, <1>6, <1>7

LEMMA ControlClockGate ==
  ASSUME Gate!ControlClock, GateInv
  PROVE  GateInv'
<1>1. UNCHANGED Gate!carrier
  BY DEF Gate!ControlClock
<1>2. /\ UNCHANGED <<in_set, in_reset, in_reset_prev, in_reset_prev2>>
      /\ UNCHANGED <<out_set, out_set_prev, out_set_prev2, outreset, wr_start_pulse>>
  BY <1>1 DEF Gate!carrier
<1>3. CASE Gate!Disallow
  BY <1>2, <1>3 DEF Gate!Disallow, Gate!status, GateInv, Busy, OnesTravel, ZerosTravel
<1>4. CASE Gate!CtrlReset
  <2>1. /\ ~in_set /\ ~in_reset /\ ~in_reset_prev /\ ~in_reset_prev2
        /\ ~out_set /\ ~out_set_prev /\ ~out_set_prev2 /\ ~outreset /\ ~wr_start_pulse
    BY <1>4, SMT DEF Gate!CtrlReset, Gate!Settled, Gate!carrier
  <2>2. /\ ~wr_writing' /\ ~wr_wrapped_i' /\ wr_addr_i' = 0 /\ host' = "reset" /\ starts' = 0
        /\ allow' = allow /\ ~allow
    BY <1>4, SMT DEF Gate!CtrlReset, GateInv
  <2> QED BY <1>2, <2>1, <2>2 DEF GateInv, Busy, OnesTravel
<1>5. CASE Gate!Allow
  BY <1>2, <1>5 DEF Gate!Allow, Gate!status, GateInv, Busy, OnesTravel, ZerosTravel
<1>6. CASE Gate!NoCommand
  BY <1>2, <1>6 DEF Gate!NoCommand, Gate!status, GateInv, Busy, OnesTravel, ZerosTravel
<1> QED BY <1>3, <1>4, <1>5, <1>6 DEF Gate!ControlClock

LEMMA StepGate ==
  ASSUME Gate!SpanAssumption, [Gate!Next]_(Gate!vars), GateInv
  PROVE  GateInv'
<1>1. CASE UNCHANGED Gate!vars
  BY <1>1 DEF Gate!vars, Gate!sync, Gate!carrier, Gate!status, GateInv, Busy, OnesTravel, ZerosTravel
<1> QED BY <1>1, MemoryClockGate, ControlClockGate DEF Gate!Next
-----------------------------------------------------------------------------
(* The averaging.  avg_n is below 16, so that a group is at most 2^15      *)
(* samples long and the counter does not come round inside one.            *)
Words == 2 ^ 16

LEMMA WordsValue == Words = 65536
  BY SMT DEF Words

LEMMA WordsLarge == Words \in Nat /\ Words > 16
  BY WordsValue, SMT

LEMMA Powers ==
  ASSUME NEW n \in 0 .. 15
  PROVE  2 ^ n \in Nat /\ 2 ^ n > 0 /\ 2 ^ n < Words
<1>1. /\ 2 ^ 0 = 1 /\ 2 ^ 1 = 2 /\ 2 ^ 2 = 4 /\ 2 ^ 3 = 8 /\ 2 ^ 4 = 16 /\ 2 ^ 5 = 32 /\ 2 ^ 6 = 64
      /\ 2 ^ 7 = 128 /\ 2 ^ 8 = 256 /\ 2 ^ 9 = 512 /\ 2 ^ 10 = 1024 /\ 2 ^ 11 = 2048 /\ 2 ^ 12 = 4096
      /\ 2 ^ 13 = 8192 /\ 2 ^ 14 = 16384 /\ 2 ^ 15 = 32768
  BY SMT
<1> DEFINE Good(m) == m \in Nat /\ m > 0 /\ m < Words
<1>2. /\ Good(2 ^ 0) /\ Good(2 ^ 1) /\ Good(2 ^ 2) /\ Good(2 ^ 3) /\ Good(2 ^ 4) /\ Good(2 ^ 5) /\ Good(2 ^ 6)
      /\ Good(2 ^ 7) /\ Good(2 ^ 8) /\ Good(2 ^ 9) /\ Good(2 ^ 10) /\ Good(2 ^ 11) /\ Good(2 ^ 12)
      /\ Good(2 ^ 13) /\ Good(2 ^ 14) /\ Good(2 ^ 15)
  BY <1>1, WordsValue, SMT
<1> HIDE DEF Good
<1>3. \/ n = 0 \/ n = 1 \/ n = 2 \/ n = 3 \/ n = 4 \/ n = 5 \/ n = 6 \/ n = 7 \/ n = 8 \/ n = 9
      \/ n = 10 \/ n = 11 \/ n = 12 \/ n = 13 \/ n = 14 \/ n = 15
  BY SMT
<1>4. Good(2 ^ n)
  BY <1>2, <1>3, Zenon
<1> QED BY <1>4 DEF Good

LEMMA Remainder ==
  ASSUME NEW P \in Nat, P > 0, NEW a \in Int
  PROVE  (a % P = 0) <=> (\E q \in Int : a = q * P)
<1>1. ASSUME NEW q \in Int, a = q * P PROVE a % P = 0
  <2>1. 0 \in 0 .. P - 1 /\ a = q * P + 0
    BY <1>1, SMT
  <2> QED BY <2>1, SMT
<1>2. a % P = 0 => a = (a \div P) * P + 0 /\ a \div P \in Int
  BY SMT
<1>3. (a % P = 0) => \E q \in Int : a = q * P
  <2> HAVE a % P = 0
  <2>1. a = (a \div P) * P
    BY <1>2, SMT
  <2> WITNESS a \div P \in Int
  <2> QED BY <2>1
<1>4. (\E q \in Int : a = q * P) => a % P = 0
  BY <1>1, Zenon
<1> QED BY <1>3, <1>4, Zenon

(* Counting modulo a multiple of P keeps the remainder by P. *)
LEMMA Around ==
  ASSUME NEW P \in Nat, P > 0, NEW M \in Nat, M > 0, M % P = 0, NEW a \in Nat
  PROVE  a % M \in 0 .. M - 1 /\ \E q \in Int : a % M = a + q * P
<1>1. PICK s \in Int : M = s * P
  BY Remainder
<1>2. a = (a \div M) * M + (a % M) /\ a \div M \in Int /\ a % M \in 0 .. M - 1
  BY SMT
<1> DEFINE d == a \div M
<1>3. d * M = (d * s) * P
  BY <1>1, <1>2, SMT
<1>4. a % M = a + (-(d * s)) * P
  BY <1>1, <1>2, <1>3, SMT
<1>5. -(d * s) \in Int
  BY <1>1, <1>2, SMT
<1>6. \E q \in Int : a % M = a + q * P
  BY <1>4, <1>5, Zenon
<1> QED BY <1>2, <1>6

Group == Average!Points

(* The constants as a clock finds them. *)
LEMMA GroupFits ==
  ASSUME CONFIG \in Configs
  PROVE  /\ Group \in Nat /\ Group > 0 /\ Group < Words /\ MaxSum \in Nat /\ MaxSum > Group
         /\ AgePeriod \in Nat /\ AgePeriod > 0 /\ AgePeriod % Group = 0
         /\ CONFIG.offset \in 0 .. 15
<1>1. Average!ConfigsAssumption /\ Average!MaxSumAssumption /\ Average!PeriodAssumption
  BY ConstantsAssumption
<1>2. CONFIG \in [offset : 0 .. 15, avg_n : 0 .. 15]
  BY <1>1 DEF Average!ConfigsAssumption
<1>3. CONFIG.avg_n \in 0 .. 15 /\ CONFIG.offset \in 0 .. 15
  BY <1>2
<1>4. Group \in Nat /\ Group > 0 /\ Group < Words
  BY <1>3, Powers, Zenon DEF Group, Average!Points
<1>5. MaxSum \in Nat /\ MaxSum > Group
  BY <1>1 DEF Group, Average!Points, Average!MaxSumAssumption
<1>6. AgePeriod \in Nat \ {0} /\ AgePeriod % Group = 0
  BY <1>1 DEF Group, Average!Points, Average!PeriodAssumption
<1>7. AgePeriod \in Nat /\ AgePeriod > 0
  BY <1>6, SMT
<1> QED BY <1>3, <1>4, <1>5, <1>6, <1>7

(* In the first group after 0 the bit of the counter means the last sample. *)
LEMMA FullAtEnd ==
  ASSUME Group \in Nat, Group > 0, NEW k \in 1 .. Group
  PROVE  Average!Full(k) <=> k = Group
<1>1. CASE k = Group
  <2>1. k \div Group = 1
    BY <1>1, SMT
  <2> QED BY <1>1, <2>1, SMT DEF Average!Full, Group
<1>2. CASE k < Group
  <2>1. k \div Group = 0
    BY <1>2, SMT
  <2> QED BY <1>2, <2>1, SMT DEF Average!Full, Group
<1> QED BY <1>1, <1>2, SMT

(* A clean sum holds the samples counted since j was 1; after a trigger    *)
(* the counter runs in step with the clocks since then, as far as it stays *)
(* in its first group.                                                     *)
Values ==
  /\ CONFIG \in Configs /\ j \in 0 .. Words - 1 /\ internal_val \in 0 .. MaxSum
  /\ age \in Nat \cup {-1} /\ OUTVALID \in BOOLEAN /\ clean \in BOOLEAN
CleanSum ==
  clean => IF OUTVALID THEN internal_val = Group /\ j = 1
           ELSE internal_val \in 1 .. Group - 1 /\ j = internal_val + 1
InPhase ==
  age # -1 /\ CONFIG.offset < Group =>
    /\ j \in 1 .. Group /\ (OUTVALID => j = 1)
    /\ \E q \in Int : age + CONFIG.offset + 1 - j = q * Group
Cut == age # -1 /\ CONFIG.offset = 0 => clean

AverageInv == Values /\ CleanSum /\ InPhase /\ Cut

LEMMA InitAverage == Average!Init => AverageInv
<1> SUFFICES ASSUME Average!Init PROVE AverageInv
  OBVIOUS
<1>1. CONFIG \in Configs /\ j = 0 /\ internal_val = 0 /\ OUTVALID = FALSE /\ clean = FALSE /\ age = -1
  BY DEF Average!Init
<1>2. 0 \in 0 .. Words - 1 /\ 0 \in 0 .. MaxSum
  BY <1>1, GroupFits, WordsValue, SMT
<1>3. Values
  BY <1>1, <1>2 DEF Values
<1> QED BY <1>1, <1>3 DEF AverageInv, CleanSum, InPhase, Cut

(* What a clock does with the phase it goes on from. *)
LEMMA Accumulates ==
  ASSUME Average!Clock
  PROVE  /\ internal_val' = IF Average!Phase = 1 THEN 1
                            ELSE IF internal_val < MaxSum THEN internal_val + 1 ELSE MaxSum
         /\ OUTVALID' = Average!Full(Average!Phase)
         /\ j' = IF Average!Full(Average!Phase) THEN 1 ELSE (Average!Phase + 1) % Words
         /\ clean' = (Average!Phase = 1 \/ (clean /\ ~Average!trig_synced))
         /\ age' = IF Average!trig_synced THEN 1 % AgePeriod ELSE IF age = -1 THEN -1 ELSE (age + 1) % AgePeriod
         /\ CONFIG' = CONFIG
<1>1. Average!Accumulate(Average!Phase) /\ CONFIG' = CONFIG
  BY DEF Average!Clock
<1>2. j' = IF Average!Full(Average!Phase) THEN 1 ELSE (Average!Phase + 1) % Words
  BY <1>1, Zenon DEF Average!Accumulate, Words
<1>3. /\ clean' = (Average!Phase = 1 \/ (clean /\ ~Average!trig_synced))
      /\ age' = IF Average!trig_synced THEN 1 % AgePeriod ELSE IF age = -1 THEN -1 ELSE (age + 1) % AgePeriod
  BY Zenon DEF Average!Clock
<1>4. /\ internal_val' = IF Average!Phase = 1 THEN 1
                         ELSE IF internal_val < MaxSum THEN internal_val + 1 ELSE MaxSum
      /\ OUTVALID' = Average!Full(Average!Phase)
  BY <1>1, Zenon DEF Average!Accumulate
<1> QED BY <1>1, <1>2, <1>3, <1>4

LEMMA PhaseValue ==
  ASSUME Values, CONFIG.offset \in 0 .. 15
  PROVE  /\ Average!Phase \in 0 .. Words - 1
         /\ Average!trig_synced => Average!Phase = CONFIG.offset + 1
         /\ ~Average!trig_synced => Average!Phase = j
<1>1. j \in 0 .. Words - 1
  BY DEF Values
<1>2. CONFIG.offset + 1 \in 0 .. Words - 1
  BY WordsLarge, SMT
<1> QED BY <1>1, <1>2, Zenon DEF Average!Phase

LEMMA ClockAverage ==
  ASSUME Average!Clock, AverageInv
  PROVE  AverageInv'
<1> DEFINE k == Average!Phase
           o == CONFIG.offset
<1>1. /\ Group \in Nat /\ Group > 0 /\ Group < Words /\ MaxSum \in Nat /\ MaxSum > Group
      /\ AgePeriod \in Nat /\ AgePeriod > 0 /\ AgePeriod % Group = 0 /\ o \in 0 .. 15
      /\ Words \in Nat /\ Words > 16
  BY GroupFits, WordsLarge DEF AverageInv, Values
<1>2. /\ internal_val' = IF k = 1 THEN 1 ELSE IF internal_val < MaxSum THEN internal_val + 1 ELSE MaxSum
      /\ OUTVALID' = Average!Full(k)
      /\ j' = IF Average!Full(k) THEN 1 ELSE (k + 1) % Words
      /\ clean' = (k = 1 \/ (clean /\ ~Average!trig_synced))
      /\ age' = IF Average!trig_synced THEN 1 % AgePeriod ELSE IF age = -1 THEN -1 ELSE (age + 1) % AgePeriod
      /\ CONFIG' = CONFIG
  BY Accumulates
<1>3. k \in 0 .. Words - 1 /\ (Average!trig_synced => k = o + 1) /\ (~Average!trig_synced => k = j)
  BY <1>1, PhaseValue DEF AverageInv
<1>4. Group' = Group
  BY <1>2 DEF Group, Average!Points
<1>5. k \in 1 .. Group => (Average!Full(k) <=> k = Group)
  BY <1>1, FullAtEnd
<1>6. Average!Full(k) \in BOOLEAN
  BY DEF Average!Full
<1>7. age' # -1 => \E q \in Int : age' = (IF Average!trig_synced THEN 1 ELSE age + 1) + q * Group
  <2> DEFINE b == IF Average!trig_synced THEN 1 ELSE age + 1
  <2>1. SUFFICES ASSUME age' # -1 PROVE \E q \in Int : age' = b + q * Group
    OBVIOUS
  <2>2. age' = b % AgePeriod /\ (Average!trig_synced \/ age # -1)
    BY <1>2, <2>1, Zenon
  <2>3. age \in Nat \cup {-1}
    BY DEF AverageInv, Values
  <2>4. b \in Nat
    BY <2>2, <2>3, SMT
  <2> HIDE DEF b
  <2> QED BY <1>1, <2>2, <2>4, Around
<1> HIDE DEF k, o
<1>8. Values'
  <2>1. j' \in 0 .. Words - 1 /\ internal_val' \in 0 .. MaxSum
    BY <1>1, <1>2, <1>3, SMT DEF AverageInv, Values
  <2>2. age' \in Nat \cup {-1}
    BY <1>1, <1>2, Around, SMT DEF AverageInv, Values
  <2> QED BY <1>2, <1>6, <2>1, <2>2 DEF AverageInv, Values
<1>9. CleanSum'
  <2>1. CASE k = 1
    BY <1>1, <1>2, <1>4, <1>5, <2>1, SMT DEF CleanSum
  <2>2. CASE k # 1 /\ clean /\ ~Average!trig_synced
    <3>1. ~OUTVALID /\ internal_val \in 1 .. Group - 1 /\ k = internal_val + 1
      BY <1>3, <2>2 DEF AverageInv, CleanSum
    <3> QED BY <1>1, <1>2, <1>4, <1>5, <2>2, <3>1, SMT DEF CleanSum
  <2>3. CASE k # 1 /\ ~(clean /\ ~Average!trig_synced)
    BY <1>2, <2>3 DEF CleanSum
  <2> QED BY <2>1, <2>2, <2>3
<1>10. InPhase'
  <2> SUFFICES ASSUME age' # -1, o < Group
               PROVE  /\ j' \in 1 .. Group /\ (OUTVALID' => j' = 1)
                      /\ \E q \in Int : age' + o + 1 - j' = q * Group
    BY <1>2, <1>4 DEF InPhase, o
  <2>1. /\ k \in 1 .. Group
        /\ \E q \in Int : (IF Average!trig_synced THEN 1 ELSE age + 1) + o - k = q * Group
    <3>1. CASE Average!trig_synced
      <4>1. k \in 1 .. Group /\ 1 + o - k = 0 * Group
        BY <1>1, <1>3, <3>1, SMT
      <4> QED BY <3>1, <4>1
    <3>2. CASE ~Average!trig_synced
      <4>1. age # -1 /\ k = j
        BY <1>2, <1>3, <3>2
      <4>2. j \in 1 .. Group /\ \E q \in Int : age + o + 1 - j = q * Group
        BY <4>1 DEF AverageInv, InPhase, o
      <4>3. age \in Nat
        BY <4>1 DEF AverageInv, Values
      <4> QED BY <1>1, <3>2, <4>1, <4>2, <4>3, SMT
    <3> QED BY <3>1, <3>2
  <2> DEFINE b == IF Average!trig_synced THEN 1 ELSE age + 1
  <2>2. b \in Int
    BY <1>2, SMT DEF AverageInv, Values
  <2>3. PICK q1 \in Int : b + o - k = q1 * Group
    BY <2>1
  <2>4. PICK q2 \in Int : age' = b + q2 * Group
    BY <1>7
  <2> HIDE DEF b
  <2>5. CASE k = Group
    <3>1. j' = 1
      BY <1>2, <1>5, <2>1, <2>5
    <3>2. age' + o + 1 - j' = (q1 + q2 + 1) * Group
      <4>1. age' + o + 1 - j' = q1 * Group + q2 * Group + Group
        BY <1>1, <2>2, <2>3, <2>4, <2>5, <3>1, SMT
      <4> QED BY <1>1, <4>1, SMT
    <3> QED BY <1>1, <3>1, <3>2, SMT
  <2>6. CASE k < Group
    <3>1. j' = k + 1 /\ ~OUTVALID'
      BY <1>1, <1>2, <1>5, <2>1, <2>6, SMT
    <3>2. age' + o + 1 - j' = (q1 + q2) * Group
      <4>1. age' + o + 1 - j' = q1 * Group + q2 * Group
        BY <1>1, <1>3, <2>2, <2>3, <2>4, <3>1, SMT
      <4> QED BY <1>1, <4>1, SMT
    <3> QED BY <1>1, <2>1, <2>6, <3>1, <3>2, SMT
  <2> QED BY <1>1, <2>1, <2>5, <2>6, SMT
<1>11. Cut'
  <2>1. SUFFICES ASSUME age' # -1, o = 0 PROVE clean'
    BY <1>2 DEF Cut, o
  <2>2. CASE Average!trig_synced
    <3>1. k = 1
      BY <1>3, <2>1, <2>2, SMT
    <3> QED BY <1>2, <3>1, Zenon
  <2>3. CASE ~Average!trig_synced
    BY <1>2, <2>1, <2>3 DEF AverageInv, Cut, o
  <2> QED BY <2>2, <2>3
<1> QED BY <1>8, <1>9, <1>10, <1>11 DEF AverageInv

LEMMA StepAverage ==
  ASSUME [Average!Next]_(Average!vars), AverageInv
  PROVE  AverageInv'
<1>1. CASE Average!Reset
  <2>1. CONFIG' = CONFIG /\ j' = 0 /\ internal_val' = 0 /\ OUTVALID' = FALSE /\ clean' = FALSE /\ age' = -1
    BY <1>1 DEF Average!Reset
  <2>2. CONFIG \in Configs /\ 0 \in 0 .. Words - 1 /\ 0 \in 0 .. MaxSum
    BY GroupFits, WordsLarge, SMT DEF AverageInv, Values
  <2>3. Values'
    BY <2>1, <2>2 DEF Values
  <2> QED BY <2>1, <2>3 DEF AverageInv, CleanSum, InPhase, Cut
<1>2. CASE Average!Configure
  <2>1. /\ CONFIG' \in Configs /\ clean' = FALSE /\ age' = -1
        /\ j' = j /\ internal_val' = internal_val /\ OUTVALID' = OUTVALID
    BY <1>2 DEF Average!Configure
  <2>2. Values'
    BY <2>1 DEF AverageInv, Values
  <2> QED BY <2>1, <2>2 DEF AverageInv, CleanSum, InPhase, Cut
<1>3. CASE UNCHANGED Average!vars
  <2>1. UNCHANGED <<CONFIG, j, internal_val, OUTVALID, clean, age>>
    BY <1>3 DEF Average!vars
  <2>2. Values' /\ Group' = Group
    BY <2>1 DEF AverageInv, Values, Group, Average!Points
  <2> QED BY <2>1, <2>2 DEF AverageInv, CleanSum, InPhase, Cut
<1> QED BY <1>1, <1>2, <1>3, ClockAverage DEF Average!Next

LEMMA AveragesAreRight ==
  ASSUME AverageInv
  PROVE  Average!CleanIsMean /\ Average!TriggerCuts /\ Average!PhaseKept
<1>1. Group \in Nat /\ Group > 0 /\ CONFIG.offset \in 0 .. 15
  BY GroupFits DEF AverageInv, Values
<1>2. ASSUME OUTVALID, age # -1, CONFIG.offset < Group PROVE (age + CONFIG.offset) % Group = 0
  <2>1. j = 1 /\ \E q \in Int : age + CONFIG.offset + 1 - j = q * Group
    BY <1>2 DEF AverageInv, InPhase
  <2>2. age \in Nat
    BY <1>2 DEF AverageInv, Values
  <2>3. age + CONFIG.offset \in Int /\ \E q \in Int : age + CONFIG.offset = q * Group
    BY <1>1, <2>1, <2>2, SMT
  <2> QED BY <1>1, <2>3, Remainder
<1>3. Average!CleanIsMean
  BY DEF AverageInv, CleanSum, Average!CleanIsMean, Group
<1>4. Average!PhaseKept
  BY <1>2 DEF Average!PhaseKept, Group
<1>5. Average!TriggerCuts
  <2> SUFFICES ASSUME OUTVALID, age # -1, CONFIG.offset = 0 PROVE clean /\ age % Group = 0
    BY DEF Average!TriggerCuts, Group
  <2>1. age \in Nat /\ age + CONFIG.offset = age
    BY SMT DEF AverageInv, Values
  <2> QED BY <1>1, <1>2, <2>1 DEF AverageInv, Cut
<1> QED BY <1>3, <1>4, <1>5

(* What the averages are right whatever they are: the trigger and its age. *)
Samples == {TRIG, trig_prev, trig_prev1, trig_prev2} \subseteq {0, 1} /\ age \in -1 .. AgePeriod - 1

LEMMA PeriodIs == AgePeriod \in Nat /\ AgePeriod > 0
<1>1. Average!PeriodAssumption
  BY ConstantsAssumption
<1> QED BY <1>1 DEF Average!PeriodAssumption

LEMMA InitSamples == Average!Init => Samples
  BY PeriodIs DEF Average!Init, Samples

LEMMA StepSamples ==
  ASSUME [Average!Next]_(Average!vars), AverageInv, Samples
  PROVE  Samples'
<1>1. CASE Average!Clock
  <2>1. /\ TRIG' \in {0, 1} /\ trig_prev' = TRIG /\ trig_prev1' = trig_prev /\ trig_prev2' = trig_prev1
        /\ \/ age' = 1 % AgePeriod
           \/ age = -1 /\ age' = -1
           \/ age # -1 /\ age' = (age + 1) % AgePeriod
    BY <1>1 DEF Average!Clock
  <2>2. age \in Nat \cup {-1}
    BY DEF AverageInv, Values
  <2>3. \A x \in Nat : x % AgePeriod \in 0 .. AgePeriod - 1
    BY PeriodIs, SMT
  <2>4. age' \in -1 .. AgePeriod - 1
    <3>1. CASE age' = 1 % AgePeriod
      BY <2>3, <3>1, PeriodIs
    <3>2. CASE age' = -1
      BY <3>2, PeriodIs
    <3>3. CASE age # -1 /\ age' = (age + 1) % AgePeriod
      <4> DEFINE x == age + 1
      <4>1. x \in Nat
        BY <2>2, <3>3
      <4> HIDE DEF x
      <4>2. x % AgePeriod \in 0 .. AgePeriod - 1 /\ age' = x % AgePeriod
        BY <2>3, <3>3, <4>1 DEF x
      <4> QED BY <4>2, PeriodIs
    <3> QED BY <2>1, <3>1, <3>2, <3>3
  <2> QED BY <2>1, <2>4 DEF Samples
<1>2. CASE Average!Reset
  BY <1>2, PeriodIs DEF Average!Reset, Samples
<1>3. CASE Average!Configure
  BY <1>3, PeriodIs DEF Average!Configure, Average!trig, Samples
<1>4. CASE UNCHANGED Average!vars
  BY <1>4 DEF Average!vars, Average!trig, Samples
<1> QED BY <1>1, <1>2, <1>3, <1>4 DEF Average!Next

LEMMA AverageTypes ==
  ASSUME AverageInv, Samples
  PROVE  Average!TypeOK
<1>1. /\ CONFIG \in Configs /\ j \in 0 .. Words - 1 /\ internal_val \in 0 .. MaxSum
      /\ OUTVALID \in BOOLEAN /\ clean \in BOOLEAN
  BY DEF AverageInv, Values
<1>2. Words = 2 ^ 16
  BY DEF Words
<1> HIDE DEF Words
<1> QED BY <1>1, <1>2, Zenon DEF Samples, Average!TypeOK
-----------------------------------------------------------------------------
(* The writer of the register map.  What the assumptions say of the        *)
(* constants:                                                              *)
LEMMA WriterConstants ==
  /\ DataClk \in Nat /\ DataClk >= 5 /\ START_DELAY_CYCLE \in Nat /\ START_DELAY_CYCLE > DataClk + 2
  /\ Len(Regmap) \in Nat
  /\ \A n \in 1 .. Len(Regmap) : Regmap[n].addr \in Nat /\ Regmap[n].reg \in Int /\ Regmap[n].val \in Int
<1>1. Writer!DelayAssumption /\ Writer!RegmapAssumption
  BY ConstantsAssumption
<1> DEFINE Entered == [addr : 0 .. 127, reg : 0 .. 255, val : -1 .. 255]
<1>2. Regmap \in Seq(Entered)
  BY <1>1 DEF Writer!RegmapAssumption
<1>3. \A e \in Entered : e.addr \in Nat /\ e.reg \in Int /\ e.val \in Int
  OBVIOUS
<1> HIDE DEF Entered
<1>4. Len(Regmap) \in Nat /\ \A n \in 1 .. Len(Regmap) : Regmap[n] \in Entered
  BY <1>2
<1>5. /\ DataClk \in Nat /\ DataClk >= 5
      /\ START_DELAY_CYCLE \in Nat /\ START_DELAY_CYCLE > DataClk + 2
  BY <1>1 DEF Writer!DelayAssumption
<1> QED BY <1>3, <1>4, <1>5

LEMMA EntryFacts ==
  /\ \A n \in Nat : n < Len(Regmap) => /\ Writer!Entry(n) = Regmap[n + 1] /\ Writer!Entry(n).addr >= 0
                                       /\ Writer!Entry(n).addr \in Int /\ Writer!Entry(n).reg \in Int
                                       /\ Writer!Entry(n).val \in Int
  /\ Writer!Entry(Len(Regmap)).addr = -1
<1>1. \A n \in Nat : n < Len(Regmap) => Writer!Entry(n) = Regmap[n + 1] /\ n + 1 \in 1 .. Len(Regmap)
  BY WriterConstants, SMT DEF Writer!Entry
<1>2. Writer!Entry(Len(Regmap)) = Writer!End
  BY WriterConstants, SMT DEF Writer!Entry
<1>3. Writer!End.addr = -1
  BY DEF Writer!End
<1> QED BY <1>1, <1>2, <1>3, WriterConstants, SMT

(* The registers of the master hold an entry; the bytes that it sends      *)
(* after the address, and what is on the bus when n bytes are.             *)
Held(e) ==
  /\ i2cSlAddr = e.addr /\ i2cRegAddr = e.reg /\ i2cRegVal = e.val
  /\ i2cMode = IF e.val < 0 THEN 0 ELSE 1
Bytes == IF mstate = "StWr1" THEN 1 ELSE 2
Byte(b) == IF b = 1 THEN i2cRegAddr ELSE i2cRegVal
Said(n) == CASE n = 0 -> <<>> [] n = 1 -> Append(<<>>, i2cSlAddr)
             [] n = 2 -> Append(Append(<<>>, i2cSlAddr), i2cRegAddr)
             [] n = 3 -> Append(Append(Append(<<>>, i2cSlAddr), i2cRegAddr), i2cRegVal)

WriterTypes ==
  /\ state \in {"S0", "S1", "S2", "S3", "S4", "S5"} /\ cnt \in Nat /\ i \in Nat /\ phase \in 0 .. DataClk - 1
  /\ (i2cStart <=> state = "S5") /\ (state # "S0" => BUSY) /\ wire \in Seq(Seq(Int))
  /\ busy \in BOOLEAN /\ d1 \in BOOLEAN /\ d2 \in BOOLEAN
Settled == (phase >= 1 => (d1 <=> busy)) /\ (phase >= 2 => (d2 <=> busy))
WireSoFar ==
  /\ Len(wire) <= Len(Regmap)
  /\ \A n \in 1 .. Len(wire) : wire[n] = Writer!BytesOf(Regmap[n])
AtEntry == state \in {"S4", "S5"} => i <= Len(Regmap) /\ addrval = Writer!Entry(i)

(* No transaction is under way.  After a reset BUSY is TRUE until data_clk *)
(* rises for the first time, which S1 outlasts.                            *)
Quiet ==
  /\ mstate = "StWaitStart" /\ core = "StReady" /\ cur = <<>>
  /\ state \in {"S1", "S2", "S3"} => Len(wire) = 0
  /\ state \in {"S4", "S5"} => Len(wire) = i
  /\ state = "S0" => Len(wire) = Len(Regmap)
  /\ state = "S5" => i < Len(Regmap) /\ Held(Writer!Entry(i))
  /\ busy => state = "S1" /\ cnt = phase + 2
  /\ ~busy /\ d1 => state = "S1" /\ cnt = DataClk + 2

(* A transaction is under way: e rising edges of BUSY have been made, of   *)
(* which the master may have to see the last yet, and b bytes are on the   *)
(* bus.                                                                    *)
Edges(e, up) ==
  /\ (busy <=> up) /\ sBusyCnt = (IF busy /\ ~d2 THEN e - 1 ELSE e) /\ (phase = 0 => (d1 <=> d2))
UnderWay(b, e, up) == cur = Said(b) /\ Edges(e, up) /\ Len(wire) = i - 1
Ahead  == core = "StReady" /\ cur = <<>> /\ ~busy /\ ~d1 /\ sBusyCnt = 0 /\ Len(wire) = i - 1
Behind == core = "StReady" /\ cur = <<>> /\ ~busy /\ sBusyCnt = Bytes /\ Len(wire) = i /\ phase = 0
AtAddress == core \in {"StStart", "StCommand"} /\ UnderWay(0, 1, TRUE) /\ data_tx = Byte(1) /\ writerAddr = i2cSlAddr
AtAck1    == core = "StSlv_ack1" /\ UnderWay(1, 1, TRUE) /\ data_tx = Byte(1)
AtWr(b)   == core = "StWr" /\ UnderWay(b, 1, b = 1) /\ data_tx = Byte(b)
AtWrEnd(b) == core = "StWrEnd" /\ UnderWay(b, b, TRUE) /\ data_tx = Byte(b)
AtAck2(b) == core = "StSlv_ack2" /\ UnderWay(b + 1, b, TRUE)
AtStop    == core = "StStop" /\ UnderWay(Bytes + 1, Bytes, TRUE)
OnBus == AtAddress \/ AtAck1 \/ (\E b \in 1 .. Bytes : AtWr(b) \/ AtWrEnd(b) \/ AtAck2(b)) \/ AtStop
Master == mstate = IF i2cMode = 0 THEN "StWr1" ELSE "StWr2"
Writing == state = "S4" /\ i2cBusy /\ i >= 1 /\ Held(Regmap[i]) /\ Master /\ (Ahead \/ OnBus \/ Behind)

MapInv == WriterTypes /\ Settled /\ WireSoFar /\ AtEntry /\ (Quiet \/ Writing)

(* Two facts of the reset, which the beginning shares.                     *)
LEMMA QuietAfterReset ==
  ASSUME state = "S1", cnt = 2, BUSY = TRUE, i2cStart = FALSE, mstate = "StWaitStart", core = "StReady",
         busy = TRUE, phase = 0, cur = <<>>, wire = <<>>, i \in Nat, d1 \in BOOLEAN, d2 \in BOOLEAN
  PROVE  MapInv
<1>1. phase \in 0 .. DataClk - 1 /\ cnt \in Nat /\ 0 <= Len(Regmap)
  BY WriterConstants, SMT
<1>2. wire \in Seq(Seq(Int)) /\ Len(wire) = 0
  OBVIOUS
<1>3. WriterTypes
  BY <1>1, <1>2 DEF WriterTypes
<1>4. Settled /\ AtEntry
  BY SMT DEF Settled, AtEntry
<1>5. WireSoFar
  BY <1>1, <1>2, SMT DEF WireSoFar
<1>6. Quiet
  BY <1>2, SMT DEF Quiet
<1> QED BY <1>3, <1>4, <1>5, <1>6 DEF MapInv

LEMMA InitWriter == Writer!Init => MapInv
<1> SUFFICES ASSUME Writer!Init PROVE MapInv
  OBVIOUS
<1>1. i \in Nat /\ d1 \in BOOLEAN /\ d2 \in BOOLEAN
  BY DEF Writer!Init
<1>2. /\ state = "S1" /\ cnt = 2 /\ BUSY = TRUE /\ i2cStart = FALSE /\ mstate = "StWaitStart"
      /\ core = "StReady" /\ busy = TRUE /\ phase = 0 /\ cur = <<>> /\ wire = <<>>
  BY DEF Writer!Init
<1> QED BY <1>1, <1>2, QuietAfterReset

LEMMA ResetWriter ==
  ASSUME MapInv, Writer!Reset
  PROVE  MapInv'
<1>1. i' \in Nat /\ d1' \in BOOLEAN /\ d2' \in BOOLEAN
  BY DEF Writer!Reset, MapInv, WriterTypes
<1>2. /\ state' = "S1" /\ cnt' = 2 /\ BUSY' = TRUE /\ i2cStart' = FALSE /\ mstate' = "StWaitStart"
      /\ core' = "StReady" /\ busy' = TRUE /\ phase' = 0 /\ cur' = <<>> /\ wire' = <<>>
  BY DEF Writer!Reset
<1>3. phase' \in 0 .. DataClk - 1 /\ cnt' \in Nat /\ 0 <= Len(Regmap)
  BY <1>2, WriterConstants, SMT
<1>4. wire' \in Seq(Seq(Int)) /\ Len(wire') = 0
  BY <1>2
<1>5. WriterTypes'
  BY <1>1, <1>2, <1>3, <1>4 DEF WriterTypes
<1>6. Settled' /\ AtEntry'
  BY <1>2, SMT DEF Settled, AtEntry
<1>7. WireSoFar'
  BY <1>3, <1>4, SMT DEF WireSoFar
<1>8. Quiet'
  BY <1>2, <1>4, SMT DEF Quiet
<1> QED BY <1>5, <1>6, <1>7, <1>8 DEF MapInv

(* A clock: the phase, and the edges of BUSY as the master sees them.      *)
LEMMA WriterPhase ==
  ASSUME WriterTypes, Writer!Clock
  PROVE  phase' = IF phase = DataClk - 1 THEN 0 ELSE phase + 1
<1>1. phase' = (phase + 1) % DataClk
  BY DEF Writer!Clock
<1>2. phase \in Nat /\ phase <= DataClk - 1 /\ DataClk \in Nat /\ DataClk >= 5
  BY WriterConstants, SMT DEF WriterTypes
<1>3. CASE phase = DataClk - 1
  <2>1. DataClk % DataClk = 0
    BY <1>2, SMT
  <2>2. phase + 1 = DataClk
    BY <1>2, <1>3, SMT
  <2> QED BY <1>1, <1>3, <2>1, <2>2
<1>4. CASE phase < DataClk - 1
  BY <1>1, <1>2, <1>4, SMT
<1> QED BY <1>2, <1>3, <1>4, SMT

LEMMA BusKept ==
  ASSUME Writer!Clock, Writer!Starting \/ phase # DataClk - 1
  PROVE  /\ UNCHANGED <<core, writerAddr, data_tx, cur, busy>>
         /\ wire' = IF Writer!Starting THEN <<>> ELSE wire
  BY DEF Writer!Clock

LEMMA SettledKept ==
  ASSUME WriterTypes, Settled, Writer!Clock
  PROVE  Settled' /\ phase' \in 0 .. DataClk - 1
<1>1. phase \in Nat /\ phase <= DataClk - 1 /\ DataClk \in Nat /\ DataClk >= 5
  BY WriterConstants, SMT DEF WriterTypes
<1>2. phase' = 0 \/ (phase # DataClk - 1 /\ phase' = phase + 1)
  BY WriterPhase
<1>3. phase' \in 0 .. DataClk - 1
  BY <1>1, <1>2, SMT
<1>4. d1' = busy /\ d2' = d1
  BY DEF Writer!Clock, Writer!busy_counter
<1>5. CASE phase' = 0
  BY <1>3, <1>5, SMT DEF Settled
<1>6. CASE phase # DataClk - 1 /\ phase' = phase + 1
  <2>1. busy' = busy
    BY <1>6, BusKept
  <2>2. phase' >= 2 => phase >= 1
    BY <1>1, <1>6, SMT
  <2> QED BY <1>3, <1>4, <2>1, <2>2, Zenon DEF Settled
<1> QED BY <1>2, <1>3, <1>5, <1>6

(* Clocks on which nothing is under way.                                   *)
LEMMA QuietMaster ==
  ASSUME Writer!Clock, mstate = "StWaitStart"
  PROVE  /\ ~enable' /\ sBusyCnt' = 0 /\ (i2cBusy' <=> i2cStart) /\ d1' = busy /\ d2' = d1
         /\ mstate' = IF ~i2cStart THEN mstate ELSE IF i2cMode = 0 THEN "StWr1" ELSE "StWr2"
<1>1. Writer!WaitStart
  BY DEF Writer!Clock, Writer!state_machine, Writer!Write
<1> QED BY <1>1 DEF Writer!WaitStart, Writer!Clock, Writer!busy_counter

LEMMA QuietBus ==
  ASSUME Writer!Clock, WriterTypes, Quiet
  PROVE  /\ core' = "StReady" /\ cur' = <<>> /\ wire' = (IF Writer!Starting THEN <<>> ELSE wire)
         /\ busy' <=> (busy /\ (phase # DataClk - 1 \/ Writer!Starting))
         /\ busy' \in BOOLEAN
<1>1. mstate = "StWaitStart" /\ core = "StReady" /\ cur = <<>>
  BY DEF Quiet
<1>2. CASE Writer!Starting \/ phase # DataClk - 1
  BY <1>1, <1>2, BusKept DEF WriterTypes
<1>3. CASE ~Writer!Starting /\ phase = DataClk - 1
  <2>1. Writer!data_clk
    BY <1>3 DEF Writer!Clock
  <2>2. busy' = FALSE /\ UNCHANGED <<core, cur, wire>>
    BY <1>1, <2>1, QuietMaster DEF Writer!data_clk
  <2> QED BY <1>1, <1>3, <2>2
<1> QED BY <1>2, <1>3

LEMMA QuietTypes ==
  ASSUME Writer!Clock, MapInv, Quiet, state' \in {"S0", "S1", "S2", "S3", "S4", "S5"}, cnt' \in Nat, i' \in Nat,
         i2cStart' <=> state' = "S5", state' # "S0" => BUSY'
  PROVE  WriterTypes' /\ Settled' /\ WireSoFar'
<1>1. WriterTypes /\ Settled /\ WireSoFar
  BY DEF MapInv
<1>2. d1' \in BOOLEAN /\ d2' \in BOOLEAN
  BY <1>1, QuietMaster DEF Quiet, WriterTypes
<1>3. wire' \in {wire, <<>>} /\ busy' \in BOOLEAN
  BY <1>1, QuietBus
<1>4. wire' \in Seq(Seq(Int)) /\ Len(wire') \in {0, Len(wire)}
  <2>1. <<>> \in Seq(Seq(Int)) /\ Len(<<>>) = 0
    OBVIOUS
  <2>2. wire \in Seq(Seq(Int))
    BY <1>1 DEF WriterTypes
  <2> QED BY <1>3, <2>1, <2>2
<1>5. WireSoFar'
  BY <1>1, <1>3, WriterConstants, SMT DEF WireSoFar
<1> QED BY <1>1, <1>2, <1>3, <1>4, <1>5, SettledKept DEF WriterTypes

(* Outside S1 nothing moves on the bus and BUSY is seen to be FALSE. *)
LEMMA QuietStays ==
  ASSUME Writer!Clock, WriterTypes, Quiet, state # "S1"
  PROVE  ~busy' /\ ~d1' /\ ~busy
<1>1. ~busy
  BY DEF Quiet
<1> QED BY <1>1, QuietBus, QuietMaster DEF Quiet

LEMMA QuietS0 ==
  ASSUME Writer!Clock, MapInv, Quiet, Writer!S0
  PROVE  MapInv'
<1>1. WriterTypes
  BY DEF MapInv
<1>2. /\ state = "S0" /\ cnt' = 2 /\ state' = (IF BUSY' THEN "S1" ELSE "S0") /\ i2cStart' = FALSE /\ i' = i
  BY DEF Writer!S0
<1>3. WriterTypes' /\ Settled' /\ WireSoFar'
  <2>1. cnt' \in Nat
    BY <1>2, SMT
  <2>2. i' \in Nat /\ (i2cStart' <=> state' = "S5") /\ (state' # "S0" => BUSY')
    BY <1>1, <1>2 DEF WriterTypes
  <2> QED BY <1>2, <2>1, <2>2, QuietTypes
<1>4. AtEntry'
  BY <1>2 DEF AtEntry
<1>5. mstate' = "StWaitStart"
  BY <1>1, <1>2, QuietMaster DEF Quiet, WriterTypes
<1>6. wire' = IF state' = "S1" THEN <<>> ELSE wire
  BY <1>1, <1>2, QuietBus DEF Writer!Starting
<1>7. Len(wire') = IF state' = "S1" THEN 0 ELSE Len(Regmap)
  BY <1>2, <1>6 DEF Quiet
<1>8. Quiet'
  BY <1>1, <1>2, <1>5, <1>7, QuietBus, QuietStays DEF Quiet
<1> QED BY <1>3, <1>4, <1>8 DEF MapInv

(* S1 outlasts the first period of data_clk. *)
LEMMA QuietS1 ==
  ASSUME Writer!Clock, MapInv, Quiet, Writer!S1
  PROVE  MapInv'
<1>1. WriterTypes
  BY DEF MapInv
<1>2. /\ state = "S1" /\ cnt' = cnt + 1 /\ state' = (IF cnt + 1 > START_DELAY_CYCLE THEN "S2" ELSE "S1")
      /\ i2cStart' = FALSE /\ i' = i /\ BUSY' = TRUE
  BY DEF Writer!S1, Writer!Waits
<1>3. WriterTypes' /\ Settled' /\ WireSoFar'
  <2>1. cnt' \in Nat
    BY <1>1, <1>2, SMT DEF WriterTypes
  <2>2. i' \in Nat /\ (i2cStart' <=> state' = "S5") /\ (state' # "S0" => BUSY')
    BY <1>1, <1>2 DEF WriterTypes
  <2> QED BY <1>2, <2>1, <2>2, QuietTypes
<1>4. AtEntry'
  BY <1>2 DEF AtEntry
<1>5. mstate' = "StWaitStart" /\ d1' = busy
  BY <1>1, <1>2, QuietMaster DEF Quiet, WriterTypes
<1>6. wire' = wire /\ Len(wire') = 0
  BY <1>1, <1>2, QuietBus DEF Writer!Starting, Quiet
<1>7. phase \in Nat /\ phase <= DataClk - 1 /\ cnt \in Nat
  BY <1>1, WriterConstants, SMT DEF WriterTypes
<1>8. busy' <=> (busy /\ phase # DataClk - 1)
  BY <1>1, <1>2, QuietBus DEF Writer!Starting
<1>9. busy' => state' = "S1" /\ cnt' = phase' + 2
  <2> HAVE busy'
  <2>1. cnt = phase + 2 /\ phase # DataClk - 1
    BY <1>8 DEF Quiet
  <2>2. phase' = phase + 1
    BY <1>1, <2>1, WriterPhase
  <2> QED BY <1>2, <1>7, <2>1, <2>2, WriterConstants, SMT
<1>10. ~busy' /\ d1' => state' = "S1" /\ cnt' = DataClk + 2
  <2> HAVE ~busy' /\ d1'
  <2>1. cnt = phase + 2 /\ phase = DataClk - 1
    BY <1>5, <1>8 DEF Quiet
  <2> QED BY <1>2, <1>7, <2>1, WriterConstants, SMT
<1>11. Quiet'
  BY <1>1, <1>2, <1>5, <1>6, <1>9, <1>10, QuietBus DEF Quiet
<1> QED BY <1>3, <1>4, <1>11 DEF MapInv

LEMMA QuietS2S3 ==
  ASSUME Writer!Clock, MapInv, Quiet, Writer!S2 \/ Writer!S3
  PROVE  MapInv'
<1>1. WriterTypes
  BY DEF MapInv
<1>2. /\ state \in {"S2", "S3"} /\ cnt' = cnt + 1 /\ state' \in {"S2", "S3", "S4"} /\ i2cStart' = FALSE
      /\ BUSY' = BUSY /\ i' \in {i, 0} /\ (state' = "S4" => i' = 0 /\ addrval' = Writer!Entry(0))
  <2>1. CASE Writer!S2
    BY <2>1 DEF Writer!S2, Writer!Waits
  <2>2. CASE Writer!S3
    BY <2>2 DEF Writer!S3, Writer!Waits
  <2> QED BY <2>1, <2>2
<1>3. WriterTypes' /\ Settled' /\ WireSoFar'
  <2>1. cnt' \in Nat /\ i' \in Nat
    BY <1>1, <1>2, SMT DEF WriterTypes
  <2>2. (i2cStart' <=> state' = "S5") /\ (state' # "S0" => BUSY')
    BY <1>1, <1>2 DEF WriterTypes
  <2> QED BY <1>2, <2>1, <2>2, QuietTypes
<1>4. AtEntry'
  BY <1>2, WriterConstants, SMT DEF AtEntry
<1>5. mstate' = "StWaitStart"
  BY <1>1, <1>2, QuietMaster DEF Quiet, WriterTypes
<1>6. wire' = wire /\ Len(wire') = 0
  BY <1>1, <1>2, QuietBus DEF Writer!Starting, Quiet
<1>7. Quiet'
  BY <1>1, <1>2, <1>5, <1>6, QuietBus, QuietStays DEF Quiet
<1> QED BY <1>3, <1>4, <1>7 DEF MapInv

(* S4 starts the entry that is next, or finds the end of the map. *)
LEMMA QuietS4 ==
  ASSUME Writer!Clock, MapInv, Quiet, Writer!S4
  PROVE  MapInv'
<1>1. WriterTypes /\ AtEntry
  BY DEF MapInv
<1>2. state = "S4" /\ cnt' = cnt /\ i' = i /\ addrval' = addrval /\ BUSY' = BUSY
  BY DEF Writer!S4
<1>3. i \in Nat /\ i <= Len(Regmap) /\ addrval = Writer!Entry(i)
  BY <1>1, <1>2 DEF AtEntry, WriterTypes
<1>4. \/ state' = "S4" /\ ~i2cStart'
      \/ addrval.addr < 0 /\ state' = "S0" /\ ~i2cStart'
      \/ ~(addrval.addr < 0) /\ state' = "S5" /\ i2cStart' = (addrval.addr >= 0) /\ Held(addrval)'
  <2>1. CASE i2cBusy
    BY <1>2, <2>1 DEF Writer!S4
  <2>2. CASE ~i2cBusy
    <3>1. /\ i2cSlAddr' = addrval.addr /\ i2cRegAddr' = addrval.reg /\ i2cRegVal' = addrval.val
          /\ i2cMode' = (IF addrval.val < 0 THEN 0 ELSE 1) /\ i2cStart' = (addrval.addr >= 0)
          /\ state' = (IF addrval.addr < 0 THEN "S0" ELSE "S5")
      BY <2>2 DEF Writer!S4
    <3>2. addrval.addr \in Int
      BY <1>3, EntryFacts, WriterConstants, SMT
    <3>3. CASE addrval.addr < 0
      <4>1. ~(addrval.addr >= 0)
        BY <3>2, <3>3, SMT
      <4> QED BY <3>1, <3>3, <4>1, Zenon
    <3>4. CASE ~(addrval.addr < 0)
      BY <1>2, <3>1, <3>4 DEF Held
    <3> QED BY <3>3, <3>4
  <2> QED BY <2>1, <2>2
<1>5. addrval.addr < 0 => i = Len(Regmap)
  BY <1>3, EntryFacts, WriterConstants, SMT
<1>6. ~(addrval.addr < 0) => i < Len(Regmap) /\ addrval.addr >= 0
  BY <1>3, EntryFacts, WriterConstants, SMT
<1>7. WriterTypes' /\ Settled' /\ WireSoFar'
  <2>1. cnt' \in Nat /\ i' \in Nat /\ (i2cStart' <=> state' = "S5") /\ (state' # "S0" => BUSY')
    BY <1>1, <1>2, <1>4, <1>6 DEF WriterTypes
  <2> QED BY <1>2, <1>4, <2>1, QuietTypes
<1>8. AtEntry'
  BY <1>2, <1>3 DEF AtEntry
<1>9. mstate' = "StWaitStart"
  BY <1>1, <1>2, QuietMaster DEF Quiet, WriterTypes
<1>10. wire' = wire /\ Len(wire') = i
  BY <1>1, <1>2, QuietBus DEF Writer!Starting, Quiet
<1>11. state' = "S5" => i' < Len(Regmap) /\ Held(Writer!Entry(i))'
  BY <1>2, <1>3, <1>4, <1>6 DEF Held
<1>12. Quiet'
  BY <1>1, <1>2, <1>4, <1>5, <1>9, <1>10, <1>11, QuietBus, QuietStays DEF Quiet, Held
<1> QED BY <1>7, <1>8, <1>12 DEF MapInv

(* S5 passes on to the next entry while the master takes up this one. *)
LEMMA QuietS5 ==
  ASSUME Writer!Clock, MapInv, Quiet, Writer!S5
  PROVE  MapInv'
<1>1. WriterTypes /\ AtEntry
  BY DEF MapInv
<1>2. /\ state = "S5" /\ state' = "S4" /\ i' = i + 1 /\ addrval' = Writer!Entry(i + 1)
      /\ i2cStart' = FALSE /\ cnt' = cnt /\ BUSY' = BUSY
      /\ i2cSlAddr' = i2cSlAddr /\ i2cRegAddr' = i2cRegAddr /\ i2cRegVal' = i2cRegVal /\ i2cMode' = i2cMode
  BY DEF Writer!S5
<1>3. i \in Nat /\ i < Len(Regmap) /\ Held(Writer!Entry(i)) /\ Len(wire) = i /\ i2cStart
  BY <1>1, <1>2 DEF Quiet, WriterTypes
<1>4. i' \in Nat /\ i' >= 1 /\ i' <= Len(Regmap) /\ i' - 1 = i
  BY <1>2, <1>3, WriterConstants, SMT
<1>5. WriterTypes' /\ Settled' /\ WireSoFar'
  <2>1. cnt' \in Nat /\ (i2cStart' <=> state' = "S5") /\ (state' # "S0" => BUSY')
    BY <1>1, <1>2 DEF WriterTypes
  <2> QED BY <1>2, <1>4, <2>1, QuietTypes
<1>6. AtEntry'
  BY <1>2, <1>4 DEF AtEntry
<1>7. i2cBusy' /\ Master' /\ sBusyCnt' = 0
  BY <1>2, <1>3, QuietMaster DEF Quiet, Master
<1>8. Held(Regmap[i])'
  <2>1. Writer!Entry(i) = Regmap[i']
    BY <1>2, <1>3, EntryFacts
  <2> QED BY <1>2, <1>3, <2>1 DEF Held
<1>9. Ahead'
  BY <1>1, <1>2, <1>3, <1>4, <1>7, QuietBus, QuietStays DEF Ahead, Writer!Starting
<1>10. Writing'
  BY <1>2, <1>4, <1>7, <1>8, <1>9 DEF Writing
<1> QED BY <1>5, <1>6, <1>10 DEF MapInv

LEMMA QuietClock ==
  ASSUME Writer!Clock, MapInv, Quiet
  PROVE  MapInv'
BY QuietS0, QuietS1, QuietS2S3, QuietS4, QuietS5 DEF Writer!Clock, Writer!write_regmap

(* Clocks of a transaction.  The writer waits in S4.                       *)
LEMMA WritingRegs ==
  ASSUME Writer!Clock, Writing
  PROVE  /\ UNCHANGED <<state, cnt, i, addrval, BUSY, i2cSlAddr, i2cRegAddr, i2cRegVal, i2cMode>>
         /\ ~i2cStart' /\ ~Writer!Starting
<1>1. state = "S4" /\ i2cBusy
  BY DEF Writing
<1>2. Writer!S4
  BY <1>1 DEF Writer!Clock, Writer!write_regmap, Writer!S0, Writer!S1, Writer!S2, Writer!S3, Writer!S5, Writer!Waits
<1> QED BY <1>1, <1>2 DEF Writer!S4, Writer!Starting

LEMMA WritingCount ==
  ASSUME Writing
  PROVE  /\ Bytes \in {1, 2} /\ sBusyCnt \in 0 .. Bytes
         /\ sBusyCnt = Bytes /\ ~busy => Behind
<1>1. Bytes \in {1, 2}
  BY DEF Bytes
<1>2. \A e \in 1 .. Bytes, up \in BOOLEAN : Edges(e, up) => sBusyCnt \in 0 .. Bytes
  BY <1>1, SMT DEF Edges
<1>3. \A e \in 1 .. Bytes : Edges(e, TRUE) => busy
  BY DEF Edges
<1>4. \A b \in 1 .. Bytes : Edges(1, b = 1) /\ sBusyCnt = Bytes => busy
  BY <1>1, SMT DEF Edges
<1>5. 1 \in 1 .. Bytes /\ Bytes \in 1 .. Bytes /\ 0 \in 0 .. Bytes /\ 0 # Bytes
  BY <1>1, SMT
<1>6. CASE Ahead \/ Behind
  BY <1>1, <1>5, <1>6 DEF Ahead, Behind
<1>7. CASE AtAddress \/ AtAck1 \/ AtStop
  BY <1>1, <1>2, <1>3, <1>5, <1>7 DEF AtAddress, AtAck1, AtStop, UnderWay
<1>8. CASE \E b \in 1 .. Bytes : AtWr(b) \/ AtWrEnd(b) \/ AtAck2(b)
  <2>1. PICK b \in 1 .. Bytes : AtWr(b) \/ AtWrEnd(b) \/ AtAck2(b)
    BY <1>8
  <2>2. CASE AtWr(b)
    BY <1>1, <1>2, <1>4, <1>5, <2>2 DEF AtWr, UnderWay
  <2>3. CASE AtWrEnd(b) \/ AtAck2(b)
    BY <1>1, <1>2, <1>3, <2>3 DEF AtWrEnd, AtAck2, UnderWay
  <2> QED BY <2>1, <2>2, <2>3
<1> QED BY <1>6, <1>7, <1>8 DEF Writing, OnBus

LEMMA WritingMaster ==
  ASSUME Writer!Clock, Writing
  PROVE  /\ i2cBusy' = TRUE /\ d1' = busy /\ d2' = d1
         /\ sBusyCnt' = IF d1 /\ ~d2 THEN (sBusyCnt + 1) % 8 ELSE sBusyCnt
         /\ sBusyCnt < Bytes => enable' = TRUE /\ data_wr' = Byte(sBusyCnt + 1) /\ mstate' = mstate
         /\ sBusyCnt = Bytes => enable' = FALSE /\ mstate' = IF busy THEN mstate ELSE "StWaitStart"
<1>1. mstate \in {"StWr1", "StWr2"}
  BY DEF Writing, Master
<1>2. /\ d1' = busy /\ d2' = d1
      /\ sBusyCnt' = IF d1 /\ ~d2 THEN (sBusyCnt + 1) % 8 ELSE sBusyCnt
  BY <1>1 DEF Writer!Clock, Writer!busy_counter
<1> DEFINE bytes == IF mstate = "StWr1" THEN <<i2cRegAddr>> ELSE <<i2cRegAddr, i2cRegVal>>
<1>3. Writer!Write(mstate, bytes)
  <2>1. CASE mstate = "StWr1"
    <3>1. Writer!Write("StWr1", <<i2cRegAddr>>)
      BY <2>1 DEF Writer!Clock, Writer!state_machine, Writer!WaitStart, Writer!Write
    <3> QED BY <2>1, <3>1
  <2>2. CASE mstate = "StWr2"
    <3>1. Writer!Write("StWr2", <<i2cRegAddr, i2cRegVal>>)
      BY <2>2 DEF Writer!Clock, Writer!state_machine, Writer!WaitStart, Writer!Write
    <3> QED BY <2>2, <3>1
  <2> QED BY <1>1, <2>1, <2>2
<1>4. Len(bytes) = Bytes /\ \A k \in 1 .. Bytes : bytes[k] = Byte(k)
  BY SMT DEF Bytes, Byte
<1>5. Bytes \in {1, 2} /\ sBusyCnt \in 0 .. Bytes
  BY WritingCount
<1>6. sBusyCnt < Bytes => sBusyCnt + 1 \in 1 .. Bytes
  BY <1>5, SMT
<1> HIDE DEF bytes
<1>7. Len(bytes) \in {1, 2} /\ sBusyCnt \in 0 .. Len(bytes)
  BY <1>4, <1>5
<1>8. i2cBusy' = TRUE
  BY <1>3 DEF Writer!Write
<1>9. sBusyCnt < Bytes => enable' = TRUE /\ data_wr' = Byte(sBusyCnt + 1) /\ mstate' = mstate
  <2> HAVE sBusyCnt < Bytes
  <2>1. sBusyCnt < Len(bytes) /\ ~(sBusyCnt = Len(bytes)) /\ ~(sBusyCnt > Len(bytes))
    BY <1>4, <1>7, SMT
  <2>2. enable' = TRUE /\ data_wr' = bytes[sBusyCnt + 1] /\ UNCHANGED mstate
    BY <1>3, <2>1, Zenon DEF Writer!Write
  <2> QED BY <1>4, <1>6, <2>2
<1>10. sBusyCnt = Bytes => enable' = FALSE /\ mstate' = IF busy THEN mstate ELSE "StWaitStart"
  <2> HAVE sBusyCnt = Bytes
  <2>1. sBusyCnt = Len(bytes) /\ ~(sBusyCnt < Len(bytes)) /\ ~(sBusyCnt > Len(bytes))
    BY <1>4, <1>7, SMT
  <2> QED BY <1>3, <2>1, Zenon DEF Writer!Write
<1> QED BY <1>2, <1>8, <1>9, <1>10

(* A transaction goes on with the same entry while the master stays.       *)
LEMMA WritingSame ==
  ASSUME Writer!Clock, MapInv, Writing, mstate' = mstate
  PROVE  /\ state' = "S4" /\ i2cBusy' /\ i' = i /\ i' >= 1 /\ Held(Regmap[i])' /\ Master' /\ AtEntry'
         /\ Bytes' = Bytes /\ (\A b : Byte(b)' = Byte(b)) /\ (\A n : Said(n)' = Said(n))
         /\ i2cSlAddr' = i2cSlAddr
<1>1. /\ UNCHANGED <<state, cnt, i, addrval, BUSY, i2cSlAddr, i2cRegAddr, i2cRegVal, i2cMode>> /\ i2cBusy' = TRUE
  BY WritingRegs, WritingMaster
<1> QED BY <1>1 DEF Writing, Held, Master, Bytes, Byte, Said, AtEntry, MapInv

LEMMA WritingTypes ==
  ASSUME Writer!Clock, MapInv, Writing, busy' \in BOOLEAN, wire' \in Seq(Seq(Int))
  PROVE  WriterTypes' /\ Settled' /\ AtEntry'
<1>1. WriterTypes /\ Settled /\ AtEntry
  BY DEF MapInv
<1>2. UNCHANGED <<state, cnt, i, addrval, BUSY>> /\ ~i2cStart' /\ state = "S4" /\ d1' = busy /\ d2' = d1
  BY WritingRegs, WritingMaster DEF Writing
<1>3. Settled' /\ phase' \in 0 .. DataClk - 1
  BY <1>1, SettledKept
<1>4. WriterTypes'
  BY <1>1, <1>2, <1>3 DEF WriterTypes
<1> QED BY <1>1, <1>2, <1>3, <1>4 DEF AtEntry

(* Between two rising edges of data_clk the master sees the last edge of   *)
(* BUSY.                                                                   *)
LEMMA EdgesSeen ==
  ASSUME Writer!Clock, WriterTypes, Settled, Writing, phase # DataClk - 1, NEW e \in {1, 2}, NEW up, Edges(e, up)
  PROVE  (busy' <=> up) /\ sBusyCnt' = (IF busy' /\ ~d2' THEN e - 1 ELSE e) /\ phase' # 0
<1>1. busy' = busy /\ d1' = busy /\ d2' = d1 /\ sBusyCnt' = (IF d1 /\ ~d2 THEN (sBusyCnt + 1) % 8 ELSE sBusyCnt)
  BY BusKept, WritingMaster
<1>2. phase' = phase + 1 /\ phase \in Nat
  BY WriterPhase, WriterConstants, SMT DEF WriterTypes
<1>3. busy' <=> up
  BY <1>1 DEF Edges
<1>4. CASE phase = 0
  <2>1. d1 <=> d2
    BY <1>4 DEF Edges
  <2>2. sBusyCnt' = sBusyCnt /\ (d2' <=> d2)
    BY <1>1, <2>1
  <2> QED BY <1>1, <1>2, <1>3, <2>2, SMT DEF Edges
<1>5. CASE phase # 0
  <2>1. d1 <=> busy
    BY <1>2, <1>5, SMT DEF Settled
  <2>2. CASE busy /\ ~d2
    <3>1. sBusyCnt = e - 1 /\ (e - 1 + 1) % 8 = e
      BY <2>2, SMT DEF Edges
    <3>2. sBusyCnt' = e /\ d2'
      BY <1>1, <2>1, <2>2, <3>1
    <3> QED BY <1>2, <1>3, <3>2, SMT
  <2>3. CASE busy /\ d2
    <3>1. sBusyCnt = e /\ sBusyCnt' = sBusyCnt /\ d2'
      BY <1>1, <2>1, <2>3 DEF Edges
    <3> QED BY <1>2, <1>3, <3>1, SMT
  <2>4. CASE ~busy
    <3>1. sBusyCnt = e /\ sBusyCnt' = sBusyCnt /\ ~busy'
      BY <1>1, <2>1, <2>4 DEF Edges
    <3> QED BY <1>2, <1>3, <3>1, SMT
  <2> QED BY <2>2, <2>3, <2>4
<1> QED BY <1>4, <1>5

(* A clock that data_clk does not rise on. *)
LEMMA BusKeeps ==
  ASSUME Writer!Clock, MapInv, Writing, phase # DataClk - 1, ~Behind
  PROVE  MapInv'
<1>1. WriterTypes /\ Settled /\ WireSoFar
  BY DEF MapInv
<1>2. /\ core' = core /\ writerAddr' = writerAddr /\ data_tx' = data_tx /\ cur' = cur /\ busy' = busy
      /\ wire' = wire
  BY BusKept, WritingRegs
<1>3. Bytes \in {1, 2} /\ sBusyCnt \in 0 .. Bytes /\ (sBusyCnt = Bytes => busy)
  BY WritingCount
<1>4. mstate' = mstate /\ d1' = busy /\ d2' = d1
  <2>1. sBusyCnt < Bytes \/ (sBusyCnt = Bytes /\ busy)
    BY <1>3, SMT
  <2> QED BY <2>1, WritingMaster
<1>5. /\ state' = "S4" /\ i2cBusy' /\ i' = i /\ i' >= 1 /\ Held(Regmap[i])' /\ Master'
      /\ Bytes' = Bytes /\ (\A b : Byte(b)' = Byte(b)) /\ (\A n : Said(n)' = Said(n)) /\ i2cSlAddr' = i2cSlAddr
  BY <1>4, WritingSame
<1>6. WriterTypes' /\ Settled' /\ AtEntry'
  BY <1>1, <1>2, WritingTypes DEF WriterTypes
<1>7. WireSoFar'
  BY <1>1, <1>2 DEF WireSoFar
<1>8. \A b : \A e \in {1, 2} : \A up : UnderWay(b, e, up) => UnderWay(b, e, up)'
  <2>1. SUFFICES ASSUME NEW b, NEW e \in {1, 2}, NEW up, UnderWay(b, e, up) PROVE UnderWay(b, e, up)'
    BY Zenon
  <2>2. (busy' <=> up) /\ sBusyCnt' = (IF busy' /\ ~d2' THEN e - 1 ELSE e) /\ phase' # 0
    BY <1>1, <2>1, EdgesSeen DEF UnderWay
  <2> QED BY <1>2, <1>5, <2>1, <2>2 DEF UnderWay, Edges
<1>9. CASE Ahead
  <2>1. sBusyCnt' = 0
    BY <1>9, WritingMaster DEF Ahead
  <2> QED BY <1>2, <1>4, <1>5, <1>6, <1>7, <1>9, <2>1 DEF Ahead, Writing, MapInv
<1>10. CASE OnBus
  <2>1. 1 \in {1, 2} /\ Bytes \in {1, 2} /\ \A b \in 1 .. Bytes : b \in {1, 2}
    BY <1>3, SMT
  <2>2. OnBus'
    <3>1. AtAddress => AtAddress'
      BY <1>2, <1>5, <1>8, <2>1 DEF AtAddress
    <3>2. AtAck1 => AtAck1'
      BY <1>2, <1>5, <1>8, <2>1 DEF AtAck1
    <3>3. AtStop => AtStop'
      BY <1>2, <1>5, <1>8, <2>1 DEF AtStop
    <3>4. ASSUME NEW b \in 1 .. Bytes, AtWr(b) \/ AtWrEnd(b) \/ AtAck2(b) PROVE OnBus'
      <4>1. (AtWr(b) \/ AtWrEnd(b) \/ AtAck2(b))'
        BY <1>2, <1>5, <1>8, <2>1, <3>4 DEF AtWr, AtWrEnd, AtAck2
      <4> QED BY <1>5, <4>1 DEF OnBus
    <3>5. (AtAddress \/ AtAck1 \/ AtStop)' => OnBus'
      BY DEF OnBus
    <3> QED BY <1>10, <3>1, <3>2, <3>3, <3>4, <3>5 DEF OnBus
  <2> QED BY <1>5, <1>6, <1>7, <2>2 DEF Writing, MapInv
<1> QED BY <1>9, <1>10 DEF Writing

(* The transaction is over and the master finds BUSY FALSE. *)
LEMMA BehindClock ==
  ASSUME Writer!Clock, MapInv, Writing, Behind
  PROVE  MapInv'
<1>1. WriterTypes /\ Settled /\ WireSoFar
  BY DEF MapInv
<1>2. phase = 0 /\ phase # DataClk - 1
  BY WriterConstants, SMT DEF Behind
<1>3. core' = core /\ cur' = cur /\ busy' = busy /\ wire' = wire
  BY <1>2, BusKept, WritingRegs
<1>4. mstate' = "StWaitStart" /\ d1' = busy /\ state' = "S4" /\ i' = i
  BY WritingMaster, WritingRegs DEF Behind, Writing
<1>5. WriterTypes' /\ Settled' /\ AtEntry'
  BY <1>1, <1>3, WritingTypes DEF WriterTypes
<1>6. WireSoFar'
  BY <1>1, <1>3 DEF WireSoFar
<1>7. Quiet'
  BY <1>3, <1>4 DEF Quiet, Behind
<1> QED BY <1>5, <1>6, <1>7 DEF MapInv

(* A rising edge of data_clk: BUSY has been seen for long. *)
LEMMA EdgeOfDataClk ==
  ASSUME Writer!Clock, MapInv, Writing, phase = DataClk - 1
  PROVE  /\ Writer!data_clk /\ phase' = 0 /\ phase' # DataClk - 1 /\ d1' = busy /\ (d2' <=> busy) /\ d2' \in BOOLEAN
         /\ (d1 <=> busy) /\ sBusyCnt' = sBusyCnt
         /\ \A e, up : Edges(e, up) => (busy <=> up) /\ sBusyCnt = e
<1>1. WriterTypes /\ Settled
  BY DEF MapInv
<1>2. Writer!data_clk
  BY WritingRegs DEF Writer!Clock
<1>3. phase' = 0 /\ phase' # DataClk - 1 /\ phase >= 2 /\ phase >= 1
  BY <1>1, WriterPhase, WriterConstants, SMT
<1>4. (d1 <=> busy) /\ (d2 <=> busy)
  BY <1>1, <1>3 DEF Settled
<1>5. d1' = busy /\ d2' = d1 /\ sBusyCnt' = sBusyCnt
  BY <1>4, WritingMaster
<1> QED BY <1>1, <1>2, <1>3, <1>4, <1>5 DEF Edges, WriterTypes

LEMMA AheadEdge ==
  ASSUME Writer!Clock, MapInv, Writing, phase = DataClk - 1, Ahead
  PROVE  MapInv'
<1>1. WriterTypes /\ Settled /\ WireSoFar
  BY DEF MapInv
<1>2. /\ core = "StReady" /\ cur = <<>> /\ ~busy /\ ~d1 /\ sBusyCnt = 0 /\ Len(wire) = i - 1
  BY DEF Ahead
<1>3. Bytes \in {1, 2} /\ 0 < Bytes /\ 0 + 1 = 1
  BY WritingCount, SMT
<1>4. enable' = TRUE /\ data_wr' = Byte(1) /\ mstate' = mstate
  BY <1>2, <1>3, WritingMaster
<1>5. /\ state' = "S4" /\ i2cBusy' /\ i' = i /\ i' >= 1 /\ Held(Regmap[i])' /\ Master'
      /\ Bytes' = Bytes /\ (\A b : Byte(b)' = Byte(b)) /\ i2cSlAddr' = i2cSlAddr
  BY <1>4, WritingSame
<1>6. /\ core' = "StStart" /\ busy' = TRUE /\ writerAddr' = i2cSlAddr' /\ data_tx' = data_wr'
      /\ cur' = cur /\ wire' = wire
  BY <1>2, <1>4, EdgeOfDataClk DEF Writer!data_clk, Writer!Latch
<1>7. WriterTypes' /\ Settled' /\ AtEntry'
  BY <1>1, <1>6, WritingTypes DEF WriterTypes
<1>8. WireSoFar'
  BY <1>1, <1>6 DEF WireSoFar
<1>9. UnderWay(0, 1, TRUE)'
  <2>1. Edges(1, TRUE)'
    BY <1>2, <1>6, EdgeOfDataClk, SMT DEF Edges
  <2>2. Said(0)' = <<>>
    BY SMT DEF Said
  <2> QED BY <1>2, <1>5, <1>6, <2>1, <2>2 DEF UnderWay
<1>10. OnBus'
  BY <1>4, <1>5, <1>6, <1>9 DEF OnBus, AtAddress
<1> QED BY <1>5, <1>7, <1>8, <1>10 DEF Writing, MapInv

(* Edges in a transaction that the master does not end. *)
LEMMA BusEdge ==
  ASSUME Writer!Clock, MapInv, Writing, phase = DataClk - 1, mstate' = mstate,
         busy' \in BOOLEAN, wire' = wire, OnBus'
  PROVE  MapInv'
<1>1. WriterTypes /\ WireSoFar
  BY DEF MapInv
<1>2. /\ state' = "S4" /\ i2cBusy' /\ i' = i /\ i' >= 1 /\ Held(Regmap[i])' /\ Master'
  BY WritingSame
<1>3. WriterTypes' /\ Settled' /\ AtEntry'
  BY <1>1, WritingTypes DEF WriterTypes
<1>4. WireSoFar'
  BY <1>1 DEF WireSoFar
<1> QED BY <1>2, <1>3, <1>4 DEF Writing, MapInv

LEMMA SaidValues ==
  /\ Said(0) = <<>> /\ Said(1) = Append(Said(0), i2cSlAddr)
  /\ \A b \in 1 .. 2 : Said(b + 1) = Append(Said(b), Byte(b))
<1>1. /\ Said(0) = <<>> /\ Said(1) = Append(Said(0), i2cSlAddr)
      /\ Said(2) = Append(Said(1), i2cRegAddr) /\ Said(3) = Append(Said(2), i2cRegVal)
  BY SMT DEF Said
<1>2. Byte(1) = i2cRegAddr /\ Byte(2) = i2cRegVal
  BY DEF Byte
<1>3. \A b \in 1 .. 2 : (b = 1 /\ b + 1 = 2) \/ (b = 2 /\ b + 1 = 3)
  BY SMT
<1> QED BY <1>1, <1>2, <1>3

(* What the master shows to the edge. *)
LEMMA Shown ==
  ASSUME Writer!Clock, MapInv, Writing, phase = DataClk - 1, OnBus
  PROVE  /\ mstate' = mstate /\ Bytes \in {1, 2} /\ sBusyCnt \in 1 .. Bytes
         /\ sBusyCnt < Bytes => enable' = TRUE /\ data_wr' = Byte(sBusyCnt + 1)
         /\ sBusyCnt = Bytes => enable' = FALSE
         /\ Bytes' = Bytes /\ (\A b : Byte(b)' = Byte(b)) /\ (\A n : Said(n)' = Said(n)) /\ i2cSlAddr' = i2cSlAddr
         /\ i' = i
<1>1. Bytes \in {1, 2} /\ sBusyCnt \in 0 .. Bytes /\ (sBusyCnt = Bytes /\ ~busy => Behind)
  BY WritingCount
<1>2. sBusyCnt # 0 /\ ~Behind
  <2>1. ~Behind
    BY EdgeOfDataClk, WriterConstants, SMT DEF Behind
  <2>2. \A e \in 1 .. Bytes : \A up : Edges(e, up) => sBusyCnt # 0
    BY <1>1, EdgeOfDataClk, SMT
  <2>3. 1 \in 1 .. Bytes /\ Bytes \in 1 .. Bytes
    BY <1>1, SMT
  <2>4. CASE AtAddress \/ AtAck1 \/ AtStop
    BY <2>1, <2>2, <2>3, <2>4 DEF AtAddress, AtAck1, AtStop, UnderWay
  <2>5. CASE \E b \in 1 .. Bytes : AtWr(b) \/ AtWrEnd(b) \/ AtAck2(b)
    BY <2>1, <2>2, <2>3, <2>5 DEF AtWr, AtWrEnd, AtAck2, UnderWay
  <2> QED BY <2>1, <2>4, <2>5 DEF OnBus
<1>3. sBusyCnt \in 1 .. Bytes /\ (sBusyCnt < Bytes \/ sBusyCnt = Bytes)
  BY <1>1, <1>2, SMT
<1>4. mstate' = mstate
  BY <1>1, <1>2, <1>3, WritingMaster
<1> QED BY <1>1, <1>3, <1>4, WritingMaster, WritingSame

LEMMA AddressEdge ==
  ASSUME Writer!Clock, MapInv, Writing, phase = DataClk - 1, AtAddress
  PROVE  MapInv'
<1>1. UnderWay(0, 1, TRUE) /\ busy /\ sBusyCnt = 1 /\ cur = <<>> /\ Len(wire) = i - 1
  BY EdgeOfDataClk, SaidValues DEF AtAddress, UnderWay
<1>2. OnBus
  BY DEF OnBus
<1>3. Edges(1, TRUE)' <=> busy'
  BY <1>1, EdgeOfDataClk, SMT DEF Edges
<1>4. CASE core = "StStart"
  <2>1. busy' = TRUE /\ core' = "StCommand" /\ UNCHANGED <<writerAddr, data_tx, cur, wire>>
    BY <1>4, EdgeOfDataClk DEF Writer!data_clk
  <2>2. AtAddress'
    BY <1>1, <1>2, <1>3, <2>1, Shown DEF AtAddress, UnderWay
  <2> QED BY <1>2, <2>1, <2>2, Shown, BusEdge DEF OnBus
<1>5. CASE core = "StCommand"
  <2>1. core' = "StSlv_ack1" /\ cur' = Append(cur, writerAddr) /\ UNCHANGED <<busy, writerAddr, data_tx, wire>>
    BY <1>5, EdgeOfDataClk DEF Writer!data_clk, Writer!Sent
  <2>2. cur' = Said(1)
    BY <1>1, <2>1, SaidValues DEF AtAddress
  <2>3. AtAck1'
    BY <1>1, <1>2, <1>3, <2>1, <2>2, Shown DEF AtAddress, AtAck1, UnderWay
  <2> QED BY <1>1, <1>2, <2>1, <2>3, Shown, BusEdge DEF OnBus, MapInv, WriterTypes
<1> QED BY <1>4, <1>5 DEF AtAddress

LEMMA Ack1Edge ==
  ASSUME Writer!Clock, MapInv, Writing, phase = DataClk - 1, AtAck1
  PROVE  MapInv'
<1>1. UnderWay(1, 1, TRUE) /\ busy /\ sBusyCnt = 1 /\ cur = Said(1) /\ Len(wire) = i - 1 /\ core = "StSlv_ack1"
  BY EdgeOfDataClk DEF AtAck1, UnderWay
<1>2. OnBus
  BY DEF OnBus
<1>3. core' = "StWr" /\ UNCHANGED <<busy, data_tx, cur, wire>>
  BY <1>1, EdgeOfDataClk DEF Writer!data_clk
<1>4. Edges(1, TRUE)'
  BY <1>1, <1>3, EdgeOfDataClk, SMT DEF Edges
<1>5. AtWr(1)'
  BY <1>1, <1>2, <1>3, <1>4, Shown DEF AtAck1, AtWr, UnderWay
<1>6. 1 \in 1 .. Bytes'
  BY <1>2, Shown, SMT
<1> QED BY <1>1, <1>2, <1>3, <1>5, <1>6, Shown, BusEdge DEF OnBus, MapInv, WriterTypes

LEMMA WrEdge ==
  ASSUME Writer!Clock, MapInv, Writing, phase = DataClk - 1, NEW b \in 1 .. Bytes, AtWr(b)
  PROVE  MapInv'
<1>1. /\ cur = Said(b) /\ Edges(1, b = 1) /\ Len(wire) = i - 1 /\ core = "StWr" /\ data_tx = Byte(b)
      /\ (busy <=> b = 1) /\ sBusyCnt = 1
  BY EdgeOfDataClk DEF AtWr, UnderWay
<1>2. OnBus
  BY DEF OnBus
<1>3. core' = "StWrEnd" /\ busy' = TRUE /\ UNCHANGED <<data_tx, cur, wire>>
  BY <1>1, EdgeOfDataClk DEF Writer!data_clk
<1>4. Bytes \in {1, 2} /\ (b = 1 \/ (b = 2 /\ b # 1))
  BY <1>2, Shown, SMT
<1>5. Edges(b, TRUE)'
  <2>1. d1' = busy /\ (d2' <=> busy) /\ sBusyCnt' = 1
    BY <1>1, EdgeOfDataClk
  <2>2. CASE b = 1
    BY <1>1, <1>3, <2>1, <2>2, SMT DEF Edges
  <2>3. CASE b = 2 /\ b # 1
    <3>1. ~d2' /\ b - 1 = 1
      BY <1>1, <2>1, <2>3, SMT
    <3> QED BY <1>1, <1>3, <2>1, <3>1, SMT DEF Edges
  <2> QED BY <1>4, <2>2, <2>3
<1>6. AtWrEnd(b)'
  BY <1>1, <1>2, <1>3, <1>5, Shown DEF AtWrEnd, UnderWay
<1>7. b \in 1 .. Bytes'
  BY <1>2, Shown
<1> QED BY <1>1, <1>2, <1>3, <1>6, <1>7, Shown, BusEdge DEF OnBus

LEMMA WrEndEdge ==
  ASSUME Writer!Clock, MapInv, Writing, phase = DataClk - 1, NEW b \in 1 .. Bytes, AtWrEnd(b)
  PROVE  MapInv'
<1>1. /\ cur = Said(b) /\ Edges(b, TRUE) /\ Len(wire) = i - 1 /\ core = "StWrEnd" /\ data_tx = Byte(b)
      /\ busy /\ sBusyCnt = b
  BY EdgeOfDataClk DEF AtWrEnd, UnderWay
<1>2. OnBus
  BY DEF OnBus
<1>3. core' = "StSlv_ack2" /\ cur' = Append(cur, data_tx) /\ UNCHANGED <<busy, wire>>
  BY <1>1, EdgeOfDataClk DEF Writer!data_clk, Writer!Sent
<1>4. Bytes \in {1, 2} /\ b \in 1 .. 2
  BY <1>2, Shown, SMT
<1>5. Edges(b, TRUE)'
  BY <1>1, <1>3, EdgeOfDataClk, SMT DEF Edges
<1>6. cur' = Said(b + 1)
  BY <1>1, <1>3, <1>4, SaidValues
<1>7. AtAck2(b)'
  BY <1>1, <1>2, <1>3, <1>5, <1>6, Shown DEF AtAck2, UnderWay
<1>8. b \in 1 .. Bytes' /\ busy' \in BOOLEAN
  BY <1>2, <1>3, Shown DEF MapInv, WriterTypes
<1> QED BY <1>1, <1>2, <1>3, <1>7, <1>8, Shown, BusEdge DEF OnBus

(* After a byte the bus goes on with the next one, or stops.               *)
LEMMA Ack2Edge ==
  ASSUME Writer!Clock, MapInv, Writing, phase = DataClk - 1, NEW b \in 1 .. Bytes, AtAck2(b)
  PROVE  MapInv'
<1>1. /\ cur = Said(b + 1) /\ Edges(b, TRUE) /\ Len(wire) = i - 1 /\ core = "StSlv_ack2"
      /\ busy /\ sBusyCnt = b
  BY EdgeOfDataClk DEF AtAck2, UnderWay
<1>2. OnBus
  BY DEF OnBus
<1>3. Bytes \in {1, 2} /\ ((b = 1 /\ b < Bytes /\ b + 1 = 2 /\ b + 1 \in 1 .. Bytes /\ ~(b + 1 = 1)) \/ b = Bytes)
  BY <1>2, Shown, SMT
<1>4. CASE b = 1 /\ b < Bytes /\ b + 1 = 2 /\ b + 1 \in 1 .. Bytes /\ ~(b + 1 = 1)
  <2>1. enable' = TRUE /\ data_wr' = Byte(b + 1)
    BY <1>1, <1>2, <1>4, Shown
  <2>2. core' = "StWr" /\ busy' = FALSE /\ data_tx' = data_wr' /\ UNCHANGED <<cur, wire>>
    BY <1>1, <2>1, EdgeOfDataClk DEF Writer!data_clk, Writer!Latch
  <2>3. sBusyCnt' = 1
    BY <1>1, <1>4, EdgeOfDataClk
  <2>4. Edges(1, b + 1 = 1)'
    BY <1>1, <1>4, <2>2, <2>3, EdgeOfDataClk, SMT DEF Edges
  <2>5. AtWr(b + 1)'
    BY <1>1, <1>2, <2>1, <2>2, <2>4, Shown DEF AtWr, UnderWay
  <2>6. b + 1 \in 1 .. Bytes'
    BY <1>2, <1>4, Shown
  <2> QED BY <1>2, <2>2, <2>5, <2>6, Shown, BusEdge DEF OnBus
<1>5. CASE b = Bytes
  <2>1. enable' = FALSE
    BY <1>1, <1>2, <1>5, Shown
  <2>2. core' = "StStop" /\ UNCHANGED <<busy, cur, wire>>
    BY <1>1, <2>1, EdgeOfDataClk DEF Writer!data_clk
  <2>3. Edges(Bytes, TRUE)'
    <3>1. Edges(b, TRUE)'
      BY <1>1, <2>2, EdgeOfDataClk, SMT DEF Edges
    <3> QED BY <1>2, <1>5, <3>1, Shown DEF Edges
  <2>4. AtStop'
    BY <1>1, <1>2, <1>5, <2>2, <2>3, Shown DEF AtStop, UnderWay
  <2> QED BY <1>2, <2>2, <2>4, Shown, BusEdge DEF OnBus, MapInv, WriterTypes
<1> QED BY <1>3, <1>4, <1>5

(* What has been said at the end of a transaction are the bytes of its     *)
(* entry.                                                                  *)
LEMMA AppendedAt ==
  ASSUME NEW s \in Seq(Int), NEW t \in Seq(Int), NEW z \in Int, Len(t) = Len(s) + 1, t[Len(t)] = z,
         \A n \in 1 .. Len(s) : t[n] = s[n]
  PROVE  Append(s, z) = t
<1>1. /\ Append(s, z) \in Seq(Int) /\ Len(Append(s, z)) = Len(s) + 1
      /\ \A n \in 1 .. Len(s) : Append(s, z)[n] = s[n]
      /\ Append(s, z)[Len(s) + 1] = z
  BY AppendProperties
<1>2. Len(s) \in Nat
  OBVIOUS
<1>3. ASSUME NEW n \in 1 .. Len(Append(s, z)) PROVE Append(s, z)[n] = t[n]
  <2>1. n \in 1 .. Len(s) \/ n = Len(s) + 1
    BY <1>1, <1>2, <1>3, SMT
  <2> QED BY <1>1, <2>1
<1>4. Len(Append(s, z)) = Len(t)
  BY <1>1
<1> QED BY <1>1, <1>3, <1>4, SeqEqual

LEMMA Tuples ==
  ASSUME NEW x \in Int, NEW y \in Int, NEW z \in Int
  PROVE  /\ Append(<<>>, x) = <<x>> /\ Append(<<x>>, y) = <<x, y>> /\ Append(<<x, y>>, z) = <<x, y, z>>
         /\ <<x, y>> \in Seq(Int) /\ <<x, y, z>> \in Seq(Int)
<1> DEFINE r == <<x>>
<1> DEFINE s == <<x, y>>
<1> DEFINE t == <<x, y, z>>
<1>1. Append(<<>>, x) = <<x>>
  OBVIOUS
<1>2. r \in Seq(Int) /\ Len(r) = 1 /\ r[1] = x
  OBVIOUS
<1>3. s \in Seq(Int) /\ Len(s) = 2 /\ s[1] = x /\ s[2] = y
  OBVIOUS
<1>4. t \in Seq(Int) /\ Len(t) = 3 /\ t[1] = x /\ t[2] = y /\ t[3] = z
  OBVIOUS
<1> HIDE DEF r, s, t
<1>5. Append(r, y) = s
  <2>1. Len(s) = Len(r) + 1 /\ s[Len(s)] = y /\ \A n \in 1 .. Len(r) : s[n] = r[n]
    BY <1>2, <1>3, SMT
  <2> QED BY <1>2, <1>3, <2>1, AppendedAt
<1>6. Append(s, z) = t
  <2>1. Len(t) = Len(s) + 1 /\ t[Len(t)] = z /\ \A n \in 1 .. Len(s) : t[n] = s[n]
    BY <1>3, <1>4, SMT
  <2> QED BY <1>3, <1>4, <2>1, AppendedAt
<1> QED BY <1>1, <1>3, <1>4, <1>5, <1>6 DEF r, s, t

LEMMA SaidWhole ==
  ASSUME WriterTypes, AtEntry, Writing
  PROVE  i \in 1 .. Len(Regmap) /\ Said(Bytes + 1) = Writer!BytesOf(Regmap[i]) /\ Said(Bytes + 1) \in Seq(Int)
<1>1. i \in 1 .. Len(Regmap)
  BY WriterConstants, SMT DEF Writing, WriterTypes, AtEntry
<1> DEFINE e == Regmap[i]
<1>2. e.addr \in Int /\ e.reg \in Int /\ e.val \in Int
  BY <1>1, WriterConstants, SMT
<1>3. i2cSlAddr = e.addr /\ i2cRegAddr = e.reg /\ i2cRegVal = e.val /\ i2cMode = (IF e.val < 0 THEN 0 ELSE 1)
  BY DEF Writing, Held
<1>4. Bytes = IF e.val < 0 THEN 1 ELSE 2
  BY <1>3 DEF Writing, Master, Bytes
<1> HIDE DEF e
<1>5. Said(2) = Append(Append(<<>>, i2cSlAddr), i2cRegAddr) /\ Said(3) = Append(Said(2), i2cRegVal)
  BY SMT DEF Said
<1>6. /\ Said(2) = <<e.addr, e.reg>> /\ Said(3) = <<e.addr, e.reg, e.val>>
      /\ Said(2) \in Seq(Int) /\ Said(3) \in Seq(Int)
  <2>1. /\ Append(<<>>, e.addr) = <<e.addr>> /\ Append(<<e.addr>>, e.reg) = <<e.addr, e.reg>>
        /\ Append(<<e.addr, e.reg>>, e.val) = <<e.addr, e.reg, e.val>>
        /\ <<e.addr, e.reg>> \in Seq(Int) /\ <<e.addr, e.reg, e.val>> \in Seq(Int)
    BY <1>2, Tuples
  <2>2. Said(2) = Append(Append(<<>>, e.addr), e.reg) /\ Said(3) = Append(Said(2), e.val)
    BY <1>3, <1>5
  <2>3. Said(2) = <<e.addr, e.reg>>
    BY <2>1, <2>2
  <2>4. Said(3) = <<e.addr, e.reg, e.val>>
    BY <2>1, <2>2, <2>3
  <2> QED BY <2>1, <2>3, <2>4
<1>7. CASE e.val < 0
  <2>1. Bytes + 1 = 2
    BY <1>4, <1>7, SMT
  <2> QED BY <1>1, <1>6, <1>7, <2>1 DEF Writer!BytesOf, e
<1>8. CASE ~(e.val < 0)
  <2>1. Bytes + 1 = 3
    BY <1>4, <1>8, SMT
  <2> QED BY <1>1, <1>6, <1>8, <2>1 DEF Writer!BytesOf, e
<1> QED BY <1>7, <1>8

(* The end of a transaction.                                               *)
LEMMA StopEdge ==
  ASSUME Writer!Clock, MapInv, Writing, phase = DataClk - 1, AtStop
  PROVE  MapInv'
<1>1. WriterTypes /\ Settled /\ WireSoFar /\ AtEntry
  BY DEF MapInv
<1>2. cur = Said(Bytes + 1) /\ Len(wire) = i - 1 /\ core = "StStop" /\ sBusyCnt = Bytes
  BY EdgeOfDataClk DEF AtStop, UnderWay
<1>3. OnBus
  BY DEF OnBus
<1>4. core' = "StReady" /\ busy' = FALSE /\ wire' = Append(wire, cur) /\ cur' = <<>>
  BY <1>2, EdgeOfDataClk DEF Writer!data_clk
<1>5. mstate' = mstate /\ Bytes' = Bytes
  BY <1>3, Shown
<1>6. i \in 1 .. Len(Regmap) /\ cur = Writer!BytesOf(Regmap[i]) /\ cur \in Seq(Int)
  BY <1>1, <1>2, SaidWhole
<1>7. wire \in Seq(Seq(Int))
  BY <1>1 DEF WriterTypes
<1>8. /\ wire' \in Seq(Seq(Int)) /\ Len(wire') = Len(wire) + 1
      /\ \A n \in 1 .. Len(wire) : wire'[n] = wire[n]
      /\ wire'[Len(wire) + 1] = cur
  BY <1>4, <1>6, <1>7, AppendProperties
<1>9. WriterTypes' /\ Settled' /\ AtEntry'
  BY <1>4, <1>8, WritingTypes
<1>10. Len(wire) \in Nat /\ i \in Nat /\ Len(Regmap) \in Nat
  BY <1>1, <1>7, WriterConstants DEF WriterTypes
<1>11. Len(wire') = i /\ i <= Len(Regmap) /\ Len(wire) + 1 = i
  BY <1>2, <1>6, <1>8, <1>10, SMT
<1>12. WireSoFar'
  <2>1. ASSUME NEW n \in 1 .. Len(wire') PROVE wire'[n] = Writer!BytesOf(Regmap[n])
    <3>1. n \in 1 .. Len(wire) \/ n = Len(wire) + 1
      BY <1>8, <1>10, <2>1, SMT
    <3> QED BY <1>1, <1>6, <1>8, <1>11, <3>1 DEF WireSoFar
  <2> QED BY <1>11, <2>1 DEF WireSoFar
<1>13. Behind'
  BY <1>2, <1>3, <1>4, <1>5, <1>11, EdgeOfDataClk, Shown DEF Behind
<1> QED BY <1>5, <1>9, <1>12, <1>13, WritingSame DEF Writing, MapInv

LEMMA StepWriter ==
  ASSUME MapInv, [Writer!Next]_(Writer!vars)
  PROVE  MapInv'
<1>1. CASE Writer!Reset
  BY <1>1, ResetWriter
<1>2. CASE Writer!Clock
  <2>1. CASE Quiet
    BY <1>2, <2>1, QuietClock
  <2>2. CASE Writing
    <3>1. CASE Behind
      BY <1>2, <2>2, <3>1, BehindClock
    <3>2. CASE phase # DataClk - 1 /\ ~Behind
      BY <1>2, <2>2, <3>2, BusKeeps
    <3>3. CASE phase = DataClk - 1 /\ (Ahead \/ AtAddress \/ AtAck1 \/ AtStop)
      BY <1>2, <2>2, <3>3, AheadEdge, AddressEdge, Ack1Edge, StopEdge
    <3>4. CASE phase = DataClk - 1 /\ \E b \in 1 .. Bytes : AtWr(b) \/ AtWrEnd(b) \/ AtAck2(b)
      BY <1>2, <2>2, <3>4, WrEdge, WrEndEdge, Ack2Edge
    <3> QED BY <2>2, <3>1, <3>2, <3>3, <3>4 DEF Writing, OnBus
  <2> QED BY <2>1, <2>2 DEF MapInv
<1>3. CASE UNCHANGED Writer!vars
  <2>1. UNCHANGED <<state, cnt, i, addrval, BUSY, i2cStart, i2cSlAddr, i2cRegAddr, i2cRegVal, i2cMode,
                    mstate, i2cBusy, sBusyCnt, d1, d2, core, busy, writerAddr, data_tx, phase, cur, wire>>
    BY <1>3 DEF Writer!vars, Writer!writer, Writer!master, Writer!bus
  <2>2. UNCHANGED <<Bytes, Ahead, Behind, Master, AtAddress, AtAck1, AtStop>>
    BY <2>1 DEF Bytes, Ahead, Behind, Master, AtAddress, AtAck1, AtStop, UnderWay, Edges, Said, Byte
  <2>3. \A b : AtWr(b)' = AtWr(b) /\ AtWrEnd(b)' = AtWrEnd(b) /\ AtAck2(b)' = AtAck2(b)
    BY <2>1 DEF AtWr, AtWrEnd, AtAck2, UnderWay, Edges, Said, Byte
  <2>4. UNCHANGED OnBus
    BY <2>2, <2>3 DEF OnBus
  <2>5. UNCHANGED Writing
    BY <2>1, <2>2, <2>4 DEF Writing, Held
  <2>6. UNCHANGED Quiet /\ UNCHANGED <<WriterTypes, Settled, WireSoFar, AtEntry>>
    BY <2>1 DEF Quiet, Held, WriterTypes, Settled, WireSoFar, AtEntry
  <2> QED BY <2>5, <2>6 DEF MapInv
<1> QED BY <1>1, <1>2, <1>3 DEF Writer!Next

(* The property: what the bus has said of the map so far is the beginning  *)
(* of the map, and BUSY outlasts it.                                       *)
LEMMA PrefixHolds ==
  ASSUME NEW S, NEW s \in Seq(S), NEW t \in Seq(S), Len(s) <= Len(t), \A n \in 1 .. Len(s) : s[n] = t[n]
  PROVE  Writer!IsPrefix(s, t)
<1>1. Len(s) \in Nat /\ Len(t) \in Nat /\ Len(s) \in Int /\ 1 \in Int
  OBVIOUS
<1>2. \A n \in 1 .. Len(s) : s[n] \in S /\ t[n] \in S
  OBVIOUS
<1>3. /\ SubSeq(s, 1, Len(s)) \in Seq(S)
      /\ Len(SubSeq(s, 1, Len(s))) = (IF 1 <= Len(s) THEN Len(s) - 1 + 1 ELSE 0)
      /\ \A n \in 1 .. Len(s) - 1 + 1 : SubSeq(s, 1, Len(s))[n] = s[1 + n - 1]
  BY <1>1, <1>2, SubSeqProperties
<1>4. /\ SubSeq(t, 1, Len(s)) \in Seq(S)
      /\ Len(SubSeq(t, 1, Len(s))) = (IF 1 <= Len(s) THEN Len(s) - 1 + 1 ELSE 0)
      /\ \A n \in 1 .. Len(s) - 1 + 1 : SubSeq(t, 1, Len(s))[n] = t[1 + n - 1]
  BY <1>1, <1>2, SubSeqProperties
<1>5. \A n \in 1 .. Len(s) : n \in 1 .. Len(s) - 1 + 1 /\ 1 + n - 1 = n
  BY <1>1, SMT
<1>6. Len(SubSeq(s, 1, Len(s))) = Len(s) /\ Len(SubSeq(t, 1, Len(s))) = Len(s)
  BY <1>1, <1>3, <1>4, SMT
<1>7. \A n \in 1 .. Len(s) : SubSeq(s, 1, Len(s))[n] = SubSeq(t, 1, Len(s))[n]
  BY <1>3, <1>4, <1>5
<1>8. SubSeq(s, 1, Len(s)) = SubSeq(t, 1, Len(s))
  BY <1>3, <1>4, <1>6, <1>7, SeqEqual
<1> QED BY <1>8 DEF Writer!IsPrefix

LEMMA BytesTypes ==
  ASSUME NEW n \in 1 .. Len(Regmap)
  PROVE  Writer!BytesOf(Regmap[n]) \in Seq(Int)
<1>1. Regmap[n].addr \in Int /\ Regmap[n].reg \in Int /\ Regmap[n].val \in Int
  BY WriterConstants, SMT
<1>2. /\ <<Regmap[n].addr, Regmap[n].reg>> \in Seq(Int)
      /\ <<Regmap[n].addr, Regmap[n].reg, Regmap[n].val>> \in Seq(Int)
  BY <1>1, Tuples
<1> QED BY <1>2 DEF Writer!BytesOf

LEMMA MapPrefix ==
  ASSUME WriterTypes, WireSoFar
  PROVE  Writer!WireIsRegmap
<1> DEFINE map == [n \in DOMAIN Regmap |-> Writer!BytesOf(Regmap[n])]
<1>1. wire \in Seq(Seq(Int)) /\ Len(Regmap) \in Nat
  BY WriterConstants DEF WriterTypes
<1>2. DOMAIN Regmap = 1 .. Len(Regmap)
  BY ConstantsAssumption DEF Writer!RegmapAssumption
<1>3. map \in Seq(Seq(Int)) /\ Len(map) = Len(Regmap)
  BY <1>1, <1>2, BytesTypes
<1>4. Len(wire) <= Len(map)
  BY <1>3 DEF WireSoFar
<1>5. \A n \in 1 .. Len(wire) : wire[n] = map[n]
  <2>1. \A n \in 1 .. Len(wire) : n \in 1 .. Len(Regmap)
    BY <1>1, SMT DEF WireSoFar
  <2> QED BY <1>2, <2>1 DEF WireSoFar
<1> HIDE DEF map
<1>6. Writer!IsPrefix(wire, map)
  BY <1>1, <1>3, <1>4, <1>5, PrefixHolds
<1> QED BY <1>6 DEF Writer!WireIsRegmap, map

LEMMA SaidPrefix ==
  ASSUME WriterTypes, AtEntry, Writing, NEW k \in 0 .. Bytes + 1
  PROVE  Writer!IsPrefix(Said(k), Writer!BytesOf(Regmap[i]))
<1>1. i \in 1 .. Len(Regmap) /\ Bytes \in {1, 2}
  BY SaidWhole, WritingCount
<1> DEFINE e == Regmap[i]
<1>2. e.addr \in Int /\ e.reg \in Int /\ e.val \in Int
  BY <1>1, WriterConstants, SMT
<1>3. i2cSlAddr = e.addr /\ i2cRegAddr = e.reg /\ i2cRegVal = e.val /\ i2cMode = (IF e.val < 0 THEN 0 ELSE 1)
  BY DEF Writing, Held
<1>4. (Bytes = 2) <=> ~(e.val < 0)
  BY <1>3 DEF Writing, Master, Bytes
<1> HIDE DEF e
<1>5. Said(0) = <<>> /\ Said(1) = <<e.addr>> /\ Said(2) = <<e.addr, e.reg>> /\ Said(3) = <<e.addr, e.reg, e.val>>
  <2>1. /\ Said(0) = <<>> /\ Said(1) = Append(<<>>, e.addr) /\ Said(2) = Append(Said(1), e.reg)
        /\ Said(3) = Append(Said(2), e.val)
    BY <1>3, SMT DEF Said
  <2>2. /\ Append(<<>>, e.addr) = <<e.addr>> /\ Append(<<e.addr>>, e.reg) = <<e.addr, e.reg>>
        /\ Append(<<e.addr, e.reg>>, e.val) = <<e.addr, e.reg, e.val>>
    BY <1>2, Tuples
  <2>3. Said(1) = <<e.addr>>
    BY <2>1, <2>2
  <2>4. Said(2) = <<e.addr, e.reg>>
    BY <2>1, <2>2, <2>3
  <2> QED BY <2>1, <2>2, <2>3, <2>4
<1>6. Said(k) \in Seq(Int) /\ Len(Said(k)) = k /\ \A n \in 1 .. k : Said(k)[n] = (IF n = 1 THEN e.addr ELSE IF n = 2 THEN e.reg ELSE e.val)
  <2>1. k = 0 \/ k = 1 \/ k = 2 \/ k = 3
    BY <1>1, SMT
  <2>2. CASE k = 0
    <3>1. /\ <<>> \in Seq(Int) /\ Len(<<>>) = 0
          /\ \A n \in 1 .. 0 : <<>>[n] = (IF n = 1 THEN e.addr ELSE IF n = 2 THEN e.reg ELSE e.val)
      BY <1>2, SMT
    <3>2. Said(k) = <<>>
      BY <1>5, <2>2
    <3> QED BY <2>2, <3>1, <3>2
  <2>3. CASE k = 1
    <3>1. /\ <<e.addr>> \in Seq(Int) /\ Len(<<e.addr>>) = 1
          /\ \A n \in 1 .. 1 : <<e.addr>>[n] = (IF n = 1 THEN e.addr ELSE IF n = 2 THEN e.reg ELSE e.val)
      BY <1>2, SMT
    <3>2. Said(k) = <<e.addr>>
      BY <1>5, <2>3
    <3> QED BY <2>3, <3>1, <3>2
  <2>4. CASE k = 2
    <3>1. /\ <<e.addr, e.reg>> \in Seq(Int) /\ Len(<<e.addr, e.reg>>) = 2
          /\ \A n \in 1 .. 2 : <<e.addr, e.reg>>[n] = (IF n = 1 THEN e.addr ELSE IF n = 2 THEN e.reg ELSE e.val)
      BY <1>2, SMT
    <3>2. Said(k) = <<e.addr, e.reg>>
      BY <1>5, <2>4
    <3> QED BY <2>4, <3>1, <3>2
  <2>5. CASE k = 3
    <3>1. /\ <<e.addr, e.reg, e.val>> \in Seq(Int) /\ Len(<<e.addr, e.reg, e.val>>) = 3
          /\ \A n \in 1 .. 3 : <<e.addr, e.reg, e.val>>[n] = (IF n = 1 THEN e.addr ELSE IF n = 2 THEN e.reg ELSE e.val)
      BY <1>2, SMT
    <3>2. Said(k) = <<e.addr, e.reg, e.val>>
      BY <1>5, <2>5
    <3> QED BY <2>5, <3>1, <3>2
  <2> QED BY <2>1, <2>2, <2>3, <2>4, <2>5
<1>7. /\ Writer!BytesOf(e) \in Seq(Int) /\ Len(Writer!BytesOf(e)) = Bytes + 1
      /\ \A n \in 1 .. Bytes + 1 : Writer!BytesOf(e)[n] = (IF n = 1 THEN e.addr ELSE IF n = 2 THEN e.reg ELSE e.val)
  BY <1>1, <1>2, <1>4, SMT DEF Writer!BytesOf
<1>8. Len(Said(k)) <= Len(Writer!BytesOf(e)) /\ \A n \in 1 .. k : n \in 1 .. Bytes + 1
  BY <1>1, <1>6, <1>7, SMT
<1>9. \A n \in 1 .. Len(Said(k)) : Said(k)[n] = Writer!BytesOf(e)[n]
  BY <1>6, <1>7, <1>8
<1>10. Writer!IsPrefix(Said(k), Writer!BytesOf(e))
  BY <1>6, <1>7, <1>8, <1>9, PrefixHolds
<1> QED BY <1>10 DEF e

LEMMA MapIsWritten ==
  ASSUME MapInv
  PROVE  Writer!WireIsRegmap /\ Writer!ByteInPlace /\ Writer!DoneIsWhole
<1>1. WriterTypes /\ WireSoFar /\ AtEntry /\ (Quiet \/ Writing)
  BY DEF MapInv
<1>2. Writer!WireIsRegmap
  BY <1>1, MapPrefix
<1>3. Writer!ByteInPlace
  <2>1. SUFFICES ASSUME cur # <<>> PROVE Writer!IsPrefix(cur, Writer!BytesOf(Regmap[Len(wire) + 1]))
    BY DEF Writer!ByteInPlace
  <2>2. Writing /\ OnBus
    BY <1>1, <2>1 DEF Quiet, Writing, Ahead, Behind
  <2>3. Bytes \in {1, 2} /\ \A b \in 1 .. Bytes : b \in 0 .. Bytes + 1 /\ b + 1 \in 0 .. Bytes + 1
    BY <2>2, WritingCount, SMT
  <2>4. 0 \in 0 .. Bytes + 1 /\ 1 \in 0 .. Bytes + 1 /\ Bytes + 1 \in 0 .. Bytes + 1
    BY <2>3, SMT
  <2>5. Len(wire) = i - 1 /\ \E k \in 0 .. Bytes + 1 : cur = Said(k)
    <3>1. CASE AtAddress \/ AtAck1 \/ AtStop
      BY <2>4, <3>1 DEF AtAddress, AtAck1, AtStop, UnderWay
    <3>2. CASE \E b \in 1 .. Bytes : AtWr(b) \/ AtWrEnd(b) \/ AtAck2(b)
      BY <2>3, <3>2 DEF AtWr, AtWrEnd, AtAck2, UnderWay
    <3> QED BY <2>2, <3>1, <3>2 DEF OnBus
  <2>6. Len(wire) + 1 = i
    BY <1>1, <2>5, SMT DEF WriterTypes
  <2> QED BY <1>1, <2>2, <2>5, <2>6, SaidPrefix
<1>4. Writer!DoneIsWhole
  BY <1>1 DEF Writer!DoneIsWhole, WriterTypes, Quiet, Writing
<1> QED BY <1>2, <1>3, <1>4
-----------------------------------------------------------------------------
(***************************************************************************)
(* Frames from a PC to the MAC.  First what the program writes: the ones'  *)
(* complement sum of a header is that of its ten numbers, and the commands *)
(* of a call put the bytes of its frame into words.  Then FrameInv: the    *)
(* interpreter is at some command of the list of the last call, and until  *)
(* the pulse it has stored the words whose commands it has passed;         *)
(* packet_gen has sent the first bytes of that frame, as many as addrCtr   *)
(* says; a pulse is over before the packet that it starts.                 *)
(***************************************************************************)
(* A set of numbers has a least one.                                       *)
LEMMA LeastNumber ==
  ASSUME NEW F \in SUBSET Nat, F # {}
  PROVE  \E x \in F : \A y \in F : x <= y
<1> DEFINE R == {ss \in Nat \X Nat : ss[1] < ss[2]}
<1>1. IsWellFoundedOn(R, Nat)
  BY NatLessThanWellFounded, Zenon DEF OpToRel
<1>2. \A x, y \in Nat : <<x, y>> \in R <=> x < y
  BY SMT
<1> HIDE DEF R
<1>3. PICK x \in F : \A y \in F : ~(<<y, x>> \in R)
  BY <1>1, WFMin
<1>4. \A y \in F : x <= y
  <2> SUFFICES ASSUME NEW y \in F PROVE x <= y
    OBVIOUS
  <2>1. x \in Nat /\ y \in Nat /\ ~(y < x)
    BY <1>2, <1>3
  <2> QED BY <2>1, SMT
<1> QED BY <1>4

(* The last of a set of positions.                                         *)
LEMMA LastPosition ==
  ASSUME NEW n \in Nat, NEW s \in SUBSET (1 .. n), s # {}
  PROVE  Packet!Max(s) \in s /\ \A y \in s : Packet!Max(s) >= y
<1> DEFINE F == {n - x : x \in s}
<1>1. F \in SUBSET Nat /\ F # {}
  <2>1. \A x \in s : n - x \in Nat
    OBVIOUS
  <2>2. F # {}
    OBVIOUS
  <2> QED BY <2>1, <2>2
<1>2. PICK f \in F : \A y \in F : f <= y
  BY <1>1, LeastNumber
<1>3. PICK x \in s : f = n - x
  OBVIOUS
<1>4. \A y \in s : x >= y
  <2> SUFFICES ASSUME NEW y \in s PROVE x >= y
    OBVIOUS
  <2>1. n - y \in F
    OBVIOUS
  <2>2. n - x <= n - y
    BY <1>2, <1>3, <2>1
  <2> QED BY <2>2
<1> QED BY <1>4, Zenon DEF Packet!Max

(* A fold over a finite set: there is the function that it is defined by,  *)
(* for sets of k elements after those of k - 1.                            *)
(* The positions in a header of ten numbers.                               *)
Tenth == 1 .. 10

LEMMA TenthIs == IsFiniteSet(Tenth) /\ \A s \in SUBSET Tenth : s # {} => Packet!Max(s) \in s
<1>1. \A n \in Nat : IsFiniteSet(1 .. n)
  BY FS_Interval
<1>2. \A s \in SUBSET (1 .. 10) : s # {} => Packet!Max(s) \in s
  BY LastPosition
<1> QED BY <1>1, <1>2 DEF Tenth

Folds10(W, b, F) ==
  \E g \in [SUBSET Tenth -> W] :
    \A s \in SUBSET Tenth : g[s] = IF s = {} THEN b ELSE F[<<g[s \ {Packet!Max(s)}], Packet!Max(s)>>]

LEMMA FoldExists ==
  ASSUME NEW W, NEW b \in W, NEW F \in [W \X Tenth -> W]
  PROVE  Folds10(W, b, F)
<1> DEFINE S == Tenth
<1>6. IsFiniteSet(S) /\ \A s \in SUBSET S : s # {} => Packet!Max(s) \in s
  BY TenthIs
<1> HIDE DEF S
<1> DEFINE At(g, s) == g[s] = IF s = {} THEN b ELSE F[<<g[s \ {Packet!Max(s)}], Packet!Max(s)>>]
           UpTo(k) == \E g \in [SUBSET S -> W] : \A s \in SUBSET S : Cardinality(s) <= k => At(g, s)
           N == {k \in Nat : ~UpTo(k)}
<1>1. \A s \in SUBSET S : Cardinality(s) \in Nat /\ Cardinality(s) <= Cardinality(S)
  BY <1>6, FS_Subset, FS_CardinalityType
<1>2. UpTo(0)
  <2> DEFINE g == [s \in SUBSET S |-> b]
  <2>1. ASSUME NEW s \in SUBSET S, Cardinality(s) <= 0 PROVE At(g, s)
    <3>1. Cardinality(s) = 0
      BY <1>1, <2>1
    <3>2. s = {}
      BY <1>6, <3>1, FS_Subset, FS_EmptySet
    <3> QED BY <3>2
  <2>2. g \in [SUBSET S -> W]
    OBVIOUS
  <2> QED BY <2>1, <2>2
<1>3. ASSUME NEW k \in Nat, UpTo(k) PROVE UpTo(k + 1)
  <2>1. PICK g \in [SUBSET S -> W] : \A s \in SUBSET S : Cardinality(s) <= k => At(g, s)
    BY <1>3
  <2> DEFINE Further(s) == F[<<g[s \ {Packet!Max(s)}], Packet!Max(s)>>]
             h == [s \in SUBSET S |-> IF s = {} THEN b ELSE IF Cardinality(s) <= k THEN g[s] ELSE Further(s)]
  <2>2. ASSUME NEW s \in SUBSET S, Cardinality(s) <= k PROVE h[s] = g[s]
    BY <2>1, <2>2
  <2>3. ASSUME NEW s \in SUBSET S, Cardinality(s) <= k + 1 PROVE At(h, s)
    <3>1. CASE s = {}
      BY <3>1
    <3>2. CASE s # {}
      <4> DEFINE x == Packet!Max(s)
      <4>1. s \ {Packet!Max(s)} \in SUBSET S /\ Cardinality(s \ {Packet!Max(s)}) <= k
        <5>1. x \in s /\ IsFiniteSet(s)
          BY <1>6, <3>2, FS_Subset
        <5>2. Cardinality(s \ {x}) = Cardinality(s) - 1
          <6> HIDE DEF x
          <6> QED BY <5>1, FS_RemoveElement
        <5> QED BY <1>1, <2>3, <5>2
      <4>2. h[s \ {Packet!Max(s)}] = g[s \ {Packet!Max(s)}]
        BY <2>2, <4>1
      <4>3. h[s] = Further(s)
        BY <2>1, <3>2
      <4> QED BY <3>2, <4>2, <4>3
    <3> QED BY <3>1, <3>2
  <2>4. h \in [SUBSET S -> W]
    <3>1. ASSUME NEW s \in SUBSET S, s # {} PROVE Further(s) \in W
      <4>1. Packet!Max(s) \in S /\ s \ {Packet!Max(s)} \in SUBSET S
        BY <1>6, <3>1
      <4>2. <<g[s \ {Packet!Max(s)}], Packet!Max(s)>> \in W \X S
        BY <2>1, <4>1
      <4> QED BY <4>2 DEF S
    <3> HIDE DEF Further
    <3> QED BY <2>1, <3>1
  <2> HIDE DEF h
  <2> QED BY <2>3, <2>4
<1> HIDE DEF UpTo
<1>4. N = {}
  <2>1. SUFFICES ASSUME N # {} PROVE FALSE
    OBVIOUS
  <2>2. PICK k \in N : \A m \in N : k <= m
    BY <2>1, LeastNumber
  <2>3. k # 0 /\ k \in Nat /\ ~UpTo(k)
    BY <1>2
  <2>4. k - 1 \in Nat /\ (k - 1) + 1 = k
    BY <2>3
  <2>5. UpTo(k - 1)
    BY <2>2, <2>4
  <2> QED BY <1>3, <2>3, <2>4, <2>5
<1>5. UpTo(Cardinality(S))
  BY <1>4, <1>6, FS_CardinalityType
<1> QED BY <1>1, <1>5 DEF UpTo, S, Folds10

(* The two folds over a header: the sum, and the ones' complement sum.     *)
Plain(g, h) == g = [s \in SUBSET DOMAIN h |-> IF s = {} THEN 0 ELSE g[s \ {Packet!Max(s)}] + h[Packet!Max(s)]]
Carried(x, y) == LET s == x + y IN IF s < Packet!W16 THEN s ELSE s - Packet!W16 + 1
Ones(g, h) == g = [s \in SUBSET DOMAIN h |-> IF s = {} THEN 0 ELSE Carried(g[s \ {Packet!Max(s)}], h[Packet!Max(s)])]

LEMMA PlainIs ==
  ASSUME NEW h
  PROVE  Packet!HeaderSum(h) = (CHOOSE g : Plain(g, h))[DOMAIN h]
  BY DEF Packet!HeaderSum, Packet!FoldLeft, Packet!MapThenFoldSet, Plain

LEMMA OnesIs ==
  ASSUME NEW h
  PROVE  Packet!OnesSum(h) = (CHOOSE g : Ones(g, h))[DOMAIN h]
  BY DEF Packet!OnesSum, Packet!FoldLeft, Packet!MapThenFoldSet, Ones, Carried

LEMMA Positions ==
  ASSUME NEW k \in 1 .. 10
  PROVE  /\ 1 .. k \in SUBSET (1 .. 10) /\ 1 .. k # {}
         /\ Packet!Max(1 .. k) = k /\ (1 .. k) \ {k} = 1 .. k - 1
<1>1. 1 .. k \in SUBSET (1 .. 10) /\ k \in 1 .. k /\ (1 .. k) \ {k} = 1 .. k - 1
  BY SMT
<1>2. Packet!Max(1 .. k) \in 1 .. k /\ Packet!Max(1 .. k) >= k
  BY <1>1, LastPosition
<1> QED BY <1>1, <1>2

LEMMA TenSum ==
  ASSUME NEW h \in [Tenth -> Int]
  PROVE  Packet!HeaderSum(h) = h[1] + h[2] + h[3] + h[4] + h[5] + h[6] + h[7] + h[8] + h[9] + h[10]
<1> DEFINE S == Tenth
           F == [p \in Int \X S |-> p[1] + h[p[2]]]
           z == CHOOSE g : Plain(g, h)
<1>1. Plain(z, h)
  <2>1. \A s \in SUBSET S : s # {} => Packet!Max(s) \in s
    BY TenthIs
  <2>6. F \in [Int \X S -> Int]
    OBVIOUS
  <2>7. 0 \in Int
    OBVIOUS
  <2>2. PICK g \in [SUBSET S -> Int] : \A s \in SUBSET S : g[s] = IF s = {} THEN 0 ELSE F[<<g[s \ {Packet!Max(s)}], Packet!Max(s)>>]
    <3> HIDE DEF F
    <3>1. Folds10(Int, 0, F)
      BY <2>6, <2>7, FoldExists, Zenon
    <3> QED BY <3>1, Zenon DEF Folds10
  <2>3. ASSUME NEW s \in SUBSET S PROVE g[s] = IF s = {} THEN 0 ELSE g[s \ {Packet!Max(s)}] + h[Packet!Max(s)]
    <3>1. CASE s = {}
      BY <2>2, <3>1
    <3>2. CASE s # {}
      <4>1. Packet!Max(s) \in S /\ g[s \ {Packet!Max(s)}] \in Int
        BY <2>1, <3>2
      <4>2. F[<<g[s \ {Packet!Max(s)}], Packet!Max(s)>>] = g[s \ {Packet!Max(s)}] + h[Packet!Max(s)]
        BY <4>1
      <4> QED BY <2>2, <3>2, <4>1, <4>2
    <3> QED BY <3>1, <3>2
  <2>4. g = [s \in SUBSET S |-> IF s = {} THEN 0 ELSE g[s \ {Packet!Max(s)}] + h[Packet!Max(s)]]
    BY <2>3
  <2>5. Plain(g, h)
    BY <2>4 DEF Plain
  <2> QED BY <2>5, Zenon
<1> HIDE DEF z
<1>2. \A s \in SUBSET S : z[s] = IF s = {} THEN 0 ELSE z[s \ {Packet!Max(s)}] + h[Packet!Max(s)]
  BY <1>1 DEF Plain
<1>3. z[1 .. 0] = 0
  <2>1. 1 .. 0 = {} /\ {} \in SUBSET S
    BY SMT
  <2> QED BY <1>2, <2>1
<1>4. ASSUME NEW k \in 1 .. 10 PROVE z[1 .. k] = z[1 .. k - 1] + h[k]
  <2>1. 1 .. k \in SUBSET S /\ 1 .. k # {} /\ Packet!Max(1 .. k) = k /\ (1 .. k) \ {k} = 1 .. k - 1
    BY Positions DEF Tenth
  <2> QED BY <1>2, <2>1
<1> HIDE DEF S
<1> DEFINE y(k) == z[1 .. k]
<1>5. y(0) = 0 /\ \A k \in 1 .. 10 : y(k) = y(k - 1) + h[k]
  BY <1>3, <1>4
<1>6. Packet!HeaderSum(h) = y(10)
  BY PlainIs DEF z, Tenth
<1> HIDE DEF y
<1>7. /\ y(1) = y(0) + h[1] /\ y(2) = y(1) + h[2] /\ y(3) = y(2) + h[3] /\ y(4) = y(3) + h[4]
      /\ y(5) = y(4) + h[5] /\ y(6) = y(5) + h[6] /\ y(7) = y(6) + h[7] /\ y(8) = y(7) + h[8]
      /\ y(9) = y(8) + h[9] /\ y(10) = y(9) + h[10]
  BY <1>5
<1> QED BY <1>5, <1>6, <1>7 DEF Tenth

(* A ones' complement sum differs from the sum by a multiple of 65535, and *)
(* is 0 for a sum of 0 alone.                                              *)
Halves == 0 .. Packet!W16 - 1
Kept(r, s) == r \in Halves /\ (\E m \in Nat : s = r + (Packet!W16 - 1) * m) /\ (s > 0 => r > 0)

LEMMA WidthIs == Packet!W16 \in Nat /\ Packet!W16 > 110 /\ 0 \in Halves /\ \A x \in Halves : x \in Nat /\ x < Packet!W16
<1>1. Packet!W16 \in Nat /\ Packet!W16 > 110
  BY SMT DEF Packet!W16
<1> QED BY <1>1, SMT DEF Halves

LEMMA CarryKeeps ==
  ASSUME NEW r, NEW s \in Nat, Kept(r, s), NEW x \in Halves
  PROVE  Carried(r, x) \in Halves /\ Kept(Carried(r, x), s + x)
<1> DEFINE w == Packet!W16 - 1
<1>1. w \in Nat /\ Packet!W16 = w + 1 /\ r \in 0 .. w /\ x \in 0 .. w /\ Halves = 0 .. w /\ (s > 0 => r > 0)
  BY WidthIs DEF Kept, Halves
<1>2. PICK m \in Nat : s = r + w * m
  BY DEF Kept
<1> HIDE DEF w
<1>3. w * m \in Nat /\ w * (m + 1) = w * m + w /\ m + 1 \in Nat
  BY <1>1, SMT
<1>4. CASE r + x < Packet!W16
  <2>1. Carried(r, x) = r + x
    BY <1>4, Zenon DEF Carried
  <2>2. r + x \in 0 .. w /\ (s + x > 0 => r + x > 0) /\ s + x = (r + x) + w * m
    BY <1>1, <1>2, <1>3, <1>4
  <2> QED BY <1>1, <2>1, <2>2 DEF Kept, w
<1>5. CASE ~(r + x < Packet!W16)
  <2>1. Carried(r, x) = (r + x) - Packet!W16 + 1
    BY <1>5, Zenon DEF Carried
  <2>2. (r + x) - Packet!W16 + 1 \in 0 .. w /\ (r + x) - Packet!W16 + 1 > 0
        /\ s + x = ((r + x) - Packet!W16 + 1) + w * (m + 1)
    BY <1>1, <1>2, <1>3, <1>5
  <2> QED BY <1>1, <1>3, <2>1, <2>2 DEF Kept, w
<1> QED BY <1>4, <1>5

LEMMA TenOnes ==
  ASSUME NEW h \in [Tenth -> Halves]
  PROVE  Kept(Packet!OnesSum(h), h[1] + h[2] + h[3] + h[4] + h[5] + h[6] + h[7] + h[8] + h[9] + h[10])
<1> DEFINE S == Tenth
           F == [p \in Halves \X S |-> Carried(p[1], h[p[2]])]
           z == CHOOSE g : Ones(g, h)
<1>1. Ones(z, h)
  <2>1. \A s \in SUBSET S : s # {} => Packet!Max(s) \in s
    BY TenthIs
  <2>2. \A x, y \in Halves : Carried(x, y) \in Halves
    <3>1. Packet!W16 \in Nat /\ Packet!W16 > 110
      BY WidthIs
    <3> QED BY <3>1, SMT DEF Carried, Halves
  <2>3. F \in [Halves \X S -> Halves]
    BY <2>2, Zenon
  <2>8. 0 \in Halves
    BY WidthIs
  <2>4. PICK g \in [SUBSET S -> Halves] : \A s \in SUBSET S : g[s] = IF s = {} THEN 0 ELSE F[<<g[s \ {Packet!Max(s)}], Packet!Max(s)>>]
    <3> HIDE DEF F
    <3>1. Folds10(Halves, 0, F)
      BY <2>3, <2>8, FoldExists, Zenon
    <3> QED BY <3>1, Zenon DEF Folds10
  <2>5. ASSUME NEW s \in SUBSET S PROVE g[s] = IF s = {} THEN 0 ELSE Carried(g[s \ {Packet!Max(s)}], h[Packet!Max(s)])
    <3>1. CASE s = {}
      BY <2>4, <3>1
    <3>2. CASE s # {}
      <4>1. Packet!Max(s) \in S /\ g[s \ {Packet!Max(s)}] \in Halves
        BY <2>1, <3>2
      <4>2. F[<<g[s \ {Packet!Max(s)}], Packet!Max(s)>>] = Carried(g[s \ {Packet!Max(s)}], h[Packet!Max(s)])
        BY <4>1
      <4> QED BY <2>4, <3>2, <4>1, <4>2
    <3> QED BY <3>1, <3>2
  <2>6. g = [s \in SUBSET S |-> IF s = {} THEN 0 ELSE Carried(g[s \ {Packet!Max(s)}], h[Packet!Max(s)])]
    BY <2>5
  <2>7. Ones(g, h)
    BY <2>6 DEF Ones
  <2> QED BY <2>7, Zenon
<1> HIDE DEF z
<1>2. \A s \in SUBSET S : z[s] = IF s = {} THEN 0 ELSE Carried(z[s \ {Packet!Max(s)}], h[Packet!Max(s)])
  BY <1>1 DEF Ones
<1>3. z[1 .. 0] = 0
  <2>1. 1 .. 0 = {} /\ {} \in SUBSET S
    BY SMT
  <2> QED BY <1>2, <2>1
<1>4. ASSUME NEW k \in 1 .. 10 PROVE z[1 .. k] = Carried(z[1 .. k - 1], h[k])
  <2>1. 1 .. k \in SUBSET S /\ 1 .. k # {} /\ Packet!Max(1 .. k) = k /\ (1 .. k) \ {k} = 1 .. k - 1
    BY Positions DEF Tenth
  <2> QED BY <1>2, <2>1
<1> HIDE DEF S
<1> DEFINE y(k) == z[1 .. k]
<1>5. y(0) = 0 /\ \A k \in 1 .. 10 : y(k) = Carried(y(k - 1), h[k])
  BY <1>3, <1>4
<1>6. Packet!OnesSum(h) = y(10)
  BY OnesIs DEF z, Tenth
<1> HIDE DEF y
<1>7. /\ y(1) = Carried(y(0), h[1]) /\ y(2) = Carried(y(1), h[2]) /\ y(3) = Carried(y(2), h[3])
      /\ y(4) = Carried(y(3), h[4]) /\ y(5) = Carried(y(4), h[5]) /\ y(6) = Carried(y(5), h[6])
      /\ y(7) = Carried(y(6), h[7]) /\ y(8) = Carried(y(7), h[8]) /\ y(9) = Carried(y(8), h[9])
      /\ y(10) = Carried(y(9), h[10])
  BY <1>5
<1>8. Kept(y(0), 0)
  <2>1. 0 = 0 + (Packet!W16 - 1) * 0
    BY WidthIs, SMT
  <2> QED BY <1>5, <2>1, WidthIs DEF Kept
<1>9. \A k \in 1 .. 10 : h[k] \in Halves /\ h[k] \in Nat
  BY WidthIs DEF Tenth
<1>10. Kept(y(1), h[1]) /\ h[1] \in Nat
  BY <1>7, <1>8, <1>9, CarryKeeps
<1>11. Kept(y(2), h[1] + h[2]) /\ h[1] + h[2] \in Nat
  BY <1>7, <1>10, <1>9, CarryKeeps
<1>12. Kept(y(3), h[1] + h[2] + h[3]) /\ h[1] + h[2] + h[3] \in Nat
  BY <1>7, <1>11, <1>9, CarryKeeps
<1>13. Kept(y(4), h[1] + h[2] + h[3] + h[4]) /\ h[1] + h[2] + h[3] + h[4] \in Nat
  BY <1>7, <1>12, <1>9, CarryKeeps
<1>14. Kept(y(5), h[1] + h[2] + h[3] + h[4] + h[5]) /\ h[1] + h[2] + h[3] + h[4] + h[5] \in Nat
  BY <1>7, <1>13, <1>9, CarryKeeps
<1>15. Kept(y(6), h[1] + h[2] + h[3] + h[4] + h[5] + h[6]) /\ h[1] + h[2] + h[3] + h[4] + h[5] + h[6] \in Nat
  BY <1>7, <1>14, <1>9, CarryKeeps
<1>16. Kept(y(7), h[1] + h[2] + h[3] + h[4] + h[5] + h[6] + h[7])
       /\ h[1] + h[2] + h[3] + h[4] + h[5] + h[6] + h[7] \in Nat
  BY <1>7, <1>15, <1>9, CarryKeeps
<1>17. Kept(y(8), h[1] + h[2] + h[3] + h[4] + h[5] + h[6] + h[7] + h[8])
       /\ h[1] + h[2] + h[3] + h[4] + h[5] + h[6] + h[7] + h[8] \in Nat
  BY <1>7, <1>16, <1>9, CarryKeeps
<1>18. Kept(y(9), h[1] + h[2] + h[3] + h[4] + h[5] + h[6] + h[7] + h[8] + h[9])
       /\ h[1] + h[2] + h[3] + h[4] + h[5] + h[6] + h[7] + h[8] + h[9] \in Nat
  BY <1>7, <1>17, <1>9, CarryKeeps
<1>19. Kept(y(10), h[1] + h[2] + h[3] + h[4] + h[5] + h[6] + h[7] + h[8] + h[9] + h[10])
       /\ h[1] + h[2] + h[3] + h[4] + h[5] + h[6] + h[7] + h[8] + h[9] + h[10] \in Nat
  BY <1>7, <1>18, <1>9, CarryKeeps
<1> QED BY <1>6, <1>19

(* Bytes, numbers of two bytes, and the words of the memory.               *)
Octets == 0 .. 255
Word == [lo : Halves, hi : Halves]

LEMMA Quotient ==
  ASSUME NEW e \in Nat, NEW l \in Nat \ {0}
  PROVE  e \div l \in Nat /\ e % l \in 0 .. l - 1 /\ e = l * (e \div l) + (e % l)
BY SMT

LEMMA OneQuotient ==
  ASSUME NEW l \in Nat \ {0}, NEW q \in Nat, NEW r \in 0 .. l - 1
  PROVE  (r + l * q) % l = r /\ (r + l * q) \div l = q
BY SMT

LEMMA BytesOfHalf ==
  ASSUME NEW x \in Halves
  PROVE  x \div 256 \in Octets /\ x % 256 \in Octets /\ 256 * (x \div 256) + (x % 256) = x
<1> DEFINE q == x \div 256
           r == x % 256
<1>1. x \in Nat /\ x < 256 * 256
  <2>1. Packet!W16 = 256 * 256
    BY SMT DEF Packet!W16
  <2> QED BY <2>1, WidthIs
<1>2. q \in Nat /\ r \in 0 .. 256 - 1 /\ x = 256 * q + r
  BY <1>1, Quotient
<1> HIDE DEF q, r
<1>3. q \in 0 .. 255 /\ r \in 0 .. 255 /\ 256 * q + r = x
  BY <1>1, <1>2
<1> QED BY <1>3 DEF q, r, Octets

LEMMA HalfOfBytes ==
  ASSUME NEW x \in Octets, NEW y \in Octets
  PROVE  x + 256 * y \in Halves /\ (x + 256 * y) % 256 = x /\ (x + 256 * y) \div 256 = y
<1>1. x \in 0 .. 256 - 1 /\ y \in Nat /\ y < 256
  BY DEF Octets
<1>2. (x + 256 * y) % 256 = x /\ (x + 256 * y) \div 256 = y
  BY <1>1, OneQuotient
<1>3. x + 256 * y \in Nat /\ x + 256 * y <= Packet!W16 - 1
  <2>1. Packet!W16 = 256 * 256
    BY SMT DEF Packet!W16
  <2> QED BY <1>1, <2>1
<1>4. x + 256 * y \in Halves
  BY <1>3, WidthIs, SMT DEF Halves
<1> QED BY <1>2, <1>4

LEMMA Below ==
  ASSUME NEW x \in Halves
  PROVE  x % Packet!W16 = x
  BY WidthIs, SMT DEF Halves

LEMMA NetIs ==
  ASSUME NEW b \in Seq(Halves)
  PROVE  /\ Packet!NetworkBytes(b) \in Seq(Octets) /\ Len(Packet!NetworkBytes(b)) = 2 * Len(b)
         /\ \A h \in 1 .. Len(b) : Packet!NetworkBytes(b)[2 * h - 1] = b[h] \div 256
            /\ Packet!NetworkBytes(b)[2 * h] = b[h] % 256
<1> DEFINE n == Len(b)
           At(x) == LET h == b[(x + 1) \div 2] IN IF x % 2 = 1 THEN h \div 256 ELSE h % 256
<1>1. n \in Nat /\ \A h \in 1 .. n : b[h] \in Halves
  OBVIOUS
<1>2. Packet!NetworkBytes(b) = [x \in 1 .. 2 * n |-> At(x)]
  BY DEF Packet!NetworkBytes
<1> HIDE DEF n
<1>3. ASSUME NEW x \in 1 .. 2 * n PROVE At(x) \in Octets
  <2>1. (x + 1) \div 2 \in 1 .. n
    BY <1>1
  <2> QED BY <1>1, <2>1, BytesOfHalf
<1>4. ASSUME NEW h \in 1 .. n
      PROVE  /\ 2 * h - 1 \in 1 .. 2 * n /\ ((2 * h - 1) + 1) \div 2 = h /\ (2 * h - 1) % 2 = 1
             /\ 2 * h \in 1 .. 2 * n /\ (2 * h + 1) \div 2 = h /\ (2 * h) % 2 = 0
  BY <1>1, SMT
<1>5. ASSUME NEW h \in 1 .. n PROVE At(2 * h - 1) = b[h] \div 256 /\ At(2 * h) = b[h] % 256
  <2>1. b[((2 * h - 1) + 1) \div 2] = b[h] /\ b[(2 * h + 1) \div 2] = b[h] /\ (2 * h - 1) % 2 = 1 /\ (2 * h) % 2 # 1
    <3>1. (2 * h) % 2 = 0 /\ 0 # 1
      BY <1>4
    <3> QED BY <1>4, <3>1
  <2> QED BY <2>1, Zenon
<1> HIDE DEF At
<1>6. Packet!NetworkBytes(b) \in Seq(Octets) /\ Len(Packet!NetworkBytes(b)) = 2 * n
  BY <1>1, <1>2, <1>3
<1>7. ASSUME NEW h \in 1 .. n
      PROVE  Packet!NetworkBytes(b)[2 * h - 1] = b[h] \div 256 /\ Packet!NetworkBytes(b)[2 * h] = b[h] % 256
  BY <1>2, <1>4, <1>5
<1> QED BY <1>6, <1>7 DEF n

LEMMA WordsIs ==
  ASSUME NEW b \in Seq(Octets)
  PROVE  /\ Packet!Words32(b) \in Seq(Word) /\ Len(Packet!Words32(b)) = (Len(b) + 3) \div 4
         /\ \A k \in 1 .. (Len(b) + 3) \div 4, r \in 1 .. 4 :
              4 * k - 4 + r <= Len(b) => Packet!BytesOf(Packet!Words32(b)[k])[r] = b[4 * k - 4 + r]
<1> DEFINE n == (Len(b) + 3) \div 4
           o(x) == IF x <= Len(b) THEN b[x] ELSE 0
<1>1. n \in Nat
      /\ Packet!Words32(b) = [k \in 1 .. n |-> [lo |-> o(4 * k - 3) + 256 * o(4 * k - 2), hi |-> o(4 * k - 1) + 256 * o(4 * k)]]
  BY DEF Packet!Words32
<1>2. ASSUME NEW x \in Nat \ {0} PROVE o(x) \in Octets /\ (x <= Len(b) => o(x) = b[x])
  <2>1. 0 \in Octets
    BY DEF Octets
  <2> QED BY <2>1
<1> HIDE DEF o
<1>3. ASSUME NEW k \in 1 .. n
      PROVE  /\ Packet!Words32(b)[k].lo = o(4 * k - 3) + 256 * o(4 * k - 2)
                /\ Packet!Words32(b)[k].hi = o(4 * k - 1) + 256 * o(4 * k)
             /\ Packet!Words32(b)[k] \in Word
             /\ Packet!BytesOf(Packet!Words32(b)[k]) = <<o(4 * k - 3), o(4 * k - 2), o(4 * k - 1), o(4 * k)>>
  <2>1. k \in Nat /\ 4 * k - 3 \in Nat \ {0} /\ 4 * k - 2 \in Nat \ {0} /\ 4 * k - 1 \in Nat \ {0}
        /\ 4 * k \in Nat \ {0}
    BY <1>1
  <2>2. o(4 * k - 3) \in Octets /\ o(4 * k - 2) \in Octets /\ o(4 * k - 1) \in Octets /\ o(4 * k) \in Octets
    BY <1>2, <2>1
  <2>3. Packet!Words32(b)[k] = [lo |-> o(4 * k - 3) + 256 * o(4 * k - 2), hi |-> o(4 * k - 1) + 256 * o(4 * k)]
    BY <1>1, Zenon
  <2>4. Packet!Words32(b)[k].lo = o(4 * k - 3) + 256 * o(4 * k - 2)
        /\ Packet!Words32(b)[k].hi = o(4 * k - 1) + 256 * o(4 * k)
    BY <2>3
  <2>5. Packet!Words32(b)[k] \in Word
    BY <2>2, <2>3, HalfOfBytes DEF Word
  <2>6. /\ Packet!Words32(b)[k].lo % 256 = o(4 * k - 3) /\ Packet!Words32(b)[k].lo \div 256 = o(4 * k - 2)
        /\ Packet!Words32(b)[k].hi % 256 = o(4 * k - 1) /\ Packet!Words32(b)[k].hi \div 256 = o(4 * k)
    BY <2>2, <2>4, HalfOfBytes
  <2> QED BY <2>4, <2>5, <2>6 DEF Packet!BytesOf
<1>4. ASSUME NEW k \in 1 .. n, NEW r \in 1 .. 4, 4 * k - 4 + r <= Len(b)
      PROVE  Packet!BytesOf(Packet!Words32(b)[k])[r] = b[4 * k - 4 + r]
  <2>1. Packet!BytesOf(Packet!Words32(b)[k])[r] = o(4 * k - 4 + r)
    <3>1. k \in Nat /\ r \in {1, 2, 3, 4}
      BY <1>1
    <3>2. /\ 4 * k - 4 + 1 = 4 * k - 3 /\ 4 * k - 4 + 2 = 4 * k - 2 /\ 4 * k - 4 + 3 = 4 * k - 1
             /\ 4 * k - 4 + 4 = 4 * k
      BY <3>1
    <3>3. /\ Packet!BytesOf(Packet!Words32(b)[k])[1] = o(4 * k - 3)
             /\ Packet!BytesOf(Packet!Words32(b)[k])[2] = o(4 * k - 2)
          /\ Packet!BytesOf(Packet!Words32(b)[k])[3] = o(4 * k - 1)
             /\ Packet!BytesOf(Packet!Words32(b)[k])[4] = o(4 * k)
      BY <1>3
    <3>4. /\ Packet!BytesOf(Packet!Words32(b)[k])[1] = o(4 * k - 4 + 1)
             /\ Packet!BytesOf(Packet!Words32(b)[k])[2] = o(4 * k - 4 + 2)
          /\ Packet!BytesOf(Packet!Words32(b)[k])[3] = o(4 * k - 4 + 3)
             /\ Packet!BytesOf(Packet!Words32(b)[k])[4] = o(4 * k - 4 + 4)
      BY <3>2, <3>3
    <3> QED BY <3>1, <3>4, Zenon
  <2>2. 4 * k - 4 + r \in Nat \ {0}
    BY <1>1
  <2> QED BY <1>2, <1>4, <2>1, <2>2
<1>5. Packet!Words32(b) \in Seq(Word) /\ Len(Packet!Words32(b)) = n
  <2>1. \A k \in 1 .. n : Packet!Words32(b)[k] \in Word
    BY <1>3
  <2> QED BY <1>1, <2>1
<1> QED BY <1>4, <1>5

(* The commands of a frame.                                                *)
C(h, l) == [hi |-> h, lo |-> l]

LEMMA CommandIs ==
  ASSUME NEW h \in 0 .. 110, NEW x \in Halves
  PROVE  Packet!Command(h, x) = C(h, x) /\ C(h, x) \in Word
<1>1. h \in Halves
  BY WidthIs, SMT DEF Halves
<1> QED BY <1>1, Below, Zenon DEF Packet!Command, C, Word

Joined(S, a, b) ==
  /\ a \o b \in Seq(S) /\ Len(a \o b) = Len(a) + Len(b)
  /\ \A g \in 1 .. Len(a) : (a \o b)[g] = a[g]
  /\ \A g \in 1 .. Len(b) : (a \o b)[Len(a) + g] = b[g]

LEMMA CatIs ==
  ASSUME NEW S, NEW a \in Seq(S), NEW b \in Seq(S)
  PROVE  Joined(S, a, b)
  BY DEF Joined

Sends(q, w, n) ==
  /\ q \in Seq(Word) /\ Len(q) = 2 * Len(w) + 4 /\ q[1] = C(17, 0) /\ q[2] = C(18, 0)
  /\ \A k \in 1 .. Len(w) : q[2 * k + 1] = C(19, w[k].lo) /\ q[2 * k + 2] = C(20, w[k].hi)
  /\ q[2 * Len(w) + 3] = C(32, n) /\ q[2 * Len(w) + 4] = C(11, 1)

LEMMA FrameCommands ==
  ASSUME NEW b, NEW w \in Seq(Word), w = Packet!Words32(Packet!NetworkBytes(b)), NEW n \in Halves
  PROVE  Sends(Packet!SendFrame(b, n), w, n)
<1> DEFINE L == Len(w)
           x == <<C(17, 0), C(18, 0)>>
           at(f) == LET v == w[(f + 1) \div 2] IN IF f % 2 = 1 THEN Packet!Command(19, v.lo) ELSE Packet!Command(20, v.hi)
           y == [f \in 1 .. 2 * L |-> at(f)]
           z == <<C(32, n)>>
           u == <<C(11, 1)>>
<1>1. /\ Packet!Command(17, 0) = C(17, 0) /\ C(17, 0) \in Word /\ Packet!Command(18, 0) = C(18, 0)
         /\ C(18, 0) \in Word
      /\ Packet!Command(32 + 0, n) = C(32, n) /\ C(32, n) \in Word /\ Packet!Command(11, 1) = C(11, 1)
         /\ C(11, 1) \in Word
  <2>1. 0 \in Halves /\ 1 \in Halves
    BY WidthIs, SMT DEF Halves
  <2>2. 17 \in 0 .. 110 /\ 18 \in 0 .. 110 /\ 32 \in 0 .. 110 /\ 11 \in 0 .. 110 /\ 32 + 0 = 32
    OBVIOUS
  <2> QED BY <2>1, <2>2, CommandIs
<1>2. L \in Nat /\ \A k \in 1 .. L : w[k].lo \in Halves /\ w[k].hi \in Halves
  <2>1. L \in Nat /\ \A k \in 1 .. L : w[k] \in Word
    OBVIOUS
  <2>2. \A v \in Word : v.lo \in Halves /\ v.hi \in Halves
    BY DEF Word
  <2> QED BY <2>1, <2>2, Zenon
<1>3. ASSUME NEW k \in 1 .. L
      PROVE  /\ 2 * k - 1 \in 1 .. 2 * L /\ at(2 * k - 1) = C(19, w[k].lo)
             /\ 2 * k \in 1 .. 2 * L /\ at(2 * k) = C(20, w[k].hi)
             /\ C(19, w[k].lo) \in Word /\ C(20, w[k].hi) \in Word
  <2>1. /\ 2 * k - 1 \in 1 .. 2 * L /\ ((2 * k - 1) + 1) \div 2 = k /\ (2 * k - 1) % 2 = 1
        /\ 2 * k \in 1 .. 2 * L /\ (2 * k + 1) \div 2 = k /\ (2 * k) % 2 # 1
    BY <1>2, SMT
  <2>2. 19 \in 0 .. 110 /\ 20 \in 0 .. 110
    OBVIOUS
  <2>3. /\ Packet!Command(19, w[k].lo) = C(19, w[k].lo) /\ C(19, w[k].lo) \in Word
        /\ Packet!Command(20, w[k].hi) = C(20, w[k].hi) /\ C(20, w[k].hi) \in Word
    BY <1>2, <2>2, CommandIs
  <2> QED BY <2>1, <2>3
<1>4. Packet!SendFrame(b, n) = ((x \o y) \o z) \o u
  <2>1. [hi |-> 0, lo |-> 0].lo = 0 /\ [hi |-> 0, lo |-> 0].hi = 0
    OBVIOUS
  <2>2. Packet!WriteMemory([hi |-> 0, lo |-> 0], w) = x \o y
    BY <1>1, <2>1, Zenon DEF Packet!WriteMemory
  <2>3. Packet!WriteRegister(0, n) = z /\ Packet!SendPulse(1) = u
    BY <1>1, Zenon DEF Packet!WriteRegister, Packet!SendPulse
  <2> QED BY <2>2, <2>3, Zenon DEF Packet!SendFrame
<1>5. x \in Seq(Word) /\ Len(x) = 2 /\ x[1] = C(17, 0) /\ x[2] = C(18, 0)
  BY <1>1
<1>6. z \in Seq(Word) /\ Len(z) = 1 /\ z[1] = C(32, n) /\ u \in Seq(Word) /\ Len(u) = 1 /\ u[1] = C(11, 1)
  BY <1>1
<1>7. y \in Seq(Word) /\ Len(y) = 2 * L /\ \A f \in 1 .. 2 * L : y[f] = at(f)
  <2>1. ASSUME NEW f \in 1 .. 2 * L PROVE at(f) \in Word
    <3>1. PICK k \in 1 .. L : f = 2 * k - 1 \/ f = 2 * k
      <4>1. (f + 1) \div 2 \in 1 .. L /\ (f = 2 * ((f + 1) \div 2) - 1 \/ f = 2 * ((f + 1) \div 2))
        BY <1>2, SMT
      <4> QED BY <4>1
    <3> HIDE DEF at
    <3> QED BY <1>3, <3>1
  <2> HIDE DEF at
  <2> QED BY <1>2, <2>1
<1> HIDE DEF x, y, z, u, L, at
<1>8. /\ x \o y \in Seq(Word) /\ Len(x \o y) = 2 * L + 2 /\ (x \o y)[1] = x[1] /\ (x \o y)[2] = x[2]
      /\ \A f \in 1 .. 2 * L : (x \o y)[2 + f] = y[f]
  <2>1. /\ x \o y \in Seq(Word) /\ Len(x \o y) = Len(x) + Len(y)
        /\ \A g \in 1 .. Len(x) : (x \o y)[g] = x[g]
        /\ \A g \in 1 .. Len(y) : (x \o y)[Len(x) + g] = y[g]
    <3>1. Joined(Word, x, y)
      BY <1>5, <1>7, CatIs, Zenon
    <3> QED BY <3>1, Zenon DEF Joined
  <2> DEFINE q == x \o y
  <2> HIDE DEF q
  <2>2. /\ q \in Seq(Word) /\ Len(q) = 2 * L + 2 /\ q[1] = x[1] /\ q[2] = x[2]
        /\ \A f \in 1 .. 2 * L : q[2 + f] = y[f]
    BY <1>2, <1>5, <1>7, <2>1 DEF q
  <2> QED BY <2>2 DEF q
<1> DEFINE q == x \o y
<1> HIDE DEF q
<1>9. /\ q \o z \in Seq(Word) /\ Len(q \o z) = 2 * L + 3
      /\ \A f \in 1 .. 2 * L + 2 : (q \o z)[f] = q[f]
      /\ (q \o z)[2 * L + 3] = C(32, n)
  <2>1. q \in Seq(Word) /\ Len(q) = 2 * L + 2
    BY <1>8 DEF q
  <2>2. /\ q \o z \in Seq(Word) /\ Len(q \o z) = Len(q) + Len(z)
        /\ \A g \in 1 .. Len(q) : (q \o z)[g] = q[g]
        /\ \A g \in 1 .. Len(z) : (q \o z)[Len(q) + g] = z[g]
    <3>1. Joined(Word, q, z)
      BY <1>6, <2>1, CatIs, Zenon
    <3> QED BY <3>1, Zenon DEF Joined
  <2> DEFINE d == q \o z
  <2> HIDE DEF d
  <2>3. /\ d \in Seq(Word) /\ Len(d) = 2 * L + 3 /\ (\A f \in 1 .. 2 * L + 2 : d[f] = q[f])
        /\ d[2 * L + 3] = C(32, n)
    BY <1>2, <1>6, <2>1, <2>2 DEF d
  <2> QED BY <2>3 DEF d
<1> DEFINE d == q \o z
<1> HIDE DEF d
<1>10. /\ Packet!SendFrame(b, n) \in Seq(Word) /\ Len(Packet!SendFrame(b, n)) = 2 * L + 4
       /\ \A f \in 1 .. 2 * L + 3 : Packet!SendFrame(b, n)[f] = d[f]
       /\ Packet!SendFrame(b, n)[2 * L + 4] = C(11, 1)
  <2>1. d \in Seq(Word) /\ Len(d) = 2 * L + 3
    BY <1>9 DEF d
  <2>2. /\ d \o u \in Seq(Word) /\ Len(d \o u) = Len(d) + Len(u)
        /\ \A g \in 1 .. Len(d) : (d \o u)[g] = d[g]
        /\ \A g \in 1 .. Len(u) : (d \o u)[Len(d) + g] = u[g]
    <3>1. Joined(Word, d, u)
      BY <1>6, <2>1, CatIs, Zenon
    <3> QED BY <3>1, Zenon DEF Joined
  <2>3. Packet!SendFrame(b, n) = d \o u
    BY <1>4, Zenon DEF d, q
  <2> DEFINE e == d \o u
  <2> HIDE DEF e
  <2>4. /\ e \in Seq(Word) /\ Len(e) = 2 * L + 4 /\ (\A f \in 1 .. 2 * L + 3 : e[f] = d[f])
        /\ e[2 * L + 4] = C(11, 1)
    BY <1>2, <1>6, <2>1, <2>2 DEF e
  <2> QED BY <2>3, <2>4 DEF e
<1>11. Packet!SendFrame(b, n)[1] = C(17, 0) /\ Packet!SendFrame(b, n)[2] = C(18, 0)
       /\ Packet!SendFrame(b, n)[2 * L + 3] = C(32, n)
  <2>1. 1 \in 1 .. 2 * L + 3 /\ 2 \in 1 .. 2 * L + 3 /\ 2 * L + 3 \in 1 .. 2 * L + 3 /\ 1 \in 1 .. 2 * L + 2
        /\ 2 \in 1 .. 2 * L + 2
    BY <1>2
  <2>2. Packet!SendFrame(b, n)[1] = q[1] /\ Packet!SendFrame(b, n)[2] = q[2]
        /\ Packet!SendFrame(b, n)[2 * L + 3] = C(32, n)
    <3>1. Packet!SendFrame(b, n)[1] = d[1] /\ Packet!SendFrame(b, n)[2] = d[2]
          /\ Packet!SendFrame(b, n)[2 * L + 3] = d[2 * L + 3]
      BY <1>10, <2>1, Zenon
    <3>2. (\A f \in 1 .. 2 * L + 2 : d[f] = q[f]) /\ d[2 * L + 3] = C(32, n)
      BY <1>9, Zenon DEF d
    <3>3. d[1] = q[1] /\ d[2] = q[2]
      BY <2>1, <3>2, Zenon
    <3> QED BY <3>1, <3>2, <3>3, Zenon
  <2>3. q[1] = C(17, 0) /\ q[2] = C(18, 0)
    BY <1>5, <1>8, Zenon DEF q
  <2> QED BY <2>2, <2>3, Zenon
<1>12. ASSUME NEW k \in 1 .. L
       PROVE  Packet!SendFrame(b, n)[2 * k + 1] = C(19, w[k].lo) /\ Packet!SendFrame(b, n)[2 * k + 2] = C(20, w[k].hi)
  <2>1. /\ 2 * k + 1 = 2 + (2 * k - 1) /\ 2 * k + 2 = 2 + 2 * k /\ 2 * k + 1 \in 1 .. 2 * L + 2
           /\ 2 * k + 2 \in 1 .. 2 * L + 2
        /\ 2 * k + 1 \in 1 .. 2 * L + 3 /\ 2 * k + 2 \in 1 .. 2 * L + 3
    BY <1>2
  <2>2. Packet!SendFrame(b, n)[2 * k + 1] = (x \o y)[2 * k + 1]
        /\ Packet!SendFrame(b, n)[2 * k + 2] = (x \o y)[2 * k + 2]
    BY <1>9, <1>10, <2>1 DEF d, q
  <2>3. (x \o y)[2 * k + 1] = y[2 * k - 1] /\ (x \o y)[2 * k + 2] = y[2 * k]
    BY <1>3, <1>8, <2>1
  <2> QED BY <1>3, <1>7, <2>2, <2>3
<1> QED BY <1>10, <1>11, <1>12, Zenon DEF L, Sends

(* A sequence in its place in another, and after another.                  *)
Placed(f, o, t) == o + Len(t) <= Len(f) /\ \A k \in 1 .. Len(t) : f[o + k] = t[k]
After(f, s, t) == f = s \o t
Extends(f, s) == \A o \in Nat, r \in Seq(Halves) : Placed(s, o, r) => Placed(f, o, r)
Numbers == Seq(Halves)

LEMMA PairIs ==
  ASSUME NEW d \in Halves \X Halves
  PROVE  d \in Numbers /\ Len(d) = 2
<1>1. PICK x \in Halves, y \in Halves : d = <<x, y>>
  OBVIOUS
<1>2. <<x, y>> \in Seq(Halves) /\ Len(<<x, y>>) = 2
  OBVIOUS
<1> QED BY <1>1, <1>2, Zenon DEF Numbers

LEMMA PlaceFirst ==
  ASSUME NEW s \in Numbers
  PROVE  Placed(s, 0, s)
  BY DEF Placed, Numbers

LEMMA PlaceLast ==
  ASSUME NEW s \in Numbers, NEW t \in Numbers, NEW f, After(f, s, t)
  PROVE  f \in Numbers /\ Len(f) = Len(s) + Len(t) /\ Placed(f, Len(s), t)
<1>1. Joined(Halves, s, t)
  BY CatIs DEF Numbers
<1>2. f \in Seq(Halves) /\ Len(f) = Len(s) + Len(t) /\ \A k \in 1 .. Len(t) : f[Len(s) + k] = t[k]
  BY <1>1, Zenon DEF Joined, After
<1>3. Len(s) \in Nat /\ Len(t) \in Nat
  BY DEF Numbers
<1>4. Len(s) + Len(t) <= Len(f)
  BY <1>2, <1>3
<1> QED BY <1>2, <1>4 DEF Placed, Numbers

LEMMA PlaceKept ==
  ASSUME NEW s \in Numbers, NEW t \in Numbers, NEW f, After(f, s, t)
  PROVE  Extends(f, s)
<1>1. Joined(Halves, s, t)
  BY CatIs DEF Numbers
<1>2. Len(f) = Len(s) + Len(t) /\ \A k \in 1 .. Len(s) : f[k] = s[k]
  BY <1>1, Zenon DEF Joined, After
<1>3. Len(s) \in Nat /\ Len(t) \in Nat
  BY DEF Numbers
<1> SUFFICES ASSUME NEW o \in Nat, NEW r \in Seq(Halves), Placed(s, o, r) PROVE Placed(f, o, r)
  BY Zenon DEF Extends
<1>4. o + Len(r) <= Len(s) /\ Len(r) \in Nat /\ \A k \in 1 .. Len(r) : s[o + k] = r[k]
  BY DEF Placed
<1>5. ASSUME NEW k \in 1 .. Len(r) PROVE f[o + k] = r[k]
  <2>1. o + k \in 1 .. Len(s)
    BY <1>3, <1>4
  <2> QED BY <1>2, <1>4, <2>1
<1>6. o + Len(r) <= Len(f)
  BY <1>2, <1>3, <1>4
<1> QED BY <1>5, <1>6 DEF Placed

LEMMA AfterIs ==
  ASSUME NEW s \in Numbers, NEW t \in Numbers, NEW f, After(f, s, t)
  PROVE  /\ f \in Numbers /\ Len(f) = Len(s) + Len(t) /\ Placed(f, Len(s), t)
         /\ \A o \in Nat, r \in Numbers : Placed(s, o, r) => Placed(f, o, r)
  BY PlaceLast, PlaceKept, Zenon DEF Extends, Numbers

LEMMA HalfIn ==
  ASSUME NEW x \in Octets, NEW y \in Octets
  PROVE  Packet!Half(x, y) \in Halves /\ Packet!Half(x, y) \div 256 = x /\ Packet!Half(x, y) % 256 = y
<1>1. 256 * x + y = y + 256 * x
  BY DEF Octets
<1>2. y + 256 * x \in Halves /\ (y + 256 * x) % 256 = y /\ (y + 256 * x) \div 256 = x
  BY HalfOfBytes
<1> QED BY <1>1, <1>2 DEF Packet!Half

LEMMA AddressesIn ==
  /\ Packet!srcMAC \in Numbers /\ Len(Packet!srcMAC) = 3 /\ Packet!dstMAC \in Numbers /\ Len(Packet!dstMAC) = 3
  /\ Packet!srcIP \in Numbers /\ Len(Packet!srcIP) = 2
<1>1. ASSUME NEW x \in Octets, NEW y \in Octets PROVE Packet!Half(x, y) \in Halves
  BY HalfIn
<1>2. /\ 0 \in Octets /\ 10 \in Octets /\ 53 \in Octets /\ 2 \in Octets /\ 167 \in Octets /\ 89 \in Octets
      /\ 144 \in Octets /\ 226 \in Octets /\ 186 \in Octets /\ 75 \in Octets /\ 212 \in Octets /\ 180 \in Octets
      /\ 192 \in Octets /\ 168 \in Octets /\ 3 \in Octets
  BY DEF Octets
<1>3. /\ Packet!Half(0, 10) \in Halves /\ Packet!Half(53, 2) \in Halves /\ Packet!Half(167, 89) \in Halves
      /\ Packet!Half(144, 226) \in Halves /\ Packet!Half(186, 75) \in Halves /\ Packet!Half(212, 180) \in Halves
      /\ Packet!Half(192, 168) \in Halves /\ Packet!Half(3, 2) \in Halves
  BY <1>1, <1>2
<1> QED BY <1>3 DEF Packet!srcMAC, Packet!dstMAC, Packet!srcIP, Numbers

ArpFields == <<Packet!Half(8, 6), 1, Packet!Half(8, 0), Packet!Half(6, 4), 2>>
LEMMA ArpFieldsIn == ArpFields \in Numbers /\ Len(ArpFields) = 5
<1>1. /\ Packet!Half(8, 6) \in Halves /\ 1 \in Halves /\ Packet!Half(8, 0) \in Halves
         /\ Packet!Half(6, 4) \in Halves /\ 2 \in Halves
  <2>1. 8 \in Octets /\ 6 \in Octets /\ 0 \in Octets /\ 4 \in Octets
    BY DEF Octets
  <2>2. 1 \in Halves /\ 2 \in Halves
    BY WidthIs, SMT DEF Halves
  <2> QED BY <2>1, <2>2, HalfIn
<1> QED BY <1>1 DEF ArpFields, Numbers

LEMMA ArpIs ==
  ASSUME NEW d \in Numbers, Len(d) = 2, NEW f, f = Packet!ArpReply(Packet!srcMAC, Packet!srcIP, Packet!dstMAC, d)
  PROVE  /\ f \in Numbers /\ Len(f) = 21
         /\ Placed(f, 0, Packet!dstMAC) /\ Placed(f, 3, Packet!srcMAC) /\ Placed(f, 6, ArpFields)
            /\ Placed(f, 11, Packet!srcMAC)
         /\ Placed(f, 14, Packet!srcIP) /\ Placed(f, 16, Packet!dstMAC) /\ Placed(f, 19, d)
<1> DEFINE b == Packet!dstMAC \o Packet!srcMAC
           c == b \o ArpFields
           e == c \o Packet!srcMAC
           g == e \o Packet!srcIP
           h == g \o Packet!dstMAC
           y == h \o d
<1>1. f = y
  BY Zenon DEF Packet!ArpReply, ArpFields
<1>2. After(b, Packet!dstMAC, Packet!srcMAC) /\ After(c, b, ArpFields) /\ After(e, c, Packet!srcMAC)
      /\ After(g, e, Packet!srcIP) /\ After(h, g, Packet!dstMAC) /\ After(y, h, d)
  BY Zenon DEF After
<1> HIDE DEF b, c, e, g, h, y
<1>3. b \in Numbers /\ Len(b) = 6 /\ Placed(b, 0, Packet!dstMAC) /\ Placed(b, 3, Packet!srcMAC)
  <2>1. Packet!dstMAC \in Numbers /\ Len(Packet!dstMAC) = 3 /\ Packet!srcMAC \in Numbers /\ Len(Packet!srcMAC) = 3
        /\ After(b, Packet!dstMAC, Packet!srcMAC)
    BY <1>2, AddressesIn, ArpFieldsIn, Zenon
  <2>2. b \in Numbers /\ Len(b) = Len(Packet!dstMAC) + Len(Packet!srcMAC)
        /\ Placed(b, Len(Packet!dstMAC), Packet!srcMAC)
    BY <2>1, AfterIs, Zenon
  <2>3. \A o \in Nat, r \in Numbers : Placed(Packet!dstMAC, o, r) => Placed(b, o, r)
    BY <2>1, AfterIs, Zenon
  <2>4. Len(b) = 6 /\ Placed(b, 3, Packet!srcMAC)
    BY <2>1, <2>2
  <2> QED BY PlaceFirst, <2>2, <2>3, <2>4, AddressesIn, ArpFieldsIn
<1>4. c \in Numbers /\ Len(c) = 11 /\ Placed(c, 0, Packet!dstMAC) /\ Placed(c, 3, Packet!srcMAC)
      /\ Placed(c, 6, ArpFields)
  <2>1. b \in Numbers /\ Len(b) = 6 /\ ArpFields \in Numbers /\ Len(ArpFields) = 5 /\ After(c, b, ArpFields)
    BY <1>2, <1>3, AddressesIn, ArpFieldsIn, Zenon
  <2>2. c \in Numbers /\ Len(c) = Len(b) + Len(ArpFields) /\ Placed(c, Len(b), ArpFields)
    BY <2>1, AfterIs, Zenon
  <2>3. \A o \in Nat, r \in Numbers : Placed(b, o, r) => Placed(c, o, r)
    BY <2>1, AfterIs, Zenon
  <2>4. Len(c) = 11 /\ Placed(c, 6, ArpFields)
    BY <2>1, <2>2
  <2> QED BY <1>3, <2>2, <2>3, <2>4, AddressesIn, ArpFieldsIn
<1>5. e \in Numbers /\ Len(e) = 14 /\ Placed(e, 0, Packet!dstMAC) /\ Placed(e, 3, Packet!srcMAC)
      /\ Placed(e, 6, ArpFields) /\ Placed(e, 11, Packet!srcMAC)
  <2>1. c \in Numbers /\ Len(c) = 11 /\ Packet!srcMAC \in Numbers /\ Len(Packet!srcMAC) = 3
        /\ After(e, c, Packet!srcMAC)
    BY <1>2, <1>4, AddressesIn, ArpFieldsIn, Zenon
  <2>2. e \in Numbers /\ Len(e) = Len(c) + Len(Packet!srcMAC) /\ Placed(e, Len(c), Packet!srcMAC)
    BY <2>1, AfterIs, Zenon
  <2>3. \A o \in Nat, r \in Numbers : Placed(c, o, r) => Placed(e, o, r)
    BY <2>1, AfterIs, Zenon
  <2>4. Len(e) = 14 /\ Placed(e, 11, Packet!srcMAC)
    BY <2>1, <2>2
  <2> QED BY <1>4, <2>2, <2>3, <2>4, AddressesIn, ArpFieldsIn
<1>6. g \in Numbers /\ Len(g) = 16 /\ Placed(g, 0, Packet!dstMAC) /\ Placed(g, 3, Packet!srcMAC)
      /\ Placed(g, 6, ArpFields) /\ Placed(g, 11, Packet!srcMAC) /\ Placed(g, 14, Packet!srcIP)
  <2>1. e \in Numbers /\ Len(e) = 14 /\ Packet!srcIP \in Numbers /\ Len(Packet!srcIP) = 2 /\ After(g, e, Packet!srcIP)
    BY <1>2, <1>5, AddressesIn, ArpFieldsIn, Zenon
  <2>2. g \in Numbers /\ Len(g) = Len(e) + Len(Packet!srcIP) /\ Placed(g, Len(e), Packet!srcIP)
    BY <2>1, AfterIs, Zenon
  <2>3. \A o \in Nat, r \in Numbers : Placed(e, o, r) => Placed(g, o, r)
    BY <2>1, AfterIs, Zenon
  <2>4. Len(g) = 16 /\ Placed(g, 14, Packet!srcIP)
    BY <2>1, <2>2
  <2> QED BY <1>5, <2>2, <2>3, <2>4, AddressesIn, ArpFieldsIn
<1>7. h \in Numbers /\ Len(h) = 19 /\ Placed(h, 0, Packet!dstMAC) /\ Placed(h, 3, Packet!srcMAC)
      /\ Placed(h, 6, ArpFields) /\ Placed(h, 11, Packet!srcMAC) /\ Placed(h, 14, Packet!srcIP)
         /\ Placed(h, 16, Packet!dstMAC)
  <2>1. g \in Numbers /\ Len(g) = 16 /\ Packet!dstMAC \in Numbers /\ Len(Packet!dstMAC) = 3
        /\ After(h, g, Packet!dstMAC)
    BY <1>2, <1>6, AddressesIn, ArpFieldsIn, Zenon
  <2>2. h \in Numbers /\ Len(h) = Len(g) + Len(Packet!dstMAC) /\ Placed(h, Len(g), Packet!dstMAC)
    BY <2>1, AfterIs, Zenon
  <2>3. \A o \in Nat, r \in Numbers : Placed(g, o, r) => Placed(h, o, r)
    BY <2>1, AfterIs, Zenon
  <2>4. Len(h) = 19 /\ Placed(h, 16, Packet!dstMAC)
    BY <2>1, <2>2
  <2> QED BY <1>6, <2>2, <2>3, <2>4, AddressesIn, ArpFieldsIn
<1>8. y \in Numbers /\ Len(y) = 21 /\ Placed(y, 0, Packet!dstMAC) /\ Placed(y, 3, Packet!srcMAC)
      /\ Placed(y, 6, ArpFields) /\ Placed(y, 11, Packet!srcMAC) /\ Placed(y, 14, Packet!srcIP)
         /\ Placed(y, 16, Packet!dstMAC) /\ Placed(y, 19, d)
  <2>1. h \in Numbers /\ Len(h) = 19 /\ d \in Numbers /\ Len(d) = 2 /\ After(y, h, d)
    BY <1>2, <1>7, AddressesIn, ArpFieldsIn, Zenon
  <2>2. y \in Numbers /\ Len(y) = Len(h) + Len(d) /\ Placed(y, Len(h), d)
    BY <2>1, AfterIs, Zenon
  <2>3. \A o \in Nat, r \in Numbers : Placed(h, o, r) => Placed(y, o, r)
    BY <2>1, AfterIs, Zenon
  <2>4. Len(y) = 21 /\ Placed(y, 19, d)
    BY <2>1, <2>2
  <2> QED BY <1>7, <2>2, <2>3, <2>4, AddressesIn, ArpFieldsIn
<1> QED BY <1>1, <1>8, Zenon

(* The numbers of a UDP frame after the Ethernet type.                     *)
Sizes == 0 .. Packet!W16 - 49
SixFields(n, q) == <<Packet!Half(69, 0), (n + 34) % Packet!W16, 0, 0, Packet!Half(64, 17), q>>
SrcPort == 60002
DstPort == 60001
SevenFields(n) == <<SrcPort, DstPort, (n + 14) % Packet!W16, 0, Packet!Half(121, 77), Packet!Half(101, 105), Packet!Half(73, 80)>>
TypeField == <<Packet!Half(8, 0)>>

LEMMA PortsIn == SrcPort \in Halves /\ DstPort \in Halves
  BY SMT DEF SrcPort, DstPort, Halves, Packet!W16

LEMMA SizesIn ==
  ASSUME NEW n \in Sizes
  PROVE  /\ n \in Nat /\ n \in Halves /\ n + 14 \in Halves /\ n + 34 \in Halves /\ n + 48 \in Halves
         /\ (n + 14) % Packet!W16 = n + 14 /\ (n + 34) % Packet!W16 = n + 34
<1>1. n \in Nat /\ n \in Halves /\ n + 14 \in Halves /\ n + 34 \in Halves /\ n + 48 \in Halves
  BY WidthIs, SMT DEF Sizes, Halves
<1> QED BY <1>1, Below

LEMMA TypeFieldIn == TypeField \in Numbers /\ Len(TypeField) = 1
<1>1. Packet!Half(8, 0) \in Halves
  <2>1. 8 \in Octets /\ 0 \in Octets
    BY DEF Octets
  <2> QED BY <2>1, HalfIn
<1> QED BY <1>1 DEF TypeField, Numbers

LEMMA SixIn ==
  ASSUME NEW n \in Sizes, NEW q \in Halves
  PROVE  SixFields(n, q) \in Numbers /\ Len(SixFields(n, q)) = 6
<1>1. Packet!Half(69, 0) \in Halves /\ Packet!Half(64, 17) \in Halves /\ 0 \in Halves
  <2>1. 69 \in Octets /\ 0 \in Octets /\ 64 \in Octets /\ 17 \in Octets
    BY DEF Octets
  <2> QED BY <2>1, HalfIn, WidthIs
<1>2. (n + 34) % Packet!W16 \in Halves
  BY SizesIn
<1> DEFINE x == Packet!Half(69, 0)
           y == (n + 34) % Packet!W16
           z == Packet!Half(64, 17)
<1> HIDE DEF x, y, z
<1>3. x \in Halves /\ y \in Halves /\ z \in Halves /\ 0 \in Halves
  BY <1>1, <1>2 DEF x, y, z
<1>4. <<x, y, 0, 0, z, q>> \in Seq(Halves) /\ Len(<<x, y, 0, 0, z, q>>) = 6
  BY <1>3
<1> QED BY <1>4, Zenon DEF SixFields, Numbers, x, y, z

LEMMA SevenIn ==
  ASSUME NEW n \in Sizes
  PROVE  SevenFields(n) \in Numbers /\ Len(SevenFields(n)) = 7
<1> DEFINE u == (n + 14) % Packet!W16
           x == Packet!Half(121, 77)
           y == Packet!Half(101, 105)
           z == Packet!Half(73, 80)
<1>1. x \in Halves /\ y \in Halves /\ z \in Halves
  <2>1. 121 \in Octets /\ 77 \in Octets /\ 101 \in Octets /\ 105 \in Octets /\ 73 \in Octets /\ 80 \in Octets
    BY DEF Octets
  <2> QED BY <2>1, HalfIn
<1>2. u \in Halves /\ 0 \in Halves
  BY SizesIn, WidthIs
<1> HIDE DEF u, x, y, z
<1>4. <<SrcPort, DstPort, u, 0, x, y, z>> \in Seq(Halves) /\ Len(<<SrcPort, DstPort, u, 0, x, y, z>>) = 7
  BY <1>1, <1>2, PortsIn
<1> QED BY <1>4, Zenon DEF SevenFields, Numbers, u, x, y, z

LEMMA HeaderIs ==
  ASSUME NEW n \in Sizes, NEW q \in Halves, NEW d \in Numbers, Len(d) = 2, NEW f, f = Packet!IpHeader(n, q, Packet!srcIP, d)
  PROVE  /\ f \in Numbers /\ Len(f) = 10
         /\ Placed(f, 0, SixFields(n, q)) /\ Placed(f, 6, Packet!srcIP) /\ Placed(f, 8, d)
<1> DEFINE a == SixFields(n, q)
           b == a \o Packet!srcIP
           y == b \o d
<1>1. f = y
  BY Zenon DEF Packet!IpHeader, SixFields
<1>2. After(b, a, Packet!srcIP) /\ After(y, b, d)
  BY Zenon DEF After
<1>3. a \in Numbers /\ Len(a) = 6
  BY SixIn
<1> HIDE DEF a, b, y
<1>4. b \in Numbers /\ Len(b) = 8 /\ Placed(b, 0, a) /\ Placed(b, 6, Packet!srcIP)
  <2>1. a \in Numbers /\ Len(a) = 6 /\ Packet!srcIP \in Numbers /\ Len(Packet!srcIP) = 2 /\ After(b, a, Packet!srcIP)
    BY <1>2, <1>3, AddressesIn, Zenon
  <2>2. b \in Numbers /\ Len(b) = Len(a) + Len(Packet!srcIP) /\ Placed(b, Len(a), Packet!srcIP)
    BY <2>1, AfterIs, Zenon
  <2>3. \A o \in Nat, r \in Numbers : Placed(a, o, r) => Placed(b, o, r)
    BY <2>1, AfterIs, Zenon
  <2>4. Len(b) = 8 /\ Placed(b, 6, Packet!srcIP)
    BY <2>1, <2>2
  <2> QED BY PlaceFirst, <2>1, <2>2, <2>3, <2>4
<1>5. y \in Numbers /\ Len(y) = 10 /\ Placed(y, 0, a) /\ Placed(y, 6, Packet!srcIP) /\ Placed(y, 8, d)
  <2>1. b \in Numbers /\ Len(b) = 8 /\ d \in Numbers /\ Len(d) = 2 /\ After(y, b, d)
    BY <1>2, <1>4, Zenon
  <2>2. y \in Numbers /\ Len(y) = Len(b) + Len(d) /\ Placed(y, Len(b), d)
    BY <2>1, AfterIs, Zenon
  <2>3. \A o \in Nat, r \in Numbers : Placed(b, o, r) => Placed(y, o, r)
    BY <2>1, AfterIs, Zenon
  <2>4. Len(y) = 10 /\ Placed(y, 8, d)
    BY <2>1, <2>2
  <2> QED BY <1>3, <1>4, <2>2, <2>3, <2>4, AddressesIn
<1> QED BY <1>1, <1>5, Zenon DEF a

UdpOf(d, n) == Packet!Udp(Packet!srcMAC, Packet!srcIP, 60002, Packet!dstMAC, d, 60001, n)
LEMMA UdpPorts ==
  ASSUME NEW d, NEW n
  PROVE  UdpOf(d, n) = Packet!Udp(Packet!srcMAC, Packet!srcIP, SrcPort, Packet!dstMAC, d, DstPort, n)
  BY SMT DEF UdpOf, SrcPort, DstPort

LEMMA UdpIs ==
  ASSUME NEW n \in Sizes, NEW d \in Numbers, Len(d) = 2, NEW q \in Halves,
         q = Packet!Checksum(Packet!IpHeader(n, 0, Packet!srcIP, d)), NEW h, h = Packet!IpHeader(n, q, Packet!srcIP, d),
         NEW f, f = UdpOf(d, n)
  PROVE  /\ f \in Numbers /\ Len(f) = 24 /\ h \in Numbers /\ Len(h) = 10
         /\ Placed(f, 0, Packet!dstMAC) /\ Placed(f, 3, Packet!srcMAC) /\ Placed(f, 6, TypeField)
         /\ Placed(f, 7, h) /\ Placed(f, 17, SevenFields(n))
<1> DEFINE v == SevenFields(n)
           b == Packet!dstMAC \o Packet!srcMAC
           c == b \o TypeField
           e == c \o h
           y == e \o v
<1>1. f = y
  <2>1. f = Packet!Udp(Packet!srcMAC, Packet!srcIP, SrcPort, Packet!dstMAC, d, DstPort, n)
    BY UdpPorts, Zenon
  <2> QED BY <2>1, Zenon DEF Packet!Udp, SevenFields, TypeField
<1>2. After(b, Packet!dstMAC, Packet!srcMAC) /\ After(c, b, TypeField) /\ After(e, c, h) /\ After(y, e, v)
  BY Zenon DEF After
<1>3. v \in Numbers /\ Len(v) = 7 /\ h \in Numbers /\ Len(h) = 10
  BY SevenIn, HeaderIs
<1> HIDE DEF v, b, c, e, y
<1>4. b \in Numbers /\ Len(b) = 6 /\ Placed(b, 0, Packet!dstMAC) /\ Placed(b, 3, Packet!srcMAC)
  <2>1. Packet!dstMAC \in Numbers /\ Len(Packet!dstMAC) = 3 /\ Packet!srcMAC \in Numbers /\ Len(Packet!srcMAC) = 3
        /\ After(b, Packet!dstMAC, Packet!srcMAC)
    BY <1>2, AddressesIn, Zenon
  <2>2. b \in Numbers /\ Len(b) = Len(Packet!dstMAC) + Len(Packet!srcMAC)
        /\ Placed(b, Len(Packet!dstMAC), Packet!srcMAC)
    BY <2>1, AfterIs, Zenon
  <2>3. \A o \in Nat, r \in Numbers : Placed(Packet!dstMAC, o, r) => Placed(b, o, r)
    BY <2>1, AfterIs, Zenon
  <2>4. Len(b) = 6 /\ Placed(b, 3, Packet!srcMAC)
    BY <2>1, <2>2
  <2> QED BY PlaceFirst, <2>1, <2>2, <2>3, <2>4
<1>5. c \in Numbers /\ Len(c) = 7 /\ Placed(c, 0, Packet!dstMAC) /\ Placed(c, 3, Packet!srcMAC)
      /\ Placed(c, 6, TypeField)
  <2>1. b \in Numbers /\ Len(b) = 6 /\ TypeField \in Numbers /\ Len(TypeField) = 1 /\ After(c, b, TypeField)
    BY <1>2, <1>4, TypeFieldIn, Zenon
  <2>2. c \in Numbers /\ Len(c) = Len(b) + Len(TypeField) /\ Placed(c, Len(b), TypeField)
    BY <2>1, AfterIs, Zenon
  <2>3. \A o \in Nat, r \in Numbers : Placed(b, o, r) => Placed(c, o, r)
    BY <2>1, AfterIs, Zenon
  <2>4. Len(c) = 7 /\ Placed(c, 6, TypeField)
    BY <2>1, <2>2
  <2> QED BY <1>4, <2>2, <2>3, <2>4, AddressesIn
<1>6. e \in Numbers /\ Len(e) = 17 /\ Placed(e, 0, Packet!dstMAC) /\ Placed(e, 3, Packet!srcMAC)
      /\ Placed(e, 6, TypeField) /\ Placed(e, 7, h)
  <2>1. c \in Numbers /\ Len(c) = 7 /\ h \in Numbers /\ Len(h) = 10 /\ After(e, c, h)
    BY <1>2, <1>3, <1>5, Zenon
  <2>2. e \in Numbers /\ Len(e) = Len(c) + Len(h) /\ Placed(e, Len(c), h)
    BY <2>1, AfterIs, Zenon
  <2>3. \A o \in Nat, r \in Numbers : Placed(c, o, r) => Placed(e, o, r)
    BY <2>1, AfterIs, Zenon
  <2>4. Len(e) = 17 /\ Placed(e, 7, h)
    BY <2>1, <2>2
  <2> QED BY <1>5, <2>2, <2>3, <2>4, AddressesIn, TypeFieldIn
<1>7. y \in Numbers /\ Len(y) = 24 /\ Placed(y, 0, Packet!dstMAC) /\ Placed(y, 3, Packet!srcMAC)
      /\ Placed(y, 6, TypeField) /\ Placed(y, 7, h) /\ Placed(y, 17, v)
  <2>1. e \in Numbers /\ Len(e) = 17 /\ v \in Numbers /\ Len(v) = 7 /\ After(y, e, v)
    BY <1>2, <1>3, <1>6, Zenon
  <2>2. y \in Numbers /\ Len(y) = Len(e) + Len(v) /\ Placed(y, Len(e), v)
    BY <2>1, AfterIs, Zenon
  <2>3. \A o \in Nat, r \in Numbers : Placed(e, o, r) => Placed(y, o, r)
    BY <2>1, AfterIs, Zenon
  <2>4. Len(y) = 24 /\ Placed(y, 17, v)
    BY <2>1, <2>2
  <2> QED BY <1>3, <1>6, <2>2, <2>3, <2>4, AddressesIn, TypeFieldIn
<1> QED BY <1>1, <1>3, <1>7, Zenon DEF v

(* The checksum.  One fold of the carries suffices where its result fits;  *)
(* the ones' complement sum is then all ones.                              *)
LEMMA WholeMultiple ==
  ASSUME NEW w \in Nat, NEW r \in 0 .. w, r > 0, NEW a \in Nat, NEW m \in Nat, w * a = r + w * m
  PROVE  r = w
<1> DEFINE z == a - m
<1>1. z \in Int /\ w * z = r
  <2>1. w * (a - m) = w * a - w * m
    BY SMT
  <2> QED BY <2>1, SMT
<1> HIDE DEF z
<1>2. CASE z <= 0
  <2>1. w * z <= 0
    BY <1>1, <1>2, SMT
  <2> QED BY <1>1, <2>1, SMT
<1>3. CASE z >= 2
  <2>1. w * z >= w * 2
    BY <1>1, <1>3, SMT
  <2> QED BY <1>1, <2>1, SMT
<1>4. CASE z = 1
  BY <1>1, <1>4, SMT
<1> QED BY <1>1, <1>2, <1>3, <1>4, SMT

LEMMA SixAt ==
  ASSUME NEW n \in Sizes, NEW q \in Halves
  PROVE  /\ SixFields(n, q)[1] = Packet!Half(69, 0) /\ SixFields(n, q)[2] = (n + 34) % Packet!W16
         /\ SixFields(n, q)[3] = 0 /\ SixFields(n, q)[4] = 0 /\ SixFields(n, q)[5] = Packet!Half(64, 17)
         /\ SixFields(n, q)[6] = q
  BY Zenon DEF SixFields

LEMMA TenNumbers ==
  ASSUME NEW S, NEW f \in Seq(S), Len(f) = 10
  PROVE  f \in [1 .. 10 -> S]
<1>1. f \in [1 .. Len(f) -> S]
  BY LenProperties
<1> QED BY <1>1, Zenon

HeaderOf(f, n, q, d) ==
  /\ f \in [Tenth -> Halves]
  /\ f[1] = Packet!Half(69, 0) /\ f[2] = (n + 34) % Packet!W16 /\ f[3] = 0 /\ f[4] = 0 /\ f[5] = Packet!Half(64, 17)
  /\ f[6] = q /\ f[7] = Packet!srcIP[1] /\ f[8] = Packet!srcIP[2] /\ f[9] = d[1] /\ f[10] = d[2]

LEMMA HeaderAt ==
  ASSUME NEW n \in Sizes, NEW q \in Halves, NEW d \in Numbers, Len(d) = 2, NEW f, f = Packet!IpHeader(n, q, Packet!srcIP, d)
  PROVE  HeaderOf(f, n, q, d)
<1>1. f \in Numbers /\ Len(f) = 10 /\ Placed(f, 0, SixFields(n, q)) /\ Placed(f, 6, Packet!srcIP) /\ Placed(f, 8, d)
  BY HeaderIs
<1>2. Len(SixFields(n, q)) = 6 /\ Len(Packet!srcIP) = 2
  BY SixIn, AddressesIn
<1>3. f \in [Tenth -> Halves]
  <2>1. f \in Seq(Halves) /\ Len(f) = 10
    BY <1>1, Zenon DEF Numbers
  <2> QED BY <2>1, TenNumbers, Zenon DEF Tenth
<1>4. /\ \A k \in 1 .. 6 : f[0 + k] = SixFields(n, q)[k]
      /\ \A k \in 1 .. 2 : f[6 + k] = Packet!srcIP[k]
      /\ \A k \in 1 .. 2 : f[8 + k] = d[k]
  BY <1>1, <1>2, Zenon DEF Placed
<1> DEFINE x == SixFields(n, q)
<1> HIDE DEF x
<1>5. /\ f[1] = x[1] /\ f[2] = x[2] /\ f[3] = x[3] /\ f[4] = x[4] /\ f[5] = x[5] /\ f[6] = x[6]
      /\ f[7] = Packet!srcIP[1] /\ f[8] = Packet!srcIP[2] /\ f[9] = d[1] /\ f[10] = d[2]
  <2>1. /\ \A k \in 1 .. 6 : f[0 + k] = x[k]
        /\ \A k \in 1 .. 2 : f[6 + k] = Packet!srcIP[k]
        /\ \A k \in 1 .. 2 : f[8 + k] = d[k]
    BY <1>4, Zenon DEF x
  <2> QED BY <2>1, SMT
<1>6. /\ x[1] = Packet!Half(69, 0) /\ x[2] = (n + 34) % Packet!W16 /\ x[3] = 0 /\ x[4] = 0
         /\ x[5] = Packet!Half(64, 17) /\ x[6] = q
  BY SixAt, Zenon DEF x
<1> QED BY <1>3, <1>5, <1>6, Zenon DEF HeaderOf

LEMMA ChecksumHolds ==
  ASSUME NEW n \in Sizes, NEW d \in Numbers, Len(d) = 2, Packet!Folded(Packet!IpHeader(n, 0, Packet!srcIP, d)) < Packet!W16,
         NEW q, q = Packet!Checksum(Packet!IpHeader(n, 0, Packet!srcIP, d))
  PROVE  q \in Halves /\ Packet!OnesSum(Packet!IpHeader(n, q, Packet!srcIP, d)) = Packet!W16 - 1
<1> DEFINE e == Packet!IpHeader(n, 0, Packet!srcIP, d)
           t == Packet!HeaderSum(e)
           u == t \div Packet!W16
           v == t % Packet!W16
           w == Packet!W16 - 1
<1>1. /\ e \in [Tenth -> Halves] /\ e[6] = 0
      /\ e[1] = Packet!Half(69, 0) /\ e[2] = (n + 34) % Packet!W16 /\ e[3] = 0 /\ e[4] = 0
         /\ e[5] = Packet!Half(64, 17)
      /\ e[7] = Packet!srcIP[1] /\ e[8] = Packet!srcIP[2] /\ e[9] = d[1] /\ e[10] = d[2]
  <2>1. 0 \in Halves
    BY WidthIs
  <2> HIDE DEF e
  <2>2. e = Packet!IpHeader(n, 0, Packet!srcIP, d)
    BY Zenon DEF e
  <2>3. HeaderOf(e, n, 0, d)
    BY <2>1, <2>2, HeaderAt, Zenon
  <2> QED BY <2>3, Zenon DEF HeaderOf
<1>2. /\ t = e[1] + e[2] + e[3] + e[4] + e[5] + e[6] + e[7] + e[8] + e[9] + e[10]
      /\ \A k \in Tenth : e[k] \in Nat
  <2>1. \A k \in Tenth : e[k] \in Nat
    BY <1>1, WidthIs, Zenon
  <2>2. e \in [Tenth -> Int]
    BY <1>1, <2>1
  <2> HIDE DEF e
  <2> QED BY <2>1, <2>2, TenSum, Zenon
<1>3. Packet!Folded(e) = u + v /\ q = Packet!W16 - 1 - (Packet!Folded(e) % Packet!W16)
  BY Zenon DEF Packet!Folded, Packet!Checksum
<1>4. t \in Nat /\ Packet!W16 \in Nat \ {0}
  <2>1. /\ e[1] \in Nat /\ e[2] \in Nat /\ e[3] \in Nat /\ e[4] \in Nat /\ e[5] \in Nat
        /\ e[6] \in Nat /\ e[7] \in Nat /\ e[8] \in Nat /\ e[9] \in Nat /\ e[10] \in Nat
    BY <1>2 DEF Tenth
  <2>2. Packet!W16 \in Nat \ {0}
    BY WidthIs
  <2> HIDE DEF e, t
  <2> QED BY <1>2, <2>1, <2>2
<1> HIDE DEF t
<1>5. u \in Nat /\ v \in 0 .. Packet!W16 - 1 /\ t = Packet!W16 * u + v
  BY <1>4, Quotient
<1> HIDE DEF u, v
<1>6. Packet!Folded(e) < Packet!W16
  OBVIOUS
<1> HIDE DEF e
<1>7. u + v \in Halves /\ (u + v) % Packet!W16 = u + v
  <2>1. u + v \in Halves
    BY <1>3, <1>4, <1>5, <1>6 DEF Halves
  <2> QED BY <2>1, Below
<1>8. q = Packet!W16 - 1 - (u + v) /\ q \in Halves
  <2>1. q = Packet!W16 - 1 - (u + v)
    BY <1>3, <1>7
  <2> QED BY <1>4, <1>7, <2>1 DEF Halves
<1> DEFINE f == Packet!IpHeader(n, q, Packet!srcIP, d)
<1> HIDE DEF f
<1>9. /\ f \in [Tenth -> Halves] /\ f[6] = q
      /\ f[1] = e[1] /\ f[2] = e[2] /\ f[3] = e[3] /\ f[4] = e[4] /\ f[5] = e[5]
      /\ f[7] = e[7] /\ f[8] = e[8] /\ f[9] = e[9] /\ f[10] = e[10]
  <2>1. f = Packet!IpHeader(n, q, Packet!srcIP, d)
    BY Zenon DEF f
  <2>2. /\ f \in [Tenth -> Halves]
        /\ f[1] = Packet!Half(69, 0) /\ f[2] = (n + 34) % Packet!W16 /\ f[3] = 0 /\ f[4] = 0
           /\ f[5] = Packet!Half(64, 17)
        /\ f[6] = q /\ f[7] = Packet!srcIP[1] /\ f[8] = Packet!srcIP[2] /\ f[9] = d[1] /\ f[10] = d[2]
    <3>1. HeaderOf(f, n, q, d)
      BY <1>8, <2>1, HeaderAt, Zenon
    <3> QED BY <3>1, Zenon DEF HeaderOf
  <2> QED BY <1>1, <2>2, Zenon
<1>10. f[1] + f[2] + f[3] + f[4] + f[5] + f[6] + f[7] + f[8] + f[9] + f[10] = t + q
  <2>1. /\ e[1] \in Nat /\ e[2] \in Nat /\ e[3] \in Nat /\ e[4] \in Nat /\ e[5] \in Nat
        /\ e[6] = 0 /\ e[7] \in Nat /\ e[8] \in Nat /\ e[9] \in Nat /\ e[10] \in Nat /\ q \in Nat
    BY <1>1, <1>2, <1>8, WidthIs DEF Tenth
  <2> QED BY <1>2, <1>9, <2>1, SMT
<1>11. Kept(Packet!OnesSum(f), t + q)
  BY <1>9, <1>10, TenOnes
<1>12. w \in Nat /\ w > 0 /\ w * (u + 1) = t + q /\ t + q > 0 /\ u + 1 \in Nat
  <2>1. Packet!W16 \in Nat /\ Packet!W16 > 110
    BY WidthIs
  <2>2. w * (u + 1) = Packet!W16 * u - u + Packet!W16 - 1
    BY <1>5, <2>1, SMT
  <2>3. t + q = Packet!W16 * u - u + Packet!W16 - 1
    BY <1>5, <1>8, <2>1, SMT
  <2>4. Packet!W16 * u - u >= 0
    BY <1>5, <2>1, SMT
  <2> QED BY <1>5, <2>1, <2>2, <2>3, <2>4, SMT
<1>13. PICK m \in Nat : t + q = Packet!OnesSum(f) + (Packet!W16 - 1) * m
  BY <1>11 DEF Kept
<1>14. Packet!OnesSum(f) \in 0 .. w /\ Packet!OnesSum(f) > 0
  BY <1>11, <1>12 DEF Kept, Halves
<1> HIDE DEF w
<1>15. Packet!OnesSum(f) = w
  <2>1. w * (u + 1) = Packet!OnesSum(f) + w * m
    BY <1>12, <1>13 DEF w
  <2> QED BY <1>12, <1>14, <2>1, WholeMultiple
<1> QED BY <1>8, <1>15 DEF f, w

(* What a program asks for: the buffer, in numbers of 16 bits, and the     *)
(* length.                                                                 *)
Buffer(c) == IF c.kind = "arp" THEN Packet!ArpReply(Packet!srcMAC, Packet!srcIP, Packet!dstMAC, c.dstIP) ELSE UdpOf(c.dstIP, c.len)
Size(c) == IF c.kind = "arp" THEN 42 ELSE 48 + c.len

(* A frame on the wire that begins with the 42 bytes of a buffer, and one  *)
(* that is right altogether.                                               *)
Begins(f, b) == \A k \in 1 .. 42 : f[k] = Packet!NetworkBytes(b)[k]
Right(f, c, n) ==
  /\ f \in Seq(Octets) /\ Len(f) = Size(c) /\ Begins(f, Buffer(c))
  /\ c.kind = "udp" => \A k \in 1 .. 6 : f[42 + k] = Packet!CountBytes(n)[k]

LEMMA BytesAt ==
  ASSUME NEW b \in Numbers, Len(b) >= 21, NEW f, Begins(f, b), NEW h \in 1 .. 21
  PROVE  f[2 * h - 1] = b[h] \div 256 /\ f[2 * h] = b[h] % 256 /\ b[h] \in Halves
<1>1. b \in Seq(Halves) /\ h \in 1 .. Len(b)
  BY DEF Numbers
<1>2. Packet!NetworkBytes(b)[2 * h - 1] = b[h] \div 256 /\ Packet!NetworkBytes(b)[2 * h] = b[h] % 256
  BY <1>1, NetIs
<1>3. 2 * h - 1 \in 1 .. 42 /\ 2 * h \in 1 .. 42
  BY SMT
<1>4. b[h] \in Halves
  BY <1>1
<1> QED BY <1>2, <1>3, <1>4, Zenon DEF Begins

(* A buffer on the wire; a piece of a buffer; the place of a field.        *)
Carries(f, b) == b \in Numbers /\ Len(b) >= 21 /\ Begins(f, b)
Piece(b, o, n, t) == t \in Numbers /\ Len(t) = n /\ Placed(b, o, t)
Fits(s, o, n) == o \in Nat /\ n \in Nat /\ o + n <= 21 /\ s = 2 * o + 1

BytesOfNumber(f, b, r) == f[2 * r - 1] = b[r] \div 256 /\ f[2 * r] = b[r] % 256
LEMMA BytesOfNumbers ==
  ASSUME NEW b, NEW f, Carries(f, b), NEW r \in 1 .. 21
  PROVE  BytesOfNumber(f, b, r)
<1>1. b \in Numbers /\ Len(b) >= 21 /\ Begins(f, b)
  BY Zenon DEF Carries
<1>2. f[2 * r - 1] = b[r] \div 256 /\ f[2 * r] = b[r] % 256 /\ b[r] \in Halves
  BY <1>1, BytesAt, Zenon
<1> QED BY <1>2, Zenon DEF BytesOfNumber

LEMMA FieldIs ==
  ASSUME NEW b, NEW f, NEW o, NEW t, NEW n, NEW s, Carries(f, b), Fits(s, o, n), Piece(b, o, n, t)
  PROVE  Packet!Field(f, s, n) = t
<1>0. /\ b \in Numbers /\ Len(b) >= 21 /\ Begins(f, b) /\ t \in Numbers /\ Len(t) = n /\ Placed(b, o, t)
      /\ o \in Nat /\ n \in Nat /\ o + n <= 21 /\ s = 2 * o + 1
  BY Zenon DEF Carries, Piece, Fits
<1>1. t = [k \in 1 .. n |-> t[k]]
  BY <1>0 DEF Numbers
<1>2. ASSUME NEW k \in 1 .. n PROVE 256 * f[s + 2 * k - 2] + f[s + 2 * k - 1] = t[k]
  <2>1. o + k \in 1 .. 21 /\ s + 2 * k - 2 = 2 * (o + k) - 1 /\ s + 2 * k - 1 = 2 * (o + k)
    BY <1>0, SMT
  <2>2. f[2 * (o + k) - 1] = b[o + k] \div 256 /\ f[2 * (o + k)] = b[o + k] % 256 /\ b[o + k] \in Halves
    BY <1>0, <2>1, BytesAt
  <2>3. 256 * (b[o + k] \div 256) + (b[o + k] % 256) = b[o + k]
    BY <2>2, BytesOfHalf
  <2>4. b[o + k] = t[k]
    BY <1>0, Zenon DEF Placed
  <2> QED BY <2>1, <2>2, <2>3, <2>4
<1>3. [k \in 1 .. n |-> 256 * f[s + 2 * k - 2] + f[s + 2 * k - 1]] = [k \in 1 .. n |-> t[k]]
  BY <1>2, Zenon
<1> QED BY <1>1, <1>3, Zenon DEF Packet!Field

LEMMA PlacedPair ==
  ASSUME NEW f, NEW o \in Nat, NEW n \in Nat, NEW s \in Numbers, NEW t \in Numbers, n = o + Len(s),
         Placed(f, o, s), Placed(f, n, t), Len(f) \in Nat
  PROVE  s \o t \in Numbers /\ Len(s \o t) = Len(s) + Len(t) /\ Placed(f, o, s \o t)
<1> DEFINE q == s \o t
<1>0. Joined(Halves, s, t)
  BY CatIs, Zenon DEF Numbers
<1>1. q \in Seq(Halves) /\ Len(q) = Len(s) + Len(t) /\ \A k \in 1 .. Len(s) : q[k] = s[k]
  BY <1>0, Zenon DEF Joined
<1>2. \A k \in 1 .. Len(t) : q[Len(s) + k] = t[k]
  BY <1>0, Zenon DEF Joined
<1>3. Len(s) \in Nat /\ Len(t) \in Nat
  BY DEF Numbers
<1> HIDE DEF q
<1>4. ASSUME NEW k \in 1 .. Len(q) PROVE f[o + k] = q[k]
  <2>1. CASE k <= Len(s)
    <3>1. k \in 1 .. Len(s)
      BY <1>1, <1>3, <2>1
    <3> QED BY <1>1, <3>1 DEF Placed
  <2>2. CASE ~(k <= Len(s))
    <3>1. k - Len(s) \in 1 .. Len(t) /\ Len(s) + (k - Len(s)) = k /\ n + (k - Len(s)) = o + k
      BY <1>1, <1>3, <2>2
    <3>2. f[n + (k - Len(s))] = t[k - Len(s)]
      BY <3>1, Zenon DEF Placed
    <3>3. q[Len(s) + (k - Len(s))] = t[k - Len(s)]
      BY <1>2, <3>1, Zenon
    <3> QED BY <3>1, <3>2, <3>3
  <2> QED BY <2>1, <2>2
<1>5. o + Len(q) <= Len(f)
  BY <1>1, <1>3 DEF Placed
<1> QED BY <1>1, <1>4, <1>5 DEF Placed, Numbers, q

(* The part of a sequence in a place.                                      *)
LEMMA PlacedIn ==
  ASSUME NEW f, NEW o \in Nat, NEW s \in Numbers, Placed(f, o, s), NEW r \in Nat, NEW t \in Numbers, Placed(s, r, t),
         Len(f) \in Nat, NEW z, z = o + r
  PROVE  Placed(f, z, t)
<1>1. Len(s) \in Nat /\ Len(t) \in Nat /\ r + Len(t) <= Len(s) /\ o + Len(s) <= Len(f)
  BY DEF Numbers, Placed
<1>2. ASSUME NEW k \in 1 .. Len(t) PROVE f[z + k] = t[k]
  <2>1. r + k \in 1 .. Len(s) /\ z + k = o + (r + k)
    BY <1>1
  <2>2. f[o + (r + k)] = s[r + k]
    BY <2>1, Zenon DEF Placed
  <2>3. s[r + k] = t[k]
    BY Zenon DEF Placed
  <2> QED BY <2>1, <2>2, <2>3
<1>3. z + Len(t) <= Len(f)
  BY <1>1
<1> QED BY <1>2, <1>3 DEF Placed

LEMMA CallIs ==
  ASSUME NEW c, Packet!CallAssumption(c)
  PROVE  /\ c.dstIP \in Numbers /\ Len(c.dstIP) = 2
         /\ c.kind = "arp" \/ (c.kind # "arp" /\ c.kind = "udp" /\ c.len \in Sizes
                                 /\ Packet!Folded(Packet!IpHeader(c.len, 0, Packet!srcIP, c.dstIP)) < Packet!W16)
<1>1. c.dstIP \in Halves \X Halves
  BY Zenon DEF Packet!CallAssumption, Halves
<1>2. c.dstIP \in Numbers /\ Len(c.dstIP) = 2
  BY <1>1, PairIs
<1>3. CASE c.kind = "arp"
  BY <1>2, <1>3
<1>4. CASE c.kind # "arp"
  <2>1. c.kind = "udp"
    BY <1>4, Zenon DEF Packet!CallAssumption
  <2>2. c.len \in Sizes /\ Packet!Folded(Packet!IpHeader(c.len, 0, Packet!srcIP, c.dstIP)) < Packet!W16
    BY <2>1, Zenon DEF Packet!CallAssumption, Sizes
  <2> QED BY <1>2, <1>4, <2>1, <2>2, Zenon
<1> QED BY <1>3, <1>4

LEMMA ArpMeans ==
  ASSUME NEW f, NEW c
  PROVE  Packet!IsArpReply(f, c) <=> /\ Len(f) = 42 /\ Packet!Field(f, 13, 5) = ArpFields
                              /\ Packet!Field(f, 23, 5) = Packet!srcMAC \o Packet!srcIP
                                 /\ Packet!Field(f, 33, 5) = Packet!dstMAC \o c.dstIP
<1>1. ArpFields = <<2054, 1, 2048, 1540, 2>>
  BY DEF ArpFields, Packet!Half
<1> DEFINE x == Packet!Field(f, 13, 5)
           y == Packet!Field(f, 23, 5) = Packet!srcMAC \o Packet!srcIP
           z == Packet!Field(f, 33, 5) = Packet!dstMAC \o c.dstIP
<1>2. Packet!IsArpReply(f, c) <=> Len(f) = 42 /\ x = <<2054, 1, 2048, 1540, 2>> /\ y /\ z
  BY DEF Packet!IsArpReply
<1> HIDE DEF x, y, z
<1>3. Packet!IsArpReply(f, c) <=> Len(f) = 42 /\ x = ArpFields /\ y /\ z
  BY <1>1, <1>2
<1> QED BY <1>3 DEF x, y, z

LEMMA ArpRight ==
  ASSUME NEW c, Packet!CallAssumption(c), c.kind = "arp", NEW f, NEW n, Right(f, c, n)
  PROVE  Packet!Field(f, 1, 6) = Packet!dstMAC \o Packet!srcMAC /\ Packet!IsArpReply(f, c)
<1> DEFINE b == Packet!ArpReply(Packet!srcMAC, Packet!srcIP, Packet!dstMAC, c.dstIP)
           d == c.dstIP
<1> HIDE DEF b, d
<1>1. d \in Numbers /\ Len(d) = 2
  BY CallIs, Zenon DEF d
<1>2. /\ b \in Numbers /\ Len(b) = 21
      /\ Placed(b, 0, Packet!dstMAC) /\ Placed(b, 3, Packet!srcMAC) /\ Placed(b, 6, ArpFields)
         /\ Placed(b, 11, Packet!srcMAC)
      /\ Placed(b, 14, Packet!srcIP) /\ Placed(b, 16, Packet!dstMAC) /\ Placed(b, 19, d)
  <2>1. b = Packet!ArpReply(Packet!srcMAC, Packet!srcIP, Packet!dstMAC, d)
    BY Zenon DEF b, d
  <2> QED BY <1>1, <2>1, ArpIs
<1>3. Carries(f, b) /\ Len(f) = 42
  <2>1. Begins(f, b) /\ Len(f) = 42
    BY Zenon DEF Right, Buffer, Size, b
  <2>2. Len(b) >= 21
    BY <1>2
  <2> QED BY <1>2, <2>1, <2>2, Zenon DEF Carries
<1>4. Packet!srcMAC \in Numbers /\ Len(Packet!srcMAC) = 3 /\ Packet!dstMAC \in Numbers /\ Len(Packet!dstMAC) = 3
      /\ Packet!srcIP \in Numbers /\ Len(Packet!srcIP) = 2
  BY AddressesIn
<1>5. Packet!Field(f, 1, 6) = Packet!dstMAC \o Packet!srcMAC
  <2> DEFINE t == Packet!dstMAC \o Packet!srcMAC
  <2>1. 0 \in Nat /\ 3 \in Nat /\ 3 = 0 + Len(Packet!dstMAC) /\ Len(b) \in Nat
    BY <1>2, <1>4
  <2>2. t \in Numbers /\ Len(t) = Len(Packet!dstMAC) + Len(Packet!srcMAC) /\ Placed(b, 0, t)
    BY <1>1, <1>2, <1>4, <2>1, PlacedPair, Zenon
  <2> HIDE DEF t
  <2>3. Len(t) = 6
    BY <1>1, <1>4, <2>2
  <2>4. Fits(1, 0, 6)
    BY DEF Fits
  <2>5. Piece(b, 0, 6, t)
    BY <2>2, <2>3, Zenon DEF Piece
  <2>6. Packet!Field(f, 1, 6) = t
    BY <1>3, <2>4, <2>5, FieldIs, Zenon
  <2> QED BY <2>6 DEF t
<1>6. Packet!Field(f, 13, 5) = ArpFields
  <2>1. Fits(13, 6, 5)
    BY DEF Fits
  <2>2. Piece(b, 6, 5, ArpFields)
    BY <1>2, ArpFieldsIn, Zenon DEF Piece
  <2> QED BY <1>3, <2>1, <2>2, FieldIs, Zenon
<1>7. Packet!Field(f, 23, 5) = Packet!srcMAC \o Packet!srcIP
  <2> DEFINE t == Packet!srcMAC \o Packet!srcIP
  <2>1. 11 \in Nat /\ 14 \in Nat /\ 14 = 11 + Len(Packet!srcMAC) /\ Len(b) \in Nat
    BY <1>2, <1>4
  <2>2. t \in Numbers /\ Len(t) = Len(Packet!srcMAC) + Len(Packet!srcIP) /\ Placed(b, 11, t)
    BY <1>1, <1>2, <1>4, <2>1, PlacedPair, Zenon
  <2> HIDE DEF t
  <2>3. Len(t) = 5
    BY <1>1, <1>4, <2>2
  <2>4. Fits(23, 11, 5)
    BY DEF Fits
  <2>5. Piece(b, 11, 5, t)
    BY <2>2, <2>3, Zenon DEF Piece
  <2>6. Packet!Field(f, 23, 5) = t
    BY <1>3, <2>4, <2>5, FieldIs, Zenon
  <2> QED BY <2>6 DEF t
<1>8. Packet!Field(f, 33, 5) = Packet!dstMAC \o d
  <2> DEFINE t == Packet!dstMAC \o d
  <2>1. 16 \in Nat /\ 19 \in Nat /\ 19 = 16 + Len(Packet!dstMAC) /\ Len(b) \in Nat
    BY <1>2, <1>4
  <2>2. t \in Numbers /\ Len(t) = Len(Packet!dstMAC) + Len(d) /\ Placed(b, 16, t)
    BY <1>1, <1>2, <1>4, <2>1, PlacedPair, Zenon
  <2> HIDE DEF t
  <2>3. Len(t) = 5
    BY <1>1, <1>4, <2>2
  <2>4. Fits(33, 16, 5)
    BY DEF Fits
  <2>5. Piece(b, 16, 5, t)
    BY <2>2, <2>3, Zenon DEF Piece
  <2>6. Packet!Field(f, 33, 5) = t
    BY <1>3, <2>4, <2>5, FieldIs, Zenon
  <2> QED BY <2>6 DEF t
<1>9. Packet!IsArpReply(f, c) <=> /\ Len(f) = 42 /\ Packet!Field(f, 13, 5) = ArpFields
                           /\ Packet!Field(f, 23, 5) = Packet!srcMAC \o Packet!srcIP
                              /\ Packet!Field(f, 33, 5) = Packet!dstMAC \o d
  BY ArpMeans, Zenon DEF d
<1> QED BY <1>3, <1>5, <1>6, <1>7, <1>8, <1>9, Zenon

LEMMA SevenAt ==
  ASSUME NEW n \in Sizes
  PROVE  SevenFields(n)[1] = SrcPort /\ SevenFields(n)[2] = DstPort /\ SevenFields(n)[3] = (n + 14) % Packet!W16
<1> DEFINE u == (n + 14) % Packet!W16
           x == Packet!Half(121, 77)
           y == Packet!Half(101, 105)
           z == Packet!Half(73, 80)
<1> HIDE DEF u, x, y, z
<1>1. <<SrcPort, DstPort, u, 0, x, y, z>>[1] = SrcPort /\ <<SrcPort, DstPort, u, 0, x, y, z>>[2] = DstPort
      /\ <<SrcPort, DstPort, u, 0, x, y, z>>[3] = u
  OBVIOUS
<1> QED BY <1>1, Zenon DEF SevenFields, u, x, y, z

LEMMA OneIn ==
  ASSUME NEW f, NEW o \in Nat, NEW s \in Numbers, Placed(f, o, s), NEW r \in Nat, r + 1 <= Len(s), Len(f) \in Nat,
         NEW z, z = o + r
  PROVE  <<s[r + 1]>> \in Numbers /\ Len(<<s[r + 1]>>) = 1 /\ Placed(f, z, <<s[r + 1]>>)
<1>1. Len(s) \in Nat /\ o + Len(s) <= Len(f) /\ r + 1 \in 1 .. Len(s)
  BY DEF Numbers, Placed
<1>2. s[r + 1] \in Halves
  BY <1>1 DEF Numbers
<1> DEFINE x == s[r + 1]
<1>3. f[z + 1] = x
  <2>1. z + 1 = o + (r + 1)
    OBVIOUS
  <2> QED BY <1>1, <2>1, Zenon DEF Placed
<1> HIDE DEF x
<1>4. <<x>> \in Seq(Halves) /\ Len(<<x>>) = 1 /\ <<x>>[1] = x
  BY <1>2 DEF x
<1>5. z + 1 <= Len(f)
  BY <1>1
<1>6. Placed(f, z, <<x>>)
  <2>1. \A k \in 1 .. Len(<<x>>) : f[z + k] = <<x>>[k]
    <3>1. \A k \in 1 .. Len(<<x>>) : k = 1
      BY <1>4
    <3> QED BY <1>3, <1>4, <3>1, Zenon
  <2> QED BY <1>4, <1>5, <2>1, Zenon DEF Placed
<1> QED BY <1>4, <1>6, Zenon DEF Numbers, x

LEMMA CountIs ==
  ASSUME NEW n \in Nat
  PROVE  Packet!CountBytes(n) \in Seq(Octets) /\ Len(Packet!CountBytes(n)) = 6
<1> DEFINE up(x) == x \div 256
           lo(x) == x % 256
<1>1. ASSUME NEW x \in Nat PROVE up(x) \in Nat /\ lo(x) \in Octets
  <2>1. x \div 256 \in Nat /\ x % 256 \in 0 .. 256 - 1
    BY Quotient
  <2> QED BY <2>1 DEF Octets
<1>2. Packet!CountBytes(n) = <<lo(n), lo(up(n)), lo(up(up(n))), lo(up(up(up(n)))), lo(up(up(up(up(n))))),
                        lo(up(up(up(up(up(n))))))>>
  BY Zenon DEF Packet!CountBytes
<1> HIDE DEF up, lo
<1>3. up(n) \in Nat /\ lo(n) \in Octets
  BY <1>1
<1>4. up(up(n)) \in Nat /\ lo(up(n)) \in Octets
  BY <1>1, <1>3
<1>5. up(up(up(n))) \in Nat /\ lo(up(up(n))) \in Octets
  BY <1>1, <1>4
<1>6. up(up(up(up(n)))) \in Nat /\ lo(up(up(up(n)))) \in Octets
  BY <1>1, <1>5
<1>7. up(up(up(up(up(n))))) \in Nat /\ lo(up(up(up(up(n))))) \in Octets
  BY <1>1, <1>6
<1>8. lo(up(up(up(up(up(n)))))) \in Octets
  BY <1>1, <1>7
<1> DEFINE a == lo(n)
           b == lo(up(n))
           c == lo(up(up(n)))
           e == lo(up(up(up(n))))
           g == lo(up(up(up(up(n)))))
           h == lo(up(up(up(up(up(n))))))
<1> HIDE DEF a, b, c, e, g, h
<1>9. a \in Octets /\ b \in Octets /\ c \in Octets /\ e \in Octets /\ g \in Octets /\ h \in Octets
  BY <1>3, <1>4, <1>5, <1>6, <1>7, <1>8, Zenon DEF a, b, c, e, g, h
<1>10. <<a, b, c, e, g, h>> \in Seq(Octets) /\ Len(<<a, b, c, e, g, h>>) = 6
  BY <1>9
<1> QED BY <1>2, <1>10, Zenon DEF a, b, c, e, g, h

LEMMA UdpMeans ==
  ASSUME NEW f, NEW c, NEW n
  PROVE  Packet!IsUdp(f, c, n) <=>
           /\ Len(f) = 48 + c.len /\ Packet!Field(f, 13, 1) = TypeField
           /\ Packet!Field(f, 17, 1) = <<Len(f) - 14>> /\ Packet!Field(f, 39, 1) = <<Len(f) - 34>>
           /\ f[15] = 69 /\ f[24] = 17 /\ Packet!Field(f, 27, 2) = Packet!srcIP /\ Packet!Field(f, 31, 2) = c.dstIP
           /\ Packet!Field(f, 35, 2) = <<SrcPort, DstPort>>
           /\ SubSeq(f, 43, 48) = Packet!CountBytes(n)
<1> DEFINE p == <<60002, 60001>>
           x == Packet!Field(f, 13, 1)
           y == Packet!Field(f, 35, 2)
           z == /\ Len(f) = 48 + c.len /\ Packet!Field(f, 17, 1) = <<Len(f) - 14>> /\ Packet!Field(f, 39, 1) = <<Len(f) - 34>>
                /\ f[15] = 69 /\ f[24] = 17 /\ Packet!Field(f, 27, 2) = Packet!srcIP
                   /\ Packet!Field(f, 31, 2) = c.dstIP
                /\ SubSeq(f, 43, 48) = Packet!CountBytes(n)
<1>1. TypeField = <<2048>>
  BY DEF TypeField, Packet!Half
<1>2. p = <<SrcPort, DstPort>>
  BY SMT DEF SrcPort, DstPort
<1>3. Packet!IsUdp(f, c, n) <=> x = <<2048>> /\ y = p /\ z
  BY DEF Packet!IsUdp
<1> HIDE DEF x, y, z, p
<1>4. Packet!IsUdp(f, c, n) <=> x = TypeField /\ y = <<SrcPort, DstPort>> /\ z
  BY <1>1, <1>2, <1>3
<1> QED BY <1>4, Zenon DEF x, y, z

LEMMA LastBytes ==
  ASSUME NEW f \in Seq(Octets), Len(f) >= 48, NEW n \in Nat, \A k \in 1 .. 6 : f[42 + k] = Packet!CountBytes(n)[k]
  PROVE  SubSeq(f, 43, 48) = Packet!CountBytes(n)
<1> DEFINE t == Packet!CountBytes(n)
<1>1. t \in Seq(Octets) /\ Len(t) = 6
  BY CountIs
<1> HIDE DEF t
<1>2. SubSeq(f, 43, 48) = [k \in 1 .. 6 |-> f[k + 42]]
  BY SMT
<1>3. \A k \in 1 .. 6 : f[k + 42] = t[k]
  BY SMT DEF t
<1>4. t = [k \in 1 .. 6 |-> t[k]]
  BY <1>1
<1>5. SubSeq(f, 43, 48) = t
  BY <1>2, <1>3, <1>4
<1> QED BY <1>5 DEF t

LEMMA UdpRight ==
  ASSUME NEW c, Packet!CallAssumption(c), c.kind = "udp", NEW f, NEW n \in Nat, Right(f, c, n)
  PROVE  Packet!Field(f, 1, 6) = Packet!dstMAC \o Packet!srcMAC /\ Packet!IsUdp(f, c, n) /\ Packet!HeaderAccepted(f)
<1> DEFINE d == c.dstIP
           l == c.len
           e == Packet!IpHeader(l, 0, Packet!srcIP, d)
           q == Packet!Checksum(e)
           h == Packet!IpHeader(l, q, Packet!srcIP, d)
           b == UdpOf(d, l)
           v == SevenFields(l)
<1>0. "udp" # "arp"
  OBVIOUS
<1>1. d \in Numbers /\ Len(d) = 2 /\ l \in Sizes /\ Packet!Folded(e) < Packet!W16
  BY <1>0, CallIs
<1>2. q \in Halves /\ Packet!OnesSum(h) = Packet!W16 - 1
  BY <1>1, ChecksumHolds
<1>3. /\ b \in Numbers /\ Len(b) = 24 /\ h \in Numbers /\ Len(h) = 10
      /\ Placed(b, 0, Packet!dstMAC) /\ Placed(b, 3, Packet!srcMAC) /\ Placed(b, 6, TypeField)
      /\ Placed(b, 7, h) /\ Placed(b, 17, v)
  BY <1>1, <1>2, UdpIs
<1>4. /\ HeaderOf(h, l, q, d) /\ Placed(h, 6, Packet!srcIP) /\ Placed(h, 8, d)
  BY <1>1, <1>2, HeaderAt, HeaderIs
<1>5. Carries(f, b) /\ Len(f) = 48 + l /\ f \in Seq(Octets)
  <2>1. Begins(f, b) /\ Len(f) = 48 + l /\ f \in Seq(Octets)
    BY <1>0, Zenon DEF Right, Buffer, Size
  <2>2. Len(b) >= 21
    BY <1>3
  <2> QED BY <1>3, <2>1, <2>2, Zenon DEF Carries
<1>6. \A k \in 1 .. 6 : f[42 + k] = Packet!CountBytes(n)[k]
  BY Zenon DEF Right
<1>7. /\ (l + 34) % Packet!W16 = l + 34 /\ (l + 14) % Packet!W16 = l + 14 /\ l \in Nat /\ l + 14 \in Halves
  BY <1>1, SizesIn
<1>8. v \in Numbers /\ Len(v) = 7 /\ v[1] = SrcPort /\ v[2] = DstPort /\ v[3] = (l + 14) % Packet!W16
  BY <1>1, SevenIn, SevenAt
<1>9. Packet!srcMAC \in Numbers /\ Len(Packet!srcMAC) = 3 /\ Packet!dstMAC \in Numbers /\ Len(Packet!dstMAC) = 3
      /\ Packet!srcIP \in Numbers /\ Len(Packet!srcIP) = 2
  BY AddressesIn
<1>10. /\ h[1] = Packet!Half(69, 0) /\ h[2] = (l + 34) % Packet!W16 /\ h[5] = Packet!Half(64, 17)
  BY <1>4, Zenon DEF HeaderOf
<1> HIDE DEF d, l, e, q, h, b, v
<1>11. Packet!Field(f, 1, 6) = Packet!dstMAC \o Packet!srcMAC
  <2> DEFINE t == Packet!dstMAC \o Packet!srcMAC
  <2>1. 0 \in Nat /\ 3 \in Nat /\ 3 = 0 + Len(Packet!dstMAC) /\ Len(b) \in Nat
    BY <1>3, <1>9
  <2>2. t \in Numbers /\ Len(t) = Len(Packet!dstMAC) + Len(Packet!srcMAC) /\ Placed(b, 0, t)
    BY <1>3, <1>9, <2>1, PlacedPair, Zenon
  <2> HIDE DEF t
  <2>3. Len(t) = 6
    BY <1>9, <2>2
  <2>4. Fits(1, 0, 6)
    BY DEF Fits
  <2>5. Piece(b, 0, 6, t)
    BY <2>2, <2>3, Zenon DEF Piece
  <2>6. Packet!Field(f, 1, 6) = t
    BY <1>5, <2>4, <2>5, FieldIs, Zenon
  <2> QED BY <2>6 DEF t
<1>12. Packet!Field(f, 13, 1) = TypeField
  <2>1. Fits(13, 6, 1)
    BY DEF Fits
  <2>2. Piece(b, 6, 1, TypeField)
    BY <1>3, TypeFieldIn, Zenon DEF Piece
  <2> QED BY <1>5, <2>1, <2>2, FieldIs, Zenon
<1>13. Packet!Field(f, 17, 1) = <<Len(f) - 14>>
  <2>1. 7 \in Nat /\ 1 \in Nat /\ 1 + 1 <= Len(h) /\ Len(b) \in Nat /\ 8 = 7 + 1
    BY <1>3
  <2>2. Piece(b, 8, 1, <<h[1 + 1]>>)
    BY <1>3, <2>1, OneIn DEF Piece
  <2>3. Fits(17, 8, 1)
    BY DEF Fits
  <2>4. Packet!Field(f, 17, 1) = <<h[1 + 1]>>
    BY <1>5, <2>2, <2>3, FieldIs, Zenon
  <2>5. h[1 + 1] = Len(f) - 14
    BY <1>5, <1>7, <1>10
  <2> QED BY <2>4, <2>5, Zenon
<1>14. Packet!Field(f, 39, 1) = <<Len(f) - 34>>
  <2>1. 17 \in Nat /\ 2 \in Nat /\ 2 + 1 <= Len(v) /\ Len(b) \in Nat /\ 19 = 17 + 2
    BY <1>3, <1>8
  <2>2. Piece(b, 19, 1, <<v[2 + 1]>>)
    BY <1>3, <1>8, <2>1, OneIn DEF Piece
  <2>3. Fits(39, 19, 1)
    BY DEF Fits
  <2>4. Packet!Field(f, 39, 1) = <<v[2 + 1]>>
    BY <1>5, <2>2, <2>3, FieldIs, Zenon
  <2>5. v[2 + 1] = Len(f) - 34
    BY <1>5, <1>7, <1>8
  <2> QED BY <2>4, <2>5, Zenon
<1>15. f[15] = 69 /\ f[24] = 17
  <2>1. b[8] = h[1] /\ b[12] = h[5]
    <3>1. \A k \in 1 .. 10 : b[7 + k] = h[k]
      BY <1>3, Zenon DEF Placed
    <3> QED BY <3>1, SMT
  <2>6. \A r \in 1 .. 21 : BytesOfNumber(f, b, r)
    BY <1>5, BytesOfNumbers, Zenon
  <2>7. 8 \in 1 .. 21 /\ 12 \in 1 .. 21
    OBVIOUS
  <2>2. f[2 * 8 - 1] = b[8] \div 256
    BY <2>6, <2>7, Zenon DEF BytesOfNumber
  <2>3. f[2 * 12] = b[12] % 256
    BY <2>6, <2>7, Zenon DEF BytesOfNumber
  <2>4. Packet!Half(69, 0) \div 256 = 69 /\ Packet!Half(64, 17) % 256 = 17
    <3>1. 69 \in Octets /\ 0 \in Octets /\ 64 \in Octets /\ 17 \in Octets
      BY DEF Octets
    <3> QED BY <3>1, HalfIn
  <2>5. 2 * 8 - 1 = 15 /\ 2 * 12 = 24
    OBVIOUS
  <2> QED BY <1>10, <2>1, <2>2, <2>3, <2>4, <2>5
<1>16. Packet!Field(f, 27, 2) = Packet!srcIP
  <2>1. Fits(27, 13, 2)
    BY DEF Fits
  <2>2. Placed(b, 13, Packet!srcIP)
    BY <1>3, <1>4, <1>9, PlacedIn
  <2>3. Piece(b, 13, 2, Packet!srcIP)
    BY <1>9, <2>2, Zenon DEF Piece
  <2> QED BY <1>5, <2>1, <2>3, FieldIs, Zenon
<1>17. Packet!Field(f, 31, 2) = d
  <2>1. Fits(31, 15, 2)
    BY DEF Fits
  <2>2. Placed(b, 15, d)
    BY <1>1, <1>3, <1>4, PlacedIn
  <2>3. Piece(b, 15, 2, d)
    BY <1>1, <2>2, Zenon DEF Piece
  <2> QED BY <1>5, <2>1, <2>3, FieldIs, Zenon
<1>18. Packet!Field(f, 35, 2) = <<SrcPort, DstPort>>
  <2> DEFINE t == <<SrcPort, DstPort>>
  <2>1. t \in Numbers /\ Len(t) = 2 /\ t[1] = SrcPort /\ t[2] = DstPort
    BY PortsIn DEF Numbers
  <2> HIDE DEF t
  <2>2. \A k \in 1 .. 7 : b[17 + k] = v[k]
    BY <1>3, <1>8, Zenon DEF Placed
  <2>3. \A k \in 1 .. 2 : b[17 + k] = t[k]
    <3>1. \A k \in 1 .. 2 : k \in 1 .. 7 /\ (k = 1 \/ k = 2)
      OBVIOUS
    <3>2. v[1] = t[1] /\ v[2] = t[2]
      BY <1>8, <2>1
    <3> QED BY <2>2, <3>1, <3>2, Zenon
  <2>4. 17 + 2 <= Len(b)
    BY <1>3
  <2>5. Placed(b, 17, t)
    BY <2>1, <2>3, <2>4, Zenon DEF Placed
  <2>6. Piece(b, 17, 2, t)
    BY <2>1, <2>5, Zenon DEF Piece
  <2>7. Fits(35, 17, 2)
    BY DEF Fits
  <2>8. Packet!Field(f, 35, 2) = t
    BY <1>5, <2>6, <2>7, FieldIs, Zenon
  <2> QED BY <2>8 DEF t
<1>19. SubSeq(f, 43, 48) = Packet!CountBytes(n)
  <2>1. Len(f) >= 48
    BY <1>5, <1>7
  <2> QED BY <1>5, <1>6, <2>1, LastBytes
<1>20. Packet!HeaderAccepted(f)
  <2>1. Fits(15, 7, 10)
    BY DEF Fits
  <2>2. Piece(b, 7, 10, h)
    BY <1>3, Zenon DEF Piece
  <2>3. Packet!Field(f, 15, 10) = h
    BY <1>5, <2>1, <2>2, FieldIs, Zenon
  <2>4. Packet!OnesSum(Packet!Field(f, 15, 10)) = Packet!W16 - 1
    BY <1>2, <2>3, Zenon
  <2>5. Packet!W16 - 1 = 65535
    BY SMT DEF Packet!W16
  <2> DEFINE s == Packet!OnesSum(Packet!Field(f, 15, 10))
  <2>6. Packet!HeaderAccepted(f) <=> s = 65535
    BY SMT DEF Packet!HeaderAccepted
  <2> HIDE DEF s
  <2>7. s = Packet!W16 - 1
    BY <2>4, Zenon DEF s
  <2> QED BY <2>5, <2>6, <2>7, SMT
<1>21. Packet!IsUdp(f, c, n)
  <2>1. Len(f) = 48 + c.len /\ Packet!Field(f, 31, 2) = c.dstIP
    BY <1>5, <1>17 DEF l, d
  <2> QED BY <2>1, <1>12, <1>13, <1>14, <1>15, <1>16, <1>18, <1>19, UdpMeans, Zenon
<1> QED BY <1>11, <1>20, <1>21
-----------------------------------------------------------------------------
(* The words of a frame and the commands that bring them to the board.     *)
Data(c) == Packet!Words32(Packet!NetworkBytes(Buffer(c)))

LEMMA BufferIs ==
  ASSUME NEW c, Packet!CallAssumption(c)
  PROVE  /\ Buffer(c) \in Numbers
         /\ \/ c.kind = "arp" /\ Len(Buffer(c)) = 21 /\ Size(c) = 42
            \/ c.kind = "udp" /\ Len(Buffer(c)) = 24 /\ Size(c) = 48 + c.len /\ c.len \in Sizes
<1> DEFINE d == c.dstIP
           l == c.len
<1>1. d \in Numbers /\ Len(d) = 2
  BY CallIs
<1>2. CASE c.kind = "arp"
  <2> DEFINE f == Packet!ArpReply(Packet!srcMAC, Packet!srcIP, Packet!dstMAC, d)
  <2>1. Buffer(c) = f /\ Size(c) = 42
    BY <1>2, Zenon DEF Buffer, Size
  <2> HIDE DEF d
  <2>2. f \in Numbers /\ Len(f) = 21
    BY <1>1, ArpIs
  <2> HIDE DEF f
  <2> QED BY <1>2, <2>1, <2>2, Zenon
<1>3. CASE c.kind # "arp"
  <2> DEFINE f == UdpOf(d, l)
             q == Packet!Checksum(Packet!IpHeader(l, 0, Packet!srcIP, d))
  <2>1. Buffer(c) = f /\ Size(c) = 48 + c.len
    BY <1>3, Zenon DEF Buffer, Size
  <2>2. c.kind = "udp" /\ l \in Sizes /\ Packet!Folded(Packet!IpHeader(l, 0, Packet!srcIP, d)) < Packet!W16
    BY <1>3, CallIs
  <2>3. q \in Halves
    BY <1>1, <2>2, ChecksumHolds
  <2> HIDE DEF d
  <2>4. f \in Numbers /\ Len(f) = 24
    <3> HIDE DEF l
    <3> QED BY <1>1, <2>2, <2>3, UdpIs
  <2> HIDE DEF f
  <2> QED BY <2>1, <2>2, <2>4, Zenon DEF l
<1> QED BY <1>2, <1>3

Framed(c) ==
  /\ Data(c) \in Seq(Word) /\ Len(Data(c)) \in {11, 12} /\ (c.kind = "udp" => Len(Data(c)) = 12)
  /\ Size(c) \in Halves /\ Size(c) >= 42 /\ (c.kind = "udp" => Size(c) >= 48)

Holds(c, k, r) == 4 * k - 4 + r <= 42 => Packet!BytesOf(Data(c)[k])[r] = Packet!NetworkBytes(Buffer(c))[4 * k - 4 + r]

LEMMA FramedIs ==
  ASSUME NEW c, Packet!CallAssumption(c)
  PROVE  Framed(c) /\ \A k \in 1 .. Len(Data(c)), r \in 1 .. 4 : Holds(c, k, r)
<1> DEFINE b == Buffer(c)
           x == Packet!NetworkBytes(b)
           y == Packet!Words32(x)
<1>0. /\ b \in Numbers
      /\ \/ c.kind = "arp" /\ Len(b) = 21 /\ Size(c) = 42
         \/ c.kind = "udp" /\ Len(b) = 24 /\ Size(c) = 48 + c.len /\ c.len \in Sizes
  BY BufferIs
<1> HIDE DEF b
<1>1. x \in Seq(Octets) /\ Len(x) = 2 * Len(b)
  BY <1>0, NetIs DEF Numbers
<1> HIDE DEF x
<1>2. /\ y \in Seq(Word) /\ Len(y) = (Len(x) + 3) \div 4
      /\ \A k \in 1 .. (Len(x) + 3) \div 4, r \in 1 .. 4 :
              4 * k - 4 + r <= Len(x) => Packet!BytesOf(y[k])[r] = x[4 * k - 4 + r]
  BY <1>1, WordsIs, Zenon
<1> HIDE DEF y
<1>3. Data(c) = y /\ Packet!NetworkBytes(Buffer(c)) = x
  BY Zenon DEF Data, y, x, b
<1>4. Len(y) \in {11, 12} /\ (c.kind = "udp" => Len(y) = 12) /\ Len(x) >= 42
  <2>1. CASE Len(b) = 21 /\ c.kind = "arp"
    BY <1>1, <1>2, <2>1
  <2>2. CASE Len(b) = 24
    BY <1>1, <1>2, <2>2
  <2> QED BY <1>0, <2>1, <2>2
<1>5. Size(c) \in Halves /\ Size(c) >= 42 /\ (c.kind = "udp" => Size(c) >= 48)
  <2>1. CASE Size(c) = 42 /\ c.kind = "arp"
    <3>1. 42 \in Halves
      BY WidthIs, SMT DEF Halves
    <3> QED BY <2>1, <3>1
  <2>2. CASE Size(c) = 48 + c.len /\ c.len \in Sizes
    <3>1. c.len + 48 \in Halves /\ c.len \in Nat
      BY <2>2, SizesIn
    <3> QED BY <2>2, <3>1
  <2> QED BY <1>0, <2>1, <2>2
<1>6. Framed(c)
  BY <1>2, <1>3, <1>4, <1>5, Zenon DEF Framed
<1>7. ASSUME NEW k \in 1 .. Len(Data(c)), NEW r \in 1 .. 4, 4 * k - 4 + r <= 42
      PROVE  Packet!BytesOf(y[k])[r] = x[4 * k - 4 + r]
  <2>1. 4 * k - 4 + r <= Len(x)
    BY <1>1, <1>4, <1>7
  <2> QED BY <1>2, <1>3, <2>1, Zenon
<1>8. \A k \in 1 .. Len(Data(c)), r \in 1 .. 4 : Holds(c, k, r)
  BY <1>3, <1>7, Zenon DEF Holds
<1> QED BY <1>6, <1>8

LEMMA QueueIs ==
  ASSUME NEW c, Packet!CallAssumption(c)
  PROVE  Sends(Packet!CommandsOf(c), Data(c), Size(c))
<1> DEFINE b == Buffer(c)
           y == Packet!Words32(Packet!NetworkBytes(b))
           n == Size(c)
<1>1. Packet!CommandsOf(c) = Packet!SendFrame(b, n)
  <2>1. CASE c.kind = "arp"
    <3>1. Packet!CommandsOf(c) = Packet!SendArpReply(Packet!srcMAC, Packet!srcIP, Packet!dstMAC, c.dstIP)
      BY <2>1 DEF Packet!CommandsOf
    <3> QED BY <2>1, <3>1, Zenon DEF Packet!SendArpReply, Buffer, Size
  <2>2. CASE c.kind # "arp"
    <3>1. c.kind = "udp"
      BY <2>2, CallIs
    <3>2. Packet!CommandsOf(c) = Packet!SendFrame(UdpOf(c.dstIP, c.len), 48 + c.len)
      BY <2>2, <3>1 DEF Packet!CommandsOf, Packet!SendUdp, UdpOf
    <3> QED BY <2>2, <3>2, Zenon DEF Buffer, Size
  <2> QED BY <2>1, <2>2
<1>2. y \in Seq(Word) /\ n \in Halves /\ y = Data(c)
  <2>1. Framed(c)
    BY FramedIs
  <2> QED BY <2>1, Zenon DEF Framed, Data
<1> HIDE DEF b, n
<1>3. y = Packet!Words32(Packet!NetworkBytes(b))
  OBVIOUS
<1> HIDE DEF y
<1>4. Sends(Packet!SendFrame(b, n), y, n)
  BY <1>2, <1>3, FrameCommands, Zenon
<1> QED BY <1>1, <1>2, <1>4, Zenon DEF n
-----------------------------------------------------------------------------
(* The invariant.  Every frame that went out is right, and the present one *)
(* is where its commands, the pulse or the words that are sent leave it.   *)
Cells == [Packet!MemWords -> Word]
Current == made[Len(made)]
Fetched == LET a == (2 * addrCtr) % 16 IN <<mem[a], mem[a + 1]>>

BoardTypes ==
  mem \in Cells /\ addr \in 0 .. 16 /\ din \in Halves /\ TX_BYTES \in Halves /\ TX_START \in 0 .. 8
Typed ==
  /\ todo \in Seq(Packet!Range(Calls)) /\ made \in Seq(Packet!Range(Calls)) /\ cmds \in Seq(Word) /\ BoardTypes
  /\ addrCtr \in Halves /\ bytesLeft \in Halves /\ bytesLeft_reg \in Halves /\ pktCtr \in Nat
  /\ TREADY \in BOOLEAN /\ frame \in Seq(Octets) /\ sent \in Seq(Seq(Octets))

SentRight == Len(sent) <= Len(made) /\ \A k \in 1 .. Len(sent) : Right(sent[k], made[k], k - 1)

(* The first n words of the frame are in the memory.                       *)
Stored(n) == \A x \in 1 .. n : mem[x - 1] = Data(Current)[x]
Open == Len(made) = Len(sent) + 1 /\ pktCtr = Len(sent)

Idle == /\ pktState = "S0" /\ cmds = <<>> /\ TX_START = 0 /\ frame = <<>>
        /\ Len(made) = Len(sent) /\ pktCtr = Len(sent)

(* e commands have been executed, and with them k words stored.            *)
Stage(e, k) ==
  \/ e = 0 /\ k = 0
  \/ e = 1 /\ k = 0 /\ addr = 0
  \/ e = 2 * k + 2 /\ addr = k
  \/ e = 2 * k + 3 /\ addr = k /\ k < Len(Data(Current)) /\ din = Data(Current)[k + 1].lo
  \/ e = 2 * k + 3 /\ k = Len(Data(Current)) /\ TX_BYTES = Size(Current)
Rest(q, e) == Len(q) = Len(cmds) + e /\ \A x \in 1 .. Len(cmds) : cmds[x] = q[e + x]
Filling(e, k) ==
  /\ pktState = "S0" /\ TX_START = 0 /\ frame = <<>> /\ Open
  /\ e < 2 * Len(Data(Current)) + 4 /\ k <= Len(Data(Current))
  /\ Rest(Packet!CommandsOf(Current), e) /\ Stored(k) /\ Stage(e, k)

Started == /\ pktState = "S0" /\ cmds = <<>> /\ TX_START > 0 /\ frame = <<>> /\ Open
           /\ Stored(Len(Data(Current))) /\ TX_BYTES = Size(Current)

(* What has been sent of the frame.                                        *)
SentSoFar(f, c, n) ==
  /\ \A k \in 1 .. 42 : k <= Len(f) => f[k] = Packet!NetworkBytes(Buffer(c))[k]
  /\ c.kind = "udp" => \A k \in 1 .. 6 : 42 + k <= Len(f) => f[42 + k] = Packet!CountBytes(n)[k]
Sending ==
  /\ pktState = "S1" /\ cmds = <<>> /\ Open
  /\ Stored(Len(Data(Current))) /\ doutb = Fetched
  /\ bytesLeft > 0 /\ bytesLeft + 8 * addrCtr = Size(Current) /\ Len(frame) = 8 * addrCtr
  /\ SentSoFar(frame, Current, pktCtr)
  /\ TX_START = 0 \/ TX_START + addrCtr <= 7

Ending == /\ pktState = "S2" /\ cmds = <<>> /\ TX_START <= 1 /\ frame = <<>>
          /\ Len(made) = Len(sent) /\ pktCtr + 1 = Len(sent)

FramePhase ==
  \/ Idle
  \/ \E e, k \in Nat : Filling(e, k)
  \/ Started
  \/ Sending
  \/ Ending
FrameInv == Typed /\ SentRight /\ FramePhase

LEMMA PacketGiven == Packet!CallsAssumption /\ Packet!PulseClocksAssumption
  BY ConstantsAssumption, Zenon

(* Of every call the commands, the words and the bytes.                    *)
Known(c) ==
  /\ Framed(c) /\ Sends(Packet!CommandsOf(c), Data(c), Size(c))
  /\ \A k \in 1 .. Len(Data(c)), r \in 1 .. 4 : Holds(c, k, r)

LEMMA CallKnown ==
  ASSUME NEW c \in Packet!Range(Calls)
  PROVE  Packet!CallAssumption(c) /\ Known(c)
<1>1. Packet!CallAssumption(c)
  BY PacketGiven, Zenon DEF Packet!CallsAssumption
<1> QED BY <1>1, FramedIs, QueueIs, Zenon DEF Known

LEMMA CurrentKnown ==
  ASSUME Typed, Len(made) > 0
  PROVE  Current \in Packet!Range(Calls) /\ Known(Current)
<1>1. made \in Seq(Packet!Range(Calls))
  BY Zenon DEF Typed
<1>2. Len(made) \in 1 .. Len(made)
  BY <1>1
<1>3. made[Len(made)] \in Packet!Range(Calls)
  BY <1>1, <1>2
<1> QED BY <1>3, CallKnown, Zenon DEF Current

LEMMA InitPacket == Packet!Init => FrameInv
<1> SUFFICES ASSUME Packet!Init PROVE FrameInv
  OBVIOUS
<1>1. 0 \in Halves /\ Packet!Zero \in Word
  BY WidthIs DEF Packet!Zero, Word
<1>2. Typed
  <2>1. mem \in Cells
    BY <1>1 DEF Packet!Init, Cells
  <2>2. todo \in Seq(Packet!Range(Calls))
    BY PacketGiven, Zenon DEF Packet!Init, Packet!CallsAssumption
  <2>3. /\ made = <<>> /\ cmds = <<>> /\ addr = 0 /\ din = 0 /\ TX_BYTES = 0 /\ TX_START = 0 /\ addrCtr = 0
        /\ bytesLeft = 0 /\ bytesLeft_reg = 0 /\ pktCtr = 0 /\ TREADY = TRUE /\ frame = <<>> /\ sent = <<>>
    BY Zenon DEF Packet!Init
  <2>4. made \in Seq(Packet!Range(Calls)) /\ cmds \in Seq(Word) /\ frame \in Seq(Octets) /\ sent \in Seq(Seq(Octets))
    BY <2>3
  <2>5. addr \in 0 .. 16 /\ TX_START \in 0 .. 8 /\ pktCtr \in Nat /\ TREADY \in BOOLEAN
    BY <2>3
  <2>6. din \in Halves /\ TX_BYTES \in Halves /\ addrCtr \in Halves /\ bytesLeft \in Halves
        /\ bytesLeft_reg \in Halves
    BY <1>1, <2>3
  <2> QED BY <2>1, <2>2, <2>4, <2>5, <2>6, Zenon DEF Typed, BoardTypes
<1>3. SentRight /\ Idle
  <2>1. made = <<>> /\ sent = <<>> /\ pktCtr = 0 /\ cmds = <<>> /\ TX_START = 0 /\ frame = <<>> /\ pktState = "S0"
    BY Zenon DEF Packet!Init
  <2>2. Len(made) = 0 /\ Len(sent) = 0
    BY <2>1
  <2>3. \A k \in 1 .. Len(sent) : Right(sent[k], made[k], k - 1)
    BY <2>2
  <2> QED BY <2>1, <2>2, <2>3 DEF SentRight, Idle
<1> QED BY <1>2, <1>3, Zenon DEF FrameInv, FramePhase

LEMMA CellsAre == Packet!MemSize = 16 /\ Packet!MemWords = 0 .. 15
  BY DEF Packet!MemSize, Packet!MemWords

(* A call finds the last frame sent.                                       *)
LEMMA CallStep ==
  ASSUME FrameInv, Packet!Call
  PROVE  FrameInv'
<1> DEFINE c == Head(todo)
           q == Packet!CommandsOf(c)
<1>0. Typed /\ SentRight
  BY Zenon DEF FrameInv
<1>1. /\ cmds = <<>> /\ TX_START = 0 /\ pktState = "S0" /\ todo # <<>>
      /\ cmds' = cmds \o q /\ made' = Append(made, c) /\ todo' = Tail(todo)
      /\ UNCHANGED <<Packet!board, TX_START, Packet!gen, Packet!mac>>
  BY Zenon DEF Packet!Call, Packet!Send
<1>2. todo \in Seq(Packet!Range(Calls)) /\ made \in Seq(Packet!Range(Calls))
  BY <1>0, Zenon DEF Typed
<1>3. c \in Packet!Range(Calls) /\ todo' \in Seq(Packet!Range(Calls))
  BY <1>1, <1>2
<1>4. Known(c) /\ q \in Seq(Word)
  BY <1>3, CallKnown, Zenon DEF Known, Sends
<1>5. Idle
  <2>1. ASSUME NEW e \in Nat, NEW k \in Nat, Filling(e, k) PROVE FALSE
    <3>1. Len(made) = Len(sent) + 1 /\ Len(sent) \in Nat
      <4>1. sent \in Seq(Seq(Octets))
        BY <1>0, Zenon DEF Typed
      <4> QED BY <2>1, <4>1 DEF Filling, Open
    <3>2. Len(made) > 0
      BY <3>1
    <3>3. Sends(Packet!CommandsOf(Current), Data(Current), Size(Current)) /\ Framed(Current)
      BY <1>0, <3>2, CurrentKnown, Zenon DEF Known
    <3> DEFINE r == Len(Data(Current))
               p == Len(Packet!CommandsOf(Current))
    <3>4. p = 2 * r + 4
      BY <3>3, Zenon DEF Sends
    <3>5. e < 2 * r + 4 /\ p = Len(cmds) + e
      BY <2>1, Zenon DEF Filling, Rest
    <3>6. Len(cmds) = 0
      BY <1>1
    <3> HIDE DEF r, p
    <3> QED BY <3>4, <3>5, <3>6, SMT
  <2>2. ~Started
    <3>1. ~(0 > 0)
      OBVIOUS
    <3> QED BY <1>1, <3>1, Zenon DEF Started
  <2>3. ~Sending /\ ~Ending
    BY <1>1 DEF Sending, Ending
  <2> QED BY <2>1, <2>2, <2>3, Zenon DEF FrameInv, FramePhase
<1> HIDE DEF q
<1>6. cmds' = q
  BY <1>1, <1>4
<1>7. made' \in Seq(Packet!Range(Calls)) /\ Len(made') = Len(made) + 1 /\ made'[Len(made')] = c
      /\ \A k \in 1 .. Len(made) : made'[k] = made[k]
  <2> HIDE DEF c
  <2> QED BY <1>1, <1>2, <1>3
<1>8. Typed'
  <2>1. /\ mem' = mem /\ addr' = addr /\ din' = din /\ TX_BYTES' = TX_BYTES /\ TX_START' = TX_START
        /\ addrCtr' = addrCtr /\ bytesLeft' = bytesLeft /\ bytesLeft_reg' = bytesLeft_reg /\ pktCtr' = pktCtr
        /\ TREADY' = TREADY /\ frame' = frame /\ sent' = sent
    BY <1>1 DEF Packet!board, Packet!gen, Packet!mac
  <2> QED BY <1>0, <1>3, <1>4, <1>6, <1>7, <2>1, Zenon DEF Typed, BoardTypes, Cells
<1>9. SentRight'
  <2>1. sent' = sent /\ sent \in Seq(Seq(Octets))
    <3>1. sent' = sent
      BY <1>1 DEF Packet!mac
    <3> QED BY <1>0, <3>1, Zenon DEF Typed
  <2>2. Len(sent) <= Len(made) /\ Len(sent) \in Nat /\ Len(made) \in Nat
    BY <1>0, <1>2, <2>1 DEF SentRight
  <2>3. Len(sent') <= Len(made')
    BY <1>7, <2>1, <2>2
  <2>4. \A k \in 1 .. Len(sent) : k \in 1 .. Len(made)
    BY <2>2
  <2>5. \A k \in 1 .. Len(sent) : Right(sent[k], made'[k], k - 1)
    BY <1>0, <1>7, <2>4, Zenon DEF SentRight
  <2> QED BY <2>1, <2>3, <2>5, Zenon DEF SentRight
<1>10. Filling(0, 0)'
  <2>1. Current' = c
    BY <1>7, Zenon DEF Current
  <2>2. pktState' = "S0" /\ TX_START' = 0 /\ frame' = <<>> /\ pktCtr' = pktCtr /\ sent' = sent
    BY <1>1, <1>5 DEF Packet!gen, Packet!mac, Idle
  <2>3. Open'
    BY <1>5, <1>7, <2>2 DEF Open, Idle
  <2>4. Framed(c) /\ Sends(q, Data(c), Size(c))
    BY <1>4, Zenon DEF Known, q
  <2> DEFINE w == Data(c)
  <2>5. Len(w) \in Nat /\ 0 < 2 * Len(w) + 4 /\ 0 <= Len(w)
    <3>1. Len(w) \in {11, 12}
      BY <2>4, Zenon DEF Framed
    <3> HIDE DEF w
    <3> QED BY <3>1
  <2>6. Len(q) = Len(q) + 0 /\ \A x \in 1 .. Len(q) : q[x] = q[0 + x]
    BY <1>4
  <2>7. Rest(Packet!CommandsOf(Current), 0)'
    BY <1>6, <2>1, <2>6, Zenon DEF Rest, q
  <2>8. Stored(0)'
    <3>1. \A x \in 1 .. 0 : FALSE
      OBVIOUS
    <3> QED BY <3>1, Zenon DEF Stored
  <2>9. Stage(0, 0)'
    BY Zenon DEF Stage
  <2> QED BY <2>1, <2>2, <2>3, <2>5, <2>7, <2>8, <2>9, Zenon DEF Filling
<1>11. 0 \in Nat
  OBVIOUS
<1> QED BY <1>8, <1>9, <1>10, <1>11, Zenon DEF FrameInv, FramePhase

(* What the interpreter does with a command.                               *)
LEMMA Does ==
  ASSUME Typed, Packet!Execute, NEW h, NEW l, Head(cmds) = C(h, l)
  PROVE  /\ cmds' = Tail(cmds) /\ cmds # <<>>
         /\ addr' = (IF h = 17 THEN l ELSE IF h = 20 THEN addr + 1 ELSE addr)
         /\ din'  = (IF h = 19 THEN l ELSE din)
         /\ mem'  = (IF h = 20 THEN [mem EXCEPT ![addr] = [lo |-> din, hi |-> l]] ELSE mem)
         /\ TX_BYTES' = (IF h = 32 THEN l ELSE TX_BYTES)
         /\ h = 11 /\ l = 1 => TX_START' \in 1 .. 8
         /\ h # 11 => TX_START' = TX_START
         /\ UNCHANGED <<todo, made, Packet!gen, Packet!mac>>
<1>1. Head(cmds).hi = h /\ Head(cmds).lo = l
  BY DEF C
<1>2. /\ cmds # <<>> /\ cmds' = Tail(cmds) /\ addr' = Packet!NextAddr(h)
      /\ din'  = (IF h = 19 THEN l ELSE din)
      /\ mem'  = (IF h = 20 THEN [mem EXCEPT ![addr] = [lo |-> din, hi |-> l]] ELSE mem)
      /\ TX_BYTES' = (IF h = 32 THEN l ELSE TX_BYTES)
      /\ TX_START' \in (IF h = 11 /\ l % 2 = 1 THEN PulseClocks ELSE {TX_START})
      /\ UNCHANGED <<todo, made, Packet!gen, Packet!mac>>
  <2> DEFINE c == Head(cmds)
  <2>1. c.hi = h /\ c.lo = l
    BY <1>1
  <2> HIDE DEF c
  <2>2. /\ cmds # <<>> /\ cmds' = Tail(cmds) /\ addr' = Packet!NextAddr(c.hi)
        /\ din'  = (IF c.hi = 19 THEN c.lo ELSE din)
        /\ mem'  = (IF c.hi = 20 THEN [mem EXCEPT ![addr] = [lo |-> din, hi |-> c.lo]] ELSE mem)
        /\ TX_BYTES' = (IF c.hi = 32 THEN c.lo ELSE TX_BYTES)
        /\ TX_START' \in (IF c.hi = 11 /\ c.lo % 2 = 1 THEN PulseClocks ELSE {TX_START})
        /\ UNCHANGED <<todo, made, Packet!gen, Packet!mac>>
    BY Zenon DEF Packet!Execute, c
  <2> QED BY <2>1, <2>2
<1>3. Packet!NextAddr(h) = (IF h = 17 THEN l ELSE IF h = 20 THEN addr + 1 ELSE addr)
  <2>1. CASE h = 17
    BY <1>1, <2>1 DEF Packet!NextAddr
  <2>2. CASE h = 20
    BY <2>2 DEF Packet!NextAddr
  <2>3. CASE h # 17 /\ h # 20
    BY <2>3 DEF Packet!NextAddr
  <2> QED BY <2>1, <2>2, <2>3
<1>4. PulseClocks \subseteq 1 .. 8 /\ 1 % 2 = 1
  BY PacketGiven DEF Packet!PulseClocksAssumption
<1> HIDE DEF Typed
<1> QED BY <1>2, <1>3, <1>4

(* The command that comes after e others, k words having been stored.      *)
LEMMA NextCommand ==
  ASSUME Typed, NEW e \in Nat, NEW k \in Nat, Filling(e, k), cmds # <<>>
  PROVE  /\ Known(Current) /\ Head(cmds) = Packet!CommandsOf(Current)[e + 1]
         /\ Len(cmds) = 2 * Len(Data(Current)) + 4 - e
         /\ \A x \in 1 .. Len(Tail(cmds)) : Tail(cmds)[x] = Packet!CommandsOf(Current)[(e + 1) + x]
         /\ Len(Tail(cmds)) = Len(cmds) - 1 /\ Tail(cmds) \in Seq(Word)
         /\ Len(Data(Current)) \in {11, 12} /\ Len(made) \in Nat /\ Len(made) > 0
<1>1. cmds \in Seq(Word) /\ sent \in Seq(Seq(Octets)) /\ made \in Seq(Packet!Range(Calls))
  BY Zenon DEF Typed
<1>2. Len(made) > 0 /\ Len(made) \in Nat
  BY <1>1 DEF Filling, Open
<1>3. Known(Current)
  BY <1>2, CurrentKnown
<1> DEFINE q == Packet!CommandsOf(Current)
           w == Data(Current)
<1>4. Rest(q, e)
  BY Zenon DEF Filling
<1>5. Sends(q, w, Size(Current)) /\ Len(w) \in {11, 12}
  BY <1>3, Zenon DEF Known, Framed
<1>6. Len(q) = 2 * Len(w) + 4
  BY <1>5, Zenon DEF Sends
<1> HIDE DEF q, w
<1>7. Len(q) = Len(cmds) + e /\ \A x \in 1 .. Len(cmds) : cmds[x] = q[e + x]
  BY <1>4, Zenon DEF Rest
<1>8. Head(cmds) = cmds[1] /\ 1 \in 1 .. Len(cmds) /\ Len(cmds) \in Nat
  BY <1>1
<1>9. Tail(cmds) \in Seq(Word) /\ Len(Tail(cmds)) = Len(cmds) - 1
      /\ \A x \in 1 .. Len(Tail(cmds)) : Tail(cmds)[x] = cmds[x + 1]
  BY <1>1
<1>10. Head(cmds) = q[e + 1]
  BY <1>7, <1>8
<1>11. Len(cmds) = 2 * Len(w) + 4 - e
  BY <1>5, <1>6, <1>7, <1>8
<1>12. \A x \in 1 .. Len(Tail(cmds)) : Tail(cmds)[x] = q[(e + 1) + x]
  <2> SUFFICES ASSUME NEW x \in 1 .. Len(Tail(cmds)) PROVE Tail(cmds)[x] = q[(e + 1) + x]
    OBVIOUS
  <2>1. x + 1 \in 1 .. Len(cmds) /\ (e + 1) + x = e + (x + 1)
    BY <1>8, <1>9
  <2> QED BY <1>7, <1>9, <2>1
<1> QED BY <1>2, <1>3, <1>5, <1>9, <1>10, <1>11, <1>12 DEF q, w

(* A command but the last brings the next.                                 *)
LEMMA Advance ==
  ASSUME Typed, NEW e \in Nat, NEW k \in Nat, Filling(e, k), cmds # <<>>,
         cmds' = Tail(cmds), UNCHANGED <<todo, made, Packet!gen, Packet!mac>>, TX_START' = TX_START,
         NEW d \in Nat, d <= Len(Data(Current)), e + 1 < 2 * Len(Data(Current)) + 4,
         Stored(d)', Stage(e + 1, d)'
  PROVE  Filling(e + 1, d)'
<1>1. /\ \A x \in 1 .. Len(Tail(cmds)) : Tail(cmds)[x] = Packet!CommandsOf(Current)[(e + 1) + x]
      /\ Len(cmds) = 2 * Len(Data(Current)) + 4 - e /\ Len(Tail(cmds)) = Len(cmds) - 1
      /\ Sends(Packet!CommandsOf(Current), Data(Current), Size(Current)) /\ Len(Data(Current)) \in {11, 12}
  BY NextCommand, Zenon DEF Known
<1>2. Current' = Current
  BY Zenon DEF Current
<1> DEFINE q == Packet!CommandsOf(Current)
           w == Data(Current)
<1>3. Len(q) = 2 * Len(w) + 4
  BY <1>1, Zenon DEF Sends
<1>4. pktState' = "S0" /\ TX_START' = 0 /\ frame' = <<>> /\ pktCtr' = pktCtr /\ sent' = sent /\ made' = made
  BY DEF Filling, Packet!gen, Packet!mac
<1>5. Open'
  BY <1>4 DEF Open, Filling
<1> HIDE DEF q, w
<1>6. Len(q) = Len(Tail(cmds)) + (e + 1)
  BY <1>1, <1>3, SMTT(30) DEF w
<1>7. Rest(Packet!CommandsOf(Current), e + 1)'
  BY <1>1, <1>2, <1>6, Zenon DEF Rest, q
<1> QED BY <1>2, <1>4, <1>5, <1>7, Zenon DEF Filling, w

LEMMA StoresOne ==
  ASSUME mem \in Cells, NEW k \in 0 .. 15, NEW v \in Word, mem' = [mem EXCEPT ![k] = v], made' = made,
         Stored(k), v = Data(Current)[k + 1]
  PROVE  mem' \in Cells /\ Stored(k + 1)'
<1>1. k \in Packet!MemWords
  BY CellsAre
<1>2. mem'[k] = v /\ \A x \in Packet!MemWords : x # k => mem'[x] = mem[x]
  BY <1>1 DEF Cells
<1>3. mem' \in Cells
  BY <1>1 DEF Cells
<1> DEFINE w == Data(Current)
<1>4. ASSUME NEW x \in 1 .. k + 1 PROVE mem'[x - 1] = w[x]
  <2> HIDE DEF w
  <2>1. CASE x = k + 1
    <3>1. x - 1 = k
      BY <2>1
    <3> QED BY <1>2, <2>1, <3>1 DEF w
  <2>2. CASE x # k + 1
    <3>1. x \in 1 .. k /\ x - 1 \in Packet!MemWords /\ x - 1 # k
      BY <2>2, CellsAre
    <3>2. mem[x - 1] = w[x]
      BY <3>1, Zenon DEF Stored, w
    <3> QED BY <1>2, <3>1, <3>2
  <2> QED BY <2>1, <2>2
<1>5. Current' = Current
  BY Zenon DEF Current
<1> QED BY <1>3, <1>4, <1>5, Zenon DEF Stored

(* What an execution leaves: the next stage, or the pulse.                 *)
LEMMA Executed ==
  ASSUME Typed, Packet!Execute, NEW e \in Nat, NEW k \in Nat, Filling(e, k)
  PROVE  BoardTypes' /\ ((\E f, d \in Nat : Filling(f, d)') \/ Started')
<1> DEFINE q == Packet!CommandsOf(Current)
           w == Data(Current)
           n == Size(Current)
           L == Len(w)
<1>1. cmds # <<>>
  BY Zenon DEF Packet!Execute
<1>2. /\ Known(Current) /\ Head(cmds) = q[e + 1] /\ L \in {11, 12}
      /\ Len(cmds) = 2 * L + 4 - e /\ Len(Tail(cmds)) = Len(cmds) - 1 /\ Tail(cmds) \in Seq(Word)
  BY <1>1, NextCommand, Zenon
<1>3. /\ Sends(q, w, n) /\ w \in Seq(Word) /\ n \in Halves
  BY <1>2, Zenon DEF Known, Framed
<1>4. /\ Stage(e, k) /\ Stored(k) /\ k <= L /\ e < 2 * L + 4 /\ TX_START = 0 /\ Open
      /\ pktState = "S0" /\ frame = <<>>
  BY Zenon DEF Filling
<1>5. BoardTypes
  BY Zenon DEF Typed
<1>6. mem \in Cells /\ addr \in 0 .. 16 /\ din \in Halves /\ TX_BYTES \in Halves /\ TX_START \in 0 .. 8
  BY <1>5, Zenon DEF BoardTypes
<1>7. 1 \in Nat /\ e + 1 \in Nat /\ k + 1 \in Nat /\ L \in Nat
  BY <1>2
<1>8. \A x \in 1 .. L : w[x] \in Word /\ q[2 * x + 1] = C(19, w[x].lo) /\ q[2 * x + 2] = C(20, w[x].hi)
  <2>1. \A x \in 1 .. L : w[x] \in Word
    BY <1>3
  <2> QED BY <1>3, <2>1, Zenon DEF Sends
<1>9. q[1] = C(17, 0) /\ q[2] = C(18, 0) /\ q[2 * L + 3] = C(32, n) /\ q[2 * L + 4] = C(11, 1)
  BY <1>3, Zenon DEF Sends
<1>10. made' = made
  BY Zenon DEF Packet!Execute
<1>11. Current' = Current
  BY <1>10, Zenon DEF Current
<1> HIDE DEF q, w, n, L
<1>12. ASSUME mem' = mem PROVE Stored(k)'
  BY <1>4, <1>11, <1>12, Zenon DEF Stored
<1>13. L = Len(Data(Current)) /\ n = Size(Current) /\ w = Data(Current) /\ q = Packet!CommandsOf(Current)
  BY Zenon DEF q, w, n, L
<1>14. CASE e = 0 /\ k = 0
  <2>1. Head(cmds) = C(17, 0)
    BY <1>2, <1>9, <1>14
  <2>2. /\ cmds' = Tail(cmds) /\ addr' = 0 /\ din' = din /\ mem' = mem /\ TX_BYTES' = TX_BYTES
        /\ TX_START' = TX_START /\ UNCHANGED <<todo, made, Packet!gen, Packet!mac>>
    BY <2>1, Does
  <2>3. Stage(e + 1, k)'
    BY <1>14, <2>2 DEF Stage
  <2>4. BoardTypes'
    BY <1>6, <2>2 DEF BoardTypes, Cells
  <2>5. e + 1 < 2 * L + 4
    BY <1>2, <1>14
  <2>6. Filling(e + 1, k)'
    BY <1>1, <1>4, <1>12, <1>13, <2>2, <2>3, <2>5, Advance
  <2> QED BY <1>7, <2>4, <2>6, Zenon
<1>15. CASE e = 1 /\ k = 0 /\ addr = 0
  <2>1. Head(cmds) = C(18, 0)
    BY <1>2, <1>9, <1>15
  <2>2. /\ cmds' = Tail(cmds) /\ addr' = addr /\ din' = din /\ mem' = mem /\ TX_BYTES' = TX_BYTES
        /\ TX_START' = TX_START /\ UNCHANGED <<todo, made, Packet!gen, Packet!mac>>
    BY <2>1, Does
  <2>3. Stage(e + 1, k)'
    BY <1>15, <2>2 DEF Stage
  <2>4. BoardTypes'
    BY <1>6, <2>2 DEF BoardTypes, Cells
  <2>5. e + 1 < 2 * L + 4
    BY <1>2, <1>15
  <2>6. Filling(e + 1, k)'
    BY <1>1, <1>4, <1>12, <1>13, <2>2, <2>3, <2>5, Advance
  <2> QED BY <1>7, <2>4, <2>6, Zenon
<1>16. CASE e = 2 * k + 2 /\ addr = k /\ k < L
  <2>0. k + 1 \in 1 .. L /\ e + 1 = 2 * (k + 1) + 1 /\ e + 1 < 2 * L + 4 /\ e + 1 = 2 * k + 3
    BY <1>7, <1>16
  <2> DEFINE v == w[k + 1]
  <2>1. Head(cmds) = C(19, v.lo) /\ v \in Word
    BY <1>2, <1>8, <2>0
  <2>2. v.lo \in Halves
    BY <2>1 DEF Word
  <2>3. /\ cmds' = Tail(cmds) /\ addr' = addr /\ din' = v.lo /\ mem' = mem /\ TX_BYTES' = TX_BYTES
        /\ TX_START' = TX_START /\ UNCHANGED <<todo, made, Packet!gen, Packet!mac>>
    <3> HIDE DEF v
    <3> QED BY <2>1, Does
  <2>4. Stage(e + 1, k)'
    BY <1>11, <1>13, <1>16, <2>0, <2>3, Zenon DEF Stage
  <2>5. BoardTypes'
    <3> HIDE DEF v
    <3> QED BY <1>6, <2>2, <2>3 DEF BoardTypes, Cells
  <2>6. Filling(e + 1, k)'
    BY <1>1, <1>4, <1>12, <1>13, <2>0, <2>3, <2>4, Advance
  <2> QED BY <1>7, <2>5, <2>6, Zenon
<1>17. CASE e = 2 * k + 2 /\ addr = k /\ k = L
  <2>0. e + 1 = 2 * L + 3 /\ e + 1 < 2 * L + 4 /\ e + 1 = 2 * k + 3
    BY <1>7, <1>17
  <2>1. Head(cmds) = C(32, n)
    BY <1>2, <1>9, <2>0
  <2>2. /\ cmds' = Tail(cmds) /\ addr' = addr /\ din' = din /\ mem' = mem /\ TX_BYTES' = n
        /\ TX_START' = TX_START /\ UNCHANGED <<todo, made, Packet!gen, Packet!mac>>
    BY <2>1, Does
  <2>3. Stage(e + 1, k)'
    BY <1>11, <1>13, <1>17, <2>0, <2>2, Zenon DEF Stage
  <2>4. BoardTypes'
    BY <1>3, <1>6, <2>2 DEF BoardTypes, Cells
  <2>5. Filling(e + 1, k)'
    BY <1>1, <1>4, <1>12, <1>13, <2>0, <2>2, <2>3, Advance
  <2> QED BY <1>7, <2>4, <2>5, Zenon
<1>18. CASE e = 2 * k + 3 /\ addr = k /\ k < L /\ din = w[k + 1].lo
  <2>0. k + 1 \in 1 .. L /\ k + 1 <= L /\ e + 1 = 2 * (k + 1) + 2 /\ e + 1 < 2 * L + 4 /\ k \in 0 .. 15
    BY <1>2, <1>7, <1>18
  <2> DEFINE v == w[k + 1]
  <2>1. Head(cmds) = C(20, v.hi) /\ v \in Word
    BY <1>2, <1>8, <2>0
  <2>2. [lo |-> din, hi |-> v.hi] = v
    BY <1>18, <2>1 DEF Word
  <2>3. /\ cmds' = Tail(cmds) /\ addr' = addr + 1 /\ din' = din /\ TX_BYTES' = TX_BYTES
        /\ mem' = [mem EXCEPT ![addr] = [lo |-> din, hi |-> v.hi]]
        /\ TX_START' = TX_START /\ UNCHANGED <<todo, made, Packet!gen, Packet!mac>>
    <3> DEFINE u == v.hi
    <3>1. Head(cmds) = C(20, u)
      BY <2>1
    <3> HIDE DEF u
    <3>2. /\ cmds' = Tail(cmds) /\ addr' = addr + 1 /\ din' = din /\ TX_BYTES' = TX_BYTES
          /\ mem' = [mem EXCEPT ![addr] = [lo |-> din, hi |-> u]]
          /\ TX_START' = TX_START /\ UNCHANGED <<todo, made, Packet!gen, Packet!mac>>
      BY <3>1, Does
    <3> QED BY <3>2, Zenon DEF u
  <2>4. v = Data(Current)[k + 1]
    BY <1>13, Zenon
  <2>5. mem' = [mem EXCEPT ![k] = v]
    BY <1>18, <2>2, <2>3
  <2> HIDE DEF v
  <2>6. mem' \in Cells /\ Stored(k + 1)'
    BY <1>4, <1>6, <1>10, <2>0, <2>1, <2>4, <2>5, StoresOne
  <2>7. addr' = k + 1
    BY <1>18, <2>3
  <2>8. Stage(e + 1, k + 1)'
    BY <2>0, <2>7, Zenon DEF Stage
  <2>9. BoardTypes'
    <3>1. addr' \in 0 .. 16
      BY <2>0, <2>7
    <3> QED BY <1>6, <2>3, <2>6, <3>1, Zenon DEF BoardTypes
  <2>10. Filling(e + 1, k + 1)'
    BY <1>1, <1>7, <1>13, <2>0, <2>3, <2>6, <2>8, Advance
  <2> QED BY <1>7, <2>9, <2>10, Zenon
<1>19. CASE e = 2 * k + 3 /\ k = L /\ TX_BYTES = n
  <2>0. e + 1 = 2 * L + 4 /\ Len(cmds) = 1
    BY <1>2, <1>7, <1>19
  <2>1. Head(cmds) = C(11, 1)
    BY <1>2, <1>9, <2>0
  <2>2. /\ cmds' = Tail(cmds) /\ addr' = addr /\ din' = din /\ mem' = mem /\ TX_BYTES' = TX_BYTES
        /\ TX_START' \in 1 .. 8 /\ UNCHANGED <<todo, made, Packet!gen, Packet!mac>>
    BY <2>1, Does
  <2>3. cmds' = <<>>
    BY <1>2, <2>0, <2>2
  <2>4. BoardTypes'
    BY <1>6, <2>2 DEF BoardTypes, Cells
  <2>5. pktState' = "S0" /\ frame' = <<>> /\ pktCtr' = pktCtr /\ sent' = sent /\ TX_START' > 0
    BY <1>4, <2>2 DEF Packet!gen, Packet!mac
  <2>6. Open'
    BY <1>4, <1>10, <2>5 DEF Open
  <2>7. Started'
    BY <1>11, <1>12, <1>13, <1>19, <2>2, <2>3, <2>5, <2>6, Zenon DEF Started
  <2> QED BY <2>4, <2>7, Zenon
<1>20. \/ e = 0 /\ k = 0
       \/ e = 1 /\ k = 0 /\ addr = 0
       \/ e = 2 * k + 2 /\ addr = k
       \/ e = 2 * k + 3 /\ addr = k /\ k < L /\ din = w[k + 1].lo
       \/ e = 2 * k + 3 /\ k = L /\ TX_BYTES = n
  BY <1>4, <1>13, Zenon DEF Stage
<1>21. k < L \/ k = L
  BY <1>4, <1>7
<1> QED BY <1>14, <1>15, <1>16, <1>17, <1>18, <1>19, <1>20, <1>21, Zenon

LEMMA ExecuteStep ==
  ASSUME FrameInv, Packet!Execute
  PROVE  FrameInv'
<1>1. Typed /\ SentRight /\ FramePhase /\ cmds # <<>>
  BY Zenon DEF FrameInv, Packet!Execute
<1>2. PICK e \in Nat, k \in Nat : Filling(e, k)
  BY <1>1, Zenon DEF FramePhase, Idle, Started, Sending, Ending
<1>3. BoardTypes' /\ ((\E f, d \in Nat : Filling(f, d)') \/ Started')
  BY <1>1, <1>2, Executed, Zenon
<1>4. FramePhase'
  BY <1>3, Zenon DEF FramePhase
<1>5. cmds' \in Seq(Word)
  <2>1. cmds' = Tail(cmds) /\ cmds \in Seq(Word)
    BY <1>1, Zenon DEF Packet!Execute, Typed
  <2> QED BY <1>1, <2>1
<1>6. UNCHANGED <<todo, made, Packet!gen, Packet!mac>>
  BY Zenon DEF Packet!Execute
<1>7. /\ todo' = todo /\ made' = made /\ addrCtr' = addrCtr /\ bytesLeft' = bytesLeft
      /\ bytesLeft_reg' = bytesLeft_reg /\ pktCtr' = pktCtr /\ TREADY' = TREADY /\ frame' = frame /\ sent' = sent
  BY <1>6 DEF Packet!gen, Packet!mac
<1>8. Typed'
  BY <1>1, <1>3, <1>5, <1>7, Zenon DEF Typed
<1>9. SentRight'
  BY <1>1, <1>7, Zenon DEF SentRight
<1> QED BY <1>4, <1>8, <1>9, Zenon DEF FrameInv

(* A clock with no packet under way and no pulse.                          *)
LEMMA Rests ==
  ASSUME FrameInv, Packet!TxClock, pktState = "S0", TX_START = 0
  PROVE  FrameInv'
<1>1. Typed /\ SentRight /\ FramePhase
  BY Zenon DEF FrameInv
<1>2. /\ UNCHANGED <<todo, cmds, made, Packet!board>> /\ TREADY' \in BOOLEAN
      /\ TX_START' = IF TX_START > 0 THEN TX_START - 1 ELSE 0
      /\ Packet!pkt_sm /\ Packet!Transfer
  BY Zenon DEF Packet!TxClock
<1>3. ~Packet!Valid
  BY DEF Packet!Valid
<1>4. Packet!Start /\ UNCHANGED <<bytesLeft_reg, pktCtr>>
  BY <1>2, <1>3 DEF Packet!pkt_sm
<1>5. UNCHANGED <<addrCtr, bytesLeft, pktState>>
  <2>1. ~(TX_START > 0)
    OBVIOUS
  <2> QED BY <1>4, <2>1, Zenon DEF Packet!Start
<1>6. UNCHANGED <<frame, sent>>
  BY <1>2, <1>3, Zenon DEF Packet!Transfer
<1>7. /\ todo' = todo /\ cmds' = cmds /\ made' = made /\ mem' = mem /\ addr' = addr /\ din' = din
         /\ TX_BYTES' = TX_BYTES
      /\ addrCtr' = addrCtr /\ bytesLeft' = bytesLeft /\ pktState' = pktState /\ bytesLeft_reg' = bytesLeft_reg
      /\ pktCtr' = pktCtr /\ frame' = frame /\ sent' = sent /\ TX_START' = TX_START
  BY <1>2, <1>4, <1>5, <1>6 DEF Packet!board
<1>8. Typed'
  BY <1>1, <1>2, <1>7, Zenon DEF Typed, BoardTypes, Cells
<1>9. SentRight'
  BY <1>1, <1>7, Zenon DEF SentRight
<1>10. Current' = Current
  BY <1>7, Zenon DEF Current
<1>11. CASE Idle
  <2>1. Idle'
    BY <1>7, <1>11, Zenon DEF Idle
  <2> QED BY <1>8, <1>9, <2>1, Zenon DEF FrameInv, FramePhase
<1>12. CASE \E e, k \in Nat : Filling(e, k)
  <2>1. PICK e \in Nat, k \in Nat : Filling(e, k)
    BY <1>12
  <2>2. Rest(Packet!CommandsOf(Current), e)' /\ Stored(k)' /\ Stage(e, k)' /\ Open'
    BY <1>7, <1>10, <2>1, Zenon DEF Filling, Rest, Stored, Stage, Open
  <2>3. Filling(e, k)'
    BY <1>7, <1>10, <2>1, <2>2, Zenon DEF Filling
  <2> QED BY <1>8, <1>9, <2>3, Zenon DEF FrameInv, FramePhase
<1>13. ~Started /\ ~Sending /\ ~Ending
  BY DEF Started, Sending, Ending
<1> QED BY <1>1, <1>11, <1>12, <1>13, Zenon DEF FramePhase

(* An even address and the next.                                           *)
LEMMA PairIn ==
  ASSUME NEW n \in Nat
  PROVE  (2 * n) % 16 \in 0 .. 15 /\ ((2 * n) % 16) + 1 \in 0 .. 15 /\ (2 * n < 16 => (2 * n) % 16 = 2 * n)
<1> DEFINE q == n \div 8
           r == n % 8
<1>1. q \in Nat /\ r \in 0 .. 7 /\ n = 8 * q + r
  BY Quotient
<1> HIDE DEF q, r
<1>2. 16 \in Nat \ {0} /\ 2 * r \in 0 .. 16 - 1 /\ 2 * n = 2 * r + 16 * q
  BY <1>1
<1>3. (2 * r + 16 * q) % 16 = 2 * r
  BY <1>1, <1>2, OneQuotient
<1>4. (2 * n) % 16 = 2 * r
  BY <1>2, <1>3, Zenon
<1>5. 2 * n < 16 => 2 * r = 2 * n
  BY <1>1
<1> QED BY <1>1, <1>4, <1>5

(* The pulse is seen.                                                      *)
LEMMA PulseSeen ==
  ASSUME FrameInv, Packet!TxClock, pktState = "S0", TX_START # 0
  PROVE  FrameInv'
<1>1. Typed /\ SentRight /\ FramePhase /\ BoardTypes
  BY Zenon DEF FrameInv, Typed
<1>2. /\ UNCHANGED <<todo, cmds, made, Packet!board>> /\ TREADY' \in BOOLEAN
      /\ TX_START' = IF TX_START > 0 THEN TX_START - 1 ELSE 0
      /\ Packet!pkt_sm /\ Packet!Transfer /\ Packet!Read
  BY Zenon DEF Packet!TxClock
<1>3. ~Packet!Valid
  BY DEF Packet!Valid
<1>4. Packet!Start /\ UNCHANGED <<bytesLeft_reg, pktCtr>>
  BY <1>2, <1>3 DEF Packet!pkt_sm
<1>5. UNCHANGED <<frame, sent>>
  BY <1>2, <1>3, Zenon DEF Packet!Transfer
<1>6. Started
  BY <1>1 DEF FramePhase, Idle, Filling, Sending, Ending
<1>7. Known(Current)
  <2>1. sent \in Seq(Seq(Octets))
    BY <1>1, Zenon DEF Typed
  <2>2. Len(made) > 0
    BY <1>6, <2>1 DEF Started, Open
  <2> QED BY <1>1, <2>2, CurrentKnown
<1>8. /\ cmds = <<>> /\ TX_START > 0 /\ frame = <<>> /\ Open /\ Stored(Len(Data(Current))) /\ TX_BYTES = Size(Current)
  BY <1>6, Zenon DEF Started
<1>9. Size(Current) \in Halves /\ Size(Current) >= 42 /\ Size(Current) \in Nat
  BY <1>7, WidthIs, Zenon DEF Known, Framed
<1> DEFINE n == Size(Current)
<1> HIDE DEF n
<1>10. addrCtr' = 0 /\ bytesLeft' = TX_BYTES /\ pktState' = "S1"
  <2>1. ~(n < 14) /\ n = TX_BYTES
    BY <1>8, <1>9 DEF n
  <2> QED BY <1>4, <1>8, <2>1, Zenon DEF Packet!Start
<1>11. /\ todo' = todo /\ cmds' = cmds /\ made' = made /\ mem' = mem /\ addr' = addr /\ din' = din
          /\ TX_BYTES' = TX_BYTES
       /\ bytesLeft_reg' = bytesLeft_reg /\ pktCtr' = pktCtr /\ frame' = frame /\ sent' = sent
       /\ TX_START' = TX_START - 1 /\ TX_START' \in 0 .. 7
  <2>1. TX_START \in 0 .. 8
    BY <1>1, Zenon DEF BoardTypes
  <2> QED BY <1>2, <1>4, <1>5, <1>8, <2>1 DEF Packet!board
<1>12. Current' = Current
  BY <1>11, Zenon DEF Current
<1>13. Typed'
  <2>1. 0 \in Halves
    BY WidthIs
  <2>2. TX_START' \in 0 .. 8
    BY <1>11
  <2>3. BoardTypes'
    BY <1>1, <1>11, <2>2, Zenon DEF BoardTypes, Cells
  <2>4. bytesLeft' \in Halves /\ addrCtr' \in Halves
    BY <1>8, <1>9, <1>10, <2>1, Zenon
  <2> QED BY <1>1, <1>2, <1>11, <2>3, <2>4, Zenon DEF Typed
<1>14. SentRight'
  BY <1>1, <1>11, Zenon DEF SentRight
<1>15. doutb' = Fetched'
  <2>1. doutb' = <<mem[(2 * addrCtr') % 16], mem[((2 * addrCtr') % 16) + 1]>>
    BY <1>2, CellsAre, Zenon DEF Packet!Read
  <2> QED BY <1>11, <2>1, Zenon DEF Fetched
<1>16. Sending'
  <2>1. bytesLeft' > 0 /\ bytesLeft' + 8 * addrCtr' = n /\ 8 * addrCtr' = 0 /\ bytesLeft' = n
    BY <1>8, <1>9, <1>10 DEF n
  <2>2. frame' = <<>> /\ Len(frame') = 0
    BY <1>8, <1>11
  <2>3. SentSoFar(frame', Current, pktCtr')
    <3>1. (\A k \in 1 .. 42 : ~(k <= Len(frame'))) /\ (\A k \in 1 .. 6 : ~(42 + k <= Len(frame')))
      BY <2>2
    <3> QED BY <3>1, Zenon DEF SentSoFar
  <2>4. TX_START' + addrCtr' <= 7
    BY <1>10, <1>11
  <2>5. Open' /\ Stored(Len(Data(Current)))'
    BY <1>8, <1>11, <1>12, Zenon DEF Open, Stored
  <2>6. cmds' = <<>>
    BY <1>8, <1>11
  <2>7. bytesLeft' + 8 * addrCtr' = Size(Current) /\ Len(frame') = 8 * addrCtr'
    BY <2>1, <2>2 DEF n
  <2> QED BY <1>10, <1>12, <1>15, <2>1, <2>3, <2>4, <2>5, <2>6, <2>7, Zenon DEF Sending
<1> QED BY <1>13, <1>14, <1>16, Zenon DEF FrameInv, FramePhase

(* The eight bytes of a clock.                                             *)
LEMMA FourBytes ==
  ASSUME NEW v \in Word
  PROVE  Packet!BytesOf(v) \in Seq(Octets) /\ Len(Packet!BytesOf(v)) = 4
<1>1. v.lo \in Halves /\ v.hi \in Halves
  BY DEF Word
<1> DEFINE g == v.lo
           h == v.hi
<1> HIDE DEF g, h
<1>2. g \in Halves /\ h \in Halves
  BY <1>1 DEF g, h
<1>3. g % 256 \in Octets /\ g \div 256 \in Octets /\ h % 256 \in Octets /\ h \div 256 \in Octets
  BY <1>2, BytesOfHalf
<1> DEFINE a == g % 256
           b == g \div 256
           c == h % 256
           d == h \div 256
<1>4. Packet!BytesOf(v) = <<a, b, c, d>>
  BY Zenon DEF Packet!BytesOf, g, h
<1>5. a \in Octets /\ b \in Octets /\ c \in Octets /\ d \in Octets
  BY <1>3
<1> HIDE DEF a, b, c, d
<1>6. <<a, b, c, d>> \in Seq(Octets) /\ Len(<<a, b, c, d>>) = 4
  BY <1>5
<1> QED BY <1>4, <1>6, Zenon

(* The bytes of a clock carry on what has been sent of the frame of c, n   *)
(* frames after the first.                                                 *)
CarriesOn(t, a, c, n) ==
  /\ t \in Seq(Octets) /\ Len(t) = 8
  /\ \A r \in 1 .. 8 : 8 * a + r <= 42 => t[r] = Packet!NetworkBytes(Buffer(c))[8 * a + r]
  /\ \A r \in 1 .. 8, k \in 1 .. 6 : 8 * a + r = 42 + k => t[r] = Packet!CountBytes(n)[k]

LEMMA FirstBytes ==
  ASSUME NEW s \in Seq(Octets), NEW h \in Nat, h <= Len(s)
  PROVE  SubSeq(s, 1, h) \in Seq(Octets) /\ Len(SubSeq(s, 1, h)) = h /\ \A r \in 1 .. h : SubSeq(s, 1, h)[r] = s[r]
<1>1. h \in Nat /\ Len(s) \in Nat /\ h <= Len(s)
  OBVIOUS
<1>2. SubSeq(s, 1, h) = [r \in 1 .. h |-> s[r]]
  BY <1>1
<1>3. \A r \in 1 .. h : s[r] \in Octets
  <2>1. \A r \in 1 .. h : r \in 1 .. Len(s)
    BY <1>1
  <2> QED BY <2>1
<1> HIDE DEF Octets
<1> QED BY <1>1, <1>2, <1>3

LEMMA DoublewordIs ==
  ASSUME NEW x \in Word, NEW y \in Word, doutb = <<x, y>>
  PROVE  /\ Packet!Doubleword \in Seq(Octets) /\ Len(Packet!Doubleword) = 8
         /\ \A r \in 1 .. 4 : Packet!Doubleword[r] = Packet!BytesOf(x)[r]
            /\ Packet!Doubleword[4 + r] = Packet!BytesOf(y)[r]
<1> DEFINE b == Packet!BytesOf(x)
           e == Packet!BytesOf(y)
<1>1. b \in Seq(Octets) /\ Len(b) = 4 /\ e \in Seq(Octets) /\ Len(e) = 4
  BY FourBytes
<1>2. Packet!Doubleword = b \o e
  <2>1. doutb[1] = x /\ doutb[2] = y
    OBVIOUS
  <2> QED BY <2>1, Zenon DEF Packet!Doubleword
<1> HIDE DEF b, e
<1>3. Joined(Octets, b, e)
  BY <1>1, CatIs, Zenon
<1> DEFINE d == b \o e
<1>4. /\ d \in Seq(Octets) /\ Len(d) = Len(b) + Len(e)
      /\ \A g \in 1 .. Len(b) : d[g] = b[g]
      /\ \A g \in 1 .. Len(e) : d[Len(b) + g] = e[g]
  BY <1>3, Zenon DEF Joined
<1> HIDE DEF d
<1>5. d \in Seq(Octets) /\ Len(d) = 8 /\ \A r \in 1 .. 4 : d[r] = b[r] /\ d[4 + r] = e[r]
  BY <1>1, <1>4
<1> QED BY <1>2, <1>5, Zenon DEF b, e, d

LEMMA DataIs ==
  ASSUME Typed, Sending
  PROVE  CarriesOn(Packet!TDATA, addrCtr, Current, pktCtr)
<1> DEFINE a == addrCtr
           c == Current
           w == Data(c)
           net == Packet!NetworkBytes(Buffer(c))
           x == mem[(2 * a) % 16]
           y == mem[((2 * a) % 16) + 1]
           d == Packet!Doubleword
           z == Packet!CountBytes(pktCtr)
<1>1. /\ mem \in Cells /\ a \in Nat /\ pktCtr \in Nat /\ sent \in Seq(Seq(Octets))
  <2>1. mem \in Cells /\ a \in Halves
    BY Zenon DEF Typed, BoardTypes
  <2> QED BY <2>1, WidthIs, Zenon DEF Typed
<1>2. Known(c)
  <2>1. Len(made) > 0
    BY <1>1 DEF Sending, Open
  <2> QED BY <2>1, CurrentKnown
<1>3. doutb = <<x, y>> /\ Stored(Len(w))
  BY Zenon DEF Sending, Fetched
<1>4. x \in Word /\ y \in Word
  <2>1. (2 * a) % 16 \in Packet!MemWords /\ ((2 * a) % 16) + 1 \in Packet!MemWords
    BY <1>1, PairIn, CellsAre
  <2> QED BY <1>1, <2>1, Zenon DEF Cells
<1>5. w \in Seq(Word) /\ Len(w) \in {11, 12} /\ (\A k \in 1 .. Len(w), r \in 1 .. 4 : Holds(c, k, r))
  BY <1>2, Zenon DEF Known, Framed
<1>6. d \in Seq(Octets) /\ Len(d) = 8 /\ \A r \in 1 .. 4 : d[r] = Packet!BytesOf(x)[r]
      /\ d[4 + r] = Packet!BytesOf(y)[r]
  <2> HIDE DEF x, y
  <2> QED BY <1>3, <1>4, DoublewordIs
<1>7. ASSUME NEW k \in 1 .. Len(w) PROVE mem[k - 1] = w[k]
  BY <1>3, <1>7, Zenon DEF Stored
<1>8. ASSUME NEW k \in 1 .. Len(w), NEW r \in 1 .. 4, 4 * k - 4 + r <= 42
      PROVE  Packet!BytesOf(w[k])[r] = net[4 * k - 4 + r]
  BY <1>5, <1>8, Zenon DEF Holds
<1> HIDE DEF a, c, w, net, x, y, d, z
<1>9. ASSUME NEW r \in 1 .. 4, 8 * a + r <= 42 PROVE d[r] = net[8 * a + r]
  <2>1. /\ 2 * a + 1 \in 1 .. Len(w) /\ 2 * a < 16 /\ 4 * (2 * a + 1) - 4 + r = 8 * a + r
        /\ (2 * a + 1) - 1 = 2 * a
    <3>1. a \in Nat /\ Len(w) \in {11, 12}
      BY <1>1, <1>5
    <3> DEFINE l == Len(w)
    <3>2. l \in {11, 12}
      BY <3>1
    <3> HIDE DEF l
    <3>3. a <= 5
      BY <3>1, <1>9
    <3>4. 2 * a + 1 \in 1 .. l
      BY <3>1, <3>2, <3>3
    <3>5. 2 * a < 16 /\ 4 * (2 * a + 1) - 4 + r = 8 * a + r
      BY <3>1, <3>3
    <3>6. (2 * a + 1) - 1 = 2 * a
      BY <3>1
    <3> QED BY <3>4, <3>5, <3>6, Zenon DEF l
  <2>2. x = w[2 * a + 1]
    BY <1>1, <1>7, <2>1, PairIn DEF x
  <2>3. Packet!BytesOf(w[2 * a + 1])[r] = net[8 * a + r]
    <3> DEFINE k == 2 * a + 1
    <3>1. k \in 1 .. Len(w) /\ 4 * k - 4 + r = 8 * a + r
      BY <2>1
    <3> HIDE DEF k
    <3>2. Packet!BytesOf(w[k])[r] = net[4 * k - 4 + r]
      BY <1>8, <1>9, <3>1
    <3> QED BY <3>1, <3>2, Zenon DEF k
  <2> QED BY <1>6, <2>2, <2>3
<1>10. ASSUME NEW r \in 1 .. 4, 8 * a + (4 + r) <= 42 PROVE d[4 + r] = net[8 * a + (4 + r)]
  <2>1. /\ 2 * a + 2 \in 1 .. Len(w) /\ 2 * a < 16 /\ 4 * (2 * a + 2) - 4 + r = 8 * a + (4 + r)
        /\ (2 * a + 2) - 1 = 2 * a + 1
    <3>1. a \in Nat /\ Len(w) \in {11, 12}
      BY <1>1, <1>5
    <3> DEFINE l == Len(w)
    <3>2. l \in {11, 12}
      BY <3>1
    <3> HIDE DEF l
    <3>3. a <= 4
      BY <3>1, <1>10
    <3>4. 2 * a + 2 \in 1 .. l
      BY <3>1, <3>2, <3>3
    <3>5. 2 * a < 16 /\ 4 * (2 * a + 2) - 4 + r = 8 * a + (4 + r)
      BY <3>1, <3>3
    <3>6. (2 * a + 2) - 1 = 2 * a + 1
      BY <3>1
    <3> QED BY <3>4, <3>5, <3>6, Zenon DEF l
  <2>2. y = w[2 * a + 2]
    BY <1>1, <1>7, <2>1, PairIn DEF y
  <2>3. Packet!BytesOf(w[2 * a + 2])[r] = net[8 * a + (4 + r)]
    <3> DEFINE k == 2 * a + 2
    <3>1. k \in 1 .. Len(w) /\ 4 * k - 4 + r = 8 * a + (4 + r)
      BY <2>1
    <3> HIDE DEF k
    <3>2. Packet!BytesOf(w[k])[r] = net[4 * k - 4 + r]
      BY <1>8, <1>10, <3>1
    <3> QED BY <3>1, <3>2, Zenon DEF k
  <2> QED BY <1>6, <2>2, <2>3
<1>11. ASSUME NEW r \in 1 .. 8, 8 * a + r <= 42 PROVE d[r] = net[8 * a + r]
  <2>1. CASE r <= 4
    BY <1>9, <1>11, <2>1
  <2>2. CASE r > 4
    <3> DEFINE g == r - 4
    <3>1. g \in 1 .. 4 /\ 4 + g = r
      BY <2>2
    <3> HIDE DEF g
    <3> QED BY <1>10, <1>11, <3>1
  <2> QED BY <2>1, <2>2
<1>12. z \in Seq(Octets) /\ Len(z) = 6
  BY <1>1, CountIs DEF z
<1>13. CASE a # 5
  <2>1. Packet!TDATA = d
    BY <1>13, Zenon DEF Packet!TDATA, a, d
  <2>2. \A r \in 1 .. 8, k \in 1 .. 6 : 8 * a + r # 42 + k
    BY <1>1, <1>13
  <2>3. CarriesOn(d, a, c, pktCtr)
    BY <1>6, <1>11, <2>2, Zenon DEF CarriesOn, net
  <2> QED BY <2>1, <2>3, Zenon DEF a, c
<1>14. CASE a = 5
  <2> DEFINE s == SubSeq(d, 1, 2)
  <2>1. s \in Seq(Octets) /\ Len(s) = 2 /\ s[1] = d[1] /\ s[2] = d[2]
    <3>1. 2 \in Nat /\ 2 <= Len(d) /\ d \in Seq(Octets) /\ 1 \in 1 .. 2 /\ 2 \in 1 .. 2
      BY <1>6
    <3> QED BY <3>1, FirstBytes, Zenon
  <2> HIDE DEF s
  <2>2. Joined(Octets, s, z)
    BY <1>12, <2>1, CatIs, Zenon
  <2> DEFINE t == s \o z
  <2>3. /\ t \in Seq(Octets) /\ Len(t) = Len(s) + Len(z)
        /\ \A g \in 1 .. Len(s) : t[g] = s[g]
        /\ \A g \in 1 .. Len(z) : t[Len(s) + g] = z[g]
    BY <2>2, Zenon DEF Joined
  <2> HIDE DEF t
  <2>4. t \in Seq(Octets) /\ Len(t) = 8 /\ t[1] = d[1] /\ t[2] = d[2] /\ \A g \in 1 .. 6 : t[2 + g] = z[g]
    BY <1>12, <2>1, <2>3
  <2>5. Packet!TDATA = t
    BY <1>14, Zenon DEF Packet!TDATA, a, d, t, s, z
  <2>6. ASSUME NEW r \in 1 .. 8, 8 * a + r <= 42 PROVE t[r] = net[8 * a + r]
    <3>1. r = 1 \/ r = 2
      BY <1>14, <2>6
    <3> QED BY <1>11, <2>4, <2>6, <3>1
  <2>7. ASSUME NEW r \in 1 .. 8, NEW k \in 1 .. 6, 8 * a + r = 42 + k PROVE t[r] = z[k]
    <3>1. r = 2 + k
      BY <1>14, <2>7
    <3> QED BY <2>4, <3>1
  <2>8. CarriesOn(t, a, c, pktCtr)
    BY <2>4, <2>6, <2>7, Zenon DEF CarriesOn, net, z
  <2> QED BY <2>5, <2>8, Zenon DEF a, c
<1> QED BY <1>13, <1>14

LEMMA Grown ==
  ASSUME NEW f \in Seq(Octets), NEW a \in Nat, Len(f) = 8 * a, NEW c, NEW n, SentSoFar(f, c, n),
         NEW t, CarriesOn(t, a, c, n), NEW h \in 0 .. 8
  PROVE  LET g == f \o SubSeq(t, 1, h) IN g \in Seq(Octets) /\ Len(g) = 8 * a + h /\ SentSoFar(g, c, n)
<1> DEFINE s == SubSeq(t, 1, h)
           net == Packet!NetworkBytes(Buffer(c))
           z == Packet!CountBytes(n)
           g == f \o s
<1>1. t \in Seq(Octets) /\ Len(t) = 8
  BY Zenon DEF CarriesOn
<1>2. s \in Seq(Octets) /\ Len(s) = h /\ \A r \in 1 .. h : s[r] = t[r]
  <2>1. h \in Nat /\ h <= Len(t)
    BY <1>1
  <2> QED BY <1>1, <2>1, FirstBytes, Zenon
<1> HIDE DEF s, net, z
<1>3. Joined(Octets, f, s)
  BY <1>2, CatIs, Zenon
<1>4. /\ g \in Seq(Octets) /\ Len(g) = Len(f) + Len(s)
      /\ \A r \in 1 .. Len(f) : g[r] = f[r]
      /\ \A r \in 1 .. Len(s) : g[Len(f) + r] = s[r]
  BY <1>3, Zenon DEF Joined
<1> HIDE DEF g
<1>5. /\ \A r \in 1 .. 8 : 8 * a + r <= 42 => t[r] = net[8 * a + r]
      /\ \A r \in 1 .. 8, k \in 1 .. 6 : 8 * a + r = 42 + k => t[r] = z[k]
  BY Zenon DEF CarriesOn, net, z
<1>6. /\ \A k \in 1 .. 42 : k <= Len(f) => f[k] = net[k]
      /\ c.kind = "udp" => \A k \in 1 .. 6 : 42 + k <= Len(f) => f[42 + k] = z[k]
  BY Zenon DEF SentSoFar, net, z
<1>7. ASSUME NEW p \in Nat \ {0}, p <= Len(g)
      PROVE  (p <= Len(f) /\ g[p] = f[p]) \/ \E r \in 1 .. 8 : p = 8 * a + r /\ g[p] = t[r]
  <2>1. CASE p <= Len(f)
    <3>1. p \in 1 .. Len(f)
      BY <2>1
    <3> QED BY <1>4, <2>1, <3>1, Zenon
  <2>2. CASE p > Len(f)
    <3> DEFINE r == p - Len(f)
               l == Len(f)
               m == Len(g)
    <3>1. r \in 1 .. h /\ p = Len(f) + r /\ p = 8 * a + r /\ r \in 1 .. 8
      <4>1. l = 8 * a /\ m = l + h /\ p <= m /\ p > l /\ r = p - l
        BY <1>2, <1>4, <1>7, <2>2, Zenon
      <4>2. l \in Nat
        BY <4>1
      <4> HIDE DEF l, m, r
      <4>3. r \in 1 .. h /\ p = l + r /\ r \in 1 .. 8
        BY <4>1, <4>2
      <4> QED BY <4>1, <4>3, Zenon DEF l
    <3> HIDE DEF r
    <3> QED BY <1>2, <1>4, <3>1
  <2> QED BY <2>1, <2>2
<1>8. ASSUME NEW k \in 1 .. 42, k <= Len(g) PROVE g[k] = net[k]
  <2>1. k \in Nat \ {0} /\ k <= 42
    OBVIOUS
  <2> QED BY <1>5, <1>6, <1>7, <1>8, <2>1
<1>9. ASSUME c.kind = "udp", NEW k \in 1 .. 6, 42 + k <= Len(g) PROVE g[42 + k] = z[k]
  <2>1. 42 + k \in Nat \ {0}
    OBVIOUS
  <2> QED BY <1>5, <1>6, <1>7, <1>9, <2>1
<1>10. SentSoFar(g, c, n)
  BY <1>8, <1>9, Zenon DEF SentSoFar, net, z
<1> QED BY <1>2, <1>4, <1>10 DEF g, s

(* The MAC does not take the word.                                         *)
LEMMA WordWaits ==
  ASSUME FrameInv, Packet!TxClock, Sending, ~TREADY
  PROVE  FrameInv'
<1>1. Typed /\ SentRight /\ BoardTypes
  BY Zenon DEF FrameInv, Typed
<1>2. /\ UNCHANGED <<todo, cmds, made, Packet!board>> /\ TREADY' \in BOOLEAN
      /\ TX_START' = IF TX_START > 0 THEN TX_START - 1 ELSE 0
      /\ Packet!pkt_sm /\ Packet!Transfer /\ Packet!Read
  BY Zenon DEF Packet!TxClock
<1>3. pktState = "S1"
  BY Zenon DEF Sending
<1>4. UNCHANGED <<pktState, addrCtr, bytesLeft, bytesLeft_reg, pktCtr>>
  BY <1>2, <1>3 DEF Packet!pkt_sm
<1>5. UNCHANGED <<frame, sent>>
  BY <1>2, Zenon DEF Packet!Transfer
<1>6. /\ todo' = todo /\ cmds' = cmds /\ made' = made /\ mem' = mem /\ addr' = addr /\ din' = din
         /\ TX_BYTES' = TX_BYTES
      /\ addrCtr' = addrCtr /\ bytesLeft' = bytesLeft /\ pktState' = pktState /\ bytesLeft_reg' = bytesLeft_reg
      /\ pktCtr' = pktCtr /\ frame' = frame /\ sent' = sent
  BY <1>2, <1>4, <1>5 DEF Packet!board
<1>7. TX_START \in 0 .. 8 /\ addrCtr \in Nat
  <2>1. addrCtr \in Halves
    BY <1>1, Zenon DEF Typed
  <2> QED BY <1>1, <2>1, WidthIs, Zenon DEF BoardTypes
<1>8. TX_START' \in 0 .. 8 /\ (TX_START' = 0 \/ TX_START' + addrCtr <= 7)
  <2>1. TX_START = 0 \/ TX_START + addrCtr <= 7
    BY Zenon DEF Sending
  <2> QED BY <1>2, <1>7, <2>1
<1>9. Typed'
  <2>1. BoardTypes'
    BY <1>1, <1>6, <1>8, Zenon DEF BoardTypes, Cells
  <2> QED BY <1>1, <1>2, <1>6, <2>1, Zenon DEF Typed
<1>10. SentRight'
  BY <1>1, <1>6, Zenon DEF SentRight
<1>11. Current' = Current
  BY <1>6, Zenon DEF Current
<1>12. doutb' = Fetched'
  <2>1. doutb' = <<mem[(2 * addrCtr') % 16], mem[((2 * addrCtr') % 16) + 1]>>
    BY <1>2, CellsAre, Zenon DEF Packet!Read
  <2> QED BY <1>6, <2>1, Zenon DEF Fetched
<1>13. Stored(Len(Data(Current)))' /\ Open'
  BY <1>6, <1>11, Zenon DEF Sending, Stored, Open
<1>14. TX_START' = 0 \/ TX_START' + addrCtr' <= 7
  BY <1>6, <1>8
<1>15. Sending'
  BY <1>6, <1>11, <1>12, <1>13, <1>14, Zenon DEF Sending
<1> QED BY <1>9, <1>10, <1>15, Zenon DEF FrameInv, FramePhase

(* A frame that is sent to its end is right.                               *)
LEMMA WholeIsRight ==
  ASSUME NEW g \in Seq(Octets), NEW c, Framed(c), NEW n, SentSoFar(g, c, n), Len(g) = Size(c)
  PROVE  Right(g, c, n)
<1>1. Len(g) >= 42 /\ (c.kind = "udp" => Len(g) >= 48)
  BY Zenon DEF Framed
<1> DEFINE net == Packet!NetworkBytes(Buffer(c))
           z == Packet!CountBytes(n)
<1>2. /\ \A k \in 1 .. 42 : k <= Len(g) => g[k] = net[k]
      /\ c.kind = "udp" => \A k \in 1 .. 6 : 42 + k <= Len(g) => g[42 + k] = z[k]
  BY Zenon DEF SentSoFar
<1> HIDE DEF net, z
<1> DEFINE m == Len(g)
<1>0. m \in Nat /\ m >= 42 /\ (c.kind = "udp" => m >= 48)
  BY <1>1
<1> HIDE DEF m
<1>3. \A k \in 1 .. 42 : g[k] = net[k]
  <2>1. \A k \in 1 .. 42 : k <= m
    BY <1>0
  <2> QED BY <1>2, <2>1, Zenon DEF m
<1>4. c.kind = "udp" => \A k \in 1 .. 6 : g[42 + k] = z[k]
  <2>1. c.kind = "udp" => \A k \in 1 .. 6 : 42 + k <= m
    BY <1>0
  <2> QED BY <1>2, <2>1, Zenon DEF m
<1>5. Begins(g, Buffer(c))
  BY <1>3, Zenon DEF Begins, net
<1> QED BY <1>4, <1>5, Zenon DEF Right, z

(* The MAC takes the word.                                                 *)
LEMMA Takes ==
  ASSUME FrameInv, Packet!TxClock, Sending, TREADY
  PROVE  FrameInv'
<1> DEFINE a == addrCtr
           b == bytesLeft
           c == Current
           n == Size(c)
           h == IF b < 8 THEN b ELSE 8
           g == frame \o SubSeq(Packet!TDATA, 1, h)
<1>1. Typed /\ SentRight /\ BoardTypes
  BY Zenon DEF FrameInv, Typed
<1>2. /\ UNCHANGED <<todo, cmds, made, Packet!board>> /\ TREADY' \in BOOLEAN
      /\ TX_START' = IF TX_START > 0 THEN TX_START - 1 ELSE 0
      /\ Packet!pkt_sm /\ Packet!Transfer /\ Packet!Read
  BY Zenon DEF Packet!TxClock
<1>3. pktState = "S1" /\ Packet!Valid
  BY Zenon DEF Sending, Packet!Valid
<1>4. /\ addrCtr' = a + 1 /\ bytesLeft_reg' = b /\ bytesLeft' = (Packet!W16 + b - 8) % Packet!W16
      /\ pktState' = (IF Packet!Final THEN "S2" ELSE "S1") /\ UNCHANGED pktCtr
  BY <1>2, <1>3 DEF Packet!pkt_sm
<1>5. a \in Nat /\ b \in Nat /\ b \in Halves /\ pktCtr \in Nat /\ frame \in Seq(Octets)
      /\ sent \in Seq(Seq(Octets)) /\ TX_START \in 0 .. 8
      /\ made \in Seq(Packet!Range(Calls))
  <2>1. a \in Halves /\ b \in Halves
    BY <1>1, Zenon DEF Typed
  <2> QED BY <1>1, <2>1, WidthIs, Zenon DEF Typed, BoardTypes
<1>6. /\ cmds = <<>> /\ Len(made) = Len(sent) + 1 /\ pktCtr = Len(sent) /\ Stored(Len(Data(c)))
      /\ b > 0 /\ b + 8 * a = n /\ Len(frame) = 8 * a /\ SentSoFar(frame, c, pktCtr)
      /\ (TX_START = 0 \/ TX_START + a <= 7)
  BY Zenon DEF Sending, Open
<1>7. c \in Packet!Range(Calls) /\ Framed(c) /\ n \in Halves /\ n >= 42
  <2>1. Len(sent) \in Nat
    BY <1>5
  <2>2. Len(made) > 0
    BY <1>6, <2>1
  <2> QED BY <1>1, <2>2, CurrentKnown, Zenon DEF Known, Framed
<1>8. n \in Nat /\ n < Packet!W16 /\ Packet!W16 > 110 /\ Packet!W16 \in Nat
  BY <1>7, WidthIs, Zenon
<1> HIDE DEF n
<1>9. h \in 0 .. 8 /\ h \in Nat /\ Packet!Keep = h
  <2>1. Packet!Keep = (IF bytesLeft_reg' < 8 THEN bytesLeft_reg' ELSE 8)
    BY Zenon DEF Packet!Keep
  <2> QED BY <1>4, <1>5, <2>1
<1>10. CarriesOn(Packet!TDATA, a, c, pktCtr)
  BY <1>1, DataIs, Zenon
<1> HIDE DEF h
<1>11. g \in Seq(Octets) /\ Len(g) = 8 * a + h /\ SentSoFar(g, c, pktCtr)
  <2> HIDE DEF a, c
  <2>1. a \in Nat /\ Len(frame) = 8 * a /\ SentSoFar(frame, c, pktCtr) /\ CarriesOn(Packet!TDATA, a, c, pktCtr)
    BY <1>5, <1>6, <1>10
  <2> QED BY <1>5, <1>9, <2>1, Grown
<1> HIDE DEF g
<1>12. IF Packet!Final THEN sent' = Append(sent, g) /\ frame' = <<>> ELSE frame' = g /\ sent' = sent
  BY <1>2, <1>3, <1>9, Zenon DEF Packet!Transfer, g
<1>13. Packet!Final <=> b <= 8
  BY Zenon DEF Packet!Final
<1> HIDE DEF a, b
<1>14. addrCtr' \in Halves /\ bytesLeft' \in Halves /\ a + 1 \in Nat
  <2>1. a + 1 <= Packet!W16 - 1
    BY <1>5, <1>6, <1>8
  <2>2. (Packet!W16 + b - 8) % Packet!W16 \in 0 .. Packet!W16 - 1
    <3> DEFINE s == Packet!W16 + b - 8
    <3>1. s \in Nat /\ Packet!W16 \in Nat \ {0}
      BY <1>5, <1>8
    <3> HIDE DEF s
    <3> QED BY <3>1, Quotient DEF s
  <2> QED BY <1>4, <1>5, <1>8, <2>1, <2>2 DEF Halves
<1>15. /\ todo' = todo /\ cmds' = cmds /\ made' = made /\ mem' = mem /\ addr' = addr /\ din' = din
          /\ TX_BYTES' = TX_BYTES
       /\ pktCtr' = pktCtr
  BY <1>2, <1>4 DEF Packet!board
<1>16. TX_START' \in 0 .. 8
  BY <1>2, <1>5
<1>17. BoardTypes'
  BY <1>1, <1>15, <1>16, Zenon DEF BoardTypes, Cells
<1>18. Current' = c
  BY <1>15, Zenon DEF Current
<1>19. /\ todo' \in Seq(Packet!Range(Calls)) /\ made' \in Seq(Packet!Range(Calls)) /\ cmds' \in Seq(Word)
       /\ bytesLeft_reg' \in Halves /\ pktCtr' \in Nat
  BY <1>1, <1>4, <1>5, <1>15, Zenon DEF Typed
<1>20. CASE b <= 8
  <2>1. sent' = Append(sent, g) /\ frame' = <<>> /\ pktState' = "S2"
    BY <1>4, <1>12, <1>13, <1>20
  <2>2. h = b /\ Len(g) = n
    <3>1. h = b
      BY <1>5, <1>20 DEF h, b
    <3> QED BY <1>5, <1>6, <1>11, <3>1
  <2>3. Right(g, c, pktCtr)
    BY <1>7, <1>11, <2>2, WholeIsRight, Zenon DEF n
  <2>4. /\ sent' \in Seq(Seq(Octets)) /\ Len(sent') = Len(sent) + 1 /\ sent'[Len(sent) + 1] = g
        /\ \A k \in 1 .. Len(sent) : sent'[k] = sent[k]
    <3> DEFINE S == Seq(Octets)
    <3>1. sent \in Seq(S) /\ g \in S
      BY <1>5, <1>11
    <3> HIDE DEF S
    <3>2. /\ Append(sent, g) \in Seq(S) /\ Len(Append(sent, g)) = Len(sent) + 1 /\ Append(sent, g)[Len(sent) + 1] = g
          /\ \A k \in 1 .. Len(sent) : Append(sent, g)[k] = sent[k]
      BY <3>1
    <3> QED BY <2>1, <3>2, Zenon DEF S
  <2>5. Typed'
    <3>1. <<>> \in Seq(Octets)
      OBVIOUS
    <3> QED BY <1>2, <1>14, <1>17, <1>19, <2>1, <2>4, <3>1, Zenon DEF Typed
  <2>6. SentRight'
    <3>1. Len(sent) \in Nat /\ Len(sent') <= Len(made') /\ pktCtr = (Len(sent) + 1) - 1
      BY <1>5, <1>6, <1>15, <2>4
    <3>2. made'[Len(sent) + 1] = c
      BY <1>6, <1>15, Zenon DEF c, Current
    <3>3. ASSUME NEW k \in 1 .. Len(sent') PROVE Right(sent'[k], made'[k], k - 1)
      <4>1. k \in 1 .. Len(sent) \/ k = Len(sent) + 1
        BY <2>4, <3>1
      <4>2. CASE k \in 1 .. Len(sent)
        BY <1>1, <1>15, <2>4, <4>2, Zenon DEF SentRight
      <4>3. CASE k = Len(sent) + 1
        BY <2>3, <2>4, <3>1, <3>2, <4>3, Zenon
      <4> QED BY <4>1, <4>2, <4>3
    <3> QED BY <3>1, <3>3, Zenon DEF SentRight
  <2>7. Ending'
    <3>1. a >= 5
      BY <1>5, <1>6, <1>7, <1>8, <1>20
    <3>2. TX_START <= 2
      BY <1>5, <1>6, <3>1
    <3>3. TX_START' <= 1
      BY <1>2, <1>5, <3>2
    <3>4. Len(made') = Len(sent') /\ pktCtr' + 1 = Len(sent') /\ cmds' = <<>>
      BY <1>6, <1>15, <2>4
    <3> QED BY <2>1, <3>3, <3>4, Zenon DEF Ending
  <2> QED BY <2>5, <2>6, <2>7, Zenon DEF FrameInv, FramePhase
<1>21. CASE ~(b <= 8)
  <2>1. sent' = sent /\ frame' = g /\ pktState' = "S1"
    BY <1>4, <1>12, <1>13, <1>21
  <2>2. h = 8
    BY <1>5, <1>21 DEF h, b
  <2>3. bytesLeft' = b - 8
    <3>1. b - 8 \in 0 .. Packet!W16 - 1 /\ Packet!W16 + b - 8 = (b - 8) + Packet!W16 * 1
          /\ Packet!W16 \in Nat \ {0} /\ 1 \in Nat
      BY <1>5, <1>6, <1>8, <1>21
    <3>2. ((b - 8) + Packet!W16 * 1) % Packet!W16 = b - 8
      BY <3>1, OneQuotient
    <3> QED BY <1>4, <3>1, <3>2, Zenon
  <2>4. Typed'
    BY <1>2, <1>5, <1>11, <1>14, <1>17, <1>19, <2>1, Zenon DEF Typed
  <2>5. SentRight'
    BY <1>1, <1>15, <2>1, Zenon DEF SentRight
  <2>6. doutb' = Fetched'
    <3>1. doutb' = <<mem[(2 * addrCtr') % 16], mem[((2 * addrCtr') % 16) + 1]>>
      BY <1>2, CellsAre, Zenon DEF Packet!Read
    <3> QED BY <1>15, <3>1, Zenon DEF Fetched
  <2>7. bytesLeft' > 0 /\ bytesLeft' + 8 * addrCtr' = n /\ Len(frame') = 8 * addrCtr'
    <3>1. addrCtr' = a + 1 /\ frame' = g /\ Len(g) = 8 * a + h
      BY <1>4, <1>11, <2>1, Zenon
    <3>2. b - 8 > 0 /\ (b - 8) + 8 * (a + 1) = n /\ 8 * a + h = 8 * (a + 1)
      BY <1>5, <1>6, <1>8, <1>21, <2>2
    <3> QED BY <2>3, <3>1, <3>2
  <2>8. TX_START' = 0 \/ TX_START' + addrCtr' <= 7
    BY <1>2, <1>4, <1>5, <1>6
  <2>9. Open' /\ Stored(Len(Data(Current)))'
    BY <1>6, <1>15, <1>18, <2>1, Zenon DEF Open, Stored
  <2>10. SentSoFar(frame', c, pktCtr')
    BY <1>11, <1>15, <2>1, Zenon
  <2>11. cmds' = <<>>
    BY <1>6, <1>15
  <2>12. Sending'
    BY <1>18, <2>1, <2>6, <2>7, <2>8, <2>9, <2>10, <2>11, Zenon DEF Sending, n
  <2> QED BY <2>4, <2>5, <2>12, Zenon DEF FrameInv, FramePhase
<1> QED BY <1>20, <1>21

(* The packet is over.                                                     *)
LEMMA Ends ==
  ASSUME FrameInv, Packet!TxClock, Ending
  PROVE  FrameInv'
<1>1. Typed /\ SentRight /\ BoardTypes
  BY Zenon DEF FrameInv, Typed
<1>2. /\ UNCHANGED <<todo, cmds, made, Packet!board>> /\ TREADY' \in BOOLEAN
      /\ TX_START' = IF TX_START > 0 THEN TX_START - 1 ELSE 0
      /\ Packet!pkt_sm /\ Packet!Transfer
  BY Zenon DEF Packet!TxClock
<1>3. pktState = "S2" /\ ~Packet!Valid
  BY DEF Ending, Packet!Valid
<1>4. pktState' = "S0" /\ pktCtr' = pktCtr + 1 /\ UNCHANGED <<addrCtr, bytesLeft, bytesLeft_reg>>
  BY <1>2, <1>3 DEF Packet!pkt_sm
<1>5. UNCHANGED <<frame, sent>>
  BY <1>2, <1>3, Zenon DEF Packet!Transfer
<1>6. /\ cmds = <<>> /\ TX_START <= 1 /\ frame = <<>> /\ Len(made) = Len(sent) /\ pktCtr + 1 = Len(sent)
  BY Zenon DEF Ending
<1>7. /\ todo' = todo /\ cmds' = cmds /\ made' = made /\ mem' = mem /\ addr' = addr /\ din' = din
         /\ TX_BYTES' = TX_BYTES
      /\ addrCtr' = addrCtr /\ bytesLeft' = bytesLeft /\ bytesLeft_reg' = bytesLeft_reg
      /\ frame' = frame /\ sent' = sent
  BY <1>2, <1>4, <1>5 DEF Packet!board
<1>8. TX_START' = 0 /\ TX_START' \in 0 .. 8
  <2>1. TX_START \in 0 .. 8
    BY <1>1, Zenon DEF BoardTypes
  <2> QED BY <1>2, <1>6, <2>1
<1>9. pktCtr' \in Nat
  <2>1. pktCtr \in Nat
    BY <1>1, Zenon DEF Typed
  <2> QED BY <1>4, <2>1
<1>10. Typed'
  <2>1. BoardTypes'
    BY <1>1, <1>7, <1>8, Zenon DEF BoardTypes, Cells
  <2> QED BY <1>1, <1>2, <1>7, <1>9, <2>1, Zenon DEF Typed
<1>11. SentRight'
  BY <1>1, <1>7, Zenon DEF SentRight
<1>12. Idle'
  BY <1>4, <1>6, <1>7, <1>8, Zenon DEF Idle
<1> QED BY <1>10, <1>11, <1>12, Zenon DEF FrameInv, FramePhase

LEMMA StepPacket == FrameInv /\ [Packet!Next]_(Packet!vars) => FrameInv'
<1> SUFFICES ASSUME FrameInv, [Packet!Next]_(Packet!vars) PROVE FrameInv'
  OBVIOUS
<1>1. CASE Packet!Call
  BY <1>1, CallStep
<1>2. CASE Packet!Execute
  BY <1>2, ExecuteStep
<1>3. CASE Packet!TxClock
  <2>1. CASE pktState = "S0"
    BY <1>3, <2>1, Rests, PulseSeen
  <2>2. CASE Sending
    BY <1>3, <2>2, WordWaits, Takes
  <2>3. CASE Ending
    BY <1>3, <2>3, Ends
  <2>4. pktState = "S0" \/ Sending \/ Ending
    BY Zenon DEF FrameInv, FramePhase, Idle, Filling, Started
  <2> QED BY <2>1, <2>2, <2>3, <2>4
<1>4. CASE UNCHANGED Packet!vars
  <2>1. /\ todo' = todo /\ cmds' = cmds /\ made' = made /\ mem' = mem /\ addr' = addr /\ din' = din
           /\ TX_BYTES' = TX_BYTES
        /\ addrCtr' = addrCtr /\ bytesLeft' = bytesLeft /\ pktState' = pktState /\ bytesLeft_reg' = bytesLeft_reg
        /\ pktCtr' = pktCtr /\ frame' = frame /\ sent' = sent /\ TX_START' = TX_START /\ doutb' = doutb
           /\ TREADY' = TREADY
    BY <1>4 DEF Packet!vars, Packet!board, Packet!gen, Packet!mac
  <2>2. Current' = Current
    BY <2>1, Zenon DEF Current
  <2>3. Typed' /\ SentRight'
    BY <2>1, Zenon DEF FrameInv, Typed, BoardTypes, Cells, SentRight
  <2>4. Idle => Idle'
    BY <2>1, Zenon DEF Idle
  <2>5. \A e, k \in Nat : Filling(e, k) => Filling(e, k)'
    BY <2>1, <2>2, ZenonT(30) DEF Filling, Rest, Stored, Stage, Open
  <2>6. Started => Started'
    BY <2>1, <2>2, Zenon DEF Started, Stored, Open
  <2>7. Sending => Sending'
    BY <2>1, <2>2, Zenon DEF Sending, Stored, Open, Fetched, SentSoFar
  <2>8. Ending => Ending'
    BY <2>1, Zenon DEF Ending
  <2> QED BY <2>3, <2>4, <2>5, <2>6, <2>7, <2>8, Zenon DEF FrameInv, FramePhase
<1> QED BY <1>1, <1>2, <1>3, <1>4, Zenon DEF Packet!Next

(* What the invariant is for.                                              *)
LEMMA FramesAreRight ==
  ASSUME FrameInv
  PROVE  Packet!OnePacketPerPulse /\ Packet!WireIsFrame /\ Packet!ChecksumRight
<1>1. Typed /\ SentRight
  BY Zenon DEF FrameInv
<1>2. made \in Seq(Packet!Range(Calls)) /\ sent \in Seq(Seq(Octets))
  BY <1>1, Zenon DEF Typed
<1>3. Len(sent) <= Len(made)
  BY <1>1, Zenon DEF SentRight
<1>4. ASSUME NEW k \in 1 .. Len(sent)
      PROVE  /\ Packet!CallAssumption(made[k]) /\ Right(sent[k], made[k], k - 1) /\ k - 1 \in Nat
             /\ Packet!Field(sent[k], 1, 6) = Packet!dstMAC \o Packet!srcMAC
             /\ made[k].kind = "arp" => Packet!IsArpReply(sent[k], made[k])
             /\ made[k].kind = "udp" => Packet!IsUdp(sent[k], made[k], k - 1) /\ Packet!HeaderAccepted(sent[k])
  <2>1. k \in 1 .. Len(made) /\ k - 1 \in Nat
    BY <1>2, <1>3
  <2>2. made[k] \in Packet!Range(Calls)
    BY <1>2, <2>1
  <2>3. Packet!CallAssumption(made[k])
    BY <2>2, CallKnown
  <2>4. Right(sent[k], made[k], k - 1)
    BY <1>1, Zenon DEF SentRight
  <2> DEFINE f == sent[k]
             c == made[k]
             n == k - 1
  <2> HIDE DEF f, c, n
  <2>5. Packet!CallAssumption(c) /\ Right(f, c, n) /\ n \in Nat
    BY <2>1, <2>3, <2>4 DEF f, c, n
  <2>6. c.kind = "arp" \/ c.kind = "udp"
    BY <2>5, CallIs, Zenon
  <2>7. "arp" # "udp"
    OBVIOUS
  <2>8. CASE c.kind = "arp"
    <3>1. Packet!Field(f, 1, 6) = Packet!dstMAC \o Packet!srcMAC /\ Packet!IsArpReply(f, c)
      BY <2>5, <2>8, ArpRight
    <3> QED BY <2>5, <2>7, <2>8, <3>1, Zenon DEF f, c, n
  <2>9. CASE c.kind = "udp"
    <3>1. Packet!Field(f, 1, 6) = Packet!dstMAC \o Packet!srcMAC /\ Packet!IsUdp(f, c, n) /\ Packet!HeaderAccepted(f)
      BY <2>5, <2>9, UdpRight
    <3> QED BY <2>5, <2>7, <2>9, <3>1, Zenon DEF f, c, n
  <2> QED BY <2>6, <2>8, <2>9
<1> QED BY <1>3, <1>4, Zenon DEF Packet!OnePacketPerPulse, Packet!WireIsFrame, Packet!ChecksumRight

LEMMA PacketTypes ==
  ASSUME FrameInv
  PROVE  Packet!TypeOK
<1>1. Typed /\ FramePhase /\ BoardTypes
  BY Zenon DEF FrameInv, Typed
<1>2. Halves = 0 .. Packet!W16 - 1 /\ Word = [lo : 0 .. Packet!W16 - 1, hi : 0 .. Packet!W16 - 1]
      /\ Seq(Octets) = Seq(0 .. 255)
  <2>1. Word = [lo : 0 .. Packet!W16 - 1, hi : 0 .. Packet!W16 - 1]
    BY Zenon DEF Word, Halves
  <2>2. Octets = 0 .. 255
    BY Zenon DEF Octets
  <2> QED BY <2>1, <2>2, Zenon DEF Halves
<1>3. pktState \in {"S0", "S1", "S2"}
  <2>1. pktState = "S0" \/ pktState = "S1" \/ pktState = "S2"
    BY <1>1, Zenon DEF FramePhase, Idle, Filling, Started, Sending, Ending
  <2> QED BY <2>1
<1>4. \A f \in Packet!Range(sent) : f \in Seq(Octets)
  <2> DEFINE S == Seq(Octets)
  <2>1. sent \in Seq(S)
    BY <1>1, Zenon DEF Typed
  <2> HIDE DEF S
  <2>2. \A f \in Packet!Range(sent) : f \in S
    BY <2>1 DEF Packet!Range
  <2> QED BY <2>2, Zenon DEF S
<1>5. TX_START \in Nat
  <2>1. TX_START \in 0 .. 8
    BY <1>1, Zenon DEF BoardTypes
  <2> QED BY <2>1
<1>6. addr \in 0 .. Packet!MemSize
  BY <1>1, CellsAre, Zenon DEF BoardTypes
<1> QED BY <1>1, <1>2, <1>3, <1>4, <1>5, <1>6, Zenon DEF Packet!TypeOK, Typed, BoardTypes, Cells
-----------------------------------------------------------------------------
(* The parts in a behaviour of MCBoardParts.                               *)
BoardInv ==
  /\ part = "trigger"  => GateInv
  /\ part = "resetter" => ResetterInv
  /\ part = "average"  => AverageInv /\ Samples
  /\ part = "writer"   => MapInv
  /\ part = "parser"   => Parser!AInv
  /\ part = "packet"   => FrameInv

LEMMA InitBoard == Init => BoardInv
<1> SUFFICES ASSUME Init PROVE BoardInv
  OBVIOUS
<1>1. Resetter!CountsAssumption
  BY ConstantsAssumption
<1>2. part = "resetter" => Resetter!Init
  BY DEF Init
<1>3. part = "parser" => Parser!Init
  BY DEF Init
<1>4. part = "trigger" => Gate!Init
  BY DEF Init
<1>5. part = "average" => Average!Init
  BY DEF Init
<1>6. part = "writer" => Writer!Init
  BY DEF Init
<1>7. part = "packet" => Packet!Init
  BY DEF Init
<1> QED BY <1>1, <1>2, <1>3, <1>4, <1>5, <1>6, <1>7, InitGate, InitResetter, InitAverage, InitSamples, InitWriter,
           Parser!InitAInv, InitPacket
        DEF BoardInv

LEMMA StepBoard == BoardInv /\ [Next]_vars => BoardInv'
<1> SUFFICES ASSUME BoardInv, [Next]_vars PROVE BoardInv'
  OBVIOUS
<1>1. Gate!SpanAssumption /\ Resetter!CountsAssumption /\ Parser!FramesAssumption
  BY ConstantsAssumption
<1>2. CASE part = "resetter"
  BY <1>1, <1>2, Steps, StepResetter DEF BoardInv
<1>3. CASE part = "parser"
  BY <1>1, <1>3, Steps, Parser!StepAInv DEF BoardInv
<1>4. CASE part = "trigger"
  BY <1>1, <1>4, Steps, StepGate DEF BoardInv
<1>5. CASE part = "average"
  BY <1>5, Steps, StepAverage, StepSamples DEF BoardInv
<1>6. CASE part = "writer"
  BY <1>6, Steps, StepWriter DEF BoardInv
<1>7. CASE part = "packet"
  BY <1>7, Steps, StepPacket DEF BoardInv
<1>8. CASE part \notin {"trigger", "resetter", "average", "writer", "parser", "packet"}
  BY <1>8, Steps DEF BoardInv
<1> QED BY <1>2, <1>3, <1>4, <1>5, <1>6, <1>7, <1>8

(* One capture for an arming, and none from before it (top.vhd 1218-1221,  *)
(* fmc112.c 690-704).                                                      *)
THEOREM GateRightHolds == Spec => []GateRight
<1>1. BoardInv => GateRight
  BY DEF BoardInv, GateInv, Busy, OnesTravel, ZerosTravel, GateRight, CaptureKept, NotBeforeArming,
         Gate!CaptureKept, Gate!NotBeforeArming
<1> QED BY <1>1, InitBoard, StepBoard, PTL DEF Spec

(* The design is released after both delays, and never runs for more than  *)
(* a clock after its clock generator was seen without a lock               *)
(* (global_resetter.vhd 22-26, 42-84).                                     *)
THEOREM ResetRightHolds == Spec => ResetRight
<1>1. BoardInv => (part = "resetter" => Resetter!NeverLoose)
  BY DEF BoardInv, ResetterInv, Tight, Resetter!NeverLoose
<1>2. BoardInv /\ [Next]_vars => [part = "resetter" => Resetter!Sequence]_vars
  BY Steps, ReleasedInR4, ConstantsAssumption DEF BoardInv
<1> QED BY <1>1, <1>2, InitBoard, StepBoard, PTL DEF Spec, ResetRight

(* Values are means of whole groups of samples in the phase of the trigger *)
(* (channel_avg.vhd 67-122).                                               *)
THEOREM AveragesRightHolds == Spec => []AveragesRight
<1>1. BoardInv => AveragesRight
  BY AveragesAreRight DEF BoardInv, AveragesRight, CleanIsMean, TriggerCuts, PhaseKept
<1> QED BY <1>1, InitBoard, StepBoard, PTL DEF Spec

(* The chip gets the register map, whole and in order, and BUSY outlasts   *)
(* it (i2c_write_regmap.vhd 245-316, i2c_master.vhd, i2c_master_core.vhd). *)
THEOREM MapWrittenHolds == Spec => []MapWritten
<1>1. BoardInv => MapWritten
  BY MapIsWritten DEF BoardInv, MapWritten, WireIsRegmap, ByteInPlace, DoneIsWhole
<1> QED BY <1>1, InitBoard, StepBoard, PTL DEF Spec

(* Requests for the board, and nothing else, become commands, one each     *)
(* (ten_gig_eth_rx_parser.vhd 127-273).                                    *)
THEOREM CommandsRightHolds == Spec => []CommandsRight
<1>1. BoardInv => CommandsRight
  BY Parser!AllRight DEF BoardInv, CommandsRight, InStep, CommandFromOneFrame, RequestsAnswered
<1> QED BY <1>1, InitBoard, StepBoard, PTL DEF Spec

(* Frames reach the MAC as they were meant, once each (tge.c 41-219,       *)
(* ten_gig_eth_packet_gen_simple.vhd 95-156).                              *)
THEOREM FramesRightHolds == Spec => []FramesRight
<1>1. BoardInv => FramesRight
  BY FramesAreRight DEF BoardInv, FramesRight, OnePacketPerPulse, WireIsFrame, ChecksumRight
<1> QED BY <1>1, InitBoard, StepBoard, PTL DEF Spec

(* The variables of the averaging and of the packet part are in their      *)
(* ranges (channel_avg.vhd 53-63, ten_gig_eth_packet_gen_simple.vhd        *)
(* 68-76).                                                                 *)
THEOREM TypeOKHolds == Spec => []TypeOK
<1>1. BoardInv => TypeOK
  BY AverageTypes, PacketTypes DEF BoardInv, TypeOK
<1> QED BY <1>1, InitBoard, StepBoard, PTL DEF Spec
=============================================================================
