--------------------------- MODULE GlobalResetter ---------------------------
(***************************************************************************)
(* global_resetter.vhd: the sequence of resets after power-up, after       *)
(* FORCE_RST and after the clock generator has lost its lock.  The delays  *)
(* come from a counter that counts up to CNT_RANGE_HIGH and, in the board, *)
(* on to 0, which a simulation refuses.                                    *)
(***************************************************************************)
EXTENDS Integers

CONSTANTS CLK_RESET_DELAY_CNT, GBL_RESET_DELAY_CNT, CNT_RANGE_HIGH

CountsAssumption ==
  CNT_RANGE_HIGH \in Nat /\ {CLK_RESET_DELAY_CNT, GBL_RESET_DELAY_CNT} \subseteq 1 .. CNT_RANGE_HIGH

VARIABLES
  FORCE_RST, DCM_LOCKED,
  rstState, rstCtr, CLK_RST, GLOBAL_RST,
  clkHigh, glbWait, loose   \* history: clocks of the last CLK_RST, clocks since the lock was
                            \* seen, up to CNT_RANGE_HIGH + 1, and clocks without a lock in
                            \* which the design has run

vars == <<FORCE_RST, DCM_LOCKED, rstState, rstCtr, CLK_RST, GLOBAL_RST, clkHigh, glbWait, loose>>

Init ==
  /\ FORCE_RST = FALSE /\ DCM_LOCKED = FALSE
  /\ rstState = "R0" /\ rstCtr = 0 /\ CLK_RST = FALSE /\ GLOBAL_RST = FALSE
  /\ clkHigh = 0 /\ glbWait = 0 /\ loose = 0
-----------------------------------------------------------------------------
(* Mutant of Count: the counter stops at the end of its range.             *)
CountStops == rstCtr' = IF rstCtr < CNT_RANGE_HIGH THEN rstCtr + 1 ELSE CNT_RANGE_HIGH
Count == rstCtr' = (rstCtr + 1) % (CNT_RANGE_HIGH + 1)

R0 == rstState = "R0" /\ rstCtr' = CLK_RESET_DELAY_CNT /\ rstState' = "R1"
R1Short == rstState = "R1" /\ rstState' = "R2" /\ UNCHANGED rstCtr   \* mutant of R1: no delay
R1 == /\ rstState = "R1"
      /\ IF rstCtr = 0 THEN rstState' = "R2" /\ UNCHANGED rstCtr ELSE Count /\ UNCHANGED rstState
R2 == /\ rstState = "R2" /\ rstCtr' = GBL_RESET_DELAY_CNT
      /\ rstState' = IF DCM_LOCKED THEN "R3" ELSE "R2"
R3 == /\ rstState = "R3"
      /\ IF rstCtr = 0 THEN rstState' = "R4" /\ UNCHANGED rstCtr ELSE Count /\ UNCHANGED rstState
R4Stays == rstState = "R4" /\ UNCHANGED <<rstState, rstCtr>>   \* mutant of R4: the lock is not watched
R4 == /\ rstState = "R4" /\ rstState' = (IF DCM_LOCKED THEN "R4" ELSE "R0")
      /\ UNCHANGED rstCtr

rst_sm ==
  /\ ~FORCE_RST
  /\ R0 \/ R1 \/ R2 \/ R3 \/ R4
  /\ CLK_RST' = (rstState \in {"R0", "R1"}) /\ GLOBAL_RST' = (rstState # "R4")
  /\ clkHigh' = CASE rstState = "R0" -> 1
                   [] rstState = "R1" /\ clkHigh <= CNT_RANGE_HIGH -> clkHigh + 1
                   [] OTHER -> clkHigh
  /\ glbWait' = CASE rstState \in {"R0", "R1", "R2"} -> 0
                   [] rstState = "R3" /\ glbWait <= CNT_RANGE_HIGH -> glbWait + 1
                   [] OTHER -> glbWait
  /\ loose' = IF ~DCM_LOCKED /\ ~GLOBAL_RST' THEN loose + 1 ELSE 0
  /\ UNCHANGED <<FORCE_RST, DCM_LOCKED>>

(* FORCE_RST acts on the state at once; while it lasts the outputs stay.   *)
ForceReset ==
  /\ FORCE_RST' = TRUE /\ rstState' = "R0" /\ rstCtr' = 0
  /\ UNCHANGED <<DCM_LOCKED, CLK_RST, GLOBAL_RST, clkHigh, glbWait, loose>>
Release ==
  /\ FORCE_RST /\ FORCE_RST' = FALSE
  /\ UNCHANGED <<DCM_LOCKED, rstState, rstCtr, CLK_RST, GLOBAL_RST, clkHigh, glbWait, loose>>

(* The clock generator has no lock while it is reset, and gets or loses it *)
(* at any other time.                                                      *)
Lock   == /\ ~DCM_LOCKED /\ ~CLK_RST /\ DCM_LOCKED' = TRUE
          /\ UNCHANGED <<FORCE_RST, rstState, rstCtr, CLK_RST, GLOBAL_RST, clkHigh, glbWait, loose>>
Unlock == /\ DCM_LOCKED /\ DCM_LOCKED' = FALSE
          /\ UNCHANGED <<FORCE_RST, rstState, rstCtr, CLK_RST, GLOBAL_RST, clkHigh, glbWait, loose>>

Next == rst_sm \/ ForceReset \/ Release \/ Lock \/ Unlock
Spec == Init /\ [][Next]_vars /\ WF_vars(rst_sm) /\ WF_vars(Release)
-----------------------------------------------------------------------------
(* When the design is released, the clock generator has been reset for     *)
(* the clocks that lines 23-25 give, has had its lock after that, and has  *)
(* had the clocks of the second delay to settle.                           *)
Sequence ==
  GLOBAL_RST /\ ~GLOBAL_RST' =>
    /\ clkHigh >= CNT_RANGE_HIGH - CLK_RESET_DELAY_CNT
    /\ glbWait >= CNT_RANGE_HIGH - GBL_RESET_DELAY_CNT

(* The design never runs for more than a clock after its clock generator   *)
(* was seen without a lock.                                                *)
NeverLoose == loose <= 1
=============================================================================
