----------------------------- MODULE TriggerGate -----------------------------
(***************************************************************************)
(* How an external trigger begins a capture: edge_sync.vhd finds its       *)
(* rising edge in control_clk, the gate of top.vhd lets it pass while a    *)
(* trigger is allowed and nothing is captured, pulse2pulse.vhd carries it  *)
(* into the clock of the SDRAM, and the status process of                  *)
(* sdram_buffer_fifo.vhd raises wr_writing, which closes the gate several  *)
(* clocks after the trigger passed it.                                     *)
(*                                                                         *)
(* pulse_reg(3) is ORed in behind the gate and begins a capture by         *)
(* command.  No program sends it (fmc112.c 706-709 is a comment), and it   *)
(* is left out: nothing would keep it from beginning a capture again.      *)
(***************************************************************************)
EXTENDS Integers

CONSTANTS
  Span,               \* words until a capture meets its beginning again
  MinEdges, MaxEdges  \* rising edges of the SDRAM's clock in a period of control_clk

SpanAssumption  == Span \in Nat \ {0}
EdgesAssumption == MinEdges \in Nat \ {0} /\ MaxEdges \in Nat /\ MinEdges <= MaxEdges

VARIABLES
  EI, prev, prev1, prev2,           \* edge_sync
  allow, host,                      \* config_reg, bit 222; the place in fmc112_arm_acquire
  in_set, in_reset, in_reset_prev, in_reset_prev2,
  out_set, out_set_prev, out_set_prev2, outreset, wr_start_pulse,   \* pulse2pulse
  wr_writing, wr_wrapped_i, wr_addr_i,
  edges,                            \* of the SDRAM's clock since the last of control_clk
  starts                            \* history: captures begun since CTRL_RESET, up to 2

sync    == <<EI, prev, prev1, prev2>>
carrier == <<in_set, in_reset, in_reset_prev, in_reset_prev2,
             out_set, out_set_prev, out_set_prev2, outreset, wr_start_pulse>>
status  == <<wr_writing, wr_wrapped_i, wr_addr_i>>
vars    == <<sync, allow, host, carrier, status, edges, starts>>

Init ==
  /\ EI = FALSE /\ prev = FALSE /\ prev1 = FALSE /\ prev2 = FALSE
  /\ allow = FALSE /\ host = "start"
  /\ in_set = FALSE /\ in_reset = FALSE /\ in_reset_prev = FALSE /\ in_reset_prev2 = FALSE
  /\ out_set = FALSE /\ out_set_prev = FALSE /\ out_set_prev2 = FALSE /\ outreset = FALSE
  /\ wr_start_pulse = FALSE
  /\ wr_writing = FALSE /\ wr_wrapped_i = FALSE /\ wr_addr_i = 0
  /\ edges = 0 /\ starts = 0
-----------------------------------------------------------------------------
SO == prev1 /\ ~prev2
GateOpen == SO /\ allow     \* mutant of idata_data_wr_start: a capture does not close it
idata_data_wr_start == SO /\ allow /\ ~wr_writing /\ ~wr_wrapped_i

Carrier == INSTANCE PulseToPulse WITH
  pulsein <- idata_data_wr_start, pulseout <- wr_start_pulse, MaxHold <- 7, MaxUnanswered <- 1,
  held <- 0, polite <- FALSE, unanswered <- 0

(* A rising edge of the SDRAM's clock.  WR_WRAP_AROUND is 0, so the        *)
(* capture ends where it began.                                            *)
Collided == wr_addr_i >= Span
StatusProcess ==
  IF wr_start_pulse
  THEN wr_writing' = TRUE /\ wr_wrapped_i' = FALSE /\ wr_addr_i' = 0
  ELSE /\ wr_writing' = (wr_writing /\ ~Collided) /\ wr_wrapped_i' = (wr_wrapped_i \/ Collided)
       /\ wr_addr_i' \in IF wr_writing /\ ~Collided THEN {wr_addr_i, wr_addr_i + 1} ELSE {wr_addr_i}
MemoryClock ==
  /\ edges < MaxEdges /\ edges' = edges + 1
  /\ Carrier!InProc /\ Carrier!OutProc /\ StatusProcess
  /\ starts' = IF wr_start_pulse /\ starts < 2 THEN starts + 1 ELSE starts
  /\ UNCHANGED <<sync, allow, host>>
-----------------------------------------------------------------------------
(* The registers and pulses of fmc112_arm_acquire, which may be entered at *)
(* any time: the program may have been stopped and started again in the    *)
(* middle of a capture.                                                    *)
DisallowNot ==      \* mutant of Disallow: the trigger stays allowed
  host' = "disallowed" /\ UNCHANGED <<allow, status, starts>>
Disallow == host' = "disallowed" /\ allow' = FALSE /\ UNCHANGED <<status, starts>>

(* Two milliseconds and a reply lie between register 13 and CTRL_RESET, so *)
(* that what had passed the gate has come through.                         *)
Settled == ~\E n \in DOMAIN carrier : carrier[n]
CtrlResetKeeps ==   \* mutant of CtrlReset: the status of the last capture stays
  /\ host = "disallowed" /\ Settled /\ host' = "reset" /\ starts' = 0
  /\ wr_writing' = FALSE /\ wr_addr_i' = 0 /\ UNCHANGED <<allow, wr_wrapped_i>>
CtrlReset ==
  /\ host = "disallowed" /\ Settled /\ host' = "reset" /\ starts' = 0
  /\ wr_writing' = FALSE /\ wr_wrapped_i' = FALSE /\ wr_addr_i' = 0 /\ UNCHANGED allow
Allow == host = "reset" /\ host' = "waiting" /\ allow' = TRUE /\ UNCHANGED <<status, starts>>
NoCommand == UNCHANGED <<allow, host, status, starts>>

(* A rising edge of control_clk; the trigger is external.                  *)
edge_sync == prev' = EI /\ prev1' = prev /\ prev2' = prev1 /\ EI' \in BOOLEAN
ControlClock ==
  /\ edges >= MinEdges /\ edges' = 0
  /\ edge_sync /\ (Disallow \/ CtrlReset \/ Allow \/ NoCommand)
  /\ UNCHANGED carrier

Next == ControlClock \/ MemoryClock
Spec == Init /\ [][Next]_vars /\ WF_vars(ControlClock) /\ WF_vars(MemoryClock)
-----------------------------------------------------------------------------
(* A capture is never begun again by another trigger, neither while it is  *)
(* under way nor before it is read: although wr_writing is late to close   *)
(* the gate, pulse2pulse is not ready for another pulse until it has.      *)
CaptureKept == wr_start_pulse => ~wr_writing /\ ~wr_wrapped_i

(* No trigger of the time before the arming begins a capture after it.     *)
NotBeforeArming == host = "reset" => starts = 0 /\ ~wr_writing /\ ~wr_wrapped_i

(* The first edge of the trigger after the arming begins a capture.        *)
Triggered == SO /\ host = "waiting" /\ starts = 0
Begun     == starts > 0 \/ host # "waiting"
=============================================================================
