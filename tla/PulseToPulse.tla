---------------------------- MODULE PulseToPulse ----------------------------
(***************************************************************************)
(* pulse2pulse.vhd: a four-phase handshake that carries a pulse from the   *)
(* in_clk domain to the out_clk domain.  Each side registers the other's   *)
(* flag three times.  One action is one rising edge of a clock; every      *)
(* register of the process is assigned from the values before the edge.    *)
(*                                                                         *)
(* std_logic values '0' and '1' are FALSE and TRUE.                        *)
(***************************************************************************)
EXTENDS Integers

CONSTANTS
  MaxHold,      \* longest pulsein, in rising edges of in_clk
  MaxUnanswered \* bound: pulses in flight that the source may have outstanding

ASSUME MaxHoldAssumption == MaxHold \in Nat \ {0}
ASSUME MaxUnansweredAssumption == MaxUnanswered \in Nat \ {0}

VARIABLES
  pulsein,                                        \* input, driven by in_clk
  in_set, in_reset, in_reset_prev, in_reset_prev2,  \* in_clk registers
  out_set, out_set_prev, out_set_prev2, outreset,   \* out_clk registers
  pulseout,                                         \* out_clk register, the output
  held,       \* history: edges of in_clk that have sampled the present pulsein high
  polite,     \* history: since the last rst, every pulse waited for inbusy = '0'
  unanswered  \* history: pulses raised on pulsein minus pulses raised on pulseout

inRegs  == <<in_set, in_reset, in_reset_prev, in_reset_prev2>>
outRegs == <<out_set, out_set_prev, out_set_prev2, outreset, pulseout>>
vars == <<pulsein, inRegs, outRegs, held, polite, unanswered>>

inbusySetOnly == in_set   \* mutant of inbusy: forgets the answer still on its way

inbusy == in_set \/ in_reset_prev

B2N(b) == IF b THEN 1 ELSE 0

Init ==
  /\ pulsein = FALSE
  /\ in_set = FALSE /\ in_reset = FALSE
  /\ in_reset_prev = FALSE /\ in_reset_prev2 = FALSE
  /\ out_set = FALSE /\ out_set_prev = FALSE /\ out_set_prev2 = FALSE
  /\ outreset = FALSE /\ pulseout = FALSE
  /\ held = 0 /\ polite = TRUE
  /\ unanswered = 0
-----------------------------------------------------------------------------
(* Rising edge of in_clk, process in_proc. *)
InProc ==
  /\ in_set' = IF in_reset_prev /\ in_reset_prev2 THEN FALSE
               ELSE pulsein \/ in_set
  /\ in_reset' = outreset
  /\ in_reset_prev' = in_reset
  /\ in_reset_prev2' = in_reset_prev

(* Parts and mutants of OutProc: a level, both edges, an answer that stays. *)
OutStages == out_set' = in_set /\ out_set_prev' = out_set /\ out_set_prev2' = out_set_prev

Answer ==
  outreset' = IF out_set_prev /\ out_set_prev2 THEN TRUE
              ELSE IF ~out_set_prev /\ ~out_set_prev2 THEN FALSE
              ELSE outreset

OutProcLevel == pulseout' = out_set_prev /\ Answer /\ OutStages
OutProcBothEdges == pulseout' = (out_set_prev # out_set_prev2) /\ Answer /\ OutStages
OutProcNoRelease ==
  /\ pulseout' = (out_set_prev /\ ~out_set_prev2)
  /\ outreset' = (outreset \/ (out_set_prev /\ out_set_prev2))
  /\ OutStages

(* Rising edge of out_clk, process out_proc. *)
OutProc == pulseout' = (out_set_prev /\ ~out_set_prev2) /\ Answer /\ OutStages

(* Mutant of Source: no bound on the width of a pulse. *)
SourceUnbounded ==
  /\ pulsein' \in BOOLEAN
  /\ held' = IF pulsein' /\ pulsein THEN held + 1 ELSE 0
  /\ polite' = (polite /\ (pulsein' /\ ~pulsein => ~inbusy))

(* The source of pulsein, clocked by in_clk: it starts, prolongs or ends a *)
(* pulse.                                                                  *)
Source ==
  /\ pulsein' \in BOOLEAN
  /\ pulsein' /\ ~pulsein => unanswered < MaxUnanswered
  /\ pulsein' /\ pulsein => held + 1 < MaxHold
  /\ held' = IF pulsein' /\ pulsein THEN held + 1 ELSE 0
  /\ polite' = (polite /\ (pulsein' /\ ~pulsein => ~inbusy))

Rise == pulsein' /\ ~pulsein
Fire == pulseout' /\ ~pulseout
Count == unanswered' = unanswered + B2N(Rise) - B2N(Fire)

InEdge ==
  /\ InProc /\ Source
  /\ UNCHANGED outRegs
  /\ Count

OutEdge ==
  /\ OutProc
  /\ UNCHANGED <<pulsein, inRegs, held, polite>>
  /\ Count

(* Both edges at one instant: always, when the clocks are one clock, as    *)
(* they are in sdram_buffer_fifo.vhd.                                      *)
BothEdges == InProc /\ OutProc /\ Source /\ Count

(* Asynchronous rst.  A pulsein that is still high is registered again     *)
(* when rst is released.                                                   *)
Reset ==
  /\ in_set' = FALSE /\ in_reset' = FALSE
  /\ in_reset_prev' = FALSE /\ in_reset_prev2' = FALSE
  /\ out_set' = FALSE /\ out_set_prev' = FALSE /\ out_set_prev2' = FALSE
  /\ outreset' = FALSE /\ pulseout' = FALSE
  /\ unanswered' = B2N(pulsein)
  /\ polite' = TRUE
  /\ UNCHANGED <<pulsein, held>>

Next == InEdge \/ OutEdge \/ BothEdges \/ Reset

(* The clocks run freely. *)
Fairness ==
  /\ WF_vars(InEdge \/ BothEdges)
  /\ WF_vars(OutEdge \/ BothEdges)

Spec == Init /\ [][Next]_vars /\ Fairness
-----------------------------------------------------------------------------
TypeOK ==
  /\ pulsein \in BOOLEAN
  /\ in_set \in BOOLEAN /\ in_reset \in BOOLEAN
  /\ in_reset_prev \in BOOLEAN /\ in_reset_prev2 \in BOOLEAN
  /\ out_set \in BOOLEAN /\ out_set_prev \in BOOLEAN /\ out_set_prev2 \in BOOLEAN
  /\ outreset \in BOOLEAN /\ pulseout \in BOOLEAN
  /\ held \in 0 .. MaxHold - 1
  /\ polite \in BOOLEAN
  /\ unanswered \in Int

(* A source that waits for inbusy gets exactly one output pulse for each   *)
(* of its pulses: never one more than it raised, and never two of its      *)
(* pulses merged into one (pulse2pulse.vhd 88-94, 116-129).                *)
OneForOne == polite => unanswered \in {0, 1}

(* A source that does not look at inbusy (all three instances in           *)
(* sdram_buffer_fifo.vhd leave INBUSY open) may have pulses merged, but    *)
(* the output never pulses more often than the input.                      *)
NoInventedPulse == unanswered >= 0

(* pulseout is one out_clk cycle wide whatever the duration of pulsein     *)
(* (pulse2pulse.vhd 5-6): it never outlives an edge that moves out_proc.   *)
OneCycleWide == [][pulseout /\ pulseout' => UNCHANGED outRegs]_vars

(* Every pulse of a source that waits for inbusy is answered, or dropped   *)
(* by a reset: nothing stays in flight.                                    *)
PulseDelivered == <>[]polite => (unanswered > 0 ~> unanswered = 0)

(* The handshake comes to rest after every pulse: all eight stages return  *)
(* to '0', whatever pulses arrive meanwhile.                               *)
BusyClears == inbusy ~> ~inbusy
=============================================================================
