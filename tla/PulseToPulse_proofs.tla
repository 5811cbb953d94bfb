------------------------- MODULE PulseToPulse_proofs -------------------------
(***************************************************************************)
(* The registers form a ring: in_set, out_set, out_set_prev,               *)
(* out_set_prev2, outreset, in_reset, in_reset_prev, in_reset_prev2 and    *)
(* back to in_set, inverted.  A pulse sends one wave of ones and then one  *)
(* wave of zeros round the ring.  The inductive invariant says that no two *)
(* waves are ever on the ring, and counts how many edges of in_clk a wave  *)
(* must have taken to get where it is.                                     *)
(***************************************************************************)
EXTENDS PulseToPulse, TLAPS

(* While in_set is high the ones form a prefix of the ring. *)
RisingWave ==
  in_set => /\ out_set_prev => out_set
            /\ out_set_prev2 => out_set_prev
            /\ outreset => out_set_prev2
            /\ in_reset => outreset
            /\ in_reset_prev => in_reset
            /\ in_reset_prev2 => in_reset_prev

(* While in_set is low the zeros form a prefix of the ring. *)
FallingWave ==
  ~in_set => /\ out_set => out_set_prev
             /\ out_set_prev => out_set_prev2
             /\ out_set_prev2 => outreset
             /\ outreset => in_reset
             /\ in_reset => in_reset_prev
             /\ in_reset_prev => in_reset_prev2

(* A pulsein still high has been sampled once for each in_clk stage that   *)
(* its wave has passed.                                                    *)
HeldBound ==
  pulsein =>
    /\ in_set => /\ held >= 1
                 /\ in_reset => held >= 2
                 /\ in_reset_prev => held >= 3
                 /\ in_reset_prev2 => held >= 4
    /\ ~in_set /\ in_reset_prev2 => /\ held >= 5
                                    /\ ~in_reset => held >= 6
                                    /\ ~in_reset_prev => held >= 7

(* The one pulse in flight: not yet registered, or registered and not yet  *)
(* past the edge detector of the output.                                   *)
InFlight ==
  \/ pulsein /\ ~in_set /\ ~in_reset_prev2
  \/ in_set /\ ~out_set_prev2

Answered == unanswered = IF InFlight THEN 1 ELSE 0

Orderly ==
  /\ RisingWave
  /\ FallingWave
  /\ HeldBound
  /\ pulseout => out_set_prev2
  /\ Answered

IInv == TypeOK /\ (polite => Orderly)
-----------------------------------------------------------------------------
(* The one assumption: a pulse lasts at most seven edges of in_clk, and so *)
(* is over when its answer has gone.  The clocks may be one or two, of any *)
(* frequencies.                                                            *)
ShortPulses == MaxHold <= 7

LEMMA InitTypeOK == Init => TypeOK
<1> SUFFICES ASSUME Init PROVE TypeOK
  OBVIOUS
<1>1. held \in 0 .. MaxHold - 1 /\ unanswered \in Int
  BY MaxHoldAssumption DEF Init
<1> QED BY <1>1, Zenon DEF Init, TypeOK

LEMMA StepTypeOK == ASSUME TypeOK, [Next]_vars PROVE TypeOK'
<1>1. CASE InEdge
  <2>1. held' \in 0 .. MaxHold - 1 /\ unanswered' \in Int
    BY <1>1, MaxHoldAssumption DEF InEdge, Source, Count, Rise, Fire, B2N, TypeOK
  <2> QED BY <1>1, <2>1, Zenon DEF InEdge, InProc, Source, outRegs, TypeOK
<1>2. CASE OutEdge
  <2>1. held' \in 0 .. MaxHold - 1 /\ unanswered' \in Int
    BY <1>2, MaxHoldAssumption DEF OutEdge, Count, Rise, Fire, B2N, TypeOK
  <2> QED BY <1>2, <2>1, Zenon DEF OutEdge, OutProc, Answer, OutStages, inRegs, TypeOK
<1>3. CASE BothEdges
  <2>1. held' \in 0 .. MaxHold - 1 /\ unanswered' \in Int
    BY <1>3, MaxHoldAssumption DEF BothEdges, Source, Count, Rise, Fire, B2N, TypeOK
  <2> QED BY <1>3, <2>1, Zenon DEF BothEdges, InProc, OutProc, Answer, OutStages, Source, TypeOK
<1>4. CASE Reset
  <2>1. held' \in 0 .. MaxHold - 1 /\ unanswered' \in Int
    BY <1>4, MaxHoldAssumption DEF Reset, B2N, TypeOK
  <2> QED BY <1>4, <2>1, Zenon DEF Reset, TypeOK
<1>5. CASE UNCHANGED vars
  BY <1>5 DEF vars, inRegs, outRegs, TypeOK
<1> QED BY <1>1, <1>2, <1>3, <1>4, <1>5 DEF Next

(* No pulse outlasts MaxHold, and every register is a bit, whatever the    *)
(* source does (pulse2pulse.vhd 45-60).                                    *)
THEOREM TypeCorrect == Spec => []TypeOK
<1>1. TypeOK /\ [Next]_vars => TypeOK'
  BY StepTypeOK
<1> QED BY InitTypeOK, <1>1, PTL DEF Spec

LEMMA InitIInv == Init => IInv
<1> SUFFICES ASSUME Init PROVE IInv
  OBVIOUS
<1>1. TypeOK
  BY InitTypeOK
<1>2. RisingWave /\ FallingWave /\ HeldBound /\ (pulseout => out_set_prev2)
  BY Zenon DEF Init, RisingWave, FallingWave, HeldBound
<1>3. ~InFlight
  BY Zenon DEF Init, InFlight
<1>4. Answered
  BY <1>3, Zenon DEF Init, Answered
<1> QED BY <1>1, <1>2, <1>4 DEF IInv, Orderly

(* An edge, while the source waits for inbusy. *)
LEMMA StepOrderly == ASSUME ShortPulses, TypeOK, Orderly, polite', InEdge \/ OutEdge \/ BothEdges
                     PROVE  Orderly'
<1> USE MaxHoldAssumption DEF ShortPulses
<1>1. CASE InEdge
  <2> USE <1>1 DEF InEdge, InProc, Source, Count, Rise, Fire, B2N, inbusy, outRegs, TypeOK, Orderly
  <2>1. RisingWave'
    BY DEF RisingWave, FallingWave, HeldBound
  <2>2. FallingWave'
    BY DEF RisingWave, FallingWave
  <2>3. HeldBound'
    BY DEF RisingWave, FallingWave, HeldBound
  <2>4. (pulseout => out_set_prev2)'
    OBVIOUS
  <2>5. Answered'
    BY DEF RisingWave, FallingWave, HeldBound, Answered, InFlight
  <2> QED BY <2>1, <2>2, <2>3, <2>4, <2>5
<1>2. CASE OutEdge
  <2> USE <1>2 DEF OutEdge, OutProc, Answer, OutStages, Count, Rise, Fire, B2N, inRegs, TypeOK, Orderly
  <2>1. RisingWave'
    BY DEF RisingWave, FallingWave, HeldBound
  <2>2. FallingWave'
    BY DEF RisingWave, FallingWave
  <2>3. HeldBound'
    BY DEF RisingWave, FallingWave, HeldBound
  <2>4. (pulseout => out_set_prev2)'
    OBVIOUS
  <2>5. Answered'
    BY DEF RisingWave, FallingWave, HeldBound, Answered, InFlight
  <2> QED BY <2>1, <2>2, <2>3, <2>4, <2>5
<1>3. CASE BothEdges
  <2> USE <1>3 DEF BothEdges, InProc, OutProc, Answer, OutStages, Source, Count, Rise, Fire, B2N, inbusy, TypeOK, Orderly
  <2>1. RisingWave'
    BY DEF RisingWave, FallingWave, HeldBound
  <2>2. FallingWave'
    BY DEF RisingWave, FallingWave
  <2>3. HeldBound'
    BY DEF RisingWave, FallingWave, HeldBound
  <2>4. (pulseout => out_set_prev2)'
    OBVIOUS
  <2>5. Answered'
    BY DEF RisingWave, FallingWave, HeldBound, Answered, InFlight
  <2> QED BY <2>1, <2>2, <2>3, <2>4, <2>5
<1> QED BY <1>1, <1>2, <1>3

(* rst leaves at most a pulsein that will be registered again. *)
LEMMA ResetOrderly == ASSUME TypeOK, Reset PROVE Orderly'
<1>1. RisingWave' /\ FallingWave' /\ HeldBound' /\ (pulseout => out_set_prev2)'
  BY DEF Reset, RisingWave, FallingWave, HeldBound
<1>2. Answered'
  BY DEF Reset, B2N, Answered, InFlight
<1> QED BY <1>1, <1>2 DEF Orderly

LEMMA StepIInv == ASSUME ShortPulses, IInv, [Next]_vars PROVE IInv'
<1>1. TypeOK'
  BY StepTypeOK DEF IInv
<1>2. ASSUME polite' PROVE Orderly'
  <2>1. CASE InEdge \/ OutEdge \/ BothEdges
    <3>1. polite
      BY <1>2, <2>1 DEF InEdge, OutEdge, BothEdges, Source, IInv, TypeOK
    <3> QED BY <1>2, <2>1, <3>1, StepOrderly DEF IInv
  <2>2. CASE Reset
    BY <2>2, ResetOrderly DEF IInv
  <2>3. CASE UNCHANGED vars
    BY <1>2, <2>3 DEF vars, inRegs, outRegs, IInv, Orderly, RisingWave, FallingWave, HeldBound,
      Answered, InFlight
  <2> QED BY <2>1, <2>2, <2>3 DEF Next
<1> QED BY <1>1, <1>2 DEF IInv

(* Exactly one output pulse for every input pulse, for clocks of any       *)
(* frequencies and phases, with resets at any time, if the source waits    *)
(* for inbusy and holds its pulse for at most seven edges of in_clk.       *)
THEOREM OneForOneHolds == ShortPulses /\ Spec => []OneForOne
<1>1. ASSUME ShortPulses PROVE Spec => []OneForOne
  <2>1. IInv => OneForOne
    BY DEF IInv, Orderly, Answered, OneForOne
  <2>2. IInv /\ [Next]_vars => IInv'
    BY <1>1, StepIInv
  <2> QED BY <2>1, <2>2, InitIInv, PTL DEF Spec
<1> QED BY <1>1
-----------------------------------------------------------------------------
(* The three instances in sdram_buffer_fifo.vhd leave inbusy open, so that *)
(* a pulse may come at any time.  The ones and the zeros still go round    *)
(* the ring one wave at a time, except for its last register.              *)
RisingRing ==
  in_set => /\ out_set_prev => out_set
            /\ out_set_prev2 => out_set_prev
            /\ outreset => out_set_prev2
            /\ in_reset => outreset
            /\ in_reset_prev => in_reset

(* The present pulse is old enough to have started the wave on the ring.   *)
OwnWave ==
  \/ /\ in_set
     /\ held >= 1
     /\ in_reset => held >= 2
     /\ in_reset_prev => held >= 3
     /\ in_reset_prev /\ in_reset_prev2 => held >= 4
  \/ /\ ~in_set /\ in_reset_prev2
     /\ held >= 5
     /\ ~in_reset => held >= 6
     /\ ~in_reset_prev => held >= 7

(* A request that has yet to reach the output, and a pulse that did not    *)
(* start the wave on the ring, are pulses that the output still owes.      *)
StillOwed == B2N(in_set /\ ~out_set_prev2) + B2N(pulsein /\ ~OwnWave)

AnyInv ==
  /\ TypeOK
  /\ RisingRing
  /\ FallingWave
  /\ unanswered >= StillOwed

LEMMA InitAnyInv == Init => AnyInv
<1> SUFFICES ASSUME Init PROVE AnyInv
  OBVIOUS
<1>1. RisingRing /\ FallingWave
  BY Zenon DEF Init, RisingRing, FallingWave
<1>2. unanswered >= StillOwed
  BY DEF Init, StillOwed, B2N
<1> QED BY <1>1, <1>2, InitTypeOK DEF AnyInv

LEMMA StepAnyInv == ASSUME ShortPulses, AnyInv, [Next]_vars
                    PROVE  AnyInv'
<1> USE MaxHoldAssumption DEF ShortPulses
<1>0. TypeOK'
  BY StepTypeOK DEF AnyInv
<1>1. CASE InEdge
  <2>1. RisingRing'
    BY <1>1 DEF InEdge, InProc, Source, outRegs, AnyInv, TypeOK, RisingRing, FallingWave
  <2>2. FallingWave'
    BY <1>1 DEF InEdge, InProc, Source, outRegs, AnyInv, TypeOK, RisingRing, FallingWave
  <2>3. (unanswered >= StillOwed)'
    BY <1>1 DEF InEdge, InProc, Source, outRegs, Count, Rise, Fire, B2N, AnyInv, TypeOK, RisingRing,
      FallingWave, StillOwed, OwnWave
  <2> QED BY <1>0, <2>1, <2>2, <2>3 DEF AnyInv
<1>2. CASE OutEdge
  <2>1. RisingRing'
    BY <1>2 DEF OutEdge, OutProc, Answer, OutStages, inRegs, AnyInv, TypeOK, RisingRing, FallingWave
  <2>2. FallingWave'
    BY <1>2 DEF OutEdge, OutProc, Answer, OutStages, inRegs, AnyInv, TypeOK, RisingRing, FallingWave
  <2>3. (unanswered >= StillOwed)'
    BY <1>2 DEF OutEdge, OutProc, Answer, OutStages, inRegs, Count, Rise, Fire, B2N, AnyInv, TypeOK, RisingRing,
      FallingWave, StillOwed, OwnWave
  <2> QED BY <1>0, <2>1, <2>2, <2>3 DEF AnyInv
<1>3. CASE BothEdges
  <2>1. RisingRing'
    BY <1>3 DEF BothEdges, InProc, OutProc, Answer, OutStages, Source, AnyInv, TypeOK, RisingRing, FallingWave
  <2>2. FallingWave'
    BY <1>3 DEF BothEdges, InProc, OutProc, Answer, OutStages, Source, AnyInv, TypeOK, RisingRing, FallingWave
  <2>3. (unanswered >= StillOwed)'
    BY <1>3 DEF BothEdges, InProc, OutProc, Answer, OutStages, Source, Count, Rise, Fire, B2N, AnyInv, TypeOK, RisingRing,
      FallingWave, StillOwed, OwnWave
  <2> QED BY <1>0, <2>1, <2>2, <2>3 DEF AnyInv
<1>4. CASE Reset
  <2>1. RisingRing'
    BY <1>4 DEF Reset, AnyInv, TypeOK, RisingRing, FallingWave
  <2>2. FallingWave'
    BY <1>4 DEF Reset, AnyInv, TypeOK, RisingRing, FallingWave
  <2>3. (unanswered >= StillOwed)'
    BY <1>4 DEF Reset, B2N, AnyInv, TypeOK, RisingRing,
      FallingWave, StillOwed, OwnWave
  <2> QED BY <1>0, <2>1, <2>2, <2>3 DEF AnyInv
<1>5. CASE UNCHANGED vars
  BY <1>5 DEF vars, inRegs, outRegs, AnyInv, TypeOK, RisingRing, FallingWave,
    StillOwed, OwnWave
<1> QED BY <1>1, <1>2, <1>3, <1>4, <1>5 DEF Next

(* A source that does not look at inbusy may have its pulses merged, but   *)
(* the output never pulses more often than the input, for clocks of any    *)
(* frequencies and resets at any time.                                     *)
THEOREM NoInventedPulseHolds == ShortPulses /\ Spec => []NoInventedPulse
<1>1. ASSUME ShortPulses PROVE Spec => []NoInventedPulse
  <2>1. AnyInv => NoInventedPulse
    BY DEF AnyInv, TypeOK, StillOwed, B2N, NoInventedPulse
  <2>2. AnyInv /\ [Next]_vars => AnyInv'
    BY <1>1, StepAnyInv
  <2> QED BY <2>1, <2>2, InitAnyInv, PTL DEF Spec
<1> QED BY <1>1
-----------------------------------------------------------------------------
(* The edge detector's own invariant: while pulseout is high the detector  *)
(* has already registered the level that raised it.                        *)
EdgeTaken == pulseout => out_set_prev2

LEMMA EdgeTakenInvariant == Spec => []EdgeTaken
<1>1. Init => EdgeTaken
  BY Zenon DEF Init, EdgeTaken
<1>2. ASSUME EdgeTaken, [Next]_vars
      PROVE  EdgeTaken'
  <2>1. CASE UNCHANGED outRegs
    BY <1>2, <2>1 DEF EdgeTaken, outRegs
  <2>2. CASE OutProc
    BY <2>2, Zenon DEF EdgeTaken, OutProc, Answer, OutStages
  <2>3. CASE Reset
    BY <2>3, Zenon DEF EdgeTaken, Reset
  <2> QED
    BY <1>2, <2>1, <2>2, <2>3 DEF Next, InEdge, OutEdge, BothEdges, vars
<1> QED BY <1>1, <1>2, PTL DEF Spec

(* The output pulse is one out_clk cycle wide, however long pulsein lasts  *)
(* and however often it comes (pulse2pulse.vhd 5-6).                       *)
THEOREM OneCycleWideHolds == Spec => OneCycleWide
<1>1. ASSUME EdgeTaken, [Next]_vars
      PROVE  [pulseout /\ pulseout' => UNCHANGED outRegs]_vars
  <2>1. CASE InEdge
    BY <2>1, Zenon DEF InEdge
  <2>2. CASE OutProc
    BY <1>1, <2>2, Zenon DEF EdgeTaken, OutProc, Answer, OutStages
  <2>3. CASE Reset
    BY <2>3, Zenon DEF Reset
  <2>4. CASE UNCHANGED vars
    BY <2>4
  <2> QED
    BY <1>1, <2>1, <2>2, <2>3, <2>4, Zenon DEF Next, OutEdge, BothEdges
<1> QED BY <1>1, EdgeTakenInvariant, PTL DEF Spec, OneCycleWide
=============================================================================
