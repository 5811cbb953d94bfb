----------------------------- MODULE ChannelAvg ------------------------------
(***************************************************************************)
(* channel_avg.vhd: sums 2**avg_n samples of every channel, gives the sum  *)
(* out shifted right by avg_n, and lets a trigger set the phase of the     *)
(* sums.                                                                   *)
(*                                                                         *)
(* A sum always holds the samples of the last few clocks, without a gap,   *)
(* so internal_val is how many they are.                                   *)
(***************************************************************************)
EXTENDS Integers

CONSTANTS
  Configs,    \* values of CONFIG: offset, bits 7 .. 4, and avg_n, bits 3 .. 0
  MaxSum,     \* bound: a sum of more samples than this counts as this many
  Period      \* bound: the clocks since a trigger are counted modulo this

ConfigsAssumption == Configs \subseteq [offset : 0 .. 15, avg_n : 0 .. 15]
MaxSumAssumption == MaxSum \in Nat /\ \A c \in Configs : MaxSum > 2 ^ c.avg_n
PeriodAssumption == Period \in Nat \ {0} /\ \A c \in Configs : Period % 2 ^ c.avg_n = 0

VARIABLES
  CONFIG, TRIG,
  trig_prev, trig_prev1, trig_prev2,
  j, internal_val, OUTVALID,
  clean,      \* history: the sum was begun by j = 1 and nothing has disturbed it since
  age         \* history: clocks since the trigger came through, modulo Period; -1 if it has
              \* not, or if CONFIG has changed since

trig == <<trig_prev, trig_prev1, trig_prev2>>
vars == <<CONFIG, TRIG, trig, j, internal_val, OUTVALID, clean, age>>

Points == 2 ^ CONFIG.avg_n

Init ==
  /\ CONFIG \in Configs /\ TRIG = 0
  /\ trig_prev = 0 /\ trig_prev1 = 0 /\ trig_prev2 = 0
  /\ j = 0 /\ internal_val = 0 /\ OUTVALID = FALSE
  /\ clean = FALSE /\ age = -1
-----------------------------------------------------------------------------
trig_synced == trig_prev2 = 0 /\ trig_prev1 = 1

PhasePlain ==     \* mutant of Phase: the offset itself
  IF trig_synced THEN CONFIG.offset ELSE j
Phase == IF trig_synced THEN CONFIG.offset + 1 ELSE j
FullAbove(k) ==   \* mutant of Full: a sum of one sample more
  ((k - 1) \div Points) % 2 = 1
Full(k) == (k \div Points) % 2 = 1        \* j(avg_n)

AccumulateOn(k) ==      \* mutant of Accumulate: a sum is never begun anew
  /\ internal_val' = internal_val + 1
  /\ OUTVALID' = Full(k) /\ j' = IF Full(k) THEN 1 ELSE (k + 1) % 2 ^ 16
AccumulateNarrow(k) ==  \* mutant of Accumulate: a counter of two bits
  /\ internal_val' = IF k = 1 THEN 1 ELSE IF internal_val < MaxSum THEN internal_val + 1 ELSE MaxSum
  /\ OUTVALID' = Full(k) /\ j' = IF Full(k) THEN 1 ELSE (k + 1) % 4
Accumulate(k) ==
  /\ internal_val' = IF k = 1 THEN 1 ELSE IF internal_val < MaxSum THEN internal_val + 1 ELSE MaxSum
  /\ OUTVALID' = Full(k)
  /\ j' = IF Full(k) THEN 1 ELSE (k + 1) % 2 ^ 16

Clock ==
  /\ TRIG' \in {0, 1}
  /\ trig_prev' = TRIG /\ trig_prev1' = trig_prev /\ trig_prev2' = trig_prev1
  /\ Accumulate(Phase)
  /\ clean' = (Phase = 1 \/ (clean /\ ~trig_synced))
  /\ age' = IF trig_synced THEN 1 % Period ELSE IF age = -1 THEN -1 ELSE (age + 1) % Period
  /\ UNCHANGED CONFIG

(* RESET is asynchronous, and held for any time.                           *)
Reset ==
  /\ trig_prev' = 0 /\ trig_prev1' = 0 /\ trig_prev2' = 0 /\ internal_val' = 0 /\ OUTVALID' = FALSE /\ j' = 0
  /\ clean' = FALSE /\ age' = -1
  /\ UNCHANGED <<CONFIG, TRIG>>

(* The program writes config register 14.                                  *)
Configure ==
  /\ CONFIG' \in Configs \ {CONFIG}
  /\ clean' = FALSE /\ age' = -1
  /\ UNCHANGED <<TRIG, trig, j, internal_val, OUTVALID>>

Next == Clock \/ Reset \/ Configure
Spec == Init /\ [][Next]_vars /\ WF_vars(Clock)
-----------------------------------------------------------------------------
TypeOK ==
  /\ CONFIG \in Configs /\ {TRIG, trig_prev, trig_prev1, trig_prev2} \subseteq {0, 1}
  /\ j \in 0 .. 2 ^ 16 - 1 /\ internal_val \in 0 .. MaxSum /\ age \in -1 .. Period - 1
  /\ {OUTVALID, clean} \subseteq BOOLEAN

(* Every value given out is the mean of 2**avg_n samples, but for the      *)
(* first after a trigger with an offset, after a reset, or after a change  *)
(* of CONFIG.                                                              *)
CleanIsMean == (OUTVALID /\ clean) => internal_val = Points

(* A trigger without an offset makes the very next value a clean one, made *)
(* of the samples that follow the trigger.                                 *)
TriggerCuts == (OUTVALID /\ age # -1 /\ CONFIG.offset = 0) => clean /\ age % Points = 0

(* With an offset below the number of points, values come out at the times *)
(* the trigger and the offset give, for as long as no other comes.         *)
PhaseKept == (OUTVALID /\ age # -1 /\ CONFIG.offset < Points) => (age + CONFIG.offset) % Points = 0
=============================================================================
