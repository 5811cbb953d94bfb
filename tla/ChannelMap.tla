----------------------------- MODULE ChannelMap ------------------------------
(***************************************************************************)
(* Which sample is whose.  fmc112.c turns its channel mask into the value  *)
(* of config register 14, channel_sel.vhd picks the lanes of the ADC bus   *)
(* by it and packs them into words of 256 bits, and fmc112.c deals the     *)
(* bytes that come back out to one row of wavBuf per channel.  The capture *)
(* buffer between the two hands the words on in order (SdramBufferFifo).   *)
(***************************************************************************)
EXTENDS Integers, Sequences, FiniteSetsExt

CONSTANTS
  Masks,      \* values of chMask, as sets of channels
  MemWords    \* words in the memory: one for each point of all 16 channels

SCOPE_NCH == 16

MasksAssumption == \A m \in Masks : m \subseteq 0 .. 31 /\ Cardinality(m) \in {1, 4, 8, 16}
MemWordsAssumption == MemWords \in Nat \ {0}

VARIABLES
  chMask, SEL,    \* the program's mask; register 14, bits 7 .. 0
  indata_q_i,     \* the ADC bus after the swap, from bit 255 down, as bytes
  fifo, words,    \* the width FIFOs; words stored in the capture buffer and not yet read
  t,              \* number of the sample on the bus
  wavBuf, iP      \* the event, by flat index; the next point to fill

vars == <<chMask, SEL, indata_q_i, fifo, words, t, wavBuf, iP>>

nCh == Cardinality(chMask)
nPtPoints == MemWords     \* mutant of nPt: whatever the number of channels
nPt == MemWords * (SCOPE_NCH \div nCh)
-----------------------------------------------------------------------------
(* fmc112_prepare, "select channel & average".                             *)
Touches(lo, hi) == chMask \cap lo .. hi # {}
Group(k) == {g \in 0 .. (SCOPE_NCH \div k) - 1 : Touches(k * g, k * g + k - 1)}
Ored(G) == 2 * (IF G \cap {2, 3} # {} THEN 1 ELSE 0) + (IF G \cap {1, 3} # {} THEN 1 ELSE 0)

SelectFirst ==    \* mutant of Select: always the first group of eight
  CASE nCh = 1 -> Min(chMask \cup {16})
    [] nCh = 4 -> 16 + Ored(Group(4))
    [] nCh = 8 -> 32
    [] OTHER   -> 48
Select ==
  CASE nCh = 1 -> Min(chMask \cup {16})
    [] nCh = 4 -> 16 + Ored(Group(4))     \* the groups' numbers are or'ed
    [] nCh = 8 -> 32 + Ored(Group(8))
    [] OTHER   -> 48

(* What the bus carries: a byte is named by its channel, its sample and    *)
(* its half.  Lane i of indata_q_i is lane 15 - i of the bus, with its     *)
(* bytes swapped, so that lane 0 comes first.                              *)
Byte(c, n, half) == [ch |-> c, t |-> n, half |-> half]
LaneStraight(c, n) == <<Byte(c, n, "high"), Byte(c, n, "low")>>   \* mutant of Lane: no swap
Lane(c, n) == <<Byte(c, n, "low"), Byte(c, n, "high")>>
Bus(n) == [k \in 1 .. 2 * SCOPE_NCH |-> Lane((k - 1) \div 2, n)[1 + ((k - 1) % 2)]]

Slice(first, n) == SubSeq(indata_q_i, 2 * first + 1, 2 * (first + n))
Picked ==
  LET mode == SEL \div 16  offset == SEL % 16 IN
  CASE mode = 0 -> Slice(offset, 1)
    [] mode = 1 -> Slice(4 * offset, 4)
    [] mode = 2 -> IF offset = 1 THEN Slice(8, 8) ELSE Slice(0, 8)
    [] mode = 3 -> indata_q_i

Init ==
  /\ chMask \in Masks /\ SEL = Select
  /\ t \in {0} /\ indata_q_i = Bus(0)
  /\ fifo = <<>> /\ words = <<>> /\ wavBuf = <<>> /\ iP = 0

WordBytes == 2 * SCOPE_NCH
Taken == (t * nCh) \div SCOPE_NCH     \* words that have left the width FIFOs

(* One valid clock: a point goes into the FIFO of its mode, and what fills *)
(* a word moves on.                                                        *)
Clock ==
  /\ Taken < MemWords
  /\ LET f == fifo \o Picked  full == Len(f) >= WordBytes IN
     /\ words' = IF full THEN words \o SubSeq(f, 1, WordBytes) ELSE words
     /\ fifo' = IF full THEN SubSeq(f, WordBytes + 1, Len(f)) ELSE f
  /\ t' = t + 1 /\ indata_q_i' = Bus(t + 1)
  /\ UNCHANGED <<chMask, SEL, wavBuf, iP>>

(* The inner loops over one block: the next point of each channel of the   *)
(* mask, in the order of their numbers, goes to the row of the same rank.  *)
IndexTransposed(j, p) == p * nCh + j       \* mutant of Index: points first
Index(j, p) == j * nPt + p
Sample(buf, i) == [low |-> buf[2 * i + 1], high |-> buf[2 * i + 2]]
Deal(buf) ==
  LET samples == 0 .. nCh * (Len(buf) \div (2 * nCh)) - 1
      place(i) == Index(i % nCh, iP + i \div nCh)
      filled == {place(i) : i \in samples} IN
  [x \in filled \cup DOMAIN wavBuf |->
     IF x \in filled THEN Sample(buf, CHOOSE i \in samples : x = place(i)) ELSE wavBuf[x]]

(* A block of whole words has come; NBASK is a number of words.            *)
FillSamples ==   \* mutant of Fill: iP counts samples
  \E n \in 1 .. Len(words) \div WordBytes :
    /\ wavBuf' = Deal(SubSeq(words, 1, n * WordBytes))
    /\ iP' = iP + n * SCOPE_NCH
    /\ words' = SubSeq(words, n * WordBytes + 1, Len(words))
    /\ UNCHANGED <<chMask, SEL, indata_q_i, fifo, t>>
Fill ==
  \E n \in 1 .. Len(words) \div WordBytes :
    LET buf == SubSeq(words, 1, n * WordBytes) IN
    /\ wavBuf' = Deal(buf)
    /\ iP' = iP + (n * WordBytes) \div (2 * nCh)
    /\ words' = SubSeq(words, n * WordBytes + 1, Len(words))
    /\ UNCHANGED <<chMask, SEL, indata_q_i, fifo, t>>

Next == Clock \/ Fill
Spec == Init /\ [][Next]_vars /\ WF_vars(Clock) /\ WF_vars(Fill)
-----------------------------------------------------------------------------
(* Row j of the event holds the channel of the j-th bit set in the mask,   *)
(* point by point in time, each sample with its halves in their places.    *)
RowChannel(j) == CHOOSE c \in chMask : Cardinality({d \in chMask : d < c}) = j
RowsAreChannels ==
  \A j \in 0 .. nCh - 1, p \in 0 .. iP - 1 :
    wavBuf[j * nPt + p] =
      [low |-> Byte(RowChannel(j), p, "low"), high |-> Byte(RowChannel(j), p, "high")]

(* Filling never leaves the event, and no point is written twice.          *)
InsideEvent == iP' <= nPt /\ DOMAIN wavBuf' \subseteq 0 .. nCh * nPt - 1

(* The words of a full memory make a full event.                           *)
EventFilled == iP = nPt /\ DOMAIN wavBuf = 0 .. nCh * nPt - 1
=============================================================================
