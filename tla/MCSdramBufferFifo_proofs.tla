---------------------- MODULE MCSdramBufferFifo_proofs ----------------------
(***************************************************************************)
(* The safety properties that MCSdramBufferFifo checks, for every size of  *)
(* the memory, the bursts and the FIFOs and every choice of addresses: a   *)
(* setup is kept for ever and its steps are those of SdramBufferFifo, so   *)
(* that the invariants of SdramBufferFifo_proofs hold in it.               *)
(***************************************************************************)
EXTENDS MCSdramBufferFifo, TLAPS

(* Both instances are given addresses of their memory, and users that keep *)
(* to what the invariants need.                                            *)
LEMMA CaptureAddresses ==
  Begins \subseteq Capture!Addr /\ Begins # {} /\ Posts \subseteq Capture!Addr /\ {} \subseteq Capture!Addr
  BY AddrAssumption DEF Capture!Addr, Capture!Span

LEMMA ReadAddresses ==
  Begins \subseteq Read!Addr /\ Begins # {} /\ {} \subseteq Read!Addr /\ RdEnds \subseteq Read!Addr
  BY AddrAssumption DEF Read!Addr, Read!Span

LEMMA CaptureUser == Capture!StopUser /\ Capture!FirstCapture
<1>1. \A p \in Posts : \E k \in Nat \ {0} : p = k * Burst
  BY BurstAssumption
<1> QED BY <1>1, RoomAssumption DEF Capture!StopUser, Capture!FirstCapture

LEMMA ReaderUser == Read!ReadUser
<1>1. \A e \in RdEnds : \E k \in Nat : e = k * Burst
  BY BurstAssumption
<1> QED BY <1>1 DEF Read!ReadUser

(* A setup and its steps. *)
LEMMA CaptureSteps == [Next]_vars /\ setup' = "capture" => setup = "capture" /\ [Capture!Next]_(Capture!vars)
  BY DEF Next, captureNext, endsNext, readNext, vars

LEMMA ReadSteps == [Next]_vars /\ setup' = "read" => setup = "read" /\ [Read!Next]_(Read!vars)
<1> SUFFICES ASSUME [Next]_vars, setup' = "read" PROVE setup = "read" /\ [Read!Next]_(Read!vars)
  OBVIOUS
<1>1. CASE Next
  BY <1>1 DEF Next, captureNext, endsNext, readNext
<1>2. CASE UNCHANGED vars
  BY <1>2 DEF vars, Capture!vars, Capture!pulses, Capture!status, Capture!writer, Capture!reader,
              Capture!buffers, Capture!mig, Capture!response, Read!vars, Read!pulses, Read!status,
              Read!writer, Read!reader, Read!buffers, Read!mig, Read!response
<1> QED BY <1>1, <1>2
-----------------------------------------------------------------------------
CaptureInv == setup = "capture" => Capture!DInv /\ Capture!PInv /\ Capture!SInv
ReadInv == setup = "read" => Read!RInv

LEMMA InitCaptureInv == Init => CaptureInv
<1> SUFFICES ASSUME Capture!Init PROVE Capture!DInv /\ Capture!PInv /\ Capture!SInv
  BY DEF Init, CaptureInv
<1> QED BY Capture!InitDInv, Capture!InitPInv, Capture!InitSInv, SizeAssumption, CaptureAddresses

LEMMA StepCaptureInv == CaptureInv /\ [Next]_vars => CaptureInv'
<1> SUFFICES ASSUME CaptureInv, [Next]_vars, setup' = "capture"
             PROVE  Capture!DInv' /\ Capture!PInv' /\ Capture!SInv'
  BY DEF CaptureInv
<1>1. [Capture!Next]_(Capture!vars) /\ Capture!DInv /\ Capture!PInv /\ Capture!SInv
  BY CaptureSteps DEF CaptureInv
<1>2. Capture!DInv'
  BY <1>1, Capture!StepDInv, SizeAssumption, CaptureAddresses
<1>3. Capture!PInv'
  BY <1>1, Capture!StepPInv, CaptureUser, SizeAssumption, CaptureAddresses
<1>4. Capture!SInv'
  BY <1>1, Capture!StepSInv, CaptureUser, SizeAssumption, CaptureAddresses
<1> QED BY <1>2, <1>3, <1>4

(* A write command never waits for a word that was not handed over         *)
(* (sdram_buffer_fifo.vhd 351-361).                                        *)
THEOREM DataBeforeCommandHolds == Spec => []DataBeforeCommand
<1>1. CaptureInv => DataBeforeCommand
  BY Capture!DataFirst, SizeAssumption, CaptureAddresses DEF CaptureInv, DataBeforeCommand
<1> QED BY <1>1, InitCaptureInv, StepCaptureInv, PTL DEF Spec

(* A capture goes on for POST_TRIGGER addresses after the stop trigger and *)
(* no further (sdram_buffer_fifo.vhd 29-31, 303-317).                      *)
THEOREM PostTriggerBoundHolds == Spec => []PostTriggerBound
<1>1. CaptureInv => PostTriggerBound
  BY Capture!NotPast, SizeAssumption, CaptureAddresses DEF CaptureInv, PostTriggerBound
<1> QED BY <1>1, InitCaptureInv, StepCaptureInv, PTL DEF Spec

(* Each word stored follows the one in the cell before: none is lost,      *)
(* doubled or shifted (sdram_buffer_fifo.vhd 343-374).                     *)
THEOREM StoredInOrderHolds == Spec => StoredInOrder
<1>1. ASSUME CaptureInv, [Next]_vars, setup = "capture", NEW c \in 0 .. Size - 1,
             mem'[c] # mem[c], c # Capture!Low(wr_addr_begin_reg) \div Burst
      PROVE  mem'[c] = Capture!Succ(mem[(c + Size - 1) % Size])
  <2>1. Capture!SInv
    BY <1>1 DEF CaptureInv
  <2>2. [Capture!Next]_(Capture!vars)
    BY <1>1, CaptureSteps DEF Next, captureNext, endsNext, readNext, vars
  <2> QED BY <1>1, <2>1, <2>2, Capture!StoresInOrder, CaptureUser, SizeAssumption, CaptureAddresses
<1>2. CaptureInv /\ [Next]_vars
        => (setup = "capture" => \A c \in 0 .. Size - 1 :
              mem'[c] # mem[c] /\ c # Capture!Low(wr_addr_begin_reg) \div Burst
                => mem'[c] = Capture!Succ(mem[(c + Size - 1) % Size]))
  BY <1>1
<1> QED BY <1>2, InitCaptureInv, StepCaptureInv, PTL DEF Spec, StoredInOrder

(* A read delivers each word below RD_ADDR_END once, and every answer is   *)
(* to its own command and finds room (sdram_buffer_fifo.vhd 385-433).      *)
THEOREM ReadRightHolds == Spec => []ReadRight
<1>1. Init => ReadInv
  BY Read!InitRInv, SizeAssumption, ReadAddresses DEF Init, ReadInv
<1>2. ReadInv /\ [Next]_vars => ReadInv'
  BY Read!StepRInv, ReadSteps, ReaderUser, SizeAssumption, ReadAddresses DEF ReadInv
<1>3. ReadInv => ReadRight
  BY Read!ReadsAreRight, SizeAssumption, ReadAddresses DEF ReadInv, ReadRight
<1> QED BY <1>1, <1>2, <1>3, PTL DEF Spec
=============================================================================
