------------------------- MODULE MCSdramBufferFifo -------------------------
(***************************************************************************)
(* Three uses of SdramBufferFifo for TLC, with one set of variables: a     *)
(* behaviour is that of the setup it starts with.  "capture" stores a      *)
(* stream of words that can be told apart, "ends" asks whether captures    *)
(* end, with bursts of two addresses, and "read" reads the memory back.    *)
(* The first and the last are instances of the module with the proofs, so  *)
(* that its lemmas are facts about them.                                   *)
(***************************************************************************)
EXTENDS Integers, Sequences

CONSTANTS
  Size, Burst, Words,                       \* as in SdramBufferFifo
  InDepth, OutDepth, DataDepth, CmdqDepth,
  Begins, Posts, RdEnds

ASSUME SizeAssumption ==
  /\ Size \in Nat \ {0} /\ Burst \in Nat \ {0} /\ Words \in Nat \ {0}
  /\ InDepth \in Nat \ {0} /\ OutDepth \in Nat \ {0}
  /\ DataDepth \in Nat \ {0} /\ CmdqDepth \in Nat \ {0}
ASSUME AddrAssumption ==
  Begins # {} /\ Begins \cup Posts \cup RdEnds \subseteq 0 .. 2 * (Size * Burst) - 1
(* The MIG has room for more words than commands; the PC counts addresses  *)
(* in bursts, and at least one of them after the stop trigger.             *)
ASSUME RoomAssumption == DataDepth > CmdqDepth
ASSUME BurstAssumption ==
  /\ \A p \in Posts : \E k \in 1 .. 2 * Size : p = k * Burst
  /\ \A e \in RdEnds : \E k \in 0 .. 2 * Size : e = k * Burst

VARIABLES
  setup,
  wr_start_pulse, wr_stop_pulse, rd_start_pulse,
  wr_addr_begin_reg, wr_wrap_around_reg, wr_writing, wr_stopping, wr_wrapped_i,
  trigger_pointer_reg, post_trigger_reg, rd_addr_end_reg, rd_reading,
  write_state, wr_addr_i, indata_fifo_rden, wr_wdf_wren, wr_app_en,
  read_state, rd_addr_i, rd_app_en,
  CTRL_RESET, indata, outdata, nextWord, wdf, cmdq, mem,
  APP_RD_DATA_VALID, APP_RD_DATA, got, starts

Capture == INSTANCE SdramBufferFifo_proofs WITH
  Wraps <- BOOLEAN, RdEnds <- {}, Calm <- TRUE, Stall <- FALSE, MaxStarts <- 1

Ends == INSTANCE SdramBufferFifo WITH
  Size <- 2, Burst <- 2, Words <- 1, InDepth <- 1, OutDepth <- 1, DataDepth <- 3, CmdqDepth <- 1,
  Begins <- {0}, Wraps <- BOOLEAN, Posts <- {0, 2}, RdEnds <- {},
  Calm <- TRUE, Stall <- FALSE, MaxStarts <- 1

Read == INSTANCE SdramBufferFifo_proofs WITH
  Wraps <- {FALSE}, Posts <- {}, Calm <- TRUE, Stall <- FALSE, MaxStarts <- 1

vars == <<setup, Capture!vars>>

Init ==
  \/ setup = "capture" /\ Capture!Init
  \/ setup = "ends" /\ Ends!Init
  \/ setup = "read" /\ Read!Init

captureNext == setup = "capture" /\ Capture!Next /\ UNCHANGED setup
endsNext    == setup = "ends" /\ Ends!Next /\ UNCHANGED setup
readNext    == setup = "read" /\ Read!Next /\ UNCHANGED setup
Next == captureNext \/ endsNext \/ readNext

(* The fairness of the two setups that a liveness property is about. *)
Clock(rdy, wdfRdy, serve) ==
  \/ setup = "ends" /\ Ends!Clock(rdy, wdfRdy, serve) /\ UNCHANGED setup
  \/ setup = "read" /\ Read!Clock(rdy, wdfRdy, serve) /\ UNCHANGED setup
Timed(A) == setup # "capture" /\ A /\ UNCHANGED setup

Fairness ==
  /\ WF_vars(\E w, s \in BOOLEAN : Clock(TRUE, w, s))
  /\ WF_vars(\E r, s \in BOOLEAN : Clock(r, TRUE, s))
  /\ WF_vars(\E r, w \in BOOLEAN : Clock(r, w, TRUE))
  /\ WF_vars(Timed(Read!ReleaseReset))
  /\ WF_vars(Timed(IF setup = "ends" THEN Ends!Arrive ELSE Read!Arrive))
  /\ WF_vars(Timed(Read!OutRead))

Spec == Init /\ [][Next]_vars /\ Fairness
-----------------------------------------------------------------------------
(* Each word stored follows the one in the cell before: none is lost,      *)
(* doubled or shifted (sdram_buffer_fifo.vhd 343-374).                     *)
StoredInOrder ==
  [][setup = "capture" => \A c \in 0 .. Size - 1 :
       mem'[c] # mem[c] /\ c # Capture!Low(wr_addr_begin_reg) \div Burst
         => mem'[c] = Capture!Succ(mem[(c + Size - 1) % Size])]_vars

(* A write command never waits for a word that was not handed over         *)
(* (sdram_buffer_fifo.vhd 351-361).                                        *)
DataBeforeCommand == setup = "capture" => Capture!DataBeforeCommand

(* A capture goes on for POST_TRIGGER addresses after the stop trigger and *)
(* no further (sdram_buffer_fifo.vhd 29-31, 303-317).                      *)
PostTriggerBound == setup = "capture" => Capture!PostTriggerBound

(* A stopped capture ends, unless stop triggers keep moving its end, and a *)
(* read ends (sdram_buffer_fifo.vhd 303-320).                              *)
CaptureEnds ==
  <>[](setup = "ends" => ~wr_stop_pulse) => ((setup = "ends" /\ wr_stopping) ~> ~wr_writing)
ReadEnds == (setup = "read" /\ rd_reading) ~> ~rd_reading

(* A read delivers each word below RD_ADDR_END once, and every answer is   *)
(* to its own command and finds room (sdram_buffer_fifo.vhd 385-433).      *)
ReadRight == setup = "read" => Read!ReadRight

(* Captures and reads come to their end (sdram_buffer_fifo.vhd 303-327).   *)
CaptureAndReadEnd == CaptureEnds /\ ReadEnds
=============================================================================
