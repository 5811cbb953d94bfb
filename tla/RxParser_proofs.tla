--------------------------- MODULE RxParser_proofs ---------------------------
(***************************************************************************)
(* Proofs about RxParser, for every set of frames of six words and more,   *)
(* any number of them, pauses inside a frame, and resets at any time.      *)
(***************************************************************************)
EXTENDS RxParser, TLAPS

(* Where the parser is, by the word on the bus. *)
Position ==
  /\ pos \in Nat /\ frames \in Seq(Frames)
  /\ pos > 0 => Now > 0 /\ pos <= frames[Now].words
  /\ pos = 0 => ~TVALID /\ parser_state = 0
  /\ pos = 1 => TVALID /\ ~tvalid_prev /\ parser_state = 0
  /\ pos \in 2 .. 6 => parser_state = pos - 1
  /\ pos > 6 => parser_state = 6

LEMMA InitPosition == Init => Position
<1> SUFFICES ASSUME Init PROVE Position
  OBVIOUS
<1>1. frames = <<>> /\ ~TVALID /\ pos = 0 /\ parser_state = 0
  BY Zenon DEF Init
<1> QED BY <1>1, SMT DEF Position

LEMMA LongEnough ==
  ASSUME FramesAssumption, Position, pos > 0
  PROVE  frames[Now] \in Frames /\ Now \in Nat \ {0} /\ frames[Now].words \in Nat /\ frames[Now].words >= 6
<1>1. Now \in 1 .. Len(frames) /\ Now \in Nat \ {0}
  BY SMT DEF Position, Now
<1>2. frames[Now] \in Frames
  BY <1>1, SMT DEF Position
<1> QED BY <1>1, <1>2, Zenon DEF FramesAssumption

(* What every clock does with the registers, once the words of Takes are   *)
(* known.                                                                  *)
Taken(S) == regs' = [r \in Registers |-> IF r \in S THEN Now ELSE regs[r]]

LEMMA Takings ==
  ASSUME Clock
  PROVE  /\ (parser_state = 0 /\ tstart') => Taken(Takes)
         /\ (parser_state # 0 /\ TVALID) => Taken(Takes)
         /\ (parser_state = 0 /\ ~tstart') => Taken({})
         /\ (parser_state # 0 /\ ~TVALID) => Taken({})
<1>1. regs' = [r \in Registers |-> IF r \in Takes /\ (IF parser_state = 0 THEN tstart' ELSE TVALID)
                                  THEN Now ELSE regs[r]]
  BY Zenon DEF Clock, parser_sm
<1>2. ASSUME parser_state = 0 /\ tstart' PROVE Taken(Takes)
  BY <1>1, <1>2, SMT DEF Taken
<1>3. ASSUME parser_state # 0 /\ TVALID PROVE Taken(Takes)
  BY <1>1, <1>3, SMT DEF Taken
<1>4. ASSUME parser_state = 0 /\ ~tstart' PROVE Taken({})
  BY <1>1, <1>4, SMT DEF Taken
<1>5. ASSUME parser_state # 0 /\ ~TVALID PROVE Taken({})
  BY <1>1, <1>5, SMT DEF Taken
<1> QED BY <1>2, <1>3, <1>4, <1>5

(* The five kinds of clock: no frame, its first word, a pause in it,       *)
(* another of its words, its last word.                                    *)
LEMMA Idle ==
  ASSUME Clock, Position, pos = 0
  PROVE  /\ ~TLAST /\ parser_state' = 0 /\ ~tvalid_prev' /\ ~tlast_i' /\ whole' = whole
         /\ Taken({})
         /\ \/ pos' = 0 /\ ~TVALID' /\ frames' = frames
            \/ pos' = 1 /\ TVALID' /\ \E f \in Frames : frames' = Append(frames, f)
<1>1. ~TVALID /\ parser_state = 0
  BY DEF Position
<1>2. ~TLAST
  BY <1>1 DEF TLAST
<1>3. tvalid_prev' = TVALID /\ tstart' = (TVALID /\ ~tvalid_prev) /\ tlast_i' = TLAST
      /\ whole' = (IF TLAST THEN Append(whole, Now) ELSE whole) /\ parser_state' = StepTo(AfterS5) /\ Mac
  BY Zenon DEF Clock, parser_sm
<1>4. ~tstart' /\ ~tvalid_prev' /\ ~tlast_i' /\ whole' = whole
  BY <1>1, <1>2, <1>3, Zenon
<1>5. parser_state' = 0
  BY <1>1, <1>3, <1>4, SMT DEF StepTo
<1>6. \/ pos' = 0 /\ ~TVALID' /\ frames' = frames
      \/ pos' = 1 /\ TVALID' /\ \E f \in Frames : frames' = Append(frames, f)
  BY <1>1, <1>2, <1>3 DEF Mac, mac
<1>7. Taken({})
  BY <1>1, <1>4, Takings
<1> QED BY <1>2, <1>4, <1>5, <1>6, <1>7

LEMMA FirstWord ==
  ASSUME FramesAssumption, Clock, Position, pos = 1
  PROVE  /\ ~TLAST /\ parser_state' = 1 /\ pos' = 2 /\ ~tlast_i' /\ whole' = whole /\ frames' = frames
         /\ Taken({"dst_mac", "src_mac_hi"})
<1>1. TVALID /\ ~tvalid_prev /\ parser_state = 0
  BY DEF Position
<1>2. ~TLAST
  BY LongEnough, SMT DEF TLAST
<1>3. tstart' = (TVALID /\ ~tvalid_prev) /\ tlast_i' = TLAST
      /\ whole' = (IF TLAST THEN Append(whole, Now) ELSE whole) /\ parser_state' = StepTo(AfterS5) /\ Mac
  BY Zenon DEF Clock, parser_sm
<1>4. tstart' /\ ~tlast_i' /\ whole' = whole
  BY <1>1, <1>2, <1>3, Zenon
<1>5. parser_state' = 1
  BY <1>1, <1>3, <1>4, SMT DEF StepTo
<1>6. pos' = 2 /\ frames' = frames
  BY <1>1, <1>2, <1>3, SMT DEF Mac, mac
<1>7. Takes = {"dst_mac", "src_mac_hi"}
  BY <1>1, SMT DEF Takes
<1>8. Taken({"dst_mac", "src_mac_hi"})
  BY <1>1, <1>4, <1>7, Takings
<1> QED BY <1>2, <1>4, <1>5, <1>6, <1>8

LEMMA Pause ==
  ASSUME Clock, Position, pos > 1, ~TVALID
  PROVE  /\ ~TLAST /\ parser_state' = parser_state /\ pos' = pos /\ ~tlast_i' /\ whole' = whole
         /\ frames' = frames /\ Taken({})
<1>1. parser_state \in 1 .. 6
  BY SMT DEF Position
<1>2. ~TLAST
  BY DEF TLAST
<1>3. tlast_i' = TLAST
      /\ whole' = (IF TLAST THEN Append(whole, Now) ELSE whole) /\ parser_state' = StepTo(AfterS5) /\ Mac
  BY Zenon DEF Clock, parser_sm
<1>4. ~tlast_i' /\ whole' = whole
  BY <1>2, <1>3, Zenon
<1>5. parser_state' = parser_state
  BY <1>1, <1>2, <1>3, SMT DEF StepTo
<1>6. pos' = pos /\ frames' = frames
  <2>1. pos # 0
    BY SMT DEF Position
  <2> QED BY <1>2, <1>3, <2>1, Zenon DEF Mac
<1>7. Taken({})
  BY <1>1, Takings, SMT
<1> QED BY <1>2, <1>4, <1>5, <1>6, <1>7

LEMMA InnerWord ==
  ASSUME FramesAssumption, Clock, Position, pos > 1, TVALID, ~TLAST
  PROVE  /\ parser_state' = (IF parser_state = 6 THEN 6 ELSE parser_state + 1)
         /\ pos' = pos + 1 /\ pos + 1 <= frames[Now].words /\ ~tlast_i' /\ whole' = whole
         /\ frames' = frames /\ Taken(Takes)
<1>1. parser_state \in 1 .. 6
  BY SMT DEF Position
<1>3. tlast_i' = TLAST
      /\ whole' = (IF TLAST THEN Append(whole, Now) ELSE whole) /\ parser_state' = StepTo(AfterS5) /\ Mac
  BY Zenon DEF Clock, parser_sm
<1>4. ~tlast_i' /\ whole' = whole
  BY <1>3, Zenon
<1>5. parser_state' = (IF parser_state = 6 THEN 6 ELSE parser_state + 1)
  BY <1>1, <1>3, SMT DEF StepTo, AfterS5
<1>6. pos' = pos + 1 /\ frames' = frames
  <2>1. pos # 0
    BY SMT DEF Position
  <2> QED BY <1>3, <2>1, Zenon DEF Mac
<1>7. pos + 1 <= frames[Now].words
  BY LongEnough, SMT DEF TLAST, Position
<1>8. Taken(Takes)
  BY <1>1, Takings, SMT
<1> QED BY <1>4, <1>5, <1>6, <1>7, <1>8

LEMMA LastWord ==
  ASSUME FramesAssumption, Clock, Position, pos > 1, TLAST
  PROVE  /\ pos >= 6 /\ parser_state \in {5, 6} /\ parser_state' = 0
         /\ pos' = 0 /\ ~TVALID' /\ whole' = Append(whole, Now)
         /\ frames' = frames /\ Taken(Takes)
<1>1. pos >= 6 /\ TVALID
  BY LongEnough, SMT DEF TLAST, Position
<1>2. parser_state \in {5, 6}
  BY <1>1, SMT DEF Position
<1>3. /\ whole' = (IF TLAST THEN Append(whole, Now) ELSE whole)
      /\ parser_state' = StepTo(AfterS5) /\ Mac
  BY Zenon DEF Clock, parser_sm
<1>4. whole' = Append(whole, Now)
  BY <1>3, Zenon
<1>5. parser_state' = 0
  BY <1>1, <1>2, <1>3, SMT DEF StepTo, AfterS5
<1>6. pos' = 0 /\ ~TVALID' /\ frames' = frames
  <2>1. pos # 0
    BY SMT
  <2> QED BY <1>1, <1>3, <2>1, Zenon DEF Mac
<1>7. Taken(Takes)
  BY <1>1, <1>2, Takings, SMT
<1> QED BY <1>1, <1>2, <1>4, <1>5, <1>6, <1>7

LEMMA ClockPosition ==
  ASSUME FramesAssumption, Clock, Position
  PROVE  Position'
<1>1. CASE pos = 0
  <2>1. CASE pos' = 0 /\ ~TVALID' /\ frames' = frames
    BY <1>1, <2>1, Idle, SMT DEF Position, Now
  <2>2. CASE pos' = 1 /\ TVALID' /\ \E f \in Frames : frames' = Append(frames, f)
    <3>1. PICK f \in Frames : frames' = Append(frames, f)
      BY <2>2
    <3>2. frames \in Seq(Frames)
      BY DEF Position
    <3>3. frames' \in Seq(Frames) /\ Now' = Now + 1 /\ Now \in Nat /\ frames'[Now'] = f
      BY <3>1, <3>2, SMT DEF Now
    <3>4. f.words \in Nat /\ f.words >= 6
      BY Zenon DEF FramesAssumption
    <3> QED BY <1>1, <2>2, <3>3, <3>4, Idle, SMT DEF Position
  <2> QED BY <1>1, <2>1, <2>2, Idle
<1>2. CASE pos = 1
  <2>1. Now' = Now /\ frames' = frames /\ pos' = 2 /\ parser_state' = 1
    BY <1>2, FirstWord DEF Now
  <2> QED BY <1>2, <2>1, LongEnough, SMT DEF Position
<1>3. CASE pos > 1 /\ ~TVALID
  <2>1. Now' = Now /\ frames' = frames /\ pos' = pos /\ parser_state' = parser_state
    BY <1>3, Pause DEF Now
  <2> QED BY <1>3, <2>1, SMT DEF Position
<1>4. CASE pos > 1 /\ TVALID /\ ~TLAST
  <2>1. /\ Now' = Now /\ frames' = frames /\ pos' = pos + 1 /\ pos + 1 <= frames[Now].words
        /\ parser_state' = (IF parser_state = 6 THEN 6 ELSE parser_state + 1)
    BY <1>4, InnerWord DEF Now
  <2> QED BY <1>4, <2>1, SMT DEF Position
<1>5. CASE pos > 1 /\ TLAST
  <2>1. frames' = frames /\ pos' = 0 /\ parser_state' = 0 /\ ~TVALID'
    BY <1>5, LastWord
  <2> QED BY <2>1, SMT DEF Position
<1> QED BY <1>1, <1>2, <1>3, <1>4, <1>5, SMT DEF Position

LEMMA StepPosition ==
  ASSUME FramesAssumption, [Next]_vars, Position
  PROVE  Position'
<1>1. CASE Clock
  BY <1>1, ClockPosition
<1>2. CASE Reset
  <2>1. parser_state' = 0 /\ ~TVALID' /\ pos' = 0 /\ frames' = frames
    BY <1>2, Zenon DEF Reset
  <2> QED BY <2>1, SMT DEF Position
<1>3. CASE UNCHANGED vars
  BY <1>3 DEF vars, mac, parser, Position, Now
<1> QED BY <1>1, <1>2, <1>3 DEF Next

(* The state of the parser is the word it is about to take, through pauses *)
(* and resets (ten_gig_eth_rx_parser.vhd 135-242).                         *)
THEOREM InStepHolds == ASSUME FramesAssumption PROVE Spec => []InStep
<1>1. Init => Position
  BY InitPosition
<1>2. Position /\ [Next]_vars => Position'
  BY StepPosition
<1>3. Position => InStep
  BY SMT DEF Position, InStep
<1> QED BY <1>1, <1>2, <1>3, PTL DEF Spec
------------------------------------------------------------------------------
(* The registers R hold what the first k words of frame n of F say.        *)
FromFrame(F, R, k, n) ==
  LET arp == F[n].type = "ARP" IN
  /\ k >= 1 => R["dst_mac"] = n /\ R["src_mac_hi"] = n
  /\ k >= 2 => R["src_mac_lo"] = n /\ R["pktType"] = n
  /\ k >= 3 => R["opcode"] = n /\ R["protocol"] = n
  /\ k >= 4 => R["src_ip"] = n /\ (~arp => R["dst_ip_hi"] = n)
  /\ k >= 5 => /\ arp => R["dst_ip_hi"] = n
               /\ ~arp => R["dst_ip_lo"] = n /\ R["src_port"] = n /\ R["dst_port"] = n
  /\ k >= 6 => /\ arp => R["dst_ip_lo"] = n
               /\ ~arp => R["udp_cmd"] = n

Fields ==
  /\ regs \in [Registers -> 0 .. Now]
  /\ pos = 1 => \A r \in Registers : regs[r] < Now
  /\ pos > 0 => FromFrame(frames, regs, pos - 1, Now)

LEMMA Each ==
  ASSUME NEW S, Taken(S)
  PROVE  \A r \in Registers : regs'[r] = IF r \in S THEN Now ELSE regs[r]
  BY SMT DEF Taken

LEMMA TakenType ==
  ASSUME Position, Fields, NEW S, Taken(S)
  PROVE  regs' \in [Registers -> 0 .. Now]
<1>1. Now \in Nat
  BY SMT DEF Position, Now
<1> QED BY <1>1, SMT DEF Taken, Fields

(* One more word of a frame that is an ARP frame, or is not. *)
LEMMA Advance ==
  ASSUME FramesAssumption, Position, Fields, pos > 1, Taken(Takes)
  PROVE  FromFrame(frames, regs', pos, Now)
<1>1. FromFrame(frames, regs, pos - 1, Now) /\ pos \in Nat /\ Now # 0
  BY LongEnough, SMT DEF Fields, Position
<1>2. \A r \in Registers : regs'[r] = IF r \in Takes THEN Now ELSE regs[r]
  BY Each
<1>3. CASE pos = 2
  <2>1. Takes = {"src_mac_lo", "pktType"}
    BY <1>3, SMT DEF Takes, Position
  <2> QED BY <1>1, <1>2, <1>3, <2>1, SMT DEF FromFrame, Registers
<1>4. CASE pos = 3
  <2>1. Takes = {"opcode", "protocol"}
    BY <1>4, SMT DEF Takes, Position
  <2> QED BY <1>1, <1>2, <1>4, <2>1, SMT DEF FromFrame, Registers
<1>5. CASE pos > 3
  <2>1. Type("pktType") = frames[Now].type
    BY <1>1, <1>5, SMT DEF FromFrame, Type
  <2>2. CASE pos = 4
    <3>1. Takes = IF frames[Now].type = "ARP" THEN {"src_ip"} ELSE {"src_ip", "dst_ip_hi"}
      BY <2>1, <2>2, SMT DEF Takes, Position
    <3> QED BY <1>1, <1>2, <2>2, <3>1, SMT DEF FromFrame, Registers
  <2>3. CASE pos = 5
    <3>1. Takes = IF frames[Now].type = "ARP" THEN {"dst_ip_hi"} ELSE {"dst_ip_lo", "src_port", "dst_port"}
      BY <2>1, <2>3, SMT DEF Takes, Position
    <3> QED BY <1>1, <1>2, <2>3, <3>1, SMT DEF FromFrame, Registers
  <2>4. CASE pos = 6
    <3>1. Takes = IF frames[Now].type = "ARP" THEN {"dst_ip_lo"} ELSE {"udp_cmd"}
      BY <2>1, <2>4, SMT DEF Takes, Position
    <3> QED BY <1>1, <1>2, <2>4, <3>1, SMT DEF FromFrame, Registers
  <2>5. CASE pos > 6
    <3>1. Takes = {}
      BY <2>1, <2>5, SMT DEF Takes, Position
    <3> QED BY <1>1, <1>2, <2>5, <3>1, SMT DEF FromFrame, Registers
  <2> QED BY <1>1, <1>5, <2>2, <2>3, <2>4, <2>5, SMT
<1> QED BY <1>1, <1>3, <1>4, <1>5, SMT

(* Fields, clock by clock. *)
LEMMA ClockFields ==
  ASSUME FramesAssumption, Clock, Position, Fields
  PROVE  Fields'
<1>1. Now \in Nat /\ regs \in [Registers -> 0 .. Now]
  BY SMT DEF Position, Fields, Now
<1>2. CASE pos = 0
  <2>1. regs' = regs
    BY <1>1, <1>2, Idle, SMT DEF Taken
  <2>2. CASE pos' = 0 /\ ~TVALID' /\ frames' = frames
    BY <1>1, <2>1, <2>2, SMT DEF Fields, Now
  <2>3. CASE pos' = 1 /\ TVALID' /\ \E f \in Frames : frames' = Append(frames, f)
    <3>1. Now' = Now + 1
      BY <2>3, SMT DEF Position, Now
    <3> QED BY <1>1, <2>1, <2>3, <3>1, SMT DEF Fields, FromFrame
  <2> QED BY <1>2, <2>2, <2>3, Idle
<1>3. CASE pos = 1
  <2>1. Now' = Now /\ pos' = 2 /\ frames' = frames /\ Taken({"dst_mac", "src_mac_hi"})
    BY <1>3, FirstWord DEF Now
  <2>2. regs' \in [Registers -> 0 .. Now]
    BY <2>1, TakenType
  <2>3. regs'["dst_mac"] = Now /\ regs'["src_mac_hi"] = Now
    BY <2>1, Each, SMT DEF Registers
  <2> QED BY <2>1, <2>2, <2>3, SMT DEF Fields, FromFrame
<1>4. CASE pos > 1 /\ ~TVALID
  <2>1. Now' = Now /\ pos' = pos /\ frames' = frames /\ Taken({})
    BY <1>4, Pause DEF Now
  <2>2. regs' = regs
    BY <1>1, <2>1, SMT DEF Taken
  <2> QED BY <2>1, <2>2, SMT DEF Fields, FromFrame
<1>5. CASE pos > 1 /\ TVALID /\ ~TLAST
  <2>1. Now' = Now /\ pos' = pos + 1 /\ frames' = frames /\ Taken(Takes)
    BY <1>5, InnerWord DEF Now
  <2>2. regs' \in [Registers -> 0 .. Now] /\ FromFrame(frames, regs', pos, Now)
    BY <1>5, <2>1, TakenType, Advance
  <2> QED BY <1>5, <2>1, <2>2, SMT DEF Fields, FromFrame, Position
<1>6. CASE pos > 1 /\ TLAST
  <2>1. Now' = Now /\ pos' = 0 /\ frames' = frames /\ Taken(Takes)
    BY <1>6, LastWord DEF Now
  <2>2. regs' \in [Registers -> 0 .. Now]
    BY <2>1, TakenType
  <2> QED BY <2>1, <2>2, SMT DEF Fields
<1> QED BY <1>2, <1>3, <1>4, <1>5, <1>6, SMT DEF Position

(* After its last word a frame is in the registers, and stays there for    *)
(* the two clocks that cmd_sm takes, in the second of which the next frame *)
(* may be on the bus already.                                              *)
Ready(F, R, W, n) ==
  /\ n \in 1 .. Len(F) /\ n \in Range(W)
  /\ FromFrame(F, R, 6, n) /\ \A r \in Registers : R[r] <= n
Waiting(F, R, W, n) == R["pktType"] = 0 \/ Ready(F, R, W, n)
Pending ==
  /\ tlast_i => pos = 0 /\ Waiting(frames, regs, whole, Now)
  /\ cmd_state = 1 => \/ pos = 0 /\ Waiting(frames, regs, whole, Now)
                      \/ pos = 1 /\ Waiting(frames, regs, whole, Now - 1)

Commands == [Source -> Nat] \cup [Source \cup {"udp_cmd"} -> Nat]
Numbers == /\ whole \in Seq(Nat) /\ Range(whole) \subseteq 1 .. Now
           /\ cmds \in Seq(Commands)

LEMMA RangeAppend ==
  ASSUME NEW S, NEW q \in Seq(S), NEW x \in S
  PROVE  Append(q, x) \in Seq(S) /\ Range(Append(q, x)) = Range(q) \cup {x}
<1>1. /\ Append(q, x) \in Seq(S) /\ DOMAIN Append(q, x) = 1 .. Len(q) + 1 /\ DOMAIN q = 1 .. Len(q)
      /\ Len(q) \in Nat /\ \A i \in 1 .. Len(q) : Append(q, x)[i] = q[i]
      /\ Append(q, x)[Len(q) + 1] = x
  BY SMT
<1>2. ASSUME NEW y \in Range(Append(q, x)) PROVE y \in Range(q) \cup {x}
  BY <1>1, SMT DEF Range
<1>3. ASSUME NEW y \in Range(q) \cup {x} PROVE y \in Range(Append(q, x))
  <2>1. CASE y = x
    BY <1>1, <2>1, SMT DEF Range
  <2>2. CASE y \in Range(q)
    <3>1. PICK i \in 1 .. Len(q) : y = q[i]
      BY <1>1, <2>2, SMT DEF Range
    <3>2. i \in DOMAIN Append(q, x) /\ Append(q, x)[i] = y
      BY <1>1, <3>1, SMT
    <3> QED BY <3>2, Zenon DEF Range
  <2> QED BY <1>3, <2>1, <2>2
<1> QED BY <1>1, <1>2, <1>3, Zenon

(* A frame that begins changes nothing of those that were there. *)
LEMMA Kept ==
  ASSUME Position, frames' = frames \/ \E f \in Frames : frames' = Append(frames, f)
  PROVE  /\ Now \in Nat /\ Now' \in {Now, Now + 1}
         /\ \A n \in 1 .. Now : frames'[n] = frames[n]
<1>1. CASE frames' = frames
  BY <1>1, SMT DEF Position, Now
<1>2. CASE \E f \in Frames : frames' = Append(frames, f)
  BY <1>2, SMT DEF Position, Now
<1> QED BY <1>1, <1>2

LEMMA ClockFrames ==
  ASSUME FramesAssumption, Clock, Position
  PROVE  /\ frames' = frames \/ \E f \in Frames : frames' = Append(frames, f)
         /\ whole' = whole \/ (pos > 0 /\ whole' = Append(whole, Now))
<1>1. frames' = frames \/ \E f \in Frames : frames' = Append(frames, f)
  BY Idle, FirstWord, Pause, InnerWord, LastWord, SMT DEF Position
<1>2. whole' = whole \/ (pos > 0 /\ whole' = Append(whole, Now))
  BY Idle, FirstWord, Pause, InnerWord, LastWord, SMT DEF Position
<1> QED BY <1>1, <1>2

LEMMA WaitingKept ==
  ASSUME Position, frames' = frames \/ \E f \in Frames : frames' = Append(frames, f),
         NEW n, Waiting(frames, regs, whole, n)
  PROVE  Waiting(frames', regs, whole, n)
<1>1. CASE regs["pktType"] = 0
  BY <1>1 DEF Waiting
<1>2. CASE Ready(frames, regs, whole, n)
  <2>1. n \in 1 .. Len(frames') /\ frames'[n] = frames[n]
    BY <1>2, Kept, SMT DEF Ready, Now
  <2>2. FromFrame(frames', regs, 6, n)
    BY <1>2, <2>1, SMT DEF Ready, FromFrame
  <2> QED BY <1>2, <2>1, <2>2, Zenon DEF Waiting, Ready
<1> QED BY <1>1, <1>2 DEF Waiting

(* The registers and the history keep a frame until cmd_sm has seen it. *)
LEMMA ClockPending ==
  ASSUME FramesAssumption, Clock, Position, Fields, Numbers, Pending
  PROVE  Pending'
<1>1. cmd_state' = (IF cmd_state = 0 /\ tlast_i THEN 1 ELSE 0) /\ tlast_i' = TLAST
  BY Zenon DEF Clock, cmd_sm, parser_sm
<1>2. ASSUME tlast_i' PROVE pos' = 0 /\ Waiting(frames', regs', whole', Now')
  <2>1. pos \in Nat /\ pos > 0 /\ pos > 1 /\ TLAST
    BY <1>1, <1>2, Idle, FirstWord, SMT DEF Position
  <2>2. /\ Now' = Now /\ frames' = frames /\ pos' = 0 /\ pos >= 6 /\ Taken(Takes)
        /\ whole' = Append(whole, Now)
    BY <2>1, LastWord DEF Now
  <2>3. Now \in 1 .. Now /\ Now \in Nat
    BY <2>1, LongEnough, SMT
  <2>4. FromFrame(frames, regs', pos, Now) /\ regs' \in [Registers -> 0 .. Now]
    BY <2>1, <2>2, Advance, TakenType
  <2>5. FromFrame(frames, regs', 6, Now)
    BY <2>1, <2>2, <2>4, SMT DEF FromFrame
  <2>6. Now \in Range(whole')
    BY <2>2, <2>3, RangeAppend DEF Numbers
  <2>7. \A r \in Registers : regs'[r] <= Now
    BY <2>3, <2>4, SMT
  <2>8. Ready(frames, regs', whole', Now)
    BY <2>3, <2>5, <2>6, <2>7, Zenon DEF Ready, Now
  <2> QED BY <2>2, <2>8, Zenon DEF Waiting
<1>3. ASSUME cmd_state' = 1
      PROVE  \/ pos' = 0 /\ Waiting(frames', regs', whole', Now')
             \/ pos' = 1 /\ Waiting(frames', regs', whole', Now' - 1)
  <2>1. pos = 0 /\ Waiting(frames, regs, whole, Now)
    BY <1>1, <1>3, SMT DEF Pending
  <2>2. regs' = regs /\ whole' = whole
    BY <2>1, Idle, SMT DEF Taken, Fields
  <2>3. Waiting(frames', regs, whole, Now)
    BY <2>1, ClockFrames, WaitingKept
  <2>4. CASE pos' = 0 /\ ~TVALID' /\ frames' = frames
    <3>1. Now' = Now
      BY <2>4 DEF Now
    <3> QED BY <2>2, <2>3, <2>4, <3>1, Zenon
  <2>5. CASE pos' = 1 /\ TVALID' /\ \E f \in Frames : frames' = Append(frames, f)
    <3>1. Now' - 1 = Now
      BY <2>5, SMT DEF Position, Now
    <3> QED BY <2>2, <2>3, <2>5, <3>1, Zenon
  <2> QED BY <2>1, <2>4, <2>5, Idle
<1> QED BY <1>2, <1>3, Zenon DEF Pending

(* A command and the frame it is made of. *)
Made(F, W, c) ==
  LET n == c["src_ip"] IN
  /\ n \in Range(W) /\ ForUs(F[n])
  /\ \A r \in DOMAIN c \ {"src_port"} : c[r] = n
  /\ c["src_port"] = n \/ (F[n].type = "ARP" /\ c["src_port"] < n)
  /\ ("udp_cmd" \in DOMAIN c) <=> (F[n].type = "IP")

LEMMA MadeHere ==
  ASSUME FramesAssumption, Position, Fields, NEW n, Ready(frames, regs, whole, n)
  PROVE  /\ ArpRequest => Made(frames, whole, [r \in Source |-> regs[r]])
         /\ ~ArpRequest /\ UdpPacket => Made(frames, whole, [r \in Source \cup {"udp_cmd"} |-> regs[r]])
<1>1. /\ n \in 1 .. Now /\ n # 0 /\ n \in Nat /\ n \in Range(whole) /\ FromFrame(frames, regs, 6, n)
      /\ \A r \in Registers : regs[r] <= n /\ regs[r] \in Nat
  BY SMT DEF Ready, Position, Fields, Now
<1>2. Type("pktType") = frames[n].type /\ regs["src_ip"] = n
  BY <1>1, SMT DEF FromFrame, Type
<1>3. ASSUME ArpRequest PROVE Made(frames, whole, [r \in Source |-> regs[r]])
  <2>1. frames[n].type = "ARP"
    BY <1>2, <1>3 DEF ArpRequest
  <2>2. regs["dst_ip_hi"] = n /\ regs["dst_ip_lo"] = n /\ regs["opcode"] = n
        /\ regs["src_mac_hi"] = n /\ regs["src_mac_lo"] = n
    BY <1>1, <2>1, SMT DEF FromFrame
  <2>3. frames[n].op = "REQ" /\ frames[n].ip
    BY <1>1, <1>3, <2>2, SMT DEF ArpRequest, IsReq, Mine
  <2>4. regs["src_port"] = n \/ regs["src_port"] < n
    BY <1>1, SMT DEF Registers
  <2> QED BY <1>1, <1>2, <2>1, <2>2, <2>3, <2>4, SMT DEF Made, Source, ForUs
<1>4. ASSUME ~ArpRequest, UdpPacket PROVE Made(frames, whole, [r \in Source \cup {"udp_cmd"} |-> regs[r]])
  <2>1. frames[n].type = "IP"
    BY <1>2, <1>4 DEF UdpPacket
  <2>2. /\ regs["dst_ip_hi"] = n /\ regs["dst_ip_lo"] = n /\ regs["protocol"] = n /\ regs["dst_mac"] = n
        /\ regs["dst_port"] = n /\ regs["src_mac_hi"] = n /\ regs["src_mac_lo"] = n
        /\ regs["src_port"] = n /\ regs["udp_cmd"] = n
    BY <1>1, <2>1, SMT DEF FromFrame
  <2>3. frames[n].proto = "UDP" /\ frames[n].mac /\ frames[n].ip /\ frames[n].port
    BY <1>1, <1>4, <2>2, SMT DEF UdpPacket, IsUdp, Mine
  <2> QED BY <1>1, <1>2, <2>1, <2>2, <2>3, SMT DEF Made, Source, ForUs
<1> QED BY <1>3, <1>4

(* A command stays right when a frame begins or ends. *)
LEMMA MadeKept ==
  ASSUME FramesAssumption, Clock, Position, Numbers, NEW c, Made(frames, whole, c)
  PROVE  Made(frames', whole', c)
<1> DEFINE n == c["src_ip"]
<1>1. n \in Range(whole) /\ n \in 1 .. Now
  BY DEF Made, Numbers
<1>2. frames'[n] = frames[n]
  BY <1>1, ClockFrames, Kept
<1>3. n \in Range(whole')
  <2>1. CASE whole' = whole
    BY <1>1, <2>1
  <2>2. CASE pos > 0 /\ whole' = Append(whole, Now)
    BY <1>1, <2>2, LongEnough, RangeAppend, SMTT(30) DEF Numbers
  <2> QED BY <2>1, <2>2, ClockFrames
<1> QED BY <1>2, <1>3, Zenon DEF Made

AllMade == \A c \in Range(cmds) : Made(frames, whole, c)

(* A clock that writes a command, and one that does not. *)
LEMMA ClockCommands ==
  ASSUME FramesAssumption, Clock, Position, Fields, Numbers, Pending, AllMade
  PROVE  cmds' \in Seq(Commands) /\ AllMade'
<1>1. cmds' = CASE cmd_state = 1 /\ ArpRequest -> Append(cmds, [r \in Source |-> regs[r]])
               [] cmd_state = 1 /\ ~ArpRequest /\ UdpPacket ->
                    Append(cmds, [r \in Source \cup {"udp_cmd"} |-> regs[r]])
               [] OTHER -> cmds
  BY Zenon DEF Clock, cmd_sm
<1>2. Now \in Nat /\ regs \in [Registers -> Nat] /\ cmds \in Seq(Commands)
  BY SMT DEF Position, Fields, Numbers, Now
<1>3. ASSUME cmd_state = 1, ArpRequest \/ UdpPacket
      PROVE  \E n : Ready(frames, regs, whole, n)
  <2>1. regs["pktType"] # 0
    BY <1>3, SMT DEF ArpRequest, UdpPacket, Type
  <2> QED BY <1>3, <2>1 DEF Pending, Waiting
<1>4. CASE cmd_state = 1 /\ ArpRequest
  <2> DEFINE c == [r \in Source |-> regs[r]]
  <2>1. cmds' = Append(cmds, c)
    BY <1>1, <1>4, SMT
  <2>2. c \in Commands
    BY <1>2, SMT DEF Commands, Source, Registers
  <2>3. Made(frames, whole, c)
    BY <1>3, <1>4, MadeHere
  <2> HIDE DEF c
  <2>4. cmds' \in Seq(Commands) /\ Range(cmds') = Range(cmds) \cup {c}
    BY <1>2, <2>1, <2>2, RangeAppend
  <2>5. \A x \in Range(cmds') : Made(frames, whole, x)
    BY <2>3, <2>4, Zenon DEF AllMade
  <2> QED BY <2>4, <2>5, MadeKept DEF AllMade
<1>5. CASE cmd_state = 1 /\ ~ArpRequest /\ UdpPacket
  <2> DEFINE c == [r \in Source \cup {"udp_cmd"} |-> regs[r]]
  <2>1. cmds' = Append(cmds, c)
    BY <1>1, <1>5, SMT
  <2>2. c \in Commands
    BY <1>2, SMT DEF Commands, Source, Registers
  <2>3. Made(frames, whole, c)
    BY <1>3, <1>5, MadeHere
  <2> HIDE DEF c
  <2>4. cmds' \in Seq(Commands) /\ Range(cmds') = Range(cmds) \cup {c}
    BY <1>2, <2>1, <2>2, RangeAppend
  <2>5. \A x \in Range(cmds') : Made(frames, whole, x)
    BY <2>3, <2>4, Zenon DEF AllMade
  <2> QED BY <2>4, <2>5, MadeKept DEF AllMade
<1>6. CASE ~(cmd_state = 1 /\ (ArpRequest \/ UdpPacket))
  <2>1. cmds' = cmds
    BY <1>1, <1>6, SMT
  <2> QED BY <1>2, <2>1, MadeKept DEF AllMade
<1> QED BY <1>4, <1>5, <1>6

LEMMA ClockNumbers ==
  ASSUME FramesAssumption, Clock, Position, Fields, Numbers, Pending, AllMade
  PROVE  Numbers'
<1>1. cmds' \in Seq(Commands)
  BY ClockCommands
<1>2. Now \in Nat /\ Now' \in Nat /\ Now <= Now'
  BY ClockFrames, Kept, SMT
<1>3. CASE whole' = whole
  BY <1>1, <1>2, <1>3, SMT DEF Numbers
<1>4. CASE pos > 0 /\ whole' = Append(whole, Now)
  <2>1. Now \in 1 .. Now
    BY <1>4, LongEnough, SMT
  <2>2. whole' \in Seq(Nat) /\ Range(whole') = Range(whole) \cup {Now}
    BY <1>2, <1>4, RangeAppend DEF Numbers
  <2> QED BY <1>1, <1>2, <2>1, <2>2, SMT DEF Numbers
<1> QED BY <1>3, <1>4, ClockFrames

IInv == Position /\ Fields /\ Numbers /\ Pending /\ AllMade

LEMMA NoneInEmpty == <<>> \in Seq(Nat) /\ <<>> \in Seq(Commands) /\ Range(<<>>) = {}
<1>1. DOMAIN <<>> = {}
  BY SMT
<1>2. Range(<<>>) = {}
  BY <1>1, Zenon DEF Range
<1> QED BY <1>2, SMT

LEMMA InitIInv == Init => IInv
<1> SUFFICES ASSUME Init PROVE IInv
  OBVIOUS
<1>1. frames = <<>> /\ pos = 0 /\ ~tlast_i /\ regs = [r \in Registers |-> 0] /\ cmd_state = 0
      /\ cmds = <<>> /\ whole = <<>>
  BY Zenon DEF Init
<1>2. Now = 0
  BY <1>1, SMT DEF Now
<1>3. Fields /\ Pending
  BY <1>1, <1>2, SMT DEF Fields, Pending
<1>4. Numbers /\ AllMade
  BY <1>1, NoneInEmpty, Zenon DEF Numbers, AllMade
<1> QED BY <1>3, <1>4, InitPosition DEF IInv

LEMMA StepIInv ==
  ASSUME FramesAssumption, [Next]_vars, IInv
  PROVE  IInv'
<1>1. Position'
  BY StepPosition DEF IInv
<1>2. CASE Clock
  BY <1>1, <1>2, ClockFields, ClockNumbers, ClockPending, ClockCommands DEF IInv
<1>3. CASE Reset
  <2>1. /\ regs' = [r \in Registers |-> 0] /\ cmd_state' = 0 /\ pos' = 0 /\ cmds' = <<>> /\ whole' = <<>>
        /\ frames' = frames /\ tlast_i' = tlast_i
    BY <1>3, Zenon DEF Reset
  <2>2. Now' = Now /\ Now \in Nat
    BY <2>1, SMT DEF Now, IInv, Position
  <2>3. Fields'
    BY <2>1, <2>2, SMT DEF Fields
  <2>4. regs'["pktType"] = 0
    BY <2>1, SMT DEF Registers
  <2>5. Pending'
    BY <2>1, <2>4, SMT DEF Pending, Waiting
  <2>6. Numbers' /\ AllMade'
    BY <2>1, NoneInEmpty, Zenon DEF Numbers, AllMade
  <2> QED BY <1>1, <2>3, <2>5, <2>6 DEF IInv
<1>4. CASE UNCHANGED vars
  <2>1. /\ regs' = regs /\ cmd_state' = cmd_state /\ pos' = pos /\ cmds' = cmds /\ whole' = whole
        /\ frames' = frames /\ tlast_i' = tlast_i /\ Now' = Now
    BY <1>4 DEF vars, mac, parser, Now
  <2> QED BY <1>1, <2>1 DEF IInv, Fields, Numbers, Pending, AllMade
<1> QED BY <1>2, <1>3, <1>4 DEF Next

(* A command is made of the fields of one frame, whole and for this board, *)
(* but for the port of an ARP command (ten_gig_eth_rx_parser.vhd 135-273). *)
THEOREM CommandFromOneFrameHolds ==
  ASSUME FramesAssumption PROVE Spec => []CommandFromOneFrame
<1>1. Init => IInv
  BY InitIInv
<1>2. IInv /\ [Next]_vars => IInv'
  BY StepIInv
<1>3. IInv => CommandFromOneFrame
  BY Zenon DEF IInv, AllMade, Made, CommandFromOneFrame
<1> QED BY <1>1, <1>2, <1>3, PTL DEF Spec
------------------------------------------------------------------------------
(* The frame for which cmd_sm still has to make a command, if it is one    *)
(* for this board.                                                         *)
Awaited == IF tlast_i \/ (cmd_state = 1 /\ pos = 0) THEN {Now} ELSE IF cmd_state = 1 THEN {Now - 1} ELSE {}
Asked   == {n \in Range(whole) : ForUs(frames[n])}
Answers == {c["src_ip"] : c \in Range(cmds)}

Answered == Answers = Asked \ Awaited
InOrder  == \A i, k \in DOMAIN cmds : i < k => cmds[i]["src_ip"] < cmds[k]["src_ip"]
NotYet   == pos > 0 => Now \notin Range(whole)
Fresh    == regs["pktType"] = 0 => whole = <<>>
OneFrame == cmd_state \in {0, 1} /\ (cmd_state = 1 => ~tlast_i)

AInv == IInv /\ Answered /\ InOrder /\ NotYet /\ Fresh /\ OneFrame

(* A command appended with the highest number keeps the order. *)
LEMMA AnswersAppend ==
  ASSUME cmds \in Seq(Commands), NEW c \in Commands, cmds' = Append(cmds, c), InOrder,
         \A n \in Answers : n < c["src_ip"]
  PROVE  Answers' = Answers \cup {c["src_ip"]} /\ InOrder'
<1>1. Range(cmds') = Range(cmds) \cup {c}
  BY RangeAppend
<1>2. Answers' = Answers \cup {c["src_ip"]}
  BY <1>1 DEF Answers
<1>3. /\ DOMAIN cmds' = 1 .. Len(cmds) + 1 /\ DOMAIN cmds = 1 .. Len(cmds) /\ Len(cmds) \in Nat
      /\ \A i \in 1 .. Len(cmds) : cmds'[i] = cmds[i]
      /\ cmds'[Len(cmds) + 1] = c
  BY SMT
<1>4. ASSUME NEW i \in DOMAIN cmds', NEW k \in DOMAIN cmds', i < k
      PROVE  cmds'[i]["src_ip"] < cmds'[k]["src_ip"]
  <2>1. i \in 1 .. Len(cmds) /\ cmds'[i] = cmds[i]
    BY <1>3, <1>4, SMT
  <2>2. cmds[i]["src_ip"] \in Answers
    BY <1>3, <2>1, Zenon DEF Answers, Range
  <2>3. CASE k = Len(cmds) + 1
    BY <1>3, <2>1, <2>2, <2>3
  <2>4. CASE k \in 1 .. Len(cmds)
    BY <1>3, <1>4, <2>1, <2>4 DEF InOrder
  <2> QED BY <1>3, <2>3, <2>4, SMT
<1> QED BY <1>2, <1>4 DEF InOrder

LEMMA Same == ASSUME cmds' = cmds PROVE Answers' = Answers /\ (InOrder => InOrder')
  BY DEF Answers, InOrder

(* Frames that were whole are asked for as before when another begins. *)
LEMMA AskedKept ==
  ASSUME FramesAssumption, Clock, Position, Numbers, whole' = whole
  PROVE  Asked' = Asked
<1>1. \A n \in Range(whole) : frames'[n] = frames[n]
  BY ClockFrames, Kept DEF Numbers
<1> QED BY <1>1 DEF Asked, ForUs

(* The second clock of cmd_sm: a command if and only if the frame is for   *)
(* this board.                                                             *)
LEMMA MadeIfForUs ==
  ASSUME Position, Fields, NEW n, Ready(frames, regs, whole, n)
  PROVE  (ArpRequest \/ UdpPacket) <=> ForUs(frames[n])
<1>1. n \in Nat /\ n # 0 /\ FromFrame(frames, regs, 6, n)
  BY SMT DEF Ready, Position
<1>2. Type("pktType") = frames[n].type
  BY <1>1, SMT DEF FromFrame, Type
<1>3. CASE frames[n].type = "ARP"
  <2>1. regs["dst_ip_hi"] = n /\ regs["dst_ip_lo"] = n /\ regs["opcode"] = n
    BY <1>1, <1>3, SMT DEF FromFrame
  <2>2. ArpRequest <=> frames[n].op = "REQ" /\ frames[n].ip
    BY <1>1, <1>2, <1>3, <2>1, SMT DEF ArpRequest, IsReq, Mine
  <2> QED BY <1>2, <1>3, <2>2, SMT DEF ForUs, UdpPacket
<1>4. CASE frames[n].type # "ARP"
  <2>1. /\ regs["dst_ip_hi"] = n /\ regs["dst_ip_lo"] = n /\ regs["protocol"] = n /\ regs["dst_mac"] = n
        /\ regs["dst_port"] = n
    BY <1>1, <1>4, SMT DEF FromFrame
  <2>2. UdpPacket <=> /\ frames[n].type = "IP" /\ frames[n].proto = "UDP"
                      /\ frames[n].mac /\ frames[n].ip /\ frames[n].port
    BY <1>1, <1>2, <2>1, SMT DEF UdpPacket, IsUdp, Mine
  <2> QED BY <1>2, <1>4, <2>2, SMT DEF ForUs, ArpRequest
<1> QED BY <1>3, <1>4

LEMMA ClockAnswers ==
  ASSUME FramesAssumption, Clock, AInv
  PROVE  Answered' /\ InOrder'
<1> USE DEF AInv, IInv
<1>1. cmds' = CASE cmd_state = 1 /\ ArpRequest -> Append(cmds, [r \in Source |-> regs[r]])
               [] cmd_state = 1 /\ ~ArpRequest /\ UdpPacket ->
                    Append(cmds, [r \in Source \cup {"udp_cmd"} |-> regs[r]])
               [] OTHER -> cmds
  BY Zenon DEF Clock, cmd_sm
<1>2. cmd_state' = (IF cmd_state = 0 /\ tlast_i THEN 1 ELSE 0) /\ tlast_i' = TLAST
  BY Zenon DEF Clock, cmd_sm, parser_sm
<1>3. CASE cmd_state = 1
  <2>1. ~tlast_i /\ pos \in {0, 1}
    BY <1>3, SMT DEF OneFrame, Pending
  <2>2. ~tlast_i' /\ cmd_state' = 0 /\ whole' = whole
    BY <1>2, <1>3, <2>1, Idle, FirstWord, SMT
  <2>3. Asked' = Asked /\ Awaited' = {}
    BY <2>2, AskedKept, SMT DEF Awaited
  <2>4. PICK n : Awaited = {n} /\ Waiting(frames, regs, whole, n) /\ n = (IF pos = 0 THEN Now ELSE Now - 1)
    BY <1>3, <2>1, SMT DEF Awaited, Pending
  <2>5. CASE regs["pktType"] = 0
    <3>1. Asked = {}
      BY <2>5, NoneInEmpty DEF Fresh, Asked
    <3>2. cmds' = cmds
      BY <1>1, <2>5, SMT DEF ArpRequest, UdpPacket, Type
    <3> QED BY <2>3, <3>1, <3>2, Same DEF Answered
  <2>6. CASE Ready(frames, regs, whole, n)
    <3>1. n \in Range(whole) /\ n \in Nat /\ (n \in Asked <=> ForUs(frames[n]))
      BY <2>6, SMT DEF Ready, Asked, Position
    <3>2. Range(whole) \subseteq 1 .. n
      <4>1. Now \in Nat /\ Range(whole) \subseteq 1 .. Now
        BY SMT DEF Numbers, Position, Now
      <4> QED BY <2>1, <2>4, <4>1, SMT DEF NotYet
    <3>3. \A m \in Answers : m < n
      <4>1. \A m \in Answers : m \in 1 .. n /\ m # n
        BY <2>4, <3>2 DEF Answered, Asked
      <4> QED BY <3>1, <4>1, SMT
    <3>4. (ArpRequest \/ UdpPacket) <=> ForUs(frames[n])
      BY <2>6, MadeIfForUs
    <3>5. regs \in [Registers -> Nat] /\ regs["src_ip"] = n
      BY <2>6, SMT DEF Ready, FromFrame, Fields, Position, Now
    <3>6. CASE ArpRequest
      <4> DEFINE c == [r \in Source |-> regs[r]]
      <4>1. cmds' = Append(cmds, c)
        BY <1>1, <1>3, <3>6, SMT
      <4>2. c \in Commands /\ c["src_ip"] = n
        BY <3>5, SMT DEF Commands, Source, Registers
      <4> HIDE DEF c
      <4>3. Answers' = Answers \cup {n} /\ InOrder'
        BY <3>3, <4>1, <4>2, AnswersAppend DEF Numbers
      <4> QED BY <2>3, <2>4, <3>1, <3>4, <3>6, <4>3 DEF Answered
    <3>7. CASE ~ArpRequest /\ UdpPacket
      <4> DEFINE c == [r \in Source \cup {"udp_cmd"} |-> regs[r]]
      <4>1. cmds' = Append(cmds, c)
        BY <1>1, <1>3, <3>7, SMT
      <4>2. c \in Commands /\ c["src_ip"] = n
        BY <3>5, SMT DEF Commands, Source, Registers
      <4> HIDE DEF c
      <4>3. Answers' = Answers \cup {n} /\ InOrder'
        BY <3>3, <4>1, <4>2, AnswersAppend DEF Numbers
      <4> QED BY <2>3, <2>4, <3>1, <3>4, <3>7, <4>3 DEF Answered
    <3>8. CASE ~ArpRequest /\ ~UdpPacket
      <4>1. cmds' = cmds
        BY <1>1, <3>8, SMT
      <4> QED BY <2>3, <2>4, <3>1, <3>4, <3>8, <4>1, Same DEF Answered
    <3> QED BY <3>6, <3>7, <3>8
  <2> QED BY <2>4, <2>5, <2>6 DEF Waiting
<1>4. CASE cmd_state # 1
  <2>1. cmds' = cmds
    BY <1>1, <1>4, SMT
  <2>2. CASE tlast_i
    <3>1. pos = 0 /\ Awaited = {Now}
      BY <2>2 DEF Pending, Awaited
    <3>2. ~tlast_i' /\ whole' = whole
      BY <1>2, <3>1, Idle
    <3>3. Asked' = Asked
      BY <3>2, AskedKept
    <3>4. CASE cmd_state' = 0
      BY <1>2, <1>4, <2>2, <3>4, SMT DEF OneFrame
    <3>5. CASE cmd_state' = 1 /\ pos' = 0 /\ frames' = frames
      BY <2>1, <3>1, <3>2, <3>3, <3>5, Same DEF Answered, Awaited, Now
    <3>6. CASE cmd_state' = 1 /\ pos' = 1 /\ \E f \in Frames : frames' = Append(frames, f)
      <4>1. Now' - 1 = Now
        BY <3>6, SMT DEF Position, Now
      <4>2. Awaited' = {Now}
        BY <3>2, <3>6, <4>1, SMT DEF Awaited
      <4> QED BY <2>1, <3>1, <3>3, <4>2, Same DEF Answered
    <3> QED BY <1>2, <3>1, <3>4, <3>5, <3>6, Idle
  <2>3. CASE ~tlast_i
    <3>1. Awaited = {} /\ cmd_state' = 0
      BY <1>2, <1>4, <2>3, SMT DEF Awaited
    <3>2. CASE ~TLAST
      <4>1. whole' = whole /\ Awaited' = {}
        BY <1>2, <3>1, <3>2, SMT DEF Clock, Awaited
      <4> QED BY <2>1, <3>1, <4>1, AskedKept, Same DEF Answered
    <3>3. CASE TLAST
      <4>1. pos > 1
        BY <3>3, Idle, FirstWord, SMT DEF Position
      <4>2. Now' = Now /\ frames' = frames /\ whole' = Append(whole, Now) /\ Now \in Nat
        BY <3>3, <4>1, LastWord, LongEnough, SMT DEF Now
      <4>3. Range(whole') = Range(whole) \cup {Now} /\ Now \notin Range(whole)
        <5>1. pos > 0
          BY <4>1, SMT DEF Position
        <5> QED BY <4>2, <5>1, RangeAppend, SMTT(30) DEF NotYet, Numbers
      <4>4. Awaited' = {Now}
        BY <1>2, <3>3, <4>2 DEF Awaited
      <4>5. Asked' \ {Now} = Asked
        BY <4>2, <4>3 DEF Asked, ForUs
      <4> QED BY <2>1, <3>1, <4>4, <4>5, Same DEF Answered
    <3> QED BY <3>2, <3>3
  <2> QED BY <2>2, <2>3
<1> QED BY <1>3, <1>4

LEMMA ClockUnder ==
  ASSUME FramesAssumption, Clock, AInv
  PROVE  NotYet' /\ Fresh' /\ OneFrame'
<1> USE DEF AInv, IInv
<1>1. OneFrame'
  <2>1. cmd_state' = (IF cmd_state = 0 /\ tlast_i THEN 1 ELSE 0) /\ tlast_i' = TLAST
    BY Zenon DEF Clock, cmd_sm, parser_sm
  <2>2. tlast_i => ~TLAST
    BY Idle DEF Pending
  <2> QED BY <2>1, <2>2, SMT DEF OneFrame
<1>2. CASE pos = 0
  <2>1. whole' = whole /\ regs' = regs
    BY <1>2, Idle, SMT DEF Taken, Fields
  <2>2. NotYet'
    <3>1. CASE pos' = 0
      BY <3>1, SMT DEF NotYet
    <3>2. CASE \E f \in Frames : frames' = Append(frames, f)
      <4>1. Now' = Now + 1 /\ Now \in Nat
        BY <3>2, SMT DEF Position, Now
      <4> QED BY <2>1, <4>1, SMT DEF NotYet, Numbers
    <3> QED BY <1>2, <3>1, <3>2, Idle
  <2> QED BY <1>1, <2>1, <2>2 DEF Fresh
<1>3. CASE pos > 0
  <2>1. Now \in Nat \ {0} /\ pos \in Nat
    BY <1>3, LongEnough DEF Position
  <2>2. \E S : Taken(S)
    BY <1>3, <2>1, FirstWord, Pause, InnerWord, LastWord, SMT
  <2>3. "pktType" \in Registers
    BY DEF Registers
  <2>4. regs'["pktType"] = 0 => regs["pktType"] = 0
    BY <2>1, <2>2, <2>3, Each
  <2>5. CASE TLAST
    <3>1. pos > 1
      BY <1>3, <2>1, <2>5, FirstWord, SMT
    <3>2. pos' = 0 /\ pos >= 6 /\ Taken(Takes)
      BY <2>5, <3>1, LastWord
    <3>3. FromFrame(frames, regs', pos, Now)
      BY <3>1, <3>2, Advance
    <3>4. regs'["pktType"] = Now
      BY <3>2, <3>3, <2>1, SMT DEF FromFrame
    <3> QED BY <1>1, <2>1, <3>2, <3>4, SMT DEF NotYet, Fresh
  <2>6. CASE ~TLAST
    <3>1. frames' = frames /\ whole' = whole
      BY <1>3, <2>1, <2>6, FirstWord, Pause, InnerWord, SMT
    <3> QED BY <1>1, <1>3, <2>4, <3>1 DEF NotYet, Fresh, Now
  <2> QED BY <2>5, <2>6
<1> QED BY <1>2, <1>3, SMT DEF Position

LEMMA InitAInv == Init => AInv
<1> SUFFICES ASSUME Init PROVE AInv
  OBVIOUS
<1>1. pos = 0 /\ ~tlast_i /\ cmd_state = 0 /\ cmds = <<>> /\ whole = <<>>
  BY Zenon DEF Init
<1>2. Answers = {} /\ Asked = {} /\ DOMAIN cmds = {}
  BY <1>1, NoneInEmpty, SMT DEF Answers, Asked
<1> QED BY <1>1, <1>2, InitIInv, SMT DEF AInv, Answered, InOrder, NotYet, Fresh, OneFrame

LEMMA StepAInv ==
  ASSUME FramesAssumption, [Next]_vars, AInv
  PROVE  AInv'
<1>1. IInv'
  BY StepIInv DEF AInv
<1>2. CASE Clock
  BY <1>1, <1>2, ClockAnswers, ClockUnder DEF AInv
<1>3. CASE Reset
  <2>1. cmd_state' = 0 /\ pos' = 0 /\ cmds' = <<>> /\ whole' = <<>>
    BY <1>3, Zenon DEF Reset
  <2>2. Answers' = {} /\ Asked' = {} /\ DOMAIN cmds' = {}
    BY <2>1, NoneInEmpty, SMT DEF Answers, Asked
  <2> QED BY <1>1, <2>1, <2>2, SMT DEF AInv, Answered, InOrder, NotYet, Fresh, OneFrame
<1>4. CASE UNCHANGED vars
  BY <1>1, <1>4 DEF vars, mac, parser, AInv, Answered, InOrder, NotYet, Fresh, OneFrame, Answers, Asked,
                    Awaited, Now
<1> QED BY <1>2, <1>3, <1>4 DEF Next

LEMMA AllRight == AInv => InStep /\ CommandFromOneFrame /\ RequestsAnswered
<1> SUFFICES ASSUME AInv PROVE InStep /\ CommandFromOneFrame /\ RequestsAnswered
  OBVIOUS
<1>1. InStep
  BY SMT DEF AInv, IInv, Position, InStep
<1>2. CommandFromOneFrame
  BY Zenon DEF AInv, IInv, AllMade, Made, CommandFromOneFrame
<1>3. RequestsAnswered
  BY SMT DEF AInv, Answered, InOrder, Answers, Asked, Awaited, RequestsAnswered
<1> QED BY <1>1, <1>2, <1>3

(* Every frame for this board that came whole makes one command, in order  *)
(* (ten_gig_eth_rx_parser.vhd 244-273).                                    *)
THEOREM RequestsAnsweredHolds ==
  ASSUME FramesAssumption PROVE Spec => []RequestsAnswered
<1>1. Init => AInv
  BY InitAInv
<1>2. AInv /\ [Next]_vars => AInv'
  BY StepAInv
<1>3. AInv => RequestsAnswered
  BY AllRight
<1> QED BY <1>1, <1>2, <1>3, PTL DEF Spec
==============================================================================
