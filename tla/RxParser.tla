------------------------------ MODULE RxParser -------------------------------
(***************************************************************************)
(* ten_gig_eth_rx_parser.vhd: takes the words of the frames from the MAC   *)
(* as they come, keeps the fields it knows in registers, and after the     *)
(* last word makes a command of an ARP request or a UDP packet for this    *)
(* board.                                                                  *)
(*                                                                         *)
(* Frames are numbered, and a register holds the number of the frame its   *)
(* value is from, 0 after a reset.  One Clock is a falling edge and the    *)
(* rising edge after it.  top.vhd reads the command FIFO in every clock,   *)
(* so it never fills and TREADY stays high.                                *)
(***************************************************************************)
EXTENDS Integers, Sequences, Functions

CONSTANTS
  Frames,      \* what a frame may be: type, op, proto, whether mac, ip and port are the
               \* board's, and its number of words
  MaxFrames    \* bound: frames that arrive

FramesAssumption ==
  \A f \in Frames : /\ f.type \in {"ARP", "IP", "other"} /\ f.op \in {"REQ", "other"}
                    /\ f.proto \in {"UDP", "other"} /\ {f.mac, f.ip, f.port} \subseteq BOOLEAN
                    /\ f.words \in Nat /\ f.words >= 6
MaxFramesAssumption == MaxFrames \in Nat

VARIABLES
  frames,        \* the frames so far, the last of them perhaps under way
  TVALID, pos,   \* the MAC: whether a word is on the bus; the word, 0 between frames
  tvalid_prev, tstart, tlast_i, parser_state, regs, cmd_state,
  cmds,          \* commands written, each by the registers it is made of
  whole          \* history: numbers of the frames received since the last reset

mac    == <<frames, TVALID, pos>>
parser == <<tvalid_prev, tstart, tlast_i, parser_state, regs, cmd_state, cmds, whole>>
vars   == <<mac, parser>>

Registers == {"dst_mac", "src_mac_hi", "src_mac_lo", "pktType", "opcode", "protocol",
              "src_ip", "dst_ip_hi", "dst_ip_lo", "src_port", "dst_port", "udp_cmd"}

Init ==
  /\ frames = <<>> /\ TVALID = FALSE /\ pos = 0
  /\ tvalid_prev = FALSE /\ tstart = FALSE /\ tlast_i = FALSE
  /\ parser_state = 0 /\ regs = [r \in Registers |-> 0] /\ cmd_state = 0
  /\ cmds = <<>> /\ whole = <<>>

Now   == Len(frames)
TLAST == TVALID /\ pos = frames[Now].words
-----------------------------------------------------------------------------
(* The MAC hands out frames with at least one idle clock between them, and *)
(* may pause inside one.                                                   *)
Mac ==
  \/ /\ TLAST /\ TVALID' = FALSE /\ pos' = 0 /\ UNCHANGED frames
  \/ /\ pos = 0 /\ UNCHANGED mac
  \/ /\ pos = 0 /\ Now < MaxFrames /\ \E f \in Frames : frames' = Append(frames, f)
     /\ TVALID' = TRUE /\ pos' = 1
  \/ /\ TVALID /\ ~TLAST /\ pos' = pos + 1 /\ TVALID' \in BOOLEAN /\ UNCHANGED frames
  \/ /\ ~TVALID /\ pos > 0 /\ TVALID' \in BOOLEAN /\ UNCHANGED <<pos, frames>>

(* Fields of the frame a register is from; all zero after a reset.         *)
Type(r)  == IF regs[r] = 0 THEN "none" ELSE frames[regs[r]].type
Mine(r)  == regs[r] # 0 /\ CASE r = "dst_mac" -> frames[regs[r]].mac
                             [] r = "dst_port" -> frames[regs[r]].port
                             [] OTHER -> frames[regs[r]].ip
IsReq    == regs["opcode"] # 0 /\ frames[regs["opcode"]].op = "REQ"
IsUdp    == regs["protocol"] # 0 /\ frames[regs["protocol"]].proto = "UDP"

(* What each state takes from the word on the bus.                         *)
Takes ==
  LET arp == Type("pktType") = "ARP" IN
  CASE parser_state = 0 -> {"dst_mac", "src_mac_hi"}
    [] parser_state = 1 -> {"src_mac_lo", "pktType"}
    [] parser_state = 2 -> {"opcode", "protocol"}
    [] parser_state = 3 -> IF arp THEN {"src_ip"} ELSE {"src_ip", "dst_ip_hi"}
    [] parser_state = 4 -> IF arp THEN {"dst_ip_hi"} ELSE {"dst_ip_lo", "src_port", "dst_port"}
    [] parser_state = 5 -> IF arp THEN {"dst_ip_lo"} ELSE {"udp_cmd"}
    [] parser_state = 6 -> {}

AfterS5 == IF TLAST THEN 0 ELSE 6
StepTo(after) ==
  CASE parser_state = 0 -> IF tstart' THEN 1 ELSE 0
    [] parser_state \in 1 .. 4 -> IF TVALID THEN parser_state + 1 ELSE parser_state
    [] parser_state = 5 -> IF TVALID THEN after ELSE 5
    [] parser_state = 6 -> IF TLAST THEN 0 ELSE 6
parser_smStuck ==   \* mutant of parser_sm: S5 does not look at TLAST
  /\ tlast_i' = TLAST /\ parser_state' = StepTo(6)
  /\ regs' = [r \in Registers |-> IF r \in Takes /\ (IF parser_state = 0 THEN tstart' ELSE TVALID)
                                  THEN Now ELSE regs[r]]
parser_sm ==
  /\ tlast_i' = TLAST /\ parser_state' = StepTo(AfterS5)
  /\ regs' = [r \in Registers |-> IF r \in Takes /\ (IF parser_state = 0 THEN tstart' ELSE TVALID)
                                  THEN Now ELSE regs[r]]

ArpRequest == Type("pktType") = "ARP" /\ Mine("dst_ip_hi") /\ Mine("dst_ip_lo") /\ IsReq
UdpPacketAnyType == IsUdp /\ Mine("dst_mac") /\ Mine("dst_ip_hi") /\ Mine("dst_ip_lo") /\ Mine("dst_port")
                    \* mutant of UdpPacket: the packet type is not looked at
UdpPacket == /\ Type("pktType") = "IP" /\ IsUdp
             /\ Mine("dst_mac") /\ Mine("dst_ip_hi") /\ Mine("dst_ip_lo") /\ Mine("dst_port")
Source == {"src_mac_hi", "src_mac_lo", "src_ip", "src_port"}
cmd_sm ==
  /\ cmd_state' = IF cmd_state = 0 /\ tlast_i THEN 1 ELSE 0
  /\ cmds' = CASE cmd_state = 1 /\ ArpRequest -> Append(cmds, [r \in Source |-> regs[r]])
               [] cmd_state = 1 /\ ~ArpRequest /\ UdpPacket ->
                    Append(cmds, [r \in Source \cup {"udp_cmd"} |-> regs[r]])
               [] OTHER -> cmds

Clock ==
  /\ tvalid_prev' = TVALID /\ tstart' = (TVALID /\ ~tvalid_prev)
  /\ cmd_sm /\ parser_sm /\ Mac
  /\ whole' = IF TLAST THEN Append(whole, Now) ELSE whole

(* RESET, which flushes the frame FIFO of the MAC and the command FIFO.    *)
Reset ==
  /\ parser_state' = 0 /\ regs' = [r \in Registers |-> 0] /\ cmd_state' = 0
  /\ TVALID' = FALSE /\ pos' = 0 /\ cmds' = <<>> /\ whole' = <<>>
  /\ UNCHANGED <<frames, tvalid_prev, tstart, tlast_i>>

Next == Clock \/ Reset
Spec == Init /\ [][Next]_vars
-----------------------------------------------------------------------------
(* The state of the parser is the word it is about to take, through pauses *)
(* and resets: every field comes from its place in the frame.              *)
InStep ==
  /\ parser_state \in 1 .. 5 => pos = parser_state + 1
  /\ parser_state = 6 => pos > 6
  /\ parser_state = 0 => pos \in {0, 1}

ForUs(f) == \/ (f.type = "ARP" /\ f.op = "REQ" /\ f.ip)
            \/ (f.type = "IP" /\ f.proto = "UDP" /\ f.mac /\ f.ip /\ f.port)

(* A command is made of the fields of one frame, whole and for this board; *)
(* but for the port of an ARP command, which is the one of an earlier      *)
(* packet or 0.                                                            *)
CommandFromOneFrame ==
  \A c \in Range(cmds) :
    LET n == c["src_ip"] IN
    /\ n \in Range(whole) /\ ForUs(frames[n])
    /\ \A r \in DOMAIN c \ {"src_port"} : c[r] = n
    /\ c["src_port"] = n \/ (frames[n].type = "ARP" /\ c["src_port"] < n)
    /\ ("udp_cmd" \in DOMAIN c) <=> (frames[n].type = "IP")

(* Every frame for this board that came whole makes one command, in order, *)
(* as soon as the two clocks of the command process are over.              *)
RequestsAnswered ==
  (cmd_state = 0 /\ ~tlast_i) =>
    /\ {c["src_ip"] : c \in Range(cmds)} = {n \in Range(whole) : ForUs(frames[n])}
    /\ \A i, k \in DOMAIN cmds : i < k => cmds[i]["src_ip"] < cmds[k]["src_ip"]
=============================================================================
