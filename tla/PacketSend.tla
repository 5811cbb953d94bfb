----------------------------- MODULE PacketSend ------------------------------
(***************************************************************************)
(* From the PC to the 10G Ethernet: a PC program sends the commands of a   *)
(* frame (tcpio.c, tge.c, command.c), the command interpreter writes them  *)
(* into the packet memory and pulses TX_START, and packet_gen              *)
(* (ten_gig_eth_packet_gen_simple.vhd, the one that top.vhd instantiates)  *)
(* sends the memory word by word to the MAC.                               *)
(*                                                                         *)
(* One TxClock is the falling edge of TX_AXIS_ACLK, on which packet_gen    *)
(* works, and the rising edge after it, on which the MAC and the memory    *)
(* do.                                                                     *)
(***************************************************************************)
EXTENDS HostFrames

CONSTANTS
  Calls,        \* the frames that the program sends, one after the other
  PulseClocks   \* edges of TX_AXIS_ACLK that may see a pulse of three control clocks

(* The addresses in tcpio.c; a call gives the destination and the length.  *)
srcMAC == <<Half(0, 10), Half(53, 2), Half(167, 89)>>        \* 00:0a:35:02:a7:59
srcIP  == <<Half(192, 168), Half(3, 2)>>
dstMAC == <<Half(144, 226), Half(186, 75), Half(212, 180)>>  \* 90:e2:ba:4b:d4:b4

(* An ARP reply or a UDP frame that fits into 16 bits of length, and whose *)
(* checksum needs no second fold.                                          *)
CallAssumption(c) ==
  /\ c.kind \in {"arp", "udp"} /\ c.dstIP \in (0 .. W16 - 1) \X (0 .. W16 - 1)
  /\ c.kind = "udp" => c.len \in 0 .. W16 - 49 /\ Folded(IpHeader(c.len, 0, srcIP, c.dstIP)) < W16
CallsAssumption == Calls \in Seq(Range(Calls)) /\ \A c \in Range(Calls) : CallAssumption(c)

(* Three clocks of 100 MHz are less than eight of the 10G Ethernet.        *)
PulseClocksAssumption == PulseClocks \subseteq 1 .. 8

MemSize == 16            \* bound: words of the packet memory, more than a frame's buffer takes
MemWords == 0 .. MemSize - 1

VARIABLES
  todo, cmds,                          \* calls to make; the link to the board
  mem, addr, din, TX_BYTES, TX_START,  \* packet memory, interpreter; clocks left of the pulse
  pktState, addrCtr, bytesLeft, bytesLeft_reg, pktCtr, doutb,  \* packet_gen
  TREADY, frame,                       \* the MAC; the bytes of the frame it is taking
  made, sent                           \* history: calls made, frames taken by the MAC

board == <<mem, addr, din, TX_BYTES>>
gen   == <<pktState, addrCtr, bytesLeft, bytesLeft_reg, pktCtr, doutb>>
mac   == <<TREADY, frame, sent>>
vars  == <<todo, cmds, made, board, TX_START, gen, mac>>

Zero == [lo |-> 0, hi |-> 0]
Init ==
  /\ todo = Calls /\ cmds = <<>> /\ made = <<>>
  /\ mem = [i \in MemWords |-> Zero] /\ addr = 0 /\ din = 0 /\ TX_BYTES = 0 /\ TX_START = 0
  /\ pktState = "S0" /\ addrCtr = 0 /\ bytesLeft = 0 /\ bytesLeft_reg = 0 /\ pktCtr = 0
  /\ doutb = <<Zero, Zero>>
  /\ TREADY = TRUE /\ frame = <<>> /\ sent = <<>>
-----------------------------------------------------------------------------
CommandsOf(c) ==
  CASE c.kind = "arp" -> SendArpReply(srcMAC, srcIP, dstMAC, c.dstIP)
    [] c.kind = "udp" -> SendUdp(srcMAC, srcIP, 60002, dstMAC, c.dstIP, 60001, c.len)

Send ==
  /\ todo # <<>>
  /\ cmds' = cmds \o CommandsOf(Head(todo))
  /\ made' = Append(made, Head(todo)) /\ todo' = Tail(todo)
  /\ UNCHANGED <<board, TX_START, gen, mac>>

CallEager == Send        \* mutant of Call: nothing is waited for
(* query_response returns half a second after the last reply.              *)
Call == cmds = <<>> /\ TX_START = 0 /\ pktState = "S0" /\ Send

NextAddrTwice(hi) ==     \* mutant of NextAddr: each half of a word takes an address
  CASE hi = 17 -> Head(cmds).lo [] hi \in {19, 20} -> addr + 1 [] OTHER -> addr
NextAddr(hi) == CASE hi = 17 -> Head(cmds).lo [] hi = 20 -> addr + 1 [] OTHER -> addr

(* The interpreter on the commands that matter here (ControlInterface).    *)
Execute ==
  /\ cmds # <<>> /\ cmds' = Tail(cmds)
  /\ LET c == Head(cmds) IN
     /\ addr' = NextAddr(c.hi)
     /\ din'  = IF c.hi = 19 THEN c.lo ELSE din
     /\ mem'  = IF c.hi = 20 THEN [mem EXCEPT ![addr] = [lo |-> din, hi |-> c.lo]] ELSE mem
     /\ TX_BYTES' = IF c.hi = 32 THEN c.lo ELSE TX_BYTES
     /\ TX_START' \in IF c.hi = 11 /\ c.lo % 2 = 1 THEN PulseClocks ELSE {TX_START}
  /\ UNCHANGED <<todo, made, gen, mac>>
-----------------------------------------------------------------------------
(* A data word as its bytes, the one sent first first; the 48 bits of      *)
(* pktCtr take the place of the upper six bytes of the sixth word.         *)
BytesOf(w) == <<w.lo % 256, w.lo \div 256, w.hi % 256, w.hi \div 256>>
Doubleword == BytesOf(doutb[1]) \o BytesOf(doutb[2])
CountBytes(n) ==
  LET up(k) == k \div 256 IN
  <<n % 256, up(n) % 256, up(up(n)) % 256, up(up(up(n))) % 256, up(up(up(up(n)))) % 256,
    up(up(up(up(up(n))))) % 256>>
TDATABigEndian ==      \* mutant of TDATA: the commented lines of the source
  IF addrCtr = 5 THEN SubSeq(Doubleword, 1, 2) \o Reverse(CountBytes(pktCtr)) ELSE Doubleword
TDATA == IF addrCtr = 5 THEN SubSeq(Doubleword, 1, 2) \o CountBytes(pktCtr) ELSE Doubleword

Valid == pktState = "S1"
Final == bytesLeft <= 8
Keep  == IF bytesLeft_reg' < 8 THEN bytesLeft_reg' ELSE 8

StartLong ==      \* mutant of Start: a minimum of 43 bytes
  IF TX_START > 0 THEN /\ addrCtr' = 0 /\ bytesLeft' = TX_BYTES
                       /\ pktState' = IF TX_BYTES < 43 THEN "S0" ELSE "S1"
                  ELSE UNCHANGED <<addrCtr, bytesLeft, pktState>>
Start ==
  IF TX_START > 0 THEN /\ addrCtr' = 0 /\ bytesLeft' = TX_BYTES
                       /\ pktState' = IF TX_BYTES < 14 THEN "S0" ELSE "S1"
                  ELSE UNCHANGED <<addrCtr, bytesLeft, pktState>>

pkt_sm ==
  \/ /\ pktState = "S0" /\ Start /\ UNCHANGED <<bytesLeft_reg, pktCtr>>
  \/ /\ Valid /\ TREADY
     /\ addrCtr' = addrCtr + 1 /\ bytesLeft_reg' = bytesLeft
     /\ bytesLeft' = (W16 + bytesLeft - 8) % W16
     /\ pktState' = IF Final THEN "S2" ELSE "S1"
     /\ UNCHANGED pktCtr
  \/ /\ Valid /\ ~TREADY
     /\ UNCHANGED <<pktState, addrCtr, bytesLeft, bytesLeft_reg, pktCtr>>
  \/ /\ pktState = "S2" /\ pktState' = "S0" /\ pktCtr' = pktCtr + 1
     /\ UNCHANGED <<addrCtr, bytesLeft, bytesLeft_reg>>

(* The rising edge: the MAC takes the word, the memory reads the next one. *)
Transfer ==
  IF Valid /\ TREADY
  THEN LET f == frame \o SubSeq(TDATA, 1, Keep) IN
       IF Final THEN sent' = Append(sent, f) /\ frame' = <<>>
               ELSE frame' = f /\ UNCHANGED sent
  ELSE UNCHANGED <<frame, sent>>
Read == LET a == (2 * addrCtr') % MemSize IN doutb' = <<mem[a], mem[a + 1]>>

TxClock ==
  /\ pkt_sm /\ Transfer /\ Read
  /\ TREADY' \in BOOLEAN
  /\ TX_START' = IF TX_START > 0 THEN TX_START - 1 ELSE 0
  /\ UNCHANGED <<todo, cmds, made, board>>

Next == Call \/ Execute \/ TxClock
(* The interpreter and the clock run on, and the MAC takes words again and *)
(* again; the program makes its calls.                                     *)
Spec == /\ Init /\ [][Next]_vars
        /\ WF_vars(Call) /\ WF_vars(Execute) /\ WF_vars(TxClock) /\ WF_vars(TxClock /\ TREADY')
-----------------------------------------------------------------------------
(* Every value in its range, the packet memory included.                   *)
TypeOK ==
  /\ todo \in Seq(Range(Calls)) /\ made \in Seq(Range(Calls)) /\ TREADY \in BOOLEAN
  /\ mem \in [MemWords -> [lo : 0 .. W16 - 1, hi : 0 .. W16 - 1]]
  /\ addr \in 0 .. MemSize /\ din \in 0 .. W16 - 1
  /\ TX_BYTES \in 0 .. W16 - 1 /\ TX_START \in Nat /\ pktState \in {"S0", "S1", "S2"}
  /\ addrCtr \in 0 .. W16 - 1 /\ bytesLeft \in 0 .. W16 - 1 /\ bytesLeft_reg \in 0 .. W16 - 1
  /\ \A f \in Range(sent) : f \in Seq(0 .. 255)

(* What a receiver makes of a frame: numbers in network order, and the     *)
(* ones' complement sum of the IP header.                                  *)
Field(f, first, n) == [i \in 1 .. n |-> 256 * f[first + 2 * i - 2] + f[first + 2 * i - 1]]
OnesSum(h) == FoldLeft(LAMBDA a, b : LET s == a + b IN IF s < W16 THEN s ELSE s - W16 + 1, 0, h)

IsArpReply(f, c) ==
  /\ Len(f) = 42 /\ Field(f, 13, 5) = <<2054, 1, 2048, 1540, 2>>
  /\ Field(f, 23, 5) = srcMAC \o srcIP /\ Field(f, 33, 5) = dstMAC \o c.dstIP
HeaderAccepted(f) == OnesSum(Field(f, 15, 10)) = 65535
IsUdp(f, c, count) ==
  /\ Len(f) = 48 + c.len /\ Field(f, 13, 1) = <<2048>>
  /\ Field(f, 17, 1) = <<Len(f) - 14>> /\ Field(f, 39, 1) = <<Len(f) - 34>>
  /\ f[15] = 69 /\ f[24] = 17 /\ Field(f, 27, 2) = srcIP /\ Field(f, 31, 2) = c.dstIP
  /\ Field(f, 35, 2) = <<60002, 60001>>
  /\ SubSeq(f, 43, 48) = CountBytes(count)

(* The frame that the MAC takes for each call is the frame the program     *)
(* meant, through two byte orders, the command words, the packet memory    *)
(* and the state machine: whole, with the lengths right and the count of   *)
(* the frames sent before it in place of the dummy bytes.                  *)
WireIsFrame ==
  \A k \in 1 .. Len(sent) :
    /\ Field(sent[k], 1, 6) = dstMAC \o srcMAC
    /\ made[k].kind = "arp" => IsArpReply(sent[k], made[k])
    /\ made[k].kind = "udp" => IsUdp(sent[k], made[k], k - 1)

(* A receiver accepts the header of every UDP frame (tge.c: "compute       *)
(* checksum").                                                             *)
ChecksumRight ==
  \A k \in 1 .. Len(sent) : made[k].kind = "udp" => HeaderAccepted(sent[k])

(* A pulse on bit 0 starts one packet (packet_gen: TX_START is a           *)
(* "1-period pulse to start TX").                                          *)
OnePacketPerPulse == Len(sent) <= Len(made)

(* Every frame that the program asks for is sent in the end.               *)
AllSent == Len(sent) = Len(Calls)
=============================================================================
