----------------------------- MODULE HostFrames ------------------------------
(***************************************************************************)
(* tge.c: the Ethernet frames that a PC program puts together and the      *)
(* commands by which the board sends them.                                 *)
(***************************************************************************)
EXTENDS HostCommands, SequencesExt

(* The frames, as 16-bit numbers.  A MAC address is three of them and an   *)
(* IP address two.                                                         *)
ArpReply(srcMAC, srcIP, dstMAC, dstIP) ==
  dstMAC \o srcMAC \o <<Half(8, 6), 1, Half(8, 0), Half(6, 4), 2>>
  \o srcMAC \o srcIP \o dstMAC \o dstIP

IpHeader(dataLen, check, srcIP, dstIP) ==
  <<Half(69, 0), (dataLen + 34) % W16, 0, 0, Half(64, 17), check>> \o srcIP \o dstIP

HeaderSum(h) == FoldLeft(LAMBDA a, b : a + b, 0, h)
ChecksumNoCarry(h) == W16 - 1 - (HeaderSum(h) % W16)  \* mutant of Checksum: the carries are dropped
(* One fold of the carries, kept in 16 bits. *)
Folded(h) == (HeaderSum(h) \div W16) + (HeaderSum(h) % W16)
Checksum(h) == W16 - 1 - (Folded(h) % W16)

Udp(srcMAC, srcIP, srcPort, dstMAC, dstIP, dstPort, dataLen) ==
  dstMAC \o srcMAC \o <<Half(8, 0)>>
  \o IpHeader(dataLen, Checksum(IpHeader(dataLen, 0, srcIP, dstIP)), srcIP, dstIP)
  \o <<srcPort, dstPort, (dataLen + 14) % W16, 0, Half(121, 77), Half(101, 105), Half(73, 80)>>

(* conv16network_endian: the bytes in memory, high byte first.             *)
NetworkBytes(buf) ==
  [i \in 1 .. 2 * Len(buf) |-> LET h == buf[(i + 1) \div 2] IN
     IF i % 2 = 1 THEN h \div 256 ELSE h % 256]

(* (uint32_t* )buf on a PC: four bytes, the lowest first, of a buffer that *)
(* calloc has filled with zeros.                                           *)
Words32(bytes) ==
  LET b(i) == IF i <= Len(bytes) THEN bytes[i] ELSE 0 IN
  [k \in 1 .. (Len(bytes) + 3) \div 4 |->
     [lo |-> b(4 * k - 3) + 256 * b(4 * k - 2), hi |-> b(4 * k - 1) + 256 * b(4 * k)]]

SendFrameTwice(buf, nbytes) ==    \* mutant of SendFrame: a pulse before the length, too
  WriteMemory([hi |-> 0, lo |-> 0], Words32(NetworkBytes(buf)))
  \o SendPulse(1) \o WriteRegister(0, nbytes) \o SendPulse(1)
(* The frame into the packet memory, its length into register 0, go.       *)
SendFrame(buf, nbytes) ==
  WriteMemory([hi |-> 0, lo |-> 0], Words32(NetworkBytes(buf)))
  \o WriteRegister(0, nbytes) \o SendPulse(1)

SendArpReply(srcMAC, srcIP, dstMAC, dstIP) ==
  SendFrame(ArpReply(srcMAC, srcIP, dstMAC, dstIP), 42)
SendUdp(srcMAC, srcIP, srcPort, dstMAC, dstIP, dstPort, dataLen) ==
  SendFrame(Udp(srcMAC, srcIP, srcPort, dstMAC, dstIP, dstPort, dataLen), 48 + dataLen)
=============================================================================
