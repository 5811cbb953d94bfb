------------------------------- MODULE UdpTest -------------------------------
(***************************************************************************)
(* udptest.c: the test receiver.  packet_gen puts its packet counter into  *)
(* the first bytes of the payload, the network and the socket buffer drop  *)
(* what they cannot hold, and the program counts the steps of the counter  *)
(* that are not 1.                                                         *)
(***************************************************************************)
EXTENDS Integers, Sequences, FiniteSets

CONSTANTS
  Reads,       \* calls of recvfrom, 10000000 in the program
  Packets,     \* packets that the board sends
  FirstCounts, \* values pktCtr may have when the program starts
  Before       \* what the buffer may hold before the first packet: 16#00abcdef# and
               \* four bytes that nothing has written

ReadsAssumption == Reads \in Nat /\ Packets \in Nat
CountsAssumption ==
  /\ FirstCounts \subseteq Nat /\ Before \subseteq Nat \ {0, 1}
  /\ \A b \in Before, f \in FirstCounts : b + 1 \notin f .. f + Packets

VARIABLES
  pktCtr, net,            \* packet_gen; the packets on their way
  buf, cnt1, errcnt, i,   \* main
  first, lost, got, timeouts, \* history: first number sent, numbers lost and read, reads without
  start                       \* a packet, and the first value looked at (0 before)

board == <<pktCtr, net, first, lost>>
main  == <<buf, cnt1, errcnt, i, got, timeouts, start>>
vars  == <<board, main>>

Init ==
  /\ first \in FirstCounts /\ pktCtr = first /\ net = <<>> /\ lost = {}
  /\ buf \in Before /\ cnt1 = 0 /\ errcnt = -1 /\ i = 0 /\ got = {}
  /\ timeouts = 0 /\ start = 0
-----------------------------------------------------------------------------
SendLate ==    \* mutant of Send: a packet overtakes the one before it
  /\ pktCtr < first + Packets /\ pktCtr' = pktCtr + 1
  /\ net' = IF net = <<>> THEN <<pktCtr>> ELSE SubSeq(net, 1, Len(net) - 1) \o <<pktCtr, net[Len(net)]>>
  /\ UNCHANGED <<first, lost, main>>
Send ==
  /\ pktCtr < first + Packets
  /\ net' = Append(net, pktCtr) /\ pktCtr' = pktCtr + 1
  /\ UNCHANGED <<first, lost, main>>

Lose ==
  \E k \in DOMAIN net :
    /\ lost' = lost \cup {net[k]}
    /\ net' = SubSeq(net, 1, k - 1) \o SubSeq(net, k + 1, Len(net))
    /\ UNCHANGED <<pktCtr, first, main>>

(* One turn of the loop with cnt in the buffer.                            *)
CountForward(cnt) ==   \* mutant of Count: only a counter that goes forward too far
  /\ errcnt' = IF cnt - cnt1 > 1 THEN errcnt + 1 ELSE errcnt
  /\ cnt1' = cnt /\ buf' = cnt /\ i' = i + 1 /\ start' = IF i = 0 THEN cnt ELSE start
Count(cnt) ==
  /\ errcnt' = IF cnt - cnt1 # 1 THEN errcnt + 1 ELSE errcnt
  /\ cnt1' = cnt /\ buf' = cnt /\ i' = i + 1 /\ start' = IF i = 0 THEN cnt ELSE start

ReceiveOver ==   \* mutant of Receive: one turn too many
  /\ i <= Reads /\ net # <<>>
  /\ Count(Head(net)) /\ net' = Tail(net) /\ got' = got \cup {Head(net)}
  /\ UNCHANGED <<pktCtr, first, lost, timeouts>>
Receive ==
  /\ i < Reads /\ net # <<>>
  /\ Count(Head(net)) /\ net' = Tail(net) /\ got' = got \cup {Head(net)}
  /\ UNCHANGED <<pktCtr, first, lost, timeouts>>

TimeoutRetry ==   \* mutant of Timeout: a read that times out is not counted
  /\ i < Reads /\ net = <<>> /\ UNCHANGED vars
(* Nothing for a second: an error is printed, and the old packet is looked *)
(* at once more.                                                           *)
Timeout ==
  /\ i < Reads /\ net = <<>>
  /\ Count(buf) /\ timeouts' = timeouts + 1
  /\ UNCHANGED <<got, board>>

Next == Send \/ Lose \/ Receive \/ Timeout
(* recvfrom returns in a second at the latest.                             *)
Spec == Init /\ [][Next]_vars /\ WF_vars(Receive \/ Timeout)
-----------------------------------------------------------------------------
TypeOK ==
  /\ first \in FirstCounts /\ pktCtr \in first .. first + Packets
  /\ net \in Seq(first .. pktCtr - 1) /\ lost \subseteq first .. pktCtr - 1
  /\ got \subseteq first .. pktCtr - 1 /\ buf \in got \cup Before /\ cnt1 \in got \cup Before \cup {0}
  /\ errcnt \in -1 .. Reads /\ i \in 0 .. Reads /\ timeouts \in 0 .. Reads /\ start \in got \cup Before \cup {0}

(* Runs of lost packets with a packet read on each side.                   *)
Gaps == Cardinality({p \in lost : /\ p - 1 \in got
                                  /\ \E q \in got : q > p /\ p .. q - 1 \subseteq lost})

(* The number printed at the end is what was lost on the way, one for each *)
(* run of lost packets, and one for each second without a packet.  The     *)
(* first value looked at makes up for the -1 of the start, unless it is    *)
(* number 1: then it passes for the successor of the 0 in cnt1, and one    *)
(* error stays hidden.                                                     *)
Hidden == IF start = 1 THEN 1 ELSE 0
ErrorsAreGaps == got # {} => errcnt = Gaps + timeouts - Hidden

LoopOver == i = Reads
=============================================================================
