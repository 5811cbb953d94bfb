---------------------------- MODULE HostAcquire ----------------------------
(***************************************************************************)
(* fmc112.c, the acquisition loop of main: arm a capture, poll the status  *)
(* until it is complete, read the memory back in blocks and save the       *)
(* event.  The TCP link to the board is a queue of commands and a queue of *)
(* reply words; the board executes one command after the other (module     *)
(* CommandServer), and the capture buffer behind it is reduced to what     *)
(* this program sees of it (module SdramBufferFifo).  A word is a burst of *)
(* the memory; the pieces it comes in over the link are not told apart.    *)
(*                                                                         *)
(* A query that has no reply within half a second is given up, although    *)
(* its reply may still come.  A run that was killed leaves the board as it *)
(* was: capturing, reading, in the middle of a block, with words in its    *)
(* FIFOs.                                                                  *)
(***************************************************************************)
EXTENDS Integers, Sequences

CONSTANTS
  NEvents,      \* nEvents
  BlockWords,   \* words that one write to address 25 asks for: NBASK/4 in the code
  Blocks,       \* blocks in an event
  FifoWords,    \* words that the output FIFO holds
  MigWords,     \* words that the MIG holds without a write command
  MaxOld,       \* bound: reply words that an earlier run is still owed
  MaxLate       \* bound: reply words that come when their query is not waited for

ASSUME SizesAssumption ==
  NEvents \in Nat \ {0} /\ BlockWords \in Nat \ {0} /\ Blocks \in Nat \ {0}
ASSUME RoomAssumption == FifoWords \in Nat \ {0} /\ MigWords \in Nat
ASSUME LateAssumption == MaxOld \in Nat /\ MaxLate \in Nat /\ MaxOld <= MaxLate

EventWords == Blocks * BlockWords
Index == 0 .. EventWords - 1

VARIABLES
  pc, event, got, blockGot,            \* the program; got: the words of this event
  cmds, net,                           \* the link: to the board, from the board
  wren, allow,                         \* bits 31 and 30 of configuration register 6
  wr_busy, wr_wrapped, filled, mem,    \* the capture buffer
  mig,                                 \* words handed to the MIG, their command still to come
  rd_busy, rdPos, fifo,                \* the read, and its output FIFO
  asked,                               \* words the interpreter's FIFO_ADV still waits for
  capture,                             \* history: captures started
  armedAt, readOn,                     \* history: capture and rd_busy when this arming began
  left,                                \* history: mig when the last capture started
  stale,                               \* history: fifo when the last read started
  late                                 \* history: reply words nobody waits for, so far

program == <<pc, event, got, blockGot, armedAt, readOn>>
link    == <<cmds, net>>
buffer  == <<wr_busy, wr_wrapped, filled, mem, mig, capture, left>>
read    == <<rd_busy, rdPos, fifo, stale>>
board   == <<wren, allow, buffer, read, asked>>
vars    == <<program, link, board, late>>

(* Reply words: the two halves of the status register, and words of the    *)
(* stream, which name the capture that took them from the input FIFO and   *)
(* their number in it.                                                     *)
Low == [kind |-> "low"]
High(done) == [kind |-> "high", done |-> done]
Data(c, i) == [kind |-> "data", capture |-> c, place |-> i]

Old(n) == [i \in 1 .. n |-> Data(0, 0)]    \* words from before this run

(* The board may be as an earlier, killed run of the program left it: with *)
(* a read or a capture on, words in the FIFOs and in the MIG, and a block  *)
(* half delivered.                                                         *)
Init ==
  /\ pc = "disable" /\ event = 0 /\ got = <<>> /\ blockGot = 0
  /\ cmds = <<>>
  /\ \E n \in 0 .. MaxOld : net = Old(n) /\ asked \in 0 .. MaxOld - n
  /\ asked <= BlockWords /\ late = Len(net) + asked
  /\ wren \in BOOLEAN /\ allow \in BOOLEAN /\ (allow => wren)
  /\ wr_busy \in BOOLEAN /\ wr_wrapped \in BOOLEAN /\ ~(wr_busy /\ wr_wrapped)
  /\ filled \in 0 .. EventWords /\ (wr_wrapped <=> filled = EventWords)
  /\ mem = [i \in Index |-> Data(0, 0)]
  /\ mig \in {Old(n) : n \in 0 .. MigWords}
  /\ rd_busy \in BOOLEAN /\ ~(wr_busy /\ rd_busy)
  /\ rdPos \in 0 .. EventWords /\ (rd_busy => rdPos < EventWords)
  /\ fifo \in {Old(n) : n \in 0 .. FifoWords}
  /\ capture = 0 /\ armedAt = 0 /\ readOn = FALSE /\ left = <<>> /\ stale = <<>>
-----------------------------------------------------------------------------
(* The program.  A command without a reply is sent and forgotten.          *)
Send(here, command, next) ==
  /\ pc = here /\ pc' = next
  /\ cmds' = Append(cmds, command)
  /\ UNCHANGED <<event, got, blockGot, net, board, late>>

NewArming  == armedAt' = capture /\ readOn' = rd_busy
SameArming == UNCHANGED <<armedAt, readOn>>

ArmNoAllow ==      \* mutant of Arm: the trigger is never allowed
  \/ Send("disable", "disable", "fifoReset") /\ NewArming
  \/ /\ \/ Send("fifoReset", "fifoReset", "ctrlReset") \/ Send("ctrlReset", "ctrlReset", "enable")
        \/ Send("enable", "enable", "poll8")
     /\ SameArming

Arm ==
  \/ Send("disable", "disable", "fifoReset") /\ NewArming
  \/ /\ \/ Send("fifoReset", "fifoReset", "ctrlReset")
        \/ Send("ctrlReset", "ctrlReset", "enable")
        \/ Send("enable", "enable", "allow")
        \/ Send("allow", "allow", "poll8")
     /\ SameArming

Query ==
  /\ \/ Send("poll8", "status8", "wait8")
     \/ Send("poll9", "status9", "wait9")
  /\ SameArming

(* The values that bit 13 of a word may have, taken for the status: the    *)
(* trigger pointer is 0, no stop trigger being sent; a sample is anything. *)
Bit13(w) == CASE w.kind = "low"  -> {FALSE}
              [] w.kind = "high" -> {w.done}
              [] w.kind = "data" -> BOOLEAN

After(finished) ==
  pc' = CASE pc = "wait8" -> "poll9"
          [] pc = "wait9" /\ finished  -> "start"
          [] pc = "wait9" /\ ~finished -> "poll8"

(* A read returns whatever has come; the program uses the first word and   *)
(* forgets the others.                                                     *)
Answer(n) ==
  /\ pc \in {"wait8", "wait9"}
  /\ n \in 1 .. Len(net)
  /\ net' = SubSeq(net, n + 1, Len(net))
  /\ \E finished \in Bit13(net[1]) : After(finished)
  /\ UNCHANGED <<event, got, blockGot, armedAt, readOn, cmds, board, late>>

(* After a timeout the buffer still holds the query, whose low half is 0;  *)
(* the reply may still come.                                               *)
Timeout ==
  /\ pc \in {"wait8", "wait9"} /\ net = <<>>
  /\ late < MaxLate /\ late' = late + 1
  /\ After(FALSE)
  /\ UNCHANGED <<event, got, blockGot, armedAt, readOn, link, board>>

StartRead == Send("start", "rdStart", "ask") /\ SameArming

(* The loop over the blocks of the event. *)
AskBlock ==
  /\ Len(got) < EventWords
  /\ Send("ask", "readFifo", "block") /\ SameArming

ReadBlock(n) ==
  /\ pc = "block"
  /\ n \in 1 .. Len(net) /\ n <= BlockWords - blockGot
  /\ got' = got \o SubSeq(net, 1, n)
  /\ net' = SubSeq(net, n + 1, Len(net))
  /\ IF blockGot + n < BlockWords
     THEN pc' = "block" /\ blockGot' = blockGot + n
     ELSE pc' = (IF Len(got') < EventWords THEN "ask" ELSE "save") /\ blockGot' = 0
  /\ UNCHANGED <<event, armedAt, readOn, cmds, board, late>>

(* A block that stays away for nine seconds ends the program. *)
BlockTimeout ==
  /\ pc = "block" /\ pc' = "killed" /\ net = <<>>
  /\ late < MaxLate /\ late' = late + 1
  /\ UNCHANGED <<event, got, blockGot, armedAt, readOn, link, board>>

Save ==
  /\ pc = "save"
  /\ event' = event + 1
  /\ pc' = IF event' < NEvents THEN "disable" ELSE "done"
  /\ got' = <<>>
  /\ UNCHANGED <<blockGot, armedAt, readOn, link, board, late>>

Program ==
  \/ Arm \/ Query
  \/ \E n \in 1 .. Len(net) : Answer(n) \/ ReadBlock(n)
  \/ StartRead \/ AskBlock \/ Save
-----------------------------------------------------------------------------
(* The board executes the next command; it takes none while words of the   *)
(* last read request are outstanding.                                      *)
Take(command) ==
  /\ asked = 0 /\ cmds # <<>> /\ Head(cmds) = command
  /\ cmds' = Tail(cmds)
  /\ UNCHANGED <<program, late>>

Configure ==
  /\ \E c \in {"disable", "enable", "allow"} :
       Take(c) /\ wren' = (c # "disable") /\ allow' = (c = "allow")
  /\ UNCHANGED <<net, buffer, read, asked>>

FifoResetKeeps ==    \* mutant of FifoReset: the output FIFO keeps its words
  /\ Take("fifoReset")
  /\ UNCHANGED <<net, board>>

(* The FIFOs of the stream and of the read are emptied, and nothing else.  *)
FifoReset ==
  /\ Take("fifoReset")
  /\ fifo' = <<>>
  /\ UNCHANGED <<net, wren, allow, buffer, rd_busy, rdPos, stale, asked>>

(* The machines are reset, but neither the FIFOs nor the MIG, which may    *)
(* keep words of a capture that was on, as many as it takes while the      *)
(* reset lasts.                                                            *)
CtrlReset ==
  /\ Take("ctrlReset")
  /\ wr_busy' = FALSE /\ wr_wrapped' = FALSE /\ filled' = 0
  /\ rd_busy' = FALSE /\ rdPos' = 0
  /\ \E n \in 0 .. MigWords - Len(mig) :
       /\ n > 0 => wr_busy
       /\ mig' = mig \o [i \in 1 .. n |-> Data(capture, filled)]
  /\ UNCHANGED <<net, wren, allow, mem, capture, left, fifo, stale, asked>>

Status ==
  /\ \/ Take("status8") /\ net' = Append(net, Low)
     \/ Take("status9") /\ net' = Append(net, High(wr_wrapped))
  /\ UNCHANGED board

(* The word of a capture that the MIG keeps when the capture ends between  *)
(* the word and its command.                                               *)
Orphan(words, place) ==
  {words} \cup (IF Len(words) < MigWords THEN {Append(words, Data(capture, place))} ELSE {})

(* A read start ends a capture that is on. *)
RdStart ==
  /\ Take("rdStart")
  /\ wr_busy' = FALSE
  /\ mig' \in (IF wr_busy THEN Orphan(mig, filled) ELSE {mig})
  /\ rd_busy' = TRUE /\ rdPos' = 0 /\ stale' = fifo
  /\ UNCHANGED <<net, wren, allow, wr_wrapped, filled, mem, capture, left, fifo, asked>>

ReadFifo ==
  /\ Take("readFifo")
  /\ asked' = BlockWords
  /\ UNCHANGED <<net, wren, allow, buffer, read>>

(* The interpreter passes a word of the output FIFO on to the program.     *)
Deliver ==
  /\ asked > 0 /\ fifo # <<>>
  /\ net' = Append(net, Head(fifo)) /\ fifo' = Tail(fifo)
  /\ asked' = asked - 1
  /\ UNCHANGED <<program, cmds, wren, allow, buffer, rd_busy, rdPos, stale, late>>

(* The read fills the output FIFO ahead of the requests. *)
ReadAhead ==
  /\ rd_busy /\ Len(fifo) < FifoWords
  /\ fifo' = Append(fifo, mem[rdPos])
  /\ rdPos' = rdPos + 1
  /\ rd_busy' = (rdPos + 1 < EventWords)
  /\ UNCHANGED <<program, link, wren, allow, buffer, stale, asked, late>>

TriggerAnyTime ==   \* mutant of Trigger: no look at WR_WRAPPED
  /\ allow /\ ~wr_busy /\ capture < event + 2
  /\ wr_busy' = TRUE /\ wr_wrapped' = FALSE /\ filled' = 0 /\ capture' = capture + 1
  /\ left' = mig /\ rd_busy' = FALSE
  /\ UNCHANGED <<program, link, wren, allow, mem, mig, rdPos, fifo, stale, asked, late>>

(* The trigger gate: a trigger starts a capture, which ends a read. *)
Trigger ==
  /\ allow /\ ~wr_busy /\ ~wr_wrapped
  /\ wr_busy' = TRUE /\ filled' = 0 /\ capture' = capture + 1
  /\ left' = mig /\ rd_busy' = FALSE
  /\ UNCHANGED <<program, link, wren, allow, wr_wrapped, mem, mig, rdPos, fifo, stale, asked, late>>

FillLate ==         \* mutant of Fill: the end of the memory found one word late
  LET held == Append(mig, Data(capture, filled)) IN
  /\ wr_busy /\ Len(mig) < MigWords
  /\ mem' = [mem EXCEPT ![filled] = Head(held)]
  /\ mig' = Tail(held)
  /\ filled' = filled + 1
  /\ wr_busy' = (filled + 1 <= EventWords)
  /\ wr_wrapped' = (filled + 1 = EventWords)
  /\ UNCHANGED <<program, link, wren, allow, read, asked, capture, left, late>>

(* The stream fills the memory from its first address to its end, where    *)
(* the capture stops and WR_WRAPPED is set.  A word goes to the MIG, which *)
(* writes with each command the oldest word it holds; full, it takes no    *)
(* more.  At the end of the memory the MIG may be handed one word more.    *)
Fill ==
  LET held == Append(mig, Data(capture, filled)) IN
  /\ wr_busy /\ Len(mig) < MigWords
  /\ mem' = [mem EXCEPT ![filled] = Head(held)]
  /\ filled' = filled + 1
  /\ wr_busy' = (filled + 1 < EventWords)
  /\ wr_wrapped' = (filled + 1 = EventWords)
  /\ mig' \in (IF wr_busy' THEN {Tail(held)} ELSE Orphan(Tail(held), EventWords))
  /\ UNCHANGED <<program, link, wren, allow, read, asked, capture, left, late>>

Board == Configure \/ FifoReset \/ CtrlReset \/ Status \/ RdStart \/ ReadFifo \/ Deliver

Next == Program \/ Timeout \/ BlockTimeout \/ Board \/ ReadAhead \/ Trigger \/ Fill

(* The program and the board go on while they can, triggers come, and the  *)
(* stream does not stop while it is let in.                                *)
Fairness ==
  /\ WF_vars(Program) /\ WF_vars(Board) /\ WF_vars(ReadAhead)
  /\ WF_vars(Trigger) /\ WF_vars(wren /\ Fill)

Spec == Init /\ [][Next]_vars /\ Fairness
-----------------------------------------------------------------------------
Word  == [kind : {"data"}, capture : Nat, place : Nat]
Reply == {Low} \cup {High(d) : d \in BOOLEAN} \cup Word

(* Type invariant: a capture that is on and a read that is on have a next  *)
(* word in the memory, and the program never holds more than an event.     *)
TypeOK ==
  /\ pc \in {"disable", "fifoReset", "ctrlReset", "enable", "allow", "poll8", "wait8",
             "poll9", "wait9", "start", "ask", "block", "save", "done", "killed"}
  /\ event \in 0 .. NEvents
  /\ got \in Seq(Reply) /\ Len(got) <= EventWords
  /\ blockGot \in 0 .. BlockWords - 1
  /\ cmds \in Seq({"disable", "fifoReset", "ctrlReset", "enable", "allow", "status8",
                   "status9", "rdStart", "readFifo"})
  /\ net \in Seq(Reply)
  /\ wren \in BOOLEAN /\ allow \in BOOLEAN
  /\ wr_busy \in BOOLEAN /\ wr_wrapped \in BOOLEAN
  /\ filled \in 0 .. EventWords /\ (wr_busy => filled < EventWords)
  /\ mem \in [Index -> Word]
  /\ mig \in Seq(Word) /\ Len(mig) <= MigWords
  /\ rd_busy \in BOOLEAN /\ rdPos \in 0 .. EventWords /\ (rd_busy => rdPos < EventWords)
  /\ fifo \in Seq(Word) /\ Len(fifo) <= FifoWords
  /\ asked \in 0 .. BlockWords
  /\ capture \in Nat /\ armedAt \in Nat /\ readOn \in BOOLEAN
  /\ left \in Seq(Word) /\ stale \in Seq(Word) /\ late \in 0 .. MaxLate

(* "check if we've got a trigger AND completed write" (line 712): the read *)
(* is started on the board only when the capture has filled the memory.    *)
ReadAfterCapture ==
  cmds # <<>> /\ Head(cmds) = "rdStart" => wr_wrapped /\ ~wr_busy

(* The words of the last capture in the memory, and of the last read in    *)
(* the event: what was left in the MIG and in the output FIFO comes first. *)
Stored(i) == IF i < Len(left) THEN left[i + 1] ELSE Data(capture, i - Len(left))
Given(i)  == IF i < Len(stale) THEN stale[i + 1] ELSE Stored(i - Len(stale))

(* What is saved as an event is one capture, started after this event was  *)
(* armed, in order and without a gap (lines 757-838), behind the words     *)
(* that the MIG kept of earlier captures; only where a read was on when    *)
(* the arming began may words of it come first.                            *)
EventIsCapture ==
  pc = "save" =>
    /\ capture > armedAt
    /\ got = [i \in 1 .. EventWords |-> Given(i - 1)]
    /\ stale # <<>> => readOn

(* Unless a query times out or an earlier run is still owed words, every   *)
(* arming leads to an event being saved, as long as the MIG has room.      *)
EventComes ==
  [](late = 0 /\ Len(mig) < MigWords) => (pc = "disable" ~> pc = "save")
=============================================================================
