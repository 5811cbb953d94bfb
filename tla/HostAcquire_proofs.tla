------------------------- MODULE HostAcquire_proofs -------------------------
(***************************************************************************)
(* Proofs about HostAcquire, for every number of events and blocks, every  *)
(* block size, every room in the FIFOs and any number of late replies.     *)
(***************************************************************************)
EXTENDS HostAcquire, SequenceTheorems, TLAPS

Commands == {"disable", "fifoReset", "ctrlReset", "enable", "allow", "status8",
             "status9", "rdStart", "readFifo"}

(* The words of the blocks that are complete, and of the present one.      *)
WholeBlocks ==
  \E k \in 0 .. Blocks :
    /\ Len(got) = k * BlockWords + blockGot
    /\ IF pc = "block" \/ pc = "killed" THEN k < Blocks ELSE blockGot = 0

EventsLeft == pc # "done" => event < NEvents

TypeInv == TypeOK /\ WholeBlocks /\ EventsLeft
-----------------------------------------------------------------------------
(* As long as no reply was given up, program and board go in lock step:    *)
(* at each place of the program it is known what is on the link.           *)
ArmCommands == {"disable", "fifoReset", "ctrlReset", "enable", "allow"}

Captured == wr_wrapped /\ ~wr_busy

NoReplies == Len(net) = 0 /\ asked = 0

AtRest == pc \in {"disable", "poll9", "start", "save", "done"} => Len(cmds) = 0 /\ NoReplies

Arming ==
  pc \in {"fifoReset", "ctrlReset", "enable", "allow", "poll8"} =>
    NoReplies /\ \A i \in 1 .. Len(cmds) : cmds[i] \in ArmCommands

WaitLow ==
  pc = "wait8" =>
    /\ asked = 0
    /\ \/ Len(cmds) = 0 /\ Len(net) = 1
       \/ /\ Len(cmds) > 0 /\ Len(net) = 0
          /\ cmds[Len(cmds)] = "status8"
          /\ \A i \in 1 .. Len(cmds) - 1 : cmds[i] \in ArmCommands

WaitHigh ==
  pc = "wait9" =>
    /\ asked = 0
    /\ \/ Len(cmds) = 1 /\ cmds[1] = "status9" /\ Len(net) = 0
       \/ /\ Len(cmds) = 0 /\ Len(net) = 1
          /\ net[1].kind = "high" /\ (net[1].done => Captured)

Asking ==
  pc = "ask" =>
    /\ NoReplies
    /\ Len(cmds) = 0 \/ (Len(cmds) = 1 /\ cmds[1] = "rdStart")

ReadingBlock ==
  pc = "block" =>
    \/ Len(cmds) = 2 /\ cmds[1] = "rdStart" /\ cmds[2] = "readFifo" /\ NoReplies /\ blockGot = 0
    \/ Len(cmds) = 1 /\ cmds[1] = "readFifo" /\ NoReplies /\ blockGot = 0
    \/ Len(cmds) = 0 /\ blockGot + Len(net) + asked = BlockWords

CaptureKept ==
  /\ pc \in {"start", "ask", "block"} => Captured
  /\ wr_wrapped => ~wr_busy
  /\ pc # "killed"

LockStep ==
  /\ AtRest /\ Arming /\ WaitLow /\ WaitHigh /\ Asking /\ ReadingBlock /\ CaptureKept

LockStepInv == late = 0 => LockStep
-----------------------------------------------------------------------------
(* An event has at least one block, and Blocks of them are the event.      *)
LEMMA BlockArithmetic ==
  /\ EventWords \in Nat /\ EventWords > 0
  /\ \A k \in 0 .. Blocks :
       /\ k * BlockWords \in Nat
       /\ k * BlockWords < EventWords <=> k < Blocks
       /\ k < Blocks => (k + 1) * BlockWords = k * BlockWords + BlockWords
                        /\ (k + 1) * BlockWords <= EventWords
<1>1. EventWords \in Nat /\ EventWords > 0
  BY SizesAssumption, SMT DEF EventWords
<1>2. ASSUME NEW k \in 0 .. Blocks
      PROVE  /\ k * BlockWords \in Nat
             /\ k * BlockWords < EventWords <=> k < Blocks
             /\ k < Blocks => (k + 1) * BlockWords = k * BlockWords + BlockWords
                              /\ (k + 1) * BlockWords <= EventWords
  <2>1. k * BlockWords \in Nat
    BY <1>2, SizesAssumption, SMT
  <2>2. PICK rest \in Nat : rest = Blocks - k
    BY SizesAssumption, SMT
  <2>3. EventWords = k * BlockWords + rest * BlockWords
    BY <2>2, SizesAssumption, SMT DEF EventWords
  <2>4. rest > 0 => rest * BlockWords >= BlockWords
    BY <2>2, SizesAssumption, SMT
  <2>5. (k + 1) * BlockWords = k * BlockWords + BlockWords
    BY SizesAssumption, SMT
  <2>6. rest = 0 => rest * BlockWords = 0
    BY SizesAssumption, SMT
  <2> QED BY <2>1, <2>2, <2>3, <2>4, <2>5, <2>6, SizesAssumption, SMT
<1> QED BY <1>1, <1>2

(* The queues of the link keep their types when they are used. *)
LEMMA QueueFacts ==
  ASSUME NEW S, NEW s \in Seq(S)
  PROVE  /\ Len(s) \in Nat /\ (s = <<>> <=> Len(s) = 0)
         /\ \A e \in S : /\ Append(s, e) \in Seq(S) /\ Len(Append(s, e)) = Len(s) + 1
                         /\ \A i \in 1 .. Len(s) : Append(s, e)[i] = s[i]
                         /\ Append(s, e)[Len(s) + 1] = e
         /\ s # <<>> => /\ Head(s) = s[1] /\ Head(s) \in S
                        /\ Tail(s) \in Seq(S) /\ Len(Tail(s)) = Len(s) - 1
                        /\ \A i \in 1 .. Len(s) - 1 : Tail(s)[i] = s[i + 1]
         /\ \A n \in 1 .. Len(s) :
              /\ s[n] \in S
              /\ SubSeq(s, 1, n) \in Seq(S) /\ Len(SubSeq(s, 1, n)) = n
              /\ SubSeq(s, n + 1, Len(s)) \in Seq(S)
              /\ Len(SubSeq(s, n + 1, Len(s))) = Len(s) - n
<1>1. Len(s) \in Nat /\ (s = <<>> <=> Len(s) = 0)
  BY EmptySeq, LenProperties
<1>2. ASSUME NEW e \in S
      PROVE  /\ Append(s, e) \in Seq(S) /\ Len(Append(s, e)) = Len(s) + 1
             /\ \A i \in 1 .. Len(s) : Append(s, e)[i] = s[i]
             /\ Append(s, e)[Len(s) + 1] = e
  BY <1>1, AppendProperties
<1>3. ASSUME s # <<>>
      PROVE  /\ Head(s) = s[1] /\ Head(s) \in S
             /\ Tail(s) \in Seq(S) /\ Len(Tail(s)) = Len(s) - 1
             /\ \A i \in 1 .. Len(s) - 1 : Tail(s)[i] = s[i + 1]
  BY <1>3, HeadTailProperties
<1>4. ASSUME NEW n \in 1 .. Len(s)
      PROVE  /\ s[n] \in S
             /\ SubSeq(s, 1, n) \in Seq(S) /\ Len(SubSeq(s, 1, n)) = n
             /\ SubSeq(s, n + 1, Len(s)) \in Seq(S)
             /\ Len(SubSeq(s, n + 1, Len(s))) = Len(s) - n
  <2>1. \A i \in 1 .. Len(s) : s[i] \in S
    BY ElementOfSeq
  <2>2. SubSeq(s, 1, n) \in Seq(S) /\ Len(SubSeq(s, 1, n)) = n
    <3>1. \A i \in 1 .. n : s[i] \in S
      BY <2>1, <1>1
    <3> QED BY <3>1, <1>1, SubSeqProperties
  <2>3. SubSeq(s, n + 1, Len(s)) \in Seq(S) /\ Len(SubSeq(s, n + 1, Len(s))) = Len(s) - n
    <3>1. \A i \in n + 1 .. Len(s) : s[i] \in S
      BY <2>1, <1>1
    <3>2. /\ SubSeq(s, n + 1, Len(s)) \in Seq(S)
          /\ Len(SubSeq(s, n + 1, Len(s)))
               = IF n + 1 <= Len(s) THEN Len(s) - (n + 1) + 1 ELSE 0
      <4> n + 1 \in Int /\ Len(s) \in Int
        BY <1>1
      <4> QED BY <3>1, SubSeqProperties
    <3> QED BY <3>2, <1>1
  <2> QED BY <2>1, <2>2, <2>3
<1> QED BY <1>1, <1>2, <1>3, <1>4
-----------------------------------------------------------------------------
(* Every word of a status or of the memory is a reply. *)
LEMMA RepliesTyped ==
  /\ Low \in Reply /\ \A d \in BOOLEAN : High(d) \in Reply
  /\ \A c \in Nat, i \in Nat : Data(c, i) \in Word
  /\ Word \subseteq Reply
  /\ \A w \in Reply : Bit13(w) \subseteq BOOLEAN
<1>1. Low \in Reply /\ \A d \in BOOLEAN : High(d) \in Reply
  BY DEF Reply
<1>2. \A c \in Nat, i \in Nat : Data(c, i) \in Word
  BY DEF Word, Data
<1>3. ASSUME NEW w \in Reply PROVE Bit13(w) \subseteq BOOLEAN
  <2>1. CASE w = Low
    BY <2>1 DEF Low, Bit13
  <2>2. CASE \E d \in BOOLEAN : w = High(d)
    BY <2>2 DEF High, Bit13
  <2>3. CASE w \in Word
    BY <2>3 DEF Bit13, Word
  <2> QED BY <2>1, <2>2, <2>3 DEF Reply
<1>4. Word \subseteq Reply
  BY DEF Reply
<1> QED BY <1>1, <1>2, <1>3, <1>4

(* Words from before this run are words. *)
LEMMA OldTyped ==
  ASSUME NEW n \in Nat
  PROVE  Old(n) \in Seq(Word) /\ Old(n) \in Seq(Reply) /\ Len(Old(n)) = n
<1>1. Data(0, 0) \in Word /\ Data(0, 0) \in Reply
  BY RepliesTyped
<1>2. Old(n) \in [1 .. n -> Word] /\ Old(n) \in [1 .. n -> Reply]
  BY <1>1 DEF Old
<1> QED BY <1>2, IsASeq, LenProperties, SMT

(* The words that the MIG may hold after the end of a capture. *)
LEMMA OrphanTyped ==
  ASSUME NEW words \in Seq(Word), Len(words) <= MigWords,
         NEW place \in Nat, NEW after \in Orphan(words, place), capture \in Nat
  PROVE  after \in Seq(Word) /\ Len(after) <= MigWords
<1>1. Data(capture, place) \in Word /\ Len(words) \in Nat /\ MigWords \in Nat
  BY RepliesTyped, QueueFacts, RoomAssumption
<1>2. CASE after = words
  BY <1>2
<1>3. CASE Len(words) < MigWords /\ after = Append(words, Data(capture, place))
  <2>1. after \in Seq(Word) /\ Len(after) = Len(words) + 1
    BY <1>1, <1>3, QueueFacts
  <2> QED BY <1>1, <1>3, <2>1
<1> QED BY <1>2, <1>3 DEF Orphan

(* The board may be in any state at first. *)
LEMMA InitTyped == Init => TypeInv
<1> SUFFICES ASSUME Init PROVE TypeInv
  OBVIOUS
<1>1. <<>> \in Seq(Reply) /\ <<>> \in Seq(Word) /\ <<>> \in Seq(Commands) /\ Len(<<>>) = 0
  BY EmptySeq
<1>2. TypeOK
  <2>1. PICK n \in 0 .. MaxOld : net = Old(n) /\ asked \in 0 .. MaxOld - n
    BY DEF Init
  <2>2. net \in Seq(Reply) /\ Len(net) = n
    BY <2>1, OldTyped, LateAssumption
  <2>3. asked \in 0 .. BlockWords /\ late \in 0 .. MaxLate
    <3>1. late = n + asked /\ asked <= BlockWords
      BY <2>2 DEF Init
    <3> QED BY <2>1, <3>1, LateAssumption, SizesAssumption
  <2>4. mig \in Seq(Word) /\ Len(mig) <= MigWords
    <3>1. PICK k \in 0 .. MigWords : mig = Old(k)
      BY DEF Init
    <3> QED BY <3>1, OldTyped, RoomAssumption
  <2>5. fifo \in Seq(Word) /\ Len(fifo) <= FifoWords
    <3>1. PICK k \in 0 .. FifoWords : fifo = Old(k)
      BY DEF Init
    <3> QED BY <3>1, OldTyped, RoomAssumption
  <2>6. mem \in [Index -> Word]
    <3>1. Data(0, 0) \in Word
      BY RepliesTyped
    <3> QED BY <3>1 DEF Init
  <2>7. filled \in 0 .. EventWords /\ (wr_busy => filled < EventWords)
    BY BlockArithmetic DEF Init
  <2>8. /\ pc = "disable" /\ event \in 0 .. NEvents /\ got \in Seq(Reply) /\ Len(got) <= EventWords
        /\ blockGot \in 0 .. BlockWords - 1 /\ cmds \in Seq(Commands)
    BY <1>1, BlockArithmetic, SizesAssumption DEF Init
  <2>9. /\ wren \in BOOLEAN /\ allow \in BOOLEAN /\ wr_busy \in BOOLEAN /\ wr_wrapped \in BOOLEAN
        /\ rd_busy \in BOOLEAN /\ rdPos \in 0 .. EventWords /\ (rd_busy => rdPos < EventWords)
        /\ capture \in Nat /\ armedAt \in Nat /\ readOn \in BOOLEAN
        /\ left \in Seq(Word) /\ stale \in Seq(Word)
    BY <1>1 DEF Init
  <2> QED BY <2>2, <2>3, <2>4, <2>5, <2>6, <2>7, <2>8, <2>9 DEF TypeOK, Commands
<1>3. WholeBlocks
  <2>1. Len(got) = 0 * BlockWords + blockGot /\ 0 \in 0 .. Blocks
    BY <1>1, SizesAssumption DEF Init
  <2> QED BY <2>1 DEF Init, WholeBlocks
<1>4. EventsLeft
  BY SizesAssumption DEF Init, EventsLeft
<1> QED BY <1>2, <1>3, <1>4 DEF TypeInv

(* A step of the program that sends a command. *)
LEMMA SendTyped ==
  ASSUME TypeInv, NEW here, NEW c \in Commands,
         NEW next \in {"disable", "fifoReset", "ctrlReset", "enable", "allow", "poll8",
                       "wait8", "wait9", "ask", "block"},
         Send(here, c, next), here \notin {"block", "killed", "done"},
         next = "block" => Len(got) < EventWords,
         armedAt' \in Nat, readOn' \in BOOLEAN
  PROVE  TypeInv'
<1>1. cmds' \in Seq(Commands)
  BY QueueFacts DEF TypeInv, TypeOK, Send, Commands
<1>2. TypeOK'
  BY <1>1, SMTT(30) DEF TypeInv, TypeOK, Send, board, buffer, read, Commands
<1>3. WholeBlocks'
  <2>1. PICK k \in 0 .. Blocks : Len(got) = k * BlockWords + blockGot /\ blockGot = 0
    BY DEF TypeInv, WholeBlocks, Send
  <2>2. next = "block" => k < Blocks
    BY <2>1, BlockArithmetic
  <2> QED BY <2>1, <2>2 DEF WholeBlocks, Send
<1>4. EventsLeft'
  BY DEF TypeInv, EventsLeft, Send
<1> QED BY <1>2, <1>3, <1>4 DEF TypeInv

(* A step of the board or of the stream, which leaves the program alone.   *)
LEMMA ProgramLeftAlone ==
  ASSUME TypeInv, UNCHANGED program
  PROVE  WholeBlocks' /\ EventsLeft'
  BY DEF TypeInv, WholeBlocks, EventsLeft, program

(* The program's part of the type invariant. *)
LEMMA ReadBlockTyped ==
  ASSUME TypeInv, NEW n \in 1 .. Len(net), ReadBlock(n)
  PROVE  TypeInv'
<1>0. /\ net \in Seq(Reply) /\ got \in Seq(Reply) /\ n \in Nat /\ n > 0
      /\ n <= BlockWords - blockGot /\ blockGot \in Nat /\ pc = "block"
  BY QueueFacts DEF TypeInv, TypeOK, ReadBlock
<1>1. PICK k \in 0 .. Blocks : Len(got) = k * BlockWords + blockGot /\ k < Blocks
  BY DEF TypeInv, WholeBlocks, ReadBlock
<1>2. got' \in Seq(Reply) /\ Len(got') = Len(got) + n
  <2>1. SubSeq(net, 1, n) \in Seq(Reply) /\ Len(SubSeq(net, 1, n)) = n
    BY <1>0, QueueFacts
  <2> QED BY <1>0, <2>1, ConcatProperties DEF ReadBlock
<1>3. net' \in Seq(Reply)
  BY <1>0, QueueFacts DEF ReadBlock
<1>4. /\ k * BlockWords \in Nat /\ k * BlockWords < EventWords <=> k < Blocks
      /\ (k + 1) * BlockWords = k * BlockWords + BlockWords
      /\ (k + 1) * BlockWords <= EventWords /\ EventWords \in Nat
      /\ BlockWords \in Nat /\ k + 1 \in 0 .. Blocks /\ Len(got) \in Nat
  <2> k + 1 \in 0 .. Blocks /\ BlockWords \in Nat
    BY <1>1, SizesAssumption
  <2> QED BY <1>0, <1>1, BlockArithmetic, QueueFacts
<1>5. CASE blockGot + n < BlockWords
  <2>1. pc' = "block" /\ blockGot' = blockGot + n
    BY <1>5 DEF ReadBlock
  <2>2. Len(got') = k * BlockWords + blockGot'
    BY <2>1, <1>0, <1>1, <1>2, <1>4
  <2>3. WholeBlocks'
    BY <2>1, <2>2, <1>1 DEF WholeBlocks
  <2>4. Len(got') <= EventWords /\ blockGot' \in 0 .. BlockWords - 1
    BY <2>1, <2>2, <1>0, <1>4, <1>5
  <2> QED BY <2>1, <2>3, <2>4, <1>2, <1>3
          DEF TypeInv, TypeOK, EventsLeft, ReadBlock, board, buffer, read
<1>6. CASE ~(blockGot + n < BlockWords)
  <2>1. pc' \in {"ask", "save"} /\ blockGot' = 0 /\ blockGot + n = BlockWords
    BY <1>6, <1>0, <1>4 DEF ReadBlock
  <2>2. Len(got') = (k + 1) * BlockWords + blockGot'
    BY <2>1, <1>0, <1>1, <1>2, <1>4
  <2>3. WholeBlocks'
    BY <2>1, <2>2, <1>4 DEF WholeBlocks
  <2>4. Len(got') <= EventWords /\ blockGot' \in 0 .. BlockWords - 1
    BY <2>1, <2>2, <1>4, SizesAssumption
  <2> QED BY <2>1, <2>3, <2>4, <1>0, <1>2, <1>3
          DEF TypeInv, TypeOK, EventsLeft, ReadBlock, board, buffer, read
<1> QED BY <1>5, <1>6

(* The answer to a status query, taken or given up, moves the program on.  *)
LEMMA AfterTyped ==
  ASSUME TypeInv, NEW finished \in BOOLEAN, After(finished), pc \in {"wait8", "wait9"},
         UNCHANGED <<event, got, blockGot, armedAt, readOn>>
  PROVE  /\ pc' \in {"poll8", "poll9", "start"}
         /\ WholeBlocks' /\ EventsLeft'
<1>1. pc' \in {"poll8", "poll9", "start"}
  BY DEF After
<1>2. WholeBlocks'
  BY <1>1 DEF TypeInv, WholeBlocks
<1> QED BY <1>1, <1>2 DEF TypeInv, EventsLeft

(* Every step of the program, and every timeout, keeps the types. *)
LEMMA ProgramTyped ==
  ASSUME TypeInv, Program \/ Timeout \/ BlockTimeout
  PROVE  TypeInv'
<1>0. armedAt \in Nat /\ readOn \in BOOLEAN /\ capture \in Nat /\ rd_busy \in BOOLEAN
  BY DEF TypeInv, TypeOK
<1>1. CASE Arm
  <2>1. CASE Send("disable", "disable", "fifoReset") /\ NewArming
    <3>1. armedAt' \in Nat /\ readOn' \in BOOLEAN
      BY <1>0, <2>1 DEF NewArming
    <3> QED BY <2>1, <3>1, SendTyped DEF Commands
  <2>2. CASE SameArming /\ ~(Send("disable", "disable", "fifoReset") /\ NewArming)
    <3>1. armedAt' \in Nat /\ readOn' \in BOOLEAN
      BY <1>0, <2>2 DEF SameArming
    <3>2. CASE Send("fifoReset", "fifoReset", "ctrlReset")
      BY <3>1, <3>2, SendTyped DEF Commands
    <3>3. CASE Send("ctrlReset", "ctrlReset", "enable")
      BY <3>1, <3>3, SendTyped DEF Commands
    <3>4. CASE Send("enable", "enable", "allow")
      BY <3>1, <3>4, SendTyped DEF Commands
    <3>5. CASE Send("allow", "allow", "poll8")
      BY <3>1, <3>5, SendTyped DEF Commands
    <3> QED BY <1>1, <2>2, <3>2, <3>3, <3>4, <3>5 DEF Arm
  <2> QED BY <1>1, <2>1, <2>2 DEF Arm
<1>2. CASE Query
  <2>1. armedAt' \in Nat /\ readOn' \in BOOLEAN
    BY <1>0, <1>2 DEF SameArming, Query
  <2>2. CASE Send("poll8", "status8", "wait8")
    BY <2>1, <2>2, SendTyped DEF Commands
  <2>3. CASE Send("poll9", "status9", "wait9")
    BY <2>1, <2>3, SendTyped DEF Commands
  <2> QED BY <1>2, <2>2, <2>3 DEF Query
<1>3. ASSUME NEW n \in 1 .. Len(net), Answer(n) PROVE TypeInv'
  <2>1. net' \in Seq(Reply)
    BY <1>3, QueueFacts DEF Answer, TypeInv, TypeOK
  <2>2. PICK finished \in BOOLEAN : After(finished)
    <3>1. net[1] \in Reply
      <4>1. net \in Seq(Reply) /\ 1 \in 1 .. Len(net)
        BY <1>3, QueueFacts DEF TypeInv, TypeOK
      <4> QED BY <4>1, QueueFacts
    <3> QED BY <1>3, <3>1, RepliesTyped DEF Answer
  <2>3. pc' \in {"poll8", "poll9", "start"} /\ WholeBlocks' /\ EventsLeft'
    BY <1>3, <2>2, AfterTyped DEF Answer
  <2> QED BY <1>3, <2>1, <2>3 DEF TypeInv, TypeOK, Answer, board, buffer, read
<1>4. ASSUME NEW n \in 1 .. Len(net), ReadBlock(n) PROVE TypeInv'
  BY <1>4, ReadBlockTyped
<1>5. CASE StartRead
  <2>1. armedAt' \in Nat /\ readOn' \in BOOLEAN
    BY <1>0, <1>5 DEF SameArming, StartRead
  <2> QED BY <1>5, <2>1, SendTyped DEF StartRead, Commands
<1>6. CASE AskBlock
  <2>1. armedAt' \in Nat /\ readOn' \in BOOLEAN
    BY <1>0, <1>6 DEF SameArming, AskBlock
  <2> QED BY <1>6, <2>1, SendTyped DEF AskBlock, Commands
<1>7. CASE Save
  <2>1. pc' \in {"disable", "done"} /\ got' \in Seq(Reply) /\ Len(got') = 0 /\ blockGot = 0
    BY <1>7, EmptySeq DEF Save, TypeInv, WholeBlocks
  <2>2. event' \in 0 .. NEvents /\ EventsLeft'
    BY <1>7, SizesAssumption DEF Save, TypeInv, TypeOK, EventsLeft
  <2>3. WholeBlocks'
    <3>1. Len(got') = 0 * BlockWords + blockGot' /\ 0 \in 0 .. Blocks
      BY <1>7, <2>1, SizesAssumption DEF Save
    <3> QED BY <1>7, <2>1, <3>1 DEF Save, WholeBlocks
  <2> QED BY <1>7, <2>1, <2>2, <2>3, BlockArithmetic
          DEF TypeInv, TypeOK, Save, link, board, buffer, read
<1>8. CASE Timeout
  <2>1. pc' \in {"poll8", "poll9", "start"} /\ WholeBlocks' /\ EventsLeft'
    BY <1>8, AfterTyped DEF Timeout
  <2> QED BY <1>8, <2>1, LateAssumption, RoomAssumption, SMTT(30)
          DEF TypeInv, TypeOK, Timeout, link, board, buffer, read
<1>9. CASE BlockTimeout
  <2>1. WholeBlocks' /\ EventsLeft'
    BY <1>9 DEF TypeInv, WholeBlocks, EventsLeft, BlockTimeout
  <2> QED BY <1>9, <2>1, LateAssumption, RoomAssumption
          DEF TypeInv, TypeOK, BlockTimeout, link, board, buffer, read
<1> QED BY <1>1, <1>2, <1>3, <1>4, <1>5, <1>6, <1>7, <1>8, <1>9 DEF Program

(* The words of the capture buffer and of the read are words. *)
LEMMA WordsTyped ==
  TypeInv => /\ EventWords \in Nat /\ EventWords > 0 /\ MigWords \in Nat /\ FifoWords \in Nat
             /\ capture \in Nat /\ mig \in Seq(Word) /\ Len(mig) \in Nat /\ Len(mig) <= MigWords
             /\ fifo \in Seq(Word) /\ Len(fifo) \in Nat /\ Len(fifo) <= FifoWords
             /\ filled \in Nat /\ filled <= EventWords /\ rdPos \in Nat /\ rdPos <= EventWords
             /\ mem \in [Index -> Word] /\ left \in Seq(Word) /\ stale \in Seq(Word)
             /\ Len(left) \in Nat /\ Len(stale) \in Nat
  BY BlockArithmetic, RoomAssumption, QueueFacts DEF TypeInv, TypeOK

(* The word that a command writes is the oldest one that the MIG holds. *)
LEMMA HeldTyped ==
  ASSUME TypeInv
  PROVE  LET held == Append(mig, Data(capture, filled)) IN
         /\ held \in Seq(Word) /\ Len(held) = Len(mig) + 1 /\ Head(held) = held[1]
         /\ \A i \in 1 .. Len(mig) : held[i] = mig[i]
         /\ held[Len(mig) + 1] = Data(capture, filled)
         /\ Head(held) \in Word /\ Tail(held) \in Seq(Word) /\ Len(Tail(held)) = Len(mig)
         /\ \A i \in 1 .. Len(mig) : Tail(held)[i] = held[i + 1]
<1> DEFINE held == Append(mig, Data(capture, filled))
<1>1. mig \in Seq(Word) /\ Len(mig) \in Nat /\ Data(capture, filled) \in Word
  BY WordsTyped, RepliesTyped
<1>2. /\ held \in Seq(Word) /\ Len(held) = Len(mig) + 1 /\ held # <<>>
      /\ \A i \in 1 .. Len(mig) : held[i] = mig[i]
      /\ held[Len(mig) + 1] = Data(capture, filled)
  <2>1. /\ held \in Seq(Word) /\ Len(held) = Len(mig) + 1
        /\ \A i \in 1 .. Len(mig) : held[i] = mig[i]
        /\ held[Len(mig) + 1] = Data(capture, filled)
    BY <1>1, QueueFacts
  <2>2. Len(held) # 0
    BY <1>1, <2>1
  <2> QED BY <2>1, <2>2, EmptySeq
<1> HIDE DEF held
<1>3. /\ Head(held) = held[1] /\ Head(held) \in Word /\ Tail(held) \in Seq(Word)
      /\ Len(Tail(held)) = Len(held) - 1
      /\ \A i \in 1 .. Len(held) - 1 : Tail(held)[i] = held[i + 1]
  BY <1>2, QueueFacts
<1>4. Len(held) - 1 = Len(mig)
  BY <1>1, <1>2
<1>5. /\ Head(held) \in Word /\ Tail(held) \in Seq(Word) /\ Len(Tail(held)) = Len(mig)
      /\ \A i \in 1 .. Len(mig) : Tail(held)[i] = held[i + 1]
  BY <1>3, <1>4
<1> QED BY <1>2, <1>3, <1>5 DEF held

(* Every step of the board, the read, the trigger and the stream keeps the *)
(* types.                                                                  *)
LEMMA BoardTyped ==
  ASSUME TypeInv, Board \/ ReadAhead \/ Trigger \/ Fill
  PROVE  TypeInv'
<1>0. EventWords \in Nat /\ EventWords > 0
  BY BlockArithmetic
<1>1. UNCHANGED program /\ UNCHANGED late
  BY DEF Board, Configure, FifoReset, CtrlReset, Status, RdStart, ReadFifo, Deliver,
         ReadAhead, Trigger, Fill, Take, board
<1>2. WholeBlocks' /\ EventsLeft'
  BY <1>1, ProgramLeftAlone
<1>3. ASSUME NEW c, Take(c) PROVE cmds' \in Seq(Commands)
  BY <1>3, QueueFacts DEF Take, TypeInv, TypeOK, Commands
<1>4. ASSUME NEW w \in Reply PROVE Append(net, w) \in Seq(Reply)
  BY QueueFacts DEF TypeInv, TypeOK
<1>5. CASE Configure
  BY <1>1, <1>2, <1>3, <1>5
  DEF TypeInv, TypeOK, Configure, program, buffer, read, Commands
<1>6. CASE FifoReset
  <2>1. fifo' \in Seq(Word) /\ Len(fifo') <= FifoWords
    BY <1>6, EmptySeq, RoomAssumption DEF FifoReset
  <2>2. cmds' \in Seq(Commands)
    BY <1>3, <1>6 DEF FifoReset
  <2> QED BY <1>1, <1>2, <1>6, <2>1, <2>2 DEF TypeInv, TypeOK, FifoReset, program, buffer, Commands
<1>7. CASE CtrlReset
  <2>1. /\ wr_busy' \in BOOLEAN /\ wr_wrapped' \in BOOLEAN /\ rd_busy' \in BOOLEAN
        /\ (wr_busy' => filled' < EventWords) /\ (rd_busy' => rdPos' < EventWords)
    BY <1>7, Zenon DEF CtrlReset
  <2>2. filled' \in 0 .. EventWords /\ rdPos' \in 0 .. EventWords
    BY <1>0, <1>7 DEF CtrlReset
  <2>3. cmds' \in Seq(Commands)
    BY <1>3, <1>7 DEF CtrlReset
  <2>4. mig' \in Seq(Word) /\ Len(mig') <= MigWords
    <3>1. PICK n \in 0 .. MigWords - Len(mig) :
                 mig' = mig \o [i \in 1 .. n |-> Data(capture, filled)]
      BY <1>7 DEF CtrlReset
    <3> DEFINE more == [i \in 1 .. n |-> Data(capture, filled)]
    <3>2. /\ mig \in Seq(Word) /\ Len(mig) \in Nat /\ Len(mig) <= MigWords /\ MigWords \in Nat
          /\ Data(capture, filled) \in Word /\ n \in Nat /\ n <= MigWords - Len(mig)
      BY WordsTyped, RepliesTyped
    <3>3. more \in Seq(Word) /\ Len(more) = n
      <4>1. more \in [1 .. n -> Word]
        BY <3>2
      <4> HIDE DEF more
      <4> QED BY <3>2, <4>1, IsASeq, LenProperties, SMT
    <3> HIDE DEF more
    <3>4. mig \o more \in Seq(Word) /\ Len(mig \o more) = Len(mig) + n
      BY <3>2, <3>3, ConcatProperties
    <3>5. mig' = mig \o more
      BY <3>1 DEF more
    <3> QED BY <3>2, <3>4, <3>5
  <2> QED BY <1>1, <1>2, <1>7, <2>1, <2>2, <2>3, <2>4 DEF TypeInv, TypeOK, CtrlReset, program, Commands
<1>8. CASE Status
  <2>1. net' \in Seq(Reply)
    BY <1>4, <1>8, RepliesTyped DEF Status, TypeInv, TypeOK
  <2>2. cmds' \in Seq(Commands)
    BY <1>3, <1>8 DEF Status
  <2> QED BY <1>1, <1>2, <1>8, <2>1, <2>2
          DEF TypeInv, TypeOK, Status, program, board, buffer, read, Commands
<1>9. CASE RdStart
  <2>1. 0 \in 0 .. EventWords /\ 0 < EventWords
    BY <1>0
  <2>2. /\ wr_busy' \in BOOLEAN /\ rd_busy' \in BOOLEAN /\ rdPos' \in 0 .. EventWords
        /\ (wr_busy' => filled' < EventWords) /\ (rd_busy' => rdPos' < EventWords)
    BY <1>9, <2>1, Zenon DEF RdStart
  <2>3. cmds' \in Seq(Commands)
    BY <1>3, <1>9 DEF RdStart
  <2>4. mig' \in Seq(Word) /\ Len(mig') <= MigWords
    BY <1>9, WordsTyped, OrphanTyped DEF RdStart
  <2>5. stale' \in Seq(Word)
    BY <1>9, WordsTyped DEF RdStart
  <2> QED BY <1>1, <1>2, <1>9, <2>2, <2>3, <2>4, <2>5 DEF TypeInv, TypeOK, RdStart, program, Commands
<1>10. CASE ReadFifo
  BY <1>1, <1>2, <1>3, <1>10, SizesAssumption
  DEF TypeInv, TypeOK, ReadFifo, program, buffer, read, Commands
<1>11. CASE Deliver
  <2>1. Head(fifo) \in Word /\ Tail(fifo) \in Seq(Word) /\ Len(Tail(fifo)) = Len(fifo) - 1
    BY <1>11, WordsTyped, QueueFacts DEF Deliver
  <2>2. net' \in Seq(Reply)
    BY <1>4, <1>11, <2>1, RepliesTyped DEF Deliver
  <2>3. fifo' \in Seq(Word) /\ Len(fifo') <= FifoWords
    BY <1>11, <2>1, WordsTyped DEF Deliver
  <2>4. asked' \in 0 .. BlockWords
    BY <1>11, SizesAssumption DEF Deliver, TypeInv, TypeOK
  <2> QED BY <1>1, <1>2, <1>11, <2>2, <2>3, <2>4 DEF TypeInv, TypeOK, Deliver, program, buffer
<1>12. CASE ReadAhead
  <2>1. rdPos \in Index /\ rdPos + 1 \in 0 .. EventWords /\ mem[rdPos] \in Word
    <3>1. rdPos < EventWords /\ rdPos \in Nat /\ mem \in [Index -> Word]
      BY <1>12, WordsTyped DEF ReadAhead, TypeInv, TypeOK
    <3> QED BY <1>0, <3>1 DEF Index
  <2>2. fifo' \in Seq(Word) /\ Len(fifo') <= FifoWords
    <3>1. fifo' \in Seq(Word) /\ Len(fifo') = Len(fifo) + 1 /\ Len(fifo) < FifoWords
      BY <1>12, <2>1, WordsTyped, QueueFacts DEF ReadAhead
    <3> QED BY <3>1, WordsTyped
  <2>3. rdPos' \in 0 .. EventWords /\ (rd_busy' => rdPos' < EventWords)
    BY <1>12, <2>1, Zenon DEF ReadAhead
  <2>4. rd_busy' \in BOOLEAN
    BY <1>12, SMT DEF ReadAhead
  <2> QED BY <1>1, <1>2, <1>12, <2>2, <2>3, <2>4 DEF TypeInv, TypeOK, ReadAhead, program, buffer, link
<1>13. CASE Trigger
  <2>1. 0 \in 0 .. EventWords /\ 0 < EventWords
    BY <1>0
  <2>2. /\ wr_busy' \in BOOLEAN /\ rd_busy' \in BOOLEAN /\ filled' \in 0 .. EventWords
        /\ (wr_busy' => filled' < EventWords) /\ (rd_busy' => rdPos' < EventWords)
    BY <1>13, <2>1, Zenon DEF Trigger
  <2>3. capture' \in Nat /\ left' \in Seq(Word)
    BY <1>13 DEF Trigger, TypeInv, TypeOK
  <2> QED BY <1>1, <1>2, <1>13, <2>2, <2>3 DEF TypeInv, TypeOK, Trigger, program, link
<1>14. CASE Fill
  <2> DEFINE held == Append(mig, Data(capture, filled))
  <2>1. Head(held) \in Word /\ Tail(held) \in Seq(Word) /\ Len(Tail(held)) = Len(mig)
    BY HeldTyped
  <2>2. mem' = [mem EXCEPT ![filled] = Head(held)]
        /\ mig' \in (IF wr_busy' THEN {Tail(held)} ELSE Orphan(Tail(held), EventWords))
    BY <1>14 DEF Fill
  <2> HIDE DEF held
  <2>3. mem' \in [Index -> Word]
    BY <2>1, <2>2, WordsTyped
  <2>4. filled + 1 \in 0 .. EventWords
    <3>1. filled < EventWords /\ filled \in 0 .. EventWords
      BY <1>14, Zenon DEF Fill, TypeInv, TypeOK
    <3> QED BY <1>0, <3>1
  <2>5. filled' \in 0 .. EventWords /\ (wr_busy' => filled' < EventWords)
    BY <1>14, <2>4, Zenon DEF Fill
  <2>6. wr_busy' \in BOOLEAN /\ wr_wrapped' \in BOOLEAN
    BY <1>14, SMT DEF Fill
  <2>7. mig' \in Seq(Word) /\ Len(mig') <= MigWords
    BY <2>1, <2>2, WordsTyped, OrphanTyped
  <2> QED BY <1>1, <1>2, <1>14, <2>3, <2>5, <2>6, <2>7 DEF TypeInv, TypeOK, Fill, program, link, read
<1> QED BY <1>5, <1>6, <1>7, <1>8, <1>9, <1>10, <1>11, <1>12, <1>13, <1>14 DEF Board

(* TypeOK holds for every number of events, size of blocks, room in the    *)
(* FIFOs and number of late replies: a capture never runs past the memory, *)
(* and a block that comes in pieces never runs past the event.             *)
THEOREM TypeCorrect == Spec => []TypeOK
<1>1. ASSUME TypeInv, [Next]_vars PROVE TypeInv'
  <2>1. CASE Next
    BY <1>1, <2>1, ProgramTyped, BoardTyped DEF Next
  <2>2. CASE UNCHANGED vars
    BY <1>1, <2>2, SMTT(30) DEF TypeInv, TypeOK, WholeBlocks, EventsLeft, vars, program, link,
                      board, buffer, read
  <2> QED BY <1>1, <2>1, <2>2
<1>2. TypeInv => TypeOK
  BY DEF TypeInv
<1> QED BY InitTyped, <1>1, <1>2, PTL DEF Spec
-----------------------------------------------------------------------------
(* Nothing is on the link at first. *)
LEMMA LockStepInit == Init => LockStepInv
<1> SUFFICES ASSUME Init, late = 0 PROVE LockStep
  BY DEF LockStepInv
<1>1. Len(<<>>) = 0
  BY EmptySeq
<1>2. Len(net) = 0 /\ asked = 0
  <2>1. PICK n \in 0 .. MaxOld : net = Old(n) /\ asked \in 0 .. MaxOld - n
    BY DEF Init
  <2>2. Len(net) = n /\ late = n + asked
    BY <2>1, OldTyped, LateAssumption DEF Init
  <2> QED BY <2>1, <2>2, LateAssumption
<1> QED BY <1>1, <1>2 DEF Init, LockStepInv, LockStep, AtRest, NoReplies, Arming, WaitLow, WaitHigh,
                    Asking, ReadingBlock, CaptureKept

(* The queues have their types, and what follows from it. *)
LEMMA LinkTyped == TypeInv => cmds \in Seq(Commands) /\ net \in Seq(Reply)
  BY DEF TypeInv, TypeOK, Commands

(* The places of the program. *)
LEMMA Places ==
  TypeInv => /\ pc \in {"disable", "fifoReset", "ctrlReset", "enable", "allow", "poll8", "wait8",
                        "poll9", "wait9", "start", "ask", "block", "save", "done", "killed"}
             /\ late \in Nat
  BY DEF TypeInv, TypeOK

(* The program sends the commands that arm a capture without waiting. *)
LEMMA LockStepArm ==
  ASSUME TypeInv, LockStep, NEW c \in ArmCommands,
         NEW here \in {"disable", "fifoReset", "ctrlReset", "enable", "allow"},
         NEW next \in {"fifoReset", "ctrlReset", "enable", "allow", "poll8"},
         Send(here, c, next)
  PROVE  LockStep'
<1>1. Len(cmds) \in Nat /\ NoReplies /\ \A i \in 1 .. Len(cmds) : cmds[i] \in ArmCommands
  BY LinkTyped, QueueFacts DEF LockStep, AtRest, Arming, Send
<1>2. /\ Len(cmds') = Len(cmds) + 1 /\ cmds'[Len(cmds) + 1] = c
      /\ \A i \in 1 .. Len(cmds) : cmds'[i] = cmds[i]
  BY LinkTyped, QueueFacts DEF Send, ArmCommands, Commands
<1>3. \A i \in 1 .. Len(cmds') : cmds'[i] \in ArmCommands
  BY <1>1, <1>2
<1>4. NoReplies' /\ pc' = next
  BY <1>1 DEF Send, NoReplies, board, read
<1>5. CaptureKept'
  BY <1>4 DEF LockStep, CaptureKept, Send, board, buffer
<1> QED BY <1>3, <1>4, <1>5 DEF LockStep, AtRest, Arming, WaitLow, WaitHigh, Asking, ReadingBlock

(* It sends a query only when no other reply is on its way. *)
LEMMA LockStepQuery ==
  ASSUME TypeInv, LockStep, Query
  PROVE  LockStep'
<1>1. Len(cmds) \in Nat /\ NoReplies
  BY LinkTyped, QueueFacts DEF LockStep, AtRest, Arming, Query, Send
<1>2. NoReplies' /\ (wr_wrapped' => ~wr_busy')
  BY <1>1 DEF Query, Send, NoReplies, LockStep, CaptureKept, board, buffer, read
<1>3. CASE Send("poll8", "status8", "wait8")
  <2>1. /\ Len(cmds') = Len(cmds) + 1 /\ cmds'[Len(cmds) + 1] = "status8"
        /\ \A i \in 1 .. Len(cmds) : cmds'[i] = cmds[i]
    BY <1>3, LinkTyped, QueueFacts DEF Send, Commands
  <2>2. \A i \in 1 .. Len(cmds) : cmds[i] \in ArmCommands
    BY <1>3 DEF LockStep, Arming, Send
  <2>3. WaitLow'
    BY <1>1, <1>2, <2>1, <2>2 DEF WaitLow, NoReplies
  <2> QED BY <1>2, <1>3, <2>3
          DEF LockStep, AtRest, Arming, WaitHigh, Asking, ReadingBlock, CaptureKept, Send
<1>4. CASE Send("poll9", "status9", "wait9")
  <2>1. Len(cmds) = 0
    BY <1>4 DEF LockStep, AtRest, Send
  <2>2. Len(cmds') = 1 /\ cmds'[1] = "status9"
    BY <1>4, <2>1, LinkTyped, QueueFacts DEF Send, Commands
  <2>3. WaitHigh'
    BY <1>2, <2>2 DEF WaitHigh, NoReplies
  <2> QED BY <1>2, <1>4, <2>3
          DEF LockStep, AtRest, Arming, WaitLow, Asking, ReadingBlock, CaptureKept, Send
<1> QED BY <1>3, <1>4 DEF Query

(* What it takes for the answer is the answer, so that it goes on to the   *)
(* read only when the capture is complete.                                 *)
LEMMA LockStepAnswer ==
  ASSUME TypeInv, LockStep, NEW n \in 1 .. Len(net), Answer(n)
  PROVE  LockStep'
<1>1. /\ Len(cmds) \in Nat /\ Len(net) \in Nat /\ Len(net') = Len(net) - n
      /\ net[1] \in Reply /\ n \in Nat
  <2>1. net \in Seq(Reply) /\ cmds \in Seq(Commands)
    BY LinkTyped
  <2>2. 1 \in 1 .. Len(net) /\ Len(net) \in Nat
    BY <2>1, QueueFacts
  <2> QED BY <2>1, <2>2, QueueFacts DEF Answer
<1>2. asked = 0 /\ Len(cmds) = 0 /\ Len(net) = 1
  BY <1>1 DEF LockStep, WaitLow, WaitHigh, Answer
<1>3. NoReplies' /\ Len(cmds') = 0 /\ UNCHANGED <<wr_busy, wr_wrapped>>
  BY <1>1, <1>2 DEF NoReplies, Answer, board, buffer, read
<1>4. pc' \in {"poll8", "poll9", "start"} /\ (pc' = "start" => Captured)
  <2>1. PICK finished \in Bit13(net[1]) : After(finished)
    BY DEF Answer
  <2>2. CASE pc = "wait8"
    BY <2>1, <2>2 DEF After
  <2>3. CASE pc = "wait9"
    <3>1. net[1].kind = "high" /\ (net[1].done => Captured)
      BY <1>2, <2>3 DEF LockStep, WaitHigh
    <3>2. finished = net[1].done
      BY <2>1, <3>1 DEF Bit13
    <3>3. finished \in BOOLEAN
      BY <1>1, <2>1, RepliesTyped
    <3> QED BY <2>1, <2>3, <3>1, <3>2, <3>3 DEF After
  <2> QED BY <2>2, <2>3 DEF Answer
<1> QED BY <1>3, <1>4
        DEF LockStep, AtRest, Arming, WaitLow, WaitHigh, Asking, ReadingBlock, CaptureKept, Captured

(* It starts the read, asks for a block, and takes exactly what it asked   *)
(* for.                                                                    *)
LEMMA LockStepRead ==
  ASSUME TypeInv, LockStep, StartRead \/ AskBlock \/ Save
  PROVE  LockStep'
<1>1. Len(cmds) \in Nat /\ NoReplies /\ pc \in {"start", "ask", "save"}
  BY LinkTyped, QueueFacts
  DEF LockStep, AtRest, Asking, StartRead, AskBlock, Save, Send
<1>2. NoReplies' /\ UNCHANGED <<wr_busy, wr_wrapped>>
  BY <1>1 DEF StartRead, AskBlock, Save, Send, NoReplies, link, board, buffer, read
<1>3. CASE StartRead
  <2>1. Len(cmds) = 0 /\ Captured
    BY <1>3 DEF LockStep, AtRest, CaptureKept, StartRead, Send
  <2>2. Len(cmds') = 1 /\ cmds'[1] = "rdStart"
    BY <1>3, <2>1, LinkTyped, QueueFacts DEF StartRead, Send, Commands
  <2> QED BY <1>2, <1>3, <2>1, <2>2
          DEF LockStep, AtRest, Arming, WaitLow, WaitHigh, Asking, ReadingBlock, CaptureKept,
              Captured, StartRead, Send
<1>4. CASE AskBlock
  <2>1. Captured /\ (Len(cmds) = 0 \/ (Len(cmds) = 1 /\ cmds[1] = "rdStart"))
    BY <1>4 DEF LockStep, Asking, CaptureKept, AskBlock, Send
  <2>2. blockGot' = 0
    BY <1>4 DEF TypeInv, WholeBlocks, AskBlock, Send
  <2>3. /\ Len(cmds') = Len(cmds) + 1 /\ cmds'[Len(cmds) + 1] = "readFifo"
        /\ \A i \in 1 .. Len(cmds) : cmds'[i] = cmds[i]
    BY <1>4, LinkTyped, QueueFacts DEF AskBlock, Send, Commands
  <2>4. ReadingBlock'
    BY <1>2, <2>1, <2>2, <2>3 DEF ReadingBlock
  <2> QED BY <1>2, <1>4, <2>1, <2>4
          DEF LockStep, AtRest, Arming, WaitLow, WaitHigh, Asking, CaptureKept, Captured,
              AskBlock, Send
<1>5. CASE Save
  <2>1. Len(cmds') = 0 /\ pc' \in {"disable", "done"}
    BY <1>5 DEF LockStep, AtRest, Save, link
  <2> QED BY <1>2, <2>1
          DEF LockStep, AtRest, Arming, WaitLow, WaitHigh, Asking, ReadingBlock, CaptureKept, Captured
<1> QED BY <1>3, <1>4, <1>5

LEMMA LockStepReadBlock ==
  ASSUME TypeInv, LockStep, NEW n \in 1 .. Len(net), ReadBlock(n)
  PROVE  LockStep'
<1>1. /\ Len(cmds) \in Nat /\ Len(net) \in Nat /\ Len(net') = Len(net) - n /\ n \in Nat
      /\ blockGot \in Nat /\ asked \in Nat /\ BlockWords \in Nat /\ n > 0
      /\ n <= Len(net) /\ n <= BlockWords - blockGot
  <2>1. net \in Seq(Reply) /\ cmds \in Seq(Commands)
    BY LinkTyped
  <2>2. Len(net) \in Nat /\ Len(cmds) \in Nat /\ Len(net') = Len(net) - n
    BY <2>1, QueueFacts DEF ReadBlock
  <2> QED BY <2>2, SizesAssumption DEF ReadBlock, TypeInv, TypeOK
<1>2. Len(cmds) = 0 /\ blockGot + Len(net) + asked = BlockWords
  BY <1>1 DEF LockStep, ReadingBlock, NoReplies, ReadBlock
<1>3. /\ Captured' /\ CaptureKept' /\ Len(cmds') = 0 /\ asked' = asked
      /\ pc' \in {"block", "ask", "save"}
  BY <1>2 DEF LockStep, CaptureKept, Captured, ReadBlock, board, buffer, read
<1>4. CASE blockGot + n < BlockWords
  <2>1. pc' = "block" /\ blockGot' = blockGot + n
    BY <1>4 DEF ReadBlock
  <2>2. blockGot' + Len(net') + asked' = BlockWords
    BY <1>1, <1>2, <1>3, <2>1
  <2> QED BY <1>3, <2>1, <2>2
          DEF LockStep, AtRest, Arming, WaitLow, WaitHigh, Asking, ReadingBlock
<1>5. CASE ~(blockGot + n < BlockWords)
  <2>1. pc' \in {"ask", "save"}
    BY <1>5 DEF ReadBlock
  <2>2. NoReplies'
    BY <1>1, <1>2, <1>3, <1>5 DEF NoReplies
  <2> QED BY <1>3, <2>1, <2>2
          DEF LockStep, AtRest, Arming, WaitLow, WaitHigh, Asking, ReadingBlock
<1> QED BY <1>4, <1>5
-----------------------------------------------------------------------------
(* The board executes the commands that arm a capture before any query     *)
(* that follows them, and never while a capture is about to be read.       *)
LEMMA LockStepArmed ==
  ASSUME TypeInv, LockStep, NEW c \in ArmCommands, Take(c),
         UNCHANGED <<net, asked>>, wr_wrapped' => ~wr_busy'
  PROVE  LockStep'
<1>1. /\ Len(cmds) \in Nat /\ Len(cmds) > 0 /\ cmds[1] = c /\ Len(cmds') = Len(cmds) - 1
      /\ \A i \in 1 .. Len(cmds) - 1 : cmds'[i] = cmds[i + 1]
      /\ pc' = pc
  BY LinkTyped, QueueFacts DEF Take, program
<1>2. pc \in {"fifoReset", "ctrlReset", "enable", "allow", "poll8", "wait8"}
  <2>1. c \notin {"status8", "status9", "rdStart", "readFifo"}
    BY DEF ArmCommands
  <2> QED BY <1>1, <2>1 DEF LockStep, AtRest, WaitHigh, Asking, ReadingBlock, CaptureKept, TypeInv, TypeOK
<1>3. Arming' /\ pc' # "killed"
  BY <1>1, <1>2 DEF LockStep, Arming, NoReplies
<1>4. WaitLow'
  <2>1. CASE pc = "wait8"
    <3>1. c # "status8"
      BY DEF ArmCommands
    <3>2. /\ Len(cmds) > 1 /\ asked = 0 /\ Len(net) = 0 /\ cmds[Len(cmds)] = "status8"
          /\ \A i \in 1 .. Len(cmds) - 1 : cmds[i] \in ArmCommands
      BY <1>1, <2>1, <3>1 DEF LockStep, WaitLow
    <3>3. \A i \in 1 .. Len(cmds') - 1 : cmds'[i] \in ArmCommands
      BY <1>1, <3>2
    <3>4. cmds'[Len(cmds')] = "status8"
      BY <1>1, <3>2
    <3> QED BY <1>1, <3>2, <3>3, <3>4 DEF WaitLow
  <2> QED BY <1>1, <2>1 DEF WaitLow
<1> QED BY <1>1, <1>2, <1>3, <1>4
        DEF LockStep, AtRest, WaitHigh, Asking, ReadingBlock, CaptureKept

(* A query is answered when it is the only thing on the link. *)
LEMMA LockStepStatus ==
  ASSUME TypeInv, LockStep, Status
  PROVE  LockStep'
<1>1. /\ Len(cmds) \in Nat /\ Len(cmds) > 0 /\ Len(cmds') = Len(cmds) - 1
      /\ cmds[1] \in {"status8", "status9"} /\ asked = 0 /\ pc' = pc
  BY LinkTyped, QueueFacts DEF Status, Take, program
<1>2. UNCHANGED <<asked, wr_busy, wr_wrapped>>
  BY DEF Status, board, buffer, read
<1>3. \A w \in Reply : /\ Len(Append(net, w)) = Len(net) + 1
                       /\ Append(net, w)[Len(net) + 1] = w
  BY LinkTyped, QueueFacts
<1>4. pc \in {"wait8", "wait9"}
  BY <1>1, Places DEF LockStep, AtRest, Arming, Asking, ReadingBlock, CaptureKept, ArmCommands
<1>5. CASE pc = "wait8"
  <2>1. Len(cmds) = 1 /\ Len(net) = 0
    BY <1>1, <1>5 DEF LockStep, WaitLow, ArmCommands
  <2>2. cmds[1] = "status8"
    BY <1>5, <2>1 DEF LockStep, WaitLow
  <2>3. net' = Append(net, Low)
    BY <1>1, <2>2 DEF Status, Take
  <2>4. Len(net') = 1
    BY <1>3, <2>1, <2>3, RepliesTyped
  <2> QED BY <1>1, <1>2, <1>5, <2>1, <2>4
          DEF LockStep, AtRest, Arming, WaitLow, WaitHigh, Asking, ReadingBlock, CaptureKept, Captured
<1>6. CASE pc = "wait9"
  <2>1. Len(cmds) = 1 /\ cmds[1] = "status9" /\ Len(net) = 0
    BY <1>1, <1>6 DEF LockStep, WaitHigh
  <2>2. net' = Append(net, High(wr_wrapped))
    BY <2>1 DEF Status, Take
  <2>3. High(wr_wrapped) \in Reply
    BY RepliesTyped DEF TypeInv, TypeOK
  <2>4. Len(net') = 1 /\ net'[1] = High(wr_wrapped)
    BY <1>3, <2>1, <2>2, <2>3
  <2>5. net'[1].kind = "high" /\ (net'[1].done => Captured')
    BY <1>2, <2>4 DEF High, Captured, LockStep, CaptureKept
  <2> QED BY <1>1, <1>2, <1>6, <2>1, <2>4, <2>5
          DEF LockStep, AtRest, Arming, WaitLow, WaitHigh, Asking, ReadingBlock, CaptureKept, Captured
<1> QED BY <1>4, <1>5, <1>6

(* The read starts, and a block is asked for and delivered. *)
LEMMA LockStepDeliver ==
  ASSUME TypeInv, LockStep, RdStart \/ ReadFifo \/ Deliver
  PROVE  LockStep'
<1>1. Len(cmds) \in Nat /\ Len(net) \in Nat /\ BlockWords \in Nat /\ asked \in Nat
      /\ blockGot \in Nat
  BY LinkTyped, QueueFacts, SizesAssumption DEF TypeInv, TypeOK
<1>2. ASSUME NEW c, Take(c)
      PROVE  /\ Len(cmds) > 0 /\ cmds[1] = c /\ Len(cmds') = Len(cmds) - 1
             /\ \A i \in 1 .. Len(cmds) - 1 : cmds'[i] = cmds[i + 1]
             /\ asked = 0 /\ pc' = pc /\ blockGot' = blockGot
  BY <1>2, LinkTyped, QueueFacts DEF Take, program
<1>3. CASE RdStart
  <2>1. /\ pc \in {"ask", "block"} /\ cmds[1] = "rdStart" /\ Len(cmds) > 0
    <3>1. Len(cmds) > 0 /\ cmds[1] = "rdStart"
      BY <1>2, <1>3 DEF RdStart
    <3> QED BY <1>1, <3>1, Places
            DEF LockStep, AtRest, Arming, WaitLow, WaitHigh, CaptureKept, ArmCommands
  <2>2. Captured' /\ CaptureKept' /\ UNCHANGED <<net, asked>>
    BY <1>2, <1>3, <2>1 DEF RdStart, LockStep, CaptureKept, Captured
  <2>3. Asking' /\ ReadingBlock'
    <3>1. /\ pc' = pc /\ blockGot' = blockGot /\ Len(cmds') = Len(cmds) - 1
          /\ \A i \in 1 .. Len(cmds) - 1 : cmds'[i] = cmds[i + 1]
      BY <1>2, <1>3 DEF RdStart
    <3> QED BY <1>1, <2>1, <2>2, <3>1 DEF LockStep, Asking, ReadingBlock, NoReplies
  <2> QED BY <1>2, <1>3, <2>1, <2>2, <2>3
          DEF RdStart, LockStep, AtRest, Arming, WaitLow, WaitHigh
<1>4. CASE ReadFifo
  <2>1. /\ pc = "block" /\ Len(cmds) = 1 /\ NoReplies /\ blockGot = 0
    <3>1. Len(cmds) > 0 /\ cmds[1] = "readFifo"
      BY <1>2, <1>4 DEF ReadFifo
    <3>2. pc = "block"
      BY <1>1, <3>1, Places
      DEF LockStep, AtRest, Arming, WaitLow, WaitHigh, Asking, CaptureKept, ArmCommands
    <3> QED BY <1>1, <3>1, <3>2 DEF LockStep, ReadingBlock
  <2>2. /\ pc' = "block" /\ Len(cmds') = 0 /\ asked' = BlockWords /\ net' = net
        /\ blockGot' = 0 /\ UNCHANGED <<wr_busy, wr_wrapped>>
    BY <1>1, <1>2, <1>4, <2>1 DEF ReadFifo, buffer
  <2>3. ReadingBlock' /\ CaptureKept'
    BY <1>1, <2>1, <2>2 DEF LockStep, ReadingBlock, CaptureKept, Captured, NoReplies
  <2> QED BY <2>2, <2>3 DEF LockStep, AtRest, Arming, WaitLow, WaitHigh, Asking
<1>5. CASE Deliver
  <2>1. pc = "block" /\ Len(cmds) = 0 /\ blockGot + Len(net) + asked = BlockWords /\ asked > 0
    <3>1. asked > 0
      BY <1>5 DEF Deliver
    <3> QED BY <1>1, <3>1, Places
            DEF LockStep, AtRest, Arming, WaitLow, WaitHigh, Asking, ReadingBlock, CaptureKept, NoReplies
  <2>2. Len(net') = Len(net) + 1
    <3>1. Head(fifo) \in Reply
      BY <1>5, WordsTyped, QueueFacts, RepliesTyped DEF Deliver
    <3> QED BY <1>5, <3>1, LinkTyped, QueueFacts DEF Deliver
  <2>3. /\ pc' = "block" /\ Len(cmds') = 0 /\ asked' = asked - 1 /\ blockGot' = blockGot
        /\ UNCHANGED <<wr_busy, wr_wrapped>>
    BY <1>5, <2>1 DEF Deliver, program, buffer
  <2>4. ReadingBlock' /\ CaptureKept'
    BY <1>1, <2>1, <2>2, <2>3 DEF LockStep, ReadingBlock, CaptureKept, Captured
  <2> QED BY <2>3, <2>4 DEF LockStep, AtRest, Arming, WaitLow, WaitHigh, Asking
<1> QED BY <1>3, <1>4, <1>5

(* Reading ahead does not touch the link.                                  *)
LEMMA LockStepAhead ==
  ASSUME TypeInv, LockStep, ReadAhead
  PROVE  LockStep'
<1>1. UNCHANGED <<pc, blockGot, cmds, net, asked, wr_busy, wr_wrapped>>
  BY DEF ReadAhead, program, link, buffer
<1> QED BY <1>1 DEF LockStep, AtRest, Arming, WaitLow, WaitHigh, Asking, ReadingBlock,
                    CaptureKept, Captured, NoReplies

(* A trigger, and the stream, act only while no capture is complete.       *)
LEMMA LockStepCapture ==
  ASSUME TypeInv, LockStep, Trigger \/ Fill
  PROVE  LockStep'
<1>1. ~Captured /\ UNCHANGED <<pc, cmds, net, asked>>
  BY DEF Trigger, Fill, Captured, program, link, read
<1>2. wr_wrapped' => ~wr_busy'
  <2>1. CASE Trigger
    BY <2>1 DEF Trigger
  <2>2. CASE Fill
    <3>1. filled \in Nat /\ EventWords \in Nat
      BY BlockArithmetic DEF TypeInv, TypeOK
    <3>2. filled + 1 = EventWords => ~(filled + 1 < EventWords)
      BY <3>1
    <3> QED BY <2>2, <3>2, Zenon DEF Fill
  <2> QED BY <2>1, <2>2
<1>3. pc \notin {"start", "ask", "block"}
  BY <1>1 DEF LockStep, CaptureKept
<1> QED BY <1>1, <1>2, <1>3
        DEF LockStep, AtRest, Arming, WaitLow, WaitHigh, Asking, ReadingBlock, CaptureKept, NoReplies
-----------------------------------------------------------------------------
(* Each step keeps the lock step; a timeout ends what is claimed of it. *)
LEMMA LockStepStep ==
  ASSUME TypeInv, LockStepInv, [Next]_vars
  PROVE  TypeInv' /\ LockStepInv'
<1>1. CASE UNCHANGED vars
  BY <1>1, SMTT(30) DEF TypeInv, TypeOK, WholeBlocks, EventsLeft, LockStepInv, LockStep, AtRest,
     Arming, WaitLow, WaitHigh, Asking, ReadingBlock, CaptureKept, Captured, NoReplies,
     vars, program, link, board, buffer, read
<1>2. CASE Next
  <2>1. TypeInv'
    BY <1>2, ProgramTyped, BoardTyped DEF Next
  <2>2. CASE Timeout \/ BlockTimeout
    <3>1. late' # 0
      <4>1. late \in Nat
        BY Places
      <4>2. late' = late + 1
        BY <2>2 DEF Timeout, BlockTimeout
      <4> QED BY <4>1, <4>2
    <3> QED BY <2>1, <3>1 DEF LockStepInv
  <2>3. CASE (Program \/ Board \/ ReadAhead \/ Trigger \/ Fill) /\ late' = 0
    <3>1. late = 0
      BY <2>3 DEF Program, Arm, Query, StartRead, AskBlock, Send, Answer, ReadBlock, Save,
         Board, Configure, FifoReset, CtrlReset, Status, RdStart, ReadFifo, Deliver, Take,
         ReadAhead, Trigger, Fill, board
    <3>2. LockStep
      BY <3>1 DEF LockStepInv
    <3>3. ASSUME Arm PROVE LockStep'
      <4>1. PICK here \in {"disable", "fifoReset", "ctrlReset", "enable", "allow"},
                 next \in {"fifoReset", "ctrlReset", "enable", "allow", "poll8"},
                 c \in ArmCommands : Send(here, c, next)
        BY <3>3 DEF Arm, ArmCommands
      <4> QED BY <3>2, <4>1, LockStepArm
    <3>4. ASSUME Configure \/ FifoReset \/ CtrlReset PROVE LockStep'
      BY <3>2, <3>4, LockStepArmed
      DEF Configure, FifoReset, CtrlReset, ArmCommands, board, buffer, read, LockStep, CaptureKept
    <3>5. ASSUME NEW n \in 1 .. Len(net), Answer(n) \/ ReadBlock(n) PROVE LockStep'
      BY <3>2, <3>5, LockStepAnswer, LockStepReadBlock
    <3> QED BY <2>1, <2>3, <3>2, <3>3, <3>4, <3>5, LockStepQuery, LockStepRead,
               LockStepStatus, LockStepDeliver, LockStepAhead, LockStepCapture
            DEF Program, Board, LockStepInv
  <2> QED BY <1>2, <2>1, <2>2, <2>3 DEF Next, LockStepInv
<1> QED BY <1>1, <1>2

(* As long as no reply was given up, a read is started on the board only   *)
(* when the capture has filled the memory and stopped, for every number    *)
(* and size of blocks, and whatever state the board is in at first.        *)
THEOREM ReadAfterCaptureHolds == Spec => [](late = 0 => ReadAfterCapture)
<1>1. Init => TypeInv /\ LockStepInv
  BY InitTyped, LockStepInit
<1>2. ASSUME TypeInv, LockStepInv, [Next]_vars PROVE TypeInv' /\ LockStepInv'
  BY <1>2, LockStepStep
<1>3. TypeInv /\ LockStepInv => (late = 0 => ReadAfterCapture)
  <2> SUFFICES ASSUME TypeInv, LockStep, cmds # <<>>, Head(cmds) = "rdStart"
               PROVE  Captured
    BY DEF LockStepInv, ReadAfterCapture, Captured
  <2>1. Len(cmds) \in Nat /\ Len(cmds) > 0 /\ cmds[1] = "rdStart"
    BY LinkTyped, QueueFacts
  <2> QED BY <2>1, Places DEF LockStep, AtRest, Arming, WaitLow, WaitHigh, CaptureKept, ArmCommands
<1> QED BY <1>1, <1>2, <1>3, PTL DEF Spec
-----------------------------------------------------------------------------
(* What the capture buffer holds was captured after the present arming     *)
(* began, once the reset of that arming is done; a capture fills the       *)
(* memory from its first word on.                                          *)
ResetPending ==
  \/ pc \in {"disable", "fifoReset", "ctrlReset"}
  \/ \E i \in 1 .. Len(cmds) : cmds[i] = "ctrlReset"

FreshCapture ==
  /\ armedAt <= capture
  /\ ResetPending \/ (wr_busy = FALSE /\ wr_wrapped = FALSE) \/ armedAt < capture

(* As many words as the MIG held when the capture began are always in it.  *)
MemoryWritten ==
  /\ wr_wrapped => ~wr_busy /\ filled = EventWords
  /\ capture > 0 /\ (wr_busy \/ wr_wrapped) =>
       \A i \in Index : i < filled => mem[i] = Stored(i)
  /\ capture > 0 /\ wr_busy =>
       /\ Len(mig) = Len(left)
       /\ \A j \in 1 .. Len(mig) : mig[j] = Stored(filled + j - 1)

(* What the program holds, and what is on its way to it, is the memory     *)
(* from its first word on, as far as the read has come.                    *)
ReadStarted == \A i \in 1 .. Len(cmds) : cmds[i] # "rdStart"

Nth(old, kept, c, k) ==      \* Given(k), with what it depends on named
  IF k < Len(old) THEN old[k + 1]
  ELSE IF k - Len(old) < Len(kept) THEN kept[k - Len(old) + 1]
  ELSE Data(c, k - Len(old) - Len(kept))

InOrder ==
  /\ pc \notin {"ask", "block", "save"} => Len(got) = 0
  /\ pc = "save" => Captured /\ Len(got) = EventWords
  /\ pc \in {"ask", "block", "save"} =>
       IF ReadStarted
       THEN /\ Len(stale) + rdPos = Len(got) + Len(net) + Len(fifo)
            /\ \A i \in 1 .. Len(got) : got[i] = Nth(stale, left, capture, i - 1)
            /\ \A i \in 1 .. Len(net) :
                 net[i] = Nth(stale, left, capture, Len(got) + i - 1)
            /\ \A i \in 1 .. Len(fifo) :
                 fifo[i] = Nth(stale, left, capture, Len(got) + Len(net) + i - 1)
       ELSE Len(got) = 0

InOrderInv == late = 0 => InOrder

(* Without a read at the beginning of the arming, the output FIFO stays    *)
(* empty from its reset to the read of the event.                          *)
ClearPending ==
  pc = "fifoReset" \/ \E i \in 1 .. Len(cmds) : cmds[i] = "fifoReset"

BeforeRead ==
  \/ pc \in {"fifoReset", "ctrlReset", "enable", "allow", "poll8", "wait8", "poll9", "wait9",
             "start"}
  \/ pc \in {"ask", "block"} /\ ~ReadStarted

FifoEmpty ==
  ~readOn =>
    /\ BeforeRead => ~rd_busy /\ (ClearPending \/ Len(fifo) = 0)
    /\ pc \in {"ask", "block", "save"} /\ ReadStarted => Len(stale) = 0

FifoEmptyInv == late = 0 => FifoEmpty
-----------------------------------------------------------------------------
(* The words of a capture follow those that were left before it. *)
LEMMA StoredFollows ==
  ASSUME TypeInv, Len(mig) = Len(left), \A j \in 1 .. Len(mig) : mig[j] = Stored(filled + j - 1)
  PROVE  LET held == Append(mig, Data(capture, filled)) IN
         \A j \in 1 .. Len(mig) + 1 : held[j] = Stored(filled + j - 1)
<1> DEFINE held == Append(mig, Data(capture, filled))
<1>1. /\ Len(mig) \in Nat /\ filled \in Nat /\ held[Len(mig) + 1] = Data(capture, filled)
      /\ \A j \in 1 .. Len(mig) : held[j] = mig[j]
  BY HeldTyped, WordsTyped
<1> HIDE DEF held
<1>2. Stored(filled + (Len(mig) + 1) - 1) = Data(capture, filled)
  <2>1. filled + (Len(mig) + 1) - 1 = filled + Len(left) /\ ~(filled + Len(left) < Len(left))
        /\ (filled + Len(left)) - Len(left) = filled
    BY <1>1
  <2> QED BY <2>1 DEF Stored
<1>3. ASSUME NEW j \in 1 .. Len(mig) + 1 PROVE held[j] = Stored(filled + j - 1)
  <2>1. CASE j = Len(mig) + 1
    BY <1>1, <1>2, <2>1
  <2>2. CASE j # Len(mig) + 1
    <3>1. j \in 1 .. Len(mig)
      BY <1>1, <2>2
    <3> QED BY <1>1, <3>1
  <2> QED BY <2>1, <2>2
<1> QED BY <1>3 DEF held

(* Capture and memory change only as a trigger and the stream change them. *)
LEMMA MemoryStep ==
  ASSUME TypeInv, MemoryWritten, [Next]_vars
  PROVE  MemoryWritten'
<1>0. EventWords \in Nat /\ EventWords > 0
  BY BlockArithmetic
<1>1. CASE UNCHANGED buffer
  BY <1>1 DEF MemoryWritten, Stored, buffer
<1>2. CASE CtrlReset
  BY <1>2 DEF CtrlReset, MemoryWritten
<1>3. CASE RdStart
  <2>1. wr_busy' = FALSE /\ UNCHANGED <<wr_wrapped, filled, mem, capture, left>>
    BY <1>3 DEF RdStart
  <2> QED BY <2>1 DEF MemoryWritten, Stored
<1>4. CASE Trigger
  <2>1. filled' = 0 /\ left' = mig /\ mig' = mig /\ wr_wrapped' = FALSE
    BY <1>4 DEF Trigger, TypeInv, TypeOK
  <2>2. Len(mig) \in Nat
    BY WordsTyped
  <2>3. ASSUME NEW j \in 1 .. Len(mig') PROVE mig'[j] = Stored(filled + j - 1)'
    <3>1. j \in Nat /\ j >= 1 /\ j <= Len(mig)
      BY <2>1, <2>2, <2>3
    <3>2. 0 + j - 1 < Len(mig) /\ (0 + j - 1) + 1 = j
      BY <2>2, <3>1
    <3> QED BY <2>1, <3>1, <3>2 DEF Stored
  <2>4. \A i \in Index : ~(i < filled')
    BY <1>0, <2>1 DEF Index
  <2> QED BY <2>1, <2>3, <2>4 DEF MemoryWritten
<1>5. CASE Fill
  <2> DEFINE held == Append(mig, Data(capture, filled))
  <2>1. /\ wr_busy /\ mem' = [mem EXCEPT ![filled] = Head(held)] /\ filled' = filled + 1
        /\ wr_busy' = (filled + 1 < EventWords) /\ wr_wrapped' = (filled + 1 = EventWords)
        /\ wr_busy' => mig' = Tail(held)
        /\ capture' = capture /\ left' = left
    BY <1>5 DEF Fill
  <2>2. /\ mem \in [Index -> Word] /\ filled \in Nat /\ Len(mig) \in Nat /\ Len(left) \in Nat
    BY WordsTyped
  <2>3. /\ Head(held) = held[1] /\ Len(Tail(held)) = Len(mig)
        /\ \A i \in 1 .. Len(mig) : Tail(held)[i] = held[i + 1]
    BY HeldTyped
  <2>4. wr_wrapped' => ~wr_busy' /\ filled' = EventWords
    <3>1. filled + 1 = EventWords => ~(filled + 1 < EventWords)
      BY <1>0, <2>2
    <3> QED BY <2>1, <3>1, Zenon
  <2>5. ASSUME capture > 0
        PROVE  /\ Len(mig) = Len(left)
               /\ \A i \in Index : i < filled => mem[i] = Stored(i)
               /\ \A j \in 1 .. Len(mig) + 1 : held[j] = Stored(filled + j - 1)
    <3>1. Len(mig) = Len(left) /\ \A j \in 1 .. Len(mig) : mig[j] = Stored(filled + j - 1)
      BY <2>1, <2>5 DEF MemoryWritten
    <3>2. \A i \in Index : i < filled => mem[i] = Stored(i)
      BY <2>1, <2>5 DEF MemoryWritten
    <3> QED BY <3>1, <3>2, StoredFollows
  <2> HIDE DEF held
  <2>6. \A i : Stored(i)' = Stored(i)
    BY <2>1 DEF Stored
  <2>7. ASSUME capture > 0, NEW i \in Index, i < filled' PROVE mem'[i] = Stored(i)
    <3>1. CASE i < filled
      <4>1. mem'[i] = mem[i]
        BY <2>1, <2>2, <2>7, <3>1 DEF Index
      <4> QED BY <2>5, <2>7, <3>1, <4>1
    <3>2. CASE i = filled
      <4>1. mem'[i] = held[1]
        BY <2>1, <2>2, <2>3, <2>7, <3>2
      <4>2. held[1] = Stored(filled + 1 - 1) /\ filled + 1 - 1 = filled
        BY <2>2, <2>5, <2>7
      <4> QED BY <3>2, <4>1, <4>2
    <3>3. i < filled \/ i = filled
      BY <2>1, <2>2, <2>7 DEF Index
    <3> QED BY <3>1, <3>2, <3>3
  <2>8. ASSUME capture > 0, wr_busy', NEW j \in 1 .. Len(mig')
        PROVE  mig'[j] = Stored(filled' + j - 1)
    <3>1. mig' = Tail(held) /\ j \in 1 .. Len(mig)
      BY <2>1, <2>3, <2>8
    <3>2. mig'[j] = held[j + 1] /\ j + 1 \in 1 .. Len(mig) + 1
      BY <2>2, <2>3, <3>1
    <3>3. held[j + 1] = Stored(filled + (j + 1) - 1)
      BY <2>5, <2>8, <3>2
    <3>4. filled + (j + 1) - 1 = filled' + j - 1
      BY <2>1, <2>2, <3>1
    <3> QED BY <3>2, <3>3, <3>4
  <2>9. ASSUME capture > 0, wr_busy' PROVE Len(mig') = Len(left')
    BY <2>1, <2>3, <2>5, <2>9
  <2>10. capture' > 0 /\ (wr_busy' \/ wr_wrapped')
           => \A i \in Index : i < filled' => mem'[i] = Stored(i)'
    BY <2>1, <2>6, <2>7
  <2>11. capture' > 0 /\ wr_busy'
           => /\ Len(mig') = Len(left')
              /\ \A j \in 1 .. Len(mig') : mig'[j] = Stored(filled + j - 1)'
    <3>1. ASSUME capture' > 0, wr_busy', NEW j \in 1 .. Len(mig')
          PROVE  mig'[j] = Stored(filled + j - 1)'
      <4>1. mig'[j] = Stored(filled' + j - 1)
        BY <2>1, <2>8, <3>1
      <4>2. filled' = filled + 1 /\ left' = left /\ capture' = capture
        BY <2>1
      <4> QED BY <4>1, <4>2 DEF Stored
    <3> QED BY <2>1, <2>9, <3>1
  <2> QED BY <2>4, <2>10, <2>11 DEF MemoryWritten
<1>6. ASSUME Program \/ Timeout \/ BlockTimeout PROVE UNCHANGED buffer
  BY <1>6 DEF Program, Arm, Query, StartRead, AskBlock, Send, Answer, ReadBlock, Save,
              Timeout, BlockTimeout, board
<1>7. ASSUME \/ Configure \/ FifoReset \/ Status \/ ReadFifo \/ Deliver \/ ReadAhead
             \/ UNCHANGED vars
      PROVE  UNCHANGED buffer
  BY <1>7 DEF Configure, FifoReset, Status, ReadFifo, Deliver, ReadAhead, board, vars
<1> QED BY <1>1, <1>2, <1>3, <1>4, <1>5, <1>6, <1>7 DEF Next, Board

(* A reset that is on its way stays so until the board executes it. *)
LEMMA PendingKept ==
  ASSUME TypeInv, ResetPending, Program \/ Timeout \/ BlockTimeout \/ Trigger \/ Fill
                                \/ (\E c : c # "ctrlReset" /\ Take(c))
  PROVE  ResetPending'
<1>1. CASE UNCHANGED <<pc, cmds>>
  BY <1>1 DEF ResetPending
<1>2. ASSUME NEW here, NEW c \in Commands, NEW next, Send(here, c, next),
             c = "ctrlReset" \/ next \in {"fifoReset", "ctrlReset"}
             \/ here \notin {"disable", "fifoReset", "ctrlReset"}
      PROVE  ResetPending'
  <2>1. /\ Len(cmds) \in Nat /\ Len(cmds') = Len(cmds) + 1 /\ cmds'[Len(cmds) + 1] = c
        /\ \A i \in 1 .. Len(cmds) : cmds'[i] = cmds[i]
    BY <1>2, LinkTyped, QueueFacts DEF Send
  <2>2. CASE c = "ctrlReset"
    BY <2>1, <2>2 DEF ResetPending
  <2>3. CASE next \in {"fifoReset", "ctrlReset"}
    BY <1>2, <2>3 DEF ResetPending, Send
  <2>4. CASE here \notin {"disable", "fifoReset", "ctrlReset"}
    <3>1. PICK i \in 1 .. Len(cmds) : cmds[i] = "ctrlReset"
      BY <1>2, <2>4 DEF ResetPending, Send
    <3>2. i \in 1 .. Len(cmds') /\ cmds'[i] = "ctrlReset"
      BY <2>1, <3>1
    <3> QED BY <3>2 DEF ResetPending
  <2> QED BY <1>2, <2>2, <2>3, <2>4
<1>3. ASSUME Arm \/ Query \/ StartRead \/ AskBlock PROVE ResetPending'
  <2>1. CASE Send("disable", "disable", "fifoReset")
    BY <1>2, <2>1 DEF Commands
  <2>2. CASE Send("fifoReset", "fifoReset", "ctrlReset")
    BY <1>2, <2>2 DEF Commands
  <2>3. CASE Send("ctrlReset", "ctrlReset", "enable")
    BY <1>2, <2>3 DEF Commands
  <2>4. CASE \/ Send("enable", "enable", "allow") \/ Send("allow", "allow", "poll8")
             \/ Send("poll8", "status8", "wait8") \/ Send("poll9", "status9", "wait9")
             \/ Send("start", "rdStart", "ask") \/ Send("ask", "readFifo", "block")
    BY <1>2, <2>4 DEF Commands
  <2> QED BY <1>3, <2>1, <2>2, <2>3, <2>4 DEF Arm, Query, StartRead, AskBlock
<1>4. ASSUME \/ \E n \in 1 .. Len(net) : Answer(n) \/ ReadBlock(n)
             \/ Save \/ Timeout \/ BlockTimeout
      PROVE  ResetPending'
  <2>1. pc \notin {"disable", "fifoReset", "ctrlReset"} /\ cmds' = cmds
    BY <1>4 DEF Answer, ReadBlock, Save, Timeout, BlockTimeout, link
  <2> QED BY <2>1 DEF ResetPending
<1>5. ASSUME NEW c, c # "ctrlReset", Take(c) PROVE ResetPending'
  <2>1. /\ Len(cmds) \in Nat /\ cmds[1] = c /\ Len(cmds') = Len(cmds) - 1 /\ pc' = pc
        /\ \A i \in 1 .. Len(cmds) - 1 : cmds'[i] = cmds[i + 1]
    BY <1>5, LinkTyped, QueueFacts DEF Take, program
  <2>2. ASSUME NEW i \in 1 .. Len(cmds), cmds[i] = "ctrlReset" PROVE ResetPending'
    <3>1. i # 1
      BY <1>5, <2>1, <2>2
    <3>2. i - 1 \in 1 .. Len(cmds') /\ cmds'[i - 1] = "ctrlReset"
      BY <2>1, <2>2, <3>1
    <3> QED BY <3>2 DEF ResetPending
  <2> QED BY <2>1, <2>2 DEF ResetPending
<1>6. ASSUME Trigger \/ Fill PROVE UNCHANGED <<pc, cmds>>
  BY <1>6 DEF Trigger, Fill, program, link
<1> QED BY <1>1, <1>3, <1>4, <1>5, <1>6 DEF Program

(* A capture that the buffer holds after the reset began after the arming. *)
LEMMA FreshStep ==
  ASSUME TypeInv, FreshCapture, [Next]_vars
  PROVE  FreshCapture'
<1>0. armedAt \in Nat /\ capture \in Nat /\ wr_busy \in BOOLEAN /\ wr_wrapped \in BOOLEAN
  BY DEF TypeInv, TypeOK
<1>1. CASE Trigger
  <2>1. capture' = capture + 1 /\ armedAt' = armedAt
    BY <1>1 DEF Trigger, program
  <2> QED BY <1>0, <2>1 DEF FreshCapture
<1>2. CASE Fill
  <2>1. wr_busy = TRUE /\ UNCHANGED <<armedAt, capture>>
    BY <1>0, <1>2 DEF Fill, program
  <2>2. ResetPending => ResetPending'
    BY <1>2, PendingKept
  <2> QED BY <2>1, <2>2 DEF FreshCapture
<1>3. CASE CtrlReset
  BY <1>3 DEF CtrlReset, Take, program, FreshCapture
<1>4. CASE Program \/ Timeout \/ BlockTimeout
  <2>1. UNCHANGED <<wr_busy, wr_wrapped, capture>>
    BY <1>4 DEF Program, Arm, Query, StartRead, AskBlock, Send, Answer, ReadBlock, Save,
                Timeout, BlockTimeout, board, buffer
  <2>2. ResetPending => ResetPending'
    BY <1>4, PendingKept
  <2>3. CASE armedAt' = armedAt
    BY <2>1, <2>2, <2>3 DEF FreshCapture
  <2>4. CASE armedAt' # armedAt
    <3>1. Send("disable", "disable", "fifoReset") /\ NewArming
      BY <1>4, <2>4 DEF SameArming, Program, Arm, Query, StartRead, AskBlock, Answer, ReadBlock, Save,
                        Timeout, BlockTimeout
    <3> QED BY <1>0, <2>1, <3>1 DEF FreshCapture, ResetPending, Send, NewArming
  <2> QED BY <2>3, <2>4
<1>5. CASE Configure \/ FifoReset \/ Status \/ RdStart \/ ReadFifo
  <2>1. PICK c : c # "ctrlReset" /\ Take(c)
    BY <1>5 DEF Configure, FifoReset, Status, RdStart, ReadFifo
  <2>2. ResetPending => ResetPending'
    BY <2>1, PendingKept
  <2>3. UNCHANGED <<armedAt, capture, wr_wrapped>> /\ (wr_busy' = wr_busy \/ wr_busy' = FALSE)
    BY <1>5 DEF Configure, FifoReset, Status, RdStart, ReadFifo, Take, program, board, buffer
  <2> QED BY <2>2, <2>3 DEF FreshCapture
<1>6. CASE Deliver \/ ReadAhead \/ UNCHANGED vars
  <2>1. UNCHANGED <<armedAt, capture, wr_wrapped, wr_busy, pc, cmds>>
    BY <1>6 DEF Deliver, ReadAhead, vars, program, link, board, buffer
  <2> QED BY <2>1 DEF FreshCapture, ResetPending
<1> QED BY <1>1, <1>2, <1>3, <1>4, <1>5, <1>6 DEF Next, Board
-----------------------------------------------------------------------------
(* Outside the read the program holds nothing, and stays so. *)
LEMMA InOrderOutside ==
  ASSUME InOrder, Len(got') = 0, pc' \notin {"ask", "block", "save"}
  PROVE  InOrder'
  BY DEF InOrder

(* A block comes in pieces, each of which continues the one before. *)
LEMMA InOrderReadBlock ==
  ASSUME TypeInv, TypeInv', LockStep, InOrder, NEW n \in 1 .. Len(net), ReadBlock(n)
  PROVE  InOrder'
<1>1. net \in Seq(Reply) /\ got \in Seq(Reply) /\ Len(got') <= EventWords /\ EventWords \in Nat
  BY BlockArithmetic DEF TypeInv, TypeOK
<1>2. /\ Len(net) \in Nat /\ Len(got) \in Nat /\ n \in Nat /\ n > 0
      /\ Len(net') = Len(net) - n /\ Len(SubSeq(net, 1, n)) = n
      /\ SubSeq(net, 1, n) \in Seq(Reply)
  BY <1>1, QueueFacts DEF ReadBlock
<1>3. Len(cmds) = 0
  <2>1. Len(cmds) \in Nat
    BY LinkTyped, QueueFacts
  <2> QED BY <1>2, <2>1 DEF LockStep, ReadingBlock, NoReplies, ReadBlock
<1>4. /\ pc = "block" /\ Len(stale) + rdPos = Len(got) + Len(net) + Len(fifo)
      /\ \A i \in 1 .. Len(got) : got[i] = Nth(stale, left, capture, i - 1)
      /\ \A i \in 1 .. Len(net) : net[i] = Nth(stale, left, capture, Len(got) + i - 1)
      /\ \A i \in 1 .. Len(fifo) :
           fifo[i] = Nth(stale, left, capture, Len(got) + Len(net) + i - 1)
  BY <1>3 DEF InOrder, ReadStarted, ReadBlock
<1>5. /\ Len(got') = Len(got) + n
      /\ \A i \in 1 .. Len(got) + n :
           got'[i] = IF i <= Len(got) THEN got[i] ELSE SubSeq(net, 1, n)[i - Len(got)]
  BY <1>1, <1>2, ConcatProperties, ZenonT(60) DEF ReadBlock
<1>6. \A i \in 1 .. n : SubSeq(net, 1, n)[i] = net[i]
  <2>1. \A i \in 1 .. n : net[i] \in Reply
    BY <1>1, <1>2, QueueFacts
  <2>2. \A i \in 1 .. n - 1 + 1 : SubSeq(net, 1, n)[i] = net[1 + i - 1]
    BY <1>2, <2>1, SubSeqProperties
  <2> QED BY <1>2, <2>2
<1>7. \A i \in 1 .. Len(net) - n : net'[i] = net[n + i]
  <2>1. \A i \in n + 1 .. Len(net) : net[i] \in Reply
    BY <1>1, <1>2, QueueFacts
  <2>2. n + 1 \in Int /\ Len(net) \in Int
    BY <1>2
  <2>3. \A i \in 1 .. Len(net) - (n + 1) + 1 :
           SubSeq(net, n + 1, Len(net))[i] = net[n + 1 + i - 1]
    BY <2>1, <2>2, SubSeqProperties
  <2>4. net' = SubSeq(net, n + 1, Len(net))
    BY DEF ReadBlock
  <2>5. ASSUME NEW i \in 1 .. Len(net) - n PROVE net'[i] = net[n + i]
    <3>1. i \in 1 .. Len(net) - (n + 1) + 1 /\ n + 1 + i - 1 = n + i
      BY <1>2, <2>5
    <3> QED BY <2>3, <2>4, <3>1
  <2> QED BY <2>5
<1>8. ASSUME NEW i \in 1 .. Len(got') PROVE got'[i] = Nth(stale, left, capture, i - 1)
  <2>1. CASE i <= Len(got)
    <3>1. i \in 1 .. Len(got) /\ i \in 1 .. Len(got) + n
      BY <1>2, <1>5, <1>8, <2>1
    <3>2. got'[i] = got[i]
      BY <1>5, <2>1, <3>1
    <3> QED BY <1>4, <3>1, <3>2
  <2>2. CASE i > Len(got)
    <3>1. PICK j \in 1 .. n : i = Len(got) + j
      <4>1. i - Len(got) \in 1 .. n /\ i = Len(got) + (i - Len(got))
        BY <1>2, <1>5, <1>8, <2>2
      <4> QED BY <4>1
    <3>2. got'[i] = net[j]
      BY <1>2, <1>5, <1>6, <2>2, <3>1, SMTT(30)
    <3>3. net[j] = Nth(stale, left, capture, Len(got) + j - 1)
      BY <1>2, <1>4, <3>1
    <3> QED BY <3>1, <3>2, <3>3
  <2> QED BY <1>2, <1>5, <2>1, <2>2
<1>9. ASSUME NEW i \in 1 .. Len(net')
      PROVE  net'[i] = Nth(stale, left, capture, Len(got') + i - 1)
  <2>1. n + i \in 1 .. Len(net) /\ i \in 1 .. Len(net) - n
    BY <1>2, <1>9
  <2>2. net'[i] = Nth(stale, left, capture, Len(got) + (n + i) - 1)
    BY <1>4, <1>7, <2>1
  <2>3. Len(got) + (n + i) - 1 = Len(got') + i - 1
    BY <1>2, <1>5, <1>9
  <2> QED BY <2>2, <2>3
<1>10. /\ Captured' /\ UNCHANGED <<capture, left, stale, rdPos, fifo, cmds>>
       /\ pc' \in {"block", "ask", "save"}
       /\ pc' = "save" => Len(got') = EventWords
  <2>1. Captured' /\ UNCHANGED <<capture, left, stale, rdPos, fifo, cmds>>
    BY <1>4 DEF LockStep, CaptureKept, Captured, ReadBlock, board, buffer, read
  <2>2. pc' \in {"block", "ask", "save"} /\ (pc' = "save" => ~(Len(got') < EventWords))
    BY DEF ReadBlock
  <2>3. Len(got') \in Nat
    BY <1>2, <1>5
  <2> QED BY <1>1, <2>1, <2>2, <2>3
<1>11. Len(got') + Len(net') = Len(got) + Len(net)
  BY <1>2, <1>5
<1>12. ReadStarted' /\ Len(stale') + rdPos' = Len(got') + Len(net') + Len(fifo')
  <2>1. ReadStarted'
    BY <1>3, <1>10 DEF ReadStarted
  <2>2. Len(stale) + rdPos = (Len(got) + Len(net)) + Len(fifo)
    BY <1>4
  <2>3. Len(stale') + rdPos' = (Len(got') + Len(net')) + Len(fifo')
    BY <1>10, <1>11, <2>2
  <2> QED BY <2>1, <2>3
<1>13. \A i \in 1 .. Len(fifo') :
          fifo'[i] = Nth(stale', left', capture', Len(got') + Len(net') + i - 1)
  BY <1>4, <1>10, <1>11
<1> QED BY <1>8, <1>9, <1>10, <1>12, <1>13 DEF InOrder

(* The program's other steps neither take nor add words of the event. *)
LEMMA InOrderProgram ==
  ASSUME TypeInv, TypeInv', LockStep, InOrder, Program
  PROVE  InOrder'
<1>1. CASE Arm \/ Query
  <2>1. /\ pc \notin {"ask", "block", "save"} /\ pc' \notin {"ask", "block", "save"}
        /\ got' = got
    BY <1>1 DEF Arm, Query, Send
  <2> QED BY <2>1, InOrderOutside DEF InOrder
<1>2. ASSUME NEW n \in 1 .. Len(net), Answer(n) PROVE InOrder'
  <2>1. /\ pc \notin {"ask", "block", "save"} /\ pc' \notin {"ask", "block", "save"}
        /\ got' = got
    BY <1>2 DEF Answer, After
  <2> QED BY <2>1, InOrderOutside DEF InOrder
<1>3. ASSUME NEW n \in 1 .. Len(net), ReadBlock(n) PROVE InOrder'
  BY <1>3, InOrderReadBlock
<1>4. CASE StartRead
  <2>1. Len(cmds) = 0 /\ Len(got) = 0
    BY <1>4 DEF LockStep, AtRest, InOrder, StartRead, Send
  <2>2. Len(cmds') = 1 /\ cmds'[1] = "rdStart" /\ pc' = "ask" /\ got' = got
    BY <1>4, <2>1, LinkTyped, QueueFacts DEF StartRead, Send, Commands
  <2>3. ~ReadStarted'
    BY <2>2 DEF ReadStarted
  <2> QED BY <2>1, <2>2, <2>3 DEF InOrder
<1>5. CASE AskBlock
  <2>1. /\ Len(cmds) \in Nat /\ Len(cmds') = Len(cmds) + 1 /\ cmds'[Len(cmds) + 1] = "readFifo"
        /\ \A i \in 1 .. Len(cmds) : cmds'[i] = cmds[i]
    BY <1>5, LinkTyped, QueueFacts DEF AskBlock, Send, Commands
  <2>2. ReadStarted' <=> ReadStarted
    BY <2>1 DEF ReadStarted
  <2>3. pc = "ask" /\ pc' = "block" /\ UNCHANGED <<got, net, rdPos, fifo, capture, left, stale>>
    BY <1>5 DEF AskBlock, Send, board, buffer, read
  <2> QED BY <2>2, <2>3 DEF InOrder
<1>6. CASE Save
  <2>1. Len(got') = 0 /\ pc' \notin {"ask", "block", "save"}
    BY <1>6, EmptySeq DEF Save
  <2> QED BY <2>1, InOrderOutside
<1> QED BY <1>1, <1>2, <1>3, <1>4, <1>5, <1>6 DEF Program

(* A word that the board delivers is the next word of the event. *)
LEMMA InOrderDeliver ==
  ASSUME TypeInv, LockStep, InOrder, Deliver
  PROVE  InOrder'
<1>0. /\ net \in Seq(Reply) /\ Len(net) \in Nat /\ Len(got) \in Nat
      /\ fifo \in Seq(Word) /\ Len(fifo) \in Nat /\ Len(stale) \in Nat /\ rdPos \in Nat
  BY WordsTyped, QueueFacts DEF TypeInv, TypeOK
<1>1. pc = "block" /\ Len(cmds) = 0
  <2>1. asked > 0 /\ Len(cmds) \in Nat
    BY LinkTyped, QueueFacts DEF Deliver
  <2> QED BY <2>1, Places DEF LockStep, AtRest, Arming, WaitLow, WaitHigh, Asking, ReadingBlock,
             CaptureKept, NoReplies
<1>2. /\ Len(stale) + rdPos = Len(got) + Len(net) + Len(fifo)
      /\ \A i \in 1 .. Len(got) : got[i] = Nth(stale, left, capture, i - 1)
      /\ \A i \in 1 .. Len(net) : net[i] = Nth(stale, left, capture, Len(got) + i - 1)
      /\ \A i \in 1 .. Len(fifo) :
           fifo[i] = Nth(stale, left, capture, Len(got) + Len(net) + i - 1)
  BY <1>1 DEF InOrder, ReadStarted
<1>3. /\ fifo # <<>> /\ Len(fifo) > 0 /\ Head(fifo) = fifo[1] /\ Head(fifo) \in Reply
      /\ Len(Tail(fifo)) = Len(fifo) - 1
      /\ \A i \in 1 .. Len(fifo) - 1 : Tail(fifo)[i] = fifo[i + 1]
  <2>1. fifo # <<>> /\ Len(fifo) > 0
    BY <1>0, QueueFacts DEF Deliver
  <2> QED BY <1>0, <2>1, QueueFacts, RepliesTyped
<1>4. /\ Len(net') = Len(net) + 1 /\ net'[Len(net) + 1] = fifo[1]
      /\ \A i \in 1 .. Len(net) : net'[i] = net[i]
  BY <1>0, <1>3, QueueFacts DEF Deliver
<1>5. /\ UNCHANGED <<pc, got, cmds, capture, left, stale, rdPos>> /\ fifo' = Tail(fifo)
  BY DEF Deliver, program, buffer
<1>6. ASSUME NEW i \in 1 .. Len(net')
      PROVE  net'[i] = Nth(stale, left, capture, Len(got) + i - 1)
  <2>1. CASE i <= Len(net)
    BY <1>0, <1>2, <1>4, <1>6, <2>1
  <2>2. CASE i = Len(net) + 1
    <3>1. fifo[1] = Nth(stale, left, capture, Len(got) + Len(net) + 1 - 1)
      BY <1>0, <1>2, <1>3
    <3>2. Len(got) + Len(net) + 1 - 1 = Len(got) + i - 1
      BY <1>0, <2>2
    <3> QED BY <1>4, <2>2, <3>1, <3>2
  <2> QED BY <1>0, <1>4, <1>6, <2>1, <2>2
<1>7. ASSUME NEW i \in 1 .. Len(fifo')
      PROVE  fifo'[i] = Nth(stale, left, capture, Len(got) + Len(net') + i - 1)
  <2>1. i \in 1 .. Len(fifo) - 1 /\ i + 1 \in 1 .. Len(fifo)
    BY <1>0, <1>3, <1>5, <1>7
  <2>2. fifo'[i] = fifo[i + 1]
    BY <1>3, <1>5, <2>1
  <2>3. fifo[i + 1] = Nth(stale, left, capture, Len(got) + Len(net) + (i + 1) - 1)
    BY <1>2, <2>1
  <2>4. Len(got) + Len(net) + (i + 1) - 1 = Len(got) + Len(net') + i - 1
    BY <1>0, <1>4, <2>1
  <2> QED BY <2>2, <2>3, <2>4
<1>8. ReadStarted' /\ Len(stale') + rdPos' = Len(got') + Len(net') + Len(fifo')
  <2>1. Len(net') + Len(fifo') = Len(net) + Len(fifo)
    BY <1>0, <1>3, <1>4, <1>5
  <2>2. Len(net') \in Nat /\ Len(fifo') \in Nat
    BY <1>0, <1>3, <1>4, <1>5
  <2>3. Len(stale) + rdPos = Len(got) + (Len(net) + Len(fifo)) /\ Len(got') = Len(got)
    BY <1>0, <1>2, <1>5
  <2>4. Len(stale') + rdPos' = Len(got') + (Len(net') + Len(fifo'))
    BY <1>5, <2>1, <2>3
  <2>5. Len(got') + (Len(net') + Len(fifo')) = Len(got') + Len(net') + Len(fifo')
    BY <1>0, <2>2, <2>3
  <2>6. ReadStarted'
    BY <1>1, <1>5 DEF ReadStarted
  <2> QED BY <2>4, <2>5, <2>6
<1> QED BY <1>1, <1>2, <1>5, <1>6, <1>7, <1>8 DEF InOrder

(* Neither does a read go on nor a trigger count before the reset of the   *)
(* arming: where the event is read, the capture is one of this run.        *)
LEMMA CaptureOfThisRun ==
  ASSUME TypeInv, LockStep, FreshCapture, InOrder, pc \in {"ask", "block", "save"}
  PROVE  Captured /\ capture > 0 /\ capture > armedAt
<1>1. Len(cmds) \in Nat
  BY LinkTyped, QueueFacts
<1>2. \A i \in 1 .. Len(cmds) : cmds[i] # "ctrlReset"
  BY <1>1 DEF LockStep, AtRest, Asking, ReadingBlock
<1>3. ~ResetPending
  BY <1>2 DEF ResetPending
<1>4. armedAt \in Nat /\ capture \in Nat
  BY DEF TypeInv, TypeOK
<1>5. Captured
  BY DEF LockStep, CaptureKept, InOrder
<1>6. armedAt < capture
  BY <1>3, <1>5 DEF FreshCapture, Captured
<1> QED BY <1>4, <1>5, <1>6

(* A word that the read takes from the memory is the next of the event.    *)
LEMMA InOrderAhead ==
  ASSUME TypeInv, LockStep, FreshCapture, MemoryWritten, InOrder, ReadAhead
  PROVE  InOrder'
<1>0. /\ Len(net) \in Nat /\ Len(got) \in Nat /\ fifo \in Seq(Word) /\ Len(fifo) \in Nat
      /\ Len(stale) \in Nat /\ rdPos \in Nat /\ EventWords \in Nat
      /\ mem \in [Index -> Word]
  BY WordsTyped, QueueFacts DEF TypeInv, TypeOK
<1>1. /\ UNCHANGED <<pc, got, net, cmds, capture, left, stale, wr_busy, wr_wrapped>>
      /\ rdPos' = rdPos + 1 /\ fifo' = Append(fifo, mem[rdPos])
  BY DEF ReadAhead, program, link, buffer
<1>2. CASE pc \notin {"ask", "block", "save"} \/ ~ReadStarted
  <2>1. Len(got') = 0 \/ pc \notin {"ask", "block", "save"}
    BY <1>1, <1>2 DEF InOrder
  <2> QED BY <1>1, <1>2, <2>1 DEF InOrder, Captured, ReadStarted
<1>3. CASE pc \in {"ask", "block", "save"} /\ ReadStarted
  <2>1. /\ Len(stale) + rdPos = Len(got) + Len(net) + Len(fifo)
        /\ \A i \in 1 .. Len(fifo) :
             fifo[i] = Nth(stale, left, capture, Len(got) + Len(net) + i - 1)
    BY <1>3 DEF InOrder
  <2>2. Captured /\ capture > 0
    BY <1>3, CaptureOfThisRun
  <2>3. rdPos \in Index
    <3>1. rdPos < EventWords
      BY DEF ReadAhead, TypeInv, TypeOK
    <3> QED BY <1>0, <3>1 DEF Index
  <2>4. mem[rdPos] = Stored(rdPos)
    <3>1. filled = EventWords
      BY <2>2 DEF Captured, MemoryWritten
    <3>2. rdPos < filled
      BY <1>0, <2>3, <3>1 DEF Index
    <3> QED BY <2>2, <2>3, <3>2 DEF Captured, MemoryWritten
  <2>5. Stored(rdPos) = Nth(stale, left, capture, Len(stale) + rdPos)
    <3>1. ~(Len(stale) + rdPos < Len(stale)) /\ (Len(stale) + rdPos) - Len(stale) = rdPos
      BY <1>0
    <3> QED BY <3>1 DEF Stored, Nth
  <2>6. /\ Len(fifo') = Len(fifo) + 1 /\ fifo'[Len(fifo) + 1] = mem[rdPos]
        /\ \A i \in 1 .. Len(fifo) : fifo'[i] = fifo[i]
    BY <1>0, <1>1, <2>3, QueueFacts
  <2>7. ASSUME NEW i \in 1 .. Len(fifo')
        PROVE  fifo'[i] = Nth(stale, left, capture, Len(got) + Len(net) + i - 1)
    <3>1. CASE i \in 1 .. Len(fifo)
      BY <2>1, <2>6, <3>1
    <3>2. CASE i = Len(fifo) + 1
      <4>1. Len(got) + Len(net) + i - 1 = Len(stale) + rdPos
        BY <1>0, <2>1, <3>2
      <4> QED BY <2>4, <2>5, <2>6, <3>2, <4>1
    <3>3. i \in 1 .. Len(fifo) \/ i = Len(fifo) + 1
      BY <1>0, <2>6, <2>7
    <3> QED BY <3>1, <3>2, <3>3
  <2>8. Len(stale') + rdPos' = Len(got') + Len(net') + Len(fifo')
    <3>1. Len(stale) + rdPos = Len(got) + Len(net) + Len(fifo) /\ Len(fifo') = Len(fifo) + 1
      BY <2>1, <2>6
    <3>2. Len(stale) + (rdPos + 1) = Len(got) + Len(net) + (Len(fifo) + 1)
      BY <1>0, <3>1
    <3> QED BY <1>1, <3>1, <3>2
  <2> QED BY <1>1, <1>3, <2>7, <2>8 DEF InOrder, Captured, ReadStarted
<1> QED BY <1>2, <1>3

(* The board's other steps leave the read alone, or start it afresh. *)
LEMMA InOrderBoard ==
  ASSUME TypeInv, LockStep, InOrder, Board
  PROVE  InOrder'
<1>0. Len(cmds) \in Nat
  BY LinkTyped, QueueFacts
<1>1. ASSUME NEW c, Take(c)
      PROVE  /\ Len(cmds) > 0 /\ cmds[1] = c /\ Len(cmds') = Len(cmds) - 1
             /\ \A i \in 1 .. Len(cmds) - 1 : cmds'[i] = cmds[i + 1]
             /\ pc' = pc /\ got' = got
  BY <1>1, LinkTyped, QueueFacts DEF Take, program
<1>2. ASSUME Len(cmds) > 0, pc \in {"ask", "block", "save"}
      PROVE  /\ cmds[1] \in {"rdStart", "readFifo"} /\ pc \in {"ask", "block"}
             /\ Len(net) = 0
             /\ \A i \in 1 .. Len(cmds) : i > 1 => cmds[i] = "readFifo"
  BY <1>0, <1>2 DEF LockStep, AtRest, Asking, ReadingBlock, NoReplies
<1>3. CASE Configure \/ FifoReset \/ CtrlReset \/ Status
  <2>1. PICK c : c \notin {"rdStart", "readFifo"} /\ Take(c)
    BY <1>3 DEF Configure, FifoReset, CtrlReset, Status
  <2>2. pc \notin {"ask", "block", "save"} /\ pc' = pc /\ got' = got
    BY <1>1, <1>2, <2>1
  <2> QED BY <2>2, InOrderOutside DEF InOrder
<1>4. CASE RdStart
  <2>1. /\ Len(cmds) > 0 /\ cmds[1] = "rdStart" /\ Len(cmds') = Len(cmds) - 1
        /\ \A i \in 1 .. Len(cmds) - 1 : cmds'[i] = cmds[i + 1]
        /\ pc' = pc /\ got' = got
    BY <1>1, <1>4 DEF RdStart
  <2>2. CASE pc \notin {"ask", "block", "save"}
    BY <2>1, <2>2, InOrderOutside DEF InOrder
  <2>3. CASE pc \in {"ask", "block", "save"}
    <3>1. ~ReadStarted
      BY <1>0, <2>1 DEF ReadStarted
    <3>2. Len(got) = 0 /\ Len(net) = 0 /\ pc \in {"ask", "block"}
      BY <1>2, <2>1, <2>3, <3>1 DEF InOrder
    <3>3. Len(got') = 0 /\ Len(net') = 0 /\ rdPos' = 0 /\ stale' = fifo /\ fifo' = fifo
      BY <1>4, <2>1, <3>2 DEF RdStart
    <3>4. ReadStarted'
      BY <1>0, <1>2, <2>1, <2>3 DEF ReadStarted
    <3>5. fifo \in Seq(Word) /\ Len(fifo) \in Nat
      BY WordsTyped
    <3>6. Len(stale') + rdPos' = Len(got') + Len(net') + Len(fifo')
      BY <3>3, <3>5
    <3>7. ASSUME NEW i \in 1 .. Len(fifo')
          PROVE  fifo'[i] = Nth(stale', left', capture', Len(got') + Len(net') + i - 1)
      <4>1. /\ Len(got') + Len(net') + i - 1 < Len(stale')
            /\ (Len(got') + Len(net') + i - 1) + 1 = i
        BY <3>3, <3>5, <3>7
      <4> QED BY <3>3, <4>1 DEF Nth
    <3>8. \A i : i \notin 1 .. 0
      OBVIOUS
    <3> QED BY <2>1, <3>2, <3>3, <3>4, <3>6, <3>7, <3>8 DEF InOrder
  <2> QED BY <2>2, <2>3
<1>5. CASE ReadFifo
  <2>1. /\ Len(cmds) > 0 /\ cmds[1] = "readFifo" /\ Len(cmds') = Len(cmds) - 1
        /\ \A i \in 1 .. Len(cmds) - 1 : cmds'[i] = cmds[i + 1]
        /\ pc' = pc /\ got' = got
    BY <1>1, <1>5 DEF ReadFifo
  <2>2. UNCHANGED <<net, rdPos, fifo, stale, left, capture, wr_busy, wr_wrapped>>
    BY <1>5 DEF ReadFifo, buffer, read
  <2>3. CASE pc \notin {"ask", "block", "save"}
    BY <2>1, <2>3, InOrderOutside DEF InOrder
  <2>4. CASE pc \in {"ask", "block", "save"}
    <3>1. ReadStarted /\ ReadStarted' /\ pc # "save"
      BY <1>0, <1>2, <2>1, <2>4 DEF ReadStarted
    <3> QED BY <2>1, <2>2, <2>4, <3>1 DEF InOrder
  <2> QED BY <2>3, <2>4
<1> QED BY <1>3, <1>4, <1>5, InOrderDeliver DEF Board

(* Each step keeps what the program holds in order. *)
LEMMA InOrderStep ==
  ASSUME TypeInv, TypeInv', LockStepInv, FreshCapture, MemoryWritten, InOrderInv, [Next]_vars
  PROVE  InOrderInv'
<1>1. CASE UNCHANGED vars
  BY <1>1 DEF InOrderInv, InOrder, ReadStarted, Captured, vars, program, link, board, buffer, read
<1>2. CASE Timeout \/ BlockTimeout
  <2>1. late' # 0
    <3>1. late \in Nat
      BY Places
    <3>2. late' = late + 1
      BY <1>2 DEF Timeout, BlockTimeout
    <3> QED BY <3>1, <3>2
  <2> QED BY <2>1 DEF InOrderInv
<1>3. ASSUME Program \/ Board \/ ReadAhead \/ Trigger \/ Fill, late' = 0 PROVE InOrder'
  <2>1. late = 0
    BY <1>3 DEF Program, Arm, Query, StartRead, AskBlock, Send, Answer, ReadBlock, Save,
       Board, Configure, FifoReset, CtrlReset, Status, RdStart, ReadFifo, Deliver, Take,
       ReadAhead, Trigger, Fill, board
  <2>2. LockStep /\ InOrder
    BY <2>1 DEF LockStepInv, InOrderInv
  <2>3. CASE Trigger \/ Fill
    <3>1. ~Captured /\ UNCHANGED <<pc, got>>
      BY <2>3 DEF Trigger, Fill, Captured, program
    <3>2. pc \notin {"ask", "block", "save"}
      BY <2>2, <3>1 DEF LockStep, CaptureKept, InOrder
    <3> QED BY <2>2, <3>1, <3>2 DEF InOrder
  <2> QED BY <1>3, <2>2, <2>3, InOrderProgram, InOrderBoard, InOrderAhead
<1> QED BY <1>1, <1>2, <1>3 DEF Next, InOrderInv

-----------------------------------------------------------------------------
(* A FIFO reset that is on its way stays so until the board executes it.   *)
LEMMA ClearKept ==
  ASSUME TypeInv, LockStep, ClearPending, Program \/ (\E c : c # "fifoReset" /\ Take(c))
  PROVE  ClearPending'
<1>0. Len(cmds) \in Nat
  BY LinkTyped, QueueFacts
<1>1. ASSUME NEW here, NEW c \in Commands, NEW next, Send(here, c, next),
             here = "fifoReset" => c = "fifoReset"
      PROVE  ClearPending'
  <2>1. /\ Len(cmds') = Len(cmds) + 1 /\ cmds'[Len(cmds) + 1] = c
        /\ \A i \in 1 .. Len(cmds) : cmds'[i] = cmds[i]
    BY <1>1, LinkTyped, QueueFacts DEF Send
  <2>2. CASE here = "fifoReset"
    BY <1>0, <1>1, <2>1, <2>2 DEF ClearPending
  <2>3. CASE here # "fifoReset"
    <3>1. PICK i \in 1 .. Len(cmds) : cmds[i] = "fifoReset"
      BY <1>1, <2>3 DEF ClearPending, Send
    <3>2. i \in 1 .. Len(cmds') /\ cmds'[i] = "fifoReset"
      BY <1>0, <2>1, <3>1
    <3> QED BY <3>2 DEF ClearPending
  <2> QED BY <2>2, <2>3
<1>2. ASSUME Arm \/ Query \/ StartRead \/ AskBlock PROVE ClearPending'
  <2>1. CASE Send("disable", "disable", "fifoReset") \/ Send("fifoReset", "fifoReset", "ctrlReset")
    BY <1>1, <2>1 DEF Commands
  <2>2. CASE \/ Send("ctrlReset", "ctrlReset", "enable")
             \/ Send("enable", "enable", "allow") \/ Send("allow", "allow", "poll8")
             \/ Send("poll8", "status8", "wait8") \/ Send("poll9", "status9", "wait9")
             \/ Send("start", "rdStart", "ask") \/ Send("ask", "readFifo", "block")
    BY <1>1, <2>2 DEF Commands
  <2> QED BY <1>2, <2>1, <2>2 DEF Arm, Query, StartRead, AskBlock
<1>3. ASSUME (\E n \in 1 .. Len(net) : Answer(n) \/ ReadBlock(n)) \/ Save PROVE ClearPending'
  <2>1. pc # "fifoReset" /\ cmds' = cmds
    BY <1>3 DEF Answer, ReadBlock, Save, link
  <2> QED BY <2>1 DEF ClearPending
<1>4. ASSUME NEW c, c # "fifoReset", Take(c) PROVE ClearPending'
  <2>1. /\ cmds[1] = c /\ Len(cmds') = Len(cmds) - 1 /\ pc' = pc
        /\ \A i \in 1 .. Len(cmds) - 1 : cmds'[i] = cmds[i + 1]
    BY <1>4, LinkTyped, QueueFacts DEF Take, program
  <2>2. ASSUME NEW i \in 1 .. Len(cmds), cmds[i] = "fifoReset" PROVE ClearPending'
    <3>1. i # 1
      BY <1>4, <2>1, <2>2
    <3>2. i - 1 \in 1 .. Len(cmds') /\ cmds'[i - 1] = "fifoReset"
      BY <1>0, <2>1, <2>2, <3>1
    <3> QED BY <3>2 DEF ClearPending
  <2> QED BY <2>1, <2>2 DEF ClearPending
<1> QED BY <1>2, <1>3, <1>4 DEF Program

(* The program's steps: an arming without a read begins with a FIFO reset, *)
(* and the words of the event come after the read started.                 *)
LEMMA FifoEmptyProgram ==
  ASSUME TypeInv, LockStep, InOrder, FifoEmpty, Program
  PROVE  FifoEmpty'
<1>0. Len(cmds) \in Nat
  BY LinkTyped, QueueFacts
<1>1. UNCHANGED <<rd_busy, fifo, stale>>
  BY DEF Program, Arm, Query, StartRead, AskBlock, Send, Answer, ReadBlock, Save, board, read
<1>2. ClearPending => ClearPending'
  BY ClearKept
<1>3. CASE Send("disable", "disable", "fifoReset") /\ NewArming
  <2>1. pc' = "fifoReset" /\ readOn' = rd_busy
    BY <1>3 DEF NewArming, Send
  <2> QED BY <1>1, <2>1 DEF FifoEmpty, ClearPending
<1>4. ASSUME readOn' = readOn, BeforeRead' => BeforeRead,
             pc' \in {"ask", "block", "save"} /\ ReadStarted'
               => pc \in {"ask", "block", "save"} /\ ReadStarted
      PROVE  FifoEmpty'
  BY <1>1, <1>2, <1>4 DEF FifoEmpty
<1>5. ASSUME NEW here, NEW c \in Commands, NEW next, Send(here, c, next), readOn' = readOn,
             here \in {"fifoReset", "ctrlReset", "enable", "allow", "poll8", "poll9"},
             next \notin {"ask", "block", "save"}
      PROVE  FifoEmpty'
  BY <1>4, <1>5 DEF Send, BeforeRead
<1>6. CASE Arm /\ ~(Send("disable", "disable", "fifoReset") /\ NewArming)
  <2>1. readOn' = readOn
    BY <1>6 DEF Arm, SameArming
  <2> QED BY <1>5, <1>6, <2>1 DEF Arm, Commands
<1>7. CASE Query
  BY <1>5, <1>7 DEF Query, SameArming, Commands
<1>8. ASSUME NEW n \in 1 .. Len(net), Answer(n) PROVE FifoEmpty'
  BY <1>4, <1>8 DEF Answer, After, BeforeRead
<1>9. ASSUME NEW n \in 1 .. Len(net), ReadBlock(n) PROVE FifoEmpty'
  <2>1. readOn' = readOn /\ pc = "block" /\ pc' \in {"block", "ask", "save"}
    BY <1>9 DEF ReadBlock
  <2>2. ReadStarted' <=> ReadStarted
    BY <1>9 DEF ReadBlock, ReadStarted
  <2> QED BY <1>4, <2>1, <2>2 DEF BeforeRead
<1>10. CASE StartRead
  <2>1. Len(cmds) = 0 /\ pc = "start" /\ pc' = "ask" /\ readOn' = readOn
    BY <1>10 DEF LockStep, AtRest, StartRead, Send, SameArming
  <2>2. Len(cmds') = 1 /\ cmds'[1] = "rdStart"
    BY <1>10, <2>1, LinkTyped, QueueFacts DEF StartRead, Send, Commands
  <2>3. ~ReadStarted'
    BY <2>2 DEF ReadStarted
  <2> QED BY <1>4, <2>1, <2>3 DEF BeforeRead
<1>11. CASE AskBlock
  <2>1. /\ Len(cmds') = Len(cmds) + 1 /\ cmds'[Len(cmds) + 1] = "readFifo"
        /\ \A i \in 1 .. Len(cmds) : cmds'[i] = cmds[i]
    BY <1>11, LinkTyped, QueueFacts DEF AskBlock, Send, Commands
  <2>2. ReadStarted' <=> ReadStarted
    BY <1>0, <2>1 DEF ReadStarted
  <2>3. pc = "ask" /\ pc' = "block" /\ readOn' = readOn
    BY <1>11 DEF AskBlock, Send, SameArming
  <2> QED BY <1>4, <2>2, <2>3 DEF BeforeRead
<1>12. CASE Save
  <2>1. pc' \in {"disable", "done"} /\ readOn' = readOn
    BY <1>12 DEF Save
  <2> QED BY <1>4, <2>1 DEF BeforeRead
<1> QED BY <1>3, <1>6, <1>7, <1>8, <1>9, <1>10, <1>11, <1>12 DEF Program, Arm

(* The board's steps: only the read of the event fills the FIFO again.     *)
LEMMA FifoEmptyBoard ==
  ASSUME TypeInv, LockStep, InOrder, FifoEmpty, Board \/ ReadAhead \/ Trigger \/ Fill
  PROVE  FifoEmpty'
<1>0. Len(cmds) \in Nat /\ Len(fifo) \in Nat /\ rd_busy \in BOOLEAN
  BY LinkTyped, WordsTyped, QueueFacts DEF TypeInv, TypeOK
<1>1. pc' = pc /\ readOn' = readOn
  BY DEF Board, Configure, FifoReset, CtrlReset, Status, RdStart, ReadFifo, Deliver,
         ReadAhead, Trigger, Fill, Take, program
<1>2. ASSUME NEW c, Take(c)
      PROVE  /\ Len(cmds) > 0 /\ cmds[1] = c /\ Len(cmds') = Len(cmds) - 1
             /\ \A i \in 1 .. Len(cmds) - 1 : cmds'[i] = cmds[i + 1]
  BY <1>2, LinkTyped, QueueFacts DEF Take
<1>3. ASSUME NEW c, Take(c), c # "rdStart" PROVE ReadStarted' <=> ReadStarted
  <2>1. ASSUME NEW i \in 1 .. Len(cmds), cmds[i] = "rdStart" PROVE ~ReadStarted'
    <3>1. i # 1
      BY <1>2, <1>3, <2>1
    <3>2. i - 1 \in 1 .. Len(cmds') /\ cmds'[i - 1] = cmds[i]
      BY <1>0, <1>2, <1>3, <2>1, <3>1
    <3> QED BY <2>1, <3>2 DEF ReadStarted
  <2>2. ASSUME NEW i \in 1 .. Len(cmds'), cmds'[i] = "rdStart" PROVE ~ReadStarted
    <3>1. i + 1 \in 1 .. Len(cmds) /\ cmds[i + 1] = "rdStart"
      BY <1>0, <1>2, <1>3, <2>2
    <3> QED BY <3>1 DEF ReadStarted
  <2> QED BY <2>1, <2>2 DEF ReadStarted
<1>4. CASE Configure \/ Status \/ ReadFifo
  <2>1. PICK c : c \notin {"fifoReset", "rdStart"} /\ Take(c)
    BY <1>4 DEF Configure, Status, ReadFifo
  <2>2. UNCHANGED <<rd_busy, fifo, stale>>
    BY <1>4 DEF Configure, Status, ReadFifo, board, read
  <2>3. (ReadStarted' <=> ReadStarted) /\ (ClearPending => ClearPending')
    BY <1>3, <2>1, ClearKept
  <2> QED BY <1>1, <2>2, <2>3 DEF FifoEmpty, BeforeRead
<1>5. CASE FifoReset
  <2>1. fifo' = <<>> /\ UNCHANGED <<rd_busy, stale>> /\ Take("fifoReset")
    BY <1>5 DEF FifoReset
  <2>2. (ReadStarted' <=> ReadStarted) /\ Len(fifo') = 0
    BY <1>3, <2>1, EmptySeq
  <2> QED BY <1>1, <2>1, <2>2 DEF FifoEmpty, BeforeRead
<1>6. CASE CtrlReset
  <2>1. ~rd_busy' /\ UNCHANGED <<fifo, stale>> /\ Take("ctrlReset")
    BY <1>6 DEF CtrlReset
  <2>2. (ReadStarted' <=> ReadStarted) /\ (ClearPending => ClearPending')
    BY <1>3, <2>1, ClearKept
  <2> QED BY <1>1, <2>1, <2>2 DEF FifoEmpty, BeforeRead
<1>7. CASE RdStart
  <2>1. Take("rdStart") /\ stale' = fifo
    BY <1>7 DEF RdStart
  <2>2. Len(cmds) > 0 /\ cmds[1] = "rdStart"
    BY <1>2, <2>1
  <2>3. pc \in {"ask", "block"} /\ \A i \in 1 .. Len(cmds) : i > 1 => cmds[i] = "readFifo"
    <3>1. pc \in {"ask", "block"}
      BY <1>0, <2>2, Places
      DEF LockStep, AtRest, Arming, WaitLow, WaitHigh, CaptureKept, ArmCommands
    <3> QED BY <1>0, <2>2, <3>1 DEF LockStep, Asking, ReadingBlock
  <2>4. ~ReadStarted /\ ~ClearPending
    BY <1>0, <2>2, <2>3 DEF ReadStarted, ClearPending
  <2>5. ReadStarted'
    BY <1>0, <1>2, <2>1, <2>3, SMTT(30) DEF ReadStarted
  <2>6. ~readOn => Len(fifo) = 0
    BY <2>3, <2>4 DEF FifoEmpty, BeforeRead
  <2> QED BY <1>1, <2>1, <2>3, <2>5, <2>6 DEF FifoEmpty, BeforeRead
<1>8. CASE Deliver
  <2>1. pc = "block" /\ Len(cmds) = 0
    <3>1. asked > 0
      BY <1>8 DEF Deliver
    <3> QED BY <1>0, <3>1, Places DEF LockStep, AtRest, Arming, WaitLow, WaitHigh, Asking,
               ReadingBlock, CaptureKept, NoReplies
  <2>2. UNCHANGED <<cmds, stale>>
    BY <1>8 DEF Deliver
  <2>3. ReadStarted /\ ReadStarted'
    BY <2>1, <2>2 DEF ReadStarted
  <2> QED BY <1>1, <2>1, <2>2, <2>3 DEF FifoEmpty, BeforeRead
<1>9. CASE ReadAhead
  <2>1. rd_busy /\ UNCHANGED <<cmds, stale>>
    BY <1>9 DEF ReadAhead, link
  <2>2. ~readOn => ~BeforeRead
    BY <2>1 DEF FifoEmpty
  <2> QED BY <1>1, <2>1, <2>2 DEF FifoEmpty, BeforeRead, ReadStarted
<1>10. CASE Trigger \/ Fill
  <2>1. UNCHANGED <<cmds, fifo, stale>> /\ (rd_busy' = rd_busy \/ rd_busy' = FALSE)
    BY <1>10 DEF Trigger, Fill, link, read
  <2> QED BY <1>0, <1>1, <2>1 DEF FifoEmpty, BeforeRead, ReadStarted, ClearPending
<1> QED BY <1>4, <1>5, <1>6, <1>7, <1>8, <1>9, <1>10 DEF Board

(* Each step keeps the output FIFO empty before the read. *)
LEMMA FifoEmptyStep ==
  ASSUME TypeInv, TypeInv', LockStepInv, InOrderInv, FifoEmptyInv, [Next]_vars
  PROVE  FifoEmptyInv'
<1>1. CASE UNCHANGED vars
  BY <1>1 DEF FifoEmptyInv, FifoEmpty, BeforeRead, ClearPending, ReadStarted, vars, program,
     link, board, read
<1>2. CASE Timeout \/ BlockTimeout
  <2>1. late \in Nat /\ late' = late + 1
    BY <1>2, Places DEF Timeout, BlockTimeout
  <2> QED BY <2>1 DEF FifoEmptyInv
<1>3. ASSUME Program \/ Board \/ ReadAhead \/ Trigger \/ Fill, late' = 0 PROVE FifoEmpty'
  <2>1. late = 0
    BY <1>3 DEF Program, Arm, Query, StartRead, AskBlock, Send, Answer, ReadBlock, Save,
       Board, Configure, FifoReset, CtrlReset, Status, RdStart, ReadFifo, Deliver, Take,
       ReadAhead, Trigger, Fill, board
  <2> QED BY <1>3, <2>1, FifoEmptyProgram, FifoEmptyBoard
          DEF LockStepInv, InOrderInv, FifoEmptyInv
<1> QED BY <1>1, <1>2, <1>3 DEF Next, FifoEmptyInv
-----------------------------------------------------------------------------
(* As long as no reply is late, what is saved as an event is one capture,  *)
(* begun after the event was armed, in order and without a gap, behind the *)
(* words that the MIG held when it began; words of an earlier read come    *)
(* first only if that read was still on when the arming began.  It holds   *)
(* for every number and size of blocks and every room in the FIFOs, for    *)
(* triggers at any time, and whatever state the board is in at first.      *)
THEOREM EventIsCaptureHolds == Spec => [](late = 0 => EventIsCapture)
<1> DEFINE Inv == TypeInv /\ LockStepInv /\ FreshCapture /\ MemoryWritten /\ InOrderInv
                  /\ FifoEmptyInv
<1>1. Init => Inv
  <2> SUFFICES ASSUME Init PROVE Inv
    OBVIOUS
  <2>1. TypeInv /\ LockStepInv
    BY InitTyped, LockStepInit
  <2>2. FreshCapture
    BY DEF Init, FreshCapture, ResetPending
  <2>3. MemoryWritten
    BY DEF Init, MemoryWritten
  <2>4. InOrder
    BY EmptySeq DEF Init, InOrder
  <2>5. FifoEmpty
    BY DEF Init, FifoEmpty, BeforeRead
  <2> QED BY <2>1, <2>2, <2>3, <2>4, <2>5 DEF InOrderInv, FifoEmptyInv
<1>2. ASSUME Inv, [Next]_vars PROVE Inv'
  <2>1. TypeInv' /\ LockStepInv'
    BY <1>2, LockStepStep
  <2> QED BY <1>2, <2>1, FreshStep, MemoryStep, InOrderStep, FifoEmptyStep
<1>3. Inv => (late = 0 => EventIsCapture)
  <2> SUFFICES ASSUME TypeInv, LockStep, FreshCapture, InOrder, FifoEmpty, pc = "save"
               PROVE  /\ capture > armedAt
                      /\ got = [i \in 1 .. EventWords |-> Given(i - 1)]
                      /\ stale # <<>> => readOn
    BY DEF LockStepInv, InOrderInv, FifoEmptyInv, EventIsCapture
  <2>1. Len(cmds) = 0 /\ ReadStarted
    BY DEF LockStep, AtRest, ReadStarted
  <2>2. Captured /\ Len(got) = EventWords
    BY DEF InOrder
  <2>3. capture > armedAt
    BY CaptureOfThisRun
  <2>4. \A i \in 1 .. EventWords : got[i] = Given(i - 1)
    <3>1. ASSUME NEW i \in 1 .. EventWords PROVE got[i] = Given(i - 1)
      <4>1. got[i] = Nth(stale, left, capture, i - 1)
        BY <2>1, <2>2, <3>1 DEF InOrder
      <4> QED BY <4>1 DEF Nth, Given, Stored
    <3> QED BY <3>1
  <2>5. got \in [1 .. EventWords -> Reply]
    BY <2>2, LenProperties DEF TypeInv, TypeOK
  <2>6. stale # <<>> => readOn
    <3>1. ~readOn => Len(stale) = 0
      BY <2>1 DEF FifoEmpty
    <3>2. readOn \in BOOLEAN /\ (Len(stale) = 0 => stale = <<>>)
      BY WordsTyped, EmptySeq DEF TypeInv, TypeOK
    <3> QED BY <3>1, <3>2
  <2> QED BY <2>3, <2>4, <2>5, <2>6
<1> QED BY <1>1, <1>2, <1>3, PTL DEF Spec
=============================================================================
