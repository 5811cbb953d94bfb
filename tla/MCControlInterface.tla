------------------------- MODULE MCControlInterface -------------------------
(***************************************************************************)
(* Instances of ControlInterface for TLC, the count of the replies that    *)
(* are on their way, and the refinement of CommandServer.                  *)
(***************************************************************************)
EXTENDS ControlInterface, FiniteSets

Read(a) == [rd |-> TRUE, addr |-> a, data |-> 0]
Write(a, d) == [rd |-> FALSE, addr |-> a, data |-> d]

(* 12 is an address with no register, 11 PULSE_REG, 19 half of the memory's *)
(* data and 18 half of its address.                                        *)
RegisterCommands ==
  {Read(32), Read(12), Read(18), Write(32, 1), Write(11, 2), Write(19, 2), Write(18, 1)}

(* 25 is a data FIFO read. *)
StreamCommands == {Read(32), Write(32, 1), Write(11, 2), Write(25, 2)}

(* 17 and 18 are the memory's address, 20 its data, 16 its count.          *)
MemoryCommands == {Read(18), Read(20), Write(16, 2), Write(17, 2), Write(20, 1)}

AllCommands == RegisterCommands \cup StreamCommands \cup MemoryCommands

TwoWords == {[hi |-> 0, lo |-> 1], [hi |-> 1, lo |-> 0]}
NoWords == {}

(* Every memory cell starts with a word of its own. *)
OwnAddress == [a \in Half |-> [hi |-> 0, lo |-> a]]
-----------------------------------------------------------------------------
(* A behaviour keeps to one of the three sets of commands; words arrive in *)
(* the data FIFO with the one that reads it.                               *)
VARIABLE kit

KitCommands ==
  CASE kit = "registers" -> RegisterCommands
    [] kit = "stream"    -> StreamCommands
    [] kit = "memory"    -> MemoryCommands
KitInit == Init /\ kit \in {"registers", "stream", "memory"}
KitNext ==
  /\ Next /\ UNCHANGED kit
  /\ \A k \in 1 .. Len(cmdFifo') : cmdFifo'[k] \in KitCommands
  /\ kit # "stream" => dataFifo' = <<>>
KitFairness ==
  /\ WF_vars(Tick /\ UNCHANGED kit) /\ WF_vars(HostReceive /\ UNCHANGED kit)
  /\ WF_vars(kit = "stream" /\ Supply /\ UNCHANGED kit)
KitSpec == KitInit /\ [][KitNext]_<<vars, kit>> /\ KitFairness
-----------------------------------------------------------------------------
(* Words that the command in execution has yet to put on a strobe. *)
InProgress ==
  CASE cmdState = "MEM_RD_CNT" -> counterV - 1
    [] cmdState = "FIFO_ADV"   -> counterFIFO + 1
    [] OTHER                   -> 0

(* Replies strobed and not yet in the control FIFO. *)
Strobed == IF sFifoWrreq /\ cmdState # "INIT" THEN 1 ELSE 0

(* The queued command k is executed with the memory count v: what the last *)
(* write of the count before it sets, or without one the count there now;  *)
(* 16 is the address of the count.                                         *)
CountNow == IF cmdState = "INIT" THEN 1 ELSE sMemioCnt
CountSet(i) == IF i = 0 THEN CountNow ELSE cmdFifo[i].data
WritesCount(i) == ~cmdFifo[i].rd /\ cmdFifo[i].addr = 16
CountIs(k, v) ==
  \E i \in 0 .. k - 1 :
    /\ v = CountSet(i)
    /\ i = 0 \/ WritesCount(i)
    /\ \A j \in i + 1 .. k - 1 : ~WritesCount(j)

(* Replies to the commands still queued: <<k, j>> is reply j to command k. *)
Due ==
  {p \in (1 .. Len(cmdFifo)) \X (1 .. W) :
     \E v \in Half : CountIs(p[1], v) /\ p[2] <= Replies(cmdFifo[p[1]], v)}
Queued == Cardinality(Due)

(* The PC's count of the replies it expects is exactly what is on its way  *)
(* to it: none is lost, none is produced twice, and none that it did not   *)
(* ask for comes.                                                          *)
ReplyAccounting ==
  owed = Len(ctlFifo) + Strobed + InProgress + Queued

(* No reply is lost, neither on the whole nor at a full FIFO               *)
(* (control_interface.vhd 241-296, 353-368).                               *)
RepliesKept == ReplyAccounting /\ NoReplyLost
-----------------------------------------------------------------------------
(* What the server's variables are made of: a memory write takes effect    *)
(* one clock after its command left the FIFO, a reply counts from its      *)
(* strobe, and the memory count is 1 before the first clock sets it.       *)
ServerCmds == IF sWea THEN <<cmdHold>> \o cmdFifo ELSE cmdFifo
ServerReplies == IF Strobed = 1 THEN Append(ctlFifo, sFifoD) ELSE ctlFifo
ServerJob ==
  CASE cmdState = "MEM_RD_CNT" /\ counterV # 1 -> [kind |-> "mem", left |-> counterV - 1]
    [] cmdState = "FIFO_ADV" -> [kind |-> "fifo", left |-> counterFIFO + 1]
    [] OTHER -> [kind |-> "idle", left |-> 0]

Server == INSTANCE CommandServer WITH
  cmds <- ServerCmds, replies <- ServerReplies, source <- dataFifo,
  config <- sConfigReg, memCnt <- CountNow, addr <- sAddrA, din <- sDinReg,
  store <- mem, job <- ServerJob

(* The interpreter behaves like a server that executes whole commands one  *)
(* at a time and delivers every reply once, in order.                      *)
ImplementsServer == Server!Spec
=============================================================================
