----------------------------- MODULE FmcPrepare ------------------------------
(***************************************************************************)
(* fmc112_prepare of fmc112.c with the SIP registers of sip.c: before the  *)
(* acquisition the program reads the table of the stars (the parts of the  *)
(* firmware) and configures the CPLD, the clock tree, the ADCs and the     *)
(* DACs of the FMC112 relative to the base addresses it has read.          *)
(*                                                                         *)
(* A SIP command goes to the board in configuration registers 4-7 and a    *)
(* pulse, and its answer is read from status registers 4-7, one reply word *)
(* each.  The firmware behind them is external.  It fetches some registers *)
(* from the FMC112 and answers at any time while the program sleeps for    *)
(* them; it answers for the others while the commands between the pulse    *)
(* and the status reads pass.  Of a register's content only whose it is is *)
(* kept.                                                                   *)
(***************************************************************************)
EXTENDS Integers, Sequences, FiniteSets, TLC

CONSTANTS
  NStars,        \* stars that the firmware has
  I2C, FMC,      \* SIP_I2C_MASTER_IDX and SIP_FMC112_IDX
  ClockSettings, \* writes to the clock tree before its update: 41 in the code
  AnswerTime,    \* commands after a pulse by which prompt firmware has answered
  MaxTimeouts    \* bound: queries that may time out or fail

StarsAssumption ==
  NStars \in Nat /\ {I2C, FMC} \subseteq 0 .. NStars - 1 /\ I2C # FMC
BoundsAssumption == {ClockSettings, AnswerTime, MaxTimeouts} \subseteq Nat

Stars == 0 .. NStars - 1
ADCs  == 0 .. 2

(* The registers whose answer the program sleeps for (waitms > 0).         *)
Slow == {"cpld", "clockId", "pll", "phy", "idelay", "freq"}

(* SIP addresses: a register relative to the identification (CID), to a    *)
(* star, to 0, or to a number read from somewhere else.                    *)
At(b, r) == [base |-> b, reg |-> r]
CID      == -1
Nowhere  == -2
Anywhere == -3
Cid(k)   == At(CID, <<"cid", k>>)
Zero     == At(Nowhere, <<"none", 0>>)
Garbage  == At(Anywhere, <<"none", 0>>)

(* The base that the content of register v is. *)
BaseOf(v) == CASE v = Zero -> Nowhere
               [] v \in {Cid(4 + 3 * i) : i \in Stars} -> (v.reg[2] - 4) \div 3
               [] OTHER -> Anywhere

VARIABLES
  todo,      \* the calls that the program still has to make
  waiting,   \* what the program is waiting for: "nothing", the "first" reply, the end of
             \* its "sleep", the "second" reply
  bar,       \* sip_star_info[].bar: the register each was read from
  cmds, net, \* the link to the board and back
  pending,   \* the command that the firmware is working on, and since how many commands
  status,    \* status registers 4-7: whose answer they hold
  adc, phy, cpld, clock,  \* the FMC112
  timeouts   \* history: queries that timed out or failed so far

program == <<todo, waiting, bar>>
fmc     == <<adc, phy, cpld, clock>>
vars    == <<program, cmds, net, pending, status, fmc, timeouts>>
-----------------------------------------------------------------------------
(* The calls of the program: reads with their waitms, writes, and writes   *)
(* to plain registers.  "reg" is relative to a star, or in the CID block.  *)
ReadAt(star, reg, waitms) == [op |-> "read", star |-> star, reg |-> reg, wait |-> waitms > 0]
ReadCid(k)             == ReadAt(CID, <<"cid", k>>, 0)
Read(name, waitms)     == ReadAt(FMC, <<name, 0>>, waitms)
Write(name, k, what)   == [op |-> "write", star |-> FMC, reg |-> <<name, k>>, what |-> what]
SwitchI2C == [op |-> "write", star |-> I2C, reg |-> <<"switch", 0>>, what |-> "lpc"]

(* BAR, EAR, and ID with version, of each of n stars. *)
Table(n) == [i \in 1 .. 3 * n |-> ReadCid(3 + i)]
Identify == <<ReadCid(1), ReadCid(2), ReadCid(3), SwitchI2C, Read("power", 0)>>

Strobe(on) == <<Read("cpld", 2), Write("cpld", 0, on), Write("cpld", 0, "run")>>
Cpld == Strobe("resetClock") \o Strobe("resetDac")
        \o <<Write("cpld", 0, "run"), Write("led", 0, "off"), Read("cpld", 2)>>

ClockTree == <<Read("clockId", 10)>>
             \o [i \in 1 .. ClockSettings |-> Write("clock", 0, "setting")]
             \o <<Write("clock", 0, "update"), Read("pll", 10)>>

AdcModes == [i \in 1 .. 9 |->
  Write("adc", (i - 1) \div 3, <<"reset", "twos", "pattern">>[1 + ((i - 1) % 3)])]
Training == <<Write("phy", 0, "resetClock"), Write("phy", 0, "resetSerdes"),
              Write("phy", 0, "train"), Read("phy", 2)>>
PatternOff == [i \in 1 .. 3 |-> Write("adc", i - 1, "normal")]
AdcEarlyOff ==       \* mutant of Adc: the pattern is off before the training
  AdcModes \o PatternOff \o Training
AdcPatternStays ==   \* mutant of Adc: the pattern is left on
  AdcModes \o Training
Adc == AdcModes \o Training \o PatternOff \o [i \in 1 .. 6 |-> Read("idelay", 2)]

Dac    == [i \in 1 .. 2 |-> Write("dac", i - 1, "midscale")]
Freq   == [i \in 1 .. 12 |-> IF i % 2 = 1 THEN Write("freq", 0, "source") ELSE Read("freq", 2)]
Buffer == [i \in 1 .. 7 |-> [op |-> "register", reg |-> <<8, 9, 10, 11, 12, 14, 15>>[i]]]

(* Everything after the table of the stars; no call's failure is heeded.   *)
Rest == Identify \o Cpld \o ClockTree \o Adc \o Dac \o Freq \o Buffer

Init ==
  /\ todo = <<ReadCid(0)>> /\ waiting = "nothing" /\ bar = [s \in Stars |-> Garbage]
  /\ cmds = <<>> /\ net = <<>> /\ pending = [addr |-> Zero, age |-> 0, on |-> FALSE]
  /\ status = Zero
  /\ adc = [a \in ADCs |-> "normal"] /\ phy = "idle" /\ cpld = "run" /\ clock = "old"
  /\ timeouts = 0
-----------------------------------------------------------------------------
(* sip_send_command; the four register writes before the pulse only carry  *)
(* the command.                                                            *)
Sip(addr, what) == <<[op |-> "sip", addr |-> addr, what |-> what]>>
BlanksNone == <<>>   \* mutant of Blanks: no time between the pulse and the reads
Blanks == [i \in 1 .. 4 |-> [op |-> "blank"]]
RecvCommand == [i \in 1 .. 4 |-> [op |-> "status", part |-> i - 1]]

AddrOf(c) == At(IF c.star = CID THEN CID ELSE BaseOf(bar[c.star]), c.reg)

Call ==
  /\ waiting = "nothing" /\ todo # <<>>
  /\ LET c == Head(todo) IN
     CASE c.op = "read" ->
            /\ waiting' = "first" /\ UNCHANGED todo
            /\ cmds' = cmds \o Sip(AddrOf(c), "read") \o Blanks \o RecvCommand
       [] c.op = "write" ->
            cmds' = cmds \o Sip(AddrOf(c), c.what) /\ todo' = Tail(todo) /\ UNCHANGED waiting
       [] c.op = "register" ->
            cmds' = Append(cmds, [op |-> "blank"]) /\ todo' = Tail(todo) /\ UNCHANGED waiting
  /\ UNCHANGED <<bar, net, pending, status, fmc, timeouts>>

(* What the program takes a reply for: the low 32 bits are in the words of *)
(* status registers 4 and 5.                                               *)
Value(w) == IF w[1].part = 0 /\ w[2].part = 1 /\ w[1].of = w[2].of THEN w[1].of ELSE Garbage

UseNext(v) ==        \* mutant of Use: EAR is taken for BAR
  LET r == Head(todo).reg IN
  IF r = <<"cid", 0>>
  THEN todo' = Table(NStars) \o Rest /\ UNCHANGED bar
  ELSE /\ todo' = Tail(todo)
       /\ bar' = [s \in Stars |-> IF r = <<"cid", 5 + 3 * s>> THEN v ELSE bar[s]]

UseNoOffset(v) ==    \* mutant of Use: the stars are counted from 1
  LET r == Head(todo).reg IN
  IF r = <<"cid", 0>>
  THEN todo' = Table(NStars) \o Rest /\ UNCHANGED bar
  ELSE /\ todo' = Tail(todo)
       /\ bar' = IF r \in {<<"cid", 4 + 3 * s>> : s \in Stars} THEN bar @@ ((r[2] - 1) \div 3 :> v) ELSE bar

(* The value of register CID+0 is the number of stars: nothing else is,    *)
(* and 0 stars is what a failed read gives.                                *)
Use(v) ==
  LET r == Head(todo).reg IN
  IF r = <<"cid", 0>>
  THEN /\ \E n \in CASE v = Cid(0) -> {NStars} [] v = Zero -> {0} [] OTHER -> 0 .. NStars :
            todo' = Table(n) \o Rest
       /\ UNCHANGED bar
  ELSE /\ todo' = Tail(todo)
       /\ bar' = [s \in Stars |-> IF r = <<"cid", 4 + 3 * s>> THEN v ELSE bar[s]]

EndsAgain(v) ==      \* mutant of Ends: the second query leads to a third
  IF Head(todo).wait
  THEN waiting' = "sleep" /\ UNCHANGED <<todo, bar>>
  ELSE waiting' = "nothing" /\ Use(v)

EndsOnce(v) ==       \* mutant of Ends: the first reply counts
  waiting' = "nothing" /\ Use(v)

(* A query ends; with waitms the program sleeps, the status registers are  *)
(* read once more and only that reply counts.                              *)
Ends(v) ==
  IF waiting = "first" /\ Head(todo).wait
  THEN waiting' = "sleep" /\ UNCHANGED <<todo, bar>>
  ELSE waiting' = "nothing" /\ Use(v)

(* At least 16 bytes have come; a read takes what is there.                *)
Answer(n) ==
  /\ waiting \in {"first", "second"} /\ n \in 4 .. Len(net)
  /\ Ends(Value(net)) /\ net' = SubSeq(net, n + 1, Len(net))
  /\ UNCHANGED <<cmds, pending, status, fmc, timeouts>>

(* With fewer after half a second, the read gives 0.                       *)
Timeout ==
  /\ waiting \in {"first", "second"} /\ Len(net) < 4
  /\ timeouts < MaxTimeouts /\ timeouts' = timeouts + 1
  /\ Ends(Zero) /\ net' = <<>>
  /\ UNCHANGED <<cmds, pending, status, fmc>>

(* An error of select, with n words read: its -1 is a size_t and passes    *)
(* for 16 bytes, and what is in the buffer counts, where the reply         *)
(* overwrites the query and the low halves of the query's words are 0.     *)
Fail(n) ==
  /\ waiting \in {"first", "second"} /\ n <= Len(net)
  /\ timeouts < MaxTimeouts /\ timeouts' = timeouts + 1
  /\ Ends(CASE n = 0 -> Zero [] n = 1 -> Garbage [] OTHER -> Value(net))
  /\ net' = SubSeq(net, n + 1, Len(net))
  /\ UNCHANGED <<cmds, pending, status, fmc>>

(* usleep(waitms) is over, and the firmware has answered in it.            *)
Wake ==
  /\ waiting = "sleep" /\ ~pending.on
  /\ waiting' = "second" /\ cmds' = cmds \o RecvCommand
  /\ UNCHANGED <<todo, bar, net, pending, status, fmc, timeouts>>

Program == Call \/ Wake \/ \E n \in 4 .. Len(net) : Answer(n)
Lost == Timeout \/ \E n \in 0 .. 3 : Fail(n)
-----------------------------------------------------------------------------
(* The board executes commands in order (module CommandServer); a write    *)
(* acts when it reaches the FMC112, and on nothing if it is not for it.    *)
Effect(c) ==
  LET After(name, k, old) == IF c.addr = At(FMC, <<name, k>>) THEN c.what ELSE old IN
  /\ adc' = [a \in ADCs |-> After("adc", a, adc[a])]
  /\ phy' = After("phy", 0, phy)
  /\ cpld' = After("cpld", 0, cpld)
  /\ clock' = After("clock", 0, clock)

(* The firmware has its answer ready without the program's sleeping.       *)
Prompt == pending.on /\ pending.addr.reg[1] \notin Slow

Execute ==
  /\ cmds # <<>> /\ cmds' = Tail(cmds)
  /\ Prompt => pending.age < AnswerTime
  /\ LET c == Head(cmds) IN
     /\ IF c.op = "sip" /\ c.what # "read" THEN Effect(c) ELSE UNCHANGED fmc
     /\ net' = IF c.op = "status" THEN Append(net, [of |-> status, part |-> c.part]) ELSE net
     /\ pending' = IF c.op = "sip" /\ c.what = "read"
                   THEN [addr |-> c.addr, age |-> 0, on |-> TRUE]
                   ELSE [pending EXCEPT !.age = IF Prompt THEN pending.age + 1 ELSE 0]
  /\ UNCHANGED <<program, status, timeouts>>

Respond ==
  /\ pending.on /\ pending' = [addr |-> Zero, age |-> 0, on |-> FALSE]
  /\ status' = pending.addr
  /\ UNCHANGED <<program, cmds, net, fmc, timeouts>>

Done == todo = <<>> /\ cmds = <<>> /\ UNCHANGED vars

Next == Program \/ Lost \/ Execute \/ Respond \/ Done

Spec == Init /\ [][Next]_vars /\ WF_vars(Program) /\ WF_vars(Execute) /\ WF_vars(Respond)
-----------------------------------------------------------------------------
Names == {"none", "cid", "switch", "power", "cpld", "led", "clockId", "clock", "pll", "phy",
          "idelay", "freq", "adc", "dac"}
Addresses == [base : Stars \cup {CID, Nowhere, Anywhere}, reg : Names \X (0 .. 3 + 3 * NStars)]

(* Types: the table has a place for every star that is stored.             *)
TypeOK ==
  /\ Len(todo) <= 3 * NStars + Len(Rest)
  /\ waiting \in {"nothing", "first", "sleep", "second"} /\ (waiting # "nothing" => todo # <<>>)
  /\ bar \in [Stars -> Addresses]
  /\ status \in Addresses /\ pending.addr \in Addresses /\ pending.age <= AnswerTime
  /\ adc \in [ADCs -> {"reset", "twos", "pattern", "normal"}]
  /\ phy \in {"idle", "resetClock", "resetSerdes", "train"}
  /\ cpld \in {"run", "resetClock", "resetDac"}
  /\ clock \in {"old", "setting", "update"}
  /\ timeouts \in 0 .. MaxTimeouts

(* "base address" (sip.h:32): every write of the configuration is executed *)
(* relative to the base of the star that it is meant for, whose address    *)
(* was itself read over the same link before.                              *)
WritesHitTheirStar ==
  cmds # <<>> /\ Head(cmds).op = "sip" /\ Head(cmds).what # "read" =>
    Head(cmds).addr.base = IF Head(cmds).what = "lpc" THEN I2C ELSE FMC

(* What a read gives is the content of the register that it asked for: not *)
(* an earlier answer, nor one torn between two, although the reply to its  *)
(* first query may be either.                                              *)
AnswerIsForThisRead ==
  waiting # "nothing" /\ waiting' = "nothing" => Value(net) = AddrOf(Head(todo))

(* "then reset iSerdes, when the clocks are stable" and "Start training"   *)
(* (fmc112.c:492-498): the inputs are trained with every ADC sending its   *)
(* pattern, out of the resets of the CPLD, after the clock tree took its   *)
(* settings; and no ADC is left with its pattern on when the program goes  *)
(* on to acquire.                                                          *)
TrainedOnPattern ==
  phy' = "train" /\ phy # "train" =>
    /\ \A a \in ADCs : adc[a] = "pattern"
    /\ cpld = "run" /\ clock = "update" /\ phy = "resetSerdes"
Prepared == todo = <<>> /\ cmds = <<>>
LeftReady ==
  Prepared => phy = "train" /\ clock = "update" /\ \A a \in ADCs : adc[a] = "normal"
=============================================================================
