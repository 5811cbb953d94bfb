----------------------------- MODULE MCPcTools -----------------------------
(***************************************************************************)
(* The programs of the PC and their parts, for TLC.  A behaviour runs one  *)
(* of them, the tool it starts with; the variables of the others are Off.  *)
(* Names that two modules share are prefixed with the tool here.           *)
(***************************************************************************)
EXTENDS Integers, Sequences

CONSTANTS
  Off,
  NAddr,                                            \* HostConnect
  NStars, I2C, FMC, ClockSettings, AnswerTime, MaxTimeouts, \* FmcPrepare
  Requests,                                         \* HostQuery
  Writes, nWfmPerChunk, fileNPt, SCOPE_MEM_LENGTH_MAX, \* WaveformFile
  Waves, Beyond, wavDigestLen, INIT_WINDOW_WIDTH, Mantissa, Spacings, Unit,    \* Waveview
  Reads, Packets, FirstCounts, Before,              \* UdpTest
  MemWords                                          \* ChannelMap

(* Requests to the interpreter with the length that is expected.           *)
W(h, l) == [hi |-> h, lo |-> l]
NoLength == -1
List1 == <<
  [op |-> "write_register", a |-> 1, v |-> 150, expect |-> 0],
  [op |-> "read_register",  a |-> 1, expect |-> NoLength],
  [op |-> "write_memory",   a |-> 2, v |-> <<W(1, 2), W(3, 4), W(5, 6)>>, expect |-> 0],
  [op |-> "send_pulse",     v |-> 4, expect |-> 0],
  [op |-> "read_memory",    a |-> 1, n |-> 5, expect |-> 10],
  [op |-> "read_datafifo",  n |-> 3, expect |-> 8],
  [op |-> "write_register", a |-> 1, v |-> 7, expect |-> NoLength],
  [op |-> "read_status",    a |-> 9, expect |-> 2],
  [op |-> "read_register",  a |-> 1, expect |-> 2] >>
List2 == <<
  [op |-> "read_datafifo",  n |-> 0, expect |-> NoLength],
  [op |-> "write_memory",   a |-> 0, v |-> <<W(9, 8)>>, expect |-> 0],
  [op |-> "write_register", a |-> 0, v |-> 70000, expect |-> 0],    \* more than 16 bits
  [op |-> "read_register",  a |-> 0, expect |-> 2],
  [op |-> "read_memory",    a |-> 0, n |-> 2, expect |-> NoLength],
  [op |-> "read_datafifo",  n |-> 2, expect |-> 6] >>
Lists == {List1, List2}

(* Events as fmc112.c numbers them, and as the main of the file module     *)
(* does, which begins chunks in the middle.                                *)
FmcEvents == <<0, 1, 2, 3, 4>>
TestMain  == {<<0, 1, 4, 8, 9>>, <<5, 9>>}
Programs  == {FmcEvents} \cup TestMain

(* Long events for the window, small ones for the digest, and of both some *)
(* of which the last column of seven reads one sample too many.            *)
Flat  == {[c \in 0 .. 0 |-> [i \in 0 .. n - 1 |-> 0]] : n \in {105, 121}}
Small == UNION {[0 .. 1 -> [0 .. n - 1 -> {-3, 0, 2}]] : n \in {1, 2, 3}}
            \cup {[c \in 0 .. 1 |-> [i \in 0 .. 56 |-> IF c = 0 THEN i ELSE 100 - i]]}
Views == Flat \cup Small
Behind == {-1000, 1000}

(* Masks of neighbours: all channels, a group of eight or four, or one.    *)
Masks == {0 .. 15, 0 .. 7, 8 .. 15} \cup {4 * g .. 4 * g + 3 : g \in 0 .. 3} \cup {{c} : c \in 0 .. 15}
-----------------------------------------------------------------------------
VARIABLES
  tool,
  program, connectPc, list, ap, tried, sockfd, fd, peer, skipped,
  todo, waiting, bar, cmds, net, pending, status, adc, phy, cpld, clock,
  timeouts,
  queryTodo, queryPc, call, resp, queryCmds, queryNet, closed, config, memCnt,
  addr, din, mem, taken, conf, cells, words,
  fileTodo, filePc, id, wav, did, h5, disk, rpc, rd, got, written, stop,
  waveviewWavBuf, chdInfo, wavDigest, digestL, digestH, xL, xH,
  pktCtr, udptestNet, buf, cnt1, errcnt, i, first, lost, udptestGot,
  udptestTimeouts, start,
  chMask, SEL, indata_q_i, fifo, channelsWords, t, wavBuf, iP

connectVars == <<program, connectPc, list, ap, tried, sockfd, fd, peer,
  skipped>>
prepareVars == <<todo, waiting, bar, cmds, net, pending, status, adc, phy, cpld,
  clock, timeouts>>
queryVars == <<queryTodo, queryPc, call, resp, queryCmds, queryNet, closed,
  config, memCnt, addr, din, mem, taken, conf, cells, words>>
fileVars == <<fileTodo, filePc, id, wav, did, h5, disk, rpc, rd, got, written,
  stop>>
waveviewVars == <<waveviewWavBuf, chdInfo, wavDigest, digestL, digestH, xL, xH>>
udptestVars == <<pktCtr, udptestNet, buf, cnt1, errcnt, i, first, lost,
  udptestGot, udptestTimeouts, start>>
channelsVars == <<chMask, SEL, indata_q_i, fifo, channelsWords, t, wavBuf, iP>>
vars == <<tool, connectVars, prepareVars, queryVars, fileVars, waveviewVars,
  udptestVars, channelsVars>>

Connect == INSTANCE HostConnect WITH
  Programs <- {"fmc112", "tcpio", "udptest"}, pc <- connectPc
Prepare == INSTANCE FmcPrepare
Query == INSTANCE HostQuery WITH
  Calls <- Requests, MayClose <- TRUE,
  todo <- queryTodo, pc <- queryPc, cmds <- queryCmds, net <- queryNet
File == INSTANCE WaveformFile WITH
  nPt <- fileNPt, Stops <- {"SIGINT", "timeout", "SIGKILL"},
  todo <- fileTodo, pc <- filePc
View == INSTANCE Waveview WITH wavBuf <- waveviewWavBuf
Udp == INSTANCE UdpTest WITH
  net <- udptestNet, got <- udptestGot, timeouts <- udptestTimeouts
Channels == INSTANCE ChannelMap WITH words <- channelsWords
-----------------------------------------------------------------------------
connectOff == program = Off /\ connectPc = Off /\ list = Off /\ ap = Off /\
  tried = Off /\ sockfd = Off /\ fd = Off /\ peer = Off /\ skipped = Off
prepareOff == todo = Off /\ waiting = Off /\ bar = Off /\ cmds = Off /\
  net = Off /\ pending = Off /\ status = Off /\ adc = Off /\ phy = Off /\
  cpld = Off /\ clock = Off /\ timeouts = Off
queryOff == queryTodo = Off /\ queryPc = Off /\ call = Off /\ resp = Off /\
  queryCmds = Off /\ queryNet = Off /\ closed = Off /\ config = Off /\
  memCnt = Off /\ addr = Off /\ din = Off /\ mem = Off /\ taken = Off /\
  conf = Off /\ cells = Off /\ words = Off
fileOff == fileTodo = Off /\ filePc = Off /\ id = Off /\ wav = Off /\ did = Off
  /\ h5 = Off /\ disk = Off /\ rpc = Off /\ rd = Off /\ got = Off /\
  written = Off /\ stop = Off
waveviewOff == waveviewWavBuf = Off /\ chdInfo = Off /\ wavDigest = Off /\
  digestL = Off /\ digestH = Off /\ xL = Off /\ xH = Off
udptestOff == pktCtr = Off /\ udptestNet = Off /\ buf = Off /\ cnt1 = Off /\
  errcnt = Off /\ i = Off /\ first = Off /\ lost = Off /\ udptestGot = Off /\
  udptestTimeouts = Off /\ start = Off
channelsOff == chMask = Off /\ SEL = Off /\ indata_q_i = Off /\ fifo = Off /\
  channelsWords = Off /\ t = Off /\ wavBuf = Off /\ iP = Off

Init ==
  /\ tool \in {"connect", "prepare", "query", "file", "waveview", "udptest", "channels"}
  /\ IF tool = "connect" THEN Connect!Init ELSE connectOff
  /\ IF tool = "prepare" THEN Prepare!Init ELSE prepareOff
  /\ IF tool = "query" THEN Query!Init ELSE queryOff
  /\ IF tool = "file" THEN File!Init ELSE fileOff
  /\ IF tool = "waveview" THEN View!Init ELSE waveviewOff
  /\ IF tool = "udptest" THEN Udp!Init ELSE udptestOff
  /\ IF tool = "channels" THEN Channels!Init ELSE channelsOff

connectNext == /\ tool = "connect" /\ Connect!Next
               /\ UNCHANGED <<tool, prepareVars, queryVars, fileVars,
                  waveviewVars, udptestVars, channelsVars>>
prepareNext == /\ tool = "prepare" /\ Prepare!Next
               /\ UNCHANGED <<tool, connectVars, queryVars, fileVars,
                  waveviewVars, udptestVars, channelsVars>>
queryNext == /\ tool = "query" /\ Query!Next
             /\ UNCHANGED <<tool, connectVars, prepareVars, fileVars,
                waveviewVars, udptestVars, channelsVars>>
fileNext == /\ tool = "file" /\ File!Next
            /\ UNCHANGED <<tool, connectVars, prepareVars, queryVars,
               waveviewVars, udptestVars, channelsVars>>
waveviewNext == /\ tool = "waveview" /\ View!Next
                /\ UNCHANGED <<tool, connectVars, prepareVars, queryVars,
                   fileVars, udptestVars, channelsVars>>
udptestNext == /\ tool = "udptest" /\ Udp!Next
               /\ UNCHANGED <<tool, connectVars, prepareVars, queryVars,
                  fileVars, waveviewVars, channelsVars>>
channelsNext == /\ tool = "channels" /\ Channels!Next
                /\ UNCHANGED <<tool, connectVars, prepareVars, queryVars,
                   fileVars, waveviewVars, udptestVars>>
Next == connectNext \/ prepareNext \/ queryNext \/ fileNext \/ waveviewNext \/ udptestNext \/ channelsNext

Fairness ==
  /\ WF_connectVars(tool = "connect" /\ Connect!Call)
  /\ WF_prepareVars(tool = "prepare" /\ Prepare!Program)
  /\ WF_prepareVars(tool = "prepare" /\ Prepare!Execute)
  /\ WF_prepareVars(tool = "prepare" /\ Prepare!Respond)
  /\ WF_queryVars(tool = "query" /\ Query!Send)
  /\ WF_queryVars(tool = "query" /\ Query!Read)
  /\ WF_queryVars(tool = "query" /\ Query!ReadClosed)
  /\ WF_queryVars(tool = "query" /\ Query!Timeout)
  /\ WF_queryVars(tool = "query" /\ Query!Execute)
  /\ WF_fileVars(tool = "file" /\ File!Next)
  /\ WF_udptestVars(tool = "udptest" /\ (Udp!Receive \/ Udp!Timeout))
  /\ WF_channelsVars(tool = "channels" /\ Channels!Clock)
  /\ WF_channelsVars(tool = "channels" /\ Channels!Fill)
Spec == Init /\ [][Next]_vars /\ Fairness
-----------------------------------------------------------------------------
ASSUME ConstantsAssumption ==
  /\ Connect!ProgramsAssumption /\ Connect!NAddrAssumption
  /\ Prepare!StarsAssumption /\ Prepare!BoundsAssumption /\ Query!MayCloseAssumption /\ Query!CallsAssumption
  /\ File!SizesAssumption /\ File!WritesAssumption /\ File!StopsAssumption /\ View!WavesAssumption /\ View!LengthsAssumption
  /\ View!DoublesAssumption
  /\ Udp!ReadsAssumption /\ Udp!CountsAssumption /\ Channels!MasksAssumption /\ Channels!MemWordsAssumption

(* Each variable in the range that the module of the tool gives it.        *)
TypeOK ==
  /\ tool = "connect" => Connect!TypeOK
  /\ tool = "prepare" => Prepare!TypeOK
  /\ tool = "query"   => Query!TypeOK
  /\ tool = "file"    => File!TypeOK
  /\ tool = "udptest" => Udp!TypeOK

(* A descriptor that get_socket returns is a socket that is connected      *)
(* (fmc112.c 89-156, tcpio.c 75-137).  That of udptest.c may be one that   *)
(* is not bound or not open any more (udptest.c 83-94).                    *)
SocketReady == tool = "connect" /\ program # "udptest" => Connect!SocketReady

(* What fmc112 and udptest print never goes to a socket (fmc112.c 127-149, *)
(* udptest.c 71-94).  tcpio closes descriptor 1 when setsockopt fails      *)
(* (tcpio.c 119).                                                          *)
StandardStreams == tool = "connect" /\ program # "tcpio" => Connect!StandardStreams

(* However many addresses fail in whatever way, fmc112 keeps no descriptor *)
(* but the one it returns (fmc112.c 127-156).                              *)
NothingLeftOpen == tool = "connect" /\ program = "fmc112" => Connect!NothingLeftOpen

(* A board that comes up between the two tries of connect_retry is reached *)
(* (fmc112.c 89-103).                                                      *)
GivenUpOnlyWhenRefused == tool = "connect" /\ program = "fmc112" => Connect!GivenUpOnlyWhenRefused

(* As long as no query was lost, each write of the configuration goes to   *)
(* the star that it is meant for (fmc112.c 568-678, sip.h 32).             *)
WritesHitTheirStar == tool = "prepare" /\ timeouts = 0 => Prepare!WritesHitTheirStar

(* As long as no query was lost, no ADC is left with its pattern on when   *)
(* the acquisition begins (fmc112.c 506-509).                              *)
LeftReady == tool = "prepare" /\ timeouts = 0 => Prepare!LeftReady

(* A query returns the whole answer to its own request, and a lost         *)
(* connection cuts it short without mixing in another (fmc112.c 158-199,   *)
(* tcpio.c 139-186, command.c).                                            *)
AnswerRight  == tool = "query" => Query!AnswerRight
AnswerPrefix == tool = "query" => Query!AnswerPrefix

(* Every event written is read back whole, and the number of events found  *)
(* is the number written, after any end but SIGKILL                        *)
(* (hdf5rawWaveformIo.c 187-259, fmc112.c 211-226).                        *)
ReadBack       == tool = "file" => File!ReadBack
CountIsWritten == tool = "file" => File!CountIsWritten

(* No sequence of keys takes the window of a long event outside it or      *)
(* turns it round (waveview.c 150-257).                                    *)
WindowInside == tool = "waveview" => View!WindowInside

(* The digest leaves no sample out, has no empty column, reads at most one *)
(* sample too many, and fits the scale it is drawn with (waveview.c        *)
(* 69-120).                                                                *)
DigestCovers  == tool = "waveview" => View!DigestCovers
DigestInScale == tool = "waveview" => View!DigestInScale

(* The errors that udptest prints are the runs of lost packets and the     *)
(* reads that timed out (udptest.c 131-146).                               *)
ErrorsAreGaps == tool = "udptest" => Udp!ErrorsAreGaps

(* Every tool comes to its end: get_socket returns, the preparation ends   *)
(* with a board that answers or not, all requests are made although the    *)
(* connection may be lost, the file can be read, a silent board keeps no   *)
(* program waiting, and a full memory makes a full event.                  *)
ToolsEnd ==
  <>(/\ tool = "connect"  => Connect!Returned
     /\ tool = "prepare"  => Prepare!Prepared
     /\ tool = "query"    => Query!AllAsked
     /\ tool = "file"     => rpc = "done"
     /\ tool = "udptest"  => Udp!LoopOver
     /\ tool = "channels" => Channels!EventFilled)

(* The properties that the run checks: one for each of the tools.          *)

(* A socket that fmc112 or tcpio gets can be used; fmc112 and udptest      *)
(* leave the standard streams alone; fmc112 leaves no other socket open    *)
(* and gives up no address that accepts (fmc112.c 89-156, tcpio.c 75-137,  *)
(* udptest.c 48-94).                                                       *)
SocketsRight == SocketReady /\ StandardStreams /\ NothingLeftOpen /\ GivenUpOnlyWhenRefused

(* The board is configured at the right addresses, every read gives what   *)
(* it asked for however late the firmware answers in its sleep, the inputs *)
(* are trained with every ADC sending its pattern, after the clocks are    *)
(* set, and left without it (fmc112.c 293-318, 356-678, sip.c 41-175);     *)
(* unless a query was lost.                                                *)
PreparationRight ==
  /\ [](WritesHitTheirStar /\ LeftReady)
  /\ [][tool = "prepare" /\ timeouts' = 0 =>
          Prepare!AnswerIsForThisRead /\ Prepare!TrainedOnPattern]_vars

(* Answers are whole and one's own, or cut short by a lost connection      *)
(* (fmc112.c 158-199, tcpio.c 139-186).                                    *)
AnswersRight == AnswerRight /\ AnswerPrefix

(* What was written is found again, and so is its number                   *)
(* (hdf5rawWaveformIo.c 187-296).                                          *)
FileRight == ReadBack /\ CountIsWritten

(* The window stays in an event longer than it, and goes one sample beyond *)
(* a shorter one at most; an arrow keeps its width; the digest shows all   *)
(* of the event, and of what lies behind it one sample at most (waveview.c *)
(* 70-257).                                                                *)
ViewRight ==
  /\ [](WindowInside /\ DigestCovers /\ DigestInScale)
  /\ [][tool = "waveview" => View!WidthKept]_vars

(* Each row of the event holds the channel that it is saved as, for the    *)
(* masks that fmc112.c names, and filling it never leaves the event        *)
(* (fmc112.c 643-668, 803-834, channel_sel.vhd).                           *)
ChannelsRight ==
  /\ [](tool = "channels" => Channels!RowsAreChannels)
  /\ [][tool = "channels" => Channels!InsideEvent]_vars
=============================================================================
