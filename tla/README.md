# K71GbE: a TLA+ verification of the data acquisition firmware

K71GbE is a data acquisition system on a Xilinx KC705 board.  An FMC112 module digitises
twelve channels; the FPGA averages and selects channels, keeps the stream in an SDRAM ring until a
trigger, and sends the captured part to a PC over gigabit Ethernet (TCP).  A program on the PC
(`util/fmc112.c`) sets the board up, arms the capture, waits for it, reads it back and writes it to a
file.  Other programs on the PC send Ethernet frames through the board's ten gigabit port
(`tcpio.c`, `tge.c`), count the packets that come out of it (`udptest.c`) and show the file
(`waveview.c`).

The firmware is VHDL in `src/src/`, the PC programs are C in `src/util/`.  (All paths here are
relative to the directory that holds `src/` and `tla/`.)

## 1. Inventory

| Component | State it keeps | Operations | What is hard about it | What makes it correct |
|---|---|---|---|---|
| **Command interpreter** `control_interface.vhd` | state machine of 7 states, 2 counters, registers (CONFIG, PULSE, memory address, data and count), control FIFO | one clock in each state; RESET | outputs act one clock later than the tests that allow them; waits on two FIFOs at once; a burst of replies against a full FIFO | a reply for each request, once, in order; pulses three clocks wide; always back for the next command |
| **Pulse carrier** `pulse2pulse.vhd` | four flip-flops in each of two clock domains | rising edge of each clock, rst | the two clocks interleave freely; a pulse may outlast or undercut the handshake | one pulse out for one in, one clock wide; the handshake comes to rest |
| **Capture buffer** `sdram_ddr3/sdram_buffer_fifo.vhd` | status flags and address registers, a write machine, a read machine, input and output FIFO | rising edge of CLK (three processes at once), CTRL_RESET, RESET, DATA_FIFO_RESET | three processes and the MIG interleave by ready signals; starts, stops and ends may coincide; ring addresses wrap | the stream is stored in order and without gaps, a stopped capture ends where it should, a read returns every word once |
| **Trigger** `edge_sync.vhd`, the gate in `top.vhd` | three flip-flops; the gate has none | clock; trigger at any time | the gate reads WR_BUSY and WR_WRAPPED, which rise several clocks after the trigger has passed | one capture for an arming, begun after it |
| Averaging `channel_avg.vhd` | counter, sums of channels, synchroniser of the trigger | clock, trigger, change of CONFIG | the counter starts at a configured offset and ends at one of its bits | 2^n samples make one mean, in the phase of the trigger |
| Channel selection `channel_sel.vhd` | width FIFOs | clock | mask, lanes, swap and file rows are set in four places | each row of an event is the channel it is saved as |
| Reset sequence `global_resetter.vhd` | state, counter, two resets | clock, FORCE_RST, lock gained and lost | delays count up past the end of a range; the lock may go in any state | every reset is long enough, they end in order, the design does not run without a lock |
| I2C writer and master `i2c/*.vhd` | three state machines, map index | start, acknowledge, busy | each machine sees the busy of the next one late and counts its edges | every map entry is written once, whole, in order |
| 10G packet parser `ten_gig_eth_rx_parser.vhd` | parser state, captured fields, command state | words of the AXI stream | it counts words by itself; the command is made after the next frame may have begun | a command is made of one frame for this board, one for each |
| 10G packet sender `ten_gig_eth_packet_gen_simple.vhd` | state, counters | TX_START, AXI stream | the pulse is a level for several clocks; the PC writes the memory it reads | a frame is sent as it was meant, once for a pulse |
| **Acquisition program** `fmc112.c` | socket, counters, file | connect, prepare, arm, poll, read, save, end | timeouts and retries against replies that come late; every call of the socket library may fail; signals | the board is set up at its own addresses; every event saved is one capture, whole |
| Star access `sip.c` | none | read and write a register of a star | four status reads race the firmware | the answer belongs to the question |
| Command encoding `command.c`, `command.py` | none | six encoders | byte order, widths | the interpreter decodes what was encoded |
| Frame sender `tcpio.c`, `tge.c` | socket, packet counter | connect, queries, UDP and ARP frames | lengths of answers; a carry in a checksum; a frame is two dozen commands | answers are one's own and whole; frames are valid |
| Packet counter `udptest.c` | counters, last packet | receive, time out | what a read that failed leaves in the buffer is counted | errors are gaps |
| Waveform file `hdf5rawWaveformIo.c` | open file, event count | create, write, flush, close, read | the count is written by the flush alone; a signal at any step | what was written is found, and its number |
| Waveform viewer `waveview.c` | event, digest, window | keys | each key has a clamp of its own | the window stays in the event, the digest shows all of it |
| SDRAM wrapper `sdram_ddr3.vhd`, top level `top.vhd` | none | wiring | which bit goes where | (part of the models of what it joins) |
| Older buffer `sdram_buffer.vhd`; UART `uartio.vhd`, `byte2cmd.vhd`, `tickgen.vhd`; generator `ten_gig_eth_packet_gen.vhd` | - | - | - | not instantiated or not in use; see 6 |
| Ethernet wrappers `gig_eth*`, `ten_gig_eth*`, Xilinx cores, clock utilities, test benches, scripts | - | - | - | see 6 |

How they interact.  The PC's commands arrive through the TCP core in the *command FIFO*, which the
interpreter reads; its replies leave through the *control FIFO*.  CONFIG registers set channel
selection, averaging and the capture addresses; bits of PULSE_REG start, stop and reset the capture
buffer (3 start, 4 stop, 5 read, 6 reset, 2 FIFO reset), start a frame and a SIP command; STATUS
registers show WR_BUSY, WR_WRAPPED and RD_BUSY and the answers of the SIP firmware.  The pulses cross
into the 200 MHz clock of the SDRAM through three instances of
`pulse2pulse`.  The ADC stream goes through averaging and selection into the capture buffer's input
FIFO; the output FIFO of the capture buffer is the *data FIFO* of the interpreter, which a write to
address 25 copies into the control FIFO.  An external trigger goes through `edge_sync`, the gate and
the carrier and starts a capture.  A memory write of the interpreter fills the packet memory that
`ten_gig_eth_packet_gen_simple` sends.  A frame received is parsed and leaves a command for a responder.

`PROJECT.json` lists every component with what is modelled of it, and the hazards of the code, each
at the line where it bites, with the properties that cover it.

## 2. Modules

| Module | Models |
|---|---|
| `PulseToPulse` | `pulse2pulse.vhd`, both processes, any interleaving of two clocks or one common clock |
| `ControlInterface` | `control_interface.vhd`, the FIFOs at its ports, a memory at its memory port, and the PC |
| `CommandServer` | abstract specification: what the address map promises to the PC |
| `SdramBufferFifo` | `sdram_buffer_fifo.vhd`: all its processes, its FIFOs, and the MIG as an external part |
| `TriggerGate` | `edge_sync.vhd`, the gate of `top.vhd`, the carrier and the status process, with the program that arms |
| `GlobalResetter` | `global_resetter.vhd` and its clock generator |
| `ChannelAvg` | `channel_avg.vhd` |
| `ChannelMap` | mask of `fmc112.c`, swap of `top.vhd`, `channel_sel.vhd`, and the deal into rows of `fmc112.c` |
| `I2cWriter` | `i2c_write_regmap.vhd`, `i2c_master.vhd`, `i2c_master_core.vhd`, one pass after another |
| `RxParser` | `ten_gig_eth_rx_parser.vhd` |
| `HostCommands`, `HostFrames` | `command.c` and the frames of `tge.c`, as operators |
| `PacketSend` | a PC program that sends frames, the packet memory, `ten_gig_eth_packet_gen_simple.vhd`, the MAC |
| `HostConnect` | `get_socket` and `connect_retry` in the versions of `fmc112.c`, `tcpio.c`, `udptest.c` |
| `FmcPrepare` | `fmc112_prepare` of `fmc112.c` with `sip.c`, the registers and the firmware behind them |
| `HostQuery` | `query_response` in two versions, the encoded requests, and a board that decodes them |
| `HostAcquire` | the acquisition loop of `fmc112.c`, its TCP link, and the board as far as the loop sees it |
| `WaveformFile` | `hdf5rawWaveformIo.c` with the ends that `fmc112.c` can come to, and a reader |
| `Waveview` | digest, ranges and window of `waveview.c` |
| `UdpTest` | `udptest.c` |
| `MCControlInterface`, `MCSdramBufferFifo` | three kits of commands, and three setups of users and memory, over one set of variables |
| `MCBoardParts`, `MCPcTools` | the parts that share no state, one for each behaviour |
| `*_proofs` | proofs about the module they are named after; those of the suites hold the proofs of their parts |

Signals and variables keep their names.  A few definitions are deliberately wrong variants of a definition
beside them (commented "Mutant of ..."); each breaks a property of some run and so shows that the
property depends on that piece of code.  No specification uses them.

`MCBoardParts` and `MCPcTools` are not compositions: the parts in them do not interact, or only through
an interface that each of them models.  A behaviour chooses one part at first and runs that; the variables
of the others are `Off`.  What a part is proved for every value of, a suite declares as a constant and its `.cfg`
gives a value to; what is only checked is set in the suite.  The properties of these two runs are conjunctions of the parts' own
properties, one conjunction for each part, and the parts are named in the comments beside them.

### PulseToPulse

`InProc` and `OutProc` are the two clocked processes.  `InEdge`, `OutEdge` and `BothEdges` let the
clocks tick in any order, or together; one common clock, as in `sdram_buffer_fifo.vhd`, is the case of
`BothEdges` alone.  `Source` is the logic in front of the carrier: it raises `pulsein` and holds it for up
to `MaxHold` of its own clocks.  The instances in `sdram_buffer_fifo.vhd` leave INBUSY open, so the source
is free to ignore it; the history variable `polite` remembers whether every pulse since the last reset
waited for it.  `held` and `unanswered` are history too: how long the present pulse has lasted, and pulses
in minus pulses out.

Sampling an asynchronous flag is modelled as reading the old or the new value, according to which
edge comes first; metastability beyond one register is left to the flip-flops.

### ControlInterface

One action is one rising edge of CLK in one state of `cmdIF_inst`; `INTERPRET_CMD` is split by the
command.  The process's registered outputs (`sFifoWrreq`, `CMD_FIFO_RDREQ`, `sWea`) act on the
FIFOs and the memory one clock later, which is where its hazards are; so every action contains
`Edge`, the concurrent statements and the other clocked parts, evaluated from the values before the
edge.  `Reset` is the asynchronous RESET.  The environment is the PC (`HostSend`, `HostReceive`), the
supply of the data FIFO (`DataArrive`), its reset by PULSE_REG(2) (`DataClear`), and a synchronous
memory at the memory port (`top.vhd` ties MEM_DOUT to 0; the interface is meant for a memory such as
this one).  A command word, 32 bits in the code, is a record of its three fields; a 16-bit register
is a value below `W`, which is 2^16 in the code, and counters wrap at `W` as the built counters do.
The width of the FIFOs' words is kept as pairs of halves.  The status registers are inputs and read as
any value.

`CommandServer` has no clocks, strobes or full flags: commands take effect one at a time, and every
reply is appended to one sequence.  `MCControlInterface!ImplementsServer` maps the interpreter onto
it: a reply that is strobed but not yet in the FIFO counts as delivered, a memory write in its
write-enable clock counts as not yet executed, and `counterV` and `counterFIFO` become the number of
words still to come.  `MCControlInterface` runs one of three kits of commands for a whole behaviour:
register reads and writes and pulses; data FIFO reads between them, with words arriving in the data
FIFO; memory writes and bursts.

### SdramBufferFifo

`Clock` is one rising edge of CLK: `StatusProcess`, one of the three states of the write process,
`ReadProcess`, both FIFOs, and the MIG, all from the values before the edge, as the VHDL's signal
assignments are.  In `StatusProcess` the order of the assignments in the VHDL decides when several
conditions hold at once (a read start overrides the end of a capture, which overrides a start).
`ClockInReset` is an edge while CTRL_RESET is high: the processes stand still and the write process's
strobes keep their values, since the reset branch does not assign them.  `AssertReset`, `ReleaseReset`,
`FifoReset` and `Reset` are the resets; `Arrive` and `OutRead` the far ends of the FIFOs.

The MIG is external.  It takes a command or a word whenever it says it is ready, executes commands in
order, pairs each write command with the oldest word it holds, and answers a read later.  Its ready
signals are free: the command ready may fall at any time; the data ready means that there is room,
and with `Stall` it may fall at any time, as its interface permits.  Words are numbers modulo `Words`,
so that a lost, doubled or displaced word is visible in the memory.  The address has one bit more
than the memory needs, as in the code, and wraps at twice the memory.

`Calm` restricts the users to what `fmc112.c` and the trigger gate do: a start, a read or a reset comes
only while the buffer is at rest, because the PC sleeps milliseconds between its steps
(`fmc112.c` 690-704, 749-750) and the gate of `top.vhd` 1219-1221 asks WR_BUSY and WR_WRAPPED.
Stop pulses come at any time.  Without `Calm` everything may coincide with everything.

`MCSdramBufferFifo` has three setups over one set of variables: `capture` stores a stream, `ends` asks
whether captures end, with bursts of two addresses, and `read` reads back through an output FIFO of
one word.

### HostAcquire

The program is the loop of `main` (932-935): `Arm` sends the five commands of `fmc112_arm_acquire` without
waiting, `Query` asks for the two halves of the status word, `Answer` takes whatever a `read` of the socket
returns and uses the first word of it, and `StartRead`, `AskBlock`, `ReadBlock` and `Save` are
`fmc112_read_save`.  `Timeout` is a `select` that gives up: the program goes on with what its buffer holds, which is
its own query, and the reply may come later.  `BlockTimeout` is the longer one of the read, which ends the
program.

The link is a queue of commands and a queue of reply words.  The board executes one command after the
other, as `CommandServer` says, and `ControlInterface` implements.  The capture buffer is what
`SdramBufferFifo` comes to under this program's settings: begin address 0, no wrap-around, no stop
trigger, so that a capture ends at the end of the memory and sets WR_WRAPPED.  `Fill` hands a word to the
MIG (`mig`) and writes with each command the oldest that is there, so that a word left without a command, at
the end of a capture (`Orphan`) or in a reset (`CtrlReset`, which clears neither FIFO nor MIG), shifts all later
captures; a MIG full of such words takes no more.  A read (`ReadAhead`) fills the output FIFO (`fifo`) by itself,
and `Deliver` is FIFO_ADV of the interpreter, which takes no command while it still waits for words (`asked`).
`FifoReset` empties the FIFO, and if a read is still on, words come after it, up to `CtrlReset`.  `Trigger` is the
gate of `top.vhd`.

The board starts as an earlier, killed run of the program may have left it: capturing, reading, with words in the
output FIFO and in the MIG, half-way through a block whose words the new run still gets (`MaxOld` of them), and with
any bits in CONFIG.  A word of the memory is the capture that wrote it and its place, so that old, missing and
displaced words show.  What `Data(c, i)` counts are the words that capture `c` takes from the input FIFO.  That the
first of them are older than the trigger, because the FIFO is filled from the "enable" command on and then
drops what does not fit (`top.vhd` 1090), is not visible at this level.

### TriggerGate

`ControlClock` is an edge of the control clock (edge detector and gate), `MemoryClock` one of the SDRAM's
(carrier and status process); between two of the former come one to three of the latter.  The program goes
through `fmc112_arm_acquire`: it forbids triggers, resets, and allows them; what a trigger before that has
on the way is the hazard.  The start by software, bit 3 of PULSE_REG, is left out: the gate lets it through whatever
the buffer does (`top.vhd` 1219), and no program sends it.  `SdramBufferFifo` has the capture itself, here it lasts `Span` words.

### GlobalResetter

One action is a clock in one of the five states, together with what the lock and FORCE_RST do
meanwhile.  The delays of the code come from a counter that starts below the end of its range and counts to
0 past it, which is what the built hardware does (`Count`); the histories `clkHigh`, `glbWait` and
`loose` measure how long the resets were and how long the design ran without a lock.

### ChannelAvg and ChannelMap

`ChannelAvg` keeps of a sum how many samples it holds: sums never have gaps, since every clock adds one.
Trigger, offset and a change of CONFIG come at any time.  `ChannelMap` keeps of a sample its channel and
its number.  One clock puts a sample of all channels through swap, lanes and FIFO; `Fill` is the loop of
`fmc112_read_save` that deals bytes to rows.  For the masks that the comments of `fmc112.c` name, every row has
its own channel; for scattered masks it has not (see 5).

### I2cWriter

`Clock` is one clock of the writer and the master; every `Period` clocks the core makes a step, of one
state, or of one byte.  The slave acknowledges or not, and a reset comes at any time.  The history `wire`
is what went over the bus in this pass, to be compared with the map.

### RxParser

A register holds the number of the frame its value is from, so that mixed fields show.  The MAC may
pause in a frame, frames follow each other after one idle clock or more, as its frame FIFO makes them do, and RESET comes at any time, also in a frame.
Frames are whole (six words and more): what the MAC passes on is at least 60 bytes long.  `RequestsAnswered` compares
the frames that are answered with those that ask, less the one that is still in the parser.

### HostCommands, HostFrames, HostQuery and PacketSend

`HostCommands` has the numbers: what each encoder makes of its arguments, cut to the widths the C
code cuts them to; `HostFrames` the frames, as numbers, as bytes in network order, and as the words of 32 bits
that a PC reads them back as.  `HostQuery` sends requests, lets a board decode and execute them, and delivers answers in pieces; its
two `query_response`s stop at an expected length or after half a second.  `PacketSend` goes from the calls of
`tge.c` to the bytes at the MAC; the pulse lasts as many edges of the transmit clock as
`PulseClocks` allows, and the MAC may hold TREADY back at any word.  The packet memory has `MemSize` words, and
the counter of packets goes into a frame as its lower six bytes.

### HostConnect

The descriptors of the process are a function from numbers to what they are: standard stream, new
socket, connected socket, closed.  The kernel hands out the lowest free number, which is what makes
closing a wrong one harmful.  Each call may fail, at each address, and an address may begin to accept between
two tries.

### FmcPrepare

The program is a list of steps, made from the code's calls in their order; a SIP command is five register
writes, a pulse, four blanks and four status reads.  The registers that the program sleeps for (`Slow`, the calls with
`waitms`) the firmware has to fetch from the FMC112, and it answers for them at any time before the program wakes:
the status reads of the first query may be too early or between two halves of an answer, and the program throws
that reply away (`Ends`), sleeps, and reads once more (`Wake`).  `EndsOnce`, a mutant, takes the first reply.  For the other
registers the code has no second reading; the firmware is assumed to answer within `AnswerTime` commands.  `Timeout` is a
query given up, whose reply may come later, and `Fail(n)` an error of `select` after `n` words, which as a
`size_t` passes the test of the length (`sip.c` 145), so that what is in the buffer counts.  The state of CPLD, clock tree, ADCs
and input delays follows from the writes that hit them.

### WaveformFile

The library keeps the file in memory and writes it at a flush, a close, or the exit of the program.  A signal
comes between any two steps; the handler of `fmc112.c` runs flush and close and exits.  The reader
opens what is on the disk, reads its attributes and every event.

### Waveview and UdpTest

Keys are actions: each changes `xL` and `xH` by the code's integer arithmetic, conversions from floating point
included.  `Digest` is the double loop over columns and samples.  Its bounds are doubles, and are modelled as such: `Round`
is the division or product rounded to the nearest double, ties to even, with numbers counted in steps of `1 / Unit`;
`Mantissa` is 2^53 in C, and a small power of two in the run, in which rounding up past the end of an event occurs for
small events.  `Step` is `s`, `Edge` is `j*s`, and a column goes from the one, cut, to the next.  `Sample` says what is read one
past a channel's row: the next channel, or, behind the last, memory that holds anything (`Beyond`).  `UdpTest` has the packet counter of the board, a
network that drops packets, reads that time out, and the count of errors.

## 3. Runs

Every configuration is small enough to be explored completely.

| Run | Question and result |
|---|---|
| `pulse` | Clocks in any relation, pulses of up to 7 clocks, resets at any time: a source that waits for INBUSY gets every pulse out once (`OneForOne`, `PulseDelivered`); for any source, pulses may merge, but `NoInventedPulse`, `OneCycleWide`, and the handshake always returns to rest (`BusyClears`) |
| `ctl` | Three kinds of command streams, resets, and a PC that is slow but bounds its outstanding replies: `PulseThreeClocks`; `BackToWait`; `RepliesKept` (the replies the PC still expects are exactly those on their way, and none is pushed into a full FIFO); `ReplyComes`; `ImplementsServer` |
| `ctl_memfull` | A PC that queues reads without such a bound: `MemWordNotLost` is violated |
| `sdram` | One capture with and without wrap-around, ended by a stop trigger or by the end of the memory, stopped once or repeatedly: `StoredInOrder`, `DataBeforeCommand`, `PostTriggerBound`; reads through an output FIFO that fills up: `ReadRight`; a stopped capture comes to its end, with POST_TRIGGER 0 too, where it may have to go round the addresses once, and so does a read: `CaptureAndReadEnd` |
| `sdram_any` | All pulses and resets in any coincidence, and a MIG that refuses at will: `OneAtATime`, and the type invariant of `SdramBufferFifo` |
| `sdram_stall` | A MIG that does not take a word at once: `StoredInOrder` is violated |
| `sdram_orphan` | A capture that ends between a word and its command: `CommandAfterData` is violated |
| `board_parts` | `GateRight`: one capture for an arming, none from before it. `ResetRight`: the design is released after both delays and never runs more than a clock without a lock. `AveragesRight`: what comes out is the mean of 2^avg_n samples unless a trigger or a change disturbed the sum, in the phase of the trigger. `MapWritten`: the wire carries the register map. `CommandsRight`: a command of one frame for each request that came whole. `FramesRight`: the frame that was meant, its checksum right, once a pulse. `PartsGetOn`: the first trigger starts a capture, a locked clock brings the design up, values keep coming, a pass over the map ends, every frame is sent |
| `pc_tools` | `SocketsRight`: a socket that `fmc112` or `tcpio` gets can be used; `fmc112` and `udptest` leave the standard streams alone; `fmc112` leaves no other socket open and gives up no address that accepts (what the others do wrong is in 5). `PreparationRight`: configuration goes to the addresses that were read, every read gives what it asked for although a first reply may be old or torn, training sees the pattern, which is off at the end; unless a query was lost. `AnswersRight`: an answer is the whole answer to its request, or a prefix when the connection is lost. `FileRight`: what was written is read back, and counted. `ErrorsAreGaps`: printed errors are gaps and reads that timed out. `ViewRight`: the window stays inside (a short event's goes one sample beyond at most), the digest leaves no sample out and reads at most one beyond. `ChannelsRight`: each row is its channel. `ToolsEnd`: every tool ends |
| `connect_tcpio` | The socket loop of `tcpio.c` with two addresses: `SocketApart` is violated, the program goes on with a socket that is its standard output |
| `host` | Two events on a board that a killed run left anyhow, triggers at any time, one reply word that comes too late or is owed to the earlier run: `ReadAfterCapture` (a read starts only on a complete capture), `EventIsCapture` (what is saved is one capture, in order and without a gap, begun after the arming, behind no words but those the MIG kept and, where a read was on when the arming began, words of that read), `EventComes` (without late words and with room in the MIG, every arming leads to an event) |
| `host_late` | Two late reply words: `ReadAfterCapture` is violated |

The other passing runs but `sdram` check the type invariant of their module or modules too.

Bounds, and why they are enough.
* `pulse`: `MaxUnanswered` lets three pulses be on their way, more than the carrier can hold apart.
  `MaxHold` is 7, the longest pulse for which the answer cannot come back within the pulse whatever the clocks;
  with 8 `OneForOne` fails.  PULSE_REG's pulses last 3 (`PulseThreeClocks`).
* `ctl`: `W = 3` lets counts, addresses and carries take a first, a middle and a wrapping value.  FIFO depths
  of two give empty, partly full and full; `MaxOwed` (4) is above the depth, so that the control FIFO fills if
  the PC is slow.  A data FIFO read of three words is longer than both FIFOs.
* `sdram`: `Size = 2` with the extra address bit gives four addresses and two laps of the memory; `Words = 4`
  distinguishes neighbours across a lap.  `Posts` includes a whole memory, and 0 in `ends`.
  `DataDepth > CmdqDepth` means that, with `Stall` off, the MIG always has room for the word of a command it has
  room for.  `MaxStarts` bounds the captures between two resets of the MIG; an orphaned word (see
  findings) would otherwise accumulate without end.
* `board_parts`: one to three edges of the SDRAM's clock between two of the control clock, and captures of two words,
  shorter than the way of a trigger through the carrier, so that the gate may be open again
  when a second one arrives.  Reset delays of a few clocks (from 4 and from 5 to 7 and round to 0).  Averages over 1, 2
  and 4 samples with offsets at, between and above the powers of two.  A map of four entries, one of them without
  a value, and a period of five clocks, the shortest in which master and core keep up.  Ten kinds of
  frames, of which each misses one condition of a request or none, of six to eight words; three of them follow one
  another, so that a command is made while the next frame is stored and the one after begins.
  Three frames sent, the shortest, an ARP reply and one with an odd length, with pulses of 5 to 7 edges.
* `pc_tools`: two addresses, each of whose calls may fail; three stars, one timeout; two lists of requests
  with every encoder, expected lengths that are right and unknown, and values too wide for
  their field; chunks of four events, with sequences that cross chunks and that begin inside one;
  events of 1, 2, 3 and 57 samples in seven columns, less and more than a sample per column, and of 105 and
  121 samples, a little longer than the first window of 104 (1600 in the code), with doubles of nine bits,
  in which the last column of some of them (57 and 121 samples) reads one sample too many, as with those of C
  it does for 3390 samples in 3386 columns; five packets, three first counts; every mask of
  one, four, eight or all channels that are neighbours, and a memory of two words.
* `host` has two events because what one leaves behind meets the next, and two blocks of two words, so that
  a block may come in pieces and the event has a boundary inside.  `FifoWords` is less than an event, so that a
  read waits for the program, and `MigWords` lets both events leave a word and still go on.  `MaxLate`, the words that come when
  their query is not waited for, is 1 where the properties hold and 2 where they do not; `MaxOld` of them may be
  owed to the earlier run.

`HostAcquire`, `HostConnect` and the tools in `pc_tools` come to an end, so these configurations allow
deadlock; the others do not stop, and deadlock is checked in them.

Fairness.  Clocks run freely, so an edge that can happen happens: weak fairness on the clocked actions.
The PC's receive loop reads whatever arrives (`HostReceive`; the TCP core drains the FIFO), the data
FIFO and the input FIFO are supplied by a stream that does not stop while a capture is on
(`Supply`, `Arrive`).  The MIG becomes ready again and again and serves what it has taken: weak fairness on a
clock edge in which it is ready, or serves; this is the Xilinx interface's own promise.  The same holds of the
MAC's TREADY in `PacketSend`.  A program makes its next call, calls of the socket library return,
and a `select` or `recvfrom` with a timeout ends; the board executes the commands it has received, and the
firmware behind the SIP registers answers.  In `HostAcquire` a trigger comes when it is allowed, and the stream
does not stop.  Timeouts of the acquisition loop and the preparation, resets, losses of lock, stop
triggers, signals, keys and commands have no fairness.  `CaptureEnds` assumes that stop triggers cease, since each
moves the end; `ComesUp` that the lock stays from some time on, `ValuesComeOut` and `PassEnds` that
triggers and resets cease.  Liveness is model-checked only.

## 4. Proofs

The theorems hold for every value of the constants that satisfies the modules' ASSUMEs.

* `OneForOneHolds` (`PulseToPulse_proofs`): for pulses of at most 7 clocks (`ShortPulses`),
  `Spec => []OneForOne`: as long as the source waits for INBUSY, for two clocks of any frequencies and for
  one clock, with resets at any time.  `OneForOne` is not inductive: nothing in it says where the request is.  The registers form a
  ring, from `in_set` through `outreset` and `in_reset_prev2` back to `in_set`, inverted.  `RisingWave` and
  `FallingWave` say that the ones, and then the zeros, travel round it one wave at a time; `HeldBound` that
  a pulse still high has been sampled once for each in_clk register its wave has passed, so that it is over when
  its answer has gone by; `Answered` that `unanswered` is 1 exactly while the pulse has not reached the
  output's edge detector.  The 7 is the last value for which `HeldBound` closes the argument without
  knowing how the two clocks compare.
* `NoInventedPulseHolds`: with the same bound on the pulses and no discipline at all, as in
  `sdram_buffer_fifo.vhd`, which leaves INBUSY open, the output never pulses more often than the input.
  The waves survive, except for the last register; what replaces `HeldBound` is `StillOwed`: a request on
  its way, and a pulse that is too young to have started the wave on the ring, are each still owed an
  output pulse.
* `OneCycleWideHolds`: whatever the source does, `pulseout` falls at the next edge that moves it.
  It rests on `EdgeTaken`: while `pulseout` is high the edge detector has already registered the level.
* `TypeCorrect` (`ControlInterface_proofs`): `Spec => []TypeOK`, for every `W >= 3`, every depth and every
  set of commands: the FIFOs never exceed their depth and no counter leaves its width.  It is inductive
  as it stands, action by action, with lemmas about `Incr`, `Decr` and the shared `Edge`.
* `PulseWidth`: `Spec => PulseThreeClocks`.  The invariant `PulseWindow` relates the counter of
  PULSE_DELAY to the age of the pulse, and says that in every other state than PULSE_DELAY and the
  WAIT_CMD just after it, PULSE_REG is 0.
* `ReadAndWriteExclude` (`SdramBufferFifo_proofs`): `Spec => []OneAtATime`, for every memory, FIFO depth and user,
  calm or not.  It is inductive as it stands; the content is in the order of the assignments: a start aborts
  a read in the same clock, a read start ends a capture in the same clock, and when both come the read
  wins.
* `TypeCorrect` (`SdramBufferFifo_proofs`): addresses stay in their registers, every access in the memory, and
  no queue exceeds its depth, again for any user.  One lemma for each process and queue, since a clock moves all
  of them.
* `ReadRightHolds`: `ReadUser /\ Spec => []ReadRight`, for every memory size, FIFO depth and delay of the MIG.
  `ReadUser` is a calm user and ends that are multiples of the burst, as `fmc112.c` sets them.  `ReadRight` says
  only what is so at an answer and at the end of a read; the invariant `RInv` says for each state of the read machine
  where the one read command is (wanted, in the MIG, answered), that the FIFO has room for its answer, and
  that the words delivered are those below the read address.
* `RepliesKeptHolds` and `ServerImplemented` (`ControlInterface_proofs`): `CarefulHost /\ Spec => []RepliesKept`, and
  `=> ImplementsServer`, the step simulation to `CommandServer`.  `CarefulHost` is a PC that bounds its
  outstanding replies by the control FIFO (`Flow`; without it `ctl_memfull` loses a word) and never writes 0 to the
  memory count, which `Decr` takes for 2^16.  The invariant `CInv` has two halves.  `Control` says in which states the
  registered strobes can be on, and what they then stand for; `Counts`, that the replies owed are those in
  the control FIFO, the one under the strobe, and those that the machine and the queued commands will still
  make.  That sum over a queue is a recursive function in the model, so that it can be unfolded one command at
  a time, when the command arrives and when it is taken.
* `DataBeforeCommandHolds`, `PostTriggerBoundHolds`, `StoredInOrderHolds` (`SdramBufferFifo_proofs`), and in
  `MCSdramBufferFifo_proofs` the forms that the run checks.  All assume `Calm`, and rest on `WInv`: the strobes are those of the
  state of the write process, and a capture has the MIG's port to itself.
  * `DataBeforeCommand`, for a MIG that may stall: `DInv`, the MIG holds a word for each of its write commands
    and for the one on offer.
  * `PostTriggerBound`, for `StopUser`: POST_TRIGGER is a number of bursts, at least one (`fmc112.c` 631-641 and 691-703
    set it so; with 0 or a fraction it fails, see 5).  `PInv`: the write address is whole bursts past the trigger and
    has not passed the end.
  * `StoredInOrder`, for `FirstCapture`: the first capture after a reset of the MIG, which does not stall (`sdram_stall` and
    `sdram_orphan` show what happens otherwise).  `SInv` ties the commands in the MIG, its words, the word at hand
    and the memory together: executed in order they extend the run of consecutive words that begins at the
    begin address.
* `MCBoardParts_proofs`, for every value of the constants of that suite:
  * `ResetRightHolds`: at every release of the design the clock generator's reset and the wait after its lock have had
    their full length, and the design runs at most one clock after its lock was seen lost.  `ResetterInv` gives,
    state by state, what the counter and the histories have come to.
  * `GateRightHolds`: one capture for an arming and none from before it.  `GateInv` follows the request and its answer
    through the carrier as ones and then zeros that travel (`OnesTravel`, `ZerosTravel`): a second edge can
    pass the gate only while the capture of the first is under way, and is ignored there.
  * `AveragesRightHolds`: `AverageInv` relates the samples in the sum to the offset counter and the phase.
  * `MapWrittenHolds`, for every register map, period and start-up delay: `MapInv` says whether the writer is ahead of, on,
    or behind the entry that the master has (`Quiet`, `Writing`), which the two registers behind BUSY
    decide (`Settled`), and which bytes of it are on the wire.
  * `CommandsRightHolds`: the three properties of `RxParser`.
  * `FramesRightHolds`: for every sequence of ARP and UDP calls that fit 16 bits of length, whatever the MAC does.
    A header is ten numbers, so its ones' complement sum can be written out, and one fold of the carries makes the
    receiver's sum 65535 (`CallAssumption` leaves out the destinations for which one fold is too few, see 5).  Lemmas place
    each number of a frame into its bytes, words and commands.  `FrameInv` then says where the present frame is:
    nowhere (`Idle`), so many of its commands executed and so many words in the memory (`Filling`), all stored and the
    pulse on (`Started`), sent as far as `addrCtr` says (`Sending`), or just over (`Ending`).  A pulse of at most
    eight clocks (`PulseClocksAssumption`) is over before a packet of 42 bytes is, so that it starts no second one.
  * `TypeOKHolds`: no address leaves the packet memory, no byte its width.
* `MCPcTools_proofs`, for every value of the constants of that suite:
  * `SocketsRightHolds`: for any number of addresses and any failures, in all three programs.  `ConnectInv` says at each
    call which single descriptor is not closed (`OneSocket`), or in `tcpio.c`, which leaves descriptors behind, from
    which number on all are (`LowSockets`), and what the addresses behind have left (`LeftBehind`).
  * `ErrorsAreGapsHolds`: for any number of packets, read or lost in any pattern.  `UdpInv` says that every packet is
    read, lost, or on its way and then behind those read; so a packet that is read ends at most one gap, which is
    what `Counted` counts.
  * `FileRightHolds`: for every length of event, chunk and sequence of events that counts up (`WritesAssumption`, as `fmc112.c` and the
    `main` of the file count).  `FileInv`: each event written is whole in the file the library holds (`InMemory`), which the
    disk gets before the handle is closed (`OnDisk`); slabs of different events do not meet (`SlabsApart`), and the first
    event of a chunk never finds its data set there (`NoDataSetYet`).
  * `PreparationRightHolds`: `AnswersInTime /\ Spec => PreparationRight`, for every number of stars, every two of them
    as I2C master and FMC112, and every number of clock settings.  `AnswersInTime` is `AnswerTime <= 4`, and speaks of the
    registers that are read without a sleep: for these the firmware has answered after the four blank commands
    of `sip_send_recv_command`, which is all the time the code gives it.  For the others it answers any time until the
    program wakes, and the proof follows both readings (`SleepsFor`, `Wakes`).  The program is a list of calls of known
    length; lemmas say which call stands where (`CallsAre`, `CallFacts`), without induction, since its pieces are given.
    `PrepareFrom(e, p)` says that `p` of them have been made and the commands of `e` of those executed: the queue
    holds the commands of calls `e + 1` to `p`, each with the address it should have (`QueueFrom`), and then what is left of the
    present read's own, at a distance from the end of the queue that says how old the read is and what of the
    answer is on its way (`AnswerOnItsWay`); every star whose base was read has it (`BasesFrom`), and the FMC112 is as the
    first `e` calls leave it (`BoardAfter`).  A lost query ends all this (`NothingLost`), and the property speaks of none.
  * `AnswersRightHolds`: for every set of lists of legal requests, with the length of the answer known or not, and a
    connection that may be lost at any point.  `Run` follows the board through the commands it has not executed yet.
    While the connection lasts (`OpenInv`) that run ends in the board the requests ask for, and either its last command is
    still to answer, and will answer what is expected, or what the program holds followed by what is on its way is
    that answer.  Afterwards (`ClosedInv`) what is left is the beginning of it.
  * `ViewRightHolds`: for every event, scale and number of columns that doubles can count (`DoublesAssumption`).  `ViewInv` has
    the window, whatever the keys, and the columns of the digest, which cover the samples without gaps: `RoundIs` bounds
    how far a double is from what it stands for, whence the edges rise from 0, each column holds a sample, and
    the last edge lies less than a sample from the end.  The mean of a column is a fold over its samples; `SumsExist` says that
    the recursive function which the fold is defined by exists, for sets of any size, by a least
    size for which it would not, and `TotalBetween` that a sum lies between as many times the least and the greatest value.
  * `ChannelsRightHolds`: for every size of the memory and each mask of neighbours (`Masks`, all there are).  What leaves the
    lanes is one stream of bytes, whose byte number `x` has a known channel, sample and half (`ByteAt`).  `ChannelsFrom` says that the
    words in the buffer and the rest in the width FIFO are the pieces of it (`Piece`) that follow each other behind what was
    dealt, and that the rows hold what came before (`Rows`).  A clock joins a piece to the end (`PickedIs`, `PiecesJoin`), a block
    cuts one off the front (`PiecesCut`, `DealIs`), and `SelectIs` says that the mask's register value picks the mask's lanes.
* `InStepHolds`, `CommandFromOneFrameHolds` and `RequestsAnsweredHolds` (`RxParser_proofs`): for all sets of frames of at least six words
  (`FramesAssumption`), any number of them, any pauses, and resets at any time, also in a frame.  `Position` relates the
  parser's state to the word on the bus; after a reset it waits for the next start.  On it
  rest `Fields` (each register that the state has passed holds this frame's number), `Pending` (a command about to be
  made has fields of one frame, and those that the next frame may already write are not among them), `Numbers` and
  `AllMade` (what was made stays so).  `Answered` says that every request that came whole is answered, but for the
  one whose command is still to be made.

* `TypeCorrect` (`HostAcquire_proofs`): for every number of events, blocks and words, every room in the FIFOs and any
  late words, a capture stays within the memory, a read within what it reads, and a block that comes in
  pieces within the event.  The strengthening is `WholeBlocks`: what the program holds is some number of whole blocks and
  the part of the present one.
* `ReadAfterCaptureHolds`: `Spec => [](late = 0 => ReadAfterCapture)`.  As long as no reply was given up and none was owed to
  an earlier run, program and board go in lock step (`LockStep`): for each place of the program it says what can be on
  the link in either direction, so that the reset that would undo a capture is never behind the query
  that saw it complete, and a block is asked for only when the block before has come whole.  `host_late`
  shows that the condition is needed.
* `EventIsCaptureHolds`: `Spec => [](late = 0 => EventIsCapture)`, for every number and size of blocks, every room in the
  FIFOs and the MIG, and whatever an earlier run left in them.  On top of `LockStep` it needs four facts.  `FreshCapture`: once
  the reset of an arming is done, what the buffer holds was begun after the arming (`PendingKept`: the reset
  stays on its way until it is executed).  `MemoryWritten`: the filled part of the memory is the present capture's, behind the
  words that the MIG held when it began, and as many are in the MIG now.  `InOrder`: what the program
  holds, followed by what is on its way and by the output FIFO, is that memory from its first word up to the read
  pointer, behind what the FIFO held when the read began.  `FifoEmpty`: that was nothing, unless a read was on when the
  arming began.

`PulseToPulse_proofs!TypeCorrect` proves that module's type invariant.  The assumptions used are the modules'
ASSUMEs on their constants (in the suites `ConstantsAssumption`, the conjunction of the parts' named
assumptions), and `ShortPulses`, `CarefulHost`, `Calm`, `ReadUser`, `StopUser`, `FirstCapture`, `AnswersInTime` and `late = 0` where a theorem states
them.  The configurations satisfy all of them.

Model-checked only, being out of the prover's reach or not yet proved: all liveness properties
(`PulseDelivered`, `BusyClears`, `BackToWait`, `ReplyComes`, `CaptureAndReadEnd`, `PartsGetOn`, `ToolsEnd`,
`EventComes`), since the provers have no rules for fairness and ENABLED; the type
invariant of `MCPcTools`; and the two invariants of `HostAcquire` with one late word.

## 5. Findings

With a run:
1. A memory read into a nearly full control FIFO loses a word (`ctl_memfull`): the strobe follows the test
   of `sFifoFull` by one clock.
2. A word that the MIG does not take at once is lost and its successor written in its place, and again in
   its own (`sdram_stall`).
3. The end of a capture can leave a word in the MIG without a command (`sdram_orphan`); the next capture
   is then shifted by one burst, and stays so: nothing the program does clears the MIG.  `EventIsCapture` allows for it.
4. A reply that comes after its timeout answers the next query (`host_late`).  One such reply makes each half of the
   status be taken for the other and the poll blind; two, and memory words left over from an event are taken
   for the status of the next, whose read then starts before its capture.
5. When `setsockopt` fails, `tcpio.c` closes descriptor 1 instead of the socket (`connect_tcpio`); the socket of the next
   address becomes standard output, and the program goes on with it.

Met while modelling, and not kept as runs.  The models have the code's behaviour, and the properties are
stated for what is left:
* A pulse that outlasts the handshake comes out of `pulse2pulse` twice (set `MaxHold` to 8 in
  `PulseToPulse.cfg`), although lines 5-6 say otherwise.
* `control_interface`: a memory count of 0 asks for 2^16 words (`Decr`).
* `sdram_buffer_fifo`: with POST_TRIGGER 0 a stop that coincides with an accepted command misses its end address and the
  capture runs once round; a start in the clock in which the previous capture ends is lost; a POST_TRIGGER that is
  no multiple of 8 never meets the end address; CTRL_RESET leaves the write strobes as they are.
* A capture buffer whose MIG is full of words without a command takes no more, and the next capture does not end
  (hence the condition in `EventComes`).
* `fmc112.c`: if a run is killed in a read, the next one resets the FIFO (694) before it resets the read (697), which may
  refill the FIFO between the two; the first event then begins with these words and lacks as many of its own at the
  end.  If it is killed in a block, the interpreter waits for data and takes none of the new run's commands before it
  has them.  The first words of an event are older than its trigger, because the input FIFO fills from "enable" on
  (`top.vhd` 1090, `sdram_buffer_fifo.vhd` 343-350) and drops what comes until a capture empties it.
* `fmc112.c`: a query of the table that times out gives the base address 0, and all later writes for that star go
  elsewhere (587); an error of `select` passes for a whole reply (295-304, `sip.c` 145); hence "as long as no query was
  lost" in `PreparationRight`.  The outer loop over addresses goes on
  after an error of the socket (781).  A scattered mask labels rows with the wrong channels (873), and a single channel above
  15 gives no lane.  SIGKILL cannot be handled (923), so that it leaves a file with an event count of
  0; the handler stays installed after its file was freed (945).
* `udptest.c` returns a socket that is not bound, or closed (89), which is why `SocketReady` exempts it; `StandardStreams` exempts
  `tcpio`, `NothingLeftOpen` both.
* `tge.c` folds the checksum of the IP header once (178): for a destination such as 192.168.246.121 a carry is lost.
* `top.vhd` with a frame of 14 bytes: it is over while the start pulse is still high, and is sent twice (902).
  TX_AXIS_TDATA is left open (872).
* `hdf5rawWaveformIo.c`: an event at the start of a chunk that exists is not written but counted (224).
* `waveview.c`: in an event no longer than the first window (1600 samples) keys may turn the window round and take it
  one sample beyond either end (393): a dump then reads the sample before the event (128), and with `xH` at -1 the
  unsigned loop of `draw` (329) does not end.  The last column of the digest reads one sample too many where `j*s`
  is rounded up past the end (99), for instance for 3390 samples in 3386 columns.
* `channel_avg`: the first average after a trigger with an offset mixes in samples from before it (105), which is why
  `CleanIsMean` speaks of undisturbed sums.
* `i2c_master_core`: ACK_ERROR tells of the last entry alone (250); no one reads it before.
* `global_resetter`: the lock is not watched in R3, so the design may run a clock without it; the counters run past the end of
  their range, which a simulation refuses.

## 6. Not modelled, and why

* `gig_eth`, `ten_gig_eth`, the MIG, and other Xilinx cores: generated, or a TCP core that is not in the repository.  Their
  FIFO and stream ports are in the models.
* `sdram_buffer.vhd` and `ten_gig_eth_packet_gen.vhd`: not instantiated by `top.vhd`.
* `uartio.vhd`, `byte2cmd.vhd`, `tickgen.vhd`: a second way in for commands, which the design takes from the network.
  What is hard in them is the sampling of an asynchronous line, a matter of time in numbers.
* The levels on the I2C bus, and reads over it, which the design does not use.
* `fmc112_get_diagnostics` and `send_and_receive_loop`: `main` does not call them.  Errors of the socket in the
  acquisition loop.
* The plot of `waveview.c`, which is drawn from digest and window.
* `eth_client.py`, `setup.py`, `i2c.py`: calls in a straight line that print what they receive.
* Clock dividers, pin buffers, debug cores, test benches: no protocol.
* How the 512-bit words are cut into FIFO pieces in the capture buffer; the values of ADC samples.

## 7. Plan

What is left to do, in this order:
1. An abstract specification of a capture ("the last words before the stop and POST_TRIGGER more"), which
   `SdramBufferFifo` should implement for a MIG that does not stall.
2. The type invariant of `MCPcTools` as a theorem.
3. The proofs of `HostAcquire` for one late word, and the model with errors of the socket.
4. `byte2cmd.vhd` behind `uartio.vhd`, should the serial line be used.

The runs are kept few: a component whose questions fit into another run's suite joins it before a new run is
added.
