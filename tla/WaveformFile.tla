---------------------------- MODULE WaveformFile ----------------------------
(***************************************************************************)
(* hdf5rawWaveformIo.c: the file of waveforms.  Events are slabs of data   *)
(* sets C0, C1, ... that hold nWfmPerChunk events each; the number of      *)
(* events is kept in memory and written to the file by flush_file alone.   *)
(* A program writes (fmc112.c, or the main of the file itself), may be     *)
(* stopped by a signal between any two steps, by its own timeout, or by    *)
(* SIGKILL; then a reader opens what is left.                              *)
(*                                                                         *)
(* The HDF5 library is external: it keeps the file in memory and puts it   *)
(* on the disk at H5Fflush, H5Fclose and at the exit of the program.       *)
(***************************************************************************)
EXTENDS Integers, Sequences, FiniteSets

CONSTANTS
  Writes,        \* the eventIds that a program writes, in order: a set of sequences
  nWfmPerChunk, nPt,
  SCOPE_MEM_LENGTH_MAX,   \* the nPt of a file before its attributes are known
  Stops          \* how a program may be stopped: "SIGINT", "timeout", "SIGKILL"

SizesAssumption ==
  {nWfmPerChunk, nPt, SCOPE_MEM_LENGTH_MAX} \subseteq Nat \ {0}
(* The programs count up: an event is written once, and the first one of a *)
(* chunk before the others.                                                *)
WritesAssumption ==
  Writes \subseteq Seq(Nat) /\ \A w \in Writes : \A m, n \in DOMAIN w : m < n => w[m] < w[n]
StopsAssumption == Stops \subseteq {"SIGINT", "timeout", "SIGKILL"}

VARIABLES
  todo, pc,      \* the writing program: events to write, its place in the code
  id,            \* handle and memory of the file: "none", "open", "closed", "freed"
  wav,           \* struct waveform_file: nEvents, nPt
  did,           \* the data set at hand, or Bad
  h5, disk,      \* the file as the library has it, and as it is on the disk
  rpc, rd, got,  \* the reader: its place, its struct, what it has read of each event
  written, stop  \* history: events whose write is complete; what ended the program

writer == <<todo, pc, id, wav, did>>
reader == <<rpc, rd, got>>
vars   == <<writer, h5, disk, reader, written, stop>>

Ids     == UNION {{w[i] : i \in DOMAIN w} : w \in Writes}
Chunks  == {e \div nWfmPerChunk : e \in Ids}
Offsets == 0 .. nPt * nWfmPerChunk - 1       \* the extent of a data set
Bad  == -1
Fill == <<>>
Point(e, k) == <<e, k>>                      \* sample k of event e
Empty == [chunks |-> {}, cell |-> [p \in Chunks \X Offsets |-> Fill], nEvents |-> 0, nPt |-> 0]

Init ==
  /\ todo \in Writes /\ pc = "open" /\ id = "none" /\ wav = [nEvents |-> 0, nPt |-> 0] /\ did = Bad
  /\ h5 = Empty /\ disk = Empty
  /\ rpc = "wait" /\ rd = wav /\ got = [e \in Ids |-> Fill]
  /\ written = {} /\ stop = "no"
-----------------------------------------------------------------------------
Goto(here, next) == pc = here /\ pc' = next

OpenFile ==
  /\ Goto("open", "attribute") /\ id' = "open"
  /\ wav' = [nEvents |-> 0, nPt |-> SCOPE_MEM_LENGTH_MAX] /\ h5' = Empty
  /\ UNCHANGED <<todo, did, disk, reader, written, stop>>

WriteAttributeLate ==      \* mutant of WriteAttribute: the struct keeps the default length
  /\ Goto("attribute", "event")
  /\ h5' = [h5 EXCEPT !.nPt = nPt] /\ UNCHANGED <<todo, id, wav, did, disk, reader, written, stop>>
WriteAttribute ==
  /\ Goto("attribute", "event")
  /\ h5' = [h5 EXCEPT !.nPt = nPt] /\ wav' = [wav EXCEPT !.nPt = nPt]
  /\ UNCHANGED <<todo, id, did, disk, reader, written, stop>>

ChunkOf(e) == e \div nWfmPerChunk
InChunkPast(e) == e          \* mutant of InChunk: the place in the file, not in the chunk
InChunk(e) == e % nWfmPerChunk
SlabAt(e, n) == {InChunk(e) * n + k : k \in 0 .. n - 1}

(* The first event of a chunk creates the data set, and fails where there  *)
(* is one; any other opens it, and creates it where there is none.         *)
DataSetFirstOnly(e) ==    \* mutant of DataSet: without the second way to create
  IF (InChunk(e) = 0) = (ChunkOf(e) \in h5.chunks) THEN Bad ELSE ChunkOf(e)
DataSet(e) == IF InChunk(e) = 0 /\ ChunkOf(e) \in h5.chunks THEN Bad ELSE ChunkOf(e)

Chunk ==
  /\ todo # <<>> /\ Goto("event", "write")
  /\ did' = DataSet(Head(todo))
  /\ h5' = [h5 EXCEPT !.chunks = IF did' = Bad THEN @ ELSE @ \cup {did'}]
  /\ UNCHANGED <<todo, id, wav, disk, reader, written, stop>>

(* H5Dwrite fails for a slab that is not inside the data set.              *)
Write ==
  /\ Goto("write", "count")
  /\ LET e == Head(todo)  slab == SlabAt(e, wav.nPt) IN
     h5' = IF did = Bad \/ ~(slab \subseteq Offsets) THEN h5
           ELSE [h5 EXCEPT !.cell = [p \in DOMAIN @ |->
                   IF p[1] = did /\ p[2] \in slab THEN Point(e, p[2] - InChunk(e) * wav.nPt) ELSE @[p]]]
  /\ UNCHANGED <<todo, id, wav, did, disk, reader, written, stop>>

CountPerChannel ==     \* mutant of Count: one for each of two channels
  /\ Goto("count", "event")
  /\ wav' = [wav EXCEPT !.nEvents = @ + 2] /\ written' = written \cup {Head(todo)}
  /\ todo' = Tail(todo) /\ did' = Bad
  /\ UNCHANGED <<id, h5, disk, reader, stop>>
Count ==
  /\ Goto("count", "event")
  /\ wav' = [wav EXCEPT !.nEvents = @ + 1] /\ written' = written \cup {Head(todo)}
  /\ todo' = Tail(todo) /\ did' = Bad
  /\ UNCHANGED <<id, h5, disk, reader, stop>>

(* atexit_flush_files, called at the end of main and by the handler.       *)
FlushNoCount ==     \* mutant of Flush: the library alone is flushed
  /\ (pc = "event" /\ todo = <<>>) \/ pc = "handler"
  /\ pc' = "close" /\ disk' = IF id = "open" THEN h5 ELSE disk
  /\ UNCHANGED <<todo, id, wav, did, h5, reader, written, stop>>
Flush ==
  /\ (pc = "event" /\ todo = <<>>) \/ pc = "handler"
  /\ pc' = "close"
  /\ h5' = IF id = "open" THEN [h5 EXCEPT !.nEvents = wav.nEvents] ELSE h5
  /\ disk' = IF id = "open" THEN h5' ELSE disk
  /\ UNCHANGED <<todo, id, wav, did, reader, written, stop>>

Close ==
  /\ Goto("close", "free") /\ id' = IF id = "open" THEN "closed" ELSE id
  /\ disk' = IF id = "open" THEN h5 ELSE disk
  /\ UNCHANGED <<todo, wav, did, h5, reader, written, stop>>
FreeAgain ==     \* mutant of Free: the handler exits, and the exit calls the handler
  /\ Goto("free", "handler") /\ UNCHANGED <<todo, id, wav, did, h5, disk, reader, written, stop>>
Free ==
  /\ Goto("free", "return") /\ id' = "freed"
  /\ UNCHANGED <<todo, wav, did, h5, disk, reader, written, stop>>
Exit ==
  /\ Goto("return", "ended")
  /\ UNCHANGED <<todo, id, wav, did, h5, disk, reader, written, stop>>
-----------------------------------------------------------------------------
Running == {"event", "write", "count", "close", "free", "return"}

(* SIGINT is held back while its handler runs, and the handler is set once *)
(* the file has its attributes.                                            *)
Signal ==
  /\ "SIGINT" \in Stops /\ stop = "no" /\ pc \in Running
  /\ pc' = "handler" /\ stop' = "SIGINT"
  /\ UNCHANGED <<todo, id, wav, did, h5, disk, reader, written>>
(* fmc112_read_save calls the handler when the board falls silent.         *)
ReadTimeout ==
  /\ "timeout" \in Stops /\ stop = "no" /\ pc = "event" /\ todo # <<>>
  /\ pc' = "handler" /\ stop' = "timeout"
  /\ UNCHANGED <<todo, id, wav, did, h5, disk, reader, written>>
(* SIGKILL ends it at once; the library has flushed nothing of late.       *)
Kill ==
  /\ "SIGKILL" \in Stops /\ stop = "no" /\ pc \in Running
  /\ pc' = "ended" /\ stop' = "SIGKILL"
  /\ UNCHANGED <<todo, id, wav, did, h5, disk, reader, written>>
-----------------------------------------------------------------------------
OpenForRead ==
  /\ pc = "ended" /\ rpc = "wait" /\ rpc' = "attribute"
  /\ rd' = [nEvents |-> disk.nEvents, nPt |-> SCOPE_MEM_LENGTH_MAX]
  /\ UNCHANGED <<writer, h5, disk, got, written, stop>>
ReadAttributeOnly ==      \* mutant of ReadAttribute: the struct keeps the default length
  /\ rpc = "attribute" /\ rpc' = "events"
  /\ UNCHANGED <<writer, h5, disk, rd, got, written, stop>>
ReadAttribute ==
  /\ rpc = "attribute" /\ rpc' = "events"
  /\ rd' = [rd EXCEPT !.nPt = IF disk.nPt = 0 THEN @ ELSE disk.nPt]
  /\ UNCHANGED <<writer, h5, disk, got, written, stop>>

(* read_event; a read that fails leaves the caller's zeros.                *)
Slab(e) ==
  IF ChunkOf(e) \in disk.chunks /\ SlabAt(e, rd.nPt) \subseteq Offsets
  THEN [k \in 1 .. rd.nPt |-> disk.cell[ChunkOf(e), InChunk(e) * rd.nPt + k - 1]]
  ELSE Fill
ReadEvents ==
  /\ rpc = "events" /\ rpc' = "done"
  /\ got' = [e \in Ids |-> Slab(e)]
  /\ UNCHANGED <<writer, h5, disk, rd, written, stop>>

Next == \/ OpenFile \/ WriteAttribute \/ Chunk \/ Write \/ Count \/ Flush \/ Close \/ Free \/ Exit
        \/ Signal \/ ReadTimeout \/ Kill
        \/ OpenForRead \/ ReadAttribute \/ ReadEvents
(* Every program runs on; nothing need stop it.                            *)
Spec == Init /\ [][Next]_vars /\ WF_vars(Next)
-----------------------------------------------------------------------------
TypeOK ==
  /\ pc \in Running \cup {"open", "attribute", "handler", "ended"}
  /\ id \in {"none", "open", "closed", "freed"} /\ did \in Chunks \cup {Bad}
  /\ wav.nPt \in {0, nPt, SCOPE_MEM_LENGTH_MAX} /\ wav.nEvents \in 0 .. Cardinality(Ids)
  /\ h5.chunks \subseteq Chunks /\ disk.nEvents \in 0 .. Cardinality(Ids)

Whole(e) == [k \in 1 .. nPt |-> Point(e, k - 1)]

(* Every event whose write came to its end is read back whole, whatever    *)
(* ended the program and in whatever place, by a reader that only knows    *)
(* the attributes of the file.                                             *)
ReadBack == rpc = "done" /\ stop # "SIGKILL" => \A e \in written : got[e] = Whole(e)

(* The number of events that a reader finds is the number of events        *)
(* written: none that is counted and cut off, none that is there and not   *)
(* counted.  SIGKILL, for which main sets a handler in vain (fmc112.c      *)
(* 923), leaves the 0 of the new file.                                     *)
CountIsWritten == rpc # "wait" /\ stop # "SIGKILL" => rd.nEvents = Cardinality(written)
=============================================================================
