----------------------------- MODULE DataWriter -----------------------------
(***************************************************************************)
(* The write side of the archive of one channel: DataWriter.cpp with the   *)
(* headers, buffers and control infos it keeps in data files (DataFile.cpp)*)
(* and the time index of the channel (TimeIndex).                          *)
(*                                                                         *)
(* A writer is constructed for each batch of samples (OpenWriter), adds    *)
(* samples (Add...), and is destroyed (CloseHeader, CloseIndex).  While it *)
(* is open it works on a copy of the last header in memory; samples are    *)
(* written one by one, the header only when its buffer is full or the      *)
(* writer is destroyed.  The operations that write more than one of        *)
(* header, link, index and sample are split at the writes, in the order of *)
(* the code, because a reader in another process can look, or the program  *)
(* can die, between any two of them.                                       *)
(*                                                                         *)
(* A data file is written through the buffer of one FILE, which stays open *)
(* in the cache of DataFile after the writer is gone.  Every access begins *)
(* with an fseek, which passes on what is in that buffer; so the last      *)
(* write to each file is seen by this program (blocks) but may be missing  *)
(* on disk (disk) until the file is used again or closed.  For the samples *)
(* that makes no difference, since no header on disk counts them before    *)
(* they are there.                                                         *)
(***************************************************************************)
EXTENDS TimeIndex

CONSTANTS
    Info,         \* values of the control information of the channel
    DbrType,      \* value types (dbr_type with dbr_count)
    Request,      \* numbers of samples a writer is asked to make room for
    MinBuffer,    \* smallest data buffer, in samples (64 in the code)
    MaxBuffer,    \* largest data buffer, in samples (4096 in the code)
    FileLimit,    \* DataWriter::file_size_limit, in units
    MaxSamples,   \* bound: samples accepted over all sessions
    MaxBlocks,    \* bound: data blocks
    MaxRecords,   \* bound: records in the index when a writer is opened
    MayFail,      \* whether writes may fail or the program die
    NoTime        \* stands for "no sample is waiting to be written"

ASSUME BufferAssumption ==
    /\ MinBuffer \in Nat \ {0} /\ MaxBuffer \in Nat /\ MinBuffer < MaxBuffer
    /\ \E k \in 0..MaxBuffer : MaxBuffer = 2^k
    /\ Request \subseteq Nat
ASSUME FileAssumption == FileLimit \in Nat
ASSUME BoundAssumption ==
    MaxSamples \in Nat /\ MaxBlocks \in Nat /\ MaxRecords \in Nat /\ MayFail \in BOOLEAN
ASSUME NoTimeAssumption == NoTime \notin Time

VARIABLES
    log,      \* history: the accepted samples, in that order
    infos,    \* the control infos on disk, each with its data file
    files,    \* sizes of the data files, in units; a file is a position
    blocks,   \* the data headers as the program that writes them sees them
    disk,     \* the data headers that are on disk
    data,     \* the samples in the buffer of each block, by position in log
    index,    \* the time index of the channel
    w         \* the writer: its program counter and its data members

vars == <<log, infos, files, blocks, disk, data, index, w>>

-----------------------------------------------------------------------------
\* A sample is its time stamp, and the value type and control info that are
\* needed to make sense of its value.
Sample == [stamp : Time, type : DbrType, ctrl : Info]

\* Blocks are numbered in the order of their creation; 0 is no block.  A
\* ctrl_info_offset (info) is the number of a control info, 0 for none.  The
\* fields of DataHeaderData, with num_samples, curr_offset and buf_free as one
\* number of samples and buf_size as the capacity of the buffer.
Header ==
    [num : Nat, cap : Nat, begin_time : Time, end_time : Time,
     info : Nat, type : DbrType, file : Nat, next : Nat, prev : Nat]

\* sizes in units: a file cookie, a header, a control info and a sample are
\* one unit each
CookieUnits == 1
HeaderUnits(samples) == 1 + samples
InfoUnits == 1

\* DataWriter::calc_next_buffer_size: the power of two that follows start,
\* within MinBuffer and MaxBuffer.
BufferSizes == {n \in 1..MaxBuffer : \E k \in 0..n : n = 2^k}
NextBufferSize(start) ==
    CASE start < MinBuffer  -> MinBuffer
      [] start >= MaxBuffer -> MaxBuffer
      [] OTHER              -> Min({n \in BufferSizes : n > start})

\* DataWriter::createNewDataFile: the first data file with room, or the file
\* after the last one, which is new and used in any case.
DataFileFor(headroom) ==
    LET roomy == {f \in 1..Len(files) : files[f] + headroom < FileLimit}
    IN  IF roomy = {} THEN Len(files) + 1 ELSE Min(roomy)

\* The writer is described by a record:
\*   pc        where it is between the writes of an operation
\*   ctrl      the CtrlInfo, and type the value type, it was constructed for
\*   block     the block of its header, 0 for none; head the header in memory
\*   fresh     the block that addNewHeader has made and not yet switched to,
\*   freshInfo and the ctrl_info_offset of that block, which is not on disk
\*   free      DataWriter::available
\*   size      DataWriter::next_buffer_size
\*   sample    the stamp that add() was called with and has not written
Closed == [pc |-> "closed"]

OpenWriters ==
    [pc : {"idle", "add", "alloc", "link", "index", "close"},
     ctrl : Info, type : DbrType, block : Nat, head : Header, fresh : Nat,
     freshInfo : Nat, free : Nat, size : Nat, sample : Time \cup {NoTime}]

IsOpen == w.pc # "closed"

\* A header as DataFile::addHeader writes it: no samples, no links, and the
\* ctrl_info_offset still 0.
NewHeader(samples, type, file) ==
    [num |-> 0, cap |-> samples, begin_time |-> 0, end_time |-> 0, info |-> 0,
     type |-> type, file |-> file, next |-> 0, prev |-> 0]

Init ==
    /\ log = <<>> /\ infos = <<>> /\ files = <<>>
    /\ blocks = <<>> /\ disk = <<>> /\ data = <<>> /\ index = <<>>
    /\ w = Closed

-----------------------------------------------------------------------------
\* What was written to file f has reached the disk.  Every operation waits for
\* that, for the files it uses, because of the fseek it begins with.
Flushed(f) == \A b \in DOMAIN blocks : blocks[b].file = f => disk[b] = blocks[b]

\* The buffer of file f is passed on: by such an fseek, or by the fclose of
\* DataFile::clear_cache and close_all.
Flush(f) ==
    /\ ~Flushed(f)
    /\ disk' = [b \in DOMAIN disk |-> IF blocks[b].file = f THEN blocks[b]
                                                          ELSE disk[b]]
    /\ UNCHANGED <<log, infos, files, blocks, data, index, w>>

\* The constructor.  It reads the header of the last block of the index and the
\* control info of that header; it throws, and there is no writer, if they
\* cannot be read.  If the channel is new, or its control info or value type
\* has changed, it goes on with addNewHeader; otherwise it will add to that
\* block.
OpenWriter(ctrl, type, samples) ==
    /\ ~IsOpen
    /\ Len(index) <= MaxRecords
    /\ LET block == IF index = <<>> THEN 0 ELSE LastDatablock(index)
           head  == IF block = 0 THEN NewHeader(0, type, 0) ELSE blocks[block]
           reuse == block # 0 /\ infos[head.info].ctrl = ctrl /\ head.type = type
       IN  /\ block # 0 => /\ block \in DOMAIN blocks /\ Flushed(head.file)
                           /\ head.info \in DOMAIN infos
           /\ reuse \/ Len(blocks) < MaxBlocks
           /\ w' = [pc |-> IF reuse THEN "idle" ELSE "alloc",
                    ctrl |-> ctrl, type |-> type, block |-> block,
                    head |-> head, fresh |-> 0, freshInfo |-> 0,
                    free |-> head.cap - head.num,
                    size |-> NextBufferSize(
                                IF reuse /\ head.cap > samples
                                THEN head.cap ELSE samples),
                    sample |-> NoTime]
    /\ UNCHANGED <<log, infos, files, blocks, disk, data, index>>

\* A buffer after x was written to position i, which may be one past its end.
Overwrite(buffer, i, x) ==
    [k \in 1..(IF i > Len(buffer) THEN i ELSE Len(buffer)) |->
        IF k = i THEN x ELSE buffer[k]]

\* DataWriter::write and the update of the header in memory: the sample goes
\* behind the last one the header knows, over whatever is there.
Store(t) ==
    /\ Flushed(w.head.file)
    /\ log' = Append(log, [stamp |-> t, type |-> w.type, ctrl |-> w.ctrl])
    /\ data' = [data EXCEPT ![w.block] =
                   Overwrite(@, w.head.num + 1, Len(log) + 1)]
    /\ w' = [w EXCEPT !.pc = "idle",
                      !.sample = NoTime,
                      !.free = @ - 1,
                      !.head.num = @ + 1,
                      !.head.begin_time = IF w.head.num = 0 THEN t ELSE @,
                      !.head.end_time = t]
    /\ UNCHANGED <<infos, files, blocks, disk, index>>

\* A mutant of MayAdd: the age of the sample is not tested.
MayAddOld(t) == w.pc = "idle" /\ Len(log) < MaxSamples

\* add(): a sample that is older than the end time of the header is ignored.
MayAdd(t) ==
    /\ w.pc = "idle"
    /\ t >= w.head.end_time
    /\ Len(log) < MaxSamples

\* A mutant of AddSample: the buffer may be full.
AddSampleUnchecked(t) == MayAdd(t) /\ Store(t)

\* add() with room in the buffer.
AddSample(t) == MayAdd(t) /\ w.free > 0 /\ Store(t)

\* add() with a full buffer: first addNewHeader(false).
AddToFull(t) ==
    /\ MayAdd(t)
    /\ w.free = 0
    /\ Len(blocks) < MaxBlocks
    /\ w' = [w EXCEPT !.pc = "alloc", !.sample = t]
    /\ UNCHANGED <<log, infos, files, blocks, disk, data, index>>

\* The rest of that add(), with the new buffer.
AddToNew == w.pc = "add" /\ Store(w.sample)

-----------------------------------------------------------------------------
\* Switch to the new header, which exists in memory only.
SwitchHeader(wr, header) ==
    [wr EXCEPT !.pc = IF wr.sample = NoTime THEN "idle" ELSE "add",
               !.block = wr.fresh, !.head = header, !.fresh = 0,
               !.freshInfo = 0, !.free = header.cap,
               !.size = NextBufferSize(@)]

\* addNewHeader, first part: choose a data file, add the control info if it is
\* a new one or the file is, add an empty header with its buffer.
AllocHeader ==
    /\ w.pc = "alloc"
    /\ LET first    == w.block = 0
           newInfo  == first \/ infos[w.head.info].ctrl # w.ctrl
           headroom == IF first THEN 0
                       ELSE HeaderUnits(w.size) + IF newInfo THEN InfoUnits ELSE 0
           newFile  == first \/ files[w.head.file] + headroom > FileLimit
           addInfo  == newInfo \/ newFile
           f        == IF newFile THEN DataFileFor(headroom) ELSE w.head.file
           fileSize == IF f > Len(files) THEN CookieUnits ELSE files[f]
           header   == NewHeader(w.size, w.type, f)
           info     == IF addInfo THEN Len(infos) + 1 ELSE w.head.info
           used     == IF newFile THEN 1..Len(files) ELSE {w.head.file}
           made     == [w EXCEPT !.fresh = Len(blocks) + 1, !.freshInfo = info]
       IN  /\ \A g \in used : Flushed(g)
           /\ infos' = IF addInfo THEN Append(infos, [ctrl |-> w.ctrl, file |-> f]) ELSE infos
           /\ files' = [g \in 1..(IF f > Len(files) THEN f ELSE Len(files)) |->
                           IF g = f
                           THEN fileSize + HeaderUnits(w.size)
                                  + IF addInfo THEN InfoUnits ELSE 0
                           ELSE files[g]]
           /\ blocks' = Append(blocks, header)
           /\ disk' = Append(disk, header)
           /\ data' = Append(data, <<>>)
           /\ w' = IF first
                   THEN SwitchHeader(made, [header EXCEPT !.info = info])
                   ELSE [made EXCEPT !.pc = "link"]
    /\ UNCHANGED <<log, index>>

\* addNewHeader, second part: the old header gets the link to the new one and
\* is written.
LinkHeader ==
    /\ w.pc = "link"
    /\ Flushed(w.head.file)
    /\ LET linked == [w.head EXCEPT !.next = w.fresh]
       IN  /\ blocks' = [blocks EXCEPT ![w.block] = linked]
           /\ w' = [w EXCEPT !.pc = "index", !.head = linked]
    /\ UNCHANGED <<log, infos, files, disk, data, index>>

\* Mutants of IndexHeader: the new header is not linked back, and it keeps the
\* control info of the old one.
IndexWithoutPrev ==
    /\ w.pc = "index"
    /\ index' = UpdateLastDatablock(index, w.head.begin_time,
                                    w.head.end_time, w.block)
    /\ w' = SwitchHeader(w, [blocks[w.fresh] EXCEPT !.info = w.freshInfo])
    /\ UNCHANGED <<log, infos, files, blocks, disk, data>>
IndexWithOldInfo ==
    /\ w.pc = "index"
    /\ index' = UpdateLastDatablock(index, w.head.begin_time,
                                    w.head.end_time, w.block)
    /\ w' = SwitchHeader(w, [blocks[w.fresh] EXCEPT !.info = w.head.info,
                                                    !.prev = w.block])
    /\ UNCHANGED <<log, infos, files, blocks, disk, data>>

\* addNewHeader, last part: the old block is indexed and the writer switches
\* to the new header, linked back to the old one.
IndexHeader ==
    /\ w.pc = "index"
    /\ index' = UpdateLastDatablock(index, w.head.begin_time,
                                    w.head.end_time, w.block)
    /\ w' = SwitchHeader(w, [blocks[w.fresh] EXCEPT !.info = w.freshInfo,
                                                    !.prev = w.block])
    /\ UNCHANGED <<log, infos, files, blocks, disk, data>>

\* A mutant of NewHeaderFails: after an exception from add() the old header is
\* filled from its start.
FailAndStartOver ==
    /\ MayFail
    /\ w.pc \in {"alloc", "link", "index"}
    /\ w' = IF w.sample = NoTime
            THEN Closed
            ELSE [w EXCEPT !.pc = "idle", !.sample = NoTime,
                           !.fresh = 0, !.freshInfo = 0, !.free = w.head.cap,
                           !.head.num = 0]
    /\ UNCHANGED <<log, infos, files, blocks, disk, data, index>>

\* A write of addNewHeader fails and it throws.  An exception from the
\* constructor leaves no writer; one from add() leaves the writer with its old
\* header, which in memory already links to the new one if it is the write of
\* that link, or of the index, that failed.
NewHeaderFails ==
    /\ MayFail
    /\ w.pc \in {"alloc", "link", "index"}
    /\ w' = IF w.sample = NoTime
            THEN Closed
            ELSE [w EXCEPT !.pc = "idle", !.sample = NoTime,
                           !.fresh = 0, !.freshInfo = 0,
                           !.head.next = IF w.pc = "link" THEN w.fresh ELSE @]
    /\ UNCHANGED <<log, infos, files, blocks, disk, data, index>>

-----------------------------------------------------------------------------
\* The destructor: the header is written, then the block is indexed.
CloseHeader ==
    /\ w.pc = "idle"
    /\ Flushed(w.head.file)
    /\ blocks' = [blocks EXCEPT ![w.block] = w.head]
    /\ w' = [w EXCEPT !.pc = "close"]
    /\ UNCHANGED <<log, infos, files, disk, data, index>>

CloseIndex ==
    /\ w.pc = "close"
    /\ index' = UpdateLastDatablock(index, w.head.begin_time,
                                    w.head.end_time, w.block)
    /\ w' = Closed
    /\ UNCHANGED <<log, infos, files, blocks, disk, data>>

\* The destructor logs an exception of one of its writes, and goes on.
CloseFails ==
    /\ MayFail
    /\ w.pc \in {"idle", "close"}
    /\ w' = Closed
    /\ UNCHANGED <<log, infos, files, blocks, disk, data, index>>

\* The program dies, and starts again with what is on disk.
Crash ==
    /\ MayFail
    /\ IsOpen \/ disk # blocks
    /\ w' = Closed
    /\ blocks' = disk
    /\ UNCHANGED <<log, infos, files, disk, data, index>>

WriterStep ==
    \/ AllocHeader \/ LinkHeader \/ IndexHeader \/ NewHeaderFails
    \/ AddToNew \/ CloseHeader \/ CloseIndex \/ CloseFails

Next ==
    \/ \E ctrl \in Info, type \in DbrType, n \in Request :
          OpenWriter(ctrl, type, n)
    \/ \E t \in Time \ {0} : AddSample(t) \/ AddToFull(t)
    \/ WriterStep
    \/ \E f \in DOMAIN files : Flush(f)
    \/ Crash

Spec == Init /\ [][Next]_vars

-----------------------------------------------------------------------------
\* The type invariant: headers, buffers and the writer record have their types
\* in all states between two writes, in particular no count falls below zero.
TypeOK ==
    /\ log \in Seq(Sample)
    /\ infos \in Seq([ctrl : Info, file : Nat])
    /\ files \in Seq(Nat)
    /\ blocks \in Seq(Header)
    /\ disk \in Seq(Header)
    /\ data \in Seq(Seq(Nat))
    /\ Len(data) = Len(blocks) /\ Len(disk) = Len(blocks)
    /\ w \in {Closed} \cup OpenWriters

\* The stamp of the i-th sample in the buffer of block b.
Stamp(b, i) == log[data[b][i]].stamp

\* A header tells the truth about the samples of a buffer: it counts samples
\* that are there and fit in the buffer, in the order of their stamps, and it
\* knows the first and the last stamp.
Describes(header, b) ==
    /\ header.num <= header.cap
    /\ header.num <= Len(data[b])
    /\ \A i \in 1..header.num : data[b][i] \in DOMAIN log
    /\ \A i, j \in 1..header.num : i < j => Stamp(b, i) <= Stamp(b, j)
    /\ header.num > 0 => /\ header.begin_time = Stamp(b, 1)
                         /\ header.end_time = Stamp(b, header.num)

\* Whatever was interrupted, each header on disk describes its buffer: the
\* samples it counts were all written before it, and are in the order of their
\* stamps, so that the binary search of RawDataReaderEA3::findSample works.
BufferSound == \A b \in DOMAIN disk : Describes(disk[b], b)

\* A link leads from a block to a younger one, and to one that was made to
\* follow it, so that a reader which follows links comes to an end and a walk
\* forward can be walked back (DataHeader::read_next, read_prev).
LinksSound ==
    \A b \in DOMAIN disk :
        LET n == disk[b].next
        IN  n # 0 => /\ n \in DOMAIN disk /\ n > b
                     /\ disk[n].info # 0 => disk[n].prev = b

\* A header keeps only the offset of its control info, so that has to be in the
\* data file of the header; and the control info and value type that a reader
\* takes from the header are those that the samples were added with.
Explains(header, b) ==
    header.info # 0 =>
        /\ infos[header.info].file = header.file
        /\ \A i \in 1..header.num :
              /\ infos[header.info].ctrl = log[data[b][i]].ctrl
              /\ header.type = log[data[b][i]].type

SamplesExplained == \A b \in DOMAIN disk : Explains(disk[b], b)

\* The samples that survive a crash, and those that do not because no header on
\* disk counts them yet.
Durable ==
    UNION {{data[b][i] : i \in 1..disk[b].num} : b \in DOMAIN blocks}
Counted(b) ==
    IF IsOpen /\ b = w.block THEN w.head.num ELSE blocks[b].num
Volatile ==
    UNION {{data[b][i] : i \in disk[b].num + 1..Counted(b)} : b \in DOMAIN blocks}

\* The writer implements SampleLog: an accepted sample becomes durable when a
\* header that counts it reaches the disk, only a failure loses samples, only
\* volatile ones, and no session overwrites a durable sample of an earlier one.
Abstract == INSTANCE SampleLog WITH durable <- Durable, volatile <- Volatile
ImplementsSampleLog == Abstract!Spec

\* When no write failed and no writer is open, every sample can be found by its
\* time stamp: an index record that covers the stamp leads to its block.  It
\* fails if a full block or a changed control info is not indexed on the way,
\* or if cutting overlapping ranges (RTree::insertDatablock) loses a piece.
DurableFindable ==
    ~IsOpen /\ ~MayFail =>
        \A b \in DOMAIN blocks : \A i \in 1..blocks[b].num :
            LeadsTo(index, b, Stamp(b, i))

\* The comments of DataWriter.h: "false if the sample goes back-in-time and is
\* thus ignored", so the accepted samples are in the order of their stamps.
NoBackInTime == \A i, j \in DOMAIN log : i < j => log[i].stamp <= log[j].stamp

-----------------------------------------------------------------------------
(***************************************************************************)
(* Why BufferSound, LinksSound and SamplesExplained hold: what they say of *)
(* the headers on disk is true of every version of a header there is,      *)
(* since any of them may become the one on disk, and the writer is at each *)
(* of its steps prepared for the next one.                                 *)
(***************************************************************************)
\* The versions of the header of block b: on disk, in the buffer of the file,
\* and in the memory of the writer.
Versions(b) ==
    {disk[b], blocks[b]} \cup (IF IsOpen /\ b = w.block THEN {w.head} ELSE {})

VersionsSound ==
    \A b \in DOMAIN blocks : \A h \in Versions(b) :
        /\ Describes(h, b)
        /\ Explains(h, b)
        /\ h.info \in 0..Len(infos)
        /\ h.next \in 0..Len(blocks)
        /\ h.file \in 1..Len(files)

VersionsLinked ==
    \A b, n \in DOMAIN blocks : \A h \in Versions(b), g \in Versions(n) :
        h.next = n => n > b /\ (g.info # 0 => g.prev = b)

\* The header in memory counts at least what the other versions count, so that
\* a sample is written behind all samples that any of them knows.
HeadIsNewest ==
    /\ w.block \in DOMAIN blocks
    /\ w.head.info # 0
    /\ blocks[w.block].num <= w.head.num
    /\ disk[w.block].num <= w.head.num

\* The block that addNewHeader has made is empty, has a control info in its
\* data file, and only the block of the writer may link to it.
FreshIsReady ==
    /\ w.fresh \in DOMAIN blocks /\ w.fresh > w.block
    /\ LET h == blocks[w.fresh]
       IN  /\ h = NewHeader(h.cap, w.type, h.file) /\ h.cap > 0
           /\ disk[w.fresh] = h
           /\ w.freshInfo \in DOMAIN infos
           /\ infos[w.freshInfo].file = h.file
           /\ infos[w.freshInfo].ctrl = w.ctrl
    /\ \A b \in DOMAIN blocks : \A h \in Versions(b) :
          h.next = w.fresh => b = w.block

WriterReady ==
    IsOpen =>
        /\ w.size > 0
        /\ w.free = w.head.cap - w.head.num
        /\ w.block = 0 => w.pc = "alloc" /\ w.sample = NoTime /\ w.head.cap = 0
        /\ w.block # 0 => HeadIsNewest
        /\ w.pc = "add" => w.sample # NoTime /\ w.free > 0 /\ w.head.num = 0
        /\ w.pc \in {"idle", "add"} \/ w.sample # NoTime =>
              infos[w.head.info].ctrl = w.ctrl /\ w.head.type = w.type
        /\ w.pc \in {"link", "index"} => FreshIsReady

\* The inductive invariant: whatever write comes next, and wherever the program
\* dies, the headers and links on disk stay sound.
IInv == TypeOK /\ VersionsSound /\ VersionsLinked /\ WriterReady

\* A header that is written never counts fewer samples than the one it replaces
\* on disk.
CountsGrow == \A b \in DOMAIN disk : disk[b].num <= blocks[b].num

\* Each sample is in one place of one buffer, so that it cannot be durable and
\* at the same time still be lost.
StoredOnce ==
    \A b \in DOMAIN data : \A i \in DOMAIN data[b] :
        /\ data[b][i] \in DOMAIN log
        /\ \A c \in DOMAIN data : \A j \in DOMAIN data[c] :
              data[b][i] = data[c][j] => b = c /\ i = j

\* What has to hold besides IInv for the writer to implement SampleLog.
KeptSound == CountsGrow /\ StoredOnce

\* What has to hold besides IInv for DurableFindable: as long as no write fails
\* the index leads to every sample that a written header counts, except for the
\* header that was just written, whose block is the next to be indexed.
IndexSound ==
    /\ index \in Seq(Record)
    /\ ~MayFail =>
          \A b \in DOMAIN blocks : \A i \in 1..blocks[b].num :
              \/ LeadsTo(index, b, Stamp(b, i))
              \/ w.pc \in {"index", "close"} /\ w.block = b

\* What a reader makes of any sample of a buffer, counted or not, is what the
\* sample was added with, whichever version of the header it has; a control info
\* that is on disk stays.
FitsBuffer(h, b) ==
    \A i \in DOMAIN data[b] :
        /\ h.type = log[data[b][i]].type
        /\ h.info # 0 => infos[h.info].ctrl = log[data[b][i]].ctrl

InfosAgree ==
    /\ \A b \in DOMAIN blocks : \A h \in Versions(b) :
          /\ FitsBuffer(h, b)
          /\ \A g \in Versions(b) :
                /\ h.type = g.type
                /\ h.info # 0 /\ g.info # 0 => h.info = g.info
    /\ \A b \in DOMAIN blocks : disk[b].info # 0 => blocks[b].info # 0
    /\ w.pc \in {"link", "index"} => data[w.fresh] = <<>>

-----------------------------------------------------------------------------
(***************************************************************************)
(* Why a reader finds the samples in their order: as long as no write      *)
(* fails and the channel keeps its control info and value type, they lie   *)
(* in the buffers one after the other, the buffers are filled one after    *)
(* the other, and the index has them in that order.                        *)
(***************************************************************************)
OneKind ==
    /\ ~MayFail
    /\ \A c, d \in Info : c = d
    /\ \A t, u \in DbrType : t = u

\* The block with the latest samples, to which the next one will go if there is
\* room, and the number of samples that were written to a block.
Current == IF IsOpen THEN w.block ELSE Len(blocks)

\* The samples have their order in the log, in the buffers and in time.
InLine ==
    /\ NoBackInTime
    /\ \A i \in DOMAIN log : log[i].stamp > 0
    /\ \A b, c \in DOMAIN data : \A i \in DOMAIN data[b], j \in DOMAIN data[c] :
          b < c \/ (b = c /\ i < j) => data[b][i] < data[c][j]

\* All samples are counted, and no buffer that was used is empty.  A header has
\* room for samples, and the times 0 as long as it counts none.
HasRoom(h) == h.cap > 0 /\ (h.num = 0 => h.begin_time = 0 /\ h.end_time = 0)

Filled ==
    /\ Len(blocks) = Current + (IF w.pc \in {"link", "index"} THEN 1 ELSE 0)
    /\ w.pc \in {"link", "index"} => w.fresh = Len(blocks)
    /\ w.pc \in {"index", "close"} => blocks[w.block] = w.head
    /\ blocks = <<>> => log = <<>>
    /\ \A b \in DOMAIN blocks :
          /\ Len(data[b]) = Counted(b)
          /\ data[b] = <<>> =>
                \/ b > Current
                \/ b = Current /\ w.pc = "add"
                \/ b = Current /\ b = 1 /\ w.pc \in {"closed", "idle", "close"}
          /\ \A h \in Versions(b) : HasRoom(h)

\* No sample is from after the end time of the current header, or after the
\* sample that waits to be written.
LatestKnown ==
    /\ IsOpen /\ w.pc \notin {"idle", "close"} /\ Len(blocks) > 0 => w.sample \in Time \ {0}
    /\ \A i \in DOMAIN log :
          IF w.pc \in {"closed", "idle", "close"}
          THEN log[i].stamp <= IF IsOpen THEN w.head.end_time
                               ELSE blocks[Len(blocks)].end_time
          ELSE log[i].stamp <= w.sample

\* What the records of an index tell: where the samples of which block begin and
\* end.  A record is of one block, and the records are in the order of those.
\* Only block 1 may have another one, from before its first sample.
Of(x) == Head(x.blocks)
Empty(x) == x.s = 0 /\ x.e = 0
Done(x) == \A j \in DOMAIN data[Of(x)] : Stamp(Of(x), j) <= x.e

Tells(idx) ==
    \A k \in 1..Len(idx) :
        /\ idx[k].blocks = <<Of(idx[k])>> /\ Of(idx[k]) \in 1..Current
        /\ IF Empty(idx[k])
           THEN k = 1 /\ Of(idx[k]) = 1
           ELSE /\ data[Of(idx[k])] # <<>>
                /\ idx[k].s = Stamp(Of(idx[k]), 1)
                /\ \E j \in DOMAIN data[Of(idx[k])] : idx[k].e = Stamp(Of(idx[k]), j)
        /\ \A l \in 1..Len(idx) : k < l =>
              IF Empty(idx[k])
              THEN l = 2 => Of(idx[l]) = 1
              ELSE Of(idx[k]) < Of(idx[l]) /\ Done(idx[k])

IndexTells ==
    /\ Tells(index)
    /\ index # <<>> /\ LastDatablock(index) < Current => Done(Last(index))
    /\ ~IsOpen /\ blocks # <<>> => index # <<>> /\ LastDatablock(index) = Len(blocks)

OrderSound == InLine /\ Filled /\ LatestKnown /\ IndexTells

=============================================================================
