---------------------------- MODULE MongoReader ----------------------------
(***************************************************************************)
(* RawDataReaderMONGO with its DatablockMONGO: the samples are in the data *)
(* files of the classic archive, but a MongoDB collection has the index.   *)
(* For each channel and data file it holds one document, with the start of *)
(* the file in milliseconds and an array of the blocks with their ranges.  *)
(*                                                                         *)
(* The reader queries the documents of all files once, in find(), and the  *)
(* blocks of a file when it gets to that file.  The engine goes on writing *)
(* data files, and whoever fills the collection follows it with a delay.   *)
(* Samples of a channel have different times, and stand for their times.   *)
(***************************************************************************)
EXTENDS Naturals, Sequences, SequencesExt, FiniteSetsExt

CONSTANTS
    MaxTime,      \* sample times are 1..MaxTime
    MaxPerBlock,  \* samples in a block
    Tick,         \* length of a millisecond
    Start         \* start times given to find(); 0 is no start time

ASSUME MongoAssumption ==
    /\ MaxTime \in Nat /\ MaxPerBlock \in Nat \ {0} /\ Tick \in Nat \ {0}
    /\ Start \subseteq Nat

VARIABLES
    blocks,  \* the blocks of the data files, each with its file and samples
    docs,    \* the documents of the collection, by file
    r        \* the reader

mongoVars == <<blocks, docs, r>>

\* The start of a file document has a resolution of milliseconds.
Millis(t) == t - (t % Tick)

\* The block's time range as the index has it.
Entry(b) == [block |-> b, start |-> blocks[b].times[1], end |-> Last(blocks[b].times)]

(***************************************************************************)
(*   pc       "idle"; "have", "end" and "none" after next() or find() gave *)
(*            a sample or 0, "failed" after an exception; in a call what   *)
(*            comes next: "files", "blocks", "header", "search", "next"    *)
(*   files    fileDocs, and file the one fid points to, 0 at the end       *)
(*   entries  blockDocs, and bid the one bid points to, 0 at the end       *)
(*   header   the block of the header, with its num_samples                *)
(*   val      val_idx                                                      *)
(*   out      history: the samples returned since find()                   *)
(*   known    history: the samples in the range of a block of the          *)
(*            collection when find() was called                            *)
(***************************************************************************)
MongoInit ==
    /\ blocks = <<>>
    /\ docs = <<>>
    /\ r = [pc |-> "idle", start |-> 0, goal |-> 0, files |-> {}, file |-> 0,
            entries |-> {}, bid |-> 0, header |-> 0, num |-> 0, val |-> 0,
            out |-> <<>>, known |-> {}]

-----------------------------------------------------------------------------
\* The engine saves a sample: in the last block, or in a new one, which may be
\* in a new file.  No two files of a channel start in the same millisecond.
SaveSample(t) ==
    LET last == Len(blocks)
        new(f) == Append(blocks, [file |-> f, times |-> <<t>>])
        Starts(f) == {Millis(blocks[b].times[1]) : b \in {c \in 1..last : blocks[c].file = f}}
    IN  /\ \A b \in DOMAIN blocks : t > Last(blocks[b].times)
        /\ \/ blocks = <<>> /\ blocks' = new(1)
           \/ /\ blocks # <<>>
              /\ Len(blocks[last].times) < MaxPerBlock
              /\ blocks' = [blocks EXCEPT ![last].times = Append(@, t)]
           \/ blocks # <<>> /\ blocks' = new(blocks[last].file)
           \/ /\ blocks # <<>>
              /\ Millis(t) \notin Starts(blocks[last].file)
              /\ blocks' = new(blocks[last].file + 1)
    /\ UNCHANGED <<docs, r>>

\* The document of a file is made, or brought up to date; files come in order.
EnterFile(f) ==
    LET inFile == {b \in DOMAIN blocks : blocks[b].file = f}
        doc    == {Entry(b) : b \in inFile}
    IN  /\ inFile # {}
        /\ f <= Len(docs) + 1
        /\ docs' = IF f <= Len(docs) THEN [docs EXCEPT ![f] = doc] ELSE Append(docs, doc)
        /\ UNCHANGED <<blocks, r>>

FirstOf(items) == CHOOSE i \in items : \A j \in items : i.start <= j.start

\* Mutant of Before: lower_bound, without the step back.
FromOn(items, t) ==
    LET later == {i \in items : i.start >= t}
    IN  IF later = {} THEN FirstOf(items) ELSE FirstOf(later)

\* selectFid, selectBid: one step back from the lower_bound, that is the last
\* item from before t; the first one when there is none, or no t.
Before(items, t) ==
    LET earlier == {i \in items : i.start < t}
    IN  IF earlier = {} THEN FirstOf(items)
        ELSE CHOOSE i \in earlier : \A j \in earlier : j.start <= i.start

After(items, t) == {i \in items : i.start > t}

-----------------------------------------------------------------------------
\* find() is called for a channel of the configuration.
Find(start) ==
    /\ r.pc \in {"idle", "have", "end", "none", "failed"}
    /\ r' = [r EXCEPT !.pc = "files", !.start = start, !.files = {}, !.file = 0,
                      !.entries = {}, !.bid = 0, !.out = <<>>,
                      !.known = UNION {{t \in ToSet(blocks[i.block].times) :
                                          i.start <= t /\ t <= i.end}
                                       : i \in UNION Range(docs)}]
    /\ UNCHANGED <<blocks, docs>>

\* The query of an index document fails, or has an exception that is logged.
QueryFails ==
    /\ r.pc \in {"files", "blocks"}
    /\ r' = [r EXCEPT !.pc = "none"]
    /\ UNCHANGED <<blocks, docs>>

\* readFileDocs and selectFid.
ReadFileDocs ==
    /\ r.pc = "files"
    /\ LET files == {[file  |-> f, start |-> Millis(FirstOf(docs[f]).start)]
                     : f \in DOMAIN docs}
       IN  r' = IF files = {} THEN [r EXCEPT !.pc = "none"]
                ELSE [r EXCEPT !.pc = "blocks", !.files = files,
                               !.file = Before(files, r.start).file]
    /\ UNCHANGED <<blocks, docs>>

At(rd, i) == [rd EXCEPT !.pc = "header", !.bid = i.block]

\* readBlockDocs and selectBid; without a start time the first block, and
\* find() then has findSample look for its start.
ReadBlockDocs ==
    /\ r.pc = "blocks"
    /\ LET i == Before(docs[r.file], r.start)
       IN  r' = [At(r, i) EXCEPT !.entries = docs[r.file],
                                 !.goal = IF r.start = 0 THEN i.start ELSE r.start]
    /\ UNCHANGED <<blocks, docs>>

\* getHeader: the header, which has a number of samples.
GetHeader ==
    /\ r.pc = "header"
    /\ r' = [r EXCEPT !.pc = "search", !.header = r.bid,
                      !.num = Len(blocks[r.bid].times)]
    /\ UNCHANGED <<blocks, docs>>

\* The binary search of findSample, with samples counted from 0: the sample it
\* ends with, and whether it is the one, or next() takes it.
BinarySearch(times, goal) ==
    LET Index == 0 .. r.num - 1
        Search[range \in Index \X Index] ==
            LET low  == range[1]
                high == range[2]
                mid  == (low + high + 1) \div 2
                t    == times[mid + 1]
            IN  CASE high - low <= 1 /\ t > goal  -> [at |-> low, taken |-> FALSE]
                  [] high - low <= 1 /\ t <= goal -> [at |-> mid, taken |-> TRUE]
                  [] high - low > 1 /\ t = goal   -> [at |-> mid, taken |-> TRUE]
                  [] high - low > 1 /\ t > goal   -> Search[<<low, mid>>]
                  [] OTHER                        -> Search[<<mid, high>>]
    IN  Search[<<0, r.num - 1>>]

Return(rd, at) ==
    [rd EXCEPT !.pc = "have", !.val = at + 1,
               !.out = Append(@, blocks[rd.header].times[at + 1])]

\* findSample: the first sample when the block starts with the goal.
FindSample ==
    /\ r.pc = "search"
    /\ LET found == BinarySearch(blocks[r.header].times, r.goal)
       IN  r' = CASE r.goal = blocks[r.header].times[1] ->
                       [r EXCEPT !.pc = "next", !.val = 0]
                  [] r.goal # blocks[r.header].times[1] /\ found.taken ->
                       Return(r, found.at)
                  [] r.goal # blocks[r.header].times[1] /\ ~found.taken ->
                       [r EXCEPT !.pc = "next", !.val = found.at]
    /\ UNCHANGED <<blocks, docs>>

-----------------------------------------------------------------------------
\* next() is called.
CallNext ==
    /\ r.pc \in {"have", "end"}
    /\ r' = [r EXCEPT !.pc = "next"]
    /\ UNCHANGED <<blocks, docs>>

Current == CHOOSE i \in r.entries : i.block = r.bid

\* nextFromDatablock: a sample that is beyond the range of the entry ends the
\* block.
NextFromDatablock ==
    /\ r.pc = "next" /\ r.val < r.num
    /\ r' = IF r.bid # 0 /\ blocks[r.header].times[r.val + 1] > Current.end
            THEN [r EXCEPT !.val = r.num]
            ELSE Return(r, r.val)
    /\ UNCHANGED <<blocks, docs>>

Exhausted == r.pc = "next" /\ r.val >= r.num

\* getNextDatablock, in the array of this file.
NextBlock ==
    /\ Exhausted /\ r.bid # 0
    /\ LET later == After(r.entries, Current.start)
       IN  /\ later # {}
           /\ r' = [At(r, FirstOf(later)) EXCEPT !.goal = FirstOf(later).start]
    /\ UNCHANGED <<blocks, docs>>

LaterFiles ==
    LET here == CHOOSE f \in r.files : f.file = r.file
    IN  After(r.files, here.start)

\* Mutant of NextFile: the blocks are added to those of the other file.
NextFileAdds ==
    /\ Exhausted /\ r.bid # 0
    /\ After(r.entries, Current.start) = {}
    /\ LaterFiles # {}
    /\ LET next == FirstOf(LaterFiles).file
           all  == r.entries \cup docs[next]
       IN  r' = [At(r, FirstOf(all)) EXCEPT
                   !.file = next, !.entries = all, !.goal = FirstOf(all).start]
    /\ UNCHANGED <<blocks, docs>>

\* The blocks of the next file are queried.
NextFile ==
    /\ Exhausted /\ r.bid # 0
    /\ After(r.entries, Current.start) = {}
    /\ LaterFiles # {}
    /\ LET next == FirstOf(LaterFiles).file
           i    == FirstOf(docs[next])
       IN  r' = [At(r, i) EXCEPT !.file = next, !.entries = docs[next],
                                 !.goal = i.start]
    /\ UNCHANGED <<blocks, docs>>

\* There is no other file, or the query of its blocks fails.
NoNextFile ==
    /\ Exhausted /\ r.bid # 0
    /\ After(r.entries, Current.start) = {}
    /\ r' = [r EXCEPT !.bid = 0,
                      !.entries = IF LaterFiles = {} THEN @ ELSE {},
                      !.file = IF LaterFiles = {} THEN 0 ELSE FirstOf(LaterFiles).file]
    /\ UNCHANGED <<blocks, docs>>

\* The index is exhausted: the header is read again, which may have more samples
\* or a link to another block.  That link has the basename of the data file
\* (DataWriter::addNewHeader), for which getHeader throws.
ReadOn ==
    /\ Exhausted /\ r.bid = 0
    /\ LET num    == Len(blocks[r.header].times)
           linked == r.header < Len(blocks)
       IN  r' = [r EXCEPT !.num = num,
                          !.pc = CASE r.val < num -> @
                                   [] r.val >= num /\ linked -> "failed"
                                   [] r.val >= num /\ ~linked -> "end"]
    /\ UNCHANGED <<blocks, docs>>

MongoNext ==
    \/ \E t \in 1..MaxTime : SaveSample(t)
    \/ \E f \in 1..Len(blocks) : EnterFile(f)
    \/ \E start \in Start : Find(start)
    \/ CallNext
    \/ QueryFails \/ ReadFileDocs \/ ReadBlockDocs
    \/ GetHeader \/ FindSample
    \/ NextFromDatablock \/ NextBlock \/ NextFile \/ NoNextFile \/ ReadOn

MongoSpec == MongoInit /\ [][MongoNext]_mongoVars

-----------------------------------------------------------------------------
\* The samples come in the order of time and none comes twice, from block to
\* block, from file to file and from the collection to the headers.
InOrder == \A i, j \in DOMAIN r.out : i < j => r.out[i] < r.out[j]

\* What the collection knew when find() was called is not passed over: when a
\* sample is returned, all of them from the start time to that sample were, and
\* when next() returns 0, all from the start time on.  (After an exception the
\* client knows that it has not seen all.)  Only samples in the millisecond of
\* the start may be in a file that selectFid leaves out, see ExactReturned.
NothingPassedOver ==
    \A t \in r.known :
        /\ t >= r.start
        /\ Millis(r.start) = r.start \/ Millis(t) # Millis(r.start)
        /\ r.pc = "end" \/ (r.out # <<>> /\ t < Last(r.out))
        => t \in ToSet(r.out)

-----------------------------------------------------------------------------
\* DataReader::find: "If a value with the exact start time exists, it will be
\* returned. Otherwise the value just before the start time is returned, so that
\* the user can then decide if and how that value might extrapolate onto the
\* start time."
FirstFits ==
    r.out # <<>> =>
        \A t \in r.known : t <= r.start => t <= r.out[1] /\ r.out[1] <= r.start

\* The first sentence of it, when that sample is not the first: a sample at the
\* exact start time is not passed over.  selectFid compares the start time with
\* the start of the next file in milliseconds, and so may begin after it.
ExactReturned ==
    r.start \in r.known /\ r.out # <<>> /\ r.start < Last(r.out)
        => r.start \in ToSet(r.out)

-----------------------------------------------------------------------------
(***************************************************************************)
(* What holds between the archive, the collection and the reader, from     *)
(* which the two properties follow.                                        *)
(***************************************************************************)
BlocksSound ==
    /\ blocks \in Seq([file : Nat, times : Seq(Nat) \ {<<>>}])
    /\ \A b \in DOMAIN blocks : \A i, j \in DOMAIN blocks[b].times :
          i < j => blocks[b].times[i] < blocks[b].times[j]
    /\ \A b, c \in DOMAIN blocks : b < c =>
          /\ Last(blocks[b].times) < blocks[c].times[1]
          /\ blocks[b].file <= blocks[c].file
          /\ blocks[b].file < blocks[c].file =>
                Millis(blocks[b].times[1]) < Millis(blocks[c].times[1])

\* Each entry is one of file f, and each block has one entry at most.
EntriesOf(f, items) ==
    \A i \in items :
        /\ i \in [block : DOMAIN blocks, start : Nat, end : Nat]
        /\ blocks[i.block].file = f
        /\ i.start = blocks[i.block].times[1]
        /\ \A j \in items : j.block = i.block => j = i

\* The entries have the samples of the file that were known to find().
CoverKnown(f, items) ==
    \A b \in DOMAIN blocks : blocks[b].file = f =>
        \A k \in DOMAIN blocks[b].times : blocks[b].times[k] \in r.known =>
            \E i \in items : i.block = b /\ blocks[b].times[k] <= i.end

DocsSound ==
    /\ docs \in Seq(SUBSET [block : Nat, start : Nat, end : Nat])
    /\ \A f \in DOMAIN docs :
          docs[f] # {} /\ EntriesOf(f, docs[f]) /\ CoverKnown(f, docs[f])
    /\ \A t \in r.known : \E b \in DOMAIN blocks :
          t \in ToSet(blocks[b].times) /\ blocks[b].file \in DOMAIN docs

\* The documents of files, once find() has read them.
FilesSound ==
    r.pc \notin {"idle", "none", "files"} =>
        /\ \A f \in r.files :
              /\ f \in [file : DOMAIN docs, start : Nat]
              /\ \E b \in DOMAIN blocks :
                    blocks[b].file = f.file /\ f.start = Millis(blocks[b].times[1])
              /\ \A g \in r.files : g.file = f.file => g = f
        /\ \A b \in DOMAIN blocks :
              (\E t \in r.known : t \in ToSet(blocks[b].times)) =>
                  \E f \in r.files : f.file = blocks[b].file

\* NothingPassedOver is about these samples.
Owed(t) ==
    t \in r.known /\ t >= r.start
    /\ (Millis(r.start) = r.start \/ Millis(t) # Millis(r.start))

BeforeHeader == r.pc \in {"header", "search"}
Reading == r.pc \in {"header", "search", "next", "have", "end", "failed"}

\* The place of the reader: in this block, behind that many samples.
Block == IF BeforeHeader THEN r.bid ELSE r.header
Place == IF BeforeHeader THEN 0 ELSE r.val
Behind(b, k) == b < Block \/ (b = Block /\ k <= Place)

OutSound ==
    /\ ~Reading => r.out = <<>>
    /\ r.pc = "blocks" =>
          /\ \E f \in r.files : f.file = r.file
          /\ \A b \in DOMAIN blocks : \A k \in DOMAIN blocks[b].times :
                Owed(blocks[b].times[k]) => r.file <= blocks[b].file
    /\ Reading =>
          /\ Block \in DOMAIN blocks
          /\ \A i \in DOMAIN r.out :
                /\ r.out[i] <= Last(blocks[Block].times)
                /\ \A k \in DOMAIN blocks[Block].times :
                      k > Place => r.out[i] < blocks[Block].times[k]
          /\ \A b \in DOMAIN blocks : \A k \in DOMAIN blocks[b].times :
                Behind(b, k) /\ Owed(blocks[b].times[k])
                    => blocks[b].times[k] \in ToSet(r.out)
    /\ r.pc = "end" => \A t \in r.known : Owed(t) => t \in ToSet(r.out)

\* The iterators, the header and its samples.
HeaderSound ==
    /\ Reading /\ r.bid # 0 =>
          /\ EntriesOf(r.file, r.entries) /\ CoverKnown(r.file, r.entries)
          /\ \E i \in r.entries : i.block = r.bid
          /\ \E f \in r.files : f.file = r.file
    /\ BeforeHeader =>
          /\ r.bid # 0
          /\ \/ r.goal = blocks[r.bid].times[1]
             \/ r.out = <<>> /\ r.goal = r.start
    /\ Reading /\ r.pc # "header" =>
          /\ r.header \in DOMAIN blocks
          /\ r.bid # 0 => r.header = r.bid
          /\ r.num \in 1 .. Len(blocks[r.header].times)
          /\ ~BeforeHeader => r.val <= r.num
          /\ \A k \in DOMAIN blocks[r.header].times :
                blocks[r.header].times[k] \in r.known => k <= r.num

Reader ==
    [pc : {"idle", "none", "files", "blocks", "header", "search", "next",
           "have", "end", "failed"},
     start : Nat, goal : Nat, files : SUBSET [file : Nat, start : Nat], file : Nat,
     entries : SUBSET [block : Nat, start : Nat, end : Nat], bid : Nat,
     header : Nat, num : Nat, val : Nat, out : Seq(Nat), known : SUBSET Nat]

\* The samples of the archive are in order, block by block and file by file; the
\* collection has entries of them, at least those it had at find(); the reader
\* is at the place up to which it has returned what it owes, and what it has
\* returned is from before that place.
MongoInv ==
    /\ r \in Reader
    /\ BlocksSound /\ DocsSound /\ FilesSound /\ OutSound /\ HeaderSound /\ InOrder
=============================================================================
