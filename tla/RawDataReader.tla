--------------------------- MODULE RawDataReader ---------------------------
(***************************************************************************)
(* The read side of the archive of one channel: RawDataReaderEA3.cpp, used *)
(* by one client while DataWriter may be at work in another process.       *)
(*                                                                         *)
(* The reader finds a record of the time index, reads the header of the    *)
(* record's first block and then walks: through the samples the header     *)
(* counts, to the next record, and at the end of the index along the links *)
(* between headers.  It keeps copies, of the index leaf and of the header, *)
(* that the writer may have outdated.  Each reading of an index, a header  *)
(* or a sample is an action, and the writer can work between any two.      *)
(***************************************************************************)
EXTENDS DataWriter

CONSTANTS
    Start,        \* start times given to find(); 0 is no start time
    None          \* no sample, no control info

ASSUME StartAssumption ==
    Start \subseteq Nat /\ None \notin Nat \cup Info /\ DbrType # {}

VARIABLE r   \* the reader: its program counter and its data members

readVars == <<vars, r>>

\* How many samples a buffer can hold at most; the binary search in an empty
\* buffer goes wrong with a val_idx beyond that.
Huge == 2 * MaxBuffer

(***************************************************************************)
(*   pc       "idle" before find(); "have" and "end" after a call returned *)
(*            a sample or 0, "failed" after an exception; in a call the    *)
(*            part that is next: "header", "search", "next" or "follow"    *)
(*   start    the start time given to find()                               *)
(*   goal     the start time for findSample                                *)
(*   records  the copy of the index leaf that datablock holds, and         *)
(*   rec      the record datablock is at, 0 when datablock is null         *)
(*   block    the block of the header, 0 when there is no header           *)
(*   head     the copy of the header                                       *)
(*   ctrl     ctrl_info                                                    *)
(*   val      val_idx, the samples of the buffer that were passed          *)
(*   nested   how many calls of next() wait for findSample, to compare the *)
(*            sample it gives with the start of the record                 *)
(*   out      history: the samples returned since find()                   *)
(*   known    history: the samples that find() could know of               *)
(***************************************************************************)
Readers ==
    [pc : {"idle", "have", "end", "failed", "header", "search", "next", "follow"},
     start : Nat, goal : Nat, records : Seq(Record), rec : Nat, block : Nat,
     head : Header, ctrl : Info \cup {None}, val : Nat, nested : Nat,
     out : Seq(Nat), known : SUBSET Nat]

ReadInit ==
    /\ Init
    /\ r = [pc |-> "idle", start |-> 0, goal |-> 0, records |-> <<>>, rec |-> 0,
            block |-> 0, head |-> NewHeader(0, CHOOSE d \in DbrType : TRUE, 0),
            ctrl |-> None, val |-> 0, nested |-> 0, out |-> <<>>, known |-> {}]

-----------------------------------------------------------------------------
\* The samples on disk whose block is used for their time, by the index.
Retrievable ==
    UNION {{data[b][i] : i \in {j \in 1..disk[b].num :
                                  \E k \in DOMAIN index :
                                      /\ Head(index[k].blocks) = b
                                      /\ index[k].s <= Stamp(b, j)
                                      /\ Stamp(b, j) <= index[k].e}}
           : b \in DOMAIN disk}

\* find(): search the index, or take its first record.
Find(start) ==
    /\ r.pc \in {"idle", "have", "end", "failed"}
    /\ LET rec == IF start = 0 /\ index # <<>> THEN 1 ELSE SearchRecord(index, start)
       IN  r' = [r EXCEPT !.pc = IF rec = 0 THEN "end" ELSE "header",
                          !.start = start,
                          !.goal = IF start = 0 /\ rec # 0 THEN index[1].s ELSE start,
                          !.records = index, !.rec = rec, !.nested = 0,
                          !.out = <<>>, !.known = Retrievable]
    /\ UNCHANGED vars

\* A mutant of WithHeader: the control info is read for the first header only.
WithOldInfo(rd, b) ==
    LET new == disk[b]
    IN  IF new.info = 0
        THEN [rd EXCEPT !.pc = "failed"]
        ELSE [rd EXCEPT !.pc = "search", !.block = b, !.head = new,
                        !.ctrl = IF rd.block = 0 THEN infos[new.info].ctrl ELSE @]

\* getHeader: read the header of block b, and its control info unless it is
\* the same as before.  With the ctrl_info_offset 0 of an unfinished header
\* that is the start of the file, which is no control info.
WithHeader(rd, b) ==
    LET new == disk[b]
    IN  IF new.info = 0
        THEN [rd EXCEPT !.pc = "failed"]
        ELSE [rd EXCEPT !.pc = "search", !.block = b, !.head = new,
                        !.ctrl = IF rd.block = 0 \/ new.info # rd.head.info
                                 THEN infos[new.info].ctrl ELSE @]

GetHeader ==
    /\ r.pc = "header"
    /\ r' = WithHeader(r, Head(r.records[r.rec].blocks))
    /\ UNCHANGED vars

\* next(), at the end of the buffer and of the index: the header that the
\* refreshed one links to.
FollowLink ==
    /\ r.pc = "follow"
    /\ r' = [WithHeader(r, r.head.next) EXCEPT !.goal = disk[r.head.next].begin_time]
    /\ UNCHANGED vars

\* Sample i of the buffer is returned.  The calls of next() that wait compare
\* it with the start of their record: it is returned if it is not from before,
\* otherwise the innermost of them goes on with next().  None of them expects
\* that there is no record any more.
Return(rd, i) ==
    LET id    == data[rd.block][i]
        after == rd.rec # 0 /\ log[id].stamp >= rd.records[rd.rec].s
    IN  CASE rd.nested = 0 \/ after ->
               [rd EXCEPT !.pc = "have", !.nested = 0, !.out = Append(@, id)]
          [] rd.nested > 0 /\ rd.rec = 0 ->
               [rd EXCEPT !.pc = "failed", !.nested = 0]
          [] rd.nested > 0 /\ rd.rec # 0 /\ ~after ->
               [rd EXCEPT !.pc = "next", !.nested = @ - 1]

\* A mutant of BinarySearch: when the goal is not met, the sample behind it.
SearchBehind(b, goal) ==
    LET Index == 0 .. r.head.num - 1
        Search[range \in Index \X Index] ==
            LET low  == range[1]
                high == range[2]
                mid  == (low + high + 1) \div 2
                t    == Stamp(b, mid + 1)
            IN  CASE high - low <= 1              -> [at |-> mid, taken |-> TRUE]
                  [] high - low > 1 /\ t = goal   -> [at |-> mid, taken |-> TRUE]
                  [] high - low > 1 /\ t > goal   -> Search[<<low, mid>>]
                  [] OTHER                        -> Search[<<mid, high>>]
    IN  Search[<<0, r.head.num - 1>>]

\* The binary search of findSample in block b, with samples counted from 0:
\* the sample it ends with, and whether it takes that one or has next() take it.
BinarySearch(b, goal) ==
    LET Index == 0 .. r.head.num - 1
        Search[range \in Index \X Index] ==
            LET low  == range[1]
                high == range[2]
                mid  == (low + high + 1) \div 2
                t    == Stamp(b, mid + 1)
            IN  CASE high - low <= 1 /\ t > goal  -> [at |-> low, taken |-> FALSE]
                  [] high - low <= 1 /\ t <= goal -> [at |-> mid, taken |-> TRUE]
                  [] high - low > 1 /\ t = goal   -> [at |-> mid, taken |-> TRUE]
                  [] high - low > 1 /\ t > goal   -> Search[<<low, mid>>]
                  [] OTHER                        -> Search[<<mid, high>>]
    IN  Search[<<0, r.head.num - 1>>]

\* findSample, where the goal is the begin time of the header.
FindFirst ==
    /\ r.pc = "search"
    /\ r.goal = r.head.begin_time
    /\ r' = [r EXCEPT !.pc = "next", !.val = 0]
    /\ UNCHANGED vars

FindBySearch ==
    /\ r.pc = "search"
    /\ r.goal # r.head.begin_time
    /\ r.head.num > 0
    /\ LET found == BinarySearch(r.block, r.goal)
       IN  r' = IF found.taken
                THEN Return([r EXCEPT !.val = found.at + 1], found.at + 1)
                ELSE [r EXCEPT !.pc = "next", !.val = found.at]
    /\ UNCHANGED vars

\* findSample in an empty buffer: the highest sample is number 2^32 - 1, and
\* the first one that is read has number 2^31, the offset of which is in 32 bits
\* that of sample 0.  If a writer has put a sample there that is just the goal,
\* it is returned; otherwise a read beyond the end of the file throws.
FindInEmpty ==
    /\ r.pc = "search"
    /\ r.goal # r.head.begin_time
    /\ r.head.num = 0
    /\ r' = IF data[r.block] # <<>> /\ Stamp(r.block, 1) = r.goal
            THEN Return([r EXCEPT !.val = Huge], 1)
            ELSE [r EXCEPT !.pc = "failed", !.val = Huge, !.nested = 0]
    /\ UNCHANGED vars

-----------------------------------------------------------------------------
\* next() is called; it throws only when there is no header.
CallNext ==
    /\ r.pc \in {"have", "end"}
    /\ r' = [r EXCEPT !.pc = IF r.block = 0 THEN "failed" ELSE "next",
                      !.nested = 0]
    /\ UNCHANGED vars

\* A mutant of NextInBuffer: the record ends before its end time.
NextBeforeEnd ==
    /\ r.pc = "next"
    /\ r.val < r.head.num
    /\ r' = IF r.rec # 0 /\ Stamp(r.block, r.val + 1) >= r.records[r.rec].e
            THEN [r EXCEPT !.val = r.head.num]
            ELSE Return([r EXCEPT !.val = @ + 1], r.val + 1)
    /\ UNCHANGED vars

\* nextFromDatablock: the next sample of the buffer, or the end of the buffer
\* when that sample is from after the end of the record.
NextInBuffer ==
    /\ r.pc = "next"
    /\ r.val < r.head.num
    /\ r' = IF r.rec # 0 /\ Stamp(r.block, r.val + 1) > r.records[r.rec].e
            THEN [r EXCEPT !.val = r.head.num]
            ELSE Return([r EXCEPT !.val = @ + 1], r.val + 1)
    /\ UNCHANGED vars

\* The buffer is exhausted: next record of the index.
NextRecord ==
    /\ r.pc = "next"
    /\ r.val >= r.head.num
    /\ r.rec # 0
    /\ r' = IF r.rec < Len(r.records)
            THEN [r EXCEPT !.pc = "header", !.rec = @ + 1, !.nested = @ + 1,
                           !.goal = r.records[r.rec + 1].s]
            ELSE [r EXCEPT !.rec = 0]
    /\ UNCHANGED vars

\* Mutants of Refresh: the buffer is read from its start again, and next() waits
\* for more samples.
RefreshFromStart ==
    /\ r.pc = "next"
    /\ r.val >= r.head.num
    /\ r.rec = 0
    /\ LET new == disk[r.block]
       IN  r' = CASE r.val < new.num -> [r EXCEPT !.head = new, !.val = 0]
                  [] r.val >= new.num /\ new.next # 0 ->
                       [r EXCEPT !.head = new, !.pc = "follow"]
                  [] r.val >= new.num /\ new.next = 0 ->
                       [r EXCEPT !.head = new, !.pc = "end", !.nested = 0]
    /\ UNCHANGED vars
RefreshAndWait ==
    /\ r.pc = "next"
    /\ r.val >= r.head.num
    /\ r.rec = 0
    /\ LET new == disk[r.block]
       IN  r' = IF r.val >= new.num /\ new.next # 0
                THEN [r EXCEPT !.head = new, !.pc = "follow"]
                ELSE [r EXCEPT !.head = new]
    /\ UNCHANGED vars

\* The index is exhausted, too: the header is read again.  There may be more
\* samples by now, or a link to another header, or it is the end of the data.
Refresh ==
    /\ r.pc = "next"
    /\ r.val >= r.head.num
    /\ r.rec = 0
    /\ LET new == disk[r.block]
       IN  r' = CASE r.val < new.num -> [r EXCEPT !.head = new]
                  [] r.val >= new.num /\ new.next # 0 ->
                       [r EXCEPT !.head = new, !.pc = "follow"]
                  [] r.val >= new.num /\ new.next = 0 ->
                       [r EXCEPT !.head = new, !.pc = "end", !.nested = 0]
    /\ UNCHANGED vars

ReaderStep ==
    \/ GetHeader \/ FollowLink \/ FindFirst \/ FindBySearch \/ FindInEmpty
    \/ NextInBuffer \/ NextRecord \/ Refresh

ReadNext ==
    \/ \E start \in Start : Find(start)
    \/ CallNext
    \/ ReaderStep
    \/ Next /\ UNCHANGED r

\* The reader is a program that runs: a call of find() or next() that can go on
\* does.  Nobody has to call it, and the writer may stop anywhere.
ReadSpec == ReadInit /\ [][ReadNext]_readVars /\ WF_readVars(ReaderStep)

-----------------------------------------------------------------------------
\* The type invariant: the data members of the reader have their types, in
\* particular val_idx and the number of waiting calls do not fall below zero.
ReaderTypeOK == TypeOK /\ r \in Readers

\* The samples come in the order in which they were added, none of them twice,
\* whatever the writer did since find(): the ends of the index records, the
\* links and the refreshed header do not lead the reader back.
NoRepetition ==
    \A i, j \in DOMAIN r.out : i < j => r.out[i] < r.out[j]

\* The sample just before the start time is there, but it is from after the end
\* of the index that find() looked at.
PassedOver(rd) ==
    /\ rd.records # <<>>
    /\ \E i \in DOMAIN log :
          Last(rd.records).e < log[i].stamp /\ log[i].stamp <= rd.start

\* DataReader::find: "If a value with the exact start time exists, it will be
\* returned. Otherwise the value just before the start time is returned."  Of
\* the samples that find() could know of, the first returned one is the last
\* that is not after the start, or the first of all, unless the index was behind.
FirstFits ==
    r.out # <<>> =>
        LET first == log[r.out[1]].stamp
        IN  \A i \in r.known :
               /\ log[i].stamp <= r.start => log[i].stamp <= first
               /\ first > r.start => log[i].stamp >= first \/ PassedOver(r)

\* When next() has returned 0, no sample that find() could know of was left
\* out: the reader has seen all of them from the first one on.
Complete ==
    r.pc = "end" =>
        \A i \in r.known :
            IF r.out = <<>> THEN PassedOver(r)
            ELSE i > r.out[1] => i \in ToSet(r.out)

\* getInfo and getType tell how to understand the sample that was just
\* returned, when control info and type change from block to block.
InfoFits ==
    r.pc = "have" =>
        LET sample == log[Last(r.out)]
        IN  sample.ctrl = r.ctrl /\ sample.type = r.head.type

\* Every call returns, however the archive changes meanwhile.
CallReturns ==
    r.pc \in {"header", "search", "next", "follow"}
        ~> r.pc \in {"have", "end", "failed"}

-----------------------------------------------------------------------------
(***************************************************************************)
(* Why InfoFits holds: a block keeps the control info and the value type   *)
(* it was made for, and the header that the reader has is an earlier state *)
(* of the one on disk.                                                     *)
(***************************************************************************)
\* The records lead to blocks that exist.
ChainsLead(idx) ==
    /\ idx \in Seq(Record)
    /\ \A k \in 1..Len(idx) : /\ idx[k].blocks # <<>>
                              /\ ToSet(idx[k].blocks) \subseteq DOMAIN blocks

\* The header that the reader has is an earlier state of the one on disk, and
\* ctrl_info is the control info of that block.
HeaderHeld(rd) ==
    /\ rd.block \in DOMAIN disk
    /\ rd.head.info \in DOMAIN infos /\ rd.head.info = disk[rd.block].info
    /\ rd.head.type = disk[rd.block].type
    /\ rd.head.num <= disk[rd.block].num
    /\ rd.head.next \in 0..Len(blocks)
    /\ rd.ctrl = infos[rd.head.info].ctrl

\* The data members of the reader, whatever is next.
ReaderHolds(rd) ==
    /\ ChainsLead(rd.records) /\ rd.rec \in 0..Len(rd.records)
    /\ rd.block # 0 => HeaderHeld(rd)
    /\ \A i \in DOMAIN rd.out : rd.out[i] \in DOMAIN log

\* What each part of a call relies on, and what a call leaves.
ReaderReady(rd) ==
    /\ rd.pc = "header" => rd.rec # 0
    /\ rd.pc \in {"search", "next", "follow"} => rd.block # 0
    /\ rd.pc = "follow" => rd.head.next # 0
    /\ rd.pc = "have" => /\ rd.out # <<>>
                         /\ log[Last(rd.out)].ctrl = rd.ctrl
                         /\ log[Last(rd.out)].type = rd.head.type

\* The inductive invariant of the reader, next to those of the writer.
ReaderIInv == ReaderTypeOK /\ ChainsLead(index) /\ ReaderHolds(r) /\ ReaderReady(r)

\* Everything that is needed of writer and reader together.
BothSound == IInv /\ KeptSound /\ InfosAgree /\ ReaderIInv

-----------------------------------------------------------------------------
(***************************************************************************)
(* Why the samples come in their order, and none is left out: for a        *)
(* channel of one kind, what the records and links lead to is later than   *)
(* what the reader has passed.                                             *)
(***************************************************************************)
\* Where the reader is: the block it is at, and how many samples of it are passed.
Place(rd) == IF rd.pc = "header" THEN Of(rd.records[rd.rec]) ELSE rd.block
Passed(rd) == IF rd.pc \in {"header", "search"} THEN 0 ELSE rd.val

\* Sample i is before all the samples that follow after the first v of block b.
Before(i, b, v) ==
    \A c \in DOMAIN data : \A j \in DOMAIN data[c] :
        b < c \/ (b = c /\ v < j) => i < data[c][j]
Behind(i, rd) == Before(i, Place(rd), Passed(rd))

\* The samples in the block of record x that are counted on disk, and that number j
\* of them is sample i, in the range of the record.
Counting(x) == 1..disk[Of(x)].num
Holds(x, j, i) ==
    /\ data[Of(x)][j] = i
    /\ x.s <= log[i].stamp /\ log[i].stamp <= x.e

\* Sample i is still to come, by the record the reader is at or by a later one.
ToCome(i, rd) ==
    /\ rd.rec # 0
    /\ \E k \in 1..Len(rd.records) : \E j \in Counting(rd.records[k]) :
          /\ Holds(rd.records[k], j, i)
          /\ \/ rd.rec < k
             \/ rd.rec = k /\ rd.pc = "header"
             \/ rd.rec = k /\ Passed(rd) < j /\ j <= rd.head.num

\* What FirstFits asks of the sample that is returned first.
GoodFirst(f, rd) ==
    \A i \in rd.known :
        /\ log[i].stamp <= rd.start => log[i].stamp <= log[f].stamp
        /\ log[f].stamp > rd.start => log[i].stamp >= log[f].stamp \/ PassedOver(rd)

\* Nothing has to be returned.
NoneFits(rd) == rd.known = {} \/ PassedOver(rd)

\* The reader is at the empty record of block 1, with others behind it.
AtEmpty(rd) == rd.rec = 1 /\ Empty(rd.records[1]) /\ 1 < Len(rd.records)

\* findSample looks for the start time, or for the begin of the first record; for
\* the begin of a later record when next() has passed on to that; for the first
\* sample of a buffer that is not in the index.
GoalFits(rd) ==
    /\ rd.rec = 0 => rd.goal = rd.head.begin_time
    /\ rd.rec # 0 /\ rd.nested = 0 =>
          /\ rd.out = <<>>
          /\ \/ /\ rd.goal = rd.start /\ rd.start # 0
                /\ rd.rec = 1 \/ rd.records[rd.rec].s <= rd.start
                /\ \A k \in 1..Len(rd.records) : rd.rec < k => rd.start < rd.records[k].s
             \/ rd.start = 0 /\ rd.rec = 1 /\ rd.goal = rd.records[1].s
    /\ rd.rec # 0 /\ rd.nested # 0 =>
          /\ rd.goal = rd.records[rd.rec].s /\ 1 < rd.rec
          /\ rd.out = <<>> =>
                rd.rec = 2 /\ Empty(rd.records[1]) /\ rd.start < rd.records[2].s

\* Nothing was returned yet: if the next sample is in the range of the record, it
\* is the one to return.
NoneYet(rd) ==
    /\ rd.rec = 0 => NoneFits(rd)
    /\ rd.rec # 0 /\ rd.pc = "next" /\ ~Empty(rd.records[rd.rec]) =>
          IF rd.val < rd.head.num /\ Stamp(rd.block, rd.val + 1) <= rd.records[rd.rec].e
          THEN GoodFirst(data[rd.block][rd.val + 1], rd)
          ELSE rd.rec = Len(rd.records) /\ NoneFits(rd)

\* Of the samples that find() could know of, those that are not to come were
\* returned, or are from before the first that was.
NoneMissed(rd) ==
    \A i \in rd.known :
        \/ ToCome(i, rd)
        \/ Behind(i, rd) /\ (rd.out # <<>> /\ i > rd.out[1] => i \in ToSet(rd.out))

\* In a call, or after one that returned: where the reader is, what it has passed
\* and what is still to come.
OnItsWay(rd) ==
    /\ rd.rec # 0 /\ rd.pc # "header" => rd.block = Of(rd.records[rd.rec])
    /\ rd.pc \in {"end", "follow"} => rd.rec = 0
    /\ rd.pc = "follow" => rd.block < rd.head.next
    /\ rd.pc \in {"header", "search"} => GoalFits(rd)
    /\ AtEmpty(rd) => rd.out = <<>> /\ rd.nested = 0 /\ rd.start < rd.records[2].s
    /\ rd.out = <<>> => NoneYet(rd)
    /\ \A i \in DOMAIN rd.out : Behind(rd.out[i], rd)
    /\ NoneMissed(rd)

Walks(rd) ==
    /\ Tells(rd.records)
    /\ rd.block # 0 => IF rd.head.num = 0 THEN rd.head.begin_time = 0
                       ELSE rd.head.begin_time = Stamp(rd.block, 1)
    /\ \A i \in rd.known : \E k \in 1..Len(rd.records) : \E j \in Counting(rd.records[k]) :
          Holds(rd.records[k], j, i)
    /\ rd.out # <<>> => GoodFirst(rd.out[1], rd)
    /\ \A i, j \in DOMAIN rd.out : i < j => rd.out[i] < rd.out[j]
    /\ rd.pc \notin {"idle", "failed"} => OnItsWay(rd)

-----------------------------------------------------------------------------
\* DataReader.h: "@return Returns pointer to first value, or 0 if the channel
\* was found but there was no data.": when no writer is at work and all it wrote
\* is on disk, find() does not throw.
FindDoesNotThrow ==
    [][~IsOpen /\ disk = blocks /\ r.out = <<>> /\ r.rec # 0
         => ~(r.pc \in {"header", "search"} /\ r'.pc = "failed")]_readVars

\* RawDataReaderEA3.cpp: "the last data file might in fact have more samples
\* than the RTree thinks there are, so try to read on."  When 0 is returned at
\* the end of a buffer, all the samples of that buffer that the header counts,
\* from the first one on, were returned.
ReadsOn ==
    r.pc = "end" /\ r.out # <<>> /\ r.val = r.head.num =>
        \A i \in 1..r.head.num :
            data[r.block][i] > r.out[1] => data[r.block][i] \in ToSet(r.out)

\* DataReader.h: "Otherwise the value just before the start time is returned": if
\* the index has a sample from the start time or before, such a one is returned
\* first.  findSample may end at a sample from after the end of the last record;
\* next() drops that, and the one before it was passed.
ValueBefore ==
    r.pc \in {"have", "end"} /\ (\E i \in r.known : log[i].stamp <= r.start) =>
        r.out # <<>> /\ log[r.out[1]].stamp <= r.start
=============================================================================
