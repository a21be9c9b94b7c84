# Verification of the EPICS channel archiver (ea-cpp) in TLA+

This directory holds TLA+ models of the archive in `src/`, configurations that
check them with TLC, and proofs that TLAPS checks.  `PROJECT.json` lists
components, runs, mutants, the source lines of each definition, findings,
hazards and theorems; this file explains them.

## 1. The system

An archive stores time-stamped samples of many channels.  The samples of a
channel are in *data files*: each data file has *headers*, each followed by a
*buffer* for a fixed number of samples of one value type, and *control infos*
that the headers refer to by offset.  An *index file* maps the name of a channel
to an RTree, which maps time ranges to the headers; a *list* or a *master index*
joins the index files of several sub-archives, and a MongoDB collection may take
the place of the index.  A server answers queries by reading the index and the
data files, while other programs go on writing.

### Components

| Component | State | Operations | Correct when |
|---|---|---|---|
| RTree (`common/storage/RTree.cpp`) | records (time range, chain of data blocks) in nodes of M records | insert, update, remove, search, walk | ranges are ordered and covered exactly, the first block of a range stays first |
| FileAllocator (`common/storage/FileAllocator.cpp`) | lists of allocated and free blocks in an index file | allocate, free | blocks tile the file, counts agree, no block is handed out twice |
| NameHash, IndexFile | hash table of names; one tree anchor per name | open, add, find, iterate | a name that was added keeps its tree; every name is listed once |
| ListIndex, AutoIndex | sub-archives, opened on demand; collected names | find, iterate, close, open | the first sub-archive with the channel answers; unusable ones are skipped |
| DataFile, DataHeader (`classic/storage/DataFile.cpp`) | cache of open files with reference counts; header, links | reference, release, clear_cache, addHeader, addCtrlInfo, read, write | headers describe buffers; links are mutual; a file in use stays open and others do not |
| DataWriter (`classic/storage/DataWriter.cpp`) | header in memory, room left, next buffer size | construct, add, destroy | every accepted sample is durable at the end, found by its time, and explained by its control info |
| RawDataReaderEA3 | copies of an index leaf and a header, position | find, next | the right first sample, then each known sample once, in order |
| ShallowIndexRawDataReaderEA3 | a reader of a sub-archive below a top index | find, next | the same across sub-archives |
| MasterIndex, ShallowIndex (`apps/common/indextool`) | a master index and its sub-indices | update, interrupted update | the master covers what the sub-indices cover |
| RawDataReaderMONGO, DatablockMONGO | the documents of files and of blocks, a header, position | find, next | the same, from documents that are entered late |
| Queries (`classic/pva`, `mongo/pva`) | request, names, values so far, status | act, filter, read, info, archives | each document has the samples that the request asks for; readers let go of their files |
| Archive server (`common/pva`) | channels, RPC and monitor requests, queue of monitor elements | connect, create, request, start, poll, stop, destroy | results in order, none lost or given twice; a client gets its own channel; stop returns |
| OrderedMutex, Guard, ConcurrentList (`common/tools`) | locks of each thread; list with concurrent iteration | lock, unlock; add, remove, iterate | no deadlock; no item lost |
| containers, parsers, loggers, main programs | | | not modelled, see 7 |

### Interactions and what is hard

* `DataWriter` calls `DataFile` to write control infos, headers, samples, and
  `RTree` to index a block, in several separate writes.  A **crash** or a failed
  write can come between any two of them; what is written last to a data file
  stays in the buffer of its `FILE` until the file is used again or closed, so
  that the index can be **ahead of the header** it leads to.
* `RawDataReaderEA3` reads index, header and samples of files that a writer in
  another process is changing: its copy of the leaf and of the header are
  **stale**; it reads the header again and follows links by itself.  The Mongo
  reader and the shallow reader have older copies still: documents that were
  entered **late**, and the ranges of the last update of the master index.
* Sessions come one after the other, each with its own **control info and value
  type**, and a header refers to its control info by an offset in its own file.
* A block is **inserted again** each time it has grown.  Overlapping ranges are
  **cut** at each other's ends; empty blocks and single samples make **empty
  ranges**.  Full nodes are **split up to the root**, and empty ones taken out.
* `allocate` and `free`, and `addChannel`, change linked lists in an index file by
  many single writes; a **crash** in between leaves one of the ways on disk, and
  readers follow a list while it grows.
* An update of the master trusts that what an **earlier update** left is complete.
* A request of the server may **fail at every access**, in the middle of a
  document, while files are counted as used.
* The monitor thread, the poll of the client and `stop()` meet in one queue; the
  element and the event that announces it are given **separately**.  A client
  gives up a channel after a **timeout**, and its connection comes **late**.
* Threads take several mutexes, and iterate over a list that others change
  **between the calls** of the iterator.

`hazards` in `PROJECT.json` gives the line of each and the property that would
show it going wrong.

## 2. The modules

| Module | What it is |
|---|---|
| `TimeIndex` | the operators of RTree on the records in time order; no state |
| `ChannelIndex` | those operators as a component: any ranges, inserted, extended and removed |
| `RTree`, `MCRTree` | the tree with its nodes; implements `ChannelIndex` |
| `SampleLog` | what the archive of one channel promises, abstractly |
| `DataWriter`, `MCDataWriter` | the write side of a channel: writer, headers, buffers, control infos, index, faults |
| `RawDataReader`, `MCRawDataReader` | `DataWriter` composed with a reader |
| `TimeIndexProofs` | lemmas about `TimeIndex`: what an insertion, an update and a removal do to an index |
| `ChannelProofs` | theorems about `DataWriter` and `RawDataReader`, and that the writer implements `SampleLog` |
| `FileSpace` | what `FileAllocator` promises its callers, abstractly |
| `FileAllocator` | the lists of blocks in an index file, written node by node |
| `FileAllocatorProofs` | theorems about it, and that it implements `FileSpace` |
| `NameHash` | the hash table of names, its lists and the iterator |
| `IndexFile` | extends it: the engine that makes the file and adds channels, crashes, restarts |
| `ListIndex`, `MCListIndex` | extends that: a client of several sub-archives beside the engine of one |
| `ListIndexProofs` | theorems about all three |
| `MasterIndex` | the index tool over `TimeIndex`, beside the engines of the sub-archives |
| `ShallowIndexRawDataReader`, `MCMasterIndex` | extends it: the reader of a shallow master index |
| `IndexProofs` | theorems about `ChannelIndex`, `MasterIndex` and `ShallowIndexRawDataReader` |
| `MongoReader` | engine, collection and the reader with a MongoDB index |
| `MongoReaderProofs` | theorems about it |
| `DataFileCache` | the open data files of a process: operators, no state |
| `ArchiveQueries`, `MCArchiveQueries` | a request in either server, from its message to its answer, over that cache |
| `ArchiveMonitor` | a monitor request: command thread, queue, requester |
| `ArchiveServer` | extends it: channels, clients with timeouts, RPC requests, restarts |
| `OrderedMutex` | mutexes with an order and the monitor of their users |
| `ConcurrentList`, `MCConcurrentList` | extends it: the list and its iterators, under its mutex |
| `ConcurrencyProofs` | theorems about `OrderedMutex`, `ConcurrentList`, `ArchiveServer` and `ArchiveQueries` |
| `Recursion` | a lemma library: least elements, and what a recursive definition defines |

Beside the definitions that model code stand a few *mutants* (`AddAgain`,
`FailAndStartOver`, ...): wrong variants of a definition, one for each property,
that make that property fail.  Nothing uses them; `mutants` in `PROJECT.json`
says which stands for which.

### TimeIndex, ChannelIndex and RTree

An index is a sequence of records `[s, e, blocks]`.  `InsertDatablock` follows
the nine cases of `RTree::insertDatablock`, recursion included (as a recursive
function); `UpdateLastDatablock`, `RemoveDatablock`, `SearchRecord` and
`LastDatablock` are the functions of the same names.  A block is one number for
file and offset.  That is all that the writer, the tool and the readers see.

`RTree` has the nodes, by offset, each with parent and records.  `ChooseLeaf`,
`InsertRecord` (overflow into a second node), `NewRoot`, `AdjustTree` and
`CondenseTree` go up and down as the code does, on a tree that each operator
takes and returns; `Search`, `NextRecord` and `PrevRecord` walk between leaves.
An operation on the tree is one action.  With the records of the leaves, in
order, as the index (`Records`), each action is one of `ChannelIndex`
(`ImplementsChannelIndex`), which is why the other modules may use `TimeIndex`
alone.  After removals the root may be an inner node without children; the next
insertion would read its record -1 (`RTree.cpp:236-269`), so `InsertBlock` asks
for `HasLeaf`.  No program of the repository calls `removeDatablock`.

### DataWriter

| Code | Model |
|---|---|
| constructor | `OpenWriter`, then, if a header is needed, `AllocHeader` etc. |
| `add` | `AddSample`, or `AddToFull`, the parts of `addNewHeader`, `AddToNew` |
| `addNewHeader` | `AllocHeader` (control info and empty header), `LinkHeader` (old header written with the link), `IndexHeader` (index, switch) |
| destructor | `CloseHeader`, `CloseIndex` |
| exceptions | `NewHeaderFails`, `CloseFails` |
| process dies | `Crash` |
| buffered `FILE` | `blocks` is what the program reads back, `disk` what survives; `Flush`, `Flushed` |

`blocks` and `disk` are sequences of headers by order of creation, `data` the
samples in their buffers as positions in the history variable `log`.  An
operation that uses a file requires `Flushed` of it, which stands for the
`fseek` it begins with; so at most the last write of each file is missing.
Samples go to `data` at once: a header that counts them is only written by a
later access to the same file.  File sizes count units: a cookie, a header, a
control info and a sample are one each; only the comparison with the limit
depends on them.

### RawDataReader

Each reading of the index, of a header, or of samples is an action; the writer
can act between any two.  `next()` and `findSample` call each other: `nested`
counts the calls of `next()` that wait to compare a sample with the start of
their record.  `findSample` in an empty buffer is an action of its own
(`FindInEmpty`), because `num_samples - 1` wraps round there.

### FileAllocator

`disk` holds the nodes of the file by offset, with the two heads among them: the
heads in memory are copies (`SetPrev` and others read a node where the code has
a copy of it).  `allocate` and `free` are actions; inside, they are sequences of
`Write`s on a record that collects each state of the file on the way, so that
`DieAllocating` and `DieFreeing` can leave any of them.  This takes writes to
reach the file in the order of the program, which the `fseek` before each gives.
`held` are the blocks that callers use; they stop using a block before they free
it.  `file_size_increment` is left out and `MinimumSize` is 0, as `IndexFile`
sets them.

### NameHash, IndexFile and ListIndex

The offset of an entry is its number.  `addChannel` is `AddTree`, then
`InsertName` (`WriteEntry`: the entry is written) and `LinkName` (`LinkEntry`:
the slot or the last entry leads to it); opening is `OpenForWriting`,
`WriteCookie`, `InitNames`; `Stop` is a crash or a close between any of them, and
what `OpenForWriting` finds then is what the code finds: an index without a
cookie cannot be opened, one without a table is opened and unusable.

`ListIndex` opens (`Open`) or drops (`Drop`) a sub-archive when the client first
needs it.  A search in the live sub-archive, and the collection of its names, goes
one entry at a time (`Walk`, `NextNameOfLive`) while the engine adds others.
`IndexInv` is the inductive invariant of the file and the engine, `ListInv` adds
that of the list and its client.

### MasterIndex and ShallowIndexRawDataReader

An engine adds the channel to the index of its sub-archive (`AddChannel`), which
then has an empty tree; adds samples (`AddSample`); or makes a block and stops
before there is a sample for it (`AddNothing`), which leaves a record with the null
range, as the destructor of `DataWriter` writes it.  The tool takes the sub-archives
in order, and the blocks of one from the last to the first until
`updateLastDatablock` says that one was there (`Transfer`), or, for a shallow index,
the range of the whole tree (`TransferRange`).  That is the null range for an empty
tree, and cannot be had of one with a null record: `getInterval` throws, and
`ReadTree` passes on to the next sub-archive.  `Interrupt` is the signal that clears
`run`.

The reader of a shallow index has a reader in a sub-archive, of which
`RawDataReader` shows what `find` and `next` return: it may have none for a start
(`SubThrows`, or `"end"`), and beyond the samples that the index of the sub-archive
had at `find()` it may give any later one or none (`MayComeInSub`).  Its own actions
are the cases of `next()`: within the range of the current block (`NextInBlock`),
beyond it (`BeyondBlock`), after the last (`NextBeyondLast`, which makes the block
invalid), then (`NextOfInvalid`, which throws), and the next sub-archive
(`NextBlockOfTop`).  `r.null` records that `find()` began at a record with the null
range; of what such a reader returns, nothing is claimed.

### MongoReader

`blocks` are the blocks in data files with the times of their samples, `docs` the
documents of the collection: the files with their start in *milliseconds*
(`Millis`) and the ranges of the blocks entered so far (`EnterFile` is the
external program that enters them).  `find()` and `next()` are split at each
query and each reading of a header or of samples: `ReadFileDocs`,
`ReadBlockDocs`, `GetHeader`, `FindSample`, `NextFromDatablock`, `NextBlock`,
`LaterFiles`, `NextFile`, `ReadOn`.  The binary search of `findSample` is a
recursive function over ranges of samples.  `NothingPassedOver` leaves out samples
in the millisecond of the start, which may be in a file that `selectFid` passes
over (finding 8).  `MongoInv` is the inductive invariant.

### DataFileCache and ArchiveQueries

A cache is a function from open files to their reference counts.  A request is a
record of the thread that works on it: `Receive` (the message), `Act`, `Filter...`
(the filter query of either server), `Read` (the read query), then, for each name,
`Find`, the actions of `getHeader` (`FindInCache` or `OpenFile`, `CountReference`,
`ClearCache`, `ReadHeader`, `ReadInfo`), `TakeValue` and `NextValue` in the loop over
values, `Close`, and at last `Answer`.  Each access has its failure
beside it (`IndexFails`, `FindThrows`, `FilterThrows`, ...), which ends the
channel or the request as the handlers do (`Throw`, `Finish`).  The reader may begin
at any sample, end at once, and pass over samples, as both readers do (findings 3
and 8); `got` records which ones it gave.  `Fits` says what the values of a document
may be, of those.  `RequestsInv` and `OpenInv` are the inductive
invariants of the requests and of the open files.

### ArchiveMonitor and ArchiveServer

`addResult` is `AddResult` (the element, with the lock) and `Notify` (the event,
without); `Poll` is `poll()` with `release()`; `stop()` is `Stop` and `Stopped`,
which waits for the end of the thread.  A command adds results and returns; it
cannot see `m_active`.  In `ArchiveServer`, `Connect` is `init()` of a client,
`CreateChannel` the provider, `ChannelStateChange` the requester that signals its
event, `Connected` and `ConnectionTimeout` the two ends of
`waitUntilConnected()`, `LateStateChange` the connection of a channel that was
given up.  `UnknownCommand` is what becomes of the server when a message names a
command it does not know: a null pointer.  pvAccess, `epicsThread` and the
commands of monitors are external and described by how they are used.

### OrderedMutex and ConcurrentList

`lock()` is `Ask`, or `Refuse` when the order is wrong, and `Obtain`; `unlock()` is
`Release` and `Forget`, because the mutex is free before the monitor's entry is
gone.  `RemoveFirst` is what `ThreadList::remove` does: the *first* entry of the
mutex.  Each call of the list or of an iterator is `BeginCall`, `GetGuard`, its own
action (`AddItem`, `RemoveItem`, `MakeIterator`, `NextItem`), `EndGuard`,
`EndCall`.

## 3. What the runs check

| Run | Shows |
|---|---|
| `writer_faults` | with failures of and crashes between the writes of infos, headers, links and index: `BufferSound`, each header on disk describes its buffer; `LinksSound`, links lead to younger blocks that link back; `KeptSound`, a header never counts less than the one it replaces and no sample is in two places; `ImplementsSampleLog`, refinement of `SampleLog` |
| `reader_live` | reader beside writer: `NoRepetition`; `FirstFits`, `find()` begins with the right sample; `Complete`, none that it could know of is left out; `CallReturns`, each call returns or throws |
| `reader_changes` | two control infos and two types: `SamplesExplained`, `DurableFindable` of the writer, `InfoFits`: info and type reported with each sample |
| `file_blocks` | `ListsSound`, `NoGaps`: pointers, sums and sizes agree; `HeldListed`: nothing is lost; `CrashOnlyLoses`: a crash leaves no byte in two blocks; `ImplementsFileSpace` |
| `rtree` | `TreeSound`: parents, children and intervals agree; `Balanced`; `WalksAgree`: forward, backward and search meet the same records; `CoversExactly`: the index leads to a block for exactly the times given; `ImplementsChannelIndex`; `FirstStays` |
| `locks` | `NoCircularWait`: no threads wait in a circle; `MonitorTrue`: the monitor's entries are the locks; `IterationComplete`: an item that stays on the list is returned once |
| `index_names` | with crashes of the engine: `ChainsSound`; `AddedStays`: a channel keeps its tree; `FirstMatch`: the client gets the first sub-archive that had the channel; `NamesComplete` |
| `master_index` | `MasterCovers`: after a complete update the master has all blocks of the sub-index it read; `InOrder` of the shallow reader; `AllReturned`: when it is beyond the last range, has no more or throws, it has given all that the index covered |
| `mongo` | `InOrder`; `NothingPassedOver`: nothing in the range of a document is skipped |
| `queries` | `UsersCounted`: the reference count of each open file is the number of its users; `FewOpenFiles`: no more files stay open than are in use or were just used; `ValuesFit`: a document has the samples that the reader gave, from the first one on, exactly up to the limit, the end time or the end of the data, and no channel comes twice |
| `server` | `NoneLost`: results in order, each once, each with an event; `ConnectedOwn`: a client is connected by its own channel; `MonitorLive`: all results arrive and `stop()` returns |
| `mongo_exact` | a statement of a comment that the code does not keep, see 6 |

Configurations beside the runs: `MCDataWriter_backintime`,
`MCRawDataReader_empty`, `MCRawDataReader_stale`, `FileAllocator_crash`,
`MCRTree_again` and `MCMasterIndex_stopped` (which names four claims) show the
other findings of 6 (TLC finds each violated); `MCRawDataReader_faults` checks `CallReturns` and the
inductive invariant of writer and reader, with failures and crashes of the writer
(TLC finds no error in 415 thousand states).
`MongoReader_millis` shows finding 8.  `MCDataWriter_inv`, `MongoReader_inv` and
`MCArchiveQueries_inv` check the inductive invariants of 4 in all reachable states,
before anything was proved about them (no error; the queries with two threads and
`UnracedSpec`); with `ListInv` among their invariants, `MCListIndex` and
`MCConcurrentList` have no error either, nor has `MCMasterIndex` with `MasterInv`.

**Bounds.** `MaxSamples`, `MaxBlocks` and `MaxRecords` bound the history, the
blocks, and the records an index may have when a writer is opened.  With at
least three blocks of one to four samples there are sessions that fill a
buffer, reopen one, link two blocks and index in between; buffers grow from
`MinBuffer` 1 to `MaxBuffer` 2 or 4 (64 and 4096 in the code).  `FileLimit` 7
units makes a channel need a second data file after one or two buffers, so both
sides of each comparison with the limit occur.  Times 0..2 allow equal,
increasing and decreasing stamps; 0 is the null time.  In `reader_live` there is a
gap, between 2 and 4, and a start in it: with 0..2, each start time with samples on
both sides is the stamp of a sample, and what finding 3 says of `find()` never
happens.  `MaxRecords` is 2 there: the third record can only be made in the last session.

In `rtree`, eight blocks of one moment each make a tree of three levels with M 3,
in which every node overflows and every node becomes empty; a ninth, with a wide
range, is cut by them and cuts them.  Three more, with any ranges in 1..4, meet
all nine cases of overlap, alone and nested.  A file of 24 bytes with nodes of 2
holds up to six blocks; requests of 1, 3 and 4 leave remainders of less than a
node, of none and of one byte, and fill the file.  `MaxAfter` bounds what follows
a crash: nothing in `file_blocks`, two operations in `FileAllocator_crash`.

In `index_names` two of three names share one of two slots, and the list has a
sub-archive that is missing, one that does not change and the live one.
`master_index` has two sub-archives, one after the other, with up to three samples
in the first and one in the second, in up to two blocks each, with or without
samples; two updates; and a search without a start, and with starts in each.  Two
blocks are enough for one that was known and one that is new, and for one with and
one without samples; two updates for one that meets what the other left.
`mongo` has five samples in blocks of at most two, and a millisecond is three ticks (two in `mongo_exact`),
so that several blocks and files start in the same one or in the next.  `queries`
has one thread, two channels of up to three samples in three data files, limits
of 1, 2 and 3, and every shape of the queries up to three; more threads break
`UsersCounted` (see 6), and `MCArchiveQueries_inv` has two without that race.  `locks` has two threads, one that edits and one that
iterates, with two mutexes below the list's and one above; one mutex at most is
held twice.  `server` has one client with up to four results and both services:
clients share nothing but the end of the server, and the theorems are for any
number of them.  Likewise the theorems about locks are for any number of threads.

Runs have `CHECK_DEADLOCK FALSE` where bounds, or a channel or an index that
cannot be opened any more, end the behaviours; `queries`, `server` and `locks`
never stop.

**Fairness.** `ReadSpec` has weak fairness of `ReaderStep`, the steps inside a call
of the reader: a call is a loop of a running program, so a step that can be made
is made.  There is no fairness of the writer, of flushes or of new calls.
`ServerFairness` says that the thread of a monitor runs to its end (a command adds
results, at most `MaxResults`, and returns), that the requester polls for each
event, that a waiter wakes when the thread has ended, and that an RPC command
returns.  There is none of clients, of connecting, or of restarts.

**History variables**: `log`, `given`, `out`, `known`, `added`, `had`, `basis`,
`seen`, `torn`, `stay`, `got` and `null`.  No action's guard depends on them except by the
bounds.

## 4. What is proved

Each module of proofs has an inductive invariant, one lemma for each action that
shows that the action keeps it, and the theorems, which follow from it.  The
assumptions named below are those on constants, which TLC evaluates in the runs.

### The write side (`ChannelProofs`)

For all values of the constants allowed by `TimeAssumption`, `BufferAssumption`,
`FileAssumption`, `BoundAssumption` and `NoTimeAssumption`, of `Spec` with failures
and crashes:

* `Invariance`: `[]IInv`
* `TypeCorrect`, `HeadersSound`, `LinksAreSound`, `SamplesAreExplained`: the
  invariants `TypeOK`, `BufferSound`, `LinksSound`, `SamplesExplained`
* `KeptSoundly`: `[]KeptSound`
* `Refinement`: `Spec => ImplementsSampleLog`

None of the safety invariants is inductive by itself.  A header may be in three
places, on disk, in the buffer of its file and in the memory of the writer, and
a flush, a write or a crash turns one version into another.  So the invariant
speaks of all `Versions(b)` of the header of each block: each describes the
buffer and is explained (`VersionsSound`), and any two fit together
(`VersionsLinked`).  To keep that, the writer must be prepared for its next
write (`WriterReady`): the header in memory counts at least as much as the
others, so that a new sample overwrites nothing that is counted
(`HeadIsNewest`); between the parts of `addNewHeader` the new block is empty,
has its control info in its own file, and nobody but the writer's block links to
it (`FreshIsReady`).  `StoredSound` and `StillTrue` say what writing one sample
does to the header it is for and to all others.

For the refinement, a sample is durable when the header on disk counts it, and
volatile when only a younger version does.  That each step of `DataWriter` is
`Accept`, `Save`, `Lose` or a stutter of `SampleLog` needs two more facts, which
are `KeptSound`: the header on disk never counts more samples than the one in the
buffer of the file (`CountsGrow`), so that a flush only saves; and no sample is in
two places (`StoredOnce`), so that what a crash loses in one is not durable in
another.

### The time index (`TimeIndexProofs`, `ChannelProofs`)

Under the same assumptions, with `MayFail` false where it matters:

* `IndexSoundly`: `[]IndexSound`
* `SamplesFindable`: `[]DurableFindable`

The work is in the lemmas of `TimeIndexProofs`, about `insertDatablock`, which cuts a range at the ends of the records it
meets and calls itself with the pieces.  `InsertionSteps` lists what one call can
do: it ends, with a new record or the block added to one (`Ends`), or it changes the
index and goes on with one part of the range or with two (`Passes`).  `Effort` gets
smaller in each: the range is shorter, or it is as long and fits the records better
(`Unfit`), because the record was cut at one of its ends.  With that
`RecursionDefines` gives that the recursive function is defined and returns an index
(`InsertionDefined`); the bound on the second of two calls does not depend on what
the first one returned.

From there two facts are shown by the least counterexample.  `InsertKeeps`: a set
of indexes that is closed under the single changes (`Keeps`) holds the result.  It is
used three times: with indexes of records, with those that still lead to what they
led to (`ReachingStays`), and with those whose records lead to blocks that exist
(`ChainsStay`).  `InsertCovers`: afterwards each moment of the range leads to the
block.  `UpdateLeads` says the same of `updateLastDatablock`, which may take the
range from the last record.

`IndexSound` is inductive with `IInv`: each sample that the header in the file's
buffer counts is found at its stamp, except in the block that the writer is about to
index; and the range it will index with reaches from the first to the last of those
stamps, since a buffer is sorted.

### The reader beside the writer (`ChannelProofs`)

With `StartAssumption` (`None` is no control info; there is at least one value type,
that of the samples), of `ReadSpec` with failures and crashes of the writer:

* `ReaderTypeCorrect`: `[]ReaderTypeOK`
* `InfoAlwaysFits`: `[]InfoFits`

`BothSound` is the inductive invariant.  The reader has copies: of the records, of a
header, of the control info at the offset in that header.  `InfosAgree` says that all
versions of a header agree on type and control info, whichever of them gets on
disk, and that these are the ones of every sample in the buffer, counted or not.
`Grown` is what a step of the writer leaves of what the reader has seen.  So what
the reader has stays true without being current (`HeaderHeld`, `ReaderHolds`), and
each place in a call has what the code there takes for granted (`ReaderReady`).
`SearchType` bounds the results of both binary searches, by `RecursionDefines` on the
length of the interval.

Of the order in which the samples come, with `OneKind`, which says that no write
fails, no program dies, and the channel has one control info and one value type:

* `WritesInOrder`: `Spec => [](OneKind => OrderSound)`
* `NeverRepeats`, `FirstAlwaysFits`, `NoneLeftOut`:
  `ReadSpec => [](OneKind => NoRepetition)`, and likewise `FirstFits` and `Complete`

`OneKind` is what `reader_live` has.  With two kinds, samples can go back in time
(finding 1), and a search by time can no longer tell what comes before what.  Nothing
is claimed about the order of what a reader gets where `OneKind` does not hold.

`OrderSound` is what the writer does for the order: samples lie in the buffers one
after the other, in the order of the log and of time (`InLine`); buffers are filled
one after the other, and only the current one, or the first after a session without
samples, can be empty (`Filled`); no sample is later than the current header says, or
than the one that waits for a new buffer (`LatestKnown`); and the records of the index
tell where the samples of which block begin and end, each block in one record, in the
order of the blocks (`IndexTells`).  Block 1 is the exception: a session without
samples indexes it as [0, 0], and its samples get a second record later.

`Walks` says where a reader is.  What was returned, and what was passed, is before all
samples that follow in the block it is at or in later ones (`Behind`); each sample that
`find()` could know of is behind the reader, or still to come by the record it is at
or by a later one of its copy (`ToCome`), which is what a step from record to record or
along a link must not break.  As long as nothing was returned, the next sample
in the range of the record is the one to begin with (`NoneYet`); before a search, its
goal is one that leads there (`GoalFits`).  `SearchDefined` gives the recursive function
of the binary search as a relation (`IsSearch`), and `SearchMeets` what it ends with in
a buffer that is sorted: the last sample up to the goal, or the first of all.  A step of
the writer leaves all this true (`WriterWalks`), because the copies are of an index that
told the truth and later ones agree with it.

`PassedOver` names the one case in which the sample before the start time is not
returned; it was found by the proof, see finding 3.

### Blocks of an index file (`FileAllocatorProofs`)

Under `SizeAssumption`, for any sizes of nodes, requests and files and any number of
operations, each of which may be cut short after any of its writes:

* `SpaceInvariance`: `[]SpaceInv`
* `ListsStaySound`, `NoGapsEver`, `HeldStaysListed`: `ListsSound`, `NoGaps`,
  `HeldListed`
* `CrashesOnlyLose`: the action property `CrashOnlyLoses`
* `AllocatorImplementsFileSpace`: `Spec => ImplementsFileSpace`

`SpaceInv` says, until the program dies, that the nodes of the file are the two
heads, the blocks held and the others (`FreeBlocks`); that each list is linked
through the nodes of its set, in both directions and in their order, with its ends
and its sum in the head (`List`, `Kept`); and that together they tile the file
(`Tiled`).  It has the *sets* where the model walks over links and adds up bytes:
what the recursive walks (`Listed`, the searches for a place and for a free block)
and the sums come to is shown once, with `RecursionDefines` and, for the sums, with
sets of smaller cardinality.

Inside an operation the invariant does not hold, so each is a sequence of writes
with its own account.  `Between` says what a list may look like while it is changed:
its links lead to nodes of the set and upward, and nothing changes elsewhere.
`Working` says that of every state of the file on the way, and `Safe` follows:
there are sets that the lists stay in, and no two blocks in them or held share a
byte.  That is why a crash only loses.  `Done` is what the operation ends with.
The parts of `allocate` and `free` have one lemma each: a block that fits, one that
is split, one appended (`Appended`), one given back, and its joins with the block
before and behind (`Joined`).  After a crash the lists may have lost nodes, the
tiling is gone and so is `SpaceInv`; what further operations may do then, finding 4
of section 6 shows.

### What a channel's index promises (`IndexProofs`)

`ChannelIndex` is that index with any order of calls.  If blocks are numbers and no
range of `Spans` ends before it starts (`SpansFit`, a hypothesis), for any number of
blocks and any ranges:

* `ChannelSound`: `[]ChannelInv`
* `ChannelCovers`: `[]CoversExactly`
* `ChannelFirstStays`: the action property `FirstStays`

`ChannelInv` has the two halves of `CoversExactly` apart, since they are kept by
different arguments.  That no record names a block outside its range (`Named`) is a
matter of single records: `Fits` says which records the pieces and cuts of an
insertion may give.  That no block is missing within its range (`Found`) is a matter
of single moments: no cut parts a moment (`Together`), so that a record with a chain
of some kind remains there while the chain only grows (`Reaching`, `Grows`).  With
"names block c" for the kind that is `Found`, with "starts with block c" it is
`FirstStays`.  `RemoveThins` gives what a removal leaves.

Proving `ChannelInv` showed that it must exempt records of no length, which a block
with one sample makes: `removeDatablock` looks at records that overlap the range, and
these overlap nothing, so that the block stays in them.  No moment is affected.

That the tree is such an index (`ImplementsChannelIndex`) is model-checked; with it
the theorems hold of the tree's records.

### The master index (`IndexProofs`)

For any number of sub-archives, of samples and blocks in them, with or without
sessions that add no sample, and of runs of the tool (`TimeAssumption`,
`SubsAssumption`), full or shallow, with engines that go on writing between any two
steps of it:

* `MasterSoundly`: `[]MasterInv`
* `MasterLeads`: `[]MasterCovers`

An update stops at the first block that was in the master already, which is right
only if everything before it is there too.  Three facts make it so.  Blocks with
samples (`Filled`) change at the end only (`Earlier`): of the index that the tool has
read and the one it read before, all but the last record are the same, and the last
one has grown.  A block that is in the master at the time of a sample (`Known`) was
entered by a complete run, or by the one that is going on, which has then entered all
later ones (`FullSound`); that is what a run stopped by a signal breaks, and
`MasterCovers` speaks of the sub-archives that are not `torn`.  Records with the null
range come first in a tree and have no moment that counts, so that they neither stop
an update nor are owed.  And what the master leads to it goes on leading to, whatever
is inserted (`MasterGrows`, from the lemmas of `TimeIndexProofs`).  For a shallow
index one range per sub-archive is inserted in each run, from its first to its last
sample, so that it holds all the ranges that it had before (`RangeIs`,
`RangeKeepsMaster`); a tree without a range is passed over, and what the master has
of that sub-archive stays.

### The shallow reader (`IndexProofs`)

With `StartAssumption` (starts are times), beside tool and engines:

* `ReaderSoundly`: `[]ReaderInv`
* `ReadsInOrder`: `[]InOrder`
* `ReadsAll`: `Apart => []AllReturned`

They are about a reader that did not begin at a record with the null range; of one
that did, the run of finding 10 shows that it need not begin with the first sample,
and nothing is claimed.  Null ranges are at the front of a shallow master, so that a
later search from the top, for the start of the next record, does not come to one.

`InOrder` holds for all sub-archives, whether they overlap or not.  It needs that
a record of the master that is not null lies between the first and the last sample of
each of its sub-archives (`Between`), so that a search for the start of a record meets
a sample at or before it, which is skipped unless it is at that start; that the index
of a sub-archive leads to its first sample (`TreesLead`), so that the reader below does
not throw; and that neither the samples that follow in the sub-archive nor the records
that follow in the copy are before what was returned last (`InLine`).  The index that
the reader holds is a *copy*: the master has gone on since, leads to at least as much
(`Holds`), and takes the place of the copy when the reader goes to the next record.

`AllReturned` is about the moment at which the reader leaves the last record, with one
more sample or none, and about the exception that follows.  It is not true of archives
that overlap: where two ranges are cut, the reader follows the first block of a record
only.  `Apart`, the hypothesis of `ReadsAll`, is how an installation makes archives,
one after the other, and what the run has.  Then each record belongs to one sub-archive
and is null or begins and ends with samples of it (`OwnOnly`), and each sample that the
index covered when the reader was started, from the first one returned, has been
returned or is in what is left of the record the reader is at, or in a later one
(`Owed`, `ToCome`).  `NotMissed` is the step from one record to the next.

### Names (`ListIndexProofs`)

For any names, slots and hash values (`HashAssumption`) and any list of
sub-archives (`ConfigAssumption`), beside an engine that may stop between any two
writes:

* `ListInvariance`: `[]ListInv`
* `ChainsAreSound`, `FirstIsFound`, `AllNamesCollected`: the invariants
  `ChainsSound`, `FirstMatch`, `NamesComplete`
* `ChannelsStay`: the action property `AddedStays`

`Reached`, the entries that a search comes to, is a recursive definition;
`ReachedIsReached` turns it into what it says of each entry (with
`RecursionDefines`), and `ReachedOnce` shows that this determines it.  After that no
proof unfolds it.  The invariant of the table (`NamesSound`) is more than
`ChainsSound`: entries lead to *later* ones whether they are linked or not, and a
list has the entries that are reached of its slot in the order they were written
(`ListsOrdered`).  `ListEnds`: such a list has an end, and `LastOf` is it.
`AddingSound` is what a stop within `addChannel` may leave: an entry that nobody
leads to.  Every step of the engine only adds (`Grown`): what was reached stays so,
with its name and tree and its link once it has one, and what is new has a new
name.  So the client may go on from a stale position.  A search that has come to
some entry has met the channel, or the channel is in an entry from there on
(`WalkSound`); an iterator that has a *copy* of an entry has returned a name, or
the name is of that copy, or behind its link, or in a later slot (`ToCome`).

### The reader with MongoDB (`MongoReaderProofs`)

For any number and distribution of samples, size of blocks and length of a
millisecond (`MongoAssumption`), beside an engine that goes on writing and a
collection that is behind it:

* `MongoInvariance`: `[]MongoInv`
* `SamplesInOrder`, `NonePassedOver`: `InOrder`, `NothingPassedOver`

`MongoInv` relates four stages of the same samples: the blocks in their files
(`BlocksSound`), the documents entered for them (`DocsSound`), the copies of
documents that `find()` took (`FilesSound`), and the copies of one file's entries
with the header that is read (`HeaderSound`).  Each may lack what came later, and
none what was known to `find()`.  `OutSound` is the loop invariant: what is owed up
to the `Place` of the reader was returned, and nothing from behind it.  The result
of the recursive binary search is typed and placed by `RecursionDefines`.

### Queries (`ConcurrencyProofs`)

Under `QueriesAssumption`, for any number of threads that process requests beside
the engine:

* `RequestsInvariance`: `QueriesSpec => []RequestsInv`
* `ValuesAlwaysFit`: `QueriesSpec => []ValuesFit`
* `OpenInvariance`: `UnracedSpec => []OpenInv`
* `ReferencesCounted`, `FilesStayFew`: `UnracedSpec => []UsersCounted`,
  `UnracedSpec => []FewOpenFiles`

`RequestsInv` has a conjunct for each stage of a request: the input of the read
query, the names that are left (each once, none of them read before), the documents
so far, and the reader, of whose samples all have been taken but the one that is
looked at.  Nothing is assumed of which samples it gives.

The list of `DataFile.cpp` has no lock.  Where two threads meet in it, one may clear
the list between the moment another finds a file there and counts its reference; TLC
finds `UsersCounted` violated by that (see 6).  `UnracedSpec` is the server without
this one race (`Undisturbed`); everything else may interleave.  So `OpenInvariance`
says where the harm comes from: with each function of the list taken at once, there
is no other way to it.  `OpenInv` counts the users of each file, over all threads
(`UsersCounted`), and a file without users was left by a thread that has yet to clear
the list (`Leaving`), one for each.  `Sorted` chooses by a property; `OrderExists`
shows that any finite set of numbers has such an order.

### The server (`ConcurrencyProofs`)

For any set of clients, any number of results and any registered services:

* `NoResultLost`: `ServerSpec => []NoneLost`
* `ConnectedToOwn`: `ServerSpec => ConnectedOwn`

`ServerInv` is the type, `MonitorsSound` (each monitor is `Lossless`) and
`OwnChannel` of each client: as long as it waits, a signal or its event can only
come from the channel it has now.  That is what a timeout must not break: it
moves a signal under way to `late`, which no event follows.  The lemmas
`AppendToConcat`, `Counting` and `MoveHead` are the three facts about sequences
behind `NoneLost`: a result goes to the end of the queue, and from its head to
the end of what the client has.

### Locks and the list (`ConcurrencyProofs`)

For any number of threads, mutexes and items, lists that change in any way, and
locks taken again to any depth:

* `MonitorIsTrue`: `Spec => []MonitorTrue`
* `NoDeadlock`: `Spec => []NoCircularWait`, assuming `DistinctOrders`: no two
  mutexes have the same order (equal orders pass the check of the code, see 6)
* `ListInvariance`: `Spec => []ListInv`
* `IterationIsComplete`: `Spec => []IterationComplete`

The entries of a thread are *not* always in order: when a mutex that is held is
asked for again below another one, it is refused, and the entry taken out is the
first of that mutex instead of the last one made.  So `LockInv` says less
(`WaitsAbove`): a thread that *waits* does so for a mutex that is not below any
of its entries, because the check came just before and entries do not change
while it waits.  With `EntriesTrue` (the mutex that another thread has is among
that thread's entries) the orders go up from thread to thread in a circle;
`NoCircle` takes the one that waits for the highest.  That needs the entries
counted (`TimesAppend`, `TimesRemove`), since a mutex may be entered several
times and `Forget` must leave the others.  `ListStepLocks` says that the list
takes mutexes in no other way.

`ListInv` says of each iterator that it has returned, or will return next, those of
the items that stay whose elements it has passed, each once (`IteratorOnTrack`).
An item is in one element (`OneElement`), so the element of a removed item, when it
is used again, is used for an item that is not one of those that stay.

### Recursive definitions (`Recursion`)

The induction theorems of the library take an operator as a parameter, which the
installed provers cannot instantiate.  `LeastOf` replaces them by the least
counterexample, as sets: a set of arguments that is not empty has one of least
measure.  From it, `RecursionDefines`: a definition that looks only at arguments of
a smaller measure has exactly one solution.

### Only model-checked

* `CallReturns` and `MonitorLive`: liveness under fairness, which the provers here
  cannot do.
* The trees of `RTree` (`TreeSound`, `Balanced`, `WalksAgree`) and that their records
  are an index of `ChannelIndex` (`ImplementsChannelIndex`): the module follows the
  code's recursion over nodes with `RECURSIVE` operators, which the provers cannot
  read.  `CoversExactly` and `FirstStays` are proved of `ChannelIndex`, and checked of
  the records of the tree.
* `FileAllocator` after a crash: its invariant does not hold there, see finding 4.

## 5. Abstractions to keep in mind

* One channel in the storage modules; data files are used by it alone.
* An index update is one step for `DataWriter` and `MasterIndex`.  Its intermediate
  writes are those of `FileAllocator`; a crash in the middle of a change of tree
  nodes is not modelled.
* Data that callers write into blocks is not in `FileAllocator`, and a stale node
  inside another block is forgotten, so that no operation may read it.
* The control info and the header that `AllocHeader` writes are one step: a
  failure between them leaves a control info without a header.
* The reader always sees the current contents of a file; the code gets that from
  `reopen` and `fseek`, except for what the C library has read ahead.
* A reader's copy of the leaf is taken once, by `find()`.
* Names fit the 100 bytes of `PrivateEntry::read`; a tree is a name for an RTree.
* `ShallowIndexRawDataReader` takes the reader below it to return what `RawDataReader`
  shows of it: the sample at or before the start, or the first, then the next ones
  up to the end of the index it has, and then any later one.  It leaves out the case
  of `find()` in finding 3, whose index is behind the header.  `ArchiveQueries` takes
  its readers to give any samples in their order.
* A failure to write the sample itself (`DataWriter.cpp:162-165`, 404-408), after which
  the writer counts one free place less, is not among the failures of `DataWriter`.
* `Node::getInterval` throws for a record with the null range.  The `Spans` of `RTree`
  have no time 0, so this does not happen there; `MasterIndex` has it (`ReadTree`).
* The trees of the master index are flat (`TimeIndex`).  `IndexTool.cpp:64` makes them
  with M = 3; the reader's copy of records is that of a leaf in the code, so that a
  walk over more than three records reads nodes as they are then.
* In `MongoReader`, headers can be read and blocks have samples; `getPrevDatablock`,
  which only an exception reaches, is left out.  Samples have different times.
* `ArchiveQueries` has the types of BSON values (`PVType`) only as far as they decide
  whether a document can be made.  Which fields and types `RawValuesBuilder` gives
  a document, and its meta data, are left out.
* pvAccess, `epicsThread`, `epicsMutex`, the MongoDB driver, and the commands that
  users plug into monitors are described by how the code uses them.

## 6. Findings and observations

Findings, each with a configuration that shows it:

1. **Samples that go back in time** (`MCDataWriter_backintime`).  `add()` compares
   with the `end_time` of its current header only.  A session with a new control
   info or type begins with an empty header, with `end_time` 0, and accepts any
   stamp; `DataWriter.h` says such a sample is ignored.
2. **find() in an empty channel** (`MCRawDataReader_empty`).  A session without
   samples indexes an empty block.  `findSample` on it computes `num_samples - 1 =
   2^32 - 1` and reads beyond the file; `DataReader.h` promises 0.
3. **Reading on** (`MCRawDataReader_stale`).  After the last record of a stale
   index, `next()` returns the samples that the refreshed header has *more* than
   the old one, but not those the header counted already beyond the record's end;
   the comment in `next()` says it tries to read on (`ReadsOn`).  The same samples
   mislead `find()`: a search for a start time after the record's end stops at one of
   them, `next()` drops it and goes on behind it, so no value from before the
   start time is returned, as `DataReader.h` promises, but 0 or a later value
   (`ValueBefore`).
4. **After a crash in allocate()** (`FileAllocator_crash`).  The link to a new last
   node is written before the head of the list.  A crash in between leaves an old
   tail in the head.  When the block there is freed, the head still names it,
   and the next new block is linked behind a free node: it is on the free list
   while it is in use.
5. **The same block twice** (`MCRTree_again`).  A block with a single sample has a
   range without duration; `insertDatablock` skips the record that has it and
   makes another, and returns true as for a new block.
6. **A stopped update of the master** (`MCMasterIndex_stopped`).  Blocks are
   transferred from the last to the first until one was there.  After an update
   that a signal stopped, the next one finds the last block at once, and the
   earlier ones never come.
7. **One block early** (`mongo_exact`).  For a start at exactly the start of a
   block, `selectBid` goes to the block before, and `find()` gives its last sample
   instead of the one at the start time.
8. **The millisecond of the start** (`MongoReader_millis`).  `selectFid` compares the
   start with the starts of files in milliseconds, so a file that begins after the
   start, in the same millisecond, counts as one from before.  A sample at exactly
   the start time, at the end of the file before, is passed over.

9. **A range that cannot be had** (`MCMasterIndex_stopped`, `EachRange`).  A session
   without samples leaves a record [0, 0].  `getInterval` of that tree throws, and
   the tool leaves the channel out of the shallow master, now and in every later run.
10. **The first value** (`MCMasterIndex_stopped`, `FirstValue`).  An empty tree gives the
   shallow master a record with the null range, at its front.  A search without a
   start begins there, in a sub-archive that may be the latest, and the next record
   may then lead back in time.
11. **One more sample** (`MCMasterIndex_stopped`, `NoEarlyFailure`).  Beyond the last
   range of the top index `next()` returns one more sample, "just continue in current
   reader", and throws when called again, because the block is invalid by then.

Findings from reading along with a model, without a configuration: reading on with
MongoDB follows a link whose file name has no directory; the status of a read query
is OK although a channel in it failed; `createIndex` returns an index that could
not be opened, in which a search divides by 0.

Seen while modelling, in short:

* *Writer and index.*  A session without samples inserts the range [0, 0], which
  `Node::selfTest` does not accept; such ranges are never removed.  After a crash
  between `CloseIndex` and the flush of the header the channel cannot be opened
  again when the header's control info offset is still 0.  `next()` after 0 only
  throws when there was never a header.  A first header does not count its own
  size against the file limit.  With a `file_size_increment`, `allocate` computes
  `bytes_to_next_increment - 12` without a sign.  `condense_tree` frees a node
  before it takes it out of its parent, and may leave a root without children; the
  count that `removeDatablock` returns is wrong below inner nodes
  (`RTree.h:222-229`).
* *Names.*  A file without a table is opened, and `hash()` takes a remainder by 0
  (`IndexFile.cpp:107`, `NameHash.cpp:369`).  Names of 99 characters and more do
  not come back (`NameHash.cpp:147`).  `IndexFile::check` returns true after an
  exception (243-292).  The list of names holds an empty one when a sub-archive
  has no channels (`ListIndex.cpp:257-263`), and `close()` keeps the list.
  `ListIndex.h` says that a search first tries the sub-archive that is open;
  `ListIndex.cpp:141` begins with the first.
* *MongoDB.*  A failed query makes `find()` return 0, as if there were no sample.
  Two files of a channel in one millisecond lose one of them.  `getPrevDatablock`
  decrements an iterator at the begin.
* *Queries.*  The cache of open files and its counts have no lock
  (`DataFile.cpp:33`): with two threads TLC finds `UsersCounted` violated.
  `DbrBuilderCLS.cpp:36-42` reads CHAR, SHORT and ENUM as `dbr_time_long` and
  FLOAT as `dbr_time_double`.  `RawValuesBuilder::setMeta` (188-193) reserves room
  for enum states and indexes it.  `next()` is called once more after the limit,
  and if that throws the document is lost.  `createPVStringArray` does not clear
  its stream, and `createPVDoc` leaves fields of other BSON types null.  A reopen
  that fails leaves a file without a `FILE` in the cache.  `ServerConfig` clears
  its archives but not their keys when it is read again.
* *Server.*  An unknown command is a null pointer (`ArchiveRPCRequest.cpp:53-56`,
  `ArchiveMonitorRequest.cpp:31-32`).  `start()` makes a cycle of shared pointers,
  so the monitor is never destroyed; `m_active` is never read, so `stop()` waits
  until the command ends by itself; the trace of `poll()` reads the size of the
  queue without the lock (`ArchiveMonitorRequest.cpp:94`), and the queue has no
  limit (`:148`).  `m_connected` of a client is never set to false again.
* *Locks.*  Mutexes of the same order pass the check (`OrderedMutex.cpp:102`);
  the first call of `getInstance` of the monitor is not guarded (`:155`).  An
  iterator returns an item that was removed after it was looked up
  (`ConcurrentList.cpp:27`, whose comment says otherwise).

## 7. Plan, and what is not modelled

Next:

1. To prove: the trees of `RTree`, with its operators written as recursive functions.
2. `RawValuesBuilder` and the types it gives a document, with `ValuesFit` over
   them; a crash between the writes of tree nodes.

Not modelled:

* `AVLTree`, `Bitset`, `MemoryBuffer` and other containers: sequential, without a
  state that outlives a call, and covered by unit tests; `AVLTree` appears as the
  set of names of `ListIndex`.
* XML, argument, time and log formats: text in, text out.
* `indexdot` and the main programs of the servers: start-up code.
* The commented-out parts of the MongoDB classes; commands without a state of
  their own (`OpenSessionCommand` always answers with status 1,
  `StreamValuesCommand` has only its messages in this repository).
