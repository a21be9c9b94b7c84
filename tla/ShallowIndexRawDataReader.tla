---------------------- MODULE ShallowIndexRawDataReader ----------------------
(***************************************************************************)
(* ShallowIndexRawDataReaderEA3 over a shallow master index, beside the    *)
(* tool that updates that and the engines that add samples.                *)
(*                                                                         *)
(* The reader in a sub-archive is taken as RawDataReader shows it.  find() *)
(* gives the last sample at or before the start, or else the first; none   *)
(* when there is no record; and it throws when the start leads to a block  *)
(* without samples.  next() gives the samples that the index of the        *)
(* sub-archive had at find() one by one, and then any later one, or none.  *)
(***************************************************************************)
EXTENDS MasterIndex

CONSTANTS
    Start          \* the start times that find() is called with

ASSUME StartAssumption == Start \subseteq Nat

VARIABLES
    r,             \* the reader
    known          \* history: the samples that find() could know of from its start on

vars == <<masterVars, r, known>>

\* The reader has its sub-archive, the number of its sample there and of the last
\* one that the index had at find(); the records of the top index with the current
\* one, the time before which it skips samples, and what it returned.  null:
\* history, find() began at a record with the null range.
NoReader == [pc |-> "none", sub |-> 0, i |-> 0, last |-> 0, top |-> <<>>, rec |-> 0,
             from |-> 0, out |-> <<>>, null |-> FALSE]

Init ==
    /\ MasterInit
    /\ r = NoReader
    /\ known = {}

Stamp(s, i) == samples[s][i]
FirstFit(s, t) ==
    LET before == {i \in DOMAIN samples[s] : Stamp(s, i) <= t}
    IN  IF before = {} THEN 1 ELSE Max(before)

\* find() of the reader in sub-archive s; the time 0 is that of a block without
\* samples, and next() goes on from there.
NoSamples(s, rec) ==
    Null(rec) /\ ~\E i \in DOMAIN tree[s] : ~Null(tree[s][i]) /\ tree[s][i].blocks = rec.blocks
SubThrows(s, t) ==
    t # 0 /\ tree[s] # <<>> /\ NoSamples(s, tree[s][SearchRecord(tree[s], t)])

\* The private find(), from a record of the top index down to the sub-archive.
FindAt(rec, t) ==
    LET s == Head(master[rec].blocks)
    IN  [r EXCEPT !.pc = CASE SubThrows(s, t)                          -> "failed"
                           [] ~SubThrows(s, t) /\ samples[s] = <<>>   -> "end"
                           [] ~SubThrows(s, t) /\ samples[s] # <<>>   -> "sample",
                  !.top = master, !.rec = rec, !.sub = s,
                  !.i = FirstFit(s, t), !.last = Len(samples[s])]

\* find() with a start, or with none (0): from the first record.
Find(t) ==
    /\ shallow /\ r.pc = "none" /\ master # <<>>
    /\ LET found == FindAt(IF t = 0 THEN 1 ELSE SearchRecord(master, t), t)
           first == <<found.sub, found.i>>
       IN  /\ r' = [found EXCEPT !.null = Null(master[found.rec]),
                                 !.out = IF found.pc = "sample" THEN <<first>> ELSE <<>>]
           /\ known' = {x \in UNION {{s} \X DOMAIN samples[s] : s \in Sub} :
                          /\ found.pc = "sample"
                          /\ Stamp(x[1], x[2]) >= Stamp(first[1], first[2])
                          /\ \E j \in DOMAIN master :
                                 /\ Head(master[j].blocks) = x[1]
                                 /\ Stamp(x[1], x[2]) \in master[j].s .. master[j].e}
    /\ UNCHANGED masterVars

\* next() of the reader in the sub-archive: the sample that comes next, and those
\* that it may give.
NextInSub == IF r.i < Len(samples[r.sub]) THEN r.i + 1 ELSE 0
MayComeInSub ==
    IF r.i < r.last THEN {r.i + 1} ELSE {0} \cup {j \in DOMAIN samples[r.sub] : r.i < j}

Returns(q) ==
    r' = [q EXCEPT !.out = IF q.pc = "failed" \/ Stamp(q.sub, q.i) < q.from THEN @
                           ELSE Append(@, <<q.sub, q.i>>)]

\* next(): a sample in the range of the current block of the top index.
NextInBlock ==
    /\ r.pc = "sample"
    /\ NextInSub # 0 /\ Stamp(r.sub, NextInSub) <= r.top[r.rec].e
    /\ Returns([r EXCEPT !.i = NextInSub])
    /\ UNCHANGED <<masterVars, known>>

BeyondBlock ==
    /\ r.pc = "sample"
    /\ NextInSub # 0 => Stamp(r.sub, NextInSub) > r.top[r.rec].e

\* next(): there is no next block of the top index, and getNextDatablock makes the
\* current one invalid.  What the reader in the sub-archive gave is returned.
NextBeyondLast ==
    /\ BeyondBlock /\ r.rec = Len(r.top)
    /\ \E j \in MayComeInSub :
          IF j = 0 THEN r' = [r EXCEPT !.pc = "end"]
          ELSE Returns([r EXCEPT !.pc = "beyond", !.i = j])
    /\ UNCHANGED <<masterVars, known>>

\* next() with an invalid block: getInterval or getNextDatablock throws.
NextOfInvalid ==
    /\ r.pc \in {"beyond", "end"}
    /\ r' = [r EXCEPT !.pc = "failed"]
    /\ UNCHANGED <<masterVars, known>>

\* find() with the start of a block; without a sample, the time of none is printed.
FindFrom(start) ==
    LET found == FindAt(SearchRecord(master, start), start)
    IN  [found EXCEPT !.pc = IF @ = "end" THEN "failed" ELSE @]

\* A mutant of NextBlockOfTop: the search starts where this block did.
NextFromCurrent ==
    /\ BeyondBlock /\ r.rec < Len(r.top)
    /\ LET start == r.top[r.rec].s
       IN  Returns([FindFrom(start) EXCEPT !.from = start])
    /\ UNCHANGED <<masterVars, known>>

\* A mutant of NextBlockOfTop: the sample that find() gave is passed over.
NextAfterFound ==
    /\ BeyondBlock /\ r.rec < Len(r.top)
    /\ LET start == r.top[r.rec + 1].s
       IN  r' = [FindFrom(start) EXCEPT !.from = start]
    /\ UNCHANGED <<masterVars, known>>

\* next(): find() again from the top, with the start of the next block; samples
\* from before that start are skipped.
NextBlockOfTop ==
    /\ BeyondBlock /\ r.rec < Len(r.top)
    /\ LET start == r.top[r.rec + 1].s
       IN  Returns([FindFrom(start) EXCEPT !.from = start])
    /\ UNCHANGED <<masterVars, known>>

ReadNext ==
    \/ MasterNext /\ UNCHANGED <<r, known>>
    \/ \E t \in Start : Find(t)
    \/ NextInBlock
    \/ NextBeyondLast
    \/ NextOfInvalid
    \/ NextBlockOfTop

Spec == Init /\ [][ReadNext]_vars

-----------------------------------------------------------------------------
\* From one sub-archive to the next, and over changes of the top index between the
\* calls, the reader never goes back in time, unless it began at a null range.
InOrder ==
    ~r.null => \A i \in 1 .. Len(r.out) - 1 :
                   Stamp(r.out[i][1], r.out[i][2]) <= Stamp(r.out[i + 1][1], r.out[i + 1][2])

\* When the reader gives a sample from beyond the top index, or none, or fails, all
\* samples that the index covered from the first one on have been returned, unless
\* it began at a null range.
AllReturned == ~r.null /\ r.pc # "sample" => known \subseteq ToSet(r.out)

\* "Any calls to next() after either find() or next() return 0 will result in
\* exceptions": others do not.
NoEarlyFailure == [][r.pc \in {"sample", "beyond"} => r'.pc # "failed"]_vars

\* DataReader::find, "start time or 0 for first value".
FirstValue ==
    [][\A t \in {0} \cap Start : Find(t) =>
          \A s \in Sub : \A j \in DOMAIN master :
              Head(master[j].blocks) = s /\ samples[s] # <<>> =>
                  r'.out # <<>> /\ Stamp(r'.out[1][1], r'.out[1][2]) <= samples[s][1]]_vars

-----------------------------------------------------------------------------
(***************************************************************************)
(* Why the reader finds the samples in order, and all of them.  At a null  *)
(* range it may begin anywhere, and nothing is said about it.              *)
(***************************************************************************)
\* Archives that were made one after the other: none overlaps with another.
Apart ==
    \A s, q \in Sub : s # q => \/ \A t \in Stamps[s], u \in Stamps[q] : t < u
                               \/ \A t \in Stamps[s], u \in Stamps[q] : u < t

\* The index of a sub-archive leads to its first sample.
TreesLead == \A s \in Sub : samples[s] # <<>> => Holding(tree[s], samples[s][1]) # {}

\* A record of the shallow index is null, or lies between the first and the last sample
\* of each of its sub-archives.
Between ==
    {x \in Record :
        /\ x.blocks # <<>>
        /\ x.s = 0 => x.e = 0
        /\ \A q \in ToSet(x.blocks) :
              /\ q \in Sub
              /\ x.s # 0 => /\ samples[q] # <<>>
                            /\ samples[q][1] <= x.s /\ x.e <= Last(samples[q])}

\* If the sub-archives do not overlap it has one, with samples at both ends.
OwnOnly ==
    {x \in Record : \E q \in Sub : /\ x.blocks = <<q>>
                                   /\ \/ x.s = 0 /\ x.e = 0
                                      \/ x.s \in StampsOf(q) /\ x.e \in StampsOf(q)}

ShallowSound ==
    shallow => /\ Ordered(master)
               /\ \A j \in 1 .. Len(master) : /\ master[j] \in Between
                                              /\ Apart => master[j] \in OwnOnly

\* What the reader has: a sample of the sub-archive of the record it is at, in a
\* copy of the index that is not ahead of the master.
Holds ==
    /\ r.rec \in 1 .. Len(r.top) /\ Ordered(r.top) /\ r.top[r.rec].s # 0
    /\ r.sub = Head(r.top[r.rec].blocks) /\ r.sub \in Sub /\ r.i \in DOMAIN samples[r.sub]
    /\ r.last <= Len(samples[r.sub])
    /\ \A j \in 1 .. Len(r.top) : \A t \in r.top[j].s .. r.top[j].e :
          LeadsTo(master, Head(r.top[j].blocks), t)

\* What is next is not before the last one returned, nor is it skipped.
InLine ==
    LET last == r.out[Len(r.out)]
        t    == Stamp(last[1], last[2])
    IN  /\ r.out # <<>>
        /\ \A j \in 1 .. Len(r.top) : r.rec < j => t <= r.top[j].s
        /\ \A m \in DOMAIN samples[r.sub] :
              r.i < m => t <= Stamp(r.sub, m) /\ r.from <= Stamp(r.sub, m)
        /\ t <= Last(samples[r.sub]) /\ r.from <= Last(samples[r.sub])

\* A sample that is still to be returned.
ToCome(x) ==
    \E j \in r.rec .. Len(r.top) :
        /\ Head(r.top[j].blocks) = x[1]
        /\ Stamp(x[1], x[2]) \in r.top[j].s .. r.top[j].e
        /\ j = r.rec => r.i < x[2]

Owed == \A x \in known : /\ x[1] \in Sub /\ x[2] \in DOMAIN samples[x[1]]
                         /\ x \in ToSet(r.out) \/ (r.pc = "sample" /\ ToCome(x))

\* The reader, unless it began at a null range.
ReaderSound ==
    /\ r \in [pc : {"none", "sample", "beyond", "end", "failed"}, sub : Nat, i : Nat, last : Nat,
             top : Seq(Record), rec : Nat, from : Nat, out : Seq(Nat \X Nat), null : BOOLEAN]
    /\ known \subseteq Nat \X Nat
    /\ \A k \in DOMAIN r.out : r.out[k][1] \in Sub /\ r.out[k][2] \in DOMAIN samples[r.out[k][1]]
    /\ r.pc = "sample" => shallow /\ Holds /\ InLine
    /\ Apart => Owed

\* The inductive invariant of the reader, beside that of the tool.
ReaderInv ==
    /\ TreesLead /\ ShallowSound /\ InOrder
    /\ "null" \in DOMAIN r /\ "pc" \in DOMAIN r
    /\ r.pc = "none" => r = NoReader /\ known = {}
    /\ ~r.null => ReaderSound

=============================================================================
