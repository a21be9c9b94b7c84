--------------------------- MODULE ArchiveQueries ---------------------------
(***************************************************************************)
(* What an archive server does with a request: CollectActionCLS or         *)
(* CollectActionMONGO apply a filter query, which gives names of channels, *)
(* and a read query, which reads these channels one after the other.       *)
(*                                                                         *)
(* Each channel is read by a DataReader of its own, which opens data files *)
(* that the process shares.  The engine adds samples meanwhile, and every  *)
(* access to an index, the database or a data file may fail.               *)
(*                                                                         *)
(* What the DataReader gives is in the modules RawDataReader and           *)
(* MongoReader.  Here find() gives any sample or none, and next() a later  *)
(* one or none: both readers pass over samples while an index is behind,   *)
(* or within a millisecond.                                                *)
(***************************************************************************)
EXTENDS Naturals, Sequences, SequencesExt, FiniteSets, DataFileCache

CONSTANTS
    Worker,      \* the threads of the server that process requests
    Name,        \* 1..n, in the order of the channel names
    Server,      \* subset of {"classic", "mongo"}
    Requests,    \* the requests that clients make
    MaxCount,    \* the limit when a request gives none
    MaxSamples   \* bound for the samples of a channel

\* A request: the collection, the queries, and the start, end and limit of the read
\* query, 0 for those it does not have.
Request == [coll : STRING, queries : Seq(STRING), start : Nat, end : Nat, limit : Nat]

ASSUME QueriesAssumption ==
    /\ Name \subseteq Nat /\ IsFiniteSet(Name) /\ 0 \notin File
    /\ IsFiniteSet(Worker)
    /\ Server \subseteq {"classic", "mongo"}
    /\ MaxCount \in Nat \ {0} /\ MaxSamples \in Nat
    /\ Requests \subseteq Request

VARIABLES
    server,  \* which of the two servers it is
    stored,  \* the samples of each channel, each with its time and data file
    open,    \* the data files that the server has open
    q        \* the request of each thread

queryVars == <<server, stored, open, q>>

NoRequest == [coll |-> "none", queries |-> <<>>, start |-> 0, end |-> 0, limit |-> 0]

(***************************************************************************)
(*   pc      "idle", and what is next: "act", "filter", "read" the names   *)
(*           that were found, "find" the first sample, "reference",        *)
(*           "count", "clear", "header", "info" in getHeader, "value" and  *)
(*           "next" in the loop over the values, "close" the reader,       *)
(*           "done"                                                        *)
(*   req     the request: collection, queries, and the start, end and      *)
(*           limit of the read query, 0 for those it does not have         *)
(*   names   the names that are still to be read, the first one first      *)
(*   pos     the sample that the reader is at                              *)
(*   got     history: the samples that find() and next() gave for it       *)
(*   values  the samples of the current channel that were taken            *)
(*   header  the file of the reader's header, 0 for none                   *)
(*   status  the type of the status: 0 is OK                               *)
(*   docs    the documents of the result                                   *)
(***************************************************************************)
Idle == [pc |-> "idle", req |-> NoRequest, names |-> <<>>, pos |-> 0,
         got |-> <<>>, values |-> <<>>, header |-> 0, status |-> 0, docs |-> <<>>]

QueriesInit ==
    /\ server \in Server
    /\ stored = [n \in Name |-> <<>>]
    /\ open = NothingOpen
    /\ q = [t \in Worker |-> Idle]

Sorted(names) ==
    CHOOSE s \in [1..Cardinality(names) -> names] :
        \A i, j \in DOMAIN s : i < j => s[i] < s[j]

\* The engine adds a sample of channel n to file f, an earlier file or not.
AddSample(n, f) ==
    /\ Len(stored[n]) < MaxSamples
    /\ stored' = [stored EXCEPT ![n] = Append(@, [time |-> Len(@) + 1, file |-> f])]
    /\ UNCHANGED <<server, open, q>>

-----------------------------------------------------------------------------
\* Thread t goes on as the record n says.
Go(t, n) == q' = [q EXCEPT ![t] = n] /\ UNCHANGED <<server, stored>>
Done(t, type, docs) ==
    Go(t, [q[t] EXCEPT !.pc = "done", !.status = type, !.docs = docs])

\* The server ends and is started again: the clients get no answer.
Restart ==
    /\ q' = [u \in Worker |-> Idle]
    /\ open' = NothingOpen
    /\ UNCHANGED <<server, stored>>

\* ArchiveRPCRequest::run hands the request to ActCommand.
Receive(t, req) ==
    /\ q[t].pc = "idle"
    /\ Go(t, [Idle EXCEPT !.pc = "act", !.req = req])
    /\ UNCHANGED open

\* Requests for information, in both servers, ...
ForInfo(req) == req.coll = "info"

\* ... and for the list of archives, in the classic server only.
ForArchives(req) == server = "classic" /\ req.coll = "archives"

\* The fields of the document with the information, ...
InfoClassic == <<"ver", "desc", "how", "stat", "sevr">>
InfoMongo == <<"ver", "desc", "how", "stat", "sevr">>

\* ... and the archives of the configuration: ServerConfigEA3 and ServerConfigMONGO
\* read them when the server starts.
Configured == <<"archive">>
ConfiguredMongo == <<"archive">>

ArchivesDocs == Configured

\* Without a query, all channels are listed.
FirstQuery(req) == IF req.queries = <<>> THEN "filter" ELSE Head(req.queries)

\* CollectActionCLS: information is given at once, and a request whose first query
\* is no filter is an error.
ActAtOnce(t) ==
    /\ q[t].pc = "act" /\ server = "classic"
    /\ CASE ForInfo(q[t].req)     -> Done(t, 0, InfoClassic)
         [] ForArchives(q[t].req) -> Done(t, 0, ArchivesDocs)
         [] OTHER                 -> FirstQuery(q[t].req) # "filter" /\ Done(t, 2, <<>>)
    /\ UNCHANGED open

\* The same in CollectActionMONGO, which does not know "archives".
ActAtOnceMongo(t) ==
    /\ q[t].pc = "act" /\ server = "mongo"
    /\ IF ForInfo(q[t].req) THEN Done(t, 0, InfoMongo)
       ELSE FirstQuery(q[t].req) # "filter" /\ Done(t, 2, <<>>)
    /\ UNCHANGED open

Act(t) ==
    /\ q[t].pc = "act"
    /\ ~ForInfo(q[t].req) /\ ~ForArchives(q[t].req) /\ FirstQuery(q[t].req) = "filter"
    /\ Go(t, [q[t] EXCEPT !.pc = "filter"])
    /\ UNCHANGED open

\* The result of the filter is the answer, or the input of the read query.
AfterFilter(t, type, docs) ==
    LET queries == q[t].req.queries
    IN  \/ Len(queries) < 2 /\ Done(t, type, docs)
        \/ Len(queries) >= 2 /\ queries[2] # "read" /\ Done(t, 2, <<>>)
        \/ /\ Len(queries) >= 2 /\ queries[2] = "read"
           /\ Go(t, [q[t] EXCEPT !.pc = "read", !.docs = docs])

\* PVsQueryCLS::decodeQuery: the sets of names that its pattern may match; without
\* a query the pattern is ".*".
Patterns(req) == IF req.queries = <<>> THEN {Name} ELSE SUBSET Name

\* The document of a channel has its name and the range of its time index.
ChannelDoc(n) == [name |-> n, start |-> Head(stored[n]).time, end |-> Last(stored[n]).time]

ChannelDocs(names) == LET s == Sorted(names) IN [i \in DOMAIN s |-> ChannelDoc(s[i])]

\* PVsQueryCLS: the names in the index that match.
FilterClassic(t) ==
    /\ q[t].pc = "filter" /\ server = "classic"
    /\ q[t].req.coll \in ToSet(Configured)
    /\ \E match \in Patterns(q[t].req) :
          LET found == {n \in match : stored[n] # <<>>}
          IN  AfterFilter(t, IF found = {} THEN 1 ELSE 0, ChannelDocs(found))
    /\ UNCHANGED open

\* An archive that is not configured, and an index that throws, is an error; an
\* index that could not be opened has no channels, which is a warning.
FilterFails(t) ==
    /\ q[t].pc = "filter" /\ server = "classic"
    /\ \E type \in {1, 2} :
          /\ q[t].req.coll \in ToSet(Configured) \/ type = 2
          /\ AfterFilter(t, type, <<>>)
    /\ UNCHANGED open

\* FilterQueryMONGO::getQuery: the channels of the collection that the query may
\* select.  It names the collection itself; without a query that is the archive.
Selections(req) ==
    IF req.queries # <<>> THEN SUBSET Name
    ELSE {IF req.coll \in ToSet(ConfiguredMongo) THEN Name ELSE {}}

\* createPVDoc: the type of a field that is made from a field of a document; the
\* other types of BSON leave a null pointer.
BsonTypes == {"double", "string", "object", "array", "oid", "bool", "date", "int",
              "long", "null"}

PVType(type) ==
    CASE type \in {"double", "date"} -> "double"
      [] type \in {"string", "oid"}  -> "string"
      [] type \in {"object", "array", "bool", "int", "long"} -> type
      [] type = "null" -> "nothing"

\* createPVArray: the first element decides; null makes an array without elements.
PVArrayType(first) ==
    CASE first \in {"object", "string"} -> first
      [] first \notin {"object", "string"} -> "double"

\* A document has the name and a field of some type, or an array of it.
Representable(type, inArray) ==
    IF inArray THEN PVArrayType(type) \in {"object", "string", "double"}
    ELSE PVType(type) # "nothing"

\* FilterQueryMONGO: the documents of the collection that match, one for each data
\* file of a channel.  No document is no error.
FilterMongo(t) ==
    /\ q[t].pc = "filter" /\ server = "mongo"
    /\ \E match \in Selections(q[t].req) :
          LET found == {n \in match : stored[n] # <<>>}
          IN  \E twice \in SUBSET found :
                 AfterFilter(t, 0, ChannelDocs(found) \o ChannelDocs(twice))
    /\ UNCHANGED open

\* A document with a field that has no representation: the structure is made with
\* a null pointer, which ends the server.
FilterDies(t) ==
    /\ q[t].pc = "filter" /\ server = "mongo"
    /\ \E type \in BsonTypes, inArray \in BOOLEAN : ~Representable(type, inArray)
    /\ Restart

\* The exceptions of the database are only caught by ArchiveRPCRequest::run:
\* the client gets a fatal status.
FilterThrows(t) ==
    /\ q[t].pc = "filter" /\ server = "mongo"
    /\ Done(t, 3, <<>>)
    /\ UNCHANGED open

\* ReadQuery::decodeQuery: without a limit there may be MAX_COUNT values.
DecodeQuery(req) == [req EXCEPT !.limit = IF @ = 0 THEN MaxCount ELSE @]

\* ReadQuery::decodeInput: each name once, in their order.
DecodeInput(docs) == Sorted({docs[i].name : i \in DOMAIN docs})

\* apply of ReadQueryCLS and ReadQueryMONGO: the channels are read one by one.
Read(t) ==
    /\ q[t].pc = "read"
    /\ LET names == DecodeInput(q[t].docs)
       IN  IF names = <<>> THEN Done(t, 1, <<>>)
           ELSE Go(t, [q[t] EXCEPT !.pc = "find", !.names = names, !.docs = <<>>,
                                   !.req = DecodeQuery(@)])
    /\ UNCHANGED open

-----------------------------------------------------------------------------
Samples(t) == stored[Head(q[t].names)]

\* The file with the sample that the reader goes to.
Here(t) == Samples(t)[q[t].pos].file

\* The document of the current channel: the values, or the message of an error.
\* got: history, as in the request.
Document(t, ok) ==
    [name |-> Head(q[t].names), ok |-> ok, values |-> IF ok THEN q[t].values ELSE <<>>,
     got |-> IF ok THEN q[t].got ELSE <<>>]

\* An exception in createDoc is caught there: its document is an error, and the
\* status is 2, until createResult overwrites it.
Throw(t) ==
    Go(t, [q[t] EXCEPT !.pc = "close", !.status = 2, !.docs = Append(@, Document(t, FALSE))])

\* createDoc ends with a document that has the values.
Finish(t) ==
    Go(t, [q[t] EXCEPT !.pc = "close", !.docs = Append(@, Document(t, TRUE))])

\* createIndex returns the index also when it could not be opened; the search in
\* it divides by the size of a table that was not read, which ends the server.
IndexFails(t) ==
    /\ q[t].pc = "find" /\ server = "classic"
    /\ Restart

\* find() of the reader comes to the block with a sample.
Find(t) ==
    /\ q[t].pc = "find" /\ q[t].req.coll = "archive"
    /\ \E i \in DOMAIN Samples(t) : Go(t, [q[t] EXCEPT !.pc = "reference", !.pos = i])
    /\ UNCHANGED open

\* The classic index throws when it cannot be read.
FindThrows(t) ==
    /\ q[t].pc = "find" /\ server = "classic"
    /\ Throw(t)
    /\ UNCHANGED open

\* find() returns 0 when the index has no record yet; in the Mongo server also when
\* the database gives an error, as if there were no samples, and for a name of
\* another collection.
FindsNothing(t) ==
    /\ q[t].pc = "find"
    /\ Finish(t)
    /\ UNCHANGED open

\* getHeader: DataFile::reference finds the file in the list, ...
FindInCache(t) ==
    /\ q[t].pc = "reference"
    /\ IsOpen(open, Here(t))
    /\ Go(t, [q[t] EXCEPT !.pc = "count"])
    /\ UNCHANGED open

\* ... and counts the reference; ...
CountReference(t) ==
    /\ q[t].pc = "count"
    /\ open' = Referenced(open, Here(t))
    /\ Go(t, [q[t] EXCEPT !.pc = "clear"])

\* ... or it opens the file, or throws.
OpenFile(t) ==
    /\ q[t].pc = "reference"
    /\ ~IsOpen(open, Here(t))
    /\ \/ open' = Opened(open, Here(t)) /\ Go(t, [q[t] EXCEPT !.pc = "clear"])
       \/ UNCHANGED open /\ Throw(t)

\* Mutant of ClearCache: nothing is closed.
KeepOpen(t) ==
    /\ q[t].pc = "clear"
    /\ Go(t, [q[t] EXCEPT !.pc = "header"])
    /\ UNCHANGED open

ClearCache(t) ==
    /\ q[t].pc = "clear"
    /\ open' = Cleared(open)
    /\ Go(t, [q[t] EXCEPT !.pc = "header"])

\* The new header references the file, is read, and the reader releases the file;
\* with an error the header is deleted, and releases it, too.
ReadHeader(t) ==
    /\ q[t].pc = "header"
    /\ \/ UNCHANGED open /\ Go(t, [q[t] EXCEPT !.pc = "info"])
       \/ open' = Released(open, Here(t)) /\ Throw(t)

\* The reader returns the sample that it is at.
Gives(n) == [n EXCEPT !.pc = "value", !.got = Append(@, n.pos)]

\* The control info is read, and the new header replaces the previous one,
\* which releases its file; with an error the new one is deleted.  The reader
\* returns a sample of that block, or it goes on to the next one.
ReadInfo(t) ==
    /\ q[t].pc = "info"
    /\ \/ /\ open' = IF q[t].header = 0 THEN open ELSE Released(open, q[t].header)
          /\ LET n == [q[t] EXCEPT !.header = Here(t)]
             IN  Go(t, Gives(n)) \/ Go(t, [n EXCEPT !.pc = "next"])
       \/ open' = Released(open, Here(t)) /\ Throw(t)

\* Mutant of TakeValue: the limit is looked at after the sample was taken.
TakeOneMore(t) ==
    /\ q[t].pc = "value"
    /\ LET sample == Samples(t)[q[t].pos]
           end    == q[t].req.end
       IN  IF Len(q[t].values) <= q[t].req.limit /\ (end = 0 \/ sample.time < end)
           THEN Go(t, [q[t] EXCEPT !.pc = "next", !.values = Append(@, q[t].pos)])
           ELSE Finish(t)
    /\ UNCHANGED open

\* getDBRs: the loop goes on while the limit is not reached and the sample is
\* from before the end.
TakeValue(t) ==
    /\ q[t].pc = "value"
    /\ LET sample == Samples(t)[q[t].pos]
           end    == q[t].req.end
       IN  IF Len(q[t].values) < q[t].req.limit /\ (end = 0 \/ sample.time < end)
           THEN Go(t, [q[t] EXCEPT !.pc = "next", !.values = Append(@, q[t].pos)])
           ELSE Finish(t)
    /\ UNCHANGED open

\* next() of the reader: a later sample, for which it needs another header when that
\* is in another block; or 0; reading and reopening may fail.
NextValue(t) ==
    /\ q[t].pc = "next"
    /\ \/ Throw(t)
       \/ \E i \in DOMAIN Samples(t) :
             LET n == [q[t] EXCEPT !.pos = i]
             IN  /\ q[t].pos < i
                 /\ \/ Go(t, [n EXCEPT !.pc = "reference"])
                    \/ Samples(t)[i].file = n.header /\ Go(t, Gives(n))
       \/ Finish(t)
    /\ UNCHANGED open

\* createDocs goes on with the next name; ...
NextName(n) ==
    [n EXCEPT !.names = Tail(@), !.pos = 0, !.got = <<>>, !.values = <<>>, !.header = 0, !.pc = "find"]

\* ... after the last one, createResult sets the status to OK.
CreateResult(n) == IF n.names = <<>> THEN [n EXCEPT !.pc = "done", !.status = 0] ELSE n

\* Mutant of Close: the header is forgotten.
CloseWithoutRelease(t) ==
    /\ q[t].pc = "close"
    /\ open' = Cleared(open)
    /\ Go(t, CreateResult(NextName(q[t])))

\* The builder is deleted, and with it the reader: its header releases the file,
\* and clear_cache is called.
Close(t) ==
    /\ q[t].pc = "close"
    /\ open' = Cleared(IF q[t].header = 0 THEN open ELSE Released(open, q[t].header))
    /\ Go(t, CreateResult(NextName(q[t])))

Answer(t) ==
    /\ q[t].pc = "done"
    /\ Go(t, Idle)
    /\ UNCHANGED open

Process(t) ==
    \/ Act(t) \/ ActAtOnce(t) \/ ActAtOnceMongo(t)
    \/ FilterClassic(t) \/ FilterFails(t)
    \/ FilterMongo(t) \/ FilterDies(t) \/ FilterThrows(t) \/ Read(t)
    \/ IndexFails(t) \/ Find(t) \/ FindThrows(t) \/ FindsNothing(t)
    \/ FindInCache(t) \/ CountReference(t) \/ OpenFile(t)
    \/ ClearCache(t) \/ ReadHeader(t) \/ ReadInfo(t)
    \/ TakeValue(t) \/ NextValue(t) \/ Close(t) \/ Answer(t)

QueriesNext ==
    \/ \E n \in Name, f \in File : AddSample(n, f)
    \/ \E t \in Worker, req \in Requests : Receive(t, req)
    \/ \E t \in Worker : Process(t)

QueriesSpec == QueriesInit /\ [][QueriesNext]_queryVars

-----------------------------------------------------------------------------
\* getHeader has a reference of its own.
Getting == {"clear", "header", "info"}

\* Those with a reference to file f: a reader whose header it is, and getHeader for
\* the new header or the variable datafile.
HeadersOf(f) == {t \in Worker : q[t].header = f}
GettersOf(f) == {t \in Worker : q[t].pc \in Getting /\ Here(t) = f}

\* Those that have found it in the list.
FindersOf(f) == {t \in Worker : q[t].pc = "count" /\ Here(t) = f}

\* DataFile.h: "Closes all data files that are fully released."  The reference
\* counts are those of the users, over every exception and every switch from
\* file to file, and a file that is used, or was found in the list, is open.
UsersCounted ==
    \A f \in File :
        /\ IsOpen(open, f) =>
              open[f] = Cardinality(HeadersOf(f)) + Cardinality(GettersOf(f))
        /\ HeadersOf(f) \cup GettersOf(f) \cup FindersOf(f) # {} => IsOpen(open, f)

\* The files that may be open for a thread: that of its header, that of the new
\* header, and one that it released since it last cleared the list.
Heading == {t \in Worker : q[t].header # 0}
Getters == {t \in Worker : q[t].pc \in Getting}
Leaving == {t \in Worker : q[t].pc \in {"value", "next", "reference", "count", "clear", "close"}}

\* RawDataReaderEA3.cpp: "If we keep opening data files, we'll hit the
\* max-open-files limit.  Close files which are no longer referenced."  However
\* many files the samples are in, and whatever fails, few are open at a time,
\* and none when the requests are done.
FewOpenFiles ==
    Cardinality(DOMAIN open)
        <= Cardinality(Heading) + Cardinality(Getters) + Cardinality(Leaving)

\* A file that a thread has found in the list is not closed by another one before it
\* has counted its reference.
Undisturbed ==
    \A t \in Worker : q[t].pc = "count" /\ q'[t] = q[t] => IsOpen(open', Here(t))

\* The server without this race, which the unlocked list allows.
UnracedSpec == QueriesInit /\ [][QueriesNext /\ Undisturbed]_queryVars

\* What the values of a document may be, of the samples that the reader gave: from the
\* first one on, within the limit and before the end, up to one that was not taken.
Fits(samples, got, v, req) ==
    /\ \A i \in DOMAIN got : got[i] \in DOMAIN samples
    /\ IsPrefix(v, got) /\ Len(v) <= req.limit
    /\ req.end # 0 => \A i \in DOMAIN v : samples[v[i]].time < req.end
    /\ Len(v) < Len(got) =>
          /\ Len(got) = Len(v) + 1
          /\ Len(v) = req.limit \/ (req.end # 0 /\ samples[Last(got)].time >= req.end)

\* A document without an error has the samples that the reader gave for one channel,
\* all of them up to the limit, the end time or the end of the data; the reader is
\* not asked for more; and no channel comes twice, however often it was found.
ValuesFit ==
    \A t \in Worker : q[t].pc = "close" =>
        /\ IsInjective([d \in DOMAIN q[t].docs |-> q[t].docs[d].name])
        /\ \A d \in DOMAIN q[t].docs :
              LET doc == q[t].docs[d]
              IN  Fits(stored[doc.name], doc.got, doc.values, q[t].req)

-----------------------------------------------------------------------------
(* Why these properties hold: two inductive invariants.  The first one is   *)
(* about each request by itself; it holds for any number of threads, and    *)
(* does not depend on the list of open files.                               *)

Sample == [time : Nat, file : File]
ChannelDocument == [name : Name, start : Nat, end : Nat]
ValueDocument == [name : Name, ok : BOOLEAN, values : Seq(Nat), got : Seq(Nat)]

\* A sample of the channel has been found; a channel is being read.
AtSample == {"reference", "count", "clear", "header", "info", "value", "next"}
InChannel == AtSample \cup {"find", "close"}

\* The state of a request; its documents depend on what is done with it.
Query(reqs, docs) ==
    [pc : InChannel \cup {"idle", "act", "filter", "read", "done"},
     req : reqs, names : Seq(Name), pos : Nat, got : Seq(Nat), values : Seq(Nat),
     header : File \cup {0}, status : 0..3, docs : docs]

\* The engine only adds samples, each with a later time.
StoredSound(s) ==
    /\ s \in [Name -> Seq(Sample)]
    /\ \A n \in Name : \A i \in DOMAIN s[n] : s[n][i].time = i

\* The filter gives channels that have samples.
InputSound(s, n) ==
    n.pc = "read" =>
        /\ n.docs \in Seq(ChannelDocument)
        /\ \A d \in DOMAIN n.docs : s[n.docs[d].name] # <<>>

\* No channel is still to be read twice, or once more; that of the reader that
\* is about to be deleted has just been read.
NamesSound(s, n) ==
    n.pc \in InChannel =>
        /\ n.names # <<>> /\ IsInjective(n.names)
        /\ \A i \in DOMAIN n.names : s[n.names[i]] # <<>>
        /\ n.docs \in Seq(ValueDocument)
        /\ \A d \in DOMAIN n.docs, i \in DOMAIN n.names :
              n.docs[d].name = n.names[i] => n.pc = "close" /\ i = 1

DocsSound(s, n) ==
    n.pc \in InChannel =>
        /\ IsInjective([d \in DOMAIN n.docs |-> n.docs[d].name])
        /\ \A d \in DOMAIN n.docs :
              Fits(s[n.docs[d].name], n.docs[d].got, n.docs[d].values, n.req)

\* What the reader gave has been taken, but for the sample that is looked at.
ReaderSound(s, n) ==
    n.pc \in AtSample =>
        LET samples == s[Head(n.names)]
        IN  /\ n.pos \in DOMAIN samples
            /\ n.got = IF n.pc = "value" THEN Append(n.values, n.pos) ELSE n.values
            /\ Fits(samples, n.values, n.values, n.req)

RequestSound(s, n) ==
    /\ n \in Query({n.req}, {n.docs})
    /\ n.pc # "idle" => n.req \in Request
    /\ n.pc \notin AtSample \cup {"close"} => n.header = 0 /\ n.values = <<>> /\ n.got = <<>>
    /\ InputSound(s, n) /\ NamesSound(s, n) /\ DocsSound(s, n) /\ ReaderSound(s, n)

RequestsInv ==
    /\ server \in Server
    /\ StoredSound(stored)
    /\ DOMAIN q = Worker
    /\ \A t \in Worker : RequestSound(stored, q[t])

(* The second one is about the list of open files, for any number of        *)
(* threads, as long as no file is closed between being found and counted.   *)

\* The files without users have been left by threads that will clear the list.
Unused == {f \in DOMAIN open : open[f] = 0}

OpenInv ==
    /\ DOMAIN open \subseteq File /\ open \in [DOMAIN open -> Nat]
    /\ IsFiniteSet(DOMAIN open)
    /\ UsersCounted
    /\ Cardinality(Unused) <= Cardinality(Leaving)
=============================================================================
