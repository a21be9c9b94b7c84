---------------------------- MODULE ChannelProofs ----------------------------
(***************************************************************************)
(* Proofs about the archive of one channel, for all values of the          *)
(* constants: DataWriter and RawDataReader.                                *)
(*                                                                         *)
(* First the writer alone: the invariant IInv is inductive, the properties *)
(* of the headers on disk follow from it, and DataWriter implements        *)
(* SampleLog.  Then that the index leads to each sample, with the lemmas   *)
(* of TimeIndexProofs, and what a reader in another process can rely on    *)
(* while the writer works.  Last, for a channel of one kind, the order of  *)
(* the samples: the writer fills and indexes its buffers in that order,    *)
(* and the reader meets them in it and leaves none out.                    *)
(***************************************************************************)
EXTENDS RawDataReader, TimeIndexProofs

-----------------------------------------------------------------------------
\* A buffer has room for at least one sample.
LEMMA NextBufferSizeType ==
    ASSUME NEW n \in Nat
    PROVE  NextBufferSize(n) \in Nat \ {0}
<1>1. MaxBuffer \in BufferSizes
  BY BufferAssumption DEF BufferSizes
<1>2. CASE n < MinBuffer \/ n >= MaxBuffer
  BY <1>2, BufferAssumption DEF NextBufferSize
<1>3. CASE ~(n < MinBuffer) /\ ~(n >= MaxBuffer)
  <2> DEFINE S == {m \in BufferSizes : m > n}
  <2>1. S \subseteq Nat \ {0} /\ MaxBuffer \in S
    BY <1>1, <1>3, BufferAssumption DEF BufferSizes
  <2>2. Min(S) \in S
    BY <2>1, MinOfNats
  <2> QED
    BY <1>3, <2>1, <2>2 DEF NextBufferSize
<1> QED
  BY <1>2, <1>3

\* A data file is a number.
LEMMA DataFileForType ==
    ASSUME NEW n, files \in Seq(Nat)
    PROVE  DataFileFor(n) \in 1..Len(files) + 1
<1> DEFINE roomy == {f \in 1..Len(files) : files[f] + n < FileLimit}
<1>1. CASE roomy = {}
  BY <1>1 DEF DataFileFor
<1>2. CASE roomy # {}
  <2>1. roomy \subseteq Nat
    OBVIOUS
  <2>2. Min(roomy) \in roomy
    BY <1>2, <2>1, MinOfNats
  <2> QED
    BY <1>2, <2>2 DEF DataFileFor
<1> QED
  BY <1>1, <1>2

-----------------------------------------------------------------------------
\* Steps that write no sample and no control info, and after which each version
\* of a header is one that was there before, keep the headers sound.
LEMMA NoNewVersions ==
    ASSUME VersionsSound, VersionsLinked,
           UNCHANGED <<log, infos, files, data>>,
           Len(blocks') = Len(blocks), DOMAIN blocks' = DOMAIN blocks,
           \A b \in DOMAIN blocks : Versions(b)' \subseteq Versions(b)
    PROVE  VersionsSound' /\ VersionsLinked'
<1>1. VersionsSound'
  <2> SUFFICES ASSUME NEW b \in DOMAIN blocks, NEW h \in Versions(b)'
               PROVE  /\ Describes(h, b)'
                      /\ Explains(h, b)'
                      /\ h.info \in 0..Len(infos')
                      /\ h.next \in 0..Len(blocks')
                      /\ h.file \in 1..Len(files')
    BY DEF VersionsSound
  <2>1. h \in Versions(b)
    OBVIOUS
  <2> QED
    BY <2>1 DEF VersionsSound, Describes, Explains, Stamp
<1>2. VersionsLinked'
  BY DEF VersionsLinked
<1> QED
  BY <1>1, <1>2

-----------------------------------------------------------------------------
\* The initial state.
LEMMA InitIInv == Init => IInv
<1> SUFFICES ASSUME Init
             PROVE  IInv
  OBVIOUS
<1>1. TypeOK
  BY DEF Init, TypeOK
<1>2. VersionsSound /\ VersionsLinked
  BY DEF Init, VersionsSound, VersionsLinked
<1>3. WriterReady
  BY DEF Init, WriterReady, IsOpen, Closed
<1> QED
  BY <1>1, <1>2, <1>3 DEF IInv

\* A function on the first n numbers is a sequence.
LEMMA SeqOfFunction ==
    ASSUME NEW S, NEW n \in Nat, NEW f \in [1..n -> S]
    PROVE  f \in Seq(S) /\ Len(f) = n /\ DOMAIN f = 1..n
OBVIOUS

\* The type of the record of an open writer.
LEMMA OpenType ==
    ASSUME TypeOK, IsOpen
    PROVE  w \in OpenWriters
BY DEF TypeOK, IsOpen, Closed

LEMMA OpenPC ==
    ASSUME w \in OpenWriters
    PROVE  IsOpen
BY DEF OpenWriters, IsOpen

-----------------------------------------------------------------------------
\* One lemma for each action.
LEMMA FlushKeepsIInv ==
    ASSUME IInv, NEW f, Flush(f)
    PROVE  IInv'
<1> USE DEF IInv, Flush
<1>1. DOMAIN blocks = DOMAIN disk /\ disk' \in Seq(Header) /\ Len(disk') = Len(disk)
  <2>1. DOMAIN blocks = 1..Len(disk) /\ DOMAIN disk = 1..Len(disk) /\ Len(disk) \in Nat
    BY DEF TypeOK
  <2>2. disk' \in [1..Len(disk) -> Header]
    BY <2>1 DEF TypeOK
  <2> QED
    BY <2>1, <2>2, SeqOfFunction
<1>2. TypeOK'
  BY <1>1 DEF TypeOK, OpenWriters, Closed
<1>3. \A b \in DOMAIN blocks : disk'[b] \in {disk[b], blocks[b]}
  BY <1>1
<1>4. VersionsSound' /\ VersionsLinked'
  <2>1. \A b \in DOMAIN blocks : Versions(b)' \subseteq Versions(b)
    BY <1>3 DEF Versions, IsOpen
  <2> QED
    BY <2>1, NoNewVersions
<1>5. WriterReady'
  <2> SUFFICES ASSUME IsOpen'
               PROVE  WriterReady'
    BY DEF WriterReady
  <2>1. IsOpen /\ w \in OpenWriters
    BY OpenType DEF IsOpen
  <2>2. w.block # 0 => HeadIsNewest'
    BY <1>3, <2>1 DEF WriterReady, HeadIsNewest
  <2>3. w.pc \in {"link", "index"} => FreshIsReady'
    BY <1>3, <2>1 DEF WriterReady, FreshIsReady, Versions, IsOpen
  <2> QED
    BY <2>1, <2>2, <2>3 DEF WriterReady
<1> QED
  BY <1>2, <1>4, <1>5

LEMMA OpenWriterKeepsIInv ==
    ASSUME IInv, NEW ctrl \in Info, NEW type \in DbrType, NEW n \in Request,
           OpenWriter(ctrl, type, n)
    PROVE  IInv'
<1> DEFINE block == IF index = <<>> THEN 0 ELSE LastDatablock(index)
           head  == IF block = 0 THEN NewHeader(0, type, 0) ELSE blocks[block]
           reuse == block # 0 /\ infos[head.info].ctrl = ctrl /\ head.type = type
           size  == NextBufferSize(IF reuse /\ head.cap > n THEN head.cap ELSE n)
<1>1. /\ ~IsOpen
      /\ block # 0 => /\ block \in DOMAIN blocks /\ Flushed(head.file)
                      /\ head.info \in DOMAIN infos
      /\ w' = [pc |-> IF reuse THEN "idle" ELSE "alloc",
               ctrl |-> ctrl, type |-> type, block |-> block,
               head |-> head, fresh |-> 0, freshInfo |-> 0,
               free |-> head.cap - head.num, size |-> size, sample |-> NoTime]
      /\ UNCHANGED <<log, infos, files, blocks, disk, data, index>>
  BY DEF OpenWriter
<1> HIDE DEF block
<1>2. /\ block \in Nat
      /\ head \in Header
      /\ head.num <= head.cap
      /\ block # 0 => /\ disk[block] = head /\ blocks[block] = head
                      /\ head.info # 0
  <2>1. CASE block = 0
    BY <2>1, TimeAssumption DEF NewHeader, Header
  <2>2. CASE block # 0
    <3>1. block \in DOMAIN blocks /\ head = blocks[block] /\ head \in Header
      BY <1>1, <2>2 DEF IInv, TypeOK
    <3>2. Describes(head, block)
      BY <3>1 DEF IInv, VersionsSound, Versions
    <3>3. disk[block] = blocks[block]
      BY <1>1, <2>2, <3>1 DEF Flushed
    <3> QED
      BY <1>1, <2>2, <3>1, <3>2, <3>3 DEF Describes, IInv, TypeOK
  <2> QED
    BY <2>1, <2>2
<1>3. size \in Nat \ {0}
  BY <1>2, NextBufferSizeType, BufferAssumption DEF Header
<1> HIDE DEF head, size
<1>4. w' \in OpenWriters /\ w'.head = head /\ w'.block = block
  BY <1>1, <1>2, <1>3 DEF OpenWriters, Header
<1>5. TypeOK'
  BY <1>1, <1>4 DEF IInv, TypeOK
<1>6. VersionsSound' /\ VersionsLinked'
  <2>1. \A b \in DOMAIN blocks : Versions(b)' \subseteq Versions(b)
    <3> SUFFICES ASSUME NEW b \in DOMAIN blocks
                 PROVE  Versions(b)' \subseteq {disk[b], blocks[b]}
      BY DEF Versions
    <3>1. b # 0
      BY DEF IInv, TypeOK
    <3> QED
      BY <1>1, <1>2, <1>4, <3>1 DEF Versions
  <2> QED
    BY <1>1, <2>1, NoNewVersions DEF IInv
<1>7. WriterReady'
  <2>1. block # 0 => HeadIsNewest'
    BY <1>1, <1>2, <1>4 DEF HeadIsNewest, Header
  <2>2. block = 0 => head.cap = 0
    BY DEF head, NewHeader
  <2> QED
    BY <1>1, <1>2, <1>3, <1>4, <2>1, <2>2 DEF WriterReady, OpenWriters
<1> QED
  BY <1>5, <1>6, <1>7 DEF IInv

LEMMA AddToFullKeepsIInv ==
    ASSUME IInv, NEW t \in Time, AddToFull(t)
    PROVE  IInv'
<1> USE DEF AddToFull, MayAdd
<1>1. IsOpen /\ w \in OpenWriters
  BY OpenType DEF IInv, IsOpen
<1>2. w' \in OpenWriters /\ IsOpen'
  BY <1>1 DEF OpenWriters, IsOpen
<1>3. TypeOK'
  BY <1>2 DEF IInv, TypeOK
<1>4. w'.head = w.head /\ w'.block = w.block
  BY <1>1 DEF OpenWriters
<1>5. VersionsSound' /\ VersionsLinked'
  <2>1. \A b \in DOMAIN blocks : Versions(b)' \subseteq Versions(b)
    BY <1>1, <1>2, <1>4 DEF Versions
  <2> QED
    BY <2>1, NoNewVersions DEF IInv
<1>6. WriterReady'
  BY <1>1, <1>2, <1>4 DEF IInv, WriterReady, HeadIsNewest, OpenWriters
<1> QED
  BY <1>3, <1>5, <1>6 DEF IInv

\* The steps that end the writer: only the versions on disk and in the buffer of
\* the file are left.
LEMMA ClosedKeepsIInv ==
    ASSUME IInv, w' = Closed, UNCHANGED <<log, infos, files, disk, data>>,
           blocks' \in {blocks, disk}
    PROVE  IInv'
<1>1. ~IsOpen'
  BY DEF IsOpen, Closed
<1>2. Len(blocks') = Len(blocks) /\ DOMAIN blocks' = DOMAIN blocks
  BY DEF IInv, TypeOK
<1>3. TypeOK'
  BY DEF IInv, TypeOK
<1>4. \A b \in DOMAIN blocks : Versions(b)' \subseteq Versions(b)
  BY <1>1 DEF Versions
<1>5. VersionsSound' /\ VersionsLinked'
  BY <1>2, <1>4, NoNewVersions DEF IInv
<1>6. WriterReady'
  BY <1>1 DEF WriterReady
<1> QED
  BY <1>3, <1>5, <1>6 DEF IInv

LEMMA CloseHeaderKeepsIInv ==
    ASSUME IInv, CloseHeader
    PROVE  IInv'
<1> USE DEF CloseHeader
<1>1. IsOpen /\ w \in OpenWriters
  BY OpenType DEF IInv, IsOpen
<1>2. w' \in OpenWriters /\ IsOpen'
  BY <1>1 DEF OpenWriters, IsOpen
<1>3. w'.head = w.head /\ w'.block = w.block
  BY <1>1 DEF OpenWriters
<1>4. w.block \in DOMAIN blocks /\ HeadIsNewest
  BY <1>1 DEF IInv, WriterReady, HeadIsNewest
<1>5. /\ blocks' \in Seq(Header) /\ Len(blocks') = Len(blocks)
      /\ DOMAIN blocks' = DOMAIN blocks
      /\ \A b \in DOMAIN blocks : blocks'[b] = IF b = w.block THEN w.head ELSE blocks[b]
  BY <1>1, <1>4 DEF IInv, TypeOK, OpenWriters
<1>6. TypeOK'
  BY <1>2, <1>5 DEF IInv, TypeOK
<1>7. VersionsSound' /\ VersionsLinked'
  <2>1. \A b \in DOMAIN blocks : Versions(b)' \subseteq Versions(b)
    BY <1>1, <1>2, <1>3, <1>5 DEF Versions
  <2> QED
    BY <1>5, <2>1, NoNewVersions DEF IInv
<1>8. WriterReady'
  <2>1. HeadIsNewest'
    BY <1>1, <1>3, <1>4, <1>5 DEF HeadIsNewest, OpenWriters, Header
  <2> QED
    BY <1>1, <1>2, <1>3, <2>1 DEF IInv, WriterReady, OpenWriters
<1> QED
  BY <1>6, <1>7, <1>8 DEF IInv

-----------------------------------------------------------------------------
\* The writer links its header to the fresh block, on disk or only in memory.
LEMMA LinkToFresh ==
    ASSUME IInv, w.pc = "link", UNCHANGED <<log, infos, files, data>>,
           Len(blocks') = Len(blocks), DOMAIN blocks' = DOMAIN blocks,
           \A b \in DOMAIN blocks :
              Versions(b)' \subseteq Versions(b) \cup
                  (IF b = w.block THEN {[w.head EXCEPT !.next = w.fresh]} ELSE {})
    PROVE  VersionsSound' /\ VersionsLinked'
<1> DEFINE linked == [w.head EXCEPT !.next = w.fresh]
<1>1. w \in OpenWriters /\ IsOpen
  BY OpenType DEF IInv, IsOpen
<1>2. HeadIsNewest /\ FreshIsReady /\ w.block \in DOMAIN blocks
  BY <1>1 DEF IInv, WriterReady, HeadIsNewest
<1>3. /\ linked.next = w.fresh /\ linked.prev = w.head.prev
      /\ linked.info = w.head.info /\ linked.num = w.head.num
      /\ linked.cap = w.head.cap /\ linked.begin_time = w.head.begin_time
      /\ linked.end_time = w.head.end_time /\ linked.file = w.head.file
      /\ linked.type = w.head.type
  BY <1>1 DEF OpenWriters, Header
<1>4. w.head \in Versions(w.block)
  BY <1>1 DEF Versions
<1> HIDE DEF linked
<1>5. VersionsSound'
  <2> SUFFICES ASSUME NEW b \in DOMAIN blocks, NEW h \in Versions(b)'
               PROVE  /\ Describes(h, b)'
                      /\ Explains(h, b)'
                      /\ h.info \in 0..Len(infos')
                      /\ h.next \in 0..Len(blocks')
                      /\ h.file \in 1..Len(files')
    BY DEF VersionsSound
  <2>1. CASE h \in Versions(b)
    BY <2>1 DEF IInv, VersionsSound, Describes, Explains, Stamp
  <2>2. CASE h = linked /\ b = w.block
    <3>1. /\ Describes(w.head, b) /\ Explains(w.head, b)
          /\ w.head.info \in 0..Len(infos)
          /\ w.head.file \in 1..Len(files')
      BY <1>1, <1>2, <1>4, <2>2 DEF IInv, VersionsSound
    <3>2. Describes(h, b)'
      BY <1>3, <2>2, <3>1 DEF Describes, Stamp
    <3>3. Explains(h, b)'
      BY <1>3, <2>2, <3>1 DEF Explains
    <3>4. h.next \in 0..Len(blocks')
      BY <1>2, <1>3, <2>2, SMTT(30) DEF FreshIsReady, IInv, TypeOK
    <3> QED
      BY <1>3, <2>2, <3>1, <3>2, <3>3, <3>4
  <2> QED
    BY <2>1, <2>2 DEF linked
<1>6. VersionsLinked'
  <2> SUFFICES ASSUME NEW b \in DOMAIN blocks, NEW n \in DOMAIN blocks,
                      NEW h \in Versions(b)', NEW g \in Versions(n)', h.next = n
               PROVE  n > b /\ (g.info # 0 => g.prev = b)
    BY DEF VersionsLinked
  <2>1. PICK g0 \in Versions(n) : g0.info = g.info /\ g0.prev = g.prev
    BY <1>3, <1>4 DEF linked
  <2>2. CASE h \in Versions(b)
    BY <2>1, <2>2 DEF IInv, VersionsLinked
  <2>3. CASE h = linked /\ b = w.block
    <3>1. n = w.fresh /\ n > b
      BY <1>2, <1>3, <2>3 DEF FreshIsReady
    <3>2. Versions(n) = {blocks[n]} /\ blocks[n].info = 0
      <4>1. w.block # n /\ disk[n] = blocks[n]
        BY <1>1, <1>2, <2>3, <3>1 DEF FreshIsReady, OpenWriters
      <4>2. blocks[n].info = 0
        BY <1>2, <3>1 DEF FreshIsReady, NewHeader
      <4> QED
        BY <4>1, <4>2 DEF Versions
    <3> QED
      BY <2>1, <3>1, <3>2
  <2> QED
    BY <2>2, <2>3 DEF linked
<1> QED
  BY <1>5, <1>6

LEMMA LinkHeaderKeepsIInv ==
    ASSUME IInv, LinkHeader
    PROVE  IInv'
<1> DEFINE linked == [w.head EXCEPT !.next = w.fresh]
<1>1. /\ w.pc = "link"
      /\ blocks' = [blocks EXCEPT ![w.block] = linked]
      /\ w' = [w EXCEPT !.pc = "index", !.head = linked]
      /\ UNCHANGED <<log, infos, files, disk, data, index>>
  BY DEF LinkHeader
<1>2. w \in OpenWriters /\ IsOpen
  BY <1>1, OpenType DEF IInv, IsOpen
<1>3. w' \in OpenWriters /\ IsOpen'
  BY <1>1, <1>2 DEF OpenWriters, IsOpen, Header
<1>4. HeadIsNewest /\ FreshIsReady /\ w.block \in DOMAIN blocks
  BY <1>1, <1>2 DEF IInv, WriterReady, HeadIsNewest
<1>5. /\ linked \in Header /\ linked.num = w.head.num /\ linked.cap = w.head.cap
      /\ linked.info = w.head.info /\ linked.type = w.head.type
      /\ linked.next = w.fresh
  BY <1>2 DEF OpenWriters, Header
<1>6. /\ w'.pc = "index" /\ w'.head = linked /\ w'.block = w.block
      /\ w'.fresh = w.fresh /\ w'.freshInfo = w.freshInfo /\ w'.ctrl = w.ctrl
      /\ w'.type = w.type /\ w'.size = w.size /\ w'.free = w.free
      /\ w'.sample = w.sample
  BY <1>1, <1>2 DEF OpenWriters
<1> HIDE DEF linked
<1>7. /\ blocks' \in Seq(Header) /\ Len(blocks') = Len(blocks)
      /\ DOMAIN blocks' = DOMAIN blocks
      /\ \A b \in DOMAIN blocks : blocks'[b] = IF b = w.block THEN linked ELSE blocks[b]
  BY <1>1, <1>4, <1>5 DEF IInv, TypeOK
<1>8. TypeOK'
  BY <1>1, <1>3, <1>7 DEF IInv, TypeOK
<1>9. \A b \in DOMAIN blocks :
        Versions(b)' \subseteq Versions(b) \cup
            (IF b = w.block THEN {linked} ELSE {})
  BY <1>1, <1>2, <1>3, <1>6, <1>7 DEF Versions
<1>10. VersionsSound' /\ VersionsLinked'
  BY <1>1, <1>7, <1>9, LinkToFresh DEF linked
<1>11. WriterReady'
  <2>1. HeadIsNewest'
    <3>1. blocks'[w.block] = linked /\ linked.num \in Nat
      BY <1>4, <1>5, <1>7 DEF Header
    <3> QED
      BY <1>1, <1>4, <1>5, <1>6, <1>7, <3>1 DEF HeadIsNewest
  <2>2. FreshIsReady'
    <3>1. w.fresh # w.block
      BY <1>2, <1>4 DEF FreshIsReady, OpenWriters
    <3>2. \A b \in DOMAIN blocks : \A h \in Versions(b)' :
             h.next = w.fresh => b = w.block
      BY <1>4, <1>9 DEF FreshIsReady
    <3> QED
      BY <1>1, <1>4, <1>6, <1>7, <3>1, <3>2 DEF FreshIsReady
  <2> QED
    BY <1>1, <1>2, <1>4, <1>5, <1>6, <2>1, <2>2
    DEF IInv, WriterReady, OpenWriters, HeadIsNewest, IsOpen
<1> QED
  BY <1>8, <1>10, <1>11 DEF IInv

\* The numbers of control infos and of blocks.
LEMMA InfoNumbers ==
    ASSUME IInv
    PROVE  Len(infos) \in Nat /\ DOMAIN infos = 1..Len(infos) /\ Len(blocks) \in Nat
BY DEF IInv, TypeOK

LEMMA IndexHeaderKeepsIInv ==
    ASSUME IInv, IndexHeader
    PROVE  IInv'
<1> DEFINE header == [blocks[w.fresh] EXCEPT !.info = w.freshInfo, !.prev = w.block]
<1>1. /\ w.pc = "index"
      /\ w' = SwitchHeader(w, header)
      /\ UNCHANGED <<log, infos, files, blocks, disk, data>>
  BY DEF IndexHeader
<1>2. w \in OpenWriters /\ IsOpen
  BY <1>1, OpenType DEF IInv, IsOpen
<1>3. /\ HeadIsNewest /\ FreshIsReady
      /\ w.block \in DOMAIN blocks /\ w.fresh \in DOMAIN blocks
      /\ w.fresh # 0 /\ w.fresh # w.block
  BY <1>1, <1>2, SMTT(30) DEF IInv, WriterReady, HeadIsNewest, FreshIsReady, OpenWriters, TypeOK
<1>4. /\ blocks[w.fresh] = NewHeader(blocks[w.fresh].cap, w.type, blocks[w.fresh].file)
      /\ disk[w.fresh] = blocks[w.fresh]
      /\ blocks[w.fresh].cap \in Nat \ {0} /\ blocks[w.fresh].file \in Nat
  <2>1. blocks[w.fresh] \in Header
    BY <1>3 DEF IInv, TypeOK
  <2>2. blocks[w.fresh].cap \in Nat /\ blocks[w.fresh].file \in Nat
    BY <2>1 DEF Header
  <2> QED
    BY <1>3, <2>2 DEF FreshIsReady
<1>5. /\ header \in Header
      /\ header.num = 0 /\ header.next = 0 /\ header.type = w.type
      /\ header.info = w.freshInfo /\ header.prev = w.block
      /\ header.cap = blocks[w.fresh].cap /\ header.file = blocks[w.fresh].file
  <2>1. /\ w.freshInfo \in Nat /\ w.block \in Nat
        /\ blocks[w.fresh] \in Header
    BY <1>2, <1>3 DEF OpenWriters, IInv, TypeOK
  <2>2. header \in Header
    BY <2>1 DEF Header
  <2>3. /\ header.num = blocks[w.fresh].num /\ header.next = blocks[w.fresh].next
        /\ header.type = blocks[w.fresh].type
        /\ header.info = w.freshInfo /\ header.prev = w.block
        /\ header.cap = blocks[w.fresh].cap /\ header.file = blocks[w.fresh].file
    BY <2>1 DEF Header
  <2> QED
    BY <1>4, <2>2, <2>3 DEF NewHeader
<1>6. blocks[w.fresh].num = 0 /\ blocks[w.fresh].info = 0 /\ blocks[w.fresh].next = 0
  BY <1>4 DEF NewHeader
<1> HIDE DEF header
<1>7. NextBufferSize(w.size) \in Nat \ {0}
  BY <1>2, NextBufferSizeType DEF OpenWriters
<1>8. /\ w' \in OpenWriters
      /\ w'.pc = IF w.sample = NoTime THEN "idle" ELSE "add"
      /\ w'.head = header /\ w'.block = w.fresh /\ w'.ctrl = w.ctrl
      /\ w'.type = w.type /\ w'.free = header.cap /\ w'.size = NextBufferSize(w.size)
      /\ w'.sample = w.sample
  BY <1>1, <1>2, <1>5, <1>7 DEF SwitchHeader, OpenWriters, Header
<1>9. TypeOK'
  BY <1>1, <1>8 DEF IInv, TypeOK
<1>10. IsOpen'
  BY <1>8, OpenPC DEF OpenWriters, IsOpen
<1>11. \A b \in DOMAIN blocks : \A h \in Versions(b)' :
          h \in Versions(b) \/ (b = w.fresh /\ h = header)
  BY <1>1, <1>8 DEF Versions
<1>12. VersionsSound'
  <2> SUFFICES ASSUME NEW b \in DOMAIN blocks, NEW h \in Versions(b)'
               PROVE  /\ Describes(h, b)'
                      /\ Explains(h, b)'
                      /\ h.info \in 0..Len(infos')
                      /\ h.next \in 0..Len(blocks')
                      /\ h.file \in 1..Len(files')
    BY <1>1 DEF VersionsSound
  <2>1. CASE h \in Versions(b)
    BY <1>1, <2>1 DEF IInv, VersionsSound, Describes, Explains, Stamp
  <2>2. CASE b = w.fresh /\ h = header
    <3>1. data[b] \in Seq(Nat) /\ Len(data[b]) \in Nat
      BY DEF IInv, TypeOK
    <3>2. Describes(h, b)'
      BY <1>1, <1>4, <1>5, <2>2, <3>1 DEF Describes
    <3>3. /\ w.freshInfo \in DOMAIN infos
          /\ infos[w.freshInfo].file = blocks[w.fresh].file
      BY <1>3 DEF FreshIsReady
    <3>4. Explains(h, b)' /\ h.info \in 0..Len(infos)
      <4>1. infos'[h.info].file = h.file /\ 1..h.num = {}
        BY <1>1, <1>5, <2>2, <3>3
      <4>2. h.info \in 0..Len(infos)
        BY <1>5, <2>2, <3>3, InfoNumbers
      <4> QED
        BY <4>1, <4>2 DEF Explains
    <3>5. h.file \in 1..Len(files')
      <4>1. w.fresh \in DOMAIN blocks /\ blocks[w.fresh] \in Versions(w.fresh)
        BY <1>3 DEF FreshIsReady, Versions
      <4> QED
        BY <1>1, <1>5, <2>2, <4>1 DEF IInv, VersionsSound
    <3> QED
      <4>1. infos' = infos /\ blocks' = blocks
        BY <1>1
      <4>2. h.next = 0 /\ 0 \in 0..Len(blocks)
        BY <1>5, <2>2, InfoNumbers
      <4>3. h.info \in 0..Len(infos') /\ h.next \in 0..Len(blocks')
        BY <3>4, <4>1, <4>2
      <4> QED
        BY <3>2, <3>4, <3>5, <4>3
  <2> QED
    BY <1>11, <2>1, <2>2
<1>13. VersionsLinked'
  <2> SUFFICES ASSUME NEW b \in DOMAIN blocks, NEW n \in DOMAIN blocks,
                      NEW h \in Versions(b)', NEW g \in Versions(n)', h.next = n
               PROVE  n > b /\ (g.info # 0 => g.prev = b)
    BY <1>1 DEF VersionsLinked
  <2>1. n # 0
    BY DEF IInv, TypeOK
  <2>2. h \in Versions(b)
    BY <1>5, <1>11, <2>1
  <2>3. CASE g \in Versions(n)
    BY <2>2, <2>3 DEF IInv, VersionsLinked
  <2>4. CASE n = w.fresh /\ g = header
    BY <1>3, <1>5, <2>2, <2>4 DEF FreshIsReady
  <2> QED
    BY <1>11, <2>3, <2>4
<1>14. WriterReady'
  <2>1. HeadIsNewest'
    <3>1. w.freshInfo # 0
      BY <1>3 DEF FreshIsReady, IInv, TypeOK
    <3> QED
      BY <1>1, <1>3, <1>4, <1>5, <1>6, <1>8, <3>1 DEF HeadIsNewest
  <2>2. infos[header.info].ctrl = w.ctrl
    BY <1>3, <1>5 DEF FreshIsReady
  <2> QED
    BY <1>1, <1>3, <1>4, <1>5, <1>7, <1>8, <2>1, <2>2 DEF WriterReady
<1> QED
  BY <1>9, <1>12, <1>13, <1>14 DEF IInv

LEMMA NewHeaderFailsKeepsIInv ==
    ASSUME IInv, NewHeaderFails
    PROVE  IInv'
<1> USE DEF NewHeaderFails
<1>1. w \in OpenWriters /\ IsOpen
  BY OpenType DEF IInv, IsOpen
<1>2. CASE w.sample = NoTime
  BY <1>2, ClosedKeepsIInv
<1>3. CASE w.sample # NoTime
  <2> DEFINE head == IF w.pc = "link" THEN [w.head EXCEPT !.next = w.fresh] ELSE w.head
  <2>1. w.block # 0 /\ HeadIsNewest /\ w.block \in DOMAIN blocks
    BY <1>1, <1>3 DEF IInv, WriterReady, HeadIsNewest
  <2>2. /\ head \in Header /\ head.num = w.head.num /\ head.cap = w.head.cap
        /\ head.info = w.head.info /\ head.type = w.head.type
    BY <1>1 DEF OpenWriters, Header
  <2>3. /\ w' \in OpenWriters
        /\ w'.pc = "idle" /\ w'.head = head /\ w'.block = w.block
        /\ w'.ctrl = w.ctrl /\ w'.type = w.type /\ w'.size = w.size
        /\ w'.free = w.free /\ w'.sample = NoTime
    BY <1>1, <1>3 DEF OpenWriters, Header
  <2>4. TypeOK'
    BY <2>3 DEF IInv, TypeOK
  <2>5. IsOpen'
    BY <2>3 DEF IsOpen
  <2>6. VersionsSound' /\ VersionsLinked'
    <3>1. CASE w.pc = "link"
      <4>1. \A b \in DOMAIN blocks :
              Versions(b)' \subseteq Versions(b) \cup
                  (IF b = w.block THEN {[w.head EXCEPT !.next = w.fresh]} ELSE {})
        BY <2>3, <2>5, <3>1 DEF Versions
      <4> QED
        BY <3>1, <4>1, LinkToFresh DEF IInv
    <3>2. CASE w.pc # "link"
      <4>1. \A b \in DOMAIN blocks : Versions(b)' \subseteq Versions(b)
        BY <1>1, <2>3, <2>5, <3>2 DEF Versions
      <4> QED
        BY <4>1, NoNewVersions DEF IInv
    <3> QED
      BY <3>1, <3>2
  <2>7. WriterReady'
    <3> HIDE DEF head
    <3>1. HeadIsNewest'
      BY <2>1, <2>2, <2>3 DEF HeadIsNewest
    <3> QED
      BY <1>1, <1>3, <2>1, <2>2, <2>3, <3>1 DEF IInv, WriterReady
  <2> QED
    BY <2>4, <2>6, <2>7 DEF IInv
<1> QED
  BY <1>2, <1>3

-----------------------------------------------------------------------------
\* What a header says stays true when samples and control infos are only added
\* and the samples that it counts stay where they are.
LEMMA StillTrue ==
    ASSUME NEW h \in Header, NEW b \in DOMAIN data, IInv,
           Describes(h, b), Explains(h, b), h.info \in 0..Len(infos),
           \A i \in DOMAIN log : i \in DOMAIN log' /\ log'[i] = log[i],
           \A i \in DOMAIN infos : infos'[i] = infos[i],
           \A i \in 1..h.num : data'[b][i] = data[b][i],
           h.num <= Len(data'[b])
    PROVE  Describes(h, b)' /\ Explains(h, b)'
<1>1. h.num \in Nat /\ \A i \in 1..h.num : data[b][i] \in DOMAIN log
  BY DEF Describes, Header
<1>2. \A i \in 1..h.num : Stamp(b, i)' = Stamp(b, i)
  BY <1>1 DEF Stamp
<1>3. Describes(h, b)'
  BY <1>1, <1>2 DEF Describes
<1>4. h.info # 0 => infos'[h.info] = infos[h.info]
  BY InfoNumbers
<1>5. Explains(h, b)'
  BY <1>1, <1>4, SMTT(30) DEF Explains
<1> QED
  BY <1>3, <1>5

\* The buffer after a sample was written behind the first k - 1.
LEMMA OverwriteType ==
    ASSUME NEW buffer \in Seq(Nat), NEW k \in Nat \ {0}, k <= Len(buffer) + 1,
           NEW x \in Nat
    PROVE  /\ Overwrite(buffer, k, x) \in Seq(Nat)
           /\ k <= Len(Overwrite(buffer, k, x))
           /\ Overwrite(buffer, k, x)[k] = x
           /\ \A i \in 1..k - 1 : Overwrite(buffer, k, x)[i] = buffer[i]
<1> DEFINE n == IF k > Len(buffer) THEN k ELSE Len(buffer)
           f == [i \in 1..n |-> IF i = k THEN x ELSE buffer[i]]
<1>1. n \in Nat /\ k \in 1..n /\ \A i \in 1..n : i # k => i \in 1..Len(buffer)
  OBVIOUS
<1>2. Overwrite(buffer, k, x) = f
  BY DEF Overwrite
<1>3. f \in [1..n -> Nat]
  BY <1>1
<1>4. f \in Seq(Nat) /\ Len(f) = n
  BY <1>1, <1>3, SeqOfFunction
<1>5. f[k] = x /\ \A i \in 1..k - 1 : f[i] = buffer[i]
  BY <1>1
<1> HIDE DEF n, f
<1> QED
  BY <1>1, <1>2, <1>4, <1>5

\* The header in memory after a sample was stored.
HeadAfter(h, t) ==
    [h EXCEPT !.num = @ + 1,
              !.begin_time = IF h.num = 0 THEN t ELSE @,
              !.end_time = t]

LEMMA HeadAfterType ==
    ASSUME NEW h \in Header, NEW t \in Time
    PROVE  LET head == HeadAfter(h, t)
           IN  /\ head \in Header /\ head.num = h.num + 1 /\ head.end_time = t
               /\ head.begin_time = IF h.num = 0 THEN t ELSE h.begin_time
               /\ head.info = h.info /\ head.type = h.type /\ head.file = h.file
               /\ head.next = h.next /\ head.prev = h.prev /\ head.cap = h.cap
<1> DEFINE head == HeadAfter(h, t)
<1> DEFINE begin == IF h.num = 0 THEN t ELSE h.begin_time
           n == h.num + 1
<1>1. n \in Nat /\ begin \in Time
  BY DEF Header
<1>2. head = [h EXCEPT !.num = n, !.begin_time = begin, !.end_time = t]
  BY DEF HeadAfter
<1> HIDE DEF begin, n, head
<1>3. /\ head \in Header /\ head.num = n /\ head.end_time = t
      /\ head.begin_time = begin
      /\ head.info = h.info /\ head.type = h.type /\ head.file = h.file
      /\ head.next = h.next /\ head.prev = h.prev /\ head.cap = h.cap
  BY <1>1, <1>2 DEF Header
<1> QED
  BY <1>3 DEF begin, n, head

\* That header is as sound as the one before.
LEMMA StoredSound ==
    ASSUME IInv, NEW b \in DOMAIN data, NEW h \in Header, NEW head \in Header,
           NEW t \in Time, NEW x,
           Describes(h, b), Explains(h, b), h.info \in DOMAIN infos,
           h.num < h.cap, h.num > 0 => t >= h.end_time,
           head.num = h.num + 1, head.end_time = t,
           head.begin_time = IF h.num = 0 THEN t ELSE h.begin_time,
           head.info = h.info, head.type = h.type, head.file = h.file,
           head.cap = h.cap,
           infos' = infos,
           \A i \in DOMAIN log : i \in DOMAIN log' /\ log'[i] = log[i],
           x \in DOMAIN log',
           log'[x] = [stamp |-> t, type |-> h.type, ctrl |-> infos[h.info].ctrl],
           data'[b] \in Seq(Nat),
           h.num + 1 <= Len(data'[b]),
           data'[b][h.num + 1] = x,
           \A i \in 1..h.num : data'[b][i] = data[b][i]
    PROVE  Describes(head, b)' /\ Explains(head, b)'
<1>1. PICK n \in Nat : n = h.num
  BY DEF Header
<1>2. \A i \in 1..n : data'[b][i] \in DOMAIN log' /\ Stamp(b, i)' = Stamp(b, i)
  <2> TAKE i \in 1..n
  <2>1. PICK k : k = data[b][i]
    OBVIOUS
  <2>2. i \in 1..h.num
    BY <1>1
  <2>3. data'[b][i] = k /\ k \in DOMAIN log
    BY <2>1, <2>2 DEF Describes
  <2>4. k \in DOMAIN log' /\ log'[k] = log[k]
    BY <2>3
  <2>5. Stamp(b, i)' = log'[data'[b][i]].stamp /\ Stamp(b, i) = log[data[b][i]].stamp
    BY DEF Stamp
  <2> QED
    BY <2>1, <2>3, <2>4, <2>5, Zenon
<1>3. data'[b][n + 1] \in DOMAIN log' /\ Stamp(b, n + 1)' = t
  BY <1>1 DEF Stamp
<1>4. \A i \in 1..n : Stamp(b, i) \in Nat
  <2>1. SUFFICES ASSUME NEW i \in 1..n
                 PROVE  log[data[b][i]].stamp \in Nat
    BY DEF Stamp
  <2>2. log \in Seq(Sample) /\ data[b][i] \in DOMAIN log
    BY <1>1 DEF Describes, IInv, TypeOK
  <2>3. log[data[b][i]] \in Sample
    BY <2>2
  <2> QED
    BY <2>3, TimeAssumption DEF Sample
<1>5. \A i \in 1..n : Stamp(b, i) <= t
  <2>1. SUFFICES ASSUME NEW i \in 1..n
                 PROVE  Stamp(b, i) <= t
    OBVIOUS
  <2>2. n > 0 /\ t >= Stamp(b, n) /\ (i < n => Stamp(b, i) <= Stamp(b, n))
    BY <1>1 DEF Describes
  <2>3. Stamp(b, i) \in Nat /\ Stamp(b, n) \in Nat /\ t \in Nat
    BY <1>4, <2>2, TimeAssumption
  <2>4. CASE i = n
    BY <2>2, <2>3, <2>4
  <2>5. CASE i < n
    BY <2>2, <2>3, <2>5
  <2> QED
    BY <2>4, <2>5
<1>6. \A i, j \in 1..n + 1 : i < j => Stamp(b, i)' <= Stamp(b, j)'
  <2>1. SUFFICES ASSUME NEW i \in 1..n + 1, NEW j \in 1..n + 1, i < j
                 PROVE  Stamp(b, i)' <= Stamp(b, j)'
    OBVIOUS
  <2>2. i \in 1..n /\ (j = n + 1 \/ j \in 1..n)
    BY <2>1
  <2>3. j \in 1..n => Stamp(b, i) <= Stamp(b, j)
    BY <1>1, <2>1, <2>2 DEF Describes
  <2> QED
    BY <1>2, <1>3, <1>5, <2>2, <2>3
<1>7. /\ head.begin_time = Stamp(b, 1)'
      /\ head.end_time = Stamp(b, n + 1)'
  <2>1. CASE n = 0
    BY <1>1, <1>3, <2>1
  <2>2. CASE n > 0
    <3>1. h.begin_time = Stamp(b, 1) /\ 1 \in 1..n
      BY <1>1, <2>2 DEF Describes
    <3> QED
      BY <1>1, <1>2, <1>3, <2>2, <3>1
  <2> QED
    BY <2>1, <2>2
<1>8. Describes(head, b)'
  <2>1. head.num = n + 1 /\ head.num <= head.cap /\ head.num <= Len(data'[b])
    BY <1>1 DEF Header
  <2>2. \A i \in 1..n + 1 : data'[b][i] \in DOMAIN log'
    BY <1>2, <1>3
  <2> QED
    BY <1>6, <1>7, <2>1, <2>2 DEF Describes
<1>9. Explains(head, b)'
  <2>1. h.info # 0
    BY SMTT(30) DEF IInv, TypeOK
  <2>2. \A i \in 1..n : /\ data[b][i] \in DOMAIN log
                        /\ infos[h.info].ctrl = log[data[b][i]].ctrl
                        /\ h.type = log[data[b][i]].type
    BY <1>1, <2>1 DEF Describes, Explains
  <2>3. \A i \in 1..n + 1 : /\ infos[h.info].ctrl = log'[data'[b][i]].ctrl
                            /\ h.type = log'[data'[b][i]].type
    <3>1. SUFFICES ASSUME NEW i \in 1..n + 1
                   PROVE  /\ infos[h.info].ctrl = log'[data'[b][i]].ctrl
                          /\ h.type = log'[data'[b][i]].type
      OBVIOUS
    <3>2. CASE i = n + 1
      BY <1>1, <3>2
    <3>3. CASE i \in 1..n
      BY <1>1, <2>2, <3>3, SMTT(30)
    <3> QED
      BY <3>2, <3>3
  <2> QED
    BY <1>1, <2>1, <2>3 DEF Explains
<1> QED
  BY <1>8, <1>9

\* A sample is stored behind the last one.
LEMMA StoreKeepsIInv ==
    ASSUME IInv, NEW t \in Time, Store(t), w.pc \in {"idle", "add"}, w.free > 0,
           w.head.num > 0 => t >= w.head.end_time
    PROVE  IInv'
<1>1. w \in OpenWriters /\ IsOpen
  BY OpenType DEF IInv, IsOpen
<1>2. PICK h \in Header : h = w.head
  BY <1>1 DEF OpenWriters
<1>3. PICK bl \in DOMAIN blocks : bl = w.block
  BY <1>1 DEF IInv, WriterReady, HeadIsNewest
<1> DEFINE x    == Len(log) + 1
           new  == [stamp |-> t, type |-> w.type, ctrl |-> w.ctrl]
           head == HeadAfter(h, t)
           n    == h.num + 1
<1>4. /\ log' = Append(log, new)
      /\ data' = [data EXCEPT ![bl] = Overwrite(@, n, x)]
      /\ UNCHANGED <<infos, files, blocks, disk, index>>
  BY <1>2, <1>3 DEF Store
<1>5. w' = [w EXCEPT !.pc = "idle", !.sample = NoTime, !.free = @ - 1,
                     !.head = head]
  BY <1>1, <1>2 DEF Store, OpenWriters, Header, HeadAfter
<1>6. /\ h.num \in Nat /\ h.cap \in Nat /\ n \in Nat \ {0}
      /\ w.free = h.cap - h.num /\ h.num < h.cap
      /\ infos[h.info].ctrl = w.ctrl /\ h.type = w.type /\ h.info # 0
      /\ blocks[bl].num <= h.num /\ disk[bl].num <= h.num
      /\ bl # 0 /\ w.size > 0
  <2>1. h.num \in Nat /\ h.cap \in Nat
    BY DEF Header
  <2>2. bl # 0 /\ HeadIsNewest
    BY <1>1, <1>3 DEF IInv, TypeOK, WriterReady
  <2> QED
    BY <1>1, <1>2, <1>3, <2>1, <2>2 DEF IInv, WriterReady, HeadIsNewest
<1>7. /\ head \in Header /\ head.num = n /\ head.end_time = t
      /\ head.begin_time = IF h.num = 0 THEN t ELSE h.begin_time
      /\ head.info = h.info /\ head.type = h.type /\ head.file = h.file
      /\ head.next = h.next /\ head.prev = h.prev /\ head.cap = h.cap
  BY HeadAfterType
<1> HIDE DEF head
<1>8. /\ w' \in OpenWriters /\ w'.pc = "idle" /\ w'.sample = NoTime
      /\ w'.free = head.cap - head.num /\ w'.head = head /\ w'.block = bl
      /\ w'.ctrl = w.ctrl /\ w'.type = w.type /\ w'.size = w.size
  <2>1. /\ w.free \in Nat /\ w.free - 1 \in Nat
        /\ w.free - 1 = head.cap - head.num
    BY <1>1, <1>6, <1>7 DEF OpenWriters
  <2> QED
    BY <1>1, <1>3, <1>5, <1>7, <2>1 DEF OpenWriters
<1>9. /\ log' \in Seq(Sample) /\ x \in DOMAIN log' /\ log'[x] = new
      /\ \A i \in DOMAIN log : i \in DOMAIN log' /\ log'[i] = log[i]
      /\ x \in Nat
  <2>1. new \in Sample /\ log \in Seq(Sample)
    BY <1>1 DEF Sample, OpenWriters, IInv, TypeOK
  <2> HIDE DEF new
  <2> QED
    BY <1>4, <2>1
<1> HIDE DEF x
<1>10. /\ Describes(h, bl) /\ Explains(h, bl)
       /\ h.info \in 0..Len(infos) /\ h.next \in 0..Len(blocks)
       /\ h.file \in 1..Len(files)
       /\ h \in Versions(bl)
  BY <1>1, <1>2, <1>3 DEF IInv, VersionsSound, Versions
<1>11. data[bl] \in Seq(Nat) /\ n <= Len(data[bl]) + 1 /\ bl \in DOMAIN data
  <2>1. data[bl] \in Seq(Nat) /\ bl \in DOMAIN data
    BY DEF IInv, TypeOK
  <2>2. h.num <= Len(data[bl])
    BY <1>10 DEF Describes
  <2> QED
    BY <1>6, <2>1, <2>2
<1> HIDE DEF n
<1>12. /\ data' \in Seq(Seq(Nat)) /\ Len(data') = Len(data)
       /\ data'[bl] \in Seq(Nat) /\ n <= Len(data'[bl]) /\ data'[bl][n] = x
       /\ \A i \in 1..n - 1 : data'[bl][i] = data[bl][i]
       /\ \A b \in DOMAIN blocks : b # bl => data'[b] = data[b]
  <2>1. /\ Overwrite(data[bl], n, x) \in Seq(Nat)
        /\ n <= Len(Overwrite(data[bl], n, x))
        /\ Overwrite(data[bl], n, x)[n] = x
        /\ \A i \in 1..n - 1 : Overwrite(data[bl], n, x)[i] = data[bl][i]
    BY <1>6, <1>9, <1>11, OverwriteType, SMTT(30)
  <2> QED
    BY <1>4, <1>11, <2>1 DEF IInv, TypeOK
<1>13. TypeOK'
  BY <1>4, <1>8, <1>9, <1>12 DEF IInv, TypeOK
<1>14. \A b \in DOMAIN blocks : \A g \in Versions(b)' :
          g \in {disk[b], blocks[b]} \/ (b = bl /\ g = head)
  BY <1>4, <1>8 DEF Versions
<1>15. VersionsSound'
  <2> SUFFICES ASSUME NEW b \in DOMAIN blocks, NEW g \in Versions(b)'
               PROVE  /\ Describes(g, b)' /\ Explains(g, b)'
                      /\ g.info \in 0..Len(infos) /\ g.next \in 0..Len(blocks)
                      /\ g.file \in 1..Len(files)
    BY <1>4 DEF VersionsSound
  <2>1. CASE g \in {disk[b], blocks[b]}
    <3>1. g \in Versions(b) /\ g \in Header /\ b \in DOMAIN data
      BY <2>1 DEF Versions, IInv, TypeOK
    <3>2. /\ Describes(g, b) /\ Explains(g, b) /\ g.num \in Nat
          /\ g.info \in 0..Len(infos) /\ g.next \in 0..Len(blocks)
          /\ g.file \in 1..Len(files)
      BY <3>1 DEF IInv, VersionsSound, Header
    <3>3. /\ \A i \in 1..g.num : data'[b][i] = data[b][i]
          /\ g.num <= Len(data'[b])
      <4>1. CASE b = bl
        <5>1. g.num <= h.num /\ n = h.num + 1
          BY <1>6, <2>1, <4>1 DEF n
        <5>2. 1..g.num \subseteq 1..n - 1
          BY <1>6, <3>2, <5>1
        <5>3. Len(data'[b]) \in Nat /\ n <= Len(data'[b])
          BY <1>12, <4>1
        <5>4. g.num <= Len(data'[b])
          BY <1>6, <3>2, <5>1, <5>3
        <5> QED
          BY <1>12, <4>1, <5>2, <5>4
      <4>2. CASE b # bl
        BY <1>12, <3>2, <4>2 DEF Describes
      <4> QED
        BY <4>1, <4>2
    <3>4. Describes(g, b)' /\ Explains(g, b)'
      BY <1>4, <1>9, <3>1, <3>2, <3>3, StillTrue
    <3> QED
      BY <3>2, <3>4
  <2>2. CASE b = bl /\ g = head
    <3>1. h.info \in DOMAIN infos /\ 1..h.num = 1..n - 1 /\ n = h.num + 1
      <4>1. infos \in Seq([ctrl : Info, file : Nat])
        BY DEF IInv, TypeOK
      <4>2. h.info \in DOMAIN infos
        BY <1>6, <1>10, <4>1
      <4> QED
        BY <1>6, <4>2 DEF n
    <3>2. h.num > 0 => t >= h.end_time
      BY <1>2
    <3>3. Describes(head, bl)' /\ Explains(head, bl)'
      <4>1. /\ bl \in DOMAIN data /\ h \in Header /\ head \in Header
            /\ Describes(h, bl) /\ Explains(h, bl) /\ h.num < h.cap
        BY <1>6, <1>7, <1>10, <1>11
      <4>2. /\ head.num = h.num + 1 /\ head.end_time = t
            /\ head.begin_time = IF h.num = 0 THEN t ELSE h.begin_time
            /\ head.info = h.info /\ head.type = h.type /\ head.file = h.file
            /\ head.cap = h.cap
        BY <1>7, <3>1
      <4>3. /\ infos' = infos /\ x \in DOMAIN log'
            /\ \A i \in DOMAIN log : i \in DOMAIN log' /\ log'[i] = log[i]
        BY <1>4, <1>9
      <4>4. log'[x] = [stamp |-> t, type |-> h.type, ctrl |-> infos[h.info].ctrl]
        BY <1>6, <1>9
      <4>5. /\ data'[bl] \in Seq(Nat) /\ h.num + 1 <= Len(data'[bl])
            /\ data'[bl][h.num + 1] = x
            /\ \A i \in 1..h.num : data'[bl][i] = data[bl][i]
        BY <1>12, <3>1
      <4> HIDE DEF new
      <4> QED
        BY <3>1, <3>2, <4>1, <4>2, <4>3, <4>4, <4>5, StoredSound, ZenonT(30)
    <3> QED
      BY <1>7, <1>10, <2>2, <3>3
  <2> QED
    BY <1>14, <2>1, <2>2
<1>16. VersionsLinked'
  <2> SUFFICES ASSUME NEW b \in DOMAIN blocks, NEW m \in DOMAIN blocks,
                      NEW f \in Versions(b)', NEW g \in Versions(m)', f.next = m
               PROVE  m > b /\ (g.info # 0 => g.prev = b)
    BY <1>4 DEF VersionsLinked
  <2>1. PICK g0 \in Versions(m) : g0.info = g.info /\ g0.prev = g.prev
    BY <1>7, <1>10, <1>14, ZenonT(30) DEF Versions
  <2>2. PICK f0 \in Versions(b) : f0.next = f.next
    BY <1>7, <1>10, <1>14, SMTT(30) DEF Versions
  <2> QED
    BY <2>1, <2>2 DEF IInv, VersionsLinked
<1>17. WriterReady'
  <2>1. blocks[bl].num <= n /\ disk[bl].num <= n
    <3>1. blocks[bl].num \in Nat /\ disk[bl].num \in Nat
      <4>1. blocks[bl] \in Header /\ disk[bl] \in Header
        BY DEF IInv, TypeOK
      <4> QED
        BY <4>1 DEF Header
    <3> QED
      BY <1>6, <3>1 DEF n
  <2>2. HeadIsNewest'
    BY <1>4, <1>6, <1>7, <1>8, <2>1 DEF HeadIsNewest
  <2> QED
    BY <1>4, <1>6, <1>7, <1>8, <2>2 DEF WriterReady
<1> QED
  BY <1>13, <1>15, <1>16, <1>17 DEF IInv

-----------------------------------------------------------------------------
\* A new block, its header and its control info.
LEMMA AllocHeaderKeepsIInv ==
    ASSUME IInv, AllocHeader
    PROVE  IInv'
<1> DEFINE first    == w.block = 0
           newInfo  == first \/ infos[w.head.info].ctrl # w.ctrl
           headroom == IF first THEN 0
                       ELSE HeaderUnits(w.size) + IF newInfo THEN InfoUnits ELSE 0
           newFile  == first \/ files[w.head.file] + headroom > FileLimit
           addInfo  == newInfo \/ newFile
           f        == IF newFile THEN DataFileFor(headroom) ELSE w.head.file
           fileSize == IF f > Len(files) THEN CookieUnits ELSE files[f]
           header   == NewHeader(w.size, w.type, f)
           info     == IF addInfo THEN Len(infos) + 1 ELSE w.head.info
           made     == [w EXCEPT !.fresh = Len(blocks) + 1, !.freshInfo = info]
           full     == [header EXCEPT !.info = info]
           added    == [ctrl |-> w.ctrl, file |-> f]
           size     == fileSize + HeaderUnits(w.size)
                         + IF addInfo THEN InfoUnits ELSE 0
<1>0. PICK L \in Nat : L = Len(blocks) + 1
  BY DEF IInv, TypeOK
<1>1. /\ w.pc = "alloc"
      /\ infos' = IF addInfo THEN Append(infos, added) ELSE infos
      /\ files' = [g \in 1..(IF f > Len(files) THEN f ELSE Len(files)) |->
                      IF g = f THEN size ELSE files[g]]
      /\ blocks' = Append(blocks, header)
      /\ disk' = Append(disk, header)
      /\ data' = Append(data, <<>>)
      /\ w' = IF first THEN SwitchHeader(made, full) ELSE [made EXCEPT !.pc = "link"]
      /\ UNCHANGED <<log, index>>
  BY DEF AllocHeader
<1>2. w \in OpenWriters /\ IsOpen
  BY <1>1, OpenType DEF IInv, IsOpen
<1>3. /\ w.size \in Nat \ {0} /\ w.type \in DbrType /\ w.ctrl \in Info
      /\ w.head \in Header /\ w.head.info \in Nat /\ w.head.file \in Nat
      /\ w.block \in Nat
  BY <1>2 DEF IInv, WriterReady, OpenWriters, Header
<1>4. ~first => /\ w.block \in DOMAIN blocks /\ HeadIsNewest
                /\ w.head \in Versions(w.block)
                /\ Explains(w.head, w.block)
                /\ w.head.info \in DOMAIN infos
                /\ w.head.file \in 1..Len(files)
  <2> SUFFICES ASSUME ~first
               PROVE  /\ w.block \in DOMAIN blocks /\ HeadIsNewest
                      /\ w.head \in Versions(w.block)
                      /\ Explains(w.head, w.block)
                      /\ w.head.info \in DOMAIN infos
                      /\ w.head.file \in 1..Len(files)
    OBVIOUS
  <2>1. w.block \in DOMAIN blocks /\ HeadIsNewest /\ w.head.info # 0
    BY <1>2 DEF IInv, WriterReady, HeadIsNewest
  <2>2. w.head \in Versions(w.block)
    BY <1>2 DEF Versions
  <2>3. /\ Explains(w.head, w.block) /\ w.head.info \in 0..Len(infos)
        /\ w.head.file \in 1..Len(files)
    BY <2>1, <2>2 DEF IInv, VersionsSound
  <2>4. infos \in Seq([ctrl : Info, file : Nat])
    BY DEF IInv, TypeOK
  <2> QED
    BY <1>3, <2>1, <2>2, <2>3, <2>4
<1>5. f \in 1..Len(files) + 1 /\ f \in Nat
  <2>1. files \in Seq(Nat)
    BY DEF IInv, TypeOK
  <2>2. DataFileFor(headroom) \in 1..Len(files) + 1
    BY <2>1, DataFileForType
  <2>3. ~newFile => f \in 1..Len(files)
    BY <1>4
  <2> HIDE DEF newFile, headroom
  <2> QED
    BY <2>1, <2>2, <2>3
<1>6. /\ infos' \in Seq([ctrl : Info, file : Nat])
      /\ info \in DOMAIN infos' /\ info \in Nat \ {0}
      /\ infos'[info].ctrl = w.ctrl /\ infos'[info].file = f
      /\ Len(infos) <= Len(infos')
      /\ \A i \in DOMAIN infos : i \in DOMAIN infos' /\ infos'[i] = infos[i]
  <2>1. infos \in Seq([ctrl : Info, file : Nat])
    BY DEF IInv, TypeOK
  <2>2. CASE addInfo
    <3>1. added \in [ctrl : Info, file : Nat] /\ added.ctrl = w.ctrl /\ added.file = f
      BY <1>3, <1>5
    <3>2. infos' = Append(infos, added) /\ info = Len(infos) + 1
      BY <1>1, <2>2
    <3> HIDE DEF added, info, f
    <3> QED
      BY <2>1, <3>1, <3>2
  <2>3. CASE ~addInfo
    <3>1. /\ ~first /\ infos[w.head.info].ctrl = w.ctrl /\ f = w.head.file
          /\ infos' = infos /\ info = w.head.info
      BY <1>1, <2>3
    <3>2. infos[w.head.info].file = w.head.file /\ w.head.info # 0
      BY <1>4, <3>1 DEF Explains, HeadIsNewest
    <3> HIDE DEF first, info, f
    <3> QED
      BY <1>3, <1>4, <2>1, <3>1, <3>2
  <2> QED
    BY <2>2, <2>3
<1>7. /\ files' \in Seq(Nat) /\ Len(files) \in Nat /\ Len(files) <= Len(files')
      /\ f \in 1..Len(files')
  <2> HIDE DEF f
  <2> DEFINE n == IF f > Len(files) THEN f ELSE Len(files)
  <2>1. files \in Seq(Nat) /\ n \in Nat
    BY <1>5 DEF IInv, TypeOK
  <2>2. f \in 1..n => size \in Nat
    <3>1. f \in 1..n => fileSize \in Nat
      BY <1>5, <2>1 DEF CookieUnits
    <3>2. HeaderUnits(w.size) \in Nat /\ InfoUnits \in Nat
      BY <1>3 DEF HeaderUnits, InfoUnits
    <3> HIDE DEF fileSize, addInfo
    <3> QED
      BY <3>1, <3>2
  <2>3. \A g \in 1..n : g # f => files[g] \in Nat
    BY <1>5, <2>1
  <2> HIDE DEF size
  <2>4. files' = [g \in 1..n |-> IF g = f THEN size ELSE files[g]]
    BY <1>1 DEF f, size
  <2> HIDE DEF n
  <2>5. \A g \in 1..n : (IF g = f THEN size ELSE files[g]) \in Nat
    BY <2>2, <2>3
  <2>6. files' \in [1..n -> Nat]
    BY <2>4, <2>5
  <2>7. files' \in Seq(Nat) /\ Len(files') = n
    BY <2>1, <2>6, SeqOfFunction
  <2>8. Len(files) \in Nat /\ Len(files) <= n /\ f \in 1..n
    BY <1>5, <2>1 DEF n
  <2> QED
    BY <2>7, <2>8
<1>8. /\ header \in Header /\ header.num = 0 /\ header.cap = w.size
      /\ header.info = 0 /\ header.next = 0 /\ header.prev = 0
      /\ header.type = w.type /\ header.file = f
  BY <1>3, <1>5, TimeAssumption DEF NewHeader, Header
<1> HIDE DEF f, info, size
<1>9. /\ full \in Header /\ full.num = 0 /\ full.cap = w.size
      /\ full.info = info /\ full.next = 0 /\ full.prev = 0
      /\ full.type = w.type /\ full.file = f
  <2> HIDE DEF header
  <2> QED
    BY <1>6, <1>8 DEF Header
<1>10. header = NewHeader(header.cap, w.type, header.file)
  BY <1>8
<1> HIDE DEF header, full, first, newInfo, newFile, addInfo
<1>11. /\ blocks' \in Seq(Header) /\ disk' \in Seq(Header)
       /\ data' \in Seq(Seq(Nat))
       /\ Len(blocks') = L /\ Len(disk') = L /\ Len(data') = L
       /\ blocks'[L] = header /\ disk'[L] = header /\ data'[L] = <<>>
       /\ DOMAIN blocks' = DOMAIN blocks \cup {L}
       /\ L \notin DOMAIN blocks /\ L \in Nat \ {0}
       /\ \A b \in DOMAIN blocks : /\ blocks'[b] = blocks[b]
                                   /\ disk'[b] = disk[b]
                                   /\ data'[b] = data[b]
                                   /\ b < L /\ b \in DOMAIN data
  <2>1. /\ blocks \in Seq(Header) /\ disk \in Seq(Header)
        /\ data \in Seq(Seq(Nat))
        /\ Len(data) = Len(blocks) /\ Len(disk) = Len(blocks)
    BY DEF IInv, TypeOK
  <2>2. <<>> \in Seq(Nat)
    OBVIOUS
  <2> QED
    BY <1>0, <1>1, <1>8, <2>1, <2>2
<1>12. NextBufferSize(w.size) \in Nat \ {0}
  BY <1>3, NextBufferSizeType
<1>13. first =>
       /\ w' \in OpenWriters /\ w'.pc = "idle" /\ w'.sample = NoTime
       /\ w'.head = full /\ w'.block = L /\ w'.free = full.cap
       /\ w'.ctrl = w.ctrl /\ w'.type = w.type
       /\ w'.size = NextBufferSize(w.size)
  <2> SUFFICES ASSUME first
               PROVE  /\ w' \in OpenWriters /\ w'.pc = "idle" /\ w'.sample = NoTime
                      /\ w'.head = full /\ w'.block = L /\ w'.free = full.cap
                      /\ w'.ctrl = w.ctrl /\ w'.type = w.type
                      /\ w'.size = NextBufferSize(w.size)
    OBVIOUS
  <2>1. w.sample = NoTime
    BY <1>2 DEF IInv, WriterReady, first
  <2>2. /\ made \in OpenWriters /\ made.fresh = L /\ made.sample = NoTime
        /\ made.size = w.size /\ made.ctrl = w.ctrl /\ made.type = w.type
    BY <1>0, <1>2, <1>6, <1>11, <2>1 DEF OpenWriters
  <2>3. w' = SwitchHeader(made, full)
    BY <1>1
  <2> HIDE DEF made
  <2>4. full.cap \in Nat
    BY <1>9 DEF Header
  <2> QED
    BY <1>9, <1>11, <1>12, <2>2, <2>3, <2>4 DEF SwitchHeader, OpenWriters
<1>14. ~first =>
       /\ w' \in OpenWriters /\ w'.pc = "link"
       /\ w'.head = w.head /\ w'.block = w.block /\ w'.free = w.free
       /\ w'.ctrl = w.ctrl /\ w'.type = w.type /\ w'.size = w.size
       /\ w'.sample = w.sample /\ w'.fresh = L /\ w'.freshInfo = info
  BY <1>0, <1>1, <1>2, <1>6, <1>11 DEF OpenWriters
<1> HIDE DEF made
<1>15. TypeOK'
  BY <1>1, <1>6, <1>7, <1>11, <1>13, <1>14 DEF IInv, TypeOK
<1>16. /\ \A b \in DOMAIN blocks : Versions(b)' \subseteq Versions(b)
       /\ \A h \in Versions(L)' : h = header \/ (first /\ h = full)
  <2>1. w'.pc # "closed" /\ (first => w'.block = L /\ w'.head = full)
        /\ (~first => w'.block = w.block /\ w'.head = w.head /\ w.block # L)
    BY <1>4, <1>11, <1>13, <1>14
  <2>2. ASSUME NEW b \in DOMAIN blocks
        PROVE  Versions(b)' \subseteq Versions(b)
    <3>1. disk'[b] = disk[b] /\ blocks'[b] = blocks[b] /\ b # L
      BY <1>11
    <3> QED
      BY <1>2, <2>1, <3>1 DEF Versions, IsOpen
  <2>3. ASSUME NEW h \in Versions(L)'
        PROVE  h = header \/ (first /\ h = full)
    BY <1>11, <2>1, <2>3 DEF Versions
  <2> QED
    BY <2>2, <2>3
<1>17. \A b \in DOMAIN blocks : \A h \in Versions(b) :
          h \in Header /\ h.next # L
  <2>1. \A b \in DOMAIN blocks : \A h \in Versions(b) : h \in Header
    BY <1>3 DEF Versions, IInv, TypeOK
  <2>2. \A b \in DOMAIN blocks : \A h \in Versions(b) : h.next \in 0..Len(blocks)
    BY DEF IInv, VersionsSound
  <2>3. Len(blocks) \in Nat
    BY DEF IInv, TypeOK
  <2> QED
    BY <1>0, <2>1, <2>2, <2>3
<1>18. /\ Len(infos) \in Nat /\ Len(infos') \in Nat /\ Len(infos) <= Len(infos')
       /\ Len(blocks) \in Nat /\ Len(blocks') = Len(blocks) + 1
       /\ info \in 1..Len(infos')
  <2>1. Len(infos) \in Nat /\ Len(blocks) \in Nat
    BY DEF IInv, TypeOK
  <2>2. Len(infos') \in Nat /\ info \in 1..Len(infos') /\ Len(infos) <= Len(infos')
    BY <1>6
  <2> QED
    BY <1>0, <1>11, <2>1, <2>2
<1>19. VersionsSound'
  <2> SUFFICES ASSUME NEW b \in DOMAIN blocks', NEW h \in Versions(b)'
               PROVE  /\ Describes(h, b)' /\ Explains(h, b)'
                      /\ h.info \in 0..Len(infos') /\ h.next \in 0..Len(blocks')
                      /\ h.file \in 1..Len(files')
    BY DEF VersionsSound
  <2>1. CASE b \in DOMAIN blocks
    <3>1. h \in Versions(b) /\ h \in Header /\ b \in DOMAIN data
      BY <1>11, <1>16, <1>17, <2>1
    <3>2. /\ Describes(h, b) /\ Explains(h, b) /\ h.num <= Len(data[b])
          /\ h.info \in 0..Len(infos) /\ h.next \in 0..Len(blocks)
          /\ h.file \in 1..Len(files)
      BY <2>1, <3>1 DEF IInv, VersionsSound, Describes
    <3>3. Describes(h, b)' /\ Explains(h, b)'
      BY <1>1, <1>6, <1>11, <2>1, <3>1, <3>2, StillTrue
    <3> QED
      <4>1. h.info \in 0..Len(infos') /\ h.next \in 0..Len(blocks')
        BY <1>18, <3>2
      <4>2. h.file \in 1..Len(files')
        BY <1>7, <3>2
      <4> QED
        BY <3>3, <4>1, <4>2
  <2>2. CASE b = L
    <3>1. /\ h.num = 0 /\ h.cap = w.size /\ h.next = 0 /\ h.file = f
          /\ h.info \in {0, info}
      BY <1>8, <1>9, <1>16, <2>2
    <3>2. data'[b] = <<>> /\ 1..h.num = {}
      BY <1>11, <2>2, <3>1
    <3>3. Describes(h, b)'
      BY <1>3, <3>1, <3>2 DEF Describes
    <3>4. Explains(h, b)'
      BY <1>6, <3>1, <3>2 DEF Explains
    <3>5. h.info \in 0..Len(infos') /\ h.next \in 0..Len(blocks')
      BY <1>18, <3>1
    <3>6. h.file \in 1..Len(files')
      BY <1>7, <3>1
    <3> QED
      BY <3>3, <3>4, <3>5, <3>6
  <2> QED
    BY <1>11, <2>1, <2>2
<1>20. VersionsLinked'
  <2> SUFFICES ASSUME NEW b \in DOMAIN blocks', NEW n \in DOMAIN blocks',
                      NEW h \in Versions(b)', NEW g \in Versions(n)', h.next = n
               PROVE  n > b /\ (g.info # 0 => g.prev = b)
    BY DEF VersionsLinked
  <2>1. n # 0
    BY <1>11 DEF IInv, TypeOK
  <2>2. b \in DOMAIN blocks /\ h \in Versions(b)
    BY <1>8, <1>9, <1>11, <1>16, <2>1
  <2>3. n \in DOMAIN blocks /\ g \in Versions(n)
    BY <1>11, <1>16, <1>17, <2>2
  <2> QED
    BY <2>2, <2>3 DEF IInv, VersionsLinked
<1>21. WriterReady'
  <2>1. CASE first
    <3>1. /\ w'.block = L /\ w'.head = full /\ full.info = info /\ info # 0
          /\ L \in DOMAIN blocks' /\ blocks'[L].num = 0 /\ disk'[L].num = 0
          /\ full.num = 0 /\ L # 0
      BY <1>6, <1>8, <1>9, <1>11, <1>13, <2>1
    <3>2. HeadIsNewest'
      BY <3>1 DEF HeadIsNewest
    <3>3. /\ w'.free = full.cap /\ full.cap \in Nat /\ w'.size > 0
          /\ w'.pc = "idle" /\ w'.sample = NoTime
          /\ infos'[full.info].ctrl = w'.ctrl /\ full.type = w'.type
      BY <1>3, <1>6, <1>9, <1>12, <1>13, <2>1
    <3> QED
      BY <3>1, <3>2, <3>3 DEF WriterReady
  <2>2. CASE ~first
    <3>1. HeadIsNewest'
      BY <1>4, <1>11, <1>14, <2>2, SMTT(30) DEF HeadIsNewest
    <3>2. \A b \in DOMAIN blocks' : \A h \in Versions(b)' : h.next # L
      BY <1>8, <1>11, <1>16, <1>17, <2>2
    <3>3. FreshIsReady'
      <4>1. /\ w'.fresh = L /\ w'.freshInfo = info /\ w'.block = w.block
            /\ w'.ctrl = w.ctrl /\ w'.type = w.type
        BY <1>14, <2>2
      <4>2. L \in DOMAIN blocks' /\ L > w.block
        BY <1>3, <1>4, <1>11, <2>2
      <4>3. /\ blocks'[L] = header /\ disk'[L] = header
            /\ header = NewHeader(header.cap, w.type, header.file)
            /\ header.cap > 0 /\ header.file = f
        BY <1>3, <1>8, <1>10, <1>11
      <4>4. /\ info \in DOMAIN infos' /\ infos'[info].file = f
            /\ infos'[info].ctrl = w.ctrl
        BY <1>6
      <4> QED
        BY <3>2, <4>1, <4>2, <4>3, <4>4 DEF FreshIsReady
    <3>4. w.sample # NoTime =>
             infos'[w.head.info].ctrl = w.ctrl /\ w.head.type = w.type
      BY <1>2, <1>4, <1>6, <2>2 DEF IInv, WriterReady
    <3> QED
      BY <1>2, <1>3, <1>14, <2>2, <3>1, <3>3, <3>4 DEF IInv, WriterReady, first
  <2> QED
    BY <2>1, <2>2
<1> QED
  BY <1>15, <1>19, <1>20, <1>21 DEF IInv

-----------------------------------------------------------------------------
\* The invariant is inductive: it holds at first, and each step keeps it.
LEMMA NextIInv == IInv /\ [Next]_vars => IInv'
<1> SUFFICES ASSUME IInv, [Next]_vars
             PROVE  IInv'
  OBVIOUS
<1>1. ASSUME NEW ctrl \in Info, NEW type \in DbrType, NEW n \in Request,
             OpenWriter(ctrl, type, n)
      PROVE  IInv'
  BY <1>1, OpenWriterKeepsIInv
<1>2. ASSUME NEW t \in Time, AddSample(t)
      PROVE  IInv'
  BY <1>2, StoreKeepsIInv DEF AddSample, MayAdd
<1>3. ASSUME NEW t \in Time, AddToFull(t)
      PROVE  IInv'
  BY <1>3, AddToFullKeepsIInv
<1>4. CASE AllocHeader
  BY <1>4, AllocHeaderKeepsIInv
<1>5. CASE LinkHeader
  BY <1>5, LinkHeaderKeepsIInv
<1>6. CASE IndexHeader
  BY <1>6, IndexHeaderKeepsIInv
<1>7. CASE NewHeaderFails
  BY <1>7, NewHeaderFailsKeepsIInv
<1>8. CASE AddToNew
  <2>1. /\ w \in OpenWriters /\ IsOpen /\ w.pc = "add"
        /\ w.sample # NoTime /\ w.free > 0 /\ w.head.num = 0
    BY <1>8, OpenType DEF AddToNew, IInv, IsOpen, WriterReady
  <2>2. w.sample \in Time /\ Store(w.sample)
    BY <1>8, <2>1 DEF AddToNew, OpenWriters
  <2> QED
    BY <2>1, <2>2, StoreKeepsIInv
<1>9. CASE CloseHeader
  BY <1>9, CloseHeaderKeepsIInv
<1>10. CASE CloseIndex \/ CloseFails \/ Crash
  BY <1>10, ClosedKeepsIInv DEF CloseIndex, CloseFails, Crash
<1>11. ASSUME NEW f \in DOMAIN files, Flush(f)
       PROVE  IInv'
  BY <1>11, FlushKeepsIInv
<1>12. CASE UNCHANGED vars
  BY <1>12 DEF vars, IInv, TypeOK, VersionsSound, VersionsLinked, WriterReady,
               HeadIsNewest, FreshIsReady, Versions, Describes, Explains, Stamp,
               IsOpen
<1> QED
  BY <1>1, <1>2, <1>3, <1>4, <1>5, <1>6, <1>7, <1>8, <1>9, <1>10, <1>11, <1>12
  DEF Next, WriterStep

-----------------------------------------------------------------------------
\* In every state that can be reached each version of each header describes its
\* buffer and is linked soundly, and the writer is prepared for its next write:
\* the inductive invariant of DataWriter::add, addNewHeader and the destructor,
\* with their failures and with crashes.
THEOREM Invariance == Spec => []IInv
  BY InitIInv, NextIInv, PTL DEF Spec

\* Every variable keeps its type, for all bounds and buffer sizes.
THEOREM TypeCorrect == Spec => []TypeOK
<1>1. IInv => TypeOK
  BY DEF IInv
<1> QED
  BY <1>1, Invariance, PTL

\* Each header on disk describes the samples of its buffer, whichever write of
\* DataWriter.cpp came last, failed, or was lost in a crash.
THEOREM HeadersSound == Spec => []BufferSound
<1>1. IInv => BufferSound
  <2> SUFFICES ASSUME IInv, NEW b \in DOMAIN disk
               PROVE  Describes(disk[b], b)
    BY DEF BufferSound
  <2>1. b \in DOMAIN blocks
    BY DEF IInv, TypeOK
  <2> QED
    BY <2>1 DEF IInv, VersionsSound, Versions
<1> QED
  BY <1>1, Invariance, PTL

\* Links on disk lead to younger blocks, which link back.
THEOREM LinksAreSound == Spec => []LinksSound
<1>1. IInv => LinksSound
  <2> SUFFICES ASSUME IInv, NEW b \in DOMAIN disk, disk[b].next # 0
               PROVE  LET n == disk[b].next
                      IN  /\ n \in DOMAIN disk /\ n > b
                          /\ disk[n].info # 0 => disk[n].prev = b
    BY DEF LinksSound
  <2> DEFINE n == disk[b].next
  <2>1. /\ DOMAIN disk = DOMAIN blocks /\ Len(blocks) \in Nat
        /\ DOMAIN blocks = 1..Len(blocks)
    BY DEF IInv, TypeOK
  <2>2. b \in DOMAIN blocks /\ disk[b] \in Versions(b)
    BY <2>1 DEF Versions
  <2>3. n \in 0..Len(blocks)
    BY <2>2 DEF IInv, VersionsSound
  <2>4. n \in DOMAIN blocks
    BY <2>1, <2>3
  <2>5. disk[n] \in Versions(n)
    BY DEF Versions
  <2> QED
    BY <2>1, <2>2, <2>4, <2>5 DEF IInv, VersionsLinked
<1> QED
  BY <1>1, Invariance, PTL

\* The control info and the value type of a header on disk are those its
\* samples were added with.
THEOREM SamplesAreExplained == Spec => []SamplesExplained
<1>1. IInv => SamplesExplained
  <2> SUFFICES ASSUME IInv, NEW b \in DOMAIN disk
               PROVE  Explains(disk[b], b)
    BY DEF SamplesExplained
  <2>1. b \in DOMAIN blocks
    BY DEF IInv, TypeOK
  <2> QED
    BY <2>1 DEF IInv, VersionsSound, Versions
<1> QED
  BY <1>1, Invariance, PTL

-----------------------------------------------------------------------------
(* DataWriter implements SampleLog: its initial states map to the initial  *)
(* state of SampleLog, and each of its steps accepts a sample, makes       *)
(* samples durable, loses volatile ones, or changes nothing that SampleLog *)
(* knows of.                                                               *)

\* Steps that write no sample keep each sample in its one place.
LEMMA SameSamples ==
    ASSUME StoredOnce, UNCHANGED <<log, data>>
    PROVE  StoredOnce'
BY DEF StoredOnce

\* Overwrite changes one position.
LEMMA OverwriteElsewhere ==
    ASSUME NEW old \in Seq(Nat), NEW k \in Nat \ {0}, k <= Len(old) + 1, NEW x
    PROVE  \A i \in DOMAIN Overwrite(old, k, x) :
              /\ i = k => Overwrite(old, k, x)[i] = x
              /\ i # k => i \in DOMAIN old /\ Overwrite(old, k, x)[i] = old[i]
BY DEF Overwrite

\* A sample is written to a place of its own.
LEMMA StoreKeepsSamples ==
    ASSUME IInv, StoredOnce, NEW t \in Time, Store(t), IsOpen,
           w.block \in DOMAIN blocks, w.head.num <= Len(data[w.block])
    PROVE  StoredOnce'
<1> DEFINE k == w.head.num + 1
           x == Len(log) + 1
           new == [stamp |-> t, type |-> w.type, ctrl |-> w.ctrl]
           old == data[w.block]
           buffer == Overwrite(old, k, x)
<1>1. /\ w \in OpenWriters /\ k \in Nat \ {0} /\ x \in Nat
      /\ log \in Seq(Sample) /\ data \in Seq(Seq(Nat)) /\ old \in Seq(Nat)
      /\ w.block \in DOMAIN data /\ k <= Len(old) + 1
  <2>1. /\ log \in Seq(Sample) /\ data \in Seq(Seq(Nat)) /\ w \in OpenWriters
        /\ w.block \in DOMAIN data
    BY OpenType DEF IInv, TypeOK
  <2>2. w.head.num \in Nat
    BY <2>1 DEF OpenWriters, Header
  <2>3. old \in Seq(Nat)
    BY <2>1
  <2>4. Len(old) \in Nat
    BY <2>3
  <2>5. Len(log) \in Nat
    BY <2>1
  <2>6. k \in Nat \ {0} /\ k <= Len(old) + 1
    BY <2>2, <2>4
  <2>7. x \in Nat
    BY <2>5
  <2> HIDE DEF old, k, x
  <2> QED
    BY <2>1, <2>3, <2>6, <2>7
<1>2. log' = Append(log, new) /\ data' = [data EXCEPT ![w.block] = buffer]
  BY DEF Store
<1>3. /\ DOMAIN data' = DOMAIN data
      /\ \A b \in DOMAIN data : data'[b] = IF b = w.block THEN buffer ELSE data[b]
  BY <1>1, <1>2
<1>4. DOMAIN log' = DOMAIN log \cup {x} /\ x \notin DOMAIN log
  <2>1. /\ DOMAIN log = 1..Len(log) /\ Len(log) \in Nat
        /\ DOMAIN log' = 1..Len(log) + 1
    BY <1>1, <1>2, AppendProperties
  <2> QED
    BY <2>1
<1>5. \A i \in DOMAIN buffer : /\ i = k => buffer[i] = x
                               /\ i # k => i \in DOMAIN old /\ buffer[i] = old[i]
  <2> HIDE DEF old, k, x
  <2> QED
    BY <1>1, OverwriteElsewhere
<1> HIDE DEF buffer, x, k, old, new
<1>6. ASSUME NEW b \in DOMAIN data, NEW i \in DOMAIN data'[b]
      PROVE  \/ b = w.block /\ i = k /\ data'[b][i] = x
             \/ /\ ~(b = w.block /\ i = k)
                /\ i \in DOMAIN data[b] /\ data'[b][i] = data[b][i]
  BY <1>3, <1>5, <1>6 DEF old
<1> QED
  BY <1>3, <1>4, <1>6 DEF StoredOnce

-----------------------------------------------------------------------------
\* Each step keeps KeptSound.
LEMMA InitKept == Init => KeptSound
BY DEF Init, KeptSound, CountsGrow, StoredOnce

\* A header that is opened for adding has a block and counts what is there.
LEMMA HeadDescribed ==
    ASSUME IInv, IsOpen, w.block # 0
    PROVE  /\ w.block \in DOMAIN blocks /\ w.block \in DOMAIN data
           /\ w.head.num \in Nat /\ w.head.num <= Len(data[w.block])
           /\ blocks[w.block].num <= w.head.num
           /\ disk[w.block].num <= w.head.num
<1>1. w \in OpenWriters /\ HeadIsNewest
  BY OpenType DEF IInv, WriterReady
<1>2. w.head \in Versions(w.block) /\ w.block \in DOMAIN blocks
  BY <1>1 DEF HeadIsNewest, Versions
<1>3. Describes(w.head, w.block)
  BY <1>2 DEF IInv, VersionsSound
<1>4. w.head.num \in Nat
  BY <1>1 DEF OpenWriters, Header
<1>5. w.block \in DOMAIN data
  BY <1>2 DEF IInv, TypeOK
<1> QED
  BY <1>1, <1>2, <1>3, <1>4, <1>5 DEF HeadIsNewest, Describes

\* The block and the header of a writer that is to store a sample.
LEMMA StoreReady ==
    ASSUME IInv, w.pc \in {"idle", "add"}
    PROVE  IsOpen /\ w \in OpenWriters /\ w.block # 0
BY OpenType DEF IInv, WriterReady, IsOpen

LEMMA NextKept == IInv /\ KeptSound /\ [Next]_vars => KeptSound'
<1> SUFFICES ASSUME IInv, KeptSound, [Next]_vars
             PROVE  KeptSound'
  OBVIOUS
<1> USE DEF KeptSound
<1>0. /\ blocks \in Seq(Header) /\ disk \in Seq(Header) /\ Len(disk) = Len(blocks)
      /\ DOMAIN disk = DOMAIN blocks
      /\ \A b \in DOMAIN blocks : blocks[b].num \in Nat /\ disk[b].num \in Nat
  <2>1. blocks \in Seq(Header) /\ disk \in Seq(Header) /\ Len(disk) = Len(blocks)
    BY DEF IInv, TypeOK
  <2>2. DOMAIN disk = DOMAIN blocks
    BY <2>1
  <2>3. \A b \in DOMAIN blocks : blocks[b] \in Header /\ disk[b] \in Header
    BY <2>1, <2>2
  <2> QED
    BY <2>1, <2>2, <2>3 DEF Header
<1>1. ASSUME NEW t \in Time, Store(t), w.pc \in {"idle", "add"}
      PROVE  KeptSound'
  <2>1. StoredOnce'
    BY <1>1, StoreReady, HeadDescribed, StoreKeepsSamples
  <2>2. CountsGrow'
    BY <1>1 DEF Store, CountsGrow
  <2> QED
    BY <2>1, <2>2
<1>2. CASE UNCHANGED <<log, data, blocks, disk>>
  BY <1>2, SameSamples DEF CountsGrow
<1>3. CASE AllocHeader
  <2> DEFINE L == Len(blocks) + 1
  <2>1. PICK header : /\ header.num = 0
                      /\ blocks' = Append(blocks, header)
                      /\ disk' = Append(disk, header)
                      /\ data' = Append(data, <<>>)
                      /\ log' = log
    BY <1>3 DEF AllocHeader, NewHeader
  <2>2. CountsGrow'
    <3>1. \A b \in DOMAIN disk' : \/ b \in DOMAIN disk /\ disk'[b] = disk[b]
                                                      /\ blocks'[b] = blocks[b]
                                  \/ disk'[b] = header /\ blocks'[b] = header
      BY <1>0, <2>1
    <3> QED
      BY <1>0, <2>1, <3>1 DEF CountsGrow
  <2>3. StoredOnce'
    <3>1. \A b \in DOMAIN data' : \A i \in DOMAIN data'[b] :
             b \in DOMAIN data /\ data'[b] = data[b]
      BY <2>1 DEF IInv, TypeOK
    <3> QED
      BY <2>1, <3>1 DEF StoredOnce
  <2> QED
    BY <2>2, <2>3
<1>4. ASSUME NEW head, UNCHANGED <<log, data, disk>>,
             blocks' = [blocks EXCEPT ![w.block] = head],
             w.block # 0 => disk[w.block].num <= head.num
      PROVE  KeptSound'
  <2>1. CountsGrow'
    BY <1>0, <1>4 DEF CountsGrow
  <2> QED
    BY <1>4, <2>1, SameSamples
<1>5. CASE LinkHeader
  <2>1. w.block # 0 => disk[w.block].num <= [w.head EXCEPT !.next = w.fresh].num
    BY <1>5, OpenType, HeadDescribed DEF LinkHeader, IsOpen, OpenWriters, Header
  <2> QED
    BY <1>4, <1>5, <2>1 DEF LinkHeader
<1>6. CASE CloseHeader
  <2>1. w.block # 0 => disk[w.block].num <= w.head.num
    BY <1>6, HeadDescribed DEF CloseHeader, IsOpen
  <2> QED
    BY <1>4, <1>6, <2>1 DEF CloseHeader
<1>7. ASSUME NEW f, Flush(f)
      PROVE  KeptSound'
  <2>1. CountsGrow'
    BY <1>0, <1>7 DEF Flush, CountsGrow
  <2> QED
    BY <1>7, <2>1, SameSamples DEF Flush
<1>8. CASE Crash
  <2>1. CountsGrow'
    BY <1>0, <1>8 DEF Crash, CountsGrow
  <2> QED
    BY <1>8, <2>1, SameSamples DEF Crash
<1>9. CASE AddToNew
  <2>1. w.sample \in Time /\ w.pc = "add"
    BY <1>9, OpenType DEF AddToNew, IInv, IsOpen, WriterReady, OpenWriters
  <2> QED
    BY <1>1, <1>9, <2>1 DEF AddToNew
<1>10. ASSUME NEW t \in Time, AddSample(t)
       PROVE  KeptSound'
  BY <1>1, <1>10 DEF AddSample, MayAdd
<1>11. ASSUME NEW ctrl \in Info, NEW type \in DbrType, NEW n \in Request,
              OpenWriter(ctrl, type, n)
       PROVE  KeptSound'
  BY <1>2, <1>11 DEF OpenWriter
<1>12. ASSUME NEW t \in Time, AddToFull(t)
       PROVE  KeptSound'
  BY <1>2, <1>12 DEF AddToFull
<1>13. CASE IndexHeader \/ NewHeaderFails \/ CloseIndex \/ CloseFails
  BY <1>2, <1>13 DEF IndexHeader, NewHeaderFails, CloseIndex, CloseFails
<1>14. CASE UNCHANGED vars
  BY <1>2, <1>14 DEF vars
<1> QED
  BY <1>3, <1>5, <1>6, <1>7, <1>8, <1>9, <1>10, <1>11, <1>12, <1>13, <1>14
  DEF Next, WriterStep

-----------------------------------------------------------------------------
\* Durable and Volatile, sample by sample.
LEMMA DurableMembers ==
    \A n : n \in Durable <=>
              \E b \in DOMAIN blocks : \E i \in 1..disk[b].num : n = data[b][i]
BY DEF Durable

LEMMA VolatileMembers ==
    \A n : n \in Volatile <=>
              \E b \in DOMAIN blocks :
                 \E i \in disk[b].num + 1..Counted(b) : n = data[b][i]
BY DEF Volatile

\* The samples that are counted are in their buffer.
LEMMA CountedType ==
    ASSUME IInv, CountsGrow, NEW b \in DOMAIN blocks
    PROVE  /\ disk[b].num \in Nat /\ blocks[b].num \in Nat /\ Counted(b) \in Nat
           /\ disk[b].num <= blocks[b].num /\ blocks[b].num <= Counted(b)
           /\ b \in DOMAIN data /\ Counted(b) <= Len(data[b]) /\ Len(data[b]) \in Nat
<1>1. /\ blocks \in Seq(Header) /\ disk \in Seq(Header) /\ data \in Seq(Seq(Nat))
      /\ Len(disk) = Len(blocks) /\ Len(data) = Len(blocks)
  BY DEF IInv, TypeOK
<1>2. b \in DOMAIN disk /\ b \in DOMAIN data
  BY <1>1
<1>3. disk[b] \in Header /\ blocks[b] \in Header /\ data[b] \in Seq(Nat)
  BY <1>1, <1>2
<1>4. disk[b].num \in Nat /\ blocks[b].num \in Nat /\ Len(data[b]) \in Nat
  <2>1. \A h \in Header : h.num \in Nat
    BY DEF Header
  <2>2. Len(data[b]) \in Nat
    BY <1>3
  <2> HIDE DEF Header
  <2> QED
    BY <1>3, <2>1, <2>2, Zenon
<1>5. disk[b].num <= blocks[b].num
  BY <1>2 DEF CountsGrow
<1>6. b # 0
  BY <1>1
<1>7. CASE IsOpen /\ b = w.block
  BY <1>2, <1>4, <1>5, <1>6, <1>7, HeadDescribed DEF Counted
<1>8. CASE ~(IsOpen /\ b = w.block)
  <2>1. Describes(blocks[b], b)
    BY DEF IInv, VersionsSound, Versions
  <2> QED
    BY <1>2, <1>4, <1>5, <1>8, <2>1 DEF Counted, Describes
<1> QED
  BY <1>7, <1>8

-----------------------------------------------------------------------------
\* A step that only counts fewer of the samples that are not on disk maps to
\* Lose, and one that counts the same samples to a stutter.
LEMMA CountsFewer ==
    ASSUME UNCHANGED <<log, data, disk>>, DOMAIN blocks' = DOMAIN blocks,
           \A b \in DOMAIN blocks : disk[b].num \in Nat,
           \A b \in DOMAIN blocks : Counted(b) \in Nat /\ Counted(b)' \in Nat
                                    /\ Counted(b)' <= Counted(b)
    PROVE  Abstract!Next
<1>1. Durable' = Durable
  BY DEF Durable
<1>2. Volatile' \subseteq Volatile
  <2>1. SUFFICES ASSUME NEW b \in DOMAIN blocks,
                        NEW i \in disk[b].num + 1..Counted(b)'
                 PROVE  data[b][i] \in Volatile
    BY DEF Volatile
  <2>2. disk[b].num \in Nat /\ Counted(b) \in Nat /\ Counted(b)' \in Nat
        /\ Counted(b)' <= Counted(b)
    OBVIOUS
  <2>3. i \in disk[b].num + 1..Counted(b)
    BY <2>2
  <2> QED
    BY <2>3, VolatileMembers
<1>3. Abstract!Lose(Volatile \ Volatile')
  BY <1>1, <1>2 DEF Abstract!Lose
<1> QED
  BY <1>3 DEF Abstract!Next

\* A stored sample becomes volatile: Accept.
LEMMA StoreAccepts ==
    ASSUME IInv, KeptSound, NEW t \in Time, Store(t), w.pc \in {"idle", "add"}
    PROVE  Abstract!Next
<1> DEFINE k == w.head.num + 1
           x == Len(log) + 1
           new == [stamp |-> t, type |-> w.type, ctrl |-> w.ctrl]
           old == data[w.block]
           buffer == Overwrite(old, k, x)
<1>1. /\ w \in OpenWriters /\ IsOpen /\ w.block \in DOMAIN blocks
      /\ w.block \in DOMAIN data /\ w.head.num \in Nat
      /\ disk[w.block].num <= w.head.num /\ w.head.num <= Len(old)
  BY StoreReady, HeadDescribed
<1>2. /\ log' = Append(log, new) /\ data' = [data EXCEPT ![w.block] = buffer]
      /\ UNCHANGED <<blocks, disk>>
  BY DEF Store
<1>3. w'.block = w.block /\ w'.head.num = k /\ IsOpen'
  <2>1. PICK h \in Header : h = w.head
    BY <1>1 DEF OpenWriters
  <2>2. HeadAfter(h, t) \in Header /\ HeadAfter(h, t).num = k
    BY <2>1, HeadAfterType
  <2>3. w' = [w EXCEPT !.pc = "idle", !.sample = NoTime, !.free = @ - 1,
                       !.head = HeadAfter(h, t)]
    BY <1>1, <2>1 DEF Store, OpenWriters, Header, HeadAfter
  <2>4. w'.block = w.block /\ w'.head = HeadAfter(h, t) /\ w'.pc = "idle"
    BY <1>1, <2>3 DEF OpenWriters
  <2>5. w'.head.num = k
    BY <2>2, <2>4
  <2> HIDE DEF k
  <2> QED
    BY <2>4, <2>5 DEF IsOpen
<1>4. new \in Sample
  BY <1>1 DEF OpenWriters, Sample
<1>5. old \in Seq(Nat) /\ Len(old) \in Nat
  BY <1>1 DEF IInv, TypeOK
<1>6. log \in Seq(Sample) /\ Len(log') = x /\ x \in Nat
  BY <1>2, <1>4 DEF IInv, TypeOK
<1>7. k \in Nat \ {0} /\ k <= Len(old) + 1
  BY <1>1, <1>5
<1> HIDE DEF x
<1>8. buffer[k] = x /\ \A i \in 1..k - 1 : buffer[i] = old[i]
  <2> HIDE DEF k, old
  <2> QED
    BY <1>5, <1>6, <1>7, OverwriteType
<1>9. ASSUME NEW b \in DOMAIN blocks
      PROVE  /\ Counted(b) \in Nat /\ disk[b].num \in Nat
             /\ disk[b].num <= Counted(b)
             /\ Counted(b)' = IF b = w.block THEN k ELSE Counted(b)
             /\ b = w.block => Counted(b) = k - 1
             /\ \A i \in 1..Counted(b) : data'[b][i] = data[b][i]
  <2>1. /\ Counted(b) \in Nat /\ disk[b].num \in Nat
        /\ disk[b].num <= blocks[b].num /\ blocks[b].num \in Nat
        /\ blocks[b].num <= Counted(b) /\ b \in DOMAIN data
    BY <1>9, CountedType DEF KeptSound
  <2>2. Counted(b)' = IF b = w.block THEN k ELSE Counted(b)
    BY <1>1, <1>2, <1>3 DEF Counted
  <2>3. b = w.block => Counted(b) = w.head.num
    BY <1>1 DEF Counted
  <2>4. b = w.block => Counted(b) = k - 1
    BY <1>1, <2>3
  <2>5. data'[b] = IF b = w.block THEN buffer ELSE data[b]
    BY <1>2, <2>1
  <2> HIDE DEF buffer, k
  <2>6. \A i \in 1..Counted(b) : data'[b][i] = data[b][i]
    BY <1>8, <2>4, <2>5
  <2> QED
    BY <2>1, <2>2, <2>4, <2>6
<1>10. data'[w.block] = buffer
  BY <1>1, <1>2
<1> HIDE DEF buffer, k, old, new
<1>11. Durable' = Durable
  <2>1. \A b \in DOMAIN blocks : \A i \in 1..disk[b].num : data'[b][i] = data[b][i]
    <3>1. SUFFICES ASSUME NEW b \in DOMAIN blocks, NEW i \in 1..disk[b].num
                   PROVE  data'[b][i] = data[b][i]
      OBVIOUS
    <3>2. i \in 1..Counted(b)
      BY <1>9
    <3> QED
      BY <1>9, <3>2
  <2>2. \A n : n \in Durable' <=>
           \E b \in DOMAIN blocks : \E i \in 1..disk[b].num : n = data'[b][i]
    BY <1>2 DEF Durable
  <2> QED
    BY <2>1, <2>2, DurableMembers, SMTT(30)
<1>12. Volatile' = Volatile \cup {x}
  <2>1. \A n : n \in Volatile' <=>
           \E b \in DOMAIN blocks :
              \E i \in disk[b].num + 1..Counted(b)' : n = data'[b][i]
    BY <1>2 DEF Volatile
  <2>2. ASSUME NEW b \in DOMAIN blocks, NEW i \in disk[b].num + 1..Counted(b)'
        PROVE  data'[b][i] \in Volatile \cup {x}
    <3>1. \/ b = w.block /\ i = k
          \/ i \in disk[b].num + 1..Counted(b) /\ i \in 1..Counted(b)
      BY <1>7, <1>9
    <3>2. CASE b = w.block /\ i = k
      BY <1>8, <1>10, <3>2
    <3>3. CASE i \in disk[b].num + 1..Counted(b) /\ i \in 1..Counted(b)
      <4>1. data'[b][i] = data[b][i]
        BY <1>9, <3>3
      <4> QED
        BY <3>3, <4>1, VolatileMembers
    <3> QED
      BY <3>1, <3>2, <3>3
  <2>3. ASSUME NEW b \in DOMAIN blocks, NEW i \in disk[b].num + 1..Counted(b)
        PROVE  data[b][i] \in Volatile'
    <3>1. i \in 1..Counted(b) /\ i \in disk[b].num + 1..Counted(b)'
      BY <1>7, <1>9
    <3>2. data'[b][i] = data[b][i]
      BY <1>9, <3>1
    <3> QED
      BY <2>1, <3>1, <3>2
  <2>4. x \in Volatile'
    <3>1. PICK b \in DOMAIN blocks : b = w.block
      BY <1>1
    <3>2. k \in disk[b].num + 1..Counted(b)'
      BY <1>7, <1>9, <3>1
    <3> QED
      BY <1>8, <1>10, <2>1, <3>1, <3>2
  <2> QED
    BY <2>1, <2>2, <2>3, <2>4, VolatileMembers
<1>13. Abstract!Accept(new)
  BY <1>2, <1>6, <1>11, <1>12 DEF Abstract!Accept
<1> QED
  BY <1>4, <1>13 DEF Abstract!Next

\* What a flush passes on becomes durable: Save.
LEMMA FlushSaves ==
    ASSUME IInv, KeptSound, NEW f, Flush(f)
    PROVE  Abstract!Next
<1>1. /\ DOMAIN disk = DOMAIN blocks
      /\ UNCHANGED <<log, data, blocks, w>>
      /\ \A b \in DOMAIN blocks : disk'[b] \in {disk[b], blocks[b]}
  BY DEF Flush, IInv, TypeOK
<1>2. ASSUME NEW b \in DOMAIN blocks
      PROVE  /\ Counted(b) \in Nat /\ disk[b].num \in Nat /\ disk'[b].num \in Nat
             /\ disk[b].num <= disk'[b].num /\ disk'[b].num <= Counted(b)
             /\ Counted(b)' = Counted(b)
             /\ b \in DOMAIN data
             /\ \A i \in 1..Counted(b) : i \in DOMAIN data[b]
  <2>1. /\ Counted(b) \in Nat /\ disk[b].num \in Nat /\ blocks[b].num \in Nat
        /\ disk[b].num <= blocks[b].num /\ blocks[b].num <= Counted(b)
        /\ b \in DOMAIN data /\ Counted(b) <= Len(data[b]) /\ Len(data[b]) \in Nat
    BY <1>2, CountedType DEF KeptSound
  <2>2. DOMAIN data[b] = 1..Len(data[b])
    BY <2>1 DEF IInv, TypeOK
  <2>3. Counted(b)' = Counted(b)
    BY <1>1 DEF Counted, IsOpen
  <2>4. \A i \in 1..Counted(b) : i \in DOMAIN data[b]
    BY <2>1, <2>2
  <2> QED
    BY <1>1, <2>1, <2>3, <2>4
<1>3. \A n : n \in Durable' <=>
         \E b \in DOMAIN blocks : \E i \in 1..disk'[b].num : n = data[b][i]
  BY <1>1 DEF Durable
<1>4. \A n : n \in Volatile' <=>
         \E b \in DOMAIN blocks :
            \E i \in disk'[b].num + 1..Counted(b) : n = data[b][i]
  BY <1>1, <1>2 DEF Volatile
<1>5. ASSUME NEW b \in DOMAIN blocks, NEW i \in disk'[b].num + 1..Counted(b)
      PROVE  data[b][i] \in Volatile
  <2>1. i \in disk[b].num + 1..Counted(b)
    BY <1>2
  <2> QED
    BY <2>1, VolatileMembers
<1>6. ASSUME NEW b \in DOMAIN blocks, NEW i \in 1..disk[b].num
      PROVE  data[b][i] \in Durable'
  <2>1. i \in 1..disk'[b].num
    BY <1>2
  <2> QED
    BY <1>3, <2>1
<1>7. ASSUME NEW b \in DOMAIN blocks, NEW i \in disk[b].num + 1..Counted(b)
      PROVE  data[b][i] \in Durable' \/ data[b][i] \in Volatile'
  <2>1. i \in 1..disk'[b].num \/ i \in disk'[b].num + 1..Counted(b)
    BY <1>2
  <2> QED
    BY <1>3, <1>4, <2>1
<1>8. ASSUME NEW b \in DOMAIN blocks, NEW i \in 1..disk'[b].num,
             data[b][i] \notin Durable
      PROVE  data[b][i] \in Volatile /\ data[b][i] \notin Volatile'
  <2>1. i \in 1..Counted(b) /\ (i \in 1..disk[b].num \/ i \in disk[b].num + 1..Counted(b))
    BY <1>2
  <2>2. data[b][i] \in Volatile
    BY <1>8, <2>1, DurableMembers, VolatileMembers
  <2>3. ASSUME NEW c \in DOMAIN blocks, NEW j \in disk'[c].num + 1..Counted(c),
               data[b][i] = data[c][j]
        PROVE  FALSE
    <3>1. j \in 1..Counted(c)
      BY <1>2
    <3>2. b = c /\ i = j
      BY <1>2, <2>1, <2>3, <3>1 DEF KeptSound, StoredOnce
    <3> QED
      BY <1>2, <3>2
  <2> QED
    BY <1>4, <2>2, <2>3
<1>9. Volatile' \subseteq Volatile
  BY <1>4, <1>5
<1>10. Durable' = Durable \cup (Volatile \ Volatile')
  <2>1. Durable' \subseteq Durable \cup (Volatile \ Volatile')
    BY <1>3, <1>8
  <2>2. Durable \subseteq Durable'
    BY <1>6, DurableMembers
  <2>3. Volatile \ Volatile' \subseteq Durable'
    BY <1>7, VolatileMembers
  <2> QED
    BY <2>1, <2>2, <2>3
<1>11. Abstract!Save(Volatile \ Volatile')
  BY <1>1, <1>9, <1>10 DEF Abstract!Save
<1> QED
  BY <1>11 DEF Abstract!Next

\* A block with an empty header and no samples changes nothing: a stutter.
LEMMA AllocStutters ==
    ASSUME IInv, KeptSound, AllocHeader
    PROVE  UNCHANGED Abstract!vars
<1>0. PICK L \in Nat : L = Len(blocks) + 1
  BY DEF IInv, TypeOK
<1>1. PICK samples, file, info :
         LET header == NewHeader(samples, w.type, file)
             made   == [w EXCEPT !.fresh = Len(blocks) + 1, !.freshInfo = info]
         IN  /\ w.pc = "alloc"
             /\ blocks' = Append(blocks, header)
             /\ disk' = Append(disk, header)
             /\ data' = Append(data, <<>>)
             /\ log' = log
             /\ w' = IF w.block = 0
                     THEN SwitchHeader(made, [header EXCEPT !.info = info])
                     ELSE [made EXCEPT !.pc = "link"]
  BY Zenon DEF AllocHeader
<1> DEFINE header == NewHeader(samples, w.type, file)
           full   == [header EXCEPT !.info = info]
           made   == [w EXCEPT !.fresh = Len(blocks) + 1, !.freshInfo = info]
<1>2. header.num = 0 /\ full.num = 0
  BY DEF NewHeader
<1>3. w \in OpenWriters /\ IsOpen
  BY <1>1, OpenType DEF IInv, IsOpen
<1> HIDE DEF header, full
<1>4. /\ w.block = 0 => w'.pc # "closed" /\ w'.block = L /\ w'.head = full
      /\ w.block # 0 => w'.pc # "closed" /\ w'.block = w.block /\ w'.head = w.head
  <2> DEFINE Made(T) ==
                [pc : {"idle", "add", "alloc", "link", "index", "close"},
                 ctrl : Info, type : DbrType, block : Nat, head : Header,
                 fresh : Nat, freshInfo : T, free : Nat, size : Nat,
                 sample : Time \cup {NoTime}]
  <2>0. w \in Made(Nat \cup {info})
    BY <1>3 DEF OpenWriters
  <2>1. /\ made.fresh = L /\ made.block = w.block /\ made.head = w.head
        /\ made \in Made(Nat \cup {info})
    BY <1>0, <2>0
  <2>2. w' = IF w.block = 0 THEN SwitchHeader(made, full)
                            ELSE [made EXCEPT !.pc = "link"]
    BY <1>1 DEF header, full
  <2> HIDE DEF made
  <2>3. CASE w.block = 0
    BY <2>1, <2>2, <2>3 DEF SwitchHeader
  <2>4. CASE w.block # 0
    BY <2>1, <2>2, <2>4
  <2> QED
    BY <2>3, <2>4
<1>5. /\ DOMAIN blocks' = DOMAIN blocks \cup {L} /\ L \notin DOMAIN blocks
      /\ disk'[L] = header /\ blocks'[L] = header
      /\ 0 \notin DOMAIN blocks /\ L # 0
      /\ \A b \in DOMAIN blocks :
            disk'[b] = disk[b] /\ blocks'[b] = blocks[b] /\ data'[b] = data[b]
  <2>1. /\ blocks \in Seq(Header) /\ disk \in Seq(Header) /\ data \in Seq(Seq(Nat))
        /\ Len(data) = Len(blocks) /\ Len(disk) = Len(blocks)
    BY DEF IInv, TypeOK
  <2>2. /\ blocks' = Append(blocks, header) /\ disk' = Append(disk, header)
        /\ data' = Append(data, <<>>)
    BY <1>1 DEF header
  <2> QED
    BY <1>0, <2>1, <2>2
<1>6. ASSUME NEW b \in DOMAIN blocks
      PROVE  Counted(b)' = Counted(b)
  BY <1>3, <1>4, <1>5 DEF Counted, IsOpen
<1>7. Counted(L)' = 0
  <2>1. PICK block \in DOMAIN blocks' : block = L
    BY <1>5
  <2>2. w'.block = L => w'.head.num = 0
    BY <1>2, <1>3, <1>4, <1>5, HeadDescribed
  <2>3. blocks'[L].num = 0
    BY <1>2, <1>5
  <2> QED
    BY <2>2, <2>3 DEF Counted
<1>8. Durable' = Durable
  <2>1. 1..disk'[L].num = {}
    BY <1>2, <1>5
  <2> QED
    BY <1>5, <2>1 DEF Durable
<1>9. Volatile' = Volatile
  <2>1. disk'[L].num + 1..Counted(L)' = {}
    BY <1>2, <1>5, <1>7
  <2> QED
    BY <1>5, <1>6, <2>1 DEF Volatile
<1> QED
  BY <1>1, <1>8, <1>9 DEF Abstract!vars

-----------------------------------------------------------------------------
\* The initial states map to the initial state of SampleLog.
LEMMA InitMaps == Init => Abstract!Init
BY DEF Init, Abstract!Init, Durable, Volatile

\* A step after which the writer counts in each block what it did before, or
\* what is in the buffer of the file.
LEMMA WriterCountsFewer ==
    ASSUME IInv, KeptSound, UNCHANGED <<log, data, disk>>,
           DOMAIN blocks' = DOMAIN blocks,
           \A b \in DOMAIN blocks :
              Counted(b)' \in {Counted(b), blocks[b].num, disk[b].num}
    PROVE  Abstract!Next
<1>1. ASSUME NEW b \in DOMAIN blocks
      PROVE  /\ disk[b].num \in Nat /\ Counted(b) \in Nat /\ Counted(b)' \in Nat
             /\ Counted(b)' <= Counted(b)
  <2>1. /\ disk[b].num \in Nat /\ blocks[b].num \in Nat /\ Counted(b) \in Nat
        /\ disk[b].num <= blocks[b].num /\ blocks[b].num <= Counted(b)
    BY CountedType DEF KeptSound
  <2>2. \/ Counted(b)' = Counted(b) \/ Counted(b)' = blocks[b].num
        \/ Counted(b)' = disk[b].num
    OBVIOUS
  <2> QED
    BY <2>1, <2>2
<1> QED
  BY <1>1, CountsFewer

\* Each step maps to a step of SampleLog or to a stutter.
LEMMA NextMaps == IInv /\ KeptSound /\ [Next]_vars => [Abstract!Next]_Abstract!vars
<1> SUFFICES ASSUME IInv, KeptSound, [Next]_vars
             PROVE  Abstract!Next \/ UNCHANGED Abstract!vars
  OBVIOUS
<1>0. /\ 0 \notin DOMAIN blocks
      /\ IsOpen => w \in OpenWriters
  BY OpenType DEF IInv, TypeOK
<1>1. ASSUME NEW ctrl \in Info, NEW type \in DbrType, NEW n \in Request,
             OpenWriter(ctrl, type, n)
      PROVE  Abstract!Next
  <2>1. /\ ~IsOpen /\ UNCHANGED <<log, blocks, disk, data>>
        /\ w'.block # 0 => w'.head = blocks[w'.block]
    BY <1>1 DEF OpenWriter
  <2>2. \A b \in DOMAIN blocks : Counted(b)' = blocks[b].num
    BY <1>0, <2>1 DEF Counted
  <2> QED
    BY <2>1, <2>2, WriterCountsFewer
<1>2. ASSUME NEW t \in Time, AddSample(t)
      PROVE  Abstract!Next
  BY <1>2, StoreAccepts DEF AddSample, MayAdd
<1>3. ASSUME NEW t \in Time, AddToFull(t)
      PROVE  Abstract!Next
  <2>1. /\ UNCHANGED <<log, blocks, disk, data>> /\ IsOpen /\ IsOpen'
        /\ w'.block = w.block /\ w'.head = w.head
    BY <1>0, <1>3 DEF AddToFull, MayAdd, IsOpen, OpenWriters
  <2>2. \A b \in DOMAIN blocks : Counted(b)' = Counted(b)
    BY <2>1 DEF Counted
  <2> QED
    BY <2>1, <2>2, WriterCountsFewer
<1>4. CASE AllocHeader
  BY <1>4, AllocStutters
<1>5. CASE LinkHeader
  <2> DEFINE linked == [w.head EXCEPT !.next = w.fresh]
  <2>1. /\ IsOpen /\ w \in OpenWriters /\ UNCHANGED <<log, disk, data>>
        /\ blocks' = [blocks EXCEPT ![w.block] = linked]
        /\ w' = [w EXCEPT !.pc = "index", !.head = linked]
    BY <1>0, <1>5 DEF LinkHeader, IsOpen
  <2>2. linked.num = w.head.num
    BY <2>1 DEF OpenWriters, Header
  <2> HIDE DEF linked
  <2>3. IsOpen' /\ w'.block = w.block /\ w'.head = linked
    BY <2>1 DEF OpenWriters, IsOpen
  <2>4. DOMAIN blocks' = DOMAIN blocks /\ \A b \in DOMAIN blocks :
           b # w.block => blocks'[b] = blocks[b]
    BY <2>1 DEF IInv, TypeOK
  <2>5. \A b \in DOMAIN blocks : Counted(b)' = Counted(b)
    BY <2>1, <2>2, <2>3, <2>4 DEF Counted
  <2> QED
    BY <2>1, <2>4, <2>5, WriterCountsFewer
<1>6. CASE IndexHeader
  <2> DEFINE header == [blocks[w.fresh] EXCEPT !.info = w.freshInfo,
                                               !.prev = w.block]
  <2>1. /\ IsOpen /\ w \in OpenWriters /\ UNCHANGED <<log, blocks, disk, data>>
        /\ w' = SwitchHeader(w, header)
    BY <1>0, <1>6 DEF IndexHeader, IsOpen
  <2>2. w.fresh \in DOMAIN blocks /\ blocks[w.fresh] \in Header
    BY <1>6, <2>1 DEF IndexHeader, IInv, WriterReady, FreshIsReady, TypeOK
  <2>3. header.num = blocks[w.fresh].num
    BY <2>2 DEF Header
  <2> HIDE DEF header
  <2>4. IsOpen' /\ w'.block = w.fresh /\ w'.head = header
    BY <2>1 DEF SwitchHeader, OpenWriters, IsOpen
  <2>5. \A b \in DOMAIN blocks : Counted(b)' = blocks[b].num
    BY <2>1, <2>3, <2>4 DEF Counted
  <2> QED
    BY <2>1, <2>5, WriterCountsFewer
<1>7. CASE NewHeaderFails /\ w.sample # NoTime
  <2> DEFINE head == IF w.pc = "link" THEN [w.head EXCEPT !.next = w.fresh]
                                      ELSE w.head
  <2>1. /\ IsOpen /\ w \in OpenWriters /\ UNCHANGED <<log, blocks, disk, data>>
    BY <1>0, <1>7 DEF NewHeaderFails, IsOpen
  <2>2. IsOpen' /\ w'.block = w.block /\ w'.head = head
    BY <1>7, <2>1 DEF NewHeaderFails, OpenWriters, Header, IsOpen
  <2>3. head.num = w.head.num
    BY <2>1 DEF OpenWriters, Header
  <2> HIDE DEF head
  <2>4. \A b \in DOMAIN blocks : Counted(b)' = Counted(b)
    BY <2>1, <2>2, <2>3 DEF Counted
  <2> QED
    BY <2>1, <2>4, WriterCountsFewer
<1>8. CASE AddToNew
  <2>1. w.sample \in Time /\ w.pc = "add"
    BY <1>0, <1>8 DEF AddToNew, IInv, IsOpen, WriterReady, OpenWriters
  <2> QED
    BY <1>8, <2>1, StoreAccepts DEF AddToNew
<1>9. CASE CloseHeader
  <2>1. /\ IsOpen /\ w \in OpenWriters /\ UNCHANGED <<log, disk, data>>
        /\ blocks' = [blocks EXCEPT ![w.block] = w.head]
        /\ w' = [w EXCEPT !.pc = "close"]
    BY <1>0, <1>9 DEF CloseHeader, IsOpen
  <2>2. IsOpen' /\ w'.block = w.block /\ w'.head = w.head
    BY <2>1 DEF OpenWriters, IsOpen
  <2>3. DOMAIN blocks' = DOMAIN blocks /\ \A b \in DOMAIN blocks :
           b # w.block => blocks'[b] = blocks[b]
    BY <2>1 DEF IInv, TypeOK
  <2>4. \A b \in DOMAIN blocks : Counted(b)' = Counted(b)
    BY <2>1, <2>2, <2>3 DEF Counted
  <2> QED
    BY <2>1, <2>3, <2>4, WriterCountsFewer
<1>10. ASSUME w' = Closed, UNCHANGED <<log, blocks, disk, data>>
       PROVE  Abstract!Next
  <2>1. \A b \in DOMAIN blocks : Counted(b)' = blocks[b].num
    BY <1>10 DEF Counted, IsOpen, Closed
  <2> QED
    BY <1>10, <2>1, WriterCountsFewer
<1>11. CASE CloseIndex \/ CloseFails \/ (NewHeaderFails /\ w.sample = NoTime)
  BY <1>10, <1>11 DEF CloseIndex, CloseFails, NewHeaderFails
<1>12. CASE Crash
  <2>1. /\ UNCHANGED <<log, disk, data>> /\ DOMAIN blocks' = DOMAIN blocks
        /\ w' = Closed /\ blocks' = disk
    BY <1>12 DEF Crash, IInv, TypeOK
  <2>2. \A b \in DOMAIN blocks : Counted(b)' = disk[b].num
    BY <2>1 DEF Counted, IsOpen, Closed
  <2> QED
    BY <2>1, <2>2, WriterCountsFewer
<1>13. ASSUME NEW f \in DOMAIN files, Flush(f)
       PROVE  Abstract!Next
  BY <1>13, FlushSaves
<1>14. CASE UNCHANGED vars
  BY <1>14 DEF vars, Abstract!vars, Durable, Volatile, Counted, IsOpen
<1> QED
  BY <1>1, <1>2, <1>3, <1>4, <1>5, <1>6, <1>7, <1>8, <1>9, <1>11, <1>12, <1>13,
     <1>14
  DEF Next, WriterStep

-----------------------------------------------------------------------------
\* A header that is written never counts fewer samples than the one it replaces,
\* and no two places of the buffers hold the same sample, after any writes of
\* DataWriter.cpp, failures and crashes.
THEOREM KeptSoundly == Spec => []KeptSound
<1>1. Init => IInv /\ KeptSound
  BY InitIInv, InitKept
<1>2. IInv /\ KeptSound /\ [Next]_vars => (IInv /\ KeptSound)'
  BY NextIInv, NextKept
<1> QED
  BY <1>1, <1>2, PTL DEF Spec

\* DataWriter implements SampleLog: whatever fails and wherever the program dies,
\* an accepted sample is volatile until a header that counts it is on disk, and
\* from then on it is durable and never lost or overwritten.
THEOREM Refinement == Spec => ImplementsSampleLog
<1>1. Init => Abstract!Init
  BY InitMaps
<1>2. IInv /\ KeptSound /\ [Next]_vars => [Abstract!Next]_Abstract!vars
  BY NextMaps
<1> QED
  BY <1>1, <1>2, Invariance, KeptSoundly, PTL
  DEF Spec, ImplementsSampleLog, Abstract!Spec

-----------------------------------------------------------------------------
(* The index leads to every sample that a written header counts.           *)

\* What a written header counts keeps its stamp when a sample is stored.
LEMMA StoreKeepsStamps ==
    ASSUME IInv, NEW t \in Time, Store(t), w.pc \in {"idle", "add"},
           NEW b \in DOMAIN blocks, NEW i \in 1..blocks[b].num
    PROVE  Stamp(b, i)' = Stamp(b, i)
<1> DEFINE k == w.head.num + 1
           x == Len(log) + 1
           old == data[w.block]
           buffer == Overwrite(old, k, x)
           new == [stamp |-> t, type |-> w.type, ctrl |-> w.ctrl]
<1>1. /\ w \in OpenWriters /\ IsOpen /\ w.block \in DOMAIN blocks /\ w.block \in DOMAIN data
      /\ w.head.num \in Nat /\ blocks[w.block].num <= w.head.num
      /\ w.head.num <= Len(old)
  BY StoreReady, HeadDescribed
<1>2. /\ log \in Seq(Sample) /\ data \in Seq(Seq(Nat)) /\ b \in DOMAIN data
      /\ blocks[b].num \in Nat /\ old \in Seq(Nat)
  <2>1. log \in Seq(Sample) /\ data \in Seq(Seq(Nat)) /\ b \in DOMAIN data /\ blocks[b] \in Header
    BY DEF IInv, TypeOK
  <2> QED
    BY <1>1, <2>1 DEF Header
<1>3. Describes(blocks[b], b)
  BY DEF IInv, VersionsSound, Versions
<1>4. data[b][i] \in DOMAIN log /\ i \in 1..Len(data[b])
  <2>1. data[b] \in Seq(Nat) /\ Len(data[b]) \in Nat
    BY <1>2
  <2> QED
    BY <1>2, <1>3, <2>1 DEF Describes
<1>5. log' = Append(log, new) /\ data' = [data EXCEPT ![w.block] = buffer]
  BY DEF Store
<1>6. \A j \in DOMAIN log : log'[j] = log[j]
  <2> HIDE DEF new
  <2> QED
    BY <1>2, <1>5
<1>7. data'[b][i] = data[b][i]
  <2>1. CASE b # w.block
    BY <1>2, <1>5, <2>1
  <2>2. CASE b = w.block
    <3>1. i # k /\ k \in Nat \ {0} /\ k <= Len(old) + 1
      <4>1. Len(old) \in Nat
        BY <1>2
      <4>2. i \in Nat /\ i <= w.head.num
        BY <1>1, <1>2, <2>2
      <4> HIDE DEF old
      <4> QED
        BY <1>1, <4>1, <4>2
    <3>2. i \in DOMAIN old
      BY <1>2, <1>4, <2>2
    <3>3. i \in DOMAIN buffer
      <4> HIDE DEF old, k, x
      <4> QED
        BY <1>2, <3>1, <3>2 DEF Overwrite
    <3>4. buffer[i] = old[i]
      <4> HIDE DEF old, k, x
      <4> QED
        BY <1>2, <3>1, <3>3, OverwriteElsewhere
    <3>5. data'[b] = buffer
      BY <1>2, <1>5, <2>2
    <3> QED
      BY <2>2, <3>4, <3>5
  <2> QED
    BY <2>1, <2>2
<1> QED
  BY <1>4, <1>6, <1>7 DEF Stamp

\* A block that is indexed is found by all the stamps its header counts.
LEMMA IndexingLeads ==
    ASSUME IInv, index \in Seq(Record), w.pc \in {"index", "close"},
           index' = UpdateLastDatablock(index, w.head.begin_time, w.head.end_time, w.block)
    PROVE  /\ index' \in Seq(Record)
           /\ \A i \in 1..blocks[w.block].num : LeadsTo(index', w.block, Stamp(w.block, i))
           /\ \A b \in DOMAIN blocks : \A i \in 1..blocks[b].num :
                 LeadsTo(index, b, Stamp(b, i)) => LeadsTo(index', b, Stamp(b, i))
<1>1. w \in OpenWriters /\ IsOpen /\ w.block # 0
  BY OpenType DEF IInv, IsOpen, WriterReady
<1>2. /\ w.block \in DOMAIN blocks /\ w.head.num \in Nat /\ blocks[w.block].num <= w.head.num
      /\ w.head \in Header /\ w.block \in Nat
  BY <1>1, HeadDescribed DEF OpenWriters
<1>3. Describes(w.head, w.block)
  BY <1>1, <1>2 DEF IInv, VersionsSound, Versions
<1>4. w.head.begin_time \in Time /\ w.head.end_time \in Time
  BY <1>2 DEF Header
<1> DEFINE s == w.head.begin_time
           e == w.head.end_time
<1>5. /\ index' \in Seq(Record)
      /\ \A x \in Nat : s <= x /\ x <= e => LeadsTo(index', w.block, x)
      /\ \A c, x \in Nat : LeadsTo(index, c, x) => LeadsTo(index', c, x)
  <2> HIDE DEF s, e
  <2> QED
    BY <1>2, <1>4, UpdateLeads DEF s, e
<1>6. ASSUME NEW b \in DOMAIN blocks, NEW i \in 1..blocks[b].num
      PROVE  Stamp(b, i) \in Nat /\ blocks[b].num \in Nat /\ b \in Nat
  <2>1. Describes(blocks[b], b) /\ blocks[b] \in Header /\ b \in Nat /\ log \in Seq(Sample)
    BY DEF IInv, VersionsSound, Versions, TypeOK
  <2>2. data[b][i] \in DOMAIN log
    BY <2>1 DEF Describes
  <2>3. log[data[b][i]] \in Sample
    BY <2>1, <2>2
  <2> QED
    BY <2>1, <2>3, TimeAssumption DEF Sample, Stamp, Header
<1>7. ASSUME NEW i \in 1..blocks[w.block].num
      PROVE  s <= Stamp(w.block, i) /\ Stamp(w.block, i) <= e
  <2>1. blocks[w.block].num \in Nat /\ Stamp(w.block, i) \in Nat /\ i \in 1..w.head.num /\ w.head.num > 0
    BY <1>2, <1>6
  <2>2. s = Stamp(w.block, 1) /\ e = Stamp(w.block, w.head.num)
    BY <1>3, <2>1 DEF Describes
  <2>3. 1 \in 1..w.head.num /\ w.head.num \in 1..w.head.num
    BY <1>2, <2>1
  <2>4. /\ 1 < i => Stamp(w.block, 1) <= Stamp(w.block, i)
        /\ i < w.head.num => Stamp(w.block, i) <= Stamp(w.block, w.head.num)
    BY <1>3, <2>1, <2>3 DEF Describes
  <2>5. (i = 1 \/ 1 < i) /\ (i = w.head.num \/ i < w.head.num)
    BY <1>2, <2>1
  <2> QED
    BY <2>1, <2>2, <2>4, <2>5
<1>8. \A i \in 1..blocks[w.block].num : LeadsTo(index', w.block, Stamp(w.block, i))
  <2> HIDE DEF s, e
  <2> QED
    BY <1>2, <1>5, <1>6, <1>7
<1> QED
  BY <1>5, <1>6, <1>8

LEMMA InitIndex == Init => IndexSound
BY DEF Init, IndexSound

\* A step that neither changes the index nor makes a header count more.
LEMMA SameIndex ==
    ASSUME IndexSound, index' = index, DOMAIN blocks' = DOMAIN blocks,
           \A b \in DOMAIN blocks : \A i \in 1..blocks'[b].num :
              \/ /\ i \in 1..blocks[b].num /\ Stamp(b, i)' = Stamp(b, i)
                 /\ ~(w.pc \in {"index", "close"} /\ w.block = b)
              \/ w'.pc \in {"index", "close"} /\ w'.block = b
    PROVE  IndexSound'
<1> SUFFICES ASSUME ~MayFail, NEW b \in DOMAIN blocks, NEW i \in 1..blocks'[b].num
             PROVE  \/ LeadsTo(index, b, Stamp(b, i)')
                    \/ w'.pc \in {"index", "close"} /\ w'.block = b
  BY DEF IndexSound
<1> QED
  BY DEF IndexSound

LEMMA NextIndex == IInv /\ IndexSound /\ [Next]_vars => IndexSound'
<1> SUFFICES ASSUME IInv, IndexSound, [Next]_vars
             PROVE  IndexSound'
  OBVIOUS
<1>0. IsOpen => w \in OpenWriters
  BY OpenType DEF IInv
<1>1. ASSUME NEW t \in Time, Store(t), w.pc \in {"idle", "add"}
      PROVE  IndexSound'
  <2>1. blocks' = blocks /\ index' = index
    BY <1>1 DEF Store
  <2>2. ASSUME NEW b \in DOMAIN blocks, NEW i \in 1..blocks[b].num
        PROVE  Stamp(b, i)' = Stamp(b, i)
    BY <1>1, <2>2, StoreKeepsStamps
  <2>3. w.pc \notin {"index", "close"}
    BY <1>1
  <2> QED
    BY <2>1, <2>2, <2>3, SameIndex
\* nothing is written, and no block is waiting to be indexed
<1>2. ASSUME UNCHANGED <<log, blocks, data, index>>, w.pc \notin {"index", "close"}
      PROVE  IndexSound'
  BY <1>2, SameIndex DEF Stamp
\* failures
<1>3. ASSUME MayFail, index' = index
      PROVE  IndexSound'
  BY <1>3 DEF IndexSound
<1>4. ASSUME NEW ctrl \in Info, NEW type \in DbrType, NEW n \in Request,
             OpenWriter(ctrl, type, n)
      PROVE  IndexSound'
  BY <1>2, <1>4 DEF OpenWriter, IsOpen
<1>5. ASSUME NEW t \in Time, AddSample(t)
      PROVE  IndexSound'
  BY <1>1, <1>5 DEF AddSample, MayAdd
<1>6. ASSUME NEW t \in Time, AddToFull(t)
      PROVE  IndexSound'
  BY <1>2, <1>6 DEF AddToFull, MayAdd
<1>7. CASE AllocHeader
  <2>1. PICK header : /\ header.num = 0 /\ w.pc = "alloc"
                      /\ blocks' = Append(blocks, header)
                      /\ data' = Append(data, <<>>) /\ log' = log /\ index' = index
    <3>1. \A samples, type, file : NewHeader(samples, type, file).num = 0
      BY DEF NewHeader
    <3> QED
      BY <1>7, <3>1, Zenon DEF AllocHeader
  <2>2. blocks \in Seq(Header) /\ data \in Seq(Seq(Nat)) /\ Len(data) = Len(blocks)
    BY DEF IInv, TypeOK
  <2>3. PICK L \in Nat : L = Len(blocks) + 1
    BY <2>2
  <2>4. /\ DOMAIN blocks' = DOMAIN blocks \cup {L} /\ blocks'[L].num = 0
        /\ \A b \in DOMAIN blocks : blocks'[b] = blocks[b] /\ data'[b] = data[b]
    BY <2>1, <2>2, <2>3
  <2>5. \A b \in DOMAIN blocks : \A i : Stamp(b, i)' = Stamp(b, i)
    BY <2>1, <2>4 DEF Stamp
  <2>6. 1..blocks'[L].num = {}
    BY <2>4
  <2>7. ASSUME ~MayFail, NEW b \in DOMAIN blocks', NEW i \in 1..blocks'[b].num
        PROVE  LeadsTo(index, b, Stamp(b, i)')
    <3>1. b \in DOMAIN blocks /\ i \in 1..blocks[b].num
      BY <2>4, <2>6, <2>7
    <3>2. LeadsTo(index, b, Stamp(b, i))
      BY <2>1, <2>7, <3>1 DEF IndexSound
    <3> QED
      BY <2>5, <3>1, <3>2
  <2> QED
    BY <2>1, <2>7 DEF IndexSound
<1>8. CASE LinkHeader
  <2> DEFINE linked == [w.head EXCEPT !.next = w.fresh]
  <2>1. /\ w.pc = "link" /\ w \in OpenWriters /\ UNCHANGED <<log, data, index>>
        /\ blocks' = [blocks EXCEPT ![w.block] = linked]
        /\ w' = [w EXCEPT !.pc = "index", !.head = linked]
    BY <1>0, <1>8 DEF LinkHeader, IsOpen
  <2> HIDE DEF linked
  <2>2. w'.pc = "index" /\ w'.block = w.block
    BY <2>1 DEF OpenWriters
  <2>3. DOMAIN blocks' = DOMAIN blocks /\ \A b \in DOMAIN blocks :
           b # w.block => blocks'[b] = blocks[b]
    BY <2>1 DEF IInv, TypeOK
  <2> QED
    BY <2>1, <2>2, <2>3, SameIndex DEF Stamp
<1>9. ASSUME w.pc \in {"index", "close"}, UNCHANGED <<log, blocks, data>>,
             index' = UpdateLastDatablock(index, w.head.begin_time, w.head.end_time, w.block)
      PROVE  IndexSound'
  <2>1. /\ index' \in Seq(Record)
        /\ \A i \in 1..blocks[w.block].num : LeadsTo(index', w.block, Stamp(w.block, i))
        /\ \A b \in DOMAIN blocks : \A i \in 1..blocks[b].num :
              LeadsTo(index, b, Stamp(b, i)) => LeadsTo(index', b, Stamp(b, i))
    BY <1>9, IndexingLeads DEF IndexSound
  <2>2. \A b, i : Stamp(b, i)' = Stamp(b, i)
    BY <1>9 DEF Stamp
  <2> QED
    BY <1>9, <2>1, <2>2 DEF IndexSound
<1>10. CASE IndexHeader
  BY <1>9, <1>10 DEF IndexHeader
<1>11. CASE CloseIndex
  BY <1>9, <1>11 DEF CloseIndex
<1>12. CASE AddToNew
  <2>1. w.sample \in Time /\ w.pc = "add"
    BY <1>0, <1>12 DEF AddToNew, IInv, IsOpen, WriterReady, OpenWriters
  <2> QED
    BY <1>1, <1>12, <2>1 DEF AddToNew
<1>13. CASE CloseHeader
  <2>1. /\ w.pc = "idle" /\ w \in OpenWriters /\ UNCHANGED <<log, data, index>>
        /\ blocks' = [blocks EXCEPT ![w.block] = w.head]
        /\ w' = [w EXCEPT !.pc = "close"]
    BY <1>0, <1>13 DEF CloseHeader, IsOpen
  <2>2. w'.pc = "close" /\ w'.block = w.block
    BY <2>1 DEF OpenWriters
  <2>3. DOMAIN blocks' = DOMAIN blocks /\ \A b \in DOMAIN blocks :
           b # w.block => blocks'[b] = blocks[b]
    BY <2>1 DEF IInv, TypeOK
  <2> QED
    BY <2>1, <2>2, <2>3, SameIndex DEF Stamp
<1>14. CASE NewHeaderFails \/ CloseFails \/ Crash
  BY <1>3, <1>14 DEF NewHeaderFails, CloseFails, Crash
<1>15. ASSUME UNCHANGED <<log, blocks, data, index, w>> PROVE IndexSound'
  BY <1>15 DEF IndexSound, Stamp
<1>16. ASSUME NEW f \in DOMAIN files, Flush(f)
       PROVE  IndexSound'
  BY <1>15, <1>16 DEF Flush
<1>17. CASE UNCHANGED vars
  BY <1>15, <1>17 DEF vars
<1> QED
  BY <1>4, <1>5, <1>6, <1>7, <1>8, <1>10, <1>11, <1>12, <1>13, <1>14, <1>16, <1>17
  DEF Next, WriterStep

THEOREM IndexSoundly == Spec => []IndexSound
<1>1. IInv /\ IndexSound /\ [Next]_vars => IndexSound'
  BY NextIndex
<1> QED
  BY <1>1, InitIndex, Invariance, PTL DEF Spec

\* While no write fails, each sample that a closed writer has stored is found by
\* its time stamp: the records that insertDatablock cuts and adds cover all of
\* the range of a block, and keep leading to the blocks they led to.
THEOREM SamplesFindable == Spec => []DurableFindable
<1>1. IndexSound => DurableFindable
  BY DEF IndexSound, DurableFindable, IsOpen
<1> QED
  BY <1>1, IndexSoundly, PTL

-----------------------------------------------------------------------------
(* A block keeps the control info and the value type it was made for.      *)

\* Steps that write no sample, and after which each version of a header has the
\* control info and value type of one that was there before.
LEMMA LooksKept ==
    ASSUME InfosAgree, UNCHANGED <<log, infos, data>>, DOMAIN blocks' = DOMAIN blocks,
           \A b \in DOMAIN blocks : \A g \in Versions(b)' :
              \E h \in Versions(b) : g.type = h.type /\ g.info = h.info,
           \A b \in DOMAIN blocks : disk'[b].info # 0 => blocks'[b].info # 0,
           w'.pc \in {"link", "index"} => data[w'.fresh] = <<>>
    PROVE  InfosAgree'
<1>1. ASSUME NEW b \in DOMAIN blocks, NEW g \in Versions(b)'
      PROVE  FitsBuffer(g, b)'
  <2>1. PICK h \in Versions(b) : g.type = h.type /\ g.info = h.info
    OBVIOUS
  <2>2. FitsBuffer(h, b)
    BY DEF InfosAgree
  <2> QED
    BY <2>1, <2>2 DEF FitsBuffer
<1>2. ASSUME NEW b \in DOMAIN blocks, NEW g1 \in Versions(b)', NEW g2 \in Versions(b)'
      PROVE  g1.type = g2.type /\ (g1.info # 0 /\ g2.info # 0 => g1.info = g2.info)
  <2>1. PICK h1 \in Versions(b) : g1.type = h1.type /\ g1.info = h1.info
    OBVIOUS
  <2>2. PICK h2 \in Versions(b) : g2.type = h2.type /\ g2.info = h2.info
    OBVIOUS
  <2> QED
    BY <2>1, <2>2 DEF InfosAgree
<1> QED
  BY <1>1, <1>2 DEF InfosAgree

\* The same when each version is one that was there before.
LEMMA NoNewLooks ==
    ASSUME InfosAgree, UNCHANGED <<log, infos, data>>, DOMAIN blocks' = DOMAIN blocks,
           \A b \in DOMAIN blocks : Versions(b)' \subseteq Versions(b),
           \A b \in DOMAIN blocks : disk'[b].info # 0 => blocks'[b].info # 0,
           w'.pc \in {"link", "index"} => data[w'.fresh] = <<>>
    PROVE  InfosAgree'
<1>1. \A b \in DOMAIN blocks : \A g \in Versions(b)' :
         \E h \in Versions(b) : g.type = h.type /\ g.info = h.info
  OBVIOUS
<1> QED
  BY <1>1, LooksKept

LEMMA InitInfos == Init => InfosAgree
BY DEF Init, InfosAgree, Closed

\* What storing a sample leaves of the writer.
LEMMA StoreHead ==
    ASSUME IInv, NEW t \in Time, Store(t), w.pc \in {"idle", "add"}
    PROVE  /\ w'.pc = "idle" /\ w'.block = w.block /\ IsOpen'
           /\ w'.head.num = w.head.num + 1
           /\ w'.head.type = w.head.type /\ w'.head.info = w.head.info
<1>1. w \in OpenWriters /\ IsOpen
  BY StoreReady
<1>2. PICK h \in Header : h = w.head
  BY <1>1 DEF OpenWriters
<1>3. /\ HeadAfter(h, t) \in Header /\ HeadAfter(h, t).num = h.num + 1
      /\ HeadAfter(h, t).type = h.type /\ HeadAfter(h, t).info = h.info
  BY HeadAfterType
<1>4. w' = [w EXCEPT !.pc = "idle", !.sample = NoTime, !.free = @ - 1,
                     !.head = HeadAfter(h, t)]
  BY <1>1, <1>2 DEF Store, OpenWriters, Header, HeadAfter
<1>5. w'.block = w.block /\ w'.head = HeadAfter(h, t) /\ w'.pc = "idle"
  BY <1>1, <1>4 DEF OpenWriters
<1> QED
  BY <1>2, <1>3, <1>5 DEF IsOpen

\* A sample is added to a block with its own control info and value type.
LEMMA StoreKeepsInfos ==
    ASSUME IInv, KeptSound, InfosAgree, NEW t \in Time, Store(t), w.pc \in {"idle", "add"}
    PROVE  InfosAgree'
<1> DEFINE k == w.head.num + 1
           x == Len(log) + 1
           old == data[w.block]
           buffer == Overwrite(old, k, x)
           new == [stamp |-> t, type |-> w.type, ctrl |-> w.ctrl]
<1>1. /\ w \in OpenWriters /\ IsOpen /\ w.block \in DOMAIN blocks /\ w.block \in DOMAIN data
      /\ w.head.num \in Nat /\ w.head.num <= Len(old)
  BY StoreReady, HeadDescribed
<1>2. /\ log \in Seq(Sample) /\ data \in Seq(Seq(Nat)) /\ DOMAIN data = DOMAIN blocks
      /\ old \in Seq(Nat) /\ k \in Nat \ {0} /\ k <= Len(old) + 1
  <2>1. log \in Seq(Sample) /\ data \in Seq(Seq(Nat)) /\ DOMAIN data = DOMAIN blocks
    BY DEF IInv, TypeOK
  <2>2. old \in Seq(Nat) /\ Len(old) \in Nat
    BY <1>1, <2>1
  <2>3. w.head.num \in Nat /\ w.head.num <= Len(old)
    BY <1>1
  <2> HIDE DEF old
  <2>4. k \in Nat \ {0} /\ k <= Len(old) + 1
    BY <2>2, <2>3
  <2> QED
    BY <2>1, <2>2, <2>4
<1>3. /\ log' = Append(log, new) /\ data' = [data EXCEPT ![w.block] = buffer]
      /\ UNCHANGED <<infos, blocks, disk>>
  BY DEF Store
<1>4. /\ \A j \in DOMAIN log : log'[j] = log[j]
      /\ log'[x] = new /\ new.type = w.type /\ new.ctrl = w.ctrl
  <2>1. new.type = w.type /\ new.ctrl = w.ctrl
    OBVIOUS
  <2> HIDE DEF new
  <2> QED
    BY <1>2, <1>3, <2>1
<1>5. infos[w.head.info].ctrl = w.ctrl /\ w.head.type = w.type /\ w.head.info # 0
  BY <1>1 DEF IInv, WriterReady, HeadIsNewest
<1>6. \A b \in DOMAIN data : data'[b] = IF b = w.block THEN buffer ELSE data[b]
  BY <1>2, <1>3
<1>7. \A i \in DOMAIN buffer : /\ i = k => buffer[i] = x
                               /\ i # k => i \in DOMAIN old /\ buffer[i] = old[i]
  <2> HIDE DEF old, k, x
  <2> QED
    BY <1>2, OverwriteElsewhere
<1> HIDE DEF buffer, x, k, old, new
<1>8. ASSUME NEW b \in DOMAIN blocks, NEW i \in DOMAIN data'[b]
      PROVE  \/ b = w.block /\ data'[b][i] = x
             \/ i \in DOMAIN data[b] /\ data'[b][i] = data[b][i]
  BY <1>2, <1>6, <1>7, <1>8 DEF old
<1>9. /\ w'.pc = "idle" /\ w'.block = w.block /\ IsOpen'
      /\ w'.head.type = w.head.type /\ w'.head.info = w.head.info
  BY StoreHead
<1>10. ASSUME NEW b \in DOMAIN blocks, NEW g \in Versions(b)'
       PROVE  \E h \in Versions(b) : g.type = h.type /\ g.info = h.info
  BY <1>1, <1>3, <1>9, <1>10 DEF Versions
<1>11. w.head \in Versions(w.block)
  BY <1>1 DEF Versions
<1>12. ASSUME NEW b \in DOMAIN blocks, NEW g \in Versions(b)'
       PROVE  FitsBuffer(g, b)'
  <2>1. PICK h \in Versions(b) : g.type = h.type /\ g.info = h.info
    BY <1>10
  <2> SUFFICES ASSUME NEW i \in DOMAIN data'[b]
               PROVE  /\ h.type = log'[data'[b][i]].type
                      /\ h.info # 0 => infos[h.info].ctrl = log'[data'[b][i]].ctrl
    BY <1>3, <2>1 DEF FitsBuffer
  <2>2. CASE b = w.block /\ data'[b][i] = x
    <3>1. h.type = w.head.type /\ (h.info # 0 => h.info = w.head.info)
      BY <1>5, <1>11, <2>2 DEF InfosAgree
    <3> QED
      BY <1>4, <1>5, <2>2, <3>1
  <2>3. CASE i \in DOMAIN data[b] /\ data'[b][i] = data[b][i]
    <3>1. data[b][i] \in DOMAIN log
      BY <1>2, <2>3 DEF KeptSound, StoredOnce
    <3>2. FitsBuffer(h, b)
      BY DEF InfosAgree
    <3> QED
      BY <1>4, <2>3, <3>1, <3>2 DEF FitsBuffer
  <2> QED
    BY <1>8, <2>2, <2>3
<1>13. ASSUME NEW b \in DOMAIN blocks, NEW g1 \in Versions(b)', NEW g2 \in Versions(b)'
       PROVE  g1.type = g2.type /\ (g1.info # 0 /\ g2.info # 0 => g1.info = g2.info)
  <2>1. PICK h1 \in Versions(b) : g1.type = h1.type /\ g1.info = h1.info
    BY <1>10
  <2>2. PICK h2 \in Versions(b) : g2.type = h2.type /\ g2.info = h2.info
    BY <1>10
  <2> QED
    BY <2>1, <2>2 DEF InfosAgree
<1>14. w'.pc \notin {"link", "index"}
  BY <1>9
<1> QED
  BY <1>3, <1>12, <1>13, <1>14 DEF InfosAgree

\* Append leaves the elements that are there.
LEMMA AppendKeeps ==
    ASSUME NEW S, NEW s \in Seq(S), NEW x
    PROVE  \A i \in DOMAIN s : i \in DOMAIN Append(s, x) /\ Append(s, x)[i] = s[i]
<1> DEFINE T == S \cup {x}
<1>1. s \in [1..Len(s) -> S] /\ Len(s) \in Nat
  OBVIOUS
<1>2. s \in [1..Len(s) -> T]
  BY <1>1
<1>3. s \in Seq(T) /\ x \in T
  BY <1>1, <1>2
<1> HIDE DEF T
<1> QED
  BY <1>3

\* What addNewHeader makes.
LEMMA AllocMakes ==
    ASSUME IInv, AllocHeader
    PROVE  \E header, L :
             /\ header.info = 0 /\ header.num = 0
             /\ DOMAIN blocks' = DOMAIN blocks \cup {L} /\ L \notin DOMAIN blocks
             /\ blocks'[L] = header /\ disk'[L] = header /\ data'[L] = <<>>
             /\ \A b \in DOMAIN blocks : /\ blocks'[b] = blocks[b] /\ disk'[b] = disk[b]
                                         /\ data'[b] = data[b]
             /\ log' = log /\ index' = index
             /\ \A i \in DOMAIN infos : i \in DOMAIN infos' /\ infos'[i] = infos[i]
             /\ w.block = 0 => /\ w'.pc \in {"idle", "add"} /\ w'.block = L
                               /\ w'.head.type = header.type
             /\ w.block # 0 => /\ w'.pc = "link" /\ w'.block = w.block /\ w'.head = w.head
                               /\ w'.fresh = L
<1>0. PICK L \in Nat : L = Len(blocks) + 1
  BY DEF IInv, TypeOK
<1>1. PICK samples, file, info, added :
         LET header == NewHeader(samples, w.type, file)
             made   == [w EXCEPT !.fresh = Len(blocks) + 1, !.freshInfo = info]
         IN  /\ w.pc = "alloc"
             /\ blocks' = Append(blocks, header)
             /\ disk' = Append(disk, header)
             /\ data' = Append(data, <<>>)
             /\ log' = log /\ index' = index
             /\ infos' = Append(infos, added) \/ infos' = infos
             /\ w' = IF w.block = 0
                     THEN SwitchHeader(made, [header EXCEPT !.info = info])
                     ELSE [made EXCEPT !.pc = "link"]
  BY Zenon DEF AllocHeader
<1> DEFINE header == NewHeader(samples, w.type, file)
           full   == [header EXCEPT !.info = info]
           made   == [w EXCEPT !.fresh = Len(blocks) + 1, !.freshInfo = info]
<1>2. header.num = 0 /\ header.info = 0 /\ full.type = header.type
  BY DEF NewHeader
<1>3. w \in OpenWriters /\ IsOpen
  BY <1>1, OpenType DEF IInv, IsOpen
<1> HIDE DEF header, full
<1>4. /\ w.block = 0 => w'.pc \in {"idle", "add"} /\ w'.block = L /\ w'.head = full
      /\ w.block # 0 => /\ w'.pc = "link" /\ w'.block = w.block /\ w'.head = w.head
                        /\ w'.fresh = L
  <2> DEFINE Made(T) ==
                [pc : {"idle", "add", "alloc", "link", "index", "close"},
                 ctrl : Info, type : DbrType, block : Nat, head : Header,
                 fresh : Nat, freshInfo : T, free : Nat, size : Nat,
                 sample : Time \cup {NoTime}]
  <2>0. w \in Made(Nat \cup {info})
    BY <1>3 DEF OpenWriters
  <2>1. /\ made.fresh = L /\ made.block = w.block /\ made.head = w.head
        /\ made \in Made(Nat \cup {info})
    BY <1>0, <2>0
  <2>2. w' = IF w.block = 0 THEN SwitchHeader(made, full)
                            ELSE [made EXCEPT !.pc = "link"]
    BY <1>1 DEF header, full
  <2> HIDE DEF made
  <2>3. CASE w.block = 0
    BY <2>1, <2>2, <2>3 DEF SwitchHeader
  <2>4. CASE w.block # 0
    BY <2>1, <2>2, <2>4
  <2> QED
    BY <2>3, <2>4
<1>5. /\ DOMAIN blocks' = DOMAIN blocks \cup {L} /\ L \notin DOMAIN blocks
      /\ disk'[L] = header /\ blocks'[L] = header /\ data'[L] = <<>>
      /\ \A b \in DOMAIN blocks :
            disk'[b] = disk[b] /\ blocks'[b] = blocks[b] /\ data'[b] = data[b]
  <2>1. /\ blocks \in Seq(Header) /\ disk \in Seq(Header) /\ data \in Seq(Seq(Nat))
        /\ Len(data) = Len(blocks) /\ Len(disk) = Len(blocks)
    BY DEF IInv, TypeOK
  <2>2. /\ blocks' = Append(blocks, header) /\ disk' = Append(disk, header)
        /\ data' = Append(data, <<>>)
    BY <1>1 DEF header
  <2> QED
    BY <1>0, <2>1, <2>2
<1>6. \A i \in DOMAIN infos : i \in DOMAIN infos' /\ infos'[i] = infos[i]
  <2>1. infos \in Seq([ctrl : Info, file : Nat])
    BY DEF IInv, TypeOK
  <2>2. CASE infos' = Append(infos, added)
    BY <2>1, <2>2, AppendKeeps
  <2>3. CASE infos' = infos
    BY <2>3
  <2> QED
    BY <1>1, <2>2, <2>3
<1>7. log' = log /\ index' = index
  BY <1>1
<1> QED
  BY <1>2, <1>4, <1>5, <1>6, <1>7

LEMMA AllocKeepsInfos ==
    ASSUME IInv, InfosAgree, AllocHeader
    PROVE  InfosAgree'
<1>1. PICK header, L :
             /\ header.info = 0 /\ header.num = 0
             /\ DOMAIN blocks' = DOMAIN blocks \cup {L} /\ L \notin DOMAIN blocks
             /\ blocks'[L] = header /\ disk'[L] = header /\ data'[L] = <<>>
             /\ \A b \in DOMAIN blocks : /\ blocks'[b] = blocks[b] /\ disk'[b] = disk[b]
                                         /\ data'[b] = data[b]
             /\ log' = log /\ index' = index
             /\ \A i \in DOMAIN infos : i \in DOMAIN infos' /\ infos'[i] = infos[i]
             /\ w.block = 0 => /\ w'.pc \in {"idle", "add"} /\ w'.block = L
                               /\ w'.head.type = header.type
             /\ w.block # 0 => /\ w'.pc = "link" /\ w'.block = w.block /\ w'.head = w.head
                               /\ w'.fresh = L
  BY AllocMakes
<1>2. w.pc = "alloc" /\ IsOpen /\ w \in OpenWriters
  BY OpenType DEF AllocHeader, IInv, IsOpen
<1>3. w.block # 0 => w.block \in DOMAIN blocks
  BY <1>2, HeadDescribed
<1>4. 0 \notin DOMAIN blocks
  BY DEF IInv, TypeOK
<1>5. ASSUME NEW b \in DOMAIN blocks
      PROVE  Versions(b)' \subseteq Versions(b)
  BY <1>1, <1>2, <1>3 DEF Versions, IsOpen
<1>6. \A g \in Versions(L)' : g.type = header.type /\ (g.info # 0 => w.block = 0 /\ g = w'.head)
  BY <1>1, <1>3 DEF Versions
<1>7. ASSUME NEW b \in DOMAIN blocks, NEW h \in Versions(b)
      PROVE  FitsBuffer(h, b)'
  <2>1. FitsBuffer(h, b) /\ h.info \in 0..Len(infos)
    BY DEF InfosAgree, IInv, VersionsSound
  <2>2. h.info # 0 => infos'[h.info] = infos[h.info]
    <3>1. DOMAIN infos = 1..Len(infos) /\ Len(infos) \in Nat
      BY DEF IInv, TypeOK
    <3> QED
      BY <1>1, <2>1, <3>1
  <2> QED
    BY <1>1, <2>1, <2>2 DEF FitsBuffer
<1>8. ASSUME NEW b \in DOMAIN blocks', NEW h \in Versions(b)'
      PROVE  FitsBuffer(h, b)' /\ \A g \in Versions(b)' :
                /\ h.type = g.type
                /\ h.info # 0 /\ g.info # 0 => h.info = g.info
  <2>1. CASE b \in DOMAIN blocks
    BY <1>5, <1>7, <2>1 DEF InfosAgree
  <2>2. CASE b = L
    <3>1. FitsBuffer(h, b)'
      BY <1>1, <2>2 DEF FitsBuffer
    <3> QED
      BY <1>6, <2>2, <3>1
  <2> QED
    BY <1>1, <2>1, <2>2
<1>9. \A b \in DOMAIN blocks' : disk'[b].info # 0 => blocks'[b].info # 0
  BY <1>1 DEF InfosAgree
<1>10. w'.pc \in {"link", "index"} => data'[w'.fresh] = <<>>
  BY <1>1
<1> QED
  BY <1>8, <1>9, <1>10 DEF InfosAgree

LEMMA IndexKeepsInfos ==
    ASSUME IInv, InfosAgree, IndexHeader
    PROVE  InfosAgree'
<1> DEFINE header == [blocks[w.fresh] EXCEPT !.info = w.freshInfo, !.prev = w.block]
<1>1. /\ w.pc = "index" /\ w' = SwitchHeader(w, header)
      /\ UNCHANGED <<log, infos, files, blocks, disk, data>>
  BY DEF IndexHeader
<1>2. w \in OpenWriters /\ IsOpen
  BY <1>1, OpenType DEF IInv, IsOpen
<1>3. FreshIsReady /\ w.fresh \in DOMAIN blocks /\ data[w.fresh] = <<>>
  BY <1>1, <1>2 DEF IInv, WriterReady, FreshIsReady, InfosAgree
<1>4. header.type = blocks[w.fresh].type
  <2>1. blocks[w.fresh] \in Header
    BY <1>3 DEF IInv, TypeOK
  <2> QED
    BY <2>1 DEF Header
<1>5. blocks[w.fresh].info = 0 /\ disk[w.fresh] = blocks[w.fresh]
  <2>1. blocks[w.fresh] = NewHeader(blocks[w.fresh].cap, w.type, blocks[w.fresh].file)
    BY <1>3 DEF FreshIsReady
  <2> QED
    BY <1>3, <2>1 DEF FreshIsReady, NewHeader
<1> HIDE DEF header
<1>6. w'.block = w.fresh /\ w'.head = header /\ w'.pc \in {"idle", "add"}
  BY <1>1, <1>2 DEF SwitchHeader, OpenWriters
<1>7. \A b \in DOMAIN blocks : \A h \in Versions(b)' :
         h \in {disk[b], blocks[b]} \/ (b = w.fresh /\ h = header)
  BY <1>1, <1>6 DEF Versions
<1>8. \A b \in DOMAIN blocks : {disk[b], blocks[b]} \subseteq Versions(b)
  BY DEF Versions
<1>9. ASSUME NEW b \in DOMAIN blocks, NEW h \in Versions(b)'
      PROVE  FitsBuffer(h, b)' /\ \A g \in Versions(b)' :
                /\ h.type = g.type
                /\ h.info # 0 /\ g.info # 0 => h.info = g.info
  <2>1. CASE b # w.fresh
    <3>1. h \in Versions(b) /\ \A g \in Versions(b)' : g \in Versions(b)
      BY <1>7, <1>8, <2>1
    <3> QED
      BY <1>1, <3>1 DEF InfosAgree, FitsBuffer
  <2>2. CASE b = w.fresh
    <3>1. FitsBuffer(h, b)'
      BY <1>1, <1>3, <2>2 DEF FitsBuffer
    <3>2. \A g \in Versions(b)' : g.type = blocks[b].type /\ (g.info # 0 => g = header)
      BY <1>4, <1>5, <1>7, <2>2
    <3> QED
      BY <3>1, <3>2
  <2> QED
    BY <2>1, <2>2
<1> QED
  BY <1>1, <1>6, <1>9 DEF InfosAgree

LEMMA NextInfos == IInv /\ KeptSound /\ InfosAgree /\ [Next]_vars => InfosAgree'
<1> SUFFICES ASSUME IInv, KeptSound, InfosAgree, [Next]_vars
             PROVE  InfosAgree'
  OBVIOUS
<1>0. /\ IsOpen => w \in OpenWriters
      /\ 0 \notin DOMAIN blocks
      /\ DOMAIN disk = DOMAIN blocks
      /\ \A b \in DOMAIN blocks : disk[b].info # 0 => blocks[b].info # 0
  BY OpenType DEF IInv, TypeOK, InfosAgree
<1>1. ASSUME NEW ctrl \in Info, NEW type \in DbrType, NEW n \in Request,
             OpenWriter(ctrl, type, n)
      PROVE  InfosAgree'
  <2>1. /\ ~IsOpen /\ UNCHANGED <<log, infos, blocks, disk, data>>
        /\ w'.block # 0 => w'.head = blocks[w'.block]
        /\ w'.pc \in {"idle", "alloc"}
    BY <1>1 DEF OpenWriter
  <2>2. \A b \in DOMAIN blocks : Versions(b)' \subseteq Versions(b)
    BY <1>0, <2>1 DEF Versions
  <2> QED
    BY <1>0, <2>1, <2>2, NoNewLooks
<1>2. ASSUME NEW t \in Time, AddSample(t)
      PROVE  InfosAgree'
  BY <1>2, StoreKeepsInfos DEF AddSample, MayAdd
<1>3. ASSUME NEW t \in Time, AddToFull(t)
      PROVE  InfosAgree'
  <2>1. /\ UNCHANGED <<log, infos, blocks, disk, data>> /\ IsOpen /\ IsOpen'
        /\ w'.block = w.block /\ w'.head = w.head /\ w'.pc = "alloc"
    BY <1>0, <1>3 DEF AddToFull, MayAdd, IsOpen, OpenWriters
  <2>2. \A b \in DOMAIN blocks : Versions(b)' \subseteq Versions(b)
    BY <2>1 DEF Versions
  <2> QED
    BY <1>0, <2>1, <2>2, NoNewLooks
<1>4. CASE AllocHeader
  BY <1>4, AllocKeepsInfos
<1>5. CASE LinkHeader
  <2> DEFINE linked == [w.head EXCEPT !.next = w.fresh]
  <2>1. /\ w.pc = "link" /\ IsOpen /\ w \in OpenWriters /\ UNCHANGED <<log, infos, disk, data>>
        /\ blocks' = [blocks EXCEPT ![w.block] = linked]
        /\ w' = [w EXCEPT !.pc = "index", !.head = linked]
    BY <1>0, <1>5 DEF LinkHeader, IsOpen
  <2>2. linked.type = w.head.type /\ linked.info = w.head.info
    BY <2>1 DEF OpenWriters, Header
  <2>3. w.head.info # 0 /\ w.block \in DOMAIN blocks
    BY <2>1 DEF IInv, WriterReady, HeadIsNewest
  <2> HIDE DEF linked
  <2>4. w'.block = w.block /\ w'.head = linked /\ w'.fresh = w.fresh
    BY <2>1 DEF OpenWriters
  <2>5. DOMAIN blocks' = DOMAIN blocks /\ \A b \in DOMAIN blocks :
           blocks'[b] = IF b = w.block THEN linked ELSE blocks[b]
    BY <2>1 DEF IInv, TypeOK
  <2>6. w.head \in Versions(w.block)
    BY <2>1 DEF Versions
  <2>7. ASSUME NEW b \in DOMAIN blocks, NEW g \in Versions(b)'
        PROVE  \E h \in Versions(b) : g.type = h.type /\ g.info = h.info
    <3>1. g \in {disk[b], blocks[b]} \/ (b = w.block /\ g = linked)
      BY <2>1, <2>4, <2>5, <2>7 DEF Versions
    <3>2. {disk[b], blocks[b]} \subseteq Versions(b)
      BY DEF Versions
    <3> QED
      BY <2>2, <2>6, <3>1, <3>2
  <2>8. \A b \in DOMAIN blocks : disk'[b].info # 0 => blocks'[b].info # 0
    BY <1>0, <2>1, <2>2, <2>3, <2>5
  <2>9. data[w'.fresh] = <<>>
    BY <2>1, <2>4 DEF InfosAgree
  <2> QED
    BY <2>1, <2>5, <2>7, <2>8, <2>9, LooksKept
<1>6. CASE IndexHeader
  BY <1>6, IndexKeepsInfos
<1>7. CASE NewHeaderFails /\ w.sample # NoTime
  <2> DEFINE head == IF w.pc = "link" THEN [w.head EXCEPT !.next = w.fresh]
                                      ELSE w.head
  <2>1. /\ IsOpen /\ w \in OpenWriters /\ UNCHANGED <<log, infos, blocks, disk, data>>
    BY <1>0, <1>7 DEF NewHeaderFails, IsOpen
  <2>2. w'.pc = "idle" /\ w'.block = w.block /\ w'.head = head
    BY <1>7, <2>1 DEF NewHeaderFails, OpenWriters, Header
  <2>3. head.type = w.head.type /\ head.info = w.head.info
    BY <2>1 DEF OpenWriters, Header
  <2> HIDE DEF head
  <2>4. ASSUME NEW b \in DOMAIN blocks, NEW g \in Versions(b)'
        PROVE  \E h \in Versions(b) : g.type = h.type /\ g.info = h.info
    <3>1. g \in {disk[b], blocks[b]} \/ (b = w.block /\ g = head)
      BY <2>1, <2>2, <2>4 DEF Versions
    <3>2. {disk[b], blocks[b]} \subseteq Versions(b) /\ (b = w.block => w.head \in Versions(b))
      BY <2>1 DEF Versions
    <3> QED
      BY <2>3, <3>1, <3>2
  <2> QED
    BY <1>0, <2>1, <2>2, <2>4, LooksKept
<1>8. CASE AddToNew
  <2>1. w.sample \in Time /\ w.pc = "add"
    BY <1>0, <1>8 DEF AddToNew, IInv, IsOpen, WriterReady, OpenWriters
  <2> QED
    BY <1>8, <2>1, StoreKeepsInfos DEF AddToNew
<1>9. CASE CloseHeader
  <2>1. /\ w.pc = "idle" /\ IsOpen /\ w \in OpenWriters /\ UNCHANGED <<log, infos, disk, data>>
        /\ blocks' = [blocks EXCEPT ![w.block] = w.head]
        /\ w' = [w EXCEPT !.pc = "close"]
    BY <1>0, <1>9 DEF CloseHeader, IsOpen
  <2>2. w'.pc = "close" /\ w'.block = w.block /\ w'.head = w.head
    BY <2>1 DEF OpenWriters
  <2>3. w.head.info # 0 /\ w.block \in DOMAIN blocks
    BY <2>1 DEF IInv, WriterReady, HeadIsNewest
  <2>4. DOMAIN blocks' = DOMAIN blocks /\ \A b \in DOMAIN blocks :
           blocks'[b] = IF b = w.block THEN w.head ELSE blocks[b]
    BY <2>1 DEF IInv, TypeOK
  <2>5. \A b \in DOMAIN blocks : Versions(b)' \subseteq Versions(b)
    BY <2>1, <2>2, <2>4 DEF Versions
  <2>6. \A b \in DOMAIN blocks : disk'[b].info # 0 => blocks'[b].info # 0
    BY <1>0, <2>1, <2>3, <2>4
  <2> QED
    BY <2>1, <2>2, <2>4, <2>5, <2>6, NoNewLooks
<1>10. ASSUME w' = Closed, UNCHANGED <<log, infos, disk, data>>, blocks' \in {blocks, disk}
       PROVE  InfosAgree'
  <2>1. w'.pc = "closed" /\ ~IsOpen'
    BY <1>10 DEF Closed, IsOpen
  <2>2. \A b \in DOMAIN blocks : Versions(b)' \subseteq Versions(b)
    BY <1>10, <2>1 DEF Versions
  <2>3. DOMAIN blocks' = DOMAIN blocks
    BY <1>0, <1>10
  <2>4. \A b \in DOMAIN blocks : disk'[b].info # 0 => blocks'[b].info # 0
    BY <1>0, <1>10
  <2> QED
    BY <1>10, <2>1, <2>2, <2>3, <2>4, NoNewLooks
<1>11. CASE CloseIndex \/ CloseFails \/ (NewHeaderFails /\ w.sample = NoTime) \/ Crash
  BY <1>10, <1>11 DEF CloseIndex, CloseFails, NewHeaderFails, Crash
<1>12. ASSUME NEW f \in DOMAIN files, Flush(f)
       PROVE  InfosAgree'
  <2>1. /\ UNCHANGED <<log, infos, blocks, data, w>>
        /\ \A b \in DOMAIN blocks : disk'[b] \in {disk[b], blocks[b]}
    BY <1>0, <1>12 DEF Flush
  <2>2. \A b \in DOMAIN blocks : Versions(b)' \subseteq Versions(b)
    BY <2>1 DEF Versions, IsOpen
  <2>3. \A b \in DOMAIN blocks : disk'[b].info # 0 => blocks'[b].info # 0
    BY <1>0, <2>1
  <2>4. w'.pc \in {"link", "index"} => data[w'.fresh] = <<>>
    BY <2>1 DEF InfosAgree
  <2> QED
    BY <2>1, <2>2, <2>3, <2>4, NoNewLooks
<1>13. CASE UNCHANGED vars
  BY <1>13 DEF vars, InfosAgree, FitsBuffer, Versions, IsOpen
<1> QED
  BY <1>1, <1>2, <1>3, <1>4, <1>5, <1>6, <1>7, <1>8, <1>9, <1>11, <1>12, <1>13
  DEF Next, WriterStep

-----------------------------------------------------------------------------
(* What the writer leaves of what the reader has seen.                     *)

\* A step of the writer takes away neither samples nor control infos nor blocks,
\* and a header on disk keeps its looks and counts no less.
Grown ==
    /\ DOMAIN blocks \subseteq DOMAIN blocks' /\ Len(blocks) <= Len(blocks')
    /\ \A i \in DOMAIN log : i \in DOMAIN log' /\ log'[i] = log[i]
    /\ \A i \in DOMAIN infos : i \in DOMAIN infos' /\ infos'[i] = infos[i]
    /\ \A b \in DOMAIN blocks : /\ disk'[b].type = disk[b].type
                                /\ disk[b].info # 0 => disk'[b].info = disk[b].info
                                /\ disk[b].num <= disk'[b].num

LEMMA DiskTypes ==
    ASSUME TypeOK
    PROVE  /\ DOMAIN disk = DOMAIN blocks /\ DOMAIN data = DOMAIN blocks
           /\ Len(blocks) \in Nat /\ Len(disk) = Len(blocks)
           /\ DOMAIN blocks = 1 .. Len(blocks)
           /\ \A b \in DOMAIN blocks : disk[b] \in Header /\ disk[b].num \in Nat
<1>1. /\ DOMAIN disk = DOMAIN blocks /\ DOMAIN data = DOMAIN blocks
      /\ Len(blocks) \in Nat /\ Len(disk) = Len(blocks)
      /\ DOMAIN blocks = 1 .. Len(blocks)
      /\ \A b \in DOMAIN blocks : disk[b] \in Header
  BY DEF TypeOK
<1>2. \A h \in Header : h.num \in Nat
  BY DEF Header
<1> QED
  BY <1>1, <1>2

LEMMA WriterGrows == IInv /\ KeptSound /\ InfosAgree /\ [Next]_vars => Grown
<1> SUFFICES ASSUME IInv, KeptSound, InfosAgree, [Next]_vars
             PROVE  Grown
  OBVIOUS
<1>1. /\ DOMAIN disk = DOMAIN blocks
      /\ Len(blocks) \in Nat /\ Len(disk) = Len(blocks)
      /\ \A b \in DOMAIN blocks : disk[b].num \in Nat
  BY DiskTypes DEF IInv
\* nothing that counts here is written
<1>2. ASSUME UNCHANGED <<log, infos, disk>>, DOMAIN blocks' = DOMAIN blocks,
             Len(blocks') = Len(blocks)
      PROVE  Grown
  BY <1>1, <1>2 DEF Grown
<1>3. ASSUME NEW t \in Time, Store(t)
      PROVE  Grown
  <2> DEFINE new == [stamp |-> t, type |-> w.type, ctrl |-> w.ctrl]
  <2>1. /\ log' = Append(log, new) /\ UNCHANGED <<infos, blocks, disk>>
    BY <1>3 DEF Store
  <2>2. log \in Seq(Sample)
    BY DEF IInv, TypeOK
  <2> HIDE DEF new
  <2>3. \A i \in DOMAIN log : i \in DOMAIN log' /\ log'[i] = log[i]
    BY <2>1, <2>2, AppendKeeps
  <2> QED
    BY <1>1, <2>1, <2>3 DEF Grown
<1>4. CASE AllocHeader
  <2>1. PICK header, L :
             /\ DOMAIN blocks' = DOMAIN blocks \cup {L} /\ L \notin DOMAIN blocks
             /\ \A b \in DOMAIN blocks : disk'[b] = disk[b]
             /\ log' = log
             /\ \A i \in DOMAIN infos : i \in DOMAIN infos' /\ infos'[i] = infos[i]
    BY <1>4, AllocMakes
  <2>2. Len(blocks) <= Len(blocks')
    <3>2. PICK h : blocks' = Append(blocks, h)
      BY <1>4, Zenon DEF AllocHeader
    <3>3. blocks \in Seq(Header)
      BY DEF IInv, TypeOK
    <3>4. Len(Append(blocks, h)) = Len(blocks) + 1
      BY <3>3
    <3> QED
      BY <1>1, <3>2, <3>4
  <2> QED
    BY <1>1, <2>1, <2>2 DEF Grown
<1>5. ASSUME NEW f \in DOMAIN files, Flush(f)
      PROVE  Grown
  <2>1. /\ UNCHANGED <<log, infos, blocks>>
        /\ \A b \in DOMAIN blocks : disk'[b] \in {disk[b], blocks[b]}
    BY <1>1, <1>5 DEF Flush
  <2>2. ASSUME NEW b \in DOMAIN blocks
        PROVE  /\ blocks[b].type = disk[b].type
               /\ disk[b].info # 0 => blocks[b].info = disk[b].info
               /\ disk[b].num <= blocks[b].num
    <3>1. disk[b] \in Versions(b) /\ blocks[b] \in Versions(b)
      BY DEF Versions
    <3> QED
      BY <1>1, <3>1 DEF InfosAgree, KeptSound, CountsGrow
  <2> QED
    BY <1>1, <2>1, <2>2 DEF Grown
<1>6. ASSUME NEW h, blocks' = [blocks EXCEPT ![w.block] = h], UNCHANGED <<log, infos, disk>>
      PROVE  Grown
  <2>1. DOMAIN blocks' = DOMAIN blocks /\ Len(blocks') = Len(blocks)
    BY <1>6 DEF IInv, TypeOK
  <2> QED
    BY <1>2, <1>6, <2>1
<1>7. CASE LinkHeader \/ CloseHeader
  BY <1>6, <1>7 DEF LinkHeader, CloseHeader
<1>8. CASE Crash
  BY <1>1, <1>2, <1>8 DEF Crash
<1>9. CASE AddToNew
  <2>1. w.sample \in Time /\ w.pc = "add"
    BY <1>9, OpenType DEF AddToNew, IInv, IsOpen, WriterReady, OpenWriters
  <2> QED
    BY <1>3, <1>9, <2>1 DEF AddToNew
<1>10. ASSUME NEW t \in Time, AddSample(t) \/ AddToFull(t)
       PROVE  Grown
  BY <1>2, <1>3, <1>10 DEF AddSample, AddToFull
<1>11. ASSUME NEW ctrl \in Info, NEW type \in DbrType, NEW n \in Request,
              OpenWriter(ctrl, type, n)
       PROVE  Grown
  BY <1>2, <1>11 DEF OpenWriter
<1>12. CASE IndexHeader \/ CloseIndex \/ NewHeaderFails \/ CloseFails
  BY <1>2, <1>12 DEF IndexHeader, CloseIndex, NewHeaderFails, CloseFails
<1>13. CASE UNCHANGED vars
  BY <1>2, <1>13 DEF vars
<1> QED
  BY <1>4, <1>5, <1>7, <1>8, <1>9, <1>10, <1>11, <1>12, <1>13 DEF Next, WriterStep

\* The index leads to blocks that exist, after each step.
LEMMA NextChains ==
    ASSUME IInv, ChainsLead(index), [Next]_vars, Grown
    PROVE  ChainsLead(index)'
<1>1. index \in Chains(DOMAIN blocks)
  BY DEF ChainsLead, Chains
<1>2. ASSUME index' = index PROVE ChainsLead(index)'
  BY <1>2 DEF ChainsLead, Grown
<1>3. ASSUME w.pc \in {"index", "close"},
             index' = UpdateLastDatablock(index, w.head.begin_time, w.head.end_time, w.block)
      PROVE  ChainsLead(index)'
  <2>1. w \in OpenWriters /\ IsOpen /\ w.block # 0
    BY <1>3, OpenType DEF IInv, IsOpen, WriterReady
  <2>2. /\ w.block \in DOMAIN blocks /\ w.block \in Nat
        /\ w.head.begin_time \in Time /\ w.head.end_time \in Time
    <3>1. w.block \in DOMAIN blocks /\ w.head \in Header /\ w.block \in Nat
      BY <2>1, HeadDescribed DEF OpenWriters
    <3> QED
      BY <3>1 DEF Header
  <2> DEFINE new == UpdateLastDatablock(index, w.head.begin_time, w.head.end_time, w.block)
  <2>3. new \in Chains(DOMAIN blocks)
    BY <1>1, <2>2, UpdateChains
  <2> HIDE DEF new
  <2>4. index' = new
    BY <1>3 DEF new
  <2> QED
    BY <2>3, <2>4 DEF Chains, ChainsLead, Grown
<1>4. CASE IndexHeader \/ CloseIndex
  BY <1>3, <1>4 DEF IndexHeader, CloseIndex
<1>5. CASE Next /\ ~IndexHeader /\ ~CloseIndex
  <2>1. index' = index
    BY <1>5 DEF Next, WriterStep, OpenWriter, AddSample, AddToFull, AddToNew, Store,
                AllocHeader, LinkHeader, NewHeaderFails, CloseHeader, CloseFails, Flush, Crash
  <2> QED
    BY <1>2, <2>1
<1> QED
  BY <1>2, <1>4, <1>5 DEF vars

\* The reader does not mind what the writer does.
LEMMA WriterKeepsReader ==
    ASSUME IInv, TypeOK', ReaderIInv, ChainsLead(index)', Grown, r' = r
    PROVE  ReaderIInv'
<1>1. r \in Readers /\ ReaderHolds(r) /\ ReaderReady(r)
  BY DEF ReaderIInv, ReaderTypeOK
<1>2. ChainsLead(r.records)'
  BY <1>1 DEF ReaderHolds, ChainsLead, Grown
<1>3. r.block # 0 => HeaderHeld(r)'
  <2> HAVE r.block # 0
  <2>1. HeaderHeld(r)
    BY <1>1 DEF ReaderHolds
  <2>2. r.block \in DOMAIN blocks /\ r.block \in DOMAIN blocks'
    BY <2>1, DiskTypes DEF HeaderHeld, IInv, Grown
  <2>3. DOMAIN disk' = DOMAIN blocks' /\ disk'[r.block].num \in Nat
        /\ Len(blocks') \in Nat /\ Len(blocks) \in Nat
    <3>1. DOMAIN disk' = DOMAIN blocks' /\ disk'[r.block] \in Header /\ Len(blocks') \in Nat
      BY <2>2 DEF TypeOK
    <3>2. Len(blocks) \in Nat
      BY DiskTypes DEF IInv
    <3> QED
      BY <3>1, <3>2 DEF Header
  <2>4. r.head.info # 0
    BY <2>1 DEF HeaderHeld, IInv, TypeOK
  <2>5. r.head.num \in Nat /\ disk[r.block].num \in Nat
    BY <1>1, <2>2, DiskTypes DEF Readers, Header, IInv
  <2>6. r.head.num <= disk'[r.block].num
    BY <2>1, <2>2, <2>3, <2>5 DEF HeaderHeld, Grown
  <2>7. r.head.next \in 0 .. Len(blocks')
    BY <2>1, <2>3 DEF HeaderHeld, Grown
  <2> QED
    BY <2>1, <2>2, <2>3, <2>4, <2>6, <2>7 DEF HeaderHeld, Grown
<1>4. \A i \in DOMAIN r.out : r.out[i] \in DOMAIN log /\ r.out[i] \in DOMAIN log'
  BY <1>1 DEF ReaderHolds, Grown
<1>5. r.pc = "have" => log'[Last(r.out)] = log[Last(r.out)]
  <2> HAVE r.pc = "have"
  <2>1. r.out # <<>> /\ r.out \in Seq(Nat)
    BY <1>1 DEF ReaderReady, Readers
  <2>2. Len(r.out) \in DOMAIN r.out
    BY <2>1
  <2> QED
    BY <1>4, <2>2 DEF Last, Grown
<1>6. ReaderHolds(r)'
  BY <1>1, <1>2, <1>3, <1>4 DEF ReaderHolds
<1>7. ReaderReady(r)'
  BY <1>1, <1>5 DEF ReaderReady
<1> QED
  BY <1>1, <1>6, <1>7 DEF ReaderIInv, ReaderTypeOK

-----------------------------------------------------------------------------
(* The steps of the reader.                                                *)

LEMMA ReturnReads ==
    ASSUME IInv, KeptSound, InfosAgree, NEW rd \in Readers, ReaderHolds(rd), rd.block # 0,
           NEW i \in DOMAIN data[rd.block]
    PROVE  Return(rd, i) \in Readers /\ ReaderHolds(Return(rd, i)) /\ ReaderReady(Return(rd, i))
<1> DEFINE id == data[rd.block][i]
           new == Return(rd, i)
           have == [rd EXCEPT !.pc = "have", !.nested = 0, !.out = Append(@, id)]
           failed == [rd EXCEPT !.pc = "failed", !.nested = 0]
           next == [rd EXCEPT !.pc = "next", !.nested = @ - 1]
<1>1. HeaderHeld(rd) /\ rd.block \in DOMAIN blocks /\ rd.block \in DOMAIN data
  BY DiskTypes DEF ReaderHolds, HeaderHeld, IInv
<1>2. id \in DOMAIN log /\ id \in Nat
  <2>1. id \in DOMAIN log
    BY <1>1 DEF KeptSound, StoredOnce
  <2>2. log \in Seq(Sample)
    BY DEF IInv, TypeOK
  <2> HIDE DEF id
  <2> QED
    BY <2>1, <2>2
<1>3. log[id].ctrl = rd.ctrl /\ log[id].type = rd.head.type
  <2>1. FitsBuffer(disk[rd.block], rd.block)
    BY <1>1 DEF InfosAgree, Versions
  <2>2. 0 \notin DOMAIN infos
    BY DEF IInv, TypeOK
  <2>3. rd.head.info # 0
    BY <1>1, <2>2 DEF HeaderHeld
  <2> QED
    BY <1>1, <2>1, <2>3 DEF FitsBuffer, HeaderHeld
<1>4. rd.nested \in Nat
  BY DEF Readers
<1>5. new \in {have, failed} \/ (rd.nested > 0 /\ new = next)
  <2>1. PICK after \in BOOLEAN : after <=> rd.rec # 0 /\ log[id].stamp >= rd.records[rd.rec].s
    OBVIOUS
  <2>2. new = CASE rd.nested = 0 \/ after -> have
                [] rd.nested > 0 /\ rd.rec = 0 -> failed
                [] rd.nested > 0 /\ rd.rec # 0 /\ ~after -> next
    BY <2>1 DEF Return
  <2> HIDE DEF have, failed, next, new
  <2> QED
    BY <1>4, <2>2
<1> HIDE DEF new, id
<1>6. have \in Readers /\ ReaderHolds(have) /\ ReaderReady(have)
  <2> DEFINE out == Append(rd.out, id)
  <2>1. rd.out \in Seq(Nat)
    BY DEF Readers
  <2>2. /\ out \in Seq(Nat) /\ out # <<>> /\ Last(out) = id
        /\ \A k \in DOMAIN out : out[k] \in DOMAIN log
    <3>1. /\ out \in Seq(Nat) /\ Len(out) = Len(rd.out) + 1 /\ out[Len(rd.out) + 1] = id
          /\ \A k \in 1 .. Len(rd.out) : out[k] = rd.out[k]
          /\ Len(rd.out) \in Nat
      BY <1>2, <2>1
    <3>2. Len(<<>>) = 0 /\ Len(out) # 0
      BY <3>1
    <3>3. out # <<>>
      BY <3>2, Zenon
    <3>4. \A k \in DOMAIN rd.out : rd.out[k] \in DOMAIN log
      BY DEF ReaderHolds
    <3>5. \A k \in 1 .. Len(rd.out) + 1 : k \in 1 .. Len(rd.out) \/ k = Len(rd.out) + 1
      BY <3>1
    <3>6. \A k \in 1 .. Len(rd.out) : rd.out[k] \in DOMAIN log
      BY <2>1, <3>4
    <3> HIDE DEF out
    <3>7. DOMAIN out = 1 .. Len(rd.out) + 1 /\ Last(out) = id
      BY <3>1 DEF Last
    <3> QED
      BY <1>2, <3>1, <3>3, <3>5, <3>6, <3>7
  <2> HIDE DEF out
  <2>3. have = [rd EXCEPT !.pc = "have", !.nested = 0, !.out = out]
    BY DEF out
  <2> HIDE DEF have
  <2>4. /\ have \in Readers /\ have.pc = "have" /\ have.out = out
        /\ have.ctrl = rd.ctrl /\ have.head = rd.head /\ have.block = rd.block
        /\ have.rec = rd.rec /\ have.records = rd.records
    BY <2>2, <2>3 DEF Readers
  <2>5. ReaderReady(have)
    BY <1>3, <2>2, <2>4 DEF ReaderReady
  <2>6. ReaderHolds(have)
    BY <1>1, <2>2, <2>4 DEF ReaderHolds, HeaderHeld
  <2> QED
    BY <2>4, <2>5, <2>6
<1>7. failed \in Readers /\ ReaderHolds(failed) /\ ReaderReady(failed)
  <2>1. /\ failed \in Readers /\ failed.pc = "failed" /\ failed.out = rd.out
        /\ failed.ctrl = rd.ctrl /\ failed.head = rd.head /\ failed.block = rd.block
        /\ failed.rec = rd.rec /\ failed.records = rd.records
    BY DEF Readers
  <2> HIDE DEF failed
  <2> QED
    BY <2>1 DEF ReaderHolds, HeaderHeld, ReaderReady
<1>8. rd.nested > 0 => next \in Readers /\ ReaderHolds(next) /\ ReaderReady(next)
  <2> HAVE rd.nested > 0
  <2>1. rd.nested - 1 \in Nat
    BY <1>4
  <2>2. /\ next \in Readers /\ next.pc = "next" /\ next.out = rd.out
        /\ next.ctrl = rd.ctrl /\ next.head = rd.head /\ next.block = rd.block
        /\ next.rec = rd.rec /\ next.records = rd.records
    BY <2>1 DEF Readers
  <2> HIDE DEF next
  <2> QED
    BY <2>2 DEF ReaderHolds, HeaderHeld, ReaderReady
<1>9. new \in Readers /\ ReaderHolds(new) /\ ReaderReady(new)
  <2> HIDE DEF have, failed, next
  <2> QED
    BY <1>5, <1>6, <1>7, <1>8
<1> QED
  BY <1>9 DEF new

LEMMA HeaderRead ==
    ASSUME IInv, NEW rd \in Readers, ReaderHolds(rd), NEW b \in DOMAIN blocks
    PROVE  /\ WithHeader(rd, b) \in Readers
           /\ ReaderHolds(WithHeader(rd, b)) /\ ReaderReady(WithHeader(rd, b))
           /\ WithHeader(rd, b).pc \in {"failed", "search"}
           /\ WithHeader(rd, b).block # 0 \/ WithHeader(rd, b).pc = "failed"
<1> DEFINE new == disk[b]
           ctrl == IF rd.block = 0 \/ new.info # rd.head.info
                   THEN infos[new.info].ctrl ELSE rd.ctrl
           next == WithHeader(rd, b)
<1>1. CASE new.info = 0
  <2>1. next = [rd EXCEPT !.pc = "failed"]
    BY <1>1 DEF WithHeader
  <2> HIDE DEF next
  <2>2. /\ next \in Readers /\ next.pc = "failed" /\ next.out = rd.out
        /\ next.ctrl = rd.ctrl /\ next.head = rd.head /\ next.block = rd.block
        /\ next.rec = rd.rec /\ next.records = rd.records
    BY <2>1 DEF Readers
  <2>3. next \in Readers /\ ReaderHolds(next) /\ ReaderReady(next)
    BY <2>2 DEF ReaderHolds, HeaderHeld, ReaderReady
  <2> QED
    BY <2>2, <2>3 DEF next
<1>2. CASE new.info # 0
  <2>1. next = [rd EXCEPT !.pc = "search", !.block = b, !.head = new, !.ctrl = ctrl]
    BY <1>2 DEF WithHeader
  <2>2. /\ new \in Header /\ new.num \in Nat /\ b \in DOMAIN disk /\ b \in Nat /\ b # 0
        /\ new.info \in DOMAIN infos /\ new.next \in 0 .. Len(blocks)
    <3>1. new \in Versions(b)
      BY DEF Versions
    <3>2. new.info \in 0 .. Len(infos) /\ new.next \in 0 .. Len(blocks)
      BY <3>1 DEF IInv, VersionsSound
    <3>3. infos \in Seq([ctrl : Info, file : Nat])
      BY DEF IInv, TypeOK
    <3>4. new.info \in DOMAIN infos
      BY <1>2, <3>2, <3>3
    <3>5. new \in Header /\ new.num \in Nat /\ b \in DOMAIN disk /\ b \in Nat /\ b # 0
      BY DiskTypes DEF IInv
    <3> QED
      BY <3>2, <3>4, <3>5
  <2>3. ctrl = infos[new.info].ctrl /\ ctrl \in Info
    <3>1. rd.block # 0 => rd.ctrl = infos[rd.head.info].ctrl
      BY DEF ReaderHolds, HeaderHeld
    <3>2. \A i \in DOMAIN infos : infos[i] \in [ctrl : Info, file : Nat]
      <4> DEFINE T == [ctrl : Info, file : Nat]
      <4>1. infos \in Seq(T)
        BY DEF IInv, TypeOK
      <4> HIDE DEF T
      <4>2. \A i \in DOMAIN infos : infos[i] \in T
        BY <4>1
      <4> QED
        BY <4>2 DEF T
    <3>3. infos[new.info].ctrl \in Info
      <4> HIDE DEF new
      <4> QED
        BY <2>2, <3>2
    <3> QED
      BY <3>1, <3>3
  <2> HIDE DEF new, ctrl, next
  <2>4. /\ next \in Readers /\ next.pc = "search" /\ next.out = rd.out
        /\ next.ctrl = ctrl /\ next.head = new /\ next.block = b
        /\ next.rec = rd.rec /\ next.records = rd.records
    BY <2>1, <2>2, <2>3 DEF Readers
  <2>5. HeaderHeld(next)
    <3>1. new = disk[b] /\ new.num <= new.num
      BY <2>2 DEF new
    <3> QED
      BY <2>2, <2>3, <2>4, <3>1 DEF HeaderHeld
  <2>6. next \in Readers /\ ReaderHolds(next) /\ ReaderReady(next) /\ next.block # 0
    BY <2>2, <2>4, <2>5 DEF ReaderHolds, ReaderReady
  <2> QED
    BY <2>4, <2>6 DEF next
<1> QED
  BY <1>1, <1>2

-----------------------------------------------------------------------------
(* The binary search ends in the buffer, next to the goal.                 *)

LEMMA Midway ==
    ASSUME NEW n \in Nat \ {0}, NEW low \in 0 .. n - 1, NEW high \in 0 .. n - 1,
           NEW mid, mid = (low + high + 1) \div 2
    PROVE  /\ mid \in 0 .. n - 1
           /\ high - low > 1 => low < mid /\ mid < high
<1>1. low \in Nat /\ high \in Nat /\ low + high + 1 \in Nat
  OBVIOUS
<1>2. mid \in Nat /\ 2 * mid <= low + high + 1 /\ low + high + 1 < 2 * mid + 2
  BY <1>1
<1> QED
  BY <1>1, <1>2

\* The binary search in block b is the result of f for the whole buffer, where f
\* meets the equation of the search for each part of it.
IsSearch(f, b, goal) ==
    /\ BinarySearch(b, goal) = f[<<0, r.head.num - 1>>]
    /\ \A low, high \in 0 .. r.head.num - 1 :
          /\ f[<<low, high>>] \in [at : 0 .. r.head.num - 1, taken : BOOLEAN]
          /\ \E mid \in 0 .. r.head.num - 1, t \in Nat :
                /\ mid = (low + high + 1) \div 2 /\ t = Stamp(b, mid + 1)
                /\ f[<<low, high>>] =
                     CASE high - low <= 1 /\ t > goal  -> [at |-> low, taken |-> FALSE]
                       [] high - low <= 1 /\ t <= goal -> [at |-> mid, taken |-> TRUE]
                       [] high - low > 1 /\ t = goal   -> [at |-> mid, taken |-> TRUE]
                       [] high - low > 1 /\ t > goal   -> f[<<low, mid>>]
                       [] OTHER                        -> f[<<mid, high>>]

LEMMA SearchDefined ==
    ASSUME NEW b, NEW goal \in Nat, r.head.num \in Nat \ {0},
           \A i \in 1 .. r.head.num : Stamp(b, i) \in Nat
    PROVE  \E f : IsSearch(f, b, goal)
<1> DEFINE I == 0 .. r.head.num - 1
           S == I \X I
           V == [at : I, taken : BOOLEAN]
           e(f, range) ==
            LET low  == range[1]
                high == range[2]
                mid  == (low + high + 1) \div 2
                t    == Stamp(b, mid + 1)
            IN  CASE high - low <= 1 /\ t > goal  -> [at |-> low, taken |-> FALSE]
                  [] high - low <= 1 /\ t <= goal -> [at |-> mid, taken |-> TRUE]
                  [] high - low > 1 /\ t = goal   -> [at |-> mid, taken |-> TRUE]
                  [] high - low > 1 /\ t > goal   -> f[<<low, mid>>]
                  [] OTHER                        -> f[<<mid, high>>]
           E(f) == [range \in S |-> e(f, range)]
           search == CHOOSE f : f = E(f)
           width(range) == IF range[1] <= range[2] THEN range[2] - range[1] ELSE 0
           m == [range \in S |-> width(range)]
           F == [f \in [S -> V] |-> E(f)]
<1>1. BinarySearch(b, goal) = search[<<0, r.head.num - 1>>]
  BY DEF BinarySearch
<1> HIDE DEF search
<1>2. /\ r.head.num - 1 \in I /\ 0 \in I /\ I \subseteq Nat
      /\ \A i \in I : Stamp(b, i + 1) \in Nat
  OBVIOUS
<1>m. ASSUME NEW low \in I, NEW high \in I, NEW mid, mid = (low + high + 1) \div 2
      PROVE  mid \in I /\ (high - low > 1 => low < mid /\ mid < high)
  <2>1. PICK n \in Nat \ {0} : n = r.head.num
    OBVIOUS
  <2>2. low \in 0 .. n - 1 /\ high \in 0 .. n - 1
    BY <2>1
  <2>3. mid \in 0 .. n - 1 /\ (high - low > 1 => low < mid /\ mid < high)
    <3> HIDE DEF I
    <3> QED
      BY <1>m, <2>2, Midway
  <2> QED
    BY <2>1, <2>3
\* The step for a range, with its midpoint and the stamp there.
<1>3. ASSUME NEW low \in I, NEW high \in I
      PROVE  \E mid \in I, t \in Nat :
                /\ mid = (low + high + 1) \div 2
                /\ \A f : e(f, <<low, high>>) =
                     CASE high - low <= 1 /\ t > goal  -> [at |-> low, taken |-> FALSE]
                       [] high - low <= 1 /\ t <= goal -> [at |-> mid, taken |-> TRUE]
                       [] high - low > 1 /\ t = goal   -> [at |-> mid, taken |-> TRUE]
                       [] high - low > 1 /\ t > goal   -> f[<<low, mid>>]
                       [] OTHER                        -> f[<<mid, high>>]
  <2>1. PICK mid : mid = (low + high + 1) \div 2
    OBVIOUS
  <2>2. mid \in I /\ Stamp(b, mid + 1) \in Nat
    BY <1>2, <1>m, <2>1
  <2>3. PICK t \in Nat : t = Stamp(b, mid + 1)
    BY <2>2
  <2> QED
    BY <2>1, <2>2, <2>3
<1>4. ASSUME NEW f \in [S -> V], NEW range \in S
      PROVE  e(f, range) \in V
  <2>1. PICK low \in I, high \in I : range = <<low, high>>
    OBVIOUS
  <2>2. PICK mid \in I, t \in Nat :
                /\ mid = (low + high + 1) \div 2
                /\ \A h : e(h, <<low, high>>) =
                     CASE high - low <= 1 /\ t > goal  -> [at |-> low, taken |-> FALSE]
                       [] high - low <= 1 /\ t <= goal -> [at |-> mid, taken |-> TRUE]
                       [] high - low > 1 /\ t = goal   -> [at |-> mid, taken |-> TRUE]
                       [] high - low > 1 /\ t > goal   -> h[<<low, mid>>]
                       [] OTHER                        -> h[<<mid, high>>]
    <3> HIDE DEF e, I
    <3> QED
      BY <1>3
  <2>3. low \in Nat /\ high \in Nat
    BY <1>2
  <2>4. f[<<low, mid>>] \in V /\ f[<<mid, high>>] \in V
    OBVIOUS
  <2>5. [at |-> low, taken |-> FALSE] \in V /\ [at |-> mid, taken |-> TRUE] \in V
    OBVIOUS
  <2>6. e(f, <<low, high>>) \in V
    <3> HIDE DEF V, S, e, I
    <3> QED
      BY <2>2, <2>3, <2>4, <2>5
  <2> HIDE DEF e
  <2> QED
    BY <2>1, <2>6
<1>5. F \in [[S -> V] -> [S -> V]]
  <2> HIDE DEF V, e, S
  <2> QED
    BY <1>4
<1>6. m \in [S -> Nat]
  <2>1. \A low, high \in I : low \in Nat /\ high \in Nat /\ width(<<low, high>>) \in Nat
    BY <1>2
  <2>2. \A range \in S : width(range) \in Nat
    <3> TAKE range \in S
    <3>1. PICK low \in I, high \in I : range = <<low, high>>
      OBVIOUS
    <3> QED
      BY <2>1, <3>1
  <2> HIDE DEF S, width
  <2> QED
    BY <2>2
\* It looks at narrower ranges only.
<1>7. ASSUME NEW low \in I, NEW high \in I, high - low > 1,
             NEW mid, mid = (low + high + 1) \div 2
      PROVE  /\ <<low, mid>> \in S /\ m[<<low, mid>>] < m[<<low, high>>]
             /\ <<mid, high>> \in S /\ m[<<mid, high>>] < m[<<low, high>>]
  <2>1. mid \in I /\ low < mid /\ mid < high
    BY <1>m, <1>7
  <2>2. low \in Nat /\ high \in Nat /\ mid \in Nat
    BY <1>2, <2>1
  <2>3. mid - low < high - low /\ high - mid < high - low
    BY <2>1, <2>2
  <2>4. /\ <<low, mid>> \in S /\ <<mid, high>> \in S /\ <<low, high>> \in S
    BY <2>1
  <2>5. /\ m[<<low, mid>>] = mid - low
        /\ m[<<mid, high>>] = high - mid
        /\ m[<<low, high>>] = high - low
    BY <2>1, <2>2, <2>4
  <2> QED
    BY <2>3, <2>4, <2>5
<1>8. DependsBelow(F, m, S, V)
  <2> SUFFICES ASSUME NEW f \in [S -> V], NEW g \in [S -> V], NEW range \in S,
                      \A y \in S : m[y] < m[range] => f[y] = g[y]
               PROVE  F[f][range] = F[g][range]
    BY DEF DependsBelow
  <2>1. PICK low \in I, high \in I : range = <<low, high>>
    OBVIOUS
  <2>2. PICK mid \in I, t \in Nat :
                /\ mid = (low + high + 1) \div 2
                /\ \A h : e(h, <<low, high>>) =
                     CASE high - low <= 1 /\ t > goal  -> [at |-> low, taken |-> FALSE]
                       [] high - low <= 1 /\ t <= goal -> [at |-> mid, taken |-> TRUE]
                       [] high - low > 1 /\ t = goal   -> [at |-> mid, taken |-> TRUE]
                       [] high - low > 1 /\ t > goal   -> h[<<low, mid>>]
                       [] OTHER                        -> h[<<mid, high>>]
    <3> HIDE DEF e, I
    <3> QED
      BY <1>3
  <2>3. high - low > 1 => f[<<low, mid>>] = g[<<low, mid>>] /\ f[<<mid, high>>] = g[<<mid, high>>]
    <3> HIDE DEF m, S, I
    <3> QED
      BY <1>7, <2>1, <2>2
  <2>4. low \in Nat /\ high \in Nat
    BY <1>2
  <2>5. e(f, range) = e(g, range)
    <3> HIDE DEF e, S, I
    <3> QED
      BY <2>1, <2>2, <2>3, <2>4
  <2>6. F[f][range] = e(f, range) /\ F[g][range] = e(g, range)
    <3> HIDE DEF e, S, V
    <3> QED
      OBVIOUS
  <2> QED
    BY <2>5, <2>6
<1>9. \E f \in [S -> V] : f = F[f]
  <2>1. V # {}
    <3>1. [at |-> 0, taken |-> TRUE] \in V
      BY <1>2
    <3> QED
      BY <3>1
  <2> HIDE DEF S, V, m, F
  <2>2. Recursive(F, m, S, V)
    BY <1>5, <1>6, <1>8, <2>1 DEF Recursive
  <2> QED
    BY <2>2, RecursionDefines
<1>10. search = E(search)
  <2>1. PICK f \in [S -> V] : f = F[f]
    BY <1>9
  <2>2. f = E(f)
    BY <2>1
  <2> HIDE DEF E
  <2> QED
    BY <2>2 DEF search
\* There is no range of least width that it is wrong for.
<1> DEFINE Wrong == {range \in S : search[range] \notin V}
<1>11. Wrong = {}
  <2>1. SUFFICES ASSUME Wrong # {} PROVE FALSE
    OBVIOUS
  <2>2. PICK x \in Wrong : \A y \in S : m[y] < m[x] => y \notin Wrong
    <3>1. \A y \in S : m[y] \in Nat
      BY <1>6
    <3>2. Wrong \subseteq S
      OBVIOUS
    <3> HIDE DEF m, Wrong, S
    <3> QED
      BY <2>1, <3>1, <3>2, LeastOf
  <2>3. PICK low \in I, high \in I : x = <<low, high>>
    OBVIOUS
  <2>4. PICK mid \in I, t \in Nat :
                /\ mid = (low + high + 1) \div 2
                /\ \A h : e(h, <<low, high>>) =
                     CASE high - low <= 1 /\ t > goal  -> [at |-> low, taken |-> FALSE]
                       [] high - low <= 1 /\ t <= goal -> [at |-> mid, taken |-> TRUE]
                       [] high - low > 1 /\ t = goal   -> [at |-> mid, taken |-> TRUE]
                       [] high - low > 1 /\ t > goal   -> h[<<low, mid>>]
                       [] OTHER                        -> h[<<mid, high>>]
    <3> HIDE DEF e, I
    <3> QED
      BY <1>3
  <2>5. search[<<low, high>>] = e(search, <<low, high>>)
    <3>1. <<low, high>> \in S
      OBVIOUS
    <3> HIDE DEF e, S
    <3> QED
      BY <1>10, <3>1
  <2>6. high - low > 1 => search[<<low, mid>>] \in V /\ search[<<mid, high>>] \in V
    <3> HAVE high - low > 1
    <3>1. /\ <<low, mid>> \in S /\ m[<<low, mid>>] < m[<<low, high>>]
          /\ <<mid, high>> \in S /\ m[<<mid, high>>] < m[<<low, high>>]
      <4> HIDE DEF S, I, m
      <4> QED
        BY <1>7, <2>4
    <3>2. <<low, mid>> \notin Wrong /\ <<mid, high>> \notin Wrong
      <4> HIDE DEF m, Wrong, S
      <4> QED
        BY <2>2, <2>3, <3>1
    <3> HIDE DEF S, V
    <3> QED
      BY <3>1, <3>2
  <2>7. [at |-> low, taken |-> FALSE] \in V /\ [at |-> mid, taken |-> TRUE] \in V
    OBVIOUS
  <2>8. low \in Nat /\ high \in Nat
    BY <1>2
  <2>9. search[<<low, high>>] \in V
    <3> HIDE DEF V, S, e, I, Wrong
    <3> QED
      BY <2>4, <2>5, <2>6, <2>7, <2>8
  <2> QED
    BY <2>2, <2>3, <2>9
<1> HIDE DEF m, F, E, Wrong
<1>12. ASSUME NEW low \in I, NEW high \in I
       PROVE  \E mid \in I, t \in Nat :
                 /\ mid = (low + high + 1) \div 2 /\ t = Stamp(b, mid + 1)
                 /\ search[<<low, high>>] =
                      CASE high - low <= 1 /\ t > goal  -> [at |-> low, taken |-> FALSE]
                        [] high - low <= 1 /\ t <= goal -> [at |-> mid, taken |-> TRUE]
                        [] high - low > 1 /\ t = goal   -> [at |-> mid, taken |-> TRUE]
                        [] high - low > 1 /\ t > goal   -> search[<<low, mid>>]
                        [] OTHER                        -> search[<<mid, high>>]
  <2>1. PICK mid : mid = (low + high + 1) \div 2
    OBVIOUS
  <2>2. mid \in I /\ Stamp(b, mid + 1) \in Nat
    BY <1>2, <1>m, <2>1
  <2>3. PICK t \in Nat : t = Stamp(b, mid + 1)
    BY <2>2
  <2>4. search[<<low, high>>] = e(search, <<low, high>>)
    <3>1. <<low, high>> \in S
      OBVIOUS
    <3> HIDE DEF e, S
    <3> QED
      BY <1>10, <3>1 DEF E
  <2>5. e(search, <<low, high>>) =
           CASE high - low <= 1 /\ t > goal  -> [at |-> low, taken |-> FALSE]
             [] high - low <= 1 /\ t <= goal -> [at |-> mid, taken |-> TRUE]
             [] high - low > 1 /\ t = goal   -> [at |-> mid, taken |-> TRUE]
             [] high - low > 1 /\ t > goal   -> search[<<low, mid>>]
             [] OTHER                        -> search[<<mid, high>>]
    BY <2>1, <2>3
  <2> HIDE DEF e, I
  <2> QED
    BY <2>1, <2>2, <2>3, <2>4, <2>5
<1>13. ASSUME NEW low \in I, NEW high \in I
       PROVE  search[<<low, high>>] \in V
  <2>1. <<low, high>> \in S
    OBVIOUS
  <2> HIDE DEF S, V
  <2> QED
    BY <1>11, <2>1 DEF Wrong
<1> HIDE DEF e
<1>14. IsSearch(search, b, goal)
  BY <1>1, <1>12, <1>13, Zenon DEF IsSearch
<1> QED
  BY <1>14

LEMMA SearchType ==
    ASSUME NEW b, NEW goal \in Nat, r.head.num \in Nat \ {0},
           \A i \in 1 .. r.head.num : Stamp(b, i) \in Nat
    PROVE  BinarySearch(b, goal) \in [at : 0 .. r.head.num - 1, taken : BOOLEAN]
<1>1. 0 \in 0 .. r.head.num - 1 /\ r.head.num - 1 \in 0 .. r.head.num - 1
  OBVIOUS
<1>2. PICK f : IsSearch(f, b, goal)
  BY SearchDefined
<1>3. BinarySearch(b, goal) = f[<<0, r.head.num - 1>>]
  BY <1>2 DEF IsSearch
<1>4. f[<<0, r.head.num - 1>>] \in [at : 0 .. r.head.num - 1, taken : BOOLEAN]
  BY <1>1, <1>2, Zenon DEF IsSearch
<1> QED
  BY <1>3, <1>4, Zenon

-----------------------------------------------------------------------------
(* Each step keeps what the reader has in order.                           *)

LEMMA RetrievableType ==
    ASSUME IInv
    PROVE  Retrievable \in SUBSET Nat
<1>1. ASSUME NEW b \in DOMAIN disk, NEW i \in 1 .. disk[b].num
      PROVE  data[b][i] \in Nat
  <2>1. b \in DOMAIN blocks /\ disk[b].num \in Nat
    BY DiskTypes DEF IInv
  <2>2. Describes(disk[b], b)
    BY <2>1 DEF IInv, VersionsSound, Versions
  <2>3. data[b][i] \in DOMAIN log
    BY <2>1, <2>2 DEF Describes
  <2> QED
    BY <2>3 DEF IInv, TypeOK
<1>2. ASSUME NEW x \in Retrievable
      PROVE  x \in Nat
  <2>1. PICK b \in DOMAIN disk : \E i \in 1 .. disk[b].num : x = data[b][i]
    BY <1>2 DEF Retrievable
  <2> QED
    BY <1>1, <2>1
<1> QED
  BY <1>2

\* A step of the reader changes nothing but the reader.
LEMMA ReadKeeps ==
    ASSUME ReaderIInv, UNCHANGED vars,
           r' \in Readers, ReaderHolds(r'), ReaderReady(r')
    PROVE  ReaderIInv'
<1>1. /\ log' = log /\ infos' = infos /\ blocks' = blocks /\ disk' = disk /\ index' = index
      /\ TypeOK'
  BY DEF vars, ReaderIInv, ReaderTypeOK, TypeOK
<1>2. ChainsLead(index)'
  BY <1>1 DEF ReaderIInv, ChainsLead
<1>3. ReaderHolds(r)'
  BY <1>1 DEF ReaderHolds, HeaderHeld, ChainsLead
<1>4. ReaderReady(r)'
  BY <1>1 DEF ReaderReady
<1> QED
  BY <1>1, <1>2, <1>3, <1>4 DEF ReaderIInv, ReaderTypeOK

\* The stamps that the reader meets in its buffer.
LEMMA BufferStamps ==
    ASSUME IInv, ReaderIInv, r.block # 0
    PROVE  /\ r.block \in DOMAIN blocks /\ r.head.num \in Nat
           /\ \A i \in 1 .. r.head.num : i \in DOMAIN data[r.block] /\ Stamp(r.block, i) \in Nat
<1>1. r \in Readers /\ HeaderHeld(r)
  BY DEF ReaderIInv, ReaderTypeOK, ReaderHolds
<1>2. r.block \in DOMAIN blocks /\ r.head.num \in Nat /\ disk[r.block].num \in Nat
      /\ r.head.num <= disk[r.block].num
  BY <1>1, DiskTypes DEF HeaderHeld, IInv, Readers, Header
<1>3. Describes(disk[r.block], r.block)
  BY <1>2 DEF IInv, VersionsSound, Versions
<1>4. ASSUME NEW i \in 1 .. r.head.num
      PROVE  i \in DOMAIN data[r.block] /\ Stamp(r.block, i) \in Nat
  <2>1. i \in 1 .. disk[r.block].num
    BY <1>2
  <2>2. data[r.block][i] \in DOMAIN log
    BY <1>3, <2>1 DEF Describes
  <2>3. data[r.block] \in Seq(Nat) /\ log \in Seq(Sample)
    BY <1>2 DEF IInv, TypeOK
  <2>4. i \in DOMAIN data[r.block]
    <3>1. Len(data[r.block]) \in Nat /\ DOMAIN data[r.block] = 1 .. Len(data[r.block])
      BY <2>3
    <3> QED
      BY <1>2, <1>3, <2>1, <3>1 DEF Describes
  <2>5. log[data[r.block][i]] \in Sample
    BY <2>2, <2>3
  <2> QED
    BY <2>4, <2>5, TimeAssumption DEF Sample, Stamp
<1> QED
  BY <1>2, <1>4

\* What HeaderHeld, ReaderHolds and ReaderReady look at of a reader.
LEMMA SameHolds ==
    ASSUME NEW rd, ReaderHolds(rd), NEW new,
           new.records = rd.records, new.rec \in 0 .. Len(rd.records), new.out = rd.out,
           new.block = rd.block, new.head = rd.head, new.ctrl = rd.ctrl
    PROVE  ReaderHolds(new)
BY DEF ReaderHolds, HeaderHeld

LEMMA AtSample ==
    ASSUME r \in Readers, ReaderHolds(r), NEW v \in Nat
    PROVE  /\ [r EXCEPT !.val = v] \in Readers /\ ReaderHolds([r EXCEPT !.val = v])
           /\ [r EXCEPT !.val = v].block = r.block
<1> DEFINE new == [r EXCEPT !.val = v]
<1>1. /\ new \in Readers /\ new.records = r.records /\ new.rec = r.rec /\ new.out = r.out
      /\ new.block = r.block /\ new.head = r.head /\ new.ctrl = r.ctrl
  BY DEF Readers
<1> HIDE DEF new
<1>2. ReaderHolds(new)
  BY <1>1, SameHolds DEF ReaderHolds
<1> QED
  BY <1>1, <1>2 DEF new

LEMMA FindKeeps ==
    ASSUME IInv, ReaderIInv, NEW start \in Start, Find(start)
    PROVE  ReaderIInv'
<1> DEFINE rec == IF start = 0 /\ index # <<>> THEN 1 ELSE SearchRecord(index, start)
           goal == IF start = 0 /\ rec # 0 THEN index[1].s ELSE start
           new == [r EXCEPT !.pc = IF rec = 0 THEN "end" ELSE "header",
                            !.start = start, !.goal = goal,
                            !.records = index, !.rec = rec, !.nested = 0,
                            !.out = <<>>, !.known = Retrievable]
<1>1. r' = new /\ UNCHANGED vars
  BY DEF Find
<1>2. r \in Readers /\ ReaderHolds(r) /\ ChainsLead(index) /\ index \in Seq(Record)
  BY DEF ReaderIInv, ReaderTypeOK, ChainsLead
<1>3. start \in Nat
  BY StartAssumption
<1>4. rec \in 0 .. Len(index)
  <2>1. CASE index = <<>>
    <3>1. rec = 0 /\ Len(index) = 0
      BY <2>1 DEF SearchRecord
    <3> QED
      BY <3>1
  <2>2. CASE index # <<>>
    <3>1. SearchRecord(index, start) \in 1 .. Len(index) /\ 1 \in 1 .. Len(index)
      BY <1>2, <1>3, <2>2, RecordFound
    <3>2. rec \in 1 .. Len(index)
      BY <3>1
    <3> HIDE DEF rec
    <3> QED
      BY <3>2
  <2> QED
    BY <2>1, <2>2
<1> HIDE DEF rec
<1>5. goal \in Nat
  <2>1. rec # 0 => index[1] \in Record
    BY <1>2, <1>4
  <2> QED
    BY <1>3, <2>1, TimeAssumption DEF Record
<1>6. Retrievable \in SUBSET Nat /\ <<>> \in Seq(Nat) /\ rec \in Nat
  BY <1>2, <1>4, RetrievableType
<1> DEFINE known == Retrievable
<1> HIDE DEF goal, known
<1>7. /\ new \in Readers /\ new.pc = (IF rec = 0 THEN "end" ELSE "header")
      /\ new.records = index /\ new.rec = rec /\ new.out = <<>>
      /\ new.block = r.block /\ new.head = r.head /\ new.ctrl = r.ctrl
  <2>1. new = [r EXCEPT !.pc = IF rec = 0 THEN "end" ELSE "header",
                            !.start = start, !.goal = goal,
                            !.records = index, !.rec = rec, !.nested = 0,
                            !.out = <<>>, !.known = known]
    BY DEF known
  <2>2. known \in SUBSET Nat
    BY <1>6 DEF known
  <2> HIDE DEF new
  <2> QED
    BY <1>2, <1>3, <1>5, <1>6, <2>1, <2>2 DEF Readers
<1> HIDE DEF new
<1>8. ReaderHolds(new) /\ ReaderReady(new)
  <2>1. \A i \in DOMAIN new.out : new.out[i] \in DOMAIN log
    BY <1>7
  <2> QED
    BY <1>2, <1>4, <1>7, <2>1 DEF ReaderHolds, HeaderHeld, ReaderReady
<1> QED
  BY <1>1, <1>7, <1>8, ReadKeeps

LEMMA GetHeaderKeeps ==
    ASSUME IInv, ReaderIInv, GetHeader
    PROVE  ReaderIInv'
<1> DEFINE b == Head(r.records[r.rec].blocks)
<1>1. r.pc = "header" /\ r' = WithHeader(r, b) /\ UNCHANGED vars
  BY DEF GetHeader
<1>2. r \in Readers /\ ReaderHolds(r) /\ r.rec \in 1 .. Len(r.records)
  BY <1>1 DEF ReaderIInv, ReaderTypeOK, ReaderHolds, ReaderReady
<1>3. b \in DOMAIN blocks
  <2>1. r.records[r.rec] \in Record
    BY <1>2 DEF ReaderHolds, ChainsLead
  <2>2. PICK chain \in Seq(Nat) : chain = r.records[r.rec].blocks
    BY <2>1 DEF Record
  <2>3. chain # <<>> /\ ToSet(chain) \subseteq DOMAIN blocks
    BY <1>2, <2>2 DEF ReaderHolds, ChainsLead
  <2>4. Head(chain) \in ToSet(chain)
    <3>1. 1 \in DOMAIN chain /\ Head(chain) = chain[1]
      BY <2>3
    <3> QED
      BY <3>1 DEF ToSet
  <2> QED
    BY <2>2, <2>3, <2>4
<1> HIDE DEF b
<1>4. r' \in Readers /\ ReaderHolds(r') /\ ReaderReady(r')
  BY <1>1, <1>2, <1>3, HeaderRead
<1> QED
  BY <1>1, <1>4, ReadKeeps

LEMMA FollowKeeps ==
    ASSUME IInv, ReaderIInv, FollowLink
    PROVE  ReaderIInv'
<1> DEFINE b == r.head.next
           read == WithHeader(r, b)
           goal == disk[b].begin_time
           new == [read EXCEPT !.goal = goal]
<1>1. r.pc = "follow" /\ r' = new /\ UNCHANGED vars
  BY DEF FollowLink
<1>2. r \in Readers /\ ReaderHolds(r) /\ r.block # 0 /\ b # 0 /\ b \in 0 .. Len(blocks)
  BY <1>1 DEF ReaderIInv, ReaderTypeOK, ReaderHolds, ReaderReady, HeaderHeld
<1>3. b \in DOMAIN blocks
  <2> HIDE DEF b
  <2> QED
    BY <1>2, DiskTypes DEF IInv
<1>4. goal \in Nat
  <2>1. disk[b] \in Header
    BY <1>3, DiskTypes DEF IInv
  <2> QED
    BY <2>1, TimeAssumption DEF Header
<1> HIDE DEF b, goal
<1>5. read \in Readers /\ ReaderHolds(read) /\ ReaderReady(read)
      /\ read.pc \in {"failed", "search"} /\ (read.block # 0 \/ read.pc = "failed")
  BY <1>2, <1>3, HeaderRead
<1> HIDE DEF read
<1>6. /\ new \in Readers /\ new.pc = read.pc /\ new.records = read.records
      /\ new.rec = read.rec /\ new.out = read.out
      /\ new.block = read.block /\ new.head = read.head /\ new.ctrl = read.ctrl
  BY <1>4, <1>5 DEF Readers
<1> HIDE DEF new
<1>7. ReaderHolds(new) /\ ReaderReady(new)
  BY <1>5, <1>6, SameHolds DEF ReaderHolds, ReaderReady
<1> QED
  BY <1>1, <1>6, <1>7, ReadKeeps

LEMMA SearchKeeps ==
    ASSUME IInv, KeptSound, InfosAgree, ReaderIInv, FindFirst \/ FindBySearch \/ FindInEmpty
    PROVE  ReaderIInv'
<1>1. r.pc = "search" /\ UNCHANGED vars
  BY DEF FindFirst, FindBySearch, FindInEmpty
<1>2. r \in Readers /\ ReaderHolds(r) /\ r.block # 0 /\ r.goal \in Nat
  BY <1>1, TimeAssumption DEF ReaderIInv, ReaderTypeOK, ReaderReady, Readers
<1>3. /\ r.block \in DOMAIN blocks /\ r.head.num \in Nat
      /\ \A i \in 1 .. r.head.num : i \in DOMAIN data[r.block] /\ Stamp(r.block, i) \in Nat
  BY <1>2, BufferStamps
<1>4. ASSUME NEW v \in Nat, r' = [r EXCEPT !.pc = "next", !.val = v]
      PROVE  ReaderIInv'
  <2> DEFINE new == [r EXCEPT !.pc = "next", !.val = v]
  <2>1. /\ new \in Readers /\ new.pc = "next" /\ new.records = r.records
        /\ new.rec = r.rec /\ new.out = r.out
        /\ new.block = r.block /\ new.head = r.head /\ new.ctrl = r.ctrl
    BY <1>2 DEF Readers
  <2> HIDE DEF new
  <2>2. ReaderHolds(new) /\ ReaderReady(new)
    BY <1>2, <2>1, SameHolds DEF ReaderHolds, ReaderReady
  <2>3. r' = new
    BY <1>4 DEF new
  <2> QED
    BY <1>1, <2>1, <2>2, <2>3, ReadKeeps
<1>5. ASSUME NEW v \in Nat, NEW i \in DOMAIN data[r.block],
             r' = Return([r EXCEPT !.val = v], i)
      PROVE  ReaderIInv'
  <2>1. PICK rd : rd = [r EXCEPT !.val = v]
    OBVIOUS
  <2>2. rd \in Readers /\ ReaderHolds(rd) /\ rd.block = r.block
    BY <1>2, <2>1, AtSample
  <2>3. r' \in Readers /\ ReaderHolds(r') /\ ReaderReady(r')
    BY <1>2, <1>5, <2>1, <2>2, ReturnReads
  <2> QED
    BY <1>1, <2>3, ReadKeeps
<1>6. CASE FindFirst
  BY <1>4, <1>6 DEF FindFirst
<1>7. CASE FindBySearch
  <2> DEFINE found == BinarySearch(r.block, r.goal)
  <2>1. r.head.num \in Nat \ {0}
    BY <1>3, <1>7 DEF FindBySearch
  <2>2. found \in [at : 0 .. r.head.num - 1, taken : BOOLEAN]
    BY <1>2, <1>3, <2>1, SearchType
  <2>3. r' = IF found.taken
             THEN Return([r EXCEPT !.val = found.at + 1], found.at + 1)
             ELSE [r EXCEPT !.pc = "next", !.val = found.at]
    BY <1>7 DEF FindBySearch
  <2> HIDE DEF found
  <2>4. found.at \in Nat /\ found.at + 1 \in 1 .. r.head.num /\ found.at + 1 \in Nat
    BY <2>1, <2>2
  <2> QED
    BY <1>3, <1>4, <1>5, <2>3, <2>4
<1>8. CASE FindInEmpty
  <2>1. Huge \in Nat
    BY BufferAssumption DEF Huge
  <2>2. data[r.block] # <<>> => 1 \in DOMAIN data[r.block]
    <3>1. data[r.block] \in Seq(Nat)
      BY <1>3 DEF IInv, TypeOK
    <3> QED
      BY <3>1
  <2>3. CASE data[r.block] # <<>> /\ Stamp(r.block, 1) = r.goal
    BY <1>5, <1>8, <2>1, <2>2, <2>3 DEF FindInEmpty
  <2>4. CASE ~(data[r.block] # <<>> /\ Stamp(r.block, 1) = r.goal)
    <3> DEFINE new == [r EXCEPT !.pc = "failed", !.val = Huge, !.nested = 0]
    <3>1. r' = new
      BY <1>8, <2>4 DEF FindInEmpty
    <3>2. /\ new \in Readers /\ new.pc = "failed" /\ new.records = r.records
          /\ new.rec = r.rec /\ new.out = r.out
          /\ new.block = r.block /\ new.head = r.head /\ new.ctrl = r.ctrl
      BY <1>2, <2>1 DEF Readers
    <3> HIDE DEF new
    <3>3. ReaderHolds(new) /\ ReaderReady(new)
      BY <1>2, <3>2, SameHolds DEF ReaderHolds, ReaderReady
    <3> QED
      BY <1>1, <3>1, <3>2, <3>3, ReadKeeps
  <2> QED
    BY <2>3, <2>4
<1> QED
  BY <1>6, <1>7, <1>8

LEMMA NextKeeps ==
    ASSUME IInv, KeptSound, InfosAgree, ReaderIInv, NextInBuffer \/ NextRecord \/ Refresh
    PROVE  ReaderIInv'
<1>1. r.pc = "next" /\ UNCHANGED vars
  BY DEF NextInBuffer, NextRecord, Refresh
<1>2. r \in Readers /\ ReaderHolds(r) /\ r.block # 0 /\ HeaderHeld(r)
  BY <1>1 DEF ReaderIInv, ReaderTypeOK, ReaderReady, ReaderHolds
<1>3. /\ r.block \in DOMAIN blocks /\ r.head.num \in Nat
      /\ \A i \in 1 .. r.head.num : i \in DOMAIN data[r.block]
  BY <1>2, BufferStamps
<1>4. CASE NextInBuffer
  <2>1. r.val \in Nat /\ r.val < r.head.num /\ r.val + 1 \in Nat /\ r.val + 1 \in 1 .. r.head.num
    BY <1>2, <1>3, <1>4 DEF NextInBuffer, Readers
  <2>2. r' \in {[r EXCEPT !.val = r.head.num], Return([r EXCEPT !.val = r.val + 1], r.val + 1)}
    BY <1>4, Zenon DEF NextInBuffer
  <2>3. CASE r' = [r EXCEPT !.val = r.head.num]
    <3>1. r' \in Readers /\ ReaderHolds(r')
      BY <1>2, <1>3, <2>3, AtSample
    <3>2. r'.pc = "next" /\ r'.block = r.block
      BY <1>1, <1>2, <2>3 DEF Readers
    <3>3. ReaderReady(r')
      BY <1>2, <3>2 DEF ReaderReady
    <3> QED
      BY <1>1, <3>1, <3>3, ReadKeeps
  <2>4. CASE r' = Return([r EXCEPT !.val = r.val + 1], r.val + 1)
    <3>1. PICK rd : rd = [r EXCEPT !.val = r.val + 1]
      OBVIOUS
    <3>2. rd \in Readers /\ ReaderHolds(rd) /\ rd.block = r.block
      BY <1>2, <2>1, <3>1, AtSample
    <3>3. r.val + 1 \in DOMAIN data[rd.block]
      BY <1>3, <2>1, <3>2
    <3>4. r' \in Readers /\ ReaderHolds(r') /\ ReaderReady(r')
      BY <1>2, <2>4, <3>1, <3>2, <3>3, ReturnReads
    <3> QED
      BY <1>1, <3>4, ReadKeeps
  <2> QED
    BY <2>2, <2>3, <2>4
<1>5. CASE NextRecord
  <2> DEFINE goal == r.records[r.rec + 1].s
             on == [r EXCEPT !.pc = "header", !.rec = @ + 1, !.nested = @ + 1, !.goal = goal]
             off == [r EXCEPT !.rec = 0]
  <2>1. r.rec \in 1 .. Len(r.records) /\ r.records \in Seq(Record) /\ r.nested \in Nat
        /\ Len(r.records) \in Nat
    BY <1>2, <1>5 DEF NextRecord, ReaderHolds, Readers
  <2>2. r' = IF r.rec < Len(r.records) THEN on ELSE off
    BY <1>5 DEF NextRecord
  <2>3. CASE r.rec < Len(r.records)
    <3>1. r.rec + 1 \in 1 .. Len(r.records) /\ r.rec + 1 \in Nat /\ r.nested + 1 \in Nat
      BY <2>1, <2>3
    <3>2. goal \in Nat
      <4>1. r.records[r.rec + 1] \in Record
        BY <2>1, <3>1
      <4> QED
        BY <4>1, TimeAssumption DEF Record
    <3> HIDE DEF goal
    <3>3. /\ on \in Readers /\ on.pc = "header" /\ on.records = r.records
          /\ on.rec = r.rec + 1 /\ on.out = r.out
          /\ on.block = r.block /\ on.head = r.head /\ on.ctrl = r.ctrl
      BY <1>2, <3>1, <3>2 DEF Readers
    <3> HIDE DEF on, off
    <3>4. on.rec \in 0 .. Len(r.records) /\ on.rec # 0
      BY <2>1, <3>1, <3>3
    <3>5. ReaderHolds(on) /\ ReaderReady(on)
      BY <1>2, <3>3, <3>4, SameHolds DEF ReaderReady
    <3> QED
      BY <1>1, <2>2, <2>3, <3>3, <3>5, ReadKeeps
  <2>4. CASE ~(r.rec < Len(r.records))
    <3>1. /\ off \in Readers /\ off.pc = "next" /\ off.records = r.records
          /\ off.rec = 0 /\ off.out = r.out
          /\ off.block = r.block /\ off.head = r.head /\ off.ctrl = r.ctrl
      BY <1>1, <1>2 DEF Readers
    <3> HIDE DEF on, off
    <3>2. off.rec \in 0 .. Len(r.records)
      BY <2>1, <3>1
    <3>3. ReaderHolds(off) /\ ReaderReady(off)
      BY <1>2, <3>1, <3>2, SameHolds DEF ReaderReady
    <3> QED
      BY <1>1, <2>2, <2>4, <3>1, <3>3, ReadKeeps
  <2> QED
    BY <2>3, <2>4
<1>6. CASE Refresh
  <2> DEFINE new == disk[r.block]
             stay == [r EXCEPT !.head = new]
             on == [r EXCEPT !.head = new, !.pc = "follow"]
             end == [r EXCEPT !.head = new, !.pc = "end", !.nested = 0]
  <2>1. new \in Header /\ new.num \in Nat /\ r.val \in Nat
    BY <1>2, <1>3, DiskTypes DEF IInv, Readers
  <2>2. r' = CASE r.val < new.num -> stay
               [] r.val >= new.num /\ new.next # 0 -> on
               [] r.val >= new.num /\ new.next = 0 -> end
    BY <1>6 DEF Refresh
  <2>3. r' \in {stay, end} \/ (new.next # 0 /\ r' = on)
    <3> HIDE DEF new, stay, on, end
    <3> QED
      BY <2>1, <2>2
  <2>4. new.next \in 0 .. Len(blocks) /\ new.info = r.head.info /\ new.type = r.head.type
    <3>1. new \in Versions(r.block)
      BY DEF Versions
    <3> QED
      BY <1>2, <1>3, <3>1 DEF IInv, VersionsSound, HeaderHeld
  <2>5. ASSUME NEW x \in Readers, x.records = r.records, x.rec = r.rec, x.out = r.out,
               x.block = r.block, x.head = new, x.ctrl = r.ctrl
        PROVE  ReaderHolds(x)
    <3>1. new.num <= new.num /\ new = disk[r.block]
      BY <2>1
    <3> HIDE DEF new
    <3>2. HeaderHeld(x)
      BY <1>2, <2>4, <2>5, <3>1 DEF HeaderHeld
    <3> QED
      BY <1>2, <2>5, <3>2 DEF ReaderHolds
  <2> HIDE DEF new
  <2>6. /\ stay \in Readers /\ stay.pc = "next" /\ stay.records = r.records
        /\ stay.rec = r.rec /\ stay.out = r.out
        /\ stay.block = r.block /\ stay.head = new /\ stay.ctrl = r.ctrl
    BY <1>1, <1>2, <2>1 DEF Readers
  <2>7. /\ on \in Readers /\ on.pc = "follow" /\ on.records = r.records
        /\ on.rec = r.rec /\ on.out = r.out
        /\ on.block = r.block /\ on.head = new /\ on.ctrl = r.ctrl
    BY <1>1, <1>2, <2>1 DEF Readers
  <2>8. /\ end \in Readers /\ end.pc = "end" /\ end.records = r.records
        /\ end.rec = r.rec /\ end.out = r.out
        /\ end.block = r.block /\ end.head = new /\ end.ctrl = r.ctrl
    BY <1>1, <1>2, <2>1 DEF Readers
  <2> HIDE DEF stay, on, end
  <2>9. ReaderHolds(stay) /\ ReaderReady(stay)
    BY <1>2, <2>5, <2>6 DEF ReaderReady
  <2>10. new.next # 0 => ReaderHolds(on) /\ ReaderReady(on)
    BY <1>2, <2>5, <2>7 DEF ReaderReady
  <2>11. ReaderHolds(end) /\ ReaderReady(end)
    BY <1>2, <2>5, <2>8 DEF ReaderReady
  <2>12. r' \in Readers /\ ReaderHolds(r') /\ ReaderReady(r')
    BY <2>3, <2>6, <2>7, <2>8, <2>9, <2>10, <2>11
  <2> QED
    BY <1>1, <2>12, ReadKeeps
<1> QED
  BY <1>4, <1>5, <1>6

LEMMA CallKeeps ==
    ASSUME ReaderIInv, CallNext
    PROVE  ReaderIInv'
<1> DEFINE pc == IF r.block = 0 THEN "failed" ELSE "next"
           new == [r EXCEPT !.pc = pc, !.nested = 0]
<1>1. r' = new /\ UNCHANGED vars
  BY DEF CallNext
<1>2. r \in Readers /\ ReaderHolds(r)
  BY DEF ReaderIInv, ReaderTypeOK
<1>3. /\ new \in Readers /\ new.pc = pc /\ new.records = r.records
      /\ new.rec = r.rec /\ new.out = r.out
      /\ new.block = r.block /\ new.head = r.head /\ new.ctrl = r.ctrl
  BY <1>2 DEF Readers
<1> HIDE DEF new
<1>4. ReaderHolds(new) /\ ReaderReady(new)
  BY <1>2, <1>3, SameHolds DEF ReaderHolds, ReaderReady
<1> QED
  BY <1>1, <1>3, <1>4, ReadKeeps

LEMMA InitReader == ReadInit => ReaderIInv
<1> SUFFICES ASSUME ReadInit PROVE ReaderIInv
  OBVIOUS
<1> DEFINE type == CHOOSE d \in DbrType : TRUE
           head == NewHeader(0, type, 0)
<1>1. type \in DbrType
  BY StartAssumption
<1>2. r = [pc |-> "idle", start |-> 0, goal |-> 0, records |-> <<>>, rec |-> 0,
           block |-> 0, head |-> head,
           ctrl |-> None, val |-> 0, nested |-> 0, out |-> <<>>, known |-> {}]
  BY DEF ReadInit
<1> HIDE DEF type
<1>3. head \in Header
  BY <1>1, TimeAssumption DEF NewHeader, Header
<1> HIDE DEF head
<1>4. r \in Readers
  BY <1>2, <1>3, TimeAssumption DEF Readers
<1>5. TypeOK /\ index = <<>>
  BY InitIInv DEF ReadInit, Init, IInv
<1>6. ChainsLead(index) /\ ReaderHolds(r) /\ ReaderReady(r)
  BY <1>2, <1>5 DEF ChainsLead, ReaderHolds, ReaderReady
<1> QED
  BY <1>4, <1>5, <1>6 DEF ReaderIInv, ReaderTypeOK

LEMMA NextBoth == BothSound /\ [ReadNext]_readVars => BothSound'
<1> SUFFICES ASSUME IInv, KeptSound, InfosAgree, ReaderIInv, [ReadNext]_readVars
             PROVE  BothSound'
  BY DEF BothSound
<1>1. [Next]_vars
  BY DEF ReadNext, readVars, CallNext, ReaderStep, Find, GetHeader, FollowLink, FindFirst,
         FindBySearch, FindInEmpty, NextInBuffer, NextRecord, Refresh
<1>2. IInv' /\ KeptSound' /\ InfosAgree' /\ Grown
  BY <1>1, NextIInv, NextKept, NextInfos, WriterGrows
<1>3. CASE r' = r
  <2>1. ChainsLead(index)'
    BY <1>1, <1>2, NextChains DEF ReaderIInv
  <2> QED
    BY <1>2, <1>3, <2>1, WriterKeepsReader DEF BothSound, IInv
<1>4. ASSUME NEW start \in Start, Find(start)
      PROVE  ReaderIInv'
  BY <1>4, FindKeeps
<1>5. CallNext => ReaderIInv'
  BY CallKeeps
<1>6. ReaderStep => ReaderIInv'
  <2>1. GetHeader => ReaderIInv'
    BY GetHeaderKeeps
  <2>2. FollowLink => ReaderIInv'
    BY FollowKeeps
  <2>3. FindFirst \/ FindBySearch \/ FindInEmpty => ReaderIInv'
    BY SearchKeeps
  <2>4. NextInBuffer \/ NextRecord \/ Refresh => ReaderIInv'
    BY NextKeeps
  <2> QED
    BY <2>1, <2>2, <2>3, <2>4, Zenon DEF ReaderStep
<1> QED
  BY <1>2, <1>3, <1>4, <1>5, <1>6 DEF ReadNext, readVars, BothSound

LEMMA BothSoundly == ReadSpec => []BothSound
<1>1. ReadInit => BothSound
  BY InitIInv, InitKept, InitInfos, InitReader DEF ReadInit, BothSound
<1> QED
  BY <1>1, NextBoth, PTL DEF ReadSpec

\* The members of the reader keep their types while the writer works: neither
\* val_idx nor the number of waiting calls falls below zero, and no header,
\* record or block is used that is not there.
THEOREM ReaderTypeCorrect == ReadSpec => []ReaderTypeOK
<1>1. BothSound => ReaderTypeOK
  BY DEF BothSound, ReaderIInv
<1> QED
  BY <1>1, BothSoundly, PTL

\* getInfo and getType fit the sample that was just returned, whatever a writer
\* does meanwhile, and also when the sample was written after the reader read
\* the header: a block keeps the control info and the value type it was made for.
THEOREM InfoAlwaysFits == ReadSpec => []InfoFits
<1>1. BothSound => InfoFits
  BY DEF BothSound, ReaderIInv, ReaderReady, InfoFits
<1> QED
  BY <1>1, BothSoundly, PTL

-----------------------------------------------------------------------------
(* The order in which a reader finds the samples.  First the writer: the   *)
(* buffers are filled one after the other, and indexed in that order.      *)

LEMMA ElementReplaced ==
    ASSUME NEW S, NEW s \in Seq(S), NEW n \in 1 .. Len(s), NEW x \in S
    PROVE  LET t == [s EXCEPT ![n] = x]
           IN  /\ t \in Seq(S) /\ Len(t) = Len(s) /\ t[n] = x
               /\ \A k \in 1 .. Len(s) : k # n => t[k] = s[k]
OBVIOUS

\* What the index becomes when the block was the last one indexed, or its samples
\* are later than those of all records.
LEMMA UpdateAtEnd ==
    ASSUME NEW idx \in Seq(Record), NEW s \in Time, NEW e \in Time, NEW b \in Nat,
           \/ /\ idx # <<>> /\ idx[Len(idx)].s = s /\ idx[Len(idx)].e <= e
              /\ idx[Len(idx)].blocks = <<b>>
           \/ \A k \in 1 .. Len(idx) : idx[k].e <= s
    PROVE  LET new == UpdateLastDatablock(idx, s, e, b)
               n   == Len(new)
           IN  /\ new \in Seq(Record) /\ n > 0
               /\ new[n] = [s |-> s, e |-> e, blocks |-> <<b>>]
               /\ \A k \in 1 .. n : k < n => k \in 1 .. Len(idx) /\ new[k] = idx[k]
               /\ \/ /\ n = Len(idx) + 1
                     /\ ~(/\ idx # <<>> /\ idx[Len(idx)].s = s /\ idx[Len(idx)].e <= e
                          /\ idx[Len(idx)].blocks = <<b>>)
                  \/ n = Len(idx) /\ idx[n].s = s /\ idx[n].blocks = <<b>>
<1> DEFINE new == UpdateLastDatablock(idx, s, e, b)
           N == Len(idx)
           stretched == N > 0 /\ idx[N].s = s /\ idx[N].e <= e /\ idx[N].blocks = <<b>>
           x == [s |-> s, e |-> e, blocks |-> <<b>>]
<1>1. N \in Nat /\ (idx # <<>> <=> N > 0) /\ DOMAIN idx = 1 .. N
  OBVIOUS
<1>2. x \in Record
  BY DEF Record
<1>3. CASE stretched
  <2>1. new = [idx EXCEPT ![N].e = e]
    BY <1>3 DEF UpdateLastDatablock
  <2>2. N \in 1 .. N /\ idx[N] \in Record
    BY <1>1, <1>3
  <2>3. [idx[N] EXCEPT !.e = e] = x
    <3>1. idx[N] = [s |-> idx[N].s, e |-> idx[N].e, blocks |-> idx[N].blocks]
      BY <2>2 DEF Record
    <3>2. [[s |-> idx[N].s, e |-> idx[N].e, blocks |-> idx[N].blocks] EXCEPT !.e = e]
             = [s |-> idx[N].s, e |-> e, blocks |-> idx[N].blocks]
      OBVIOUS
    <3> QED
      BY <1>3, <3>1, <3>2
  <2>4. PICK y : y = [idx[N] EXCEPT !.e = e]
    OBVIOUS
  <2>5. new = [idx EXCEPT ![N] = y] /\ y = x
    BY <2>1, <2>3, <2>4
  <2> HIDE DEF new, x, N
  <2>6. /\ new \in Seq(Record) /\ Len(new) = N /\ new[N] = x
        /\ \A k \in 1 .. N : k # N => new[k] = idx[k]
    <3>1. N = Len(idx)
      BY DEF N
    <3> QED
      BY <1>2, <2>2, <2>5, <3>1, ElementReplaced
  <2>7. \A k \in 1 .. N : k < N => k # N
    BY <1>1
  <2>8. N = Len(idx) /\ N > 0 /\ idx[N].s = s /\ idx[N].blocks = <<b>>
    BY <1>3 DEF N
  <2>9. PICK t \in Seq(Record) : t = new
    BY <2>6
  <2>10. /\ t \in Seq(Record) /\ Len(t) > 0 /\ t[Len(t)] = x
         /\ \A k \in 1 .. Len(t) : k < Len(t) => k \in 1 .. Len(idx) /\ t[k] = idx[k]
         /\ Len(t) = Len(idx) /\ idx[Len(t)].s = s /\ idx[Len(t)].blocks = <<b>>
    BY <2>6, <2>7, <2>8, <2>9
  <2> QED
    BY <2>9, <2>10 DEF new, x
<1>4. CASE ~stretched
  <2>1. new = InsertDatablock(idx, s, e, b)
    BY <1>4 DEF UpdateLastDatablock
  <2>2. \A k \in 1 .. N : idx[k].e <= s
    BY <1>1, <1>4
  <2>3. PICK f : /\ IsInsertion(f, b)
                 /\ \A i \in Seq(Record), n0 \in Time, n1 \in Time :
                       InsertDatablock(i, n0, n1, b) = f[<<i, n0, n1>>]
    BY InsertionDefined
  <2>4. f[<<idx, s, e>>] = Insertion(f, idx, s, e, b)
    BY <2>3 DEF IsInsertion
  <2>5. InsertionPoint(idx, s) = N + 1
    <3>1. \A k \in 1 .. N : idx[k].e \in Nat /\ s \in Nat
      <4>1. \A k \in 1 .. N : idx[k] \in Record
        BY <1>1
      <4> QED
        BY <4>1, TimeAssumption DEF Record
    <3>2. {i \in 1 .. N : idx[i].e > s} = {}
      BY <2>2, <3>1
    <3> QED
      BY <3>2 DEF InsertionPoint
  <2>6. new = InsertAt(idx, N + 1, x)
    BY <1>1, <2>1, <2>3, <2>4, <2>5 DEF Insertion
  <2>7. N + 1 \in 1 .. N + 1
    BY <1>1
  <2>8. new \in Seq(Record) /\ Placed(idx, N + 1, x, new)
    <3> HIDE DEF x
    <3> QED
      BY <1>2, <2>6, <2>7, InsertAtPlaces
  <2> HIDE DEF new, x
  <2> QED
    <3>1. /\ new \in Seq(Record) /\ Len(new) = N + 1 /\ new[N + 1] = x
          /\ \A k \in 1 .. N : new[k] = idx[k]
      BY <1>1, <2>8 DEF Placed
    <3>2. \A k \in 1 .. N + 1 : k < N + 1 => k \in 1 .. N
      BY <1>1
    <3>3. ~(/\ idx # <<>> /\ idx[Len(idx)].s = s /\ idx[Len(idx)].e <= e
            /\ idx[Len(idx)].blocks = <<b>>)
      BY <1>1, <1>4
    <3>4. N + 1 > 0 /\ N = Len(idx)
      BY <1>1
    <3> QED
      BY <3>1, <3>2, <3>3, <3>4 DEF new, x
<1> QED
  BY <1>3, <1>4

\* The types of the state that the order is about.
LEMMA LineTypes ==
    ASSUME IInv, KeptSound
    PROVE  /\ DOMAIN data = 1 .. Len(blocks) /\ DOMAIN blocks = 1 .. Len(blocks)
           /\ DOMAIN disk = 1 .. Len(blocks)
           /\ Len(blocks) \in Nat /\ Len(log) \in Nat /\ DOMAIN log = 1 .. Len(log)
           /\ \A i \in DOMAIN log : log[i].stamp \in Nat /\ log[i].stamp \in Time
           /\ \A b \in DOMAIN data : /\ data[b] \in Seq(Nat) /\ Len(data[b]) \in Nat
                                     /\ DOMAIN data[b] = 1 .. Len(data[b])
                                     /\ \A j \in DOMAIN data[b] : /\ data[b][j] \in DOMAIN log
                                                                  /\ data[b][j] \in Nat
                                                                  /\ Stamp(b, j) \in Nat
           /\ Current \in Nat
<1>1. /\ log \in Seq(Sample) /\ data \in Seq(Seq(Nat)) /\ blocks \in Seq(Header)
      /\ disk \in Seq(Header)
      /\ Len(data) = Len(blocks) /\ Len(disk) = Len(blocks)
  BY DEF IInv, TypeOK
<1>2. /\ DOMAIN data = 1 .. Len(blocks) /\ DOMAIN blocks = 1 .. Len(blocks)
      /\ DOMAIN disk = 1 .. Len(blocks)
      /\ Len(blocks) \in Nat /\ Len(log) \in Nat /\ DOMAIN log = 1 .. Len(log)
  BY <1>1
<1>3. \A i \in DOMAIN log : log[i].stamp \in Nat /\ log[i].stamp \in Time
  <2>1. \A i \in DOMAIN log : log[i] \in Sample
    BY <1>1
  <2> QED
    BY <2>1, TimeAssumption DEF Sample
<1>4. \A b \in DOMAIN data : data[b] \in Seq(Nat)
  BY <1>1
<1>5. ASSUME NEW b \in DOMAIN data, NEW j \in DOMAIN data[b]
      PROVE  data[b][j] \in DOMAIN log /\ data[b][j] \in Nat /\ Stamp(b, j) \in Nat
  <2>1. data[b][j] \in DOMAIN log
    BY <1>5 DEF KeptSound, StoredOnce
  <2> QED
    BY <1>2, <1>3, <2>1 DEF Stamp
<1>6. Current \in Nat
  <2>1. IsOpen => w.block \in Nat
    BY OpenType DEF IInv, OpenWriters
  <2> QED
    BY <1>2, <2>1 DEF Current
<1> QED
  BY <1>2, <1>3, <1>4, <1>5, <1>6

\* What a step of the writer does to the buffers: samples are added behind those
\* that are there, and only to the current block.
LineGrows ==
    /\ Current' \in Nat /\ Current <= Current'
    /\ \A b \in DOMAIN data :
          /\ b \in DOMAIN data'
          /\ \A j \in DOMAIN data[b] : j \in DOMAIN data'[b] /\ data'[b][j] = data[b][j]
          /\ b < Current => DOMAIN data'[b] = DOMAIN data[b]
    /\ \A b \in DOMAIN data' : \A j \in DOMAIN data'[b] :
          (b \in DOMAIN data /\ j \in DOMAIN data[b]) \/ data'[b][j] > Len(log)

\* What records tell remains true.
LEMMA TellsKept ==
    ASSUME IInv, KeptSound, LineGrows, NEW idx, Len(idx) \in Nat, Tells(idx),
           \A i \in DOMAIN log : i \in DOMAIN log' /\ log'[i] = log[i],
           Current <= Len(blocks)
    PROVE  Tells(idx)'
<1>1. /\ DOMAIN data = 1 .. Len(blocks) /\ Len(blocks) \in Nat /\ Current \in Nat
      /\ \A b \in DOMAIN data : \A j \in DOMAIN data[b] : data[b][j] \in DOMAIN log
      /\ \A b \in DOMAIN data : data[b] \in Seq(Nat) /\ DOMAIN data[b] = 1 .. Len(data[b])
  BY LineTypes
<1>2. \A b \in DOMAIN data : \A j \in DOMAIN data[b] :
         j \in DOMAIN data'[b] /\ Stamp(b, j)' = Stamp(b, j)
  BY <1>1 DEF LineGrows, Stamp
<1>3. ASSUME NEW k \in 1 .. Len(idx)
      PROVE  /\ Of(idx[k]) \in DOMAIN data /\ Of(idx[k]) \in Nat /\ Of(idx[k]) \in 1 .. Current'
             /\ ~Empty(idx[k]) => /\ data'[Of(idx[k])] # <<>>
                                  /\ idx[k].s = Stamp(Of(idx[k]), 1)'
                                  /\ \E j \in DOMAIN data'[Of(idx[k])] :
                                        idx[k].e = Stamp(Of(idx[k]), j)'
  <2>1. PICK b : b = Of(idx[k])
    OBVIOUS
  <2>2. b \in 1 .. Current
    BY <2>1 DEF Tells
  <2>3. b \in DOMAIN data /\ b \in Nat /\ b \in 1 .. Current'
    BY <1>1, <2>2 DEF LineGrows
  <2>4. ASSUME ~Empty(idx[k])
        PROVE  /\ data'[b] # <<>> /\ idx[k].s = Stamp(b, 1)'
               /\ \E j \in DOMAIN data'[b] : idx[k].e = Stamp(b, j)'
    <3>1. data[b] # <<>> /\ idx[k].s = Stamp(b, 1)
          /\ \E j \in DOMAIN data[b] : idx[k].e = Stamp(b, j)
      BY <2>1, <2>4 DEF Tells
    <3>2. 1 \in DOMAIN data[b]
      BY <1>1, <2>3, <3>1
    <3>3. 1 \in DOMAIN data'[b]
      BY <1>2, <2>3, <3>2
    <3> QED
      BY <1>2, <2>3, <3>1, <3>2, <3>3
  <2> QED
    BY <2>1, <2>3, <2>4
<1>4. ASSUME NEW k \in 1 .. Len(idx), NEW l \in 1 .. Len(idx), k < l,
             ~Empty(idx[k])
      PROVE  Of(idx[k]) < Of(idx[l]) /\ Done(idx[k])'
  <2>1. Of(idx[k]) < Of(idx[l]) /\ Done(idx[k])
    BY <1>4 DEF Tells
  <2>2. Of(idx[l]) \in 1 .. Current
    BY DEF Tells
  <2>3. PICK b : b = Of(idx[k])
    OBVIOUS
  <2>4. b \in DOMAIN data /\ b < Current
    BY <1>1, <1>3, <2>1, <2>2, <2>3
  <2>5. DOMAIN data'[b] = DOMAIN data[b]
    BY <2>4 DEF LineGrows
  <2>6. \A j \in DOMAIN data'[b] : Stamp(b, j)' <= idx[k].e
    BY <1>2, <2>1, <2>3, <2>4, <2>5 DEF Done
  <2> QED
    BY <2>1, <2>3, <2>6 DEF Done
<1>5. ASSUME NEW k \in 1 .. Len(idx), Empty(idx[k])
      PROVE  k = 1 /\ Of(idx[k]) = 1 /\ \A l \in 1 .. Len(idx) : k < l /\ l = 2 => Of(idx[l]) = 1
  BY <1>5 DEF Tells
<1>6. \A k \in 1 .. Len(idx) : idx[k].blocks = <<Of(idx[k])>>
  BY DEF Tells
<1> QED
  BY <1>3, <1>4, <1>5, <1>6 DEF Tells


\* Steps that write no sample and make no block.
LEMMA SameLine ==
    ASSUME IInv, KeptSound, InLine, UNCHANGED <<log, data>>,
           Current' \in Nat, Current <= Current'
    PROVE  InLine' /\ LineGrows
<1>1. InLine'
  BY DEF InLine, NoBackInTime
<1> QED
  BY <1>1 DEF LineGrows

\* While a writer is open that writes no index.
LEMMA IndexStays ==
    ASSUME IInv, KeptSound, IndexSound, OrderSound, LineGrows, index' = index,
           \A i \in DOMAIN log : i \in DOMAIN log' /\ log'[i] = log[i],
           Current' = Current, Current <= Len(blocks), IsOpen'
    PROVE  IndexTells'
<1>1. Len(index) \in Nat /\ index \in Seq(Record) /\ Tells(index)
  BY DEF IndexSound, OrderSound, IndexTells
<1>2. PICK idx : idx = index
  OBVIOUS
<1>3. Tells(idx)'
  BY <1>1, <1>2, TellsKept
<1>4. Tells(index)'
  BY <1>2, <1>3 DEF Tells
<1>5. ASSUME index # <<>>, LastDatablock(index) < Current
      PROVE  Done(Last(index))'
  <2>1. PICK x : x = Last(index)
    OBVIOUS
  <2>2. x = index[Len(index)] /\ Len(index) \in 1 .. Len(index)
    BY <1>1, <1>5, <2>1 DEF Last
  <2>3. Of(x) \in 1 .. Current /\ Of(x) < Current /\ Done(x)
    BY <1>1, <1>5, <2>1, <2>2 DEF Tells, LastDatablock, Of, OrderSound, IndexTells
  <2>4. PICK b : b = Of(x)
    OBVIOUS
  <2>5. /\ b \in DOMAIN data /\ b < Current
        /\ \A j \in DOMAIN data[b] : data[b][j] \in DOMAIN log
    BY <2>3, <2>4, LineTypes
  <2>6. /\ DOMAIN data'[b] = DOMAIN data[b]
        /\ \A j \in DOMAIN data[b] : data'[b][j] = data[b][j]
    BY <2>5 DEF LineGrows
  <2>7. \A j \in DOMAIN data'[b] : Stamp(b, j)' <= x.e
    BY <2>3, <2>4, <2>5, <2>6 DEF Done, Stamp
  <2>8. Done(x)'
    BY <2>4, <2>7 DEF Done
  <2> QED
    BY <2>1, <2>8 DEF Done
<1> QED
  BY <1>4, <1>5 DEF IndexTells

\* The header in the memory of the writer, and its buffer.
LEMMA OpenLine ==
    ASSUME IInv, KeptSound, OrderSound, IsOpen, w.block # 0
    PROVE  /\ w \in OpenWriters /\ Current = w.block
           /\ w.block \in DOMAIN blocks /\ w.block \in DOMAIN data /\ w.block \in Nat
           /\ w.head \in Header /\ w.head.num \in Nat /\ w.head.cap \in Nat
           /\ w.head.begin_time \in Time /\ w.head.end_time \in Time
           /\ Len(data[w.block]) = w.head.num /\ HasRoom(w.head)
           /\ w.head.num <= w.head.cap
           /\ w.head.num > 0 => /\ w.head.begin_time = Stamp(w.block, 1)
                                /\ w.head.end_time = Stamp(w.block, w.head.num)
           /\ \A i, j \in 1 .. w.head.num : i < j => Stamp(w.block, i) <= Stamp(w.block, j)
<1>1. w \in OpenWriters /\ Current = w.block /\ w.block \in Nat /\ w.head \in Header
  BY OpenType DEF IInv, Current, OpenWriters
<1>2. w.block \in DOMAIN blocks /\ w.block \in DOMAIN data
  BY HeadDescribed
<1>3. /\ w.head.num \in Nat /\ w.head.cap \in Nat
      /\ w.head.begin_time \in Time /\ w.head.end_time \in Time
  BY <1>1 DEF Header
<1>4. w.head \in Versions(w.block)
  BY <1>2 DEF Versions
<1>5. Describes(w.head, w.block)
  BY <1>2, <1>4 DEF IInv, VersionsSound
<1>6. Len(data[w.block]) = w.head.num /\ HasRoom(w.head)
  BY <1>2, <1>4 DEF OrderSound, Filled, Counted
<1> QED
  BY <1>1, <1>2, <1>3, <1>5, <1>6 DEF Describes

LEMMA FlushOrder ==
    ASSUME IInv, KeptSound, OrderSound, NEW f, Flush(f)
    PROVE  OrderSound' /\ LineGrows
<1>1. /\ UNCHANGED <<log, infos, files, blocks, data, index, w>>
      /\ DOMAIN disk = DOMAIN blocks
      /\ \A b \in DOMAIN blocks : disk'[b] \in {disk[b], blocks[b]}
  BY LineTypes DEF Flush
<1>2. Current' = Current /\ Current \in Nat /\ (IsOpen' <=> IsOpen)
  BY <1>1, LineTypes DEF Current, IsOpen
<1>3. InLine' /\ LineGrows
  BY <1>1, <1>2, SameLine DEF OrderSound
<1>4. \A b \in DOMAIN blocks : Versions(b)' \subseteq Versions(b) /\ Counted(b)' = Counted(b)
  BY <1>1, <1>2 DEF Versions, Counted
<1>5. Filled'
  BY <1>1, <1>2, <1>4 DEF OrderSound, Filled
<1>6. LatestKnown'
  BY <1>1, <1>2 DEF OrderSound, LatestKnown
<1>7. IndexTells'
  BY <1>1, <1>2 DEF OrderSound, IndexTells, Tells, Done, Stamp
<1> QED
  BY <1>3, <1>5, <1>6, <1>7 DEF OrderSound

\* The index of an archive that nobody writes ends with the last block.
LEMMA OpenedAt ==
    ASSUME IInv, KeptSound, OrderSound, IndexSound, ~IsOpen
    PROVE  /\ index = <<>> => blocks = <<>> /\ log = <<>>
           /\ index # <<>> => /\ blocks # <<>> /\ LastDatablock(index) = Len(blocks)
                              /\ Len(blocks) \in DOMAIN blocks
<1>1. Len(blocks) \in Nat /\ Current = Len(blocks) /\ DOMAIN blocks = 1 .. Len(blocks)
  BY LineTypes DEF Current
<1>2. index = <<>> => blocks = <<>> /\ log = <<>>
  BY DEF OrderSound, IndexTells, Filled
<1>3. index # <<>> => blocks # <<>>
  <2> SUFFICES ASSUME index # <<>> PROVE Len(blocks) # 0
    BY <1>1
  <2>1. 1 \in 1 .. Len(index)
    BY DEF IndexSound
  <2>2. Of(index[1]) \in 1 .. Current
    BY <2>1 DEF OrderSound, IndexTells, Tells
  <2> QED
    BY <1>1, <2>2
<1>4. blocks # <<>> => Len(blocks) \in DOMAIN blocks
  <2>1. blocks \in Seq(Header)
    BY DEF IInv, TypeOK
  <2> QED
    BY <2>1
<1> QED
  BY <1>2, <1>3, <1>4 DEF OrderSound, IndexTells

LEMMA OpenWriterOrder ==
    ASSUME IInv, KeptSound, OrderSound, IndexSound, OneKind,
           NEW ctrl \in Info, NEW type \in DbrType, NEW n, OpenWriter(ctrl, type, n)
    PROVE  OrderSound' /\ LineGrows
<1> DEFINE block == IF index = <<>> THEN 0 ELSE LastDatablock(index)
           head  == IF block = 0 THEN NewHeader(0, type, 0) ELSE blocks[block]
           reuse == block # 0 /\ infos[head.info].ctrl = ctrl /\ head.type = type
<1>1. /\ ~IsOpen /\ UNCHANGED <<log, infos, files, blocks, disk, data, index>>
      /\ block # 0 => block \in DOMAIN blocks /\ head.info \in DOMAIN infos
      /\ w'.pc = (IF reuse THEN "idle" ELSE "alloc") /\ w'.block = block /\ w'.head = head
  BY DEF OpenWriter
<1>2. w.pc = "closed" /\ Current = Len(blocks) /\ Len(blocks) \in Nat
      /\ DOMAIN blocks = 1 .. Len(blocks)
  BY <1>1, LineTypes DEF IsOpen, Current
<1>3. IsOpen'
  BY <1>1 DEF IsOpen
<1>4. CASE index = <<>>
  <2>1. block = 0 /\ blocks = <<>> /\ log = <<>> /\ w'.pc = "alloc"
    BY <1>1, <1>4, OpenedAt
  <2>2. Current' = 0 /\ Current = 0 /\ Len(blocks) = 0
    BY <1>1, <1>2, <1>3, <2>1 DEF Current
  <2>3. InLine' /\ LineGrows
    BY <1>1, <2>2, SameLine DEF OrderSound
  <2>4. Filled'
    BY <1>1, <2>1, <2>2 DEF Filled
  <2>5. LatestKnown'
    BY <1>1, <2>1, <2>2 DEF LatestKnown
  <2>6. IndexTells'
    BY <1>1, <1>3, <1>4 DEF IndexTells, Tells
  <2> QED
    BY <2>3, <2>4, <2>5, <2>6 DEF OrderSound
<1>5. CASE index # <<>>
  <2>1. block = Len(blocks) /\ block \in DOMAIN blocks /\ block # 0 /\ blocks # <<>>
    <3>1. /\ LastDatablock(index) = Len(blocks) /\ Len(blocks) \in DOMAIN blocks
          /\ blocks # <<>>
      BY <1>1, <1>5, OpenedAt
    <3>2. Len(blocks) # 0
      BY <1>2, <3>1
    <3> QED
      BY <1>5, <3>1, <3>2
  <2>2. head = blocks[block]
    BY <2>1
  <2>3. reuse
    <3>1. head.type \in DbrType
      <4>1. head \in Header
        BY <2>1, <2>2 DEF IInv, TypeOK
      <4> QED
        BY <4>1 DEF Header
    <3>2. infos[head.info].ctrl \in Info
      <4>1. head.info \in DOMAIN infos
        BY <1>1, <2>1
      <4>2. \A i \in DOMAIN infos : infos[i] \in [ctrl : Info, file : Nat]
        <5> DEFINE T == [ctrl : Info, file : Nat]
        <5>1. infos \in Seq(T)
          BY DEF IInv, TypeOK
        <5> HIDE DEF T
        <5>2. \A i \in DOMAIN infos : infos[i] \in T
          BY <5>1
        <5> QED
          BY <5>2 DEF T
      <4> HIDE DEF head
      <4> QED
        BY <4>1, <4>2
    <3> QED
      BY <2>1, <3>1, <3>2 DEF OneKind
  <2>4. w'.pc = "idle" /\ w'.block = Len(blocks) /\ w'.head = blocks[Len(blocks)]
    BY <1>1, <2>1, <2>2, <2>3
  <2> HIDE DEF block, head, reuse
  <2>5. Current' = Len(blocks) /\ Current' = Current
    BY <1>2, <1>3, <2>4 DEF Current
  <2>6. InLine' /\ LineGrows
    BY <1>1, <1>2, <2>5, SameLine DEF OrderSound
  <2>7. \A b \in DOMAIN blocks : Versions(b)' \subseteq Versions(b) /\ Counted(b)' = Counted(b)
    BY <1>1, <1>3, <2>4 DEF Versions, Counted
  <2>8. Filled'
    BY <1>1, <1>2, <2>1, <2>4, <2>5, <2>7 DEF OrderSound, Filled
  <2>9. LatestKnown'
    BY <1>1, <1>2, <1>3, <2>4 DEF OrderSound, LatestKnown
  <2>10. Tells(index)'
    BY <1>1, <2>5 DEF OrderSound, IndexTells, Tells, Done, Stamp
  <2>11. IndexTells'
    BY <1>1, <1>2, <1>3, <2>5, <2>10 DEF OrderSound, IndexTells, Done, Stamp
  <2> QED
    BY <2>6, <2>8, <2>9, <2>11 DEF OrderSound
<1> QED
  BY <1>4, <1>5


\* What storing a sample leaves: one more in the buffer of the writer.
LEMMA StoreLine ==
    ASSUME IInv, KeptSound, OrderSound, NEW t \in Time, Store(t), w.pc \in {"idle", "add"}
    PROVE  /\ log' = Append(log, [stamp |-> t, type |-> w.type, ctrl |-> w.ctrl])
           /\ Len(log') = Len(log) + 1 /\ DOMAIN log' = 1 .. Len(log) + 1
           /\ log'[Len(log) + 1].stamp = t
           /\ \A i \in DOMAIN log : i \in DOMAIN log' /\ log'[i] = log[i]
           /\ DOMAIN data' = DOMAIN data
           /\ \A b \in DOMAIN data : b # w.block => data'[b] = data[b]
           /\ DOMAIN data'[w.block] = 1 .. w.head.num + 1
           /\ Len(data'[w.block]) = w.head.num + 1
           /\ data'[w.block][w.head.num + 1] = Len(log) + 1
           /\ \A j \in DOMAIN data[w.block] : /\ j # w.head.num + 1
                                              /\ data'[w.block][j] = data[w.block][j]
           /\ UNCHANGED <<blocks, disk, index>>
           /\ w'.pc = "idle" /\ w'.block = w.block /\ IsOpen' /\ Current' = Current
           /\ w'.head = HeadAfter(w.head, t)
<1> DEFINE k == w.head.num + 1
           x == Len(log) + 1
           old == data[w.block]
           buffer == Overwrite(old, k, x)
           new == [stamp |-> t, type |-> w.type, ctrl |-> w.ctrl]
<1>1. /\ w \in OpenWriters /\ IsOpen /\ w.block \in DOMAIN data /\ Current = w.block
      /\ w.head \in Header /\ w.head.num \in Nat /\ Len(old) = w.head.num
  BY StoreReady, OpenLine
<1>2. /\ log \in Seq(Sample) /\ data \in Seq(Seq(Nat)) /\ old \in Seq(Nat)
      /\ Len(log) \in Nat /\ DOMAIN old = 1 .. Len(old) /\ DOMAIN log = 1 .. Len(log)
  <2>1. log \in Seq(Sample) /\ data \in Seq(Seq(Nat))
    BY DEF IInv, TypeOK
  <2>2. old \in Seq(Nat)
    BY <1>1, <2>1
  <2> HIDE DEF old
  <2> QED
    BY <2>1, <2>2
<1>3. /\ log' = Append(log, new) /\ data' = [data EXCEPT ![w.block] = buffer]
      /\ UNCHANGED <<infos, blocks, disk, index>>
  BY DEF Store
<1>4. /\ \A i \in DOMAIN log : i \in DOMAIN log' /\ log'[i] = log[i]
      /\ log'[x] = new /\ new.stamp = t /\ Len(log') = x /\ DOMAIN log' = 1 .. x
  <2>1. new.stamp = t
    OBVIOUS
  <2> HIDE DEF new
  <2> QED
    BY <1>2, <1>3, <2>1
<1>5. DOMAIN data' = DOMAIN data /\ data'[w.block] = buffer
      /\ \A b \in DOMAIN data : b # w.block => data'[b] = data[b]
  BY <1>1, <1>2, <1>3
<1>6. k \in Nat \ {0} /\ k = Len(old) + 1
  <2> HIDE DEF old
  <2> QED
    BY <1>1
<1>7. /\ DOMAIN buffer = 1 .. k /\ Len(buffer) = k /\ buffer[k] = x
      /\ \A j \in DOMAIN old : j # k /\ buffer[j] = old[j]
  <2>1. buffer = [i \in 1 .. k |-> IF i = k THEN x ELSE old[i]]
    <3> HIDE DEF old, k
    <3> QED
      BY <1>2, <1>6 DEF Overwrite
  <2>2. \A j \in DOMAIN old : j \in 1 .. k /\ j # k
    <3> HIDE DEF old, k
    <3> QED
      BY <1>2, <1>6
  <2>3. k \in 1 .. k
    BY <1>6
  <2> HIDE DEF buffer, old, k, x
  <2> QED
    BY <1>6, <2>1, <2>2, <2>3
<1>8. w' = [w EXCEPT !.pc = "idle", !.sample = NoTime, !.free = @ - 1,
                     !.head = HeadAfter(w.head, t)]
  BY <1>1 DEF Store, OpenWriters, Header, HeadAfter
<1>9. w'.pc = "idle" /\ w'.block = w.block /\ w'.head = HeadAfter(w.head, t)
  BY <1>1, <1>8 DEF OpenWriters
<1>10. IsOpen' /\ Current' = Current
  BY <1>1, <1>9 DEF IsOpen, Current
<1> HIDE DEF buffer
<1> QED
  BY <1>1, <1>3, <1>4, <1>5, <1>7, <1>9, <1>10

LEMMA StoreOrder ==
    ASSUME IInv, KeptSound, IndexSound, OrderSound, NEW t \in Time \ {0}, Store(t),
           w.pc \in {"idle", "add"}, \A i \in DOMAIN log : log[i].stamp <= t
    PROVE  OrderSound' /\ LineGrows
<1> DEFINE k == w.head.num + 1
           x == Len(log) + 1
           b == w.block
<1>1. /\ Len(log') = x /\ DOMAIN log' = 1 .. x /\ log'[x].stamp = t
      /\ \A i \in DOMAIN log : i \in DOMAIN log' /\ log'[i] = log[i]
      /\ DOMAIN data' = DOMAIN data
      /\ \A c \in DOMAIN data : c # b => data'[c] = data[c]
      /\ DOMAIN data'[b] = 1 .. k /\ data'[b][k] = x /\ Len(data'[b]) = k
      /\ \A j \in DOMAIN data[b] : j # k /\ data'[b][j] = data[b][j]
      /\ UNCHANGED <<blocks, disk, index>>
      /\ w'.pc = "idle" /\ w'.block = b /\ IsOpen' /\ Current' = Current
      /\ w'.head = HeadAfter(w.head, t)
  BY StoreLine
<1>2. /\ IsOpen /\ b \in DOMAIN data /\ Current = b /\ b \in Nat /\ b \in DOMAIN blocks
      /\ w.head \in Header /\ w.head.num \in Nat /\ Len(data[b]) = w.head.num
      /\ HasRoom(w.head)
  BY StoreReady, OpenLine
<1>3. /\ DOMAIN data = 1 .. Len(blocks) /\ Len(blocks) \in Nat /\ Len(log) \in Nat
      /\ DOMAIN log = 1 .. Len(log) /\ \A i \in DOMAIN log : log[i].stamp \in Nat
      /\ \A c \in DOMAIN data : DOMAIN data[c] = 1 .. Len(data[c])
      /\ \A c \in DOMAIN data : \A j \in DOMAIN data[c] : data[c][j] \in DOMAIN log
      /\ DOMAIN blocks = 1 .. Len(blocks)
  BY LineTypes
<1>4. t \in Nat /\ t > 0
  BY TimeAssumption
<1>5. Len(blocks) = b
  BY <1>2 DEF OrderSound, Filled
<1>6. DOMAIN data[b] = 1 .. k - 1 /\ k \in Nat /\ k > 0 /\ x \in Nat
  BY <1>2, <1>3
<1> HIDE DEF k, x, b
<1>7. \A c \in DOMAIN data : \A j \in DOMAIN data'[c] :
         \/ c = b /\ j = k /\ data'[c][j] = x
         \/ j \in DOMAIN data[c] /\ data'[c][j] = data[c][j]
  BY <1>1, <1>6
<1>8. LineGrows
  <2>1. Current' \in Nat /\ Current <= Current'
    BY <1>1, <1>2
  <2>2. ASSUME NEW c \in DOMAIN data
        PROVE  /\ \A j \in DOMAIN data[c] : j \in DOMAIN data'[c] /\ data'[c][j] = data[c][j]
               /\ c < Current => DOMAIN data'[c] = DOMAIN data[c]
    <3>1. CASE c = b
      <4>1. \A j \in 1 .. k - 1 : j \in 1 .. k
        BY <1>6
      <4> QED
        BY <1>1, <1>2, <1>6, <3>1, <4>1
    <3>2. CASE c # b
      BY <1>1, <3>2
    <3> QED
      BY <3>1, <3>2
  <2>3. \A c \in DOMAIN data' : \A j \in DOMAIN data'[c] :
           (c \in DOMAIN data /\ j \in DOMAIN data[c]) \/ data'[c][j] > Len(log)
    BY <1>1, <1>3, <1>7 DEF x
  <2> QED
    BY <1>1, <2>1, <2>2, <2>3 DEF LineGrows
<1>9. InLine'
  <2>1. \A i, j \in DOMAIN log' : i < j => log'[i].stamp <= log'[j].stamp
    <3> SUFFICES ASSUME NEW i \in DOMAIN log', NEW j \in DOMAIN log', i < j
                 PROVE  log'[i].stamp <= log'[j].stamp
      OBVIOUS
    <3>1. i \in DOMAIN log
      BY <1>1, <1>3 DEF x
    <3>2. CASE j \in DOMAIN log
      BY <1>1, <3>1, <3>2 DEF OrderSound, InLine, NoBackInTime
    <3>3. CASE j = x
      BY <1>1, <3>1, <3>3
    <3> QED
      BY <1>1, <1>3, <3>2, <3>3 DEF x
  <2>2. \A i \in DOMAIN log' : log'[i].stamp > 0
    BY <1>1, <1>3, <1>4 DEF OrderSound, InLine, x
  <2>3. ASSUME NEW c \in DOMAIN data', NEW d \in DOMAIN data',
               NEW i \in DOMAIN data'[c], NEW j \in DOMAIN data'[d],
               c < d \/ (c = d /\ i < j)
        PROVE  data'[c][i] < data'[d][j]
    <3>1. c \in DOMAIN data /\ d \in DOMAIN data
      BY <1>1
    <3>2. CASE d = b /\ j = k /\ data'[d][j] = x
      <4>1. ~(c = b /\ i = k)
        BY <1>2, <1>6, <2>3, <3>2
      <4>2. i \in DOMAIN data[c] /\ data'[c][i] = data[c][i]
        BY <1>7, <3>1, <4>1
      <4> QED
        BY <1>3, <3>1, <3>2, <4>2 DEF x
    <3>3. CASE j \in DOMAIN data[d] /\ data'[d][j] = data[d][j]
      <4>1. ~(c = b /\ i = k)
        <5> SUFFICES ASSUME c = b, i = k PROVE FALSE
          OBVIOUS
        <5>1. d = b
          BY <1>3, <1>5, <2>3, <3>1
        <5> QED
          BY <1>2, <1>6, <2>3, <3>3, <5>1
      <4>2. i \in DOMAIN data[c] /\ data'[c][i] = data[c][i]
        BY <1>7, <3>1, <4>1
      <4> QED
        BY <2>3, <3>1, <3>3, <4>2 DEF OrderSound, InLine
    <3> QED
      BY <1>7, <3>1, <3>2, <3>3
  <2> QED
    BY <2>1, <2>2, <2>3 DEF InLine, NoBackInTime
<1>10. PICK h \in Header : h = w.head
  BY <1>2
<1>11. /\ w'.head.num = k /\ w'.head.end_time = t /\ HasRoom(w'.head)
  <2>1. HeadAfter(h, t).num = h.num + 1 /\ HeadAfter(h, t).cap = h.cap
        /\ HeadAfter(h, t).end_time = t
    BY HeadAfterType
  <2> QED
    BY <1>1, <1>2, <1>6, <1>10, <2>1 DEF HasRoom, k
<1>12. Filled'
  <2>1. Len(blocks') = Current'
    BY <1>1, <1>2, <1>5
  <2>2. blocks' # <<>>
    BY <1>1, <1>2, <1>3, <1>5
  <2>3. ASSUME NEW c \in DOMAIN blocks'
        PROVE  /\ Len(data'[c]) = Counted(c)'
               /\ data'[c] # <<>>
               /\ \A v \in Versions(c)' : HasRoom(v)
    <3>1. c \in DOMAIN blocks /\ c \in DOMAIN data
      BY <1>1, <1>3
    <3>2. CASE c = b
      <4>1. Counted(c)' = k
        BY <1>1, <1>11, <3>2 DEF Counted, b
      <4>2. data'[c] # <<>>
        BY <1>1, <1>6, <3>2
      <4>3. \A v \in Versions(c)' : v \in Versions(c) \/ v = w'.head
        BY <1>1 DEF Versions
      <4> QED
        BY <1>1, <1>11, <3>1, <3>2, <4>1, <4>2, <4>3 DEF OrderSound, Filled
    <3>3. CASE c # b
      <4>1. data'[c] = data[c] /\ Counted(c)' = Counted(c) /\ Versions(c)' = Versions(c)
        BY <1>1, <1>2, <3>1, <3>3 DEF Counted, Versions, b
      <4>2. data[c] # <<>>
        BY <1>2, <1>3, <1>5, <3>1, <3>3 DEF OrderSound, Filled
      <4> QED
        BY <3>1, <4>1, <4>2 DEF OrderSound, Filled
    <3> QED
      BY <3>2, <3>3
  <2> QED
    BY <1>1, <2>1, <2>2, <2>3 DEF Filled
<1>13. LatestKnown'
  BY <1>1, <1>3, <1>4, <1>11 DEF LatestKnown, x
<1>14. IndexTells'
  BY <1>1, <1>2, <1>3, <1>5, <1>8, IndexStays
<1> QED
  BY <1>8, <1>9, <1>12, <1>13, <1>14 DEF OrderSound


LEMMA AddToFullOrder ==
    ASSUME IInv, KeptSound, IndexSound, OrderSound, NEW t \in Time \ {0}, AddToFull(t)
    PROVE  OrderSound' /\ LineGrows
<1>1. /\ w.pc = "idle" /\ t >= w.head.end_time /\ w.free = 0
      /\ w' = [w EXCEPT !.pc = "alloc", !.sample = t]
      /\ UNCHANGED <<log, infos, files, blocks, disk, data, index>>
  BY DEF AddToFull, MayAdd
<1>2. IsOpen /\ w \in OpenWriters /\ w.block # 0
  BY <1>1, StoreReady
<1>3. /\ w.block \in DOMAIN blocks /\ w.block \in Nat /\ Current = w.block
      /\ w.head.num \in Nat /\ w.head.cap \in Nat /\ w.head.end_time \in Nat
      /\ Len(data[w.block]) = w.head.num /\ HasRoom(w.head) /\ w.head.num <= w.head.cap
  BY <1>2, OpenLine, TimeAssumption
<1>4. w'.pc = "alloc" /\ w'.block = w.block /\ w'.head = w.head /\ w'.sample = t
  BY <1>1, <1>2 DEF OpenWriters
<1>5. IsOpen' /\ Current' = Current
  BY <1>2, <1>4 DEF IsOpen, Current
<1>6. InLine' /\ LineGrows
  BY <1>1, <1>3, <1>5, SameLine DEF OrderSound
<1>7. data[w.block] # <<>>
  <2>1. w.free = w.head.cap - w.head.num
    BY <1>2 DEF IInv, WriterReady
  <2>2. w.head.num > 0
    BY <1>1, <1>3, <2>1 DEF HasRoom
  <2> QED
    BY <1>3, <2>2
<1>8. \A b \in DOMAIN blocks : Versions(b)' = Versions(b) /\ Counted(b)' = Counted(b)
  BY <1>1, <1>2, <1>4, <1>5 DEF Versions, Counted
<1>9. Filled'
  <2>1. \A b \in DOMAIN blocks : data[b] = <<>> => b > Current
    BY <1>1, <1>3, <1>7 DEF OrderSound, Filled
  <2> QED
    BY <1>1, <1>4, <1>5, <1>8, <2>1 DEF OrderSound, Filled
<1>10. LatestKnown'
  <2>1. \A i \in DOMAIN log : log[i].stamp \in Nat /\ log[i].stamp <= w.head.end_time
    BY <1>1, <1>2, LineTypes DEF OrderSound, LatestKnown
  <2>2. t \in Nat
    BY TimeAssumption
  <2> QED
    BY <1>1, <1>3, <1>4, <2>1, <2>2 DEF LatestKnown
<1>11. IndexTells'
  <2>1. Current <= Len(blocks)
    BY <1>3, LineTypes
  <2> QED
    BY <1>1, <1>5, <1>6, <2>1, IndexStays
<1> QED
  BY <1>6, <1>9, <1>10, <1>11 DEF OrderSound

\* A new block, to which no sample was written.
LEMMA AllocLine ==
    ASSUME IInv, KeptSound, OrderSound, AllocHeader
    PROVE  \E header \in Header :
              /\ header.num = 0 /\ HasRoom(header)
              /\ Len(blocks') = Len(blocks) + 1
              /\ DOMAIN blocks' = 1 .. Len(blocks) + 1
              /\ DOMAIN data' = 1 .. Len(blocks) + 1
              /\ blocks'[Len(blocks) + 1] = header /\ disk'[Len(blocks) + 1] = header
              /\ data'[Len(blocks) + 1] = <<>>
              /\ \A b \in DOMAIN blocks : /\ blocks'[b] = blocks[b] /\ disk'[b] = disk[b]
                                          /\ data'[b] = data[b]
              /\ log' = log /\ index' = index
              /\ w.block = 0 => /\ w'.pc = IF w.sample = NoTime THEN "idle" ELSE "add"
                                /\ w'.block = Len(blocks) + 1
                                /\ w'.head.num = 0 /\ HasRoom(w'.head)
              /\ w.block # 0 => /\ w'.pc = "link" /\ w'.block = w.block /\ w'.head = w.head
                                /\ w'.fresh = Len(blocks) + 1 /\ w'.sample = w.sample
<1>0. PICK L \in Nat : L = Len(blocks) + 1
  BY DEF IInv, TypeOK
<1>1. PICK file, info :
         LET header == NewHeader(w.size, w.type, file)
             made   == [w EXCEPT !.fresh = Len(blocks) + 1, !.freshInfo = info]
         IN  /\ w.pc = "alloc"
             /\ blocks' = Append(blocks, header)
             /\ disk' = Append(disk, header)
             /\ data' = Append(data, <<>>)
             /\ log' = log /\ index' = index
             /\ w' = IF w.block = 0
                     THEN SwitchHeader(made, [header EXCEPT !.info = info])
                     ELSE [made EXCEPT !.pc = "link"]
  BY Zenon DEF AllocHeader
<1> DEFINE header == NewHeader(w.size, w.type, file)
           full   == [header EXCEPT !.info = info]
           made   == [w EXCEPT !.fresh = Len(blocks) + 1, !.freshInfo = info]
<1>2. w \in OpenWriters /\ IsOpen /\ w.size > 0 /\ w.size \in Nat
  BY <1>1, OpenType DEF IInv, WriterReady, IsOpen, OpenWriters
<1>3. header.num = 0 /\ HasRoom(header) /\ full.num = 0 /\ HasRoom(full)
  BY <1>2 DEF NewHeader, HasRoom
<1> HIDE DEF header, full
<1>4. /\ w.block = 0 => /\ w'.pc = (IF w.sample = NoTime THEN "idle" ELSE "add")
                        /\ w'.block = L /\ w'.head = full
      /\ w.block # 0 => /\ w'.pc = "link" /\ w'.block = w.block /\ w'.head = w.head
                        /\ w'.fresh = L /\ w'.sample = w.sample
  <2> DEFINE Made(T) ==
                [pc : {"idle", "add", "alloc", "link", "index", "close"},
                 ctrl : Info, type : DbrType, block : Nat, head : Header,
                 fresh : Nat, freshInfo : T, free : Nat, size : Nat,
                 sample : Time \cup {NoTime}]
  <2>0. w \in Made(Nat \cup {info})
    BY <1>2 DEF OpenWriters
  <2>1. /\ made.fresh = L /\ made.block = w.block /\ made.head = w.head
        /\ made.sample = w.sample
        /\ made \in Made(Nat \cup {info})
    BY <1>0, <2>0
  <2>2. w' = IF w.block = 0 THEN SwitchHeader(made, full)
                            ELSE [made EXCEPT !.pc = "link"]
    BY <1>1 DEF header, full
  <2> HIDE DEF made
  <2>3. CASE w.block = 0
    BY <2>1, <2>2, <2>3 DEF SwitchHeader
  <2>4. CASE w.block # 0
    BY <2>1, <2>2, <2>4
  <2> QED
    BY <2>3, <2>4
<1>5. /\ Len(blocks') = L /\ DOMAIN blocks' = 1 .. L /\ DOMAIN data' = 1 .. L
      /\ disk'[L] = header /\ blocks'[L] = header /\ data'[L] = <<>>
      /\ \A b \in DOMAIN blocks :
            disk'[b] = disk[b] /\ blocks'[b] = blocks[b] /\ data'[b] = data[b]
  <2>1. /\ blocks \in Seq(Header) /\ disk \in Seq(Header) /\ data \in Seq(Seq(Nat))
        /\ Len(data) = Len(blocks) /\ Len(disk) = Len(blocks)
    BY DEF IInv, TypeOK
  <2>2. /\ blocks' = Append(blocks, header) /\ disk' = Append(disk, header)
        /\ data' = Append(data, <<>>)
    BY <1>1 DEF header
  <2> QED
    BY <1>0, <2>1, <2>2
<1>6. header \in Header
  <2>1. IInv'
    BY AllocHeaderKeepsIInv
  <2>2. blocks' \in Seq(Header)
    BY <2>1 DEF IInv, TypeOK
  <2>3. L \in DOMAIN blocks'
    BY <1>0, <1>5, DiskTypes DEF IInv
  <2> QED
    BY <1>5, <2>2, <2>3
<1> QED
  BY <1>0, <1>1, <1>3, <1>4, <1>5, <1>6

LEMMA AllocOrder ==
    ASSUME IInv, KeptSound, IndexSound, OrderSound, OneKind, AllocHeader
    PROVE  OrderSound' /\ LineGrows
<1>1. PICK header \in Header :
              /\ header.num = 0 /\ HasRoom(header)
              /\ Len(blocks') = Len(blocks) + 1
              /\ DOMAIN blocks' = 1 .. Len(blocks) + 1
              /\ DOMAIN data' = 1 .. Len(blocks) + 1
              /\ blocks'[Len(blocks) + 1] = header /\ disk'[Len(blocks) + 1] = header
              /\ data'[Len(blocks) + 1] = <<>>
              /\ \A b \in DOMAIN blocks : /\ blocks'[b] = blocks[b] /\ disk'[b] = disk[b]
                                          /\ data'[b] = data[b]
              /\ log' = log /\ index' = index
              /\ w.block = 0 => /\ w'.pc = IF w.sample = NoTime THEN "idle" ELSE "add"
                                /\ w'.block = Len(blocks) + 1
                                /\ w'.head.num = 0 /\ HasRoom(w'.head)
              /\ w.block # 0 => /\ w'.pc = "link" /\ w'.block = w.block /\ w'.head = w.head
                                /\ w'.fresh = Len(blocks) + 1 /\ w'.sample = w.sample
  BY AllocLine
<1>2. PICK L \in Nat : L = Len(blocks) + 1
  BY DEF IInv, TypeOK
<1>3. /\ DOMAIN data = 1 .. Len(blocks) /\ Len(blocks) \in Nat /\ Len(log) \in Nat
      /\ DOMAIN blocks = 1 .. Len(blocks) /\ Current \in Nat
      /\ DOMAIN data = DOMAIN blocks
      /\ \A c \in DOMAIN data : \A j \in DOMAIN data[c] : data[c][j] \in DOMAIN log
  BY LineTypes
<1>4. /\ w.pc = "alloc" /\ IsOpen /\ w \in OpenWriters /\ Current = w.block
      /\ Len(blocks) = Current
  <2>1. w.pc = "alloc" /\ IsOpen
    BY DEF AllocHeader, IsOpen
  <2>2. w \in OpenWriters /\ Current = w.block
    BY <2>1, OpenType DEF IInv, Current
  <2>3. Len(blocks) = Current + 0
    BY <2>1 DEF OrderSound, Filled
  <2> QED
    BY <1>3, <2>1, <2>2, <2>3
<1>5. /\ L \notin DOMAIN blocks /\ L \in DOMAIN data' /\ L = Current + 1
      /\ DOMAIN data' = DOMAIN blocks \cup {L} /\ DOMAIN blocks' = DOMAIN blocks \cup {L}
  BY <1>1, <1>2, <1>3, <1>4
<1>6. IsOpen' /\ Current' \in Nat /\ Current <= Current' /\ Current' <= L
      /\ Current' = IF w.block = 0 THEN L ELSE w.block
  BY <1>1, <1>2, <1>3, <1>4 DEF IsOpen, Current
<1>7. \A b \in DOMAIN data' : \A j \in DOMAIN data'[b] : b \in DOMAIN data /\ data'[b] = data[b]
  <2>1. DOMAIN data'[L] = {}
    BY <1>1, <1>2
  <2> QED
    BY <1>1, <1>3, <1>5, <2>1
<1>8. LineGrows
  BY <1>1, <1>3, <1>5, <1>6, <1>7 DEF LineGrows
<1>9. InLine'
  <2>1. ASSUME NEW b \in DOMAIN data', NEW c \in DOMAIN data',
               NEW i \in DOMAIN data'[b], NEW j \in DOMAIN data'[c], b < c \/ (b = c /\ i < j)
        PROVE  data'[b][i] < data'[c][j]
    <3>1. /\ b \in DOMAIN data /\ c \in DOMAIN data /\ data'[b] = data[b] /\ data'[c] = data[c]
      BY <1>7
    <3> QED
      BY <2>1, <3>1 DEF OrderSound, InLine
  <2> QED
    BY <1>1, <2>1 DEF OrderSound, InLine, NoBackInTime
<1>10. CASE w.block = 0
  <2>1. w.sample = NoTime /\ blocks = <<>> /\ log = <<>>
    <3>1. Len(blocks) = 0 /\ blocks \in Seq(Header)
      BY <1>4, <1>10 DEF IInv, TypeOK
    <3>2. blocks = <<>>
      BY <3>1
    <3> QED
      BY <1>4, <1>10, <3>2 DEF IInv, WriterReady, OrderSound, Filled
  <2>2. w'.pc = "idle" /\ w'.block = 1 /\ L = 1 /\ Current' = 1 /\ Len(blocks') = 1
        /\ DOMAIN blocks' = {1}
    BY <1>1, <1>2, <1>4, <1>5, <1>6, <1>10, <2>1
  <2>3. /\ Len(data'[1]) = Counted(1)' /\ \A v \in Versions(1)' : HasRoom(v)
    BY <1>1, <1>2, <1>6, <1>10, <2>2 DEF Counted, Versions
  <2>4. Filled'
    BY <1>1, <2>1, <2>2, <2>3 DEF Filled
  <2>5. LatestKnown'
    BY <1>1, <2>1, <2>2 DEF LatestKnown
  <2>6. index = <<>>
    <3>1. 1 .. Len(index) = {}
      <4> SUFFICES ASSUME NEW k \in 1 .. Len(index) PROVE FALSE
        OBVIOUS
      <4>1. Of(index[k]) \in 1 .. Current
        BY DEF OrderSound, IndexTells, Tells
      <4> QED
        BY <1>4, <1>10, <4>1
    <3>2. index \in Seq(Record)
      BY DEF IndexSound
    <3> QED
      BY <3>1, <3>2
  <2>7. IndexTells'
    BY <1>1, <1>6, <2>6 DEF IndexTells, Tells
  <2> QED
    BY <1>8, <1>9, <2>4, <2>5, <2>7 DEF OrderSound
<1>11. CASE w.block # 0
  <2>1. /\ w'.pc = "link" /\ w'.block = w.block /\ w'.head = w.head /\ w'.fresh = L
        /\ w'.sample = w.sample /\ Current' = Current /\ Len(blocks') = L
    BY <1>1, <1>2, <1>4, <1>6, <1>11
  <2>2. \A b \in DOMAIN blocks : Versions(b)' = Versions(b) /\ Counted(b)' = Counted(b)
    BY <1>1, <1>4, <1>6, <2>1 DEF Versions, Counted
  <2>3. /\ Len(data'[L]) = Counted(L)' /\ \A v \in Versions(L)' : HasRoom(v)
    BY <1>1, <1>2, <1>4, <1>5, <1>6, <2>1 DEF Counted, Versions
  <2>4. \A b \in DOMAIN blocks : data[b] = <<>> => b > Current
    BY <1>4 DEF OrderSound, Filled
  <2>5. L > Current' /\ blocks' # <<>>
    BY <1>2, <1>3, <1>5, <2>1
  <2>6. Filled'
    BY <1>1, <1>3, <1>5, <2>1, <2>2, <2>3, <2>4, <2>5 DEF OrderSound, Filled
  <2>7. LatestKnown'
    BY <1>1, <1>3, <1>4, <1>11, <2>1 DEF OrderSound, LatestKnown
  <2>8. IndexTells'
    BY <1>1, <1>3, <1>4, <1>6, <1>8, <2>1, IndexStays
  <2> QED
    BY <1>8, <1>9, <2>6, <2>7, <2>8 DEF OrderSound
<1> QED
  BY <1>10, <1>11


LEMMA LinkOrder ==
    ASSUME IInv, KeptSound, IndexSound, OrderSound, LinkHeader
    PROVE  OrderSound' /\ LineGrows
<1> DEFINE linked == [w.head EXCEPT !.next = w.fresh]
<1>1. /\ w.pc = "link" /\ blocks' = [blocks EXCEPT ![w.block] = linked]
      /\ w' = [w EXCEPT !.pc = "index", !.head = linked]
      /\ UNCHANGED <<log, infos, files, disk, data, index>>
  BY DEF LinkHeader
<1>2. IsOpen /\ w \in OpenWriters /\ w.block # 0 /\ w.fresh \in Nat
  <2>1. IsOpen /\ w \in OpenWriters
    BY <1>1, OpenType DEF IInv, IsOpen
  <2> QED
    BY <1>1, <2>1 DEF IInv, WriterReady, OpenWriters
<1>3. /\ w.block \in DOMAIN blocks /\ w.block \in Nat /\ Current = w.block
      /\ w.head \in Header /\ HasRoom(w.head)
  BY <1>2, OpenLine
<1>4. linked.num = w.head.num /\ HasRoom(linked)
  BY <1>3 DEF Header, HasRoom
<1> HIDE DEF linked
<1>5. /\ w'.pc = "index" /\ w'.block = w.block /\ w'.head = linked /\ w'.sample = w.sample
      /\ w'.fresh = w.fresh
  BY <1>1, <1>2 DEF OpenWriters
<1>6. IsOpen' /\ Current' = Current
  BY <1>2, <1>5 DEF IsOpen, Current
<1>7. InLine' /\ LineGrows
  BY <1>1, <1>3, <1>6, SameLine DEF OrderSound
<1>8. /\ DOMAIN blocks' = DOMAIN blocks /\ Len(blocks') = Len(blocks)
      /\ blocks'[w.block] = linked /\ Len(blocks) \in Nat
      /\ \A b \in DOMAIN blocks : b # w.block => blocks'[b] = blocks[b]
      /\ Current <= Len(blocks)
  <2>1. blocks \in Seq(Header)
    BY DEF IInv, TypeOK
  <2>2. w.block \in 1 .. Len(blocks)
    BY <1>3, <2>1
  <2> QED
    BY <1>1, <1>3, <2>1, <2>2
<1>9. ASSUME NEW b \in DOMAIN blocks
      PROVE  /\ Counted(b)' = Counted(b)
             /\ \A h \in Versions(b)' : HasRoom(h)
  <2>1. Counted(b)' = Counted(b)
    BY <1>2, <1>4, <1>5, <1>6, <1>8 DEF Counted
  <2>2. \A h \in Versions(b)' : h \in Versions(b) \/ h = linked
    BY <1>1, <1>2, <1>5, <1>6, <1>8 DEF Versions
  <2>3. \A h \in Versions(b) : HasRoom(h)
    BY DEF OrderSound, Filled
  <2> QED
    BY <1>4, <2>1, <2>2, <2>3
<1>10. Filled'
  <2>1. \A b \in DOMAIN blocks : data[b] = <<>> => b > Current
    BY <1>1 DEF OrderSound, Filled
  <2>2. Len(blocks) = Current + 1 /\ w.fresh = Len(blocks)
    BY <1>1 DEF OrderSound, Filled
  <2>3. blocks' # <<>>
    BY <1>3, <1>8
  <2>4. \A b \in DOMAIN blocks : Len(data[b]) = Counted(b)
    BY DEF OrderSound, Filled
  <2> QED
    BY <1>1, <1>5, <1>6, <1>8, <1>9, <2>1, <2>2, <2>3, <2>4 DEF Filled
<1>11. LatestKnown'
  <2>1. /\ w.sample \in Time \ {0} /\ \A i \in DOMAIN log : log[i].stamp <= w.sample
    <3>1. Len(blocks) > 0
      <4>1. DOMAIN blocks = 1 .. Len(blocks)
        BY LineTypes
      <4> QED
        BY <1>3, <1>8, <4>1
    <3> QED
      BY <1>1, <1>2, <3>1 DEF OrderSound, LatestKnown
  <2> QED
    BY <1>1, <1>5, <2>1 DEF LatestKnown
<1>12. IndexTells'
  BY <1>1, <1>6, <1>7, <1>8, IndexStays
<1> QED
  BY <1>7, <1>10, <1>11, <1>12 DEF OrderSound

LEMMA CloseHeaderOrder ==
    ASSUME IInv, KeptSound, IndexSound, OrderSound, CloseHeader
    PROVE  OrderSound' /\ LineGrows
<1>1. /\ w.pc = "idle" /\ blocks' = [blocks EXCEPT ![w.block] = w.head]
      /\ w' = [w EXCEPT !.pc = "close"]
      /\ UNCHANGED <<log, infos, files, disk, data, index>>
  BY DEF CloseHeader
<1>2. IsOpen /\ w \in OpenWriters /\ w.block # 0
  BY <1>1, StoreReady
<1>3. /\ w.block \in DOMAIN blocks /\ w.block \in Nat /\ Current = w.block
      /\ w.head \in Header /\ HasRoom(w.head)
  BY <1>2, OpenLine
<1>4. w'.pc = "close" /\ w'.block = w.block /\ w'.head = w.head
  BY <1>1, <1>2 DEF OpenWriters
<1>5. IsOpen' /\ Current' = Current
  BY <1>2, <1>4 DEF IsOpen, Current
<1>6. InLine' /\ LineGrows
  BY <1>1, <1>3, <1>5, SameLine DEF OrderSound
<1>7. /\ DOMAIN blocks' = DOMAIN blocks /\ Len(blocks') = Len(blocks)
      /\ blocks'[w.block] = w.head /\ Len(blocks) \in Nat
      /\ \A b \in DOMAIN blocks : b # w.block => blocks'[b] = blocks[b]
      /\ Current <= Len(blocks) /\ Len(blocks) > 0
  <2>1. blocks \in Seq(Header)
    BY DEF IInv, TypeOK
  <2>2. w.block \in 1 .. Len(blocks)
    BY <1>3, <2>1
  <2> HIDE DEF Header
  <2> QED
    BY <1>1, <1>3, <2>1, <2>2
<1>8. ASSUME NEW b \in DOMAIN blocks
      PROVE  /\ Counted(b)' = Counted(b)
             /\ \A h \in Versions(b)' : HasRoom(h)
  <2>1. Counted(b)' = Counted(b)
    BY <1>2, <1>4, <1>5, <1>7 DEF Counted
  <2>2. \A h \in Versions(b)' : h \in Versions(b) \/ h = w.head
    BY <1>1, <1>2, <1>4, <1>5, <1>7 DEF Versions
  <2>3. \A h \in Versions(b) : HasRoom(h)
    BY DEF OrderSound, Filled
  <2> QED
    BY <1>3, <2>1, <2>2, <2>3
<1>9. Filled'
  <2>1. \A b \in DOMAIN blocks : data[b] = <<>> => b > Current \/ (b = Current /\ b = 1)
    BY <1>1 DEF OrderSound, Filled
  <2>2. Len(blocks) = Current + 0
    BY <1>1 DEF OrderSound, Filled
  <2>3. blocks' # <<>>
    BY <1>3, <1>7
  <2>4. \A b \in DOMAIN blocks : Len(data[b]) = Counted(b)
    BY DEF OrderSound, Filled
  <2> QED
    BY <1>1, <1>3, <1>4, <1>5, <1>7, <1>8, <2>1, <2>2, <2>3, <2>4 DEF Filled
<1>10. LatestKnown'
  <2>1. \A i \in DOMAIN log : log[i].stamp <= w.head.end_time
    BY <1>1, <1>2 DEF OrderSound, LatestKnown
  <2> QED
    BY <1>1, <1>4, <1>5, <2>1 DEF LatestKnown
<1>11. IndexTells'
  BY <1>1, <1>5, <1>6, <1>7, IndexStays
<1> QED
  BY <1>6, <1>9, <1>10, <1>11 DEF OrderSound

\* The index after the block of the writer was indexed.
LEMMA IndexedLine ==
    ASSUME IInv, KeptSound, IndexSound, OrderSound, w.pc \in {"index", "close"},
           NEW new, new = UpdateLastDatablock(index, w.head.begin_time, w.head.end_time, w.block)
    PROVE  /\ new \in Seq(Record) /\ new # <<>> /\ Tells(new)
           /\ LastDatablock(new) = w.block /\ Last(new) = new[Len(new)] /\ Done(Last(new))
<1> DEFINE b == w.block
           s == w.head.begin_time
           e == w.head.end_time
           x == [s |-> s, e |-> e, blocks |-> <<b>>]
           n == Len(index)
<1>1. IsOpen /\ b # 0
  BY DEF IsOpen, IInv, WriterReady
<1>2. /\ Current = b /\ b \in DOMAIN data /\ b \in Nat
      /\ w.head.num \in Nat /\ s \in Time /\ e \in Time
      /\ Len(data[b]) = w.head.num /\ HasRoom(w.head)
      /\ w.head.num > 0 => s = Stamp(b, 1) /\ e = Stamp(b, w.head.num)
      /\ \A i, j \in 1 .. w.head.num : i < j => Stamp(b, i) <= Stamp(b, j)
  BY <1>1, OpenLine
<1>3. /\ DOMAIN data = 1 .. Len(blocks) /\ Len(blocks) \in Nat
      /\ \A c \in DOMAIN data : \A j \in DOMAIN data[c] : data[c][j] \in DOMAIN log
      /\ \A c \in DOMAIN data : \A j \in DOMAIN data[c] : Stamp(c, j) \in Nat
      /\ \A c \in DOMAIN data : DOMAIN data[c] = 1 .. Len(data[c])
      /\ s \in Nat /\ e \in Nat
  BY <1>2, LineTypes, TimeAssumption
<1>4. index \in Seq(Record) /\ n \in Nat /\ DOMAIN index = 1 .. n /\ Tells(index)
  BY DEF IndexSound, OrderSound, IndexTells
<1>5. DOMAIN data[b] = 1 .. w.head.num
  BY <1>2, <1>3
<1>6. \A c, d \in DOMAIN data : \A i \in DOMAIN data[c], j \in DOMAIN data[d] :
         c < d => Stamp(c, i) <= Stamp(d, j)
  <2> SUFFICES ASSUME NEW c \in DOMAIN data, NEW d \in DOMAIN data,
                      NEW i \in DOMAIN data[c], NEW j \in DOMAIN data[d], c < d
               PROVE  Stamp(c, i) <= Stamp(d, j)
    OBVIOUS
  <2>1. data[c][i] < data[d][j] /\ data[c][i] \in DOMAIN log /\ data[d][j] \in DOMAIN log
    BY <1>3 DEF OrderSound, InLine
  <2> QED
    BY <2>1 DEF OrderSound, InLine, NoBackInTime, Stamp
<1>7. \A c \in DOMAIN data : \A j \in DOMAIN data[c] : Stamp(c, j) > 0
  BY <1>3 DEF OrderSound, InLine, Stamp
\* the new record is of samples that are after those of all others, unless the
\* last one was of this block
<1>8. ASSUME NEW k \in 1 .. n
      PROVE  /\ index[k] \in Record /\ index[k].s \in Nat /\ index[k].e \in Nat
             /\ index[k].blocks = <<Of(index[k])>>
             /\ Of(index[k]) \in DOMAIN data /\ Of(index[k]) <= b /\ Of(index[k]) \in Nat
             /\ ~Empty(index[k]) => \E j \in DOMAIN data[Of(index[k])] :
                                       index[k].e = Stamp(Of(index[k]), j)
  <2>1. index[k] \in Record
    BY <1>4
  <2>2. /\ Of(index[k]) \in 1 .. Current /\ index[k].blocks = <<Of(index[k])>>
        /\ ~Empty(index[k]) => \E j \in DOMAIN data[Of(index[k])] :
                                  index[k].e = Stamp(Of(index[k]), j)
    BY <1>4 DEF Tells
  <2>3. index[k].s \in Nat /\ index[k].e \in Nat
    BY <2>1, TimeAssumption DEF Record
  <2>4. PICK c : c = Of(index[k])
    OBVIOUS
  <2>5. PICK d \in Nat : d = b /\ d \in DOMAIN data
    BY <1>2
  <2>6. c \in 1 .. d
    BY <1>2, <2>2, <2>4, <2>5
  <2>7. c \in DOMAIN data /\ c <= d /\ c \in Nat
    BY <1>3, <2>5, <2>6
  <2> QED
    BY <2>1, <2>2, <2>3, <2>4, <2>5, <2>7
<1>9. \A k \in 1 .. n : /\ Of(index[k]) \in Nat /\ Of(index[k]) <= b
                       /\ index[k].s \in Nat /\ index[k].e \in Nat
  BY <1>8
<1> DEFINE L == index[n]
           stretched == /\ index # <<>> /\ L.s = s /\ L.e <= e /\ L.blocks = <<b>>
           behind    == \A k \in 1 .. n : index[k].e <= s
<1>10. \A k, l \in 1 .. n : k < l =>
          \/ /\ k = 1 /\ Empty(index[k]) /\ Of(index[k]) = 1
             /\ l = 2 => Of(index[l]) = 1
          \/ ~Empty(index[k]) /\ Of(index[k]) < Of(index[l]) /\ Done(index[k])
  BY <1>4 DEF Tells
<1>11. \A k \in 1 .. n : Empty(index[k]) => k = 1 /\ Of(index[k]) = 1
  BY <1>4 DEF Tells
<1>12. n # 0 => n \in 1 .. n /\ index # <<>>
  BY <1>4
<1>13. w.head.num = 0 => /\ b = 1 /\ s = 0 /\ e = 0
                        /\ (n = 0 \/ (n = 1 /\ stretched))
  <2> HAVE w.head.num = 0
  <2>1. data[b] = <<>>
    <3>1. data[b] \in Seq(Nat)
      BY <1>2, LineTypes
    <3> QED
      BY <1>2, <3>1
  <2>2. b = 1
    <3>1. b \in DOMAIN blocks
      BY <1>2, <1>3, LineTypes
    <3>2. w.pc # "add" /\ w.pc # "closed"
      OBVIOUS
    <3> QED
      BY <1>2, <2>1, <3>1, <3>2 DEF OrderSound, Filled
  <2>3. s = 0 /\ e = 0
    BY <1>2 DEF HasRoom
  <2>4. \A l \in 1 .. n : Of(index[l]) = b
    <3>1. \A l \in 1 .. n : Of(index[l]) \in 1 .. Current
      BY <1>4 DEF Tells
    <3> QED
      BY <1>2, <2>2, <3>1
  <2>5. \A l \in 1 .. n : Empty(index[l])
    BY <1>4, <2>1, <2>4 DEF Tells
  <2>6. n # 0 => n = 1 /\ L.s = 0 /\ L.e = 0 /\ L.blocks = <<b>>
    <3> HAVE n # 0
    <3>1. n \in 1 .. n
      BY <1>12
    <3> QED
      BY <1>8, <1>11, <2>4, <2>5, <3>1 DEF Empty
  <2> QED
    BY <1>12, <2>2, <2>3, <2>6
<1>14. w.head.num > 0 => s > 0 /\ e > 0 /\ 1 \in DOMAIN data[b]
  <2> HAVE w.head.num > 0
  <2>1. 1 \in DOMAIN data[b] /\ w.head.num \in DOMAIN data[b]
    BY <1>2, <1>5
  <2> QED
    BY <1>2, <1>7, <2>1
\* the last record is of this block, or it is complete
<1>15. ASSUME n # 0, w.head.num > 0
       PROVE  \/ Of(L) = b /\ ~Empty(L) /\ stretched
              \/ n = 1 /\ Of(L) = b /\ b = 1 /\ Empty(L)
              \/ Of(L) < b /\ ~Empty(L) /\ Done(L)
  <2>1. n \in 1 .. n
    BY <1>12, <1>15
  <2>2. L.blocks = <<Of(L)>> /\ L.e \in Nat
    BY <1>8, <2>1
  <2>3. CASE Empty(L) /\ Of(L) = b
    BY <1>11, <2>1, <2>3
  <2>4. CASE ~Empty(L) /\ Of(L) = b
    <3>1. L.s = Stamp(b, 1)
      BY <1>4, <2>1, <2>4 DEF Tells
    <3>2. PICK j \in DOMAIN data[b] : L.e = Stamp(b, j)
      BY <1>8, <2>1, <2>4
    <3>3. j \in 1 .. w.head.num /\ w.head.num \in 1 .. w.head.num /\ Stamp(b, j) \in Nat
      BY <1>2, <1>3, <1>5, <1>15
    <3>4. Stamp(b, j) <= Stamp(b, w.head.num)
      <4>1. CASE j = w.head.num
        BY <3>3, <4>1
      <4>2. CASE j # w.head.num
        BY <1>2, <3>3, <4>2
      <4> QED
        BY <4>1, <4>2
    <3> QED
      BY <1>2, <1>12, <1>15, <2>2, <2>4, <3>1, <3>2, <3>4
  <2>5. CASE Of(L) < b
    <3>1. Last(index) = L /\ LastDatablock(index) < Current
      BY <1>2, <2>5 DEF Last, LastDatablock, Of
    <3>2. Done(L)
      BY <1>12, <1>15, <3>1 DEF OrderSound, IndexTells
    <3>3. ~Empty(L)
      <4> SUFFICES ASSUME Empty(L) PROVE FALSE
        OBVIOUS
      <4>1. Of(L) = 1 /\ L.e = 0
        BY <1>11, <2>1 DEF Empty
      <4>2. 1 \in DOMAIN data /\ 1 \in DOMAIN blocks
        BY <1>8, <2>1, <4>1, LineTypes
      <4>3. DOMAIN data[1] = {}
        <5> SUFFICES ASSUME NEW j \in DOMAIN data[1] PROVE FALSE
          OBVIOUS
        <5>1. Stamp(1, j) <= 0
          BY <3>2, <4>1 DEF Done
        <5> QED
          BY <1>3, <1>7, <4>2, <5>1
      <4>4. data[1] = <<>>
        <5>1. data[1] \in Seq(Nat)
          BY <4>2, LineTypes
        <5>2. Len(data[1]) \in Nat /\ DOMAIN data[1] = 1 .. Len(data[1])
          BY <1>3, <4>2, <5>1
        <5>3. ~(1 <= Len(data[1]))
          BY <4>3, <5>2
        <5> QED
          BY <5>1, <5>2, <5>3
      <4>5. 1 < Current /\ Current \in Nat
        BY <1>2, <2>5, <4>1
      <4> QED
        BY <4>2, <4>4, <4>5 DEF OrderSound, Filled
    <3> QED
      BY <2>5, <3>2, <3>3
  <2> QED
    BY <1>2, <1>9, <2>1, <2>3, <2>4, <2>5
<1>16. ASSUME n # 0, w.head.num > 0, Of(L) < b
       PROVE  \A k \in 1 .. n : Empty(index[k]) \/ Of(index[k]) < b
  <2>1. n \in 1 .. n
    BY <1>12, <1>16
  <2> SUFFICES ASSUME NEW k \in 1 .. n, ~Empty(index[k]) PROVE Of(index[k]) < b
    OBVIOUS
  <2>2. k = n \/ Of(index[k]) < Of(L)
    <3>1. CASE k = n
      BY <3>1
    <3>2. CASE k < n
      BY <1>10, <2>1, <3>2
    <3>3. n \in Nat
      BY <1>4
    <3>4. k = n \/ k < n
      BY <3>3
    <3> QED
      BY <3>1, <3>2, <3>4
  <2> QED
    BY <1>2, <1>9, <1>16, <2>1, <2>2
<1>17. stretched \/ behind
  <2>1. CASE n = 0
    BY <2>1
  <2>2. CASE n # 0 /\ w.head.num = 0
    BY <1>13, <2>2
  <2>3. CASE n # 0 /\ w.head.num > 0 /\ Empty(L) /\ n = 1
    BY <1>3, <2>3 DEF Empty
  <2>4. CASE n # 0 /\ w.head.num > 0 /\ Of(L) < b
    <3> SUFFICES ASSUME NEW k \in 1 .. n PROVE index[k].e <= s
      OBVIOUS
    <3>1. CASE Empty(index[k])
      BY <1>3, <3>1 DEF Empty
    <3>2. CASE ~Empty(index[k])
      <4>1. Of(index[k]) < b
        BY <1>16, <2>4, <3>2
      <4>2. PICK j \in DOMAIN data[Of(index[k])] : index[k].e = Stamp(Of(index[k]), j)
        BY <1>8, <3>2
      <4> QED
        BY <1>2, <1>6, <1>8, <1>14, <2>4, <4>1, <4>2
    <3> QED
      BY <3>1, <3>2
  <2> QED
    BY <1>2, <1>15, <2>1, <2>2, <2>3, <2>4
<1>18. PICK y \in Seq(Record) : y = index
  BY <1>4
<1>19. PICK m \in Nat :
          /\ new \in Seq(Record) /\ Len(new) = m + 1 /\ new[m + 1] = x
          /\ \A k \in 1 .. m : k \in 1 .. n /\ new[k] = index[k]
          /\ (m = n /\ ~stretched) \/ (m + 1 = n /\ L.s = s /\ L.blocks = <<b>>)
  <2>1. PICK s0 \in Time, e0 \in Time, b0 \in Nat : s0 = s /\ e0 = e /\ b0 = b
    BY <1>2
  <2>2. \/ /\ y # <<>> /\ y[Len(y)].s = s0 /\ y[Len(y)].e <= e0
           /\ y[Len(y)].blocks = <<b0>>
        \/ \A k \in 1 .. Len(y) : y[k].e <= s0
    BY <1>17, <1>18, <2>1
  <2>3. new = UpdateLastDatablock(y, s0, e0, b0)
    BY <1>18, <2>1
  <2>4. /\ new \in Seq(Record) /\ Len(new) > 0 /\ new[Len(new)] = [s |-> s0, e |-> e0, blocks |-> <<b0>>]
        /\ \A k \in 1 .. Len(new) : k < Len(new) => k \in 1 .. Len(y) /\ new[k] = y[k]
        /\ \/ /\ Len(new) = Len(y) + 1
              /\ ~(/\ y # <<>> /\ y[Len(y)].s = s0 /\ y[Len(y)].e <= e0
                   /\ y[Len(y)].blocks = <<b0>>)
           \/ Len(new) = Len(y) /\ y[Len(new)].s = s0 /\ y[Len(new)].blocks = <<b0>>
    <3> HIDE <1>18
    <3> QED
      BY <2>2, <2>3, UpdateAtEnd
  <2>5. PICK m \in Nat : Len(new) = m + 1
    <3>1. Len(new) \in Nat
      BY <2>4
    <3>2. Len(new) > 0
      BY <2>4
    <3>3. Len(new) - 1 \in Nat /\ Len(new) = (Len(new) - 1) + 1
      BY <3>1, <3>2
    <3> QED
      BY <3>3
  <2>6. \A k \in 1 .. m : k \in 1 .. Len(new) /\ k < Len(new)
    BY <2>5
  <2>7. (m = n /\ ~stretched) \/ (m + 1 = n /\ L.s = s /\ L.blocks = <<b>>)
    <3>1. n \in Nat /\ Len(y) = n
      BY <1>4, <1>18
    <3>2. CASE /\ Len(new) = n + 1
               /\ ~(/\ y # <<>> /\ y[Len(y)].s = s0 /\ y[Len(y)].e <= e0
                    /\ y[Len(y)].blocks = <<b0>>)
      <4>1. m = n
        BY <2>5, <3>1, <3>2
      <4>2. ~stretched
        BY <1>18, <2>1, <3>1, <3>2
      <4> QED
        BY <4>1, <4>2
    <3>3. CASE Len(new) = n /\ y[Len(new)].s = s0 /\ y[Len(new)].blocks = <<b0>>
      BY <1>18, <2>1, <2>5, <3>1, <3>3
    <3> QED
      BY <2>4, <3>1, <3>2, <3>3
  <2> QED
    BY <1>18, <2>1, <2>4, <2>5, <2>6, <2>7
<1>20. /\ new # <<>> /\ Last(new) = x /\ new[Len(new)] = x /\ Of(x) = b
       /\ x.s = s /\ x.e = e /\ x.blocks = <<b>>
  <2>1. new # <<>>
    BY <1>19
  <2>2. Last(new) = new[Len(new)]
    BY DEF Last
  <2>3. Of(x) = b
    BY DEF Of
  <2> QED
    BY <1>19, <2>1, <2>2, <2>3
<1>21. \A j \in DOMAIN data[b] : Stamp(b, j) <= e
  <2> SUFFICES ASSUME NEW j \in DOMAIN data[b] PROVE Stamp(b, j) <= e
    OBVIOUS
  <2>1. j \in 1 .. w.head.num /\ w.head.num \in 1 .. w.head.num /\ Stamp(b, j) \in Nat
    BY <1>2, <1>3, <1>5
  <2>2. CASE j = w.head.num
    BY <1>2, <1>3, <2>1, <2>2
  <2>3. CASE j # w.head.num
    BY <1>2, <2>1, <2>3
  <2> QED
    BY <2>2, <2>3
<1>22. Done(x)
  BY <1>20, <1>21 DEF Done
\* a complete record that is not empty is of an earlier block
<1>23. ASSUME NEW k \in 1 .. m, ~Empty(index[k])
       PROVE  Of(index[k]) < b /\ Done(index[k])
  <2>1. k \in 1 .. n /\ n # 0
    <3>1. k \in 1 .. n
      BY <1>19
    <3> QED
      BY <1>4, <3>1
  <2>2. n \in 1 .. n /\ n \in Nat
    BY <1>4, <2>1
  <2>3. w.head.num > 0
    <3> SUFFICES ASSUME w.head.num = 0 PROVE FALSE
      BY <1>2
    <3>1. n = 1 /\ L.s = 0 /\ L.e <= 0
      BY <1>13, <2>1
    <3>2. k = n
      BY <2>1, <3>1
    <3>3. L.e \in Nat
      BY <1>9, <2>2
    <3> QED
      BY <1>23, <3>1, <3>2, <3>3 DEF Empty
  <2>4. CASE k < n
    <3>1. Of(index[k]) < Of(L) /\ Done(index[k])
      BY <1>10, <1>23, <2>1, <2>2, <2>4
    <3>2. Of(L) <= b /\ Of(L) \in Nat /\ Of(index[k]) \in Nat
      BY <1>9, <2>1, <2>2
    <3> QED
      BY <1>2, <3>1, <3>2
  <2>5. CASE k = n
    <3>1. m = n
      BY <1>19, <2>2, <2>5
    <3>2. Of(L) < b /\ Done(L)
      <4>1. ~stretched
        <5>1. n \in Nat
          BY <1>4
        <5>2. m + 1 # n
          BY <3>1, <5>1
        <5> QED
          BY <1>19, <5>2
      <4> QED
        BY <1>15, <1>23, <2>1, <2>3, <2>5, <4>1
    <3> QED
      BY <2>5, <3>2
  <2> QED
    BY <2>1, <2>2, <2>4, <2>5
<1>24. ASSUME NEW k \in 1 .. m, Empty(index[k])
       PROVE  k = 1 /\ Of(index[k]) = 1 /\ (m + 1 = 2 => b = 1)
  <2>1. k \in 1 .. n
    BY <1>19
  <2>2. k = 1 /\ Of(index[k]) = 1
    BY <1>11, <1>24, <2>1
  <2>3. ASSUME m = 1 PROVE b = 1
    <3>1. n \in Nat
      BY <1>4
    <3>2. CASE m = n /\ ~stretched
      <4>1. n = 1 /\ L = index[k]
        BY <2>2, <2>3, <3>2
      <4>2. w.head.num > 0
        BY <1>2, <1>13, <3>2, <4>1
      <4> QED
        BY <1>15, <1>24, <2>2, <3>2, <4>1, <4>2
    <3>3. CASE m + 1 = n /\ L.s = s /\ L.blocks = <<b>>
      <4>0. n = 2
        BY <2>3, <3>1, <3>3
      <4>1. n = 2 /\ n \in 1 .. n /\ k < n
        BY <2>2, <4>0
      <4>2. Of(L) = 1
        BY <1>10, <1>24, <2>1, <4>1
      <4>3. Of(L) = b
        BY <3>3 DEF Of
      <4> QED
        BY <4>2, <4>3
    <3> QED
      BY <1>19, <3>2, <3>3
  <2> QED
    BY <2>2, <2>3
<1>25. /\ ~Empty(x) => /\ data[b] # <<>> /\ s = Stamp(b, 1)
                       /\ \E j \in DOMAIN data[b] : e = Stamp(b, j)
       /\ Empty(x) => m = 0 /\ b = 1
  <2>1. CASE w.head.num = 0
    <3>1. Empty(x) /\ b = 1
      BY <1>13, <1>20, <2>1 DEF Empty
    <3>2. m = 0
      <4>1. CASE m = n /\ ~stretched
        BY <1>13, <2>1, <4>1
      <4>2. CASE m + 1 = n /\ L.s = s /\ L.blocks = <<b>>
        BY <1>13, <2>1, <4>2
      <4> QED
        BY <1>19, <4>1, <4>2
    <3> QED
      BY <3>1, <3>2
  <2>2. CASE w.head.num > 0
    <3>1. ~Empty(x) /\ 1 \in DOMAIN data[b] /\ w.head.num \in DOMAIN data[b]
      BY <1>2, <1>3, <1>5, <1>14, <1>20, <2>2 DEF Empty
    <3>2. data[b] # <<>>
      BY <3>1
    <3> QED
      BY <1>2, <2>2, <3>1, <3>2
  <2> QED
    BY <1>2, <2>1, <2>2
<1>26. Tells(new)
  <2>1. ASSUME NEW k \in 1 .. m + 1
        PROVE  \/ k \in 1 .. m /\ k \in 1 .. n /\ new[k] = index[k]
               \/ k = m + 1 /\ new[k] = x
    BY <1>19
  <2>2. ASSUME NEW k \in 1 .. m + 1
        PROVE  /\ new[k].blocks = <<Of(new[k])>> /\ Of(new[k]) \in 1 .. Current
               /\ IF Empty(new[k])
                  THEN k = 1 /\ Of(new[k]) = 1
                  ELSE /\ data[Of(new[k])] # <<>>
                       /\ new[k].s = Stamp(Of(new[k]), 1)
                       /\ \E j \in DOMAIN data[Of(new[k])] : new[k].e = Stamp(Of(new[k]), j)
    <3>1. CASE k \in 1 .. n /\ new[k] = index[k]
      BY <1>4, <3>1 DEF Tells
    <3>2. CASE k = m + 1 /\ new[k] = x
      <4>1. b \in 1 .. Current
        BY <1>1, <1>2
      <4> QED
        BY <1>20, <1>25, <3>2, <4>1
    <3> QED
      BY <2>1, <3>1, <3>2
  <2>3. ASSUME NEW k \in 1 .. m + 1, NEW l \in 1 .. m + 1, k < l
        PROVE  IF Empty(new[k]) THEN l = 2 => Of(new[l]) = 1
               ELSE Of(new[k]) < Of(new[l]) /\ Done(new[k])
    <3>1. k \in 1 .. m /\ k \in 1 .. n /\ new[k] = index[k]
      BY <1>19, <2>3
    <3>2. CASE l \in 1 .. n /\ new[l] = index[l]
      BY <1>4, <2>3, <3>1, <3>2 DEF Tells
    <3>3. CASE l = m + 1 /\ new[l] = x
      <4>1. Of(new[l]) = b
        BY <1>20, <3>3
      <4> QED
        BY <1>23, <1>24, <3>1, <3>3, <4>1
    <3> QED
      BY <2>1, <3>2, <3>3
  <2> QED
    BY <1>19, <2>2, <2>3 DEF Tells
<1> QED
  <2>1. LastDatablock(new) = b
    BY <1>20 DEF LastDatablock
  <2> QED
    BY <1>19, <1>20, <1>22, <1>26, <2>1

LEMMA IndexHeaderOrder ==
    ASSUME IInv, KeptSound, IndexSound, OrderSound, IndexHeader
    PROVE  OrderSound' /\ LineGrows
<1> DEFINE fresh == [blocks[w.fresh] EXCEPT !.info = w.freshInfo, !.prev = w.block]
<1>1. /\ w.pc = "index"
      /\ index' = UpdateLastDatablock(index, w.head.begin_time, w.head.end_time, w.block)
      /\ w' = SwitchHeader(w, fresh)
      /\ UNCHANGED <<log, infos, files, blocks, disk, data>>
  BY DEF IndexHeader
<1>2. IsOpen /\ w \in OpenWriters /\ w.block # 0 /\ FreshIsReady
  BY <1>1, OpenType DEF IInv, IsOpen, WriterReady
<1>3. /\ w.block \in DOMAIN blocks /\ w.block \in Nat /\ Current = w.block
      /\ w.head \in Header
  BY <1>2, OpenLine
<1>4. /\ Len(blocks) \in Nat /\ DOMAIN blocks = 1 .. Len(blocks) /\ DOMAIN data = 1 .. Len(blocks)
      /\ Len(blocks) = w.block + 1 /\ w.fresh = Len(blocks) /\ blocks[w.block] = w.head
  BY <1>1, <1>3, LineTypes DEF OrderSound, Filled
<1>5. w.fresh \in DOMAIN blocks /\ w.fresh # w.block /\ blocks[w.fresh] \in Header
  <2>1. w.fresh \in DOMAIN blocks /\ w.fresh # w.block
    BY <1>3, <1>4
  <2>2. blocks \in Seq(Header)
    BY DEF IInv, TypeOK
  <2> HIDE DEF Header
  <2> QED
    BY <2>1, <2>2
<1>6. HasRoom(blocks[w.fresh])
  BY <1>5 DEF OrderSound, Filled, Versions
<1>7. HasRoom(fresh) /\ fresh.num = blocks[w.fresh].num
  BY <1>5, <1>6 DEF Header, HasRoom
<1> HIDE DEF fresh
<1>8. w.sample \in Time \ {0} /\ \A i \in DOMAIN log : log[i].stamp <= w.sample
  <2>1. Len(blocks) > 0
    BY <1>3, <1>4
  <2> QED
    BY <1>1, <1>2, <2>1 DEF OrderSound, LatestKnown
<1>9. /\ w'.pc = "add" /\ w'.block = w.fresh /\ w'.head = fresh /\ w'.sample = w.sample
  <2>1. w.sample # NoTime
    BY <1>8, NoTimeAssumption
  <2> QED
    BY <1>1, <1>2, <2>1 DEF SwitchHeader, OpenWriters
<1>10. IsOpen' /\ Current' = Len(blocks)
  BY <1>4, <1>9 DEF IsOpen, Current
<1>11. Current' \in Nat /\ Current <= Current' /\ Current < Current'
  BY <1>3, <1>4, <1>10
<1>12. InLine' /\ LineGrows
  BY <1>1, <1>11, SameLine DEF OrderSound
<1>13. ASSUME NEW b \in DOMAIN blocks
       PROVE  /\ Counted(b)' = Counted(b)
              /\ \A h \in Versions(b)' : HasRoom(h)
  <2>1. Counted(b)' = Counted(b)
    BY <1>1, <1>2, <1>4, <1>5, <1>7, <1>9, <1>10 DEF Counted
  <2>2. \A h \in Versions(b)' : h \in Versions(b) \/ h = fresh
    BY <1>1, <1>9, <1>10 DEF Versions
  <2>3. \A h \in Versions(b) : HasRoom(h)
    BY DEF OrderSound, Filled
  <2> QED
    BY <1>7, <2>1, <2>2, <2>3
<1>14. Filled'
  <2>1. \A b \in DOMAIN blocks : data[b] = <<>> => b > Current' \/ b = Current'
    <3>1. \A b \in DOMAIN blocks : data[b] = <<>> => b > Current
      BY <1>1 DEF OrderSound, Filled
    <3> QED
      BY <1>3, <1>4, <1>10, <3>1
  <2>2. \A b \in DOMAIN blocks : Len(data[b]) = Counted(b)
    BY DEF OrderSound, Filled
  <2>3. blocks # <<>>
    BY <1>5
  <2> QED
    BY <1>1, <1>9, <1>10, <1>13, <2>1, <2>2, <2>3 DEF Filled
<1>15. LatestKnown'
  BY <1>1, <1>8, <1>9 DEF LatestKnown
<1>16. PICK new : new = index'
  OBVIOUS
<1>17. /\ new \in Seq(Record) /\ new # <<>> /\ Tells(new)
       /\ LastDatablock(new) = w.block /\ Done(Last(new))
  BY <1>1, <1>16, IndexedLine
<1>18. IndexTells'
  <2>1. \A i \in DOMAIN log : i \in DOMAIN log' /\ log'[i] = log[i]
    BY <1>1
  <2>2. Len(new) \in Nat /\ Current <= Len(blocks)
    BY <1>10, <1>11, <1>17
  <2>3. Tells(new)'
    BY <1>12, <1>17, <2>1, <2>2, TellsKept
  <2>4. Tells(index)'
    BY <1>16, <2>3 DEF Tells
  <2>5. PICK z : z = Last(new)
    OBVIOUS
  <2>6. Done(z)'
    BY <1>1, <1>17, <2>5 DEF Done, Stamp
  <2>7. Done(Last(index))'
    BY <1>16, <2>5, <2>6 DEF Done
  <2> QED
    BY <1>10, <2>4, <2>7 DEF IndexTells
<1> QED
  BY <1>12, <1>14, <1>15, <1>18 DEF OrderSound

LEMMA CloseIndexOrder ==
    ASSUME IInv, KeptSound, IndexSound, OrderSound, CloseIndex
    PROVE  OrderSound' /\ LineGrows
<1>1. /\ w.pc = "close" /\ w' = Closed
      /\ index' = UpdateLastDatablock(index, w.head.begin_time, w.head.end_time, w.block)
      /\ UNCHANGED <<log, infos, files, blocks, disk, data>>
  BY DEF CloseIndex
<1>2. IsOpen /\ w \in OpenWriters /\ w.block # 0
  BY <1>1, OpenType DEF IInv, IsOpen, WriterReady
<1>3. /\ w.block \in DOMAIN blocks /\ w.block \in Nat /\ Current = w.block
      /\ w.head \in Header
  BY <1>2, OpenLine
<1>4. /\ Len(blocks) \in Nat /\ DOMAIN blocks = 1 .. Len(blocks)
      /\ Len(blocks) = w.block /\ blocks[w.block] = w.head
  BY <1>1, <1>3, LineTypes DEF OrderSound, Filled
<1>5. ~IsOpen' /\ Current' = Len(blocks) /\ w'.pc = "closed"
  BY <1>1 DEF IsOpen, Current, Closed
<1>6. Current' \in Nat /\ Current <= Current' /\ Current = Current'
  BY <1>3, <1>4, <1>5
<1>7. InLine' /\ LineGrows
  BY <1>1, <1>6, SameLine DEF OrderSound
<1>8. \A b \in DOMAIN blocks : Versions(b)' \subseteq Versions(b) /\ Counted(b)' = Counted(b)
  BY <1>1, <1>2, <1>4, <1>5 DEF Versions, Counted
<1>9. blocks # <<>>
  BY <1>3
<1>10. Filled'
  <2>1. \A b \in DOMAIN blocks : data[b] = <<>> => b > Current \/ (b = Current /\ b = 1)
    BY <1>1 DEF OrderSound, Filled
  <2>2. \A b \in DOMAIN blocks : Len(data[b]) = Counted(b) /\ \A h \in Versions(b) : HasRoom(h)
    BY DEF OrderSound, Filled
  <2> QED
    BY <1>1, <1>5, <1>6, <1>8, <1>9, <2>1, <2>2 DEF Filled
<1>11. LatestKnown'
  <2>1. \A i \in DOMAIN log : log[i].stamp <= w.head.end_time
    BY <1>1, <1>2 DEF OrderSound, LatestKnown
  <2> QED
    BY <1>1, <1>4, <1>5, <2>1 DEF LatestKnown
<1>12. PICK new : new = index'
  OBVIOUS
<1>13. /\ new \in Seq(Record) /\ new # <<>> /\ Tells(new) /\ LastDatablock(new) = w.block
  BY <1>1, <1>12, IndexedLine
<1>14. IndexTells'
  <2>1. \A i \in DOMAIN log : i \in DOMAIN log' /\ log'[i] = log[i]
    BY <1>1
  <2>2. Len(new) \in Nat /\ Current <= Len(blocks)
    BY <1>5, <1>6, <1>13
  <2>3. Tells(new)'
    BY <1>7, <1>13, <2>1, <2>2, TellsKept
  <2>4. Tells(index)'
    BY <1>12, <2>3 DEF Tells
  <2>5. index' # <<>> /\ LastDatablock(index)' = Len(blocks)
    BY <1>4, <1>12, <1>13 DEF LastDatablock
  <2> QED
    BY <1>1, <1>3, <1>4, <1>5, <2>4, <2>5 DEF IndexTells
<1> QED
  BY <1>7, <1>10, <1>11, <1>14 DEF OrderSound

LEMMA InitOrder == Init => OrderSound
<1> SUFFICES ASSUME Init PROVE OrderSound
  OBVIOUS
<1>1. /\ log = <<>> /\ blocks = <<>> /\ data = <<>> /\ index = <<>> /\ w.pc = "closed"
      /\ ~IsOpen /\ Current = 0
  BY DEF Init, Closed, IsOpen, Current
<1>2. InLine
  BY <1>1 DEF InLine, NoBackInTime
<1>3. Filled
  BY <1>1 DEF Filled
<1>4. LatestKnown
  BY <1>1 DEF LatestKnown
<1>5. IndexTells
  BY <1>1 DEF IndexTells, Tells
<1> QED
  BY <1>2, <1>3, <1>4, <1>5 DEF OrderSound

LEMMA NextOrder ==
    ASSUME IInv, KeptSound, IndexSound, OneKind, OrderSound, [Next]_vars
    PROVE  OrderSound' /\ LineGrows
<1>1. CASE UNCHANGED vars
  <2>1. UNCHANGED <<log, infos, files, blocks, disk, data, index, w>>
    BY <1>1 DEF vars
  <2>2. Current' = Current /\ Current \in Nat
    BY <2>1, LineTypes DEF Current, IsOpen
  <2>3. InLine' /\ LineGrows
    BY <2>1, <2>2, SameLine DEF OrderSound
  <2>4. Filled' /\ LatestKnown'
    BY <2>1 DEF OrderSound, Filled, LatestKnown, Counted, Versions, Current, IsOpen
  <2>5. IndexTells'
    BY <2>1, <2>2 DEF OrderSound, IndexTells, Tells, Done, Stamp, IsOpen
  <2> QED
    BY <2>3, <2>4, <2>5 DEF OrderSound
<1>2. ASSUME NEW ctrl \in Info, NEW type \in DbrType, NEW n \in Request, OpenWriter(ctrl, type, n)
      PROVE  OrderSound' /\ LineGrows
  BY <1>2, OpenWriterOrder
<1>3. ASSUME NEW t \in Time \ {0}, AddSample(t)
      PROVE  OrderSound' /\ LineGrows
  <2>1. w.pc = "idle" /\ t >= w.head.end_time /\ Store(t)
    BY <1>3 DEF AddSample, MayAdd
  <2>2. IsOpen /\ w.block # 0 /\ w.head.end_time \in Nat /\ t \in Nat
    BY <2>1, StoreReady, OpenLine, TimeAssumption
  <2>3. \A i \in DOMAIN log : log[i].stamp <= w.head.end_time /\ log[i].stamp \in Nat
    BY <2>1, <2>2, LineTypes DEF OrderSound, LatestKnown
  <2>4. \A i \in DOMAIN log : log[i].stamp <= t
    BY <2>1, <2>2, <2>3
  <2> QED
    BY <2>1, <2>4, StoreOrder
<1>4. ASSUME NEW t \in Time \ {0}, AddToFull(t)
      PROVE  OrderSound' /\ LineGrows
  BY <1>4, AddToFullOrder
<1>5. CASE AddToNew
  <2>1. w.pc = "add" /\ Store(w.sample)
    BY <1>5 DEF AddToNew
  <2>2. IsOpen /\ w.block # 0 /\ w.block \in DOMAIN blocks
    BY <2>1, StoreReady, OpenLine
  <2>3. Len(blocks) > 0
    BY <2>2, LineTypes
  <2>4. w.sample \in Time \ {0} /\ \A i \in DOMAIN log : log[i].stamp <= w.sample
    BY <2>1, <2>2, <2>3 DEF OrderSound, LatestKnown
  <2> QED
    BY <2>1, <2>4, StoreOrder
<1>6. CASE AllocHeader
  BY <1>6, AllocOrder
<1>7. CASE LinkHeader
  BY <1>7, LinkOrder
<1>8. CASE IndexHeader
  BY <1>8, IndexHeaderOrder
<1>9. CASE CloseHeader
  BY <1>9, CloseHeaderOrder
<1>10. CASE CloseIndex
  BY <1>10, CloseIndexOrder
<1>11. ASSUME NEW f, Flush(f) PROVE OrderSound' /\ LineGrows
  BY <1>11, FlushOrder
<1>12. ~NewHeaderFails /\ ~CloseFails /\ ~Crash
  BY DEF OneKind, NewHeaderFails, CloseFails, Crash
<1> QED
  BY <1>1, <1>2, <1>3, <1>4, <1>5, <1>6, <1>7, <1>8, <1>9, <1>10, <1>11, <1>12
     DEF Next, WriterStep

\* As long as no write fails and the channel keeps its control info and value type,
\* the samples are in their order in the buffers, and the records of the index
\* tell where those of which buffer begin and end.
THEOREM WritesInOrder == Spec => [](OneKind => OrderSound)
<1>1. Init => (OneKind => OrderSound)
  BY InitOrder
<1>2. OneKind' => OneKind
  BY DEF OneKind
<1>3. IInv /\ KeptSound /\ IndexSound /\ (OneKind => OrderSound) /\ [Next]_vars
         => (OneKind => OrderSound)'
  BY <1>2, NextOrder
<1>4. Spec => [](IInv /\ KeptSound /\ IndexSound)
  BY Invariance, KeptSoundly, IndexSoundly, PTL
<1> QED
  BY <1>1, <1>3, <1>4, PTL DEF Spec

-----------------------------------------------------------------------------
(* Then the reader, who meets the samples in that order.                   *)

\* The order of the samples that lie in the buffers.
LEMMA LineOrder ==
    ASSUME IInv, KeptSound, OrderSound
    PROVE  /\ \A b \in DOMAIN data : \A j \in DOMAIN data[b] :
                 /\ data[b][j] \in DOMAIN log /\ data[b][j] \in Nat
                 /\ Stamp(b, j) = log[data[b][j]].stamp
                 /\ Stamp(b, j) \in Nat /\ Stamp(b, j) > 0
           /\ \A b, c \in DOMAIN data : \A i \in DOMAIN data[b], j \in DOMAIN data[c] :
                 b < c \/ (b = c /\ i < j) => /\ data[b][i] < data[c][j]
                                              /\ Stamp(b, i) <= Stamp(c, j)
           /\ \A i, j \in DOMAIN log : i <= j => log[i].stamp <= log[j].stamp
           /\ \A i \in DOMAIN log : log[i].stamp \in Nat /\ log[i].stamp > 0 /\ i \in Nat
           /\ \A b \in DOMAIN data : /\ b \in Nat /\ Len(data[b]) \in Nat
                                     /\ DOMAIN data[b] = 1 .. Len(data[b])
<1>1. /\ DOMAIN data = 1 .. Len(blocks) /\ Len(blocks) \in Nat
      /\ DOMAIN log = 1 .. Len(log) /\ Len(log) \in Nat
      /\ \A i \in DOMAIN log : log[i].stamp \in Nat
      /\ \A b \in DOMAIN data : /\ Len(data[b]) \in Nat
                                /\ DOMAIN data[b] = 1 .. Len(data[b])
                                /\ \A j \in DOMAIN data[b] : /\ data[b][j] \in DOMAIN log
                                                             /\ data[b][j] \in Nat
                                                             /\ Stamp(b, j) \in Nat
  BY LineTypes
<1>2. \A i, j \in DOMAIN log : i <= j => log[i].stamp <= log[j].stamp
  <2> SUFFICES ASSUME NEW i \in DOMAIN log, NEW j \in DOMAIN log, i <= j
               PROVE  log[i].stamp <= log[j].stamp
    OBVIOUS
  <2>1. CASE i = j
    BY <1>1, <2>1
  <2>2. CASE i < j
    BY <2>2 DEF OrderSound, InLine, NoBackInTime
  <2> QED
    BY <1>1, <2>1, <2>2
<1>3. \A i \in DOMAIN log : log[i].stamp > 0
  BY DEF OrderSound, InLine
<1>4. ASSUME NEW b \in DOMAIN data, NEW c \in DOMAIN data,
             NEW i \in DOMAIN data[b], NEW j \in DOMAIN data[c], b < c \/ (b = c /\ i < j)
      PROVE  data[b][i] < data[c][j] /\ Stamp(b, i) <= Stamp(c, j)
  <2>1. data[b][i] < data[c][j]
    BY <1>4 DEF OrderSound, InLine
  <2>2. /\ data[b][i] \in DOMAIN log /\ data[c][j] \in DOMAIN log
        /\ data[b][i] \in Nat /\ data[c][j] \in Nat
    BY <1>1
  <2> QED
    BY <1>2, <2>1, <2>2 DEF Stamp
<1>5. \A b \in DOMAIN data : \A j \in DOMAIN data[b] : Stamp(b, j) = log[data[b][j]].stamp
  BY DEF Stamp
<1>6. \A b \in DOMAIN data : b \in Nat
  BY <1>1
<1>7. \A i \in DOMAIN log : i \in Nat
  BY <1>1
<1> QED
  BY <1>1, <1>2, <1>3, <1>4, <1>5, <1>6, <1>7

\* What the records say of the samples.
LEMMA RecordMarks ==
    ASSUME IInv, KeptSound, OrderSound, NEW recs \in Seq(Record), Tells(recs)
    PROVE  /\ Len(recs) \in Nat /\ DOMAIN recs = 1 .. Len(recs)
           /\ \A k \in 1 .. Len(recs) :
                 /\ recs[k].s \in Nat /\ recs[k].e \in Nat
                 /\ Of(recs[k]) \in DOMAIN data /\ Of(recs[k]) \in Nat
                 /\ Empty(recs[k]) => k = 1 /\ recs[k].s = 0 /\ recs[k].e = 0 /\ Of(recs[k]) = 1
                 /\ ~Empty(recs[k]) =>
                       /\ 1 \in DOMAIN data[Of(recs[k])]
                       /\ recs[k].s = Stamp(Of(recs[k]), 1) /\ recs[k].s > 0
                       /\ recs[k].s <= recs[k].e
           /\ \A k, l \in 1 .. Len(recs) : k < l =>
                 /\ ~Empty(recs[l]) /\ Of(recs[k]) <= Of(recs[l])
                 /\ recs[k].e <= recs[l].s /\ recs[k].s <= recs[l].s
                 /\ ~Empty(recs[k]) => /\ Of(recs[k]) < Of(recs[l])
                                       /\ \A j \in DOMAIN data[Of(recs[k])] :
                                             Stamp(Of(recs[k]), j) <= recs[k].e
                 /\ Empty(recs[k]) /\ l = 2 => Of(recs[l]) = 1
<1>1. Len(recs) \in Nat /\ DOMAIN recs = 1 .. Len(recs)
  OBVIOUS
<1>2. DOMAIN data = 1 .. Len(blocks) /\ Len(blocks) \in Nat /\ Current \in Nat
  BY LineTypes
<1>3. Current <= Len(blocks)
  <2>1. Len(blocks) = Current \/ Len(blocks) = Current + 1
    BY <1>2 DEF OrderSound, Filled
  <2> QED
    BY <1>2, <2>1
<1>4. ASSUME NEW k \in 1 .. Len(recs)
      PROVE  /\ recs[k].s \in Nat /\ recs[k].e \in Nat
             /\ Of(recs[k]) \in DOMAIN data /\ Of(recs[k]) \in Nat /\ Of(recs[k]) >= 1
  <2>1. recs[k] \in Record
    BY <1>1
  <2>2. recs[k].s \in Nat /\ recs[k].e \in Nat
    BY <2>1, TimeAssumption DEF Record
  <2>3. PICK b : b = Of(recs[k])
    OBVIOUS
  <2>4. b \in 1 .. Current
    BY <2>3 DEF Tells
  <2>5. b \in DOMAIN data /\ b \in Nat /\ b >= 1
    BY <1>2, <1>3, <2>4
  <2> QED
    BY <2>2, <2>3, <2>5
<1>5. ASSUME NEW k \in 1 .. Len(recs), Empty(recs[k])
      PROVE  k = 1 /\ recs[k].s = 0 /\ recs[k].e = 0 /\ Of(recs[k]) = 1
  BY <1>5 DEF Tells, Empty
<1>6. ASSUME NEW k \in 1 .. Len(recs), ~Empty(recs[k])
      PROVE  LET b == Of(recs[k])
             IN  /\ 1 \in DOMAIN data[b]
                 /\ recs[k].s = Stamp(b, 1) /\ recs[k].s > 0
                 /\ recs[k].s <= recs[k].e
                 /\ \E j \in DOMAIN data[b] : recs[k].e = Stamp(b, j)
  <2>1. PICK b \in DOMAIN data : b = Of(recs[k])
    BY <1>4
  <2>2. /\ data[b] # <<>> /\ recs[k].s = Stamp(b, 1)
        /\ \E j \in DOMAIN data[b] : recs[k].e = Stamp(b, j)
    BY <1>6, <2>1 DEF Tells
  <2>3. PICK j \in DOMAIN data[b] : recs[k].e = Stamp(b, j)
    BY <2>2
  <2>4. DOMAIN data[b] = 1 .. Len(data[b]) /\ Len(data[b]) \in Nat
    BY LineOrder
  <2>5. 1 \in DOMAIN data[b] /\ (j = 1 \/ 1 < j)
    BY <2>4
  <2>6. Stamp(b, 1) > 0 /\ Stamp(b, 1) <= Stamp(b, j)
    BY <2>5, LineOrder
  <2> QED
    BY <2>1, <2>2, <2>3, <2>5, <2>6
<1>7. ASSUME NEW k \in 1 .. Len(recs), NEW l \in 1 .. Len(recs), k < l
      PROVE  /\ ~Empty(recs[l]) /\ Of(recs[k]) <= Of(recs[l])
             /\ recs[k].e <= recs[l].s /\ recs[k].s <= recs[l].s
             /\ ~Empty(recs[k]) => /\ Of(recs[k]) < Of(recs[l])
                                   /\ \A j \in DOMAIN data[Of(recs[k])] :
                                         Stamp(Of(recs[k]), j) <= recs[k].e
             /\ Empty(recs[k]) /\ l = 2 => Of(recs[l]) = 1
  <2>1. ~Empty(recs[l])
    BY <1>1, <1>5, <1>7
  <2>2. PICK c \in DOMAIN data : c = Of(recs[l]) /\ c \in Nat /\ c >= 1
    BY <1>4
  <2>3. 1 \in DOMAIN data[c] /\ recs[l].s = Stamp(c, 1) /\ recs[l].s > 0
    BY <1>6, <2>1, <2>2
  <2>4. CASE Empty(recs[k])
    <3>1. k = 1 /\ recs[k].s = 0 /\ recs[k].e = 0 /\ Of(recs[k]) = 1
      BY <1>5, <2>4
    <3>2. l = 2 => Of(recs[l]) = 1
      BY <1>7, <2>4 DEF Tells
    <3>3. recs[l].s \in Nat
      BY <1>4
    <3> QED
      BY <2>1, <2>2, <2>3, <2>4, <3>1, <3>2, <3>3
  <2>5. CASE ~Empty(recs[k])
    <3>1. PICK b \in DOMAIN data : b = Of(recs[k]) /\ b \in Nat
      BY <1>4
    <3>2. b < c /\ \A j \in DOMAIN data[b] : Stamp(b, j) <= recs[k].e
      BY <1>7, <2>2, <2>5, <3>1 DEF Tells, Done
    <3>3. PICK j \in DOMAIN data[b] : recs[k].e = Stamp(b, j)
      BY <1>6, <2>5, <3>1
    <3>4. 1 \in DOMAIN data[b] /\ recs[k].s = Stamp(b, 1)
      BY <1>6, <2>5, <3>1
    <3>5. Stamp(b, j) <= Stamp(c, 1) /\ Stamp(b, 1) <= Stamp(c, 1)
      BY <2>3, <3>2, <3>4, LineOrder
    <3> QED
      BY <2>1, <2>2, <2>3, <2>5, <3>1, <3>2, <3>3, <3>4, <3>5
  <2> QED
    BY <2>4, <2>5
<1> QED
  BY <1>1, <1>4, <1>5, <1>6, <1>7

\* What is after the samples that were passed.
LEMMA PassedBefore ==
    ASSUME IInv, KeptSound, OrderSound, NEW c \in DOMAIN data, NEW j \in DOMAIN data[c],
           NEW b \in Nat, NEW v \in Nat, c < b \/ (c = b /\ j <= v)
    PROVE  Before(data[c][j], b, v)
<1> SUFFICES ASSUME NEW d \in DOMAIN data, NEW n \in DOMAIN data[d], b < d \/ (b = d /\ v < n)
             PROVE  data[c][j] < data[d][n]
  BY DEF Before
<1>1. c \in Nat /\ d \in Nat /\ j \in Nat /\ n \in Nat
  BY LineOrder
<1>2. c < d \/ (c = d /\ j < n)
  BY <1>1
<1> QED
  BY <1>2, LineOrder

LEMMA BeforeLater ==
    ASSUME IInv, KeptSound, OrderSound, NEW i, NEW b \in Nat, NEW v \in Nat, Before(i, b, v),
           NEW c \in Nat, NEW n \in Nat, b < c \/ (b = c /\ v <= n)
    PROVE  Before(i, c, n)
<1> SUFFICES ASSUME NEW d \in DOMAIN data, NEW m \in DOMAIN data[d], c < d \/ (c = d /\ n < m)
             PROVE  i < data[d][m]
  BY DEF Before
<1>1. d \in Nat /\ m \in Nat
  BY LineOrder
<1>2. b < d \/ (b = d /\ v < m)
  BY <1>1
<1> QED
  BY <1>2 DEF Before

\* The reader, and the samples that its records hold.
LEMMA ReaderAt ==
    ASSUME IInv, KeptSound, OrderSound, NEW rd \in Readers, ReaderHolds(rd), Walks(rd)
    PROVE  /\ rd.records \in Seq(Record) /\ Tells(rd.records) /\ rd.rec \in 0 .. Len(rd.records)
           /\ rd.rec \in Nat /\ rd.val \in Nat /\ rd.head.num \in Nat /\ rd.nested \in Nat
           /\ rd.start \in Nat /\ rd.goal \in Nat /\ rd.block \in Nat /\ rd.out \in Seq(Nat)
           /\ rd.block # 0 => /\ rd.block \in DOMAIN data
                              /\ rd.head.num <= disk[rd.block].num
                              /\ \A j \in 1 .. rd.head.num : j \in DOMAIN data[rd.block]
           /\ \A i \in rd.known : i \in DOMAIN log /\ i \in Nat
           /\ \A k \in 1 .. Len(rd.records) :
                 /\ disk[Of(rd.records[k])].num \in Nat
                 /\ \A j \in Counting(rd.records[k]) :
                       j \in Nat /\ j \in DOMAIN data[Of(rd.records[k])]
                 /\ \A j \in Counting(rd.records[k]) : \A i :
                       Holds(rd.records[k], j, i) =>
                          /\ ~Empty(rd.records[k])
                          /\ i = data[Of(rd.records[k])][j] /\ i \in DOMAIN log
                          /\ log[i].stamp = Stamp(Of(rd.records[k]), j)
           /\ Passed(rd) \in Nat
           /\ rd.pc = "header" /\ rd.rec # 0 => Place(rd) \in DOMAIN data /\ Place(rd) \in Nat
           /\ rd.pc # "header" => Place(rd) = rd.block
<1> DEFINE recs == rd.records
<1>1. /\ recs \in Seq(Record) /\ Tells(recs) /\ rd.rec \in 0 .. Len(recs)
      /\ rd.rec \in Nat /\ rd.val \in Nat /\ rd.head.num \in Nat /\ rd.nested \in Nat
      /\ rd.start \in Nat /\ rd.goal \in Nat /\ rd.block \in Nat /\ rd.out \in Seq(Nat)
  BY DEF Readers, Header, ReaderHolds, ChainsLead, Walks
<1>2. /\ DOMAIN data = 1 .. Len(blocks) /\ DOMAIN disk = 1 .. Len(blocks)
      /\ \A b \in DOMAIN data : DOMAIN data[b] = 1 .. Len(data[b]) /\ Len(data[b]) \in Nat
  BY LineTypes
<1>3. ASSUME NEW b \in DOMAIN data
      PROVE  /\ disk[b].num \in Nat
             /\ \A j \in 1 .. disk[b].num : j \in DOMAIN data[b]
  <2>1. b \in DOMAIN blocks
    BY DiskTypes DEF IInv
  <2>2. disk[b].num \in Nat
    BY <2>1, DiskTypes DEF IInv
  <2>3. disk[b] \in Versions(b)
    BY DEF Versions
  <2>4. disk[b].num <= Len(data[b])
    BY <2>1, <2>3 DEF IInv, VersionsSound, Describes
  <2> QED
    BY <1>2, <2>2, <2>4
<1>4. ASSUME rd.block # 0
      PROVE  /\ rd.block \in DOMAIN data /\ rd.head.num <= disk[rd.block].num
             /\ \A j \in 1 .. rd.head.num : j \in DOMAIN data[rd.block]
  <2>1. rd.block \in DOMAIN data /\ rd.head.num <= disk[rd.block].num
    BY <1>2, <1>4 DEF ReaderHolds, HeaderHeld
  <2>2. \A j \in 1 .. rd.head.num : j \in 1 .. disk[rd.block].num
    BY <1>1, <1>3, <2>1
  <2> QED
    BY <1>3, <2>1, <2>2
<1>5. ASSUME NEW k \in 1 .. Len(recs), NEW j \in Counting(recs[k])
      PROVE  /\ j \in Nat /\ j \in DOMAIN data[Of(recs[k])]
             /\ \A i : Holds(recs[k], j, i) =>
                   /\ ~Empty(recs[k])
                   /\ i = data[Of(recs[k])][j] /\ i \in DOMAIN log
                   /\ log[i].stamp = Stamp(Of(recs[k]), j)
  <2>1. PICK b \in DOMAIN data : b = Of(recs[k])
    BY <1>1, RecordMarks
  <2>2. j \in 1 .. disk[b].num
    BY <2>1 DEF Counting
  <2>3. j \in Nat /\ j \in DOMAIN data[b]
    BY <1>3, <2>2
  <2>4. data[b][j] \in DOMAIN log /\ Stamp(b, j) = log[data[b][j]].stamp /\ Stamp(b, j) > 0
        /\ Stamp(b, j) \in Nat
    BY <2>3, LineOrder
  <2>5. ASSUME NEW i, Holds(recs[k], j, i)
        PROVE  /\ ~Empty(recs[k])
               /\ i = data[b][j] /\ i \in DOMAIN log
               /\ log[i].stamp = Stamp(b, j)
    <3>1. i = data[b][j] /\ log[i].stamp <= recs[k].e
      BY <2>1, <2>5 DEF Holds
    <3> QED
      BY <2>4, <3>1 DEF Empty
  <2> QED
    BY <2>1, <2>3, <2>5
<1>6. ASSUME NEW k \in 1 .. Len(recs)
      PROVE  disk[Of(recs[k])].num \in Nat
  BY <1>1, <1>3, RecordMarks
<1>7. ASSUME NEW i \in rd.known
      PROVE  i \in DOMAIN log /\ i \in Nat
  <2>1. PICK k \in 1 .. Len(recs) : \E j \in Counting(recs[k]) : Holds(recs[k], j, i)
    BY DEF Walks
  <2>2. i \in DOMAIN log
    BY <1>5, <2>1
  <2> QED
    BY <2>2, LineOrder
<1>8. Passed(rd) \in Nat
  BY <1>1 DEF Passed
<1>9. rd.pc = "header" /\ rd.rec # 0 => Place(rd) \in DOMAIN data /\ Place(rd) \in Nat
  <2> HAVE rd.pc = "header" /\ rd.rec # 0
  <2>1. rd.rec \in 1 .. Len(recs)
    BY <1>1
  <2> QED
    BY <1>1, <2>1, RecordMarks DEF Place
<1>10. rd.pc # "header" => Place(rd) = rd.block
  BY DEF Place
<1> QED
  BY <1>1, <1>4, <1>5, <1>6, <1>7, <1>8, <1>9, <1>10

\* Where a step that returns nothing leads to.
LEMMA MovesOn ==
    ASSUME IInv, KeptSound, OrderSound, NEW rd, NoneMissed(rd),
           \A i \in DOMAIN rd.out : Behind(rd.out[i], rd),
           NEW new, new.known = rd.known, new.out = rd.out,
           Place(rd) \in Nat, Passed(rd) \in Nat, Place(new) \in Nat, Passed(new) \in Nat,
           Place(rd) < Place(new) \/ (Place(rd) = Place(new) /\ Passed(rd) <= Passed(new)),
           \A i \in rd.known : ToCome(i, rd) => ToCome(i, new)
    PROVE  NoneMissed(new) /\ \A i \in DOMAIN new.out : Behind(new.out[i], new)
<1>1. \A i : Behind(i, rd) => Behind(i, new)
  BY BeforeLater DEF Behind
<1> QED
  BY <1>1 DEF NoneMissed

\* A sample is returned, from behind those that were passed; some are passed over
\* only if it is the first one.
LEMMA ReturnsOn ==
    ASSUME IInv, KeptSound, OrderSound, NEW rd \in Readers, ReaderHolds(rd), Walks(rd),
           OnItsWay(rd), rd.pc \in {"search", "next"}, rd.block # 0, ~AtEmpty(rd),
           NEW p \in DOMAIN data[rd.block], NEW v \in Nat, Passed(rd) < p, p <= v,
           v = p \/ rd.head.num = 0, rd.out = <<>> \/ p = Passed(rd) + 1,
           rd.out = <<>> => GoodFirst(data[rd.block][p], rd),
           NEW new, new.pc = "have", new.out = Append(rd.out, data[rd.block][p]),
           new.val = v, new.records = rd.records, new.rec = rd.rec, new.start = rd.start,
           new.block = rd.block, new.head = rd.head, new.known = rd.known
    PROVE  Walks(new)
<1> DEFINE b == rd.block
           id == data[b][p]
           n == Len(rd.out)
<1>1. /\ b \in DOMAIN data /\ b \in Nat /\ rd.out \in Seq(Nat) /\ rd.rec \in Nat
      /\ rd.head.num \in Nat /\ Passed(rd) \in Nat /\ Place(rd) = b /\ Len(rd.records) \in Nat
  BY ReaderAt
<1>2. /\ id \in Nat /\ id \in DOMAIN log /\ p \in Nat
      /\ \A j \in DOMAIN data[b] : j \in Nat /\ (j < p => data[b][j] < id)
  <2>1. id \in Nat /\ id \in DOMAIN log
    BY <1>1, LineOrder
  <2>2. DOMAIN data[b] = 1 .. Len(data[b]) /\ Len(data[b]) \in Nat
    BY <1>1, LineOrder
  <2>3. \A j \in DOMAIN data[b] : j < p => data[b][j] < id
    BY <1>1, LineOrder
  <2> QED
    BY <2>1, <2>2, <2>3
<1>3. /\ n \in Nat /\ DOMAIN rd.out = 1 .. n /\ DOMAIN new.out = 1 .. n + 1
      /\ new.out[n + 1] = id /\ \A k \in 1 .. n : new.out[k] = rd.out[k]
  <2>1. PICK x \in Nat : x = id
    BY <1>2
  <2>2. PICK out \in Seq(Nat) : out = rd.out
    BY <1>1
  <2>3. new.out = Append(out, x)
    BY <2>1, <2>2
  <2> QED
    BY <2>1, <2>2, <2>3
<1>4. Place(new) = b /\ Passed(new) = v
  BY DEF Place, Passed
<1>5. \A i : Behind(i, rd) => Behind(i, new) /\ i < id
  <2> SUFFICES ASSUME NEW i, Before(i, b, Passed(rd))
               PROVE  Before(i, b, v) /\ i < id
    BY <1>1, <1>4 DEF Behind
  <2>1. Passed(rd) <= v
    BY <1>1, <1>2
  <2>2. Before(i, b, v)
    BY <1>1, <2>1, BeforeLater
  <2> QED
    BY <1>1, <2>2 DEF Before
<1>6. \A j \in DOMAIN data[b] : j <= p => Behind(data[b][j], new)
  <2> SUFFICES ASSUME NEW j \in DOMAIN data[b], j <= p
               PROVE  Before(data[b][j], b, v)
    BY <1>4 DEF Behind
  <2>1. j <= v
    BY <1>2
  <2> QED
    BY <1>1, <2>1, PassedBefore
<1>7. \A k \in DOMAIN new.out : k \in 1 .. n \/ k = n + 1
  BY <1>3
<1>8. \A i \in DOMAIN rd.out : Behind(rd.out[i], rd)
  BY DEF OnItsWay
<1>9. \A i \in DOMAIN new.out : Behind(new.out[i], new)
  <2> SUFFICES ASSUME NEW i \in DOMAIN new.out PROVE Behind(new.out[i], new)
    OBVIOUS
  <2>1. CASE i \in 1 .. n
    BY <1>3, <1>5, <1>8, <2>1
  <2>2. CASE i = n + 1
    BY <1>2, <1>3, <1>6, <2>2
  <2> QED
    BY <1>7, <2>1, <2>2
<1>10. \A i, j \in DOMAIN new.out : i < j => new.out[i] < new.out[j]
  <2> SUFFICES ASSUME NEW i \in DOMAIN new.out, NEW j \in DOMAIN new.out, i < j
               PROVE  new.out[i] < new.out[j]
    OBVIOUS
  <2>1. i \in 1 .. n
    BY <1>3
  <2>2. CASE j \in 1 .. n
    BY <1>3, <2>1, <2>2 DEF Walks
  <2>3. CASE j = n + 1
    BY <1>3, <1>5, <1>8, <2>1, <2>3
  <2> QED
    BY <1>7, <2>2, <2>3
<1>11. /\ rd.out = <<>> => new.out[1] = id
       /\ rd.out # <<>> => new.out[1] = rd.out[1]
       /\ id \in ToSet(new.out) /\ \A i \in ToSet(rd.out) : i \in ToSet(new.out)
  <2>1. rd.out = <<>> => n = 0
    OBVIOUS
  <2>2. rd.out # <<>> => 1 \in 1 .. n
    <3> HAVE rd.out # <<>>
    <3>1. PICK out \in Seq(Nat) : out = rd.out
      BY <1>1
    <3> QED
      BY <3>1
  <2>3. n + 1 \in DOMAIN new.out /\ \A k \in 1 .. n : k \in DOMAIN new.out
    BY <1>3
  <2> QED
    BY <1>3, <2>1, <2>2, <2>3 DEF ToSet
<1>12. GoodFirst(new.out[1], new)
  <2>1. GoodFirst(new.out[1], rd)
    BY <1>11 DEF Walks
  <2> QED
    BY <2>1 DEF GoodFirst, PassedOver
<1>13. NoneMissed(new)
  <2> SUFFICES ASSUME NEW i \in rd.known
               PROVE  \/ ToCome(i, new)
                      \/ Behind(i, new) /\ (i > new.out[1] => i \in ToSet(new.out))
    BY DEF NoneMissed
  <2>1. i \in Nat
    BY ReaderAt
  <2>2. CASE Behind(i, rd) /\ (rd.out # <<>> /\ i > rd.out[1] => i \in ToSet(rd.out))
    <3>1. Behind(i, new) /\ i < id
      BY <1>5, <2>2
    <3>2. CASE rd.out = <<>>
      BY <1>2, <1>11, <2>1, <3>1, <3>2
    <3>3. CASE rd.out # <<>>
      BY <1>11, <2>2, <3>1, <3>3
    <3> QED
      BY <3>2, <3>3
  <2>3. CASE ToCome(i, rd)
    <3>1. PICK k \in 1 .. Len(rd.records) : \E j \in Counting(rd.records[k]) :
             /\ Holds(rd.records[k], j, i)
             /\ \/ rd.rec < k
                \/ rd.rec = k /\ Passed(rd) < j /\ j <= rd.head.num
      BY <2>3 DEF ToCome
    <3>2. PICK j \in Counting(rd.records[k]) :
             /\ Holds(rd.records[k], j, i)
             /\ \/ rd.rec < k
                \/ rd.rec = k /\ Passed(rd) < j /\ j <= rd.head.num
      BY <3>1
    <3>3. rd.rec # 0
      BY <2>3 DEF ToCome
    <3>4. CASE rd.rec < k
      BY <3>2, <3>3, <3>4 DEF ToCome
    <3>5. CASE rd.rec = k /\ Passed(rd) < j /\ j <= rd.head.num
      <4>1. Of(rd.records[k]) = b
        BY <3>3, <3>5 DEF OnItsWay
      <4>2. j \in DOMAIN data[b] /\ i = data[b][j] /\ j \in Nat
        BY <3>2, <4>1, ReaderAt
      <4>3. v = p
        BY <1>1, <3>5, <4>2
      <4>4. CASE j > p
        BY <1>4, <3>2, <3>3, <3>5, <4>3, <4>4 DEF ToCome
      <4>5. CASE j <= p
        <5>1. Behind(i, new)
          BY <1>6, <4>2, <4>5
        <5>2. CASE j = p
          BY <1>11, <4>2, <5>1, <5>2
        <5>3. CASE j < p
          <6>1. rd.out = <<>>
            BY <1>1, <1>2, <3>5, <4>2, <5>3
          <6>2. i < id
            BY <1>2, <4>2, <5>3
          <6> QED
            BY <1>2, <1>11, <2>1, <5>1, <6>1, <6>2
        <5> QED
          BY <1>2, <4>2, <4>5, <5>1, <5>2, <5>3
      <4> QED
        BY <1>2, <4>2, <4>4, <4>5
    <3> QED
      BY <3>2, <3>4, <3>5
  <2> QED
    BY <2>2, <2>3 DEF OnItsWay, NoneMissed
<1>14. new.out # <<>>
  BY <1>3
<1>15. OnItsWay(new)
  <2>1. ~AtEmpty(new)
    BY DEF AtEmpty
  <2>2. new.rec # 0 => new.block = Of(new.records[new.rec])
    BY DEF OnItsWay
  <2> QED
    BY <1>9, <1>13, <1>14, <2>1, <2>2 DEF OnItsWay
<1> QED
  BY <1>10, <1>12, <1>15 DEF Walks

\* No sample that find() could know of is from before the first record that has any.
LEMMA KnownFrom ==
    ASSUME IInv, KeptSound, OrderSound, NEW rd \in Readers, ReaderHolds(rd), Walks(rd),
           NEW m \in 1 .. Len(rd.records), ~Empty(rd.records[m]),
           m = 1 \/ (m = 2 /\ Empty(rd.records[1]))
    PROVE  \A i \in rd.known : rd.records[m].s <= log[i].stamp
<1> SUFFICES ASSUME NEW i \in rd.known PROVE rd.records[m].s <= log[i].stamp
  OBVIOUS
<1>1. PICK k \in 1 .. Len(rd.records) : \E j \in Counting(rd.records[k]) :
         Holds(rd.records[k], j, i)
  BY DEF Walks
<1>2. rd.records[k].s <= log[i].stamp /\ ~Empty(rd.records[k])
  BY <1>1, ReaderAt DEF Holds
<1>3. k = m \/ m < k
  BY <1>2
<1>4. CASE m < k
  <2>1. rd.records \in Seq(Record) /\ Tells(rd.records) /\ i \in DOMAIN log
    BY ReaderAt
  <2>2. /\ rd.records[m].s \in Nat /\ rd.records[k].s \in Nat /\ log[i].stamp \in Nat
        /\ rd.records[m].s <= rd.records[k].s
    BY <1>4, <2>1, RecordMarks, LineOrder
  <2> QED
    BY <1>2, <2>2
<1> QED
  BY <1>2, <1>3, <1>4

\* The first sample of the block that the reader is at, if it has the stamp that is
\* looked for, is the one to return first.
LEMMA GoalGood ==
    ASSUME IInv, KeptSound, OrderSound, NEW rd \in Readers, ReaderHolds(rd), Walks(rd),
           GoalFits(rd), rd.rec # 0, rd.out = <<>>,
           NEW b \in DOMAIN data, b = Of(rd.records[rd.rec]), 1 \in DOMAIN data[b],
           Stamp(b, 1) = rd.goal
    PROVE  GoodFirst(data[b][1], rd)
<1> DEFINE f == log[data[b][1]].stamp
<1>1. /\ rd.records \in Seq(Record) /\ Tells(rd.records) /\ rd.rec \in 1 .. Len(rd.records)
      /\ rd.start \in Nat /\ rd.goal \in Nat /\ rd.nested \in Nat
  BY ReaderAt
<1>2. f = rd.goal /\ f > 0 /\ f \in Nat
  BY <1>1, LineOrder
<1>3. \A i \in rd.known : log[i].stamp \in Nat /\ log[i].stamp > 0
  BY ReaderAt, LineOrder
<1>4. CASE rd.nested = 0 /\ rd.goal = rd.start
  BY <1>1, <1>2, <1>3, <1>4 DEF GoodFirst
<1>5. CASE rd.nested = 0 /\ rd.start = 0 /\ rd.rec = 1 /\ rd.goal = rd.records[1].s
  <2>1. ~Empty(rd.records[1])
    BY <1>2, <1>5 DEF Empty
  <2>2. \A i \in rd.known : rd.goal <= log[i].stamp
    BY <1>1, <1>5, <2>1, KnownFrom
  <2> QED
    BY <1>1, <1>2, <1>3, <1>5, <2>2 DEF GoodFirst
<1>6. CASE rd.nested # 0
  <2>1. /\ rd.goal = rd.records[2].s /\ rd.rec = 2 /\ Empty(rd.records[1])
        /\ rd.start < rd.goal
    BY <1>6 DEF GoalFits
  <2>2. ~Empty(rd.records[2])
    BY <1>2, <2>1 DEF Empty
  <2>3. \A i \in rd.known : rd.goal <= log[i].stamp
    BY <1>1, <2>1, <2>2, KnownFrom
  <2> QED
    BY <1>1, <1>2, <1>3, <2>1, <2>3 DEF GoodFirst
<1> QED
  BY <1>4, <1>5, <1>6 DEF GoalFits

\* The steps of the reader change nothing that Walks looks at but the reader.
LEMMA WalksStays ==
    ASSUME UNCHANGED vars, NEW rd, Walks(rd), r' = rd
    PROVE  Walks(r)'
<1>1. log' = log /\ data' = data /\ disk' = disk /\ w' = w /\ blocks' = blocks
  BY DEF vars
<1>2. Current' = Current
  BY <1>1 DEF Current, IsOpen
<1>3. Tells(r.records)'
  BY <1>1, <1>2 DEF Walks, Tells, Done, Stamp
<1>4. /\ \A f : GoodFirst(f, r)' <=> GoodFirst(f, rd)
      /\ NoneFits(r)' <=> NoneFits(rd)
  BY <1>1 DEF GoodFirst, NoneFits, PassedOver
<1>5. \A i : /\ ToCome(i, r)' <=> ToCome(i, rd)
             /\ Behind(i, r)' <=> Behind(i, rd)
  <2>1. \A i : ToCome(i, r)' <=> ToCome(i, rd)
    BY <1>1 DEF ToCome, Counting, Holds, Passed
  <2>2. \A i : Behind(i, r)' <=> Behind(i, rd)
    BY <1>1 DEF Behind, Before, Place, Passed
  <2> QED
    BY <2>1, <2>2
<1>6. OnItsWay(rd) => OnItsWay(r)'
  <2> HAVE OnItsWay(rd)
  <2>1. NoneYet(rd) => NoneYet(r)'
    BY <1>1, <1>4 DEF NoneYet, Stamp
  <2>2. NoneMissed(r)'
    BY <1>5 DEF OnItsWay, NoneMissed
  <2>3. GoalFits(rd) => GoalFits(r)'
    BY DEF GoalFits
  <2>4. AtEmpty(rd) <=> AtEmpty(r)'
    BY DEF AtEmpty
  <2> QED
    BY <1>5, <2>1, <2>2, <2>3, <2>4 DEF OnItsWay
<1>7. \A i \in rd.known : \E k \in 1 .. Len(rd.records) : \E j \in Counting(rd.records[k])' :
         Holds(rd.records[k], j, i)'
  BY <1>1 DEF Walks, Counting, Holds
<1> QED
  BY <1>1, <1>3, <1>4, <1>6, <1>7 DEF Walks, Stamp

\* The binary search takes a sample with the goal as its stamp, or the last one if
\* that is from before the goal; or it stops just before a sample from after it.
LEMMA SearchMeets ==
    ASSUME NEW b, NEW goal \in Nat, r.head.num \in Nat \ {0},
           \A i \in 1 .. r.head.num : Stamp(b, i) \in Nat
    PROVE  LET found == BinarySearch(b, goal)
               n     == r.head.num
           IN  /\ found.at \in 0 .. n - 1 /\ found.taken \in BOOLEAN
               /\ found.taken =>
                     LET t == Stamp(b, found.at + 1)
                     IN  t = goal \/ (t <= goal /\ found.at + 1 = n)
               /\ ~found.taken =>
                     /\ found.at = 0 \/ Stamp(b, found.at + 1) < goal
                     /\ \E p \in 1 .. n : p \in {found.at + 1, found.at + 2} /\ Stamp(b, p) > goal
<1> DEFINE N == r.head.num
           I == 0 .. r.head.num - 1
           S == I \X I
           m == [range \in S |-> IF range[1] <= range[2] THEN range[2] - range[1] ELSE 0]
           Around(low, high) ==
              /\ low <= high
              /\ low = 0 \/ Stamp(b, low + 1) < goal
              /\ high = r.head.num - 1 \/ Stamp(b, high + 1) > goal
           Good(x) ==
              /\ x.at \in 0 .. r.head.num - 1 /\ x.taken \in BOOLEAN
              /\ x.taken =>
                    LET t == Stamp(b, x.at + 1)
                    IN  t = goal \/ (t <= goal /\ x.at + 1 = r.head.num)
              /\ ~x.taken =>
                    /\ x.at = 0 \/ Stamp(b, x.at + 1) < goal
                    /\ \E p \in 1 .. r.head.num : p \in {x.at + 1, x.at + 2} /\ Stamp(b, p) > goal
<1>1. PICK f : IsSearch(f, b, goal)
  BY SearchDefined
<1>2. N \in Nat \ {0} /\ N - 1 \in I /\ 0 \in I /\ \A i \in I : i \in Nat /\ Stamp(b, i + 1) \in Nat
  OBVIOUS
\* one step of the search
<1>3. ASSUME NEW low \in I, NEW high \in I, Around(low, high)
      PROVE  \/ Good(f[<<low, high>>])
             \/ \E mid \in I : /\ low < mid /\ mid < high
                               /\ \/ Around(low, mid) /\ f[<<low, high>>] = f[<<low, mid>>]
                                  \/ Around(mid, high) /\ f[<<low, high>>] = f[<<mid, high>>]
  <2>1. PICK mid \in I, t \in Nat :
           /\ mid = (low + high + 1) \div 2 /\ t = Stamp(b, mid + 1)
           /\ f[<<low, high>>] =
                CASE high - low <= 1 /\ t > goal  -> [at |-> low, taken |-> FALSE]
                  [] high - low <= 1 /\ t <= goal -> [at |-> mid, taken |-> TRUE]
                  [] high - low > 1 /\ t = goal   -> [at |-> mid, taken |-> TRUE]
                  [] high - low > 1 /\ t > goal   -> f[<<low, mid>>]
                  [] OTHER                        -> f[<<mid, high>>]
    BY <1>1 DEF IsSearch
  <2>2. low \in Nat /\ high \in Nat /\ mid \in Nat /\ low <= high
    BY <1>2, <1>3
  <2>3. high - low > 1 => low < mid /\ mid < high
    BY <2>1, <2>2
  <2>4. high - low <= 1 => mid = high /\ high \in {low, low + 1}
    <3>1. high - low <= 1 => high \in {low, low + 1}
      BY <2>2
    <3>2. high = low => mid = high
      BY <2>1, <2>2
    <3>3. high = low + 1 => mid = high
      BY <2>1, <2>2
    <3> QED
      BY <3>1, <3>2, <3>3
  <2>5. CASE high - low <= 1 /\ t > goal
    <3>1. f[<<low, high>>] = [at |-> low, taken |-> FALSE]
      BY <2>1, <2>5
    <3>2. /\ mid + 1 \in 1 .. r.head.num /\ mid + 1 \in {low + 1, low + 2}
          /\ Stamp(b, mid + 1) > goal
      BY <1>2, <2>1, <2>2, <2>4, <2>5
    <3> QED
      BY <1>3, <3>1, <3>2
  <2>6. CASE high - low <= 1 /\ t <= goal
    <3>1. f[<<low, high>>] = [at |-> mid, taken |-> TRUE]
      BY <2>1, <2>2, <2>6
    <3>2. t = goal \/ mid + 1 = r.head.num
      <4>1. mid = high
        BY <2>4, <2>6
      <4>2. high = r.head.num - 1 \/ t > goal
        BY <1>3, <2>1, <4>1
      <4> QED
        BY <1>2, <2>6, <4>1, <4>2
    <3>3. PICK z : z = f[<<low, high>>] /\ z.at = mid /\ z.taken = TRUE
      BY <3>1
    <3>4. Stamp(b, z.at + 1) = t /\ z.at + 1 = mid + 1 /\ z.at \in 0 .. r.head.num - 1
      BY <2>1, <3>3
    <3>5. Good(z)
      <4> HIDE DEF I
      <4> QED
        BY <2>6, <3>2, <3>3, <3>4
    <3> HIDE DEF Good
    <3> QED
      BY <3>3, <3>5
  <2>7. CASE high - low > 1 /\ t = goal
    <3>1. f[<<low, high>>] = [at |-> mid, taken |-> TRUE]
      BY <2>1, <2>2, <2>7
    <3>3. PICK z : z = f[<<low, high>>] /\ z.at = mid /\ z.taken = TRUE
      BY <3>1
    <3>4. Stamp(b, z.at + 1) = goal /\ z.at \in 0 .. r.head.num - 1
      BY <2>1, <2>7, <3>3
    <3>5. Good(z)
      BY <3>3, <3>4
    <3> HIDE DEF Good
    <3> QED
      BY <3>3, <3>5
  <2>8. CASE high - low > 1 /\ t > goal
    <3>1. f[<<low, high>>] = f[<<low, mid>>]
      BY <2>1, <2>2, <2>8
    <3>2. Around(low, mid)
      BY <1>3, <2>1, <2>2, <2>3, <2>8
    <3> QED
      BY <2>3, <2>8, <3>1, <3>2
  <2>9. CASE high - low > 1 /\ t < goal
    <3>1. f[<<low, high>>] = f[<<mid, high>>]
      BY <2>1, <2>2, <2>9
    <3>2. Around(mid, high)
      BY <1>3, <2>1, <2>2, <2>3, <2>9
    <3> QED
      BY <2>3, <2>9, <3>1, <3>2
  <2>10. \/ high - low <= 1 /\ (t > goal \/ t <= goal)
         \/ high - low > 1 /\ (t = goal \/ t > goal \/ t < goal)
    BY <2>1, <2>2
  <2> HIDE DEF Around, Good, I
  <2> QED
    BY <2>5, <2>6, <2>7, <2>8, <2>9, <2>10
<1> DEFINE Wrong == {range \in S : Around(range[1], range[2]) /\ ~Good(f[range])}
<1>4. Wrong = {}
  <2>1. SUFFICES ASSUME Wrong # {} PROVE FALSE
    OBVIOUS
  <2>2. PICK x \in Wrong : \A y \in S : m[y] < m[x] => y \notin Wrong
    <3>1. \A y \in S : m[y] \in Nat
      <4>1. \A low, high \in I : m[<<low, high>>] \in Nat
        BY <1>2
      <4> TAKE y \in S
      <4>2. PICK low \in I, high \in I : y = <<low, high>>
        OBVIOUS
      <4> HIDE DEF m
      <4> QED
        BY <4>1, <4>2
    <3>2. Wrong \subseteq S
      OBVIOUS
    <3> HIDE DEF m, Wrong, S
    <3> QED
      BY <2>1, <3>1, <3>2, LeastOf
  <2>3. PICK low \in I, high \in I : x = <<low, high>>
    OBVIOUS
  <2>4. Around(low, high) /\ ~Good(f[<<low, high>>])
    <3> HIDE DEF Around, Good
    <3>1. x[1] = low /\ x[2] = high
      BY <2>3
    <3> QED
      BY <2>2, <2>3, <3>1
  <2>5. PICK mid \in I : /\ low < mid /\ mid < high
                         /\ \/ Around(low, mid) /\ f[<<low, high>>] = f[<<low, mid>>]
                            \/ Around(mid, high) /\ f[<<low, high>>] = f[<<mid, high>>]
    <3> HIDE DEF Around, Good, I
    <3> QED
      BY <1>3, <2>4
  <2>6. \A l, h \in I : l < h => m[<<l, h>>] = h - l
    <3> SUFFICES ASSUME NEW l \in I, NEW h \in I, l < h PROVE m[<<l, h>>] = h - l
      OBVIOUS
    <3>1. <<l, h>> \in S /\ l \in Nat /\ h \in Nat /\ l <= h
      BY <1>2
    <3> QED
      BY <3>1
  <2>7. /\ m[<<low, mid>>] < m[<<low, high>>] /\ <<low, mid>> \in S
        /\ m[<<mid, high>>] < m[<<low, high>>] /\ <<mid, high>> \in S
    <3>1. low \in Nat /\ mid \in Nat /\ high \in Nat /\ low < high
      BY <1>2, <2>5
    <3>2. mid - low < high - low /\ high - mid < high - low
      BY <2>5, <3>1
    <3>3. <<low, mid>> \in S /\ <<mid, high>> \in S
      OBVIOUS
    <3> HIDE DEF m, S, I
    <3> QED
      BY <2>5, <2>6, <3>1, <3>2, <3>3
  <2>8. \A l, h \in I : <<l, h>> \in S /\ <<l, h>> \notin Wrong => ~Around(l, h) \/ Good(f[<<l, h>>])
    <3> HIDE DEF Around, Good
    <3> QED
      OBVIOUS
  <2> HIDE DEF m, S, Wrong, Around, Good, I
  <2> QED
    BY <2>2, <2>3, <2>4, <2>5, <2>7, <2>8
<1>5. Around(0, N - 1)
  BY <1>2
<1>6. <<0, N - 1>> \in S
  BY <1>2
<1>7. Good(f[<<0, N - 1>>])
  <2> HIDE DEF Around, Good, S, N
  <2>1. <<0, N - 1>>[1] = 0 /\ <<0, N - 1>>[2] = N - 1
    OBVIOUS
  <2> QED
    BY <1>4, <1>5, <1>6, <2>1
<1>8. Good(BinarySearch(b, goal))
  <2>1. BinarySearch(b, goal) = f[<<0, N - 1>>]
    BY <1>1 DEF IsSearch
  <2> HIDE DEF Good, N
  <2> QED
    BY <1>7, <2>1, Zenon
<1> QED
  BY <1>8, Zenon
\* What the reader has passed and knows is right as long as it is on its way.
LEMMA SameWalk ==
    ASSUME NEW rd, Walks(rd), NEW new,
           new.records = rd.records, new.known = rd.known, new.start = rd.start,
           new.out = rd.out,
           new.block # 0 => IF new.head.num = 0 THEN new.head.begin_time = 0
                            ELSE new.head.begin_time = Stamp(new.block, 1),
           new.pc \notin {"idle", "failed"} => OnItsWay(new)
    PROVE  Walks(new)
<1>1. \A f : GoodFirst(f, rd) => GoodFirst(f, new)
  BY DEF GoodFirst, PassedOver
<1> QED
  BY <1>1 DEF Walks

\* A header on disk has the stamp of its first sample as begin time.
LEMMA HeaderTells ==
    ASSUME IInv, OrderSound, NEW b \in DOMAIN disk
    PROVE  IF disk[b].num = 0 THEN disk[b].begin_time = 0
           ELSE disk[b].begin_time = Stamp(b, 1)
<1>1. b \in DOMAIN blocks /\ disk[b] \in Versions(b) /\ disk[b].num \in Nat
  BY DiskTypes DEF IInv, Versions
<1>2. Describes(disk[b], b) /\ HasRoom(disk[b])
  BY <1>1 DEF IInv, VersionsSound, OrderSound, Filled
<1> QED
  BY <1>1, <1>2 DEF Describes, HasRoom

LEMMA GetHeaderWalks ==
    ASSUME IInv, KeptSound, OrderSound, ReaderIInv, Walks(r), GetHeader
    PROVE  Walks(r)'
<1> DEFINE b == Head(r.records[r.rec].blocks)
           new == WithHeader(r, b)
<1>1. r.pc = "header" /\ r' = new /\ UNCHANGED vars
  BY DEF GetHeader
<1>2. r \in Readers /\ ReaderHolds(r) /\ r.rec # 0 /\ OnItsWay(r)
  BY <1>1 DEF ReaderIInv, ReaderTypeOK, ReaderReady, Walks
<1>3. b = Place(r) /\ b = Of(r.records[r.rec]) /\ b \in Nat /\ b \in DOMAIN disk
      /\ Passed(r) = 0
  <2>1. b = Place(r) /\ b = Of(r.records[r.rec])
    BY <1>1 DEF Place, Of
  <2> QED
    BY <1>1, <1>2, <2>1, ReaderAt, LineTypes DEF Passed
<1> HIDE DEF b
<1>4. /\ new.records = r.records /\ new.known = r.known /\ new.start = r.start
      /\ new.out = r.out /\ new.rec = r.rec /\ new.nested = r.nested /\ new.goal = r.goal
      /\ \/ new.pc = "failed" /\ new.block = r.block /\ new.head = r.head
         \/ new.pc = "search" /\ new.block = b /\ new.head = disk[b]
  BY <1>2 DEF WithHeader, Readers
<1> HIDE DEF new
<1>5. CASE new.pc = "failed"
  <2>1. new.block = r.block /\ new.head = r.head
    BY <1>4, <1>5
  <2>2. Walks(new)
    BY <1>4, <1>5, <2>1, SameWalk DEF Walks
  <2> QED
    BY <1>1, <2>2, WalksStays
<1>6. CASE new.pc = "search"
  <2>1. new.block = b /\ new.head = disk[b]
    BY <1>4, <1>6
  <2>2. Place(new) = b /\ Passed(new) = 0
    BY <1>6, <2>1 DEF Place, Passed
  <2>3. \A i \in r.known : ToCome(i, r) => ToCome(i, new)
    <3> SUFFICES ASSUME NEW i \in r.known, ToCome(i, r) PROVE ToCome(i, new)
      OBVIOUS
    <3>1. PICK k \in 1 .. Len(r.records) : \E j \in Counting(r.records[k]) :
             /\ Holds(r.records[k], j, i)
             /\ \/ r.rec < k
                \/ r.rec = k
      BY DEF ToCome
    <3>2. PICK j \in Counting(r.records[k]) :
             Holds(r.records[k], j, i) /\ (r.rec < k \/ r.rec = k)
      BY <3>1
    <3>3. CASE r.rec < k
      BY <1>2, <1>4, <3>2, <3>3 DEF ToCome
    <3>4. CASE r.rec = k
      <4>1. j \in 1 .. disk[b].num
        BY <1>3, <3>4 DEF Counting
      <4>2. Passed(new) < j /\ j <= new.head.num
        BY <2>1, <2>2, <4>1
      <4> QED
        BY <1>2, <1>4, <3>2, <3>4, <4>2 DEF ToCome
    <3> QED
      BY <3>2, <3>3, <3>4
  <2>4. NoneMissed(new) /\ \A i \in DOMAIN new.out : Behind(new.out[i], new)
    <3>1. NoneMissed(r) /\ \A i \in DOMAIN r.out : Behind(r.out[i], r)
      BY <1>2 DEF OnItsWay
    <3>2. /\ Place(r) \in Nat /\ Passed(r) \in Nat /\ Place(new) \in Nat /\ Passed(new) \in Nat
          /\ Place(r) = Place(new) /\ Passed(r) <= Passed(new)
          /\ new.known = r.known /\ new.out = r.out
      BY <1>3, <1>4, <2>2
    <3> QED
      BY <2>3, <3>1, <3>2, MovesOn
  <2>5. GoalFits(new)
    BY <1>1, <1>2, <1>4 DEF OnItsWay, GoalFits
  <2>6. AtEmpty(new) => AtEmpty(r)
    BY <1>4 DEF AtEmpty
  <2>7. NoneYet(new)
    BY <1>2, <1>4, <1>6 DEF NoneYet
  <2>8. OnItsWay(new)
    BY <1>2, <1>3, <1>4, <1>6, <2>1, <2>4, <2>5, <2>6, <2>7 DEF OnItsWay
  <2>9. Walks(new)
    BY <1>3, <1>4, <2>1, <2>8, SameWalk, HeaderTells
  <2> QED
    BY <1>1, <2>9, WalksStays
<1> QED
  BY <1>4, <1>5, <1>6

LEMMA FollowWalks ==
    ASSUME IInv, KeptSound, OrderSound, ReaderIInv, Walks(r), FollowLink
    PROVE  Walks(r)'
<1> DEFINE b == r.head.next
           new == [WithHeader(r, b) EXCEPT !.goal = disk[b].begin_time]
<1>1. r.pc = "follow" /\ r' = new /\ UNCHANGED vars
  BY DEF FollowLink
<1>2. r \in Readers /\ ReaderHolds(r) /\ OnItsWay(r) /\ r.rec = 0 /\ r.block < b
      /\ r.block # 0 /\ b # 0
  BY <1>1 DEF ReaderIInv, ReaderTypeOK, ReaderReady, Walks, OnItsWay
<1>3. b \in DOMAIN disk /\ b \in Nat /\ r.block \in Nat
  <2>1. b \in 0 .. Len(blocks)
    BY <1>2 DEF ReaderHolds, HeaderHeld
  <2> QED
    BY <1>2, <2>1, LineTypes DEF Readers
<1>4. /\ new.records = r.records /\ new.known = r.known /\ new.start = r.start
      /\ new.out = r.out /\ new.rec = r.rec
      /\ \/ new.pc = "failed" /\ new.block = r.block /\ new.head = r.head
         \/ /\ new.pc = "search" /\ new.block = b /\ new.head = disk[b]
            /\ new.goal = disk[b].begin_time
  <2> HIDE DEF b
  <2> QED
    BY <1>2 DEF WithHeader, Readers
<1> HIDE DEF b, new
<1>5. CASE new.pc = "failed"
  <2>1. new.block = r.block /\ new.head = r.head
    BY <1>4, <1>5
  <2>2. Walks(new)
    BY <1>4, <1>5, <2>1, SameWalk DEF Walks
  <2> QED
    BY <1>1, <2>2, WalksStays
<1>6. CASE new.pc = "search"
  <2>1. new.block = b /\ new.head = disk[b] /\ new.goal = disk[b].begin_time
    BY <1>4, <1>6
  <2>2. Place(new) = b /\ Passed(new) = 0 /\ Place(r) = r.block /\ Passed(r) \in Nat
    BY <1>1, <1>2, <1>6, <2>1, ReaderAt DEF Place, Passed
  <2>3. \A i \in r.known : ToCome(i, r) => ToCome(i, new)
    BY <1>2 DEF ToCome
  <2>4. NoneMissed(new) /\ \A i \in DOMAIN new.out : Behind(new.out[i], new)
    <3>1. NoneMissed(r) /\ \A i \in DOMAIN r.out : Behind(r.out[i], r)
      BY <1>2 DEF OnItsWay
    <3>2. /\ Place(r) \in Nat /\ Passed(r) \in Nat /\ Place(new) \in Nat /\ Passed(new) \in Nat
          /\ Place(r) < Place(new) /\ new.known = r.known /\ new.out = r.out
      BY <1>2, <1>3, <1>4, <2>2
    <3> QED
      BY <2>3, <3>1, <3>2, MovesOn
  <2>5. GoalFits(new)
    BY <1>2, <1>4, <2>1 DEF GoalFits
  <2>6. ~AtEmpty(new)
    BY <1>2, <1>4 DEF AtEmpty
  <2>7. r.out = <<>> => NoneYet(new)
    BY <1>2, <1>4 DEF OnItsWay, NoneYet, NoneFits, PassedOver
  <2>8. OnItsWay(new)
    BY <1>2, <1>4, <1>6, <2>4, <2>5, <2>6, <2>7 DEF OnItsWay
  <2>9. Walks(new)
    BY <1>3, <1>4, <2>1, <2>8, SameWalk, HeaderTells
  <2> QED
    BY <1>1, <2>9, WalksStays
<1> QED
  BY <1>4, <1>5, <1>6

LEMMA CallWalks ==
    ASSUME IInv, KeptSound, OrderSound, ReaderIInv, Walks(r), CallNext
    PROVE  Walks(r)'
<1> DEFINE new == [r EXCEPT !.pc = IF r.block = 0 THEN "failed" ELSE "next", !.nested = 0]
<1>1. r.pc \in {"have", "end"} /\ r' = new /\ UNCHANGED vars
  BY DEF CallNext
<1>2. r \in Readers /\ ReaderHolds(r) /\ OnItsWay(r) /\ (r.pc = "have" => r.out # <<>>)
  BY <1>1 DEF ReaderIInv, ReaderTypeOK, ReaderReady, Walks
<1>3. /\ new.records = r.records /\ new.known = r.known /\ new.start = r.start
      /\ new.out = r.out /\ new.rec = r.rec /\ new.block = r.block /\ new.head = r.head
      /\ new.val = r.val /\ new.nested = 0 /\ new.pc \in {"failed", "next"}
  BY <1>2 DEF Readers
<1> HIDE DEF new
<1>4. new.pc = "next" => Place(new) = Place(r) /\ Passed(new) = Passed(r)
  <2>1. Place(r) = r.block /\ Passed(r) = r.val /\ r.block \in Nat /\ r.val \in Nat
    BY <1>1, <1>2 DEF Place, Passed, Readers
  <2> QED
    BY <1>3, <2>1 DEF Place, Passed
<1>5. ASSUME new.pc = "next"
      PROVE  OnItsWay(new)
  <2>1. Place(new) = Place(r) /\ Passed(new) = Passed(r)
    BY <1>4, <1>5
  <2>2. \A i : ToCome(i, r) => ToCome(i, new)
    BY <1>1, <1>3, <2>1 DEF ToCome
  <2>3. NoneMissed(new) /\ \A i \in DOMAIN new.out : Behind(new.out[i], new)
    BY <1>2, <1>3, <2>1, <2>2 DEF OnItsWay, NoneMissed, Behind
  <2>4. AtEmpty(new) => AtEmpty(r)
    BY <1>3 DEF AtEmpty
  <2>5. new.out = <<>> => NoneYet(new)
    <3> HAVE new.out = <<>>
    <3>1. r.rec = 0 /\ NoneFits(r)
      BY <1>1, <1>2, <1>3 DEF OnItsWay, NoneYet
    <3> QED
      BY <1>3, <3>1 DEF NoneYet, NoneFits, PassedOver
  <2> QED
    BY <1>1, <1>2, <1>3, <1>5, <2>3, <2>4, <2>5 DEF OnItsWay
<1>6. Walks(new)
  BY <1>3, <1>5, SameWalk DEF Walks
<1> QED
  BY <1>1, <1>6, WalksStays

LEMMA RefreshWalks ==
    ASSUME IInv, KeptSound, OrderSound, ReaderIInv, Walks(r), Refresh
    PROVE  Walks(r)'
<1>1. PICK new :
         /\ new = r' /\ new.head = disk[r.block]
         /\ new.records = r.records /\ new.known = r.known /\ new.start = r.start
         /\ new.out = r.out /\ new.rec = r.rec /\ new.block = r.block /\ new.val = r.val
         /\ \/ new.pc = "next"
            \/ new.pc = "follow" /\ new.head.next # 0
            \/ new.pc = "end"
  <2>1. r \in Readers
    BY DEF ReaderIInv, ReaderTypeOK
  <2>2. PICK h : h = disk[r.block]
    OBVIOUS
  <2>3. /\ r' = CASE r.val < h.num -> [r EXCEPT !.head = h]
                  [] r.val >= h.num /\ h.next # 0 -> [r EXCEPT !.head = h, !.pc = "follow"]
                  [] r.val >= h.num /\ h.next = 0 ->
                       [r EXCEPT !.head = h, !.pc = "end", !.nested = 0]
        /\ r.pc = "next"
    BY <2>2 DEF Refresh
  <2>n. r.val \in Nat /\ h.num \in Nat
    <3>1. r.block \in DOMAIN disk
      BY <2>3 DEF ReaderIInv, ReaderReady, ReaderHolds, HeaderHeld
    <3> QED
      BY <2>1, <2>2, <3>1, DiskTypes DEF IInv, Readers
  <2>4. r.val < h.num \/ (r.val >= h.num /\ h.next # 0) \/ (r.val >= h.num /\ h.next = 0)
    BY <2>n
  <2>5. CASE r.val < h.num
    <3>1. r' = [r EXCEPT !.head = h]
      BY <2>3, <2>5, <2>n
    <3> QED
      BY <2>1, <2>2, <2>3, <3>1 DEF Readers
  <2>6. CASE r.val >= h.num /\ h.next # 0
    <3>1. r' = [r EXCEPT !.head = h, !.pc = "follow"]
      BY <2>3, <2>6, <2>n
    <3>2. /\ r'.head = h /\ r'.pc = "follow" /\ r'.records = r.records /\ r'.known = r.known
          /\ r'.start = r.start /\ r'.out = r.out /\ r'.rec = r.rec /\ r'.block = r.block
          /\ r'.val = r.val
      BY <2>1, <3>1 DEF Readers
    <3> QED
      BY <2>2, <2>6, <3>2
  <2>7. CASE r.val >= h.num /\ h.next = 0
    <3>1. r' = [r EXCEPT !.head = h, !.pc = "end", !.nested = 0]
      BY <2>3, <2>7, <2>n
    <3>2. /\ r'.head = h /\ r'.pc = "end" /\ r'.records = r.records /\ r'.known = r.known
          /\ r'.start = r.start /\ r'.out = r.out /\ r'.rec = r.rec /\ r'.block = r.block
          /\ r'.val = r.val
      BY <2>1, <3>1 DEF Readers
    <3> QED
      BY <2>2, <3>2
  <2> QED
    BY <2>4, <2>5, <2>6, <2>7
<1>2. /\ r \in Readers /\ ReaderHolds(r) /\ OnItsWay(r) /\ r.rec = 0 /\ r.block # 0
      /\ r.pc = "next" /\ UNCHANGED vars
  BY DEF Refresh, ReaderIInv, ReaderTypeOK, ReaderReady, Walks
<1>3. r.block \in DOMAIN disk /\ r.block \in Nat /\ r.val \in Nat
  BY <1>2 DEF ReaderHolds, HeaderHeld, Readers
<1>4. Place(new) = r.block /\ Passed(new) = r.val /\ Place(r) = r.block /\ Passed(r) = r.val
  BY <1>1, <1>2 DEF Place, Passed
<1>5. \A i : ToCome(i, r) => ToCome(i, new)
  BY <1>2 DEF ToCome
<1>6. NoneMissed(new) /\ \A i \in DOMAIN new.out : Behind(new.out[i], new)
  BY <1>1, <1>2, <1>4, <1>5 DEF OnItsWay, NoneMissed, Behind
<1>7. new.pc = "follow" => new.block < new.head.next
  <2> HAVE new.pc = "follow"
  <2>1. r.block \in DOMAIN blocks /\ disk[r.block] \in Versions(r.block)
    BY <1>3, LineTypes DEF Versions
  <2>2. disk[r.block].next \in 0 .. Len(blocks) /\ disk[r.block].next # 0
    BY <1>1, <2>1 DEF IInv, VersionsSound
  <2>3. PICK n \in DOMAIN blocks : n = disk[r.block].next
    BY <2>2, LineTypes
  <2>4. disk[n] \in Versions(n)
    BY DEF Versions
  <2>5. n > r.block
    BY <2>1, <2>3, <2>4 DEF IInv, VersionsLinked
  <2>6. n \in Nat
    BY LineTypes
  <2> QED
    BY <1>1, <1>3, <2>3, <2>5, <2>6
<1>8. new.out = <<>> => NoneYet(new)
  BY <1>1, <1>2 DEF OnItsWay, NoneYet, NoneFits, PassedOver
<1>9. ~AtEmpty(new)
  BY <1>1, <1>2 DEF AtEmpty
<1>10. OnItsWay(new)
  BY <1>1, <1>2, <1>6, <1>7, <1>8, <1>9 DEF OnItsWay
<1>11. Walks(new)
  BY <1>1, <1>3, <1>10, HeaderTells, SameWalk
<1> QED
  BY <1>1, <1>2, <1>11, WalksStays

LEMMA FirstWalks ==
    ASSUME IInv, KeptSound, OrderSound, ReaderIInv, Walks(r), FindFirst
    PROVE  Walks(r)'
<1> DEFINE new == [r EXCEPT !.pc = "next", !.val = 0]
           b   == r.block
<1>1. r.pc = "search" /\ r.goal = r.head.begin_time /\ r' = new /\ UNCHANGED vars
  BY DEF FindFirst
<1>2. r \in Readers /\ ReaderHolds(r) /\ OnItsWay(r) /\ GoalFits(r) /\ b # 0
  BY <1>1 DEF ReaderIInv, ReaderTypeOK, ReaderReady, Walks, OnItsWay
<1>3. /\ new.records = r.records /\ new.known = r.known /\ new.start = r.start
      /\ new.out = r.out /\ new.rec = r.rec /\ new.block = b /\ new.head = r.head
      /\ new.val = 0 /\ new.nested = r.nested /\ new.pc = "next"
  BY <1>2 DEF Readers
<1> HIDE DEF new
<1>4. Place(new) = Place(r) /\ Passed(new) = Passed(r)
  BY <1>1, <1>3 DEF Place, Passed
<1>5. \A i : ToCome(i, r) => ToCome(i, new)
  BY <1>1, <1>3, <1>4 DEF ToCome
<1>6. NoneMissed(new) /\ \A i \in DOMAIN new.out : Behind(new.out[i], new)
  BY <1>2, <1>3, <1>4, <1>5 DEF OnItsWay, NoneMissed, Behind
<1>7. ASSUME r.out = <<>>
      PROVE  NoneYet(new)
  <2>1. ASSUME r.rec = 0
        PROVE  NoneFits(new)
    BY <1>2, <1>3, <1>7, <2>1 DEF OnItsWay, NoneYet, NoneFits, PassedOver
  <2>2. ASSUME r.rec # 0, ~Empty(r.records[r.rec])
        PROVE  /\ 0 < r.head.num /\ Stamp(b, 1) <= r.records[r.rec].e
               /\ GoodFirst(data[b][1], new)
    <3>1. /\ b \in DOMAIN data /\ b = Of(r.records[r.rec]) /\ r.rec \in 1 .. Len(r.records)
          /\ r.records \in Seq(Record) /\ Tells(r.records) /\ r.head.num \in Nat
      BY <1>1, <1>2, <2>2, ReaderAt DEF OnItsWay
    <3>2. /\ 1 \in DOMAIN data[b] /\ r.records[r.rec].s = Stamp(b, 1)
          /\ r.records[r.rec].s > 0 /\ r.records[r.rec].s <= r.records[r.rec].e
      BY <2>2, <3>1, RecordMarks
    <3>3. r.goal # 0
      BY <1>2, <2>2, <3>2 DEF GoalFits
    <3>4. r.head.num # 0 /\ r.goal = Stamp(b, 1)
      BY <1>1, <1>2, <3>3 DEF Walks
    <3>5. GoodFirst(data[b][1], r)
      BY <1>2, <1>7, <2>2, <3>1, <3>2, <3>4, GoalGood
    <3> QED
      BY <1>3, <3>1, <3>2, <3>4, <3>5 DEF GoodFirst, PassedOver
  <2> QED
    BY <1>3, <2>1, <2>2 DEF NoneYet
<1>8. AtEmpty(new) => AtEmpty(r)
  BY <1>3 DEF AtEmpty
<1>9. OnItsWay(new)
  BY <1>1, <1>2, <1>3, <1>6, <1>7, <1>8 DEF OnItsWay
<1>10. Walks(new)
  BY <1>3, <1>9, SameWalk DEF Walks
<1> QED
  BY <1>1, <1>10, WalksStays

\* What becomes of a sample that is found.
LEMMA ReturnCases ==
    ASSUME NEW rd \in Readers, NEW p, NEW new, new = Return(rd, p)
    PROVE  /\ new.records = rd.records /\ new.known = rd.known /\ new.start = rd.start
           /\ new.rec = rd.rec /\ new.block = rd.block /\ new.head = rd.head /\ new.val = rd.val
           /\ LET id    == data[rd.block][p]
                  after == rd.rec # 0 /\ log[id].stamp >= rd.records[rd.rec].s
              IN  \/ /\ rd.nested = 0 \/ after
                     /\ new.pc = "have" /\ new.out = Append(rd.out, id)
                  \/ /\ rd.nested # 0 /\ ~after
                     /\ new.out = rd.out
                     /\ rd.rec = 0 => new.pc = "failed"
<1> DEFINE id    == data[rd.block][p]
           after == rd.rec # 0 /\ log[id].stamp >= rd.records[rd.rec].s
<1>1. rd.nested \in Nat
  BY DEF Readers
<1>2. CASE rd.nested = 0 \/ after
  <2>1. new = [rd EXCEPT !.pc = "have", !.nested = 0, !.out = Append(@, id)]
    BY <1>2 DEF Return
  <2> HIDE DEF id, after
  <2>2. /\ new.records = rd.records /\ new.known = rd.known /\ new.start = rd.start
        /\ new.rec = rd.rec /\ new.block = rd.block /\ new.head = rd.head /\ new.val = rd.val
        /\ new.pc = "have" /\ new.out = Append(rd.out, id)
    BY <2>1 DEF Readers
  <2> USE DEF id, after
  <2> QED
    BY <1>2, <2>2, Zenon
<1>3. CASE rd.nested > 0 /\ rd.rec = 0
  <2>1. new = [rd EXCEPT !.pc = "failed", !.nested = 0]
    BY <1>1, <1>3 DEF Return
  <2>2. /\ new.records = rd.records /\ new.known = rd.known /\ new.start = rd.start
        /\ new.rec = rd.rec /\ new.block = rd.block /\ new.head = rd.head /\ new.val = rd.val
        /\ new.pc = "failed" /\ new.out = rd.out
    BY <2>1 DEF Readers
  <2> QED
    BY <1>1, <1>3, <2>2
<1>4. CASE rd.nested > 0 /\ rd.rec # 0 /\ ~after
  <2>1. new = [rd EXCEPT !.pc = "next", !.nested = @ - 1]
    BY <1>1, <1>4 DEF Return
  <2>2. /\ new.records = rd.records /\ new.known = rd.known /\ new.start = rd.start
        /\ new.rec = rd.rec /\ new.block = rd.block /\ new.head = rd.head /\ new.val = rd.val
        /\ new.out = rd.out
    BY <2>1 DEF Readers
  <2> QED
    BY <1>1, <1>4, <2>2
<1> QED
  BY <1>1, <1>2, <1>3, <1>4

\* The reader at the empty record of block 1 looks for a time from before block 1.
LEMMA EmptyBefore ==
    ASSUME IInv, KeptSound, OrderSound, NEW rd \in Readers, ReaderHolds(rd), Walks(rd),
           OnItsWay(rd), rd.pc # "header", AtEmpty(rd)
    PROVE  /\ rd.block = 1 /\ 1 \in DOMAIN data /\ rd.nested = 0
           /\ \A j \in DOMAIN data[1] : rd.start < Stamp(1, j) /\ Stamp(1, j) \in Nat
<1>1. /\ rd.records \in Seq(Record) /\ Tells(rd.records) /\ rd.start \in Nat
      /\ rd.rec = 1 /\ Empty(rd.records[1]) /\ 1 < Len(rd.records) /\ Len(rd.records) \in Nat
  BY ReaderAt DEF AtEmpty
<1>2. 1 \in 1 .. Len(rd.records) /\ 2 \in 1 .. Len(rd.records)
  BY <1>1
<1>3. /\ rd.block = Of(rd.records[1]) /\ rd.nested = 0 /\ rd.start < rd.records[2].s
  BY <1>1 DEF OnItsWay
<1>4. rd.block = 1 /\ 1 \in DOMAIN data
  BY <1>1, <1>2, <1>3, RecordMarks
<1>5. ~Empty(rd.records[2]) /\ Of(rd.records[2]) = 1
  BY <1>1, <1>2, RecordMarks
<1>6. 1 \in DOMAIN data[1] /\ rd.records[2].s = Stamp(1, 1)
  BY <1>1, <1>2, <1>5, RecordMarks
<1>7. ASSUME NEW j \in DOMAIN data[1]
      PROVE  rd.start < Stamp(1, j) /\ Stamp(1, j) \in Nat
  <2>1. Stamp(1, 1) \in Nat /\ Stamp(1, j) \in Nat
    BY <1>4, <1>6, LineOrder
  <2>2. j = 1 \/ 1 < j
    BY <1>4, LineOrder
  <2>3. Stamp(1, 1) <= Stamp(1, j)
    BY <1>4, <1>6, <2>1, <2>2, LineOrder
  <2> QED
    BY <1>1, <1>3, <1>6, <2>1, <2>3
<1> QED
  BY <1>3, <1>4, <1>7

LEMMA EmptyWalks ==
    ASSUME IInv, KeptSound, OrderSound, ReaderIInv, Walks(r), FindInEmpty
    PROVE  Walks(r)'
<1> DEFINE b == r.block
<1>1. r.pc = "search" /\ r.goal # r.head.begin_time /\ r.head.num = 0 /\ UNCHANGED vars
  BY DEF FindInEmpty
<1>2. r \in Readers /\ ReaderHolds(r) /\ OnItsWay(r) /\ GoalFits(r) /\ b # 0
  BY <1>1 DEF ReaderIInv, ReaderTypeOK, ReaderReady, Walks, OnItsWay
<1>3. r.goal # 0 /\ r.rec # 0
  BY <1>1, <1>2 DEF Walks, GoalFits
<1>4. /\ b \in DOMAIN data /\ b = Of(r.records[r.rec]) /\ r.rec \in 1 .. Len(r.records)
      /\ r.records \in Seq(Record) /\ Tells(r.records)
      /\ r.goal \in Nat /\ r.start \in Nat /\ r.nested \in Nat
  BY <1>1, <1>2, <1>3, ReaderAt DEF OnItsWay
<1>5. CASE ~(data[b] # <<>> /\ Stamp(b, 1) = r.goal)
  <2> DEFINE new == [r EXCEPT !.pc = "failed", !.val = Huge, !.nested = 0]
  <2>1. r' = new
    BY <1>5 DEF FindInEmpty
  <2>2. /\ new.records = r.records /\ new.known = r.known /\ new.start = r.start
        /\ new.out = r.out /\ new.block = r.block /\ new.head = r.head /\ new.pc = "failed"
    BY <1>2 DEF Readers
  <2> HIDE DEF new
  <2>3. Walks(new)
    BY <2>2, SameWalk DEF Walks
  <2> QED
    BY <1>1, <2>1, <2>3, WalksStays
<1>6. CASE data[b] # <<>> /\ Stamp(b, 1) = r.goal
  <2> DEFINE rd == [r EXCEPT !.val = Huge]
  <2>1. r' = Return(rd, 1)
    BY <1>6 DEF FindInEmpty
  <2>2. Huge \in Nat /\ 1 <= Huge
    BY BufferAssumption DEF Huge
  <2>3. /\ rd \in Readers /\ rd.records = r.records /\ rd.known = r.known
        /\ rd.start = r.start /\ rd.out = r.out /\ rd.rec = r.rec /\ rd.block = b
        /\ rd.head = r.head /\ rd.val = Huge /\ rd.nested = r.nested
    BY <1>2, <2>2 DEF Readers
  <2> HIDE DEF rd
  <2>4. 1 \in DOMAIN data[b] /\ log[data[b][1]].stamp = r.goal
    <3>1. DOMAIN data[b] = 1 .. Len(data[b]) /\ Len(data[b]) \in Nat /\ data[b] \in Seq(Nat)
      BY <1>4, LineTypes
    <3>2. Len(data[b]) # 0
      BY <1>6, <3>1
    <3> QED
      BY <1>6, <3>1, <3>2 DEF Stamp
  <2>5. PICK new : new = Return(rd, 1)
    OBVIOUS
  <2>6. r.nested # 0 => r.goal >= r.records[r.rec].s
    <3>1. r.nested # 0 => r.goal = r.records[r.rec].s
      BY <1>2, <1>3 DEF GoalFits
    <3> QED
      BY <1>4, <3>1
  <2>7. /\ new.records = r.records /\ new.known = r.known /\ new.start = r.start
        /\ new.rec = r.rec /\ new.block = b /\ new.head = r.head /\ new.val = Huge
        /\ new.pc = "have" /\ new.out = Append(r.out, data[b][1])
    BY <1>3, <2>3, <2>4, <2>5, <2>6, ReturnCases
  <2>8. r.out = <<>> => GoodFirst(data[b][1], r)
    BY <1>2, <1>3, <1>4, <1>6, <2>4, GoalGood
  <2>9. ~AtEmpty(r)
    <3> SUFFICES ASSUME AtEmpty(r) PROVE FALSE
      OBVIOUS
    <3>1. /\ b = 1 /\ r.nested = 0 /\ r.start < Stamp(b, 1) /\ Stamp(b, 1) \in Nat
      BY <1>1, <1>2, <2>4, EmptyBefore
    <3>2. r.rec = 1 /\ r.records[1].s = 0
      BY DEF AtEmpty, Empty
    <3>3. r.goal = r.start
      BY <1>2, <1>3, <3>1, <3>2 DEF GoalFits
    <3> QED
      BY <1>4, <1>6, <3>1, <3>3
  <2>10. Passed(r) = 0 /\ Passed(r) < 1 /\ 1 = Passed(r) + 1
    BY <1>1 DEF Passed
  <2>11. Walks(new)
    BY <1>1, <1>2, <2>2, <2>4, <2>7, <2>8, <2>9, <2>10, ReturnsOn
  <2> QED
    BY <1>1, <2>1, <2>5, <2>11, WalksStays
<1> QED
  BY <1>5, <1>6

\* The binary search is used for a start time only, or when there is nothing at all
\* in the record.
LEMMA SearchFrom ==
    ASSUME IInv, KeptSound, OrderSound, ReaderIInv, Walks(r),
           r.pc = "search", r.goal # r.head.begin_time, r.head.num > 0
    PROVE  /\ r \in Readers /\ ReaderHolds(r) /\ OnItsWay(r) /\ r.block # 0
           /\ r.rec # 0 /\ r.rec \in 1 .. Len(r.records) /\ r.nested = 0 /\ r.out = <<>>
           /\ r.block = Of(r.records[r.rec]) /\ r.block \in DOMAIN data
           /\ r.records \in Seq(Record) /\ Tells(r.records)
           /\ r.head.num \in Nat \ {0} /\ r.goal \in Nat
           /\ \A j \in 1 .. r.head.num : j \in DOMAIN data[r.block]
           /\ r.head.begin_time = Stamp(r.block, 1)
           /\ \/ /\ r.goal = r.start
                 /\ r.rec = 1 \/ r.records[r.rec].s <= r.start
                 /\ \A k \in 1 .. Len(r.records) : r.rec < k => r.start < r.records[k].s
              \/ r.goal = 0 /\ Empty(r.records[r.rec])
<1>1. r \in Readers /\ ReaderHolds(r) /\ OnItsWay(r) /\ GoalFits(r) /\ r.block # 0
  BY DEF ReaderIInv, ReaderTypeOK, ReaderReady, Walks, OnItsWay
<1>2. r.rec # 0
  BY <1>1 DEF GoalFits
<1>3. /\ r.rec \in 1 .. Len(r.records) /\ r.records \in Seq(Record) /\ Tells(r.records)
      /\ r.block = Of(r.records[r.rec]) /\ r.block \in DOMAIN data
      /\ r.head.num \in Nat \ {0} /\ r.goal \in Nat /\ r.nested \in Nat
      /\ \A j \in 1 .. r.head.num : j \in DOMAIN data[r.block]
  BY <1>1, <1>2, ReaderAt DEF OnItsWay
<1>4. r.head.begin_time = Stamp(r.block, 1)
  BY <1>1, <1>3 DEF Walks
<1>5. ~Empty(r.records[r.rec]) => r.goal # r.records[r.rec].s
  BY <1>3, <1>4, RecordMarks
<1>6. r.nested = 0
  <2>1. 1 < r.rec => ~Empty(r.records[r.rec])
    BY <1>3, RecordMarks
  <2> QED
    BY <1>1, <1>2, <1>5, <2>1 DEF GoalFits
<1>7. r.out = <<>>
  BY <1>1, <1>2, <1>6 DEF GoalFits
<1>8. r.rec = 1 /\ r.goal = r.records[1].s => r.goal = 0 /\ Empty(r.records[1])
  BY <1>5 DEF Empty
<1>9. \/ /\ r.goal = r.start
         /\ r.rec = 1 \/ r.records[r.rec].s <= r.start
         /\ \A k \in 1 .. Len(r.records) : r.rec < k => r.start < r.records[k].s
      \/ r.goal = 0 /\ Empty(r.records[r.rec])
  BY <1>1, <1>2, <1>6, <1>8 DEF GoalFits
<1> QED
  BY <1>1, <1>2, <1>3, <1>4, <1>6, <1>7, <1>9

\* No sample up to the start time is from after sample p of the buffer, if that is
\* so of the samples that the header counts.
LEMMA KnownUpTo ==
    ASSUME IInv, KeptSound, OrderSound, NEW rd \in Readers, ReaderHolds(rd), Walks(rd),
           OnItsWay(rd), rd.pc = "search", rd.rec # 0, rd.block # 0,
           \A k \in 1 .. Len(rd.records) : rd.rec < k => rd.start < rd.records[k].s,
           NEW p \in DOMAIN data[rd.block],
           \A j \in 1 .. rd.head.num :
              Stamp(rd.block, j) <= rd.start => Stamp(rd.block, j) <= Stamp(rd.block, p)
    PROVE  \A i \in rd.known : log[i].stamp <= rd.start => log[i].stamp <= Stamp(rd.block, p)
<1> SUFFICES ASSUME NEW i \in rd.known, log[i].stamp <= rd.start
             PROVE  log[i].stamp <= Stamp(rd.block, p)
  OBVIOUS
<1>1. /\ rd.block \in DOMAIN data /\ i \in DOMAIN log /\ rd.start \in Nat /\ p > 0
      /\ rd.records \in Seq(Record) /\ Tells(rd.records) /\ rd.rec \in 1 .. Len(rd.records)
      /\ rd.block = Of(rd.records[rd.rec]) /\ rd.head.num \in Nat
  BY ReaderAt, LineOrder DEF OnItsWay
<1>2. log[i].stamp \in Nat /\ i \in Nat
  BY <1>1, LineOrder
<1>3. CASE Behind(i, rd)
  <2>1. i < data[rd.block][p]
    BY <1>1, <1>3 DEF Behind, Before, Place, Passed
  <2> QED
    BY <1>1, <1>2, <2>1, LineOrder
<1>4. CASE ToCome(i, rd)
  <2>1. PICK k \in 1 .. Len(rd.records) : \E j \in Counting(rd.records[k]) :
           /\ Holds(rd.records[k], j, i)
           /\ \/ rd.rec < k
              \/ rd.rec = k /\ j <= rd.head.num
    BY <1>4 DEF ToCome
  <2>2. PICK j \in Counting(rd.records[k]) :
           /\ Holds(rd.records[k], j, i)
           /\ \/ rd.rec < k
              \/ rd.rec = k /\ j <= rd.head.num
    BY <2>1
  <2>3. CASE rd.rec < k
    <3>1. rd.records[k].s <= log[i].stamp /\ rd.start < rd.records[k].s
      BY <2>2, <2>3 DEF Holds
    <3>2. rd.records[k].s \in Nat
      BY <1>1, RecordMarks
    <3> QED
      BY <1>1, <1>2, <3>1, <3>2
  <2>4. CASE rd.rec = k /\ j <= rd.head.num
    <3>1. Of(rd.records[k]) = rd.block
      BY <1>1, <2>4
    <3>2. log[i].stamp = Stamp(rd.block, j) /\ j \in Nat /\ j \in DOMAIN data[rd.block]
      <4>1. /\ log[i].stamp = Stamp(Of(rd.records[k]), j) /\ j \in Nat
            /\ j \in DOMAIN data[Of(rd.records[k])]
        BY <2>2, ReaderAt
      <4> QED
        BY <3>1, <4>1
    <3>3. j \in 1 .. rd.head.num
      BY <1>1, <2>4, <3>2, LineOrder
    <3> QED
      BY <3>2, <3>3
  <2> QED
    BY <2>2, <2>3, <2>4
<1> QED
  BY <1>3, <1>4 DEF OnItsWay, NoneMissed

LEMMA SearchWalks ==
    ASSUME IInv, KeptSound, OrderSound, ReaderIInv, Walks(r), FindBySearch
    PROVE  Walks(r)'
<1> DEFINE b == r.block
           n == r.head.num
<1>1. r.pc = "search" /\ r.goal # r.head.begin_time /\ r.head.num > 0 /\ UNCHANGED vars
  BY DEF FindBySearch
<1>2. /\ r \in Readers /\ ReaderHolds(r) /\ OnItsWay(r) /\ b # 0
      /\ r.rec # 0 /\ r.rec \in 1 .. Len(r.records) /\ r.nested = 0 /\ r.out = <<>>
      /\ b = Of(r.records[r.rec]) /\ b \in DOMAIN data /\ b \in Nat
      /\ r.records \in Seq(Record) /\ Tells(r.records)
      /\ n \in Nat \ {0} /\ r.goal \in Nat
      /\ \A j \in 1 .. n : j \in DOMAIN data[b]
      /\ r.head.begin_time = Stamp(b, 1)
  BY <1>1, SearchFrom, LineOrder
<1>3. \/ /\ r.goal = r.start
         /\ r.rec = 1 \/ r.records[r.rec].s <= r.start
         /\ \A k \in 1 .. Len(r.records) : r.rec < k => r.start < r.records[k].s
      \/ r.goal = 0 /\ Empty(r.records[r.rec])
  BY <1>1, SearchFrom
<1>4. /\ \A j \in 1 .. n : Stamp(b, j) \in Nat /\ Stamp(b, j) > 0 /\ j \in Nat
      /\ \A i, j \in 1 .. n : i <= j => Stamp(b, i) <= Stamp(b, j)
  <2>1. \A j \in 1 .. n : Stamp(b, j) \in Nat /\ Stamp(b, j) > 0 /\ j \in Nat
    BY <1>2, LineOrder
  <2>2. ASSUME NEW i \in 1 .. n, NEW j \in 1 .. n, i <= j
        PROVE  Stamp(b, i) <= Stamp(b, j)
    <3>1. i = j \/ i < j
      BY <2>1, <2>2
    <3>2. i \in DOMAIN data[b] /\ j \in DOMAIN data[b] /\ Stamp(b, i) \in Nat
      BY <1>2, <2>1
    <3>3. CASE i = j
      BY <3>2, <3>3
    <3>4. CASE i < j
      BY <1>2, <3>2, <3>4, LineOrder
    <3> QED
      BY <3>1, <3>3, <3>4
  <2> QED
    BY <2>1, <2>2
<1>5. PICK at \in 0 .. n - 1, taken \in BOOLEAN :
         /\ at = BinarySearch(b, r.goal).at /\ taken = BinarySearch(b, r.goal).taken
         /\ taken => Stamp(b, at + 1) = r.goal \/ (Stamp(b, at + 1) <= r.goal /\ at + 1 = n)
         /\ ~taken => /\ at = 0 \/ Stamp(b, at + 1) < r.goal
                      /\ \E p \in 1 .. n : p \in {at + 1, at + 2} /\ Stamp(b, p) > r.goal
  <2>1. \A i \in 1 .. n : Stamp(b, i) \in Nat
    BY <1>4
  <2> QED
    BY <1>2, <2>1, SearchMeets
<1>6. at \in Nat /\ at + 1 \in 1 .. n /\ at < n
  BY <1>2, <1>5
<1>7. r' = IF taken THEN Return([r EXCEPT !.val = at + 1], at + 1)
           ELSE [r EXCEPT !.pc = "next", !.val = at]
  BY <1>5 DEF FindBySearch
<1>8. CASE taken
  <2> DEFINE p  == at + 1
             rd == [r EXCEPT !.val = p]
  <2>1. r' = Return(rd, p)
    BY <1>7, <1>8
  <2>2. p \in Nat /\ p > 0 /\ p \in 1 .. n /\ p \in DOMAIN data[b]
        /\ (Stamp(b, p) = r.goal \/ (Stamp(b, p) <= r.goal /\ p = n))
    BY <1>2, <1>5, <1>6, <1>8
  <2> HIDE DEF p
  <2>3. /\ rd \in Readers /\ rd.records = r.records /\ rd.known = r.known
        /\ rd.start = r.start /\ rd.out = r.out /\ rd.rec = r.rec /\ rd.block = b
        /\ rd.head = r.head /\ rd.val = p /\ rd.nested = 0
    BY <1>2, <2>2 DEF Readers
  <2> HIDE DEF rd
  <2>4. PICK new : new = Return(rd, p)
    OBVIOUS
  <2>5. /\ new.records = r.records /\ new.known = r.known /\ new.start = r.start
        /\ new.rec = r.rec /\ new.block = b /\ new.head = r.head /\ new.val = p
        /\ new.pc = "have" /\ new.out = Append(r.out, data[b][p])
    BY <2>3, <2>4, ReturnCases
  <2>6. r.goal # 0 /\ Stamp(b, p) <= r.goal
    BY <1>2, <1>4, <2>2
  <2>7. /\ r.goal = r.start
        /\ \A k \in 1 .. Len(r.records) : r.rec < k => r.start < r.records[k].s
    BY <1>3, <2>6
  <2>8. GoodFirst(data[b][p], r)
    <3>1. \A j \in 1 .. n : Stamp(b, j) <= r.start => Stamp(b, j) <= Stamp(b, p)
      BY <1>2, <1>4, <2>2, <2>7
    <3>2. \A i \in r.known : log[i].stamp <= r.start => log[i].stamp <= Stamp(b, p)
      BY <1>1, <1>2, <2>2, <2>7, <3>1, KnownUpTo
    <3>3. Stamp(b, p) <= r.start /\ Stamp(b, p) \in Nat /\ r.start \in Nat
      BY <1>2, <1>4, <2>2, <2>6, <2>7
    <3>4. ~(Stamp(b, p) > r.start)
      BY <3>3
    <3> QED
      BY <3>2, <3>4 DEF GoodFirst, Stamp
  <2>9. ~AtEmpty(r)
    <3> SUFFICES ASSUME AtEmpty(r) PROVE FALSE
      OBVIOUS
    <3>1. r.start < Stamp(b, p) /\ Stamp(b, p) \in Nat
      BY <1>1, <1>2, <2>2, EmptyBefore
    <3> QED
      BY <1>2, <2>6, <2>7, <3>1
  <2>10. Passed(r) = 0 /\ Passed(r) < p /\ p <= p
    BY <1>1, <2>2 DEF Passed
  <2>11. Walks(new)
    BY <1>1, <1>2, <2>2, <2>5, <2>8, <2>9, <2>10, ReturnsOn
  <2> QED
    BY <1>1, <2>1, <2>4, <2>11, WalksStays
<1>9. CASE ~taken
  <2> DEFINE new == [r EXCEPT !.pc = "next", !.val = at]
  <2>1. r' = new
    BY <1>7, <1>9
  <2>2. /\ new.records = r.records /\ new.known = r.known /\ new.start = r.start
        /\ new.out = <<>> /\ new.rec = r.rec /\ new.block = b /\ new.head = r.head
        /\ new.val = at /\ new.nested = 0 /\ new.pc = "next"
    BY <1>2 DEF Readers
  <2> HIDE DEF new
  <2>3. Place(new) = b /\ Passed(new) = at /\ Place(r) = b /\ Passed(r) = 0
    BY <1>1, <2>2 DEF Place, Passed
  <2>4. NoneMissed(new)
    <3> SUFFICES ASSUME NEW i \in r.known
                 PROVE  ToCome(i, new) \/ Behind(i, new)
      BY <2>2 DEF NoneMissed
    <3>1. CASE Behind(i, r)
      <4>1. Before(i, b, 0)
        BY <2>3, <3>1 DEF Behind
      <4>2. Before(i, b, at)
        BY <1>2, <1>6, <4>1, BeforeLater
      <4> QED
        BY <2>3, <4>2 DEF Behind
    <3>2. CASE ToCome(i, r)
      <4>1. PICK k \in 1 .. Len(r.records) : \E j \in Counting(r.records[k]) :
               /\ Holds(r.records[k], j, i)
               /\ \/ r.rec < k
                  \/ r.rec = k /\ j <= r.head.num
        BY <1>1, <3>2 DEF ToCome
      <4>2. PICK j \in Counting(r.records[k]) :
               /\ Holds(r.records[k], j, i)
               /\ \/ r.rec < k
                  \/ r.rec = k /\ j <= r.head.num
        BY <4>1
      <4>3. /\ i = data[Of(r.records[k])][j] /\ j \in Nat /\ j \in DOMAIN data[Of(r.records[k])]
        <5>1. r \in Readers /\ ReaderHolds(r) /\ k \in 1 .. Len(r.records)
          BY <1>2
        <5>2. j \in Nat /\ j \in DOMAIN data[Of(r.records[k])]
          BY <5>1, ReaderAt
        <5>3. Holds(r.records[k], j, i)
          BY <4>2
        <5>4. i = data[Of(r.records[k])][j]
          BY <5>3 DEF Holds
        <5> QED
          BY <5>2, <5>4
      <4>4. CASE r.rec < k
        BY <1>2, <2>2, <4>2, <4>4 DEF ToCome
      <4>5. CASE r.rec = k /\ j <= r.head.num /\ at < j
        BY <1>2, <2>2, <2>3, <4>2, <4>5 DEF ToCome
      <4>6. CASE r.rec = k /\ j <= at
        <5>1. i = data[b][j] /\ j \in DOMAIN data[b]
          BY <1>2, <4>3, <4>6
        <5>2. Before(data[b][j], b, at)
          BY <1>2, <1>6, <4>6, <5>1, PassedBefore
        <5> QED
          BY <2>3, <5>1, <5>2 DEF Behind
      <4> QED
        BY <1>6, <4>2, <4>3, <4>4, <4>5, <4>6
    <3> QED
      BY <1>2, <3>1, <3>2 DEF OnItsWay, NoneMissed
  <2>5. ASSUME ~Empty(r.records[r.rec]), Stamp(b, at + 1) <= r.records[r.rec].e
        PROVE  GoodFirst(data[b][at + 1], new)
    <3> DEFINE f == Stamp(b, at + 1)
    <3>1. /\ r.goal = r.start /\ (r.rec = 1 \/ r.records[r.rec].s <= r.start)
          /\ \A k \in 1 .. Len(r.records) : r.rec < k => r.start < r.records[k].s
      BY <1>3, <2>5
    <3>2. f \in Nat /\ r.start \in Nat /\ at + 1 \in DOMAIN data[b]
      BY <1>2, <1>4, <1>6, <3>1
    <3>3. f # r.start
      <4>1. at = 0 => f = r.head.begin_time
        BY <1>2
      <4> QED
        BY <1>1, <1>2, <1>5, <1>9, <3>1, <3>2, <4>1
    <3>4. CASE f < r.start
      <4>1. PICK p \in 1 .. n : p \in {at + 1, at + 2} /\ Stamp(b, p) > r.start
        BY <1>5, <1>9, <3>1
      <4>2. p = at + 2
        BY <3>2, <3>4, <4>1
      <4>3. ASSUME NEW j \in 1 .. n, Stamp(b, j) <= r.start
            PROVE  Stamp(b, j) <= f
        <5>1. ~(p <= j)
          <6> SUFFICES ASSUME p <= j PROVE FALSE
            OBVIOUS
          <6>1. Stamp(b, p) <= Stamp(b, j) /\ Stamp(b, p) \in Nat /\ Stamp(b, j) \in Nat
            BY <1>4
          <6> QED
            BY <3>2, <4>1, <4>3, <6>1
        <5>2. j <= at + 1
          BY <1>4, <1>6, <4>2, <5>1
        <5> QED
          BY <1>4, <1>6, <5>2
      <4>4. \A i \in r.known : log[i].stamp <= r.start => log[i].stamp <= f
        BY <1>1, <1>2, <3>1, <3>2, <4>3, KnownUpTo
      <4>5. ~(f > r.start)
        BY <3>2, <3>4
      <4> QED
        BY <2>2, <4>4, <4>5 DEF GoodFirst, Stamp
    <3>5. CASE f > r.start
      <4>1. at = 0
        BY <1>5, <1>9, <3>1, <3>2, <3>5
      <4>2. r.records[r.rec].s = Stamp(b, 1)
        BY <1>2, <2>5, RecordMarks
      <4>3. r.rec = 1
        BY <3>1, <3>2, <3>5, <4>1, <4>2
      <4>4. \A i \in r.known : f <= log[i].stamp
        BY <1>2, <2>5, <4>1, <4>2, <4>3, KnownFrom
      <4>5. \A i \in r.known : log[i].stamp \in Nat
        BY <1>2, ReaderAt, LineOrder
      <4>6. \A i \in r.known : ~(log[i].stamp <= r.start) /\ log[i].stamp >= f
        BY <3>2, <3>5, <4>4, <4>5
      <4> QED
        BY <2>2, <4>6 DEF GoodFirst, Stamp
    <3> QED
      BY <3>2, <3>3, <3>4, <3>5
  <2>6. ASSUME ~Empty(r.records[r.rec]), ~(Stamp(b, at + 1) <= r.records[r.rec].e)
        PROVE  r.rec = Len(r.records) /\ NoneFits(new)
    <3> DEFINE e == r.records[r.rec].e
               i == data[b][at + 1]
    <3>1. at + 1 \in DOMAIN data[b] /\ Stamp(b, at + 1) \in Nat /\ e \in Nat
      BY <1>2, <1>4, <1>6, RecordMarks
    <3>2. r.rec = Len(r.records)
      <4> SUFFICES ASSUME r.rec # Len(r.records) PROVE FALSE
        OBVIOUS
      <4>1. Len(r.records) \in 1 .. Len(r.records) /\ r.rec < Len(r.records)
        BY <1>2
      <4>2. Stamp(b, at + 1) <= e
        BY <1>2, <2>6, <3>1, <4>1, RecordMarks
      <4> QED
        BY <2>6, <4>2
    <3>3. r.records[r.rec].s = Stamp(b, 1) /\ r.records[r.rec].s <= e
      BY <1>2, <2>6, RecordMarks
    <3>4. at # 0
      BY <2>6, <3>3
    <3>5. r.goal = r.start /\ Stamp(b, at + 1) < r.start
      BY <1>3, <1>5, <1>9, <2>6, <3>4
    <3>6. r.start \in Nat /\ e < Stamp(b, at + 1) /\ Stamp(b, at + 1) <= r.start
      BY <1>2, <2>6, <3>1, <3>5
    <3>7. i \in DOMAIN log /\ log[i].stamp = Stamp(b, at + 1)
      BY <1>2, <3>1, LineOrder
    <3>8. r.records # <<>> /\ Last(r.records).e = e
      <4>1. Len(r.records) # 0
        BY <1>2
      <4> QED
        BY <1>2, <3>2, <4>1 DEF Last
    <3>9. PassedOver(new)
      BY <2>2, <3>6, <3>7, <3>8 DEF PassedOver
    <3> QED
      BY <3>2, <3>9 DEF NoneFits
  <2>7. NoneYet(new)
    BY <1>2, <1>6, <2>2, <2>5, <2>6 DEF NoneYet
  <2>8. AtEmpty(new) => AtEmpty(r)
    BY <2>2 DEF AtEmpty
  <2>9. OnItsWay(new)
    BY <1>1, <1>2, <2>2, <2>4, <2>7, <2>8 DEF OnItsWay
  <2>10. Walks(new)
    BY <1>2, <2>2, <2>9, SameWalk DEF Walks
  <2> QED
    BY <1>1, <2>1, <2>10, WalksStays
<1> QED
  BY <1>8, <1>9

LEMMA InBufferWalks ==
    ASSUME IInv, KeptSound, OrderSound, ReaderIInv, Walks(r), NextInBuffer
    PROVE  Walks(r)'
<1> DEFINE b == r.block
           p == r.val + 1
           x == r.records[r.rec]
<1>1. r.pc = "next" /\ r.val < r.head.num /\ UNCHANGED vars
  BY DEF NextInBuffer
<1>2. r \in Readers /\ ReaderHolds(r) /\ OnItsWay(r) /\ b # 0
  BY <1>1 DEF ReaderIInv, ReaderTypeOK, ReaderReady, Walks
<1>3. /\ b \in DOMAIN data /\ b \in Nat /\ r.val \in Nat /\ r.head.num \in Nat
      /\ \A j \in 1 .. r.head.num : j \in DOMAIN data[b]
      /\ r.rec \in 0 .. Len(r.records) /\ r.records \in Seq(Record) /\ Tells(r.records)
      /\ r.nested \in Nat /\ Place(r) = b /\ Passed(r) = r.val
  BY <1>1, <1>2, ReaderAt DEF Passed
<1>4. p \in 1 .. r.head.num /\ p \in DOMAIN data[b] /\ p \in Nat /\ r.val < p
  BY <1>1, <1>3
<1>5. /\ data[b][p] \in DOMAIN log /\ Stamp(b, p) \in Nat /\ Stamp(b, p) > 0
      /\ log[data[b][p]].stamp = Stamp(b, p)
  BY <1>3, <1>4, LineOrder
<1>6. r.rec # 0 => r.rec \in 1 .. Len(r.records) /\ b = Of(x) /\ x.s \in Nat /\ x.e \in Nat
  BY <1>1, <1>2, <1>3, RecordMarks DEF OnItsWay
<1>7. CASE r.rec # 0 /\ Stamp(b, p) > x.e
  <2> DEFINE new == [r EXCEPT !.val = r.head.num]
  <2>1. r' = new
    BY <1>7 DEF NextInBuffer
  <2>2. /\ new.records = r.records /\ new.known = r.known /\ new.start = r.start
        /\ new.out = r.out /\ new.rec = r.rec /\ new.block = b /\ new.head = r.head
        /\ new.val = r.head.num /\ new.nested = r.nested /\ new.pc = "next"
    BY <1>1, <1>2 DEF Readers
  <2> HIDE DEF new
  <2>3. Place(new) = b /\ Passed(new) = r.head.num
    BY <2>2 DEF Place, Passed
  <2>4. \A i \in r.known : ToCome(i, r) => ToCome(i, new)
    <3> SUFFICES ASSUME NEW i \in r.known, ToCome(i, r) PROVE ToCome(i, new)
      OBVIOUS
    <3>1. PICK k \in 1 .. Len(r.records) : \E j \in Counting(r.records[k]) :
             /\ Holds(r.records[k], j, i)
             /\ \/ r.rec < k
                \/ r.rec = k /\ r.val < j /\ j <= r.head.num
      BY <1>1, <1>3 DEF ToCome
    <3>2. PICK j \in Counting(r.records[k]) :
             /\ Holds(r.records[k], j, i)
             /\ \/ r.rec < k
                \/ r.rec = k /\ r.val < j /\ j <= r.head.num
      BY <3>1
    <3>3. CASE r.rec < k
      BY <1>7, <2>2, <3>2, <3>3 DEF ToCome
    <3>4. CASE r.rec = k /\ r.val < j /\ j <= r.head.num
      <4>1. j \in Nat
        BY <1>2, <3>2, ReaderAt
      <4>2. j \in 1 .. r.head.num /\ j \in DOMAIN data[b] /\ (j = p \/ p < j)
        BY <1>3, <3>4, <4>1
      <4>3. Stamp(b, p) <= Stamp(b, j) /\ Stamp(b, j) \in Nat
        <5>1. Stamp(b, j) \in Nat
          BY <1>3, <4>2, LineOrder
        <5>2. j = p => Stamp(b, p) <= Stamp(b, j)
          BY <1>5
        <5>3. p < j => Stamp(b, p) <= Stamp(b, j)
          BY <1>3, <1>4, <4>2, LineOrder
        <5> QED
          BY <4>2, <5>1, <5>2, <5>3
      <4>4. Stamp(b, j) <= x.e
        BY <1>6, <3>2, <3>4 DEF Holds, Stamp
      <4> QED
        BY <1>5, <1>6, <1>7, <4>3, <4>4
    <3> QED
      BY <3>2, <3>3, <3>4
  <2>5. NoneMissed(new) /\ \A i \in DOMAIN new.out : Behind(new.out[i], new)
    <3>1. NoneMissed(r) /\ \A i \in DOMAIN r.out : Behind(r.out[i], r)
      BY <1>2 DEF OnItsWay
    <3>2. /\ Place(r) \in Nat /\ Passed(r) \in Nat /\ Place(new) \in Nat /\ Passed(new) \in Nat
          /\ Place(r) = Place(new) /\ Passed(r) <= Passed(new)
          /\ new.known = r.known /\ new.out = r.out
      BY <1>1, <1>3, <2>2, <2>3
    <3> QED
      BY <2>4, <3>1, <3>2, MovesOn
  <2>6. r.out = <<>> => NoneYet(new)
    <3> HAVE r.out = <<>>
    <3>1. ~Empty(x) => r.rec = Len(r.records) /\ NoneFits(r)
      BY <1>1, <1>2, <1>5, <1>6, <1>7 DEF OnItsWay, NoneYet
    <3>2. NoneFits(r) => NoneFits(new)
      BY <2>2 DEF NoneFits, PassedOver
    <3> QED
      BY <1>3, <1>7, <2>2, <3>1, <3>2 DEF NoneYet
  <2>7. AtEmpty(new) => AtEmpty(r)
    BY <2>2 DEF AtEmpty
  <2>8. OnItsWay(new)
    BY <1>1, <1>2, <2>2, <2>5, <2>6, <2>7 DEF OnItsWay
  <2>9. Walks(new)
    BY <2>2, <2>8, SameWalk DEF Walks
  <2> QED
    BY <1>1, <2>1, <2>9, WalksStays
<1>8. CASE ~(r.rec # 0 /\ Stamp(b, p) > x.e)
  <2> DEFINE rd == [r EXCEPT !.val = p]
  <2>1. r' = Return(rd, p)
    BY <1>8 DEF NextInBuffer
  <2> HIDE DEF p
  <2>2. /\ rd \in Readers /\ rd.records = r.records /\ rd.known = r.known
        /\ rd.start = r.start /\ rd.out = r.out /\ rd.rec = r.rec /\ rd.block = b
        /\ rd.head = r.head /\ rd.val = p /\ rd.nested = r.nested
    BY <1>2, <1>4 DEF Readers
  <2> HIDE DEF rd
  <2>3. PICK new : new = Return(rd, p)
    OBVIOUS
  <2>4. r.rec # 0 => /\ ~Empty(x) /\ Stamp(b, p) <= x.e
                     /\ log[data[b][p]].stamp >= x.s
    <3> HAVE r.rec # 0
    <3>1. Stamp(b, p) <= x.e
      BY <1>5, <1>6, <1>8
    <3>2. ~Empty(x)
      BY <1>5, <3>1 DEF Empty
    <3>3. 1 \in DOMAIN data[b] /\ x.s = Stamp(b, 1)
      BY <1>3, <1>6, <3>2, RecordMarks
    <3>4. p = 1 \/ 1 < p
      BY <1>4
    <3>5. Stamp(b, 1) <= Stamp(b, p)
      <4>1. p = 1 => Stamp(b, 1) <= Stamp(b, p)
        BY <1>5
      <4>2. 1 < p => Stamp(b, 1) <= Stamp(b, p)
        BY <1>3, <1>4, <3>3, LineOrder
      <4> QED
        BY <3>4, <4>1, <4>2
    <3> QED
      BY <1>5, <1>6, <3>1, <3>2, <3>3, <3>5
  <2>5. /\ new.records = r.records /\ new.known = r.known /\ new.start = r.start
        /\ new.rec = r.rec /\ new.block = b /\ new.head = r.head /\ new.val = p
        /\ \/ new.pc = "have" /\ new.out = Append(r.out, data[b][p])
           \/ new.pc = "failed" /\ new.out = r.out
    BY <2>2, <2>3, <2>4, ReturnCases
  <2>6. CASE new.pc = "failed"
    <3>1. new.out = r.out
      BY <2>5, <2>6
    <3>2. Walks(new)
      BY <2>5, <2>6, <3>1, SameWalk DEF Walks
    <3> QED
      BY <1>1, <2>1, <2>3, <3>2, WalksStays
  <2>7. CASE new.pc = "have"
    <3>1. new.out = Append(r.out, data[b][p])
      BY <2>5, <2>7
    <3>2. ~AtEmpty(r)
      BY <2>4 DEF AtEmpty
    <3>3. ASSUME r.out = <<>>
          PROVE  GoodFirst(data[b][p], r)
      <4>1. CASE r.rec # 0
        BY <1>1, <1>2, <2>4, <3>3, <4>1 DEF OnItsWay, NoneYet, p
      <4>2. CASE r.rec = 0
        <5>1. NoneFits(r)
          BY <1>2, <3>3, <4>2 DEF OnItsWay, NoneYet
        <5>2. ASSUME NEW i \in r.known
              PROVE  log[i].stamp <= log[data[b][p]].stamp
          <6>1. Behind(i, r)
            BY <1>2, <4>2 DEF OnItsWay, NoneMissed, ToCome
          <6>2. i < data[b][p]
            BY <1>3, <1>4, <6>1 DEF Behind, Before
          <6>3. i \in DOMAIN log /\ i \in Nat /\ data[b][p] \in Nat
            BY <1>2, <1>3, <1>4, ReaderAt, LineOrder
          <6> QED
            BY <1>5, <6>2, <6>3, LineOrder
        <5> QED
          BY <5>1, <5>2 DEF GoodFirst, NoneFits
      <4> QED
        BY <4>1, <4>2
    <3>4. Passed(r) < p /\ p <= p /\ p = Passed(r) + 1
      BY <1>3, <1>4 DEF p
    <3>5. Walks(new)
      BY <1>1, <1>2, <1>4, <2>5, <2>7, <3>1, <3>2, <3>3, <3>4, ReturnsOn
    <3> QED
      BY <1>1, <2>1, <2>3, <3>5, WalksStays
  <2> QED
    BY <2>5, <2>6, <2>7
<1> QED
  BY <1>7, <1>8

LEMMA RecordWalks ==
    ASSUME IInv, KeptSound, OrderSound, ReaderIInv, Walks(r), NextRecord
    PROVE  Walks(r)'
<1> DEFINE x == r.records[r.rec]
           n == Len(r.records)
<1>1. r.pc = "next" /\ r.val >= r.head.num /\ r.rec # 0 /\ UNCHANGED vars
  BY DEF NextRecord
<1>2. r \in Readers /\ ReaderHolds(r) /\ OnItsWay(r) /\ r.block # 0
  BY <1>1 DEF ReaderIInv, ReaderTypeOK, ReaderReady, Walks
<1>3. /\ r.block \in Nat /\ r.val \in Nat /\ r.head.num \in Nat /\ n \in Nat
      /\ r.rec \in Nat /\ r.rec \in 1 .. n /\ r.records \in Seq(Record) /\ Tells(r.records)
      /\ r.nested \in Nat /\ Place(r) = r.block /\ Passed(r) = r.val
      /\ r.block = Of(x)
  BY <1>1, <1>2, ReaderAt DEF Passed, OnItsWay
<1>4. \A i : ToCome(i, r) =>
         \E k \in 1 .. n : \E j \in Counting(r.records[k]) : Holds(r.records[k], j, i) /\ r.rec < k
  <2> SUFFICES ASSUME NEW i, ToCome(i, r)
               PROVE  \E k \in 1 .. n : \E j \in Counting(r.records[k]) :
                         Holds(r.records[k], j, i) /\ r.rec < k
    OBVIOUS
  <2>1. PICK k \in 1 .. n : \E j \in Counting(r.records[k]) :
           /\ Holds(r.records[k], j, i)
           /\ \/ r.rec < k
              \/ r.rec = k /\ r.val < j /\ j <= r.head.num
    BY <1>1, <1>3 DEF ToCome
  <2>2. PICK j \in Counting(r.records[k]) :
           /\ Holds(r.records[k], j, i)
           /\ \/ r.rec < k
              \/ r.rec = k /\ r.val < j /\ j <= r.head.num
    BY <2>1
  <2>3. j \in Nat
    BY <1>2, <2>2, ReaderAt
  <2>4. ~(r.val < j /\ j <= r.head.num)
    BY <1>1, <1>3, <2>3
  <2> QED
    BY <2>2, <2>4
<1>5. ~(r.val < r.head.num)
  BY <1>1, <1>3
<1>6. CASE r.rec < n
  <2> DEFINE new == [r EXCEPT !.pc = "header", !.rec = @ + 1, !.nested = @ + 1,
                              !.goal = r.records[r.rec + 1].s]
             c == Of(r.records[r.rec + 1])
  <2>1. r' = new
    BY <1>6 DEF NextRecord
  <2>2. /\ new.records = r.records /\ new.known = r.known /\ new.start = r.start
        /\ new.out = r.out /\ new.rec = r.rec + 1 /\ new.block = r.block /\ new.head = r.head
        /\ new.val = r.val /\ new.nested = r.nested + 1 /\ new.pc = "header"
        /\ new.goal = r.records[r.rec + 1].s
    BY <1>2 DEF Readers
  <2> HIDE DEF new
  <2>3. Place(new) = c /\ Passed(new) = 0
    BY <2>2 DEF Place, Passed
  <2>4. r.rec + 1 \in 1 .. n /\ r.rec < r.rec + 1 /\ c \in Nat
    BY <1>3, <1>6, RecordMarks
  <2>5. ~AtEmpty(new) /\ NoneYet(new)
    BY <1>3, <2>2 DEF AtEmpty, NoneYet
  <2>6. CASE ~Empty(x)
    <3>1. r.block < c
      BY <1>3, <2>4, <2>6, RecordMarks
    <3>2. \A i \in r.known : ToCome(i, r) => ToCome(i, new)
      <4> SUFFICES ASSUME NEW i \in r.known, ToCome(i, r) PROVE ToCome(i, new)
        OBVIOUS
      <4>1. PICK k \in 1 .. n : \E j \in Counting(r.records[k]) :
               Holds(r.records[k], j, i) /\ r.rec < k
        BY <1>4
      <4>2. r.rec + 1 < k \/ r.rec + 1 = k
        BY <1>3, <4>1
      <4>3. PICK j \in Counting(new.records[k]) : Holds(new.records[k], j, i)
        BY <2>2, <4>1
      <4>4. new.rec # 0 /\ k \in 1 .. Len(new.records) /\ (new.rec < k \/ (new.rec = k /\ new.pc = "header"))
        BY <1>3, <2>2, <4>2
      <4> QED
        BY <4>3, <4>4 DEF ToCome
    <3>3. NoneMissed(new) /\ \A i \in DOMAIN new.out : Behind(new.out[i], new)
      <4>1. NoneMissed(r) /\ \A i \in DOMAIN r.out : Behind(r.out[i], r)
        BY <1>2 DEF OnItsWay
      <4>2. /\ Place(r) \in Nat /\ Passed(r) \in Nat /\ Place(new) \in Nat /\ Passed(new) \in Nat
            /\ Place(r) < Place(new) /\ new.known = r.known /\ new.out = r.out
        BY <1>3, <2>2, <2>3, <2>4, <3>1
      <4> QED
        BY <3>2, <4>1, <4>2, MovesOn
    <3>4. r.out # <<>>
      BY <1>1, <1>2, <1>3, <1>5, <1>6, <2>6 DEF OnItsWay, NoneYet
    <3>5. GoalFits(new)
      BY <1>3, <2>2, <3>4 DEF GoalFits
    <3>6. OnItsWay(new)
      BY <2>2, <2>5, <3>3, <3>5 DEF OnItsWay
    <3>7. Walks(new)
      BY <2>2, <3>6, SameWalk DEF Walks
    <3> QED
      BY <1>1, <2>1, <3>7, WalksStays
  <2>7. CASE Empty(x)
    <3>1. r.rec = 1 /\ AtEmpty(r)
      BY <1>3, <1>6, <2>7, RecordMarks DEF AtEmpty
    <3>2. r.out = <<>> /\ r.nested = 0 /\ r.start < r.records[2].s
      BY <1>2, <3>1 DEF OnItsWay
    <3>3. \A i \in r.known : ToCome(i, new)
      <4> SUFFICES ASSUME NEW i \in r.known PROVE ToCome(i, new)
        OBVIOUS
      <4>1. PICK k \in 1 .. n : \E j \in Counting(r.records[k]) : Holds(r.records[k], j, i)
        BY DEF Walks
      <4>2. ~Empty(r.records[k])
        BY <1>2, <4>1, ReaderAt
      <4>3. k = 2 \/ 2 < k
        BY <1>3, <2>7, <3>1, <4>2
      <4>4. PICK j \in Counting(new.records[k]) : Holds(new.records[k], j, i)
        BY <2>2, <4>1
      <4>5. new.rec # 0 /\ k \in 1 .. Len(new.records) /\ (new.rec < k \/ (new.rec = k /\ new.pc = "header"))
        BY <1>3, <2>2, <3>1, <4>3
      <4> QED
        BY <4>4, <4>5 DEF ToCome
    <3>4. NoneMissed(new) /\ \A i \in DOMAIN new.out : Behind(new.out[i], new)
      BY <2>2, <3>2, <3>3 DEF NoneMissed
    <3>5. GoalFits(new)
      BY <2>2, <2>7, <3>1, <3>2 DEF GoalFits
    <3>6. OnItsWay(new)
      BY <2>2, <2>5, <3>4, <3>5 DEF OnItsWay
    <3>7. Walks(new)
      BY <2>2, <3>6, SameWalk DEF Walks
    <3> QED
      BY <1>1, <2>1, <3>7, WalksStays
  <2> QED
    BY <2>6, <2>7
<1>7. CASE ~(r.rec < n)
  <2> DEFINE new == [r EXCEPT !.rec = 0]
  <2>1. r' = new
    BY <1>7 DEF NextRecord
  <2>2. /\ new.records = r.records /\ new.known = r.known /\ new.start = r.start
        /\ new.out = r.out /\ new.rec = 0 /\ new.block = r.block /\ new.head = r.head
        /\ new.val = r.val /\ new.nested = r.nested /\ new.pc = "next"
    BY <1>1, <1>2 DEF Readers
  <2> HIDE DEF new
  <2>3. Place(new) = r.block /\ Passed(new) = r.val
    BY <2>2 DEF Place, Passed
  <2>4. \A i : ~ToCome(i, r)
    BY <1>3, <1>4, <1>7
  <2>5. NoneMissed(new) /\ \A i \in DOMAIN new.out : Behind(new.out[i], new)
    BY <1>2, <1>3, <2>2, <2>3, <2>4 DEF OnItsWay, NoneMissed, Behind
  <2>6. r.out = <<>> => NoneFits(new)
    <3> HAVE r.out = <<>>
    <3>1. CASE ~Empty(x)
      <4>1. NoneFits(r)
        BY <1>1, <1>2, <1>5, <3>1 DEF OnItsWay, NoneYet
      <4> QED
        BY <2>2, <4>1 DEF NoneFits, PassedOver
    <3>2. CASE Empty(x)
      <4>1. r.rec = 1 /\ n = 1
        <5>1. r.rec = 1
          BY <1>3, <3>2, RecordMarks
        <5>2. n \in Nat /\ r.rec \in 1 .. n /\ ~(r.rec < n)
          BY <1>3, <1>7
        <5> HIDE DEF n
        <5> QED
          BY <5>1, <5>2
      <4>2. ASSUME NEW i \in r.known
            PROVE  FALSE
        <5>1. PICK k \in 1 .. n : \E j \in Counting(r.records[k]) : Holds(r.records[k], j, i)
          BY DEF Walks
        <5>2. ~Empty(r.records[k])
          BY <1>2, <5>1, ReaderAt
        <5>3. k = 1
          BY <4>1, <5>1
        <5> QED
          BY <3>2, <4>1, <5>2, <5>3
      <4> QED
        BY <2>2, <4>2 DEF NoneFits
    <3> QED
      BY <3>1, <3>2
  <2>7. r.out = <<>> => NoneYet(new)
    BY <2>2, <2>6 DEF NoneYet
  <2>8. ~AtEmpty(new)
    BY <2>2 DEF AtEmpty
  <2>9. OnItsWay(new)
    BY <2>2, <2>5, <2>7, <2>8 DEF OnItsWay
  <2>10. Walks(new)
    BY <2>2, <2>9, SameWalk DEF Walks
  <2> QED
    BY <1>1, <2>1, <2>10, WalksStays
<1> QED
  BY <1>6, <1>7

LEMMA FindWalks ==
    ASSUME IInv, KeptSound, OrderSound, IndexSound, ReaderIInv, Walks(r),
           NEW start \in Start, Find(start)
    PROVE  Walks(r)'
<1> DEFINE n == Len(index)
<1>1. PICK rec : rec = IF start = 0 /\ index # <<>> THEN 1 ELSE SearchRecord(index, start)
  OBVIOUS
<1>2. UNCHANGED vars /\ r \in Readers /\ start \in Nat
  BY StartAssumption DEF Find, ReaderIInv, ReaderTypeOK
<1>3. PICK new :
         /\ r' = new
         /\ new.pc = (IF rec = 0 THEN "end" ELSE "header") /\ new.start = start
         /\ new.goal = (IF start = 0 /\ rec # 0 THEN index[1].s ELSE start)
         /\ new.records = index /\ new.rec = rec /\ new.nested = 0 /\ new.out = <<>>
         /\ new.known = Retrievable /\ new.block = r.block /\ new.head = r.head
  <2>1. r' = [r EXCEPT !.pc = IF rec = 0 THEN "end" ELSE "header",
                       !.start = start,
                       !.goal = IF start = 0 /\ rec # 0 THEN index[1].s ELSE start,
                       !.records = index, !.rec = rec, !.nested = 0,
                       !.out = <<>>, !.known = Retrievable]
    BY <1>1 DEF Find
  <2>2. PICK pc, goal, known : /\ pc = (IF rec = 0 THEN "end" ELSE "header")
                               /\ goal = (IF start = 0 /\ rec # 0 THEN index[1].s ELSE start)
                               /\ known = Retrievable
    OBVIOUS
  <2>3. r' = [r EXCEPT !.pc = pc, !.start = start, !.goal = goal, !.records = index,
                       !.rec = rec, !.nested = 0, !.out = <<>>, !.known = known]
    BY <2>1, <2>2
  <2>4. /\ r'.pc = pc /\ r'.start = start /\ r'.goal = goal /\ r'.records = index
        /\ r'.rec = rec /\ r'.nested = 0 /\ r'.out = <<>> /\ r'.known = known
        /\ r'.block = r.block /\ r'.head = r.head
    BY <1>2, <2>3 DEF Readers
  <2> QED
    BY <2>2, <2>4, Zenon
<1>4. index \in Seq(Record) /\ Tells(index) /\ n \in Nat
  BY DEF IndexSound, OrderSound, IndexTells
<1>5. index # <<>> => rec \in 1 .. n /\ rec \in Nat /\ rec # 0
  <2> HAVE index # <<>>
  <2>1. n # 0
    BY <1>4
  <2>2. 1 \in 1 .. n
    BY <1>4, <2>1
  <2>3. SearchRecord(index, start) \in 1 .. n
    BY <1>2, <1>4, RecordFound
  <2> QED
    BY <1>1, <1>4, <2>2, <2>3
<1>6. index = <<>> => rec = 0 /\ n = 0
  BY <1>1 DEF SearchRecord
<1>7. ASSUME NEW i \in Retrievable
      PROVE  \E k \in 1 .. n : \E j \in Counting(index[k]) : Holds(index[k], j, i)
  <2>0. PICK b \in DOMAIN disk :
           \E j \in 1 .. disk[b].num : \E k \in DOMAIN index :
              /\ i = data[b][j] /\ Head(index[k].blocks) = b
              /\ index[k].s <= Stamp(b, j) /\ Stamp(b, j) <= index[k].e
    BY DEF Retrievable
  <2>1. PICK j \in 1 .. disk[b].num, k \in DOMAIN index :
           /\ i = data[b][j] /\ Head(index[k].blocks) = b
           /\ index[k].s <= Stamp(b, j) /\ Stamp(b, j) <= index[k].e
    BY <2>0
  <2>2. k \in 1 .. n /\ j \in Counting(index[k]) /\ Holds(index[k], j, i)
    BY <1>4, <2>1 DEF Counting, Holds, Of, Stamp
  <2> QED
    BY <2>2
<1>8. \A k \in 1 .. n : index[k].s \in Nat /\ index[k].e \in Nat
  BY <1>4, RecordMarks
<1>9. ASSUME rec # 0, start # 0
      PROVE  /\ rec = 1 \/ index[rec].s <= start
             /\ \A k \in 1 .. n : rec < k => start < index[k].s
  <2>1. index # <<>> /\ rec = SearchRecord(index, start) /\ rec \in 1 .. n /\ 1 \in 1 .. n
    <3>1. index # <<>>
      BY <1>6, <1>9
    <3>2. n # 0
      BY <1>4, <3>1
    <3>3. 1 \in 1 .. n
      BY <1>4, <3>2
    <3> QED
      BY <1>1, <1>5, <1>9, <3>1, <3>3
  <2>2. /\ rec = 1 \/ index[rec].s <= start
        /\ index[1].s <= start => \A k \in 1 .. n : k > rec => index[k].s > start
    BY <1>2, <1>4, <2>1, SearchEnds
  <2>3. ASSUME ~(index[1].s <= start), NEW k \in 1 .. n, rec < k
        PROVE  start < index[k].s
    <3>1. k = 1 \/ 1 < k
      OBVIOUS
    <3>2. 1 < k => index[1].s <= index[k].s
      BY <1>4, <2>1, RecordMarks
    <3>3. index[1].s \in Nat /\ index[k].s \in Nat
      BY <1>8, <2>1
    <3> QED
      BY <1>2, <2>3, <3>1, <3>2, <3>3
  <2>4. ASSUME index[1].s <= start, NEW k \in 1 .. n, rec < k
        PROVE  start < index[k].s
    <3>1. k > rec /\ index[k].s \in Nat
      BY <1>5, <1>8, <2>1, <2>4
    <3> QED
      BY <1>2, <2>2, <2>4, <3>1
  <2> QED
    BY <2>2, <2>3, <2>4
<1>10. OnItsWay(new)
  <2>1. CASE rec = 0
    <3>1. n = 0 /\ new.known = {}
      <4>1. n = 0
        BY <1>5, <1>6, <2>1
      <4> QED
        BY <1>3, <1>4, <1>7, <4>1
    <3>2. ~AtEmpty(new)
      BY <1>3, <2>1 DEF AtEmpty
    <3> QED
      BY <1>3, <2>1, <3>1, <3>2 DEF OnItsWay, NoneYet, NoneFits, NoneMissed
  <2>2. CASE rec # 0
    <3>1. rec \in 1 .. n /\ rec \in Nat /\ index # <<>>
      BY <1>5, <1>6, <2>2
    <3>2. new.pc = "header" /\ new.rec = rec /\ new.records = index
      BY <1>3, <2>2
    <3>3. GoalFits(new)
      <4>1. CASE start = 0
        <5>1. rec = 1
          BY <1>1, <3>1, <4>1
        <5> QED
          BY <1>3, <2>2, <4>1, <5>1 DEF GoalFits
      <4>2. CASE start # 0
        BY <1>3, <1>9, <2>2, <4>2 DEF GoalFits
      <4> QED
        BY <4>1, <4>2
    <3>4. AtEmpty(new) => new.start < new.records[2].s
      <4> HAVE AtEmpty(new)
      <4>1. rec = 1 /\ 1 < n
        BY <3>2 DEF AtEmpty
      <4>2. 2 \in 1 .. n /\ rec < 2
        BY <1>4, <4>1
      <4>3. index[2].s > 0
        BY <1>4, <3>1, <4>1, <4>2, RecordMarks
      <4> QED
        BY <1>3, <1>9, <2>2, <4>2, <4>3
    <3>5. NoneYet(new)
      BY <2>2, <3>2 DEF NoneYet
    <3>6. Place(new) = Of(index[rec]) /\ Passed(new) = 0 /\ Of(index[rec]) \in Nat
      BY <1>4, <3>1, <3>2, RecordMarks DEF Place, Passed
    <3>7. ASSUME NEW i \in new.known
          PROVE  ToCome(i, new) \/ Behind(i, new)
      <4>1. PICK k \in 1 .. n : \E j \in Counting(index[k]) : Holds(index[k], j, i)
        BY <1>3, <1>7
      <4>2. PICK j \in Counting(index[k]) : Holds(index[k], j, i)
        BY <4>1
      <4>3. rec < k \/ rec = k \/ k < rec
        BY <3>1
      <4>4. CASE rec < k \/ rec = k
        BY <2>2, <3>2, <4>2, <4>4 DEF ToCome
      <4>5. CASE k < rec
        <5>1. i = data[Of(index[k])][j] /\ log[i].stamp <= index[k].e /\ index[k].e \in Nat
              /\ index[k].s <= log[i].stamp
          BY <1>8, <4>2 DEF Holds
        <5>2. Of(index[k]) \in DOMAIN data /\ j \in DOMAIN data[Of(index[k])] /\ j \in Nat
          <6>1. PICK b \in DOMAIN data : b = Of(index[k])
            BY <1>4, RecordMarks
          <6>2. b \in DOMAIN blocks /\ disk[b] \in Versions(b) /\ disk[b].num \in Nat
            BY <6>1, LineTypes, DiskTypes DEF Versions, IInv
          <6>3. disk[b].num <= Len(data[b])
            BY <6>2 DEF IInv, VersionsSound, Describes
          <6>4. j \in 1 .. disk[b].num
            BY <6>1 DEF Counting
          <6> QED
            BY <6>1, <6>2, <6>3, <6>4, LineOrder
        <5>3. log[i].stamp > 0
          BY <5>1, <5>2, LineOrder
        <5>4. ~Empty(index[k])
          <6>1. log[i].stamp \in Nat
            BY <5>1, <5>2, LineOrder
          <6> QED
            BY <5>1, <5>3, <6>1 DEF Empty
        <5>5. Of(index[k]) < Of(index[rec])
          BY <1>4, <3>1, <4>5, <5>4, RecordMarks
        <5>6. Before(data[Of(index[k])][j], Of(index[rec]), 0)
          BY <3>6, <5>2, <5>5, PassedBefore
        <5> QED
          BY <3>6, <5>1, <5>6 DEF Behind
      <4> QED
        BY <4>3, <4>4, <4>5
    <3>8. NoneMissed(new)
      BY <1>3, <3>7 DEF NoneMissed
    <3> QED
      BY <1>3, <2>2, <3>2, <3>3, <3>4, <3>5, <3>8 DEF OnItsWay
  <2> QED
    BY <2>1, <2>2
<1>11. Walks(new)
  BY <1>3, <1>4, <1>7, <1>10 DEF Walks
<1> QED
  BY <1>2, <1>3, <1>11, WalksStays

LEMMA InitWalks == ReadInit => Walks(r)
<1> SUFFICES ASSUME ReadInit PROVE Walks(r)
  OBVIOUS
<1>1. /\ r.pc = "idle" /\ r.records = <<>> /\ r.block = 0 /\ r.known = {} /\ r.out = <<>>
  BY DEF ReadInit
<1> QED
  BY <1>1 DEF Walks, Tells

\* What the writer does meanwhile leaves all of this true: it adds samples behind
\* those that are there.
LEMMA WriterWalks ==
    ASSUME IInv, KeptSound, OrderSound, TypeOK', LineGrows, Grown,
           NEW rd, rd \in Readers, ReaderHolds(rd), Walks(rd)
    PROVE  Walks(rd)'
<1> DEFINE n == Len(rd.records)
<1>1. /\ rd.records \in Seq(Record) /\ n \in Nat /\ Tells(rd.records)
      /\ rd.rec \in 0 .. n /\ rd.val \in Nat /\ rd.head.num \in Nat
      /\ \A k \in 1 .. n : Of(rd.records[k]) \in DOMAIN data
      /\ rd.block # 0 => /\ rd.block \in DOMAIN data
                         /\ \A j \in 1 .. rd.head.num : j \in DOMAIN data[rd.block]
  <2>1. /\ rd.records \in Seq(Record) /\ Tells(rd.records)
        /\ rd.rec \in 0 .. n /\ rd.val \in Nat /\ rd.head.num \in Nat
        /\ rd.block # 0 => /\ rd.block \in DOMAIN data
                           /\ \A j \in 1 .. rd.head.num : j \in DOMAIN data[rd.block]
    BY ReaderAt
  <2>2. n \in Nat /\ \A k \in 1 .. n : Of(rd.records[k]) \in DOMAIN data
    BY <2>1, RecordMarks
  <2> QED
    BY <2>1, <2>2
<1>2. /\ \A i \in DOMAIN log : i \in DOMAIN log' /\ log'[i] = log[i] /\ i <= Len(log) /\ i \in Nat
      /\ Len(log) \in Nat
      /\ \A b \in DOMAIN data : \A j \in DOMAIN data[b] :
            /\ data[b][j] \in DOMAIN log
            /\ b \in DOMAIN data' /\ j \in DOMAIN data'[b] /\ data'[b][j] = data[b][j]
            /\ Stamp(b, j)' = Stamp(b, j)
      /\ \A b \in DOMAIN data' : \A j \in DOMAIN data'[b] :
            (b \in DOMAIN data /\ j \in DOMAIN data[b]) \/ data'[b][j] > Len(log)
  <2>1. /\ DOMAIN log = 1 .. Len(log) /\ Len(log) \in Nat
        /\ \A b \in DOMAIN data : \A j \in DOMAIN data[b] : data[b][j] \in DOMAIN log
    BY LineTypes
  <2>2. \A b \in DOMAIN data : \A j \in DOMAIN data[b] : Stamp(b, j)' = Stamp(b, j)
    BY <2>1 DEF LineGrows, Grown, Stamp
  <2> QED
    BY <2>1, <2>2 DEF LineGrows, Grown
<1>3. /\ \A k \in 1 .. n : \A j \in Counting(rd.records[k]) :
            j \in Counting(rd.records[k])' /\ j \in DOMAIN data[Of(rd.records[k])]
      /\ \A k \in 1 .. n : \A j \in Counting(rd.records[k]) : \A i :
            Holds(rd.records[k], j, i) => Holds(rd.records[k], j, i)'
      /\ rd.known \subseteq DOMAIN log
  <2>1. ASSUME NEW k \in 1 .. n, NEW j \in Counting(rd.records[k])
        PROVE  j \in Counting(rd.records[k])' /\ j \in DOMAIN data[Of(rd.records[k])]
    <3>1. PICK b \in DOMAIN data : b = Of(rd.records[k])
      BY <1>1
    <3>2. b \in DOMAIN blocks /\ disk[b].num \in Nat /\ b \in DOMAIN blocks'
      BY <3>1, LineTypes, DiskTypes DEF IInv, Grown
    <3>3. disk'[b].num \in Nat
      <4>1. b \in DOMAIN disk' /\ disk' \in Seq(Header)
        BY <3>2 DEF TypeOK
      <4>2. disk'[b] \in Header
        BY <4>1
      <4> QED
        BY <4>2 DEF Header
    <3>4. disk[b].num <= disk'[b].num
      BY <3>2 DEF Grown
    <3>5. j \in 1 .. disk[b].num
      BY <3>1 DEF Counting
    <3>6. j \in 1 .. disk'[b].num
      BY <3>2, <3>3, <3>4, <3>5
    <3>7. j \in DOMAIN data[Of(rd.records[k])]
      BY ReaderAt
    <3> QED
      BY <3>1, <3>6, <3>7 DEF Counting, Of
  <2>2. ASSUME NEW k \in 1 .. n, NEW j \in Counting(rd.records[k]), NEW i,
               Holds(rd.records[k], j, i)
        PROVE  Holds(rd.records[k], j, i)'
    <3>1. PICK b \in DOMAIN data : b = Of(rd.records[k])
      BY <1>1
    <3>2. j \in DOMAIN data[b]
      BY <2>1, <3>1
    <3>3. data[b][j] = i /\ i \in DOMAIN log
      BY <1>2, <2>2, <3>1, <3>2 DEF Holds
    <3>4. data'[b][j] = i /\ log'[i] = log[i]
      BY <1>2, <3>2, <3>3
    <3> QED
      BY <2>2, <3>1, <3>4 DEF Holds, Of
  <2>3. rd.known \subseteq DOMAIN log
    BY ReaderAt
  <2> QED
    BY <2>1, <2>2, <2>3
<1>4. Tells(rd.records)'
  <2>1. Current <= Len(blocks)
    <3>1. Len(blocks) \in Nat /\ Current \in Nat
      BY LineTypes
    <3>2. Len(blocks) = Current \/ Len(blocks) = Current + 1
      BY <3>1 DEF OrderSound, Filled
    <3> QED
      BY <3>1, <3>2
  <2>2. PICK idx : idx = rd.records
    OBVIOUS
  <2>3. Tells(idx)'
    BY <1>1, <1>2, <2>1, <2>2, TellsKept
  <2> QED
    BY <2>2, <2>3
<1>5. ASSUME NEW i \in DOMAIN log, Behind(i, rd)
      PROVE  Behind(i, rd)'
  <2>1. PICK b, v : b = Place(rd) /\ v = Passed(rd)
    OBVIOUS
  <2>2. Before(i, b, v)
    BY <1>5, <2>1 DEF Behind
  <2>3. ASSUME NEW c \in DOMAIN data', NEW j \in DOMAIN data'[c], b < c \/ (b = c /\ v < j)
        PROVE  i < data'[c][j]
    <3>1. CASE c \in DOMAIN data /\ j \in DOMAIN data[c]
      BY <1>2, <2>2, <2>3, <3>1 DEF Before
    <3>2. CASE data'[c][j] > Len(log)
      <4>1. data'[c][j] \in Nat
        <5>1. data' \in Seq(Seq(Nat))
          BY DEF TypeOK
        <5>2. data'[c] \in Seq(Nat)
          BY <5>1
        <5> QED
          BY <5>2
      <4> QED
        BY <1>2, <3>2, <4>1
    <3> QED
      BY <1>2, <3>1, <3>2
  <2>4. Before(i, b, v)'
    BY <2>3 DEF Before
  <2>5. Place(rd)' = b /\ Passed(rd)' = v
    BY <2>1 DEF Place, Passed, Of
  <2> QED
    BY <2>4, <2>5 DEF Behind
<1>6. \A i : ToCome(i, rd) => ToCome(i, rd)'
  <2> SUFFICES ASSUME NEW i, ToCome(i, rd) PROVE ToCome(i, rd)'
    OBVIOUS
  <2>1. PICK k \in 1 .. n : \E j \in Counting(rd.records[k]) :
           /\ Holds(rd.records[k], j, i)
           /\ \/ rd.rec < k
              \/ rd.rec = k /\ rd.pc = "header"
              \/ rd.rec = k /\ Passed(rd) < j /\ j <= rd.head.num
    BY DEF ToCome
  <2>2. PICK j \in Counting(rd.records[k]) :
           /\ Holds(rd.records[k], j, i)
           /\ \/ rd.rec < k
              \/ rd.rec = k /\ rd.pc = "header"
              \/ rd.rec = k /\ Passed(rd) < j /\ j <= rd.head.num
    BY <2>1
  <2>3. j \in Counting(rd.records[k])' /\ Holds(rd.records[k], j, i)'
    BY <1>3, <2>2
  <2>4. Passed(rd)' = Passed(rd) /\ rd.rec # 0
    BY DEF Passed, ToCome
  <2> QED
    BY <2>2, <2>3, <2>4 DEF ToCome
<1>7. PassedOver(rd) => PassedOver(rd)'
  BY <1>2 DEF PassedOver
<1>8. NoneFits(rd) => NoneFits(rd)'
  BY <1>7 DEF NoneFits
<1>9. ASSUME NEW f \in DOMAIN log, GoodFirst(f, rd)
      PROVE  GoodFirst(f, rd)'
  <2>1. /\ log'[f] = log[f] /\ \A i \in rd.known : log'[i] = log[i]
    BY <1>2, <1>3
  <2> QED
    BY <1>7, <1>9, <2>1 DEF GoodFirst
<1>10. rd.out # <<>> => rd.out[1] \in DOMAIN log
  <2> HAVE rd.out # <<>>
  <2>1. rd.out \in Seq(Nat)
    BY DEF Readers
  <2>2. 1 \in DOMAIN rd.out
    BY <2>1
  <2> QED
    BY <2>2 DEF ReaderHolds
<1>11. GoalFits(rd)' <=> GoalFits(rd)
  BY DEF GoalFits, Empty
<1>12. AtEmpty(rd)' <=> AtEmpty(rd)
  BY DEF AtEmpty, Empty
<1>13. ASSUME OnItsWay(rd)
       PROVE  OnItsWay(rd)'
  <2>1. NoneMissed(rd)'
    <3> SUFFICES ASSUME NEW i \in rd.known
                 PROVE  \/ ToCome(i, rd)'
                        \/ /\ Behind(i, rd)'
                           /\ rd.out # <<>> /\ i > rd.out[1] => i \in ToSet(rd.out)
      BY DEF NoneMissed
    <3> QED
      BY <1>3, <1>5, <1>6, <1>13 DEF OnItsWay, NoneMissed
  <2>2. \A i \in DOMAIN rd.out : Behind(rd.out[i], rd)'
    BY <1>5, <1>13 DEF OnItsWay, ReaderHolds
  <2>3. rd.out = <<>> => NoneYet(rd)'
    <3> HAVE rd.out = <<>>
    <3>1. NoneYet(rd)
      BY <1>13 DEF OnItsWay
    <3>2. rd.rec = 0 => NoneFits(rd)'
      BY <1>8, <3>1 DEF NoneYet
    <3>3. ASSUME rd.rec # 0, rd.pc = "next", ~Empty(rd.records[rd.rec])
          PROVE  IF rd.val < rd.head.num /\ Stamp(rd.block, rd.val + 1)' <= rd.records[rd.rec].e
                 THEN \E f : f = data'[rd.block][rd.val + 1] /\ GoodFirst(f, rd)'
                 ELSE rd.rec = Len(rd.records) /\ NoneFits(rd)'
      <4>1. IF rd.val < rd.head.num /\ Stamp(rd.block, rd.val + 1) <= rd.records[rd.rec].e
            THEN GoodFirst(data[rd.block][rd.val + 1], rd)
            ELSE rd.rec = Len(rd.records) /\ NoneFits(rd)
        BY <3>1, <3>3 DEF NoneYet
      <4>2. CASE rd.val < rd.head.num
        <5>1. PICK b, p : b = rd.block /\ p = rd.val + 1
          OBVIOUS
        <5>2. p \in 1 .. rd.head.num
          BY <1>1, <4>2, <5>1
        <5>3. b \in DOMAIN data
          <6>1. rd.block = Of(rd.records[rd.rec]) /\ rd.rec \in 1 .. n
            BY <1>1, <1>13, <3>3 DEF OnItsWay
          <6> QED
            BY <1>1, <5>1, <6>1
        <5>4. p \in DOMAIN data[b]
          <6>1. rd.block # 0
            BY <5>1, <5>3, LineOrder, LineTypes
          <6> QED
            BY <1>1, <5>1, <5>2, <6>1
        <5>5. /\ Stamp(b, p)' = Stamp(b, p) /\ data'[b][p] = data[b][p]
              /\ data[b][p] \in DOMAIN log
          BY <1>2, <5>3, <5>4
        <5>6. PICK f \in DOMAIN log : f = data[b][p]
          BY <5>5
        <5>7. GoodFirst(f, rd) => GoodFirst(f, rd)'
          BY <1>9
        <5>8. IF Stamp(b, p) <= rd.records[rd.rec].e
              THEN GoodFirst(f, rd)
              ELSE rd.rec = Len(rd.records) /\ NoneFits(rd)
          BY <4>1, <4>2, <5>1, <5>6
        <5>9. IF Stamp(b, p)' <= rd.records[rd.rec].e
              THEN f = data'[b][p] /\ GoodFirst(f, rd)'
              ELSE rd.rec = Len(rd.records) /\ NoneFits(rd)'
          BY <1>8, <5>5, <5>6, <5>7, <5>8
        <5> QED
          BY <4>2, <5>1, <5>9, Zenon
      <4>3. CASE ~(rd.val < rd.head.num)
        BY <1>8, <4>1, <4>3
      <4> QED
        BY <4>2, <4>3
    <3>4. ASSUME rd.rec # 0, rd.pc = "next", ~Empty(rd.records[rd.rec])
          PROVE  (IF rd.val < rd.head.num /\ Stamp(rd.block, rd.val + 1) <= rd.records[rd.rec].e
                  THEN GoodFirst(data[rd.block][rd.val + 1], rd)
                  ELSE rd.rec = Len(rd.records) /\ NoneFits(rd))'
      BY <3>3, <3>4
    <3>5. Empty(rd.records[rd.rec])' <=> Empty(rd.records[rd.rec])
      BY DEF Empty
    <3> QED
      BY <3>2, <3>4, <3>5 DEF NoneYet
  <2>4. rd.rec # 0 /\ rd.pc # "header" => rd.block = Of(rd.records[rd.rec])'
    BY <1>13 DEF OnItsWay, Of
  <2> QED
    BY <1>11, <1>12, <1>13, <2>1, <2>2, <2>3, <2>4 DEF OnItsWay
<1>14. rd.block # 0 => IF rd.head.num = 0 THEN rd.head.begin_time = 0
                       ELSE rd.head.begin_time = Stamp(rd.block, 1)'
  <2> HAVE rd.block # 0
  <2>1. CASE rd.head.num = 0
    BY <2>1 DEF Walks
  <2>2. CASE rd.head.num # 0
    <3>1. PICK b : b = rd.block
      OBVIOUS
    <3>2. b \in DOMAIN data /\ 1 \in DOMAIN data[b]
      <4>1. 1 \in 1 .. rd.head.num
        BY <1>1, <2>2
      <4> QED
        BY <1>1, <3>1, <4>1
    <3>3. Stamp(b, 1)' = Stamp(b, 1)
      BY <1>2, <3>2
    <3> QED
      BY <2>2, <3>1, <3>3 DEF Walks
  <2> QED
    BY <2>1, <2>2
<1>15. \A i \in rd.known : \E k \in 1 .. n : \E j \in Counting(rd.records[k])' :
          Holds(rd.records[k], j, i)'
  <2> SUFFICES ASSUME NEW i \in rd.known
               PROVE  \E k \in 1 .. n : \E j \in Counting(rd.records[k])' :
                         Holds(rd.records[k], j, i)'
    OBVIOUS
  <2>1. PICK k \in 1 .. n : \E j \in Counting(rd.records[k]) : Holds(rd.records[k], j, i)
    BY DEF Walks
  <2>2. PICK j \in Counting(rd.records[k]) : Holds(rd.records[k], j, i)
    BY <2>1
  <2> QED
    BY <1>3, <2>2
<1>16. rd.out # <<>> => GoodFirst(rd.out[1], rd)'
  <2> HAVE rd.out # <<>>
  <2>1. PICK f \in DOMAIN log : f = rd.out[1]
    BY <1>10
  <2>2. GoodFirst(f, rd)'
    BY <1>9, <2>1 DEF Walks
  <2> QED
    BY <2>1, <2>2
<1>17. /\ \A i, j \in DOMAIN rd.out : i < j => rd.out[i] < rd.out[j]
       /\ rd.pc \notin {"idle", "failed"} => OnItsWay(rd)'
  BY <1>13 DEF Walks
<1> QED
  BY <1>4, <1>14, <1>15, <1>16, <1>17 DEF Walks

\* Each step of the reader or the writer leads the reader on its way.
LEMMA NextWalks ==
    ASSUME BothSound, IndexSound, OneKind, OrderSound, Walks(r), [ReadNext]_readVars
    PROVE  OrderSound' /\ Walks(r)'
<1>1. IInv /\ KeptSound /\ InfosAgree /\ ReaderIInv
  BY DEF BothSound
<1>2. [Next]_vars
  BY DEF ReadNext, readVars, CallNext, ReaderStep, Find, GetHeader, FollowLink, FindFirst,
         FindBySearch, FindInEmpty, NextInBuffer, NextRecord, Refresh
<1>3. OrderSound' /\ LineGrows
  BY <1>1, <1>2, NextOrder
<1>4. ASSUME r' = r
      PROVE  Walks(r)'
  <2>1. PICK rd : rd = r
    OBVIOUS
  <2>2. rd \in Readers /\ ReaderHolds(rd) /\ Walks(rd)
    BY <1>1, <2>1 DEF ReaderIInv, ReaderTypeOK
  <2>3. TypeOK' /\ Grown
    BY <1>1, <1>2, NextIInv, WriterGrows DEF IInv
  <2>4. Walks(rd)'
    BY <1>1, <1>3, <2>2, <2>3, WriterWalks
  <2> QED
    BY <1>4, <2>1, <2>4
<1>5. ASSUME NEW start \in Start, Find(start)
      PROVE  Walks(r)'
  BY <1>1, <1>5, FindWalks
<1>6. CallNext => Walks(r)'
  BY <1>1, CallWalks
<1>7. ReaderStep => Walks(r)'
  <2>1. GetHeader => Walks(r)'
    BY <1>1, GetHeaderWalks
  <2>2. FollowLink => Walks(r)'
    BY <1>1, FollowWalks
  <2>3. FindFirst => Walks(r)'
    BY <1>1, FirstWalks
  <2>4. FindBySearch => Walks(r)'
    BY <1>1, SearchWalks
  <2>5. FindInEmpty => Walks(r)'
    BY <1>1, EmptyWalks
  <2>6. NextInBuffer => Walks(r)'
    BY <1>1, InBufferWalks
  <2>7. NextRecord => Walks(r)'
    BY <1>1, RecordWalks
  <2>8. Refresh => Walks(r)'
    BY <1>1, RefreshWalks
  <2> QED
    BY <2>1, <2>2, <2>3, <2>4, <2>5, <2>6, <2>7, <2>8, Zenon DEF ReaderStep
<1>8. r' = r \/ (\E start \in Start : Find(start)) \/ CallNext \/ ReaderStep
  BY DEF ReadNext, readVars
<1> QED
  BY <1>3, <1>4, <1>5, <1>6, <1>7, <1>8

\* As long as no write fails and the channel keeps its control info and value type,
\* the reader is on its way through samples that lie in their order, wherever the
\* writer is in the other process.
LEMMA WalksSoundly == ReadSpec => [](OneKind => Walks(r))
<1> DEFINE Sound == BothSound /\ IndexSound /\ (OneKind => OrderSound /\ Walks(r))
<1>1. ReadInit => Sound
  BY InitIInv, InitKept, InitInfos, InitReader, InitIndex, InitOrder, InitWalks
     DEF ReadInit, BothSound
<1>2. Sound /\ [ReadNext]_readVars => Sound'
  <2> SUFFICES ASSUME Sound, [ReadNext]_readVars PROVE Sound'
    OBVIOUS
  <2>1. [Next]_vars
    BY DEF ReadNext, readVars, CallNext, ReaderStep, Find, GetHeader, FollowLink, FindFirst,
           FindBySearch, FindInEmpty, NextInBuffer, NextRecord, Refresh
  <2>2. BothSound'
    BY NextBoth
  <2>3. IndexSound'
    BY <2>1, NextIndex DEF BothSound
  <2>4. OneKind' => OneKind
    BY DEF OneKind
  <2>5. OneKind => OrderSound' /\ Walks(r)'
    BY NextWalks
  <2> QED
    BY <2>2, <2>3, <2>4, <2>5
<1>3. Sound => (OneKind => Walks(r))
  OBVIOUS
<1> HIDE DEF Sound
<1> QED
  BY <1>1, <1>2, <1>3, PTL DEF ReadSpec

\* A reader gets the samples in the order in which they were added and none of them
\* twice, whatever a writer does in another process meanwhile, as long as no write
\* fails and the channel keeps its control info and value type.
THEOREM NeverRepeats == ReadSpec => [](OneKind => NoRepetition)
<1>1. (OneKind => Walks(r)) => (OneKind => NoRepetition)
  BY DEF Walks, NoRepetition
<1> QED
  BY <1>1, WalksSoundly, PTL

\* Under the same conditions find() begins with the last sample up to the start time
\* of those that were on disk in the range of an index record when it was called, or
\* with the first of them; it begins with another one only if a sample from after
\* the end of the index is not after the start time.
THEOREM FirstAlwaysFits == ReadSpec => [](OneKind => FirstFits)
<1>1. (OneKind => Walks(r)) => (OneKind => FirstFits)
  <2> SUFFICES ASSUME Walks(r), r.out # <<>>
               PROVE  \A i \in r.known :
                         LET first == log[r.out[1]].stamp
                         IN  /\ log[i].stamp <= r.start => log[i].stamp <= first
                             /\ first > r.start => log[i].stamp >= first \/ PassedOver(r)
    BY DEF FirstFits
  <2> QED
    BY DEF Walks, GoodFirst
<1> QED
  BY <1>1, WalksSoundly, PTL

\* Under the same conditions, when the reader comes to the end of the data it has
\* seen all the samples that find() could know of from the first one on, through all
\* the steps from buffer to buffer and from record to record.
THEOREM NoneLeftOut == ReadSpec => [](OneKind => Complete)
<1>1. (OneKind => Walks(r)) => (OneKind => Complete)
  <2> SUFFICES ASSUME Walks(r), r.pc = "end", NEW i \in r.known
               PROVE  IF r.out = <<>> THEN PassedOver(r)
                      ELSE i > r.out[1] => i \in ToSet(r.out)
    BY DEF Complete
  <2>1. OnItsWay(r) /\ r.rec = 0
    BY DEF Walks, OnItsWay
  <2>2. r.out = <<>> => PassedOver(r)
    BY <2>1 DEF OnItsWay, NoneYet, NoneFits
  <2>3. r.out # <<>> => (i > r.out[1] => i \in ToSet(r.out))
    BY <2>1 DEF OnItsWay, NoneMissed, ToCome
  <2> QED
    BY <2>2, <2>3
<1> QED
  BY <1>1, WalksSoundly, PTL

=============================================================================
