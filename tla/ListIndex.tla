----------------------------- MODULE ListIndex ------------------------------
(***************************************************************************)
(* A list of sub-archives that acts as one index, beside the engine that   *)
(* goes on adding channels to one of them.  Each sub-archive is opened     *)
(* when it is first needed, dropped for good if that fails, and kept open. *)
(* AutoIndex, through which the list and its parts are opened, only        *)
(* forwards to the index that the file turns out to be.                    *)
(***************************************************************************)
EXTENDS IndexFile, SequencesExt

CONSTANTS
    Config,        \* the sub-archives in the order of the configuration
    Live,          \* the one that the engine writes
    Contents       \* Contents[s]: the channels of each other one that exists

\* The empty name stands for none of the sub-archives.
ASSUME ConfigAssumption ==
    /\ Config \in Seq(STRING) /\ \A i \in DOMAIN Config : Config[i] # EmptyName
    /\ \A s \in DOMAIN Contents :
          s # Live /\ s \in ToSet(Config) /\ Contents[s] \subseteq Name

VARIABLES
    subs,          \* sub_archs: the sub-archives that were not dropped
    opened,        \* those that are open
    attached,      \* the table was there when the live one was opened
    names,         \* the list of names, sorted and each once; {} if not collected
    c,             \* where the client is in findChannel or iterator
    basis          \* history: the channels of the live one that names goes back to

listVars == <<subs, opened, attached, names, c, basis>>
vars == <<indexVars, listVars>>

Waits == [pc |-> "idle", name |-> EmptyName, i |-> 1, offset |-> 0,
          at |-> AtEnd, known |-> {}, had |-> {}, sub |-> EmptyName]
KnownNames == {entries[i].name : i \in Reached}
\* The channels of the sub-archives that do not change.
Others == UNION {Contents[s] : s \in DOMAIN Contents}
ChannelsOf(s, live) == IF s = Live THEN live ELSE Contents[s]

Init ==
    /\ IndexInit
    /\ subs = Config
    /\ opened = {}
    /\ attached = FALSE
    /\ names = {}
    /\ c = Waits
    /\ basis = {}

\* findChannel and iterator begin; a list that was collected is used again.
CallFind(n) ==
    /\ c.pc = "idle"
    /\ c' = [Waits EXCEPT !.pc = "find", !.name = n, !.had = KnownNames]
    /\ UNCHANGED <<indexVars, subs, opened, attached, names, basis>>
CallIterator ==
    /\ c.pc = "idle" /\ names = {}
    /\ c' = [Waits EXCEPT !.pc = "collect", !.had = KnownNames]
    /\ UNCHANGED <<indexVars, subs, opened, attached, names, basis>>

\* SubArchInfo::openIndex.
Searching == c.pc \in {"find", "collect"} /\ c.i <= Len(subs)
Sub == subs[c.i]
Open ==
    /\ Searching /\ Sub \notin opened
    /\ IF Sub = Live THEN CanOpen ELSE Sub \in DOMAIN Contents
    /\ opened' = opened \cup {Sub}
    /\ attached' = IF Sub = Live THEN made = "table" ELSE attached
    /\ UNCHANGED <<indexVars, subs, names, c, basis>>
Drop ==
    /\ Searching /\ Sub \notin opened
    /\ IF Sub = Live THEN ~CanOpen ELSE Sub \notin DOMAIN Contents
    /\ subs' = RemoveAt(subs, c.i)
    /\ UNCHANGED <<indexVars, opened, attached, names, c, basis>>

Found(s) == c' = [c EXCEPT !.pc = "found", !.sub = s]
NextSub == c' = [c EXCEPT !.pc = IF @ = "walk" THEN "find" ELSE @, !.i = @ + 1]

\* A mutant of FindInOther: what comes after the last sub-archive is not found.
FindInAny ==
    /\ c.pc = "find" /\ Searching /\ Sub \in opened \ {Live}
    /\ IF c.i < Len(subs) THEN NextSub ELSE Found(Sub)
    /\ UNCHANGED <<indexVars, subs, opened, attached, names, basis>>

\* findChannel in a sub-archive that does not change.
FindInOther ==
    /\ c.pc = "find" /\ Searching /\ Sub \in opened \ {Live}
    /\ IF c.name \in Contents[Sub] THEN Found(Sub) ELSE NextSub
    /\ UNCHANGED <<indexVars, subs, opened, attached, names, basis>>

\* NameHash::find, entry by entry, beside the engine; without a table the
\* remainder by its size 0 ends the program.
FindInLive ==
    /\ c.pc = "find" /\ Searching /\ Sub = Live /\ Live \in opened
    /\ c' = IF attached THEN [c EXCEPT !.pc = "walk", !.offset = table[Hash[c.name]]]
            ELSE [c EXCEPT !.pc = "died"]
    /\ UNCHANGED <<indexVars, subs, opened, attached, names, basis>>
Walk ==
    /\ c.pc = "walk"
    /\ IF c.offset = 0 THEN NextSub
       ELSE IF entries[c.offset].name = c.name THEN Found(Live)
       ELSE c' = [c EXCEPT !.offset = entries[c.offset].next]
    /\ UNCHANGED <<indexVars, subs, opened, attached, names, basis>>
NotFound ==
    /\ c.pc = "find" /\ c.i > Len(subs)
    /\ Found(EmptyName)
    /\ UNCHANGED <<indexVars, subs, opened, attached, names, basis>>

\* ListIndex::collectNames: a name is taken from each iterator before it is asked
\* if it is valid; one that is not has an empty name.
NamesOfOther ==
    /\ c.pc = "collect" /\ Searching /\ Sub \in opened \ {Live}
    /\ c' = [c EXCEPT !.i = @ + 1,
                      !.known = @ \cup (IF Contents[Sub] = {} THEN {EmptyName}
                                        ELSE Contents[Sub])]
    /\ UNCHANGED <<indexVars, subs, opened, attached, names, basis>>
FirstNameOfLive ==
    /\ c.pc = "collect" /\ Searching /\ Sub = Live /\ Live \in opened
    /\ c' = [c EXCEPT !.pc = "names", !.at = IF attached THEN FromSlot(0) ELSE AtEnd]
    /\ UNCHANGED <<indexVars, subs, opened, attached, names, basis>>
NextNameOfLive ==
    /\ c.pc = "names"
    /\ LET at == IF c.at = AtEnd THEN AtEnd ELSE NextName(c.at)
       IN  c' = [c EXCEPT !.known = @ \cup {c.at.entry.name}, !.at = at,
                          !.pc = IF at = AtEnd THEN "collect" ELSE "names",
                          !.i = IF at = AtEnd THEN @ + 1 ELSE @]
    /\ UNCHANGED <<indexVars, subs, opened, attached, names, basis>>
Collected ==
    /\ c.pc = "collect" /\ c.i > Len(subs)
    /\ names' = c.known
    /\ basis' = IF Live \in opened /\ attached THEN c.had ELSE {}
    /\ c' = Waits
    /\ UNCHANGED <<indexVars, subs, opened, attached>>

Answer ==
    /\ c.pc = "found"
    /\ c' = Waits
    /\ UNCHANGED <<indexVars, subs, opened, attached, names, basis>>

\* close() and open(): the sub-archives are forgotten, the names are not.
Reopen ==
    /\ c.pc = "idle" /\ (opened # {} \/ subs # Config)
    /\ subs' = Config
    /\ opened' = {}
    /\ attached' = FALSE
    /\ UNCHANGED <<indexVars, names, c, basis>>

ListNext ==
    \/ \E n \in Name : CallFind(n)
    \/ CallIterator
    \/ Open \/ Drop
    \/ FindInOther \/ FindInLive \/ Walk \/ NotFound
    \/ NamesOfOther \/ FirstNameOfLive \/ NextNameOfLive \/ Collected
    \/ Answer
    \/ Reopen

Next == (EngineNext /\ UNCHANGED listVars) \/ ListNext
Spec == Init /\ [][Next]_vars

-----------------------------------------------------------------------------
\* findChannel answers with the first sub-archive of the list that has the channel,
\* whichever are open, and while one of them grows: none before it had the channel
\* when the call began, and it does have it.
FirstMatch ==
    c.pc = "found" =>
        LET before == IF c.sub = EmptyName THEN Len(subs) ELSE SelectInSeq(subs, LAMBDA s : s = c.sub) - 1
        IN  /\ c.sub # EmptyName => c.name \in ChannelsOf(c.sub, KnownNames)
            /\ \A i \in 1 .. before :
                   subs[i] \in opened => c.name \notin ChannelsOf(subs[i], c.had)

\* The list of names has every channel that a sub-archive had when its collection
\* began, although the engine adds entries to the table while it is read, and no
\* channel that is in none of them.
NamesComplete ==
    names # {} =>
        /\ Others \subseteq names
        /\ basis \subseteq names
        /\ names \subseteq Others \cup KnownNames \cup {EmptyName}

\* "Current channel name": each name on the list is one of a channel.
NamesExist == EmptyName \notin names

-----------------------------------------------------------------------------
(* The inductive invariant of the list and its client, beside IndexInv.     *)

\* What exists is never dropped, and only what exists is open.
SubsSound ==
    /\ subs \in Seq(STRING) /\ \A i \in DOMAIN subs : subs[i] # EmptyName
    /\ DOMAIN Contents \subseteq ToSet(subs)
    /\ opened \subseteq ToSet(subs) /\ opened \subseteq DOMAIN Contents \cup {Live}
    /\ attached \in BOOLEAN /\ (attached => Live \in opened /\ made = "table")

ClientType ==
    /\ c \in [pc : {"idle", "find", "walk", "found", "died", "collect", "names"},
              name : Name \cup {EmptyName}, i : Nat \ {0}, offset : Nat, at : {c.at},
              known : SUBSET (Name \cup {EmptyName}), had : SUBSET KnownNames, sub : {c.sub}]
    /\ c.pc \in {"find", "walk", "found", "died"} => c.name \in Name

\* The sub-archives that a search is past do not have the channel.
PassedBy(i) ==
    \A k \in DOMAIN subs : k < i =>
        subs[k] \in opened /\ c.name \notin ChannelsOf(subs[k], c.had)

\* On its walk it meets the channel, if that was there when the search began.
WalkSound ==
    /\ c.i \in DOMAIN subs /\ subs[c.i] = Live /\ attached
    /\ c.offset # 0 => c.offset \in ListOf(Hash[c.name])
    /\ \A j \in Reached : entries[j].name = c.name /\ c.name \in c.had =>
          c.offset # 0 /\ c.offset <= j

FoundSound ==
    /\ PassedBy(IF c.sub = EmptyName THEN Len(subs) + 1 ELSE c.i)
    /\ c.sub # EmptyName =>
         /\ c.i \in DOMAIN subs /\ subs[c.i] = c.sub /\ c.sub \in opened
         /\ c.name \in ChannelsOf(c.sub, KnownNames)

\* The iterator is at an entry as it was once; those behind it are still to come.
AtSound(at) ==
    \/ at = AtEnd
    \/ /\ at.slot \in 0 .. HashSize - 1
       /\ \E i \in ListOf(at.slot) :
             at.entry.name = entries[i].name /\ at.entry.next \in {0, entries[i].next}

ToCome(at, j) ==
    \/ SlotOf(entries, j) > at.slot
    \/ /\ SlotOf(entries, j) = at.slot
       /\ \/ entries[j].name = at.entry.name
          \/ at.entry.next # 0 /\ at.entry.next <= j

\* What was collected so far, of the sub-archives before number i.
CollectedSound(i) ==
    /\ \A k \in DOMAIN subs : k < i =>
          /\ subs[k] \in opened
          /\ subs[k] # Live => Contents[subs[k]] \subseteq c.known
          /\ subs[k] = Live /\ attached => c.had \subseteq c.known
    /\ c.known \subseteq Others \cup KnownNames \cup {EmptyName}

NamesStillToCome ==
    /\ c.i \in DOMAIN subs /\ subs[c.i] = Live /\ Live \in opened
    /\ IF attached
       THEN /\ AtSound(c.at)
            /\ \A j \in Reached :
                  entries[j].name \in c.had => entries[j].name \in c.known \/ ToCome(c.at, j)
       ELSE c.at = AtEnd

ClientSound ==
    /\ c.pc \in {"find", "walk"} => PassedBy(c.i)
    /\ c.pc = "walk" => WalkSound
    /\ c.pc = "found" => FoundSound
    /\ c.pc \in {"collect", "names"} => CollectedSound(c.i)
    /\ c.pc = "names" => NamesStillToCome

ListInv ==
    /\ IndexInv /\ SubsSound /\ ClientType /\ ClientSound
    /\ names \subseteq Name \cup {EmptyName} /\ NamesComplete
=============================================================================
