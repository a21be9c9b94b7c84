----------------------------- MODULE IndexFile ------------------------------
(***************************************************************************)
(* An index file: its cookie, the anchor of its name table, and a tree for *)
(* each channel.  The engine creates the file and adds channels; it may    *)
(* stop between any two writes and start again.                            *)
(*                                                                         *)
(* A write has reached the file with the next seek at the latest, so the   *)
(* steps below are the prefixes that readers and crashes can see.          *)
(***************************************************************************)
EXTENDS NameHash, FiniteSets

CONSTANTS
    MaxTrees       \* bound: trees made, with those that a crash has lost

VARIABLES
    made,          \* what was made of the file
    trees,         \* the number of trees; a tree is named by its number
    engine,        \* where the engine is in open() or addChannel()
    added          \* history: the channels whose addChannel has returned

indexVars == <<hashVars, made, trees, engine, added>>

Idle == [pc |-> "idle", name |-> EmptyName]
Off == [pc |-> "off", name |-> EmptyName]
Died == [pc |-> "died", name |-> EmptyName]

IndexInit ==
    /\ HashInit
    /\ made = "nothing"
    /\ trees = 0
    /\ engine = Off
    /\ added = {}

\* IndexFile::open of a file that is there: with a cookie it succeeds, also
\* when there is no table yet, and then the size read at the anchor is 0.
CanOpen == made \in {"cookie", "table"}

\* IndexFile::open for writing: what is left of an earlier attempt is not made
\* again; without the cookie open() throws.
OpenForWriting ==
    /\ engine.pc = "off"
    /\ \/ /\ made = "nothing"
          /\ made' = "allocator"
          /\ engine' = [engine EXCEPT !.pc = "cookie"]
       \/ /\ CanOpen
          /\ engine' = [engine EXCEPT !.pc = IF made = "table" THEN "idle" ELSE "unusable"]
          /\ UNCHANGED made
    /\ UNCHANGED <<hashVars, trees, added>>
WriteCookie ==
    /\ engine.pc = "cookie"
    /\ made' = "cookie"
    /\ engine' = [engine EXCEPT !.pc = "init"]
    /\ UNCHANGED <<hashVars, trees, added>>
InitNames ==
    /\ engine.pc = "init"
    /\ MakeTable
    /\ made' = "table"
    /\ engine' = Idle
    /\ UNCHANGED <<trees, added>>

\* IndexFile::addChannel of a channel that is there only attaches to its tree.
FindExisting(n) ==
    /\ engine.pc = "idle"
    /\ IdOf(n) # {}
    /\ added' = added \cup {n}
    /\ UNCHANGED <<hashVars, made, trees, engine>>
AddTree(n) ==
    /\ engine.pc = "idle"
    /\ IdOf(n) = {}
    /\ trees < MaxTrees
    /\ trees' = trees + 1
    /\ engine' = [pc |-> "insert", name |-> n]
    /\ UNCHANGED <<hashVars, made, added>>
InsertName ==
    /\ engine.pc = "insert"
    /\ WriteEntry(engine.name, trees)
    /\ engine' = [engine EXCEPT !.pc = "link"]
    /\ UNCHANGED <<made, trees, added>>
LinkName ==
    /\ engine.pc = "link"
    /\ LinkEntry(engine.name, Len(entries))
    /\ added' = added \cup {engine.name}
    /\ engine' = Idle
    /\ UNCHANGED <<made, trees>>

\* The engine is stopped anywhere; without a table it divides by zero when it
\* looks for its first channel.
Stop ==
    /\ engine.pc # "off"
    /\ engine' = Off
    /\ UNCHANGED <<hashVars, made, trees, added>>

EngineNext ==
    \/ OpenForWriting
    \/ WriteCookie
    \/ InitNames
    \/ \E n \in Name : FindExisting(n) \/ AddTree(n)
    \/ InsertName
    \/ LinkName
    \/ Stop

-----------------------------------------------------------------------------
\* A channel that was added is found ever after, also by an engine that starts
\* again after a crash, and always with the tree that was made for it.
AddedStays ==
    [][/\ \A n \in added' : IdOf(n)' # {}
       /\ \A n \in Name : IdOf(n) # {} => IdOf(n)' = IdOf(n)]_indexVars

-----------------------------------------------------------------------------
(* The inductive invariant of the file and of the engine, wherever it was   *)
(* stopped.                                                                 *)

\* While a channel is added it is not in the table, and its tree is the youngest;
\* its entry is the last one, until it is linked.
AddingSound ==
    /\ engine.pc \in {"insert", "link"} => engine.name \in Name /\ IdOf(engine.name) = {}
    /\ engine.pc = "insert" => \A i \in DOMAIN entries : entries[i].id < trees
    /\ engine.pc = "link" =>
         /\ Len(entries) > 0 /\ Len(entries) \notin Reached
         /\ entries[Len(entries)] = [name |-> engine.name, id |-> trees, next |-> 0]
         /\ \A i \in DOMAIN entries : i # Len(entries) => entries[i].id < trees

EngineSound ==
    /\ engine \in [pc : {"off", "cookie", "init", "unusable", "idle", "insert", "link"},
                   name : Name \cup {EmptyName}]
    /\ made \in {"nothing", "allocator", "cookie", "table"}
    /\ made = "table" <=> table # NoTable
    /\ engine.pc = "cookie" => made = "allocator"
    /\ engine.pc = "init" => made = "cookie"
    /\ engine.pc \in {"idle", "insert", "link"} => made = "table"

IndexInv ==
    /\ NamesSound(Reached, table, entries)
    /\ trees \in Nat /\ \A i \in DOMAIN entries : entries[i].id <= trees
    /\ EngineSound /\ AddingSound
    /\ added \subseteq {n \in Name : IdOf(n) # {}}
=============================================================================
