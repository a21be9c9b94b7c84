------------------------------ MODULE NameHash ------------------------------
(***************************************************************************)
(* The name table of an index file: a hash table in the file, whose slots  *)
(* lead to the entries of all names with that hash value.  One process     *)
(* adds entries, each by several writes; others read at any time.          *)
(*                                                                         *)
(* The offset of an entry is its number in the order they are written; the *)
(* space comes from FileAllocator.  Names are short enough for the buffer  *)
(* of PrivateEntry::read.                                                  *)
(***************************************************************************)
EXTENDS Naturals, Sequences

CONSTANTS
    Name,
    HashSize,      \* the slots of the table
    Hash           \* Hash[n]: the slot of name n

ASSUME HashAssumption ==
    HashSize \in Nat \ {0} /\ Hash \in [Name -> 0 .. HashSize - 1]

VARIABLES
    table,         \* the slots: the offset of a first entry, or 0
    entries        \* the entries in the file, linked or not

hashVars == <<table, entries>>

EmptyName == ""
NoEntry == [name |-> EmptyName, id |-> 0, next |-> 0]
NoTable == <<>>

HashInit == table = NoTable /\ entries = <<>>

\* NameHash::init: all slots are 0 before the anchor tells of the table.
MakeTable == table' = [h \in 0 .. HashSize - 1 |-> 0] /\ UNCHANGED entries

\* The entries that a search from their slot comes to.
Reached ==
    LET reached[i \in DOMAIN entries] ==
            \/ table[Hash[entries[i].name]] = i
            \/ \E j \in 1 .. i - 1 : reached[j] /\ entries[j].next = i
    IN  {i \in DOMAIN entries : table # NoTable /\ reached[i]}
ListOf(h) == {i \in Reached : Hash[entries[i].name] = h}
IdOf(n) == {entries[i].id : i \in {j \in Reached : entries[j].name = n}}

\* The entry where insert ends its search for a new name.
LastOf(h) == CHOOSE i \in ListOf(h) : entries[i].next = 0

\* A mutant of WriteEntry: the new entry leads to the list it is added to.
WriteBefore(n, id) ==
    /\ entries' = Append(entries, [name |-> n, id |-> id, next |-> table[Hash[n]]])
    /\ UNCHANGED table

\* A mutant of LinkEntry: the slot leads to the new entry instead of the list.
LinkToSlot(n, offset) ==
    table' = [table EXCEPT ![Hash[n]] = offset] /\ UNCHANGED entries

\* NameHash::insert of a name that is not there: the entry is written first,
\* then the slot or the last entry leads to it.
WriteEntry(n, id) ==
    /\ entries' = Append(entries, [name |-> n, id |-> id, next |-> 0])
    /\ UNCHANGED table
LinkEntry(n, offset) ==
    LET h == Hash[n]
    IN  IF table[h] = 0
        THEN table' = [table EXCEPT ![h] = offset] /\ UNCHANGED entries
        ELSE entries' = [entries EXCEPT ![LastOf(h)].next = offset]
             /\ UNCHANGED table

\* The position of an iterator: a slot, and a copy of the entry as it was when
\* it was read.
AtEnd == [slot |-> HashSize, entry |-> NoEntry]
FromSlot(h) ==
    LET used == {k \in h .. HashSize - 1 : table[k] # 0}
        k == CHOOSE x \in used : \A y \in used : x <= y
    IN  IF used = {} THEN AtEnd ELSE [slot |-> k, entry |-> entries[table[k]]]

\* A mutant of NextName: only the first entry of each slot.
NextSlot(at) == FromSlot(at.slot + 1)

\* PrivateIterator::next.
NextName(at) ==
    IF at.entry.next # 0 THEN [at EXCEPT !.entry = entries[at.entry.next]]
    ELSE FromSlot(at.slot + 1)

-----------------------------------------------------------------------------
\* The lists of the table, as a reader meets them at any moment, have complete
\* entries of their slot, each name and each tree once, and they end: an entry
\* leads only to one that was written later.
ChainsSound ==
    /\ \A h \in DOMAIN table : table[h] # 0 =>
           table[h] \in DOMAIN entries /\ Hash[entries[table[h]].name] = h
    /\ \A i \in Reached : entries[i].next # 0 =>
           /\ entries[i].next \in i + 1 .. Len(entries)
           /\ Hash[entries[entries[i].next].name] = Hash[entries[i].name]
    /\ \A i, j \in Reached :
           entries[i].name = entries[j].name \/ entries[i].id = entries[j].id => i = j

-----------------------------------------------------------------------------
(* Why this holds: what is inductive about the table t, the entries e and   *)
(* the entries R that are reached.                                          *)

Entry == [name : Name, id : Nat, next : Nat]
SlotOf(e, i) == Hash[e[i].name]

\* Whether they are linked or not, entries lead to later ones of their slot.
LinksForward(t, e) ==
    /\ \A h \in 0 .. HashSize - 1 : t[h] # 0 => t[h] \in DOMAIN e /\ SlotOf(e, t[h]) = h
    /\ \A i \in DOMAIN e : e[i].next # 0 =>
          e[i].next \in DOMAIN e /\ i < e[i].next /\ SlotOf(e, e[i].next) = SlotOf(e, i)

\* A list has all entries of its slot that are reached, in the order in which they
\* were written.
ListsOrdered(R, t, e) ==
    \A i \in R :
        /\ t[SlotOf(e, i)] # 0 /\ t[SlotOf(e, i)] <= i
        /\ \A j \in R : SlotOf(e, i) = SlotOf(e, j) /\ i < j =>
              e[i].next # 0 /\ e[i].next <= j

Distinct(R, e) ==
    \A i, j \in R : e[i].name = e[j].name \/ e[i].id = e[j].id => i = j

NamesSound(R, t, e) ==
    /\ e \in Seq(Entry)
    /\ \/ t = NoTable /\ e = <<>>
       \/ /\ t \in [0 .. HashSize - 1 -> Nat]
          /\ LinksForward(t, e) /\ ListsOrdered(R, t, e) /\ Distinct(R, e)
=============================================================================
