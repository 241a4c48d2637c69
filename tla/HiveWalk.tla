------------------------------ MODULE HiveWalk ------------------------------
(***************************************************************************)
(* Walking all keys of a hive: BfsIter and DfsIter                         *)
(* (winreg-core/src/iter.rs) and the Key::subkeys they call                *)
(* (winreg-core/src/key.rs), with the subkey-index indirection (lf, lh, li *)
(* leaves and ri roots) and the errors of read_cell.                       *)
(*                                                                         *)
(* A hive maps cell offsets to what read_cell makes of them:               *)
(*   nk     a key: its subkey count and the offset of its subkeys list     *)
(*   leaf   an lf, lh or li list of key offsets                            *)
(*   ri     a list of offsets of lists                                     *)
(*   other  a cell that parses as something else (vk, sk, db, data)        *)
(*   bad    a cell that read_cell refuses (free, cut off, unparsable)      *)
(***************************************************************************)
EXTENDS Integers, Sequences, Functions

CONSTANTS
  Offsets,    \* cell offsets
  NULL,       \* CellOffset 0xFFFFFFFF
  Root,       \* root_cell_offset of the header
  Hives       \* the hives that may be walked

Links == Offsets \union {NULL}

IsCell(c) ==
  /\ c.tag \in {"nk", "leaf", "ri", "other", "bad"}
  /\ c.tag = "nk" => c.count \in Nat /\ c.list \in Links
  /\ c.tag \in {"leaf", "ri"} => c.offs \in Seq(Links)

ASSUME HivesAssumption ==
  /\ NULL \notin Offsets
  /\ Root \in Links
  /\ \A h \in Hives : DOMAIN h = Offsets /\ \A o \in Offsets : IsCell(h[o])

VARIABLES
  hive,     \* the cells
  mode,     \* "bfs" or "dfs": which iterator
  pc,       \* "new", "ready", "collect", "read", "done" or "failed"
  pending,  \* BfsIter.queue, or DfsIter.stack with its top at the end
  key,      \* the key that next() has popped
  lists,    \* index cells collect_subkey_offsets has yet to read
  offsets,  \* the key offsets it has found
  kids,     \* the subkeys read so far
  items     \* what next() has returned: [key, ok]

vars == <<hive, mode, pc, pending, key, lists, offsets, kids, items>>

\* CellReader::read_cell.
Cell(o) == IF o = NULL THEN [tag |-> "bad"] ELSE hive[o]
Tag(o) == Cell(o).tag

Init ==
  /\ hive \in Hives
  /\ mode \in {"bfs", "dfs"}
  /\ pc = "new"
  /\ pending = << >> /\ key = NULL
  /\ lists = << >> /\ offsets = << >> /\ kids = << >>
  /\ items = << >>

\* BfsIter::new, DfsIter::new: the root must be a key (root_key).
NewIter ==
  /\ pc = "new"
  /\ IF Tag(Root) = "nk" THEN pending' = <<Root>> /\ pc' = "ready"
                         ELSE pc' = "failed" /\ UNCHANGED pending
  /\ UNCHANGED <<hive, mode, key, lists, offsets, kids, items>>

\* next: None when nothing is left.
Exhausted ==
  /\ pc = "ready" /\ pending = << >>
  /\ pc' = "done"
  /\ UNCHANGED <<hive, mode, pending, key, lists, offsets, kids, items>>

\* next pops the front of the queue or the top of the stack, and subkeys looks
\* at the list of the key only if it has subkeys.
Popped == IF mode = "bfs" THEN Head(pending) ELSE pending[Len(pending)]
Rest == IF mode = "bfs" THEN Tail(pending) ELSE SubSeq(pending, 1, Len(pending) - 1)
\* Mutant: the list of a key without subkeys is read.
ListOfStale(k) == IF hive[k].list = NULL THEN << >> ELSE <<hive[k].list>>

ListOf(k) == IF hive[k].count = 0 \/ hive[k].list = NULL THEN << >> ELSE <<hive[k].list>>

PopKey ==
  /\ pc = "ready" /\ pending # << >>
  /\ key' = Popped
  /\ pending' = Rest
  /\ lists' = ListOf(Popped)
  /\ offsets' = << >> /\ kids' = << >>
  /\ pc' = "collect"
  /\ UNCHANGED <<hive, mode, items>>

\* An error of subkeys: next returns it instead of the key; the key's subtree
\* is lost, the walk can go on.
YieldError ==
  /\ items' = Append(items, [key |-> key, ok |-> FALSE])
  /\ pc' = "ready"
  /\ UNCHANGED <<hive, mode, pending, key, lists, offsets, kids>>

\* collect_subkey_offsets, one index cell at a time, left to right.
ReadList ==
  /\ pc = "collect" /\ lists # << >> /\ Tag(Head(lists)) # "bad"
  /\ LET c == Cell(Head(lists))
     IN  /\ lists' = (IF c.tag = "ri" THEN c.offs ELSE << >>) \o Tail(lists)
         /\ offsets' = offsets \o (IF c.tag = "leaf" THEN c.offs ELSE << >>)
  /\ UNCHANGED <<hive, mode, pc, pending, key, kids, items>>

\* Mutant: an unreadable list is tried again.
ListRetried ==
  /\ pc = "collect" /\ lists # << >> /\ Tag(Head(lists)) = "bad"
  /\ UNCHANGED vars

ListUnreadable ==
  /\ pc = "collect" /\ lists # << >> /\ Tag(Head(lists)) = "bad"
  /\ YieldError

ListsRead ==
  /\ pc = "collect" /\ lists = << >>
  /\ pc' = "read"
  /\ UNCHANGED <<hive, mode, pending, key, lists, offsets, kids, items>>

\* Mutant: the cell is not looked at.
ReadSubkeyUnread ==
  /\ pc = "read" /\ offsets # << >>
  /\ kids' = Append(kids, Head(offsets))
  /\ offsets' = Tail(offsets)
  /\ UNCHANGED <<hive, mode, pc, pending, key, lists, items>>

\* subkeys reads the cells it was referred to; one that is no key is passed
\* over in silence.
ReadSubkey ==
  /\ pc = "read" /\ offsets # << >> /\ Tag(Head(offsets)) # "bad"
  /\ kids' = IF Tag(Head(offsets)) = "nk" THEN Append(kids, Head(offsets)) ELSE kids
  /\ offsets' = Tail(offsets)
  /\ UNCHANGED <<hive, mode, pc, pending, key, lists, items>>

SubkeyUnreadable ==
  /\ pc = "read" /\ offsets # << >> /\ Tag(Head(offsets)) = "bad"
  /\ YieldError

\* Mutant: children pushed in their own order.
InOrder(s) == s

Reversed(s) == [n \in 1 .. Len(s) |-> s[Len(s) + 1 - n]]

YieldKey ==
  /\ pc = "read" /\ offsets = << >>
  /\ pending' = pending \o (IF mode = "bfs" THEN kids ELSE Reversed(kids))
  /\ items' = Append(items, [key |-> key, ok |-> TRUE])
  /\ pc' = "ready"
  /\ UNCHANGED <<hive, mode, key, lists, offsets, kids>>

Next == \/ NewIter \/ Exhausted \/ PopKey
        \/ ReadList \/ ListUnreadable \/ ListsRead
        \/ ReadSubkey \/ SubkeyUnreadable \/ YieldKey

Spec == Init /\ [][Next]_vars

-----------------------------------------------------------------------------
Item == [key : Offsets, ok : BOOLEAN]

\* Types of the walk: in particular only key cells are ever pending.
TypeOK ==
  /\ DOMAIN hive = Offsets /\ \A o \in Offsets : IsCell(hive[o])
  /\ mode \in {"bfs", "dfs"}
  /\ pc \in {"new", "ready", "collect", "read", "done", "failed"}
  /\ pending \in Seq(Offsets) /\ kids \in Seq(Offsets)
  /\ key \in Links
  /\ pc \in {"collect", "read"} => key \in Offsets
  /\ lists \in Seq(Links) /\ offsets \in Seq(Links)
  /\ items \in Seq(Item)

\* Every offset the walk works with is a key cell: what it returns, holds in
\* its queue or stack, or collects as a child.
OnlyKeys ==
  /\ \A n \in 1 .. Len(pending) : Tag(pending[n]) = "nk"
  /\ \A n \in 1 .. Len(kids) : Tag(kids[n]) = "nk"
  /\ \A n \in 1 .. Len(items) : Tag(items[n].key) = "nk"
  /\ pc \in {"collect", "read"} => Tag(key) = "nk"

\* A set of cells that holds the root and whatever its members lead to; the
\* list that a key without subkeys may still refer to is no part of the tree.
Closed(S) ==
  /\ Root \in S
  /\ \A o \in S \intersect Offsets :
       /\ hive[o].tag = "nk" /\ hive[o].count # 0 => hive[o].list \in S
       /\ hive[o].tag \in {"leaf", "ri"} =>
            \A n \in 1 .. Len(hive[o].offs) : hive[o].offs[n] \in S

\* Nothing is reported that the root does not lead to.
OnlyReachable ==
  \A S \in SUBSET Links :
    Closed(S) => \A n \in 1 .. Len(items) : items[n].key \in S

\* R holds all the lists of a key; each of them can be read, and so can the
\* cells that they list, the keys among which are in T.
Follows(k, R, T) ==
  /\ Range(ListOf(k)) \subseteq R
  /\ \A o \in R :
       /\ Tag(o) # "bad"
       /\ Tag(o) = "ri" => Range(hive[o].offs) \subseteq R
       /\ Tag(o) = "leaf" => \A c \in Range(hive[o].offs) :
                              Tag(c) # "bad" /\ (Tag(c) = "nk" => c \in T)

\* The keys that were returned, those that wait, and the one at work.
Seen == {items[n].key : n \in DOMAIN items} \union Range(pending)
          \union (IF pc \in {"collect", "read"} THEN {key} ELSE {})

\* A returned key has all its subkeys in T, one returned as an error has lists
\* or subkeys that cannot be read.
Followed(item, T) ==
  IF item.ok THEN \E R \in SUBSET Links : Follows(item.key, R, T)
             ELSE \A R \in SUBSET Links : ~Follows(item.key, R, Links)

\* Nothing the root leads to is lost: where a returned key leads has been
\* returned too or is yet to be; when the walk is done nothing waits.
NothingLost ==
  /\ pc \in {"ready", "collect", "read", "done"} =>
       Root \in Seen /\ \A n \in DOMAIN items : Followed(items[n], Seen)
  /\ pc = "done" => pending = << >>

\* What is returned is what the root leads to, in any hive.
ReachesExactly == OnlyReachable /\ NothingLost
=============================================================================
