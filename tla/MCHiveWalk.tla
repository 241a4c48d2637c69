----------------------------- MODULE MCHiveWalk -----------------------------
(***************************************************************************)
(* Small hives for HiveWalk and WalkOrder.  Offsets 1..4 hold keys (1 is   *)
(* the root) and 11..13 lists.                                             *)
(***************************************************************************)
EXTENDS WalkOrder

nk(list) == [tag |-> "nk", count |-> 1, list |-> list]
emptied(list) == [tag |-> "nk", count |-> 0, list |-> list]
leafKey == [tag |-> "nk", count |-> 0, list |-> NULL]
leaf(offs) == [tag |-> "leaf", offs |-> offs]
ri(offs) == [tag |-> "ri", offs |-> offs]
other == [tag |-> "other"]
bad == [tag |-> "bad"]

Hive(k1, k2, k3, k4, l1, l2, l3) ==
  [o \in Offsets |-> CASE o = 1 -> k1 [] o = 2 -> k2 [] o = 3 -> k3 [] o = 4 -> k4
                       [] o = 11 -> l1 [] o = 12 -> l2 [] o = 13 -> l3]

\* A hive in which nothing is referred to twice, and the root not at all.
Refs(c) == CASE c.tag = "nk" /\ c.count # 0 -> <<c.list>>
             [] c.tag \in {"leaf", "ri"} -> c.offs
             [] OTHER -> << >>

IsTree(h) ==
  /\ \A o \in Offsets : Root \notin ToSet(Refs(h[o]))
  /\ \A o, u \in Offsets :
       \A m \in DOMAIN Refs(h[o]), n \in DOMAIN Refs(h[u]) :
         Refs(h[o])[m] = Refs(h[u])[n] /\ Refs(h[o])[m] # NULL => o = u /\ m = n

\* The root has a list at 11, key 2 one at 12, key 3 one at 13, unless the
\* root's list is a root index of these.
Trees ==
  {h \in {Hive(k1, k2, k3, k4, l1, l2, l3) :
            k1 \in {nk(11), leafKey}, k2 \in {nk(12), emptied(12)},
            k3 \in {nk(13), leafKey, bad}, k4 \in {leafKey, other, bad},
            l1 \in {leaf(<<2, 3>>), leaf(<<3, 2>>), leaf(<<2>>), leaf(<<2, NULL>>),
                    ri(<<13>>), ri(<<13, 12>>), bad, other},
            l2 \in {leaf(<<4>>), leaf(<<3, 4>>), leaf(<< >>), bad, other},
            l3 \in {leaf(<<2, 3>>), leaf(<<4>>), bad}} : IsTree(h)}
    \union {Hive(other, leafKey, leafKey, leafKey, bad, bad, bad)}

\* Hives of any shape over a few cells: shared subtrees, keys that list an
\* ancestor, a key whose subkeys are gone but whose list is not, lists that
\* list themselves, dangling and null references.
Tangled ==
  {Hive(nk(11), k2, k3, other, l1, l2, other) :
     k2 \in {nk(12), nk(11), emptied(12), bad},
     k3 \in {nk(12), nk(2), leafKey, other},
     l1 \in {leaf(<<2, 3>>), leaf(<<2>>), ri(<<12>>), ri(<<12, 12>>), ri(<<11>>)},
     l2 \in {leaf(<<3>>), leaf(<<1, 3>>), leaf(<<NULL>>), leaf(<<11, 2>>), bad}}

MCHives == Trees \union Tangled

\* The walk of a tangled hive need not end: the run looks at its first
\* MaxItems items, and at lists that grow to MaxLists.  No tree reaches these
\* bounds.
CONSTANTS MaxItems, MaxLists
WalkBound == Len(items) <= MaxItems /\ Len(lists) <= MaxLists

\* A caller that drains the iterator: nothing blocks it.
MCNext == Next /\ WalkBound'
MCSpec == Init /\ [][MCNext]_vars /\ WF_vars(MCNext)

-----------------------------------------------------------------------------
\* Draining the iterator of a tree ends, whatever cannot be read.
WalkEnds == IsTree(hive) ~> pc \in {"done", "failed"}
=============================================================================
