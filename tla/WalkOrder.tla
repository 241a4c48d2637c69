------------------------------ MODULE WalkOrder ------------------------------
(***************************************************************************)
(* The orders in which a walk should return the keys of a hive, defined    *)
(* without the walk: what a key lists, pre-order below a key and the       *)
(* levels below the root, as recursions on the depth of the hive.          *)
(***************************************************************************)
EXTENDS HiveWalk, SequencesExt

CONSTANT Depth      \* the recursions go no deeper

ASSUME DepthAssumption == Depth \in Nat

\* What f makes of each member of s, and these sequences strung together.
Each(f, s) == [n \in DOMAIN s |-> f[s[n]]]
Strung(f, s) == FlattenSeq(Each(f, s))

KeyCells == {o \in Offsets : Tag(o) = "nk"}

\* What an index cell lists, all its parts readable or not, given what the
\* parts list.
Parts(o) == IF Tag(o) = "ri" THEN Cell(o).offs ELSE << >>
OffsOf(listing) == [o \in Links |-> listing[o].offs]

Listed(listing) ==
  [o \in Links |->
     [ok |-> Tag(o) # "bad" /\ \A p \in Range(Parts(o)) : listing[p].ok,
      offs |-> IF Tag(o) = "leaf" THEN Cell(o).offs ELSE Strung(OffsOf(listing), Parts(o))]]

Listings[n \in 0 .. Depth] ==
  IF n = 0 THEN [o \in Links |-> [ok |-> TRUE, offs |-> << >>]] ELSE Listed(Listings[n - 1])

\* What subkeys should return for a key: the keys among the cells it lists, if
\* all its lists and all these cells can be read.
OnlyKey == [o \in Links |-> IF Tag(o) = "nk" THEN <<o>> ELSE << >>]

Subkeys(listing, k) ==
  LET found == Strung(OffsOf(listing), ListOf(k))
      ok == /\ \A l \in Range(ListOf(k)) : listing[l].ok
            /\ \A o \in Range(found) : Tag(o) # "bad"
  IN  [ok |-> ok, kids |-> IF ok THEN Strung(OnlyKey, found) ELSE << >>]

Family(listing) == [k \in KeyCells |-> Subkeys(listing, k)]
KidsOf(family) == [k \in KeyCells |-> family[k].kids]
ItemsOf(family) == [k \in KeyCells |-> <<[key |-> k, ok |-> family[k].ok]>>]

\* Depth-first pre-order: a key before all that is below its subkeys.
Below(family, order) ==
  [k \in KeyCells |-> ItemsOf(family)[k] \o Strung(order, family[k].kids)]

Orders[n \in 0 .. Depth] ==
  IF n = 0 THEN [k \in KeyCells |-> << >>] ELSE Below(Family(Listings[Depth]), Orders[n - 1])

\* Breadth-first order: the root, its subkeys, the subkeys of these ...
Levels[n \in 0 .. Depth] ==
  IF n = 0 THEN <<Root>> ELSE Strung(KidsOf(Family(Listings[Depth])), Levels[n - 1])

LevelOrder == FlattenSeq([n \in 1 .. Depth |-> Levels[n - 1]])

\* Where one more round of the recursions makes no difference.
SettledIn(listing, order) ==
  {o \in Links : /\ Listed(listing)[o] = listing[o]
                 /\ mode = "dfs" /\ o \in KeyCells => Below(Family(listing), order)[o] = order[o]}

\* Depth was enough for all that the root leads to.
Settled ==
  /\ LET settled == SettledIn(Listings[Depth], Orders[Depth])
     IN  \E S \in SUBSET settled : Closed(S)
  /\ mode = "bfs" => Levels[Depth] = << >>

Reference ==
  IF mode = "dfs" THEN Orders[Depth][Root]
                  ELSE Strung(ItemsOf(Family(Listings[Depth])), LevelOrder)

\* "Iterate all keys in breadth-first order", "in depth-first (pre-order)
\* order": at every moment the items returned are the first ones of the
\* reference order, and at the end all of them; a key whose subkeys cannot be
\* read is replaced by an error and costs its own subtree only.
WalkFollowsOrder ==
  /\ Tag(Root) # "nk" => items = << >>
  /\ Tag(Root) = "nk" /\ Settled => /\ IsPrefix(items, Reference)
                                    /\ pc = "done" => items = Reference
=============================================================================
