--------------------------- MODULE HiveWalkProofs ---------------------------
(***************************************************************************)
(* What holds of every walk of every hive, well formed or not: the types,  *)
(* that only key cells are returned, that what is returned is what the     *)
(* root leads to, and, in the second half, in which order.                 *)
(***************************************************************************)
EXTENDS WalkOrder, DataLemmas, TLAPS

\* The sequence facts the walk needs, in terms of members.
LEMMA TailMembers ==
  ASSUME NEW S, NEW s \in Seq(S), s # << >>
  PROVE  /\ Head(s) \in S /\ Tail(s) \in Seq(S)
         /\ Head(s) = s[1] /\ 1 \in 1 .. Len(s)
         /\ \A n \in 1 .. Len(Tail(s)) : n + 1 \in 1 .. Len(s) /\ Tail(s)[n] = s[n + 1]
  OBVIOUS

\* Without its last element a stack has no element it did not have (Vec::pop).
LEMMA FrontMembers ==
  ASSUME NEW S, NEW s \in Seq(S), s # << >>
  PROVE  LET f == SubSeq(s, 1, Len(s) - 1)
         IN  /\ s[Len(s)] \in S /\ f \in Seq(S)
             /\ Len(s) \in 1 .. Len(s)
             /\ \A n \in 1 .. Len(f) : n \in 1 .. Len(s) /\ f[n] = s[n]
  OBVIOUS

\* What stands in a concatenation stands in one of its parts (Vec::extend).
LEMMA ConcatMembers ==
  ASSUME NEW S, NEW s \in Seq(S), NEW t \in Seq(S), NEW T,
         \A n \in 1 .. Len(s) : s[n] \in T,
         \A n \in 1 .. Len(t) : t[n] \in T
  PROVE  /\ s \o t \in Seq(S)
         /\ \A n \in 1 .. Len(s \o t) : (s \o t)[n] \in T
  OBVIOUS

\* What stands in an appended sequence stood there before or is new (push).
LEMMA AppendMembers ==
  ASSUME NEW S, NEW s \in Seq(S), NEW e \in S, NEW T, e \in T,
         \A n \in 1 .. Len(s) : s[n] \in T
  PROVE  /\ Append(s, e) \in Seq(S)
         /\ \A n \in 1 .. Len(Append(s, e)) : Append(s, e)[n] \in T
  OBVIOUS

\* Reversing the children for the stack adds none (DfsIter::next).
LEMMA ReversedMembers ==
  ASSUME NEW S, NEW s \in Seq(S), NEW T,
         \A n \in 1 .. Len(s) : s[n] \in T
  PROVE  /\ Reversed(s) \in Seq(S)
         /\ \A n \in 1 .. Len(Reversed(s)) : Reversed(s)[n] \in T
<1>1. Len(s) \in Nat
  OBVIOUS
<1>2. \A n \in 1 .. Len(s) : Len(s) + 1 - n \in 1 .. Len(s)
  BY <1>1
<1>3. \A n \in 1 .. Len(s) : s[Len(s) + 1 - n] \in S \intersect T
  BY <1>2
<1>4. Reversed(s) \in Seq(S) /\ Len(Reversed(s)) = Len(s)
  BY <1>1, <1>3 DEF Reversed
<1>5. \A n \in 1 .. Len(s) : Reversed(s)[n] = s[Len(s) + 1 - n]
  BY DEF Reversed
<1> QED
  BY <1>3, <1>4, <1>5

-----------------------------------------------------------------------------
\* An index cell or a key leads to cells of the hive.
LEMMA CellTypes ==
  ASSUME TypeOK
  PROVE  /\ \A o \in Links : Tag(o) # "bad" => o \in Offsets /\ Cell(o) = hive[o]
         /\ \A o \in Offsets : Tag(o) = "nk" => ListOf(o) \in Seq(Links)
         /\ \A o \in Offsets : Tag(o) \in {"leaf", "ri"} => hive[o].offs \in Seq(Links)
<1>1. NULL \notin Offsets
  BY HivesAssumption
<1>2. \A o \in Offsets : Tag(o) = hive[o].tag /\ IsCell(hive[o])
  BY <1>1 DEF TypeOK, Tag, Cell
<1>3. \A o \in Links : Tag(o) # "bad" => o \in Offsets /\ Cell(o) = hive[o]
  BY <1>1 DEF Tag, Cell, Links
<1>4. \A o \in Offsets : Tag(o) = "nk" => hive[o].list \in Links
  BY <1>2 DEF IsCell
<1>5. \A o \in Offsets : Tag(o) = "nk" => ListOf(o) \in Seq(Links)
  BY <1>4 DEF ListOf
<1>6. \A o \in Offsets : Tag(o) \in {"leaf", "ri"} => hive[o].offs \in Seq(Links)
  BY <1>2 DEF IsCell
<1> QED
  BY <1>3, <1>5, <1>6

\* The hive is read, never written.
LEMMA HiveUnchanged ==
  ASSUME [Next]_vars
  PROVE  UNCHANGED hive /\ \A o : Tag(o)' = Tag(o)
<1>1. UNCHANGED hive
  BY DEF Next, vars, NewIter, Exhausted, PopKey, ReadList, ListUnreadable, ListsRead,
         ReadSubkey, SubkeyUnreadable, YieldKey, YieldError
<1> QED
  BY <1>1 DEF Tag, Cell

\* The walk itself: what it holds are key cells and offsets.
Typed == TypeOK /\ OnlyKeys

\* The state before an iterator is made is well typed.
LEMMA InitTyped == Init => Typed
<1> SUFFICES ASSUME Init PROVE Typed
  OBVIOUS
<1>1. TypeOK
  BY HivesAssumption DEF Init, TypeOK, Links
<1>2. OnlyKeys
  BY DEF Init, OnlyKeys
<1> QED
  BY <1>1, <1>2 DEF Typed

\* Returning an error for the key that was popped keeps the types.
LEMMA YieldErrorTyped ==
  ASSUME Typed, pc \in {"collect", "read"}, YieldError
  PROVE  Typed'
<1> DEFINE e == [key |-> key, ok |-> FALSE]
<1>1. UNCHANGED <<hive, mode, pending, key, lists, offsets, kids>>
      /\ items' = Append(items, e) /\ pc' = "ready"
  BY DEF YieldError
<1>2. e \in Item /\ Tag(e.key) = "nk" /\ items \in Seq(Item)
  BY DEF Typed, TypeOK, OnlyKeys, Item
<1>3. items' \in Seq(Item)
      /\ \A n \in 1 .. Len(items') : items'[n] \in {x \in Item : Tag(x.key) = "nk"}
  <2>1. \A n \in 1 .. Len(items) : items[n] \in {x \in Item : Tag(x.key) = "nk"}
    BY <1>2 DEF Typed, OnlyKeys
  <2> QED
    BY <1>1, <1>2, <2>1, AppendMembers
<1>4. \A o : Tag(o)' = Tag(o)
  BY <1>1 DEF Tag, Cell
<1>5. TypeOK'
  BY <1>1, <1>3 DEF Typed, TypeOK, IsCell
<1>6. OnlyKeys'
  BY <1>1, <1>3, <1>4 DEF Typed, OnlyKeys
<1> QED
  BY <1>5, <1>6 DEF Typed

\* Every step of an iterator keeps the types.
LEMMA NextTyped == Typed /\ [Next]_vars => Typed'
<1> SUFFICES ASSUME Typed, [Next]_vars PROVE Typed'
  OBVIOUS
<1> USE HivesAssumption
<1> DEFINE Keys == {o \in Offsets : Tag(o) = "nk"}
<1>t. TypeOK /\ OnlyKeys
  BY DEF Typed
<1>h. UNCHANGED hive /\ \A o : Tag(o)' = Tag(o)
  BY HiveUnchanged
<1>1. CASE NewIter
  <2>1. CASE Tag(Root) = "nk"
    <3>1. Root \in Offsets /\ pending' = <<Root>>
      BY <1>1, <2>1, <1>t, CellTypes DEF NewIter
    <3>2. UNCHANGED <<mode, key, lists, offsets, kids, items>> /\ pc' = "ready"
      BY <1>1, <2>1 DEF NewIter
    <3>3. TypeOK'
      BY <1>t, <1>h, <3>1, <3>2 DEF TypeOK, IsCell
    <3>4. OnlyKeys'
      BY <1>t, <1>h, <2>1, <3>1, <3>2 DEF OnlyKeys
    <3> QED
      BY <3>3, <3>4 DEF Typed
  <2>2. CASE Tag(Root) # "nk"
    <3>1. UNCHANGED <<mode, pending, key, lists, offsets, kids, items>> /\ pc' = "failed"
      BY <1>1, <2>2 DEF NewIter
    <3> QED
      BY <1>t, <1>h, <3>1 DEF Typed, TypeOK, OnlyKeys, IsCell
  <2> QED
    BY <2>1, <2>2
<1>2. CASE Exhausted
  BY <1>t, <1>h, <1>2 DEF Exhausted, Typed, TypeOK, OnlyKeys, IsCell
<1>3. CASE PopKey
  <2>1. pending \in Seq(Offsets) /\ pending # << >>
        /\ \A n \in 1 .. Len(pending) : pending[n] \in Keys
    BY <1>3, <1>t DEF PopKey, TypeOK, OnlyKeys
  <2>2. Popped \in Keys /\ Rest \in Seq(Offsets)
        /\ \A n \in 1 .. Len(Rest) : Rest[n] \in Keys
    <3>1. CASE mode = "bfs"
      BY <2>1, <3>1, TailMembers DEF Popped, Rest
    <3>2. CASE mode # "bfs"
      BY <2>1, <3>2, FrontMembers DEF Popped, Rest
    <3> QED
      BY <3>1, <3>2
  <2>3. ListOf(Popped) \in Seq(Links)
    BY <2>2, <1>t, CellTypes
  <2>4. key' = Popped /\ pending' = Rest /\ lists' = ListOf(Popped)
        /\ offsets' = << >> /\ kids' = << >> /\ pc' = "collect" /\ UNCHANGED <<mode, items>>
    BY <1>3 DEF PopKey
  <2>5. TypeOK'
    BY <1>t, <1>h, <2>2, <2>3, <2>4 DEF TypeOK, IsCell, Links
  <2>6. OnlyKeys'
    BY <1>t, <1>h, <2>2, <2>4 DEF OnlyKeys
  <2> QED
    BY <2>5, <2>6 DEF Typed
<1>4. CASE ReadList
  <2> DEFINE c == Cell(Head(lists))
             below == IF c.tag = "ri" THEN c.offs ELSE << >>
             found == IF c.tag = "leaf" THEN c.offs ELSE << >>
  <2>1. lists \in Seq(Links) /\ lists # << >> /\ Tag(Head(lists)) # "bad"
    BY <1>4, <1>t DEF ReadList, TypeOK
  <2>2. Head(lists) \in Links /\ Tail(lists) \in Seq(Links)
    BY <2>1, TailMembers
  <2>3. Head(lists) \in Offsets /\ c = hive[Head(lists)] /\ c.tag = Tag(Head(lists))
    BY <2>1, <2>2, <1>t, CellTypes DEF Tag
  <2>4. below \in Seq(Links) /\ found \in Seq(Links)
    BY <2>3, <1>t, CellTypes
  <2>5. lists' = below \o Tail(lists) /\ offsets' = offsets \o found
        /\ UNCHANGED <<mode, pc, pending, key, kids, items>>
    BY <1>4 DEF ReadList
  <2>6. lists' \in Seq(Links) /\ offsets' \in Seq(Links)
    <3> HIDE DEF below, found
    <3> QED BY <2>2, <2>4, <2>5, <1>t DEF TypeOK
  <2>7. TypeOK'
    BY <1>t, <1>h, <2>5, <2>6 DEF TypeOK, IsCell
  <2>8. OnlyKeys'
    BY <1>t, <1>h, <2>5 DEF OnlyKeys
  <2> QED
    BY <2>7, <2>8 DEF Typed
<1>5. CASE ListUnreadable
  BY <1>5, YieldErrorTyped DEF ListUnreadable
<1>6. CASE ListsRead
  <2>1. UNCHANGED <<mode, pending, key, lists, offsets, kids, items>>
        /\ pc = "collect" /\ pc' = "read"
    BY <1>6 DEF ListsRead
  <2> QED
    BY <1>t, <1>h, <2>1 DEF Typed, TypeOK, OnlyKeys, IsCell
<1>7. CASE ReadSubkey
  <2>1. offsets \in Seq(Links) /\ offsets # << >> /\ Tag(Head(offsets)) # "bad"
        /\ kids \in Seq(Offsets) /\ \A n \in 1 .. Len(kids) : kids[n] \in Keys
    BY <1>7, <1>t DEF ReadSubkey, TypeOK, OnlyKeys
  <2>2. Head(offsets) \in Links /\ Tail(offsets) \in Seq(Links)
    BY <2>1, TailMembers
  <2>3. Head(offsets) \in Offsets
    BY <2>1, <2>2, <1>t, CellTypes
  <2>4. kids' \in Seq(Offsets) /\ \A n \in 1 .. Len(kids') : kids'[n] \in Keys
    <3>1. CASE Tag(Head(offsets)) = "nk"
      <4>1. Head(offsets) \in Keys
        BY <2>3, <3>1
      <4>2. kids' = Append(kids, Head(offsets))
        BY <1>7, <3>1 DEF ReadSubkey
      <4> HIDE DEF Keys
      <4> QED
        BY <2>1, <2>3, <4>1, <4>2, AppendMembers
    <3>2. CASE Tag(Head(offsets)) # "nk"
      BY <1>7, <2>1, <3>2 DEF ReadSubkey
    <3> QED
      BY <3>1, <3>2
  <2>5. offsets' = Tail(offsets) /\ UNCHANGED <<mode, pc, pending, key, lists, items>>
    BY <1>7 DEF ReadSubkey
  <2>6. TypeOK'
    BY <1>t, <1>h, <2>2, <2>4, <2>5 DEF TypeOK, IsCell
  <2>7. OnlyKeys'
    BY <1>t, <1>h, <2>4, <2>5 DEF OnlyKeys
  <2> QED
    BY <2>6, <2>7 DEF Typed
<1>8. CASE SubkeyUnreadable
  BY <1>8, YieldErrorTyped DEF SubkeyUnreadable
<1>9. CASE YieldKey
  <2> DEFINE e == [key |-> key, ok |-> TRUE]
             added == IF mode = "bfs" THEN kids ELSE Reversed(kids)
  <2>1. UNCHANGED <<mode, key, lists, offsets, kids>> /\ pc = "read" /\ pc' = "ready"
        /\ pending' = pending \o added /\ items' = Append(items, e)
    BY <1>9 DEF YieldKey
  <2>2. pending \in Seq(Offsets) /\ kids \in Seq(Offsets) /\ items \in Seq(Item)
        /\ (\A n \in 1 .. Len(pending) : pending[n] \in Keys)
        /\ (\A n \in 1 .. Len(kids) : kids[n] \in Keys)
        /\ (\A n \in 1 .. Len(items) : items[n] \in {x \in Item : Tag(x.key) = "nk"})
    BY <1>t DEF TypeOK, OnlyKeys
  <2>3. added \in Seq(Offsets) /\ \A n \in 1 .. Len(added) : added[n] \in Keys
    <3> HIDE DEF Keys
    <3> QED BY <2>2, ReversedMembers
  <2>4. pending' \in Seq(Offsets) /\ \A n \in 1 .. Len(pending') : pending'[n] \in Keys
    <3> HIDE DEF Keys, added
    <3> QED BY <2>1, <2>2, <2>3, ConcatMembers
  <2>5. e \in Item /\ Tag(e.key) = "nk"
    BY <1>t, <2>1 DEF TypeOK, OnlyKeys, Item
  <2>6. items' \in Seq(Item)
        /\ \A n \in 1 .. Len(items') : items'[n] \in {x \in Item : Tag(x.key) = "nk"}
    BY <2>1, <2>2, <2>5, AppendMembers
  <2>7. TypeOK'
    BY <1>t, <1>h, <2>1, <2>4, <2>6 DEF TypeOK, IsCell
  <2>8. OnlyKeys'
    BY <1>t, <1>h, <2>1, <2>4, <2>6 DEF OnlyKeys
  <2> QED
    BY <2>7, <2>8 DEF Typed
<1>10. CASE UNCHANGED vars
  BY <1>t, <1>h, <1>10 DEF vars, Typed, TypeOK, OnlyKeys, IsCell
<1> QED
  BY <1>1, <1>2, <1>3, <1>4, <1>5, <1>6, <1>7, <1>8, <1>9, <1>10 DEF Next

-----------------------------------------------------------------------------
\* Everything the walk holds lies in S.
Within(S) ==
  /\ \A n \in 1 .. Len(pending) : pending[n] \in S
  /\ \A n \in 1 .. Len(kids) : kids[n] \in S
  /\ \A n \in 1 .. Len(lists) : lists[n] \in S
  /\ \A n \in 1 .. Len(offsets) : offsets[n] \in S
  /\ \A n \in 1 .. Len(items) : items[n].key \in S
  /\ pc \in {"collect", "read"} => key \in S

\* The inductive invariant: OnlyReachable for the whole of the walk's state,
\* and not just for what it has returned.
IInv == Typed /\ \A S \in SUBSET Links : Closed(S) => Within(S)

\* Returning an error drops the children of one key and reaches no new offset.
LEMMA YieldErrorWithin ==
  ASSUME Typed, NEW S, Within(S), pc \in {"collect", "read"}, YieldError
  PROVE  Within(S)'
<1> DEFINE e == [key |-> key, ok |-> FALSE]
<1>1. UNCHANGED <<hive, mode, pending, key, lists, offsets, kids>>
      /\ items' = Append(items, e) /\ pc' = "ready"
  BY DEF YieldError
<1>2. e \in Item /\ items \in Seq(Item)
  BY DEF Typed, TypeOK, OnlyKeys, Item
<1>3. \A n \in 1 .. Len(items') : items'[n] \in {x \in Item : x.key \in S}
  <2>1. \A n \in 1 .. Len(items) : items[n] \in {x \in Item : x.key \in S}
    BY <1>2 DEF Within
  <2>2. e \in {x \in Item : x.key \in S}
    BY <1>2 DEF Within
  <2> QED
    BY <1>1, <1>2, <2>1, <2>2, AppendMembers
<1> QED
  BY <1>1, <1>3 DEF Within

\* Every step stays within the offsets that the root leads to.
LEMMA NextWithin ==
  ASSUME Typed, [Next]_vars, NEW S \in SUBSET Links, Closed(S), Within(S)
  PROVE  Within(S)'
<1>t. TypeOK /\ OnlyKeys
  BY DEF Typed
<1>1. CASE NewIter
  <2>1. UNCHANGED <<key, lists, offsets, kids, items>> /\ pc' \in {"ready", "failed"}
        /\ (pending' = <<Root>> \/ pending' = pending)
    BY <1>1 DEF NewIter
  <2>2. Root \in S
    BY DEF Closed
  <2>3. \A n \in 1 .. Len(pending') : pending'[n] \in S
    BY <2>1, <2>2 DEF Within
  <2> QED
    BY <2>1, <2>3 DEF Within
<1>2. CASE Exhausted
  BY <1>2 DEF Exhausted, Within
<1>3. CASE PopKey
  <2>1. pending \in Seq(Offsets) /\ pending # << >>
        /\ (\A n \in 1 .. Len(pending) : pending[n] \in S)
        /\ (\A n \in 1 .. Len(pending) : Tag(pending[n]) = "nk")
    BY <1>3, <1>t DEF PopKey, TypeOK, OnlyKeys, Within
  <2>2. Popped \in S /\ Popped \in Offsets /\ Tag(Popped) = "nk"
        /\ \A n \in 1 .. Len(Rest) : Rest[n] \in S
    <3>1. CASE mode = "bfs"
      BY <2>1, <3>1, TailMembers DEF Popped, Rest
    <3>2. CASE mode # "bfs"
      BY <2>1, <3>2, FrontMembers DEF Popped, Rest
    <3> QED
      BY <3>1, <3>2
  <2>3. hive[Popped].tag = "nk"
    BY <2>2, HivesAssumption DEF Tag, Cell
  <2>4. hive[Popped].count # 0 => hive[Popped].list \in S
    BY <2>2, <2>3 DEF Closed
  <2>5. \A n \in 1 .. Len(ListOf(Popped)) : ListOf(Popped)[n] \in S
    BY <2>4 DEF ListOf
  <2>6. key' = Popped /\ pending' = Rest /\ lists' = ListOf(Popped)
        /\ offsets' = << >> /\ kids' = << >> /\ UNCHANGED items
    BY <1>3 DEF PopKey
  <2> QED
    BY <2>2, <2>5, <2>6 DEF Within
<1>4. CASE ReadList
  <2> DEFINE c == Cell(Head(lists))
             below == IF c.tag = "ri" THEN c.offs ELSE << >>
             found == IF c.tag = "leaf" THEN c.offs ELSE << >>
  <2>1. lists \in Seq(Links) /\ lists # << >> /\ Tag(Head(lists)) # "bad"
        /\ offsets \in Seq(Links)
    BY <1>4, <1>t DEF ReadList, TypeOK
  <2>2. Head(lists) \in Links /\ Tail(lists) \in Seq(Links) /\ Head(lists) \in S
        /\ \A n \in 1 .. Len(Tail(lists)) : Tail(lists)[n] \in S
    BY <2>1, TailMembers DEF Within
  <2>3. Head(lists) \in Offsets /\ c = hive[Head(lists)] /\ c.tag = Tag(Head(lists))
    BY <2>1, <2>2, <1>t, CellTypes DEF Tag
  <2>4. c.tag \in {"leaf", "ri"} => c.offs \in Seq(Links) /\ \A n \in 1 .. Len(c.offs) : c.offs[n] \in S
    BY <2>2, <2>3, <1>t, CellTypes DEF Closed
  <2>5. /\ below \in Seq(Links) /\ \A n \in 1 .. Len(below) : below[n] \in S
        /\ found \in Seq(Links) /\ \A n \in 1 .. Len(found) : found[n] \in S
    BY <2>4
  <2>6. lists' = below \o Tail(lists) /\ offsets' = offsets \o found
        /\ UNCHANGED <<pc, pending, key, kids, items>>
    BY <1>4 DEF ReadList
  <2>7. \A n \in 1 .. Len(offsets) : offsets[n] \in S
    BY DEF Within
  <2> HIDE DEF below, found
  <2>8. \A n \in 1 .. Len(lists') : lists'[n] \in S
    BY <2>2, <2>5, <2>6, ConcatMembers
  <2>9. \A n \in 1 .. Len(offsets') : offsets'[n] \in S
    BY <2>1, <2>5, <2>6, <2>7, ConcatMembers
  <2> QED
    BY <2>6, <2>8, <2>9 DEF Within
<1>5. CASE ListUnreadable
  BY <1>5, YieldErrorWithin DEF ListUnreadable
<1>6. CASE ListsRead
  BY <1>6 DEF ListsRead, Within
<1>7. CASE ReadSubkey
  <2>1. offsets \in Seq(Links) /\ offsets # << >> /\ Tag(Head(offsets)) # "bad"
        /\ kids \in Seq(Offsets)
    BY <1>7, <1>t DEF ReadSubkey, TypeOK
  <2>2. Head(offsets) \in Links /\ Head(offsets) \in S
        /\ \A n \in 1 .. Len(Tail(offsets)) : Tail(offsets)[n] \in S
    BY <2>1, TailMembers DEF Within
  <2>3. Head(offsets) \in Offsets
    BY <2>1, <2>2, <1>t, CellTypes
  <2>4. kids' = Append(kids, Head(offsets)) \/ kids' = kids
    BY <1>7 DEF ReadSubkey
  <2>5. \A n \in 1 .. Len(kids') : kids'[n] \in S
    <3>1. \A n \in 1 .. Len(kids) : kids[n] \in S
      BY DEF Within
    <3> QED
      BY <2>1, <2>2, <2>3, <2>4, <3>1, AppendMembers
  <2>6. offsets' = Tail(offsets) /\ UNCHANGED <<pc, pending, key, lists, items>>
    BY <1>7 DEF ReadSubkey
  <2> QED
    BY <2>2, <2>5, <2>6 DEF Within
<1>8. CASE SubkeyUnreadable
  BY <1>8, YieldErrorWithin DEF SubkeyUnreadable
<1>9. CASE YieldKey
  <2> DEFINE e == [key |-> key, ok |-> TRUE]
             added == IF mode = "bfs" THEN kids ELSE Reversed(kids)
  <2>1. UNCHANGED <<key, lists, offsets, kids>> /\ pc = "read" /\ pc' = "ready"
        /\ pending' = pending \o added /\ items' = Append(items, e)
    BY <1>9 DEF YieldKey
  <2>2. pending \in Seq(Offsets) /\ kids \in Seq(Offsets) /\ items \in Seq(Item)
        /\ (\A n \in 1 .. Len(pending) : pending[n] \in S)
        /\ (\A n \in 1 .. Len(kids) : kids[n] \in S)
        /\ (\A n \in 1 .. Len(items) : items[n] \in {x \in Item : x.key \in S})
    BY <1>t DEF TypeOK, Within
  <2>3. added \in Seq(Offsets) /\ \A n \in 1 .. Len(added) : added[n] \in S
    BY <2>2, ReversedMembers
  <2>4. \A n \in 1 .. Len(pending') : pending'[n] \in S
    <3> HIDE DEF added
    <3> QED BY <2>1, <2>2, <2>3, ConcatMembers
  <2>5. e \in Item /\ e \in {x \in Item : x.key \in S}
    BY <1>t, <2>1 DEF TypeOK, Within, Item
  <2>6. \A n \in 1 .. Len(items') : items'[n] \in {x \in Item : x.key \in S}
    BY <2>1, <2>2, <2>5, AppendMembers
  <2> QED
    BY <2>1, <2>4, <2>6 DEF Within
<1>10. CASE UNCHANGED vars
  BY <1>10 DEF vars, Within
<1> QED
  BY <1>1, <1>2, <1>3, <1>4, <1>5, <1>6, <1>7, <1>8, <1>9, <1>10 DEF Next

\* Before an iterator is made nothing is queued and nothing was returned.
LEMMA InitIInv == Init => IInv
<1> SUFFICES ASSUME Init PROVE IInv
  OBVIOUS
<1>1. \A S \in SUBSET Links : Within(S)
  BY DEF Init, Within
<1> QED
  BY <1>1, InitTyped DEF IInv

\* Every step of an iterator keeps the inductive invariant.
LEMMA NextIInv == IInv /\ [Next]_vars => IInv'
<1> SUFFICES ASSUME IInv, [Next]_vars PROVE IInv'
  OBVIOUS
<1>1. Typed /\ Typed'
  BY NextTyped DEF IInv
<1>2. ASSUME NEW S \in SUBSET Links, Closed(S)' PROVE Within(S)'
  <2>1. Closed(S)
    BY <1>2, HiveUnchanged DEF Closed
  <2>2. Within(S)
    BY <2>1 DEF IInv
  <2> QED
    BY <1>1, <2>1, <2>2, NextWithin
<1> QED
  BY <1>1, <1>2 DEF IInv

\* Every state of every walk, of BfsIter or DfsIter, over any cells satisfies
\* the inductive invariant.
THEOREM Invariance == Spec => []IInv
  BY InitIInv, NextIInv, PTL DEF Spec

\* Types are kept.
THEOREM WalkTypeCorrect == Spec => []TypeOK
<1>1. IInv => TypeOK
  BY DEF IInv, Typed
<1> QED
  BY <1>1, Invariance, PTL

\* The iterators return, queue and collect nothing but nk cells, whatever the
\* subkey lists of the hive refer to.
THEOREM WalkOnlyKeys == Spec => []OnlyKeys
<1>1. IInv => OnlyKeys
  BY DEF IInv, Typed
<1> QED
  BY <1>1, Invariance, PTL

\* The iterators return nothing that the root key does not lead to through
\* subkey lists: an unlinked key never shows up in a walk.
THEOREM WalkOnlyReachable == Spec => []OnlyReachable
<1>1. IInv => OnlyReachable
  BY DEF IInv, Within, OnlyReachable
<1> QED
  BY <1>1, Invariance, PTL

-----------------------------------------------------------------------------
\* What stands in a sequence and in its parts.
LEMMA PartsOfRange ==
  ASSUME NEW S, NEW s \in Seq(S)
  PROVE  /\ Range(s) \subseteq S
         /\ s # << >> => Range(s) = {Head(s)} \union Range(Tail(s))
         /\ s # << >> => Range(s) = {s[Len(s)]} \union Range(SubSeq(s, 1, Len(s) - 1))
         /\ \A e \in S : Range(Append(s, e)) = Range(s) \union {e}
         /\ Range(Reversed(s)) = Range(s)
<1>1. Range(s) \subseteq S
  BY DEF Range
<1>2. ASSUME s # << >> PROVE Range(s) = {Head(s)} \union Range(Tail(s))
  <2>1. /\ Len(s) \in Nat \ {0} /\ Head(s) = s[1] /\ DOMAIN s = 1 .. Len(s)
        /\ DOMAIN Tail(s) = 1 .. Len(s) - 1
        /\ \A n \in 1 .. Len(s) - 1 : Tail(s)[n] = s[n + 1]
    BY <1>2
  <2>2. \A n \in 1 .. Len(s) : n = 1 \/ (n - 1 \in 1 .. Len(s) - 1 /\ (n - 1) + 1 = n)
    BY <2>1
  <2>3. \A n \in 1 .. Len(s) - 1 : n + 1 \in 1 .. Len(s)
    BY <2>1
  <2>4. 1 \in 1 .. Len(s)
    BY <2>1
  <2>5. ASSUME NEW x \in Range(s) PROVE x \in {Head(s)} \union Range(Tail(s))
    <3>1. PICK n \in 1 .. Len(s) : x = s[n]
      BY <2>1 DEF Range
    <3>2. n # 1 => Tail(s)[n - 1] = x
      BY <2>1, <2>2, <3>1
    <3> QED
      BY <2>1, <2>2, <3>1, <3>2 DEF Range
  <2>6. ASSUME NEW x \in Range(Tail(s)) PROVE x \in Range(s)
    <3>1. PICK n \in 1 .. Len(s) - 1 : x = Tail(s)[n]
      BY <2>1, <2>6 DEF Range
    <3>2. n + 1 \in DOMAIN s /\ s[n + 1] = x
      BY <2>1, <2>3, <3>1
    <3> QED
      BY <3>2 DEF Range
  <2>7. Head(s) \in Range(s)
    BY <2>1, <2>4 DEF Range
  <2> QED
    BY <2>5, <2>6, <2>7
<1>3. ASSUME s # << >> PROVE Range(s) = {s[Len(s)]} \union Range(SubSeq(s, 1, Len(s) - 1))
  <2> DEFINE f == SubSeq(s, 1, Len(s) - 1)
  <2>1. /\ Len(s) \in Nat \ {0} /\ DOMAIN s = 1 .. Len(s) /\ DOMAIN f = 1 .. Len(s) - 1
        /\ \A n \in 1 .. Len(s) - 1 : f[n] = s[n]
    BY <1>3
  <2> DEFINE l == Len(s)
  <2>2. l \in Nat \ {0} /\ l = Len(s)
    BY <2>1
  <2>5. DOMAIN s = 1 .. l /\ DOMAIN f = 1 .. l - 1 /\ \A n \in 1 .. l - 1 : f[n] = s[n]
    BY <2>1
  <2> HIDE DEF f, l
  <2>3. l \in 1 .. l /\ \A n \in 1 .. l : n = l \/ n \in 1 .. l - 1
    BY <2>2
  <2>4. \A n \in 1 .. l - 1 : n \in 1 .. l
    BY <2>2
  <2>6. \A x \in Range(s) : x \in {s[l]} \union Range(f)
    <3> TAKE x \in Range(s)
    <3>1. PICK n \in 1 .. l : x = s[n]
      BY <2>5 DEF Range
    <3>2. CASE n = l
      BY <3>1, <3>2
    <3>3. CASE n \in 1 .. l - 1
      BY <2>5, <3>1, <3>3 DEF Range
    <3> QED
      BY <2>3, <3>2, <3>3
  <2>7. Range(f) \subseteq Range(s) /\ s[l] \in Range(s)
    BY <2>3, <2>4, <2>5 DEF Range
  <2> QED
    BY <2>2, <2>6, <2>7 DEF f
<1>4. ASSUME NEW e \in S PROVE Range(Append(s, e)) = Range(s) \union {e}
  <2> DEFINE a == Append(s, e)
  <2>1. /\ Len(s) \in Nat /\ DOMAIN s = 1 .. Len(s) /\ DOMAIN a = 1 .. Len(s) + 1
        /\ (\A n \in 1 .. Len(s) : a[n] = s[n]) /\ a[Len(s) + 1] = e
    OBVIOUS
  <2> HIDE DEF a
  <2>2. /\ Len(s) + 1 \in 1 .. Len(s) + 1
        /\ \A n \in 1 .. Len(s) + 1 : n = Len(s) + 1 \/ n \in 1 .. Len(s)
        /\ \A n \in 1 .. Len(s) : n \in 1 .. Len(s) + 1
    BY <2>1
  <2>3. Range(a) = Range(s) \union {e}
    BY <2>1, <2>2 DEF Range
  <2> QED
    BY <2>3 DEF a
<1>5. Range(Reversed(s)) = Range(s)
  <2>1. /\ Len(s) \in Nat /\ DOMAIN s = 1 .. Len(s) /\ DOMAIN Reversed(s) = 1 .. Len(s)
        /\ \A n \in 1 .. Len(s) : Reversed(s)[n] = s[Len(s) + 1 - n]
    BY DEF Reversed
  <2>2. \A n \in 1 .. Len(s) : /\ Len(s) + 1 - n \in 1 .. Len(s)
                               /\ Len(s) + 1 - (Len(s) + 1 - n) = n
    BY <2>1
  <2>3. \A x \in Range(s) : x \in Range(Reversed(s))
    <3> TAKE x \in Range(s)
    <3>1. PICK n \in 1 .. Len(s) : x = s[n]
      BY <2>1 DEF Range
    <3>2. PICK m \in 1 .. Len(s) : Len(s) + 1 - m = n
      BY <2>2
    <3>3. Reversed(s)[m] = x
      BY <2>1, <3>1, <3>2
    <3> QED
      BY <2>1, <3>3 DEF Range
  <2>4. \A x \in Range(Reversed(s)) : x \in Range(s)
    BY <2>1, <2>2 DEF Range
  <2> QED
    BY <2>3, <2>4
<1> QED
  BY <1>1, <1>2, <1>3, <1>4, <1>5

\* What stands in a concatenation stands in one of its parts.
LEMMA RangeOfConcat ==
  ASSUME NEW S, NEW s \in Seq(S), NEW t \in Seq(S)
  PROVE  Range(s \o t) = Range(s) \union Range(t)
<1> DEFINE st == s \o t
<1>1. /\ Len(s) \in Nat /\ Len(t) \in Nat /\ DOMAIN s = 1 .. Len(s) /\ DOMAIN t = 1 .. Len(t)
      /\ DOMAIN st = 1 .. Len(s) + Len(t)
      /\ \A n \in 1 .. Len(s) : st[n] = s[n]
      /\ \A n \in 1 .. Len(t) : st[Len(s) + n] = t[n]
  OBVIOUS
<1> HIDE DEF st
<1>2. /\ \A n \in 1 .. Len(s) : n \in 1 .. Len(s) + Len(t)
      /\ \A n \in 1 .. Len(t) : Len(s) + n \in 1 .. Len(s) + Len(t)
      /\ \A n \in 1 .. Len(s) + Len(t) :
           n \in 1 .. Len(s) \/ (n - Len(s) \in 1 .. Len(t) /\ Len(s) + (n - Len(s)) = n)
  BY <1>1
<1>3. Range(s) \subseteq Range(st) /\ Range(t) \subseteq Range(st)
  <2>1. ASSUME NEW x \in Range(s) PROVE x \in Range(st)
    <3>1. PICK n \in 1 .. Len(s) : x = s[n]
      BY <1>1, <2>1 DEF Range
    <3>2. n \in DOMAIN st /\ st[n] = x
      BY <1>1, <1>2, <3>1
    <3> QED
      BY <3>2 DEF Range
  <2>2. ASSUME NEW x \in Range(t) PROVE x \in Range(st)
    <3>1. PICK n \in 1 .. Len(t) : x = t[n]
      BY <1>1, <2>2 DEF Range
    <3>2. Len(s) + n \in DOMAIN st /\ st[Len(s) + n] = x
      BY <1>1, <1>2, <3>1
    <3> QED
      BY <3>2 DEF Range
  <2> QED
    BY <2>1, <2>2
<1>4. \A x \in Range(st) : x \in Range(s) \union Range(t)
  <2> TAKE x \in Range(st)
  <2>1. PICK n \in 1 .. Len(s) + Len(t) : x = st[n]
    BY <1>1 DEF Range
  <2>2. CASE n \in 1 .. Len(s)
    BY <1>1, <2>1, <2>2 DEF Range
  <2>3. CASE n \notin 1 .. Len(s)
    <3>1. PICK m \in 1 .. Len(t) : Len(s) + m = n
      BY <1>2, <2>3
    <3>2. t[m] = x
      BY <1>1, <2>1, <3>1
    <3> QED
      BY <1>1, <3>2 DEF Range
  <2> QED
    BY <2>2, <2>3
<1>5. Range(st) = Range(s) \union Range(t)
  BY <1>3, <1>4
<1> QED
  BY <1>5 DEF st

\* R holds the lists of the key that have been read: what they list is still
\* to be read or was found to be readable, and the keys among it are gathered.
Gathered(R) ==
  /\ Range(ListOf(key)) \subseteq R \union Range(lists)
  /\ \A o \in R :
       /\ Tag(o) # "bad"
       /\ Tag(o) = "ri" => Range(hive[o].offs) \subseteq R \union Range(lists)
       /\ Tag(o) = "leaf" => \A c \in Range(hive[o].offs) :
            c \in Range(offsets) \/ (Tag(c) # "bad" /\ (Tag(c) = "nk" => c \in Range(kids)))

\* What is yet to be read is part of what the key leads to.
Ahead(R) ==
  Follows(key, R, Links) => /\ Range(lists) \subseteq R
                            /\ \A c \in Range(offsets) : Tag(c) # "bad"

\* Nothing is returned before the walk begins; in a call of subkeys all lists
\* are read before the first key is.
SubkeysInv ==
  /\ pc = "new" => items = << >>
  /\ pc \in {"collect", "read"} =>
       /\ pc = "read" => lists = << >>
       /\ \E R \in SUBSET Links : Gathered(R)
       /\ \A R \in SUBSET Links : Ahead(R)

\* Every step of a call of subkeys keeps account of the lists it has read.
LEMMA NextSubkeysInv == Typed /\ SubkeysInv /\ [Next]_vars => SubkeysInv'
<1> SUFFICES ASSUME Typed, SubkeysInv, [Next]_vars PROVE SubkeysInv'
  OBVIOUS
<1> USE HivesAssumption
<1>t. TypeOK
  BY DEF Typed
<1>h. UNCHANGED hive /\ \A o : Tag(o)' = Tag(o)
  BY HiveUnchanged
<1>1. CASE NewIter
  <2>1. pc' \in {"ready", "failed"}
    BY <1>1 DEF NewIter
  <2> QED
    BY <2>1 DEF SubkeysInv
<1>2. CASE Exhausted
  <2>1. pc' = "done"
    BY <1>2 DEF Exhausted
  <2> QED
    BY <2>1 DEF SubkeysInv
<1>3. CASE PopKey
  <2>1. /\ key' = Popped /\ lists' = ListOf(Popped) /\ offsets' = << >> /\ kids' = << >>
        /\ pc' = "collect"
    BY <1>3 DEF PopKey
  <2>2. PICK k : k = Popped
    OBVIOUS
  <2>3. ListOf(k)' = lists' /\ key' = k
    BY <1>h, <2>1, <2>2 DEF ListOf
  <2>4. ListOf(key)' = lists'
    BY <2>3 DEF ListOf
  <2>5. Range(offsets') = {}
    BY <2>1 DEF Range
  <2>6. Gathered({})'
    BY <2>4 DEF Gathered
  <2>7. \A R \in SUBSET Links : Ahead(R)'
    BY <2>4, <2>5 DEF Ahead, Follows
  <2> QED
    BY <2>1, <2>6, <2>7 DEF SubkeysInv
<1>4. CASE ReadList
  <2> DEFINE c == Cell(Head(lists))
             below == IF c.tag = "ri" THEN c.offs ELSE << >>
             found == IF c.tag = "leaf" THEN c.offs ELSE << >>
  <2>1. /\ lists \in Seq(Links) /\ lists # << >> /\ Tag(Head(lists)) # "bad"
        /\ offsets \in Seq(Links) /\ pc = "collect"
    BY <1>4, <1>t DEF ReadList, TypeOK
  <2>2. Head(lists) \in Links /\ Tail(lists) \in Seq(Links)
    BY <2>1, TailMembers
  <2>3. Head(lists) \in Offsets /\ c = hive[Head(lists)] /\ c.tag = Tag(Head(lists))
    BY <2>1, <2>2, <1>t, CellTypes DEF Tag
  <2>4. below \in Seq(Links) /\ found \in Seq(Links)
    BY <2>3, <1>t, CellTypes
  <2>5. /\ lists' = below \o Tail(lists) /\ offsets' = offsets \o found
        /\ UNCHANGED <<pc, key, kids>>
    BY <1>4 DEF ReadList
  <2>6. /\ Range(lists) = {Head(lists)} \union Range(Tail(lists))
        /\ Range(lists') = Range(below) \union Range(Tail(lists))
        /\ Range(offsets') = Range(offsets) \union Range(found)
    <3> HIDE DEF below, found
    <3>1. Range(lists) = {Head(lists)} \union Range(Tail(lists))
      BY <2>1, PartsOfRange
    <3>2. Range(lists') = Range(below) \union Range(Tail(lists))
      <4>1. PICK b \in Seq(Links), t \in Seq(Links) : b = below /\ t = Tail(lists)
        BY <2>2, <2>4
      <4>2. Range(b \o t) = Range(b) \union Range(t)
        BY RangeOfConcat
      <4> QED
        BY <2>5, <4>1, <4>2
    <3>3. Range(offsets') = Range(offsets) \union Range(found)
      BY <2>1, <2>4, <2>5, RangeOfConcat
    <3> QED
      BY <3>1, <3>2, <3>3
  <2>7. PICK h : h = Head(lists)
    OBVIOUS
  <2>8. /\ h \in Links /\ Tag(h) # "bad"
        /\ Tag(h) = "ri" => Range(hive[h].offs) = Range(below)
        /\ Tag(h) # "ri" => Range(below) = {}
        /\ Tag(h) = "leaf" => Range(hive[h].offs) = Range(found)
        /\ Tag(h) # "leaf" => Range(found) = {}
    BY <2>1, <2>2, <2>3, <2>7 DEF Range
  <2> HIDE DEF below, found, c
  <2>9. \E R \in SUBSET Links : Gathered(R)'
    <3>1. PICK R \in SUBSET Links : Gathered(R)
      BY <2>1 DEF SubkeysInv
    <3> DEFINE Q == R \union {h}
    <3>2. R \union Range(lists) \subseteq Q \union Range(lists')
      BY <2>6, <2>7
    <3>3. Range(ListOf(key))' \subseteq Q \union Range(lists')
      BY <1>h, <2>5, <3>1, <3>2 DEF Gathered, ListOf
    <3>4. ASSUME NEW o \in Q
          PROVE  /\ Tag(o) # "bad"
                 /\ Tag(o) = "ri" => Range(hive[o].offs) \subseteq Q \union Range(lists')
                 /\ Tag(o) = "leaf" => \A d \in Range(hive[o].offs) :
                      d \in Range(offsets') \/ (Tag(d) # "bad" /\ (Tag(d) = "nk" => d \in Range(kids)))
      <4>1. CASE o \in R
        BY <2>6, <3>1, <3>2, <4>1 DEF Gathered
      <4>2. CASE o = h
        BY <2>6, <2>8, <4>2
      <4> QED
        BY <4>1, <4>2
    <3>5. Gathered(Q)'
      <4> HIDE DEF Q
      <4> QED BY <1>h, <2>5, <3>3, <3>4 DEF Gathered
    <3>6. Q \in SUBSET Links
      BY <2>8
    <3> QED
      BY <3>5, <3>6
  <2>10. ASSUME NEW R \in SUBSET Links PROVE Ahead(R)'
    <3> SUFFICES ASSUME Follows(key, R, Links)'
                 PROVE  Range(lists') \subseteq R /\ \A d \in Range(offsets') : Tag(d) # "bad"
      BY <1>h DEF Ahead
    <3>1. Follows(key, R, Links)
      BY <1>h, <2>5 DEF Follows, ListOf
    <3>2. Range(lists) \subseteq R /\ \A d \in Range(offsets) : Tag(d) # "bad"
      BY <2>1, <3>1 DEF SubkeysInv, Ahead
    <3>3. h \in R
      BY <2>6, <2>7, <3>2
    <3>4. Range(below) \subseteq R /\ \A d \in Range(found) : Tag(d) # "bad"
      BY <2>8, <3>1, <3>3 DEF Follows
    <3> QED
      BY <2>6, <3>2, <3>4
  <2> QED
    BY <2>1, <2>5, <2>9, <2>10 DEF SubkeysInv
<1>5. CASE ListUnreadable
  <2>1. pc' = "ready"
    BY <1>5 DEF ListUnreadable, YieldError
  <2> QED
    BY <2>1 DEF SubkeysInv
<1>6. CASE ListsRead
  <2>1. /\ pc = "collect" /\ pc' = "read" /\ lists = << >>
        /\ UNCHANGED <<key, lists, offsets, kids>>
    BY <1>6 DEF ListsRead
  <2>2. \E R \in SUBSET Links : Gathered(R)'
    BY <1>h, <2>1 DEF SubkeysInv, Gathered, ListOf
  <2>3. \A R \in SUBSET Links : Ahead(R)'
    BY <1>h, <2>1 DEF SubkeysInv, Ahead, Follows, ListOf
  <2> QED
    BY <2>1, <2>2, <2>3 DEF SubkeysInv
<1>7. CASE ReadSubkey
  <2>1. /\ offsets \in Seq(Links) /\ offsets # << >> /\ Tag(Head(offsets)) # "bad"
        /\ kids \in Seq(Offsets) /\ pc = "read"
    BY <1>7, <1>t DEF ReadSubkey, TypeOK
  <2>2. Head(offsets) \in Offsets
    BY <2>1, <1>t, TailMembers, CellTypes
  <2>3. /\ offsets' = Tail(offsets) /\ UNCHANGED <<pc, key, lists>>
        /\ kids' = IF Tag(Head(offsets)) = "nk" THEN Append(kids, Head(offsets)) ELSE kids
    BY <1>7 DEF ReadSubkey
  <2>4. /\ Range(offsets) = {Head(offsets)} \union Range(offsets')
        /\ Range(kids) \subseteq Range(kids')
        /\ Tag(Head(offsets)) = "nk" => Head(offsets) \in Range(kids')
    BY <2>1, <2>2, <2>3, PartsOfRange
  <2>5. \E R \in SUBSET Links : Gathered(R)'
    <3>1. PICK R \in SUBSET Links : Gathered(R)
      BY <2>1 DEF SubkeysInv
    <3>2. Gathered(R)'
      BY <1>h, <2>1, <2>3, <2>4, <3>1 DEF Gathered, ListOf
    <3> QED
      BY <3>2
  <2>6. ASSUME NEW R \in SUBSET Links PROVE Ahead(R)'
    <3>1. Ahead(R)
      BY <2>1 DEF SubkeysInv
    <3> QED
      BY <1>h, <2>3, <2>4, <3>1 DEF Ahead, Follows, ListOf
  <2> QED
    BY <2>1, <2>3, <2>5, <2>6 DEF SubkeysInv
<1>8. CASE SubkeyUnreadable
  <2>1. pc' = "ready"
    BY <1>8 DEF SubkeyUnreadable, YieldError
  <2> QED
    BY <2>1 DEF SubkeysInv
<1>9. CASE YieldKey
  <2>1. pc' = "ready"
    BY <1>9 DEF YieldKey
  <2> QED
    BY <2>1 DEF SubkeysInv
<1>10. CASE UNCHANGED vars
  <2>1. UNCHANGED <<pc, key, lists, offsets, kids, items>>
    BY <1>10 DEF vars
  <2> QED
    BY <1>h, <2>1 DEF SubkeysInv, Gathered, Ahead, Follows, ListOf
<1> QED
  BY <1>1, <1>2, <1>3, <1>4, <1>5, <1>6, <1>7, <1>8, <1>9, <1>10 DEF Next

-----------------------------------------------------------------------------
\* A key that has all its subkeys among T has them among any more.
LEMMA FollowedGrows ==
  ASSUME NEW x, NEW T, NEW U, T \subseteq U, Followed(x, T)
  PROVE  Followed(x, U)
  BY DEF Followed, Follows

\* Whether a key has been followed depends on the hive, which nobody writes.
LEMMA FollowedLater ==
  ASSUME UNCHANGED hive, NEW x, NEW U, Followed(x, U)
  PROVE  Followed(x, U)'
<1>1. \A o : Tag(o)' = Tag(o) /\ ListOf(o)' = ListOf(o)
  BY DEF Tag, Cell, ListOf
<1>2. \A R, T : Follows(x.key, R, T)' <=> Follows(x.key, R, T)
  BY <1>1 DEF Follows
<1> QED
  BY <1>2 DEF Followed

\* A step that keeps every key in sight keeps what was returned followed.
LEMMA StillFollowed ==
  ASSUME UNCHANGED hive, NEW U, U = Seen',
         \A n \in DOMAIN items' : Followed(items'[n], U)
  PROVE  (\A n \in DOMAIN items : Followed(items[n], Seen))'
<1>1. ASSUME NEW n \in DOMAIN items', NEW x, x = items'[n] PROVE Followed(x, U)'
  <2>1. Followed(x, U)
    BY <1>1 DEF Followed, Follows
  <2> QED
    BY <2>1, FollowedLater
<1> QED
  BY <1>1 DEF Followed

\* The keys in sight, as a union of three sets.
LEMMA SeenParts ==
  ASSUME TypeOK
  PROVE  /\ {items[n].key : n \in DOMAIN items} \subseteq Seen
         /\ Range(pending) \subseteq Seen
         /\ pc \in {"collect", "read"} => key \in Seen
  BY DEF Seen

\* A step that appends what next returns to the items.
LEMMA ItemsGrow ==
  ASSUME items \in Seq(Item), NEW e \in Item, items' = Append(items, e)
  PROVE  /\ {items'[n].key : n \in DOMAIN items'} = {items[n].key : n \in DOMAIN items} \union {e.key}
         /\ \A n \in DOMAIN items' : items'[n] = e \/ \E m \in DOMAIN items : items'[n] = items[m]
<1>1. /\ DOMAIN items = 1 .. Len(items) /\ DOMAIN items' = 1 .. Len(items) + 1
      /\ Len(items) \in Nat /\ items'[Len(items) + 1] = e
      /\ \A n \in 1 .. Len(items) : items'[n] = items[n]
  OBVIOUS
<1>2. /\ Len(items) + 1 \in 1 .. Len(items) + 1
      /\ \A n \in 1 .. Len(items) + 1 : n = Len(items) + 1 \/ n \in 1 .. Len(items)
      /\ \A n \in 1 .. Len(items) : n \in 1 .. Len(items) + 1
  BY <1>1
<1>3. ASSUME NEW n \in DOMAIN items'
      PROVE  items'[n] = e \/ \E m \in DOMAIN items : items'[n] = items[m]
  BY <1>1, <1>2
<1>4. \A n \in DOMAIN items : n \in DOMAIN items' /\ items'[n] = items[n]
  BY <1>1, <1>2
<1>5. Len(items) + 1 \in DOMAIN items'
  BY <1>1, <1>2
<1> QED
  BY <1>1, <1>3, <1>4, <1>5

\* A key whose lists have all been read, and all its subkeys with them, has its
\* subkeys among those gathered.
LEMMA AllGathered ==
  ASSUME Typed, SubkeysInv, pc = "read", offsets = << >>
  PROVE  \E R \in SUBSET Links : Follows(key, R, Range(kids))
<1>1. lists = << >> /\ Range(lists) = {} /\ Range(offsets) = {}
  BY DEF SubkeysInv, Range
<1>2. PICK R \in SUBSET Links : Gathered(R)
  BY DEF SubkeysInv
<1>3. Follows(key, R, Range(kids))
  BY <1>1, <1>2 DEF Gathered, Follows
<1> QED
  BY <1>3

\* A key for which an error is returned has lists or subkeys that nobody could
\* read.
LEMMA ErrorsAreTrue ==
  ASSUME Typed, SubkeysInv, ListUnreadable \/ SubkeyUnreadable
  PROVE  \A R \in SUBSET Links : ~Follows(key, R, Links)
<1> SUFFICES ASSUME NEW R \in SUBSET Links, Follows(key, R, Links) PROVE FALSE
  OBVIOUS
<1>1. /\ Range(lists) \subseteq R /\ \A c \in Range(offsets) : Tag(c) # "bad"
      /\ \A o \in R : Tag(o) # "bad"
  BY DEF SubkeysInv, Ahead, Follows, ListUnreadable, SubkeyUnreadable
<1>2. CASE ListUnreadable
  <2>1. lists \in Seq(Links) /\ lists # << >> /\ Tag(Head(lists)) = "bad"
    BY <1>2 DEF ListUnreadable, Typed, TypeOK
  <2>2. Head(lists) \in Range(lists)
    BY <2>1, PartsOfRange
  <2> QED
    BY <1>1, <2>1, <2>2
<1>3. CASE SubkeyUnreadable
  <2>1. offsets \in Seq(Links) /\ offsets # << >> /\ Tag(Head(offsets)) = "bad"
    BY <1>3 DEF SubkeyUnreadable, Typed, TypeOK
  <2>2. Head(offsets) \in Range(offsets)
    BY <2>1, PartsOfRange
  <2> QED
    BY <1>1, <2>1, <2>2
<1> QED
  BY <1>2, <1>3

\* Returning an error keeps the key in sight: it is an item now.
LEMMA ErrorLosesNothing ==
  ASSUME Typed, SubkeysInv, NothingLost, ListUnreadable \/ SubkeyUnreadable
  PROVE  NothingLost'
<1> DEFINE e == [key |-> key, ok |-> FALSE]
<1>1. /\ pc \in {"collect", "read"} /\ pc' = "ready" /\ items' = Append(items, e)
      /\ UNCHANGED <<hive, pending, key>>
  BY DEF ListUnreadable, SubkeyUnreadable, YieldError
<1>2. items \in Seq(Item) /\ e \in Item /\ e.key = key /\ ~e.ok
  BY <1>1 DEF Typed, TypeOK, Item
<1> HIDE DEF e
<1>3. /\ {items'[n].key : n \in DOMAIN items'} = {items[n].key : n \in DOMAIN items} \union {key}
      /\ \A n \in DOMAIN items' : items'[n] = e \/ \E m \in DOMAIN items : items'[n] = items[m]
  BY <1>1, <1>2, ItemsGrow
<1>4. Seen' = Seen
  BY <1>1, <1>3 DEF Seen
<1>5. PICK U : U = Seen
  OBVIOUS
<1>6. \A n \in DOMAIN items' : Followed(items'[n], U)
  <2>1. Followed(e, U)
    BY <1>2, ErrorsAreTrue DEF Followed
  <2>2. \A m \in DOMAIN items : Followed(items[m], U)
    BY <1>1, <1>5 DEF NothingLost
  <2> QED
    BY <1>3, <2>1, <2>2
<1>7. (\A n \in DOMAIN items : Followed(items[n], Seen))'
  BY <1>1, <1>4, <1>5, <1>6, StillFollowed
<1>8. Root \in Seen'
  BY <1>1, <1>4 DEF NothingLost
<1> QED
  BY <1>1, <1>7, <1>8 DEF NothingLost

\* Returning a key puts its subkeys on the queue or the stack.
LEMMA KeyLosesNothing ==
  ASSUME Typed, SubkeysInv, NothingLost, YieldKey
  PROVE  NothingLost'
<1> DEFINE e == [key |-> key, ok |-> TRUE]
           added == IF mode = "bfs" THEN kids ELSE Reversed(kids)
<1>1. /\ pc = "read" /\ offsets = << >> /\ pc' = "ready" /\ items' = Append(items, e)
      /\ pending' = pending \o added /\ UNCHANGED <<hive, key>>
  BY DEF YieldKey
<1>2. /\ items \in Seq(Item) /\ e \in Item /\ e.key = key /\ e.ok
      /\ pending \in Seq(Offsets) /\ kids \in Seq(Offsets)
  BY <1>1 DEF Typed, TypeOK, Item
<1>3. Range(pending') = Range(pending) \union Range(kids)
  <2>1. added \in Seq(Offsets) /\ Range(added) = Range(kids)
    <3>1. Reversed(kids) \in Seq(Offsets)
      <4>1. \A n \in 1 .. Len(kids) : kids[n] \in Offsets
        BY <1>2
      <4> QED
        BY <1>2, <4>1, ReversedMembers
    <3>2. Range(Reversed(kids)) = Range(kids)
      BY <1>2, PartsOfRange
    <3> QED
      BY <1>2, <3>1, <3>2
  <2> HIDE DEF added
  <2>2. PICK p \in Seq(Offsets), a \in Seq(Offsets) : p = pending /\ a = added
    BY <1>2, <2>1
  <2>3. Range(p \o a) = Range(p) \union Range(a)
    BY RangeOfConcat
  <2> QED
    BY <1>1, <2>1, <2>2, <2>3
<1> HIDE DEF e, added
<1>4. /\ {items'[n].key : n \in DOMAIN items'} = {items[n].key : n \in DOMAIN items} \union {key}
      /\ \A n \in DOMAIN items' : items'[n] = e \/ \E m \in DOMAIN items : items'[n] = items[m]
  BY <1>1, <1>2, ItemsGrow
<1>5. Seen' = Seen \union Range(kids)
  BY <1>1, <1>3, <1>4 DEF Seen
<1>6. PICK S, U : S = Seen /\ U = Seen \union Range(kids)
  OBVIOUS
<1>7. \A n \in DOMAIN items' : Followed(items'[n], U)
  <2>1. Followed(e, U)
    <3>1. PICK R \in SUBSET Links : Follows(key, R, Range(kids))
      BY <1>1, AllGathered
    <3>2. Follows(e.key, R, U)
      BY <1>2, <1>6, <3>1 DEF Follows
    <3> QED
      BY <1>2, <3>2 DEF Followed
  <2>2. ASSUME NEW x, NEW m \in DOMAIN items, x = items[m] PROVE Followed(x, U)
    <3>1. Followed(x, S)
      BY <1>1, <1>6, <2>2 DEF NothingLost
    <3>2. S \subseteq U
      BY <1>6
    <3> QED
      BY <3>1, <3>2, FollowedGrows
  <2> QED
    BY <1>4, <2>1, <2>2
<1>8. (\A n \in DOMAIN items : Followed(items[n], Seen))'
  BY <1>1, <1>5, <1>6, <1>7, StillFollowed
<1>9. Root \in Seen'
  BY <1>1, <1>5 DEF NothingLost
<1> QED
  BY <1>1, <1>8, <1>9 DEF NothingLost

\* A step that leaves the items and the keys in sight as they are loses nothing.
LEMMA SameSight ==
  ASSUME NothingLost, UNCHANGED <<hive, items>>, Seen' = Seen,
         pc \in {"ready", "collect", "read", "done"}, pc' = "done" => pending' = << >>
  PROVE  NothingLost'
<1>1. PICK U : U = Seen
  OBVIOUS
<1>2. \A n \in DOMAIN items' : Followed(items'[n], U)
  BY <1>1 DEF NothingLost
<1>3. (\A n \in DOMAIN items : Followed(items[n], Seen))'
  BY <1>1, <1>2, StillFollowed
<1>4. Root \in Seen'
  BY DEF NothingLost
<1> QED
  BY <1>3, <1>4 DEF NothingLost

\* Every step of an iterator keeps what it has not yet reached in sight.
LEMMA NextNothingLost == Typed /\ SubkeysInv /\ NothingLost /\ [Next]_vars => NothingLost'
<1> SUFFICES ASSUME Typed, SubkeysInv, NothingLost, [Next]_vars PROVE NothingLost'
  OBVIOUS
<1>t. TypeOK
  BY DEF Typed
<1>h. UNCHANGED hive
  BY HiveUnchanged
<1>1. CASE NewIter
  <2>1. CASE pc' = "failed"
    BY <2>1 DEF NothingLost
  <2>2. CASE pc' # "failed"
    <3>1. pending' = <<Root>> /\ items = << >> /\ items' = << >> /\ pc' = "ready"
      BY <1>1, <2>2 DEF NewIter, SubkeysInv
    <3>2. Root \in Range(pending')
      BY <3>1 DEF Range
    <3>3. Root \in Seen' /\ DOMAIN items' = {}
      BY <3>1, <3>2 DEF Seen
    <3> QED
      BY <3>1, <3>3 DEF NothingLost
  <2> QED
    BY <2>1, <2>2
<1>2. CASE Exhausted
  <2>1. /\ pc = "ready" /\ pc' = "done" /\ UNCHANGED <<hive, items, pending, key>>
        /\ pending = << >>
    BY <1>2 DEF Exhausted
  <2>2. Seen' = Seen
    BY <2>1 DEF Seen
  <2> QED
    BY <2>1, <2>2, SameSight
<1>3. CASE PopKey
  <2>1. /\ pc = "ready" /\ pc' = "collect" /\ key' = Popped /\ pending' = Rest
        /\ UNCHANGED <<hive, items>> /\ pending # << >> /\ pending \in Seq(Offsets)
    BY <1>3, <1>t DEF PopKey, TypeOK
  <2>2. Range(pending) = {Popped} \union Range(Rest)
    <3>1. CASE mode = "bfs"
      BY <2>1, <3>1, PartsOfRange DEF Popped, Rest
    <3>2. CASE mode # "bfs"
      BY <2>1, <3>2, PartsOfRange DEF Popped, Rest
    <3> QED
      BY <3>1, <3>2
  <2>3. Seen' = Seen
    BY <2>1, <2>2 DEF Seen
  <2> QED
    BY <2>1, <2>3, SameSight
<1>4. CASE ReadList \/ ListsRead \/ ReadSubkey
  <2>1. /\ pc \in {"collect", "read"} /\ pc' \in {"collect", "read"}
        /\ UNCHANGED <<hive, items, pending, key>>
    BY <1>4 DEF ReadList, ListsRead, ReadSubkey
  <2>2. Seen' = Seen
    BY <2>1 DEF Seen
  <2> QED
    BY <2>1, <2>2, SameSight
<1>5. CASE ListUnreadable \/ SubkeyUnreadable
  BY <1>5, ErrorLosesNothing
<1>6. CASE YieldKey
  BY <1>6, KeyLosesNothing
<1>7. CASE UNCHANGED vars
  <2>1. UNCHANGED <<hive, items, pending, key, pc>>
    BY <1>7 DEF vars
  <2>2. Seen' = Seen
    BY <2>1 DEF Seen
  <2>3. CASE pc \in {"ready", "collect", "read", "done"}
    BY <2>1, <2>2, <2>3, SameSight DEF NothingLost
  <2>4. CASE pc \notin {"ready", "collect", "read", "done"}
    BY <2>1, <2>4 DEF NothingLost
  <2> QED
    BY <2>3, <2>4
<1> QED
  BY <1>1, <1>2, <1>3, <1>4, <1>5, <1>6, <1>7 DEF Next

\* The iterators return what the root leads to, no more and no less, in any
\* hive, cyclic or damaged: each key that is returned has had its subkeys
\* queued, one that is returned as an error has something that cannot be read,
\* and nothing waits when the walk is done.
THEOREM WalkReachesExactly == Spec => []ReachesExactly
<1> DEFINE Inv == IInv /\ SubkeysInv /\ NothingLost
<1>1. Init => SubkeysInv /\ NothingLost
  BY DEF Init, SubkeysInv, NothingLost
<1>2. Init => Inv
  BY <1>1, InitIInv
<1>3. Inv /\ [Next]_vars => Inv'
  BY NextIInv, NextSubkeysInv, NextNothingLost DEF IInv
<1>4. Inv => ReachesExactly
  BY DEF IInv, Within, OnlyReachable, ReachesExactly
<1> QED
  BY <1>2, <1>3, <1>4, PTL DEF Spec

-----------------------------------------------------------------------------
\* What f makes of the members of s is again a sequence.
LEMMA EachTypes ==
  ASSUME NEW A, NEW C, NEW f \in [A -> C], NEW s \in Seq(A)
  PROVE  Each(f, s) \in Seq(C)
<1> PICK l : l = Len(s)
  OBVIOUS
<1>1. DOMAIN s = 1 .. l /\ l \in Nat /\ \A n \in 1 .. l : s[n] \in A
  OBVIOUS
<1>2. \A a \in A : f[a] \in C
  OBVIOUS
<1> DEFINE g == [n \in 1 .. l |-> f[s[n]]]
<1>3. g \in [1 .. l -> C]
  BY <1>1, <1>2
<1>4. Each(f, s) = g
  BY <1>1 DEF Each
<1> HIDE DEF g
<1>5. g \in Seq(C) /\ Len(g) = l
  BY <1>1, <1>3, FunctionIsSeq
<1> QED
  BY <1>1, <1>4, <1>5

\* It is as long as s ...
LEMMA EachLen ==
  ASSUME NEW A, NEW C, NEW f \in [A -> C], NEW s \in Seq(A)
  PROVE  Len(Each(f, s)) = Len(s)
<1>1. DOMAIN s = 1 .. Len(s) /\ Len(s) \in Nat
  OBVIOUS
<1> PICK l \in Nat : l = Len(s)
  BY <1>1
<1>2. Each(f, s) \in Seq(C) /\ DOMAIN Each(f, s) = 1 .. l
  BY <1>1, EachTypes DEF Each
<1> QED
  BY <1>2

\* ... and grows with it.
LEMMA EachAppend ==
  ASSUME NEW A, NEW C, NEW f \in [A -> C], NEW s \in Seq(A), NEW e \in A
  PROVE  Each(f, Append(s, e)) = Append(Each(f, s), f[e])
<1> DEFINE a == Append(s, e)
<1>1. /\ a \in Seq(A) /\ Len(a) = Len(s) + 1 /\ Len(s) \in Nat
      /\ DOMAIN s = 1 .. Len(s) /\ DOMAIN a = 1 .. Len(s) + 1
      /\ \A n \in 1 .. Len(s) : a[n] = s[n]
      /\ a[Len(s) + 1] = e
  OBVIOUS
<1> DEFINE l == Each(f, a)
           r == Append(Each(f, s), f[e])
<1>0. Each(f, s) \in Seq(C)
  BY EachTypes, Zenon
<1>00. Len(Each(f, s)) = Len(s)
  BY EachLen, Zenon
<1>2. Each(f, s) \in Seq(C) /\ Len(Each(f, s)) = Len(s) /\ f[e] \in C
  BY <1>0, <1>00
<1>3. /\ r \in Seq(C) /\ Len(r) = Len(s) + 1
      /\ \A n \in 1 .. Len(s) : r[n] = Each(f, s)[n]
      /\ r[Len(s) + 1] = f[e]
  BY <1>2
<1> HIDE DEF a
<1>4. l \in Seq(C) /\ Len(l) = Len(s) + 1
  <2>1. Each(f, a) \in Seq(C)
    BY <1>1, EachTypes, Zenon
  <2>2. Len(Each(f, a)) = Len(a)
    BY <1>1, EachLen, Zenon
  <2> QED
    BY <1>1, <2>1, <2>2
<1>5. ASSUME NEW n \in 1 .. Len(s) + 1 PROVE l[n] = r[n]
  <2>1. l[n] = f[a[n]]
    BY <1>1 DEF Each
  <2>2. CASE n = Len(s) + 1
    BY <1>1, <1>3, <2>1, <2>2
  <2>3. CASE n # Len(s) + 1
    <3>1. n \in 1 .. Len(s)
      BY <1>1, <2>3
    <3>2. Each(f, s)[n] = f[s[n]]
      BY <1>1, <3>1 DEF Each
    <3> QED
      BY <1>1, <1>3, <2>1, <3>1, <3>2
  <2> QED
    BY <2>2, <2>3
<1> HIDE DEF l, r
<1>6. l = r
  BY <1>3, <1>4, <1>5, SeqEqual
<1> QED
  BY <1>6 DEF l, r, a

\* Stringing together what becomes of no members, or of any.
LEMMA StrungTypes ==
  ASSUME NEW A, NEW B, NEW f \in [A -> Seq(B)]
  PROVE  /\ Strung(f, << >>) = << >>
         /\ \A s \in Seq(A) : Strung(f, s) \in Seq(B)
<1>1. FlattenSeq(<< >>) = << >>
  BY DEF FlattenSeq
<1>2. Each(f, << >>) = << >>
  BY DEF Each
<1>3. \A s \in Seq(A) : Each(f, s) \in Seq(Seq(B))
  BY EachTypes
<1>4. << >> \in Seq(B)
  OBVIOUS
<1>5. \A ss \in Seq(Seq(B)), u \in Seq(B) : FlattenSeq(ss) \in Seq(B)
  BY FlattenAppend
<1> QED
  BY <1>1, <1>2, <1>3, <1>4, <1>5 DEF Strung

\* ... of the members of a sequence that grows.
LEMMA StrungAppend ==
  ASSUME NEW A, NEW B, NEW f \in [A -> Seq(B)]
  PROVE  \A s \in Seq(A), e \in A : Strung(f, Append(s, e)) = Strung(f, s) \o f[e]
<1>1. \A s \in Seq(A), e \in A : Each(f, Append(s, e)) = Append(Each(f, s), f[e])
  BY EachAppend
<1>2. \A s \in Seq(A) : Each(f, s) \in Seq(Seq(B))
  BY EachTypes
<1>3. \A ss \in Seq(Seq(B)), u \in Seq(B) :
        FlattenSeq(Append(ss, u)) = FlattenSeq(ss) \o u
  BY FlattenAppend
<1>4. \A e \in A : f[e] \in Seq(B)
  OBVIOUS
<1> QED
  BY <1>1, <1>2, <1>3, <1>4 DEF Strung

\* ... and of one member.
LEMMA StrungOne ==
  ASSUME NEW A, NEW B, NEW f \in [A -> Seq(B)]
  PROVE  \A e \in A : Strung(f, <<e>>) = f[e]
<1> SUFFICES ASSUME NEW e \in A PROVE Strung(f, <<e>>) = f[e]
  OBVIOUS
<1>1. << >> \in Seq(A) /\ <<e>> = Append(<< >>, e)
  OBVIOUS
<1>2. Strung(f, <<e>>) = Strung(f, << >>) \o f[e]
  BY <1>1, StrungAppend
<1>3. Strung(f, << >>) = << >>
  BY StrungTypes
<1>4. f[e] \in Seq(B)
  OBVIOUS
<1> QED
  BY <1>2, <1>3, <1>4, ConcatEmptySeq

\* ... of the members of a concatenation.
LEMMA StrungConcat ==
  ASSUME NEW A, NEW B
  PROVE  \A f \in [A -> Seq(B)] : \A s, t \in Seq(A) :
           Strung(f, s \o t) = Strung(f, s) \o Strung(f, t)
<1>a. \A x, y, z \in Seq(B) : (x \o y) \o z = x \o (y \o z)
  BY ConcatAssociative
<1> SUFFICES ASSUME NEW f \in [A -> Seq(B)], NEW s \in Seq(A), NEW t \in Seq(A)
             PROVE  Strung(f, s \o t) = Strung(f, s) \o Strung(f, t)
  OBVIOUS
<1> DEFINE first(n) == SubSeq(t, 1, n)
           T == {n \in Nat : n \in 0 .. Len(t) =>
                   Strung(f, s \o first(n)) = Strung(f, s) \o Strung(f, first(n))}
<1>0. Len(t) \in Nat
  OBVIOUS
<1>1. 0 \in T
  <2>1. first(0) = << >> /\ s \o << >> = s
    BY ConcatEmptySeq
  <2>2. Strung(f, s) \in Seq(B) /\ Strung(f, << >>) = << >>
    BY StrungTypes
  <2>3. Strung(f, s) \o << >> = Strung(f, s)
    BY <2>2, ConcatEmptySeq
  <2> QED
    BY <2>1, <2>2, <2>3
<1>2. ASSUME NEW n \in 0 .. Len(t) - 1, n \in T PROVE n + 1 \in T
  <2>1. /\ n + 1 \in Nat /\ n \in 0 .. Len(t) /\ n + 1 \in 1 .. Len(t)
        /\ t[n + 1] \in A /\ first(n) \in Seq(A)
    OBVIOUS
  <2>2. first(n + 1) = Append(first(n), t[n + 1])
    OBVIOUS
  <2>3. Strung(f, s \o first(n)) = Strung(f, s) \o Strung(f, first(n))
    BY <1>2, <2>1
  <2> HIDE DEF first
  <2> PICK u \in Seq(A) : u = first(n)
    BY <2>1
  <2> PICK e \in A : e = t[n + 1]
    BY <2>1
  <2>4. s \o Append(u, e) = Append(s \o u, e) /\ s \o u \in Seq(A)
    BY SMTT(30)
  <2>5. /\ Strung(f, Append(s \o u, e)) = Strung(f, s \o u) \o f[e]
        /\ Strung(f, Append(u, e)) = Strung(f, u) \o f[e]
    BY <2>4, StrungAppend, ZenonT(40)
  <2>6. Strung(f, s) \in Seq(B) /\ Strung(f, u) \in Seq(B) /\ f[e] \in Seq(B)
    BY StrungTypes
  <2>7. (Strung(f, s) \o Strung(f, u)) \o f[e] = Strung(f, s) \o (Strung(f, u) \o f[e])
    BY <1>a, <2>6, Zenon
  <2>8. Strung(f, s \o first(n + 1)) = Strung(f, s) \o Strung(f, first(n + 1))
    <3>1. first(n + 1) = Append(u, e) /\ s \o first(n + 1) = Append(s \o u, e)
      BY <2>2, <2>4
    <3>2. Strung(f, s \o first(n + 1)) = (Strung(f, s) \o Strung(f, u)) \o f[e]
      BY <2>3, <2>5, <3>1
    <3>3. Strung(f, first(n + 1)) = Strung(f, u) \o f[e]
      BY <2>5, <3>1
    <3> QED
      BY <2>7, <3>2, <3>3
  <2> QED
    BY <2>1, <2>8
<1>3. Len(t) \in T
  <2> HIDE DEF T
  <2>1. \A n \in 0 .. Len(t) : n \in T
    BY <1>0, <1>1, <1>2, UpTo
  <2> QED
    BY <1>0, <2>1
<1>4. first(Len(t)) = t /\ Len(t) \in 0 .. Len(t)
  BY <1>0
<1>5. Strung(f, s \o first(Len(t))) = Strung(f, s) \o Strung(f, first(Len(t)))
  BY <1>3, <1>4
<1> QED
  BY <1>4, <1>5

\* ... of the first member of a sequence and of the others.
LEMMA StrungHead ==
  ASSUME NEW A, NEW B
  PROVE  \A f \in [A -> Seq(B)] : \A s \in Seq(A) :
           s # << >> => Strung(f, s) = f[Head(s)] \o Strung(f, Tail(s))
<1>1. \A f \in [A -> Seq(B)] : \A s, t \in Seq(A) :
        Strung(f, s \o t) = Strung(f, s) \o Strung(f, t)
  BY StrungConcat
<1> SUFFICES ASSUME NEW f \in [A -> Seq(B)], NEW s \in Seq(A), s # << >>
             PROVE  Strung(f, s) = f[Head(s)] \o Strung(f, Tail(s))
  OBVIOUS
<1>2. Head(s) \in A /\ Tail(s) \in Seq(A) /\ <<Head(s)>> \in Seq(A) /\ s = <<Head(s)>> \o Tail(s)
  BY HeadTailProperties
<1> PICK h \in A : h = Head(s)
  BY <1>2
<1> PICK r \in Seq(A) : r = Tail(s)
  BY <1>2
<1>3. Strung(f, <<h>> \o r) = Strung(f, <<h>>) \o Strung(f, r)
  BY <1>1, <1>2
<1>4. Strung(f, <<h>>) = f[h]
  BY StrungOne
<1> QED
  BY <1>2, <1>3, <1>4

-----------------------------------------------------------------------------
\* Reversing keeps the elements and their number.
LEMMA ReversedTypes ==
  ASSUME NEW S, NEW s \in Seq(S)
  PROVE  /\ Reversed(s) \in Seq(S) /\ Len(Reversed(s)) = Len(s)
         /\ \A n \in 1 .. Len(s) : Reversed(s)[n] = s[Len(s) + 1 - n]
<1> PICK l \in Nat : l = Len(s)
  OBVIOUS
<1>1. \A n \in 1 .. l : l + 1 - n \in 1 .. l /\ s[l + 1 - n] \in S
  OBVIOUS
<1> DEFINE g == [n \in 1 .. l |-> s[l + 1 - n]]
<1>2. g \in [1 .. l -> S]
  BY <1>1
<1>3. Reversed(s) = g
  BY DEF Reversed
<1>4. \A n \in 1 .. l : g[n] = s[l + 1 - n]
  OBVIOUS
<1> HIDE DEF g
<1>5. g \in Seq(S) /\ Len(g) = l
  BY <1>2, FunctionIsSeq
<1> QED
  BY <1>3, <1>4, <1>5

\* The top of a stack comes first when it is reversed (Vec::pop).
LEMMA ReversedTop ==
  ASSUME NEW S, NEW s \in Seq(S), s # << >>
  PROVE  Reversed(s) = <<s[Len(s)]>> \o Reversed(SubSeq(s, 1, Len(s) - 1))
<1> PICK l \in Nat : l = Len(s)
  OBVIOUS
<1>f. PICK f : f = SubSeq(s, 1, l - 1)
  OBVIOUS
<1>1. l \in Nat \ {0} /\ f \in Seq(S) /\ Len(f) = l - 1 /\ s[l] \in S
      /\ \A n \in 1 .. l - 1 : f[n] = s[n]
  BY <1>f
<1>r. PICK r : r = Reversed(f)
  OBVIOUS
<1>2. r \in Seq(S) /\ Len(r) = l - 1 /\ \A n \in 1 .. l - 1 : r[n] = f[l - n]
  <2>1. \A n \in 1 .. Len(f) : Reversed(f)[n] = f[Len(f) + 1 - n]
    BY <1>1, ReversedTypes
  <2>2. \A n \in 1 .. l - 1 : (l - 1) + 1 - n = l - n
    BY <1>1
  <2>3. Reversed(f) \in Seq(S) /\ Len(Reversed(f)) = Len(f)
    BY <1>1, ReversedTypes
  <2>4. r \in Seq(S) /\ Len(r) = l - 1
    BY <1>1, <1>r, <2>3
  <2>5. ASSUME NEW n \in 1 .. l - 1 PROVE r[n] = f[l - n]
    <3>1. n \in 1 .. Len(f) /\ Len(f) + 1 - n = l - n
      BY <1>1
    <3> QED
      BY <1>r, <2>1, <3>1
  <2> QED
    BY <2>4, <2>5
<1> PICK q : q = Reversed(s)
  OBVIOUS
<1>3. q \in Seq(S) /\ Len(q) = l /\ \A n \in 1 .. l : q[n] = s[l + 1 - n]
  BY ReversedTypes
<1> PICK p : p = <<s[l]>> \o r
  OBVIOUS
<1>4. p \in Seq(S) /\ Len(p) = l /\ p[1] = s[l] /\ \A n \in 2 .. l : p[n] = r[n - 1]
  BY <1>1, <1>2
<1>5. ASSUME NEW n \in 1 .. l PROVE q[n] = p[n]
  <2>1. CASE n = 1
    BY <1>1, <1>3, <1>4, <2>1
  <2>2. CASE n # 1
    <3>1. n \in 2 .. l /\ n - 1 \in 1 .. l - 1 /\ l - (n - 1) = l + 1 - n /\ l + 1 - n \in 1 .. l - 1
      BY <2>2
    <3>2. p[n] = f[l + 1 - n]
      BY <1>2, <1>4, <3>1
    <3> QED
      BY <1>1, <1>3, <3>1, <3>2
  <2> QED
    BY <2>1, <2>2
<1> QED
  BY <1>f, <1>r, <1>3, <1>4, <1>5, SeqEqual

\* What is pushed reversed stands first, in its own order, when the stack is
\* reversed.
LEMMA ReversedPush ==
  ASSUME NEW S, NEW s \in Seq(S), NEW t \in Seq(S)
  PROVE  Reversed(s \o Reversed(t)) = t \o Reversed(s)
<1> PICK l \in Nat, m \in Nat : l = Len(s) /\ m = Len(t)
  OBVIOUS
<1> PICK r, w : r = Reversed(s) /\ w = Reversed(t)
  OBVIOUS
<1>1. r \in Seq(S) /\ Len(r) = l /\ \A n \in 1 .. l : r[n] = s[l + 1 - n]
  BY ReversedTypes
<1>2. w \in Seq(S) /\ Len(w) = m /\ \A n \in 1 .. m : w[n] = t[m + 1 - n]
  BY ReversedTypes
<1> PICK p, q : p = s \o w /\ q = t \o r
  OBVIOUS
<1>3. p \in Seq(S) /\ Len(p) = l + m
      /\ \A n \in 1 .. l + m : p[n] = IF n <= l THEN s[n] ELSE w[n - l]
  <2>1. s \in Seq(S) /\ w \in Seq(S) /\ Len(s) = l /\ Len(w) = m
    BY <1>2
  <2>2. /\ s \o w \in Seq(S) /\ Len(s \o w) = Len(s) + Len(w)
        /\ \A n \in 1 .. Len(s) + Len(w) :
             (s \o w)[n] = IF n <= Len(s) THEN s[n] ELSE w[n - Len(s)]
    BY <2>1, ConcatProperties
  <2> QED
    BY <2>1, <2>2
<1>4. q \in Seq(S) /\ Len(q) = l + m
      /\ \A n \in 1 .. l + m : q[n] = IF n <= m THEN t[n] ELSE r[n - m]
  <2>1. t \in Seq(S) /\ r \in Seq(S) /\ Len(t) = m /\ Len(r) = l /\ m + l = l + m
    BY <1>1
  <2>2. /\ t \o r \in Seq(S) /\ Len(t \o r) = Len(t) + Len(r)
        /\ \A n \in 1 .. Len(t) + Len(r) :
             (t \o r)[n] = IF n <= Len(t) THEN t[n] ELSE r[n - Len(t)]
    BY <2>1, ConcatProperties
  <2> QED
    BY <2>1, <2>2
<1> PICK v : v = Reversed(p)
  OBVIOUS
<1>5. v \in Seq(S) /\ Len(v) = l + m /\ \A n \in 1 .. l + m : v[n] = p[l + m + 1 - n]
  <2>1. Reversed(p) \in Seq(S) /\ Len(Reversed(p)) = Len(p)
    BY <1>3, ReversedTypes
  <2>2. \A n \in 1 .. Len(p) : Reversed(p)[n] = p[Len(p) + 1 - n]
    BY <1>3, ReversedTypes
  <2> QED
    BY <1>3, <2>1, <2>2
<1>6. ASSUME NEW n \in 1 .. l + m PROVE v[n] = q[n]
  <2>1. CASE n <= m
    <3>1. /\ l + m + 1 - n \in 1 .. l + m /\ ~ (l + m + 1 - n <= l)
          /\ (l + m + 1 - n) - l \in 1 .. m /\ m + 1 - ((l + m + 1 - n) - l) = n
      BY <2>1
    <3>2. v[n] = w[(l + m + 1 - n) - l]
      BY <1>3, <1>5, <3>1
    <3> QED
      BY <1>2, <1>4, <2>1, <3>1, <3>2
  <2>2. CASE ~ (n <= m)
    <3>1. /\ l + m + 1 - n \in 1 .. l + m /\ l + m + 1 - n <= l
          /\ n - m \in 1 .. l /\ l + 1 - (n - m) = l + m + 1 - n
      BY <2>2
    <3>2. v[n] = s[l + m + 1 - n]
      BY <1>3, <1>5, <3>1
    <3>3. q[n] = r[n - m]
      BY <1>4, <2>2
    <3> QED
      BY <1>1, <3>1, <3>2, <3>3
  <2> QED
    BY <2>1, <2>2
<1> QED
  BY <1>4, <1>5, <1>6, SeqEqual

-----------------------------------------------------------------------------
Listing == [ok : BOOLEAN, offs : Seq(Links)]

\* What the reference definitions are made of.
LEMMA ListingTypes ==
  ASSUME TypeOK, NEW c \in [Links -> Listing]
  PROVE  /\ OffsOf(c) \in [Links -> Seq(Links)]
         /\ \A o \in Links : OffsOf(c)[o] = c[o].offs
         /\ \A o \in Links : Parts(o) \in Seq(Links)
         /\ \A o \in Links : Tag(o) = "leaf" => Cell(o).offs \in Seq(Links)
         /\ Listed(c) \in [Links -> Listing]
<1>1. OffsOf(c) \in [Links -> Seq(Links)] /\ \A o \in Links : OffsOf(c)[o] = c[o].offs
  BY DEF OffsOf, Listing
<1>2. \A o \in Links : Tag(o) # "bad" => o \in Offsets /\ Cell(o) = hive[o]
  BY CellTypes
<1>3. \A o \in Offsets : Tag(o) \in {"leaf", "ri"} => hive[o].offs \in Seq(Links)
  BY CellTypes
<1>4. \A o \in Links : Tag(o) = "leaf" => Cell(o).offs \in Seq(Links)
  BY <1>2, <1>3
<1>5. \A o \in Links : Parts(o) \in Seq(Links)
  BY <1>2, <1>3 DEF Parts
<1>6. \A o \in Links : Strung(OffsOf(c), Parts(o)) \in Seq(Links)
  BY <1>1, <1>5, StrungTypes
<1>7. Listed(c) \in [Links -> Listing]
  BY <1>4, <1>6 DEF Listed, Listing
<1> QED
  BY <1>1, <1>4, <1>5, <1>7

\* Children are keys.
LEMMA FamilyTypes ==
  ASSUME TypeOK, NEW c \in [Links -> Listing]
  PROVE  /\ OnlyKey \in [Links -> Seq(KeyCells)]
         /\ \A k \in KeyCells : ListOf(k) \in Seq(Links)
         /\ \A k \in KeyCells : Strung(OffsOf(c), ListOf(k)) \in Seq(Links)
         /\ Family(c) \in [KeyCells -> [ok : BOOLEAN, kids : Seq(KeyCells)]]
<1>1. OnlyKey \in [Links -> Seq(KeyCells)]
  <2>1. ASSUME NEW o \in Links PROVE (IF Tag(o) = "nk" THEN <<o>> ELSE << >>) \in Seq(KeyCells)
    <3>1. CASE Tag(o) = "nk"
      <4>1. o \in KeyCells
        BY <3>1, CellTypes DEF KeyCells
      <4> QED
        BY <3>1, <4>1
    <3>2. CASE Tag(o) # "nk"
      BY <3>2
    <3> QED
      BY <3>1, <3>2
  <2> QED
    BY <2>1 DEF OnlyKey
<1>2. \A k \in KeyCells : ListOf(k) \in Seq(Links)
  BY CellTypes DEF KeyCells
<1>3. OffsOf(c) \in [Links -> Seq(Links)]
  BY ListingTypes
<1>4. \A k \in KeyCells : Strung(OffsOf(c), ListOf(k)) \in Seq(Links)
  BY <1>2, <1>3, StrungTypes
<1>5. \A s \in Seq(Links) : Strung(OnlyKey, s) \in Seq(KeyCells)
  BY <1>1, StrungTypes
<1>6. \A k \in KeyCells : Subkeys(c, k) \in [ok : BOOLEAN, kids : Seq(KeyCells)]
  BY <1>4, <1>5 DEF Subkeys
<1>7. Family(c) \in [KeyCells -> [ok : BOOLEAN, kids : Seq(KeyCells)]]
  BY <1>6 DEF Family
<1> QED
  BY <1>1, <1>2, <1>4, <1>7

\* The reference definitions speak of the hive alone.
LEMMA SameReference ==
  ASSUME UNCHANGED hive, NEW c
  PROVE  /\ \A o : Tag(o)' = Tag(o) /\ Cell(o)' = Cell(o) /\ ListOf(o)' = ListOf(o)
         /\ KeyCells' = KeyCells /\ OnlyKey' = OnlyKey
         /\ Listed(c)' = Listed(c) /\ Family(c)' = Family(c)
<1>1. \A o : Tag(o)' = Tag(o) /\ Cell(o)' = Cell(o) /\ ListOf(o)' = ListOf(o)
  BY DEF Tag, Cell, ListOf
<1>2. KeyCells' = KeyCells
  BY DEF KeyCells, Tag, Cell
<1>3. OnlyKey' = OnlyKey
  BY DEF OnlyKey, Tag, Cell
<1>4. Listed(c)' = Listed(c)
  BY DEF Listed, Parts, Tag, Cell
<1>5. Family(c)' = Family(c)
  BY <1>2, <1>3 DEF Family, Subkeys, ListOf, Tag, Cell
<1> QED
  BY <1>1, <1>2, <1>3, <1>4, <1>5

AllOk(c, s) == \A l \in Range(s) : c[l].ok
Readable(s) == \A o \in Range(s) : Tag(o) # "bad"
Found(c) == Strung(OffsOf(c), ListOf(key))

\* In a call of subkeys, what was found and what the lists still to be read
\* hold is what the key lists; then the keys that were read and those among
\* the cells still to be read are the keys it lists.
CallInv(c) ==
  /\ pc = "collect" => /\ kids = << >>
                       /\ Found(c) = offsets \o Strung(OffsOf(c), lists)
                       /\ AllOk(c, ListOf(key)) <=> AllOk(c, lists)
  /\ pc = "read" => /\ AllOk(c, ListOf(key))
                    /\ Strung(OnlyKey, Found(c)) = kids \o Strung(OnlyKey, offsets)
                    /\ Readable(Found(c)) <=> Readable(offsets)

\* Ranges of the parts of a sequence.
LEMMA AllOkParts ==
  ASSUME NEW c, NEW S, NEW s \in Seq(S)
  PROVE  /\ AllOk(c, << >>)
         /\ s # << >> => (AllOk(c, s) <=> c[Head(s)].ok /\ AllOk(c, Tail(s)))
         /\ \A t \in Seq(S) : AllOk(c, s \o t) <=> AllOk(c, s) /\ AllOk(c, t)
<1>1. Range(<< >>) = {}
  BY DEF Range
<1>2. s # << >> => Range(s) = {Head(s)} \union Range(Tail(s))
  BY PartsOfRange
<1>3. \A t \in Seq(S) : Range(s \o t) = Range(s) \union Range(t)
  BY RangeOfConcat
<1> QED
  BY <1>1, <1>2, <1>3 DEF AllOk

\* What a concatenation of lists holds.
LEMMA OffsConcat ==
  \A f \in [Links -> Seq(Links)], s, t \in Seq(Links) :
    Strung(f, s \o t) = Strung(f, s) \o Strung(f, t)
  BY StrungConcat, SMTT(30)

\* What is read of a list keeps account.
LEMMA ReadListKeepsAccount ==
  ASSUME TypeOK, NEW c \in [Links -> Listing], ReadList, CallInv(c),
         Listed(c)[Head(lists)] = c[Head(lists)]
  PROVE  CallInv(c)'
<1> DEFINE O == OffsOf(c)
           h == Head(lists)
           r == Tail(lists)
           below == Parts(h)
           found == IF Tag(h) = "leaf" THEN Cell(h).offs ELSE << >>
<1>1. /\ lists \in Seq(Links) /\ lists # << >> /\ Tag(h) # "bad"
      /\ lists' = below \o r /\ offsets' = offsets \o found
      /\ UNCHANGED <<hive, mode, pc, pending, key, kids, items>> /\ pc = "collect"
      /\ offsets \in Seq(Links)
  BY DEF ReadList, TypeOK, Parts, Tag
<1>2. h \in Links /\ r \in Seq(Links)
  BY <1>1, TailMembers
<1>3. below \in Seq(Links) /\ found \in Seq(Links)
  BY <1>2, ListingTypes
<1>4. /\ c[h].ok <=> AllOk(c, below)
      /\ c[h].offs = IF Tag(h) = "leaf" THEN Cell(h).offs ELSE Strung(O, below)
  <2>1. Listed(c)[h] = [ok |-> Tag(h) # "bad" /\ \A p \in Range(Parts(h)) : c[p].ok,
                        offs |-> IF Tag(h) = "leaf" THEN Cell(h).offs ELSE Strung(O, below)]
    BY <1>2 DEF Listed
  <2> PICK k, f : /\ k = (Tag(h) # "bad" /\ \A p \in Range(Parts(h)) : c[p].ok)
                  /\ f = IF Tag(h) = "leaf" THEN Cell(h).offs ELSE Strung(O, below)
    OBVIOUS
  <2>2. c[h] = [ok |-> k, offs |-> f]
    BY <2>1
  <2>3. c[h].ok = k /\ c[h].offs = f
    BY <2>2
  <2>4. k <=> AllOk(c, below)
    BY <1>1 DEF AllOk
  <2> QED
    BY <2>3, <2>4
<1> PICK N : N = Strung(O, below)
  OBVIOUS
<1> PICK R : R = Strung(O, r)
  OBVIOUS
<1>5. N \in Seq(Links) /\ R \in Seq(Links)
  <2>1. O \in [Links -> Seq(Links)]
    BY ListingTypes
  <2> QED
    BY <1>2, <1>3, <2>1, StrungTypes
<1>6. c[h].offs = found \o N
  <2>1. CASE Tag(h) = "leaf"
    <3>1. below = << >> /\ N = << >>
      <4>1. O \in [Links -> Seq(Links)]
        BY ListingTypes
      <4> QED
        BY <2>1, <4>1, StrungTypes DEF Parts
    <3> QED
      BY <1>3, <1>4, <2>1, <3>1, ConcatEmptySeq
  <2>2. CASE Tag(h) # "leaf"
    BY <1>4, <1>5, <2>2, ConcatEmptySeq
  <2> QED
    BY <2>1, <2>2
<1>7. Strung(O, lists) = (found \o N) \o R /\ Strung(O, below \o r) = N \o R
  <2>1. O \in [Links -> Seq(Links)] /\ O[h] = c[h].offs
    BY <1>2, ListingTypes
  <2>2. Strung(O, lists) = O[h] \o Strung(O, r)
    BY <1>1, <2>1, StrungHead
  <2>3. Strung(O, below \o r) = Strung(O, below) \o Strung(O, r)
    <3> HIDE DEF O, below, r
    <3> QED
      BY <1>2, <1>3, <2>1, OffsConcat
  <2> QED
    BY <1>6, <2>1, <2>2, <2>3
<1>8. Found(c) = (offsets \o found) \o (N \o R)
  <2>1. Found(c) = offsets \o ((found \o N) \o R)
    BY <1>1, <1>7 DEF CallInv
  <2>2. \A x, y, z \in Seq(Links) : (x \o y) \o z = x \o (y \o z)
    BY ConcatAssociative
  <2>3. N \o R \in Seq(Links)
    BY <1>5, ConcatProperties
  <2> HIDE DEF found
  <2>4. (found \o N) \o R = found \o (N \o R)
    BY <1>3, <1>5, <2>2
  <2>5. (offsets \o found) \o (N \o R) = offsets \o (found \o (N \o R))
    BY <1>1, <1>3, <2>2, <2>3, ZenonT(40)
  <2> QED
    BY <2>1, <2>4, <2>5
<1>9. AllOk(c, lists) <=> AllOk(c, below \o r)
  <2>1. AllOk(c, lists) <=> c[h].ok /\ AllOk(c, r)
    BY <1>1, AllOkParts
  <2>2. AllOk(c, below \o r) <=> AllOk(c, below) /\ AllOk(c, r)
    BY <1>2, <1>3, AllOkParts
  <2> QED
    BY <1>4, <2>1, <2>2
<1>10. Found(c)' = Found(c) /\ AllOk(c, ListOf(key))' = AllOk(c, ListOf(key))
  <2>1. ListOf(key)' = ListOf(key)
    BY <1>1 DEF ListOf
  <2> QED
    BY <2>1 DEF Found, AllOk
<1> HIDE DEF O, below, r, found, h
<1>11. Strung(O, lists') = N \o R /\ Found(c)' = offsets' \o Strung(O, lists')
  BY <1>1, <1>7, <1>8, <1>10
<1>12. AllOk(c, ListOf(key)) <=> AllOk(c, lists')
  BY <1>1, <1>9 DEF CallInv
<1>13. kids' = << >> /\ pc' = "collect"
  BY <1>1 DEF CallInv
<1> QED
  BY <1>10, <1>11, <1>12, <1>13 DEF CallInv, O, AllOk

\* Ranges again, for what can be read.
LEMMA ReadableParts ==
  ASSUME NEW S, NEW s \in Seq(S)
  PROVE  /\ Readable(<< >>)
         /\ s # << >> => (Readable(s) <=> Tag(Head(s)) # "bad" /\ Readable(Tail(s)))
<1>1. Range(<< >>) = {}
  BY DEF Range
<1>2. s # << >> => Range(s) = {Head(s)} \union Range(Tail(s))
  BY PartsOfRange
<1> QED
  BY <1>1, <1>2 DEF Readable

\* What the walk holds are sequences of keys.
LEMMA KeySequences ==
  ASSUME Typed
  PROVE  /\ pending \in Seq(KeyCells) /\ kids \in Seq(KeyCells)
         /\ pc \in {"collect", "read"} => key \in KeyCells
         /\ Tag(Root) = "nk" => Root \in KeyCells
<1>1. /\ pending \in Seq(Offsets) /\ kids \in Seq(Offsets)
      /\ \A n \in 1 .. Len(pending) : Tag(pending[n]) = "nk"
      /\ \A n \in 1 .. Len(kids) : Tag(kids[n]) = "nk"
  BY DEF Typed, TypeOK, OnlyKeys
<1>2. pending \in Seq(KeyCells) /\ kids \in Seq(KeyCells)
  BY <1>1 DEF KeyCells
<1>3. pc \in {"collect", "read"} => key \in KeyCells
  BY DEF Typed, TypeOK, OnlyKeys, KeyCells
<1>4. Tag(Root) = "nk" => Root \in KeyCells
  BY HivesAssumption, CellTypes DEF Typed, KeyCells
<1> QED
  BY <1>2, <1>3, <1>4

\* What is read of a subkey keeps account.
LEMMA ReadSubkeyKeepsAccount ==
  ASSUME Typed, NEW c \in [Links -> Listing], ReadSubkey, CallInv(c)
  PROVE  CallInv(c)'
<1> DEFINE h == Head(offsets)
           r == Tail(offsets)
<1>1. /\ offsets \in Seq(Links) /\ offsets # << >> /\ Tag(h) # "bad" /\ pc = "read"
      /\ kids' = (IF Tag(h) = "nk" THEN Append(kids, h) ELSE kids) /\ offsets' = r
      /\ UNCHANGED <<hive, mode, pc, pending, key, lists, items>>
  BY DEF ReadSubkey, Typed, TypeOK
<1>2. h \in Links /\ r \in Seq(Links)
  BY <1>1, TailMembers
<1>3. kids \in Seq(KeyCells)
  BY KeySequences
<1>t. TypeOK
  BY DEF Typed
<1> PICK N : N = OnlyKey[h]
  OBVIOUS
<1> PICK R : R = Strung(OnlyKey, r)
  OBVIOUS
<1> PICK F : F = Found(c)
  OBVIOUS
<1>4. N \in Seq(KeyCells) /\ R \in Seq(KeyCells) /\ Strung(OnlyKey, offsets) = N \o R
  <2>1. OnlyKey \in [Links -> Seq(KeyCells)]
    BY <1>t, FamilyTypes
  <2>2. R \in Seq(KeyCells)
    BY <1>2, <2>1, StrungTypes
  <2>3. Strung(OnlyKey, offsets) = OnlyKey[h] \o Strung(OnlyKey, r)
    BY <1>1, <2>1, StrungHead
  <2> QED
    BY <1>2, <2>1, <2>2, <2>3
<1>5. kids' = kids \o N
  <2>1. CASE Tag(h) = "nk"
    <3>1. N = <<h>> /\ h \in KeyCells
      BY <1>2, <1>t, <2>1, CellTypes DEF OnlyKey, KeyCells
    <3>2. kids' = Append(kids, h)
      BY <1>1, <2>1
    <3> HIDE DEF h
    <3> QED
      BY <1>3, <3>1, <3>2, AppendIsConcat
  <2>2. CASE Tag(h) # "nk"
    <3>1. N = << >>
      BY <1>2, <2>2 DEF OnlyKey
    <3> QED
      BY <1>1, <1>3, <2>2, <3>1, ConcatEmptySeq
  <2> QED
    BY <2>1, <2>2
<1>6. Strung(OnlyKey, F) = kids' \o R
  <2>1. Strung(OnlyKey, F) = kids \o (N \o R)
    BY <1>1, <1>4 DEF CallInv
  <2>2. \A x, y, z \in Seq(KeyCells) : (x \o y) \o z = x \o (y \o z)
    BY ConcatAssociative
  <2> QED
    BY <1>3, <1>4, <1>5, <2>1, <2>2
<1>7. Readable(offsets) <=> Readable(r)
  BY <1>1, ReadableParts
<1>8. /\ Found(c)' = F /\ AllOk(c, ListOf(key))' = AllOk(c, ListOf(key))
      /\ OnlyKey' = OnlyKey /\ Readable(F)' = Readable(F) /\ Readable(offsets)' = Readable(r)
  <2>1. ListOf(key)' = ListOf(key) /\ \A o : Tag(o)' = Tag(o)
    BY <1>1 DEF ListOf, Tag, Cell
  <2>2. OnlyKey' = OnlyKey
    BY <1>1, SameReference
  <2> QED
    BY <1>1, <2>1, <2>2 DEF Found, AllOk, Readable
<1> HIDE DEF h, r
<1>9. Strung(OnlyKey, Found(c))' = kids' \o Strung(OnlyKey, offsets)'
  BY <1>1, <1>6, <1>8
<1>10. Readable(Found(c))' <=> Readable(offsets)'
  <2>1. Readable(Found(c))' = Readable(F)
    BY <1>8 DEF Readable
  <2> QED
    BY <1>1, <1>7, <1>8, <2>1 DEF CallInv
<1>11. AllOk(c, ListOf(key))' /\ pc' = "read"
  BY <1>1, <1>8 DEF CallInv
<1> QED
  BY <1>9, <1>10, <1>11 DEF CallInv

\* So does every step of a walk in a set of cells that the listing is of.
LEMMA NextCall ==
  ASSUME Typed, [Next]_vars, NEW c \in [Links -> Listing], NEW S, Within(S),
         \A o \in S : Listed(c)[o] = c[o], CallInv(c)
  PROVE  CallInv(c)'
<1>t. TypeOK /\ OnlyKeys /\ Typed'
  BY NextTyped DEF Typed
<1>1. CASE NewIter
  BY <1>1 DEF NewIter, CallInv
<1>2. CASE Exhausted
  BY <1>2 DEF Exhausted, CallInv
<1>3. CASE PopKey
  <2>1. pc' = "collect" /\ lists' = ListOf(key)' /\ offsets' = << >> /\ kids' = << >>
    BY <1>3 DEF PopKey, ListOf
  <2>2. Strung(OffsOf(c), ListOf(key)') \in Seq(Links)
    <3>1. key' \in Offsets /\ Tag(key)' = "nk"
      BY <1>t, <2>1 DEF Typed, TypeOK, OnlyKeys
    <3>2. UNCHANGED hive
      BY HiveUnchanged
    <3>3. PICK k : k = key'
      OBVIOUS
    <3>4. k \in KeyCells /\ ListOf(k) = ListOf(key)'
      BY <3>1, <3>2, <3>3 DEF KeyCells, Tag, Cell, ListOf
    <3>5. Strung(OffsOf(c), ListOf(k)) \in Seq(Links)
      BY <1>t, <3>4, FamilyTypes
    <3> QED
      BY <3>4, <3>5
  <2>3. Found(c)' = << >> \o Strung(OffsOf(c), lists)'
    BY <2>1, <2>2, ConcatEmptySeq DEF Found
  <2> QED
    BY <2>1, <2>3 DEF CallInv, AllOk
<1>4. CASE ReadList
  <2>1. Head(lists) \in S
    BY <1>t, <1>4, TailMembers DEF ReadList, TypeOK, Within
  <2> QED
    BY <1>t, <1>4, <2>1, ReadListKeepsAccount
<1>5. CASE ListUnreadable
  BY <1>5 DEF ListUnreadable, YieldError, CallInv
<1>6. CASE ListsRead
  <2>1. /\ pc = "collect" /\ lists = << >> /\ pc' = "read"
        /\ UNCHANGED <<hive, key, offsets, kids>> /\ offsets \in Seq(Links)
    BY <1>t, <1>6 DEF ListsRead, TypeOK
  <2>2. OffsOf(c) \in [Links -> Seq(Links)] /\ OnlyKey \in [Links -> Seq(KeyCells)]
    BY <1>t, ListingTypes, FamilyTypes
  <2>3. Strung(OffsOf(c), << >>) = << >>
    BY <2>2, StrungTypes
  <2>4. Found(c) = offsets /\ AllOk(c, ListOf(key)) /\ kids = << >>
    <3>1. AllOk(c, << >>)
      BY DEF AllOk, Range
    <3> QED
      BY <2>1, <2>3, <3>1, ConcatEmptySeq DEF CallInv
  <2>5. Strung(OnlyKey, offsets) \in Seq(KeyCells)
    BY <2>1, <2>2, StrungTypes
  <2>6. Strung(OnlyKey, Found(c)) = kids \o Strung(OnlyKey, offsets)
    BY <2>4, <2>5, ConcatEmptySeq
  <2>7. /\ OnlyKey' = OnlyKey /\ Found(c)' = Found(c)
        /\ AllOk(c, ListOf(key))' = AllOk(c, ListOf(key))
    <3>1. ListOf(key)' = ListOf(key)
      BY <2>1 DEF ListOf
    <3> QED
      BY <2>1, <3>1, SameReference DEF Found, AllOk
  <2>8. Readable(Found(c))' = Readable(offsets)'
    BY <2>1, <2>4, <2>7 DEF Readable
  <2> QED
    BY <2>1, <2>4, <2>6, <2>7, <2>8 DEF CallInv
<1>7. CASE ReadSubkey
  BY <1>7, ReadSubkeyKeepsAccount
<1>8. CASE SubkeyUnreadable
  BY <1>8 DEF SubkeyUnreadable, YieldError, CallInv
<1>9. CASE YieldKey
  BY <1>9 DEF YieldKey, CallInv
<1>10. CASE UNCHANGED vars
  <2>1. UNCHANGED <<hive, pc, key, lists, offsets, kids>>
    BY <1>10 DEF vars
  <2>2. ListOf(key)' = ListOf(key) /\ \A o : Tag(o)' = Tag(o)
    BY <2>1 DEF ListOf, Tag, Cell
  <2>3. OnlyKey' = OnlyKey /\ Found(c)' = Found(c)
    BY <2>1, <2>2, SameReference DEF Found
  <2> QED
    BY <2>1, <2>2, <2>3 DEF CallInv, AllOk, Readable
<1> QED
  BY <1>1, <1>2, <1>3, <1>4, <1>5, <1>6, <1>7, <1>8, <1>9, <1>10 DEF Next

\* What subkeys answers is what it should: the keys gathered, or an error.
LEMMA YieldIsSubkeys ==
  ASSUME Typed, NEW c \in [Links -> Listing], NEW S, Within(S),
         \A o \in S : Listed(c)[o] = c[o], CallInv(c)
  PROVE  /\ YieldKey => Family(c)[key] = [ok |-> TRUE, kids |-> kids]
         /\ ListUnreadable \/ SubkeyUnreadable => Family(c)[key] = [ok |-> FALSE, kids |-> << >>]
<1>t. TypeOK /\ OnlyKeys
  BY DEF Typed
<1> DEFINE ok == AllOk(c, ListOf(key)) /\ Readable(Found(c))
<1>1. ASSUME pc \in {"collect", "read"}
      PROVE  Family(c)[key] = [ok |-> ok, kids |-> IF ok THEN Strung(OnlyKey, Found(c)) ELSE << >>]
  <2>1. key \in KeyCells
    BY <1>1, KeySequences
  <2>2. Family(c)[key] = Subkeys(c, key)
    BY <2>1 DEF Family
  <2> QED
    BY <2>2 DEF Subkeys, AllOk, Readable, Found
<1>2. ASSUME YieldKey PROVE Family(c)[key] = [ok |-> TRUE, kids |-> kids]
  <2>1. pc = "read" /\ offsets = << >> /\ kids \in Seq(KeyCells)
    BY <1>2, KeySequences DEF YieldKey
  <2>2. Strung(OnlyKey, << >>) = << >>
    <3>1. OnlyKey \in [Links -> Seq(KeyCells)]
      BY <1>t, FamilyTypes
    <3> QED
      BY <3>1, StrungTypes
  <2>3. Readable(<< >>)
    BY DEF Readable, Range
  <2>4. ok /\ Strung(OnlyKey, Found(c)) = kids
    BY <2>1, <2>2, <2>3, ConcatEmptySeq DEF CallInv
  <2> QED
    BY <1>1, <2>1, <2>4
<1>3. ASSUME ListUnreadable PROVE ~ ok /\ pc = "collect"
  <2>1. /\ pc = "collect" /\ lists # << >> /\ lists \in Seq(Links)
        /\ Tag(Head(lists)) = "bad"
    BY <1>t, <1>3 DEF ListUnreadable, TypeOK
  <2>2. Head(lists) \in S /\ Head(lists) \in Links
    BY <2>1, TailMembers DEF Within
  <2>3. Listed(c)[Head(lists)].ok = FALSE
    BY <2>1, <2>2 DEF Listed
  <2>4. c[Head(lists)].ok = FALSE
    BY <2>2, <2>3
  <2>5. ~ AllOk(c, lists)
    BY <2>1, <2>4, AllOkParts
  <2> QED
    BY <2>1, <2>5 DEF CallInv
<1>4. ASSUME SubkeyUnreadable PROVE ~ ok /\ pc = "read"
  <2>1. /\ pc = "read" /\ offsets # << >> /\ offsets \in Seq(Links)
        /\ Tag(Head(offsets)) = "bad"
    BY <1>t, <1>4 DEF SubkeyUnreadable, TypeOK
  <2>2. ~ Readable(offsets)
    BY <2>1, ReadableParts
  <2> QED
    BY <2>1, <2>2 DEF CallInv
<1> HIDE DEF ok
<1>5. ASSUME ListUnreadable \/ SubkeyUnreadable
      PROVE  Family(c)[key] = [ok |-> FALSE, kids |-> << >>]
  <2>1. ok = FALSE /\ pc \in {"collect", "read"}
    BY <1>3, <1>4, <1>5 DEF ok
  <2> QED
    BY <1>1, <2>1
<1> QED
  BY <1>2, <1>5

\* The keys that are due, in the order in which the walk will take them.
Due == (IF pc \in {"collect", "read"} THEN <<key>> ELSE << >>)
         \o (IF mode = "bfs" THEN pending ELSE Reversed(pending))

\* The walk takes the first key that is due, and puts its subkeys at the end
\* or in its place.
Taken(c) ==
  \E r \in Seq(KeyCells) :
    /\ pc \in {"collect", "read"} /\ key \in KeyCells
    /\ Due = <<key>> \o r
    /\ items' = Append(items, [key |-> key, ok |-> Family(c)[key].ok])
    /\ Due' = IF mode = "bfs" THEN r \o Family(c)[key].kids ELSE Family(c)[key].kids \o r

\* What is due are keys.
LEMMA DueTypes ==
  ASSUME Typed
  PROVE  /\ Due \in Seq(KeyCells)
         /\ (IF mode = "bfs" THEN pending ELSE Reversed(pending)) \in Seq(KeyCells)
<1>1. (IF mode = "bfs" THEN pending ELSE Reversed(pending)) \in Seq(KeyCells)
  BY KeySequences, ReversedTypes
<1>2. (IF pc \in {"collect", "read"} THEN <<key>> ELSE << >>) \in Seq(KeyCells)
  BY KeySequences
<1> QED
  BY <1>1, <1>2, ConcatProperties DEF Due

\* Taking up a key leaves what is due as it is.
LEMMA PopKeepsDue ==
  ASSUME Typed, PopKey
  PROVE  Due' = Due
<1>1. /\ pc = "ready" /\ pc' = "collect" /\ UNCHANGED mode
      /\ pending # << >> /\ key' = Popped /\ pending' = Rest
  BY DEF PopKey
<1>2. pending \in Seq(KeyCells)
  BY KeySequences
<1>3. CASE mode = "bfs"
  <2>1. key' = Head(pending) /\ pending' = Tail(pending)
    BY <1>1, <1>3 DEF Popped, Rest
  <2>2. Due = << >> \o pending /\ Due' = <<Head(pending)>> \o Tail(pending)
    BY <1>1, <1>3, <2>1 DEF Due
  <2>3. pending = <<Head(pending)>> \o Tail(pending)
    BY <1>1, <1>2, HeadTailProperties
  <2> QED
    BY <1>2, <2>2, <2>3, ConcatEmptySeq
<1>4. CASE mode # "bfs"
  <2>1. key' = pending[Len(pending)] /\ pending' = SubSeq(pending, 1, Len(pending) - 1)
    BY <1>1, <1>4 DEF Popped, Rest
  <2>2. Due = << >> \o Reversed(pending) /\ Due' = <<key'>> \o Reversed(pending')
    BY <1>1, <1>4 DEF Due, Reversed
  <2>3. Reversed(pending) = <<pending[Len(pending)]>> \o Reversed(SubSeq(pending, 1, Len(pending) - 1))
    BY <1>1, <1>2, ReversedTop
  <2>4. Reversed(pending) \in Seq(KeyCells)
    BY <1>2, ReversedTypes
  <2> QED
    BY <2>1, <2>2, <2>3, <2>4, ConcatEmptySeq
<1> QED
  BY <1>3, <1>4

\* Each step of a walk that has begun takes a key or leaves what is due and
\* what was returned as they are.
LEMMA DueMoves ==
  ASSUME Typed, [Next]_vars, NEW c \in [Links -> Listing], NEW S, Within(S),
         \A o \in S : Listed(c)[o] = c[o], CallInv(c), pc # "new"
  PROVE  Taken(c) \/ (Due' = Due /\ items' = items)
<1>t. TypeOK
  BY DEF Typed
<1> DEFINE waiting == IF mode = "bfs" THEN pending ELSE Reversed(pending)
<1>w. waiting \in Seq(KeyCells) /\ UNCHANGED mode
  BY DueTypes DEF Next, vars, NewIter, Exhausted, PopKey, ReadList, ListUnreadable, ListsRead,
                  ReadSubkey, SubkeyUnreadable, YieldKey, YieldError
<1>1. ASSUME pc \in {"collect", "read"}, YieldError, Family(c)[key] = [ok |-> FALSE, kids |-> << >>]
      PROVE  Taken(c)
  <2>1. /\ items' = Append(items, [key |-> key, ok |-> FALSE])
        /\ pc' = "ready" /\ UNCHANGED <<mode, pending>>
    BY <1>1 DEF YieldError
  <2>2. Due = <<key>> \o waiting /\ Due' = << >> \o waiting /\ key \in KeyCells
    BY <1>1, <2>1, KeySequences DEF Due, Reversed
  <2> HIDE DEF waiting
  <2>3. Family(c)[key].ok = FALSE /\ Family(c)[key].kids = << >>
    BY <1>1
  <2>4. << >> \o waiting = waiting /\ waiting \o << >> = waiting
    BY <1>w, ConcatEmptySeq
  <2> QED
    BY <1>w, <1>1, <2>1, <2>2, <2>3, <2>4 DEF Taken
<1>2. CASE NewIter
  BY <1>2 DEF NewIter
<1>3. CASE Exhausted
  BY <1>3 DEF Exhausted, Due, Reversed
<1>4. CASE PopKey
  BY <1>4, PopKeepsDue DEF PopKey
<1>5. CASE ReadList
  BY <1>5 DEF ReadList, Due, Reversed
<1>6. CASE ListUnreadable
  BY <1>1, <1>6, YieldIsSubkeys DEF ListUnreadable
<1>7. CASE ListsRead
  BY <1>7 DEF ListsRead, Due, Reversed
<1>8. CASE ReadSubkey
  BY <1>8 DEF ReadSubkey, Due, Reversed
<1>9. CASE SubkeyUnreadable
  BY <1>1, <1>9, YieldIsSubkeys DEF SubkeyUnreadable
<1>10. CASE YieldKey
  <2>1. /\ pc = "read" /\ pc' = "ready" /\ UNCHANGED mode
        /\ pending' = pending \o (IF mode = "bfs" THEN kids ELSE Reversed(kids))
        /\ items' = Append(items, [key |-> key, ok |-> TRUE])
        /\ kids \in Seq(KeyCells) /\ pending \in Seq(KeyCells) /\ key \in KeyCells
    BY <1>10, KeySequences DEF YieldKey
  <2>2. Family(c)[key].ok = TRUE /\ Family(c)[key].kids = kids
    <3>1. Family(c)[key] = [ok |-> TRUE, kids |-> kids]
      BY <1>10, YieldIsSubkeys
    <3> QED
      BY <3>1
  <2>3. Due = <<key>> \o waiting
    BY <2>1 DEF Due
  <2>4. Due' = IF mode = "bfs" THEN waiting \o kids ELSE kids \o waiting
    <3>1. CASE mode = "bfs"
      <4>1. Due' = << >> \o (pending \o kids) /\ pending \o kids \in Seq(KeyCells)
        BY <2>1, <3>1, ConcatProperties DEF Due
      <4> QED
        BY <3>1, <4>1, ConcatEmptySeq
    <3>2. CASE mode # "bfs"
      <4>1. Due' = << >> \o Reversed(pending \o Reversed(kids))
        BY <2>1, <3>2 DEF Due, Reversed
      <4>2. Reversed(pending \o Reversed(kids)) = kids \o Reversed(pending)
        BY <2>1, ReversedPush
      <4>3. kids \o Reversed(pending) \in Seq(KeyCells)
        BY <2>1, ReversedTypes, ConcatProperties
      <4> QED
        BY <3>2, <4>1, <4>2, <4>3, ConcatEmptySeq
    <3> QED
      BY <3>1, <3>2
  <2> HIDE DEF waiting
  <2> QED
    BY <1>w, <2>1, <2>2, <2>3, <2>4 DEF Taken
<1>11. CASE UNCHANGED vars
  BY <1>11 DEF vars, Due, Reversed
<1> QED
  BY <1>2, <1>3, <1>4, <1>5, <1>6, <1>7, <1>8, <1>9, <1>10, <1>11 DEF Next

-----------------------------------------------------------------------------
\* Concatenation under another name, for proofs that need no more of it than
\* these facts.
Cat(s, t) == s \o t

\* It is associative, has the empty sequence as its unit, and appends.
LEMMA CatFacts ==
  ASSUME NEW A
  PROVE  /\ \A s, t \in Seq(A) : Cat(s, t) \in Seq(A)
         /\ \A s, t, u \in Seq(A) : Cat(Cat(s, t), u) = Cat(s, Cat(t, u))
         /\ \A s \in Seq(A) : Cat(s, << >>) = s /\ Cat(<< >>, s) = s
         /\ \A s \in Seq(A), e \in A : Append(s, e) \in Seq(A) /\ Append(s, e) = Cat(s, <<e>>)
         /\ \A e \in A : <<e>> \in Seq(A)
<1>1. \A s, t \in Seq(A) : Cat(s, t) \in Seq(A)
  BY DEF Cat
<1>2. \A s, t, u \in Seq(A) : Cat(Cat(s, t), u) = Cat(s, Cat(t, u))
  BY ConcatAssociative DEF Cat
<1>3. \A s \in Seq(A) : Cat(s, << >>) = s /\ Cat(<< >>, s) = s
  BY ConcatEmptySeq DEF Cat
<1>4. \A s \in Seq(A), e \in A : Append(s, e) \in Seq(A) /\ Append(s, e) = Cat(s, <<e>>)
  BY AppendIsConcat DEF Cat
<1>5. \A e \in A : <<e>> \in Seq(A)
  OBVIOUS
<1> QED
  BY <1>1, <1>2, <1>3, <1>4, <1>5

\* What becomes of a concatenation.
LEMMA StrungCat ==
  ASSUME NEW A, NEW B
  PROVE  \A f \in [A -> Seq(B)] : \A s, t \in Seq(A) :
           Strung(f, Cat(s, t)) = Cat(Strung(f, s), Strung(f, t))
  BY StrungConcat DEF Cat

\* A queue K that has been worked off, with D behind it, holds the root and all
\* that became of K: then the next key k and what becomes of it fit, too, and
\* the queue stays within any sequence that reproduces itself in this way.
QueueStep(N, F) ==
  \A root, k \in N, K, R, r \in Seq(N) :
    /\ Cat(K, Cat(<<k>>, r)) = Cat(<<root>>, Strung(F, K))
    /\ Cat(K, R) = Cat(<<root>>, Strung(F, Cat(K, R)))
    => /\ Append(K, k) \in Seq(N) /\ Cat(r, Strung(F, R)) \in Seq(N)
       /\ Cat(K, R) = Cat(Append(K, k), Cat(r, Strung(F, R)))
       /\ Cat(Append(K, k), Cat(r, F[k])) = Cat(<<root>>, Strung(F, Append(K, k)))

\* Every function of keys works a queue off in this way.
LEMMA QueueSteps ==
  ASSUME NEW N
  PROVE  \A F \in [N -> Seq(N)] : QueueStep(N, F)
<1>c. \A F \in [N -> Seq(N)] : \A s, t \in Seq(N) :
        Strung(F, Cat(s, t)) = Cat(Strung(F, s), Strung(F, t))
  BY StrungCat
<1>1. \A F \in [N -> Seq(N)] : \A e \in N : Strung(F, <<e>>) = F[e]
  BY StrungOne
<1>t. \A F \in [N -> Seq(N)] : \A s \in Seq(N) : Strung(F, s) \in Seq(N)
  BY StrungTypes
<1>o. /\ \A s, t \in Seq(N) : Cat(s, t) \in Seq(N)
      /\ \A s \in Seq(N), e \in N : Append(s, e) \in Seq(N) /\ Append(s, e) = Cat(s, <<e>>)
      /\ \A e \in N : <<e>> \in Seq(N)
  BY CatFacts
<1>a. \A s, t, u \in Seq(N) : Cat(Cat(s, t), u) = Cat(s, Cat(t, u))
  BY CatFacts
<1> SUFFICES ASSUME NEW F \in [N -> Seq(N)] PROVE QueueStep(N, F)
  OBVIOUS
<1>s. SUFFICES ASSUME NEW root \in N, NEW k \in N, NEW K \in Seq(N), NEW R \in Seq(N), NEW r \in Seq(N),
                    Cat(K, Cat(<<k>>, r)) = Cat(<<root>>, Strung(F, K)),
                    Cat(K, R) = Cat(<<root>>, Strung(F, Cat(K, R)))
             PROVE  /\ Append(K, k) \in Seq(N) /\ Cat(r, Strung(F, R)) \in Seq(N)
                    /\ Cat(K, R) = Cat(Append(K, k), Cat(r, Strung(F, R)))
                    /\ Cat(Append(K, k), Cat(r, F[k])) = Cat(<<root>>, Strung(F, Append(K, k)))
  BY DEF QueueStep
<1>p. PICK S, T, u, e, j, J :
      S = Strung(F, K) /\ T = Strung(F, R) /\ u = F[k] /\ e = <<root>> /\ j = <<k>> /\ J = Append(K, k)
  OBVIOUS
<1>2. S \in Seq(N) /\ T \in Seq(N) /\ e \in Seq(N) /\ j \in Seq(N) /\ J \in Seq(N) /\ J = Cat(K, j)
  BY <1>t, <1>o, <1>p
<1>3. u \in Seq(N)
  BY <1>p
<1>4. Strung(F, Cat(K, R)) = Cat(S, T)
  BY <1>c, <1>p
<1>5. Strung(F, J) = Cat(S, u)
  <2>1. Strung(F, j) = u
    BY <1>1, <1>p
  <2>2. Strung(F, Cat(K, j)) = Cat(Strung(F, K), Strung(F, j))
    BY <1>c, <1>2
  <2> QED
    BY <1>p, <1>2, <2>1, <2>2
<1>6. Cat(J, r) = Cat(e, S)
  <2>1. Cat(Cat(K, j), r) = Cat(K, Cat(j, r))
    BY <1>a, <1>2
  <2> QED
    BY <1>s, <1>p, <1>2, <2>1
<1>7. Cat(K, R) = Cat(J, Cat(r, T))
  <2>1. Cat(e, Cat(S, T)) = Cat(Cat(e, S), T)
    BY <1>a, <1>2
  <2>2. Cat(Cat(J, r), T) = Cat(J, Cat(r, T))
    BY <1>a, <1>2
  <2> QED
    BY <1>s, <1>p, <1>4, <1>6, <2>1, <2>2
<1>8. Cat(J, Cat(r, u)) = Cat(e, Cat(S, u))
  <2>1. Cat(e, Cat(S, u)) = Cat(Cat(e, S), u)
    BY <1>a, <1>2, <1>3
  <2>2. Cat(Cat(J, r), u) = Cat(J, Cat(r, u))
    BY <1>a, <1>2, <1>3
  <2> QED
    BY <1>6, <2>1, <2>2
<1>9. Cat(r, T) \in Seq(N)
  BY <1>o, <1>2
<1> QED
  BY <1>p, <1>2, <1>5, <1>7, <1>8, <1>9

\* lev holds the levels from the root down, upTo the first levels of them, in
\* one sequence.
IsLevels(lev, upTo, F, root, d, N) ==
  /\ lev \in [0 .. d -> Seq(N)] /\ upTo \in [0 .. d -> Seq(N)]
  /\ lev[0] = <<root>> /\ upTo[0] = << >>
  /\ \A n \in 1 .. d : lev[n] = Strung(F, lev[n - 1]) /\ upTo[n] = Cat(upTo[n - 1], lev[n - 1])

\* The first levels and the next are the root and all that became of the first
\* levels.
LevelsReproduce(N, F) ==
  \A root \in N, d \in Nat : \A lev, upTo :
    IsLevels(lev, upTo, F, root, d, N)
      => \A n \in 0 .. d : Cat(upTo[n], lev[n]) = Cat(<<root>>, Strung(F, upTo[n]))

\* The levels that any function of keys makes do so.
LEMMA LevelsDo ==
  ASSUME NEW N
  PROVE  \A F \in [N -> Seq(N)] : LevelsReproduce(N, F)
<1>c. \A F \in [N -> Seq(N)] : \A s, t \in Seq(N) :
        Strung(F, Cat(s, t)) = Cat(Strung(F, s), Strung(F, t))
  BY StrungCat
<1>t. \A F \in [N -> Seq(N)] : \A s \in Seq(N) : Strung(F, s) \in Seq(N)
  BY StrungTypes
<1>e. \A F \in [N -> Seq(N)] : Strung(F, << >>) = << >>
  BY StrungTypes
<1>a. \A x, y, z \in Seq(N) : Cat(Cat(x, y), z) = Cat(x, Cat(y, z))
  BY CatFacts
<1>o. /\ \A e \in N : <<e>> \in Seq(N)
      /\ \A s \in Seq(N) : Cat(s, << >>) = s /\ Cat(<< >>, s) = s
  BY CatFacts
<1> SUFFICES ASSUME NEW F \in [N -> Seq(N)] PROVE LevelsReproduce(N, F)
  OBVIOUS
<1>s. SUFFICES ASSUME NEW root \in N, NEW d \in Nat, NEW lev, NEW upTo,
                    IsLevels(lev, upTo, F, root, d, N)
             PROVE  \A n \in 0 .. d : Cat(upTo[n], lev[n]) = Cat(<<root>>, Strung(F, upTo[n]))
  BY DEF LevelsReproduce
<1>1. /\ \A n \in 0 .. d : lev[n] \in Seq(N) /\ upTo[n] \in Seq(N)
      /\ lev[0] = <<root>> /\ upTo[0] = << >>
      /\ \A n \in 1 .. d : lev[n] = Strung(F, lev[n - 1]) /\ upTo[n] = Cat(upTo[n - 1], lev[n - 1])
  BY <1>s DEF IsLevels
<1> DEFINE T == {n \in Nat : n \in 0 .. d => Cat(upTo[n], lev[n]) = Cat(<<root>>, Strung(F, upTo[n]))}
<1>2. 0 \in T
  BY <1>1, <1>e, <1>o
<1>3. ASSUME NEW n \in 0 .. d - 1, n \in T PROVE n + 1 \in T
  <2>1. n \in 0 .. d /\ n + 1 \in 1 .. d /\ n + 1 \in Nat /\ (n + 1) - 1 = n
    OBVIOUS
  <2>p. PICK u, l, v, m, e : u = upTo[n] /\ l = lev[n] /\ v = upTo[n + 1] /\ m = lev[n + 1] /\ e = <<root>>
    OBVIOUS
  <2>2. u \in Seq(N) /\ l \in Seq(N) /\ e \in Seq(N) /\ Cat(u, l) = Cat(e, Strung(F, u))
    BY <1>1, <1>3, <1>o, <2>1, <2>p
  <2>3. m = Strung(F, l) /\ v = Cat(u, l)
    BY <1>1, <2>1, <2>p
  <2>4. Strung(F, u) \in Seq(N) /\ Strung(F, l) \in Seq(N)
    BY <1>t, <2>2
  <2>5. Strung(F, v) = Cat(Strung(F, u), Strung(F, l))
    BY <1>c, <2>2, <2>3
  <2>q. PICK x, y : x = Strung(F, u) /\ y = Strung(F, l)
    OBVIOUS
  <2>a. x \in Seq(N) /\ y \in Seq(N)
    BY <2>4, <2>q
  <2>6. Cat(Cat(e, x), y) = Cat(e, Cat(x, y))
    BY <1>a, <2>2, <2>a
  <2>7. Cat(v, m) = Cat(e, Strung(F, v))
    BY <2>2, <2>3, <2>5, <2>6, <2>q
  <2> QED
    BY <2>1, <2>7, <2>p
<1> HIDE DEF T
<1>4. \A n \in 0 .. d : n \in T
  BY <1>2, <1>3, UpTo
<1> QED
  BY <1>4 DEF T

\* A queue that reproduces itself begins with all the levels.
LevelsFirst(N, F) ==
  \A root \in N, d \in Nat : \A lev, upTo :
    IsLevels(lev, upTo, F, root, d, N)
      => \A K \in Seq(N) : K = Cat(<<root>>, Strung(F, K))
           => \A n \in 0 .. d : \E R \in Seq(N) : K = Cat(upTo[n], R)

\* Such a queue has no other first keys.
LEMMA LevelsAreFirst ==
  ASSUME NEW N
  PROVE  \A F \in [N -> Seq(N)] : LevelsFirst(N, F)
<1>c. \A F \in [N -> Seq(N)] : \A s, t \in Seq(N) :
        Strung(F, Cat(s, t)) = Cat(Strung(F, s), Strung(F, t))
  BY StrungCat
<1>t. \A F \in [N -> Seq(N)] : \A s \in Seq(N) : Strung(F, s) \in Seq(N)
  BY StrungTypes
<1>a. \A x, y, z \in Seq(N) : Cat(Cat(x, y), z) = Cat(x, Cat(y, z))
  BY CatFacts
<1>r. \A F \in [N -> Seq(N)] : LevelsReproduce(N, F)
  BY LevelsDo
<1>o. /\ \A e \in N : <<e>> \in Seq(N)
      /\ \A s \in Seq(N) : Cat(<< >>, s) = s
  BY CatFacts
<1> SUFFICES ASSUME NEW F \in [N -> Seq(N)] PROVE LevelsFirst(N, F)
  OBVIOUS
<1>l. SUFFICES ASSUME NEW root \in N, NEW d \in Nat, NEW lev, NEW upTo,
                    IsLevels(lev, upTo, F, root, d, N)
             PROVE  \A K \in Seq(N) : K = Cat(<<root>>, Strung(F, K))
                      => \A n \in 0 .. d : \E R \in Seq(N) : K = Cat(upTo[n], R)
  BY DEF LevelsFirst
<1>s. SUFFICES ASSUME NEW K \in Seq(N), K = Cat(<<root>>, Strung(F, K))
             PROVE  \A n \in 0 .. d : \E R \in Seq(N) : K = Cat(upTo[n], R)
  OBVIOUS
<1>1. /\ \A n \in 0 .. d : lev[n] \in Seq(N) /\ upTo[n] \in Seq(N)
      /\ upTo[0] = << >>
      /\ \A n \in 1 .. d : upTo[n] = Cat(upTo[n - 1], lev[n - 1])
  BY <1>l DEF IsLevels
<1>2. \A n \in 0 .. d : Cat(upTo[n], lev[n]) = Cat(<<root>>, Strung(F, upTo[n]))
  BY <1>r, <1>l DEF LevelsReproduce
<1> DEFINE T == {n \in Nat : n \in 0 .. d => \E R \in Seq(N) : K = Cat(upTo[n], R)}
<1>3. 0 \in T
  <2>1. K = Cat(upTo[0], K)
    BY <1>1, <1>o, <1>s
  <2> QED
    BY <2>1
<1>4. ASSUME NEW n \in 0 .. d - 1, n \in T PROVE n + 1 \in T
  <2>1. n \in 0 .. d /\ n + 1 \in 1 .. d /\ n + 1 \in Nat /\ (n + 1) - 1 = n
    OBVIOUS
  <2>p. PICK u, v, e : u = upTo[n] /\ v = upTo[n + 1] /\ e = <<root>>
    OBVIOUS
  <2>2. PICK R \in Seq(N) : K = Cat(u, R)
    BY <1>4, <2>1, <2>p
  <2>3. u \in Seq(N) /\ e \in Seq(N) /\ v = Cat(e, Strung(F, u))
    BY <1>1, <1>2, <1>o, <2>1, <2>p
  <2>q. PICK x, y : x = Strung(F, u) /\ y = Strung(F, R)
    OBVIOUS
  <2>4. x \in Seq(N) /\ y \in Seq(N)
    BY <1>t, <2>3, <2>q
  <2>5. Strung(F, K) = Cat(x, y)
    BY <1>c, <2>2, <2>3, <2>q
  <2>6. K = Cat(v, y)
    <3>1. Cat(e, Cat(x, y)) = Cat(Cat(e, x), y)
      BY <1>a, <2>3, <2>4
    <3> QED
      BY <1>s, <2>3, <2>5, <2>p, <2>q, <3>1
  <2> QED
    BY <2>1, <2>4, <2>6, <2>p
<1> HIDE DEF T
<1>5. \A n \in 0 .. d : n \in T
  BY <1>3, <1>4, UpTo
<1> QED
  BY <1>5 DEF T

-----------------------------------------------------------------------------
\* The sequence B of keys is the root and the subkeys of its members in turn.
Reproduces(c, B) == B = Cat(<<Root>>, Strung(KidsOf(Family(c)), B))

\* The keys K that were returned are the first ones of B, and what is due is
\* what is left of the root and their subkeys.
BfsInv(c, B) ==
  \E K, R \in Seq(KeyCells) :
    /\ B = Cat(K, R)
    /\ items = Strung(ItemsOf(Family(c)), K)
    /\ Cat(K, Due) = Cat(<<Root>>, Strung(KidsOf(Family(c)), K))

\* What was returned and the pre-orders below the keys that are due are the
\* pre-order below the root.
DfsInv(t) == Cat(items, Strung(t, Due)) = t[Root]

\* Subkeys and items, key by key.
LEMMA FamilyParts ==
  ASSUME TypeOK, NEW c \in [Links -> Listing]
  PROVE  /\ KidsOf(Family(c)) \in [KeyCells -> Seq(KeyCells)]
         /\ ItemsOf(Family(c)) \in [KeyCells -> Seq(Item)]
         /\ \A k \in KeyCells :
              /\ KidsOf(Family(c))[k] = Family(c)[k].kids
              /\ ItemsOf(Family(c))[k] = <<[key |-> k, ok |-> Family(c)[k].ok]>>
              /\ [key |-> k, ok |-> Family(c)[k].ok] \in Item
<1>1. \A k \in KeyCells : Family(c)[k] \in [ok : BOOLEAN, kids : Seq(KeyCells)]
  BY FamilyTypes
<1>2. \A k \in KeyCells : k \in Offsets
  BY DEF KeyCells
<1>3. \A k \in KeyCells : [key |-> k, ok |-> Family(c)[k].ok] \in Item
  BY <1>1, <1>2 DEF Item
<1>4. KidsOf(Family(c)) \in [KeyCells -> Seq(KeyCells)]
  BY <1>1 DEF KidsOf
<1>5. ItemsOf(Family(c)) \in [KeyCells -> Seq(Item)]
  BY <1>3 DEF ItemsOf
<1> QED
  BY <1>3, <1>4, <1>5 DEF KidsOf, ItemsOf

\* Taking a key in breadth-first order.
LEMMA BfsTaken ==
  ASSUME Typed, NEW c \in [Links -> Listing], NEW B \in Seq(KeyCells), Root \in KeyCells,
         mode = "bfs", Reproduces(c, B), BfsInv(c, B), Taken(c)
  PROVE  \E K, R \in Seq(KeyCells) :
           /\ B = Cat(K, R)
           /\ items' = Strung(ItemsOf(Family(c)), K)
           /\ Cat(K, Due') = Cat(<<Root>>, Strung(KidsOf(Family(c)), K))
<1>t. TypeOK
  BY DEF Typed
<1>p. PICK F, I, N : F = KidsOf(Family(c)) /\ I = ItemsOf(Family(c)) /\ N = KeyCells
  OBVIOUS
<1>1. F \in [N -> Seq(N)] /\ I \in [N -> Seq(Item)]
  BY <1>t, <1>p, FamilyParts
<1>2. PICK K, R \in Seq(N) : B = Cat(K, R) /\ items = Strung(I, K) /\ Cat(K, Due) = Cat(<<Root>>, Strung(F, K))
  BY <1>p DEF BfsInv
<1>3. PICK r \in Seq(N) :
        /\ key \in N
        /\ Due = <<key>> \o r
        /\ items' = Append(items, [key |-> key, ok |-> Family(c)[key].ok])
        /\ Due' = r \o Family(c)[key].kids
  BY <1>p DEF Taken
<1>4. QueueStep(N, F)
  BY <1>1, QueueSteps
<1>5. /\ F[key] = Family(c)[key].kids
      /\ I[key] = <<[key |-> key, ok |-> Family(c)[key].ok]>>
      /\ [key |-> key, ok |-> Family(c)[key].ok] \in Item
  BY <1>t, <1>p, <1>3, FamilyParts
<1>6. /\ Cat(K, Cat(<<key>>, r)) = Cat(<<Root>>, Strung(F, K))
      /\ Cat(K, R) = Cat(<<Root>>, Strung(F, Cat(K, R)))
      /\ Root \in N
  BY <1>2, <1>3, <1>p DEF Cat, Reproduces
<1>7. /\ Append(K, key) \in Seq(N) /\ Cat(r, Strung(F, R)) \in Seq(N)
      /\ Cat(K, R) = Cat(Append(K, key), Cat(r, Strung(F, R)))
      /\ Cat(Append(K, key), Cat(r, F[key])) = Cat(<<Root>>, Strung(F, Append(K, key)))
  BY <1>3, <1>4, <1>6 DEF QueueStep
<1>8. Strung(I, Append(K, key)) = items'
  <2>1. Strung(I, Append(K, key)) = Strung(I, K) \o I[key]
    BY <1>1, <1>3, StrungAppend, ZenonT(40)
  <2>2. items \in Seq(Item)
    BY <1>t DEF TypeOK
  <2>p. PICK i : i = [key |-> key, ok |-> Family(c)[key].ok]
    OBVIOUS
  <2>3. i \in Item /\ I[key] = <<i>> /\ items' = Append(items, i)
    BY <1>3, <1>5, <2>p
  <2>4. Append(items, i) = items \o <<i>>
    BY <2>2, <2>3, AppendIsConcat
  <2> QED
    BY <1>2, <2>1, <2>3, <2>4
<1>9. Due' = Cat(r, F[key])
  BY <1>3, <1>5 DEF Cat
<1> QED
  BY <1>2, <1>7, <1>8, <1>9, <1>p

\* What becomes of two sequences of keys, for proofs about one function.
LEMMA StrungItems ==
  ASSUME NEW N
  PROVE  \A f \in [N -> Seq(Item)] : \A s, u \in Seq(N) :
           Strung(f, Cat(s, u)) = Cat(Strung(f, s), Strung(f, u))
  BY StrungCat

\* Taking a key in depth-first order.
LEMMA DfsTaken ==
  ASSUME Typed, NEW c \in [Links -> Listing], NEW t \in [KeyCells -> Seq(Item)],
         mode # "bfs", Below(Family(c), t)[key] = t[key], DfsInv(t), Taken(c)
  PROVE  Cat(items', Strung(t, Due')) = t[Root]
<1>t. TypeOK /\ items \in Seq(Item)
  BY DEF Typed, TypeOK
<1>1. PICK r \in Seq(KeyCells) :
        /\ key \in KeyCells
        /\ Due = <<key>> \o r
        /\ items' = Append(items, [key |-> key, ok |-> Family(c)[key].ok])
        /\ Due' = Family(c)[key].kids \o r
  BY DEF Taken
<1>p. PICK k, i, o : /\ k = Family(c)[key].kids
                     /\ i = <<[key |-> key, ok |-> Family(c)[key].ok]>>
                     /\ o = [key |-> key, ok |-> Family(c)[key].ok]
  OBVIOUS
<1>2. k \in Seq(KeyCells) /\ i \in Seq(Item) /\ o \in Item /\ i = <<o>>
  <2>1. Family(c)[key] \in [ok : BOOLEAN, kids : Seq(KeyCells)]
    BY <1>t, <1>1, FamilyTypes
  <2>2. [key |-> key, ok |-> Family(c)[key].ok] \in Item
    BY <1>t, <1>1, FamilyParts
  <2> QED
    BY <2>1, <2>2, <1>p
<1>3. t[key] = Cat(i, Strung(t, k))
  <2>1. Below(Family(c), t)[key] = ItemsOf(Family(c))[key] \o Strung(t, k)
    BY <1>1, <1>p DEF Below
  <2>2. ItemsOf(Family(c))[key] = i
    BY <1>1, <1>p DEF ItemsOf
  <2> QED
    BY <2>1, <2>2 DEF Cat
<1>c. \A f \in [KeyCells -> Seq(Item)] : \A s, u \in Seq(KeyCells) :
        Strung(f, Cat(s, u)) = Cat(Strung(f, s), Strung(f, u))
  BY StrungItems
<1>a. \A x, y, z \in Seq(Item) : Cat(Cat(x, y), z) = Cat(x, Cat(y, z))
  BY CatFacts
<1>q. PICK u, v : u = Strung(t, k) /\ v = Strung(t, r)
  OBVIOUS
<1>4. u \in Seq(Item) /\ v \in Seq(Item)
  BY <1>2, <1>q, StrungTypes
<1>5. Strung(t, Due) = Cat(Cat(i, u), v)
  <2>1. <<key>> \in Seq(KeyCells) /\ Due = Cat(<<key>>, r)
    BY <1>1 DEF Cat
  <2>2. Strung(t, <<key>>) = t[key]
    BY <1>1, StrungOne
  <2>3. Strung(t, Cat(<<key>>, r)) = Cat(Strung(t, <<key>>), v)
    BY <1>c, <1>q, <2>1
  <2> QED
    BY <1>3, <1>q, <2>1, <2>2, <2>3
<1>6. Strung(t, Due') = Cat(u, v)
  <2>1. Due' = Cat(k, r)
    BY <1>1, <1>p DEF Cat
  <2>2. Strung(t, Cat(k, r)) = Cat(Strung(t, k), Strung(t, r))
    BY <1>c, <1>2
  <2> QED
    BY <1>q, <2>1, <2>2
<1>7. items' = Cat(items, i)
  <2>1. items' = Append(items, o)
    BY <1>1, <1>p
  <2>2. Append(items, o) = Cat(items, <<o>>)
    BY <1>t, <1>2, AppendIsConcat DEF Cat
  <2> QED
    BY <1>2, <2>1, <2>2
<1>8. Cat(Cat(items, i), Cat(u, v)) = Cat(items, Cat(Cat(i, u), v))
  <2>1. Cat(u, v) \in Seq(Item)
    BY <1>4, CatFacts
  <2>2. Cat(Cat(items, i), Cat(u, v)) = Cat(items, Cat(i, Cat(u, v)))
    BY <1>t, <1>2, <1>a, <2>1
  <2>3. Cat(i, Cat(u, v)) = Cat(Cat(i, u), v)
    BY <1>2, <1>4, <1>a
  <2> QED
    BY <2>2, <2>3
<1> QED
  BY <1>5, <1>6, <1>7, <1>8 DEF DfsInv

-----------------------------------------------------------------------------
\* The account of a walk that has begun, for any listing c of the cells the
\* root leads to and any order that fits it.
Accounted(c, S) ==
  /\ CallInv(c)
  /\ mode = "bfs" => \A B \in Seq(KeyCells) : Reproduces(c, B) => BfsInv(c, B)
  /\ mode = "dfs" => \A t \in [KeyCells -> Seq(Item)] :
                       (\A k \in S \intersect KeyCells : Below(Family(c), t)[k] = t[k]) => DfsInv(t)

ListingOf(c, S) == \A o \in S : Listed(c)[o] = c[o]

OrderInv ==
  /\ pc \in {"new", "failed"} => items = << >>
  /\ pc \notin {"new", "failed"} => Tag(Root) = "nk"
  /\ pc \in {"new", "done"} => pending = << >>
  /\ pc \notin {"new", "failed"} =>
       \A S \in SUBSET Links, c \in [Links -> Listing] :
         Closed(S) /\ ListingOf(c, S) => Accounted(c, S)

\* The reference definitions speak of the hive alone.
LEMMA SameAccount ==
  ASSUME UNCHANGED hive, NEW c, NEW S
  PROVE  /\ \A B : Reproduces(c, B)' <=> Reproduces(c, B)
         /\ ItemsOf(Family(c))' = ItemsOf(Family(c))
         /\ KidsOf(Family(c))' = KidsOf(Family(c))
         /\ \A t : Below(Family(c), t)' = Below(Family(c), t)
         /\ ListingOf(c, S)' <=> ListingOf(c, S)
         /\ Closed(S)' <=> Closed(S)
<1>1. KeyCells' = KeyCells /\ Family(c)' = Family(c) /\ Listed(c)' = Listed(c)
  BY SameReference
<1>2. ItemsOf(Family(c))' = ItemsOf(Family(c)) /\ KidsOf(Family(c))' = KidsOf(Family(c))
  BY <1>1 DEF ItemsOf, KidsOf
<1>3. \A B : Reproduces(c, B)' <=> Reproduces(c, B)
  BY <1>2 DEF Reproduces
<1>4. \A t : Below(Family(c), t)' = Below(Family(c), t)
  BY <1>1, <1>2 DEF Below
<1>5. ListingOf(c, S)' <=> ListingOf(c, S)
  BY <1>1 DEF ListingOf
<1>6. Closed(S)' <=> Closed(S)
  BY DEF Closed
<1> QED
  BY <1>2, <1>3, <1>4, <1>5, <1>6

\* A new walk has returned nothing and is due the root.
LEMMA NewAccount ==
  ASSUME Typed, NewIter, Tag(Root) = "nk", items = << >>, NEW c \in [Links -> Listing], NEW S
  PROVE  Accounted(c, S)'
<1>1. /\ pc' = "ready" /\ pending' = <<Root>> /\ items' = << >> /\ UNCHANGED <<hive, mode>>
  BY DEF NewIter
<1>2. Root \in KeyCells
  BY KeySequences
<1>3. Due' = <<Root>>
  <2>1. Reversed(<<Root>>) = <<Root>>
    <3>1. Reversed(<<Root>>) = [n \in 1 .. 1 |-> Root]
      BY DEF Reversed
    <3> QED
      BY <3>1
  <2>2. Due' = << >> \o <<Root>>
    BY <1>1, <2>1 DEF Due, Reversed
  <2>3. <<Root>> \in Seq(KeyCells)
    BY <1>2
  <2> QED
    BY <2>2, <2>3, ConcatEmptySeq
<1>t. TypeOK
  BY DEF Typed
<1>4. KeyCells' = KeyCells
  BY <1>1, SameReference
<1>5. CallInv(c)'
  BY <1>1 DEF CallInv
<1>p. PICK F, I, N : F = KidsOf(Family(c)) /\ I = ItemsOf(Family(c)) /\ N = KeyCells
  OBVIOUS
<1>6. /\ F \in [N -> Seq(N)] /\ I \in [N -> Seq(Item)]
      /\ KidsOf(Family(c))' = F /\ ItemsOf(Family(c))' = I
  BY <1>1, <1>t, <1>p, FamilyParts, SameAccount
<1>7. ASSUME NEW B \in Seq(N) PROVE BfsInv(c, B)'
  <2>1. Strung(I, << >>) = << >> /\ Strung(F, << >>) = << >>
    BY <1>6, StrungTypes
  <2>2. B = Cat(<< >>, B) /\ Cat(<< >>, <<Root>>) = Cat(<<Root>>, << >>) /\ << >> \in Seq(N)
    <3>1. <<Root>> \in Seq(N)
      BY <1>2, <1>p
    <3>2. Cat(<< >>, <<Root>>) = <<Root>> /\ Cat(<<Root>>, << >>) = <<Root>>
      BY <3>1, ConcatEmptySeq DEF Cat
    <3>3. Cat(<< >>, B) = B
      BY ConcatEmptySeq DEF Cat
    <3> QED
      BY <3>2, <3>3
  <2>3. \E K, R \in Seq(N) : /\ B = Cat(K, R)
                             /\ items' = Strung(I, K)
                             /\ Cat(K, Due') = Cat(<<Root>>, Strung(F, K))
    BY <1>1, <1>3, <2>1, <2>2
  <2> QED
    BY <1>4, <1>6, <1>p, <2>3 DEF BfsInv
<1>8. ASSUME NEW t \in [N -> Seq(Item)] PROVE DfsInv(t)'
  <2>1. Strung(t, <<Root>>) = t[Root] /\ t[Root] \in Seq(Item)
    BY <1>2, <1>p, StrungOne
  <2>2. Cat(<< >>, t[Root]) = t[Root]
    BY <2>1, CatFacts
  <2> QED
    BY <1>1, <1>3, <2>1, <2>2 DEF DfsInv
<1> QED
  BY <1>4, <1>5, <1>7, <1>8, <1>p DEF Accounted

\* The account is kept: a key is taken, or nothing becomes due and nothing is
\* returned.
LEMMA NextAccount ==
  ASSUME Typed, [Next]_vars, pc # "new", Tag(Root) = "nk",
         NEW c \in [Links -> Listing], NEW S, Within(S), Closed(S),
         ListingOf(c, S), Accounted(c, S)
  PROVE  Accounted(c, S)'
<1>t. TypeOK /\ UNCHANGED <<hive, mode>> /\ mode \in {"bfs", "dfs"}
  BY DEF Typed, TypeOK, Next, vars, NewIter, Exhausted, PopKey, ReadList, ListUnreadable,
         ListsRead, ReadSubkey, SubkeyUnreadable, YieldKey, YieldError
<1>1. CallInv(c) /\ \A o \in S : Listed(c)[o] = c[o]
  BY DEF Accounted, ListingOf
<1>2. CallInv(c)'
  BY <1>1, NextCall
<1>3. Taken(c) \/ (Due' = Due /\ items' = items)
  BY <1>1, DueMoves
<1>p. PICK F, I, N : F = KidsOf(Family(c)) /\ I = ItemsOf(Family(c)) /\ N = KeyCells
  OBVIOUS
<1>4. /\ KeyCells' = KeyCells
      /\ KidsOf(Family(c))' = F /\ ItemsOf(Family(c))' = I
      /\ \A B : Reproduces(c, B)' <=> Reproduces(c, B)
      /\ \A t : Below(Family(c), t)' = Below(Family(c), t)
  BY <1>t, <1>p, SameReference, SameAccount
<1>5. Root \in KeyCells
  BY KeySequences
<1>6. ASSUME mode = "bfs", NEW B \in Seq(N), Reproduces(c, B)
      PROVE  BfsInv(c, B)'
  <2>1. BfsInv(c, B)
    BY <1>6, <1>p DEF Accounted
  <2>2. \E K, R \in Seq(KeyCells) :
           /\ B = Cat(K, R)
           /\ items' = Strung(ItemsOf(Family(c)), K)
           /\ Cat(K, Due') = Cat(<<Root>>, Strung(KidsOf(Family(c)), K))
    <3>1. CASE Taken(c)
      BY <1>5, <1>6, <1>p, <2>1, <3>1, BfsTaken
    <3>2. CASE Due' = Due /\ items' = items
      BY <2>1, <3>2 DEF BfsInv
    <3> QED
      BY <1>3, <3>1, <3>2
  <2> QED
    BY <1>4, <1>p, <2>2 DEF BfsInv
<1>7. ASSUME mode = "dfs", NEW t \in [N -> Seq(Item)],
             \A k \in S \intersect KeyCells : Below(Family(c), t)[k] = t[k]
      PROVE  DfsInv(t)'
  <2>1. DfsInv(t)
    BY <1>7, <1>p DEF Accounted
  <2>2. CASE Taken(c)
    <3>1. key \in S /\ key \in KeyCells
      <4>1. pc \in {"collect", "read"}
        BY <2>2 DEF Taken
      <4> QED
        BY <4>1, KeySequences DEF Within
    <3>2. Below(Family(c), t)[key] = t[key]
      BY <1>7, <3>1
    <3> QED
      BY <1>7, <1>p, <2>1, <2>2, <3>2, DfsTaken DEF DfsInv
  <2>3. CASE Due' = Due /\ items' = items
    BY <2>1, <2>3 DEF DfsInv
  <2> QED
    BY <1>3, <2>2, <2>3
<1> QED
  BY <1>2, <1>4, <1>6, <1>7, <1>p, <1>t DEF Accounted

\* Before the walk begins there is nothing to account for.
LEMMA InitOrder == Init => OrderInv
  BY DEF Init, OrderInv

\* Every step of an iterator keeps the account.
LEMMA NextOrder == IInv /\ OrderInv /\ [Next]_vars => OrderInv'
<1> SUFFICES ASSUME IInv, OrderInv, [Next]_vars PROVE OrderInv'
  OBVIOUS
<1>t. Typed
  BY DEF IInv
<1>h. UNCHANGED hive /\ Tag(Root)' = Tag(Root)
  BY HiveUnchanged
<1>1. CASE NewIter
  <2>1. pc = "new" /\ UNCHANGED items /\ items = << >>
    BY <1>1 DEF NewIter, OrderInv
  <2>2. CASE Tag(Root) = "nk"
    <3>1. pc' = "ready"
      BY <1>1, <2>2 DEF NewIter
    <3>2. ASSUME NEW S \in SUBSET Links, NEW c \in [Links -> Listing] PROVE Accounted(c, S)'
      BY <1>1, <1>t, <2>1, <2>2, NewAccount
    <3> QED
      BY <1>h, <2>1, <2>2, <3>1, <3>2 DEF OrderInv
  <2>3. CASE Tag(Root) # "nk"
    BY <1>1, <2>1, <2>3 DEF NewIter, OrderInv
  <2> QED
    BY <2>2, <2>3
<1>2. CASE pc = "failed"
  BY <1>2 DEF OrderInv, Next, vars, NewIter, Exhausted, PopKey, ReadList, ListUnreadable,
              ListsRead, ReadSubkey, SubkeyUnreadable, YieldKey
<1>3. CASE pc = "new" /\ UNCHANGED vars
  BY <1>3 DEF OrderInv, vars
<1>4. CASE pc \notin {"new", "failed"}
  <2>1. Tag(Root) = "nk" /\ pc' \notin {"new", "failed"} /\ (pc' = "done" => pending' = << >>)
    BY <1>4 DEF OrderInv, Next, vars, NewIter, Exhausted, PopKey, ReadList, ListUnreadable,
                ListsRead, ReadSubkey, SubkeyUnreadable, YieldKey, YieldError
  <2>2. ASSUME NEW S \in SUBSET Links, NEW c \in [Links -> Listing],
               Closed(S)', ListingOf(c, S)'
        PROVE  Accounted(c, S)'
    <3>1. Closed(S) /\ ListingOf(c, S)
      BY <1>h, <2>2, SameAccount
    <3>2. Within(S) /\ Accounted(c, S)
      BY <1>4, <3>1 DEF IInv, OrderInv
    <3> QED
      BY <1>4, <1>t, <2>1, <3>1, <3>2, NextAccount
  <2> QED
    BY <1>h, <2>1, <2>2 DEF OrderInv
<1> QED
  <2>1. pc = "new" => NewIter \/ UNCHANGED vars
    BY DEF Next, Exhausted, PopKey, ReadList, ListUnreadable,
           ListsRead, ReadSubkey, SubkeyUnreadable, YieldKey
  <2> QED
    BY <1>1, <1>2, <1>3, <1>4, <2>1

-----------------------------------------------------------------------------
\* The recursions are defined: what the cells list ...
LEMMA ListingsTypes ==
  ASSUME TypeOK
  PROVE  \A n \in 0 .. Depth : Listings[n] \in [Links -> Listing]
<1>v. PICK V, d : V = [Links -> Listing] /\ d = Depth
  OBVIOUS
<1>b. PICK base : base = [o \in Links |-> [ok |-> TRUE, offs |-> << >>]]
  OBVIOUS
<1>1. base \in V /\ d \in Nat
  BY <1>v, <1>b, DepthAssumption DEF Listing
<1>2. \A c \in V : Listed(c) \in V
  BY <1>v, ListingTypes
<1>3. PICK f \in [0 .. d -> V] : f[0] = base /\ \A i \in 1 .. d : f[i] = Listed(f[i - 1])
  <2> DEFINE H == [c \in V |-> Listed(c)]
  <2>1. H \in [V -> V] /\ \A c \in V : H[c] = Listed(c)
    BY <1>2
  <2> HIDE DEF H
  <2>2. \E f : Repeats(f, H, V, base, d)
    BY <1>1, <2>1, Repeated
  <2>3. \A f \in [0 .. d -> V] : \A i \in 1 .. d : f[i - 1] \in V
    BY <1>1
  <2> QED
    BY <2>1, <2>2, <2>3, ZenonT(40) DEF Repeats
<1>4. f = [n \in 0 .. d |-> IF n = 0 THEN base ELSE Listed(f[n - 1])]
  BY <1>1, <1>3
<1>5. Listings = CHOOSE g : g = [n \in 0 .. d |-> IF n = 0 THEN base ELSE Listed(g[n - 1])]
  BY <1>v, <1>b DEF Listings
<1>6. Listings = [n \in 0 .. d |-> IF n = 0 THEN base ELSE Listed(Listings[n - 1])]
  BY <1>4, <1>5
<1>7. Listings[0] = base /\ \A n \in 1 .. d : Listings[n] = Listed(Listings[n - 1])
  <2>1. Listings[0] = base
    BY <1>1, <1>6
  <2>2. ASSUME NEW n \in 1 .. d PROVE Listings[n] = Listed(Listings[n - 1])
    <3>1. n \in 0 .. d /\ n # 0
      BY <1>1
    <3> QED
      BY <1>6, <3>1
  <2> QED
    BY <2>1, <2>2
<1>8. \A n \in 0 .. d : Listings[n] \in V
  BY <1>1, <1>2, <1>7, StepsStay
<1> QED
  BY <1>v, <1>8

\* ... the pre-orders below the keys ...
LEMMA OrdersTypes ==
  ASSUME TypeOK
  PROVE  \A n \in 0 .. Depth : Orders[n] \in [KeyCells -> Seq(Item)]
<1>v. PICK V, d : V = [KeyCells -> Seq(Item)] /\ d = Depth
  OBVIOUS
<1>b. PICK base, F : base = [k \in KeyCells |-> << >>] /\ F = Family(Listings[Depth])
  OBVIOUS
<1>1. base \in V /\ d \in Nat
  BY <1>v, <1>b, DepthAssumption
<1>2. \A t \in V : Below(F, t) \in V
  <2>1. Listings[Depth] \in [Links -> Listing]
    BY ListingsTypes, DepthAssumption
  <2>2. F \in [KeyCells -> [ok : BOOLEAN, kids : Seq(KeyCells)]]
    BY <1>b, <2>1, FamilyTypes
  <2>3. \A k \in KeyCells : ItemsOf(F)[k] \in Seq(Item)
    BY <1>b, <2>1, FamilyParts
  <2>4. \A t \in V : \A s \in Seq(KeyCells) : Strung(t, s) \in Seq(Item)
    BY <1>v, StrungTypes
  <2>5. \A t \in V : \A k \in KeyCells : ItemsOf(F)[k] \o Strung(t, F[k].kids) \in Seq(Item)
    <3>1. \A k \in KeyCells : F[k].kids \in Seq(KeyCells)
      BY <2>2
    <3>2. \A x, y \in Seq(Item) : x \o y \in Seq(Item)
      OBVIOUS
    <3> QED
      BY <2>3, <2>4, <3>1, <3>2
  <2> QED
    BY <1>v, <2>5 DEF Below
<1>3. PICK f \in [0 .. d -> V] : f[0] = base /\ \A i \in 1 .. d : f[i] = Below(F, f[i - 1])
  <2> DEFINE H == [t \in V |-> Below(F, t)]
  <2>1. H \in [V -> V] /\ \A t \in V : H[t] = Below(F, t)
    BY <1>2
  <2> HIDE DEF H
  <2>2. \E f : Repeats(f, H, V, base, d)
    BY <1>1, <2>1, Repeated
  <2>3. \A f \in [0 .. d -> V] : \A i \in 1 .. d : f[i - 1] \in V
    BY <1>1
  <2> QED
    BY <2>1, <2>2, <2>3, ZenonT(40) DEF Repeats
<1>4. f = [n \in 0 .. d |-> IF n = 0 THEN base ELSE Below(F, f[n - 1])]
  BY <1>1, <1>3
<1>5. Orders = CHOOSE g : g = [n \in 0 .. d |-> IF n = 0 THEN base ELSE Below(F, g[n - 1])]
  BY <1>v, <1>b DEF Orders
<1>6. Orders = [n \in 0 .. d |-> IF n = 0 THEN base ELSE Below(F, Orders[n - 1])]
  BY <1>4, <1>5
<1>7. Orders[0] = base /\ \A n \in 1 .. d : Orders[n] = Below(F, Orders[n - 1])
  <2>1. Orders[0] = base
    BY <1>1, <1>6
  <2>2. ASSUME NEW n \in 1 .. d PROVE Orders[n] = Below(F, Orders[n - 1])
    <3>1. n \in 0 .. d /\ n # 0
      BY <1>1
    <3> QED
      BY <1>6, <3>1
  <2> QED
    BY <2>1, <2>2
<1>8. \A n \in 0 .. d : Orders[n] \in V
  BY <1>1, <1>2, <1>7, StepsStay
<1> QED
  BY <1>v, <1>8

\* ... and the levels below the root.
LEMMA LevelsTypes ==
  ASSUME TypeOK, Root \in KeyCells
  PROVE  /\ \A n \in 0 .. Depth : Levels[n] \in Seq(KeyCells)
         /\ Levels[0] = <<Root>>
         /\ \A n \in 1 .. Depth :
              Levels[n] = Strung(KidsOf(Family(Listings[Depth])), Levels[n - 1])
<1>v. PICK V, d : V = Seq(KeyCells) /\ d = Depth
  OBVIOUS
<1>b. PICK base, F : base = <<Root>> /\ F = KidsOf(Family(Listings[Depth]))
  OBVIOUS
<1>1. base \in V /\ d \in Nat
  BY <1>v, <1>b, DepthAssumption
<1>2. \A s \in V : Strung(F, s) \in V
  <2>1. Listings[Depth] \in [Links -> Listing]
    BY ListingsTypes, DepthAssumption
  <2>2. F \in [KeyCells -> Seq(KeyCells)]
    BY <1>b, <2>1, FamilyParts
  <2> QED
    BY <1>v, <2>2, StrungTypes
<1>3. PICK f \in [0 .. d -> V] : f[0] = base /\ \A i \in 1 .. d : f[i] = Strung(F, f[i - 1])
  <2> DEFINE H == [s \in V |-> Strung(F, s)]
  <2>1. H \in [V -> V] /\ \A s \in V : H[s] = Strung(F, s)
    BY <1>2
  <2> HIDE DEF H
  <2>2. \E f : Repeats(f, H, V, base, d)
    BY <1>1, <2>1, Repeated
  <2>3. \A f \in [0 .. d -> V] : \A i \in 1 .. d : f[i - 1] \in V
    BY <1>1
  <2> QED
    BY <2>1, <2>2, <2>3, ZenonT(40) DEF Repeats
<1>4. f = [n \in 0 .. d |-> IF n = 0 THEN base ELSE Strung(F, f[n - 1])]
  BY <1>1, <1>3
<1>5. Levels = CHOOSE g : g = [n \in 0 .. d |-> IF n = 0 THEN base ELSE Strung(F, g[n - 1])]
  BY <1>v, <1>b DEF Levels
<1>6. Levels = [n \in 0 .. d |-> IF n = 0 THEN base ELSE Strung(F, Levels[n - 1])]
  BY <1>4, <1>5
<1>7. Levels[0] = base /\ \A n \in 1 .. d : Levels[n] = Strung(F, Levels[n - 1])
  <2>1. Levels[0] = base
    BY <1>1, <1>6
  <2>2. ASSUME NEW n \in 1 .. d PROVE Levels[n] = Strung(F, Levels[n - 1])
    <3>1. n \in 0 .. d /\ n # 0
      BY <1>1
    <3> QED
      BY <1>6, <3>1
  <2> QED
    BY <2>1, <2>2
<1>8. \A n \in 0 .. d : Levels[n] \in V
  BY <1>1, <1>2, <1>7, StepsStay
<1> QED
  BY <1>v, <1>b, <1>7, <1>8

\* LevelOrder is the levels one after the other.
LEMMA LevelOrderIs ==
  ASSUME TypeOK, Root \in KeyCells
  PROVE  \E lev, upTo :
           /\ IsLevels(lev, upTo, KidsOf(Family(Listings[Depth])), Root, Depth, KeyCells)
           /\ upTo[Depth] = LevelOrder /\ lev[Depth] = Levels[Depth]
<1>p. PICK N, d, F : N = KeyCells /\ d = Depth /\ F = KidsOf(Family(Listings[Depth]))
  OBVIOUS
<1>1. /\ d \in Nat /\ \A n \in 0 .. d : Levels[n] \in Seq(N)
      /\ Levels[0] = <<Root>>
      /\ \A n \in 1 .. d : Levels[n] = Strung(F, Levels[n - 1])
  BY <1>p, LevelsTypes, DepthAssumption
<1> DEFINE ss == [n \in 1 .. d |-> Levels[n - 1]]
           lev == [n \in 0 .. d |-> Levels[n]]
<1>2. ss \in Seq(Seq(N)) /\ Len(ss) = d
  <2>1. \A n \in 1 .. d : Levels[n - 1] \in Seq(N)
    <3>1. \A n \in 1 .. d : n - 1 \in 0 .. d
      BY <1>1
    <3> QED
      BY <1>1, <3>1
  <2>2. ss \in [1 .. d -> Seq(N)]
    BY <2>1
  <2> HIDE DEF ss
  <2> QED
    BY <1>1, <2>2, FunctionIsSeq
<1>3. LevelOrder = FlattenSeq(ss)
  BY <1>p DEF LevelOrder
<1>4. \A i \in 1 .. d : ss[i] = Levels[i - 1] /\ lev[i - 1] = Levels[i - 1] /\ lev[i] = Levels[i]
  <2>1. \A i \in 1 .. d : i \in 0 .. d /\ i - 1 \in 0 .. d
    BY <1>1
  <2> QED
    BY <2>1
<1>5. lev \in [0 .. d -> Seq(N)] /\ lev[0] = Levels[0] /\ lev[d] = Levels[d]
  BY <1>1
<1> HIDE DEF ss, lev
<1>6. PICK upTo : IsFlattening(upTo, ss, N)
  BY <1>2, FlatteningExists
<1>7. /\ upTo \in [0 .. d -> Seq(N)] /\ upTo[0] = << >>
      /\ \A i \in 1 .. d : upTo[i] = upTo[i - 1] \o ss[i]
  BY <1>2, <1>6 DEF IsFlattening
<1>8. upTo[d] = LevelOrder
  BY <1>2, <1>3, <1>6, FlattenIs
<1>9. \A n \in 1 .. d : lev[n] = Strung(F, lev[n - 1]) /\ upTo[n] = Cat(upTo[n - 1], lev[n - 1])
  BY <1>1, <1>4, <1>7 DEF Cat
<1>10. IsLevels(lev, upTo, F, Root, d, N)
  BY <1>1, <1>5, <1>7, <1>9 DEF IsLevels
<1> QED
  BY <1>5, <1>8, <1>10, <1>p

\* A walk whose account is kept has returned the first keys of the levels ...
LEMMA BfsFollows ==
  ASSUME Typed, Root \in KeyCells, mode = "bfs", Levels[Depth] = << >>,
         NEW S, Accounted(Listings[Depth], S)
  PROVE  /\ IsPrefix(items, Reference)
         /\ Due = << >> => items = Reference
<1>t. TypeOK
  BY DEF Typed
<1>p. PICK N, d, c : N = KeyCells /\ d = Depth /\ c = Listings[Depth]
  OBVIOUS
<1>q. PICK F, I, B : F = KidsOf(Family(c)) /\ I = ItemsOf(Family(c)) /\ B = LevelOrder
  OBVIOUS
<1>1. d \in Nat /\ c \in [Links -> Listing]
  BY <1>p, <1>t, ListingsTypes, DepthAssumption
<1>2. F \in [N -> Seq(N)] /\ I \in [N -> Seq(Item)]
  BY <1>1, <1>p, <1>q, <1>t, FamilyParts
<1>3. PICK lev, upTo : IsLevels(lev, upTo, F, Root, d, N) /\ upTo[d] = B /\ lev[d] = << >>
  BY <1>p, <1>q, <1>t, LevelOrderIs
<1>4. B \in Seq(N)
  BY <1>1, <1>3 DEF IsLevels
<1>5. B = Cat(<<Root>>, Strung(F, B))
  <2>1. LevelsReproduce(N, F)
    BY <1>2, LevelsDo
  <2>2. Cat(upTo[d], lev[d]) = Cat(<<Root>>, Strung(F, upTo[d]))
    BY <1>1, <1>3, <1>p, <2>1 DEF LevelsReproduce
  <2>3. Cat(B, << >>) = B
    BY <1>4, ConcatEmptySeq DEF Cat
  <2> QED
    BY <1>3, <2>2, <2>3
<1>6. BfsInv(c, B)
  BY <1>4, <1>5, <1>p, <1>q DEF Accounted, Reproduces
<1>7. PICK K, R \in Seq(N) : B = Cat(K, R) /\ items = Strung(I, K) /\ Cat(K, Due) = Cat(<<Root>>, Strung(F, K))
  BY <1>6, <1>p, <1>q DEF BfsInv
<1>8. Reference = Strung(I, B)
  BY <1>p, <1>q DEF Reference
<1>9. IsPrefix(items, Reference)
  <2>1. \A f \in [N -> Seq(Item)] : \A s, u \in Seq(N) : Strung(f, Cat(s, u)) = Cat(Strung(f, s), Strung(f, u))
    BY StrungItems
  <2>p. PICK x, y : x = Strung(I, K) /\ y = Strung(I, R)
    OBVIOUS
  <2>2. Strung(I, B) = x \o y
    BY <1>2, <1>7, <2>1, <2>p DEF Cat
  <2>3. x \in Seq(Item) /\ y \in Seq(Item)
    BY <1>2, <1>7, <2>p, StrungTypes
  <2>4. IsPrefix(x, x \o y)
    BY <2>3, PrefixOf
  <2> QED
    BY <1>7, <1>8, <2>2, <2>4, <2>p
<1>10. ASSUME Due = << >> PROVE items = Reference
  <2>1. Cat(K, << >>) = K
    BY ConcatEmptySeq DEF Cat
  <2>2. K = Cat(<<Root>>, Strung(F, K))
    BY <1>7, <1>10, <2>1
  <2>3. LevelsFirst(N, F)
    BY <1>2, LevelsAreFirst
  <2>6. \A n \in 0 .. d : \E r \in Seq(N) : K = Cat(upTo[n], r)
    <3>1. \A k \in Seq(N) : k = Cat(<<Root>>, Strung(F, k))
            => \A n \in 0 .. d : \E r \in Seq(N) : k = Cat(upTo[n], r)
      BY <1>1, <1>3, <1>p, <2>3 DEF LevelsFirst
    <3> QED
      BY <2>2, <3>1
  <2>7. d \in 0 .. d /\ upTo[d] = B
    BY <1>1, <1>3
  <2>4. PICK r \in Seq(N) : K = Cat(B, r)
    BY <2>6, <2>7
  <2>5. K = B
    BY <1>4, <1>7, <2>4, BothFirst DEF Cat
  <2> QED
    BY <1>7, <1>8, <2>5
<1> QED
  BY <1>9, <1>10

\* ... or of the pre-order.
LEMMA DfsFollows ==
  ASSUME Typed, Root \in KeyCells, mode = "dfs", NEW S, Accounted(Listings[Depth], S),
         \A k \in S \intersect KeyCells :
           Below(Family(Listings[Depth]), Orders[Depth])[k] = Orders[Depth][k]
  PROVE  /\ IsPrefix(items, Reference)
         /\ Due = << >> => items = Reference
<1>t. TypeOK /\ items \in Seq(Item)
  BY DEF Typed, TypeOK
<1>p. PICK t : t = Orders[Depth]
  OBVIOUS
<1>1. t \in [KeyCells -> Seq(Item)]
  BY <1>p, <1>t, OrdersTypes, DepthAssumption
<1>2. Cat(items, Strung(t, Due)) = t[Root]
  BY <1>1, <1>p DEF Accounted, DfsInv
<1>3. Reference = t[Root]
  BY <1>p DEF Reference
<1>4. Strung(t, Due) \in Seq(Item) /\ Strung(t, << >>) = << >>
  BY <1>1, DueTypes, StrungTypes
<1>5. IsPrefix(items, items \o Strung(t, Due))
  BY <1>4, <1>t, PrefixOf
<1>6. items \o << >> = items
  BY <1>t, ConcatEmptySeq
<1> QED
  BY <1>2, <1>3, <1>4, <1>5, <1>6 DEF Cat

\* The account says that the order is followed.
LEMMA OrderFollows == IInv /\ OrderInv => WalkFollowsOrder
<1> SUFFICES ASSUME IInv, OrderInv PROVE WalkFollowsOrder
  OBVIOUS
<1>t. Typed /\ TypeOK
  BY DEF IInv, Typed
<1>1. ASSUME Tag(Root) # "nk" PROVE items = << >>
  BY <1>1 DEF OrderInv
<1>2. ASSUME Tag(Root) = "nk", Settled
      PROVE  IsPrefix(items, Reference) /\ (pc = "done" => items = Reference)
  <2>1. Root \in KeyCells
    BY <1>2, <1>t, KeySequences
  <2>p. PICK c : c = Listings[Depth]
    OBVIOUS
  <2>2. c \in [Links -> Listing]
    BY <1>t, <2>p, ListingsTypes, DepthAssumption
  <2>3. PICK S \in SUBSET Links :
          /\ Closed(S) /\ ListingOf(c, S)
          /\ mode = "dfs" => \A k \in S \intersect KeyCells :
                               Below(Family(c), Orders[Depth])[k] = Orders[Depth][k]
    BY <1>2, <2>p DEF Settled, SettledIn, ListingOf
  <2>4. mode \in {"bfs", "dfs"} /\ (mode = "bfs" => Levels[Depth] = << >>)
    BY <1>2, <1>t DEF Settled, TypeOK
  <2>5. CASE pc \notin {"new", "failed"}
    <3>1. Accounted(c, S)
      BY <2>2, <2>3, <2>5 DEF OrderInv
    <3>2. IsPrefix(items, Reference) /\ (Due = << >> => items = Reference)
      BY <1>t, <2>1, <2>3, <2>4, <2>p, <3>1, BfsFollows, DfsFollows
    <3>3. pc = "done" => Due = << >>
      <4>1. ASSUME pc = "done" PROVE Due = << >>
        <5>1. pending = << >>
          BY <4>1 DEF OrderInv
        <5>2. Reversed(<< >>) = << >>
          BY DEF Reversed
        <5>3. Due = << >> \o << >>
          BY <4>1, <5>1, <5>2 DEF Due
        <5> QED
          BY <5>3
      <4> QED
        BY <4>1
    <3> QED
      BY <3>2, <3>3
  <2>6. CASE pc \in {"new", "failed"}
    <3>1. items = << >> /\ pc # "done"
      BY <2>6 DEF OrderInv
    <3>2. IsPrefix(<< >>, Reference)
      BY DEF IsPrefix
    <3> QED
      BY <3>1, <3>2
  <2> QED
    BY <2>5, <2>6
<1> QED
  BY <1>1, <1>2 DEF WalkFollowsOrder

\* Both iterators keep to their order, in any hive whose depth is within the
\* bound of the recursions: breadth-first level by level, depth-first each key
\* before all that is below it, an unreadable key costing its own subtree only.
THEOREM WalkOrderCorrect == Spec => []WalkFollowsOrder
<1>1. Init => IInv /\ OrderInv
  BY InitIInv, InitOrder
<1>2. (IInv /\ OrderInv) /\ [Next]_vars => (IInv /\ OrderInv)'
  BY NextIInv, NextOrder
<1>3. IInv /\ OrderInv => WalkFollowsOrder
  BY OrderFollows
<1> QED
  BY <1>1, <1>2, <1>3, PTL DEF Spec
=============================================================================
