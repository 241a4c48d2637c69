------------------------------ MODULE MCKeyPath ------------------------------
(***************************************************************************)
(* Small hives for KeyPath: all trees of five keys, each with one of two   *)
(* names, and the same trees damaged in one place.                         *)
(***************************************************************************)
EXTENDS KeyPath, HiveBuilder

a == [up |-> 1, spelling |-> "a"]
A == [up |-> 1, spelling |-> "A"]
b == [up |-> 2, spelling |-> "b"]
MCRootName == [up |-> 0, spelling |-> "CMI-root"]
MCComponents == {a, A, b, MCRootName}

Below == Offsets \ {Root}

\* Offset 1 is the root; every other key has a parent with a smaller offset.
Parents == {f \in [Below -> Offsets] : \A o \in Below : f[o] < o}

KidsOf(f, o) == SetToSortSeq({k \in Below : f[k] = o}, >)

Tree(f, name) ==
  [o \in Offsets |->
     [tag |-> "nk", root |-> o = Root, ok |-> TRUE,
      name |-> IF o = Root THEN <<b>> ELSE <<name[o]>>,
      parent |-> IF o = Root THEN NULL ELSE f[o],
      kids |-> KidsOf(f, o)]]

Trees == {Tree(f, name) : f \in Parents, name \in [Below -> {a, b}]}

\* One key of a tree damaged: its subkeys unreadable, its parent link null, to
\* itself or to another key, its name empty or holding a backslash, spelled in
\* the other case, or flagged as a root.
Damaged(h, o) ==
  {[h EXCEPT ![o].ok = FALSE], [h EXCEPT ![o].parent = NULL], [h EXCEPT ![o].parent = o],
   [h EXCEPT ![o].parent = Cardinality(Offsets)], [h EXCEPT ![o].name = << >>],
   [h EXCEPT ![o].name = <<a, b>>], [h EXCEPT ![o].name = <<A>>],
   [h EXCEPT ![o].root = ~@]}

\* A cell is gone: the keys that name it as parent are left.
Gone(h, o, tag) ==
  [k \in Offsets |-> IF k = o THEN [tag |-> tag]
                     ELSE [h[k] EXCEPT !.kids = SelectSeq(@, LAMBDA c : c # o)]]

SomeTrees == {Tree(f, [o \in Below |-> IF o % 2 = 0 THEN a ELSE b]) : f \in Parents}

MCHives ==
  Trees \union UNION {Damaged(h, o) : h \in SomeTrees, o \in Offsets}
        \union {Gone(h, o, tag) : h \in SomeTrees, o \in Offsets, tag \in {"other", "bad"}}

-----------------------------------------------------------------------------
(* Hives that the tests' builder makes, which are then asked like the      *)
(* others.                                                                 *)

ValueName == [up |-> 3, spelling |-> "v"]
NoName == [up |-> 4, spelling |-> ""]
MCNameLen == (MCRootName :> 8) @@ (a :> 1) @@ (A :> 1) @@ (b :> 9) @@ (ValueName :> 1) @@ (NoName :> 0)

MCKeyCalls == {<<a>>, <<b>>, <<A>>, <<a, b>>, <<a, b, a>>}

\* Resident, in a cell, as big data, and filling the bin to the last byte if
\* there is nothing else in it.
MCValueCalls ==
  {[key |-> <<a>>, name |-> NoName, len |-> 4], [key |-> <<a>>, name |-> ValueName, len |-> 5],
   [key |-> <<a>>, name |-> ValueName, len |-> 3780],
   [key |-> <<a>>, name |-> ValueName, len |-> 16344],
   [key |-> <<b>>, name |-> NoName, len |-> 16345],
   [key |-> <<a, b>>, name |-> NoName, len |-> 2 * 16344], [key |-> <<a, b>>, name |-> NoName, len |-> 0]}

\* The built hive by the numbers of its keys: the links of its cells as the
\* reader follows them.
NkCells == {i \in DOMAIN alloc.cells : alloc.cells[i].body.tag = "nk"}
NumberOfNk(i) == Cardinality({j \in NkCells : j <= i})
CellAt(offset) == CHOOSE i \in DOMAIN alloc.cells : OffsetOf(i) = offset
BodyAt(offset) == alloc.cells[CellAt(offset)].body

KidsAt(body) == IF body.kids = NoLink THEN << >> ELSE SubSeq(BodyAt(body.kids).refs, 1, body.kidCount)
VksAt(body) == IF body.values = NoLink THEN << >> ELSE SubSeq(BodyAt(body.values).refs, 1, body.valueCount)

BuiltHive ==
  [o \in Offsets |->
     IF o > Cardinality(NkCells) THEN [tag |-> "other"]
     ELSE LET body == alloc.cells[CHOOSE i \in NkCells : NumberOfNk(i) = o].body
          IN  [tag |-> "nk", root |-> body.root, ok |-> TRUE, name |-> <<body.name>>,
               parent |-> NumberOfNk(CellAt(body.parent)),
               kids |-> [n \in DOMAIN KidsAt(body) |-> NumberOfNk(CellAt(KidsAt(body)[n]))]]]

\* No hive has been made yet.
NoHive == [o \in Offsets |-> [tag |-> "other"]]

NotReading ==
  /\ hive = NoHive /\ pc = "failed" /\ key = NULL /\ names = << >> /\ parent = NULL
  /\ hops = 0 /\ rest = << >> /\ current = NULL

\* A hive is given, or is made first.
MCInit == \/ Init /\ Unbuilt /\ step = "given"
          \/ BuildInit /\ NotReading

HandOver ==
  /\ step = "built" /\ Cardinality(NkCells) <= Cardinality(Offsets)
  /\ hive' = BuiltHive /\ pc' = "idle" /\ step' = "read"
  /\ UNCHANGED <<key, names, parent, hops, rest, current>>
  /\ UNCHANGED <<plan, paths, todo, alloc, nkIds, lhIds, listIds, vkIds, links, bigLinks, image>>

MCNext == \/ BuildNext /\ UNCHANGED vars
          \/ HandOver
          \/ Next /\ UNCHANGED buildVars

\* The calls of the reader are not blocked.
MCSpec == MCInit /\ [][MCNext]_<<vars, buildVars>> /\ WF_vars(Next)

-----------------------------------------------------------------------------
\* The keys that are to be: those asked for and all above them.
Wanted ==
  LET asked == {plan.keys[n] : n \in DOMAIN plan.keys} \union {plan.values[n].key : n \in DOMAIN plan.values}
  IN  {<< >>} \union UNION {{SubSeq(p, 1, n) : n \in 1 .. Len(p)} : p \in asked}

\* What is reached from the root of the base block along the subkey lists.
Reached ==
  LET reached[n \in 0 .. 4] ==
        IF n = 0 THEN {<<<< >>, image.root>>}
        ELSE UNION {LET refs == KidsAt(BodyAt(q[2]))
                    IN  {<<Append(q[1], BodyAt(refs[i]).name), refs[i]>> : i \in DOMAIN refs} : q \in reached[n - 1]}
  IN  UNION {reached[n] : n \in 0 .. 4}

\* The data cells of a value as the reader collects them: none if the value is
\* resident, the segments of a db record above 16344 bytes, else one.
DataAt(vk) ==
  IF vk.resident THEN << >>
  ELSE IF vk.len > 16344
  THEN LET db == BodyAt(vk.data)
           refs == BodyAt(db.list).refs
       IN  [n \in 1 .. db.count |-> BodyAt(refs[n])]
  ELSE <<BodyAt(vk.data)>>

\* The data cells hold all of the value, in order.
Holds(cells, v) ==
  IF v.len <= 4 THEN cells = << >>
  ELSE /\ Len(cells) = 1 + (v.len - 1) \div 16344
       /\ \A n \in DOMAIN cells :
            /\ cells[n].tag = "data" /\ cells[n].value = v /\ cells[n].part = n
            /\ cells[n].size = IF n < Len(cells) THEN 16344 ELSE v.len - 16344 * (n - 1)

\* The finished hive holds the tree that was asked for: along the links of the
\* bytes each wanted key is reached at its path once, with its parent behind
\* it and exactly its values, in their order and with all of their data; and
\* if no siblings differ in case alone, both kinds of links agree.
BuiltIsTree ==
  /\ step = "built" =>
       /\ {q[1] : q \in Reached} = Wanted /\ Cardinality(Reached) = Cardinality(Wanted)
       /\ \A q \in Reached :
            LET body == BodyAt(q[2])
                vks == VksAt(body)
                due == SelectSeq(plan.values, LAMBDA v : v.key = q[1])
            IN  /\ body.tag = "nk"
                /\ Len(KidsAt(body)) = Cardinality({p \in Wanted : p # << >> /\ Front(p) = q[1]})
                /\ <<IF q[1] = << >> THEN << >> ELSE Front(q[1]), body.parent>> \in Reached
                /\ Len(vks) = Len(due)
                /\ \A n \in DOMAIN due :
                     LET vk == BodyAt(vks[n])
                     IN  /\ vk.name = due[n].name /\ vk.len = due[n].len
                         /\ Holds(DataAt(vk), due[n])
  /\ step = "read" /\ (\A p \in Wanted, q \in Wanted :
       Len(p) = Len(q) /\ (\A n \in DOMAIN p : p[n].up = q[n].up) => p = q)
     => Agrees(hive)
=============================================================================
