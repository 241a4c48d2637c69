------------------------------- MODULE MCDiff -------------------------------
(***************************************************************************)
(* Small pairs of hives for Diff: a root (0) with up to two subkeys (1, 2) *)
(* the first of which may have one of its own (3), names that differ in    *)
(* case, values that are missing, changed, retyped, reordered and          *)
(* unreadable, and subkeys that lead back to a key above them.             *)
(***************************************************************************)
EXTENDS Difference

N(up, spelling) == [up |-> up, spelling |-> spelling]
MCNames == {N(1, "a"), N(1, "A"), N(2, "b"), N(3, "r")}

V(n, type, data) == [name |-> n, type |-> type, data |-> data]
X == V(N(1, "a"), 1, 7)
XUpper == V(N(1, "A"), 1, 7)
XChanged == V(N(1, "a"), 1, 8)
XRetyped == V(N(1, "a"), 2, 7)
XUnread == V(N(1, "a"), 1, NoData)
Y == V(N(2, "b"), 1, 7)

Hive(top, sub, second, vroot, vfirst, vsub) ==
  [rootOk |-> TRUE,
   name |-> [k \in Ids |-> CASE k = 0 -> N(3, "r") [] k = 2 -> second [] OTHER -> N(1, "a")],
   vals |-> [k \in Ids |-> CASE k = 0 -> vroot [] k = 1 -> vfirst
                             [] k = 3 -> vsub [] OTHER -> << >>],
   kids |-> [k \in Ids |-> CASE k = 0 -> top [] k = 1 -> sub [] OTHER -> << >>],
   valsBad |-> {}, kidsBad |-> {}]

Tops == {<< >>, <<1>>, <<2>>, <<2, 1>>}
Subs == {<< >>, <<3>>}

Lefts == {Hive(t, s, N(2, "b"), r, f, << >>) :
            t \in Tops, s \in Subs, r \in {<< >>, <<X>>},
            f \in {<< >>, <<X>>, <<Y, X>>, <<XUnread>>}}

Rights == {[Hive(t, s, N(2, "b"), << >>, f, v) EXCEPT !.name[1] = N(1, "A")] :
             t \in Tops, s \in Subs,
             f \in {<< >>, <<X>>, <<XUpper, Y>>, <<XChanged>>, <<XRetyped>>},
             v \in {<< >>, <<Y>>}}

\* Siblings whose names differ in case only or not at all.
Twins == {Hive(t, s, n, << >>, f, << >>) :
            t \in {<<1>>, <<2>>, <<1, 2>>, <<2, 1>>}, s \in Subs,
            n \in {N(1, "a"), N(1, "A")}, f \in {<< >>, <<X, XUpper>>}}

\* Hives of which something cannot be read.
Broken == LET h == Hive(<<1>>, <<3>>, N(2, "b"), <<X>>, <<X>>, << >>)
          IN  {h, [h EXCEPT !.rootOk = FALSE], [h EXCEPT !.valsBad = {1}],
               [h EXCEPT !.kidsBad = {1}], [h EXCEPT !.kidsBad = {3}]}

\* Hives without an end: key 1 or key 3 lists itself, or key 3 the root.
Endless == LET h == Hive(<<1>>, <<3>>, N(2, "b"), <<X>>, <<X>>, << >>)
           IN  {[h EXCEPT !.kids[1] = <<1, 2>>], [h EXCEPT !.kids[3] = <<3>>],
                [h EXCEPT !.kids[3] = <<0, 2>>]}

MCPairs == (Lefts \X Rights) \union (Twins \X Twins) \union (Broken \X Broken)
             \union (Endless \X (Broken \union Endless)) \union (Broken \X Endless)

\* The comparison of two endless hives need not end: the run looks at its first
\* MaxJoins nested merge joins.  No other comparison reaches this bound.
CONSTANT MaxJoins
JoinBound == Len(stack) <= MaxJoins

\* diff_hives is one call that nothing blocks.
MCNext == Next /\ JoinBound'
MCSpec == Init /\ [][MCNext]_vars /\ WF_vars(MCNext)

=============================================================================
