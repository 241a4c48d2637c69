---------------------------- MODULE HiveBuilder ----------------------------
(***************************************************************************)
(* TestHiveBuilder, which makes the hives that the readers are tested with *)
(* (winreg-testutil/src/lib.rs): the calls that say which keys and values  *)
(* there are to be, and build, which first lays out all cells of the one   *)
(* bin and then writes their links.                                        *)
(*                                                                         *)
(* A path is a sequence of names, each with its length; no name is empty.  *)
(* A cell is kept by its place, its size and the fields of its body, a     *)
(* link being the offset of a cell from the start of the bins.  Data are   *)
(* kept as which part of which value they are; hashes, times and types of  *)
(* values are left out.                                                    *)
(***************************************************************************)
EXTENDS Integers, FiniteSets, SequencesExt

CONSTANTS
  RootName,   \* "CMI-root"
  NameLen,    \* the bytes of each name
  KeyCalls,   \* paths that add_key may be called with
  ValueCalls, \* [key, name, len] that add_value may be called with
  MaxCalls    \* bound: the calls before build

IsPath(p) == p \in Seq(DOMAIN NameLen) /\ p # << >>

ASSUME BuilderAssumption ==
  /\ \A n \in DOMAIN NameLen : NameLen[n] \in Nat
  /\ RootName \in DOMAIN NameLen
  /\ \A p \in KeyCalls : IsPath(p)
  /\ \A v \in ValueCalls : IsPath(v.key) /\ v.name \in DOMAIN NameLen /\ v.len \in Nat

VARIABLES
  plan,     \* the builder: [keys, values]
  step,     \* "call", "root", "keys", "values", "lists", "link", "fill", "headers", "built"
  paths,    \* all_paths
  todo,     \* the paths that a recursion over the tree has yet to visit
  alloc,    \* the allocator: [pos, cells]
  nkIds,    \* path -> number of its nk cell; those of children and of the root
  lhIds,    \* path -> lh cell
  listIds,  \* path -> values list cell
  vkIds,    \* path -> vk cells
  links,    \* [vk, data] for data outside of the vk cell
  bigLinks, \* [db, list, segments]
  image     \* what the headers say: [root, size, free]

buildVars == <<plan, step, paths, todo, alloc, nkIds, lhIds, listIds, vkIds, links, bigLinks, image>>

BIG_DATA_THRESHOLD == 16344
BIG_DATA_SEGMENT_SIZE == 16344

NoLink == -1       \* 0xFFFFFFFF
BinHeader == 32    \* hbin_data_start
NoCells == [p \in {} |-> 0]

Unbuilt ==
  /\ plan = [keys |-> << >>, values |-> << >>]
  /\ paths = << >> /\ todo = << >>
  /\ alloc = [pos |-> 0, cells |-> << >>]
  /\ nkIds = NoCells /\ lhIds = NoCells /\ listIds = NoCells /\ vkIds = NoCells
  /\ links = {} /\ bigLinks = {}
  /\ image = [size |-> 0]

BuildInit == Unbuilt /\ step = "call"

MayCall == step = "call" /\ Len(plan.keys) + Len(plan.values) < MaxCalls

AddKey(path) ==
  /\ MayCall
  /\ plan' = [plan EXCEPT !.keys = Append(@, path)]
  /\ UNCHANGED <<step, paths, todo, alloc, nkIds, lhIds, listIds, vkIds, links, bigLinks, image>>

AddValue(value) ==
  /\ MayCall
  /\ plan' = [plan EXCEPT !.values = Append(@, value)]
  /\ UNCHANGED <<step, paths, todo, alloc, nkIds, lhIds, listIds, vkIds, links, bigLinks, image>>

-----------------------------------------------------------------------------
\* Paths without those that have come before.
Distinct(ps) ==
  FlattenSeq([n \in DOMAIN ps |-> IF \E m \in 1 .. n - 1 : ps[m] = ps[n] THEN << >> ELSE <<ps[n]>>])

\* Mutant: only the paths that were asked for.
PathsAsked(pl) ==
  Distinct(pl.keys \o [n \in DOMAIN pl.values |-> pl.values[n].key])

\* KeyTree::from_paths: every path with its parents, those of keys first.
PathsOf(pl) ==
  LET prefixes(p) == [n \in DOMAIN p |-> SubSeq(p, 1, n)]
  IN  Distinct(FlattenSeq([n \in DOMAIN pl.keys |-> prefixes(pl.keys[n])])
                 \o FlattenSeq([n \in DOMAIN pl.values |-> prefixes(pl.values[n].key)]))

\* The members of a sequence that are in S, in their order.
Those(s, S) == FlattenSeq([n \in DOMAIN s |-> IF s[n] \in S THEN <<s[n]>> ELSE << >>])

ChildrenOf(p) == Those(paths, {q \in Range(paths) : Front(q) = p})
ParentsBelow(p) == Those(ChildrenOf(p), {q \in Range(paths) : ChildrenOf(q) # << >>})
ValuesAt(p) == Those(plan.values, {v \in ValueCalls : v.key = p})

BuildTree ==
  /\ step = "call"
  /\ paths' = PathsOf(plan)
  /\ step' = "root"
  /\ UNCHANGED <<plan, todo, alloc, nkIds, lhIds, listIds, vkIds, links, bigLinks, image>>

-----------------------------------------------------------------------------
Align(size, unit) == ((size + unit - 1) \div unit) * unit

\* Bodies with their placeholders.
Sk == [tag |-> "sk", size |-> 20 + 20, flink |-> 0, blink |-> 0]
Nk(name, root) ==
  [tag |-> "nk", size |-> 76 + NameLen[name], name |-> name, root |-> root, parent |-> NoLink,
   kidCount |-> 0, kids |-> NoLink, valueCount |-> 0, values |-> NoLink, security |-> NoLink]
Vk(v) == [tag |-> "vk", size |-> 20 + NameLen[v.name], name |-> v.name, len |-> v.len,
          resident |-> FALSE, data |-> NoLink]
OffsetsBody(n) == [tag |-> "list", size |-> 4 * n, refs |-> [i \in 1 .. n |-> 0]]
Lh(n) == [tag |-> "lh", size |-> 4 + 8 * n, refs |-> [i \in 1 .. n |-> 0]]
Db(n) == [tag |-> "db", size |-> 8, count |-> n, list |-> 0]
DataBody(v, part, size) == [tag |-> "data", size |-> size, value |-> v, part |-> part]

\* Mutant: the next cell begins where the body of this one ends.
AllocPacked(a, body) ==
  [pos |-> a.pos + 4 + body.size,
   cells |-> Append(a.cells, [offset |-> a.pos, size |-> Align(4 + body.size, 8), body |-> body])]

\* Allocator::alloc.
Alloc(a, body) ==
  LET aligned == Align(4 + body.size, 8)
  IN  [pos |-> a.pos + aligned,
       cells |-> Append(a.cells, [offset |-> a.pos, size |-> aligned, body |-> body])]

LastId(a) == Len(a.cells)

\* One cell for each of some bodies.
AllocAll(a, bodies) ==
  LET allocs[n \in 0 .. Len(bodies)] == IF n = 0 THEN a ELSE Alloc(allocs[n - 1], bodies[n])
  IN  allocs[Len(bodies)]

AllocRoot ==
  /\ step = "root"
  /\ alloc' = Alloc(Alloc(alloc, Sk), Nk(RootName, TRUE))
  /\ nkIds' = (<< >> :> LastId(alloc'))
  /\ todo' = ChildrenOf(<< >>)
  /\ step' = "keys"
  /\ UNCHANGED <<plan, paths, lhIds, listIds, vkIds, links, bigLinks, image>>

\* alloc_children: a key before its children.
AllocKey ==
  /\ step = "keys" /\ todo # << >>
  /\ alloc' = Alloc(alloc, Nk(Last(Head(todo)), FALSE))
  /\ nkIds' = (Head(todo) :> LastId(alloc')) @@ nkIds
  /\ todo' = ChildrenOf(Head(todo)) \o Tail(todo)
  /\ UNCHANGED <<plan, step, paths, lhIds, listIds, vkIds, links, bigLinks, image>>

EndKeys ==
  /\ step = "keys" /\ todo = << >>
  /\ step' = "values"
  /\ UNCHANGED <<plan, paths, todo, alloc, nkIds, lhIds, listIds, vkIds, links, bigLinks, image>>

\* chunks(BIG_DATA_SEGMENT_SIZE).
Chunks(v) ==
  [n \in 1 .. Align(v.len, BIG_DATA_SEGMENT_SIZE) \div BIG_DATA_SEGMENT_SIZE |->
     LET left == v.len - (n - 1) * BIG_DATA_SEGMENT_SIZE
     IN  DataBody(v, n, IF left < BIG_DATA_SEGMENT_SIZE THEN left ELSE BIG_DATA_SEGMENT_SIZE)]

\* One turn of the loop over the values of a key.
AllocValue(s, v) ==
  LET withVk == Alloc(s.alloc, Vk(v))
      vk == LastId(withVk)
      n == Len(Chunks(v))
      withSegments == AllocAll(withVk, Chunks(v))
      withDb == Alloc(Alloc(withSegments, OffsetsBody(n)), Db(n))
      withData == Alloc(withVk, DataBody(v, 1, v.len))
      seen == [s EXCEPT !.vks = Append(@, vk)]
  IN  IF v.len > BIG_DATA_THRESHOLD
      THEN [seen EXCEPT !.alloc = withDb,
              !.links = @ \union {[vk |-> vk, data |-> LastId(withDb)]},
              !.bigLinks = @ \union {[db |-> LastId(withDb), list |-> LastId(withDb) - 1,
                                      segments |-> [i \in 1 .. n |-> vk + i]]}]
      ELSE IF v.len > 4
      THEN [seen EXCEPT !.alloc = withData,
              !.links = @ \union {[vk |-> vk, data |-> LastId(withData)]}]
      ELSE [seen EXCEPT !.alloc = withVk]

\* All turns of that loop.
AllocEach(s, values) ==
  LET turns[n \in 0 .. Len(values)] == IF n = 0 THEN s ELSE AllocValue(turns[n - 1], values[n])
  IN  turns[Len(values)]

\* The values of the next key in the order of the map, which is any here.
AllocValues(p) ==
  /\ step = "values" /\ ValuesAt(p) # << >> /\ p \notin DOMAIN listIds
  /\ LET done == AllocEach([alloc |-> alloc, vks |-> << >>, links |-> links, bigLinks |-> bigLinks],
                           ValuesAt(p))
     IN  /\ alloc' = Alloc(done.alloc, OffsetsBody(Len(done.vks)))
         /\ vkIds' = (p :> done.vks) @@ vkIds
         /\ links' = done.links /\ bigLinks' = done.bigLinks
  /\ listIds' = (p :> LastId(alloc')) @@ listIds
  /\ UNCHANGED <<plan, step, paths, todo, nkIds, lhIds, image>>

EndValues ==
  /\ step = "values" /\ \A n \in DOMAIN plan.values : plan.values[n].key \in DOMAIN listIds
  /\ todo' = IF paths = << >> THEN << >> ELSE << << >> >>
  /\ step' = "lists"
  /\ UNCHANGED <<plan, paths, alloc, nkIds, lhIds, listIds, vkIds, links, bigLinks, image>>

\* alloc_lh_cells, and that of the root before it: keys that have children.
AllocLh ==
  /\ step = "lists" /\ todo # << >>
  /\ alloc' = Alloc(alloc, Lh(Len(ChildrenOf(Head(todo)))))
  /\ lhIds' = (Head(todo) :> LastId(alloc')) @@ lhIds
  /\ todo' = ParentsBelow(Head(todo)) \o Tail(todo)
  /\ UNCHANGED <<plan, step, paths, nkIds, listIds, vkIds, links, bigLinks, image>>

EndLists ==
  /\ step = "lists" /\ todo = << >>
  /\ step' = "link"
  /\ UNCHANGED <<plan, paths, todo, alloc, nkIds, lhIds, listIds, vkIds, links, bigLinks, image>>

-----------------------------------------------------------------------------
\* cell_offset.
OffsetOf(id) == BinHeader + alloc.cells[id].offset
OffsetsOf(ids) == [n \in DOMAIN ids |-> OffsetOf(ids[n])]

\* The body of the nk cell of a path with its subkeys linked.
WithSubkeys(body, p) ==
  IF p \notin DOMAIN lhIds THEN body
  ELSE [body EXCEPT !.kids = OffsetOf(lhIds[p]), !.kidCount = Len(ChildrenOf(p))]

WithValues(body, p) ==
  IF p \notin DOMAIN listIds THEN body
  ELSE [body EXCEPT !.values = OffsetOf(listIds[p]), !.valueCount = Len(vkIds[p])]

\* The root is its own parent, and the sk cell its own neighbour.
LinkRoot ==
  /\ step = "link"
  /\ LET root == nkIds[<< >>]
         withSk == [alloc EXCEPT !.cells[1].body = [@ EXCEPT !.flink = OffsetOf(1), !.blink = OffsetOf(1)]]
     IN  alloc' = [withSk EXCEPT !.cells[root].body =
                     [WithSubkeys(@, << >>) EXCEPT !.parent = OffsetOf(root), !.security = OffsetOf(1)]]
  /\ todo' = ChildrenOf(<< >>)
  /\ step' = "children"
  /\ UNCHANGED <<plan, paths, nkIds, lhIds, listIds, vkIds, links, bigLinks, image>>

\* link_children.
LinkChild ==
  /\ step = "children" /\ todo # << >>
  /\ LET p == Head(todo)
     IN  /\ alloc' = [alloc EXCEPT !.cells[nkIds[p]].body =
                        [WithValues(WithSubkeys(@, p), p) EXCEPT
                           !.parent = OffsetOf(nkIds[Front(p)]), !.security = OffsetOf(1)]]
         /\ todo' = ChildrenOf(p) \o Tail(todo)
  /\ UNCHANGED <<plan, step, paths, nkIds, lhIds, listIds, vkIds, links, bigLinks, image>>

EndChildren ==
  /\ step = "children" /\ todo = << >>
  /\ todo' = IF DOMAIN lhIds = {} THEN << >> ELSE << << >> >>
  /\ step' = "fill"
  /\ UNCHANGED <<plan, paths, alloc, nkIds, lhIds, listIds, vkIds, links, bigLinks, image>>

\* fill_lh, for the root and by fill_lh_recursive.
FillLh ==
  /\ step = "fill" /\ todo # << >>
  /\ LET kids == ChildrenOf(Head(todo))
     IN  alloc' = [alloc EXCEPT !.cells[lhIds[Head(todo)]].body.refs =
                     OffsetsOf([n \in DOMAIN kids |-> nkIds[kids[n]]])]
  /\ todo' = ParentsBelow(Head(todo)) \o Tail(todo)
  /\ UNCHANGED <<plan, step, paths, nkIds, lhIds, listIds, vkIds, links, bigLinks, image>>

\* The body of a cell after the last loops: over the values lists, the data
\* offsets, the big data and the resident data.
Filled(i) ==
  LET body == alloc.cells[i].body
      listed == {p \in DOMAIN listIds : listIds[p] = i}
      linked == {k \in links : k.vk = i}
      records == {g \in bigLinks : g.db = i}
      lists == {g \in bigLinks : g.list = i}
  IN  CASE listed # {} -> [body EXCEPT !.refs = OffsetsOf(vkIds[CHOOSE p \in listed : TRUE])]
        [] linked # {} -> [body EXCEPT !.data = OffsetOf((CHOOSE k \in linked : TRUE).data)]
        [] records # {} -> [body EXCEPT !.list = OffsetOf((CHOOSE g \in records : TRUE).list)]
        [] lists # {} -> [body EXCEPT !.refs = OffsetsOf((CHOOSE g \in lists : TRUE).segments)]
        [] body.tag = "vk" /\ body.len <= 4 -> [body EXCEPT !.resident = TRUE]
        [] OTHER -> body

FillValues ==
  /\ step = "fill" /\ todo = << >>
  /\ alloc' = [alloc EXCEPT !.cells =
                 [i \in DOMAIN alloc.cells |-> [alloc.cells[i] EXCEPT !.body = Filled(i)]]]
  /\ step' = "headers"
  /\ UNCHANGED <<plan, paths, todo, nkIds, lhIds, listIds, vkIds, links, bigLinks, image>>

\* The free cell behind the others, the header of the bin and the base block.
WriteHeaders ==
  /\ step = "headers"
  /\ LET content == BinHeader + alloc.pos
         size == Align(content, 4096)
     IN  image' = [root |-> OffsetOf(nkIds[<< >>]), size |-> size,
                   free |-> IF size - content >= 8 THEN {[offset |-> content, size |-> size - content]}
                                                   ELSE {}]
  /\ step' = "built"
  /\ UNCHANGED <<plan, paths, todo, alloc, nkIds, lhIds, listIds, vkIds, links, bigLinks>>

BuildNext ==
  \/ \E p \in KeyCalls : AddKey(p)
  \/ \E v \in ValueCalls : AddValue(v)
  \/ BuildTree
  \/ AllocRoot \/ AllocKey \/ EndKeys
  \/ \E n \in DOMAIN plan.values : AllocValues(plan.values[n].key)
  \/ EndValues \/ AllocLh \/ EndLists
  \/ LinkRoot \/ LinkChild \/ EndChildren
  \/ FillLh \/ FillValues \/ WriteHeaders

BuildSpec == BuildInit /\ [][BuildNext]_buildVars

-----------------------------------------------------------------------------
\* The bin is cells from end to end: each begins where the one before it ends,
\* at a multiple of 8, and holds its body; what is left of the last page is one
\* free cell, and no byte of the bin is in none.
CellsTile ==
  step = "built" =>
    LET n == Len(alloc.cells)
        end(i) == OffsetOf(i) + alloc.cells[i].size
    IN  /\ image.size % 4096 = 0
        /\ OffsetOf(1) = 32
        /\ \A i \in 1 .. n : /\ OffsetOf(i) % 8 = 0
                             /\ 4 + alloc.cells[i].body.size <= alloc.cells[i].size
                             /\ i < n => OffsetOf(i + 1) = end(i)
        /\ IF image.free = {} THEN end(n) = image.size
           ELSE \A f \in image.free : f.offset = end(n) /\ f.offset + f.size = image.size
=============================================================================
