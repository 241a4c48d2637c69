----------------------------- MODULE DiffProofs -----------------------------
(***************************************************************************)
(* Proofs about Diff for all pairs of hives: the sort is a sort and        *)
(* stable, the result is well-typed, its statistics are those of its       *)
(* entries, the subkeys of the roots are accounted for, and the entries    *)
(* are exactly the differences of the two hives, however deep these are.   *)
(*                                                                         *)
(* The last follows the recursion. Due is all that differs. The match that *)
(* leads to the keys being compared, and the joins under way on the way to *)
(* them, say which of it is Ahead; the rest is Behind, and the entries     *)
(* report it (Reported, the inductive invariant). When no join is left,    *)
(* everything is behind.                                                   *)
(***************************************************************************)
EXTENDS Difference, DataLemmas, FiniteSetTheorems, SequenceTheorems, TLAPS

\* The order in which sort_by leaves positions.
Precedes(ups, m, n) == ups[m] < ups[n] \/ (ups[m] = ups[n] /\ m <= n)

\* Place numbers the positions from 1 without gaps, in that order.
LEMMA PlaceIsRank ==
  ASSUME NEW len \in Nat, NEW ups \in [1 .. len -> Int]
  PROVE  /\ \A n \in 1 .. len : Place(ups, n) \in 1 .. len
         /\ \A m, n \in 1 .. len : m # n /\ Precedes(ups, m, n) => Place(ups, m) < Place(ups, n)
  <1>. DEFINE Before(n) == {m \in 1 .. len : Precedes(ups, m, n)}
  <1>1. IsFiniteSet(1 .. len) /\ Cardinality(1 .. len) = len
    BY FS_Interval
  <1>2. ASSUME NEW n \in 1 .. len
        PROVE  /\ IsFiniteSet(Before(n)) /\ n \in Before(n)
               /\ Place(ups, n) = Cardinality(Before(n))
               /\ Place(ups, n) \in Nat /\ Place(ups, n) <= len
    <2>1. Before(n) \in SUBSET (1 .. len)
      OBVIOUS
    <2>2. n \in Before(n)
      BY DEF Precedes
    <2>3. Place(ups, n) = Cardinality(Before(n))
      BY DEF Place, Precedes
    <2>. HIDE DEF Before
    <2>. QED
      BY <1>1, <2>1, <2>2, <2>3, FS_Subset, FS_CardinalityType
  <1>3. ASSUME NEW n \in 1 .. len PROVE Place(ups, n) \in 1 .. len
    <2>. HIDE DEF Before
    <2>1. Cardinality(Before(n)) # 0
      BY <1>2, FS_EmptySet
    <2>. QED
      BY <1>2, <2>1
  <1>4. ASSUME NEW m \in 1 .. len, NEW n \in 1 .. len, m # n, Precedes(ups, m, n)
        PROVE  Place(ups, m) < Place(ups, n)
    <2>1. Before(m) \in SUBSET Before(n) /\ n \notin Before(m)
      BY <1>4 DEF Precedes
    <2>. HIDE DEF Before
    <2>2. Cardinality(Before(m)) <= Cardinality(Before(n))
          /\ (Cardinality(Before(n)) = Cardinality(Before(m)) => Before(n) = Before(m))
      BY <1>2, <2>1, FS_Subset
    <2>3. Before(n) # Before(m)
      BY <1>2, <2>1
    <2>. QED
      BY <1>2, <2>2, <2>3
  <1>. QED
    BY <1>3, <1>4

\* p lists the positions of ups in the order of the sort: it is a permutation,
\* and it puts a position before another only if the one precedes the other.
IsOrder(p, ups, len) ==
  /\ p \in Bijection(1 .. len, 1 .. len)
  /\ \A j, k \in 1 .. len : j < k => Precedes(ups, p[j], p[k])

\* What a sort and stable means of sort_by in diff_values and merge_join_subkeys:
\* every element is kept once, names ascend, and equal names keep their order.
THEOREM SortIsStable ==
  ASSUME NEW S, NEW s \in Seq(S), NEW ups \in [1 .. Len(s) -> Int]
  PROVE  /\ Sorted(s, ups) \in Seq(S)
         /\ Len(Sorted(s, ups)) = Len(s)
         /\ \E p : /\ IsOrder(p, ups, Len(s))
                   /\ \A k \in 1 .. Len(s) : Sorted(s, ups)[k] = s[p[k]]
  <1>. SUFFICES ASSUME NEW len \in Nat, len = Len(s)
                PROVE  /\ Sorted(s, ups) \in Seq(S)
                       /\ Len(Sorted(s, ups)) = len
                       /\ \E p : /\ IsOrder(p, ups, len)
                                 /\ \A k \in 1 .. len : Sorted(s, ups)[k] = s[p[k]]
    OBVIOUS
  <1>. DEFINE f == [n \in 1 .. len |-> Place(ups, n)]
              q(k) == CHOOSE n \in DOMAIN s : Place(ups, n) = k
              p == [k \in 1 .. len |-> q(k)]
  <1>1. /\ \A n \in 1 .. len : Place(ups, n) \in 1 .. len
        /\ \A m, n \in 1 .. len : m # n /\ Precedes(ups, m, n) => Place(ups, m) < Place(ups, n)
    BY PlaceIsRank
  <1>2. \A m, n \in 1 .. len : Precedes(ups, m, n) \/ Precedes(ups, n, m)
    BY DEF Precedes
  <1>3. \A m, n \in 1 .. len : Place(ups, m) = Place(ups, n) => m = n
    <2>. SUFFICES ASSUME NEW m \in 1 .. len, NEW n \in 1 .. len,
                         Place(ups, m) = Place(ups, n), m # n
                  PROVE  FALSE
      OBVIOUS
    <2>1. Place(ups, m) \in Int /\ Place(ups, n) \in Int
      BY <1>1
    <2>2. CASE Precedes(ups, m, n)
      BY <1>1, <2>1, <2>2
    <2>3. CASE Precedes(ups, n, m)
      BY <1>1, <2>1, <2>3
    <2>. QED
      BY <1>2, <2>2, <2>3
  <1>4. f \in Injection(1 .. len, 1 .. len)
    BY <1>1, <1>3 DEF Injection, IsInjective
  <1>5. IsFiniteSet(1 .. len)
    BY FS_Interval
  <1>6. f \in Surjection(1 .. len, 1 .. len)
    <2>. HIDE DEF f
    <2>. QED
      BY <1>4, <1>5, FS_Injection
  <1>7. \A k \in 1 .. len : \E n \in 1 .. len : Place(ups, n) = k
    BY <1>6 DEF Surjection
  <1>8. \A k \in 1 .. len : q(k) \in 1 .. len /\ Place(ups, q(k)) = k
    BY <1>7
  <1>9. Sorted(s, ups) = [k \in 1 .. len |-> s[q(k)]]
    BY DEF Sorted
  <1>. HIDE DEF q
  <1>10. Sorted(s, ups) \in Seq(S) /\ Len(Sorted(s, ups)) = len
    <2>1. [k \in 1 .. len |-> s[q(k)]] \in [1 .. len -> S]
      BY <1>8
    <2>. QED
      BY <1>9, <2>1
  <1>11. /\ p \in [1 .. len -> 1 .. len]
         /\ \A k \in 1 .. len : Place(ups, p[k]) = k /\ Sorted(s, ups)[k] = s[p[k]]
    BY <1>8, <1>9
  <1>. HIDE DEF p
  <1>12. p \in Bijection(1 .. len, 1 .. len)
    <2>1. p \in Injection(1 .. len, 1 .. len)
      BY <1>11 DEF Injection, IsInjective
    <2>2. p \in Surjection(1 .. len, 1 .. len)
      BY <2>1, <1>5, FS_Injection
    <2>. QED
      BY <2>1, <2>2 DEF Bijection
  <1>13. ASSUME NEW j \in 1 .. len, NEW k \in 1 .. len, j < k
         PROVE  Precedes(ups, p[j], p[k])
    <2>. DEFINE m == p[j]
                n == p[k]
    <2>1. m \in 1 .. len /\ n \in 1 .. len /\ Place(ups, m) = j /\ Place(ups, n) = k
      BY <1>11
    <2>. HIDE DEF m, n
    <2>2. m # n /\ ~ (Place(ups, n) < Place(ups, m))
      BY <1>13, <2>1
    <2>3. Precedes(ups, m, n)
      BY <1>1, <1>2, <2>1, <2>2
    <2>. QED
      BY <2>3 DEF m, n
  <1>. QED
    BY <1>10, <1>11, <1>12, <1>13 DEF IsOrder

-----------------------------------------------------------------------------
\* The names that the sort goes by are numbers; a list with names is not empty.
LEMMA NamesOfValues ==
  ASSUME DiffAssumption, NEW vs \in Seq(Value)
  PROVE  /\ UpsV(vs) \in [1 .. Len(vs) -> Int]
         /\ UpsV(vs) # << >> => vs # << >>
         /\ SortedValues(vs) \in Seq(Value)
  <1>1. ASSUME NEW n \in 1 .. Len(vs) PROVE vs[n].name.up \in Int
    <2>1. vs[n] \in Value
      OBVIOUS
    <2>2. vs[n].name \in Names
      BY <2>1 DEF Value
    <2>. QED
      BY <2>2 DEF DiffAssumption, IsName
  <1>2. UpsV(vs) \in [1 .. Len(vs) -> Int]
    BY <1>1 DEF UpsV
  <1>3. vs = << >> => UpsV(vs) = << >>
    BY DEF UpsV
  <1>. QED
    BY <1>2, <1>3, SortIsStable DEF SortedValues

\* The same of keys.
LEMMA NamesOfKeys ==
  ASSUME DiffAssumption, NEW h, IsHive(h), NEW ks \in Seq(Ids)
  PROVE  /\ UpsK(h, ks) \in [1 .. Len(ks) -> Int]
         /\ UpsK(h, ks) # << >> => ks # << >>
         /\ SortedKeys(h, ks) \in Seq(Ids)
         /\ Len(SortedKeys(h, ks)) = Len(ks)
  <1>1. \A n \in 1 .. Len(ks) : h.name[ks[n]].up \in Int
    BY DEF DiffAssumption, IsName, IsHive
  <1>2. UpsK(h, ks) \in [1 .. Len(ks) -> Int]
    BY <1>1 DEF UpsK
  <1>3. ks = << >> => UpsK(h, ks) = << >>
    BY DEF UpsK
  <1>. QED
    BY <1>2, <1>3, SortIsStable DEF SortedKeys

Frame == [path : Path, ls : Seq(Ids), rs : Seq(Ids)]

\* The frame on top of the stack and those below it.
LEMMA TopOfStack ==
  ASSUME stack \in Seq(Frame), stack # << >>
  PROVE  /\ Len(stack) \in Nat \ {0}
         /\ Top \in Frame
         /\ Below \in Seq(Frame) /\ Len(Below) = Len(stack) - 1
         /\ \A n \in 1 .. Len(Below) : Below[n] = stack[n]
  <1>1. Len(stack) \in Nat \ {0}
    BY EmptySeq
  <1>2. Len(stack) \in 1 .. Len(stack) /\ Top \in Frame
    BY <1>1 DEF Top
  <1>3. \A n \in 1 .. Len(stack) - 1 : stack[n] \in Frame
    BY <1>1
  <1>4. /\ Below \in Seq(Frame)
        /\ Len(Below) = IF 1 <= Len(stack) - 1 THEN (Len(stack) - 1) - 1 + 1 ELSE 0
        /\ \A n \in 1 .. (Len(stack) - 1) - 1 + 1 : Below[n] = stack[1 + n - 1]
    BY <1>1, <1>3, SubSeqProperties, 1 \in Int, Len(stack) - 1 \in Int DEF Below
  <1>5. Len(Below) = Len(stack) - 1
    <2>1. PICK len \in Nat \ {0} : len = Len(stack)
      BY <1>1
    <2>2. Len(Below) = IF 1 <= len - 1 THEN (len - 1) - 1 + 1 ELSE 0
      BY <1>4, <2>1
    <2>. QED
      BY <2>1, <2>2
  <1>6. ASSUME NEW n \in 1 .. Len(Below) PROVE Below[n] = stack[n]
    <2>1. n \in 1 .. (Len(stack) - 1) - 1 + 1 /\ 1 + n - 1 = n
      BY <1>1, <1>5
    <2>. QED
      BY <1>4, <2>1
  <1>. QED
    BY <1>1, <1>2, <1>4, <1>5, <1>6

Detail == [name : Names, kind : ValueKinds]

\* Listing a difference keeps the list of differences one.
LEMMA DetailAdded ==
  ASSUME diffs \in Seq(Detail), NEW vs \in Seq(Value), vs # << >>, NEW kind \in ValueKinds
  PROVE  Append(diffs, ValueDiff(Head(vs).name, kind)) \in Seq(Detail)
  <1>1. Head(vs) \in Value
    OBVIOUS
  <1>2. ValueDiff(Head(vs).name, kind) \in Detail
    BY <1>1 DEF Value, ValueDiff, Detail
  <1>. QED
    BY <1>2

\* How many differences there are of a kind.
LEMMA OfKindIsNumber ==
  ASSUME NEW ds \in Seq(Detail), NEW kind
  PROVE  OfKind(ds, kind) \in Nat
  <1>1. IsFiniteSet(1 .. Len(ds))
    BY FS_Interval
  <1>. DEFINE D == {n \in DOMAIN ds : ds[n].kind = kind}
  <1>2. D \in SUBSET (1 .. Len(ds))
    OBVIOUS
  <1>. HIDE DEF D
  <1>3. Cardinality(D) \in Nat
    BY <1>1, <1>2, FS_Subset, FS_CardinalityType
  <1>. QED
    BY <1>3 DEF OfKind, D

Result == [path : Path, kind : Kinds, details : Details]

\* Listing an entry keeps the list of entries one.
LEMMA EntryAdded ==
  ASSUME entries \in Seq(Result), NEW path \in Path, NEW kind \in Kinds, NEW ds \in Details
  PROVE  Append(entries, Entry(path, kind, ds)) \in Seq(Result)
  <1>1. Entry(path, kind, ds) \in Result
    BY DEF Entry, Result
  <1>. QED
    BY <1>1

\* The counters by name.
Counters == [keys_added : Nat, keys_removed : Nat, keys_modified : Nat,
             values_added : Nat, values_removed : Nat, values_changed : Nat]
LEMMA CountersByName == [DOMAIN NoStats -> Nat] = Counters
  BY DEF NoStats, Counters

\* Setting counters leaves numbers.
LEMMA CounterSet ==
  ASSUME NEW c \in Counters, NEW x \in Nat, NEW va \in Nat, NEW vr \in Nat, NEW vc \in Nat
  PROVE  /\ [c EXCEPT !.keys_added = x] \in Counters
         /\ [c EXCEPT !.keys_removed = x] \in Counters
         /\ [c EXCEPT !.keys_modified = x, !.values_added = va,
                      !.values_removed = vr, !.values_changed = vc] \in Counters
  <1>1. c = [keys_added |-> c.keys_added, keys_removed |-> c.keys_removed,
             keys_modified |-> c.keys_modified, values_added |-> c.values_added,
             values_removed |-> c.values_removed, values_changed |-> c.values_changed]
    BY DEF Counters
  <1>2. [c EXCEPT !.keys_added = x] \in Counters
    BY <1>1 DEF Counters
  <1>3. [c EXCEPT !.keys_removed = x] \in Counters
    BY <1>1 DEF Counters
  <1>4. [c EXCEPT !.keys_modified = x, !.values_added = va,
                  !.values_removed = vr, !.values_changed = vc] \in Counters
    BY <1>1 DEF Counters
  <1>. QED
    BY <1>2, <1>3, <1>4

\* The counters are numbers, and so are they with something added.
LEMMA CounterAdd ==
  ASSUME NEW c \in Counters, NEW va \in Nat, NEW vr \in Nat, NEW vc \in Nat
  PROVE  /\ c.keys_added + 1 \in Nat /\ c.keys_removed + 1 \in Nat
         /\ c.keys_modified + 1 \in Nat /\ c.values_added + va \in Nat
         /\ c.values_removed + vr \in Nat /\ c.values_changed + vc \in Nat
  BY DEF Counters


\* What a merge join takes from the front of its two lists.
LEMMA FrontOfJoin ==
  ASSUME DiffAssumption, TypeOK, pc = "merge"
  PROVE  /\ stack \in Seq(Frame) /\ stack # << >> /\ Top \in Frame /\ Below \in Seq(Frame)
         /\ Top.ls \in Seq(Ids) /\ Top.rs \in Seq(Ids) /\ Top.path \in Path
         /\ UpsK(left, Top.ls) # << >> => /\ Top.ls # << >>
                                          /\ Head(Top.ls) \in Ids
                                          /\ Tail(Top.ls) \in Seq(Ids)
                                          /\ left.name[Head(Top.ls)] \in Names
         /\ UpsK(right, Top.rs) # << >> => /\ Top.rs # << >>
                                           /\ Head(Top.rs) \in Ids
                                           /\ Tail(Top.rs) \in Seq(Ids)
                                           /\ right.name[Head(Top.rs)] \in Names
  <1>1. IsHive(left) /\ IsHive(right) /\ stack \in Seq(Frame)
    BY DEF TypeOK, Frame
  <1>2. stack # << >> /\ Top \in Frame /\ Below \in Seq(Frame)
    BY <1>1, TopOfStack DEF TypeOK
  <1>3. Top.ls \in Seq(Ids) /\ Top.rs \in Seq(Ids) /\ Top.path \in Path
    BY <1>2 DEF Frame
  <1>4. UpsK(left, Top.ls) # << >> => Top.ls # << >>
    BY <1>1, <1>3, NamesOfKeys
  <1>5. UpsK(right, Top.rs) # << >> => Top.rs # << >>
    BY <1>1, <1>3, NamesOfKeys
  <1>. QED
    BY <1>1, <1>2, <1>3, <1>4, <1>5 DEF IsHive

\* The comparison is well-typed, whatever the hives.
THEOREM TypeCorrect == Spec => []TypeOK
  <1>. USE DiffAssumption
  <1>1. Init => TypeOK
    <2>. SUFFICES ASSUME Init PROVE TypeOK
      OBVIOUS
    <2>1. IsHive(left) /\ IsHive(right)
      BY DEF Init, DiffAssumption
    <2>2. stats \in [DOMAIN NoStats -> Nat]
      BY DEF Init, NoStats
    <2>3. pair \in [l : Ids, r : Ids, path : Path]
      BY DEF Init, Path, DiffAssumption
    <2>. QED
      BY <2>1, <2>2, <2>3 DEF Init, TypeOK, Details
  <1>2. TypeOK /\ [Next]_vars => TypeOK'
    <2>. SUFFICES ASSUME TypeOK, [Next]_vars PROVE TypeOK'
      OBVIOUS
    <2>1. /\ IsHive(left) /\ IsHive(right)
          /\ lvals \in Seq(Value) /\ rvals \in Seq(Value)
          /\ pair.l \in Ids /\ pair.r \in Ids /\ pair.path \in Path
          /\ stack \in Seq(Frame) /\ entries \in Seq(Result) /\ stats \in Counters
          /\ diffs \in Seq(Detail)
      BY CountersByName DEF TypeOK, Frame, Result, Details, Detail
    <2>2. ASSUME Fail PROVE TypeOK'
      <3>1. stats' \in [DOMAIN NoStats -> Nat]
        BY <2>2 DEF Fail, NoStats
      <3>. QED
        BY <2>2, <3>1 DEF Fail, TypeOK, IsHive
    <2>3. CASE BeginDiff
      BY <2>3 DEF BeginDiff, TypeOK, IsHive
    <2>4. CASE ReadValues
      <3>1. left.vals[pair.l] \in Seq(Value) /\ right.vals[pair.r] \in Seq(Value)
        BY <2>1 DEF IsHive
      <3>2. lvals' \in Seq(Value) /\ rvals' \in Seq(Value)
        BY <2>4, <3>1, NamesOfValues DEF ReadValues
      <3>. QED
        BY <2>4, <3>2 DEF ReadValues, TypeOK, IsHive, Details
    <2>5. CASE ValueInBoth
      <3>1. lvals # << >> /\ rvals # << >>
        BY <2>1, <2>5, NamesOfValues DEF ValueInBoth, Both
      <3>2. lvals' \in Seq(Value) /\ rvals' \in Seq(Value)
        BY <2>1, <2>5, <3>1 DEF ValueInBoth
      <3>3. diffs' \in Details
        BY <2>1, <2>5, <3>1, DetailAdded DEF ValueInBoth, Details, Detail, ValueKinds
      <3>. QED
        BY <2>5, <3>2, <3>3 DEF ValueInBoth, TypeOK, IsHive
    <2>6. CASE ValueRemoved
      <3>1. lvals # << >>
        BY <2>1, <2>6, NamesOfValues DEF ValueRemoved, OnlyLeft
      <3>2. lvals' \in Seq(Value)
        BY <2>1, <2>6, <3>1 DEF ValueRemoved
      <3>3. diffs' \in Details
        BY <2>1, <2>6, <3>1, DetailAdded DEF ValueRemoved, Details, Detail, ValueKinds
      <3>. QED
        BY <2>6, <3>2, <3>3 DEF ValueRemoved, TypeOK, IsHive
    <2>7. CASE ValueAdded
      <3>1. rvals # << >>
        BY <2>1, <2>7, NamesOfValues DEF ValueAdded, OnlyRight
      <3>2. rvals' \in Seq(Value)
        BY <2>1, <2>7, <3>1 DEF ValueAdded
      <3>3. diffs' \in Details
        BY <2>1, <2>7, <3>1, DetailAdded DEF ValueAdded, Details, Detail, ValueKinds
      <3>. QED
        BY <2>7, <3>2, <3>3 DEF ValueAdded, TypeOK, IsHive
    <2>8. CASE EnterSubkeys
      <3>1. left.kids[pair.l] \in Seq(Ids) /\ right.kids[pair.r] \in Seq(Ids)
        BY <2>1 DEF IsHive
      <3>2. stack' \in Seq(Frame) /\ stack' # << >>
        <4>. DEFINE f == [path |-> pair.path,
                          ls |-> SortedKeys(left, left.kids[pair.l]),
                          rs |-> SortedKeys(right, right.kids[pair.r])]
        <4>1. f \in Frame
          BY <2>1, <3>1, NamesOfKeys DEF Frame
        <4>2. stack' = Append(stack, f)
          BY <2>8 DEF EnterSubkeys
        <4>. HIDE DEF f
        <4>3. stack \in Seq(Frame)
          BY <2>1
        <4>. QED
          BY <4>1, <4>2, <4>3
      <3>3. PathOfPair \in Path
        BY <2>1 DEF PathOfPair, Path, IsHive
      <3>4. entries' \in Seq(Result)
        BY <2>1, <2>8, <3>3, EntryAdded DEF EnterSubkeys, Kinds, Details, Detail
      <3>5. stats' \in Counters
        <4>1. OfKind(diffs, "Added") \in Nat /\ OfKind(diffs, "Removed") \in Nat
              /\ OfKind(diffs, "Changed") \in Nat
          BY <2>1, OfKindIsNumber
        <4>2. stats' = stats \/ stats' = [stats EXCEPT
                !.keys_modified = stats.keys_modified + 1,
                !.values_added = stats.values_added + OfKind(diffs, "Added"),
                !.values_removed = stats.values_removed + OfKind(diffs, "Removed"),
                !.values_changed = stats.values_changed + OfKind(diffs, "Changed")]
          BY <2>8 DEF EnterSubkeys
        <4>3. /\ stats.keys_modified + 1 \in Nat
              /\ stats.values_added + OfKind(diffs, "Added") \in Nat
              /\ stats.values_removed + OfKind(diffs, "Removed") \in Nat
              /\ stats.values_changed + OfKind(diffs, "Changed") \in Nat
          BY <2>1, <4>1, CounterAdd
        <4>4. [stats EXCEPT
                !.keys_modified = stats.keys_modified + 1,
                !.values_added = stats.values_added + OfKind(diffs, "Added"),
                !.values_removed = stats.values_removed + OfKind(diffs, "Removed"),
                !.values_changed = stats.values_changed + OfKind(diffs, "Changed")] \in Counters
          BY <2>1, <4>3, CounterSet, Zenon
        <4>. QED
          BY <2>1, <4>2, <4>4
      <3>. QED
        BY <2>8, <3>2, <3>4, <3>5, CountersByName DEF EnterSubkeys, TypeOK, IsHive, Frame, Result
    <2>9. CASE KeyInBoth
      <3>1. pc = "merge" /\ UpsK(left, Top.ls) # << >> /\ UpsK(right, Top.rs) # << >>
        BY <2>9 DEF KeyInBoth, Both
      <3>2. [Top EXCEPT !.ls = Tail(@), !.rs = Tail(@)] \in Frame
        BY FrontOfJoin, <3>1 DEF Frame
      <3>3. stack' \in Seq(Frame)
        BY FrontOfJoin, <2>9, <3>1, <3>2 DEF KeyInBoth
      <3>4. pair' \in [l : Ids, r : Ids, path : Path]
        BY FrontOfJoin, <2>9, <3>1 DEF KeyInBoth, Path
      <3>. QED
        BY <2>9, <3>3, <3>4 DEF KeyInBoth, TypeOK, IsHive, Frame
    <2>10. CASE KeyRemoved
      <3>1. pc = "merge" /\ UpsK(left, Top.ls) # << >>
        BY <2>10 DEF KeyRemoved, OnlyLeft
      <3>2. [Top EXCEPT !.ls = Tail(@)] \in Frame
        BY FrontOfJoin, <3>1 DEF Frame
      <3>3. stack' \in Seq(Frame) /\ stack' # << >>
        <4>1. stack' = Append(Below, [Top EXCEPT !.ls = Tail(@)])
          BY <2>10 DEF KeyRemoved
        <4>. QED
          BY FrontOfJoin, <3>1, <3>2, <4>1, AppendProperties
      <3>4. Append(Top.path, left.name[Head(Top.ls)]) \in Path
        BY FrontOfJoin, <3>1 DEF Path
      <3>5. entries' \in Seq(Result)
        <4>1. << >> \in Details /\ "KeyRemoved" \in Kinds
          BY DEF Details, Kinds
        <4>. QED
          BY <2>1, <2>10, <3>4, <4>1, EntryAdded DEF KeyRemoved
      <3>6. stats' \in Counters
        <4>1. stats' = [stats EXCEPT !.keys_removed = stats.keys_removed + 1]
          BY <2>10 DEF KeyRemoved
        <4>. QED
          BY <2>1, <4>1, CounterSet, CounterAdd
      <3>. QED
        BY <2>10, <3>3, <3>5, <3>6, CountersByName DEF KeyRemoved, TypeOK, IsHive, Frame, Result
    <2>11. CASE KeyAdded
      <3>1. pc = "merge" /\ UpsK(right, Top.rs) # << >>
        BY <2>11 DEF KeyAdded, OnlyRight
      <3>2. [Top EXCEPT !.rs = Tail(@)] \in Frame
        BY FrontOfJoin, <3>1 DEF Frame
      <3>3. stack' \in Seq(Frame) /\ stack' # << >>
        <4>1. stack' = Append(Below, [Top EXCEPT !.rs = Tail(@)])
          BY <2>11 DEF KeyAdded
        <4>2. Below \in Seq(Frame)
          BY FrontOfJoin, <3>1
        <4>. QED
          BY <3>2, <4>1, <4>2
      <3>4. Append(Top.path, right.name[Head(Top.rs)]) \in Path
        BY FrontOfJoin, <3>1 DEF Path
      <3>5. entries' \in Seq(Result)
        <4>1. << >> \in Details /\ "KeyAdded" \in Kinds
          BY DEF Details, Kinds
        <4>. QED
          BY <2>1, <2>11, <3>4, <4>1, EntryAdded DEF KeyAdded
      <3>6. stats' \in Counters
        <4>1. stats' = [stats EXCEPT !.keys_added = stats.keys_added + 1]
          BY <2>11 DEF KeyAdded
        <4>. QED
          BY <2>1, <4>1, CounterSet, CounterAdd
      <3>. QED
        BY <2>11, <3>3, <3>5, <3>6, CountersByName DEF KeyAdded, TypeOK, IsHive, Frame, Result
    <2>12. CASE LeaveKey
      <3>1. pc = "merge" /\ stack' = Below
        BY <2>12 DEF LeaveKey
      <3>2. pc' = "merge" => stack' # << >>
        <4>1. stack # << >> /\ Below \in Seq(Frame) /\ Len(Below) = Len(stack) - 1
          BY <2>1, <3>1, FrontOfJoin, TopOfStack
        <4>2. pc' = "merge" => Len(stack) # 1
          BY <2>12 DEF LeaveKey
        <4>. QED
          BY <3>1, <4>1, <4>2
      <3>. QED
        BY FrontOfJoin, <2>12, <3>1, <3>2 DEF LeaveKey, TypeOK, IsHive, Frame
    <2>13. CASE UNCHANGED vars
      BY <2>13 DEF vars, TypeOK, IsHive
    <2>. QED
      BY <2>2, <2>3, <2>4, <2>5, <2>6, <2>7, <2>8, <2>9, <2>10, <2>11, <2>12, <2>13
      DEF Next, RootUnreadable, ValuesUnreadable, SubkeysUnreadable
  <1>. QED
    BY <1>1, <1>2, PTL DEF Spec

-----------------------------------------------------------------------------
\* What the statistics count: the entries of a kind, the details of a kind.
EntrySet(es, kind) == {n \in DOMAIN es : es[n].kind = kind}
DetailSet(es, kind) ==
  UNION {{<<n, m>> : m \in {x \in DOMAIN es[n].details : es[n].details[x].kind = kind}} :
           n \in DOMAIN es}

\* The places of the members of T in a list; appending a member adds one.
PlacesOf(es, T) == {n \in DOMAIN es : es[n] \in T}

LEMMA PlaceCounted ==
  ASSUME NEW S, NEW es \in Seq(S), NEW e \in S, NEW T
  PROVE  /\ Cardinality(PlacesOf(es, T)) \in Nat
         /\ Cardinality(PlacesOf(Append(es, e), T)) =
              Cardinality(PlacesOf(es, T)) + (IF e \in T THEN 1 ELSE 0)
  <1>. DEFINE len == Len(es)
  <1>1. IsFiniteSet(1 .. len)
    BY FS_Interval
  <1>2. PlacesOf(es, T) \in SUBSET (1 .. len)
    BY DEF PlacesOf
  <1>3. IsFiniteSet(PlacesOf(es, T)) /\ Cardinality(PlacesOf(es, T)) \in Nat
    BY <1>1, <1>2, FS_Subset, FS_CardinalityType
  <1>4. len + 1 \notin PlacesOf(es, T)
    BY <1>2
  <1>5. PlacesOf(Append(es, e), T) =
          IF e \in T THEN PlacesOf(es, T) \union {len + 1} ELSE PlacesOf(es, T)
    BY AppendProperties DEF PlacesOf
  <1>6. Cardinality(PlacesOf(es, T) \union {len + 1}) = Cardinality(PlacesOf(es, T)) + 1
    BY <1>3, <1>4, FS_AddElement
  <1>. QED
    BY <1>3, <1>5, <1>6

\* One more entry is one more of its kind.
LEMMA EntryCounted ==
  ASSUME NEW es \in Seq(Result), NEW e \in Result, NEW kind
  PROVE  /\ Cardinality(EntrySet(es, kind)) \in Nat
         /\ Cardinality(EntrySet(Append(es, e), kind)) =
              Cardinality(EntrySet(es, kind)) + (IF e.kind = kind THEN 1 ELSE 0)
  <1>. DEFINE T == {r \in Result : r.kind = kind}
  <1>1. EntrySet(es, kind) = PlacesOf(es, T)
    BY DEF EntrySet, PlacesOf
  <1>2. Append(es, e) \in Seq(Result)
    OBVIOUS
  <1>3. EntrySet(Append(es, e), kind) = PlacesOf(Append(es, e), T)
    BY <1>2 DEF EntrySet, PlacesOf
  <1>4. e \in T <=> e.kind = kind
    OBVIOUS
  <1>. HIDE DEF T
  <1>. QED
    BY <1>1, <1>3, <1>4, PlaceCounted

\* One more entry is as many more details of a kind as it has itself.
LEMMA DetailsCounted ==
  ASSUME NEW es \in Seq(Result), NEW e \in Result, NEW kind, IsFiniteSet(DetailSet(es, kind))
  PROVE  /\ IsFiniteSet(DetailSet(Append(es, e), kind))
         /\ Cardinality(DetailSet(Append(es, e), kind)) =
              Cardinality(DetailSet(es, kind)) + OfKind(e.details, kind)
  <1>. DEFINE len == Len(es)
              t == Append(es, e)
              D == {x \in DOMAIN e.details : e.details[x].kind = kind}
              New == {<<len + 1, m>> : m \in D}
              f == [m \in D |-> <<len + 1, m>>]
  <1>1. e.details \in Seq(Detail)
    BY DEF Result, Details, Detail
  <1>2. IsFiniteSet(D) /\ OfKind(e.details, kind) = Cardinality(D) /\ Cardinality(D) \in Nat
    <2>1. D \in SUBSET (1 .. Len(e.details))
      BY <1>1
    <2>2. IsFiniteSet(1 .. Len(e.details))
      BY <1>1, FS_Interval
    <2>3. OfKind(e.details, kind) = Cardinality(D)
      BY DEF OfKind
    <2>. HIDE DEF D
    <2>. QED
      BY <2>1, <2>3, <2>2, FS_Subset, FS_CardinalityType
  <1>3. f \in Bijection(D, New)
    <2>. HIDE DEF D
    <2>. QED
      BY DEF Bijection, Injection, Surjection, IsInjective
  <1>4. IsFiniteSet(New) /\ Cardinality(New) = Cardinality(D)
    <2>. HIDE DEF D, New, f
    <2>. QED
      BY <1>2, <1>3, FS_Bijection DEF ExistsBijection
  <1>5. /\ len \in Nat /\ DOMAIN t = 1 .. len + 1 /\ t[len + 1] = e
        /\ DOMAIN es = 1 .. len /\ \A n \in 1 .. len : t[n] = es[n]
    BY AppendProperties
  <1>6. DetailSet(t, kind) = DetailSet(es, kind) \union New
    <2>. HIDE DEF t, len
    <2>1. ASSUME NEW p PROVE p \in DetailSet(t, kind) <=> p \in DetailSet(es, kind) \union New
      <3>1. p \in DetailSet(t, kind) <=>
              \E n \in 1 .. len + 1 : \E m \in DOMAIN t[n].details :
                t[n].details[m].kind = kind /\ p = <<n, m>>
        BY <1>5 DEF DetailSet
      <3>2. p \in DetailSet(es, kind) <=>
              \E n \in 1 .. len : \E m \in DOMAIN t[n].details :
                t[n].details[m].kind = kind /\ p = <<n, m>>
        BY <1>5 DEF DetailSet
      <3>3. p \in New <=>
              \E m \in DOMAIN t[len + 1].details :
                t[len + 1].details[m].kind = kind /\ p = <<len + 1, m>>
        BY <1>5
      <3>4. \A n : n \in 1 .. len + 1 <=> n \in 1 .. len \/ n = len + 1
        BY <1>5
      <3>. HIDE DEF New
      <3>. QED
        BY <3>1, <3>2, <3>3, <3>4, Zenon
    <2>. HIDE DEF New
    <2>. QED
      BY <2>1, Zenon
  <1>7. DetailSet(es, kind) \intersect New = {}
    BY <1>5 DEF DetailSet
  <1>. HIDE DEF D, New, t
  <1>8. /\ IsFiniteSet(DetailSet(t, kind))
        /\ Cardinality(DetailSet(t, kind)) =
             Cardinality(DetailSet(es, kind)) + Cardinality(New) - 0
    <2>1. Cardinality(DetailSet(es, kind) \intersect New) = 0
      BY <1>7, FS_EmptySet
    <2>. QED
      BY <1>4, <1>6, <2>1, FS_Union
  <1>9. Cardinality(DetailSet(es, kind)) \in Nat
    BY FS_CardinalityType
  <1>. QED
    BY <1>2, <1>4, <1>8, <1>9 DEF t

\* An entry without details adds no details.
LEMMA NoDetails == ASSUME NEW kind PROVE OfKind(<< >>, kind) = 0
  <1>1. {n \in DOMAIN << >> : << >>[n].kind = kind} = {}
    OBVIOUS
  <1>. QED
    BY <1>1, FS_EmptySet DEF OfKind

\* c counts es, whose details are finitely many.
Counted(es, c) ==
  /\ c.keys_added = Cardinality(EntrySet(es, "KeyAdded"))
  /\ c.keys_removed = Cardinality(EntrySet(es, "KeyRemoved"))
  /\ c.keys_modified = Cardinality(EntrySet(es, "KeyModified"))
  /\ c.values_added = Cardinality(DetailSet(es, "Added"))
  /\ c.values_removed = Cardinality(DetailSet(es, "Removed"))
  /\ c.values_changed = Cardinality(DetailSet(es, "Changed"))
  /\ \A kind \in ValueKinds : IsFiniteSet(DetailSet(es, kind))

\* d is c after the entry e.
CountedOn(c, d, e) ==
  /\ d.keys_added = c.keys_added + (IF e.kind = "KeyAdded" THEN 1 ELSE 0)
  /\ d.keys_removed = c.keys_removed + (IF e.kind = "KeyRemoved" THEN 1 ELSE 0)
  /\ d.keys_modified = c.keys_modified + (IF e.kind = "KeyModified" THEN 1 ELSE 0)
  /\ d.values_added = c.values_added + OfKind(e.details, "Added")
  /\ d.values_removed = c.values_removed + OfKind(e.details, "Removed")
  /\ d.values_changed = c.values_changed + OfKind(e.details, "Changed")

\* An empty list and counters of nought agree.
LEMMA NothingCounted == Counted(<< >>, NoStats)
  <1>1. \A kind : EntrySet(<< >>, kind) = {} /\ DetailSet(<< >>, kind) = {}
    BY DEF EntrySet, DetailSet
  <1>. QED
    BY <1>1, FS_EmptySet DEF Counted, NoStats

\* Counting goes on with every entry.
LEMMA CountGoesOn ==
  ASSUME NEW es \in Seq(Result), NEW e \in Result, NEW c, NEW d,
         Counted(es, c), CountedOn(c, d, e)
  PROVE  Counted(Append(es, e), d)
  <1>1. \A kind \in ValueKinds : IsFiniteSet(DetailSet(Append(es, e), kind))
    BY DetailsCounted DEF Counted
  <1>2. /\ d.keys_added = Cardinality(EntrySet(Append(es, e), "KeyAdded"))
        /\ d.keys_removed = Cardinality(EntrySet(Append(es, e), "KeyRemoved"))
        /\ d.keys_modified = Cardinality(EntrySet(Append(es, e), "KeyModified"))
    BY EntryCounted DEF Counted, CountedOn
  <1>3. "Added" \in ValueKinds /\ "Removed" \in ValueKinds /\ "Changed" \in ValueKinds
    BY DEF ValueKinds
  <1>4. /\ d.values_added = Cardinality(DetailSet(Append(es, e), "Added"))
        /\ d.values_removed = Cardinality(DetailSet(Append(es, e), "Removed"))
        /\ d.values_changed = Cardinality(DetailSet(Append(es, e), "Changed"))
    BY <1>3, DetailsCounted DEF Counted, CountedOn
  <1>. QED
    BY <1>1, <1>2, <1>4 DEF Counted

\* The counters kept beside the list are at every moment what counting the list
\* would give.
THEOREM StatsCountEntries == Spec => []StatsAgree
  <1>. DEFINE Inv == Counted(entries, stats)
  <1>1. Init => Inv
    BY NothingCounted DEF Init
  <1>2. TypeOK /\ Inv /\ [Next]_vars => Inv'
    <2>. SUFFICES ASSUME TypeOK, Inv, [Next]_vars PROVE Inv'
      OBVIOUS
    <2>1. /\ entries \in Seq(Result) /\ stats \in Counters
          /\ stack \in Seq(Frame) /\ diffs \in Details
          /\ IsHive(left) /\ IsHive(right) /\ pair.path \in Path /\ pair.l \in Ids
      BY CountersByName DEF TypeOK, Frame, Result
    <2>2. stats = [keys_added |-> stats.keys_added, keys_removed |-> stats.keys_removed,
                   keys_modified |-> stats.keys_modified, values_added |-> stats.values_added,
                   values_removed |-> stats.values_removed,
                   values_changed |-> stats.values_changed]
      BY <2>1 DEF Counters
    <2>3. CASE UNCHANGED <<entries, stats>>
      BY <2>3
    <2>4. CASE Fail
      BY <2>4, NothingCounted DEF Fail
    <2>5. ASSUME NEW e \in Result, entries' = Append(entries, e), CountedOn(stats, stats', e)
          PROVE  Inv'
      BY <2>1, <2>5, CountGoesOn
    <2>6. CASE EnterSubkeys /\ diffs # << >>
      <3>. DEFINE e == Entry(PathOfPair, "KeyModified", diffs)
      <3>1. e \in Result
        BY <2>1 DEF Entry, Result, PathOfPair, Path, IsHive, Kinds
      <3>2. entries' = Append(entries, e)
        BY <2>6 DEF EnterSubkeys
      <3>3. stats' = [stats EXCEPT
              !.keys_modified = stats.keys_modified + 1,
              !.values_added = stats.values_added + OfKind(diffs, "Added"),
              !.values_removed = stats.values_removed + OfKind(diffs, "Removed"),
              !.values_changed = stats.values_changed + OfKind(diffs, "Changed")]
        BY <2>6 DEF EnterSubkeys
      <3>4. CountedOn(stats, stats', e)
        BY <2>1, <2>2, <3>3 DEF CountedOn, Entry, Counters
      <3>. HIDE DEF e
      <3>. QED
        BY <2>5, <3>1, <3>2, <3>4
    <2>7. ASSUME NEW path \in Path, NEW kind \in {"KeyAdded", "KeyRemoved"},
                 entries' = Append(entries, Entry(path, kind, << >>)),
                 stats' = IF kind = "KeyAdded"
                            THEN [stats EXCEPT !.keys_added = stats.keys_added + 1]
                            ELSE [stats EXCEPT !.keys_removed = stats.keys_removed + 1]
          PROVE  Inv'
      <3>. DEFINE e == Entry(path, kind, << >>)
      <3>1. e \in Result
        BY DEF Entry, Result, Kinds, Details
      <3>2. e.kind = kind /\ e.details = << >>
        BY DEF Entry
      <3>. HIDE DEF e
      <3>3. CountedOn(stats, stats', e)
        BY <2>1, <2>2, <2>7, <3>2, NoDetails DEF CountedOn, Counters
      <3>. QED
        BY <2>5, <2>7, <3>1, <3>3 DEF e
    <2>8. CASE KeyRemoved
      <3>1. Append(Top.path, left.name[Head(Top.ls)]) \in Path
        BY <2>8, FrontOfJoin, DiffAssumption DEF KeyRemoved, OnlyLeft, Path
      <3>. QED
        BY <2>7, <2>8, <3>1 DEF KeyRemoved
    <2>9. CASE KeyAdded
      <3>1. Append(Top.path, right.name[Head(Top.rs)]) \in Path
        BY <2>9, FrontOfJoin, DiffAssumption DEF KeyAdded, OnlyRight, Path
      <3>. QED
        BY <2>7, <2>9, <3>1 DEF KeyAdded
    <2>. QED
      BY <2>3, <2>4, <2>6, <2>8, <2>9
      DEF Next, vars, BeginDiff, RootUnreadable, ReadValues, ValuesUnreadable, ValueInBoth,
          ValueRemoved, ValueAdded, EnterSubkeys, SubkeysUnreadable, KeyInBoth, LeaveKey
  <1>3. Inv => StatsAgree
    BY DEF Counted, StatsAgree, EntriesOf, DetailsOf, EntrySet, DetailSet
  <1>. QED
    BY <1>1, <1>2, <1>3, TypeCorrect, PTL DEF Spec

-----------------------------------------------------------------------------
\* One more entry is one more at the top if its path has one name.
TopSet(es, kind) == {n \in DOMAIN es : es[n].kind = kind /\ Len(es[n].path) = 1}

LEMMA TopCounted ==
  ASSUME NEW es \in Seq(Result), NEW e \in Result, NEW kind
  PROVE  /\ Cardinality(TopSet(es, kind)) \in Nat
         /\ Cardinality(TopSet(Append(es, e), kind)) =
              Cardinality(TopSet(es, kind))
                + (IF e.kind = kind /\ Len(e.path) = 1 THEN 1 ELSE 0)
  <1>. DEFINE T == {r \in Result : r.kind = kind /\ Len(r.path) = 1}
  <1>1. TopSet(es, kind) = PlacesOf(es, T)
    BY DEF TopSet, PlacesOf
  <1>2. Append(es, e) \in Seq(Result)
    OBVIOUS
  <1>3. TopSet(Append(es, e), kind) = PlacesOf(Append(es, e), T)
    BY <1>2 DEF TopSet, PlacesOf
  <1>4. e \in T <=> e.kind = kind /\ Len(e.path) = 1
    OBVIOUS
  <1>. HIDE DEF T
  <1>. QED
    BY <1>1, <1>3, <1>4, PlaceCounted

\* Replacing the frame on top leaves the others.
LEMMA TopReplaced ==
  ASSUME stack \in Seq(Frame), stack # << >>, NEW g \in Frame
  PROVE  /\ Append(Below, g) # << >>
         /\ Len(Append(Below, g)) = Len(stack)
         /\ Append(Below, g)[Len(stack)] = g
         /\ \A n \in 1 .. Len(stack) - 1 : Append(Below, g)[n] = stack[n]
  <1>1. /\ Len(stack) \in Nat \ {0} /\ Below \in Seq(Frame) /\ Len(Below) = Len(stack) - 1
        /\ \A n \in 1 .. Len(Below) : Below[n] = stack[n]
    BY TopOfStack
  <1>2. /\ Append(Below, g) # << >>
        /\ Len(Append(Below, g)) = Len(Below) + 1
        /\ Append(Below, g)[Len(Below) + 1] = g
        /\ \A n \in 1 .. Len(Below) : Append(Below, g)[n] = Below[n]
    BY <1>1, AppendProperties
  <1>3. Len(Below) + 1 = Len(stack)
    BY <1>1
  <1>. QED
    BY <1>1, <1>2, <1>3

\* A frame's path is as long as the frame is deep, and so is the pair's; before
\* the roots' subkeys are joined nothing is listed.
Depths ==
  /\ \A n \in 1 .. Len(stack) : Len(stack[n].path) = n - 1
  /\ pc \in {"start", "enter", "values"} =>
       /\ Len(pair.path) = Len(stack)
       /\ stack = << >> => pair.l = Root /\ pair.r = Root /\ entries = << >>
  /\ pc = "start" => stack = << >>

\* On both sides: the subkeys, those listed and those still to be joined.
Even(a, b, c, d, e, f) == a - b - c = d - e - f

\* The balance before anything is joined, and after everything is.
LEMMA EvenAtFirst ==
  ASSUME NEW a \in Nat, NEW d \in Nat PROVE Even(a, 0, a, d, 0, d)
  BY DEF Even

LEMMA EvenAtLast ==
  ASSUME NEW a \in Nat, NEW b \in Nat, NEW d \in Nat, NEW e \in Nat, Even(a, b, 0, d, e, 0)
  PROVE  a - b = d - e
  BY DEF Even

\* One subkey less on both sides, or one listed, leaves the balance.
LEMMA StillEven ==
  ASSUME NEW a \in Nat, NEW b \in Nat, NEW c \in Nat, NEW d \in Nat, NEW e \in Nat, NEW f \in Nat,
         Even(a, b, c, d, e, f)
  PROVE  /\ Even(a, b, c - 1, d, e, f - 1)
         /\ Even(a, b + 1, c - 1, d, e, f)
         /\ Even(a, b, c, d, e + 1, f - 1)
  BY DEF Even

Subkeys(h) == Len(h.kids[Root])

\* What is listed at the top and what the first join still has before it are the
\* same number of subkeys short of each root.
FirstJoinAccounted ==
  pc \in {"enter", "values", "merge"} /\ stack # << >> =>
    Even(Subkeys(left), AtTop("KeyRemoved"), Len(stack[1].ls),
         Subkeys(right), AtTop("KeyAdded"), Len(stack[1].rs))

AccountInv == Depths /\ FirstJoinAccounted /\ EveryKeyAccounted

\* Every subkey of the two roots is compared, listed as removed or listed as
\* added, and once only, however the names of siblings collide.
THEOREM RootsAccountedFor == Spec => []EveryKeyAccounted
  <1>1. Init => AccountInv
    BY DEF Init, AccountInv, Depths, FirstJoinAccounted, EveryKeyAccounted
  <1>2. TypeOK /\ AccountInv /\ [Next]_vars => AccountInv'
    <2>. SUFFICES ASSUME TypeOK, AccountInv, [Next]_vars PROVE AccountInv'
      OBVIOUS
    <2>1. Depths /\ FirstJoinAccounted /\ EveryKeyAccounted
      BY DEF AccountInv
    <2>2. /\ stack \in Seq(Frame) /\ entries \in Seq(Result) /\ Len(stack) \in Nat
          /\ IsHive(left) /\ IsHive(right) /\ pair.l \in Ids /\ pair.r \in Ids
          /\ pair.path \in Path /\ diffs \in Details
      BY DEF TypeOK, Frame, Result, IsHive
    <2>3. /\ AtTop("KeyRemoved") \in Nat /\ AtTop("KeyAdded") \in Nat
          /\ Subkeys(left) \in Nat /\ Subkeys(right) \in Nat
      <3>1. Entry(<< >>, "KeyAdded", << >>) \in Result
        BY DEF Entry, Result, Path, Kinds, Details
      <3>2. Subkeys(left) \in Nat /\ Subkeys(right) \in Nat
        <4>1. left.kids[Root] \in Seq(Ids) /\ right.kids[Root] \in Seq(Ids)
          BY <2>2, DiffAssumption DEF IsHive
        <4>. QED
          BY <4>1 DEF Subkeys
      <3>3. AtTop("KeyRemoved") \in Nat /\ AtTop("KeyAdded") \in Nat
        <4>1. /\ Cardinality(TopSet(entries, "KeyRemoved")) \in Nat
              /\ Cardinality(TopSet(entries, "KeyAdded")) \in Nat
          BY <2>2, <3>1, TopCounted
        <4>. QED
          BY <4>1 DEF AtTop, TopSet
      <3>. QED
        BY <3>2, <3>3
    <2>4. CASE Fail
      BY <2>1, <2>4 DEF Fail, AccountInv, Depths, FirstJoinAccounted, EveryKeyAccounted
    <2>5. ASSUME UNCHANGED <<left, right, pair, stack, entries>>,
                 \/ pc = "start" /\ pc' = "enter"
                 \/ pc = "enter" /\ pc' = "values"
                 \/ pc' = pc
          PROVE  AccountInv'
      BY <2>1, <2>5 DEF AccountInv, Depths, FirstJoinAccounted, EveryKeyAccounted, AtTop
    <2>6. CASE EnterSubkeys
      <3>. DEFINE f == [path |-> pair.path,
                        ls |-> SortedKeys(left, left.kids[pair.l]),
                        rs |-> SortedKeys(right, right.kids[pair.r])]
      <3>1. /\ pc = "values" /\ pc' = "merge" /\ stack' = Append(stack, f)
            /\ UNCHANGED <<left, right, pair>>
        BY <2>6 DEF EnterSubkeys
      <3>2. left.kids[pair.l] \in Seq(Ids) /\ right.kids[pair.r] \in Seq(Ids)
        BY <2>2 DEF IsHive
      <3>3. /\ f \in Frame /\ Len(f.path) = Len(stack)
            /\ Len(f.ls) = Len(left.kids[pair.l]) /\ Len(f.rs) = Len(right.kids[pair.r])
        BY <2>1, <2>2, <3>1, <3>2, DiffAssumption, NamesOfKeys DEF Frame, Depths
      <3>. HIDE DEF f
      <3>4. Depths'
        BY <2>1, <2>2, <3>1, <3>3, AppendProperties DEF Depths
      <3>5. /\ AtTop("KeyRemoved")' = AtTop("KeyRemoved")
            /\ AtTop("KeyAdded")' = AtTop("KeyAdded")
        <4>1. CASE diffs # << >>
          <5>. DEFINE e == Entry(PathOfPair, "KeyModified", diffs)
          <5>1. e \in Result
            BY <2>2 DEF Entry, Result, PathOfPair, Path, IsHive, Kinds
          <5>2. entries' = Append(entries, e) /\ e.kind = "KeyModified"
            BY <2>6, <4>1 DEF EnterSubkeys, Entry
          <5>. HIDE DEF e
          <5>3. /\ Cardinality(TopSet(Append(entries, e), "KeyRemoved")) =
                     Cardinality(TopSet(entries, "KeyRemoved")) + 0
                /\ Cardinality(TopSet(Append(entries, e), "KeyAdded")) =
                     Cardinality(TopSet(entries, "KeyAdded")) + 0
            BY <2>2, <5>1, <5>2, TopCounted
          <5>4. \A kind : AtTop(kind) = Cardinality(TopSet(entries, kind))
            BY DEF AtTop, TopSet
          <5>5. \A kind : AtTop(kind)' = Cardinality(TopSet(Append(entries, e), kind))
            BY <5>2 DEF AtTop, TopSet
          <5>. QED
            BY <2>3, <5>3, <5>4, <5>5
        <4>2. CASE diffs = << >>
          BY <2>6, <4>2 DEF EnterSubkeys, AtTop
        <4>. QED
          BY <4>1, <4>2
      <3>6. FirstJoinAccounted'
        <4>1. CASE stack = << >>
          <5>1. stack'[1] = f /\ pair.l = Root /\ pair.r = Root /\ entries = << >>
            BY <2>1, <3>1, <4>1 DEF Depths
          <5>2. AtTop("KeyRemoved") = 0 /\ AtTop("KeyAdded") = 0
            BY <5>1, FS_EmptySet DEF AtTop
          <5>3. /\ Len(stack'[1].ls) = Subkeys(left)
                /\ Len(stack'[1].rs) = Subkeys(right)
            BY <3>3, <5>1 DEF Subkeys
          <5>4. Even(Subkeys(left), 0, Subkeys(left),
                     Subkeys(right), 0, Subkeys(right))
            BY <2>3, EvenAtFirst
          <5>. QED
            BY <3>1, <3>5, <5>2, <5>3, <5>4 DEF FirstJoinAccounted, Subkeys
        <4>2. CASE stack # << >>
          <5>1. stack'[1] = stack[1]
            BY <2>2, <3>1, <3>3, <4>2, AppendProperties
          <5>. QED
            BY <2>1, <3>1, <3>5, <4>2, <5>1 DEF FirstJoinAccounted, Subkeys
        <4>. QED
          BY <4>1, <4>2
      <3>. QED
        BY <2>1, <3>1, <3>4, <3>6 DEF AccountInv, EveryKeyAccounted
    <2>7. ASSUME pc = "merge"
          PROVE  /\ stack # << >> /\ Top \in Frame /\ Top = stack[Len(stack)]
                 /\ Len(stack) \in Nat \ {0} /\ Len(Top.path) = Len(stack) - 1
                 /\ Top.ls \in Seq(Ids) /\ Top.rs \in Seq(Ids) /\ Top.path \in Path
                 /\ UpsK(left, Top.ls) # << >> => /\ Len(Tail(Top.ls)) = Len(Top.ls) - 1
                                                  /\ Tail(Top.ls) \in Seq(Ids)
                                                  /\ left.name[Head(Top.ls)] \in Names
                 /\ UpsK(right, Top.rs) # << >> => /\ Len(Tail(Top.rs)) = Len(Top.rs) - 1
                                                   /\ Tail(Top.rs) \in Seq(Ids)
                                                   /\ right.name[Head(Top.rs)] \in Names
      <3>1. Len(stack) \in Nat \ {0}
        BY <2>2, <2>7, DiffAssumption, FrontOfJoin, TopOfStack
      <3>2. Len(Top.path) = Len(stack) - 1 /\ Top = stack[Len(stack)]
        BY <2>1, <3>1 DEF Depths, Top
      <3>. QED
        BY <2>7, <3>1, <3>2, DiffAssumption, FrontOfJoin, HeadTailProperties
    <2>8. ASSUME pc = "merge", pc' \in {"merge", "enter"},
                  NEW g \in Frame, g.path = Top.path, stack' = Append(Below, g),
                  pc' = "enter" => Len(pair'.path) = Len(stack)
           PROVE  Depths'
      <3>1. /\ stack' # << >> /\ Len(stack') = Len(stack) /\ stack'[Len(stack)] = g
            /\ \A n \in 1 .. Len(stack) - 1 : stack'[n] = stack[n]
        BY <2>2, <2>7, <2>8, TopReplaced
      <3>2. ASSUME NEW n \in 1 .. Len(stack') PROVE Len(stack'[n].path) = n - 1
        <4>1. CASE n = Len(stack)
          BY <2>7, <2>8, <3>1, <4>1
        <4>2. CASE n # Len(stack)
          <5>1. n \in 1 .. Len(stack) - 1 /\ n \in 1 .. Len(stack)
            BY <2>7, <2>8, <3>1, <4>2
          <5>. QED
            BY <2>1, <3>1, <5>1 DEF Depths
        <4>. QED
          BY <4>1, <4>2
      <3>. QED
        BY <2>1, <2>8, <3>1, <3>2 DEF Depths
    <2>9. ASSUME NEW e \in Result, entries' = Append(entries, e), NEW kind
           PROVE  AtTop(kind)' = AtTop(kind) + (IF e.kind = kind /\ Len(e.path) = 1 THEN 1 ELSE 0)
      <3>1. AtTop(kind) = Cardinality(TopSet(entries, kind))
        BY DEF AtTop, TopSet
      <3>2. AtTop(kind)' = Cardinality(TopSet(Append(entries, e), kind))
        BY <2>9 DEF AtTop, TopSet
      <3>. QED
        BY <2>2, <3>1, <3>2, TopCounted
    <2>10. ASSUME pc = "merge", NEW g \in Frame, stack' = Append(Below, g)
           PROVE  /\ stack' # << >>
                  /\ Len(stack) = 1 => stack'[1] = g /\ Top = stack[1]
                  /\ Len(stack) # 1 => stack'[1] = stack[1]
      <3>1. /\ stack' # << >> /\ stack'[Len(stack)] = g
            /\ \A n \in 1 .. Len(stack) - 1 : stack'[n] = stack[n]
        BY <2>2, <2>7, <2>10, TopReplaced
      <3>2. Len(stack) \in Nat \ {0}
        BY <2>7, <2>10
      <3>3. Len(stack) # 1 => 1 \in 1 .. Len(stack) - 1
        BY <3>2
      <3>. QED
        BY <2>7, <2>10, <3>1, <3>3
    <2>11. ASSUME pc = "merge"
           PROVE  Even(Subkeys(left), AtTop("KeyRemoved"), Len(stack[1].ls),
                 Subkeys(right), AtTop("KeyAdded"), Len(stack[1].rs))
      BY <2>1, <2>7, <2>11 DEF FirstJoinAccounted
    <2>12. ASSUME pc = "merge", stack' # << >>, UNCHANGED <<left, right>>,
                  Even(Subkeys(left), AtTop("KeyRemoved")', Len(stack'[1].ls),
                 Subkeys(right), AtTop("KeyAdded")', Len(stack'[1].rs))
           PROVE  FirstJoinAccounted'
      BY <2>1, <2>12 DEF FirstJoinAccounted
    <2>13. ASSUME pc = "merge"
           PROVE  /\ Len(Top.ls) \in Nat /\ Len(Top.rs) \in Nat
                  /\ UpsK(left, Top.ls) # << >> => Len(Tail(Top.ls)) = Len(Top.ls) - 1
                  /\ UpsK(right, Top.rs) # << >> => Len(Tail(Top.rs)) = Len(Top.rs) - 1
      BY <2>7, <2>13
    <2>14. CASE KeyInBoth
      <3>. DEFINE g == [Top EXCEPT !.ls = Tail(@), !.rs = Tail(@)]
      <3>1. /\ pc = "merge" /\ pc' = "enter" /\ stack' = Append(Below, g)
            /\ UpsK(left, Top.ls) # << >> /\ UpsK(right, Top.rs) # << >>
            /\ UNCHANGED <<left, right, entries>>
            /\ pair'.path = Append(Top.path, left.name[Head(Top.ls)])
        BY <2>14 DEF KeyInBoth, Both
      <3>2. /\ g \in Frame /\ g.path = Top.path
            /\ g.ls = Tail(Top.ls) /\ g.rs = Tail(Top.rs)
        BY <2>7, <3>1 DEF Frame
      <3>. HIDE DEF g
      <3>3. Len(pair'.path) = Len(stack)
        <4>1. Len(Append(Top.path, left.name[Head(Top.ls)])) = Len(Top.path) + 1
          BY <2>7, <3>1, AppendProperties DEF Path
        <4>. QED
          BY <2>7, <3>1, <4>1
      <3>4. Depths'
        BY <2>8, <3>1, <3>2, <3>3
      <3>5. FirstJoinAccounted'
        <4>1. AtTop("KeyRemoved")' = AtTop("KeyRemoved") /\ AtTop("KeyAdded")' = AtTop("KeyAdded")
          BY <3>1 DEF AtTop
        <4>2. CASE Len(stack) = 1
          <5>1. stack'[1] = g /\ Top = stack[1]
            BY <2>10, <3>1, <3>2, <4>2
          <5>2. Even(Subkeys(left), AtTop("KeyRemoved")', Len(stack'[1].ls),
                 Subkeys(right), AtTop("KeyAdded")', Len(stack'[1].rs))
            <6>1. /\ Len(stack'[1].ls) = Len(stack[1].ls) - 1
                  /\ Len(stack'[1].rs) = Len(stack[1].rs) - 1
                  /\ Len(stack[1].ls) \in Nat /\ Len(stack[1].rs) \in Nat
              BY <2>13, <3>1, <3>2, <5>1
            <6>2. Even(Subkeys(left), AtTop("KeyRemoved"), Len(stack[1].ls),
                 Subkeys(right), AtTop("KeyAdded"), Len(stack[1].rs))
              BY <2>11, <3>1
            <6>3. Even(Subkeys(left), AtTop("KeyRemoved"), Len(stack[1].ls) - 1,
                 Subkeys(right), AtTop("KeyAdded"), Len(stack[1].rs) - 1)
              BY <2>3, <6>1, <6>2, StillEven, ZenonT(60)
            <6>. QED
              BY <4>1, <6>1, <6>3
          <5>. QED
            BY <2>10, <2>12, <3>1, <3>2, <5>2
        <4>3. CASE Len(stack) # 1
          <5>1. stack'[1] = stack[1]
            BY <2>10, <3>1, <3>2, <4>3
          <5>. QED
            BY <2>1, <2>11, <3>1, <4>1, <5>1 DEF FirstJoinAccounted, Subkeys
        <4>. QED
          BY <4>2, <4>3
      <3>. QED
        BY <2>1, <3>1, <3>4, <3>5 DEF AccountInv, EveryKeyAccounted
    <2>15. CASE KeyRemoved
      <3>. DEFINE g == [Top EXCEPT !.ls = Tail(@)]
                  e == Entry(Append(Top.path, left.name[Head(Top.ls)]), "KeyRemoved", << >>)
      <3>1. /\ pc = "merge" /\ pc' = "merge" /\ stack' = Append(Below, g)
            /\ UpsK(left, Top.ls) # << >>
            /\ entries' = Append(entries, e)
            /\ UNCHANGED <<left, right>>
        BY <2>15 DEF KeyRemoved, OnlyLeft
      <3>2. /\ g \in Frame /\ g.path = Top.path
            /\ g.ls = Tail(Top.ls) /\ g.rs = Top.rs
        BY <2>7, <3>1 DEF Frame
      <3>3. Len(Append(Top.path, left.name[Head(Top.ls)])) = Len(stack)
        <4>1. Len(Append(Top.path, left.name[Head(Top.ls)])) = Len(Top.path) + 1
          BY <2>7, <3>1, AppendProperties DEF Path
        <4>. QED
          BY <2>7, <3>1, <4>1
      <3>4. e \in Result /\ e.kind = "KeyRemoved" /\ Len(e.path) = Len(stack)
        BY <2>7, <3>1, <3>3 DEF Entry, Result, Path, Kinds, Details
      <3>. HIDE DEF g, e
      <3>5. Depths'
        BY <2>8, <3>1, <3>2
      <3>6. /\ AtTop("KeyRemoved")' = AtTop("KeyRemoved") + (IF Len(stack) = 1 THEN 1 ELSE 0)
            /\ AtTop("KeyAdded")' = AtTop("KeyAdded")
        BY <2>3, <2>9, <3>1, <3>4
      <3>7. CASE Len(stack) = 1
        <4>1. stack'[1] = g /\ Top = stack[1]
          BY <2>10, <3>1, <3>2, <3>7
        <4>2. Even(Subkeys(left), AtTop("KeyRemoved")', Len(stack'[1].ls),
                 Subkeys(right), AtTop("KeyAdded")', Len(stack'[1].rs))
          <5>1. /\ Len(stack'[1].ls) = Len(stack[1].ls) - 1
                /\ Len(stack'[1].rs) = Len(stack[1].rs)
                /\ Len(stack[1].ls) \in Nat /\ Len(stack[1].rs) \in Nat
            BY <2>13, <3>1, <3>2, <4>1
          <5>2. Even(Subkeys(left), AtTop("KeyRemoved"), Len(stack[1].ls),
                 Subkeys(right), AtTop("KeyAdded"), Len(stack[1].rs))
            BY <2>11, <3>1
          <5>. QED
            <6>1. Even(Subkeys(left), AtTop("KeyRemoved") + 1, Len(stack[1].ls) - 1,
                 Subkeys(right), AtTop("KeyAdded"), Len(stack[1].rs))
              BY <2>3, <5>1, <5>2, StillEven, Zenon
            <6>. QED
              BY <3>6, <3>7, <5>1, <6>1
        <4>. QED
          BY <2>1, <2>10, <2>12, <3>1, <3>2, <3>5, <4>2 DEF AccountInv, EveryKeyAccounted
      <3>8. CASE Len(stack) # 1
        <4>1. stack'[1] = stack[1]
          BY <2>10, <3>1, <3>2, <3>8
        <4>2. Even(Subkeys(left), AtTop("KeyRemoved")', Len(stack'[1].ls),
                 Subkeys(right), AtTop("KeyAdded")', Len(stack'[1].rs))
          BY <2>3, <2>11, <3>1, <3>6, <3>8, <4>1
        <4>. QED
          BY <2>1, <2>10, <2>12, <3>1, <3>2, <3>5, <4>2 DEF AccountInv, EveryKeyAccounted
      <3>. QED
        BY <3>7, <3>8
    <2>16. CASE KeyAdded
      <3>. DEFINE g == [Top EXCEPT !.rs = Tail(@)]
                  e == Entry(Append(Top.path, right.name[Head(Top.rs)]), "KeyAdded", << >>)
      <3>1. /\ pc = "merge" /\ pc' = "merge" /\ stack' = Append(Below, g)
            /\ UpsK(right, Top.rs) # << >>
            /\ entries' = Append(entries, e)
            /\ UNCHANGED <<left, right>>
        BY <2>16 DEF KeyAdded, OnlyRight
      <3>2. /\ g \in Frame /\ g.path = Top.path
            /\ g.rs = Tail(Top.rs) /\ g.ls = Top.ls
        BY <2>7, <3>1 DEF Frame
      <3>3. Len(Append(Top.path, right.name[Head(Top.rs)])) = Len(stack)
        <4>1. Len(Append(Top.path, right.name[Head(Top.rs)])) = Len(Top.path) + 1
          BY <2>7, <3>1, AppendProperties DEF Path
        <4>. QED
          BY <2>7, <3>1, <4>1
      <3>4. e \in Result /\ e.kind = "KeyAdded" /\ Len(e.path) = Len(stack)
        BY <2>7, <3>1, <3>3 DEF Entry, Result, Path, Kinds, Details
      <3>. HIDE DEF g, e
      <3>5. Depths'
        BY <2>8, <3>1, <3>2
      <3>6. /\ AtTop("KeyAdded")' = AtTop("KeyAdded") + (IF Len(stack) = 1 THEN 1 ELSE 0)
            /\ AtTop("KeyRemoved")' = AtTop("KeyRemoved")
        BY <2>3, <2>9, <3>1, <3>4
      <3>7. CASE Len(stack) = 1
        <4>1. stack'[1] = g /\ Top = stack[1]
          BY <2>10, <3>1, <3>2, <3>7
        <4>2. Even(Subkeys(left), AtTop("KeyRemoved")', Len(stack'[1].ls),
                 Subkeys(right), AtTop("KeyAdded")', Len(stack'[1].rs))
          <5>1. /\ Len(stack'[1].rs) = Len(stack[1].rs) - 1
                /\ Len(stack'[1].ls) = Len(stack[1].ls)
                /\ Len(stack[1].ls) \in Nat /\ Len(stack[1].rs) \in Nat
            BY <2>13, <3>1, <3>2, <4>1
          <5>2. Even(Subkeys(left), AtTop("KeyRemoved"), Len(stack[1].ls),
                 Subkeys(right), AtTop("KeyAdded"), Len(stack[1].rs))
            BY <2>11, <3>1
          <5>. QED
            <6>1. Even(Subkeys(left), AtTop("KeyRemoved"), Len(stack[1].ls),
                 Subkeys(right), AtTop("KeyAdded") + 1, Len(stack[1].rs) - 1)
              BY <2>3, <5>1, <5>2, StillEven, Zenon
            <6>. QED
              BY <3>6, <3>7, <5>1, <6>1
        <4>. QED
          BY <2>1, <2>10, <2>12, <3>1, <3>2, <3>5, <4>2 DEF AccountInv, EveryKeyAccounted
      <3>8. CASE Len(stack) # 1
        <4>1. stack'[1] = stack[1]
          BY <2>10, <3>1, <3>2, <3>8
        <4>2. Even(Subkeys(left), AtTop("KeyRemoved")', Len(stack'[1].ls),
                 Subkeys(right), AtTop("KeyAdded")', Len(stack'[1].rs))
          BY <2>3, <2>11, <3>1, <3>6, <3>8, <4>1
        <4>. QED
          BY <2>1, <2>10, <2>12, <3>1, <3>2, <3>5, <4>2 DEF AccountInv, EveryKeyAccounted
      <3>. QED
        BY <3>7, <3>8
    <2>17. CASE LeaveKey
      <3>1. /\ pc = "merge" /\ Top.ls = << >> /\ Top.rs = << >> /\ stack' = Below
            /\ pc' = IF Len(stack) = 1 THEN "done" ELSE "merge"
            /\ UNCHANGED <<left, right, entries>>
        BY <2>17 DEF LeaveKey
      <3>2. /\ Len(stack') = Len(stack) - 1
            /\ \A n \in 1 .. Len(stack') : stack'[n] = stack[n]
        BY <2>2, <2>7, <3>1, TopOfStack
      <3>3. Depths'
        <4>1. \A n \in 1 .. Len(stack') : n \in 1 .. Len(stack)
          BY <2>7, <3>1, <3>2
        <4>2. \A n \in 1 .. Len(stack') : Len(stack'[n].path) = n - 1
          BY <2>1, <3>2, <4>1 DEF Depths
        <4>. QED
          BY <3>1, <4>2 DEF Depths
      <3>4. CASE Len(stack) = 1
        <4>1. Len(stack[1].ls) = 0 /\ Len(stack[1].rs) = 0
          BY <2>7, <3>1, <3>4
        <4>2. EveryKeyAccounted'
          <5>1. Subkeys(left) - AtTop("KeyRemoved")
                  = Subkeys(right) - AtTop("KeyAdded")
            <6>1. Even(Subkeys(left), AtTop("KeyRemoved"), 0,
                       Subkeys(right), AtTop("KeyAdded"), 0)
              BY <2>11, <3>1, <4>1
            <6>. QED
              BY <2>3, <6>1, EvenAtLast
          <5>2. Len(left.kids[Root]) - AtTop("KeyRemoved")
                  = Len(right.kids[Root]) - AtTop("KeyAdded")
            BY <5>1, Zenon DEF Subkeys
          <5>. QED
            BY <3>1, <5>2 DEF EveryKeyAccounted, AtTop
        <4>. QED
          BY <2>1, <3>1, <3>3, <3>4, <4>2 DEF AccountInv, FirstJoinAccounted
      <3>5. CASE Len(stack) # 1
        <4>1. stack'[1] = stack[1]
          BY <2>7, <3>1, <3>2, <3>5
        <4>. QED
          BY <2>1, <2>7, <3>1, <3>3, <3>5, <4>1
          DEF AccountInv, EveryKeyAccounted, FirstJoinAccounted, AtTop, Subkeys
      <3>. QED
        BY <3>4, <3>5
    <2>. QED
      BY <2>4, <2>5, <2>6, <2>14, <2>15, <2>16, <2>17
      DEF Next, vars, BeginDiff, RootUnreadable, ReadValues, ValuesUnreadable, ValueInBoth,
          ValueRemoved, ValueAdded, SubkeysUnreadable
  <1>3. AccountInv => EveryKeyAccounted
    BY DEF AccountInv
  <1>. QED
    BY <1>1, <1>2, <1>3, TypeCorrect, PTL DEF Spec

-----------------------------------------------------------------------------
\* Two merge joins of names: what remains of both lists ascends, is part of the
\* names U and V there are, and a name that both have remains in both or in none.
Ascending(us) == \A i, j \in DOMAIN us : i < j => us[i] < us[j]

Joined(us, vs, U, V) ==
  /\ us \in Seq(Int) /\ vs \in Seq(Int)
  /\ Ascending(us) /\ Ascending(vs)
  /\ Range(us) \subseteq U /\ Range(vs) \subseteq V
  /\ Range(us) \intersect V \subseteq Range(vs)
  /\ Range(vs) \intersect U \subseteq Range(us)

\* Where the members of a list and of its tail are.
LEMMA TailPlaces ==
  ASSUME NEW S, NEW s \in Seq(S), s # << >>
  PROVE  /\ Len(s) \in Nat \ {0} /\ Head(s) = s[1]
         /\ Tail(s) \in Seq(S) /\ Len(Tail(s)) = Len(s) - 1
         /\ \A n \in 1 .. Len(s) - 1 : Tail(s)[n] = s[n + 1]
         /\ \A n \in 1 .. Len(s) : s[n] \in S
         /\ DOMAIN s = 1 .. Len(s) /\ DOMAIN Tail(s) = 1 .. Len(s) - 1
BY HeadTailProperties, EmptySeq, SMTT(30)

\* The range of a sequence that is not empty is its head and its tail's range.
LEMMA HeadAndTail ==
  ASSUME NEW S, NEW s \in Seq(S), s # << >>
  PROVE  /\ Head(s) \in S /\ Tail(s) \in Seq(S)
         /\ Head(s) \in Range(s) /\ Range(s) \subseteq S
         /\ Range(s) = Range(Tail(s)) \union {Head(s)}
<1>1. /\ Len(s) \in Nat \ {0} /\ Head(s) = s[1]
      /\ Tail(s) \in Seq(S) /\ Len(Tail(s)) = Len(s) - 1
      /\ \A n \in 1 .. Len(s) - 1 : Tail(s)[n] = s[n + 1]
      /\ \A n \in 1 .. Len(s) : s[n] \in S
      /\ DOMAIN s = 1 .. Len(s) /\ DOMAIN Tail(s) = 1 .. Len(s) - 1
  BY TailPlaces
<1>2. ASSUME NEW x PROVE x \in Range(s) <=> x = s[1] \/ x \in Range(Tail(s))
  <2>1. x \in Range(s) <=> \E n \in 1 .. Len(s) : s[n] = x
    BY <1>1 DEF Range
  <2>2. x \in Range(Tail(s)) <=> \E n \in 1 .. Len(s) - 1 : s[n + 1] = x
    BY <1>1 DEF Range
  <2>3. \A n \in 1 .. Len(s) : n = 1 \/ (n - 1 \in 1 .. Len(s) - 1 /\ (n - 1) + 1 = n)
    BY <1>1
  <2>4. \A n \in 1 .. Len(s) - 1 : n + 1 \in 1 .. Len(s)
    BY <1>1
  <2>5. 1 \in 1 .. Len(s)
    BY <1>1
  <2> QED
    BY <2>1, <2>2, <2>3, <2>4, <2>5
<1>3. \A x \in Range(s) : x \in S
  BY <1>1 DEF Range
<1> QED
  BY <1>1, <1>2, <1>3

\* The head of an ascending list is the least, and occurs once.
LEMMA HeadIsLeast ==
  ASSUME NEW us \in Seq(Int), Ascending(us), us # << >>
  PROVE  /\ Head(us) \in Int /\ Tail(us) \in Seq(Int) /\ Ascending(Tail(us))
         /\ Head(us) \in Range(us)
         /\ Range(Tail(us)) = Range(us) \ {Head(us)}
         /\ \A u \in Range(us) : u \in Int /\ Head(us) <= u
<1>1. /\ Len(us) \in Nat \ {0} /\ Head(us) = us[1]
      /\ Tail(us) \in Seq(Int) /\ Len(Tail(us)) = Len(us) - 1
      /\ \A n \in 1 .. Len(us) - 1 : Tail(us)[n] = us[n + 1]
      /\ \A n \in 1 .. Len(us) : us[n] \in Int
      /\ DOMAIN us = 1 .. Len(us) /\ DOMAIN Tail(us) = 1 .. Len(us) - 1
  BY TailPlaces
<1>2. \A i, j \in 1 .. Len(us) : i < j => us[i] < us[j]
  BY <1>1 DEF Ascending
<1>3. Ascending(Tail(us))
  BY <1>1, <1>2 DEF Ascending
<1>4. \A n \in 1 .. Len(us) - 1 : us[1] < us[n + 1]
  BY <1>1, <1>2
<1>5. \A u \in Range(Tail(us)) : us[1] < u /\ u \in Int
  BY <1>1, <1>4 DEF Range
<1>6. /\ Range(us) = Range(Tail(us)) \union {us[1]} /\ us[1] \in Int
      /\ us[1] \in Range(us)
  BY <1>1, HeadAndTail
<1> QED
  BY <1>1, <1>3, <1>5, <1>6

\* Three ways for a merge join to go on.
LEMMA JoinLeft ==
  ASSUME NEW us, NEW vs, NEW U, NEW V, Joined(us, vs, U, V), OnlyLeft(us, vs)
  PROVE  /\ Joined(Tail(us), vs, U, V) /\ Head(us) \notin V /\ Head(us) \in Range(us)
         /\ Range(Tail(us)) = Range(us) \ {Head(us)}
<1>1. us \in Seq(Int) /\ vs \in Seq(Int) /\ Ascending(us) /\ Ascending(vs) /\ us # << >>
  BY DEF Joined, OnlyLeft
<1>2. /\ Head(us) \in Int /\ Tail(us) \in Seq(Int) /\ Ascending(Tail(us))
      /\ Head(us) \in Range(us) /\ Range(Tail(us)) = Range(us) \ {Head(us)}
  BY <1>1, HeadIsLeast
<1>3. Head(us) \notin Range(vs)
  <2>1. vs # << >> => \A v \in Range(vs) : v \in Int /\ Head(vs) <= v /\ Head(vs) \in Int
    BY <1>1, HeadIsLeast
  <2>2. vs = << >> => Range(vs) = {}
    BY DEF Range
  <2> QED
    BY <1>2, <2>1, <2>2 DEF OnlyLeft
<1> QED
  BY <1>1, <1>2, <1>3 DEF Joined

\* The same with the lists in the other order.
LEMMA JoinRight ==
  ASSUME NEW us, NEW vs, NEW U, NEW V, Joined(us, vs, U, V), OnlyRight(us, vs)
  PROVE  /\ Joined(us, Tail(vs), U, V) /\ Head(vs) \notin U /\ Head(vs) \in Range(vs)
         /\ Range(Tail(vs)) = Range(vs) \ {Head(vs)}
<1>1. Joined(vs, us, V, U) /\ OnlyLeft(vs, us)
  BY DEF Joined, OnlyLeft, OnlyRight
<1>2. /\ Joined(Tail(vs), us, V, U) /\ Head(vs) \notin U /\ Head(vs) \in Range(vs)
      /\ Range(Tail(vs)) = Range(vs) \ {Head(vs)}
  BY <1>1, JoinLeft
<1> QED
  BY <1>2 DEF Joined

\* A name of both lists: both go on, and it is in neither any more.
LEMMA JoinBoth ==
  ASSUME NEW us, NEW vs, NEW U, NEW V, Joined(us, vs, U, V), Both(us, vs)
  PROVE  /\ Joined(Tail(us), Tail(vs), U, V)
         /\ Head(us) \in Range(us) /\ Head(vs) \in Range(vs)
         /\ Head(us) \in U /\ Head(us) \in V /\ Head(us) = Head(vs)
         /\ Range(Tail(us)) = Range(us) \ {Head(us)}
         /\ Range(Tail(vs)) = Range(vs) \ {Head(us)}
<1>1. /\ us \in Seq(Int) /\ vs \in Seq(Int) /\ Ascending(us) /\ Ascending(vs)
      /\ us # << >> /\ vs # << >> /\ Head(us) = Head(vs)
  BY DEF Joined, Both
<1>2. /\ Tail(us) \in Seq(Int) /\ Ascending(Tail(us))
      /\ Head(us) \in Range(us) /\ Range(Tail(us)) = Range(us) \ {Head(us)}
  BY <1>1, HeadIsLeast
<1>3. /\ Tail(vs) \in Seq(Int) /\ Ascending(Tail(vs))
      /\ Head(vs) \in Range(vs) /\ Range(Tail(vs)) = Range(vs) \ {Head(vs)}
  BY <1>1, HeadIsLeast
<1> QED
  BY <1>1, <1>2, <1>3 DEF Joined

\* p lists the positions of different names in ascending order.
IsStrictOrder(p, ups, len) ==
  /\ p \in [1 .. len -> 1 .. len]
  /\ \A n \in 1 .. len : \E k \in 1 .. len : p[k] = n
  /\ \A j, k \in 1 .. len : j < k => ups[p[j]] < ups[p[k]]

\* What is listed in that order has the same elements.
LEMMA Reordered ==
  ASSUME NEW len \in Nat, NEW ups, NEW p, IsStrictOrder(p, ups, len),
         NEW f, DOMAIN f = 1 .. len, NEW g, DOMAIN g = 1 .. len,
         \A k \in 1 .. len : g[k] = f[p[k]]
  PROVE  /\ Range(g) = Range(f)
         /\ f = ups => Ascending(g)
<1>1. ASSUME NEW x PROVE x \in Range(g) <=> x \in Range(f)
  <2>1. x \in Range(g) <=> \E k \in 1 .. len : f[p[k]] = x
    BY DEF Range
  <2>2. x \in Range(f) <=> \E n \in 1 .. len : f[n] = x
    BY DEF Range
  <2>3. \A k \in 1 .. len : p[k] \in 1 .. len
    BY DEF IsStrictOrder
  <2>4. \A n \in 1 .. len : \E k \in 1 .. len : p[k] = n
    BY DEF IsStrictOrder
  <2> QED
    BY <2>1, <2>2, <2>3, <2>4, Zenon
<1>2. f = ups => Ascending(g)
  BY DEF IsStrictOrder, Ascending
<1> QED
  BY <1>1, <1>2

\* A sort by names that are all different makes the names ascend.
LEMMA SortAscends ==
  ASSUME NEW S, NEW s \in Seq(S), NEW ups \in [1 .. Len(s) -> Int], IsInjective(ups)
  PROVE  /\ Sorted(s, ups) \in [1 .. Len(s) -> S] /\ Sorted(s, ups) \in Seq(S)
         /\ Len(Sorted(s, ups)) = Len(s)
         /\ \E p : /\ IsStrictOrder(p, ups, Len(s))
                   /\ \A k \in 1 .. Len(s) : Sorted(s, ups)[k] = s[p[k]]
<1>1. PICK len \in Nat : len = Len(s)
  OBVIOUS
<1>2. /\ Sorted(s, ups) \in Seq(S) /\ Len(Sorted(s, ups)) = len
      /\ \E p : IsOrder(p, ups, len) /\ \A k \in 1 .. len : Sorted(s, ups)[k] = s[p[k]]
  <2>1. /\ Sorted(s, ups) \in Seq(S) /\ Len(Sorted(s, ups)) = Len(s)
        /\ \E p : /\ IsOrder(p, ups, Len(s))
                  /\ \A k \in 1 .. Len(s) : Sorted(s, ups)[k] = s[p[k]]
    BY SortIsStable, SMTT(30)
  <2> QED
    BY <1>1, <2>1
<1>p. PICK p : IsOrder(p, ups, len) /\ \A k \in 1 .. len : Sorted(s, ups)[k] = s[p[k]]
  BY <1>2
<1>3. /\ p \in [1 .. len -> 1 .. len]
      /\ \A n \in 1 .. len : \E k \in 1 .. len : p[k] = n
      /\ \A j, k \in 1 .. len : p[j] = p[k] => j = k
      /\ \A j, k \in 1 .. len : j < k => Precedes(ups, p[j], p[k])
  BY <1>p DEF IsOrder, Bijection, Injection, Surjection, IsInjective
<1>4. \A j, k \in 1 .. len : ups[j] = ups[k] => j = k
  BY <1>1 DEF IsInjective
<1>5. ASSUME NEW j \in 1 .. len, NEW k \in 1 .. len, j < k PROVE ups[p[j]] < ups[p[k]]
  <2>1. p[j] \in 1 .. len /\ p[k] \in 1 .. len /\ p[j] # p[k]
    BY <1>3, <1>5
  <2>2. ups[p[j]] # ups[p[k]] /\ Precedes(ups, p[j], p[k])
    BY <1>3, <1>4, <1>5, <2>1
  <2> QED
    BY <2>2 DEF Precedes
<1>6. IsStrictOrder(p, ups, len)
  BY <1>3, <1>5 DEF IsStrictOrder
<1>7. Sorted(s, ups) \in [1 .. len -> S]
  BY <1>2
<1> QED
  BY <1>1, <1>2, <1>p, <1>6, <1>7

\* The names of sorted keys and of sorted values.
LEMMA KeysAscend ==
  ASSUME DiffAssumption, NEW h, IsHive(h), NEW ks \in Seq(Ids), IsInjective(UpsK(h, ks))
  PROVE  /\ SortedKeys(h, ks) \in Seq(Ids) /\ Range(SortedKeys(h, ks)) = Range(ks)
         /\ UpsK(h, SortedKeys(h, ks)) \in Seq(Int)
         /\ Ascending(UpsK(h, SortedKeys(h, ks)))
         /\ Range(UpsK(h, SortedKeys(h, ks))) = Range(UpsK(h, ks))
<1>t. PICK t : t = SortedKeys(h, ks)
  OBVIOUS
<1>l. PICK len \in Nat : len = Len(ks)
  OBVIOUS
<1>u. PICK ups : ups = UpsK(h, ks)
  OBVIOUS
<1>1. ks \in [1 .. len -> Ids] /\ ups \in [1 .. len -> Int] /\ IsInjective(ups)
  BY <1>l, <1>u, NamesOfKeys
<1>2. /\ t \in [1 .. len -> Ids] /\ t \in Seq(Ids) /\ Len(t) = len
      /\ \E p : IsStrictOrder(p, ups, len) /\ \A k \in 1 .. len : t[k] = ks[p[k]]
  <2>1. UpsK(h, ks) \in [1 .. Len(ks) -> Int] /\ IsInjective(UpsK(h, ks))
    BY NamesOfKeys
  <2> QED
    BY <1>t, <1>l, <1>u, <2>1, SortAscends, SMTT(30) DEF SortedKeys
<1>p. PICK p : IsStrictOrder(p, ups, len) /\ \A k \in 1 .. len : t[k] = ks[p[k]]
  BY <1>2
<1>3. UpsK(h, t) \in [1 .. len -> Int] /\ UpsK(h, t) \in Seq(Int)
  <2>1. UpsK(h, t) \in [1 .. Len(t) -> Int]
    BY <1>2, NamesOfKeys
  <2>2. UpsK(h, t) \in [1 .. len -> Int]
    BY <1>2, <2>1
  <2> QED
    BY <2>2, FunctionIsSeq
<1>4. ASSUME NEW k \in 1 .. len PROVE UpsK(h, t)[k] = ups[p[k]]
  <2>1. p[k] \in 1 .. len /\ t[k] = ks[p[k]]
    BY <1>p DEF IsStrictOrder
  <2>2. UpsK(h, t)[k] = h.name[t[k]].up
    BY <1>2 DEF UpsK
  <2>3. ups[p[k]] = h.name[ks[p[k]]].up
    BY <1>1, <1>u, <2>1 DEF UpsK
  <2> QED
    BY <2>1, <2>2, <2>3
<1>5. Range(UpsK(h, t)) = Range(ups) /\ Ascending(UpsK(h, t))
  <2>1. DOMAIN UpsK(h, t) = 1 .. len /\ DOMAIN ups = 1 .. len
    BY <1>1, <1>3
  <2> QED
    BY <1>4, <1>p, <2>1, Reordered
<1>6. Range(t) = Range(ks)
  <2>1. DOMAIN t = 1 .. len /\ DOMAIN ks = 1 .. len
    BY <1>1, <1>2
  <2> QED
    BY <1>p, <2>1, Reordered
<1> QED
  BY <1>t, <1>u, <1>2, <1>3, <1>5, <1>6

\* The same of sorted values.
LEMMA ValuesAscend ==
  ASSUME DiffAssumption, NEW vs \in Seq(Value), IsInjective(UpsV(vs))
  PROVE  /\ SortedValues(vs) \in Seq(Value) /\ Range(SortedValues(vs)) = Range(vs)
         /\ UpsV(SortedValues(vs)) \in Seq(Int)
         /\ Ascending(UpsV(SortedValues(vs)))
         /\ Range(UpsV(SortedValues(vs))) = Range(UpsV(vs))
<1>t. PICK t : t = SortedValues(vs)
  OBVIOUS
<1>l. PICK len \in Nat : len = Len(vs)
  OBVIOUS
<1>u. PICK ups : ups = UpsV(vs)
  OBVIOUS
<1>1. vs \in [1 .. len -> Value] /\ ups \in [1 .. len -> Int] /\ IsInjective(ups)
  BY <1>l, <1>u, NamesOfValues
<1>2. /\ t \in [1 .. len -> Value] /\ t \in Seq(Value) /\ Len(t) = len
      /\ \E p : IsStrictOrder(p, ups, len) /\ \A k \in 1 .. len : t[k] = vs[p[k]]
  <2>1. UpsV(vs) \in [1 .. Len(vs) -> Int] /\ IsInjective(UpsV(vs))
    BY NamesOfValues
  <2> QED
    BY <1>t, <1>l, <1>u, <2>1, SortAscends, SMTT(30) DEF SortedValues
<1>p. PICK p : IsStrictOrder(p, ups, len) /\ \A k \in 1 .. len : t[k] = vs[p[k]]
  BY <1>2
<1>3. UpsV(t) \in [1 .. len -> Int] /\ UpsV(t) \in Seq(Int)
  <2>1. UpsV(t) \in [1 .. Len(t) -> Int]
    BY <1>2, NamesOfValues
  <2>2. UpsV(t) \in [1 .. len -> Int]
    BY <1>2, <2>1
  <2> QED
    BY <2>2, FunctionIsSeq
<1>4. ASSUME NEW k \in 1 .. len PROVE UpsV(t)[k] = ups[p[k]]
  <2>1. p[k] \in 1 .. len /\ t[k] = vs[p[k]]
    BY <1>p DEF IsStrictOrder
  <2>2. UpsV(t)[k] = t[k].name.up
    BY <1>2 DEF UpsV
  <2>3. ups[p[k]] = vs[p[k]].name.up
    BY <1>1, <1>u, <2>1 DEF UpsV
  <2> QED
    BY <2>1, <2>2, <2>3
<1>5. Range(UpsV(t)) = Range(ups) /\ Ascending(UpsV(t))
  <2>1. DOMAIN UpsV(t) = 1 .. len /\ DOMAIN ups = 1 .. len
    BY <1>1, <1>3
  <2> QED
    BY <1>4, <1>p, <2>1, Reordered
<1>6. Range(t) = Range(vs)
  <2>1. DOMAIN t = 1 .. len /\ DOMAIN vs = 1 .. len
    BY <1>1, <1>2
  <2> QED
    BY <1>p, <2>1, Reordered
<1> QED
  BY <1>t, <1>u, <1>2, <1>3, <1>5, <1>6

-----------------------------------------------------------------------------
\* What the tail of a list is.
LEMMA TailIs ==
  ASSUME NEW S, NEW s \in Seq(S), s # << >>
  PROVE  /\ Len(s) \in Nat \ {0} /\ Head(s) = s[1]
         /\ Tail(s) \in [1 .. Len(s) - 1 -> S]
         /\ \A n \in 1 .. Len(s) - 1 : Tail(s)[n] = s[n + 1]
<1>1. Len(s) \in Nat \ {0} /\ Head(s) = s[1]
  BY EmptySeq
<1>2. /\ Tail(s) \in Seq(S) /\ Len(Tail(s)) = Len(s) - 1
      /\ \A n \in 1 .. Len(s) - 1 : Tail(s)[n] = s[n + 1]
  BY HeadTailProperties
<1>3. \A t \in Seq(S) : t \in [1 .. Len(t) -> S]
  OBVIOUS
<1>4. Tail(s) \in [1 .. Len(Tail(s)) -> S]
  BY <1>2, <1>3
<1> QED
  BY <1>1, <1>2, <1>4

\* The names of what is left of a list of keys, of values.
LEMMA NamesOfTail ==
  ASSUME DiffAssumption, NEW h, IsHive(h), NEW ks \in Seq(Ids), UpsK(h, ks) # << >>
  PROVE  /\ Head(ks) \in Ids /\ Head(ks) \in Range(ks) /\ h.name[Head(ks)] \in Names
         /\ Tail(ks) \in Seq(Ids) /\ Range(Tail(ks)) \subseteq Range(ks)
         /\ Head(UpsK(h, ks)) = h.name[Head(ks)].up
         /\ UpsK(h, Tail(ks)) = Tail(UpsK(h, ks))
<1>1. ks # << >> /\ UpsK(h, ks) \in [1 .. Len(ks) -> Int]
  BY NamesOfKeys
<1>2. /\ Head(ks) \in Ids /\ Tail(ks) \in Seq(Ids) /\ Head(ks) \in Range(ks)
      /\ Range(Tail(ks)) \subseteq Range(ks)
  BY <1>1, HeadAndTail
<1>3. /\ Len(ks) \in Nat \ {0} /\ Head(ks) = ks[1]
      /\ \A n \in 1 .. Len(ks) - 1 : Tail(ks)[n] = ks[n + 1]
      /\ DOMAIN ks = 1 .. Len(ks) /\ DOMAIN Tail(ks) = 1 .. Len(ks) - 1
  BY <1>1, TailIs
<1>4. UpsK(h, ks) \in Seq(Int) /\ Len(UpsK(h, ks)) = Len(ks)
  BY <1>1, <1>3, FunctionIsSeq
<1>5. /\ Head(UpsK(h, ks)) = UpsK(h, ks)[1]
      /\ Tail(UpsK(h, ks)) \in [1 .. Len(ks) - 1 -> Int]
      /\ \A n \in 1 .. Len(ks) - 1 : Tail(UpsK(h, ks))[n] = UpsK(h, ks)[n + 1]
  <2>1. UpsK(h, ks) # << >>
    OBVIOUS
  <2> QED
    BY <1>4, <2>1, TailIs
<1>6. \A n \in 1 .. Len(ks) : UpsK(h, ks)[n] = h.name[ks[n]].up
  BY <1>3 DEF UpsK
<1>7. Head(UpsK(h, ks)) = h.name[Head(ks)].up
  BY <1>3, <1>5, <1>6
<1>8. UpsK(h, Tail(ks)) = [n \in 1 .. Len(ks) - 1 |-> h.name[Tail(ks)[n]].up]
  BY <1>3 DEF UpsK
<1>9. \A n \in 1 .. Len(ks) - 1 : n + 1 \in 1 .. Len(ks)
  BY <1>3
<1>10. UpsK(h, Tail(ks)) = Tail(UpsK(h, ks))
  <2>1. ASSUME NEW n \in 1 .. Len(ks) - 1 PROVE UpsK(h, Tail(ks))[n] = Tail(UpsK(h, ks))[n]
    BY <1>3, <1>5, <1>6, <1>8, <1>9
  <2>2. DOMAIN UpsK(h, Tail(ks)) = 1 .. Len(ks) - 1
    BY <1>8
  <2> QED
    BY <1>5, <1>8, <2>1, <2>2
<1> QED
  BY <1>2, <1>7, <1>10 DEF IsHive

\* The same of values.
LEMMA NamesOfTailValues ==
  ASSUME DiffAssumption, NEW vs \in Seq(Value), UpsV(vs) # << >>
  PROVE  /\ Head(vs) \in Value /\ Head(vs) \in Range(vs)
         /\ Tail(vs) \in Seq(Value) /\ Range(Tail(vs)) \subseteq Range(vs)
         /\ Head(UpsV(vs)) = Head(vs).name.up
         /\ UpsV(Tail(vs)) = Tail(UpsV(vs))
<1>1. vs # << >> /\ UpsV(vs) \in [1 .. Len(vs) -> Int]
  BY NamesOfValues
<1>2. /\ Head(vs) \in Value /\ Tail(vs) \in Seq(Value) /\ Head(vs) \in Range(vs)
      /\ Range(Tail(vs)) \subseteq Range(vs)
  BY <1>1, HeadAndTail
<1>3. /\ Len(vs) \in Nat \ {0} /\ Head(vs) = vs[1]
      /\ \A n \in 1 .. Len(vs) - 1 : Tail(vs)[n] = vs[n + 1]
      /\ DOMAIN vs = 1 .. Len(vs) /\ DOMAIN Tail(vs) = 1 .. Len(vs) - 1
  BY <1>1, TailIs
<1>4. UpsV(vs) \in Seq(Int) /\ Len(UpsV(vs)) = Len(vs)
  BY <1>1, <1>3, FunctionIsSeq
<1>5. /\ Head(UpsV(vs)) = UpsV(vs)[1]
      /\ Tail(UpsV(vs)) \in [1 .. Len(vs) - 1 -> Int]
      /\ \A n \in 1 .. Len(vs) - 1 : Tail(UpsV(vs))[n] = UpsV(vs)[n + 1]
  <2>1. UpsV(vs) # << >>
    OBVIOUS
  <2> QED
    BY <1>4, <2>1, TailIs
<1>6. \A n \in 1 .. Len(vs) : UpsV(vs)[n] = vs[n].name.up
  BY <1>3 DEF UpsV
<1>7. Head(UpsV(vs)) = Head(vs).name.up
  BY <1>3, <1>5, <1>6
<1>8. UpsV(Tail(vs)) = [n \in 1 .. Len(vs) - 1 |-> Tail(vs)[n].name.up]
  BY <1>3 DEF UpsV
<1>9. \A n \in 1 .. Len(vs) - 1 : n + 1 \in 1 .. Len(vs)
  BY <1>3
<1>10. UpsV(Tail(vs)) = Tail(UpsV(vs))
  <2>1. ASSUME NEW n \in 1 .. Len(vs) - 1 PROVE UpsV(Tail(vs))[n] = Tail(UpsV(vs))[n]
    BY <1>3, <1>5, <1>6, <1>8, <1>9
  <2>2. DOMAIN UpsV(Tail(vs)) = 1 .. Len(vs) - 1
    BY <1>8
  <2> QED
    BY <1>5, <1>8, <2>1, <2>2
<1> QED
  BY <1>2, <1>7, <1>10

\* Subkeys and values have the names of their key; different ones have different names.
LEMMA KidNames ==
  ASSUME DiffAssumption, NEW h, IsHive(h), WellNamed(h), NEW k \in Ids
  PROVE  /\ Kids(h, k) \subseteq Ids
         /\ h.kids[k] \in Seq(Ids) /\ IsInjective(UpsK(h, h.kids[k]))
         /\ \A j \in Kids(h, k) : h.name[j].up \in KidUps(h, k)
         /\ \A u \in KidUps(h, k) : \E j \in Kids(h, k) : h.name[j].up = u
         /\ \A i, j \in Kids(h, k) : h.name[i].up = h.name[j].up => i = j
<1>k. PICK ks : ks = h.kids[k]
  OBVIOUS
<1>1. ks \in Seq(Ids) /\ IsInjective(UpsK(h, ks))
  BY <1>k DEF IsHive, WellNamed
<1>2. DOMAIN ks = 1 .. Len(ks) /\ \A n \in 1 .. Len(ks) : ks[n] \in Ids
  BY <1>1
<1>3. DOMAIN UpsK(h, ks) = 1 .. Len(ks) /\ \A n \in 1 .. Len(ks) : UpsK(h, ks)[n] = h.name[ks[n]].up
  BY <1>2 DEF UpsK
<1>4. \A m, n \in 1 .. Len(ks) : h.name[ks[m]].up = h.name[ks[n]].up => m = n
  BY <1>1, <1>3 DEF IsInjective
<1>5. Kids(h, k) = {ks[n] : n \in 1 .. Len(ks)}
  BY <1>k, <1>2 DEF Kids, Range
<1>6. KidUps(h, k) = {h.name[ks[n]].up : n \in 1 .. Len(ks)}
  BY <1>k, <1>3 DEF KidUps, Range
<1> QED
  BY <1>k, <1>1, <1>2, <1>4, <1>5, <1>6

\* The same of values.
LEMMA ValueNames ==
  ASSUME DiffAssumption, NEW h, IsHive(h), WellNamed(h), NEW k \in Ids
  PROVE  /\ Vals(h, k) \subseteq Value
         /\ h.vals[k] \in Seq(Value) /\ IsInjective(UpsV(h.vals[k]))
         /\ \A v \in Vals(h, k) : v.name.up \in ValUps(h, k)
         /\ \A u \in ValUps(h, k) : \E v \in Vals(h, k) : v.name.up = u
         /\ \A v, w \in Vals(h, k) : v.name.up = w.name.up => v = w
<1>k. PICK vs : vs = h.vals[k]
  OBVIOUS
<1>1. vs \in Seq(Value) /\ IsInjective(UpsV(vs))
  BY <1>k DEF IsHive, WellNamed
<1>2. DOMAIN vs = 1 .. Len(vs) /\ \A n \in 1 .. Len(vs) : vs[n] \in Value
  BY <1>1
<1>3. DOMAIN UpsV(vs) = 1 .. Len(vs) /\ \A n \in 1 .. Len(vs) : UpsV(vs)[n] = vs[n].name.up
  BY <1>2 DEF UpsV
<1>4. \A m, n \in 1 .. Len(vs) : vs[m].name.up = vs[n].name.up => m = n
  BY <1>1, <1>3 DEF IsInjective
<1>5. Vals(h, k) = {vs[n] : n \in 1 .. Len(vs)}
  BY <1>k, <1>2 DEF Vals, Range
<1>6. ValUps(h, k) = {vs[n].name.up : n \in 1 .. Len(vs)}
  BY <1>k, <1>3 DEF ValUps, Range
<1> QED
  BY <1>k, <1>1, <1>2, <1>4, <1>5, <1>6

-----------------------------------------------------------------------------
Pair == Ids \X Ids

\* m leads from the roots to two keys of one path.
IsMatch(l, r, m) ==
  /\ m \in Seq(Pair) /\ m # << >> /\ m[1] = <<Root, Root>>
  /\ \A n \in 1 .. Len(m) - 1 : m[n + 1] \in KidsInBoth(l, r, m[n])

\* All differences at all matches, however deep.
Due(l, r) == {d \in Seq(Pair) \X Kinds \X Ids :
                IsMatch(l, r, d[1]) /\ d \in DifferencesAt(l, r, d[1])}

\* The hives of a comparison about which DiffIsExact says something.
Comparable(l, r) == IsHive(l) /\ IsHive(r) /\ WellNamed(l) /\ WellNamed(r)

\* Where a match ends and what it goes through.
LEMMA MatchEnds ==
  ASSUME DiffAssumption, NEW l, NEW r, Comparable(l, r), NEW m, IsMatch(l, r, m)
  PROVE  /\ Len(m) \in Nat \ {0} /\ Matched(m) = m[Len(m)]
         /\ \A n \in 1 .. Len(m) : m[n] \in Pair /\ m[n][1] \in Ids /\ m[n][2] \in Ids
         /\ \A n \in 1 .. Len(m) - 1 : /\ m[n + 1][1] \in Kids(l, m[n][1])
                                       /\ m[n + 1][2] \in Kids(r, m[n][2])
                                       /\ l.name[m[n + 1][1]].up = r.name[m[n + 1][2]].up
                                       /\ m[n + 1] = <<m[n + 1][1], m[n + 1][2]>>
<1>1. m \in Seq(Pair) /\ Len(m) \in Nat \ {0}
  BY EmptySeq DEF IsMatch
<1>2. \A n \in 1 .. Len(m) : m[n] \in Pair
  BY <1>1
<1>3. \A n \in 1 .. Len(m) : m[n][1] \in Ids /\ m[n][2] \in Ids
  BY <1>2 DEF Pair
<1>4. ASSUME NEW n \in 1 .. Len(m) - 1
      PROVE  /\ m[n + 1][1] \in Kids(l, m[n][1])
             /\ m[n + 1][2] \in Kids(r, m[n][2])
             /\ l.name[m[n + 1][1]].up = r.name[m[n + 1][2]].up
             /\ m[n + 1] = <<m[n + 1][1], m[n + 1][2]>>
  <2>1. m[n + 1] \in KidsInBoth(l, r, m[n])
    BY DEF IsMatch
  <2> QED
    BY <2>1 DEF KidsInBoth
<1> QED
  BY <1>1, <1>2, <1>3, <1>4 DEF Matched

\* What is due at a match.
Differs(l, r, m, kind, k) ==
  LET p == m[Len(m)]
  IN  \/ kind = "KeyModified" /\ k = p[1] /\ ValueChanges(l, r, p) # {}
      \/ /\ kind = "KeyRemoved" /\ k \in Kids(l, p[1])
         /\ l.name[k].up \notin KidUps(r, p[2])
      \/ /\ kind = "KeyAdded" /\ k \in Kids(r, p[2])
         /\ r.name[k].up \notin KidUps(l, p[1])

\* A difference is due if it is one at a match.
LEMMA DueIs ==
  ASSUME DiffAssumption, NEW l, NEW r, Comparable(l, r), NEW m, NEW kind, NEW k
  PROVE  <<m, kind, k>> \in Due(l, r) <=> IsMatch(l, r, m) /\ Differs(l, r, m, kind, k)
<1>1. <<m, kind, k>> \in DifferencesAt(l, r, m) <=> Differs(l, r, m, kind, k)
  BY DEF DifferencesAt, Differs, Matched
<1>2. IsMatch(l, r, m) /\ Differs(l, r, m, kind, k) => m \in Seq(Pair) /\ kind \in Kinds /\ k \in Ids
  <2> SUFFICES ASSUME IsMatch(l, r, m), Differs(l, r, m, kind, k)
               PROVE  m \in Seq(Pair) /\ kind \in Kinds /\ k \in Ids
    OBVIOUS
  <2>1. m[Len(m)][1] \in Ids /\ m[Len(m)][2] \in Ids
    BY MatchEnds
  <2>2. Kids(l, m[Len(m)][1]) \subseteq Ids /\ Kids(r, m[Len(m)][2]) \subseteq Ids
    BY <2>1, KidNames DEF Comparable
  <2> QED
    BY <2>1, <2>2 DEF IsMatch, Differs, Kinds
<1> QED
  BY <1>1, <1>2 DEF Due

\* A difference that is due has the three parts of one.
LEMMA DueParts ==
  ASSUME DiffAssumption, NEW l, NEW r, Comparable(l, r), NEW d \in Due(l, r)
  PROVE  /\ d = <<d[1], d[2], d[3]>>
         /\ IsMatch(l, r, d[1]) /\ Differs(l, r, d[1], d[2], d[3])
<1>1. d = <<d[1], d[2], d[3]>>
  BY DEF Due
<1> QED
  BY <1>1, DueIs

-----------------------------------------------------------------------------
\* The names on the way to the n-th pair of c.
NamesTo(l, c, n) == [j \in 1 .. n - 1 |-> l.name[c[j + 1][1]]]

\* The merge join f is that of the subkeys of the n-th pair of c and has passed
\* the key that c goes on with.
FrameAt(l, r, c, n, f) ==
  /\ f \in Frame /\ f.path = NamesTo(l, c, n)
  /\ Range(f.ls) \subseteq Kids(l, c[n][1]) /\ Range(f.rs) \subseteq Kids(r, c[n][2])
  /\ Joined(UpsK(l, f.ls), UpsK(r, f.rs), KidUps(l, c[n][1]), KidUps(r, c[n][2]))
  /\ Len(c) > n => l.name[c[n + 1][1]].up \notin Range(UpsK(l, f.ls))

\* The match c leads to where the recursion is, stk being the joins under way.
On(l, r, c, stk) ==
  /\ IsMatch(l, r, c) /\ stk \in Seq(Frame) /\ Len(stk) <= Len(c)
  /\ \A n \in 1 .. Len(stk) : FrameAt(l, r, c, n, stk[n])

\* m goes the first n steps with c.
Along(m, c, n) == Len(m) >= n /\ \A j \in 1 .. n : m[j] = c[j]

\* What is ahead of the join f at the n-th pair of c: the differences below and
\* at the subkeys that it has not come to.
AheadAt(l, r, c, n, f, d) ==
  /\ Along(d[1], c, n)
  /\ \/ Len(d[1]) > n /\ l.name[d[1][n + 1][1]].up \in Range(UpsK(l, f.ls))
     \/ /\ Len(d[1]) = n /\ d[2] = "KeyRemoved"
        /\ l.name[d[3]].up \in Range(UpsK(l, f.ls))
     \/ /\ Len(d[1]) = n /\ d[2] = "KeyAdded"
        /\ r.name[d[3]].up \in Range(UpsK(r, f.rs))

AheadUpTo(l, r, c, n, stk, d) == \E i \in 1 .. n : AheadAt(l, r, c, i, stk[i], d)

\* What the rest of the comparison has to find: all that is at and below the
\* pair that is being entered, and what is ahead of the joins under way.
Ahead(l, r, c, stk, d) ==
  \/ Len(c) > Len(stk) /\ Along(d[1], c, Len(c))
  \/ AheadUpTo(l, r, c, Len(stk), stk, d)

\* Only the way up to a join matters to it.
LEMMA SameWay ==
  ASSUME NEW l, NEW r, NEW c, NEW e, NEW n \in Nat \ {0},
         Len(c) \in Nat, Len(e) \in Nat, Len(c) >= n, Len(e) >= n,
         \A j \in 1 .. n : e[j] = c[j],
         Len(e) > n => Len(c) > n /\ e[n + 1] = c[n + 1]
  PROVE  /\ \A f : FrameAt(l, r, c, n, f) => FrameAt(l, r, e, n, f)
         /\ \A f, d : AheadAt(l, r, e, n, f, d) <=> AheadAt(l, r, c, n, f, d)
<1>1. NamesTo(l, e, n) = NamesTo(l, c, n)
  <2>1. \A j \in 1 .. n - 1 : j + 1 \in 1 .. n
    OBVIOUS
  <2> QED
    BY <2>1 DEF NamesTo
<1>2. e[n] = c[n]
  OBVIOUS
<1>3. \A m : Along(m, e, n) <=> Along(m, c, n)
  BY DEF Along
<1>4. \A f : FrameAt(l, r, c, n, f) => FrameAt(l, r, e, n, f)
  BY <1>1, <1>2 DEF FrameAt
<1> QED
  BY <1>3, <1>4 DEF AheadAt

\* Nothing at the pair where the recursion is, is ahead of the joins above.
LEMMA PassedAbove ==
  ASSUME NEW l, NEW r, NEW c, NEW stk, On(l, r, c, stk), NEW n \in Nat, n <= Len(stk), n < Len(c),
         NEW kind, NEW k
  PROVE  ~ AheadUpTo(l, r, c, n, stk, <<c, kind, k>>)
<1>1. Len(stk) \in Nat /\ Len(c) \in Nat
  BY DEF On, IsMatch
<1>2. ASSUME NEW i \in 1 .. n PROVE ~ AheadAt(l, r, c, i, stk[i], <<c, kind, k>>)
  <2>1. i \in 1 .. Len(stk) /\ Len(c) > i
    BY <1>1
  <2>2. l.name[c[i + 1][1]].up \notin Range(UpsK(l, stk[i].ls))
    BY <2>1 DEF On, FrameAt
  <2> QED
    BY <1>1, <2>1, <2>2 DEF AheadAt
<1> QED
  BY <1>2 DEF AheadUpTo

\* A join at work: what is ahead of the joins above it stays ahead.
LEMMA JoinGoesOn ==
  ASSUME NEW l, NEW r, NEW c, NEW stk, On(l, r, c, stk), NEW n \in Nat \ {0},
         Len(stk) = n, Len(c) = n,
         NEW t \in Seq(Frame), Len(t) = n, \A i \in 1 .. n - 1 : t[i] = stk[i],
         FrameAt(l, r, c, n, t[n])
  PROVE  /\ On(l, r, c, t)
         /\ \A d : Ahead(l, r, c, stk, d) <=>
                     \/ AheadUpTo(l, r, c, n - 1, stk, d)
                     \/ AheadAt(l, r, c, n, stk[n], d)
         /\ \A d : Ahead(l, r, c, t, d) <=>
                     \/ AheadUpTo(l, r, c, n - 1, stk, d)
                     \/ AheadAt(l, r, c, n, t[n], d)
<1>1. \A i \in 1 .. n : i \in 1 .. n - 1 \/ i = n
  OBVIOUS
<1>2. On(l, r, c, t)
  BY <1>1 DEF On
<1>3. \A i \in 1 .. n - 1 : i \in 1 .. n
  OBVIOUS
<1>4. n \in 1 .. n
  OBVIOUS
<1> QED
  BY <1>1, <1>2, <1>3, <1>4 DEF Ahead, AheadUpTo

-----------------------------------------------------------------------------
\* What d says of a match that goes beyond or ends at the n-th pair of c.
DueSays(l, r, c, n, d) ==
  /\ Len(d[1]) > n =>
       /\ d[1][n + 1][1] \in Kids(l, c[n][1]) /\ d[1][n + 1][2] \in Kids(r, c[n][2])
       /\ l.name[d[1][n + 1][1]].up = r.name[d[1][n + 1][2]].up
       /\ l.name[d[1][n + 1][1]].up \in KidUps(l, c[n][1])
       /\ l.name[d[1][n + 1][1]].up \in KidUps(r, c[n][2])
       /\ d[1][n + 1] = <<d[1][n + 1][1], d[1][n + 1][2]>>
  /\ Len(d[1]) = n /\ d[2] = "KeyRemoved" =>
       /\ d[3] \in Kids(l, c[n][1]) /\ l.name[d[3]].up \in KidUps(l, c[n][1])
       /\ l.name[d[3]].up \notin KidUps(r, c[n][2])
  /\ Len(d[1]) = n /\ d[2] = "KeyAdded" =>
       /\ d[3] \in Kids(r, c[n][2]) /\ r.name[d[3]].up \in KidUps(r, c[n][2])
       /\ r.name[d[3]].up \notin KidUps(l, c[n][1])
  /\ Len(d[1]) = n /\ d[2] \notin {"KeyRemoved", "KeyAdded"} =>
       /\ d[2] = "KeyModified" /\ d[3] = c[n][1] /\ ValueChanges(l, r, c[n]) # {}

\* And so does every difference that is due at or below that pair.
LEMMA DueAlong ==
  ASSUME DiffAssumption, NEW l, NEW r, Comparable(l, r), NEW d \in Due(l, r),
         NEW c, IsMatch(l, r, c), NEW n, n \in 1 .. Len(c), Along(d[1], c, n)
  PROVE  DueSays(l, r, c, n, d)
<1>m. PICK m : m = d[1]
  OBVIOUS
<1>1. IsMatch(l, r, m) /\ Differs(l, r, m, d[2], d[3])
  BY <1>m, DueParts
<1>2. Len(m) >= n /\ m[n] = c[n] /\ n \in Nat \ {0} /\ Len(m) \in Nat
  BY <1>m, <1>1, MatchEnds DEF Along
<1>3. c[n][1] \in Ids /\ c[n][2] \in Ids
  BY MatchEnds
<1>4. /\ \A j \in Kids(l, c[n][1]) : l.name[j].up \in KidUps(l, c[n][1])
      /\ \A j \in Kids(r, c[n][2]) : r.name[j].up \in KidUps(r, c[n][2])
  BY <1>3, KidNames DEF Comparable
<1>5. ASSUME Len(m) > n
      PROVE  /\ m[n + 1][1] \in Kids(l, c[n][1]) /\ m[n + 1][2] \in Kids(r, c[n][2])
             /\ l.name[m[n + 1][1]].up = r.name[m[n + 1][2]].up
             /\ m[n + 1] = <<m[n + 1][1], m[n + 1][2]>>
  <2>1. n \in 1 .. Len(m) - 1
    BY <1>2, <1>5
  <2> QED
    BY <1>1, <1>2, <2>1, MatchEnds
<1>6. Len(m) = n => Differs(l, r, m, d[2], d[3]) /\ m[Len(m)] = c[n]
  BY <1>1, <1>2
<1> QED
  BY <1>m, <1>4, <1>5, <1>6 DEF Differs, DueSays

\* The parts of a frame of which only the lists have changed.
LEMMA FrameChanged ==
  ASSUME NEW l, NEW r, NEW c, NEW n, NEW f, FrameAt(l, r, c, n, f), NEW g, g \in Frame,
         g.path = f.path, Range(g.ls) \subseteq Range(f.ls), Range(g.rs) \subseteq Range(f.rs),
         Joined(UpsK(l, g.ls), UpsK(r, g.rs), KidUps(l, c[n][1]), KidUps(r, c[n][2])),
         ~ (Len(c) > n)
  PROVE  FrameAt(l, r, c, n, g)
BY DEF FrameAt

\* The lists of a join and their fronts.
LEMMA ListsOfFrame ==
  ASSUME NEW l, NEW r, NEW c, NEW n, NEW f, FrameAt(l, r, c, n, f)
  PROVE  /\ f \in Frame /\ f.ls \in Seq(Ids) /\ f.rs \in Seq(Ids) /\ f.path = NamesTo(l, c, n)
         /\ Range(f.ls) \subseteq Kids(l, c[n][1]) /\ Range(f.rs) \subseteq Kids(r, c[n][2])
         /\ Joined(UpsK(l, f.ls), UpsK(r, f.rs), KidUps(l, c[n][1]), KidUps(r, c[n][2]))
BY DEF FrameAt, Frame

\* The first of the subkeys ks of k is one, and goes by its name.
FrontOf(h, k, ks) ==
  /\ Head(ks) \in Kids(h, k) /\ Tail(ks) \in Seq(Ids)
  /\ Range(Tail(ks)) \subseteq Range(ks)
  /\ Head(UpsK(h, ks)) = h.name[Head(ks)].up
  /\ UpsK(h, Tail(ks)) = Tail(UpsK(h, ks))

LEMMA LeftFront ==
  ASSUME DiffAssumption, NEW l, IsHive(l), NEW r, NEW c, NEW n, NEW f, FrameAt(l, r, c, n, f),
         UpsK(l, f.ls) # << >>
  PROVE  FrontOf(l, c[n][1], f.ls)
<1>1. f.ls \in Seq(Ids) /\ Range(f.ls) \subseteq Kids(l, c[n][1])
  BY ListsOfFrame
<1> QED
  BY <1>1, NamesOfTail DEF FrontOf

\* The same of the right list.
LEMMA RightFront ==
  ASSUME DiffAssumption, NEW l, NEW r, IsHive(r), NEW c, NEW n, NEW f, FrameAt(l, r, c, n, f),
         UpsK(r, f.rs) # << >>
  PROVE  FrontOf(r, c[n][2], f.rs)
<1>1. f.rs \in Seq(Ids) /\ Range(f.rs) \subseteq Kids(r, c[n][2])
  BY ListsOfFrame
<1> QED
  BY <1>1, NamesOfTail DEF FrontOf

\* A key of the left hive alone: it is due, and passing it leaves the rest due.
LEMMA RemovedStep ==
  ASSUME DiffAssumption, NEW l, NEW r, Comparable(l, r), NEW c, IsMatch(l, r, c),
         NEW n \in Nat, Len(c) = n, NEW f, FrameAt(l, r, c, n, f),
         OnlyLeft(UpsK(l, f.ls), UpsK(r, f.rs)),
         NEW g \in Frame, g.path = f.path, g.ls = Tail(f.ls), g.rs = f.rs
  PROVE  /\ FrameAt(l, r, c, n, g)
         /\ <<c, "KeyRemoved", Head(f.ls)>> \in Due(l, r)
         /\ AheadAt(l, r, c, n, f, <<c, "KeyRemoved", Head(f.ls)>>)
         /\ \A d \in Due(l, r) : AheadAt(l, r, c, n, g, d) <=>
              AheadAt(l, r, c, n, f, d) /\ d # <<c, "KeyRemoved", Head(f.ls)>>
<1>h. PICK h : h = Head(f.ls)
  OBVIOUS
<1>us. PICK us : us = UpsK(l, f.ls)
  OBVIOUS
<1>vs. PICK vs : vs = UpsK(r, f.rs)
  OBVIOUS
<1>1. n \in Nat \ {0} /\ n \in 1 .. Len(c) /\ n = Len(c) /\ c[n][1] \in Ids /\ c[n][2] \in Ids
  BY MatchEnds
<1>2. us # << >> /\ OnlyLeft(us, vs) /\ Joined(us, vs, KidUps(l, c[n][1]), KidUps(r, c[n][2]))
  BY <1>us, <1>vs, ListsOfFrame DEF OnlyLeft
<1>3. /\ f \in Frame /\ h \in Kids(l, c[n][1]) /\ Tail(f.ls) \in Seq(Ids)
      /\ Range(Tail(f.ls)) \subseteq Range(f.ls)
      /\ Head(us) = l.name[h].up /\ UpsK(l, Tail(f.ls)) = Tail(us)
  <2>1. UpsK(l, f.ls) # << >> /\ IsHive(l)
    BY <1>2, <1>us DEF Comparable
  <2>2. f \in Frame
    BY ListsOfFrame
  <2>3. FrontOf(l, c[n][1], f.ls)
    BY <2>1, LeftFront
  <2> QED
    BY <2>2, <2>3, <1>us, <1>h DEF FrontOf
<1>4. /\ Joined(Tail(us), vs, KidUps(l, c[n][1]), KidUps(r, c[n][2]))
      /\ l.name[h].up \notin KidUps(r, c[n][2]) /\ l.name[h].up \in Range(us)
      /\ Range(Tail(us)) = Range(us) \ {l.name[h].up}
  <2>1. /\ Joined(Tail(us), vs, KidUps(l, c[n][1]), KidUps(r, c[n][2]))
        /\ Head(us) \notin KidUps(r, c[n][2]) /\ Head(us) \in Range(us)
        /\ Range(Tail(us)) = Range(us) \ {Head(us)}
    <3>U. PICK U : U = KidUps(l, c[n][1])
      OBVIOUS
    <3>V. PICK V : V = KidUps(r, c[n][2])
      OBVIOUS
    <3>1. Joined(us, vs, U, V) /\ OnlyLeft(us, vs)
      BY <1>2, <3>U, <3>V
    <3>2. Joined(Tail(us), vs, U, V) /\ Head(us) \notin V /\ Head(us) \in Range(us)
        /\ Range(Tail(us)) = Range(us) \ {Head(us)}
      BY <3>1, JoinLeft
    <3> QED
      BY <3>2, <3>U, <3>V
  <2>2. Head(us) = l.name[h].up
    BY <1>3
  <2> QED
    BY <2>1, <2>2
<1>5. /\ g \in Frame /\ g.path = f.path /\ g.ls = Tail(f.ls) /\ g.rs = f.rs
      /\ UpsK(l, g.ls) = Tail(us) /\ UpsK(r, g.rs) = vs
  BY <1>3, <1>vs
<1>6. FrameAt(l, r, c, n, g)
  <2>1. Joined(UpsK(l, g.ls), UpsK(r, g.rs), KidUps(l, c[n][1]), KidUps(r, c[n][2]))
    BY <1>4, <1>5
  <2>2. /\ Range(g.ls) \subseteq Range(f.ls) /\ Range(g.rs) \subseteq Range(f.rs)
        /\ g \in Frame /\ g.path = f.path
    BY <1>3, <1>5
  <2>3. ~ (Len(c) > n)
    BY <1>1
  <2> QED
    BY <2>1, <2>2, <2>3, FrameChanged
<1>7. <<c, "KeyRemoved", h>> \in Due(l, r)
  <2>1. Differs(l, r, c, "KeyRemoved", h)
    BY <1>1, <1>3, <1>4 DEF Differs
  <2> QED
    BY <2>1, DueIs
<1>8. AheadAt(l, r, c, n, f, <<c, "KeyRemoved", h>>)
  BY <1>1, <1>4, <1>us DEF AheadAt, Along
<1>9. ASSUME NEW d \in Due(l, r), Along(d[1], c, n)
      PROVE  AheadAt(l, r, c, n, g, d) <=>
               AheadAt(l, r, c, n, f, d) /\ d # <<c, "KeyRemoved", h>>
  <2>d. DueSays(l, r, c, n, d)
    BY <1>1, <1>9, DueAlong
  <2>1. Len(d[1]) > n => l.name[d[1][n + 1][1]].up # l.name[h].up
    BY <1>4, <2>d DEF DueSays
  <2>2. d = <<c, "KeyRemoved", h>> => Len(d[1]) = n /\ d[2] = "KeyRemoved" /\ d[3] = h
    BY <1>1
  <2>3. ASSUME Len(d[1]) = n, d[2] = "KeyRemoved", l.name[d[3]].up = l.name[h].up
        PROVE  d = <<c, "KeyRemoved", h>>
    <3>1. d[3] \in Kids(l, c[n][1])
      BY <2>3, <2>d DEF DueSays
    <3>2. d[3] = h
      BY <1>1, <1>3, <2>3, <3>1, KidNames DEF Comparable
    <3>3. IsMatch(l, r, d[1]) /\ d = <<d[1], d[2], d[3]>>
      BY DueParts
    <3>4. d[1] \in Seq(Pair) /\ c \in Seq(Pair)
      BY <3>3 DEF IsMatch
    <3>5. d[1] = c
      BY <1>1, <1>9, <2>3, <3>4, SeqEqual DEF Along
    <3> QED
      BY <2>3, <3>2, <3>3, <3>5
  <2>4. \A u : u \in Range(UpsK(l, g.ls)) <=> u \in Range(UpsK(l, f.ls)) /\ u # l.name[h].up
    BY <1>4, <1>5, <1>us
  <2>5. UpsK(r, g.rs) = UpsK(r, f.rs)
    BY <1>5
  <2> QED
    BY <2>1, <2>2, <2>3, <2>4, <2>5 DEF AheadAt
<1>10. \A d : AheadAt(l, r, c, n, g, d) \/ AheadAt(l, r, c, n, f, d) => Along(d[1], c, n)
  BY DEF AheadAt
<1> QED
  BY <1>h, <1>6, <1>7, <1>8, <1>9, <1>10

\* A key of the right hive alone.
LEMMA AddedStep ==
  ASSUME DiffAssumption, NEW l, NEW r, Comparable(l, r), NEW c, IsMatch(l, r, c),
         NEW n \in Nat, Len(c) = n, NEW f, FrameAt(l, r, c, n, f),
         OnlyRight(UpsK(l, f.ls), UpsK(r, f.rs)),
         NEW g \in Frame, g.path = f.path, g.ls = f.ls, g.rs = Tail(f.rs)
  PROVE  /\ FrameAt(l, r, c, n, g)
         /\ <<c, "KeyAdded", Head(f.rs)>> \in Due(l, r)
         /\ AheadAt(l, r, c, n, f, <<c, "KeyAdded", Head(f.rs)>>)
         /\ \A d \in Due(l, r) : AheadAt(l, r, c, n, g, d) <=>
              AheadAt(l, r, c, n, f, d) /\ d # <<c, "KeyAdded", Head(f.rs)>>
<1>h. PICK h : h = Head(f.rs)
  OBVIOUS
<1>us. PICK us : us = UpsK(l, f.ls)
  OBVIOUS
<1>vs. PICK vs : vs = UpsK(r, f.rs)
  OBVIOUS
<1>1. n \in Nat \ {0} /\ n \in 1 .. Len(c) /\ n = Len(c) /\ c[n][1] \in Ids /\ c[n][2] \in Ids
  BY MatchEnds
<1>2. vs # << >> /\ OnlyRight(us, vs) /\ Joined(us, vs, KidUps(l, c[n][1]), KidUps(r, c[n][2]))
  BY <1>us, <1>vs, ListsOfFrame DEF OnlyRight
<1>3. /\ f \in Frame /\ h \in Kids(r, c[n][2]) /\ Tail(f.rs) \in Seq(Ids)
      /\ Range(Tail(f.rs)) \subseteq Range(f.rs)
      /\ Head(vs) = r.name[h].up /\ UpsK(r, Tail(f.rs)) = Tail(vs)
  <2>1. UpsK(r, f.rs) # << >> /\ IsHive(r)
    BY <1>2, <1>vs DEF Comparable
  <2>2. f \in Frame
    BY ListsOfFrame
  <2>3. FrontOf(r, c[n][2], f.rs)
    BY <2>1, RightFront
  <2> QED
    BY <2>2, <2>3, <1>vs, <1>h DEF FrontOf
<1>4. /\ Joined(us, Tail(vs), KidUps(l, c[n][1]), KidUps(r, c[n][2]))
      /\ r.name[h].up \notin KidUps(l, c[n][1]) /\ r.name[h].up \in Range(vs)
      /\ Range(Tail(vs)) = Range(vs) \ {r.name[h].up}
  <2>1. /\ Joined(us, Tail(vs), KidUps(l, c[n][1]), KidUps(r, c[n][2]))
        /\ Head(vs) \notin KidUps(l, c[n][1]) /\ Head(vs) \in Range(vs)
        /\ Range(Tail(vs)) = Range(vs) \ {Head(vs)}
    <3>U. PICK U : U = KidUps(l, c[n][1])
      OBVIOUS
    <3>V. PICK V : V = KidUps(r, c[n][2])
      OBVIOUS
    <3>1. Joined(us, vs, U, V) /\ OnlyRight(us, vs)
      BY <1>2, <3>U, <3>V
    <3>2. Joined(us, Tail(vs), U, V) /\ Head(vs) \notin U /\ Head(vs) \in Range(vs)
        /\ Range(Tail(vs)) = Range(vs) \ {Head(vs)}
      BY <3>1, JoinRight
    <3> QED
      BY <3>2, <3>U, <3>V
  <2>2. Head(vs) = r.name[h].up
    BY <1>3
  <2> QED
    BY <2>1, <2>2
<1>5. /\ g \in Frame /\ g.path = f.path /\ g.rs = Tail(f.rs) /\ g.ls = f.ls
      /\ UpsK(r, g.rs) = Tail(vs) /\ UpsK(l, g.ls) = us
  BY <1>3, <1>us
<1>6. FrameAt(l, r, c, n, g)
  <2>1. Joined(UpsK(l, g.ls), UpsK(r, g.rs), KidUps(l, c[n][1]), KidUps(r, c[n][2]))
    BY <1>4, <1>5
  <2>2. /\ Range(g.ls) \subseteq Range(f.ls) /\ Range(g.rs) \subseteq Range(f.rs)
        /\ g \in Frame /\ g.path = f.path
    BY <1>3, <1>5
  <2>3. ~ (Len(c) > n)
    BY <1>1
  <2> QED
    BY <2>1, <2>2, <2>3, FrameChanged
<1>7. <<c, "KeyAdded", h>> \in Due(l, r)
  <2>1. Differs(l, r, c, "KeyAdded", h)
    BY <1>1, <1>3, <1>4 DEF Differs
  <2> QED
    BY <2>1, DueIs
<1>8. AheadAt(l, r, c, n, f, <<c, "KeyAdded", h>>)
  BY <1>1, <1>4, <1>vs DEF AheadAt, Along
<1>9. ASSUME NEW d \in Due(l, r), Along(d[1], c, n)
      PROVE  AheadAt(l, r, c, n, g, d) <=>
               AheadAt(l, r, c, n, f, d) /\ d # <<c, "KeyAdded", h>>
  <2>d. DueSays(l, r, c, n, d)
    BY <1>1, <1>9, DueAlong
  <2>2. d = <<c, "KeyAdded", h>> => Len(d[1]) = n /\ d[2] = "KeyAdded" /\ d[3] = h
    BY <1>1
  <2>3. ASSUME Len(d[1]) = n, d[2] = "KeyAdded", r.name[d[3]].up = r.name[h].up
        PROVE  d = <<c, "KeyAdded", h>>
    <3>1. d[3] \in Kids(r, c[n][2])
      BY <2>3, <2>d DEF DueSays
    <3>2. d[3] = h
      BY <1>1, <1>3, <2>3, <3>1, KidNames DEF Comparable
    <3>3. IsMatch(l, r, d[1]) /\ d = <<d[1], d[2], d[3]>>
      BY DueParts
    <3>4. d[1] \in Seq(Pair) /\ c \in Seq(Pair)
      BY <3>3 DEF IsMatch
    <3>5. d[1] = c
      BY <1>1, <1>9, <2>3, <3>4, SeqEqual DEF Along
    <3> QED
      BY <2>3, <3>2, <3>3, <3>5
  <2>4. \A u : u \in Range(UpsK(r, g.rs)) <=> u \in Range(UpsK(r, f.rs)) /\ u # r.name[h].up
    BY <1>4, <1>5, <1>vs
  <2>5. UpsK(l, g.ls) = UpsK(l, f.ls)
    BY <1>5
  <2>6. "KeyAdded" # "KeyRemoved"
    OBVIOUS
  <2> QED
    BY <2>2, <2>3, <2>4, <2>5, <2>6 DEF AheadAt
<1>10. \A d : AheadAt(l, r, c, n, g, d) \/ AheadAt(l, r, c, n, f, d) => Along(d[1], c, n)
  BY DEF AheadAt
<1> QED
  BY <1>h, <1>6, <1>7, <1>8, <1>9, <1>10

-----------------------------------------------------------------------------
\* The first comparison: all differences are ahead.
LEMMA StartStep ==
  ASSUME DiffAssumption, NEW l, NEW r, Comparable(l, r)
  PROVE  /\ On(l, r, << <<Root, Root>> >>, << >>)
         /\ \A d \in Due(l, r) : Ahead(l, r, << <<Root, Root>> >>, << >>, d)
<1>c. PICK c : c = << <<Root, Root>> >>
  OBVIOUS
<1>1. c \in Seq(Pair) /\ Len(c) = 1 /\ c[1] = <<Root, Root>> /\ c # << >>
  BY <1>c DEF Pair, DiffAssumption
<1>2. IsMatch(l, r, c)
  BY <1>1 DEF IsMatch
<1>3. On(l, r, c, << >>)
  BY <1>1, <1>2 DEF On
<1>4. ASSUME NEW d \in Due(l, r) PROVE Along(d[1], c, Len(c))
  <2>1. IsMatch(l, r, d[1])
    BY DueParts
  <2>2. Len(d[1]) \in Nat \ {0} /\ d[1][1] = <<Root, Root>>
    BY <2>1, MatchEnds DEF IsMatch
  <2> QED
    BY <1>1, <2>2 DEF Along
<1> QED
  BY <1>c, <1>3, <1>4 DEF Ahead

\* The keys of both hives that a join takes next.
LEMMA BothFronts ==
  ASSUME DiffAssumption, NEW l, NEW r, Comparable(l, r), NEW c, NEW n, NEW f,
         FrameAt(l, r, c, n, f), Both(UpsK(l, f.ls), UpsK(r, f.rs))
  PROVE  FrontOf(l, c[n][1], f.ls) /\ FrontOf(r, c[n][2], f.rs)
<1>1. UpsK(l, f.ls) # << >> /\ UpsK(r, f.rs) # << >>
  BY DEF Both
<1>2. IsHive(l) /\ IsHive(r)
  BY DEF Comparable
<1>3. FrontOf(l, c[n][1], f.ls)
  BY <1>1, <1>2, LeftFront
<1>4. FrontOf(r, c[n][2], f.rs)
  BY <1>1, <1>2, RightFront
<1> QED
  BY <1>3, <1>4

\* The join goes on behind two keys of one name.
LEMMA BothPassed ==
  ASSUME DiffAssumption, NEW l, NEW r, Comparable(l, r), NEW c, NEW n, NEW f,
         FrameAt(l, r, c, n, f), Both(UpsK(l, f.ls), UpsK(r, f.rs))
  PROVE  \E u : /\ l.name[Head(f.ls)].up = u /\ r.name[Head(f.rs)].up = u
                /\ u \in KidUps(l, c[n][1]) /\ u \in KidUps(r, c[n][2])
                /\ u \in Range(UpsK(l, f.ls)) /\ u \in Range(UpsK(r, f.rs))
                /\ Range(UpsK(l, Tail(f.ls))) = Range(UpsK(l, f.ls)) \ {u}
                /\ Range(UpsK(r, Tail(f.rs))) = Range(UpsK(r, f.rs)) \ {u}
                /\ Joined(UpsK(l, Tail(f.ls)), UpsK(r, Tail(f.rs)),
                          KidUps(l, c[n][1]), KidUps(r, c[n][2]))
<1>us. PICK us : us = UpsK(l, f.ls)
  OBVIOUS
<1>vs. PICK vs : vs = UpsK(r, f.rs)
  OBVIOUS
<1>U. PICK U : U = KidUps(l, c[n][1])
  OBVIOUS
<1>V. PICK V : V = KidUps(r, c[n][2])
  OBVIOUS
<1>1. Joined(us, vs, U, V) /\ Both(us, vs)
  BY <1>us, <1>vs, <1>U, <1>V, ListsOfFrame
<1>2. /\ Joined(Tail(us), Tail(vs), U, V)
      /\ Head(us) \in Range(us) /\ Head(vs) \in Range(vs)
      /\ Head(us) \in U /\ Head(us) \in V /\ Head(us) = Head(vs)
      /\ Range(Tail(us)) = Range(us) \ {Head(us)}
      /\ Range(Tail(vs)) = Range(vs) \ {Head(us)}
  BY <1>1, JoinBoth
<1>u. PICK u : u = Head(us)
  OBVIOUS
<1>3. /\ Head(us) = l.name[Head(f.ls)].up /\ UpsK(l, Tail(f.ls)) = Tail(us)
      /\ Head(vs) = r.name[Head(f.rs)].up /\ UpsK(r, Tail(f.rs)) = Tail(vs)
  <2>1. FrontOf(l, c[n][1], f.ls) /\ FrontOf(r, c[n][2], f.rs)
    BY BothFronts
  <2> QED
    BY <1>us, <1>vs, <2>1 DEF FrontOf
<1> QED
  BY <1>us, <1>vs, <1>U, <1>V, <1>u, <1>2, <1>3

\* A key of both hives: what is ahead is at and below the two keys, or still ahead.
LEMMA DescentStep ==
  ASSUME DiffAssumption, NEW l, NEW r, Comparable(l, r), NEW c, IsMatch(l, r, c),
         NEW n \in Nat, Len(c) = n, NEW f, FrameAt(l, r, c, n, f),
         Both(UpsK(l, f.ls), UpsK(r, f.rs)),
         NEW g \in Frame, g.path = f.path, g.ls = Tail(f.ls), g.rs = Tail(f.rs),
         NEW e \in Seq(Pair), Len(e) = n + 1, e[n + 1] = <<Head(f.ls), Head(f.rs)>>,
         \A j \in 1 .. n : e[j] = c[j]
  PROVE  /\ IsMatch(l, r, e)
         /\ FrameAt(l, r, e, n, g)
         /\ \A d \in Due(l, r) : AheadAt(l, r, c, n, f, d) <=>
              Along(d[1], e, Len(e)) \/ AheadAt(l, r, e, n, g, d)
<1>h. PICK h : h = Head(f.ls)
  OBVIOUS
<1>k. PICK k : k = Head(f.rs)
  OBVIOUS
<1>1. /\ n \in Nat \ {0} /\ n \in 1 .. Len(c) /\ n = Len(c) /\ c[n][1] \in Ids /\ c[n][2] \in Ids
      /\ c \in Seq(Pair)
  <2>1. c \in Seq(Pair)
    BY DEF IsMatch
  <2>2. Len(c) \in Nat \ {0} /\ \A j \in 1 .. Len(c) : c[j][1] \in Ids /\ c[j][2] \in Ids
    BY MatchEnds
  <2> QED
    BY <2>1, <2>2
<1>2. FrameAt(l, r, c, n, f) /\ Both(UpsK(l, f.ls), UpsK(r, f.rs))
  OBVIOUS
<1>3. /\ Head(f.ls) \in Kids(l, c[n][1]) /\ Range(Tail(f.ls)) \subseteq Range(f.ls)
      /\ Head(f.rs) \in Kids(r, c[n][2]) /\ Range(Tail(f.rs)) \subseteq Range(f.rs)
  <2>1. FrontOf(l, c[n][1], f.ls) /\ FrontOf(r, c[n][2], f.rs)
    BY <1>2, BothFronts
  <2> QED
    BY <2>1 DEF FrontOf
<1>4. \E u : /\ l.name[Head(f.ls)].up = u /\ r.name[Head(f.rs)].up = u
             /\ u \in KidUps(l, c[n][1]) /\ u \in KidUps(r, c[n][2])
             /\ u \in Range(UpsK(l, f.ls)) /\ u \in Range(UpsK(r, f.rs))
             /\ Range(UpsK(l, Tail(f.ls))) = Range(UpsK(l, f.ls)) \ {u}
             /\ Range(UpsK(r, Tail(f.rs))) = Range(UpsK(r, f.rs)) \ {u}
             /\ Joined(UpsK(l, Tail(f.ls)), UpsK(r, Tail(f.rs)),
                       KidUps(l, c[n][1]), KidUps(r, c[n][2]))
  BY <1>2, BothPassed
<1>6. PICK u : /\ l.name[h].up = u /\ r.name[k].up = u
               /\ u \in KidUps(l, c[n][1]) /\ u \in KidUps(r, c[n][2])
               /\ u \in Range(UpsK(l, f.ls)) /\ u \in Range(UpsK(r, f.rs))
               /\ Range(UpsK(l, g.ls)) = Range(UpsK(l, f.ls)) \ {u}
               /\ Range(UpsK(r, g.rs)) = Range(UpsK(r, f.rs)) \ {u}
               /\ Joined(UpsK(l, g.ls), UpsK(r, g.rs), KidUps(l, c[n][1]), KidUps(r, c[n][2]))
  BY <1>4, <1>h, <1>k
<1>8. FrameAt(l, r, c, n, g) /\ h \in Kids(l, c[n][1]) /\ k \in Kids(r, c[n][2])
  <2>1. /\ Range(g.ls) \subseteq Range(f.ls) /\ Range(g.rs) \subseteq Range(f.rs)
        /\ g \in Frame /\ g.path = f.path /\ ~ (Len(c) > n)
    BY <1>1, <1>3
  <2>2. FrameAt(l, r, c, n, g)
    BY <1>6, <2>1, FrameChanged
  <2> QED
    BY <1>3, <1>h, <1>k, <2>2
<1>9. <<h, k>> \in KidsInBoth(l, r, c[n]) /\ <<h, k>> \in Pair
  <2>1. Kids(l, c[n][1]) \subseteq Ids /\ Kids(r, c[n][2]) \subseteq Ids
    BY <1>1, KidNames DEF Comparable
  <2> QED
    BY <1>6, <1>8, <2>1 DEF KidsInBoth, Pair
<1>10. /\ e \in Seq(Pair) /\ Len(e) = n + 1 /\ e[n + 1] = <<h, k>>
       /\ \A j \in 1 .. n : e[j] = c[j]
  BY <1>h, <1>k
<1>11. IsMatch(l, r, e)
  <2>1. ASSUME NEW j \in 1 .. Len(e) - 1 PROVE e[j + 1] \in KidsInBoth(l, r, e[j])
    <3>1. CASE j = n
      BY <1>1, <1>9, <1>10, <3>1
    <3>2. CASE j # n
      <4>1. j \in 1 .. Len(c) - 1 /\ j \in 1 .. n /\ j + 1 \in 1 .. n
        BY <1>1, <1>10, <3>2
      <4> QED
        BY <1>10, <4>1 DEF IsMatch
    <3> QED
      BY <3>1, <3>2
  <2>2. e[1] = c[1] /\ e # << >>
    BY <1>1, <1>10
  <2> QED
    BY <1>10, <2>1, <2>2 DEF IsMatch
<1>12. FrameAt(l, r, e, n, g)
  <2>1. NamesTo(l, e, n) = NamesTo(l, c, n)
    <3>1. \A j \in 1 .. n - 1 : j + 1 \in 1 .. n
      BY <1>1
    <3> QED
      BY <1>10, <3>1 DEF NamesTo
  <2>2. e[n] = c[n] /\ l.name[e[n + 1][1]].up \notin Range(UpsK(l, g.ls))
    <3>1. n \in 1 .. n /\ e[n + 1][1] = h
      BY <1>1, <1>10
    <3>2. l.name[e[n + 1][1]].up = u /\ Range(UpsK(l, g.ls)) = Range(UpsK(l, f.ls)) \ {u}
      BY <1>6, <3>1
    <3> QED
      BY <1>10, <3>1, <3>2
  <2> QED
    BY <1>8, <2>1, <2>2 DEF FrameAt
<1>13. \A m : Along(m, e, n) <=> Along(m, c, n)
  BY <1>10 DEF Along
<1>14. ASSUME NEW d \in Due(l, r), Along(d[1], c, n)
       PROVE  AheadAt(l, r, c, n, f, d) <=> Along(d[1], e, n + 1) \/ AheadAt(l, r, e, n, g, d)
  <2>d. DueSays(l, r, c, n, d)
    BY <1>1, <1>14, DueAlong
  <2>m. PICK m : m = d[1]
    OBVIOUS
  <2>1. /\ IsMatch(l, r, m) /\ Len(m) \in Nat /\ Len(m) >= n
        /\ \A j \in 1 .. n : m[j] = c[j]
    BY <2>m, <1>14, DueParts, MatchEnds DEF Along
  <2>2. Along(m, e, n + 1) <=> Len(m) > n /\ m[n + 1] = <<h, k>>
    <3>1. \A j \in 1 .. n + 1 : j \in 1 .. n \/ j = n + 1
      BY <1>1
    <3>2. n + 1 \in 1 .. n + 1 /\ (Len(m) >= n + 1 <=> Len(m) > n)
      BY <1>1, <2>1
    <3> QED
      BY <1>10, <2>1, <3>1, <3>2 DEF Along
  <2>3. Len(m) > n => (m[n + 1] = <<h, k>> <=> l.name[m[n + 1][1]].up = u)
    <3> SUFFICES ASSUME Len(m) > n PROVE m[n + 1] = <<h, k>> <=> l.name[m[n + 1][1]].up = u
      OBVIOUS
    <3>1. /\ m[n + 1][1] \in Kids(l, c[n][1]) /\ m[n + 1][2] \in Kids(r, c[n][2])
          /\ l.name[m[n + 1][1]].up = r.name[m[n + 1][2]].up
          /\ m[n + 1] = <<m[n + 1][1], m[n + 1][2]>>
      BY <2>m, <2>d DEF DueSays
    <3>2. l.name[m[n + 1][1]].up = u => m[n + 1][1] = h
      BY <1>1, <1>6, <1>8, <3>1, KidNames DEF Comparable
    <3>3. r.name[m[n + 1][2]].up = u => m[n + 1][2] = k
      BY <1>1, <1>6, <1>8, <3>1, KidNames DEF Comparable
    <3> QED
      BY <1>6, <3>1, <3>2, <3>3
  <2>4. Len(m) = n /\ d[2] = "KeyRemoved" => l.name[d[3]].up # u
    BY <1>6, <2>m, <2>d DEF DueSays
  <2>5. Len(m) = n /\ d[2] = "KeyAdded" => r.name[d[3]].up # u
    BY <1>6, <2>m, <2>d DEF DueSays
  <2>6. \A x : x \in Range(UpsK(l, f.ls)) <=> x \in Range(UpsK(l, g.ls)) \/ x = u
    BY <1>6
  <2>7. \A x : x \in Range(UpsK(r, f.rs)) <=> x \in Range(UpsK(r, g.rs)) \/ x = u
    BY <1>6
  <2>8. Along(m, e, n) /\ Along(m, c, n)
    BY <1>13, <1>14, <2>m
  <2> QED
    BY <2>m, <2>2, <2>3, <2>4, <2>5, <2>6, <2>7, <2>8 DEF AheadAt
<1>15. \A d : AheadAt(l, r, c, n, f, d) \/ AheadAt(l, r, e, n, g, d) => Along(d[1], c, n)
  BY <1>13 DEF AheadAt
<1>16. \A d : Along(d[1], e, n + 1) => Along(d[1], c, n)
  <2>1. \A j \in 1 .. n : j \in 1 .. n + 1
    BY <1>1
  <2>2. \A d : Len(d[1]) >= n + 1 => Len(d[1]) >= n
    OBVIOUS
  <2> QED
    BY <1>10, <2>1 DEF Along
<1> QED
  BY <1>10, <1>11, <1>12, <1>14, <1>15, <1>16

-----------------------------------------------------------------------------
\* Two ways that are one up to the n-th pair, and the joins above it.
LEMMA SameAbove ==
  ASSUME NEW l, NEW r, NEW c, NEW e, NEW n \in Nat \ {0}, Len(c) \in Nat, Len(e) \in Nat,
         Len(c) >= n, Len(e) >= n, \A j \in 1 .. n : e[j] = c[j],
         NEW stk, NEW t, \A i \in 1 .. n - 1 : t[i] = stk[i]
  PROVE  /\ \A i \in 1 .. n - 1 : FrameAt(l, r, c, i, stk[i]) => FrameAt(l, r, e, i, t[i])
         /\ \A d : AheadUpTo(l, r, e, n - 1, t, d) <=> AheadUpTo(l, r, c, n - 1, stk, d)
<1>1. ASSUME NEW i \in 1 .. n - 1
      PROVE  /\ \A f : FrameAt(l, r, c, i, f) => FrameAt(l, r, e, i, f)
             /\ \A f, d : AheadAt(l, r, e, i, f, d) <=> AheadAt(l, r, c, i, f, d)
  <2>1. /\ i \in Nat \ {0} /\ Len(c) >= i /\ Len(e) >= i
        /\ Len(c) > i /\ e[i + 1] = c[i + 1]
        /\ \A j \in 1 .. i : e[j] = c[j]
    <3>1. i + 1 \in 1 .. n /\ \A j \in 1 .. i : j \in 1 .. n
      OBVIOUS
    <3> QED
      BY <3>1
  <2> QED
    BY <2>1, SameWay
<1> QED
  BY <1>1 DEF AheadUpTo

\* Going down to a key of both hives.
LEMMA DescentOn ==
  ASSUME DiffAssumption, NEW l, NEW r, Comparable(l, r), NEW c, NEW stk, On(l, r, c, stk),
         NEW n \in Nat \ {0}, Len(stk) = n, Len(c) = n,
         Both(UpsK(l, stk[n].ls), UpsK(r, stk[n].rs)),
         NEW t \in Seq(Frame), Len(t) = n, \A i \in 1 .. n - 1 : t[i] = stk[i],
         t[n].path = stk[n].path, t[n].ls = Tail(stk[n].ls), t[n].rs = Tail(stk[n].rs)
  PROVE  \E e : /\ On(l, r, e, t) /\ Len(e) = n + 1
                /\ e[n + 1] = <<Head(stk[n].ls), Head(stk[n].rs)>>
                /\ \A d \in Due(l, r) :
                     Ahead(l, r, e, t, d) <=> Ahead(l, r, c, stk, d)
<1>p. PICK f, g : f = stk[n] /\ g = t[n]
  OBVIOUS
<1>q. PICK e : e = Append(c, <<Head(f.ls), Head(f.rs)>>)
  OBVIOUS
<1>1. /\ IsMatch(l, r, c) /\ FrameAt(l, r, c, n, f) /\ Both(UpsK(l, f.ls), UpsK(r, f.rs))
      /\ g \in Frame /\ g.path = f.path /\ g.ls = Tail(f.ls) /\ g.rs = Tail(f.rs)
  BY <1>p DEF On
<1>e. /\ e \in Seq(Pair) /\ Len(e) = n + 1 /\ e[n + 1] = <<Head(f.ls), Head(f.rs)>>
      /\ \A j \in 1 .. n : e[j] = c[j]
  <2>1. c \in Seq(Pair) /\ <<Head(f.ls), Head(f.rs)>> \in Pair
    <3>1. UpsK(l, f.ls) # << >> /\ UpsK(r, f.rs) # << >> /\ IsHive(l) /\ IsHive(r)
      BY <1>1 DEF Both, Comparable
    <3>2. f.ls \in Seq(Ids) /\ f.rs \in Seq(Ids)
      BY <1>1, ListsOfFrame
    <3>3. Head(f.ls) \in Ids /\ Head(f.rs) \in Ids
      BY <3>1, <3>2, NamesOfTail
    <3> QED
      BY <1>1, <3>3 DEF IsMatch, Pair
  <2> QED
    BY <1>q, <2>1, AppendProperties
<1>2. /\ IsMatch(l, r, e) /\ FrameAt(l, r, e, n, g)
      /\ \A d \in Due(l, r) : AheadAt(l, r, c, n, f, d) <=>
              Along(d[1], e, Len(e)) \/ AheadAt(l, r, e, n, g, d)
  BY <1>1, <1>e, DescentStep
<1>3. /\ \A i \in 1 .. n - 1 : FrameAt(l, r, c, i, stk[i]) => FrameAt(l, r, e, i, t[i])
      /\ \A d : AheadUpTo(l, r, e, n - 1, t, d) <=> AheadUpTo(l, r, c, n - 1, stk, d)
  <2>1. /\ Len(c) \in Nat /\ Len(e) \in Nat /\ Len(c) >= n /\ Len(e) >= n
        /\ \A j \in 1 .. n : e[j] = c[j]
    BY <1>e
  <2> QED
    BY <2>1, SameAbove
<1>4. \A i \in 1 .. n : i \in 1 .. n - 1 \/ i = n
  OBVIOUS
<1>5. On(l, r, e, t)
  <2>1. \A i \in 1 .. n - 1 : i \in 1 .. Len(stk)
    OBVIOUS
  <2>2. \A i \in 1 .. n - 1 : FrameAt(l, r, c, i, stk[i])
    BY <2>1 DEF On
  <2> QED
    BY <1>p, <1>2, <1>e, <1>3, <1>4, <2>2 DEF On
<1>6. \A i \in 1 .. n - 1 : i \in 1 .. n
  OBVIOUS
<1>7. \A d : Ahead(l, r, c, stk, d) <=>
               AheadUpTo(l, r, c, n - 1, stk, d) \/ AheadAt(l, r, c, n, f, d)
  BY <1>p, <1>4, <1>6 DEF Ahead, AheadUpTo
<1>8. \A d : AheadUpTo(l, r, e, n, t, d) <=>
               AheadUpTo(l, r, e, n - 1, t, d) \/ AheadAt(l, r, e, n, g, d)
  BY <1>p, <1>4, <1>6 DEF AheadUpTo
<1>9. \A d : Ahead(l, r, e, t, d) <=>
               \/ Along(d[1], e, Len(e))
               \/ AheadUpTo(l, r, e, n - 1, t, d) \/ AheadAt(l, r, e, n, g, d)
  <2>1. Len(e) > Len(t) /\ Len(t) = n
    BY <1>e
  <2> QED
    BY <1>8, <2>1 DEF Ahead
<1>10. \A d \in Due(l, r) : Ahead(l, r, e, t, d) <=> Ahead(l, r, c, stk, d)
  BY <1>2, <1>3, <1>7, <1>9
<1> QED
  BY <1>p, <1>e, <1>2, <1>5, <1>10

\* Returning from a join whose lists are used up.
LEMMA ReturnOn ==
  ASSUME DiffAssumption, NEW l, NEW r, Comparable(l, r), NEW c, NEW stk, On(l, r, c, stk),
         NEW n \in Nat \ {0}, Len(stk) = n, Len(c) = n, stk[n].ls = << >>, stk[n].rs = << >>
  PROVE  /\ \A d \in Due(l, r) : ~ AheadAt(l, r, c, n, stk[n], d)
         /\ \A d \in Due(l, r) : Ahead(l, r, c, stk, d) <=> AheadUpTo(l, r, c, n - 1, stk, d)
         /\ n > 1 => \A t \in Seq(Frame) :
              Len(t) = n - 1 /\ (\A i \in 1 .. n - 1 : t[i] = stk[i]) =>
                \E e : /\ On(l, r, e, t) /\ Len(e) = n - 1
                       /\ \A d \in Due(l, r) :
                            Ahead(l, r, e, t, d) <=> Ahead(l, r, c, stk, d)
<1>1. Range(UpsK(l, stk[n].ls)) = {} /\ Range(UpsK(r, stk[n].rs)) = {}
  BY DEF UpsK, Range
<1>2. \A d \in Due(l, r) : ~ AheadAt(l, r, c, n, stk[n], d)
  BY <1>1 DEF AheadAt
<1>3. \A i \in 1 .. n : i \in 1 .. n - 1 \/ i = n
  OBVIOUS
<1>4. \A i \in 1 .. n - 1 : i \in 1 .. n
  OBVIOUS
<1>5. \A d \in Due(l, r) : Ahead(l, r, c, stk, d) <=> AheadUpTo(l, r, c, n - 1, stk, d)
  BY <1>2, <1>3, <1>4 DEF Ahead, AheadUpTo
<1>6. ASSUME n > 1, NEW t \in Seq(Frame), Len(t) = n - 1, \A i \in 1 .. n - 1 : t[i] = stk[i]
      PROVE  \E e : /\ On(l, r, e, t) /\ Len(e) = n - 1
                    /\ \A d \in Due(l, r) :
                         Ahead(l, r, e, t, d) <=> Ahead(l, r, c, stk, d)
  <2>k. PICK k : k = n - 1
    OBVIOUS
  <2>e. PICK e : e = SubSeq(c, 1, k)
    OBVIOUS
  <2>1. IsMatch(l, r, c) /\ c \in Seq(Pair) /\ k \in Nat \ {0} /\ k < n /\ n = k + 1
    BY <1>6, <2>k DEF On, IsMatch
  <2>2. e \in Seq(Pair) /\ Len(e) = k /\ \A j \in 1 .. k : e[j] = c[j]
    <3>1. \A i \in 1 .. k : c[i] \in Pair
      BY <2>1
    <3> QED
      BY <2>1, <2>e, <3>1, SubSeqProperties
  <2>3. IsMatch(l, r, e)
    <3>1. e # << >> /\ e[1] = <<Root, Root>>
      BY <2>1, <2>2 DEF IsMatch
    <3>2. ASSUME NEW j \in 1 .. Len(e) - 1 PROVE e[j + 1] \in KidsInBoth(l, r, e[j])
      <4>1. j \in 1 .. Len(c) - 1 /\ j \in 1 .. k /\ j + 1 \in 1 .. k
        BY <2>1, <2>2
      <4> QED
        BY <2>1, <2>2, <4>1 DEF IsMatch
    <3> QED
      BY <2>2, <3>1, <3>2 DEF IsMatch
  <2>4. ASSUME NEW i \in 1 .. k
        PROVE  /\ FrameAt(l, r, e, i, t[i])
               /\ \A d : AheadAt(l, r, e, i, t[i], d) <=> AheadAt(l, r, c, i, stk[i], d)
    <3>1. i \in Nat \ {0} /\ Len(c) >= i /\ Len(e) >= i /\ Len(c) \in Nat /\ Len(e) \in Nat
          /\ \A j \in 1 .. i : j \in 1 .. k
      BY <2>1, <2>2
    <3>2. Len(e) > i => Len(c) > i /\ e[i + 1] = c[i + 1]
      BY <2>1, <2>2
    <3>3. \A j \in 1 .. i : e[j] = c[j]
      BY <2>2, <3>1
    <3>4. /\ \A f : FrameAt(l, r, c, i, f) => FrameAt(l, r, e, i, f)
          /\ \A f, d : AheadAt(l, r, e, i, f, d) <=> AheadAt(l, r, c, i, f, d)
      BY <3>1, <3>2, <3>3, SameWay
    <3>5. t[i] = stk[i] /\ i \in 1 .. Len(stk)
      BY <1>6, <2>k, <2>1
    <3> QED
      BY <3>4, <3>5 DEF On
  <2>5. On(l, r, e, t)
    BY <1>6, <2>k, <2>1, <2>2, <2>3, <2>4 DEF On
  <2>6. \A d : AheadUpTo(l, r, e, k, t, d) <=> AheadUpTo(l, r, c, k, stk, d)
    BY <2>4 DEF AheadUpTo
  <2>7. \A d : Ahead(l, r, e, t, d) <=> AheadUpTo(l, r, e, k, t, d)
    <3>0. Len(t) = k
      BY <1>6, <2>k
    <3>1. ~ (Len(e) > Len(t))
      BY <2>1, <2>2, <3>0
    <3> QED
      BY <3>0, <3>1 DEF Ahead
  <2> QED
    BY <1>5, <2>k, <2>2, <2>5, <2>6, <2>7
<1> QED
  BY <1>2, <1>5, <1>6

\* Beginning with the subkeys of the two keys that were entered.
LEMMA EnterOn ==
  ASSUME DiffAssumption, NEW l, NEW r, Comparable(l, r), NEW c, NEW stk, On(l, r, c, stk),
         NEW n \in Nat \ {0}, Len(stk) = n - 1, Len(c) = n,
         NEW t \in Seq(Frame), Len(t) = n, \A i \in 1 .. n - 1 : t[i] = stk[i],
         t[n] = [path |-> NamesTo(l, c, n), ls |-> SortedKeys(l, l.kids[c[n][1]]),
                 rs |-> SortedKeys(r, r.kids[c[n][2]])]
  PROVE  /\ On(l, r, c, t)
         /\ \A d \in Due(l, r) : Ahead(l, r, c, t, d) <=>
              Ahead(l, r, c, stk, d) /\ d # <<c, "KeyModified", c[n][1]>>
         /\ Ahead(l, r, c, stk, <<c, "KeyModified", c[n][1]>>)
<1>f. PICK f : f = t[n]
  OBVIOUS
<1>1. IsMatch(l, r, c) /\ c \in Seq(Pair) /\ n \in 1 .. Len(c) /\ c[n][1] \in Ids /\ c[n][2] \in Ids
  <2>1. IsMatch(l, r, c) /\ n \in 1 .. Len(c)
    BY DEF On
  <2>2. c \in Seq(Pair)
    BY <2>1 DEF IsMatch
  <2> QED
    BY <2>1, <2>2, MatchEnds
<1>2. /\ f \in Frame /\ f.path = NamesTo(l, c, n)
      /\ f.ls = SortedKeys(l, l.kids[c[n][1]]) /\ f.rs = SortedKeys(r, r.kids[c[n][2]])
  <2>1. n \in 1 .. Len(t)
    OBVIOUS
  <2> QED
    BY <1>f, <2>1
<1>3. /\ Range(f.ls) = Kids(l, c[n][1]) /\ UpsK(l, f.ls) \in Seq(Int) /\ Ascending(UpsK(l, f.ls))
      /\ Range(UpsK(l, f.ls)) = KidUps(l, c[n][1])
  <2>1. IsHive(l) /\ l.kids[c[n][1]] \in Seq(Ids) /\ IsInjective(UpsK(l, l.kids[c[n][1]]))
    BY <1>1, KidNames DEF Comparable
  <2> QED
    BY <1>2, <2>1, KeysAscend DEF Kids, KidUps
<1>4. /\ Range(f.rs) = Kids(r, c[n][2]) /\ UpsK(r, f.rs) \in Seq(Int) /\ Ascending(UpsK(r, f.rs))
      /\ Range(UpsK(r, f.rs)) = KidUps(r, c[n][2])
  <2>1. IsHive(r) /\ r.kids[c[n][2]] \in Seq(Ids) /\ IsInjective(UpsK(r, r.kids[c[n][2]]))
    BY <1>1, KidNames DEF Comparable
  <2> QED
    BY <1>2, <2>1, KeysAscend DEF Kids, KidUps
<1>5. FrameAt(l, r, c, n, f)
  BY <1>2, <1>3, <1>4 DEF FrameAt, Joined
<1>6. \A i \in 1 .. n : i \in 1 .. n - 1 \/ i = n
  OBVIOUS
<1>7. \A i \in 1 .. n - 1 : i \in 1 .. n
  OBVIOUS
<1>8. On(l, r, c, t)
  BY <1>f, <1>5, <1>6 DEF On
<1>9. \A d : Ahead(l, r, c, t, d) <=>
               AheadUpTo(l, r, c, n - 1, stk, d) \/ AheadAt(l, r, c, n, f, d)
  <2>1. ~ (Len(c) > Len(t)) /\ Len(t) = n
    OBVIOUS
  <2> QED
    BY <1>f, <1>6, <1>7, <2>1 DEF Ahead, AheadUpTo
<1>10. \A d : Ahead(l, r, c, stk, d) <=>
                AheadUpTo(l, r, c, n - 1, stk, d) \/ Along(d[1], c, n)
  BY DEF Ahead
<1>11. ASSUME NEW d \in Due(l, r), Along(d[1], c, n)
       PROVE  AheadAt(l, r, c, n, f, d) <=> d # <<c, "KeyModified", c[n][1]>>
  <2>1. /\ Len(d[1]) > n => l.name[d[1][n + 1][1]].up \in KidUps(l, c[n][1])
        /\ Len(d[1]) = n /\ d[2] = "KeyRemoved" => l.name[d[3]].up \in KidUps(l, c[n][1])
        /\ Len(d[1]) = n /\ d[2] = "KeyAdded" => r.name[d[3]].up \in KidUps(r, c[n][2])
        /\ Len(d[1]) = n /\ d[2] \notin {"KeyRemoved", "KeyAdded"} =>
              d[2] = "KeyModified" /\ d[3] = c[n][1]
    <3>1. DueSays(l, r, c, n, d)
      BY <1>1, <1>11, DueAlong
    <3> QED
      BY <3>1 DEF DueSays
  <2>2. d = <<d[1], d[2], d[3]>> /\ d[1] \in Seq(Pair) /\ Len(d[1]) \in Nat /\ Len(d[1]) >= n
    BY <1>11, DueParts DEF IsMatch, Along
  <2>3. Len(d[1]) = n => d[1] = c
    BY <1>1, <1>11, <2>2, SeqEqual DEF Along
  <2>4. CASE Len(d[1]) > n
    <3>1. d # <<c, "KeyModified", c[n][1]>>
      BY <2>4
    <3> QED
      BY <1>3, <1>11, <2>1, <2>4, <3>1 DEF AheadAt
  <2>5. CASE Len(d[1]) = n
    BY <1>3, <1>4, <1>11, <2>1, <2>2, <2>3, <2>5 DEF AheadAt
  <2> QED
    BY <2>2, <2>4, <2>5
<1>12. \A d \in Due(l, r) : AheadAt(l, r, c, n, f, d) => Along(d[1], c, n)
  BY DEF AheadAt
<1>13. ~ AheadUpTo(l, r, c, n - 1, stk, <<c, "KeyModified", c[n][1]>>)
  <2>1. n - 1 \in Nat /\ n - 1 <= Len(stk) /\ n - 1 < Len(c)
    OBVIOUS
  <2> QED
    BY <2>1, PassedAbove
<1>14. Along(c, c, n)
  BY DEF Along
<1> QED
  BY <1>8, <1>9, <1>10, <1>11, <1>12, <1>13, <1>14

-----------------------------------------------------------------------------
\* A change is that of a value of one hive or of both.
LEMMA ChangeIs ==
  ASSUME NEW l, NEW r, NEW p, NEW ch
  PROVE  ch \in ValueChanges(l, r, p) <=>
           \/ \E v \in Vals(l, p[1]) : /\ v.name.up \notin ValUps(r, p[2])
                                       /\ ch = ValueDiff(v.name, "Removed")
           \/ \E v \in Vals(r, p[2]) : /\ v.name.up \notin ValUps(l, p[1])
                                       /\ ch = ValueDiff(v.name, "Added")
           \/ \E v \in Vals(l, p[1]) :
                /\ \E w \in Vals(r, p[2]) : /\ v.name.up = w.name.up
                                            /\ v.data # w.data \/ v.type # w.type
                /\ ch = ValueDiff(v.name, "Changed")
BY DEF ValueChanges

\* What values of one name contribute to the changes.
LEMMA ChangesOfLeft ==
  ASSUME DiffAssumption, NEW l, NEW r, Comparable(l, r), NEW p \in Pair,
         NEW v \in Vals(l, p[1]), v.name.up \notin ValUps(r, p[2])
  PROVE  /\ ValueDiff(v.name, "Removed") \in ValueChanges(l, r, p)
         /\ \A ch \in ValueChanges(l, r, p) :
              ch.kind # "Added" /\ ch.name.up = v.name.up <=> ch = ValueDiff(v.name, "Removed")
<1>1. /\ \A x, y \in Vals(l, p[1]) : x.name.up = y.name.up => x = y
      /\ \A w \in Vals(r, p[2]) : w.name.up \in ValUps(r, p[2])
  BY ValueNames DEF Comparable, Pair
<1>2. ValueDiff(v.name, "Removed") \in ValueChanges(l, r, p)
  BY ChangeIs
<1>3. \A x, kind : /\ ValueDiff(x, kind).name = x /\ ValueDiff(x, kind).kind = kind
  BY DEF ValueDiff
<1>4. ASSUME NEW ch \in ValueChanges(l, r, p), ch.kind # "Added", ch.name.up = v.name.up
      PROVE  ch = ValueDiff(v.name, "Removed")
  BY <1>1, <1>3, <1>4, ChangeIs
<1> QED
  BY <1>2, <1>3, <1>4

\* The same of a value of the right key alone.
LEMMA ChangesOfRight ==
  ASSUME DiffAssumption, NEW l, NEW r, Comparable(l, r), NEW p \in Pair,
         NEW v \in Vals(r, p[2]), v.name.up \notin ValUps(l, p[1])
  PROVE  /\ ValueDiff(v.name, "Added") \in ValueChanges(l, r, p)
         /\ \A ch \in ValueChanges(l, r, p) :
              ch.kind = "Added" /\ ch.name.up = v.name.up <=> ch = ValueDiff(v.name, "Added")
<1>1. \A x, y \in Vals(r, p[2]) : x.name.up = y.name.up => x = y
  BY ValueNames DEF Comparable, Pair
<1>2. ValueDiff(v.name, "Added") \in ValueChanges(l, r, p)
  BY ChangeIs
<1>3. \A x, kind : /\ ValueDiff(x, kind).name = x /\ ValueDiff(x, kind).kind = kind
  BY DEF ValueDiff
<1>4. ASSUME NEW ch \in ValueChanges(l, r, p), ch.kind = "Added", ch.name.up = v.name.up
      PROVE  ch = ValueDiff(v.name, "Added")
  BY <1>1, <1>3, <1>4, ChangeIs
<1> QED
  BY <1>2, <1>3, <1>4

\* What changes of a value that both keys have.
LEMMA ChangesOfBoth ==
  ASSUME DiffAssumption, NEW l, NEW r, Comparable(l, r), NEW p \in Pair,
         NEW v \in Vals(l, p[1]), NEW w \in Vals(r, p[2]), v.name.up = w.name.up
  PROVE  /\ ValueDiff(v.name, "Changed") \in ValueChanges(l, r, p) <=>
              v.data # w.data \/ v.type # w.type
         /\ \A ch \in ValueChanges(l, r, p) :
              ch.name.up = v.name.up <=> ch = ValueDiff(v.name, "Changed")
<1>1. /\ \A x, y \in Vals(l, p[1]) : x.name.up = y.name.up => x = y
      /\ \A x, y \in Vals(r, p[2]) : x.name.up = y.name.up => x = y
      /\ v.name.up \in ValUps(l, p[1]) /\ w.name.up \in ValUps(r, p[2])
  BY ValueNames DEF Comparable, Pair
<1>3. \A x, kind : /\ ValueDiff(x, kind).name = x /\ ValueDiff(x, kind).kind = kind
  BY DEF ValueDiff
<1>2. ValueDiff(v.name, "Changed") \in ValueChanges(l, r, p) <=> v.data # w.data \/ v.type # w.type
  <2>1. ASSUME v.data # w.data \/ v.type # w.type
        PROVE  ValueDiff(v.name, "Changed") \in ValueChanges(l, r, p)
    BY <2>1, ChangeIs
  <2>2. ASSUME ValueDiff(v.name, "Changed") \in ValueChanges(l, r, p)
        PROVE  v.data # w.data \/ v.type # w.type
    <3>1. PICK x \in Vals(l, p[1]) :
            /\ \E y \in Vals(r, p[2]) : /\ x.name.up = y.name.up
                                        /\ x.data # y.data \/ x.type # y.type
            /\ ValueDiff(v.name, "Changed") = ValueDiff(x.name, "Changed")
      <4>1. "Changed" # "Removed" /\ "Changed" # "Added"
        OBVIOUS
      <4> QED
        BY <1>3, <2>2, <4>1, ChangeIs
    <3>2. x = v
      BY <1>1, <1>3, <3>1
    <3> QED
      BY <1>1, <3>1, <3>2
  <2> QED
    BY <2>1, <2>2
<1>4. ASSUME NEW ch \in ValueChanges(l, r, p), ch.name.up = v.name.up
      PROVE  ch = ValueDiff(v.name, "Changed")
  BY <1>1, <1>3, <1>4, ChangeIs
<1> QED
  BY <1>2, <1>3, <1>4

-----------------------------------------------------------------------------
\* The merge of values has come to a change: no list has its name any more.
PassedIn(ch, lvs, rvs) ==
  IF ch.kind = "Added" THEN ch.name.up \notin Range(UpsV(rvs))
                       ELSE ch.name.up \notin Range(UpsV(lvs))

\* The merge of the values of the pair p at work: ds are the changes it has come to.
Merging(l, r, p, lvs, rvs, ds) ==
  /\ lvs \in Seq(Value) /\ rvs \in Seq(Value)
  /\ Range(lvs) \subseteq Vals(l, p[1]) /\ Range(rvs) \subseteq Vals(r, p[2])
  /\ Joined(UpsV(lvs), UpsV(rvs), ValUps(l, p[1]), ValUps(r, p[2]))
  /\ ds \in Seq(Detail) /\ IsInjective(ds)
  /\ Range(ds) = {ch \in ValueChanges(l, r, p) : PassedIn(ch, lvs, rvs)}

\* Appending something new to a list without repetitions.
LEMMA ListGrows ==
  ASSUME NEW S, NEW s \in Seq(S), NEW x \in S
  PROVE  /\ Append(s, x) \in Seq(S) /\ Range(Append(s, x)) = Range(s) \union {x}
         /\ IsInjective(s) /\ x \notin Range(s) => IsInjective(Append(s, x))
<1>t. PICK t : t = Append(s, x)
  OBVIOUS
<1>l. PICK len \in Nat : len = Len(s)
  OBVIOUS
<1>2. /\ t \in Seq(S) /\ DOMAIN t = 1 .. len + 1 /\ DOMAIN s = 1 .. len
      /\ t[len + 1] = x /\ \A n \in 1 .. len : t[n] = s[n]
  BY <1>t, <1>l, AppendProperties
<1>3. \A n : n \in 1 .. len + 1 <=> n \in 1 .. len \/ n = len + 1
  OBVIOUS
<1>4. Range(t) = Range(s) \union {x}
  BY <1>2, <1>3 DEF Range
<1>5. IsInjective(s) /\ x \notin Range(s) => IsInjective(t)
  BY <1>2, <1>3 DEF IsInjective, Range
<1> QED
  BY <1>t, <1>2, <1>4, <1>5

\* The merge begins with all values, and is complete with none left.
LEMMA MergeBegins ==
  ASSUME DiffAssumption, NEW l, NEW r, Comparable(l, r), NEW p \in Pair
  PROVE  Merging(l, r, p, SortedValues(l.vals[p[1]]), SortedValues(r.vals[p[2]]), << >>)
<1>l. PICK lv : lv = SortedValues(l.vals[p[1]])
  OBVIOUS
<1>r. PICK rv : rv = SortedValues(r.vals[p[2]])
  OBVIOUS
<1>1. IsHive(l) /\ IsHive(r) /\ WellNamed(l) /\ WellNamed(r) /\ p[1] \in Ids /\ p[2] \in Ids
  BY DEF Comparable, Pair
<1>2. /\ lv \in Seq(Value) /\ Range(lv) = Vals(l, p[1]) /\ UpsV(lv) \in Seq(Int)
      /\ Ascending(UpsV(lv)) /\ Range(UpsV(lv)) = ValUps(l, p[1])
  <2>1. l.vals[p[1]] \in Seq(Value) /\ IsInjective(UpsV(l.vals[p[1]]))
    BY <1>1, ValueNames
  <2> QED
    BY <1>l, <2>1, ValuesAscend DEF Vals, ValUps
<1>3. /\ rv \in Seq(Value) /\ Range(rv) = Vals(r, p[2]) /\ UpsV(rv) \in Seq(Int)
      /\ Ascending(UpsV(rv)) /\ Range(UpsV(rv)) = ValUps(r, p[2])
  <2>1. r.vals[p[2]] \in Seq(Value) /\ IsInjective(UpsV(r.vals[p[2]]))
    BY <1>1, ValueNames
  <2> QED
    BY <1>r, <2>1, ValuesAscend DEF Vals, ValUps
<1>4. Joined(UpsV(lv), UpsV(rv), ValUps(l, p[1]), ValUps(r, p[2]))
  BY <1>2, <1>3 DEF Joined
<1>5. ASSUME NEW ch \in ValueChanges(l, r, p) PROVE ~ PassedIn(ch, lv, rv)
  <2>1. /\ \A v \in Vals(l, p[1]) : v.name.up \in ValUps(l, p[1])
        /\ \A v \in Vals(r, p[2]) : v.name.up \in ValUps(r, p[2])
    BY <1>1, ValueNames
  <2>2. \A x, kind : /\ ValueDiff(x, kind).name = x /\ ValueDiff(x, kind).kind = kind
    BY DEF ValueDiff
  <2>3. \/ ch.kind # "Added" /\ ch.name.up \in ValUps(l, p[1])
        \/ ch.kind = "Added" /\ ch.name.up \in ValUps(r, p[2])
    BY <2>1, <2>2, ChangeIs
  <2> QED
    BY <1>2, <1>3, <2>3 DEF PassedIn
<1>6. << >> \in Seq(Detail) /\ IsInjective(<< >>) /\ Range(<< >>) = {}
  BY DEF IsInjective, Range
<1> QED
  BY <1>l, <1>r, <1>2, <1>3, <1>4, <1>5, <1>6 DEF Merging

\* The merge of values has ended: all changes are listed.
LEMMA MergeEnds ==
  ASSUME NEW l, NEW r, NEW p, NEW ds, Merging(l, r, p, << >>, << >>, ds)
  PROVE  ds \in Seq(Detail) /\ IsInjective(ds) /\ Range(ds) = ValueChanges(l, r, p)
<1>1. Range(UpsV(<< >>)) = {}
  BY DEF UpsV, Range
<1> QED
  BY <1>1 DEF Merging, PassedIn

\* A value of one hive alone, of both.
LEMMA MergeLeft ==
  ASSUME DiffAssumption, NEW l, NEW r, Comparable(l, r), NEW p \in Pair, NEW lv, NEW rv, NEW ds,
         Merging(l, r, p, lv, rv, ds), OnlyLeft(UpsV(lv), UpsV(rv))
  PROVE  Merging(l, r, p, Tail(lv), rv, Append(ds, ValueDiff(Head(lv).name, "Removed")))
<1>U. PICK U : U = ValUps(l, p[1])
  OBVIOUS
<1>V. PICK V : V = ValUps(r, p[2])
  OBVIOUS
<1>us. PICK us : us = UpsV(lv)
  OBVIOUS
<1>vs. PICK vs : vs = UpsV(rv)
  OBVIOUS
<1>1. lv \in Seq(Value) /\ UpsV(lv) # << >> /\ Joined(us, vs, U, V) /\ OnlyLeft(us, vs)
  BY <1>U, <1>V, <1>us, <1>vs DEF Merging, OnlyLeft
<1>2. /\ Joined(Tail(us), vs, U, V) /\ Head(us) \notin V /\ Head(us) \in Range(us)
      /\ Range(Tail(us)) = Range(us) \ {Head(us)}
  BY <1>1, JoinLeft
<1>v. PICK v : v = Head(lv)
  OBVIOUS
<1>3. /\ v \in Value /\ v \in Range(lv) /\ Tail(lv) \in Seq(Value)
      /\ Range(Tail(lv)) \subseteq Range(lv) /\ Head(us) = v.name.up /\ UpsV(Tail(lv)) = Tail(us)
  BY <1>1, <1>v, <1>us, NamesOfTailValues
<1>4. v \in Vals(l, p[1]) /\ v.name.up \notin ValUps(r, p[2])
  BY <1>2, <1>3, <1>V DEF Merging
<1>d. PICK new : new = ValueDiff(v.name, "Removed")
  OBVIOUS
<1>5. /\ new \in ValueChanges(l, r, p)
      /\ \A ch \in ValueChanges(l, r, p) : ch.kind # "Added" /\ ch.name.up = v.name.up <=> ch = new
  BY <1>4, <1>d, ChangesOfLeft
<1>6. new \in Detail
  BY <1>3, <1>d DEF Value, ValueDiff, Detail, ValueKinds
<1>7. \A ch \in ValueChanges(l, r, p) : PassedIn(ch, Tail(lv), rv) <=> PassedIn(ch, lv, rv) \/ ch = new
  BY <1>2, <1>3, <1>5, <1>us DEF PassedIn
<1>8. ~ PassedIn(new, lv, rv)
  BY <1>2, <1>3, <1>5, <1>us DEF PassedIn
<1>9. ds \in Seq(Detail) /\ IsInjective(ds)
      /\ Range(ds) = {ch \in ValueChanges(l, r, p) : PassedIn(ch, lv, rv)}
  BY DEF Merging
<1>10. /\ Append(ds, new) \in Seq(Detail) /\ IsInjective(Append(ds, new))
       /\ Range(Append(ds, new)) = Range(ds) \union {new}
  BY <1>6, <1>8, <1>9, ListGrows
<1>11. Range(Append(ds, new)) = {ch \in ValueChanges(l, r, p) : PassedIn(ch, Tail(lv), rv)}
  BY <1>5, <1>7, <1>9, <1>10
<1>12. Joined(UpsV(Tail(lv)), UpsV(rv), ValUps(l, p[1]), ValUps(r, p[2]))
  BY <1>2, <1>3, <1>U, <1>V, <1>vs
<1>13. rv \in Seq(Value) /\ Range(rv) \subseteq Vals(r, p[2]) /\ Range(lv) \subseteq Vals(l, p[1])
  BY DEF Merging
<1>14. Merging(l, r, p, Tail(lv), rv, Append(ds, new))
  BY <1>3, <1>10, <1>11, <1>12, <1>13 DEF Merging
<1> QED
  BY <1>14, <1>v, <1>d

\* A value of the right key alone is listed as added.
LEMMA MergeRight ==
  ASSUME DiffAssumption, NEW l, NEW r, Comparable(l, r), NEW p \in Pair, NEW lv, NEW rv, NEW ds,
         Merging(l, r, p, lv, rv, ds), OnlyRight(UpsV(lv), UpsV(rv))
  PROVE  Merging(l, r, p, lv, Tail(rv), Append(ds, ValueDiff(Head(rv).name, "Added")))
<1>U. PICK U : U = ValUps(l, p[1])
  OBVIOUS
<1>V. PICK V : V = ValUps(r, p[2])
  OBVIOUS
<1>us. PICK us : us = UpsV(lv)
  OBVIOUS
<1>vs. PICK vs : vs = UpsV(rv)
  OBVIOUS
<1>1. rv \in Seq(Value) /\ UpsV(rv) # << >> /\ Joined(us, vs, U, V) /\ OnlyRight(us, vs)
  BY <1>U, <1>V, <1>us, <1>vs DEF Merging, OnlyRight
<1>2. /\ Joined(us, Tail(vs), U, V) /\ Head(vs) \notin U /\ Head(vs) \in Range(vs)
      /\ Range(Tail(vs)) = Range(vs) \ {Head(vs)}
  BY <1>1, JoinRight
<1>v. PICK v : v = Head(rv)
  OBVIOUS
<1>3. /\ v \in Value /\ v \in Range(rv) /\ Tail(rv) \in Seq(Value)
      /\ Range(Tail(rv)) \subseteq Range(rv) /\ Head(vs) = v.name.up /\ UpsV(Tail(rv)) = Tail(vs)
  BY <1>1, <1>v, <1>vs, NamesOfTailValues
<1>4. v \in Vals(r, p[2]) /\ v.name.up \notin ValUps(l, p[1])
  BY <1>2, <1>3, <1>U DEF Merging
<1>d. PICK new : new = ValueDiff(v.name, "Added")
  OBVIOUS
<1>5. /\ new \in ValueChanges(l, r, p)
      /\ \A ch \in ValueChanges(l, r, p) : ch.kind = "Added" /\ ch.name.up = v.name.up <=> ch = new
  BY <1>4, <1>d, ChangesOfRight
<1>6. new \in Detail
  BY <1>3, <1>d DEF Value, ValueDiff, Detail, ValueKinds
<1>7. \A ch \in ValueChanges(l, r, p) : PassedIn(ch, lv, Tail(rv)) <=> PassedIn(ch, lv, rv) \/ ch = new
  BY <1>2, <1>3, <1>5, <1>vs DEF PassedIn
<1>8. ~ PassedIn(new, lv, rv)
  BY <1>2, <1>3, <1>5, <1>vs DEF PassedIn
<1>9. ds \in Seq(Detail) /\ IsInjective(ds)
      /\ Range(ds) = {ch \in ValueChanges(l, r, p) : PassedIn(ch, lv, rv)}
  BY DEF Merging
<1>10. /\ Append(ds, new) \in Seq(Detail) /\ IsInjective(Append(ds, new))
       /\ Range(Append(ds, new)) = Range(ds) \union {new}
  BY <1>6, <1>8, <1>9, ListGrows
<1>11. Range(Append(ds, new)) = {ch \in ValueChanges(l, r, p) : PassedIn(ch, lv, Tail(rv))}
  BY <1>5, <1>7, <1>9, <1>10
<1>12. Joined(UpsV(lv), UpsV(Tail(rv)), ValUps(l, p[1]), ValUps(r, p[2]))
  BY <1>2, <1>3, <1>U, <1>V, <1>us
<1>13. lv \in Seq(Value) /\ Range(rv) \subseteq Vals(r, p[2]) /\ Range(lv) \subseteq Vals(l, p[1])
  BY DEF Merging
<1>14. Merging(l, r, p, lv, Tail(rv), Append(ds, new))
  BY <1>3, <1>10, <1>11, <1>12, <1>13 DEF Merging
<1> QED
  BY <1>14, <1>v, <1>d

\* A value of both keys is listed if it changed.
LEMMA MergeBoth ==
  ASSUME DiffAssumption, NEW l, NEW r, Comparable(l, r), NEW p \in Pair, NEW lv, NEW rv, NEW ds,
         Merging(l, r, p, lv, rv, ds), Both(UpsV(lv), UpsV(rv))
  PROVE  Merging(l, r, p, Tail(lv), Tail(rv),
                 IF Head(lv).data # Head(rv).data \/ Head(lv).type # Head(rv).type
                   THEN Append(ds, ValueDiff(Head(lv).name, "Changed")) ELSE ds)
<1>U. PICK U : U = ValUps(l, p[1])
  OBVIOUS
<1>V. PICK V : V = ValUps(r, p[2])
  OBVIOUS
<1>us. PICK us : us = UpsV(lv)
  OBVIOUS
<1>vs. PICK vs : vs = UpsV(rv)
  OBVIOUS
<1>1. /\ lv \in Seq(Value) /\ UpsV(lv) # << >> /\ rv \in Seq(Value) /\ UpsV(rv) # << >>
      /\ Joined(us, vs, U, V) /\ Both(us, vs)
  BY <1>U, <1>V, <1>us, <1>vs DEF Merging, Both
<1>2. /\ Joined(Tail(us), Tail(vs), U, V) /\ Head(us) \in Range(us) /\ Head(vs) \in Range(vs)
      /\ Head(us) \in U /\ Head(us) \in V /\ Head(us) = Head(vs)
      /\ Range(Tail(us)) = Range(us) \ {Head(us)}
      /\ Range(Tail(vs)) = Range(vs) \ {Head(us)}
  BY <1>1, JoinBoth
<1>v. PICK v : v = Head(lv)
  OBVIOUS
<1>w. PICK w : w = Head(rv)
  OBVIOUS
<1>3. /\ v \in Value /\ v \in Range(lv) /\ Tail(lv) \in Seq(Value)
      /\ Range(Tail(lv)) \subseteq Range(lv) /\ Head(us) = v.name.up /\ UpsV(Tail(lv)) = Tail(us)
  BY <1>1, <1>v, <1>us, NamesOfTailValues
<1>4. /\ w \in Value /\ w \in Range(rv) /\ Tail(rv) \in Seq(Value)
      /\ Range(Tail(rv)) \subseteq Range(rv) /\ Head(vs) = w.name.up /\ UpsV(Tail(rv)) = Tail(vs)
  BY <1>1, <1>w, <1>vs, NamesOfTailValues
<1>5. v \in Vals(l, p[1]) /\ w \in Vals(r, p[2]) /\ v.name.up = w.name.up
  BY <1>2, <1>3, <1>4 DEF Merging
<1>d. PICK new : new = ValueDiff(v.name, "Changed")
  OBVIOUS
<1>n. PICK es : es = IF v.data # w.data \/ v.type # w.type THEN Append(ds, new) ELSE ds
  OBVIOUS
<1>6. /\ new \in ValueChanges(l, r, p) <=> v.data # w.data \/ v.type # w.type
      /\ \A ch \in ValueChanges(l, r, p) : ch.name.up = v.name.up <=> ch = new
  BY <1>5, <1>d, ChangesOfBoth
<1>7. new \in Detail /\ new.kind # "Added" /\ new.name = v.name
  BY <1>3, <1>d DEF Value, ValueDiff, Detail, ValueKinds
<1>8. \A ch \in ValueChanges(l, r, p) :
        PassedIn(ch, Tail(lv), Tail(rv)) <=> PassedIn(ch, lv, rv) \/ ch = new
  BY <1>2, <1>3, <1>4, <1>6, <1>us, <1>vs DEF PassedIn
<1>9. ~ PassedIn(new, lv, rv)
  BY <1>2, <1>3, <1>7, <1>us DEF PassedIn
<1>10. ds \in Seq(Detail) /\ IsInjective(ds)
       /\ Range(ds) = {ch \in ValueChanges(l, r, p) : PassedIn(ch, lv, rv)}
  BY DEF Merging
<1>11. /\ Append(ds, new) \in Seq(Detail) /\ IsInjective(Append(ds, new))
       /\ Range(Append(ds, new)) = Range(ds) \union {new}
  BY <1>7, <1>9, <1>10, ListGrows
<1>12. es \in Seq(Detail) /\ IsInjective(es)
  BY <1>n, <1>10, <1>11
<1>13. Range(es) = {ch \in ValueChanges(l, r, p) : PassedIn(ch, Tail(lv), Tail(rv))}
  <2>1. CASE v.data # w.data \/ v.type # w.type
    BY <1>n, <1>6, <1>8, <1>10, <1>11, <2>1
  <2>2. CASE ~ (v.data # w.data \/ v.type # w.type)
    BY <1>n, <1>6, <1>8, <1>10, <2>2
  <2> QED
    BY <2>1, <2>2
<1>14. Joined(UpsV(Tail(lv)), UpsV(Tail(rv)), ValUps(l, p[1]), ValUps(r, p[2]))
  BY <1>2, <1>3, <1>4, <1>U, <1>V
<1>15. Range(rv) \subseteq Vals(r, p[2]) /\ Range(lv) \subseteq Vals(l, p[1])
  BY DEF Merging
<1>16. Merging(l, r, p, Tail(lv), Tail(rv), es)
  BY <1>3, <1>4, <1>12, <1>13, <1>14, <1>15 DEF Merging
<1> QED
  BY <1>16, <1>v, <1>w, <1>d, <1>n

-----------------------------------------------------------------------------
\* The entries report the differences Z, each once and with its details listed once.
Listed(l, r, es, Z) ==
  /\ \E g : /\ DOMAIN g = DOMAIN es /\ IsInjective(g) /\ Range(g) = Z
            /\ \A n \in DOMAIN es : Shown(es[n]) = EntryOf(l, r, g[n])
  /\ \A n \in DOMAIN es : IsInjective(es[n].details)

\* The empty list reports no difference.
LEMMA NothingListed ==
  ASSUME NEW l, NEW r
  PROVE  Listed(l, r, << >>, {})
<1>1. /\ DOMAIN << >> = {} /\ IsInjective(<< >>) /\ Range(<< >>) = {}
  BY DEF IsInjective, Range
<1> QED
  BY <1>1 DEF Listed

\* One more entry reports one more difference.
LEMMA ListedMore ==
  ASSUME NEW l, NEW r, NEW es \in Seq(Result), NEW Z, Listed(l, r, es, Z),
         NEW e \in Result, IsInjective(e.details), NEW x, x \notin Z, Shown(e) = EntryOf(l, r, x)
  PROVE  Listed(l, r, Append(es, e), Z \union {x})
<1>t. PICK t : t = Append(es, e)
  OBVIOUS
<1>l. PICK len \in Nat : len = Len(es)
  OBVIOUS
<1>1. /\ DOMAIN t = 1 .. len + 1 /\ DOMAIN es = 1 .. len
      /\ t[len + 1] = e /\ \A n \in 1 .. len : t[n] = es[n]
  BY <1>t, <1>l, AppendProperties
<1>2. \A n : n \in 1 .. len + 1 <=> n \in 1 .. len \/ n = len + 1
  OBVIOUS
<1>n. len + 1 \notin 1 .. len
  OBVIOUS
<1>g. PICK g : /\ DOMAIN g = 1 .. len /\ IsInjective(g) /\ Range(g) = Z
               /\ \A n \in 1 .. len : Shown(es[n]) = EntryOf(l, r, g[n])
  BY <1>1 DEF Listed
<1>h. PICK h : h = [n \in 1 .. len + 1 |-> IF n = len + 1 THEN x ELSE g[n]]
  OBVIOUS
<1>3. /\ DOMAIN h = 1 .. len + 1 /\ h[len + 1] = x /\ \A n \in 1 .. len : h[n] = g[n]
  BY <1>h, <1>2, <1>n
<1>4. Range(h) = Z \union {x}
  BY <1>g, <1>2, <1>3 DEF Range
<1>5. IsInjective(h)
  BY <1>g, <1>2, <1>3 DEF Range, IsInjective
<1>6. \A n \in 1 .. len + 1 : Shown(t[n]) = EntryOf(l, r, h[n])
  BY <1>1, <1>2, <1>3, <1>g
<1>7. \A n \in 1 .. len + 1 : IsInjective(t[n].details)
  <2>1. \A n \in 1 .. len : IsInjective(es[n].details)
    BY <1>1 DEF Listed
  <2> QED
    BY <1>1, <1>2, <2>1
<1> QED
  BY <1>t, <1>1, <1>3, <1>4, <1>5, <1>6, <1>7 DEF Listed

\* What is listed so is listed exactly.
LEMMA ListedExactly ==
  ASSUME NEW l, NEW r, NEW es \in Seq(Result), NEW Z, Listed(l, r, es, Z)
  PROVE  /\ {Shown(es[n]) : n \in DOMAIN es} = {EntryOf(l, r, d) : d \in Z}
         /\ Len(es) = Cardinality(Z)
         /\ \A n \in DOMAIN es : IsInjective(es[n].details)
<1>l. PICK len \in Nat : len = Len(es) /\ DOMAIN es = 1 .. len
  OBVIOUS
<1>g. PICK g : /\ DOMAIN g = 1 .. len /\ IsInjective(g) /\ Range(g) = Z
               /\ \A n \in 1 .. len : Shown(es[n]) = EntryOf(l, r, g[n])
  BY <1>l DEF Listed
<1>1. Z = {g[n] : n \in 1 .. len}
  BY <1>g DEF Range
<1>2. {Shown(es[n]) : n \in 1 .. len} = {EntryOf(l, r, d) : d \in Z}
  BY <1>g, <1>1
<1>p. PICK h : h = [n \in 1 .. len |-> g[n]]
  OBVIOUS
<1>3. ExistsBijection(1 .. len, Z)
  <2>1. h \in Injection(1 .. len, Z) /\ h \in Surjection(1 .. len, Z)
    BY <1>p, <1>g, <1>1 DEF Injection, Surjection, IsInjective
  <2> QED
    BY <2>1 DEF ExistsBijection, Bijection
<1>4. IsFiniteSet(1 .. len) /\ Cardinality(1 .. len) = len
  BY FS_Interval
<1>5. Cardinality(Z) = len
  BY <1>3, <1>4, FS_Bijection
<1> QED
  BY <1>l, <1>2, <1>5 DEF Listed

-----------------------------------------------------------------------------
\* The entries of a difference.
LEMMA ShownAlone ==
  ASSUME NEW path, NEW kind
  PROVE  Shown(Entry(path, kind, << >>)) = Entry(path, kind, {})
<1>1. \A ds : Shown(Entry(path, kind, ds)) = Entry(path, kind, Range(ds))
  BY DEF Shown, Entry
<1>2. Range(<< >>) = {}
  BY DEF Range
<1> QED
  BY <1>1, <1>2

\* The entry of a key that was removed, as the comparison makes it.
LEMMA EntryOfRemoved ==
  ASSUME NEW l, NEW r, NEW c, NEW k
  PROVE  EntryOf(l, r, <<c, "KeyRemoved", k>>) =
           Shown(Entry(Append(NamesTo(l, c, Len(c)), l.name[k]), "KeyRemoved", << >>))
<1>1. PathTo(l, c) = NamesTo(l, c, Len(c))
  BY DEF PathTo, NamesTo
<1>2. EntryOf(l, r, <<c, "KeyRemoved", k>>) =
        Entry(Append(NamesTo(l, c, Len(c)), l.name[k]), "KeyRemoved", {})
  BY <1>1 DEF EntryOf
<1> QED
  BY <1>2, ShownAlone

\* The entry of a key that was added.
LEMMA EntryOfAdded ==
  ASSUME NEW l, NEW r, NEW c, NEW k
  PROVE  EntryOf(l, r, <<c, "KeyAdded", k>>) =
           Shown(Entry(Append(NamesTo(l, c, Len(c)), r.name[k]), "KeyAdded", << >>))
<1>1. PathTo(l, c) = NamesTo(l, c, Len(c))
  BY DEF PathTo, NamesTo
<1>2. EntryOf(l, r, <<c, "KeyAdded", k>>) =
        Entry(Append(NamesTo(l, c, Len(c)), r.name[k]), "KeyAdded", {})
  BY <1>1 DEF EntryOf
<1> QED
  BY <1>2, ShownAlone

PathShown(l, path, k) == IF path = << >> THEN <<l.name[k]>> ELSE path

\* The entry of a pair of keys whose values differ in ds.
LEMMA EntryOfValues ==
  ASSUME NEW l, NEW r, NEW c, NEW k, NEW ds, Range(ds) = ValueChanges(l, r, c[Len(c)])
  PROVE  EntryOf(l, r, <<c, "KeyModified", k>>) =
           Shown(Entry(PathShown(l, NamesTo(l, c, Len(c)), k), "KeyModified", ds))
<1>n. PICK n : n = Len(c)
  OBVIOUS
<1>p. PICK path : path = NamesTo(l, c, n)
  OBVIOUS
<1>1. PathTo(l, c) = path /\ Matched(c) = c[n]
  BY <1>n, <1>p DEF PathTo, NamesTo, Matched
<1>2. \A p, kind : Shown(Entry(p, kind, ds)) = Entry(p, kind, Range(ds))
  BY DEF Shown, Entry
<1>3. EntryOf(l, r, <<c, "KeyModified", k>>) =
        Entry(PathShown(l, path, k), "KeyModified", ValueChanges(l, r, c[n]))
  BY <1>1 DEF EntryOf, PathShown
<1> QED
  BY <1>n, <1>p, <1>2, <1>3

-----------------------------------------------------------------------------
\* What the comparison has behind it.
Behind(l, r, c, stk) == {d \in Due(l, r) : ~ Ahead(l, r, c, stk, d)}

\* With the same ahead of it, the comparison has the same behind it.
LEMMA SameBehind ==
  ASSUME NEW l, NEW r, NEW c, NEW stk, NEW e, NEW t,
         \A d \in Due(l, r) : Ahead(l, r, e, t, d) <=> Ahead(l, r, c, stk, d)
  PROVE  Behind(l, r, e, t) = Behind(l, r, c, stk)
BY DEF Behind

\* The entries es report what the comparison has behind it when the joins stk are
\* under way and, with c longer than these, the pair of keys pr is being entered.
Reports(l, r, c, pr, stk, es) ==
  /\ On(l, r, c, stk)
  /\ Len(c) \in {Len(stk), Len(stk) + 1}
  /\ Len(c) > Len(stk) => c[Len(c)] = <<pr.l, pr.r>> /\ pr.path = NamesTo(l, c, Len(c))
  /\ Listed(l, r, es, Behind(l, r, c, stk))

\* The comparison begins.
LEMMA ReportsFirst ==
  ASSUME DiffAssumption, NEW l, NEW r, Comparable(l, r)
  PROVE  Reports(l, r, << <<Root, Root>> >>, [l |-> Root, r |-> Root, path |-> << >>],
                 << >>, << >>)
<1>c. PICK c : c = << <<Root, Root>> >>
  OBVIOUS
<1>1. On(l, r, c, << >>) /\ \A d \in Due(l, r) : Ahead(l, r, c, << >>, d)
  BY <1>c, StartStep
<1>2. Behind(l, r, c, << >>) = {}
  BY <1>1 DEF Behind
<1>3. Len(c) = 1 /\ c[1] = <<Root, Root>> /\ NamesTo(l, c, 1) = << >>
  BY <1>c DEF NamesTo
<1>4. Listed(l, r, << >>, Behind(l, r, c, << >>))
  BY <1>2, NothingListed
<1> QED
  BY <1>c, <1>1, <1>3, <1>4 DEF Reports

\* The subkeys of the pair that was entered are read, its changes reported.
LEMMA ReportsEnter ==
  ASSUME DiffAssumption, NEW l, NEW r, Comparable(l, r), NEW c, NEW pr, NEW stk,
         NEW es \in Seq(Result), Reports(l, r, c, pr, stk, es),
         NEW n \in Nat \ {0}, Len(stk) = n - 1, Len(c) = n,
         NEW t \in Seq(Frame), Len(t) = n, \A i \in 1 .. n - 1 : t[i] = stk[i],
         t[n] = [path |-> pr.path, ls |-> SortedKeys(l, l.kids[pr.l]),
                 rs |-> SortedKeys(r, r.kids[pr.r])],
         NEW ds \in Seq(Detail), IsInjective(ds), Range(ds) = ValueChanges(l, r, <<pr.l, pr.r>>),
         Entry(IF pr.path = << >> THEN <<l.name[pr.l]>> ELSE pr.path, "KeyModified", ds) \in Result
  PROVE  Reports(l, r, c, pr, t,
                 IF ds = << >> THEN es
                   ELSE Append(es, Entry(IF pr.path = << >> THEN <<l.name[pr.l]>> ELSE pr.path,
                                         "KeyModified", ds)))
<1>k. PICK k : k = pr.l
  OBVIOUS
<1>p. PICK path : path = pr.path
  OBVIOUS
<1>x. PICK x : x = <<c, "KeyModified", c[n][1]>>
  OBVIOUS
<1>e. PICK e : e = Entry(IF path = << >> THEN <<l.name[k]>> ELSE path, "KeyModified", ds)
  OBVIOUS
<1>1. /\ On(l, r, c, stk) /\ Len(c) = n /\ c[n] = <<k, pr.r>> /\ path = NamesTo(l, c, n)
      /\ Listed(l, r, es, Behind(l, r, c, stk)) /\ c[n][1] = k /\ c[n][2] = pr.r
      /\ IsMatch(l, r, c)
  BY <1>k, <1>p DEF Reports, On
<1>2. t[n] = [path |-> NamesTo(l, c, n), ls |-> SortedKeys(l, l.kids[c[n][1]]),
              rs |-> SortedKeys(r, r.kids[c[n][2]])]
  BY <1>1, <1>k, <1>p
<1>3. /\ On(l, r, c, t)
      /\ \A d \in Due(l, r) : Ahead(l, r, c, t, d) <=> Ahead(l, r, c, stk, d) /\ d # x
      /\ Ahead(l, r, c, stk, x)
  <2>1. /\ On(l, r, c, t)
        /\ \A d \in Due(l, r) : Ahead(l, r, c, t, d) <=>
             Ahead(l, r, c, stk, d) /\ d # <<c, "KeyModified", c[n][1]>>
        /\ Ahead(l, r, c, stk, <<c, "KeyModified", c[n][1]>>)
    BY <1>1, <1>2, EnterOn
  <2> QED
    BY <2>1, <1>x
<1>4. x \in Due(l, r) <=> ValueChanges(l, r, c[n]) # {}
  <2>1. Differs(l, r, c, "KeyModified", c[n][1]) <=> ValueChanges(l, r, c[n]) # {}
    BY <1>1 DEF Differs
  <2> QED
    BY <1>1, <1>x, <2>1, DueIs
<1>5. Range(ds) = ValueChanges(l, r, c[n])
  BY <1>1, <1>k
<1>6. ds = << >> <=> Range(ds) = {}
  <2>1. ds # << >> => ds[1] \in Range(ds)
    BY EmptySeq DEF Range
  <2>2. Range(<< >>) = {}
    BY DEF Range
  <2> QED
    BY <2>1, <2>2
<1>7. CASE ds = << >>
  <2>1. \A d \in Due(l, r) : Ahead(l, r, c, t, d) <=> Ahead(l, r, c, stk, d)
    BY <1>3, <1>4, <1>5, <1>6, <1>7
  <2>2. Behind(l, r, c, t) = Behind(l, r, c, stk)
    BY <2>1, SameBehind
  <2> QED
    BY <1>1, <1>3, <1>7, <2>2 DEF Reports
<1>8. CASE ds # << >>
  <2>1. x \in Due(l, r)
    BY <1>4, <1>5, <1>6, <1>8
  <2>2. /\ x \notin Behind(l, r, c, stk)
        /\ Behind(l, r, c, t) = Behind(l, r, c, stk) \union {x}
    BY <1>3, <2>1 DEF Behind
  <2>3. Shown(e) = EntryOf(l, r, x)
    <3>1. EntryOf(l, r, <<c, "KeyModified", k>>) =
            Shown(Entry(PathShown(l, NamesTo(l, c, Len(c)), k), "KeyModified", ds))
      <4>1. Range(ds) = ValueChanges(l, r, c[Len(c)])
        BY <1>1, <1>5
      <4> QED
        BY <4>1, EntryOfValues, SMTT(30)
    <3> QED
      BY <1>1, <1>e, <1>x, <3>1 DEF PathShown
  <2>4. e \in Result /\ IsInjective(e.details)
    BY <1>e, <1>k, <1>p DEF Entry
  <2>5. Listed(l, r, Append(es, e), Behind(l, r, c, t))
    BY <1>1, <2>2, <2>3, <2>4, ListedMore
  <2>6. Reports(l, r, c, pr, t, Append(es, e))
    BY <1>1, <1>3, <2>5 DEF Reports
  <2> QED
    BY <1>8, <1>e, <1>k, <1>p, <2>6
<1> QED
  BY <1>7, <1>8

\* A subkey of one hive is passed and reported.
LEMMA ReportsRemoved ==
  ASSUME DiffAssumption, NEW l, NEW r, Comparable(l, r), NEW c, NEW pr, NEW stk,
         NEW es \in Seq(Result), Reports(l, r, c, pr, stk, es),
         NEW n \in Nat \ {0}, Len(stk) = n, Len(c) = n, OnlyLeft(UpsK(l, stk[n].ls), UpsK(r, stk[n].rs)),
         NEW t \in Seq(Frame), Len(t) = n, \A i \in 1 .. n - 1 : t[i] = stk[i],
         t[n].path = stk[n].path, t[n].ls = Tail(stk[n].ls), t[n].rs = stk[n].rs,
         Entry(Append(stk[n].path, l.name[Head(stk[n].ls)]), "KeyRemoved", << >>) \in Result
  PROVE  Reports(l, r, c, pr, t,
           Append(es, Entry(Append(stk[n].path, l.name[Head(stk[n].ls)]), "KeyRemoved", << >>)))
<1>p. PICK f, g : f = stk[n] /\ g = t[n]
  OBVIOUS
<1>k. PICK k : k = Head(f.ls)
  OBVIOUS
<1>x. PICK x : x = <<c, "KeyRemoved", k>>
  OBVIOUS
<1>e. PICK e : e = Entry(Append(f.path, l.name[k]), "KeyRemoved", << >>)
  OBVIOUS
<1>1. /\ On(l, r, c, stk) /\ Len(c) = n /\ IsMatch(l, r, c) /\ FrameAt(l, r, c, n, f)
      /\ Listed(l, r, es, Behind(l, r, c, stk))
  BY <1>p DEF Reports, On
<1>2. /\ OnlyLeft(UpsK(l, f.ls), UpsK(r, f.rs)) /\ g \in Frame /\ g.path = f.path
      /\ g.ls = Tail(f.ls) /\ g.rs = f.rs /\ f.path = NamesTo(l, c, n)
  BY <1>p, <1>1 DEF FrameAt
<1>3. /\ FrameAt(l, r, c, n, g)
      /\ x \in Due(l, r) /\ AheadAt(l, r, c, n, f, x)
      /\ \A d \in Due(l, r) : AheadAt(l, r, c, n, g, d) <=> AheadAt(l, r, c, n, f, d) /\ d # x
  <2>1. /\ FrameAt(l, r, c, n, g)
        /\ <<c, "KeyRemoved", Head(f.ls)>> \in Due(l, r)
        /\ AheadAt(l, r, c, n, f, <<c, "KeyRemoved", Head(f.ls)>>)
        /\ \A d \in Due(l, r) : AheadAt(l, r, c, n, g, d) <=>
             AheadAt(l, r, c, n, f, d) /\ d # <<c, "KeyRemoved", Head(f.ls)>>
    BY <1>1, <1>2, RemovedStep
  <2> QED
    BY <2>1, <1>k, <1>x
<1>4. /\ On(l, r, c, t)
      /\ \A d : Ahead(l, r, c, stk, d) <=>
                  AheadUpTo(l, r, c, n - 1, stk, d) \/ AheadAt(l, r, c, n, f, d)
      /\ \A d : Ahead(l, r, c, t, d) <=>
                  AheadUpTo(l, r, c, n - 1, stk, d) \/ AheadAt(l, r, c, n, g, d)
  BY <1>p, <1>1, <1>3, JoinGoesOn
<1>5. ~ AheadUpTo(l, r, c, n - 1, stk, x)
  <2>1. n - 1 \in Nat /\ n - 1 <= Len(stk) /\ n - 1 < Len(c)
    BY <1>1
  <2> QED
    BY <1>1, <1>x, <2>1, PassedAbove
<1>6. /\ x \notin Behind(l, r, c, stk)
      /\ Behind(l, r, c, t) = Behind(l, r, c, stk) \union {x}
  <2>1. /\ Ahead(l, r, c, stk, x)
        /\ \A d \in Due(l, r) : Ahead(l, r, c, t, d) <=> Ahead(l, r, c, stk, d) /\ d # x
    BY <1>3, <1>4, <1>5
  <2> QED
    BY <1>3, <2>1 DEF Behind
<1>7. Shown(e) = EntryOf(l, r, x)
  <2>1. EntryOf(l, r, <<c, "KeyRemoved", k>>) =
          Shown(Entry(Append(NamesTo(l, c, Len(c)), l.name[k]), "KeyRemoved", << >>))
    BY EntryOfRemoved
  <2> QED
    BY <1>1, <1>2, <1>e, <1>x, <2>1
<1>8. e \in Result /\ IsInjective(e.details)
  BY <1>p, <1>k, <1>e DEF Entry, IsInjective
<1>9. Listed(l, r, Append(es, e), Behind(l, r, c, t))
  BY <1>1, <1>6, <1>7, <1>8, ListedMore
<1>10. Reports(l, r, c, pr, t, Append(es, e))
  BY <1>1, <1>4, <1>9 DEF Reports
<1> QED
  BY <1>10, <1>p, <1>k, <1>e

\* Listing a key of the right hive alone.
LEMMA ReportsAdded ==
  ASSUME DiffAssumption, NEW l, NEW r, Comparable(l, r), NEW c, NEW pr, NEW stk,
         NEW es \in Seq(Result), Reports(l, r, c, pr, stk, es),
         NEW n \in Nat \ {0}, Len(stk) = n, Len(c) = n, OnlyRight(UpsK(l, stk[n].ls), UpsK(r, stk[n].rs)),
         NEW t \in Seq(Frame), Len(t) = n, \A i \in 1 .. n - 1 : t[i] = stk[i],
         t[n].path = stk[n].path, t[n].ls = stk[n].ls, t[n].rs = Tail(stk[n].rs),
         Entry(Append(stk[n].path, r.name[Head(stk[n].rs)]), "KeyAdded", << >>) \in Result
  PROVE  Reports(l, r, c, pr, t,
           Append(es, Entry(Append(stk[n].path, r.name[Head(stk[n].rs)]), "KeyAdded", << >>)))
<1>p. PICK f, g : f = stk[n] /\ g = t[n]
  OBVIOUS
<1>k. PICK k : k = Head(f.rs)
  OBVIOUS
<1>x. PICK x : x = <<c, "KeyAdded", k>>
  OBVIOUS
<1>e. PICK e : e = Entry(Append(f.path, r.name[k]), "KeyAdded", << >>)
  OBVIOUS
<1>1. /\ On(l, r, c, stk) /\ Len(c) = n /\ IsMatch(l, r, c) /\ FrameAt(l, r, c, n, f)
      /\ Listed(l, r, es, Behind(l, r, c, stk))
  BY <1>p DEF Reports, On
<1>2. /\ OnlyRight(UpsK(l, f.ls), UpsK(r, f.rs)) /\ g \in Frame /\ g.path = f.path
      /\ g.ls = f.ls /\ g.rs = Tail(f.rs) /\ f.path = NamesTo(l, c, n)
  BY <1>p, <1>1 DEF FrameAt
<1>3. /\ FrameAt(l, r, c, n, g)
      /\ x \in Due(l, r) /\ AheadAt(l, r, c, n, f, x)
      /\ \A d \in Due(l, r) : AheadAt(l, r, c, n, g, d) <=> AheadAt(l, r, c, n, f, d) /\ d # x
  <2>1. /\ FrameAt(l, r, c, n, g)
        /\ <<c, "KeyAdded", Head(f.rs)>> \in Due(l, r)
        /\ AheadAt(l, r, c, n, f, <<c, "KeyAdded", Head(f.rs)>>)
        /\ \A d \in Due(l, r) : AheadAt(l, r, c, n, g, d) <=>
             AheadAt(l, r, c, n, f, d) /\ d # <<c, "KeyAdded", Head(f.rs)>>
    BY <1>1, <1>2, AddedStep
  <2> QED
    BY <2>1, <1>k, <1>x
<1>4. /\ On(l, r, c, t)
      /\ \A d : Ahead(l, r, c, stk, d) <=>
                  AheadUpTo(l, r, c, n - 1, stk, d) \/ AheadAt(l, r, c, n, f, d)
      /\ \A d : Ahead(l, r, c, t, d) <=>
                  AheadUpTo(l, r, c, n - 1, stk, d) \/ AheadAt(l, r, c, n, g, d)
  BY <1>p, <1>1, <1>3, JoinGoesOn
<1>5. ~ AheadUpTo(l, r, c, n - 1, stk, x)
  <2>1. n - 1 \in Nat /\ n - 1 <= Len(stk) /\ n - 1 < Len(c)
    BY <1>1
  <2> QED
    BY <1>1, <1>x, <2>1, PassedAbove
<1>6. /\ x \notin Behind(l, r, c, stk)
      /\ Behind(l, r, c, t) = Behind(l, r, c, stk) \union {x}
  <2>1. /\ Ahead(l, r, c, stk, x)
        /\ \A d \in Due(l, r) : Ahead(l, r, c, t, d) <=> Ahead(l, r, c, stk, d) /\ d # x
    BY <1>3, <1>4, <1>5
  <2> QED
    BY <1>3, <2>1 DEF Behind
<1>7. Shown(e) = EntryOf(l, r, x)
  <2>1. EntryOf(l, r, <<c, "KeyAdded", k>>) =
          Shown(Entry(Append(NamesTo(l, c, Len(c)), r.name[k]), "KeyAdded", << >>))
    BY EntryOfAdded
  <2> QED
    BY <1>1, <1>2, <1>e, <1>x, <2>1
<1>8. e \in Result /\ IsInjective(e.details)
  BY <1>p, <1>k, <1>e DEF Entry, IsInjective
<1>9. Listed(l, r, Append(es, e), Behind(l, r, c, t))
  BY <1>1, <1>6, <1>7, <1>8, ListedMore
<1>10. Reports(l, r, c, pr, t, Append(es, e))
  BY <1>1, <1>4, <1>9 DEF Reports
<1> QED
  BY <1>10, <1>p, <1>k, <1>e

\* Two subkeys of one name are entered.
LEMMA ReportsDescent ==
  ASSUME DiffAssumption, NEW l, NEW r, Comparable(l, r), NEW c, NEW pr, NEW stk,
         NEW es \in Seq(Result), Reports(l, r, c, pr, stk, es),
         NEW n \in Nat \ {0}, Len(stk) = n, Len(c) = n, Both(UpsK(l, stk[n].ls), UpsK(r, stk[n].rs)),
         NEW t \in Seq(Frame), Len(t) = n, \A i \in 1 .. n - 1 : t[i] = stk[i],
         t[n].path = stk[n].path, t[n].ls = Tail(stk[n].ls), t[n].rs = Tail(stk[n].rs)
  PROVE  \E e : Len(e) = n + 1 /\ Reports(l, r, e,
                        [l |-> Head(stk[n].ls), r |-> Head(stk[n].rs),
                         path |-> Append(stk[n].path, l.name[Head(stk[n].ls)])], t, es)
<1>h. PICK h, k : h = Head(stk[n].ls) /\ k = Head(stk[n].rs)
  OBVIOUS
<1>1. /\ On(l, r, c, stk) /\ Len(c) = n /\ stk[n].path = NamesTo(l, c, n)
      /\ Listed(l, r, es, Behind(l, r, c, stk))
  <2>1. On(l, r, c, stk) /\ Listed(l, r, es, Behind(l, r, c, stk)) /\ n \in 1 .. Len(stk)
    BY DEF Reports
  <2>2. FrameAt(l, r, c, n, stk[n])
    BY <2>1 DEF On
  <2> QED
    BY <2>1, <2>2 DEF FrameAt
<1>2. \E e : /\ On(l, r, e, t) /\ Len(e) = n + 1
             /\ e[n + 1] = <<Head(stk[n].ls), Head(stk[n].rs)>>
             /\ \A d \in Due(l, r) : Ahead(l, r, e, t, d) <=> Ahead(l, r, c, stk, d)
  BY <1>1, DescentOn
<1>3. PICK e : /\ On(l, r, e, t) /\ Len(e) = n + 1 /\ e[n + 1] = <<h, k>>
               /\ \A d \in Due(l, r) : Ahead(l, r, e, t, d) <=> Ahead(l, r, c, stk, d)
  BY <1>2, <1>h
<1>4. Listed(l, r, es, Behind(l, r, e, t))
  <2>1. Behind(l, r, e, t) = Behind(l, r, c, stk)
    BY <1>3, SameBehind
  <2> QED
    BY <1>1, <2>1
<1>5. Append(stk[n].path, l.name[h]) = NamesTo(l, e, n + 1)
  <2>1. NamesTo(l, e, n) = NamesTo(l, c, n)
    BY <1>1, <1>3 DEF On, FrameAt
  <2>2. NamesTo(l, e, n + 1) = [j \in 1 .. n |-> l.name[e[j + 1][1]]]
    BY DEF NamesTo
  <2> QED
    BY <1>1, <1>3, <2>1, <2>2 DEF NamesTo
<1> QED
  BY <1>3, <1>4, <1>5, <1>h DEF Reports

\* A join is done: nothing is left, or what is left is ahead of the joins above.
LEMMA ReportsAll ==
  ASSUME DiffAssumption, NEW l, NEW r, Comparable(l, r), NEW c, NEW pr, NEW stk,
         NEW es, Reports(l, r, c, pr, stk, es),
         Len(stk) = 1, Len(c) = 1, stk[1].ls = << >>, stk[1].rs = << >>
  PROVE  Listed(l, r, es, Due(l, r))
<1>1. On(l, r, c, stk) /\ Listed(l, r, es, Behind(l, r, c, stk))
  BY DEF Reports
<1>2. \A d \in Due(l, r) : Ahead(l, r, c, stk, d) <=> AheadUpTo(l, r, c, 0, stk, d)
  <2>n. PICK n \in Nat \ {0} : n = 1
    OBVIOUS
  <2>1. Len(stk) = n /\ Len(c) = n /\ stk[n].ls = << >> /\ stk[n].rs = << >>
    BY <2>n
  <2>2. \A d \in Due(l, r) : Ahead(l, r, c, stk, d) <=> AheadUpTo(l, r, c, n - 1, stk, d)
    BY <1>1, <2>1, ReturnOn
  <2> QED
    BY <2>n, <2>2
<1>3. Behind(l, r, c, stk) = Due(l, r)
  BY <1>2 DEF Behind, AheadUpTo
<1> QED
  BY <1>1, <1>3

\* Returning to the join above.
LEMMA ReportsReturn ==
  ASSUME DiffAssumption, NEW l, NEW r, Comparable(l, r), NEW c, NEW pr, NEW stk,
         NEW es, Reports(l, r, c, pr, stk, es),
         NEW n \in Nat \ {0}, Len(stk) = n, Len(c) = n, stk[n].ls = << >>, stk[n].rs = << >>,
         n > 1, NEW t \in Seq(Frame), Len(t) = n - 1, \A i \in 1 .. n - 1 : t[i] = stk[i]
  PROVE  \E e : Len(e) = n - 1 /\ Reports(l, r, e, pr, t, es)
<1>1. On(l, r, c, stk) /\ Listed(l, r, es, Behind(l, r, c, stk))
  BY DEF Reports
<1>2. \A s \in Seq(Frame) :
        Len(s) = n - 1 /\ (\A i \in 1 .. n - 1 : s[i] = stk[i]) =>
          \E e : /\ On(l, r, e, s) /\ Len(e) = n - 1
                 /\ \A d \in Due(l, r) : Ahead(l, r, e, s, d) <=> Ahead(l, r, c, stk, d)
  BY <1>1, ReturnOn
<1>3. PICK e : /\ On(l, r, e, t) /\ Len(e) = n - 1
               /\ \A d \in Due(l, r) : Ahead(l, r, e, t, d) <=> Ahead(l, r, c, stk, d)
  BY <1>2
<1>4. Behind(l, r, e, t) = Behind(l, r, c, stk)
  BY <1>3, SameBehind
<1> QED
  BY <1>1, <1>3, <1>4 DEF Reports

-----------------------------------------------------------------------------
\* The comparison is at a match c: its entries report what is behind it.
At(pr, stk, es, k) ==
  \E c : Len(c) = Len(stk) + k /\ Reports(left, right, c, pr, stk, es)

\* The invariant of a comparison: before the roots are entered nothing is listed; then
\* the entries are the differences that are behind, and diffs the changes; in the end
\* they are all.
Reported ==
  Comparable(left, right) =>
    /\ pc = "start" => /\ stack = << >> /\ entries = << >>
                       /\ pair = [l |-> Root, r |-> Root, path |-> << >>]
    /\ pc \in {"enter", "values"} => At(pair, stack, entries, 1)
    /\ pc = "merge" => At(pair, stack, entries, 0)
    /\ pc = "values" => Merging(left, right, <<pair.l, pair.r>>, lvals, rvals, diffs)
    /\ pc = "done" => Listed(left, right, entries, Due(left, right))

\* The join under way is the n-th, and what it may go on with.
JoinIs(n) ==
  /\ Len(stack) = n /\ stack[n] = Top /\ Top \in Frame /\ Top.path \in Path
  /\ stack \in Seq(Frame) /\ Below \in Seq(Frame) /\ Len(Below) = n - 1
  /\ \A i \in 1 .. n - 1 : Below[i] = stack[i]
  /\ \A g \in Frame : /\ Append(Below, g) \in Seq(Frame) /\ Len(Append(Below, g)) = n
                      /\ Append(Below, g)[n] = g
                      /\ \A i \in 1 .. n - 1 : Append(Below, g)[i] = stack[i]
  /\ entries \in Seq(Result)
  /\ \E c : Len(c) = n /\ Reports(left, right, c, pair, stack, entries)

\* What Reported says while subkeys are joined.
LEMMA AtTheJoin ==
  ASSUME DiffAssumption, TypeOK, Reported, Comparable(left, right), pc = "merge"
  PROVE  \E n \in Nat \ {0} : JoinIs(n)
<1>1. /\ stack \in Seq(Frame) /\ stack # << >> /\ entries \in Seq(Result)
      /\ Top \in Frame /\ Top.path \in Path
  BY FrontOfJoin DEF TypeOK, Result, Details, Detail
<1>2. PICK n \in Nat \ {0} : n = Len(stack)
  BY <1>1, EmptySeq
<1>3. /\ stack[n] = Top /\ Below \in Seq(Frame) /\ Len(Below) = n - 1
      /\ \A i \in 1 .. n - 1 : Below[i] = stack[i]
  <2>1. /\ Below \in Seq(Frame) /\ Len(Below) = Len(stack) - 1
        /\ \A i \in 1 .. Len(Below) : Below[i] = stack[i]
    BY <1>1, TopOfStack
  <2> QED
    BY <1>2, <2>1 DEF Top
<1>4. ASSUME NEW g \in Frame
      PROVE  /\ Append(Below, g) \in Seq(Frame) /\ Len(Append(Below, g)) = n
             /\ Append(Below, g)[n] = g
             /\ \A i \in 1 .. n - 1 : Append(Below, g)[i] = stack[i]
  <2>1. Append(Below, g) \in Seq(Frame)
    BY <1>3
  <2>2. /\ Len(Append(Below, g)) = Len(stack) /\ Append(Below, g)[Len(stack)] = g
        /\ \A i \in 1 .. Len(stack) - 1 : Append(Below, g)[i] = stack[i]
    BY <1>1, TopReplaced
  <2> QED
    BY <1>2, <2>1, <2>2
<1>5. \E c : Len(c) = n /\ Reports(left, right, c, pair, stack, entries)
  <2>1. PICK c : Len(c) = Len(stack) + 0 /\ Reports(left, right, c, pair, stack, entries)
    BY DEF Reported, At
  <2> QED
    BY <1>2, <2>1
<1> QED
  BY <1>1, <1>2, <1>3, <1>4, <1>5 DEF JoinIs

\* Each action that works on the joins keeps Reported: a key removed,
LEMMA ReportedRemoved ==
  ASSUME DiffAssumption, TypeOK, Reported, Comparable(left, right), KeyRemoved
  PROVE  At(pair, stack', entries', 0)
<1>1. pc = "merge" /\ UpsK(left, Top.ls) # << >>
  BY DEF KeyRemoved, OnlyLeft
<1>2. PICK n \in Nat \ {0} : JoinIs(n)
  BY <1>1, AtTheJoin
<1>3. PICK c : Len(c) = n /\ Reports(left, right, c, pair, stack, entries)
  BY <1>2 DEF JoinIs
<1>g. PICK g : g = [Top EXCEPT !.ls = Tail(@)]
  OBVIOUS
<1>4. g \in Frame /\ g.path = stack[n].path /\ g.ls = Tail(stack[n].ls) /\ g.rs = stack[n].rs
  <2>1. Tail(Top.ls) \in Seq(Ids)
    BY <1>1, FrontOfJoin
  <2> QED
    BY <1>2, <1>g, <2>1 DEF Frame, JoinIs
<1>t. PICK t : t = stack'
  OBVIOUS
<1>5. /\ t \in Seq(Frame) /\ Len(t) = n /\ \A i \in 1 .. n - 1 : t[i] = stack[i]
      /\ t[n].path = stack[n].path /\ t[n].ls = Tail(stack[n].ls) /\ t[n].rs = stack[n].rs
  <2>1. t = Append(Below, g)
    BY <1>t, <1>g DEF KeyRemoved
  <2>2. /\ t \in Seq(Frame) /\ Len(t) = n /\ t[n] = g
        /\ \A i \in 1 .. n - 1 : t[i] = stack[i]
    BY <1>2, <1>4, <2>1 DEF JoinIs
  <2> QED
    BY <1>4, <2>2
<1>6. /\ OnlyLeft(UpsK(left, stack[n].ls), UpsK(right, stack[n].rs))
      /\ entries' = Append(entries, Entry(Append(stack[n].path, left.name[Head(stack[n].ls)]),
                                          "KeyRemoved", << >>))
  BY <1>2 DEF KeyRemoved, JoinIs
<1>7. Entry(Append(stack[n].path, left.name[Head(stack[n].ls)]), "KeyRemoved", << >>) \in Result
  <2>1. Append(Top.path, left.name[Head(Top.ls)]) \in Path
    BY <1>1, FrontOfJoin DEF Path
  <2>2. << >> \in Details /\ "KeyRemoved" \in Kinds
    BY DEF Details, Kinds
  <2> QED
    BY <1>2, <2>1, <2>2 DEF Entry, Result, JoinIs
<1>8. Reports(left, right, c, pair, t, entries')
  <2>1. Reports(left, right, c, pair, t,
                Append(entries, Entry(Append(stack[n].path, left.name[Head(stack[n].ls)]),
                                      "KeyRemoved", << >>)))
    BY <1>2, <1>3, <1>5, <1>6, <1>7, ReportsRemoved DEF JoinIs
  <2> QED
    BY <1>6, <2>1
<1> QED
  BY <1>t, <1>3, <1>5, <1>8 DEF At

\* a key added,
LEMMA ReportedAdded ==
  ASSUME DiffAssumption, TypeOK, Reported, Comparable(left, right), KeyAdded
  PROVE  At(pair, stack', entries', 0)
<1>1. pc = "merge" /\ UpsK(right, Top.rs) # << >>
  BY DEF KeyAdded, OnlyRight
<1>2. PICK n \in Nat \ {0} : JoinIs(n)
  BY <1>1, AtTheJoin
<1>3. PICK c : Len(c) = n /\ Reports(left, right, c, pair, stack, entries)
  BY <1>2 DEF JoinIs
<1>g. PICK g : g = [Top EXCEPT !.rs = Tail(@)]
  OBVIOUS
<1>4. g \in Frame /\ g.path = stack[n].path /\ g.ls = stack[n].ls /\ g.rs = Tail(stack[n].rs)
  <2>1. Tail(Top.rs) \in Seq(Ids)
    BY <1>1, FrontOfJoin
  <2> QED
    BY <1>2, <1>g, <2>1 DEF Frame, JoinIs
<1>t. PICK t : t = stack'
  OBVIOUS
<1>5. /\ t \in Seq(Frame) /\ Len(t) = n /\ \A i \in 1 .. n - 1 : t[i] = stack[i]
      /\ t[n].path = stack[n].path /\ t[n].ls = stack[n].ls /\ t[n].rs = Tail(stack[n].rs)
  <2>1. t = Append(Below, g)
    BY <1>t, <1>g DEF KeyAdded
  <2>2. /\ t \in Seq(Frame) /\ Len(t) = n /\ t[n] = g
        /\ \A i \in 1 .. n - 1 : t[i] = stack[i]
    BY <1>2, <1>4, <2>1 DEF JoinIs
  <2> QED
    BY <1>4, <2>2
<1>6. /\ OnlyRight(UpsK(left, stack[n].ls), UpsK(right, stack[n].rs))
      /\ entries' = Append(entries, Entry(Append(stack[n].path, right.name[Head(stack[n].rs)]),
                                          "KeyAdded", << >>))
  BY <1>2 DEF KeyAdded, JoinIs
<1>7. Entry(Append(stack[n].path, right.name[Head(stack[n].rs)]), "KeyAdded", << >>) \in Result
  <2>1. Append(Top.path, right.name[Head(Top.rs)]) \in Path
    BY <1>1, FrontOfJoin DEF Path
  <2>2. << >> \in Details /\ "KeyAdded" \in Kinds
    BY DEF Details, Kinds
  <2> QED
    BY <1>2, <2>1, <2>2 DEF Entry, Result, JoinIs
<1>8. Reports(left, right, c, pair, t, entries')
  <2>1. Reports(left, right, c, pair, t,
                Append(entries, Entry(Append(stack[n].path, right.name[Head(stack[n].rs)]),
                                      "KeyAdded", << >>)))
    BY <1>2, <1>3, <1>5, <1>6, <1>7, ReportsAdded DEF JoinIs
  <2> QED
    BY <1>6, <2>1
<1> QED
  BY <1>t, <1>3, <1>5, <1>8 DEF At

\* a key of both hives,
LEMMA ReportedDescent ==
  ASSUME DiffAssumption, TypeOK, Reported, Comparable(left, right), KeyInBoth
  PROVE  At(pair', stack', entries, 1)
<1>1. pc = "merge" /\ UpsK(left, Top.ls) # << >> /\ UpsK(right, Top.rs) # << >>
  BY DEF KeyInBoth, Both
<1>2. PICK n \in Nat \ {0} : JoinIs(n)
  BY <1>1, AtTheJoin
<1>3. PICK c : Len(c) = n /\ Reports(left, right, c, pair, stack, entries)
  BY <1>2 DEF JoinIs
<1>g. PICK g : g = [Top EXCEPT !.ls = Tail(@), !.rs = Tail(@)]
  OBVIOUS
<1>4. g \in Frame /\ g.path = stack[n].path /\ g.ls = Tail(stack[n].ls) /\ g.rs = Tail(stack[n].rs)
  <2>1. Tail(Top.ls) \in Seq(Ids) /\ Tail(Top.rs) \in Seq(Ids)
    BY <1>1, FrontOfJoin
  <2> QED
    BY <1>2, <1>g, <2>1 DEF Frame, JoinIs
<1>t. PICK t : t = stack'
  OBVIOUS
<1>5. /\ t \in Seq(Frame) /\ Len(t) = n /\ \A i \in 1 .. n - 1 : t[i] = stack[i]
      /\ t[n].path = stack[n].path /\ t[n].ls = Tail(stack[n].ls) /\ t[n].rs = Tail(stack[n].rs)
  <2>1. t = Append(Below, g)
    BY <1>t, <1>g DEF KeyInBoth
  <2>2. /\ t \in Seq(Frame) /\ Len(t) = n /\ t[n] = g
        /\ \A i \in 1 .. n - 1 : t[i] = stack[i]
    BY <1>2, <1>4, <2>1 DEF JoinIs
  <2> QED
    BY <1>4, <2>2
<1>6. /\ Both(UpsK(left, stack[n].ls), UpsK(right, stack[n].rs))
      /\ pair' = [l |-> Head(stack[n].ls), r |-> Head(stack[n].rs),
                  path |-> Append(stack[n].path, left.name[Head(stack[n].ls)])]
  BY <1>2 DEF KeyInBoth, JoinIs
<1>7. \E e : Len(e) = n + 1 /\ Reports(left, right, e, pair', t, entries)
  <2>1. \E e : Len(e) = n + 1 /\ Reports(left, right, e,
                 [l |-> Head(stack[n].ls), r |-> Head(stack[n].rs),
                  path |-> Append(stack[n].path, left.name[Head(stack[n].ls)])], t, entries)
    BY <1>2, <1>3, <1>5, <1>6, ReportsDescent DEF JoinIs
  <2> QED
    BY <1>6, <2>1
<1> QED
  BY <1>t, <1>5, <1>7 DEF At

\* the end of a join,
LEMMA ReportedReturn ==
  ASSUME DiffAssumption, TypeOK, Reported, Comparable(left, right), LeaveKey
  PROVE  /\ pc' \in {"merge", "done"}
         /\ pc' = "merge" => At(pair, stack', entries, 0)
         /\ pc' = "done" => Listed(left, right, entries, Due(left, right))
<1>1. PICK n \in Nat \ {0} : JoinIs(n)
  BY AtTheJoin DEF LeaveKey
<1>2. PICK c : Len(c) = n /\ Reports(left, right, c, pair, stack, entries)
  BY <1>1 DEF JoinIs
<1>3. stack[n].ls = << >> /\ stack[n].rs = << >>
  BY <1>1 DEF JoinIs, LeaveKey
<1>4. pc' = IF n = 1 THEN "done" ELSE "merge"
  BY <1>1 DEF LeaveKey, JoinIs
<1>5. CASE n = 1
  <2>1. Len(stack) = 1 /\ Len(c) = 1 /\ stack[1].ls = << >> /\ stack[1].rs = << >>
    BY <1>1, <1>2, <1>3, <1>5 DEF JoinIs
  <2>2. Listed(left, right, entries, Due(left, right))
    BY <1>2, <2>1, ReportsAll
  <2> QED
    BY <1>4, <1>5, <2>2
<1>6. CASE n # 1
  <2>b. PICK t : t = Below
    OBVIOUS
  <2>1. /\ n > 1 /\ t \in Seq(Frame) /\ Len(t) = n - 1 /\ Len(stack) = n
        /\ \A i \in 1 .. n - 1 : t[i] = stack[i]
    BY <1>1, <1>6, <2>b DEF JoinIs
  <2>2. \E e : Len(e) = n - 1 /\ Reports(left, right, e, pair, t, entries)
    BY <1>2, <1>3, <2>1, ReportsReturn
  <2>3. stack' = t /\ Len(t) + 0 = n - 1
    BY <2>b, <2>1 DEF LeaveKey
  <2>4. At(pair, stack', entries, 0)
    BY <2>2, <2>3 DEF At
  <2> QED
    BY <1>4, <1>6, <2>4
<1> QED
  BY <1>5, <1>6

\* and the first join of two keys.
LEMMA ReportedEnter ==
  ASSUME DiffAssumption, TypeOK, Reported, Comparable(left, right), EnterSubkeys
  PROVE  At(pair, stack', entries', 0)
<1>1. PICK c : Len(c) = Len(stack) + 1 /\ Reports(left, right, c, pair, stack, entries)
  BY DEF Reported, At, EnterSubkeys
<1>2. /\ stack \in Seq(Frame) /\ pair.l \in Ids /\ pair.r \in Ids /\ pair.path \in Path
      /\ entries \in Seq(Result) /\ diffs \in Seq(Detail) /\ IsHive(left) /\ IsHive(right)
  BY DEF TypeOK, Result, Details, Detail, Frame
<1>3. PICK n \in Nat \ {0} : n = Len(stack) + 1
  BY <1>2
<1>g. PICK g : g = [path |-> pair.path, ls |-> SortedKeys(left, left.kids[pair.l]),
                    rs |-> SortedKeys(right, right.kids[pair.r])]
  OBVIOUS
<1>t. PICK t : t = stack'
  OBVIOUS
<1>4. /\ t \in Seq(Frame) /\ Len(t) = n /\ t[n] = g /\ \A i \in 1 .. n - 1 : t[i] = stack[i]
  <2>1. g \in Frame
    <3>1. left.kids[pair.l] \in Seq(Ids) /\ right.kids[pair.r] \in Seq(Ids)
      BY <1>2 DEF IsHive
    <3>2. SortedKeys(left, left.kids[pair.l]) \in Seq(Ids)
      BY <1>2, <3>1, NamesOfKeys
    <3>3. SortedKeys(right, right.kids[pair.r]) \in Seq(Ids)
      BY <1>2, <3>1, NamesOfKeys
    <3> QED
      BY <1>2, <1>g, <3>2, <3>3 DEF Frame
  <2>2. t = Append(stack, g)
    BY <1>t, <1>g DEF EnterSubkeys
  <2> QED
    BY <1>2, <1>3, <2>1, <2>2, AppendProperties
<1>5. IsInjective(diffs) /\ Range(diffs) = ValueChanges(left, right, <<pair.l, pair.r>>)
  <2>1. Merging(left, right, <<pair.l, pair.r>>, << >>, << >>, diffs)
    BY DEF EnterSubkeys, Reported
  <2> QED
    BY <2>1, MergeEnds
<1>e. PICK e : e = Entry(IF pair.path = << >> THEN <<left.name[pair.l]>> ELSE pair.path,
                         "KeyModified", diffs)
  OBVIOUS
<1>6. e \in Result
  <2>1. (IF pair.path = << >> THEN <<left.name[pair.l]>> ELSE pair.path) \in Path
    BY <1>2 DEF Path, IsHive
  <2>2. diffs \in Details /\ "KeyModified" \in Kinds
    BY DEF TypeOK, Kinds
  <2> QED
    BY <1>e, <2>1, <2>2 DEF Entry, Result
<1>7. entries' = IF diffs = << >> THEN entries ELSE Append(entries, e)
  BY <1>e DEF EnterSubkeys, PathOfPair
<1>8. Reports(left, right, c, pair, t, IF diffs = << >> THEN entries ELSE Append(entries, e))
  <2>1. t[n] = [path |-> pair.path, ls |-> SortedKeys(left, left.kids[pair.l]),
                rs |-> SortedKeys(right, right.kids[pair.r])]
    BY <1>4, <1>g
  <2>2. Len(stack) = n - 1 /\ Len(c) = n
    BY <1>1, <1>2, <1>3
  <2>3. Entry(IF pair.path = << >> THEN <<left.name[pair.l]>> ELSE pair.path,
              "KeyModified", diffs) \in Result
    BY <1>e, <1>6
  <2>4. Reports(left, right, c, pair, t,
          IF diffs = << >> THEN entries
            ELSE Append(entries,
                   Entry(IF pair.path = << >> THEN <<left.name[pair.l]>> ELSE pair.path,
                         "KeyModified", diffs)))
    BY <1>1, <1>2, <1>4, <1>5, <2>1, <2>2, <2>3, ReportsEnter
  <2> QED
    BY <1>e, <2>4
<1>9. Len(c) = Len(t) + 0
  BY <1>1, <1>3, <1>4
<1> QED
  BY <1>t, <1>7, <1>8, <1>9 DEF At

-----------------------------------------------------------------------------
\* The entries are, at every moment, the differences that the comparison has behind it.
THEOREM EntriesReport == Spec => []Reported
<1> USE DiffAssumption
<1>1. Init => Reported
  BY DEF Init, Reported
<1>2. TypeOK /\ Reported /\ [Next]_vars => Reported'
  <2> SUFFICES ASSUME TypeOK, Reported, [Next]_vars PROVE Reported'
    OBVIOUS
  <2>1. left' = left /\ right' = right
    BY DEF vars, Next, Fail, BeginDiff, RootUnreadable, ReadValues, ValuesUnreadable, ValueInBoth,
           ValueRemoved, ValueAdded, EnterSubkeys, SubkeysUnreadable, KeyInBoth, KeyRemoved,
           KeyAdded, LeaveKey
  <2>2. CASE ~ Comparable(left, right)
    BY <2>1, <2>2 DEF Reported
  <2> SUFFICES ASSUME Comparable(left, right) PROVE Reported'
    BY <2>2
  <2>3. ASSUME Fail PROVE Reported'
    BY <2>3 DEF Fail, Reported
  <2>4. CASE BeginDiff
    <3>1. /\ pc' = "enter" /\ stack' = << >> /\ entries' = << >>
          /\ pair' = [l |-> Root, r |-> Root, path |-> << >>]
      BY <2>4 DEF BeginDiff, Reported
    <3>2. Reports(left, right, << <<Root, Root>> >>, pair', stack', entries')
      BY <3>1, ReportsFirst
    <3>3. Len(<< <<Root, Root>> >>) = Len(stack') + 1
      BY <3>1
    <3>4. At(pair', stack', entries', 1)
      BY <3>2, <3>3 DEF At
    <3> QED
      BY <2>1, <3>1, <3>4 DEF Reported, At
  <2>5. CASE ReadValues
    <3>1. <<pair.l, pair.r>> \in Pair
      BY DEF TypeOK, Pair
    <3>2. Merging(left, right, <<pair.l, pair.r>>, SortedValues(left.vals[pair.l]),
                  SortedValues(right.vals[pair.r]), << >>)
      <4>1. PICK p : p = <<pair.l, pair.r>>
        OBVIOUS
      <4>2. p[1] = pair.l /\ p[2] = pair.r /\ p \in Pair
        BY <3>1, <4>1
      <4>3. Merging(left, right, p, SortedValues(left.vals[p[1]]), SortedValues(right.vals[p[2]]),
                    << >>)
        BY <4>2, MergeBegins
      <4> QED
        BY <4>1, <4>2, <4>3
    <3>3. At(pair, stack, entries, 1)
      BY <2>5 DEF ReadValues, Reported
    <3> QED
      BY <2>1, <2>5, <3>2, <3>3 DEF ReadValues, Reported, At
  <2>6. ASSUME /\ pc = "values" /\ UNCHANGED <<pc, pair, stack, entries>>
               /\ Merging(left, right, <<pair.l, pair.r>>, lvals', rvals', diffs')
        PROVE  Reported'
    <3>1. At(pair, stack, entries, 1)
      BY <2>6 DEF Reported
    <3> QED
      BY <2>1, <2>6, <3>1 DEF Reported, At
  <2>p. <<pair.l, pair.r>> \in Pair
    BY DEF TypeOK, Pair
  <2>v. pc = "values" => Merging(left, right, <<pair.l, pair.r>>, lvals, rvals, diffs)
    BY DEF Reported
  <2>7. CASE ValueInBoth
    <3>1. Merging(left, right, <<pair.l, pair.r>>, Tail(lvals), Tail(rvals),
                  IF Head(lvals).data # Head(rvals).data \/ Head(lvals).type # Head(rvals).type
                    THEN Append(diffs, ValueDiff(Head(lvals).name, "Changed")) ELSE diffs)
      BY <2>7, <2>p, <2>v, MergeBoth DEF ValueInBoth
    <3> QED
      BY <2>6, <2>7, <3>1 DEF ValueInBoth
  <2>8. CASE ValueRemoved
    <3>1. Merging(left, right, <<pair.l, pair.r>>, Tail(lvals), rvals,
                  Append(diffs, ValueDiff(Head(lvals).name, "Removed")))
      BY <2>8, <2>p, <2>v, MergeLeft DEF ValueRemoved
    <3> QED
      BY <2>6, <2>8, <3>1 DEF ValueRemoved
  <2>9. CASE ValueAdded
    <3>1. Merging(left, right, <<pair.l, pair.r>>, lvals, Tail(rvals),
                  Append(diffs, ValueDiff(Head(rvals).name, "Added")))
      BY <2>9, <2>p, <2>v, MergeRight DEF ValueAdded
    <3> QED
      BY <2>6, <2>9, <3>1 DEF ValueAdded
  <2>10. ASSUME pc' = "merge", pair' = pair, At(pair, stack', entries', 0) PROVE Reported'
    BY <2>1, <2>10 DEF Reported, At
  <2>11. CASE EnterSubkeys
    <3>1. pc' = "merge" /\ pair' = pair
      BY <2>11 DEF EnterSubkeys
    <3> QED
      BY <2>10, <2>11, <3>1, ReportedEnter
  <2>12. CASE KeyInBoth
    <3>1. At(pair', stack', entries, 1)
      BY <2>12, ReportedDescent
    <3>2. pc' = "enter" /\ entries' = entries
      BY <2>12 DEF KeyInBoth
    <3> QED
      BY <2>1, <3>1, <3>2 DEF Reported, At
  <2>13. CASE KeyRemoved
    <3>1. pc' = "merge" /\ pair' = pair
      BY <2>13 DEF KeyRemoved
    <3> QED
      BY <2>10, <2>13, <3>1, ReportedRemoved
  <2>14. CASE KeyAdded
    <3>1. pc' = "merge" /\ pair' = pair
      BY <2>14 DEF KeyAdded
    <3> QED
      BY <2>10, <2>14, <3>1, ReportedAdded
  <2>15. CASE LeaveKey
    <3>1. /\ pc' \in {"merge", "done"}
          /\ pc' = "merge" => At(pair, stack', entries, 0)
          /\ pc' = "done" => Listed(left, right, entries, Due(left, right))
      BY <2>15, ReportedReturn
    <3>2. pair' = pair /\ entries' = entries
      BY <2>15 DEF LeaveKey
    <3>3. CASE pc' = "merge"
      BY <2>10, <3>1, <3>2, <3>3
    <3>4. CASE pc' = "done"
      BY <2>1, <3>1, <3>2, <3>4 DEF Reported
    <3> QED
      BY <3>1, <3>3, <3>4
  <2>16. CASE UNCHANGED vars
    <3>1. UNCHANGED <<left, right, pc, pair, lvals, rvals, diffs, stack, entries>>
      BY <2>16 DEF vars
    <3> QED
      BY <3>1 DEF Reported, At
  <2> QED
    BY <2>3, <2>4, <2>5, <2>7, <2>8, <2>9, <2>11, <2>12, <2>13, <2>14, <2>15, <2>16
    DEF Next, RootUnreadable, ValuesUnreadable, SubkeysUnreadable
<1> QED
  BY <1>1, <1>2, TypeCorrect, PTL DEF Spec

-----------------------------------------------------------------------------
\* A match begins with a match, and goes on with a pair of keys of one name.
LEMMA MatchPrefix ==
  ASSUME NEW l, NEW r, NEW m, IsMatch(l, r, m), NEW k \in Nat \ {0}, NEW n \in Nat, n = Len(m), k <= n
  PROVE  /\ IsMatch(l, r, SubSeq(m, 1, k)) /\ Len(SubSeq(m, 1, k)) = k
         /\ \A j \in 1 .. k : SubSeq(m, 1, k)[j] = m[j]
<1>e. PICK e : e = SubSeq(m, 1, k)
  OBVIOUS
<1>1. m \in Seq(Pair) /\ Len(m) = n /\ m[1] = <<Root, Root>>
      /\ \A j \in 1 .. n - 1 : m[j + 1] \in KidsInBoth(l, r, m[j])
  BY DEF IsMatch
<1>2. e \in Seq(Pair) /\ Len(e) = k /\ \A j \in 1 .. k : e[j] = m[j]
  <2>1. \A i \in 1 .. k : m[i] \in Pair
    BY <1>1
  <2> QED
    BY <1>1, <1>e, <2>1, SubSeqProperties
<1>3. e # << >> /\ e[1] = <<Root, Root>>
  BY <1>1, <1>2
<1>4. ASSUME NEW j \in 1 .. Len(e) - 1 PROVE e[j + 1] \in KidsInBoth(l, r, e[j])
  <2>1. j \in 1 .. n - 1 /\ j \in 1 .. k /\ j + 1 \in 1 .. k
    BY <1>2
  <2> QED
    BY <1>1, <1>2, <2>1
<1> QED
  BY <1>e, <1>2, <1>3, <1>4 DEF IsMatch

LEMMA MatchFurther ==
  ASSUME DiffAssumption, NEW l, NEW r, Comparable(l, r), NEW m, IsMatch(l, r, m),
         NEW q \in KidsInBoth(l, r, Matched(m))
  PROVE  /\ q \in Pair
         /\ IsMatch(l, r, Append(m, q)) /\ Len(Append(m, q)) = Len(m) + 1
<1>1. PICK n \in Nat \ {0} : n = Len(m)
  BY MatchEnds
<1>2. m \in Seq(Pair) /\ Matched(m) = m[n] /\ m[n][1] \in Ids /\ m[n][2] \in Ids
      /\ m[1] = <<Root, Root>> /\ \A j \in 1 .. n - 1 : m[j + 1] \in KidsInBoth(l, r, m[j])
  <2>1. n \in 1 .. n
    OBVIOUS
  <2>2. Matched(m) = m[n] /\ m[n][1] \in Ids /\ m[n][2] \in Ids
    BY <1>1, <2>1, MatchEnds
  <2> QED
    BY <1>1, <2>2 DEF IsMatch
<1>3. q \in Pair
  BY <1>2, KidNames DEF KidsInBoth, Comparable, Pair
<1>e. PICK e : e = Append(m, q)
  OBVIOUS
<1>4. /\ e \in Seq(Pair) /\ Len(e) = n + 1 /\ e[n + 1] = q /\ \A j \in 1 .. n : e[j] = m[j]
  BY <1>1, <1>2, <1>3, <1>e, AppendProperties
<1>5. ASSUME NEW j \in 1 .. Len(e) - 1 PROVE e[j + 1] \in KidsInBoth(l, r, e[j])
  <2>1. CASE j = n
    BY <1>2, <1>4, <2>1
  <2>2. CASE j # n
    <3>1. j \in 1 .. n - 1 /\ j \in 1 .. n /\ j + 1 \in 1 .. n
      BY <1>4, <2>2
    <3> QED
      BY <1>2, <1>4, <3>1
  <2> QED
    BY <2>1, <2>2
<1>6. IsMatch(l, r, e)
  <2>1. e[1] = <<Root, Root>> /\ e # << >>
    BY <1>2, <1>4
  <2> QED
    BY <1>4, <1>5, <2>1 DEF IsMatch
<1> QED
  BY <1>1, <1>3, <1>4, <1>6, <1>e

LEMMA MatchIsFurther ==
  ASSUME NEW l, NEW r, NEW e, IsMatch(l, r, e), NEW n \in Nat \ {0}, Len(e) = n + 1
  PROVE  \E m : /\ IsMatch(l, r, m) /\ Len(m) = n
                /\ \E q \in KidsInBoth(l, r, Matched(m)) : e = Append(m, q)
<1>m. PICK m : m = SubSeq(e, 1, n)
  OBVIOUS
<1>1. IsMatch(l, r, m) /\ Len(m) = n /\ \A j \in 1 .. n : m[j] = e[j]
  <2>1. n + 1 \in Nat /\ n + 1 = Len(e) /\ n <= n + 1
    OBVIOUS
  <2> QED
    BY <1>m, <2>1, MatchPrefix
<1>q. PICK q : q = e[n + 1]
  OBVIOUS
<1>2. e \in Seq(Pair) /\ m \in Seq(Pair) /\ q \in Pair /\ q \in KidsInBoth(l, r, Matched(m))
  <2>1. e \in Seq(Pair) /\ \A j \in 1 .. Len(e) - 1 : e[j + 1] \in KidsInBoth(l, r, e[j])
    BY DEF IsMatch
  <2>2. n \in 1 .. Len(e) - 1 /\ n + 1 \in 1 .. Len(e) /\ n \in 1 .. n
    OBVIOUS
  <2>3. Matched(m) = e[n]
    BY <1>1, <2>2 DEF Matched
  <2> QED
    BY <1>1, <1>q, <2>1, <2>2, <2>3 DEF IsMatch
<1>a. PICK a : a = Append(m, q)
  OBVIOUS
<1>3. a \in Seq(Pair) /\ Len(a) = n + 1 /\ a[n + 1] = q /\ \A j \in 1 .. n : a[j] = m[j]
  BY <1>1, <1>2, <1>a, AppendProperties
<1>4. e = a
  <2>1. \A j \in 1 .. n + 1 : a[j] = e[j]
    <3>1. \A j \in 1 .. n + 1 : j \in 1 .. n \/ j = n + 1
      OBVIOUS
    <3> QED
      BY <1>1, <1>3, <1>q, <3>1
  <2> QED
    BY <1>2, <1>3, <2>1, SeqEqual
<1> QED
  BY <1>1, <1>2, <1>4, <1>a

-----------------------------------------------------------------------------
\* The recursion over the depth is defined ...
LEMMA MatchesAre ==
  ASSUME DiffAssumption, NEW l, NEW r, Comparable(l, r)
  PROVE  /\ Matches(l, r)[0] = {<< <<Root, Root>> >>}
         /\ \A n \in 1 .. Depth : Matches(l, r)[n] = Further(l, r, Matches(l, r)[n - 1])
<1>v. PICK V, d : V = SUBSET {m \in Seq(Pair) : m # << >>} /\ d = Depth
  OBVIOUS
<1>b. PICK base : base = {<< <<Root, Root>> >>}
  OBVIOUS
<1>1. base \in V /\ d \in Nat
  BY <1>v, <1>b, DepthAssumption DEF DiffAssumption, Pair
<1>2. \A ms \in V : Further(l, r, ms) \in V
  <2> SUFFICES ASSUME NEW ms \in V, NEW m \in ms, NEW q \in KidsInBoth(l, r, Matched(m))
               PROVE  Append(m, q) \in Seq(Pair) /\ Append(m, q) # << >>
    BY <1>v DEF Further
  <2>1. m \in Seq(Pair) /\ m # << >>
    BY <1>v
  <2>2. PICK n \in Nat \ {0} : n = Len(m)
    BY <2>1, EmptySeq
  <2>3. Matched(m) \in Pair
    BY <2>1, <2>2 DEF Matched
  <2>4. q \in Pair
    BY <2>3, KidNames DEF KidsInBoth, Comparable, Pair
  <2>5. Append(m, q) \in Seq(Pair) /\ Len(Append(m, q)) = n + 1
    BY <2>1, <2>2, <2>4, AppendProperties
  <2> QED
    BY <2>5
<1>3. PICK f \in [0 .. d -> V] : f[0] = base /\ \A i \in 1 .. d : f[i] = Further(l, r, f[i - 1])
  <2> DEFINE H == [ms \in V |-> Further(l, r, ms)]
  <2>1. H \in [V -> V] /\ \A ms \in V : H[ms] = Further(l, r, ms)
    BY <1>2
  <2> HIDE DEF H
  <2>2. \E f : Repeats(f, H, V, base, d)
    BY <1>1, <2>1, Repeated
  <2>3. \A f \in [0 .. d -> V] : \A i \in 1 .. d : f[i - 1] \in V
    BY <1>1
  <2> QED
    BY <2>1, <2>2, <2>3, ZenonT(40) DEF Repeats
<1>4. f = [n \in 0 .. d |-> IF n = 0 THEN base ELSE Further(l, r, f[n - 1])]
  BY <1>1, <1>3
<1>g. PICK g : g = Matches(l, r)
  OBVIOUS
<1>5. g = CHOOSE h : h = [n \in 0 .. d |-> IF n = 0 THEN base ELSE Further(l, r, h[n - 1])]
  BY <1>g, <1>v, <1>b DEF Matches
<1>6. g = [n \in 0 .. d |-> IF n = 0 THEN base ELSE Further(l, r, g[n - 1])]
  BY <1>4, <1>5
<1>7. g[0] = base
  BY <1>1, <1>6
<1>8. ASSUME NEW n \in 1 .. d PROVE g[n] = Further(l, r, g[n - 1])
  <2>1. n \in 0 .. d /\ n # 0
    BY <1>1
  <2> QED
    BY <1>6, <2>1
<1> QED
  BY <1>g, <1>v, <1>b, <1>7, <1>8

\* ... and reaches the matches of every length up to it.
LEMMA MatchesReach ==
  ASSUME DiffAssumption, NEW l, NEW r, Comparable(l, r)
  PROVE  \A n \in 0 .. Depth :
           \A m : m \in Matches(l, r)[n] <=> IsMatch(l, r, m) /\ Len(m) = n + 1
<1>g. PICK g, d : g = Matches(l, r) /\ d = Depth
  OBVIOUS
<1>1. /\ d \in Nat /\ g[0] = {<< <<Root, Root>> >>}
      /\ \A n \in 1 .. d : g[n] = Further(l, r, g[n - 1])
  BY <1>g, MatchesAre, DepthAssumption
<1>b. PICK base : base = << <<Root, Root>> >>
  OBVIOUS
<1>2. \A m : m \in g[0] <=> IsMatch(l, r, m) /\ Len(m) = 1
  <2>1. base \in Seq(Pair) /\ Len(base) = 1 /\ base[1] = <<Root, Root>> /\ base # << >>
    BY <1>b DEF DiffAssumption, Pair
  <2>2. IsMatch(l, r, base)
    BY <2>1 DEF IsMatch
  <2>3. ASSUME NEW m, IsMatch(l, r, m), Len(m) = 1 PROVE m = base
    <3>1. m \in Seq(Pair) /\ m[1] = <<Root, Root>>
      BY <2>3 DEF IsMatch
    <3> QED
      BY <2>1, <2>3, <3>1, SeqEqual
  <2> QED
    BY <1>1, <1>b, <2>1, <2>2, <2>3
<1>3. ASSUME NEW n \in 1 .. d, \A m : m \in g[n - 1] <=> IsMatch(l, r, m) /\ Len(m) = n
      PROVE  \A m : m \in g[n] <=> IsMatch(l, r, m) /\ Len(m) = n + 1
  <2>0. n \in Nat \ {0} /\ g[n] = Further(l, r, g[n - 1])
    BY <1>1
  <2>1. ASSUME NEW e \in g[n] PROVE IsMatch(l, r, e) /\ Len(e) = n + 1
    <3>1. PICK m \in g[n - 1] : \E q \in KidsInBoth(l, r, Matched(m)) : e = Append(m, q)
      BY <2>0 DEF Further
    <3>2. PICK q \in KidsInBoth(l, r, Matched(m)) : e = Append(m, q)
      BY <3>1
    <3>3. IsMatch(l, r, m) /\ Len(m) = n
      BY <1>3
    <3> QED
      BY <3>2, <3>3, MatchFurther
  <2>2. ASSUME NEW e, IsMatch(l, r, e), Len(e) = n + 1 PROVE e \in g[n]
    <3>1. PICK m : /\ IsMatch(l, r, m) /\ Len(m) = n
                   /\ \E q \in KidsInBoth(l, r, Matched(m)) : e = Append(m, q)
      BY <2>0, <2>2, MatchIsFurther
    <3>2. m \in g[n - 1]
      BY <1>3, <3>1
    <3> QED
      BY <2>0, <3>1, <3>2 DEF Further
  <2> QED
    BY <2>1, <2>2
<1> DEFINE T == {n \in Nat : \A m : m \in g[n] <=> IsMatch(l, r, m) /\ Len(m) = n + 1}
<1>4. 0 \in T
  BY <1>2
<1>5. ASSUME NEW n \in 0 .. d - 1, n \in T PROVE n + 1 \in T
  <2>1. n + 1 \in 1 .. d /\ n + 1 \in Nat /\ (n + 1) - 1 = n
    BY <1>1
  <2>2. \A m : m \in g[(n + 1) - 1] <=> IsMatch(l, r, m) /\ Len(m) = n + 1
    BY <1>5, <2>1
  <2>3. \A m : m \in g[n + 1] <=> IsMatch(l, r, m) /\ Len(m) = (n + 1) + 1
    BY <1>3, <2>1, <2>2
  <2> QED
    BY <2>1, <2>3
<1>6. \A n \in 0 .. d : n \in T
  <2> HIDE DEF T
  <2> QED
    BY <1>1, <1>4, <1>5, UpTo
<1> QED
  BY <1>g, <1>6

\* With no match as long as that, what is due is the difference.
LEMMA DueIsDifference ==
  ASSUME DiffAssumption, NEW l, NEW r, Comparable(l, r), Matches(l, r)[Depth] = {}
  PROVE  Due(l, r) = Difference(l, r)
<1>g. PICK g, d : g = Matches(l, r) /\ d = Depth
  OBVIOUS
<1>1. /\ d \in Nat /\ g[d] = {}
      /\ \A n \in 0 .. d : \A m : m \in g[n] <=> IsMatch(l, r, m) /\ Len(m) = n + 1
  BY <1>g, MatchesReach, DepthAssumption
<1>2. ASSUME NEW m, IsMatch(l, r, m) PROVE \E n \in 0 .. d : m \in g[n]
  <2>1. PICK n \in Nat \ {0} : n = Len(m)
    BY <1>2, MatchEnds
  <2>2. CASE n <= d
    <3>1. n - 1 \in 0 .. d /\ Len(m) = (n - 1) + 1
      BY <1>1, <2>1, <2>2
    <3> QED
      BY <1>1, <1>2, <3>1
  <2>3. CASE n > d
    <3>k. PICK k \in Nat \ {0} : k = d + 1
      BY <1>1
    <3>1. k <= n
      BY <1>1, <2>3, <3>k
    <3>e. PICK e : e = SubSeq(m, 1, k)
      OBVIOUS
    <3>2. IsMatch(l, r, e) /\ Len(e) = k
      BY <1>2, <2>1, <3>1, <3>e, MatchPrefix
    <3>3. e \in g[d]
      BY <1>1, <3>k, <3>2
    <3> QED
      BY <1>1, <3>3
  <2> QED
    BY <1>1, <2>1, <2>2, <2>3
<1>3. ASSUME NEW x \in Due(l, r) PROVE x \in Difference(l, r)
  <2>1. IsMatch(l, r, x[1]) /\ x \in DifferencesAt(l, r, x[1])
    BY DEF Due
  <2>2. PICK n \in 0 .. d : x[1] \in g[n]
    BY <1>2, <2>1
  <2> QED
    BY <1>g, <2>1, <2>2 DEF Difference
<1>4. ASSUME NEW x \in Difference(l, r) PROVE x \in Due(l, r)
  <2>1. PICK n \in 0 .. d : \E m \in g[n] : x \in DifferencesAt(l, r, m)
    BY <1>g DEF Difference
  <2>2. PICK m \in g[n] : x \in DifferencesAt(l, r, m)
    BY <2>1
  <2>3. IsMatch(l, r, m)
    BY <1>1
  <2>4. \E kind, k : x = <<m, kind, k>>
    BY <2>2 DEF DifferencesAt
  <2>5. PICK kind, k : x = <<m, kind, k>>
    BY <2>4
  <2>6. Differs(l, r, m, kind, k)
    BY <2>2, <2>5 DEF DifferencesAt, Differs, Matched
  <2> QED
    BY <2>3, <2>5, <2>6, DueIs
<1> QED
  BY <1>3, <1>4

\* The result is the difference: every difference of two comparable hives is listed once,
\* at any depth, and nothing else is.
THEOREM DiffCorrect == Spec => []DiffIsExact
<1>1. TypeOK /\ Reported => DiffIsExact
  <2> SUFFICES ASSUME TypeOK, Reported, pc = "done", WellNamed(left), WellNamed(right),
                      Matches(left, right)[Depth] = {}
               PROVE  /\ {Shown(entries[n]) : n \in DOMAIN entries} =
                           {EntryOf(left, right, d) : d \in Difference(left, right)}
                      /\ Len(entries) = Cardinality(Difference(left, right))
                      /\ \A n \in DOMAIN entries : IsInjective(entries[n].details)
    BY DEF CommonKeysEnd, DiffIsExact
  <2>1. Comparable(left, right) /\ entries \in Seq(Result)
    BY DEF TypeOK, Comparable, Result, Details, Detail
  <2>2. Listed(left, right, entries, Due(left, right))
    BY <2>1 DEF Reported
  <2>3. Due(left, right) = Difference(left, right)
    BY <2>1, DiffAssumption, DueIsDifference
  <2>Z. PICK Z : Z = Due(left, right)
    OBVIOUS
  <2>4. /\ {Shown(entries[n]) : n \in DOMAIN entries} = {EntryOf(left, right, d) : d \in Z}
        /\ Len(entries) = Cardinality(Z)
        /\ \A n \in DOMAIN entries : IsInjective(entries[n].details)
    <3>1. entries \in Seq(Result) /\ Listed(left, right, entries, Z)
      BY <2>1, <2>2, <2>Z
    <3> QED
      BY <3>1, ListedExactly
  <2> QED
    BY <2>3, <2>4, <2>Z
<1> QED
  BY <1>1, TypeCorrect, EntriesReport, PTL
=============================================================================
