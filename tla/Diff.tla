-------------------------------- MODULE Diff --------------------------------
(***************************************************************************)
(* Comparing two hives: diff_hives, diff_key_recursive, diff_values and    *)
(* merge_join_subkeys (winreg-diff/src/engine.rs).  The recursion is a     *)
(* stack of frames, one merge join each; the merge joins are steps.        *)
(*                                                                         *)
(* A name is its upper-case form, which orders and matches, and a spelling *)
(* that is only reported.  A hive is its keys by number: their names, the  *)
(* values and subkeys that values() and subkeys() return, and the keys for *)
(* which these two fail.  A path is the sequence of names below the root.  *)
(***************************************************************************)
EXTENDS Integers, Sequences, FiniteSets

CONSTANTS
  Ids,      \* the numbers of keys
  Root,     \* the number of the root key
  NoData,   \* the data of a value that cannot be read: Vec::default()
  Names,    \* [up, spelling]
  Pairs     \* the pairs of hives that may be compared

IsName(n) == n \in Names /\ n.up \in Int

Value == [name : Names, type : Int, data : Int \union {NoData}]

IsHive(h) ==
  /\ h.rootOk \in BOOLEAN
  /\ \A k \in Ids : /\ h.name[k] \in Names
                    /\ h.vals[k] \in Seq(Value)
                    /\ h.kids[k] \in Seq(Ids)
  /\ h.valsBad \subseteq Ids /\ h.kidsBad \subseteq Ids

ASSUME DiffAssumption ==
  /\ Root \in Ids
  /\ \A n \in Names : IsName(n)
  /\ \A p \in Pairs : IsHive(p[1]) /\ IsHive(p[2])

VARIABLES
  left, right,   \* the hives
  pc,            \* "start", "enter", "values", "merge", "done" or "failed"
  pair,          \* the keys being compared and their path: [l, r, path]
  lvals, rvals,  \* the values of the pair that are still to be merged
  diffs,         \* value_diffs
  stack,         \* the merge joins under way: [path, ls, rs]
  entries,       \* the entries of the result
  stats          \* its DiffStats

vars == <<left, right, pc, pair, lvals, rvals, diffs, stack, entries, stats>>

NoStats == [keys_added |-> 0, keys_removed |-> 0, keys_modified |-> 0,
            values_added |-> 0, values_removed |-> 0, values_changed |-> 0]

-----------------------------------------------------------------------------
\* sort_by on upper-case names, which is stable: an element goes behind the
\* smaller ones and behind its equals that stood before it.
Place(ups, n) ==
  Cardinality({m \in DOMAIN ups : ups[m] < ups[n] \/ (ups[m] = ups[n] /\ m <= n)})

Sorted(s, ups) ==
  [k \in 1 .. Len(s) |-> s[CHOOSE n \in DOMAIN s : Place(ups, n) = k]]

\* The names that sort and comparison go by.
UpsV(vs) == [n \in DOMAIN vs |-> vs[n].name.up]
UpsK(h, ks) == [n \in DOMAIN ks |-> h.name[ks[n]].up]

SortedValues(vs) == Sorted(vs, UpsV(vs))

SortedKeys(h, ks) == Sorted(ks, UpsK(h, ks))

\* match left_name.cmp(&right_name), with a side that is used up sorted last:
\* the loops over what remains.
Both(us, vs) == us # << >> /\ vs # << >> /\ Head(us) = Head(vs)
OnlyLeft(us, vs) == us # << >> /\ (vs # << >> => Head(us) < Head(vs))
OnlyRight(us, vs) == vs # << >> /\ (us # << >> => Head(vs) < Head(us))

-----------------------------------------------------------------------------
Init ==
  /\ \E p \in Pairs : left = p[1] /\ right = p[2]
  /\ pc = "start"
  /\ pair = [l |-> Root, r |-> Root, path |-> << >>]
  /\ lvals = << >> /\ rvals = << >> /\ diffs = << >>
  /\ stack = << >>
  /\ entries = << >> /\ stats = NoStats

\* An error on either side ends the call and drops what was found.
Fail ==
  /\ pc' = "failed"
  /\ entries' = << >> /\ stats' = NoStats
  /\ UNCHANGED <<left, right, pair, lvals, rvals, diffs, stack>>

BeginDiff ==
  /\ pc = "start" /\ left.rootOk /\ right.rootOk
  /\ pc' = "enter"
  /\ UNCHANGED <<left, right, pair, lvals, rvals, diffs, stack, entries, stats>>

RootUnreadable == pc = "start" /\ ~(left.rootOk /\ right.rootOk) /\ Fail

\* diff_values reads and sorts the values of both keys.
ReadValues ==
  /\ pc = "enter" /\ pair.l \notin left.valsBad /\ pair.r \notin right.valsBad
  /\ lvals' = SortedValues(left.vals[pair.l])
  /\ rvals' = SortedValues(right.vals[pair.r])
  /\ diffs' = << >>
  /\ pc' = "values"
  /\ UNCHANGED <<left, right, pair, stack, entries, stats>>

ValuesUnreadable ==
  /\ pc = "enter" /\ (pair.l \in left.valsBad \/ pair.r \in right.valsBad)
  /\ Fail

ValueDiff(name, kind) == [name |-> name, kind |-> kind]

\* Mutant: the types are not compared.
ValueInBothUntyped ==
  /\ pc = "values" /\ Both(UpsV(lvals), UpsV(rvals))
  /\ diffs' = IF Head(lvals).data # Head(rvals).data
                THEN Append(diffs, ValueDiff(Head(lvals).name, "Changed"))
                ELSE diffs
  /\ lvals' = Tail(lvals) /\ rvals' = Tail(rvals)
  /\ UNCHANGED <<left, right, pc, pair, stack, entries, stats>>

\* The two values of one name: changed if data or type differ.
ValueInBoth ==
  /\ pc = "values" /\ Both(UpsV(lvals), UpsV(rvals))
  /\ diffs' = IF Head(lvals).data # Head(rvals).data \/ Head(lvals).type # Head(rvals).type
                THEN Append(diffs, ValueDiff(Head(lvals).name, "Changed"))
                ELSE diffs
  /\ lvals' = Tail(lvals) /\ rvals' = Tail(rvals)
  /\ UNCHANGED <<left, right, pc, pair, stack, entries, stats>>

ValueRemoved ==
  /\ pc = "values" /\ OnlyLeft(UpsV(lvals), UpsV(rvals))
  /\ diffs' = Append(diffs, ValueDiff(Head(lvals).name, "Removed"))
  /\ lvals' = Tail(lvals)
  /\ UNCHANGED <<left, right, pc, pair, rvals, stack, entries, stats>>

ValueAdded ==
  /\ pc = "values" /\ OnlyRight(UpsV(lvals), UpsV(rvals))
  /\ diffs' = Append(diffs, ValueDiff(Head(rvals).name, "Added"))
  /\ rvals' = Tail(rvals)
  /\ UNCHANGED <<left, right, pc, pair, lvals, stack, entries, stats>>

Entry(path, kind, details) == [path |-> path, kind |-> kind, details |-> details]

OfKind(ds, kind) == Cardinality({n \in DOMAIN ds : ds[n].kind = kind})

\* The root has no path below itself and goes by its name.
PathOfPair == IF pair.path = << >> THEN <<left.name[pair.l]>> ELSE pair.path

\* The values are merged: an entry if they differ, then both keys' subkeys are
\* read, sorted and joined.
EnterSubkeys ==
  /\ pc = "values" /\ lvals = << >> /\ rvals = << >>
  /\ pair.l \notin left.kidsBad /\ pair.r \notin right.kidsBad
  /\ IF diffs # << >>
       THEN /\ entries' = Append(entries, Entry(PathOfPair, "KeyModified", diffs))
            /\ stats' = [stats EXCEPT !.keys_modified = @ + 1,
                                      !.values_added = @ + OfKind(diffs, "Added"),
                                      !.values_removed = @ + OfKind(diffs, "Removed"),
                                      !.values_changed = @ + OfKind(diffs, "Changed")]
       ELSE UNCHANGED <<entries, stats>>
  /\ stack' = Append(stack, [path |-> pair.path,
                             ls |-> SortedKeys(left, left.kids[pair.l]),
                             rs |-> SortedKeys(right, right.kids[pair.r])])
  /\ pc' = "merge"
  /\ UNCHANGED <<left, right, pair, lvals, rvals, diffs>>

\* Mutant: subkeys that cannot be read are read again.
SubkeysRetried ==
  /\ pc = "values" /\ lvals = << >> /\ rvals = << >>
  /\ pair.l \in left.kidsBad \/ pair.r \in right.kidsBad
  /\ UNCHANGED vars

SubkeysUnreadable ==
  /\ pc = "values" /\ lvals = << >> /\ rvals = << >>
  /\ pair.l \in left.kidsBad \/ pair.r \in right.kidsBad
  /\ Fail

Top == stack[Len(stack)]
Below == SubSeq(stack, 1, Len(stack) - 1)

\* A key in both hives: recurse, and go on behind it afterwards.
KeyInBoth ==
  /\ pc = "merge" /\ Both(UpsK(left, Top.ls), UpsK(right, Top.rs))
  /\ pair' = [l |-> Head(Top.ls), r |-> Head(Top.rs),
              path |-> Append(Top.path, left.name[Head(Top.ls)])]
  /\ stack' = Append(Below, [Top EXCEPT !.ls = Tail(@), !.rs = Tail(@)])
  /\ pc' = "enter"
  /\ UNCHANGED <<left, right, lvals, rvals, diffs, entries, stats>>

KeyRemoved ==
  /\ pc = "merge" /\ OnlyLeft(UpsK(left, Top.ls), UpsK(right, Top.rs))
  /\ entries' = Append(entries, Entry(Append(Top.path, left.name[Head(Top.ls)]),
                                      "KeyRemoved", << >>))
  /\ stats' = [stats EXCEPT !.keys_removed = @ + 1]
  /\ stack' = Append(Below, [Top EXCEPT !.ls = Tail(@)])
  /\ UNCHANGED <<left, right, pc, pair, lvals, rvals, diffs>>

\* Mutant: the counter of the case above.
KeyAddedMiscounted ==
  /\ pc = "merge" /\ OnlyRight(UpsK(left, Top.ls), UpsK(right, Top.rs))
  /\ entries' = Append(entries, Entry(Append(Top.path, right.name[Head(Top.rs)]),
                                      "KeyAdded", << >>))
  /\ stats' = [stats EXCEPT !.keys_removed = @ + 1]
  /\ stack' = Append(Below, [Top EXCEPT !.rs = Tail(@)])
  /\ UNCHANGED <<left, right, pc, pair, lvals, rvals, diffs>>

KeyAdded ==
  /\ pc = "merge" /\ OnlyRight(UpsK(left, Top.ls), UpsK(right, Top.rs))
  /\ entries' = Append(entries, Entry(Append(Top.path, right.name[Head(Top.rs)]),
                                      "KeyAdded", << >>))
  /\ stats' = [stats EXCEPT !.keys_added = @ + 1]
  /\ stack' = Append(Below, [Top EXCEPT !.rs = Tail(@)])
  /\ UNCHANGED <<left, right, pc, pair, lvals, rvals, diffs>>

\* Mutants: what remains of one side is dropped; the root's join has no caller.
LeaveKeyEarly ==
  /\ pc = "merge" /\ (Top.ls = << >> \/ Top.rs = << >>)
  /\ stack' = Below
  /\ pc' = IF Len(stack) = 1 THEN "done" ELSE "merge"
  /\ UNCHANGED <<left, right, pair, lvals, rvals, diffs, entries, stats>>
LeaveKeyUpwards ==
  /\ pc = "merge" /\ Top.ls = << >> /\ Top.rs = << >>
  /\ stack' = Below
  /\ UNCHANGED <<left, right, pc, pair, lvals, rvals, diffs, entries, stats>>

\* Return to the caller: the merge join one level up, or diff_hives.
LeaveKey ==
  /\ pc = "merge" /\ Top.ls = << >> /\ Top.rs = << >>
  /\ stack' = Below
  /\ pc' = IF Len(stack) = 1 THEN "done" ELSE "merge"
  /\ UNCHANGED <<left, right, pair, lvals, rvals, diffs, entries, stats>>

Next == \/ BeginDiff \/ RootUnreadable
        \/ ReadValues \/ ValuesUnreadable
        \/ ValueInBoth \/ ValueRemoved \/ ValueAdded
        \/ EnterSubkeys \/ SubkeysUnreadable
        \/ KeyInBoth \/ KeyRemoved \/ KeyAdded \/ LeaveKey

Spec == Init /\ [][Next]_vars

-----------------------------------------------------------------------------
Kinds == {"KeyAdded", "KeyRemoved", "KeyModified"}
ValueKinds == {"Added", "Removed", "Changed"}
Details == Seq([name : Names, kind : ValueKinds])
Path == Seq(Names)

\* Types of the comparison.
TypeOK ==
  /\ IsHive(left) /\ IsHive(right)
  /\ pc \in {"start", "enter", "values", "merge", "done", "failed"}
  /\ pair \in [l : Ids, r : Ids, path : Path]
  /\ lvals \in Seq(Value) /\ rvals \in Seq(Value)
  /\ diffs \in Details
  /\ stack \in Seq([path : Path, ls : Seq(Ids), rs : Seq(Ids)])
  /\ pc = "merge" => stack # << >>
  /\ entries \in Seq([path : Path, kind : Kinds, details : Details])
  /\ stats \in [DOMAIN NoStats -> Nat]

\* The statistics are those of the entries, at every moment: the counters are
\* kept beside the list in four places and never recomputed.
EntriesOf(kind) == Cardinality({n \in DOMAIN entries : entries[n].kind = kind})
DetailsOf(kind) ==
  Cardinality(UNION {{<<n, m>> : m \in {x \in DOMAIN entries[n].details :
                                         entries[n].details[x].kind = kind}} :
                       n \in DOMAIN entries})

StatsAgree ==
  /\ stats.keys_added = EntriesOf("KeyAdded")
  /\ stats.keys_removed = EntriesOf("KeyRemoved")
  /\ stats.keys_modified = EntriesOf("KeyModified")
  /\ stats.values_added = DetailsOf("Added")
  /\ stats.values_removed = DetailsOf("Removed")
  /\ stats.values_changed = DetailsOf("Changed")

\* No subkey is lost or compared twice, whatever the names are: what is listed
\* as added or removed at the top accounts for the subkeys of the roots.
AtTop(kind) == Cardinality({n \in DOMAIN entries :
                              entries[n].kind = kind /\ Len(entries[n].path) = 1})
EveryKeyAccounted ==
  pc = "done" =>
    Len(left.kids[Root]) - AtTop("KeyRemoved") = Len(right.kids[Root]) - AtTop("KeyAdded")
=============================================================================
