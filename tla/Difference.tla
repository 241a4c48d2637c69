----------------------------- MODULE Difference -----------------------------
(***************************************************************************)
(* What comparing two hives should report, defined without the comparison: *)
(* keys are matched by name from the roots downwards, and what differs is  *)
(* what a matched pair of keys has different values in and the subkeys one *)
(* of them has alone.                                                      *)
(***************************************************************************)
EXTENDS Diff, Functions

CONSTANT Depth      \* keys are matched no deeper

ASSUME DepthAssumption == Depth \in Nat

\* No two subkeys of a key and no two values of a key have the same name in
\* upper case.
WellNamed(h) ==
  \A k \in Ids : IsInjective(UpsK(h, h.kids[k])) /\ IsInjective(UpsV(h.vals[k]))

\* The subkeys and values of a key, and their names in upper case.
Kids(h, k) == Range(h.kids[k])
KidUps(h, k) == Range(UpsK(h, h.kids[k]))
Vals(h, k) == Range(h.vals[k])
ValUps(h, k) == Range(UpsV(h.vals[k]))

-----------------------------------------------------------------------------
\* A match is the way from the roots to two keys of the same path: the pairs
\* of keys of the same name in upper case.
KidsInBoth(l, r, p) ==
  {q \in Kids(l, p[1]) \X Kids(r, p[2]) : l.name[q[1]].up = r.name[q[2]].up}

Matched(m) == m[Len(m)]

Further(l, r, ms) ==
  UNION {{Append(m, q) : q \in KidsInBoth(l, r, Matched(m))} : m \in ms}

Matches(l, r) ==
  LET down[n \in 0 .. Depth] ==
        IF n = 0 THEN {<< <<Root, Root>> >>} ELSE Further(l, r, down[n - 1])
  IN  down

\* The path that is reported: the names of the left hive below the root.
PathTo(l, m) == [n \in 1 .. Len(m) - 1 |-> l.name[m[n + 1][1]]]

\* How the values of the two keys of a match differ.
ValueChanges(l, r, p) ==
  LET L == Vals(l, p[1])
      R == Vals(r, p[2])
  IN  {ValueDiff(v.name, "Removed") : v \in {x \in L : x.name.up \notin ValUps(r, p[2])}}
        \union {ValueDiff(v.name, "Added") : v \in {x \in R : x.name.up \notin ValUps(l, p[1])}}
        \union {ValueDiff(v.name, "Changed") :
                  v \in {x \in L : \E y \in R : /\ x.name.up = y.name.up
                                                /\ x.data # y.data \/ x.type # y.type}}

\* A difference is a match, what is reported there and the key it is about.
\* What is below a key of one hive alone is not listed.
DifferencesAt(l, r, m) ==
  LET p == Matched(m)
  IN  {<<m, "KeyModified", k>> : k \in {j \in {p[1]} : ValueChanges(l, r, p) # {}}}
        \union {<<m, "KeyRemoved", k>> : k \in {j \in Kids(l, p[1]) :
                                                  l.name[j].up \notin KidUps(r, p[2])}}
        \union {<<m, "KeyAdded", k>> : k \in {j \in Kids(r, p[2]) :
                                                r.name[j].up \notin KidUps(l, p[1])}}

Difference(l, r) ==
  UNION {UNION {DifferencesAt(l, r, m) : m \in Matches(l, r)[n]} : n \in 0 .. Depth}

\* The entry that reports it, its details as a set: the root goes by its name.
EntryOf(l, r, d) ==
  LET path == PathTo(l, d[1])
  IN  CASE d[2] = "KeyModified" ->
             Entry(IF path = << >> THEN <<l.name[d[3]]>> ELSE path,
                   "KeyModified", ValueChanges(l, r, Matched(d[1])))
        [] d[2] = "KeyRemoved" -> Entry(Append(path, l.name[d[3]]), "KeyRemoved", {})
        [] d[2] = "KeyAdded" -> Entry(Append(path, r.name[d[3]]), "KeyAdded", {})

Shown(e) == [e EXCEPT !.details = Range(@)]

\* The keys that two hives have in common end above Depth: for some Depth they do
\* if either hive is a tree, whatever the other one is.
CommonKeysEnd(l, r) == Matches(l, r)[Depth] = {}

\* The result is the difference: every change is listed once and nothing else
\* is, keys and values being matched by name without regard to case, in hives
\* without siblings of one name and of which Depth reaches all matches.
DiffIsExact ==
  pc = "done" /\ WellNamed(left) /\ WellNamed(right) /\ CommonKeysEnd(left, right)
    => /\ {Shown(entries[n]) : n \in DOMAIN entries} =
            {EntryOf(left, right, d) : d \in Difference(left, right)}
       /\ Len(entries) = Cardinality(Difference(left, right))
       /\ \A n \in DOMAIN entries : IsInjective(entries[n].details)

\* A comparison ends if the keys that the two hives have in common do, also
\* where the subkeys of one hive lead back to a key above them, and whatever
\* cannot be read.  If those of both do, under the same names,
\* diff_key_recursive goes down for ever.
DiffReturns == CommonKeysEnd(left, right) ~> pc \in {"done", "failed"}
=============================================================================
