---------------------------- MODULE TemplateWays ----------------------------
(***************************************************************************)
(* What a path expansion is to report: the ways down from the root that    *)
(* take the segments of the template in order, each but ** for one level.  *)
(* A way is a sequence of stages.  A stage is a key with the segments that *)
(* are behind it, and with its path, its depth and the names that variable *)
(* segments stand for so far; nth is which member of the range of the      *)
(* segment the stage was reached by, or 0 if ** gave way to the rest.      *)
(***************************************************************************)
EXTENDS PathExpansion

\* A pattern fits a name if the name can be cut into as many pieces as there
\* are letters in the pattern: one letter each, and anything for a *.
PatternFits(pat, txt) ==
  \E cut \in [1 .. Len(pat) + 1 -> 1 .. Len(txt) + 1] :
    /\ cut[1] = 1 /\ cut[Len(pat) + 1] = Len(txt) + 1
    /\ \A p \in 1 .. Len(pat) :
         IF pat[p] = Star THEN cut[p] <= cut[p + 1]
                          ELSE cut[p + 1] = cut[p] + 1 /\ pat[p] = txt[cut[p]]

\* What Key::subkey is to give for a name.
IsFirst(c, k, name) ==
  LET bears(n) == hive.name[hive.kids[k][n]] = name
      count == Len(hive.kids[k])
  IN  \/ c = NoKey /\ \A n \in 1 .. count : ~bears(n)
      \/ \E n \in 1 .. count : c = hive.kids[k][n] /\ bears(n) /\ \A m \in 1 .. n - 1 : ~bears(m)

\* r has the members of ks that are in S, those at the places at.
SelectedAt(at, r, ks, S) ==
  /\ \A m, n \in 1 .. Len(r) : m < n => at[m] < at[n]
  /\ \A n \in 1 .. Len(r) : r[n] = ks[at[n]]
  /\ \A i \in 1 .. Len(ks) : ks[i] \in S <=> \E n \in 1 .. Len(r) : at[n] = i

Selects(r, ks, S) ==
  r \in Seq(S) /\ \E at \in [1 .. Len(r) -> 1 .. Len(ks)] : SelectedAt(at, r, ks, S)

\* The children that a segment is to range over, in their order.
IsRange(r, k, s) ==
  CASE s.kind = "literal" -> \E c : IsFirst(c, k, s.name) /\ Selects(r, <<c>>, Ids)
    [] s.kind = "controlset" ->
         \E cs \in [1 .. Len(sets) -> Ids \union {NoKey}] :
           /\ \A n \in 1 .. Len(sets) : IsFirst(cs[n], k, sets[n])
           /\ Selects(r, cs, Ids)
    [] s.kind = "subkey" ->
         Selects(r, hive.kids[k],
                 {c \in Range(hive.kids[k]) : PatternFits(s.pattern, Letters[hive.name[c]])})
    [] s.kind = "deep" -> r = hive.kids[k]

Stage == [key : Ids, used : Nat, nth : Nat, path : Seq(Names), depth : Nat, bindings : Seq(Names)]

Start == [key |-> Root, used |-> 0, nth |-> 0, path |-> << >>, depth |-> 0, bindings |-> << >>]

\* The kind of the next segment, and the children of a key that it ranges over.
KindAfter(used) == template[used + 1].kind
RangeAfter(k, used) == CHOOSE r : IsRange(r, k, template[used + 1])

\* How a way may go on from a stage.
WaysOn(x) ==
  IF x.used = Len(template) THEN {}
  ELSE {i \in 0 .. Len(RangeAfter(x.key, x.used)) :
          IF i = 0 THEN KindAfter(x.used) = "deep" ELSE x.key \notin hive.kidsBad}

GivenWay(x) == [x EXCEPT !.used = @ + 1, !.nth = 0]

Below(x, i) ==
  LET child == RangeAfter(x.key, x.used)[i]
      name == hive.name[child]
  IN  [key |-> child, used |-> IF KindAfter(x.used) = "deep" THEN x.used ELSE x.used + 1, nth |-> i,
       path |-> Append(x.path, name), depth |-> x.depth + 1,
       bindings |-> IF KindAfter(x.used) = "literal" THEN x.bindings ELSE Append(x.bindings, name)]

After(x, i) == IF i = 0 THEN GivenWay(x) ELSE Below(x, i)

\* A way to the end of the template, nowhere deeper than is allowed.
IsMatch(w) ==
  /\ w \in Seq(Stage) /\ w # << >> /\ w[1] = Start
  /\ \A n \in 1 .. Len(w) - 1 : \E i \in WaysOn(w[n]) : w[n + 1] = After(w[n], i)
  /\ w[Len(w)].used = Len(template)
  /\ \A n \in 1 .. Len(w) : w[n].depth <= MAX_GLOB_DEPTH

HitOf(w) == [key |-> w[Len(w)].key, path |-> w[Len(w)].path, bindings |-> w[Len(w)].bindings]

\* The hits hs are those of the matches ws, of which no two are the same.
Reports(hs, ws) ==
  /\ ws \in Seq(Seq(Stage)) /\ Len(ws) = Len(hs)
  /\ \A n \in 1 .. Len(ws) : IsMatch(ws[n]) /\ hs[n] = HitOf(ws[n])
  /\ \A m, n \in 1 .. Len(ws) : ws[m] = ws[n] => m = n

\* An expansion that is over has reported no match twice and nothing but
\* matches; and all of them, unless there are as many as may be.
MatchesReported ==
  stack = << >> =>
    \E ws : /\ Reports(hits, ws)
            /\ ~Full => \A w : IsMatch(w) => \E n \in 1 .. Len(ws) : ws[n] = w
=============================================================================
