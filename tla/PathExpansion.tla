--------------------------- MODULE PathExpansion ---------------------------
(***************************************************************************)
(* Expanding a catalog path: expand and walk                               *)
(* (winreg-artifacts/src/path_expansion.rs).  The recursion of walk is a   *)
(* stack of frames, one call each; the vector of bindings is shared by all *)
(* calls, which push and pop it.                                           *)
(*                                                                         *)
(* A name stands for its upper-case form.  A segment of the template is    *)
(*   literal     one name                                                  *)
(*   controlset  CurrentControlSet                                         *)
(*   subkey      a pattern with *, as a sequence of letters                *)
(*   deep        a pattern with **                                         *)
(***************************************************************************)
EXTENDS HiveTree, SequencesExt

CONSTANTS
  Letters,     \* the letters of each name, in lower case
  Star,        \* the letter *
  NoNumber,    \* Select\Current is absent or cannot be read
  SetName,     \* "ControlSet%03d" of each control set number
  NoResolver,  \* expand is called without a ControlSetResolver
  MAX_GLOB_DEPTH,
  MAX_GLOB_MATCHES,
  Inputs       \* [hive, template, sets]

IsSegment(s) ==
  /\ s.kind \in {"literal", "controlset", "subkey", "deep"}
  /\ s.kind = "literal" => s.name \in Names
  /\ s.kind = "subkey" => Len(s.pattern) \in Nat /\ DOMAIN s.pattern = 1 .. Len(s.pattern)

IsTemplate(t) == Len(t) \in Nat /\ DOMAIN t = 1 .. Len(t) /\ \A n \in DOMAIN t : IsSegment(t[n])

ASSUME ExpansionAssumption ==
  /\ Root \in Ids /\ NoKey \notin Ids
  /\ MAX_GLOB_DEPTH \in Nat /\ MAX_GLOB_MATCHES \in Nat
  /\ SetName[1] \in Names
  /\ \A name \in Names : Len(Letters[name]) \in Nat
  /\ \A i \in Inputs : /\ IsHive(i.hive) /\ IsTemplate(i.template)
                       /\ i.sets \in Seq(Names) \union {NoResolver}

VARIABLES
  hive,      \* names, subkeys, and the keys whose subkeys cannot be read
  template,  \* the segments
  sets,      \* the names of the control sets that are active
  stack,     \* the calls of walk: [key, used, path, depth, at, kids, bound]
  matched,   \* matches so far
  bindings,  \* the names that variable segments stand for at present
  hits       \* what emit was called with: [key, path, bindings]

vars == <<hive, template, sets, stack, matched, bindings, hits>>

\* current_control_set_number, before the test for 0.
SelectCurrent(h) ==
  LET select == Subkey(h, Root, "SELECT")
      current == ValueNamed(h, select, "CURRENT")
  IN  IF select # NoKey /\ Readable(current) THEN AsU32(current) ELSE NoNumber

\* resolve_control_sets: number 0 counts as unreadable.
Resolved(current) ==
  <<IF current \in {NoNumber, 0} THEN SetName[1] ELSE SetName[current]>>

\* A call of walk for a key: used segments of the template are behind it, and
\* its key was reached through a variable segment if it is bound.
Call(k, used, path, depth, bound) ==
  [key |-> k, used |-> used, path |-> path, depth |-> depth,
   at |-> "enter", kids |-> << >>, bound |-> bound]

Init ==
  /\ \E i \in Inputs :
       /\ hive = i.hive /\ template = i.template
       /\ sets = IF i.sets = NoResolver THEN <<SetName[1]>> ELSE i.sets
  /\ stack = <<Call(Root, 0, << >>, 0, FALSE)>>
  /\ matched = 0
  /\ bindings = << >>
  /\ hits = << >>

Top == stack[Len(stack)]
At(stage) == stack # << >> /\ Top.at = stage
Finished == Top.used = Len(template)
Segment == template[Top.used + 1]

\* The call is over, and with it the binding its caller has pushed for it.
Return ==
  /\ stack' = Front(stack)
  /\ bindings' = IF Top.bound THEN Front(bindings) ELSE bindings

\* Mutant: one match too many.
FullLate == matched > MAX_GLOB_MATCHES

Full == matched >= MAX_GLOB_MATCHES

\* Mutant: no limit to the depth.
RefusedWhenFull == At("enter") /\ Full

Refused == At("enter") /\ (Full \/ Top.depth > MAX_GLOB_DEPTH)

Refuse ==
  /\ Refused
  /\ Return
  /\ UNCHANGED <<hive, template, sets, matched, hits>>

\* No segment is left: the key is a match.
EmitMatch ==
  /\ At("enter") /\ ~Refused /\ Finished
  /\ matched' = matched + 1
  /\ hits' = Append(hits, [key |-> Top.key, path |-> Top.path, bindings |-> bindings])
  /\ Return
  /\ UNCHANGED <<hive, template, sets>>

\* Mutant: after a mismatch the text is not taken up again behind the mark.
GlobMatchForward(pat, txt) ==
  LET glob[p \in 1 .. Len(pat) + 1, t \in 1 .. Len(txt) + 1, star \in 0 .. Len(pat)] ==
        CASE t > Len(txt) -> \A n \in p .. Len(pat) : pat[n] = Star
          [] t <= Len(txt) /\ p <= Len(pat) /\ pat[p] = Star -> glob[p + 1, t, p]
          [] t <= Len(txt) /\ p <= Len(pat) /\ pat[p] \notin {Star} /\ pat[p] = txt[t]
               -> glob[p + 1, t + 1, star]
          [] OTHER -> star # 0 /\ glob[star + 1, t + 1, star]
  IN  glob[1, 1, 0]

\* glob_match: the places in pattern and text, the last * met (0 for none) and
\* the place in the text up to which that * has been stretched.
GlobCursors(pat, txt) ==
  {c \in [p : 1 .. Len(pat) + 1, t : 1 .. Len(txt) + 1, star : 0 .. Len(pat), mark : 1 .. Len(txt) + 1] :
     c.mark <= c.t}

GlobMatch(pat, txt) ==
  LET isStar(c) == c.p <= Len(pat) /\ pat[c.p] = Star
      same(c) == c.p <= Len(pat) /\ pat[c.p] = txt[c.t]
      glob[c \in GlobCursors(pat, txt)] ==
        CASE c.t > Len(txt) -> \A n \in c.p .. Len(pat) : pat[n] = Star
          [] c.t <= Len(txt) /\ isStar(c) -> glob[[p |-> c.p + 1, t |-> c.t, star |-> c.p, mark |-> c.t]]
          [] c.t <= Len(txt) /\ ~isStar(c) /\ same(c) -> glob[[c EXCEPT !.p = @ + 1, !.t = @ + 1]]
          [] OTHER -> c.star # 0 /\ glob[[p |-> c.star + 1, t |-> c.mark + 1,
                                           star |-> c.star, mark |-> c.mark + 1]]
  IN  glob[[p |-> 1, t |-> 1, star |-> 0, mark |-> 1]]

\* The members of a sequence that are in S, in their order.
Keeping(ks, S) == FlattenSeq([n \in DOMAIN ks |-> IF ks[n] \in S THEN <<ks[n]>> ELSE << >>])

\* The children a pattern with * ranges over.
Matching(k, pat) ==
  Keeping(hive.kids[k], {c \in Range(hive.kids[k]) : GlobMatch(pat, Letters[hive.name[c]])})

\* The children that are active control sets.
OfSets(k) == Keeping([n \in DOMAIN sets |-> FirstNamed(hive, k, sets[n])], Ids)

\* Mutant: every child of that name.
DomainWithoutBreak(k, s) ==
  CASE s.kind = "literal" -> Keeping(hive.kids[k], {c \in Ids : hive.name[c] = s.name})
    [] s.kind = "controlset" -> OfSets(k)
    [] s.kind = "subkey" -> Matching(k, s.pattern)
    [] s.kind = "deep" -> hive.kids[k]

\* The children of a key that a segment ranges over, in the order of the walk.
Domain(k, s) ==
  CASE s.kind = "literal" -> Keeping(<<FirstNamed(hive, k, s.name)>>, Ids)
    [] s.kind = "controlset" -> OfSets(k)
    [] s.kind = "subkey" -> Matching(k, s.pattern)
    [] s.kind = "deep" -> hive.kids[k]

\* Mutant: ** does not give way to the rest of the template.
MatchNoLevelAgain ==
  /\ At("enter") /\ ~Refused /\ ~Finished /\ Segment.kind = "deep"
  /\ stack' = Append(Front(stack) \o <<[Top EXCEPT !.at = "below"]>>,
                     Call(Top.key, Top.used, Top.path, Top.depth, FALSE))
  /\ UNCHANGED <<hive, template, sets, matched, bindings, hits>>

\* ** matches no level: the rest of the template is tried on the same key.
MatchNoLevel ==
  /\ At("enter") /\ ~Refused /\ ~Finished /\ Segment.kind = "deep"
  /\ stack' = Append(Front(stack) \o <<[Top EXCEPT !.at = "below"]>>,
                     Call(Top.key, Top.used + 1, Top.path, Top.depth, FALSE))
  /\ UNCHANGED <<hive, template, sets, matched, bindings, hits>>

\* The point at which a call reads the children of its key.
AtChildren ==
  \/ At("enter") /\ ~Refused /\ ~Finished /\ Segment.kind # "deep"
  \/ At("below")

ReadChildren ==
  /\ AtChildren /\ Top.key \notin hive.kidsBad
  /\ stack' = Front(stack) \o <<[Top EXCEPT !.at = "loop", !.kids = Domain(Top.key, Segment)]>>
  /\ UNCHANGED <<hive, template, sets, matched, bindings, hits>>

\* Mutant: children that cannot be read are read again.
ChildrenRetried ==
  /\ AtChildren /\ Top.key \in hive.kidsBad
  /\ UNCHANGED vars

ChildrenUnreadable ==
  /\ AtChildren /\ Top.key \in hive.kidsBad
  /\ Return
  /\ UNCHANGED <<hive, template, sets, matched, hits>>

\* The loops over a variable segment stop when the matches are full.
MayDescend == At("loop") /\ Top.kids # << >> /\ (Segment.kind = "literal" \/ ~Full)

Descend ==
  /\ MayDescend
  /\ LET child == Head(Top.kids)
         name == hive.name[child]
         bound == Segment.kind # "literal"
     IN  /\ stack' = Append(Front(stack) \o <<[Top EXCEPT !.kids = Tail(@)]>>,
                            Call(child, IF Segment.kind = "deep" THEN Top.used ELSE Top.used + 1,
                                 Append(Top.path, name), Top.depth + 1, bound))
         /\ bindings' = IF bound THEN Append(bindings, name) ELSE bindings
  /\ UNCHANGED <<hive, template, sets, matched, hits>>

EndLoop ==
  /\ At("loop") /\ ~MayDescend
  /\ Return
  /\ UNCHANGED <<hive, template, sets, matched, hits>>

Next == \/ Refuse \/ EmitMatch
        \/ MatchNoLevel \/ ReadChildren \/ ChildrenUnreadable
        \/ Descend \/ EndLoop

Spec == Init /\ [][Next]_vars

\* expand is one call that nothing blocks.
FairSpec == Spec /\ WF_vars(Next)

-----------------------------------------------------------------------------
Frame == [key : Ids, used : 0 .. Len(template), path : Seq(Names),
          depth : 0 .. MAX_GLOB_DEPTH + 1, at : {"enter", "below", "loop"},
          kids : Seq(Ids), bound : BOOLEAN]

Hit == [key : Ids, path : Seq(Names), bindings : Seq(Names)]

\* Types of the walk; a call that is past its start has a segment to work on.
TypeOK ==
  /\ IsHive(hive) /\ IsTemplate(template) /\ sets \in Seq(Names)
  /\ stack \in Seq(Frame)
  /\ \A n \in 1 .. Len(stack) : stack[n].at # "enter" => stack[n].used < Len(template)
  /\ matched \in Nat
  /\ bindings \in Seq(Names)
  /\ hits \in Seq(Hit)

\* "Maximum number of concrete keys a single template may expand to": the cap
\* is looked at in two places of walk, and passed along by reference.
MatchesCapped == Len(hits) = matched /\ Len(hits) <= MAX_GLOB_MATCHES

\* "this bounds the recursion": walk is never nested deeper than the cap and
\* the length of the template allow, although ** recurses without a level.
RecursionBounded == Len(stack) <= MAX_GLOB_DEPTH + Len(template) + 2

\* Every call of expand returns, also where keys list their ancestors.
ExpandReturns == stack # << >> ~> stack = << >>
=============================================================================
