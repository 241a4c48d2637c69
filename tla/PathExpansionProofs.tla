------------------------ MODULE PathExpansionProofs ------------------------
(***************************************************************************)
(* The types and the two caps of a path expansion, for every hive and      *)
(* every template: on the matches, and on the nesting of walk; and that it *)
(* reports the matches of the template, each once.  Then the caps in the   *)
(* scans of CatalogScan, which start one walk after another.               *)
(* Last, what is found in a SYSTEM hive, whatever the hive: the lookups of *)
(* the running control set agree, the services are classified by what      *)
(* their values say, and the shimcache is read entry by entry.             *)
(***************************************************************************)
EXTENDS CatalogScan, TemplateWays, SystemFindings, CacheBlobs, DataLemmas, FiniteSetTheorems

\* A call, at place n of the stack: each call is one level or one segment
\* further than the one that makes it, and one that is past the test of the
\* depth has a segment left.
IsCall(f, n) ==
  /\ DOMAIN f = {"key", "used", "path", "depth", "at", "kids", "bound"}
  /\ f.used \in 0 .. Len(template)
  /\ f.depth \in 0 .. MAX_GLOB_DEPTH + 1
  /\ f.at # "enter" => f.used < Len(template) /\ f.depth <= MAX_GLOB_DEPTH
  /\ f.depth + f.used >= n - 1

IsStack(s) ==
  /\ \E S : s \in Seq(S)
  /\ \A n \in 1 .. Len(s) : IsCall(s[n], n)

IInv ==
  /\ Len(template) \in Nat
  /\ IsStack(stack)
  /\ matched \in Nat
  /\ \E S : hits \in Seq(S)
  /\ MatchesCapped

\* The stack without the call that returns.
LEMMA Popped ==
  ASSUME NEW s, IsStack(s), s # << >>
  PROVE  /\ IsStack(Front(s))
         /\ Len(Front(s)) = Len(s) - 1
         /\ IsCall(s[Len(s)], Len(s))
         /\ Len(s) \in Nat \ {0}
  <1>1. PICK S : s \in Seq(S)
    BY DEF IsStack
  <1>2. Len(s) \in Nat \ {0}
    BY <1>1
  <1>3. /\ Front(s) \in Seq(S) /\ Len(Front(s)) = Len(s) - 1
        /\ \A n \in 1 .. Len(s) - 1 : Front(s)[n] = s[n]
    BY <1>1, <1>2 DEF Front
  <1>. QED
    BY <1>2, <1>3 DEF IsStack

\* The stack with one call more.
LEMMA Pushed ==
  ASSUME NEW s, IsStack(s), NEW f, IsCall(f, Len(s) + 1)
  PROVE  IsStack(Append(s, f)) /\ Len(Append(s, f)) = Len(s) + 1
  <1>1. PICK S : s \in Seq(S)
    BY DEF IsStack
  <1>. DEFINE T == S \union {f}
  <1>2. s \in Seq(T) /\ f \in T
    BY <1>1, SeqMonotonic
  <1>. HIDE DEF T
  <1>3. /\ Append(s, f) \in Seq(T) /\ Len(Append(s, f)) = Len(s) + 1 /\ Len(s) \in Nat
        /\ \A n \in 1 .. Len(s) : Append(s, f)[n] = s[n]
        /\ Append(s, f)[Len(s) + 1] = f
    BY <1>2
  <1>. QED
    BY <1>3 DEF IsStack

\* The stack whose uppermost call is f now.
LEMMA Replaced ==
  ASSUME NEW s, IsStack(s), s # << >>, NEW f, IsCall(f, Len(s))
  PROVE  /\ IsStack(Front(s) \o <<f>>)
         /\ Len(Front(s) \o <<f>>) = Len(s)
  <1>1. IsStack(Front(s)) /\ Len(Front(s)) = Len(s) - 1 /\ Len(s) \in Nat \ {0}
    BY Popped
  <1>2. IsStack(Append(Front(s), f)) /\ Len(Append(Front(s), f)) = Len(s)
    BY <1>1, Pushed
  <1>3. Front(s) \o <<f>> = Append(Front(s), f)
    <2>1. PICK S : Front(s) \in Seq(S)
      BY <1>1 DEF IsStack
    <2>. DEFINE T == S \union {f}
    <2>2. Front(s) \in Seq(T) /\ f \in T
      BY <2>1, SeqMonotonic
    <2>. HIDE DEF T
    <2>. QED
      BY <2>2
  <1>. QED
    BY <1>2, <1>3

\* A new call is at the test of the depth.
LEMMA Called ==
  ASSUME NEW k, NEW used \in 0 .. Len(template), NEW path,
         NEW depth \in 0 .. MAX_GLOB_DEPTH + 1, NEW bound,
         NEW n \in Nat, depth + used >= n - 1
  PROVE  IsCall(Call(k, used, path, depth, bound), n)
  <1>. DEFINE c == Call(k, used, path, depth, bound)
  <1>1. /\ DOMAIN c = {"key", "used", "path", "depth", "at", "kids", "bound"}
        /\ c.used = used /\ c.depth = depth /\ c.at = "enter"
    BY DEF Call
  <1>. HIDE DEF c
  <1>2. IsCall(c, n)
    BY <1>1 DEF IsCall
  <1>. QED
    BY <1>2 DEF c

\* A walk that is not under way, or at its first call: expand calls walk once,
\* for the root.
Fresh ==
  /\ Len(template) \in Nat
  /\ stack \in {<< >>, <<Call(Root, 0, << >>, 0, FALSE)>>}
  /\ matched = 0 /\ hits = << >>

LEMMA FreshInv == Fresh => IInv
  <1>. SUFFICES ASSUME Fresh PROVE IInv
    OBVIOUS
  <1>. DEFINE f == Call(Root, 0, << >>, 0, FALSE)
  <1>0. Len(template) \in Nat /\ matched = 0 /\ hits = << >>
    BY DEF Fresh
  <1>1. IsCall(f, 1)
    BY <1>0, ExpansionAssumption DEF IsCall, Call
  <1>2. stack = << >> \/ stack = <<f>>
    BY DEF Fresh
  <1>. HIDE DEF f
  <1>3. IsStack(<<f>>)
    <2>1. <<f>> \in Seq({f})
      OBVIOUS
    <2>2. Len(<<f>>) = 1 /\ <<f>>[1] = f
      OBVIOUS
    <2>3. \A n \in 1 .. Len(<<f>>) : n = 1
      BY <2>2
    <2>. QED
      BY <1>1, <2>1, <2>2, <2>3 DEF IsStack
  <1>4. IsStack(<< >>)
    <2>1. << >> \in Seq({}) /\ Len(<< >>) = 0
      OBVIOUS
    <2>. QED
      BY <2>1 DEF IsStack
  <1>5. IsStack(stack)
    BY <1>2, <1>3, <1>4
  <1>6. hits \in Seq({}) /\ Len(hits) = 0
    BY <1>0
  <1>7. (\E S : hits \in Seq(S)) /\ MatchesCapped
    BY <1>0, <1>6, ExpansionAssumption DEF MatchesCapped
  <1>. QED
    BY <1>0, <1>5, <1>7 DEF IInv

LEMMA InitInv == Init => IInv
  <1>1. Init => Fresh
    BY ExpansionAssumption DEF Init, IsTemplate, Fresh
  <1>. QED
    BY <1>1, FreshInv

\* A call that returns uncovers the one that made it.
LEMMA ReturnKeeps ==
  ASSUME IInv, stack # << >>, Return, UNCHANGED template
  PROVE  Len(template') \in Nat /\ IsStack(stack)'
  <1>1. stack' = Front(stack)
    BY DEF Return
  <1>2. IsStack(Front(stack))
    BY Popped DEF IInv
  <1>. QED
    BY <1>1, <1>2 DEF IInv, IsStack, IsCall

\* A step that reports no match keeps the cap on them.
LEMMA SameHits ==
  ASSUME IInv, UNCHANGED <<template, matched, hits>>, IsStack(stack')
  PROVE  IInv'
  <1>1. IsStack(stack)'
    BY DEF IsStack, IsCall
  <1>. QED
    BY <1>1 DEF IInv, MatchesCapped

\* Every step of walk keeps both caps.
LEMMA NextInv == IInv /\ [Next]_vars => IInv'
  <1>. SUFFICES ASSUME IInv, [Next]_vars PROVE IInv'
    OBVIOUS
  <1>0. /\ IsStack(stack) /\ Len(template) \in Nat
        /\ MAX_GLOB_DEPTH \in Nat /\ MAX_GLOB_MATCHES \in Nat
    BY ExpansionAssumption DEF IInv, IsTemplate
  <1>1. ASSUME stack # << >>
        PROVE  IsCall(Top, Len(stack)) /\ Len(stack) \in Nat \ {0} /\ IsStack(Front(stack))
    BY <1>0, <1>1, Popped DEF Top
  <1>2. CASE Refuse \/ ChildrenUnreadable \/ EndLoop
    <2>1. /\ stack # << >> /\ stack' = Front(stack)
          /\ UNCHANGED <<template, matched, hits>>
      BY <1>2 DEF Refuse, Refused, ChildrenUnreadable, AtChildren, EndLoop, At, Return
    <2>. QED
      BY <1>1, <2>1, SameHits
  <1>3. CASE EmitMatch
    <2>. DEFINE h == [key |-> Top.key, path |-> Top.path, bindings |-> bindings]
    <2>1. /\ stack # << >> /\ Return /\ ~Full /\ UNCHANGED template
          /\ matched' = matched + 1 /\ hits' = Append(hits, h)
      BY <1>3 DEF EmitMatch, At, Refused
    <2>2. Len(template') \in Nat /\ IsStack(stack)'
      BY <2>1, ReturnKeeps
    <2>. HIDE DEF h
    <2>3. PICK S : hits \in Seq(S)
      BY DEF IInv
    <2>4. hits \in Seq(S \union {h})
      BY <2>3, SeqMonotonic
    <2>5. hits' \in Seq(S \union {h}) /\ Len(hits') = Len(hits) + 1
      BY <2>1, <2>4
    <2>6. matched' \in Nat /\ matched' <= MAX_GLOB_MATCHES /\ Len(hits') = matched'
      BY <1>0, <2>1, <2>5 DEF IInv, MatchesCapped, Full
    <2>. QED
      BY <2>2, <2>5, <2>6 DEF IInv, MatchesCapped
  <1>4. CASE MatchNoLevel
    <2>. DEFINE f == [Top EXCEPT !.at = "below"]
                c == Call(Top.key, Top.used + 1, Top.path, Top.depth, FALSE)
    <2>1. /\ stack # << >> /\ Top.at = "enter" /\ ~Refused /\ ~Finished
          /\ stack' = Append(Front(stack) \o <<f>>, c)
          /\ UNCHANGED <<template, matched, hits>>
      BY <1>4 DEF MatchNoLevel, At
    <2>2. Top.used < Len(template) /\ Top.depth <= MAX_GLOB_DEPTH
      BY <1>0, <1>1, <2>1 DEF IsCall, Refused, At, Finished
    <2>3. IsCall(f, Len(stack))
      BY <1>1, <2>1, <2>2 DEF IsCall
    <2>4. IsCall(c, Len(stack) + 1)
      <3>1. /\ Top.used + 1 \in 0 .. Len(template) /\ Top.depth \in 0 .. MAX_GLOB_DEPTH + 1
            /\ Len(stack) + 1 \in Nat
            /\ Top.depth + (Top.used + 1) >= Len(stack) + 1 - 1
        BY <1>0, <1>1, <2>1, <2>2 DEF IsCall
      <3>. QED
        BY <3>1 DEF IsCall, Call
    <2>. HIDE DEF f, c
    <2>5. IsStack(stack')
      BY <1>0, <2>1, <2>3, <2>4, Replaced, Pushed
    <2>. QED
      BY <2>1, <2>5, SameHits
  <1>5. CASE ReadChildren
    <2>. DEFINE f == [Top EXCEPT !.at = "loop", !.kids = Domain(Top.key, Segment)]
    <2>1. /\ stack # << >> /\ AtChildren
          /\ stack' = Front(stack) \o <<f>>
          /\ UNCHANGED <<template, matched, hits>>
      BY <1>5 DEF ReadChildren, AtChildren, At
    <2>2. Top.used < Len(template) /\ Top.depth <= MAX_GLOB_DEPTH
      BY <1>0, <1>1, <2>1 DEF IsCall, AtChildren, Refused, At, Finished
    <2>3. IsCall(f, Len(stack))
      BY <1>1, <2>1, <2>2 DEF IsCall
    <2>. HIDE DEF f
    <2>4. IsStack(stack')
      BY <1>0, <2>1, <2>3, Replaced
    <2>. QED
      BY <2>1, <2>4, SameHits
  <1>6. CASE Descend
    <2>. DEFINE child == Head(Top.kids)
                used == IF Segment.kind = "deep" THEN Top.used ELSE Top.used + 1
                f == [Top EXCEPT !.kids = Tail(@)]
                c == Call(child, used, Append(Top.path, hive.name[child]), Top.depth + 1,
                          Segment.kind # "literal")
    <2>1. /\ stack # << >> /\ Top.at = "loop"
          /\ stack' = Append(Front(stack) \o <<f>>, c)
          /\ UNCHANGED <<template, matched, hits>>
      BY <1>6 DEF Descend, MayDescend, At
    <2>2. Top.used < Len(template) /\ Top.depth <= MAX_GLOB_DEPTH
      BY <1>1, <2>1 DEF IsCall
    <2>3. IsCall(f, Len(stack))
      BY <1>1, <2>1, <2>2 DEF IsCall
    <2>4. IsCall(c, Len(stack) + 1)
      <3>0. /\ Top.used \in Nat /\ Top.depth \in Nat /\ Len(stack) \in Nat
            /\ Top.depth + Top.used >= Len(stack) - 1
            /\ Len(template) \in Nat /\ MAX_GLOB_DEPTH \in Nat
        BY <1>0, <1>1, <2>1 DEF IsCall
      <3>1. used \in 0 .. Len(template) /\ used >= Top.used
        BY <2>2, <3>0
      <3>. HIDE DEF used
      <3>2. /\ Top.depth + 1 \in 0 .. MAX_GLOB_DEPTH + 1 /\ Len(stack) + 1 \in Nat
            /\ Top.depth + 1 + used >= Len(stack) + 1 - 1
        BY <2>2, <3>0, <3>1
      <3>3. ASSUME NEW k, NEW path, NEW bound
            PROVE  IsCall(Call(k, used, path, Top.depth + 1, bound), Len(stack) + 1)
        <4>1. PICK m \in 0 .. Len(template), l \in 0 .. MAX_GLOB_DEPTH + 1, n \in Nat :
                m = used /\ l = Top.depth + 1 /\ n = Len(stack) + 1
          BY <3>1, <3>2
        <4>2. l + m >= n - 1
          BY <3>2, <4>1
        <4>3. IsCall(Call(k, m, path, l, bound), n)
          BY <4>2, Called
        <4>. QED
          BY <4>1, <4>3
      <3>. QED
        BY <3>3
    <2>. HIDE DEF f, c
    <2>5. IsStack(stack')
      BY <1>0, <2>1, <2>3, <2>4, Replaced, Pushed
    <2>. QED
      BY <2>1, <2>5, SameHits
  <1>7. CASE UNCHANGED vars
    BY <1>0, <1>7, SameHits DEF vars
  <1>. QED
    BY <1>2, <1>3, <1>4, <1>5, <1>6, <1>7 DEF Next

\* The depth and the segments behind it bound the place of a call.
LEMMA InvBoundsCalls == IInv => RecursionBounded
  <1>. SUFFICES ASSUME IInv PROVE RecursionBounded
    OBVIOUS
  <1>1. Len(template) \in Nat /\ MAX_GLOB_DEPTH \in Nat
    BY ExpansionAssumption DEF IInv
  <1>2. CASE stack = << >>
    BY <1>1, <1>2 DEF RecursionBounded
  <1>3. CASE stack # << >>
    <2>1. IsCall(stack[Len(stack)], Len(stack)) /\ Len(stack) \in Nat
      BY <1>3, Popped DEF IInv
    <2>. QED
      BY <1>1, <2>1 DEF IsCall, RecursionBounded
  <1>. QED
    BY <1>2, <1>3

\* No template expands to more keys than the cap, and none is counted without
\* being reported ...
THEOREM CapOnMatches == Spec => []MatchesCapped
  <1>1. IInv => MatchesCapped
    BY DEF IInv
  <1>. QED
    BY <1>1, InitInv, NextInv, PTL DEF Spec

\* ... and walk is nested no deeper than the cap on the depth and the length
\* of the template allow, also in a hive whose keys list their ancestors.
THEOREM CapOnRecursion == Spec => []RecursionBounded
  BY InvBoundsCalls, InitInv, NextInv, PTL DEF Spec

-----------------------------------------------------------------------------
\* What is kept of a sequence is a sequence of what may be kept.
LEMMA KeepingKeeps ==
  ASSUME NEW S, NEW ks, NEW n \in Nat, DOMAIN ks = 1 .. n
  PROVE  Keeping(ks, S) \in Seq(S)
  <1>. DEFINE ss == [m \in DOMAIN ks |-> IF ks[m] \in S THEN <<ks[m]>> ELSE << >>]
  <1>1. \A m \in 1 .. n : (IF ks[m] \in S THEN <<ks[m]>> ELSE << >>) \in Seq(S)
    OBVIOUS
  <1>2. ss \in Seq(Seq(S))
    BY <1>1
  <1>3. Keeping(ks, S) = FlattenSeq(ss)
    BY DEF Keeping
  <1>. HIDE DEF ss
  <1>4. PICK f : IsFlattening(f, ss, S)
    BY <1>2, FlatteningExists
  <1>. QED
    BY <1>2, <1>3, <1>4, FlattenIs

\* A child that is found is a key.
LEMMA FirstNamedIsKey ==
  ASSUME IsHive(hive), NEW k \in Ids, NEW name
  PROVE  FirstNamed(hive, k, name) \in Ids \union {NoKey}
  <1>1. hive.kids[k] \in Seq(Ids)
    BY DEF IsHive
  <1>2. Named(hive, k, name) \subseteq DOMAIN hive.kids[k] /\ DOMAIN hive.kids[k] \subseteq Nat
    BY <1>1 DEF Named
  <1>3. CASE Named(hive, k, name) # {}
    <2>. DEFINE n == CHOOSE n \in Named(hive, k, name) : \A m \in Named(hive, k, name) : n <= m
    <2>1. \E j \in Named(hive, k, name) : \A m \in Named(hive, k, name) : j <= m
      BY <1>2, <1>3, LeastElement
    <2>2. n \in DOMAIN hive.kids[k]
      BY <1>2, <2>1
    <2>. HIDE DEF n
    <2>3. hive.kids[k][n] \in Ids
      BY <1>1, <2>2
    <2>. QED
      BY <1>3, <2>3 DEF FirstNamed, n
  <1>. QED
    BY <1>3 DEF FirstNamed

\* A segment ranges over keys.
LEMMA DomainIsKeys ==
  ASSUME IsHive(hive), sets \in Seq(Names), NEW k \in Ids, NEW s, IsSegment(s)
  PROVE  Domain(k, s) \in Seq(Ids)
  <1>1. hive.kids[k] \in Seq(Ids)
    BY DEF IsHive
  <1>2. Keeping(<<FirstNamed(hive, k, s.name)>>, Ids) \in Seq(Ids)
    <2>1. PICK ks : ks = <<FirstNamed(hive, k, s.name)>>
      OBVIOUS
    <2>2. DOMAIN ks = 1 .. 1
      BY <2>1
    <2>. QED
      BY <2>1, <2>2, KeepingKeeps
  <1>3. OfSets(k) \in Seq(Ids)
    <2>1. PICK ks : ks = [m \in DOMAIN sets |-> FirstNamed(hive, k, sets[m])]
      OBVIOUS
    <2>2. DOMAIN ks = 1 .. Len(sets) /\ Len(sets) \in Nat
      BY <2>1
    <2>. QED
      BY <2>1, <2>2, KeepingKeeps DEF OfSets
  <1>4. Matching(k, s.pattern) \in Seq(Ids)
    <2>. DEFINE T == {c \in Range(hive.kids[k]) : GlobMatch(s.pattern, Letters[hive.name[c]])}
    <2>1. T \subseteq Ids
      BY <1>1 DEF Range
    <2>2. Matching(k, s.pattern) = Keeping(hive.kids[k], T)
      BY DEF Matching
    <2>. HIDE DEF T
    <2>3. PICK n \in Nat : DOMAIN hive.kids[k] = 1 .. n
      BY <1>1
    <2>4. Keeping(hive.kids[k], T) \in Seq(T)
      BY <2>3, KeepingKeeps
    <2>5. Keeping(hive.kids[k], T) \in Seq(Ids)
      BY <2>1, <2>4, SeqMonotonic
    <2>. QED
      BY <2>2, <2>5
  <1>. QED
    BY <1>1, <1>2, <1>3, <1>4 DEF Domain, IsSegment

\* The types of the walk that the caps do not need.
Typed ==
  /\ IsHive(hive) /\ IsTemplate(template) /\ sets \in Seq(Names)
  /\ stack \in Seq(Frame)
  /\ bindings \in Seq(Names)
  /\ hits \in Seq(Hit)

\* A sequence without its last member.
LEMMA FrontOf ==
  ASSUME NEW S, NEW s \in Seq(S)
  PROVE  Front(s) \in Seq(S)
  BY DEF Front

\* A step that returns from a call of walk leaves types alone.
LEMMA ReturnTyped ==
  ASSUME Typed, Return, UNCHANGED <<hive, template, sets>>, hits' \in Seq(Hit)
  PROVE  Typed'
  <1>1. stack' \in Seq(Frame) /\ Frame' = Frame
    BY FrontOf DEF Typed, Return, Frame
  <1>2. bindings' \in Seq(Names)
    BY FrontOf DEF Typed, Return
  <1>. QED
    BY <1>1, <1>2 DEF Typed

\* A step that changes the stack and pushes bindings.
LEMMA StackTyped ==
  ASSUME Typed, UNCHANGED <<hive, template, sets, hits>>,
         stack' \in Seq(Frame), bindings' \in Seq(Names)
  PROVE  Typed'
  <1>1. Frame' = Frame
    BY DEF Frame
  <1>. QED
    BY <1>1 DEF Typed

\* Every step of walk keeps the types.
LEMMA TypedStep == IInv /\ Typed /\ [Next]_vars => Typed'
  <1>. SUFFICES ASSUME IInv, Typed, [Next]_vars PROVE Typed'
    OBVIOUS
  <1>0. /\ IsHive(hive) /\ sets \in Seq(Names) /\ stack \in Seq(Frame)
        /\ bindings \in Seq(Names) /\ hits \in Seq(Hit)
        /\ Len(template) \in Nat /\ MAX_GLOB_DEPTH \in Nat
    BY ExpansionAssumption DEF Typed, IInv, IsTemplate
  <1>1. ASSUME stack # << >>
        PROVE  /\ Top \in Frame /\ Front(stack) \in Seq(Frame)
               /\ IsCall(Top, Len(stack))
    <2>1. Top \in Frame
      BY <1>0, <1>1 DEF Top
    <2>. QED
      BY <1>0, <1>1, <2>1, FrontOf, Popped DEF Top, IInv
  <1>2. CASE Refuse \/ ChildrenUnreadable \/ EndLoop
    <2>1. Return /\ UNCHANGED <<hive, template, sets, hits>>
      BY <1>2 DEF Refuse, ChildrenUnreadable, EndLoop
    <2>. QED
      BY <1>0, <2>1, ReturnTyped
  <1>3. CASE EmitMatch
    <2>1. /\ stack # << >> /\ Return /\ UNCHANGED <<hive, template, sets>>
          /\ hits' = Append(hits, [key |-> Top.key, path |-> Top.path, bindings |-> bindings])
      BY <1>3 DEF EmitMatch, At
    <2>2. [key |-> Top.key, path |-> Top.path, bindings |-> bindings] \in Hit
      BY <1>0, <1>1, <2>1 DEF Frame, Hit
    <2>3. hits' \in Seq(Hit)
      BY <1>0, <2>1, <2>2
    <2>. QED
      BY <2>1, <2>3, ReturnTyped
  <1>4. CASE MatchNoLevel
    <2>. DEFINE f == [Top EXCEPT !.at = "below"]
                c == Call(Top.key, Top.used + 1, Top.path, Top.depth, FALSE)
    <2>1. /\ stack # << >> /\ ~Finished
          /\ stack' = Append(Front(stack) \o <<f>>, c)
          /\ UNCHANGED <<hive, template, sets, hits>> /\ UNCHANGED bindings
      BY <1>4 DEF MatchNoLevel, At
    <2>2. f \in Frame
      BY <1>1, <2>1 DEF Frame
    <2>3. c \in Frame
      <3>1. Top.used + 1 \in 0 .. Len(template)
        BY <1>0, <1>1, <2>1 DEF IsCall, Finished
      <3>2. Top.key \in Ids /\ Top.path \in Seq(Names) /\ Top.depth \in 0 .. MAX_GLOB_DEPTH + 1
        BY <1>1, <2>1 DEF Frame
      <3>. QED
        BY <3>1, <3>2 DEF Frame, Call
    <2>. HIDE DEF f, c
    <2>4. stack' \in Seq(Frame)
      BY <1>1, <2>1, <2>2, <2>3
    <2>. QED
      BY <1>0, <2>1, <2>4, StackTyped
  <1>5. CASE ReadChildren
    <2>. DEFINE ks == Domain(Top.key, Segment)
                f == [Top EXCEPT !.at = "loop", !.kids = ks]
    <2>1. /\ stack # << >> /\ AtChildren
          /\ stack' = Front(stack) \o <<f>>
          /\ UNCHANGED <<hive, template, sets, hits>> /\ UNCHANGED bindings
      BY <1>5 DEF ReadChildren, AtChildren, At
    <2>2. Top.used + 1 \in DOMAIN template
      <3>1. Top.used \in 0 .. Len(template) /\ Top.used # Len(template)
        BY <1>0, <1>1, <2>1 DEF IsCall, AtChildren, At, Finished
      <3>2. DOMAIN template = 1 .. Len(template)
        BY DEF Typed, IInv, IsTemplate
      <3>. QED
        BY <1>0, <3>1, <3>2
    <2>3. ks \in Seq(Ids)
      <3>1. IsSegment(Segment)
        BY <2>2 DEF Segment, Typed, IsTemplate
      <3>2. Top.key \in Ids
        BY <1>1, <2>1 DEF Frame
      <3>. QED
        BY <1>0, <3>1, <3>2, DomainIsKeys
    <2>. HIDE DEF ks
    <2>4. f \in Frame
      BY <1>1, <2>1, <2>3 DEF Frame
    <2>. HIDE DEF f
    <2>5. stack' \in Seq(Frame)
      BY <1>1, <2>1, <2>4
    <2>. QED
      BY <1>0, <2>1, <2>5, StackTyped
  <1>6. CASE Descend
    <2>. DEFINE child == Head(Top.kids)
                used == IF Segment.kind = "deep" THEN Top.used ELSE Top.used + 1
                f == [Top EXCEPT !.kids = Tail(@)]
                path == Append(Top.path, hive.name[child])
                bound == Segment.kind # "literal"
                c == Call(child, used, path, Top.depth + 1, bound)
    <2>1. /\ stack # << >> /\ Top.at = "loop" /\ Top.kids # << >>
          /\ stack' = Append(Front(stack) \o <<f>>, c)
          /\ bindings' = IF bound THEN Append(bindings, hive.name[child]) ELSE bindings
          /\ UNCHANGED <<hive, template, sets, hits>>
      BY <1>6 DEF Descend, MayDescend, At
    <2>2. /\ Top.kids \in Seq(Ids) /\ Top.path \in Seq(Names)
          /\ Top.used \in 0 .. Len(template) /\ Top.depth \in 0 .. MAX_GLOB_DEPTH + 1
          /\ Top.used < Len(template) /\ Top.depth <= MAX_GLOB_DEPTH
      BY <1>1, <2>1 DEF Frame, IsCall
    <2>3. child \in Ids /\ hive.name[child] \in Names /\ Tail(Top.kids) \in Seq(Ids)
      <3>1. PICK ks \in Seq(Ids) : ks = Top.kids /\ ks # << >>
        BY <2>1, <2>2
      <3>2. Head(ks) \in Ids /\ Tail(ks) \in Seq(Ids)
        BY <3>1
      <3>. QED
        BY <1>0, <3>1, <3>2 DEF IsHive
    <2>4. f \in Frame
      BY <1>1, <2>1, <2>3 DEF Frame
    <2>5. c \in Frame
      <3>1. used \in 0 .. Len(template) /\ Top.depth + 1 \in 0 .. MAX_GLOB_DEPTH + 1
        <4>1. /\ Len(template) \in Nat /\ MAX_GLOB_DEPTH \in Nat
              /\ Top.used \in Nat /\ Top.depth \in Nat
          BY <1>0, <2>2
        <4>2. used \in Nat /\ used <= Top.used + 1
          BY <4>1
        <4>3. used <= Len(template)
          BY <2>2, <4>1, <4>2
        <4>. QED
          BY <2>2, <4>1, <4>2, <4>3
      <3>2. path \in Seq(Names) /\ bound \in BOOLEAN
        BY <2>2, <2>3
      <3>. HIDE DEF used, path, bound, child
      <3>3. child \in Ids
        BY <2>3
      <3>. QED
        BY <3>1, <3>2, <3>3 DEF Frame, Call
    <2>6. bindings' \in Seq(Names)
      BY <1>0, <2>1, <2>3
    <2>. HIDE DEF f, c
    <2>7. stack' \in Seq(Frame)
      BY <1>1, <2>1, <2>4, <2>5
    <2>. QED
      BY <2>1, <2>6, <2>7, StackTyped
  <1>7. CASE UNCHANGED vars
    BY <1>0, <1>7, StackTyped DEF vars
  <1>. QED
    BY <1>2, <1>3, <1>4, <1>5, <1>6, <1>7 DEF Next

\* The types hold at the start.
LEMMA InitTyped == Init => Typed
  <1>. SUFFICES ASSUME Init PROVE Typed
    OBVIOUS
  <1>1. PICK j \in Inputs :
          /\ hive = j.hive /\ template = j.template
          /\ sets = IF j.sets = NoResolver THEN <<SetName[1]>> ELSE j.sets
    BY DEF Init
  <1>2. IsHive(hive) /\ sets \in Seq(Names) /\ IsTemplate(template) /\ Len(template) \in Nat
    BY <1>1, ExpansionAssumption DEF IsTemplate
  <1>3. << >> \in Seq(Names) /\ << >> \in Seq(Ids) /\ << >> \in Seq(Hit)
    OBVIOUS
  <1>. DEFINE f == Call(Root, 0, << >>, 0, FALSE)
  <1>4. f \in Frame
    BY <1>2, <1>3, ExpansionAssumption DEF Call, Frame
  <1>. HIDE DEF f
  <1>5. <<f>> \in Seq(Frame)
    BY <1>4
  <1>6. stack = <<f>> /\ bindings = << >> /\ hits = << >>
    BY DEF Init, f
  <1>. QED
    BY <1>2, <1>3, <1>5, <1>6 DEF Typed

\* The walk keeps its types, for every hive, template and list of control sets:
\* what it descends to are keys, what it binds are names, and a call that has
\* read its children has a segment left to range over them.
THEOREM ExpansionTypeCorrect == Spec => []TypeOK
  <1>1. IInv /\ Typed => TypeOK
    <2>. SUFFICES ASSUME IInv, Typed PROVE TypeOK
      OBVIOUS
    <2>1. \A n \in 1 .. Len(stack) : stack[n].at # "enter" => stack[n].used < Len(template)
      BY DEF IInv, IsStack, IsCall
    <2>. QED
      BY <2>1 DEF IInv, Typed, TypeOK
  <1>. QED
    BY <1>1, InitInv, NextInv, InitTyped, TypedStep, PTL DEF Spec

-----------------------------------------------------------------------------
(***************************************************************************)
(* Which children a segment ranges over.  The loop of glob_match goes back *)
(* to the last * only.  At every turn the letters from that * on are those *)
(* of the text, so the pattern fits only if what follows the * fits from   *)
(* the mark on, and that is all that is asked: an earlier * never needs to *)
(* be stretched again.  Then, what Keeping and FirstNamed pick is what the *)
(* segments of TemplateWays are to range over.                             *)
(***************************************************************************)

\* A pattern fits from place p on what a text holds from place t on.
IsCut(cut, pat, txt, p) ==
  /\ cut \in [1 .. Len(pat) + 1 -> 1 .. Len(txt) + 1] /\ cut[Len(pat) + 1] = Len(txt) + 1
  /\ \A n \in p .. Len(pat) :
       IF pat[n] = Star THEN cut[n] <= cut[n + 1]
                        ELSE cut[n + 1] = cut[n] + 1 /\ pat[n] = txt[cut[n]]

FitsFrom(pat, txt, p, t) == \E cut : IsCut(cut, pat, txt, p) /\ cut[p] = t

\* Nothing is left of the pattern.
LEMMA EndFits ==
  ASSUME NEW pat, NEW txt, Len(pat) \in Nat, Len(txt) \in Nat, NEW t
  PROVE  FitsFrom(pat, txt, Len(pat) + 1, t) <=> t = Len(txt) + 1
<1>l. PICK pl \in Nat, tl \in Nat : pl = Len(pat) /\ tl = Len(txt)
  OBVIOUS
<1>1. ASSUME FitsFrom(pat, txt, pl + 1, t) PROVE t = tl + 1
  BY <1>1, <1>l DEF FitsFrom, IsCut
<1>2. FitsFrom(pat, txt, pl + 1, tl + 1)
  <2>1. PICK cut : cut = [n \in 1 .. pl + 1 |-> tl + 1]
    OBVIOUS
  <2>2. cut \in [1 .. pl + 1 -> 1 .. tl + 1] /\ cut[pl + 1] = tl + 1
    BY <2>1
  <2>3. IsCut(cut, pat, txt, pl + 1)
    BY <1>l, <2>2 DEF IsCut
  <2> QED
    BY <2>2, <2>3 DEF FitsFrom
<1> QED
  BY <1>1, <1>2, <1>l

\* A cut of what follows becomes one from the place before it.
LEMMA CutExtends ==
  ASSUME NEW pat, NEW txt, Len(pat) \in Nat, Len(txt) \in Nat,
         NEW p \in 1 .. Len(pat), NEW t \in 1 .. Len(txt) + 1, NEW old, IsCut(old, pat, txt, p + 1),
         IF pat[p] = Star THEN t <= old[p + 1] ELSE old[p + 1] = t + 1 /\ pat[p] = txt[t]
  PROVE  FitsFrom(pat, txt, p, t)
<1>l. PICK pl \in Nat, tl \in Nat : pl = Len(pat) /\ tl = Len(txt)
  OBVIOUS
<1>1. /\ old \in [1 .. pl + 1 -> 1 .. tl + 1] /\ old[pl + 1] = tl + 1
      /\ \A n \in p + 1 .. pl :
           IF pat[n] = Star THEN old[n] <= old[n + 1]
                            ELSE old[n + 1] = old[n] + 1 /\ pat[n] = txt[old[n]]
  BY <1>l DEF IsCut
<1>2. PICK new : new = [old EXCEPT ![p] = t]
  OBVIOUS
<1>3. /\ new \in [1 .. pl + 1 -> 1 .. tl + 1] /\ new[p] = t
      /\ \A n \in 1 .. pl + 1 : n # p => new[n] = old[n]
  BY <1>1, <1>2, <1>l
<1>4. new[pl + 1] = tl + 1
  BY <1>1, <1>3, <1>l
<1>5. ASSUME NEW n \in p .. pl
      PROVE  IF pat[n] = Star THEN new[n] <= new[n + 1]
                              ELSE new[n + 1] = new[n] + 1 /\ pat[n] = txt[new[n]]
  <2>1. n \in 1 .. pl + 1 /\ n + 1 \in 1 .. pl + 1 /\ n + 1 # p /\ new[n + 1] = old[n + 1]
    BY <1>3, <1>l
  <2>2. CASE n = p
    BY <1>3, <2>1, <2>2
  <2>3. CASE n # p
    <3>1. n \in p + 1 .. pl /\ new[n] = old[n]
      BY <1>3, <2>1, <2>3
    <3> QED
      BY <1>1, <2>1, <3>1
  <2> QED
    BY <2>2, <2>3
<1>6. IsCut(new, pat, txt, p)
  BY <1>3, <1>4, <1>5, <1>l DEF IsCut
<1> QED
  BY <1>3, <1>6 DEF FitsFrom

\* And the other way round.
LEMMA CutRest ==
  ASSUME NEW pat, NEW txt, Len(pat) \in Nat, Len(txt) \in Nat,
         NEW p \in 1 .. Len(pat), NEW cut, IsCut(cut, pat, txt, p)
  PROVE  /\ IsCut(cut, pat, txt, p + 1) /\ cut[p + 1] \in 1 .. Len(txt) + 1
         /\ IF pat[p] = Star THEN cut[p] <= cut[p + 1]
                             ELSE cut[p + 1] = cut[p] + 1 /\ pat[p] = txt[cut[p]]
<1>1. \A n \in p + 1 .. Len(pat) : n \in p .. Len(pat)
  OBVIOUS
<1>2. p + 1 \in 1 .. Len(pat) + 1 /\ p \in p .. Len(pat)
  OBVIOUS
<1> QED
  BY <1>1, <1>2 DEF IsCut

\* A * stands for any number of letters, another letter for itself.
LEMMA StarFits ==
  ASSUME NEW pat, NEW txt, Len(pat) \in Nat, Len(txt) \in Nat,
         NEW p \in 1 .. Len(pat), NEW t \in 1 .. Len(txt) + 1, pat[p] = Star
  PROVE  FitsFrom(pat, txt, p, t) <=> \E m \in t .. Len(txt) + 1 : FitsFrom(pat, txt, p + 1, m)
<1>1. ASSUME FitsFrom(pat, txt, p, t) PROVE \E m \in t .. Len(txt) + 1 : FitsFrom(pat, txt, p + 1, m)
  <2>1. PICK cut : IsCut(cut, pat, txt, p) /\ cut[p] = t
    BY <1>1 DEF FitsFrom
  <2>2. IsCut(cut, pat, txt, p + 1) /\ cut[p + 1] \in 1 .. Len(txt) + 1 /\ t <= cut[p + 1]
    BY <2>1, CutRest
  <2>3. PICK m : m = cut[p + 1]
    OBVIOUS
  <2>4. m \in t .. Len(txt) + 1
    BY <2>2, <2>3
  <2>5. FitsFrom(pat, txt, p + 1, m)
    BY <2>2, <2>3 DEF FitsFrom
  <2> QED
    BY <2>4, <2>5
<1>2. ASSUME NEW m \in t .. Len(txt) + 1, FitsFrom(pat, txt, p + 1, m) PROVE FitsFrom(pat, txt, p, t)
  <2>1. PICK cut : IsCut(cut, pat, txt, p + 1) /\ cut[p + 1] = m
    BY <1>2 DEF FitsFrom
  <2>2. IF pat[p] = Star THEN t <= cut[p + 1] ELSE cut[p + 1] = t + 1 /\ pat[p] = txt[t]
    BY <2>1
  <2> QED
    BY <2>1, <2>2, CutExtends
<1> QED
  BY <1>1, <1>2

LEMMA LetterFits ==
  ASSUME NEW pat, NEW txt, Len(pat) \in Nat, Len(txt) \in Nat,
         NEW p \in 1 .. Len(pat), NEW t \in 1 .. Len(txt) + 1, pat[p] # Star
  PROVE  FitsFrom(pat, txt, p, t) <=>
           t <= Len(txt) /\ pat[p] = txt[t] /\ FitsFrom(pat, txt, p + 1, t + 1)
<1>1. ASSUME FitsFrom(pat, txt, p, t)
      PROVE  t <= Len(txt) /\ pat[p] = txt[t] /\ FitsFrom(pat, txt, p + 1, t + 1)
  <2>1. PICK cut : IsCut(cut, pat, txt, p) /\ cut[p] = t
    BY <1>1 DEF FitsFrom
  <2>2. /\ IsCut(cut, pat, txt, p + 1) /\ cut[p + 1] \in 1 .. Len(txt) + 1
        /\ cut[p + 1] = t + 1 /\ pat[p] = txt[t]
    BY <2>1, CutRest
  <2>3. t <= Len(txt)
    BY <2>2
  <2>4. FitsFrom(pat, txt, p + 1, t + 1)
    BY <2>2 DEF FitsFrom
  <2> QED
    BY <2>2, <2>3, <2>4
<1>2. ASSUME t <= Len(txt), pat[p] = txt[t], FitsFrom(pat, txt, p + 1, t + 1)
      PROVE  FitsFrom(pat, txt, p, t)
  <2>1. PICK cut : IsCut(cut, pat, txt, p + 1) /\ cut[p + 1] = t + 1
    BY <1>2 DEF FitsFrom
  <2>2. IF pat[p] = Star THEN t <= cut[p + 1] ELSE cut[p + 1] = t + 1 /\ pat[p] = txt[t]
    BY <1>2, <2>1
  <2> QED
    BY <2>1, <2>2, CutExtends
<1> QED
  BY <1>1, <1>2

\* Behind the end of the text only * fits.
LEMMA StarsFit ==
  ASSUME NEW pat, NEW txt, Len(pat) \in Nat, Len(txt) \in Nat, NEW p \in 1 .. Len(pat) + 1
  PROVE  FitsFrom(pat, txt, p, Len(txt) + 1) <=> \A n \in p .. Len(pat) : pat[n] = Star
<1>l. PICK pl \in Nat, t \in Nat : pl = Len(pat) /\ t = Len(txt) + 1
  OBVIOUS
<1> DEFINE T == {m \in Nat : LET q == pl + 1 - m IN
                   FitsFrom(pat, txt, q, t) <=> \A n \in q .. pl : pat[n] = Star}
<1>1. 0 \in T
  <2>1. FitsFrom(pat, txt, pl + 1, t)
    BY <1>l, EndFits
  <2>2. pl + 1 - 0 = pl + 1 /\ \A n \in pl + 1 .. pl : FALSE
    OBVIOUS
  <2> QED
    BY <2>1, <2>2
<1>2. ASSUME NEW m \in 0 .. pl - 1, m \in T PROVE m + 1 \in T
  <2>1. PICK q \in 1 .. pl : q = pl + 1 - (m + 1)
    OBVIOUS
  <2>2. q + 1 = pl + 1 - m /\ t \in 1 .. Len(txt) + 1 /\ ~(t <= Len(txt)) /\ q \in 1 .. Len(pat)
        /\ m + 1 \in Nat /\ t = Len(txt) + 1
    BY <1>l, <2>1
  <2>3. FitsFrom(pat, txt, q + 1, t) <=> \A n \in q + 1 .. pl : pat[n] = Star
    BY <1>2, <2>2
  <2>4. FitsFrom(pat, txt, q, t) <=> pat[q] = Star /\ FitsFrom(pat, txt, q + 1, t)
    <3>1. CASE pat[q] = Star
      <4>1. FitsFrom(pat, txt, q, t) <=> \E i \in t .. Len(txt) + 1 : FitsFrom(pat, txt, q + 1, i)
        BY <2>2, <3>1, StarFits
      <4>2. \A i : i \in t .. Len(txt) + 1 <=> i = t
        BY <2>2
      <4> QED
        BY <3>1, <4>1, <4>2
    <3>2. CASE pat[q] # Star
      <4>1. ~FitsFrom(pat, txt, q, t)
        BY <2>2, <3>2, LetterFits
      <4> QED
        BY <3>2, <4>1
    <3> QED
      BY <3>1, <3>2
  <2>5. (\A n \in q .. pl : pat[n] = Star) <=> (pat[q] = Star /\ \A n \in q + 1 .. pl : pat[n] = Star)
    <3>1. \A n \in q .. pl : n = q \/ n \in q + 1 .. pl
      OBVIOUS
    <3>2. q \in q .. pl /\ \A n \in q + 1 .. pl : n \in q .. pl
      OBVIOUS
    <3> QED
      BY <3>1, <3>2
  <2>6. FitsFrom(pat, txt, q, t) <=> \A n \in q .. pl : pat[n] = Star
    BY <2>3, <2>4, <2>5
  <2> QED
    BY <2>1, <2>2, <2>6
<1>3. \A m \in 0 .. pl : m \in T
  <2> HIDE DEF T
  <2> QED
    BY <1>1, <1>2, UpTo
<1>4. PICK m \in 0 .. pl : m = pl + 1 - p
  <2>1. p \in 1 .. pl + 1
    BY <1>l
  <2>2. pl + 1 - p \in 0 .. pl
    BY <2>1
  <2> QED
    BY <2>2
<1>5. pl + 1 - m = p
  BY <1>4, <1>l
<1> QED
  BY <1>3, <1>4, <1>5, <1>l

\* The turns of the loop.
Starred(c) == [p |-> c.p + 1, t |-> c.t, star |-> c.p, mark |-> c.t]
Stepped(c) == [c EXCEPT !.p = @ + 1, !.t = @ + 1]
Retried(c) == [p |-> c.star + 1, t |-> c.mark + 1, star |-> c.star, mark |-> c.mark + 1]

AtEnd(c, txt) == c.t > Len(txt)
AtStar(c, pat, txt) == c.t <= Len(txt) /\ c.p <= Len(pat) /\ pat[c.p] = Star
AtLetter(c, pat, txt) ==
  c.t <= Len(txt) /\ c.p <= Len(pat) /\ pat[c.p] # Star /\ pat[c.p] = txt[c.t]
AtMismatch(c, pat, txt) == ~AtEnd(c, txt) /\ ~AtStar(c, pat, txt) /\ ~AtLetter(c, pat, txt)

\* What f says at a cursor, it says of the next one.
IsTurn(v, f, pat, txt, c) ==
  /\ AtEnd(c, txt) => v = (\A n \in c.p .. Len(pat) : pat[n] = Star)
  /\ AtStar(c, pat, txt) => v = f[Starred(c)]
  /\ AtLetter(c, pat, txt) => v = f[Stepped(c)]
  /\ AtMismatch(c, pat, txt) => v = (c.star # 0 /\ f[Retried(c)])

\* The * is stretched, or the place in the pattern moves on: the loop ends.
Weight(c, pat, txt) == (Len(txt) + 1 - c.mark) * (Len(pat) + 2) + (Len(pat) + 1 - c.p)

LEMMA Lighter ==
  ASSUME NEW x \in Nat, NEW y \in Nat, NEW a \in Nat, NEW b \in Nat, NEW k \in Nat,
         x < y \/ (x = y /\ a < b), a < k
  PROVE  x * k + a < y * k + b
<1>1. CASE x = y
  BY <1>1
<1>2. CASE x < y
  <2>1. PICK z \in Nat : y = x + 1 + z
    <3>1. y - x - 1 \in Nat /\ y = x + 1 + (y - x - 1)
      BY <1>2
    <3> QED
      BY <3>1
  <2>2. y * k = x * k + k + z * k
    BY <2>1
  <2>3. z * k \in Nat /\ x * k \in Nat
    OBVIOUS
  <2>4. PICK i \in Nat, j \in Nat : i = x * k /\ j = z * k
    BY <2>3
  <2>5. y * k = i + k + j
    BY <2>2, <2>4
  <2>6. i + a < i + k + j + b
    OBVIOUS
  <2> QED
    BY <2>4, <2>5, <2>6
<1> QED
  BY <1>1, <1>2

LEMMA TurnsEnd ==
  ASSUME NEW pat, NEW txt, Len(pat) \in Nat, Len(txt) \in Nat, NEW c \in GlobCursors(pat, txt)
  PROVE  /\ Weight(c, pat, txt) \in Nat
         /\ Weight(c, pat, txt) <= (Len(txt) + 1) * (Len(pat) + 2)
         /\ AtStar(c, pat, txt) =>
              /\ Starred(c) \in GlobCursors(pat, txt)
              /\ Weight(Starred(c), pat, txt) < Weight(c, pat, txt)
         /\ AtLetter(c, pat, txt) =>
              /\ Stepped(c) \in GlobCursors(pat, txt)
              /\ Weight(Stepped(c), pat, txt) < Weight(c, pat, txt)
         /\ AtMismatch(c, pat, txt) =>
              /\ Retried(c) \in GlobCursors(pat, txt)
              /\ Weight(Retried(c), pat, txt) < Weight(c, pat, txt)
<1>l. PICK pl \in Nat, tl \in Nat : pl = Len(pat) /\ tl = Len(txt)
  OBVIOUS
<1>0. /\ c \in [p : 1 .. pl + 1, t : 1 .. tl + 1, star : 0 .. pl, mark : 1 .. tl + 1]
      /\ c.mark <= c.t
  BY <1>l DEF GlobCursors
<1>c. PICK p, t, star, mark : p = c.p /\ t = c.t /\ star = c.star /\ mark = c.mark
  OBVIOUS
<1>1. /\ p \in 1 .. pl + 1 /\ t \in 1 .. tl + 1 /\ star \in 0 .. pl /\ mark \in 1 .. tl + 1
      /\ mark <= t
  BY <1>0, <1>c
<1>k. PICK k \in Nat : k = pl + 2
  OBVIOUS
<1>x. PICK x \in Nat, a \in Nat : x = tl + 1 - mark /\ a = pl + 1 - p
  <2>1. tl + 1 - mark \in Nat /\ pl + 1 - p \in Nat
    BY <1>1
  <2> QED
    BY <2>1
<1>2. Weight(c, pat, txt) = x * k + a
  BY <1>l, <1>c, <1>k, <1>x DEF Weight
<1>3. x * k + a \in Nat
  OBVIOUS
<1>4. x * k + a < (tl + 1) * k + 0
  <2>1. x < tl + 1 /\ a < k
    BY <1>1, <1>k, <1>x
  <2> QED
    BY <2>1, Lighter
<1>5. (tl + 1) * k + 0 = (Len(txt) + 1) * (Len(pat) + 2)
  BY <1>k, <1>l
<1>6. ASSUME NEW w, w.mark \in 1 .. tl + 1, w.p \in 1 .. pl + 1,
             w.mark > mark \/ (w.mark = mark /\ w.p > p)
      PROVE  Weight(w, pat, txt) < Weight(c, pat, txt)
  <2>1. PICK y \in Nat, b \in Nat : y = tl + 1 - w.mark /\ b = pl + 1 - w.p
    <3>1. tl + 1 - w.mark \in Nat /\ pl + 1 - w.p \in Nat
      BY <1>6
    <3> QED
      BY <3>1
  <2>2. (y < x \/ (y = x /\ b < a)) /\ b < k
    <3>1. PICK wm \in 1 .. tl + 1, wp \in 1 .. pl + 1 : wm = w.mark /\ wp = w.p
      BY <1>6
    <3>2. wm > mark \/ (wm = mark /\ wp > p)
      BY <1>6, <3>1
    <3>3. y = tl + 1 - wm /\ b = pl + 1 - wp
      BY <2>1, <3>1
    <3>4. b < k
      BY <1>k, <3>3
    <3>5. wm > mark => y < x
      BY <1>1, <1>x, <3>3
    <3>6. wm = mark /\ wp > p => y = x /\ b < a
      BY <1>1, <1>x, <3>3
    <3> QED
      BY <3>2, <3>4, <3>5, <3>6
  <2>3. y * k + b < x * k + a
    BY <2>2, Lighter
  <2>4. Weight(w, pat, txt) = y * k + b
    BY <1>l, <1>k, <2>1 DEF Weight
  <2> QED
    BY <1>2, <2>3, <2>4
<1>7. ASSUME AtStar(c, pat, txt)
      PROVE  /\ Starred(c) \in GlobCursors(pat, txt)
             /\ Weight(Starred(c), pat, txt) < Weight(c, pat, txt)
  <2>1. t <= tl /\ p <= pl
    BY <1>7, <1>c, <1>l DEF AtStar
  <2>2. PICK w : w = Starred(c)
    OBVIOUS
  <2>3. w = [p |-> p + 1, t |-> t, star |-> p, mark |-> t]
    BY <1>c, <2>2 DEF Starred
  <2>4. w.p = p + 1 /\ w.t = t /\ w.star = p /\ w.mark = t
    BY <2>3
  <2>5. p + 1 \in 1 .. pl + 1 /\ p \in 0 .. pl /\ (t > mark \/ (t = mark /\ p + 1 > p)) /\ t <= t
    BY <1>1, <2>1
  <2>6. w \in GlobCursors(pat, txt)
    BY <1>1, <1>l, <2>3, <2>4, <2>5 DEF GlobCursors
  <2> QED
    BY <1>1, <1>6, <2>2, <2>4, <2>5, <2>6
<1>8. ASSUME AtLetter(c, pat, txt)
      PROVE  /\ Stepped(c) \in GlobCursors(pat, txt)
             /\ Weight(Stepped(c), pat, txt) < Weight(c, pat, txt)
  <2>1. t <= tl /\ p <= pl
    BY <1>8, <1>c, <1>l DEF AtLetter
  <2>2. PICK w : w = Stepped(c)
    OBVIOUS
  <2>3. w = [p |-> p + 1, t |-> t + 1, star |-> star, mark |-> mark]
    BY <1>0, <1>c, <2>2 DEF Stepped
  <2>4. w.p = p + 1 /\ w.t = t + 1 /\ w.star = star /\ w.mark = mark
    BY <2>3
  <2>5. p + 1 \in 1 .. pl + 1 /\ t + 1 \in 1 .. tl + 1 /\ p + 1 > p /\ mark <= t + 1
    BY <1>1, <2>1
  <2>6. w \in GlobCursors(pat, txt)
    BY <1>1, <1>l, <2>3, <2>4, <2>5 DEF GlobCursors
  <2> QED
    BY <1>1, <1>6, <2>2, <2>4, <2>5, <2>6
<1>9. ASSUME AtMismatch(c, pat, txt)
      PROVE  /\ Retried(c) \in GlobCursors(pat, txt)
             /\ Weight(Retried(c), pat, txt) < Weight(c, pat, txt)
  <2>1. t <= tl
    BY <1>1, <1>9, <1>c, <1>l DEF AtMismatch, AtEnd
  <2>2. PICK w : w = Retried(c)
    OBVIOUS
  <2>3. w = [p |-> star + 1, t |-> mark + 1, star |-> star, mark |-> mark + 1]
    BY <1>c, <2>2 DEF Retried
  <2>4. w.p = star + 1 /\ w.t = mark + 1 /\ w.star = star /\ w.mark = mark + 1
    BY <2>3
  <2>5. star + 1 \in 1 .. pl + 1 /\ mark + 1 \in 1 .. tl + 1 /\ mark + 1 > mark /\ mark + 1 <= mark + 1
    BY <1>1, <2>1
  <2>6. w \in GlobCursors(pat, txt)
    BY <1>1, <1>l, <2>3, <2>4, <2>5 DEF GlobCursors
  <2> QED
    BY <1>6, <2>2, <2>4, <2>5, <2>6
<1>10. Weight(c, pat, txt) \in Nat /\ Weight(c, pat, txt) <= (Len(txt) + 1) * (Len(pat) + 2)
  <2>1. PICK m \in Nat : m = (tl + 1) * k + 0
    OBVIOUS
  <2> QED
    BY <1>2, <1>3, <1>4, <1>5
<1> QED
  BY <1>7, <1>8, <1>9, <1>10

IsGlob(f, pat, txt) ==
  \A c \in GlobCursors(pat, txt) : IsTurn(f[c], f, pat, txt, c)

\* One turn for every cursor.
TurnOf(f, pat, txt, c) ==
     CASE c.t > Len(txt) -> \A n \in c.p .. Len(pat) : pat[n] = Star
       [] c.t <= Len(txt) /\ (c.p <= Len(pat) /\ pat[c.p] = Star)
            -> f[[p |-> c.p + 1, t |-> c.t, star |-> c.p, mark |-> c.t]]
       [] c.t <= Len(txt) /\ ~(c.p <= Len(pat) /\ pat[c.p] = Star) /\ (c.p <= Len(pat) /\ pat[c.p] = txt[c.t])
            -> f[[c EXCEPT !.p = @ + 1, !.t = @ + 1]]
       [] OTHER -> c.star # 0 /\ f[[p |-> c.star + 1, t |-> c.mark + 1,
                                    star |-> c.star, mark |-> c.mark + 1]]

Turned(f, pat, txt) == [c \in GlobCursors(pat, txt) |-> TurnOf(f, pat, txt, c)]

\* The cases of a turn exclude each other.
LEMMA TurnedIs ==
  ASSUME NEW pat, NEW txt, Len(pat) \in Nat, Len(txt) \in Nat, NEW f,
         NEW c \in GlobCursors(pat, txt)
  PROVE  /\ IsTurn(Turned(f, pat, txt)[c], f, pat, txt, c)
         /\ f \in [GlobCursors(pat, txt) -> BOOLEAN] => Turned(f, pat, txt)[c] \in BOOLEAN
<1>v. PICK v : v = Turned(f, pat, txt)[c]
  OBVIOUS
<1>e. PICK e : e = (\A n \in c.p .. Len(pat) : pat[n] = Star)
  OBVIOUS
<1>r. PICK r : r = (c.star # 0 /\ f[Retried(c)])
  OBVIOUS
<1>0. c.t \in Nat /\ c.p \in Nat
  BY DEF GlobCursors
<1>1. /\ AtStar(c, pat, txt) <=> c.t <= Len(txt) /\ (c.p <= Len(pat) /\ pat[c.p] = Star)
      /\ AtLetter(c, pat, txt) <=>
           c.t <= Len(txt) /\ ~(c.p <= Len(pat) /\ pat[c.p] = Star) /\ (c.p <= Len(pat) /\ pat[c.p] = txt[c.t])
      /\ AtEnd(c, txt) <=> c.t > Len(txt)
  BY DEF AtStar, AtLetter, AtEnd
<1>2. AtEnd(c, txt) => ~AtStar(c, pat, txt) /\ ~AtLetter(c, pat, txt)
  BY <1>0 DEF AtEnd, AtStar, AtLetter
<1>3. AtStar(c, pat, txt) => ~AtLetter(c, pat, txt)
  BY DEF AtStar, AtLetter
<1>4. /\ AtEnd(c, txt) => v = e
      /\ AtStar(c, pat, txt) => v = f[Starred(c)]
      /\ AtLetter(c, pat, txt) => v = f[Stepped(c)]
      /\ AtMismatch(c, pat, txt) => v = r
  <2>1. ASSUME AtEnd(c, txt) PROVE v = e
    BY <1>v, <1>e, <1>1, <1>2, <2>1 DEF Turned, TurnOf
  <2>2. ASSUME AtStar(c, pat, txt) PROVE v = f[Starred(c)]
    BY <1>v, <1>1, <1>2, <1>3, <2>2 DEF Turned, TurnOf, Starred
  <2>3. ASSUME AtLetter(c, pat, txt) PROVE v = f[Stepped(c)]
    BY <1>v, <1>1, <1>2, <1>3, <2>3 DEF Turned, TurnOf, Stepped
  <2>4. ASSUME AtMismatch(c, pat, txt) PROVE v = r
    BY <1>v, <1>r, <1>1, <2>4 DEF Turned, TurnOf, Retried, AtMismatch
  <2> QED
    BY <2>1, <2>2, <2>3, <2>4
<1>5. ASSUME f \in [GlobCursors(pat, txt) -> BOOLEAN] PROVE v \in BOOLEAN
  <2>1. AtEnd(c, txt) => v \in BOOLEAN
    BY <1>4, <1>e
  <2>2. AtStar(c, pat, txt) => v \in BOOLEAN
    BY <1>4, <1>5, TurnsEnd
  <2>3. AtLetter(c, pat, txt) => v \in BOOLEAN
    BY <1>4, <1>5, TurnsEnd
  <2>4. AtMismatch(c, pat, txt) => v \in BOOLEAN
    BY <1>4, <1>r
  <2> QED
    BY <2>1, <2>2, <2>3, <2>4 DEF AtMismatch
<1>6. IsTurn(v, f, pat, txt, c)
  BY <1>4, <1>e, <1>r DEF IsTurn
<1> QED
  BY <1>5, <1>6, <1>v

\* Two functions say the same of a cursor if they do of the next one.
LEMMA SameTurn ==
  ASSUME NEW pat, NEW txt, Len(pat) \in Nat, Len(txt) \in Nat, NEW c \in GlobCursors(pat, txt),
         NEW f, NEW h, NEW v, NEW w, IsTurn(v, f, pat, txt, c), IsTurn(w, h, pat, txt, c),
         \A x \in GlobCursors(pat, txt) : Weight(x, pat, txt) < Weight(c, pat, txt) => f[x] = h[x]
  PROVE  v = w
<1>1. CASE AtEnd(c, txt)
  BY <1>1 DEF IsTurn
<1>2. CASE AtStar(c, pat, txt)
  <2>1. f[Starred(c)] = h[Starred(c)]
    BY <1>2, TurnsEnd
  <2> QED
    BY <1>2, <2>1 DEF IsTurn
<1>3. CASE AtLetter(c, pat, txt)
  <2>1. f[Stepped(c)] = h[Stepped(c)]
    BY <1>3, TurnsEnd
  <2> QED
    BY <1>3, <2>1 DEF IsTurn
<1>4. CASE AtMismatch(c, pat, txt)
  <2>1. f[Retried(c)] = h[Retried(c)]
    BY <1>4, TurnsEnd
  <2> QED
    BY <1>4, <2>1 DEF IsTurn
<1> QED
  BY <1>1, <1>2, <1>3, <1>4 DEF AtMismatch

\* As the loop ends, the recursion defines a function.
LEMMA GlobExists ==
  ASSUME NEW pat, NEW txt, Len(pat) \in Nat, Len(txt) \in Nat
  PROVE  \E f : f \in [GlobCursors(pat, txt) -> BOOLEAN] /\ f = Turned(f, pat, txt)
<1>C. PICK C : C = GlobCursors(pat, txt)
  OBVIOUS
<1>V. PICK V : V = [C -> BOOLEAN]
  OBVIOUS
<1>n. PICK n \in Nat : n = (Len(txt) + 1) * (Len(pat) + 2) + 1
  <2>1. PICK a \in Nat, b \in Nat : a = Len(txt) + 1 /\ b = Len(pat) + 2
    OBVIOUS
  <2>2. a * b \in Nat
    OBVIOUS
  <2> QED
    BY <2>1, <2>2
<1>1. \A c \in C : Weight(c, pat, txt) \in Nat /\ Weight(c, pat, txt) < n
  <2>1. SUFFICES ASSUME NEW c \in C PROVE Weight(c, pat, txt) \in Nat /\ Weight(c, pat, txt) < n
    OBVIOUS
  <2>2. Weight(c, pat, txt) \in Nat /\ Weight(c, pat, txt) <= (Len(txt) + 1) * (Len(pat) + 2)
    BY <1>C, TurnsEnd
  <2>3. PICK m : m = (Len(txt) + 1) * (Len(pat) + 2)
    OBVIOUS
  <2> QED
    BY <1>n, <2>2, <2>3
<1>2. \A f \in V : Turned(f, pat, txt) \in V
  <2>1. SUFFICES ASSUME NEW f \in V PROVE Turned(f, pat, txt) \in V
    OBVIOUS
  <2>2. \A c \in C : Turned(f, pat, txt)[c] \in BOOLEAN
    BY <1>C, <1>V, TurnedIs
  <2>3. PICK g : g = Turned(f, pat, txt)
    OBVIOUS
  <2>4. g = [c \in C |-> g[c]]
    BY <1>C, <2>3 DEF Turned
  <2> QED
    BY <1>V, <2>2, <2>3, <2>4
<1>3. PICK h \in [0 .. n + 1 -> V] : \A i \in 1 .. n + 1 : h[i] = Turned(h[i - 1], pat, txt)
  <2> DEFINE G == [q \in V \X (1 .. n + 1) |-> Turned(q[1], pat, txt)]
  <2>1. IsStep(G, V, n + 1)
    BY <1>2 DEF IsStep
  <2>2. \A f \in V, i \in 1 .. n + 1 : G[<<f, i>>] = Turned(f, pat, txt)
    OBVIOUS
  <2> HIDE DEF G
  <2>3. PICK f0 \in V : TRUE
    <3>1. [c \in C |-> TRUE] \in V
      BY <1>V
    <3> QED
      BY <3>1
  <2>4. PICK h : IsIteration(h, G, V, f0, n + 1)
    BY <2>1, Iteration
  <2>5. h \in [0 .. n + 1 -> V] /\ \A i \in 1 .. n + 1 : h[i] = G[<<h[i - 1], i>>]
    BY <2>4 DEF IsIteration
  <2>6. ASSUME NEW i \in 1 .. n + 1 PROVE h[i] = Turned(h[i - 1], pat, txt)
    <3>1. i - 1 \in 0 .. n + 1
      OBVIOUS
    <3> QED
      BY <2>2, <2>5, <3>1
  <2> QED
    BY <2>5, <2>6
<1>4. \A i \in 1 .. n + 1, c \in C : IsTurn(h[i][c], h[i - 1], pat, txt, c)
  <2>1. SUFFICES ASSUME NEW i \in 1 .. n + 1, NEW c \in C PROVE IsTurn(h[i][c], h[i - 1], pat, txt, c)
    OBVIOUS
  <2>2. PICK f : f = h[i - 1]
    OBVIOUS
  <2>3. i - 1 \in 0 .. n + 1
    OBVIOUS
  <2>4. f \in [GlobCursors(pat, txt) -> BOOLEAN]
    BY <1>C, <1>V, <2>2, <2>3
  <2>5. IsTurn(Turned(f, pat, txt)[c], f, pat, txt, c)
    BY <1>C, <2>4, TurnedIs
  <2> QED
    BY <1>3, <2>2, <2>5
<1> DEFINE T == {i \in Nat : i <= n => \A c \in C : Weight(c, pat, txt) < i => h[i + 1][c] = h[i][c]}
<1>5. 0 \in T
  <2>1. \A c \in C : ~(Weight(c, pat, txt) < 0)
    BY <1>1
  <2> QED
    BY <2>1
<1>6. ASSUME NEW i \in 0 .. n - 1, i \in T PROVE i + 1 \in T
  <2>1. i + 1 \in 1 .. n + 1 /\ (i + 1) + 1 \in 1 .. n + 1 /\ (i + 1) - 1 = i /\ ((i + 1) + 1) - 1 = i + 1
        /\ i + 1 \in Nat /\ i <= n
    OBVIOUS
  <2>2. ASSUME NEW c \in C, Weight(c, pat, txt) < i + 1 PROVE h[(i + 1) + 1][c] = h[i + 1][c]
    <3>1. PICK v, w, f, g : v = h[(i + 1) + 1][c] /\ w = h[i + 1][c] /\ f = h[i + 1] /\ g = h[i]
      OBVIOUS
    <3>2. IsTurn(v, f, pat, txt, c) /\ IsTurn(w, g, pat, txt, c)
      BY <1>4, <2>1, <3>1
    <3>3. ASSUME NEW x \in C, Weight(x, pat, txt) < Weight(c, pat, txt) PROVE f[x] = g[x]
      <4>1. Weight(x, pat, txt) < i
        BY <1>1, <2>2, <3>3
      <4> QED
        BY <1>6, <2>1, <3>1, <4>1
    <3> QED
      BY <1>C, <3>1, <3>2, <3>3, SameTurn
  <2> QED
    BY <2>1, <2>2
<1>7. n \in T
  <2>1. \A i \in 0 .. n : i \in T
    <3> HIDE DEF T
    <3> QED
      BY <1>5, <1>6, UpTo
  <2>2. n \in 0 .. n
    OBVIOUS
  <2> QED
    BY <2>1, <2>2
<1>f. PICK f : f = h[n]
  OBVIOUS
<1>8. f \in V /\ n + 1 \in 1 .. n + 1 /\ (n + 1) - 1 = n
  BY <1>f
<1>9. h[n + 1] = Turned(f, pat, txt) /\ h[n + 1] \in V
  BY <1>3, <1>8, <1>f
<1>10. \A c \in C : h[n + 1][c] = f[c]
  BY <1>1, <1>7, <1>f
<1>11. h[n + 1] = f
  <2>1. PICK g : g = h[n + 1]
    OBVIOUS
  <2>2. g \in [C -> BOOLEAN] /\ f \in [C -> BOOLEAN] /\ \A c \in C : g[c] = f[c]
    BY <1>8, <1>9, <1>10, <1>V, <2>1
  <2>3. g = f
    BY <2>2
  <2> QED
    BY <2>1, <2>3
<1> QED
  BY <1>8, <1>9, <1>11, <1>C, <1>V

GlobStart == [p |-> 1, t |-> 1, star |-> 0, mark |-> 1]

LEMMA GlobMatchIs ==
  ASSUME NEW pat, NEW txt, Len(pat) \in Nat, Len(txt) \in Nat
  PROVE  \E f : IsGlob(f, pat, txt) /\ GlobMatch(pat, txt) = f[GlobStart]
<1>f. PICK f : f = CHOOSE w : w = Turned(w, pat, txt)
  OBVIOUS
<1>1. f = Turned(f, pat, txt)
  BY <1>f, GlobExists
<1>2. GlobMatch(pat, txt) = f[GlobStart]
  BY <1>f DEF GlobMatch, Turned, TurnOf, GlobStart
<1>3. ASSUME NEW c \in GlobCursors(pat, txt) PROVE IsTurn(f[c], f, pat, txt, c)
  BY <1>1, TurnedIs
<1>4. IsGlob(f, pat, txt)
  BY <1>3 DEF IsGlob
<1> QED
  BY <1>2, <1>4

\* Since the last * the letters of the pattern are those of the text.
IsRun(c, pat, txt) ==
  /\ c.p = c.star + 1 + (c.t - c.mark)
  /\ \A j \in 0 .. c.t - c.mark - 1 :
       pat[c.star + 1 + j] # Star /\ pat[c.star + 1 + j] = txt[c.mark + j]

\* What follows the last * fits the text somewhere from the mark on; without a
\* * it fits the text as a whole.
MayFit(c, pat, txt) ==
  \E m \in c.mark .. Len(txt) + 1 :
    (c.star = 0 => m = c.mark) /\ FitsFrom(pat, txt, c.star + 1, m)

\* A run of letters takes as many of the text.
LEMMA RunTakes ==
  ASSUME NEW pat, NEW txt, Len(pat) \in Nat, Len(txt) \in Nat,
         NEW c \in GlobCursors(pat, txt), IsRun(c, pat, txt),
         NEW m \in c.mark .. Len(txt) + 1, FitsFrom(pat, txt, c.star + 1, m)
  PROVE  m + (c.t - c.mark) <= Len(txt) + 1 /\ FitsFrom(pat, txt, c.p, m + (c.t - c.mark))
<1>l. PICK pl \in Nat, tl \in Nat : pl = Len(pat) /\ tl = Len(txt)
  OBVIOUS
<1>0. /\ c.p \in 1 .. pl + 1 /\ c.t \in 1 .. tl + 1 /\ c.star \in 0 .. pl /\ c.mark \in 1 .. tl + 1
      /\ c.mark <= c.t
  BY <1>l DEF GlobCursors
<1>e. c.star + 1 \in 1 .. pl + 1
  BY <1>0
<1>c. PICK p \in 1 .. pl + 1, t \in 1 .. tl + 1, s \in 1 .. pl + 1, mark \in 1 .. tl + 1 :
        p = c.p /\ t = c.t /\ s = c.star + 1 /\ mark = c.mark
  BY <1>0, <1>e
<1>r. PICK r \in Nat : r = t - mark
  <2>1. t - mark \in Nat
    BY <1>0, <1>c
  <2> QED
    BY <2>1
<1>1. p = s + r /\ \A j \in 0 .. r - 1 : pat[s + j] # Star
  BY <1>0, <1>c, <1>r DEF IsRun
<1>2. m \in 1 .. tl + 1 /\ FitsFrom(pat, txt, s, m)
  BY <1>c, <1>l
<1> DEFINE T == {j \in Nat : m + j <= tl + 1 /\ FitsFrom(pat, txt, s + j, m + j)}
<1>3. 0 \in T
  <2>1. m + 0 = m /\ s + 0 = s
    BY <1>2
  <2> QED
    BY <1>2, <2>1
<1>4. ASSUME NEW j \in 0 .. r - 1, j \in T PROVE j + 1 \in T
  <2>1. PICK q, n : q = s + j /\ n = m + j
    OBVIOUS
  <2>2. q \in 1 .. Len(pat) /\ n \in 1 .. Len(txt) + 1
    BY <1>1, <1>2, <1>4, <1>l, <2>1
  <2>3. pat[q] # Star /\ FitsFrom(pat, txt, q, n)
    BY <1>1, <1>4, <2>1
  <2>4. n <= Len(txt) /\ FitsFrom(pat, txt, q + 1, n + 1)
    BY <2>2, <2>3, LetterFits
  <2>5. q + 1 = s + (j + 1) /\ n + 1 = m + (j + 1) /\ m + (j + 1) <= tl + 1 /\ j + 1 \in Nat
    BY <1>2, <1>l, <2>1, <2>2, <2>4
  <2> QED
    BY <2>4, <2>5
<1>5. r \in T
  <2>1. \A j \in 0 .. r : j \in T
    <3> HIDE DEF T
    <3> QED
      BY <1>3, <1>4, UpTo
  <2>2. r \in 0 .. r
    OBVIOUS
  <2> QED
    BY <2>1, <2>2
<1>6. m + r <= tl + 1 /\ FitsFrom(pat, txt, s + r, m + r)
  BY <1>5
<1> QED
  BY <1>1, <1>6, <1>c, <1>l, <1>r

\* If what follows a run fits, so does what begins with it.
LEMMA RunFits ==
  ASSUME NEW pat, NEW txt, Len(pat) \in Nat, Len(txt) \in Nat,
         NEW c \in GlobCursors(pat, txt), IsRun(c, pat, txt), FitsFrom(pat, txt, c.p, c.t)
  PROVE  FitsFrom(pat, txt, c.star + 1, c.mark)
<1>l. PICK pl \in Nat, tl \in Nat : pl = Len(pat) /\ tl = Len(txt)
  OBVIOUS
<1>0. /\ c.p \in 1 .. pl + 1 /\ c.t \in 1 .. tl + 1 /\ c.star \in 0 .. pl /\ c.mark \in 1 .. tl + 1
      /\ c.mark <= c.t
  BY <1>l DEF GlobCursors
<1>e. c.star + 1 \in 1 .. pl + 1
  BY <1>0
<1>c. PICK p \in 1 .. pl + 1, t \in 1 .. tl + 1, s \in 1 .. pl + 1, mark \in 1 .. tl + 1 :
        p = c.p /\ t = c.t /\ s = c.star + 1 /\ mark = c.mark
  BY <1>0, <1>e
<1>r. PICK r \in Nat : r = t - mark
  <2>1. t - mark \in Nat
    BY <1>0, <1>c
  <2> QED
    BY <2>1
<1>1. p = s + r /\ \A j \in 0 .. r - 1 : pat[s + j] # Star /\ pat[s + j] = txt[mark + j]
  BY <1>0, <1>c, <1>r DEF IsRun
<1> DEFINE T == {i \in Nat : FitsFrom(pat, txt, s + (r - i), mark + (r - i))}
<1>3. 0 \in T
  <2>1. s + (r - 0) = p /\ mark + (r - 0) = t
    BY <1>1, <1>r
  <2> QED
    BY <1>c, <2>1
<1>4. ASSUME NEW i \in 0 .. r - 1, i \in T PROVE i + 1 \in T
  <2>1. PICK j \in 0 .. r - 1 : j = r - (i + 1)
    OBVIOUS
  <2>2. PICK q, n : q = s + j /\ n = mark + j
    OBVIOUS
  <2>3. s + (r - i) = q + 1 /\ mark + (r - i) = n + 1
    BY <2>1, <2>2
  <2>4. q \in 1 .. Len(pat) /\ n \in 1 .. Len(txt) + 1 /\ n <= Len(txt)
    BY <1>1, <1>l, <1>r, <2>2
  <2>5. FitsFrom(pat, txt, q, n)
    BY <1>1, <1>4, <2>2, <2>3, <2>4, LetterFits
  <2> QED
    BY <2>1, <2>2, <2>5
<1>5. r \in T
  <2>1. \A i \in 0 .. r : i \in T
    <3> HIDE DEF T
    <3> QED
      BY <1>3, <1>4, UpTo
  <2>2. r \in 0 .. r
    OBVIOUS
  <2> QED
    BY <2>1, <2>2
<1>6. FitsFrom(pat, txt, s + (r - r), mark + (r - r))
  BY <1>5
<1>7. s + (r - r) = s /\ mark + (r - r) = mark
  OBVIOUS
<1> QED
  BY <1>6, <1>7, <1>c

\* Each turn of the loop keeps what is known of a run, and whether it may fit.
LEMMA StarTurn ==
  ASSUME NEW pat, NEW txt, Len(pat) \in Nat, Len(txt) \in Nat,
         NEW c \in GlobCursors(pat, txt), IsRun(c, pat, txt), AtStar(c, pat, txt)
  PROVE  /\ IsRun(Starred(c), pat, txt)
         /\ MayFit(Starred(c), pat, txt) <=> FitsFrom(pat, txt, c.p, c.t)
<1>l. PICK pl \in Nat, tl \in Nat : pl = Len(pat) /\ tl = Len(txt)
  OBVIOUS
<1>d. PICK p, t, w : p = c.p /\ t = c.t /\ w = Starred(c)
  OBVIOUS
<1>0. p \in 1 .. pl + 1 /\ t \in 1 .. tl + 1 /\ t <= tl /\ p <= pl /\ pat[p] = Star
  BY <1>l, <1>d DEF GlobCursors, AtStar
<1>1. w.p = p + 1 /\ w.t = t /\ w.star = p /\ w.mark = t
  BY <1>d DEF Starred
<1>2. p + 1 = p + 1 + (t - t) /\ \A j \in 0 .. t - t - 1 : FALSE
  BY <1>0
<1>3. IsRun(w, pat, txt)
  BY <1>1, <1>2 DEF IsRun
<1>4. p \in 1 .. Len(pat) /\ t \in 1 .. Len(txt) + 1 /\ p # 0
  BY <1>0, <1>l
<1>5. FitsFrom(pat, txt, p, t) <=> \E m \in t .. Len(txt) + 1 : FitsFrom(pat, txt, p + 1, m)
  BY <1>0, <1>4, StarFits
<1>6. MayFit(w, pat, txt) <=> \E m \in t .. Len(txt) + 1 : FitsFrom(pat, txt, p + 1, m)
  BY <1>1, <1>4 DEF MayFit
<1> QED
  BY <1>3, <1>5, <1>6, <1>d

LEMMA LetterTurn ==
  ASSUME NEW pat, NEW txt, Len(pat) \in Nat, Len(txt) \in Nat,
         NEW c \in GlobCursors(pat, txt), IsRun(c, pat, txt), AtLetter(c, pat, txt)
  PROVE  /\ IsRun(Stepped(c), pat, txt)
         /\ MayFit(Stepped(c), pat, txt) <=> MayFit(c, pat, txt)
<1>l. PICK pl \in Nat, tl \in Nat : pl = Len(pat) /\ tl = Len(txt)
  OBVIOUS
<1>d. PICK p, t, s, mark, w : p = c.p /\ t = c.t /\ s = c.star /\ mark = c.mark /\ w = Stepped(c)
  OBVIOUS
<1>0. /\ p \in 1 .. pl + 1 /\ t \in 1 .. tl + 1 /\ s \in 0 .. pl /\ mark \in 1 .. tl + 1 /\ mark <= t
      /\ t <= tl /\ p <= pl /\ pat[p] # Star /\ pat[p] = txt[t]
  BY <1>l, <1>d DEF GlobCursors, AtLetter
<1>1. w.p = p + 1 /\ w.t = t + 1 /\ w.star = s /\ w.mark = mark
  <2>1. c \in [p : 1 .. Len(pat) + 1, t : 1 .. Len(txt) + 1, star : 0 .. Len(pat), mark : 1 .. Len(txt) + 1]
    BY DEF GlobCursors
  <2> QED
    BY <1>d, <2>1 DEF Stepped
<1>r. PICK r \in Nat : r = t - mark
  <2>1. t - mark \in Nat
    BY <1>0
  <2> QED
    BY <2>1
<1>2. p = s + 1 + r /\ \A j \in 0 .. r - 1 : pat[s + 1 + j] # Star /\ pat[s + 1 + j] = txt[mark + j]
  BY <1>0, <1>d, <1>r DEF IsRun
<1>3. p + 1 = s + 1 + (t + 1 - mark)
  BY <1>0, <1>2, <1>r
<1>4. ASSUME NEW j \in 0 .. t + 1 - mark - 1
      PROVE  pat[s + 1 + j] # Star /\ pat[s + 1 + j] = txt[mark + j]
  <2>1. j \in 0 .. r
    BY <1>0, <1>r
  <2>2. CASE j = r
    <3>1. s + 1 + j = p /\ mark + j = t
      BY <1>0, <1>2, <1>r, <2>2
    <3> QED
      BY <1>0, <3>1
  <2>3. CASE j # r
    <3>1. j \in 0 .. r - 1
      BY <2>1, <2>3
    <3> QED
      BY <1>2, <3>1
  <2> QED
    BY <2>2, <2>3
<1>5. IsRun(w, pat, txt)
  <2>1. w.t - w.mark = t + 1 - mark
    BY <1>0, <1>1
  <2>2. w.p = w.star + 1 + (w.t - w.mark)
    BY <1>1, <1>3, <2>1
  <2>3. \A j \in 0 .. w.t - w.mark - 1 :
          pat[w.star + 1 + j] # Star /\ pat[w.star + 1 + j] = txt[w.mark + j]
    <3>1. \A j \in 0 .. w.t - w.mark - 1 : j \in 0 .. t + 1 - mark - 1
      <4>1. w.t = t + 1 /\ w.mark = mark
        BY <1>1
      <4>2. w.t - w.mark - 1 = t + 1 - mark - 1
        BY <1>0, <4>1
      <4> QED
        BY <4>2, Zenon
    <3>2. w.star = s /\ w.mark = mark
      BY <1>1
    <3>3. SUFFICES ASSUME NEW j \in 0 .. w.t - w.mark - 1
                   PROVE  pat[s + 1 + j] # Star /\ pat[s + 1 + j] = txt[mark + j]
      BY <3>2
    <3> QED
      BY <1>4, <3>1
  <2> QED
    BY <2>2, <2>3 DEF IsRun
<1>6. MayFit(w, pat, txt) <=> MayFit(c, pat, txt)
  BY <1>1, <1>d DEF MayFit
<1> QED
  BY <1>5, <1>6, <1>d

\* At a letter that differs the run fits nowhere it ends here.
LEMMA Mismatched ==
  ASSUME NEW pat, NEW txt, Len(pat) \in Nat, Len(txt) \in Nat,
         NEW c \in GlobCursors(pat, txt), IsRun(c, pat, txt), AtMismatch(c, pat, txt)
  PROVE  ~FitsFrom(pat, txt, c.star + 1, c.mark)
<1>l. PICK pl \in Nat, tl \in Nat : pl = Len(pat) /\ tl = Len(txt)
  OBVIOUS
<1>d. PICK p, t, mark : p = c.p /\ t = c.t /\ mark = c.mark
  OBVIOUS
<1>0. p \in 1 .. pl + 1 /\ t \in 1 .. tl + 1 /\ mark \in 1 .. tl + 1 /\ mark <= t
  BY <1>l, <1>d DEF GlobCursors
<1>1. ~(t > tl) /\ ~(p <= pl /\ pat[p] = Star) /\ ~(p <= pl /\ pat[p] # Star /\ pat[p] = txt[t])
  <2>1. ~(t > tl) /\ t <= tl
    BY <1>0, <1>d, <1>l DEF AtMismatch, AtEnd
  <2> QED
    BY <1>d, <1>l, <2>1 DEF AtMismatch, AtStar, AtLetter
<1>2. ~FitsFrom(pat, txt, p, t)
  <2>1. CASE p = pl + 1
    <3>1. t # Len(txt) + 1
      BY <1>0, <1>1, <1>l
    <3> QED
      BY <1>l, <2>1, <3>1, EndFits
  <2>2. CASE p # pl + 1
    <3>1. p \in 1 .. Len(pat) /\ p <= pl /\ t \in 1 .. Len(txt) + 1
      BY <1>0, <1>l, <2>2
    <3>2. pat[p] # Star /\ pat[p] # txt[t]
      BY <1>1, <3>1
    <3> QED
      BY <3>1, <3>2, LetterFits
  <2> QED
    BY <2>1, <2>2
<1>3. mark \in mark .. Len(txt) + 1 /\ mark + (t - mark) = t
  BY <1>0, <1>l
<1>4. ASSUME FitsFrom(pat, txt, c.star + 1, c.mark) PROVE FALSE
  <2>1. c.mark \in c.mark .. Len(txt) + 1
    BY <1>3, <1>d
  <2>2. FitsFrom(pat, txt, c.p, c.mark + (c.t - c.mark))
    BY <1>4, <2>1, RunTakes
  <2> QED
    BY <1>2, <1>3, <1>d, <2>2
<1> QED
  BY <1>4

LEMMA MismatchTurn ==
  ASSUME NEW pat, NEW txt, Len(pat) \in Nat, Len(txt) \in Nat,
         NEW c \in GlobCursors(pat, txt), IsRun(c, pat, txt), AtMismatch(c, pat, txt)
  PROVE  /\ IsRun(Retried(c), pat, txt)
         /\ MayFit(c, pat, txt) <=> (c.star # 0 /\ MayFit(Retried(c), pat, txt))
<1>d. PICK s, mark, tl, w : s = c.star /\ mark = c.mark /\ tl = Len(txt) /\ w = Retried(c)
  OBVIOUS
<1>0. s \in Nat /\ mark \in Nat /\ tl \in Nat
  BY <1>d DEF GlobCursors
<1>1. w.p = s + 1 /\ w.t = mark + 1 /\ w.star = s /\ w.mark = mark + 1
  BY <1>d DEF Retried
<1>2. w.t - w.mark = 0
  BY <1>0, <1>1
<1>3. IsRun(w, pat, txt)
  <2>1. w.p = w.star + 1 + (w.t - w.mark)
    BY <1>0, <1>1, <1>2
  <2>2. \A j \in 0 .. w.t - w.mark - 1 : FALSE
    BY <1>2
  <2> QED
    BY <2>1, <2>2 DEF IsRun
<1>4. ~FitsFrom(pat, txt, s + 1, mark)
  BY <1>d, Mismatched
<1>5. MayFit(c, pat, txt) <=>
        \E m \in mark .. tl + 1 : (s = 0 => m = mark) /\ FitsFrom(pat, txt, s + 1, m)
  BY <1>d DEF MayFit
<1>6. MayFit(w, pat, txt) <=>
        \E m \in mark + 1 .. tl + 1 : (s = 0 => m = mark + 1) /\ FitsFrom(pat, txt, s + 1, m)
  BY <1>1, <1>d DEF MayFit
<1>7. ASSUME MayFit(c, pat, txt) PROVE s # 0 /\ MayFit(w, pat, txt)
  <2>1. PICK m \in mark .. tl + 1 : (s = 0 => m = mark) /\ FitsFrom(pat, txt, s + 1, m)
    BY <1>5, <1>7
  <2>2. m # mark
    BY <1>4, <2>1
  <2>3. m \in mark + 1 .. tl + 1
    BY <1>0, <2>2
  <2> QED
    BY <1>6, <2>1, <2>2, <2>3
<1>8. ASSUME s # 0, MayFit(w, pat, txt) PROVE MayFit(c, pat, txt)
  <2>1. PICK m \in mark + 1 .. tl + 1 : FitsFrom(pat, txt, s + 1, m)
    BY <1>6, <1>8
  <2>2. m \in mark .. tl + 1
    BY <1>0
  <2> QED
    BY <1>5, <1>8, <2>1, <2>2
<1> QED
  BY <1>3, <1>7, <1>8, <1>d

\* At the end of the text only * may be left of the pattern.
LEMMA EndTurn ==
  ASSUME NEW pat, NEW txt, Len(pat) \in Nat, Len(txt) \in Nat,
         NEW c \in GlobCursors(pat, txt), IsRun(c, pat, txt), AtEnd(c, txt)
  PROVE  MayFit(c, pat, txt) <=> \A n \in c.p .. Len(pat) : pat[n] = Star
<1>l. PICK pl \in Nat, tl \in Nat : pl = Len(pat) /\ tl = Len(txt)
  OBVIOUS
<1>d. PICK p, t, mark : p = c.p /\ t = c.t /\ mark = c.mark
  OBVIOUS
<1>0. p \in 1 .. pl + 1 /\ t \in 1 .. tl + 1 /\ mark \in 1 .. tl + 1 /\ mark <= t
  BY <1>l, <1>d DEF GlobCursors
<1>1. t = tl + 1
  <2>1. t > tl
    BY <1>d, <1>l DEF AtEnd
  <2> QED
    BY <1>0, <2>1
<1>2. FitsFrom(pat, txt, p, t) <=> \A n \in p .. Len(pat) : pat[n] = Star
  BY <1>0, <1>1, <1>l, StarsFit
<1>3. ASSUME MayFit(c, pat, txt) PROVE FitsFrom(pat, txt, p, t)
  <2>1. PICK m \in c.mark .. Len(txt) + 1 : FitsFrom(pat, txt, c.star + 1, m)
    BY <1>3 DEF MayFit
  <2>2. m + (c.t - c.mark) <= Len(txt) + 1 /\ FitsFrom(pat, txt, c.p, m + (c.t - c.mark))
    BY <2>1, RunTakes
  <2>3. m \in mark .. tl + 1 /\ m + (t - mark) <= tl + 1
    BY <1>d, <1>l, <2>2
  <2>4. m + (t - mark) = t
    BY <1>0, <1>1, <2>3
  <2> QED
    BY <1>d, <2>2, <2>4
<1>4. ASSUME FitsFrom(pat, txt, p, t) PROVE MayFit(c, pat, txt)
  <2>1. FitsFrom(pat, txt, c.star + 1, c.mark)
    BY <1>4, <1>d, RunFits
  <2>2. c.mark \in c.mark .. Len(txt) + 1
    BY <1>0, <1>d, <1>l
  <2> QED
    BY <2>1, <2>2 DEF MayFit
<1> QED
  BY <1>2, <1>3, <1>4, <1>d

\* At a * the run is behind: the pattern may fit if the rest of it fits here.
LEMMA StarFitsRun ==
  ASSUME NEW pat, NEW txt, Len(pat) \in Nat, Len(txt) \in Nat,
         NEW c \in GlobCursors(pat, txt), IsRun(c, pat, txt), AtStar(c, pat, txt)
  PROVE  MayFit(c, pat, txt) <=> FitsFrom(pat, txt, c.p, c.t)
<1>l. PICK pl \in Nat, tl \in Nat : pl = Len(pat) /\ tl = Len(txt)
  OBVIOUS
<1>d. PICK p, t, mark : p = c.p /\ t = c.t /\ mark = c.mark
  OBVIOUS
<1>0. /\ p \in 1 .. pl + 1 /\ t \in 1 .. tl + 1 /\ mark \in 1 .. tl + 1 /\ mark <= t
      /\ p <= pl /\ pat[p] = Star
  BY <1>l, <1>d DEF GlobCursors, AtStar
<1>1. p \in 1 .. Len(pat) /\ t \in 1 .. Len(txt) + 1
  BY <1>0, <1>l
<1>2. ASSUME MayFit(c, pat, txt) PROVE FitsFrom(pat, txt, p, t)
  <2>1. PICK m \in c.mark .. Len(txt) + 1 : FitsFrom(pat, txt, c.star + 1, m)
    BY <1>2 DEF MayFit
  <2>2. PICK n : n = m + (c.t - c.mark)
    OBVIOUS
  <2>3. n <= Len(txt) + 1 /\ FitsFrom(pat, txt, p, n)
    BY <1>d, <2>1, <2>2, RunTakes
  <2>4. n \in t .. Len(txt) + 1
    <3>1. m \in mark .. tl + 1 /\ n = m + (t - mark) /\ n <= tl + 1
      BY <1>d, <1>l, <2>2, <2>3
    <3>2. n \in t .. tl + 1
      BY <1>0, <3>1
    <3> QED
      BY <1>l, <3>2
  <2>5. n \in 1 .. Len(txt) + 1 /\ p \in 1 .. Len(pat)
    BY <1>1, <2>4
  <2>6. PICK k \in n .. Len(txt) + 1 : FitsFrom(pat, txt, p + 1, k)
    BY <1>0, <2>3, <2>5, StarFits
  <2>7. k \in t .. Len(txt) + 1
    BY <1>1, <2>4, <2>6
  <2> QED
    BY <1>0, <1>1, <2>6, <2>7, StarFits
<1>3. ASSUME FitsFrom(pat, txt, p, t) PROVE MayFit(c, pat, txt)
  <2>1. FitsFrom(pat, txt, c.star + 1, c.mark)
    BY <1>3, <1>d, RunFits
  <2>2. c.mark \in c.mark .. Len(txt) + 1
    BY <1>0, <1>d, <1>l
  <2> QED
    BY <2>1, <2>2 DEF MayFit
<1> QED
  BY <1>2, <1>3, <1>d

\* What the loop gives at a cursor is whether it may fit.
LEMMA TurnFits ==
  ASSUME NEW pat, NEW txt, Len(pat) \in Nat, Len(txt) \in Nat, NEW f,
         NEW c \in GlobCursors(pat, txt), IsRun(c, pat, txt), NEW v, IsTurn(v, f, pat, txt, c),
         \A w \in GlobCursors(pat, txt) :
           Weight(w, pat, txt) < Weight(c, pat, txt) /\ IsRun(w, pat, txt) => f[w] = MayFit(w, pat, txt)
  PROVE  v = MayFit(c, pat, txt)
<1>b. MayFit(c, pat, txt) \in BOOLEAN
  BY DEF MayFit
<1>1. CASE AtEnd(c, txt)
  <2>1. v = (\A n \in c.p .. Len(pat) : pat[n] = Star)
    BY <1>1 DEF IsTurn
  <2>2. MayFit(c, pat, txt) <=> \A n \in c.p .. Len(pat) : pat[n] = Star
    BY <1>1, EndTurn
  <2> QED
    BY <1>b, <2>1, <2>2
<1>2. CASE AtStar(c, pat, txt)
  <2>1. v = f[Starred(c)]
    BY <1>2 DEF IsTurn
  <2>2. /\ Starred(c) \in GlobCursors(pat, txt)
        /\ Weight(Starred(c), pat, txt) < Weight(c, pat, txt)
    BY <1>2, TurnsEnd
  <2>3. /\ IsRun(Starred(c), pat, txt)
        /\ MayFit(Starred(c), pat, txt) <=> FitsFrom(pat, txt, c.p, c.t)
    BY <1>2, StarTurn
  <2>4. v = MayFit(Starred(c), pat, txt)
    BY <2>1, <2>2, <2>3
  <2>5. MayFit(c, pat, txt) <=> FitsFrom(pat, txt, c.p, c.t)
    BY <1>2, StarFitsRun
  <2> QED
    BY <1>b, <2>3, <2>4, <2>5 DEF MayFit
<1>3. CASE AtLetter(c, pat, txt)
  <2>1. v = f[Stepped(c)]
    BY <1>3 DEF IsTurn
  <2>2. /\ Stepped(c) \in GlobCursors(pat, txt)
        /\ Weight(Stepped(c), pat, txt) < Weight(c, pat, txt)
    BY <1>3, TurnsEnd
  <2>3. /\ IsRun(Stepped(c), pat, txt)
        /\ MayFit(Stepped(c), pat, txt) <=> MayFit(c, pat, txt)
    BY <1>3, LetterTurn
  <2>4. v = MayFit(Stepped(c), pat, txt)
    BY <2>1, <2>2, <2>3
  <2> QED
    BY <1>b, <2>3, <2>4 DEF MayFit
<1>4. CASE AtMismatch(c, pat, txt)
  <2>1. v = (c.star # 0 /\ f[Retried(c)])
    BY <1>4 DEF IsTurn
  <2>2. /\ Retried(c) \in GlobCursors(pat, txt)
        /\ Weight(Retried(c), pat, txt) < Weight(c, pat, txt)
    BY <1>4, TurnsEnd
  <2>3. /\ IsRun(Retried(c), pat, txt)
        /\ MayFit(c, pat, txt) <=> (c.star # 0 /\ MayFit(Retried(c), pat, txt))
    BY <1>4, MismatchTurn
  <2>4. f[Retried(c)] = MayFit(Retried(c), pat, txt)
    BY <2>2, <2>3
  <2> QED
    BY <1>b, <2>1, <2>3, <2>4
<1> QED
  BY <1>1, <1>2, <1>3, <1>4 DEF AtMismatch

LEMMA GlobFits ==
  ASSUME NEW pat, NEW txt, Len(pat) \in Nat, Len(txt) \in Nat, NEW f, IsGlob(f, pat, txt),
         NEW c \in GlobCursors(pat, txt), IsRun(c, pat, txt)
  PROVE  f[c] = MayFit(c, pat, txt)
<1>C. PICK C : C = {w \in GlobCursors(pat, txt) : IsRun(w, pat, txt)}
  OBVIOUS
<1> DEFINE T == {i \in Nat : \A w \in C : Weight(w, pat, txt) < i => f[w] = MayFit(w, pat, txt)}
<1>0. \A w \in C : Weight(w, pat, txt) \in Nat
  BY <1>C, TurnsEnd
<1>1. 0 \in T
  <2>1. \A w \in C : ~(Weight(w, pat, txt) < 0)
    BY <1>0
  <2> QED
    BY <2>1
<1>2. ASSUME NEW i \in Nat, i \in T PROVE i + 1 \in T
  <2>1. ASSUME NEW w \in C, Weight(w, pat, txt) < i + 1 PROVE f[w] = MayFit(w, pat, txt)
    <3>1. w \in GlobCursors(pat, txt) /\ IsRun(w, pat, txt)
      BY <1>C
    <3>2. IsTurn(f[w], f, pat, txt, w)
      BY <3>1 DEF IsGlob
    <3>3. ASSUME NEW x \in GlobCursors(pat, txt),
                 Weight(x, pat, txt) < Weight(w, pat, txt), IsRun(x, pat, txt)
          PROVE  f[x] = MayFit(x, pat, txt)
      <4>1. x \in C
        BY <1>C, <3>3
      <4>2. Weight(x, pat, txt) < i
        BY <1>0, <2>1, <3>3, <4>1
      <4> QED
        BY <1>2, <4>1, <4>2
    <3>4. PICK v : v = f[w]
      OBVIOUS
    <3>5. v = MayFit(w, pat, txt)
      BY <3>1, <3>2, <3>3, <3>4, TurnFits
    <3> QED
      BY <3>4, <3>5
  <2> QED
    BY <2>1
<1>3. c \in C
  BY <1>C
<1>4. PICK n \in Nat : n = Weight(c, pat, txt) + 1
  BY <1>0, <1>3
<1>5. n \in T
  <2>1. \A i \in 0 .. n - 1 : i \in T => i + 1 \in T
    BY <1>2
  <2>2. \A i \in 0 .. n : i \in T
    <3> HIDE DEF T
    <3> QED
      BY <1>1, <2>1, UpTo
  <2> QED
    BY <2>2
<1>6. Weight(c, pat, txt) < n
  BY <1>0, <1>3, <1>4
<1> QED
  BY <1>3, <1>5, <1>6

\* The loop of glob_match, which goes back to the last * only, finds that a
\* name fits a pattern whenever the name can be cut to fit it, and only then.
THEOREM GlobMatchCorrect ==
  ASSUME NEW pat, NEW txt, Len(pat) \in Nat, Len(txt) \in Nat
  PROVE  GlobMatch(pat, txt) <=> PatternFits(pat, txt)
<1>l. PICK pl \in Nat, tl \in Nat : pl = Len(pat) /\ tl = Len(txt)
  OBVIOUS
<1>1. PICK f : IsGlob(f, pat, txt) /\ GlobMatch(pat, txt) = f[GlobStart]
  BY GlobMatchIs
<1>2. GlobStart.p = 1 /\ GlobStart.t = 1 /\ GlobStart.star = 0 /\ GlobStart.mark = 1
  BY DEF GlobStart
<1>3. GlobStart \in GlobCursors(pat, txt)
  <2>1. 1 \in 1 .. pl + 1 /\ 1 \in 1 .. tl + 1 /\ 0 \in 0 .. pl
    OBVIOUS
  <2> QED
    BY <1>l, <2>1 DEF GlobStart, GlobCursors
<1>4. IsRun(GlobStart, pat, txt)
  BY <1>2 DEF IsRun
<1>5. GlobMatch(pat, txt) = MayFit(GlobStart, pat, txt)
  BY <1>1, <1>3, <1>4, GlobFits
<1>6. MayFit(GlobStart, pat, txt) <=> FitsFrom(pat, txt, 1, 1)
  <2>1. MayFit(GlobStart, pat, txt) <=>
          \E m \in 1 .. Len(txt) + 1 : m = 1 /\ FitsFrom(pat, txt, 1, m)
    BY <1>2 DEF MayFit
  <2>2. 1 \in 1 .. Len(txt) + 1
    OBVIOUS
  <2> QED
    BY <2>1, <2>2
<1>7. FitsFrom(pat, txt, 1, 1) <=> PatternFits(pat, txt)
  BY DEF FitsFrom, IsCut, PatternFits
<1> QED
  BY <1>5, <1>6, <1>7

\* The places a of r are the first of the places b of s.
FirstPlaces(a, b, r, s) == Len(r) <= Len(s) /\ \A n \in 1 .. Len(r) : a[n] = b[n]

\* Two selections of the same members are made at the same places.
LEMMA SamePlaces ==
  ASSUME NEW r, NEW s, NEW ks, NEW S, Len(r) \in Nat, Len(s) \in Nat, Len(ks) \in Nat,
         NEW a \in [1 .. Len(r) -> 1 .. Len(ks)], SelectedAt(a, r, ks, S),
         NEW b \in [1 .. Len(s) -> 1 .. Len(ks)], SelectedAt(b, s, ks, S)
  PROVE  FirstPlaces(a, b, r, s)
<1>l. PICK x \in Nat, y \in Nat, z \in Nat : x = Len(r) /\ y = Len(s) /\ z = Len(ks)
  OBVIOUS
<1>a. /\ a \in [1 .. x -> 1 .. z] /\ \A m, n \in 1 .. x : m < n => a[m] < a[n]
      /\ \A i \in 1 .. z : ks[i] \in S <=> \E n \in 1 .. x : a[n] = i
  BY <1>l DEF SelectedAt
<1>b. /\ b \in [1 .. y -> 1 .. z] /\ \A m, n \in 1 .. y : m < n => b[m] < b[n]
      /\ \A i \in 1 .. z : ks[i] \in S <=> \E n \in 1 .. y : b[n] = i
  BY <1>l DEF SelectedAt
<1>1. \A i : (\E n \in 1 .. x : a[n] = i) <=> (\E n \in 1 .. y : b[n] = i)
  <2>1. ASSUME NEW n \in 1 .. x PROVE \E m \in 1 .. y : b[m] = a[n]
    <3>1. a[n] \in 1 .. z
      BY <1>a
    <3> QED
      BY <1>a, <1>b, <3>1
  <2>2. ASSUME NEW n \in 1 .. y PROVE \E m \in 1 .. x : a[m] = b[n]
    <3>1. b[n] \in 1 .. z
      BY <1>b
    <3> QED
      BY <1>a, <1>b, <3>1
  <2> QED
    BY <2>1, <2>2
<1> DEFINE T == {k \in Nat : k <= y /\ \A n \in 1 .. k : a[n] = b[n]}
<1>2. 0 \in T
  OBVIOUS
<1>3. ASSUME NEW k \in 0 .. x - 1, k \in T PROVE k + 1 \in T
  <2>n. PICK n \in 1 .. x : n = k + 1
    OBVIOUS
  <2>0. k <= y /\ \A j \in 1 .. k : a[j] = b[j]
    BY <1>3
  <2>1. PICK m \in 1 .. y : b[m] = a[n]
    BY <1>1
  <2>2. m \notin 1 .. k
    <3>1. ASSUME m \in 1 .. k PROVE FALSE
      <4>1. m \in 1 .. x /\ m < n /\ a[m] = a[n]
        BY <2>0, <2>1, <2>n, <3>1
      <4>2. a[m] < a[n] /\ a[m] \in Int
        BY <1>a, <4>1
      <4> QED
        BY <4>1, <4>2
    <3> QED
      BY <3>1
  <2>3. n \in 1 .. y /\ n <= m
    BY <2>2, <2>n
  <2>4. PICK j \in 1 .. x : a[j] = b[n]
    BY <1>1, <2>3
  <2>5. j \notin 1 .. k
    <3>1. ASSUME j \in 1 .. k PROVE FALSE
      <4>1. j \in 1 .. y /\ j < n /\ b[j] = b[n]
        BY <2>0, <2>4, <2>n, <3>1
      <4>2. b[j] < b[n] /\ b[j] \in Int
        BY <1>b, <2>3, <4>1
      <4> QED
        BY <4>1, <4>2
    <3> QED
      BY <3>1
  <2>6. n <= j
    BY <2>5, <2>n
  <2>7. a[n] \in Int /\ b[n] \in Int /\ a[j] \in Int /\ b[m] \in Int
    BY <1>a, <1>b, <2>3
  <2>8. a[n] <= a[j]
    <3>1. n < j => a[n] < a[j]
      BY <1>a
    <3> QED
      BY <2>6, <2>7, <3>1
  <2>9. b[n] <= b[m]
    <3>1. n < m => b[n] < b[m]
      BY <1>b, <2>3
    <3> QED
      BY <2>3, <2>7, <3>1
  <2>10. a[n] = b[n]
    BY <2>1, <2>4, <2>7, <2>8, <2>9
  <2>11. \A i \in 1 .. k + 1 : i \in 1 .. k \/ i = n
    BY <2>n
  <2>12. k + 1 \in Nat /\ k + 1 <= y
    BY <2>3, <2>n
  <2>13. \A i \in 1 .. k + 1 : a[i] = b[i]
    BY <2>0, <2>10, <2>11
  <2> QED
    BY <2>12, <2>13
<1>4. x \in T
  <2>1. \A k \in 0 .. x : k \in T
    <3> HIDE DEF T
    <3> QED
      BY <1>2, <1>3, UpTo
  <2>2. x \in 0 .. x
    OBVIOUS
  <2> QED
    BY <2>1, <2>2
<1>5. x <= y /\ \A n \in 1 .. x : a[n] = b[n]
  BY <1>4
<1>6. 1 .. Len(r) = 1 .. x /\ Len(r) <= Len(s)
  BY <1>5, <1>l
<1> QED
  BY <1>5, <1>6 DEF FirstPlaces

\* And so they are the same.
LEMMA SelectsOnce ==
  ASSUME NEW ks, NEW S, Len(ks) \in Nat, NEW r, Selects(r, ks, S), NEW s, Selects(s, ks, S)
  PROVE  r = s
<1>1. PICK a \in [1 .. Len(r) -> 1 .. Len(ks)] : SelectedAt(a, r, ks, S)
  BY DEF Selects
<1>2. PICK b \in [1 .. Len(s) -> 1 .. Len(ks)] : SelectedAt(b, s, ks, S)
  BY DEF Selects
<1>3. r \in Seq(S) /\ s \in Seq(S)
  BY DEF Selects
<1>4. Len(r) \in Nat /\ Len(s) \in Nat
  BY <1>3
<1>p. FirstPlaces(a, b, r, s) /\ FirstPlaces(b, a, s, r)
  BY <1>1, <1>2, <1>4, SamePlaces
<1>5. Len(r) <= Len(s) /\ \A n \in 1 .. Len(r) : a[n] = b[n]
  BY <1>p DEF FirstPlaces
<1>6. Len(s) <= Len(r)
  BY <1>p DEF FirstPlaces
<1>7. Len(r) = Len(s)
  BY <1>4, <1>5, <1>6
<1>8. ASSUME NEW n \in 1 .. Len(r) PROVE r[n] = s[n]
  <2>1. r[n] = ks[a[n]]
    BY <1>1 DEF SelectedAt
  <2>2. s[n] = ks[b[n]]
    BY <1>2, <1>7 DEF SelectedAt
  <2> QED
    BY <1>5, <2>1, <2>2
<1> QED
  BY <1>3, <1>7, <1>8

\* What is kept so far of a sequence.
KeptAt(at, r, ks, S, i) ==
  /\ at \in [1 .. Len(r) -> 1 .. i]
  /\ \A m, n \in 1 .. Len(r) : m < n => at[m] < at[n]
  /\ \A n \in 1 .. Len(r) : r[n] = ks[at[n]]
  /\ \A j \in 1 .. i : ks[j] \in S <=> \E n \in 1 .. Len(r) : at[n] = j

LEMMA KeptOne ==
  ASSUME NEW ks, NEW S, NEW r \in Seq(S), NEW i \in Nat, NEW at, KeptAt(at, r, ks, S, i)
  PROVE  /\ ks[i + 1] \in S => \E b : KeptAt(b, r \o <<ks[i + 1]>>, ks, S, i + 1)
         /\ ks[i + 1] \notin S => \E b : KeptAt(b, r \o << >>, ks, S, i + 1)
<1>l. PICK x \in Nat : x = Len(r)
  OBVIOUS
<1>a. /\ at \in [1 .. x -> 1 .. i] /\ \A m, n \in 1 .. x : m < n => at[m] < at[n]
      /\ \A n \in 1 .. x : r[n] = ks[at[n]]
      /\ \A j \in 1 .. i : ks[j] \in S <=> \E n \in 1 .. x : at[n] = j
  BY <1>l DEF KeptAt
<1>1. ASSUME ks[i + 1] \in S PROVE \E b : KeptAt(b, r \o <<ks[i + 1]>>, ks, S, i + 1)
  <2>q. PICK q : q = r \o <<ks[i + 1]>>
    OBVIOUS
  <2>1. Len(q) = x + 1 /\ (\A n \in 1 .. x : q[n] = r[n]) /\ q[x + 1] = ks[i + 1]
    <3>1. /\ r \o <<ks[i + 1]>> = Append(r, ks[i + 1])
          /\ Len(Append(r, ks[i + 1])) = Len(r) + 1
          /\ \A n \in 1 .. Len(r) : Append(r, ks[i + 1])[n] = r[n]
          /\ Append(r, ks[i + 1])[Len(r) + 1] = ks[i + 1]
      BY <1>1, AppendedLast
    <3> QED
      BY <1>l, <2>q, <3>1
  <2>b. PICK b : b = [n \in 1 .. x + 1 |-> IF n = x + 1 THEN i + 1 ELSE at[n]]
    OBVIOUS
  <2>2. b \in [1 .. x + 1 -> 1 .. i + 1] /\ b[x + 1] = i + 1 /\ \A n \in 1 .. x : b[n] = at[n]
    <3>1. \A n \in 1 .. x + 1 : n # x + 1 => n \in 1 .. x
      OBVIOUS
    <3>2. \A n \in 1 .. x : n \in 1 .. x + 1 /\ n # x + 1 /\ at[n] \in 1 .. i + 1
      BY <1>a
    <3> QED
      BY <2>b, <3>1, <3>2
  <2>3. \A n \in 1 .. x + 1 : n = x + 1 \/ n \in 1 .. x
    OBVIOUS
  <2>4. ASSUME NEW m \in 1 .. x + 1, NEW n \in 1 .. x + 1, m < n PROVE b[m] < b[n]
    <3>1. m \in 1 .. x
      BY <2>4
    <3>2. at[m] \in 1 .. i
      BY <1>a, <3>1
    <3>3. CASE n = x + 1
      BY <2>2, <3>1, <3>2, <3>3
    <3>4. CASE n \in 1 .. x
      BY <1>a, <2>2, <2>4, <3>1, <3>4
    <3> QED
      BY <2>3, <3>3, <3>4
  <2>5. ASSUME NEW n \in 1 .. x + 1 PROVE q[n] = ks[b[n]]
    BY <1>a, <2>1, <2>2, <2>3
  <2>6. ASSUME NEW j \in 1 .. i + 1 PROVE ks[j] \in S <=> \E n \in 1 .. x + 1 : b[n] = j
    <3>1. CASE j = i + 1
      <4>1. x + 1 \in 1 .. x + 1
        OBVIOUS
      <4> QED
        BY <1>1, <2>2, <3>1, <4>1
    <3>2. CASE j # i + 1
      <4>1. j \in 1 .. i
        BY <3>2
      <4>2. (\E n \in 1 .. x + 1 : b[n] = j) <=> (\E n \in 1 .. x : at[n] = j)
        <5>1. \A n \in 1 .. x : n \in 1 .. x + 1
          OBVIOUS
        <5> QED
          BY <2>2, <2>3, <3>2, <5>1
      <4> QED
        BY <1>a, <4>1, <4>2
    <3> QED
      BY <3>1, <3>2
  <2>7. KeptAt(b, q, ks, S, i + 1)
    BY <2>1, <2>2, <2>4, <2>5, <2>6 DEF KeptAt
  <2> QED
    BY <2>7, <2>q
<1>2. ASSUME ks[i + 1] \notin S PROVE \E b : KeptAt(b, r \o << >>, ks, S, i + 1)
  <2>1. r \o << >> = r
    OBVIOUS
  <2>2. at \in [1 .. x -> 1 .. i + 1]
    <3>1. \A n \in 1 .. i : n \in 1 .. i + 1
      OBVIOUS
    <3> QED
      BY <1>a, <3>1
  <2>3. ASSUME NEW j \in 1 .. i + 1 PROVE ks[j] \in S <=> \E n \in 1 .. x : at[n] = j
    <3>1. CASE j = i + 1
      <4>1. \A n \in 1 .. x : at[n] # j
        BY <1>a, <3>1
      <4> QED
        BY <1>2, <3>1, <4>1
    <3>2. CASE j # i + 1
      <4>1. j \in 1 .. i
        BY <3>2
      <4> QED
        BY <1>a, <4>1
    <3> QED
      BY <3>1, <3>2
  <2>4. KeptAt(at, r, ks, S, i + 1)
    BY <1>a, <1>l, <2>2, <2>3 DEF KeptAt
  <2> QED
    BY <2>1, <2>4
<1> QED
  BY <1>1, <1>2

\* What is kept of a sequence is a selection.
LEMMA KeepingSelects ==
  ASSUME NEW S, NEW ks, NEW n \in Nat, DOMAIN ks = 1 .. n, Len(ks) = n
  PROVE  Selects(Keeping(ks, S), ks, S)
<1>ss. PICK ss : ss = [m \in DOMAIN ks |-> IF ks[m] \in S THEN <<ks[m]>> ELSE << >>]
  OBVIOUS
<1>1. ss \in Seq(Seq(S)) /\ Len(ss) = n
  <2>1. \A m \in 1 .. n : (IF ks[m] \in S THEN <<ks[m]>> ELSE << >>) \in Seq(S)
    OBVIOUS
  <2> QED
    BY <1>ss, <2>1
<1>2. \A m \in 1 .. n : ss[m] = IF ks[m] \in S THEN <<ks[m]>> ELSE << >>
  BY <1>ss
<1>3. PICK f : IsFlattening(f, ss, S)
  BY <1>1, FlatteningExists
<1>4. f \in [0 .. n -> Seq(S)] /\ f[0] = << >> /\ \A i \in 1 .. n : f[i] = f[i - 1] \o ss[i]
  BY <1>1, <1>3 DEF IsFlattening
<1>5. Keeping(ks, S) = f[n]
  BY <1>1, <1>3, <1>ss, FlattenIs DEF Keeping
<1> DEFINE T == {i \in Nat : \E at : KeptAt(at, f[i], ks, S, i)}
<1>6. 0 \in T
  <2>e. PICK e : e = << >>
    OBVIOUS
  <2>1. Len(e) = 0 /\ e \in [1 .. 0 -> 1 .. 0]
    BY <2>e
  <2>2. 1 .. 0 = {}
    OBVIOUS
  <2>3. KeptAt(e, e, ks, S, 0)
    BY <2>1, <2>2 DEF KeptAt
  <2> QED
    BY <1>4, <2>3, <2>e
<1>7. ASSUME NEW i \in 0 .. n - 1, i \in T PROVE i + 1 \in T
  <2>1. PICK at : KeptAt(at, f[i], ks, S, i)
    BY <1>7
  <2>2. i \in Nat /\ i \in 0 .. n /\ i + 1 \in 1 .. n /\ (i + 1) - 1 = i
    OBVIOUS
  <2>3. f[i] \in Seq(S) /\ f[i + 1] = f[i] \o ss[i + 1]
    BY <1>4, <2>2
  <2>4. CASE ks[i + 1] \in S
    <3>1. ss[i + 1] = <<ks[i + 1]>>
      BY <1>2, <2>2, <2>4
    <3>2. \E b : KeptAt(b, f[i] \o <<ks[i + 1]>>, ks, S, i + 1)
      BY <2>1, <2>2, <2>3, <2>4, KeptOne
    <3>3. f[i + 1] = f[i] \o <<ks[i + 1]>>
      BY <2>3, <3>1
    <3>4. \E b : KeptAt(b, f[i + 1], ks, S, i + 1)
      BY <3>2, <3>3
    <3> QED
      BY <2>2, <3>4
  <2>5. CASE ks[i + 1] \notin S
    <3>1. ss[i + 1] = << >>
      BY <1>2, <2>2, <2>5
    <3>2. \E b : KeptAt(b, f[i] \o << >>, ks, S, i + 1)
      BY <2>1, <2>2, <2>3, <2>5, KeptOne
    <3>3. f[i + 1] = f[i] \o << >>
      BY <2>3, <3>1
    <3>4. \E b : KeptAt(b, f[i + 1], ks, S, i + 1)
      BY <3>2, <3>3
    <3> QED
      BY <2>2, <3>4
  <2> QED
    BY <2>4, <2>5
<1>8. n \in T
  <2>1. \A i \in 0 .. n : i \in T
    <3> HIDE DEF T
    <3> QED
      BY <1>6, <1>7, UpTo
  <2>2. n \in 0 .. n
    OBVIOUS
  <2> QED
    BY <2>1, <2>2
<1>9. PICK r, at : r = f[n] /\ KeptAt(at, r, ks, S, n)
  BY <1>8
<1>10. r \in Seq(S)
  <2>1. n \in 0 .. n
    OBVIOUS
  <2> QED
    BY <1>4, <1>9, <2>1
<1>11. at \in [1 .. Len(r) -> 1 .. Len(ks)] /\ SelectedAt(at, r, ks, S)
  BY <1>9 DEF KeptAt, SelectedAt
<1> QED
  BY <1>5, <1>9, <1>10, <1>11 DEF Selects

\* Two children cannot both be the first of a name.
LEMMA FirstOnce ==
  ASSUME IsHive(hive), NoKey \notin Ids, NEW k \in Ids, NEW name,
         NEW c, IsFirst(c, k, name), NEW b, IsFirst(b, k, name)
  PROVE  c = b
<1>h. PICK ks \in Seq(Ids), x \in Nat : ks = hive.kids[k] /\ x = Len(hive.kids[k])
  <2>1. hive.kids[k] \in Seq(Ids)
    BY DEF IsHive
  <2> QED
    BY <2>1
<1>n. PICK nm : nm = hive.name
  OBVIOUS
<1>1. \A y : IsFirst(y, k, name) <=>
        \/ y = NoKey /\ \A n \in 1 .. x : ~(nm[ks[n]] = name)
        \/ \E n \in 1 .. x : y = ks[n] /\ nm[ks[n]] = name /\ \A m \in 1 .. n - 1 : ~(nm[ks[m]] = name)
  BY <1>h, <1>n DEF IsFirst
<1>2. CASE \A n \in 1 .. x : ~(nm[ks[n]] = name)
  BY <1>1, <1>2
<1>3. CASE \E n \in 1 .. x : nm[ks[n]] = name
  <2>1. PICK n \in 1 .. x : c = ks[n] /\ nm[ks[n]] = name /\ \A m \in 1 .. n - 1 : ~(nm[ks[m]] = name)
    BY <1>1, <1>3
  <2>2. PICK m \in 1 .. x : b = ks[m] /\ nm[ks[m]] = name /\ \A i \in 1 .. m - 1 : ~(nm[ks[i]] = name)
    BY <1>1, <1>3
  <2>3. ~(m < n) /\ ~(n < m)
    <3>1. m < n => m \in 1 .. n - 1
      OBVIOUS
    <3>2. n < m => n \in 1 .. m - 1
      OBVIOUS
    <3> QED
      BY <2>1, <2>2, <3>1, <3>2
  <2>4. m = n
    BY <2>3
  <2> QED
    BY <2>1, <2>2, <2>4
<1> QED
  BY <1>2, <1>3

\* The child that is looked up is the first of its name.
LEMMA FirstNamedIsFirst ==
  ASSUME IsHive(hive), NEW k \in Ids, NEW name
  PROVE  IsFirst(FirstNamed(hive, k, name), k, name)
<1>h. PICK ks \in Seq(Ids), x \in Nat : ks = hive.kids[k] /\ x = Len(hive.kids[k])
  <2>1. hive.kids[k] \in Seq(Ids)
    BY DEF IsHive
  <2> QED
    BY <2>1
<1>n. PICK nm : nm = hive.name
  OBVIOUS
<1>s. PICK S : S = Named(hive, k, name)
  OBVIOUS
<1>0. DOMAIN ks = 1 .. x
  BY <1>h
<1>1. S = {n \in 1 .. x : nm[ks[n]] = name}
  BY <1>0, <1>h, <1>n, <1>s DEF Named
<1>2. PICK c : c = FirstNamed(hive, k, name)
  OBVIOUS
<1>3. CASE S = {}
  <2>1. c = NoKey
    BY <1>2, <1>3, <1>s DEF FirstNamed
  <2>2. \A n \in 1 .. x : ~(nm[ks[n]] = name)
    BY <1>1, <1>3
  <2> QED
    BY <1>2, <1>h, <1>n, <2>1, <2>2 DEF IsFirst
<1>4. CASE S # {}
  <2>1. PICK n : n = CHOOSE i \in S : \A m \in S : i <= m
    OBVIOUS
  <2>2. c = ks[n]
    BY <1>2, <1>4, <1>h, <1>s, <2>1 DEF FirstNamed
  <2>3. S \in SUBSET Nat
    BY <1>1
  <2>4. n \in S /\ \A m \in S : n <= m
    BY <1>4, <2>1, <2>3, LeastChosen
  <2>5. n \in 1 .. x /\ nm[ks[n]] = name
    BY <1>1, <2>4
  <2>6. ASSUME NEW m \in 1 .. n - 1 PROVE ~(nm[ks[m]] = name)
    <3>1. m \in 1 .. x /\ ~(n <= m)
      BY <2>5
    <3> QED
      BY <1>1, <2>4, <3>1
  <2> QED
    BY <1>2, <1>h, <1>n, <2>2, <2>5, <2>6 DEF IsFirst
<1> QED
  BY <1>3, <1>4

\* The names that a pattern is matched with are those it fits.
LEMMA MatchingFits ==
  ASSUME \A name \in Names : Len(Letters[name]) \in Nat,
         IsHive(hive), NEW k \in Ids, NEW pat, Len(pat) \in Nat
  PROVE  {c \in Range(hive.kids[k]) : GlobMatch(pat, Letters[hive.name[c]])}
           = {c \in Range(hive.kids[k]) : PatternFits(pat, Letters[hive.name[c]])}
<1>1. ASSUME NEW c \in Range(hive.kids[k])
      PROVE  GlobMatch(pat, Letters[hive.name[c]]) <=> PatternFits(pat, Letters[hive.name[c]])
  <2>1. hive.kids[k] \in Seq(Ids)
    BY DEF IsHive
  <2>2. c \in Ids
    BY <1>1, <2>1 DEF Range
  <2>3. hive.name[c] \in Names
    BY <2>2 DEF IsHive
  <2>4. PICK txt : txt = Letters[hive.name[c]] /\ Len(txt) \in Nat
    BY <2>3
  <2>5. GlobMatch(pat, txt) <=> PatternFits(pat, txt)
    BY <2>4, GlobMatchCorrect
  <2> QED
    BY <2>4, <2>5
<1> QED
  BY <1>1

\* A segment ranges over what it is to range over ...
LEMMA DomainIsRange ==
  ASSUME \A name \in Names : Len(Letters[name]) \in Nat,
         IsHive(hive), sets \in Seq(Names), NEW k \in Ids, NEW s, IsSegment(s)
  PROVE  IsRange(Domain(k, s), k, s)
<1>r. PICK r : r = Domain(k, s)
  OBVIOUS
<1>0. hive.kids[k] \in Seq(Ids)
  BY DEF IsHive
<1>1. CASE s.kind = "literal"
  <2>1. PICK c : c = FirstNamed(hive, k, s.name)
    OBVIOUS
  <2>2. IsFirst(c, k, s.name)
    BY <2>1, FirstNamedIsFirst
  <2>3. PICK ks : ks = <<c>>
    OBVIOUS
  <2>4. DOMAIN ks = 1 .. 1 /\ Len(ks) = 1
    BY <2>3
  <2>5. Selects(Keeping(ks, Ids), ks, Ids)
    BY <2>4, KeepingSelects
  <2>6. r = Keeping(ks, Ids)
    BY <1>1, <1>r, <2>1, <2>3 DEF Domain
  <2>7. \E e : IsFirst(e, k, s.name) /\ Selects(r, <<e>>, Ids)
    BY <2>2, <2>3, <2>5, <2>6
  <2> QED
    BY <1>1, <1>r, <2>7 DEF IsRange
<1>2. CASE s.kind = "controlset"
  <2>1. PICK cs : cs = [n \in DOMAIN sets |-> FirstNamed(hive, k, sets[n])]
    OBVIOUS
  <2>2. PICK x \in Nat : x = Len(sets) /\ DOMAIN sets = 1 .. x
    OBVIOUS
  <2>3. \A n \in 1 .. x : cs[n] = FirstNamed(hive, k, sets[n])
    BY <2>1, <2>2
  <2>4. ASSUME NEW n \in 1 .. x
        PROVE  FirstNamed(hive, k, sets[n]) \in Ids \union {NoKey} /\ IsFirst(cs[n], k, sets[n])
    <3>1. PICK name : name = sets[n]
      OBVIOUS
    <3>2. FirstNamed(hive, k, name) \in Ids \union {NoKey} /\ IsFirst(FirstNamed(hive, k, name), k, name)
      BY FirstNamedIsKey, FirstNamedIsFirst
    <3> QED
      BY <2>3, <3>1, <3>2
  <2>5. cs \in [1 .. x -> Ids \union {NoKey}]
    BY <2>1, <2>2, <2>4
  <2>6. DOMAIN cs = 1 .. x /\ Len(cs) = x
    <3>1. DOMAIN cs = 1 .. x
      BY <2>5
    <3>2. cs \in Seq(Ids \union {NoKey}) /\ Len(cs) = x
      BY <2>5, FunctionIsSeq
    <3> QED
      BY <3>1, <3>2
  <2>7. Selects(Keeping(cs, Ids), cs, Ids)
    BY <2>6, KeepingSelects
  <2>8. r = Keeping(cs, Ids)
    BY <1>2, <1>r, <2>1 DEF Domain, OfSets
  <2>9. \E e \in [1 .. Len(sets) -> Ids \union {NoKey}] :
          /\ \A n \in 1 .. Len(sets) : IsFirst(e[n], k, sets[n])
          /\ Selects(r, e, Ids)
    BY <2>2, <2>4, <2>5, <2>7, <2>8
  <2> QED
    BY <1>2, <1>r, <2>9 DEF IsRange
<1>3. CASE s.kind = "subkey"
  <2>1. PICK T : T = {c \in Range(hive.kids[k]) : GlobMatch(s.pattern, Letters[hive.name[c]])}
    OBVIOUS
  <2>2. T = {c \in Range(hive.kids[k]) : PatternFits(s.pattern, Letters[hive.name[c]])}
    <3>1. Len(s.pattern) \in Nat
      BY <1>3 DEF IsSegment
    <3> QED
      BY <2>1, <3>1, MatchingFits
  <2>3. PICK ks : ks = hive.kids[k]
    OBVIOUS
  <2>4. DOMAIN ks = 1 .. Len(ks) /\ Len(ks) \in Nat
    BY <1>0, <2>3
  <2>5. Selects(Keeping(ks, T), ks, T)
    BY <2>4, KeepingSelects
  <2>6. r = Keeping(ks, T)
    BY <1>3, <1>r, <2>1, <2>3 DEF Domain, Matching
  <2>7. Selects(r, hive.kids[k], {c \in Range(hive.kids[k]) : PatternFits(s.pattern, Letters[hive.name[c]])})
    BY <2>2, <2>3, <2>5, <2>6
  <2> QED
    BY <1>3, <1>r, <2>7 DEF IsRange
<1>4. CASE s.kind = "deep"
  <2>1. r = hive.kids[k]
    BY <1>4, <1>r DEF Domain
  <2> QED
    BY <1>4, <1>r, <2>1 DEF IsRange
<1> QED
  BY <1>1, <1>2, <1>3, <1>4 DEF IsSegment

\* ... and over nothing else.
LEMMA RangeOnce ==
  ASSUME NoKey \notin Ids, IsHive(hive), sets \in Seq(Names), NEW k \in Ids, NEW s, IsSegment(s),
         NEW r, IsRange(r, k, s), NEW q, IsRange(q, k, s)
  PROVE  r = q
<1>0. hive.kids[k] \in Seq(Ids) /\ Len(hive.kids[k]) \in Nat
  <2>1. hive.kids[k] \in Seq(Ids)
    BY DEF IsHive
  <2> QED
    BY <2>1
<1>1. CASE s.kind = "literal"
  <2>1. \A y : IsRange(y, k, s) => \E c : IsFirst(c, k, s.name) /\ Selects(y, <<c>>, Ids)
    BY <1>1 DEF IsRange
  <2>2. PICK c : IsFirst(c, k, s.name) /\ Selects(r, <<c>>, Ids)
    BY <2>1
  <2>3. PICK b : IsFirst(b, k, s.name) /\ Selects(q, <<b>>, Ids)
    BY <2>1
  <2>4. b = c
    BY <2>2, <2>3, FirstOnce
  <2>5. PICK ks : ks = <<c>>
    OBVIOUS
  <2>6. Len(ks) \in Nat
    BY <2>5
  <2>7. Selects(r, ks, Ids) /\ Selects(q, ks, Ids)
    BY <2>2, <2>3, <2>4, <2>5
  <2> QED
    BY <2>6, <2>7, SelectsOnce
<1>2. CASE s.kind = "controlset"
  <2>1. \A y : IsRange(y, k, s) =>
          \E e \in [1 .. Len(sets) -> Ids \union {NoKey}] :
            /\ \A n \in 1 .. Len(sets) : IsFirst(e[n], k, sets[n])
            /\ Selects(y, e, Ids)
    BY <1>2 DEF IsRange
  <2>x. PICK x \in Nat : x = Len(sets)
    OBVIOUS
  <2>2. PICK c \in [1 .. x -> Ids \union {NoKey}] :
          (\A n \in 1 .. x : IsFirst(c[n], k, sets[n])) /\ Selects(r, c, Ids)
    BY <2>1, <2>x
  <2>3. PICK b \in [1 .. x -> Ids \union {NoKey}] :
          (\A n \in 1 .. x : IsFirst(b[n], k, sets[n])) /\ Selects(q, b, Ids)
    BY <2>1, <2>x
  <2>4. ASSUME NEW n \in 1 .. x PROVE c[n] = b[n]
    <3>1. PICK y, z, name : y = c[n] /\ z = b[n] /\ name = sets[n]
      OBVIOUS
    <3>2. IsFirst(y, k, name) /\ IsFirst(z, k, name)
      BY <2>2, <2>3, <3>1
    <3>3. y = z
      BY <3>2, FirstOnce
    <3> QED
      BY <3>1, <3>3
  <2>5. c = b
    BY <2>4
  <2>6. Len(c) \in Nat
    <3>1. Len(c) = x
      BY FunctionIsSeq
    <3> QED
      BY <3>1
  <2>7. Selects(r, c, Ids) /\ Selects(q, c, Ids)
    BY <2>2, <2>3, <2>5
  <2> QED
    BY <2>6, <2>7, SelectsOnce
<1>3. CASE s.kind = "subkey"
  <2>1. PICK T : T = {c \in Range(hive.kids[k]) : PatternFits(s.pattern, Letters[hive.name[c]])}
    OBVIOUS
  <2>2. \A y : IsRange(y, k, s) => Selects(y, hive.kids[k], T)
    BY <1>3, <2>1 DEF IsRange
  <2>3. PICK ks : ks = hive.kids[k] /\ Len(ks) \in Nat
    BY <1>0
  <2>4. Selects(r, ks, T) /\ Selects(q, ks, T)
    BY <2>2, <2>3
  <2> QED
    BY <2>3, <2>4, SelectsOnce
<1>4. CASE s.kind = "deep"
  <2>1. \A y : IsRange(y, k, s) => y = hive.kids[k]
    BY <1>4 DEF IsRange
  <2> QED
    BY <2>1
<1> QED
  BY <1>1, <1>2, <1>3, <1>4 DEF IsSegment

\* So the range of a segment is what walk goes through for it.
LEMMA RangeIsDomain ==
  ASSUME IsHive(hive), sets \in Seq(Names), NEW k \in Ids, NEW used,
         IsSegment(template[used + 1])
  PROVE  RangeAfter(k, used) = Domain(k, template[used + 1])
<1>s. PICK s : s = template[used + 1]
  OBVIOUS
<1>0. NoKey \notin Ids /\ \A name \in Names : Len(Letters[name]) \in Nat
  BY ExpansionAssumption
<1>1. IsSegment(s)
  BY <1>s
<1>2. IsRange(Domain(k, s), k, s)
  BY <1>0, <1>1, DomainIsRange
<1>3. PICK r : r = CHOOSE y : IsRange(y, k, s)
  OBVIOUS
<1>4. IsRange(r, k, s)
  BY <1>2, <1>3
<1>5. r = Domain(k, s)
  BY <1>0, <1>1, <1>2, <1>4, RangeOnce
<1> QED
  BY <1>3, <1>5, <1>s DEF RangeAfter

-----------------------------------------------------------------------------
(***************************************************************************)
(* What is reported.  While walk is under way the calls are at the stages  *)
(* of one way of TemplateWays, and every match is either reported or ahead *)
(* of one of the calls: it leads to the call and on by a choice the call   *)
(* has not made yet.  A choice that is made moves what is ahead of a call  *)
(* to the call it makes; a call that returns has no match ahead of it; and *)
(* the match that is reported is the way itself, which was ahead.          *)
(***************************************************************************)

\* How many of the choices at a call are behind it or being tried.
Passed(f) == IF f.at = "loop" THEN Len(RangeAfter(f.key, f.used)) - Len(f.kids) ELSE 0

\* A call of walk is at a stage.
Holds(f, x) ==
  /\ x.key = f.key /\ x.used = f.used /\ x.path = f.path /\ x.depth = f.depth
  /\ f.at = "below" => KindAfter(f.used) = "deep"
  /\ f.at = "loop" =>
       /\ f.key \notin hive.kidsBad
       /\ Passed(f) \in Nat
       /\ \A i \in 1 .. Len(f.kids) : f.kids[i] = RangeAfter(f.key, f.used)[Passed(f) + i]

\* A call of walk has made another.
Leads(f, g, x, y) ==
  /\ f.at # "enter"
  /\ Passed(f) \in WaysOn(x) /\ y = After(x, Passed(f))
  /\ g.bound = (Passed(f) # 0 /\ KindAfter(f.used) # "literal")

\* The way that the calls under way have come, and the bindings on it.
IsWayOf(v, s, b) ==
  /\ v \in Seq(Stage) /\ Len(v) = Len(s)
  /\ \A n \in 1 .. Len(s) : Holds(s[n], v[n])
  /\ \A n \in 1 .. Len(s) - 1 : Leads(s[n], s[n + 1], v[n], v[n + 1])
  /\ s # << >> => v[1] = Start /\ s[1].bound = FALSE /\ b = v[Len(v)].bindings

\* A way is taken later by the n-th of the calls, whose own way is v: it leads
\* to the call and on by a choice that is not behind it.
AheadOf(w, v, s, n) ==
  /\ n <= Len(w) /\ \A m \in 1 .. n : w[m] = v[m]
  /\ s[n].at = "enter" \/ (n < Len(w) /\ w[n + 1].nth > Passed(s[n]))

Ahead(w, v, s) == \E n \in 1 .. Len(s) : AheadOf(w, v, s, n)

\* What is ahead is not reported, and all other matches are unless it is full.
Behind(v, s, ws, full) ==
  /\ \A n \in 1 .. Len(ws) : ~Ahead(ws[n], v, s)
  /\ ~full => \A w : IsMatch(w) => Ahead(w, v, s) \/ \E n \in 1 .. Len(ws) : ws[n] = w

WalkInv == \E v, ws : IsWayOf(v, stack, bindings) /\ Reports(hits, ws) /\ Behind(v, stack, ws, Full)

\* Without calls all is behind.
LEMMA NoneAhead ==
  ASSUME WalkInv
  PROVE  MatchesReported
<1>1. ASSUME stack = << >> PROVE \A w, v : ~Ahead(w, v, stack)
  BY <1>1 DEF Ahead
<1>2. PICK v, ws : Reports(hits, ws) /\ Behind(v, stack, ws, Full)
  BY DEF WalkInv
<1> QED
  BY <1>1, <1>2 DEF MatchesReported, Behind

\* The range of a segment is keys.
LEMMA RangeIsKeys ==
  ASSUME IInv, Typed, NEW k \in Ids, NEW used \in Nat, used < Len(template)
  PROVE  /\ RangeAfter(k, used) \in Seq(Ids) /\ Len(RangeAfter(k, used)) \in Nat
         /\ RangeAfter(k, used) = Domain(k, template[used + 1])
<1>1. used + 1 \in DOMAIN template
  BY DEF IInv, Typed, IsTemplate
<1>2. IsSegment(template[used + 1])
  BY <1>1 DEF Typed, IsTemplate
<1>3. RangeAfter(k, used) = Domain(k, template[used + 1])
  BY <1>2, RangeIsDomain DEF Typed
<1>4. RangeAfter(k, used) \in Seq(Ids)
  BY <1>2, <1>3, DomainIsKeys DEF Typed
<1> QED
  BY <1>3, <1>4

\* What follows a stage that is typed is typed.
LEMMA AfterIsStage ==
  ASSUME IInv, Typed, NEW x \in Stage, x.used < Len(template), NEW i \in WaysOn(x)
  PROVE  After(x, i) \in Stage /\ After(x, i).nth = i
<1>1. /\ x.key \in Ids /\ x.used \in Nat /\ x.path \in Seq(Names) /\ x.depth \in Nat
      /\ x.bindings \in Seq(Names) /\ Len(template) \in Nat
  BY DEF Stage, IInv
<1>2. i \in 0 .. Len(RangeAfter(x.key, x.used)) /\ Len(RangeAfter(x.key, x.used)) \in Nat
  BY <1>1, RangeIsKeys DEF WaysOn
<1>3. CASE i = 0
  <2>1. After(x, i) = [key |-> x.key, used |-> x.used + 1, nth |-> 0, path |-> x.path, depth |-> x.depth,
                       bindings |-> x.bindings]
    BY <1>3 DEF After, GivenWay, Stage
  <2> QED
    BY <1>1, <1>3, <2>1 DEF Stage
<1>4. CASE i # 0
  <2>child. PICK child : child = RangeAfter(x.key, x.used)[i]
    OBVIOUS
  <2>1. child \in Ids
    <3>1. i \in 1 .. Len(RangeAfter(x.key, x.used))
      BY <1>2, <1>4
    <3> QED
      BY <1>1, <2>child, <3>1, RangeIsKeys
  <2>name. PICK name : name = hive.name[child]
    OBVIOUS
  <2>2. name \in Names
    BY <2>1, <2>name DEF Typed, IsHive
  <2>used. PICK used : used = IF KindAfter(x.used) = "deep" THEN x.used ELSE x.used + 1
    OBVIOUS
  <2>b. PICK b : b = IF KindAfter(x.used) = "literal" THEN x.bindings ELSE Append(x.bindings, name)
    OBVIOUS
  <2>3. used \in Nat /\ b \in Seq(Names) /\ Append(x.path, name) \in Seq(Names) /\ x.depth + 1 \in Nat /\ i \in Nat
    BY <1>1, <1>2, <2>2, <2>used, <2>b
  <2>4. After(x, i) = [key |-> child, used |-> used, nth |-> i, path |-> Append(x.path, name),
                       depth |-> x.depth + 1, bindings |-> b]
    BY <1>4, <2>child, <2>name, <2>used, <2>b DEF After, Below
  <2> QED
    BY <2>1, <2>3, <2>4 DEF Stage
<1> QED
  BY <1>3, <1>4

\* A sequence without its last member keeps the others.
LEMMA LastLeft ==
  ASSUME NEW S, NEW s \in Seq(S), s # << >>
  PROVE  /\ Front(s) \in Seq(S) /\ Len(Front(s)) = Len(s) - 1 /\ Len(s) \in Nat \ {0}
         /\ \A m \in 1 .. Len(s) - 1 : Front(s)[m] = s[m]
<1>n. PICK n \in Nat \ {0} : n = Len(s)
  OBVIOUS
<1>1. Front(s) \in Seq(S)
  BY FrontOf
<1>2. Len(Front(s)) = n - 1 /\ \A m \in 1 .. n - 1 : Front(s)[m] = s[m]
  BY <1>n DEF Front
<1> QED
  BY <1>n, <1>1, <1>2

\* A match goes on from a stage with a segment left, and stops without one.
LEMMA MatchGoesOn ==
  ASSUME IInv, Typed, NEW w, IsMatch(w), NEW n \in Nat \ {0}, n <= Len(w)
  PROVE  /\ w[n] \in Stage
         /\ w[n].used = Len(template) => n = Len(w)
         /\ w[n].used < Len(template) =>
              /\ n < Len(w)
              /\ w[n + 1].nth \in WaysOn(w[n]) /\ w[n + 1] = After(w[n], w[n + 1].nth)
<1>l. PICK l \in Nat : l = Len(w)
  BY DEF IsMatch
<1>1. /\ w \in Seq(Stage) /\ w[l].used = Len(template)
      /\ \A m \in 1 .. l - 1 : \E i \in WaysOn(w[m]) : w[m + 1] = After(w[m], i)
  BY <1>l DEF IsMatch
<1>2. w[n] \in Stage
  BY <1>l, <1>1
<1>len. PICK len \in Nat : len = Len(template)
  BY DEF IInv
<1>3. CASE n = l
  BY <1>l, <1>1, <1>2, <1>3, <1>len
<1>4. CASE n < l
  <2>1. PICK i \in WaysOn(w[n]) : w[n + 1] = After(w[n], i)
    BY <1>1, <1>4
  <2>2. w[n].used # len
    BY <1>len, <2>1 DEF WaysOn
  <2>3. w[n].used < len => w[n + 1].nth = i
    BY <1>2, <1>len, <2>1, AfterIsStage
  <2> QED
    BY <1>2, <1>4, <1>l, <1>len, <2>1, <2>2, <2>3
<1> QED
  BY <1>l, <1>3, <1>4

\* The way of the calls without the one that returns, and what is ahead of them.
LEMMA WayBack ==
  ASSUME NEW s \in Seq(Frame), s # << >>, NEW v, NEW b, IsWayOf(v, s, b),
         NEW e, e = IF s[Len(s)].bound THEN Front(b) ELSE b
  PROVE  /\ IsWayOf(Front(v), Front(s), e)
         /\ \A w : Ahead(w, Front(v), Front(s)) <=> \E n \in 1 .. Len(s) - 1 : AheadOf(w, v, s, n)
<1>n. PICK n \in Nat \ {0} : n = Len(s)
  OBVIOUS
<1>1. v \in Seq(Stage) /\ Len(v) = n /\ v # << >>
  BY <1>n DEF IsWayOf
<1>r. PICK r : r = Front(s)
  OBVIOUS
<1>y. PICK y : y = Front(v)
  OBVIOUS
<1>2. /\ y \in Seq(Stage) /\ Len(y) = n - 1 /\ Len(r) = n - 1
      /\ \A m \in 1 .. n - 1 : r[m] = s[m] /\ y[m] = v[m]
  BY <1>1, <1>n, <1>r, <1>y, LastLeft
<1>3. \A m \in 1 .. n - 1 : Holds(r[m], y[m])
  BY <1>2, <1>n DEF IsWayOf
<1>4. \A m \in 1 .. (n - 1) - 1 : Leads(r[m], r[m + 1], y[m], y[m + 1])
  <2> TAKE m \in 1 .. (n - 1) - 1
  <2>1. m \in 1 .. n - 1 /\ m + 1 \in 1 .. n - 1
    OBVIOUS
  <2> QED
    BY <1>2, <1>n, <2>1 DEF IsWayOf
<1>5. ASSUME r # << >> PROVE y[1] = Start /\ r[1].bound = FALSE /\ e = y[n - 1].bindings
  <2>1. n # 1
    BY <1>2, <1>5, <1>n, <1>r, LastLeft, EmptySeq
  <2>2. 1 \in 1 .. n - 1 /\ n - 1 \in 1 .. n - 1 /\ (n - 1) + 1 = n
    BY <2>1
  <2>3. y[1] = Start /\ r[1].bound = FALSE /\ b = v[n].bindings
    BY <1>1, <1>2, <1>n, <2>2 DEF IsWayOf
  <2>x. PICK x \in Stage : x = v[n - 1]
    BY <1>1, <2>2
  <2>i. PICK i : i = Passed(s[n - 1])
    OBVIOUS
  <2>4. v[n] = After(x, i) /\ s[n].bound = (i # 0 /\ KindAfter(s[n - 1].used) # "literal")
    BY <1>n, <2>2, <2>x, <2>i DEF IsWayOf, Leads
  <2>5. x.used = s[n - 1].used
    BY <1>n, <2>2, <2>x DEF IsWayOf, Holds
  <2>6. CASE i = 0
    <3>1. v[n].bindings = x.bindings
      BY <2>4, <2>6 DEF After, GivenWay, Stage
    <3> QED
      BY <1>2, <1>n, <2>2, <2>3, <2>4, <2>6, <2>x, <3>1
  <2>7. CASE i # 0 /\ KindAfter(x.used) = "literal"
    <3>1. v[n].bindings = x.bindings
      BY <2>4, <2>7 DEF After, Below
    <3> QED
      BY <1>2, <1>n, <2>2, <2>3, <2>4, <2>5, <2>7, <2>x, <3>1
  <2>8. CASE i # 0 /\ KindAfter(x.used) # "literal"
    <3>1. PICK name : v[n].bindings = Append(x.bindings, name)
      BY <2>4, <2>8 DEF After, Below
    <3>2. x.bindings \in Seq(Names)
      BY DEF Stage
    <3>T. PICK T : T = Names \union {name}
      OBVIOUS
    <3>3. x.bindings \in Seq(T) /\ name \in T
      BY <3>2, <3>T, SeqMonotonic
    <3>4. Front(Append(x.bindings, name)) = x.bindings
      BY <3>3 DEF Front
    <3>5. e = Front(b)
      BY <1>n, <2>4, <2>5, <2>8
    <3> QED
      BY <1>2, <2>2, <2>3, <2>x, <3>1, <3>4, <3>5
  <2> QED
    BY <2>3, <2>6, <2>7, <2>8
<1>6. IsWayOf(y, r, e)
  BY <1>2, <1>3, <1>4, <1>5 DEF IsWayOf
<1>7. ASSUME NEW w, NEW m \in 1 .. n - 1
      PROVE  AheadOf(w, y, r, m) <=> AheadOf(w, v, s, m)
  <2>1. r[m] = s[m] /\ \A i \in 1 .. m : y[i] = v[i]
    BY <1>2
  <2> QED
    BY <2>1 DEF AheadOf
<1>8. \A w : Ahead(w, y, r) <=> \E m \in 1 .. n - 1 : AheadOf(w, v, s, m)
  BY <1>2, <1>7 DEF Ahead
<1> QED
  BY <1>n, <1>r, <1>y, <1>6, <1>8

\* No step of walk changes the hive, the template or the control sets, and so
\* the ways there are.
LEMMA RangesStay ==
  ASSUME hive' = hive, template' = template, sets' = sets, NEW k, NEW used
  PROVE  RangeAfter(k, used)' = RangeAfter(k, used) /\ KindAfter(used)' = KindAfter(used)
<1>1. KindAfter(used)' = KindAfter(used)
  BY DEF KindAfter
<1>2. \A c, name : IsFirst(c, k, name)' <=> IsFirst(c, k, name)
  BY DEF IsFirst
<1>3. ASSUME NEW s, NEW r PROVE IsRange(r, k, s)' <=> IsRange(r, k, s)
  <2>1. PICK T : T = {c \in Range(hive.kids[k]) : PatternFits(s.pattern, Letters[hive.name[c]])}
    OBVIOUS
  <2>2. {c \in Range(hive.kids[k])' : PatternFits(s.pattern, Letters[hive.name[c]])'} = T
    BY <2>1
  <2>3. Selects(r, hive.kids[k], T)' <=> Selects(r, hive.kids[k], T)
    OBVIOUS
  <2> QED
    BY <1>2, <2>1, <2>2, <2>3 DEF IsRange
<1> DEFINE P(r) == IsRange(r, k, template[used + 1])
           Q(r) == IsRange(r, k, template[used + 1])'
<1>4. \A r : P(r) <=> Q(r)
  BY <1>3
<1>5. (CHOOSE r : P(r)) = (CHOOSE r : Q(r))
  <2> HIDE DEF P, Q
  <2> QED
    BY <1>4
<1> QED
  BY <1>1, <1>5 DEF RangeAfter

\* What is said of ways means the same in the next state.
LEMMA WaysStay ==
  ASSUME hive' = hive, template' = template, sets' = sets
  PROVE  /\ \A x : WaysOn(x)' = WaysOn(x)
         /\ \A x, i : After(x, i)' = After(x, i)
         /\ \A f : Passed(f)' = Passed(f)
         /\ \A w : IsMatch(w)' = IsMatch(w)
         /\ \A v, s, b : IsWayOf(v, s, b)' = IsWayOf(v, s, b)
         /\ \A w, v, s : Ahead(w, v, s)' = Ahead(w, v, s)
<1>1. \A k, used : RangeAfter(k, used)' = RangeAfter(k, used) /\ KindAfter(used)' = KindAfter(used)
  BY RangesStay
<1>2. \A x : WaysOn(x)' = WaysOn(x)
  BY <1>1 DEF WaysOn
<1>3. \A x, i : After(x, i)' = After(x, i)
  <2> TAKE x, i
  <2>1. /\ RangeAfter(x.key, x.used)' = RangeAfter(x.key, x.used)
        /\ KindAfter(x.used)' = KindAfter(x.used) /\ hive' = hive
    BY <1>1
  <2>2. Below(x, i)' = Below(x, i)
    BY <2>1 DEF Below
  <2> QED
    BY <2>2 DEF After, GivenWay
<1>4. \A f : Passed(f)' = Passed(f)
  BY <1>1 DEF Passed
<1>5. \A w : IsMatch(w)' = IsMatch(w)
  BY <1>2, <1>3 DEF IsMatch, Start, Stage
<1>6. \A f, x : Holds(f, x)' = Holds(f, x)
  BY <1>1, <1>4 DEF Holds
<1>7. \A f, g, x, y : Leads(f, g, x, y)' = Leads(f, g, x, y)
  BY <1>1, <1>2, <1>3, <1>4 DEF Leads
<1>8. \A v, s, b : IsWayOf(v, s, b)' = IsWayOf(v, s, b)
  <2> TAKE v, s, b
  <2>1. /\ \A n \in 1 .. Len(s) : Holds(s[n], v[n])' = Holds(s[n], v[n])
        /\ \A n \in 1 .. Len(s) - 1 :
             Leads(s[n], s[n + 1], v[n], v[n + 1])' = Leads(s[n], s[n + 1], v[n], v[n + 1])
    BY <1>6, <1>7, Zenon
  <2> QED
    BY <2>1, Zenon DEF IsWayOf, Start, Stage
<1>9. \A w, v, s : Ahead(w, v, s)' = Ahead(w, v, s)
  BY <1>4 DEF Ahead, AheadOf
<1> QED
  BY <1>2, <1>3, <1>4, <1>5, <1>8, <1>9

\* A way, and the matches reported, that fit the next state.
LEMMA WalkGoesOn ==
  ASSUME hive' = hive, template' = template, sets' = sets,
         NEW v, NEW ws, IsWayOf(v, stack', bindings'), Reports(hits', ws), Behind(v, stack', ws, Full')
  PROVE  WalkInv'
<1>1. /\ \A w : IsMatch(w)' = IsMatch(w)
      /\ \A y, s, b : IsWayOf(y, s, b)' = IsWayOf(y, s, b)
      /\ \A w, y, s : Ahead(w, y, s)' = Ahead(w, y, s)
  BY WaysStay
<1>2. \A hs, x : Reports(hs, x)' = Reports(hs, x)
  BY <1>1 DEF Reports, HitOf, Stage
<1>3. \A y, s, x, full : Behind(y, s, x, full)' = Behind(y, s, x, full)
  BY <1>1 DEF Behind
<1>s. PICK s : s = stack'
  OBVIOUS
<1>b. PICK b : b = bindings'
  OBVIOUS
<1>hs. PICK hs : hs = hits'
  OBVIOUS
<1>f. PICK full : full = Full'
  OBVIOUS
<1>4. IsWayOf(v, s, b)' /\ Reports(hs, ws)' /\ Behind(v, s, ws, full)'
  BY <1>1, <1>2, <1>3, <1>s, <1>b, <1>hs, <1>f
<1> QED
  BY <1>4, <1>s, <1>b, <1>hs, <1>f DEF WalkInv

\* The last of a sequence replaced, and one more behind it.
WithLast(s, f) == Front(s) \o <<f>>
WithNext(s, f) == Append(s, f)

\* The last of the calls goes on to something else, at the same stage.
LEMMA WayHeld ==
  ASSUME NEW s \in Seq(Frame), s # << >>, NEW v, NEW b, IsWayOf(v, s, b),
         NEW f \in Frame, f.bound = s[Len(s)].bound, Holds(f, v[Len(s)])
  PROVE  /\ WithLast(s, f) \in Seq(Frame) /\ Len(WithLast(s, f)) = Len(s) /\ WithLast(s, f)[Len(s)] = f
         /\ IsWayOf(v, WithLast(s, f), b)
         /\ \A w : \A n \in 1 .. Len(s) - 1 : AheadOf(w, v, WithLast(s, f), n) <=> AheadOf(w, v, s, n)
<1>t. PICK t : t = WithLast(s, f)
  OBVIOUS
<1>n. PICK n \in Nat \ {0} : n = Len(s)
  OBVIOUS
<1>r. PICK r : r = Front(s)
  OBVIOUS
<1>0. r \in Seq(Frame) /\ Len(r) = n - 1 /\ \A m \in 1 .. n - 1 : r[m] = s[m]
  BY <1>n, <1>r, LastLeft DEF Front
<1>1. t \in Seq(Frame) /\ Len(t) = n /\ t[n] = f /\ \A m \in 1 .. n - 1 : t[m] = s[m]
  <2>2. t = Append(r, f) /\ Append(r, f) \in Seq(Frame) /\ Len(Append(r, f)) = Len(r) + 1
        /\ (\A m \in 1 .. Len(r) : Append(r, f)[m] = r[m]) /\ Append(r, f)[Len(r) + 1] = f
    BY <1>0, <1>r, <1>t, AppendedLast DEF WithLast
  <2>3. t \in Seq(Frame) /\ Len(t) = Len(r) + 1 /\ t[Len(r) + 1] = f /\ \A m \in 1 .. Len(r) : t[m] = r[m]
    BY ONLY <2>2
  <2>4. Len(r) = n - 1 /\ Len(r) + 1 = n
    BY <1>0
  <2>5. t \in Seq(Frame) /\ Len(t) = n /\ t[n] = f
    BY <2>3, <2>4
  <2> QED
    BY <1>0, <2>3, <2>4, <2>5
<1>3. v \in Seq(Stage) /\ Len(v) = n
  BY <1>n DEF IsWayOf
<1>4. \A m \in 1 .. n : Holds(t[m], v[m])
  <2> TAKE m \in 1 .. n
  <2>1. CASE m = n
    BY <1>1, <1>n, <2>1
  <2>2. CASE m \in 1 .. n - 1
    <3>1. Holds(s[m], v[m])
      BY <1>n DEF IsWayOf
    <3> QED
      BY <1>1, <2>2, <3>1
  <2>3. m = n \/ m \in 1 .. n - 1
    OBVIOUS
  <2> QED
    BY <2>1, <2>2, <2>3
<1>5. \A m \in 1 .. n - 1 : Leads(t[m], t[m + 1], v[m], v[m + 1])
  <2> TAKE m \in 1 .. n - 1
  <2>1. Leads(s[m], s[m + 1], v[m], v[m + 1]) /\ t[m] = s[m]
    BY <1>1, <1>n DEF IsWayOf
  <2>2. t[m + 1].bound = s[m + 1].bound
    <3>1. CASE m + 1 = n
      BY <1>1, <1>n, <3>1
    <3>2. CASE m + 1 \in 1 .. n - 1
      BY <1>1, <3>2
    <3>3. m + 1 = n \/ m + 1 \in 1 .. n - 1
      OBVIOUS
    <3> QED
      BY <3>1, <3>2, <3>3
  <2> QED
    BY <2>1, <2>2 DEF Leads
<1>6. v[1] = Start /\ t[1].bound = FALSE /\ b = v[n].bindings
  <2>1. v[1] = Start /\ s[1].bound = FALSE /\ b = v[n].bindings
    BY <1>3, <1>n DEF IsWayOf
  <2>2. t[1].bound = s[1].bound
    <3>1. CASE n = 1
      BY <1>1, <1>n, <3>1
    <3>2. CASE n # 1
      <4>1. 1 \in 1 .. n - 1
        BY <3>2
      <4> QED
        BY <1>1, <4>1
    <3> QED
      BY <3>1, <3>2
  <2> QED
    BY <2>1, <2>2
<1>7. IsWayOf(v, t, b)
  BY <1>1, <1>3, <1>4, <1>5, <1>6 DEF IsWayOf
<1>8. \A w : \A m \in 1 .. n - 1 : AheadOf(w, v, t, m) <=> AheadOf(w, v, s, m)
  BY <1>1 DEF AheadOf
<1> QED
  BY <1>n, <1>t, <1>1, <1>7, <1>8

\* The last of the calls makes another, at the next stage.
LEMMA WayOn ==
  ASSUME NEW s \in Seq(Frame), s # << >>, NEW v, NEW b, IsWayOf(v, s, b),
         NEW g \in Frame, NEW y \in Stage, Leads(s[Len(s)], g, v[Len(s)], y), Holds(g, y)
  PROVE  /\ WithNext(v, y)[Len(s) + 1] = y /\ WithNext(s, g)[Len(s) + 1] = g
         /\ Len(WithNext(s, g)) = Len(s) + 1 /\ \A n \in 1 .. Len(s) : WithNext(v, y)[n] = v[n]
         /\ IsWayOf(WithNext(v, y), WithNext(s, g), y.bindings)
         /\ \A w : \A n \in 1 .. Len(s) : AheadOf(w, WithNext(v, y), WithNext(s, g), n) <=> AheadOf(w, v, s, n)
<1>e. PICK e : e = y.bindings
  OBVIOUS
<1>n. PICK n \in Nat \ {0} : n = Len(s)
  OBVIOUS
<1>1. v \in Seq(Stage) /\ Len(v) = n
  BY <1>n DEF IsWayOf
<1>r. PICK r : r = WithNext(s, g)
  OBVIOUS
<1>x. PICK x : x = WithNext(v, y)
  OBVIOUS
<1>2. r \in Seq(Frame) /\ Len(r) = n + 1 /\ r[n + 1] = g /\ \A m \in 1 .. n : r[m] = s[m]
  BY <1>n, <1>r DEF WithNext
<1>3. x \in Seq(Stage) /\ Len(x) = n + 1 /\ x[n + 1] = y /\ \A m \in 1 .. n : x[m] = v[m]
  BY <1>1, <1>x DEF WithNext
<1>4. \A m \in 1 .. n + 1 : Holds(r[m], x[m])
  <2> TAKE m \in 1 .. n + 1
  <2>1. CASE m = n + 1
    BY <1>2, <1>3, <2>1
  <2>2. CASE m \in 1 .. n
    BY <1>2, <1>3, <1>n, <2>2 DEF IsWayOf
  <2> QED
    BY <2>1, <2>2
<1>5. \A m \in 1 .. (n + 1) - 1 : Leads(r[m], r[m + 1], x[m], x[m + 1])
  <2> TAKE m \in 1 .. (n + 1) - 1
  <2>0. m \in 1 .. n /\ r[m] = s[m] /\ x[m] = v[m]
    BY <1>2, <1>3
  <2>1. CASE m = n
    BY <1>2, <1>3, <1>n, <2>0, <2>1
  <2>2. CASE m \in 1 .. n - 1
    <3>1. m + 1 \in 1 .. n
      BY <2>2
    <3> QED
      BY <1>2, <1>3, <1>n, <2>0, <2>2, <3>1 DEF IsWayOf
  <2> QED
    BY <2>0, <2>1, <2>2
<1>6. x[1] = Start /\ r[1].bound = FALSE /\ e = x[n + 1].bindings
  <2>1. 1 \in 1 .. n
    OBVIOUS
  <2>2. v[1] = Start /\ s[1].bound = FALSE
    BY DEF IsWayOf
  <2> QED
    BY <1>2, <1>3, <1>e, <2>1, <2>2
<1>7. IsWayOf(x, r, e)
  BY <1>2, <1>3, <1>4, <1>5, <1>6 DEF IsWayOf
<1>8. \A w : \A m \in 1 .. n : AheadOf(w, x, r, m) <=> AheadOf(w, v, s, m)
  <2> TAKE w
  <2> TAKE m \in 1 .. n
  <2>0. m \in 1 .. n /\ \A i \in 1 .. m : i \in 1 .. n
    OBVIOUS
  <2>1. r[m] = s[m] /\ \A i \in 1 .. m : x[i] = v[i]
    BY <1>2, <1>3, <2>0
  <2> QED
    BY <2>1 DEF AheadOf
<1> QED
  BY <1>n, <1>r, <1>x, <1>e, <1>2, <1>3, <1>7, <1>8

\* What holds of the top of the stack while walk is under way.
LEMMA TopStage ==
  ASSUME IInv, Typed, NEW v, NEW b, IsWayOf(v, stack, b), stack # << >>
  PROVE  /\ stack \in Seq(Frame) /\ Len(stack) \in Nat \ {0} /\ Top = stack[Len(stack)] /\ Top \in Frame
         /\ v \in Seq(Stage) /\ Len(v) = Len(stack) /\ v[Len(stack)] \in Stage
         /\ Holds(Top, v[Len(stack)])
         /\ Top.used \in 0 .. Len(template) /\ Len(template) \in Nat
         /\ Top.depth \in Nat
         /\ Top.at # "enter" => Top.used < Len(template) /\ Top.depth <= MAX_GLOB_DEPTH
<1>1. stack \in Seq(Frame)
  BY DEF Typed
<1>2. Len(stack) \in Nat \ {0} /\ Top = stack[Len(stack)] /\ Top \in Frame
  BY <1>1 DEF Top
<1>3. v \in Seq(Stage) /\ Len(v) = Len(stack)
  BY DEF IsWayOf
<1>4. v[Len(stack)] \in Stage
  BY <1>2, <1>3
<1>5. Holds(Top, v[Len(stack)])
  BY <1>2 DEF IsWayOf
<1>6. IsCall(Top, Len(stack)) /\ Len(template) \in Nat
  BY <1>2, Popped DEF IInv
<1>7. Top.depth \in Nat
  BY <1>6, ExpansionAssumption DEF IsCall
<1> QED
  BY <1>1, <1>2, <1>3, <1>4, <1>5, <1>6, <1>7 DEF IsCall

\* A call may return when no match is ahead of it, or no more may be reported.
LEMMA WalkReturns ==
  ASSUME Typed, WalkInv, stack # << >>, Return, UNCHANGED <<hive, template, sets, matched, hits>>,
         \A v, w : IsWayOf(v, stack, bindings) /\ IsMatch(w) /\ AheadOf(w, v, stack, Len(stack)) => Full
  PROVE  WalkInv'
<1>1. PICK v, ws : IsWayOf(v, stack, bindings) /\ Reports(hits, ws) /\ Behind(v, stack, ws, Full)
  BY DEF WalkInv
<1>2. stack \in Seq(Frame)
  BY DEF Typed
<1>s. PICK s : s = stack
  OBVIOUS
<1>n. PICK n \in Nat \ {0} : n = Len(s)
  BY <1>2, <1>s
<1>b. PICK b : b = bindings
  OBVIOUS
<1>e. PICK e : e = IF s[Len(s)].bound THEN Front(b) ELSE b
  OBVIOUS
<1>3. stack' = Front(s) /\ bindings' = e /\ Full' = Full
  BY <1>s, <1>b, <1>e DEF Return, Top, Full
<1>4. s \in Seq(Frame) /\ s # << >> /\ IsWayOf(v, s, b)
  BY <1>1, <1>2, <1>s, <1>b
<1>5. /\ IsWayOf(Front(v), Front(s), e)
      /\ \A w : Ahead(w, Front(v), Front(s)) <=> \E m \in 1 .. Len(s) - 1 : AheadOf(w, v, s, m)
  BY <1>4, <1>e, WayBack
<1>6. \A w : Ahead(w, Front(v), Front(s)) <=> \E m \in 1 .. n - 1 : AheadOf(w, v, s, m)
  BY <1>5, <1>n
<1>7. ASSUME NEW w, Ahead(w, Front(v), Front(s)) PROVE Ahead(w, v, s)
  BY <1>6, <1>7, <1>n DEF Ahead
<1>8. ASSUME NEW w, IsMatch(w), Ahead(w, v, s), ~Full PROVE Ahead(w, Front(v), Front(s))
  <2>1. PICK m \in 1 .. n : AheadOf(w, v, s, m)
    BY <1>8, <1>n DEF Ahead
  <2>2. m # n
    BY <1>1, <1>8, <1>n, <1>s, <2>1
  <2> QED
    BY <1>6, <2>1, <2>2
<1>9. Behind(Front(v), Front(s), ws, Full)
  <2>1. \A m \in 1 .. Len(ws) : ~Ahead(ws[m], Front(v), Front(s))
    BY <1>1, <1>7, <1>s DEF Behind
  <2>2. ASSUME ~Full, NEW w, IsMatch(w)
        PROVE  Ahead(w, Front(v), Front(s)) \/ \E m \in 1 .. Len(ws) : ws[m] = w
    BY <1>1, <1>8, <1>s, <2>2 DEF Behind
  <2> QED
    BY <2>1, <2>2 DEF Behind
<1>f. PICK x, r : x = Front(v) /\ r = Front(s)
  OBVIOUS
<1>10. IsWayOf(x, stack', bindings') /\ Reports(hits', ws) /\ Behind(x, stack', ws, Full')
  BY <1>1, <1>3, <1>5, <1>9, <1>f
<1> QED
  BY <1>10, WalkGoesOn

\* No match goes deeper than is allowed.
LEMMA WalkRefuse ==
  ASSUME IInv, Typed, WalkInv, Refuse
  PROVE  WalkInv'
<1>0. stack # << >>
  BY DEF Refuse, Refused, At
<1>1. ASSUME NEW v, NEW w, IsWayOf(v, stack, bindings), IsMatch(w), AheadOf(w, v, stack, Len(stack)), ~Full
      PROVE  FALSE
  <2>1. Top.depth > MAX_GLOB_DEPTH
    BY <1>1 DEF Refuse, Refused
  <2>n. PICK n \in Nat \ {0} : n = Len(stack)
    BY <1>0, <1>1, TopStage
  <2>2. Holds(Top, v[n]) /\ Top \in Frame
    BY <1>0, <1>1, <2>n, TopStage
  <2>3. n <= Len(w) /\ w[n] = v[n]
    BY <1>1, <2>n DEF AheadOf
  <2>l. PICK l \in Nat : l = Len(w)
    BY <1>1 DEF IsMatch
  <2>4. n \in 1 .. l
    BY <2>3, <2>l
  <2>5. w[n].depth <= MAX_GLOB_DEPTH
    BY <1>1, <2>4, <2>l DEF IsMatch
  <2>6. w[n].depth = Top.depth
    BY <2>2, <2>3 DEF Holds
  <2>7. Top.depth \in Nat /\ MAX_GLOB_DEPTH \in Nat
    BY <2>2, ExpansionAssumption DEF Frame
  <2> QED
    BY <2>1, <2>5, <2>6, <2>7
<1>2. Return /\ UNCHANGED <<hive, template, sets, matched, hits>>
  BY DEF Refuse
<1> QED
  BY <1>0, <1>1, <1>2, WalkReturns

\* What a match ahead of the last call does there.
LEMMA GoesOnAtTop ==
  ASSUME IInv, Typed, stack # << >>, NEW v, NEW w, IsWayOf(v, stack, bindings), IsMatch(w),
         AheadOf(w, v, stack, Len(stack)), NEW n, n = Len(stack), NEW x, x = v[n]
  PROVE  /\ n \in Nat \ {0} /\ w[n] = x /\ x \in Stage /\ x.key = Top.key /\ x.used = Top.used
         /\ Top.used = Len(template) => n = Len(w)
         /\ Top.used < Len(template) =>
              /\ n < Len(w) /\ w[n + 1].nth \in WaysOn(x) /\ w[n + 1] = After(x, w[n + 1].nth)
              /\ w[n + 1].nth \in Nat
         /\ Top.at # "enter" => w[n + 1].nth > Passed(Top)
<1>1. n \in Nat \ {0} /\ x \in Stage /\ Holds(Top, x) /\ Top = stack[n] /\ Len(template) \in Nat /\ Top \in Frame
  BY TopStage
<1>2. n <= Len(w) /\ w[n] = x /\ (Top.at # "enter" => w[n + 1].nth > Passed(Top))
  BY <1>1 DEF AheadOf
<1>3. x.key = Top.key /\ x.used = Top.used
  BY <1>1 DEF Holds
<1>4. /\ x.used = Len(template) => n = Len(w)
      /\ x.used < Len(template) =>
              /\ n < Len(w) /\ w[n + 1].nth \in WaysOn(x) /\ w[n + 1] = After(x, w[n + 1].nth)
  BY <1>1, <1>2, MatchGoesOn
<1>5. ASSUME x.used < Len(template) PROVE w[n + 1].nth \in Nat
  <2>1. w[n + 1].nth \in WaysOn(x)
    BY <1>4, <1>5
  <2>2. After(x, w[n + 1].nth) \in Stage
    BY <1>1, <1>5, <2>1, AfterIsStage
  <2>3. w[n + 1] \in Stage
    BY <1>4, <1>5, <2>2
  <2> QED
    BY <2>3 DEF Stage
<1> QED
  BY <1>1, <1>2, <1>3, <1>4, <1>5

\* A choice is one of the range, or that ** gives way.
LEMMA WayIsChoice ==
  ASSUME IInv, Typed, NEW x \in Stage, x.used < Len(template), NEW i \in WaysOn(x)
  PROVE  /\ i \in Nat /\ Len(RangeAfter(x.key, x.used)) \in Nat /\ i <= Len(RangeAfter(x.key, x.used))
         /\ i = 0 => KindAfter(x.used) = "deep"
         /\ i # 0 => x.key \notin hive.kidsBad
<1>1. x.key \in Ids /\ x.used \in Nat
  BY DEF Stage
<1>2. Len(RangeAfter(x.key, x.used)) \in Nat
  BY <1>1, RangeIsKeys
<1>3. i \in 0 .. Len(RangeAfter(x.key, x.used))
  BY DEF WaysOn
<1> QED
  BY <1>2, <1>3 DEF WaysOn

\* Below a key whose children cannot be read there is no match.
LEMMA WalkUnreadable ==
  ASSUME IInv, Typed, WalkInv, ChildrenUnreadable
  PROVE  WalkInv'
<1>0. stack # << >> /\ Top.key \in hive.kidsBad
  BY DEF ChildrenUnreadable, AtChildren, At
<1>1. ASSUME NEW v, NEW w, IsWayOf(v, stack, bindings), IsMatch(w), AheadOf(w, v, stack, Len(stack))
      PROVE  FALSE
  <2>n. PICK n : n = Len(stack)
    OBVIOUS
  <2>x. PICK x : x = v[n]
    OBVIOUS
  <2>1. /\ x \in Stage /\ x.key = Top.key /\ x.used = Top.used
        /\ Top.used < Len(template) => w[n + 1].nth \in WaysOn(x) /\ w[n + 1].nth \in Nat
        /\ Top.at # "enter" => w[n + 1].nth > Passed(Top)
    BY <1>0, <1>1, <2>n, <2>x, GoesOnAtTop
  <2>2. Top.used \in 0 .. Len(template) /\ Len(template) \in Nat /\ (Top.at # "enter" => Top.used < Len(template))
        /\ Holds(Top, v[Len(stack)])
    BY <1>0, <1>1, TopStage
  <2>3. Top.used < Len(template)
    BY <2>2 DEF ChildrenUnreadable, AtChildren, At, Finished
  <2>4. Top.at = "below" \/ (Top.at = "enter" /\ KindAfter(Top.used) # "deep")
    BY DEF ChildrenUnreadable, AtChildren, At, Segment, KindAfter
  <2>5. Top.at = "below" => Passed(Top) = 0
    BY DEF Passed
  <2>6. w[n + 1].nth # 0
    BY <2>1, <2>3, <2>4, <2>5, WayIsChoice
  <2> QED
    BY <1>0, <2>1, <2>3, <2>6, WayIsChoice
<1>2. Return /\ UNCHANGED <<hive, template, sets, matched, hits>>
  BY DEF ChildrenUnreadable
<1> QED
  BY <1>0, <1>1, <1>2, WalkReturns

\* Behind the last child there is no match.
LEMMA WalkEndLoop ==
  ASSUME IInv, Typed, WalkInv, EndLoop
  PROVE  WalkInv'
<1>0. stack # << >> /\ Top.at = "loop"
  BY DEF EndLoop, At
<1>1. ASSUME NEW v, NEW w, IsWayOf(v, stack, bindings), IsMatch(w), AheadOf(w, v, stack, Len(stack)), ~Full
      PROVE  FALSE
  <2>n. PICK n : n = Len(stack)
    OBVIOUS
  <2>x. PICK x : x = v[n]
    OBVIOUS
  <2>2. Top.used \in 0 .. Len(template) /\ Len(template) \in Nat /\ Top.used < Len(template)
        /\ Holds(Top, v[Len(stack)]) /\ Top \in Frame
    BY <1>0, <1>1, TopStage
  <2>1. /\ x \in Stage /\ x.key = Top.key /\ x.used = Top.used
        /\ w[n + 1].nth \in WaysOn(x) /\ w[n + 1].nth \in Nat
        /\ w[n + 1].nth > Passed(Top)
    BY <1>0, <1>1, <2>n, <2>x, <2>2, GoesOnAtTop
  <2>3. Top.kids = << >>
    BY <1>0, <1>1 DEF EndLoop, MayDescend, At
  <2>4. Len(RangeAfter(x.key, x.used)) \in Nat /\ w[n + 1].nth <= Len(RangeAfter(x.key, x.used))
    BY <2>1, <2>2, WayIsChoice
  <2>5. Passed(Top) = Len(RangeAfter(x.key, x.used))
    BY <1>0, <2>1, <2>3, <2>4 DEF Passed
  <2> QED
    BY <2>1, <2>4, <2>5
<1>2. Return /\ UNCHANGED <<hive, template, sets, matched, hits>>
  BY DEF EndLoop
<1> QED
  BY <1>0, <1>1, <1>2, WalkReturns

\* What is behind stays so when the matches ahead stay the same.
LEMMA SameAhead ==
  ASSUME NEW v, NEW s, NEW y, NEW r, NEW hs, NEW ws, NEW full,
         Reports(hs, ws), Behind(v, s, ws, full),
         \A w : IsMatch(w) => (Ahead(w, y, r) <=> Ahead(w, v, s))
  PROVE  Behind(y, r, ws, full)
<1>1. \A m \in 1 .. Len(ws) : IsMatch(ws[m])
  BY DEF Reports
<1>2. \A m \in 1 .. Len(ws) : ~Ahead(ws[m], y, r)
  BY <1>1 DEF Behind
<1>3. ASSUME ~full, NEW w, IsMatch(w) PROVE Ahead(w, y, r) \/ \E m \in 1 .. Len(ws) : ws[m] = w
  BY <1>3 DEF Behind
<1> QED
  BY <1>2, <1>3 DEF Behind

\* A call makes another and goes on: the choices ahead of it are split into
\* the one that is tried and those after it.
LEMMA WalkCalls ==
  ASSUME IInv, Typed, WalkInv, stack # << >>, Top.used < Len(template),
         UNCHANGED <<hive, template, sets, matched, hits>>,
         NEW f \in Frame, f.bound = Top.bound, f.at # "enter", NEW g \in Frame, g.at = "enter",
         stack' = Append(Front(stack) \o <<f>>, g),
         \A x : /\ x \in Stage /\ Holds(Top, x)
                => \E y \in Stage :
                     /\ Holds(f, x) /\ Leads(f, g, x, y) /\ Holds(g, y)
                     /\ x.bindings = bindings => bindings' = y.bindings
                     /\ \A i \in WaysOn(x) :
                          (Top.at = "enter" \/ i > Passed(Top)) <=> (After(x, i) = y \/ i > Passed(f))
  PROVE  WalkInv'
<1>1. PICK v, ws : IsWayOf(v, stack, bindings) /\ Reports(hits, ws) /\ Behind(v, stack, ws, Full)
  BY DEF WalkInv
<1>s. PICK s : s = stack
  OBVIOUS
<1>n. PICK n \in Nat \ {0} : n = Len(s)
  BY <1>1, <1>s, TopStage
<1>b. PICK b : b = bindings
  OBVIOUS
<1>x. PICK x \in Stage : x = v[n] /\ Holds(Top, x)
  BY <1>1, <1>s, <1>n, TopStage
<1>2. s \in Seq(Frame) /\ s # << >> /\ Top = s[n] /\ IsWayOf(v, s, b)
  BY <1>1, <1>s, <1>n, <1>b, TopStage
<1>y. PICK y \in Stage : /\ Holds(f, x) /\ Leads(f, g, x, y) /\ Holds(g, y)
                         /\ x.bindings = bindings => bindings' = y.bindings
                         /\ \A i \in WaysOn(x) :
                              (Top.at = "enter" \/ i > Passed(Top)) <=> (After(x, i) = y \/ i > Passed(f))
  BY <1>x
<1>3. x.bindings = bindings
  BY <1>2, <1>n, <1>b, <1>x DEF IsWayOf
<1>t. PICK t : t = WithLast(s, f)
  OBVIOUS
<1>4. /\ t \in Seq(Frame) /\ Len(t) = n /\ t[n] = f
      /\ IsWayOf(v, t, b)
      /\ \A w : \A m \in 1 .. n - 1 : AheadOf(w, v, t, m) <=> AheadOf(w, v, s, m)
  <2>1. f.bound = s[Len(s)].bound /\ Holds(f, v[Len(s)])
    BY <1>2, <1>n, <1>x, <1>y
  <2>2. /\ WithLast(s, f) \in Seq(Frame) /\ Len(WithLast(s, f)) = Len(s) /\ WithLast(s, f)[Len(s)] = f
        /\ IsWayOf(v, WithLast(s, f), b)
        /\ \A w : \A m \in 1 .. Len(s) - 1 : AheadOf(w, v, WithLast(s, f), m) <=> AheadOf(w, v, s, m)
    BY <1>2, <2>1, WayHeld
  <2> QED
    BY <1>n, <1>t, <2>2
<1>z. PICK z : z = WithNext(v, y)
  OBVIOUS
<1>r. PICK r : r = WithNext(t, g)
  OBVIOUS
<1>5. /\ z[n + 1] = y /\ r[n + 1] = g /\ Len(r) = n + 1 /\ \A m \in 1 .. n : z[m] = v[m]
      /\ IsWayOf(z, r, y.bindings)
      /\ \A w : \A m \in 1 .. n : AheadOf(w, z, r, m) <=> AheadOf(w, v, t, m)
  <2>1. Leads(t[Len(t)], g, v[Len(t)], y) /\ Holds(g, y)
    BY <1>4, <1>n, <1>x, <1>y
  <2>2. /\ WithNext(v, y)[Len(t) + 1] = y /\ WithNext(t, g)[Len(t) + 1] = g
        /\ Len(WithNext(t, g)) = Len(t) + 1 /\ \A m \in 1 .. Len(t) : WithNext(v, y)[m] = v[m]
        /\ IsWayOf(WithNext(v, y), WithNext(t, g), y.bindings)
        /\ \A w : \A m \in 1 .. Len(t) : AheadOf(w, WithNext(v, y), WithNext(t, g), m) <=> AheadOf(w, v, t, m)
    <3>1. t # << >>
      BY <1>4
    <3> QED
      BY <1>4, <2>1, <3>1, WayOn
  <2>3. /\ z[Len(t) + 1] = y /\ r[Len(t) + 1] = g
        /\ Len(r) = Len(t) + 1 /\ \A m \in 1 .. Len(t) : z[m] = v[m]
        /\ IsWayOf(z, r, y.bindings)
        /\ \A w : \A m \in 1 .. Len(t) : AheadOf(w, z, r, m) <=> AheadOf(w, v, t, m)
    BY ONLY <2>2, <1>z, <1>r
  <2> QED
    BY <1>4, <2>3
<1>6. ASSUME NEW w, IsMatch(w), n < Len(w), \A m \in 1 .. n : w[m] = v[m]
      PROVE  (AheadOf(w, v, t, n) \/ AheadOf(w, z, r, n + 1)) <=> AheadOf(w, v, s, n)
  <2>1. w[n] = x
    BY <1>6, <1>x
  <2>l. PICK l \in Nat : l = Len(w)
    BY <1>6 DEF IsMatch
  <2>2. x.used = Top.used
    BY <1>x DEF Holds
  <2>3. w[n + 1].nth \in WaysOn(x) /\ w[n + 1] = After(x, w[n + 1].nth)
    BY <1>6, <2>1, <2>2, <2>l, MatchGoesOn
  <2>4. (Top.at = "enter" \/ w[n + 1].nth > Passed(Top)) <=> (w[n + 1] = y \/ w[n + 1].nth > Passed(f))
    BY <1>y, <2>3
  <2>5. n + 1 <= l /\ n <= l /\ n < l
    BY <1>6, <2>l
  <2>6. AheadOf(w, v, s, n) <=> (Top.at = "enter" \/ w[n + 1].nth > Passed(Top))
    BY <1>6, <1>2, <2>l, <2>5 DEF AheadOf
  <2>7. AheadOf(w, v, t, n) <=> w[n + 1].nth > Passed(f)
    BY <1>6, <1>4, <2>l, <2>5 DEF AheadOf
  <2>8. AheadOf(w, z, r, n + 1) <=> w[n + 1] = y
    <3>1. (\A m \in 1 .. n + 1 : w[m] = z[m]) <=> w[n + 1] = y
      <4>1. ASSUME w[n + 1] = y, NEW m \in 1 .. n + 1 PROVE w[m] = z[m]
        <5>1. m \in 1 .. n \/ m = n + 1
          OBVIOUS
        <5> QED
          BY <1>5, <1>6, <4>1, <5>1
      <4>2. n + 1 \in 1 .. n + 1
        OBVIOUS
      <4> QED
        BY <1>5, <4>1, <4>2
    <3>2. r[n + 1].at = "enter"
      BY <1>5
    <3> QED
      BY <2>5, <2>l, <3>1, <3>2 DEF AheadOf
  <2> QED
    BY <2>4, <2>6, <2>7, <2>8
<1>7. ASSUME NEW w, IsMatch(w)
      PROVE  (AheadOf(w, v, t, n) \/ AheadOf(w, z, r, n + 1)) <=> AheadOf(w, v, s, n)
  <2>l. PICK l \in Nat : l = Len(w)
    BY <1>7 DEF IsMatch
  <2>1. ASSUME AheadOf(w, v, s, n) PROVE n < l /\ \A m \in 1 .. n : w[m] = v[m]
    <3>1. n <= l /\ \A m \in 1 .. n : w[m] = v[m]
      BY <2>1, <2>l DEF AheadOf
    <3>2. w[n] = x /\ x.used = Top.used
      BY <1>x, <3>1 DEF Holds
    <3> QED
      BY <1>7, <2>l, <3>1, <3>2, MatchGoesOn
  <2>2. ASSUME AheadOf(w, v, t, n) PROVE n < l /\ \A m \in 1 .. n : w[m] = v[m]
    BY <2>2, <2>l, <1>4 DEF AheadOf
  <2>3. ASSUME AheadOf(w, z, r, n + 1) PROVE n < l /\ \A m \in 1 .. n : w[m] = v[m]
    <3>1. n + 1 <= l /\ \A m \in 1 .. n + 1 : w[m] = z[m]
      BY <2>3, <2>l DEF AheadOf
    <3>2. \A m \in 1 .. n : m \in 1 .. n + 1
      OBVIOUS
    <3> QED
      BY <1>5, <3>1, <3>2
  <2> QED
    BY <1>6, <1>7, <2>l, <2>1, <2>2, <2>3
<1>8. ASSUME NEW w, IsMatch(w) PROVE Ahead(w, z, r) <=> Ahead(w, v, s)
  <2>1. Ahead(w, z, r) <=> (\E m \in 1 .. n - 1 : AheadOf(w, v, s, m))
                           \/ AheadOf(w, v, t, n) \/ AheadOf(w, z, r, n + 1)
    <3>1. Ahead(w, z, r) <=> (\E m \in 1 .. n - 1 : AheadOf(w, z, r, m))
                             \/ AheadOf(w, z, r, n) \/ AheadOf(w, z, r, n + 1)
      <4>1. \A m \in 1 .. n + 1 : m \in 1 .. n - 1 \/ m = n \/ m = n + 1
        OBVIOUS
      <4>2. /\ \A m \in 1 .. n - 1 : m \in 1 .. n + 1
            /\ n \in 1 .. n + 1 /\ n + 1 \in 1 .. n + 1
        OBVIOUS
      <4>3. Ahead(w, z, r) <=> \E m \in 1 .. n + 1 : AheadOf(w, z, r, m)
        BY <1>5 DEF Ahead
      <4> QED
        BY ONLY <4>1, <4>2, <4>3
    <3>2. \A m \in 1 .. n - 1 : AheadOf(w, z, r, m) <=> AheadOf(w, v, s, m)
      <4> TAKE m \in 1 .. n - 1
      <4>1. m \in 1 .. n
        OBVIOUS
      <4> QED
        BY <1>4, <1>5, <4>1
    <3>3. AheadOf(w, z, r, n) <=> AheadOf(w, v, t, n)
      <4>1. n \in 1 .. n
        OBVIOUS
      <4> QED
        BY <1>5, <4>1
    <3> QED
      BY <3>1, <3>2, <3>3
  <2>2. Ahead(w, v, s) <=> (\E m \in 1 .. n - 1 : AheadOf(w, v, s, m)) \/ AheadOf(w, v, s, n)
    <3>1. \A m \in 1 .. n : m \in 1 .. n - 1 \/ m = n
      OBVIOUS
    <3>2. n \in 1 .. n /\ \A m \in 1 .. n - 1 : m \in 1 .. n
      OBVIOUS
    <3>3. Ahead(w, v, s) <=> \E m \in 1 .. n : AheadOf(w, v, s, m)
      BY <1>n DEF Ahead
    <3> QED
      BY ONLY <3>1, <3>2, <3>3
  <2> QED
    BY <1>7, <1>8, <2>1, <2>2
<1>9. Behind(v, s, ws, Full)
  BY <1>1, <1>s
<1>10. Behind(z, r, ws, Full)
  BY <1>1, <1>8, <1>9, SameAhead
<1>11. stack' = r /\ bindings' = y.bindings /\ hits' = hits /\ Full' = Full
  BY <1>s, <1>t, <1>r, <1>y, <1>3 DEF Full, WithLast, WithNext
<1>12. IsWayOf(z, stack', bindings') /\ Reports(hits', ws) /\ Behind(z, stack', ws, Full')
  BY <1>1, <1>5, <1>10, <1>11
<1> QED
  BY <1>12, WalkGoesOn

\* The children are read: a choice that is ahead is one of them.
LEMMA WalkReads ==
  ASSUME IInv, Typed, WalkInv, ReadChildren
  PROVE  WalkInv'
<1>0. stack # << >> /\ Top.key \notin hive.kidsBad
  BY DEF ReadChildren, AtChildren, At
<1>1. PICK v, ws : IsWayOf(v, stack, bindings) /\ Reports(hits, ws) /\ Behind(v, stack, ws, Full)
  BY DEF WalkInv
<1>s. PICK s : s = stack
  OBVIOUS
<1>n. PICK n \in Nat \ {0} : n = Len(s)
  BY <1>0, <1>1, <1>s, TopStage
<1>b. PICK b : b = bindings
  OBVIOUS
<1>x. PICK x \in Stage : x = v[n] /\ Holds(Top, x)
  BY <1>0, <1>1, <1>s, <1>n, TopStage
<1>2. s \in Seq(Frame) /\ s # << >> /\ Top = s[n] /\ Top \in Frame /\ IsWayOf(v, s, b)
      /\ Top.used \in 0 .. Len(template) /\ Len(template) \in Nat
      /\ (Top.at # "enter" => Top.used < Len(template))
  BY <1>0, <1>1, <1>s, <1>n, <1>b, TopStage
<1>3. Top.used < Len(template)
  BY <1>2 DEF ReadChildren, AtChildren, At, Finished
<1>ks. PICK ks : ks = RangeAfter(Top.key, Top.used)
  OBVIOUS
<1>4. ks \in Seq(Ids) /\ Len(ks) \in Nat /\ ks = Domain(Top.key, template[Top.used + 1])
  <2>1. Top.key \in Ids /\ Top.used \in Nat
    BY <1>2 DEF Frame
  <2> QED
    BY <1>3, <1>ks, <2>1, RangeIsKeys
<1>f. PICK f : f = [Top EXCEPT !.at = "loop", !.kids = ks]
  OBVIOUS
<1>5. /\ f = [key |-> Top.key, used |-> Top.used, path |-> Top.path, depth |-> Top.depth, at |-> "loop",
              kids |-> ks, bound |-> Top.bound]
      /\ f \in Frame
  BY <1>2, <1>4, <1>f DEF Frame
<1>6. /\ f.key = Top.key /\ f.used = Top.used /\ f.path = Top.path /\ f.depth = Top.depth /\ f.at = "loop"
      /\ f.kids = ks /\ f.bound = Top.bound
  BY <1>5
<1>7. Passed(f) = 0
  BY <1>4, <1>6, <1>ks DEF Passed
<1>8. Holds(f, x)
  <2>1. \A i \in 1 .. Len(ks) : ks[i] = ks[0 + i]
    BY <1>4
  <2>2. x.key = f.key /\ x.used = f.used /\ x.path = f.path /\ x.depth = f.depth
    BY <1>x, <1>6 DEF Holds
  <2>3. f.key \notin hive.kidsBad /\ f.at # "below"
    BY <1>0, <1>6
  <2>4. \A i \in 1 .. Len(f.kids) : f.kids[i] = RangeAfter(f.key, f.used)[Passed(f) + i]
    BY <1>6, <1>7, <1>ks, <2>1
  <2> QED
    BY <1>7, <2>2, <2>3, <2>4 DEF Holds
<1>t. PICK t : t = WithLast(s, f)
  OBVIOUS
<1>9. /\ t \in Seq(Frame) /\ Len(t) = n /\ t[n] = f
      /\ IsWayOf(v, t, b)
      /\ \A w : \A m \in 1 .. n - 1 : AheadOf(w, v, t, m) <=> AheadOf(w, v, s, m)
  <2>1. f.bound = s[Len(s)].bound /\ Holds(f, v[Len(s)])
    BY <1>2, <1>n, <1>x, <1>6, <1>8
  <2>2. /\ WithLast(s, f) \in Seq(Frame) /\ Len(WithLast(s, f)) = Len(s) /\ WithLast(s, f)[Len(s)] = f
        /\ IsWayOf(v, WithLast(s, f), b)
        /\ \A w : \A m \in 1 .. Len(s) - 1 : AheadOf(w, v, WithLast(s, f), m) <=> AheadOf(w, v, s, m)
    BY <1>2, <1>5, <2>1, WayHeld
  <2> QED
    BY <1>n, <1>t, <2>2
<1>10. ASSUME NEW w, IsMatch(w) PROVE AheadOf(w, v, t, n) <=> AheadOf(w, v, s, n)
  <2>l. PICK l \in Nat : l = Len(w)
    BY <1>10 DEF IsMatch
  <2>1. ASSUME n <= l, \A m \in 1 .. n : w[m] = v[m]
        PROVE  n < l /\ ((Top.at = "enter" \/ w[n + 1].nth > Passed(Top)) <=> w[n + 1].nth > 0)
    <3>1. w[n] = x /\ x.used = Top.used
      BY <1>x, <2>1 DEF Holds
    <3>2. n < l /\ w[n + 1].nth \in WaysOn(x)
      BY <1>3, <1>10, <2>1, <2>l, <3>1, MatchGoesOn
    <3>3. w[n + 1].nth \in Nat /\ (w[n + 1].nth = 0 => KindAfter(Top.used) = "deep")
      BY <1>3, <3>1, <3>2, WayIsChoice
    <3>4. Top.at = "below" \/ (Top.at = "enter" /\ KindAfter(Top.used) # "deep")
      BY DEF ReadChildren, AtChildren, At, Segment, KindAfter
    <3>5. Top.at = "below" => Passed(Top) = 0
      BY DEF Passed
    <3> QED
      BY <3>2, <3>3, <3>4, <3>5
  <2>2. AheadOf(w, v, s, n) <=>
          /\ n <= l /\ \A m \in 1 .. n : w[m] = v[m]
          /\ Top.at = "enter" \/ (n < l /\ w[n + 1].nth > Passed(Top))
    BY <1>2, <2>l DEF AheadOf
  <2>3. AheadOf(w, v, t, n) <=>
          /\ n <= l /\ \A m \in 1 .. n : w[m] = v[m]
          /\ n < l /\ w[n + 1].nth > 0
    BY <1>6, <1>7, <1>9, <2>l DEF AheadOf
  <2> QED
    BY <2>1, <2>2, <2>3
<1>11. ASSUME NEW w, IsMatch(w) PROVE Ahead(w, v, t) <=> Ahead(w, v, s)
  <2>1. ASSUME NEW m \in 1 .. n PROVE AheadOf(w, v, t, m) <=> AheadOf(w, v, s, m)
    <3>1. m \in 1 .. n - 1 \/ m = n
      OBVIOUS
    <3> QED
      BY <1>9, <1>10, <1>11, <3>1
  <2>2. Ahead(w, v, t) <=> \E m \in 1 .. n : AheadOf(w, v, t, m)
    BY <1>9 DEF Ahead
  <2>3. Ahead(w, v, s) <=> \E m \in 1 .. n : AheadOf(w, v, s, m)
    BY <1>n DEF Ahead
  <2> QED
    BY <2>1, <2>2, <2>3
<1>12. Behind(v, s, ws, Full)
  BY <1>1, <1>s
<1>13. Behind(v, t, ws, Full)
  BY <1>1, <1>11, <1>12, SameAhead
<1>14. stack' = t /\ bindings' = b /\ hits' = hits /\ Full' = Full
       /\ hive' = hive /\ template' = template /\ sets' = sets
  <2>1. Domain(Top.key, Segment) = ks
    BY <1>4 DEF Segment
  <2> QED
    BY <1>s, <1>t, <1>b, <1>f, <2>1 DEF ReadChildren, Full, WithLast
<1>15. IsWayOf(v, stack', bindings') /\ Reports(hits', ws) /\ Behind(v, stack', ws, Full')
  BY <1>1, <1>9, <1>13, <1>14
<1> QED
  BY <1>14, <1>15, WalkGoesOn

\* ** gives way: what is ahead is behind the rest of the template, or below.
LEMMA WalkGivesWay ==
  ASSUME IInv, Typed, WalkInv, MatchNoLevel
  PROVE  WalkInv'
<1>0. stack # << >> /\ Top.at = "enter" /\ ~Finished /\ KindAfter(Top.used) = "deep"
  BY DEF MatchNoLevel, At, Segment, KindAfter
<1>1. PICK v, b : IsWayOf(v, stack, b)
  BY DEF WalkInv
<1>2. Top \in Frame /\ Top.used \in 0 .. Len(template) /\ Len(template) \in Nat
  BY <1>0, <1>1, TopStage
<1>3. Top.used < Len(template) /\ Top.used + 1 \in 0 .. Len(template)
  BY <1>0, <1>2 DEF Finished
<1>f. PICK f : f = [Top EXCEPT !.at = "below"]
  OBVIOUS
<1>4. /\ f = [key |-> Top.key, used |-> Top.used, path |-> Top.path, depth |-> Top.depth, at |-> "below",
              kids |-> Top.kids, bound |-> Top.bound]
      /\ f \in Frame
  BY <1>2, <1>f DEF Frame
<1>5. /\ f.key = Top.key /\ f.used = Top.used /\ f.path = Top.path /\ f.depth = Top.depth /\ f.at = "below"
      /\ f.bound = Top.bound
  BY <1>4
<1>g. PICK g : g = Call(Top.key, Top.used + 1, Top.path, Top.depth, FALSE)
  OBVIOUS
<1>6. g \in Frame /\ g.key = Top.key /\ g.used = Top.used + 1 /\ g.path = Top.path /\ g.depth = Top.depth
      /\ g.at = "enter" /\ g.bound = FALSE
  BY <1>2, <1>3, <1>g DEF Frame, Call
<1>7. Passed(f) = 0
  BY <1>5 DEF Passed
<1>8. ASSUME NEW x \in Stage, Holds(Top, x)
      PROVE  \E y \in Stage :
               /\ Holds(f, x) /\ Leads(f, g, x, y) /\ Holds(g, y)
               /\ x.bindings = bindings => bindings' = y.bindings
               /\ \A i \in WaysOn(x) :
                    (Top.at = "enter" \/ i > Passed(Top)) <=> (After(x, i) = y \/ i > Passed(f))
  <2>1. x.key = Top.key /\ x.used = Top.used /\ x.path = Top.path /\ x.depth = Top.depth
    BY <1>8 DEF Holds
  <2>2. x.used < Len(template) /\ x.used # Len(template) /\ x.key \in Ids /\ x.used \in Nat
    BY <1>2, <1>3, <2>1 DEF Stage
  <2>3. Len(RangeAfter(x.key, x.used)) \in Nat
    BY <2>2, RangeIsKeys
  <2>4. 0 \in WaysOn(x)
    BY <1>0, <2>1, <2>2, <2>3 DEF WaysOn
  <2>y. PICK y \in Stage : y = After(x, 0)
    BY <2>2, <2>4, AfterIsStage
  <2>5. y.key = x.key /\ y.used = x.used + 1 /\ y.path = x.path /\ y.depth = x.depth /\ y.bindings = x.bindings
    BY <2>y DEF After, GivenWay, Stage
  <2>6. Holds(f, x)
    BY <1>0, <1>5, <2>1 DEF Holds
  <2>7. Leads(f, g, x, y)
    BY <1>5, <1>6, <1>7, <2>4, <2>y DEF Leads
  <2>8. Holds(g, y)
    BY <1>6, <2>1, <2>5 DEF Holds
  <2>9. bindings' = bindings
    BY DEF MatchNoLevel
  <2>10. \A i \in WaysOn(x) : After(x, i) = y \/ i > Passed(f)
    BY <1>7, <2>2, <2>y, WayIsChoice
  <2> QED
    BY <1>0, <2>5, <2>6, <2>7, <2>8, <2>9, <2>10
<1>9. stack' = Append(Front(stack) \o <<f>>, g) /\ UNCHANGED <<hive, template, sets, matched, hits>>
  BY <1>f, <1>g DEF MatchNoLevel
<1> QED
  BY <1>0, <1>3, <1>4, <1>5, <1>6, <1>8, <1>9, WalkCalls

\* The first of the children left is tried, and the others stay ahead.
LEMMA WalkDescends ==
  ASSUME IInv, Typed, WalkInv, Descend
  PROVE  WalkInv'
<1>0. stack # << >> /\ Top.at = "loop" /\ Top.kids # << >>
  BY DEF Descend, MayDescend, At
<1>1. PICK v, b : IsWayOf(v, stack, b)
  BY DEF WalkInv
<1>2. /\ Top \in Frame /\ Top.used \in 0 .. Len(template) /\ Len(template) \in Nat /\ Top.used < Len(template)
      /\ Top.depth \in Nat /\ Top.depth <= MAX_GLOB_DEPTH /\ Holds(Top, v[Len(stack)])
  BY <1>0, <1>1, TopStage
<1>ks. PICK ks : ks = RangeAfter(Top.key, Top.used)
  OBVIOUS
<1>kids. PICK kids : kids = Top.kids
  OBVIOUS
<1>p. PICK p : p = Passed(Top)
  OBVIOUS
<1>3. /\ p \in Nat /\ p = Len(ks) - Len(kids) /\ \A i \in 1 .. Len(kids) : kids[i] = ks[p + i]
      /\ Top.key \notin hive.kidsBad
  BY <1>0, <1>2, <1>ks, <1>kids, <1>p DEF Holds, Passed
<1>4. ks \in Seq(Ids) /\ Len(ks) \in Nat /\ kids \in Seq(Ids) /\ Len(kids) \in Nat \ {0}
  <2>1. Top.key \in Ids /\ Top.used \in Nat /\ kids \in Seq(Ids) /\ kids # << >>
    BY <1>0, <1>2, <1>kids DEF Frame
  <2> QED
    BY <1>2, <1>ks, <2>1, RangeIsKeys, EmptySeq
<1>rest. PICK rest : rest = Tail(kids)
  OBVIOUS
<1>5. rest \in Seq(Ids) /\ Len(rest) = Len(kids) - 1 /\ \A i \in 1 .. Len(rest) : rest[i] = kids[i + 1]
  BY <1>4, <1>rest
<1>child. PICK child : child = Head(kids)
  OBVIOUS
<1>6. child \in Ids /\ child = ks[p + 1] /\ p + 1 \in 1 .. Len(ks) /\ p + 1 \in Nat
  <2>1. child = kids[1] /\ 1 \in 1 .. Len(kids)
    BY <1>4, <1>child
  <2>2. p + 1 \in 1 .. Len(ks)
    BY <1>3, <1>4
  <2> QED
    BY <1>3, <1>4, <2>1, <2>2
<1>name. PICK name : name = hive.name[child]
  OBVIOUS
<1>7. name \in Names
  BY <1>6, <1>name DEF Typed, IsHive
<1>f. PICK f : f = [Top EXCEPT !.kids = rest]
  OBVIOUS
<1>8. /\ f = [key |-> Top.key, used |-> Top.used, path |-> Top.path, depth |-> Top.depth, at |-> Top.at,
              kids |-> rest, bound |-> Top.bound]
      /\ f \in Frame
  BY <1>2, <1>5, <1>f DEF Frame
<1>9. /\ f.key = Top.key /\ f.used = Top.used /\ f.path = Top.path /\ f.depth = Top.depth /\ f.at = "loop"
      /\ f.kids = rest /\ f.bound = Top.bound
  BY <1>0, <1>8
<1>10. Passed(f) = p + 1
  <2>1. Passed(f) = Len(ks) - Len(rest)
    BY <1>9, <1>ks DEF Passed
  <2>2. Len(ks) - Len(rest) = p + 1
    BY <1>3, <1>4, <1>5
  <2> QED
    BY <2>1, <2>2
<1>used. PICK used : used = IF KindAfter(Top.used) = "deep" THEN Top.used ELSE Top.used + 1
  OBVIOUS
<1>bound. PICK bound : bound = (KindAfter(Top.used) # "literal")
  OBVIOUS
<1>path. PICK path : path = Append(Top.path, name)
  OBVIOUS
<1>g. PICK g : g = Call(child, used, path, Top.depth + 1, bound)
  OBVIOUS
<1>11. used \in 0 .. Len(template) /\ path \in Seq(Names) /\ Top.depth + 1 \in 0 .. MAX_GLOB_DEPTH + 1 /\ bound \in BOOLEAN
  <2>1. Top.path \in Seq(Names)
    BY <1>2 DEF Frame
  <2> QED
    BY <1>2, <1>7, <1>used, <1>bound, <1>path, <2>1, ExpansionAssumption
<1>12. g \in Frame /\ g.key = child /\ g.used = used /\ g.path = path /\ g.depth = Top.depth + 1
       /\ g.at = "enter" /\ g.bound = bound
  BY <1>6, <1>11, <1>g DEF Frame, Call
<1>13. bindings' = IF bound THEN Append(bindings, name) ELSE bindings
  BY <1>bound, <1>child, <1>kids, <1>name DEF Descend, Segment, KindAfter
<1>14. ASSUME NEW x \in Stage, Holds(Top, x)
       PROVE  \E y \in Stage :
                /\ Holds(f, x) /\ Leads(f, g, x, y) /\ Holds(g, y)
                /\ x.bindings = bindings => bindings' = y.bindings
                /\ \A i \in WaysOn(x) :
                     (Top.at = "enter" \/ i > Passed(Top)) <=> (After(x, i) = y \/ i > Passed(f))
  <2>1. x.key = Top.key /\ x.used = Top.used /\ x.path = Top.path /\ x.depth = Top.depth
    BY <1>14 DEF Holds
  <2>2. x.used < Len(template) /\ x.used # Len(template)
    BY <1>2, <2>1
  <2>3. p + 1 \in WaysOn(x) /\ p + 1 # 0
    <3>1. p + 1 # 0 /\ p + 1 \in 0 .. Len(RangeAfter(x.key, x.used))
      BY <1>3, <1>6, <1>ks, <2>1
    <3> QED
      BY <1>3, <2>1, <2>2, <3>1 DEF WaysOn
  <2>y. PICK y \in Stage : y = After(x, p + 1) /\ y.nth = p + 1
    BY <2>2, <2>3, AfterIsStage
  <2>4. y = Below(x, p + 1)
    BY <2>3, <2>y DEF After
  <2>5. /\ y.key = child /\ y.used = used /\ y.path = path /\ y.depth = Top.depth + 1
        /\ y.bindings = IF KindAfter(x.used) = "literal" THEN x.bindings ELSE Append(x.bindings, name)
    BY <1>6, <1>ks, <1>name, <1>used, <1>path, <2>1, <2>4 DEF Below
  <2>6. Holds(f, x)
    <3>1. \A i \in 1 .. Len(rest) : rest[i] = ks[(p + 1) + i]
      <4> TAKE i \in 1 .. Len(rest)
      <4>1. i \in Nat /\ i + 1 \in 1 .. Len(kids)
        BY <1>4, <1>5
      <4>2. rest[i] = kids[i + 1] /\ kids[i + 1] = ks[p + (i + 1)]
        BY <1>3, <1>5, <4>1
      <4>3. p + (i + 1) = (p + 1) + i
        BY <1>3, <4>1
      <4> QED
        BY <4>2, <4>3
    <3>2. \A i \in 1 .. Len(f.kids) : f.kids[i] = RangeAfter(f.key, f.used)[Passed(f) + i]
      BY <1>9, <1>10, <1>ks, <3>1
    <3>3. f.key \notin hive.kidsBad /\ Passed(f) \in Nat /\ f.at # "below"
      BY <1>3, <1>6, <1>9, <1>10
    <3>4. x.key = f.key /\ x.used = f.used /\ x.path = f.path /\ x.depth = f.depth
      BY <1>9, <2>1
    <3> QED
      BY <3>2, <3>3, <3>4 DEF Holds
  <2>7. Leads(f, g, x, y)
    BY <1>9, <1>10, <1>12, <1>bound, <2>3, <2>y DEF Leads
  <2>8. Holds(g, y)
    BY <1>12, <2>5 DEF Holds
  <2>9. x.bindings = bindings => bindings' = y.bindings
    BY <1>13, <1>bound, <2>1, <2>5
  <2>10. ASSUME NEW i \in WaysOn(x)
         PROVE  (Top.at = "enter" \/ i > Passed(Top)) <=> (After(x, i) = y \/ i > Passed(f))
    <3>1. i \in Nat /\ After(x, i).nth = i
      BY <2>2, WayIsChoice, AfterIsStage
    <3>2. After(x, i) = y <=> i = p + 1
      BY <2>y, <3>1
    <3>3. i > p <=> i = p + 1 \/ i > p + 1
      BY <1>3, <3>1
    <3> QED
      BY <1>0, <1>10, <1>p, <3>2, <3>3
  <2> QED
    BY <2>6, <2>7, <2>8, <2>9, <2>10
<1>15. stack' = Append(Front(stack) \o <<f>>, g) /\ UNCHANGED <<hive, template, sets, matched, hits>>
  <2>1. [Top EXCEPT !.kids = Tail(@)] = f
    BY <1>2, <1>f, <1>rest, <1>kids DEF Frame
  <2>2. Call(Head(Top.kids), IF Segment.kind = "deep" THEN Top.used ELSE Top.used + 1,
             Append(Top.path, hive.name[Head(Top.kids)]), Top.depth + 1, Segment.kind # "literal") = g
    BY <1>kids, <1>child, <1>name, <1>used, <1>path, <1>bound, <1>g DEF Segment, KindAfter
  <2>3. stack' = Append(Front(stack) \o <<[Top EXCEPT !.kids = Tail(@)]>>,
                        Call(Head(Top.kids), IF Segment.kind = "deep" THEN Top.used ELSE Top.used + 1,
                             Append(Top.path, hive.name[Head(Top.kids)]), Top.depth + 1, Segment.kind # "literal"))
    BY DEF Descend
  <2>4. UNCHANGED <<hive, template, sets, matched, hits>>
    BY DEF Descend
  <2> QED
    BY ONLY <2>1, <2>2, <2>3, <2>4
<1> QED
  BY <1>0, <1>2, <1>8, <1>9, <1>12, <1>14, <1>15, WalkCalls

\* Two sequences with the same members are the same.
LEMMA SameMembers ==
  ASSUME NEW S, NEW s \in Seq(S), NEW t \in Seq(S), Len(s) = Len(t), \A i \in 1 .. Len(s) : s[i] = t[i]
  PROVE  s = t
OBVIOUS

\* A way with no segment left is a match.
LEMMA WayIsMatch ==
  ASSUME IInv, Typed, NEW v, IsWayOf(v, stack, bindings), EmitMatch
  PROVE  IsMatch(v) /\ HitOf(v) = [key |-> Top.key, path |-> Top.path, bindings |-> bindings]
<1>0. stack # << >> /\ Top.used = Len(template) /\ Top.depth <= MAX_GLOB_DEPTH /\ Top.at = "enter"
  <2>1. Top.depth \in Nat /\ MAX_GLOB_DEPTH \in Nat
    BY TopStage, ExpansionAssumption DEF EmitMatch, At
  <2> QED
    BY <2>1 DEF EmitMatch, Refused, Finished, At
<1>s. PICK s : s = stack
  OBVIOUS
<1>n. PICK n \in Nat \ {0} : n = Len(s)
  BY <1>0, <1>s, TopStage
<1>1. v \in Seq(Stage) /\ Len(v) = n /\ v # << >> /\ Holds(Top, v[n])
  BY <1>0, <1>s, <1>n, TopStage
<1>2. v[1] = Start /\ bindings = v[n].bindings
  BY <1>0, <1>1, <1>s DEF IsWayOf
<1>3. v[n].used = Len(template) /\ v[n].key = Top.key /\ v[n].path = Top.path /\ v[n].depth <= MAX_GLOB_DEPTH
  BY <1>0, <1>1 DEF Holds
<1>4. ASSUME NEW m \in 1 .. n - 1
      PROVE  (\E i \in WaysOn(v[m]) : v[m + 1] = After(v[m], i)) /\ v[m].depth <= MAX_GLOB_DEPTH
  <2>1. Leads(s[m], s[m + 1], v[m], v[m + 1]) /\ Holds(s[m], v[m])
    BY <1>n, <1>s DEF IsWayOf
  <2>2. IsCall(s[m], m)
    BY <1>n, <1>s DEF IInv, IsStack
  <2> QED
    BY <2>1, <2>2 DEF Leads, Holds, IsCall
<1>5. \A m \in 1 .. n : v[m].depth <= MAX_GLOB_DEPTH
  <2> TAKE m \in 1 .. n
  <2>1. m \in 1 .. n - 1 \/ m = n
    OBVIOUS
  <2> QED
    BY <1>3, <1>4, <2>1
<1>6. IsMatch(v)
  BY <1>1, <1>2, <1>3, <1>4, <1>5 DEF IsMatch
<1> QED
  BY <1>1, <1>2, <1>3, <1>6 DEF HitOf

\* The match at the top is reported, for the first time.
LEMMA WalkEmits ==
  ASSUME IInv, Typed, WalkInv, EmitMatch
  PROVE  WalkInv'
<1>0. stack # << >> /\ Top.used = Len(template) /\ Top.at = "enter" /\ ~Full
  BY DEF EmitMatch, Refused, Finished, At
<1>1. PICK v, ws : IsWayOf(v, stack, bindings) /\ Reports(hits, ws) /\ Behind(v, stack, ws, Full)
  BY DEF WalkInv
<1>s. PICK s : s = stack
  OBVIOUS
<1>n. PICK n \in Nat \ {0} : n = Len(s)
  BY <1>0, <1>1, <1>s, TopStage
<1>b. PICK b : b = bindings
  OBVIOUS
<1>e. PICK e : e = IF s[Len(s)].bound THEN Front(b) ELSE b
  OBVIOUS
<1>hs. PICK hs : hs = hits
  OBVIOUS
<1>h. PICK h : h = HitOf(v)
  OBVIOUS
<1>2. s \in Seq(Frame) /\ s # << >> /\ Top = s[n] /\ IsWayOf(v, s, b) /\ s[n].at = "enter"
      /\ v \in Seq(Stage) /\ Len(v) = n
  BY <1>0, <1>1, <1>s, <1>n, <1>b, TopStage
<1>3. stack' = Front(s) /\ bindings' = e /\ hits' = Append(hs, h)
      /\ hive' = hive /\ template' = template /\ sets' = sets
  <2>1. h = [key |-> Top.key, path |-> Top.path, bindings |-> bindings]
    BY <1>1, <1>h, WayIsMatch
  <2> QED
    BY <1>s, <1>b, <1>e, <1>hs, <2>1 DEF EmitMatch, Return, Top
<1>4. IsMatch(v)
  BY <1>1, WayIsMatch
<1>5. /\ IsWayOf(Front(v), Front(s), e)
      /\ \A w : Ahead(w, Front(v), Front(s)) <=> \E m \in 1 .. n - 1 : AheadOf(w, v, s, m)
  <2>1. /\ IsWayOf(Front(v), Front(s), e)
        /\ \A w : Ahead(w, Front(v), Front(s)) <=> \E m \in 1 .. Len(s) - 1 : AheadOf(w, v, s, m)
    BY <1>2, <1>e, WayBack
  <2> QED
    BY <1>n, <2>1
<1>6. AheadOf(v, v, s, n)
  BY <1>2 DEF AheadOf
<1>7. ASSUME NEW m \in 1 .. n - 1 PROVE ~AheadOf(v, v, s, m)
  <2>0. IsWayOf(v, s, b) /\ m \in 1 .. Len(s) - 1 /\ m \in 1 .. Len(s)
    BY <1>n, <1>2
  <2>1. Leads(s[m], s[m + 1], v[m], v[m + 1]) /\ Holds(s[m], v[m])
    BY <2>0 DEF IsWayOf
  <2>2. IsCall(s[m], m) /\ s[m].at # "enter" /\ Passed(s[m]) \in WaysOn(v[m]) /\ v[m + 1] = After(v[m], Passed(s[m]))
    BY <1>n, <1>s, <2>1 DEF IInv, IsStack, Leads
  <2>3. v[m] \in Stage /\ v[m].used < Len(template)
    BY <1>2, <2>1, <2>2 DEF IsCall, Holds
  <2>4. v[m + 1].nth = Passed(s[m]) /\ Passed(s[m]) \in Nat
    BY <2>2, <2>3, AfterIsStage, WayIsChoice
  <2> QED
    BY <2>2, <2>4 DEF AheadOf
<1>8. ASSUME NEW w, IsMatch(w), AheadOf(w, v, s, n) PROVE w = v
  <2>1. n <= Len(w) /\ \A m \in 1 .. n : w[m] = v[m]
    BY <1>8 DEF AheadOf
  <2>2. v[n].used = Len(template)
    BY <1>0, <1>1, <1>s, <1>n, TopStage DEF Holds
  <2>3. n = Len(w) /\ w \in Seq(Stage)
    <3>1. w[n].used = Len(template)
      BY <2>1, <2>2
    <3> QED
      BY <1>8, <2>1, <3>1, MatchGoesOn DEF IsMatch
  <2> QED
    BY <1>2, <2>1, <2>3, SameMembers
<1>9. ASSUME NEW w, Ahead(w, Front(v), Front(s)) PROVE Ahead(w, v, s) /\ w # v
  <2>1. PICK m \in 1 .. n - 1 : AheadOf(w, v, s, m)
    BY <1>5, <1>9
  <2>2. m \in 1 .. Len(s)
    BY <1>n
  <2> QED
    BY <1>7, <2>1, <2>2 DEF Ahead
<1>10. ASSUME NEW w, IsMatch(w), Ahead(w, v, s), w # v PROVE Ahead(w, Front(v), Front(s))
  <2>1. PICK m \in 1 .. n : AheadOf(w, v, s, m)
    BY <1>10, <1>n DEF Ahead
  <2>2. m # n
    BY <1>8, <1>10, <2>1
  <2> QED
    BY <1>5, <2>1, <2>2
<1>xs. PICK xs : xs = Append(ws, v)
  OBVIOUS
<1>k. PICK k \in Nat : k = Len(ws)
  BY <1>1 DEF Reports
<1>11. ws \in Seq(Seq(Stage)) /\ Len(hs) = k /\ hs \in Seq(Hit)
       /\ \A m \in 1 .. k : IsMatch(ws[m]) /\ hs[m] = HitOf(ws[m])
  BY <1>1, <1>hs, <1>k DEF Reports, Typed
<1>12. xs \in Seq(Seq(Stage)) /\ Len(xs) = k + 1 /\ xs[k + 1] = v /\ \A m \in 1 .. k : xs[m] = ws[m]
  BY <1>2, <1>11, <1>k, <1>xs
<1>ys. PICK ys : ys = Append(hs, h)
  OBVIOUS
<1>13. Len(ys) = k + 1 /\ ys[k + 1] = h /\ \A m \in 1 .. k : ys[m] = hs[m]
  BY <1>11, <1>ys
<1>14. \A m \in 1 .. k : ws[m] # v /\ ~Ahead(ws[m], v, s)
  <2>1. Ahead(v, v, s)
    BY <1>6, <1>n DEF Ahead
  <2> QED
    BY <1>1, <1>k, <1>s, <2>1 DEF Behind
<1>15. Reports(ys, xs)
  <2>1. \A m \in 1 .. k + 1 : IsMatch(xs[m]) /\ ys[m] = HitOf(xs[m])
    <3> TAKE m \in 1 .. k + 1
    <3>1. CASE m = k + 1
      BY <1>4, <1>h, <1>12, <1>13, <3>1
    <3>2. CASE m \in 1 .. k
      BY <1>11, <1>12, <1>13, <3>2
    <3> QED
      BY <3>1, <3>2
  <2>2. \A i, j \in 1 .. k + 1 : xs[i] = xs[j] => i = j
    <3> TAKE i, j \in 1 .. k + 1
    <3>1. \A m, l \in 1 .. k : ws[m] = ws[l] => m = l
      BY <1>1, <1>k DEF Reports
    <3>2. (i \in 1 .. k \/ i = k + 1) /\ (j \in 1 .. k \/ j = k + 1)
      OBVIOUS
    <3> QED
      BY <1>12, <1>14, <3>1, <3>2
  <2> QED
    BY <1>12, <1>13, <2>1, <2>2 DEF Reports
<1>16. Behind(Front(v), Front(s), xs, Full')
  <2>1. \A m \in 1 .. k + 1 : ~Ahead(xs[m], Front(v), Front(s))
    <3> TAKE m \in 1 .. k + 1
    <3>1. m \in 1 .. k \/ m = k + 1
      OBVIOUS
    <3> QED
      BY <1>9, <1>12, <1>14, <3>1
  <2>2. ASSUME NEW w, IsMatch(w)
        PROVE  Ahead(w, Front(v), Front(s)) \/ \E m \in 1 .. k + 1 : xs[m] = w
    <3>1. Ahead(w, v, s) \/ \E m \in 1 .. k : ws[m] = w
      BY <1>0, <1>1, <1>k, <1>s, <2>2 DEF Behind
    <3>2. CASE \E m \in 1 .. k : ws[m] = w
      <4>1. PICK m \in 1 .. k : ws[m] = w
        BY <3>2
      <4>2. m \in 1 .. k + 1 /\ xs[m] = w
        BY <1>12, <4>1
      <4> QED
        BY <4>2
    <3>3. CASE w = v
      <4>1. k + 1 \in 1 .. k + 1
        OBVIOUS
      <4> QED
        BY <1>12, <3>3, <4>1
    <3>4. CASE Ahead(w, v, s) /\ w # v
      BY <1>10, <2>2, <3>4
    <3> QED
      BY <3>1, <3>2, <3>3, <3>4
  <2> QED
    BY <1>12, <2>1, <2>2 DEF Behind
<1>f. PICK x, r : x = Front(v) /\ r = Front(s)
  OBVIOUS
<1>17. IsWayOf(x, stack', bindings') /\ Reports(hits', xs) /\ Behind(x, stack', xs, Full')
  <2>1. IsWayOf(x, r, e) /\ Reports(ys, xs) /\ Behind(x, r, xs, Full')
    BY <1>5, <1>15, <1>16, <1>f
  <2>2. stack' = r /\ bindings' = e /\ hits' = ys
    BY <1>3, <1>f, <1>ys
  <2> QED
    BY <2>1, <2>2
<1> QED
  BY <1>3, <1>17, WalkGoesOn

\* At first every match is ahead.
LEMMA WalkStarts == Init => WalkInv
<1> SUFFICES ASSUME Init PROVE WalkInv
  OBVIOUS
<1>c. PICK c : c = Call(Root, 0, << >>, 0, FALSE)
  OBVIOUS
<1>s. PICK s : s = <<c>>
  OBVIOUS
<1>v. PICK v : v = <<Start>>
  OBVIOUS
<1>1. stack = s /\ bindings = << >> /\ hits = << >>
  BY <1>c, <1>s DEF Init
<1>2. /\ c.key = Root /\ c.used = 0 /\ c.path = << >> /\ c.depth = 0 /\ c.at = "enter" /\ c.bound = FALSE
  BY <1>c DEF Call
<1>3. Start \in Stage
  BY ExpansionAssumption DEF Start, Stage
<1>4. s # << >> /\ Len(s) = 1 /\ s[1] = c
  BY <1>s
<1>5. v \in Seq(Stage) /\ Len(v) = 1 /\ v[1] = Start
  BY <1>3, <1>v
<1>6. Holds(c, Start)
  BY <1>2 DEF Holds, Start
<1>7. IsWayOf(v, s, << >>)
  <2>1. << >> = v[Len(v)].bindings
    BY <1>5 DEF Start
  <2> QED
    BY <1>2, <1>4, <1>5, <1>6, <2>1 DEF IsWayOf
<1>8. Reports(<< >>, << >>)
  BY DEF Reports
<1>9. ASSUME NEW w, IsMatch(w) PROVE Ahead(w, v, s)
  <2>1. w \in Seq(Stage) /\ w # << >> /\ w[1] = Start
    BY <1>9 DEF IsMatch
  <2>2. 1 <= Len(w)
    BY <2>1, EmptySeq
  <2>3. AheadOf(w, v, s, 1)
    BY <1>2, <1>4, <1>5, <2>1, <2>2 DEF AheadOf
  <2> QED
    BY <1>4, <2>3 DEF Ahead
<1>10. Behind(v, s, << >>, Full)
  BY <1>9 DEF Behind
<1> QED
  BY <1>1, <1>7, <1>8, <1>10 DEF WalkInv

\* A step that does nothing.
LEMMA WalkStutters ==
  ASSUME WalkInv, UNCHANGED vars
  PROVE  WalkInv'
<1>1. PICK v, ws : IsWayOf(v, stack, bindings) /\ Reports(hits, ws) /\ Behind(v, stack, ws, Full)
  BY DEF WalkInv
<1>2. stack' = stack /\ bindings' = bindings /\ hits' = hits /\ Full' = Full
      /\ hive' = hive /\ template' = template /\ sets' = sets
  BY DEF vars, Full
<1>3. IsWayOf(v, stack', bindings') /\ Reports(hits', ws) /\ Behind(v, stack', ws, Full')
  BY <1>1, <1>2
<1> QED
  BY <1>2, <1>3, WalkGoesOn

\* Every step of walk keeps what is reported and what is ahead.
LEMMA WalkStep == IInv /\ Typed /\ WalkInv /\ [Next]_vars => WalkInv'
<1> SUFFICES ASSUME IInv, Typed, WalkInv, [Next]_vars PROVE WalkInv'
  OBVIOUS
<1>1. CASE Refuse
  BY <1>1, WalkRefuse
<1>2. CASE EmitMatch
  BY <1>2, WalkEmits
<1>3. CASE MatchNoLevel
  BY <1>3, WalkGivesWay
<1>4. CASE ReadChildren
  BY <1>4, WalkReads
<1>5. CASE ChildrenUnreadable
  BY <1>5, WalkUnreadable
<1>6. CASE Descend
  BY <1>6, WalkDescends
<1>7. CASE EndLoop
  BY <1>7, WalkEndLoop
<1>8. CASE UNCHANGED vars
  BY <1>8, WalkStutters
<1> QED
  BY <1>1, <1>2, <1>3, <1>4, <1>5, <1>6, <1>7, <1>8 DEF Next

\* The theorem of the walk: an expansion that is over has reported every match
\* of its template down to the depth that is allowed exactly once, with its
\* key, its path and its bindings, and nothing else; only the cap on the matches
\* cuts it short.
THEOREM ExpansionReportsMatches == Spec => []MatchesReported
<1>1. WalkInv => MatchesReported
  BY NoneAhead
<1> QED
  BY <1>1, InitInv, NextInv, InitTyped, TypedStep, WalkStarts, WalkStep, PTL DEF Spec

-----------------------------------------------------------------------------
\* A path that is not empty.
IsPath(path) == \E S : path \in Seq(S) \ {<< >>}

LEMMA CutIsPath ==
  ASSUME NEW path, IsPath(path), NEW m \in 1 .. Len(path)
  PROVE  IsPath(SubSeq(path, m, Len(path)))
  <1>1. PICK S : path \in Seq(S)
    BY DEF IsPath
  <1>2. Len(path) \in Nat /\ m \in Nat /\ m <= Len(path) /\ \A n \in 1 .. Len(path) : path[n] \in S
    BY <1>1
  <1>3. /\ SubSeq(path, m, Len(path)) \in Seq(S)
        /\ Len(SubSeq(path, m, Len(path))) = Len(path) - m + 1
    BY <1>1, <1>2
  <1>4. SubSeq(path, m, Len(path)) # << >>
    <2>1. PICK s : s = SubSeq(path, m, Len(path))
      OBVIOUS
    <2>2. Len(s) # 0
      BY <1>2, <1>3, <2>1
    <2>. QED
      BY <2>1, <2>2
  <1>. QED
    BY <1>3, <1>4 DEF IsPath

\* Stripping prefixes leaves the last component.
LEMMA StrippedIsPath ==
  ASSUME NEW path, IsPath(path), NEW prefixes
  PROVE  IsPath(Stripped(path, prefixes))
  <1>. DEFINE place(c) == CHOOSE n \in 0 .. Len(prefixes) :
                IF n = 0 THEN \A m \in DOMAIN prefixes : prefixes[m] # c ELSE prefixes[n] = c
              leading == {n \in 0 .. Len(path) - 1 :
                \A m \in 1 .. n : place(path[m]) > (IF m = 1 THEN 0 ELSE place(path[m - 1]))}
  <1>1. Len(path) \in Nat \ {0}
    BY DEF IsPath
  <1>2. Stripped(path, prefixes) = SubSeq(path, Cardinality(leading), Len(path))
    BY DEF Stripped
  <1>. HIDE DEF place
  <1>3. leading \subseteq 0 .. Len(path) - 1 /\ 0 \in leading
    <2>1. 0 \in 0 .. Len(path) - 1 /\ 1 .. 0 = {}
      BY <1>1
    <2>. QED
      BY <2>1
  <1>. HIDE DEF leading
  <1>4. PICK T : T = 0 .. Len(path) - 1 /\ IsFiniteSet(T) /\ Cardinality(T) = Len(path)
    <2>1. PICK a \in Int, b \in Int : a = 0 /\ b = Len(path) - 1
      BY <1>1
    <2>2. IsFiniteSet(a .. b) /\ Cardinality(a .. b) = IF a > b THEN 0 ELSE b - a + 1
      BY FS_Interval
    <2>3. Cardinality(a .. b) = Len(path)
      BY <1>1, <2>1, <2>2
    <2>. QED
      BY <2>1, <2>2, <2>3
  <1>5. IsFiniteSet(leading) /\ Cardinality(leading) \in Nat /\ Cardinality(leading) <= Len(path)
    <2>1. leading \subseteq T
      BY <1>3, <1>4
    <2>2. IsFiniteSet(leading) /\ Cardinality(leading) <= Cardinality(T)
      BY <1>4, <2>1, FS_Subset
    <2>. QED
      BY <1>4, <2>2, FS_CardinalityType
  <1>6. Cardinality(leading) # 0
    BY <1>3, <1>5, FS_EmptySet
  <1>7. Cardinality(leading) \in 1 .. Len(path)
    BY <1>1, <1>5, <1>6
  <1>. QED
    BY <1>2, <1>7, CutIsPath

\* Collapsing doubled backslashes leaves the first component.
LEMMA CollapsedIsPath ==
  ASSUME NEW raw, IsPath(raw)
  PROVE  IsPath(Collapsed(raw))
  <1>. DEFINE kept == {n \in DOMAIN raw : raw[n] # "" \/ n \in {1, Len(raw)}}
              nth(n) == CHOOSE i \in kept : Cardinality({j \in kept : j <= i}) = n
              c == [n \in 1 .. Cardinality(kept) |-> raw[nth(n)]]
              T == {raw[nth(n)] : n \in 1 .. Cardinality(kept)}
  <1>1. Len(raw) \in Nat \ {0} /\ DOMAIN raw = 1 .. Len(raw)
    BY DEF IsPath
  <1>2. Collapsed(raw) = c
    BY DEF Collapsed
  <1>. HIDE DEF nth, c, T
  <1>3. kept \subseteq 1 .. Len(raw) /\ 1 \in kept
    <2>1. 1 \in 1 .. Len(raw)
      BY <1>1
    <2>. QED
      BY <1>1, <2>1
  <1>. HIDE DEF kept
  <1>4. IsFiniteSet(kept) /\ Cardinality(kept) \in Nat
    <2>1. IsFiniteSet(1 .. Len(raw))
      BY <1>1, FS_Interval
    <2>2. IsFiniteSet(kept)
      BY <1>3, <2>1, FS_Subset
    <2>. QED
      BY <2>2, FS_CardinalityType
  <1>5. Cardinality(kept) # 0
    BY <1>3, <1>4, FS_EmptySet
  <1>6. PICK k \in Nat : k = Cardinality(kept)
    BY <1>4
  <1>7. c \in [1 .. k -> T]
    BY <1>6 DEF c, T
  <1>8. c \in Seq(T) /\ Len(c) = k /\ k # 0
    BY <1>5, <1>6, <1>7
  <1>9. c # << >>
    BY <1>8
  <1>. QED
    BY <1>2, <1>8, <1>9 DEF IsPath

\* The template of a descriptor has a length.
LEMMA TemplateHasLength ==
  ASSUME NEW raw, IsPath(raw), NEW strip
  PROVE  Len(TemplateSegments(raw, strip)) \in Nat
  <1>. DEFINE path == Normalize(raw, strip)
              names == Keeping(path, Range(path) \ {""})
              ts == [n \in DOMAIN names |-> ParseSegment(names[n])]
  <1>1. IsPath(Stripped(Collapsed(raw), RootPrefixes))
    BY CollapsedIsPath, StrippedIsPath
  <1>2. path = NoPath \/ IsPath(path)
    BY <1>1, StrippedIsPath DEF Normalize
  <1>3. TemplateSegments(raw, strip) \in {<< >>, ts} /\ (path = NoPath => TemplateSegments(raw, strip) = << >>)
    BY DEF TemplateSegments
  <1>4. CASE TemplateSegments(raw, strip) = << >>
    BY <1>4
  <1>5. CASE IsPath(path) /\ TemplateSegments(raw, strip) = ts
    <2>. HIDE DEF path
    <2>1. PICK n \in Nat : DOMAIN path = 1 .. n
      <3>1. PICK S : path \in Seq(S)
        BY <1>5 DEF IsPath
      <3>. QED
        BY <3>1
    <2>2. names \in Seq(Range(path) \ {""})
      BY <2>1, KeepingKeeps
    <2>. HIDE DEF names
    <2>3. PICK k \in Nat : DOMAIN names = 1 .. k
      <3>1. PICK S : names \in Seq(S)
        BY <2>2
      <3>. QED
        BY <3>1
    <2>4. ts \in Seq({ParseSegment(names[i]) : i \in 1 .. k})
      BY <2>3
    <2>. QED
      BY <1>5, <2>4
  <1>. QED
    BY <1>2, <1>3, <1>4, <1>5

-----------------------------------------------------------------------------
\* Between two descriptors no call of walk is under way.
ScanInv ==
  /\ IInv
  /\ phase \in {"discover", "hives"} => stack = << >>
  /\ d \in Nat

\* Every step of walk is one of a call that is under way.
LEMMA NextIsOfACall == Next => stack # << >>
  BY DEF Next, Refuse, Refused, EmitMatch, MatchNoLevel, ReadChildren, ChildrenUnreadable,
         AtChildren, Descend, MayDescend, EndLoop, At

LEMMA ScanInitInv == ScanInit => ScanInv
  <1>. SUFFICES ASSUME ScanInit PROVE ScanInv
    OBVIOUS
  <1>1. d = 0 /\ ((phase = "done" /\ Init) \/ NoWalk)
    BY DEF ScanInit
  <1>2. CASE phase = "done" /\ Init
    BY <1>1, <1>2, InitInv DEF ScanInv
  <1>3. CASE NoWalk
    <2>1. stack = << >> /\ Fresh
      <3>1. Len(<< >>) = 0
        OBVIOUS
      <3>. QED
        BY <1>3, <3>1 DEF NoWalk, Fresh
    <2>. QED
      BY <1>1, <2>1, FreshInv DEF ScanInv
  <1>. QED
    BY <1>1, <1>2, <1>3

\* Every step of a scan keeps the caps: a descriptor's walk begins when the one
\* before it is over, whatever that one has counted.
LEMMA ScanNextInv == ScanInv /\ [ScanNext]_allVars => ScanInv'
  <1>. SUFFICES ASSUME ScanInv, [ScanNext]_allVars PROVE ScanInv'
    OBVIOUS
  <1>0. /\ IInv /\ d \in Nat /\ d + 1 \in Nat
        /\ phase \in {"discover", "hives"} => stack = << >>
    BY DEF ScanInv
  <1>1. UNCHANGED vars => IInv' /\ UNCHANGED stack
    BY <1>0, NextInv DEF vars
  <1>2. Fresh' => IInv'
    BY FreshInv, PTL
  <1>3. CASE FindUserHives \/ SkipHive
    BY <1>0, <1>1, <1>3 DEF FindUserHives, SkipHive, ScanInv
  <1>4. CASE EnterHive
    <2>1. /\ stack' = << >> /\ template' = << >> /\ matched' = 0 /\ hits' = << >>
          /\ phase' = "descriptors" /\ d' = 0
      BY <1>0, <1>4 DEF EnterHive, AtHive
    <2>2. Fresh'
      <3>1. Len(<< >>) = 0
        OBVIOUS
      <3>. QED
        BY <2>1, <3>1 DEF Fresh
    <2>. QED
      BY <1>2, <2>1, <2>2 DEF ScanInv
  <1>5. CASE SkipDescriptor
    BY <1>0, <1>1, <1>5 DEF SkipDescriptor, ScanInv
  <1>6. CASE BeginDescriptor
    <2>1. /\ phase = "descriptors" /\ d < Len(CATALOG) /\ Template # << >>
          /\ stack' = <<Call(Root, 0, << >>, 0, FALSE)>> /\ template' = Template
          /\ matched' = 0 /\ hits' = << >> /\ phase' = phase /\ d' = d + 1
      BY <1>6 DEF BeginDescriptor, AtDescriptor
    <2>2. /\ IsPath(Descriptor.path)
          /\ Len(Descriptor.path) >= 3 =>
               IsPath(SubSeq(Descriptor.path, 3, Len(Descriptor.path)))
      <3>1. d + 1 \in DOMAIN CATALOG
        <4>1. PICK S : CATALOG \in Seq(S)
          BY CatalogAssumption
        <4>2. DOMAIN CATALOG = 1 .. Len(CATALOG) /\ Len(CATALOG) \in Nat
          BY <4>1
        <4>. QED
          BY <1>0, <2>1, <4>2
      <3>2. PICK path : path = Descriptor.path
        OBVIOUS
      <3>3. path \in Seq(Range(path)) /\ path # << >>
        BY <3>1, <3>2, CatalogAssumption DEF Descriptor
      <3>4. IsPath(path) /\ Len(path) \in Nat
        BY <3>3 DEF IsPath
      <3>5. Len(path) >= 3 => 3 \in 1 .. Len(path)
        BY <3>4
      <3>. QED
        BY <3>2, <3>4, <3>5, CutIsPath
    <2>3. RawPath = NoPath \/ IsPath(RawPath)
      BY <2>2 DEF RawPath, StripUserPlaceholderPrefix
    <2>4. Len(Template) \in Nat
      <3>1. RawPath # NoPath
        BY <2>1 DEF Template
      <3>. QED
        BY <2>3, <3>1, TemplateHasLength DEF Template
    <2>5. Fresh'
      BY <2>1, <2>4 DEF Fresh
    <2>. QED
      BY <1>0, <1>2, <2>1, <2>5 DEF ScanInv
  <1>7. CASE EmitKey \/ WalkOn
    <2>1. Next /\ UNCHANGED <<phase, d>>
      BY <1>7 DEF EmitKey, WalkOn, Next, scanVars
    <2>. QED
      BY <1>0, <2>1, NextIsOfACall, NextInv DEF ScanInv
  <1>8. CASE EndHive \/ EndScan
    BY <1>0, <1>1, <1>8 DEF EndHive, EndScan, ScanInv
  <1>9. CASE UNCHANGED allVars
    BY <1>0, <1>1, <1>9 DEF allVars, scanVars, ScanInv
  <1>. QED
    BY <1>3, <1>4, <1>5, <1>6, <1>7, <1>8, <1>9 DEF ScanNext

\* Both caps hold of every walk of a scan, for every catalog and all hives: no
\* descriptor starts with the count, the hits or the calls of another one, and
\* what is made of its path is a template however its prefixes are stripped.
THEOREM CapsInScans == ScanSpec => [](MatchesCapped /\ RecursionBounded)
  <1>1. ScanInv => MatchesCapped /\ RecursionBounded
    BY InvBoundsCalls DEF ScanInv, IInv
  <1>. QED
    BY <1>1, ScanInitInv, ScanNextInv, PTL DEF ScanSpec

-----------------------------------------------------------------------------
(* SYSTEM hives: the lookups, then the control sets, then the services.     *)

\* A lookup by name finds the first subkey of that name.
LEMMA SubkeyIs ==
  ASSUME ExpansionAssumption, NEW h, IsHive(h), NEW k \in Ids, NEW name
  PROVE  /\ Subkey(h, k, name) \in Ids \union {NoKey}
         /\ KidOf(h, k, name) = {j \in {Subkey(h, k, name)} : j # NoKey}
<1>ks. PICK ks : ks = h.kids[k]
  OBVIOUS
<1>1. ks \in Seq(Ids)
  BY <1>ks DEF IsHive
<1>2. PICK N : N = Named(h, k, name)
  OBVIOUS
<1>3. /\ N = {n \in 1 .. Len(ks) : h.name[ks[n]] = name} /\ DOMAIN ks = 1 .. Len(ks)
      /\ \A n \in 1 .. Len(ks) : ks[n] \in Ids
  BY <1>ks, <1>1, <1>2 DEF Named
<1>4. KidOf(h, k, name) = {ks[n] : n \in {m \in N : k \notin h.kidsBad /\ \A i \in 1 .. m - 1 : i \notin N}}
  <2>1. \A m \in 1 .. Len(ks) : \A i \in 1 .. m - 1 : i \in 1 .. Len(ks)
    BY <1>1
  <2>2. \A m \in 1 .. Len(ks) : (\A i \in 1 .. m - 1 : i \notin N) <=>
                                (\A i \in 1 .. m - 1 : h.name[ks[i]] # name)
    BY <1>3, <2>1
  <2> QED
    BY <1>ks, <1>3, <2>2 DEF KidOf
<1>5. CASE k \in h.kidsBad
  <2>1. Subkey(h, k, name) = NoKey
    BY <1>5 DEF Subkey
  <2> QED
    BY <1>4, <1>5, <2>1
<1>6. CASE k \notin h.kidsBad /\ N = {}
  <2>1. Subkey(h, k, name) = NoKey
    BY <1>2, <1>6 DEF Subkey, FirstNamed
  <2> QED
    BY <1>4, <1>6, <2>1
<1>7. CASE k \notin h.kidsBad /\ N # {}
  <2>n. PICK n : n = CHOOSE x \in N : \A m \in N : x <= m
    OBVIOUS
  <2>0. N \in SUBSET Nat
    BY <1>3
  <2>1. n \in N /\ \A m \in N : n <= m
    BY <1>7, <2>0, <2>n, LeastChosen
  <2>2. Subkey(h, k, name) = ks[n]
    <3>1. k # NoKey
      BY DEF ExpansionAssumption
    <3> QED
      BY <1>ks, <1>2, <1>7, <2>n, <3>1 DEF Subkey, FirstNamed
  <2>3. \A m \in N : (\A i \in 1 .. m - 1 : i \notin N) <=> m = n
    <3>1. ASSUME NEW m \in N, \A i \in 1 .. m - 1 : i \notin N PROVE m = n
      <4>1. n <= m /\ m \in Nat /\ n \in Nat /\ n >= 1
        BY <1>3, <2>1
      <4>2. n < m => n \in 1 .. m - 1
        BY <4>1
      <4> QED
        BY <2>1, <3>1, <4>1, <4>2
    <3>2. \A i \in 1 .. n - 1 : i \notin N
      BY <1>3, <2>1
    <3> QED
      BY <3>1, <3>2
  <2>4. KidOf(h, k, name) = {ks[n]}
    BY <1>4, <1>7, <2>1, <2>3
  <2>5. ks[n] \in Ids /\ ks[n] # NoKey
    BY <1>3, <2>1 DEF ExpansionAssumption
  <2> QED
    BY <2>2, <2>4, <2>5
<1> QED
  BY <1>5, <1>6, <1>7

\* A value is found by its name, if it is the first of that name and can be read.
LEMMA ValueIs ==
  ASSUME SystemAssumption, NEW h, IsHive(h), NEW k \in Ids, NEW name, NEW v, v = ValueNamed(h, k, name)
  PROVE  /\ Readable(v) => v.data \in Data
         /\ DataOf(h, k, name) = {x \in {v.data} : Readable(v)}
<1>vs. PICK vs : vs = ValuesOf(h, k)
  OBVIOUS
<1>N. PICK N : N = {n \in DOMAIN vs : vs[n].name = name}
  OBVIOUS
<1>R. PICK R : R = [name : Names, data : Data]
  OBVIOUS
<1>1. /\ vs \in Seq(R) /\ DOMAIN vs = 1 .. Len(vs) /\ Len(vs) \in Nat
      /\ \A n \in 1 .. Len(vs) : vs[n] \in R
  <2>1. << >> \in Seq(R)
    OBVIOUS
  <2>2. h.vals[k] \in Seq(R)
    BY <1>R DEF IsHive
  <2>3. vs \in Seq(R)
    BY <1>vs, <2>1, <2>2 DEF ValuesOf
  <2> QED
    BY <2>3
<1>2. v = IF N = {} THEN NoValue ELSE vs[CHOOSE x \in N : \A m \in N : x <= m]
  <2>1. ValueNamed(h, k, name) = IF N = {} THEN NoValue ELSE vs[CHOOSE x \in N : \A m \in N : x <= m]
    BY <1>vs, <1>N DEF ValueNamed
  <2> QED
    BY <2>1
<1>3. DataOf(h, k, name) = {vs[n].data : n \in {m \in N : vs[m].data.ok /\ \A i \in 1 .. m - 1 : i \notin N}}
  <2>1. CASE k \in h.valsBad
    <3>0. vs = << >>
      BY <1>vs, <2>1 DEF ValuesOf
    <3>1. N = {}
      BY <1>N, <3>0
    <3> QED
      BY <2>1, <3>0, <3>1 DEF DataOf
  <2>2. CASE k \notin h.valsBad
    <3>1. vs = h.vals[k]
      BY <1>vs, <2>2 DEF ValuesOf
    <3>2. \A m \in 1 .. Len(vs) : \A i \in 1 .. m - 1 : i \in 1 .. Len(vs)
      BY <1>1
    <3>3. \A m \in 1 .. Len(vs) : (\A i \in 1 .. m - 1 : i \notin N) <=>
                                  (\A i \in 1 .. m - 1 : vs[i].name # name)
      BY <1>1, <1>N, <3>2
    <3> QED
      BY <1>N, <1>1, <2>2, <3>1, <3>3 DEF DataOf
  <2> QED
    BY <2>1, <2>2
<1>4. CASE N = {}
  BY <1>2, <1>3, <1>4 DEF Readable
<1>5. CASE N # {}
  <2>n. PICK n : n = CHOOSE x \in N : \A m \in N : x <= m
    OBVIOUS
  <2>0. N \in SUBSET Nat /\ N \subseteq 1 .. Len(vs)
    BY <1>N, <1>1
  <2>1. n \in N /\ \A m \in N : n <= m
    BY <1>5, <2>0, <2>n, LeastChosen
  <2>2. v = vs[n] /\ v \in R /\ v # NoValue
    BY <1>R, <1>1, <1>2, <1>5, <2>n, <2>0, <2>1 DEF SystemAssumption
  <2>3. \A m \in N : (\A i \in 1 .. m - 1 : i \notin N) <=> m = n
    <3>1. ASSUME NEW m \in N, \A i \in 1 .. m - 1 : i \notin N PROVE m = n
      <4>1. n <= m /\ m \in Nat /\ n \in Nat /\ n >= 1
        BY <1>1, <2>0, <2>1
      <4>2. n < m => n \in 1 .. m - 1
        BY <4>1
      <4> QED
        BY <2>1, <3>1, <4>1, <4>2
    <3>2. \A i \in 1 .. n - 1 : i \notin N
      BY <1>1, <2>0, <2>1
    <3> QED
      BY <3>1, <3>2
  <2>4. Readable(v) <=> v.data.ok
    BY <2>2 DEF Readable
  <2>5. DataOf(h, k, name) = {vs[n].data : m \in {j \in {n} : vs[n].data.ok}}
    BY <1>3, <2>1, <2>3
  <2>6. v.data \in Data
    BY <1>R, <2>2
  <2> QED
    BY <2>2, <2>4, <2>5, <2>6
<1> QED
  BY <1>4, <1>5

\* The keys on the way down a path.
IsWay(w, h, path) ==
  /\ w \in [0 .. Len(path) -> Ids \union {NoKey}]
  /\ w[0] = Root
  /\ \A n \in 1 .. Len(path) : w[n] = Subkey(h, w[n - 1], path[n])

\* open_key goes down the whole path.
LEMMA KeyAtEnd ==
  ASSUME ExpansionAssumption, NEW h, IsHive(h), NEW S, NEW path \in Seq(S), path # << >>
  PROVE  \E w : IsWay(w, h, path) /\ OpenKey(h, path) = IF h.rootBad THEN NoKey ELSE w[Len(path)]
<1>V. PICK V : V = Ids \union {NoKey}
  OBVIOUS
<1>d. PICK len \in Nat : len = Len(path)
  OBVIOUS
<1>1. \A k \in V : \A name : Subkey(h, k, name) \in V
  <2>1. \A name : Subkey(h, NoKey, name) = NoKey
    BY DEF Subkey
  <2> QED
    BY <1>V, <2>1, SubkeyIs
<1>2. PICK f \in [0 .. len -> V] : f[0] = Root /\ \A i \in 1 .. len : f[i] = Subkey(h, f[i - 1], path[i])
  <2> DEFINE G == [p \in V \X (1 .. len) |-> Subkey(h, p[1], path[p[2]])]
  <2>1. IsStep(G, V, len)
    BY <1>1 DEF IsStep
  <2>2. \A k \in V, i \in 1 .. len : G[<<k, i>>] = Subkey(h, k, path[i])
    OBVIOUS
  <2> HIDE DEF G
  <2>3. Root \in V
    BY <1>V DEF ExpansionAssumption
  <2>4. PICK f : IsIteration(f, G, V, Root, len)
    BY <2>1, <2>3, Iteration
  <2>5. f \in [0 .. len -> V] /\ f[0] = Root /\ \A i \in 1 .. len : f[i] = G[<<f[i - 1], i>>]
    BY <2>4 DEF IsIteration
  <2>6. ASSUME NEW i \in 1 .. len PROVE f[i] = Subkey(h, f[i - 1], path[i])
    <3>1. i - 1 \in 0 .. len
      OBVIOUS
    <3> QED
      BY <2>2, <2>5, <3>1
  <2> QED
    BY <2>5, <2>6
<1>3. f = [n \in 0 .. len |-> IF n = 0 THEN Root ELSE Subkey(h, f[n - 1], path[n])]
  BY <1>2
<1>g. PICK g : g = CHOOSE w : w = [n \in 0 .. len |-> IF n = 0 THEN Root ELSE Subkey(h, w[n - 1], path[n])]
  OBVIOUS
<1>4. g = [n \in 0 .. len |-> IF n = 0 THEN Root ELSE Subkey(h, g[n - 1], path[n])]
  BY <1>3, <1>g
<1>5. g[0] = Root /\ \A n \in 1 .. len : g[n] = Subkey(h, g[n - 1], path[n])
  <2>1. 0 \in 0 .. len /\ \A n \in 1 .. len : n \in 0 .. len /\ n # 0
    OBVIOUS
  <2> QED
    BY <1>4, <2>1
<1>6. \A n \in 0 .. len : g[n] \in V
  <2>1. \A n \in 1 .. len : g[n - 1] \in V => g[n] \in V
    BY <1>1, <1>5
  <2>2. g[0] \in V
    BY <1>2, <1>5
  <2> QED
    BY <2>1, <2>2, StepsStay
<1>7. g \in [0 .. len -> V]
  BY <1>4, <1>6
<1>8. OpenKey(h, path) = IF h.rootBad THEN NoKey ELSE g[len]
  BY <1>g, <1>d DEF OpenKey
<1>9. IsWay(g, h, path)
  BY <1>V, <1>d, <1>5, <1>7 DEF IsWay
<1> QED
  BY <1>d, <1>8, <1>9

\* A path of one name.
LEMMA OpenOne ==
  ASSUME ExpansionAssumption, NEW h, IsHive(h), NEW name
  PROVE  OpenKey(h, <<name>>) = IF h.rootBad THEN NoKey ELSE Subkey(h, Root, name)
<1>p. PICK path : path = <<name>>
  OBVIOUS
<1>1. path \in Seq({name}) /\ path # << >> /\ Len(path) = 1 /\ path[1] = name
  BY <1>p
<1>2. PICK w : IsWay(w, h, path) /\ OpenKey(h, path) = IF h.rootBad THEN NoKey ELSE w[Len(path)]
  BY <1>1, KeyAtEnd
<1>3. w[1] = Subkey(h, Root, name)
  BY <1>1, <1>2 DEF IsWay
<1> QED
  BY <1>p, <1>1, <1>2, <1>3

\* What is not there has nothing below it.
LEMMA NothingBelow ==
  ASSUME ExpansionAssumption, NEW h, IsHive(h), NEW S, NEW name \in S,
         NEW path \in Seq(S), OpenKey(h, <<name>>) = NoKey
  PROVE  OpenKey(h, <<name>> \o path) = NoKey
<1>p. PICK p : p = <<name>> \o path
  OBVIOUS
<1>1. p \in Seq(S) /\ p # << >> /\ p[1] = name /\ Len(p) \in Nat \ {0}
  BY <1>p
<1>2. PICK w : IsWay(w, h, p) /\ OpenKey(h, p) = IF h.rootBad THEN NoKey ELSE w[Len(p)]
  BY <1>1, KeyAtEnd
<1>3. CASE h.rootBad
  BY <1>p, <1>2, <1>3
<1>4. CASE ~ h.rootBad
  <2>1. w[1] = NoKey
    BY <1>1, <1>2, <1>4, OpenOne DEF IsWay
  <2> DEFINE T == {n \in Nat : n + 1 <= Len(p) => w[n + 1] = NoKey}
  <2>2. 0 \in T
    BY <2>1
  <2>3. ASSUME NEW m \in 0 .. Len(p) - 1, m \in T PROVE m + 1 \in T
    <3>1. SUFFICES ASSUME m + 2 <= Len(p) PROVE w[m + 2] = NoKey
      OBVIOUS
    <3>2. m + 2 \in 1 .. Len(p) /\ (m + 2) - 1 = m + 1 /\ w[m + 1] = NoKey
      BY <1>1, <2>3, <3>1
    <3>3. w[m + 2] = Subkey(h, w[m + 1], p[m + 2])
      BY <1>2, <3>2 DEF IsWay
    <3> QED
      BY <3>2, <3>3 DEF Subkey
  <2> HIDE DEF T
  <2>4. Len(p) - 1 \in T
    <3>1. PICK n \in Nat : n = Len(p)
      BY <1>1
    <3>2. \A m \in 0 .. n - 1 : m \in T => m + 1 \in T
      BY <2>3, <3>1
    <3>3. n - 1 \in 0 .. n
      BY <1>1, <3>1
    <3> QED
      BY <2>2, <3>1, <3>2, <3>3, UpTo
  <2>5. w[Len(p)] = NoKey
    BY <1>1, <2>4 DEF T
  <2> QED
    BY <1>p, <1>2, <1>4, <2>5
<1> QED
  BY <1>3, <1>4

\* The first of three paths that opens.
LEMMA FirstOfThree ==
  ASSUME NEW p, NEW q, NEW r
  PROVE  FirstOpened(<<p, q, r>>) =
           IF OpenKey(system, p) # NoKey THEN OpenKey(system, p)
           ELSE IF OpenKey(system, q) # NoKey THEN OpenKey(system, q)
           ELSE OpenKey(system, r)
<1>s. PICK s : s = <<p, q, r>>
  OBVIOUS
<1>k. PICK k : k = [n \in 1 .. 3 |-> OpenKey(system, s[n])]
  OBVIOUS
<1>N. PICK N : N = {n \in DOMAIN s : OpenKey(system, s[n]) # NoKey}
  OBVIOUS
<1>1. DOMAIN s = 1 .. 3 /\ k[1] = OpenKey(system, p) /\ k[2] = OpenKey(system, q) /\ k[3] = OpenKey(system, r)
  BY <1>s, <1>k
<1>2. N = {n \in 1 .. 3 : k[n] # NoKey}
  BY <1>1, <1>N, <1>k
<1>n. PICK n : n = CHOOSE x \in N : \A m \in N : x <= m
  OBVIOUS
<1>3. FirstOpened(s) = IF N = {} THEN NoKey ELSE OpenKey(system, s[n])
  BY <1>N, <1>n DEF FirstOpened
<1>4. N # {} => n \in N /\ \A m \in N : n <= m
  <2>1. N \in SUBSET Nat
    BY <1>2
  <2> QED
    BY <1>n, <2>1, LeastChosen
<1>5. N # {} => OpenKey(system, s[n]) = k[n] /\ n \in 1 .. 3
  BY <1>2, <1>4, <1>k
<1>6. FirstOpened(s) = IF k[1] # NoKey THEN k[1] ELSE IF k[2] # NoKey THEN k[2] ELSE k[3]
  <2>1. CASE N = {}
    BY <1>2, <1>3, <2>1
  <2>2. CASE N # {}
    <3>1. n = 1 \/ n = 2 \/ n = 3
      BY <1>5, <2>2
    <3>2. /\ k[1] # NoKey => n <= 1
          /\ k[2] # NoKey => n <= 2
          /\ k[n] # NoKey
      BY <1>2, <1>4, <2>2
    <3> QED
      BY <1>3, <1>5, <2>2, <3>1, <3>2
  <2> QED
    BY <2>1, <2>2
<1> QED
  BY <1>s, <1>1, <1>6

\* A path of two names, from its parts.
LEMMA TwoNames ==
  ASSUME NEW x, NEW y
  PROVE  <<x>> \o <<y>> = <<x, y>>
<1>s. PICK s : s = <<x>>
  OBVIOUS
<1>S. PICK S : S = {x, y}
  OBVIOUS
<1>b. PICK b : b = s \o <<y>>
  OBVIOUS
<1>t. PICK t : t = <<x, y>>
  OBVIOUS
<1>1. s \in Seq(S) /\ Len(s) = 1 /\ s[1] = x /\ y \in S
  BY <1>s, <1>S
<1>2. b \in Seq(S) /\ Len(b) = 2 /\ b[1] = x /\ b[2] = y
  <2>a. PICK a : a = Append(s, y)
    OBVIOUS
  <2>1. b = a /\ a \in Seq(S) /\ Len(a) = Len(s) + 1
    BY <1>1, <1>b, <2>a, AppendedLast
  <2>2. \A i \in 1 .. Len(s) : a[i] = s[i]
    BY <1>1, <2>a, AppendedLast
  <2>3. a[Len(s) + 1] = y
    BY <1>1, <2>a, AppendedLast
  <2> QED
    BY <1>1, <2>1, <2>2, <2>3
<1>3. t \in Seq(S) /\ Len(t) = 2 /\ t[1] = x /\ t[2] = y
  BY <1>S, <1>t
<1>4. \A i \in 1 .. 2 : i = 1 \/ i = 2
  OBVIOUS
<1>5. b = t
  BY <1>2, <1>3, <1>4
<1> QED
  BY <1>s, <1>b, <1>t, <1>5

\* The number in Select\Current is that of the first value of that name.
LEMMA NumbersAre ==
  ASSUME ExpansionAssumption, SystemAssumption, NEW h, IsHive(h),
         NEW sk, sk = Subkey(h, Root, "SELECT"), NEW v, v = ValueNamed(h, sk, "CURRENT")
  PROVE  RunningNumbers(h) =
           {x \in {v.data.num} : sk # NoKey /\ Readable(v) /\ v.data.size >= 4 /\ v.data.num # 0}
<1>1. sk \in Ids \union {NoKey} /\ KidOf(h, Root, "SELECT") = {j \in {sk} : j # NoKey}
  BY SubkeyIs DEF ExpansionAssumption
<1>2. CASE sk = NoKey
  BY <1>1, <1>2 DEF RunningNumbers
<1>3. CASE sk # NoKey
  <2>1. sk \in Ids
    BY <1>1, <1>3
  <2>2. DataOf(h, sk, "CURRENT") = {x \in {v.data} : Readable(v)}
    BY <2>1, ValueIs
  <2>3. UNION {DataOf(h, k, "CURRENT") : k \in KidOf(h, Root, "SELECT")} = DataOf(h, sk, "CURRENT")
    BY <1>1, <1>3
  <2>4. RunningNumbers(h) = {x.num : x \in {y \in DataOf(h, sk, "CURRENT") : y.size >= 4 /\ y.num # 0}}
    BY <2>3 DEF RunningNumbers
  <2> QED
    BY <1>3, <2>2, <2>4
<1> QED
  BY <1>2, <1>3

\* Where the services, the cache and the scan look first, if the hive has no live
\* name: m is the number of the running set.
SeenAs(m, a, c, n) ==
  /\ m \in Nat /\ m # 0 /\ RunningSet(system) = SetName[m]
  /\ ServicesKey = FirstOpened(<< <<SetName[a], "SERVICES">>, <<SetName[1], "SERVICES">>,
                                  <<"CURRENTCONTROLSET", "SERVICES">> >>)
  /\ ShimcacheKey = FirstOpened(<< <<"CURRENTCONTROLSET">> \o ShimcacheSuffix,
                                   <<SetName[c]>> \o ShimcacheSuffix,
                                   <<SetName[1]>> \o ShimcacheSuffix >>)
  /\ SelectCurrent(system) = n
  /\ a = m \/ (a = 0 /\ m = 1)
  /\ c = m \/ (c = 0 /\ m = 1)
  /\ n = m \/ (n \in {NoNumber, 0} /\ m = 1)

LEMMA NumbersSeen ==
  ASSUME ExpansionAssumption, SystemAssumption, IsHive(system), ~ system.rootBad
  PROVE  \E m, a, c, n : SeenAs(m, a, c, n)
<1>s. PICK sk : sk = Subkey(system, Root, "SELECT")
  OBVIOUS
<1>v. PICK v : v = ValueNamed(system, sk, "CURRENT")
  OBVIOUS
<1>G. PICK G : G = RunningNumbers(system)
  OBVIOUS
<1>g. /\ G # {} <=> sk # NoKey /\ Readable(v) /\ v.data.size >= 4 /\ v.data.num # 0
      /\ G # {} => G = {v.data.num}
  <2>1. RunningNumbers(system) =
          {x \in {v.data.num} : sk # NoKey /\ Readable(v) /\ v.data.size >= 4 /\ v.data.num # 0}
    BY <1>s, <1>v, NumbersAre
  <2>num. PICK num : num = v.data.num
    OBVIOUS
  <2>2. G = {x \in {num} : sk # NoKey /\ Readable(v) /\ v.data.size >= 4 /\ num # 0}
    BY <1>G, <2>1, <2>num
  <2> QED
    BY <2>2, <2>num
<1>1. OpenKey(system, <<"SELECT">>) = sk
  BY <1>s, OpenOne
<1>2. SelectedValue = IF sk = NoKey THEN NoValue ELSE v
  BY <1>1, <1>v DEF SelectedValue
<1>3. sk # NoKey /\ Readable(v) => v.data.num \in Nat /\ v.data.size \in Nat
  <2>1. sk \in Ids \union {NoKey}
    BY <1>s, SubkeyIs DEF ExpansionAssumption
  <2>2. sk # NoKey /\ Readable(v) => v.data \in Data
    BY <1>v, <2>1, ValueIs
  <2> QED
    BY <2>2 DEF Data
<1>m. PICK m : m = IF G = {} THEN 1 ELSE v.data.num
  OBVIOUS
<1>a. PICK a : a = IF Readable(SelectedValue) THEN AsU32(SelectedValue) ELSE 1
  OBVIOUS
<1>c. PICK c : c = IF Readable(SelectedValue) /\ SelectedValue.data.size >= 4
                  THEN SelectedValue.data.num ELSE 1
  OBVIOUS
<1>n. PICK n : n = SelectCurrent(system)
  OBVIOUS
<1>5. RunningSet(system) = SetName[m]
  <2>1. CASE G # {}
    <3>1. G = {m}
      BY <1>g, <1>m, <2>1
    <3>2. (CHOOSE x \in {m} : TRUE) = m
      OBVIOUS
    <3> QED
      BY <1>G, <3>1, <3>2 DEF RunningSet
  <2>2. CASE G = {}
    BY <1>G, <1>m, <2>2 DEF RunningSet
  <2> QED
    BY <2>1, <2>2
<1>6. ~ Readable(NoValue)
  BY DEF Readable
<1>7. n = IF sk # NoKey /\ Readable(v) THEN AsU32(v) ELSE NoNumber
  BY <1>n, <1>s, <1>v DEF SelectCurrent
<1>8. m \in Nat /\ m # 0
  BY <1>3, <1>g, <1>m
<1>9. a = m \/ (a = 0 /\ m = 1)
  BY <1>2, <1>3, <1>6, <1>a, <1>g, <1>m DEF AsU32
<1>10. c = m \/ (c = 0 /\ m = 1)
  BY <1>2, <1>3, <1>6, <1>c, <1>g, <1>m
<1>11. n = m \/ (n \in {NoNumber, 0} /\ m = 1)
  BY <1>3, <1>7, <1>g, <1>m DEF AsU32
<1>12. ServicesKey = FirstOpened(<< <<SetName[a], "SERVICES">>, <<SetName[1], "SERVICES">>,
                                    <<"CURRENTCONTROLSET", "SERVICES">> >>)
  BY <1>a DEF ServicesKey, SystemAssumption
<1>13. ShimcacheKey = FirstOpened(<< <<"CURRENTCONTROLSET">> \o ShimcacheSuffix,
                                     <<SetName[c]>> \o ShimcacheSuffix,
                                     <<SetName[1]>> \o ShimcacheSuffix >>)
  BY <1>c DEF ShimcacheKey, SystemAssumption
<1>14. SeenAs(m, a, c, n)
  BY <1>5, <1>8, <1>9, <1>10, <1>11, <1>12, <1>13, <1>n DEF SeenAs
<1> QED
  BY <1>14

\* In an offline hive all three see the running set.
LEMMA SetsAgree ==
  ASSUME ExpansionAssumption, SystemAssumption, IsHive(system), Offline(system),
         NEW set, set = RunningSet(system),
         OpenKey(system, <<set, "SERVICES">>) # NoKey,
         OpenKey(system, <<set>> \o ShimcacheSuffix) # NoKey
  PROVE  /\ ServicesKey = OpenKey(system, <<set, "SERVICES">>)
         /\ ShimcacheKey = OpenKey(system, <<set>> \o ShimcacheSuffix)
         /\ Resolved(SelectCurrent(system)) = <<set>>
<1>0. ~ system.rootBad
  <2>1. system.rootBad => OpenKey(system, <<set, "SERVICES">>) = NoKey
    BY DEF OpenKey
  <2> QED
    BY <2>1
<1>1. PICK m, a, c, n : SeenAs(m, a, c, n)
  BY <1>0, NumbersSeen
<1>2. OpenKey(system, <<"CURRENTCONTROLSET">>) = NoKey /\ OpenKey(system, <<SetName[0]>>) = NoKey
  BY DEF Offline
<1>3. \A x : \A y : <<x>> \o <<y>> = <<x, y>>
  BY TwoNames
<1>4. \A x : \A y : OpenKey(system, <<x>>) = NoKey => OpenKey(system, <<x, y>>) = NoKey
  <2>1. SUFFICES ASSUME NEW x, NEW y, OpenKey(system, <<x>>) = NoKey
                 PROVE  OpenKey(system, <<x>> \o <<y>>) = NoKey
    BY <1>3
  <2>2. x \in {x, y} /\ <<y>> \in Seq({x, y})
    OBVIOUS
  <2> QED
    BY <2>1, <2>2, NothingBelow
<1>5. \A x : OpenKey(system, <<x>>) = NoKey => OpenKey(system, <<x>> \o ShimcacheSuffix) = NoKey
  <2>1. SUFFICES ASSUME NEW x, OpenKey(system, <<x>>) = NoKey
                 PROVE  OpenKey(system, <<x>> \o ShimcacheSuffix) = NoKey
    OBVIOUS
  <2>2. ShimcacheSuffix \in Seq(Names \union {x}) /\ x \in Names \union {x}
    BY SeqMonotonic DEF SystemAssumption
  <2> QED
    BY <2>1, <2>2, NothingBelow
<1>m. m \in Nat /\ m # 0 /\ set = SetName[m]
  BY <1>1 DEF SeenAs
<1>6. ServicesKey = OpenKey(system, <<set, "SERVICES">>)
  <2>1. ServicesKey = IF OpenKey(system, <<SetName[a], "SERVICES">>) # NoKey
                      THEN OpenKey(system, <<SetName[a], "SERVICES">>)
                      ELSE IF OpenKey(system, <<SetName[1], "SERVICES">>) # NoKey
                      THEN OpenKey(system, <<SetName[1], "SERVICES">>)
                      ELSE OpenKey(system, <<"CURRENTCONTROLSET", "SERVICES">>)
    <3>p. PICK p : p = <<SetName[a], "SERVICES">>
      OBVIOUS
    <3>q. PICK q : q = <<SetName[1], "SERVICES">>
      OBVIOUS
    <3>r. PICK r : r = <<"CURRENTCONTROLSET", "SERVICES">>
      OBVIOUS
    <3>1. ServicesKey = FirstOpened(<<p, q, r>>)
      BY <1>1, <3>p, <3>q, <3>r DEF SeenAs
    <3>2. FirstOpened(<<p, q, r>>) =
            IF OpenKey(system, p) # NoKey THEN OpenKey(system, p)
            ELSE IF OpenKey(system, q) # NoKey THEN OpenKey(system, q)
            ELSE OpenKey(system, r)
      BY FirstOfThree
    <3> QED
      BY <3>1, <3>2, <3>p, <3>q, <3>r
  <2>2. a = m \/ (a = 0 /\ m = 1)
    BY <1>1 DEF SeenAs
  <2>3. CASE a = m
    BY <1>m, <2>1, <2>3
  <2>4. CASE a = 0 /\ m = 1
    <3>1. OpenKey(system, <<SetName[a], "SERVICES">>) = NoKey
      BY <1>2, <1>4, <2>4
    <3> QED
      BY <1>m, <2>1, <2>4, <3>1
  <2> QED
    BY <2>2, <2>3, <2>4
<1>7. ShimcacheKey = OpenKey(system, <<set>> \o ShimcacheSuffix)
  <2>1. ShimcacheKey = IF OpenKey(system, <<"CURRENTCONTROLSET">> \o ShimcacheSuffix) # NoKey
                       THEN OpenKey(system, <<"CURRENTCONTROLSET">> \o ShimcacheSuffix)
                       ELSE IF OpenKey(system, <<SetName[c]>> \o ShimcacheSuffix) # NoKey
                       THEN OpenKey(system, <<SetName[c]>> \o ShimcacheSuffix)
                       ELSE OpenKey(system, <<SetName[1]>> \o ShimcacheSuffix)
    <3>p. PICK p : p = <<"CURRENTCONTROLSET">> \o ShimcacheSuffix
      OBVIOUS
    <3>q. PICK q : q = <<SetName[c]>> \o ShimcacheSuffix
      OBVIOUS
    <3>r. PICK r : r = <<SetName[1]>> \o ShimcacheSuffix
      OBVIOUS
    <3>1. ShimcacheKey = FirstOpened(<<p, q, r>>)
      BY <1>1, <3>p, <3>q, <3>r DEF SeenAs
    <3>2. FirstOpened(<<p, q, r>>) =
            IF OpenKey(system, p) # NoKey THEN OpenKey(system, p)
            ELSE IF OpenKey(system, q) # NoKey THEN OpenKey(system, q)
            ELSE OpenKey(system, r)
      BY FirstOfThree
    <3> QED
      BY <3>1, <3>2, <3>p, <3>q, <3>r
  <2>2. c = m \/ (c = 0 /\ m = 1)
    BY <1>1 DEF SeenAs
  <2>3. OpenKey(system, <<"CURRENTCONTROLSET">> \o ShimcacheSuffix) = NoKey
    BY <1>2, <1>5
  <2>4. CASE c = m
    BY <1>m, <2>1, <2>3, <2>4
  <2>5. CASE c = 0 /\ m = 1
    <3>1. OpenKey(system, <<SetName[c]>> \o ShimcacheSuffix) = NoKey
      BY <1>2, <1>5, <2>5
    <3> QED
      BY <1>m, <2>1, <2>3, <2>5, <3>1
  <2> QED
    BY <2>2, <2>4, <2>5
<1>8. Resolved(SelectCurrent(system)) = <<set>>
  <2>1. SelectCurrent(system) = n /\ (n = m \/ (n \in {NoNumber, 0} /\ m = 1))
    BY <1>1 DEF SeenAs
  <2>2. m # NoNumber
    BY <1>m DEF SystemAssumption
  <2> QED
    BY <1>m, <2>1, <2>2 DEF Resolved
<1> QED
  BY <1>6, <1>7, <1>8

\* What is found depends on the hive alone.
LEMMA SameHive ==
  ASSUME system' = system
  PROVE  /\ ServicesKey' = ServicesKey
         /\ ShimcacheKey' = ShimcacheKey
         /\ \A k : ServiceOf(k)' = ServiceOf(k)
<1>1. SelectedValue' = SelectedValue
  BY DEF SelectedValue
<1>2. \A paths : FirstOpened(paths)' = FirstOpened(paths)
  BY DEF FirstOpened
<1>3. ServicesKey' = ServicesKey
  BY <1>1, <1>2 DEF ServicesKey
<1>4. ShimcacheKey' = ShimcacheKey
  BY <1>1, <1>2 DEF ShimcacheKey
<1>5. \A k : ServiceOf(k)' = ServiceOf(k)
  BY DEF ServiceOf, TextOf, NumberOf
<1> QED
  BY <1>3, <1>4, <1>5

\* open_key returns a key of the hive or none.
LEMMA OpenKeyIs ==
  ASSUME ExpansionAssumption, NEW h, IsHive(h), NEW S, NEW path \in Seq(S)
  PROVE  OpenKey(h, path) \in Ids \union {NoKey}
<1>1. CASE path = << >>
  BY <1>1 DEF OpenKey
<1>2. CASE path # << >>
  <2>1. PICK w : IsWay(w, h, path) /\ OpenKey(h, path) = IF h.rootBad THEN NoKey ELSE w[Len(path)]
    BY <1>2, KeyAtEnd
  <2>2. Len(path) \in Nat /\ w \in [0 .. Len(path) -> Ids \union {NoKey}]
    BY <2>1 DEF IsWay
  <2>3. Len(path) \in 0 .. Len(path)
    BY <2>2
  <2>4. w[Len(path)] \in Ids \union {NoKey}
    BY <2>2, <2>3
  <2> QED
    BY <2>1, <2>4
<1> QED
  BY <1>1, <1>2

LEMMA ServicesKeyIs ==
  ASSUME ExpansionAssumption, IsHive(system)
  PROVE  ServicesKey \in Ids \union {NoKey}
<1>a. PICK a : a = IF Readable(SelectedValue) THEN AsU32(SelectedValue) ELSE 1
  OBVIOUS
<1>p. PICK p : p = <<ControlSetName[a], "SERVICES">>
  OBVIOUS
<1>q. PICK q : q = <<ControlSetName[1], "SERVICES">>
  OBVIOUS
<1>r. PICK r : r = <<"CURRENTCONTROLSET", "SERVICES">>
  OBVIOUS
<1>1. ServicesKey = FirstOpened(<<p, q, r>>)
  BY <1>a, <1>p, <1>q, <1>r DEF ServicesKey
<1>2. FirstOpened(<<p, q, r>>) =
        IF OpenKey(system, p) # NoKey THEN OpenKey(system, p)
        ELSE IF OpenKey(system, q) # NoKey THEN OpenKey(system, q)
        ELSE OpenKey(system, r)
  BY FirstOfThree
<1>3. \A x : \A y : OpenKey(system, <<x, y>>) \in Ids \union {NoKey}
  <2>1. SUFFICES ASSUME NEW x, NEW y PROVE OpenKey(system, <<x, y>>) \in Ids \union {NoKey}
    OBVIOUS
  <2>2. <<x, y>> \in Seq({x, y})
    OBVIOUS
  <2> QED
    BY <2>2, OpenKeyIs
<1>4. /\ OpenKey(system, p) \in Ids \union {NoKey}
      /\ OpenKey(system, q) \in Ids \union {NoKey}
      /\ OpenKey(system, r) \in Ids \union {NoKey}
  BY <1>3, <1>p, <1>q, <1>r
<1> QED
  BY <1>1, <1>2, <1>4

\* Each key is found before it is used.
KeysInv ==
  /\ IsHive(system)
  /\ task \in {"services", "classify", "cache", "entries", "returned"}
  /\ task # "services" => servicesKey = ServicesKey
  /\ task \in {"entries", "returned"} => cacheKey = ShimcacheKey

LEMMA SystemStands == SysInit => KeysInv
<1> SUFFICES ASSUME SysInit PROVE KeysInv
  OBVIOUS
<1>1. system \in SystemHives /\ task = "services"
  BY DEF SysInit
<1> QED
  BY <1>1, SystemAssumption DEF KeysInv, SystemAssumption

LEMMA KeysStep == KeysInv /\ [SysNext]_sysVars => KeysInv'
<1> SUFFICES ASSUME KeysInv, [SysNext]_sysVars PROVE KeysInv'
  OBVIOUS
<1>1. system' = system
  BY DEF SysNext, sysVars, OpenServices, ClassifyNext, EndServices, OpenCache, ReadEntry, EndCache
<1>2. IsHive(system')
  BY <1>1 DEF KeysInv
<1>3. ServicesKey' = ServicesKey /\ ShimcacheKey' = ShimcacheKey
  BY <1>1, SameHive
<1>4. CASE OpenServices
  <2>1. servicesKey' = ServicesKey /\ task' = "classify"
    BY <1>4 DEF OpenServices
  <2> QED
    BY <1>2, <1>3, <2>1 DEF KeysInv
<1>5. CASE ClassifyNext
  <2>1. task' = task /\ task = "classify" /\ servicesKey' = servicesKey
    BY <1>5 DEF ClassifyNext
  <2> QED
    BY <1>2, <1>3, <2>1 DEF KeysInv
<1>6. CASE EndServices
  <2>1. task = "classify" /\ task' = "cache" /\ servicesKey' = servicesKey
    BY <1>6 DEF EndServices
  <2> QED
    BY <1>2, <1>3, <2>1 DEF KeysInv
<1>7. CASE OpenCache
  <2>1. /\ task = "cache" /\ task' \in {"returned", "entries"}
        /\ servicesKey' = servicesKey /\ cacheKey' = ShimcacheKey
    BY <1>7 DEF OpenCache
  <2> QED
    BY <1>2, <1>3, <2>1 DEF KeysInv
<1>8. CASE ReadEntry
  <2>1. task = "entries" /\ task' = task /\ servicesKey' = servicesKey /\ cacheKey' = cacheKey
    BY <1>8 DEF ReadEntry, HasEntry
  <2> QED
    BY <1>2, <1>3, <2>1 DEF KeysInv
<1>9. CASE EndCache
  <2>1. task = "entries" /\ task' = "returned" /\ servicesKey' = servicesKey /\ cacheKey' = cacheKey
    BY <1>9 DEF EndCache
  <2> QED
    BY <1>2, <1>3, <2>1 DEF KeysInv
<1>10. CASE UNCHANGED sysVars
  <2>1. task' = task /\ servicesKey' = servicesKey /\ cacheKey' = cacheKey
    BY <1>10 DEF sysVars
  <2> QED
    BY <1>2, <1>3, <2>1 DEF KeysInv
<1> QED
  BY <1>4, <1>5, <1>6, <1>7, <1>8, <1>9, <1>10 DEF SysNext

\* The three lookups of the running control set, each of which has its own order
\* of names and its own default, end in the same set of every offline hive.
THEOREM ControlSetsCorrect == SysSpec => []ControlSetsAgree
<1>1. KeysInv => ControlSetsAgree
  <2> SUFFICES ASSUME KeysInv, task = "returned", Offline(system) PROVE ControlSetsAgree
    BY DEF ControlSetsAgree
  <2>set. PICK set : set = RunningSet(system)
    OBVIOUS
  <2>s. PICK s : s = OpenKey(system, <<set, "SERVICES">>)
    OBVIOUS
  <2>c. PICK c : c = OpenKey(system, <<set>> \o ShimcacheSuffix)
    OBVIOUS
  <2>1. IsHive(system) /\ servicesKey = ServicesKey /\ cacheKey = ShimcacheKey
    BY DEF KeysInv
  <2>2. s # NoKey /\ c # NoKey =>
          servicesKey = s /\ cacheKey = c /\ Resolved(SelectCurrent(system)) = <<set>>
    BY <2>set, <2>s, <2>c, <2>1, SetsAgree, ExpansionAssumption, SystemAssumption
  <2> QED
    BY <2>set, <2>s, <2>c, <2>2 DEF ControlSetsAgree
<1> QED
  BY <1>1, SystemStands, KeysStep, PTL DEF SysSpec

\* A decision list gives its first rule that holds.
LEMMA FirstRuleIs ==
  ASSUME NEW rules, NEW count \in Nat \ {0}, DOMAIN rules = 1 .. count, rules[count].holds
  PROVE  \E n \in 1 .. count :
           /\ FirstRule(rules) = rules[n] /\ rules[n].holds
           /\ \A m \in 1 .. n - 1 : ~ rules[m].holds
<1>H. PICK H : H = {n \in DOMAIN rules : rules[n].holds}
  OBVIOUS
<1>n. PICK n : n = CHOOSE x \in H : \A m \in H : x <= m
  OBVIOUS
<1>1. H \in SUBSET Nat /\ H # {} /\ H \subseteq 1 .. count
  <2>1. count \in H
    BY <1>H
  <2> QED
    BY <1>H, <2>1
<1>2. n \in H /\ \A m \in H : n <= m
  BY <1>n, <1>1, LeastChosen
<1>3. FirstRule(rules) = rules[n]
  BY <1>H, <1>n DEF FirstRule
<1>4. n \in 1 .. count /\ rules[n].holds
  BY <1>1, <1>2, <1>H
<1>5. ASSUME NEW m \in 1 .. n - 1 PROVE ~ rules[m].holds
  <2>1. m \in 1 .. count /\ m < n
    BY <1>4
  <2>2. m \notin H
    BY <1>2, <1>4, <2>1
  <2> QED
    BY <1>H, <2>1, <2>2
<1> QED
  BY <1>3, <1>4, <1>5

\* The text of a value is one of some texts, if its default is none of them,
\* exactly if the hive gives it that text.
LEMMA TextIsOf ==
  ASSUME SystemAssumption, IsHive(system), NEW k \in Ids, NEW name, NEW default, NEW T, default \notin T
  PROVE  TextOf(k, name, default) \in T <=> \E x \in DataOf(system, k, name) : x.text \in T
<1>v. PICK v : v = ValueNamed(system, k, name)
  OBVIOUS
<1>1. DataOf(system, k, name) = {x \in {v.data} : Readable(v)}
  BY <1>v, ValueIs
<1>2. TextOf(k, name, default) = IF Readable(v) THEN v.data.text ELSE default
  <2>1. k = NoKey => ~ Readable(NoValue)
    BY DEF Readable
  <2> QED
    BY <1>v, ExpansionAssumption DEF TextOf, ExpansionAssumption
<1>3. CASE Readable(v)
  BY <1>1, <1>2, <1>3
<1>4. CASE ~ Readable(v)
  BY <1>1, <1>2, <1>4
<1> QED
  BY <1>3, <1>4

\* A text that is missing counts as empty.
LEMMA TextIsEmpty ==
  ASSUME SystemAssumption, IsHive(system), NEW k \in Ids, NEW name
  PROVE  TextOf(k, name, EmptyText) = EmptyText <=> \A x \in DataOf(system, k, name) : x.text = EmptyText
<1>v. PICK v : v = ValueNamed(system, k, name)
  OBVIOUS
<1>1. DataOf(system, k, name) = {x \in {v.data} : Readable(v)}
  BY <1>v, ValueIs
<1>2. TextOf(k, name, EmptyText) = IF Readable(v) THEN v.data.text ELSE EmptyText
  BY <1>v, ExpansionAssumption DEF TextOf, ExpansionAssumption
<1>3. CASE Readable(v)
  BY <1>1, <1>2, <1>3
<1>4. CASE ~ Readable(v)
  BY <1>1, <1>2, <1>4
<1> QED
  BY <1>3, <1>4

\* A command that is there and not empty.
LEMMA TextIsThere ==
  ASSUME SystemAssumption, IsHive(system), NEW k \in Ids, NEW name
  PROVE  TextOf(k, name, NoText) \notin {NoText, EmptyText} <=>
           ~ \A x \in DataOf(system, k, name) : x.text = EmptyText
<1>v. PICK v : v = ValueNamed(system, k, name)
  OBVIOUS
<1>1. DataOf(system, k, name) = {x \in {v.data} : Readable(v)}
  BY <1>v, ValueIs
<1>2. TextOf(k, name, NoText) = IF Readable(v) THEN v.data.text ELSE NoText
  BY <1>v, ExpansionAssumption DEF TextOf, ExpansionAssumption
<1>3. Readable(v) => v.data.text # NoText
  <2>1. Readable(v) => v.data \in Data
    BY <1>v, ValueIs
  <2> QED
    BY <2>1 DEF Data, SystemAssumption
<1>4. CASE Readable(v)
  BY <1>1, <1>2, <1>3, <1>4
<1>5. CASE ~ Readable(v)
  BY <1>1, <1>2, <1>5
<1> QED
  BY <1>4, <1>5

\* The value Start says that the service starts by itself.
LEMMA StartsByItself ==
  ASSUME SystemAssumption, IsHive(system), NEW k \in Ids
  PROVE  NumberOf(k, "START", 3) = 2 <=> \E x \in DataOf(system, k, "START") : x.size >= 4 /\ x.num = 2
<1>v. PICK v : v = ValueNamed(system, k, "START")
  OBVIOUS
<1>1. DataOf(system, k, "START") = {x \in {v.data} : Readable(v)}
  BY <1>v, ValueIs
<1>2. NumberOf(k, "START", 3) = IF Readable(v) THEN AsU32(v) ELSE 3
  BY <1>v DEF NumberOf
<1>3. Readable(v) => v.data.size \in Nat
  <2>1. Readable(v) => v.data \in Data
    BY <1>v, ValueIs
  <2> QED
    BY <2>1 DEF Data
<1>4. CASE Readable(v)
  BY <1>1, <1>2, <1>3, <1>4 DEF AsU32
<1>5. CASE ~ Readable(v)
  BY <1>1, <1>2, <1>5
<1> QED
  BY <1>4, <1>5

\* ServiceDll lies in the subkey Parameters.
LEMMA DllIsOf ==
  ASSUME ExpansionAssumption, SystemAssumption, IsHive(system), NEW k \in Ids, NEW T, NoText \notin T
  PROVE  TextOf(Subkey(system, k, "PARAMETERS"), "SERVICEDLL", NoText) \in T <=>
           \E x \in UNION {DataOf(system, p, "SERVICEDLL") : p \in KidOf(system, k, "PARAMETERS")} :
             x.text \in T
<1>p. PICK p : p = Subkey(system, k, "PARAMETERS")
  OBVIOUS
<1>1. p \in Ids \union {NoKey} /\ KidOf(system, k, "PARAMETERS") = {j \in {p} : j # NoKey}
  BY <1>p, SubkeyIs
<1>2. CASE p = NoKey
  <2>1. ~ Readable(NoValue)
    BY DEF Readable
  <2>2. TextOf(p, "SERVICEDLL", NoText) = NoText
    BY <1>2, <2>1 DEF TextOf
  <2>3. KidOf(system, k, "PARAMETERS") = {}
    BY <1>1, <1>2
  <2> QED
    BY <1>p, <2>2, <2>3
<1>3. CASE p # NoKey
  <2>1. p \in Ids /\ KidOf(system, k, "PARAMETERS") = {p}
    BY <1>1, <1>3
  <2>2. TextOf(p, "SERVICEDLL", NoText) \in T <=> \E x \in DataOf(system, p, "SERVICEDLL") : x.text \in T
    BY <2>1, TextIsOf
  <2> QED
    BY <1>p, <2>1, <2>2
<1> QED
  BY <1>2, <1>3

\* The reason is the first of the rules that a service falls under.
IsFirstOf(reason, rules) ==
  IF rules = {} THEN reason = << >>
  ELSE /\ reason # << >> /\ RuleOf(reason) \in rules
       /\ \A r \in rules : RuleOf(reason) <= r

\* The numbers of the reasons.
LEMMA RuleNumbers ==
  /\ RuleOf(<<"image path", "user-writable">>) = 1
  /\ RuleOf(<<"image path", "interpreter">>) = 2
  /\ RuleOf(<<"ServiceDll", "user-writable">>) = 3
  /\ RuleOf(<<"ServiceDll", "interpreter">>) = 3
  /\ RuleOf(<<"auto-start", "no description">>) = 4
  /\ RuleOf(<<"no account">>) = 5
  /\ RuleOf(<<"FailureCommand">>) = 6
<1>1. RuleOf(<<"image path", "user-writable">>) = 1
  BY DEF RuleOf
<1>2. RuleOf(<<"image path", "interpreter">>) = 2
  BY DEF RuleOf
<1>3. RuleOf(<<"ServiceDll", "user-writable">>) = 3
  BY DEF RuleOf
<1>4. RuleOf(<<"ServiceDll", "interpreter">>) = 3
  BY DEF RuleOf
<1>5. RuleOf(<<"auto-start", "no description">>) = 4
  BY DEF RuleOf
<1>6. RuleOf(<<"no account">>) = 5
  BY DEF RuleOf
<1>7. RuleOf(<<"FailureCommand">>) = 6
  BY DEF RuleOf
<1> QED
  BY <1>1, <1>2, <1>3, <1>4, <1>5, <1>6, <1>7

\* The rules of classify_service, one by one.
HoldsAt(s, n) ==
  \/ n = 1 /\ s.imagePath \in UserWritable
  \/ n = 2 /\ s.imagePath \in Interpreters
  \/ n = 3 /\ s.serviceDll \in UserWritable
  \/ n = 4 /\ s.serviceDll \in Interpreters
  \/ n = 5 /\ s.startType = 2 /\ s.description = EmptyText /\ s.imagePath \notin SystemDirs
  \/ n = 6 /\ s.objectName = EmptyText
  \/ n = 7 /\ s.failureCommand \notin {NoText, EmptyText}
  \/ n = 8

ReasonAt ==
  <<<<"image path", "user-writable">>, <<"image path", "interpreter">>, <<"ServiceDll", "user-writable">>,
    <<"ServiceDll", "interpreter">>, <<"auto-start", "no description">>, <<"no account">>,
    <<"FailureCommand">>, << >>>>

LEMMA ClassifyIs ==
  ASSUME NEW s
  PROVE  \E n \in 1 .. 8 : /\ ClassifyService(s) = ReasonAt[n] /\ HoldsAt(s, n)
                           /\ \A m \in 1 .. n - 1 : ~ HoldsAt(s, m)
<1>r1. PICK r1 : r1 = [reason |-> <<"image path", "user-writable">>, holds |-> s.imagePath \in UserWritable]
  OBVIOUS
<1>r2. PICK r2 : r2 = [reason |-> <<"image path", "interpreter">>, holds |-> s.imagePath \in Interpreters]
  OBVIOUS
<1>r3. PICK r3 : r3 = [reason |-> <<"ServiceDll", "user-writable">>,
                     holds |-> s.serviceDll \in UserWritable]
  OBVIOUS
<1>r4. PICK r4 : r4 = [reason |-> <<"ServiceDll", "interpreter">>, holds |-> s.serviceDll \in Interpreters]
  OBVIOUS
<1>r5. PICK r5 : r5 = [reason |-> <<"auto-start", "no description">>,
                     holds |-> s.startType = 2 /\ s.description = EmptyText /\ s.imagePath \notin SystemDirs]
  OBVIOUS
<1>r6. PICK r6 : r6 = [reason |-> <<"no account">>, holds |-> s.objectName = EmptyText]
  OBVIOUS
<1>r7. PICK r7 : r7 = [reason |-> <<"FailureCommand">>,
                     holds |-> s.failureCommand \notin {NoText, EmptyText}]
  OBVIOUS
<1>r8. PICK r8 : r8 = [reason |-> << >>, holds |-> TRUE]
  OBVIOUS
<1>r. PICK rules : rules = <<r1, r2, r3, r4, r5, r6, r7, r8>>
  OBVIOUS
<1>1. ClassifyService(s) = FirstRule(rules).reason
  BY <1>r, <1>r1, <1>r2, <1>r3, <1>r4, <1>r5, <1>r6, <1>r7, <1>r8 DEF ClassifyService
<1>2. DOMAIN rules = 1 .. 8
  BY <1>r
<1>3. ASSUME NEW n \in 1 .. 8 PROVE (rules[n].holds <=> HoldsAt(s, n)) /\ rules[n].reason = ReasonAt[n]
  <2>1. CASE n = 1
    <3>1. rules[n] = r1
      BY <1>r, <2>1
    <3>2. r1.holds <=> s.imagePath \in UserWritable
      BY <1>r1
    <3>4. HoldsAt(s, 1) <=> s.imagePath \in UserWritable
      BY DEF HoldsAt
    <3>3. r1.reason = ReasonAt[1]
      BY <1>r1 DEF ReasonAt
    <3> QED
      BY <2>1, <3>1, <3>2, <3>3, <3>4
  <2>2. CASE n = 2
    <3>1. rules[n] = r2
      BY <1>r, <2>2
    <3>2. r2.holds <=> s.imagePath \in Interpreters
      BY <1>r2
    <3>4. HoldsAt(s, 2) <=> s.imagePath \in Interpreters
      BY DEF HoldsAt
    <3>3. r2.reason = ReasonAt[2]
      BY <1>r2 DEF ReasonAt
    <3> QED
      BY <2>2, <3>1, <3>2, <3>3, <3>4
  <2>3. CASE n = 3
    <3>1. rules[n] = r3
      BY <1>r, <2>3
    <3>2. r3.holds <=> s.serviceDll \in UserWritable
      BY <1>r3
    <3>4. HoldsAt(s, 3) <=> s.serviceDll \in UserWritable
      BY DEF HoldsAt
    <3>3. r3.reason = ReasonAt[3]
      BY <1>r3 DEF ReasonAt
    <3> QED
      BY <2>3, <3>1, <3>2, <3>3, <3>4
  <2>4. CASE n = 4
    <3>1. rules[n] = r4
      BY <1>r, <2>4
    <3>2. r4.holds <=> s.serviceDll \in Interpreters
      BY <1>r4
    <3>4. HoldsAt(s, 4) <=> s.serviceDll \in Interpreters
      BY DEF HoldsAt
    <3>3. r4.reason = ReasonAt[4]
      BY <1>r4 DEF ReasonAt
    <3> QED
      BY <2>4, <3>1, <3>2, <3>3, <3>4
  <2>5. CASE n = 5
    <3>1. rules[n] = r5
      BY <1>r, <2>5
    <3>2. r5.holds <=> s.startType = 2 /\ s.description = EmptyText /\ s.imagePath \notin SystemDirs
      BY <1>r5
    <3>4. HoldsAt(s, 5) <=> s.startType = 2 /\ s.description = EmptyText /\ s.imagePath \notin SystemDirs
      BY DEF HoldsAt
    <3>3. r5.reason = ReasonAt[5]
      BY <1>r5 DEF ReasonAt
    <3> QED
      BY <2>5, <3>1, <3>2, <3>3, <3>4
  <2>6. CASE n = 6
    <3>1. rules[n] = r6
      BY <1>r, <2>6
    <3>2. r6.holds <=> s.objectName = EmptyText
      BY <1>r6
    <3>4. HoldsAt(s, 6) <=> s.objectName = EmptyText
      BY DEF HoldsAt
    <3>3. r6.reason = ReasonAt[6]
      BY <1>r6 DEF ReasonAt
    <3> QED
      BY <2>6, <3>1, <3>2, <3>3, <3>4
  <2>7. CASE n = 7
    <3>1. rules[n] = r7
      BY <1>r, <2>7
    <3>2. r7.holds <=> s.failureCommand \notin {NoText, EmptyText}
      BY <1>r7
    <3>4. HoldsAt(s, 7) <=> s.failureCommand \notin {NoText, EmptyText}
      BY DEF HoldsAt
    <3>3. r7.reason = ReasonAt[7]
      BY <1>r7 DEF ReasonAt
    <3> QED
      BY <2>7, <3>1, <3>2, <3>3, <3>4
  <2>8. CASE n = 8
    <3>1. rules[n] = r8
      BY <1>r, <2>8
    <3>2. r8.holds <=> HoldsAt(s, 8)
      BY <1>r8 DEF HoldsAt
    <3>3. r8.reason = ReasonAt[8]
      BY <1>r8 DEF ReasonAt
    <3> QED
      BY <2>8, <3>1, <3>2, <3>3
  <2>9. n = 1 \/ n = 2 \/ n = 3 \/ n = 4 \/ n = 5 \/ n = 6 \/ n = 7 \/ n = 8
    OBVIOUS
  <2> QED
    BY <2>1, <2>2, <2>3, <2>4, <2>5, <2>6, <2>7, <2>8, <2>9
<1>4. rules[8].holds
  BY <1>3 DEF HoldsAt
<1>5. PICK n \in 1 .. 8 : /\ FirstRule(rules) = rules[n] /\ rules[n].holds
                          /\ \A m \in 1 .. n - 1 : ~ rules[m].holds
  <2>c. PICK count : count = 8
    OBVIOUS
  <2>1. count \in Nat \ {0} /\ DOMAIN rules = 1 .. count /\ rules[count].holds
    BY <1>2, <1>4, <2>c
  <2>2. \E n \in 1 .. count : /\ FirstRule(rules) = rules[n] /\ rules[n].holds
                              /\ \A m \in 1 .. n - 1 : ~ rules[m].holds
    BY <2>1, FirstRuleIs
  <2> QED
    BY <2>c, <2>2
<1>6. \A m \in 1 .. n - 1 : ~ HoldsAt(s, m)
  BY <1>3, <1>5
<1> QED
  BY <1>1, <1>3, <1>5, <1>6

\* The rules that a service falls under are the ones that hold of its entry.
RulesHold(s, rules) ==
  /\ rules \subseteq 1 .. 6
  /\ 1 \in rules <=> HoldsAt(s, 1)
  /\ 2 \in rules <=> HoldsAt(s, 2)
  /\ 3 \in rules <=> HoldsAt(s, 3) \/ HoldsAt(s, 4)
  /\ 4 \in rules <=> HoldsAt(s, 5)
  /\ 5 \in rules <=> HoldsAt(s, 6)
  /\ 6 \in rules <=> HoldsAt(s, 7)

LEMMA RulesAre ==
  ASSUME ExpansionAssumption, SystemAssumption, IsHive(system), NEW k \in Ids
  PROVE  RulesHold(ServiceOf(k), RulesOf(system, k))
<1>s. PICK s : s = ServiceOf(k)
  OBVIOUS
<1>image. PICK image : image = DataOf(system, k, "IMAGEPATH")
  OBVIOUS
<1>dll. PICK dll : dll = UNION {DataOf(system, p, "SERVICEDLL") : p \in KidOf(system, k, "PARAMETERS")}
  OBVIOUS
<1>rules. PICK rules : rules = RulesOf(system, k)
  OBVIOUS
<1>1. /\ s.imagePath = TextOf(k, "IMAGEPATH", EmptyText)
      /\ s.description = TextOf(k, "DESCRIPTION", EmptyText)
      /\ s.objectName = TextOf(k, "OBJECTNAME", EmptyText)
      /\ s.startType = NumberOf(k, "START", 3)
      /\ s.serviceDll = TextOf(Subkey(system, k, "PARAMETERS"), "SERVICEDLL", NoText)
      /\ s.failureCommand = TextOf(k, "FAILURECOMMAND", NoText)
  BY <1>s DEF ServiceOf
<1>2. /\ EmptyText \notin UserWritable /\ EmptyText \notin Interpreters /\ EmptyText \notin SystemDirs
      /\ NoText \notin UserWritable /\ NoText \notin Interpreters
  BY DEF SystemAssumption
<1>3. /\ s.imagePath \in UserWritable <=> \E x \in image : x.text \in UserWritable
      /\ s.imagePath \in Interpreters <=> \E x \in image : x.text \in Interpreters
      /\ s.imagePath \in SystemDirs <=> \E x \in image : x.text \in SystemDirs
  BY <1>1, <1>2, <1>image, TextIsOf
<1>4. /\ s.serviceDll \in UserWritable <=> \E x \in dll : x.text \in UserWritable
      /\ s.serviceDll \in Interpreters <=> \E x \in dll : x.text \in Interpreters
  BY <1>1, <1>2, <1>dll, DllIsOf
<1>5. s.startType = 2 <=> \E x \in DataOf(system, k, "START") : x.size >= 4 /\ x.num = 2
  BY <1>1, StartsByItself
<1>6. /\ s.description = EmptyText <=> \A x \in DataOf(system, k, "DESCRIPTION") : x.text = EmptyText
      /\ s.objectName = EmptyText <=> \A x \in DataOf(system, k, "OBJECTNAME") : x.text = EmptyText
  BY <1>1, TextIsEmpty
<1>7. s.failureCommand \notin {NoText, EmptyText} <=>
        ~ \A x \in DataOf(system, k, "FAILURECOMMAND") : x.text = EmptyText
  BY <1>1, TextIsThere
<1>8. /\ rules \subseteq 1 .. 6
      /\ 1 \in rules <=> \E x \in image : x.text \in UserWritable
      /\ 2 \in rules <=> \E x \in image : x.text \in Interpreters
      /\ 3 \in rules <=> \E x \in dll : x.text \in UserWritable \union Interpreters
      /\ 4 \in rules <=> /\ \E x \in DataOf(system, k, "START") : x.size >= 4 /\ x.num = 2
                         /\ \A x \in DataOf(system, k, "DESCRIPTION") : x.text = EmptyText
                         /\ ~ \E x \in image : x.text \in SystemDirs
      /\ 5 \in rules <=> \A x \in DataOf(system, k, "OBJECTNAME") : x.text = EmptyText
      /\ 6 \in rules <=> ~ \A x \in DataOf(system, k, "FAILURECOMMAND") : x.text = EmptyText
  <2> DEFINE P1 == \E x \in image : x.text \in UserWritable
             P2 == \E x \in image : x.text \in Interpreters
             P3 == \E x \in dll : x.text \in UserWritable \union Interpreters
             P4 == /\ \E x \in DataOf(system, k, "START") : x.size >= 4 /\ x.num = 2
                   /\ \A x \in DataOf(system, k, "DESCRIPTION") : x.text = EmptyText
                   /\ ~ \E x \in image : x.text \in SystemDirs
             P5 == \A x \in DataOf(system, k, "OBJECTNAME") : x.text = EmptyText
             P6 == ~ \A x \in DataOf(system, k, "FAILURECOMMAND") : x.text = EmptyText
  <2>1. rules = {r \in 1 .. 6 : CASE r = 1 -> P1 [] r = 2 -> P2 [] r = 3 -> P3
                                  [] r = 4 -> P4 [] r = 5 -> P5 [] r = 6 -> P6}
    BY <1>rules, <1>image, <1>dll DEF RulesOf
  <2> HIDE DEF P1, P2, P3, P4, P5, P6
  <2>2. rules \subseteq 1 .. 6
    BY <2>1
  <2>3. 1 \in rules <=> P1
    BY <2>1
  <2>4. 2 \in rules <=> P2
    BY <2>1
  <2>5. 3 \in rules <=> P3
    BY <2>1
  <2>6. 4 \in rules <=> P4
    BY <2>1
  <2>7. 5 \in rules <=> P5
    BY <2>1
  <2>8. 6 \in rules <=> P6
    BY <2>1
  <2> QED
    BY <2>2, <2>3, <2>4, <2>5, <2>6, <2>7, <2>8 DEF P1, P2, P3, P4, P5, P6
<1>9. /\ 1 \in rules <=> HoldsAt(s, 1)
      /\ 2 \in rules <=> HoldsAt(s, 2)
  BY <1>3, <1>8 DEF HoldsAt
<1>10. 3 \in rules <=> HoldsAt(s, 3) \/ HoldsAt(s, 4)
  <2>1. HoldsAt(s, 3) <=> s.serviceDll \in UserWritable
    BY DEF HoldsAt
  <2>2. HoldsAt(s, 4) <=> s.serviceDll \in Interpreters
    BY DEF HoldsAt
  <2>3. (\E x \in dll : x.text \in UserWritable \union Interpreters) <=>
          (\E x \in dll : x.text \in UserWritable) \/ (\E x \in dll : x.text \in Interpreters)
    OBVIOUS
  <2> QED
    BY <1>4, <1>8, <2>1, <2>2, <2>3
<1>11. 4 \in rules <=> HoldsAt(s, 5)
  <2>1. HoldsAt(s, 5) <=> s.startType = 2 /\ s.description = EmptyText /\ s.imagePath \notin SystemDirs
    BY DEF HoldsAt
  <2> QED
    BY <1>3, <1>5, <1>6, <1>8, <2>1
<1>12. 5 \in rules <=> HoldsAt(s, 6)
  <2>1. HoldsAt(s, 6) <=> s.objectName = EmptyText
    BY DEF HoldsAt
  <2> QED
    BY <1>6, <1>8, <2>1
<1>13. 6 \in rules <=> HoldsAt(s, 7)
  <2>1. HoldsAt(s, 7) <=> s.failureCommand \notin {NoText, EmptyText}
    BY DEF HoldsAt
  <2> QED
    BY <1>7, <1>8, <2>1
<1> QED
  BY <1>s, <1>rules, <1>8, <1>9, <1>10, <1>11, <1>12, <1>13 DEF RulesHold

\* The order of classify_service is that of the rules.
LEMMA ReasonIsFirst ==
  ASSUME NEW s, NEW rules, RulesHold(s, rules)
  PROVE  IsFirstOf(ClassifyService(s), rules)
<1>1. PICK n \in 1 .. 8 : /\ ClassifyService(s) = ReasonAt[n] /\ HoldsAt(s, n)
                          /\ \A m \in 1 .. n - 1 : ~ HoldsAt(s, m)
  BY ClassifyIs
<1>2. PICK reason : reason = ClassifyService(s)
  OBVIOUS
<1>3. /\ rules \subseteq 1 .. 6
      /\ 1 \in rules <=> HoldsAt(s, 1)
      /\ 2 \in rules <=> HoldsAt(s, 2)
      /\ 3 \in rules <=> HoldsAt(s, 3) \/ HoldsAt(s, 4)
      /\ 4 \in rules <=> HoldsAt(s, 5)
      /\ 5 \in rules <=> HoldsAt(s, 6)
      /\ 6 \in rules <=> HoldsAt(s, 7)
  BY DEF RulesHold
<1>4. PICK number : number = RuleOf(reason)
  OBVIOUS
<1>5. ASSUME reason # << >>, number \in rules, \A r \in rules : number <= r
      PROVE  IsFirstOf(reason, rules)
  BY <1>4, <1>5 DEF IsFirstOf
<1>c1. CASE n = 1
  <2>1. reason = <<"image path", "user-writable">>
    BY <1>1, <1>2, <1>c1 DEF ReasonAt
  <2>2. number = 1 /\ reason # << >>
    BY <1>4, <2>1, RuleNumbers
  <2>3. HoldsAt(s, 1) /\ \A m \in 1 .. 0 : ~ HoldsAt(s, m)
    BY <1>1, <1>c1
  <2>4. 1 \in rules /\ \A q \in rules : 1 <= q
    BY <1>3, <2>3
  <2> QED
    BY <1>2, <1>5, <2>2, <2>4
<1>c2. CASE n = 2
  <2>1. reason = <<"image path", "interpreter">>
    BY <1>1, <1>2, <1>c2 DEF ReasonAt
  <2>2. number = 2 /\ reason # << >>
    BY <1>4, <2>1, RuleNumbers
  <2>3. HoldsAt(s, 2) /\ \A m \in 1 .. 1 : ~ HoldsAt(s, m)
    BY <1>1, <1>c2
  <2>4. 2 \in rules /\ \A q \in rules : 2 <= q
    BY <1>3, <2>3
  <2> QED
    BY <1>2, <1>5, <2>2, <2>4
<1>c3. CASE n = 3
  <2>1. reason = <<"ServiceDll", "user-writable">>
    BY <1>1, <1>2, <1>c3 DEF ReasonAt
  <2>2. number = 3 /\ reason # << >>
    BY <1>4, <2>1, RuleNumbers
  <2>3. HoldsAt(s, 3) /\ \A m \in 1 .. 2 : ~ HoldsAt(s, m)
    BY <1>1, <1>c3
  <2>4. 3 \in rules /\ \A q \in rules : 3 <= q
    BY <1>3, <2>3
  <2> QED
    BY <1>2, <1>5, <2>2, <2>4
<1>c4. CASE n = 4
  <2>1. reason = <<"ServiceDll", "interpreter">>
    BY <1>1, <1>2, <1>c4 DEF ReasonAt
  <2>2. number = 3 /\ reason # << >>
    BY <1>4, <2>1, RuleNumbers
  <2>3. HoldsAt(s, 4) /\ \A m \in 1 .. 3 : ~ HoldsAt(s, m)
    BY <1>1, <1>c4
  <2>4. 3 \in rules /\ \A q \in rules : 3 <= q
    BY <1>3, <2>3
  <2> QED
    BY <1>2, <1>5, <2>2, <2>4
<1>c5. CASE n = 5
  <2>1. reason = <<"auto-start", "no description">>
    BY <1>1, <1>2, <1>c5 DEF ReasonAt
  <2>2. number = 4 /\ reason # << >>
    BY <1>4, <2>1, RuleNumbers
  <2>3. HoldsAt(s, 5) /\ \A m \in 1 .. 4 : ~ HoldsAt(s, m)
    BY <1>1, <1>c5
  <2>4. 4 \in rules /\ \A q \in rules : 4 <= q
    BY <1>3, <2>3
  <2> QED
    BY <1>2, <1>5, <2>2, <2>4
<1>c6. CASE n = 6
  <2>1. reason = <<"no account">>
    BY <1>1, <1>2, <1>c6 DEF ReasonAt
  <2>2. number = 5 /\ reason # << >>
    BY <1>4, <2>1, RuleNumbers
  <2>3. HoldsAt(s, 6) /\ \A m \in 1 .. 5 : ~ HoldsAt(s, m)
    BY <1>1, <1>c6
  <2>4. 5 \in rules /\ \A q \in rules : 5 <= q
    BY <1>3, <2>3
  <2> QED
    BY <1>2, <1>5, <2>2, <2>4
<1>c7. CASE n = 7
  <2>1. reason = <<"FailureCommand">>
    BY <1>1, <1>2, <1>c7 DEF ReasonAt
  <2>2. number = 6 /\ reason # << >>
    BY <1>4, <2>1, RuleNumbers
  <2>3. HoldsAt(s, 7) /\ \A m \in 1 .. 6 : ~ HoldsAt(s, m)
    BY <1>1, <1>c7
  <2>4. 6 \in rules /\ \A q \in rules : 6 <= q
    BY <1>3, <2>3
  <2> QED
    BY <1>2, <1>5, <2>2, <2>4
<1>c8. CASE n = 8
  <2>1. reason = << >>
    BY <1>1, <1>2, <1>c8 DEF ReasonAt
  <2>2. \A m \in 1 .. 7 : ~ HoldsAt(s, m)
    BY <1>1, <1>c8
  <2>3. rules = {}
    BY <1>3, <2>2
  <2> QED
    BY <1>2, <2>1, <2>3 DEF IsFirstOf
<1>6. n = 1 \/ n = 2 \/ n = 3 \/ n = 4 \/ n = 5 \/ n = 6 \/ n = 7 \/ n = 8
  OBVIOUS
<1> QED
  BY <1>6, <1>c1, <1>c2, <1>c3, <1>c4, <1>c5, <1>c6, <1>c7, <1>c8

\* What one turn of the loop appends for a key.
EntryFor(k) == [service |-> ServiceOf(k), reason |-> ClassifyService(ServiceOf(k))]

\* The entries are those of the keys that the loop has behind it; it has the
\* others before it.
Listed(keys) ==
  /\ Len(services) + Len(left) = Len(keys)
  /\ \A n \in 1 .. Len(left) : left[n] = keys[Len(services) + n]
  /\ \A n \in 1 .. Len(services) : services[n] = EntryFor(keys[n])

EntriesInv ==
  /\ \E S : services \in Seq(S)
  /\ left \in Seq(Ids)
  /\ task = "services" => services = << >>
  /\ task = "classify" => Listed(ServiceKeys)
  /\ task = "cache" => left = << >> /\ Listed(ServiceKeys)

LEMMA ServiceKeysAre ==
  ASSUME ExpansionAssumption, IsHive(system), servicesKey = ServicesKey
  PROVE  ServiceKeys \in Seq(Ids)
<1>1. servicesKey \in Ids \union {NoKey}
  BY ServicesKeyIs
<1>2. << >> \in Seq(Ids)
  OBVIOUS
<1> QED
  BY <1>1, <1>2 DEF ServiceKeys, IsHive

LEMMA EntriesStart == SysInit => EntriesInv
<1> SUFFICES ASSUME SysInit PROVE EntriesInv
  OBVIOUS
<1>1. task = "services" /\ services = << >> /\ left = << >>
  BY DEF SysInit
<1>2. << >> \in Seq(Ids)
  OBVIOUS
<1> QED
  BY <1>1, <1>2 DEF EntriesInv

\* One turn of the loop.
LEMMA OneEntryMore ==
  ASSUME NEW S, services \in Seq(S), left \in Seq(Ids), left # << >>,
         NEW keys \in Seq(Ids), Listed(keys),
         services' = Append(services, EntryFor(Head(left))), left' = Tail(left),
         \A k : EntryFor(k)' = EntryFor(k)
  PROVE  /\ \E T : services' \in Seq(T)
         /\ left' \in Seq(Ids)
         /\ Listed(keys)'
<1>e. PICK e : e = EntryFor(Head(left))
  OBVIOUS
<1>T. PICK T : T = S \union {e}
  OBVIOUS
<1>p. PICK p \in Nat : p = Len(services)
  OBVIOUS
<1>q. PICK q \in Nat : q = Len(left)
  OBVIOUS
<1>1. services \in Seq(T) /\ e \in T
  BY <1>T, SeqMonotonic
<1>a. PICK a : a = Append(services, e)
  OBVIOUS
<1>2. a \in Seq(T) /\ Len(a) = p + 1
  BY <1>1, <1>a, <1>p, AppendedLast
<1>3. (\A i \in 1 .. p : a[i] = services[i]) /\ a[p + 1] = e
  <2>1. \A i \in 1 .. Len(services) : a[i] = services[i]
    BY <1>1, <1>a, AppendedLast
  <2>2. a[Len(services) + 1] = e
    BY <1>1, <1>a, AppendedLast
  <2> QED
    BY <1>p, <2>1, <2>2
<1>4. services' = a
  BY <1>a, <1>e
<1>5. /\ Tail(left) \in Seq(Ids) /\ Len(Tail(left)) = q - 1 /\ q >= 1
      /\ \A n \in 1 .. q - 1 : Tail(left)[n] = left[n + 1]
      /\ Head(left) = left[1]
  BY <1>q
<1>6. /\ p + q = Len(keys)
      /\ \A n \in 1 .. q : left[n] = keys[p + n]
      /\ \A n \in 1 .. p : services[n] = EntryFor(keys[n])
  BY <1>p, <1>q DEF Listed
<1>7. ASSUME NEW n \in 1 .. q - 1 PROVE Tail(left)[n] = keys[(p + 1) + n]
  <2>1. n + 1 \in 1 .. q /\ p + (n + 1) = (p + 1) + n
    OBVIOUS
  <2>2. left[n + 1] = keys[p + (n + 1)]
    BY <1>6, <2>1
  <2> QED
    BY <1>5, <2>1, <2>2
<1>8. ASSUME NEW n \in 1 .. p + 1 PROVE a[n] = EntryFor(keys[n])
  <2>1. CASE n \in 1 .. p
    BY <1>3, <1>6, <2>1
  <2>2. CASE n = p + 1
    <3>1. 1 \in 1 .. q
      BY <1>5
    <3>2. Head(left) = keys[p + 1]
      BY <1>5, <1>6, <3>1
    <3> QED
      BY <1>3, <1>e, <2>2, <3>2
  <2> QED
    BY <2>1, <2>2
<1>9. Listed(keys)'
  <2>1. Len(services') = p + 1 /\ Len(left') = q - 1
    BY <1>2, <1>4, <1>5
  <2>2. \A n \in 1 .. Len(left') : left'[n] = keys[Len(services') + n]
    BY <1>7, <2>1
  <2>3. \A n \in 1 .. Len(services') : services'[n] = EntryFor(keys[n])'
    BY <1>4, <1>8, <2>1
  <2>4. Len(services') + Len(left') = Len(keys)
    BY <1>p, <1>q, <1>6, <2>1
  <2> QED
    BY <2>2, <2>3, <2>4 DEF Listed
<1> QED
  BY <1>2, <1>4, <1>5, <1>9

LEMMA EntriesStep == KeysInv /\ EntriesInv /\ [SysNext]_sysVars => EntriesInv'
<1> SUFFICES ASSUME KeysInv, EntriesInv, [SysNext]_sysVars PROVE EntriesInv'
  OBVIOUS
<1>1. system' = system
  BY DEF SysNext, sysVars, OpenServices, ClassifyNext, EndServices, OpenCache, ReadEntry, EndCache
<1>2. \A k : EntryFor(k)' = EntryFor(k)
  <2>1. \A k : ServiceOf(k)' = ServiceOf(k)
    BY <1>1, SameHive
  <2> QED
    BY <2>1 DEF EntryFor
<1>3. PICK S : services \in Seq(S)
  BY DEF EntriesInv
<1>4. left \in Seq(Ids) /\ IsHive(system) /\ Len(services) \in Nat
  BY <1>3 DEF EntriesInv, KeysInv
<1>5. PICK keys : keys = ServiceKeys
  OBVIOUS
<1>6. ASSUME servicesKey' = servicesKey PROVE ServiceKeys' = keys
  BY <1>1, <1>5, <1>6 DEF ServiceKeys
<1>7. task # "services" => keys \in Seq(Ids)
  BY <1>4, <1>5, ServiceKeysAre, ExpansionAssumption DEF KeysInv
<1>8. ASSUME services' = services, left' = left, servicesKey' = servicesKey, Listed(keys)
      PROVE  Listed(ServiceKeys)'
  <2>1. Listed(keys)'
    BY <1>2, <1>8 DEF Listed
  <2> QED
    BY <1>6, <1>8, <2>1 DEF Listed
<1>9. CASE OpenServices
  <2>1. /\ task = "services" /\ task' = "classify" /\ services' = services
        /\ servicesKey' = ServicesKey
        /\ left' = IF servicesKey' = NoKey \/ servicesKey' \in system.kidsBad THEN << >>
                   ELSE system.kids[servicesKey']
    BY <1>9 DEF OpenServices
  <2>2. services = << >>
    BY <2>1 DEF EntriesInv
  <2>3. left' = ServiceKeys'
    BY <1>1, <2>1 DEF ServiceKeys
  <2>4. ServicesKey \in Ids \union {NoKey}
    BY <1>4, ServicesKeyIs, ExpansionAssumption
  <2>5. left' \in Seq(Ids)
    BY <1>4, <2>1, <2>4 DEF IsHive
  <2>6. Len(services') = 0 /\ Len(left') \in Nat
    BY <2>1, <2>2, <2>5
  <2>7. Listed(ServiceKeys)'
    BY <2>3, <2>6 DEF Listed
  <2> QED
    BY <1>3, <2>1, <2>5, <2>7 DEF EntriesInv
<1>10. CASE ClassifyNext
  <2>1. /\ task = "classify" /\ task' = task /\ left # << >> /\ left' = Tail(left)
        /\ servicesKey' = servicesKey
        /\ services' = Append(services, EntryFor(Head(left)))
    BY <1>10 DEF ClassifyNext, EntryFor
  <2>2. Listed(keys) /\ keys \in Seq(Ids)
    BY <1>5, <1>7, <2>1 DEF EntriesInv
  <2>3. (\E T : services' \in Seq(T)) /\ left' \in Seq(Ids) /\ Listed(keys)'
    BY <1>2, <1>3, <1>4, <2>1, <2>2, OneEntryMore
  <2>4. Listed(ServiceKeys)'
    BY <1>6, <2>1, <2>3 DEF Listed
  <2> QED
    BY <2>1, <2>3, <2>4 DEF EntriesInv
<1>11. CASE EndServices
  <2>1. /\ task = "classify" /\ task' = "cache" /\ left = << >>
        /\ services' = services /\ left' = left /\ servicesKey' = servicesKey
    BY <1>11 DEF EndServices
  <2>2. Listed(ServiceKeys)'
    BY <1>5, <1>8, <2>1 DEF EntriesInv
  <2> QED
    BY <1>3, <1>4, <2>1, <2>2 DEF EntriesInv
<1>12. CASE OpenCache \/ ReadEntry \/ EndCache
  <2>1. services' = services /\ left' = left /\ task' \notin {"services", "classify", "cache"}
    BY <1>12 DEF OpenCache, ReadEntry, HasEntry, EndCache
  <2> QED
    BY <1>3, <1>4, <2>1 DEF EntriesInv
<1>13. CASE UNCHANGED sysVars
  <2>1. services' = services /\ left' = left /\ task' = task /\ servicesKey' = servicesKey
    BY <1>13 DEF sysVars
  <2>2. task \in {"classify", "cache"} => Listed(ServiceKeys)'
    BY <1>5, <1>8, <2>1 DEF EntriesInv
  <2> QED
    BY <1>3, <1>4, <2>1, <2>2 DEF EntriesInv
<1> QED
  BY <1>9, <1>10, <1>11, <1>12, <1>13 DEF SysNext

\* Every service key gives one entry, in the order of the keys, whose reason is the
\* first of the rules it falls under, which the values of the service alone decide.
THEOREM ServicesCorrect == SysSpec => []ServicesExact
<1>1. KeysInv /\ EntriesInv => ServicesExact
  <2> SUFFICES ASSUME KeysInv, EntriesInv, task = "cache" PROVE ServicesExact
    BY DEF ServicesExact
  <2>k. PICK keys : keys = ServiceKeys
    OBVIOUS
  <2>1. IsHive(system) /\ keys \in Seq(Ids)
    BY <2>k, ServiceKeysAre, ExpansionAssumption DEF KeysInv
  <2>2. PICK S : services \in Seq(S)
    BY DEF EntriesInv
  <2>3. left = << >> /\ Listed(keys)
    BY <2>k DEF EntriesInv
  <2>4. Len(services) = Len(keys)
    BY <2>2, <2>3 DEF Listed
  <2>5. ASSUME NEW n \in DOMAIN keys
        PROVE  /\ services[n].service.name = system.name[keys[n]]
               /\ IsFirstOf(services[n].reason, RulesOf(system, keys[n]))
    <3>1. n \in 1 .. Len(services) /\ keys[n] \in Ids
      BY <2>1, <2>4, <2>5
    <3>k. PICK k : k = keys[n]
      OBVIOUS
    <3>s. PICK s : s = ServiceOf(k)
      OBVIOUS
    <3>2. services[n] = EntryFor(k)
      BY <2>3, <3>1, <3>k DEF Listed
    <3>3. services[n].service = s /\ services[n].reason = ClassifyService(s)
      BY <3>2, <3>s DEF EntryFor
    <3>4. s.name = system.name[k]
      BY <3>s DEF ServiceOf
    <3>5. RulesHold(s, RulesOf(system, k))
      BY <2>1, <3>1, <3>k, <3>s, RulesAre, ExpansionAssumption, SystemAssumption
    <3>6. IsFirstOf(ClassifyService(s), RulesOf(system, k))
      BY <3>5, ReasonIsFirst
    <3> QED
      BY <3>k, <3>3, <3>4, <3>6
  <2> QED
    BY <2>k, <2>4, <2>5 DEF ServicesExact, IsFirstOf
<1>2. KeysInv /\ EntriesInv /\ [SysNext]_sysVars => (KeysInv /\ EntriesInv)'
  BY KeysStep, EntriesStep
<1>3. SysInit => KeysInv /\ EntriesInv
  BY SystemStands, EntriesStart
<1> QED
  BY <1>1, <1>2, <1>3, PTL DEF SysSpec

-----------------------------------------------------------------------------
(* The cache of programs: how its fields are laid out, what is decoded of  *)
(* them, and that reading goes on from entry to entry.                     *)

\* A sequence of numbers that consists of two.
Joins(r, s, t) ==
  /\ r \in Seq(Nat) /\ Len(r) = Len(s) + Len(t)
  /\ \A n \in 1 .. Len(s) : r[n] = s[n]
  /\ \A n \in 1 .. Len(t) : r[Len(s) + n] = t[n]

\* Concatenating joins.
LEMMA PlacesJoined ==
  ASSUME NEW s \in Seq(Nat), NEW t \in Seq(Nat), NEW r, r = s \o t
  PROVE  Joins(r, s, t)
BY DEF Joins

\* Where the time of a body stands, after the path or after package and flags.
TimePlace(e, win8) ==
  IF win8 THEN 3 + Len(e.path) + Len(e.package) + FlagsLen ELSE 2 + Len(e.path)

\* The fields of a body at their places.
IsBodyOf(b, e, win8) ==
  /\ b \in Seq(Nat)
  /\ b[1] = Len(e.path)
  /\ \A n \in 1 .. Len(e.path) : b[n + 1] = e.path[n]
  /\ win8 => b[Len(e.path) + 2] = Len(e.package)
  /\ b[TimePlace(e, win8)] = e.time
  /\ Len(b) > TimePlace(e, win8)

\* A body is laid out as it should be.
LEMMA BodyLaidOut ==
  ASSUME CacheAssumption, NEW e \in Entry, NEW win8 \in BOOLEAN
  PROVE  IsBodyOf(BodyOf(e, win8), e, win8)
<1>1. /\ e.path \in Seq(Nat) /\ e.package \in Seq(Nat) /\ e.data \in Seq(Nat)
      /\ e.flags \in [1 .. FlagsLen -> Nat] /\ e.time \in Nat
  BY DEF Entry
<1>2. FlagsLen \in Nat
  BY DEF CacheAssumption
<1>3. e.flags \in Seq(Nat) /\ Len(e.flags) = FlagsLen
  BY <1>1, <1>2, FunctionIsSeq
<1>l. PICK p \in Nat, q \in Nat, l \in Nat, x \in Nat :
        p = Len(e.path) /\ q = Len(e.package) /\ l = Len(e.data) /\ x = FlagsLen
  BY <1>1, <1>2
<1>a. PICK a : a = <<p>>
  OBVIOUS
<1>b. PICK b : b = <<q>>
  OBVIOUS
<1>g. PICK g : g = <<e.time, l>>
  OBVIOUS
<1>4. /\ a \in Seq(Nat) /\ Len(a) = 1 /\ a[1] = p
      /\ b \in Seq(Nat) /\ Len(b) = 1 /\ b[1] = q
      /\ g \in Seq(Nat) /\ Len(g) = 2 /\ g[1] = e.time
  BY <1>1, <1>a, <1>b, <1>g
<1>c. PICK bp : bp = b \o e.package
  OBVIOUS
<1>5. bp \in Seq(Nat) /\ Len(bp) = 1 + q /\ bp[1] = q
  <2>1. Joins(bp, b, e.package)
    BY <1>1, <1>4, <1>c, PlacesJoined
  <2>2. 1 \in 1 .. Len(b)
    BY <1>4
  <2> QED
    BY <1>4, <1>l, <2>1, <2>2 DEF Joins
<1>m. PICK m : m = IF win8 THEN bp \o e.flags ELSE << >>
  OBVIOUS
<1>6. m \in Seq(Nat) /\ Len(m) = (IF win8 THEN 1 + q + x ELSE 0) /\ (win8 => m[1] = q)
  <2>1. CASE win8
    <3>1. Joins(m, bp, e.flags)
      BY <1>3, <1>5, <1>m, <2>1, PlacesJoined
    <3>2. 1 \in 1 .. Len(bp)
      BY <1>5
    <3> QED
      BY <1>3, <1>5, <1>l, <2>1, <3>1, <3>2 DEF Joins
  <2>2. CASE ~win8
    <3>1. m = << >>
      BY <1>m, <2>2
    <3> QED
      BY <2>2, <3>1
  <2> QED
    BY <2>1, <2>2
<1>n. PICK n \in Nat : n = Len(m)
  BY <1>6
<1>h. PICK h : h = a \o e.path
  OBVIOUS
<1>7. /\ h \in Seq(Nat) /\ Len(h) = 1 + p /\ h[1] = p
      /\ \A i \in 1 .. p : h[1 + i] = e.path[i]
  <2>1. Joins(h, a, e.path)
    BY <1>1, <1>4, <1>h, PlacesJoined
  <2>2. 1 \in 1 .. Len(a)
    BY <1>4
  <2> QED
    BY <1>4, <1>l, <2>1, <2>2 DEF Joins
<1>i. PICK i : i = h \o m
  OBVIOUS
<1>8. /\ i \in Seq(Nat) /\ Len(i) = 1 + p + n
      /\ \A k \in 1 .. 1 + p : i[k] = h[k]
      /\ win8 => i[p + 2] = q
  <2>1. Joins(i, h, m)
    BY <1>6, <1>7, <1>i, PlacesJoined
  <2>2. /\ i \in Seq(Nat) /\ Len(i) = 1 + p + n
        /\ \A k \in 1 .. 1 + p : i[k] = h[k]
        /\ \A k \in 1 .. n : i[(1 + p) + k] = m[k]
    BY <1>7, <1>n, <2>1 DEF Joins
  <2>3. win8 => 1 \in 1 .. n /\ (1 + p) + 1 = p + 2
    BY <1>6, <1>n
  <2> QED
    BY <1>6, <2>2, <2>3
<1>j. PICK j : j = i \o g
  OBVIOUS
<1>9. /\ j \in Seq(Nat) /\ Len(j) = 3 + p + n
      /\ \A k \in 1 .. 1 + p + n : j[k] = i[k]
      /\ j[2 + p + n] = e.time
  <2>1. Joins(j, i, g)
    BY <1>4, <1>8, <1>j, PlacesJoined
  <2>2. /\ j \in Seq(Nat) /\ Len(j) = 1 + p + n + 2
        /\ \A k \in 1 .. 1 + p + n : j[k] = i[k]
        /\ \A k \in 1 .. 2 : j[(1 + p + n) + k] = g[k]
    BY <1>4, <1>8, <2>1 DEF Joins
  <2>3. (1 + p + n) + 1 = 2 + p + n /\ 1 + p + n + 2 = 3 + p + n /\ 1 \in 1 .. 2
    OBVIOUS
  <2> QED
    BY <1>4, <2>2, <2>3
<1>k. PICK k : k = j \o e.data
  OBVIOUS
<1>10. /\ k \in Seq(Nat) /\ Len(k) = 3 + p + n + l
       /\ \A r \in 1 .. 3 + p + n : k[r] = j[r]
  <2>1. Joins(k, j, e.data)
    BY <1>1, <1>9, <1>k, PlacesJoined
  <2> QED
    BY <1>9, <1>l, <2>1 DEF Joins
<1>11. BodyOf(e, win8) = k
  BY <1>a, <1>b, <1>c, <1>g, <1>h, <1>i, <1>j, <1>k, <1>l, <1>m DEF BodyOf
<1>12. TimePlace(e, win8) = 2 + p + n
  <2>1. CASE win8
    <3>1. n = 1 + q + x /\ TimePlace(e, win8) = 3 + p + q + x
      BY <1>6, <1>l, <1>n, <2>1 DEF TimePlace
    <3> QED
      BY <3>1
  <2>2. CASE ~win8
    <3>1. n = 0 /\ TimePlace(e, win8) = 2 + p
      BY <1>6, <1>l, <1>n, <2>2 DEF TimePlace
    <3> QED
      BY <3>1
  <2> QED
    BY <2>1, <2>2
<1>13. /\ k[1] = p
       /\ \A r \in 1 .. p : k[r + 1] = e.path[r]
       /\ win8 => k[p + 2] = q
       /\ k[2 + p + n] = e.time
  <2>1. ASSUME NEW r \in 1 .. 1 + p PROVE k[r] = h[r]
    <3>1. r \in 1 .. 1 + p + n /\ r \in 1 .. 3 + p + n
      OBVIOUS
    <3> QED
      BY <1>8, <1>9, <1>10, <3>1
  <2>2. ASSUME NEW r \in 1 .. p PROVE k[r + 1] = e.path[r]
    <3>1. r + 1 \in 1 .. 1 + p /\ r + 1 = 1 + r
      OBVIOUS
    <3> QED
      BY <1>7, <2>1, <3>1
  <2>3. 1 \in 1 .. 1 + p /\ 2 + p + n \in 1 .. 3 + p + n
    OBVIOUS
  <2>4. win8 => p + 2 \in 1 .. 1 + p + n /\ p + 2 \in 1 .. 3 + p + n
    BY <1>6, <1>n
  <2> QED
    BY <1>7, <1>8, <1>9, <1>10, <2>1, <2>2, <2>3, <2>4
<1>14. Len(k) > 2 + p + n
  BY <1>10
<1> QED
  BY <1>10, <1>11, <1>12, <1>13, <1>14, <1>l DEF IsBodyOf

\* The places before the first null, counted.
LEMMA TextCounted ==
  ASSUME NEW s \in Seq(Nat)
  PROVE  Decoded(s) = SubSeq(s, 1, Cardinality({n \in 1 .. Len(s) : \A m \in 1 .. n : s[m] # 0}))
<1>l. PICK l \in Nat : l = Len(s)
  OBVIOUS
<1>n. PICK nulls : nulls = {n \in DOMAIN s : s[n] = 0}
  OBVIOUS
<1>w. PICK W : W = {n \in 1 .. l : \A m \in 1 .. n : s[m] # 0}
  OBVIOUS
<1>0. DOMAIN s = 1 .. l
  BY <1>l
<1>1. CASE nulls = {}
  <2>1. \A n \in 1 .. l : s[n] # 0
    BY <1>0, <1>1, <1>n
  <2>2. W = 1 .. l
    <3>1. ASSUME NEW n \in 1 .. l, NEW m \in 1 .. n PROVE m \in 1 .. l
      BY <1>l
    <3> QED
      BY <1>w, <2>1, <3>1
  <2>3. Cardinality(W) = l
    BY <2>2, FS_Interval
  <2>4. SubSeq(s, 1, l) = s
    BY <1>l
  <2>5. Decoded(s) = s
    BY <1>1, <1>n DEF Decoded
  <2> QED
    BY <1>l, <1>w, <2>3, <2>4, <2>5
<1>2. CASE nulls # {}
  <2>1. nulls \in SUBSET Nat
    BY <1>0, <1>n
  <2>2. PICK z : z = CHOOSE n \in nulls : \A m \in nulls : n <= m
    OBVIOUS
  <2>3. z \in nulls /\ \A m \in nulls : z <= m
    BY <1>2, <2>1, <2>2, LeastChosen
  <2>4. z \in 1 .. l /\ s[z] = 0 /\ \A m \in 1 .. l : s[m] = 0 => z <= m
    BY <1>0, <1>n, <2>3
  <2>5. W = 1 .. z - 1
    <3>1. ASSUME NEW n \in W PROVE n \in 1 .. z - 1
      <4>1. n \in 1 .. l /\ \A m \in 1 .. n : s[m] # 0
        BY <1>w
      <4>2. z \notin 1 .. n
        BY <2>4, <4>1
      <4> QED
        BY <2>4, <4>1, <4>2
    <3>2. ASSUME NEW n \in 1 .. z - 1 PROVE n \in W
      <4>1. n \in 1 .. l /\ \A m \in 1 .. n : m \in 1 .. l /\ ~(z <= m)
        BY <2>4
      <4> QED
        BY <1>w, <2>4, <4>1
    <3> QED
      BY <3>1, <3>2
  <2>6. Cardinality(W) = z - 1
    <3>1. z - 1 \in Int /\ 1 \in Int /\ z - 1 >= 0
      BY <2>4
    <3>2. PICK y \in Nat : y = z - 1
      BY <3>1
    <3>3. Cardinality(1 .. y) = y
      <4>1. IF 1 > y THEN Cardinality(1 .. y) = 0 ELSE Cardinality(1 .. y) = y - 1 + 1
        BY FS_Interval
      <4> QED
        BY <4>1
    <3> QED
      BY <2>5, <3>2, <3>3
  <2>7. Decoded(s) = SubSeq(s, 1, z - 1)
    BY <1>2, <1>n, <2>2 DEF Decoded
  <2> QED
    BY <1>l, <1>w, <2>6, <2>7
<1> QED
  BY <1>1, <1>2

\* The layout by which such a body is decoded.
LayoutFor(win8) == IF win8 THEN "Win8x" ELSE "Win10"

\* A body is decoded into what was written in it.
LEMMA BodyDecoded ==
  ASSUME CacheAssumption, NEW e \in Entry, NEW win8 \in BOOLEAN, NEW b, IsBodyOf(b, e, win8)
  PROVE  DecodedStreamBody(b, LayoutFor(win8)) = Shown(e)
<1>1. /\ e.path \in Seq(Nat) /\ e.package \in Seq(Nat) /\ e.time \in Nat
      /\ FlagsLen \in Nat
  BY DEF Entry, CacheAssumption
<1>l. PICK p \in Nat, q \in Nat, x \in Nat : p = Len(e.path) /\ q = Len(e.package) /\ x = FlagsLen
  BY <1>1
<1>t. PICK t : t = IF win8 THEN 3 + p + q + x ELSE 2 + p
  OBVIOUS
<1>2. /\ b \in Seq(Nat) /\ b[1] = p
      /\ \A n \in 1 .. p : b[n + 1] = e.path[n]
      /\ win8 => b[p + 2] = q
      /\ b[t] = e.time /\ Len(b) > t
  BY <1>l, <1>t DEF IsBodyOf, TimePlace
<1>m. PICK m \in Nat : m = Len(b)
  BY <1>2
<1>3. t \in Nat /\ t >= 2 + p /\ t < m
  BY <1>2, <1>m, <1>t
<1>4. SubSeq(b, 2, 1 + p) = e.path
  <2>1. PICK s : s = SubSeq(b, 2, 1 + p)
    OBVIOUS
  <2>2. s \in Seq(Nat) /\ Len(s) = p /\ \A n \in 1 .. p : s[n] = b[n + 1]
    BY <1>2, <1>3, <1>m, <2>1
  <2>3. PICK y : y = e.path
    OBVIOUS
  <2>4. y \in Seq(Nat) /\ Len(s) = Len(y) /\ \A n \in 1 .. Len(s) : s[n] = y[n]
    BY <1>1, <1>2, <1>l, <2>2, <2>3
  <2>5. s = y
    BY <2>2, <2>4, SameMembers
  <2> QED
    BY <2>1, <2>3, <2>5
<1>5. TimeAt(b, t) = IF e.time = 0 THEN NoText ELSE e.time
  <2>1. t \in DOMAIN b
    BY <1>2, <1>3, <1>m
  <2> QED
    BY <1>2, <2>1 DEF TimeAt
<1>6. DecodedStreamBody(b, LayoutFor(win8)) = [path |-> Decoded(e.path), time |-> TimeAt(b, t)]
  <2>1. b # << >> /\ 1 + p <= Len(b)
    BY <1>2, <1>3, <1>m
  <2>2. CASE win8
    <3>1. LayoutFor(win8) # "Win10"
      BY <2>2 DEF LayoutFor
    <3>2. (1 + p) + 1 = p + 2 /\ (1 + p) + 1 <= Len(b) /\ ((1 + p) + 1 + q + x) + 1 = t
      BY <1>3, <1>m, <1>t, <2>2
    <3>3. (1 + p) + 1 + b[(1 + p) + 1] + FlagsLen = (1 + p) + 1 + q + x
      BY <1>2, <1>l, <2>2, <3>2
    <3> QED
      BY <1>2, <1>4, <2>1, <3>1, <3>2, <3>3 DEF DecodedStreamBody
  <2>3. CASE ~win8
    <3>1. LayoutFor(win8) = "Win10" /\ (1 + p) + 1 = t
      BY <1>t, <2>3 DEF LayoutFor
    <3> QED
      BY <1>2, <1>4, <2>1, <3>1 DEF DecodedStreamBody
  <2> QED
    BY <2>2, <2>3
<1>7. Decoded(e.path) = SubSeq(e.path, 1, Cardinality({n \in 1 .. Len(e.path) : \A k \in 1 .. n : e.path[k] # 0}))
  BY <1>1, TextCounted
<1> QED
  BY <1>5, <1>6, <1>7 DEF Shown

\* An entry, whose body has the length that is said: t.
IsEntryOf(t, body, f) ==
  /\ t \in Seq(Nat) /\ Len(t) = 3 + Len(body)
  /\ t[1] = f.marker /\ t[3] = Len(body)
  /\ \A n \in 1 .. Len(body) : t[3 + n] = body[n]

\* An entry is laid out as it should be.
LEMMA EntryLaidOut ==
  ASSUME CacheAssumption, NEW c \in Caches, NEW e \in Entry
  PROVE  /\ c.format.win8 \in BOOLEAN
         /\ BodyOf(e, c.format.win8) \in Seq(Nat)
         /\ IsEntryOf(EntryOf(e, c.format), BodyOf(e, c.format.win8), c.format)
<1>1. IsFormat(c.format) /\ {Marker00, Marker10} \subseteq Nat
  BY DEF CacheAssumption, IsCache
<1>f. PICK f : f = c.format
  OBVIOUS
<1>2. f.win8 \in BOOLEAN /\ f.marker \in Nat
  BY <1>1, <1>f DEF IsFormat
<1>b. PICK b : b = BodyOf(e, f.win8)
  OBVIOUS
<1>3. b \in Seq(Nat)
  BY <1>2, <1>b, BodyLaidOut DEF IsBodyOf
<1>l. PICK l \in Nat : l = Len(b)
  BY <1>3
<1>a. PICK a : a = <<f.marker, 0, l>>
  OBVIOUS
<1>4. a \in Seq(Nat) /\ Len(a) = 3 /\ a[1] = f.marker /\ a[3] = l
  BY <1>2, <1>a
<1>t. PICK t : t = a \o b
  OBVIOUS
<1>5. Joins(t, a, b)
  BY <1>3, <1>4, <1>t, PlacesJoined
<1>6. /\ t \in Seq(Nat) /\ Len(t) = 3 + l
      /\ \A n \in 1 .. 3 : t[n] = a[n]
      /\ \A n \in 1 .. l : t[3 + n] = b[n]
  BY <1>4, <1>5, <1>l DEF Joins
<1>7. t[1] = f.marker /\ t[3] = l
  <2>1. 1 \in 1 .. 3 /\ 3 \in 1 .. 3
    OBVIOUS
  <2> QED
    BY <1>4, <1>6, <2>1
<1>8. EntryOf(e, f) = t
  BY <1>a, <1>b, <1>l, <1>t DEF EntryOf
<1>9. IsEntryOf(t, b, f)
  BY <1>6, <1>7, <1>l DEF IsEntryOf
<1> QED
  BY <1>2, <1>3, <1>8, <1>9, <1>b, <1>f

\* g: the header, then one entry more at each place.
IsWriting(g, c) ==
  /\ \A n \in 0 .. Len(c.entries) : g[n] \in Seq(Nat)
  /\ g[0] = c.format.header
  /\ \A n \in 1 .. Len(c.entries) : g[n] = g[n - 1] \o EntryOf(c.entries[n], c.format)

\* What Written defines is such a sequence of blobs.
LEMMA WrittenIs ==
  ASSUME CacheAssumption, NEW c \in Caches
  PROVE  IsWriting(Written(c), c)
<1>1. IsCache(c)
  BY DEF CacheAssumption
<1>2. c.entries \in Seq(Entry) /\ c.format.header \in Seq(Nat)
  BY <1>1 DEF IsCache, IsFormat
<1>d. PICK len \in Nat : len = Len(c.entries)
  BY <1>2
<1>V. PICK V : V = Seq(Nat)
  OBVIOUS
<1>e. PICK es : es = [i \in 1 .. len |-> EntryOf(c.entries[i], c.format)]
  OBVIOUS
<1>3. \A i \in 1 .. len : es[i] \in V /\ es[i] = EntryOf(c.entries[i], c.format)
  <2>1. ASSUME NEW i \in 1 .. len PROVE EntryOf(c.entries[i], c.format) \in Seq(Nat)
    <3>1. c.entries[i] \in Entry
      BY <1>2, <1>d
    <3> QED
      BY <3>1, EntryLaidOut DEF IsEntryOf
  <2> QED
    BY <1>V, <1>e, <2>1
<1>4. PICK f \in [0 .. len -> V] : f[0] = c.format.header /\ \A i \in 1 .. len : f[i] = f[i - 1] \o es[i]
  <2> DEFINE G == [p \in V \X (1 .. len) |-> p[1] \o es[p[2]]]
  <2>1. IsStep(G, V, len)
    <3>1. ASSUME NEW s \in V, NEW i \in 1 .. len PROVE s \o es[i] \in V
      BY <1>3, <1>V
    <3> QED
      BY <3>1 DEF IsStep
  <2>2. \A s \in V, i \in 1 .. len : G[<<s, i>>] = s \o es[i]
    OBVIOUS
  <2> HIDE DEF G
  <2>3. c.format.header \in V
    BY <1>2, <1>V
  <2>4. PICK f : IsIteration(f, G, V, c.format.header, len)
    BY <2>1, <2>3, Iteration
  <2>5. f \in [0 .. len -> V] /\ f[0] = c.format.header /\ \A i \in 1 .. len : f[i] = G[<<f[i - 1], i>>]
    BY <2>4 DEF IsIteration
  <2>6. ASSUME NEW i \in 1 .. len PROVE f[i] = f[i - 1] \o es[i]
    <3>1. i - 1 \in 0 .. len
      OBVIOUS
    <3> QED
      BY <2>2, <2>5, <3>1
  <2> QED
    BY <2>5, <2>6
<1>5. f = [n \in 0 .. len |-> IF n = 0 THEN c.format.header ELSE f[n - 1] \o EntryOf(c.entries[n], c.format)]
  <2>1. f = [n \in 0 .. len |-> f[n]]
    BY <1>4
  <2>2. ASSUME NEW n \in 0 .. len
        PROVE  f[n] = IF n = 0 THEN c.format.header ELSE f[n - 1] \o EntryOf(c.entries[n], c.format)
    <3>1. CASE n = 0
      BY <1>4, <3>1
    <3>2. CASE n # 0
      <4>1. n \in 1 .. len
        BY <3>2
      <4>2. f[n] = f[n - 1] \o es[n] /\ es[n] = EntryOf(c.entries[n], c.format)
        BY <1>3, <1>4, <4>1
      <4> QED
        BY <3>2, <4>2
    <3> QED
      BY <3>1, <3>2
  <2> QED
    BY <2>1, <2>2
<1>g. PICK g : g = CHOOSE w : w = [n \in 0 .. len |-> IF n = 0 THEN c.format.header
                                                    ELSE w[n - 1] \o EntryOf(c.entries[n], c.format)]
  OBVIOUS
<1>6. g = [n \in 0 .. len |-> IF n = 0 THEN c.format.header ELSE g[n - 1] \o EntryOf(c.entries[n], c.format)]
  BY <1>5, <1>g
<1>7. g[0] = c.format.header /\ \A n \in 1 .. len : g[n] = g[n - 1] \o EntryOf(c.entries[n], c.format)
  <2>1. 0 \in 0 .. len /\ \A n \in 1 .. len : n \in 0 .. len /\ n # 0
    OBVIOUS
  <2> QED
    BY <1>6, <2>1
<1>8. \A n \in 0 .. len : g[n] \in V
  <2>1. ASSUME NEW n \in 1 .. len, g[n - 1] \in V PROVE g[n] \in V
    <3>1. PICK s, t : s = g[n - 1] /\ t = EntryOf(c.entries[n], c.format)
      OBVIOUS
    <3>2. s \in Seq(Nat) /\ t \in Seq(Nat)
      BY <1>3, <1>V, <2>1, <3>1
    <3>3. g[n] = s \o t
      BY <1>7, <3>1
    <3> QED
      BY <1>V, <3>2, <3>3
  <2>2. g[0] \in V
    BY <1>2, <1>7, <1>V
  <2> QED
    BY <2>1, <2>2, StepsStay
<1>9. Written(c) = g
  BY <1>g, <1>d DEF Written
<1> QED
  BY <1>7, <1>8, <1>9, <1>V, <1>d DEF IsWriting

\* t begins with s.
Begins(s, t) ==
  /\ s \in Seq(Nat) /\ t \in Seq(Nat) /\ Len(s) <= Len(t)
  /\ \A i \in 1 .. Len(s) : t[i] = s[i]

\* One entry more behind what was written before it.
LEMMA EntryWritten ==
  ASSUME CacheAssumption, NEW c \in Caches, NEW g, IsWriting(g, c), NEW n \in 1 .. Len(c.entries)
  PROVE  /\ Joins(g[n], g[n - 1], EntryOf(c.entries[n], c.format))
         /\ c.entries[n] \in Entry /\ g[n] \in Seq(Nat) /\ g[n - 1] \in Seq(Nat)
         /\ EntryOf(c.entries[n], c.format) \in Seq(Nat)
         /\ BodyOf(c.entries[n], c.format.win8) \in Seq(Nat)
         /\ IsEntryOf(EntryOf(c.entries[n], c.format), BodyOf(c.entries[n], c.format.win8), c.format)
<1>1. IsCache(c)
  BY DEF CacheAssumption
<1>2. c.entries \in Seq(Entry)
  BY <1>1 DEF IsCache
<1>3. c.entries[n] \in Entry
  BY <1>2
<1>4. PICK e : e = c.entries[n]
  OBVIOUS
<1>5. PICK t : t = EntryOf(e, c.format)
  OBVIOUS
<1>6. /\ BodyOf(e, c.format.win8) \in Seq(Nat)
      /\ IsEntryOf(t, BodyOf(e, c.format.win8), c.format)
  BY <1>3, <1>4, <1>5, EntryLaidOut
<1>7. t \in Seq(Nat)
  BY <1>6 DEF IsEntryOf
<1>8. PICK len \in Nat : len = Len(c.entries)
  BY <1>2
<1>9. n \in 0 .. len /\ n - 1 \in 0 .. len
  BY <1>8
<1>10. g[n] \in Seq(Nat) /\ g[n - 1] \in Seq(Nat) /\ g[n] = g[n - 1] \o t
  BY <1>4, <1>5, <1>8, <1>9 DEF IsWriting
<1>11. Joins(g[n], g[n - 1], t)
  BY <1>7, <1>10, PlacesJoined
<1> QED
  BY <1>3, <1>4, <1>5, <1>6, <1>7, <1>10, <1>11

\* What was written stays as it is when entries follow; each takes a place.
LEMMA WrittenStays ==
  ASSUME CacheAssumption, NEW c \in Caches, NEW g, IsWriting(g, c)
  PROVE  \A m \in 0 .. Len(c.entries) :
           m <= Len(g[m]) /\ \A n \in 0 .. m : Begins(g[n], g[m])
<1>1. c.entries \in Seq(Entry)
  BY DEF CacheAssumption, IsCache
<1>l. PICK len \in Nat : len = Len(c.entries)
  BY <1>1
<1> DEFINE T == {m \in Nat : m <= Len(g[m]) /\ \A n \in 0 .. m : Begins(g[n], g[m])}
<1>2. \A n \in 0 .. len : g[n] \in Seq(Nat)
  BY <1>l DEF IsWriting
<1>3. 0 \in T
  <2>1. g[0] \in Seq(Nat) /\ \A n \in 0 .. 0 : n = 0
    BY <1>2
  <2>2. Begins(g[0], g[0]) /\ 0 <= Len(g[0])
    BY <2>1 DEF Begins
  <2> QED
    BY <2>1, <2>2
<1>4. ASSUME NEW m \in 0 .. len - 1, m \in T PROVE m + 1 \in T
  <2>1. m + 1 \in 1 .. Len(c.entries) /\ (m + 1) - 1 = m /\ m + 1 \in Nat
    BY <1>l
  <2>2. PICK e : e = c.entries[m + 1]
    OBVIOUS
  <2>3. PICK t, b : t = EntryOf(e, c.format) /\ b = BodyOf(e, c.format.win8)
    OBVIOUS
  <2>4. PICK s, r : s = g[m] /\ r = g[m + 1]
    OBVIOUS
  <2>5. /\ Joins(r, s, t) /\ s \in Seq(Nat) /\ r \in Seq(Nat) /\ t \in Seq(Nat)
        /\ b \in Seq(Nat) /\ IsEntryOf(t, b, c.format)
    BY <2>1, <2>2, <2>3, <2>4, EntryWritten
  <2>6. Len(t) >= 3
    BY <2>5 DEF IsEntryOf
  <2>7. Len(r) = Len(s) + Len(t) /\ \A i \in 1 .. Len(s) : r[i] = s[i]
    BY <2>5 DEF Joins
  <2>8. m + 1 <= Len(r)
    <3>1. m <= Len(s) /\ Len(s) \in Nat /\ Len(t) \in Nat
      BY <1>4, <2>4, <2>5
    <3> QED
      BY <2>6, <2>7, <3>1
  <2>9. ASSUME NEW n \in 0 .. m + 1 PROVE Begins(g[n], r)
    <3>1. CASE n = m + 1
      BY <2>4, <2>5, <3>1 DEF Begins
    <3>2. CASE n # m + 1
      <4>1. n \in 0 .. m
        BY <3>2
      <4>2. Begins(g[n], s)
        BY <1>4, <2>4, <4>1
      <4>3. PICK w : w = g[n]
        OBVIOUS
      <4>4. /\ w \in Seq(Nat) /\ Len(w) <= Len(s) /\ \A i \in 1 .. Len(w) : s[i] = w[i]
            /\ Len(w) \in Nat /\ Len(s) \in Nat /\ Len(t) \in Nat
        BY <2>5, <4>2, <4>3 DEF Begins
      <4>5. \A i \in 1 .. Len(w) : i \in 1 .. Len(s)
        BY <4>4
      <4>6. Len(w) <= Len(r) /\ \A i \in 1 .. Len(w) : r[i] = w[i]
        BY <2>7, <4>4, <4>5
      <4> QED
        BY <2>5, <4>3, <4>4, <4>6 DEF Begins
    <3> QED
      BY <3>1, <3>2
  <2> QED
    BY <2>1, <2>4, <2>8, <2>9
<1>5. \A m \in 0 .. len : m \in T
  <2> HIDE DEF T
  <2> QED
    BY <1>3, <1>4, UpTo
<1> QED
  BY <1>5, <1>l

\* A blob is what was written without its end, which is of the last entry.
IsBlobOf(b, g, c) ==
  /\ b \in Seq(Nat) /\ Len(b) = Len(g[Len(c.entries)]) - c.cut
  /\ \A i \in 1 .. Len(b) : b[i] = g[Len(c.entries)][i]
  /\ Len(g[Len(c.entries) - 1]) < Len(b)

\* BlobOf is such a blob: only places of the last entry are lost.
LEMMA BlobIs ==
  ASSUME CacheAssumption, NEW c \in Caches, NEW g, g = Written(c)
  PROVE  /\ IsBlobOf(BlobOf(c), g, c) /\ IsWriting(g, c)
         /\ Len(c.entries) \in Nat \ {0} /\ c.cut \in Nat
<1>1. IsCache(c)
  BY DEF CacheAssumption
<1>2. c.entries \in Seq(Entry) /\ c.entries # << >>
  BY <1>1 DEF IsCache
<1>l. PICK len \in Nat : len = Len(c.entries)
  BY <1>2
<1>3. len # 0
  BY <1>2, <1>l, EmptySeq
<1>4. IsWriting(g, c)
  BY WrittenIs
<1>5. PICK t : t = EntryOf(c.entries[len], c.format)
  OBVIOUS
<1>6. PICK s, all : s = g[len - 1] /\ all = g[len]
  OBVIOUS
<1>7. Joins(all, s, t) /\ s \in Seq(Nat) /\ all \in Seq(Nat) /\ t \in Seq(Nat)
  <2>1. len \in 1 .. Len(c.entries)
    BY <1>3, <1>l
  <2> QED
    BY <1>4, <1>5, <1>6, <2>1, EntryWritten
<1>8. c.cut \in 0 .. Len(t) - 1
  BY <1>1, <1>5, <1>l DEF IsCache
<1>9. PICK x \in Nat, y \in Nat, z \in Nat, q \in Nat : x = Len(s) /\ y = Len(t) /\ z = Len(all) /\ q = c.cut
  BY <1>7, <1>8
<1>10. z = x + y /\ q < y
  BY <1>7, <1>8, <1>9 DEF Joins
<1>11. PICK b : b = SubSeq(all, 1, z - q)
  OBVIOUS
<1>12. b \in Seq(Nat) /\ Len(b) = z - q /\ \A i \in 1 .. z - q : b[i] = all[i]
  <2>1. PICK w \in Nat : w = z - q
    BY <1>10
  <2>2. w <= Len(all) /\ b = SubSeq(all, 1, w)
    BY <1>9, <1>10, <1>11, <2>1
  <2>3. b \in Seq(Nat) /\ Len(b) = w /\ \A i \in 1 .. w : b[i] = all[i]
    BY <1>7, <2>2
  <2> QED
    BY <2>1, <2>3
<1>13. BlobOf(c) = b
  BY <1>6, <1>9, <1>11, <1>l DEF BlobOf
<1>14. x < z - q
  BY <1>10
<1>15. IsBlobOf(b, g, c)
  BY <1>6, <1>9, <1>12, <1>14, <1>l DEF IsBlobOf
<1> QED
  BY <1>3, <1>4, <1>13, <1>15, <1>9, <1>l

\* The blob goes on with entry k + 1 behind the entries before it: it is whole
\* if the blob has a place for all of it, and only then.
IsFramed(b, o, body, k, c) ==
  /\ o \in Nat /\ o < Len(b) /\ b[o + 1] = c.format.marker
  /\ o + 3 <= Len(b) => b[o + 3] = Len(body)
  /\ k < Whole(c) <=> o + 3 + Len(body) <= Len(b)
  /\ k < Whole(c) => \A i \in 1 .. Len(body) : b[o + 3 + i] = body[i]

\* What is written up to the entry's end.
GrowsBy(g, k, body) == Len(g[k + 1]) = Len(g[k]) + 3 + Len(body)

\* The entries of a blob are framed, one behind the other.
LEMMA EntriesFramed ==
  ASSUME CacheAssumption, NEW c \in Caches, NEW g, g = Written(c), NEW b, b = BlobOf(c),
         NEW k \in 0 .. Len(c.entries) - 1, NEW body, body = BodyOf(c.entries[k + 1], c.format.win8)
  PROVE  /\ IsFramed(b, Len(g[k]), body, k, c)
         /\ body \in Seq(Nat) /\ c.entries[k + 1] \in Entry
         /\ GrowsBy(g, k, body)
         /\ b \in Seq(Nat)
<1>1. IsBlobOf(b, g, c) /\ IsWriting(g, c) /\ Len(c.entries) \in Nat \ {0} /\ c.cut \in Nat
  BY BlobIs
<1>l. PICK len \in Nat : len = Len(c.entries)
  BY <1>1
<1>2. k + 1 \in 1 .. len /\ k + 1 \in 0 .. len /\ k \in 0 .. len - 1 /\ (k + 1) - 1 = k /\ len \in 0 .. len
      /\ len - 1 \in 0 .. len /\ k \in 0 .. len
  BY <1>l
<1>3. PICK e : e = c.entries[k + 1]
  OBVIOUS
<1>4. PICK t : t = EntryOf(e, c.format)
  OBVIOUS
<1>5. PICK s, r, all : s = g[k] /\ r = g[k + 1] /\ all = g[len]
  OBVIOUS
<1>6. /\ Joins(r, s, t) /\ s \in Seq(Nat) /\ r \in Seq(Nat) /\ t \in Seq(Nat)
      /\ body \in Seq(Nat) /\ IsEntryOf(t, body, c.format) /\ e \in Entry
  BY <1>1, <1>2, <1>3, <1>4, <1>5, <1>l, EntryWritten
<1>7. Begins(r, all)
  BY <1>1, <1>2, <1>5, <1>l, WrittenStays
<1>8. PICK o \in Nat, l \in Nat, z \in Nat : o = Len(s) /\ l = Len(body) /\ z = Len(b)
  BY <1>1, <1>6 DEF IsBlobOf
<1>9. /\ Len(t) = 3 + l /\ t[1] = c.format.marker /\ t[3] = l
      /\ \A n \in 1 .. l : t[3 + n] = body[n]
  BY <1>6, <1>8 DEF IsEntryOf
<1>10. Len(r) = o + 3 + l /\ \A n \in 1 .. 3 + l : r[o + n] = t[n]
  BY <1>6, <1>8, <1>9 DEF Joins
<1>11. o + 3 + l <= Len(all) /\ \A n \in 1 .. 3 + l : all[o + n] = t[n]
  <2>1. Len(r) <= Len(all) /\ \A i \in 1 .. Len(r) : all[i] = r[i]
    BY <1>7 DEF Begins
  <2>2. \A n \in 1 .. 3 + l : o + n \in 1 .. o + 3 + l
    OBVIOUS
  <2> QED
    BY <1>10, <2>1, <2>2
<1>12. \A n \in 1 .. 3 + l : o + n <= z => b[o + n] = t[n]
  <2>1. \A i \in 1 .. z : b[i] = all[i]
    BY <1>1, <1>5, <1>8, <1>l DEF IsBlobOf
  <2>2. \A n \in 1 .. 3 + l : o + n <= z => o + n \in 1 .. z
    OBVIOUS
  <2> QED
    BY <1>11, <2>1, <2>2
<1>13. k < len - 1 => Len(r) < z
  <2>1. SUFFICES ASSUME k < len - 1 PROVE Len(r) < z
    OBVIOUS
  <2>2. k + 1 \in 0 .. len - 1
    BY <1>2, <2>1
  <2>3. PICK w : w = g[len - 1]
    OBVIOUS
  <2>4. Begins(r, w)
    BY <1>1, <1>2, <1>5, <1>l, <2>2, <2>3, WrittenStays
  <2>5. Len(w) < z
    BY <1>1, <1>8, <1>l, <2>3 DEF IsBlobOf
  <2> QED
    <3>1. Len(r) \in Nat /\ Len(w) \in Nat /\ Len(r) <= Len(w)
      BY <2>4 DEF Begins
    <3> QED
      BY <2>5, <3>1
<1>14. o < z
  <2>1. PICK w : w = g[len - 1]
    OBVIOUS
  <2>2. k \in 0 .. len - 1
    BY <1>2
  <2>3. Begins(s, w)
    BY <1>1, <1>2, <1>5, <1>l, <2>1, <2>2, WrittenStays
  <2>4. Len(w) < z
    BY <1>1, <1>8, <1>l, <2>1 DEF IsBlobOf
  <2>5. Len(s) \in Nat /\ Len(w) \in Nat /\ Len(s) <= Len(w)
    BY <2>3 DEF Begins
  <2> QED
    BY <1>8, <2>4, <2>5
<1>15. k < Whole(c) <=> o + 3 + l <= z
  <2>1. PICK q \in Nat : q = c.cut
    BY <1>1
  <2>2. z = Len(all) - q
    BY <1>1, <1>5, <1>8, <1>l, <2>1 DEF IsBlobOf
  <2>3. CASE k < len - 1
    <3>1. Whole(c) = len \/ Whole(c) = len - 1
      BY <1>l DEF Whole
    <3> QED
      BY <1>2, <1>10, <1>13, <2>3, <3>1
  <2>4. CASE k = len - 1
    <3>1. r = all
      BY <1>2, <1>5, <2>4
    <3>2. z = o + 3 + l - q
      <4>1. Len(all) = o + 3 + l
        BY <1>10, <3>1
      <4> QED
        BY <2>2, <4>1
    <3>3. CASE q = 0
      BY <1>2, <1>l, <2>1, <2>4, <3>2, <3>3 DEF Whole
    <3>4. CASE q # 0
      <4>1. Whole(c) = len - 1
        BY <1>l, <2>1, <3>4 DEF Whole
      <4> QED
        BY <2>4, <3>2, <3>4, <4>1
    <3> QED
      BY <3>3, <3>4
  <2> QED
    BY <1>2, <2>3, <2>4
<1>16. b[o + 1] = c.format.marker
  <2>1. 1 \in 1 .. 3 + l /\ o + 1 <= z
    BY <1>14
  <2> QED
    BY <1>9, <1>12, <2>1
<1>17. o + 3 <= z => b[o + 3] = l
  <2>1. 3 \in 1 .. 3 + l
    OBVIOUS
  <2> QED
    BY <1>9, <1>12, <2>1
<1>18. k < Whole(c) => \A i \in 1 .. l : b[o + 3 + i] = body[i]
  <2>1. SUFFICES ASSUME k < Whole(c), NEW i \in 1 .. l PROVE b[o + 3 + i] = body[i]
    OBVIOUS
  <2>2. 3 + i \in 1 .. 3 + l /\ o + (3 + i) <= z /\ o + (3 + i) = o + 3 + i
    BY <1>15, <2>1
  <2> QED
    BY <1>9, <1>12, <2>2
<1>19. IsFramed(b, o, body, k, c)
  BY <1>8, <1>14, <1>15, <1>16, <1>17, <1>18 DEF IsFramed
<1>20. b \in Seq(Nat)
  BY <1>1 DEF IsBlobOf
<1>21. GrowsBy(g, k, body)
  BY <1>5, <1>8, <1>10 DEF GrowsBy
<1> QED
  BY <1>3, <1>5, <1>6, <1>8, <1>19, <1>20, <1>21

\* The format of a cache is told by its header, its marker and its layout.
LEMMA FormatTold ==
  ASSUME CacheAssumption, NEW c \in Caches, NEW b, b = BlobOf(c)
  PROVE  /\ FormatOf(b) = Stream(b, Len(c.format.header), c.format.marker, LayoutFor(c.format.win8))
         /\ b # << >> /\ b \in Seq(Nat) /\ Len(c.format.header) \in Nat
<1>f. PICK f : f = c.format
  OBVIOUS
<1>1. /\ IsFormat(f) /\ c.entries \in Seq(Entry)
      /\ ~f.win8 /\ f.header # << >> /\ Unknown(f.header) => ~MarkedAt(b, HeaderSize + 1)
  BY <1>f DEF CacheAssumption, IsCache
<1>2. PICK s : s = f.header
  OBVIOUS
<1>3. s \in Seq(Nat) /\ f.win8 \in BOOLEAN
  BY <1>1, <1>2 DEF IsFormat
<1>g. PICK g : g = Written(c)
  OBVIOUS
<1>4. IsBlobOf(b, g, c) /\ IsWriting(g, c) /\ Len(c.entries) \in Nat \ {0}
  BY <1>g, BlobIs
<1>l. PICK len \in Nat : len = Len(c.entries)
  BY <1>4
<1>5. 0 \in 0 .. len - 1 /\ len \in 0 .. len /\ 0 \in 0 .. len
  BY <1>4, <1>l
<1>6. g[0] = s
  BY <1>2, <1>4, <1>f DEF IsWriting
<1>7. PICK body : body = BodyOf(c.entries[0 + 1], c.format.win8)
  OBVIOUS
<1>8. IsFramed(b, Len(s), body, 0, c) /\ b \in Seq(Nat)
  BY <1>5, <1>6, <1>7, <1>g, <1>l, EntriesFramed
<1>9. PICK o \in Nat, z \in Nat : o = Len(s) /\ z = Len(b)
  BY <1>3, <1>8
<1>10. o < z /\ b[o + 1] = f.marker
  BY <1>8, <1>9, <1>f DEF IsFramed
<1>11. \A i \in 1 .. o : b[i] = s[i]
  <2>1. PICK all : all = g[len]
    OBVIOUS
  <2>2. Begins(s, all)
    BY <1>4, <1>5, <1>6, <1>l, <2>1, WrittenStays
  <2>3. \A i \in 1 .. o : all[i] = s[i]
    BY <1>9, <2>2 DEF Begins
  <2>4. \A i \in 1 .. z : b[i] = all[i]
    BY <1>4, <1>9, <1>l, <2>1 DEF IsBlobOf
  <2>5. \A i \in 1 .. o : i \in 1 .. z
    BY <1>10
  <2> QED
    BY <2>3, <2>4, <2>5
<1>12. b # << >> /\ DOMAIN b = 1 .. z
  BY <1>8, <1>9, <1>10
<1>13. /\ HeaderSize \in Nat \ {0} /\ Marker10 \notin Win10HeaderLens
       /\ WIN8_HEADER_SIG \notin Win10HeaderLens \union {Marker10}
  BY DEF CacheAssumption
<1>14. CASE f.win8
  <2>1. /\ o = HeaderSize /\ s[1] \notin Win10HeaderLens \union {Marker10}
        /\ f.marker \in {Marker00, Marker10}
    BY <1>1, <1>2, <1>9, <1>14 DEF IsFormat
  <2>2. b[1] = s[1]
    BY <1>11, <1>13, <2>1
  <2>3. Len(b) >= HeaderSize + 1 /\ b[HeaderSize + 1] \in {Marker00, Marker10}
    BY <1>9, <1>10, <2>1
  <2>4. FormatOf(b) = Stream(b, HeaderSize, b[HeaderSize + 1], "Win8x")
    BY <1>12, <2>1, <2>2, <2>3 DEF FormatOf
  <2> QED
    BY <1>2, <1>8, <1>9, <1>10, <1>12, <1>14, <1>f, <2>1, <2>4 DEF LayoutFor
<1>15. CASE ~f.win8
  <2>1. f.marker = Marker10
    BY <1>1, <1>15 DEF IsFormat
  <2>2. LayoutFor(f.win8) = "Win10"
    BY <1>15 DEF LayoutFor
  <2>3. CASE s = << >>
    <3>1. o = 0 /\ b[1] = Marker10
      BY <1>9, <1>10, <2>1, <2>3
    <3>2. FormatOf(b) = Stream(b, 0, Marker10, "Win10")
      BY <1>12, <1>13, <3>1 DEF FormatOf
    <3> QED
      BY <1>2, <1>8, <1>9, <1>12, <1>f, <2>1, <2>2, <3>1, <3>2
  <2>4. CASE s # << >>
    <3>1. o # 0
      BY <1>3, <1>9, <2>4, EmptySeq
    <3>2. b[1] = s[1]
      BY <1>11, <3>1
    <3>3. CASE s[1] = Len(s) /\ s[1] \in Win10HeaderLens
      <4>1. FormatOf(b) = Stream(b, b[1], Marker10, "Win10")
        BY <1>12, <3>2, <3>3 DEF FormatOf
      <4> QED
        BY <1>2, <1>8, <1>9, <1>12, <1>f, <2>1, <2>2, <3>2, <3>3, <4>1
    <3>4. CASE Unknown(s) /\ Len(s) # HeaderSize
      <4>1. s[1] \notin Win10HeaderLens \union {WIN8_HEADER_SIG} /\ \A n \in 1 .. o : s[n] # Marker10
        BY <1>9, <3>4 DEF Unknown
      <4>2. b[1] # Marker10 /\ b[1] \notin Win10HeaderLens /\ b[1] # WIN8_HEADER_SIG
        BY <3>1, <3>2, <4>1
      <4>3. ~(Len(b) >= HeaderSize + 1 /\ b[HeaderSize + 1] \in {Marker00, Marker10})
        BY <1>1, <1>2, <1>9, <1>13, <1>15, <2>4, <3>4 DEF MarkedAt
      <4>4. PICK marked : marked = {n \in DOMAIN b : b[n] = Marker10}
        OBVIOUS
      <4>5. o + 1 \in marked /\ \A n \in marked : n \in Nat /\ o + 1 <= n
        BY <1>10, <1>11, <1>12, <2>1, <4>1, <4>4
      <4>6. PICK n : n = CHOOSE i \in marked : \A m \in marked : i <= m
        OBVIOUS
      <4>7. n = o + 1
        <5>1. n \in marked /\ \A m \in marked : n <= m
          BY <4>5, <4>6, LeastChosen
        <5> QED
          BY <4>5, <5>1
      <4>8. FormatOf(b) = Stream(b, n - 1, Marker10, "Win10")
        BY <1>12, <4>2, <4>3, <4>4, <4>5, <4>6 DEF FormatOf
      <4>9. n - 1 = o
        BY <4>7
      <4> QED
        BY <1>2, <1>8, <1>9, <1>12, <1>f, <2>1, <2>2, <4>8, <4>9
    <3> QED
      BY <1>1, <1>2, <1>15, <2>4, <3>3, <3>4 DEF IsFormat
  <2> QED
    BY <2>3, <2>4
<1> QED
  BY <1>3, <1>14, <1>15

\* A blob without a marker.
NoMarker(b) == \A n \in 1 .. Len(b) : b[n] \notin {Marker00, Marker10}

\* Its format: none, or one whose entries would begin with a marker.
LEMMA MarkerlessFormat ==
  ASSUME CacheAssumption, NEW b \in Seq(Nat), NoMarker(b)
  PROVE  \/ b = << >> /\ FormatOf(b) = [layout |-> "none"]
         \/ /\ b # << >> /\ b[1] \notin Win10HeaderLens \union {WIN8_HEADER_SIG}
            /\ FormatOf(b) = [layout |-> "sentinel"]
         \/ /\ b # << >> /\ b[1] \in Win10HeaderLens \union {WIN8_HEADER_SIG}
            /\ FormatOf(b).layout \notin {"none", "sentinel"}
            /\ FormatOf(b).marker = Marker10 /\ FormatOf(b).start \in Nat
            /\ FormatOf(b).framing \in {2, 3}
<1>1. /\ HeaderSize \in Nat /\ Win10HeaderLens \subseteq Nat
      /\ WIN8_HEADER_SIG \notin Win10HeaderLens
  BY DEF CacheAssumption
<1>2. CASE b = << >>
  BY <1>2 DEF FormatOf
<1>3. CASE b # << >>
  <2>1. PICK z \in Nat : z = Len(b)
    OBVIOUS
  <2>2. z # 0 /\ DOMAIN b = 1 .. z
    BY <1>3, <2>1, EmptySeq
  <2>3. \A n \in 1 .. z : b[n] # Marker10 /\ b[n] # Marker00
    BY <2>1 DEF NoMarker
  <2>4. b[1] # Marker10
    BY <2>2, <2>3
  <2>5. CASE b[1] \in Win10HeaderLens
    <3>1. FormatOf(b) = Stream(b, b[1], Marker10, "Win10")
      BY <1>3, <2>5 DEF FormatOf
    <3> QED
      BY <1>1, <1>3, <2>5, <3>1 DEF Stream
  <2>6. CASE b[1] \notin Win10HeaderLens
    <3>1. ~(Len(b) >= HeaderSize + 1 /\ b[HeaderSize + 1] \in {Marker00, Marker10})
      BY <1>1, <2>1, <2>3
    <3>2. {n \in DOMAIN b : b[n] = Marker10} = {}
      BY <2>2, <2>3
    <3>3. CASE b[1] = WIN8_HEADER_SIG
      <4>1. FormatOf(b) = [start |-> HeaderSize, marker |-> Marker10, framing |-> 2, layout |-> "legacy",
                           count |-> IF Len(b) < HeaderSize THEN 0 ELSE b[2]]
        BY <1>3, <2>4, <2>6, <3>1, <3>3 DEF FormatOf
      <4> QED
        BY <1>1, <1>3, <3>3, <4>1
    <3>4. CASE b[1] # WIN8_HEADER_SIG
      <4>1. FormatOf(b) = [layout |-> "sentinel"]
        BY <1>3, <2>4, <2>6, <3>1, <3>2, <3>4 DEF FormatOf
      <4> QED
        BY <1>3, <2>6, <3>4, <4>1
    <3> QED
      BY <3>3, <3>4
  <2> QED
    BY <2>5, <2>6
<1> QED
  BY <1>2, <1>3

\* The first k entries are read.
AreRead(s, o, c, k) ==
  s = [n \in 1 .. k |-> Shown(c.entries[n])] /\ o = Len(Written(c)[k])

\* All entries are whole, or all but the last.
LEMMA WholeIs ==
  ASSUME CacheAssumption, NEW c \in Caches
  PROVE  /\ Whole(c) \in Nat /\ Len(c.entries) \in Nat \ {0} /\ c.cut \in Nat
         /\ (Whole(c) = Len(c.entries) /\ c.cut = 0) \/ Whole(c) = Len(c.entries) - 1
<1>1. Len(c.entries) \in Nat \ {0} /\ c.cut \in Nat
  BY BlobIs
<1> QED
  BY <1>1 DEF Whole

\* While entries are whole, the next one is found, and what lies between its
\* bounds is its body; then none is found.
LEMMA NextFound ==
  ASSUME CacheAssumption, task = "entries", format = FormatOf(blob),
         NEW c \in Caches, BlobOf(c) = blob, NEW k \in 0 .. Whole(c), AreRead(cache, offset, c, k)
  PROVE  /\ HasEntry <=> k < Whole(c)
         /\ k < Whole(c) =>
              /\ DecodedStreamBody(SubSeq(blob, BodyStart + 1, BodyEnd), format.layout) = Shown(c.entries[k + 1])
              /\ BodyEnd = Len(Written(c)[k + 1])
              /\ format.layout # "legacy"
<1>1. /\ Whole(c) \in Nat /\ Len(c.entries) \in Nat \ {0} /\ c.cut \in Nat
      /\ (Whole(c) = Len(c.entries) /\ c.cut = 0) \/ Whole(c) = Len(c.entries) - 1
  BY WholeIs
<1>l. PICK len \in Nat, w \in Nat : len = Len(c.entries) /\ w = Whole(c)
  BY <1>1
<1>f. PICK f : f = c.format
  OBVIOUS
<1>b. PICK b : b = blob
  OBVIOUS
<1>2. /\ format = Stream(b, Len(f.header), f.marker, LayoutFor(f.win8))
      /\ b \in Seq(Nat) /\ f.win8 \in BOOLEAN
  BY <1>b, <1>f, FormatTold DEF CacheAssumption, IsCache, IsFormat
<1>3. /\ format.framing = 3 /\ format.marker = f.marker /\ format.layout = LayoutFor(f.win8)
      /\ format.count = Len(b)
  BY <1>2 DEF Stream
<1>4. format.layout # "legacy"
  BY <1>3 DEF LayoutFor
<1>g. PICK g : g = Written(c)
  OBVIOUS
<1>5. IsBlobOf(b, g, c) /\ IsWriting(g, c)
  BY <1>b, <1>g, BlobIs
<1>6. k \in 0 .. len /\ g[k] \in Seq(Nat)
  <2>1. k \in 0 .. len
    BY <1>1, <1>l
  <2> QED
    BY <1>5, <1>l, <2>1 DEF IsWriting
<1>7. PICK o \in Nat, z \in Nat : o = Len(g[k]) /\ z = Len(b)
  BY <1>2, <1>6
<1>8. offset = o /\ k <= o
  BY <1>5, <1>6, <1>7, <1>g, <1>l, WrittenStays DEF AreRead
<1>9. BodyStart = o + 3 /\ BodyEnd = o + 3 + b[o + 3]
  BY <1>3, <1>8, <1>b DEF BodyStart, BodyEnd
<1>10. Len(cache) = k
  <2>1. k \in Nat /\ cache = [n \in 1 .. k |-> Shown(c.entries[n])]
    BY <1>6 DEF AreRead
  <2> QED
    BY <2>1
<1>11. HasEntry <=> o + 3 <= z /\ k < z /\ b[o + 1] = f.marker /\ o + 3 + b[o + 3] <= z
  BY <1>3, <1>7, <1>8, <1>9, <1>10, <1>b DEF HasEntry
<1>12. CASE k = len
  <2>1. w = len /\ c.cut = 0
    BY <1>1, <1>12, <1>l
  <2>2. z = o
    BY <1>5, <1>7, <1>12, <1>l, <2>1 DEF IsBlobOf
  <2>3. ~HasEntry
    BY <1>11, <2>2
  <2> QED
    BY <1>12, <1>l, <2>1, <2>3
<1>13. CASE k # len
  <2>1. k \in 0 .. len - 1
    BY <1>6, <1>13
  <2>2. PICK e : e = c.entries[k + 1]
    OBVIOUS
  <2>3. PICK body : body = BodyOf(e, f.win8)
    OBVIOUS
  <2>4. /\ IsFramed(b, o, body, k, c) /\ body \in Seq(Nat) /\ e \in Entry
        /\ Len(g[k + 1]) = o + 3 + Len(body)
    <3>1. k \in 0 .. Len(c.entries) - 1 /\ body = BodyOf(c.entries[k + 1], c.format.win8) /\ b = BlobOf(c)
      BY <1>b, <1>f, <1>l, <2>1, <2>2, <2>3
    <3>2. /\ IsFramed(b, Len(g[k]), body, k, c) /\ body \in Seq(Nat) /\ c.entries[k + 1] \in Entry
          /\ GrowsBy(g, k, body)
      BY <1>g, <3>1, EntriesFramed
    <3> QED
      BY <1>7, <2>2, <3>2 DEF GrowsBy
  <2>5. PICK l \in Nat : l = Len(body)
    BY <2>4
  <2>6. /\ o < z /\ b[o + 1] = f.marker
        /\ o + 3 <= z => b[o + 3] = l
        /\ k < w <=> o + 3 + l <= z
        /\ k < w => \A i \in 1 .. l : b[o + 3 + i] = body[i]
    BY <1>7, <1>f, <1>l, <2>4, <2>5 DEF IsFramed
  <2>7. HasEntry <=> k < w
    <3>1. ASSUME HasEntry PROVE k < w
      BY <1>11, <2>6, <3>1
    <3>2. ASSUME k < w PROVE HasEntry
      <4>1. o + 3 + l <= z
        BY <2>6, <3>2
      <4>2. o + 3 <= z /\ k < z
        BY <1>6, <1>8, <2>6, <4>1
      <4> QED
        BY <1>11, <2>6, <4>1, <4>2
    <3> QED
      BY <3>1, <3>2
  <2>8. ASSUME k < w
        PROVE  /\ DecodedStreamBody(SubSeq(b, BodyStart + 1, BodyEnd), format.layout) = Shown(e)
               /\ BodyEnd = Len(g[k + 1])
    <3>1. o + 3 + l <= z /\ o + 3 <= z /\ b[o + 3] = l
      BY <2>6, <2>8
    <3>2. BodyStart = o + 3 /\ BodyEnd = o + 3 + l
      BY <1>9, <3>1
    <3>3. PICK y \in Nat : y = o + 3
      OBVIOUS
    <3>4. PICK s : s = SubSeq(b, y + 1, y + l)
      OBVIOUS
    <3>5. s \in Seq(Nat) /\ Len(s) = l /\ \A i \in 1 .. l : s[i] = b[y + i]
      <4>1. PICK m \in Nat, n \in Nat : m = y + 1 /\ n = y + l
        OBVIOUS
      <4>2. n <= Len(b) /\ s = SubSeq(b, m, n)
        BY <1>7, <3>1, <3>3, <3>4, <4>1
      <4>3. s \in Seq(Nat) /\ Len(s) = (IF m <= n THEN n - m + 1 ELSE 0)
            /\ \A i \in 1 .. n - m + 1 : s[i] = b[m + i - 1]
        BY <1>2, <4>1, <4>2
      <4>4. Len(s) = l /\ n - m + 1 = l
        BY <4>1, <4>3
      <4>5. \A i \in 1 .. l : m + i - 1 = y + i
        BY <4>1
      <4> QED
        BY <4>3, <4>4, <4>5
    <3>6. s = body
      BY <2>4, <2>5, <2>6, <2>8, <3>3, <3>5, SameMembers
    <3>7. IsBodyOf(body, e, f.win8)
      BY <1>2, <2>3, <2>4, BodyLaidOut
    <3>8. DecodedStreamBody(body, LayoutFor(f.win8)) = Shown(e)
      BY <1>2, <2>4, <3>7, BodyDecoded
    <3> QED
      BY <1>3, <2>4, <2>5, <3>2, <3>3, <3>4, <3>6, <3>8
  <2> QED
    BY <1>4, <1>b, <1>g, <1>l, <2>2, <2>7, <2>8
<1> QED
  BY <1>12, <1>13

\* The key of the cache is a key of the hive or none.
LEMMA ShimcacheKeyIs ==
  ASSUME ExpansionAssumption, SystemAssumption, IsHive(system)
  PROVE  ShimcacheKey \in Ids \union {NoKey}
<1>1. \A x : \E S : <<x>> \o ShimcacheSuffix \in Seq(S)
  <2>1. SUFFICES ASSUME NEW x PROVE \E S : <<x>> \o ShimcacheSuffix \in Seq(S)
    OBVIOUS
  <2>2. PICK S : S = Names \union {x}
    OBVIOUS
  <2>3. ShimcacheSuffix \in Seq(S)
    <3>1. ShimcacheSuffix \in Seq(Names)
      BY DEF SystemAssumption
    <3> QED
      BY <2>2, <3>1, SeqMonotonic
  <2>4. <<x>> \in Seq(S)
    BY <2>2
  <2> QED
    BY <2>3, <2>4
<1>2. \A x : OpenKey(system, <<x>> \o ShimcacheSuffix) \in Ids \union {NoKey}
  BY <1>1, OpenKeyIs
<1>a. PICK a : a = IF Readable(SelectedValue) /\ SelectedValue.data.size >= 4 THEN SelectedValue.data.num ELSE 1
  OBVIOUS
<1>p. PICK p : p = <<"CURRENTCONTROLSET">> \o ShimcacheSuffix
  OBVIOUS
<1>q. PICK q : q = <<ControlSetName[a]>> \o ShimcacheSuffix
  OBVIOUS
<1>r. PICK r : r = <<ControlSetName[1]>> \o ShimcacheSuffix
  OBVIOUS
<1>3. ShimcacheKey = FirstOpened(<<p, q, r>>)
  BY <1>a, <1>p, <1>q, <1>r DEF ShimcacheKey
<1>4. FirstOpened(<<p, q, r>>) =
        IF OpenKey(system, p) # NoKey THEN OpenKey(system, p)
        ELSE IF OpenKey(system, q) # NoKey THEN OpenKey(system, q)
        ELSE OpenKey(system, r)
  BY FirstOfThree
<1>5. /\ OpenKey(system, p) \in Ids \union {NoKey}
      /\ OpenKey(system, q) \in Ids \union {NoKey}
      /\ OpenKey(system, r) \in Ids \union {NoKey}
  BY <1>2, <1>p, <1>q, <1>r
<1> QED
  BY <1>3, <1>4, <1>5

\* What is read of a value is a sequence of numbers.
LEMMA BlobsAreSequences ==
  ASSUME CacheAssumption, NEW h \in SystemHives, IsHive(h), NEW k \in Ids, NEW name, NEW v,
         v = ValueNamed(h, k, name), v # NoValue
  PROVE  v.data.blob \in Seq(Nat)
<1>vs. PICK vs : vs = ValuesOf(h, k)
  OBVIOUS
<1>N. PICK N : N = {n \in DOMAIN vs : vs[n].name = name}
  OBVIOUS
<1>1. \A n \in DOMAIN vs : vs[n].data.blob \in Seq(Nat)
  <2>1. CASE k \in h.valsBad
    <3>1. vs = << >>
      BY <1>vs, <2>1 DEF ValuesOf
    <3>2. DOMAIN vs = {}
      BY <3>1
    <3> QED
      BY <3>2
  <2>2. CASE k \notin h.valsBad
    <3>1. vs = h.vals[k]
      BY <1>vs, <2>2 DEF ValuesOf
    <3> QED
      BY <3>1 DEF CacheAssumption
  <2> QED
    BY <2>1, <2>2
<1>2. DOMAIN vs \subseteq Nat
  <2>1. CASE k \in h.valsBad
    BY <1>vs, <2>1 DEF ValuesOf
  <2>2. CASE k \notin h.valsBad
    <3>1. vs = h.vals[k]
      BY <1>vs, <2>2 DEF ValuesOf
    <3>2. vs \in Seq([name : Names, data : Data])
      BY <3>1 DEF IsHive
    <3> QED
      BY <3>2
  <2> QED
    BY <2>1, <2>2
<1>3. N # {} /\ v = vs[CHOOSE x \in N : \A m \in N : x <= m]
  BY <1>vs, <1>N DEF ValueNamed
<1>n. PICK n : n = CHOOSE x \in N : \A m \in N : x <= m
  OBVIOUS
<1>4. n \in N
  <2>1. N \in SUBSET Nat
    BY <1>2, <1>N
  <2> QED
    BY <1>3, <1>n, <2>1, LeastChosen
<1> QED
  BY <1>1, <1>3, <1>4, <1>n, <1>N

\* Of a cache some entries are read, in order, and the offset is where the next
\* one begins; of a blob without a marker nothing is read.
CacheInv ==
  /\ system \in SystemHives
  /\ task = "entries" =>
       /\ format = FormatOf(blob) /\ blob \in Seq(Nat)
       /\ format.layout \notin {"none", "sentinel"}
       /\ \A c \in Caches : BlobOf(c) = blob => \E k \in 0 .. Whole(c) : AreRead(cache, offset, c, k)
       /\ NoMarker(blob) => cache = << >> /\ offset = format.start
  /\ ShimcacheExact

\* Nothing is read at first.
LEMMA CacheStarts == SysInit => CacheInv
BY DEF SysInit, CacheInv, ShimcacheExact

\* The key is opened, and the format is told.
LEMMA CacheOpens ==
  ASSUME ExpansionAssumption, SystemAssumption, CacheAssumption, IsHive(system), CacheInv, OpenCache
  PROVE  CacheInv'
<1>1. /\ system' = system /\ system \in SystemHives
      /\ cacheKey' \in Ids \union {NoKey}
  BY ShimcacheKeyIs DEF OpenCache, CacheInv
<1>b. PICK b : b = blob'
  OBVIOUS
<1>2. b \in Seq(Nat)
  <2>1. PICK v : v = IF cacheKey' = NoKey THEN NoValue ELSE ValueNamed(system, cacheKey', "APPCOMPATCACHE")
    OBVIOUS
  <2>2. b = IF Readable(v) THEN v.data.blob ELSE << >>
    BY <1>b, <2>1 DEF OpenCache
  <2>3. CASE Readable(v)
    <3>1. v # NoValue
      BY <2>3 DEF Readable
    <3>2. PICK k : k = cacheKey'
      OBVIOUS
    <3>3. k \in Ids /\ v = ValueNamed(system, k, "APPCOMPATCACHE")
      BY <1>1, <2>1, <3>1, <3>2
    <3>4. PICK h : h = system
      OBVIOUS
    <3>5. v.data.blob \in Seq(Nat)
      BY <1>1, <3>1, <3>3, <3>4, BlobsAreSequences
    <3> QED
      BY <2>2, <2>3, <3>5
  <2>4. CASE ~Readable(v)
    BY <2>2, <2>4
  <2> QED
    BY <2>3, <2>4
<1>f. PICK f : f = format'
  OBVIOUS
<1>3. /\ f = FormatOf(b)
      /\ offset' = (IF f.layout \in {"none", "sentinel"} THEN Len(b) ELSE f.start)
      /\ cache' = (IF f.layout = "sentinel" THEN <<[path |-> << >>, time |-> NoText]>> ELSE << >>)
      /\ task' = (IF f.layout \in {"none", "sentinel"} THEN "returned" ELSE "entries")
  BY <1>b, <1>f DEF OpenCache
<1>4. ASSUME NEW c \in Caches, BlobOf(c) = b
      PROVE  f.layout \notin {"none", "sentinel"} /\ \E k \in 0 .. Whole(c) : AreRead(cache', offset', c, k)
  <2>1. f = Stream(b, Len(c.format.header), c.format.marker, LayoutFor(c.format.win8))
    BY <1>3, <1>4, FormatTold
  <2>2. f.layout \notin {"none", "sentinel"} /\ f.start = Len(c.format.header)
    BY <2>1 DEF Stream, LayoutFor
  <2>3. PICK g : g = Written(c)
    OBVIOUS
  <2>4. g[0] = c.format.header
    BY <2>3, BlobIs DEF IsWriting
  <2>5. cache' = << >> /\ offset' = Len(g[0])
    BY <1>3, <2>2, <2>4
  <2>6. << >> = [n \in 1 .. 0 |-> Shown(c.entries[n])]
    OBVIOUS
  <2>7. 0 \in 0 .. Whole(c)
    BY WholeIs
  <2>8. AreRead(cache', offset', c, 0)
    BY <2>3, <2>5, <2>6 DEF AreRead
  <2> QED
    BY <2>2, <2>7, <2>8
<1>5. ASSUME NoMarker(b)
      PROVE  \/ b = << >> /\ f.layout = "none"
             \/ /\ b # << >> /\ b[1] \notin Win10HeaderLens \union {WIN8_HEADER_SIG}
                /\ f.layout = "sentinel"
             \/ /\ b # << >> /\ b[1] \in Win10HeaderLens \union {WIN8_HEADER_SIG}
                /\ f.layout \notin {"none", "sentinel"}
  BY <1>2, <1>3, <1>5, MarkerlessFormat
<1>6. CASE f.layout \in {"none", "sentinel"}
  <2>1. task' = "returned"
    BY <1>3, <1>6
  <2>2. ASSUME NEW c \in Caches PROVE BlobOf(c) # b
    BY <1>4, <1>6
  <2>3. ASSUME NoMarker(b), b # << >> => b[1] # WIN8_HEADER_SIG
        PROVE  cache' = IF b = << >> \/ b[1] \in Win10HeaderLens THEN << >>
                        ELSE <<[path |-> << >>, time |-> NoText]>>
    BY <1>3, <1>5, <1>6, <2>3
  <2>4. ShimcacheExact'
    <3>1. \A c \in Caches : CacheBlob[c] # b
      BY <2>2 DEF CacheBlob
    <3> QED
      BY <1>b, <2>3, <3>1 DEF ShimcacheExact, NoMarker
  <2> QED
    BY <1>1, <2>1, <2>4 DEF CacheInv
<1>7. CASE f.layout \notin {"none", "sentinel"}
  <2>1. task' = "entries" /\ cache' = << >> /\ offset' = f.start
    BY <1>3, <1>7
  <2>2. ShimcacheExact'
    BY <2>1 DEF ShimcacheExact
  <2>3. /\ format' = FormatOf(blob') /\ blob' \in Seq(Nat) /\ format'.layout \notin {"none", "sentinel"}
        /\ \A c \in Caches : BlobOf(c) = blob' => \E k \in 0 .. Whole(c) : AreRead(cache', offset', c, k)
        /\ NoMarker(blob') => cache' = << >> /\ offset' = format'.start
    BY <1>2, <1>3, <1>4, <1>7, <1>b, <1>f, <2>1
  <2> QED
    BY <1>1, <2>1, <2>2, <2>3 DEF CacheInv
<1> QED
  BY <1>6, <1>7

\* An entry is found only behind a marker.
LEMMA NothingMarked ==
  ASSUME CacheAssumption, CacheInv, task = "entries", NoMarker(blob)
  PROVE  ~HasEntry /\ cache = << >> /\ blob # << >> /\ blob[1] \in Win10HeaderLens \union {WIN8_HEADER_SIG}
<1>b. PICK b : b = blob
  OBVIOUS
<1>f. PICK f : f = format
  OBVIOUS
<1>1. /\ b \in Seq(Nat) /\ f = FormatOf(b) /\ f.layout \notin {"none", "sentinel"}
      /\ cache = << >> /\ offset = f.start
  BY <1>b, <1>f DEF CacheInv
<1>2. NoMarker(b)
  BY <1>b
<1>3. /\ b # << >> /\ b[1] \in Win10HeaderLens \union {WIN8_HEADER_SIG}
      /\ f.marker = Marker10 /\ f.start \in Nat /\ f.framing \in {2, 3}
  BY <1>1, <1>2, MarkerlessFormat
<1>4. ~HasEntry
  <2>1. SUFFICES ASSUME HasEntry PROVE FALSE
    OBVIOUS
  <2>2. PICK o \in Nat, z \in Nat : o = f.start /\ z = Len(b)
    BY <1>1, <1>3
  <2>3. o + f.framing <= z /\ b[o + 1] = Marker10
    BY <1>1, <1>3, <1>b, <1>f, <2>1, <2>2 DEF HasEntry, BodyStart
  <2>4. o + 1 \in 1 .. z
    BY <1>3, <2>2, <2>3
  <2> QED
    BY <1>2, <2>2, <2>3, <2>4 DEF NoMarker
<1> QED
  BY <1>1, <1>3, <1>4, <1>b

\* The next entry is read.
LEMMA CacheReads ==
  ASSUME CacheAssumption, CacheInv, ReadEntry
  PROVE  CacheInv'
<1>1. /\ task = "entries" /\ task' = task /\ HasEntry /\ system' = system /\ blob' = blob /\ format' = format
      /\ offset' = BodyEnd
  BY DEF ReadEntry, HasEntry
<1>2. /\ system \in SystemHives /\ format = FormatOf(blob) /\ blob \in Seq(Nat)
      /\ format.layout \notin {"none", "sentinel"}
      /\ \A c \in Caches : BlobOf(c) = blob => \E k \in 0 .. Whole(c) : AreRead(cache, offset, c, k)
  BY <1>1 DEF CacheInv
<1>3. ~NoMarker(blob)
  BY <1>1, NothingMarked
<1>4. ASSUME NEW c \in Caches, BlobOf(c) = blob
      PROVE  \E k \in 0 .. Whole(c) : AreRead(cache', offset', c, k)
  <2>1. PICK k \in 0 .. Whole(c) : AreRead(cache, offset, c, k)
    BY <1>2, <1>4
  <2>2. /\ k < Whole(c) /\ format.layout # "legacy"
        /\ DecodedStreamBody(SubSeq(blob, BodyStart + 1, BodyEnd), format.layout) = Shown(c.entries[k + 1])
        /\ BodyEnd = Len(Written(c)[k + 1])
    BY <1>1, <1>2, <1>4, <2>1, NextFound
  <2>3. cache' = Append(cache, Shown(c.entries[k + 1]))
    BY <2>2 DEF ReadEntry
  <2>4. k \in Nat /\ k + 1 \in 0 .. Whole(c)
    BY <2>2, WholeIs
  <2>5. cache' = [n \in 1 .. k + 1 |-> Shown(c.entries[n])]
    <3>1. PICK s : s = [n \in 1 .. k |-> Shown(c.entries[n])]
      OBVIOUS
    <3>2. cache = s
      BY <2>1, <3>1 DEF AreRead
    <3>3. PICK S : S = {Shown(c.entries[n]) : n \in 1 .. k + 1}
      OBVIOUS
    <3>4. PICK x \in S : x = Shown(c.entries[k + 1])
      BY <2>4, <3>3
    <3>5. s \in Seq(S) /\ Len(s) = k /\ \A n \in 1 .. k : s[n] = Shown(c.entries[n])
      BY <2>4, <3>1, <3>3
    <3>6. PICK r : r = Append(s, x)
      OBVIOUS
    <3>7. r \in Seq(S) /\ Len(r) = k + 1 /\ r[k + 1] = x /\ \A n \in 1 .. k : r[n] = s[n]
      BY <3>5, <3>6
    <3>8. \A n \in 1 .. k + 1 : r[n] = Shown(c.entries[n])
      <4>1. \A n \in 1 .. k + 1 : n \in 1 .. k \/ n = k + 1
        BY <2>4
      <4> QED
        BY <3>4, <3>5, <3>7, <4>1
    <3>9. r = [n \in 1 .. k + 1 |-> r[n]]
      BY <2>4, <3>7
    <3> QED
      BY <2>3, <3>2, <3>4, <3>6, <3>8, <3>9
  <2>6. AreRead(cache', offset', c, k + 1)
    BY <1>1, <2>2, <2>5 DEF AreRead
  <2> QED
    BY <2>4, <2>6
<1>5. ShimcacheExact'
  BY <1>1 DEF ShimcacheExact
<1> QED
  BY <1>1, <1>2, <1>3, <1>4, <1>5 DEF CacheInv

\* No entry follows: all that are whole are read.
LEMMA CacheEnds ==
  ASSUME CacheAssumption, CacheInv, EndCache
  PROVE  CacheInv'
<1>1. /\ task = "entries" /\ task' = "returned" /\ ~HasEntry
      /\ system' = system /\ blob' = blob /\ cache' = cache
  BY DEF EndCache
<1>2. /\ system \in SystemHives /\ format = FormatOf(blob)
      /\ \A c \in Caches : BlobOf(c) = blob => \E k \in 0 .. Whole(c) : AreRead(cache, offset, c, k)
  BY <1>1 DEF CacheInv
<1>3. ASSUME NEW c \in Caches, CacheBlob[c] = blob
      PROVE  cache = [n \in 1 .. Whole(c) |-> Shown(c.entries[n])]
  <2>1. BlobOf(c) = blob
    BY <1>3 DEF CacheBlob
  <2>2. PICK k \in 0 .. Whole(c) : AreRead(cache, offset, c, k)
    BY <1>2, <2>1
  <2>3. ~(k < Whole(c))
    BY <1>1, <1>2, <2>1, <2>2, NextFound
  <2>4. k = Whole(c)
    BY <2>3, WholeIs
  <2> QED
    BY <2>2, <2>4 DEF AreRead
<1>4. ASSUME NoMarker(blob)
      PROVE  cache = << >> /\ blob[1] \in Win10HeaderLens \union {WIN8_HEADER_SIG}
  BY <1>1, <1>4, NothingMarked
<1>5. ShimcacheExact'
  BY <1>1, <1>3, <1>4 DEF ShimcacheExact, NoMarker
<1> QED
  BY <1>1, <1>2, <1>5 DEF CacheInv

\* The other steps read nothing of the cache.
LEMMA CacheStays ==
  ASSUME CacheInv, OpenServices \/ ClassifyNext \/ EndServices \/ UNCHANGED sysVars
  PROVE  CacheInv'
<1>1. CASE task' \in {"classify", "cache"} /\ system' = system
  BY <1>1 DEF CacheInv, ShimcacheExact
<1>2. CASE UNCHANGED sysVars
  <2>1. /\ system' = system /\ task' = task /\ blob' = blob /\ format' = format
        /\ offset' = offset /\ cache' = cache
    BY <1>2 DEF sysVars
  <2>2. ShimcacheExact' = ShimcacheExact
    BY <2>1 DEF ShimcacheExact
  <2> QED
    BY <2>1, <2>2 DEF CacheInv
<1>3. CASE OpenServices \/ ClassifyNext \/ EndServices
  <2>1. task' \in {"classify", "cache"} /\ system' = system
    BY <1>3 DEF OpenServices, ClassifyNext, EndServices
  <2> QED
    BY <1>1, <2>1
<1> QED
  BY <1>2, <1>3

\* Every step keeps what is read of the cache right.
LEMMA CacheStep == KeysInv /\ CacheInv /\ [SysNext]_sysVars => CacheInv'
<1> SUFFICES ASSUME KeysInv, CacheInv, [SysNext]_sysVars PROVE CacheInv'
  OBVIOUS
<1>1. CASE OpenServices \/ ClassifyNext \/ EndServices \/ UNCHANGED sysVars
  BY <1>1, CacheStays
<1>2. CASE OpenCache
  BY <1>2, ExpansionAssumption, SystemAssumption, CacheAssumption, CacheOpens DEF KeysInv
<1>3. CASE ReadEntry
  BY <1>3, CacheAssumption, CacheReads
<1>4. CASE EndCache
  BY <1>4, CacheAssumption, CacheEnds
<1> QED
  BY <1>1, <1>2, <1>3, <1>4 DEF SysNext

\* The shimcache decoder gives the entries that were written and that are
\* whole, in order, for every cache of each of the formats and wherever it is
\* cut off, and the sentinel for a blob without a marker and a known header.
THEOREM ShimcacheCorrect == SysSpec => []ShimcacheExact
<1>1. KeysInv /\ CacheInv /\ [SysNext]_sysVars => (KeysInv /\ CacheInv)'
  BY KeysStep, CacheStep
<1>2. SysInit => KeysInv /\ CacheInv
  BY SystemStands, CacheStarts
<1>3. CacheInv => ShimcacheExact
  BY DEF CacheInv
<1> QED
  BY <1>1, <1>2, <1>3, PTL DEF SysSpec
=============================================================================
