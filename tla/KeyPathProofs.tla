---------------------------- MODULE KeyPathProofs ----------------------------
(***************************************************************************)
(* Proofs about KeyPath for hives of every size and shape, cyclic ones     *)
(* included: types, and that the path of a key leads back to it. About     *)
(* HiveBuilder: the bin it writes is cells from end to end.                *)
(***************************************************************************)
EXTENDS KeyPath, HiveBuilder, DataLemmas

\* What a cell with a key holds.
LEMMA KeyCell ==
  ASSUME NEW h, IsHive(h), NEW o \in Offsets, h[o].tag = "nk"
  PROVE  /\ h[o].root \in BOOLEAN /\ h[o].ok \in BOOLEAN
         /\ h[o].name \in Seq(Components)
         /\ h[o].parent \in Offsets \union {NULL}
         /\ h[o].kids \in Seq(Offsets)
         /\ \A n \in 1 .. Len(h[o].kids) : h[o].kids[n] \in Offsets /\ h[h[o].kids[n]].tag = "nk"
  <1>1. h[o] \in Cells /\ h[o] \notin [tag : {"other", "bad"}]
    BY DEF IsHive
  <1>2. h[o] \in [tag : {"nk"}, root : BOOLEAN, name : Seq(Components),
                  parent : Offsets \union {NULL}, ok : BOOLEAN, kids : Seq(Offsets)]
    BY <1>1 DEF Cells
  <1>3. h[o].kids \in Seq(Offsets)
    BY <1>2
  <1>. QED
    BY <1>2, <1>3 DEF IsHive

\* The least member of a set of positions.
LEMMA FirstIsLeast ==
  ASSUME NEW T \in SUBSET Nat, T # {}
  PROVE  First(T) \in T /\ \A m \in T : First(T) <= m
  BY LeastElement DEF First

\* A lookup gives a subkey or nothing.
LEMMA SubkeyFound ==
  ASSUME PathAssumption, NEW c, IsHive(hive), NEW o \in Offsets, hive[o].tag = "nk"
  PROVE  /\ Subkey(o, c) \in Offsets \union {NULL}
         /\ Subkey(o, c) # NULL => hive[Subkey(o, c)].tag = "nk"
  <1>1. Matches(o, c) \in SUBSET (1 .. Len(hive[o].kids))
    BY KeyCell DEF Matches
  <1>2. CASE Matches(o, c) = {}
    BY <1>2 DEF Subkey
  <1>3. CASE Matches(o, c) # {}
    <2>1. First(Matches(o, c)) \in 1 .. Len(hive[o].kids)
      BY <1>1, <1>3, FirstIsLeast
    <2>. QED
      BY <1>3, <2>1, KeyCell DEF Subkey
  <1>. QED
    BY <1>2, <1>3

\* The string of a path is one of components.
LEMMA PathOfComponents ==
  ASSUME names \in Seq(Seq(Components))
  PROVE  Path \in Seq(Components)
  <1>1. Reverse(names) \in Seq(Seq(Components))
    BY DEF Reverse
  <1>2. PICK f : IsFlattening(f, Reverse(names), Components)
    BY <1>1, FlatteningExists
  <1>. QED
    BY <1>1, <1>2, FlattenIs DEF Path

\* open_key stands on a key when it looks for the next one.
CurrentIsKey == pc = "descend" => current \in Keys

\* The invariant of both calls.
LEMMA Typed == Spec => [](TypeOK /\ CurrentIsKey)
  <1>. USE PathAssumption
  <1>1. Init => TypeOK /\ CurrentIsKey
    BY DEF Init, TypeOK, CurrentIsKey
  <1>2. TypeOK /\ CurrentIsKey /\ [Next]_vars => TypeOK' /\ CurrentIsKey'
    <2>. SUFFICES ASSUME TypeOK, CurrentIsKey, [Next]_vars
                  PROVE  TypeOK' /\ CurrentIsKey'
      OBVIOUS
    <2>1. IsHive(hive)
      BY DEF TypeOK
    <2>2. ASSUME NEW k \in Keys, CallPath(k) PROVE TypeOK' /\ CurrentIsKey'
      <3>1. k \in Offsets /\ hive[k].name \in Seq(Components)
            /\ hive[k].parent \in Offsets \union {NULL}
        BY <2>1, KeyCell DEF Keys
      <3>. QED
        BY <2>2, <3>1 DEF CallPath, TypeOK, CurrentIsKey, IsHive
    <2>3. CASE ClimbParent
      <3>1. parent \in Offsets /\ hive[parent].tag = "nk" /\ hops + 1 \in 0 .. MaxHops
        BY <2>3 DEF ClimbParent, AtTop, TypeOK
      <3>2. names' \in Seq(Seq(Components)) /\ parent' \in Offsets \union {NULL}
        BY <2>1, <2>3, <3>1, KeyCell DEF ClimbParent, TypeOK
      <3>. QED
        BY <2>3, <3>1, <3>2 DEF ClimbParent, TypeOK, CurrentIsKey, IsHive
    <2>4. CASE ParentUnreadable
      BY <2>4 DEF ParentUnreadable, TypeOK, CurrentIsKey, IsHive
    <2>5. CASE ReturnPath
      BY <2>5 DEF ReturnPath, TypeOK, CurrentIsKey, IsHive
    <2>6. CASE CallOpenKey
      <3>1. Path \in Seq(Components)
        BY PathOfComponents DEF TypeOK
      <3>. QED
        BY <2>6, <3>1 DEF CallOpenKey, TypeOK, CurrentIsKey, IsHive, Keys
    <2>7. CASE RootUnreadable
      BY <2>7 DEF RootUnreadable, TypeOK, CurrentIsKey, IsHive
    <2>8. CASE Descend
      <3>1. pc = "descend" /\ current \in Offsets /\ hive[current].tag = "nk"
        BY <2>8 DEF Descend, CurrentIsKey, Keys
      <3>2. /\ current' \in Offsets \union {NULL}
            /\ current' # NULL => hive[current'].tag = "nk"
        BY <2>1, <2>8, <3>1, SubkeyFound DEF Descend
      <3>3. rest' \in Seq(Components)
        BY <2>8 DEF Descend, TypeOK
      <3>. QED
        BY <2>8, <3>2, <3>3 DEF Descend, TypeOK, CurrentIsKey, IsHive, Keys
    <2>9. CASE SubkeysUnreadable
      BY <2>9 DEF SubkeysUnreadable, TypeOK, CurrentIsKey, IsHive
    <2>10. CASE UNCHANGED vars
      BY <2>10 DEF vars, TypeOK, CurrentIsKey, IsHive, Keys
    <2>. QED
      BY <2>2, <2>3, <2>4, <2>5, <2>6, <2>7, <2>8, <2>9, <2>10 DEF Next
  <1>. QED
    BY <1>1, <1>2, PTL DEF Spec

\* Types of path and open_key, for every hive.
THEOREM PathTypeCorrect == Spec => []TypeOK
  BY Typed, PTL

-----------------------------------------------------------------------------
\* ks are the keys that path has climbed, from the key up.
IsClimb(ks) ==
  /\ ks \in Seq(Offsets) /\ Len(ks) = Len(names) /\ ks # << >>
  /\ ks[1] = key
  /\ \A i \in 1 .. Len(ks) : hive[ks[i]].tag = "nk" /\ names[i] = hive[ks[i]].name
  /\ \A i \in 1 .. Len(ks) - 1 : ks[i + 1] = hive[ks[i]].parent
  /\ parent = hive[ks[Len(ks)]].parent
  /\ \A i \in 2 .. Len(ks) : ~hive[ks[i]].root

\* open_key has come down the same keys: those still to be found are the first
\* Len(rest) of ks, the last of them first.
IsDescent(ks) ==
  /\ Len(rest) \in 0 .. Len(ks)
  /\ current = IF Len(rest) = Len(ks) THEN Root ELSE ks[Len(rest) + 1]
  /\ \A j \in 1 .. Len(rest) : rest[j] = hive[ks[Len(rest) + 1 - j]].name[1]

\* The hives and keys that RoundTrip is about.
Sound == Agrees(hive) /\ key # Root /\ ReachedRoot

ClimbInv == pc \in {"climb", "path", "descend", "opened"} => \E ks : IsClimb(ks)

DescentInv ==
  /\ pc = "descend" /\ Sound => \E ks : IsClimb(ks) /\ IsDescent(ks)
  /\ pc = "opened" /\ Sound => current = key

\* The hives in which both kinds of links agree, key by key.
LEMMA LinksAgree ==
  ASSUME PathAssumption, IsHive(hive), Agrees(hive)
  PROVE  /\ Root \in Offsets /\ hive[Root].tag = "nk" /\ hive[Root].root
         /\ \A o \in Offsets : hive[o].tag = "nk" /\ o # Root =>
              /\ ~hive[o].root /\ Len(hive[o].name) = 1
              /\ hive[o].parent \in Offsets /\ hive[hive[o].parent].tag = "nk"
              /\ \E n \in 1 .. Len(hive[hive[o].parent].kids) :
                   hive[hive[o].parent].kids[n] = o
         /\ \A p \in Offsets : hive[p].tag = "nk" =>
              \A m, n \in 1 .. Len(hive[p].kids) :
                hive[hive[p].kids[m]].name[1].up = hive[hive[p].kids[n]].name[1].up => m = n
  <1>1. Root \in Offsets /\ hive[Root].tag = "nk" /\ hive[Root].root
    BY DEF PathAssumption, Agrees
  <1>2. ASSUME NEW o \in Offsets, hive[o].tag = "nk", o # Root
        PROVE  /\ ~hive[o].root /\ Len(hive[o].name) = 1
               /\ hive[o].parent \in Offsets /\ hive[hive[o].parent].tag = "nk"
               /\ \E n \in 1 .. Len(hive[hive[o].parent].kids) :
                    hive[hive[o].parent].kids[n] = o
    <2>1. /\ ~hive[o].root /\ Len(hive[o].name) = 1
          /\ hive[o].parent \in Offsets /\ hive[hive[o].parent].tag = "nk"
          /\ \E n \in DOMAIN hive[hive[o].parent].kids : hive[hive[o].parent].kids[n] = o
      BY <1>2 DEF Agrees
    <2>2. hive[hive[o].parent].kids \in Seq(Offsets)
      BY <2>1, KeyCell
    <2>. QED
      BY <2>1, <2>2
  <1>3. ASSUME NEW p \in Offsets, hive[p].tag = "nk",
               NEW m \in 1 .. Len(hive[p].kids), NEW n \in 1 .. Len(hive[p].kids),
               hive[hive[p].kids[m]].name[1].up = hive[hive[p].kids[n]].name[1].up
        PROVE  m = n
    <2>0. hive[p].kids \in Seq(Offsets)
      BY <1>3, KeyCell
    <2>1. m \in DOMAIN hive[p].kids /\ n \in DOMAIN hive[p].kids
      BY <1>3, <2>0
    <2>2. p \in {o \in Offsets : hive[o].tag = "nk"}
      BY <1>3
    <2>3. \A q \in {o \in Offsets : hive[o].tag = "nk"} : \A i, j \in DOMAIN hive[q].kids :
            /\ hive[q].kids[i] \in {o \in Offsets : hive[o].tag = "nk"}
            /\ hive[hive[q].kids[i]].name[1].up = hive[hive[q].kids[j]].name[1].up => i = j
      BY Zenon DEF Agrees
    <2>. QED
      BY <1>3, <2>1, <2>2, <2>3
  <1>. QED
    BY <1>1, <1>2, <1>3

\* On the climb to the root of such a hive every key has one name and is a child
\* of the next one, the last of them of the root.
LEMMA ClimbToRoot ==
  ASSUME PathAssumption, TypeOK, Sound, NEW ks, IsClimb(ks)
  PROVE  /\ \A i \in 1 .. Len(ks) : /\ ks[i] \in Offsets /\ ks[i] # Root
                                    /\ hive[ks[i]].tag = "nk"
                                    /\ Len(hive[ks[i]].name) = 1
         /\ \A i \in 1 .. Len(ks) :
              hive[ks[i]].parent = IF i = Len(ks) THEN Root ELSE ks[i + 1]
  <1>1. IsHive(hive) /\ Agrees(hive)
    BY DEF TypeOK, Sound
  <1>2. Len(ks) \in Nat /\ Len(ks) >= 1
    BY EmptySeq DEF IsClimb
  <1>3. ASSUME NEW i \in 1 .. Len(ks)
        PROVE  /\ ks[i] \in Offsets /\ ks[i] # Root /\ hive[ks[i]].tag = "nk"
               /\ Len(hive[ks[i]].name) = 1
    <2>1. ks[i] \in Offsets /\ hive[ks[i]].tag = "nk"
      BY DEF IsClimb
    <2>2. ks[i] # Root
      <3>1. CASE i = 1
        BY <3>1 DEF IsClimb, Sound
      <3>2. CASE i # 1
        <4>1. i \in 2 .. Len(ks)
          BY <3>2
        <4>. QED
          BY <1>1, <4>1, LinksAgree DEF IsClimb
      <3>. QED
        BY <3>1, <3>2
    <2>. QED
      BY <1>1, <2>1, <2>2, LinksAgree
  <1>4. hive[ks[Len(ks)]].parent = Root
    <2>1. parent = hive[ks[Len(ks)]].parent /\ Len(ks) \in 1 .. Len(ks)
      BY <1>2 DEF IsClimb
    <2>2. parent \in Offsets /\ hive[parent].tag = "nk" /\ hive[parent].root
      BY <1>1, <1>3, <2>1, LinksAgree DEF Sound, ReachedRoot
    <2>. QED
      BY <1>1, <2>1, <2>2, LinksAgree
  <1>5. ASSUME NEW i \in 1 .. Len(ks), i # Len(ks)
        PROVE  hive[ks[i]].parent = ks[i + 1]
    <2>1. i \in 1 .. Len(ks) - 1
      BY <1>2, <1>5
    <2>. QED
      BY <2>1 DEF IsClimb
  <1>. QED
    BY <1>3, <1>4, <1>5

\* Where the descent begins: at the root, with all of the path before it.
LEMMA DescentBegins ==
  ASSUME PathAssumption, TypeOK, Sound, NEW ks, IsClimb(ks)
  PROVE  /\ Len(Path) = Len(ks)
         /\ \A j \in 1 .. Len(ks) : Path[j] = hive[ks[Len(ks) + 1 - j]].name[1]
  <1>1. Len(ks) \in Nat
    BY DEF IsClimb
  <1>. SUFFICES ASSUME NEW n \in Nat, n = Len(ks)
                PROVE  /\ Len(Path) = n
                       /\ \A j \in 1 .. n : Path[j] = hive[ks[n + 1 - j]].name[1]
    BY <1>1
  <1>2. /\ names \in Seq(Seq(Components)) /\ Len(names) = n
        /\ \A i \in 1 .. n : names[i] = hive[ks[i]].name /\ Len(names[i]) = 1
    <2>1. names \in Seq(Seq(Components)) /\ Len(names) = n
      BY DEF TypeOK, IsClimb
    <2>2. \A i \in 1 .. n : names[i] = hive[ks[i]].name
      BY DEF IsClimb
    <2>3. \A i \in 1 .. n : Len(hive[ks[i]].name) = 1
      BY ClimbToRoot
    <2>. QED
      BY <2>1, <2>2, <2>3
  <1>. DEFINE rs == Reverse(names)
  <1>3. /\ rs \in Seq(Seq(Components)) /\ Len(rs) = n
        /\ \A i \in 1 .. n : rs[i] = names[n + 1 - i]
    <2>1. rs = [i \in 1 .. n |-> names[n - i + 1]]
      BY <1>2 DEF Reverse
    <2>2. \A i \in 1 .. n : n - i + 1 \in 1 .. n /\ n - i + 1 = n + 1 - i
      OBVIOUS
    <2>3. \A i \in 1 .. n : names[n - i + 1] \in Seq(Components)
      BY <1>2, <2>2
    <2>4. rs \in [1 .. n -> Seq(Components)]
      BY <2>1, <2>3
    <2>. HIDE DEF rs
    <2>. QED
      BY <2>1, <2>2, <2>4
  <1>. HIDE DEF rs
  <1>4. \A i \in 1 .. n : n + 1 - i \in 1 .. n
    OBVIOUS
  <1>5. \A i \in 1 .. Len(rs) : Len(rs[i]) = 1
    <2>. SUFFICES ASSUME NEW i \in 1 .. n PROVE Len(rs[i]) = 1
      BY <1>3
    <2>1. n + 1 - i \in 1 .. n /\ rs[i] = names[n + 1 - i]
      BY <1>3, <1>4
    <2>. QED
      BY <1>2, <2>1
  <1>6. /\ Len(FlattenSeq(rs)) = n
        /\ \A i \in 1 .. n : FlattenSeq(rs)[i] = rs[i][1]
    BY <1>3, <1>5, FlattenSingles
  <1>7. Path = FlattenSeq(rs)
    BY DEF Path, rs
  <1>8. ASSUME NEW j \in 1 .. n PROVE Path[j] = hive[ks[n + 1 - j]].name[1]
    <2>1. n + 1 - j \in 1 .. n
      BY <1>4
    <2>2. rs[j] = names[n + 1 - j]
      BY <1>3
    <2>3. names[n + 1 - j] = hive[ks[n + 1 - j]].name
      BY <1>2, <2>1
    <2>. QED
      BY <1>6, <1>7, <2>2, <2>3
  <1>. QED
    BY <1>6, <1>7, <1>8

\* A step down finds the next key of the climb: it is a child of the key that
\* open_key stands on, and the only one of that name.
LEMMA NextIsFound ==
  ASSUME PathAssumption, TypeOK, Sound, NEW ks, IsClimb(ks), IsDescent(ks), rest # << >>
  PROVE  Subkey(current, Head(rest)) = ks[Len(rest)]
  <1>1. IsHive(hive) /\ Agrees(hive) /\ rest \in Seq(Components)
    BY DEF TypeOK, Sound
  <1>. SUFFICES ASSUME NEW r \in Nat, r = Len(rest)
                PROVE  Subkey(current, Head(rest)) = ks[r]
    BY <1>1
  <1>2. r \in 1 .. Len(ks) /\ Len(ks) \in Nat
    BY <1>1 DEF IsDescent, IsClimb
  <1>. DEFINE k == ks[r]
              kids == hive[current].kids
  <1>3. /\ k \in Offsets /\ k # Root /\ hive[k].tag = "nk" /\ Len(hive[k].name) = 1
        /\ hive[k].parent = current
    BY <1>2, ClimbToRoot DEF IsDescent
  <1>4. Head(rest) = hive[k].name[1]
    <2>1. 1 \in 1 .. Len(rest) /\ Head(rest) = rest[1] /\ r + 1 - 1 = r
      BY <1>1, <1>2
    <2>. QED
      BY <2>1 DEF IsDescent
  <1>. HIDE DEF k
  <1>5. /\ current \in Offsets /\ hive[current].tag = "nk"
        /\ \E n \in 1 .. Len(kids) : kids[n] = k
    BY <1>1, <1>3, LinksAgree
  <1>6. kids \in Seq(Offsets)
    BY <1>1, <1>5, KeyCell
  <1>7. PICK n \in 1 .. Len(kids) : kids[n] = k
    BY <1>5
  <1>8. Matches(current, Head(rest)) = {n}
    <2>1. n \in Matches(current, Head(rest))
      BY <1>3, <1>4, <1>6, <1>7 DEF Matches
    <2>2. ASSUME NEW m \in Matches(current, Head(rest)) PROVE m = n
      <3>1. m \in 1 .. Len(kids) /\ hive[kids[m]].name[1].up = hive[kids[n]].name[1].up
        BY <1>4, <1>6, <1>7 DEF Matches
      <3>. QED
        BY <1>1, <1>5, <3>1, LinksAgree
    <2>. QED
      BY <2>1, <2>2
  <1>9. First({n}) = n
    BY DEF First
  <1>. QED
    BY <1>7, <1>8, <1>9 DEF Subkey, k

\* Each parent that path climbs to continues the climb; open_key leaves it alone.
LEMMA ClimbKept ==
  ASSUME PathAssumption, TypeOK, CurrentIsKey, ClimbInv, [Next]_vars
  PROVE  ClimbInv'
  <1>1. IsHive(hive)
    BY DEF TypeOK
  <1>2. ASSUME NEW k \in Keys, CallPath(k) PROVE ClimbInv'
    <2>. DEFINE ks == <<k>>
    <2>1. k \in Offsets /\ hive[k].tag = "nk"
      BY DEF Keys
    <2>2. ks \in Seq(Offsets) /\ Len(ks) = 1 /\ ks # << >> /\ ks[1] = k
      BY <2>1
    <2>. HIDE DEF ks
    <2>3. /\ hive' = hive /\ key' = k /\ parent' = hive[k].parent
          /\ Len(names') = 1 /\ names'[1] = hive[k].name
      BY <1>2 DEF CallPath
    <2>4. IsClimb(ks)'
      BY <2>1, <2>2, <2>3 DEF IsClimb
    <2>. QED
      BY <2>4 DEF ClimbInv
  <1>3. CASE ClimbParent
    <2>1. PICK ks : IsClimb(ks)
      BY <1>3 DEF ClimbInv, ClimbParent
    <2>2. PICK up : up = Append(ks, parent)
      OBVIOUS
    <2>3. parent \in Offsets /\ hive[parent].tag = "nk" /\ ~hive[parent].root
      BY <1>3 DEF ClimbParent, AtTop, TypeOK
    <2>4. ks \in Seq(Offsets) /\ Len(ks) \in Nat /\ Len(ks) >= 1 /\ Len(names) = Len(ks)
      BY <2>1, EmptySeq DEF IsClimb
    <2>. SUFFICES ASSUME NEW n \in Nat, n = Len(ks) PROVE ClimbInv'
      BY <2>4
    <2>5. /\ up \in Seq(Offsets) /\ Len(up) = n + 1 /\ up # << >>
          /\ \A i \in 1 .. n : up[i] = ks[i]
          /\ up[n + 1] = parent
      BY <2>2, <2>3, <2>4
    <2>6. /\ hive' = hive /\ key' = key /\ parent' = hive[parent].parent
          /\ names' = Append(names, hive[parent].name)
      BY <1>3 DEF ClimbParent
    <2>7. /\ Len(names') = n + 1
          /\ \A i \in 1 .. n : names'[i] = names[i]
          /\ names'[n + 1] = hive[parent].name
      BY <2>4, <2>6 DEF TypeOK
    <2>8. up[1] = key
      BY <2>1, <2>4, <2>5 DEF IsClimb
    <2>9. ASSUME NEW i \in 1 .. n + 1
          PROVE  hive[up[i]].tag = "nk" /\ names'[i] = hive[up[i]].name
      <3>1. CASE i = n + 1
        BY <2>3, <2>5, <2>7, <3>1
      <3>2. CASE i \in 1 .. n
        BY <2>1, <2>5, <2>7, <3>2 DEF IsClimb
      <3>. QED
        BY <3>1, <3>2
    <2>10. ASSUME NEW i \in 1 .. n PROVE up[i + 1] = hive[up[i]].parent
      <3>1. CASE i = n
        BY <2>1, <2>5, <3>1 DEF IsClimb
      <3>2. CASE i # n
        <4>1. i \in 1 .. n - 1 /\ i + 1 \in 1 .. n
          BY <3>2
        <4>. QED
          BY <2>1, <2>5, <4>1 DEF IsClimb
      <3>. QED
        BY <3>1, <3>2
    <2>11. ASSUME NEW i \in 2 .. n + 1 PROVE ~hive[up[i]].root
      <3>1. CASE i = n + 1
        BY <2>3, <2>5, <3>1
      <3>2. CASE i # n + 1
        <4>1. i \in 2 .. n /\ i \in 1 .. n
          BY <3>2
        <4>. QED
          BY <2>1, <2>5, <4>1 DEF IsClimb
      <3>. QED
        BY <3>1, <3>2
    <2>12. /\ up \in Seq(Offsets) /\ Len(up) = Len(names') /\ up # << >>
           /\ up[1] = key'
           /\ \A i \in 1 .. Len(up) : hive'[up[i]].tag = "nk" /\ names'[i] = hive'[up[i]].name
           /\ \A i \in 1 .. Len(up) - 1 : up[i + 1] = hive'[up[i]].parent
           /\ parent' = hive'[up[Len(up)]].parent
           /\ \A i \in 2 .. Len(up) : ~hive'[up[i]].root
      <3>1. n + 1 - 1 = n
        OBVIOUS
      <3>. QED
        BY <2>5, <2>6, <2>7, <2>8, <2>9, <2>10, <2>11, <3>1
    <2>13. IsClimb(up)'
      BY <2>12 DEF IsClimb
    <2>. QED
      BY <2>13 DEF ClimbInv
  <1>4. CASE UNCHANGED <<hive, key, names, parent>> /\ (pc' = "failed" \/ pc # "idle")
    <2>1. CASE pc' \notin {"climb", "path", "descend", "opened"}
      BY <2>1 DEF ClimbInv
    <2>2. CASE pc' \in {"climb", "path", "descend", "opened"}
      <3>1. pc \in {"climb", "path", "descend", "opened", "failed"}
        BY <1>4, <2>2 DEF TypeOK
      <3>2. pc # "failed"
        BY <2>2, <1>4 DEF Next, CallPath, ClimbParent, ParentUnreadable, ReturnPath,
           CallOpenKey, RootUnreadable, Descend, SubkeysUnreadable, vars
      <3>3. PICK ks : IsClimb(ks)
        BY <3>1, <3>2 DEF ClimbInv
      <3>4. IsClimb(ks)'
        BY <1>4, <3>3 DEF IsClimb
      <3>. QED
        BY <3>4 DEF ClimbInv
    <2>. QED
      BY <2>1, <2>2
  <1>5. CASE UNCHANGED vars
    <2>1. CASE pc' \in {"climb", "path", "descend", "opened"}
      <3>1. PICK ks : IsClimb(ks)
        BY <1>5, <2>1 DEF ClimbInv, vars
      <3>2. IsClimb(ks)'
        BY <1>5, <3>1 DEF IsClimb, vars
      <3>. QED
        BY <3>2 DEF ClimbInv
    <2>. QED
      BY <2>1 DEF ClimbInv
  <1>6. ParentUnreadable \/ ReturnPath \/ CallOpenKey \/ RootUnreadable
          \/ Descend \/ SubkeysUnreadable
          => UNCHANGED <<hive, key, names, parent>> /\ (pc' = "failed" \/ pc # "idle")
    BY DEF ParentUnreadable, ReturnPath, CallOpenKey, RootUnreadable, Descend,
       SubkeysUnreadable
  <1>. QED
    BY <1>2, <1>3, <1>4, <1>5, <1>6 DEF Next

\* Each key that open_key finds is the next one of the climb.
LEMMA DescentKept ==
  ASSUME PathAssumption, TypeOK, CurrentIsKey, ClimbInv, DescentInv, [Next]_vars
  PROVE  DescentInv'
  <1>1. ASSUME NEW k \in Keys, CallPath(k) PROVE DescentInv'
    BY <1>1 DEF CallPath, DescentInv
  <1>2. CASE ClimbParent \/ ParentUnreadable \/ ReturnPath \/ RootUnreadable
             \/ SubkeysUnreadable
    BY <1>2 DEF ClimbParent, ParentUnreadable, ReturnPath, RootUnreadable,
       SubkeysUnreadable, DescentInv
  <1>3. ASSUME CallOpenKey, Sound' PROVE pc' = "descend" /\ \E ks : (IsClimb(ks) /\ IsDescent(ks))'
    <2>1. Sound
      BY <1>3 DEF CallOpenKey, Sound, ReachedRoot
    <2>2. PICK ks : IsClimb(ks)
      BY <1>3 DEF ClimbInv, CallOpenKey
    <2>3. /\ Len(Path) = Len(ks)
          /\ \A j \in 1 .. Len(ks) : Path[j] = hive[ks[Len(ks) + 1 - j]].name[1]
      BY <2>1, <2>2, DescentBegins
    <2>4. Len(ks) \in Nat /\ Len(ks) >= 1 /\ Path \in Seq(Components)
      BY <2>2, EmptySeq, PathOfComponents DEF IsClimb, TypeOK
    <2>5. Path # << >>
      BY <2>3, <2>4
    <2>6. rest' = Path /\ current' = Root /\ pc' = "descend"
          /\ UNCHANGED <<hive, key, names, parent>>
      BY <1>3, <2>5 DEF CallOpenKey
    <2>7. IsClimb(ks)'
      BY <2>2, <2>6 DEF IsClimb
    <2>8. IsDescent(ks)'
      BY <2>3, <2>4, <2>6 DEF IsDescent
    <2>. QED
      BY <2>6, <2>7, <2>8
  <1>4. CASE CallOpenKey
    <2>1. pc' # "opened" \/ ~Sound'
      BY <1>3, <1>4
    <2>. QED
      BY <1>3, <1>4, <2>1 DEF DescentInv
  <1>5. ASSUME Descend, Sound'
        PROVE  \/ pc' = "descend" /\ \E ks : (IsClimb(ks) /\ IsDescent(ks))'
               \/ pc' = "opened" /\ current' = key'
    <2>1. Sound /\ pc = "descend" /\ rest # << >> /\ UNCHANGED <<hive, key, names, parent>>
      BY <1>5 DEF Descend, Sound, ReachedRoot
    <2>2. PICK ks : IsClimb(ks) /\ IsDescent(ks)
      BY <2>1 DEF DescentInv
    <2>3. Subkey(current, Head(rest)) = ks[Len(rest)]
      BY <2>1, <2>2, NextIsFound
    <2>4. rest \in Seq(Components) /\ ks \in Seq(Offsets) /\ ks[1] = key
      BY <2>2 DEF TypeOK, IsClimb
    <2>. SUFFICES ASSUME NEW r \in Nat, r = Len(rest), NEW n \in Nat, n = Len(ks)
                  PROVE  \/ pc' = "descend" /\ \E us : (IsClimb(us) /\ IsDescent(us))'
                         \/ pc' = "opened" /\ current' = key'
      BY <2>4
    <2>5. r \in 1 .. n
      BY <2>1, <2>2, <2>4, EmptySeq DEF IsDescent
    <2>6. current' = ks[r] /\ current' # NULL
      BY <1>5, <2>3, <2>4, <2>5 DEF Descend, PathAssumption
    <2>7. /\ rest' \in Seq(Components) /\ Len(rest') = r - 1
          /\ \A j \in 1 .. r - 1 : rest'[j] = rest[j + 1]
      BY <1>5, <2>1, <2>4 DEF Descend
    <2>8. IsClimb(ks)'
      BY <2>1, <2>2 DEF IsClimb
    <2>9. IsDescent(ks)'
      <3>1. Len(rest') \in 0 .. n /\ Len(rest') # n /\ Len(rest') + 1 = r
        BY <2>5, <2>7
      <3>2. ASSUME NEW j \in 1 .. r - 1 PROVE rest'[j] = hive'[ks[r - 1 + 1 - j]].name[1]
        <4>1. j + 1 \in 1 .. r /\ r + 1 - (j + 1) = r - 1 + 1 - j
          OBVIOUS
        <4>2. rest[j + 1] = hive[ks[r + 1 - (j + 1)]].name[1]
          BY <2>2, <4>1 DEF IsDescent
        <4>. QED
          BY <2>1, <2>7, <4>1, <4>2
      <3>. QED
        BY <2>6, <2>7, <3>1, <3>2 DEF IsDescent
    <2>10. CASE rest' = << >>
      <3>1. Len(rest') = 0
        BY <2>10
      <3>2. r - 1 = 0
        BY <2>7, <3>1
      <3>3. r = 1
        BY <3>2
      <3>. QED
        BY <1>5, <2>1, <2>4, <2>6, <2>10, <3>3 DEF Descend
    <2>11. CASE rest' # << >>
      BY <1>5, <2>6, <2>8, <2>9, <2>11 DEF Descend
    <2>. QED
      BY <2>10, <2>11
  <1>6. CASE Descend
    BY <1>5, <1>6 DEF DescentInv
  <1>7. CASE UNCHANGED vars
    <2>1. Sound' => Sound
      BY <1>7 DEF vars, Sound, ReachedRoot
    <2>2. ASSUME NEW ks PROVE IsClimb(ks) /\ IsDescent(ks) => (IsClimb(ks) /\ IsDescent(ks))'
      BY <1>7 DEF vars, IsClimb, IsDescent
    <2>3. pc' = pc /\ current' = current /\ key' = key
      BY <1>7 DEF vars
    <2>. QED
      BY <2>1, <2>2, <2>3 DEF DescentInv
  <1>. QED
    BY <1>1, <1>2, <1>4, <1>6, <1>7 DEF Next

\* In every hive whose links agree, opening the path of a key leads to that key.
THEOREM ClimbAndDescendAgree == Spec => []RoundTrip
  <1>1. Init => ClimbInv /\ DescentInv
    BY DEF Init, ClimbInv, DescentInv
  <1>2. PathAssumption /\ TypeOK /\ CurrentIsKey /\ ClimbInv /\ DescentInv /\ [Next]_vars
          => ClimbInv' /\ DescentInv'
    BY ClimbKept, DescentKept
  <1>3. DescentInv => RoundTrip
    BY DEF DescentInv, Sound, RoundTrip
  <1>. QED
    BY PathAssumption, Typed, <1>1, <1>2, <1>3, PTL DEF Spec

-----------------------------------------------------------------------------
(* The bin that the builder of the tests writes.                           *)

IsBody(body) == "size" \in DOMAIN body /\ body.size \in Nat

\* A cell begins and ends at a multiple of 8 and holds its body.
IsCell(c) ==
  /\ c = [offset |-> c.offset, size |-> c.size, body |-> c.body]
  /\ c.offset \in Nat /\ c.offset % 8 = 0
  /\ c.size \in Nat /\ c.size % 8 = 0
  /\ IsBody(c.body) /\ 4 + c.body.size <= c.size

\* Cells from end to end, the last of which ends at pos.
Tiled(cells, pos) ==
  /\ \E S : cells \in Seq(S)
  /\ pos \in Nat /\ pos % 8 = 0
  /\ \A i \in 1 .. Len(cells) :
       /\ IsCell(cells[i])
       /\ cells[i].offset + cells[i].size = IF i = Len(cells) THEN pos ELSE cells[i + 1].offset
  /\ IF cells = << >> THEN pos = 0 ELSE cells[1].offset = 0

IsAlloc(a) == a = [pos |-> a.pos, cells |-> a.cells] /\ Tiled(a.cells, a.pos)

\* Sizes of cells.
LEMMA AlignedTo8 ==
  ASSUME NEW n \in Nat
  PROVE  Align(n, 8) \in Nat /\ Align(n, 8) % 8 = 0 /\ n <= Align(n, 8)
<1>q. PICK q \in Nat : q = (n + 8 - 1) \div 8
  OBVIOUS
<1>1. Align(n, 8) = q * 8 /\ n <= q * 8
  BY <1>q DEF Align
<1>2. (q * 8) % 8 = 0 /\ q * 8 \in Nat
  BY <1>q
<1> QED
  BY <1>1, <1>2

LEMMA SumOf8 ==
  ASSUME NEW m \in Nat, m % 8 = 0, NEW n \in Nat, n % 8 = 0
  PROVE  m + n \in Nat /\ (m + n) % 8 = 0
<1>p. PICK p \in Nat : p = m \div 8
  OBVIOUS
<1>q. PICK q \in Nat : q = n \div 8
  OBVIOUS
<1>1. m = 8 * p /\ n = 8 * q
  BY <1>p, <1>q
<1>2. m + n = 8 * (p + q) /\ (8 * (p + q)) % 8 = 0
  BY <1>1
<1> QED
  BY <1>2

\* One cell more.
LEMMA AllocTiles ==
  ASSUME NEW a, IsAlloc(a), NEW body, IsBody(body)
  PROVE  /\ IsAlloc(Alloc(a, body))
         /\ Len(Alloc(a, body).cells) = Len(a.cells) + 1 /\ Len(a.cells) \in Nat
<1>s. PICK s : s = Align(4 + body.size, 8)
  OBVIOUS
<1>1. s \in Nat /\ s % 8 = 0 /\ 4 + body.size <= s
  BY <1>s, AlignedTo8 DEF IsBody
<1>cs. PICK cs : cs = a.cells
  OBVIOUS
<1>pos. PICK pos : pos = a.pos
  OBVIOUS
<1>c. PICK c : c = [offset |-> pos, size |-> s, body |-> body]
  OBVIOUS
<1>2. /\ pos \in Nat /\ pos % 8 = 0
      /\ \A i \in 1 .. Len(cs) :
           /\ IsCell(cs[i])
           /\ cs[i].offset + cs[i].size = IF i = Len(cs) THEN pos ELSE cs[i + 1].offset
      /\ IF cs = << >> THEN pos = 0 ELSE cs[1].offset = 0
  BY <1>cs, <1>pos DEF IsAlloc, Tiled
<1>3. PICK S : cs \in Seq(S)
  BY <1>cs DEF IsAlloc, Tiled
<1>T. PICK T : T = S \union {c}
  OBVIOUS
<1>4. cs \in Seq(T) /\ c \in T /\ Len(cs) \in Nat
  BY <1>3, <1>T, SeqMonotonic
<1>n. PICK n \in Nat : n = Len(cs)
  BY <1>4
<1>ds. PICK ds : ds = Append(cs, c)
  OBVIOUS
<1>5. ds \in Seq(T) /\ Len(ds) = n + 1 /\ ds # << >>
  BY <1>4, <1>n, <1>ds
<1>6. (\A i \in 1 .. n : ds[i] = cs[i]) /\ ds[n + 1] = c
  BY <1>4, <1>n, <1>ds
<1>7. IsCell(c)
  BY <1>1, <1>2, <1>c DEF IsCell
<1>8. pos + s \in Nat /\ (pos + s) % 8 = 0
  BY <1>1, <1>2, SumOf8
<1>9. ASSUME NEW i \in 1 .. n + 1
      PROVE  IsCell(ds[i]) /\ ds[i].offset + ds[i].size = IF i = n + 1 THEN pos + s ELSE ds[i + 1].offset
  <2>1. CASE i = n + 1
    BY <1>6, <1>7, <1>c, <2>1
  <2>2. CASE i \in 1 .. n /\ i = n
    BY <1>2, <1>6, <1>c, <1>n, <2>2
  <2>3. CASE i \in 1 .. n /\ i # n
    <3>1. i + 1 \in 1 .. n /\ i # n + 1
      BY <1>n, <2>3
    <3> QED
      BY <1>2, <1>6, <1>n, <2>3, <3>1
  <2> QED
    BY <1>n, <2>1, <2>2, <2>3
<1>10. ds[1].offset = 0
  <2>1. CASE cs = << >>
    BY <1>2, <1>6, <1>c, <1>n, <2>1
  <2>2. CASE cs # << >>
    <3>1. 1 \in 1 .. n
      BY <1>4, <1>n, <2>2
    <3> QED
      BY <1>2, <1>6, <2>2, <3>1
  <2> QED
    BY <2>1, <2>2
<1>11. Tiled(ds, pos + s)
  BY <1>5, <1>8, <1>9, <1>10, <1>n DEF Tiled
<1>12. Alloc(a, body) = [pos |-> pos + s, cells |-> ds]
  BY <1>s, <1>cs, <1>pos, <1>c, <1>ds DEF Alloc
<1> QED
  BY <1>cs, <1>n, <1>5, <1>11, <1>12 DEF IsAlloc

\* What AllocAll has done after each body.
AreAllocs(f, a, bodies) ==
  /\ DOMAIN f = 0 .. Len(bodies) /\ f[0] = a
  /\ \A n \in 1 .. Len(bodies) : f[n] = Alloc(f[n - 1], bodies[n])

LEMMA AllocsExist ==
  ASSUME NEW a, NEW bodies, Len(bodies) \in Nat
  PROVE  \E f : AreAllocs(f, a, bodies) /\ AllocAll(a, bodies) = f[Len(bodies)]
<1>len. PICK len \in Nat : len = Len(bodies)
  OBVIOUS
<1> DEFINE Does(f, m) == /\ f[0] = a /\ DOMAIN f = 0 .. m
                         /\ \A n \in 1 .. m : f[n] = Alloc(f[n - 1], bodies[n])
           T == {m \in Nat : \E f : Does(f, m)}
<1>1. 0 \in T
  <2>1. Does([n \in 0 .. 0 |-> a], 0)
    OBVIOUS
  <2> QED
    BY <2>1
<1>2. ASSUME NEW m \in 0 .. len - 1, m \in T PROVE m + 1 \in T
  <2>1. PICK f : Does(f, m)
    BY <1>2
  <2>2. m \in Nat
    BY <1>len, <1>2
  <2>g. PICK g : g = [n \in 0 .. m + 1 |-> IF n = m + 1 THEN Alloc(f[m], bodies[m + 1]) ELSE f[n]]
    OBVIOUS
  <2>3. DOMAIN g = 0 .. m + 1 /\ g[m + 1] = Alloc(f[m], bodies[m + 1]) /\ \A n \in 0 .. m : g[n] = f[n]
    BY <2>2, <2>g
  <2>4. ASSUME NEW n \in 1 .. m + 1 PROVE g[n] = Alloc(g[n - 1], bodies[n])
    <3>1. CASE n = m + 1
      <4>1. n - 1 = m /\ m \in 0 .. m
        BY <2>2, <3>1
      <4> QED
        BY <2>3, <3>1, <4>1
    <3>2. CASE n \in 1 .. m
      <4>1. n - 1 \in 0 .. m /\ n \in 0 .. m
        BY <2>2, <3>2
      <4> QED
        BY <2>1, <2>3, <3>2, <4>1
    <3> QED
      BY <2>2, <3>1, <3>2
  <2>5. Does(g, m + 1)
    BY <2>1, <2>2, <2>3, <2>4
  <2> QED
    BY <2>2, <2>5
<1> HIDE DEF T
<1>3. len \in T
  <2>1. \A m \in 0 .. len : m \in T
    BY <1>1, <1>2, UpTo
  <2> QED
    BY <1>len, <2>1
<1>4. PICK f : Does(f, len)
  BY <1>3 DEF T
<1>5. f = [n \in 0 .. len |-> IF n = 0 THEN a ELSE Alloc(f[n - 1], bodies[n])]
  <2>1. \A n \in 0 .. len : f[n] = IF n = 0 THEN a ELSE Alloc(f[n - 1], bodies[n])
    BY <1>len, <1>4
  <2>2. f = [n \in 0 .. len |-> f[n]]
    BY <1>4
  <2> QED
    BY <2>1, <2>2
<1>g. PICK g : g = CHOOSE w : w = [n \in 0 .. len |-> IF n = 0 THEN a ELSE Alloc(w[n - 1], bodies[n])]
  OBVIOUS
<1>6. g = [n \in 0 .. len |-> IF n = 0 THEN a ELSE Alloc(g[n - 1], bodies[n])]
  BY <1>5, <1>g
<1>7. DOMAIN g = 0 .. len /\ g[0] = a /\ \A n \in 1 .. len : g[n] = Alloc(g[n - 1], bodies[n])
  <2>1. 0 \in 0 .. len /\ \A n \in 1 .. len : n \in 0 .. len /\ n # 0
    BY <1>len
  <2> QED
    BY <1>6, <2>1
<1>8. AllocAll(a, bodies) = g[len]
  BY <1>g, <1>len DEF AllocAll
<1> QED
  BY <1>len, <1>7, <1>8 DEF AreAllocs

\* One cell for each body.
LEMMA AllocAllTiles ==
  ASSUME NEW a, IsAlloc(a), NEW bodies, Len(bodies) \in Nat, \A n \in 1 .. Len(bodies) : IsBody(bodies[n])
  PROVE  IsAlloc(AllocAll(a, bodies))
<1>1. PICK f : AreAllocs(f, a, bodies) /\ AllocAll(a, bodies) = f[Len(bodies)]
  BY AllocsExist
<1>len. PICK len \in Nat : len = Len(bodies)
  OBVIOUS
<1> DEFINE T == {n \in Nat : IsAlloc(f[n])}
<1>2. 0 \in T
  BY <1>1 DEF AreAllocs
<1>3. ASSUME NEW m \in 0 .. len - 1, m \in T PROVE m + 1 \in T
  <2>1. m + 1 \in 1 .. len /\ (m + 1) - 1 = m /\ m + 1 \in Nat
    BY <1>len
  <2>2. f[m + 1] = Alloc(f[m], bodies[m + 1])
    BY <1>1, <1>len, <2>1 DEF AreAllocs
  <2>3. IsAlloc(f[m]) /\ IsBody(bodies[m + 1])
    BY <1>3, <1>len, <2>1
  <2>4. IsAlloc(f[m + 1])
    BY <2>2, <2>3, AllocTiles
  <2> QED
    BY <2>1, <2>4
<1> HIDE DEF T
<1>4. len \in T
  BY <1>len, <1>2, <1>3, UpTo
<1> QED
  BY <1>1, <1>len, <1>4 DEF T

\* What is left of a sequence of members of S.
LEMMA ThoseLeft ==
  ASSUME NEW S, NEW s \in Seq(S), NEW X
  PROVE  Those(s, X) \in Seq(S)
<1>n. PICK n \in Nat : n = Len(s)
  OBVIOUS
<1>ss. PICK ss : ss = [i \in 1 .. n |-> IF s[i] \in X THEN <<s[i]>> ELSE << >>]
  OBVIOUS
<1>1. DOMAIN s = 1 .. n
  BY <1>n
<1>2. Those(s, X) = FlattenSeq(ss)
  BY <1>ss, <1>1 DEF Those
<1>3. ASSUME NEW i \in 1 .. n PROVE ss[i] \in Seq(S)
  <2>1. s[i] \in S
    BY <1>n
  <2>2. <<s[i]>> \in Seq(S) /\ << >> \in Seq(S)
    BY <2>1
  <2> QED
    BY <1>ss, <2>2
<1>4. DOMAIN ss = 1 .. n /\ ss = [i \in 1 .. n |-> ss[i]]
  BY <1>ss
<1> QED
  BY <1>2, <1>3, <1>4, Flattened

\* Paths without repetitions are still paths.
LEMMA DistinctLeft ==
  ASSUME NEW S, NEW s \in Seq(S)
  PROVE  Distinct(s) \in Seq(S)
<1>n. PICK n \in Nat : n = Len(s)
  OBVIOUS
<1>ss. PICK ss : ss = [i \in 1 .. n |-> IF \E m \in 1 .. i - 1 : s[m] = s[i] THEN << >> ELSE <<s[i]>>]
  OBVIOUS
<1>1. DOMAIN s = 1 .. n
  BY <1>n
<1>2. Distinct(s) = FlattenSeq(ss)
  BY <1>ss, <1>1 DEF Distinct
<1>3. ASSUME NEW i \in 1 .. n PROVE ss[i] \in Seq(S)
  <2>1. s[i] \in S
    BY <1>n
  <2>2. <<s[i]>> \in Seq(S) /\ << >> \in Seq(S)
    BY <2>1
  <2> QED
    BY <1>ss, <2>2
<1>4. DOMAIN ss = 1 .. n /\ ss = [i \in 1 .. n |-> ss[i]]
  BY <1>ss
<1> QED
  BY <1>2, <1>3, <1>4, Flattened

\* The paths of keys other than the root.
KeyPaths == {p \in Seq(DOMAIN NameLen) : p # << >>}

\* The keys on the way to a key, the key itself last.
PrefixesOf(p) == [n \in DOMAIN p |-> SubSeq(p, 1, n)]

LEMMA PrefixesArePaths ==
  ASSUME NEW p, IsPath(p)
  PROVE  PrefixesOf(p) \in Seq(KeyPaths)
<1>D. PICK D : D = DOMAIN NameLen
  OBVIOUS
<1>1. p \in Seq(D)
  BY <1>D DEF IsPath
<1>n. PICK n \in Nat : n = Len(p)
  BY <1>1
<1>2. ASSUME NEW i \in 1 .. n PROVE SubSeq(p, 1, i) \in KeyPaths
  <2>1. SubSeq(p, 1, i) \in Seq(D) /\ Len(SubSeq(p, 1, i)) = i
    BY <1>1, <1>n, SubSeqProperties
  <2>q. PICK q : q = SubSeq(p, 1, i)
    OBVIOUS
  <2>2. q \in Seq(D) /\ q # << >>
    <3>1. Len(q) = i /\ i # 0
      BY <2>1, <2>q
    <3> QED
      BY <2>1, <2>q, <3>1
  <2>3. q \in KeyPaths
    BY <2>2, <1>D DEF KeyPaths
  <2> QED
    BY <2>q, <2>3
<1>3. PrefixesOf(p) = [i \in 1 .. n |-> SubSeq(p, 1, i)]
  BY <1>1, <1>n DEF PrefixesOf
<1>4. PrefixesOf(p) \in [1 .. n -> KeyPaths]
  BY <1>2, <1>3
<1> QED
  BY <1>4, FunctionIsSeq

\* The paths of the tree are paths.
LEMMA PathsOfPlan ==
  ASSUME BuilderAssumption, NEW pl, pl.keys \in Seq(KeyCalls), pl.values \in Seq(ValueCalls)
  PROVE  PathsOf(pl) \in Seq(KeyPaths)
<1>m. PICK m \in Nat : m = Len(pl.keys)
  OBVIOUS
<1>n. PICK n \in Nat : n = Len(pl.values)
  OBVIOUS
<1>ks. PICK ks : ks = [i \in 1 .. m |-> PrefixesOf(pl.keys[i])]
  OBVIOUS
<1>vs. PICK vs : vs = [i \in 1 .. n |-> PrefixesOf(pl.values[i].key)]
  OBVIOUS
<1>1. ASSUME NEW i \in 1 .. m PROVE ks[i] \in Seq(KeyPaths)
  <2>1. pl.keys[i] \in KeyCalls
    BY <1>m
  <2>2. IsPath(pl.keys[i])
    BY <2>1 DEF BuilderAssumption
  <2> QED
    BY <1>ks, <2>2, PrefixesArePaths
<1>2. ASSUME NEW i \in 1 .. n PROVE vs[i] \in Seq(KeyPaths)
  <2>1. pl.values[i] \in ValueCalls
    BY <1>n
  <2>2. IsPath(pl.values[i].key)
    BY <2>1 DEF BuilderAssumption
  <2> QED
    BY <1>vs, <2>2, PrefixesArePaths
<1>3. DOMAIN ks = 1 .. m /\ ks = [i \in 1 .. m |-> ks[i]]
  BY <1>ks
<1>4. DOMAIN vs = 1 .. n /\ vs = [i \in 1 .. n |-> vs[i]]
  BY <1>vs
<1>5. FlattenSeq(ks) \in Seq(KeyPaths)
  BY <1>1, <1>3, Flattened
<1>6. FlattenSeq(vs) \in Seq(KeyPaths)
  BY <1>2, <1>4, Flattened
<1>7. FlattenSeq(ks) \o FlattenSeq(vs) \in Seq(KeyPaths)
  BY <1>5, <1>6
<1>8. DOMAIN pl.keys = 1 .. m /\ DOMAIN pl.values = 1 .. n
  BY <1>m, <1>n
<1>9. PathsOf(pl) = Distinct(FlattenSeq(ks) \o FlattenSeq(vs))
  BY <1>8, <1>ks, <1>vs DEF PathsOf, PrefixesOf
<1> QED
  BY <1>7, <1>9, DistinctLeft

\* The parts of a value are bodies.
LEMMA ChunksAreBodies ==
  ASSUME NEW v, v.len \in Nat
  PROVE  Len(Chunks(v)) \in Nat /\ \A n \in 1 .. Len(Chunks(v)) : IsBody(Chunks(v)[n])
<1>len. PICK len \in Nat : len = v.len
  OBVIOUS
<1>q. PICK q \in Nat : q = (len + 16344 - 1) \div 16344
  OBVIOUS
<1>1. (q * 16344) \div 16344 = q /\ (q - 1) * 16344 <= len
  BY <1>q
<1>2. Align(v.len, BIG_DATA_SEGMENT_SIZE) \div BIG_DATA_SEGMENT_SIZE = q
  BY <1>len, <1>q, <1>1 DEF Align, BIG_DATA_SEGMENT_SIZE
<1>cs. PICK cs : cs = Chunks(v)
  OBVIOUS
<1>3. /\ DOMAIN cs = 1 .. q
      /\ cs = [n \in 1 .. q |->
                 DataBody(v, n, IF len - (n - 1) * 16344 < 16344 THEN len - (n - 1) * 16344 ELSE 16344)]
  BY <1>cs, <1>len, <1>2 DEF Chunks, BIG_DATA_SEGMENT_SIZE
<1>4. Len(cs) = q
  BY <1>3
<1>5. ASSUME NEW n \in 1 .. q PROVE IsBody(cs[n])
  <2>1. (n - 1) * 16344 <= len
    BY <1>1
  <2>size. PICK size : size = IF len - (n - 1) * 16344 < 16344 THEN len - (n - 1) * 16344 ELSE 16344
    OBVIOUS
  <2>2. size \in Nat
    BY <2>1, <2>size
  <2>3. cs[n] = DataBody(v, n, size)
    BY <1>3, <2>size
  <2> QED
    BY <2>2, <2>3 DEF DataBody, IsBody
<1> QED
  BY <1>cs, <1>4, <1>5

\* So are the bodies of all other cells.
LEMMA BodiesAreBodies ==
  ASSUME BuilderAssumption
  PROVE  /\ IsBody(Sk)
         /\ \A x \in DOMAIN NameLen, r \in BOOLEAN : IsBody(Nk(x, r))
         /\ \A n \in Nat : IsBody(OffsetsBody(n)) /\ IsBody(Lh(n)) /\ IsBody(Db(n))
         /\ \A v \in ValueCalls : v.len \in Nat /\ IsBody(Vk(v)) /\ IsBody(DataBody(v, 1, v.len))
<1>1. IsBody(Sk)
  BY DEF IsBody, Sk
<1>2. ASSUME NEW x \in DOMAIN NameLen, NEW r \in BOOLEAN PROVE IsBody(Nk(x, r))
  <2>1. NameLen[x] \in Nat
    BY DEF BuilderAssumption
  <2> QED
    BY <2>1 DEF IsBody, Nk
<1>3. ASSUME NEW n \in Nat PROVE IsBody(OffsetsBody(n)) /\ IsBody(Lh(n)) /\ IsBody(Db(n))
  BY DEF IsBody, OffsetsBody, Lh, Db
<1>4. ASSUME NEW v \in ValueCalls PROVE v.len \in Nat /\ IsBody(Vk(v)) /\ IsBody(DataBody(v, 1, v.len))
  <2>1. v.len \in Nat /\ v.name \in DOMAIN NameLen
    BY DEF BuilderAssumption
  <2>2. NameLen[v.name] \in Nat
    BY <2>1 DEF BuilderAssumption
  <2> QED
    BY <2>1, <2>2 DEF IsBody, Vk, DataBody
<1> QED
  BY <1>1, <1>2, <1>3, <1>4

\* The state of the loop over the values of a key.
IsValueLoop(s) ==
  /\ s = [alloc |-> s.alloc, vks |-> s.vks, links |-> s.links, bigLinks |-> s.bigLinks]
  /\ IsAlloc(s.alloc) /\ s.vks \in Seq(Nat)

\* One turn of it.
LEMMA ValueTurn ==
  ASSUME BuilderAssumption, NEW s, IsValueLoop(s), NEW v \in ValueCalls
  PROVE  IsValueLoop(AllocValue(s, v))
<1>1. v.len \in Nat /\ IsBody(Vk(v)) /\ IsBody(DataBody(v, 1, v.len))
  BY BodiesAreBodies
<1>vk. PICK withVk : withVk = Alloc(s.alloc, Vk(v))
  OBVIOUS
<1>2. IsAlloc(s.alloc) /\ s.vks \in Seq(Nat)
  BY DEF IsValueLoop
<1>3. IsAlloc(withVk) /\ LastId(withVk) \in Nat
  BY <1>1, <1>2, <1>vk, AllocTiles DEF LastId
<1>n. PICK n \in Nat : n = Len(Chunks(v))
  BY <1>1, ChunksAreBodies
<1>sg. PICK segs : segs = AllocAll(withVk, Chunks(v))
  OBVIOUS
<1>4. IsAlloc(segs)
  BY <1>1, <1>3, <1>sg, ChunksAreBodies, AllocAllTiles
<1>ls. PICK listed : listed = Alloc(segs, OffsetsBody(n))
  OBVIOUS
<1>5. IsAlloc(listed)
  BY <1>4, <1>ls, AllocTiles, BodiesAreBodies
<1>db. PICK withDb : withDb = Alloc(listed, Db(n))
  OBVIOUS
<1>6. IsAlloc(withDb)
  BY <1>5, <1>db, AllocTiles, BodiesAreBodies
<1>dt. PICK withData : withData = Alloc(withVk, DataBody(v, 1, v.len))
  OBVIOUS
<1>7. IsAlloc(withData)
  BY <1>1, <1>3, <1>dt, AllocTiles
<1>8. Append(s.vks, LastId(withVk)) \in Seq(Nat)
  BY <1>2, <1>3
<1>t. PICK t : t = AllocValue(s, v)
  OBVIOUS
<1>9. /\ t = [alloc |-> t.alloc, vks |-> t.vks, links |-> t.links, bigLinks |-> t.bigLinks]
      /\ t.alloc \in {withDb, withData, withVk}
      /\ t.vks = Append(s.vks, LastId(withVk))
  BY <1>t, <1>vk, <1>n, <1>sg, <1>ls, <1>db, <1>dt DEF AllocValue, IsValueLoop
<1> QED
  BY <1>t, <1>3, <1>6, <1>7, <1>8, <1>9 DEF IsValueLoop

\* The states of that loop.
AreTurns(f, s, vs) ==
  /\ DOMAIN f = 0 .. Len(vs) /\ f[0] = s
  /\ \A n \in 1 .. Len(vs) : f[n] = AllocValue(f[n - 1], vs[n])

LEMMA TurnsExist ==
  ASSUME NEW s, NEW vs, Len(vs) \in Nat
  PROVE  \E f : AreTurns(f, s, vs) /\ AllocEach(s, vs) = f[Len(vs)]
<1>len. PICK len \in Nat : len = Len(vs)
  OBVIOUS
<1> DEFINE Does(f, m) == /\ f[0] = s /\ DOMAIN f = 0 .. m
                         /\ \A n \in 1 .. m : f[n] = AllocValue(f[n - 1], vs[n])
           T == {m \in Nat : \E f : Does(f, m)}
<1>1. 0 \in T
  <2>1. Does([n \in 0 .. 0 |-> s], 0)
    OBVIOUS
  <2> QED
    BY <2>1
<1>2. ASSUME NEW m \in 0 .. len - 1, m \in T PROVE m + 1 \in T
  <2>1. PICK f : Does(f, m)
    BY <1>2
  <2>2. m \in Nat
    BY <1>len, <1>2
  <2>g. PICK g : g = [n \in 0 .. m + 1 |-> IF n = m + 1 THEN AllocValue(f[m], vs[m + 1]) ELSE f[n]]
    OBVIOUS
  <2>3. DOMAIN g = 0 .. m + 1 /\ g[m + 1] = AllocValue(f[m], vs[m + 1]) /\ \A n \in 0 .. m : g[n] = f[n]
    BY <2>2, <2>g
  <2>4. ASSUME NEW n \in 1 .. m + 1 PROVE g[n] = AllocValue(g[n - 1], vs[n])
    <3>1. CASE n = m + 1
      <4>1. n - 1 = m /\ m \in 0 .. m
        BY <2>2, <3>1
      <4> QED
        BY <2>3, <3>1, <4>1
    <3>2. CASE n \in 1 .. m
      <4>1. n - 1 \in 0 .. m /\ n \in 0 .. m
        BY <2>2, <3>2
      <4> QED
        BY <2>1, <2>3, <3>2, <4>1
    <3> QED
      BY <2>2, <3>1, <3>2
  <2>5. Does(g, m + 1)
    BY <2>1, <2>2, <2>3, <2>4
  <2> QED
    BY <2>2, <2>5
<1> HIDE DEF T
<1>3. len \in T
  <2>1. \A m \in 0 .. len : m \in T
    BY <1>1, <1>2, UpTo
  <2> QED
    BY <1>len, <2>1
<1>4. PICK f : Does(f, len)
  BY <1>3 DEF T
<1>5. f = [n \in 0 .. len |-> IF n = 0 THEN s ELSE AllocValue(f[n - 1], vs[n])]
  <2>1. \A n \in 0 .. len : f[n] = IF n = 0 THEN s ELSE AllocValue(f[n - 1], vs[n])
    BY <1>len, <1>4
  <2>2. f = [n \in 0 .. len |-> f[n]]
    BY <1>4
  <2> QED
    BY <2>1, <2>2
<1>g. PICK g : g = CHOOSE w : w = [n \in 0 .. len |-> IF n = 0 THEN s ELSE AllocValue(w[n - 1], vs[n])]
  OBVIOUS
<1>6. g = [n \in 0 .. len |-> IF n = 0 THEN s ELSE AllocValue(g[n - 1], vs[n])]
  BY <1>5, <1>g
<1>7. DOMAIN g = 0 .. len /\ g[0] = s /\ \A n \in 1 .. len : g[n] = AllocValue(g[n - 1], vs[n])
  <2>1. 0 \in 0 .. len /\ \A n \in 1 .. len : n \in 0 .. len /\ n # 0
    BY <1>len
  <2> QED
    BY <1>6, <2>1
<1>8. AllocEach(s, vs) = g[len]
  BY <1>g, <1>len DEF AllocEach
<1> QED
  BY <1>len, <1>7, <1>8 DEF AreTurns

\* All turns of it.
LEMMA ValuesTile ==
  ASSUME BuilderAssumption, NEW s, IsValueLoop(s), NEW vs \in Seq(ValueCalls)
  PROVE  IsValueLoop(AllocEach(s, vs))
<1>len. PICK len \in Nat : len = Len(vs)
  OBVIOUS
<1>1. PICK f : AreTurns(f, s, vs) /\ AllocEach(s, vs) = f[Len(vs)]
  BY <1>len, TurnsExist
<1> DEFINE T == {n \in Nat : IsValueLoop(f[n])}
<1>2. 0 \in T
  BY <1>1 DEF AreTurns
<1>3. ASSUME NEW m \in 0 .. len - 1, m \in T PROVE m + 1 \in T
  <2>1. m + 1 \in 1 .. len /\ (m + 1) - 1 = m /\ m + 1 \in Nat
    BY <1>len
  <2>2. f[m + 1] = AllocValue(f[m], vs[m + 1])
    BY <1>1, <1>len, <2>1 DEF AreTurns
  <2>3. IsValueLoop(f[m]) /\ vs[m + 1] \in ValueCalls
    BY <1>3, <1>len, <2>1
  <2>4. IsValueLoop(f[m + 1])
    BY <2>2, <2>3, ValueTurn
  <2> QED
    BY <2>1, <2>4
<1> HIDE DEF T
<1>4. \A m \in 0 .. len : m \in T
  BY <1>2, <1>3, UpTo
<1>5. len \in 0 .. len
  BY <1>len
<1>6. len \in T
  BY <1>4, <1>5
<1> QED
  BY <1>1, <1>len, <1>6 DEF T

\* Writing a link into a cell leaves it where it is and as long as it is.
Relinked(cells, ds) ==
  /\ ds = [i \in DOMAIN cells |-> ds[i]]
  /\ \A i \in DOMAIN cells :
       /\ ds[i] = [cells[i] EXCEPT !.body = ds[i].body]
       /\ IsBody(cells[i].body) => IsBody(ds[i].body) /\ ds[i].body.size = cells[i].body.size

\* So cells stay from end to end.
LEMMA RelinkedTiles ==
  ASSUME NEW a, IsAlloc(a), NEW b, b = [a EXCEPT !.cells = b.cells], Relinked(a.cells, b.cells)
  PROVE  IsAlloc(b) /\ Len(b.cells) = Len(a.cells)
<1>cs. PICK cs : cs = a.cells
  OBVIOUS
<1>ds. PICK ds : ds = b.cells
  OBVIOUS
<1>pos. PICK pos : pos = a.pos
  OBVIOUS
<1>1. b = [pos |-> pos, cells |-> ds]
  BY <1>ds, <1>pos DEF IsAlloc
<1>2. /\ pos \in Nat /\ pos % 8 = 0
      /\ \A i \in 1 .. Len(cs) :
           /\ IsCell(cs[i])
           /\ cs[i].offset + cs[i].size = IF i = Len(cs) THEN pos ELSE cs[i + 1].offset
      /\ IF cs = << >> THEN pos = 0 ELSE cs[1].offset = 0
  BY <1>cs, <1>pos DEF IsAlloc, Tiled
<1>3. PICK S : cs \in Seq(S)
  BY <1>cs DEF IsAlloc, Tiled
<1>n. PICK n \in Nat : n = Len(cs)
  BY <1>3
<1>4. DOMAIN cs = 1 .. n
  BY <1>3, <1>n
<1>5. /\ ds = [i \in 1 .. n |-> ds[i]]
      /\ \A i \in 1 .. n :
           /\ ds[i] = [cs[i] EXCEPT !.body = ds[i].body]
           /\ IsBody(cs[i].body) => IsBody(ds[i].body) /\ ds[i].body.size = cs[i].body.size
  BY <1>cs, <1>ds, <1>4 DEF Relinked
<1>T. PICK T : T = {ds[i] : i \in 1 .. n}
  OBVIOUS
<1>6. ds \in [1 .. n -> T]
  BY <1>5, <1>T
<1>7. ds \in Seq(T) /\ Len(ds) = n
  BY <1>6, FunctionIsSeq
<1>8. ASSUME NEW i \in 1 .. n
      PROVE  IsCell(ds[i]) /\ ds[i].offset = cs[i].offset /\ ds[i].size = cs[i].size
  <2>1. IsCell(cs[i])
    BY <1>2, <1>n
  <2>2. IsBody(ds[i].body) /\ ds[i].body.size = cs[i].body.size /\ ds[i] = [cs[i] EXCEPT !.body = ds[i].body]
    BY <1>5, <2>1 DEF IsCell
  <2>3. ds[i].offset = cs[i].offset /\ ds[i].size = cs[i].size
    BY <2>1, <2>2 DEF IsCell
  <2>4. ds[i] = [offset |-> ds[i].offset, size |-> ds[i].size, body |-> ds[i].body]
    BY <2>1, <2>2 DEF IsCell
  <2> QED
    BY <2>1, <2>2, <2>3, <2>4 DEF IsCell
<1>9. ASSUME NEW i \in 1 .. n
      PROVE  ds[i].offset + ds[i].size = IF i = n THEN pos ELSE ds[i + 1].offset
  <2>1. CASE i = n
    BY <1>2, <1>8, <1>n, <2>1
  <2>2. CASE i # n
    <3>1. i + 1 \in 1 .. n
      BY <1>n, <2>2
    <3> QED
      BY <1>2, <1>8, <1>n, <2>2, <3>1
  <2> QED
    BY <2>1, <2>2
<1>10. IF ds = << >> THEN pos = 0 ELSE ds[1].offset = 0
  <2>1. CASE n = 0
    <3>1. cs = << >>
      BY <1>3, <1>n, <2>1, EmptySeq
    <3>2. ds = << >>
      BY <1>7, <2>1
    <3> QED
      BY <1>2, <3>1, <3>2
  <2>2. CASE n # 0
    <3>1. 1 \in 1 .. n /\ cs # << >> /\ ds # << >>
      BY <1>7, <1>n, <2>2
    <3> QED
      BY <1>2, <1>8, <3>1
  <2> QED
    BY <2>1, <2>2
<1>11. Tiled(ds, pos)
  BY <1>2, <1>7, <1>8, <1>9, <1>10 DEF Tiled
<1> QED
  BY <1>1, <1>11, <1>cs, <1>ds, <1>n, <1>7 DEF IsAlloc

\* The headers say how long the bin is and what of it is free.
HeadersWritten ==
  LET content == BinHeader + alloc.pos
      size == Align(content, 4096)
  IN  /\ image.size = size
      /\ image.free = IF size - content >= 8 THEN {[offset |-> content, size |-> size - content]} ELSE {}

\* What the builder keeps between its steps: the plan and the paths are typed,
\* the cells laid out so far tile, and are there when links are written.
BuildInv ==
  /\ plan = [keys |-> plan.keys, values |-> plan.values]
  /\ plan.keys \in Seq(KeyCalls) /\ plan.values \in Seq(ValueCalls)
  /\ paths \in Seq(KeyPaths)
  /\ step = "keys" => todo \in Seq(KeyPaths)
  /\ IsAlloc(alloc)
  /\ step \notin {"call", "root"} => alloc.cells # << >>
  /\ step = "built" => HeadersWritten

\* Writing any body of the same size in place of that of one cell.
LEMMA BodyWritten ==
  ASSUME NEW a, IsAlloc(a), a.cells # << >>, NEW i, NEW body,
         IsBody(a.cells[i].body) => IsBody(body) /\ body.size = a.cells[i].body.size,
         NEW d, d = [a EXCEPT !.cells[i].body = body]
  PROVE  IsAlloc(d) /\ d.cells # << >>
<1>cs. PICK cs : cs = a.cells
  OBVIOUS
<1>ds. PICK ds : ds = [cs EXCEPT ![i].body = body]
  OBVIOUS
<1>1. a = [pos |-> a.pos, cells |-> cs]
  BY <1>cs DEF IsAlloc
<1>2. d = [a EXCEPT !.cells = ds] /\ d.cells = ds
  <2>1. d = [a EXCEPT !.cells = ds]
    BY <1>cs, <1>ds
  <2> QED
    BY <1>1, <2>1
<1>3. DOMAIN ds = DOMAIN cs /\ ds = [j \in DOMAIN cs |-> ds[j]]
  BY <1>ds
<1>S. PICK S : cs \in Seq(S)
  BY <1>cs DEF IsAlloc, Tiled
<1>n. PICK n \in Nat : n = Len(cs)
  BY <1>S
<1>4. DOMAIN cs = 1 .. n
  BY <1>S, <1>n
<1>5. ASSUME NEW j \in DOMAIN cs
      PROVE  /\ ds[j] = [cs[j] EXCEPT !.body = ds[j].body]
             /\ IsBody(cs[j].body) => IsBody(ds[j].body) /\ ds[j].body.size = cs[j].body.size
  <2>1. IsCell(cs[j])
    BY <1>cs, <1>n, <1>4 DEF IsAlloc, Tiled
  <2>2. cs[j] = [offset |-> cs[j].offset, size |-> cs[j].size, body |-> cs[j].body]
    BY <2>1 DEF IsCell
  <2>3. CASE j = i
    <3>1. ds[j] = [cs[j] EXCEPT !.body = body] /\ ds[j].body = body
      BY <1>ds, <2>2, <2>3
    <3> QED
      BY <1>cs, <2>3, <3>1
  <2>4. CASE j # i
    <3>1. ds[j] = cs[j]
      BY <1>ds, <2>4
    <3> QED
      BY <2>2, <3>1
  <2> QED
    BY <2>3, <2>4
<1>6. Relinked(a.cells, d.cells)
  BY <1>cs, <1>2, <1>3, <1>5 DEF Relinked
<1>7. d = [a EXCEPT !.cells = d.cells]
  BY <1>2
<1>8. IsAlloc(d) /\ Len(d.cells) = Len(a.cells)
  BY <1>6, <1>7, RelinkedTiles
<1>9. n # 0
  BY <1>cs, <1>S, <1>n, EmptySeq
<1>10. d.cells # << >>
  <2>1. Len(d.cells) # 0
    BY <1>cs, <1>n, <1>8, <1>9
  <2> QED
    BY <2>1, EmptySeq
<1> QED
  BY <1>8, <1>10

\* After an allocation there is a cell.
LEMMA CellsAllocated ==
  ASSUME NEW a, IsAlloc(a), NEW body, IsBody(body)
  PROVE  IsAlloc(Alloc(a, body)) /\ Alloc(a, body).cells # << >>
<1>1. IsAlloc(Alloc(a, body)) /\ Len(Alloc(a, body).cells) = Len(a.cells) + 1 /\ Len(a.cells) \in Nat
  BY AllocTiles
<1>2. Len(Alloc(a, body).cells) # 0
  BY <1>1
<1>3. Len(<< >>) = 0
  OBVIOUS
<1> QED
  BY <1>1, <1>2, <1>3

\* BuildInv of the empty builder, and below of one after each of its steps.
LEMMA BuildBegins ==
  ASSUME BuildInit
  PROVE  BuildInv
<1>1. plan = [keys |-> << >>, values |-> << >>] /\ paths = << >> /\ step = "call"
      /\ alloc = [pos |-> 0, cells |-> << >>]
  BY DEF BuildInit, Unbuilt
<1>2. << >> \in Seq(KeyCalls) /\ << >> \in Seq(ValueCalls) /\ << >> \in Seq(KeyPaths)
  OBVIOUS
<1>3. Tiled(<< >>, 0)
  <2>1. << >> \in Seq({0}) /\ Len(<< >>) = 0
    OBVIOUS
  <2> QED
    BY <2>1 DEF Tiled
<1>4. IsAlloc(alloc)
  BY <1>1, <1>3 DEF IsAlloc
<1> QED
  BY <1>1, <1>2, <1>4 DEF BuildInv

LEMMA ChildrenArePaths ==
  ASSUME paths \in Seq(KeyPaths), NEW p
  PROVE  ChildrenOf(p) \in Seq(KeyPaths) /\ Len(ChildrenOf(p)) \in Nat
<1>1. ChildrenOf(p) \in Seq(KeyPaths)
  BY ThoseLeft DEF ChildrenOf
<1> QED
  BY <1>1

LEMMA CallKept ==
  ASSUME BuildInv, (\E p \in KeyCalls : AddKey(p)) \/ (\E v \in ValueCalls : AddValue(v))
  PROVE  BuildInv'
<1>1. step = "call" /\ UNCHANGED <<step, paths, todo, alloc, image>>
  BY DEF AddKey, AddValue, MayCall
<1>2. /\ plan' = [keys |-> plan'.keys, values |-> plan'.values]
      /\ plan'.keys \in Seq(KeyCalls) /\ plan'.values \in Seq(ValueCalls)
  <2>1. CASE \E p \in KeyCalls : AddKey(p)
    <3>1. PICK p \in KeyCalls : plan' = [plan EXCEPT !.keys = Append(@, p)]
      BY <2>1 DEF AddKey
    <3>2. plan' = [keys |-> Append(plan.keys, p), values |-> plan.values]
      BY <3>1 DEF BuildInv
    <3>3. Append(plan.keys, p) \in Seq(KeyCalls)
      BY DEF BuildInv
    <3> QED
      BY <3>2, <3>3 DEF BuildInv
  <2>2. CASE \E v \in ValueCalls : AddValue(v)
    <3>1. PICK v \in ValueCalls : plan' = [plan EXCEPT !.values = Append(@, v)]
      BY <2>2 DEF AddValue
    <3>2. plan' = [keys |-> plan.keys, values |-> Append(plan.values, v)]
      BY <3>1 DEF BuildInv
    <3>3. Append(plan.values, v) \in Seq(ValueCalls)
      BY DEF BuildInv
    <3> QED
      BY <3>2, <3>3 DEF BuildInv
  <2> QED
    BY <2>1, <2>2
<1>3. paths' = paths /\ step' = "call" /\ alloc' = alloc
  BY <1>1
<1> QED
  BY <1>2, <1>3 DEF BuildInv

\* A step that has left everything typed and alloc in order keeps BuildInv.
LEMMA StepKept ==
  ASSUME BuildInv, plan' = plan, paths' = paths,
         step' # "built", step' = "keys" => todo' \in Seq(KeyPaths),
         IsAlloc(alloc'), alloc'.cells # << >>
  PROVE  BuildInv'
BY DEF BuildInv

LEMMA AllocKept ==
  ASSUME BuilderAssumption, BuildInv,
         AllocRoot \/ AllocKey \/ AllocLh \/ \E n \in DOMAIN plan.values : AllocValues(plan.values[n].key)
  PROVE  BuildInv'
<1>1. IsAlloc(alloc) /\ paths \in Seq(KeyPaths)
  BY DEF BuildInv
<1>2. CASE AllocRoot
  <2>1. IsAlloc(Alloc(alloc, Sk))
    BY <1>1, AllocTiles, BodiesAreBodies
  <2>2. IsBody(Nk(RootName, TRUE))
    BY BodiesAreBodies DEF BuilderAssumption
  <2>3. IsAlloc(alloc') /\ alloc'.cells # << >>
    BY <1>2, <2>1, <2>2, CellsAllocated DEF AllocRoot
  <2>4. todo' \in Seq(KeyPaths)
    BY <1>1, <1>2, ChildrenArePaths DEF AllocRoot
  <2> QED
    BY <1>2, <2>3, <2>4, StepKept DEF AllocRoot
<1>3. CASE AllocKey
  <2>1. todo \in Seq(KeyPaths) /\ todo # << >>
    BY <1>3 DEF AllocKey, BuildInv
  <2>p. PICK p : p = Head(todo)
    OBVIOUS
  <2>2. p \in KeyPaths /\ Tail(todo) \in Seq(KeyPaths)
    BY <2>1, <2>p
  <2>3. p \in Seq(DOMAIN NameLen) /\ p # << >>
    BY <2>2 DEF KeyPaths
  <2>4. Last(p) \in DOMAIN NameLen
    <3>D. PICK D : D = DOMAIN NameLen
      OBVIOUS
    <3>1. p \in Seq(D) /\ p # << >>
      BY <2>3, <3>D
    <3>2. p[Len(p)] \in D
      BY <3>1
    <3> QED
      BY <3>2, <3>D DEF Last
  <2>5. IsBody(Nk(Last(p), FALSE))
    BY <2>4, BodiesAreBodies
  <2>6. IsAlloc(alloc') /\ alloc'.cells # << >>
    BY <1>1, <1>3, <2>p, <2>5, CellsAllocated DEF AllocKey
  <2>7. todo' \in Seq(KeyPaths)
    <3>1. ChildrenOf(p) \in Seq(KeyPaths)
      BY <1>1, ChildrenArePaths
    <3> QED
      BY <1>3, <2>p, <2>2, <3>1 DEF AllocKey
  <2> QED
    BY <1>3, <2>6, <2>7, StepKept DEF AllocKey
<1>4. CASE AllocLh
  <2>1. IsBody(Lh(Len(ChildrenOf(Head(todo)))))
    BY <1>1, ChildrenArePaths, BodiesAreBodies
  <2>2. IsAlloc(alloc') /\ alloc'.cells # << >>
    BY <1>1, <1>4, <2>1, CellsAllocated DEF AllocLh
  <2>3. step' = "lists" /\ plan' = plan /\ paths' = paths
    BY <1>4 DEF AllocLh
  <2> QED
    BY <2>2, <2>3, StepKept
<1>5. ASSUME NEW p, AllocValues(p) PROVE BuildInv'
  <2>vs. PICK vs : vs = ValuesAt(p)
    OBVIOUS
  <2>1. vs \in Seq(ValueCalls)
    BY <2>vs, ThoseLeft DEF ValuesAt, BuildInv
  <2>s. PICK s : s = [alloc |-> alloc, vks |-> << >>, links |-> links, bigLinks |-> bigLinks]
    OBVIOUS
  <2>2. IsValueLoop(s)
    <3>1. << >> \in Seq(Nat)
      OBVIOUS
    <3> QED
      BY <1>1, <2>s, <3>1 DEF IsValueLoop
  <2>d. PICK done : done = AllocEach(s, vs)
    OBVIOUS
  <2>3. IsValueLoop(done)
    BY <2>1, <2>2, <2>d, ValuesTile
  <2>4. IsAlloc(done.alloc) /\ Len(done.vks) \in Nat
    BY <2>3 DEF IsValueLoop
  <2>5. alloc' = Alloc(done.alloc, OffsetsBody(Len(done.vks)))
    BY <1>5, <2>vs, <2>s, <2>d DEF AllocValues
  <2>6. IsAlloc(alloc') /\ alloc'.cells # << >>
    BY <2>4, <2>5, CellsAllocated, BodiesAreBodies
  <2>7. step' = "values" /\ plan' = plan /\ paths' = paths
    BY <1>5 DEF AllocValues
  <2> QED
    BY <2>6, <2>7, StepKept
<1> QED
  BY <1>2, <1>3, <1>4, <1>5

\* What linking does to the body of a key leaves its size.
LinkedTo(b, up, security) == [b EXCEPT !.parent = up, !.security = security]

LEMMA LinkedBody ==
  ASSUME NEW b, IsBody(b), NEW p, NEW up, NEW security, NEW d,
         \/ d = LinkedTo(WithSubkeys(b, p), up, security)
         \/ d = LinkedTo(WithValues(WithSubkeys(b, p), p), up, security)
  PROVE  IsBody(d) /\ d.size = b.size
<1>c. PICK e : e = WithSubkeys(b, p)
  OBVIOUS
<1>1. IsBody(e) /\ e.size = b.size
  BY <1>c DEF WithSubkeys, IsBody
<1>g. PICK g : g = WithValues(e, p)
  OBVIOUS
<1>2. IsBody(g) /\ g.size = b.size
  BY <1>1, <1>g DEF WithValues, IsBody
<1>3. d = LinkedTo(e, up, security) \/ d = LinkedTo(g, up, security)
  BY <1>c, <1>g
<1> QED
  BY <1>1, <1>2, <1>3 DEF IsBody, LinkedTo

LEMMA LinkKept ==
  ASSUME BuildInv, LinkRoot \/ LinkChild \/ FillLh
  PROVE  BuildInv'
<1>1. IsAlloc(alloc) /\ (step \notin {"call", "root"} => alloc.cells # << >>)
  BY DEF BuildInv
<1>2. CASE LinkRoot
  <2>1. alloc.cells # << >>
    BY <1>1, <1>2 DEF LinkRoot
  <2>first. PICK first : first = OffsetOf(1)
    OBVIOUS
  <2>root. PICK root : root = nkIds[<< >>]
    OBVIOUS
  <2>up. PICK up : up = OffsetOf(root)
    OBVIOUS
  <2>a. PICK y : y = [alloc EXCEPT !.cells[1].body =
                        [alloc.cells[1].body EXCEPT !.flink = first, !.blink = first]]
    OBVIOUS
  <2>3. IsAlloc(y) /\ y.cells # << >>
    <3>b. PICK b : b = alloc.cells[1].body
      OBVIOUS
    <3>d. PICK d : d = [b EXCEPT !.flink = first, !.blink = first]
      OBVIOUS
    <3>1. IsBody(b) => IsBody(d) /\ d.size = b.size
      BY <3>d DEF IsBody
    <3> QED
      BY <1>1, <2>1, <2>a, <3>b, <3>d, <3>1, BodyWritten
  <2>c. PICK z : z = [y EXCEPT !.cells[root].body =
                        [WithSubkeys(y.cells[root].body, << >>) EXCEPT !.parent = up, !.security = first]]
    OBVIOUS
  <2>4. IsAlloc(z) /\ z.cells # << >>
    <3>b. PICK b : b = y.cells[root].body
      OBVIOUS
    <3>d. PICK d : d = [WithSubkeys(b, << >>) EXCEPT !.parent = up, !.security = first]
      OBVIOUS
    <3>1. d = LinkedTo(WithSubkeys(b, << >>), up, first)
      BY <3>d DEF LinkedTo
    <3>2. IsBody(b) => IsBody(d) /\ d.size = b.size
      BY <3>1, LinkedBody
    <3> QED
      BY <2>3, <2>c, <3>b, <3>d, <3>2, BodyWritten
  <2>5. alloc' = z
    BY <1>2, <2>first, <2>root, <2>up, <2>a, <2>c DEF LinkRoot
  <2>6. step' = "children" /\ plan' = plan /\ paths' = paths
    BY <1>2 DEF LinkRoot
  <2> QED
    BY <2>4, <2>5, <2>6, StepKept
<1>3. CASE LinkChild
  <2>1. alloc.cells # << >>
    BY <1>1, <1>3 DEF LinkChild
  <2>p. PICK p : p = Head(todo)
    OBVIOUS
  <2>i. PICK i : i = nkIds[p]
    OBVIOUS
  <2>up. PICK up : up = OffsetOf(nkIds[Front(p)])
    OBVIOUS
  <2>first. PICK first : first = OffsetOf(1)
    OBVIOUS
  <2>b. PICK b : b = alloc.cells[i].body
    OBVIOUS
  <2>d. PICK d : d = [WithValues(WithSubkeys(b, p), p) EXCEPT !.parent = up, !.security = first]
    OBVIOUS
  <2>2. IsBody(b) => IsBody(d) /\ d.size = b.size
    <3>1. d = LinkedTo(WithValues(WithSubkeys(b, p), p), up, first)
      BY <2>d DEF LinkedTo
    <3> QED
      BY <3>1, LinkedBody
  <2>3. alloc' = [alloc EXCEPT !.cells[i].body = d]
    BY <1>3, <2>p, <2>i, <2>up, <2>first, <2>b, <2>d DEF LinkChild
  <2>4. IsAlloc(alloc') /\ alloc'.cells # << >>
    BY <1>1, <2>1, <2>2, <2>3, <2>b, BodyWritten
  <2>5. step' = "children" /\ plan' = plan /\ paths' = paths
    BY <1>3 DEF LinkChild
  <2> QED
    BY <2>4, <2>5, StepKept
<1>4. CASE FillLh
  <2>1. alloc.cells # << >>
    BY <1>1, <1>4 DEF FillLh
  <2>i. PICK i : i = lhIds[Head(todo)]
    OBVIOUS
  <2>r. PICK refs : refs = OffsetsOf([n \in DOMAIN ChildrenOf(Head(todo)) |->
                                        nkIds[ChildrenOf(Head(todo))[n]]])
    OBVIOUS
  <2>b. PICK b : b = alloc.cells[i].body
    OBVIOUS
  <2>d. PICK d : d = [b EXCEPT !.refs = refs]
    OBVIOUS
  <2>2. IsBody(b) => IsBody(d) /\ d.size = b.size
    BY <2>d DEF IsBody
  <2>3. alloc' = [alloc EXCEPT !.cells[i].body = d]
    BY <1>4, <2>i, <2>r, <2>b, <2>d DEF FillLh
  <2>4. IsAlloc(alloc') /\ alloc'.cells # << >>
    BY <1>1, <2>1, <2>2, <2>3, <2>b, BodyWritten
  <2>5. step' = "fill" /\ plan' = plan /\ paths' = paths
    BY <1>4 DEF FillLh
  <2> QED
    BY <2>4, <2>5, StepKept
<1> QED
  BY <1>2, <1>3, <1>4

LEMMA FilledBody ==
  ASSUME NEW i, IsBody(alloc.cells[i].body)
  PROVE  IsBody(Filled(i)) /\ Filled(i).size = alloc.cells[i].body.size
<1>b. PICK b : b = alloc.cells[i].body
  OBVIOUS
<1>1. \A x : /\ IsBody([b EXCEPT !.refs = x]) /\ [b EXCEPT !.refs = x].size = b.size
             /\ IsBody([b EXCEPT !.data = x]) /\ [b EXCEPT !.data = x].size = b.size
             /\ IsBody([b EXCEPT !.list = x]) /\ [b EXCEPT !.list = x].size = b.size
             /\ IsBody([b EXCEPT !.resident = x]) /\ [b EXCEPT !.resident = x].size = b.size
  BY <1>b DEF IsBody
<1> QED
  BY <1>b, <1>1 DEF Filled

LEMMA FillKept ==
  ASSUME BuildInv, FillValues
  PROVE  BuildInv'
<1>1. IsAlloc(alloc) /\ alloc.cells # << >>
  BY DEF BuildInv, FillValues
<1>cs. PICK cs : cs = alloc.cells
  OBVIOUS
<1>ds. PICK ds : ds = [i \in DOMAIN cs |-> [cs[i] EXCEPT !.body = Filled(i)]]
  OBVIOUS
<1>2. alloc = [pos |-> alloc.pos, cells |-> cs]
  BY <1>1, <1>cs DEF IsAlloc
<1>3. alloc' = [alloc EXCEPT !.cells = ds]
  BY <1>cs, <1>ds DEF FillValues
<1>4. alloc'.cells = ds
  BY <1>2, <1>3
<1>S. PICK S : cs \in Seq(S)
  BY <1>1, <1>cs DEF IsAlloc, Tiled
<1>n. PICK n \in Nat : n = Len(cs)
  BY <1>S
<1>5. DOMAIN cs = 1 .. n
  BY <1>S, <1>n
<1>6. ASSUME NEW j \in DOMAIN cs
      PROVE  /\ ds[j] = [cs[j] EXCEPT !.body = ds[j].body]
             /\ IsBody(cs[j].body) => IsBody(ds[j].body) /\ ds[j].body.size = cs[j].body.size
  <2>1. IsCell(cs[j])
    BY <1>1, <1>cs, <1>n, <1>5 DEF IsAlloc, Tiled
  <2>2. cs[j] = [offset |-> cs[j].offset, size |-> cs[j].size, body |-> cs[j].body] /\ IsBody(cs[j].body)
    BY <2>1 DEF IsCell
  <2>3. IsBody(Filled(j)) /\ Filled(j).size = cs[j].body.size
    BY <1>cs, <2>2, FilledBody
  <2>4. ds[j] = [cs[j] EXCEPT !.body = Filled(j)]
    BY <1>ds
  <2>5. ds[j].body = Filled(j)
    BY <2>2, <2>4
  <2> QED
    BY <2>3, <2>4, <2>5
<1>7. Relinked(alloc.cells, alloc'.cells)
  BY <1>cs, <1>ds, <1>4, <1>6 DEF Relinked
<1>8. IsAlloc(alloc') /\ Len(alloc'.cells) = Len(alloc.cells)
  BY <1>1, <1>3, <1>4, <1>7, RelinkedTiles
<1>9. n # 0
  BY <1>1, <1>cs, <1>S, <1>n, EmptySeq
<1>10. alloc'.cells # << >>
  <2>1. Len(alloc'.cells) # 0
    BY <1>cs, <1>n, <1>8, <1>9
  <2> QED
    BY <2>1, EmptySeq
<1>11. step' = "headers" /\ plan' = plan /\ paths' = paths
  BY DEF FillValues
<1> QED
  BY <1>8, <1>10, <1>11, StepKept

LEMMA PhaseKept ==
  ASSUME BuilderAssumption, BuildInv,
         BuildTree \/ EndKeys \/ EndValues \/ EndLists \/ EndChildren \/ WriteHeaders
  PROVE  BuildInv'
<1>1. CASE BuildTree
  <2>1. PathsOf(plan) \in Seq(KeyPaths)
    BY PathsOfPlan DEF BuildInv
  <2> QED
    BY <1>1, <2>1 DEF BuildTree, BuildInv
<1>2. CASE EndKeys
  <2>1. alloc' = alloc /\ step' = "values" /\ step = "keys" /\ plan' = plan /\ paths' = paths
    BY <1>2 DEF EndKeys
  <2> QED
    BY <2>1 DEF BuildInv
<1>3. CASE EndValues
  <2>1. alloc' = alloc /\ step' = "lists" /\ step = "values" /\ plan' = plan /\ paths' = paths
    BY <1>3 DEF EndValues
  <2> QED
    BY <2>1 DEF BuildInv
<1>4. CASE EndLists
  <2>1. alloc' = alloc /\ step' = "link" /\ step = "lists" /\ plan' = plan /\ paths' = paths
    BY <1>4 DEF EndLists
  <2> QED
    BY <2>1 DEF BuildInv
<1>5. CASE EndChildren
  <2>1. alloc' = alloc /\ step' = "fill" /\ step = "children" /\ plan' = plan /\ paths' = paths
    BY <1>5 DEF EndChildren
  <2> QED
    BY <2>1 DEF BuildInv
<1>6. CASE WriteHeaders
  <2>1. alloc' = alloc /\ step' = "built" /\ step = "headers" /\ plan' = plan /\ paths' = paths
    BY <1>6 DEF WriteHeaders
  <2>content. PICK content : content = BinHeader + alloc.pos
    OBVIOUS
  <2>size. PICK size : size = Align(content, 4096)
    OBVIOUS
  <2>root. PICK root : root = OffsetOf(nkIds[<< >>])
    OBVIOUS
  <2>2. image' = [root |-> root, size |-> size,
                  free |-> IF size - content >= 8 THEN {[offset |-> content, size |-> size - content]}
                                                  ELSE {}]
    BY <1>6, <2>content, <2>size, <2>root DEF WriteHeaders
  <2>3. HeadersWritten'
    BY <2>1, <2>2, <2>content, <2>size DEF HeadersWritten, Align, BinHeader
  <2> QED
    BY <2>1, <2>3 DEF BuildInv
<1> QED
  BY <1>1, <1>2, <1>3, <1>4, <1>5, <1>6

\* Of a bin that is written, the cells are from end to end.
LEMMA WrittenTiles ==
  ASSUME BuildInv
  PROVE  CellsTile
<1> SUFFICES ASSUME step = "built" PROVE CellsTile
  BY DEF CellsTile
<1>1. IsAlloc(alloc) /\ alloc.cells # << >> /\ HeadersWritten
  BY DEF BuildInv
<1>cs. PICK cs : cs = alloc.cells
  OBVIOUS
<1>pos. PICK pos : pos = alloc.pos
  OBVIOUS
<1>2. /\ pos \in Nat /\ pos % 8 = 0
      /\ \A i \in 1 .. Len(cs) :
           /\ IsCell(cs[i])
           /\ cs[i].offset + cs[i].size = IF i = Len(cs) THEN pos ELSE cs[i + 1].offset
      /\ cs[1].offset = 0
  BY <1>1, <1>cs, <1>pos DEF IsAlloc, Tiled
<1>S. PICK S : cs \in Seq(S)
  BY <1>1, <1>cs DEF IsAlloc, Tiled
<1>n. PICK n \in Nat : n = Len(cs) /\ n # 0
  BY <1>1, <1>cs, <1>S, EmptySeq
<1>3. \A i : OffsetOf(i) = 32 + cs[i].offset
  BY <1>cs DEF OffsetOf, BinHeader
<1>4. OffsetOf(1) = 32
  BY <1>2, <1>3
<1>5. ASSUME NEW i \in 1 .. n
      PROVE  /\ OffsetOf(i) % 8 = 0
             /\ 4 + cs[i].body.size <= cs[i].size
             /\ i < n => OffsetOf(i + 1) = OffsetOf(i) + cs[i].size
             /\ i = n => OffsetOf(i) + cs[i].size = 32 + pos
  <2>1. IsCell(cs[i]) /\ cs[i].offset + cs[i].size = IF i = n THEN pos ELSE cs[i + 1].offset
    BY <1>2, <1>n
  <2>2. cs[i].offset \in Nat /\ cs[i].offset % 8 = 0 /\ cs[i].size \in Nat /\ 4 + cs[i].body.size <= cs[i].size
    BY <2>1 DEF IsCell
  <2>3. (32 + cs[i].offset) % 8 = 0
    BY <2>2, SumOf8
  <2>4. i < n => OffsetOf(i + 1) = OffsetOf(i) + cs[i].size
    <3>1. CASE i < n
      <4>1. cs[i + 1].offset = cs[i].offset + cs[i].size
        BY <2>1, <3>1
      <4>2. 32 + cs[i + 1].offset = (32 + cs[i].offset) + cs[i].size
        BY <2>2, <4>1
      <4> QED
        BY <1>3, <4>2
    <3> QED
      BY <3>1
  <2>5. i = n => OffsetOf(i) + cs[i].size = 32 + pos
    BY <1>3, <2>1, <2>2
  <2> QED
    BY <1>3, <2>2, <2>3, <2>4, <2>5
<1>content. PICK content \in Nat : content = 32 + pos
  BY <1>2
<1>6. content % 8 = 0
  BY <1>2, <1>content, SumOf8
<1>q. PICK q \in Nat : q = (content + 4096 - 1) \div 4096
  OBVIOUS
<1>size. PICK size \in Nat : size = q * 4096
  BY <1>q
<1>7. Align(content, 4096) = size /\ content <= size /\ size % 4096 = 0
  BY <1>q, <1>size DEF Align
<1>8. size - content < 8 => content = size
  <2>p. PICK p \in Nat : p = content \div 8
    OBVIOUS
  <2>1. content = 8 * p /\ size = 8 * (512 * q)
    BY <1>6, <1>size, <2>p
  <2> QED
    BY <1>7, <2>1
<1>9. image.size = size /\ image.free = IF size - content >= 8 THEN {[offset |-> content, size |-> size - content]} ELSE {}
  <2>1. BinHeader + alloc.pos = content
    BY <1>pos, <1>content DEF BinHeader
  <2> QED
    <3>1. \A m, k : m = BinHeader + alloc.pos /\ k = Align(m, 4096)
            => image.size = k /\ image.free = IF k - m >= 8 THEN {[offset |-> m, size |-> k - m]} ELSE {}
      BY <1>1 DEF HeadersWritten
    <3> QED
      BY <1>7, <2>1, <3>1
<1>10. OffsetOf(n) + cs[n].size = content
  BY <1>5, <1>n, <1>content
<1>11. IF image.free = {} THEN content = image.size
       ELSE \A f \in image.free : f.offset = content /\ f.offset + f.size = image.size
  <2>1. CASE size - content >= 8
    <3>1. image.free = {[offset |-> content, size |-> size - content]}
      BY <1>9, <2>1
    <3>2. ASSUME NEW f \in image.free PROVE f.offset = content /\ f.offset + f.size = size
      <4>1. f = [offset |-> content, size |-> size - content]
        BY <3>1
      <4>2. f.offset = content /\ f.size = size - content
        BY <4>1
      <4> QED
        BY <4>2
    <3>3. image.free # {}
      BY <3>1
    <3> QED
      BY <1>9, <3>2, <3>3, Zenon
  <2>2. CASE size - content < 8
    <3>1. image.free = {} /\ image.size = content
      BY <1>8, <1>9, <2>2
    <3> QED
      BY <3>1
  <2> QED
    BY <2>1, <2>2
<1> QED
  BY <1>4, <1>5, <1>7, <1>9, <1>10, <1>11, <1>n, <1>cs DEF CellsTile

LEMMA BuildKept ==
  ASSUME BuilderAssumption, BuildInv, [BuildNext]_buildVars
  PROVE  BuildInv'
<1>1. CASE BuildNext
  BY <1>1, CallKept, AllocKept, LinkKept, FillKept, PhaseKept DEF BuildNext
<1>2. CASE UNCHANGED buildVars
  BY <1>2 DEF buildVars, BuildInv, HeadersWritten, Align, BinHeader
<1> QED
  BY <1>1, <1>2

\* Whatever keys and values were asked for, the bin that build has written is
\* cells from end to end (CellsTile): no link that is written afterwards moves,
\* cuts or lengthens a cell, and the free cell is all that is left of the page.
THEOREM CellsTileCorrect == BuildSpec => []CellsTile
<1>1. BuildInit => BuildInv
  BY BuildBegins
<1>2. BuildInv /\ [BuildNext]_buildVars => BuildInv'
  BY BuilderAssumption, BuildKept
<1>3. BuildInv => CellsTile
  BY WrittenTiles
<1> QED
  BY <1>1, <1>2, <1>3, PTL DEF BuildSpec
=============================================================================
