------------------------------- MODULE KeyPath -------------------------------
(***************************************************************************)
(* Paths: Key::path (winreg-core/src/path.rs) climbs the parent links of a *)
(* key, Hive::open_key and Key::subkey_path (winreg-core/src/key.rs) go    *)
(* down the subkey lists by name.  The two use different links of the same *)
(* hive.                                                                   *)
(*                                                                         *)
(* A path is a string of components.  The name of a key is the sequence of *)
(* components that joining and splitting it at backslashes makes of it:    *)
(* one, as a rule; none if the name is empty; several if it holds a        *)
(* backslash.  A component is [up, spelling]: names are compared in upper  *)
(* case.                                                                   *)
(***************************************************************************)
EXTENDS Integers, Sequences, SequencesExt

CONSTANTS
  Offsets,    \* the cell offsets in use
  NULL,       \* CellOffset 0xFFFFFFFF
  Root,       \* root_cell_offset
  MaxHops,    \* 512: the parents that path() climbs at most
  Components, \* [up, spelling]
  Hives       \* the hives that may be asked

Cells == [tag : {"nk"}, root : BOOLEAN, name : Seq(Components),
          parent : Offsets \union {NULL}, ok : BOOLEAN, kids : Seq(Offsets)]
           \union [tag : {"other", "bad"}]

\* subkeys() returns keys only.
IsHive(h) ==
  /\ DOMAIN h = Offsets
  /\ \A o \in Offsets : h[o] \in Cells
  /\ \A o \in Offsets : h[o].tag = "nk" =>
       \A n \in DOMAIN h[o].kids : h[h[o].kids[n]].tag = "nk"

ASSUME PathAssumption ==
  /\ NULL \notin Offsets /\ Root \in Offsets
  /\ MaxHops \in Nat
  /\ \A h \in Hives : IsHive(h)

VARIABLES
  hive,     \* what read_cell makes of each offset; ok and kids: subkeys()
  pc,       \* "idle", "climb", "path", "descend", "opened" or "failed"
  key,      \* the key whose path is asked for
  names,    \* the names collected, from the key up
  parent,   \* current_parent
  hops,     \* turns of the for loop
  rest,     \* the components of the path that open_key has yet to look up
  current   \* the key it has come to, NULL for None

vars == <<hive, pc, key, names, parent, hops, rest, current>>

Keys == {o \in Offsets : hive[o].tag = "nk"}

Init ==
  /\ hive \in Hives
  /\ pc = "idle"
  /\ key = NULL /\ names = << >> /\ parent = NULL /\ hops = 0
  /\ rest = << >> /\ current = NULL

\* Key::path of some key.
CallPath(k) ==
  /\ pc = "idle"
  /\ key' = k
  /\ names' = <<hive[k].name>>
  /\ parent' = hive[k].parent
  /\ hops' = 0
  /\ pc' = "climb"
  /\ UNCHANGED <<hive, rest, current>>

\* Where the climb ends well: a null parent, the root, a cell that is no key,
\* or the last turn of the loop.
\* Mutant: one turn more.
AtTopLate ==
  \/ hops = MaxHops + 1
  \/ parent = NULL
  \/ parent # NULL /\ hive[parent].tag = "other"
  \/ parent # NULL /\ hive[parent].tag = "nk" /\ hive[parent].root

AtTop ==
  \/ hops = MaxHops
  \/ parent = NULL
  \/ parent # NULL /\ hive[parent].tag = "other"
  \/ parent # NULL /\ hive[parent].tag = "nk" /\ hive[parent].root

\* Mutant: no turn is counted.
ClimbUncounted ==
  /\ pc = "climb" /\ ~AtTop /\ hive[parent].tag = "nk"
  /\ parent' = hive[parent].parent
  /\ UNCHANGED <<hive, pc, key, names, hops, rest, current>>

ClimbParent ==
  /\ pc = "climb" /\ ~AtTop /\ hive[parent].tag = "nk"
  /\ names' = Append(names, hive[parent].name)
  /\ parent' = hive[parent].parent
  /\ hops' = hops + 1
  /\ UNCHANGED <<hive, pc, key, rest, current>>

ParentUnreadable ==
  /\ pc = "climb" /\ ~AtTop /\ hive[parent].tag = "bad"
  /\ pc' = "failed"
  /\ UNCHANGED <<hive, key, names, parent, hops, rest, current>>

ReturnPath ==
  /\ pc = "climb" /\ AtTop
  /\ pc' = "path"
  /\ UNCHANGED <<hive, key, names, parent, hops, rest, current>>

\* Mutant: the names are not reversed.
PathUpwards == FlattenSeq(names)

\* The path, as split('\\') and the filter of subkey_path see it.
Path == FlattenSeq(Reverse(names))

\* open_key(path): the root must be a key, an empty path is None.
CallOpenKey ==
  /\ pc = "path" /\ hive[Root].tag = "nk"
  /\ rest' = Path
  /\ current' = IF Path = << >> THEN NULL ELSE Root
  /\ pc' = IF Path = << >> THEN "opened" ELSE "descend"
  /\ UNCHANGED <<hive, key, names, parent, hops>>

RootUnreadable ==
  /\ pc = "path" /\ hive[Root].tag # "nk"
  /\ pc' = "failed"
  /\ UNCHANGED <<hive, key, names, parent, hops, rest, current>>

\* subkey: the first of the subkeys with that name.
Matches(k, c) == {n \in DOMAIN hive[k].kids :
                    LET name == hive[hive[k].kids[n]].name
                    IN  Len(name) = 1 /\ name[1].up = c.up}

First(S) == CHOOSE n \in S : \A m \in S : n <= m

Subkey(k, c) == IF Matches(k, c) = {} THEN NULL ELSE hive[k].kids[First(Matches(k, c))]

Descend ==
  /\ pc = "descend" /\ rest # << >> /\ hive[current].ok
  /\ current' = Subkey(current, Head(rest))
  /\ rest' = Tail(rest)
  /\ pc' = IF current' = NULL \/ rest' = << >> THEN "opened" ELSE "descend"
  /\ UNCHANGED <<hive, key, names, parent, hops>>

SubkeysUnreadable ==
  /\ pc = "descend" /\ rest # << >> /\ ~hive[current].ok
  /\ pc' = "failed"
  /\ UNCHANGED <<hive, key, names, parent, hops, rest, current>>

Next == \/ \E k \in Keys : CallPath(k)
        \/ ClimbParent \/ ParentUnreadable \/ ReturnPath
        \/ CallOpenKey \/ RootUnreadable
        \/ Descend \/ SubkeysUnreadable

Spec == Init /\ [][Next]_vars

\* Both calls run in one thread that nothing blocks.
FairSpec == Spec /\ WF_vars(Next)

-----------------------------------------------------------------------------
\* Types of the two calls.
TypeOK ==
  /\ IsHive(hive)
  /\ pc \in {"idle", "climb", "path", "descend", "opened", "failed"}
  /\ key \in Offsets \union {NULL}
  /\ names \in Seq(Seq(Components))
  /\ parent \in Offsets \union {NULL}
  /\ hops \in 0 .. MaxHops
  /\ rest \in Seq(Components)
  /\ current \in Offsets \union {NULL}

\* A hive whose two kinds of links agree: every key but the root is the child
\* of its parent, only the root is flagged as such, names are single
\* components and siblings have different ones.
Agrees(h) ==
  LET nks == {o \in Offsets : h[o].tag = "nk"}
      child(o, p) == \E n \in DOMAIN h[p].kids : h[p].kids[n] = o
  IN  /\ h[Root].tag = "nk" /\ h[Root].root
      /\ \A o \in nks \ {Root} : /\ ~h[o].root
                                 /\ Len(h[o].name) = 1
                                 /\ h[o].parent \in nks /\ child(o, h[o].parent)
      /\ \A p \in nks : \A m, n \in DOMAIN h[p].kids :
           /\ h[p].kids[m] \in nks
           /\ h[h[p].kids[m]].name[1].up = h[h[p].kids[n]].name[1].up => m = n

\* The climb stopped because it had come to the root.
ReachedRoot == parent # NULL /\ hive[parent].tag = "nk" /\ hive[parent].root

\* Going up and going down are inverse: in a hive whose links agree, opening
\* the path of a key leads to that key, unless subkeys on the way cannot be
\* read (which is an error, not None and not another key).
RoundTrip ==
  pc = "opened" /\ Agrees(hive) /\ key # Root /\ ReachedRoot
    => current = key

\* Both calls return, also where parents form a cycle.
CallsReturn == pc = "climb" ~> pc \in {"opened", "failed"}
=============================================================================
