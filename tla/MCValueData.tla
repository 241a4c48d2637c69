---------------------------- MODULE MCValueData ----------------------------
(***************************************************************************)
(* Small files for ValueData: a data cell at 0, a segment list at 4 and    *)
(* segments at 9 and 13, behind a base block of one byte; size fields of 2 *)
(* bytes, links of 1, db records of 2, segments of 2.                      *)
(***************************************************************************)
EXTENDS ValueData

At(o) == BaseBlock + o

File(len, data, links, a, b, entries, db) ==
  [len |-> len,
   raw |-> [p \in {At(0), At(4), At(9), At(13)} |->
              CASE p = At(0) -> data [] p = At(4) -> links
                [] p = At(9) -> a [] p = At(13) -> b],
   db |-> db,
   link |-> [p \in {At(3)} \union {At(5 + n) : n \in DOMAIN entries} |->
               IF p = At(3) THEN 4 ELSE entries[p - At(5)]]]

\* The signature, and the number of segments.
Dbs == {[p \in {} |-> 0], [p \in {At(2)} |-> 1], [p \in {At(2)} |-> 2], [p \in {At(2)} |-> 3]}

\* Sizes: a cell that ends where the next begins, one with a short body, one
\* that overlaps the next, a free one, one that is shorter than its size field
\* and one that ends behind the file.
Files ==
  {File(len, data, links, a, b, e, db) :
     len \in {At(17), At(16)}, data \in {-4, -3, -1, 4}, links \in {-5, -3, -1, 5},
     a \in {-4, -3, -6, 4, -1}, b \in {-4, -2, -9},
     e \in {<<9, 13, 9>>, <<13, 13, NULL>>, <<9, 4, 40>>}, db \in Dbs}

Values ==
  {[size |-> s, resident |-> FALSE, off |-> 0] : s \in {0, 1, 2, 3, 4, 5}}
    \union {[size |-> 3, resident |-> FALSE, off |-> NULL]}
    \union {[size |-> s, resident |-> TRUE, off |-> 0] : s \in {1, 3}}

Whole == File(At(17), -4, -5, -4, -4, <<9, 13, 9>>, [p \in {At(2)} |-> 3])

MCInputs == {[file |-> f, vk |-> [size |-> s, resident |-> FALSE, off |-> 0]] : f \in Files, s \in {3, 5}}
              \union {[file |-> f, vk |-> v] : f \in {Whole, [Whole EXCEPT !.len = At(3)]}, v \in Values}
=============================================================================
