------------------------------- MODULE MCTxLog -------------------------------
(***************************************************************************)
(* Bounded inputs for TxLog.  The structures are shrunk to LogHeader = 1,  *)
(* SigLen = 1, EntryHeader = 2, RefLen = 1; a page is two bytes and an     *)
(* entry refers to at most two of them.                                    *)
(***************************************************************************)
EXTENDS TxLog

CONSTANTS
  RefSet,       \* page references an entry may hold
  SizeSlack,    \* declared entry size minus the bytes the entry really has
  ZeroSizes     \* TRUE: an entry may declare the size 0 instead

SumSizes(refs) == FoldFunction(+, 0, [k \in DOMAIN refs |-> refs[k].size])

TrueSize(refs) == EntryHeader + Len(refs) * RefLen + SumSizes(refs)

RefLists == {<< >>} \union {<<r>> : r \in RefSet}
              \union {<<r, s>> : r \in RefSet, s \in RefSet}

Declared(refs) == {TrueSize(refs) + d : d \in SizeSlack}
                    \union IF ZeroSizes THEN {0} ELSE {}

Entries == UNION {{[size |-> z, refs |-> refs] : z \in Declared(refs)} :
                     refs \in RefLists}

\* A log of one entry after a gap, whole or cut short by `cut` bytes.
OneEntry(e, gap, cut, ft) ==
  [len   |-> LogHeader + gap + TrueSize(e.refs) - cut,
   regf  |-> TRUE,
   ftype |-> ft,
   entry |-> [p \in {LogHeader + gap} |-> e]]

\* A log of two entries, the second where the first one's bytes end.
TwoEntries(e, f) ==
  LET second == LogHeader + TrueSize(e.refs)
  IN  [len   |-> second + TrueSize(f.refs),
       regf  |-> TRUE,
       ftype |-> 6,
       entry |-> [p \in {LogHeader, second} |-> IF p = LogHeader THEN e ELSE f]]

EmptyLog == [len |-> 0, regf |-> FALSE, ftype |-> 0, entry |-> << >>]
NotALog(e) == [OneEntry(e, 0, 0, 6) EXCEPT !.regf = FALSE]
PrimaryFile(e) == OneEntry(e, 0, 0, 0)

SingleLogs == {OneEntry(e, gap, cut, 6) : e \in Entries, gap \in 0 .. 1, cut \in 0 .. 2}
DoubleLogs == {TwoEntries(e, f) : e \in Entries, f \in Entries}
OddLogs == {EmptyLog} \union {NotALog(e) : e \in Entries}
             \union {PrimaryFile(e) : e \in Entries}
             \union {OneEntry(e, 0, 0, 1) : e \in Entries}

\* LOG1 then LOG2.
Inputs == {<<a, b>> : a \in SingleLogs \union OddLogs, b \in SingleLogs}
            \union {<<a>> : a \in DoubleLogs}

\* Values for the configurations.
TiledRefs == {[off |-> 0, size |-> 2], [off |-> 2, size |-> 2]}
OverlappingRefs == {[off |-> 0, size |-> 4], [off |-> 2, size |-> 2]}
=============================================================================
