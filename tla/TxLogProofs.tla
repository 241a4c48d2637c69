----------------------------- MODULE TxLogProofs -----------------------------
(***************************************************************************)
(* Proofs about TxLog for logs of every shape and every geometry.          *)
(***************************************************************************)
EXTENDS TxLog, TLAPS

\* Pages are applied behind the base block.
PagesAboveBaseBlock == \A o \in DOMAIN pages : o >= BaseBlock

\* What the steps rely on: types, where the cursor is, what the pages are.
IInv == TypeOK /\ CursorInLog /\ PagesComeFromLogs /\ PagesAboveBaseBlock

\* An entry the cursor stands on is well-formed.
LEMMA EntryAtCursor ==
  ASSUME TypeOK, CursorInLog, pc = "refs"
  PROVE  /\ cur \in 1 .. Len(logs)
         /\ Log.len \in Nat
         /\ IsReplayable(Log)
         /\ Log.entry[pos].size \in Nat
         /\ Refs \in Seq(Ref)
         /\ Len(Refs) \in Nat
         /\ pos + EntryHeader <= Log.len
  <1>1. cur \in 1 .. Len(logs) /\ Len(logs) \in Nat
    BY DEF TypeOK, CursorInLog, AreLogs
  <1>2. IsLog(Log)
    BY <1>1 DEF TypeOK, AreLogs, Log
  <1>3. pos \in DOMAIN Log.entry
    BY DEF CursorInLog
  <1>4. Log.entry[pos] \in Entry
    BY <1>2, <1>3 DEF IsLog
  <1>. QED
    BY <1>1, <1>2, <1>4 DEF IsLog, Entry, Refs, CursorInLog

\* The reference that a turn of the loop reads is a reference, and its page,
\* where there is one, lies behind the header of the entry.
LEMMA RefAtCursor ==
  ASSUME TypeOK, CursorInLog, pc = "refs", i < Len(Refs)
  PROVE  /\ ThisRef \in Ref
         /\ DataOffset \in Nat
         /\ DataOffset >= pos
  <1>1. i + 1 \in 1 .. Len(Refs)
    BY EntryAtCursor DEF TypeOK
  <1>2. ThisRef \in Ref
    BY <1>1, EntryAtCursor DEF ThisRef
  <1>3. Len(Refs) * RefLen \in Nat
    BY EntryAtCursor, GeometryAssumption
  <1>. QED
    BY <1>2, <1>3, GeometryAssumption
    DEF TypeOK, DataOffset, DataStart, RefStart

\* The page of a turn that passes the range check is a slice of its log.
LEMMA PageInLog ==
  ASSUME TypeOK, CursorInLog, AtRef,
         DataOffset + ThisRef.size <= Log.len
  PROVE  LET w == PageOf(ThisRef)
         IN  /\ w.off \in Nat /\ w.off >= BaseBlock
             /\ w.log \in 1 .. Len(logs) /\ IsReplayable(logs[w.log])
             /\ w.at \in Nat /\ w.at >= LogHeader
             /\ w.len \in Nat /\ w.at + w.len <= logs[w.log].len
  <1>1. pc = "refs" /\ i < Len(Refs)
    BY DEF AtRef
  <1>2. /\ ThisRef.off \in Nat /\ ThisRef.size \in Nat
        /\ DataOffset \in Nat /\ DataOffset >= LogHeader
    <2>1. ThisRef \in Ref /\ DataOffset \in Nat /\ DataOffset >= pos
      BY <1>1, RefAtCursor
    <2>2. pos >= LogHeader /\ pos \in Nat
      BY <1>1 DEF CursorInLog, TypeOK
    <2>. QED
      BY <2>1, <2>2, GeometryAssumption DEF Ref
  <1>. QED
    BY <1>1, <1>2, EntryAtCursor, GeometryAssumption DEF PageOf, Log

\* An overlay without dirty pages satisfies the inductive invariant.
THEOREM InitIInv == Init => IInv
  BY GeometryAssumption, LogsAssumption
  DEF Init, IInv, TypeOK, CursorInLog, PagesComeFromLogs, PagesAboveBaseBlock,
      AreLogs, NoWrite

\* Every step of the replay keeps the inductive invariant.
THEOREM NextIInv == IInv /\ [Next]_vars => IInv'
  <1>. SUFFICES ASSUME IInv, [Next]_vars PROVE IInv'
    OBVIOUS
  <1>. USE DEF IInv
  <1>0. ASSUME UNCHANGED <<logs, pages, last>>
       PROVE  /\ PagesComeFromLogs' /\ PagesAboveBaseBlock'
              /\ AreLogs(logs)' /\ (DOMAIN pages \subseteq Nat)'
              /\ (\A o \in DOMAIN pages : pages[o] \in Page)'
              /\ (last \in [off : Nat, log : Nat, at : Nat, len : Nat])'
    BY <1>0 DEF PagesComeFromLogs, PagesAboveBaseBlock, TypeOK
  <1>00. /\ Len(logs) \in Nat /\ cur \in 1 .. Len(logs) + 1
        /\ pos \in Nat /\ i \in Nat /\ acc \in Nat
        /\ pc \in {"log", "scan", "refs", "done"}
    BY DEF TypeOK, AreLogs
  <1>1. CASE SkipLog \/ OpenLog \/ Return
    <2>1. UNCHANGED <<logs, pages, last>>
      BY <1>1 DEF SkipLog, OpenLog, Return
    <2>2. CursorInLog'
      <3>1. CASE OpenLog
        <4>1. /\ pc' = "scan" /\ pos' = LogHeader /\ cur' = cur /\ logs' = logs
              /\ cur <= Len(logs) /\ IsReplayable(Log)
          BY <3>1 DEF OpenLog
        <4>2. IsReplayable(Log)' <=> IsReplayable(Log)
          BY <4>1 DEF IsReplayable, Log
        <4>. QED
          BY <4>1, <4>2, GeometryAssumption DEF CursorInLog
      <3>2. CASE SkipLog \/ Return
        BY <3>2 DEF SkipLog, Return, CursorInLog
      <3>. QED
        BY <1>1, <3>1, <3>2
    <2>3. /\ (cur \in 1 .. Len(logs) + 1)' /\ (pos \in Nat /\ i \in Nat /\ acc \in Nat)'
          /\ (pc \in {"log", "scan", "refs", "done"})'
      BY <1>1, <1>00, GeometryAssumption DEF SkipLog, OpenLog, Return
    <2>. QED
      BY <1>0, <2>1, <2>2, <2>3 DEF TypeOK
  <1>2. CASE ScanForward \/ BeginEntry \/ EndLog
    <2>1. UNCHANGED <<logs, pages, last>>
      BY <1>2 DEF ScanForward, BeginEntry, EndLog
    <2>2. CursorInLog'
      <3>1. CASE ScanForward \/ BeginEntry
        <4>1. /\ pc = "scan" /\ logs' = logs /\ cur' = cur
              /\ pos' = pos \/ pos' = pos + 1
              /\ pc' = "refs" => /\ pos \in DOMAIN Log.entry
                                 /\ pos + EntryHeader <= Log.len
                                 /\ pos' = pos
          BY <3>1 DEF ScanForward, BeginEntry, InLog, AtEntry
        <4>2. IsReplayable(Log)' <=> IsReplayable(Log)
          BY <4>1 DEF IsReplayable, Log
        <4>. QED
          BY <4>1, <4>2, GeometryAssumption DEF CursorInLog, TypeOK, Log
      <3>2. CASE EndLog
        BY <3>2 DEF EndLog, CursorInLog
      <3>. QED
        BY <1>2, <3>1, <3>2
    <2>3. /\ (cur \in 1 .. Len(logs) + 1)' /\ (pos \in Nat /\ i \in Nat /\ acc \in Nat)'
          /\ (pc \in {"log", "scan", "refs", "done"})'
      <3>1. cur <= Len(logs)
        BY <1>2 DEF ScanForward, BeginEntry, EndLog, InLog, AtEntry, CursorInLog
      <3>. QED
        BY <1>2, <1>00, <3>1
        DEF ScanForward, BeginEntry, EndLog, InLog, AtEntry
    <2>. QED
      BY <1>0, <2>1, <2>2, <2>3 DEF TypeOK
  <1>3. CASE EndEntry
    <2>1. pc = "refs"
      BY <1>3 DEF EndEntry
    <2>2. Log.entry[pos].size \in Nat
      BY <2>1, EntryAtCursor
    <2>3. /\ pc' = "scan" /\ pos' = pos + Log.entry[pos].size
          /\ UNCHANGED <<logs, pages, cur, i, acc, last>>
      BY <1>3 DEF EndEntry
    <2>4. pos' \in Nat /\ pos' >= pos
      BY <1>00, <2>2, <2>3
    <2>5. CursorInLog'
      <3>1. IsReplayable(Log)' <=> IsReplayable(Log)
        BY <2>3 DEF IsReplayable, Log
      <3>. QED
        BY <1>00, <2>1, <2>3, <2>4, <3>1, GeometryAssumption DEF CursorInLog
    <2>6. TypeOK'
      BY <1>0, <1>00, <2>3, <2>4 DEF TypeOK
    <2>. QED
      BY <1>0, <2>3, <2>5, <2>6
  <1>4. CASE ReadRef
    <2>1. AtRef /\ pc = "refs" /\ i < Len(Refs)
      BY <1>4 DEF ReadRef, AtRef
    <2>2. ThisRef.size \in Nat /\ acc \in Nat
      BY <2>1, RefAtCursor DEF Ref, TypeOK
    <2>3. acc' \in Nat
      BY <1>4, <2>2, GeometryAssumption DEF ReadRef
    <2>4. CASE DataOffset + ThisRef.size <= Log.len
      <3>. DEFINE w == PageOf(ThisRef)
      <3>1. /\ pages' = Inserted(pages, w) /\ last' = w
            /\ UNCHANGED <<logs, cur, pos, pc>> /\ i' = i + 1
        BY <1>4, <2>4 DEF ReadRef
      <3>2. /\ w.off \in Nat /\ w.off >= BaseBlock
            /\ w.log \in 1 .. Len(logs) /\ IsReplayable(logs[w.log])
            /\ w.at \in Nat /\ w.at >= LogHeader
            /\ w.len \in Nat /\ w.at + w.len <= logs[w.log].len
        BY <2>1, <2>4, PageInLog
      <3>3. w \in [off : Nat, log : Nat, at : Nat, len : Nat]
        BY <3>2 DEF PageOf, TypeOK, AreLogs
      <3>. HIDE DEF w
      <3>4. \A o \in DOMAIN pages' :
               \/ o = w.off /\ pages'[o] = [log |-> w.log, at |-> w.at, len |-> w.len]
               \/ o \in DOMAIN pages /\ pages'[o] = pages[o]
        BY <3>1 DEF Inserted
      <3>5. TypeOK'
        <4>1. DOMAIN pages' \subseteq Nat /\ \A o \in DOMAIN pages' : pages'[o] \in Page
          <5>. SUFFICES ASSUME NEW o \in DOMAIN pages' PROVE o \in Nat /\ pages'[o] \in Page
            OBVIOUS
          <5>1. CASE o = w.off /\ pages'[o] = [log |-> w.log, at |-> w.at, len |-> w.len]
            <6>1. w.off \in Nat /\ w.log \in Nat /\ w.at \in Nat /\ w.len \in Nat
              BY <3>3
            <6>. QED
              BY <5>1, <6>1 DEF Page
          <5>2. CASE o \in DOMAIN pages /\ pages'[o] = pages[o]
            BY <5>2 DEF TypeOK
          <5>. QED
            BY <3>4, <5>1, <5>2
        <4>2. i' \in Nat /\ AreLogs(logs)'
          BY <3>1 DEF TypeOK, AreLogs
        <4>. QED
          BY <2>3, <3>1, <3>3, <4>1, <4>2 DEF TypeOK
      <3>6. CursorInLog'
        BY <3>1 DEF CursorInLog, Log
      <3>7. PagesComeFromLogs' /\ PagesAboveBaseBlock'
        BY <3>1, <3>2, <3>4 DEF PagesComeFromLogs, PagesAboveBaseBlock
      <3>. QED
        BY <3>5, <3>6, <3>7
    <2>5. CASE ~(DataOffset + ThisRef.size <= Log.len)
      <3>1. UNCHANGED <<pages, last, logs, cur, pos, pc>> /\ i' = i + 1
        BY <1>4, <2>5 DEF ReadRef
      <3>. QED
        BY <2>3, <3>1 DEF TypeOK, CursorInLog, PagesComeFromLogs,
                          PagesAboveBaseBlock, Log
    <2>. QED
      BY <2>4, <2>5
  <1>5. CASE UNCHANGED vars
    BY <1>5 DEF vars, TypeOK, CursorInLog, PagesComeFromLogs,
                PagesAboveBaseBlock, Log
  <1>. QED
    BY <1>1, <1>2, <1>3, <1>4, <1>5 DEF Next

\* Every reachable state satisfies the inductive invariant.
THEOREM Invariance == Spec => []IInv
  BY InitIInv, NextIInv, PTL DEF Spec

\* Replay keeps its types, for every geometry and every input of log files.
THEOREM TypeCorrect == Spec => []TypeOK
  BY Invariance, PTL DEF IInv

\* No byte of the overlay is read past the end of a log or out of a log that
\* is not one (parse_new_format_log's range checks suffice).
THEOREM PagesSafe == Spec => []PagesComeFromLogs
  BY Invariance, PTL DEF IInv

\* Replay leaves the base block alone: PagesAboveBaseBlock says why.
THEOREM HeaderSafe == Spec => []BaseBlockPreserved
  <1>1. IInv => BaseBlockPreserved
    <2>. SUFFICES ASSUME IInv, NEW p \in 0 .. BaseBlock - 1
                  PROVE  ReadByte(pages, p) = BaseByte(p)
      BY DEF BaseBlockPreserved
    <2>1. Covering(pages, p) = {}
      BY GeometryAssumption DEF Covering, IInv, PagesAboveBaseBlock, TypeOK
    <2>. QED
      BY <2>1 DEF ReadByte
  <1>. QED
    BY <1>1, Invariance, PTL

-----------------------------------------------------------------------------
(* Replay implements the overlay memory when the logs' pages tile.         *)

\* Every dirty page is the page of some reference of the logs.
PagesAreRefs ==
  \A o \in DOMAIN pages :
    \E r \in RefsOf(logs) : o = BaseBlock + r.off /\ pages[o].len = r.size

\* Two pages of a set of pages do not overlap.
Disjoint(pgs) ==
  \A o, u \in DOMAIN pgs : o < u => o + pgs[o].len <= u

Pages(pgs) == DOMAIN pgs \subseteq Nat /\ \A o \in DOMAIN pgs : pgs[o] \in Page

\* The page w neither overlaps a page of pgs in part nor changes the length of
\* one.
Fits(pgs, w) ==
  \A o \in DOMAIN pgs : /\ o = w.off => pgs[o].len = w.len
                        /\ o < w.off => o + pgs[o].len <= w.off
                        /\ w.off < o => w.off + w.len <= o

\* read_at finds the one page that covers a byte, whatever the order.
LEMMA ReadCovered ==
  ASSUME NEW pgs, Pages(pgs), Disjoint(pgs), NEW p \in Nat,
         NEW o \in DOMAIN pgs, o <= p, p < o + pgs[o].len
  PROVE  ReadByte(pgs, p) = <<pgs[o].log, pgs[o].at + (p - o)>>
  <1>1. Covering(pgs, p) = {o}
    <2>. SUFFICES ASSUME NEW u \in DOMAIN pgs, u <= p, p < u + pgs[u].len
                  PROVE  u = o
      BY DEF Covering
    <2>. QED
      BY DEF Pages, Page, Disjoint
  <1>2. o \in Nat
    BY DEF Pages
  <1>3. Max({o}) = o
    BY <1>2 DEF Max
  <1>. QED
    BY <1>1, <1>3 DEF ReadByte

\* read_at gives the hive's own byte where no dirty page lies.
LEMMA ReadUncovered ==
  ASSUME NEW pgs, NEW p \in Nat,
         \A o \in DOMAIN pgs : ~(o <= p /\ p < o + pgs[o].len)
  PROVE  ReadByte(pgs, p) = BaseByte(p)
  BY DEF ReadByte, Covering

\* Applying a page that fits is what the overlay memory does.
LEMMA ApplyIsOverlay ==
  ASSUME NEW pgs, Pages(pgs), Disjoint(pgs), NEW w \in Overlay!Write, Fits(pgs, w)
  PROVE  /\ Materialize(Inserted(pgs, w)) = Overlay!Overlaid(Materialize(pgs), w)
         /\ Disjoint(Inserted(pgs, w))
  <1>. DEFINE new == Inserted(pgs, w)
  <1>0. w.off \in Nat /\ w.log \in Nat /\ w.at \in Nat /\ w.len \in Nat
    BY DEF Overlay!Write
  <1>1. /\ DOMAIN new = DOMAIN pgs \union {w.off}
        /\ new[w.off] = [log |-> w.log, at |-> w.at, len |-> w.len]
        /\ \A o \in DOMAIN pgs : o # w.off => new[o] = pgs[o]
        /\ new = [o \in DOMAIN new |-> new[o]]
    BY DEF Inserted
  <1>. HIDE DEF new
  <1>2. Pages(new)
    BY <1>0, <1>1 DEF Pages, Page
  <1>3. Disjoint(new)
    BY <1>0, <1>1 DEF Disjoint, Fits, Pages, Page
  <1>4. ASSUME NEW p \in 0 .. HiveLen - 1
        PROVE  ReadByte(new, p) =
                 IF w.off <= p /\ p < w.off + w.len
                   THEN <<w.log, w.at + (p - w.off)>> ELSE ReadByte(pgs, p)
    <2>0. p \in Nat
      BY GeometryAssumption
    <2>1. CASE w.off <= p /\ p < w.off + w.len
      BY <2>0, <2>1, <1>0, <1>1, <1>2, <1>3, ReadCovered
    <2>2. CASE /\ ~(w.off <= p /\ p < w.off + w.len)
               /\ \E o \in DOMAIN pgs : o <= p /\ p < o + pgs[o].len
      <3>1. PICK o \in DOMAIN pgs : o <= p /\ p < o + pgs[o].len
        BY <2>2
      <3>2. o # w.off
        BY <2>2, <3>1 DEF Fits
      <3>3. o \in DOMAIN new /\ new[o] = pgs[o]
        BY <3>2, <1>1
      <3>4. ReadByte(new, p) = <<pgs[o].log, pgs[o].at + (p - o)>>
        BY <2>0, <3>1, <3>3, <1>2, <1>3, ReadCovered
      <3>5. ReadByte(pgs, p) = <<pgs[o].log, pgs[o].at + (p - o)>>
        BY <2>0, <3>1, ReadCovered
      <3>. QED
        BY <2>2, <3>4, <3>5
    <2>3. CASE /\ ~(w.off <= p /\ p < w.off + w.len)
               /\ ~\E o \in DOMAIN pgs : o <= p /\ p < o + pgs[o].len
      <3>1. \A o \in DOMAIN new : ~(o <= p /\ p < o + new[o].len)
        BY <2>3, <1>0, <1>1
      <3>. QED
        BY <2>0, <2>3, <3>1, ReadUncovered
    <2>. QED
      BY <2>1, <2>2, <2>3
  <1>5. Materialize(new) = Overlay!Overlaid(Materialize(pgs), w)
    BY <1>4 DEF Materialize, Overlay!Overlaid
  <1>. QED
    BY <1>3, <1>5 DEF new

\* The references of well-formed logs are references.
LEMMA RefsOfType ==
  ASSUME NEW ls, AreLogs(ls)
  PROVE  RefsOf(ls) \subseteq Ref
  <1>. SUFFICES ASSUME NEW n \in 1 .. Len(ls), NEW p \in DOMAIN ls[n].entry
                PROVE  Range(ls[n].entry[p].refs) \subseteq Ref
    BY DEF RefsOf
  <1>1. ls[n].entry[p].refs \in Seq(Ref)
    BY DEF AreLogs, IsLog, Entry
  <1>. QED
    BY <1>1 DEF Range

\* The invariant of the refinement: the pages are pages of the logs'
\* references, so they do not overlap.
RInv == IInv /\ Tiled(logs) /\ PagesAreRefs

\* Dirty pages at different offsets never share a byte of the file.
LEMMA RInvDisjoint ==
  ASSUME RInv
  PROVE  Pages(pages) /\ Disjoint(pages)
  <1>1. Pages(pages)
    BY DEF RInv, IInv, TypeOK, Pages
  <1>2. Disjoint(pages)
    <2>. SUFFICES ASSUME NEW o \in DOMAIN pages, NEW u \in DOMAIN pages, o < u
                  PROVE  o + pages[o].len <= u
      BY DEF Disjoint
    <2>1. PICK r \in RefsOf(logs) : o = BaseBlock + r.off /\ pages[o].len = r.size
      BY DEF RInv, PagesAreRefs
    <2>2. PICK s \in RefsOf(logs) : u = BaseBlock + s.off
      BY DEF RInv, PagesAreRefs
    <2>3. r \in Ref /\ s \in Ref
      BY RefsOfType DEF RInv, IInv, TypeOK
    <2>. QED
      BY <2>1, <2>2, <2>3, GeometryAssumption DEF RInv, Tiled, Ref
  <1>. QED
    BY <1>1, <1>2

\* A turn of the for loop that applies a page applies one that fits.
LEMMA AppliedPageFits ==
  ASSUME RInv, AtRef
  PROVE  ThisRef \in RefsOf(logs) /\ Fits(pages, PageOf(ThisRef))
  <1>1. pc = "refs" /\ i < Len(Refs)
    BY DEF AtRef
  <1>2. /\ cur \in 1 .. Len(logs) /\ pos \in DOMAIN Log.entry
        /\ Refs \in Seq(Ref) /\ i \in Nat
    BY <1>1, EntryAtCursor DEF RInv, IInv, CursorInLog, TypeOK
  <1>3. ThisRef \in Range(Refs)
    <2>1. i + 1 \in DOMAIN Refs
      BY <1>1, <1>2
    <2>. QED
      BY <2>1 DEF ThisRef, Range
  <1>4. ThisRef \in RefsOf(logs)
    BY <1>2, <1>3 DEF RefsOf, Refs, Log
  <1>5. ASSUME NEW o \in DOMAIN pages
        PROVE  /\ o = BaseBlock + ThisRef.off => pages[o].len = ThisRef.size
               /\ o < BaseBlock + ThisRef.off
                    => o + pages[o].len <= BaseBlock + ThisRef.off
               /\ BaseBlock + ThisRef.off < o
                    => BaseBlock + ThisRef.off + ThisRef.size <= o
    <2>1. PICK r \in RefsOf(logs) : o = BaseBlock + r.off /\ pages[o].len = r.size
      BY DEF RInv, PagesAreRefs
    <2>2. r \in Ref /\ ThisRef \in Ref
      BY <1>4, RefsOfType DEF RInv, IInv, TypeOK
    <2>. QED
      BY <1>4, <2>1, <2>2, GeometryAssumption DEF RInv, Tiled, Ref
  <1>. QED
    BY <1>4, <1>5 DEF Fits, PageOf

\* Applied pages stay pages of references.
LEMMA NextRInv == RInv /\ [Next]_vars => RInv'
  <1>. SUFFICES ASSUME RInv, [Next]_vars PROVE RInv'
    OBVIOUS
  <1>1. IInv'
    BY NextIInv DEF RInv
  <1>2. logs' = logs
    BY DEF Next, vars, SkipLog, OpenLog, ScanForward, BeginEntry, EndLog, ReadRef,
           EndEntry, Return
  <1>3. Tiled(logs)'
    BY <1>2 DEF RInv
  <1>4. CASE ReadRef /\ DataOffset + ThisRef.size <= Log.len
    <2>1. pages' = Inserted(pages, PageOf(ThisRef)) /\ AtRef
      BY <1>4 DEF ReadRef
    <2>2. ThisRef \in RefsOf(logs)
      BY <2>1, AppliedPageFits
    <2>3. PagesAreRefs'
      BY <1>2, <2>1, <2>2 DEF RInv, PagesAreRefs, Inserted, PageOf
    <2>. QED
      BY <1>1, <1>3, <2>3 DEF RInv
  <1>5. CASE pages' = pages
    BY <1>1, <1>2, <1>3, <1>5 DEF RInv, PagesAreRefs
  <1>. QED
    BY <1>4, <1>5
    DEF Next, vars, SkipLog, OpenLog, ScanForward, BeginEntry, EndLog, ReadRef,
        EndEntry, Return

\* When the pages of the logs tile, replay implements the overlay memory: the
\* materialized hive shows every applied page in full, the latest on top.
THEOREM Refinement ==
  ASSUME \A ls \in LogInputs : Tiled(ls)
  PROVE  Spec => ShowsEveryPage
  <1>1. Init => RInv /\ Overlay!Init
    <2>. SUFFICES ASSUME Init PROVE RInv /\ Overlay!Init
      OBVIOUS
    <2>1. RInv
      BY InitIInv DEF Init, RInv, PagesAreRefs
    <2>2. pages = << >> /\ DOMAIN pages = {}
      BY DEF Init
    <2>3. \A p \in 0 .. HiveLen - 1 : ReadByte(pages, p) = <<0, p>>
      BY <2>2, GeometryAssumption DEF ReadByte, Covering, BaseByte
    <2>. QED
      BY <2>1, <2>3 DEF Overlay!Init, Materialize, Init, NoWrite, Overlay!NoWrite
  <1>2. RInv /\ [Next]_vars => [Overlay!Next]_<<Materialize(pages), last>>
    <2>. SUFFICES ASSUME RInv, [Next]_vars
                  PROVE  [Overlay!Next]_<<Materialize(pages), last>>
      OBVIOUS
    <2>1. CASE ReadRef /\ DataOffset + ThisRef.size <= Log.len
      <3>. DEFINE w == PageOf(ThisRef)
      <3>1. pages' = Inserted(pages, w) /\ last' = w /\ AtRef
        BY <2>1 DEF ReadRef
      <3>2. w \in Overlay!Write
        BY <2>1, <3>1, NextIInv DEF RInv, IInv, TypeOK, Overlay!Write
      <3>3. Materialize(pages') = Overlay!Overlaid(Materialize(pages), w)
        BY <3>1, <3>2, RInvDisjoint, AppliedPageFits, ApplyIsOverlay
      <3>4. Materialize(pages)' = Overlay!Overlaid(Materialize(pages), last')
        BY <3>1, <3>3 DEF Materialize
      <3>. QED
        BY <3>1, <3>2, <3>4 DEF Overlay!Next, Overlay!Apply
    <2>2. CASE pages' = pages /\ last' = last
      BY <2>2 DEF Materialize
    <2>. QED
      BY <2>1, <2>2
      DEF Next, vars, SkipLog, OpenLog, ScanForward, BeginEntry, EndLog, ReadRef,
          EndEntry, Return
  <1>. QED
    BY <1>1, <1>2, NextRInv, PTL DEF Spec, ShowsEveryPage, Overlay!Spec
=============================================================================
