-------------------------------- MODULE TxLog --------------------------------
(***************************************************************************)
(* Transaction-log replay: replay_transaction_logs, parse_new_format_log   *)
(* and the OverlayBuffer they fill (winreg-core/src/txlog.rs).             *)
(*                                                                         *)
(* Files are abstracted to their geometry.  A log is its length, the two   *)
(* header tests, and where an HvLE signature stands; the bytes that an     *)
(* entry's pages are copied from are named by their position in the log,   *)
(* so that the overlay says of every byte where it came from.  The loops   *)
(* of the code are steps; the widths of the structures are CONSTANTS.      *)
(***************************************************************************)
EXTENDS Integers, Sequences, FiniteSetsExt

CONSTANTS
  BaseBlock,    \* 4096: hive bytes that precede the hive-bins data
  LogHeader,    \* 512: bytes of a log before its first entry
  SigLen,       \* 4: bytes of the HvLE signature
  EntryHeader,  \* 40: bytes of an HvLE entry before its page references
  RefLen,       \* 8: bytes of a page reference
  U32,          \* 2^32: accumulated_size is a u32 and wraps
  HiveLen,      \* length of the hive the logs are replayed onto
  LogInputs     \* the sequences of log files replay may be given

Ref == [off : Nat, size : Nat]
Entry == [size : Nat, refs : Seq(Ref)]

(***************************************************************************)
(* entry is a function from the positions of the log that hold the HvLE    *)
(* signature to what stands there.                                         *)
(***************************************************************************)
IsLog(l) ==
  /\ l.len \in Nat
  /\ l.regf \in BOOLEAN
  /\ l.ftype \in Nat
  /\ DOMAIN l.entry \subseteq Nat
  /\ \A p \in DOMAIN l.entry : l.entry[p] \in Entry

ASSUME GeometryAssumption ==
  /\ BaseBlock \in Nat /\ LogHeader \in Nat /\ SigLen \in Nat
  /\ EntryHeader \in Nat /\ RefLen \in Nat /\ HiveLen \in Nat
  /\ U32 \in Nat \ {0}

AreLogs(ls) == /\ Len(ls) \in Nat
               /\ \A n \in 1 .. Len(ls) : IsLog(ls[n])

ASSUME LogsAssumption == \A ls \in LogInputs : AreLogs(ls)

VARIABLES
  logs,   \* log_datas
  pages,  \* dirty_pages: page offset -> [log, at, len] it was copied from
  cur,    \* index of the log being replayed
  pos,    \* pos in that log
  i,      \* index of the next page reference of the entry at pos
  acc,    \* accumulated_size of the references before it
  pc,     \* "log": between logs, "scan": the while loop, "refs": the for loop
  last    \* the arguments of the latest apply_page, or NoWrite

vars == <<logs, pages, cur, pos, i, acc, pc, last>>

NoWrite == [off |-> 0, log |-> 0, at |-> 0, len |-> 0]

-----------------------------------------------------------------------------
(* The overlay buffer.                                                     *)

\* read_at for one byte: of the pages that cover p the one with the greatest
\* offset (iter().rev().find()), otherwise the base hive, otherwise zero.
Covering(pgs, p) == {o \in DOMAIN pgs : o <= p /\ p < o + pgs[o].len}

ZeroByte == <<0, -1>>

BaseByte(p) == IF p < HiveLen THEN <<0, p>> ELSE ZeroByte

ReadByte(pgs, p) ==
  IF Covering(pgs, p) = {}
    THEN BaseByte(p)
    ELSE LET o == Max(Covering(pgs, p))
         IN  <<pgs[o].log, pgs[o].at + (p - o)>>

\* materialize: read_at over exactly the bytes of the base.
Materialize(pgs) == [p \in 0 .. HiveLen - 1 |-> ReadByte(pgs, p)]

\* Mutant: a page that is already there is kept.
InsertedKeepsFirst(pgs, w) ==
  [o \in DOMAIN pgs \union {w.off} |->
     IF o \in DOMAIN pgs THEN pgs[o] ELSE [log |-> w.log, at |-> w.at, len |-> w.len]]

\* apply_page: BTreeMap::insert, which replaces a page of the same offset.
Inserted(pgs, w) ==
  [o \in DOMAIN pgs \union {w.off} |->
     IF o = w.off THEN [log |-> w.log, at |-> w.at, len |-> w.len] ELSE pgs[o]]

-----------------------------------------------------------------------------
(* Replay.                                                                 *)

Log == logs[cur]

\* replay_transaction_logs: what is replayed and what is passed over.
IsReplayable(l) == l.len >= LogHeader /\ l.regf /\ l.ftype \in {1, 6}

Init ==
  /\ logs \in LogInputs
  /\ pages = << >>
  /\ cur = 1 /\ pos = 0 /\ i = 0 /\ acc = 0
  /\ pc = "log"
  /\ last = NoWrite

SkipLog ==
  /\ pc = "log" /\ cur <= Len(logs)
  /\ ~IsReplayable(Log)
  /\ cur' = cur + 1
  /\ UNCHANGED <<logs, pages, pos, i, acc, pc, last>>

OpenLog ==
  /\ pc = "log" /\ cur <= Len(logs)
  /\ IsReplayable(Log)
  /\ pos' = LogHeader
  /\ pc' = "scan"
  /\ UNCHANGED <<logs, pages, cur, i, acc, last>>

\* The while condition, and the signature test of its body.
InLog == pc = "scan" /\ pos + SigLen <= Log.len
AtEntry == InLog /\ pos \in DOMAIN Log.entry

ScanForward ==
  /\ InLog /\ ~AtEntry
  /\ pos' = pos + 1
  /\ UNCHANGED <<logs, pages, cur, i, acc, pc, last>>

BeginEntry ==
  /\ AtEntry
  /\ pos + EntryHeader <= Log.len
  /\ i' = 0 /\ acc' = 0
  /\ pc' = "refs"
  /\ UNCHANGED <<logs, pages, cur, pos, last>>

\* End of the log, or an entry whose header is cut off (break).
EndLog ==
  /\ pc = "scan"
  /\ ~InLog \/ (AtEntry /\ pos + EntryHeader > Log.len)
  /\ cur' = cur + 1
  /\ pc' = "log"
  /\ UNCHANGED <<logs, pages, pos, i, acc, last>>

Refs == Log.entry[pos].refs
RefStart == pos + EntryHeader
DataStart == RefStart + Len(Refs) * RefLen
DataOffset == DataStart + acc

\* The next reference exists and lies inside the log.
AtRef ==
  /\ pc = "refs" /\ i < Len(Refs)
  /\ RefStart + i * RefLen + RefLen <= Log.len

ThisRef == Refs[i + 1]

\* Mutants: the base block is forgotten, or taken off.
PageOfInBins(r) == [off |-> r.off, log |-> cur, at |-> DataOffset, len |-> r.size]
PageOfSubtracting(r) == [off |-> r.off - BaseBlock, log |-> cur,
                         at |-> DataOffset, len |-> r.size]

PageOf(r) == [off |-> BaseBlock + r.off, log |-> cur,
              at |-> DataOffset, len |-> r.size]

\* Mutant: the page's data may run past the log.
ReadRefUnchecked ==
  /\ AtRef
  /\ pages' = Inserted(pages, PageOf(ThisRef))
  /\ last' = PageOf(ThisRef)
  /\ acc' = (acc + ThisRef.size) % U32
  /\ i' = i + 1
  /\ UNCHANGED <<logs, cur, pos, pc>>

\* One turn of the for loop: the page is applied only when its data lies
\* inside the log; the sum that places the next page counts it either way.
ReadRef ==
  /\ AtRef
  /\ IF DataOffset + ThisRef.size <= Log.len
       THEN /\ pages' = Inserted(pages, PageOf(ThisRef))
            /\ last' = PageOf(ThisRef)
       ELSE UNCHANGED <<pages, last>>
  /\ acc' = (acc + ThisRef.size) % U32
  /\ i' = i + 1
  /\ UNCHANGED <<logs, cur, pos, pc>>

\* Mutant: the entry is not left behind.
EndEntryInPlace ==
  /\ pc = "refs" /\ ~AtRef
  /\ pc' = "scan"
  /\ UNCHANGED <<logs, pages, cur, pos, i, acc, last>>

EndEntry ==
  /\ pc = "refs" /\ ~AtRef
  /\ pos' = pos + Log.entry[pos].size
  /\ pc' = "scan"
  /\ UNCHANGED <<logs, pages, cur, i, acc, last>>

Return ==
  /\ pc = "log" /\ cur > Len(logs)
  /\ pc' = "done"
  /\ UNCHANGED <<logs, pages, cur, pos, i, acc, last>>

Next == \/ SkipLog \/ OpenLog \/ ScanForward \/ BeginEntry
        \/ EndLog \/ ReadRef \/ EndEntry \/ Return

Spec == Init /\ [][Next]_vars

\* replay_transaction_logs is one call that nothing blocks.
FairSpec == Spec /\ WF_vars(Next)

-----------------------------------------------------------------------------
(* Properties.                                                             *)

Page == [log : Nat, at : Nat, len : Nat]

\* Types of the replay state.
TypeOK ==
  /\ AreLogs(logs)
  /\ DOMAIN pages \subseteq Nat
  /\ \A o \in DOMAIN pages : pages[o] \in Page
  /\ cur \in 1 .. Len(logs) + 1
  /\ pos \in Nat /\ i \in Nat /\ acc \in Nat
  /\ pc \in {"log", "scan", "refs", "done"}
  /\ last \in [off : Nat, log : Nat, at : Nat, len : Nat]

\* While a log is being read it is a log that passed the header tests and the
\* cursor is behind its header; the for loop runs on an entry whose header
\* lies inside the log.
CursorInLog ==
  /\ pc \in {"scan", "refs"} => /\ cur <= Len(logs) /\ IsReplayable(Log)
                             /\ pos >= LogHeader
  /\ pc = "refs" => /\ pos \in DOMAIN Log.entry
                    /\ pos + EntryHeader <= Log.len

\* Every dirty page is a slice of a log that passed the header tests, and lies
\* inside that log: nothing is read past its end, and a log that is skipped
\* (too short, no regf, an unknown file type) contributes no byte.
PagesComeFromLogs ==
  \A o \in DOMAIN pages :
    /\ pages[o].log \in 1 .. Len(logs)
    /\ IsReplayable(logs[pages[o].log])
    /\ pages[o].at >= LogHeader
    /\ pages[o].at + pages[o].len <= logs[pages[o].log].len

\* Replay never patches the base block: whatever the logs hold, the first
\* BaseBlock bytes of the materialized hive are those of the file on disk, so
\* its header (checksum, sequence numbers, root cell) stays the examined one.
BaseBlockPreserved ==
  \A p \in 0 .. BaseBlock - 1 : ReadByte(pages, p) = BaseByte(p)

\* The page references of a sequence of logs.
RefsOf(ls) ==
  UNION {UNION {Range(ls[n].entry[p].refs) : p \in DOMAIN ls[n].entry} :
           n \in 1 .. Len(ls)}

\* They never overlap in part: two references name the same range or disjoint
\* ones.
Tiled(ls) ==
  \A r, s \in RefsOf(ls) : /\ r.off = s.off => r.size = s.size
                           /\ r.off < s.off => r.off + r.size <= s.off

\* What the overlay promises: the materialized hive is the base with every
\* applied page on top, the latest one last.
Overlay == INSTANCE OverlayMemory WITH mem <- Materialize(pages)

ShowsEveryPage == Overlay!Spec

\* A call of replay_transaction_logs returns.
Returns == <>(pc = "done")
=============================================================================
