------------------------------ MODULE ValueData ------------------------------
(***************************************************************************)
(* The bytes of a value: Value::raw_data and read_big_data                 *)
(* (winreg-core/src/value.rs) and the read_cell_raw of a hive file that    *)
(* they call (winreg-core/src/cell_reader.rs).                             *)
(*                                                                         *)
(* A byte of the file is its position; the n-th byte of the field that     *)
(* holds the data of a resident value is -n.  A file is its length, the    *)
(* numbers that stand in it where size fields are read, the segment counts *)
(* of the places that hold the signature "db", and the cell offsets that   *)
(* stand in it where links are read.                                       *)
(***************************************************************************)
EXTENDS Integers, Sequences, SequencesExt

CONSTANTS
  BaseBlock,   \* 4096
  SizeField,   \* 4: bytes of a cell's size field
  DbHeader,    \* 8: bytes of a big data record
  DbLink,      \* 4: where in it the offset of the segment list stands
  LinkLen,     \* 4: bytes of an entry of that list
  InlineLen,   \* 4: bytes of the data offset field
  BIG_DATA_THRESHOLD,
  BIG_DATA_SEGMENT_SIZE,
  NULL,        \* CellOffset 0xFFFFFFFF
  Inputs       \* [file, vk]

IsOffset(o) == o = NULL \/ o \in Nat

IsFile(f) ==
  /\ f.len \in Nat
  /\ \A p \in DOMAIN f.raw : f.raw[p] \in Int
  /\ \A p \in DOMAIN f.db : f.db[p] \in Nat
  /\ \A p \in DOMAIN f.link : IsOffset(f.link[p])

IsValue(v) == v.size \in Nat /\ v.resident \in BOOLEAN /\ IsOffset(v.off)

ASSUME ValueAssumption ==
  /\ BaseBlock \in Nat /\ SizeField \in Nat \ {0}
  /\ DbHeader \in Nat /\ DbLink \in Nat
  /\ LinkLen \in Nat \ {0} /\ InlineLen \in Nat
  /\ BIG_DATA_THRESHOLD \in Nat /\ BIG_DATA_SEGMENT_SIZE \in Nat \ {0}
  /\ NULL \notin Nat
  /\ \A x \in Inputs : IsFile(x.file) /\ IsValue(x.vk)

VARIABLES
  file,
  vk,      \* size, resident flag and data offset of the value
  pc,      \* "start", "list", "segments", "done", "error" or "panicked"
  list,    \* the cell of the segment list
  count,   \* segment_count
  i,       \* the next segment
  out      \* the data

vars == <<file, vk, pc, list, count, i, out>>

AbsOf(n) == IF n < 0 THEN -n ELSE n
Lesser(m, n) == IF m <= n THEN m ELSE n

-----------------------------------------------------------------------------
(* read_cell_raw.  Numbers and links that the file does not tell are 0 and *)
(* NULL: a free cell and no cell.                                          *)

RawSize(o) == IF BaseBlock + o \in DOMAIN file.raw THEN file.raw[BaseBlock + o] ELSE 0

\* Mutant: the end of a cell is not compared with the end of the file.
RefusedUnbounded(o) ==
  o # NULL => \/ BaseBlock + o + SizeField > file.len
              \/ RawSize(o) >= 0

\* No cell, no size field, a free cell, or a cell that ends behind the file.
Refused(o) ==
  o # NULL => \/ BaseBlock + o + SizeField > file.len
              \/ RawSize(o) >= 0
              \/ BaseBlock + o + AbsOf(RawSize(o)) > file.len

\* data[file_offset + 4 .. end] with an end before its start.
SliceInverted(o) == ~Refused(o) /\ AbsOf(RawSize(o)) < SizeField

Readable(o) == ~Refused(o) /\ ~SliceInverted(o)

BodyStart(o) == BaseBlock + o + SizeField
BodyLen(o) == AbsOf(RawSize(o)) - SizeField

\* The first n bytes of a body.
Bytes(o, n) == [m \in 1 .. Lesser(n, BodyLen(o)) |-> BodyStart(o) + m - 1]

LinkAt(p) == IF p \in DOMAIN file.link THEN file.link[p] ELSE NULL

-----------------------------------------------------------------------------
Init ==
  /\ \E x \in Inputs : file = x.file /\ vk = x.vk
  /\ pc = "start"
  /\ list = NULL /\ count = 0 /\ i = 0
  /\ out = << >>

Done(data) ==
  /\ out' = data
  /\ pc' = "done"
  /\ UNCHANGED <<file, vk, list, count, i>>

Stop(outcome) ==
  /\ pc' = outcome
  /\ UNCHANGED <<file, vk, list, count, i, out>>

ReturnEmpty == pc = "start" /\ vk.size = 0 /\ Done(<< >>)

\* The data stands in the field of the data offset.
ReturnInline ==
  /\ pc = "start" /\ vk.size # 0 /\ vk.resident
  /\ Done([n \in 1 .. Lesser(vk.size, InlineLen) |-> -n])

AtData == pc = "start" /\ vk.size # 0 /\ ~vk.resident

ReadSingle ==
  /\ AtData /\ vk.size <= BIG_DATA_THRESHOLD /\ Readable(vk.off)
  /\ Done(Bytes(vk.off, vk.size))

IsDb(o) == BodyLen(o) >= DbHeader /\ BodyStart(o) \in DOMAIN file.db

\* A large value whose cell is no db record after all: what the cell holds.
ReadNoDb ==
  /\ AtData /\ vk.size > BIG_DATA_THRESHOLD /\ Readable(vk.off) /\ ~IsDb(vk.off)
  /\ Done(Bytes(vk.off, vk.size))

ReadDb ==
  /\ AtData /\ vk.size > BIG_DATA_THRESHOLD /\ Readable(vk.off) /\ IsDb(vk.off)
  /\ count' = file.db[BodyStart(vk.off)]
  /\ list' = LinkAt(BodyStart(vk.off) + DbLink)
  /\ pc' = "list"
  /\ UNCHANGED <<file, vk, i, out>>

ReadList ==
  /\ pc = "list" /\ Readable(list)
  /\ pc' = "segments"
  /\ UNCHANGED <<file, vk, list, count, i, out>>

DataUnreadable ==
  \/ AtData /\ Refused(vk.off) /\ Stop("error")
  \/ pc = "list" /\ Refused(list) /\ Stop("error")

\* Mutants: the list is read whatever its length; one turn too many.
AtSegmentUnlisted == pc = "segments" /\ i < count /\ Len(out) < vk.size
AtSegmentPast ==
  /\ pc = "segments" /\ i <= count /\ Len(out) < vk.size
  /\ i * LinkLen + LinkLen <= BodyLen(list)

\* A turn of the loop that finds an entry in the list.
AtSegment ==
  /\ pc = "segments" /\ i < count /\ Len(out) < vk.size
  /\ i * LinkLen + LinkLen <= BodyLen(list)

SegmentCell == LinkAt(BodyStart(list) + i * LinkLen)

\* A segment adds up to 16344 bytes, and no more than the value lacks.
ReadSegment ==
  /\ AtSegment /\ Readable(SegmentCell)
  /\ out' = out \o Bytes(SegmentCell, Lesser(vk.size - Len(out), BIG_DATA_SEGMENT_SIZE))
  /\ i' = i + 1
  /\ UNCHANGED <<file, vk, pc, list, count>>

\* The data ends where the segments do: out of segments, out of entries, full,
\* or at a segment that cannot be read.
EndSegments ==
  /\ pc = "segments"
  /\ AtSegment => Refused(SegmentCell)
  /\ Done(out)

Panic ==
  /\ \/ AtData /\ SliceInverted(vk.off)
     \/ pc = "list" /\ SliceInverted(list)
     \/ AtSegment /\ SliceInverted(SegmentCell)
  /\ Stop("panicked")

Next == \/ ReturnEmpty \/ ReturnInline
        \/ ReadSingle \/ ReadNoDb \/ ReadDb \/ ReadList \/ DataUnreadable
        \/ ReadSegment \/ EndSegments \/ Panic

Spec == Init /\ [][Next]_vars

-----------------------------------------------------------------------------
\* Types of the reader; the list is a cell that was read.
TypeOK ==
  /\ IsFile(file) /\ IsValue(vk)
  /\ pc \in {"start", "list", "segments", "done", "error", "panicked"}
  /\ IsOffset(list) /\ count \in Nat /\ i \in Nat
  /\ out \in Seq(Int)
  /\ pc = "segments" => Readable(list) /\ i <= count

\* The data is never longer than the value says, whatever its segments hold.
DataFits == Len(out) <= vk.size

\* Every byte of the data stands in the value itself or in the file, in the
\* body of an allocated cell.
DataIsInCells ==
  \A n \in 1 .. Len(out) :
    \/ vk.resident /\ out[n] \in -InlineLen .. -1
    \/ \E p \in DOMAIN file.raw :
         /\ file.raw[p] < 0
         /\ p + SizeField <= out[n] /\ out[n] < p + AbsOf(file.raw[p])
         /\ out[n] < file.len

-----------------------------------------------------------------------------
\* The cell of the n-th segment, and whether the list names it and it can be
\* read.
SegmentOf(n) == LinkAt(BodyStart(list) + (n - 1) * LinkLen)
Good(n) == n * LinkLen <= BodyLen(list) /\ Readable(SegmentOf(n))

\* The number of segments before the first that is not good.
Usable == CHOOSE k \in 0 .. count : (\A n \in 1 .. k : Good(n)) /\ (k < count => ~Good(k + 1))

\* The bodies of the first k segments, each cut at the size of a segment.
Joined(k) == FlattenSeq([n \in 1 .. k |-> Bytes(SegmentOf(n), BIG_DATA_SEGMENT_SIZE)])

CutTo(s, n) == SubSeq(s, 1, Lesser(Len(s), n))

IsBigData == vk.size > BIG_DATA_THRESHOLD /\ ~vk.resident /\ IsDb(vk.off)

\* The data of a large value is what its segments hold, one after the other, up
\* to the first that is missing, unlisted or unreadable, and cut at the size of
\* the value; it is complete if the segments are full and enough.
DataIsExact ==
  pc = "done" /\ IsBigData =>
    /\ out = CutTo(Joined(Usable), vk.size)
    /\ count * BIG_DATA_SEGMENT_SIZE >= vk.size
         /\ (\A n \in 1 .. count :
               Good(n) /\ BodyLen(SegmentOf(n)) >= BIG_DATA_SEGMENT_SIZE)
         => Len(out) = vk.size

-----------------------------------------------------------------------------
\* "Panic-free - ... lengths, offsets, and counts are range-checked before use"
\* (docs/index.md:28).
NoPanic == pc # "panicked"
=============================================================================
