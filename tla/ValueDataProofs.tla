--------------------------- MODULE ValueDataProofs ---------------------------
(***************************************************************************)
(* What holds of the data of every value of every file: it is no longer    *)
(* than the value says, every byte of it stands in the value or in the     *)
(* body of an allocated cell inside the file, and the data of a large      *)
(* value is the bodies of its segments, joined and cut.                    *)
(***************************************************************************)
EXTENDS ValueData, DataLemmas

\* A byte that may stand in the data.
InCells(x) ==
  \/ vk.resident /\ x \in -InlineLen .. -1
  \/ \E p \in DOMAIN file.raw :
       /\ file.raw[p] < 0
       /\ p + SizeField <= x /\ x < p + AbsOf(file.raw[p])
       /\ x < file.len

\* The loop over the segments starts at the first.
CursorFresh == pc \in {"start", "list"} => i = 0

IInv == TypeOK /\ CursorFresh /\ DataFits /\ DataIsInCells

\* What stands in a concatenation stands in one of its parts.
LEMMA Concatenated ==
  ASSUME NEW S, NEW s \in Seq(S), NEW t \in Seq(S), NEW T,
         \A n \in 1 .. Len(s) : s[n] \in T,
         \A n \in 1 .. Len(t) : t[n] \in T
  PROVE  /\ s \o t \in Seq(S)
         /\ Len(s \o t) = Len(s) + Len(t)
         /\ \A n \in 1 .. Len(s \o t) : (s \o t)[n] \in T
  OBVIOUS

\* A cell that read_cell_raw accepts is allocated and ends inside the file.
LEMMA ReadableCell ==
  ASSUME TypeOK, NEW o, IsOffset(o), Readable(o)
  PROVE  /\ o \in Nat /\ BaseBlock + o \in Nat
         /\ BaseBlock + o \in DOMAIN file.raw
         /\ file.raw[BaseBlock + o] \in Int /\ file.raw[BaseBlock + o] < 0
         /\ BodyLen(o) \in Nat /\ BodyStart(o) \in Nat
         /\ BodyStart(o) = BaseBlock + o + SizeField
         /\ BodyStart(o) + BodyLen(o) = BaseBlock + o + AbsOf(file.raw[BaseBlock + o])
         /\ BodyStart(o) + BodyLen(o) <= file.len
  <1>1. o # NULL /\ o \in Nat /\ BaseBlock + o \in Nat
    BY ValueAssumption DEF IsOffset, Readable, Refused
  <1>2. ~(RawSize(o) >= 0) /\ ~(BaseBlock + o + AbsOf(RawSize(o)) > file.len)
        /\ ~(AbsOf(RawSize(o)) < SizeField)
    BY DEF Readable, Refused, SliceInverted
  <1>3. BaseBlock + o \in DOMAIN file.raw
    BY <1>2 DEF RawSize
  <1>4. RawSize(o) = file.raw[BaseBlock + o] /\ RawSize(o) \in Int
    BY <1>3 DEF RawSize, TypeOK, IsFile
  <1>5. AbsOf(RawSize(o)) \in Nat
    BY <1>4 DEF AbsOf
  <1>6. file.len \in Nat
    BY DEF TypeOK, IsFile
  <1>. QED
    BY <1>1, <1>2, <1>3, <1>4, <1>5, <1>6, ValueAssumption DEF BodyLen, BodyStart

\* The bytes taken from such a cell: at most as many as asked for, all of them
\* from its body.
LEMMA BytesOfCell ==
  ASSUME TypeOK, NEW o, IsOffset(o), Readable(o), NEW n \in Nat
  PROVE  /\ Bytes(o, n) \in Seq(Int)
         /\ Len(Bytes(o, n)) <= n
         /\ \A m \in 1 .. Len(Bytes(o, n)) : InCells(Bytes(o, n)[m])
  <1>. DEFINE k == Lesser(n, BodyLen(o))
              at == BodyStart(o)
  <1>1. k \in Nat /\ k <= n /\ k <= BodyLen(o) /\ at \in Nat /\ BodyLen(o) \in Nat
    BY ReadableCell DEF Lesser
  <1>2. Bytes(o, n) = [m \in 1 .. k |-> at + m - 1]
    BY DEF Bytes
  <1>. HIDE DEF k, at
  <1>3. \A m \in 1 .. k : at + m - 1 \in Int
    BY <1>1
  <1>4. Bytes(o, n) \in Seq(Int) /\ Len(Bytes(o, n)) = k
    BY <1>1, <1>2, <1>3
  <1>5. ASSUME NEW m \in 1 .. k
        PROVE  InCells(at + m - 1)
    <2>1. /\ BaseBlock + o + SizeField <= at + m - 1
          /\ at + m - 1 < BaseBlock + o + AbsOf(file.raw[BaseBlock + o])
          /\ at + m - 1 < file.len
      <3>1. /\ at = BaseBlock + o + SizeField
            /\ at + BodyLen(o) = BaseBlock + o + AbsOf(file.raw[BaseBlock + o])
            /\ at + BodyLen(o) <= file.len
        BY ReadableCell DEF at
      <3>2. at <= at + m - 1 /\ at + m - 1 < at + BodyLen(o) /\ file.len \in Nat
        BY <1>1 DEF TypeOK, IsFile
      <3>3. at + m - 1 < file.len
        BY <1>1, <3>1, <3>2
      <3>. QED
        BY <3>1, <3>2, <3>3
    <2>. QED
      BY <2>1, ReadableCell DEF InCells
  <1>. QED
    BY <1>1, <1>2, <1>4, <1>5

\* A link of the file is an offset or none.
LEMMA Links ==
  ASSUME TypeOK, NEW p
  PROVE  IsOffset(LinkAt(p))
  BY DEF TypeOK, IsFile, LinkAt, IsOffset

\* Before raw_data has read anything the data is empty.
LEMMA InitInv == Init => IInv
  <1>. SUFFICES ASSUME Init PROVE IInv
    OBVIOUS
  <1>1. out = << >> /\ Len(out) = 0 /\ out \in Seq(Int) /\ pc = "start"
    BY DEF Init
  <1>2. IsFile(file) /\ IsValue(vk)
    BY ValueAssumption DEF Init
  <1>3. TypeOK
    BY <1>1, <1>2 DEF Init, TypeOK, IsOffset
  <1>4. Len(out) <= vk.size
    BY <1>1, <1>2 DEF IsValue
  <1>. QED
    BY <1>1, <1>3, <1>4 DEF Init, IInv, CursorFresh, DataFits, DataIsInCells

\* A call that returns data from the value or from cells, no more than asked.
LEMMA DoneKeeps ==
  ASSUME IInv, NEW data \in Seq(Int), Done(data), Len(data) <= vk.size,
         \A n \in 1 .. Len(data) : InCells(data[n])
  PROVE  IInv'
  <1>1. out' = data /\ pc' = "done" /\ UNCHANGED <<file, vk, list, count, i>>
    BY DEF Done
  <1>2. TypeOK'
    BY <1>1 DEF IInv, TypeOK
  <1>. QED
    BY <1>1, <1>2 DEF IInv, CursorFresh, DataFits, DataIsInCells, InCells

\* A step that leaves the data and what was read alone.
LEMMA SameData ==
  ASSUME IInv, UNCHANGED <<file, vk, out>>,
         pc' \in {"start", "list", "segments", "done", "error", "panicked"},
         IsOffset(list'), count' \in Nat, i' \in Nat,
         pc' = "segments" => Readable(list') /\ i' <= count',
         pc' \in {"start", "list"} => i' = 0
  PROVE  IInv'
  <1>1. Readable(list)' <=> Readable(list')
    BY DEF Readable, Refused, SliceInverted, RawSize
  <1>2. TypeOK'
    BY <1>1 DEF IInv, TypeOK
  <1>. QED
    BY <1>2 DEF IInv, CursorFresh, DataFits, DataIsInCells

\* Every step of raw_data, of read_big_data and of its loop keeps the data.
LEMMA NextInv == IInv /\ [Next]_vars => IInv'
  <1>. SUFFICES ASSUME IInv, [Next]_vars PROVE IInv'
    OBVIOUS
  <1>1. /\ TypeOK /\ IsFile(file) /\ vk.size \in Nat /\ IsOffset(vk.off)
        /\ IsOffset(list) /\ count \in Nat /\ i \in Nat
        /\ out \in Seq(Int) /\ Len(out) \in Nat /\ Len(out) <= vk.size
        /\ \A n \in 1 .. Len(out) : InCells(out[n])
    BY DEF IInv, TypeOK, IsValue, DataFits, DataIsInCells, InCells
  <1>2. CASE ReturnEmpty
    <2>. DEFINE data == << >>
    <2>1. data \in Seq(Int) /\ Len(data) = 0
      OBVIOUS
    <2>2. Done(data)
      BY <1>2 DEF ReturnEmpty
    <2>. HIDE DEF data
    <2>3. Len(data) <= vk.size /\ \A n \in 1 .. Len(data) : InCells(data[n])
      BY <1>1, <2>1
    <2>. QED
      BY <2>1, <2>2, <2>3, DoneKeeps
  <1>3. CASE ReturnInline
    <2>. DEFINE k == Lesser(vk.size, InlineLen)
                data == [n \in 1 .. k |-> -n]
    <2>1. Done(data) /\ vk.resident
      BY <1>3 DEF ReturnInline
    <2>2. k \in Nat /\ k <= vk.size /\ k <= InlineLen
      BY <1>1, ValueAssumption DEF Lesser
    <2>. HIDE DEF k
    <2>3. data \in Seq(Int) /\ Len(data) = k
      BY <2>2
    <2>4. \A n \in 1 .. k : -n \in -InlineLen .. -1
      BY <2>2, ValueAssumption
    <2>5. \A n \in 1 .. Len(data) : InCells(data[n])
      BY <2>1, <2>3, <2>4 DEF InCells
    <2>. HIDE DEF data
    <2>. QED
      BY <2>1, <2>2, <2>3, <2>5, DoneKeeps
  <1>4. CASE ReadSingle \/ ReadNoDb
    <2>1. Done(Bytes(vk.off, vk.size)) /\ Readable(vk.off)
      BY <1>4 DEF ReadSingle, ReadNoDb
    <2>. QED
      BY <1>1, <2>1, BytesOfCell, DoneKeeps
  <1>5. CASE ReadDb
    <2>1. /\ BodyStart(vk.off) \in DOMAIN file.db
          /\ count' = file.db[BodyStart(vk.off)]
          /\ list' = LinkAt(BodyStart(vk.off) + DbLink)
          /\ pc' = "list" /\ i' = 0 /\ UNCHANGED <<file, vk, out>>
      BY <1>5 DEF ReadDb, AtData, IsDb, IInv, CursorFresh
    <2>2. count' \in Nat
      BY <1>1, <2>1 DEF IsFile
    <2>3. IsOffset(list')
      BY <1>1, <2>1, Links
    <2>. QED
      BY <1>1, <2>1, <2>2, <2>3, SameData
  <1>6. CASE ReadList
    <2>1. /\ pc' = "segments" /\ Readable(list) /\ UNCHANGED <<file, vk, out>>
          /\ UNCHANGED <<list, count, i>> /\ pc = "list"
      BY <1>6 DEF ReadList
    <2>2. i <= count
      BY <1>1, <2>1 DEF IInv, CursorFresh
    <2>. QED
      BY <1>1, <2>1, <2>2, SameData
  <1>7. CASE DataUnreadable \/ Panic
    <2>1. /\ pc' \in {"error", "panicked"} /\ UNCHANGED <<file, vk, out>>
          /\ UNCHANGED <<list, count, i>>
      BY <1>7 DEF DataUnreadable, Panic, Stop
    <2>. QED
      BY <1>1, <2>1, SameData
  <1>8. CASE ReadSegment
    <2>. DEFINE k == Lesser(vk.size - Len(out), BIG_DATA_SEGMENT_SIZE)
                s == Bytes(SegmentCell, k)
    <2>1. /\ pc = "segments" /\ i < count /\ Len(out) < vk.size
          /\ Readable(SegmentCell) /\ out' = out \o s /\ i' = i + 1
          /\ UNCHANGED <<file, vk, pc, list, count>>
      BY <1>8 DEF ReadSegment, AtSegment
    <2>2. k \in Nat /\ Len(out) + k <= vk.size
      BY <1>1, <2>1, ValueAssumption DEF Lesser
    <2>3. IsOffset(SegmentCell)
      BY <1>1, Links DEF SegmentCell
    <2>. HIDE DEF k
    <2>4. /\ s \in Seq(Int) /\ Len(s) <= k
          /\ \A n \in 1 .. Len(s) : InCells(s[n])
      BY <1>1, <2>1, <2>2, <2>3, BytesOfCell
    <2>. HIDE DEF s
    <2>5. /\ out \o s \in Seq(Int) /\ Len(out \o s) = Len(out) + Len(s)
          /\ \A n \in 1 .. Len(out \o s) : InCells((out \o s)[n])
      <3>. DEFINE T == {x \in Int : InCells(x)}
      <3>1. \A n \in 1 .. Len(out) : out[n] \in T
        BY <1>1
      <3>2. \A n \in 1 .. Len(s) : s[n] \in T
        BY <2>4
      <3>3. \A x \in T : InCells(x)
        OBVIOUS
      <3>. HIDE DEF T
      <3>. QED
        BY <1>1, <2>4, <3>1, <3>2, <3>3, Concatenated
    <2>6. TypeOK'
      <3>1. Readable(list) /\ Readable(list)' <=> Readable(list)
        BY <1>1, <2>1 DEF TypeOK, Readable, Refused, SliceInverted, RawSize
      <3>2. Readable(list)' /\ (i <= count)' /\ i' \in Nat
        BY <1>1, <2>1, <3>1 DEF TypeOK
      <3>. QED
        BY <1>1, <2>1, <2>5, <3>2 DEF TypeOK
    <2>7. Len(out') <= vk.size
      BY <1>1, <2>1, <2>2, <2>4, <2>5
    <2>. QED
      BY <2>1, <2>5, <2>6, <2>7 DEF IInv, CursorFresh, DataFits, DataIsInCells, InCells
  <1>9. CASE EndSegments
    <2>1. Done(out)
      BY <1>9 DEF EndSegments
    <2>. QED
      BY <1>1, <2>1, DoneKeeps
  <1>10. CASE UNCHANGED vars
    <2>1. UNCHANGED <<file, vk, out>> /\ UNCHANGED <<pc, list, count, i>>
      BY <1>10 DEF vars
    <2>. QED
      BY <1>1, <2>1, SameData DEF IInv, TypeOK, CursorFresh
  <1>. QED
    BY <1>2, <1>3, <1>4, <1>5, <1>6, <1>7, <1>8, <1>9, <1>10 DEF Next

\* Types of the reader, for every file and value ...
THEOREM DataTypeCorrect == Spec => []TypeOK
  <1>1. IInv => TypeOK
    BY DEF IInv
  <1>. QED
    BY <1>1, InitInv, NextInv, PTL DEF Spec

\* ... the data is never longer than the value says ...
THEOREM DataIsCut == Spec => []DataFits
  <1>1. IInv => DataFits
    BY DEF IInv
  <1>. QED
    BY <1>1, InitInv, NextInv, PTL DEF Spec

\* ... and comes from the value or from allocated cells inside the file.
THEOREM DataFromCells == Spec => []DataIsInCells
  <1>1. IInv => DataIsInCells
    BY DEF IInv
  <1>. QED
    BY <1>1, InitInv, NextInv, PTL DEF Spec

-----------------------------------------------------------------------------
\* What is left of a sequence when it is cut.
IsCut(c, s, k, S) == c \in Seq(S) /\ Len(c) = k /\ \A m \in 1 .. k : c[m] = s[m]

LEMMA CutFacts ==
  ASSUME NEW S, NEW s \in Seq(S), NEW n \in Nat
  PROVE  IsCut(CutTo(s, n), s, Lesser(Len(s), n), S)
  <1>1. Lesser(Len(s), n) \in Nat /\ Lesser(Len(s), n) <= Len(s)
    BY DEF Lesser
  <1>. QED
    BY <1>1 DEF CutTo, IsCut

\* Two sequences are the same that have the same members.
LEMMA SameSequence ==
  ASSUME NEW S, NEW s \in Seq(S), NEW t \in Seq(S), Len(s) = Len(t),
         \A m \in 1 .. Len(s) : s[m] = t[m]
  PROVE  s = t
  OBVIOUS

\* Cutting a concatenation cuts its second part, unless the first is enough.
LEMMA CutJoined ==
  ASSUME NEW S, NEW s \in Seq(S), NEW t \in Seq(S), NEW n \in Nat
  PROVE  /\ Len(s) >= n => CutTo(s \o t, n) = CutTo(s, n)
         /\ Len(s) <= n => CutTo(s, n) = s /\ CutTo(s \o t, n) = s \o CutTo(t, n - Len(s))
  <1>. DEFINE st == s \o t
  <1>1. /\ st \in Seq(S) /\ Len(st) = Len(s) + Len(t) /\ Len(s) \in Nat /\ Len(t) \in Nat
        /\ \A m \in 1 .. Len(s) : st[m] = s[m]
        /\ \A m \in 1 .. Len(t) : st[Len(s) + m] = t[m]
    OBVIOUS
  <1>. HIDE DEF st
  <1>. SUFFICES ASSUME NEW ls \in Nat, ls = Len(s), NEW lt \in Nat, lt = Len(t)
                PROVE  /\ ls >= n => CutTo(st, n) = CutTo(s, n)
                       /\ ls <= n => CutTo(s, n) = s /\ CutTo(st, n) = s \o CutTo(t, n - ls)
    BY <1>1 DEF st
  <1>2. ASSUME ls >= n PROVE CutTo(st, n) = CutTo(s, n)
    <2>1. n = Lesser(Len(st), n) /\ n = Lesser(Len(s), n)
      BY <1>1, <1>2 DEF Lesser
    <2>2. /\ CutTo(st, n) \in Seq(S) /\ Len(CutTo(st, n)) = n
          /\ \A m \in 1 .. n : CutTo(st, n)[m] = st[m]
      <3>1. IsCut(CutTo(st, n), st, Lesser(Len(st), n), S)
        BY <1>1, CutFacts
      <3>. QED
        BY <2>1, <3>1 DEF IsCut
    <2>3. /\ CutTo(s, n) \in Seq(S) /\ Len(CutTo(s, n)) = n
          /\ \A m \in 1 .. n : CutTo(s, n)[m] = s[m]
      <3>1. IsCut(CutTo(s, n), s, Lesser(Len(s), n), S)
        BY CutFacts
      <3>. QED
        BY <2>1, <3>1 DEF IsCut
    <2>4. \A m \in 1 .. n : st[m] = s[m]
      BY <1>1, <1>2
    <2>. QED
      BY <2>2, <2>3, <2>4, SameSequence
  <1>3. ASSUME ls <= n PROVE CutTo(s, n) = s
    <2>1. ls = Lesser(Len(s), n)
      BY <1>3 DEF Lesser
    <2>2. /\ CutTo(s, n) \in Seq(S) /\ Len(CutTo(s, n)) = ls
          /\ \A m \in 1 .. ls : CutTo(s, n)[m] = s[m]
      <3>1. IsCut(CutTo(s, n), s, Lesser(Len(s), n), S)
        BY CutFacts
      <3>. QED
        BY <2>1, <3>1 DEF IsCut
    <2>. QED
      BY <2>2, SameSequence
  <1>4. ASSUME ls <= n PROVE CutTo(st, n) = s \o CutTo(t, n - ls)
    <2>1. PICK k \in Nat : k = n - ls
      BY <1>4
    <2>2. PICK l \in Nat : l = Lesser(Len(t), k)
      BY DEF Lesser
    <2>. DEFINE u == CutTo(t, k)
    <2>3. u \in Seq(S) /\ Len(u) = l /\ \A m \in 1 .. l : u[m] = t[m]
      <3>1. IsCut(CutTo(t, k), t, Lesser(Len(t), k), S)
        BY CutFacts
      <3>. QED
        BY <2>2, <3>1 DEF IsCut
    <2>. HIDE DEF u
    <2>4. ls + l = Lesser(Len(st), n)
      BY <1>1, <2>1, <2>2 DEF Lesser
    <2>5. /\ CutTo(st, n) \in Seq(S) /\ Len(CutTo(st, n)) = ls + l
          /\ \A m \in 1 .. ls + l : CutTo(st, n)[m] = st[m]
      <3>1. IsCut(CutTo(st, n), st, Lesser(Len(st), n), S)
        BY <1>1, CutFacts
      <3>. QED
        BY <2>4, <3>1 DEF IsCut
    <2>6. l <= lt
      BY <2>2 DEF Lesser
    <2>7. /\ s \o u \in Seq(S) /\ Len(s \o u) = ls + l
          /\ \A m \in 1 .. ls : (s \o u)[m] = s[m]
          /\ \A m \in 1 .. l : (s \o u)[ls + m] = u[m]
      <3>1. s \in Seq(S) /\ u \in Seq(S) /\ Len(u) = l /\ Len(s) = ls
        BY <2>3
      <3>2. /\ s \o u \in Seq(S) /\ Len(s \o u) = Len(s) + Len(u)
            /\ \A m \in 1 .. Len(s) : (s \o u)[m] = s[m]
            /\ \A m \in 1 .. Len(u) : (s \o u)[Len(s) + m] = u[m]
        BY <3>1
      <3>. QED
        BY <3>1, <3>2
    <2>8. ASSUME NEW m \in 1 .. ls + l PROVE st[m] = (s \o u)[m]
      <3>1. CASE m \in 1 .. ls
        BY <1>1, <2>7, <3>1
      <3>2. CASE m \notin 1 .. ls
        <4>1. PICK j \in 1 .. l : m = ls + j
          <5>1. m - ls \in 1 .. l /\ m = ls + (m - ls)
            BY <3>2
          <5>. QED
            BY <5>1
        <4>2. j \in 1 .. lt
          BY <2>6
        <4>. QED
          BY <1>1, <2>3, <2>7, <4>1, <4>2
      <3>. QED
        BY <3>1, <3>2
    <2>9. CutTo(st, n) = s \o u
      BY <2>5, <2>7, <2>8, SameSequence
    <2>. QED
      BY <2>1, <2>9 DEF u
  <1>. QED
    BY <1>2, <1>3, <1>4

\* The bytes of a cell, cut.
LEMMA CutBytes ==
  ASSUME TypeOK, NEW o, IsOffset(o), Readable(o), NEW n \in Nat, NEW k \in Nat
  PROVE  CutTo(Bytes(o, n), k) = Bytes(o, Lesser(k, n))
  <1>1. BodyLen(o) \in Nat /\ BodyStart(o) \in Nat
    BY ReadableCell
  <1>2. ASSUME NEW j \in Nat
        PROVE  /\ Bytes(o, j) \in Seq(Int) /\ Len(Bytes(o, j)) = Lesser(j, BodyLen(o))
               /\ \A m \in 1 .. Lesser(j, BodyLen(o)) : Bytes(o, j)[m] = BodyStart(o) + m - 1
    <2>1. Lesser(j, BodyLen(o)) \in Nat
      BY <1>1 DEF Lesser
    <2>2. \A m \in 1 .. Lesser(j, BodyLen(o)) : BodyStart(o) + m - 1 \in Int
      BY <1>1, <2>1
    <2>. QED
      BY <2>1, <2>2 DEF Bytes
  <1>3. Lesser(k, n) \in Nat /\ Lesser(k, n) <= n
    BY DEF Lesser
  <1>4. Lesser(Lesser(n, BodyLen(o)), k) = Lesser(Lesser(k, n), BodyLen(o))
    BY <1>1 DEF Lesser
  <1>5. Lesser(Lesser(k, n), BodyLen(o)) \in Nat
        /\ Lesser(Lesser(k, n), BodyLen(o)) <= Lesser(n, BodyLen(o))
    BY <1>1, <1>3 DEF Lesser
  <1>6. /\ CutTo(Bytes(o, n), k) \in Seq(Int)
        /\ Len(CutTo(Bytes(o, n), k)) = Lesser(Lesser(k, n), BodyLen(o))
        /\ \A m \in 1 .. Lesser(Lesser(k, n), BodyLen(o)) :
             CutTo(Bytes(o, n), k)[m] = Bytes(o, n)[m]
    <2>1. Bytes(o, n) \in Seq(Int) /\ Len(Bytes(o, n)) = Lesser(n, BodyLen(o))
      BY <1>2
    <2>2. Lesser(Lesser(k, n), BodyLen(o)) = Lesser(Len(Bytes(o, n)), k)
      BY <1>4, <2>1
    <2>. QED
      BY <2>1, <2>2, CutFacts DEF IsCut
  <1>7. \A m \in 1 .. Lesser(Lesser(k, n), BodyLen(o)) :
          m \in 1 .. Lesser(n, BodyLen(o))
    BY <1>1, <1>5 DEF Lesser
  <1>8. \A m \in 1 .. Lesser(Lesser(k, n), BodyLen(o)) :
          CutTo(Bytes(o, n), k)[m] = Bytes(o, Lesser(k, n))[m]
    BY <1>2, <1>3, <1>6, <1>7
  <1>. QED
    BY <1>2, <1>3, <1>6, <1>8, SameSequence

-----------------------------------------------------------------------------
\* What a segment adds at most.
Cut(n) == Bytes(SegmentOf(n), BIG_DATA_SEGMENT_SIZE)

\* The first k segments are there.
AllGood(k) == \A n \in 1 .. k : Good(n)

LEMMA CutIsBytes ==
  ASSUME TypeOK, NEW n, Good(n)
  PROVE  Cut(n) \in Seq(Int)
  <1>1. Readable(SegmentOf(n)) /\ IsOffset(SegmentOf(n))
    BY Links DEF Good, SegmentOf
  <1>. QED
    BY <1>1, BytesOfCell, ValueAssumption DEF Cut

\* One segment more is appended.
LEMMA JoinedNext ==
  ASSUME TypeOK, NEW k \in Nat, AllGood(k)
  PROVE  /\ Joined(0) = << >>
         /\ Joined(k) \in Seq(Int)
         /\ AllGood(k + 1) => Joined(k + 1) = Joined(k) \o Cut(k + 1)
  <1>. DEFINE ss(j) == [n \in 1 .. j |-> Cut(n)]
  <1>1. \A n \in 1 .. k : Cut(n) \in Seq(Int)
    BY CutIsBytes DEF AllGood
  <1>2. ss(k) \in Seq(Seq(Int)) /\ Len(ss(k)) = k
    BY <1>1
  <1>3. ss(0) = << >>
    OBVIOUS
  <1>4. \A j : Joined(j) = FlattenSeq(ss(j))
    BY DEF Joined, Cut
  <1>5. Joined(k) \in Seq(Int)
    <2>1. << >> \in Seq(Int)
      OBVIOUS
    <2>. HIDE DEF ss
    <2>. QED
      BY <1>2, <1>4, <2>1, FlattenAppend
  <1>6. Joined(0) = << >>
    <2>1. << >> \in Seq(Int) /\ << >> \in Seq(Seq(Int))
      OBVIOUS
    <2>2. FlattenSeq(<< >>) = << >>
      BY <2>1, FlattenAppend
    <2>. QED
      BY <1>3, <1>4, <2>2
  <1>7. ASSUME AllGood(k + 1) PROVE Joined(k + 1) = Joined(k) \o Cut(k + 1)
    <2>1. k + 1 \in 1 .. k + 1
      OBVIOUS
    <2>2. Cut(k + 1) \in Seq(Int)
      BY <1>7, <2>1, CutIsBytes DEF AllGood
    <2>3. PICK c \in Seq(Int) : c = Cut(k + 1)
      BY <2>2
    <2>4. ss(k + 1) = Append(ss(k), c)
      BY <1>1, <2>3
    <2>. HIDE DEF ss
    <2>. QED
      BY <1>2, <1>4, <2>3, <2>4, FlattenAppend
  <1>. QED
    BY <1>5, <1>6, <1>7

\* Concatenation is associative.
LEMMA Associative ==
  ASSUME NEW s \in Seq(Int), NEW t \in Seq(Int), NEW u \in Seq(Int)
  PROVE  (s \o t) \o u = s \o (t \o u)
  OBVIOUS

\* What more segments hold comes behind.
LEMMA JoinedExtends ==
  ASSUME TypeOK, NEW k \in Nat, NEW u \in Nat, k <= u, AllGood(u)
  PROVE  \E t \in Seq(Int) : Joined(u) = Joined(k) \o t
  <1>. DEFINE T == {d \in Nat : k + d <= u => \E t \in Seq(Int) : Joined(k + d) = Joined(k) \o t}
  <1>1. \A j \in 0 .. u : AllGood(j)
    BY DEF AllGood
  <1>2. 0 \in T
    <2>1. Joined(k) \in Seq(Int)
      BY <1>1, JoinedNext
    <2>2. << >> \in Seq(Int) /\ Joined(k) = Joined(k) \o << >>
      BY <2>1
    <2>3. k + 0 = k
      OBVIOUS
    <2>. QED
      BY <2>2, <2>3
  <1>3. ASSUME NEW d \in 0 .. (u - k) - 1, d \in T PROVE d + 1 \in T
    <2>1. k + d \in 0 .. u /\ k + d + 1 \in 0 .. u /\ k + d <= u /\ k + d \in Nat
          /\ k + (d + 1) = k + d + 1 /\ d + 1 \in Nat
      OBVIOUS
    <2>2. PICK t \in Seq(Int) : Joined(k + d) = Joined(k) \o t
      BY <1>3, <2>1
    <2>3. /\ AllGood(k + d) /\ AllGood(k + d + 1) /\ AllGood(k)
      BY <1>1, <2>1
    <2>4. Joined(k + d + 1) = Joined(k + d) \o Cut(k + d + 1)
      BY <2>1, <2>3, JoinedNext
    <2>5. Joined(k) \in Seq(Int)
      BY <2>3, JoinedNext
    <2>6. Cut(k + d + 1) \in Seq(Int)
      <3>1. k + d + 1 \in 1 .. k + d + 1
        OBVIOUS
      <3>. QED
        BY <2>3, <3>1, CutIsBytes DEF AllGood
    <2>7. PICK a \in Seq(Int), b \in Seq(Int) : a = Joined(k) /\ b = Cut(k + d + 1)
      BY <2>5, <2>6
    <2>8. (a \o t) \o b = a \o (t \o b)
      BY Associative
    <2>9. t \o b \in Seq(Int)
      OBVIOUS
    <2>10. \E v \in Seq(Int) : Joined(k + (d + 1)) = Joined(k) \o v
      BY <2>1, <2>2, <2>4, <2>7, <2>8, <2>9
    <2>. QED
      BY <2>1, <2>10
  <1>. HIDE DEF T
  <1>4. u - k \in Nat
    OBVIOUS
  <1>5. \A d \in 0 .. u - k : d \in T
    BY <1>2, <1>3, <1>4, UpTo
  <1>6. u - k \in T /\ k + (u - k) = u
    BY <1>4, <1>5
  <1>. QED
    BY <1>6 DEF T

\* Full segments hold as many bytes as their size and number say.
LEMMA JoinedFull ==
  ASSUME TypeOK, NEW u \in Nat, AllGood(u),
         \A n \in 1 .. u : BodyLen(SegmentOf(n)) >= BIG_DATA_SEGMENT_SIZE
  PROVE  Len(Joined(u)) = u * BIG_DATA_SEGMENT_SIZE
  <1>. DEFINE T == {k \in Nat : k <= u => Len(Joined(k)) = k * BIG_DATA_SEGMENT_SIZE}
  <1>1. \A j \in 0 .. u : AllGood(j)
    BY DEF AllGood
  <1>2. 0 \in T
    <2>1. Joined(0) = << >> /\ Len(<< >>) = 0
      BY <1>1, JoinedNext
    <2>2. 0 * BIG_DATA_SEGMENT_SIZE = 0
      BY ValueAssumption
    <2>. QED
      BY <2>1, <2>2
  <1>3. ASSUME NEW k \in 0 .. u - 1, k \in T PROVE k + 1 \in T
    <2>1. k \in 0 .. u /\ k + 1 \in 0 .. u /\ k + 1 \in 1 .. u /\ k + 1 \in 1 .. k + 1
      OBVIOUS
    <2>2. /\ Joined(k) \in Seq(Int) /\ Joined(k + 1) = Joined(k) \o Cut(k + 1)
          /\ Len(Joined(k)) = k * BIG_DATA_SEGMENT_SIZE
      <3>1. AllGood(k) /\ AllGood(k + 1) /\ k \in Nat /\ k <= u
        BY <1>1, <2>1
      <3>2. Joined(k) \in Seq(Int) /\ Joined(k + 1) = Joined(k) \o Cut(k + 1)
        BY <3>1, JoinedNext
      <3>3. Len(Joined(k)) = k * BIG_DATA_SEGMENT_SIZE
        BY <1>3, <3>1
      <3>. QED
        BY <3>2, <3>3
    <2>3. Good(k + 1) /\ Cut(k + 1) \in Seq(Int)
      BY <2>1, CutIsBytes DEF AllGood
    <2>4. Len(Cut(k + 1)) = BIG_DATA_SEGMENT_SIZE
      <3>1. IsOffset(SegmentOf(k + 1)) /\ Readable(SegmentOf(k + 1))
        BY <2>3, Links DEF Good, SegmentOf
      <3>2. BodyLen(SegmentOf(k + 1)) \in Nat
        BY <3>1, ReadableCell
      <3>3. Lesser(BIG_DATA_SEGMENT_SIZE, BodyLen(SegmentOf(k + 1))) = BIG_DATA_SEGMENT_SIZE
        BY <2>1, <3>2, ValueAssumption DEF Lesser
      <3>4. BIG_DATA_SEGMENT_SIZE \in Nat
        BY ValueAssumption
      <3>5. Cut(k + 1) = [m \in 1 .. BIG_DATA_SEGMENT_SIZE |-> BodyStart(SegmentOf(k + 1)) + m - 1]
        BY <3>3 DEF Cut, Bytes
      <3>. QED
        BY <2>3, <3>4, <3>5
    <2>5. (k + 1) * BIG_DATA_SEGMENT_SIZE = k * BIG_DATA_SEGMENT_SIZE + BIG_DATA_SEGMENT_SIZE
      BY ValueAssumption
    <2>6. Len(Joined(k) \o Cut(k + 1)) = Len(Joined(k)) + Len(Cut(k + 1))
      BY <2>2, <2>3, ConcatProperties, Zenon
    <2>. QED
      BY <2>2, <2>4, <2>5, <2>6
  <1>. HIDE DEF T
  <1>4. u \in T
    BY <1>2, <1>3, UpTo
  <1>. QED
    BY <1>4 DEF T

\* There is a last usable segment, and it is the one before the first that is
\* not good.
LEMMA UsableIs ==
  ASSUME count \in Nat
  PROVE  /\ Usable \in 0 .. count /\ AllGood(Usable)
         /\ \A k \in 0 .. count : AllGood(k) =>
              k <= Usable /\ ((k = count \/ ~Good(k + 1)) => Usable = k)
  <1>. DEFINE IsLast(k) == (\A n \in 1 .. k : Good(n)) /\ (k < count => ~Good(k + 1))
              T == {k \in 0 .. count : k = count \/ ~Good(k + 1)}
  <1>1. \E k \in 0 .. count : IsLast(k)
    <2>1. T \in SUBSET Nat /\ count \in T
      OBVIOUS
    <2>. HIDE DEF T
    <2>2. PICK k \in T : \A m \in T : k <= m
      BY <2>1, LeastElement
    <2>. USE DEF T
    <2>3. ASSUME NEW n \in 1 .. k PROVE Good(n)
      <3>1. n - 1 \in 0 .. count /\ n - 1 # count /\ ~(k <= n - 1) /\ n - 1 + 1 = n
        OBVIOUS
      <3>2. n - 1 \notin T
        BY <2>2, <3>1
      <3>. QED
        BY <3>1, <3>2
    <2>. QED
      BY <2>3
  <1>2. Usable \in 0 .. count /\ IsLast(Usable)
    BY <1>1 DEF Usable
  <1>3. ASSUME NEW k \in 0 .. count, AllGood(k)
        PROVE  k <= Usable /\ ((k = count \/ ~Good(k + 1)) => Usable = k)
    <2>. SUFFICES ASSUME NEW u \in 0 .. count, u = Usable
                  PROVE  k <= u /\ ((k = count \/ ~Good(k + 1)) => u = k)
      BY <1>2
    <2>1. u < k => u + 1 \in 1 .. k /\ u < count
      OBVIOUS
    <2>2. k <= u
      BY <1>2, <1>3, <2>1 DEF AllGood
    <2>3. k < u => k + 1 \in 1 .. u /\ k # count
      OBVIOUS
    <2>. QED
      BY <1>2, <2>2, <2>3
  <1>. QED
    BY <1>2, <1>3 DEF AllGood

-----------------------------------------------------------------------------
\* The data is what the first k segments hold, cut at the size of the value.
ReadSoFar(k) == k \in 0 .. count /\ AllGood(k) /\ out = CutTo(Joined(k), vk.size)

\* Nothing is read before the loop; in it the first i segments are; and when
\* it is left nothing is missing, or no segment is left, or the next is no good.
SegmentsInv ==
  /\ pc \in {"start", "list"} => out = << >>
  /\ pc = "segments" => \E k \in {i} : ReadSoFar(k)
  /\ pc = "done" /\ IsBigData =>
       \E k \in {i} :
         ReadSoFar(k) /\ (Len(out) = vk.size \/ k = count \/ ~Good(k + 1))

\* Whether a cell holds a record, which segments are good and what they hold
\* depends on the file and the list alone.
LEMMA SameSegments ==
  ASSUME UNCHANGED <<file, list>>, NEW k
  PROVE  /\ Good(k)' <=> Good(k)
         /\ AllGood(k)' <=> AllGood(k)
         /\ Joined(k)' = Joined(k)
  <1>1. \A n : Good(n)' <=> Good(n)
    BY DEF Good, SegmentOf, LinkAt, BodyStart, BodyLen, RawSize, Readable, Refused, SliceInverted
  <1>2. Joined(k)' = Joined(k)
    BY DEF Joined, Bytes, SegmentOf, LinkAt, BodyStart, BodyLen, RawSize
  <1>. QED
    BY <1>1, <1>2 DEF AllGood

\* A step that leaves the file, the value, the list and the data alone changes
\* nothing about what was read.
LEMMA SameReading ==
  ASSUME UNCHANGED <<file, vk, list, count, out>>, NEW k
  PROVE  /\ ReadSoFar(k)' <=> ReadSoFar(k)
         /\ Good(k + 1)' <=> Good(k + 1)
         /\ IsBigData' <=> IsBigData
  <1>1. IsBigData' <=> IsBigData
    BY DEF IsBigData, IsDb, BodyLen, BodyStart, RawSize
  <1>2. Good(k + 1)' <=> Good(k + 1)
    BY SameSegments
  <1>3. (AllGood(k)' <=> AllGood(k)) /\ Joined(k)' = Joined(k)
    BY SameSegments
  <1>. QED
    BY <1>1, <1>2, <1>3 DEF ReadSoFar, CutTo

\* A turn of the loop appends what the next segment holds, as far as it goes.
LEMMA SegmentRead ==
  ASSUME IInv, ReadSegment, ReadSoFar(i)
  PROVE  \E k \in {i + 1} : ReadSoFar(k)'
  <1>1. /\ TypeOK /\ i \in Nat /\ count \in Nat /\ vk.size \in Nat /\ out \in Seq(Int)
    BY DEF IInv, TypeOK, IsValue
  <1>2. /\ i < count /\ Len(out) < vk.size /\ Readable(SegmentCell)
        /\ i * LinkLen + LinkLen <= BodyLen(list)
        /\ out' = out \o Bytes(SegmentCell, Lesser(vk.size - Len(out), BIG_DATA_SEGMENT_SIZE))
        /\ UNCHANGED <<file, vk, list, count>>
    BY DEF ReadSegment, AtSegment
  <1>3. SegmentCell = SegmentOf(i + 1)
    <2>1. (i + 1) - 1 = i
      BY <1>1
    <2>. QED
      BY <2>1 DEF SegmentCell, SegmentOf
  <1>4. AllGood(i + 1)
    <2>1. (i + 1) * LinkLen = i * LinkLen + LinkLen
      BY <1>1, ValueAssumption
    <2>2. Good(i + 1)
      BY <1>2, <1>3, <2>1 DEF Good
    <2>3. \A n \in 1 .. i + 1 : n \in 1 .. i \/ n = i + 1
      BY <1>1
    <2>. QED
      BY <2>2, <2>3 DEF ReadSoFar, AllGood
  <1>5. /\ AllGood(i) /\ Joined(i) \in Seq(Int) /\ Joined(i + 1) = Joined(i) \o Cut(i + 1)
        /\ out = CutTo(Joined(i), vk.size)
    BY <1>1, <1>4, JoinedNext DEF ReadSoFar
  <1>6. Cut(i + 1) \in Seq(Int)
    <2>1. i + 1 \in 1 .. i + 1
      BY <1>1
    <2>. QED
      BY <1>1, <1>4, <2>1, CutIsBytes DEF AllGood
  <1>7. Len(Joined(i)) <= vk.size
    <2>1. Len(out) = Lesser(Len(Joined(i)), vk.size)
      BY <1>1, <1>5, CutFacts DEF IsCut
    <2>2. Len(Joined(i)) \in Nat
      BY <1>5
    <2>. QED
      BY <1>1, <1>2, <2>1, <2>2 DEF Lesser
  <1>8. /\ out = Joined(i)
        /\ CutTo(Joined(i + 1), vk.size) = out \o CutTo(Cut(i + 1), vk.size - Len(out))
    <2>1. PICK s \in Seq(Int), t \in Seq(Int), n \in Nat :
            s = Joined(i) /\ t = Cut(i + 1) /\ n = vk.size
      BY <1>1, <1>5, <1>6
    <2>2. Len(s) <= n
      BY <1>7, <2>1
    <2>3. CutTo(s, n) = s /\ CutTo(s \o t, n) = s \o CutTo(t, n - Len(s))
      BY <2>2, CutJoined
    <2>. QED
      BY <1>5, <2>1, <2>3
  <1>9. CutTo(Cut(i + 1), vk.size - Len(out))
          = Bytes(SegmentCell, Lesser(vk.size - Len(out), BIG_DATA_SEGMENT_SIZE))
    <2>1. vk.size - Len(out) \in Nat /\ BIG_DATA_SEGMENT_SIZE \in Nat
      BY <1>1, <1>2, ValueAssumption
    <2>2. IsOffset(SegmentOf(i + 1))
      BY <1>1, Links DEF SegmentOf
    <2>. QED
      BY <1>1, <1>2, <1>3, <2>1, <2>2, CutBytes DEF Cut
  <1>10. out' = CutTo(Joined(i + 1), vk.size)
    BY <1>2, <1>8, <1>9
  <1>11. PICK k \in 0 .. count : k = i + 1
    BY <1>1, <1>2
  <1>12. AllGood(k)' /\ Joined(k)' = Joined(k)
    BY <1>2, <1>4, <1>11, SameSegments
  <1>13. ReadSoFar(k)'
    BY <1>2, <1>10, <1>11, <1>12 DEF ReadSoFar, CutTo
  <1>. QED
    BY <1>11, <1>13

\* Every step of raw_data keeps count of the segments it has read.
LEMMA SegmentsStep == IInv /\ SegmentsInv /\ [Next]_vars => SegmentsInv'
  <1>. SUFFICES ASSUME IInv, SegmentsInv, [Next]_vars PROVE SegmentsInv'
    OBVIOUS
  <1>1. /\ TypeOK /\ i \in Nat /\ count \in Nat /\ vk.size \in Nat /\ out \in Seq(Int)
        /\ Len(out) <= vk.size
    BY DEF IInv, TypeOK, IsValue, DataFits
  <1>2. CASE ReturnEmpty \/ ReturnInline \/ ReadSingle \/ ReadNoDb
    <2>1. pc' = "done" /\ UNCHANGED <<file, vk>>
      BY <1>2 DEF ReturnEmpty, ReturnInline, ReadSingle, ReadNoDb, Done
    <2>2. ~IsBigData
      BY <1>1, <1>2, ValueAssumption
         DEF ReturnEmpty, ReturnInline, ReadSingle, ReadNoDb, AtData, IsBigData
    <2>3. ~IsBigData'
      BY <2>1, <2>2 DEF IsBigData, IsDb, BodyLen, BodyStart, RawSize
    <2>. QED
      BY <2>1, <2>3 DEF SegmentsInv
  <1>3. CASE ReadDb
    <2>1. pc = "start" /\ pc' = "list" /\ out' = out
      BY <1>3 DEF ReadDb, AtData
    <2>. QED
      BY <2>1 DEF SegmentsInv
  <1>4. CASE ReadList
    <2>1. /\ pc = "list" /\ pc' = "segments"
          /\ UNCHANGED <<file, vk, list, count, i, out>>
      BY <1>4 DEF ReadList
    <2>2. i = 0 /\ out = << >>
      BY <2>1 DEF IInv, CursorFresh, SegmentsInv
    <2>3. AllGood(0)
      BY DEF AllGood
    <2>4. Joined(0) = << >>
      BY <1>1, <2>3, JoinedNext
    <2>5. CutTo(<< >>, vk.size) = << >>
      <3>1. << >> \in Seq(Int) /\ Len(<< >>) = 0 /\ Len(<< >>) <= vk.size
        BY <1>1
      <3>2. PICK n \in Nat : n = vk.size
        BY <1>1
      <3>3. CutTo(<< >>, n) = << >>
        BY <3>1, <3>2, CutJoined
      <3>. QED
        BY <3>2, <3>3
    <2>6. ReadSoFar(0)
      BY <1>1, <2>2, <2>3, <2>4, <2>5 DEF ReadSoFar
    <2>7. ReadSoFar(0)'
      BY <2>1, <2>6, SameReading
    <2>. QED
      BY <2>1, <2>2, <2>7 DEF SegmentsInv
  <1>5. CASE DataUnreadable \/ Panic
    <2>1. pc' \in {"error", "panicked"}
      BY <1>5 DEF DataUnreadable, Panic, Stop
    <2>. QED
      BY <2>1 DEF SegmentsInv
  <1>6. CASE ReadSegment
    <2>1. pc = "segments" /\ pc' = "segments" /\ i' = i + 1
      BY <1>6 DEF ReadSegment, AtSegment
    <2>2. ReadSoFar(i)
      BY <2>1 DEF SegmentsInv
    <2>3. \E k \in {i + 1} : ReadSoFar(k)'
      BY <1>6, <2>2, SegmentRead
    <2>. QED
      BY <2>1, <2>3 DEF SegmentsInv
  <1>7. CASE EndSegments
    <2>1. /\ pc = "segments" /\ pc' = "done" /\ UNCHANGED <<file, vk, list, count, i, out>>
      BY <1>7 DEF EndSegments, Done
    <2>2. PICK k \in {i} : ReadSoFar(k)
      BY <2>1 DEF SegmentsInv
    <2>3. Len(out) = vk.size \/ k = count \/ ~Good(k + 1)
      <3>1. SegmentCell = SegmentOf(k + 1) /\ (k + 1) * LinkLen = i * LinkLen + LinkLen
        <4>1. (k + 1) - 1 = i /\ k = i
          BY <1>1
        <4>2. (k + 1) * LinkLen = i * LinkLen + LinkLen
          BY <1>1, ValueAssumption
        <4>. QED
          BY <4>1, <4>2 DEF SegmentCell, SegmentOf
      <3>2. ASSUME Len(out) < vk.size, i < count PROVE ~Good(k + 1)
        <4>. SUFFICES ASSUME Good(k + 1) PROVE FALSE
          OBVIOUS
        <4>1. AtSegment
          BY <2>1, <3>1, <3>2 DEF AtSegment, Good
        <4>. QED
          BY <1>7, <3>1, <4>1 DEF EndSegments, Good, Readable
      <3>3. k \in 0 .. count /\ k = i
        BY <2>2 DEF ReadSoFar
      <3>. QED
        BY <1>1, <3>2, <3>3
    <2>4. ReadSoFar(k)' /\ (Good(k + 1)' <=> Good(k + 1))
      BY <2>1, <2>2, SameReading
    <2>. QED
      BY <2>1, <2>2, <2>3, <2>4 DEF SegmentsInv
  <1>8. CASE UNCHANGED vars
    <2>1. /\ UNCHANGED pc /\ UNCHANGED i /\ UNCHANGED <<file, vk, list, count, out>>
      BY <1>8 DEF vars
    <2>2. /\ \A k : /\ ReadSoFar(k)' <=> ReadSoFar(k)
                    /\ Good(k + 1)' <=> Good(k + 1)
          /\ IsBigData' <=> IsBigData
      BY <2>1, SameReading
    <2>. QED
      BY <2>1, <2>2 DEF SegmentsInv
  <1>. QED
    BY <1>2, <1>3, <1>4, <1>5, <1>6, <1>7, <1>8 DEF Next

\* What is read up to the first segment that is no good, or up to the size of
\* the value, is what all the usable segments hold, cut at that size.
LEMMA UsableRead ==
  ASSUME IInv, NEW k, ReadSoFar(k), Len(out) = vk.size \/ k = count \/ ~Good(k + 1)
  PROVE  out = CutTo(Joined(Usable), vk.size)
  <1>1. TypeOK /\ count \in Nat /\ vk.size \in Nat
    BY DEF IInv, TypeOK, IsValue
  <1>2. k \in 0 .. count /\ k \in Nat /\ AllGood(k) /\ out = CutTo(Joined(k), vk.size)
    BY <1>1 DEF ReadSoFar
  <1>3. PICK u \in 0 .. count : u = Usable
    BY <1>1, UsableIs
  <1>4. AllGood(u) /\ k <= u /\ (k = count \/ ~Good(k + 1) => u = k)
    BY <1>1, <1>2, <1>3, UsableIs
  <1>5. CASE Len(out) = vk.size
    <2>1. PICK t \in Seq(Int) : Joined(u) = Joined(k) \o t
      <3>1. PICK m \in Nat, n \in Nat : m = k /\ n = u
        BY <1>2
      <3>. QED
        BY <1>1, <1>4, <3>1, JoinedExtends
    <2>2. PICK s \in Seq(Int) : s = Joined(k)
      BY <1>1, <1>2, JoinedNext
    <2>3. Len(s) >= vk.size
      <3>1. Len(out) = Lesser(Len(s), vk.size)
        BY <1>1, <1>2, <2>2, CutFacts DEF IsCut
      <3>2. Len(s) \in Nat
        OBVIOUS
      <3>. QED
        BY <1>1, <1>5, <3>1, <3>2 DEF Lesser
    <2>4. CutTo(s \o t, vk.size) = CutTo(s, vk.size)
      BY <1>1, <2>3, CutJoined
    <2>. QED
      BY <1>2, <1>3, <2>1, <2>2, <2>4
  <1>6. CASE Len(out) # vk.size
    BY <1>2, <1>3, <1>4, <1>6
  <1>. QED
    BY <1>5, <1>6

\* Segments that are full and enough fill the value.
LEMMA FullRead ==
  ASSUME IInv, count * BIG_DATA_SEGMENT_SIZE >= vk.size,
         \A n \in 1 .. count : Good(n) /\ BodyLen(SegmentOf(n)) >= BIG_DATA_SEGMENT_SIZE
  PROVE  Len(CutTo(Joined(Usable), vk.size)) = vk.size
  <1>1. TypeOK /\ count \in Nat /\ vk.size \in Nat
    BY DEF IInv, TypeOK, IsValue
  <1>2. AllGood(count)
    BY DEF AllGood
  <1>3. Usable = count
    BY <1>1, <1>2, UsableIs
  <1>4. Len(Joined(count)) = count * BIG_DATA_SEGMENT_SIZE /\ Joined(count) \in Seq(Int)
    BY <1>1, <1>2, JoinedFull, JoinedNext
  <1>5. Lesser(Len(Joined(count)), vk.size) = vk.size
    <2>1. Len(Joined(count)) \in Nat /\ Len(Joined(count)) >= vk.size
      BY <1>4
    <2>. QED
      BY <1>1, <2>1 DEF Lesser
  <1>6. Len(CutTo(Joined(count), vk.size)) = Lesser(Len(Joined(count)), vk.size)
    BY <1>1, <1>4, CutFacts DEF IsCut
  <1>. QED
    BY <1>3, <1>5, <1>6

\* The data of a large value is what its segments hold, in their order, up to
\* the first that is missing, unlisted or unreadable: read_big_data loses and
\* repeats nothing, whatever the list and the segments are.
THEOREM DataIsJoined == Spec => []DataIsExact
  <1>1. Init => SegmentsInv
    BY DEF Init, SegmentsInv
  <1>2. IInv /\ SegmentsInv => DataIsExact
    <2>. SUFFICES ASSUME IInv, SegmentsInv, pc = "done", IsBigData PROVE DataIsExact
      BY DEF DataIsExact
    <2>1. PICK k \in {i} :
            ReadSoFar(k) /\ (Len(out) = vk.size \/ k = count \/ ~Good(k + 1))
      BY DEF SegmentsInv
    <2>2. out = CutTo(Joined(Usable), vk.size)
      BY <2>1, UsableRead
    <2>. QED
      BY <2>2, FullRead DEF DataIsExact
  <1>. QED
    BY <1>1, <1>2, InitInv, NextInv, SegmentsStep, PTL DEF Spec
=============================================================================
