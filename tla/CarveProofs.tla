----------------------------- MODULE CarveProofs -----------------------------
(***************************************************************************)
(* For every file: the catalog of hive bins is a chain inside the file.    *)
(* For every file and every cap: what recover_deleted returns, record for  *)
(* record.                                                                 *)
(***************************************************************************)
EXTENDS Carve, DataLemmas

\* The bins before the walk's position: what catalog_hbins has accepted.
BinsBehindWalk ==
  stage = "catalog" => \A n \in 1 .. Len(bins) : bins[n].at + bins[n].size <= pos

\* Nothing is cataloged before the header is accepted.
HeaderFresh == stage = "header" => pos = BaseBlock /\ bins = << >>

OpenInv == /\ OpenTypeOK /\ BinsContiguous /\ BinsInFile /\ BinsBehindWalk
           /\ HeaderFresh

\* Before the header is read no bin is cataloged.
LEMMA OpenInitInv == OpenInit => OpenInv
  <1>. SUFFICES ASSUME OpenInit PROVE OpenInv
    OBVIOUS
  <1>1. bins = << >> /\ Len(bins) = 0 /\ stage = "header"
    BY DEF OpenInit
  <1>2. OpenTypeOK
    BY OpenAssumption DEF OpenInit, OpenTypeOK
  <1>. QED
    BY <1>1, <1>2 DEF OpenInv, BinsContiguous, BinsInFile, BinsBehindWalk,
                      HeaderFresh, OpenInit

\* A step that leaves the catalog, the file and the position alone.
LEMMA SameCatalog ==
  ASSUME OpenInv, UNCHANGED <<file, pos, bins>>,
         stage' \in {"header", "catalog", "open", "error"},
         stage' # "header",
         stage' = "catalog" => stage = "catalog" \/ (pos = BaseBlock /\ bins = << >>)
  PROVE  OpenInv'
  <1>1. OpenTypeOK'
    BY DEF OpenInv, OpenTypeOK
  <1>2. BinsContiguous' /\ BinsInFile'
    BY DEF OpenInv, BinsContiguous, BinsInFile, BinsEnd
  <1>3. BinsBehindWalk'
    BY DEF OpenInv, BinsBehindWalk
  <1>. QED
    BY <1>1, <1>2, <1>3 DEF OpenInv, HeaderFresh

\* A valid size leaves room for cells behind the header.
LEMMA ValidSizeHasRoom ==
  ASSUME OpenInv, IsHbin, SizeIsValid
  PROVE  BinSize \in Nat /\ BinSize > HbinHeader
  <1>1. BinSize \in Nat
    BY DEF OpenInv, OpenTypeOK, IsFile, IsHbin, BinSize
  <1>2. BinSize >= BinAlign
    BY <1>1, OpenAssumption DEF SizeIsValid
  <1>. QED
    BY <1>1, <1>2, OpenAssumption

\* Each step of Hive::from_bytes and of catalog_hbins keeps the chain of bins.
LEMMA OpenNextInv == OpenInv /\ [OpenNext]_openVars => OpenInv'
  <1>. SUFFICES ASSUME OpenInv, [OpenNext]_openVars PROVE OpenInv'
    OBVIOUS
  <1>1. CASE RejectHeader \/ RejectBin
    <2>1. bins' = << >> /\ Len(bins') = 0 /\ stage' = "error" /\ UNCHANGED <<file, pos>>
      BY <1>1 DEF RejectHeader, RejectBin, Fail
    <2>2. OpenTypeOK'
      BY <2>1 DEF OpenInv, OpenTypeOK
    <2>. QED
      BY <2>1, <2>2
      DEF OpenInv, BinsContiguous, BinsInFile, BinsBehindWalk, HeaderFresh
  <1>2. CASE AcceptHeader
    <2>1. stage = "header" /\ stage' = "catalog" /\ UNCHANGED <<file, pos, bins>>
      BY <1>2 DEF AcceptHeader
    <2>. QED
      BY <2>1, SameCatalog DEF OpenInv, HeaderFresh
  <1>3. CASE FinishCatalog
    <2>1. stage' = "open" /\ UNCHANGED <<file, pos, bins>>
      BY <1>3 DEF FinishCatalog
    <2>. QED
      BY <2>1, SameCatalog
  <1>4. CASE CatalogBin
    <2>. DEFINE b == [at |-> pos, size |-> BinSize]
    <2>1. /\ stage = "catalog" /\ stage' = "catalog" /\ file' = file
          /\ pos < BinsEnd /\ pos + HbinHeader <= file.len
          /\ bins' = Append(bins, b) /\ pos' = pos + BinSize
      BY <1>4 DEF CatalogBin, Cataloging, HeaderFits
    <2>2. BinSize \in Nat /\ BinSize > HbinHeader
      BY <1>4, ValidSizeHasRoom DEF CatalogBin
    <2>3. bins \in Seq(Bin) /\ pos \in Nat /\ b \in Bin
      BY <2>2 DEF OpenInv, OpenTypeOK, Bin
    <2>4. /\ Len(bins') = Len(bins) + 1 /\ bins'[Len(bins) + 1] = b
          /\ \A n \in 1 .. Len(bins) : bins'[n] = bins[n]
          /\ bins' \in Seq(Bin) /\ Len(bins) \in Nat
      BY <2>1, <2>3
    <2>5. OpenTypeOK'
      BY <2>1, <2>2, <2>3, <2>4 DEF OpenInv, OpenTypeOK
    <2>6. b.at = IF Len(bins) = 0 THEN BaseBlock
                                  ELSE bins[Len(bins)].at + bins[Len(bins)].size
      BY <2>1, <2>3 DEF OpenInv, BinsContiguous
    <2>7. BinsContiguous'
      <3>1. \A n \in 1 .. Len(bins') :
              bins'[n].at = IF n = 1 THEN BaseBlock
                                     ELSE bins'[n - 1].at + bins'[n - 1].size
        <4>. TAKE n \in 1 .. Len(bins')
        <4>1. CASE n = Len(bins) + 1
          BY <4>1, <2>4, <2>6
        <4>2. CASE n \in 1 .. Len(bins)
          <5>1. n - 1 \in 1 .. Len(bins) \/ n = 1
            BY <4>2, <2>4
          <5>. QED
            BY <4>2, <5>1, <2>4 DEF OpenInv, BinsContiguous
        <4>. QED
          BY <4>1, <4>2, <2>4
      <3>2. pos' = bins'[Len(bins')].at + bins'[Len(bins')].size /\ bins' # << >>
        BY <2>1, <2>3, <2>4
      <3>. QED
        BY <3>1, <3>2 DEF BinsContiguous
    <2>8. \A n \in 1 .. Len(bins) : bins[n].at + bins[n].size <= pos
      BY <2>1 DEF OpenInv, BinsBehindWalk
    <2>9. BinsInFile'
      <3>. SUFFICES ASSUME NEW n \in 1 .. Len(bins')
                    PROVE  /\ bins'[n].size > HbinHeader
                           /\ bins'[n].at + HbinHeader <= file.len
                           /\ bins'[n].at < BinsEnd
                           /\ n < Len(bins') => bins'[n].at + bins'[n].size < file.len
        BY <2>1 DEF BinsInFile, BinsEnd
      <3>1. CASE n = Len(bins) + 1
        BY <3>1, <2>1, <2>2, <2>4
      <3>2. CASE n \in 1 .. Len(bins)
        <4>1. bins[n] \in Bin /\ file.len \in Nat
          BY <3>2, <2>3 DEF OpenInv, OpenTypeOK, IsFile
        <4>2. /\ bins[n].size > HbinHeader /\ bins[n].at + HbinHeader <= file.len
              /\ bins[n].at < BinsEnd
          BY <3>2 DEF OpenInv, BinsInFile, BinsEnd
        <4>3. bins[n].at + bins[n].size <= pos /\ pos < file.len
          <5>1. HbinHeader \in Nat \ {0}
            BY OpenAssumption
          <5>. QED
            BY <3>2, <4>1, <5>1, <2>1, <2>3, <2>8
        <4>4. bins'[n] = bins[n]
          BY <3>2, <2>4
        <4>5. bins[n].at + bins[n].size < file.len
          BY <4>1, <4>3, <2>3 DEF Bin
        <4>. QED
          BY <4>2, <4>4, <4>5
      <3>. QED
        BY <3>1, <3>2, <2>4
    <2>10. BinsBehindWalk'
      <3>. SUFFICES ASSUME NEW n \in 1 .. Len(bins')
                    PROVE  bins'[n].at + bins'[n].size <= pos'
        BY DEF BinsBehindWalk
      <3>1. CASE n = Len(bins) + 1
        BY <3>1, <2>1, <2>2, <2>3, <2>4
      <3>2. CASE n \in 1 .. Len(bins)
        <4>1. bins[n] \in Bin
          BY <3>2, <2>3
        <4>. QED
          BY <3>2, <4>1, <2>1, <2>2, <2>3, <2>4, <2>8 DEF Bin
      <3>. QED
        BY <3>1, <3>2, <2>4
    <2>. QED
      BY <2>1, <2>5, <2>7, <2>9, <2>10 DEF OpenInv, HeaderFresh
  <1>5. CASE UNCHANGED openVars
    BY <1>5 DEF openVars, OpenInv, OpenTypeOK, BinsContiguous, BinsInFile,
                BinsBehindWalk, HeaderFresh, BinsEnd
  <1>. QED
    BY <1>1, <1>2, <1>3, <1>4, <1>5 DEF OpenNext

\* Whatever sizes the file announces, the catalog keeps its types ...
THEOREM OpenTypeCorrect == OpenSpec => []OpenTypeOK
  <1>1. OpenInv => OpenTypeOK
    BY DEF OpenInv
  <1>. QED
    BY <1>1, OpenInitInv, OpenNextInv, PTL DEF OpenSpec

\* ... is a chain without gaps or overlaps ...
THEOREM CatalogIsChain == OpenSpec => []BinsContiguous
  <1>1. OpenInv => BinsContiguous
    BY DEF OpenInv
  <1>. QED
    BY <1>1, OpenInitInv, OpenNextInv, PTL DEF OpenSpec

\* ... and stays inside the file.
THEOREM CatalogInFile == OpenSpec => []BinsInFile
  <1>1. OpenInv => BinsInFile
    BY DEF OpenInv
  <1>. QED
    BY <1>1, OpenInitInv, OpenNextInv, PTL DEF OpenSpec

-----------------------------------------------------------------------------

\* Where the three loops stand relative to each other.
CursorInv ==
  /\ phase # "idle" => stage = "open"
  /\ bin \in 1 .. Len(bins) + 1
  /\ phase = "idle" => bin = 1
  /\ phase \in {"cells", "slack"} =>
       /\ bin > 1
       /\ CellsStart(bins[bin - 1]) <= cell
       /\ binEnd = ClippedEnd(bins[bin - 1])
  /\ phase = "slack" =>
       /\ cell + SizeField <= slack
       /\ cell + SizeField <= binEnd
       /\ slackEnd = CellEnd(cell)
       /\ CellSize(cell) >= MinCell

\* The record out[n] was found before the place where the scan stands.
Behind(r) ==
  /\ bin > 1 /\ r.sig < ClippedEnd(bins[bin - 1])
  /\ phase = "cells" => r.sig < cell
  /\ phase = "slack" => r.sig < slack /\ r.sig < slackEnd

\* What is known of a recovered record for good.
InBin(r) ==
  \E b \in 1 .. Len(bins) :
    /\ CellsStart(bins[b]) + SizeField <= r.sig
    /\ r.sig + SigLen + file.rec[r.sig].need <= ClippedEnd(bins[b])

FreeHead(r) ==
  r.confidence = "High" =>
    /\ r.sig = r.off + SizeField
    /\ RawSize(r.off) >= MinCell
    /\ r.sig + SigLen + file.rec[r.sig].need <= r.off + RawSize(r.off)

OutInv == /\ \A n \in 1 .. Len(out) : Behind(out[n]) /\ InBin(out[n]) /\ FreeHead(out[n])
          /\ RecordsInOrder

IInv == OpenInv /\ CarveTypeOK /\ CursorInv /\ RecoveriesCapped /\ OutInv

\* A hive that is yet to be opened has no recovery: IInv holds at first.
LEMMA InitIInv == Init => IInv
  <1>. SUFFICES ASSUME Init PROVE IInv
    OBVIOUS
  <1>1. OpenInv
    BY OpenInitInv DEF Init
  <1>2. out = << >> /\ Len(out) = 0 /\ bins = << >> /\ Len(bins) = 0
    BY DEF Init, OpenInit
  <1>3. CarveTypeOK
    BY CarveAssumption DEF Init, OpenInit, CarveTypeOK
  <1>4. CursorInv
    BY <1>2 DEF Init, CursorInv
  <1>. QED
    BY <1>1, <1>2, <1>3, <1>4, CarveAssumption
    DEF IInv, RecoveriesCapped, OutInv, RecordsInOrder

\* Numbers the arithmetic of the steps needs.
LEMMA CellFacts ==
  ASSUME IInv
  PROVE  /\ file.len \in Nat /\ Len(bins) \in Nat /\ Len(out) \in Nat
         /\ \A p : RawSize(p) \in Int /\ CellSize(p) \in Nat
         /\ \A b \in 1 .. Len(bins) :
              /\ bins[b].at \in Nat /\ bins[b].size \in Nat
              /\ CellsStart(bins[b]) \in Nat /\ ClippedEnd(bins[b]) \in Nat
              /\ ClippedEnd(bins[b]) <= bins[b].at + bins[b].size
              /\ ClippedEnd(bins[b]) <= file.len
         /\ \A p \in DOMAIN file.rec : file.rec[p].need \in Nat
  <1>1. file.len \in Nat
    BY DEF IInv, OpenInv, OpenTypeOK, IsFile
  <1>2. Len(bins) \in Nat /\ Len(out) \in Nat
    BY DEF IInv, OpenInv, OpenTypeOK, CarveTypeOK
  <1>3. \A p : RawSize(p) \in Int
    BY DEF IInv, CarveTypeOK, HasCells, RawSize
  <1>4. \A p : CellSize(p) \in Nat
    BY <1>3 DEF CellSize, Abs
  <1>5. ASSUME NEW b \in 1 .. Len(bins)
        PROVE  /\ bins[b].at \in Nat /\ bins[b].size \in Nat
               /\ CellsStart(bins[b]) \in Nat /\ ClippedEnd(bins[b]) \in Nat
               /\ ClippedEnd(bins[b]) <= bins[b].at + bins[b].size
               /\ ClippedEnd(bins[b]) <= file.len
    <2>1. bins[b] \in Bin
      BY DEF IInv, OpenInv, OpenTypeOK
    <2>. QED
      BY <1>1, <2>1, OpenAssumption DEF Bin, CellsStart, ClippedEnd, Least
  <1>6. \A p \in DOMAIN file.rec : file.rec[p].need \in Nat
    BY DEF IInv, CarveTypeOK, HasCells, IsRecord
  <1>. QED
    BY <1>1, <1>2, <1>3, <1>4, <1>5, <1>6

\* A step that recovers nothing keeps what is known of the records, as long as
\* the scan moves forward.
LEMMA KeepOut ==
  ASSUME IInv, UNCHANGED <<file, bins, out>>,
         \A r \in Recovery : Behind(r) => Behind(r)'
  PROVE  OutInv' /\ RecoveriesCapped'
  <1>1. \A n \in 1 .. Len(out) : out[n] \in Recovery
    BY DEF IInv, CarveTypeOK
  <1>2. \A r \in Recovery : (InBin(r) => InBin(r)') /\ (FreeHead(r) => FreeHead(r)')
    BY DEF InBin, FreeHead, CellsStart, ClippedEnd, RawSize
  <1>3. \A n \in 1 .. Len(out) :
          Behind(out[n])' /\ InBin(out[n])' /\ FreeHead(out[n])'
    <2>. TAKE n \in 1 .. Len(out)
    <2>1. PICK r \in Recovery : r = out[n]
      BY <1>1
    <2>2. Behind(r)' /\ InBin(r)' /\ FreeHead(r)'
      BY <2>1, <1>2 DEF IInv, OutInv
    <2>3. r = out'[n]
      BY <2>1
    <2>. QED
      BY <2>2, <2>3 DEF Behind, InBin, FreeHead, RawSize
  <1>. QED
    BY <1>3 DEF IInv, OutInv, RecordsInOrder, RecoveriesCapped

\* A step that recovers the record r: it is found behind all the others.
LEMMA AddOut ==
  ASSUME IInv, UNCHANGED <<file, bins>>, NEW r \in Recovery,
         Len(out) < MAX_RECOVERIES,
         out' = Append(out, r),
         \A q \in Recovery : Behind(q) => Behind(q)' /\ q.sig < r.sig,
         Behind(r)', InBin(r), FreeHead(r)
  PROVE  OutInv' /\ RecoveriesCapped'
  <1>1. out \in Seq(Recovery) /\ Len(out) \in Nat
    BY DEF IInv, CarveTypeOK
  <1>2. /\ Len(out') = Len(out) + 1 /\ out'[Len(out) + 1] = r
        /\ \A n \in 1 .. Len(out) : out'[n] = out[n]
    BY <1>1
  <1>3. \A q \in Recovery : (InBin(q) => InBin(q)') /\ (FreeHead(q) => FreeHead(q)')
    BY DEF InBin, FreeHead, CellsStart, ClippedEnd, RawSize
  <1>4. \A n \in 1 .. Len(out) : /\ out[n] \in Recovery
                                 /\ Behind(out[n]) /\ InBin(out[n]) /\ FreeHead(out[n])
    BY <1>1 DEF IInv, OutInv
  <1>5. ASSUME NEW n \in 1 .. Len(out')
        PROVE  Behind(out[n])' /\ InBin(out[n])' /\ FreeHead(out[n])'
    <2>1. PICK q \in Recovery : q = out'[n] /\ Behind(q)' /\ InBin(q)' /\ FreeHead(q)'
      <3>1. CASE n = Len(out) + 1
        BY <3>1, <1>2, <1>3
      <3>2. CASE n \in 1 .. Len(out)
        <4>1. PICK q \in Recovery : q = out[n]
          BY <3>2, <1>4
        <4>2. Behind(q) /\ InBin(q) /\ FreeHead(q)
          BY <3>2, <4>1, <1>4
        <4>3. Behind(q)' /\ InBin(q)' /\ FreeHead(q)'
          BY <4>2, <1>3
        <4>. QED
          BY <3>2, <4>1, <4>3, <1>2
      <3>. QED
        BY <3>1, <3>2, <1>1, <1>2
    <2>. QED
      BY <2>1 DEF Behind, InBin, FreeHead, RawSize
  <1>6. RecordsInOrder'
    <2>. SUFFICES ASSUME NEW m \in 1 .. Len(out'), NEW n \in 1 .. Len(out'), m < n
                  PROVE  out'[m].sig < out'[n].sig
      BY DEF RecordsInOrder
    <2>1. m \in 1 .. Len(out)
      BY <1>1, <1>2
    <2>2. CASE n = Len(out) + 1
      BY <2>1, <2>2, <1>2, <1>4
    <2>3. CASE n \in 1 .. Len(out)
      BY <2>1, <2>3, <1>2 DEF IInv, OutInv, RecordsInOrder
    <2>. QED
      BY <2>2, <2>3, <1>1, <1>2
  <1>7. RecoveriesCapped'
    BY <1>1, <1>2, CarveAssumption DEF RecoveriesCapped
  <1>. QED
    BY <1>5, <1>6, <1>7 DEF OutInv

\* The state around a cell that scan_bin has accepted.
LEMMA AtCellFacts ==
  ASSUME IInv, AtCell
  PROVE  /\ bin - 1 \in 1 .. Len(bins) /\ bin > 1
         /\ CellsStart(bins[bin - 1]) <= cell /\ binEnd = ClippedEnd(bins[bin - 1])
         /\ cell \in Nat /\ binEnd \in Nat /\ CellEnd(cell) \in Nat
         /\ CellEnd(cell) <= binEnd /\ cell + SizeField <= CellEnd(cell)
         /\ CellEnd(cell) <= cell + CellSize(cell)
         /\ stage = "open"
  <1>1. /\ phase = "cells" /\ cell + SizeField <= binEnd /\ CellSize(cell) >= MinCell
    BY DEF AtCell
  <1>2. /\ bin > 1 /\ bin \in 1 .. Len(bins) + 1 /\ stage = "open"
        /\ CellsStart(bins[bin - 1]) <= cell /\ binEnd = ClippedEnd(bins[bin - 1])
    BY <1>1 DEF IInv, CursorInv
  <1>3. cell \in Nat /\ binEnd \in Nat /\ CellSize(cell) \in Nat /\ Len(bins) \in Nat
    BY CellFacts DEF IInv, CarveTypeOK
  <1>. QED
    BY <1>1, <1>2, <1>3, CarveAssumption DEF CellEnd, Least

\* Entering a cell starts the sweep behind all that was recovered before.
LEMMA SweepStarts ==
  ASSUME IInv, AtCell, NEW from \in Nat, Sweep(from), from >= cell + SizeField
  PROVE  /\ OpenInv' /\ CursorInv'
         /\ \A r \in Recovery : Behind(r) => Behind(r)'
         /\ UNCHANGED <<file, bins, bin, binEnd, cell, scanned>>
         /\ phase' = "slack" /\ slack' = from /\ slackEnd' = CellEnd(cell)
         /\ HasCells(file)' /\ slackEnd' \in Nat
  <1>1. /\ UNCHANGED <<file, stage, error, pos, bins, bin, scanned, cell, binEnd>>
        /\ phase' = "slack" /\ slack' = from /\ slackEnd' = CellEnd(cell)
    BY DEF Sweep, openVars
  <1>2. OpenInv'
    BY <1>1, OpenNextInv DEF IInv, openVars
  <1>3. CursorInv'
    BY <1>1, AtCellFacts, CellFacts
    DEF IInv, CursorInv, AtCell, CellsStart, ClippedEnd, CellEnd, CellSize, RawSize
  <1>4. ASSUME NEW r \in Recovery, Behind(r)
        PROVE  Behind(r)'
    <2>1. r.sig \in Nat /\ r.sig < cell /\ bin > 1 /\ r.sig < ClippedEnd(bins[bin - 1])
      BY <1>4 DEF Behind, AtCell, Recovery
    <2>2. r.sig < from /\ r.sig < CellEnd(cell)
      BY <2>1, AtCellFacts, CarveAssumption
    <2>. QED
      BY <1>1, <2>1, <2>2 DEF Behind, ClippedEnd
  <1>5. HasCells(file)' /\ slackEnd' \in Nat
    BY <1>1, AtCellFacts DEF IInv, CarveTypeOK
  <1>. QED
    BY <1>1, <1>2, <1>3, <1>4, <1>5

\* What try_record returns is a recovery inside the region it was given.
LEMMA RecoveredFacts ==
  ASSUME IInv, NEW p \in Nat, NEW end \in Nat, Recoverable(p, end),
         NEW off \in Int, NEW source \in {"UnallocatedCell", "Slack"}
  PROVE  /\ Recovered(p, off, source) \in Recovery
         /\ Recovered(p, off, source).sig = p
         /\ Recovered(p, off, source).off = off
         /\ (Recovered(p, off, source).confidence = "High") <=> (source = "UnallocatedCell")
         /\ file.rec[p].need \in Nat
         /\ p + SigLen + file.rec[p].need <= end
  <1>1. file.rec[p].kind \in {"nk", "vk"} /\ file.rec[p].need \in Nat
    BY DEF IInv, CarveTypeOK, HasCells, IsRecord, Recoverable
  <1>. QED
    BY <1>1 DEF Recovered, Recovery, Recoverable

\* Opening, scan_bin, scan_slack and the loop over the bins each keep IInv.
LEMMA NextIInv == IInv /\ [Next]_vars => IInv'
  <1>. SUFFICES ASSUME IInv, [Next]_vars PROVE IInv'
    OBVIOUS
  <1>. USE DEF IInv
  <1>1. CASE Open
    <2>1. OpenNext /\ UNCHANGED <<phase, bin, scanned, cell, binEnd, slack, slackEnd, out>>
      BY <1>1 DEF Open, carveVars
    <2>2. OpenInv'
      BY <2>1, OpenNextInv
    <2>3. stage # "open" /\ file' = file
      BY <2>1 DEF OpenNext, RejectHeader, AcceptHeader, CatalogBin, RejectBin,
                  FinishCatalog, Cataloging
    <2>4. phase = "idle" /\ bin = 1
      BY <2>3 DEF CursorInv
    <2>5. Len(out) = 0 /\ Len(bins') \in Nat
      BY <2>2, <2>4, CellFacts DEF OutInv, Behind, OpenInv, OpenTypeOK
    <2>6. CarveTypeOK'
      BY <2>1, <2>3 DEF CarveTypeOK
    <2>7. CursorInv'
      BY <2>1, <2>4, <2>5 DEF CursorInv
    <2>. QED
      BY <2>1, <2>2, <2>5, <2>6, <2>7 DEF OutInv, RecordsInOrder, RecoveriesCapped
  <1>2. CASE BeginCarve
    <2>1. /\ UNCHANGED <<file, stage, error, pos, bins>>
          /\ UNCHANGED <<bin, scanned, cell, binEnd, slack, slackEnd, out>>
          /\ stage = "open" /\ phase = "idle" /\ phase' = "bins"
      BY <1>2 DEF BeginCarve, openVars
    <2>2. OpenInv' /\ CarveTypeOK' /\ CursorInv'
      BY <2>1, OpenNextInv DEF openVars, CarveTypeOK, CursorInv
    <2>3. \A r \in Recovery : Behind(r) => Behind(r)'
      BY <2>1 DEF Behind, ClippedEnd
    <2>. QED
      BY <2>1, <2>2, <2>3, KeepOut
  <1>3. CASE EndCarve \/ EndBin
    <2>1. /\ UNCHANGED <<file, stage, error, pos, bins>>
          /\ UNCHANGED <<bin, scanned, cell, binEnd, slack, slackEnd, out>>
          /\ phase # "idle" /\ phase' \in {"bins", "done"}
      BY <1>3 DEF EndCarve, EndBin, openVars
    <2>2. OpenInv' /\ CarveTypeOK' /\ CursorInv'
      BY <2>1, OpenNextInv DEF openVars, CarveTypeOK, CursorInv
    <2>3. \A r \in Recovery : Behind(r) => Behind(r)'
      BY <2>1 DEF Behind, ClippedEnd
    <2>. QED
      BY <2>1, <2>2, <2>3, KeepOut
  <1>4. CASE EnterBin \/ SkipBin
    <2>1. /\ UNCHANGED <<file, stage, error, pos, bins, slack, slackEnd, out>>
          /\ phase = "bins" /\ bin <= Len(bins) /\ bin' = bin + 1
          /\ phase' \in {"bins", "cells"}
          /\ phase' = "bins" => UNCHANGED <<scanned, cell, binEnd>>
          /\ phase' = "cells" =>
               /\ CellsStart(bins[bin]) < ClippedEnd(bins[bin])
               /\ scanned' = scanned + (ClippedEnd(bins[bin]) - CellsStart(bins[bin]))
               /\ cell' = CellsStart(bins[bin]) /\ binEnd' = ClippedEnd(bins[bin])
      BY <1>4 DEF EnterBin, SkipBin, openVars
    <2>2. bin \in 1 .. Len(bins) /\ bin \in Nat /\ stage = "open"
      BY <2>1, CellFacts DEF CursorInv
    <2>3. OpenInv'
      BY <2>1, OpenNextInv DEF openVars
    <2>4. CarveTypeOK'
      BY <2>1, <2>2, CellFacts DEF CarveTypeOK
    <2>5. CursorInv'
      BY <2>1, <2>2, CellFacts DEF CursorInv, CellsStart, ClippedEnd
    <2>6. ASSUME NEW r \in Recovery, Behind(r)
          PROVE  Behind(r)'
      <3>1. bin - 1 \in 1 .. Len(bins) /\ r.sig < ClippedEnd(bins[bin - 1]) /\ r.sig \in Nat
        BY <2>2, <2>6 DEF Behind, Recovery
      <3>2. bins[bin].at = bins[bin - 1].at + bins[bin - 1].size
        BY <2>2, <3>1 DEF OpenInv, BinsContiguous
      <3>3. r.sig < bins[bin].at
        <4>1. /\ bins[bin].at \in Nat /\ ClippedEnd(bins[bin - 1]) \in Nat
              /\ ClippedEnd(bins[bin - 1]) <= bins[bin - 1].at + bins[bin - 1].size
              /\ bins[bin - 1].at \in Nat /\ bins[bin - 1].size \in Nat
          BY <2>2, <3>1, CellFacts
        <4>. QED
          BY <3>1, <3>2, <4>1
      <3>4. /\ bins[bin].at \in Nat /\ ClippedEnd(bins[bin]) \in Nat
            /\ CellsStart(bins[bin]) \in Nat
        BY <2>2, CellFacts
      <3>5. bins[bin].at < ClippedEnd(bins[bin]) /\ bins[bin].at < CellsStart(bins[bin])
        <4>1. /\ bins[bin].size \in Nat /\ file.len \in Nat /\ HbinHeader \in Nat \ {0}
              /\ bins[bin].size > HbinHeader /\ bins[bin].at + HbinHeader <= file.len
          BY <2>2, CellFacts, OpenAssumption DEF OpenInv, BinsInFile
        <4>2. bins[bin].at + bins[bin].size > bins[bin].at /\ bins[bin].at < file.len
          BY <3>4, <4>1
        <4>3. bins[bin].at < ClippedEnd(bins[bin])
          BY <4>2 DEF ClippedEnd, Least
        <4>. QED
          BY <3>4, <4>1, <4>3 DEF CellsStart
      <3>6. r.sig < ClippedEnd(bins[bin]) /\ r.sig < CellsStart(bins[bin])
        BY <3>1, <3>3, <3>4, <3>5
      <3>. QED
        BY <2>1, <2>2, <3>6 DEF Behind, ClippedEnd
    <2>. QED
      BY <2>1, <2>3, <2>4, <2>5, <2>6, KeepOut
  <1>5. CASE AllocatedCell \/ FreeCell
    <2>1. AtCell /\ out' = out /\ \E from \in Nat : Sweep(from) /\ from >= cell + SizeField
      BY <1>5, AtCellFacts, CarveAssumption DEF AllocatedCell, FreeCell
    <2>2. PICK from \in Nat : Sweep(from) /\ from >= cell + SizeField
      BY <2>1
    <2>3. /\ OpenInv' /\ CursorInv' /\ \A r \in Recovery : Behind(r) => Behind(r)'
          /\ UNCHANGED <<file, bins, bin, binEnd, cell, scanned>>
          /\ phase' = "slack" /\ slack' = from /\ HasCells(file)' /\ slackEnd' \in Nat
      BY <2>1, <2>2, SweepStarts
    <2>4. CarveTypeOK'
      BY <2>1, <2>3 DEF CarveTypeOK
    <2>. QED
      BY <2>1, <2>3, <2>4, KeepOut
  <1>6. CASE FreeCellHead
    <2>. DEFINE p == cell + SizeField
                found == Recovered(p, cell, "UnallocatedCell")
    <2>1. /\ AtCell /\ ~IsAllocated(cell) /\ Recoverable(p, CellEnd(cell))
          /\ out' = Append(out, found) /\ Sweep(p + SigLen)
      BY <1>6 DEF FreeCellHead
    <2>2. p \in Nat /\ p + SigLen \in Nat /\ p + SigLen >= cell + SizeField
      BY <2>1, AtCellFacts, CarveAssumption
    <2>3. /\ OpenInv' /\ CursorInv' /\ \A q \in Recovery : Behind(q) => Behind(q)'
          /\ UNCHANGED <<file, bins, bin, binEnd, cell, scanned>>
          /\ phase' = "slack" /\ slack' = p + SigLen /\ slackEnd' = CellEnd(cell)
          /\ HasCells(file)' /\ slackEnd' \in Nat
      BY <2>1, <2>2, SweepStarts
    <2>. HIDE DEF p
    <2>4. /\ cell \in Nat /\ CellEnd(cell) \in Nat /\ CellEnd(cell) <= binEnd /\ bin > 1
          /\ bin - 1 \in 1 .. Len(bins) /\ binEnd = ClippedEnd(bins[bin - 1])
          /\ CellsStart(bins[bin - 1]) <= cell /\ CellEnd(cell) <= cell + CellSize(cell)
      BY <2>1, AtCellFacts
    <2>5. PICK r \in Recovery :
            /\ r = found /\ r.sig = p /\ r.off = cell /\ file.rec[p].need \in Nat
            /\ p + SigLen + file.rec[p].need <= CellEnd(cell)
      BY <2>1, <2>2, <2>4, RecoveredFacts
    <2>. HIDE DEF found
    <2>6. CarveTypeOK'
      BY <2>1, <2>2, <2>3, <2>5 DEF CarveTypeOK
    <2>7. \A q \in Recovery : Behind(q) => q.sig < r.sig
      BY <2>1, <2>5, <2>4, CarveAssumption DEF Behind, AtCell, Recovery, p
    <2>8. InBin(r)
      <3>1. CellsStart(bins[bin - 1]) \in Nat /\ ClippedEnd(bins[bin - 1]) \in Nat
        BY <2>4, CellFacts
      <3>2. /\ CellsStart(bins[bin - 1]) + SizeField <= r.sig
            /\ r.sig + SigLen + file.rec[r.sig].need <= ClippedEnd(bins[bin - 1])
        BY <2>2, <2>5, <2>4, <3>1, CarveAssumption DEF p
      <3>. QED
        BY <2>4, <3>2 DEF InBin
    <2>9. FreeHead(r)
      <3>1. CellSize(cell) = RawSize(cell) /\ CellSize(cell) >= MinCell
        BY <2>1, CellFacts DEF AtCell, IsAllocated, CellSize, Abs
      <3>2. RawSize(cell) \in Int
        BY CellFacts
      <3>3. SizeField \in Nat /\ SigLen \in Nat /\ SizeField + SigLen <= MinCell /\ MinCell \in Nat
        BY CarveAssumption
      <3>4. r.sig = cell + SizeField /\ r.off = cell /\ cell \in Nat
        BY <2>4, <2>5 DEF p
      <3>5. CellSize(cell) \in Nat
        BY CellFacts
      <3>6. /\ CellEnd(cell) \in Nat /\ CellEnd(cell) <= cell + CellSize(cell)
            /\ p + SigLen + file.rec[p].need <= CellEnd(cell)
            /\ r.sig = p /\ file.rec[p].need \in Nat /\ p \in Nat
        BY <2>2, <2>4, <2>5
      <3>7. r.sig + SigLen + file.rec[r.sig].need <= r.off + RawSize(cell)
        BY <3>1, <3>2, <3>3, <3>4, <3>5, <3>6
      <3>. QED
        BY <3>1, <3>4, <3>7 DEF FreeHead
    <2>10. Behind(r)'
      <3>1. ClippedEnd(bins[bin - 1])' = ClippedEnd(bins[bin - 1])
        BY <2>3 DEF ClippedEnd
      <3>2. r.sig < ClippedEnd(bins[bin - 1]) /\ r.sig < p + SigLen /\ r.sig < CellEnd(cell)
        <4>1. ClippedEnd(bins[bin - 1]) \in Nat
          BY <2>4, CellFacts
        <4>2. SigLen \in Nat /\ SigLen > 0
          BY CarveAssumption
        <4>. QED
          BY <2>2, <2>5, <2>4, <4>1, <4>2
      <3>. QED
        BY <2>3, <2>4, <3>1, <3>2 DEF Behind
    <2>11. Len(out) < MAX_RECOVERIES
      BY <2>1 DEF AtCell
    <2>12. OutInv' /\ RecoveriesCapped'
      BY <2>1, <2>3, <2>5, <2>7, <2>8, <2>9, <2>10, <2>11, AddOut DEF found
    <2>. QED
      BY <2>3, <2>6, <2>12
  <1>7. CASE SweepByte
    <2>. DEFINE found == Recovered(slack, slack - SizeField, "Slack")
    <2>1. /\ UNCHANGED <<file, stage, error, pos, bins>>
          /\ UNCHANGED <<phase, bin, scanned, cell, binEnd, slackEnd>>
          /\ phase = "slack" /\ slack + SigLen <= slackEnd /\ Len(out) < MAX_RECOVERIES
          /\ slack' = slack + 1
          /\ out' = IF Recoverable(slack, slackEnd) THEN Append(out, found) ELSE out
      BY <1>7 DEF SweepByte, InSlack, openVars
    <2>2. /\ slack \in Nat /\ slackEnd \in Nat /\ cell \in Nat /\ binEnd \in Nat
          /\ out \in Seq(Recovery)
      BY DEF CarveTypeOK
    <2>3. /\ bin > 1 /\ bin - 1 \in 1 .. Len(bins)
          /\ CellsStart(bins[bin - 1]) <= cell /\ binEnd = ClippedEnd(bins[bin - 1])
          /\ cell + SizeField <= slack /\ slackEnd = CellEnd(cell)
      BY <2>1, CellFacts DEF CursorInv
    <2>4. slackEnd <= binEnd
      BY <2>2, <2>3, CellFacts DEF CellEnd, Least
    <2>5. OpenInv'
      BY <2>1, OpenNextInv DEF openVars
    <2>6. CursorInv'
      BY <2>1, <2>2, CarveAssumption
      DEF CursorInv, CellsStart, ClippedEnd, CellEnd, CellSize, RawSize
    <2>7. \A q \in Recovery : Behind(q) => Behind(q)' /\ q.sig < slack
      BY <2>1, <2>2 DEF Behind, ClippedEnd, Recovery
    <2>8. CASE Recoverable(slack, slackEnd)
      <3>1. PICK r \in Recovery :
              /\ r = found /\ r.sig = slack /\ file.rec[slack].need \in Nat
              /\ r.confidence # "High"
              /\ slack + SigLen + file.rec[slack].need <= slackEnd
        BY <2>2, <2>8, RecoveredFacts, CarveAssumption
      <3>2. out' = Append(out, r)
        BY <2>1, <2>8, <3>1
      <3>. HIDE DEF found
      <3>3. CarveTypeOK'
        BY <2>1, <2>2, <3>1, <3>2 DEF CarveTypeOK
      <3>4. InBin(r)
        <4>1. CellsStart(bins[bin - 1]) \in Nat /\ ClippedEnd(bins[bin - 1]) \in Nat
          BY <2>3, CellFacts
        <4>2. CellsStart(bins[bin - 1]) + SizeField <= r.sig
          BY <2>2, <2>3, <3>1, <4>1, CarveAssumption
        <4>3. slackEnd <= ClippedEnd(bins[bin - 1]) /\ r.sig = slack
          BY <2>3, <2>4, <3>1
        <4>4. slack + SigLen + file.rec[slack].need <= ClippedEnd(bins[bin - 1])
          BY <2>2, <3>1, <4>1, <4>3, CarveAssumption
        <4>. QED
          BY <2>3, <4>2, <4>3, <4>4 DEF InBin
      <3>5. FreeHead(r)
        BY <3>1 DEF FreeHead
      <3>6. Behind(r)'
        <4>1. /\ r.sig < ClippedEnd(bins[bin - 1]) /\ r.sig < slack + 1
              /\ r.sig < slackEnd
          BY <2>1, <2>2, <2>3, <2>4, <3>1, CarveAssumption
        <4>2. ClippedEnd(bins[bin - 1])' = ClippedEnd(bins[bin - 1])
          BY <2>1 DEF ClippedEnd
        <4>. QED
          BY <2>1, <2>3, <4>1, <4>2 DEF Behind
      <3>7. OutInv' /\ RecoveriesCapped'
        BY <2>1, <2>7, <3>1, <3>2, <3>4, <3>5, <3>6, AddOut
      <3>. QED
        BY <2>5, <2>6, <3>3, <3>7
    <2>9. CASE ~Recoverable(slack, slackEnd)
      <3>1. CarveTypeOK' /\ out' = out
        BY <2>1, <2>2, <2>9 DEF CarveTypeOK
      <3>. QED
        BY <2>1, <2>5, <2>6, <2>7, <3>1, KeepOut
    <2>. QED
      BY <2>8, <2>9
  <1>8. CASE EndSweep
    <2>1. /\ UNCHANGED <<file, stage, error, pos, bins>>
          /\ UNCHANGED <<bin, scanned, binEnd, slack, slackEnd, out>>
          /\ phase = "slack" /\ phase' = "cells" /\ cell' = cell + CellSize(cell)
      BY <1>8 DEF EndSweep, openVars
    <2>2. OpenInv'
      BY <2>1, OpenNextInv DEF openVars
    <2>3. CarveTypeOK'
      BY <2>1, CellFacts DEF CarveTypeOK
    <2>4. /\ cell \in Nat /\ binEnd \in Nat /\ CellSize(cell) \in Nat
          /\ bin - 1 \in 1 .. Len(bins) /\ slackEnd = CellEnd(cell)
      BY <2>1, CellFacts DEF CarveTypeOK, CursorInv
    <2>5. CursorInv'
      <3>1. /\ CellsStart(bins[bin - 1])' = CellsStart(bins[bin - 1])
            /\ ClippedEnd(bins[bin - 1])' = ClippedEnd(bins[bin - 1])
        BY <2>1 DEF CellsStart, ClippedEnd
      <3>2. CellsStart(bins[bin - 1]) <= cell /\ CellsStart(bins[bin - 1]) \in Nat
        BY <2>1, <2>4, CellFacts DEF CursorInv
      <3>. QED
        BY <2>1, <2>4, <3>1, <3>2 DEF CursorInv
    <2>6. \A r \in Recovery : Behind(r) => Behind(r)'
      <3>1. slackEnd <= cell + CellSize(cell) /\ slackEnd \in Nat
        BY <2>4 DEF CellEnd, Least
      <3>. QED
        BY <2>1, <2>4, <3>1 DEF Behind, ClippedEnd, Recovery
    <2>. QED
      BY <2>1, <2>2, <2>3, <2>5, <2>6, KeepOut
  <1>9. CASE UNCHANGED vars
    <2>1. /\ UNCHANGED <<file, stage, error, pos, bins>>
          /\ UNCHANGED <<phase, bin, scanned, cell, binEnd, slack, slackEnd, out>>
      BY <1>9 DEF vars, openVars, carveVars
    <2>2. OpenInv' /\ CarveTypeOK'
      BY <2>1, OpenNextInv DEF openVars, CarveTypeOK
    <2>3. CursorInv'
      BY <2>1 DEF CursorInv, CellsStart, ClippedEnd, CellEnd, CellSize, RawSize
    <2>4. \A r \in Recovery : Behind(r) => Behind(r)'
      BY <2>1 DEF Behind, ClippedEnd
    <2>. QED
      BY <2>1, <2>2, <2>3, <2>4, KeepOut
  <1>. QED
    BY <1>1, <1>2, <1>3, <1>4, <1>5, <1>6, <1>7, <1>8, <1>9 DEF Next, CarveNext

\* The inductive invariant of recover_deleted holds in every state.
THEOREM Invariance == Spec => []IInv
  BY InitIInv, NextIInv, PTL DEF Spec

\* Carving keeps its types on every file.
THEOREM CarveTypeCorrect == Spec => []CarveTypeOK
  BY Invariance, PTL DEF IInv

\* No hive makes carving return more than MAX_RECOVERIES records.
THEOREM CapHolds == Spec => []RecoveriesCapped
  BY Invariance, PTL DEF IInv

\* Records come out in file order, none twice: the sweeps of cells and bins
\* never overlap (CursorInv and BinsContiguous).
THEOREM NoRecordTwice == Spec => []RecordsInOrder
  <1>1. IInv => RecordsInOrder
    BY DEF IInv, OutInv
  <1>. QED
    BY <1>1, Invariance, PTL

\* Recovered records lie inside one bin and inside the file.
THEOREM RecordsLieInBins == Spec => []RecordsInBins
  <1>1. IInv => RecordsInBins
    BY DEF IInv, OutInv, RecordsInBins, InBin
  <1>. QED
    BY <1>1, Invariance, PTL

\* High confidence is given to heads of free cells only.
THEOREM HighIsFree == Spec => []HighMeansFreeHead
  <1>1. IInv => HighMeansFreeHead
    BY DEF IInv, OutInv, HighMeansFreeHead, FreeHead
  <1>. QED
    BY <1>1, Invariance, PTL

-----------------------------------------------------------------------------
\* The cells of a chain, one behind the other.
IsChain(at, b) ==
  /\ at \in [0 .. Room(b) -> Nat]
  /\ at[0] = CellsStart(b)
  /\ \A n \in 1 .. Room(b) : at[n] = at[n - 1] + CellSize(at[n - 1])

\* c is the m-th cell of a bin, and scan_bin has walked those before it.
OnChain(b, c, m) ==
  /\ m \in 0 .. Room(b)
  /\ c = CellAt(b)[m]
  /\ \A k \in 0 .. m - 1 : Walkable(b, CellAt(b)[k])

\* Sizes and ends of a bin of the catalog.
IsBinOfFile(b) ==
  /\ CellsStart(b) \in Nat /\ ClippedEnd(b) \in Nat /\ Room(b) \in Int
  /\ \A p : CellSize(p) \in Nat

\* The bins of the catalog are such.
LEMMA BinFacts ==
  ASSUME IInv, NEW n \in 1 .. Len(bins)
  PROVE  IsBinOfFile(bins[n])
  <1>1. CellsStart(bins[n]) \in Nat /\ ClippedEnd(bins[n]) \in Nat
    BY CellFacts
  <1>2. Room(bins[n]) \in Int
    BY <1>1 DEF Room
  <1>. QED
    BY <1>1, <1>2, CellFacts DEF IsBinOfFile

\* CellAt follows the sizes of the cells.
LEMMA ChainExists ==
  ASSUME NEW b, IsBinOfFile(b), Room(b) \in Nat
  PROVE  IsChain(CellAt(b), b)
  <1>. DEFINE G == [x \in Nat \X (1 .. Room(b)) |-> x[1] + CellSize(x[1])]
  <1>1. IsStep(G, Nat, Room(b))
    <2>1. \A x \in Nat \X (1 .. Room(b)) : x[1] + CellSize(x[1]) \in Nat
      BY DEF IsBinOfFile
    <2>. QED
      BY <2>1 DEF IsStep
  <1>. HIDE DEF G
  <1>2. PICK f : IsIteration(f, G, Nat, CellsStart(b), Room(b))
    BY <1>1, Iteration DEF IsBinOfFile
  <1>. DEFINE body(g) == [n \in 0 .. Room(b) |->
                            IF n = 0 THEN CellsStart(b) ELSE g[n - 1] + CellSize(g[n - 1])]
  <1>3. f = body(f)
    <2>1. f \in [0 .. Room(b) -> Nat] /\ f[0] = CellsStart(b)
      BY <1>2 DEF IsIteration
    <2>2. ASSUME NEW n \in 1 .. Room(b) PROVE f[n] = f[n - 1] + CellSize(f[n - 1])
      <3>1. f[n] = G[<<f[n - 1], n>>] /\ n - 1 \in 0 .. Room(b)
        BY <1>2 DEF IsIteration
      <3>2. f[n - 1] \in Nat
        BY <2>1, <3>1
      <3>. QED
        BY <3>1, <3>2 DEF G
    <2>3. \A n \in 0 .. Room(b) : n = 0 \/ n \in 1 .. Room(b)
      OBVIOUS
    <2>. QED
      BY <2>1, <2>2, <2>3
  <1>4. CellAt(b) = CHOOSE g : g = body(g)
    BY DEF CellAt
  <1>5. CellAt(b) = body(CellAt(b))
    BY <1>3, <1>4
  <1>. DEFINE at == CellAt(b)
  <1>6. /\ at = [n \in 0 .. Room(b) |->
                   IF n = 0 THEN CellsStart(b) ELSE at[n - 1] + CellSize(at[n - 1])]
    BY <1>5
  <1>. HIDE DEF at, body
  <1>7. at[0] = CellsStart(b)
    BY <1>6
  <1>8. \A n \in 1 .. Room(b) : at[n] = at[n - 1] + CellSize(at[n - 1])
    BY <1>6
  <1>9. \A n \in 0 .. Room(b) : at[n] \in Nat
    <2>. DEFINE T == {n \in Nat : at[n] \in Nat}
    <2>1. 0 \in T
      BY <1>7 DEF IsBinOfFile
    <2>2. ASSUME NEW n \in 0 .. Room(b) - 1, n \in T PROVE n + 1 \in T
      <3>1. n + 1 \in 1 .. Room(b) /\ n + 1 - 1 = n
        OBVIOUS
      <3>2. at[n + 1] = at[n] + CellSize(at[n])
        BY <1>8, <3>1
      <3>. QED
        BY <2>2, <3>2 DEF IsBinOfFile
    <2>. HIDE DEF T
    <2>3. \A n \in 0 .. Room(b) : n \in T
      BY <2>1, <2>2, UpTo
    <2>. QED
      BY <2>3 DEF T
  <1>10. at \in [0 .. Room(b) -> Nat]
    BY <1>6, <1>9
  <1>. QED
    BY <1>7, <1>8, <1>10 DEF IsChain, at

\* The cells of a chain come in order.
LEMMA ChainAscends ==
  ASSUME NEW b, IsBinOfFile(b), NEW at, IsChain(at, b),
         NEW i \in 0 .. Room(b), NEW j \in 0 .. Room(b), i <= j
  PROVE  at[i] <= at[j]
  <1>. DEFINE T == {d \in Nat : i + d <= Room(b) => at[i] <= at[i + d]}
  <1>1. \A n \in 0 .. Room(b) : at[n] \in Nat
    BY DEF IsChain
  <1>2. 0 \in T
    BY <1>1
  <1>3. ASSUME NEW d \in 0 .. (j - i) - 1, d \in T PROVE d + 1 \in T
    <2>. SUFFICES ASSUME i + (d + 1) <= Room(b) PROVE at[i] <= at[i + (d + 1)]
      OBVIOUS
    <2>1. i + (d + 1) \in 1 .. Room(b) /\ i + (d + 1) - 1 = i + d /\ i + d \in 0 .. Room(b)
      BY DEF IsBinOfFile
    <2>2. at[i + (d + 1)] = at[i + d] + CellSize(at[i + d])
      BY <2>1 DEF IsChain
    <2>3. at[i] \in Nat /\ at[i + d] \in Nat /\ CellSize(at[i + d]) \in Nat
      BY <1>1, <2>1 DEF IsBinOfFile
    <2>4. at[i] <= at[i + d]
      BY <1>3, <2>1
    <2>. QED
      BY <2>2, <2>3, <2>4
  <1>. HIDE DEF T
  <1>4. j - i \in Nat
    BY DEF IsBinOfFile
  <1>5. \A d \in 0 .. j - i : d \in T
    BY <1>2, <1>3, <1>4, UpTo
  <1>6. j - i \in T /\ i + (j - i) = j
    BY <1>4, <1>5
  <1>. QED
    BY <1>6 DEF T, IsBinOfFile

\* A chain begins where the cells of its bin do.
LEMMA ChainStart ==
  ASSUME NEW b, IsBinOfFile(b), CellsStart(b) < ClippedEnd(b)
  PROVE  OnChain(b, CellsStart(b), 0)
  <1>1. Room(b) \in Nat
    BY DEF IsBinOfFile, Room
  <1>2. CellAt(b)[0] = CellsStart(b)
    BY <1>1, ChainExists DEF IsChain
  <1>. QED
    BY <1>1, <1>2 DEF OnChain

\* From a walkable cell the chain leads to another one.
LEMMA ChainNext ==
  ASSUME NEW b, IsBinOfFile(b), NEW c, NEW m, OnChain(b, c, m), Walkable(b, c)
  PROVE  OnChain(b, c + CellSize(c), m + 1)
  <1>1. Room(b) \in Nat /\ m \in 0 .. Room(b)
    BY DEF OnChain, IsBinOfFile
  <1>. DEFINE at == CellAt(b)
  <1>2. IsChain(at, b)
    BY <1>1, ChainExists
  <1>. HIDE DEF at
  <1>3. c = at[m] /\ \A k \in 0 .. m - 1 : Walkable(b, at[k])
    BY DEF OnChain, at
  <1>. DEFINE T == {k \in Nat : k <= m => at[k] >= CellsStart(b) + k}
  <1>4. 0 \in T
    BY <1>2 DEF IsChain, IsBinOfFile
  <1>5. ASSUME NEW k \in 0 .. m - 1, k \in T PROVE k + 1 \in T
    <2>1. k + 1 \in 1 .. Room(b) /\ k + 1 - 1 = k /\ k \in 0 .. Room(b)
      BY <1>1
    <2>2. at[k + 1] = at[k] + CellSize(at[k]) /\ at[k] \in Nat
      BY <1>2, <2>1 DEF IsChain
    <2>3. CellSize(at[k]) \in Nat /\ CellSize(at[k]) >= MinCell /\ MinCell >= 1
      BY <1>3, CarveAssumption DEF Walkable, IsBinOfFile
    <2>4. at[k] >= CellsStart(b) + k
      BY <1>1, <1>5
    <2>. QED
      BY <2>2, <2>3, <2>4, CarveAssumption DEF IsBinOfFile
  <1>. HIDE DEF T
  <1>6. \A k \in 0 .. m : k \in T
    BY <1>1, <1>4, <1>5, UpTo
  <1>7. c \in Nat /\ c >= CellsStart(b) + m
    BY <1>1, <1>2, <1>3, <1>6 DEF T, IsChain
  <1>8. m + 1 \in 1 .. Room(b) /\ m + 1 - 1 = m
    <2>1. c + SizeField <= ClippedEnd(b) /\ SizeField >= 1 /\ SizeField \in Nat
      BY CarveAssumption DEF Walkable
    <2>. QED
      BY <1>1, <1>7, <2>1 DEF Room, IsBinOfFile
  <1>9. at[m + 1] = c + CellSize(c)
    <2>1. \A n \in 1 .. Room(b) : at[n] = at[n - 1] + CellSize(at[n - 1])
      BY <1>2 DEF IsChain
    <2>2. PICK n \in 1 .. Room(b) : n = m + 1 /\ n - 1 = m
      BY <1>1, <1>8
    <2>. QED
      BY <1>3, <2>1, <2>2
  <1>10. \A k \in 0 .. m : Walkable(b, at[k])
    BY <1>1, <1>3
  <1>. QED
    BY <1>1, <1>8, <1>9, <1>10 DEF OnChain, at

\* What is known of a record that a cell holds.
LEMMA RecoveryFacts ==
  ASSUME NEW b, IsBinOfFile(b), NEW c \in Nat, NEW q \in Recoveries(b, c)
  PROVE  /\ q \in Nat /\ c + SizeField <= q /\ q + SigLen <= c + CellSize(c)
         /\ q + SigLen <= ClippedEnd(b) /\ q \in DOMAIN file.rec
         /\ IsAllocated(c) => c + SizeField + SigLen <= q
  <1>. DEFINE end == Least(c + CellSize(c), ClippedEnd(b))
              head == IF IsAllocated(c) THEN SizeField + SigLen ELSE SizeField
  <1>1. end \in Nat /\ head \in Nat /\ end <= c + CellSize(c) /\ end <= ClippedEnd(b)
    BY CarveAssumption DEF IsBinOfFile, Least
  <1>2. q \in c + head .. end /\ Recoverable(q, end)
    BY DEF Recoveries
  <1>. HIDE DEF end
  <1>3. q + SigLen <= end /\ q \in DOMAIN file.rec /\ q \in Nat
    BY <1>1, <1>2 DEF Recoverable
  <1>. QED
    BY <1>1, <1>2, <1>3, CarveAssumption DEF IsBinOfFile

\* Where the records of a bin stand relative to a cell of its chain: in cells
\* before it, in the cell, or in cells behind it.
LEMMA HeldWhere ==
  ASSUME NEW b, IsBinOfFile(b), NEW c, NEW m, OnChain(b, c, m), NEW q \in Held(b)
  PROVE  \/ q + SigLen <= c
         \/ Walkable(b, c) /\ q \in Recoveries(b, c)
         \/ Walkable(b, c) /\ c + CellSize(c) + SizeField <= q
  <1>1. Room(b) \in Nat /\ m \in 0 .. Room(b)
    BY DEF OnChain, IsBinOfFile
  <1>. DEFINE at == CellAt(b)
  <1>2. PICK n \in 0 .. Room(b) : q \in Recoveries(b, at[n]) /\ \A k \in 0 .. n : Walkable(b, at[k])
    BY DEF Held, Walked
  <1>3. IsChain(at, b)
    BY <1>1, ChainExists
  <1>4. c = at[m]
    BY DEF OnChain
  <1>. HIDE DEF at
  <1>5. at[n] \in Nat /\ at[m] \in Nat
    BY <1>1, <1>3 DEF IsChain
  <1>6. q \in Nat /\ at[n] + SizeField <= q /\ q + SigLen <= at[n] + CellSize(at[n])
    BY <1>2, <1>5, RecoveryFacts
  <1>7. CellSize(at[n]) \in Nat /\ CellSize(at[m]) \in Nat /\ SizeField \in Nat /\ SigLen \in Nat
    BY CarveAssumption DEF IsBinOfFile
  <1>8. CASE n < m
    <2>1. n + 1 \in 1 .. Room(b) /\ n + 1 - 1 = n /\ n + 1 <= m /\ n + 1 \in 0 .. Room(b)
      BY <1>1, <1>8
    <2>2. at[n + 1] = at[n] + CellSize(at[n])
      BY <1>3, <2>1 DEF IsChain
    <2>3. at[n + 1] <= at[m]
      BY <1>1, <1>3, <2>1, ChainAscends
    <2>. QED
      BY <1>4, <1>5, <1>6, <1>7, <2>2, <2>3
  <1>9. CASE n = m
    BY <1>2, <1>4, <1>9
  <1>10. CASE n > m
    <2>1. m + 1 \in 1 .. Room(b) /\ m + 1 - 1 = m /\ m + 1 <= n /\ m + 1 \in 0 .. Room(b)
          /\ m \in 0 .. n
      BY <1>1, <1>10
    <2>2. at[m + 1] = at[m] + CellSize(at[m])
      BY <1>3, <2>1 DEF IsChain
    <2>3. at[m + 1] <= at[n]
      BY <1>3, <2>1, ChainAscends
    <2>4. Walkable(b, c)
      BY <1>2, <1>4, <2>1
    <2>. QED
      BY <1>4, <1>5, <1>6, <1>7, <2>2, <2>3, <2>4
  <1>. QED
    BY <1>1, <1>8, <1>9, <1>10

\* A cell that scan_bin walks is one of the bin's.
LEMMA CellIsWalked ==
  ASSUME NEW b, IsBinOfFile(b), NEW c, NEW m, OnChain(b, c, m), Walkable(b, c),
         NEW q \in Recoveries(b, c)
  PROVE  q \in Held(b)
  <1>1. c \in Walked(b)
    <2>1. m \in 0 .. Room(b) /\ c = CellAt(b)[m] /\ m \in Nat /\ Room(b) \in Int
      BY DEF OnChain, IsBinOfFile
    <2>2. ASSUME NEW k \in 0 .. m PROVE Walkable(b, CellAt(b)[k])
      <3>1. k = m \/ k \in 0 .. m - 1
        BY <2>1
      <3>. QED
        BY <2>1, <3>1 DEF OnChain
    <2>. QED
      BY <2>1, <2>2 DEF Walked
  <1>. QED
    BY <1>1 DEF Held

\* Every record of a bin lies in its cell area.
LEMMA HeldInBin ==
  ASSUME NEW b, IsBinOfFile(b), NEW q \in Held(b)
  PROVE  /\ q \in Nat /\ CellsStart(b) + SizeField <= q /\ q + SigLen <= ClippedEnd(b)
         /\ q \in DOMAIN file.rec
  <1>. DEFINE at == CellAt(b)
  <1>1. PICK n \in 0 .. Room(b) : q \in Recoveries(b, at[n])
    BY DEF Held, Walked
  <1>2. Room(b) \in Nat /\ 0 \in 0 .. Room(b) /\ 0 <= n
    BY <1>1 DEF IsBinOfFile
  <1>3. IsChain(at, b)
    BY <1>2, ChainExists
  <1>. HIDE DEF at
  <1>4. at[0] <= at[n] /\ at[0] = CellsStart(b) /\ at[n] \in Nat
    BY <1>2, <1>3, ChainAscends DEF IsChain
  <1>. QED
    BY <1>1, <1>4, RecoveryFacts, CarveAssumption DEF IsBinOfFile

-----------------------------------------------------------------------------
Found == {out[n].sig : n \in 1 .. Len(out)}

\* What each bin holds.
HeldBins == [n \in 1 .. Len(bins) |-> Held(bins[n])]

\* The scan is behind the record q of the n-th bin.
Passed(n, q) == n = bin - 1 => /\ phase = "cells" => q < cell
                               /\ phase = "slack" => q < slack

\* The cell that scan_bin has come to is one of the bin's chain.
ChainInv ==
  /\ phase \in {"cells", "slack"} =>
       \E b \in {bins[bin - 1]}, c \in {cell} : \E m \in 0 .. Room(b) : OnChain(b, c, m)
  /\ phase = "slack" =>
       /\ slack <= cell + CellSize(cell)
       /\ IsAllocated(cell) => cell + SizeField + SigLen <= slack

\* While there is room, all that was passed is found; what was not found lies
\* behind all that was; nothing else is found; a bin is left out for a cap.
NoneMissed == Len(out) < MAX_RECOVERIES =>
                \A n \in 1 .. bin - 1 : \A q \in HeldBins[n] : Passed(n, q) => q \in Found
FirstFound == \A n \in 1 .. bin - 1 : \A q \in HeldBins[n] \ Found : \A p \in Found : p < q
OnlyHeld == \A p \in Found : \E n \in 1 .. bin - 1 : p \in HeldBins[n]
CapOnly == phase = "done" => bin > Len(bins) \/ Capped

ExactInv == ChainInv /\ NoneMissed /\ FirstFound /\ OnlyHeld /\ CapOnly

\* A carve does not change what the bins hold.
LEMMA SameHeld ==
  ASSUME UNCHANGED <<file, bins>>
  PROVE  HeldBins' = HeldBins
  BY DEF HeldBins, Held, Walked, Recoveries, Walkable, CellAt, Room, ClippedEnd, CellsStart,
         CellSize, RawSize, Recoverable, IsAllocated

\* ... and not the chain of a bin.
LEMMA SameChain ==
  ASSUME UNCHANGED file, NEW b, NEW c, NEW m
  PROVE  /\ OnChain(b, c, m)' <=> OnChain(b, c, m)
         /\ Room(b)' = Room(b)
  BY DEF OnChain, Walkable, CellAt, Room, ClippedEnd, CellsStart, CellSize, RawSize

\* A step that recovers nothing and enters no bin.
LEMMA NothingFound ==
  ASSUME IInv, ExactInv, UNCHANGED <<file, bins, bin, out>>, ChainInv', CapOnly',
         bin > 1 /\ Len(out) < MAX_RECOVERIES =>
           \A q \in HeldBins[bin - 1] : Passed(bin - 1, q)' => Passed(bin - 1, q) \/ q \in Found
  PROVE  ExactInv'
  <1>1. HeldBins' = HeldBins /\ Found' = Found
    BY SameHeld DEF Found
  <1>2. FirstFound' /\ OnlyHeld'
    BY <1>1 DEF ExactInv, FirstFound, OnlyHeld
  <1>3. NoneMissed'
    <2>. SUFFICES ASSUME Len(out) < MAX_RECOVERIES, NEW n \in 1 .. bin - 1,
                         NEW q \in HeldBins[n], Passed(n, q)'
                  PROVE  q \in Found
      BY <1>1 DEF NoneMissed
    <2>1. bin \in Nat
      BY DEF IInv, CarveTypeOK
    <2>2. Passed(n, q) \/ q \in Found
      <3>1. CASE n = bin - 1
        BY <2>1, <3>1
      <3>2. CASE n # bin - 1
        BY <3>2 DEF Passed
      <3>. QED
        BY <3>1, <3>2
    <2>. QED
      BY <2>2 DEF ExactInv, NoneMissed
  <1>. QED
    BY <1>2, <1>3 DEF ExactInv

\* A step that recovers the record r of the bin it is in.
LEMMA RecordFound ==
  ASSUME IInv, ExactInv, UNCHANGED <<file, bins, bin>>, ChainInv', CapOnly', bin > 1,
         NEW r, out' = Append(out, r), Len(out) < MAX_RECOVERIES,
         r.sig \in HeldBins[bin - 1],
         \A p \in Found : p < r.sig,
         \A q \in HeldBins[bin - 1] :
           /\ Passed(bin - 1, q)' => Passed(bin - 1, q) \/ q \in Found \/ q = r.sig
           /\ Passed(bin - 1, q) \/ q = r.sig \/ r.sig < q
  PROVE  ExactInv'
  <1>1. out \in Seq(Recovery) /\ bin \in Nat
    BY DEF IInv, CarveTypeOK
  <1>2. HeldBins' = HeldBins
    BY SameHeld
  <1>3. Found' = Found \union {r.sig}
    <2>1. /\ Len(out') = Len(out) + 1 /\ out'[Len(out) + 1] = r
          /\ \A n \in 1 .. Len(out) : out'[n] = out[n]
          /\ Len(out) \in Nat
      BY <1>1
    <2>. SUFFICES ASSUME NEW k \in Nat, k = Len(out) PROVE Found' = Found \union {r.sig}
      BY <2>1
    <2>2. \A n \in 1 .. k + 1 : n = k + 1 \/ n \in 1 .. k
      OBVIOUS
    <2>. QED
      BY <2>1, <2>2 DEF Found
  <1>4. OnlyHeld'
    BY <1>1, <1>2, <1>3 DEF ExactInv, OnlyHeld
  <1>5. FirstFound'
    <2>. SUFFICES ASSUME NEW n \in 1 .. bin - 1, NEW q \in HeldBins[n], q \notin Found,
                         q # r.sig, NEW p \in Found \union {r.sig}
                  PROVE  p < q
      BY <1>2, <1>3 DEF FirstFound
    <2>1. CASE p \in Found
      BY <2>1 DEF ExactInv, FirstFound
    <2>2. CASE p = r.sig
      <3>1. ~Passed(n, q)
        BY DEF ExactInv, NoneMissed
      <3>2. n = bin - 1
        BY <3>1 DEF Passed
      <3>. QED
        BY <2>2, <3>1, <3>2
    <2>. QED
      BY <2>1, <2>2
  <1>6. NoneMissed'
    <2>. SUFFICES ASSUME NEW n \in 1 .. bin - 1, NEW q \in HeldBins[n], Passed(n, q)'
                  PROVE  q \in Found \union {r.sig}
      BY <1>2, <1>3 DEF NoneMissed
    <2>1. Passed(n, q) \/ q \in Found \/ q = r.sig
      <3>1. CASE n = bin - 1
        BY <3>1
      <3>2. CASE n # bin - 1
        BY <3>2 DEF Passed
      <3>. QED
        BY <3>1, <3>2
    <2>. QED
      BY <2>1 DEF ExactInv, NoneMissed
  <1>. QED
    BY <1>4, <1>5, <1>6 DEF ExactInv

\* Inside a bin: the cell scan_bin has come to, and where the bin's records
\* stand relative to it.
LEMMA AtChain ==
  ASSUME IInv, ExactInv, phase \in {"cells", "slack"}
  PROVE  /\ bin > 1 /\ bin - 1 \in 1 .. Len(bins)
         /\ cell \in Nat /\ CellSize(cell) \in Nat
         /\ binEnd = ClippedEnd(bins[bin - 1])
         /\ HeldBins[bin - 1] = Held(bins[bin - 1])
         /\ \E m \in 0 .. Room(bins[bin - 1]) : OnChain(bins[bin - 1], cell, m)
         /\ \A q \in HeldBins[bin - 1] :
              /\ q \in Nat /\ q \in DOMAIN file.rec
              /\ \/ q < cell
                 \/ Walkable(bins[bin - 1], cell) /\ q \in Recoveries(bins[bin - 1], cell)
                 \/ Walkable(bins[bin - 1], cell) /\ cell + CellSize(cell) + SizeField <= q
  <1>1. bin > 1 /\ bin - 1 \in 1 .. Len(bins) /\ binEnd = ClippedEnd(bins[bin - 1])
    BY CellFacts DEF IInv, CursorInv
  <1>2. cell \in Nat /\ CellSize(cell) \in Nat
    BY CellFacts DEF IInv, CarveTypeOK
  <1>3. HeldBins[bin - 1] = Held(bins[bin - 1])
    BY <1>1 DEF HeldBins
  <1>4. PICK m \in 0 .. Room(bins[bin - 1]) : OnChain(bins[bin - 1], cell, m)
    BY DEF ExactInv, ChainInv
  <1>5. IsBinOfFile(bins[bin - 1])
    BY <1>1, BinFacts
  <1>6. ASSUME NEW q \in HeldBins[bin - 1]
        PROVE  /\ q \in Nat /\ q \in DOMAIN file.rec
               /\ \/ q < cell
                  \/ Walkable(bins[bin - 1], cell) /\ q \in Recoveries(bins[bin - 1], cell)
                  \/ Walkable(bins[bin - 1], cell) /\ cell + CellSize(cell) + SizeField <= q
    <2>1. q \in Nat /\ q \in DOMAIN file.rec
      BY <1>3, <1>5, HeldInBin
    <2>2. \/ q + SigLen <= cell
          \/ Walkable(bins[bin - 1], cell) /\ q \in Recoveries(bins[bin - 1], cell)
          \/ Walkable(bins[bin - 1], cell) /\ cell + CellSize(cell) + SizeField <= q
      BY <1>3, <1>4, <1>5, HeldWhere
    <2>3. q + SigLen <= cell => q < cell
      BY <1>2, <2>1, CarveAssumption
    <2>. QED
      BY <2>1, <2>2, <2>3
  <1>. QED
    BY <1>1, <1>2, <1>3, <1>4, <1>6

\* The cell that scan_bin accepts is walkable, and what can be recovered of it
\* is what it holds.
LEMMA AtCellChain ==
  ASSUME IInv, ExactInv, AtCell
  PROVE  /\ Walkable(bins[bin - 1], cell)
         /\ CellEnd(cell) = Least(cell + CellSize(cell), ClippedEnd(bins[bin - 1]))
  BY AtChain DEF AtCell, Walkable, CellEnd

\* A cell of the chain is entered: the chain stays where it was.
LEMMA ChainKept ==
  ASSUME IInv, ExactInv, UNCHANGED <<file, bins, bin, cell>>,
         phase \in {"cells", "slack"}, phase' = "slack",
         slack' <= cell + CellSize(cell),
         IsAllocated(cell) => cell + SizeField + SigLen <= slack'
  PROVE  ChainInv'
  <1>1. PICK b \in {bins[bin - 1]}, c \in {cell} : \E m \in 0 .. Room(b) : OnChain(b, c, m)
    BY DEF ExactInv, ChainInv
  <1>2. PICK m \in 0 .. Room(b) : OnChain(b, c, m)
    BY <1>1
  <1>3. m \in 0 .. Room(b)' /\ OnChain(b, c, m)'
    BY <1>2, SameChain
  <1>4. \E x \in {bins'[bin' - 1]}, y \in {cell'} : \E k \in 0 .. Room(x)' : OnChain(x, y, k)'
    BY <1>1, <1>3
  <1>5. /\ CellSize(cell)' = CellSize(cell)
        /\ IsAllocated(cell)' <=> IsAllocated(cell)
    BY DEF CellSize, RawSize, IsAllocated
  <1>. QED
    BY <1>4, <1>5 DEF ChainInv

\* recover_deleted finds what is there, step by step.
LEMMA NextExact == IInv /\ ExactInv /\ [Next]_vars => ExactInv'
  <1>. SUFFICES ASSUME IInv, ExactInv, [Next]_vars PROVE ExactInv'
    OBVIOUS
  <1>1. /\ bin \in Nat /\ cell \in Nat /\ slack \in Nat /\ slackEnd \in Nat
        /\ Len(bins) \in Nat /\ out \in Seq(Recovery)
    BY CellFacts DEF IInv, CarveTypeOK
  <1>2. CASE Open
    <2>1. stage # "open" /\ UNCHANGED <<phase, bin, scanned, cell, slack, out>>
      BY <1>2 DEF Open, carveVars, OpenNext, RejectHeader, AcceptHeader, CatalogBin, RejectBin,
                  FinishCatalog, Cataloging
    <2>2. phase = "idle" /\ bin = 1
      BY <2>1 DEF IInv, CursorInv
    <2>3. Found = {} /\ Found' = {}
      BY <2>1, <2>2, CellFacts DEF IInv, OutInv, Behind, Found
    <2>. QED
      BY <2>1, <2>2, <2>3 DEF ExactInv, ChainInv, NoneMissed, FirstFound, OnlyHeld, CapOnly
  <1>3. CASE BeginCarve \/ EndCarve
    <2>1. /\ UNCHANGED <<file, bins, bin, scanned, cell, slack, out>>
          /\ phase \in {"idle", "bins"} /\ phase' \in {"bins", "done"}
          /\ phase' = "done" => bin > Len(bins) \/ Capped
      BY <1>3 DEF BeginCarve, EndCarve, openVars
    <2>2. ChainInv' /\ CapOnly'
      BY <2>1 DEF ChainInv, CapOnly, Capped
    <2>3. \A q : Passed(bin - 1, q)
      BY <2>1 DEF Passed
    <2>. QED
      BY <2>1, <2>2, <2>3, NothingFound
  <1>4. CASE EnterBin \/ SkipBin
    <2>1. /\ UNCHANGED <<file, bins, out>>
          /\ phase = "bins" /\ bin <= Len(bins) /\ bin' = bin + 1
          /\ \/ /\ phase' = "cells" /\ CellsStart(bins[bin]) < ClippedEnd(bins[bin])
                /\ cell' = CellsStart(bins[bin])
             \/ phase' = "bins" /\ CellsStart(bins[bin]) >= ClippedEnd(bins[bin])
      BY <1>4 DEF EnterBin, SkipBin, openVars
    <2>2. bin \in 1 .. Len(bins) /\ bin' - 1 = bin
      BY <1>1, <2>1 DEF IInv, CursorInv
    <2>3. PICK b : b = bins[bin] /\ IsBinOfFile(b)
      BY <2>2, BinFacts
    <2>4. HeldBins' = HeldBins /\ HeldBins[bin] = Held(b) /\ Found' = Found
      BY <2>1, <2>2, <2>3, SameHeld DEF HeldBins, Found
    <2>5. \A q \in Held(b) : q \in Nat /\ CellsStart(b) + SizeField <= q
                             /\ q + SigLen <= ClippedEnd(b)
      BY <2>3, HeldInBin
    <2>6. \A n \in 1 .. bin' - 1 : n = bin \/ (n \in 1 .. bin - 1 /\ n # bin' - 1)
      BY <1>1, <2>2
    <2>7. \A n, q : Passed(n, q)
      BY <2>1 DEF Passed
    <2>8. NoneMissed'
      <3>. SUFFICES ASSUME Len(out) < MAX_RECOVERIES, NEW n \in 1 .. bin' - 1,
                           NEW q \in HeldBins[n], Passed(n, q)'
                    PROVE  q \in Found
        BY <2>1, <2>4 DEF NoneMissed
      <3>1. CASE n = bin
        <4>1. q \in Held(b)
          BY <2>4, <3>1
        <4>2. phase' = "cells" => q < CellsStart(b)
          BY <2>1, <2>2, <2>3, <3>1 DEF Passed
        <4>3. q \in Nat /\ CellsStart(b) + SizeField <= q /\ q + SigLen <= ClippedEnd(b)
          BY <2>5, <4>1
        <4>4. /\ CellsStart(b) \in Nat /\ ClippedEnd(b) \in Nat
              /\ SizeField \in Nat /\ SigLen \in Nat \ {0}
          BY <2>3, CarveAssumption DEF IsBinOfFile
        <4>5. ~(q < CellsStart(b)) /\ CellsStart(b) < ClippedEnd(b)
          BY <4>3, <4>4
        <4>. QED
          BY <2>1, <2>3, <4>2, <4>4, <4>5
      <3>2. CASE n # bin
        BY <2>6, <2>7, <3>2 DEF ExactInv, NoneMissed
      <3>. QED
        BY <3>1, <3>2
    <2>9. FirstFound'
      <3>. SUFFICES ASSUME NEW n \in 1 .. bin' - 1, NEW q \in HeldBins[n] \ Found,
                           NEW p \in Found
                    PROVE  p < q
        BY <2>4 DEF FirstFound
      <3>1. CASE n = bin
        <4>1. PICK k \in 1 .. Len(out) : p = out[k].sig
          BY DEF Found
        <4>2. out[k] \in Recovery /\ bin > 1 /\ p < ClippedEnd(bins[bin - 1])
          BY <1>1, <4>1 DEF IInv, OutInv, Behind
        <4>3. bin - 1 \in 1 .. Len(bins) /\ p < ClippedEnd(bins[bin - 1]) /\ p \in Nat
          BY <1>1, <2>2, <4>2, <4>1 DEF Recovery
        <4>4. bins[bin].at = bins[bin - 1].at + bins[bin - 1].size
          BY <2>2, <4>3 DEF IInv, OpenInv, BinsContiguous
        <4>5. /\ bins[bin].at \in Nat /\ ClippedEnd(bins[bin - 1]) \in Nat
              /\ ClippedEnd(bins[bin - 1]) <= bins[bin - 1].at + bins[bin - 1].size
              /\ bins[bin - 1].at \in Nat /\ bins[bin - 1].size \in Nat
          BY <2>2, <4>3, CellFacts
        <4>6. q \in Nat /\ CellsStart(b) + SizeField <= q
          BY <2>4, <2>5, <3>1
        <4>7. p < bins[bin].at
          BY <4>3, <4>4, <4>5
        <4>8. bins[bin].at + HbinHeader + SizeField <= q
          BY <2>3, <4>6 DEF CellsStart
        <4>9. HbinHeader \in Nat /\ SizeField \in Nat /\ bins[bin].at \in Nat
          BY <4>5, OpenAssumption, CarveAssumption
        <4>10. bins[bin].at <= q
          BY <4>6, <4>8, <4>9
        <4>11. q \in Nat /\ p \in Nat
          BY <4>3, <4>6
        <4>. QED
          BY <4>7, <4>9, <4>10, <4>11
      <3>2. CASE n # bin
        BY <2>6, <3>2 DEF ExactInv, FirstFound
      <3>. QED
        BY <3>1, <3>2
    <2>10. OnlyHeld'
      <3>1. 1 .. bin - 1 \subseteq 1 .. bin' - 1
        BY <1>1, <2>1
      <3>. QED
        BY <2>4, <3>1 DEF ExactInv, OnlyHeld
    <2>11. ChainInv'
      <3>1. ASSUME phase' = "cells"
            PROVE  \E x \in {bins'[bin' - 1]}, y \in {cell'} :
                     \E m \in 0 .. Room(x)' : OnChain(x, y, m)'
        <4>1. PICK c : c = CellsStart(b)
          OBVIOUS
        <4>2. OnChain(b, c, 0)
          BY <2>1, <2>3, <3>1, <4>1, ChainStart
        <4>3. OnChain(b, c, 0)' /\ 0 \in 0 .. Room(b)'
          BY <2>1, <4>2, SameChain DEF OnChain
        <4>. QED
          BY <2>1, <2>2, <2>3, <3>1, <4>1, <4>3
      <3>. QED
        BY <2>1, <3>1 DEF ChainInv
    <2>. QED
      BY <2>1, <2>8, <2>9, <2>10, <2>11 DEF ExactInv, CapOnly
  <1>5. CASE AllocatedCell \/ FreeCell
    <2>1. /\ AtCell /\ phase = "cells" /\ UNCHANGED <<file, bins, bin, scanned, cell, out>>
          /\ phase' = "slack" /\ slack' \in Nat
          /\ \/ IsAllocated(cell) /\ slack' = cell + SizeField + SigLen
             \/ ~IsAllocated(cell) /\ slack' = cell + SizeField
      BY <1>1, <1>5, CarveAssumption
      DEF AllocatedCell, FreeCell, Sweep, AtCell, openVars
    <2>2. CellSize(cell) \in Nat /\ CellSize(cell) >= SizeField + SigLen
      BY <1>1, <2>1, CellFacts, CarveAssumption DEF AtCell
    <2>3. ChainInv'
      <3>1. slack' <= cell + CellSize(cell)
        BY <1>1, <2>1, <2>2, CarveAssumption
      <3>. QED
        BY <1>1, <2>1, <3>1, ChainKept, CarveAssumption
    <2>4. ASSUME NEW q \in HeldBins[bin - 1], q \in Nat, q < slack' PROVE q < cell
      <3>1. CASE q \in Recoveries(bins[bin - 1], cell)
        <4>1. /\ cell + SizeField <= q
              /\ IsAllocated(cell) => cell + SizeField + SigLen <= q
          BY <1>1, <2>1, <3>1, AtChain, BinFacts, RecoveryFacts
        <4>. QED
          BY <1>1, <2>1, <2>4, <4>1, CarveAssumption
      <3>2. CASE cell + CellSize(cell) + SizeField <= q
        <4>1. slack' <= cell + CellSize(cell)
          BY <1>1, <2>1, <2>2, CarveAssumption
        <4>2. cell \in Nat /\ slack' \in Nat /\ SizeField \in Nat
          BY <1>1, <2>1, AtChain, CarveAssumption
        <4>. QED
          BY <2>2, <2>4, <3>2, <4>1, <4>2
      <3>3. \/ q < cell
            \/ q \in Recoveries(bins[bin - 1], cell)
            \/ cell + CellSize(cell) + SizeField <= q
        BY <1>1, <2>1, <2>4, AtChain
      <3>. QED
        BY <3>1, <3>2, <3>3
    <2>5. \A q \in HeldBins[bin - 1] : Passed(bin - 1, q)' => Passed(bin - 1, q)
      BY <2>1, <2>4, AtChain DEF Passed
    <2>. QED
      BY <2>1, <2>3, <2>5, NothingFound DEF CapOnly
  <1>6. CASE FreeCellHead
    <2>. DEFINE r == Recovered(cell + SizeField, cell, "UnallocatedCell")
    <2>1. /\ AtCell /\ phase = "cells" /\ UNCHANGED <<file, bins, bin, scanned, cell>>
          /\ phase' = "slack" /\ slack' = cell + SizeField + SigLen
          /\ ~IsAllocated(cell) /\ Recoverable(cell + SizeField, CellEnd(cell))
          /\ out' = Append(out, r) /\ Len(out) < MAX_RECOVERIES
      BY <1>6 DEF FreeCellHead, Sweep, AtCell, openVars
    <2>2. CellSize(cell) \in Nat /\ CellSize(cell) >= SizeField + SigLen
      BY <1>1, <2>1, CellFacts, CarveAssumption DEF AtCell
    <2>3. ChainInv'
      <3>1. slack' <= cell + CellSize(cell)
        BY <1>1, <2>1, <2>2, CarveAssumption
      <3>. QED
        BY <1>1, <2>1, <3>1, ChainKept, CarveAssumption
    <2>4. r.sig = cell + SizeField
      BY DEF Recovered
    <2>. HIDE DEF r
    <2>5. cell + SizeField \in Recoveries(bins[bin - 1], cell)
      <3>1. CellEnd(cell) = Least(cell + CellSize(cell), ClippedEnd(bins[bin - 1]))
            /\ CellEnd(cell) \in Nat /\ cell + SizeField <= CellEnd(cell)
        BY <2>1, AtCellChain, AtCellFacts
      <3>2. cell + SizeField \in cell + SizeField .. CellEnd(cell)
        BY <1>1, <3>1, CarveAssumption
      <3>. QED
        BY <2>1, <3>1, <3>2 DEF Recoveries
    <2>6. cell + SizeField \in HeldBins[bin - 1]
      BY <2>1, <2>5, AtChain, AtCellChain, BinFacts, CellIsWalked
    <2>7. \A p \in Found : p < cell + SizeField
      <3>. SUFFICES ASSUME NEW k \in 1 .. Len(out) PROVE out[k].sig < cell + SizeField
        BY DEF Found
      <3>1. out[k] \in Recovery
        BY <1>1
      <3>2. out[k].sig < cell /\ out[k].sig \in Nat
        BY <2>1, <3>1 DEF IInv, OutInv, Behind, Recovery
      <3>. QED
        BY <1>1, <3>2, CarveAssumption
    <2>8. ASSUME NEW q \in HeldBins[bin - 1]
          PROVE  q < cell \/ q = cell + SizeField \/ cell + SizeField + SigLen <= q
      <3>1. CASE q \in Recoveries(bins[bin - 1], cell)
        <4>1. q \in Nat /\ cell + SizeField <= q /\ q \in DOMAIN file.rec
          BY <1>1, <2>1, <3>1, AtChain, BinFacts, RecoveryFacts
        <4>2. cell + SizeField \in DOMAIN file.rec /\ HasCells(file)
          BY <2>1 DEF Recoverable, IInv, CarveTypeOK
        <4>3. cell + SizeField < q => cell + SizeField + SigLen <= q
          BY <4>1, <4>2 DEF HasCells
        <4>. QED
          BY <1>1, <4>1, <4>3, CarveAssumption
      <3>2. CASE cell + CellSize(cell) + SizeField <= q
        <4>1. q \in Nat
          BY <2>1, AtChain
        <4>. QED
          BY <1>1, <2>2, <3>2, <4>1, CarveAssumption
      <3>. QED
        BY <2>1, <3>1, <3>2, AtChain
    <2>9. ASSUME NEW q \in HeldBins[bin - 1]
          PROVE  /\ Passed(bin - 1, q)' => Passed(bin - 1, q) \/ q = cell + SizeField
                 /\ Passed(bin - 1, q) \/ q = cell + SizeField \/ cell + SizeField < q
      <3>1. q \in Nat
        BY <2>1, AtChain
      <3>2. Passed(bin - 1, q) <=> q < cell
        BY <2>1 DEF Passed
      <3>3. Passed(bin - 1, q)' => q < cell + SizeField + SigLen
        BY <2>1 DEF Passed
      <3>4. cell + SizeField + SigLen <= q =>
              cell + SizeField < q /\ ~(q < cell + SizeField + SigLen)
        BY <1>1, <3>1, CarveAssumption
      <3>. QED
        BY <2>8, <3>2, <3>3, <3>4
    <2>10. bin > 1 /\ CapOnly'
      BY <2>1, AtChain DEF CapOnly
    <2>. QED
      BY <2>1, <2>3, <2>4, <2>6, <2>7, <2>9, <2>10, RecordFound
  <1>7. CASE EndBin
    <2>1. /\ phase = "cells" /\ ~AtCell /\ phase' = "bins"
          /\ UNCHANGED <<file, bins, bin, scanned, cell, out>>
      BY <1>7 DEF EndBin, openVars
    <2>2. ASSUME Len(out) < MAX_RECOVERIES, NEW q \in HeldBins[bin - 1] PROVE q < cell
      <3>1. ~Walkable(bins[bin - 1], cell)
        BY <2>1, <2>2, AtChain DEF AtCell, Walkable
      <3>. QED
        BY <2>1, <3>1, AtChain
    <2>3. Len(out) < MAX_RECOVERIES => \A q \in HeldBins[bin - 1] : Passed(bin - 1, q)
      BY <2>1, <2>2 DEF Passed
    <2>. QED
      BY <2>1, <2>3, NothingFound DEF ChainInv, CapOnly
  <1>8. CASE SweepByte
    <2>. DEFINE r == Recovered(slack, slack - SizeField, "Slack")
    <2>1. /\ phase = "slack" /\ slack + SigLen <= slackEnd /\ Len(out) < MAX_RECOVERIES
          /\ UNCHANGED <<file, bins, phase, bin, scanned, cell, slackEnd>>
          /\ slack' = slack + 1
          /\ out' = IF Recoverable(slack, slackEnd) THEN Append(out, r) ELSE out
      BY <1>8 DEF SweepByte, InSlack, openVars
    <2>2. /\ Walkable(bins[bin - 1], cell)
          /\ slackEnd = Least(cell + CellSize(cell), ClippedEnd(bins[bin - 1]))
          /\ cell + SizeField <= slack
          /\ IsAllocated(cell) => cell + SizeField + SigLen <= slack
      BY <2>1, AtChain DEF IInv, CursorInv, ExactInv, ChainInv, Walkable, CellEnd
    <2>3. slackEnd <= cell + CellSize(cell) /\ CellSize(cell) \in Nat
      BY <1>1, <2>1, <2>2, AtChain DEF Least
    <2>4. ChainInv'
      <3>1. slack' <= cell + CellSize(cell) /\ slack <= slack'
        BY <1>1, <2>1, <2>3, CarveAssumption
      <3>2. IsAllocated(cell) => cell + SizeField + SigLen <= slack'
        BY <1>1, <2>1, <2>2, <3>1, CarveAssumption
      <3>. QED
        BY <2>1, <3>1, <3>2, ChainKept
    <2>5. ASSUME NEW q \in HeldBins[bin - 1]
          PROVE  q < slack \/ (q = slack /\ Recoverable(slack, slackEnd)) \/ slack < q
      <3>1. q \in Nat
        BY <2>1, AtChain
      <3>2. CASE q < cell
        BY <1>1, <2>2, <3>1, <3>2, CarveAssumption
      <3>3. CASE q \in Recoveries(bins[bin - 1], cell)
        <4>1. Recoverable(q, slackEnd)
          BY <2>2, <3>3 DEF Recoveries
        <4>. QED
          BY <1>1, <3>1, <4>1
      <3>4. CASE cell + CellSize(cell) + SizeField <= q
        BY <1>1, <2>1, <2>3, <3>1, <3>4, CarveAssumption
      <3>. QED
        BY <2>1, <3>2, <3>3, <3>4, AtChain
    <2>6. ASSUME NEW q \in HeldBins[bin - 1]
          PROVE  /\ Passed(bin - 1, q) <=> q < slack
                 /\ Passed(bin - 1, q)' <=> q < slack + 1
                 /\ q \in Nat
      BY <2>1, AtChain DEF Passed
    <2>7. bin > 1 /\ CapOnly'
      BY <2>1, AtChain DEF CapOnly
    <2>8. CASE ~Recoverable(slack, slackEnd)
      <3>1. out' = out
        BY <2>1, <2>8
      <3>2. \A q \in HeldBins[bin - 1] : Passed(bin - 1, q)' => Passed(bin - 1, q)
        BY <1>1, <2>5, <2>6, <2>8
      <3>. QED
        BY <2>1, <2>4, <2>7, <3>1, <3>2, NothingFound
    <2>9. CASE Recoverable(slack, slackEnd)
      <3>1. out' = Append(out, r) /\ r.sig = slack
        BY <2>1, <2>9 DEF Recovered
      <3>. HIDE DEF r
      <3>2. slack \in Recoveries(bins[bin - 1], cell)
        <4>1. \/ IsAllocated(cell) /\ slack \in cell + (SizeField + SigLen) .. slackEnd
              \/ ~IsAllocated(cell) /\ slack \in cell + SizeField .. slackEnd
          BY <1>1, <2>1, <2>2, CarveAssumption
        <4>. QED
          BY <2>2, <2>9, <4>1 DEF Recoveries
      <3>3. slack \in HeldBins[bin - 1]
        BY <2>1, <2>2, <3>2, AtChain, BinFacts, CellIsWalked
      <3>4. \A p \in Found : p < slack
        BY <1>1, <2>1 DEF Found, IInv, OutInv, Behind
      <3>5. \A q \in HeldBins[bin - 1] :
              /\ Passed(bin - 1, q)' => Passed(bin - 1, q) \/ q \in Found \/ q = slack
              /\ Passed(bin - 1, q) \/ q = slack \/ slack < q
        BY <1>1, <2>5, <2>6
      <3>. QED
        BY <2>1, <2>4, <2>7, <3>1, <3>3, <3>4, <3>5, RecordFound
    <2>. QED
      BY <2>8, <2>9
  <1>9. CASE EndSweep
    <2>1. /\ phase = "slack" /\ phase' = "cells" /\ cell' = cell + CellSize(cell)
          /\ UNCHANGED <<file, bins, bin, scanned, slack, slackEnd, out>>
          /\ Len(out) < MAX_RECOVERIES => slack + SigLen > slackEnd
      BY <1>1, <1>9, CarveAssumption DEF EndSweep, InSlack, openVars
    <2>2. /\ Walkable(bins[bin - 1], cell)
          /\ slackEnd = Least(cell + CellSize(cell), ClippedEnd(bins[bin - 1]))
          /\ cell + SizeField <= slack
      BY <2>1, AtChain DEF IInv, CursorInv, ExactInv, ChainInv, Walkable, CellEnd
    <2>3. ChainInv'
      <3>1. PICK b : b = bins[bin - 1] /\ IsBinOfFile(b)
        BY <2>1, AtChain, BinFacts
      <3>2. PICK c : c = cell + CellSize(cell)
        OBVIOUS
      <3>3. PICK m \in 0 .. Room(b) : OnChain(b, cell, m)
        BY <2>1, <3>1, AtChain
      <3>4. OnChain(b, c, m + 1)
        BY <2>2, <3>1, <3>2, <3>3, ChainNext
      <3>5. OnChain(b, c, m + 1)' /\ m + 1 \in 0 .. Room(b)'
        BY <2>1, <3>4, SameChain DEF OnChain
      <3>6. \E x \in {bins'[bin' - 1]}, y \in {cell'} : \E k \in 0 .. Room(x)' : OnChain(x, y, k)'
        BY <2>1, <3>1, <3>2, <3>5
      <3>. QED
        BY <2>1, <3>6 DEF ChainInv
    <2>4. ASSUME Len(out) < MAX_RECOVERIES, NEW q \in HeldBins[bin - 1],
                 q < cell + CellSize(cell)
          PROVE  q < slack
      <3>1. q \in Nat /\ CellSize(cell) \in Nat
        BY <2>1, AtChain
      <3>2. CASE q < cell
        BY <1>1, <2>2, <3>1, <3>2, CarveAssumption
      <3>3. CASE q \in Recoveries(bins[bin - 1], cell)
        <4>1. q + SigLen <= slackEnd
          BY <2>2, <3>3 DEF Recoveries, Recoverable
        <4>. QED
          BY <1>1, <2>1, <2>4, <3>1, <4>1, CarveAssumption
      <3>4. CASE cell + CellSize(cell) + SizeField <= q
        BY <1>1, <2>4, <3>1, <3>4, CarveAssumption
      <3>. QED
        BY <2>1, <3>2, <3>3, <3>4, AtChain
    <2>5. Len(out) < MAX_RECOVERIES =>
            \A q \in HeldBins[bin - 1] : Passed(bin - 1, q)' => Passed(bin - 1, q)
      BY <2>1, <2>4 DEF Passed
    <2>. QED
      BY <2>1, <2>3, <2>5, NothingFound DEF CapOnly
  <1>10. CASE UNCHANGED vars
    <2>1. UNCHANGED <<file, bins, phase, bin, scanned, cell, slack, out>>
      BY <1>10 DEF vars, openVars, carveVars
    <2>2. ChainInv'
      <3>1. ASSUME phase \in {"cells", "slack"}
            PROVE  \E x \in {bins'[bin' - 1]}, y \in {cell'} :
                     \E k \in 0 .. Room(x)' : OnChain(x, y, k)'
        <4>1. PICK b \in {bins[bin - 1]}, c \in {cell} : \E m \in 0 .. Room(b) : OnChain(b, c, m)
          BY <3>1 DEF ExactInv, ChainInv
        <4>2. \E m \in 0 .. Room(b)' : OnChain(b, c, m)'
          BY <2>1, <4>1, SameChain
        <4>. QED
          BY <2>1, <4>1, <4>2
      <3>2. /\ CellSize(cell)' = CellSize(cell)
            /\ IsAllocated(cell)' <=> IsAllocated(cell)
        BY <2>1 DEF CellSize, RawSize, IsAllocated
      <3>. QED
        BY <2>1, <3>1, <3>2 DEF ExactInv, ChainInv
    <2>3. CapOnly' /\ \A q : Passed(bin - 1, q)' <=> Passed(bin - 1, q)
      BY <2>1 DEF ExactInv, CapOnly, Capped, Passed
    <2>. QED
      BY <2>1, <2>2, <2>3, NothingFound
  <1>. QED
    BY <1>2, <1>3, <1>4, <1>5, <1>6, <1>7, <1>8, <1>9, <1>10 DEF Next, CarveNext

\* A carve recovers exactly what the cell chains of the bins hold.
THEOREM CarveFindsAll == Spec => []CarveIsExact
  <1>1. Init => ExactInv
    <2>. SUFFICES ASSUME Init PROVE ExactInv
      OBVIOUS
    <2>1. phase = "idle" /\ bin = 1 /\ Found = {}
      BY DEF Init, Found
    <2>. QED
      BY <2>1 DEF ExactInv, ChainInv, NoneMissed, FirstFound, OnlyHeld, CapOnly
  <1>2. IInv /\ ExactInv => CarveIsExact
    <2>. SUFFICES ASSUME IInv, ExactInv, phase = "done" PROVE CarveIsExact
      BY DEF CarveIsExact
    <2>. DEFINE held == UNION {Held(bins[b]) : b \in 1 .. bin - 1}
    <2>1. \A n \in 1 .. bin - 1 : HeldBins[n] = Held(bins[n])
      BY CellFacts DEF IInv, CursorInv, HeldBins
    <2>2. \A n, q : Passed(n, q)
      BY DEF Passed
    <2>3. \A q \in held : \E n \in 1 .. bin - 1 : q \in HeldBins[n]
      BY <2>1
    <2>4. Found \subseteq held
      BY <2>1 DEF ExactInv, OnlyHeld
    <2>5. \A p \in Found, q \in held \ Found : p < q
      BY <2>3 DEF ExactInv, FirstFound
    <2>6. Found = held \/ Len(out) = MAX_RECOVERIES
      <3>1. CASE Len(out) < MAX_RECOVERIES
        BY <2>2, <2>3, <2>4, <3>1 DEF ExactInv, NoneMissed
      <3>2. CASE ~(Len(out) < MAX_RECOVERIES)
        BY <3>2, CellFacts, CarveAssumption DEF IInv, RecoveriesCapped
      <3>. QED
        BY <3>1, <3>2
    <2>7. bin <= Len(bins) => Capped
      BY CellFacts DEF ExactInv, CapOnly, IInv, CarveTypeOK
    <2>. HIDE DEF held
    <2>. QED
      BY <2>4, <2>5, <2>6, <2>7 DEF CarveIsExact, Found, held
  <1>. QED
    BY <1>1, <1>2, Invariance, NextExact, PTL DEF Spec
=============================================================================
