-------------------------------- MODULE Carve --------------------------------
(***************************************************************************)
(* Deleted-record recovery: recover_deleted, scan_bin, scan_slack and      *)
(* try_record (winreg-carve/src/lib.rs), run on a hive that HiveOpen has   *)
(* opened.  The three nested loops are steps of one machine.               *)
(*                                                                         *)
(* A file has two fields more than HiveOpen asks for.  raw maps a position *)
(* to the i32 that stands there (0 where nothing does).  rec maps the      *)
(* positions of an nk or vk signature to the record behind it: need is the *)
(* number of bytes the parser wants behind the signature, plausible is the *)
(* verdict of the structure and name tests.                                *)
(***************************************************************************)
EXTENDS HiveOpen

CONSTANTS
  SizeField,       \* 4: bytes of a cell's size field
  SigLen,          \* 2: bytes of a record's signature
  MinCell,         \* 8: MIN_CELL_SIZE
  MAX_RECOVERIES,  \* 100 000
  MAX_SCAN_BYTES   \* 512 MiB

IsRecord(r) == /\ r.kind \in {"nk", "vk"}
               /\ r.need \in Nat
               /\ r.plausible \in BOOLEAN

\* Two signatures share no byte: neither begins with the other's k.
HasCells(f) ==
  /\ DOMAIN f.raw \subseteq Nat /\ \A p \in DOMAIN f.raw : f.raw[p] \in Int
  /\ DOMAIN f.rec \subseteq Nat /\ \A p \in DOMAIN f.rec : IsRecord(f.rec[p])
  /\ \A p, q \in DOMAIN f.rec : p < q => p + SigLen <= q

ASSUME CarveAssumption ==
  /\ SizeField \in Nat \ {0} /\ SigLen \in Nat \ {0} /\ MinCell \in Nat
  /\ SizeField + SigLen <= MinCell
  /\ MAX_RECOVERIES \in Nat /\ MAX_SCAN_BYTES \in Nat
  /\ \A f \in Files : HasCells(f)

VARIABLES
  phase,    \* "idle", "bins", "cells", "slack" or "done"
  bin,      \* index of the next bin of recover_deleted's loop
  scanned,  \* bytes of cell area entered so far
  cell,     \* pos of scan_bin
  binEnd,   \* end of the bin, clipped to the file
  slack,    \* absolute position start + i of scan_slack
  slackEnd, \* end of the region swept
  out       \* the recovered records

carveVars == <<phase, bin, scanned, cell, binEnd, slack, slackEnd, out>>
vars == <<openVars, carveVars>>

-----------------------------------------------------------------------------
RawSize(p) == IF p \in DOMAIN file.raw THEN file.raw[p] ELSE 0

Abs(n) == IF n < 0 THEN -n ELSE n

Least(m, n) == IF m < n THEN m ELSE n

\* Mutants: the sign read the wrong way round, left on the size, and the end
\* of the bin not minded.
IsPositive(p) == RawSize(p) > 0
CellEndSigned(p) == Least(p + RawSize(p), binEnd)
CellEndUnclipped(p) == p + Abs(RawSize(p))

\* CellHeader: the sign tells allocated from free, the size is absolute.
IsAllocated(p) == RawSize(p) < 0
CellSize(p) == Abs(RawSize(p))
CellEnd(p) == Least(p + CellSize(p), binEnd)

\* try_record: a signature, a record that fits the region and is plausible.
Recoverable(p, end) ==
  /\ p + SigLen <= end
  /\ p \in DOMAIN file.rec
  /\ p + SigLen + file.rec[p].need <= end
  /\ file.rec[p].plausible

\* The record it returns: sig is where the signature stands, off the
\* file_offset that is reported.  Both callers pass allocated = false.
Recovered(p, off, source) ==
  [sig |-> p, off |-> off, kind |-> file.rec[p].kind, allocated |-> FALSE,
   source |-> source,
   confidence |-> IF source = "UnallocatedCell" THEN "High" ELSE "Medium"]

-----------------------------------------------------------------------------
Init ==
  /\ OpenInit
  /\ phase = "idle"
  /\ bin = 1 /\ scanned = 0
  /\ cell = 0 /\ binEnd = 0 /\ slack = 0 /\ slackEnd = 0
  /\ out = << >>

Open == OpenNext /\ UNCHANGED carveVars

\* recover_deleted is called on an open hive.
BeginCarve ==
  /\ stage = "open" /\ phase = "idle"
  /\ phase' = "bins"
  /\ UNCHANGED <<openVars, bin, scanned, cell, binEnd, slack, slackEnd, out>>

Capped == Len(out) >= MAX_RECOVERIES \/ scanned >= MAX_SCAN_BYTES

\* The area of a bin behind its header, clipped to the file.
CellsStart(b) == b.at + HbinHeader
ClippedEnd(b) == Least(b.at + b.size, file.len)

EnterBin ==
  /\ phase = "bins" /\ bin <= Len(bins) /\ ~Capped
  /\ CellsStart(bins[bin]) < ClippedEnd(bins[bin])
  /\ scanned' = scanned + (ClippedEnd(bins[bin]) - CellsStart(bins[bin]))
  /\ cell' = CellsStart(bins[bin])
  /\ binEnd' = ClippedEnd(bins[bin])
  /\ bin' = bin + 1
  /\ phase' = "cells"
  /\ UNCHANGED <<openVars, slack, slackEnd, out>>

SkipBin ==
  /\ phase = "bins" /\ bin <= Len(bins) /\ ~Capped
  /\ CellsStart(bins[bin]) >= ClippedEnd(bins[bin])
  /\ bin' = bin + 1
  /\ UNCHANGED <<openVars, phase, scanned, cell, binEnd, slack, slackEnd, out>>

EndCarve ==
  /\ phase = "bins"
  /\ bin > Len(bins) \/ Capped
  /\ phase' = "done"
  /\ UNCHANGED <<openVars, bin, scanned, cell, binEnd, slack, slackEnd, out>>

\* Mutant: a cell of any size will do.
AtCellOfAnySize ==
  /\ phase = "cells"
  /\ cell + SizeField <= binEnd /\ Len(out) < MAX_RECOVERIES

\* scan_bin: the while condition and the test that the walk advances.
AtCell ==
  /\ phase = "cells"
  /\ cell + SizeField <= binEnd /\ Len(out) < MAX_RECOVERIES
  /\ CellSize(cell) >= MinCell

Sweep(from) ==
  /\ slack' = from
  /\ slackEnd' = CellEnd(cell)
  /\ phase' = "slack"
  /\ UNCHANGED <<openVars, bin, scanned, cell, binEnd>>

\* Mutant: the live record at the head is swept too.
AllocatedCellWhole ==
  /\ AtCell /\ IsAllocated(cell)
  /\ Sweep(cell + SizeField)
  /\ UNCHANGED out

\* An allocated cell: its own record is live, only what lies behind its
\* signature is swept.
AllocatedCell ==
  /\ AtCell /\ IsAllocated(cell)
  /\ Sweep(cell + SizeField + SigLen)
  /\ UNCHANGED out

\* Mutant: the sweep begins at the head that was just recovered.
FreeCellHeadTwice ==
  /\ AtCell /\ ~IsAllocated(cell)
  /\ Recoverable(cell + SizeField, CellEnd(cell))
  /\ out' = Append(out, Recovered(cell + SizeField, cell, "UnallocatedCell"))
  /\ Sweep(cell + SizeField)

\* A free cell: its head is tried first, then the rest is swept.
FreeCellHead ==
  /\ AtCell /\ ~IsAllocated(cell)
  /\ Recoverable(cell + SizeField, CellEnd(cell))
  /\ out' = Append(out, Recovered(cell + SizeField, cell, "UnallocatedCell"))
  /\ Sweep(cell + SizeField + SigLen)

FreeCell ==
  /\ AtCell /\ ~IsAllocated(cell)
  /\ ~Recoverable(cell + SizeField, CellEnd(cell))
  /\ Sweep(cell + SizeField)
  /\ UNCHANGED out

EndBin ==
  /\ phase = "cells" /\ ~AtCell
  /\ phase' = "bins"
  /\ UNCHANGED <<openVars, bin, scanned, cell, binEnd, slack, slackEnd, out>>

\* Mutant: the sweep minds no cap.
InSlackUncapped == phase = "slack" /\ slack + SigLen <= slackEnd

\* scan_slack, one position at a time.
InSlack == phase = "slack" /\ slack + SigLen <= slackEnd /\ Len(out) < MAX_RECOVERIES

SweepByte ==
  /\ InSlack
  /\ out' = IF Recoverable(slack, slackEnd)
              THEN Append(out, Recovered(slack, slack - SizeField, "Slack"))
              ELSE out
  /\ slack' = slack + 1
  /\ UNCHANGED <<openVars, phase, bin, scanned, cell, binEnd, slackEnd>>

EndSweep ==
  /\ phase = "slack" /\ ~InSlack
  /\ cell' = cell + CellSize(cell)
  /\ phase' = "cells"
  /\ UNCHANGED <<openVars, bin, scanned, binEnd, slack, slackEnd, out>>

CarveNext == \/ BeginCarve \/ EnterBin \/ SkipBin \/ EndCarve
             \/ AllocatedCell \/ FreeCellHead \/ FreeCell \/ EndBin
             \/ SweepByte \/ EndSweep

Next == Open \/ CarveNext

Spec == Init /\ [][Next]_vars

\* Opening and carving are two calls of one thread that nothing blocks.
FairSpec == Spec /\ WF_vars(Next)

-----------------------------------------------------------------------------
Recovery == [sig : Nat, off : Int, kind : {"nk", "vk"}, allocated : BOOLEAN,
             source : {"UnallocatedCell", "Slack"},
             confidence : {"High", "Medium", "Low"}]

\* Types of the carving state.
CarveTypeOK ==
  /\ HasCells(file)
  /\ phase \in {"idle", "bins", "cells", "slack", "done"}
  /\ bin \in Nat /\ scanned \in Nat
  /\ cell \in Nat /\ binEnd \in Nat /\ slack \in Nat /\ slackEnd \in Nat
  /\ out \in Seq(Recovery)

\* The cap on memory holds although three places push records: scan_bin tests
\* it before a cell, scan_slack before a position.
RecoveriesCapped == Len(out) <= MAX_RECOVERIES

\* Records come out in file order and none twice: the sweep of a cell never
\* reaches a position an earlier cell, an earlier bin or the head of the same
\* cell has already recovered, even where sizes in the file overlap bins.
RecordsInOrder ==
  \A m, n \in 1 .. Len(out) : m < n => out[m].sig < out[n].sig

\* A recovered record lies, signature and body, in the cell area of one bin
\* and inside the file.
RecordsInBins ==
  \A n \in 1 .. Len(out) : \E b \in 1 .. Len(bins) :
    /\ CellsStart(bins[b]) + SizeField <= out[n].sig
    /\ out[n].sig + SigLen + file.rec[out[n].sig].need <= ClippedEnd(bins[b])

\* "Structurally intact record in a cleanly-freed cell": High confidence is
\* given only at the head of a cell with positive size, to a record that the
\* cell holds completely, and the reported offset is that cell's.
HighMeansFreeHead ==
  \A n \in 1 .. Len(out) :
    out[n].confidence = "High" =>
      /\ out[n].sig = out[n].off + SizeField
      /\ RawSize(out[n].off) >= MinCell
      /\ out[n].sig + SigLen + file.rec[out[n].sig].need
           <= out[n].off + RawSize(out[n].off)

\* Carving ends, whatever sizes the file holds.
CarveReturns == <>(phase = "done" \/ stage = "error")

-----------------------------------------------------------------------------
Room(b) == ClippedEnd(b) - CellsStart(b)

\* Where the n-th cell of a bin's chain begins.
CellAt(b) ==
  LET at[n \in 0 .. Room(b)] ==
        IF n = 0 THEN CellsStart(b) ELSE at[n - 1] + CellSize(at[n - 1])
  IN  at

\* A cell that scan_bin walks: its size field lies in the bin and is no less
\* than the minimum.
Walkable(b, c) == c + SizeField <= ClippedEnd(b) /\ CellSize(c) >= MinCell

\* The cells of a bin, up to the first that is not walkable.
Walked(b) == {CellAt(b)[n] : n \in {m \in 0 .. Room(b) :
                                      \A k \in 0 .. m : Walkable(b, CellAt(b)[k])}}

\* What a cell holds for recovery: every record that fits it, but in an
\* allocated cell none where the signature of the live record stands.
Recoveries(b, c) ==
  LET end == Least(c + CellSize(c), ClippedEnd(b))
      head == IF IsAllocated(c) THEN SizeField + SigLen ELSE SizeField
  IN  {p \in c + head .. end : Recoverable(p, end)}

Held(b) == UNION {Recoveries(b, c) : c \in Walked(b)}

\* A carve recovers exactly the records that the chains of the bins it entered
\* hold, or the first of them in file order when it has come to MAX_RECOVERIES:
\* none is missed, a live record is never reported, and a bin is left out only
\* for a cap.
CarveIsExact ==
  phase = "done" =>
    LET found == {out[n].sig : n \in 1 .. Len(out)}
        held == UNION {Held(bins[b]) : b \in 1 .. bin - 1}
    IN  /\ found \subseteq held
        /\ found = held \/ Len(out) = MAX_RECOVERIES
        /\ \A p \in found, q \in held \ found : p < q
        /\ bin <= Len(bins) => Capped

-----------------------------------------------------------------------------
(* What the comments of the code say and the code does not keep.           *)

\* "Absolute file offset of the enclosing cell's size field" and "Whether the
\* enclosing cell was allocated when found" (lib.rs:83-86): a record just swept
\* out of a cell names that cell and tells whether it is allocated.
NamesItsCell ==
  phase = "slack" /\ out # << >> /\ out[Len(out)].sig >= cell =>
    /\ out[Len(out)].off = cell
    /\ out[Len(out)].allocated = IsAllocated(cell)
=============================================================================
