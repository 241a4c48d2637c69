------------------------------ MODULE HiveOpen ------------------------------
(***************************************************************************)
(* Opening a hive: Hive::from_bytes and catalog_hbins                      *)
(* (winreg-core/src/hive.rs), on which every other component stands.       *)
(*                                                                         *)
(* A file is its length, the verdicts of the three header tests, the       *)
(* hive_bins_data_size field, and what stands at each position where an    *)
(* hbin header is looked for.                                              *)
(***************************************************************************)
EXTENDS Integers, Sequences

CONSTANTS
  BaseBlock,    \* 4096: BaseBlock::SIZE
  BinAlign,     \* 4096: an hbin's size is a multiple of it
  HbinHeader,   \* 32: bytes of an hbin header
  Files         \* the files that may be opened

\* hbin maps the positions that hold the hbin signature to the size field.
IsFile(f) ==
  /\ f.len \in Nat
  /\ f.regf \in BOOLEAN /\ f.checksum \in BOOLEAN
  /\ f.minor \in Nat
  /\ f.binsSize \in Nat
  /\ DOMAIN f.hbin \subseteq Nat
  /\ \A p \in DOMAIN f.hbin : f.hbin[p] \in Nat

ASSUME OpenAssumption ==
  /\ BaseBlock \in Nat /\ HbinHeader \in Nat /\ BinAlign \in Nat
  /\ 0 < HbinHeader /\ HbinHeader < BinAlign
  /\ \A f \in Files : IsFile(f)

VARIABLES
  file,     \* the bytes given to from_bytes
  stage,    \* "header", "catalog", "open" or "error"
  error,    \* the HiveError of a failed call, or "none"
  pos,      \* pos of catalog_hbins
  bins      \* the HbinDescriptors: [at, size] with at = file_offset

openVars == <<file, stage, error, pos, bins>>

OpenInit ==
  /\ file \in Files
  /\ stage = "header"
  /\ error = "none"
  /\ pos = BaseBlock
  /\ bins = << >>

-----------------------------------------------------------------------------
\* The tests of from_bytes in their order: length, regf signature
\* (BaseBlock::read), checksum, and the minor versions from_minor knows.
SupportedMinor == 0 .. 6

HeaderError(f) ==
  CASE f.len < BaseBlock -> "TruncatedHive"
    [] f.len >= BaseBlock /\ ~f.regf -> "InvalidSignature"
    [] f.len >= BaseBlock /\ f.regf /\ ~f.checksum -> "ChecksumMismatch"
    [] f.len >= BaseBlock /\ f.regf /\ f.checksum /\ f.minor \notin SupportedMinor
         -> "UnsupportedVersion"
    [] OTHER -> "none"

Fail(e) == stage' = "error" /\ error' = e /\ bins' = << >>

RejectHeader ==
  /\ stage = "header"
  /\ HeaderError(file) # "none"
  /\ Fail(HeaderError(file))
  /\ UNCHANGED <<file, pos>>

AcceptHeader ==
  /\ stage = "header"
  /\ HeaderError(file) = "none"
  /\ stage' = "catalog"
  /\ UNCHANGED <<file, error, pos, bins>>

\* One turn of the loop of catalog_hbins.
BinsEnd == BaseBlock + file.binsSize
Cataloging == stage = "catalog" /\ pos < BinsEnd
\* Mutant: the end of the header is not compared with the end of the file.
HeaderBegins == pos <= file.len

HeaderFits == pos + HbinHeader <= file.len
IsHbin == pos \in DOMAIN file.hbin
BinSize == file.hbin[pos]
SizeIsValid == BinSize # 0 /\ BinSize % BinAlign = 0

\* Mutant: the walk goes on at the next page instead of the end of the bin.
CatalogBinPage ==
  /\ Cataloging /\ HeaderFits /\ IsHbin /\ SizeIsValid
  /\ bins' = Append(bins, [at |-> pos, size |-> BinSize])
  /\ pos' = pos + BinAlign
  /\ UNCHANGED <<file, stage, error>>

CatalogBin ==
  /\ Cataloging /\ HeaderFits /\ IsHbin /\ SizeIsValid
  /\ bins' = Append(bins, [at |-> pos, size |-> BinSize])
  /\ pos' = pos + BinSize
  /\ UNCHANGED <<file, stage, error>>

RejectBin ==
  /\ Cataloging /\ HeaderFits /\ ~IsHbin
  /\ Fail("InvalidHbin")
  /\ UNCHANGED <<file, pos>>

\* The loop ends: all of the data is cataloged, the file is cut off, or the
\* size field is not a size.  All three are a successful open.
FinishCatalog ==
  /\ stage = "catalog"
  /\ \/ ~Cataloging
     \/ ~HeaderFits
     \/ IsHbin /\ ~SizeIsValid
  /\ stage' = "open"
  /\ UNCHANGED <<file, error, pos, bins>>

OpenNext == \/ RejectHeader \/ AcceptHeader
            \/ CatalogBin \/ RejectBin \/ FinishCatalog

OpenSpec == OpenInit /\ [][OpenNext]_openVars

-----------------------------------------------------------------------------
Bin == [at : Nat, size : Nat]

\* Types of the opened hive.
OpenTypeOK ==
  /\ IsFile(file)
  /\ stage \in {"header", "catalog", "open", "error"}
  /\ pos \in Nat
  /\ bins \in Seq(Bin)

\* The catalog is a chain: the first hbin stands behind the base block, each
\* next one where the one before it ends, and the walk stands behind the last.
\* Bins therefore never overlap, although the sizes come from the file.
BinsContiguous ==
  /\ \A n \in 1 .. Len(bins) :
       bins[n].at = IF n = 1 THEN BaseBlock ELSE bins[n - 1].at + bins[n - 1].size
  /\ stage = "catalog" =>
       pos = IF bins = << >> THEN BaseBlock
                             ELSE bins[Len(bins)].at + bins[Len(bins)].size

\* Every cataloged bin has room for cells, its header was read inside the file
\* and it starts inside the area that the header announces; only the last one
\* may run past the end of the file.
BinsInFile ==
  \A n \in 1 .. Len(bins) :
    /\ bins[n].size > HbinHeader
    /\ bins[n].at + HbinHeader <= file.len
    /\ bins[n].at < BinsEnd
    /\ n < Len(bins) => bins[n].at + bins[n].size < file.len
=============================================================================
