------------------------------- MODULE MCCarve -------------------------------
(***************************************************************************)
(* Small hives for HiveOpen and Carve: bins of 8 bytes with a header of 1, *)
(* cells with a size field of 1 and a signature of 2, at least 3 bytes.    *)
(***************************************************************************)
EXTENDS Carve, SequencesExt

CONSTANTS
  Chains,    \* the raw sizes of a bin's cells, one sequence per bin
  Cuts       \* bytes cut off the end of the file

Start(b) == BaseBlock + (b - 1) * BinAlign + HbinHeader

\* Where the n-th cell of a chain starts.
CellPos(b, chain, n) ==
  Start(b) + FoldSeq(LAMBDA r, s : s + Abs(r), 0, SubSeq(chain, 1, n - 1))

CellHeads(b, chain) == {CellPos(b, chain, n) : n \in DOMAIN chain}

RawOf(b, chain) ==
  [p \in CellHeads(b, chain) |-> chain[CHOOSE n \in DOMAIN chain : CellPos(b, chain, n) = p]]

\* Where a signature may stand: in the bin, at any byte that is no size field.
SigPositions(b, chain) ==
  (Start(b) .. Start(b) + BinAlign - HbinHeader - SigLen) \ CellHeads(b, chain)

\* Signatures that share no byte.
Apart(S) == \A p, q \in S : p < q => p + SigLen <= q

\* As many as fit one behind the other.
Dense(b, chain) == {p \in SigPositions(b, chain) : (p - Start(b)) % SigLen = 1}

Records == {[kind |-> "nk", need |-> 0, plausible |-> TRUE],
            [kind |-> "vk", need |-> 1, plausible |-> TRUE],
            [kind |-> "nk", need |-> 0, plausible |-> FALSE]}

RecordsOf(b, chain) ==
  UNION {[S -> Records] : S \in {T \in SUBSET SigPositions(b, chain) : Apart(T)}}

Merge(f, g) == [p \in DOMAIN f \union DOMAIN g |-> IF p \in DOMAIN f THEN f[p] ELSE g[p]]

Image(nbins, raw, rec, cut) ==
  [len |-> BaseBlock + nbins * BinAlign - cut,
   regf |-> TRUE, checksum |-> TRUE, minor |-> 5,
   binsSize |-> nbins * BinAlign,
   hbin |-> [p \in {BaseBlock + k * BinAlign : k \in 0 .. nbins - 1} |-> BinAlign],
   raw |-> raw, rec |-> rec]

OneBin == UNION {{Image(1, RawOf(1, c), r, cut) : r \in RecordsOf(1, c), cut \in Cuts} : c \in Chains}

\* Two bins: one record kind, everywhere or in one place.
FewRecords(b, chain) ==
  LET nk == [kind |-> "nk", need |-> 0, plausible |-> TRUE]
  IN  {[p \in Dense(b, chain) |-> nk]}
        \union {[p \in {q} |-> nk] : q \in SigPositions(b, chain)}

TwoBins ==
  UNION {{Image(2, Merge(RawOf(1, c), RawOf(2, d)), Merge(r, s), 0) :
             r \in FewRecords(1, c), s \in FewRecords(2, d)} :
           c \in Chains, d \in Chains}

\* Three bins: the third is behind the cap on bytes.
ThreeBins ==
  {Image(3, Merge(Merge(RawOf(1, c), RawOf(2, d)), RawOf(3, d)),
            [p \in Dense(1, c) \union {q} \union Dense(3, d) |->
               [kind |-> "nk", need |-> 0, plausible |-> TRUE]], cut) :
     c \in {<<7>>, <<-7>>, << >>}, d \in Chains, q \in SigPositions(2, <<4, -3>>), cut \in Cuts}

\* Hives that are cut off anywhere, announce more or fewer bins than they have,
\* or hold bins whose size is 0, too large or no multiple, next to good ones.
BinPositions(n) == {BaseBlock + k * BinAlign : k \in 0 .. n - 1}

Damaged ==
  LET nk == [kind |-> "nk", need |-> 0, plausible |-> TRUE]
  IN  {[Image(2, [p \in {Start(1), Start(2)} |-> 7], [p \in {Start(1) + 1, Start(2) + 3} |-> nk], 0)
          EXCEPT !.len = len, !.binsSize = size, !.hbin = h] :
         len \in 0 .. BaseBlock + 2 * BinAlign,
         size \in {3, BinAlign + 1, 3 * BinAlign},
         h \in UNION {[BinPositions(n) -> {0, 5, BinAlign, 2 * BinAlign}] : n \in 0 .. 3}}

\* Headers that fail one or several tests: carving never starts on them.
BadHeaders ==
  {[Image(1, << >>, << >>, 0) EXCEPT !.len = len, !.regf = r, !.checksum = c, !.minor = m] :
     len \in {BaseBlock - 1, BaseBlock + BinAlign}, r \in BOOLEAN, c \in BOOLEAN,
     m \in {0, 2, 6, 7}}

MCFiles == OneBin \union TwoBins \union ThreeBins \union Damaged \union BadHeaders

\* Free and allocated cells, one after the other, a whole bin, a cell that
\* runs past its bin, and sizes below the minimum.
MCChains == {<<-3, 4>>, <<4, -3>>, <<3, 3>>, <<7>>, <<-7>>, <<11>>, <<-11>>, <<3, 2>>, << >>}

=============================================================================
