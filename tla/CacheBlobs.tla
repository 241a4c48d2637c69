----------------------------- MODULE CacheBlobs -----------------------------
(***************************************************************************)
(* The caches of programs as Windows writes them, and what should be read  *)
(* of them: defined from the entries, without the offsets of SystemHive.   *)
(* A cache is a header and its entries; its end may be lost.               *)
(***************************************************************************)
EXTENDS SystemHive

CONSTANT Caches \* [format, entries, cut]: cut is how many places are lost

Entry == [path : Seq(Nat), package : Seq(Nat), flags : [1 .. FlagsLen -> Nat], time : Nat, data : Seq(Nat)]

\* In the layout of Windows 8 a package and flags follow the path.
BodyOf(e, win8) ==
  <<Len(e.path)>> \o e.path
    \o (IF win8 THEN <<Len(e.package)>> \o e.package \o e.flags ELSE << >>)
    \o <<e.time, Len(e.data)>> \o e.data

EntryOf(e, f) == <<f.marker, 0, Len(BodyOf(e, f.win8))>> \o BodyOf(e, f.win8)

\* The header with the first n entries.
Written(c) ==
  LET upTo[n \in 0 .. Len(c.entries)] ==
        IF n = 0 THEN c.format.header ELSE upTo[n - 1] \o EntryOf(c.entries[n], c.format)
  IN  upTo

BlobOf(c) ==
  LET all == Written(c)[Len(c.entries)]
  IN  SubSeq(all, 1, Len(all) - c.cut)

\* The formats: the header of Windows 8 with its markers, no header, a header
\* that begins with its length, and one of a kind that is not known, which is
\* passed over if nothing in it looks like another format.
Unknown(header) ==
  /\ header[1] \notin Win10HeaderLens \union {WIN8_HEADER_SIG}
  /\ \A n \in 1 .. Len(header) : header[n] \notin {Marker00, Marker10}

IsFormat(f) ==
  /\ f.header \in Seq(Nat) /\ f.win8 \in BOOLEAN
  /\ IF f.win8
     THEN /\ Len(f.header) = HeaderSize /\ f.header[1] \notin Win10HeaderLens \union {Marker10}
          /\ f.marker \in {Marker00, Marker10}
     ELSE /\ f.marker = Marker10
          /\ \/ f.header = << >>
             \/ f.header[1] = Len(f.header) /\ f.header[1] \in Win10HeaderLens
             \/ Unknown(f.header) /\ Len(f.header) # HeaderSize

MarkedAt(b, n) == n <= Len(b) /\ b[n] \in {Marker00, Marker10}

\* At least the marker of the last entry is left.
IsCache(c) ==
  /\ c.entries \in Seq(Entry) /\ c.entries # << >> /\ IsFormat(c.format)
  /\ c.cut \in 0 .. Len(EntryOf(c.entries[Len(c.entries)], c.format)) - 1
  /\ ~c.format.win8 /\ c.format.header # << >> /\ Unknown(c.format.header)
     => ~MarkedAt(BlobOf(c), HeaderSize + 1)

ASSUME CacheAssumption ==
  /\ HeaderSize \in Nat \ {0} /\ FlagsLen \in Nat /\ Win10HeaderLens \subseteq Nat \ {0}
  /\ {Marker00, Marker10} \subseteq Nat /\ Marker10 \notin Win10HeaderLens
  /\ WIN8_HEADER_SIG \notin Win10HeaderLens \union {Marker10}
  /\ \A c \in Caches : IsCache(c)
  /\ \A h \in SystemHives : \A k \in Ids : \A n \in DOMAIN h.vals[k] : h.vals[k][n].data.blob \in Seq(Nat)

\* The blobs of the caches.
CacheBlob == [c \in Caches |-> BlobOf(c)]

\* The entries that are whole.
Whole(c) == IF c.cut = 0 THEN Len(c.entries) ELSE Len(c.entries) - 1

\* What should be read of an entry: the path up to a null, the time.
Shown(e) ==
  [path |-> SubSeq(e.path, 1, Cardinality({n \in 1 .. Len(e.path) : \A m \in 1 .. n : e.path[m] # 0})),
   time |-> IF e.time = 0 THEN NoText ELSE e.time]

\* A cache is decoded into the entries that were written and that are whole,
\* in order, whichever of the formats it has and wherever it is cut off; of a
\* blob without a marker, and without a header that is known, it is recorded
\* that it was there, and a header of Windows 10 alone is an empty cache.
\* Of a Windows 8 header without a marker, where the comments of the code and
\* the code differ, nothing is said.
ShimcacheExact ==
  task = "returned" =>
    /\ \A c \in Caches :
         CacheBlob[c] = blob => cache = [n \in 1 .. Whole(c) |-> Shown(c.entries[n])]
    /\ /\ \A n \in 1 .. Len(blob) : blob[n] \notin {Marker00, Marker10}
       /\ blob # << >> => blob[1] # WIN8_HEADER_SIG
       => cache = IF blob = << >> \/ blob[1] \in Win10HeaderLens THEN << >>
                  ELSE <<[path |-> << >>, time |-> NoText]>>
=============================================================================
