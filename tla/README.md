# winreg-forensic in TLA+

This directory models the parts of `winreg-forensic` whose correctness depends
on the order of steps and on what damaged input does to them: replaying
transaction logs, opening a hive, navigating it, reading values, recovering
deleted records, comparing hives, finding hives in evidence, scanning them for
the artifacts of a catalog, reading services and the program cache of a SYSTEM
hive, and building the hives that the tests of all these use. Paths below are
relative to `src/crates/`.

The program is a set of libraries and one command-line tool. Every call runs in
one thread; nothing is shared between threads and nothing is persisted. What is
hard about it is its input: hives and logs are evidence, cut off, half-written
or edited, and every offset, size and count comes from them. Each module
therefore starts from *any* input of a set (a constant), and its behaviours are
the runs of one call, loop turn by loop turn.

## 1. Inventory

| Part | State it keeps | Operations | Works with | What makes it correct |
|---|---|---|---|---|
| `winreg-core/src/txlog.rs` | the base bytes, the map of dirty pages, cursor in a log | `replay_transaction_logs`, `parse_new_format_log`, `apply_page`, `read_at`, `materialize` | logs in the order given; its bytes are opened as a hive | bytes come from logs only and from inside them; the base block is never patched; what was applied last shows; the call returns |
| `winreg-core/src/hive.rs` | header, list of bins | `from_bytes`, `catalog_hbins`, `root_key`, `open_key` | gives the bins to carving, cells to all others | bins are a chain inside the file; opening ends |
| `winreg-core/src/cell_reader.rs` | none | `read_cell_raw`, `read_cell` | called with offsets from the file | a cell that is free or beyond the file is an error |
| `winreg-core/src/key.rs`, `iter.rs` | queue or stack of keys | `subkeys`, `collect_subkey_offsets`, breadth- and depth-first `next` | cells | keys only, reachable ones only, each once, in order; an unreadable key costs its subtree |
| `winreg-core/src/path.rs`, `key.rs` | the names collected | `path`, `subkey`, `subkey_path`, `open_key` | parent links and subkey lists, which may disagree | going up and down are inverse; cycles of parents end |
| `winreg-core/src/value.rs` | the data gathered | `raw_data`, `read_big_data`, decoders | cells; used by the comparison and all decoders | data from the value's own cells, in order, never longer than declared |
| `winreg-core/src/detect.rs` | none | `detect_hive_type` | keys below the root; used by discovery and scans | a decision list |
| `winreg-format` | none | readers of fields and cell layouts | all of `winreg-core` | total functions |
| `winreg-carve/src/lib.rs` | recovered records, three nested cursors | `recover_deleted`, `scan_bin`, `scan_slack`, `try_record` | the bins of an opened hive | every record once, none that is live, caps hold |
| `winreg-carve/src/carver.rs` | none | finds whole hives in an image | the framework that calls it | size and checksum gates |
| `winreg-diff` | stack of keys, entries, counters | `diff_hives`, `diff_key_recursive`, `merge_join_subkeys`, `diff_values` | two hives | entries are the difference; counters are those of the entries |
| `winreg-discover` | findings | `discover_hives`, `try_probe_hive`, `try_probe_log` | the file system; used by the catalog scan | every copy once, with its provenance; one bad file costs itself |
| `winreg-artifacts/src/path_expansion.rs` | bindings, counter, recursion | `resolve_control_sets`, `expand`, `walk`, `glob_match` | the hive; used by the catalog scan | the matches of the template within two caps |
| `winreg-artifacts/src/catalog_scan.rs` | hits | `scan`, `scan_users`, `discover_user_hives`, normalization of paths | path expansion, discovery, detection | the hits are those the descriptors mean, each with its user |
| `winreg-artifacts/src/svc_diff.rs`, `shimcache.rs` | entries, offset in a blob | `parse`, `classify_service`, entry streams | the hive | three ways of finding the control set agree; entries are those that were written |
| other decoders of `winreg-artifacts` | none | one pass over fixed keys each | values | formats |
| `winreg-cli` | none | arguments, output | all | formatting |
| `winreg-testutil` | keys and values asked for, cells, maps of cell numbers | `add_key`, `add_value`, `build` | makes what the readers are tested with | the readers find what was asked for |
| `winreg-fuse`, `winreg-py`, `winreg-recover`, `winreg-timeline` | none | none | none | placeholders |

Hard behaviours, in the order of their weight: loops whose step comes from the
file (may they stand still, do they leave the file); caps tested in several
nested loops; recursion over links that form cycles; two representations that
must agree (parents and subkey lists, counters and entries, bindings and calls,
overlay and pages); an error in the middle of a list; overlapping or equal names.
There are no concurrent steps, no crash recovery by the program itself, no
messages and no timers.

`PROJECT.json` lists each such place as a hazard with its line and the
properties that watch it.

## 2. Modules

Every constant that names a size (`BaseBlock`, `SizeField`, `RefLen`...) is a
parameter with the real value in its comment; the assumptions (`GeometryAssumption`,
`OpenAssumption`, `CarveAssumption`, `ValueAssumption`, `ExpansionAssumption`,
`EvidenceAssumption`, `CatalogAssumption`, `CacheAssumption`...)
are the weakest the code's own constants satisfy.

| Module | Code | State and actions |
|---|---|---|
| `OverlayMemory` | comment `txlog.rs:14-15` | the abstract overlay: a memory on which every page applied lies on top |
| `TxLog` | `txlog.rs` | `pages` is the `BTreeMap`, `cur`/`pos`/`i`/`acc` are the locals of the loops over logs, entries and references; `OpenLog`/`SkipLog` are the header tests, `ScanForward`/`BeginEntry`/`EndLog`/`EndEntry` the loop of `parse_new_format_log`, `ReadRef` one turn of the loop over references with `apply_page`; `Materialize` is `read_at` at every offset |
| `HiveOpen` | `hive.rs` | the header tests in their order, `CatalogBin` one turn of `catalog_hbins`, `FinishCatalog` its three ways to stop |
| `Carve` (extends `HiveOpen`) | `winreg-carve/src/lib.rs` | three nested loops as the phases `bins`, `cells`, `slack`; runs on what `HiveOpen` has opened |
| `HiveWalk` | `key.rs`, `iter.rs` | `pending` is queue or stack; `ReadList` is `collect_subkey_offsets`, `ReadSubkey` the loop of `subkeys`, `YieldKey`/`YieldError` are what `next` returns |
| `WalkOrder` (extends `HiveWalk`) | doc comments of `iter.rs` | no state: what a key lists, the levels below the root and the pre-order below a key, as recursions on the depth of the hive, and the property that the walk follows them |
| `KeyPath` | `path.rs`, `key.rs`, `hive.rs` | `ClimbParent` one turn of `path`, `Descend` one component of `subkey_path` |
| `ValueData` | `value.rs`, `cell_reader.rs` | the branches of `raw_data`; `ReadSegment` one turn of `read_big_data`; `Refused`/`SliceInverted`/`Readable` are the outcomes of `read_cell_raw` |
| `Diff` | `winreg-diff/src/engine.rs`, `types.rs` | the recursion as a stack, one action per branch of the two merge joins |
| `Difference` (extends `Diff`) | what `engine.rs` is for | no state: keys of the same path as matches, what differs at a match, the entry that reports it, and the property that the result is the difference |
| `HiveTree` | `key.rs`, `value.rs`, `detect.rs` | no state: a hive as the readers above `winreg-core` see it, the lookups by name, `DetectHiveType` as a decision list |
| `PathExpansion` (extends `HiveTree`) | `path_expansion.rs` | `walk` as a stack of frames; one action per early return, loop turn and match; `GlobMatch` is the loop of `glob_match` with its two cursors and its mark |
| `TemplateWays` (extends `PathExpansion`) | what `path_expansion.rs` is for | no state: the ways down a hive that take the segments of a template in order, and the property that the hits are those of the ways that match, each once |
| `Discover` (extends `HiveTree`) | `winreg-discover/src/scanner.rs`, `catalog_scan.rs` | no state: what `discover_hives` and `discover_user_hives` make of a file system that does not change meanwhile |
| `CatalogScan` (extends `PathExpansion`, `Discover`) | `catalog_scan.rs` | the loops over hives (`SkipHive`, `EnterHive`, `EndHive`) and descriptors (`SkipDescriptor`, `BeginDescriptor`); in between the walk of `PathExpansion` runs step by step, and `EmitKey` is its match with the callback `emit_key`; `Normalize` is the rewriting of a catalog path |
| `SystemHive` (extends `HiveTree`) | `svc_diff.rs`, `shimcache.rs` | `OpenServices` finds the key, `ClassifyNext` one turn of the loop over services; `OpenCache` finds the key and the format, `ReadEntry` one turn of the loop over entries |
| `SystemFindings` (extends `PathExpansion`, `SystemHive`) | doc comments of `svc_diff.rs` and `path_expansion.rs` | no state: the control set that was running, the rules a service falls under, and the properties `ControlSetsAgree` and `ServicesExact` |
| `CacheBlobs` (extends `SystemHive`) | what `shimcache.rs` is for | no state: the blobs that caches of the three kinds of formats are written to, cut off in their last entry, and the property `ShimcacheExact` of what is read of them |
| `HiveBuilder` | `winreg-testutil/src/lib.rs` | the calls, then `build`: `AllocRoot`/`AllocKey`/`AllocValues`/`AllocLh` lay out cells, `LinkRoot`/`LinkChild`/`FillLh`/`FillValues` link them, `WriteHeaders` closes the bin; the recursions over the key tree are a list of paths to visit |
| `MC*` | | small inputs, and reference definitions (recursive or declarative) that runs compare with |
| `CarveProofs` (with `HiveOpen`), `DiffProofs`, `HiveWalkProofs`, `KeyPathProofs`, `PathExpansionProofs`, `TxLogProofs`, `ValueDataProofs` | | theorems about the module in the name; `PathExpansionProofs` also about `CatalogScan`, `SystemHive` and `CacheBlobs`, `KeyPathProofs` also about `HiveBuilder` |
| `DataLemmas` | | induction over numbers, what `FlattenSeq` computes, and facts about sequences |

Data is abstract where the code only passes it on. A byte is the place it was
copied from, so "this byte came from inside that log" can be said. A cell is what
reading it gives: a key, a leaf list, an index list, something else, or an error.
A name is its upper-case form, in `KeyPath` and `Diff` with a spelling. A path of
the catalog is its components; a pattern is a sequence of letters. The datum of a
value is whether it can be read, its size, and what the decoders give for it. A
blob of the program cache has one place per field and per character, so that
lengths and offsets are exact in these units. `plausible` is the verdict of the
name and time tests of carving.

Three compositions are checked: opening with carving (`Carve`), the scans with
discovery, detection and the walk (`CatalogScan`), and the builder with the
reader of paths (`MCKeyPath`: what was built is handed over to `path` and
`open_key`). `CatalogScan` and `SystemHive` share no state; `MCArtifacts` runs
the one or the other, and both against the same definition of the control set
that was running.

Definitions below a comment `Mutant:` are not the model. They are the ways in
which this code might be wrong that the properties were tried against.

## 3. Runs

Twelve configurations; all but the `violation` runs pass.

| Run | Question | Bounds, and why they are enough |
|---|---|---|
| `txlog_replay` | Do logs whose references tile the hive bring in only their own bytes, never touch the base block, show the last page, and end? | One or two logs, entries of up to two references, gaps of 0-1 bytes, up to 2 bytes cut off, sizes right or one too large, files that are no logs. A page has two bytes, so it can be cut between them; two logs and two entries give every order of application over two places |
| `txlog_overlap` | The same with references that overlap in part | violated, see 5 |
| `txlog_zero_size` | Does replay return when an entry declares size 0? | violated, see 5 |
| `carve` | Is the list of bins a chain inside the file, and does carving find exactly the records that are there? | Bins of 8 bytes, cells of at least 3, signatures of 2: a bin holds up to two cells, free, allocated, overlong or of size below the minimum, with a signature at any byte; two kinds of record, one implausible; files cut at 0, 2 and 6 bytes from the end. A second set has wrong bin sizes, wrong totals and a cut at every byte. The caps (3 records, 8 bytes) are met by some of the hives in each of the three loops |
| `carve_slack_cell` | Does a record name the cell it was found in? | violated, see 5 |
| `walk` | Do both iterators give the breadth-first and the pre-order sequence, and lose only the subtree of what is unreadable? Is anything else lost on hives that are no trees? | Four keys and three lists, all trees over them with index lists, errors, and cells that are no keys; and hives with shared or cyclic links, of which the first 5 items are looked at (`MaxItems`) and lists up to length 3 (`MaxLists`). No tree reaches either bound. `Depth` = 4 is the number of keys: on every tree the recursions of `WalkOrder` have come to rest by then (`Settled`), so that `WalkFollowsOrder` speaks of all of them, and of hives with shared links as well |
| `key_path` | Does `open_key` invert `path`? Is what the builder makes the hive that was asked for? | All trees of five keys with names from two, and these trees damaged in one place. `MaxHops` is 2 instead of 512, so that paths are cut off by it. Up to `MaxCalls` = 3 calls of `add_key` and `add_value` in every order: nested and repeated paths, values of 0, 4, 5, 16344, 16345 and twice 16344 bytes with the real thresholds, and one (3780) whose cells fill a page to the byte |
| `value_data` | Is the data of a value that of its segments? | A data cell, a segment list and two segments; sizes that fit, are short, overlap, are free, negative beyond the file or smaller than the size field; up to three segments of two bytes, values of 0-5 bytes, threshold 2 |
| `value_panic` | Is every size checked before use? | violated, see 5 |
| `diff` | Are the entries exactly the difference? Does a comparison end? | Two levels of keys, up to two subkeys and two values, names that differ in case, changed type or data, unreadable parts; pairs of all of them; and hives in which a key lists itself or an ancestor (`Endless`), against hives with an end and against each other. `Depth` = 4: wherever the keys that two of these hives share end, they end above it (`CommonKeysEnd`), so that `DiffIsExact` speaks of every such pair without siblings of one name. Of two endless hives the first `MaxJoins` = 6 nested merge joins are looked at; no other pair has as many |
| `artifacts` | Are the hits of `expand`, `scan` and `scan_users`, the services and the cache entries exactly those that are due? | Every template of one to three segments over six kinds; five keys with equal names, unreadable subkeys, keys that list their ancestors; depth cap 3, match cap 4, both are met. Ten descriptors: each prefix form, doubled backslashes, placeholders, globs, unsupported roots, another kind of artifact. Machine hives of each type that is told apart by more than one key, damaged ones, and every way in which `Select\Current` may be wrong; none, one or two users' hives of types that are known, with every combination of profile and SID; evidence with hives, logs, copies, files that are no hives and ones that fail to open at the second time. SYSTEM hives in which either control set lacks either key; services with every combination of the values that rules look at; caches of six formats with one or two entries, cut off by 0-3 fields, and blobs that are no caches |
| `user_attribution` | Is every hit attributed to the user it came from? | violated, see 5; evidence mounted at two places, in which each value tells the user it belongs to. Mounted outside a home directory only, the property holds |

The deadlock check is off in all of them because a call that has returned makes
no further step; that it returns is checked as liveness.

Properties worth knowing:

* `CarveIsExact` compares with every place at which a record *can* stand: the head of
  a free cell, and any byte of an allocated one behind its signature. `scan_bin` takes
  the slack up again two bytes behind the head (`lib.rs:171`), so the second byte of a
  live signature is no such place. Runs with a signature of one byte did not tell
  these apart; the proof did, and the run now has signatures of two.
* `ShowsEveryPage` is a refinement: `OverlayMemory` with `mem <- Materialize(pages)`.
* `CarveIsExact`, `WalkFollowsOrder`, `DiffIsExact`, `ExpansionIsExact`,
  `DataIsExact`, `ScanIsExact`, `ServicesExact`, `ShimcacheExact` and `BuiltIsTree`
  compare loops with an independent definition of their result: matches are chains
  of keys with an assignment of segments, a pattern is one way to cut a name into
  pieces, a cache is the entries it was written from.
* `DiffIsExact` compares both the set of entries and their number with the difference. The number
  matters: values that differ in the root are reported under the name of the root
  (`engine.rs:59-60`), which is also the path of a subkey of that name, so that two
  entries may be equal.
* `ScanIsExact` goes the whole way from files or hives to hits. What a descriptor
  means in a hive of some type is written down per descriptor (`Meaning`), not
  computed from its path.
* `ControlSetsAgree` is conditional on the running set having both keys: `svc_diff`
  and `shimcache` fall back to other sets, in different orders, where one is
  missing. The live alias `CurrentControlSet` is excluded too (`Offline`): only one of
  the three prefers it. So is a `ControlSet000`: a number in `Select` that is 0 counts as 1
  for the scan, but `svc_diff` and `shimcache` look for a set of that number first. The
  proof needs that, and no run would have asked for it, since none has such a key.
* `ReachesExactly` has two halves. `OnlyReachable` quantifies over all sets of cells that
  are closed under references, so that it states reachability without computing it.
  `NothingLost` says locally what it means to follow a returned key: all its lists
  were read, and its subkeys were returned or still wait (`Follows`); an error was returned
  only where that is impossible. On a hive with a cycle this is all that can be said, since
  the walk does not end; where it ends, nothing waits, and the returned keys are closed.
* `RoundTrip` needs `Agrees`: in a hive whose two kinds of links contradict each
  other, `path` and `open_key` are about different trees.
* `BuiltIsTree` follows the links of the cells from the base block as a reader does.
  Big data is read back with the layout of `value.rs`, so builder and reader agree
  on the boundary between one cell and a record of segments.

Each property of a passing run has a mutant of a mapped definition, and breaks
under it.

## 4. Fairness

Liveness (`Returns`, `CarveReturns`, `WalkEnds`, `CallsReturn`,
`DiffReturns`, `ExpandReturns`) is stated under weak fairness of
the next-state relation of the call. That is what a call in one thread is: as long
as some step of it is possible, it makes one. No fairness between alternatives is
assumed. `WalkEnds` is stated for trees, since on a hive with cyclic subkey
lists the iterators never end; and the caller is one that drains the iterator.
`DiffReturns` is stated for pairs of hives whose common keys end (`CommonKeysEnd`):
it is enough that one of the two has an end, since the recursion goes down under
names that both have. Where both lead back to an ancestor under the same names the
recursion does not end.
In `artifacts` the walk is fair, not the loops around it, so `ExpandReturns` is about
every call of `expand`, also those a scan makes. The loops of the scans, of
`SystemHive` and of the builder have no liveness property: each turn moves along
a list that is fixed before the loop begins. In `key_path` the calls of the reader
are fair, the builder is not.

## 5. Where code and comments differ

* `txlog_overlap`: `read_at` (`txlog.rs:42`) takes, for each byte, the last
  covering page in the order of *offsets*. A later page that begins at a smaller
  offset is hidden where an earlier one overlaps it. With tiled references, as
  Windows writes them, this does not occur (`txlog_replay`).
* `txlog_zero_size`: an entry that declares size 0 makes `pos += size`
  (`txlog.rs:168`) stand still for ever.
* `value_panic`: `read_cell_raw` (`cell_reader.rs:105`) slices
  `data[file_offset + 4..end]` for a cell of size -1, -2 or -3, whose end is
  before that start.
* `carve_slack_cell`: a record from slack reports its own signature minus 4 as
  "the enclosing cell's size field" (`winreg-carve/src/lib.rs:83,218`), and
  `allocated = false` for live cells too (line 219).
* `user_attribution`: `profile_name_from_path` (`catalog_scan.rs:269-272`) takes the
  component after the *first* `Users` of the path, that of the mount point included,
  so hits of an image mounted below `/Users/bob` all go to `bob`.

Seen and not made runs of their own:

* `winreg-carve/src/lib.rs:141-142`: the branch for a bin without cells is marked
  unreachable; a file cut off inside a bin header reaches it (`SkipBin` fires in
  `carve`).
* `winreg-carve/src/lib.rs:45,133`: the cap on scanned bytes may be exceeded by
  less than a bin.
* `txlog.rs:150-151`: "Pages are stored sequentially after all page references";
  their sizes are summed up in a u32, which wraps in a release build for sizes no
  real log has, and a page is then taken from the middle of an earlier one.
* `path.rs:8-10`: "Walks the parent chain upward until the root key is found";
  lines 16-32 return the part collected so far, without an error, when a parent is
  null or no key or after 512 levels. `RoundTrip` has `ReachedRoot` as a condition.
* `winreg-diff/src/types.rs:12`: entries are called sorted; `engine.rs` lists them
  in the order of the walk, and calls that "BFS" (line 14) where it is depth-first.
* `value.rs:79`: "the full size-byte value"; a record with too few segments gives
  a shorter one without an error. `DataIsExact` states when it is complete.
* `key.rs:184`: nested index lists that contain themselves recurse without bound,
  and both iterators repeat for ever on cyclic subkey lists; `path` has a cap for
  the same situation (`path.rs:15`).
* `winreg-diff/src/engine.rs:118`: `diff_key_recursive` has no cap either. Two hives that both
  lead back to an ancestor under the same names, as a damaged hive and a copy of it do, are
  compared until the stack overflows; `diff` looks at the first levels of such pairs only.
* `detect.rs:50`: a UsrClass hive is said to be known by a key `CLSID` as well; only
  the name of the root is looked at. `Components` is never detected.
* `winreg-discover/src/types.rs:18`: "Timestamp from the `BaseBlock` header"; it is that
  of the root key (`scanner.rs:103`). Every file of `RegBack` is probed, whatever its
  name, and a hive in the place of a log is listed as one, since both begin with `regf`.
* `catalog_scan.rs:190`: for a hive of no known type the target is `None`, which equals the
  target of descriptors without a hive. They match as if tagged, whatever their path is, and
  an `HKU\<sid>` in front of it is not taken off; the comment (lines 163-169) names only
  those with such a prefix. `scan_users` is run on hives of types that are known.
* `shimcache.rs:160`: a blob that begins with `0x80` and has no marker gives no entry, where
  lines 80-81 and 171-172 promise "a single sentinel entry". It goes to `parse_win10`, which
  cannot return an entry at all, since the marker it looks for at 128 has been looked for
  before (lines 147-158). `ShimcacheExact` leaves out these blobs.
* `catalog_scan.rs:98`: "At least one of `profile` / `sid` is populated", and line 171: every
  hit of `scan_users` "carries `user = Some(identity)`". A `config\DEFAULT` that is detected
  as a user's hive gives an identity with neither, no binding is made (line 228), and its
  hits have `user = None`. `ScanIsExact` takes an absent user and an empty identity as the same:
  it says that such hits go to no other user.
* `catalog_scan.rs:285`: in a path that begins with `HKEY_USERS` and two backslashes it is
  the empty component between them that is taken for the SID. No path of the run's catalog
  has both.
* `path_expansion.rs:110-119`, `svc_diff.rs:170-176`, `shimcache.rs:85-92`: a number 0 or a
  datum of less than 4 bytes is set 1, set 0 or either; and where the running set
  lacks a key, `svc_diff` and `shimcache` report another set without saying so.
* `add_value` of `winreg-testutil` with the empty path makes a key without a name
  below the root instead of a value of the root. Paths with empty components are
  left out of the model.

## 6. Theorems

TLAPS checks each of them for every value of the constants that the named
assumptions allow, hence for the real sizes and for inputs of any length.

* `TxLogProofs`. `IInv` is the types, `CursorInLog`, `PagesComeFromLogs` and
  `PagesAboveBaseBlock`. The cursor is needed because a page is inside its log
  only if the entry it belongs to starts inside a log that passed the tests; that
  the pages are above the base block gives `BaseBlockPreserved`. `Refinement`
  proves that every step maps to a step or a stutter of `OverlayMemory` for logs
  that are `Tiled`; its invariant `RInv` adds that every page has the offset and the
  length of a reference in the logs (`PagesAreRefs`), so that two pages which touch
  are the same range.
* `CarveProofs`, first part, on opening. `OpenInv` adds to the two properties that
  all bins end at or before `pos`, and that none is recorded while the header is
  still to be read.
* `CarveProofs`, second part. `IInv` extends `OpenInv` with the place of the three cursors
  relative to each other (`CursorInv`) and with the fact that every record found
  is behind the position swept next (`Behind`). "None twice" follows from that:
  the positions strictly increase, across cells and across bins because bins are
  a chain. This is why opening is proved first.
* `CarveProofs`, third part: `CarveFindsAll`. `ExactInv` says that the cell the scan
  has come to is one of the bin's chain of cells (`ChainInv`), that all it has passed
  is found while there is room (`NoneMissed`), that what is not found lies behind all
  that is (`FirstFound`), and that nothing else is found (`OnlyHeld`). The chain of
  cells is defined by recursion; that the scan follows it is shown by induction on
  the number of cells. Signatures must not overlap (`CarveAssumption`).
* `HiveWalkProofs`. For reachability the invariant is quantified over closed sets:
  whatever is pending, collected or returned is inside every closed set. It holds
  of cyclic hives, where the run can only look at a prefix. `WalkReachesExactly` adds
  that nothing is lost. The call of `subkeys` that is under way holds a part of a key's
  lists, so that its invariant (`SubkeysInv`) speaks of the set of lists already read:
  what they list is gathered or still ahead (`Gathered`), and if all that the key leads
  to can be read then what is ahead is a part of it (`Ahead`). The first makes a returned
  key complete, the second an error true.
* `HiveWalkProofs`, second half: `WalkOrderCorrect`. The references are recursive functions
  over `0 .. Depth`, so that they exist for every hive (`ListingsTypes`, `OrdersTypes`,
  `LevelsTypes`), and `Settled` says that the root leads only to cells for which one more
  round makes no difference. From there on nothing depends on the depth: the invariant
  (`OrderInv`) speaks of any listing and any order that satisfies its own equation on a
  closed set of cells. It says what a call of `subkeys` has gathered and has yet to read
  (`CallInv`), and keeps account of the keys that are `Due`, the one at work and those that
  wait. Depth-first, what was returned and the orders below the keys due, strung together,
  are the order below the root (`DfsInv`). Breadth-first, the keys returned and those due are
  the root and all subkeys of the keys returned (`BfsInv`), and so is every first part of
  the levels (`LevelsDo`): two sequences that reproduce themselves in this way begin with
  each other (`LevelsAreFirst`). A step takes one key or leaves both as they are
  (`DueMoves`).
* `KeyPathProofs`. `ClimbAndDescendAgree` names the keys that `path` climbs, `ks`: it is
  `ClimbInv` that the names collected are theirs, and `DescentInv` that `open_key`
  stands on the member of `ks` whose number is the number of names left. Each step
  down is right since siblings have different names (`NextIsFound`), which is where
  `Agrees` is needed; each step up, since the parent lists the child.
* `KeyPathProofs`, second half: `CellsTileCorrect`, about `HiveBuilder`. The invariant
  (`BuildInv`) is that the cells allocated so far tile (`Tiled`): it is kept by an
  allocation (`AllocTiles`), by as many as a value needs (`ValueTurn`) and by the loops over
  them (`AllocAllTiles`, `ValuesTile`), and by every write of a link, which leaves a cell its
  place and its body its size (`RelinkedTiles`, `LinkedBody`, `FilledBody`). That sizes are no
  negative numbers needs the paths, the names and the pieces of a value to be typed
  (`PathsOfPlan`, `ChunksAreBodies`), and rests on `BuilderAssumption`: paths of at least one
  name, and names and values with a length. At the end (`WrittenTiles`) what is left of the
  page is a multiple of 8, so that either nothing or a whole free cell is left. Offsets are
  numbers without a width: a bin of 4 GB is not built.
* `DiffProofs`. `StatsCountEntries` holds without a strengthening: entries and counters
  change in the same step everywhere, in branches and in whole subtrees. The types
  need `SortIsStable`, what the ordering of siblings returns. `RootsAccountedFor` needs that
  the first frame of the stack is the join of the roots and that only it reports paths
  of length 1 (`Depths`), and that what is left in its two lists balances what was
  reported (`FirstJoinAccounted`).
* `DiffProofs`, second half: `DiffCorrect`. The difference is defined downwards from the
  roots, the comparison is somewhere in the middle of a recursion. What relates the two is the
  match `c` that leads from the roots to the keys being compared: the `n`-th join of
  the stack is that of the `n`-th pair of `c` and has passed the key with which `c` goes on
  (`On`). A difference is ahead (`Ahead`) if it is at or below the pair that is being entered,
  or if one of those joins still has the subkey before it that it is about or lies under; all
  other differences are behind. The invariant (`Reported`) is that the entries report what is
  behind, each difference once and with its details (`Listed`); while values are compared it
  also says which changes are already in `diffs` (`Merging`). Both merge joins rest on the
  same fact (`Joined`): what is left of either list ascends, and a name that both keys have is
  left in both lists or in neither. That a name at the front of one list is not in the other
  follows from it (`JoinLeft`, `JoinRight`), and is where a sort that disagrees with the
  comparison, or siblings of one name, would break the proof. Each action moves one difference
  from ahead to behind and lists it, or moves none (`ReportsRemoved`, `ReportsAdded`,
  `ReportsEnter`, `ReportsDescent`, `ReportsReturn`). With no join left all is behind
  (`ReportsAll`), and if the matches end above `Depth`, then `Due`, which knows no
  depth, is the difference that the run compares with (`DueIsDifference`).
* `ValueDataProofs`. `IInv` is the types, `DataFits` (the data is no longer than
  declared; theorem `DataIsCut`), `DataIsInCells`, and that the segment index is 0
  before the loop. The lemma on `read_cell_raw` (`ReadableCell`) carries the
  argument: what it accepts ends inside the file. `DataIsJoined` adds `SegmentsInv`:
  after `i` turns the data is the first `i` bodies, joined and cut. Cutting every segment at what
  the value lacks comes to the same as cutting the whole once (`CutJoined`), and what follows
  a value that is full is cut away (`JoinedExtends`).
* `PathExpansionProofs`. `CapOnRecursion` rests on a potential: the call at place
  `n` of the stack has gone down or used up at least `n - 1` levels and segments
  together (`IsCall`), each of which is bounded. `CapOnMatches` counts reports.
  `ExpansionTypeCorrect` is proved on top of that invariant, and adds that a lookup by
  name gives a key and a segment ranges over keys (`DomainIsKeys`).
  `ExpansionReportsMatches` is the exactness of the walk, stated without an order or a
  recursion: a match is a sequence of stages in which each follows from the one before by a
  choice (`WaysOn`), a child of the range of the segment or, for `**`, to give way to the
  rest, and two matches are the same when all stages are; keys that `**` reaches in two ways
  are two matches, as in the code. The invariant (`WalkInv`) says that the calls under way
  are at the stages of one way (`IsWayOf`), from which the bindings are those of its last
  stage, and that each match is either reported or ahead of a call (`AheadOf`), never both:
  it leads to the call and on by a choice the call has not made. A call that makes another
  splits what is ahead of it into what the new call has and what is left (`WalkCalls`); one
  that returns has no match ahead (`WalkReturns`), because it is too deep, cannot list its
  children or has tried them all; and the match that is reported is the way of the calls
  itself (`WayIsMatch`), which was ahead and no longer is. Cycles in the hive do no harm:
  the depth of the stages ends the ways. What a single segment ranges over
  is said in `TemplateWays` without the lookup and the glob loop of the code (`IsRange`), and that
  `Domain` is that range is proved by `DomainIsRange`. For patterns this is
  `GlobMatchCorrect`: a pattern fits if the name can be cut into one piece for each letter
  and each `*` (`PatternFits`). Only the last `*` is ever stretched again, and the proof says why
  that is enough: what stands between two `*` has been found at the first place it fits, and a later
  one leaves less of the name, which the second `*` can stand for as well (`StarFitsRun`).
  `CapsInScans` states both caps of `ScanSpec`, every scan of a catalog. Its invariant adds
  that no call of `walk` is under way between two hives (`ScanInv`): a descriptor begins with a fresh
  count, and the rest of the argument is that its template has a length. For that the
  rewriting of paths keeps them from becoming empty (`CollapsedIsPath`, `StrippedIsPath`),
  which rests on the assumption that no path of the catalog is empty: splitting a string
  gives at least one component.
  `ControlSetsCorrect` and `ServicesCorrect` are about `SystemHive`, and use of a walk only
  that `open_key` goes down a path name by name (`KeyAtEnd`). Each lookup finds the first
  key or value of its name (`SubkeyIs`, `ValueIs`), so that the number in `Select\Current`
  is one number or none, and what each of the three makes of it is that number, or 0 or a
  default where there is none (`NumbersSeen`). Below a name that is missing there is nothing
  (`NothingBelow`): so the other names are passed over, and the running set is found
  (`SetsAgree`). For the services, the invariant (`Listed`) says that the entries are those
  of the keys behind the loop, and the keys before it are the rest of the list. That
  `classify_service` asks its questions in the order of the rules (`ReasonIsFirst`) follows
  from what each answer says about the values of the key (`RulesAre`), the default of an
  absent value included; this rests on the assumption that no list of suspicious texts
  holds the empty one (`SystemAssumption`).
  `ShimcacheCorrect` compares the decoder with the caches that a blob can have been written
  from (`Written`, `BlobOf`), of any number of entries of any length. What can go wrong is
  that a field of one entry is taken for another, or the data of an entry for the next
  marker. The fields of an entry stand at known places (`BodyLaidOut`), what is written
  stays where it is when more entries follow (`WrittenStays`), and so a blob goes on behind
  any number of entries with the next one, which has room for all of itself if it is whole
  and only then (`EntriesFramed`). The first of the tests of `FormatOf` that holds is the one for
  the format the cache has (`FormatTold`): for a header of no known kind, because neither
  a length, a marker nor a marker at the place where Windows 8 has one stands in it by chance, which
  `IsCache` asks of the header. The invariant (`CacheInv`) is that the entries read so far
  are the first ones and the offset is the end of the last. In a blob without a marker no entry
  is found (`NothingMarked`), and the sentinel is given if its first byte is that of neither
  Windows 8 nor 10 (`MarkerlessFormat`). `ShimcacheExact` asks nothing of a blob that begins like
  Windows 8 and has no marker, where code and comments differ (section 5).
* `DataLemmas`. The library's induction theorems take a predicate, which no prover here
  can instantiate. `UpTo` states induction for a set of numbers instead, from the
  well-foundedness of `<`; `Iteration` gives from it that a function defined by recursion
  over an interval exists, and `FlattenIs` what `FlattenSeq` makes of a sequence of sequences.

Model-checked only:

* all liveness (`ENABLED` is out of the prover's reach);
* `BuiltIsTree` and `ScanIsExact`;
* `ExpansionIsExact`, whose reference is another one: chains of keys with an assignment of
  segments to them. `ExpansionReportsMatches` proves the same exactness against `TemplateWays`.

The references of these are definitions of the `MC` modules that use `RECURSIVE` operators,
`SelectSeq` (of which the provers know nothing) or the small inputs they are checked on.

The types of the walk are proved of a bare call of `expand` only. Inside the scans they
rest on what the hives and the catalog of the caller hold, and are checked by the run.

## 7. Not modelled

* Byte layouts of cells and of headers (`winreg-format`), the string decoders of
  `value.rs`, and the artifact decoders other than services and the program cache:
  one pass over bytes or over fixed keys without control of their own.
* `HiveCarver`: one check of a header of fixed size, driven by an external framework.
* Old-format (dirty-sector) logs and the checksums of log entries: `txlog.rs`
  mentions both and reads neither.
* How the catalog's decoders render a value, and the descriptive fields and times of
  hits and services.
* Hashes of `lh` lists, times and types that the test builder writes: no reader uses
  the hashes.
* The command line, output formats, file access, snapshots of a comparison, and the
  placeholder crates.

## 8. Plan

Done, in this order: overlay and log replay; opening; carving on top of it;
navigation; paths; comparison; path expansion; value data; detection, discovery and
the catalog scan around path expansion; services and the program cache; the test
builder in front of the reader of paths.

Next modules: the remaining decoders that keep state across a loop (the nested
items of `shellbags.rs`, the key derivation chain of `lsadump.rs`), splitting of
`REG_MULTI_SZ`.

Next proofs: `BuiltIsTree` of `HiveBuilder`; the types of the walk inside the scans of
`CatalogScan`.
