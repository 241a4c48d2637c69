---------------------------- MODULE CatalogScan ----------------------------
(***************************************************************************)
(* Scanning hives for the artifacts of a catalog: scan for a hive of the   *)
(* machine, scan_users for those of users, after discover_user_hives or as *)
(* the caller has opened them (winreg-artifacts/src/catalog_scan.rs).      *)
(* Every descriptor that applies to a hive becomes a template, which the   *)
(* walk of PathExpansion expands on it.  A third mode is a bare call of    *)
(* expand.                                                                 *)
(*                                                                         *)
(* The path of a descriptor is its components in upper case, as splitting  *)
(* it at backslashes gives them: the component "" stands between two that  *)
(* are doubled.  No two of them are adjacent in the catalog.               *)
(***************************************************************************)
EXTENDS PathExpansion, Discover

CONSTANTS
  CATALOG,      \* descriptors: [id, kind, hive, path, value]
  NoTarget,     \* a hive of no target, and a descriptor without a hive
  NoPath,       \* no path
  Patterns,     \* the letters of each component that holds a *
  DeepPatterns, \* those components that hold **
  Placeholders, \* the components that hold a % or a /
  HiveRoots,    \* the components that begin with HKEY_
  Machines,     \* hives that scan is called with
  UserSets      \* sequences of [identity, hive] that scan_users is called with

\* Paths are split, so that they are not empty; no component of one but one at
\* its ends is empty beside another.
ASSUME CatalogAssumption ==
  /\ CATALOG \in Seq(Range(CATALOG))
  /\ \A n \in DOMAIN CATALOG :
    LET path == CATALOG[n].path
    IN  /\ path \in Seq(Range(path)) /\ path # << >>
        /\ \A i \in 1 .. Len(path) - 1 : path[i] # "" \/ path[i + 1] # ""

VARIABLES
  mode,     \* "expand", "scan" or "users"
  phase,    \* "discover", "hives", "descriptors" or "done"
  evidence, \* what is below the evidence root
  users,    \* user_hives; in scan the one hive, of nobody
  u,        \* the last of them that was looked at
  target,   \* the target of the current hive
  d,        \* the last descriptor that was looked at
  found     \* the vector of CatalogHits

scanVars == <<mode, phase, evidence, users, u, target, d, found>>
allVars == <<vars, scanVars>>

Nobody == [profile |-> NoName, sid |-> NoName]

NoHive == [rootBad |-> TRUE, name |-> [k \in Ids |-> CHOOSE n \in Names : TRUE],
           kids |-> [k \in Ids |-> << >>], kidsBad |-> {},
           vals |-> [k \in Ids |-> << >>], valsBad |-> {}]

\* No call of expand is under way.
NoWalk ==
  /\ hive = NoHive /\ template = << >> /\ sets = << >> /\ stack = << >>
  /\ matched = 0 /\ bindings = << >> /\ hits = << >>

ScanInit ==
  /\ u = 0 /\ target = NoTarget /\ d = 0 /\ found = << >>
  /\ \/ mode = "expand" /\ phase = "done" /\ evidence = NoPath /\ users = << >> /\ Init
     \/ /\ mode = "scan" /\ phase = "hives" /\ evidence = NoPath /\ NoWalk
        /\ \E h \in Machines : users = <<[identity |-> Nobody, hive |-> h]>>
     \/ /\ mode = "users" /\ phase = "hives" /\ evidence = NoPath /\ NoWalk
        /\ users \in UserSets
     \/ /\ mode = "users" /\ phase = "discover" /\ users = << >> /\ NoWalk
        /\ evidence \in Evidence

FindUserHives ==
  /\ phase = "discover"
  /\ users' = DiscoverUserHives(evidence)
  /\ phase' = "hives"
  /\ UNCHANGED <<vars, mode, evidence, u, target, d, found>>

\* hive_target_for.
HiveTargetFor(type) ==
  IF type \in {"Software", "System", "NtUser", "UsrClass", "Sam", "Security", "Amcache"}
  THEN type ELSE NoTarget

\* What is known of the next hive before its descriptors are looked at.
AtHive == phase = "hives" /\ u < Len(users)
NextHive == users[u + 1].hive
NextTarget == HiveTargetFor(DetectHiveType(NextHive))

\* scan needs a target, and both need a root key.
Scannable == ~NextHive.rootBad /\ (mode = "users" \/ NextTarget # NoTarget)

SkipHive ==
  /\ AtHive /\ ~Scannable
  /\ u' = u + 1
  /\ UNCHANGED <<vars, mode, phase, evidence, users, target, d, found>>

\* The sets stand for the resolver, and without one for what walk falls back to.
EnterHive ==
  /\ AtHive /\ Scannable
  /\ u' = u + 1
  /\ hive' = NextHive
  /\ target' = NextTarget
  /\ sets' = IF mode = "scan" /\ target' = "System" THEN Resolved(SelectCurrent(hive'))
                                                    ELSE <<SetName[1]>>
  /\ d' = 0
  /\ phase' = "descriptors"
  /\ template' = << >> /\ matched' = 0 /\ bindings' = << >> /\ hits' = << >>
  /\ UNCHANGED <<stack, mode, evidence, users, found>>

\* strip_user_placeholder_prefix: doubled backslashes are not yet collapsed.
StripUserPlaceholderPrefix(raw) ==
  IF Len(raw) >= 3 /\ Head(raw) \in {"HKEY_USERS", "HKU"} /\ SubSeq(raw, 3, Len(raw)) # <<"">>
  THEN SubSeq(raw, 3, Len(raw))
  ELSE NoPath

\* Doubled backslashes become one.
Collapsed(raw) ==
  LET kept == {n \in DOMAIN raw : raw[n] # "" \/ n \in {1, Len(raw)}}
      nth(n) == CHOOSE i \in kept : Cardinality({j \in kept : j <= i}) = n
  IN  [n \in 1 .. Cardinality(kept) |-> raw[nth(n)]]

\* strip_prefix_ci for each of some prefixes in their order: the leading
\* components that are prefixes, each one further on in that order than the one
\* before it; the last component always stays.
Stripped(path, prefixes) ==
  LET place(c) == CHOOSE n \in 0 .. Len(prefixes) :
                    IF n = 0 THEN \A m \in DOMAIN prefixes : prefixes[m] # c ELSE prefixes[n] = c
      leading == {n \in 0 .. Len(path) - 1 :
                    \A m \in 1 .. n : place(path[m]) > (IF m = 1 THEN 0 ELSE place(path[m - 1]))}
  IN  SubSeq(path, Cardinality(leading), Len(path))

RootPrefixes ==
  <<"HKEY_LOCAL_MACHINE", "HKEY_CURRENT_USER", "HKEY_USERS", "HKLM", "HKCU", "HKU">>

\* Mutant: a first level Software of users' hives is stripped as well.
NormalizeForAll(raw, strip) == Stripped(Collapsed(raw), RootPrefixes \o <<"SOFTWARE", "SYSTEM">>)

\* normalize_path_prefixes: every prefix is stripped once.
Normalize(raw, strip) ==
  LET path == Stripped(Collapsed(raw), RootPrefixes)
  IN  IF Len(path) >= 2 /\ Head(path) \in HiveRoots THEN NoPath
      ELSE IF strip THEN Stripped(path, <<"SOFTWARE", "SYSTEM">>) ELSE path

ParseSegment(c) ==
  IF c = "CURRENTCONTROLSET" THEN [kind |-> "controlset"]
  ELSE IF c \in DeepPatterns THEN [kind |-> "deep"]
  ELSE IF c \in DOMAIN Patterns THEN [kind |-> "subkey", pattern |-> Patterns[c]]
  ELSE [kind |-> "literal", name |-> c]

\* template_segments; the template of no segment stands for None.
TemplateSegments(raw, strip) ==
  LET path == Normalize(raw, strip)
      names == Keeping(path, Range(path) \ {""})
  IN  IF \E n \in DOMAIN raw : raw[n] \in Placeholders THEN << >>
      ELSE IF path = NoPath THEN << >>
      ELSE [n \in DOMAIN names |-> ParseSegment(names[n])]

AtDescriptor == phase = "descriptors" /\ stack = << >> /\ d < Len(CATALOG)
Descriptor == CATALOG[d + 1]

\* The path under which a descriptor is looked for in the current hive.
RawPath ==
  IF Descriptor.kind \notin {"RegistryKey", "RegistryValue"} THEN NoPath
  ELSE IF Descriptor.hive = target THEN Descriptor.path
  ELSE IF mode = "users" /\ Descriptor.hive \in {NoTarget, "None"}
       THEN StripUserPlaceholderPrefix(Descriptor.path)
  ELSE NoPath

Template ==
  IF RawPath = NoPath THEN << >>
  ELSE TemplateSegments(RawPath, mode = "scan" /\ target \in {"Software", "System"})

SkipDescriptor ==
  /\ AtDescriptor /\ Template = << >>
  /\ d' = d + 1
  /\ UNCHANGED <<vars, mode, phase, evidence, users, u, target, found>>

\* resolve_descriptor calls expand.
BeginDescriptor ==
  /\ AtDescriptor /\ Template # << >>
  /\ d' = d + 1
  /\ template' = Template
  /\ stack' = <<Call(Root, 0, << >>, 0, FALSE)>>
  /\ matched' = 0 /\ bindings' = << >> /\ hits' = << >>
  /\ UNCHANGED <<hive, sets, mode, phase, evidence, users, u, target, found>>

\* user_binding_for: the SID if there is one, else the profile.
UserBindingFor(identity) ==
  IF identity.sid # NoName THEN <<identity.sid>>
  ELSE IF identity.profile # NoName THEN <<identity.profile>>
  ELSE << >>

\* make_hit: data that cannot be read is rendered like empty data.
MakeHit(value) ==
  [id |-> CATALOG[d].id, path |-> Top.path, value |-> value.name,
   data |-> IF value.data.ok THEN value.data.text ELSE "",
   userBinding |-> UserBindingFor(users[u].identity), bindings |-> bindings,
   user |-> NoName]

\* emit_key: the value that the descriptor names, or all of the key.
Emitted ==
  IF CATALOG[d].value = NoName
  THEN [n \in DOMAIN ValuesOf(hive, Top.key) |-> MakeHit(ValuesOf(hive, Top.key)[n])]
  ELSE LET value == ValueNamed(hive, Top.key, CATALOG[d].value)
       IN  IF value = NoValue THEN << >> ELSE <<MakeHit(value)>>

EmitKey ==
  /\ EmitMatch
  /\ found' = IF mode = "expand" THEN found ELSE found \o Emitted
  /\ UNCHANGED <<mode, phase, evidence, users, u, target, d>>

\* Every other step of walk.
WalkOn ==
  /\ Refuse \/ MatchNoLevel \/ ReadChildren \/ ChildrenUnreadable \/ Descend \/ EndLoop
  /\ UNCHANGED scanVars

\* The hits that have no user but a binding of one get it.
Backfilled(identity) ==
  [n \in DOMAIN found |->
     IF found[n].user = NoName /\ found[n].userBinding # << >>
     THEN [found[n] EXCEPT !.user = identity] ELSE found[n]]

EndHive ==
  /\ phase = "descriptors" /\ stack = << >> /\ d = Len(CATALOG)
  /\ found' = Backfilled(users[u].identity)
  /\ phase' = "hives"
  /\ UNCHANGED <<vars, mode, evidence, users, u, target, d>>

EndScan ==
  /\ phase = "hives" /\ u = Len(users)
  /\ phase' = "done"
  /\ UNCHANGED <<vars, mode, evidence, users, u, target, d, found>>

ScanNext == \/ FindUserHives \/ SkipHive \/ EnterHive
            \/ SkipDescriptor \/ BeginDescriptor \/ EmitKey \/ WalkOn
            \/ EndHive \/ EndScan

ScanSpec == ScanInit /\ [][ScanNext]_allVars
=============================================================================
