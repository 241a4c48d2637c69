---------------------------- MODULE MCArtifacts ----------------------------
(***************************************************************************)
(* Small hives, catalogs and evidence for CatalogScan (with PathExpansion  *)
(* and Discover) and for SystemHive, and what each of them should find as  *)
(* definitions.  The two machines share nothing; a behaviour runs one.     *)
(***************************************************************************)
EXTENDS CatalogScan, SystemFindings, CacheBlobs, TemplateWays, TLC

MCSetName == [n \in 0 .. 2 |-> CASE n = 0 -> "CONTROLSET000" [] n = 1 -> "CONTROLSET001"
                                 [] n = 2 -> "CONTROLSET002"]

MCNames ==
  {"A", "AAB", "CONTROLSET001", "CONTROLSET002", "CURRENTCONTROLSET", "SELECT", "CURRENT",
   "SERVICES", "APPCOMPATCACHE", "PARAMETERS", "IMAGEPATH", "DESCRIPTION", "OBJECTNAME", "START",
   "SERVICEDLL", "FAILURECOMMAND", "SOFTWARE", "CONSOLE", "MICROSOFT", "CLASSES", "RUN", "X", "Y",
   "SID_CLASSES", "LOCAL", "SAM", "DOMAINS", "APPEVENTS", "SYSTEM", ""}

\* Names that patterns are tried on; of the control sets a few letters.
MCLetters == [n \in MCNames |->
  CASE n = "A" -> <<"a">>
    [] n = "AAB" -> <<"a", "a", "b">>
    [] n = "CONTROLSET001" -> <<"c", "1">>
    [] n = "CONTROLSET002" -> <<"c", "2">>
    [] OTHER -> <<"x">>]

MCShimcacheSuffix == <<"APPCOMPATCACHE">>

MCTexts == {"", "alice", "bob", "machine", "quiet", "temp", "cmd", "system32"}
MCBlobs == Seq(Nat)

Text(t) == [ok |-> TRUE, size |-> 8, num |-> 0, text |-> t, blob |-> << >>]
Number(n) == [ok |-> TRUE, size |-> 4, num |-> n, text |-> "", blob |-> << >>]
Binary(b) == [ok |-> TRUE, size |-> 8, num |-> 0, text |-> "", blob |-> b]
Unreadable == [Text("quiet") EXCEPT !.ok = FALSE]
Short == [Number(2) EXCEPT !.size = 2]
Val(name, data) == [name |-> name, data |-> data]

\* A hive by its names, subkeys and values; keys not given are empty.
HiveWith(names, kids, vals, bad) ==
  [rootBad |-> FALSE,
   name |-> [k \in Ids |-> IF k \in DOMAIN names THEN names[k] ELSE ""],
   kids |-> [k \in Ids |-> IF k \in DOMAIN kids THEN kids[k] ELSE << >>], kidsBad |-> bad,
   vals |-> [k \in Ids |-> IF k \in DOMAIN vals THEN vals[k] ELSE << >>], valsBad |-> {}]

\* Functions on places that begin at 0.
From0(s) == [n \in 0 .. Len(s) - 1 |-> s[n + 1]]

-----------------------------------------------------------------------------
(* Bare calls of expand.                                                   *)

Literal(name) == [kind |-> "literal", name |-> name]
ControlSet == [kind |-> "controlset"]
Pattern(letters) == [kind |-> "subkey", pattern |-> letters]
Deep == [kind |-> "deep"]

AnyName == <<"*">>
EndsInAB == <<"*", "a", "b">>
MCPatterns == [c \in {"*", "*AB", "**", "**5"} |-> IF c = "*AB" THEN EndsInAB ELSE AnyName]

Segments == {Literal("A"), Literal("AAB"), ControlSet, Pattern(AnyName), Pattern(EndsInAB), Deep}
Templates == UNION {[1 .. n -> Segments] : n \in 1 .. 3}

\* The root (0) has children 1, 2 and 3, the first of which has the child 4
\* and, where the hive is damaged, itself or the root as another.
Hives ==
  {HiveWith(From0(<<"AAB", n1, n2, "CONTROLSET002", "AAB">>), From0(<<k0, k1>>), << >>, bad) :
     k0 \in {<<1, 2, 3>>, <<2, 1>>}, k1 \in {<<4>>, <<4, 1>>, <<0>>},
     n1 \in {"A", "CONTROLSET001"}, n2 \in {"A", "AAB"}, bad \in {{}, {1}}}

MCInputs ==
  {[hive |-> h, template |-> t, sets |-> s] :
     h \in Hives, t \in Templates,
     s \in {NoResolver, Resolved(0), Resolved(NoNumber), Resolved(2)}}

-----------------------------------------------------------------------------
(* The matches of a template as a definition: a chain of keys below the    *)
(* root, with the segment that each key of the chain is matched by.        *)

Fitting == [pat \in {AnyName, EndsInAB} |-> {n \in MCNames : PatternFits(pat, MCLetters[n])}]

Chains(h, max) ==
  LET chains[n \in 0 .. max] ==
        IF n = 0 THEN {<< >>}
        ELSE UNION {LET k == IF c = << >> THEN Root ELSE c[n - 1]
                    IN  IF k \in h.kidsBad THEN {}
                        ELSE {Append(c, h.kids[k][i]) : i \in DOMAIN h.kids[k]} : c \in chains[n - 1]}
  IN  UNION {chains[n] : n \in 0 .. max}

\* Segments in order, each but ** for exactly one key of the chain.
Assignments(c, t) ==
  {a \in [DOMAIN c -> DOMAIN t] :
     /\ \A m, n \in DOMAIN c : m < n => a[m] <= a[n]
     /\ \A s \in DOMAIN t :
          t[s].kind # "deep" => Cardinality({m \in DOMAIN c : a[m] = s}) = 1}

FirstOfName(h, parent, k) ==
  \E n \in DOMAIN h.kids[parent] :
    /\ h.kids[parent][n] = k
    /\ \A m \in 1 .. n - 1 : h.name[h.kids[parent][m]] # h.name[k]

Fits(h, parent, k, s, set) ==
  CASE s.kind = "literal" -> h.name[k] = s.name /\ FirstOfName(h, parent, k)
    [] s.kind = "controlset" -> h.name[k] = set /\ FirstOfName(h, parent, k)
    [] s.kind = "subkey" -> h.name[k] \in Fitting[s.pattern]
    [] s.kind = "deep" -> TRUE

MatchesOf(h, t, set) ==
  {<<c, a>> \in UNION {{c} \X Assignments(c, t) : c \in Chains(h, MAX_GLOB_DEPTH)} :
     \A m \in DOMAIN c : Fits(h, IF m = 1 THEN Root ELSE c[m - 1], c[m], t[a[m]], set)}

KeyOf(c) == IF c = << >> THEN Root ELSE c[Len(c)]
NamesOf(h, c) == [m \in DOMAIN c |-> h.name[c[m]]]

\* The names that the variable segments stand for.
BoundNames(h, c, a, t) ==
  LET variable == {m \in DOMAIN c : t[a[m]].kind # "literal"}
      nth(n) == CHOOSE m \in variable : Cardinality({x \in variable : x <= m}) = n
  IN  [n \in 1 .. Cardinality(variable) |-> h.name[c[nth(n)]]]

\* expand reports exactly the matches of the template down to the depth that
\* is allowed, each with its path and with the names its variables stand for;
\* matches are left out only behind the cap.
ExpansionIsExact ==
  mode = "expand" /\ stack = << >> /\ template # << >> =>
    LET matches == MatchesOf(hive, template, sets[1])
        expected == {[key |-> KeyOf(m[1]), path |-> NamesOf(hive, m[1]),
                      bindings |-> BoundNames(hive, m[1], m[2], template)] : m \in matches}
    IN  /\ Len(hits) = (IF Cardinality(matches) <= MAX_GLOB_MATCHES THEN Cardinality(matches)
                                                                     ELSE MAX_GLOB_MATCHES)
        /\ \A n \in DOMAIN hits : hits[n] \in expected
        /\ ~Full => \A e \in expected : \E n \in DOMAIN hits : hits[n] = e

-----------------------------------------------------------------------------
(* Scans: one hive of the machine, hives of users, evidence.               *)

Descr(id, kind, target_, path, value) ==
  [id |-> id, kind |-> kind, hive |-> target_, path |-> path, value |-> value]

\* Paths as the catalog writes them: hive prefixes, doubled backslashes,
\* placeholders, globs, roots and separators that are not supported.
MCCatalog ==
  <<Descr("services", "RegistryKey", "System",
          <<"HKLM", "SYSTEM", "CURRENTCONTROLSET", "SERVICES", "*">>, "IMAGEPATH"),
    Descr("run_hklm", "RegistryKey", "Software",
          <<"HKEY_LOCAL_MACHINE", "", "SOFTWARE", "MICROSOFT", "", "RUN">>, NoName),
    Descr("run_hkcu", "RegistryKey", "NtUser", <<"HKCU", "SOFTWARE", "RUN">>, NoName),
    Descr("run_hku", "RegistryValue", NoTarget, <<"HKEY_USERS", "%%SID%%", "SOFTWARE", "RUN">>, "X"),
    Descr("hku_star", "RegistryKey", "None", <<"HKU", "*", "**", "RUN">>, "X"),
    Descr("file", "File", "NtUser", <<"SOFTWARE", "RUN">>, NoName),
    Descr("classes", "RegistryKey", "UsrClass", <<"HKEY_CLASSES_ROOT", "LOCAL">>, NoName),
    Descr("shell", "RegistryKey", "UsrClass", <<"LOCAL", "">>, NoName),
    Descr("posix", "RegistryKey", "NtUser", <<"SOFTWARE/RUN">>, NoName),
    Descr("bare", "RegistryKey", NoTarget, <<"SOFTWARE", "RUN">>, NoName)>>

\* What the descriptors are about in a hive of some type; none in the others.
\* Those with a placeholder are about every hive of a user.
Meaning(type, id) ==
  LET run == <<Literal("SOFTWARE"), Literal("RUN")>>
  IN  CASE mode = "scan" /\ type = "System" /\ id = "services" ->
             <<ControlSet, Literal("SERVICES"), Pattern(AnyName)>>
        [] mode = "scan" /\ type = "Software" /\ id = "run_hklm" -> <<Literal("MICROSOFT"), Literal("RUN")>>
        [] type = "NtUser" /\ id = "run_hkcu" -> run
        [] type = "UsrClass" /\ id = "shell" -> <<Literal("LOCAL")>>
        [] mode = "users" /\ id = "run_hku" -> run
        [] mode = "users" /\ id = "hku_star" -> <<Deep, Literal("RUN")>>
        [] OTHER -> << >>

\* Software with Run below it, and another Run below that one.
UserHiveOf(owner, second, bad, valsBad) ==
  [HiveWith(From0(<<"A", "SOFTWARE", second, "RUN", "RUN">>),
            From0(<<<<1, 2>>, <<3>>, << >>, <<4>>>>),
            (3 :> <<Val("X", Text(owner)), Val("Y", Unreadable)>>) @@ (4 :> <<Val("X", Text(owner))>>),
            bad)
   EXCEPT !.valsBad = valsBad]

ClassesHiveOf(owner) ==
  HiveWith(From0(<<"SID_CLASSES", "LOCAL", "RUN">>), From0(<<<<1>>, <<2>>>>),
           (1 :> <<Val("X", Text(owner))>>) @@ (2 :> <<Val("Y", Text(owner))>>), {})

SystemScanHive(current, bad) ==
  HiveWith(From0(<<"A", "SELECT", "CONTROLSET001", "CONTROLSET002", "SERVICES", "SERVICES", "X", "Y">>),
           From0(<<<<1, 2, 3>>, << >>, <<4>>, <<5>>, <<6>>, <<7, 6>>>>),
           (1 :> <<Val("CURRENT", current)>>) @@ (6 :> <<Val("IMAGEPATH", Text("quiet"))>>)
             @@ (7 :> <<Val("IMAGEPATH", Unreadable)>>), bad)

SoftwareHive ==
  HiveWith(From0(<<"A", "MICROSOFT", "CLASSES", "RUN">>), From0(<<<<1, 2>>, <<3>>>>),
           3 :> <<Val("X", Text("machine")), Val("X", Text("quiet"))>>, {})

\* A key SAM makes no SAM hive unless it holds Domains.
SamHive(below) ==
  HiveWith(From0(<<"A", "SAM", below, "CONSOLE", "SOFTWARE">>), From0(<<<<1, 3, 4>>, <<2>>>>), << >>, {})

Rootless(h) == [h EXCEPT !.rootBad = TRUE]

\* Hives whose type is known from what they were made of.
Typed ==
  {<<UserHiveOf(o, "CONSOLE", bad, vb), "NtUser">> :
     o \in {"alice", "bob", "machine"}, bad \in {{}, {1}, {3}}, vb \in {{}, {3}}}
  \union {<<ClassesHiveOf(o), "UsrClass">> : o \in {"alice", "bob"}}
  \union {<<UserHiveOf("bob", "X", {}, {}), "Unknown">>, <<UserHiveOf("alice", "CONSOLE", {0}, {}), "Unknown">>}
  \union {<<SystemScanHive(c, bad), "System">> :
            c \in {Number(0), Number(1), Number(2), Short, Unreadable}, bad \in {{}, {3}, {5}}}
  \union {<<SoftwareHive, "Software">>, <<SamHive("DOMAINS"), "Sam">>, <<SamHive("X"), "NtUser">>}

TypeOf(h) == IF h.rootBad THEN "Unknown" ELSE (CHOOSE t \in Typed : t[1] = h)[2]

MCMachines == {t[1] : t \in Typed} \union {Rootless(SoftwareHive)}

Alice == [profile |-> "alice", sid |-> NoName]
Identities == {Alice, [Alice EXCEPT !.sid = "S-1"], [Nobody EXCEPT !.sid = "S-2"], Nobody}

\* Hives of users, all of a type that is known or without a readable root.
MCUserSets ==
  LET own == [identity : Identities,
              hive : {UserHiveOf("alice", "CONSOLE", {}, {}), UserHiveOf("alice", "CONSOLE", {}, {3}),
                      UserHiveOf("bob", "CONSOLE", {3}, {}), ClassesHiveOf("bob"),
                      Rootless(SoftwareHive), SystemScanHive(Number(1), {})}]
      other == {[identity |-> Alice, hive |-> UserHiveOf("alice", "CONSOLE", {3}, {})],
                [identity |-> Nobody, hive |-> UserHiveOf("alice", "CONSOLE", {}, {})]}
  IN  {<< >>} \union {<<x>> : x \in own} \union {<<x, y>> : x \in own, y \in other}
              \union {<<y, x>> : x \in own, y \in other}

HiveFile(h, time) == [kind |-> "hive", hive |-> h, time |-> time, opens |-> TRUE]
OtherFile(kind) == [kind |-> kind, hive |-> NoHive, time |-> 0, opens |-> FALSE]

MCConfigHives == <<"SYSTEM", "SOFTWARE", "SAM", "SECURITY", "DEFAULT">>

EvidenceOf(root, default, log, regback, users_) ==
  [root |-> root,
   config |-> <<HiveFile(SystemScanHive(Number(1), {}), 4), OtherFile("junk"), OtherFile("none"),
                OtherFile("small"), default>>,
   logs |-> [n \in 1 .. 5 |-> <<IF n = 5 THEN log ELSE OtherFile("none"), OtherFile("none")>>],
   regback |-> regback, users |-> users_]

UserDir(name, isDir, ntuser, usrclass) ==
  [name |-> name, isDir |-> isDir, ntuser |-> ntuser, usrclass |-> usrclass]

AliceFiles ==
  LET h == UserHiveOf("alice", "CONSOLE", {}, {})
  IN  {HiveFile(h, 2), HiveFile(h, 0), [HiveFile(h, 2) EXCEPT !.opens = FALSE],
       HiveFile(Rootless(h), 2), OtherFile("small")}

\* DEFAULT has the keys of a user's hive.
DefaultHive == HiveFile(UserHiveOf("machine", "CONSOLE", {}, {}), 3)

MCEvidence ==
  {EvidenceOf(<<"MNT">>, default, log, regback,
              <<UserDir("alice", TRUE, ntuser, HiveFile(ClassesHiveOf("alice"), 1)),
                UserDir("bob", isDir, HiveFile(UserHiveOf("bob", "CONSOLE", {}, {}), 1), OtherFile("none"))>>) :
     default \in {OtherFile("none"), DefaultHive}, log \in {OtherFile("log"), DefaultHive},
     regback \in {<< >>, <<[name |-> "DEFAULT", file |-> [DefaultHive EXCEPT !.time = 1]],
                           [name |-> "SAM.OLD", file |-> OtherFile("junk")]>>},
     ntuser \in AliceFiles, isDir \in BOOLEAN}

\* A mounted image below the home of whoever examines it: in the hives of each
\* user every value tells the user's name.
HomeEvidence ==
  LET own(name) == HiveFile([UserHiveOf(name, "CONSOLE", {}, {}) EXCEPT !.vals[3] = <<Val("X", Text(name))>>], 2)
  IN  {EvidenceOf(root, OtherFile("none"), OtherFile("none"), << >>,
                  <<UserDir("alice", TRUE, own("alice"), HiveFile(ClassesHiveOf("alice"), 1)),
                    UserDir("bob", isDir, own("bob"), OtherFile("none"))>>) :
         root \in {<<"MNT">>, <<"USERS", "bob", "MNT">>}, isDir \in BOOLEAN}

-----------------------------------------------------------------------------
\* The hives of evidence that are scanned as those of users, each with the
\* name of the directory of Users it lies in; DEFAULT and copies of it have none.
UserFiles(e) ==
  LET all == {<<NoName, e.config[n]>> : n \in DOMAIN e.config}
             \union {<<NoName, e.regback[n].file>> : n \in DOMAIN e.regback}
             \union {<<e.users[n].name, e.users[n].ntuser>> : n \in {m \in DOMAIN e.users : e.users[m].isDir}}
             \union {<<e.users[n].name, e.users[n].usrclass>> : n \in {m \in DOMAIN e.users : e.users[m].isDir}}
  IN  {f \in all : f[2].opens /\ TypeOf(f[2].hive) \in {"NtUser", "UsrClass"}}

\* What has to be scanned: [n, identity, hive].
Scanned ==
  IF evidence = NoPath
  THEN {[n |-> n, identity |-> users[n].identity, hive |-> users[n].hive] :
          n \in {m \in DOMAIN users : ~users[m].hive.rootBad}}
  ELSE {[n |-> f, identity |-> [Nobody EXCEPT !.profile = f[1]], hive |-> f[2].hive] :
          f \in UserFiles(evidence)}

ValueHits(x, id, key, all) ==
  IF key \in x.hive.valsBad THEN {}
  ELSE {m \in DOMAIN x.hive.vals[key] :
          all \/ (/\ x.hive.vals[key][m].name = (IF id = "services" THEN "IMAGEPATH" ELSE "X")
                  /\ \A i \in 1 .. m - 1 : x.hive.vals[key][i].name # x.hive.vals[key][m].name)}

\* Every hit that is due: the hive, the descriptor, the match and the value.
Due ==
  UNION {UNION {LET type == TypeOf(x.hive)
                    id == MCCatalog[j].id
                    t == Meaning(type, id)
                    set == IF type = "System" THEN RunningSet(x.hive) ELSE SetName[1]
                IN  IF t = << >> THEN {}
                    ELSE UNION {{[x |-> x, j |-> j, chain |-> m[1], t |-> t, a |-> m[2], value |-> v] :
                                   v \in ValueHits(x, id, KeyOf(m[1]), MCCatalog[j].value = NoName)} :
                                  m \in MatchesOf(x.hive, t, set)}
                : j \in DOMAIN MCCatalog} : x \in Scanned}

HitDue(y) ==
  LET value == y.x.hive.vals[KeyOf(y.chain)][y.value]
      who == y.x.identity
  IN  [id |-> MCCatalog[y.j].id, path |-> NamesOf(y.x.hive, y.chain), value |-> value.name,
       data |-> IF value.data = Unreadable THEN "" ELSE value.data.text,
       userBinding |-> IF who.sid # NoName THEN <<who.sid>>
                       ELSE IF who.profile # NoName THEN <<who.profile>> ELSE << >>,
       bindings |-> BoundNames(y.x.hive, y.chain, y.a, y.t),
       user |-> who]

\* Who a hit is attributed to: no user counts as one of whom nothing is known.
Attributed(hit) == [hit EXCEPT !.user = IF @ = NoName THEN Nobody ELSE @]

\* A scan reports each value of each key that a descriptor means, once, in
\* every hive the descriptor applies to and no other, with the user whose hive
\* it is, the control set that was running and the names behind its globs;
\* hives and keys that cannot be read cost their own hits only.
ScanIsExact ==
  mode # "expand" /\ phase = "done" =>
    LET due == {HitDue(y) : y \in Due}
    IN  /\ Len(found) = Cardinality(Due)
        /\ {Attributed(found[n]) : n \in DOMAIN found} = due

\* "attributing every hit to the user it came from": where every value tells
\* the name of the directory of Users its hive lies in, that is the user of
\* its hits.
AttributedToOwner ==
  mode = "users" /\ evidence \in HomeEvidence /\ phase = "done" =>
    \A n \in DOMAIN found : found[n].user # NoName /\ found[n].user.profile = found[n].data

-----------------------------------------------------------------------------
(* SYSTEM hives: SELECT (1), two control sets (2, 3) with the services     *)
(* (4, 5) and the cache (6, 7) of each, a service of the first set (8)     *)
(* with its parameters (9), and a service of the second (10).              *)

SystemHive(sets1, sets2, first, current, vals, bad) ==
  HiveWith(From0(<<"A", "SELECT", first, "CONTROLSET002", "SERVICES", "SERVICES",
                   "APPCOMPATCACHE", "APPCOMPATCACHE", "A", "PARAMETERS", "X">>),
           From0(<<<<1, 2, 3>>, << >>, sets1, sets2, <<8, 10>>, <<10>>, << >>, << >>, <<9>>>>),
           (1 :> (IF current = NoPath THEN << >> ELSE <<Val("CURRENT", current)>>)) @@ vals, bad)

ControlSetHives ==
  LET cacheOf(time) == <<Val("APPCOMPATCACHE", Binary(<<Marker10, 0, 3, 1, 7, time>>))>>
  IN  {SystemHive(s1, s2, first, current, (6 :> cacheOf(1)) @@ (7 :> cacheOf(2)), bad) :
         s1 \in {<<4, 6>>, <<4>>, <<6>>}, s2 \in {<<5, 7>>, <<7>>, << >>},
         first \in {"CONTROLSET001", "CURRENTCONTROLSET"},
         current \in {NoPath, Unreadable, Short, Number(0), Number(1), Number(2)},
         bad \in {{}, {3}, {5}, {2}}}

Given(name, data) == IF data = NoPath THEN << >> ELSE <<Val(name, data)>>

\* The service has a value ServiceDll of its own, which is none of its DLL.
ServiceHives ==
  {SystemHive(<<4, 6>>, << >>, "CONTROLSET001", NoPath,
     (8 :> Given("IMAGEPATH", image) \o Given("START", start) \o Given("DESCRIPTION", description)
             \o Given("OBJECTNAME", account) \o Given("FAILURECOMMAND", failure)
             \o <<Val("SERVICEDLL", Text("system32"))>>)
       @@ (9 :> Given("SERVICEDLL", dll)), {}) :
     image \in {NoPath, Unreadable, Text("temp"), Text("cmd"), Text("system32"), Text("quiet")},
     start \in {NoPath, Number(2), Number(3), Short}, description \in {NoPath, Text("quiet")},
     account \in {NoPath, Text("quiet")}, failure \in {NoPath, Text(""), Text("quiet")},
     dll \in {NoPath, Text("temp"), Text("cmd"), Text("quiet")}}

-----------------------------------------------------------------------------
(* Caches as Windows writes them.                                          *)

\* Entries: the letters of a path, a package, the time and the data.
MCEntries == [path : {<<1, 2>>, << >>, <<3, 0, 4>>}, package : {<< >>, <<6>>}, flags : {<<5>>},
              time : {0, 9}, data : {<< >>, <<Marker10>>}]

\* The formats by their header, their marker and the layout of their bodies.
CacheFormats ==
  {[header |-> <<3, 0, 0>>, marker |-> Marker10, win8 |-> FALSE],
   [header |-> << >>, marker |-> Marker10, win8 |-> FALSE],
   [header |-> <<0, 7>>, marker |-> Marker10, win8 |-> FALSE],
   [header |-> <<80, 1, 0, 0>>, marker |-> Marker10, win8 |-> TRUE],
   [header |-> <<0, 1, 0, 0>>, marker |-> Marker10, win8 |-> TRUE],
   [header |-> <<80, 2, 0, 0>>, marker |-> Marker00, win8 |-> TRUE]}

\* A cache of one or two entries that was cut off at its end.
MCCaches ==
  {[format |-> f, entries |-> s, cut |-> cut] :
     f \in CacheFormats, s \in {<<e>> : e \in MCEntries} \union
       {<<e, [path |-> <<1, 2>>, package |-> <<6>>, flags |-> <<5>>, time |-> 9, data |-> << >>]>> :
          e \in MCEntries},
     cut \in 0 .. 3}

\* Without a marker: an old header with and without room for it, one of
\* Windows 10 alone, none, and no blob.
Unmarked == {<<80, 1, 0, 0, 7, 7, 7>>, <<80, 1>>, <<3, 0, 0>>, <<7, 8, 9>>, << >>}

HiveOfBlob(b) ==
  SystemHive(<<6>>, << >>, "CONTROLSET001", NoPath, 6 :> <<Val("APPCOMPATCACHE", Binary(b))>>, {})

UnmarkedHives == {HiveOfBlob(b) : b \in Unmarked}
CacheHives == UnmarkedHives \union {HiveOfBlob(CacheBlob[c]) : c \in Caches}

MCSystemHives == ControlSetHives \union ServiceHives \union CacheHives

-----------------------------------------------------------------------------
\* One machine runs, the other stands still.
ScanIdle ==
  /\ mode = "idle" /\ phase = "done" /\ evidence = NoPath /\ users = << >> /\ NoWalk
  /\ u = 0 /\ target = NoTarget /\ d = 0 /\ found = << >>

SysIdle ==
  /\ system = NoHive /\ task = "idle"
  /\ servicesKey = NoKey /\ left = << >> /\ services = << >>
  /\ cacheKey = NoKey /\ blob = << >> /\ format = [layout |-> "none"] /\ offset = 0 /\ cache = << >>

ArtifactsInit == \/ ScanInit /\ SysIdle
                 \/ SysInit /\ ScanIdle

ArtifactsNext == \/ ScanNext /\ UNCHANGED sysVars
                 \/ SysNext /\ UNCHANGED allVars

\* walk, which the scans call for each descriptor, is never blocked.
ArtifactsSpec ==
  ArtifactsInit /\ [][ArtifactsNext]_<<allVars, sysVars>> /\ WF_vars(Next)
=============================================================================
