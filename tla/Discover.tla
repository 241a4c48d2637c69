------------------------------ MODULE Discover ------------------------------
(***************************************************************************)
(* The search for hives below an evidence root: discover_hives             *)
(* (winreg-discover/src/scanner.rs), and discover_user_hives, which opens  *)
(* those of users (winreg-artifacts/src/catalog_scan.rs).  A path is a sequence  *)
(* of components in upper case; the suffix of a log is one of its own.     *)
(*                                                                         *)
(* A file is [kind, hive, time, opens]: what is at its path is "none" (no  *)
(* file), "small" (too short for what is looked for), "junk" (neither hive *)
(* nor log), a "log" or a "hive".  time is when its root key was last      *)
(* written, 0 for no time; opens says whether it still opens when it is    *)
(* opened for the second time.                                             *)
(***************************************************************************)
EXTENDS HiveTree, SequencesExt

CONSTANTS
  ConfigHives, \* CONFIG_HIVES
  NoName,      \* None for the profile, the SID or the user of a hit
  Evidence     \* what may be below a root: [root, config, logs, regback, users]

\* config[n] and logs[n] belong to the n-th of CONFIG_HIVES; regback and users
\* are in the order in which the directory is read.
IsEvidence(e) ==
  /\ DOMAIN e.config = DOMAIN ConfigHives
  /\ \A n \in DOMAIN ConfigHives : DOMAIN e.logs[n] = {1, 2}

ASSUME EvidenceAssumption == \A e \in Evidence : IsEvidence(e)

\* The order of the types by the string they are displayed as.
TypesByName == <<"Amcache", "Bcd", "Default", "NtUser", "Sam", "Security", "Software",
                 "System", "Unknown", "UsrClass">>
TypeRank(type) == CHOOSE n \in DOMAIN TypesByName : TypesByName[n] = type

\* Mutant: a hive without a time is left out.
ProbeHiveWithTime(path, file, origin) ==
  IF file.kind # "hive" \/ file.time = 0 THEN << >>
  ELSE <<[path |-> path, type |-> DetectHiveType(file.hive), origin |-> origin,
          time |-> file.time, file |-> file]>>

\* try_probe_hive.
ProbeHive(path, file, origin) ==
  IF file.kind # "hive" THEN << >>
  ELSE <<[path |-> path, type |-> DetectHiveType(file.hive), origin |-> origin,
          time |-> IF file.hive.rootBad THEN 0 ELSE file.time, file |-> file]>>

\* try_probe_log: a hive begins with "regf" as well.
ProbeLog(path, file, num) ==
  IF file.kind \notin {"log", "hive"} THEN << >>
  ELSE <<[path |-> path, type |-> "Unknown", origin |-> <<"TransactionLog", num>>,
          time |-> 0, file |-> file]>>

ConfigDir(e) == e.root \o <<"WINDOWS", "SYSTEM32", "CONFIG">>

ConfigSources(e) ==
  FlattenSeq([n \in DOMAIN ConfigHives |->
    LET path == Append(ConfigDir(e), ConfigHives[n])
    IN  ProbeHive(path, e.config[n], "Live")
          \o ProbeLog(Append(path, "LOG1"), e.logs[n][1], 1)
          \o ProbeLog(Append(path, "LOG2"), e.logs[n][2], 2)])

RegBackSources(e) ==
  FlattenSeq([n \in DOMAIN e.regback |->
    ProbeHive(ConfigDir(e) \o <<"REGBACK", e.regback[n].name>>, e.regback[n].file, "RegBack")])

\* An entry of Users that is no directory has no hives in it.
UserSources(e) ==
  FlattenSeq([n \in DOMAIN e.users |->
    LET profile == e.root \o <<"USERS", e.users[n].name>>
    IN  IF ~e.users[n].isDir THEN << >>
        ELSE ProbeHive(Append(profile, "NTUSER.DAT"), e.users[n].ntuser, "Live")
               \o ProbeHive(profile \o <<"APPDATA", "LOCAL", "MICROSOFT", "WINDOWS", "USRCLASS.DAT">>,
                            e.users[n].usrclass, "Live")])

\* sort_by, which is stable: by type, then by time, no time first.
Before(s, i, j) ==
  \/ TypeRank(s[i].type) < TypeRank(s[j].type)
  \/ TypeRank(s[i].type) = TypeRank(s[j].type) /\ s[i].time < s[j].time
  \/ TypeRank(s[i].type) = TypeRank(s[j].type) /\ s[i].time = s[j].time /\ i < j

Sorted(s) ==
  [n \in DOMAIN s |->
     s[CHOOSE i \in DOMAIN s : Cardinality({j \in DOMAIN s : Before(s, j, i)}) = n - 1]]

DiscoverHives(e) == Sorted(ConfigSources(e) \o RegBackSources(e) \o UserSources(e))

\* Mutant: the last component but one.
ProfileNameOfParent(path) == path[Len(path) - 1]

\* profile_name_from_path: the component after the first "Users".
ProfileNameFromPath(path) ==
  LET users == {n \in DOMAIN path : path[n] = "USERS"}
      first == CHOOSE n \in users : \A m \in users : n <= m
  IN  IF users = {} \/ first = Len(path) THEN NoName ELSE path[first + 1]

\* discover_user_hives; the SID is left to the caller.
DiscoverUserHives(e) ==
  LET wanted(source) == source.type \in {"NtUser", "UsrClass"} /\ source.file.opens
  IN  [n \in DOMAIN SelectSeq(DiscoverHives(e), wanted) |->
         LET source == SelectSeq(DiscoverHives(e), wanted)[n]
         IN  [identity |-> [profile |-> ProfileNameFromPath(source.path), sid |-> NoName],
              hive |-> source.file.hive]]
=============================================================================
