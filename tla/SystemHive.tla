----------------------------- MODULE SystemHive -----------------------------
(***************************************************************************)
(* Two decoders of a SYSTEM hive: the services with what is suspicious     *)
(* about them (winreg-artifacts/src/svc_diff.rs), and the cache of the     *)
(* programs that were run (shimcache.rs).  Each of them finds the control  *)
(* set that was running in its own way.                                    *)
(*                                                                         *)
(* The fields of a blob take one place each, and so does a character: the  *)
(* offsets count places.                                                   *)
(***************************************************************************)
EXTENDS HiveTree

CONSTANTS
  SystemHives,
  ControlSetName,   \* "ControlSet%03d"
  ShimcacheSuffix,  \* Control\Session Manager\AppCompatCache
  UserWritable,     \* the texts that hold one of USER_WRITABLE_DIRS
  Interpreters,     \* the texts that hold one of INTERPRETERS
  SystemDirs,       \* the texts that hold \system32\ or \syswow64\
  Marker10,         \* "10ts", the marker of entries of Windows 8.1 and 10
  Marker00,         \* "00ts", that of Windows 8.0
  Win10HeaderLens,  \* 0x30 and 0x34
  WIN8_HEADER_SIG,  \* 0x80
  HeaderSize,       \* 128: WIN8X_ENTRY_STREAM_OFFSET, and the header of parse_win10
  FlagsLen,         \* 8: WIN8X_PATH_TO_FILETIME_FIXED
  NoText            \* no text, no time

VARIABLES
  system,    \* the hive
  task,      \* "services", "classify", "cache", "entries" or "returned"
  servicesKey, \* services_key
  left,      \* the service keys that are left
  services,  \* the service entries
  cacheKey,  \* the key the cache was read from
  blob,
  format,    \* [start, marker, framing, layout, count]
  offset,    \* the offset of the next entry
  cache      \* the cache entries

sysVars == <<system, task, servicesKey, left, services, cacheKey, blob, format, offset, cache>>

SysInit ==
  /\ system \in SystemHives /\ task = "services"
  /\ servicesKey = NoKey /\ left = << >> /\ services = << >>
  /\ cacheKey = NoKey /\ blob = << >> /\ format = [layout |-> "none"]
  /\ offset = 0 /\ cache = << >>

\* The first of some paths that opens.
FirstOpened(paths) ==
  LET opened == {n \in DOMAIN paths : OpenKey(system, paths[n]) # NoKey}
  IN  IF opened = {} THEN NoKey
      ELSE OpenKey(system, paths[CHOOSE n \in opened : \A m \in opened : n <= m])

SelectedValue ==
  LET select == OpenKey(system, <<"SELECT">>)
  IN  IF select = NoKey THEN NoValue ELSE ValueNamed(system, select, "CURRENT")

\* Mutant: ControlSet001 before the set that is selected.
ServicesKeyOfFirstSet ==
  LET active == IF Readable(SelectedValue) THEN AsU32(SelectedValue) ELSE 1
  IN  FirstOpened(<< <<ControlSetName[1], "SERVICES">>, <<ControlSetName[active], "SERVICES">>,
                     <<"CURRENTCONTROLSET", "SERVICES">> >>)

\* svc_diff: the set that is selected, ControlSet001, the live name.
ServicesKey ==
  LET active == IF Readable(SelectedValue) THEN AsU32(SelectedValue) ELSE 1
  IN  FirstOpened(<< <<ControlSetName[active], "SERVICES">>, <<ControlSetName[1], "SERVICES">>,
                     <<"CURRENTCONTROLSET", "SERVICES">> >>)

OpenServices ==
  /\ task = "services"
  /\ servicesKey' = ServicesKey
  /\ left' = IF servicesKey' = NoKey \/ servicesKey' \in system.kidsBad THEN << >>
             ELSE system.kids[servicesKey']
  /\ task' = "classify"
  /\ UNCHANGED <<system, services, cacheKey, blob, format, offset, cache>>

\* The default of a text.
EmptyText == ""

TextOf(k, name, default) ==
  LET value == IF k = NoKey THEN NoValue ELSE ValueNamed(system, k, name)
  IN  IF Readable(value) THEN value.data.text ELSE default

NumberOf(k, name, default) ==
  LET value == ValueNamed(system, k, name)
  IN  IF Readable(value) THEN AsU32(value) ELSE default

\* classify_path and classify_service: the first reason there is.
ClassifyService(s) ==
  FirstRule(
    <<[reason |-> <<"image path", "user-writable">>, holds |-> s.imagePath \in UserWritable],
      [reason |-> <<"image path", "interpreter">>, holds |-> s.imagePath \in Interpreters],
      [reason |-> <<"ServiceDll", "user-writable">>, holds |-> s.serviceDll \in UserWritable],
      [reason |-> <<"ServiceDll", "interpreter">>, holds |-> s.serviceDll \in Interpreters],
      [reason |-> <<"auto-start", "no description">>,
       holds |-> s.startType = 2 /\ s.description = EmptyText /\ s.imagePath \notin SystemDirs],
      [reason |-> <<"no account">>, holds |-> s.objectName = EmptyText],
      [reason |-> <<"FailureCommand">>, holds |-> s.failureCommand \notin {NoText, EmptyText}],
      [reason |-> << >>, holds |-> TRUE]>>).reason

\* Mutant: ServiceDll is looked for in the service's own key.
ServiceOfKeyAlone(k) ==
  [name |-> system.name[k], displayName |-> TextOf(k, "DISPLAYNAME", EmptyText),
   serviceType |-> NumberOf(k, "TYPE", 0),
   imagePath |-> TextOf(k, "IMAGEPATH", EmptyText), description |-> TextOf(k, "DESCRIPTION", EmptyText),
   objectName |-> TextOf(k, "OBJECTNAME", EmptyText), startType |-> NumberOf(k, "START", 3),
   serviceDll |-> TextOf(k, "SERVICEDLL", NoText),
   failureCommand |-> TextOf(k, "FAILURECOMMAND", NoText)]

\* The values of a service, with their defaults.
ServiceOf(k) ==
  [name |-> system.name[k], displayName |-> TextOf(k, "DISPLAYNAME", EmptyText),
   serviceType |-> NumberOf(k, "TYPE", 0),
   imagePath |-> TextOf(k, "IMAGEPATH", EmptyText), description |-> TextOf(k, "DESCRIPTION", EmptyText),
   objectName |-> TextOf(k, "OBJECTNAME", EmptyText), startType |-> NumberOf(k, "START", 3),
   serviceDll |-> TextOf(Subkey(system, k, "PARAMETERS"), "SERVICEDLL", NoText),
   failureCommand |-> TextOf(k, "FAILURECOMMAND", NoText)]

\* One turn of the loop over the service keys.
ClassifyNext ==
  /\ task = "classify" /\ left # << >>
  /\ services' = Append(services, [service |-> ServiceOf(Head(left)),
                                   reason |-> ClassifyService(ServiceOf(Head(left)))])
  /\ left' = Tail(left)
  /\ UNCHANGED <<system, task, servicesKey, cacheKey, blob, format, offset, cache>>

EndServices ==
  /\ task = "classify" /\ left = << >>
  /\ task' = "cache"
  /\ UNCHANGED <<system, servicesKey, left, services, cacheKey, blob, format, offset, cache>>

\* shimcache: the live name, the set that is selected, ControlSet001; here a
\* number that is too short counts as 1.
ShimcacheKey ==
  LET current == IF Readable(SelectedValue) /\ SelectedValue.data.size >= 4
                 THEN SelectedValue.data.num ELSE 1
  IN  FirstOpened(<< <<"CURRENTCONTROLSET">> \o ShimcacheSuffix,
                     <<ControlSetName[current]>> \o ShimcacheSuffix,
                     <<ControlSetName[1]>> \o ShimcacheSuffix >>)

\* An entry stream, in which entries are not counted.
Stream(b, start, marker, layout) ==
  [start |-> start, marker |-> marker, framing |-> 3, layout |-> layout, count |-> Len(b)]

\* Mutant: the marker is looked for behind every header.
FormatByMarkerFirst(b) ==
  LET marked == {n \in DOMAIN b : b[n] = Marker10}
  IN  IF marked # {} THEN Stream(b, (CHOOSE n \in marked : \A m \in marked : n <= m) - 1, Marker10, "Win10")
      ELSE [layout |-> "none"]

\* The order in which parse tells the formats of a blob apart.
FormatOf(b) ==
  LET marked == {n \in DOMAIN b : b[n] = Marker10}
      at == HeaderSize + 1
  IN  IF b = << >> THEN [layout |-> "none"]
      ELSE IF b[1] \in Win10HeaderLens THEN Stream(b, b[1], Marker10, "Win10")
      ELSE IF b[1] = Marker10 THEN Stream(b, 0, Marker10, "Win10")
      ELSE IF Len(b) >= at /\ b[at] \in {Marker00, Marker10} THEN Stream(b, HeaderSize, b[at], "Win8x")
      ELSE IF b[1] = WIN8_HEADER_SIG
           THEN [start |-> HeaderSize, marker |-> Marker10, framing |-> 2, layout |-> "legacy",
                 count |-> IF Len(b) < HeaderSize THEN 0 ELSE b[2]]
      ELSE IF marked # {}
           THEN Stream(b, (CHOOSE n \in marked : \A m \in marked : n <= m) - 1, Marker10, "Win10")
      ELSE [layout |-> "sentinel"]

OpenCache ==
  /\ task = "cache"
  /\ cacheKey' = ShimcacheKey
  /\ LET value == IF cacheKey' = NoKey THEN NoValue
                  ELSE ValueNamed(system, cacheKey', "APPCOMPATCACHE")
     IN  blob' = IF Readable(value) THEN value.data.blob ELSE << >>
  /\ format' = FormatOf(blob')
  /\ offset' = IF format'.layout \in {"none", "sentinel"} THEN Len(blob') ELSE format'.start
  /\ cache' = IF format'.layout = "sentinel" THEN <<[path |-> << >>, time |-> NoText]>> ELSE << >>
  /\ task' = IF format'.layout \in {"none", "sentinel"} THEN "returned" ELSE "entries"
  /\ UNCHANGED <<system, servicesKey, left, services>>

\* decode_utf16le: up to the first null.
Decoded(s) ==
  LET nulls == {n \in DOMAIN s : s[n] = 0}
  IN  IF nulls = {} THEN s ELSE SubSeq(s, 1, (CHOOSE n \in nulls : \A m \in nulls : n <= m) - 1)

\* filetime_to_datetime of the field at that place; 0 is no time.
TimeAt(body, n) == IF n \in DOMAIN body /\ body[n] # 0 THEN body[n] ELSE NoText

\* Mutant: the time follows the path in every format.
DecodedStreamBodyAlike(body, layout) ==
  IF body = << >> THEN [path |-> << >>, time |-> NoText]
  ELSE LET pathEnd == 1 + body[1]
       IN  [path |-> IF pathEnd <= Len(body) THEN Decoded(SubSeq(body, 2, pathEnd)) ELSE << >>,
            time |-> TimeAt(body, pathEnd + 1)]

\* decode_win10_entry_body: in the format of Windows 8 a package and flags
\* stand between the path and the time.
DecodedStreamBody(body, layout) ==
  IF body = << >> THEN [path |-> << >>, time |-> NoText]
  ELSE LET pathEnd == 1 + body[1]
           timeAt == IF layout = "Win10" THEN pathEnd
                     ELSE IF pathEnd + 1 <= Len(body) THEN pathEnd + 1 + body[pathEnd + 1] + FlagsLen
                     ELSE Len(body)
       IN  [path |-> IF pathEnd <= Len(body) THEN Decoded(SubSeq(body, 2, pathEnd)) ELSE << >>,
            time |-> TimeAt(body, timeAt + 1)]

\* decode_entry_body: the length of the path, the time, the offset of the path.
DecodedLegacyBody(body) ==
  [path |-> IF Len(body) < 3 THEN << >>
            ELSE IF body[3] < Len(body) /\ body[3] + body[1] <= Len(body)
                 THEN Decoded(SubSeq(body, body[3] + 1, body[3] + body[1]))
            ELSE << >>,
   time |-> TimeAt(body, 2)]

BodyStart == offset + format.framing
BodyEnd == BodyStart + blob[BodyStart]

\* The next entry is framed within the blob.
HasEntry ==
  /\ task = "entries"
  /\ BodyStart <= Len(blob) /\ Len(cache) < format.count
  /\ blob[offset + 1] = format.marker
  /\ BodyEnd <= Len(blob)

\* One turn of the loops of parse_win10_entries and parse_win10.
ReadEntry ==
  /\ HasEntry
  /\ LET body == SubSeq(blob, BodyStart + 1, BodyEnd)
     IN  cache' = Append(cache, IF format.layout = "legacy" THEN DecodedLegacyBody(body)
                                ELSE DecodedStreamBody(body, format.layout))
  /\ offset' = BodyEnd
  /\ UNCHANGED <<system, task, servicesKey, left, services, cacheKey, blob, format>>

EndCache ==
  /\ task = "entries" /\ ~HasEntry
  /\ task' = "returned"
  /\ UNCHANGED <<system, servicesKey, left, services, cacheKey, blob, format, offset, cache>>

SysNext == \/ OpenServices \/ ClassifyNext \/ EndServices
           \/ OpenCache \/ ReadEntry \/ EndCache

SysSpec == SysInit /\ [][SysNext]_sysVars
=============================================================================
