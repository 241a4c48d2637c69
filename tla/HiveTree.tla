------------------------------ MODULE HiveTree ------------------------------
(***************************************************************************)
(* A hive as the readers above winreg-core see it: keys with a name, their *)
(* subkeys and their values in the order of the lists, each list readable  *)
(* or an error.  On it, the lookups by name of winreg-core/src/key.rs and  *)
(* the detection of the type of a hive (winreg-core/src/detect.rs).        *)
(*                                                                         *)
(* A name stands for its upper-case form, by which names are compared.     *)
(***************************************************************************)
EXTENDS Integers, Sequences, FiniteSets

CONSTANTS
  Ids,          \* the numbers of keys
  Root,         \* the number of the root key
  NoKey,        \* no number
  Names,        \* the names of keys and values
  ClassesNames, \* those that contain "CLASSES"
  NoValue,      \* no value
  Texts,        \* what values decode to as strings
  Blobs         \* binary data

\* What a value holds: whether raw_data succeeds, the number of bytes, and the
\* bytes as a number, as a string and as a record.
Data == [ok : BOOLEAN, size : Nat, num : Nat, text : Texts, blob : Blobs]

IsHive(h) ==
  /\ h.rootBad \in BOOLEAN
  /\ \A k \in Ids : h.name[k] \in Names /\ h.kids[k] \in Seq(Ids)
  /\ h.kidsBad \subseteq Ids
  /\ \A k \in Ids : h.vals[k] \in Seq([name : Names, data : Data])
  /\ h.valsBad \subseteq Ids

\* The children of that name, and Key::subkey: the first of them.
Named(h, k, name) == {n \in DOMAIN h.kids[k] : h.name[h.kids[k][n]] = name}
FirstNamed(h, k, name) ==
  IF Named(h, k, name) = {} THEN NoKey
  ELSE h.kids[k][CHOOSE n \in Named(h, k, name) : \A m \in Named(h, k, name) : n <= m]

\* Callers take an error for None.
Subkey(h, k, name) ==
  IF k = NoKey \/ k \in h.kidsBad THEN NoKey ELSE FirstNamed(h, k, name)

\* Hive::open_key.
OpenKey(h, path) ==
  LET walked[n \in 0 .. Len(path)] ==
        IF n = 0 THEN Root ELSE Subkey(h, walked[n - 1], path[n])
  IN  IF h.rootBad \/ path = << >> THEN NoKey ELSE walked[Len(path)]

\* Key::values, an error being no value.
ValuesOf(h, k) == IF k \in h.valsBad THEN << >> ELSE h.vals[k]

\* Key::value: the first value of that name.
ValueNamed(h, k, name) ==
  LET named == {n \in DOMAIN ValuesOf(h, k) : ValuesOf(h, k)[n].name = name}
  IN  IF named = {} THEN NoValue
      ELSE ValuesOf(h, k)[CHOOSE n \in named : \A m \in named : n <= m]

\* as_u32: data that is too short is 0.
AsU32(v) == IF v.data.size < 4 THEN 0 ELSE v.data.num

\* A value that is there and can be read.
Readable(v) == v # NoValue /\ v.data.ok

\* A decision list: the first of its rules that holds; the last one always does.
FirstRule(rules) ==
  LET holding == {n \in DOMAIN rules : rules[n].holds}
  IN  rules[CHOOSE n \in holding : \A m \in holding : n <= m]

\* detect_hive_type.
DetectHiveType(h) ==
  LET has(name) == Named(h, Root, name) # {}
  IN  IF h.rootBad \/ Root \in h.kidsBad THEN "Unknown"
      ELSE FirstRule(
        <<[type |-> "System", holds |-> has("SELECT") /\ has("CONTROLSET001")],
          [type |-> "Sam", holds |-> has("SAM") /\ OpenKey(h, <<"SAM", "DOMAINS">>) # NoKey],
          [type |-> "Security", holds |-> has("POLICY")],
          [type |-> "Amcache", holds |-> has("ROOT") \/ has("INVENTORYAPPLICATIONFILE")],
          [type |-> "Bcd", holds |-> has("DESCRIPTION") /\ has("OBJECTS")],
          [type |-> "Software", holds |-> has("MICROSOFT") /\ has("CLASSES")],
          [type |-> "NtUser",
           holds |-> has("SOFTWARE") /\ (has("APPEVENTS") \/ has("CONSOLE") \/ has("ENVIRONMENT"))],
          [type |-> "Default", holds |-> has("APPEVENTS") /\ ~has("SOFTWARE")],
          [type |-> "UsrClass", holds |-> h.name[Root] \in ClassesNames],
          [type |-> "Unknown", holds |-> TRUE]>>).type
=============================================================================
