--------------------------- MODULE SystemFindings ---------------------------
(***************************************************************************)
(* What should be found in a SYSTEM hive, defined without the loops and    *)
(* the order of the questions of SystemHive: the control set that was      *)
(* running, and the rules of svc_diff that a service falls under.          *)
(***************************************************************************)
EXTENDS PathExpansion, SystemHive

ASSUME SystemAssumption ==
  /\ \A h \in SystemHives : IsHive(h)
  /\ SetName = ControlSetName
  /\ UserWritable \subseteq Texts \ {EmptyText} /\ Interpreters \subseteq Texts \ {EmptyText}
  /\ SystemDirs \subseteq Texts \ {EmptyText}
  /\ EmptyText \in Texts /\ NoText \notin Texts /\ NoValue \notin [name : Names, data : Data]
  /\ NoNumber \notin Nat /\ ShimcacheSuffix \in Seq(Names)

\* The first of the subkeys of that name, if there is one.
KidOf(h, k, name) ==
  {h.kids[k][n] : n \in {m \in DOMAIN h.kids[k] :
     /\ k \notin h.kidsBad /\ h.name[h.kids[k][m]] = name
     /\ \A i \in 1 .. m - 1 : h.name[h.kids[k][i]] # name}}

\* The data of the first value of that name, if it can be read.
DataOf(h, k, name) ==
  {h.vals[k][n].data : n \in {m \in DOMAIN h.vals[k] :
     /\ k \notin h.valsBad /\ h.vals[k][m].name = name /\ h.vals[k][m].data.ok
     /\ \A i \in 1 .. m - 1 : h.vals[k][i].name # name}}

\* The number in Select\Current, if there is one, and the set that it names;
\* ControlSet001 runs if the hive does not say.
RunningNumbers(h) ==
  {x.num : x \in {y \in UNION {DataOf(h, k, "CURRENT") : k \in KidOf(h, Root, "SELECT")} :
                    y.size >= 4 /\ y.num # 0}}

RunningSet(h) ==
  IF RunningNumbers(h) = {} THEN SetName[1] ELSE SetName[CHOOSE n \in RunningNumbers(h) : TRUE]

\* A hive that was taken from a machine that does not run: it has no live name for
\* the running set. Sets are numbered from 1.
Offline(h) == {OpenKey(h, <<"CURRENTCONTROLSET">>), OpenKey(h, <<SetName[0]>>)} = {NoKey}

\* In an offline hive whose running control set has both keys, the services,
\* the cache of programs and the catalog scan all look into that set, although
\* each finds it with code of its own.
ControlSetsAgree ==
  task = "returned" /\ Offline(system) =>
    LET set == RunningSet(system)
        servicesOfSet == OpenKey(system, <<set, "SERVICES">>)
        cacheOfSet == OpenKey(system, <<set>> \o ShimcacheSuffix)
    IN  NoKey \notin {servicesOfSet, cacheOfSet}
        => /\ servicesKey = servicesOfSet /\ cacheKey = cacheOfSet
           /\ Resolved(SelectCurrent(system)) = <<set>>

\* The rules that a service falls under, in the order of their documentation.
RulesOf(h, k) ==
  LET image == DataOf(h, k, "IMAGEPATH")
      dll == UNION {DataOf(h, p, "SERVICEDLL") : p \in KidOf(h, k, "PARAMETERS")}
      some(data, texts) == \E x \in data : x.text \in texts
      empty(name) == \A x \in DataOf(h, k, name) : x.text = EmptyText
  IN  {r \in 1 .. 6 :
         CASE r = 1 -> some(image, UserWritable)
           [] r = 2 -> some(image, Interpreters)
           [] r = 3 -> some(dll, UserWritable \union Interpreters)
           [] r = 4 -> /\ \E x \in DataOf(h, k, "START") : x.size >= 4 /\ x.num = 2
                       /\ empty("DESCRIPTION") /\ ~some(image, SystemDirs)
           [] r = 5 -> empty("OBJECTNAME")
           [] r = 6 -> ~empty("FAILURECOMMAND")}

RuleOf(reason) ==
  CASE reason = <<"image path", "user-writable">> -> 1
    [] reason = <<"image path", "interpreter">> -> 2
    [] reason[1] = "ServiceDll" -> 3
    [] reason[1] = "auto-start" -> 4
    [] reason[1] = "no account" -> 5
    [] reason[1] = "FailureCommand" -> 6

\* The services that are listed, if they can be.
ServiceKeys ==
  IF servicesKey = NoKey \/ servicesKey \in system.kidsBad THEN << >> ELSE system.kids[servicesKey]

\* Each service key makes one entry, in order, and an entry is suspicious
\* exactly if it falls under one of the six rules; the reason is the first.
ServicesExact ==
  task = "cache" =>
    /\ Len(services) = Len(ServiceKeys)
    /\ \A n \in DOMAIN ServiceKeys :
         LET rules == RulesOf(system, ServiceKeys[n])
         IN  /\ services[n].service.name = system.name[ServiceKeys[n]]
             /\ IF rules = {} THEN services[n].reason = << >>
                ELSE /\ services[n].reason # << >>
                     /\ RuleOf(services[n].reason) \in rules
                     /\ \A r \in rules : RuleOf(services[n].reason) <= r
=============================================================================
