---------------------------- MODULE ConfigProofs ----------------------------
(***************************************************************************)
(* Loads of the configuration, for any devices, plugins, files and         *)
(* configurations: who owns the entries in memory, which plugins they may  *)
(* call, and what a load has changed at the point where it fails.          *)
(***************************************************************************)
EXTENDS Config, WellFoundedInduction, TLAPS

Table == [Devices -> {0} \cup Handles]
Plugins == Kinds \X Names
SearchPaths == [Kinds -> Seq(Paths)]
Heap == [Handles -> DeviceConfig \cup {NoEntry}]

\* A load with an entry under construction, and one that still can succeed.
EntryPhases == {"estimator", "policy", "insert"}
LivePhases == {"create"} \cup EntryPhases
Phases == LivePhases \cup {"discard", "rollback"}

Codes == {"OK", "INVAL", "NOMEM", "STATE", "NOT_FOUND"}

Load ==
    [phase : Phases, mode : {"MERGE", "REPLACE"}, config : Configs,
     at : Nat \ {0}, staged : Table, entry : {0} \cup Handles,
     loaded : SUBSET Plugins, rc : Codes,
     before : Table \X Heap \X (SUBSET Plugins) \X SearchPaths]

-----------------------------------------------------------------------------
(* The inductive invariant                                                 *)

Typed ==
    /\ devices \in Table
    /\ heap \in Heap
    /\ plugins \in SUBSET Plugins
    /\ paths \in SearchPaths
    /\ active \in SUBSET Devices
    /\ Idle \/ load \in Load

\* Blocks of memory that the load owns, alone or with the context.
Pending == IF Idle THEN {} ELSE Held(load.staged) \cup ({load.entry} \ {0})

AtHome(table) == \A d \in Devices : table[d] # 0 => heap[table[d]].device = d

(* Every block is in a table or under construction, each at its device.    *)
Owned ==
    /\ Allocated = Held(devices) \cup Pending
    /\ AtHome(devices)
    /\ ~Idle => AtHome(load.staged)

(* An entry under construction is the load's alone.                        *)
EntryApart ==
    ~Idle =>
        /\ load.entry # 0 <=> load.phase \in EntryPhases
        /\ load.entry \notin Held(devices) \cup Held(load.staged)
        /\ load.phase = "rollback" => load.staged = NoTable
        /\ load.phase \in EntryPhases =>
              /\ load.at \in DOMAIN load.config.devices
              /\ heap[load.entry].device = Current.device

\* The policy, or the estimator, of the entry is one that is loaded.
Callable(h, k) ==
    heap[h].plugin[k] \in {NoName} \cup {n \in Names : <<k, n>> \in plugins}

PluginsLoaded ==
    /\ \A h \in Allocated :
          /\ \A k \in Kinds : Callable(h, k)
          /\ heap[h].plugin["estimator"] # NoName
    /\ <<"estimator", BuiltIn>> \in plugins

(* What the load has not touched, and what it can take back.               *)
BeforeKept ==
    ~Idle =>
        /\ load.before[1] = devices /\ load.before[4] = paths
        /\ load.before[3] = plugins \ load.loaded
        /\ load.loaded \subseteq plugins
        /\ load.before[2]
             = [h \in Handles |-> IF h \in Held(devices) THEN heap[h] ELSE NoEntry]
        /\ \A h \in Held(devices), k \in Kinds :
               <<k, heap[h].plugin[k]>> \notin load.loaded
        /\ <<"estimator", BuiltIn>> \notin load.loaded

ActiveLive == \A d \in active : devices[d] # 0

\* The devices of the configuration that the load is through with.
Done(d) ==
    \E i \in DOMAIN load.config.devices :
        i < load.at /\ load.config.devices[i].device = d

(* The staged table has what Publish would make of the context so far.     *)
StagedSoFar ==
    ~Idle /\ load.phase \in LivePhases =>
        /\ \A d \in Devices :
              IF Stays(load.mode, d, load.config)
              THEN load.staged[d] = devices[d]
              ELSE IF Done(d)
              THEN load.staged[d] \in Handles \ Held(devices)
              ELSE load.staged[d] = 0
        /\ \A d \in active :
              /\ load.mode = "REPLACE" => d \in Configured(load.config)
              /\ ~Done(d)
              /\ load.phase \in EntryPhases => d # Current.device

ConfigInv ==
    /\ Typed
    /\ Owned
    /\ EntryApart
    /\ PluginsLoaded
    /\ BeforeKept
    /\ ActiveLive
    /\ StagedSoFar

-----------------------------------------------------------------------------
(* Plugins                                                                 *)

(* A non-empty set of natural numbers has a least one.                     *)
LEMMA MinIsMember ==
    ASSUME NEW S \in SUBSET Nat, S # {} PROVE Min(S) \in S
<1>1. PICK x \in S : \A y \in S : ~(<<y, x>> \in OpToRel(<, Nat))
    BY NatLessThanWellFounded, WFMin
<1>2. \A y \in S : ~(y < x)
    BY <1>1 DEF OpToRel
<1>3. \A y \in S : x <= y
    BY <1>2
<1> QED
    BY <1>3 DEF Min

\* What find_or_load answers: a plugin only if it is, or is now, loaded.
FoundWell(kind, found) ==
    /\ found.rc \in Codes
    /\ found.loaded \in SUBSET Plugins
    /\ found.loaded \cap plugins = {}
    /\ Selectable(found) =>
          /\ found.plugin \in Names
          /\ <<kind, found.plugin>> \in plugins \cup found.loaded

LEMMA ScanFinds ==
    ASSUME NEW kind \in Kinds, NEW name, NEW dirs \in Seq(Paths)
    PROVE  FoundWell(kind, Scan(kind, name, dirs))
<1> DEFINE hits == {i \in DOMAIN dirs : Descriptor(kind, dirs[i], name) \in Names}
           desc == Descriptor(kind, dirs[Min(hits)], name)
<1>1. CASE hits = {}
  <2> DEFINE code == IF dirs # <<>> /\ Descriptor(kind, Last(dirs), name) = "broken"
                     THEN "INVAL" ELSE "NOT_FOUND"
  <2>1. Scan(kind, name, dirs) = [rc |-> code, plugin |-> NoName, loaded |-> {}]
      BY <1>1 DEF Scan
  <2>2. code \in Codes
      BY DEF Codes
  <2> HIDE DEF code
  <2> QED
      BY <2>1, <2>2 DEF FoundWell, Selectable
<1>2. CASE hits # {}
  <2>1. Min(hits) \in hits
    <3>1. hits \in SUBSET Nat
        OBVIOUS
    <3> HIDE DEF hits
    <3> QED
        BY <1>2, <3>1, MinIsMember
  <2>2. desc \in Names /\ <<kind, desc>> \in Plugins
      BY <2>1 DEF Plugins
  <2>3. Scan(kind, name, dirs)
          = IF <<kind, desc>> \in plugins
            THEN [rc |-> "OK", plugin |-> NoName, loaded |-> {}]
            ELSE [rc |-> "OK", plugin |-> desc, loaded |-> {<<kind, desc>>}]
      BY <1>2 DEF Scan
  <2> HIDE DEF desc
  <2>4. CASE <<kind, desc>> \in plugins
      BY <2>3, <2>4 DEF FoundWell, Selectable, Codes
  <2>5. CASE <<kind, desc>> \notin plugins
    <3> DEFINE found == [rc |-> "OK", plugin |-> desc,
                         loaded |-> {<<kind, desc>>}]
    <3>1. /\ found.rc = "OK" /\ found.plugin = desc
          /\ found.loaded = {<<kind, desc>>}
        OBVIOUS
    <3>2. Scan(kind, name, dirs) = found
        BY <2>3, <2>5
    <3> HIDE DEF found
    <3> QED
        BY <2>2, <2>5, <3>1, <3>2 DEF FoundWell, Codes
  <2> QED
      BY <2>4, <2>5
<1> QED
    BY <1>1, <1>2

(* What a device is given is loaded, and what is loaded for it is new.     *)
LEMMA FindOrLoadFinds ==
    ASSUME Typed, NEW kind \in Kinds, NEW name \in Names,
           NEW extra \in Seq(Paths)
    PROVE  FoundWell(kind, FindOrLoad(kind, name, extra))
<1>1. CASE <<kind, name>> \in plugins
    BY <1>1 DEF FindOrLoad, Known, FoundWell, Codes
<1>2. CASE <<kind, name>> \notin plugins
  <2>1. paths[kind] \in Seq(Paths)
      BY DEF Typed, SearchPaths
  <2>2. FindOrLoad(kind, name, extra)
          \in {Scan(kind, name, extra), Scan(kind, name, paths[kind])}
      BY <1>2 DEF FindOrLoad
  <2> QED
      BY <2>1, <2>2, ScanFinds
<1> QED
    BY <1>1, <1>2

-----------------------------------------------------------------------------
(* Entries                                                                 *)

(* An allocated block holds an entry, and an entry is not a free block.    *)
LEMMA EntriesDiffer ==
    ASSUME heap \in Heap
    PROVE  /\ \A h \in Allocated : heap[h] \in DeviceConfig
           /\ \A e \in DeviceConfig : e # NoEntry
BY EntriesAssumption DEF Heap, Allocated, DeviceConfig, NoEntry

LEMMA FreshTyped ==
    ASSUME NEW d \in Devices
    PROVE  /\ FreshEntry(d) \in DeviceConfig
           /\ FreshEntry(d).device = d
           /\ FreshEntry(d).plugin["estimator"] = BuiltIn
           /\ FreshEntry(d).plugin["policy"] = NoName
BY FilesAssumption DEF FreshEntry, DeviceConfig, Kinds

LEMMA WithPluginTyped ==
    ASSUME NEW e \in DeviceConfig, NEW k \in Kinds, NEW n \in Names
    PROVE  /\ WithPlugin(e, k, n) \in DeviceConfig
           /\ WithPlugin(e, k, n).device = e.device
           /\ WithPlugin(e, k, n).plugin[k] = n
           /\ \A j \in Kinds \ {k} : WithPlugin(e, k, n).plugin[j] = e.plugin[j]
<1> DEFINE p == [e.plugin EXCEPT ![k] = n]
<1>1. /\ e.plugin \in [Kinds -> Names \cup {NoName}] /\ e.device \in Devices
      /\ e = [device |-> e.device, plugin |-> e.plugin]
    BY DEF DeviceConfig
<1>2. /\ p \in [Kinds -> Names \cup {NoName}] /\ p[k] = n
      /\ \A j \in Kinds \ {k} : p[j] = e.plugin[j]
    BY <1>1
<1>3. WithPlugin(e, k, n) = [e EXCEPT !.plugin = p]
    BY <1>1 DEF WithPlugin
<1> HIDE DEF p
<1> QED
    BY <1>1, <1>2, <1>3 DEF DeviceConfig

(* A free block is found while there is one.                               *)
LEMMA NewHandleIsFree ==
    ASSUME heap \in Heap, MemoryLeft
    PROVE  /\ NewHandle \in Handles /\ NewHandle \notin Allocated
           /\ heap[NewHandle] = NoEntry
<1>1. \E h \in Handles : heap[h] = NoEntry
    BY DEF MemoryLeft, Allocated
<1> QED
    BY <1>1 DEF NewHandle, Allocated

\* What becomes of the heap: blocks are freed, or one is written.
LEMMA FreedHeap ==
    ASSUME heap \in Heap, NEW S, heap' = Freed(S)
    PROVE  /\ heap' \in Heap
           /\ Allocated' = Allocated \ S
           /\ \A h \in Handles \ S : heap'[h] = heap[h]
BY DEF Freed, Heap, Allocated

LEMMA WrittenHeap ==
    ASSUME heap \in Heap, NEW n \in Handles, NEW e \in DeviceConfig,
           heap' = [heap EXCEPT ![n] = e]
    PROVE  /\ heap' \in Heap
           /\ Allocated' = Allocated \cup {n}
           /\ heap'[n] = e
           /\ \A h \in Handles \ {n} : heap'[h] = heap[h]
BY EntriesDiffer DEF Heap, Allocated

LEMMA HeldInTable ==
    ASSUME NEW t \in Table
    PROVE  /\ Held(t) \in SUBSET Handles /\ 0 \notin Held(t)
           /\ \A d \in Devices : t[d] # 0 => t[d] \in Held(t)
           /\ Held(NoTable) = {}
           /\ NoTable \in Table
BY DEF Held, Table, NoTable

-----------------------------------------------------------------------------
(* Calls between two loads                                                 *)

(* Between loads only the table owns blocks.                               *)
LEMMA IdleOwns ==
    ASSUME ConfigInv, Idle
    PROVE  /\ Typed /\ AtHome(devices) /\ PluginsLoaded /\ ActiveLive
           /\ Allocated = Held(devices)
BY DEF ConfigInv, Owned, Pending

LEMMA IdleAfter ==
    ASSUME Idle', Typed', Allocated' = Held(devices'), AtHome(devices)',
           PluginsLoaded', ActiveLive'
    PROVE  ConfigInv'
<1>1. Pending' = {}
    BY DEF Pending
<1>2. Held(devices)' = Held(devices')
    BY DEF Held
<1> QED
    BY <1>1, <1>2
       DEF ConfigInv, Owned, EntryApart, BeforeKept, StagedSoFar

LEMMA IdleStep ==
    ASSUME Idle, load' = load, Typed', Allocated' = Held(devices'),
           AtHome(devices)', PluginsLoaded', ActiveLive'
    PROVE  ConfigInv'
BY IdleAfter DEF Idle

\* An entry whose plugins are loaded.
RunsLoaded(e) ==
    /\ \A k \in Kinds :
          e.plugin[k] \in {NoName} \cup {n \in Names : <<k, n>> \in plugins'}
    /\ e.plugin["estimator"] # NoName

(* A block that is written with loaded plugins keeps the others callable.  *)
LEMMA WrittenRuns ==
    ASSUME Typed, PluginsLoaded, plugins \subseteq plugins',
           NEW n \in Handles, NEW e \in DeviceConfig, RunsLoaded(e),
           heap' = [heap EXCEPT ![n] = e]
    PROVE  PluginsLoaded'
<1>1. /\ Allocated' = Allocated \cup {n} /\ heap'[n] = e
      /\ \A h \in Handles \ {n} : heap'[h] = heap[h]
    BY WrittenHeap DEF Typed
<1>2. Allocated \in SUBSET Handles
    BY DEF Allocated
<1> QED
    BY <1>1, <1>2 DEF PluginsLoaded, Callable, RunsLoaded

LEMMA FreshRuns ==
    ASSUME PluginsLoaded, plugins \subseteq plugins', NEW d \in Devices
    PROVE  RunsLoaded(FreshEntry(d))
BY FreshTyped, FilesAssumption DEF RunsLoaded, PluginsLoaded, Kinds

LEMMA FreedRuns ==
    ASSUME Typed, PluginsLoaded, plugins \subseteq plugins', NEW S,
           heap' = Freed(S)
    PROVE  PluginsLoaded'
<1>1. /\ Allocated' = Allocated \ S
      /\ \A h \in Handles \ S : heap'[h] = heap[h]
    BY FreedHeap DEF Typed
<1>2. Allocated \in SUBSET Handles
    BY DEF Allocated
<1> QED
    BY <1>1, <1>2 DEF PluginsLoaded, Callable

LEMMA RefusedStep ==
    ASSUME ConfigInv,
           UNCHANGED <<devices, heap, plugins, paths, active, load>>
    PROVE  ConfigInv'
<1>1. (Idle <=> Idle') /\ Allocated' = Allocated /\ Pending' = Pending
    BY DEF Idle, Allocated, Pending, Held
<1>2. Typed'
    BY <1>1 DEF ConfigInv, Typed
<1>3. Owned'
    BY <1>1 DEF ConfigInv, Owned, AtHome, Held
<1>4. EntryApart'
    BY <1>1 DEF ConfigInv, EntryApart, Current, Held
<1>5. PluginsLoaded'
    BY <1>1 DEF ConfigInv, PluginsLoaded, Callable
<1>6. BeforeKept'
    BY <1>1 DEF ConfigInv, BeforeKept, Held
<1>7. ActiveLive'
    BY DEF ConfigInv, ActiveLive
<1>8. StagedSoFar'
    BY <1>1 DEF ConfigInv, StagedSoFar, Stays, Done, Configured, Current, Held
<1> QED
    BY <1>2, <1>3, <1>4, <1>5, <1>6, <1>7, <1>8 DEF ConfigInv

LEMMA RegisterStep ==
    ASSUME ConfigInv, NEW d \in Devices, RegisterDevice(d) PROVE ConfigInv'
<1>1. CASE \E rc \in {"STATE", "NOMEM"} : Refuse("register", rc)
    BY <1>1, RefusedStep DEF Refuse
<1> DEFINE h == IF devices[d] = 0 THEN NewHandle ELSE devices[d]
<1>2. ASSUME Idle, IF devices[d] = 0 THEN MemoryLeft ELSE d \notin active,
             devices' = [devices EXCEPT ![d] = h],
             heap' = [heap EXCEPT ![h] = FreshEntry(d)],
             UNCHANGED <<plugins, paths, active, load>>
      PROVE  ConfigInv'
  <2>1. /\ Typed /\ AtHome(devices) /\ PluginsLoaded /\ ActiveLive
        /\ Allocated = Held(devices)
      BY <1>2, IdleOwns
  <2>2. h \in Handles /\ \A e \in Devices \ {d} : devices[e] # h
    <3>1. CASE devices[d] = 0
      <4>1. h \in Handles /\ h \notin Allocated
          BY <1>2, <2>1, <3>1, NewHandleIsFree DEF Typed
      <4> QED
          BY <2>1, <4>1, HeldInTable DEF Typed, Handles
    <3>2. CASE devices[d] # 0
        BY <2>1, <3>2 DEF Typed, Table, AtHome
    <3> QED
        BY <3>1, <3>2
  <2> HIDE DEF h
  <2>3. /\ heap' \in Heap /\ Allocated' = Allocated \cup {h}
        /\ heap'[h] = FreshEntry(d)
        /\ \A g \in Handles \ {h} : heap'[g] = heap[g]
      BY <1>2, <2>1, <2>2, FreshTyped, WrittenHeap DEF Typed
  <2>4. /\ devices' \in Table /\ devices'[d] = h
        /\ \A e \in Devices \ {d} : devices'[e] = devices[e]
      BY <1>2, <2>1, <2>2 DEF Typed, Table
  <2>5. h # 0
      BY <2>2 DEF Handles
  <2>6. Held(devices') = Held(devices) \cup {h}
    <3>1. devices[d] \in {0, h}
        BY NewHandleIsFree DEF h
    <3> QED
        BY <2>4, <2>5, <3>1 DEF Held
  <2>7. Typed' /\ ActiveLive'
      BY <1>2, <2>1, <2>3, <2>4, <2>5 DEF Typed, ActiveLive, Idle
  <2>8. AtHome(devices)'
      BY <2>1, <2>2, <2>3, <2>4, FreshTyped DEF AtHome, Typed, Table
  <2>9. PluginsLoaded'
      BY <1>2, <2>1, <2>2, FreshRuns, FreshTyped, WrittenRuns
  <2> QED
      BY <1>2, <2>1, <2>3, <2>6, <2>7, <2>8, <2>9, IdleStep
<1> QED
    BY <1>1, <1>2 DEF RegisterDevice

LEMMA UnregisterStep ==
    ASSUME ConfigInv, NEW d \in Devices, UnregisterDevice(d) PROVE ConfigInv'
<1>1. CASE \E rc \in {"STATE", "NOT_FOUND"} : Refuse("unregister", rc)
    BY <1>1, RefusedStep DEF Refuse
<1>2. ASSUME Idle, devices[d] # 0, d \notin active,
             devices' = [devices EXCEPT ![d] = 0],
             heap' = Freed({devices[d]}),
             UNCHANGED <<plugins, paths, active, load>>
      PROVE  ConfigInv'
  <2>1. /\ Typed /\ AtHome(devices) /\ PluginsLoaded /\ ActiveLive
        /\ Allocated = Held(devices)
      BY <1>2, IdleOwns
  <2>2. /\ heap' \in Heap /\ Allocated' = Allocated \ {devices[d]}
        /\ \A g \in Handles \ {devices[d]} : heap'[g] = heap[g]
      BY <1>2, <2>1, FreedHeap DEF Typed
  <2>3. /\ devices' \in Table /\ devices'[d] = 0
        /\ \A e \in Devices \ {d} : devices'[e] = devices[e]
      BY <1>2, <2>1 DEF Typed, Table
  <2>4. \A e \in Devices \ {d} : devices[e] # devices[d]
      BY <1>2, <2>1 DEF AtHome
  <2>5. Held(devices') = Held(devices) \ {devices[d]}
      BY <2>3, <2>4 DEF Held
  <2>6. Typed' /\ ActiveLive'
      BY <1>2, <2>1, <2>2, <2>3 DEF Typed, ActiveLive, Idle
  <2>7. AtHome(devices)'
      BY <2>1, <2>2, <2>3, <2>4 DEF AtHome, Typed, Table
  <2>8. PluginsLoaded'
      BY <1>2, <2>1, FreedRuns
  <2> QED
      BY <1>2, <2>1, <2>2, <2>5, <2>6, <2>7, <2>8, IdleStep
<1> QED
    BY <1>1, <1>2 DEF UnregisterDevice

LEMMA SetPluginStep ==
    ASSUME ConfigInv, NEW d \in Devices, NEW kind \in Kinds, NEW name \in Names,
           SetPlugin(d, kind, name)
    PROVE  ConfigInv'
<1> DEFINE found == FindOrLoad(kind, name, <<>>)
           e == WithPlugin(heap[devices[d]], kind, found.plugin)
<1>1. CASE \E rc \in {"STATE", "NOT_FOUND"} : Refuse("set_plugin", rc)
    BY <1>1, RefusedStep DEF Refuse
<1>2. ASSUME Idle, devices[d] # 0, Selectable(found),
             plugins' = plugins \cup found.loaded,
             heap' \in {heap, [heap EXCEPT ![devices[d]] = e]},
             UNCHANGED <<devices, paths, active, load>>
      PROVE  ConfigInv'
  <2>1. /\ Typed /\ AtHome(devices) /\ PluginsLoaded /\ ActiveLive
        /\ Allocated = Held(devices)
      BY <1>2, IdleOwns
  <2>2. FoundWell(kind, found)
    <3>1. <<>> \in Seq(Paths)
        OBVIOUS
    <3> QED
        BY <2>1, <3>1, FindOrLoadFinds
  <2> HIDE DEF found
  <2>3. /\ plugins \subseteq plugins' /\ plugins' \in SUBSET Plugins
        /\ found.plugin \in Names /\ found.plugin # NoName
        /\ <<kind, found.plugin>> \in plugins'
      BY <1>2, <2>1, <2>2 DEF FoundWell, Typed, Selectable
  <2>4. /\ devices[d] \in Handles /\ devices[d] \in Allocated
        /\ heap[devices[d]] \in DeviceConfig
      BY <1>2, <2>1, EntriesDiffer, HeldInTable DEF Typed, Table
  <2>5. e \in DeviceConfig /\ e.device = heap[devices[d]].device
      BY <2>3, <2>4, WithPluginTyped
  <2>6. RunsLoaded(e)
    <3>1. /\ e.plugin[kind] = found.plugin
          /\ \A j \in Kinds \ {kind} :
                e.plugin[j] = heap[devices[d]].plugin[j]
        BY <2>3, <2>4, WithPluginTyped
    <3> HIDE DEF e
    <3>2. \A j \in Kinds \ {kind} : Callable(devices[d], j)
        BY <2>1, <2>4 DEF PluginsLoaded
    <3>3. heap[devices[d]].plugin["estimator"] # NoName
        BY <2>1, <2>4 DEF PluginsLoaded
    <3> QED
        BY <2>3, <3>1, <3>2, <3>3 DEF RunsLoaded, Callable, Kinds
  <2> HIDE DEF e
  <2>7. CASE heap' = heap
    <3>1. Allocated' = Allocated
        BY <2>7 DEF Allocated
    <3>2. PluginsLoaded'
        BY <2>1, <2>3, <2>7, <3>1 DEF PluginsLoaded, Callable
    <3>3. Typed' /\ ActiveLive' /\ AtHome(devices)'
        BY <1>2, <2>1, <2>3, <2>7 DEF Typed, Idle, ActiveLive, AtHome
    <3> QED
        BY <1>2, <2>1, <3>1, <3>2, <3>3, IdleStep
  <2>8. CASE heap' = [heap EXCEPT ![devices[d]] = e]
    <3>0. /\ heap' \in Heap /\ Allocated' = Allocated \cup {devices[d]}
          /\ heap'[devices[d]] = e
          /\ \A g \in Handles \ {devices[d]} : heap'[g] = heap[g]
      <4>1. heap \in Heap
          BY <2>1 DEF Typed
      <4> QED
          BY <2>4, <2>5, <2>8, <4>1, WrittenHeap
    <3>1. /\ heap' \in Heap /\ Allocated' = Allocated
          /\ heap'[devices[d]] = e
          /\ \A g \in Handles \ {devices[d]} : heap'[g] = heap[g]
        BY <2>4, <3>0
    <3>2. PluginsLoaded'
        BY <2>1, <2>3, <2>4, <2>5, <2>6, <2>8, WrittenRuns
    <3>3. Typed' /\ ActiveLive'
        BY <1>2, <2>1, <2>3, <3>1 DEF Typed, Idle, ActiveLive
    <3>4. AtHome(devices)'
        BY <1>2, <2>1, <2>4, <2>5, <3>1 DEF AtHome, Typed, Table
    <3> QED
        BY <1>2, <2>1, <3>1, <3>2, <3>3, <3>4, IdleStep
  <2> QED
      BY <1>2, <2>7, <2>8
<1> HIDE DEF found
<1> QED
    BY <1>1, <1>2 DEF SetPlugin, found

(* Calls that leave every entry alone.                                     *)
LEMMA QuietStep ==
    ASSUME ConfigInv, Idle, UNCHANGED <<devices, heap, load>>,
           plugins \subseteq plugins', plugins' \in SUBSET Plugins,
           paths' \in SearchPaths, active' \in SUBSET Devices, ActiveLive'
    PROVE  ConfigInv'
<1>1. /\ Typed /\ AtHome(devices) /\ PluginsLoaded
      /\ Allocated = Held(devices)
    BY IdleOwns
<1>2. Allocated' = Held(devices')
    BY <1>1 DEF Allocated
<1>3. Typed' /\ AtHome(devices)' /\ PluginsLoaded'
    BY <1>1 DEF Typed, Idle, AtHome, PluginsLoaded, Callable, Allocated
<1> QED
    BY <1>2, <1>3, IdleStep

LEMMA LoadPluginStep ==
    ASSUME ConfigInv, NEW kind \in Kinds, NEW path, NEW name,
           LoadPlugin(kind, path, name)
    PROVE  ConfigInv'
<1> DEFINE desc == Descriptor(kind, path, name)
<1>1. CASE \E rc \in {"INVAL", "NOT_FOUND", "EXISTS", "NOMEM"} :
              Refuse("load_plugin", rc)
    BY <1>1, RefusedStep DEF Refuse
<1>2. ASSUME Idle, desc \in Names, plugins' = plugins \cup {<<kind, desc>>},
             UNCHANGED <<devices, heap, paths, active, load>>
      PROVE  ConfigInv'
  <2>1. plugins' \in SUBSET Plugins
      BY <1>2 DEF ConfigInv, Typed, Plugins
  <2>2. paths' \in SearchPaths /\ active' \in SUBSET Devices /\ ActiveLive'
      BY <1>2 DEF ConfigInv, Typed, ActiveLive
  <2> QED
      BY <1>2, <2>1, <2>2, QuietStep
<1> HIDE DEF desc
<1> QED
    BY <1>1, <1>2 DEF LoadPlugin, desc

LEMMA AddPathStep ==
    ASSUME ConfigInv, NEW kind \in Kinds, NEW path \in Paths,
           AddPath(kind, path)
    PROVE  ConfigInv'
<1>1. CASE Refuse("add_path", "NOMEM")
    BY <1>1, RefusedStep DEF Refuse
<1>2. ASSUME Idle, paths' = [paths EXCEPT ![kind] = Append(@, path)],
             UNCHANGED <<devices, heap, plugins, active, load>>
      PROVE  ConfigInv'
  <2>1. paths' \in SearchPaths
      BY <1>2 DEF ConfigInv, Typed, SearchPaths
  <2>2. /\ plugins' \in SUBSET Plugins /\ active' \in SUBSET Devices
        /\ ActiveLive'
      BY <1>2 DEF ConfigInv, Typed, ActiveLive
  <2> QED
      BY <1>2, <2>1, <2>2, QuietStep
<1> QED
    BY <1>1, <1>2 DEF AddPath

LEMMA OccupyStep ==
    ASSUME ConfigInv, NEW d \in Devices, Occupy(d) \/ Vacate(d)
    PROVE  ConfigInv'
<1>1. active' \in SUBSET Devices /\ ActiveLive'
    BY DEF ConfigInv, Typed, ActiveLive, Occupy, Vacate
<1>2. /\ Idle /\ UNCHANGED <<devices, heap, load>>
      /\ plugins' = plugins /\ paths' = paths
    BY DEF Occupy, Vacate
<1>3. plugins' \in SUBSET Plugins /\ paths' \in SearchPaths
    BY <1>2 DEF ConfigInv, Typed
<1> QED
    BY <1>1, <1>2, <1>3, QuietStep

-----------------------------------------------------------------------------
(* A load begins                                                           *)

LEMMA LoadIsNotIdle == ASSUME NEW l \in Load PROVE l # NoLoad
BY DEF Load, NoLoad, Phases, LivePhases, EntryPhases

LEMMA BeginStep ==
    ASSUME ConfigInv, Idle, NEW mode \in {"MERGE", "REPLACE"}, NEW c \in Configs,
           BeginLoad(mode, c)
    PROVE  ConfigInv'
<1> DEFINE staged == [d \in Devices |-> IF Stays(mode, d, c) THEN devices[d] ELSE 0]
           begun == [phase |-> "create", mode |-> mode, config |-> c, at |-> 1,
                     staged |-> staged, entry |-> 0, loaded |-> {},
                     rc |-> "OK", before |-> context]
           failed(rc) == [begun EXCEPT !.phase = "discard", !.rc = rc,
                                       !.staged = NoTable]
<1>1. /\ Typed /\ AtHome(devices) /\ PluginsLoaded /\ ActiveLive
      /\ Allocated = Held(devices)
    BY IdleOwns
<1>2. /\ UNCHANGED <<devices, heap, plugins, paths, active>>
      /\ Allocated' = Allocated
    BY DEF BeginLoad, Allocated
<1>3. staged \in Table /\ Held(staged) \in SUBSET Held(devices)
    BY <1>1 DEF Typed, Table, Held
<1>4. context \in Table \X Heap \X (SUBSET Plugins) \X SearchPaths
    BY <1>1 DEF context, Typed
<1>5. \/ load' = begun /\ ~DropsActive(mode, c)
      \/ load' = failed("STATE") \/ load' = failed("NOMEM")
    BY DEF BeginLoad
<1> DEFINE phase == load'.phase
           table == load'.staged
<1>6. /\ load' \in Load
      /\ load'.mode = mode /\ load'.config = c /\ load'.at = 1
      /\ load'.entry = 0 /\ load'.loaded = {} /\ load'.before = context
      /\ \/ phase = "create" /\ table = staged /\ ~DropsActive(mode, c)
         \/ phase = "discard" /\ table = NoTable
  <2>1. begun \in Load
      BY <1>3, <1>4 DEF Load, Phases, LivePhases, Codes
  <2>2. ASSUME NEW rc \in {"STATE", "NOMEM"}
        PROVE  /\ failed(rc) \in Load
               /\ failed(rc) = [begun EXCEPT !.phase = "discard", !.rc = rc,
                                             !.staged = NoTable]
      BY <2>1, HeldInTable, <1>3 DEF Load, Phases, Codes
  <2>3. /\ begun.mode = mode /\ begun.config = c /\ begun.at = 1
        /\ begun.entry = 0 /\ begun.loaded = {} /\ begun.before = context
        /\ begun.phase = "create" /\ begun.staged = staged
      OBVIOUS
  <2>4. CASE load' = begun /\ ~DropsActive(mode, c)
      BY <2>1, <2>3, <2>4
  <2>5. ASSUME NEW rc \in {"STATE", "NOMEM"}, load' = failed(rc)
        PROVE  /\ load' \in Load /\ load'.mode = mode /\ load'.config = c
               /\ load'.at = 1 /\ load'.entry = 0 /\ load'.loaded = {}
               /\ load'.before = context
               /\ phase = "discard" /\ table = NoTable
      BY <2>2, <2>5
  <2> HIDE DEF begun, failed, phase, table
  <2> QED
      BY <1>5, <2>4, <2>5 DEF phase, table
<1> HIDE DEF begun, failed
<1>7. ~Idle'
    BY <1>6, LoadIsNotIdle DEF Idle
<1>8. Typed'
    BY <1>1, <1>2, <1>6 DEF Typed
<1>9. \A d \in Devices : table[d] \in {0, devices[d]}
    BY <1>6 DEF NoTable
<1>10. Owned'
  <2>1. Held(table) \in SUBSET Held(devices) /\ Held(devices') = Held(devices)
      BY <1>2, <1>9 DEF Held
  <2>2. Pending' = Held(table)
      BY <1>6, <1>7 DEF Pending, Held
  <2>3. AtHome(load.staged)' /\ AtHome(devices)'
      BY <1>1, <1>2, <1>9 DEF AtHome
  <2> HIDE DEF table
  <2> QED
      BY <1>1, <1>2, <2>1, <2>2, <2>3 DEF Owned, Held
<1>11. EntryApart'
    BY <1>6 DEF EntryApart, EntryPhases, Held
<1>12. PluginsLoaded' /\ ActiveLive'
    BY <1>1, <1>2 DEF PluginsLoaded, Callable, ActiveLive
<1>13. BeforeKept'
  <2>1. /\ context[1] = devices /\ context[2] = heap /\ context[3] = plugins
        /\ context[4] = paths
      BY DEF context
  <2>2. heap = [h \in Handles |-> IF h \in Held(devices) THEN heap[h] ELSE NoEntry]
      BY <1>1 DEF Typed, Heap, Allocated
  <2>3. Held(devices)' = Held(devices)
      BY <1>2 DEF Held
  <2> QED
      BY <1>2, <1>6, <2>1, <2>2, <2>3 DEF BeforeKept
<1>14. StagedSoFar'
  <2>1. CASE phase = "create" /\ table = staged /\ ~DropsActive(mode, c)
    <3>1. \A i \in DOMAIN c.devices : ~(i < 1)
        BY ConfigsAssumption
    <3>2. \A d : ~Done(d)'
        BY <1>6, <3>1 DEF Done
    <3>3. \A d \in Devices : table[d] = IF Stays(mode, d, c) THEN devices[d] ELSE 0
        BY <2>1
    <3>4. \A d \in active' : load'.mode = "REPLACE" => d \in Configured(c)
        BY <1>1, <1>2, <1>6, <2>1 DEF DropsActive, ActiveLive
    <3> QED
        BY <1>2, <1>6, <2>1, <3>2, <3>3, <3>4
           DEF StagedSoFar, Stays, Configured, EntryPhases
  <2>2. CASE phase = "discard"
      BY <2>2 DEF StagedSoFar, LivePhases, EntryPhases
  <2> QED
      BY <1>6, <2>1, <2>2
<1> QED
    BY <1>8, <1>10, <1>11, <1>12, <1>13, <1>14 DEF ConfigInv

-----------------------------------------------------------------------------
(* A load goes on                                                          *)

(* While a load is under way its record is one, and its tables are too.    *)
LEMMA LoadTyped ==
    ASSUME ConfigInv, ~Idle
    PROVE  /\ Typed /\ load \in Load /\ load.staged \in Table
           /\ load.entry \in {0} \cup Handles /\ load.config \in Configs
           /\ load.at \in Nat \ {0} /\ load.loaded \in SUBSET Plugins
           /\ load.mode \in {"MERGE", "REPLACE"} /\ load.phase \in Phases
           /\ load.config.devices \in Seq(DeviceConfig)
           /\ devices \in Table /\ heap \in Heap
<1>1. Typed /\ load \in Load
    BY DEF ConfigInv, Typed
<1>2. load.config \in Configs
    BY <1>1 DEF Load
<1> QED
    BY <1>1, <1>2, ConfigsAssumption DEF Load, Typed

(* A table whose blocks stay keeps its entries at home.                    *)
LEMMA AtHomeStays ==
    ASSUME NEW t \in Table, AtHome(t), \A h \in Held(t) : heap'[h] = heap[h]
    PROVE  \A d \in Devices : t[d] # 0 => heap'[t[d]].device = d
BY HeldInTable DEF AtHome

\* The entry under construction, if any, is freed, and the load gives up.
GivesUp(rc, new) ==
    /\ load' = [load EXCEPT !.phase = "discard", !.rc = rc, !.entry = 0,
                            !.loaded = @ \cup new]
    /\ heap' = Freed({load.entry})
    /\ plugins' = plugins \cup new
    /\ UNCHANGED <<devices, paths, active>>

LEMMA GivesUpStep ==
    ASSUME ConfigInv, ~Idle, load.phase \in LivePhases, NEW rc \in Codes,
           NEW new \in SUBSET Plugins, new \cap plugins = {}, GivesUp(rc, new)
    PROVE  ConfigInv'
<1>1. /\ Typed /\ load \in Load /\ load.staged \in Table
      /\ load.entry \in {0} \cup Handles /\ load.loaded \in SUBSET Plugins
      /\ devices \in Table /\ heap \in Heap
    BY LoadTyped
<1> DEFINE n == load.entry
           loaded == load.loaded \cup new
<1>2. /\ load' \in Load /\ load'.phase = "discard" /\ load'.entry = 0
      /\ load'.staged = load.staged /\ load'.loaded = loaded
      /\ load'.before = load.before
  <2>1. loaded \in SUBSET Plugins
      BY <1>1
  <2>2. load' = [load EXCEPT !.phase = "discard", !.rc = rc, !.entry = 0,
                             !.loaded = loaded]
      BY DEF GivesUp
  <2> HIDE DEF loaded
  <2> QED
      BY <1>1, <2>1, <2>2 DEF Load, Phases
<1>3. ~Idle'
    BY <1>2, LoadIsNotIdle DEF Idle
<1>4. /\ heap' \in Heap /\ Allocated' = Allocated \ {n}
      /\ \A h \in Handles \ {n} : heap'[h] = heap[h]
    BY <1>1, FreedHeap DEF GivesUp
<1>5. /\ Allocated = Held(devices) \cup Held(load.staged) \cup ({n} \ {0})
      /\ n \notin Held(devices) \cup Held(load.staged)
      /\ AtHome(devices) /\ AtHome(load.staged)
    BY DEF ConfigInv, Owned, Pending, EntryApart
<1>6. Held(devices) \in SUBSET Handles /\ Held(load.staged) \in SUBSET Handles
    BY <1>1, HeldInTable
<1>7. /\ UNCHANGED <<devices, paths, active>> /\ plugins' = plugins \cup new
      /\ heap' = Freed({n})
    BY DEF GivesUp
<1>8. Typed'
    BY <1>1, <1>2, <1>4, <1>7 DEF Typed
<1>9. Owned'
  <2>1. Pending' = Held(load.staged)
      BY <1>2, <1>3 DEF Pending, Held
  <2>2. Held(devices)' = Held(devices)
      BY <1>7 DEF Held
  <2>3. Allocated' = Held(devices) \cup Held(load.staged)
      BY <1>4, <1>5
  <2>4. \A h \in Held(devices) \cup Held(load.staged) : heap'[h] = heap[h]
      BY <1>4, <1>5, <1>6
  <2>5. AtHome(devices)' /\ AtHome(load.staged)'
    <3>1. \A d \in Devices :
             /\ devices[d] # 0 => heap'[devices[d]].device = d
             /\ load.staged[d] # 0 => heap'[load.staged[d]].device = d
        BY <1>1, <1>5, <2>4, AtHomeStays
    <3> QED
        BY <1>2, <1>7, <3>1 DEF AtHome
  <2> QED
      BY <2>1, <2>2, <2>3, <2>5 DEF Owned
<1>10. EntryApart'
  <2>1. 0 \notin Held(devices)' \cup Held(load.staged)'
      BY DEF Held
  <2> QED
      BY <1>2, <2>1 DEF EntryApart, EntryPhases, Held
<1>11. PluginsLoaded'
    BY <1>1, <1>7, FreedRuns DEF ConfigInv
<1>12. BeforeKept'
  <2>1. Held(devices)' = Held(devices)
      BY <1>7 DEF Held
  <2>2. \A h \in Held(devices) : heap'[h] = heap[h]
      BY <1>4, <1>5, <1>6
  <2>3. \A h \in Held(devices), k \in Kinds :
            <<k, heap[h].plugin[k]>> \notin loaded
    <3> SUFFICES ASSUME NEW h \in Held(devices), NEW k \in Kinds
                 PROVE  <<k, heap[h].plugin[k]>> \notin loaded
        OBVIOUS
    <3>1. <<k, heap[h].plugin[k]>> \notin load.loaded
        BY DEF ConfigInv, BeforeKept
    <3>2. Callable(h, k)
        BY <1>5 DEF ConfigInv, PluginsLoaded
    <3>3. <<k, heap[h].plugin[k]>> \notin new
        BY <3>2, FilesAssumption DEF Callable, Plugins
    <3> QED
        BY <3>1, <3>3
  <2>4. /\ load.before[3] = plugins' \ loaded /\ loaded \subseteq plugins'
        /\ <<"estimator", BuiltIn>> \notin loaded
      BY <1>7 DEF ConfigInv, BeforeKept, PluginsLoaded
  <2>5. load.before[2]
          = [h \in Handles |-> IF h \in Held(devices) THEN heap'[h] ELSE NoEntry]
      BY <2>2 DEF ConfigInv, BeforeKept
  <2>6. load.before[1] = devices /\ load.before[4] = paths
      BY DEF ConfigInv, BeforeKept
  <2> HIDE DEF loaded
  <2> QED
      BY <1>2, <1>7, <2>1, <2>2, <2>3, <2>4, <2>5, <2>6 DEF BeforeKept
<1>13. ActiveLive' /\ StagedSoFar'
    BY <1>2, <1>7
       DEF ConfigInv, ActiveLive, StagedSoFar, LivePhases, EntryPhases
<1> QED
    BY <1>8, <1>9, <1>10, <1>11, <1>12, <1>13 DEF ConfigInv

LEMMA FailGivesUp ==
    ASSUME ~Idle, load \in Load, NEW rc, Fail(rc),
           UNCHANGED <<devices, plugins, paths, active>>
    PROVE  GivesUp(rc, {})
<1>1. load.loaded \cup {} = load.loaded /\ plugins \cup {} = plugins
    OBVIOUS
<1>2. [load EXCEPT !.phase = "discard", !.rc = rc, !.entry = 0]
        = [load EXCEPT !.phase = "discard", !.rc = rc, !.entry = 0,
                       !.loaded = load.loaded]
    BY DEF Load
<1> QED
    BY <1>1, <1>2 DEF Fail, GivesUp

LEMMA FailStep ==
    ASSUME ConfigInv, ~Idle, load.phase \in LivePhases, NEW rc \in Codes, Fail(rc),
           UNCHANGED <<devices, plugins, paths, active>>
    PROVE  ConfigInv'
BY LoadTyped, FailGivesUp, GivesUpStep

(* What the load has not touched stays so while live entries stay.         *)
LEMMA BeforeStays ==
    ASSUME ConfigInv, ~Idle, ~Idle', UNCHANGED <<devices, plugins, paths>>,
           load'.before = load.before, load'.loaded = load.loaded,
           \A h \in Held(devices) : heap'[h] = heap[h]
    PROVE  BeforeKept'
<1>1. Held(devices)' = Held(devices)
    BY DEF Held
<1>2. load.before[2]
        = [h \in Handles |-> IF h \in Held(devices) THEN heap'[h] ELSE NoEntry]
    BY DEF ConfigInv, BeforeKept
<1> QED
    BY <1>1, <1>2 DEF ConfigInv, BeforeKept

LEMMA CreateEntryStep == ASSUME ConfigInv, CreateEntry PROVE ConfigInv'
<1> DEFINE d == Current.device
           n == NewHandle
<1>1. ~Idle /\ load.phase = "create" /\ load.at <= Len(load.config.devices)
    BY DEF CreateEntry, Staging
<1>2. CASE Fail("STATE") \/ Fail("NOMEM")
    BY <1>1, <1>2, FailStep DEF CreateEntry, LivePhases, Codes
<1>3. ASSUME ~(devices[d] # 0 /\ d \in active), MemoryLeft,
             heap' = [heap EXCEPT ![n] = FreshEntry(d)],
             load' = [load EXCEPT !.phase = "estimator", !.entry = n],
             UNCHANGED <<devices, plugins, paths, active>>
      PROVE  ConfigInv'
  <2>1. /\ Typed /\ load \in Load /\ load.staged \in Table
        /\ load.at \in Nat \ {0} /\ load.config.devices \in Seq(DeviceConfig)
        /\ devices \in Table /\ heap \in Heap
      BY <1>1, LoadTyped
  <2>2. load.at \in DOMAIN load.config.devices /\ d \in Devices
    <3>1. load.at \in DOMAIN load.config.devices
        BY <1>1, <2>1
    <3>2. load.config.devices[load.at] \in DeviceConfig
        BY <2>1, <3>1
    <3> QED
        BY <3>1, <3>2 DEF Current, DeviceConfig
  <2>3. n \in Handles /\ n \notin Allocated /\ n # 0
      BY <1>3, <2>1, NewHandleIsFree DEF Handles
  <2> HIDE DEF n
  <2>4. /\ FreshEntry(d) \in DeviceConfig /\ FreshEntry(d).device = d
      BY <2>2, FreshTyped
  <2>5. /\ heap' \in Heap /\ Allocated' = Allocated \cup {n}
        /\ heap'[n] = FreshEntry(d)
        /\ \A h \in Handles \ {n} : heap'[h] = heap[h]
      BY <1>3, <2>1, <2>3, <2>4, WrittenHeap
  <2>6. /\ load' \in Load /\ load'.phase = "estimator" /\ load'.entry = n
        /\ load'.staged = load.staged /\ load'.loaded = load.loaded
        /\ load'.before = load.before /\ load'.config = load.config
        /\ load'.at = load.at /\ load'.mode = load.mode
      BY <1>3, <2>1, <2>3 DEF Load, Phases, LivePhases, EntryPhases
  <2>7. ~Idle'
      BY <2>6, LoadIsNotIdle DEF Idle
  <2>8. /\ Allocated = Held(devices) \cup Held(load.staged)
        /\ AtHome(devices) /\ AtHome(load.staged)
      BY <1>1 DEF ConfigInv, Owned, Pending, EntryApart, EntryPhases
  <2>9. \A h \in Held(devices) \cup Held(load.staged) : heap'[h] = heap[h]
      BY <2>1, <2>3, <2>5, <2>8, HeldInTable
  <2>10. Typed'
      BY <1>3, <2>1, <2>5, <2>6 DEF Typed
  <2>11. Owned'
    <3>1. Pending' = Held(load.staged) \cup {n}
        BY <2>3, <2>6, <2>7 DEF Pending, Held
    <3>2. Held(devices)' = Held(devices)
        BY <1>3 DEF Held
    <3>3. \A e \in Devices :
             /\ devices[e] # 0 => heap'[devices[e]].device = e
             /\ load.staged[e] # 0 => heap'[load.staged[e]].device = e
        BY <2>1, <2>8, <2>9, AtHomeStays
    <3>4. AtHome(devices)' /\ AtHome(load.staged)'
        BY <1>3, <2>6, <3>3 DEF AtHome
    <3> QED
        BY <2>5, <2>8, <3>1, <3>2, <3>4 DEF Owned
  <2>12. EntryApart'
    <3>1. Held(devices)' = Held(devices) /\ Held(load.staged)' = Held(load.staged)
        BY <1>3, <2>6 DEF Held
    <3>2. Current' = Current
        BY <2>6 DEF Current
    <3> QED
        BY <2>2, <2>3, <2>4, <2>5, <2>6, <2>8, <3>1, <3>2
           DEF EntryApart, EntryPhases
  <2>13. PluginsLoaded'
      BY <1>3, <2>1, <2>2, <2>3, <2>4, FreshRuns, WrittenRuns DEF ConfigInv
  <2>14. BeforeKept'
      BY <1>1, <1>3, <2>6, <2>7, <2>9, BeforeStays
  <2>15. ActiveLive'
      BY <1>3 DEF ConfigInv, ActiveLive
  <2>16. StagedSoFar'
    <3>1. Held(devices)' = Held(devices) /\ Current' = Current
        BY <1>3, <2>6 DEF Held, Current
    <3>2. \A e : Done(e)' <=> Done(e)
        BY <2>6 DEF Done
    <3>3. \A e \in active : e # d
        BY <1>3 DEF ConfigInv, ActiveLive
    <3> QED
        BY <1>1, <1>3, <2>6, <3>1, <3>2, <3>3
           DEF ConfigInv, StagedSoFar, LivePhases, EntryPhases, Stays, Configured
  <2> QED
      BY <2>10, <2>11, <2>12, <2>13, <2>14, <2>15, <2>16 DEF ConfigInv
<1> HIDE DEF n
<1> QED
    BY <1>2, <1>3 DEF CreateEntry, n

\* The entry under construction becomes e, and the load goes on to `phase'.
Advances(phase, e, new) ==
    /\ heap' = [heap EXCEPT ![load.entry] = e]
    /\ load' = [load EXCEPT !.phase = phase, !.loaded = @ \cup new]
    /\ plugins' = plugins \cup new
    /\ UNCHANGED <<devices, paths, active>>

(* Plugins that are new are not those of live entries.                     *)
LEMMA NewIsApart ==
    ASSUME ConfigInv, ~Idle, NEW new \in SUBSET Plugins, new \cap plugins = {}
    PROVE  /\ \A h \in Held(devices), k \in Kinds :
                  <<k, heap[h].plugin[k]>> \notin load.loaded \cup new
           /\ load.before[3] = (plugins \cup new) \ (load.loaded \cup new)
           /\ load.loaded \cup new \subseteq plugins \cup new
           /\ <<"estimator", BuiltIn>> \notin load.loaded \cup new
<1>1. ASSUME NEW h \in Held(devices), NEW k \in Kinds
      PROVE  <<k, heap[h].plugin[k]>> \notin load.loaded \cup new
  <2>1. <<k, heap[h].plugin[k]>> \notin load.loaded
      BY DEF ConfigInv, BeforeKept
  <2>2. Callable(h, k)
      BY DEF ConfigInv, PluginsLoaded, Owned
  <2>3. <<k, heap[h].plugin[k]>> \notin new
      BY <2>2, FilesAssumption DEF Callable, Plugins
  <2> QED
      BY <2>1, <2>3
<1>2. /\ load.before[3] = (plugins \cup new) \ (load.loaded \cup new)
      /\ load.loaded \cup new \subseteq plugins \cup new
      /\ <<"estimator", BuiltIn>> \notin load.loaded \cup new
    BY DEF ConfigInv, BeforeKept, PluginsLoaded
<1> QED
    BY <1>1, <1>2

LEMMA AdvancesStep ==
    ASSUME ConfigInv, ~Idle, load.phase \in EntryPhases,
           NEW phase \in EntryPhases, NEW e \in DeviceConfig,
           e.device = heap[load.entry].device, RunsLoaded(e),
           NEW new \in SUBSET Plugins, new \cap plugins = {},
           Advances(phase, e, new)
    PROVE  ConfigInv'
<1> DEFINE n == load.entry
           loaded == load.loaded \cup new
<1>1. /\ Typed /\ load \in Load /\ load.staged \in Table
      /\ load.loaded \in SUBSET Plugins
      /\ devices \in Table /\ heap \in Heap
    BY LoadTyped
<1>2. n \in Handles /\ n # 0
    BY LoadTyped DEF ConfigInv, EntryApart
<1>3. /\ heap' \in Heap /\ Allocated' = Allocated \cup {n}
      /\ heap'[n] = e
      /\ \A h \in Handles \ {n} : heap'[h] = heap[h]
    BY <1>1, <1>2, WrittenHeap DEF Advances
<1>4. /\ load' \in Load /\ load'.phase = phase /\ load'.entry = n
      /\ load'.staged = load.staged /\ load'.loaded = loaded
      /\ load'.before = load.before /\ load'.config = load.config
      /\ load'.at = load.at /\ load'.mode = load.mode
  <2>1. loaded \in SUBSET Plugins
      BY <1>1
  <2>2. load' = [load EXCEPT !.phase = phase, !.loaded = loaded]
      BY DEF Advances
  <2> HIDE DEF loaded
  <2> QED
      BY <1>1, <2>1, <2>2 DEF Load, Phases, LivePhases
<1>5. ~Idle'
    BY <1>4, LoadIsNotIdle DEF Idle
<1>6. /\ Allocated = Held(devices) \cup Held(load.staged) \cup {n}
      /\ n \notin Held(devices) \cup Held(load.staged)
      /\ AtHome(devices) /\ AtHome(load.staged)
    BY <1>2 DEF ConfigInv, Owned, Pending, EntryApart
<1>7. \A h \in Held(devices) \cup Held(load.staged) : heap'[h] = heap[h]
    BY <1>1, <1>3, <1>6, HeldInTable
<1>8. /\ UNCHANGED <<devices, paths, active>>
      /\ plugins' = plugins \cup new
    BY DEF Advances
<1>9. /\ Held(devices)' = Held(devices) /\ Held(load.staged)' = Held(load.staged)
      /\ Current' = Current /\ \A d : Done(d)' <=> Done(d)
    BY <1>4, <1>8 DEF Held, Current, Done
<1>10. Typed'
    BY <1>1, <1>3, <1>4, <1>8 DEF Typed
<1>11. Owned'
  <2>1. Pending' = Held(load.staged) \cup {n}
      BY <1>2, <1>4, <1>5 DEF Pending, Held
  <2>2. \A d \in Devices :
           /\ devices[d] # 0 => heap'[devices[d]].device = d
           /\ load.staged[d] # 0 => heap'[load.staged[d]].device = d
      BY <1>1, <1>6, <1>7, AtHomeStays
  <2>3. AtHome(devices)' /\ AtHome(load.staged)'
      BY <1>4, <1>8, <2>2 DEF AtHome
  <2> QED
      BY <1>3, <1>6, <1>9, <2>1, <2>3 DEF Owned
<1>12. EntryApart'
  <2>1. load.at \in DOMAIN load.config.devices /\ e.device = Current.device
      BY DEF ConfigInv, EntryApart
  <2> QED
      BY <1>2, <1>3, <1>4, <1>6, <1>9, <2>1
         DEF EntryApart, EntryPhases
<1>13. PluginsLoaded'
    BY <1>1, <1>2, <1>8, WrittenRuns DEF ConfigInv, Advances
<1>14. BeforeKept'
  <2>1. load.before[2]
          = [h \in Handles |-> IF h \in Held(devices) THEN heap'[h] ELSE NoEntry]
      BY <1>7 DEF ConfigInv, BeforeKept
  <2>2. load.before[1] = devices /\ load.before[4] = paths
      BY DEF ConfigInv, BeforeKept
  <2>3. /\ \A h \in Held(devices), k \in Kinds :
              <<k, heap'[h].plugin[k]>> \notin loaded
        /\ load.before[3] = plugins' \ loaded /\ loaded \subseteq plugins'
        /\ <<"estimator", BuiltIn>> \notin loaded
      BY <1>7, <1>8, NewIsApart
  <2> HIDE DEF loaded
  <2> QED
      BY <1>4, <1>8, <1>9, <2>1, <2>2, <2>3 DEF BeforeKept
<1>15. ActiveLive'
    BY <1>8 DEF ConfigInv, ActiveLive
<1>16. StagedSoFar'
    BY <1>4, <1>8, <1>9
       DEF ConfigInv, StagedSoFar, LivePhases, EntryPhases, Stays, Configured
<1> QED
    BY <1>10, <1>11, <1>12, <1>13, <1>14, <1>15, <1>16 DEF ConfigInv

LEMMA SelectPluginStep ==
    ASSUME ConfigInv, NEW kind \in Kinds, SelectPlugin(kind) PROVE ConfigInv'
<1> DEFINE name == Current.plugin[kind]
           found == FindOrLoad(kind, name, load.config.paths[kind])
           n == load.entry
<1>1. /\ ~Idle /\ load.phase = kind /\ load.phase \in EntryPhases
      /\ load.phase \in LivePhases /\ After(kind) \in EntryPhases
    BY DEF SelectPlugin, Staging, Kinds, EntryPhases, LivePhases, After
<1>2. /\ Typed /\ load \in Load /\ heap \in Heap /\ devices \in Table
      /\ load.config \in Configs /\ load.config.devices \in Seq(DeviceConfig)
    BY <1>1, LoadTyped
<1>3. /\ n \in Handles /\ n # 0 /\ n \in Allocated
      /\ load.at \in DOMAIN load.config.devices
    BY <1>1, LoadTyped DEF ConfigInv, EntryApart, Owned, Pending
<1>4. heap[n] \in DeviceConfig /\ PluginsLoaded
    BY <1>2, <1>3, EntriesDiffer DEF ConfigInv
<1>5. CASE NoSelection(kind) /\ UNCHANGED <<devices, paths, active, out>>
  <2>1. RunsLoaded(heap[n])
      BY <1>3, <1>4, <1>5 DEF NoSelection, RunsLoaded, PluginsLoaded, Callable
  <2>2. Advances(After(kind), heap[n], {})
    <3>1. heap = [heap EXCEPT ![n] = heap[n]]
        BY <1>2 DEF Heap
    <3>2. load.loaded \cup {} = load.loaded /\ plugins \cup {} = plugins
        OBVIOUS
    <3>3. [load EXCEPT !.phase = After(kind)]
            = [load EXCEPT !.phase = After(kind), !.loaded = load.loaded]
        BY <1>2 DEF Load
    <3> QED
        BY <1>5, <3>1, <3>2, <3>3 DEF NoSelection, Advances
  <2> QED
      BY <1>1, <1>4, <2>1, <2>2, AdvancesStep
<1>6. CASE \E rc \in Codes :
              Fail(rc) /\ UNCHANGED <<devices, plugins, paths, active>>
    BY <1>1, <1>6, FailStep
<1>7. CASE name # NoName
  <2>1. name \in Names
    <3>1. Current \in DeviceConfig
        BY <1>2, <1>3 DEF Current
    <3> QED
        BY <1>7, <3>1 DEF DeviceConfig
  <2>2. load.config.paths[kind] \in Seq(Paths)
      BY <1>2, ConfigsAssumption
  <2>3. FoundWell(kind, found)
      BY <1>2, <2>1, <2>2, FindOrLoadFinds
  <2> HIDE DEF found
  <2>4. found.loaded \in SUBSET Plugins /\ found.loaded \cap plugins = {}
      BY <2>3 DEF FoundWell
  <2>5. ASSUME NEW rc \in Codes, GivesUp(rc, found.loaded) PROVE ConfigInv'
      BY <1>1, <2>4, <2>5, GivesUpStep
  <2>6. ASSUME Selectable(found),
               Advances(After(kind), WithPlugin(heap[n], kind, found.plugin),
                        found.loaded)
        PROVE  ConfigInv'
    <3> DEFINE e == WithPlugin(heap[n], kind, found.plugin)
    <3>1. /\ found.plugin \in Names /\ found.plugin # NoName
          /\ <<kind, found.plugin>> \in plugins'
        BY <2>3, <2>6 DEF FoundWell, Selectable, Advances
    <3>2. /\ e \in DeviceConfig /\ e.device = heap[n].device
          /\ e.plugin[kind] = found.plugin
          /\ \A j \in Kinds \ {kind} : e.plugin[j] = heap[n].plugin[j]
        BY <1>4, <3>1, WithPluginTyped
    <3> HIDE DEF e
    <3>3. \A j \in Kinds : Callable(n, j)
        BY <1>3, <1>4 DEF PluginsLoaded
    <3>4. heap[n].plugin["estimator"] # NoName
        BY <1>3, <1>4 DEF PluginsLoaded
    <3>5. plugins \subseteq plugins'
        BY <2>6 DEF Advances
    <3>6. RunsLoaded(e)
        BY <3>1, <3>2, <3>3, <3>4, <3>5 DEF RunsLoaded, Callable, Kinds
    <3> QED
        BY <1>1, <2>4, <2>6, <3>2, <3>6, AdvancesStep DEF e
  <2>7. ASSUME Selection(kind), UNCHANGED <<devices, paths, active, out>>
        PROVE  \/ \E rc \in Codes :
                     Fail(rc) /\ UNCHANGED <<devices, plugins, paths, active>>
               \/ \E rc \in Codes : GivesUp(rc, found.loaded)
               \/ /\ Selectable(found)
                  /\ Advances(After(kind), WithPlugin(heap[n], kind, found.plugin),
                              found.loaded)
    <3> DEFINE code == IF found.rc = "OK" THEN "INVAL" ELSE found.rc
    <3>1. code \in Codes /\ "NOMEM" \in Codes
        BY <2>3 DEF FoundWell, Codes
    <3> HIDE DEF code
    <3>2. \/ Fail(code) /\ UNCHANGED plugins
          \/ Fail("NOMEM") /\ UNCHANGED plugins
          \/ /\ Selectable(found)
             /\ plugins' = plugins \cup found.loaded
             /\ \E rc \in InitCodes :
                  IF rc = "OK"
                  THEN /\ heap' = [heap EXCEPT ![n] =
                                      WithPlugin(heap[n], kind, found.plugin)]
                       /\ load' = [load EXCEPT !.phase = After(kind),
                                               !.loaded = @ \cup found.loaded]
                  ELSE /\ heap' = Freed({n})
                       /\ load' = [load EXCEPT
                                      !.phase = "discard", !.rc = rc, !.entry = 0,
                                      !.loaded = @ \cup found.loaded]
        BY <1>2, <2>7 DEF Selection, found, code, Heap
    <3> QED
        BY <2>7, <3>1, <3>2 DEF GivesUp, Advances, InitCodes, Codes
  <2> QED
      BY <1>5, <1>6, <2>5, <2>6, <2>7 DEF SelectPlugin
<1> QED
    BY <1>5, <1>7 DEF SelectPlugin, Selection

LEMMA InsertEntryStep == ASSUME ConfigInv, InsertEntry PROVE ConfigInv'
<1> DEFINE d == Current.device
           n == load.entry
<1>1. ~Idle /\ load.phase = "insert" /\ load.phase \in EntryPhases
      /\ load.phase \in LivePhases
    BY DEF InsertEntry, Staging, EntryPhases, LivePhases
<1>2. CASE Fail("NOMEM")
    BY <1>1, <1>2, FailStep DEF InsertEntry, Codes
<1>3. ASSUME load' = [load EXCEPT !.phase = "create", !.at = @ + 1, !.entry = 0,
                                  !.staged[d] = n],
             UNCHANGED <<devices, heap, plugins, paths, active>>
      PROVE  ConfigInv'
  <2>1. /\ Typed /\ load \in Load /\ load.staged \in Table
        /\ load.at \in Nat \ {0} /\ load.config.devices \in Seq(DeviceConfig)
        /\ load.config \in Configs /\ devices \in Table /\ heap \in Heap
      BY <1>1, LoadTyped
  <2>2. /\ n \in Handles /\ n # 0 /\ heap[n].device = d
        /\ n \notin Held(devices) \cup Held(load.staged)
        /\ load.at \in DOMAIN load.config.devices
      BY <1>1, LoadTyped DEF ConfigInv, EntryApart
  <2>3. d \in Devices /\ d \in Configured(load.config)
    <3>1. Current \in DeviceConfig
        BY <2>1, <2>2 DEF Current
    <3> QED
        BY <2>2, <3>1 DEF DeviceConfig, Configured, Current
  <2>4. load.staged[d] = 0
    <3>1. ~Done(d)
        BY <2>1, <2>2, ConfigsAssumption DEF Done, Current
    <3>2. ~Stays(load.mode, d, load.config)
        BY <2>3 DEF Stays
    <3> QED
        BY <1>1, <2>3, <3>1, <3>2 DEF ConfigInv, StagedSoFar
  <2> HIDE DEF n, d
  <2> DEFINE table == [load.staged EXCEPT ![d] = n]
  <2>5. /\ table \in Table /\ table[d] = n
        /\ \A e \in Devices \ {d} : table[e] = load.staged[e]
      BY <2>1, <2>2, <2>3 DEF Table
  <2>6. /\ load' \in Load /\ load'.phase = "create" /\ load'.entry = 0
        /\ load'.staged = table /\ load'.loaded = load.loaded
        /\ load'.before = load.before /\ load'.config = load.config
        /\ load'.at = load.at + 1 /\ load'.mode = load.mode
    <3>1. load' = [load EXCEPT !.phase = "create", !.at = load.at + 1, !.entry = 0,
                               !.staged = table]
        BY <1>3, <2>1 DEF Load
    <3>2. load.at + 1 \in Nat \ {0}
        BY <2>1
    <3> HIDE DEF table
    <3> QED
        BY <2>1, <2>5, <3>1, <3>2 DEF Load, Phases, LivePhases
  <2> HIDE DEF table
  <2>7. ~Idle'
      BY <2>6, LoadIsNotIdle DEF Idle
  <2>8. /\ Allocated = Held(devices) \cup Held(load.staged) \cup {n}
        /\ AtHome(devices) /\ AtHome(load.staged)
      BY <1>1, <2>2 DEF ConfigInv, Owned, Pending, n
  <2>9. Held(table) = Held(load.staged) \cup {n}
    <3>1. \A e \in Devices : table[e] # 0 => table[e] \in Held(load.staged) \cup {n}
        BY <2>5 DEF Held
    <3>2. \A e \in Devices : load.staged[e] # 0 => table[e] = load.staged[e]
        BY <2>4, <2>5
    <3>3. n \in Held(table)
        BY <2>2, <2>3, <2>5 DEF Held
    <3> QED
        BY <3>1, <3>2, <3>3 DEF Held
  <2>10. /\ Held(devices)' = Held(devices) /\ Held(load.staged)' = Held(table)
         /\ Allocated' = Allocated
      BY <1>3, <2>6 DEF Held, Allocated
  <2>11. Typed'
      BY <1>3, <2>1, <2>6 DEF Typed
  <2>12. Owned'
    <3>1. Pending' = Held(table)
        BY <2>6, <2>7, <2>10 DEF Pending
    <3>2. AtHome(devices)' /\ AtHome(load.staged)'
        BY <1>3, <2>2, <2>5, <2>6, <2>8 DEF AtHome
    <3> QED
        BY <2>8, <2>9, <2>10, <3>1, <3>2 DEF Owned
  <2>13. EntryApart'
      BY <2>6 DEF EntryApart, EntryPhases, Held
  <2>14. PluginsLoaded'
      BY <1>3, <2>10 DEF ConfigInv, PluginsLoaded, Callable
  <2>15. BeforeKept'
      BY <1>1, <1>3, <2>6, <2>7, BeforeStays
  <2>16. ActiveLive'
      BY <1>3 DEF ConfigInv, ActiveLive
  <2>17. StagedSoFar'
    <3>1. \A e : Done(e)' <=> Done(e) \/ e = d
      <4>1. \A i \in DOMAIN load.config.devices :
               i < load.at + 1 <=> i < load.at \/ i = load.at
          BY <2>1
      <4>2. load.config.devices[load.at].device = d
          BY DEF d, Current
      <4> QED
          BY <2>2, <2>6, <4>1, <4>2 DEF Done
    <3>2. ~Stays(load.mode, d, load.config)
        BY <2>3 DEF Stays
    <3>3. \A e : Stays(load.mode, e, load.config)'
                   <=> Stays(load.mode, e, load.config)
        BY <2>6 DEF Stays, Configured
    <3>4. \A e \in Devices :
             IF Stays(load.mode, e, load.config)
             THEN table[e] = devices[e]
             ELSE IF Done(e) \/ e = d
             THEN table[e] \in Handles \ Held(devices)
             ELSE table[e] = 0
        BY <1>1, <2>2, <2>5, <3>2 DEF ConfigInv, StagedSoFar
    <3>5. \A e \in active : ~Done(e) /\ e # d
                            /\ (load.mode = "REPLACE" => e \in Configured(load.config))
        BY <1>1 DEF ConfigInv, StagedSoFar, d
    <3> QED
        BY <1>3, <2>6, <2>10, <3>1, <3>3, <3>4, <3>5
           DEF StagedSoFar, EntryPhases
  <2> QED
      BY <2>11, <2>12, <2>13, <2>14, <2>15, <2>16, <2>17 DEF ConfigInv
<1> QED
    BY <1>2, <1>3 DEF InsertEntry

-----------------------------------------------------------------------------
(* A load ends                                                             *)

LEMMA DiscardStep == ASSUME ConfigInv, Discard PROVE ConfigInv'
<1>1. /\ ~Idle /\ load.phase = "discard" /\ load.phase \notin EntryPhases
      /\ heap' = Freed(StagedOnly)
      /\ load' = [load EXCEPT !.phase = "rollback", !.staged = NoTable]
      /\ UNCHANGED <<devices, plugins, paths, active>>
    BY DEF Discard, Staging, EntryPhases
<1>2. /\ Typed /\ load \in Load /\ load.staged \in Table
      /\ devices \in Table /\ heap \in Heap
    BY <1>1, LoadTyped
<1>3. /\ Allocated = Held(devices) \cup Held(load.staged) /\ load.entry = 0
      /\ AtHome(devices)
    BY <1>1 DEF ConfigInv, Owned, Pending, EntryApart
<1>4. /\ load' \in Load /\ load'.phase = "rollback" /\ load'.entry = 0
      /\ load'.staged = NoTable /\ load'.loaded = load.loaded
      /\ load'.before = load.before
    BY <1>1, <1>2, <1>3, HeldInTable DEF Load, Phases
<1>5. ~Idle'
    BY <1>4, LoadIsNotIdle DEF Idle
<1>6. /\ heap' \in Heap /\ Allocated' = Allocated \ StagedOnly
      /\ \A h \in Handles \ StagedOnly : heap'[h] = heap[h]
    BY <1>1, <1>2, FreedHeap
<1>7. Allocated' = Held(devices) /\ Held(devices)' = Held(devices)
    BY <1>1, <1>3, <1>6 DEF StagedOnly, Held
<1>8. \A h \in Held(devices) : heap'[h] = heap[h]
    BY <1>2, <1>6, HeldInTable DEF StagedOnly
<1>9. Typed'
    BY <1>1, <1>2, <1>4, <1>6 DEF Typed
<1>10. Owned'
  <2>1. Pending' = {}
      BY <1>4, <1>5 DEF Pending, Held, NoTable
  <2>2. AtHome(load.staged)'
      BY <1>4 DEF AtHome, NoTable
  <2>3. AtHome(devices)'
    <3>1. \A d \in Devices : devices[d] # 0 => heap'[devices[d]].device = d
        BY <1>2, <1>3, <1>8, AtHomeStays
    <3> QED
        BY <1>1, <3>1 DEF AtHome
  <2> QED
      BY <1>7, <2>1, <2>2, <2>3 DEF Owned
<1>11. EntryApart'
    BY <1>4 DEF EntryApart, EntryPhases, Held
<1>12. PluginsLoaded'
    BY <1>1, <1>2, FreedRuns DEF ConfigInv
<1>13. BeforeKept'
    BY <1>1, <1>4, <1>5, <1>8, BeforeStays
<1>14. ActiveLive' /\ StagedSoFar'
    BY <1>1, <1>4
       DEF ConfigInv, ActiveLive, StagedSoFar, LivePhases, EntryPhases
<1> QED
    BY <1>9, <1>10, <1>11, <1>12, <1>13, <1>14 DEF ConfigInv

(* The rollback unloads no plugin that a live entry uses.                  *)
LEMMA RollbackStep ==
    ASSUME ConfigInv, Rollback
    PROVE  /\ ConfigInv'
           /\ context' = load.before
<1>1. /\ ~Idle /\ load.phase = "rollback" /\ load.phase \notin EntryPhases
      /\ plugins' = plugins \ load.loaded /\ load' = NoLoad
      /\ UNCHANGED <<devices, heap, paths, active>>
    BY DEF Rollback, Staging, EntryPhases, Remaining
<1>2. Typed /\ load \in Load
    BY <1>1, LoadTyped
<1>3. Allocated = Held(devices) /\ AtHome(devices) /\ ActiveLive
    BY <1>1 DEF ConfigInv, Owned, Pending, EntryApart, Held, NoTable
<1>4. Allocated' = Held(devices') /\ Allocated' = Allocated
    BY <1>1, <1>3 DEF Allocated
<1>5. Typed' /\ ActiveLive' /\ AtHome(devices)' /\ Idle'
    BY <1>1, <1>2, <1>3 DEF Typed, ActiveLive, AtHome, Idle
<1>6. PluginsLoaded'
  <2>1. /\ \A h \in Held(devices), k \in Kinds :
               <<k, heap[h].plugin[k]>> \notin load.loaded
        /\ <<"estimator", BuiltIn>> \notin load.loaded
      BY <1>1 DEF ConfigInv, BeforeKept
  <2> QED
      BY <1>1, <1>3, <1>4, <2>1 DEF ConfigInv, PluginsLoaded, Callable
<1>7. context' = load.before
  <2>1. heap = [h \in Handles |-> IF h \in Held(devices) THEN heap[h] ELSE NoEntry]
      BY <1>2, <1>3 DEF Typed, Heap, Allocated
  <2>2. /\ load.before[1] = devices /\ load.before[4] = paths
        /\ load.before[3] = plugins' /\ load.before[2] = heap
      BY <1>1, <2>1 DEF ConfigInv, BeforeKept
  <2>3. load.before = <<load.before[1], load.before[2],
                        load.before[3], load.before[4]>>
      BY <1>2 DEF Load
  <2> QED
      BY <1>1, <2>2, <2>3 DEF context
<1> QED
    BY <1>4, <1>5, <1>6, <1>7, IdleAfter

LEMMA NewPathsTyped ==
    ASSUME Typed, NEW mode, NEW c \in Configs
    PROVE  NewPaths(mode, c) \in SearchPaths
<1>1. \A k \in Kinds : paths[k] \in Seq(Paths) /\ c.paths[k] \in Seq(Paths)
    BY ConfigsAssumption DEF Typed, SearchPaths
<1>2. \A k \in Kinds :
         (IF mode = "MERGE" THEN paths[k] ELSE <<>>) \o c.paths[k] \in Seq(Paths)
    BY <1>1
<1> QED
    BY <1>2 DEF NewPaths, SearchPaths

(* The staged table takes over: the entries that nobody holds are freed.   *)
LEMMA SwapStep ==
    ASSUME ConfigInv, ~Idle, load.phase = "create",
           load.at > Len(load.config.devices),
           devices' = load.staged, heap' = Freed(Replaced(load.staged)),
           paths' = NewPaths(load.mode, load.config), load' = NoLoad,
           UNCHANGED <<plugins, active>>
    PROVE  /\ ConfigInv'
           /\ \A d \in Devices :
                 IF d \in Configured(load.config)
                 THEN devices'[d] \in Handles \ Held(devices)
                 ELSE IF load.mode = "REPLACE" THEN devices'[d] = 0
                 ELSE /\ devices'[d] = devices[d]
                      /\ devices[d] # 0 => heap'[devices[d]] = heap[devices[d]]
           /\ \A d \in active :
                 devices'[d] = devices[d] /\ heap'[devices[d]] = heap[devices[d]]
<1>1. /\ Typed /\ load \in Load /\ load.staged \in Table
      /\ load.config \in Configs /\ load.config.devices \in Seq(DeviceConfig)
      /\ load.at \in Nat \ {0} /\ devices \in Table /\ heap \in Heap
      /\ load.mode \in {"MERGE", "REPLACE"}
    BY LoadTyped
<1>2. /\ Allocated = Held(devices) \cup Held(load.staged)
      /\ AtHome(load.staged) /\ ActiveLive
    BY DEF ConfigInv, Owned, Pending, EntryApart, EntryPhases
<1>3. /\ heap' \in Heap /\ Allocated' = Allocated \ Replaced(load.staged)
      /\ \A h \in Handles \ Replaced(load.staged) : heap'[h] = heap[h]
    BY <1>1, FreedHeap
<1>4. Allocated' = Held(devices')
    BY <1>2, <1>3 DEF Replaced
<1>5. \A h \in Held(load.staged) : heap'[h] = heap[h]
    BY <1>1, <1>3, HeldInTable DEF Replaced
<1>6. AtHome(devices)'
  <2>1. \A d \in Devices : load.staged[d] # 0 => heap'[load.staged[d]].device = d
      BY <1>1, <1>2, <1>5, AtHomeStays
  <2> QED
      BY <2>1 DEF AtHome
<1>7. \A d : Done(d) <=> d \in Configured(load.config)
  <2>1. \A i \in DOMAIN load.config.devices : i < load.at
      BY <1>1
  <2> QED
      BY <2>1 DEF Done, Configured
<1>8. \A d \in Devices :
         IF Stays(load.mode, d, load.config) THEN load.staged[d] = devices[d]
         ELSE IF d \in Configured(load.config)
         THEN load.staged[d] \in Handles \ Held(devices)
         ELSE load.staged[d] = 0
    BY <1>7 DEF ConfigInv, StagedSoFar, LivePhases
<1>9. \A d \in active :
         /\ d \in Devices /\ devices[d] # 0
         /\ load.mode = "MERGE" /\ d \notin Configured(load.config)
    BY <1>1, <1>2, <1>7 DEF ConfigInv, StagedSoFar, LivePhases, Typed, ActiveLive
<1>10. \A d \in Devices :
          load.staged[d] # 0 => heap'[load.staged[d]] = heap[load.staged[d]]
    BY <1>1, <1>5, HeldInTable
<1>11. \A d \in active : load.staged[d] = devices[d] /\ devices[d] # 0
    BY <1>8, <1>9 DEF Stays
<1>12. ActiveLive' /\ Idle'
    BY <1>11 DEF ActiveLive, Idle
<1>13. Typed'
    BY <1>1, <1>3, <1>12, NewPathsTyped DEF Typed
<1>14. PluginsLoaded'
    BY <1>1, FreedRuns DEF ConfigInv
<1>15. ConfigInv'
    BY <1>4, <1>6, <1>12, <1>13, <1>14, IdleAfter
<1>16. \A d \in Devices :
          IF d \in Configured(load.config)
          THEN devices'[d] \in Handles \ Held(devices)
          ELSE IF load.mode = "REPLACE" THEN devices'[d] = 0
          ELSE /\ devices'[d] = devices[d]
               /\ devices[d] # 0 => heap'[devices[d]] = heap[devices[d]]
    BY <1>1, <1>8, <1>10 DEF Stays
<1>17. \A d \in active :
          devices'[d] = devices[d] /\ heap'[devices[d]] = heap[devices[d]]
    BY <1>9, <1>10, <1>11
<1> QED
    BY <1>15, <1>16, <1>17

(* Publish swaps the tables, or gives up.                                  *)
LEMMA PublishCases ==
    ASSUME ConfigInv, Publish
    PROVE  /\ ~Idle /\ load.phase = "create"
           /\ \/ /\ Fail("NOMEM")
                 /\ UNCHANGED <<devices, plugins, paths, active, out>>
              \/ /\ load.at > Len(load.config.devices)
                 /\ devices' = load.staged /\ heap' = Freed(Replaced(load.staged))
                 /\ paths' = NewPaths(load.mode, load.config) /\ load' = NoLoad
                 /\ UNCHANGED <<plugins, active>> /\ out'.rc = "OK"
BY DEF Publish, Staging, Return

LEMMA PublishStep == ASSUME ConfigInv, Publish PROVE ConfigInv'
<1>1. CASE Fail("NOMEM") /\ UNCHANGED <<devices, plugins, paths, active, out>>
    BY <1>1, PublishCases, FailStep DEF LivePhases, Codes
<1> QED
    BY <1>1, PublishCases, SwapStep

LEMMA ConfigNext == ASSUME ConfigInv, [Next]_vars PROVE ConfigInv'
<1>1. CASE LoadConfig
  <2>1. ASSUME NEW c \in Configs, NEW flags, LoadRefused(flags, c)
        PROVE  ConfigInv'
      BY <2>1, RefusedStep DEF LoadRefused, Refuse
  <2> QED
      BY <1>1, <2>1, BeginStep DEF LoadConfig
<1>2. CASE Loader
    BY <1>2, CreateEntryStep, SelectPluginStep, InsertEntryStep, PublishStep,
       DiscardStep, RollbackStep DEF Loader
<1>3. CASE UNCHANGED vars
    BY <1>3, RefusedStep DEF vars
<1> QED
    BY <1>1, <1>2, <1>3, RegisterStep, UnregisterStep, OccupyStep, SetPluginStep,
       AddPathStep, LoadPluginStep DEF Next

LEMMA ConfigInit == ASSUME Init PROVE ConfigInv
<1>1. devices = NoTable /\ heap = [h \in Handles |-> NoEntry] /\ active = {}
      /\ plugins = {<<"estimator", BuiltIn>>} /\ load = NoLoad
      /\ paths = [k \in Kinds |-> <<>>]
    BY DEF Init
<1>2. Idle /\ Allocated = {} /\ Held(devices) = {} /\ Pending = {}
    BY <1>1 DEF Idle, Allocated, Held, NoTable, Pending
<1>3. Typed
  <2>1. devices \in Table /\ heap \in Heap /\ paths \in SearchPaths
      BY <1>1 DEF Table, NoTable, Heap, SearchPaths
  <2>2. plugins \in SUBSET Plugins
      BY <1>1, FilesAssumption DEF Plugins, Kinds
  <2> QED
      BY <1>1, <1>2, <2>1, <2>2 DEF Typed
<1>4. Owned /\ PluginsLoaded
    BY <1>1, <1>2 DEF Owned, AtHome, NoTable, PluginsLoaded
<1> QED
    BY <1>1, <1>2, <1>3, <1>4
       DEF ConfigInv, EntryApart, BeforeKept, ActiveLive, StagedSoFar

LEMMA ConfigInvariant == Spec => []ConfigInv
<1>1. Init => ConfigInv
    BY ConfigInit
<1>2. ConfigInv /\ [Next]_vars => ConfigInv'
    BY ConfigNext
<1> QED
    BY <1>1, <1>2, PTL DEF Spec

-----------------------------------------------------------------------------
(* What the invariant says                                                 *)

(* Every entry in memory runs plugins that have names, and the state of a  *)
(* load has its type, whatever the files on the search paths hold.         *)
THEOREM EntriesAreTyped == Spec => []TypeOK
<1>1. ASSUME ConfigInv PROVE TypeOK
  <2>1. \A h \in Allocated : heap[h].plugin["estimator"] # NoName
      BY <1>1 DEF ConfigInv, PluginsLoaded
  <2>2. active \subseteq {d \in Devices : devices[d] # 0}
      BY <1>1 DEF ConfigInv, ActiveLive, Typed
  <2>3. ~Idle => load.staged \in Table /\ load.entry \in {0} \cup Handles
      BY <1>1, LoadTyped
  <2> QED
      BY <1>1, <2>1, <2>2, <2>3
         DEF TypeOK, ConfigInv, Typed, Table, Heap, Plugins, SearchPaths
<1> QED
    BY <1>1, ConfigInvariant, PTL

(* No entry that the device table, a staged table or the loader holds uses *)
(* a plugin that is not loaded, at any step of a load or of its unwinding. *)
THEOREM PluginsOutliveEntries == Spec => []NoDanglingPlugin
<1>1. ASSUME ConfigInv PROVE NoDanglingPlugin
    BY <1>1 DEF ConfigInv, PluginsLoaded, Callable, NoDanglingPlugin
<1> QED
    BY <1>1, ConfigInvariant, PTL

(* Between loads the entries in memory are those of the device table, each *)
(* at its device: no load leaks an entry or frees one that is live.        *)
THEOREM LoadsLeakNothing == Spec => []HeapMatchesTable
<1>1. ASSUME ConfigInv PROVE HeapMatchesTable
    BY <1>1, IdleOwns DEF HeapMatchesTable, AtHome
<1> QED
    BY <1>1, ConfigInvariant, PTL

-----------------------------------------------------------------------------
(* What a load may change                                                  *)

(* A step of the loader that neither publishes nor ends the rollback.      *)
LEMMA LoadGoesOn ==
    ASSUME ConfigInv, ~Idle,
           \/ CreateEntry \/ InsertEntry \/ Discard
           \/ \E k \in Kinds : SelectPlugin(k)
           \/ \E rc : Fail(rc)
    PROVE  ~Idle'
<1>1. load \in Load
    BY LoadTyped
<1>2. load'.phase \in Phases
    BY <1>1
       DEF CreateEntry, InsertEntry, Discard, SelectPlugin, Selection,
           NoSelection, Fail, Load, Phases, LivePhases, EntryPhases, After
<1> QED
    BY <1>2 DEF Idle, NoLoad, Phases, LivePhases, EntryPhases

(* A load ends in one of two ways.                                         *)
LEMMA LoadEnds ==
    ASSUME ConfigInv, [Next]_vars, ~Idle, Idle'
    PROVE  Rollback \/ (Publish /\ ~\E rc : Fail(rc))
<1>1. Loader
    BY DEF Next, vars, Idle, LoadConfig, RegisterDevice, UnregisterDevice,
           Occupy, Vacate, SetPlugin, AddPath, LoadPlugin
<1> QED
    BY <1>1, LoadGoesOn DEF Loader

(* Wherever a load fails, the table, the entries, the plugins and the      *)
(* search paths are those it found.                                        *)
THEOREM FailedLoadsChangeNothing == Spec => FailedLoadRestores
<1>1. ASSUME ConfigInv, [Next]_vars, ~Idle, Idle', out'.rc # "OK"
      PROVE  context' = load.before
    BY <1>1, LoadEnds, PublishCases, RollbackStep
<1> QED
    BY <1>1, ConfigInvariant, PTL DEF Spec, FailedLoadRestores

\* A load that gives up has an error to return.
FailsWithCode == ~Idle /\ load.phase \in {"discard", "rollback"} => load.rc # "OK"

LEMMA FailNamesCode ==
    ASSUME load \in Load, NEW rc, rc # "OK", Fail(rc) PROVE FailsWithCode'
BY DEF Fail, FailsWithCode, Load

LEMMA CodeNext ==
    ASSUME ConfigInv, FailsWithCode, [Next]_vars PROVE FailsWithCode'
<1>1. CASE LoadConfig
  <2>1. ASSUME NEW c \in Configs, NEW flags, LoadRefused(flags, c)
        PROVE  FailsWithCode'
      BY <1>1, <2>1 DEF LoadConfig, LoadRefused, Refuse, FailsWithCode, Idle
  <2>2. ASSUME NEW c \in Configs, NEW mode \in {"MERGE", "REPLACE"},
               BeginLoad(mode, c)
        PROVE  FailsWithCode'
    <3> DEFINE begun ==
                 [phase |-> "create", mode |-> mode, config |-> c, at |-> 1,
                  staged |-> [d \in Devices |->
                                 IF Stays(mode, d, c) THEN devices[d] ELSE 0],
                  entry |-> 0, loaded |-> {}, rc |-> "OK", before |-> context]
               failed(rc) == [begun EXCEPT !.phase = "discard", !.rc = rc,
                                           !.staged = NoTable]
    <3>1. load' \in {begun, failed("STATE"), failed("NOMEM")}
        BY <2>2 DEF BeginLoad
    <3>2. begun.phase = "create"
        OBVIOUS
    <3>3. failed("STATE").rc = "STATE" /\ failed("NOMEM").rc = "NOMEM"
        OBVIOUS
    <3> HIDE DEF begun, failed
    <3> QED
        BY <3>1, <3>2, <3>3 DEF FailsWithCode
  <2> QED
      BY <1>1, <2>1, <2>2 DEF LoadConfig
<1>2. CASE Loader
  <2>1. ~Idle /\ load \in Load
      BY <1>2, LoadTyped
         DEF Loader, CreateEntry, InsertEntry, SelectPlugin, Publish, Discard,
             Rollback, Staging
  <2>2. CASE CreateEntry
    <3>1. CASE \E rc \in {"STATE", "NOMEM"} : Fail(rc)
        BY <2>1, <3>1, FailNamesCode
    <3>2. CASE load' = [load EXCEPT !.phase = "estimator", !.entry = NewHandle]
        BY <2>1, <3>2 DEF FailsWithCode, Load
    <3> QED
        BY <2>2, <3>1, <3>2 DEF CreateEntry
  <2>3. ASSUME NEW k \in Kinds, SelectPlugin(k) PROVE FailsWithCode'
    <3>1. CASE NoSelection(k)
        BY <2>1, <2>3, <3>1
           DEF NoSelection, FailsWithCode, Load, SelectPlugin, Kinds, After
    <3>2. CASE Selection(k)
      <4>1. CASE \E rc : rc # "OK" /\ Fail(rc)
          BY <2>1, <4>1, FailNamesCode
      <4>2. ASSUME NEW new, load' = [load EXCEPT !.phase = After(k), !.loaded = @ \cup new]
            PROVE  FailsWithCode'
          BY <2>1, <4>2 DEF FailsWithCode, Load, After
      <4>3. ASSUME NEW new, NEW rc, rc # "OK",
                   load' = [load EXCEPT !.phase = "discard", !.rc = rc,
                                        !.entry = 0, !.loaded = @ \cup new]
            PROVE  FailsWithCode'
          BY <2>1, <4>3 DEF FailsWithCode, Load
      <4> DEFINE found == FindOrLoad(k, Current.plugin[k], load.config.paths[k])
                 code == IF found.rc = "OK" THEN "INVAL" ELSE found.rc
      <4>4. code # "OK" /\ "NOMEM" # "OK"
          OBVIOUS
      <4> HIDE DEF found, code
      <4>5. \/ Fail(code) \/ Fail("NOMEM")
            \/ load' = [load EXCEPT !.phase = After(k), !.loaded = @ \cup found.loaded]
            \/ \E rc : /\ rc # "OK"
                       /\ load' = [load EXCEPT !.phase = "discard", !.rc = rc,
                                       !.entry = 0, !.loaded = @ \cup found.loaded]
          BY <3>2 DEF Selection, found, code
      <4> QED
          BY <4>1, <4>2, <4>3, <4>4, <4>5
    <3> QED
        BY <2>3, <3>1, <3>2 DEF SelectPlugin
  <2>4. CASE InsertEntry
    <3>1. CASE Fail("NOMEM")
        BY <2>1, <3>1, FailNamesCode
    <3>2. CASE load'.phase = "create"
        BY <3>2 DEF FailsWithCode
    <3> QED
        BY <2>1, <2>4, <3>1, <3>2 DEF InsertEntry, Load
  <2>5. CASE Publish \/ Rollback
    <3>1. CASE load' = NoLoad
        BY <3>1 DEF FailsWithCode, Idle
    <3>2. CASE Fail("NOMEM")
        BY <2>1, <3>2, FailNamesCode
    <3> QED
        BY <2>5, <3>1, <3>2, PublishCases DEF Rollback
  <2>6. CASE Discard
      BY <2>1, <2>6 DEF Discard, Staging, FailsWithCode, Load
  <2> QED
      BY <1>2, <2>2, <2>3, <2>4, <2>5, <2>6 DEF Loader
<1>3. CASE load' = load
    BY <1>3 DEF FailsWithCode, Idle
<1> QED
    BY <1>1, <1>2, <1>3
       DEF Next, vars, RegisterDevice, UnregisterDevice, Occupy, Vacate, SetPlugin,
           AddPath, LoadPlugin, Refuse

LEMMA CodeInvariant == Spec => []FailsWithCode
<1>1. Init => FailsWithCode
    BY DEF Init, FailsWithCode, Idle
<1>2. ConfigInv /\ FailsWithCode /\ [Next]_vars => FailsWithCode'
    BY CodeNext
<1> QED
    BY <1>1, <1>2, ConfigInvariant, PTL DEF Spec

(* A load that answers OK has given every configured device a new entry    *)
(* and kept, or with REPLACE dropped, every other device as it was.        *)
THEOREM LoadsPublishEverything == Spec => LoadPublishesWhole
<1> DEFINE Whole ==
        \A d \in Devices :
            IF d \in Configured(load.config)
            THEN devices'[d] \in Handles \ Held(devices)
            ELSE IF load.mode = "REPLACE" THEN devices'[d] = 0
            ELSE /\ devices'[d] = devices[d]
                 /\ devices[d] # 0 => heap'[devices[d]] = heap[devices[d]]
<1>1. ASSUME ConfigInv, FailsWithCode, [Next]_vars, ~Idle, Idle', out'.rc = "OK"
      PROVE  Whole
  <2>1. CASE Rollback
      BY <1>1, <2>1 DEF Rollback, Staging, Return, FailsWithCode
  <2>2. CASE Publish /\ ~\E rc : Fail(rc)
      BY <1>1, <2>2, PublishCases, SwapStep
  <2> QED
      BY <1>1, <2>1, <2>2, LoadEnds
<1> QED
    BY <1>1, ConfigInvariant, CodeInvariant, PTL DEF Spec, LoadPublishesWhole

-----------------------------------------------------------------------------
(* Active devices                                                          *)

Kept == \A d \in active : /\ devices'[d] = devices[d]
                          /\ heap'[devices[d]] = heap[devices[d]]

LEMMA KeptByHandle ==
    ASSUME ConfigInv, UNCHANGED devices,
           \A h \in Held(devices) : heap'[h] = heap[h]
    PROVE  Kept
BY HeldInTable DEF ConfigInv, Typed, ActiveLive, Kept

(* The loader writes and frees only what the device table does not hold.   *)
LEMMA LoaderKeeps ==
    ASSUME ConfigInv, Loader, UNCHANGED devices PROVE Kept \/ Publish
<1>1. ~Idle
    BY DEF Loader, CreateEntry, InsertEntry, SelectPlugin, Publish, Discard,
           Rollback, Staging
<1>2. /\ Typed /\ load \in Load /\ heap \in Heap /\ devices \in Table
    BY <1>1, LoadTyped
<1>3. /\ load.entry \notin Held(devices) /\ Held(devices) \in SUBSET Allocated
      /\ Held(devices) \in SUBSET Handles
  <2>1. load.entry \notin Held(devices)
      BY <1>1 DEF ConfigInv, EntryApart
  <2>2. Held(devices) \in SUBSET Allocated
      BY DEF ConfigInv, Owned
  <2> QED
      BY <1>2, <2>1, <2>2, HeldInTable
<1>4. ASSUME NEW S, heap' = Freed(S), S \cap Held(devices) = {} PROVE Kept
  <2>1. \A h \in Held(devices) : heap'[h] = heap[h]
      BY <1>2, <1>3, <1>4, FreedHeap
  <2> QED
      BY <2>1, KeptByHandle
<1>5. ASSUME NEW n, n \notin Held(devices), NEW e, heap' = [heap EXCEPT ![n] = e]
      PROVE  Kept
  <2>1. \A h \in Held(devices) : heap'[h] = heap[h]
      BY <1>2, <1>3, <1>5 DEF Heap
  <2> QED
      BY <2>1, KeptByHandle
<1>6. ASSUME heap' = heap PROVE Kept
    BY <1>6, KeptByHandle
<1>7. ASSUME NEW rc, Fail(rc) PROVE Kept
    BY <1>3, <1>4, <1>7 DEF Fail
<1>8. CASE CreateEntry
  <2>1. MemoryLeft => NewHandle \notin Held(devices)
      BY <1>2, <1>3, NewHandleIsFree
  <2>2. \/ \E rc : Fail(rc)
        \/ /\ MemoryLeft
           /\ \E e : heap' = [heap EXCEPT ![NewHandle] = e]
      BY <1>8 DEF CreateEntry
  <2> QED
      BY <1>5, <1>7, <2>1, <2>2
<1>9. ASSUME NEW k \in Kinds, SelectPlugin(k) PROVE Kept
  <2>1. load.entry \notin Held(devices) /\ {load.entry} \cap Held(devices) = {}
      BY <1>3
  <2>2. CASE Selection(k)
    <3>1. \/ \E rc : Fail(rc)
          \/ \E e : heap' = [heap EXCEPT ![load.entry] = e]
          \/ heap' = Freed({load.entry})
        BY <2>2 DEF Selection
    <3> QED
        BY <1>4, <1>5, <1>7, <2>1, <3>1
  <2>3. CASE NoSelection(k)
      BY <1>6, <2>3 DEF NoSelection
  <2> QED
      BY <1>9, <2>2, <2>3 DEF SelectPlugin
<1>10. CASE InsertEntry
    BY <1>6, <1>7, <1>10 DEF InsertEntry
<1>11. CASE Discard
  <2>1. StagedOnly \cap Held(devices) = {}
      BY DEF StagedOnly
  <2> QED
      BY <1>4, <1>11, <2>1 DEF Discard
<1>12. CASE Rollback
    BY <1>6, <1>12 DEF Rollback
<1> QED
    BY <1>8, <1>9, <1>10, <1>11, <1>12 DEF Loader

LEMMA PublishKeeps == ASSUME ConfigInv, Publish PROVE Kept
<1>1. CASE Fail("NOMEM") /\ UNCHANGED devices
  <2>1. load.entry \notin Held(devices) /\ heap \in Heap /\ devices \in Table
      BY PublishCases, LoadTyped DEF ConfigInv, EntryApart
  <2>2. \A h \in Handles \ {load.entry} : heap'[h] = heap[h]
      BY <1>1, <2>1, FreedHeap DEF Fail
  <2>3. \A h \in Held(devices) : heap'[h] = heap[h]
      BY <2>1, <2>2, HeldInTable
  <2> QED
      BY <1>1, <2>3, KeptByHandle
<1>2. CASE ~(Fail("NOMEM") /\ UNCHANGED devices)
    BY <1>2, PublishCases, SwapStep DEF Kept
<1> QED
    BY <1>1, <1>2

(* A call that rewrites the entry of one device leaves those of others.    *)
LEMMA OtherDeviceKept ==
    ASSUME ConfigInv, Idle, NEW d \in Devices, devices[d] # 0 => d \notin active,
           \A e \in Devices \ {d} : devices'[e] = devices[e],
           NEW n, devices[d] # 0 => n = devices[d],
           devices[d] = 0 => n \notin Allocated,
           \A h \in Handles \ {n} : heap'[h] = heap[h]
    PROVE  Kept
<1>1. /\ Typed /\ AtHome(devices) /\ ActiveLive /\ Allocated = Held(devices)
    BY IdleOwns
<1>2. \A e \in active : e \in Devices \ {d} /\ devices[e] # 0
    BY <1>1 DEF ActiveLive, Typed
<1>3. \A e \in active : devices[e] \in Handles \ {n}
    BY <1>1, <1>2, HeldInTable DEF AtHome, Typed
<1> QED
    BY <1>2, <1>3 DEF Kept

(* Whatever is loaded, registered, unregistered or selected, a device with *)
(* an active reservation keeps its entry and the plugins of its entry.     *)
THEOREM ActiveDevicesStay == Spec => ActiveDevicesKept
<1>1. ASSUME ConfigInv, [Next]_vars PROVE Kept
  <2>1. CASE UNCHANGED <<devices, heap>>
      BY <2>1 DEF Kept
  <2>2. CASE Loader
    <3>1. UNCHANGED devices \/ Publish
        BY <2>2 DEF Loader, CreateEntry, InsertEntry, SelectPlugin, Discard, Rollback
    <3> QED
        BY <1>1, <2>2, <3>1, LoaderKeeps, PublishKeeps
  <2>3. ASSUME NEW d \in Devices, RegisterDevice(d) PROVE Kept
    <3> DEFINE h == IF devices[d] = 0 THEN NewHandle ELSE devices[d]
    <3>1. CASE /\ Idle
               /\ IF devices[d] = 0 THEN MemoryLeft ELSE d \notin active
               /\ devices' = [devices EXCEPT ![d] = h]
               /\ heap' = [heap EXCEPT ![h] = FreshEntry(d)]
      <4>1. Typed
          BY <1>1 DEF ConfigInv
      <4>2. devices[d] = 0 => h \notin Allocated
          BY <3>1, <4>1, NewHandleIsFree DEF Typed
      <4>3. devices[d] # 0 => h = devices[d]
          OBVIOUS
      <4> HIDE DEF h
      <4>4. /\ \A e \in Devices \ {d} : devices'[e] = devices[e]
            /\ \A g \in Handles \ {h} : heap'[g] = heap[g]
          BY <3>1, <4>1 DEF Typed, Table, Heap
      <4> QED
          BY <1>1, <3>1, <4>2, <4>3, <4>4, OtherDeviceKept
    <3> QED
        BY <2>1, <2>3, <3>1 DEF RegisterDevice, Refuse
  <2>4. ASSUME NEW d \in Devices, UnregisterDevice(d) PROVE Kept
    <3>1. CASE /\ Idle /\ devices[d] # 0 /\ d \notin active
               /\ devices' = [devices EXCEPT ![d] = 0]
               /\ heap' = Freed({devices[d]})
      <4>1. Typed
          BY <1>1 DEF ConfigInv
      <4>2. /\ \A e \in Devices \ {d} : devices'[e] = devices[e]
            /\ \A g \in Handles \ {devices[d]} : heap'[g] = heap[g]
          BY <3>1, <4>1, FreedHeap DEF Typed, Table
      <4> QED
          BY <1>1, <3>1, <4>2, OtherDeviceKept
    <3> QED
        BY <2>1, <2>4, <3>1 DEF UnregisterDevice, Refuse
  <2>5. ASSUME NEW d \in Devices, NEW k, NEW m, SetPlugin(d, k, m) PROVE Kept
    <3>1. ASSUME NEW e, Idle, devices[d] # 0, d \notin active,
                 UNCHANGED devices, heap' = [heap EXCEPT ![devices[d]] = e]
          PROVE  Kept
      <4>1. \A g \in Handles \ {devices[d]} : heap'[g] = heap[g]
          BY <1>1, <3>1 DEF ConfigInv, Typed, Heap
      <4> QED
          BY <1>1, <3>1, <4>1, OtherDeviceKept
    <3>2. \/ UNCHANGED <<devices, heap>>
          \/ /\ Idle /\ devices[d] # 0 /\ d \notin active /\ UNCHANGED devices
             /\ \E e : heap' = [heap EXCEPT ![devices[d]] = e]
        BY <2>5 DEF SetPlugin, Refuse
    <3> QED
        BY <2>1, <3>1, <3>2
  <2>6. CASE LoadConfig
      BY <2>1, <2>6 DEF LoadConfig, LoadRefused, BeginLoad, Refuse
  <2>7. ASSUME NEW k \in Kinds, NEW p \in Paths,
               AddPath(k, p) \/ \E n \in Names : LoadPlugin(k, p, n)
        PROVE  Kept
      BY <2>1, <2>7 DEF AddPath, LoadPlugin, Refuse
  <2>8. ASSUME NEW d \in Devices, Occupy(d) \/ Vacate(d) PROVE Kept
      BY <2>1, <2>8 DEF Occupy, Vacate
  <2> QED
      BY <1>1, <2>1, <2>2, <2>3, <2>4, <2>5, <2>6, <2>7, <2>8 DEF Next, vars
<1> QED
    BY <1>1, ConfigInvariant, PTL DEF Spec, ActiveDevicesKept, Kept
=============================================================================
