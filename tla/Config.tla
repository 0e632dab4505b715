------------------------------- MODULE Config -------------------------------
(***************************************************************************)
(* The configuration loader, the plugin registries and the memory of the   *)
(* device table.  qhw_adm_load_config_string builds a second device table  *)
(* while it holds the context mutex, one configured device after another,  *)
(* and loads the plugins they name as it goes; then it swaps the tables, or *)
(* throws the staged one away and unloads what it loaded.  The other calls *)
(* that touch this state wait for the mutex, so they are single steps that *)
(* are taken while no load is under way.                                   *)
(*                                                                         *)
(* A device entry is a block of memory: tables hold handles, and one entry *)
(* may be in both tables.  An entry calls its plugins when it is freed, so *)
(* they must still be loaded then.  Reservations are reduced to the set of *)
(* devices with an active one.                                             *)
(***************************************************************************)
EXTENDS SequencesExt

CONSTANTS
    Devices, Paths,
    Names,                      \* names of plugins
    MaxEntries,                 \* blocks of memory for device entries
    MaxPaths,                   \* bound on a search path of the context
    Descriptor(_, _, _),        \* what is in the file of a kind, path, name
    Configs                     \* parsed configurations

Kinds == {"estimator", "policy"}
NoName == "none"
BuiltIn == "baseline"
Handles == 1..MaxEntries

(* A file is missing, is broken (no symbol, or a descriptor that does not  *)
(* validate), or holds a descriptor, whose name need not be the file's.    *)
ASSUME FilesAssumption ==
    /\ BuiltIn \in Names /\ NoName \notin Names
    /\ \A k \in Kinds, p \in Paths, n \in Names :
           Descriptor(k, p, n) \in Names \cup {"missing", "broken"}

\* A device id is not zero.
ASSUME EntriesAssumption == 0 \notin Devices /\ MaxEntries \in Nat

DeviceConfig == [device : Devices, plugin : [Kinds -> Names \cup {NoName}]]

(* `valid' is what parsing and validate_pending_config found.  A device is *)
(* configured once: what the hash table does with a second entry of one    *)
(* key is not in this repository.                                          *)
ASSUME ConfigsAssumption ==
    \A c \in Configs :
        /\ c.valid \in BOOLEAN
        /\ c.devices \in Seq(DeviceConfig)
        /\ \A i, j \in DOMAIN c.devices :
               c.devices[i].device = c.devices[j].device => i = j
        /\ c.paths \in [Kinds -> Seq(Paths)]

VARIABLES
    devices,    \* the device table: handles, 0 where there is no device
    heap,       \* the allocated device entries
    plugins,    \* the registered plugins
    paths,      \* the search paths of the context
    active,     \* devices with an active reservation
    load,       \* the load that holds the mutex
    out         \* the last return code

vars == <<devices, heap, plugins, paths, active, load, out>>

context == <<devices, heap, plugins, paths>>

NoTable == [d \in Devices |-> 0]
NoEntry == [device |-> 0, plugin |-> [k \in Kinds |-> NoName]]

\* qhw_adm_create_device_entry starts every entry on the baseline estimator.
FreshEntry(d) ==
    [device |-> d,
     plugin |-> [k \in Kinds |-> IF k = "estimator" THEN BuiltIn ELSE NoName]]

Held(table) == {table[d] : d \in Devices} \ {0}

Allocated == {h \in Handles : heap[h] # NoEntry}

NewHandle == CHOOSE h \in Handles : heap[h] = NoEntry

\* Otherwise an allocation can only fail.
MemoryLeft == Allocated # Handles

Freed(handles) == [h \in Handles |-> IF h \in handles THEN NoEntry ELSE heap[h]]

NoLoad == [phase |-> "idle"]

Idle == load = NoLoad

Configured(c) == {c.devices[i].device : i \in DOMAIN c.devices}

Return(call, rc) == out' = [call |-> call, rc |-> rc]

Refuse(call, rc) ==
    /\ Return(call, rc)
    /\ UNCHANGED <<devices, heap, plugins, paths, active, load>>

-----------------------------------------------------------------------------
(* Plugins                                                                 *)

(* The first directory whose file has a descriptor decides.  If another    *)
(* file registered that descriptor's name before, registering it fails     *)
(* with EXISTS and the search ends with a lookup of the configured name,   *)
(* which is not registered: the caller gets OK and no plugin.              *)
Scan(kind, name, dirs) ==
    LET hits == {i \in DOMAIN dirs : Descriptor(kind, dirs[i], name) \in Names}
        loaded == <<kind, Descriptor(kind, dirs[Min(hits)], name)>>
    IN  IF hits = {}
        THEN [rc |-> IF dirs # <<>> /\ Descriptor(kind, Last(dirs), name) = "broken"
                     THEN "INVAL" ELSE "NOT_FOUND",
              plugin |-> NoName, loaded |-> {}]
        ELSE IF loaded \in plugins
        THEN [rc |-> "OK", plugin |-> NoName, loaded |-> {}]
        ELSE [rc |-> "OK", plugin |-> loaded[2], loaded |-> {loaded}]

\* Mutant: a plugin that is found counts as loaded by this load.
KnownAsLoaded(kind, name) ==
    [rc |-> "OK", plugin |-> name, loaded |-> {<<kind, name>>}]

Known(kind, name) == [rc |-> "OK", plugin |-> name, loaded |-> {}]

\* qhw_adm_find_or_load_estimator and _policy
FindOrLoad(kind, name, extra) ==
    IF <<kind, name>> \in plugins THEN Known(kind, name)
    ELSE LET first == Scan(kind, name, extra)
         IN  IF first.rc = "OK" THEN first ELSE Scan(kind, name, paths[kind])

\* Mutant: the missing plugin is not noticed.
AcceptsAny(found) == found.rc = "OK"

Selectable(found) == found.rc = "OK" /\ found.plugin # NoName

\* What a plugin's init callback, or an allocation, may answer.
InitCodes == {"OK", "INVAL", "NOMEM"}

WithPlugin(entry, kind, name) == [entry EXCEPT !.plugin[kind] = name]

-----------------------------------------------------------------------------
(* The loader, up to the mutex                                             *)

FlagSets == SUBSET {"MERGE", "REPLACE", "UNKNOWN"}

ValidFlags(flags) == flags \in {{"MERGE"}, {"REPLACE"}}

\* Mutant: the devices of the context stay in both modes.
StaysInBothModes(mode, d, c) == d \notin Configured(c)

\* A device of the context that the staged table takes over.
Stays(mode, d, c) == mode = "MERGE" /\ d \notin Configured(c)

\* Mutant: a device that is left out is not asked for reservations.
DropsIdleOnly(mode, c) == FALSE

DropsActive(mode, c) ==
    mode = "REPLACE"
    /\ \E d \in active : devices[d] # 0 /\ d \notin Configured(c)

NewPaths(mode, c) ==
    [k \in Kinds |-> (IF mode = "MERGE" THEN paths[k] ELSE <<>>) \o c.paths[k]]

\* Model bound: search paths that would grow too long are not loaded.
PathsFit(mode, c) == \A k \in Kinds : Len(NewPaths(mode, c)[k]) <= MaxPaths

LoadRefused(flags, c) ==
    \/ /\ ~ValidFlags(flags) \/ ~c.valid
       /\ Refuse("load_config", "INVAL")
    \/ ValidFlags(flags) /\ Refuse("load_config", "NOMEM")

BeginLoad(mode, c) ==
    /\ c.valid
    /\ PathsFit(mode, c)
    /\ LET staged == [d \in Devices |->
                         IF Stays(mode, d, c) THEN devices[d] ELSE 0]
           begun == [phase |-> "create", mode |-> mode, config |-> c, at |-> 1,
                     staged |-> staged, entry |-> 0, loaded |-> {},
                     rc |-> "OK", before |-> context]
           failed(rc) == [begun EXCEPT !.phase = "discard", !.rc = rc,
                                       !.staged = NoTable]
       IN  load' \in IF DropsActive(mode, c) THEN {failed("STATE")}
                     ELSE {begun, failed("NOMEM")}
    /\ UNCHANGED <<devices, heap, plugins, paths, active, out>>

LoadConfig ==
    /\ Idle
    /\ \E c \in Configs :
          \/ \E flags \in FlagSets : LoadRefused(flags, c)
          \/ \E mode \in {"MERGE", "REPLACE"} : BeginLoad(mode, c)

-----------------------------------------------------------------------------
(* Staging: add_config_devices, one device after another                   *)

Staging(phase) == ~Idle /\ load.phase = phase

Current == load.config.devices[load.at]

\* An error frees the entry under construction first.
Fail(rc) ==
    /\ load' = [load EXCEPT !.phase = "discard", !.rc = rc, !.entry = 0]
    /\ heap' = Freed({load.entry})

CreateEntry ==
    /\ Staging("create")
    /\ load.at <= Len(load.config.devices)
    /\ LET d == Current.device
       IN  IF devices[d] # 0 /\ d \in active
           THEN Fail("STATE")
           ELSE \/ Fail("NOMEM")
                \/ /\ MemoryLeft
                   /\ heap' = [heap EXCEPT ![NewHandle] = FreshEntry(d)]
                   /\ load' = [load EXCEPT !.phase = "estimator",
                                           !.entry = NewHandle]
    /\ UNCHANGED <<devices, plugins, paths, active, out>>

After(kind) == IF kind = "estimator" THEN "policy" ELSE "insert"

NoSelection(kind) ==
    /\ Current.plugin[kind] = NoName
    /\ load' = [load EXCEPT !.phase = After(kind)]
    /\ UNCHANGED <<heap, plugins>>

(* A plugin that was loaded is tracked for the rollback; if there is no    *)
(* memory for that, it is unloaded again at once.                          *)
Selection(kind) ==
    LET name == Current.plugin[kind]
        found == FindOrLoad(kind, name, load.config.paths[kind])
    IN  /\ name # NoName
        /\ \/ /\ ~Selectable(found)
              /\ Fail(IF found.rc = "OK" THEN "INVAL" ELSE found.rc)
              /\ UNCHANGED plugins
           \/ Fail("NOMEM") /\ UNCHANGED plugins
           \/ /\ Selectable(found)
              /\ plugins' = plugins \cup found.loaded
              /\ \E rc \in InitCodes :
                    IF rc = "OK"
                    THEN /\ heap' = [heap EXCEPT ![load.entry] =
                                        WithPlugin(@, kind, found.plugin)]
                         /\ load' = [load EXCEPT
                                        !.phase = After(kind),
                                        !.loaded = @ \cup found.loaded]
                    ELSE /\ heap' = Freed({load.entry})
                         /\ load' = [load EXCEPT
                                        !.phase = "discard", !.rc = rc,
                                        !.entry = 0,
                                        !.loaded = @ \cup found.loaded]

SelectPlugin(kind) ==
    /\ Staging(kind)
    /\ NoSelection(kind) \/ Selection(kind)
    /\ UNCHANGED <<devices, paths, active, out>>

InsertEntry ==
    /\ Staging("insert")
    /\ \/ Fail("NOMEM")
       \/ /\ load' = [load EXCEPT !.phase = "create", !.at = @ + 1,
                                  !.entry = 0,
                                  !.staged[Current.device] = load.entry]
          /\ UNCHANGED heap
    /\ UNCHANGED <<devices, plugins, paths, active, out>>

-----------------------------------------------------------------------------
(* Publishing and unwinding                                                *)

\* detach_moved_devices
Replaced(table) == Held(devices) \ Held(table)

Publish ==
    /\ Staging("create")
    /\ load.at > Len(load.config.devices)
    /\ \/ Fail("NOMEM") /\ UNCHANGED <<devices, paths, out>>
       \/ /\ devices' = load.staged
          /\ paths' = NewPaths(load.mode, load.config)
          /\ heap' = Freed(Replaced(load.staged))
          /\ load' = NoLoad
          /\ Return("load_config", "OK")
    /\ UNCHANGED <<plugins, active>>

\* Mutant: the staged table is freed like any other device table.
StagedAll == Held(load.staged)

\* free_staged_device_value skips an entry that the context also holds.
StagedOnly == Held(load.staged) \ Held(devices)

Discard ==
    /\ Staging("discard")
    /\ heap' = Freed(StagedOnly)
    /\ load' = [load EXCEPT !.phase = "rollback", !.staged = NoTable]
    /\ UNCHANGED <<devices, plugins, paths, active, out>>

\* Mutant: only the estimators are unloaded.
RemainingPolicies == plugins \ {p \in load.loaded : p[1] = "estimator"}

Remaining == plugins \ load.loaded

Rollback ==
    /\ Staging("rollback")
    /\ plugins' = Remaining
    /\ load' = NoLoad
    /\ Return("load_config", load.rc)
    /\ UNCHANGED <<devices, heap, paths, active>>

-----------------------------------------------------------------------------
(* The other calls                                                         *)

\* Replacing a device keeps its block and rewrites its contents.
RegisterDevice(d) ==
    /\ Idle
    /\ \/ devices[d] # 0 /\ d \in active /\ Refuse("register", "STATE")
       \/ Refuse("register", "NOMEM")
       \/ /\ IF devices[d] = 0 THEN MemoryLeft ELSE d \notin active
          /\ LET h == IF devices[d] = 0 THEN NewHandle ELSE devices[d]
             IN  /\ devices' = [devices EXCEPT ![d] = h]
                 /\ heap' = [heap EXCEPT ![h] = FreshEntry(d)]
          /\ Return("register", "OK")
          /\ UNCHANGED <<plugins, paths, active, load>>

UnregisterDevice(d) ==
    /\ Idle
    /\ IF devices[d] = 0 THEN Refuse("unregister", "NOT_FOUND")
       ELSE IF d \in active THEN Refuse("unregister", "STATE")
       ELSE /\ devices' = [devices EXCEPT ![d] = 0]
            /\ heap' = Freed({devices[d]})
            /\ Return("unregister", "OK")
            /\ UNCHANGED <<plugins, paths, active, load>>

(* qhw_adm_set_estimator and qhw_adm_set_policy.  A plugin that was loaded *)
(* stays loaded when its init callback refuses the options.  A failed      *)
(* allocation during the search is reported as NOT_FOUND too.              *)
SetPlugin(d, kind, name) ==
    LET found == FindOrLoad(kind, name, <<>>)
    IN  /\ Idle
        /\ IF devices[d] = 0 THEN Refuse("set_plugin", "NOT_FOUND")
           ELSE IF d \in active THEN Refuse("set_plugin", "STATE")
           ELSE \/ /\ ~Selectable(found) \/ <<kind, name>> \notin plugins
                   /\ Refuse("set_plugin", "NOT_FOUND")
                \/ /\ Selectable(found)
                   /\ plugins' = plugins \cup found.loaded
                   /\ \E rc \in InitCodes :
                         /\ heap' = IF rc # "OK" THEN heap
                                    ELSE [heap EXCEPT ![devices[d]] =
                                             WithPlugin(@, kind, found.plugin)]
                         /\ Return("set_plugin", rc)
                   /\ UNCHANGED <<devices, paths, active, load>>

\* qhw_adm_load_estimator and qhw_adm_load_policy, given a file.
LoadPlugin(kind, path, name) ==
    LET desc == Descriptor(kind, path, name)
    IN  /\ Idle
        /\ IF desc \notin Names
           THEN Refuse("load_plugin",
                       IF desc = "broken" THEN "INVAL" ELSE "NOT_FOUND")
           ELSE IF <<kind, desc>> \in plugins THEN Refuse("load_plugin", "EXISTS")
           ELSE \/ Refuse("load_plugin", "NOMEM")
                \/ /\ plugins' = plugins \cup {<<kind, desc>>}
                   /\ Return("load_plugin", "OK")
                   /\ UNCHANGED <<devices, heap, paths, active, load>>

AddPath(kind, path) ==
    /\ Idle
    /\ Len(paths[kind]) < MaxPaths
    /\ \/ Refuse("add_path", "NOMEM")
       \/ /\ paths' = [paths EXCEPT ![kind] = Append(@, path)]
          /\ Return("add_path", "OK")
          /\ UNCHANGED <<devices, heap, plugins, active, load>>

\* A device's first reservation is granted: it has a policy by then.
Occupy(d) ==
    /\ Idle
    /\ devices[d] # 0
    /\ heap[devices[d]].plugin["policy"] # NoName
    /\ active' = active \cup {d}
    /\ Return("reserve", "OK")
    /\ UNCHANGED <<devices, heap, plugins, paths, load>>

\* Its last active reservation ends.
Vacate(d) ==
    /\ Idle
    /\ d \in active
    /\ active' = active \ {d}
    /\ Return("release", "OK")
    /\ UNCHANGED <<devices, heap, plugins, paths, load>>

Init ==
    /\ devices = NoTable
    /\ heap = [h \in Handles |-> NoEntry]
    /\ plugins = {<<"estimator", BuiltIn>>}
    /\ paths = [k \in Kinds |-> <<>>]
    /\ active = {}
    /\ load = NoLoad
    /\ out = [call |-> "init", rc |-> "OK"]

Loader ==
    \/ CreateEntry
    \/ \E k \in Kinds : SelectPlugin(k)
    \/ InsertEntry
    \/ Publish
    \/ Discard
    \/ Rollback

Next ==
    \/ LoadConfig
    \/ Loader
    \/ \E d \in Devices :
          \/ RegisterDevice(d)
          \/ UnregisterDevice(d)
          \/ Occupy(d)
          \/ Vacate(d)
          \/ \E k \in Kinds, n \in Names : SetPlugin(d, k, n)
    \/ \E k \in Kinds, p \in Paths :
          \/ AddPath(k, p)
          \/ \E n \in Names : LoadPlugin(k, p, n)

Spec == Init /\ [][Next]_vars

-----------------------------------------------------------------------------
(* Properties                                                              *)

(* Every allocated entry runs plugins that have names and every table      *)
(* holds handles; in particular no entry is ever given the missing plugin  *)
(* that find_or_load reports with OK for a file of another name.           *)
TypeOK ==
    /\ devices \in [Devices -> {0} \cup Handles]
    /\ heap \in [Handles -> DeviceConfig \cup {NoEntry}]
    /\ \A h \in Allocated : heap[h].plugin["estimator"] # NoName
    /\ plugins \subseteq Kinds \X Names
    /\ paths \in [Kinds -> Seq(Paths)]
    /\ active \subseteq {d \in Devices : devices[d] # 0}
    /\ ~Idle => /\ load.staged \in [Devices -> {0} \cup Handles]
                /\ load.entry \in {0} \cup Handles

(* No entry in memory, live, staged or under construction, uses a plugin   *)
(* that is not loaded: freeing or using it would call unmapped code.  The  *)
(* rollback unloads only what this load loaded, after its entries are gone. *)
NoDanglingPlugin ==
    \A h \in Allocated, k \in Kinds :
        heap[h].plugin[k] \in {NoName} \cup {n \in Names : <<k, n>> \in plugins}

(* When no load is under way the allocated entries are exactly the ones in *)
(* the device table, each at its own device: nothing leaks, and nothing    *)
(* that the table holds was freed with the table it moved from.            *)
HeapMatchesTable ==
    Idle => /\ Allocated = Held(devices)
            /\ \A d \in Devices : devices[d] # 0 => heap[devices[d]].device = d

(* A load that returns an error leaves devices, entries, plugins and paths *)
(* as they were when it began, wherever it failed.                         *)
FailedLoadRestores ==
    [][~Idle /\ Idle' /\ out'.rc # "OK" => context' = load.before]_vars

(* A load that returns OK has published all of it: every configured device *)
(* has a new entry, and every other device is the untouched old one in     *)
(* MERGE mode and gone in REPLACE mode.                                    *)
LoadPublishesWhole ==
    [][~Idle /\ Idle' /\ out'.rc = "OK" =>
         \A d \in Devices :
            IF d \in Configured(load.config)
            THEN devices'[d] \in Handles \ Held(devices)
            ELSE IF load.mode = "REPLACE" THEN devices'[d] = 0
            ELSE /\ devices'[d] = devices[d]
                 /\ devices[d] # 0 => heap'[devices[d]] = heap[devices[d]]]_vars

(* Whatever is loaded, registered or selected, a device with an active     *)
(* reservation keeps its entry, its estimator and its policy.              *)
ActiveDevicesKept ==
    [][\A d \in active : /\ devices'[d] = devices[d]
                         /\ heap'[devices[d]] = heap[devices[d]]]_vars
=============================================================================
