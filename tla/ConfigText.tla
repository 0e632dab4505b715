----------------------------- MODULE ConfigText -----------------------------
(***************************************************************************)
(* parse_yaml_text: the configuration parser, which reads a document line  *)
(* by line and keeps one section and the device that the last list item    *)
(* started.  A line is what splitting, trimming and unquoting leave of it: *)
(* its form, its key and its value.  The environment is an author who      *)
(* writes a YAML document one line at a time: any mapping that is open may *)
(* get a key it does not have yet, and a key may open a nested mapping, so *)
(* every order of keys that YAML allows is written.  What was written is   *)
(* kept as history, to compare with what was parsed.                       *)
(***************************************************************************)
EXTENDS Naturals, SequencesExt

CONSTANTS
    MaxU64, MaxU32,
    Scalars,    \* <<mapping, key>> of the scalars that documents contain
    Values,     \* what they are written as
    SearchPaths,
    MaxDevices, \* bound on the devices of a document
    MaxLines    \* bound on its lines

ASSUME WidthsAssumption == MaxU32 \in Nat /\ MaxU64 \in Nat
ASSUME ValuesAssumption == Values \subseteq [number : BOOLEAN, text : Nat]

-----------------------------------------------------------------------------
(* What the parser knows                                                   *)

NumberFields ==
    [DEVICES |-> {"device_id", "time_span_ns", "max_qubits", "max_shots",
                  "max_provider_queue_depth", "default_ttl_ns"},
     BASELINE |-> {"qubit_count", "depth", "one_q_gate_count",
                   "two_q_gate_count", "shots", "measurement_count"},
     TIMING |-> {"one_q_gate_ns", "two_q_gate_ns", "measurement_ns",
                 "one_q_gate_transfer_ns", "two_q_gate_transfer_ns",
                 "measurement_transfer_ns", "compile_ns",
                 "control_overhead_ns", "provider_overhead_ns"},
     CREDIT |-> {"total_credits"},
     RATE |-> {"device_rate", "concurrent_jobs"}]

U32Fields ==
    {"max_qubits", "max_provider_queue_depth", "qubit_count",
     "concurrent_jobs"}

TopSections == [devices |-> "DEVICES", plugin_paths |-> "PLUGIN_PATHS"]

PathSections ==
    [estimators |-> "PLUGIN_ESTIMATORS", policies |-> "PLUGIN_POLICIES"]

DeviceSections ==
    [baseline |-> "BASELINE", timing |-> "TIMING", credit |-> "CREDIT",
     rate |-> "RATE", estimator |-> "ESTIMATOR", policy |-> "POLICY"]

\* Mutant: the options of a policy are filed under its estimator.
OptionSectionsShared ==
    [ESTIMATOR |-> "ESTIMATOR_OPTIONS", POLICY |-> "ESTIMATOR_OPTIONS"]

OptionSections ==
    [ESTIMATOR |-> "ESTIMATOR_OPTIONS", POLICY |-> "POLICY_OPTIONS"]

PluginSections == {"PLUGIN_PATHS", "PLUGIN_ESTIMATORS", "PLUGIN_POLICIES"}

IsOption(mapping) == mapping \in {"ESTIMATOR_OPTIONS", "POLICY_OPTIONS"}

\* The sections of a device.
Mappings ==
    DOMAIN NumberFields \cup DOMAIN OptionSections
        \cup {"ESTIMATOR_OPTIONS", "POLICY_OPTIONS"}

ASSUME ScalarsAssumption == Scalars \subseteq Mappings \X STRING

\* Options take any key; ESTIMATOR and POLICY have a name only.
Known(mapping, key) ==
    \/ IsOption(mapping)
    \/ mapping \in DOMAIN OptionSections /\ key = "name"
    \/ mapping \in DOMAIN NumberFields /\ key \in NumberFields[mapping]

\* An option that is not a number is a string, and a name is text.
Malformed(mapping, key, value) ==
    /\ mapping \in DOMAIN NumberFields
    /\ key \in NumberFields[mapping]
    /\ \/ ~value.number
       \/ value.text > IF key \in U32Fields THEN MaxU32 ELSE MaxU64

VARIABLES
    section,    \* of the last line
    devices,    \* parsed devices: sets of <<mapping, key, value>>
    paths,      \* parsed search paths, by their section
    rc,
    at,         \* the mapping or list that the author is in
    top,        \* keys of the document and of plugin_paths so far
    items,      \* what was written for each device
    dirs,       \* the search paths that were written
    idFirst,    \* every item began with its device_id
    inOrder,    \* scalars came before nested mappings, and none is
                \* misfiled
    lines       \* number of lines

parser == <<section, devices, paths, rc>>
document == <<at, top, items, dirs, idFirst, inOrder, lines>>
vars == <<section, devices, paths, rc, at, top, items, dirs, idFirst,
          inOrder, lines>>

-----------------------------------------------------------------------------
(* The parser: one line                                                    *)

NoPaths == [s \in {"PLUGIN_ESTIMATORS", "PLUGIN_POLICIES"} |-> <<>>]

AddPaths(list, new) == paths' = [paths EXCEPT ![list] = @ \o new]

\* Keys that a section does not know fall through to the device.
Target(in, key) ==
    IF in \in {"BASELINE", "TIMING", "CREDIT", "RATE"} \/ IsOption(in)
    THEN in
    ELSE IF in \in DOMAIN OptionSections /\ key = "name" THEN in
    ELSE "DEVICES"

\* A field is assigned, an option is added.
Stored(device, mapping, key, value) ==
    (IF IsOption(mapping) THEN device
     ELSE {f \in device : f[1] # mapping \/ f[2] # key})
        \cup {<<mapping, key, value>>}

ParseField(device, in, key, value) ==
    LET mapping == Target(in, key)
    IN  IF ~Known(mapping, key) \/ Malformed(mapping, key, value)
        THEN device ELSE Stored(device, mapping, key, value)

FieldResult(in, key, value) ==
    IF Malformed(Target(in, key), key, value) THEN "INVAL" ELSE "OK"

\* Mutant: only the section tells that an item is a device.
StartsDeviceBySection(key) == section = "DEVICES"

StartsDevice(key) == section = "DEVICES" \/ key = "device_id"

\* `- path'; in a list of paths, whatever the item looks like.
ReadPathItem(path) ==
    /\ section \in DOMAIN NoPaths
    /\ AddPaths(section, <<path>>)
    /\ UNCHANGED <<section, devices, rc>>

\* `- key: value'; a line that starts no device is ignored.
ReadItem(key, value) ==
    /\ section \notin DOMAIN NoPaths
    /\ IF StartsDevice(key)
       THEN /\ devices' = Append(devices, ParseField({}, "DEVICES", key, value))
            /\ section' = "DEVICES"
            /\ rc' = FieldResult("DEVICES", key, value)
       ELSE UNCHANGED <<devices, section, rc>>
    /\ UNCHANGED paths

\* The section that `key:' opens, or none; indent is 0 for a key of the top.
Opened(indent, key) ==
    CASE indent = 0 /\ key \in DOMAIN TopSections -> TopSections[key]
      [] section \in PluginSections /\ key \in DOMAIN PathSections ->
            PathSections[key]
      [] devices # <<>> /\ key \in DOMAIN DeviceSections -> DeviceSections[key]
      [] section \in DOMAIN OptionSections /\ key = "options" ->
            OptionSections[section]
      [] OTHER -> "NONE"

ReadSection(indent, key, list) ==
    /\ Opened(indent, key) # "NONE"
    /\ section' = Opened(indent, key)
    /\ IF section' \in DOMAIN NoPaths THEN AddPaths(section', list)
       ELSE UNCHANGED paths
    /\ UNCHANGED <<devices, rc>>

\* `key: value', for the device of the last item.
ReadField(indent, key, value) ==
    /\ Opened(indent, key) = "NONE"
    /\ IF devices = <<>> THEN UNCHANGED <<devices, rc>>
       ELSE /\ devices' = [devices EXCEPT ![Len(devices)] =
                              ParseField(@, section, key, value)]
            /\ rc' = FieldResult(section, key, value)
    /\ UNCHANGED <<section, paths>>

ReadKey(indent, key, value, list) ==
    \/ ReadSection(indent, key, list)
    \/ ReadField(indent, key, value)

-----------------------------------------------------------------------------
(* The author: one line of a YAML document                                 *)

\* The mappings and lists that are open, where the last line is in m.
Open(m) ==
    CASE m = "NONE" -> {"NONE"}
      [] m = "PLUGIN_PATHS" -> {"NONE", m}
      [] m \in DOMAIN NoPaths -> {"NONE", "PLUGIN_PATHS", m}
      [] m = "LIST" -> {"NONE", m}
      [] m = "DEVICES" -> {"NONE", "LIST", m}
      [] m = "ESTIMATOR_OPTIONS" -> {"NONE", "LIST", "DEVICES", "ESTIMATOR", m}
      [] m = "POLICY_OPTIONS" -> {"NONE", "LIST", "DEVICES", "POLICY", m}
      [] OTHER -> {"NONE", "LIST", "DEVICES", m}

Empty == [number |-> FALSE, text |-> 0]     \* what follows `key:'

Unused(mapping, key) ==
    \A f \in Last(items) : f[1] # mapping \/ f[2] # key

Write(mapping, key, value) ==
    items' = [items EXCEPT ![Len(items)] = @ \cup {<<mapping, key, value>>}]

MayWrite == rc = "OK" /\ lines < MaxLines /\ lines' = lines + 1

WriteTop(key) ==
    /\ MayWrite
    /\ key \notin top
    /\ top' = top \cup {key}
    /\ at' = IF key = "devices" THEN "LIST" ELSE "PLUGIN_PATHS"
    /\ ReadKey(0, key, Empty, <<>>)
    /\ UNCHANGED <<items, dirs, idFirst, inOrder>>

\* `estimators:' with a block list to come, or with an inline list.
WritePathList(key, list) ==
    /\ MayWrite
    /\ "PLUGIN_PATHS" \in Open(at)
    /\ key \notin top
    /\ top' = top \cup {key}
    /\ at' = IF list = <<>> THEN PathSections[key] ELSE "PLUGIN_PATHS"
    /\ dirs' = [dirs EXCEPT ![PathSections[key]] = list]
    /\ ReadKey(2, key, Empty, list)
    /\ UNCHANGED <<items, idFirst, inOrder>>

WritePath(path) ==
    /\ MayWrite
    /\ at \in DOMAIN NoPaths
    /\ dirs' = [dirs EXCEPT ![at] = Append(@, path)]
    /\ ReadPathItem(path)
    /\ UNCHANGED <<at, top, items, idFirst, inOrder>>

\* The first key of an item follows the dash; it may open a mapping.
WriteItem(key, value) ==
    /\ MayWrite
    /\ "LIST" \in Open(at)
    /\ Len(items) < MaxDevices
    /\ items' = Append(items, {<<"DEVICES", key, value>>})
    /\ at' = IF key \in DOMAIN DeviceSections THEN DeviceSections[key]
             ELSE "DEVICES"
    /\ idFirst' = (idFirst /\ key = "device_id")
    /\ ReadItem(key, value)
    /\ UNCHANGED <<top, dirs, inOrder>>

\* Keys that name a section, or that an estimator or a policy does not have
\* and a device does.
Misfiled(mapping, key) ==
    \/ key \in DOMAIN DeviceSections
    \/ /\ mapping \in DOMAIN OptionSections
       /\ key = "options" \/ Known("DEVICES", key)

WriteScalar(mapping, key, value) ==
    /\ MayWrite
    /\ mapping \in Open(at)
    /\ Unused(mapping, key)
    /\ Write(mapping, key, value)
    /\ at' = mapping
    /\ inOrder' = (inOrder /\ at = mapping /\ ~Misfiled(mapping, key))
    /\ ReadKey(4, key, value, <<>>)
    /\ UNCHANGED <<top, dirs, idFirst>>

WriteMapping(key) ==
    /\ MayWrite
    /\ "DEVICES" \in Open(at)
    /\ Unused("DEVICES", key)
    /\ Write("DEVICES", key, Empty)
    /\ at' = DeviceSections[key]
    /\ ReadKey(4, key, Empty, <<>>)
    /\ UNCHANGED <<top, dirs, idFirst, inOrder>>

WriteOptions(mapping) ==
    /\ MayWrite
    /\ mapping \in Open(at)
    /\ Unused(mapping, "options")
    /\ Write(mapping, "options", Empty)
    /\ at' = IF mapping = "POLICY" THEN "POLICY_OPTIONS"
             ELSE "ESTIMATOR_OPTIONS"
    /\ ReadKey(6, "options", Empty, <<>>)
    /\ UNCHANGED <<top, dirs, idFirst, inOrder>>

-----------------------------------------------------------------------------

Init ==
    /\ section = "NONE"
    /\ devices = <<>>
    /\ paths = NoPaths
    /\ rc = "OK"
    /\ at = "NONE"
    /\ top = {}
    /\ items = <<>>
    /\ dirs = NoPaths
    /\ idFirst = TRUE
    /\ inOrder = TRUE
    /\ lines = 0

\* Mappings are opened only where documents have a scalar for them.
UsedMappings ==
    {key \in DOMAIN DeviceSections :
        \E s \in Scalars : s[1] = DeviceSections[key]}

Next ==
    \/ \E key \in DOMAIN TopSections : WriteTop(key)
    \/ \E key \in DOMAIN PathSections,
          list \in {<<>>} \cup {<<p>> : p \in SearchPaths} :
              WritePathList(key, list)
    \/ \E path \in SearchPaths : WritePath(path)
    \/ \E s \in Scalars, value \in Values :
          s[1] = "DEVICES" /\ WriteItem(s[2], value)
    \/ \E key \in UsedMappings : WriteItem(key, Empty)
    \/ \E s \in Scalars, value \in Values : WriteScalar(s[1], s[2], value)
    \/ \E key \in UsedMappings : WriteMapping(key)
    \/ \E mapping \in DOMAIN OptionSections :
          /\ \E s \in Scalars : IsOption(s[1])
          /\ WriteOptions(mapping)

Spec == Init /\ [][Next]_vars

-----------------------------------------------------------------------------
(* Properties                                                              *)

\* What a device means: the keys that its mappings know.
Meant(item) == {f \in item : Known(f[1], f[2])}

Faithful ==
    /\ Len(devices) = Len(items)
    /\ \A i \in DOMAIN items : devices[i] = Meant(items[i])

(* A document of the documented shape is read as it is meant, whatever the  *)
(* sections it has and the order they are in: every field and option is in  *)
(* the device and the mapping it was written in, and the load is refused    *)
(* exactly for a known field that is no number or does not fit its width.   *)
FieldsLandWhereWritten ==
    idFirst /\ inOrder =>
        /\ rc = "OK" => Faithful /\ paths = dirs
        /\ rc = "INVAL" <=>
              \E i \in DOMAIN items : \E f \in items[i] :
                  Malformed(f[1], f[2], f[3])

(* Items that begin with their device_id never run into each other, even    *)
(* where a misplaced key is dropped or filed in another mapping: no device  *)
(* gets a value that was written for another one.                           *)
DevicesKeepApart ==
    idFirst /\ rc = "OK" =>
        /\ Len(devices) = Len(items)
        /\ \A i \in DOMAIN items : \A f \in devices[i] :
              \E g \in items[i] : f[2] = g[2] /\ f[3] = g[3]

(* "Configuration files use YAML" (docs/detailed-design.md), whose mappings *)
(* have no order: where every item begins with its device_id and no number  *)
(* is malformed, a document is read as it is meant.                         *)
OrderIsFree == idFirst /\ rc = "OK" => Faithful
=============================================================================
