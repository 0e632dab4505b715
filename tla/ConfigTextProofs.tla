-------------------------- MODULE ConfigTextProofs --------------------------
(***************************************************************************)
(* How a document is read, for every set of scalars, values and paths and  *)
(* however long it is: what is written in the documented shape is read as  *)
(* it is meant, and devices never run into each other.                     *)
(***************************************************************************)
EXTENDS ConfigText, SequenceTheorems, TLAPS

(* The keys of an item, and what is written of it: a field, or what        *)
(* follows the key of a mapping.                                           *)
Keys == {s[2] : s \in Scalars} \cup DOMAIN DeviceSections \cup {"options"}

Fields == Mappings \X Keys \X (Values \cup {Empty})

(* Where an author may be.                                                 *)
Places == {"NONE", "PLUGIN_PATHS", "LIST"} \cup DOMAIN NoPaths \cup Mappings

TypeOK ==
    /\ at \in Places
    /\ rc \in {"OK", "INVAL"}
    /\ idFirst \in BOOLEAN /\ inOrder \in BOOLEAN
    /\ items \in Seq(SUBSET Fields)
    /\ devices \in Seq(SUBSET Fields)
    /\ dirs \in [DOMAIN NoPaths -> Seq(SearchPaths)]

(* The parser is in the list of paths that the author is in, and paths are *)
(* read as they are written.                                               *)
PathsFollow ==
    /\ paths = dirs
    /\ at \in DOMAIN NoPaths => section = at
    /\ at = "PLUGIN_PATHS" => section \in PluginSections
    /\ \A key \in DOMAIN PathSections :
          key \notin top => /\ dirs[PathSections[key]] = <<>>
                           /\ at # PathSections[key]

(* A mapping of a device is in an item, which has the key that opened its  *)
(* options.                                                                *)
ItemsAreOpen ==
    /\ at \in Mappings => items # <<>>
    /\ \A mapping \in DOMAIN OptionSections :
          at = OptionSections[mapping] => ~Unused(mapping, "options")

(* The parser is in the mapping that the author is in: the list of devices *)
(* counts as a device.                                                     *)
SectionFollows ==
    idFirst /\ inOrder =>
        /\ at = "LIST" => section = "DEVICES"
        /\ at \in Mappings => section = at

(* Every document that was not refused has been read as it is meant.       *)
ReadAsMeant ==
    idFirst /\ inOrder =>
        /\ rc = "OK" => Faithful
        /\ rc = "INVAL" <=>
              \E i \in DOMAIN items : \E f \in items[i] :
                  Malformed(f[1], f[2], f[3])

TextInv ==
    /\ TypeOK
    /\ PathsFollow
    /\ ItemsAreOpen
    /\ SectionFollows
    /\ ReadAsMeant
    /\ DevicesKeepApart

-----------------------------------------------------------------------------
(* What the sections are called                                            *)

LEMMA SectionNames ==
    /\ DOMAIN NoPaths = {"PLUGIN_ESTIMATORS", "PLUGIN_POLICIES"}
    /\ DOMAIN TopSections = {"devices", "plugin_paths"}
    /\ TopSections["devices"] = "DEVICES"
    /\ TopSections["plugin_paths"] = "PLUGIN_PATHS"
    /\ DOMAIN PathSections = {"estimators", "policies"}
    /\ PathSections["estimators"] = "PLUGIN_ESTIMATORS"
    /\ PathSections["policies"] = "PLUGIN_POLICIES"
    /\ DOMAIN DeviceSections = {"baseline", "timing", "credit", "rate",
                                "estimator", "policy"}
    /\ DeviceSections["baseline"] = "BASELINE"
    /\ DeviceSections["timing"] = "TIMING"
    /\ DeviceSections["credit"] = "CREDIT"
    /\ DeviceSections["rate"] = "RATE"
    /\ DeviceSections["estimator"] = "ESTIMATOR"
    /\ DeviceSections["policy"] = "POLICY"
    /\ DOMAIN OptionSections = {"ESTIMATOR", "POLICY"}
    /\ OptionSections["ESTIMATOR"] = "ESTIMATOR_OPTIONS"
    /\ OptionSections["POLICY"] = "POLICY_OPTIONS"
BY DEF NoPaths, TopSections, PathSections, DeviceSections, OptionSections

LEMMA MappingNames ==
    /\ DOMAIN NumberFields = {"DEVICES", "BASELINE", "TIMING", "CREDIT", "RATE"}
    /\ Mappings = {"DEVICES", "BASELINE", "TIMING", "CREDIT", "RATE",
                   "ESTIMATOR", "POLICY", "ESTIMATOR_OPTIONS",
                   "POLICY_OPTIONS"}
<1>1. DOMAIN NumberFields = {"DEVICES", "BASELINE", "TIMING", "CREDIT", "RATE"}
    BY DEF NumberFields
<1> QED
    BY <1>1, SectionNames DEF Mappings

(* The sections of a device are mappings, none is a list of paths, and no  *)
(* list of paths is a place inside plugin_paths that is another one.       *)
LEMMA SectionsAreMappings ==
    /\ \A key \in DOMAIN DeviceSections : DeviceSections[key] \in Mappings
    /\ \A key \in DOMAIN OptionSections : OptionSections[key] \in Mappings
    /\ \A key \in DOMAIN PathSections : PathSections[key] \in DOMAIN NoPaths
    /\ DOMAIN OptionSections \subseteq Mappings
    /\ Mappings \cap DOMAIN NoPaths = {}
    /\ Mappings \cap PluginSections = {}
    /\ DOMAIN NoPaths \subseteq PluginSections
    /\ "NONE" \notin Mappings /\ "LIST" \notin Mappings
    /\ "PLUGIN_PATHS" \notin Mappings
BY SectionNames, MappingNames DEF PluginSections

(* Which places are open.                                                  *)
LEMMA WhatIsOpen ==
    ASSUME at \in Places
    PROVE  /\ "PLUGIN_PATHS" \in Open(at)
                => at = "PLUGIN_PATHS" \/ at \in DOMAIN NoPaths
           /\ "LIST" \in Open(at) => at = "LIST" \/ at \in Mappings
           /\ \A m \in Mappings : m \in Open(at) => at \in Mappings
           /\ \A mapping \in DOMAIN OptionSections :
                /\ OptionSections[mapping] \in Open(at)
                      => at = OptionSections[mapping]
                /\ mapping \in Open(at)
                      => at = mapping \/ at = OptionSections[mapping]
BY SectionNames, MappingNames DEF Places, Open

-----------------------------------------------------------------------------
(* What a line opens                                                       *)

LEMMA TopOpens ==
    ASSUME NEW key \in DOMAIN TopSections
    PROVE  Opened(0, key) = TopSections[key]
BY SectionNames DEF Opened

LEMMA PathListOpens ==
    ASSUME section \in PluginSections, NEW key \in DOMAIN PathSections
    PROVE  Opened(2, key) = PathSections[key]
BY SectionNames DEF Opened

LEMMA MappingOpens ==
    ASSUME devices # <<>>, NEW key \in DOMAIN DeviceSections
    PROVE  Opened(4, key) = DeviceSections[key]
BY SectionNames DEF Opened

LEMMA OptionsOpen ==
    ASSUME section \in DOMAIN OptionSections
    PROVE  Opened(6, "options") = OptionSections[section]
BY SectionNames DEF Opened

LEMMA NothingOpens ==
    ASSUME section \in Mappings, NEW key, ~Misfiled(section, key)
    PROVE  Opened(4, key) = "NONE"
BY SectionNames, SectionsAreMappings DEF Opened, Misfiled
-----------------------------------------------------------------------------
(* What a field does                                                       *)

(* The keys of the device, which no section and no option list is named.   *)
LEMMA DeviceKeys ==
    /\ \A key \in DOMAIN DeviceSections : ~Known("DEVICES", key)
    /\ ~Known("DEVICES", "options")
    /\ \A mapping \in DOMAIN OptionSections : ~Known(mapping, "options")
    /\ Known("DEVICES", "device_id")
BY SectionNames, MappingNames DEF Known, IsOption, NumberFields

(* A malformed field is one that its mapping knows.                        *)
LEMMA MalformedIsKnown ==
    ASSUME NEW mapping, NEW key, NEW value, Malformed(mapping, key, value)
    PROVE  Known(mapping, key)
BY DEF Malformed, Known

LEMMA TargetIsMapping ==
    ASSUME NEW in, NEW key
    PROVE  Target(in, key) \in Mappings
BY SectionNames, MappingNames DEF Target, IsOption

(* A field that is not misfiled is known, and refused, where it is         *)
(* written, and is filed there.                                            *)
LEMMA FieldIsFiled ==
    ASSUME NEW mapping \in Mappings, NEW key, NEW value,
           ~Misfiled(mapping, key)
    PROVE  /\ Known(Target(mapping, key), key) <=> Known(mapping, key)
           /\ Known(mapping, key) => Target(mapping, key) = mapping
           /\ Malformed(Target(mapping, key), key, value)
                 <=> Malformed(mapping, key, value)
<1>1. CASE Target(mapping, key) = mapping
    BY <1>1
<1>2. CASE Target(mapping, key) # mapping
  <2>1. /\ mapping \in DOMAIN OptionSections /\ key # "name"
        /\ Target(mapping, key) = "DEVICES"
      BY <1>2, SectionNames, MappingNames DEF Target, IsOption
  <2>2. ~Known("DEVICES", key)
      BY <2>1 DEF Misfiled
  <2>3. ~Known(mapping, key)
      BY <2>1, SectionNames, MappingNames DEF Known, IsOption
  <2> QED
      BY <2>1, <2>2, <2>3, MalformedIsKnown
<1> QED
    BY <1>1, <1>2

(* A field adds at most itself to the device.                              *)
LEMMA ParsedAdds ==
    ASSUME NEW device \in SUBSET Fields, NEW in, NEW key \in Keys,
           NEW value \in Values \cup {Empty}
    PROVE  /\ ParseField(device, in, key, value) \in SUBSET Fields
           /\ ParseField(device, in, key, value)
                 \subseteq device \cup {<<Target(in, key), key, value>>}
<1>1. <<Target(in, key), key, value>> \in Fields
    BY TargetIsMapping DEF Fields
<1>2. ParseField(device, in, key, value)
         \subseteq device \cup {<<Target(in, key), key, value>>}
    BY DEF ParseField, Stored
<1> QED
    BY <1>1, <1>2

(* A field that is new to its mapping, well formed and not misfiled is     *)
(* added to what the device means.                                         *)
LEMMA FieldIsMeant ==
    ASSUME NEW mapping \in Mappings, NEW key, NEW value, NEW item,
           \A f \in item : f[1] # mapping \/ f[2] # key,
           ~Misfiled(mapping, key), ~Malformed(mapping, key, value)
    PROVE  ParseField(Meant(item), mapping, key, value)
              = Meant(item \cup {<<mapping, key, value>>})
<1> DEFINE field == <<mapping, key, value>>
<1>0. field[1] = mapping /\ field[2] = key
    OBVIOUS
<1>1. ~Malformed(Target(mapping, key), key, value)
    BY FieldIsFiled
<1>2. CASE Known(mapping, key)
  <2>1. Target(mapping, key) = mapping /\ Known(Target(mapping, key), key)
      BY <1>2, FieldIsFiled
  <2>2. ParseField(Meant(item), mapping, key, value)
           = Stored(Meant(item), mapping, key, value)
      BY <2>1, <1>1 DEF ParseField
  <2>3. \A f \in Meant(item) : f[1] # mapping \/ f[2] # key
      BY DEF Meant
  <2>4. Stored(Meant(item), mapping, key, value) = Meant(item) \cup {field}
      BY <2>3 DEF Stored
  <2>5. Meant(item \cup {field}) = Meant(item) \cup {field}
      BY <1>0, <1>2 DEF Meant
  <2> QED
      BY <2>2, <2>4, <2>5
<1>3. CASE ~Known(mapping, key)
  <2>1. ParseField(Meant(item), mapping, key, value) = Meant(item)
      BY <1>3, FieldIsFiled DEF ParseField
  <2>2. Meant(item \cup {field}) = Meant(item)
      BY <1>0, <1>3 DEF Meant
  <2> QED
      BY <2>1, <2>2
<1> QED
    BY <1>2, <1>3

-----------------------------------------------------------------------------
(* The last of a list                                                      *)

LEMMA LastReplaced ==
    ASSUME NEW S, NEW s \in Seq(S), s # <<>>, NEW x \in S
    PROVE  /\ [s EXCEPT ![Len(s)] = x] \in Seq(S)
           /\ [s EXCEPT ![Len(s)] = x] # <<>>
           /\ Len([s EXCEPT ![Len(s)] = x]) = Len(s)
           /\ [s EXCEPT ![Len(s)] = x][Len(s)] = x
           /\ \A i \in 1..Len(s) :
                i # Len(s) => [s EXCEPT ![Len(s)] = x][i] = s[i]
           /\ Last([s EXCEPT ![Len(s)] = x]) = x
<1> DEFINE t == [s EXCEPT ![Len(s)] = x]
<1>1. Len(s) \in Nat /\ Len(s) # 0 /\ DOMAIN s = 1..Len(s)
    OBVIOUS
<1>2. t \in Seq(S) /\ Len(t) = Len(s)
    BY <1>1
<1>3. t[Len(s)] = x
    BY <1>1
<1>4. \A i \in 1..Len(s) : i # Len(s) => t[i] = s[i]
    BY <1>1
<1>5. Last(t) = x
    BY <1>2, <1>3 DEF Last
<1>6. t # <<>>
    BY <1>1, <1>2
<1> QED
    BY <1>2, <1>3, <1>4, <1>5, <1>6

LEMMA FieldsReplaced ==
    ASSUME NEW s \in Seq(SUBSET Fields), s # <<>>, NEW x \in SUBSET Fields,
           NEW t, t = [s EXCEPT ![Len(s)] = x]
    PROVE  /\ t \in Seq(SUBSET Fields) /\ t # <<>>
           /\ Len(t) = Len(s) /\ DOMAIN t = 1..Len(s)
           /\ t[Len(s)] = x /\ Last(t) = x
           /\ \A i \in 1..Len(s) : i # Len(s) => t[i] = s[i]
<1> DEFINE S == SUBSET Fields
<1>1. s \in Seq(S) /\ x \in S
    OBVIOUS
<1> HIDE DEF S
<1> DEFINE grown == [s EXCEPT ![Len(s)] = x]
<1>2. /\ grown \in Seq(S) /\ grown # <<>> /\ Len(grown) = Len(s)
      /\ grown[Len(s)] = x
      /\ \A i \in 1..Len(s) : i # Len(s) => grown[i] = s[i]
    BY <1>1, LastReplaced
<1>3. DOMAIN grown = 1..Len(s)
    BY <1>1
<1>4. t = grown
    OBVIOUS
<1> HIDE DEF grown
<1>5. Last(t) = x
    BY <1>2, <1>4 DEF Last
<1> QED
    BY <1>2, <1>3, <1>4, <1>5 DEF S

LEMMA LastIsWritten ==
    ASSUME NEW S, NEW s \in Seq(S), s # <<>>
    PROVE  /\ Last(s) = s[Len(s)] /\ s[Len(s)] \in S
           /\ Len(s) \in DOMAIN s
           /\ DOMAIN s = 1..Len(s) /\ Len(s) \in Nat
BY DEF Last

-----------------------------------------------------------------------------
(* A line in an item                                                       *)

(* What `key: value' or `key:' in an item changes, wherever the parser is. *)
LEMMA ItemGrows ==
    ASSUME TypeOK, paths = dirs, DevicesKeepApart, rc = "OK", items # <<>>,
           NEW mapping \in Mappings, NEW key \in Keys,
           NEW value \in Values \cup {Empty}, NEW indent,
           Write(mapping, key, value), ReadKey(indent, key, value, <<>>),
           UNCHANGED <<dirs, idFirst>>
    PROVE  /\ items' \in Seq(SUBSET Fields) /\ devices' \in Seq(SUBSET Fields)
           /\ rc' \in {"OK", "INVAL"}
           /\ items' # <<>> /\ Len(items') = Len(items)
           /\ Last(items') = Last(items) \cup {<<mapping, key, value>>}
           /\ paths' = dirs'
           /\ DevicesKeepApart'
<1> DEFINE field == <<mapping, key, value>>
           written == items[Len(items)] \cup {field}
<1>0. /\ items \in Seq(SUBSET Fields) /\ devices \in Seq(SUBSET Fields)
      /\ field \in Fields /\ field[2] = key /\ field[3] = value
    BY DEF TypeOK, Fields
<1>1. written \in SUBSET Fields /\ Last(items) = items[Len(items)]
    BY <1>0, LastIsWritten
<1>2. items' = [items EXCEPT ![Len(items)] = written]
    BY DEF Write
<1>3. /\ items' \in Seq(SUBSET Fields) /\ items' # <<>>
      /\ Len(items') = Len(items) /\ Last(items') = written
      /\ items'[Len(items)] = written
      /\ \A i \in 1..Len(items) : i # Len(items) => items'[i] = items[i]
  <2> HIDE DEF written, field
  <2>1. /\ items' \in Seq(SUBSET Fields) /\ items' # <<>>
        /\ Len(items') = Len(items) /\ items'[Len(items)] = written
        /\ \A i \in 1..Len(items) : i # Len(items) => items'[i] = items[i]
      BY <1>0, <1>1, <1>2, FieldsReplaced
  <2>2. Last(items') = written
      BY <2>1 DEF Last
  <2> QED
      BY <2>1, <2>2
<1>4. \A i \in 1..Len(items) : items[i] \subseteq items'[i]
    BY <1>3
<1>5. paths' = paths
  <2>1. CASE ReadSection(indent, key, <<>>)
    <3>1. CASE UNCHANGED paths
        BY <3>1
    <3>2. CASE section' \in DOMAIN NoPaths /\ AddPaths(section', <<>>)
      <4>1. paths \in [DOMAIN NoPaths -> Seq(SearchPaths)]
          BY DEF TypeOK
      <4>2. paths[section'] \o <<>> = paths[section']
          BY <3>2, <4>1, ConcatEmptySeq
      <4> QED
          BY <3>2, <4>1, <4>2 DEF AddPaths
    <3> QED
        BY <2>1, <3>1, <3>2 DEF ReadSection
  <2>2. CASE ReadField(indent, key, value)
      BY <2>2 DEF ReadField
  <2> QED
      BY <2>1, <2>2 DEF ReadKey
<1>6. \/ devices' = devices /\ rc' = rc
      \/ /\ devices # <<>>
         /\ devices' = [devices EXCEPT ![Len(devices)] =
                           ParseField(@, section, key, value)]
         /\ rc' = FieldResult(section, key, value)
    BY DEF ReadKey, ReadSection, ReadField
<1>7. CASE devices' = devices /\ rc' = rc
  <2>1. DevicesKeepApart'
    <3>1. SUFFICES ASSUME idFirst
                   PROVE  /\ Len(devices') = Len(items')
                          /\ \A i \in DOMAIN items' : \A f \in devices'[i] :
                                \E g \in items'[i] : f[2] = g[2] /\ f[3] = g[3]
        BY DEF DevicesKeepApart
    <3>2. /\ Len(devices) = Len(items)
          /\ \A i \in DOMAIN items : \A f \in devices[i] :
                \E g \in items[i] : f[2] = g[2] /\ f[3] = g[3]
        BY <3>1 DEF DevicesKeepApart
    <3>3. DOMAIN items' = 1..Len(items) /\ DOMAIN items = 1..Len(items)
        BY <1>0, <1>3
    <3>4. ASSUME NEW i \in DOMAIN items', NEW f \in devices'[i]
          PROVE  \E g \in items'[i] : f[2] = g[2] /\ f[3] = g[3]
      <4>1. i \in 1..Len(items) /\ f \in devices[i]
          BY <1>7, <3>3, <3>4
      <4>2. PICK g \in items[i] : f[2] = g[2] /\ f[3] = g[3]
          BY <3>2, <3>3, <4>1
      <4> QED
          BY <1>4, <4>1, <4>2
    <3> QED
        BY <1>3, <1>7, <3>2, <3>4
  <2> QED
      BY <1>0, <1>1, <1>3, <1>5, <1>7, <2>1
<1>8. CASE /\ devices # <<>>
           /\ devices' = [devices EXCEPT ![Len(devices)] =
                             ParseField(@, section, key, value)]
           /\ rc' = FieldResult(section, key, value)
  <2> DEFINE old == devices[Len(devices)]
             new == ParseField(old, section, key, value)
             parsed == <<Target(section, key), key, value>>
  <2>1. old \in SUBSET Fields
      BY <1>0, <1>8, LastIsWritten
  <2>2. new \in SUBSET Fields /\ new \subseteq old \cup {parsed}
      BY <2>1, ParsedAdds
  <2>3. parsed[2] = key /\ parsed[3] = value
      OBVIOUS
  <2>4. devices' = [devices EXCEPT ![Len(devices)] = new]
      BY <1>8
  <2>5. /\ devices' \in Seq(SUBSET Fields)
        /\ Len(devices') = Len(devices)
        /\ devices'[Len(devices)] = new
        /\ \A i \in 1..Len(devices) :
              i # Len(devices) => devices'[i] = devices[i]
      BY <1>0, <1>8, <2>2, <2>4, LastReplaced
  <2>6. rc' \in {"OK", "INVAL"}
      BY <1>8 DEF FieldResult
  <2>7. DevicesKeepApart'
    <3>1. SUFFICES ASSUME idFirst
                   PROVE  /\ Len(devices') = Len(items')
                          /\ \A i \in DOMAIN items' : \A f \in devices'[i] :
                                \E g \in items'[i] : f[2] = g[2] /\ f[3] = g[3]
        BY DEF DevicesKeepApart
    <3>2. /\ Len(devices) = Len(items)
          /\ \A i \in DOMAIN items : \A f \in devices[i] :
                \E g \in items[i] : f[2] = g[2] /\ f[3] = g[3]
        BY <3>1 DEF DevicesKeepApart
    <3>3. /\ DOMAIN items' = 1..Len(items) /\ DOMAIN items = 1..Len(items)
          /\ Len(items) \in 1..Len(items)
        BY <1>0, <1>3, LastIsWritten
    <3>4. ASSUME NEW i \in 1..Len(items), NEW f \in devices'[i]
          PROVE  \E g \in items'[i] : f[2] = g[2] /\ f[3] = g[3]
      <4>1. CASE i # Len(items)
        <5>1. devices'[i] = devices[i] /\ items'[i] = items[i]
            BY <1>3, <2>5, <3>2, <4>1
        <5> QED
            BY <3>2, <3>3, <3>4, <5>1
      <4>2. CASE i = Len(items) /\ f \in old
        <5>1. \E g \in items[i] : f[2] = g[2] /\ f[3] = g[3]
            BY <3>2, <3>3, <4>2
        <5> QED
            BY <1>4, <3>3, <4>2, <5>1
      <4>3. CASE i = Len(items) /\ f = parsed
          BY <1>0, <1>3, <2>3, <4>3
      <4>4. i = Len(items) => f \in new
          BY <2>5, <3>2, <3>4
      <4>5. new \subseteq old \cup {parsed}
          BY <2>2
      <4> HIDE DEF new, old, parsed
      <4> QED
          BY <4>1, <4>2, <4>3, <4>4, <4>5
    <3> QED
        BY <1>3, <2>5, <3>2, <3>3, <3>4
  <2> QED
      BY <1>0, <1>1, <1>3, <1>5, <2>5, <2>6, <2>7
<1> QED
    BY <1>6, <1>7, <1>8

(* A line of an item is malformed exactly if a malformed field is written. *)
LEMMA MalformedIsWritten ==
    ASSUME TypeOK, items # <<>>, NEW mapping \in Mappings, NEW key \in Keys,
           NEW value \in Values \cup {Empty}, Write(mapping, key, value),
           \A i \in DOMAIN items : \A f \in items[i] :
              ~Malformed(f[1], f[2], f[3])
    PROVE  (\E i \in DOMAIN items' : \E f \in items'[i] :
               Malformed(f[1], f[2], f[3]))
              <=> Malformed(mapping, key, value)
<1> DEFINE field == <<mapping, key, value>>
           written == items[Len(items)] \cup {field}
<1>0. /\ items \in Seq(SUBSET Fields) /\ field \in Fields
      /\ field[1] = mapping /\ field[2] = key /\ field[3] = value
    BY DEF TypeOK, Fields
<1>1. /\ written \in SUBSET Fields /\ Len(items) \in DOMAIN items
      /\ DOMAIN items = 1..Len(items)
    BY <1>0, LastIsWritten
<1>2. items' = [items EXCEPT ![Len(items)] = written]
    BY DEF Write
<1>3. /\ items' \in Seq(SUBSET Fields) /\ Len(items') = Len(items)
      /\ items'[Len(items)] = written
      /\ \A i \in 1..Len(items) : i # Len(items) => items'[i] = items[i]
  <2> HIDE DEF written, field
  <2> QED
      BY <1>0, <1>1, <1>2, FieldsReplaced
<1>4. DOMAIN items' = DOMAIN items
    BY <1>1, <1>2
<1>5. ASSUME NEW i \in DOMAIN items', NEW f \in items'[i],
             Malformed(f[1], f[2], f[3])
      PROVE  Malformed(mapping, key, value)
  <2>1. f \notin items[i]
      BY <1>4, <1>5
  <2>2. f = field
      BY <1>1, <1>3, <1>4, <1>5, <2>1
  <2> QED
      BY <1>0, <1>5, <2>2
<1>6. ASSUME Malformed(mapping, key, value)
      PROVE  \E i \in DOMAIN items' : \E f \in items'[i] :
                Malformed(f[1], f[2], f[3])
  <2>1. field \in items'[Len(items)] /\ Len(items) \in DOMAIN items'
      BY <1>1, <1>3, <1>4
  <2>2. Malformed(field[1], field[2], field[3])
      BY <1>0, <1>6
  <2> QED
      BY <2>1, <2>2
<1> QED
    BY <1>5, <1>6
(* While a document of the documented shape is read, nothing malformed has *)
(* been written.                                                           *)
LEMMA SoFarWellFormed ==
    ASSUME ReadAsMeant, idFirst, inOrder, rc = "OK"
    PROVE  /\ Faithful
           /\ \A i \in DOMAIN items : \A f \in items[i] :
                 ~Malformed(f[1], f[2], f[3])
BY DEF ReadAsMeant

(* A scalar where it belongs is read as it is meant.                       *)
LEMMA ScalarIsMeant ==
    ASSUME TypeOK, ReadAsMeant, idFirst, inOrder, rc = "OK", items # <<>>,
           NEW key \in Keys, NEW value \in Values \cup {Empty},
           section \in Mappings, Unused(section, key),
           ~Misfiled(section, key), Write(section, key, value),
           ReadField(4, key, value)
    PROVE  /\ rc' = "OK" => Faithful'
           /\ rc' = "INVAL" <=>
                 \E i \in DOMAIN items' : \E f \in items'[i] :
                     Malformed(f[1], f[2], f[3])
<1> DEFINE last == Len(items)
           field == <<section, key, value>>
           written == items[last] \cup {field}
           new == ParseField(Meant(items[last]), section, key, value)
<1>0. /\ items \in Seq(SUBSET Fields) /\ devices \in Seq(SUBSET Fields)
      /\ field \in Fields
    BY DEF TypeOK, Fields
<1>1. Faithful /\ \A i \in DOMAIN items : \A f \in items[i] :
                     ~Malformed(f[1], f[2], f[3])
    BY SoFarWellFormed
<1>2. /\ last \in DOMAIN items /\ DOMAIN items = 1..last
      /\ Len(devices) = last /\ DOMAIN devices = 1..last
      /\ devices # <<>> /\ devices[last] = Meant(items[last])
      /\ Last(items) = items[last] /\ written \in SUBSET Fields
  <2>1. /\ last \in DOMAIN items /\ DOMAIN items = 1..last
        /\ Last(items) = items[last] /\ items[last] \in SUBSET Fields
      BY <1>0, LastIsWritten
  <2>2. /\ Len(devices) = last /\ devices # <<>> /\ DOMAIN devices = 1..last
        /\ devices[last] = Meant(items[last])
      BY <1>0, <1>1, <2>1 DEF Faithful
  <2> QED
      BY <1>0, <2>1, <2>2
<1>3. /\ devices' = [devices EXCEPT ![last] = new]
      /\ rc' = FieldResult(section, key, value)
    BY <1>2 DEF ReadField
<1>4. rc' = "INVAL" <=> Malformed(section, key, value)
    BY <1>3, FieldIsFiled DEF FieldResult
<1>5. rc' = "INVAL" <=>
         \E i \in DOMAIN items' : \E f \in items'[i] :
             Malformed(f[1], f[2], f[3])
    BY <1>1, <1>4, MalformedIsWritten
<1>6. ASSUME rc' = "OK"
      PROVE  Faithful'
  <2>1. ~Malformed(section, key, value)
      BY <1>4, <1>6
  <2>2. \A f \in items[last] : f[1] # section \/ f[2] # key
      BY <1>2 DEF Unused
  <2>3. new = Meant(written)
      BY <2>1, <2>2, FieldIsMeant
  <2>4. items' = [items EXCEPT ![last] = written]
      BY DEF Write
  <2>10. new \in SUBSET Fields
      BY <1>0, <1>2, <1>3, ParsedAdds
  <2> HIDE DEF new, written
  <2>5. /\ Len(items') = last /\ DOMAIN items' = 1..last
        /\ items'[last] = written
        /\ \A i \in 1..last : i # last => items'[i] = items[i]
      BY <1>0, <1>2, <2>4, FieldsReplaced
  <2>6. /\ Len(devices') = last /\ devices'[last] = new
        /\ \A i \in 1..last : i # last => devices'[i] = devices[i]
      BY <1>0, <1>2, <1>3, <2>10, FieldsReplaced
  <2>7. \A i \in 1..last : devices[i] = Meant(items[i])
      BY <1>1, <1>2 DEF Faithful
  <2>8. ASSUME NEW i \in 1..last
        PROVE  devices'[i] = Meant(items'[i])
    <3>1. CASE i = last
        BY <2>3, <2>5, <2>6, <3>1
    <3>2. CASE i # last
        BY <2>5, <2>6, <2>7, <3>2
    <3> QED
        BY <3>1, <3>2
  <2>9. Len(devices') = Len(items')
      BY <2>5, <2>6
  <2> QED
      BY <2>5, <2>8, <2>9 DEF Faithful, Meant
<1> QED
    BY <1>5, <1>6

(* The key of a mapping opens a section, and changes nothing else.         *)
LEMMA SectionMeansNothing ==
    ASSUME TypeOK, ReadAsMeant, idFirst, inOrder, rc = "OK", items # <<>>,
           NEW mapping \in Mappings, NEW key \in Keys,
           ~Known(mapping, key), Write(mapping, key, Empty),
           UNCHANGED <<devices, rc>>
    PROVE  /\ Faithful'
           /\ rc' = "INVAL" <=>
                 \E i \in DOMAIN items' : \E f \in items'[i] :
                     Malformed(f[1], f[2], f[3])
<1> DEFINE last == Len(items)
           field == <<mapping, key, Empty>>
           written == items[last] \cup {field}
<1>0. items \in Seq(SUBSET Fields) /\ devices \in Seq(SUBSET Fields)
    BY DEF TypeOK
<1>1. Faithful /\ \A i \in DOMAIN items : \A f \in items[i] :
                     ~Malformed(f[1], f[2], f[3])
    BY SoFarWellFormed
<1>2. last \in DOMAIN items /\ DOMAIN items = 1..last
    BY <1>0, LastIsWritten
<1>3. rc' = "INVAL" <=>
         \E i \in DOMAIN items' : \E f \in items'[i] :
             Malformed(f[1], f[2], f[3])
  <2>1. ~Malformed(mapping, key, Empty)
      BY MalformedIsKnown
  <2> QED
      BY <1>1, <2>1, MalformedIsWritten
<1>4. Meant(written) = Meant(items[last])
  <2> DEFINE item == items[last]
  <2>1. Meant(item \cup {field}) = Meant(item)
    <3>1. field[1] = mapping /\ field[2] = key
        OBVIOUS
    <3> HIDE DEF item, field
    <3> QED
        BY <3>1 DEF Meant
  <2> QED
      BY <2>1
<1>5. items' = [items EXCEPT ![last] = written]
    BY DEF Write
<1>9. written \in SUBSET Fields
    BY <1>0, LastIsWritten DEF Fields
<1> HIDE DEF written
<1>6. /\ Len(items') = last /\ DOMAIN items' = 1..last
      /\ items'[last] = written
      /\ \A i \in 1..last : i # last => items'[i] = items[i]
    BY <1>0, <1>2, <1>5, <1>9, FieldsReplaced
<1>7. ASSUME NEW i \in 1..last
      PROVE  devices'[i] = Meant(items'[i])
  <2>1. devices'[i] = Meant(items[i])
      BY <1>1, <1>2 DEF Faithful
  <2>2. CASE i = last
      BY <1>4, <1>6, <2>1, <2>2
  <2>3. CASE i # last
      BY <1>6, <2>1, <2>3
  <2> QED
      BY <2>2, <2>3
<1>8. Len(devices') = Len(items')
    BY <1>1, <1>6 DEF Faithful
<1> QED
    BY <1>3, <1>6, <1>7, <1>8 DEF Faithful, Meant
-----------------------------------------------------------------------------
(* Every document is read as it is meant                                   *)

LEMMA ReadAtFirst ==
    ASSUME Init
    PROVE  TextInv
<1> USE DEF Init
<1>1. NoPaths \in [DOMAIN NoPaths -> Seq(SearchPaths)]
    BY DEF NoPaths
<1>2. TypeOK
    BY <1>1 DEF TypeOK, Places
<1>3. PathsFollow
    BY SectionNames DEF PathsFollow, NoPaths
<1>4. ItemsAreOpen
    BY SectionNames, MappingNames DEF ItemsAreOpen
<1>5. SectionFollows
    BY MappingNames DEF SectionFollows
<1>6. ReadAsMeant
    BY DEF ReadAsMeant, Faithful
<1>7. DevicesKeepApart
    BY DEF DevicesKeepApart
<1> QED
    BY <1>2, <1>3, <1>4, <1>5, <1>6, <1>7 DEF TextInv

(* What a line that is in no item leaves as it was.                        *)
LEMMA ItemsKept ==
    ASSUME TextInv, UNCHANGED <<items, devices, rc, idFirst, inOrder>>
    PROVE  ReadAsMeant' /\ DevicesKeepApart'
BY DEF TextInv, ReadAsMeant, DevicesKeepApart, Faithful

LEMMA TopIsRead ==
    ASSUME TextInv, NEW key \in DOMAIN TopSections, WriteTop(key)
    PROVE  TextInv'
<1>1. Opened(0, key) = TopSections[key] /\ TopSections[key] # "NONE"
    BY TopOpens, SectionNames
<1>2. ReadSection(0, key, <<>>)
    BY <1>1 DEF WriteTop, ReadKey, ReadField
<1>3. /\ section' = TopSections[key]
      /\ UNCHANGED <<devices, rc, paths, items, dirs, idFirst, inOrder>>
      /\ top' = top \cup {key}
      /\ at' = IF key = "devices" THEN "LIST" ELSE "PLUGIN_PATHS"
    BY <1>1, <1>2, SectionNames DEF WriteTop, ReadSection
<1>4. TypeOK'
    BY <1>3 DEF TextInv, TypeOK, Places
<1>5. PathsFollow'
    BY <1>3, SectionNames DEF TextInv, PathsFollow, PluginSections
<1>6. ItemsAreOpen'
    BY <1>3, SectionNames, MappingNames DEF ItemsAreOpen
<1>7. SectionFollows'
    BY <1>3, SectionNames, MappingNames DEF SectionFollows
<1> QED
    BY <1>3, <1>4, <1>5, <1>6, <1>7, ItemsKept DEF TextInv

LEMMA PathListIsRead ==
    ASSUME TextInv, NEW key \in DOMAIN PathSections,
           NEW list \in {<<>>} \cup {<<p>> : p \in SearchPaths},
           WritePathList(key, list)
    PROVE  TextInv'
<1> DEFINE opened == PathSections[key]
<1>0. TypeOK /\ PathsFollow
    BY DEF TextInv
<1>1. section \in PluginSections
    BY <1>0, WhatIsOpen, SectionNames
    DEF WritePathList, TypeOK, PathsFollow, PluginSections
<1>2. Opened(2, key) = opened /\ opened # "NONE" /\ opened \in DOMAIN NoPaths
    BY <1>1, PathListOpens, SectionNames
<1>3. ReadSection(2, key, list)
    BY <1>2 DEF WritePathList, ReadKey, ReadField
<1>4. /\ section' = opened /\ AddPaths(opened, list)
      /\ dirs' = [dirs EXCEPT ![opened] = list]
      /\ UNCHANGED <<devices, rc, items, idFirst, inOrder>>
      /\ key \notin top /\ top' = top \cup {key}
      /\ at' = IF list = <<>> THEN opened ELSE "PLUGIN_PATHS"
    BY <1>2, <1>3 DEF WritePathList, ReadSection
<1>5. list \in Seq(SearchPaths)
  <2>1. CASE list = <<>>
      BY <2>1
  <2>2. CASE \E p \in SearchPaths : list = <<p>>
      BY <2>2
  <2> QED
      BY <2>1, <2>2
<1>6. dirs' \in [DOMAIN NoPaths -> Seq(SearchPaths)]
    BY <1>0, <1>4, <1>5 DEF TypeOK
<1>7. TypeOK'
    BY <1>0, <1>2, <1>4, <1>6 DEF TypeOK, Places
<1>8. paths' = dirs'
  <2>1. dirs[opened] = <<>> /\ paths = dirs
      BY <1>0, <1>4 DEF PathsFollow
  <2>2. dirs[opened] \o list = list
      BY <1>5, <2>1, ConcatEmptySeq
  <2> QED
      BY <1>4, <2>1, <2>2 DEF AddPaths
<1>9. PathsFollow'
  <2>1. section' \in PluginSections
      BY <1>4, SectionNames DEF PluginSections
  <2>2. \A k \in DOMAIN PathSections :
           k \notin top' => /\ dirs'[PathSections[k]] = <<>>
                           /\ at' # PathSections[k]
      BY <1>0, <1>4, SectionNames DEF PathsFollow, TypeOK
  <2> QED
      BY <1>4, <1>8, <2>1, <2>2, SectionNames DEF PathsFollow
<1>10. ItemsAreOpen'
    BY <1>2, <1>4, SectionNames, MappingNames DEF ItemsAreOpen
<1>11. SectionFollows'
    BY <1>2, <1>4, SectionNames, MappingNames DEF SectionFollows
<1> QED
    BY <1>4, <1>7, <1>9, <1>10, <1>11, ItemsKept DEF TextInv

LEMMA PathIsRead ==
    ASSUME TextInv, NEW path \in SearchPaths, WritePath(path)
    PROVE  TextInv'
<1>0. TypeOK /\ PathsFollow
    BY DEF TextInv
<1>1. /\ at \in DOMAIN NoPaths /\ section = at
      /\ dirs' = [dirs EXCEPT ![at] = Append(@, path)]
      /\ paths' = [paths EXCEPT ![at] = @ \o <<path>>]
      /\ UNCHANGED <<section, devices, rc, at, top, items, idFirst, inOrder>>
    BY <1>0 DEF WritePath, ReadPathItem, AddPaths, PathsFollow
<1>2. dirs[at] \in Seq(SearchPaths)
    BY <1>0, <1>1 DEF TypeOK
<1>3. Append(dirs[at], path) = dirs[at] \o <<path>>
    BY <1>2, AppendIsConcat
<1>4. TypeOK'
  <2>1. dirs' \in [DOMAIN NoPaths -> Seq(SearchPaths)]
      BY <1>0, <1>1, <1>2 DEF TypeOK
  <2> QED
      BY <1>0, <1>1, <2>1 DEF TypeOK
<1>5. paths' = dirs'
    BY <1>0, <1>1, <1>3 DEF PathsFollow
<1>6. \A key \in DOMAIN PathSections :
         key \notin top => /\ dirs'[PathSections[key]] = <<>>
                          /\ at # PathSections[key]
    BY <1>0, <1>1, SectionsAreMappings DEF PathsFollow, TypeOK
<1>7. PathsFollow'
    BY <1>1, <1>5, <1>6, SectionsAreMappings DEF PathsFollow
<1>8. ItemsAreOpen' /\ SectionFollows'
    BY <1>1 DEF TextInv, ItemsAreOpen, SectionFollows, Unused
<1> QED
    BY <1>1, <1>4, <1>7, <1>8, ItemsKept DEF TextInv
(* An item that begins with its device_id is a device of its own.          *)
LEMMA DeviceStarts ==
    ASSUME TypeOK, ReadAsMeant, DevicesKeepApart, rc = "OK", idFirst,
           NEW key \in Keys, key = "device_id",
           NEW value \in Values \cup {Empty},
           items' = Append(items, {<<"DEVICES", "device_id", value>>}),
           devices' = Append(devices,
                             ParseField({}, "DEVICES", "device_id", value)),
           rc' = FieldResult("DEVICES", "device_id", value),
           UNCHANGED inOrder
    PROVE  /\ DevicesKeepApart'
           /\ inOrder =>
                /\ rc' = "OK" => Faithful'
                /\ rc' = "INVAL" <=>
                      \E i \in DOMAIN items' : \E f \in items'[i] :
                          Malformed(f[1], f[2], f[3])
<1> DEFINE field == <<"DEVICES", "device_id", value>>
           item == {field}
           new == ParseField({}, "DEVICES", "device_id", value)
           count == Len(items)
<1>0. /\ items \in Seq(SUBSET Fields) /\ devices \in Seq(SUBSET Fields)
      /\ field \in Fields
      /\ field[1] = "DEVICES" /\ field[2] = "device_id" /\ field[3] = value
  <2>1. items \in Seq(SUBSET Fields) /\ devices \in Seq(SUBSET Fields)
      BY DEF TypeOK
  <2>2. field \in Fields
      BY MappingNames DEF Fields
  <2> QED
      BY <2>1, <2>2
<1>1. new \in SUBSET Fields /\ new \subseteq item
  <2>1. new \subseteq {} \cup {<<Target("DEVICES", "device_id"), "device_id",
                                 value>>}
    <3>1. {} \in SUBSET Fields /\ "device_id" \in Keys
        OBVIOUS
    <3> QED
        BY <3>1, ParsedAdds
  <2>2. Target("DEVICES", "device_id") = "DEVICES"
      BY SectionNames DEF Target, IsOption
  <2> QED
      BY <1>0, <2>1, <2>2
<1>2. Len(devices) = count /\ count \in Nat
    BY <1>0 DEF DevicesKeepApart
<1>3. /\ DOMAIN items' = 1..(count + 1) /\ Len(items') = count + 1
      /\ items'[count + 1] = item
      /\ \A i \in 1..count : items'[i] = items[i]
      /\ DOMAIN items = 1..count
    BY <1>0, <1>2
<1>4. /\ Len(devices') = count + 1 /\ devices'[count + 1] = new
      /\ \A i \in 1..count : devices'[i] = devices[i]
    BY <1>0, <1>1, <1>2
<1>5. \A i \in 1..(count + 1) : i = count + 1 \/ i \in 1..count
    BY <1>2
<1>6. DevicesKeepApart'
  <2>1. \A i \in DOMAIN items : \A f \in devices[i] :
           \E g \in items[i] : f[2] = g[2] /\ f[3] = g[3]
      BY DEF DevicesKeepApart
  <2> HIDE DEF new, item, count
  <2>2. ASSUME NEW i \in DOMAIN items', NEW f \in devices'[i]
        PROVE  \E g \in items'[i] : f[2] = g[2] /\ f[3] = g[3]
    <3>1. CASE i = count + 1
        BY <1>1, <1>3, <1>4, <2>2, <3>1
    <3>2. CASE i \in 1..count
        BY <1>3, <1>4, <2>1, <2>2, <3>2
    <3> QED
        BY <1>3, <1>5, <3>1, <3>2
  <2> QED
      BY <1>3, <1>4, <2>2 DEF DevicesKeepApart
<1>7. ASSUME inOrder
      PROVE  /\ rc' = "OK" => Faithful'
             /\ rc' = "INVAL" <=>
                   \E i \in DOMAIN items' : \E f \in items'[i] :
                       Malformed(f[1], f[2], f[3])
  <2>1. Faithful /\ \A i \in DOMAIN items : \A f \in items[i] :
                       ~Malformed(f[1], f[2], f[3])
      BY <1>7, SoFarWellFormed
  <2>2. ~Misfiled("DEVICES", "device_id") /\ "DEVICES" \in Mappings
      BY SectionNames, MappingNames DEF Misfiled
  <2>3. rc' = "INVAL" <=> Malformed("DEVICES", "device_id", value)
      BY <2>2, FieldIsFiled DEF FieldResult
  <2>4. ~Malformed("DEVICES", "device_id", value) => new = Meant(item)
    <3>1. Meant({}) = {}
        BY DEF Meant
    <3>2. ~Malformed("DEVICES", "device_id", value)
             => ParseField(Meant({}), "DEVICES", "device_id", value)
                   = Meant({} \cup {field})
        BY <2>2, FieldIsMeant
    <3>3. {} \cup {field} = item
        OBVIOUS
    <3> QED
        BY <3>1, <3>2, <3>3
  <2>5. (\E i \in DOMAIN items' : \E f \in items'[i] :
            Malformed(f[1], f[2], f[3]))
           <=> Malformed("DEVICES", "device_id", value)
    <3>1. ASSUME NEW i \in DOMAIN items', NEW f \in items'[i],
                 Malformed(f[1], f[2], f[3])
          PROVE  Malformed("DEVICES", "device_id", value)
        BY <1>0, <1>3, <1>5, <2>1, <3>1
    <3>2. ASSUME Malformed("DEVICES", "device_id", value)
          PROVE  \E i \in DOMAIN items' : \E f \in items'[i] :
                    Malformed(f[1], f[2], f[3])
      <4>1. count + 1 \in DOMAIN items' /\ field \in items'[count + 1]
          BY <1>2, <1>3
      <4>2. Malformed(field[1], field[2], field[3])
          BY <1>0, <3>2
      <4> QED
          BY <4>1, <4>2
    <3> QED
        BY <3>1, <3>2
  <2>6. ASSUME rc' = "OK"
        PROVE  Faithful'
    <3>1. new = Meant(item)
        BY <2>3, <2>4, <2>6
    <3>2. \A i \in 1..count : devices[i] = Meant(items[i])
        BY <1>3, <2>1 DEF Faithful
    <3> HIDE DEF new, item, count
    <3>3. ASSUME NEW i \in DOMAIN items'
          PROVE  devices'[i] = Meant(items'[i])
      <4>1. CASE i = count + 1
          BY <1>3, <1>4, <3>1, <4>1
      <4>2. CASE i \in 1..count
          BY <1>3, <1>4, <3>2, <4>2
      <4> QED
          BY <1>3, <1>5, <4>1, <4>2
    <3>4. Len(devices') = Len(items')
        BY <1>3, <1>4
    <3> QED
        BY <3>3, <3>4 DEF Faithful, Meant
  <2> QED
      BY <2>3, <2>5, <2>6
<1> QED
    BY <1>6, <1>7

LEMMA ItemIsRead ==
    ASSUME TextInv, NEW key \in Keys, NEW value \in Values \cup {Empty},
           WriteItem(key, value)
    PROVE  TextInv'
<1> DEFINE item == {<<"DEVICES", key, value>>}
           new == ParseField({}, "DEVICES", key, value)
<1>0. TypeOK /\ PathsFollow /\ DevicesKeepApart /\ ReadAsMeant
    BY DEF TextInv
<1>1. /\ rc = "OK" /\ items' = Append(items, item)
      /\ at' = IF key \in DOMAIN DeviceSections THEN DeviceSections[key]
               ELSE "DEVICES"
      /\ idFirst' = (idFirst /\ key = "device_id")
      /\ ReadItem(key, value)
      /\ UNCHANGED <<paths, top, dirs, inOrder>>
    BY DEF WriteItem, MayWrite, ReadItem
<1>2. \/ UNCHANGED <<devices, section, rc>>
      \/ /\ devices' = Append(devices, new) /\ section' = "DEVICES"
         /\ rc' = FieldResult("DEVICES", key, value)
    BY <1>1 DEF ReadItem
<1>3. at' \in Mappings
    BY <1>1, SectionNames, MappingNames
<1>4. TypeOK'
  <2>1. item \in SUBSET Fields /\ new \in SUBSET Fields
      BY MappingNames, ParsedAdds DEF Fields
  <2>2. items' \in Seq(SUBSET Fields) /\ devices' \in Seq(SUBSET Fields)
    <3>1. items \in Seq(SUBSET Fields) /\ devices \in Seq(SUBSET Fields)
        BY <1>0 DEF TypeOK
    <3> HIDE DEF item, new
    <3>2. /\ Append(items, item) \in Seq(SUBSET Fields)
          /\ Append(devices, new) \in Seq(SUBSET Fields)
        BY <2>1, <3>1, AppendProperties
    <3> QED
        BY <1>1, <1>2, <3>1, <3>2
  <2>3. rc' \in {"OK", "INVAL"}
      BY <1>0, <1>2 DEF TypeOK, FieldResult
  <2> QED
      BY <1>0, <1>1, <1>3, <2>2, <2>3 DEF TypeOK, Places
<1>5. PathsFollow'
    BY <1>0, <1>1, <1>3, SectionsAreMappings DEF PathsFollow
<1>6. ItemsAreOpen'
  <2>1. items' # <<>>
      BY <1>0, <1>1 DEF TypeOK
  <2> QED
      BY <1>1, <2>1, SectionNames DEF ItemsAreOpen
<1>7. CASE idFirst'
  <2>1. idFirst /\ key = "device_id"
      BY <1>1, <1>7
  <2>2. /\ devices' = Append(devices, new) /\ section' = "DEVICES"
        /\ rc' = FieldResult("DEVICES", key, value)
      BY <1>1, <2>1 DEF ReadItem, StartsDevice
  <2>3. at' = "DEVICES"
      BY <1>1, <2>1, SectionNames
  <2>4. DevicesKeepApart' /\ ReadAsMeant'
      BY <1>0, <1>1, <2>1, <2>2, DeviceStarts DEF ReadAsMeant
  <2>5. SectionFollows'
      BY <2>2, <2>3 DEF SectionFollows
  <2> QED
      BY <1>4, <1>5, <1>6, <2>4, <2>5 DEF TextInv
<1>8. CASE ~idFirst'
  <2>1. SectionFollows' /\ ReadAsMeant' /\ DevicesKeepApart'
      BY <1>8 DEF SectionFollows, ReadAsMeant, DevicesKeepApart
  <2> QED
      BY <1>4, <1>5, <1>6, <2>1 DEF TextInv
<1> QED
    BY <1>7, <1>8
(* What every line of an item keeps.                                       *)
LEMMA ItemLineKeeps ==
    ASSUME TextInv, rc = "OK", NEW mapping \in Mappings, NEW key \in Keys,
           NEW value \in Values \cup {Empty}, NEW indent,
           mapping \in Open(at), at' \in Mappings,
           Write(mapping, key, value), ReadKey(indent, key, value, <<>>),
           UNCHANGED <<top, dirs, idFirst>>, inOrder' \in BOOLEAN
    PROVE  /\ TypeOK' /\ PathsFollow' /\ DevicesKeepApart'
           /\ items # <<>> /\ items' # <<>>
           /\ Last(items') = Last(items) \cup {<<mapping, key, value>>}
<1>0. TypeOK /\ PathsFollow /\ ItemsAreOpen /\ DevicesKeepApart
    BY DEF TextInv
<1>1. items # <<>>
    BY <1>0, WhatIsOpen DEF TypeOK, ItemsAreOpen
<1>2. paths = dirs
    BY <1>0 DEF PathsFollow
<1>3. /\ items' \in Seq(SUBSET Fields) /\ devices' \in Seq(SUBSET Fields)
      /\ rc' \in {"OK", "INVAL"}
      /\ items' # <<>>
      /\ Last(items') = Last(items) \cup {<<mapping, key, value>>}
      /\ paths' = dirs'
      /\ DevicesKeepApart'
    BY <1>0, <1>1, <1>2, ItemGrows
<1>4. TypeOK'
    BY <1>0, <1>3 DEF TypeOK, Places
<1>5. PathsFollow'
    BY <1>0, <1>3, SectionsAreMappings DEF PathsFollow
<1> QED
    BY <1>1, <1>3, <1>4, <1>5

LEMMA ScalarIsRead ==
    ASSUME TextInv, NEW mapping \in Mappings, NEW key \in Keys,
           NEW value \in Values, WriteScalar(mapping, key, value)
    PROVE  TextInv'
<1>0. /\ TypeOK /\ PathsFollow /\ ItemsAreOpen /\ SectionFollows
      /\ ReadAsMeant /\ DevicesKeepApart
    BY DEF TextInv
<1>1. /\ rc = "OK" /\ mapping \in Open(at) /\ Unused(mapping, key)
      /\ Write(mapping, key, value) /\ at' = mapping
      /\ inOrder' = (inOrder /\ at = mapping /\ ~Misfiled(mapping, key))
      /\ ReadKey(4, key, value, <<>>)
      /\ UNCHANGED <<top, dirs, idFirst>>
    BY DEF WriteScalar, MayWrite
<1>2. inOrder' \in BOOLEAN
    BY <1>1
<1>3. /\ TypeOK' /\ PathsFollow' /\ DevicesKeepApart'
      /\ items # <<>> /\ items' # <<>>
      /\ Last(items') = Last(items) \cup {<<mapping, key, value>>}
    BY <1>1, <1>2, ItemLineKeeps
<1>4. ItemsAreOpen'
  <2>1. ASSUME NEW m \in DOMAIN OptionSections, at' = OptionSections[m]
        PROVE  ~Unused(m, "options")'
    <3>1. at = OptionSections[m]
        BY <1>0, <1>1, <2>1, WhatIsOpen DEF TypeOK
    <3>2. ~Unused(m, "options")
        BY <1>0, <3>1 DEF ItemsAreOpen
    <3> QED
        BY <1>3, <3>2 DEF Unused
  <2> QED
      BY <1>3, <2>1 DEF ItemsAreOpen
<1>5. CASE idFirst' /\ inOrder'
  <2>1. /\ idFirst /\ inOrder /\ at = mapping /\ section = mapping
        /\ ~Misfiled(mapping, key)
      BY <1>0, <1>1, <1>5 DEF SectionFollows
  <2>2. ReadField(4, key, value)
      BY <1>1, <2>1, NothingOpens DEF ReadKey, ReadSection
  <2>3. /\ rc' = "OK" => Faithful'
        /\ rc' = "INVAL" <=>
              \E i \in DOMAIN items' : \E f \in items'[i] :
                  Malformed(f[1], f[2], f[3])
      BY <1>0, <1>1, <1>3, <2>1, <2>2, ScalarIsMeant
  <2>4. SectionFollows'
      BY <1>1, <2>1, <2>2, SectionsAreMappings DEF ReadField, SectionFollows
  <2> QED
      BY <1>3, <1>4, <2>3, <2>4 DEF ReadAsMeant, TextInv
<1>6. CASE ~(idFirst' /\ inOrder')
    BY <1>3, <1>4, <1>6 DEF SectionFollows, ReadAsMeant, TextInv
<1> QED
    BY <1>5, <1>6

LEMMA MappingIsRead ==
    ASSUME TextInv, NEW key \in DOMAIN DeviceSections, WriteMapping(key)
    PROVE  TextInv'
<1>0. /\ TypeOK /\ PathsFollow /\ ItemsAreOpen /\ SectionFollows
      /\ ReadAsMeant /\ DevicesKeepApart
    BY DEF TextInv
<1>1. /\ rc = "OK" /\ "DEVICES" \in Open(at)
      /\ Write("DEVICES", key, Empty) /\ at' = DeviceSections[key]
      /\ ReadKey(4, key, Empty, <<>>)
      /\ UNCHANGED <<top, dirs, idFirst, inOrder>>
    BY DEF WriteMapping, MayWrite
<1>2. /\ at' \in Mappings /\ inOrder' \in BOOLEAN
      /\ "DEVICES" \in Mappings /\ key \in Keys /\ Empty \in Values \cup {Empty}
    BY <1>0, <1>1, SectionsAreMappings, MappingNames DEF TypeOK, Keys
<1>3. /\ TypeOK' /\ PathsFollow' /\ DevicesKeepApart'
      /\ items # <<>> /\ items' # <<>>
    BY <1>1, <1>2, ItemLineKeeps
<1>4. ItemsAreOpen'
    BY <1>1, <1>3, SectionNames DEF ItemsAreOpen
<1>5. CASE idFirst /\ inOrder
  <2>1. devices # <<>>
      BY <1>0, <1>1, <1>3, <1>5 DEF DevicesKeepApart, TypeOK
  <2>2. ReadSection(4, key, <<>>) /\ Opened(4, key) = DeviceSections[key]
      BY <1>1, <2>1, MappingOpens, SectionsAreMappings DEF ReadKey, ReadField
  <2>3. section' = at' /\ UNCHANGED <<devices, rc>>
      BY <1>1, <2>2 DEF ReadSection
  <2>4. /\ Faithful'
        /\ rc' = "INVAL" <=>
              \E i \in DOMAIN items' : \E f \in items'[i] :
                  Malformed(f[1], f[2], f[3])
      BY <1>0, <1>1, <1>2, <1>3, <1>5, <2>3, DeviceKeys, SectionMeansNothing
  <2>5. SectionFollows'
      BY <1>2, <2>3, SectionsAreMappings DEF SectionFollows
  <2> QED
      BY <1>3, <1>4, <2>4, <2>5 DEF ReadAsMeant, TextInv
<1>6. CASE ~(idFirst /\ inOrder)
    BY <1>1, <1>3, <1>4, <1>6 DEF SectionFollows, ReadAsMeant, TextInv
<1> QED
    BY <1>5, <1>6

LEMMA OptionsAreRead ==
    ASSUME TextInv, NEW mapping \in DOMAIN OptionSections,
           WriteOptions(mapping)
    PROVE  TextInv'
<1>0. /\ TypeOK /\ PathsFollow /\ ItemsAreOpen /\ SectionFollows
      /\ ReadAsMeant /\ DevicesKeepApart
    BY DEF TextInv
<1>1. /\ rc = "OK" /\ mapping \in Open(at) /\ Unused(mapping, "options")
      /\ Write(mapping, "options", Empty) /\ at' = OptionSections[mapping]
      /\ ReadKey(6, "options", Empty, <<>>)
      /\ UNCHANGED <<top, dirs, idFirst, inOrder>>
    BY SectionNames DEF WriteOptions, MayWrite
<1>2. /\ at' \in Mappings /\ inOrder' \in BOOLEAN
      /\ mapping \in Mappings /\ "options" \in Keys
      /\ Empty \in Values \cup {Empty}
    BY <1>0, <1>1, SectionsAreMappings DEF TypeOK, Keys
<1>3. /\ TypeOK' /\ PathsFollow' /\ DevicesKeepApart'
      /\ items # <<>> /\ items' # <<>>
      /\ Last(items') = Last(items) \cup {<<mapping, "options", Empty>>}
    BY <1>1, <1>2, ItemLineKeeps
<1>4. ItemsAreOpen'
  <2>1. ASSUME NEW m \in DOMAIN OptionSections, at' = OptionSections[m]
        PROVE  ~Unused(m, "options")'
    <3>1. m = mapping
        BY <1>1, <2>1, SectionNames
    <3>2. /\ <<mapping, "options", Empty>>[1] = mapping
          /\ <<mapping, "options", Empty>>[2] = "options"
        OBVIOUS
    <3> QED
        BY <1>3, <3>1, <3>2 DEF Unused
  <2> QED
      BY <1>3, <2>1 DEF ItemsAreOpen
<1>5. CASE idFirst /\ inOrder
  <2>1. at = mapping
      BY <1>0, <1>1, WhatIsOpen DEF TypeOK, ItemsAreOpen
  <2>2. section = mapping
      BY <1>0, <1>2, <1>5, <2>1 DEF SectionFollows
  <2>3. /\ Opened(6, "options") = OptionSections[mapping]
        /\ OptionSections[mapping] # "NONE"
      BY <2>2, OptionsOpen, SectionNames
  <2>4. ReadSection(6, "options", <<>>)
      BY <1>1, <2>3 DEF ReadKey, ReadField
  <2>5. section' = at' /\ UNCHANGED <<devices, rc>>
      BY <1>1, <2>3, <2>4 DEF ReadSection
  <2>6. /\ Faithful'
        /\ rc' = "INVAL" <=>
              \E i \in DOMAIN items' : \E f \in items'[i] :
                  Malformed(f[1], f[2], f[3])
      BY <1>0, <1>1, <1>2, <1>3, <1>5, <2>5, DeviceKeys, SectionMeansNothing
  <2>7. SectionFollows'
      BY <1>2, <2>5, SectionsAreMappings DEF SectionFollows
  <2> QED
      BY <1>3, <1>4, <2>6, <2>7 DEF ReadAsMeant, TextInv
<1>6. CASE ~(idFirst /\ inOrder)
    BY <1>1, <1>3, <1>4, <1>6 DEF SectionFollows, ReadAsMeant, TextInv
<1> QED
    BY <1>5, <1>6

(* No line that an author may write breaks what holds of the lines so far. *)
LEMMA NextKeepsTextInv ==
    ASSUME TextInv, [Next]_vars
    PROVE  TextInv'
<1>0. /\ \A s \in Scalars : s[1] \in Mappings /\ s[2] \in Keys
      /\ DOMAIN DeviceSections \subseteq Keys /\ UsedMappings \subseteq Keys
      /\ UsedMappings \subseteq DOMAIN DeviceSections
    BY ScalarsAssumption DEF Keys, UsedMappings
<1>1. ASSUME NEW key \in DOMAIN TopSections, WriteTop(key)
      PROVE  TextInv'
    BY <1>1, TopIsRead
<1>2. ASSUME NEW key \in DOMAIN PathSections,
             NEW list \in {<<>>} \cup {<<p>> : p \in SearchPaths},
             WritePathList(key, list)
      PROVE  TextInv'
    BY <1>2, PathListIsRead
<1>3. ASSUME NEW path \in SearchPaths, WritePath(path)
      PROVE  TextInv'
    BY <1>3, PathIsRead
<1>4. ASSUME NEW s \in Scalars, NEW value \in Values, WriteItem(s[2], value)
      PROVE  TextInv'
    BY <1>0, <1>4, ItemIsRead
<1>5. ASSUME NEW key \in UsedMappings, WriteItem(key, Empty)
      PROVE  TextInv'
    BY <1>0, <1>5, ItemIsRead
<1>6. ASSUME NEW s \in Scalars, NEW value \in Values,
             WriteScalar(s[1], s[2], value)
      PROVE  TextInv'
    BY <1>0, <1>6, ScalarIsRead
<1>7. ASSUME NEW key \in UsedMappings, WriteMapping(key)
      PROVE  TextInv'
    BY <1>0, <1>7, MappingIsRead
<1>8. ASSUME NEW mapping \in DOMAIN OptionSections, WriteOptions(mapping)
      PROVE  TextInv'
    BY <1>8, OptionsAreRead
<1>9. CASE UNCHANGED vars
    BY <1>9 DEF vars, TextInv, TypeOK, PathsFollow, ItemsAreOpen,
       SectionFollows, ReadAsMeant, DevicesKeepApart, Faithful, Unused
<1> QED
    BY <1>1, <1>2, <1>3, <1>4, <1>5, <1>6, <1>7, <1>8, <1>9 DEF Next

LEMMA TextIsInvariant == Spec => []TextInv
<1>1. Init => TextInv
    BY ReadAtFirst
<1>2. TextInv /\ [Next]_vars => TextInv'
    BY NextKeepsTextInv
<1> QED
    BY <1>1, <1>2, PTL DEF Spec

(* Whatever sections a document of the documented shape has, and in        *)
(* whatever order, parse_yaml_text files every field and option in the     *)
(* device and the mapping it was written in and every search path in its   *)
(* list, and refuses the document exactly for a known field that is no     *)
(* number or too wide: for every vocabulary and every number of lines.     *)
THEOREM DocumentsAreReadAsWritten == Spec => []FieldsLandWhereWritten
<1>1. TextInv => FieldsLandWhereWritten
    BY DEF TextInv, ReadAsMeant, PathsFollow, FieldsLandWhereWritten
<1> QED
    BY <1>1, TextIsInvariant, PTL

(* parse_yaml_text never gives a device a value that was written for       *)
(* another one, wherever its keys are, as long as every item begins with   *)
(* its device_id.                                                          *)
THEOREM DevicesAreKeptApart == Spec => []DevicesKeepApart
<1>1. TextInv => DevicesKeepApart
    BY DEF TextInv
<1> QED
    BY <1>1, TextIsInvariant, PTL
=============================================================================
