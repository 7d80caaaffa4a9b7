---------------------------- MODULE ResourceTable ----------------------------
(***************************************************************************)
(* ResTable (libs/androidfw/ResourceTypes.cpp): resource packages are added  *)
(* to a table in some order; shared libraries get their package ID then, and *)
(* references to them, compiled with other IDs, are translated; overlays lie *)
(* over packages through idmaps; the best entry is looked up.                *)
(*                                                                          *)
(* An ID is <<package, type, entry>>, each from 1, package 0 is the package  *)
(* of the one who refers.  A package file is                                 *)
(*   [name, id, libs, target, types],                                        *)
(* id 0 for a library, libs from the names of the libraries it refers to to  *)
(* the IDs it was compiled with, target the name of the package it overlays, *)
(* or NoName.  A type is [name, entries], an entry [name, defs], where defs  *)
(* maps configurations to values.  A value is [kind, data]; that of a bag is *)
(* [kind |-> "bag", parent, attrs], attrs a sequence of <<attribute, value>>.*)
(***************************************************************************)
EXTENDS Integers, Sequences, FiniteSets, SequencesExt

CONSTANTS
  File,        \* the package files that may be added
  MaxParams    \* bound on setParameters

ASSUME TableBounds == MaxParams \in Nat

SYS_PACKAGE_ID == 1
APP_PACKAGE_ID == 127
NoName == "none"
NoID == <<0, 0, 0>>
Config == {"any", "land"}
NO_ENTRY == -1      \* 0xffffffff

VARIABLES
  table,      \* mPackageGroups, mNextPackageId
  params,     \* mParams: the configuration of the device
  loaded,     \* the files that have been added
  paramCalls  \* calls of setParameters so far

tableVars == <<table, params, loaded, paramCalls>>

TableInit ==
  /\ table = [groups |-> <<>>, nextPackageId |-> 2]
  /\ params = "any"
  /\ loaded = <<>>
  /\ paramCalls = 0

Put(f, x, v) == [y \in DOMAIN f \cup {x} |-> IF y = x THEN v ELSE f[y]]

-----------------------------------------------------------------------------
(* Idmaps.  One maps a type: entries from offset on, NO_ENTRY where the      *)
(* overlay has nothing.                                                      *)

IndexOf(named, name) == {i \in DOMAIN named : named[i].name = name}

(* Mutant: the entries between two that are overlaid are not filled up.      *)
Bug_NoHoles(map, i, name, entries) ==
  LET found == IndexOf(entries, name) IN
  IF found = {} THEN IF map.entries = <<>> THEN [map EXCEPT !.offset = @ + 1] ELSE map
  ELSE [map EXCEPT !.entries = Append(@, (CHOOSE e \in found : TRUE) - 1)]

(* An overlay only has what is found under the same type and entry name.     *)
AddEntry(map, i, name, entries) ==
  LET found == IndexOf(entries, name) IN
  IF found = {} THEN IF map.entries = <<>> THEN [map EXCEPT !.offset = @ + 1] ELSE map
  ELSE LET holes == (i - 1) - (map.offset + Len(map.entries))
       IN [map EXCEPT !.entries =
             @ \o [h \in 1 .. holes |-> NO_ENTRY]
               \o << (CHOOSE e \in found : TRUE) - 1 >>]

(* The map of type t, of these entries, to a type of these entries.          *)
MapEntries(t, mine, o, theirs) ==
  LET map[i \in 0 .. Len(mine)] ==
        IF i = 0 THEN [targetType |-> t, overlayType |-> o, offset |-> 0, entries |-> <<>>]
        ELSE AddEntry(map[i - 1], i, mine[i].name, theirs)
  IN map[Len(mine)]
MapType(t, type, overlay) ==
  LET found == IndexOf(overlay.types, type.name) IN
  IF found = {} THEN {}
  ELSE LET o == CHOOSE x \in found : TRUE
           m == MapEntries(t, type.entries, o, overlay.types[o].entries)
       IN IF m.entries = <<>> THEN {} ELSE {m}
(* The set of maps of the types that have one.                               *)
createIdmap(target, overlay) ==
  UNION {MapType(t, target.types[t], overlay) : t \in DOMAIN target.types}

(* IdmapEntries::lookup: the entry of the overlay, from 1, or 0.             *)
lookup(map, entry) ==
  LET i == entry - 1 - map.offset IN
  IF i < 0 \/ i >= Len(map.entries) \/ map.entries[i + 1] = NO_ENTRY THEN 0
  ELSE map.entries[i + 1] + 1

-----------------------------------------------------------------------------
(* Adding packages.                                                         *)

(* DynamicRefTable: the names of the library table (entries), and the table  *)
(* from build-time to run-time package IDs where there is one.               *)
NoRefs == [entries |-> << >>, ids |-> [p \in {SYS_PACKAGE_ID, APP_PACKAGE_ID} |-> p]]
addMapping(refs, name, id) ==
  IF name \notin DOMAIN refs.entries THEN refs
  ELSE [refs EXCEPT !.ids = Put(refs.ids, refs.entries[name], id)]

(* Mutant: those who are there already do not learn it.                      *)
Bug_TellNobody(groups, name, id) ==
  Append(groups, [name |-> name, id |-> id, files |-> <<>>, types |-> << >>, refs |-> NoRefs])

(* Everybody who refers to a new package learns its ID.                      *)
addGroup(groups, name, id) ==
  LET new == [name |-> name, id |-> id, files |-> <<>>,
              types |-> << >>, refs |-> NoRefs]
      all == Append(groups, new)
  IN [g \in DOMAIN all |-> [all[g] EXCEPT !.refs = addMapping(@, name, id)]]

(* A library table is loaded if it is the first one of its group, and filled *)
(* with the packages already there.                                          *)
MapGroups(refs, groups) ==
  LET mapped[g \in 0 .. Len(groups)] ==
        IF g = 0 THEN refs ELSE addMapping(mapped[g - 1], groups[g].name, groups[g].id)
  IN mapped[Len(groups)]
loadLibraries(group, libs, groups) ==
  IF group.refs.entries # << >> \/ libs = << >> THEN group
  ELSE [group EXCEPT !.refs = MapGroups([@ EXCEPT !.entries = libs], groups)]

(* A type goes to the type that its idmap says, or else to its own index.    *)
addType(types, file, k, maps) ==
  LET map == {m \in maps : m.overlayType = k}
      t == IF map = {} THEN k ELSE (CHOOSE m \in map : TRUE).targetType
      new == [file |-> file.name, type |-> file.types[k], maps |-> map]
  IN Put(types, t, Append(IF t \in DOMAIN types THEN types[t] ELSE <<>>, new))
addTypes(types, file, maps) ==
  LET added[k \in 0 .. Len(file.types)] ==
        IF k = 0 THEN types ELSE addType(added[k - 1], file, k, maps)
  IN added[Len(file.types)]

GroupsWith(tb, id) == {g \in DOMAIN tb.groups : tb.groups[g].id = id}

parsePackage(tb, file, maps, targetID) ==
  LET overlay == maps # {}
      library == ~overlay /\ file.id = 0
      id == IF overlay THEN targetID
            ELSE IF library THEN tb.nextPackageId ELSE file.id
      new == GroupsWith(tb, id) = {}
      groups == IF new THEN addGroup(tb.groups, file.name, id) ELSE tb.groups
      g == IF new THEN Len(groups) ELSE CHOOSE i \in GroupsWith(tb, id) : TRUE
      filled == [groups[g] EXCEPT !.files = Append(@, file),
                                  !.types = addTypes(@, file, maps)]
  IN [groups |-> [i \in DOMAIN groups |->
                    IF i = g THEN loadLibraries(filled, file.libs, groups) ELSE groups[i]],
      nextPackageId |-> tb.nextPackageId + (IF library THEN 1 ELSE 0)]

IsLoaded(file) == file \in ToSet(loaded)
TargetGroup(file) == {g \in DOMAIN table.groups : table.groups[g].name = file.target}

add(file) ==
  /\ ~IsLoaded(file) /\ file.target = NoName
  /\ table' = parsePackage(table, file, {}, 0)
  /\ loaded' = Append(loaded, file)
  /\ UNCHANGED <<params, paramCalls>>
(* The idmap names the package by the ID that it has in the table of the     *)
(* idmap tool: with nothing but the package in it, a library gets the first  *)
(* ID there, whatever it has got here.                                       *)
IdmapTarget(main) == IF main.id = 0 THEN 2 ELSE main.id

(* An overlay comes after its target, with the idmap made of both; without   *)
(* anything in common there is none, and it is left out.                     *)
addOverlay(file) ==
  /\ ~IsLoaded(file)
  /\ \E g \in TargetGroup(file) :
       LET main == table.groups[g].files[1]
           maps == createIdmap(main, file)
       IN maps # {} /\ table' = parsePackage(table, file, maps, IdmapTarget(main))
  /\ loaded' = Append(loaded, file)
  /\ UNCHANGED <<params, paramCalls>>
(* add of another table: a new table takes over the framework from the      *)
(* shared one, but not its counter of package IDs.                           *)
addShared(file) ==
  /\ loaded = <<>> /\ file.id = SYS_PACKAGE_ID /\ file.target = NoName
  /\ table' = [groups |-> parsePackage(table, file, {}, 0).groups,
               nextPackageId |-> table.nextPackageId]
  /\ loaded' = <<file>>
  /\ UNCHANGED <<params, paramCalls>>

-----------------------------------------------------------------------------
(* Looking up.                                                              *)

GroupOf(id) == CHOOSE g \in DOMAIN table.groups : table.groups[g].id = id[1]
HasGroup(id) == \E g \in DOMAIN table.groups : table.groups[g].id = id[1]

(* getEntry: the candidates of all types, in order; a later one replaces a   *)
(* worse one, and in an overlay also an equal one (see ResTableConfig).      *)
Candidate(type, entry, c) ==
  LET overlay == type.maps # {}
      e == IF overlay THEN lookup(CHOOSE m \in type.maps : TRUE, entry) ELSE entry
      here == IF e \in DOMAIN type.type.entries THEN type.type.entries[e]
              ELSE [name |-> NoName, defs |-> << >>]
  IN [config |-> c, overlay |-> overlay, file |-> type.file, type |-> type.type.name,
      name |-> here.name, defs |-> here.defs,
      fits |-> c \in DOMAIN here.defs /\ c \in {"any", params}]
BetterOf(found, c) ==
  IF ~c.fits THEN found
  ELSE IF found = {} \/ \E b \in found : \/ c.config = "land" /\ b.config = "any"
                                         \/ c.overlay /\ c.config = b.config
  THEN {c} ELSE found
(* The set of the best candidate.                                            *)
BestEntry(types, entry) ==
  LET found[i \in 0 .. Len(types)] ==
        IF i = 0 THEN {}
        ELSE BetterOf(BetterOf(found[i - 1], Candidate(types[i], entry, "any")),
                      Candidate(types[i], entry, "land"))
  IN found[Len(types)]
getEntry(id) ==
  IF ~HasGroup(id) \/ id[2] \notin DOMAIN table.groups[GroupOf(id)].types THEN {}
  ELSE BestEntry(table.groups[GroupOf(id)].types[id[2]], id[3])
ValueOf(entry) == entry.defs[entry.config]

(* lookupResourceId, for one who is in group: the set of the translated ID,  *)
(* empty if there is no mapping.                                             *)
lookupResourceId(group, id) ==
  IF id[1] = APP_PACKAGE_ID THEN {id}
  ELSE IF id[1] = 0 THEN {<<group.id, id[2], id[3]>>}
  ELSE IF id[1] \notin DOMAIN group.refs.ids THEN {}
  ELSE {<<group.refs.ids[id[1]], id[2], id[3]>>}
lookupResourceValue(group, value) ==
  IF value.kind # "dynamic" THEN {value}
  ELSE {[kind |-> "reference", data |-> id] : id \in lookupResourceId(group, value.data)}

-----------------------------------------------------------------------------
setParameters(p) ==
  /\ paramCalls < MaxParams
  /\ paramCalls' = paramCalls + 1
  /\ params' = p
  /\ UNCHANGED <<table, loaded>>

AddPackage == \E f \in File : add(f) \/ addOverlay(f) \/ addShared(f)
TableNext == AddPackage \/ \E p \in Config : setParameters(p)
TableSpec == TableInit /\ [][TableNext]_tableVars

-----------------------------------------------------------------------------
(* What aapt makes of packages: different names for the types of a package   *)
(* and the entries of a type, different names and IDs for the packages, IDs  *)
(* that no library gets, libraries under different IDs, and overlays of      *)
(* packages with an ID of their own that have only types with something to   *)
(* overlay. Other types of an overlay go where they do not belong, and so    *)
(* does an overlay of a library that is not the first one (IdmapTarget).     *)
Distinct(named) ==
  /\ named \in Seq(ToSet(named))
  /\ \A i, j \in DOMAIN named : named[i].name = named[j].name => i = j
InCommon(x, y) ==
  x.name = y.name /\ \E a \in ToSet(x.entries), b \in ToSet(y.entries) : a.name = b.name
LibraryIDs == 2 .. APP_PACKAGE_ID - 1
WellFormed(files) ==
  /\ IsFiniteSet(files) /\ Cardinality(files) < Cardinality(LibraryIDs)
  /\ \A f \in files : /\ Distinct(f.types)
                      /\ \A x \in ToSet(f.types) : Distinct(x.entries)
                      /\ f.target = NoName => f.id \in Nat \ LibraryIDs
                      /\ \A x, y \in DOMAIN f.libs : /\ f.libs[x] \in LibraryIDs
                                                     /\ f.libs[x] = f.libs[y] => x = y
  /\ \A f, h \in files : f.target = NoName /\ h.target = NoName /\ f # h =>
                           f.name # h.name /\ (f.id # h.id \/ f.id = 0)
  /\ \A f, main \in files : f.target = main.name =>
       /\ main.id # 0
       /\ \A x \in ToSet(f.types) : \E y \in ToSet(main.types) : InCommon(x, y)

-----------------------------------------------------------------------------
(* File f has a definition of that type and name.                            *)
Has(f, type, e, c) ==
  \E x \in ToSet(f.types) : x.name = type.name /\
    \E y \in ToSet(x.entries) : y.name = type.entries[e].name /\ c \in DOMAIN y.defs

(* A definition comes from the package or from an overlay of it that has     *)
(* something of that type and name, the last one of the best configuration.  *)
OverlaysByName ==
  \A g \in ToSet(table.groups) : \A t \in DOMAIN g.files[1].types :
    LET type == g.files[1].types[t] IN
    \A e \in DOMAIN type.entries :
      LET config == IF params = "land" /\ \E f \in ToSet(g.files) : Has(f, type, e, "land")
                    THEN "land" ELSE "any"
          places == {i \in DOMAIN g.files : Has(g.files[i], type, e, config)}
      IN \A last \in places : (\A i \in places : i <= last) =>
           \E found \in getEntry(<<g.id, t, e>>) :
             /\ found.file = g.files[last].name /\ found.config = config
             /\ found.type = type.name /\ found.name = type.entries[e].name

(* Whatever the order in which they are added, an ID that a package was      *)
(* compiled with for something in a library means that for it.               *)
LibrariesFound ==
  \A g, h \in ToSet(table.groups) : h.name \in DOMAIN g.files[1].libs =>
    \A t \in DOMAIN h.types : \A e \in DOMAIN h.files[1].types[t].entries :
      lookupResourceId(g, <<g.files[1].libs[h.name], t, e>>) = {<<h.id, t, e>>}
=============================================================================
